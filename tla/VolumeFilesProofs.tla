-------------------------- MODULE VolumeFilesProofs --------------------------
(***************************************************************************)
(* Proofs about VolumeFiles, for any names, raw paths, sizes, limits and   *)
(* requests: the volume stays a tree whatever is done beside each other,   *)
(* making, renaming, moving and copying lose no file, and a request that   *)
(* nothing is done beside leaves the volume within the limit, its files    *)
(* with the game.                                                          *)
(***************************************************************************)
EXTENDS VolumeFiles, SequenceTheorems, FiniteSetTheorems, WellFoundedInduction, TLAPS
----------------------------------------------------------------------------
(* Induction, and what a fold over a sequence comes to. *)

\* What holds 0, and with every number the next one, holds all there are up to n.
LEMMA AllTheWay ==
    ASSUME NEW n \in Nat, NEW S, 0 \in S, \A k \in 0 .. n - 1 : k \in S => k + 1 \in S
    PROVE  \A k \in 0 .. n : k \in S
<1> DEFINE T == {k \in 0 .. n : k \notin S}
<1> SUFFICES ASSUME T # {} PROVE FALSE OBVIOUS
<1>1. T \subseteq Nat OBVIOUS
<1>2. \E x \in T : \A y \in T : ~(<<y, x>> \in OpToRel(<, Nat)) BY <1>1, WFMin, NatLessThanWellFounded, Zenon
<1>3. PICK x \in T : \A y \in T : ~(y < x) BY <1>1, <1>2 DEF OpToRel
<1>4. x - 1 \in 0 .. n - 1 /\ x - 1 < x BY <1>3
<1>5. x - 1 \in S BY <1>3, <1>4
<1>6. (x - 1) + 1 \in S BY <1>4, <1>5
<1> QED BY <1>3, <1>6

\* Some natural numbers have a first one.
LEMMA FirstOfSome ==
    ASSUME NEW s \in SUBSET Nat, s # {}
    PROVE  Min(s) \in s /\ \A y \in s : Min(s) <= y
<1>1. \E x \in s : \A y \in s : ~(<<y, x>> \in OpToRel(<, Nat)) BY WFMin, NatLessThanWellFounded, Zenon
<1>2. PICK x \in s : \A y \in s : ~(y < x) BY <1>1 DEF OpToRel
<1>3. \A y \in s : x =< y BY <1>2
<1> QED BY <1>3 DEF Min

\* Some of the first n numbers have a last one.
LEMMA LastOfSome ==
    ASSUME NEW n \in Nat, NEW s \in SUBSET (1 .. n), s # {}
    PROVE  Max(s) \in s /\ \A y \in s : y <= Max(s)
<1> DEFINE T == {n - y : y \in s}
<1>1. T \subseteq Nat BY s \subseteq Int
<1>2. T # {} OBVIOUS
<1>3. PICK x \in T : \A y \in T : x <= y BY <1>1, <1>2, FirstOfSome
<1>4. PICK z \in s : x = n - z BY <1>3
<1>5. \A y \in s : z >= y
  <2> TAKE y \in s
  <2>1. x <= n - y BY <1>3
  <2> QED BY <1>4, <2>1
<1> HIDE DEF T
<1>6. Max(s) \in s /\ \A y \in s : Max(s) >= y BY <1>4, <1>5 DEF Max
<1> QED BY <1>6

\* g has, for each set of the first n numbers, the steps at them done in order.
Staged(g, n, base, step) ==
    \A s \in SUBSET (1 .. n) : g[s] = IF s = {} THEN base ELSE step[<<Max(s), g[s \ {Max(s)}]>>]

\* There is such a function, whatever the steps are.
LEMMA Stages ==
    ASSUME NEW n \in Nat, NEW Acc, NEW base \in Acc, NEW step \in [(1 .. n) \X Acc -> Acc]
    PROVE  \E g \in [SUBSET (1 .. n) -> Acc] : Staged(g, n, base, step)
<1> DEFINE S == {k \in 0 .. n : \E g \in [SUBSET (1 .. k) -> Acc] : Staged(g, k, base, step)}
<1>1. 0 \in S
  <2> DEFINE g == [s \in SUBSET (1 .. 0) |-> base]
  <2>1. \A s \in SUBSET (1 .. 0) : s = {} OBVIOUS
  <2>2. g \in [SUBSET (1 .. 0) -> Acc] OBVIOUS
  <2>3. Staged(g, 0, base, step) BY <2>1 DEF Staged
  <2>4. 0 \in 0 .. n OBVIOUS
  <2> HIDE DEF g
  <2> QED BY <2>2, <2>3, <2>4
<1>2. ASSUME NEW k \in 0 .. n - 1, k \in S PROVE k + 1 \in S
  <2>1. PICK g \in [SUBSET (1 .. k) -> Acc] : Staged(g, k, base, step) BY <1>2
  <2> DEFINE h == [s \in SUBSET (1 .. k + 1) |-> IF k + 1 \in s THEN step[<<k + 1, g[s \ {k + 1}]>>] ELSE g[s]]
  <2>2. \A s \in SUBSET (1 .. k + 1) : s \ {k + 1} \in SUBSET (1 .. k) OBVIOUS
  <2>3. \A s \in SUBSET (1 .. k + 1) : k + 1 \notin s => s \in SUBSET (1 .. k) OBVIOUS
  <2>4. h \in [SUBSET (1 .. k + 1) -> Acc] BY <2>2, <2>3
  <2>5. ASSUME NEW s \in SUBSET (1 .. k + 1)
        PROVE  h[s] = IF s = {} THEN base ELSE step[<<Max(s), h[s \ {Max(s)}]>>]
    <3>1. CASE k + 1 \in s
      <4>1. Max(s) = k + 1
        <5>1. s # {} /\ k + 1 \in Nat BY <3>1
        <5>2. Max(s) \in s /\ \A y \in s : y <= Max(s) BY <5>1, LastOfSome
        <5>3. Max(s) \in 1 .. k + 1 /\ k + 1 <= Max(s) BY <3>1, <5>2
        <5> QED BY <5>3
      <4>2. h[s \ {k + 1}] = g[s \ {k + 1}] BY <2>2
      <4> QED BY <3>1, <4>1, <4>2
    <3>2. CASE k + 1 \notin s
      <4>1. s \in SUBSET (1 .. k) /\ h[s] = g[s] BY <2>3, <3>2
      <4>2. h[s \ {Max(s)}] = g[s \ {Max(s)}] BY <3>2
      <4>3. g[s] = IF s = {} THEN base ELSE step[<<Max(s), g[s \ {Max(s)}]>>] BY <2>1, <4>1 DEF Staged
      <4> QED BY <4>1, <4>2, <4>3
    <3> QED BY <3>1, <3>2
  <2>6. k + 1 \in 0 .. n OBVIOUS
  <2> HIDE DEF h
  <2>7. Staged(h, k + 1, base, step) BY <2>5 DEF Staged
  <2> QED BY <2>4, <2>6, <2>7
<1> HIDE DEF S
<1>3. \A k \in 0 .. n : k \in S BY <1>1, <1>2, AllTheWay
<1>4. n \in S BY <1>3
<1> QED BY <1>4 DEF S

\* The same of a function that is only known to do the steps where they are defined.
Steps(f, n, Acc, step) ==
    \A s \in SUBSET (1 .. n) : s # {} /\ f[s \ {Max(s)}] \in Acc => f[s] = step[<<Max(s), f[s \ {Max(s)}]>>]

OneByOne(f, n, Acc, step) ==
    \A k \in 0 .. n : f[1 .. k] \in Acc /\ (k # 0 => f[1 .. k] = step[<<k, f[1 .. k - 1]>>])

\* It does them one number after the other.
LEMMA StageByStage ==
    ASSUME NEW n \in Nat, NEW Acc, NEW base \in Acc, NEW step \in [(1 .. n) \X Acc -> Acc], NEW f, f[{}] = base,
           Steps(f, n, Acc, step)
    PROVE  OneByOne(f, n, Acc, step)
<1> DEFINE S == {k \in 0 .. n : f[1 .. k] \in Acc /\ (k # 0 => f[1 .. k] = step[<<k, f[1 .. k - 1]>>])}
<1>1. 0 \in S
  <2>1. 1 .. 0 = {} OBVIOUS
  <2> QED BY <2>1
<1>2. ASSUME NEW k \in 0 .. n - 1, k \in S PROVE k + 1 \in S
  <2>1. (1 .. k + 1) \ {k + 1} = 1 .. k /\ 1 .. k + 1 \in SUBSET (1 .. n) /\ 1 .. k + 1 # {} OBVIOUS
  <2>2. Max(1 .. k + 1) = k + 1
    <3>1. Max(1 .. k + 1) \in 1 .. k + 1 /\ \A y \in 1 .. k + 1 : y <= Max(1 .. k + 1) BY <2>1, LastOfSome
    <3>2. k + 1 \in 1 .. k + 1 OBVIOUS
    <3> HIDE <2>1
    <3> QED BY <3>1, <3>2
  <2>3. f[1 .. k] \in Acc BY <1>2
  <2>4. f[1 .. k + 1] = step[<<k + 1, f[1 .. k]>>] BY <2>1, <2>2, <2>3 DEF Steps
  <2>5. (k + 1) - 1 = k /\ k + 1 \in 0 .. n /\ k + 1 \in 1 .. n OBVIOUS
  <2>6. step[<<k + 1, f[1 .. k]>>] \in Acc BY <2>3, <2>5
  <2> QED BY <2>4, <2>5, <2>6
<1> HIDE DEF S
<1>3. \A k \in 0 .. n : k \in S BY <1>1, <1>2, AllTheWay
<1> QED BY <1>3 DEF S, OneByOne
----------------------------------------------------------------------------
(* Paths. *)

Places == Paths \cup {Root}

LEMMA SeqIs ==
    ASSUME NEW S, NEW s \in Seq(S)
    PROVE  Len(s) \in Nat /\ DOMAIN s = 1 .. Len(s) /\ \A i \in 1 .. Len(s) : s[i] \in S
OBVIOUS

\* A path is some names, and no more than there may be.
LEMMA PathIs == \A p : p \in Paths <=> p \in Seq(Names) /\ Len(p) \in 1 .. MaxDepth
<1>0. MaxDepth \in Nat BY NumbersAssumption
<1>1. ASSUME NEW p \in Paths PROVE p \in Seq(Names) /\ Len(p) \in 1 .. MaxDepth
  <2>1. PICK n \in 1 .. MaxDepth, l \in [1 .. MaxDepth -> Names] : p = Cut(l, n) BY DEF Paths
  <2>2. \A i \in 1 .. n : l[i] \in Names BY <1>0
  <2>3. /\ SubSeq(l, 1, n) \in Seq(Names)
        /\ Len(SubSeq(l, 1, n)) = IF 1 <= n THEN n - 1 + 1 ELSE 0
    BY <1>0, <2>2, SubSeqProperties
  <2> QED BY <1>0, <2>1, <2>3 DEF Cut
<1>2. ASSUME NEW p \in Seq(Names), Len(p) \in 1 .. MaxDepth PROVE p \in Paths
  <2> DEFINE n == Len(p)
             l == [i \in 1 .. MaxDepth |-> IF i \in 1 .. n THEN p[i] ELSE "f"]
  <2>1. n \in 1 .. MaxDepth /\ \A i \in 1 .. n : p[i] \in Names BY <1>2, SeqIs
  <2>2. l \in [1 .. MaxDepth -> Names] BY <2>1, NamesAssumption
  <2>3. \A i \in 1 .. n : i \in 1 .. MaxDepth /\ l[i] = p[i] BY <1>0, <2>1
  <2> HIDE DEF l
  <2>4. \A i \in 1 .. n : l[i] \in Names BY <2>1, <2>3
  <2>5. /\ SubSeq(l, 1, n) \in Seq(Names)
        /\ Len(SubSeq(l, 1, n)) = IF 1 <= n THEN n - 1 + 1 ELSE 0
        /\ \A i \in 1 .. n - 1 + 1 : SubSeq(l, 1, n)[i] = l[1 + i - 1]
    BY <1>0, <2>1, <2>4, SubSeqProperties
  <2>6. Len(SubSeq(l, 1, n)) = n /\ \A i \in 1 .. n : SubSeq(l, 1, n)[i] = p[i] BY <1>0, <2>1, <2>3, <2>5
  <2>7. SubSeq(l, 1, n) = p BY <1>2, <2>5, <2>6, SeqEqual
  <2> HIDE DEF n
  <2>8. n \in 1 .. MaxDepth /\ l \in [1 .. MaxDepth -> Names] BY <2>1, <2>2
  <2>9. Cut(l, n) \in Paths BY <2>8 DEF Paths
  <2> QED BY <2>7, <2>9 DEF Cut
<1> QED BY <1>1, <1>2

LEMMA PlaceIs == \A p : p \in Places <=> p \in Seq(Names) /\ Len(p) <= MaxDepth
<1>0. MaxDepth \in Nat BY NumbersAssumption
<1>1. Root \in Seq(Names) /\ Len(Root) = 0 BY DEF Root
<1>2. \A p \in Seq(Names) : Len(p) \in Nat /\ (Len(p) = 0 => p = Root) BY EmptySeq DEF Root
<1>3. ASSUME NEW p \in Places PROVE p \in Seq(Names) /\ Len(p) <= MaxDepth
  <2>1. CASE p \in Paths
    <3>1. p \in Seq(Names) /\ Len(p) \in 1 .. MaxDepth BY <2>1, PathIs
    <3> QED BY <1>0, <3>1
  <2>2. CASE p = Root BY <1>0, <1>1, <2>2
  <2> QED BY <2>1, <2>2 DEF Places
<1>4. ASSUME NEW p \in Seq(Names), Len(p) <= MaxDepth PROVE p \in Places
  <2>1. Len(p) \in Nat /\ (Len(p) = 0 => p = Root) BY <1>2
  <2>2. CASE Len(p) # 0
    <3>1. Len(p) \in 1 .. MaxDepth BY <1>0, <1>4, <2>1, <2>2
    <3>2. p \in Paths BY <3>1, PathIs
    <3> QED BY <3>2 DEF Places
  <2> QED BY <2>1, <2>2 DEF Places
<1> QED BY <1>3, <1>4

LEMMA RootIs == Root \in Places /\ Root \notin Paths /\ Paths \subseteq Places
BY PathIs DEF Places, Root

\* Within a path is what begins with it.
LEMMA WithinIs ==
    ASSUME NEW p \in Seq(Names), NEW q \in Seq(Names)
    PROVE  Within(p, q) <=> Len(q) <= Len(p) /\ \A i \in 1 .. Len(q) : p[i] = q[i]
<1>1. Len(p) \in Nat /\ Len(q) \in Nat /\ \A i \in 1 .. Len(p) : p[i] \in Names BY SeqIs
<1>2. SubSeq(q, 1, Len(q)) = q BY SubSeqFull
<1>3. ASSUME Len(q) <= Len(p) PROVE (SubSeq(p, 1, Len(q)) = q) <=> \A i \in 1 .. Len(q) : p[i] = q[i]
  <2>1. \A i \in 1 .. Len(q) : p[i] \in Names BY <1>1, <1>3
  <2>2. /\ SubSeq(p, 1, Len(q)) \in Seq(Names)
        /\ Len(SubSeq(p, 1, Len(q))) = IF 1 <= Len(q) THEN Len(q) - 1 + 1 ELSE 0
        /\ \A i \in 1 .. Len(q) - 1 + 1 : SubSeq(p, 1, Len(q))[i] = p[1 + i - 1]
    BY <1>1, <2>1, SubSeqProperties
  <2>3. Len(SubSeq(p, 1, Len(q))) = Len(q) /\ \A i \in 1 .. Len(q) : SubSeq(p, 1, Len(q))[i] = p[i] BY <1>1, <2>2
  <2> QED BY <2>2, <2>3, SeqEqual
<1> QED BY <1>2, <1>3 DEF Within, IsPrefix

LEMMA ParentHas ==
    ASSUME NEW p \in Paths
    PROVE  /\ p \in Seq(Names) /\ Len(p) \in 1 .. MaxDepth
           /\ Parent(p) \in Seq(Names) /\ Len(Parent(p)) = Len(p) - 1
           /\ \A i \in 1 .. Len(p) - 1 : Parent(p)[i] = p[i]
           /\ Base(p) = p[Len(p)] /\ Base(p) \in Names
<1>0. MaxDepth \in Nat BY NumbersAssumption
<1>1. p \in Seq(Names) /\ Len(p) \in 1 .. MaxDepth /\ \A i \in 1 .. Len(p) : p[i] \in Names BY PathIs, SeqIs
<1>2. \A i \in 1 .. Len(p) - 1 : p[i] \in Names BY <1>0, <1>1
<1>3. /\ SubSeq(p, 1, Len(p) - 1) \in Seq(Names)
      /\ Len(SubSeq(p, 1, Len(p) - 1)) = IF 1 <= Len(p) - 1 THEN Len(p) - 1 - 1 + 1 ELSE 0
      /\ \A i \in 1 .. Len(p) - 1 - 1 + 1 : SubSeq(p, 1, Len(p) - 1)[i] = p[1 + i - 1]
  BY <1>0, <1>1, <1>2, SubSeqProperties
<1>4. Parent(p) = SubSeq(p, 1, Len(p) - 1) BY DEF Parent, Front
<1>5. Len(Parent(p)) = Len(p) - 1
  <2> DEFINE n == Len(p)
  <2>0. n \in 1 .. MaxDepth BY <1>1
  <2> HIDE DEF n
  <2>3. n = 1 \/ 1 <= n - 1 BY <1>0, <2>0
  <2>1. Len(p) = 1 \/ 1 <= Len(p) - 1 BY <2>3 DEF n
  <2>2. Len(SubSeq(p, 1, Len(p) - 1)) = Len(p) - 1 BY <1>0, <1>1, <1>3, <2>1
  <2> QED BY <1>4, <2>2
<1>6. \A i \in 1 .. Len(p) - 1 : Parent(p)[i] = p[i] BY <1>0, <1>1, <1>3, <1>4
<1>7. Base(p) = p[Len(p)] BY DEF Base, Last
<1>8. Len(p) \in 1 .. Len(p) BY <1>0, <1>1
<1>9. Base(p) \in Names BY <1>1, <1>7, <1>8
<1> QED BY <1>1, <1>3, <1>4, <1>5, <1>6, <1>7, <1>9

\* What is above a path, and beside it.
LEMMA ParentIs ==
    ASSUME NEW p \in Paths
    PROVE  /\ Parent(p) \in Places /\ Parent(p) # p /\ Base(p) \in Names /\ p = Append(Parent(p), Base(p))
           /\ Within(p, p) /\ Within(p, Parent(p)) /\ ~Within(Parent(p), p)
           /\ \A n \in Names : Append(Parent(p), n) \in Paths /\ Parent(Append(Parent(p), n)) = Parent(p)
<1>0. MaxDepth \in Nat BY NumbersAssumption
<1> DEFINE u == Parent(p)
           b == Base(p)
<1>1. /\ p \in Seq(Names) /\ Len(p) \in 1 .. MaxDepth /\ u \in Seq(Names) /\ Len(u) = Len(p) - 1
      /\ \A i \in 1 .. Len(p) - 1 : u[i] = p[i]
      /\ b = p[Len(p)] /\ b \in Names
  BY ParentHas
<1> HIDE DEF u, b
<1>2. u \in Places BY <1>0, <1>1, PlaceIs
<1>3. u # p BY <1>0, <1>1
<1>4. \A n \in Names : /\ Append(u, n) \in Seq(Names) /\ Len(Append(u, n)) = Len(p)
                        /\ \A i \in 1 .. Len(p) - 1 : Append(u, n)[i] = u[i]
                        /\ Append(u, n)[Len(p)] = n
  <2> TAKE n \in Names
  <2>1. /\ Append(u, n) \in Seq(Names) /\ Len(Append(u, n)) = Len(u) + 1
        /\ \A i \in 1 .. Len(u) : Append(u, n)[i] = u[i]
        /\ Append(u, n)[Len(u) + 1] = n
    BY <1>1, AppendProperties
  <2>2. Len(u) + 1 = Len(p) BY <1>0, <1>1
  <2> QED BY <1>1, <2>1, <2>2
<1>5. Append(u, b) = p
  <2>1. \A i \in 1 .. Len(p) : i \in 1 .. Len(p) - 1 \/ i = Len(p) BY <1>0, <1>1
  <2>2. \A i \in 1 .. Len(p) : Append(u, b)[i] = p[i] BY <1>1, <1>4, <2>1
  <2> QED BY <1>1, <1>4, <2>2, SeqEqual
<1>6. Within(p, p) /\ Within(p, u) /\ ~Within(u, p) BY <1>0, <1>1, WithinIs
<1>7. ASSUME NEW n \in Names PROVE Append(u, n) \in Paths /\ Parent(Append(u, n)) = u
  <2> DEFINE c == Append(u, n)
  <2>1. c \in Seq(Names) /\ Len(c) = Len(p) /\ \A i \in 1 .. Len(p) - 1 : c[i] = u[i] BY <1>4
  <2> HIDE DEF c
  <2>2. c \in Paths BY <1>1, <2>1, PathIs
  <2>3. Parent(c) \in Seq(Names) /\ Len(Parent(c)) = Len(c) - 1 /\ \A i \in 1 .. Len(c) - 1 : Parent(c)[i] = c[i]
    BY <2>2, ParentHas
  <2>4. Len(Parent(c)) = Len(u) /\ \A i \in 1 .. Len(Parent(c)) : Parent(c)[i] = u[i] BY <1>0, <1>1, <2>1, <2>3
  <2>5. Parent(c) = u BY <1>1, <2>3, <2>4, SeqEqual
  <2> QED BY <2>2, <2>5 DEF c
<1> QED BY <1>1, <1>2, <1>3, <1>5, <1>6, <1>7 DEF u, b

\* What is in a folder has it for its parent.
LEMMA ChildIs ==
    ASSUME NEW q \in Places, NEW n \in Names, Append(q, n) \in Paths
    PROVE  Parent(Append(q, n)) = q /\ Base(Append(q, n)) = n /\ Within(Append(q, n), q)
<1>0. MaxDepth \in Nat BY NumbersAssumption
<1> DEFINE c == Append(q, n)
<1>1. q \in Seq(Names) BY PlaceIs
<1>2. c \in Seq(Names) /\ Len(c) = Len(q) + 1 /\ (\A i \in 1 .. Len(q) : c[i] = q[i]) /\ c[Len(q) + 1] = n
  BY <1>1, AppendProperties
<1>3. c \in Paths OBVIOUS
<1> HIDE DEF c
<1>4. /\ Parent(c) \in Seq(Names) /\ Len(Parent(c)) = Len(c) - 1 /\ \A i \in 1 .. Len(c) - 1 : Parent(c)[i] = c[i]
      /\ Base(c) = c[Len(c)]
  BY <1>3, ParentHas
<1>5. Len(Parent(c)) = Len(q) /\ \A i \in 1 .. Len(Parent(c)) : Parent(c)[i] = q[i]
  <2>1. Len(q) \in Nat BY <1>1, SeqIs
  <2> QED BY <1>2, <1>4, <2>1
<1>6. Parent(c) = q BY <1>1, <1>4, <1>5, SeqEqual
<1>7. Within(c, q)
  <2>1. Len(q) \in Nat BY <1>1, SeqIs
  <2> QED BY <1>1, <1>2, <2>1, WithinIs
<1> QED BY <1>2, <1>4, <1>6, <1>7 DEF c

\* Within is an order, and what a path is within is a chain.
LEMMA WithinOrders ==
    ASSUME NEW p \in Places, NEW q \in Places, NEW r \in Places
    PROVE  /\ Within(p, p) /\ Within(p, Root)
           /\ Within(p, q) /\ Within(q, r) => Within(p, r)
           /\ Within(p, q) /\ Within(q, p) => p = q
           /\ Within(p, q) /\ Within(p, r) => Within(q, r) \/ Within(r, q)
<1>1. p \in Seq(Names) /\ q \in Seq(Names) /\ r \in Seq(Names) BY PlaceIs
<1>2. Len(p) \in Nat /\ Len(q) \in Nat /\ Len(r) \in Nat BY <1>1, SeqIs
<1>3. Within(p, p) BY <1>1, <1>2, WithinIs
<1>4. Within(p, Root)
  <2>1. Root \in Seq(Names) /\ Len(Root) = 0 BY DEF Root
  <2>2. Len(Root) <= Len(p) /\ \A i \in 1 .. Len(Root) : p[i] = Root[i] BY <1>2, <2>1
  <2> QED BY <1>1, <2>1, <2>2, WithinIs
<1>5. Within(p, q) /\ Within(q, r) => Within(p, r) BY <1>1, <1>2, WithinIs
<1>6. ASSUME Within(p, q), Within(q, p) PROVE p = q
  <2>1. Len(p) = Len(q) /\ \A i \in 1 .. Len(p) : p[i] = q[i] BY <1>1, <1>2, <1>6, WithinIs
  <2> QED BY <1>1, <2>1, SeqEqual
<1>7. ASSUME Within(p, q), Within(p, r) PROVE Within(q, r) \/ Within(r, q)
  <2>1. (\A i \in 1 .. Len(q) : p[i] = q[i]) /\ (\A i \in 1 .. Len(r) : p[i] = r[i]) BY <1>1, <1>7, WithinIs
  <2>2. Len(q) <= Len(r) \/ Len(r) <= Len(q) BY <1>2
  <2> QED BY <1>1, <1>2, <2>1, <2>2, WithinIs
<1> QED BY <1>3, <1>4, <1>5, <1>6, <1>7

\* What is within another path has its parent there.
LEMMA WithinUp ==
    ASSUME NEW p \in Paths, NEW q \in Places, Within(p, q), p # q
    PROVE  Within(Parent(p), q)
<1>0. MaxDepth \in Nat BY NumbersAssumption
<1> DEFINE u == Parent(p)
<1>1. /\ p \in Seq(Names) /\ Len(p) \in 1 .. MaxDepth /\ u \in Seq(Names) /\ Len(u) = Len(p) - 1
      /\ \A i \in 1 .. Len(p) - 1 : u[i] = p[i]
  BY ParentHas
<1> HIDE DEF u
<1>2. q \in Seq(Names) BY PlaceIs
<1>3. Len(q) \in Nat /\ Len(q) <= Len(p) /\ \A i \in 1 .. Len(q) : p[i] = q[i] BY <1>1, <1>2, WithinIs, SeqIs
<1>4. Len(q) # Len(p)
  <2> SUFFICES ASSUME Len(q) = Len(p) PROVE FALSE OBVIOUS
  <2>1. \A i \in 1 .. Len(p) : p[i] = q[i] BY <1>3
  <2>2. p = q BY <1>1, <1>2, <2>1, SeqEqual
  <2> QED BY <2>2
<1>5. Len(q) <= Len(u) /\ \A i \in 1 .. Len(q) : u[i] = q[i] BY <1>0, <1>1, <1>3, <1>4
<1> QED BY <1>1, <1>2, <1>5, WithinIs DEF u

\* What is in old, at its place in new.
LEMMA RebaseHas ==
    ASSUME NEW old \in Paths, NEW new \in Paths, NEW p \in Paths, Within(p, old)
    PROVE  LET q == Rebase(p, old, new) IN
           /\ q \in Seq(Names) /\ Len(q) = Len(new) + Len(p) - Len(old)
           /\ \A i \in 1 .. Len(new) : q[i] = new[i]
           /\ \A i \in Len(new) + 1 .. Len(q) : q[i] = p[i - Len(new) + Len(old)]
<1>0. MaxDepth \in Nat BY NumbersAssumption
<1>1. old \in Seq(Names) /\ new \in Seq(Names) /\ p \in Seq(Names) /\ Len(old) \in 1 .. MaxDepth BY PathIs
<1>2. Len(old) \in Nat /\ Len(new) \in Nat /\ Len(p) \in Nat /\ \A i \in 1 .. Len(p) : p[i] \in Names BY <1>1, SeqIs
<1>3. Len(old) <= Len(p) BY <1>1, WithinIs
<1> DEFINE m == Len(old) + 1
           s == SubSeq(p, m, Len(p))
<1>4. m \in Int /\ \A i \in m .. Len(p) : p[i] \in Names BY <1>2
<1>5. /\ s \in Seq(Names) /\ Len(s) = (IF m <= Len(p) THEN Len(p) - m + 1 ELSE 0)
      /\ \A i \in 1 .. Len(p) - m + 1 : s[i] = p[m + i - 1]
  BY <1>2, <1>4, SubSeqProperties
<1>6. Len(s) = Len(p) - Len(old) /\ \A i \in 1 .. Len(s) : s[i] = p[Len(old) + i] BY <1>2, <1>3, <1>5
<1>7. Rebase(p, old, new) = new \o s BY DEF Rebase
<1> HIDE DEF s
<1>8. /\ new \o s \in Seq(Names) /\ Len(new \o s) = Len(new) + Len(s)
      /\ \A i \in 1 .. Len(new) + Len(s) : (new \o s)[i] = IF i <= Len(new) THEN new[i] ELSE s[i - Len(new)]
  BY <1>1, <1>5, ConcatProperties
<1> DEFINE q == Rebase(p, old, new)
<1>9. q \in Seq(Names) /\ Len(q) = Len(new) + Len(p) - Len(old) BY <1>2, <1>6, <1>7, <1>8
<1>10. \A i \in 1 .. Len(new) : q[i] = new[i]
  <2> TAKE i \in 1 .. Len(new)
  <2>1. i \in 1 .. Len(new) + Len(s) /\ i <= Len(new) BY <1>2, <1>3, <1>6
  <2> QED BY <1>7, <1>8, <2>1
<1>11. ASSUME NEW i \in Len(new) + 1 .. Len(q) PROVE q[i] = p[i - Len(new) + Len(old)]
  <2>1. i \in 1 .. Len(new) + Len(s) /\ ~(i <= Len(new)) /\ i - Len(new) \in 1 .. Len(s) BY <1>2, <1>3, <1>6, <1>9
  <2>2. q[i] = s[i - Len(new)] BY <1>7, <1>8, <2>1
  <2>3. s[i - Len(new)] = p[Len(old) + (i - Len(new))] BY <1>6, <2>1
  <2>4. Len(old) + (i - Len(new)) = i - Len(new) + Len(old) BY <1>2, <2>1
  <2> QED BY <2>2, <2>3, <2>4
<1> QED BY <1>9, <1>10, <1>11

\* It is in new, comes back from there, and its parent is what its parent becomes.
LEMMA RebaseIs ==
    ASSUME NEW old \in Paths, NEW new \in Paths, NEW p \in Paths, Within(p, old), Rebase(p, old, new) \in Paths
    PROVE  /\ Within(Rebase(p, old, new), new)
           /\ Rebase(Rebase(p, old, new), new, old) = p
           /\ p = old <=> Rebase(p, old, new) = new
           /\ p # old => /\ Parent(p) \in Paths /\ Within(Parent(p), old)
                         /\ Rebase(Parent(p), old, new) = Parent(Rebase(p, old, new))
<1>0. MaxDepth \in Nat BY NumbersAssumption
<1> DEFINE q == Rebase(p, old, new)
<1>1. /\ old \in Seq(Names) /\ new \in Seq(Names) /\ p \in Seq(Names) /\ q \in Seq(Names)
      /\ Len(old) \in Nat \ {0} /\ Len(new) \in Nat \ {0} /\ Len(p) \in Nat \ {0} /\ Len(p) <= MaxDepth
  BY <1>0, PathIs
<1>2. /\ Len(q) = Len(new) + Len(p) - Len(old)
      /\ \A i \in 1 .. Len(new) : q[i] = new[i]
      /\ \A i \in Len(new) + 1 .. Len(q) : q[i] = p[i - Len(new) + Len(old)]
  BY RebaseHas
<1>3. Len(old) <= Len(p) /\ \A i \in 1 .. Len(old) : p[i] = old[i] BY <1>1, WithinIs
<1>q. q \in Paths OBVIOUS
<1> HIDE DEF q
<1>4. Within(q, new) BY <1>1, <1>2, <1>3, WithinIs
<1>5. Rebase(q, new, old) = p
  <2> DEFINE b == Rebase(q, new, old)
  <2>1. /\ b \in Seq(Names) /\ Len(b) = Len(old) + Len(q) - Len(new)
        /\ \A i \in 1 .. Len(old) : b[i] = old[i]
        /\ \A i \in Len(old) + 1 .. Len(b) : b[i] = q[i - Len(old) + Len(new)]
    BY <1>4, <1>q, RebaseHas
  <2> HIDE DEF b
  <2>2. Len(b) = Len(p) BY <1>1, <1>2, <2>1
  <2>3. ASSUME NEW i \in 1 .. Len(b) PROVE b[i] = p[i]
    <3>1. CASE i <= Len(old) BY <1>1, <1>3, <2>1, <3>1
    <3>2. CASE i > Len(old)
      <4> DEFINE k == i - Len(old) + Len(new)
      <4>1. i \in Len(old) + 1 .. Len(b) /\ k \in Len(new) + 1 .. Len(q) /\ k - Len(new) + Len(old) = i
        BY <1>1, <1>2, <2>2, <3>2
      <4>2. b[i] = q[k] BY <2>1, <4>1
      <4>3. q[k] = p[k - Len(new) + Len(old)] BY <1>2, <4>1
      <4> QED BY <4>1, <4>2, <4>3
    <3>3. i <= Len(old) \/ i > Len(old) BY <1>1
    <3> QED BY <3>1, <3>2, <3>3
  <2>4. b = p BY <1>1, <2>1, <2>2, <2>3, SeqEqual
  <2> QED BY <2>4 DEF b
<1>6. p = old <=> q = new
  <2>1. ASSUME p = old PROVE q = new
    <3>1. Len(q) = Len(new) /\ \A i \in 1 .. Len(q) : q[i] = new[i] BY <1>1, <1>2, <2>1
    <3> QED BY <1>1, <3>1, SeqEqual
  <2>2. ASSUME q = new PROVE p = old
    <3>1. Len(p) = Len(old) BY <1>1, <1>2, <2>2
    <3>2. \A i \in 1 .. Len(p) : p[i] = old[i] BY <1>3, <3>1
    <3> QED BY <1>1, <3>1, <3>2, SeqEqual
  <2> QED BY <2>1, <2>2
<1>7. ASSUME p # old
      PROVE  Parent(p) \in Paths /\ Within(Parent(p), old) /\ Rebase(Parent(p), old, new) = Parent(q)
  <2> DEFINE u == Parent(p)
             v == Parent(q)
  <2>1. u \in Seq(Names) /\ Len(u) = Len(p) - 1 /\ \A i \in 1 .. Len(p) - 1 : u[i] = p[i] BY ParentHas
  <2>2. v \in Seq(Names) /\ Len(v) = Len(q) - 1 /\ \A i \in 1 .. Len(q) - 1 : v[i] = q[i] BY <1>q, ParentHas
  <2>3. Within(u, old) BY <1>7, WithinUp, RootIs
  <2> HIDE DEF u, v
  <2>4. Len(old) <= Len(u) BY <1>1, <2>1, <2>3, WithinIs
  <2>5. u \in Paths
    <3>1. Len(u) \in 1 .. MaxDepth BY <1>0, <1>1, <2>1, <2>4
    <3> QED BY <2>1, <3>1, PathIs
  <2> DEFINE w == Rebase(u, old, new)
  <2>6. /\ w \in Seq(Names) /\ Len(w) = Len(new) + Len(u) - Len(old)
        /\ \A i \in 1 .. Len(new) : w[i] = new[i]
        /\ \A i \in Len(new) + 1 .. Len(w) : w[i] = u[i - Len(new) + Len(old)]
    BY <2>3, <2>5, RebaseHas
  <2> HIDE DEF w
  <2>7. Len(w) = Len(v) BY <1>1, <1>2, <2>1, <2>2, <2>6
  <2>8. ASSUME NEW i \in 1 .. Len(w) PROVE w[i] = v[i]
    <3>1. i \in 1 .. Len(q) - 1 BY <2>2, <2>7
    <3>2. v[i] = q[i] BY <2>2, <3>1
    <3>3. CASE i <= Len(new)
      <4>1. i \in 1 .. Len(new) BY <1>1, <3>3
      <4> QED BY <1>2, <2>6, <3>2, <4>1
    <3>4. CASE i > Len(new)
      <4> DEFINE k == i - Len(new) + Len(old)
      <4>1. i \in Len(new) + 1 .. Len(q) /\ i \in Len(new) + 1 .. Len(w) /\ k \in 1 .. Len(p) - 1
        BY <1>1, <1>2, <2>2, <2>7, <3>1, <3>4
      <4>2. w[i] = u[k] /\ q[i] = p[k] /\ u[k] = p[k] BY <1>2, <2>1, <2>6, <4>1
      <4> QED BY <3>2, <4>2
    <3>5. i <= Len(new) \/ i > Len(new) BY <1>1
    <3> QED BY <3>3, <3>4, <3>5
  <2>9. w = v BY <2>2, <2>6, <2>7, <2>8, SeqEqual
  <2> QED BY <2>3, <2>5, <2>9 DEF u, v, w
<1> QED BY <1>4, <1>5, <1>6, <1>7 DEF q

\* Where a path goes with its next part.
StepIn(done, part) ==
    IF part = "." THEN done ELSE IF part = ".." THEN SubSeq(done, 1, Len(done) - 1) ELSE Append(done, part)

\* However a path is written, it is one of the volume.
LEMMA ResolveIs ==
    ASSUME NEW raw \in Raw
    PROVE  Resolve(raw) \in Seq(Names)
<1> DEFINE n == Len(raw)
           Acc == Seq(Names)
           step == [p \in (1 .. n) \X Acc |-> StepIn(p[2], raw[p[1]])]
<1>0. n \in Nat /\ DOMAIN raw = 1 .. n /\ \A k \in 1 .. n : raw[k] \in Names \cup {".", ".."}
  BY RawAssumption, SeqIs
<1>a. \A done \in Acc, part \in Names \cup {".", ".."} : StepIn(done, part) \in Acc
  <2> SUFFICES ASSUME NEW done \in Acc, NEW part \in Names \cup {".", ".."} PROVE StepIn(done, part) \in Acc OBVIOUS
  <2>1. Len(done) \in Nat /\ \A i \in 1 .. Len(done) - 1 : done[i] \in Names BY SeqIs
  <2>2. SubSeq(done, 1, Len(done) - 1) \in Acc BY <2>1, SubSeqProperties
  <2> QED BY <2>2, AppendProperties DEF StepIn
<1> HIDE DEF n
<1>2. step \in [(1 .. n) \X Acc -> Acc]
  <2> HIDE DEF Acc
  <2> QED BY <1>0, <1>a
<1>b. <<>> \in Acc OBVIOUS
<1> HIDE DEF Acc
<1>3. PICK g \in [SUBSET (1 .. n) -> Acc] : Staged(g, n, <<>>, step)
  <2> HIDE DEF step
  <2> QED BY <1>0, <1>b, <1>2, Stages
<1> DEFINE Made(q) == q = [s \in SUBSET (1 .. n) |->
                             IF s = {} THEN <<>>
                             ELSE IF raw[Max(s)] = "." THEN q[s \ {Max(s)}]
                             ELSE IF raw[Max(s)] = ".." THEN SubSeq(q[s \ {Max(s)}], 1, Len(q[s \ {Max(s)}]) - 1)
                             ELSE Append(q[s \ {Max(s)}], raw[Max(s)])]
           f == CHOOSE q : Made(q)
<1>4. \A s \in SUBSET (1 .. n) : s # {} => Max(s) \in 1 .. n BY <1>0, LastOfSome
<1>5. Made(g)
  <2>1. ASSUME NEW s \in SUBSET (1 .. n), s # {}
        PROVE  g[s] = StepIn(g[s \ {Max(s)}], raw[Max(s)])
    <3>1. g[s] = step[<<Max(s), g[s \ {Max(s)}]>>] BY <1>3, <2>1 DEF Staged
    <3> QED BY <1>4, <2>1, <3>1
  <2>2. g[{}] = <<>> BY <1>3 DEF Staged
  <2> HIDE DEF step
  <2> QED BY <2>1, <2>2 DEF StepIn
<1>6. Made(f) BY <1>5
<1>7. Resolve(raw) = f[1 .. n]
  BY <1>0 DEF Resolve, FoldLeft, MapThenFoldSet
<1> HIDE DEF f
<1>8. f[{}] = <<>> BY <1>6
<1>9. Steps(f, n, Acc, step)
  <2> SUFFICES ASSUME NEW s \in SUBSET (1 .. n), s # {}, f[s \ {Max(s)}] \in Acc
               PROVE  f[s] = step[<<Max(s), f[s \ {Max(s)}]>>]
    BY DEF Steps
  <2>1. f[s] = StepIn(f[s \ {Max(s)}], raw[Max(s)]) BY <1>6 DEF StepIn
  <2> QED BY <1>4, <2>1
<1>10. OneByOne(f, n, Acc, step)
  <2> HIDE DEF step
  <2> QED BY <1>0, <1>b, <1>2, <1>8, <1>9, StageByStage
<1>11. n \in 0 .. n BY <1>0
<1> QED BY <1>7, <1>10, <1>11 DEF OneByOne, Acc

LEMMA ShortPaths ==
    ASSUME NEW p \in Seq(Names), Len(p) <= MaxDepth
    PROVE  p \in Places
BY PlaceIs

LEMMA RootOrPath == \A p \in Places : p = Root \/ p \in Paths
BY DEF Places
----------------------------------------------------------------------------
(* The tree. *)

\* Whatever is there is in a folder.
TreeOK(t) == t \in [Paths -> Entry] /\ \A p \in Paths : t[p].kind # "none" => KindOf(t, Parent(p)) = "dir"

\* And so is every path above it.
LEMMA Ancestors ==
    ASSUME NEW t, TreeOK(t), NEW p \in Paths, t[p].kind # "none", NEW q \in Paths, Within(p, q), p # q
    PROVE  t[q].kind = "dir"
<1>0. MaxDepth \in Nat BY NumbersAssumption
<1> DEFINE D(u) == Within(p, u) /\ Within(u, q) /\ u # p => t[u].kind = "dir"
           S == {k \in 0 .. MaxDepth : \A u \in Paths : Len(p) - Len(u) = k => D(u)}
<1>1. \A u \in Paths : u \in Places /\ u \in Seq(Names) /\ Len(u) \in 1 .. MaxDepth /\ Len(u) \in Nat
  BY <1>0, PathIs, RootIs
<1>2. 0 \in S
  <2> SUFFICES ASSUME NEW u \in Paths, Len(p) - Len(u) = 0, Within(p, u) PROVE u = p BY <1>0
  <2>1. Len(p) = Len(u) BY <1>1
  <2>2. \A i \in 1 .. Len(u) : p[i] = u[i] BY <1>1, WithinIs
  <2> QED BY <1>1, <2>1, <2>2, SeqEqual
<1>3. ASSUME NEW k \in 0 .. MaxDepth - 1, k \in S PROVE k + 1 \in S
  <2> SUFFICES ASSUME NEW u \in Paths, Len(p) - Len(u) = k + 1, Within(p, u), Within(u, q), u # p
               PROVE  t[u].kind = "dir"
    BY <1>0
  <2> DEFINE w == SubSeq(p, 1, Len(u) + 1)
  <2>1. Len(u) + 1 \in 1 .. Len(p) /\ Len(u) + 1 \in Int BY <1>1
  <2>2. \A i \in 1 .. Len(u) + 1 : p[i] \in Names
    <3>1. \A i \in 1 .. Len(p) : p[i] \in Names BY <1>1, SeqIs
    <3> QED BY <1>1, <2>1, <3>1
  <2>3. w \in Seq(Names) /\ Len(w) = Len(u) + 1 /\ \A i \in 1 .. Len(u) + 1 : w[i] = p[i]
    <3>1. /\ w \in Seq(Names) /\ Len(w) = IF 1 <= Len(u) + 1 THEN Len(u) + 1 - 1 + 1 ELSE 0
          /\ \A i \in 1 .. Len(u) + 1 - 1 + 1 : w[i] = p[1 + i - 1]
      BY <2>1, <2>2, SubSeqProperties
    <3> QED BY <1>1, <3>1
  <2> HIDE DEF w
  <2>4. w \in Paths BY <1>0, <1>1, <2>1, <2>3, PathIs
  <2>5. Within(p, w) BY <1>1, <2>1, <2>3, WithinIs
  <2>6. Parent(w) = u
    <3>1. Parent(w) \in Seq(Names) /\ Len(Parent(w)) = Len(w) - 1 /\ \A i \in 1 .. Len(w) - 1 : Parent(w)[i] = w[i]
      BY <2>4, ParentHas
    <3>2. \A i \in 1 .. Len(u) : p[i] = u[i] BY <1>1, WithinIs
    <3>3. Len(Parent(w)) = Len(u) /\ \A i \in 1 .. Len(Parent(w)) : Parent(w)[i] = u[i]
      BY <1>1, <2>3, <3>1, <3>2
    <3> QED BY <1>1, <3>1, <3>3, SeqEqual
  <2>7. Within(w, q)
    <3>1. Within(w, u) BY <2>4, <2>6, ParentIs
    <3> QED BY <1>1, <2>4, <3>1, WithinOrders
  <2>8. t[w].kind # "none"
    <3>1. Len(p) - Len(w) = k BY <1>1, <2>3
    <3>2. D(w) BY <1>3, <2>4, <3>1
    <3> QED BY <2>5, <2>7, <3>2
  <2>9. KindOf(t, u) = "dir" BY <2>4, <2>6, <2>8 DEF TreeOK
  <2> QED BY <2>9, RootIs DEF KindOf
<1> HIDE DEF S
<1>4. \A k \in 0 .. MaxDepth : k \in S BY <1>0, <1>2, <1>3, AllTheWay
<1>5. Len(p) - Len(q) \in 0 .. MaxDepth BY <1>0, <1>1, WithinIs
<1>6. D(q) BY <1>4, <1>5 DEF S
<1>7. Within(q, q) BY <1>1, WithinOrders
<1> QED BY <1>6, <1>7

\* Nothing is in a path that is not there.
LEMMA NothingBelow ==
    ASSUME NEW t, TreeOK(t), NEW q \in Paths, t[q].kind # "dir", NEW p \in Paths, Within(p, q), p # q
    PROVE  t[p].kind = "none"
BY Ancestors

LEMMA EntriesAre ==
    /\ None \in Entry /\ None.kind = "none" /\ None.content = 0
    /\ \A owner \in {"game", "root"} : Folder(owner) \in Entry /\ Folder(owner).kind = "dir" /\ Folder(owner).owner = owner
                                       /\ Folder(owner).size = 0
    /\ \A owner \in {"game", "root"}, size \in Nat, content \in 0 .. MaxAsked + 2 :
          /\ File(owner, size, content) \in Entry /\ File(owner, size, content).kind = "file"
          /\ File(owner, size, content).owner = owner /\ File(owner, size, content).size = size
<1>1. 0 \in 0 .. MaxAsked + 2 BY NumbersAssumption
<1> QED BY <1>1 DEF None, Folder, File, Entry

\* Nothing is left in what is taken away, and the rest has its folders.
LEMMA WithoutOK ==
    ASSUME NEW t, TreeOK(t), NEW ps \in SUBSET Places
    PROVE  TreeOK(Without(t, ps))
<1> DEFINE new == Without(t, ps)
<1>1. new = [p \in Paths |-> IF \E q \in ps : Within(p, q) THEN None ELSE t[p]] BY DEF Without
<1> HIDE DEF new
<1>2. new \in [Paths -> Entry] BY <1>1, EntriesAre DEF TreeOK
<1>3. ASSUME NEW p \in Paths, new[p].kind # "none" PROVE KindOf(new, Parent(p)) = "dir"
  <2>1. new[p] = t[p] /\ \A q \in ps : ~Within(p, q) BY <1>1, <1>3, EntriesAre
  <2>2. KindOf(t, Parent(p)) = "dir" BY <1>3, <2>1 DEF TreeOK
  <2>3. CASE Parent(p) = Root BY <2>3 DEF KindOf
  <2>4. CASE Parent(p) \in Paths
    <3>1. \A q \in ps : ~Within(Parent(p), q)
      <4> SUFFICES ASSUME NEW q \in ps, Within(Parent(p), q) PROVE FALSE OBVIOUS
      <4>1. Within(p, Parent(p)) /\ p \in Places /\ Parent(p) \in Places /\ q \in Places BY ParentIs, RootIs
      <4>2. Within(p, q) BY <4>1, WithinOrders
      <4> QED BY <2>1, <4>2
    <3>2. new[Parent(p)] = t[Parent(p)] BY <1>1, <2>4, <3>1
    <3> QED BY <2>2, <3>2 DEF KindOf
  <2> QED BY <2>3, <2>4, ParentIs DEF Places
<1> QED BY <1>2, <1>3 DEF TreeOK, new

\* Putting one thing where nothing is, or one for another, into a folder.
LEMMA OneChangedOK ==
    ASSUME NEW t, TreeOK(t), NEW p \in Paths, KindOf(t, Parent(p)) = "dir", NEW e \in Entry, e.kind # "none",
           e.kind = "dir" \/ \A q \in Paths : Parent(q) = p => t[q].kind = "none"
    PROVE  TreeOK([t EXCEPT ![p] = e])
<1> DEFINE new == [t EXCEPT ![p] = e]
<1>1. new \in [Paths -> Entry] /\ \A q \in Paths : new[q] = IF q = p THEN e ELSE t[q] BY DEF TreeOK
<1> HIDE DEF new
<1>2. ASSUME NEW q \in Paths, new[q].kind # "none" PROVE KindOf(new, Parent(q)) = "dir"
  <2>1. KindOf(t, Parent(q)) = "dir" BY <1>1, <1>2 DEF TreeOK
  <2>2. CASE Parent(q) = Root BY <2>2 DEF KindOf
  <2>3. CASE Parent(q) \in Paths /\ Parent(q) # p BY <1>1, <2>1, <2>3 DEF KindOf
  <2>4. CASE Parent(q) = p
    <3>1. q # p BY <2>4, ParentIs
    <3>2. e.kind = "dir" BY <1>1, <1>2, <2>4, <3>1
    <3> QED BY <1>1, <2>4, <3>2 DEF KindOf
  <2> QED BY <2>2, <2>3, <2>4, ParentIs DEF Places
<1> QED BY <1>1, <1>2 DEF TreeOK, new

\* The kinds are what makes a tree.
LEMMA SameKindsOK ==
    ASSUME NEW t, TreeOK(t), NEW new \in [Paths -> Entry], \A p \in Paths : new[p].kind = t[p].kind
    PROVE  TreeOK(new)
<1>1. \A p \in Places : KindOf(new, p) = KindOf(t, p) BY DEF KindOf, Places
<1> QED BY <1>1, ParentIs DEF TreeOK

LEMMA PutOK ==
    ASSUME NEW t, TreeOK(t), NEW p \in Paths, KindOf(t, Parent(p)) = "dir", NEW e \in Entry, e.kind # "none"
    PROVE  TreeOK(Put(t, p, e))
<1>1. CASE t[p].kind = "dir" /\ e.kind = "dir"
  <2>1. Put(t, p, e) = [t EXCEPT ![p].owner = e.owner] BY <1>1 DEF Put
  <2> DEFINE new == [t EXCEPT ![p].owner = e.owner]
  <2>2. t \in [Paths -> Entry] BY DEF TreeOK
  <2>3. new \in [Paths -> Entry] /\ \A q \in Paths : new[q].kind = t[q].kind BY <2>2 DEF Entry
  <2> HIDE DEF new
  <2>4. TreeOK(new) BY <2>3, SameKindsOK
  <2> QED BY <2>1, <2>4 DEF new
<1>2. CASE ~(t[p].kind = "dir" /\ e.kind = "dir")
  <2> DEFINE w == Without(t, {p})
  <2>1. Put(t, p, e) = [w EXCEPT ![p] = e] BY <1>2 DEF Put
  <2>2. TreeOK(w) BY WithoutOK DEF Places
  <2>3. w = [q \in Paths |-> IF \E r \in {p} : Within(q, r) THEN None ELSE t[q]] BY DEF Without
  <2> HIDE DEF w
  <2>4. KindOf(w, Parent(p)) = "dir"
    <3>1. CASE Parent(p) = Root BY <3>1 DEF KindOf
    <3>2. CASE Parent(p) \in Paths
      <4>1. ~Within(Parent(p), p) BY ParentIs
      <4>2. w[Parent(p)] = t[Parent(p)] BY <2>3, <3>2, <4>1
      <4> QED BY <4>2 DEF KindOf
    <3> QED BY <3>1, <3>2, ParentIs DEF Places
  <2>5. \A q \in Paths : Parent(q) = p => w[q].kind = "none"
    <3> SUFFICES ASSUME NEW q \in Paths, Parent(q) = p PROVE w[q].kind = "none" OBVIOUS
    <3>1. Within(q, p) BY ParentIs
    <3> QED BY <2>3, <3>1, EntriesAre
  <2>6. TreeOK([w EXCEPT ![p] = e]) BY <2>2, <2>4, <2>5, OneChangedOK
  <2> QED BY <2>1, <2>6
<1> QED BY <1>1, <1>2

\* What is brought to dst comes where nothing is, and from where it is in src.
Comes(t, src, dst, p) ==
    /\ Within(p, dst) /\ t[p].kind = "none" /\ Rebase(p, dst, src) \in Paths
    /\ \A q \in Paths : Within(p, q) /\ Within(q, dst) => t[q].kind \in {"none", "dir"}

LEMMA BroughtIs ==
    ASSUME NEW t \in [Paths -> Entry], NEW src \in Paths, NEW dst \in Paths
    PROVE  /\ Brought(t, src, dst) \in [Paths -> Entry]
           /\ \A p \in Paths : Brought(t, src, dst)[p] = IF Comes(t, src, dst, p) THEN t[Rebase(p, dst, src)] ELSE t[p]
           /\ \A p \in Paths : t[p].kind # "none" => Brought(t, src, dst)[p] = t[p]
<1> DEFINE new == Brought(t, src, dst)
<1>1. new = [p \in Paths |-> IF Comes(t, src, dst, p) THEN t[Rebase(p, dst, src)] ELSE t[p]] BY DEF Brought, Comes
<1> HIDE DEF new
<1>2. \A p \in Paths : Comes(t, src, dst, p) => Rebase(p, dst, src) \in Paths /\ t[p].kind = "none" BY DEF Comes
<1>3. new \in [Paths -> Entry] BY <1>1, <1>2
<1> QED BY <1>1, <1>2, <1>3 DEF new

LEMMA BroughtOK ==
    ASSUME NEW t, TreeOK(t), NEW src \in Paths, NEW dst \in Paths, KindOf(t, Parent(dst)) = "dir"
    PROVE  TreeOK(Brought(t, src, dst))
<1> DEFINE new == Brought(t, src, dst)
<1>0. t \in [Paths -> Entry] BY DEF TreeOK
<1>1. /\ new \in [Paths -> Entry]
      /\ \A p \in Paths : new[p] = IF Comes(t, src, dst, p) THEN t[Rebase(p, dst, src)] ELSE t[p]
      /\ \A p \in Paths : t[p].kind # "none" => new[p] = t[p]
  BY <1>0, BroughtIs
<1> HIDE DEF new
<1>2. \A q \in Places : KindOf(t, q) = "dir" => KindOf(new, q) = "dir" BY <1>1 DEF KindOf, Places
<1>3. ASSUME NEW p \in Paths, new[p].kind # "none" PROVE KindOf(new, Parent(p)) = "dir"
  <2>0. Parent(p) \in Places BY ParentIs
  <2>1. CASE ~Comes(t, src, dst, p)
    <3>1. KindOf(t, Parent(p)) = "dir" BY <1>1, <1>3, <2>1 DEF TreeOK
    <3> QED BY <1>2, <2>0, <3>1
  <2>2. CASE Comes(t, src, dst, p) /\ p = dst BY <1>2, <2>0, <2>2
  <2>3. CASE Comes(t, src, dst, p) /\ p # dst
    <3> DEFINE u == Parent(p)
               q == Rebase(p, dst, src)
    <3>1. Within(p, dst) /\ q \in Paths /\ new[p] = t[q] BY <1>1, <2>3 DEF Comes
    <3>2. u \in Paths /\ Within(u, dst) /\ Rebase(u, dst, src) = Parent(q) BY <2>3, <3>1, RebaseIs
    <3>3. Within(p, u) BY ParentIs
    <3>4. t[u].kind \in {"none", "dir"} BY <2>3, <3>2, <3>3 DEF Comes
    <3>5. u # Root BY <3>2, RootIs
    <3>6. q # src BY <2>3, <3>1, RebaseIs
    <3> HIDE DEF u, q
    <3>7. CASE t[u].kind = "dir" BY <1>2, <3>2, <3>5, <3>7, RootIs DEF KindOf, u
    <3>8. CASE t[u].kind = "none"
      <4>1. Within(q, src) BY <2>3, <3>1, RebaseIs DEF q
      <4>2. Parent(q) \in Paths /\ KindOf(t, Parent(q)) = "dir"
        <5>1. Within(Parent(q), src) BY <3>1, <3>6, <4>1, WithinUp, RootIs
        <5>2. Parent(q) # Root
          <6>1. src \in Paths /\ src \in Seq(Names) /\ Len(src) \in 1 .. MaxDepth BY PathIs
          <6>2. Len(Root) = 0 /\ Root \in Seq(Names) BY DEF Root
          <6>3. MaxDepth \in Nat BY NumbersAssumption
          <6>4. ~(Len(src) <= Len(Root)) BY <6>1, <6>2, <6>3
          <6>5. ~Within(Root, src) BY <6>1, <6>2, <6>4, WithinIs
          <6> QED BY <5>1, <6>5
        <5>3. Parent(q) \in Places BY <3>1, ParentIs
        <5> QED BY <1>3, <3>1, <5>2, <5>3, RootOrPath DEF TreeOK
      <4>3. Comes(t, src, dst, u)
        <5>1. \A r \in Paths : Within(u, r) /\ Within(r, dst) => t[r].kind \in {"none", "dir"}
          <6> SUFFICES ASSUME NEW r \in Paths, Within(u, r), Within(r, dst) PROVE t[r].kind \in {"none", "dir"}
            OBVIOUS
          <6>1. Within(p, r) BY <3>2, <3>3, RootIs, WithinOrders
          <6> QED BY <2>3, <6>1 DEF Comes
        <5> QED BY <3>2, <3>8, <4>2, <5>1 DEF Comes
      <4>4. new[u] = t[Parent(q)] BY <1>1, <3>2, <4>3
      <4>5. Parent(q) # Root BY <4>2, RootIs
      <4> QED BY <3>5, <4>2, <4>4, <4>5 DEF KindOf, u
    <3> QED BY <3>4, <3>7, <3>8
  <2> QED BY <2>1, <2>2, <2>3
<1> QED BY <1>1, <1>3 DEF TreeOK, new

LEMMA MvOK ==
    ASSUME NEW t, TreeOK(t), NEW src \in Paths, NEW dest \in Places
    PROVE  TreeOK(Mv(t, src, dest))
<1> DEFINE dst == Place(t, src, dest)
<1>1. CASE ~CanPlace(t, src, dest) \/ IsThere(t, dst)
  <2>1. Mv(t, src, dest) = t BY <1>1 DEF Mv
  <2> QED BY <2>1
<1>2. CASE ~(~CanPlace(t, src, dest) \/ IsThere(t, dst))
  <2>1. Mv(t, src, dest) = Without(Brought(t, src, dst), {src}) BY <1>2 DEF Mv
  <2>2. dst \in Paths /\ KindOf(t, Parent(dst)) = "dir" BY <1>2 DEF CanPlace
  <2> HIDE DEF dst
  <2>3. TreeOK(Brought(t, src, dst)) BY <2>2, BroughtOK
  <2>4. TreeOK(Without(Brought(t, src, dst), {src})) BY <2>3, WithoutOK DEF Places
  <2> QED BY <2>1, <2>4
<1> QED BY <1>1, <1>2

LEMMA CpOK ==
    ASSUME NEW t, TreeOK(t), NEW src \in Paths, NEW dest \in Places
    PROVE  TreeOK(Cp(t, src, dest))
<1> DEFINE dst == Place(t, src, dest)
<1>1. CASE ~CanPlace(t, src, dest) BY <1>1 DEF Cp
<1>2. CASE CanPlace(t, src, dest)
  <2>1. Cp(t, src, dest) = Brought(t, src, dst) BY <1>2 DEF Cp
  <2>2. dst \in Paths /\ KindOf(t, Parent(dst)) = "dir" BY <1>2 DEF CanPlace
  <2> HIDE DEF dst
  <2> QED BY <2>1, <2>2, BroughtOK
<1> QED BY <1>1, <1>2

\* What is in the files of a tree is in the files of another.
Saves(t, new) == Contents(t) \subseteq Contents(new)

LEMMA SavesIf ==
    ASSUME NEW t, NEW new,
           \A p \in Paths : t[p].kind = "file" => \E q \in Paths : new[q].kind = "file" /\ new[q].content = t[p].content
    PROVE  Saves(t, new)
<1>1. ASSUME NEW c \in Contents(t) PROVE c \in Contents(new)
  <2>1. PICK p \in Paths : t[p].kind = "file" /\ c = t[p].content BY <1>1 DEF Contents
  <2>2. PICK q \in Paths : new[q].kind = "file" /\ new[q].content = t[p].content BY <2>1
  <2> QED BY <2>1, <2>2 DEF Contents
<1> QED BY <1>1 DEF Saves

\* Copying leaves what is there.
LEMMA CpSaves ==
    ASSUME NEW t, TreeOK(t), NEW src \in Paths, NEW dest \in Places
    PROVE  Saves(t, Cp(t, src, dest))
<1> DEFINE dst == Place(t, src, dest)
<1>1. CASE ~CanPlace(t, src, dest) BY <1>1 DEF Cp, Saves
<1>2. CASE CanPlace(t, src, dest)
  <2>1. Cp(t, src, dest) = Brought(t, src, dst) BY <1>2 DEF Cp
  <2>2. dst \in Paths /\ t \in [Paths -> Entry] BY <1>2 DEF CanPlace, TreeOK
  <2> HIDE DEF dst
  <2>3. \A p \in Paths : t[p].kind # "none" => Brought(t, src, dst)[p] = t[p] BY <2>2, BroughtIs
  <2>4. \A p \in Paths : t[p].kind = "file" => Cp(t, src, dest)[p] = t[p] BY <2>1, <2>3
  <2> QED BY <2>4, SavesIf
<1> QED BY <1>1, <1>2

\* Moving brings everything that is in the source, and then takes the source away.
LEMMA MvSaves ==
    ASSUME NEW t, TreeOK(t), NEW src \in Paths, NEW dest \in Places
    PROVE  Saves(t, Mv(t, src, dest))
<1> DEFINE dst == Place(t, src, dest)
<1>1. CASE ~CanPlace(t, src, dest) \/ IsThere(t, dst)
  <2>1. Mv(t, src, dest) = t BY <1>1 DEF Mv
  <2> QED BY <2>1 DEF Saves
<1>2. CASE ~(~CanPlace(t, src, dest) \/ IsThere(t, dst))
  <2> DEFINE b == Brought(t, src, dst)
             new == Mv(t, src, dest)
  <2>1. new = Without(b, {src}) BY <1>2 DEF Mv
  <2>2. /\ dst \in Paths /\ IsThere(t, src) /\ ~IsThere(t, dst) /\ ~Within(dst, src) /\ Fits(t, src, dst)
        /\ t \in [Paths -> Entry]
    BY <1>2 DEF CanPlace, TreeOK
  <2> HIDE DEF dst
  <2>3. src # Root /\ dst # Root /\ src \in Places /\ dst \in Places BY <2>2, RootIs
  <2>4. t[src].kind # "none" /\ t[dst].kind = "none" BY <2>2, <2>3 DEF IsThere, KindOf
  <2>5. /\ \A p \in Paths : b[p] = IF Comes(t, src, dst, p) THEN t[Rebase(p, dst, src)] ELSE t[p]
        /\ \A p \in Paths : t[p].kind # "none" => b[p] = t[p]
    BY <2>2, BroughtIs
  <2> HIDE DEF b
  <2>6. \A p \in Paths : ~Within(p, src) => new[p] = b[p] BY <2>1 DEF Without
  <2> HIDE DEF new
  <2>7. ASSUME NEW p \in Paths, t[p].kind = "file", ~Within(p, src)
        PROVE  \E q \in Paths : new[q].kind = "file" /\ new[q].content = t[p].content
    BY <2>5, <2>6, <2>7
  <2>8. ASSUME NEW p \in Paths, t[p].kind = "file", Within(p, src)
        PROVE  \E q \in Paths : new[q].kind = "file" /\ new[q].content = t[p].content
    <3> DEFINE q == Rebase(p, src, dst)
    <3>1. p \in Under(t, src) BY <2>8 DEF Under
    <3>2. q \in Paths BY <2>2, <3>1 DEF Fits
    <3>3. Within(q, dst) /\ Rebase(q, dst, src) = p BY <2>2, <2>8, <3>2, RebaseIs
    <3> HIDE DEF q
    <3>4. \A r \in Paths : Within(r, dst) => t[r].kind = "none" BY <2>2, <2>4, NothingBelow
    <3>6. Comes(t, src, dst, q) BY <3>2, <3>3, <3>4 DEF Comes
    <3>7. b[q] = t[p] BY <2>5, <3>2, <3>3, <3>6
    <3>8. ~Within(q, src)
      <4> SUFFICES ASSUME Within(q, src) PROVE FALSE OBVIOUS
      <4>1. Within(dst, src) \/ Within(src, dst) BY <2>3, <3>2, <3>3, RootIs, WithinOrders
      <4>2. t[src].kind = "none" BY <2>2, <3>4, <4>1
      <4> QED BY <2>4, <4>2
    <3>9. new[q] = t[p] BY <2>6, <3>2, <3>7, <3>8
    <3> QED BY <2>8, <3>2, <3>9
  <2>9. Saves(t, new) BY <2>7, <2>8, SavesIf
  <2> QED BY <2>9 DEF new
<1> QED BY <1>1, <1>2
----------------------------------------------------------------------------
(* Moves and copies of some sources. *)

Trees == {t \in [Paths -> Entry] : TreeOK(t)}

\* One source is taken along, if it is one to be.
CarryOne(t, r, i) ==
    IF i \notin Takes(r) THEN t ELSE IF r.op = "move" THEN Mv(t, r.from[i], r.path) ELSE Cp(t, r.from[i], r.path)

LEMMA CarryOneOK ==
    ASSUME NEW r \in Request, NEW t \in Trees, NEW i \in 1 .. Len(r.from)
    PROVE  CarryOne(t, r, i) \in Trees /\ Saves(t, CarryOne(t, r, i))
<1>1. r.from \in Seq(Paths) /\ r.path \in Places BY DEF Request, Places
<1>2. r.from[i] \in Paths BY <1>1, SeqIs
<1>3. t \in [Paths -> Entry] /\ TreeOK(t) BY DEF Trees
<1>4. CASE i \notin Takes(r) BY <1>4 DEF CarryOne, Saves
<1>5. CASE i \in Takes(r) /\ r.op = "move"
  <2>1. CarryOne(t, r, i) = Mv(t, r.from[i], r.path) BY <1>5 DEF CarryOne
  <2>2. TreeOK(Mv(t, r.from[i], r.path)) /\ Saves(t, Mv(t, r.from[i], r.path)) BY <1>1, <1>2, <1>3, MvOK, MvSaves
  <2> QED BY <2>1, <2>2 DEF Trees, TreeOK
<1>6. CASE i \in Takes(r) /\ r.op # "move"
  <2>1. CarryOne(t, r, i) = Cp(t, r.from[i], r.path) BY <1>6 DEF CarryOne
  <2>2. TreeOK(Cp(t, r.from[i], r.path)) /\ Saves(t, Cp(t, r.from[i], r.path)) BY <1>1, <1>2, <1>3, CpOK, CpSaves
  <2> QED BY <2>1, <2>2 DEF Trees, TreeOK
<1> QED BY <1>4, <1>5, <1>6

\* They are taken in the order they are named.
LEMMA CarriedInOrder ==
    ASSUME NEW r \in Request, tree \in Trees
    PROVE  \E h \in [0 .. Len(r.from) -> Trees] :
              /\ h[0] = tree /\ h[Len(r.from)] = Carried(r)
              /\ \A k \in 1 .. Len(r.from) : h[k] = CarryOne(h[k - 1], r, k)
<1> DEFINE n == Len(r.from)
           step == [p \in (1 .. n) \X Trees |-> CarryOne(p[2], r, p[1])]
<1>0. n \in Nat /\ DOMAIN r.from = 1 .. n
  <2>1. r.from \in Seq(Paths) BY DEF Request
  <2> QED BY <2>1, SeqIs
<1>a. \A k \in 1 .. n, t \in Trees : CarryOne(t, r, k) \in Trees BY CarryOneOK
<1> HIDE DEF n
<1>2. step \in [(1 .. n) \X Trees -> Trees] BY <1>0, <1>a
<1>3. PICK g \in [SUBSET (1 .. n) -> Trees] : Staged(g, n, tree, step)
  <2> HIDE DEF step
  <2> QED BY <1>0, <1>2, Stages
<1> DEFINE all == [i \in 1 .. n |-> i]
           Made(q) == q = [s \in SUBSET (1 .. n) |->
                             IF s = {} THEN tree
                             ELSE IF all[Max(s)] \notin Takes(r) THEN q[s \ {Max(s)}]
                             ELSE IF r.op = "move" THEN Mv(q[s \ {Max(s)}], r.from[all[Max(s)]], r.path)
                             ELSE Cp(q[s \ {Max(s)}], r.from[all[Max(s)]], r.path)]
           f == CHOOSE q : Made(q)
<1>4. \A s \in SUBSET (1 .. n) : s # {} => Max(s) \in 1 .. n BY <1>0, LastOfSome
<1>5. Made(g)
  <2>1. ASSUME NEW s \in SUBSET (1 .. n), s # {}
        PROVE  g[s] = CarryOne(g[s \ {Max(s)}], r, Max(s))
    <3>1. g[s] = step[<<Max(s), g[s \ {Max(s)}]>>] BY <1>3, <2>1 DEF Staged
    <3> QED BY <1>4, <2>1, <3>1
  <2>2. g[{}] = tree BY <1>3 DEF Staged
  <2> HIDE DEF step
  <2> QED BY <1>4, <2>1, <2>2 DEF CarryOne
<1>6. Made(f) BY <1>5
<1>7. Carried(r) = f[1 .. n]
  BY <1>0 DEF Carried, FoldLeftDomain, FoldLeft, MapThenFoldSet
<1> HIDE DEF f
<1>8. f[{}] = tree BY <1>6
<1>9. Steps(f, n, Trees, step)
  <2> SUFFICES ASSUME NEW s \in SUBSET (1 .. n), s # {}, f[s \ {Max(s)}] \in Trees
               PROVE  f[s] = step[<<Max(s), f[s \ {Max(s)}]>>]
    BY DEF Steps
  <2>1. f[s] = CarryOne(f[s \ {Max(s)}], r, Max(s)) BY <1>4, <1>6 DEF CarryOne
  <2> QED BY <1>4, <2>1
<1>10. OneByOne(f, n, Trees, step)
  <2> HIDE DEF step
  <2> QED BY <1>0, <1>2, <1>8, <1>9, StageByStage
<1> DEFINE h == [k \in 0 .. n |-> f[1 .. k]]
<1>11. h \in [0 .. n -> Trees] BY <1>10 DEF OneByOne
<1>12. h[0] = tree /\ h[n] = Carried(r)
  <2>1. 1 .. 0 = {} OBVIOUS
  <2> QED BY <1>0, <1>7, <1>8, <2>1
<1>13. \A k \in 1 .. n : h[k] = CarryOne(h[k - 1], r, k)
  <2> TAKE k \in 1 .. n
  <2>1. k \in 0 .. n /\ k - 1 \in 0 .. n /\ k # 0 BY <1>0
  <2>2. f[1 .. k] = step[<<k, f[1 .. k - 1]>>] /\ f[1 .. k - 1] \in Trees BY <1>10, <2>1 DEF OneByOne
  <2> QED BY <2>1, <2>2
<1> HIDE DEF h
<1> QED BY <1>11, <1>12, <1>13 DEF n

LEMMA CarriedOK ==
    ASSUME NEW r \in Request, tree \in Trees
    PROVE  Carried(r) \in Trees /\ Saves(tree, Carried(r))
<1> DEFINE n == Len(r.from)
<1>0. n \in Nat
  <2>1. r.from \in Seq(Paths) BY DEF Request
  <2> QED BY <2>1, SeqIs
<1>1. PICK h \in [0 .. n -> Trees] : /\ h[0] = tree /\ h[n] = Carried(r)
                                     /\ \A k \in 1 .. n : h[k] = CarryOne(h[k - 1], r, k)
  BY CarriedInOrder
<1>2. \A k \in 1 .. n, t \in Trees : Saves(t, CarryOne(t, r, k)) BY CarryOneOK
<1> HIDE DEF n
<1> DEFINE S == {k \in 0 .. n : Saves(tree, h[k])}
<1>3. 0 \in S BY <1>0, <1>1 DEF Saves
<1>4. ASSUME NEW k \in 0 .. n - 1, k \in S PROVE k + 1 \in S
  <2>1. k + 1 \in 1 .. n /\ (k + 1) - 1 = k /\ k \in 0 .. n /\ k + 1 \in 0 .. n BY <1>0
  <2>2. h[k + 1] = CarryOne(h[k], r, k + 1) /\ h[k] \in Trees BY <1>1, <2>1
  <2>3. Saves(h[k], h[k + 1]) BY <1>2, <2>1, <2>2
  <2>4. Saves(tree, h[k]) BY <1>4
  <2>5. Saves(tree, h[k + 1]) BY <2>3, <2>4 DEF Saves
  <2> QED BY <2>1, <2>5
<1> HIDE DEF S
<1>5. \A k \in 0 .. n : k \in S BY <1>0, <1>3, <1>4, AllTheWay
<1>6. n \in 0 .. n BY <1>0
<1>7. Saves(tree, h[n]) /\ h[n] \in Trees BY <1>1, <1>5, <1>6 DEF S
<1> QED BY <1>1, <1>7
----------------------------------------------------------------------------
(* Requests. *)

\* What each request is about.
Shaped(r) ==
    /\ r.op \in {"mkdir", "rename", "delete", "write", "extract"} => r.path \in Paths
    /\ r.op \in {"rename", "upload"} => r.to \in Paths
    /\ r.op = "upload" => Parent(r.to) = r.path
    /\ r.op \in Ops

ReqOK(r) ==
    /\ r \in Request
    /\ r.pc = "idle" => r.op = "none"
    /\ r.pc # "idle" => Shaped(r)
    /\ r.pc \in {"unzip", "clean", "disk"} => r.op = "extract"
    /\ r.pc = "chown" => r.op \in {"mkdir", "extract"}

ReqsOK == req \in [Reqs -> Request] /\ \A a \in Reqs : ReqOK(req[a])
CountsOK == asked \in 0 .. MaxAsked /\ fails \in 0 .. MaxFails /\ together \in BOOLEAN

\* The inductive invariant.
IInv == TreeOK(tree) /\ ReqsOK /\ CountsOK

Short(r) == \A p \in {r.path, r.to} \cup Range(r.from) : Len(p) <= MaxDepth

LEMMA AskedFor ==
    ASSUME NEW r \in Asks
    PROVE  /\ r.op \in Ops
           /\ \E p \in Raw :
                \/ r = RequestFor("mkdir", "check", p, Root, <<>>, 0)
                \/ \E n \in Names : r = RequestFor("rename", "check", p, Append(SubSeq(Resolve(p), 1, Len(Resolve(p)) - 1), n), <<>>, 0)
                \/ \E from \in Sources : r = RequestFor("move", "check", p, Root, from, 0)
                \/ \E from \in Sources : r = RequestFor("copy", "space", p, Root, from, 0)
                \/ r = RequestFor("delete", "do", p, Root, <<>>, 0)
                \/ \E size \in Sizes : r = RequestFor("write", "space", p, Root, <<>>, size)
                \/ \E n \in Names, size \in Sizes : r = RequestFor("upload", "space", p, Append(Resolve(p), n), <<>>, size)
                \/ r = RequestFor("extract", "space", p, Root, <<>>, Announced)
BY DEF Asks

\* It is what the fields say, if its paths are of the volume.
LEMMA MadeIs ==
    ASSUME NEW op \in Ops, NEW pc \in {"check", "space", "do"}, NEW p \in Raw, Resolve(p) \in Places,
           NEW to \in Places, NEW from \in Seq(Paths), NEW size \in Nat
    PROVE  LET r == RequestFor(op, pc, p, to, from, size) IN
           /\ r \in Request /\ r.op = op /\ r.pc = pc /\ r.path = Resolve(p) /\ r.to = to /\ r.from = from /\ r.size = size
           /\ r.owner = "game"
<1>0. MaxAsked \in Nat BY NumbersAssumption
<1>1. 0 \in 0 .. MaxAsked + 2 BY <1>0
<1>2. Resolve(p) \in Paths \cup {Root} /\ to \in Paths \cup {Root} BY DEF Places
<1> HIDE DEF Paths, Root
<1> QED BY <1>1, <1>2 DEF RequestFor, Idle, Request

LEMMA IdleIs == Idle \in Request /\ ReqOK(Idle) /\ Idle.pc = "idle" /\ Idle.op = "none"
<1>1. 0 \in 0 .. MaxAsked + 2 /\ <<>> \in Seq(Paths) BY NumbersAssumption
<1> HIDE DEF Paths, Root
<1> QED BY <1>1 DEF Idle, Request, ReqOK

\* The guards of Ask make it one.
LEMMA AskedOK ==
    ASSUME NEW r \in Asks, Short(r), Root \notin Range(r.from), r.path = Root => r.op \in {"move", "copy", "upload"}
    PROVE  ReqOK(r) /\ r.pc \in {"check", "space", "do"} /\ r.owner = "game"
<1>0. \A p \in Raw : Resolve(p) \in Seq(Names) BY ResolveIs
<1>1. r.op \in Ops /\ r.op # "none" BY AskedFor, OpsAssumption
<1>2. PICK p \in Raw :
        \/ r = RequestFor("mkdir", "check", p, Root, <<>>, 0)
        \/ \E n \in Names : r = RequestFor("rename", "check", p, Append(SubSeq(Resolve(p), 1, Len(Resolve(p)) - 1), n), <<>>, 0)
        \/ \E from \in Sources : r = RequestFor("move", "check", p, Root, from, 0)
        \/ \E from \in Sources : r = RequestFor("copy", "space", p, Root, from, 0)
        \/ r = RequestFor("delete", "do", p, Root, <<>>, 0)
        \/ \E size \in Sizes : r = RequestFor("write", "space", p, Root, <<>>, size)
        \/ \E n \in Names, size \in Sizes : r = RequestFor("upload", "space", p, Append(Resolve(p), n), <<>>, size)
        \/ r = RequestFor("extract", "space", p, Root, <<>>, Announced)
  BY AskedFor
<1> DEFINE path == Resolve(p)
<1>3. r.path = path /\ r.owner = "game" BY <1>2 DEF RequestFor, Idle
<1>4. path \in Seq(Names) /\ path \in Places
  <2>1. Len(r.path) <= MaxDepth BY DEF Short
  <2>2. Len(path) <= MaxDepth BY <1>3, <2>1
  <2>3. path \in Seq(Names) BY <1>0
  <2> QED BY <2>2, <2>3, ShortPaths
<1> DEFINE Sound == ReqOK(r) /\ r.pc \in {"check", "space", "do"}
<1> DEFINE none == <<>>
<1>5. none \in Seq(Paths) /\ 0 \in Nat /\ Root \in Places BY DEF Places
<1>6. ASSUME r.op \in {"mkdir", "delete", "write", "extract"} PROVE path \in Paths
  BY <1>3, <1>4, <1>6 DEF Places
<1>a. \A op \in Ops, pc \in {"check", "space", "do"}, to \in Places, size \in Nat :
         r = RequestFor(op, pc, p, to, none, size) => r \in Request /\ r.pc = pc
  <2> HIDE DEF none
  <2> QED BY <1>4, <1>5, MadeIs
<1>7. CASE r = RequestFor("mkdir", "check", p, Root, <<>>, 0)
  <2>1. r.op = "mkdir" BY <1>7 DEF RequestFor, Idle
  <2>2. r \in Request /\ r.pc = "check" BY <1>1, <1>5, <1>a, <1>7, <2>1
  <2> QED BY <1>1, <1>3, <1>6, <2>1, <2>2 DEF ReqOK, Shaped
<1>8. CASE r = RequestFor("delete", "do", p, Root, <<>>, 0)
  <2>1. r.op = "delete" BY <1>8 DEF RequestFor, Idle
  <2>2. r \in Request /\ r.pc = "do" BY <1>1, <1>5, <1>a, <1>8, <2>1
  <2> QED BY <1>1, <1>3, <1>6, <2>1, <2>2 DEF ReqOK, Shaped
<1>9. CASE r = RequestFor("extract", "space", p, Root, <<>>, Announced)
  <2>1. r.op = "extract" BY <1>9 DEF RequestFor, Idle
  <2>2. Announced \in Nat BY NumbersAssumption
  <2>3. r \in Request /\ r.pc = "space" BY <1>1, <1>5, <1>a, <1>9, <2>1, <2>2
  <2> QED BY <1>1, <1>3, <1>6, <2>1, <2>3 DEF ReqOK, Shaped
<1>10. CASE \E size \in Sizes : r = RequestFor("write", "space", p, Root, <<>>, size)
  <2>1. PICK size \in Sizes : r = RequestFor("write", "space", p, Root, <<>>, size) BY <1>10
  <2>2. r.op = "write" BY <2>1 DEF RequestFor, Idle
  <2>3. size \in Nat BY NumbersAssumption
  <2>4. r \in Request /\ r.pc = "space" BY <1>1, <1>5, <1>a, <2>1, <2>2, <2>3
  <2> QED BY <1>1, <1>3, <1>6, <2>2, <2>4 DEF ReqOK, Shaped
<1>11. CASE \E n \in Names, size \in Sizes : r = RequestFor("upload", "space", p, Append(path, n), <<>>, size)
  <2>1. PICK n \in Names, size \in Sizes : r = RequestFor("upload", "space", p, Append(path, n), <<>>, size) BY <1>11
  <2> DEFINE to == Append(path, n)
  <2>2. r.op = "upload" /\ r.to = to BY <2>1 DEF RequestFor, Idle
  <2>3. to \in Paths
    <3>1. to \in Seq(Names) /\ to # <<>> BY <1>4, AppendProperties
    <3>2. Len(to) <= MaxDepth BY <2>2 DEF Short
    <3>3. to \in Places BY <3>1, <3>2, ShortPaths
    <3> QED BY <3>1, <3>3 DEF Places, Root
  <2>4. size \in Nat BY NumbersAssumption
  <2>5. Parent(to) = path BY <1>4, <2>3, ChildIs
  <2> HIDE DEF to
  <2>6. to \in Places /\ r = RequestFor("upload", "space", p, to, <<>>, size) BY <2>1, <2>3 DEF Places, to
  <2>7. r \in Request /\ r.pc = "space" BY <1>1, <1>5, <1>a, <2>2, <2>4, <2>6
  <2> QED BY <1>1, <1>3, <2>2, <2>3, <2>5, <2>7 DEF ReqOK, Shaped
<1>12. CASE \E n \in Names : r = RequestFor("rename", "check", p, Append(SubSeq(path, 1, Len(path) - 1), n), <<>>, 0)
  <2>1. PICK n \in Names : r = RequestFor("rename", "check", p, Append(SubSeq(path, 1, Len(path) - 1), n), <<>>, 0) BY <1>12
  <2> DEFINE to == Append(SubSeq(path, 1, Len(path) - 1), n)
  <2>2. r.op = "rename" /\ r.to = to BY <2>1 DEF RequestFor, Idle
  <2>3. path \in Paths BY <1>3, <1>4, <2>2 DEF Places
  <2>4. to \in Paths
    <3>1. to = Append(Parent(path), n) BY DEF Parent, Front
    <3> HIDE DEF to, path
    <3> QED BY <2>3, <3>1, ParentIs
  <2> HIDE DEF to
  <2>5. to \in Places /\ r = RequestFor("rename", "check", p, to, <<>>, 0) BY <2>1, <2>4 DEF Places, to
  <2>6. r \in Request /\ r.pc = "check" BY <1>1, <1>5, <1>a, <2>2, <2>5
  <2> QED BY <1>1, <1>3, <2>2, <2>3, <2>4, <2>6 DEF ReqOK, Shaped
<1>13. CASE \E from \in Sources : \/ r = RequestFor("move", "check", p, Root, from, 0)
                                  \/ r = RequestFor("copy", "space", p, Root, from, 0)
  <2>1. PICK from \in Sources : \/ r = RequestFor("move", "check", p, Root, from, 0)
                                \/ r = RequestFor("copy", "space", p, Root, from, 0)
    BY <1>13
  <2>2. r.op \in {"move", "copy"} /\ r.from = from /\ (r.op = "move" <=> r = RequestFor("move", "check", p, Root, from, 0))
    BY <2>1 DEF RequestFor, Idle
  <2>3. from \in Seq(Paths)
    <3>1. PICK pick \in Picks : from = [i \in DOMAIN pick |-> Resolve(pick[i])] BY DEF Sources
    <3>2. pick \in Seq(Raw) BY RawAssumption
    <3>3. Len(pick) \in Nat /\ DOMAIN pick = 1 .. Len(pick) /\ \A i \in 1 .. Len(pick) : pick[i] \in Raw BY <3>2, SeqIs
    <3>4. ASSUME NEW i \in 1 .. Len(pick) PROVE from[i] \in Paths
      <4>1. from[i] = Resolve(pick[i]) /\ from[i] \in Range(from) BY <3>1, <3>3 DEF Range
      <4>2. from[i] # Root /\ Len(from[i]) <= MaxDepth BY <2>2, <4>1 DEF Short
      <4>3. from[i] \in Seq(Names) BY <1>0, <3>3, <4>1
      <4> QED BY <4>2, <4>3, ShortPaths, RootOrPath
    <3>5. from \in [1 .. Len(pick) -> Paths] BY <3>1, <3>3, <3>4
    <3> HIDE DEF Paths
    <3> QED BY <3>3, <3>5
  <2>4. r \in Request /\ r.pc \in {"check", "space"} BY <1>1, <1>4, <1>5, <2>1, <2>2, <2>3, MadeIs
  <2> QED BY <1>1, <1>3, <2>2, <2>4 DEF ReqOK, Shaped
<1> QED BY <1>2, <1>3, <1>7, <1>8, <1>9, <1>10, <1>11, <1>12, <1>13
----------------------------------------------------------------------------
(* Steps. *)

\* A step of one request: the others stay as they are, and making, renaming, moving and copying
\* save what is in the files.
StepOf(a) ==
    /\ \A b \in Reqs : b # a => req'[b] = req[b]
    /\ req[a].op \in {"mkdir", "rename", "move", "copy"} => Saves(tree, tree')

LEMMA SameIsSaved == ASSUME tree' = tree PROVE Saves(tree, tree')
BY DEF Saves

LEMMA OneReqOK ==
    ASSUME ReqsOK, NEW a \in Reqs, NEW r, ReqOK(r), req' = [req EXCEPT ![a] = r]
    PROVE  ReqsOK' /\ \A b \in Reqs : b # a => req'[b] = req[b]
<1>1. r \in Request BY DEF ReqOK
<1>2. req' \in [Reqs -> Request] /\ \A b \in Reqs : req'[b] = IF b = a THEN r ELSE req[b] BY <1>1 DEF ReqsOK
<1>3. \A b \in Reqs : ReqOK(req'[b]) BY <1>2 DEF ReqsOK
<1> QED BY <1>2, <1>3 DEF ReqsOK

LEMMA AnswerOK ==
    ASSUME ReqsOK, NEW a \in Reqs, Answer(a)
    PROVE  ReqsOK' /\ \A b \in Reqs : b # a => req'[b] = req[b]
BY IdleIs, OneReqOK DEF Answer

LEMMA GotoOK ==
    ASSUME ReqsOK, NEW a \in Reqs, req[a].pc # "idle", NEW pc \in {"space", "check", "do", "unzip", "clean", "chown", "disk"},
           Goto(a, pc), pc \in {"unzip", "clean", "disk"} => req[a].op = "extract",
           pc = "chown" => req[a].op \in {"mkdir", "extract"}
    PROVE  ReqsOK' /\ \A b \in Reqs : b # a => req'[b] = req[b]
<1> DEFINE r == [req[a] EXCEPT !.pc = pc]
<1>1. req' = [req EXCEPT ![a] = r] BY DEF Goto
<1>2. req[a] \in Request /\ ReqOK(req[a]) BY DEF ReqsOK
<1>3. /\ r \in Request /\ r.pc = pc /\ r.op = req[a].op /\ r.path = req[a].path /\ r.to = req[a].to
  <2> HIDE DEF Paths, Root
  <2> QED BY <1>2 DEF Request
<1> HIDE DEF r
<1>4. ReqOK(r) BY <1>2, <1>3 DEF ReqOK, Shaped
<1> QED BY <1>1, <1>4, OneReqOK

LEMMA AskOK == ASSUME IInv, NEW a \in Reqs, Ask(a) PROVE IInv' /\ StepOf(a)
<1>1. tree' = tree /\ fails' = fails /\ asked < MaxAsked /\ asked' = asked + 1 /\ together' \in BOOLEAN /\ req[a].pc = "idle"
  BY DEF Ask
<1>2. PICK r \in Asks : /\ Short(r) /\ Root \notin Range(r.from) /\ (r.path = Root => r.op \in {"move", "copy", "upload"})
                        /\ req' = [req EXCEPT ![a] = [r EXCEPT !.content = asked + 3]]
  BY DEF Ask, Short
<1> DEFINE new == [r EXCEPT !.content = asked + 3]
<1>3. ReqOK(r) BY <1>2, AskedOK
<1>a. ReqOK(new)
  <2>1. MaxAsked \in Nat BY NumbersAssumption
  <2>2. asked + 3 \in 0 .. MaxAsked + 2 BY <1>1, <2>1 DEF IInv, CountsOK
  <2>3. r \in Request BY <1>3 DEF ReqOK
  <2>4. /\ new \in Request /\ new.pc = r.pc /\ new.op = r.op /\ new.path = r.path /\ new.to = r.to
    <3> HIDE DEF Paths, Root
    <3> QED BY <2>2, <2>3 DEF Request
  <2> HIDE DEF new
  <2> QED BY <1>3, <2>4 DEF ReqOK, Shaped
<1> HIDE DEF new
<1>4. ReqsOK' /\ \A b \in Reqs : b # a => req'[b] = req[b] BY <1>2, <1>a, OneReqOK DEF IInv, new
<1>5. CountsOK'
  <2>1. MaxAsked \in Nat BY NumbersAssumption
  <2> QED BY <1>1, <2>1 DEF IInv, CountsOK
<1> QED BY <1>1, <1>4, <1>5, SameIsSaved DEF IInv, StepOf

LEMMA RequireSpaceOK == ASSUME IInv, NEW a \in Reqs, RequireSpace(a) PROVE IInv' /\ StepOf(a)
<1>1. tree' = tree /\ fails' = fails /\ asked' = asked /\ together' = together /\ req[a].pc = "space" BY DEF RequireSpace
<1>2. Answer(a) \/ Goto(a, "check") BY DEF RequireSpace
<1>3. ReqsOK' /\ \A b \in Reqs : b # a => req'[b] = req[b] BY <1>1, <1>2, AnswerOK, GotoOK DEF IInv
<1> QED BY <1>1, <1>3, SameIsSaved DEF IInv, StepOf, CountsOK

LEMMA OwnerIs == ASSUME TreeOK(tree), NEW p \in Places PROVE OwnerOf(tree, p) \in {"game", "root"}
BY DEF OwnerOf, TreeOK, Entry, Places

LEMMA CheckOK == ASSUME IInv, NEW a \in Reqs, Check(a) PROVE IInv' /\ StepOf(a)
<1>1. tree' = tree /\ fails' = fails /\ asked' = asked /\ together' = together /\ req[a].pc = "check" BY DEF Check
<1> DEFINE r == req[a]
           new == [r EXCEPT !.pc = "do", !.owner = OwnerOf(tree, r.path)]
<1>2. req' = [req EXCEPT ![a] = new] \/ req' = [req EXCEPT ![a] = Idle] BY Zenon DEF Check
<1>3. r \in Request /\ ReqOK(r) BY DEF IInv, ReqsOK
<1>4. OwnerOf(tree, r.path) \in {"game", "root"} BY <1>3, OwnerIs DEF IInv, Request, Places
<1> HIDE DEF r
<1>5. new \in Request /\ new.pc = "do" /\ new.op = r.op /\ new.path = r.path /\ new.to = r.to
  <2> DEFINE o == OwnerOf(tree, r.path)
  <2>1. o \in {"game", "root"} BY <1>4
  <2> HIDE DEF o, Paths, Root
  <2> QED BY <1>3, <2>1 DEF Request, o
<1> HIDE DEF new
<1>6. ReqOK(new) BY <1>1, <1>3, <1>5 DEF ReqOK, Shaped, r
<1>7. ReqsOK' /\ \A b \in Reqs : b # a => req'[b] = req[b] BY <1>2, <1>6, IdleIs, OneReqOK DEF IInv
<1> QED BY <1>1, <1>7, SameIsSaved DEF IInv, StepOf, CountsOK

LEMMA TargetIs == ASSUME NEW p \in Paths PROVE Target(p) \in Paths /\ Parent(Target(p)) = Parent(p)
BY NamesAssumption, ParentIs DEF Target

\* A folder where nothing was.
LEMMA FolderMade ==
    ASSUME TreeOK(tree), NEW p \in Paths, KindOf(tree, Parent(p)) = "dir", ~IsThere(tree, p),
           tree' = [tree EXCEPT ![p] = Folder("root")]
    PROVE  TreeOK(tree') /\ Saves(tree, tree')
<1>1. Folder("root") \in Entry /\ Folder("root").kind = "dir" BY EntriesAre
<1>2. TreeOK(tree') BY <1>1, OneChangedOK
<1>3. p # Root BY RootIs
<1>4. tree[p].kind = "none" BY <1>3 DEF IsThere, KindOf
<1>5. \A q \in Paths : tree[q].kind = "file" => tree'[q] = tree[q] BY <1>4 DEF TreeOK
<1>6. \A q \in Paths : tree[q].kind = "file" => \E o \in Paths : tree'[o].kind = "file" /\ tree'[o].content = tree[q].content
  BY <1>5
<1>7. ASSUME NEW c \in Contents(tree) PROVE c \in (Contents(tree))'
  <2>1. PICK q \in Paths : tree[q].kind = "file" /\ c = tree[q].content BY <1>7 DEF Contents
  <2>2. PICK o \in Paths : tree'[o].kind = "file" /\ tree'[o].content = tree[q].content BY <1>6, <2>1
  <2>3. c = tree'[o].content BY <2>1, <2>2
  <2> QED BY <2>2, <2>3 DEF Contents
<1>8. Contents(tree) \subseteq Contents(tree') BY <1>7 DEF Contents
<1>9. Saves(tree, tree') BY <1>8 DEF Saves
<1> QED BY <1>2, <1>9

LEMMA MkdirOK == ASSUME IInv, NEW a \in Reqs, Mkdir(a) PROVE IInv' /\ StepOf(a)
<1> DEFINE r == req[a]
           p == IF r.op = "extract" THEN Target(r.path) ELSE r.path
<1>1. fails' = fails /\ asked' = asked /\ together' = together /\ r.op \in {"mkdir", "extract"} /\ r.pc = "do" BY DEF Mkdir
<1>2. r.path \in Paths BY <1>1 DEF IInv, ReqsOK, ReqOK, Shaped
<1>3. p \in Paths BY <1>2, TargetIs
<1>4. CASE KindOf(tree, Parent(p)) = "dir" /\ ~IsThere(tree, p)
  <2>1. tree' = [tree EXCEPT ![p] = Folder("root")] /\ Goto(a, IF r.op = "extract" THEN "unzip" ELSE "chown") BY <1>4 DEF Mkdir
  <2>2. TreeOK(tree') /\ Saves(tree, tree') BY <1>3, <1>4, <2>1, FolderMade DEF IInv
  <2>3. CASE r.op = "extract"
    <3>1. Goto(a, "unzip") BY <2>1, <2>3
    <3>2. ReqsOK' /\ \A b \in Reqs : b # a => req'[b] = req[b] BY <1>1, <2>3, <3>1, GotoOK DEF IInv
    <3> QED BY <1>1, <2>2, <3>2 DEF IInv, StepOf, CountsOK
  <2>4. CASE r.op = "mkdir"
    <3>1. Goto(a, "chown") BY <2>1, <2>4
    <3>2. ReqsOK' /\ \A b \in Reqs : b # a => req'[b] = req[b] BY <1>1, <2>4, <3>1, GotoOK DEF IInv
    <3> QED BY <1>1, <2>2, <3>2 DEF IInv, StepOf, CountsOK
  <2> QED BY <1>1, <2>3, <2>4
<1>5. CASE ~(KindOf(tree, Parent(p)) = "dir" /\ ~IsThere(tree, p))
  <2>1. tree' = tree /\ Answer(a) BY <1>5 DEF Mkdir
  <2>2. ReqsOK' /\ \A b \in Reqs : b # a => req'[b] = req[b] BY <2>1, AnswerOK DEF IInv
  <2> QED BY <1>1, <2>1, <2>2, SameIsSaved DEF IInv, StepOf, CountsOK
<1> QED BY <1>4, <1>5

\* A step that answers is in order if the tree it leaves is.
LEMMA EndOK ==
    ASSUME IInv, NEW a \in Reqs, Answer(a), TreeOK(tree'), asked' = asked, together' = together, fails' \in 0 .. MaxFails,
           req[a].op \in {"mkdir", "rename", "move", "copy"} => Saves(tree, tree')
    PROVE  IInv' /\ StepOf(a)
<1>1. ReqsOK' /\ \A b \in Reqs : b # a => req'[b] = req[b] BY AnswerOK DEF IInv
<1> QED BY <1>1 DEF IInv, StepOf, CountsOK

LEMMA RenameOK == ASSUME IInv, NEW a \in Reqs, Rename(a) PROVE IInv' /\ StepOf(a)
<1>1. /\ fails' = fails /\ asked' = asked /\ together' = together /\ req[a].op = "rename" /\ req[a].pc = "do" /\ Answer(a)
      /\ tree' = Mv(tree, req[a].path, req[a].to)
  BY DEF Rename
<1>2. req[a].path \in Paths /\ req[a].to \in Places BY <1>1 DEF IInv, ReqsOK, ReqOK, Shaped, Places
<1>3. TreeOK(tree') /\ Saves(tree, tree') BY <1>1, <1>2, MvOK, MvSaves DEF IInv
<1> QED BY <1>1, <1>3, EndOK DEF IInv, CountsOK

LEMMA MoveOK == ASSUME IInv, NEW a \in Reqs, Move(a) \/ Copy(a) PROVE IInv' /\ StepOf(a)
<1>1. fails' = fails /\ asked' = asked /\ together' = together /\ Answer(a) /\ tree' = Carried(req[a]) BY DEF Move, Copy
<1>2. req[a] \in Request /\ tree \in Trees BY DEF IInv, ReqsOK, TreeOK, Trees
<1>3. TreeOK(tree') /\ Saves(tree, tree') BY <1>1, <1>2, CarriedOK DEF Trees
<1> QED BY <1>1, <1>3, EndOK DEF IInv, CountsOK

LEMMA DeleteOK == ASSUME IInv, NEW a \in Reqs, Delete(a) PROVE IInv' /\ StepOf(a)
<1>1. /\ fails' = fails /\ asked' = asked /\ together' = together /\ req[a].op = "delete" /\ Answer(a)
      /\ tree' = Without(tree, {req[a].path})
  BY DEF Delete
<1>2. {req[a].path} \in SUBSET Places BY DEF IInv, ReqsOK, Request, Places
<1>3. TreeOK(tree') BY <1>1, <1>2, WithoutOK DEF IInv
<1> QED BY <1>1, <1>3, EndOK DEF IInv, CountsOK

\* What a request brings is a file or a folder.
LEMMA BringsIs ==
    ASSUME NEW r \in Request
    PROVE  /\ File(r.owner, r.size, r.content) \in Entry /\ File(r.owner, r.size, r.content).kind = "file"
           /\ Folder(r.owner) \in Entry /\ Folder(r.owner).kind = "dir"
           /\ \A size \in Nat : File("root", size, r.content) \in Entry /\ File("root", size, r.content).kind = "file"
<1>1. r.owner \in {"game", "root"} /\ r.size \in Nat /\ r.content \in 0 .. MaxAsked + 2 BY DEF Request
<1> QED BY <1>1, EntriesAre

LEMMA WriteTextOK == ASSUME IInv, NEW a \in Reqs, WriteText(a) PROVE IInv' /\ StepOf(a)
<1> DEFINE r == req[a]
<1>1. /\ fails' = fails /\ asked' = asked /\ together' = together /\ r.op = "write" /\ r.pc = "do" /\ Answer(a)
      /\ tree' = IF KindOf(tree, Parent(r.path)) = "dir"
                 THEN Put(tree, r.path, File(r.owner, r.size, r.content)) ELSE tree
  BY DEF WriteText
<1>2. r \in Request /\ r.path \in Paths BY <1>1 DEF IInv, ReqsOK, ReqOK, Shaped
<1>3. TreeOK(tree')
  <2>1. CASE KindOf(tree, Parent(r.path)) = "dir"
    <3> DEFINE e == File(r.owner, r.size, r.content)
    <3>1. e \in Entry /\ e.kind # "none" BY <1>2, BringsIs
    <3> HIDE DEF e
    <3>2. TreeOK(Put(tree, r.path, e)) BY <1>2, <2>1, <3>1, PutOK DEF IInv
    <3> QED BY <1>1, <2>1, <3>2 DEF e
  <2>2. CASE KindOf(tree, Parent(r.path)) # "dir" BY <1>1, <2>2 DEF IInv
  <2> QED BY <2>1, <2>2
<1> QED BY <1>1, <1>3, EndOK DEF IInv, CountsOK

LEMMA UploadOK == ASSUME IInv, NEW a \in Reqs, Upload(a) PROVE IInv' /\ StepOf(a)
<1> DEFINE r == req[a]
           file == File(r.owner, r.size, r.content)
           folder == Folder(r.owner)
           deep == Append(r.to, "f")
<1>1. fails' = fails /\ asked' = asked /\ together' = together /\ r.op = "upload" /\ r.pc = "do" /\ Answer(a) BY DEF Upload
<1>2. \/ tree' = IF KindOf(tree, r.path) = "dir" THEN Put(tree, r.to, file) ELSE tree
      \/ /\ deep \in Paths
         /\ tree' = IF KindOf(tree, r.path) = "dir" THEN Put(Put(tree, r.to, folder), deep, file) ELSE tree
  BY DEF Upload
<1>3. r \in Request /\ r.to \in Paths /\ Parent(r.to) = r.path BY <1>1 DEF IInv, ReqsOK, ReqOK, Shaped
<1>4. file \in Entry /\ file.kind # "none" /\ folder \in Entry /\ folder.kind = "dir" BY <1>3, BringsIs
<1> HIDE DEF file, folder, r
<1>5. TreeOK(tree) BY DEF IInv
<1>6. TreeOK(tree')
  <2>1. CASE tree' = tree BY <1>5, <2>1
  <2>2. CASE KindOf(tree, r.path) = "dir" /\ tree' = Put(tree, r.to, file) BY <1>3, <1>4, <1>5, <2>2, PutOK
  <2>3. CASE KindOf(tree, r.path) = "dir" /\ deep \in Paths /\ tree' = Put(Put(tree, r.to, folder), deep, file)
    <3> DEFINE t == Put(tree, r.to, folder)
    <3>1. TreeOK(t) BY <1>3, <1>4, <1>5, <2>3, PutOK
    <3>2. t[r.to].kind = "dir"
      <4>1. CASE tree[r.to].kind = "dir"
        <5>1. t = [tree EXCEPT ![r.to].owner = folder.owner] BY <1>4, <4>1 DEF Put
        <5> QED BY <1>3, <1>5, <4>1, <5>1 DEF TreeOK, Entry
      <4>2. CASE tree[r.to].kind # "dir"
        <5>1. t = [Without(tree, {r.to}) EXCEPT ![r.to] = folder] BY <4>2 DEF Put
        <5>2. DOMAIN Without(tree, {r.to}) = Paths BY DEF Without
        <5> QED BY <1>3, <1>4, <5>1, <5>2
      <4> QED BY <4>1, <4>2
    <3> HIDE DEF t
    <3>3. Parent(deep) = r.to BY <1>3, <2>3, NamesAssumption, ChildIs DEF Places
    <3>4. KindOf(t, Parent(deep)) = "dir"
      <4>1. r.to # Root BY <1>3, RootIs
      <4> QED BY <3>2, <3>3, <4>1 DEF KindOf
    <3>5. TreeOK(Put(t, deep, file)) BY <1>4, <2>3, <3>1, <3>4, PutOK
    <3> QED BY <2>3, <3>5 DEF t
  <2> QED BY <1>2, <2>1, <2>2, <2>3
<1> QED BY <1>1, <1>6, EndOK DEF IInv, CountsOK, r

LEMMA UnzipOK == ASSUME IInv, NEW a \in Reqs, Unzip(a) PROVE IInv' /\ StepOf(a)
<1> DEFINE r == req[a]
           file == Append(Target(r.path), "f")
<1>1. fails' = fails /\ asked' = asked /\ together' = together /\ r.pc = "unzip" BY DEF Unzip
<1>2. r \in Request /\ r.op = "extract" /\ r.path \in Paths BY <1>1 DEF IInv, ReqsOK, ReqOK, Shaped
<1>3. \/ /\ KindOf(tree, Target(r.path)) = "dir" /\ file \in Paths
         /\ \E size \in Unpacks : tree' = Put(tree, file, File("root", size, r.content)) /\ Goto(a, "chown")
      \/ tree' = tree /\ Goto(a, "clean")
  BY DEF Unzip
<1>4. ReqsOK' /\ \A b \in Reqs : b # a => req'[b] = req[b] BY <1>1, <1>2, <1>3, GotoOK DEF IInv
<1>5. TreeOK(tree')
  <2>1. CASE tree' = tree BY <2>1 DEF IInv
  <2>2. CASE /\ KindOf(tree, Target(r.path)) = "dir" /\ file \in Paths
             /\ \E size \in Unpacks : tree' = Put(tree, file, File("root", size, r.content))
    <3>1. PICK size \in Unpacks : tree' = Put(tree, file, File("root", size, r.content)) BY <2>2
    <3> DEFINE e == File("root", size, r.content)
    <3>2. size \in Nat BY NumbersAssumption
    <3>3. e \in Entry /\ e.kind # "none" BY <1>2, <3>2, BringsIs
    <3> HIDE DEF e
    <3>4. Target(r.path) \in Places BY <1>2, TargetIs DEF Places
    <3>5. Parent(file) = Target(r.path) BY <2>2, <3>4, NamesAssumption, ChildIs
    <3>6. TreeOK(Put(tree, file, e)) BY <2>2, <3>3, <3>5, PutOK DEF IInv
    <3> QED BY <3>1, <3>6 DEF e
  <2> QED BY <1>3, <2>1, <2>2
<1> QED BY <1>1, <1>2, <1>4, <1>5 DEF IInv, StepOf, CountsOK

LEMMA CleanOK == ASSUME IInv, NEW a \in Reqs, Clean(a) PROVE IInv' /\ StepOf(a)
<1>1. /\ fails' = fails /\ asked' = asked /\ together' = together /\ req[a].pc = "clean" /\ Answer(a)
      /\ tree' = Without(tree, {Target(req[a].path)})
  BY DEF Clean
<1>2. req[a].op = "extract" /\ req[a].path \in Paths BY <1>1 DEF IInv, ReqsOK, ReqOK, Shaped
<1>3. {Target(req[a].path)} \in SUBSET Places BY <1>2, TargetIs DEF Places
<1>4. TreeOK(tree') BY <1>1, <1>3, WithoutOK DEF IInv
<1> QED BY <1>1, <1>2, <1>4, EndOK DEF IInv, CountsOK

\* Handing on changes nothing but owners.
LEMMA HandedOn ==
    ASSUME NEW t \in [Paths -> Entry], NEW owned, NEW owner \in {"game", "root"}
    PROVE  LET new == [q \in Paths |-> IF q \in owned THEN [t[q] EXCEPT !.owner = owner] ELSE t[q]] IN
           /\ new \in [Paths -> Entry]
           /\ \A q \in Paths : /\ new[q].kind = t[q].kind /\ new[q].content = t[q].content /\ new[q].size = t[q].size
                               /\ new[q].owner = IF q \in owned THEN owner ELSE t[q].owner
<1> DEFINE new == [q \in Paths |-> IF q \in owned THEN [t[q] EXCEPT !.owner = owner] ELSE t[q]]
<1>1. \A e \in Entry : LET o == [e EXCEPT !.owner = owner] IN
          o \in Entry /\ o.kind = e.kind /\ o.content = e.content /\ o.size = e.size /\ o.owner = owner
  BY DEF Entry
<1>2. \A q \in Paths : new[q] \in Entry BY <1>1
<1>3. new \in [Paths -> Entry] BY <1>2
<1>4. \A q \in Paths : /\ new[q].kind = t[q].kind /\ new[q].content = t[q].content /\ new[q].size = t[q].size
                       /\ new[q].owner = IF q \in owned THEN owner ELSE t[q].owner
  BY <1>1
<1> QED BY <1>3, <1>4

LEMMA ChownOK == ASSUME IInv, NEW a \in Reqs, Chown(a) PROVE IInv' /\ StepOf(a)
<1> DEFINE r == req[a]
           p == IF r.op = "extract" THEN Target(r.path) ELSE r.path
           owned == IF r.op = "extract" THEN Under(tree, p) ELSE {p}
           owner == OwnerOf(tree, Parent(p))
           new == [q \in Paths |-> IF q \in owned THEN [tree[q] EXCEPT !.owner = owner] ELSE tree[q]]
<1>1. fails' = fails /\ asked' = asked /\ together' = together /\ r.pc = "chown" BY DEF Chown
<1>2. r.op \in {"mkdir", "extract"} /\ r.path \in Paths BY <1>1 DEF IInv, ReqsOK, ReqOK, Shaped
<1>3. p \in Paths BY <1>2, TargetIs
<1>4. owner \in {"game", "root"} BY <1>3, ParentIs, OwnerIs DEF IInv
<1>5. tree' = new \/ tree' = tree BY DEF Chown
<1>6. (r.op = "extract" /\ Goto(a, "disk")) \/ Answer(a) BY DEF Chown
<1>7. ReqsOK' /\ \A b \in Reqs : b # a => req'[b] = req[b] BY <1>1, <1>6, AnswerOK, GotoOK DEF IInv
<1>8. TreeOK(tree') /\ Saves(tree, tree')
  <2>1. CASE tree' = tree BY <2>1, SameIsSaved DEF IInv
  <2>2. CASE tree' = new
    <3>0. tree \in [Paths -> Entry] BY DEF IInv, TreeOK
    <3> DEFINE OK(t) == t \in [Paths -> Entry] /\ \A q \in Paths : t[q].kind = tree[q].kind /\ t[q].content = tree[q].content
    <3>1. OK(new)
      <4> HIDE DEF owned, owner
      <4> QED BY <1>4, <3>0, HandedOn
    <3>2. OK(tree') BY <2>2, <3>1, Zenon
    <3> HIDE DEF new
    <3>3. TreeOK(tree') BY <3>2, SameKindsOK DEF IInv
    <3>4. \A q \in Paths : tree[q].kind = "file" => \E o \in Paths : tree'[o].kind = "file" /\ tree'[o].content = tree[q].content
      BY <3>2
    <3>5. Saves(tree, tree') BY <3>4, SavesIf
    <3> QED BY <3>3, <3>5
  <2> QED BY <1>5, <2>1, <2>2
<1> QED BY <1>1, <1>7, <1>8 DEF IInv, StepOf, CountsOK

LEMMA CheckDiskOK == ASSUME IInv, NEW a \in Reqs, CheckDisk(a) PROVE IInv' /\ StepOf(a)
<1>1. /\ tree' = tree /\ fails' = fails /\ asked' = asked /\ together' = together /\ req[a].pc = "disk"
      /\ Goto(a, "clean") \/ Answer(a)
  BY DEF CheckDisk
<1>2. req[a].op = "extract" BY <1>1 DEF IInv, ReqsOK, ReqOK
<1>3. ReqsOK' /\ \A b \in Reqs : b # a => req'[b] = req[b] BY <1>1, <1>2, AnswerOK, GotoOK DEF IInv
<1> QED BY <1>1, <1>3, SameIsSaved DEF IInv, StepOf, CountsOK

LEMMA FailsOK == ASSUME IInv, NEW a \in Reqs, Fails(a) PROVE IInv' /\ StepOf(a)
<1>1. tree' = tree /\ asked' = asked /\ together' = together /\ fails < MaxFails /\ fails' = fails + 1 /\ Answer(a) BY DEF Fails
<1>2. fails' \in 0 .. MaxFails
  <2>1. MaxFails \in Nat BY NumbersAssumption
  <2> QED BY <1>1, <2>1 DEF IInv, CountsOK
<1> QED BY <1>1, <1>2, SameIsSaved, EndOK DEF IInv

LEMMA InitOK == ASSUME Init PROVE IInv
<1>1. /\ req = [a \in Reqs |-> Idle] /\ asked = 0 /\ fails = 0 /\ together = FALSE
      /\ tree = [p \in Paths |-> CASE p = <<"d">> -> Folder("game")
                                   [] p = <<"d", "f">> -> File("game", 1, 1)
                                   [] p = <<ZipName>> -> File("game", 1, 2)
                                   [] OTHER -> None]
  BY DEF Init
<1>2. MaxAsked \in Nat /\ MaxFails \in Nat BY NumbersAssumption
<1>3. ReqsOK BY <1>1, IdleIs DEF ReqsOK
<1>4. CountsOK
  <2>1. 0 \in 0 .. MaxAsked /\ 0 \in 0 .. MaxFails BY <1>2
  <2> QED BY <1>1, <2>1 DEF CountsOK
<1>5. /\ Folder("game") \in Entry /\ Folder("game").kind = "dir"
      /\ File("game", 1, 1) \in Entry /\ File("game", 1, 1).kind = "file"
      /\ File("game", 1, 2) \in Entry /\ File("game", 1, 2).kind = "file"
      /\ None \in Entry /\ None.kind = "none"
  <2>1. 1 \in 0 .. MaxAsked + 2 /\ 2 \in 0 .. MaxAsked + 2 BY <1>2
  <2> QED BY <2>1, EntriesAre
<1>6. \A n : <<"d", n>> # <<"d">> /\ <<"d", n>> # <<ZipName>> /\ (<<ZipName>> = <<"d">> => ZipName = "d") OBVIOUS
<1>7. /\ \A p \in Paths : tree[p] \in {Folder("game"), File("game", 1, 1), File("game", 1, 2), None}
      /\ \A p \in Paths : tree[p].kind # "none" => p \in {<<"d">>, <<"d", "f">>, <<ZipName>>}
      /\ <<"d">> \in Paths => tree[<<"d">>].kind = "dir"
  <2>1. \A p \in Paths : tree[p] = CASE p = <<"d">> -> Folder("game")
                                   [] p = <<"d", "f">> -> File("game", 1, 1)
                                   [] p = <<ZipName>> -> File("game", 1, 2)
                                   [] OTHER -> None
    BY <1>1, Zenon
  <2>2. <<"d", "f">> # <<"d">> /\ <<"d", "f">> # <<ZipName>> /\ <<ZipName>> # <<"d">> BY <1>6, NamesAssumption
  <2>3. <<"d">> \in Paths => tree[<<"d">>] = Folder("game") BY <2>1, <2>2, Zenon
  <2>4. <<"d", "f">> \in Paths => tree[<<"d", "f">>] = File("game", 1, 1) BY <2>1, <2>2
  <2>5. <<ZipName>> \in Paths => tree[<<ZipName>>] = File("game", 1, 2) BY <2>1, <2>2
  <2>6. \A p \in Paths : p \notin {<<"d">>, <<"d", "f">>, <<ZipName>>} => tree[p] = None BY <2>1
  <2> QED BY <1>5, <2>3, <2>4, <2>5, <2>6
<1>8. tree \in [Paths -> Entry] BY <1>1, <1>5, <1>7
<1>9. ASSUME NEW p \in Paths, tree[p].kind # "none" PROVE KindOf(tree, Parent(p)) = "dir"
  <2>1. CASE p = <<"d">> \/ p = <<ZipName>>
    <3>1. Len(p) = 1 BY <2>1
    <3>2. Parent(p) \in Seq(Names) /\ Len(Parent(p)) = 0 BY <3>1, ParentHas
    <3>3. Parent(p) = Root BY <3>2, EmptySeq DEF Root
    <3> QED BY <3>3 DEF KindOf
  <2>2. CASE p = <<"d", "f">>
    <3>1. Len(p) = 2 /\ p[1] = "d" BY <2>2
    <3>2. /\ p \in Seq(Names) /\ Len(p) \in 1 .. MaxDepth /\ Parent(p) \in Seq(Names) /\ Len(Parent(p)) = 1
          /\ Parent(p)[1] = "d"
      <4>1. 1 \in 1 .. Len(p) - 1 /\ Len(p) - 1 = 1 BY <3>1
      <4>2. Parent(p)[1] = p[1] /\ Len(Parent(p)) = Len(p) - 1 BY <4>1, ParentHas
      <4>3. p \in Seq(Names) /\ Len(p) \in 1 .. MaxDepth /\ Parent(p) \in Seq(Names) BY ParentHas
      <4> QED BY <3>1, <4>1, <4>2, <4>3
    <3>3. Parent(p) = <<"d">>
      <4>1. "d" \in Names
        <5>1. 1 \in 1 .. Len(p) BY <3>1
        <5> QED BY <3>1, <3>2, <5>1, SeqIs
      <4>2. <<"d">> \in Seq(Names) /\ Len(<<"d">>) = 1 /\ <<"d">>[1] = "d" BY <4>1
      <4>3. \A i \in 1 .. Len(Parent(p)) : Parent(p)[i] = <<"d">>[i] BY <3>2
      <4> QED BY <3>2, <4>2, <4>3, SeqEqual
    <3>4. Parent(p) \in Paths /\ Parent(p) # Root
      <4>1. MaxDepth \in Nat BY NumbersAssumption
      <4> QED BY <3>1, <3>2, <4>1, PathIs, RootIs
    <3> QED BY <1>7, <3>3, <3>4 DEF KindOf
  <2> QED BY <1>7, <1>9, <2>1, <2>2
<1> QED BY <1>3, <1>4, <1>8, <1>9 DEF IInv, TreeOK

LEMMA EveryStepOK ==
    ASSUME IInv, NEW a \in Reqs,
           \/ Ask(a) \/ RequireSpace(a) \/ Check(a) \/ Mkdir(a) \/ Rename(a) \/ Move(a) \/ Copy(a) \/ Delete(a)
           \/ WriteText(a) \/ Upload(a) \/ Unzip(a) \/ Clean(a) \/ Chown(a) \/ CheckDisk(a) \/ Fails(a)
    PROVE  IInv' /\ StepOf(a)
BY AskOK, RequireSpaceOK, CheckOK, MkdirOK, RenameOK, MoveOK, DeleteOK, WriteTextOK, UploadOK, UnzipOK, CleanOK, ChownOK,
   CheckDiskOK, FailsOK

LEMMA StepOK == ASSUME IInv, [Next]_vars PROVE IInv'
<1>1. CASE Next BY <1>1, EveryStepOK DEF Next
<1>2. CASE UNCHANGED vars BY <1>2 DEF vars, IInv, ReqsOK, CountsOK
<1> QED BY <1>1, <1>2

LEMMA AlwaysIInv == Spec => []IInv
<1>1. Init => IInv BY InitOK
<1>2. IInv /\ [Next]_vars => IInv' BY StepOK
<1> QED BY <1>1, <1>2, PTL DEF Spec

\* The volume stays a tree, and no path that is asked for leaves it, however it is written and
\* whatever other requests do between two commands.
THEOREM TypeCorrect == Spec => []TypeOK
<1>1. IInv => TypeOK BY DEF IInv, TreeOK, ReqsOK, CountsOK, TypeOK, All
<1> QED BY <1>1, AlwaysIInv, PTL

\* Making, renaming, moving and copying lose no file, whatever came to their destination since
\* they looked at it.
THEOREM NoFileIsLost == Spec => NothingOverwritten
<1>1. IInv /\ [Next]_vars =>
        [\A a \in Reqs : req[a].op \in {"mkdir", "rename", "move", "copy"} /\ req'[a] # req[a]
            => Contents(tree) \subseteq Contents(tree')]_vars
  <2> SUFFICES ASSUME IInv, Next, NEW a \in Reqs, req[a].op \in {"mkdir", "rename", "move", "copy"}, req'[a] # req[a]
               PROVE  Contents(tree) \subseteq Contents(tree')
    BY DEF vars
  <2>1. PICK b \in Reqs : StepOf(b) BY EveryStepOK DEF Next
  <2>2. b = a BY <2>1 DEF StepOf
  <2> QED BY <2>1, <2>2 DEF StepOf, Saves
<1> QED BY <1>1, AlwaysIInv, PTL DEF Spec, NothingOverwritten
----------------------------------------------------------------------------
(* What the bytes of a set of paths come to. *)

\* What holds the empty set, and every set of S that it holds without any of its elements,
\* holds them all.
LEMMA BySize ==
    ASSUME NEW S, IsFiniteSet(S), NEW X, {} \in X,
           \A s \in SUBSET S : s # {} /\ (\A x \in s : s \ {x} \in X) => s \in X
    PROVE  \A s \in SUBSET S : s \in X
<1> DEFINE n == Cardinality(S)
           T == {k \in 0 .. n : \A s \in SUBSET S : Cardinality(s) = k => s \in X}
<1>1. n \in Nat /\ \A s \in SUBSET S : IsFiniteSet(s) /\ Cardinality(s) \in 0 .. n
  <2>1. n \in Nat BY FS_CardinalityType
  <2>2. ASSUME NEW s \in SUBSET S PROVE IsFiniteSet(s) /\ Cardinality(s) \in 0 .. n
    <3>1. IsFiniteSet(s) /\ Cardinality(s) <= n BY FS_Subset
    <3>2. Cardinality(s) \in Nat BY <3>1, FS_CardinalityType
    <3> QED BY <2>1, <3>1, <3>2
  <2> QED BY <2>1, <2>2
<1> HIDE DEF n
<1>2. 0 \in T
  <2>1. \A s \in SUBSET S : Cardinality(s) = 0 => s = {} BY <1>1, FS_EmptySet
  <2>2. \A s \in SUBSET S : Cardinality(s) = 0 => s \in X BY <2>1
  <2>3. 0 \in 0 .. n BY <1>1
  <2> QED BY <2>2, <2>3
<1>3. ASSUME NEW k \in 0 .. n - 1, k \in T PROVE k + 1 \in T
  <2>1. k + 1 \in 0 .. n BY <1>1
  <2>2. ASSUME NEW s \in SUBSET S, Cardinality(s) = k + 1 PROVE s \in X
    <3>0. k + 1 # 0 BY <1>1
    <3>1. s # {} BY <2>2, <3>0, FS_EmptySet
    <3>2. ASSUME NEW x \in s PROVE s \ {x} \in X
      <4>1. Cardinality(s \ {x}) = Cardinality(s) - 1 BY <1>1, FS_RemoveElement
      <4>2. Cardinality(s \ {x}) = k BY <2>2, <4>1
      <4> QED BY <1>3, <4>2
    <3> QED BY <3>1, <3>2
  <2> QED BY <2>1, <2>2
<1> HIDE DEF T
<1>4. \A k \in 0 .. n : k \in T BY <1>1, <1>2, <1>3, AllTheWay
<1> QED BY <1>1, <1>4 DEF T

One(s) == CHOOSE x \in s : TRUE

\* The element a sum takes first.
LEMMA OneIsIn == \A s : s # {} => One(s) \in s
BY DEF One

\* The recursive function that a sum over the sets in D comes to.
SumsUp(g, D, w) == \A s \in D : g[s] = IF s = {} THEN 0 ELSE w[One(s)] + g[s \ {One(s)}]

\* There is a function that has the sum of every set.
LEMMA SumExists ==
    ASSUME NEW S, IsFiniteSet(S), NEW w \in [S -> Nat]
    PROVE  \E g \in [SUBSET S -> Nat] : SumsUp(g, SUBSET S, w)
<1> DEFINE n == Cardinality(S)
           D(k) == {s \in SUBSET S : Cardinality(s) <= k}
           T == {k \in 0 .. n : \E g \in [D(k) -> Nat] : SumsUp(g, D(k), w)}
<1>1. n \in Nat /\ \A s \in SUBSET S : IsFiniteSet(s) /\ Cardinality(s) \in 0 .. n
  <2>1. n \in Nat BY FS_CardinalityType
  <2>2. ASSUME NEW s \in SUBSET S PROVE IsFiniteSet(s) /\ Cardinality(s) \in 0 .. n
    <3>1. IsFiniteSet(s) /\ Cardinality(s) <= n BY FS_Subset
    <3>2. Cardinality(s) \in Nat BY <3>1, FS_CardinalityType
    <3> QED BY <2>1, <3>1, <3>2
  <2> QED BY <2>1, <2>2
<1>a. \A s \in SUBSET S : s # {} => One(s) \in s /\ s \ {One(s)} \in SUBSET S /\ Cardinality(s \ {One(s)}) = Cardinality(s) - 1
  <2> SUFFICES ASSUME NEW s \in SUBSET S, s # {}
               PROVE  One(s) \in s /\ s \ {One(s)} \in SUBSET S /\ Cardinality(s \ {One(s)}) = Cardinality(s) - 1
    OBVIOUS
  <2>1. One(s) \in s BY OneIsIn
  <2>2. Cardinality(s \ {One(s)}) = Cardinality(s) - 1 BY <1>1, <2>1, FS_RemoveElement
  <2> QED BY <2>1, <2>2
<1>b. \A s \in SUBSET S : Cardinality(s) = 0 <=> s = {} BY <1>1, FS_EmptySet
<1> HIDE DEF n
<1>2. 0 \in T
  <2> DEFINE g == [s \in D(0) |-> 0]
  <2>1. \A s \in D(0) : s = {} BY <1>1, <1>b
  <2>2. SumsUp(g, D(0), w) BY <2>1 DEF SumsUp
  <2>3. g \in [D(0) -> Nat] OBVIOUS
  <2>4. 0 \in 0 .. n BY <1>1
  <2> HIDE DEF g, D
  <2> QED BY <2>2, <2>3, <2>4
<1>3. ASSUME NEW k \in 0 .. n - 1, k \in T PROVE k + 1 \in T
  <2>1. PICK g \in [D(k) -> Nat] : SumsUp(g, D(k), w) BY <1>3
  <2> DEFINE h == [s \in D(k + 1) |-> IF Cardinality(s) <= k THEN g[s] ELSE w[One(s)] + g[s \ {One(s)}]]
  <2>2. \A s \in D(k + 1) : s \in SUBSET S /\ Cardinality(s) \in Nat /\ (Cardinality(s) <= k => s \in D(k)) BY <1>1
  <2>3. \A s \in D(k + 1) : s # {} => One(s) \in S /\ s \ {One(s)} \in D(k) /\ s \ {One(s)} \in D(k + 1)
    BY <1>1, <1>a
  <2>4. \A s \in D(k + 1) : ~(Cardinality(s) <= k) => s # {} BY <1>1, <1>b
  <2>5. h \in [D(k + 1) -> Nat]
    <3>1. ASSUME NEW s \in D(k + 1)
          PROVE  (IF Cardinality(s) <= k THEN g[s] ELSE w[One(s)] + g[s \ {One(s)}]) \in Nat
      <4>1. CASE Cardinality(s) <= k BY <2>1, <2>2, <4>1
      <4>2. CASE ~(Cardinality(s) <= k)
        <5>1. s # {} BY <2>4, <4>2
        <5>2. w[One(s)] \in Nat /\ g[s \ {One(s)}] \in Nat BY <2>1, <2>3, <5>1
        <5> QED BY <4>2, <5>2
      <4> QED BY <4>1, <4>2
    <3> QED BY <3>1
  <2>6. ASSUME NEW s \in D(k + 1) PROVE h[s] = IF s = {} THEN 0 ELSE w[One(s)] + h[s \ {One(s)}]
    <3>1. CASE s = {}
      <4>1. Cardinality(s) <= k BY <1>1, <1>b, <3>1
      <4>2. h[s] = g[s] BY <4>1
      <4>3. g[s] = 0 BY <2>1, <2>2, <3>1, <4>1 DEF SumsUp
      <4> QED BY <3>1, <4>2, <4>3
    <3>2. CASE s # {}
      <4> DEFINE u == s \ {One(s)}
      <4>1. u \in D(k) /\ u \in D(k + 1) BY <2>3, <3>2
      <4>2. h[u] = g[u] BY <4>1
      <4>3. h[s] = w[One(s)] + g[u]
        <5>1. CASE Cardinality(s) <= k
          <6>1. s \in D(k) /\ h[s] = g[s] BY <2>2, <5>1
          <6> QED BY <2>1, <3>2, <6>1 DEF SumsUp
        <5>2. CASE ~(Cardinality(s) <= k) BY <5>2
        <5> QED BY <5>1, <5>2
      <4> QED BY <3>2, <4>2, <4>3
    <3> QED BY <3>1, <3>2
  <2>7. k + 1 \in 0 .. n BY <1>1
  <2> HIDE DEF h
  <2>8. SumsUp(h, D(k + 1), w) BY <2>6 DEF SumsUp
  <2> QED BY <2>5, <2>7, <2>8
<1> HIDE DEF T
<1>4. \A k \in 0 .. n : k \in T BY <1>1, <1>2, <1>3, AllTheWay
<1>5. n \in T BY <1>1, <1>4
<1>6. D(n) = SUBSET S BY <1>1
<1> QED BY <1>5, <1>6 DEF T

Summing(g, S, w) ==
    IsFiniteSet(S) /\ w \in [S -> Nat] /\ g \in [SUBSET S -> Nat] /\ SumsUp(g, SUBSET S, w)
AnyFirst(g, S, w) == \A s \in SUBSET S : \A x \in s : g[s] = w[x] + g[s \ {x}]

\* Any of the elements may be taken first.
LEMMA SumAdds ==
    ASSUME NEW S, NEW w, NEW g, Summing(g, S, w)
    PROVE  AnyFirst(g, S, w)
<1>0. IsFiniteSet(S) /\ w \in [S -> Nat] /\ g \in [SUBSET S -> Nat] /\ SumsUp(g, SUBSET S, w) BY DEF Summing
<1> DEFINE X == {s \in SUBSET S : \A x \in s : g[s] = w[x] + g[s \ {x}]}
<1>1. {} \in X OBVIOUS
<1>2. ASSUME NEW s \in SUBSET S, s # {}, \A x \in s : s \ {x} \in X PROVE s \in X
  <2> SUFFICES ASSUME NEW x \in s PROVE g[s] = w[x] + g[s \ {x}] OBVIOUS
  <2> DEFINE c == One(s)
  <2>1. c \in s /\ g[s] = w[c] + g[s \ {c}] BY <1>0, <1>2, OneIsIn DEF SumsUp
  <2> HIDE DEF c
  <2>2. CASE x = c BY <2>1, <2>2
  <2>3. CASE x # c
    <3> DEFINE rest == s \ {c, x}
    <3>1. (s \ {c}) \ {x} = rest /\ (s \ {x}) \ {c} = rest /\ rest \in SUBSET S OBVIOUS
    <3>2. x \in s \ {c} /\ c \in s \ {x} BY <2>1, <2>3
    <3>3. g[s \ {c}] = w[x] + g[rest] BY <1>2, <2>1, <3>1, <3>2
    <3>4. g[s \ {x}] = w[c] + g[rest] BY <1>2, <3>1, <3>2
    <3>5. w[x] \in Nat /\ w[c] \in Nat /\ g[rest] \in Nat BY <1>0, <2>1
    <3> HIDE DEF rest
    <3> QED BY <2>1, <3>3, <3>4, <3>5
  <2> QED BY <2>2, <2>3
<1> HIDE DEF X
<1>3. \A s \in SUBSET S : s \in X BY <1>0, <1>1, <1>2, BySize
<1> QED BY <1>3 DEF X, AnyFirst

\* There are only so many paths.
LEMMA PathsFinite == IsFiniteSet(Paths)
<1>0. MaxDepth \in Nat /\ IsFiniteSet(Names) BY NumbersAssumption, NamesAssumption
<1> DEFINE F(k) == [1 .. k -> Names]
           T == {k \in 0 .. MaxDepth : IsFiniteSet(F(k))}
<1>1. 0 \in T
  <2>1. \A l1, l2 \in F(0) : l1 = l2 OBVIOUS
  <2>2. F(0) = {} \/ \E l \in F(0) : F(0) = {l} BY <2>1
  <2> HIDE DEF F
  <2>3. IsFiniteSet(F(0)) BY <2>2, FS_EmptySet, FS_Singleton
  <2> QED BY <1>0, <2>3
<1>2. ASSUME NEW k \in 0 .. MaxDepth - 1, k \in T PROVE k + 1 \in T
  <2> DEFINE P == F(k) \X Names
             e == [p \in P |-> [i \in 1 .. k + 1 |-> IF i = k + 1 THEN p[2] ELSE p[1][i]]]
  <2>1. IsFiniteSet(P) BY <1>0, <1>2, FS_Product
  <2>2. \A p \in P : e[p] \in F(k + 1)
    <3> SUFFICES ASSUME NEW p \in P PROVE [i \in 1 .. k + 1 |-> IF i = k + 1 THEN p[2] ELSE p[1][i]] \in F(k + 1) OBVIOUS
    <3>1. p[2] \in Names /\ p[1] \in F(k) OBVIOUS
    <3>2. \A i \in 1 .. k + 1 : i = k + 1 \/ i \in 1 .. k OBVIOUS
    <3> QED BY <3>1, <3>2
  <2>3. ASSUME NEW l \in F(k + 1) PROVE \E p \in P : e[p] = l
    <3> DEFINE q == <<[i \in 1 .. k |-> l[i]], l[k + 1]>>
    <3>1. k + 1 \in 1 .. k + 1 /\ \A i \in 1 .. k : i \in 1 .. k + 1 OBVIOUS
    <3>2. q \in P BY <3>1
    <3>3. \A i \in 1 .. k + 1 : (IF i = k + 1 THEN q[2] ELSE q[1][i]) = l[i]
      <4>1. \A i \in 1 .. k + 1 : i = k + 1 \/ i \in 1 .. k OBVIOUS
      <4> QED BY <4>1
    <3>4. [i \in 1 .. k + 1 |-> IF i = k + 1 THEN q[2] ELSE q[1][i]] = l BY <3>3
    <3>5. e[q] = [i \in 1 .. k + 1 |-> IF i = k + 1 THEN q[2] ELSE q[1][i]] BY <3>2
    <3> QED BY <3>2, <3>4, <3>5
  <2> HIDE DEF e
  <2>4. DOMAIN e = P BY DEF e
  <2>5. e \in [P -> F(k + 1)] BY <2>2 DEF e
  <2> HIDE DEF P, F
  <2>6. e \in Surjection(P, F(k + 1)) BY <2>3, <2>5 DEF Surjection
  <2>7. IsFiniteSet(F(k + 1)) BY <2>1, <2>6, FS_Surjection
  <2>8. k + 1 \in 0 .. MaxDepth BY <1>0
  <2> QED BY <2>7, <2>8
<1> HIDE DEF T
<1>3. \A k \in 0 .. MaxDepth : k \in T BY <1>0, <1>1, <1>2, AllTheWay
<1>4. MaxDepth \in 0 .. MaxDepth BY <1>0
<1>5. IsFiniteSet(F(MaxDepth)) BY <1>3, <1>4 DEF T
<1>6. IsFiniteSet(1 .. MaxDepth) BY <1>0, FS_Interval
<1> DEFINE P == F(MaxDepth) \X (1 .. MaxDepth)
           e == [p \in P |-> Cut(p[1], p[2])]
<1>7. IsFiniteSet(P)
  <2> HIDE DEF F
  <2> QED BY <1>5, <1>6, FS_Product
<1>8. \A p \in P : e[p] \in Paths BY DEF Paths
<1>9. ASSUME NEW q \in Paths PROVE \E p \in P : e[p] = q
  <2>1. PICK n \in 1 .. MaxDepth, l \in F(MaxDepth) : q = Cut(l, n) BY DEF Paths
  <2>2. <<l, n>> \in P OBVIOUS
  <2> DEFINE ln == <<l, n>>
  <2>3. ln[1] = l /\ ln[2] = n /\ ln \in P OBVIOUS
  <2> HIDE DEF ln
  <2> QED BY <2>1, <2>3
<1>10. e \in [P -> Paths] BY <1>8
<1> HIDE DEF P, e
<1>11. e \in Surjection(P, Paths) BY <1>9, <1>10 DEF Surjection
<1> QED BY <1>7, <1>11, FS_Surjection

\* The bytes of a set of paths: nothing, or those of any one of them and of the rest.
LEMMA BytesAdd ==
    ASSUME NEW t \in [Paths -> Entry]
    PROVE  /\ Bytes(t, {}) = 0
           /\ \A s \in SUBSET Paths : Bytes(t, s) \in Nat /\ \A x \in s : Bytes(t, s) = t[x].size + Bytes(t, s \ {x})
<1> DEFINE w == [p \in Paths |-> t[p].size]
<1>1. w \in [Paths -> Nat] BY DEF Entry
<1>2. \A p \in Paths : w[p] = t[p].size OBVIOUS
<1> HIDE DEF w
<1>3. PICK g \in [SUBSET Paths -> Nat] : SumsUp(g, SUBSET Paths, w) BY <1>1, PathsFinite, SumExists
<1>4. ASSUME NEW S \in SUBSET Paths PROVE Bytes(t, S) = g[S]
  <2> DEFINE Made(q) == q = [s \in SUBSET S |-> IF s = {} THEN 0 ELSE t[One(s)].size + q[s \ {One(s)}]]
             f == CHOOSE q : Made(q)
             own == [s \in SUBSET S |-> g[s]]
  <2>1. Made(own)
    <3>1. ASSUME NEW s \in SUBSET S
          PROVE  g[s] = IF s = {} THEN 0 ELSE t[One(s)].size + own[s \ {One(s)}]
      <4>1. CASE s = {} BY <1>3, <4>1 DEF SumsUp
      <4>2. CASE s # {}
        <5>1. One(s) \in Paths /\ s \ {One(s)} \in SUBSET S BY <4>2, OneIsIn
        <5>2. g[s] = w[One(s)] + g[s \ {One(s)}] BY <1>3, <4>2 DEF SumsUp
        <5> QED BY <1>2, <4>2, <5>1, <5>2
      <4> QED BY <4>1, <4>2
    <3> QED BY <3>1
  <2>2. Made(f) BY <2>1
  <2>3. Bytes(t, S) = f[S] BY DEF Bytes, MapThenSumSet, MapThenFoldSet, One
  <2> HIDE DEF f
  <2> DEFINE X == {s \in SUBSET S : f[s] = g[s]}
  <2>4. {} \in X BY <1>3, <2>2 DEF SumsUp
  <2>5. ASSUME NEW s \in SUBSET S, s # {}, \A x \in s : s \ {x} \in X PROVE s \in X
    <3>1. One(s) \in s /\ One(s) \in Paths BY <2>5, OneIsIn
    <3>2. f[s] = t[One(s)].size + f[s \ {One(s)}] BY <2>2, <2>5
    <3>3. g[s] = w[One(s)] + g[s \ {One(s)}] BY <1>3, <2>5 DEF SumsUp
    <3>4. f[s \ {One(s)}] = g[s \ {One(s)}] BY <2>5, <3>1
    <3> QED BY <1>2, <3>1, <3>2, <3>3, <3>4
  <2> HIDE DEF X
  <2>6. IsFiniteSet(S) BY PathsFinite, FS_Subset
  <2>7. \A s \in SUBSET S : s \in X BY <2>4, <2>5, <2>6, BySize
  <2> QED BY <2>3, <2>7 DEF X
<1>5. \A s \in SUBSET Paths : \A x \in s : g[s] = w[x] + g[s \ {x}]
  <2>1. Summing(g, Paths, w) BY <1>1, <1>3, PathsFinite DEF Summing
  <2>2. AnyFirst(g, Paths, w) BY <2>1, SumAdds
  <2> QED BY <2>2 DEF AnyFirst
<1>6. g[{}] = 0 BY <1>3 DEF SumsUp
<1>7. ASSUME NEW s \in SUBSET Paths
      PROVE  Bytes(t, s) \in Nat /\ \A x \in s : Bytes(t, s) = t[x].size + Bytes(t, s \ {x})
  <2>1. Bytes(t, s) = g[s] BY <1>4
  <2>2. \A x \in s : Bytes(t, s \ {x}) = g[s \ {x}] BY <1>4
  <2> QED BY <1>2, <1>5, <2>1, <2>2
<1>8. Bytes(t, {}) = 0 BY <1>4, <1>6
<1> QED BY <1>7, <1>8
----------------------------------------------------------------------------
(* How the sizes of two trees compare, and what one step of a file changes. *)

\* What is in a of one tree is in b of another, each somewhere else.
Into(t, a, u, b, f) ==
    /\ \A p \in a : t[p].size # 0 => f[p] \in b /\ t[p].size <= u[f[p]].size
    /\ \A p, q \in a : t[p].size # 0 /\ t[q].size # 0 /\ f[p] = f[q] => p = q

\* Then a holds no more bytes than b does.
LEMMA Fewer ==
    ASSUME NEW t \in [Paths -> Entry], NEW u \in [Paths -> Entry], NEW a \in SUBSET Paths, NEW b \in SUBSET Paths,
           NEW f, Into(t, a, u, b, f)
    PROVE  Bytes(t, a) <= Bytes(u, b)
<1> DEFINE X == {s \in SUBSET a : \A c \in SUBSET b : Into(t, s, u, c, f) => Bytes(t, s) <= Bytes(u, c)}
<1>0. \A p \in Paths : t[p].size \in Nat /\ u[p].size \in Nat BY DEF Entry
<1>1. /\ Bytes(t, {}) = 0
      /\ \A s \in SUBSET Paths : Bytes(t, s) \in Nat /\ \A x \in s : Bytes(t, s) = t[x].size + Bytes(t, s \ {x})
      /\ \A s \in SUBSET Paths : Bytes(u, s) \in Nat /\ \A x \in s : Bytes(u, s) = u[x].size + Bytes(u, s \ {x})
  BY BytesAdd
<1>2. {} \in X
  <2>1. \A c \in SUBSET b : Bytes(u, c) \in Nat BY <1>1
  <2>2. \A c \in SUBSET b : 0 <= Bytes(u, c) BY <2>1
  <2> QED BY <1>1, <2>2
<1>3. ASSUME NEW s \in SUBSET a, s # {}, \A x \in s : s \ {x} \in X PROVE s \in X
  <2> SUFFICES ASSUME NEW c \in SUBSET b, Into(t, s, u, c, f) PROVE Bytes(t, s) <= Bytes(u, c) OBVIOUS
  <2>1. PICK p \in s : TRUE BY <1>3
  <2> DEFINE r == s \ {p}
  <2>2. p \in Paths /\ r \in X /\ r \in SUBSET Paths /\ s \in SUBSET Paths /\ c \in SUBSET Paths BY <1>3
  <2>3. Bytes(t, s) = t[p].size + Bytes(t, r) /\ Bytes(t, r) \in Nat BY <1>1, <2>1, <2>2
  <2>4. CASE t[p].size = 0
    <3>1. Into(t, r, u, c, f) BY DEF Into
    <3>2. Bytes(t, r) <= Bytes(u, c) BY <2>2, <3>1
    <3> HIDE DEF r
    <3> QED BY <1>1, <2>2, <2>3, <2>4, <3>2
  <2>5. CASE t[p].size # 0
    <3> DEFINE y == f[p]
               d == c \ {y}
    <3>1. y \in c /\ t[p].size <= u[y].size BY <2>1, <2>5 DEF Into
    <3>2. Into(t, r, u, d, f) BY <2>1, <2>5 DEF Into
    <3>3. d \in SUBSET b /\ d \in SUBSET Paths /\ y \in Paths BY <3>1
    <3>4. Bytes(t, r) <= Bytes(u, d) BY <2>2, <3>2, <3>3
    <3>5. Bytes(u, c) = u[y].size + Bytes(u, d) /\ Bytes(u, d) \in Nat BY <1>1, <2>2, <3>1, <3>3
    <3>6. t[p].size \in Nat /\ u[y].size \in Nat BY <1>0, <2>2, <3>3
    <3> HIDE DEF r, d, y
    <3> QED BY <2>3, <3>1, <3>4, <3>5, <3>6
  <2> QED BY <2>4, <2>5
<1> HIDE DEF X
<1>4. IsFiniteSet(a) BY PathsFinite, FS_Subset
<1>5. \A s \in SUBSET a : s \in X BY <1>2, <1>3, <1>4, BySize
<1>6. a \in X /\ b \in SUBSET b BY <1>5
<1> QED BY <1>6 DEF X

\* Fewer paths hold no more bytes.
LEMMA NoMore ==
    ASSUME NEW t \in [Paths -> Entry], NEW u \in [Paths -> Entry], NEW a \in SUBSET Paths, NEW b \in SUBSET Paths,
           \A p \in a : t[p].size # 0 => p \in b /\ t[p].size <= u[p].size
    PROVE  Bytes(t, a) <= Bytes(u, b)
<1> DEFINE f == [p \in Paths |-> p]
<1>1. \A p \in Paths : f[p] = p OBVIOUS
<1> HIDE DEF f
<1>2. Into(t, a, u, b, f) BY <1>1 DEF Into
<1> QED BY <1>2, Fewer

\* What is in two sets that have nothing in common is in the one and in the other.
LEMMA Splits ==
    ASSUME NEW t \in [Paths -> Entry], NEW a \in SUBSET Paths, NEW b \in SUBSET Paths, a \cap b = {}
    PROVE  Bytes(t, a \cup b) = Bytes(t, a) + Bytes(t, b)
<1> DEFINE X == {s \in SUBSET a : Bytes(t, s \cup b) = Bytes(t, s) + Bytes(t, b)}
<1>1. /\ Bytes(t, {}) = 0
      /\ \A s \in SUBSET Paths : Bytes(t, s) \in Nat /\ \A x \in s : Bytes(t, s) = t[x].size + Bytes(t, s \ {x})
  BY BytesAdd
<1>2. {} \in X
  <2>1. {} \cup b = b /\ Bytes(t, b) \in Nat BY <1>1
  <2>2. Bytes(t, {} \cup b) = Bytes(t, {}) + Bytes(t, b) BY <1>1, <2>1
  <2> QED BY <2>2
<1>3. ASSUME NEW s \in SUBSET a, s # {}, \A x \in s : s \ {x} \in X PROVE s \in X
  <2>1. PICK p \in s : TRUE BY <1>3
  <2> DEFINE r == s \ {p}
             m == s \cup b
             l == r \cup b
  <2>2. m \ {p} = l /\ p \in m /\ p \in Paths /\ m \in SUBSET Paths /\ s \in SUBSET Paths /\ r \in SUBSET Paths
    BY <2>1
  <2>3. Bytes(t, l) = Bytes(t, r) + Bytes(t, b) BY <1>3, <2>1
  <2>4. Bytes(t, m) = t[p].size + Bytes(t, m \ {p}) BY <1>1, <2>2
  <2>5. Bytes(t, s) = t[p].size + Bytes(t, r) BY <1>1, <2>1, <2>2
  <2>6. Bytes(t, r) \in Nat /\ Bytes(t, b) \in Nat /\ t[p].size \in Nat
    <3>1. t[p].size \in Nat BY <2>2 DEF Entry
    <3> QED BY <1>1, <2>2, <3>1
  <2> HIDE DEF r, m, l
  <2>7. Bytes(t, m) = t[p].size + Bytes(t, l) BY <2>2, <2>4
  <2>8. Bytes(t, m) = Bytes(t, s) + Bytes(t, b) BY <2>3, <2>5, <2>6, <2>7
  <2> QED BY <2>8 DEF m
<1> HIDE DEF X
<1>4. IsFiniteSet(a) BY PathsFinite, FS_Subset
<1>5. \A s \in SUBSET a : s \in X BY <1>2, <1>3, <1>4, BySize
<1>6. a \in X BY <1>5
<1> QED BY <1>6 DEF X
----------------------------------------------------------------------------
(* What commands add to a tree, and whose it is. *)

\* Nothing is nothing.
Plain(t) == TreeOK(t) /\ \A p \in Paths : t[p].kind = "none" => t[p] = None
Games(t) == \A p \in Paths : t[p].owner = "game"
Total(t) == Bytes(t, All(t))
Outside(q) == {p \in Paths : ~Within(p, q)}

\* A path that nothing is at.
LEMMA NothingIs == None \in Entry /\ None.kind = "none" /\ None.owner = "game" /\ None.size = 0
BY EntriesAre DEF None

\* A tree and its sizes have their types.
LEMMA PlainIs ==
    ASSUME NEW t, Plain(t)
    PROVE  /\ TreeOK(t) /\ t \in [Paths -> Entry] /\ All(t) \in SUBSET Paths
           /\ \A p \in Paths : t[p].size \in Nat /\ (t[p].size # 0 => p \in All(t))
           /\ Total(t) \in Nat /\ \A s \in SUBSET Paths : Bytes(t, s) \in Nat
<1>1. TreeOK(t) /\ t \in [Paths -> Entry] /\ All(t) \in SUBSET Paths BY DEF Plain, TreeOK, All
<1>2. \A p \in Paths : t[p].size \in Nat BY <1>1 DEF Entry
<1>3. \A p \in Paths : t[p].size # 0 => p \in All(t) BY NothingIs DEF Plain, All
<1>4. \A s \in SUBSET Paths : Bytes(t, s) \in Nat BY <1>1, BytesAdd
<1> QED BY <1>1, <1>2, <1>3, <1>4 DEF Total

\* A tree with nothing bigger in it is not bigger.
LEMMA NoBigger ==
    ASSUME NEW t, Plain(t), NEW u, Plain(u), \A p \in Paths : t[p].size <= u[p].size
    PROVE  Total(t) <= Total(u)
<1>1. /\ t \in [Paths -> Entry] /\ u \in [Paths -> Entry] /\ All(t) \in SUBSET Paths /\ All(u) \in SUBSET Paths
      /\ \A p \in Paths : t[p].size \in Nat /\ u[p].size \in Nat /\ (u[p].size # 0 => p \in All(u))
  BY PlainIs
<1>2. \A p \in All(t) : t[p].size # 0 => p \in All(u) /\ t[p].size <= u[p].size
  <2> SUFFICES ASSUME NEW p \in All(t), t[p].size # 0 PROVE p \in All(u) /\ t[p].size <= u[p].size OBVIOUS
  <2>1. p \in Paths /\ t[p].size <= u[p].size BY <1>1
  <2>2. u[p].size # 0 BY <1>1, <2>1
  <2> QED BY <1>1, <2>1, <2>2
<1> QED BY <1>1, <1>2, NoMore DEF Total

\* Taking away leaves what is outside.
LEMMA WithoutSize ==
    ASSUME NEW t, Plain(t), NEW ps \in SUBSET Places
    PROVE  /\ Plain(Without(t, ps)) /\ (Games(t) => Games(Without(t, ps))) /\ Total(Without(t, ps)) <= Total(t)
           /\ \A q \in ps : Total(Without(t, ps)) <= Bytes(t, Outside(q))
           /\ \A q \in ps : (\A p \in Outside(q) : t[p].owner = "game") => Games(Without(t, ps))
<1> DEFINE new == Without(t, ps)
<1>1. \A p \in Paths : new[p] = IF \E q \in ps : Within(p, q) THEN None ELSE t[p] BY DEF Without
<1>2. TreeOK(new) BY WithoutOK DEF Plain
<1> HIDE DEF new
<1>3. Plain(new) BY <1>1, <1>2 DEF Plain
<1>4. Games(t) => Games(new) BY <1>1, NothingIs DEF Games
<1>5. \A p \in Paths : t[p].size \in Nat /\ new[p].size \in Nat BY <1>3, PlainIs
<1>6. Total(new) <= Total(t)
  <2>1. \A p \in Paths : new[p].size <= t[p].size BY <1>1, <1>5, NothingIs
  <2> QED BY <1>3, <2>1, NoBigger
<1>7. ASSUME NEW q \in ps PROVE Total(new) <= Bytes(t, Outside(q))
  <2>1. \A p \in All(new) : new[p].size # 0 => p \in Outside(q) /\ new[p].size <= t[p].size
    <3> SUFFICES ASSUME NEW p \in All(new), new[p].size # 0 PROVE p \in Outside(q) /\ new[p].size <= t[p].size OBVIOUS
    <3>1. p \in Paths BY DEF All
    <3>2. new[p] = t[p] /\ ~Within(p, q) BY <1>1, <3>1, NothingIs
    <3> QED BY <1>5, <3>1, <3>2 DEF Outside
  <2>2. Outside(q) \in SUBSET Paths BY DEF Outside
  <2>3. new \in [Paths -> Entry] /\ t \in [Paths -> Entry] /\ All(new) \in SUBSET Paths BY <1>3, PlainIs
  <2> QED BY <2>1, <2>2, <2>3, NoMore DEF Total
<1>8. ASSUME NEW q \in ps, \A p \in Outside(q) : t[p].owner = "game" PROVE Games(new)
  BY <1>1, <1>8, NothingIs DEF Games, Outside
<1> QED BY <1>3, <1>4, <1>6, <1>7, <1>8 DEF new

\* Putting something into a tree adds its size, at most.
LEMMA PutSize ==
    ASSUME NEW t, Plain(t), NEW p \in Paths, KindOf(t, Parent(p)) = "dir", NEW e \in Entry, e.kind # "none"
    PROVE  /\ Plain(Put(t, p, e)) /\ (Games(t) /\ e.owner = "game" => Games(Put(t, p, e)))
           /\ Total(Put(t, p, e)) <= Total(t) + e.size
           /\ \A q \in Paths : ~Within(q, p) => Put(t, p, e)[q] = t[q]
<1> DEFINE new == Put(t, p, e)
<1>0. /\ t \in [Paths -> Entry] /\ TreeOK(t) /\ e.size \in Nat /\ Total(t) \in Nat
      /\ \A q \in Paths : t[q].size \in Nat
  BY PlainIs DEF Entry
<1>1. TreeOK(new) BY PutOK DEF Plain
<1>a. Within(p, p) BY ParentIs
<1>2. CASE t[p].kind = "dir" /\ e.kind = "dir"
  <2>1. new = [t EXCEPT ![p].owner = e.owner] BY <1>2 DEF Put
  <2> HIDE DEF new
  <2>2. /\ \A q \in Paths : q # p => new[q] = t[q]
        /\ new[p].kind = t[p].kind /\ new[p].size = t[p].size /\ new[p].owner = e.owner
    BY <1>0, <2>1 DEF Entry
  <2>3. Plain(new) BY <1>1, <1>2, <2>2 DEF Plain
  <2>4. \A q \in Paths : new[q].size <= t[q].size BY <1>0, <2>2
  <2>5. Total(new) <= Total(t) /\ Total(new) \in Nat BY <2>3, <2>4, NoBigger, PlainIs
  <2>6. Total(new) <= Total(t) + e.size BY <1>0, <2>5
  <2>7. \A q \in Paths : ~Within(q, p) => q # p BY <1>a
  <2> QED BY <2>2, <2>3, <2>6, <2>7 DEF Games, new
<1>3. CASE ~(t[p].kind = "dir" /\ e.kind = "dir")
  <2> DEFINE w == Without(t, {p})
  <2>0. {p} \in SUBSET Places BY DEF Places
  <2>1. Plain(w) /\ (Games(t) => Games(w)) /\ Total(w) <= Total(t) BY <2>0, WithoutSize
  <2>2. new = [w EXCEPT ![p] = e] BY <1>3 DEF Put
  <2>3. \A q \in Paths : ~Within(q, p) => w[q] = t[q] BY DEF Without
  <2> HIDE DEF new, w
  <2>4. w \in [Paths -> Entry] /\ Total(w) \in Nat BY <2>1, PlainIs
  <2>5. new[p] = e /\ \A q \in Paths : q # p => new[q] = w[q] BY <2>2, <2>4
  <2>6. Plain(new) BY <1>1, <2>1, <2>5 DEF Plain
  <2>7. new \in [Paths -> Entry] /\ All(new) \in SUBSET Paths /\ p \in All(new) /\ Total(new) \in Nat
    BY <2>5, <2>6, PlainIs DEF All
  <2> DEFINE rest == All(new) \ {p}
  <2>8. Total(new) = new[p].size + Bytes(new, rest) BY <2>7, BytesAdd DEF Total
  <2>9. Bytes(new, rest) <= Total(w)
    <3>1. \A q \in Paths : w[q].size \in Nat /\ (w[q].size # 0 => q \in All(w)) BY <2>1, PlainIs
    <3>2. \A q \in rest : new[q].size # 0 => q \in All(w) /\ new[q].size <= w[q].size
      <4> SUFFICES ASSUME NEW q \in rest, new[q].size # 0 PROVE q \in All(w) /\ new[q].size <= w[q].size OBVIOUS
      <4>1. q \in Paths /\ new[q] = w[q] BY <2>5, <2>7
      <4> QED BY <3>1, <4>1
    <3>3. rest \in SUBSET Paths /\ All(w) \in SUBSET Paths BY <2>7 DEF All
    <3> HIDE DEF rest
    <3> QED BY <2>4, <2>7, <3>2, <3>3, NoMore DEF Total
  <2>10. Bytes(new, rest) \in Nat
    <3>1. rest \in SUBSET Paths BY <2>7
    <3> QED BY <2>6, <3>1, PlainIs
  <2> HIDE DEF rest
  <2>11. Total(new) <= Total(t) + e.size BY <1>0, <2>1, <2>4, <2>5, <2>8, <2>9, <2>10
  <2>12. Games(t) /\ e.owner = "game" => Games(new) BY <2>1, <2>5 DEF Games
  <2>13. \A q \in Paths : ~Within(q, p) => new[q] = t[q] BY <1>a, <2>3, <2>5
  <2> QED BY <2>6, <2>11, <2>12, <2>13 DEF new
<1> QED BY <1>2, <1>3
----------------------------------------------------------------------------
(* What one copy and one move do to the size of the volume. *)

\* A copy adds what is in its source, at most.
LEMMA BroughtSize ==
    ASSUME NEW t, Plain(t), NEW src \in Paths, NEW dst \in Paths, KindOf(t, Parent(dst)) = "dir"
    PROVE  /\ Plain(Brought(t, src, dst)) /\ (Games(t) => Games(Brought(t, src, dst)))
           /\ Total(Brought(t, src, dst)) <= Total(t) + Bytes(t, Under(t, src))
           /\ \A p \in Paths : ~Within(p, dst) \/ t[p].kind # "none" => Brought(t, src, dst)[p] = t[p]
<1> DEFINE b == Brought(t, src, dst)
           C == {p \in All(b) : Comes(t, src, dst, p)}
           rest == All(b) \ C
           f == [p \in Paths |-> Rebase(p, dst, src)]
<1>0. /\ t \in [Paths -> Entry] /\ TreeOK(t) /\ Total(t) \in Nat /\ All(t) \in SUBSET Paths
      /\ \A q \in Paths : t[q].size \in Nat /\ (t[q].size # 0 => q \in All(t))
  BY PlainIs
<1>1. /\ \A p \in Paths : b[p] = IF Comes(t, src, dst, p) THEN t[Rebase(p, dst, src)] ELSE t[p]
      /\ \A p \in Paths : t[p].kind # "none" => b[p] = t[p]
  BY <1>0, BroughtIs
<1>2. TreeOK(b) BY <1>0, BroughtOK
<1> HIDE DEF b
<1>3. \A p \in Paths : Comes(t, src, dst, p) => Rebase(p, dst, src) \in Paths /\ Within(p, dst) BY DEF Comes
<1>4. Plain(b) BY <1>1, <1>2, <1>3 DEF Plain
<1>5. Games(t) => Games(b) BY <1>1, <1>3 DEF Games
<1>6. /\ b \in [Paths -> Entry] /\ All(b) \in SUBSET Paths /\ \A q \in Paths : b[q].size \in Nat
  BY <1>4, PlainIs
<1>7. C \in SUBSET Paths /\ rest \in SUBSET Paths /\ C \cap rest = {} /\ C \cup rest = All(b) BY <1>6
<1>8. \A p \in C : Comes(t, src, dst, p) /\ p \in Paths BY <1>6
<1>9. \A p \in rest : ~Comes(t, src, dst, p) /\ p \in Paths BY <1>6
<1> HIDE DEF C, rest
<1>10. Total(b) = Bytes(b, C) + Bytes(b, rest) BY <1>6, <1>7, Splits DEF Total
<1>11. Bytes(b, rest) <= Total(t)
  <2>1. \A p \in rest : b[p].size # 0 => p \in All(t) /\ b[p].size <= t[p].size
    <3> SUFFICES ASSUME NEW p \in rest, b[p].size # 0 PROVE p \in All(t) /\ b[p].size <= t[p].size OBVIOUS
    <3>1. p \in Paths /\ b[p] = t[p] BY <1>1, <1>9
    <3> QED BY <1>0, <3>1
  <2> QED BY <1>0, <1>6, <1>7, <2>1, NoMore DEF Total
<1>12. Bytes(b, C) <= Bytes(t, Under(t, src))
  <2>0. \A p \in Paths : f[p] = Rebase(p, dst, src) OBVIOUS
  <2> HIDE DEF f
  <2>1. ASSUME NEW p \in C
        PROVE  /\ p \in Paths /\ Within(p, dst) /\ f[p] = Rebase(p, dst, src) /\ f[p] \in Paths /\ Within(f[p], src)
               /\ Rebase(f[p], src, dst) = p /\ b[p] = t[f[p]]
    <3>1. /\ p \in Paths /\ Within(p, dst) /\ Rebase(p, dst, src) \in Paths /\ b[p] = t[Rebase(p, dst, src)]
      BY <1>1, <1>3, <1>8
    <3>2. Within(Rebase(p, dst, src), src) /\ Rebase(Rebase(p, dst, src), src, dst) = p BY <3>1, RebaseIs
    <3> QED BY <2>0, <3>1, <3>2
  <2>2. \A p \in C : b[p].size # 0 => f[p] \in Under(t, src) /\ b[p].size <= t[f[p]].size
    <3> SUFFICES ASSUME NEW p \in C, b[p].size # 0 PROVE f[p] \in Under(t, src) /\ b[p].size <= t[f[p]].size OBVIOUS
    <3>1. f[p] \in Paths /\ Within(f[p], src) /\ b[p] = t[f[p]] BY <2>1
    <3>2. f[p] \in All(t) /\ t[f[p]].size \in Nat BY <1>0, <3>1
    <3> QED BY <3>1, <3>2 DEF Under, All
  <2>3. \A p, q \in C : f[p] = f[q] => p = q BY <2>1
  <2>4. Into(b, C, t, Under(t, src), f) BY <2>2, <2>3 DEF Into
  <2>5. Under(t, src) \in SUBSET Paths BY DEF Under
  <2> QED BY <1>0, <1>6, <1>7, <2>4, <2>5, Fewer
<1>13. Bytes(b, C) \in Nat /\ Bytes(b, rest) \in Nat /\ Bytes(t, Under(t, src)) \in Nat
  <2>1. Under(t, src) \in SUBSET Paths BY DEF Under
  <2> QED BY <1>4, <1>7, <2>1, PlainIs
<1>14. Total(b) <= Total(t) + Bytes(t, Under(t, src)) BY <1>0, <1>10, <1>11, <1>12, <1>13
<1>15. \A p \in Paths : ~Within(p, dst) \/ t[p].kind # "none" => b[p] = t[p] BY <1>1, <1>3
<1> QED BY <1>4, <1>5, <1>14, <1>15 DEF b

\* A move adds nothing.
LEMMA MvSize ==
    ASSUME NEW t, Plain(t), NEW src \in Paths, NEW dest \in Places
    PROVE  Plain(Mv(t, src, dest)) /\ (Games(t) => Games(Mv(t, src, dest))) /\ Total(Mv(t, src, dest)) <= Total(t)
<1> DEFINE dst == Place(t, src, dest)
<1>0. Total(t) \in Nat /\ Total(t) <= Total(t) BY PlainIs
<1>1. CASE ~CanPlace(t, src, dest) \/ IsThere(t, dst)
  <2>1. Mv(t, src, dest) = t BY <1>1 DEF Mv
  <2> QED BY <1>0, <2>1
<1>2. CASE ~(~CanPlace(t, src, dest) \/ IsThere(t, dst))
  <2> DEFINE b == Brought(t, src, dst)
             new == Mv(t, src, dest)
             f == [p \in Paths |-> IF Comes(t, src, dst, p) THEN Rebase(p, dst, src) ELSE p]
  <2>1. new = Without(b, {src}) BY <1>2 DEF Mv
  <2>2. dst \in Paths /\ KindOf(t, Parent(dst)) = "dir" BY <1>2 DEF CanPlace
  <2> HIDE DEF dst
  <2>3. Plain(b) /\ (Games(t) => Games(b)) BY <2>2, BroughtSize
  <2>4. /\ t \in [Paths -> Entry] /\ All(t) \in SUBSET Paths
        /\ \A q \in Paths : t[q].size \in Nat /\ (t[q].size # 0 => q \in All(t))
    BY PlainIs
  <2>5. \A p \in Paths : b[p] = IF Comes(t, src, dst, p) THEN t[Rebase(p, dst, src)] ELSE t[p]
    BY <2>2, <2>4, BroughtIs
  <2>6. {src} \in SUBSET Places BY DEF Places
  <2> HIDE DEF b
  <2>7. Plain(new) /\ (Games(t) => Games(new)) BY <2>1, <2>3, <2>6, WithoutSize
  <2>8. \A p \in Paths : new[p] = IF Within(p, src) THEN None ELSE b[p] BY <2>1 DEF Without
  <2>9. new \in [Paths -> Entry] /\ All(new) \in SUBSET Paths BY <2>7, PlainIs
  <2>10. \A p \in Paths : f[p] = IF Comes(t, src, dst, p) THEN Rebase(p, dst, src) ELSE p OBVIOUS
  <2> HIDE DEF new, f
  <2>11. ASSUME NEW p \in Paths, Comes(t, src, dst, p)
         PROVE  f[p] \in Paths /\ Within(f[p], src) /\ Rebase(f[p], src, dst) = p /\ b[p] = t[f[p]]
    <3>1. Within(p, dst) /\ Rebase(p, dst, src) \in Paths BY <2>11 DEF Comes
    <3>2. Within(Rebase(p, dst, src), src) /\ Rebase(Rebase(p, dst, src), src, dst) = p BY <2>2, <3>1, RebaseIs
    <3> QED BY <2>5, <2>10, <2>11, <3>1, <3>2
  <2>12. \A p \in Paths : ~Comes(t, src, dst, p) => f[p] = p /\ b[p] = t[p] BY <2>5, <2>10
  <2>13. \A p \in Paths : new[p].size # 0 => ~Within(p, src) /\ new[p] = b[p] BY <2>8, NothingIs
  <2>14. ASSUME NEW p \in All(new), new[p].size # 0 PROVE f[p] \in All(t) /\ new[p].size <= t[f[p]].size
    <3>1. p \in Paths /\ new[p] = b[p] BY <2>9, <2>13, <2>14
    <3>2. f[p] \in Paths /\ b[p] = t[f[p]] BY <2>11, <2>12, <3>1
    <3> QED BY <2>4, <2>14, <3>1, <3>2
  <2>15. ASSUME NEW p \in All(new), NEW q \in All(new), new[p].size # 0, new[q].size # 0, f[p] = f[q] PROVE p = q
    <3>1. p \in Paths /\ q \in Paths /\ ~Within(p, src) /\ ~Within(q, src) BY <2>9, <2>13, <2>15
    <3>2. CASE Comes(t, src, dst, p) /\ Comes(t, src, dst, q) BY <2>11, <2>15, <3>1, <3>2
    <3>3. CASE ~Comes(t, src, dst, p) /\ ~Comes(t, src, dst, q) BY <2>12, <2>15, <3>1, <3>3
    <3>4. CASE Comes(t, src, dst, p) /\ ~Comes(t, src, dst, q) BY <2>11, <2>12, <2>15, <3>1, <3>4
    <3>5. CASE ~Comes(t, src, dst, p) /\ Comes(t, src, dst, q) BY <2>11, <2>12, <2>15, <3>1, <3>5
    <3> QED BY <3>2, <3>3, <3>4, <3>5
  <2>16. Into(new, All(new), t, All(t), f) BY <2>14, <2>15 DEF Into
  <2>17. Total(new) <= Total(t) BY <2>4, <2>9, <2>16, Fewer DEF Total
  <2> QED BY <2>7, <2>17 DEF new
<1> QED BY <1>1, <1>2
----------------------------------------------------------------------------
(* What a whole request to move or to copy does to it. *)

\* All the moves of a request together add nothing.
LEMMA MovedSize ==
    ASSUME NEW r \in Request, r.op = "move", Plain(tree)
    PROVE  Plain(Carried(r)) /\ (Games(tree) => Games(Carried(r))) /\ Total(Carried(r)) <= Total(tree)
<1> DEFINE n == Len(r.from)
<1>0. r.from \in Seq(Paths) /\ r.path \in Places /\ n \in Nat /\ \A k \in 1 .. n : r.from[k] \in Paths
  <2>1. r.from \in Seq(Paths) /\ r.path \in Places BY DEF Request, Places
  <2> QED BY <2>1, SeqIs
<1>a. tree \in Trees /\ Total(tree) \in Nat BY PlainIs DEF Trees
<1>1. PICK h \in [0 .. n -> Trees] : /\ h[0] = tree /\ h[n] = Carried(r)
                                     /\ \A k \in 1 .. n : h[k] = CarryOne(h[k - 1], r, k)
  BY <1>a, CarriedInOrder
<1> HIDE DEF n
<1> DEFINE OK(t) == Plain(t) /\ (Games(tree) => Games(t)) /\ Total(t) <= Total(tree)
           S == {k \in 0 .. n : OK(h[k])}
<1>2. 0 \in S BY <1>0, <1>1, <1>a
<1>3. ASSUME NEW k \in 0 .. n - 1, k \in S PROVE k + 1 \in S
  <2> DEFINE t == h[k]
             new == Mv(t, r.from[k + 1], r.path)
  <2>1. k + 1 \in 1 .. n /\ (k + 1) - 1 = k /\ k + 1 \in 0 .. n BY <1>0
  <2>2. h[k + 1] = CarryOne(t, r, k + 1) BY <1>1, <2>1
  <2>3. h[k + 1] = t \/ h[k + 1] = new BY <2>2 DEF CarryOne
  <2>4. Plain(t) /\ (Games(tree) => Games(t)) /\ Total(t) <= Total(tree) BY <1>3
  <2>5. r.from[k + 1] \in Paths BY <1>0, <2>1
  <2> HIDE DEF t
  <2>6. Plain(new) /\ (Games(t) => Games(new)) /\ Total(new) <= Total(t) BY <1>0, <2>4, <2>5, MvSize
  <2> HIDE DEF new
  <2>7. Total(t) \in Nat /\ Total(new) \in Nat BY <2>4, <2>6, PlainIs
  <2>8. OK(t) /\ OK(new) BY <1>a, <2>4, <2>6, <2>7
  <2> QED BY <2>1, <2>3, <2>8
<1> HIDE DEF S
<1>4. \A k \in 0 .. n : k \in S BY <1>0, <1>2, <1>3, AllTheWay
<1>5. n \in 0 .. n BY <1>0
<1>6. OK(h[n]) BY <1>4, <1>5 DEF S
<1> QED BY <1>1, <1>6

\* A copy of what is there, none of it in the other, as it is looked at before it is made.
Copying(r) ==
    /\ r \in Request /\ r.op = "copy" /\ TransferOk(r) /\ ~Doubled(r)
    /\ \A i \in DOMAIN r.from : IsThere(tree, r.from[i])
\* What is to be copied after k of them.
Left(r, k) == {p \in Paths : tree[p].kind # "none" /\ \E i \in k + 1 .. Len(r.from) : Within(p, r.from[i])}

\* What is known of a copy after its first k sources.
LEMMA CopyingIs ==
    ASSUME NEW r, Copying(r), Plain(tree)
    PROVE  /\ r \in Request /\ r.path \in Places /\ Len(r.from) \in Nat /\ KindOf(tree, r.path) = "dir"
           /\ \A i \in 1 .. Len(r.from) : /\ r.from[i] \in Paths /\ tree[r.from[i]].kind # "none"
                                          /\ ~Within(r.path, r.from[i])
           /\ \A i, j \in 1 .. Len(r.from) : i # j => ~Within(r.from[i], r.from[j])
           /\ \A i \in Moving(r) : /\ i \in 1 .. Len(r.from)
                                   /\ Append(r.path, Base(r.from[i])) \in Paths
                                        => tree[Append(r.path, Base(r.from[i]))].kind = "none"
<1>1. r.from \in Seq(Paths) /\ r.path \in Places BY DEF Copying, Request, Places
<1>2. Len(r.from) \in Nat /\ DOMAIN r.from = 1 .. Len(r.from) /\ \A i \in 1 .. Len(r.from) : r.from[i] \in Paths
  BY <1>1, SeqIs
<1>3. \A p \in Paths : IsThere(tree, p) <=> tree[p].kind # "none" BY RootIs DEF IsThere, KindOf
<1>4. \A i \in 1 .. Len(r.from) : r.from[i] \in Range(r.from) BY <1>2 DEF Range
<1>5. \A i \in 1 .. Len(r.from) : /\ r.from[i] \in Paths /\ tree[r.from[i]].kind # "none"
                                  /\ ~Within(r.path, r.from[i])
  BY <1>2, <1>3, <1>4 DEF Copying, TransferOk
<1>6. \A i, j \in 1 .. Len(r.from) : i # j => ~Within(r.from[i], r.from[j]) BY <1>2 DEF Copying, Doubled
<1>7. \A i \in Moving(r) : i \in 1 .. Len(r.from) BY <1>2 DEF Moving
<1>8. \A i \in Moving(r) : Append(r.path, Base(r.from[i])) \in Paths
                              => tree[Append(r.path, Base(r.from[i]))].kind = "none"
  BY <1>3 DEF Copying, TransferOk
<1>9. r \in Request /\ KindOf(tree, r.path) = "dir" BY DEF Copying, TransferOk
<1> QED BY <1>1, <1>2, <1>5, <1>6, <1>7, <1>8, <1>9

\* What is copied is not where it is copied to.
LEMMA SourcesApart ==
    ASSUME NEW r, Copying(r), Plain(tree), NEW i \in Moving(r), NEW j \in 1 .. Len(r.from),
           Append(r.path, Base(r.from[i])) \in Paths, NEW p \in Paths,
           Within(p, Append(r.path, Base(r.from[i]))), Within(p, r.from[j])
    PROVE  FALSE
<1> DEFINE dst == Append(r.path, Base(r.from[i]))
           s == r.from[j]
<1>1. /\ r.path \in Places /\ i \in 1 .. Len(r.from) /\ r.from[i] \in Paths
      /\ s \in Paths /\ tree[s].kind # "none" /\ ~Within(r.path, s) /\ tree[dst].kind = "none"
  BY CopyingIs
<1>2. Base(r.from[i]) \in Names BY <1>1, ParentIs
<1>3. Parent(dst) = r.path BY <1>1, <1>2, ChildIs
<1>4. dst \in Paths /\ Within(p, dst) /\ Within(p, s) OBVIOUS
<1> HIDE DEF dst, s
<1>5. dst # s BY <1>1
<1>6. p \in Places /\ dst \in Places /\ s \in Places BY <1>1, <1>4, RootIs
<1>7. Within(dst, s) \/ Within(s, dst) BY <1>4, <1>6, WithinOrders
<1>8. CASE Within(s, dst)
  <2>1. TreeOK(tree) BY DEF Plain
  <2>2. tree[dst].kind = "dir" BY <1>1, <1>4, <1>5, <1>8, <2>1, Ancestors
  <2> QED BY <1>1, <2>2
<1>9. CASE Within(dst, s)
  <2>1. Within(Parent(dst), s) BY <1>4, <1>5, <1>6, <1>9, WithinUp
  <2> QED BY <1>1, <1>3, <2>1
<1> QED BY <1>7, <1>8, <1>9

\* After k of them.
CopyHeld(t, r, k) ==
    /\ Plain(t) /\ (Games(tree) => Games(t)) /\ KindOf(t, r.path) = "dir"
    /\ \A i \in 1 .. Len(r.from), p \in Paths : Within(p, r.from[i]) => t[p] = tree[p]
    /\ Total(t) + Bytes(tree, Left(r, k)) <= Total(tree) + Bytes(tree, Left(r, 0))

\* One more source adds no more than was measured for it.
LEMMA CopyOneMore ==
    ASSUME NEW r, Copying(r), Plain(tree), NEW k \in 0 .. Len(r.from) - 1, NEW t, CopyHeld(t, r, k)
    PROVE  CopyHeld(CarryOne(t, r, k + 1), r, k + 1)
<1> DEFINE n == Len(r.from)
           src == r.from[k + 1]
           new == CarryOne(t, r, k + 1)
<1>1. /\ r \in Request /\ r.path \in Places /\ n \in Nat /\ KindOf(tree, r.path) = "dir"
      /\ \A i \in 1 .. n : r.from[i] \in Paths /\ tree[r.from[i]].kind # "none" /\ ~Within(r.path, r.from[i])
      /\ \A i, j \in 1 .. n : i # j => ~Within(r.from[i], r.from[j])
  BY CopyingIs
<1>2. k + 1 \in 1 .. n /\ k \in Nat BY <1>1
<1>3. src \in Paths BY <1>1, <1>2
<1>4. /\ Plain(t) /\ (Games(tree) => Games(t)) /\ KindOf(t, r.path) = "dir"
      /\ \A i \in 1 .. n, p \in Paths : Within(p, r.from[i]) => t[p] = tree[p]
      /\ Total(t) + Bytes(tree, Left(r, k)) <= Total(tree) + Bytes(tree, Left(r, 0))
  BY DEF CopyHeld
<1> DEFINE L == Left(r, k + 1)
           M == Left(r, k)
           U == Under(tree, src)
           V == Under(t, src)
<1>m. Total(t) + Bytes(tree, M) <= Total(tree) + Bytes(tree, Left(r, 0)) BY <1>4
<1>5. L \in SUBSET Paths /\ M \in SUBSET Paths /\ U \in SUBSET Paths /\ V \in SUBSET Paths /\ Left(r, 0) \in SUBSET Paths
  BY DEF Left, Under
<1>6. /\ Bytes(tree, L) \in Nat /\ Bytes(tree, M) \in Nat /\ Bytes(tree, U) \in Nat /\ Bytes(t, V) \in Nat
      /\ Bytes(tree, Left(r, 0)) \in Nat
      /\ Total(t) \in Nat /\ Total(tree) \in Nat
  BY <1>4, <1>5, PlainIs
<1>7. Bytes(tree, M) = Bytes(tree, U) + Bytes(tree, L)
  <2>1. U \cap L = {}
    <3> SUFFICES ASSUME NEW p \in Paths, p \in U, p \in L PROVE FALSE BY <1>5
    <3>1. PICK i \in k + 1 + 1 .. n : Within(p, r.from[i]) BY DEF Left
    <3>2. i \in 1 .. n /\ i # k + 1 BY <1>1, <1>2, <3>1
    <3>3. Within(p, src) BY DEF Under
    <3>4. r.from[i] \in Paths /\ p \in Places /\ r.from[i] \in Places /\ src \in Places BY <1>1, <1>3, <3>2, RootIs
    <3>5. Within(src, r.from[i]) \/ Within(r.from[i], src) BY <3>1, <3>3, <3>4, WithinOrders
    <3> QED BY <1>1, <1>2, <3>2, <3>5
  <2>2. M = U \cup L
    <3>1. \A i : i \in k + 1 .. n <=> i = k + 1 \/ i \in k + 1 + 1 .. n BY <1>1, <1>2
    <3> QED BY <3>1 DEF Left, Under
  <2>3. tree \in [Paths -> Entry] BY PlainIs
  <2> HIDE DEF L, M, U
  <2> QED BY <1>5, <2>1, <2>2, <2>3, Splits
<1>8. CASE new = t
  <2>1. Total(t) + Bytes(tree, L) <= Total(tree) + Bytes(tree, Left(r, 0))
    <3> HIDE DEF L, M, U, V, new
    <3> QED BY <1>6, <1>7, <1>m
  <2> QED BY <1>4, <1>8, <2>1 DEF CopyHeld
<1>9. CASE new # t
  <2> DEFINE dst == Append(r.path, Base(src))
  <2>1. k + 1 \in Takes(r) /\ new = Cp(t, src, r.path) BY <1>9 DEF CarryOne, Copying
  <2>2. k + 1 \in Moving(r) BY <2>1 DEF Takes
  <2>3. CanPlace(t, src, r.path) /\ new = Brought(t, src, Place(t, src, r.path)) BY <1>9, <2>1 DEF Cp
  <2>4. Place(t, src, r.path) = dst BY <1>4 DEF Place
  <2>5. dst \in Paths /\ KindOf(t, Parent(dst)) = "dir" /\ new = Brought(t, src, dst) BY <2>3, <2>4 DEF CanPlace
  <2>6. \A i \in 1 .. n, p \in Paths : Within(p, r.from[i]) => ~Within(p, dst) BY <2>2, <2>5, SourcesApart
  <2> HIDE DEF dst, new
  <2>7. /\ Plain(new) /\ (Games(t) => Games(new)) /\ Total(new) <= Total(t) + Bytes(t, V)
        /\ \A p \in Paths : ~Within(p, dst) \/ t[p].kind # "none" => new[p] = t[p]
    BY <1>3, <1>4, <2>5, BroughtSize
  <2>8. Bytes(t, V) <= Bytes(tree, U)
    <3>1. \A p \in V : p \in U /\ t[p].size <= tree[p].size
      <4> SUFFICES ASSUME NEW p \in V PROVE p \in U /\ t[p].size <= tree[p].size OBVIOUS
      <4>1. p \in Paths /\ Within(p, src) /\ t[p].kind # "none" BY DEF Under
      <4>2. t[p] = tree[p] BY <1>2, <1>4, <4>1
      <4>3. tree[p].size \in Nat BY <4>1, PlainIs
      <4> QED BY <4>1, <4>2, <4>3 DEF Under
    <3>2. t \in [Paths -> Entry] /\ tree \in [Paths -> Entry] BY <1>4, PlainIs
    <3> HIDE DEF U, V
    <3> QED BY <1>5, <3>1, <3>2, NoMore
  <2>9. Total(new) + Bytes(tree, L) <= Total(tree) + Bytes(tree, Left(r, 0))
    <3>1. Total(new) \in Nat BY <2>7, PlainIs
    <3>2. Total(new) <= Total(t) + Bytes(t, V) BY <2>7
    <3> HIDE DEF L, M, U, V
    <3> QED BY <1>6, <1>7, <1>m, <2>8, <3>1, <3>2
  <2>10. KindOf(new, r.path) = "dir"
    <3>1. CASE r.path = Root BY <3>1 DEF KindOf
    <3>2. CASE r.path # Root
      <4>1. r.path \in Paths /\ t[r.path].kind = "dir" BY <1>1, <1>4, <3>2, RootOrPath DEF KindOf
      <4>2. new[r.path] = t[r.path] BY <2>7, <4>1
      <4> QED BY <3>2, <4>1, <4>2 DEF KindOf
    <3> QED BY <3>1, <3>2
  <2>11. \A i \in 1 .. n, p \in Paths : Within(p, r.from[i]) => new[p] = tree[p] BY <1>4, <2>6, <2>7
  <2> QED BY <1>4, <2>7, <2>9, <2>10, <2>11 DEF CopyHeld, new
<1> QED BY <1>8, <1>9

\* A copy adds what it was measured to add.
LEMMA CopiedSize ==
    ASSUME NEW r, Copying(r), Plain(tree)
    PROVE  /\ Plain(Carried(r)) /\ (Games(tree) => Games(Carried(r)))
           /\ Total(Carried(r)) <= Total(tree) + Bytes(tree, UNION {Under(tree, s) : s \in Range(r.from)})
<1> DEFINE n == Len(r.from)
<1>0. r \in Request /\ n \in Nat /\ KindOf(tree, r.path) = "dir" BY CopyingIs
<1>a. tree \in Trees /\ Total(tree) \in Nat BY PlainIs DEF Trees
<1>1. PICK h \in [0 .. n -> Trees] : /\ h[0] = tree /\ h[n] = Carried(r)
                                     /\ \A k \in 1 .. n : h[k] = CarryOne(h[k - 1], r, k)
  BY <1>0, <1>a, CarriedInOrder
<1>b. \A k : Left(r, k) \in SUBSET Paths BY DEF Left
<1>c. \A k : Bytes(tree, Left(r, k)) \in Nat BY <1>b, PlainIs
<1>2. \A k \in 0 .. n - 1 : \A t : CopyHeld(t, r, k) => CopyHeld(CarryOne(t, r, k + 1), r, k + 1) BY CopyOneMore
<1>3. CopyHeld(tree, r, 0)
  <2>1. Total(tree) + Bytes(tree, Left(r, 0)) <= Total(tree) + Bytes(tree, Left(r, 0)) BY <1>a, <1>c
  <2> QED BY <1>0, <2>1 DEF CopyHeld
<1>d. Left(r, 0) = UNION {Under(tree, s) : s \in Range(r.from)}
  <2>1. r.from \in Seq(Paths) BY <1>0 DEF Request
  <2>2. DOMAIN r.from = 1 .. n BY <2>1, SeqIs
  <2>3. \A i : i \in 0 + 1 .. n <=> i \in DOMAIN r.from BY <2>2
  <2>4. \A s : s \in Range(r.from) <=> \E i \in 0 + 1 .. n : s = r.from[i] BY <2>3 DEF Range
  <2> QED BY <2>4 DEF Left, Under
<1> HIDE DEF n
<1> DEFINE S == {k \in 0 .. n : CopyHeld(h[k], r, k)}
<1>4. 0 \in S BY <1>0, <1>1, <1>3
<1>5. ASSUME NEW k \in 0 .. n - 1, k \in S PROVE k + 1 \in S
  <2>1. k + 1 \in 1 .. n /\ (k + 1) - 1 = k /\ k + 1 \in 0 .. n BY <1>0
  <2>2. h[k + 1] = CarryOne(h[k], r, k + 1) BY <1>1, <2>1
  <2>3. CopyHeld(h[k], r, k) BY <1>5
  <2>4. CopyHeld(CarryOne(h[k], r, k + 1), r, k + 1) BY <1>2, <2>3
  <2> QED BY <2>1, <2>2, <2>4
<1> HIDE DEF S
<1>6. \A k \in 0 .. n : k \in S BY <1>0, <1>4, <1>5, AllTheWay
<1>7. n \in 0 .. n BY <1>0
<1>8. CopyHeld(Carried(r), r, n) BY <1>1, <1>6, <1>7 DEF S
<1>9. /\ Plain(Carried(r)) /\ (Games(tree) => Games(Carried(r)))
      /\ Total(Carried(r)) + Bytes(tree, Left(r, n)) <= Total(tree) + Bytes(tree, Left(r, 0))
  BY <1>8 DEF CopyHeld
<1>10. Total(Carried(r)) \in Nat BY <1>9, PlainIs
<1>11. Total(Carried(r)) <= Total(tree) + Bytes(tree, Left(r, 0)) BY <1>9, <1>10, <1>a, <1>c
<1> QED BY <1>9, <1>11, <1>d
----------------------------------------------------------------------------
(* What each step of a request that is alone guarantees, and its end. *)

Calm(t) == Games(t) /\ Total(t) <= Limit
\* All but what is in a folder.
CalmOutside(t, q) == (\A p \in Outside(q) : t[p].owner = "game") /\ Bytes(t, Outside(q)) <= Limit

\* What a request was let through with.
Adds(t, r) == CASE r.op = "copy" -> Bytes(t, UNION {Under(t, s) : s \in Range(r.from)})
                [] r.op \in {"write", "upload"} -> r.size
                [] OTHER -> 0
Sound(t, r) ==
    /\ Games(t) /\ Total(t) + Adds(t, r) <= Limit
    /\ r.op = "copy" => \A i \in DOMAIN r.from : IsThere(t, r.from[i])

\* What a request that is alone has done so far.
Promised(t, r) ==
    /\ r.op = "copy" => ~Doubled(r)
    /\ r.pc = "space" => Calm(t)
    /\ r.pc \in {"check", "do"} => Sound(t, r)
    /\ r.pc = "do" /\ r.op \in {"write", "upload"} => r.owner = "game"
    /\ r.pc = "chown" /\ r.op = "mkdir" => Total(t) <= Limit /\ \A p \in Paths : p # r.path => t[p].owner = "game"
    /\ r.pc \in {"unzip", "chown", "clean", "disk"} /\ r.op = "extract" => CalmOutside(t, Target(r.path))
    /\ r.pc = "unzip" => Total(t) <= Limit
    /\ r.pc = "disk" => Games(t)

AloneOK ==
    /\ \A a, b \in Reqs : req[a].pc # "idle" /\ req[b].pc # "idle" => a = b
    /\ (\A a \in Reqs : req[a].pc = "idle") => Calm(tree)
    /\ \A a \in Reqs : req[a].pc # "idle" => Promised(tree, req[a])
    /\ \A a \in Reqs : req[a].pc = "do" /\ req[a].op = "copy" => TransferOk(req[a])

\* The invariant with what one request at a time keeps.
JInv == IInv /\ Plain(tree) /\ (~together /\ fails = 0 => AloneOK)

\* A step of the only request there is keeps what is known of it.
LEMMA AloneKept ==
    ASSUME AloneOK, NEW a \in Reqs, req[a].pc # "idle" \/ \A b \in Reqs : req[b].pc = "idle",
           \A b \in Reqs : b # a => req'[b] = req[b],
           req'[a].pc = "idle" => Calm(tree'),
           req'[a].pc # "idle" => Promised(tree', req'[a]),
           req'[a].pc = "do" /\ req'[a].op = "copy" => TransferOk(req[a])'
    PROVE  AloneOK'
<1>1. \A b \in Reqs : b # a => req[b].pc = "idle" /\ req'[b].pc = "idle" BY DEF AloneOK
<1>2. \A b, c \in Reqs : req'[b].pc # "idle" /\ req'[c].pc # "idle" => b = c BY <1>1
<1>3. (\A b \in Reqs : req'[b].pc = "idle") => Calm(tree') BY DEF AloneOK
<1>4. \A b \in Reqs : req'[b].pc # "idle" => Promised(tree', req'[b]) BY <1>1
<1>5. \A b \in Reqs : req'[b].pc = "do" /\ req'[b].op = "copy" => TransferOk(req[b])'
  <2> SUFFICES ASSUME NEW b \in Reqs, req'[b].pc = "do", req'[b].op = "copy" PROVE TransferOk(req[b])' OBVIOUS
  <2>1. b = a BY <1>1
  <2> QED BY <2>1
<1> QED BY <1>2, <1>3, <1>4, <1>5 DEF AloneOK

\* So does its last step, when it leaves all as it should be.
LEMMA AnsweredAlone ==
    ASSUME IInv, AloneOK, NEW a \in Reqs, req[a].pc # "idle", Answer(a), Calm(tree')
    PROVE  AloneOK'
<1>1. req \in [Reqs -> Request] BY DEF IInv, ReqsOK
<1>2. req'[a] = Idle /\ \A b \in Reqs : b # a => req'[b] = req[b] BY <1>1 DEF Answer
<1>3. req'[a].pc = "idle" BY <1>2, IdleIs
<1> QED BY <1>2, <1>3, AloneKept

\* What a step to a next stage changes of its request.
LEMMA GotoIs ==
    ASSUME IInv, NEW a \in Reqs, NEW pc, Goto(a, pc)
    PROVE  /\ req'[a].pc = pc /\ req'[a].op = req[a].op /\ req'[a].path = req[a].path /\ req'[a].from = req[a].from
           /\ req'[a].size = req[a].size /\ req'[a].owner = req[a].owner
           /\ \A b \in Reqs : b # a => req'[b] = req[b]
<1>1. req \in [Reqs -> Request] BY DEF IInv, ReqsOK
<1>2. req'[a] = [req[a] EXCEPT !.pc = pc] /\ \A b \in Reqs : b # a => req'[b] = req[b] BY <1>1 DEF Goto
<1> HIDE DEF Paths, Root
<1> QED BY <1>1, <1>2 DEF Request

\* A step to a stage before the command keeps what is known.
LEMMA GoneAlone ==
    ASSUME IInv, AloneOK, NEW a \in Reqs, req[a].pc # "idle", NEW pc, pc \notin {"idle", "do"}, Goto(a, pc),
           Promised(tree', req'[a])
    PROVE  AloneOK'
<1>1. req'[a].pc = pc /\ \A b \in Reqs : b # a => req'[b] = req[b] BY GotoIs
<1> QED BY <1>1, AloneKept

\* What a step of a request makes of the tree and of the requests.
Kept == Plain(tree') /\ (~together' /\ fails' = 0 => AloneOK')

\* What is known of a request that is alone.
LEMMA AloneIs ==
    ASSUME JInv, AloneOK, NEW a \in Reqs, req[a].pc # "idle"
    PROVE  /\ Plain(tree) /\ TreeOK(tree) /\ tree \in [Paths -> Entry] /\ Total(tree) \in Nat
           /\ Promised(tree, req[a]) /\ ReqOK(req[a]) /\ req[a] \in Request
           /\ Limit \in Nat
<1>1. Plain(tree) /\ ReqOK(req[a]) /\ Promised(tree, req[a]) BY DEF JInv, IInv, ReqsOK, AloneOK
<1>2. Limit \in Nat BY NumbersAssumption
<1> QED BY <1>1, <1>2, PlainIs DEF ReqOK

\* A request that only takes away or moves.
LEMMA SoundEnds ==
    ASSUME JInv, AloneOK, NEW a \in Reqs, req[a].pc = "do", req[a].op \in {"mkdir", "rename", "move", "delete", "extract"}
    PROVE  Games(tree) /\ Total(tree) <= Limit /\ Calm(tree)
<1>1. Sound(tree, req[a]) /\ Total(tree) \in Nat /\ Limit \in Nat BY AloneIs DEF Promised
<1>2. Adds(tree, req[a]) = 0 BY DEF Adds
<1> QED BY <1>1, <1>2 DEF Sound, Calm

\* A rename moves what is there.
LEMMA JRename == ASSUME JInv, NEW a \in Reqs, Rename(a) PROVE Kept
<1> DEFINE new == Mv(tree, req[a].path, req[a].to)
<1>1. tree' = new /\ together' = together /\ fails' = fails /\ req[a].op = "rename" /\ req[a].pc = "do" /\ Answer(a)
  BY DEF Rename
<1>2. req[a].path \in Paths /\ req[a].to \in Places BY <1>1, RootIs DEF JInv, IInv, ReqsOK, ReqOK, Shaped
<1>3. Plain(new) /\ (Games(tree) => Games(new)) /\ Total(new) <= Total(tree) BY <1>2, MvSize DEF JInv
<1> HIDE DEF new
<1>4. ASSUME AloneOK PROVE AloneOK'
  <2>1. Games(tree) /\ Total(tree) <= Limit BY <1>1, <1>4, SoundEnds
  <2>2. Total(new) \in Nat /\ Total(tree) \in Nat /\ Limit \in Nat BY <1>3, PlainIs, NumbersAssumption DEF JInv
  <2>3. Calm(new) BY <1>3, <2>1, <2>2 DEF Calm
  <2> QED BY <1>1, <1>4, <2>3, AnsweredAlone DEF JInv
<1> QED BY <1>1, <1>3, <1>4 DEF JInv, Kept

\* A move adds nothing.
LEMMA JMove == ASSUME JInv, NEW a \in Reqs, Move(a) PROVE Kept
<1> DEFINE new == Carried(req[a])
<1>1. tree' = new /\ together' = together /\ fails' = fails /\ req[a].op = "move" /\ req[a].pc = "do" /\ Answer(a)
  BY DEF Move
<1>2. req[a] \in Request BY DEF JInv, IInv, ReqsOK
<1>3. Plain(new) /\ (Games(tree) => Games(new)) /\ Total(new) <= Total(tree) BY <1>1, <1>2, MovedSize DEF JInv
<1> HIDE DEF new
<1>4. ASSUME AloneOK PROVE AloneOK'
  <2>1. Games(tree) /\ Total(tree) <= Limit BY <1>1, <1>4, SoundEnds
  <2>2. Total(new) \in Nat /\ Total(tree) \in Nat /\ Limit \in Nat BY <1>3, PlainIs, NumbersAssumption DEF JInv
  <2>3. Calm(new) BY <1>3, <2>1, <2>2 DEF Calm
  <2> QED BY <1>1, <1>4, <2>3, AnsweredAlone DEF JInv
<1> QED BY <1>1, <1>3, <1>4 DEF JInv, Kept

\* Deleting only takes away.
LEMMA JDelete == ASSUME JInv, NEW a \in Reqs, Delete(a) PROVE Kept
<1> DEFINE new == Without(tree, {req[a].path})
<1>1. tree' = new /\ together' = together /\ fails' = fails /\ req[a].op = "delete" /\ req[a].pc = "do" /\ Answer(a)
  BY DEF Delete
<1>2. {req[a].path} \in SUBSET Places BY DEF JInv, IInv, ReqsOK, Request, Places
<1>3. Plain(new) /\ (Games(tree) => Games(new)) /\ Total(new) <= Total(tree) BY <1>2, WithoutSize DEF JInv
<1> HIDE DEF new
<1>4. ASSUME AloneOK PROVE AloneOK'
  <2>1. Games(tree) /\ Total(tree) <= Limit BY <1>1, <1>4, SoundEnds
  <2>2. Total(new) \in Nat /\ Total(tree) \in Nat /\ Limit \in Nat BY <1>3, PlainIs, NumbersAssumption DEF JInv
  <2>3. Calm(new) BY <1>3, <2>1, <2>2 DEF Calm
  <2> QED BY <1>1, <1>4, <2>3, AnsweredAlone DEF JInv
<1> QED BY <1>1, <1>3, <1>4 DEF JInv, Kept

\* A command that fails is counted.
LEMMA JFails == ASSUME JInv, NEW a \in Reqs, Fails(a) PROVE Kept
<1>1. tree' = tree /\ fails' = fails + 1 BY DEF Fails
<1>2. fails' # 0 BY <1>1 DEF JInv, IInv, CountsOK
<1> QED BY <1>1, <1>2 DEF JInv, Kept
----------------------------------------------------------------------------
(* Copying, asking, and looking at what is there and what is free. *)

\* Whatever is copied or moved, the sizes stay those of files.
LEMMA CarriedPlain ==
    ASSUME NEW r \in Request, Plain(tree)
    PROVE  Plain(Carried(r))
<1> DEFINE n == Len(r.from)
<1>0. r.from \in Seq(Paths) /\ r.path \in Places /\ n \in Nat /\ \A k \in 1 .. n : r.from[k] \in Paths
  <2>1. r.from \in Seq(Paths) /\ r.path \in Places BY DEF Request, Places
  <2> QED BY <2>1, SeqIs
<1>a. tree \in Trees BY PlainIs DEF Trees
<1>1. PICK h \in [0 .. n -> Trees] : /\ h[0] = tree /\ h[n] = Carried(r)
                                     /\ \A k \in 1 .. n : h[k] = CarryOne(h[k - 1], r, k)
  BY <1>a, CarriedInOrder
<1> HIDE DEF n
<1> DEFINE S == {k \in 0 .. n : Plain(h[k])}
<1>2. 0 \in S BY <1>0, <1>1
<1>3. ASSUME NEW k \in 0 .. n - 1, k \in S PROVE k + 1 \in S
  <2> DEFINE t == h[k]
             src == r.from[k + 1]
  <2>1. k + 1 \in 1 .. n /\ (k + 1) - 1 = k /\ k + 1 \in 0 .. n BY <1>0
  <2>2. h[k + 1] = CarryOne(t, r, k + 1) BY <1>1, <2>1
  <2>3. h[k + 1] \in {t, Mv(t, src, r.path), Cp(t, src, r.path)} BY <2>2 DEF CarryOne
  <2>4. Plain(t) BY <1>3
  <2>5. src \in Paths BY <1>0, <2>1
  <2> HIDE DEF t, src
  <2>6. Plain(Mv(t, src, r.path)) BY <1>0, <2>4, <2>5, MvSize
  <2>7. Plain(Cp(t, src, r.path))
    <3> DEFINE dst == Place(t, src, r.path)
    <3>1. CASE ~CanPlace(t, src, r.path) BY <2>4, <3>1 DEF Cp
    <3>2. CASE CanPlace(t, src, r.path)
      <4>1. Cp(t, src, r.path) = Brought(t, src, dst) BY <3>2 DEF Cp
      <4>2. dst \in Paths /\ KindOf(t, Parent(dst)) = "dir" BY <3>2 DEF CanPlace
      <4> HIDE DEF dst
      <4> QED BY <2>4, <2>5, <4>1, <4>2, BroughtSize
    <3> QED BY <3>1, <3>2
  <2> QED BY <2>1, <2>3, <2>4, <2>6, <2>7
<1> HIDE DEF S
<1>4. \A k \in 0 .. n : k \in S BY <1>0, <1>2, <1>3, AllTheWay
<1>5. n \in 0 .. n BY <1>0
<1> QED BY <1>1, <1>4, <1>5 DEF S

\* A copy adds no more than the limit was asked for.
LEMMA JCopy == ASSUME JInv, NEW a \in Reqs, Copy(a) PROVE Kept
<1> DEFINE r == req[a]
           new == Carried(r)
           m == Bytes(tree, UNION {Under(tree, s) : s \in Range(r.from)})
<1>1. tree' = new /\ together' = together /\ fails' = fails /\ r.op = "copy" /\ r.pc = "do" /\ Answer(a)
  BY DEF Copy
<1>2. r \in Request /\ Plain(tree) BY DEF JInv, IInv, ReqsOK
<1>3. Plain(new)
  <2> HIDE DEF r
  <2> QED BY <1>2, CarriedPlain
<1>4. ASSUME AloneOK PROVE AloneOK'
  <2>1. Promised(tree, r) /\ TransferOk(r) BY <1>1, <1>4, AloneIs DEF AloneOK
  <2>2. ~Doubled(r) /\ Sound(tree, r) BY <1>1, <2>1 DEF Promised
  <2>3. Copying(r) BY <1>1, <1>2, <2>1, <2>2 DEF Copying, Sound
  <2>4. (Games(tree) => Games(new)) /\ Total(new) <= Total(tree) + m
    <3> HIDE DEF r
    <3> QED BY <1>2, <2>3, CopiedSize
  <2>5. Adds(tree, r) = m BY <1>1 DEF Adds
  <2>6. Games(tree) /\ Total(tree) + m <= Limit BY <2>2, <2>5 DEF Sound
  <2>7. m \in Nat
    <3>1. UNION {Under(tree, s) : s \in Range(r.from)} \in SUBSET Paths BY DEF Under
    <3> QED BY <1>2, <3>1, PlainIs
  <2> HIDE DEF new, m
  <2>8. Total(new) \in Nat /\ Total(tree) \in Nat /\ Limit \in Nat BY <1>2, <1>3, PlainIs, NumbersAssumption DEF new
  <2>9. Calm(new)
    <3>1. Total(new) <= Limit BY <2>4, <2>6, <2>7, <2>8
    <3> QED BY <2>4, <2>6, <3>1 DEF Calm
  <2> QED BY <1>1, <1>4, <2>9, AnsweredAlone DEF JInv, new
<1> QED BY <1>1, <1>3, <1>4 DEF JInv, Kept

\* What adds to the volume is measured first.
LEMMA AskedStage ==
    ASSUME NEW r \in Asks
    PROVE  r.pc = "space" \/ (r.pc = "check" /\ r.op \in {"mkdir", "rename", "move"}) \/ (r.pc = "do" /\ r.op = "delete")
<1>1. PICK p \in Raw :
        \/ r = RequestFor("mkdir", "check", p, Root, <<>>, 0)
        \/ \E n \in Names : r = RequestFor("rename", "check", p, Append(SubSeq(Resolve(p), 1, Len(Resolve(p)) - 1), n), <<>>, 0)
        \/ \E from \in Sources : r = RequestFor("move", "check", p, Root, from, 0)
        \/ \E from \in Sources : r = RequestFor("copy", "space", p, Root, from, 0)
        \/ r = RequestFor("delete", "do", p, Root, <<>>, 0)
        \/ \E size \in Sizes : r = RequestFor("write", "space", p, Root, <<>>, size)
        \/ \E n \in Names, size \in Sizes : r = RequestFor("upload", "space", p, Append(Resolve(p), n), <<>>, size)
        \/ r = RequestFor("extract", "space", p, Root, <<>>, Announced)
  BY AskedFor
<1> QED BY <1>1 DEF RequestFor, Idle

\* A request that is taken up beside another one is not alone.
LEMMA JAsk == ASSUME JInv, NEW a \in Reqs, Ask(a) PROVE Kept
<1>1. tree' = tree /\ fails' = fails /\ req[a].pc = "idle" /\ asked < MaxAsked BY DEF Ask
<1>2. PICK r \in Asks : /\ Short(r) /\ Root \notin Range(r.from) /\ (r.path = Root => r.op \in {"move", "copy", "upload"})
                        /\ req' = [req EXCEPT ![a] = [r EXCEPT !.content = asked + 3]]
                        /\ together' = (together \/ Active # {} \/ Doubled(r))
  BY DEF Ask, Short
<1>3. r \in Request BY <1>2, AskedOK DEF ReqOK
<1>4. req \in [Reqs -> Request] BY DEF JInv, IInv, ReqsOK
<1> DEFINE new == [r EXCEPT !.content = asked + 3]
<1>5. new.pc = r.pc /\ new.op = r.op /\ new.from = r.from /\ new.path = r.path
  <2> HIDE DEF Paths, Root
  <2> QED BY <1>3 DEF Request
<1>6. req'[a] = new /\ \A b \in Reqs : b # a => req'[b] = req[b] BY <1>2, <1>4
<1> HIDE DEF new
<1>7. ASSUME ~together', fails' = 0 PROVE AloneOK'
  <2>1. ~together /\ Active = {} /\ ~Doubled(r) BY <1>2, <1>7
  <2>2. AloneOK BY <1>1, <1>7, <2>1 DEF JInv
  <2>3. \A b \in Reqs : req[b].pc = "idle" BY <2>1 DEF Active
  <2>4. Games(tree) /\ Total(tree) <= Limit BY <2>2, <2>3 DEF AloneOK, Calm
  <2>5. \/ new.pc = "space"
        \/ new.pc = "check" /\ new.op \in {"mkdir", "rename", "move"}
        \/ new.pc = "do" /\ new.op = "delete"
    BY <1>5, AskedStage
  <2>6. new.op = "copy" => ~Doubled(new) BY <1>5, <2>1 DEF Doubled
  <2>7. new.pc # "space" => Sound(tree, new)
    <3> SUFFICES ASSUME new.pc # "space" PROVE Sound(tree, new) OBVIOUS
    <3>1. new.op \in {"mkdir", "rename", "move", "delete"} BY <2>5
    <3>2. Adds(tree, new) = 0 BY <3>1 DEF Adds
    <3>3. Total(tree) \in Nat BY PlainIs DEF JInv
    <3>4. Total(tree) + Adds(tree, new) <= Limit BY <2>4, <3>2, <3>3
    <3> QED BY <2>4, <3>1, <3>4 DEF Sound
  <2>8. Promised(tree, new) BY <2>4, <2>5, <2>6, <2>7 DEF Promised, Calm
  <2> QED BY <1>1, <1>6, <2>2, <2>3, <2>5, <2>8, AloneKept
<1> QED BY <1>1, <1>7 DEF JInv, Kept

\* What is let through fits.
LEMMA JRequireSpace == ASSUME JInv, NEW a \in Reqs, RequireSpace(a) PROVE Kept
<1> DEFINE r == req[a]
           ps == UNION {Under(tree, s) : s \in Range(r.from)}
           adding == IF r.op = "copy" THEN Used(ps) ELSE {r.size}
<1>1. tree' = tree /\ together' = together /\ fails' = fails /\ r.pc = "space" BY DEF RequireSpace
<1>2. \E used \in Used(All(tree)), add \in adding :
        IF used + add > Limit \/ \E s \in Range(r.from) : ~IsThere(tree, s) THEN Answer(a) ELSE Goto(a, "check")
  BY DEF RequireSpace
<1>3. ASSUME AloneOK PROVE AloneOK'
  <2>1. /\ Plain(tree) /\ Total(tree) \in Nat /\ Promised(tree, r) /\ r \in Request /\ ReqOK(r) /\ Limit \in Nat
    BY <1>1, <1>3, AloneIs
  <2>2. Calm(tree) /\ (r.op = "copy" => ~Doubled(r)) BY <1>1, <2>1 DEF Promised
  <2>3. CASE Answer(a) BY <1>1, <1>3, <2>2, <2>3, AnsweredAlone DEF JInv
  <2>4. CASE ~Answer(a)
    <3>1. PICK used \in Used(All(tree)), add \in adding :
            ~(used + add > Limit) /\ (\A s \in Range(r.from) : IsThere(tree, s)) /\ Goto(a, "check")
      BY <1>2, <2>4
    <3>2. /\ req'[a].pc = "check" /\ req'[a].op = r.op /\ req'[a].from = r.from /\ req'[a].size = r.size
      BY <3>1, GotoIs DEF JInv
    <3>3. Total(tree) + Adds(tree, r) <= Limit
      <4>1. PICK extra \in 0 .. Slack : used = Total(tree) + extra BY DEF Used, Total
      <4>2. ps \in SUBSET Paths BY DEF Under
      <4>3. Bytes(tree, ps) \in Nat /\ r.size \in Nat BY <2>1, <4>2, PlainIs DEF Request
      <4>4. Slack \in Nat BY NumbersAssumption
      <4>5. CASE r.op = "copy"
        <5>1. PICK more \in 0 .. Slack : add = Bytes(tree, ps) + more BY <3>1, <4>5 DEF Used
        <5>2. Adds(tree, r) = Bytes(tree, ps) BY <4>5 DEF Adds
        <5> HIDE DEF ps, r
        <5> QED BY <2>1, <3>1, <4>1, <4>3, <4>4, <5>1, <5>2
      <4>6. CASE r.op # "copy"
        <5>1. add = r.size BY <4>6
        <5>2. Adds(tree, r) \in {0, r.size} BY <4>6 DEF Adds
        <5>3. Adds(tree, r) \in Nat /\ Adds(tree, r) <= add BY <4>3, <5>1, <5>2
        <5>4. add \in Nat BY <4>3, <5>1
        <5> HIDE DEF ps, r, adding
        <5> QED BY <2>1, <3>1, <4>1, <4>4, <5>3, <5>4
      <4> QED BY <4>5, <4>6
    <3>4. Adds(tree, req'[a]) = Adds(tree, r) BY <3>2 DEF Adds
    <3>5. \A i \in DOMAIN r.from : IsThere(tree, r.from[i]) BY <3>1 DEF Range
    <3>6. Sound(tree, req'[a]) BY <2>2, <3>2, <3>3, <3>4, <3>5 DEF Sound, Calm
    <3>7. req'[a].op = "copy" => ~Doubled(req'[a]) BY <2>2, <3>2 DEF Doubled
    <3>8. Promised(tree', req'[a]) BY <1>1, <3>2, <3>6, <3>7 DEF Promised
    <3> QED BY <1>1, <1>3, <3>1, <3>8, GoneAlone DEF JInv
  <2> QED BY <2>3, <2>4
<1> QED BY <1>1, <1>3 DEF JInv, Kept

\* What was let through is still what is carried out.
LEMMA JCheck == ASSUME JInv, NEW a \in Reqs, Check(a) PROVE Kept
<1> DEFINE r == req[a]
           new == [r EXCEPT !.pc = "do", !.owner = OwnerOf(tree, r.path)]
<1>1. tree' = tree /\ together' = together /\ fails' = fails /\ r.pc = "check" BY DEF Check
<1>2. \/ req' = [req EXCEPT ![a] = new] /\ (r.op \in {"move", "copy"} => TransferOk(r))
      \/ req' = [req EXCEPT ![a] = Idle]
  BY DEF Check
<1>3. req \in [Reqs -> Request] BY DEF JInv, IInv, ReqsOK
<1>4. ASSUME AloneOK PROVE AloneOK'
  <2>1. Plain(tree) /\ Total(tree) \in Nat /\ Promised(tree, r) /\ r \in Request /\ ReqOK(r) /\ Limit \in Nat
    BY <1>1, <1>4, AloneIs
  <2>2. Sound(tree, r) /\ (r.op = "copy" => ~Doubled(r)) BY <1>1, <2>1 DEF Promised
  <2>3. Calm(tree)
    <3>1. Adds(tree, r) \in Nat
      <4>1. UNION {Under(tree, s) : s \in Range(r.from)} \in SUBSET Paths BY DEF Under
      <4>2. Bytes(tree, UNION {Under(tree, s) : s \in Range(r.from)}) \in Nat /\ r.size \in Nat
        BY <2>1, <4>1, PlainIs DEF Request
      <4> QED BY <4>2 DEF Adds
    <3> QED BY <2>1, <2>2, <3>1 DEF Sound, Calm
  <2>4. CASE req' = [req EXCEPT ![a] = Idle]
    <3>1. Answer(a) BY <2>4 DEF Answer
    <3> QED BY <1>1, <1>4, <2>3, <3>1, AnsweredAlone DEF JInv
  <2>5. CASE req' = [req EXCEPT ![a] = new] /\ (r.op \in {"move", "copy"} => TransferOk(r))
    <3>1. /\ new.pc = "do" /\ new.op = r.op /\ new.from = r.from /\ new.size = r.size /\ new.path = r.path
          /\ new.owner = OwnerOf(tree, r.path)
      <4> DEFINE o == OwnerOf(tree, r.path)
      <4> HIDE DEF o, Paths, Root
      <4> QED BY <2>1 DEF Request, o
    <3>2. req'[a] = new /\ \A b \in Reqs : b # a => req'[b] = req[b] BY <1>3, <2>5
    <3> HIDE DEF new
    <3>3. new.owner = "game"
      <4>1. r.path = Root \/ r.path \in Paths BY <2>1 DEF Request
      <4> QED BY <2>2, <3>1, <4>1 DEF OwnerOf, Games, Sound
    <3>4. Adds(tree, new) = Adds(tree, r) BY <3>1 DEF Adds
    <3>5. Sound(tree, new) BY <2>2, <3>1, <3>4 DEF Sound
    <3>6. new.op = "copy" => ~Doubled(new) BY <2>2, <3>1 DEF Doubled
    <3>7. Promised(tree', req'[a]) BY <1>1, <3>1, <3>2, <3>3, <3>5, <3>6 DEF Promised
    <3>8. r.op = "copy" => TransferOk(new) BY <2>5, <3>1 DEF TransferOk, Moving
    <3>9. req'[a].op = "copy" => TransferOk(req[a])'
      BY <1>1, <3>1, <3>2, <3>8 DEF TransferOk, Moving, KindOf, IsThere
    <3> QED BY <1>1, <1>4, <3>1, <3>2, <3>7, <3>9, AloneKept
  <2> QED BY <1>2, <2>4, <2>5
<1> QED BY <1>1, <1>4 DEF JInv, Kept
----------------------------------------------------------------------------
(* Writing, uploading, unzipping, and the limit and the owners at last. *)

\* What a request adds is a number.
LEMMA AddsIs ==
    ASSUME NEW t, Plain(t), NEW r \in Request
    PROVE  Adds(t, r) \in Nat
<1>1. UNION {Under(t, s) : s \in Range(r.from)} \in SUBSET Paths BY DEF Under
<1>2. Bytes(t, UNION {Under(t, s) : s \in Range(r.from)}) \in Nat /\ r.size \in Nat BY <1>1, PlainIs DEF Request
<1> QED BY <1>2 DEF Adds

\* A file of that size is let in.
LEMMA SoundBrings ==
    ASSUME JInv, AloneOK, NEW a \in Reqs, req[a].pc = "do", req[a].op \in {"write", "upload"}
    PROVE  /\ Games(tree) /\ Total(tree) + req[a].size <= Limit /\ req[a].owner = "game" /\ Calm(tree)
<1>1. Promised(tree, req[a]) /\ Sound(tree, req[a]) /\ req[a] \in Request /\ Total(tree) \in Nat /\ Limit \in Nat
  BY AloneIs DEF Promised
<1>2. Adds(tree, req[a]) = req[a].size BY DEF Adds
<1>3. req[a].size \in Nat BY <1>1 DEF Request
<1>4. Games(tree) /\ Total(tree) + req[a].size <= Limit /\ req[a].owner = "game" BY <1>1, <1>2 DEF Sound, Promised
<1>5. Total(tree) <= Limit BY <1>1, <1>3, <1>4
<1> QED BY <1>4, <1>5 DEF Calm

\* A text is written for the owner of the file, within what was asked for.
LEMMA JWriteText == ASSUME JInv, NEW a \in Reqs, WriteText(a) PROVE Kept
<1> DEFINE r == req[a]
           e == File(r.owner, r.size, r.content)
           new == Put(tree, r.path, e)
<1>1. /\ together' = together /\ fails' = fails /\ r.op = "write" /\ r.pc = "do" /\ Answer(a)
      /\ tree' = IF KindOf(tree, Parent(r.path)) = "dir" THEN new ELSE tree
  BY DEF WriteText
<1>2. r \in Request /\ r.path \in Paths BY <1>1 DEF JInv, IInv, ReqsOK, ReqOK, Shaped
<1>3. r.owner \in {"game", "root"} /\ r.size \in Nat /\ r.content \in 0 .. MaxAsked + 2 BY <1>2 DEF Request
<1>4. e \in Entry /\ e.kind # "none" /\ e.size = r.size /\ e.owner = r.owner BY <1>3, EntriesAre
<1> HIDE DEF e
<1>5. ASSUME KindOf(tree, Parent(r.path)) = "dir"
      PROVE  Plain(new) /\ (Games(tree) /\ e.owner = "game" => Games(new)) /\ Total(new) <= Total(tree) + e.size
  BY <1>2, <1>4, <1>5, PutSize DEF JInv
<1> HIDE DEF new
<1>6. Plain(tree') BY <1>1, <1>5 DEF JInv
<1>7. ASSUME AloneOK PROVE AloneOK'
  <2>1. Games(tree) /\ Total(tree) + r.size <= Limit /\ r.owner = "game" /\ Calm(tree) BY <1>1, <1>7, SoundBrings
  <2>2. ASSUME KindOf(tree, Parent(r.path)) = "dir" PROVE Calm(new)
    <3>1. Total(new) \in Nat /\ Total(tree) \in Nat /\ Limit \in Nat BY <1>5, <2>2, PlainIs, NumbersAssumption DEF JInv
    <3>2. Total(new) <= Total(tree) + r.size BY <1>4, <1>5, <2>2
    <3>3. Total(new) <= Limit BY <1>3, <2>1, <3>1, <3>2
    <3> QED BY <1>4, <1>5, <2>1, <2>2, <3>3 DEF Calm
  <2>3. Calm(tree') BY <1>1, <2>1, <2>2
  <2> QED BY <1>1, <1>7, <2>3, AnsweredAlone DEF JInv
<1> QED BY <1>1, <1>6, <1>7 DEF JInv, Kept

\* So is an upload.
LEMMA JUpload == ASSUME JInv, NEW a \in Reqs, Upload(a) PROVE Kept
<1> DEFINE r == req[a]
           file == File(r.owner, r.size, r.content)
           folder == Folder(r.owner)
           deep == Append(r.to, "f")
           one == Put(tree, r.to, file)
           in == Put(tree, r.to, folder)
           two == Put(in, deep, file)
<1>1. together' = together /\ fails' = fails /\ r.op = "upload" /\ r.pc = "do" /\ Answer(a) BY DEF Upload
<1>2. \/ tree' = tree
      \/ KindOf(tree, r.path) = "dir" /\ tree' = one
      \/ KindOf(tree, r.path) = "dir" /\ deep \in Paths /\ tree' = two
  BY DEF Upload
<1>3. r \in Request /\ r.to \in Paths /\ Parent(r.to) = r.path BY <1>1 DEF JInv, IInv, ReqsOK, ReqOK, Shaped
<1>4. r.owner \in {"game", "root"} /\ r.size \in Nat /\ r.content \in 0 .. MaxAsked + 2 BY <1>3 DEF Request
<1>5. /\ file \in Entry /\ file.kind # "none" /\ file.size = r.size /\ file.owner = r.owner
      /\ folder \in Entry /\ folder.kind = "dir" /\ folder.size = 0 /\ folder.owner = r.owner
  BY <1>4, EntriesAre
<1> HIDE DEF file, folder
<1>6. ASSUME KindOf(tree, r.path) = "dir"
      PROVE  /\ Plain(one) /\ (Games(tree) /\ r.owner = "game" => Games(one)) /\ Total(one) <= Total(tree) + r.size
             /\ Plain(in) /\ (Games(tree) /\ r.owner = "game" => Games(in)) /\ Total(in) <= Total(tree)
  <2>1. Plain(one) /\ (Games(tree) /\ r.owner = "game" => Games(one)) /\ Total(one) <= Total(tree) + r.size
    BY <1>3, <1>5, <1>6, PutSize DEF JInv
  <2>2. Plain(in) /\ (Games(tree) /\ r.owner = "game" => Games(in)) /\ Total(in) <= Total(tree) + folder.size
    BY <1>3, <1>5, <1>6, PutSize DEF JInv
  <2>3. Total(tree) \in Nat BY PlainIs DEF JInv
  <2>4. Total(tree) + folder.size = Total(tree) BY <1>5, <2>3
  <2> QED BY <2>1, <2>2, <2>4
<1>7. ASSUME KindOf(tree, r.path) = "dir", deep \in Paths
      PROVE  Plain(two) /\ (Games(tree) /\ r.owner = "game" => Games(two)) /\ Total(two) <= Total(tree) + r.size
  <2>1. in[r.to].kind = "dir"
    <3>1. CASE tree[r.to].kind = "dir"
      <4>1. in = [tree EXCEPT ![r.to].owner = folder.owner] BY <1>5, <3>1 DEF Put
      <4>2. tree \in [Paths -> Entry] BY PlainIs DEF JInv
      <4> HIDE DEF in
      <4> QED BY <1>3, <3>1, <4>1, <4>2 DEF Entry
    <3>2. CASE tree[r.to].kind # "dir"
      <4>1. in = [Without(tree, {r.to}) EXCEPT ![r.to] = folder] BY <3>2 DEF Put
      <4>2. DOMAIN Without(tree, {r.to}) = Paths BY DEF Without
      <4> HIDE DEF in
      <4> QED BY <1>3, <1>5, <4>1, <4>2
    <3> QED BY <3>1, <3>2
  <2> HIDE DEF in
  <2>2. Parent(deep) = r.to /\ r.to # Root BY <1>3, <1>7, NamesAssumption, ChildIs, RootIs DEF Places
  <2>3. KindOf(in, Parent(deep)) = "dir" BY <2>1, <2>2 DEF KindOf
  <2>4. Plain(in) /\ Total(in) <= Total(tree) BY <1>6, <1>7
  <2>5. Plain(two) /\ (Games(in) /\ r.owner = "game" => Games(two)) /\ Total(two) <= Total(in) + r.size
    BY <1>5, <1>7, <2>3, <2>4, PutSize
  <2>6. Total(two) \in Nat /\ Total(in) \in Nat /\ Total(tree) \in Nat BY <2>4, <2>5, PlainIs DEF JInv
  <2> HIDE DEF two
  <2>7. Total(two) <= Total(tree) + r.size BY <1>4, <2>4, <2>5, <2>6
  <2> QED BY <1>6, <1>7, <2>5, <2>7
<1> HIDE DEF one, two, in
<1>8. Plain(tree') BY <1>2, <1>6, <1>7 DEF JInv
<1>9. ASSUME AloneOK PROVE AloneOK'
  <2>1. Games(tree) /\ Total(tree) + r.size <= Limit /\ r.owner = "game" /\ Calm(tree) BY <1>1, <1>9, SoundBrings
  <2>2. \A t : Plain(t) /\ Games(t) /\ Total(t) <= Total(tree) + r.size => Calm(t)
    <3> SUFFICES ASSUME NEW t, Plain(t), Games(t), Total(t) <= Total(tree) + r.size PROVE Calm(t) OBVIOUS
    <3>1. Total(t) \in Nat /\ Total(tree) \in Nat /\ Limit \in Nat BY PlainIs, NumbersAssumption DEF JInv
    <3>2. Total(t) <= Limit BY <1>4, <2>1, <3>1
    <3> QED BY <3>2 DEF Calm
  <2>3. Calm(tree') BY <1>2, <1>6, <1>7, <2>1, <2>2
  <2> QED BY <1>1, <1>9, <2>3, AnsweredAlone DEF JInv
<1> QED BY <1>1, <1>8, <1>9 DEF JInv, Kept

\* What is outside is no more than all.
LEMMA CalmIsOutside ==
    ASSUME NEW t, Plain(t), NEW q \in Places, \A p \in Outside(q) : t[p].owner = "game", Total(t) <= Limit
    PROVE  CalmOutside(t, q)
<1>1. /\ t \in [Paths -> Entry] /\ Total(t) \in Nat /\ All(t) \in SUBSET Paths
      /\ \A p \in Paths : t[p].size \in Nat /\ (t[p].size # 0 => p \in All(t))
  BY PlainIs
<1>2. Outside(q) \in SUBSET Paths BY DEF Outside
<1>3. \A p \in Outside(q) : t[p].size # 0 => p \in All(t) /\ t[p].size <= t[p].size BY <1>1, <1>2
<1>4. Bytes(t, Outside(q)) <= Total(t) BY <1>1, <1>2, <1>3, NoMore DEF Total
<1>5. Bytes(t, Outside(q)) \in Nat /\ Limit \in Nat BY <1>2, PlainIs, NumbersAssumption
<1>6. Bytes(t, Outside(q)) <= Limit BY <1>1, <1>4, <1>5
<1> QED BY <1>6 DEF CalmOutside

\* What changes nothing outside keeps it.
LEMMA OutsideKept ==
    ASSUME NEW t, Plain(t), NEW u, Plain(u), NEW q \in Places, CalmOutside(t, q), \A p \in Outside(q) : u[p] = t[p]
    PROVE  CalmOutside(u, q)
<1>1. t \in [Paths -> Entry] /\ u \in [Paths -> Entry] /\ \A p \in Paths : t[p].size \in Nat BY PlainIs
<1>2. Outside(q) \in SUBSET Paths BY DEF Outside
<1>3. \A p \in Outside(q) : u[p].size # 0 => p \in Outside(q) /\ u[p].size <= t[p].size BY <1>1, <1>2
<1>4. Bytes(u, Outside(q)) <= Bytes(t, Outside(q)) BY <1>1, <1>2, <1>3, NoMore
<1>5. Bytes(u, Outside(q)) \in Nat /\ Bytes(t, Outside(q)) \in Nat /\ Limit \in Nat BY <1>2, PlainIs, NumbersAssumption
<1>6. Bytes(u, Outside(q)) <= Limit BY <1>4, <1>5 DEF CalmOutside
<1> QED BY <1>6 DEF CalmOutside

\* A new folder is root's until it is given to the game.
LEMMA JMkdir == ASSUME JInv, NEW a \in Reqs, Mkdir(a) PROVE Kept
<1> DEFINE r == req[a]
           p == IF r.op = "extract" THEN Target(r.path) ELSE r.path
           new == [tree EXCEPT ![p] = Folder("root")]
<1>1. together' = together /\ fails' = fails /\ r.op \in {"mkdir", "extract"} /\ r.pc = "do" BY DEF Mkdir
<1>2. r.path \in Paths BY <1>1 DEF JInv, IInv, ReqsOK, ReqOK, Shaped
<1>3. p \in Paths BY <1>2, TargetIs
<1>4. CASE ~(KindOf(tree, Parent(p)) = "dir" /\ ~IsThere(tree, p))
  <2>1. tree' = tree /\ Answer(a) BY <1>4 DEF Mkdir
  <2>2. ASSUME AloneOK PROVE AloneOK'
    <3>1. Calm(tree) BY <1>1, <2>2, SoundEnds
    <3> QED BY <1>1, <2>1, <2>2, <3>1, AnsweredAlone DEF JInv
  <2> QED BY <1>1, <2>1, <2>2 DEF JInv, Kept
<1>5. CASE KindOf(tree, Parent(p)) = "dir" /\ ~IsThere(tree, p)
  <2>1. tree' = new /\ Goto(a, IF r.op = "extract" THEN "unzip" ELSE "chown") BY <1>5 DEF Mkdir
  <2>2. Folder("root") \in Entry /\ Folder("root").kind = "dir" /\ Folder("root").size = 0 BY EntriesAre
  <2>3. Plain(tree) /\ tree \in [Paths -> Entry] /\ TreeOK(tree) /\ Total(tree) \in Nat /\ \A q \in Paths : tree[q].size \in Nat
    BY PlainIs DEF JInv
  <2>4. new[p] = Folder("root") /\ \A q \in Paths : q # p => new[q] = tree[q] BY <1>3, <2>3
  <2>5. TreeOK(new) BY <1>3, <1>5, <2>2, <2>3, OneChangedOK
  <2> HIDE DEF new
  <2>6. Plain(new) BY <2>2, <2>3, <2>4, <2>5 DEF Plain
  <2>7. \A q \in Paths : new[q].size <= tree[q].size
    <3> SUFFICES ASSUME NEW q \in Paths PROVE new[q].size <= tree[q].size OBVIOUS
    <3>1. CASE q = p BY <1>3, <2>2, <2>3, <2>4, <3>1
    <3>2. CASE q # p BY <2>3, <2>4, <3>2
    <3> QED BY <3>1, <3>2
  <2>8. Total(new) <= Total(tree) /\ Total(new) \in Nat BY <2>3, <2>6, <2>7, NoBigger, PlainIs
  <2>9. ASSUME AloneOK PROVE AloneOK'
    <3>1. Games(tree) /\ Total(tree) <= Limit /\ Calm(tree) BY <1>1, <2>9, SoundEnds
    <3>2. Limit \in Nat BY NumbersAssumption
    <3>3. Total(new) <= Limit BY <2>3, <2>8, <3>1, <3>2
    <3>4. \A q \in Paths : q # p => new[q].owner = "game" BY <2>4, <3>1 DEF Games
    <3> DEFINE pc == IF r.op = "extract" THEN "unzip" ELSE "chown"
    <3>5. req'[a].pc = pc /\ req'[a].op = r.op /\ req'[a].path = r.path BY <2>1, GotoIs DEF JInv
    <3>6. Promised(new, req'[a])
      <4>1. CASE r.op = "mkdir"
        <5>1. pc = "chown" /\ p = r.path BY <4>1
        <5> QED BY <3>3, <3>4, <3>5, <4>1, <5>1 DEF Promised
      <4>2. CASE r.op = "extract"
        <5>1. pc = "unzip" /\ p = Target(r.path) BY <4>2
        <5>2. p \in Places /\ Within(p, p) BY <1>3, ParentIs, RootIs
        <5>3. \A q \in Outside(p) : new[q].owner = "game" BY <3>4, <5>2 DEF Outside
        <5>4. CalmOutside(new, p) BY <2>6, <3>3, <5>2, <5>3, CalmIsOutside
        <5>5. req'[a].pc = "unzip" /\ req'[a].op = "extract" /\ CalmOutside(new, Target(req'[a].path)) BY <3>5, <4>2, <5>1, <5>4
        <5> HIDE DEF p
        <5> QED BY <3>3, <5>5 DEF Promised
      <4> QED BY <1>1, <4>1, <4>2
    <3>7. pc \notin {"idle", "do"} OBVIOUS
    <3> HIDE DEF pc
    <3>8. Goto(a, pc) BY <2>1 DEF pc
    <3> QED BY <1>1, <2>1, <2>9, <3>6, <3>7, <3>8, GoneAlone DEF JInv
  <2> QED BY <1>1, <2>1, <2>6, <2>9 DEF JInv, Kept
<1> QED BY <1>4, <1>5

\* What is unpacked comes into the archive's own folder.
LEMMA JUnzip == ASSUME JInv, NEW a \in Reqs, Unzip(a) PROVE Kept
<1> DEFINE r == req[a]
           p == Target(r.path)
           file == Append(p, "f")
<1>1. together' = together /\ fails' = fails /\ r.pc = "unzip" BY DEF Unzip
<1>2. r \in Request /\ r.op = "extract" /\ r.path \in Paths BY <1>1 DEF JInv, IInv, ReqsOK, ReqOK, Shaped
<1>3. \/ /\ KindOf(tree, p) = "dir" /\ file \in Paths
         /\ \E size \in Unpacks : tree' = Put(tree, file, File("root", size, r.content)) /\ Goto(a, "chown")
      \/ tree' = tree /\ Goto(a, "clean")
  BY DEF Unzip
<1>4. p \in Paths /\ p \in Places BY <1>2, TargetIs, RootIs
<1>5. Plain(tree) BY DEF JInv
<1>6. Plain(tree') /\ \A q \in Outside(p) : tree'[q] = tree[q]
  <2>1. CASE tree' = tree BY <1>5, <2>1
  <2>2. CASE /\ KindOf(tree, p) = "dir" /\ file \in Paths
             /\ \E size \in Unpacks : tree' = Put(tree, file, File("root", size, r.content))
    <3>1. PICK size \in Unpacks : tree' = Put(tree, file, File("root", size, r.content)) BY <2>2
    <3> DEFINE e == File("root", size, r.content)
               new == Put(tree, file, e)
    <3>2. size \in Nat BY NumbersAssumption
    <3>3. e \in Entry /\ e.kind # "none" BY <1>2, <3>2, BringsIs
    <3> HIDE DEF e
    <3>4. Parent(file) = p /\ Within(file, p) BY <1>4, <2>2, NamesAssumption, ChildIs
    <3> HIDE DEF p, file
    <3>5. Plain(new) /\ \A q \in Paths : ~Within(q, file) => new[q] = tree[q] BY <1>5, <2>2, <3>3, <3>4, PutSize
    <3>6. ASSUME NEW q \in Outside(p) PROVE q \in Paths /\ ~Within(q, file)
      <4>1. q \in Paths /\ ~Within(q, p) BY DEF Outside
      <4>2. q \in Places /\ file \in Places BY <2>2, <4>1, RootIs
      <4> QED BY <1>4, <3>4, <4>1, <4>2, WithinOrders
    <3> HIDE DEF new
    <3> QED BY <3>1, <3>5, <3>6 DEF new, e
  <2> QED BY <1>3, <2>1, <2>2
<1>7. PICK pc \in {"chown", "clean"} : Goto(a, pc) BY <1>3
<1>8. ASSUME AloneOK PROVE AloneOK'
  <2>1. Promised(tree, r) BY <1>1, <1>8, AloneIs
  <2>2. CalmOutside(tree, p) BY <1>1, <1>2, <2>1 DEF Promised
  <2>3. CalmOutside(tree', p) BY <1>4, <1>5, <1>6, <2>2, OutsideKept
  <2>4. req'[a].pc = pc /\ req'[a].op = "extract" /\ req'[a].path = r.path BY <1>2, <1>7, GotoIs DEF JInv
  <2>5. Promised(tree', req'[a]) BY <2>3, <2>4 DEF Promised
  <2>6. pc \notin {"idle", "do"} OBVIOUS
  <2> QED BY <1>1, <1>7, <1>8, <2>5, <2>6, GoneAlone DEF JInv
<1> QED BY <1>1, <1>6, <1>8 DEF JInv, Kept

\* That folder goes when it failed.
LEMMA JClean == ASSUME JInv, NEW a \in Reqs, Clean(a) PROVE Kept
<1> DEFINE r == req[a]
           p == Target(r.path)
           new == Without(tree, {p})
<1>1. together' = together /\ fails' = fails /\ r.pc = "clean" /\ Answer(a) /\ tree' = new BY DEF Clean
<1>2. r.op = "extract" /\ r.path \in Paths BY <1>1 DEF JInv, IInv, ReqsOK, ReqOK, Shaped
<1>3. {p} \in SUBSET Places /\ p \in {p} BY <1>2, TargetIs, RootIs
<1>4. Plain(new) /\ Total(new) <= Bytes(tree, Outside(p)) /\ ((\A q \in Outside(p) : tree[q].owner = "game") => Games(new))
  BY <1>3, WithoutSize DEF JInv
<1> HIDE DEF new
<1>5. ASSUME AloneOK PROVE AloneOK'
  <2>1. Promised(tree, r) /\ Plain(tree) BY <1>1, <1>5, AloneIs
  <2>2. CalmOutside(tree, p) BY <1>1, <1>2, <2>1 DEF Promised
  <2>3. Outside(p) \in SUBSET Paths BY DEF Outside
  <2>4. Bytes(tree, Outside(p)) \in Nat /\ Total(new) \in Nat /\ Limit \in Nat BY <1>4, <2>1, <2>3, PlainIs, NumbersAssumption
  <2>5. Total(new) <= Limit BY <1>4, <2>2, <2>4 DEF CalmOutside
  <2>6. Calm(new) BY <1>4, <2>2, <2>5 DEF CalmOutside, Calm
  <2> QED BY <1>1, <1>5, <2>6, AnsweredAlone DEF JInv
<1> QED BY <1>1, <1>4, <1>5 DEF JInv, Kept

\* What is unpacked is measured again, and taken away when it is over the limit.
LEMMA JCheckDisk == ASSUME JInv, NEW a \in Reqs, CheckDisk(a) PROVE Kept
<1> DEFINE r == req[a]
<1>1. tree' = tree /\ together' = together /\ fails' = fails /\ r.pc = "disk" BY DEF CheckDisk
<1>2. PICK used \in Used(All(tree)) : IF used > Limit THEN Goto(a, "clean") ELSE Answer(a) BY DEF CheckDisk
<1>3. r.op = "extract" BY <1>1 DEF JInv, IInv, ReqsOK, ReqOK
<1>4. ASSUME AloneOK PROVE AloneOK'
  <2>1. Promised(tree, r) /\ Plain(tree) /\ Total(tree) \in Nat /\ Limit \in Nat BY <1>1, <1>4, AloneIs
  <2>2. CalmOutside(tree, Target(r.path)) /\ Games(tree) BY <1>1, <1>3, <2>1 DEF Promised
  <2>3. CASE used > Limit
    <3>1. Goto(a, "clean") BY <1>2, <2>3
    <3>2. req'[a].pc = "clean" /\ req'[a].op = "extract" /\ req'[a].path = r.path BY <1>3, <3>1, GotoIs DEF JInv
    <3>3. Promised(tree', req'[a]) BY <1>1, <2>2, <3>2 DEF Promised
    <3> QED BY <1>1, <1>4, <3>1, <3>3, GoneAlone DEF JInv
  <2>4. CASE ~(used > Limit)
    <3>1. PICK extra \in 0 .. Slack : used = Total(tree) + extra BY DEF Used, Total
    <3>2. Slack \in Nat BY NumbersAssumption
    <3>3. Total(tree) <= Limit BY <2>1, <2>4, <3>1, <3>2
    <3>4. Answer(a) /\ Calm(tree') BY <1>1, <1>2, <2>2, <2>4, <3>3 DEF Calm
    <3> QED BY <1>1, <1>4, <3>4, AnsweredAlone DEF JInv
  <2> QED BY <2>3, <2>4
<1> QED BY <1>1, <1>4 DEF JInv, Kept

\* What was made or unpacked is given to the game.
LEMMA JChown == ASSUME JInv, NEW a \in Reqs, Chown(a) PROVE Kept
<1> DEFINE r == req[a]
           p == IF r.op = "extract" THEN Target(r.path) ELSE r.path
           owned == IF r.op = "extract" THEN Under(tree, p) ELSE {p}
           owner == OwnerOf(tree, Parent(p))
           new == [q \in Paths |-> IF q \in owned THEN [tree[q] EXCEPT !.owner = owner] ELSE tree[q]]
<1>1. together' = together /\ fails' = fails /\ r.pc = "chown" BY DEF Chown
<1>2. r.op \in {"mkdir", "extract"} /\ r.path \in Paths BY <1>1 DEF JInv, IInv, ReqsOK, ReqOK, Shaped
<1>3. p \in Paths /\ Parent(p) \in Places /\ ~Within(Parent(p), p) /\ Parent(p) # p /\ Within(p, p)
  BY <1>2, TargetIs, ParentIs
<1>4. owner \in {"game", "root"} BY <1>3, OwnerIs DEF JInv, IInv
<1>5. Plain(tree) /\ TreeOK(tree) /\ tree \in [Paths -> Entry] /\ \A q \in Paths : tree[q].size \in Nat BY PlainIs DEF JInv
<1>6. tree' = IF IsThere(tree, p) THEN new ELSE tree BY DEF Chown
<1>7. IF r.op = "extract" /\ IsThere(tree, p) THEN Goto(a, "disk") ELSE Answer(a) BY DEF Chown
<1>8. IsThere(tree, p) <=> tree[p].kind # "none" BY <1>3, RootIs DEF IsThere, KindOf
<1>9. ASSUME AloneOK PROVE owner = "game"
  <2>1. Promised(tree, r) BY <1>1, <1>9, AloneIs
  <2>2. CASE Parent(p) = Root BY <2>2 DEF OwnerOf
  <2>3. CASE Parent(p) # Root
    <3>1. Parent(p) \in Paths BY <1>3, <2>3, RootOrPath
    <3>2. CASE r.op = "mkdir" BY <1>1, <1>3, <2>1, <2>3, <3>1, <3>2 DEF Promised, OwnerOf
    <3>3. CASE r.op = "extract"
      <4>1. CalmOutside(tree, p) BY <1>1, <2>1, <3>3 DEF Promised
      <4>2. Parent(p) \in Outside(p) BY <1>3, <3>1 DEF Outside
      <4> QED BY <2>3, <4>1, <4>2 DEF CalmOutside, OwnerOf
    <3> QED BY <1>2, <3>2, <3>3
  <2> QED BY <2>2, <2>3
<1>10. CASE ~IsThere(tree, p)
  <2>1. tree' = tree /\ Answer(a) BY <1>6, <1>7, <1>10
  <2>2. ASSUME AloneOK PROVE AloneOK'
    <3>1. Promised(tree, r) /\ Total(tree) \in Nat /\ Limit \in Nat BY <1>1, <2>2, AloneIs
    <3>2. tree[p] = None /\ tree[p].kind # "dir" BY <1>3, <1>5, <1>8, <1>10, NothingIs DEF Plain
    <3>3. Calm(tree)
      <4>1. CASE r.op = "mkdir"
        <5>1. Total(tree) <= Limit /\ \A q \in Paths : q # p => tree[q].owner = "game" BY <1>1, <3>1, <4>1 DEF Promised
        <5>2. Games(tree) BY <3>2, <5>1, NothingIs DEF Games
        <5> QED BY <5>1, <5>2 DEF Calm
      <4>2. CASE r.op = "extract"
        <5>1. CalmOutside(tree, p) BY <1>1, <3>1, <4>2 DEF Promised
        <5>2. \A q \in Paths : Within(q, p) => tree[q] = None
          <6> SUFFICES ASSUME NEW q \in Paths, Within(q, p) PROVE tree[q] = None OBVIOUS
          <6>1. CASE q = p BY <3>2, <6>1
          <6>2. CASE q # p
            <7> HIDE DEF p
            <7>1. tree[q].kind = "none" BY <1>3, <1>5, <3>2, <6>2, NothingBelow
            <7> QED BY <1>5, <7>1 DEF Plain
          <6> QED BY <6>1, <6>2
        <5> HIDE DEF p
        <5>3. Games(tree) BY <5>1, <5>2, NothingIs DEF Games, CalmOutside, Outside
        <5>4. \A q \in All(tree) : tree[q].size # 0 => q \in Outside(p) /\ tree[q].size <= tree[q].size
          BY <1>5, <5>2, NothingIs DEF All, Outside
        <5>5. Outside(p) \in SUBSET Paths /\ All(tree) \in SUBSET Paths BY DEF Outside, All
        <5>6. Total(tree) <= Bytes(tree, Outside(p)) BY <1>5, <5>4, <5>5, NoMore DEF Total
        <5>7. Bytes(tree, Outside(p)) \in Nat BY <1>5, <5>5, PlainIs
        <5>8. Total(tree) <= Limit BY <3>1, <5>1, <5>6, <5>7 DEF CalmOutside
        <5> QED BY <5>3, <5>8 DEF Calm
      <4> QED BY <1>2, <4>1, <4>2
    <3> QED BY <1>1, <2>1, <2>2, <3>3, AnsweredAlone DEF JInv
  <2> QED BY <1>1, <1>5, <2>1, <2>2 DEF JInv, Kept
<1>11. CASE IsThere(tree, p)
  <2>1. tree' = new BY <1>6, <1>11
  <2>2. /\ new \in [Paths -> Entry]
        /\ \A q \in Paths : /\ new[q].kind = tree[q].kind /\ new[q].size = tree[q].size
                            /\ new[q].owner = IF q \in owned THEN owner ELSE tree[q].owner
                            /\ (q \notin owned => new[q] = tree[q])
    <3>1. \A q \in Paths : q \notin owned => new[q] = tree[q] OBVIOUS
    <3>2. /\ new \in [Paths -> Entry]
          /\ \A q \in Paths : /\ new[q].kind = tree[q].kind /\ new[q].content = tree[q].content /\ new[q].size = tree[q].size
                              /\ new[q].owner = IF q \in owned THEN owner ELSE tree[q].owner
      <4> HIDE DEF owned, owner
      <4> QED BY <1>4, <1>5, HandedOn
    <3> HIDE DEF new, owned
    <3> QED BY <3>1, <3>2
  <2>3. \A q \in owned : tree[q].kind # "none"
    <3>1. CASE r.op = "extract" BY <3>1 DEF Under
    <3>2. CASE r.op # "extract" BY <1>8, <1>11, <3>2
    <3> QED BY <3>1, <3>2
  <2>4. \A q \in Paths : q \notin owned => (IF r.op = "extract" THEN ~Within(q, p) \/ tree[q] = None ELSE q # p)
    BY <1>5 DEF Under, Plain
  <2>5. \A q \in Outside(p) : q \in Paths /\ q \notin owned
    BY <1>3 DEF Outside, Under
  <2> HIDE DEF new, owned, owner
  <2>6. TreeOK(new) BY <1>5, <2>2, SameKindsOK
  <2>7. Plain(new) BY <1>5, <2>2, <2>3, <2>6 DEF Plain
  <2>8. Total(new) <= Total(tree) /\ Total(new) \in Nat /\ Total(tree) \in Nat
    <3>1. \A q \in Paths : new[q].size <= tree[q].size BY <1>5, <2>2
    <3> QED BY <1>5, <2>7, <3>1, NoBigger, PlainIs
  <2>9. ASSUME AloneOK PROVE AloneOK'
    <3>1. Promised(tree, r) /\ Limit \in Nat BY <1>1, <2>9, AloneIs
    <3>2. owner = "game" BY <1>9, <2>9
    <3>3. Games(new)
      <4>1. CASE r.op = "mkdir"
        <5>1. \A q \in Paths : q # p => tree[q].owner = "game" BY <1>1, <3>1, <4>1 DEF Promised
        <5>2. \A q \in Paths : q \notin owned => q # p BY <2>4, <4>1
        <5> QED BY <2>2, <3>2, <5>1, <5>2 DEF Games
      <4>2. CASE r.op = "extract"
        <5>1. \A q \in Outside(p) : tree[q].owner = "game" BY <1>1, <3>1, <4>2 DEF Promised, CalmOutside
        <5>2. \A q \in Paths : q \notin owned => tree[q].owner = "game"
          <6> SUFFICES ASSUME NEW q \in Paths, q \notin owned PROVE tree[q].owner = "game" OBVIOUS
          <6>1. ~Within(q, p) \/ tree[q] = None BY <2>4, <4>2
          <6> HIDE DEF p
          <6> QED BY <5>1, <6>1, NothingIs DEF Outside
        <5> QED BY <2>2, <3>2, <5>2 DEF Games
      <4> QED BY <1>2, <4>1, <4>2
    <3>4. CASE r.op = "mkdir"
      <4>1. Total(tree) <= Limit BY <1>1, <3>1, <3>4 DEF Promised
      <4>2. Total(new) <= Limit BY <2>8, <3>1, <4>1
      <4>3. Calm(new) BY <3>3, <4>2 DEF Calm
      <4>4. Answer(a) BY <1>7, <3>4
      <4> QED BY <1>1, <2>1, <2>9, <4>3, <4>4, AnsweredAlone DEF JInv
    <3>5. CASE r.op = "extract"
      <4>1. CalmOutside(tree, p) /\ p = Target(r.path) BY <1>1, <3>1, <3>5 DEF Promised
      <4>2. \A q \in Outside(p) : new[q].owner = "game" BY <2>5, <3>3 DEF Games
      <4>3. CalmOutside(new, p)
        <5>1. Outside(p) \in SUBSET Paths BY DEF Outside
        <5>2. \A q \in Outside(p) : new[q].size # 0 => q \in Outside(p) /\ new[q].size <= tree[q].size
          BY <1>5, <2>2, <5>1
        <5> HIDE DEF p
        <5>3. Bytes(new, Outside(p)) <= Bytes(tree, Outside(p)) BY <1>5, <2>2, <5>1, <5>2, NoMore
        <5>4. Bytes(new, Outside(p)) \in Nat /\ Bytes(tree, Outside(p)) \in Nat BY <1>5, <2>7, <5>1, PlainIs
        <5>5. Bytes(new, Outside(p)) <= Limit BY <3>1, <4>1, <5>3, <5>4 DEF CalmOutside
        <5> QED BY <4>2, <5>5 DEF CalmOutside
      <4>4. Goto(a, "disk") BY <1>7, <1>11, <3>5
      <4>5. req'[a].pc = "disk" /\ req'[a].op = "extract" /\ req'[a].path = r.path BY <3>5, <4>4, GotoIs DEF JInv
      <4>6. CalmOutside(new, Target(req'[a].path)) BY <4>1, <4>3, <4>5
      <4>7. Promised(new, req'[a]) BY <3>3, <4>5, <4>6 DEF Promised
      <4> QED BY <1>1, <2>1, <2>9, <4>4, <4>7, GoneAlone DEF JInv
    <3> QED BY <1>2, <3>4, <3>5
  <2> QED BY <1>1, <2>1, <2>7, <2>9 DEF JInv, Kept
<1> QED BY <1>10, <1>11

\* At first nothing is asked for, and the files are the game's.
LEMMA JInit == ASSUME Init PROVE JInv
<1>1. IInv BY InitOK
<1>2. /\ req = [a \in Reqs |-> Idle] /\ fails = 0 /\ together = FALSE
      /\ tree = [p \in Paths |-> CASE p = <<"d">> -> Folder("game")
                                   [] p = <<"d", "f">> -> File("game", 1, 1)
                                   [] p = <<ZipName>> -> File("game", 1, 2)
                                   [] OTHER -> None]
  BY DEF Init
<1> DEFINE x == <<"d", "f">>
           y == <<ZipName>>
           d == <<"d">>
<1>3. x # d /\ x # y /\ y # d
  <2>1. y = d => ZipName = "d" OBVIOUS
  <2> QED BY <2>1, NamesAssumption
<1>4. \A p \in Paths : tree[p] = CASE p = d -> Folder("game") [] p = x -> File("game", 1, 1)
                                   [] p = y -> File("game", 1, 2) [] OTHER -> None
  BY <1>2, Zenon
<1> HIDE DEF x, y, d
<1>5. /\ \A p \in Paths : p = d => tree[p] = Folder("game")
      /\ \A p \in Paths : p = x => tree[p] = File("game", 1, 1)
      /\ \A p \in Paths : p = y => tree[p] = File("game", 1, 2)
      /\ \A p \in Paths : p \notin {d, x, y} => tree[p] = None
  BY <1>3, <1>4
<1>6. /\ Folder("game").kind = "dir" /\ Folder("game").owner = "game" /\ Folder("game").size = 0
      /\ File("game", 1, 1).kind = "file" /\ File("game", 1, 1).owner = "game" /\ File("game", 1, 1).size = 1
      /\ File("game", 1, 2).kind = "file" /\ File("game", 1, 2).owner = "game" /\ File("game", 1, 2).size = 1
  BY DEF Folder, File
<1>7. Plain(tree)
  <2>1. \A p \in Paths : tree[p].kind = "none" => tree[p] = None BY <1>5, <1>6
  <2> QED BY <1>1, <2>1 DEF IInv, Plain
<1>8. Games(tree) BY <1>5, <1>6, NothingIs DEF Games
<1>9. Total(tree) <= Limit
  <2> DEFINE all == {x, y} \cap Paths
             more == all \ {x}
             rest == more \ {y}
  <2>1. tree \in [Paths -> Entry] /\ All(tree) \in SUBSET Paths /\ \A p \in Paths : tree[p].size \in Nat BY <1>7, PlainIs
  <2>2. all \in SUBSET Paths /\ more \in SUBSET Paths /\ rest = {} OBVIOUS
  <2>3. \A p \in All(tree) : tree[p].size # 0 => p \in all /\ tree[p].size <= tree[p].size
    <3> SUFFICES ASSUME NEW p \in All(tree), tree[p].size # 0 PROVE p \in all /\ tree[p].size <= tree[p].size OBVIOUS
    <3>1. p \in Paths BY DEF All
    <3>2. p \in {x, y} BY <1>5, <1>6, <3>1, NothingIs
    <3> QED BY <2>1, <3>1, <3>2
  <2>4. Total(tree) <= Bytes(tree, all) BY <2>1, <2>2, <2>3, NoMore DEF Total
  <2>5. Bytes(tree, rest) = 0 BY <2>1, <2>2, BytesAdd
  <2>6. Bytes(tree, more) <= 1
    <3>1. CASE y \in more
      <4>1. Bytes(tree, more) = tree[y].size + Bytes(tree, rest) BY <2>1, <2>2, <3>1, BytesAdd
      <4>2. y \in Paths /\ tree[y].size = 1 BY <1>5, <1>6, <2>2, <3>1
      <4> QED BY <2>5, <4>1, <4>2
    <3>2. CASE y \notin more
      <4>1. more = rest BY <3>2
      <4> QED BY <2>5, <4>1
    <3> QED BY <3>1, <3>2
  <2>7. Bytes(tree, all) \in Nat /\ Bytes(tree, more) \in Nat /\ Total(tree) \in Nat BY <1>7, <2>2, PlainIs
  <2>8. Bytes(tree, all) <= 2
    <3>1. CASE x \in all
      <4>1. Bytes(tree, all) = tree[x].size + Bytes(tree, more) BY <2>1, <2>2, <3>1, BytesAdd
      <4>2. x \in Paths /\ tree[x].size = 1 BY <1>5, <1>6, <2>2, <3>1
      <4> QED BY <2>6, <2>7, <4>1, <4>2
    <3>2. CASE x \notin all
      <4>1. more = all BY <3>2
      <4> QED BY <2>6, <2>7, <4>1
    <3> QED BY <3>1, <3>2
  <2>9. Limit \in Nat /\ Limit >= 2 BY NumbersAssumption, LimitAssumption
  <2> HIDE DEF all
  <2> QED BY <2>4, <2>7, <2>8, <2>9
<1>10. \A a \in Reqs : req[a].pc = "idle" BY <1>2, IdleIs
<1>11. AloneOK BY <1>8, <1>9, <1>10 DEF AloneOK, Calm
<1> QED BY <1>1, <1>7, <1>11 DEF JInv

\* Every step of a request keeps all of this.
LEMMA EveryStepKeeps ==
    ASSUME JInv, NEW a \in Reqs,
           \/ Ask(a) \/ RequireSpace(a) \/ Check(a) \/ Mkdir(a) \/ Rename(a) \/ Move(a) \/ Copy(a) \/ Delete(a)
           \/ WriteText(a) \/ Upload(a) \/ Unzip(a) \/ Clean(a) \/ Chown(a) \/ CheckDisk(a) \/ Fails(a)
    PROVE  Kept
BY JAsk, JRequireSpace, JCheck, JMkdir, JRename, JMove, JCopy, JDelete, JWriteText, JUpload, JUnzip, JClean, JChown,
   JCheckDisk, JFails

\* It holds always.
LEMMA AlwaysJInv == Spec => []JInv
<1>1. Init => JInv BY JInit
<1>2. JInv /\ [Next]_vars => JInv'
  <2> SUFFICES ASSUME JInv, [Next]_vars PROVE JInv' OBVIOUS
  <2>1. IInv' BY StepOK DEF JInv
  <2>2. CASE Next
    <3>1. Kept BY <2>2, EveryStepKeeps DEF Next
    <3> QED BY <2>1, <3>1 DEF JInv, Kept
  <2>3. CASE UNCHANGED vars
    <3>1. tree' = tree /\ req' = req /\ fails' = fails /\ together' = together BY <2>3 DEF vars
    <3>2. AloneOK => AloneOK' BY <3>1 DEF AloneOK, TransferOk, KindOf, IsThere
    <3> QED BY <2>1, <3>1, <3>2 DEF JInv
  <2> QED BY <2>2, <2>3
<1> QED BY <1>1, <1>2, PTL DEF Spec

\* Requests that come one at a time keep the limit of the disk, but for an archive until it is
\* measured, and leave the game what it owns.
THEOREM LimitAndOwnersKept == Spec => []OneAtATime
<1>1. JInv => OneAtATime
  <2> SUFFICES ASSUME JInv, ~together, fails = 0
               PROVE  /\ (\A a \in Reqs : req[a].pc \notin {"chown", "disk", "clean"}) => Bytes(tree, All(tree)) <= Limit
                      /\ Active = {} => \A p \in All(tree) : tree[p].owner = "game"
    BY DEF OneAtATime, WithinLimit, OwnedByGame
  <2>1. AloneOK /\ Plain(tree) /\ Total(tree) \in Nat /\ Limit \in Nat BY PlainIs, NumbersAssumption DEF JInv
  <2>2. CASE \A a \in Reqs : req[a].pc = "idle"
    <3>1. Calm(tree) BY <2>1, <2>2 DEF AloneOK
    <3> QED BY <3>1 DEF Calm, Games, All, Total
  <2>3. CASE ~\A a \in Reqs : req[a].pc = "idle"
    <3>1. PICK a \in Reqs : req[a].pc # "idle" BY <2>3
    <3>2. a \in Active BY <3>1 DEF Active
    <3>3. ASSUME req[a].pc \notin {"chown", "disk", "clean"} PROVE Total(tree) <= Limit
      <4> DEFINE r == req[a]
      <4>1. Promised(tree, r) /\ r \in Request BY <2>1, <3>1, AloneIs
      <4>2. r.pc \in {"space", "check", "do", "unzip"} BY <3>1, <3>3, <4>1 DEF Request
      <4>3. CASE r.pc = "space" BY <4>1, <4>3 DEF Promised, Calm
      <4>4. CASE r.pc = "unzip" BY <4>1, <4>4 DEF Promised
      <4>5. CASE r.pc \in {"check", "do"}
        <5>1. Total(tree) + Adds(tree, r) <= Limit BY <4>1, <4>5 DEF Promised, Sound
        <5>2. Adds(tree, r) \in Nat BY <2>1, <4>1, AddsIs
        <5> QED BY <2>1, <5>1, <5>2
      <4> QED BY <4>2, <4>3, <4>4, <4>5
    <3> QED BY <3>2, <3>3 DEF Total
  <2> QED BY <2>2, <2>3
<1> QED BY <1>1, AlwaysJInv, PTL
================================================================================
