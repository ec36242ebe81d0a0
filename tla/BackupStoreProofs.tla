--------------------------- MODULE BackupStoreProofs ---------------------------
(***************************************************************************)
(* Proofs about BackupStore, for any requests, operations, limits, events  *)
(* and bounds: the types; a backup which says ready is never a cut-off     *)
(* archive and has its file; one made by hand is pruned by nobody; saving  *)
(* is on again.                                                            *)
(***************************************************************************)
EXTENDS BackupStore, FiniteSetTheorems, WellFoundedInduction, TLAPS

\* The parts of the type invariant that most steps have to do with.
ReqOK == req \in [Reqs -> Request]
RowsOK == rows \in [Ids -> Row]
FilesOK == files \in [Ids -> {"none", "partial", "whole"}]

\* Where a request and where the task can be.
ReqPc == {"idle", "check", "space", "pruned", "insert", "spawn", "get", "unlink",
          "drop", "cancel", "await", "remove", "rmtree", "cascade"}
TaskPc == {"none", "begin", "before", "wait", "open", "archive", "after", "finish", "select",
           "prune", "end", "fail", "failed"}

\* What holds 0, and with every number the next one, holds all there are up to n.
LEMMA AllTheWay ==
    ASSUME NEW n \in Nat, NEW S, 0 \in S, \A k \in 0 .. n - 1 : k \in S => k + 1 \in S
    PROVE  \A k \in 0 .. n : k \in S
<1> DEFINE T == {k \in 0 .. n : k \notin S}
<1> SUFFICES ASSUME T # {} PROVE FALSE OBVIOUS
<1>1. T \subseteq Nat OBVIOUS
<1>2. \E x \in T : \A y \in T : ~(<<y, x>> \in OpToRel(<, Nat)) BY <1>1, WFMin, NatLessThanWellFounded, Zenon
<1>3. PICK x \in T : \A y \in T : ~(y < x) BY <1>1, <1>2 DEF OpToRel
<1>4. x - 1 \in 0 .. n - 1 /\ x - 1 < x BY <1>3
<1>5. x - 1 \in S BY <1>3, <1>4
<1>6. (x - 1) + 1 \in S BY <1>4, <1>5
<1> QED BY <1>3, <1>6

\* What holds the empty set, and every set of S that it holds without any of its elements,
\* holds them all.
LEMMA BySize ==
    ASSUME NEW S, IsFiniteSet(S), NEW X, {} \in X,
           \A s \in SUBSET S : s # {} /\ (\A x \in s : s \ {x} \in X) => s \in X
    PROVE  \A s \in SUBSET S : s \in X
<1> DEFINE n == Cardinality(S)
           T == {k \in 0 .. n : \A s \in SUBSET S : Cardinality(s) = k => s \in X}
<1>1. n \in Nat /\ \A s \in SUBSET S : IsFiniteSet(s) /\ Cardinality(s) \in 0 .. n
  <2>1. n \in Nat BY FS_CardinalityType
  <2>2. ASSUME NEW s \in SUBSET S PROVE IsFiniteSet(s) /\ Cardinality(s) \in 0 .. n
    <3>1. IsFiniteSet(s) /\ Cardinality(s) <= n BY FS_Subset
    <3>2. Cardinality(s) \in Nat BY <3>1, FS_CardinalityType
    <3> QED BY <2>1, <3>1, <3>2
  <2> QED BY <2>1, <2>2
<1> HIDE DEF n
<1>2. 0 \in T
  <2>1. \A s \in SUBSET S : Cardinality(s) = 0 => s = {} BY <1>1, FS_EmptySet
  <2>2. \A s \in SUBSET S : Cardinality(s) = 0 => s \in X BY <2>1
  <2>3. 0 \in 0 .. n BY <1>1
  <2> QED BY <2>2, <2>3
<1>3. ASSUME NEW k \in 0 .. n - 1, k \in T PROVE k + 1 \in T
  <2>1. k + 1 \in 0 .. n BY <1>1
  <2>2. ASSUME NEW s \in SUBSET S, Cardinality(s) = k + 1 PROVE s \in X
    <3>0. k + 1 # 0 BY <1>1
    <3>1. s # {} BY <2>2, <3>0, FS_EmptySet
    <3>2. ASSUME NEW x \in s PROVE s \ {x} \in X
      <4>1. Cardinality(s \ {x}) = Cardinality(s) - 1 BY <1>1, FS_RemoveElement
      <4>2. Cardinality(s \ {x}) = k BY <2>2, <4>1
      <4> QED BY <1>3, <4>2
    <3> QED BY <3>1, <3>2
  <2> QED BY <2>1, <2>2
<1> HIDE DEF T
<1>4. \A k \in 0 .. n : k \in T BY <1>1, <1>2, <1>3, AllTheWay
<1> QED BY <1>1, <1>4 DEF T

One(s) == CHOOSE x \in s : TRUE

\* The element a sum takes first.
LEMMA OneIsIn == \A s : s # {} => One(s) \in s
BY DEF One

\* The recursive function that a sum over the sets in D comes to.
SumsUp(g, D, w) == \A s \in D : g[s] = IF s = {} THEN 0 ELSE w[One(s)] + g[s \ {One(s)}]

\* There is a function that has the sum of every set.
LEMMA SumExists ==
    ASSUME NEW S, IsFiniteSet(S), NEW w \in [S -> Nat]
    PROVE  \E g \in [SUBSET S -> Nat] : SumsUp(g, SUBSET S, w)
<1> DEFINE n == Cardinality(S)
           D(k) == {s \in SUBSET S : Cardinality(s) <= k}
           T == {k \in 0 .. n : \E g \in [D(k) -> Nat] : SumsUp(g, D(k), w)}
<1>1. n \in Nat /\ \A s \in SUBSET S : IsFiniteSet(s) /\ Cardinality(s) \in 0 .. n
  <2>1. n \in Nat BY FS_CardinalityType
  <2>2. ASSUME NEW s \in SUBSET S PROVE IsFiniteSet(s) /\ Cardinality(s) \in 0 .. n
    <3>1. IsFiniteSet(s) /\ Cardinality(s) <= n BY FS_Subset
    <3>2. Cardinality(s) \in Nat BY <3>1, FS_CardinalityType
    <3> QED BY <2>1, <3>1, <3>2
  <2> QED BY <2>1, <2>2
<1>a. \A s \in SUBSET S : s # {} => One(s) \in s /\ s \ {One(s)} \in SUBSET S /\ Cardinality(s \ {One(s)}) = Cardinality(s) - 1
  <2> SUFFICES ASSUME NEW s \in SUBSET S, s # {}
               PROVE  One(s) \in s /\ s \ {One(s)} \in SUBSET S /\ Cardinality(s \ {One(s)}) = Cardinality(s) - 1
    OBVIOUS
  <2>1. One(s) \in s BY OneIsIn
  <2>2. Cardinality(s \ {One(s)}) = Cardinality(s) - 1 BY <1>1, <2>1, FS_RemoveElement
  <2> QED BY <2>1, <2>2
<1>b. \A s \in SUBSET S : Cardinality(s) = 0 <=> s = {} BY <1>1, FS_EmptySet
<1> HIDE DEF n
<1>2. 0 \in T
  <2> DEFINE g == [s \in D(0) |-> 0]
  <2>1. \A s \in D(0) : s = {} BY <1>1, <1>b
  <2>2. SumsUp(g, D(0), w) BY <2>1 DEF SumsUp
  <2>3. g \in [D(0) -> Nat] OBVIOUS
  <2>4. 0 \in 0 .. n BY <1>1
  <2> HIDE DEF g, D
  <2> QED BY <2>2, <2>3, <2>4
<1>3. ASSUME NEW k \in 0 .. n - 1, k \in T PROVE k + 1 \in T
  <2>1. PICK g \in [D(k) -> Nat] : SumsUp(g, D(k), w) BY <1>3
  <2> DEFINE h == [s \in D(k + 1) |-> IF Cardinality(s) <= k THEN g[s] ELSE w[One(s)] + g[s \ {One(s)}]]
  <2>2. \A s \in D(k + 1) : s \in SUBSET S /\ Cardinality(s) \in Nat /\ (Cardinality(s) <= k => s \in D(k)) BY <1>1
  <2>3. \A s \in D(k + 1) : s # {} => One(s) \in S /\ s \ {One(s)} \in D(k) /\ s \ {One(s)} \in D(k + 1)
    BY <1>1, <1>a
  <2>4. \A s \in D(k + 1) : ~(Cardinality(s) <= k) => s # {} BY <1>1, <1>b
  <2>5. h \in [D(k + 1) -> Nat]
    <3>1. ASSUME NEW s \in D(k + 1)
          PROVE  (IF Cardinality(s) <= k THEN g[s] ELSE w[One(s)] + g[s \ {One(s)}]) \in Nat
      <4>1. CASE Cardinality(s) <= k BY <2>1, <2>2, <4>1
      <4>2. CASE ~(Cardinality(s) <= k)
        <5>1. s # {} BY <2>4, <4>2
        <5>2. w[One(s)] \in Nat /\ g[s \ {One(s)}] \in Nat BY <2>1, <2>3, <5>1
        <5> QED BY <4>2, <5>2
      <4> QED BY <4>1, <4>2
    <3> QED BY <3>1
  <2>6. ASSUME NEW s \in D(k + 1) PROVE h[s] = IF s = {} THEN 0 ELSE w[One(s)] + h[s \ {One(s)}]
    <3>1. CASE s = {}
      <4>1. Cardinality(s) <= k BY <1>1, <1>b, <3>1
      <4>2. h[s] = g[s] BY <4>1
      <4>3. g[s] = 0 BY <2>1, <2>2, <3>1, <4>1 DEF SumsUp
      <4> QED BY <3>1, <4>2, <4>3
    <3>2. CASE s # {}
      <4> DEFINE u == s \ {One(s)}
      <4>1. u \in D(k) /\ u \in D(k + 1) BY <2>3, <3>2
      <4>2. h[u] = g[u] BY <4>1
      <4>3. h[s] = w[One(s)] + g[u]
        <5>1. CASE Cardinality(s) <= k
          <6>1. s \in D(k) /\ h[s] = g[s] BY <2>2, <5>1
          <6> QED BY <2>1, <3>2, <6>1 DEF SumsUp
        <5>2. CASE ~(Cardinality(s) <= k) BY <5>2
        <5> QED BY <5>1, <5>2
      <4> QED BY <3>2, <4>2, <4>3
    <3> QED BY <3>1, <3>2
  <2>7. k + 1 \in 0 .. n BY <1>1
  <2> HIDE DEF h
  <2>8. SumsUp(h, D(k + 1), w) BY <2>6 DEF SumsUp
  <2> QED BY <2>5, <2>7, <2>8
<1> HIDE DEF T
<1>4. \A k \in 0 .. n : k \in T BY <1>1, <1>2, <1>3, AllTheWay
<1>5. n \in T BY <1>1, <1>4
<1>6. D(n) = SUBSET S BY <1>1
<1> QED BY <1>5, <1>6 DEF T

Summing(g, S, w) ==
    IsFiniteSet(S) /\ w \in [S -> Nat] /\ g \in [SUBSET S -> Nat] /\ SumsUp(g, SUBSET S, w)
AnyFirst(g, S, w) == \A s \in SUBSET S : \A x \in s : g[s] = w[x] + g[s \ {x}]

\* Any of the elements may be taken first.
LEMMA SumAdds ==
    ASSUME NEW S, NEW w, NEW g, Summing(g, S, w)
    PROVE  AnyFirst(g, S, w)
<1>0. IsFiniteSet(S) /\ w \in [S -> Nat] /\ g \in [SUBSET S -> Nat] /\ SumsUp(g, SUBSET S, w) BY DEF Summing
<1> DEFINE X == {s \in SUBSET S : \A x \in s : g[s] = w[x] + g[s \ {x}]}
<1>1. {} \in X OBVIOUS
<1>2. ASSUME NEW s \in SUBSET S, s # {}, \A x \in s : s \ {x} \in X PROVE s \in X
  <2> SUFFICES ASSUME NEW x \in s PROVE g[s] = w[x] + g[s \ {x}] OBVIOUS
  <2> DEFINE c == One(s)
  <2>1. c \in s /\ g[s] = w[c] + g[s \ {c}] BY <1>0, <1>2, OneIsIn DEF SumsUp
  <2> HIDE DEF c
  <2>2. CASE x = c BY <2>1, <2>2
  <2>3. CASE x # c
    <3> DEFINE rest == s \ {c, x}
    <3>1. (s \ {c}) \ {x} = rest /\ (s \ {x}) \ {c} = rest /\ rest \in SUBSET S OBVIOUS
    <3>2. x \in s \ {c} /\ c \in s \ {x} BY <2>1, <2>3
    <3>3. g[s \ {c}] = w[x] + g[rest] BY <1>2, <2>1, <3>1, <3>2
    <3>4. g[s \ {x}] = w[c] + g[rest] BY <1>2, <3>1, <3>2
    <3>5. w[x] \in Nat /\ w[c] \in Nat /\ g[rest] \in Nat BY <1>0, <2>1
    <3> HIDE DEF rest
    <3> QED BY <2>1, <3>3, <3>4, <3>5
  <2> QED BY <2>2, <2>3
<1> HIDE DEF X
<1>3. \A s \in SUBSET S : s \in X BY <1>0, <1>1, <1>2, BySize
<1> QED BY <1>3 DEF X, AnyFirst

\* There are only so many backups.
LEMMA IdsFinite == IsFiniteSet(Ids)
BY FS_Interval, BoundsAssumption DEF Ids

\* Every row has a size.
LEMMA SizesAre ==
    ASSUME NEW r \in [Ids -> Row]
    PROVE  \A b \in Ids : r[b].size \in Nat
<1>1. {0} \cup Sizes \subseteq Nat BY BoundsAssumption
<1> QED BY <1>1 DEF Row

\* The bytes of a set of backups: nothing, or those of any one of them and of the rest.
LEMMA BytesAdd ==
    ASSUME NEW r \in [Ids -> Row]
    PROVE  /\ Bytes(r, {}) = 0
           /\ \A s \in SUBSET Ids : Bytes(r, s) \in Nat /\ \A x \in s : Bytes(r, s) = r[x].size + Bytes(r, s \ {x})
<1> DEFINE w == [b \in Ids |-> r[b].size]
<1>1. w \in [Ids -> Nat] BY SizesAre
<1>2. \A b \in Ids : w[b] = r[b].size OBVIOUS
<1> HIDE DEF w
<1>3. PICK g \in [SUBSET Ids -> Nat] : SumsUp(g, SUBSET Ids, w) BY <1>1, IdsFinite, SumExists
<1>4. ASSUME NEW S \in SUBSET Ids PROVE Bytes(r, S) = g[S]
  <2> DEFINE Made(q) == q = [s \in SUBSET S |-> IF s = {} THEN 0 ELSE r[One(s)].size + q[s \ {One(s)}]]
             f == CHOOSE q : Made(q)
             own == [s \in SUBSET S |-> g[s]]
  <2>1. Made(own)
    <3>1. ASSUME NEW s \in SUBSET S
          PROVE  g[s] = IF s = {} THEN 0 ELSE r[One(s)].size + own[s \ {One(s)}]
      <4>1. CASE s = {} BY <1>3, <4>1 DEF SumsUp
      <4>2. CASE s # {}
        <5>1. One(s) \in Ids /\ s \ {One(s)} \in SUBSET S BY <4>2, OneIsIn
        <5>2. g[s] = w[One(s)] + g[s \ {One(s)}] BY <1>3, <4>2 DEF SumsUp
        <5> QED BY <1>2, <4>2, <5>1, <5>2
      <4> QED BY <4>1, <4>2
    <3> QED BY <3>1
  <2>2. Made(f) BY <2>1
  <2>3. Bytes(r, S) = f[S] BY DEF Bytes, MapThenSumSet, MapThenFoldSet, One
  <2> HIDE DEF f
  <2> DEFINE X == {s \in SUBSET S : f[s] = g[s]}
  <2>4. {} \in X BY <1>3, <2>2 DEF SumsUp
  <2>5. ASSUME NEW s \in SUBSET S, s # {}, \A x \in s : s \ {x} \in X PROVE s \in X
    <3>1. One(s) \in s /\ One(s) \in Ids BY <2>5, OneIsIn
    <3>2. f[s] = r[One(s)].size + f[s \ {One(s)}] BY <2>2, <2>5
    <3>3. g[s] = w[One(s)] + g[s \ {One(s)}] BY <1>3, <2>5 DEF SumsUp
    <3>4. f[s \ {One(s)}] = g[s \ {One(s)}] BY <2>5, <3>1
    <3> QED BY <1>2, <3>1, <3>2, <3>3, <3>4
  <2> HIDE DEF X
  <2>6. IsFiniteSet(S) BY IdsFinite, FS_Subset
  <2>7. \A s \in SUBSET S : s \in X BY <2>4, <2>5, <2>6, BySize
  <2> QED BY <2>3, <2>7 DEF X
<1>5. \A s \in SUBSET Ids : \A x \in s : g[s] = w[x] + g[s \ {x}]
  <2>1. Summing(g, Ids, w) BY <1>1, <1>3, IdsFinite DEF Summing
  <2>2. AnyFirst(g, Ids, w) BY <2>1, SumAdds
  <2> QED BY <2>2 DEF AnyFirst
<1>6. g[{}] = 0 BY <1>3 DEF SumsUp
<1>7. ASSUME NEW s \in SUBSET Ids
      PROVE  Bytes(r, s) \in Nat /\ \A x \in s : Bytes(r, s) = r[x].size + Bytes(r, s \ {x})
  <2>1. Bytes(r, s) = g[s] BY <1>4
  <2>2. \A x \in s : Bytes(r, s \ {x}) = g[s \ {x}] BY <1>4
  <2> QED BY <1>2, <1>5, <2>1, <2>2
<1>8. Bytes(r, {}) = 0 BY <1>4, <1>6
<1> QED BY <1>7, <1>8
----------------------------------------------------------------------------
(* How the sizes of two trees compare, and what one step of a file changes. *)

\* Backups that are among others, and no larger, come to no more.
LEMMA NoMore ==
    ASSUME NEW r \in [Ids -> Row], NEW u \in [Ids -> Row], NEW v \in SUBSET Ids, NEW w \in SUBSET Ids,
           \A b \in v : r[b].size # 0 => b \in w /\ r[b].size <= u[b].size
    PROVE  Bytes(r, v) <= Bytes(u, w)
<1> DEFINE In(s, c) == \A b \in s : r[b].size # 0 => b \in c /\ r[b].size <= u[b].size
           X == {s \in SUBSET v : \A c \in SUBSET Ids : In(s, c) => Bytes(r, s) <= Bytes(u, c)}
<1>0. \A b \in Ids : r[b].size \in Nat /\ u[b].size \in Nat BY SizesAre
<1>1. /\ Bytes(r, {}) = 0
      /\ \A s \in SUBSET Ids : Bytes(r, s) \in Nat /\ \A x \in s : Bytes(r, s) = r[x].size + Bytes(r, s \ {x})
      /\ \A s \in SUBSET Ids : Bytes(u, s) \in Nat /\ \A x \in s : Bytes(u, s) = u[x].size + Bytes(u, s \ {x})
  BY BytesAdd
<1>2. {} \in X
  <2>1. \A c \in SUBSET Ids : Bytes(u, c) \in Nat BY <1>1
  <2>2. \A c \in SUBSET Ids : 0 <= Bytes(u, c) BY <2>1
  <2> QED BY <1>1, <2>2
<1>3. ASSUME NEW s \in SUBSET v, s # {}, \A x \in s : s \ {x} \in X PROVE s \in X
  <2> SUFFICES ASSUME NEW c \in SUBSET Ids, In(s, c) PROVE Bytes(r, s) <= Bytes(u, c) OBVIOUS
  <2>1. PICK y \in s : TRUE BY <1>3
  <2> DEFINE rest == s \ {y}
             d == c \ {y}
  <2>2. y \in Ids /\ rest \in X /\ rest \in SUBSET Ids /\ s \in SUBSET Ids /\ d \in SUBSET Ids BY <1>3
  <2>3. Bytes(r, s) = r[y].size + Bytes(r, rest) /\ Bytes(r, rest) \in Nat BY <1>1, <2>1, <2>2
  <2>4. CASE r[y].size = 0
    <3>1. In(rest, c) OBVIOUS
    <3>2. Bytes(r, rest) <= Bytes(u, c) BY <2>2, <3>1
    <3> HIDE DEF rest, d
    <3> QED BY <1>1, <2>2, <2>3, <2>4, <3>2
  <2>5. CASE r[y].size # 0
    <3>1. y \in c /\ r[y].size <= u[y].size BY <2>1, <2>5
    <3>2. In(rest, d) OBVIOUS
    <3>3. Bytes(r, rest) <= Bytes(u, d) BY <2>2, <3>2
    <3>4. Bytes(u, c) = u[y].size + Bytes(u, d) /\ Bytes(u, d) \in Nat BY <1>1, <2>2, <3>1
    <3>5. r[y].size \in Nat /\ u[y].size \in Nat BY <1>0, <2>2
    <3> HIDE DEF rest, d
    <3> QED BY <2>3, <3>1, <3>3, <3>4, <3>5
  <2> QED BY <2>4, <2>5
<1> HIDE DEF X
<1>4. IsFiniteSet(v) BY IdsFinite, FS_Subset
<1>5. \A s \in SUBSET v : s \in X BY <1>2, <1>3, <1>4, BySize
<1>6. v \in X BY <1>5
<1> QED BY <1>6 DEF X

\* Some of the backups and the others come to what all of them do.
LEMMA Apart ==
    ASSUME NEW r \in [Ids -> Row], NEW w \in SUBSET Ids, NEW v \in SUBSET w
    PROVE  Bytes(r, w) = Bytes(r, v) + Bytes(r, w \ v)
<1> DEFINE Rest(s) == w \ s
           X == {s \in SUBSET v : Bytes(r, w) = Bytes(r, s) + Bytes(r, Rest(s))}
<1>1. /\ Bytes(r, {}) = 0
      /\ \A s \in SUBSET Ids : Bytes(r, s) \in Nat /\ \A x \in s : Bytes(r, s) = r[x].size + Bytes(r, s \ {x})
  BY BytesAdd
<1>2. {} \in X
  <2>1. Rest({}) = w /\ Bytes(r, w) \in Nat BY <1>1
  <2> QED BY <1>1, <2>1
<1>3. ASSUME NEW s \in SUBSET v, s # {}, \A x \in s : s \ {x} \in X PROVE s \in X
  <2>1. PICK y \in s : TRUE BY <1>3
  <2> DEFINE less == s \ {y}
  <2>2. y \in Ids /\ s \in SUBSET Ids /\ less \in SUBSET Ids BY <2>1
  <2>3. Rest(less) \in SUBSET Ids /\ y \in Rest(less) /\ Rest(less) \ {y} = Rest(s) /\ Rest(s) \in SUBSET Ids
    BY <2>1
  <2>4. Bytes(r, w) = Bytes(r, less) + Bytes(r, Rest(less)) BY <1>3, <2>1
  <2>5. Bytes(r, s) = r[y].size + Bytes(r, less) BY <1>1, <2>1, <2>2
  <2>6. Bytes(r, Rest(less)) = r[y].size + Bytes(r, Rest(s)) BY <1>1, <2>3
  <2>7. Bytes(r, less) \in Nat /\ Bytes(r, Rest(s)) \in Nat /\ r[y].size \in Nat BY <1>1, <2>2, <2>3, SizesAre
  <2> HIDE DEF less, Rest
  <2>8. Bytes(r, w) = Bytes(r, s) + Bytes(r, Rest(s)) BY <2>4, <2>5, <2>6, <2>7
  <2> QED BY <2>8
<1> HIDE DEF X
<1>4. IsFiniteSet(v) BY IdsFinite, FS_Subset
<1>5. \A s \in SUBSET v : s \in X BY <1>2, <1>3, <1>4, BySize
<1>6. v \in X BY <1>5
<1> QED BY <1>6 DEF X
----------------------------------------------------------------------------
\* What requests and tasks are when there is nothing to do, and the row of a
\* backup that does not exist.
LEMMA Nothing == Idle \in Request /\ NoTask \in Task /\ NoRow \in Row
<1>1. Idle \in Request BY DEF Idle, Request, Op
<1>2. NoTask \in Task
  <2>1. {} \in SUBSET Ids OBVIOUS
  <2> QED BY <2>1 DEF NoTask, Task, Op
<1>3. NoRow \in Row BY DEF NoRow, Row, Op
<1> QED BY <1>1, <1>2, <1>3

\* A request that ends or goes on is a well-formed one.
LEMMA ReqMoves ==
    ASSUME ReqOK, NEW a \in Reqs
    PROVE  /\ Finish(a) => ReqOK'
           /\ \A pc \in ReqPc : Goto(a, pc) => ReqOK'
<1>1. \A pc \in ReqPc : [req[a] EXCEPT !.pc = pc] \in Request BY DEF ReqOK, Request, ReqPc
<1> QED BY <1>1, Nothing DEF ReqOK, Finish, Goto

\* The task goes on, and so do the deletes that wait for its end.
LEMMA TaskMoves ==
    ASSUME ReqOK, task \in Task, NEW pc \in TaskPc, Step(pc) \/ EndTask
    PROVE  ReqOK' /\ task' \in Task
<1>1. CASE Step(pc) BY <1>1 DEF Step, ReqOK, Task, TaskPc
<1>2. CASE EndTask
  <2>1. \A a \in Reqs : [req[a] EXCEPT !.pc = "remove"] \in Request BY DEF ReqOK, Request
  <2> QED BY <1>2, <2>1, Nothing DEF EndTask, ReqOK
<1> QED BY <1>1, <1>2

\* An event is one of those that may happen.
LEMMA EventType ==
    ASSUME events \subseteq Events, NEW kind, Fails(kind) \/ Works
    PROVE  events' \subseteq Events
BY DEF Fails, Works

\* Rows and files keep their types under the changes that are made to them.
LEMMA StoreTypes ==
    ASSUME RowsOK, FilesOK, NEW b
    PROVE  /\ \A s \in {"none", "partial", "whole"} :
                 [files EXCEPT ![b] = s] \in [Ids -> {"none", "partial", "whole"}]
           /\ \A r \in Row : [rows EXCEPT ![b] = r] \in [Ids -> Row]
           /\ \A s \in {"ready", "failed"}, n \in {0} \cup Sizes : SetStatus(b, s, n) \in [Ids -> Row]
<1>1. \A s \in {"none", "partial", "whole"} :
         [files EXCEPT ![b] = s] \in [Ids -> {"none", "partial", "whole"}] BY DEF FilesOK
<1>2. \A r \in Row : [rows EXCEPT ![b] = r] \in [Ids -> Row] BY DEF RowsOK
<1>3. ASSUME NEW s \in {"ready", "failed"}, NEW n \in {0} \cup Sizes PROVE SetStatus(b, s, n) \in [Ids -> Row]
  <2>1. \A r \in Row : [r EXCEPT !.status = s, !.size = n] \in Row BY DEF Row
  <2>2. [rows EXCEPT ![b] = IF rows[b].status = "none" THEN rows[b]
                            ELSE [rows[b] EXCEPT !.status = s, !.size = n]] \in [Ids -> Row]
    <3>1. CASE b \in Ids
      <4>1. rows[b] \in Row BY <3>1 DEF RowsOK
      <4> QED BY <4>1, <2>1, <1>2, <3>1
    <3>2. CASE b \notin Ids BY <3>2 DEF RowsOK
    <3> QED BY <3>1, <3>2
  <2> QED BY <2>2 DEF SetStatus
<1> QED BY <1>1, <1>2, <1>3

\* The Init predicate is well-typed.
LEMMA InitType == Init => TypeOK
<1> SUFFICES ASSUME Init PROVE TypeOK OBVIOUS
<1>1. req \in [Reqs -> Request] /\ task \in Task /\ rows \in [Ids -> Row]
  BY Nothing DEF Init
<1>2. files \in [Ids -> {"none", "partial", "whole"}] BY DEF Init
<1>3. made \in 0 .. MaxBackups BY BoundsAssumption DEF Init
<1> QED BY <1>1, <1>2, <1>3, Zenon DEF Init, TypeOK

\* The steps of a request for a new backup keep the types.
LEMMA CreateType ==
    ASSUME TypeOK, NEW a \in Reqs,
           Ask(a) \/ Check(a) \/ ReadUsage(a) \/ ReadPruned(a) \/ Insert(a) \/ SpawnBackup(a)
    PROVE  TypeOK'
<1>0. ReqOK /\ req[a] \in Request /\ RowsOK /\ FilesOK BY DEF TypeOK, ReqOK, RowsOK, FilesOK
<1>1. CASE Ask(a)
  <2>1. PICK op \in Ops, pc \in {"get", "cancel", "check"} :
           req' = [req EXCEPT ![a] = [Idle EXCEPT !.op = op, !.pc = pc]]
    BY <1>1, Zenon DEF Ask
  <2>2. [Idle EXCEPT !.op = op, !.pc = pc] \in Request
    BY Nothing, OpsAssumption DEF Request, Op
  <2>3. ReqOK' BY <1>0, <2>1, <2>2 DEF ReqOK
  <2> QED BY <1>1, <2>3, Zenon DEF Ask, TypeOK, ReqOK, store
<1>2. CASE Check(a)
  <2>1. ReqOK' BY <1>0, <1>2, ReqMoves DEF Check, ReqPc
  <2>2. [NoTask EXCEPT !.op = "other", !.pc = "end"] \in Task BY Nothing DEF Task, Op, AllOps
  <2>3. task' \in Task BY <1>2, <2>2 DEF Check, Spawn, TypeOK
  <2> QED BY <1>2, <2>1, <2>3, Zenon DEF Check, TypeOK, ReqOK, store
<1>3. CASE ReadUsage(a)
  <2>1. Bytes(rows, Ids) \in Int
    <3>1. Ids \in SUBSET Ids /\ rows \in [Ids -> Row] BY <1>0 DEF RowsOK
    <3>2. Bytes(rows, Ids) \in Nat BY <3>1, BytesAdd
    <3> QED BY <3>2
  <2>2. \A n \in Int, pc \in {"insert", "pruned"} :
           [req[a] EXCEPT !.used = n, !.pc = pc] \in Request
    BY <1>0 DEF Request
  <2>3. ReqOK' BY <1>0, <1>3, <2>1, <2>2, ReqMoves DEF ReadUsage, ReqOK
  <2> QED BY <1>3, <2>3, Zenon DEF ReadUsage, TypeOK, ReqOK, store
<1>4. CASE ReadPruned(a)
  <2>1. ReqOK' BY <1>0, <1>4, ReqMoves DEF ReadPruned, ReqPc
  <2> QED BY <1>4, <2>1, Zenon DEF ReadPruned, TypeOK, ReqOK, store
<1>5. CASE Insert(a)
  <2>1. made + 1 \in Ids /\ made + 1 \in 0 .. MaxBackups BY <1>5, BoundsAssumption DEF Insert, TypeOK, Ids
  <2>2. [req[a] EXCEPT !.pc = "spawn", !.id = made + 1] \in Request BY <1>0, <2>1 DEF Request
  <2>3. ReqOK' BY <1>0, <1>5, <2>2, ReqMoves DEF Insert, ReqOK
  <2>4. made' \in 0 .. MaxBackups BY <1>5, <2>1 DEF Insert, TypeOK
  <2>5. [status |-> "creating", op |-> req[a].op, size |-> 0] \in Row BY <1>0 DEF Row, Request
  <2>6. RowsOK' BY <1>0, <1>5, <2>5, StoreTypes DEF Insert, RowsOK
  <2> QED BY <1>5, <2>3, <2>4, <2>6, Zenon DEF Insert, TypeOK, ReqOK, RowsOK
<1>6. CASE SpawnBackup(a)
  <2>1. ReqOK' BY <1>0, <1>6, ReqMoves DEF SpawnBackup
  <2>2. [NoTask EXCEPT !.op = req[a].op, !.pc = "begin", !.id = req[a].id] \in Task
    BY <1>0, Nothing DEF Task, Request
  <2>3. task' \in Task BY <1>6, <2>2 DEF SpawnBackup, Spawn, TypeOK
  <2> QED BY <1>6, <2>1, <2>3, Zenon DEF SpawnBackup, TypeOK, ReqOK, store
<1> QED BY <1>1, <1>2, <1>3, <1>4, <1>5, <1>6

\* The steps of the requests that delete a backup or the server keep the types.
LEMMA DeleteType ==
    ASSUME TypeOK, NEW a \in Reqs,
           \/ GetBackup(a) \/ UnlinkBackup(a) \/ DropBackup(a)
           \/ CancelTask(a) \/ RemoveServer(a) \/ RemoveFiles(a) \/ Cascade(a)
    PROVE  TypeOK'
<1>0. ReqOK /\ req[a] \in Request /\ RowsOK /\ FilesOK BY DEF TypeOK, ReqOK, RowsOK, FilesOK
<1>1. CASE GetBackup(a)
  <2>1. \A b \in Ids : [req[a] EXCEPT !.pc = "unlink", !.id = b] \in Request BY <1>0 DEF Request
  <2>2. ReqOK' BY <1>0, <1>1, <2>1, ReqMoves DEF GetBackup, ReqOK
  <2> QED BY <1>1, <2>2, Zenon DEF GetBackup, TypeOK, ReqOK, store
<1>2. CASE UnlinkBackup(a)
  <2>1. ReqOK' BY <1>0, <1>2, ReqMoves DEF UnlinkBackup, ReqPc
  <2>2. FilesOK' BY <1>0, <1>2, StoreTypes DEF UnlinkBackup, FilesOK
  <2> QED BY <1>2, <2>1, <2>2, Zenon DEF UnlinkBackup, TypeOK, ReqOK, FilesOK
<1>3. CASE DropBackup(a)
  <2>1. ReqOK' BY <1>0, <1>3, ReqMoves DEF DropBackup
  <2>2. RowsOK' BY <1>0, <1>3, Nothing, StoreTypes DEF DropBackup, RowsOK
  <2> QED BY <1>3, <2>1, <2>2, Zenon DEF DropBackup, TypeOK, ReqOK, RowsOK
<1>4. CASE CancelTask(a)
  <2>1. ReqOK' BY <1>0, <1>4, ReqMoves DEF CancelTask, ReqPc
  <2>3. task' \in Task BY <1>4 DEF CancelTask, TypeOK, Task
  <2> QED BY <1>4, <2>1, <2>3, Zenon DEF CancelTask, TypeOK, ReqOK, store
<1>5. CASE RemoveServer(a)
  <2>1. ReqOK' BY <1>0, <1>5, ReqMoves DEF RemoveServer, ReqPc
  <2>2. events' \subseteq Events BY <1>5, EventType DEF RemoveServer, TypeOK
  <2> QED BY <1>5, <2>1, <2>2, Zenon DEF RemoveServer, TypeOK, ReqOK, store
<1>6. CASE RemoveFiles(a)
  <2>1. ReqOK' BY <1>0, <1>6, ReqMoves DEF RemoveFiles, ReqPc
  <2>2. FilesOK' BY <1>6 DEF RemoveFiles, FilesOK
  <2> QED BY <1>6, <2>1, <2>2, Zenon DEF RemoveFiles, TypeOK, ReqOK, FilesOK
<1>7. CASE Cascade(a)
  <2>1. ReqOK' BY <1>0, <1>7, ReqMoves DEF Cascade
  <2>2. RowsOK' BY <1>7, Nothing DEF Cascade, RowsOK
  <2>3. server' \in BOOLEAN BY <1>7, Zenon DEF Cascade
  <2> QED BY <1>7, <2>1, <2>2, <2>3, Zenon DEF Cascade, TypeOK, ReqOK, RowsOK
<1> QED BY <1>1, <1>2, <1>3, <1>4, <1>5, <1>6, <1>7

\* The steps that make the archive keep the types.
LEMMA ArchiveType ==
    ASSUME TypeOK, Begin \/ Before \/ Wait \/ Open \/ Archive \/ After
    PROVE  TypeOK'
<1>0. ReqOK /\ RowsOK /\ FilesOK /\ task \in Task BY DEF TypeOK, ReqOK, RowsOK, FilesOK
<1>1. CASE Begin
  <2>1. [task EXCEPT !.running = TRUE, !.pc = "before"] \in Task BY <1>0 DEF Task
  <2>2. ReqOK' /\ task' \in Task BY <1>0, <1>1, <2>1, TaskMoves DEF Begin, TaskPc, ReqOK
  <2> QED BY <1>1, <2>2, Zenon DEF Begin, TypeOK, ReqOK, store
<1>2. CASE Before
  <2>1. ReqOK' /\ task' \in Task BY <1>0, <1>2, TaskMoves DEF Before, TaskPc
  <2>2. events' \subseteq Events BY <1>2, EventType DEF Before, TypeOK
  <2>3. saves' \in BOOLEAN BY <1>2, Zenon DEF Before, TypeOK
  <2> QED BY <1>2, <2>1, <2>2, <2>3, Zenon DEF Before, TypeOK, ReqOK, store
<1>3. CASE Wait
  <2>1. ReqOK' /\ task' \in Task BY <1>0, <1>3, TaskMoves DEF Wait, TaskPc
  <2> QED BY <1>3, <2>1, Zenon DEF Wait, TypeOK, ReqOK, store
<1>4. CASE Open
  <2>1. ReqOK' /\ task' \in Task BY <1>0, <1>4, TaskMoves DEF Open, TaskPc
  <2>2. events' \subseteq Events BY <1>4, EventType DEF Open, TypeOK
  <2>3. FilesOK' BY <1>0, <1>4, StoreTypes DEF Open, FilesOK
  <2> QED BY <1>4, <2>1, <2>2, <2>3, Zenon DEF Open, TypeOK, ReqOK, FilesOK
<1>5. CASE Archive
  <2>1. \A pc \in TaskPc : [task EXCEPT !.ok = TRUE, !.pc = pc] \in Task BY <1>0 DEF Task, TaskPc
  <2>2. ReqOK' /\ task' \in Task BY <1>0, <1>5, <2>1, TaskMoves DEF Archive, TaskPc, ReqOK
  <2>3. events' \subseteq Events BY <1>5, EventType DEF Archive, TypeOK
  <2>4. FilesOK' BY <1>0, <1>5, StoreTypes DEF Archive, FilesOK
  <2> QED BY <1>5, <2>2, <2>3, <2>4, Zenon DEF Archive, TypeOK, ReqOK, FilesOK
<1>6. CASE After
  <2>1. ReqOK' /\ task' \in Task BY <1>0, <1>6, TaskMoves DEF After, TaskPc
  <2>2. events' \subseteq Events BY <1>6, EventType DEF After, TypeOK
  <2>3. saves' \in BOOLEAN BY <1>6, Zenon DEF After, TypeOK
  <2> QED BY <1>6, <2>1, <2>2, <2>3, Zenon DEF After, TypeOK, ReqOK, store
<1> QED BY <1>1, <1>2, <1>3, <1>4, <1>5, <1>6

\* The steps that settle a backup keep the types.
LEMMA SettleType ==
    ASSUME TypeOK,
           \/ FinishBackup \/ PruneSelect \/ PruneFile \/ PruneCommit \/ End
           \/ FailUnlink \/ FailRow \/ Cancelled \/ CancelledFails
    PROVE  TypeOK'
<1>0. ReqOK /\ RowsOK /\ FilesOK /\ task \in Task BY DEF TypeOK, ReqOK, RowsOK, FilesOK
<1>1. CASE FinishBackup
  <2>1. ReqOK' /\ task' \in Task BY <1>0, <1>1, TaskMoves DEF FinishBackup, TaskPc
  <2>2. PICK size \in Sizes : rows' = SetStatus(task.id, "ready", size) BY <1>1, Zenon DEF FinishBackup
  <2>3. RowsOK' BY <1>0, <2>2, StoreTypes DEF RowsOK
  <2> QED BY <1>1, <2>1, <2>3, Zenon DEF FinishBackup, TypeOK, ReqOK, RowsOK
<1>2. CASE PruneSelect
  <2>1. Beyond(Keep) \in SUBSET Ids BY DEF Beyond, Scheduled
  <2>2. \A olds \in SUBSET Ids : [task EXCEPT !.olds = olds, !.left = olds, !.pc = "prune"] \in Task
    BY <1>0 DEF Task
  <2>3. task' \in Task BY <1>2, <2>1, <2>2, Zenon DEF PruneSelect
  <2> QED BY <1>2, <2>3, Zenon DEF PruneSelect, TypeOK, store
<1>3. CASE PruneFile
  <2>1. PICK newest : \/ /\ files' = [files EXCEPT ![newest] = "none"]
                         /\ task' = [task EXCEPT !.left = @ \ {newest}] /\ UNCHANGED req
                      \/ Step("fail") /\ UNCHANGED files
    BY <1>3, Zenon DEF PruneFile
  <2>2. [task EXCEPT !.left = @ \ {newest}] \in Task BY <1>0 DEF Task
  <2>3. ReqOK' /\ task' \in Task BY <1>0, <2>1, <2>2, TaskMoves DEF TaskPc, ReqOK
  <2>4. FilesOK' BY <1>0, <2>1, StoreTypes DEF FilesOK
  <2>5. events' \subseteq Events BY <1>3, EventType DEF PruneFile, TypeOK
  <2> QED BY <1>3, <2>3, <2>4, <2>5, Zenon DEF PruneFile, TypeOK, ReqOK, FilesOK
<1>4. CASE PruneCommit
  <2>1. ReqOK' /\ task' \in Task BY <1>0, <1>4, TaskMoves DEF PruneCommit, TaskPc
  <2>2. RowsOK' BY <1>0, <1>4, Nothing DEF PruneCommit, RowsOK
  <2>3. events' \subseteq Events BY <1>4, EventType DEF PruneCommit, TypeOK
  <2> QED BY <1>4, <2>1, <2>2, <2>3, Zenon DEF PruneCommit, TypeOK, ReqOK, RowsOK
<1>5. CASE End
  <2>1. ReqOK' /\ task' \in Task BY <1>0, <1>5, TaskMoves DEF End, TaskPc
  <2> QED BY <1>5, <2>1, Zenon DEF End, TypeOK, ReqOK, store
<1>6. CASE FailUnlink
  <2>1. ReqOK' /\ task' \in Task BY <1>0, <1>6, TaskMoves DEF FailUnlink, TaskPc
  <2>2. FilesOK' BY <1>0, <1>6, StoreTypes DEF FailUnlink, FilesOK
  <2> QED BY <1>6, <2>1, <2>2, Zenon DEF FailUnlink, TypeOK, ReqOK, FilesOK
<1>7. CASE FailRow
  <2>1. ReqOK' /\ task' \in Task BY <1>0, <1>7, TaskMoves DEF FailRow, TaskPc
  <2>2. RowsOK'
    <3>1. CASE task.id \in Ids
      <4>1. rows[task.id].size \in {0} \cup Sizes BY <1>0, <3>1 DEF RowsOK, Row
      <4> QED BY <1>0, <1>7, <4>1, StoreTypes DEF FailRow, RowsOK
    <3>2. CASE task.id \notin Ids
      <4>1. rows' = rows BY <1>0, <1>7, <3>2 DEF FailRow, SetStatus, RowsOK
      <4> QED BY <1>0, <4>1 DEF RowsOK
    <3> QED BY <3>1, <3>2
  <2> QED BY <1>7, <2>1, <2>2, Zenon DEF FailRow, TypeOK, ReqOK, RowsOK
<1>8. CASE Cancelled
  <2>1. ReqOK' /\ task' \in Task BY <1>0, <1>8, TaskMoves DEF Cancelled, TaskPc
  <2>2. FilesOK' BY <1>0, <1>8, StoreTypes DEF Cancelled, Interrupted, FilesOK
  <2>3. saves' \in BOOLEAN BY <1>8, Zenon DEF Cancelled, Interrupted, TypeOK
  <2> QED BY <1>8, <2>1, <2>2, <2>3, Zenon DEF Cancelled, TypeOK, ReqOK, FilesOK
<1>9. CASE CancelledFails
  <2>1. task' \in Task BY <1>0, <1>9 DEF CancelledFails, Task
  <2>2. events' \subseteq Events BY <1>9, EventType DEF CancelledFails, TypeOK
  <2> QED BY <1>9, <2>1, <2>2, Zenon DEF CancelledFails, TypeOK, store
<1> QED BY <1>1, <1>2, <1>3, <1>4, <1>5, <1>6, <1>7, <1>8, <1>9

\* What happens around the panel keeps the types.
LEMMA AroundType ==
    ASSUME TypeOK, PanelDies \/ Shutdown \/ Recover
    PROVE  TypeOK'
<1>0. ReqOK /\ RowsOK /\ FilesOK /\ task \in Task BY DEF TypeOK, ReqOK, RowsOK, FilesOK
<1>1. ASSUME Down PROVE ReqOK' /\ task' \in Task /\ up' \in BOOLEAN
  <2>1. ReqOK' /\ task' \in Task BY <1>1, Nothing DEF Down, ReqOK
  <2>2. up' \in BOOLEAN BY <1>1, Zenon DEF Down
  <2> QED BY <2>1, <2>2
<1>2. CASE PanelDies
  <2>1. events' \subseteq Events BY <1>2, EventType DEF PanelDies, TypeOK
  <2> QED BY <1>1, <1>2, <2>1, Zenon DEF PanelDies, TypeOK, ReqOK, store
<1>3. CASE Shutdown
  <2>1. events' \subseteq Events BY <1>3, EventType DEF Shutdown, TypeOK
  <2>2. FilesOK' BY <1>0, <1>3, StoreTypes DEF Shutdown, Interrupted, FilesOK
  <2>3. saves' \in BOOLEAN BY <1>3, Zenon DEF Shutdown, Interrupted, TypeOK
  <2> QED BY <1>1, <1>3, <2>1, <2>2, <2>3, Zenon DEF Shutdown, TypeOK, ReqOK, FilesOK
<1>4. CASE Recover
  <2>1. \A r \in Row : [r EXCEPT !.status = "failed"] \in Row BY DEF Row
  <2>2. RowsOK' BY <1>0, <1>4, <2>1 DEF Recover, RowsOK
  <2>3. FilesOK' BY <1>0, <1>4 DEF Recover, FilesOK
  <2>4. up' \in BOOLEAN BY <1>4, Zenon DEF Recover
  <2> QED BY <1>4, <2>2, <2>3, <2>4, Zenon DEF Recover, TypeOK, RowsOK, FilesOK
<1> QED BY <1>2, <1>3, <1>4

\* Every variable keeps its type.
THEOREM TypeCorrect == Spec => []TypeOK
<1>1. TypeOK /\ [Next]_vars => TypeOK'
  <2> SUFFICES ASSUME TypeOK, [Next]_vars PROVE TypeOK' OBVIOUS
  <2>1. ASSUME NEW a \in Reqs, Ask(a) \/ Serve(a) PROVE TypeOK'
    BY <2>1, CreateType, DeleteType, Zenon DEF Serve
  <2>2. CASE Run BY <2>2, ArchiveType, SettleType, Zenon DEF Run
  <2>3. CASE PanelDies \/ Shutdown \/ Recover BY <2>3, AroundType
  <2>4. CASE UNCHANGED vars BY <2>4, Zenon DEF vars, TypeOK
  <2> QED BY <2>1, <2>2, <2>3, <2>4, Zenon DEF Next
<1> QED BY <1>1, InitType, PTL DEF Spec
----------------------------------------------------------------------------
\* A task before and while it writes the archive, and one that has written it.
Early == {"begin", "before", "wait", "open", "archive"}
HasArchive == task.pc = "finish" \/ (task.pc = "after" /\ task.ok = TRUE)

\* A row that waits for its task is not ready, and nobody else works on it.
RowsWait ==
    \A a \in Reqs : req[a].pc = "spawn" =>
        /\ req[a].id \in 1 .. made /\ rows[req[a].id].status # "ready" /\ task.id # req[a].id
        /\ \A c \in Reqs \ {a} : req[c].pc = "spawn" => req[c].id # req[a].id

\* What NeverCutOff needs to be inductive: only a whole archive is ever called
\* ready, and only one that is not ready is ever written.
CutOffInv ==
    /\ task.id \in 0 .. made
    /\ RowsWait
    /\ task.pc \in Early => task.id \in 1 .. made /\ rows[task.id].status # "ready" /\ task.ok = FALSE
    /\ HasArchive => task.id \in 1 .. made /\ files[task.id] # "partial"
    /\ NeverCutOff

\* A step that makes nothing ready, writes no archive and spawns nothing.
Harmless ==
    /\ made' = made
    /\ \A a \in Reqs : req'[a].pc = "spawn" => req'[a] = req[a]
    /\ \A b \in Ids : rows'[b].status = "ready" => rows[b].status = "ready"
    /\ \A b \in Ids : files'[b] = "partial" => files[b] = "partial"
    /\ task'.id \in {task.id, 0}
    /\ task'.pc \in Early => task.pc \in Early /\ task'.id = task.id /\ task'.ok = task.ok
    /\ HasArchive' => HasArchive /\ task'.id = task.id

\* Such a step keeps the invariant.
LEMMA HarmlessKeeps ==
    ASSUME TypeOK, CutOffInv, Harmless
    PROVE  CutOffInv'
<1>0. made \in Nat /\ made <= MaxBackups /\ 1 .. made \subseteq Ids
  BY BoundsAssumption DEF TypeOK, Ids
<1>1. (task.id \in 0 .. made)' BY <1>0 DEF CutOffInv, Harmless
<1>2. RowsWait' BY <1>0 DEF CutOffInv, Harmless, RowsWait
<1>3. (task.pc \in Early)' =>
         (task.id \in 1 .. made)' /\ (rows[task.id].status # "ready")' /\ (task.ok = FALSE)'
  BY <1>0 DEF CutOffInv, Harmless
<1>4. HasArchive' => (task.id \in 1 .. made)' /\ (files[task.id] # "partial")'
  BY <1>0 DEF CutOffInv, Harmless
<1>5. NeverCutOff' BY DEF CutOffInv, Harmless, NeverCutOff
<1> QED BY <1>1, <1>2, <1>3, <1>4, <1>5 DEF CutOffInv

\* A request that does not spawn, and a task that does not finish, change
\* nothing of what matters.
LEMMA ServeHarmless ==
    ASSUME TypeOK, CutOffInv, NEW a \in Reqs,
           \/ Ask(a) \/ Check(a) \/ ReadUsage(a) \/ ReadPruned(a)
           \/ GetBackup(a) \/ UnlinkBackup(a) \/ DropBackup(a)
           \/ CancelTask(a) \/ RemoveServer(a) \/ RemoveFiles(a) \/ Cascade(a)
    PROVE  Harmless
<1>0. ReqOK /\ RowsOK /\ FilesOK /\ task \in Task BY DEF TypeOK, ReqOK, RowsOK, FilesOK
<1>1. made' = made BY Zenon DEF Ask, Check, ReadUsage, ReadPruned, GetBackup, UnlinkBackup, DropBackup,
                      CancelTask, RemoveServer, RemoveFiles, Cascade, store
<1>2. \A b \in Reqs : req'[b].pc = "spawn" => req'[b] = req[b]
  <2>1. \A pc \in ReqPc \ {"spawn"} : Goto(a, pc) =>
           \A b \in Reqs : req'[b].pc = "spawn" => req'[b] = req[b]
    BY <1>0 DEF Goto, ReqOK, Request
  <2>2. Finish(a) => \A b \in Reqs : req'[b].pc = "spawn" => req'[b] = req[b]
    BY <1>0 DEF Finish, Idle, ReqOK
  <2>3. CASE Ask(a)
    <3>1. PICK op \in Ops, pc \in {"get", "cancel", "check"} :
             req' = [req EXCEPT ![a] = [Idle EXCEPT !.op = op, !.pc = pc]]
      BY <2>3, Zenon DEF Ask
    <3> QED BY <1>0, <3>1 DEF ReqOK, Idle
  <2>4. CASE ReadUsage(a) BY <1>0, <2>2, <2>4 DEF ReadUsage, ReqOK, Request
  <2>5. CASE GetBackup(a) BY <1>0, <2>2, <2>5 DEF GetBackup, ReqOK, Request
  <2>6. CASE Check(a) \/ ReadPruned(a) BY <2>1, <2>2, <2>6 DEF Check, ReadPruned, ReqPc
  <2>7. CASE UnlinkBackup(a) \/ DropBackup(a) BY <2>1, <2>2, <2>7 DEF UnlinkBackup, DropBackup, ReqPc
  <2>8. CASE CancelTask(a) \/ RemoveServer(a) \/ RemoveFiles(a) \/ Cascade(a)
    BY <2>1, <2>2, <2>8 DEF CancelTask, RemoveServer, RemoveFiles, Cascade, ReqPc
  <2> QED BY <2>3, <2>4, <2>5, <2>6, <2>7, <2>8
<1>3. \A b \in Ids : rows'[b].status = "ready" => rows[b].status = "ready"
  <2>1. CASE DropBackup(a) BY <1>0, <2>1 DEF DropBackup, RowsOK, NoRow
  <2>2. CASE Cascade(a) BY <2>2 DEF Cascade, NoRow
  <2>3. CASE rows' = rows BY <2>3
  <2> QED BY <2>1, <2>2, <2>3, Zenon DEF Ask, Check, ReadUsage, ReadPruned, GetBackup, UnlinkBackup,
          CancelTask, RemoveServer, RemoveFiles, store
<1>4. \A b \in Ids : files'[b] = "partial" => files[b] = "partial"
  <2>1. CASE UnlinkBackup(a) BY <1>0, <2>1 DEF UnlinkBackup, FilesOK
  <2>2. CASE RemoveFiles(a) BY <2>2 DEF RemoveFiles
  <2>3. CASE files' = files BY <2>3
  <2> QED BY <2>1, <2>2, <2>3, Zenon DEF Ask, Check, ReadUsage, ReadPruned, GetBackup, DropBackup,
          CancelTask, RemoveServer, Cascade, store
<1>5. \/ task' = task
      \/ task' = [task EXCEPT !.cancelled = TRUE]
      \/ task' = [NoTask EXCEPT !.op = "other", !.pc = "end"]
  BY Zenon DEF Ask, Check, Spawn, ReadUsage, ReadPruned, GetBackup, UnlinkBackup, DropBackup,
     CancelTask, RemoveServer, RemoveFiles, Cascade, store
<1>6. /\ task'.id \in {task.id, 0}
      /\ task'.pc \in Early => task.pc \in Early /\ task'.id = task.id /\ task'.ok = task.ok
      /\ HasArchive' => HasArchive /\ task'.id = task.id
  BY <1>0, <1>5 DEF Task, NoTask, Early, HasArchive
<1> QED BY <1>1, <1>2, <1>3, <1>4, <1>6 DEF Harmless

\* The task's own steps change nothing of what matters, except the three that
\* write the archive or call it ready.
LEMMA RunHarmless ==
    ASSUME TypeOK, CutOffInv,
           \/ Begin \/ Before \/ Wait \/ After
           \/ PruneSelect \/ PruneFile \/ PruneCommit \/ End
           \/ FailUnlink \/ FailRow \/ Cancelled \/ CancelledFails
    PROVE  Harmless
<1>0. ReqOK /\ RowsOK /\ FilesOK /\ task \in Task BY DEF TypeOK, ReqOK, RowsOK, FilesOK
<1>1. made' = made BY Zenon DEF Begin, Before, Wait, After, PruneSelect, PruneFile, PruneCommit, End,
                      FailUnlink, FailRow, Cancelled, CancelledFails, store
<1>2. \A b \in Reqs : req'[b].pc = "spawn" => req'[b] = req[b]
  <2>1. req' = req \/ EndTask
    BY Zenon DEF Begin, Before, Wait, After, PruneSelect, PruneFile, PruneCommit, End,
       FailUnlink, FailRow, Cancelled, CancelledFails, Step
  <2> QED BY <1>0, <2>1 DEF EndTask, ReqOK, Request
<1>3. \A b \in Ids : rows'[b].status = "ready" => rows[b].status = "ready"
  <2>1. CASE PruneCommit BY <2>1 DEF PruneCommit, NoRow
  <2>2. CASE FailRow BY <1>0, <2>2 DEF FailRow, SetStatus, RowsOK, Row
  <2>3. CASE rows' = rows BY <2>3
  <2> QED BY <2>1, <2>2, <2>3, Zenon DEF Begin, Before, Wait, After, PruneSelect, PruneFile, End,
          FailUnlink, Cancelled, CancelledFails, store
<1>4. \A b \in Ids : files'[b] = "partial" => files[b] = "partial"
  <2>1. CASE PruneFile BY <1>0, <2>1 DEF PruneFile, FilesOK
  <2>2. CASE FailUnlink BY <1>0, <2>2 DEF FailUnlink, FilesOK
  <2>3. CASE Cancelled BY <1>0, <2>3 DEF Cancelled, Interrupted, FilesOK
  <2>4. CASE files' = files BY <2>4
  <2> QED BY <2>1, <2>2, <2>3, <2>4, Zenon DEF Begin, Before, Wait, After, PruneSelect, PruneCommit, End,
          FailRow, CancelledFails, store
<1>5. /\ task'.id \in {task.id, 0}
      /\ task'.pc \in Early => task.pc \in Early /\ task'.id = task.id /\ task'.ok = task.ok
      /\ HasArchive' => HasArchive /\ task'.id = task.id
  <2>1. CASE Begin BY <1>0, <2>1 DEF Begin, At, Step, Task, Early, HasArchive
  <2>2. CASE Before \/ Wait BY <1>0, <2>2 DEF Before, Wait, At, Step, Task, Early, HasArchive
  <2>3. CASE After BY <1>0, <2>3 DEF After, At, Step, Task, Early, HasArchive
  <2>4. CASE PruneSelect BY <1>0, <2>4 DEF PruneSelect, Task, Early, HasArchive
  <2>5. CASE PruneFile
    <3>1. PICK newest : task' = [task EXCEPT !.left = @ \ {newest}] \/ Step("fail")
      BY <2>5, Zenon DEF PruneFile
    <3> QED BY <1>0, <3>1 DEF Step, Task, Early, HasArchive
  <2>6. CASE PruneCommit \/ FailUnlink \/ FailRow
    BY <1>0, <2>6 DEF PruneCommit, FailUnlink, FailRow, Step, Task, Early, HasArchive
  <2>7. CASE End \/ Cancelled
    <3>1. task' = NoTask BY <2>7, Zenon DEF End, Cancelled, EndTask
    <3> QED BY <3>1 DEF NoTask, Early, HasArchive
  <2>8. CASE CancelledFails BY <1>0, <2>8 DEF CancelledFails, Task, Early, HasArchive
  <2> QED BY <2>1, <2>2, <2>3, <2>4, <2>5, <2>6, <2>7, <2>8
<1> QED BY <1>1, <1>2, <1>3, <1>4, <1>5 DEF Harmless

\* Nor does anything around the panel.
LEMMA AroundHarmless ==
    ASSUME TypeOK, CutOffInv, PanelDies \/ Shutdown \/ Recover
    PROVE  Harmless
<1>0. ReqOK /\ RowsOK /\ FilesOK /\ task \in Task BY DEF TypeOK, ReqOK, RowsOK, FilesOK
<1>1. made' = made BY Zenon DEF PanelDies, Shutdown, Recover, store
<1>2. \A b \in Reqs : req'[b].pc = "spawn" => req'[b] = req[b]
  <2>1. CASE Down BY <2>1 DEF Down, Idle
  <2>2. CASE req' = req BY <2>2
  <2> QED BY <2>1, <2>2, Zenon DEF PanelDies, Shutdown, Recover
<1>3. \A b \in Ids : rows'[b].status = "ready" => rows[b].status = "ready"
  <2>1. CASE Recover BY <1>0, <2>1 DEF Recover, RowsOK, Row
  <2>2. CASE rows' = rows BY <2>2
  <2> QED BY <2>1, <2>2, Zenon DEF PanelDies, Shutdown, store
<1>4. \A b \in Ids : files'[b] = "partial" => files[b] = "partial"
  <2>1. CASE Recover BY <2>1 DEF Recover
  <2>2. CASE Shutdown BY <1>0, <2>2 DEF Shutdown, Interrupted, FilesOK
  <2>3. CASE PanelDies BY <2>3 DEF PanelDies, store
  <2> QED BY <2>1, <2>2, <2>3
<1>5. task' = task \/ task' = NoTask BY Zenon DEF PanelDies, Shutdown, Recover, Down
<1>6. /\ task'.id \in {task.id, 0}
      /\ task'.pc \in Early => task.pc \in Early /\ task'.id = task.id /\ task'.ok = task.ok
      /\ HasArchive' => HasArchive /\ task'.id = task.id
  BY <1>0, <1>5 DEF NoTask, Early, HasArchive
<1> QED BY <1>1, <1>2, <1>3, <1>4, <1>6 DEF Harmless

\* A new row has an id that neither the task nor any other request has.
LEMMA InsertKeeps ==
    ASSUME TypeOK, CutOffInv, NEW a \in Reqs, Insert(a)
    PROVE  CutOffInv'
<1>0. ReqOK /\ RowsOK /\ FilesOK /\ task \in Task /\ made \in Nat
  BY BoundsAssumption DEF TypeOK, ReqOK, RowsOK, FilesOK
<1>1. CASE ~server
  <2>1. Harmless BY <1>0, <1>1 DEF Insert, Finish, Idle, ReqOK, Harmless, HasArchive
  <2> QED BY <2>1, HarmlessKeeps
<1>2. CASE server
  <2>1. /\ made' = made + 1 /\ made + 1 \in Ids /\ 1 .. made \subseteq Ids
        /\ task' = task /\ files' = files
    BY <1>0, <1>2, BoundsAssumption DEF Insert, Ids
  <2>2. rows' = [rows EXCEPT ![made + 1] = [status |-> "creating", op |-> req[a].op, size |-> 0]]
    BY <1>2 DEF Insert
  <2>3. \A b \in Ids : rows'[b].status = "ready" => b # made + 1 /\ rows[b].status = "ready"
    BY <1>0, <2>2 DEF RowsOK
  <2>4. /\ req'[a].pc = "spawn" /\ req'[a].id = made + 1
        /\ \A c \in Reqs \ {a} : req'[c] = req[c]
    BY <1>0, <1>2 DEF Insert, ReqOK, Request
  <2>5. rows'[made + 1].status # "ready" BY <2>1, <2>3
  <2>6. RowsWait'
    <3> SUFFICES ASSUME NEW b \in Reqs, req'[b].pc = "spawn"
                 PROVE  /\ req'[b].id \in 1 .. made' /\ rows'[req'[b].id].status # "ready"
                        /\ task'.id # req'[b].id
                        /\ \A c \in Reqs \ {b} : req'[c].pc = "spawn" => req'[c].id # req'[b].id
      BY DEF RowsWait
    <3>1. CASE b = a BY <1>0, <2>1, <2>4, <2>5, <3>1 DEF CutOffInv, RowsWait
    <3>2. CASE b # a
      <4>1. req[b].pc = "spawn" /\ req'[b] = req[b] BY <2>4, <3>2
      <4>2. req[b].id \in 1 .. made /\ rows[req[b].id].status # "ready" /\ task.id # req[b].id
        BY <4>1 DEF CutOffInv, RowsWait
      <4>3. \A c \in Reqs \ {b} : req'[c].pc = "spawn" => req'[c].id # req[b].id
        BY <1>0, <2>4, <4>1, <4>2 DEF CutOffInv, RowsWait
      <4> QED BY <1>0, <2>1, <2>3, <4>1, <4>2, <4>3
    <3> QED BY <3>1, <3>2
  <2>7. (task.pc \in Early)' =>
           (task.id \in 1 .. made)' /\ (rows[task.id].status # "ready")' /\ (task.ok = FALSE)'
    BY <1>0, <2>1, <2>3 DEF CutOffInv
  <2>8. HasArchive' => (task.id \in 1 .. made)' /\ (files[task.id] # "partial")'
    BY <1>0, <2>1 DEF CutOffInv, HasArchive
  <2>9. NeverCutOff' BY <2>1, <2>3 DEF CutOffInv, NeverCutOff
  <2>10. (task.id \in 0 .. made)' BY <1>0, <2>1 DEF CutOffInv
  <2> QED BY <2>6, <2>7, <2>8, <2>9, <2>10 DEF CutOffInv
<1> QED BY <1>1, <1>2

\* The task takes over a row that only its request knew of.
LEMMA SpawnKeeps ==
    ASSUME TypeOK, CutOffInv, NEW a \in Reqs, SpawnBackup(a)
    PROVE  CutOffInv'
<1>0. ReqOK /\ RowsOK /\ FilesOK /\ task \in Task /\ made \in Nat
  BY BoundsAssumption DEF TypeOK, ReqOK, RowsOK, FilesOK
<1>1. made' = made /\ rows' = rows /\ files' = files BY Zenon DEF SpawnBackup, store
<1>2. req'[a].pc = "idle" /\ \A c \in Reqs \ {a} : req'[c] = req[c]
  BY <1>0 DEF SpawnBackup, Finish, Idle, ReqOK
<1>3. CASE task' = task
  <2>1. Harmless BY <1>1, <1>2, <1>3 DEF Harmless, HasArchive
  <2> QED BY <2>1, HarmlessKeeps
<1>4. CASE task' = [NoTask EXCEPT !.op = req[a].op, !.pc = "begin", !.id = req[a].id]
  <2>1. task'.id = req[a].id /\ task'.pc = "begin" /\ task'.ok = FALSE BY <1>4 DEF NoTask
  <2>2. req[a].id \in 1 .. made /\ rows[req[a].id].status # "ready"
    BY DEF SpawnBackup, CutOffInv, RowsWait
  <2>3. RowsWait' BY <1>1, <1>2, <2>1 DEF SpawnBackup, CutOffInv, RowsWait
  <2>4. HasArchive' = FALSE BY <2>1 DEF HasArchive
  <2>5. NeverCutOff' BY <1>1 DEF CutOffInv, NeverCutOff
  <2> QED BY <1>0, <1>1, <2>1, <2>2, <2>3, <2>4, <2>5 DEF CutOffInv
<1> QED BY <1>3, <1>4, Zenon DEF SpawnBackup, Spawn

\* What is written is the archive of a backup that is not ready; and when it
\* ends well, it is whole.
LEMMA WriteKeeps ==
    ASSUME TypeOK, CutOffInv, Open \/ Archive
    PROVE  CutOffInv'
<1>0. ReqOK /\ RowsOK /\ FilesOK /\ task \in Task /\ made \in Nat /\ 1 .. made \subseteq Ids
  BY BoundsAssumption DEF TypeOK, ReqOK, RowsOK, FilesOK, Ids
<1>1. made' = made /\ rows' = rows /\ req' = req BY Zenon DEF Open, Archive, Step
<1>2. task.pc \in {"open", "archive"} BY DEF Open, Archive, At
<1>3. task.id \in 1 .. made /\ rows[task.id].status # "ready" /\ task.ok = FALSE
  BY <1>2 DEF CutOffInv, Early
<1>4. task'.id = task.id BY <1>0 DEF Open, Archive, Step, Task
<1>5. \A b \in Ids : b # task.id => files'[b] = files[b] BY <1>0 DEF Open, Archive, FilesOK
<1>6. task'.pc \in Early => task'.ok = FALSE BY <1>0, <1>3 DEF Open, Archive, Step, Task, Early
<1>7. HasArchive' => files'[task.id] # "partial"
  <2>1. CASE Open BY <1>0, <1>3, <2>1 DEF Open, Step, Task, HasArchive
  <2>2. CASE Archive /\ Works BY <1>0, <1>3, <2>2 DEF Archive, FilesOK, Works, Fails
  <2>3. CASE Archive /\ Step(IF task.running THEN "after" ELSE "fail")
    BY <1>0, <1>3, <2>3 DEF Step, Task, HasArchive
  <2> QED BY <2>1, <2>2, <2>3, Zenon DEF Archive
<1>8. NeverCutOff' BY <1>1, <1>3, <1>5 DEF CutOffInv, NeverCutOff
<1>9. RowsWait' BY <1>1, <1>4 DEF CutOffInv, RowsWait
<1> QED BY <1>1, <1>3, <1>4, <1>6, <1>7, <1>8, <1>9 DEF CutOffInv

\* The backup that becomes ready is the task's own, and its archive is whole.
LEMMA FinishKeeps ==
    ASSUME TypeOK, CutOffInv, FinishBackup
    PROVE  CutOffInv'
<1>0. ReqOK /\ RowsOK /\ FilesOK /\ task \in Task /\ made \in Nat /\ 1 .. made \subseteq Ids
  BY BoundsAssumption DEF TypeOK, ReqOK, RowsOK, FilesOK, Ids
<1>1. made' = made /\ files' = files /\ req' = req BY Zenon DEF FinishBackup, Step
<1>2. task.id \in 1 .. made /\ files[task.id] # "partial" BY DEF FinishBackup, At, CutOffInv, HasArchive
<1>3. task'.id = task.id /\ task'.pc \in {"select", "end"} BY <1>0 DEF FinishBackup, Step, Task
<1>4. \A b \in Ids : b # task.id => rows'[b] = rows[b] BY <1>0 DEF FinishBackup, SetStatus, RowsOK
<1>5. RowsWait' BY <1>0, <1>1, <1>3, <1>4 DEF CutOffInv, RowsWait
<1>6. NeverCutOff' BY <1>1, <1>2, <1>4 DEF CutOffInv, NeverCutOff
<1>7. task'.pc \notin Early /\ HasArchive' = FALSE BY <1>3 DEF Early, HasArchive
<1> QED BY <1>1, <1>2, <1>3, <1>5, <1>6, <1>7 DEF CutOffInv

\* That invariant holds throughout.
LEMMA CutOffCorrect == Spec => []CutOffInv
<1>1. Init => CutOffInv
  BY BoundsAssumption DEF Init, CutOffInv, RowsWait, Early, HasArchive, NeverCutOff, Idle, NoTask, NoRow
<1>2. TypeOK /\ CutOffInv /\ [Next]_vars => CutOffInv'
  <2> SUFFICES ASSUME TypeOK, CutOffInv, [Next]_vars PROVE CutOffInv' OBVIOUS
  <2>1. ASSUME NEW a \in Reqs, Ask(a) \/ Serve(a) PROVE CutOffInv'
    BY <2>1, ServeHarmless, HarmlessKeeps, InsertKeeps, SpawnKeeps, Zenon DEF Serve
  <2>2. CASE Run BY <2>2, RunHarmless, HarmlessKeeps, WriteKeeps, FinishKeeps, Zenon DEF Run
  <2>3. CASE PanelDies \/ Shutdown \/ Recover BY <2>3, AroundHarmless, HarmlessKeeps
  <2>4. CASE UNCHANGED vars
    <3>1. Harmless BY <2>4 DEF vars, Harmless, HasArchive
    <3> QED BY <3>1, HarmlessKeeps
  <2> QED BY <2>1, <2>2, <2>3, <2>4, Zenon DEF Next
<1> QED BY <1>1, <1>2, TypeCorrect, PTL DEF Spec

\* A backup that says ready is never a cut-off archive (archive_to, _backup and
\* recover), whatever fails, is cancelled, deleted or ends in between.
THEOREM ReadyNeverCutOff == Spec => []NeverCutOff
<1>1. CutOffInv => NeverCutOff BY DEF CutOffInv
<1> QED BY <1>1, CutOffCorrect, PTL
----------------------------------------------------------------------------
\* A task whose row says creating: from its first step to its last but one.
Working == Early \cup {"after", "finish"}
Unmade == {"creating", "none"}
Deletes(a, b) == req[a].pc \in {"unlink", "drop"} /\ req[a].id = b

\* Rows are numbered as they are made, and nobody knows of one to come.
Numbers ==
    /\ \A b \in Ids : b > made => rows[b] = NoRow
    /\ \A a \in Reqs : req[a].id \in 0 .. made
    /\ task.id \in 0 .. made

\* What a schedule is about to prune, it made itself.
OwnOnly ==
    task.pc = "prune" =>
        task.left \subseteq task.olds /\ \A b \in task.olds : b <= made /\ rows[b].op # "create"

\* Nothing goes on while the panel is down.
DownIsQuiet == ~up => task = NoTask /\ \A a \in Reqs : req[a] = Idle

\* A task is cancelled by a delete that waits for it.
CancelledForDelete == task.cancelled => \E a \in Reqs : req[a].pc = "await"

\* A backup that is being made, or will be, is not ready and nobody deletes it.
MakingAlone ==
    /\ task.pc \in Working =>
          /\ task.id \in 1 .. made /\ rows[task.id].status \in Unmade
          /\ \A a \in Reqs : ~Deletes(a, task.id)
    /\ \A a \in Reqs : req[a].pc = "spawn" =>
          /\ rows[req[a].id].status \in Unmade
          /\ \A c \in Reqs : ~Deletes(c, req[a].id)

\* Who works on which backup.
WorkInv == Numbers /\ OwnOnly /\ DownIsQuiet /\ CancelledForDelete /\ MakingAlone

\* A step that makes no row, takes up no other one, and settles the task's only.
Meek ==
    /\ made' = made
    /\ \A a \in Reqs :
          /\ req'[a].id = req[a].id \/ req'[a].id \in 0 .. made
          /\ req'[a].pc = "spawn" => req[a].pc = "spawn" /\ req'[a].id = req[a].id
          /\ req'[a].pc \in {"unlink", "drop"} =>
                \/ req[a].pc \in {"unlink", "drop"} /\ req'[a].id = req[a].id
                \/ rows[req'[a].id].status \notin Unmade
    /\ \A b \in Ids :
          /\ rows'[b].op = "create" => rows[b].op = "create"
          /\ rows[b] = NoRow => rows'[b] = NoRow
          /\ rows[b].status \in Unmade =>
                rows'[b].status \in Unmade \/ (b = task.id /\ task'.pc \notin Working)
    /\ task'.id = task.id \/ task'.id = 0
    /\ task'.pc \in Working => task.pc \in Working /\ task'.id = task.id
    /\ task'.pc = "prune" => task.pc = "prune" /\ task'.olds = task.olds /\ task'.left \subseteq task.left

LEMMA MeekKeeps ==
    ASSUME TypeOK, CutOffInv, WorkInv, Meek
    PROVE  Numbers' /\ OwnOnly' /\ MakingAlone'
<1>0. made \in Nat /\ made <= MaxBackups /\ 1 .. made \subseteq Ids
  BY BoundsAssumption DEF TypeOK, Ids
<1>1. Numbers' BY <1>0 DEF WorkInv, Numbers, Meek
<1>2. OwnOnly'
  <2>1. task.pc = "prune" => task.olds \in SUBSET Ids BY DEF TypeOK, Task
  <2> QED BY <1>0, <2>1 DEF WorkInv, OwnOnly, Meek
<1>3. ASSUME task'.pc \in Working
      PROVE  /\ (task.id \in 1 .. made)' /\ (rows[task.id].status \in Unmade)'
             /\ \A a \in Reqs : ~Deletes(a, task.id)'
  <2>1. task.pc \in Working /\ task'.id = task.id BY <1>3 DEF Meek
  <2>2. task.id \in 1 .. made /\ rows[task.id].status \in Unmade /\ \A a \in Reqs : ~Deletes(a, task.id)
    BY <2>1 DEF WorkInv, MakingAlone
  <2>3. task'.id \in 1 .. made' /\ rows'[task'.id].status \in Unmade BY <1>0, <1>3, <2>1, <2>2 DEF Meek
  <2>4. \A a \in Reqs : ~Deletes(a, task.id)' BY <2>1, <2>2 DEF Meek, Deletes
  <2> QED BY <2>3, <2>4
<1>4. ASSUME NEW a \in Reqs, req'[a].pc = "spawn"
      PROVE  (rows[req[a].id].status \in Unmade)' /\ \A c \in Reqs : ~Deletes(c, req[a].id)'
  <2>1. req[a].pc = "spawn" /\ req'[a].id = req[a].id BY <1>4 DEF Meek
  <2>2. req[a].id \in 1 .. made /\ task.id # req[a].id BY <2>1 DEF CutOffInv, RowsWait
  <2>3. rows[req[a].id].status \in Unmade /\ \A c \in Reqs : ~Deletes(c, req[a].id)
    BY <2>1 DEF WorkInv, MakingAlone
  <2>4. rows'[req'[a].id].status \in Unmade BY <1>0, <2>1, <2>2, <2>3 DEF Meek
  <2>5. \A c \in Reqs : ~Deletes(c, req[a].id)' BY <2>1, <2>3 DEF Meek, Deletes
  <2> QED BY <2>4, <2>5
<1>5. MakingAlone' BY <1>3, <1>4 DEF MakingAlone
<1> QED BY <1>1, <1>2, <1>5

\* The requests' steps that make no row and start no backup.
Attends(a) ==
    \/ Ask(a) \/ Check(a) \/ ReadUsage(a) \/ ReadPruned(a)
    \/ GetBackup(a) \/ UnlinkBackup(a) \/ DropBackup(a)
    \/ CancelTask(a) \/ RemoveServer(a) \/ RemoveFiles(a) \/ Cascade(a)

\* What such a step does to the request, to the task and to the rows.
LEMMA AttendsMoves ==
    ASSUME TypeOK, NEW a \in Reqs, Attends(a)
    PROVE  /\ made' = made
           /\ \A c \in Reqs \ {a} : req'[c] = req[c]
           /\ req'[a] \in Request /\ req'[a].pc # "spawn"
           /\ req[a].pc # "await"
           /\ task' \in {task, [task EXCEPT !.cancelled = TRUE], [NoTask EXCEPT !.op = "other", !.pc = "end"]}
           /\ \A b \in Ids : rows'[b] \in {rows[b], NoRow}
<1>0. ReqOK /\ RowsOK /\ FilesOK /\ task \in Task BY DEF TypeOK, ReqOK, RowsOK, FilesOK
<1>1. made' = made
  BY Zenon DEF Attends, Ask, Check, ReadUsage, ReadPruned, GetBackup, UnlinkBackup, DropBackup,
     CancelTask, RemoveServer, RemoveFiles, Cascade, store
<1>2. \A c \in Reqs \ {a} : req'[c] = req[c]
  <2>1. \A r : [req EXCEPT ![a] = r] = req' => \A c \in Reqs \ {a} : req'[c] = req[c] BY <1>0 DEF ReqOK
  <2>2. \E r : req' = [req EXCEPT ![a] = r]
    BY <1>0 DEF Attends, Ask, Check, ReadUsage, ReadPruned, GetBackup, UnlinkBackup, DropBackup,
     CancelTask, RemoveServer, RemoveFiles, Cascade, Finish, Goto, ReqOK
  <2> QED BY <2>1, <2>2
<1>3. req'[a].pc # "spawn"
  <2>1. \A pc \in ReqPc \ {"spawn"} : Goto(a, pc) => req'[a].pc # "spawn" BY <1>0 DEF Goto, ReqOK, Request
  <2>2. Finish(a) => req'[a].pc # "spawn" BY <1>0 DEF Finish, Idle, ReqOK
  <2>3. CASE Ask(a) BY <1>0, <2>3 DEF Ask, ReqOK, Idle
  <2>4. CASE ReadUsage(a) BY <1>0, <2>2, <2>4 DEF ReadUsage, ReqOK, Request
  <2>5. CASE GetBackup(a) BY <1>0, <2>2, <2>5 DEF GetBackup, ReqOK, Request
  <2>6. CASE Check(a) \/ ReadPruned(a) BY <2>1, <2>2, <2>6 DEF Check, ReadPruned, ReqPc
  <2>7. CASE UnlinkBackup(a) \/ DropBackup(a) BY <2>1, <2>2, <2>7 DEF UnlinkBackup, DropBackup, ReqPc
  <2>8. CASE CancelTask(a) \/ RemoveServer(a) \/ RemoveFiles(a) \/ Cascade(a)
    BY <2>1, <2>2, <2>8 DEF CancelTask, RemoveServer, RemoveFiles, Cascade, ReqPc
  <2> QED BY <2>3, <2>4, <2>5, <2>6, <2>7, <2>8 DEF Attends
<1>4. req'[a] \in Request
  <2>1. TypeOK' BY CreateType, DeleteType DEF Attends
  <2> QED BY <2>1 DEF TypeOK
<1>5. req[a].pc # "await"
  <2>1. CASE Ask(a)
    <3>1. req[a] = Idle BY <2>1, Zenon DEF Ask
    <3> QED BY <3>1 DEF Idle
  <2>2. CASE ~Ask(a)
    <3>1. req[a].pc \in {"check", "space", "pruned", "get", "unlink", "drop", "cancel", "remove", "rmtree", "cascade"}
      BY <2>2, Zenon DEF Attends, Check, ReadUsage, ReadPruned, GetBackup, UnlinkBackup, DropBackup,
         CancelTask, RemoveServer, RemoveFiles, Cascade
    <3> QED BY <3>1
  <2> QED BY <2>1, <2>2
<1>6. task' \in {task, [task EXCEPT !.cancelled = TRUE], [NoTask EXCEPT !.op = "other", !.pc = "end"]}
  BY Zenon DEF Attends, Ask, Check, Spawn, ReadUsage, ReadPruned, GetBackup, UnlinkBackup, DropBackup,
     CancelTask, RemoveServer, RemoveFiles, Cascade, store
<1>7. \A b \in Ids : rows'[b] \in {rows[b], NoRow}
  <2>1. CASE DropBackup(a) BY <1>0, <2>1 DEF DropBackup, RowsOK
  <2>2. CASE Cascade(a) BY <2>2 DEF Cascade
  <2>3. CASE rows' = rows BY <2>3
  <2> QED BY <2>1, <2>2, <2>3, Zenon DEF Attends, Ask, Check, ReadUsage, ReadPruned, GetBackup,
          UnlinkBackup, CancelTask, RemoveServer, RemoveFiles, store
<1> QED BY <1>1, <1>2, <1>3, <1>4, <1>5, <1>6, <1>7

\* Such a step is meek.
LEMMA AttendsKeeps ==
    ASSUME TypeOK, CutOffInv, WorkInv, NEW a \in Reqs, Attends(a)
    PROVE  WorkInv'
<1>0. ReqOK /\ RowsOK /\ FilesOK /\ task \in Task /\ made \in Nat
  BY BoundsAssumption DEF TypeOK, ReqOK, RowsOK, FilesOK
<1>1. /\ task'.id = task.id \/ task'.id = 0
      /\ task'.pc \in Working => task.pc \in Working /\ task'.id = task.id
      /\ task'.pc = "prune" => task.pc = "prune" /\ task'.olds = task.olds /\ task'.left = task.left
  BY <1>0, AttendsMoves DEF Task, NoTask, Working, Early
<1>2. \A b \in Ids :
          /\ rows'[b].op = "create" => rows[b].op = "create"
          /\ rows[b] = NoRow => rows'[b] = NoRow
          /\ rows[b].status \in Unmade => rows'[b].status \in Unmade
  BY <1>0, AttendsMoves DEF NoRow, Unmade
<1>3. /\ req'[a].id = req[a].id \/ req'[a].id \in 0 .. made
      /\ req'[a].pc \in {"unlink", "drop"} =>
                \/ req[a].pc \in {"unlink", "drop"} /\ req'[a].id = req[a].id
                \/ rows[req'[a].id].status \notin Unmade
  <2>1. CASE GetBackup(a)
    <3>1. CASE Finish(a) BY <1>0, <3>1 DEF Finish, ReqOK, Idle
    <3>2. CASE ~Finish(a)
      <4>1. PICK b \in Ids : /\ rows[b].status \in {"ready", "failed"}
                             /\ req' = [req EXCEPT ![a].pc = "unlink", ![a].id = b]
        BY <2>1, <3>2, Zenon DEF GetBackup
      <4>2. req'[a].id = b BY <1>0, <4>1 DEF ReqOK, Request
      <4>3. b \in 0 .. made BY <1>0, <4>1, BoundsAssumption DEF WorkInv, Numbers, NoRow, Ids
      <4> QED BY <4>1, <4>2, <4>3 DEF Unmade
    <3> QED BY <3>1, <3>2
  <2>2. CASE UnlinkBackup(a) BY <1>0, <2>2 DEF UnlinkBackup, Goto, ReqOK, Request
  <2>3. CASE Ask(a)
    <3>1. req'[a].id = 0 /\ req'[a].pc \in {"get", "cancel", "check"} BY <1>0, <2>3 DEF Ask, ReqOK, Idle
    <3> QED BY <1>0, <3>1
  <2>4. CASE ReadUsage(a) BY <1>0, <2>4 DEF ReadUsage, Finish, Idle, ReqOK, Request
  <2>5. CASE Check(a) \/ ReadPruned(a) \/ DropBackup(a) \/ CancelTask(a) \/ RemoveServer(a) \/ RemoveFiles(a) \/ Cascade(a)
    <3>1. Finish(a) \/ \E pc \in ReqPc \ {"unlink", "drop"} : Goto(a, pc)
      BY <2>5 DEF Check, ReadPruned, DropBackup, CancelTask, RemoveServer, RemoveFiles, Cascade, ReqPc
    <3> QED BY <1>0, <3>1 DEF Finish, Goto, Idle, ReqOK, Request
  <2> QED BY <2>1, <2>2, <2>3, <2>4, <2>5 DEF Attends
<1>4. Meek BY <1>0, <1>1, <1>2, <1>3, AttendsMoves DEF Meek
<1>5. DownIsQuiet'
  <2>1. req[a] # Idle \/ up
    <3>1. \/ req[a].pc \in {"check", "space", "pruned", "get", "unlink", "drop", "cancel", "remove", "rmtree", "cascade"}
          \/ up
      BY Zenon DEF Attends, Ask, Check, ReadUsage, ReadPruned, GetBackup, UnlinkBackup, DropBackup,
         CancelTask, RemoveServer, RemoveFiles, Cascade
    <3>2. Idle.pc = "idle" BY DEF Idle
    <3> QED BY <3>1, <3>2
  <2>2. up BY <2>1, Zenon DEF WorkInv, DownIsQuiet
  <2>3. up'
    BY <2>2, Zenon DEF Attends, Ask, Idle, Check, ReadUsage, ReadPruned, GetBackup, UnlinkBackup, DropBackup,
       CancelTask, RemoveServer, RemoveFiles, Cascade
  <2> QED BY <2>3, Zenon DEF DownIsQuiet
<1>6. CancelledForDelete'
  <2>1. CASE CancelTask(a) /\ task' = [task EXCEPT !.cancelled = TRUE] /\ Goto(a, "await")
    BY <1>0, <2>1 DEF Goto, ReqOK, Request, CancelledForDelete
  <2>2. CASE task' = task BY <1>0, <2>2, AttendsMoves DEF WorkInv, CancelledForDelete
  <2>3. CASE task' = [NoTask EXCEPT !.op = "other", !.pc = "end"]
    BY <2>3 DEF NoTask, CancelledForDelete
  <2> QED BY <2>1, <2>2, <2>3, Zenon DEF Attends, Ask, Check, Spawn, ReadUsage, ReadPruned, GetBackup, UnlinkBackup, DropBackup,
     CancelTask, RemoveServer, RemoveFiles, Cascade, store
<1> QED BY <1>4, <1>5, <1>6, MeekKeeps DEF WorkInv

\* The task's steps move no request but those that wait for its end, and the
\* panel is up.
LEMMA RunMoves ==
    ASSUME TypeOK, WorkInv, Run
    PROVE  /\ made' = made /\ up /\ up'
           /\ \/ req' = req /\ task'.cancelled = FALSE
              \/ EndTask
           /\ \A a \in Reqs : /\ req'[a].id = req[a].id
                              /\ \/ req'[a].pc = req[a].pc
                                 \/ EndTask /\ req[a].pc = "await" /\ req'[a].pc = "remove"
<1>0. ReqOK /\ task \in Task BY DEF TypeOK, ReqOK
<1>1. made' = made /\ up' = up
  BY Zenon DEF Run, Begin, Before, Wait, Open, Archive, After, FinishBackup, PruneSelect, PruneFile, PruneCommit,
     End, FailUnlink, FailRow, Cancelled, CancelledFails, store
<1>2. up
  <2>1. At("none") \/ task.cancelled => FALSE \/ task # NoTask \/ At("none") BY DEF NoTask
  <2>2. task # NoTask
    <3>1. \/ task.pc \in {"begin", "before", "wait", "open", "archive", "after", "finish", "select",
                         "prune", "end", "fail", "failed"}
          \/ task.cancelled
      BY Zenon DEF Run, At, Begin, Before, Wait, Open, Archive, After, FinishBackup, PruneSelect, PruneFile,
         PruneCommit, End, FailUnlink, FailRow, Cancelled, CancelledFails
    <3>2. NoTask.pc = "none" /\ ~NoTask.cancelled BY DEF NoTask
    <3> QED BY <3>1, <3>2
  <2> QED BY <2>2, Zenon DEF WorkInv, DownIsQuiet
<1>3. \/ req' = req /\ task'.cancelled = FALSE
      \/ EndTask
  <2>1. CASE ~task.cancelled /\ req' = req /\ \E pc : Step(pc) BY <1>0, <2>1 DEF Step, Task
  <2>2. CASE Begin BY <1>0, <2>2 DEF Begin, At, Step, Task
  <2>3. CASE Archive BY <1>0, <2>3 DEF Archive, At, Step, Task
  <2>4. CASE PruneSelect BY <1>0, <2>4 DEF PruneSelect, At, Task
  <2>5. CASE PruneFile
    <3>1. PICK newest : \/ task' = [task EXCEPT !.left = @ \ {newest}] /\ req' = req
                        \/ Step("fail")
      BY <2>5, Zenon DEF PruneFile
    <3> QED BY <1>0, <2>5, <3>1 DEF PruneFile, At, Step, Task
  <2>6. CASE CancelledFails BY <1>0, <2>6 DEF CancelledFails, Task
  <2>7. CASE Cancelled \/ End BY <2>7, Zenon DEF Cancelled, End
  <2> QED BY <2>1, <2>2, <2>3, <2>4, <2>5, <2>6, <2>7, Zenon
          DEF Run, At, Before, Wait, Open, After, FinishBackup, PruneCommit, FailUnlink, FailRow, Step
<1>4. \A a \in Reqs : /\ req'[a].id = req[a].id
                      /\ \/ req'[a].pc = req[a].pc
                         \/ EndTask /\ req[a].pc = "await" /\ req'[a].pc = "remove"
  BY <1>0, <1>3 DEF EndTask, ReqOK, Request
<1> QED BY <1>1, <1>2, <1>3, <1>4, Zenon

\* The task works on its own backup, and prunes its schedule's.
LEMMA RunKeeps ==
    ASSUME TypeOK, CutOffInv, WorkInv, Run
    PROVE  WorkInv'
<1>0. ReqOK /\ RowsOK /\ FilesOK /\ task \in Task /\ made \in Nat
  BY BoundsAssumption DEF TypeOK, ReqOK, RowsOK, FilesOK
<1>1. DownIsQuiet' BY RunMoves, Zenon DEF DownIsQuiet
<1>2. CancelledForDelete'
  <2>1. EndTask => task'.cancelled = FALSE BY DEF EndTask, NoTask
  <2> QED BY <2>1, RunMoves DEF CancelledForDelete
<1>3. /\ made' = made
      /\ \A a \in Reqs :
            /\ req'[a].id = req[a].id
            /\ req'[a].pc = "spawn" => req[a].pc = "spawn"
            /\ req'[a].pc \in {"unlink", "drop"} => req[a].pc \in {"unlink", "drop"}
  BY RunMoves
<1>4. CASE PruneSelect
  <2>1. /\ task'.id = task.id /\ task'.pc = "prune" /\ task'.olds = Beyond(Keep) /\ task'.left = Beyond(Keep)
        /\ rows' = rows
    BY <1>0, <1>4 DEF PruneSelect, Task, store
  <2>2. \A b \in Beyond(Keep) : b \in Ids /\ rows[b].op = "schedule" BY DEF Beyond, Scheduled
  <2>3. OwnOnly' BY <1>0, <1>3, <2>1, <2>2 DEF OwnOnly, WorkInv, Numbers, NoRow, Ids
  <2>4. Numbers' BY <1>3, <2>1 DEF Numbers, WorkInv
  <2>5. MakingAlone' BY <1>3, <2>1 DEF MakingAlone, WorkInv, Working, Early, Deletes
  <2> QED BY <1>1, <1>2, <2>3, <2>4, <2>5 DEF WorkInv
<1>5. CASE ~PruneSelect
  <2>1. /\ task'.id = task.id \/ task'.id = 0
        /\ task'.pc \in Working => task.pc \in Working /\ task'.id = task.id
        /\ task'.pc = "prune" => task.pc = "prune" /\ task'.olds = task.olds /\ task'.left \subseteq task.left
    <3>1. CASE Begin BY <1>0, <3>1 DEF Begin, At, Step, Task, Working, Early
    <3>2. CASE Before \/ Wait \/ Open BY <1>0, <3>2 DEF Before, Wait, Open, At, Step, Task, Working, Early
    <3>3. CASE Archive \/ After BY <1>0, <3>3 DEF Archive, After, At, Step, Task, Working, Early
    <3>4. CASE FinishBackup \/ PruneCommit BY <1>0, <3>4 DEF FinishBackup, PruneCommit, At, Step, Task, Working, Early
    <3>5. CASE PruneFile
      <4>1. PICK newest : task' = [task EXCEPT !.left = @ \ {newest}] \/ Step("fail")
        BY <3>5, Zenon DEF PruneFile
      <4> QED BY <1>0, <4>1 DEF Step, Task, Working, Early
    <3>6. CASE FailUnlink \/ FailRow BY <1>0, <3>6 DEF FailUnlink, FailRow, At, Step, Task, Working, Early
    <3>7. CASE End \/ Cancelled
      <4>1. task' = NoTask BY <3>7, Zenon DEF End, Cancelled, EndTask
      <4> QED BY <4>1 DEF NoTask, Working, Early
    <3>8. CASE CancelledFails BY <1>0, <3>8 DEF CancelledFails, Task, Working, Early
    <3> QED BY <1>5, <3>1, <3>2, <3>3, <3>4, <3>5, <3>6, <3>7, <3>8 DEF Run
  <2>2. \A b \in Ids :
          /\ rows'[b].op = "create" => rows[b].op = "create"
          /\ rows[b] = NoRow => rows'[b] = NoRow
          /\ rows[b].status \in Unmade =>
                rows'[b].status \in Unmade \/ (b = task.id /\ task'.pc \notin Working)
    <3>1. CASE FinishBackup \/ FailRow
      <4>1. task'.pc \notin Working BY <1>0, <3>1 DEF FinishBackup, FailRow, Step, Task, Working, Early
      <4>2. PICK s, n : rows' = SetStatus(task.id, s, n) BY <3>1, Zenon DEF FinishBackup, FailRow
      <4>3. \A b \in Ids : /\ b # task.id => rows'[b] = rows[b]
                           /\ rows'[b].op = rows[b].op
                           /\ rows[b].status = "none" => rows'[b] = rows[b]
        BY <1>0, <4>2 DEF SetStatus, RowsOK, Row
      <4> QED BY <4>1, <4>3 DEF NoRow
    <3>2. CASE PruneCommit BY <3>2 DEF PruneCommit, NoRow, Unmade
    <3>3. CASE rows' = rows BY <3>3
    <3> QED BY <3>1, <3>2, <3>3, Zenon DEF Run, Begin, Before, Wait, Open, Archive, After, PruneSelect, PruneFile,
         End, FailUnlink, Cancelled, CancelledFails, store
  <2>3. Meek BY <1>3, <2>1, <2>2 DEF Meek
  <2> QED BY <1>1, <1>2, <2>3, MeekKeeps DEF WorkInv
<1> QED BY <1>4, <1>5

\* A crash or a shutdown ends whatever went on; the restart finds nothing at work.
LEMMA AroundKeeps ==
    ASSUME TypeOK, CutOffInv, WorkInv, PanelDies \/ Shutdown \/ Recover
    PROVE  WorkInv'
<1>0. ReqOK /\ RowsOK /\ FilesOK /\ task \in Task /\ made \in Nat
  BY BoundsAssumption DEF TypeOK, ReqOK, RowsOK, FilesOK
<1>1. task' = NoTask /\ (\A a \in Reqs : req'[a] = Idle) /\ made' = made
  <2>1. CASE PanelDies \/ Shutdown BY <2>1 DEF PanelDies, Shutdown, Down, store
  <2>2. CASE Recover
    <3>1. task = NoTask /\ (\A a \in Reqs : req[a] = Idle) BY <2>2, Zenon DEF Recover, WorkInv, DownIsQuiet
    <3> QED BY <2>2, <3>1, Zenon DEF Recover
  <2> QED BY <2>1, <2>2
<1>2. \A b \in Ids : rows[b] = NoRow => rows'[b] = NoRow
  <2>1. CASE Recover BY <2>1 DEF Recover, NoRow
  <2>2. CASE rows' = rows BY <2>2
  <2> QED BY <2>1, <2>2, Zenon DEF PanelDies, Shutdown, store
<1> QED BY <1>0, <1>1, <1>2 DEF WorkInv, Numbers, OwnOnly, DownIsQuiet, CancelledForDelete, MakingAlone,
        NoTask, Idle, Working, Early

\* A new row has a number nobody knows.
LEMMA InsertWork ==
    ASSUME TypeOK, CutOffInv, WorkInv, NEW a \in Reqs, Insert(a)
    PROVE  WorkInv'
<1>0. ReqOK /\ RowsOK /\ FilesOK /\ task \in Task /\ made \in Nat
  BY BoundsAssumption DEF TypeOK, ReqOK, RowsOK, FilesOK
<1>1. task' = task /\ up' = up /\ up
  <2>1. req[a].pc = "insert" /\ task' = task /\ up' = up BY Zenon DEF Insert
  <2>2. req[a] # Idle BY <2>1 DEF Idle
  <2> QED BY <2>1, <2>2, Zenon DEF WorkInv, DownIsQuiet
<1>2. DownIsQuiet' BY <1>1, Zenon DEF DownIsQuiet
<1>3. \A c \in Reqs \ {a} : req'[c] = req[c] BY <1>0 DEF Insert, Finish, ReqOK
<1>4. CancelledForDelete' BY <1>1, <1>3 DEF Insert, WorkInv, CancelledForDelete
<1>5. CASE ~server
  <2>1. made' = made /\ rows' = rows /\ req'[a] = Idle BY <1>0, <1>5 DEF Insert, Finish, ReqOK
  <2>2. Meek BY <1>0, <1>1, <1>3, <2>1 DEF Meek, Idle
  <2> QED BY <1>2, <1>4, <2>2, MeekKeeps DEF WorkInv
<1>6. CASE server
  <2>1. /\ made' = made + 1 /\ made + 1 \in Ids
        /\ rows' = [rows EXCEPT ![made + 1] = [status |-> "creating", op |-> req[a].op, size |-> 0]]
        /\ req' = [req EXCEPT ![a].pc = "spawn", ![a].id = made + 1]
    BY <1>0, <1>6, BoundsAssumption DEF Insert, Ids
  <2>2. req'[a].pc = "spawn" /\ req'[a].id = made + 1 BY <1>0, <2>1 DEF ReqOK, Request
  <2>3. rows'[made + 1].status = "creating" /\ \A b \in Ids \ {made + 1} : rows'[b] = rows[b] BY <1>0, <2>1 DEF RowsOK
  <2>4. Numbers'
    <3>1. \A b \in Ids : b \in Int BY DEF Ids
    <3>2. (\A b \in Ids : b > made => rows[b] = NoRow)' BY <1>0, <2>1, <2>3, <3>1 DEF WorkInv, Numbers
    <3>3. \A c \in Reqs : req'[c].id \in 0 .. made + 1 BY <1>0, <1>3, <2>2 DEF WorkInv, Numbers
    <3>4. task'.id \in 0 .. made + 1 BY <1>0, <1>1 DEF WorkInv, Numbers
    <3> QED BY <2>1, <3>2, <3>3, <3>4 DEF Numbers
  <2>5. OwnOnly'
    <3>1. task.olds \in SUBSET Ids BY <1>0 DEF Task
    <3>2. \A b \in Ids : b <= made => b <= made + 1 /\ rows'[b] = rows[b] BY <1>0, <2>3 DEF Ids
    <3> QED BY <1>1, <2>1, <3>1, <3>2 DEF WorkInv, OwnOnly
  <2>6. 1 .. made \subseteq Ids /\ made + 1 \notin 1 .. made BY <1>0, <2>1, BoundsAssumption DEF Ids
  <2>8. ASSUME task.pc \in Working
        PROVE  /\ (task.id \in 1 .. made)' /\ (rows[task.id].status \in Unmade)'
               /\ \A c \in Reqs : ~Deletes(c, task.id)'
    <3>1. /\ task.id \in 1 .. made /\ rows[task.id].status \in Unmade
          /\ \A c \in Reqs : ~Deletes(c, task.id)
      BY <2>8 DEF WorkInv, MakingAlone
    <3>2. task.id \in 1 .. made + 1 /\ rows'[task.id] = rows[task.id] BY <1>0, <2>3, <2>6, <3>1
    <3>3. \A c \in Reqs : ~Deletes(c, task.id)' BY <1>1, <1>3, <2>2, <3>1 DEF Deletes
    <3> QED BY <1>1, <2>1, <3>1, <3>2, <3>3
  <2>9. \A c \in Reqs : ~Deletes(c, req[a].id)'
    <3>1. \A c \in Reqs : req[c].id # made + 1 BY <1>0 DEF WorkInv, Numbers
    <3>2. req'[a].pc \notin {"unlink", "drop"} BY <2>2
    <3> QED BY <1>3, <2>2, <3>1, <3>2 DEF Deletes
  <2>10. ASSUME NEW c \in Reqs \ {a}, req'[c].pc = "spawn"
         PROVE  (rows[req[c].id].status \in Unmade)' /\ \A d \in Reqs : ~Deletes(d, req[c].id)'
    <3>1. req'[c] = req[c] /\ req[c].id \in 1 .. made BY <1>3, <2>10 DEF CutOffInv, RowsWait
    <3>2. rows[req[c].id].status \in Unmade /\ \A d \in Reqs : ~Deletes(d, req[c].id)
      BY <2>10, <3>1 DEF WorkInv, MakingAlone
    <3>3. rows'[req[c].id] = rows[req[c].id] BY <2>3, <2>6, <3>1
    <3> QED BY <1>3, <2>2, <3>1, <3>2, <3>3 DEF Deletes
  <2>11. MakingAlone' BY <1>1, <2>2, <2>3, <2>8, <2>9, <2>10 DEF MakingAlone, Unmade
  <2> QED BY <1>2, <1>4, <2>4, <2>5, <2>11 DEF WorkInv
<1> QED BY <1>5, <1>6

\* The task that begins takes the row over.
LEMMA SpawnWork ==
    ASSUME TypeOK, CutOffInv, WorkInv, NEW a \in Reqs, SpawnBackup(a)
    PROVE  WorkInv'
<1>0. ReqOK /\ RowsOK /\ FilesOK /\ task \in Task /\ made \in Nat
  BY BoundsAssumption DEF TypeOK, ReqOK, RowsOK, FilesOK
<1>1. made' = made /\ rows' = rows /\ up' = up /\ req[a].pc = "spawn" BY Zenon DEF SpawnBackup, store
<1>2. up
  <2>1. req[a] # Idle BY <1>1 DEF Idle
  <2> QED BY <2>1, Zenon DEF WorkInv, DownIsQuiet
<1>3. DownIsQuiet' BY <1>1, <1>2, Zenon DEF DownIsQuiet
<1>4. req'[a] = Idle /\ \A c \in Reqs \ {a} : req'[c] = req[c] BY <1>0 DEF SpawnBackup, Finish, ReqOK
<1>5. CASE task' = task
  <2>1. Meek BY <1>0, <1>1, <1>4, <1>5 DEF Meek, Idle
  <2>2. CancelledForDelete' BY <1>1, <1>4, <1>5 DEF WorkInv, CancelledForDelete
  <2> QED BY <1>3, <2>1, <2>2, MeekKeeps DEF WorkInv
<1>6. CASE task' = [NoTask EXCEPT !.op = req[a].op, !.pc = "begin", !.id = req[a].id]
  <2>1. task'.id = req[a].id /\ task'.pc = "begin" /\ task'.cancelled = FALSE BY <1>6 DEF NoTask
  <2>2. req[a].id \in 1 .. made BY <1>1 DEF CutOffInv, RowsWait
  <2>3. Numbers' BY <1>0, <1>1, <1>4, <2>1, <2>2 DEF WorkInv, Numbers, Idle
  <2>4. MakingAlone' BY <1>1, <1>4, <2>1, <2>2 DEF WorkInv, MakingAlone, Deletes, Idle
  <2>5. OwnOnly' /\ CancelledForDelete' BY <2>1 DEF OwnOnly, CancelledForDelete
  <2> QED BY <1>3, <2>3, <2>4, <2>5 DEF WorkInv
<1> QED BY <1>5, <1>6, Zenon DEF SpawnBackup, Spawn

\* The invariant that the theorems below rest on.
LEMMA WorkCorrect ==
    Spec => [](TypeOK /\ CutOffInv /\ WorkInv)
<1>1. Init => WorkInv
  BY BoundsAssumption DEF Init, WorkInv, Numbers, OwnOnly, DownIsQuiet, CancelledForDelete, MakingAlone,
     Working, Early, Idle, NoTask
<1>2. TypeOK /\ CutOffInv /\ WorkInv /\ [Next]_vars => WorkInv'
  <2> SUFFICES ASSUME TypeOK, CutOffInv, WorkInv, [Next]_vars PROVE WorkInv' OBVIOUS
  <2>1. ASSUME NEW a \in Reqs, Ask(a) \/ Serve(a) PROVE WorkInv'
    BY <2>1, AttendsKeeps, InsertWork, SpawnWork, Zenon DEF Serve, Attends
  <2>2. CASE Run BY <2>2, RunKeeps
  <2>3. CASE PanelDies \/ Shutdown \/ Recover BY <2>3, AroundKeeps
  <2>4. CASE UNCHANGED vars
    BY <2>4, Zenon DEF vars, WorkInv, Numbers, OwnOnly, DownIsQuiet, CancelledForDelete, MakingAlone, Deletes
  <2> QED BY <2>1, <2>2, <2>3, <2>4, Zenon DEF Next
<1> QED BY <1>1, <1>2, TypeCorrect, CutOffCorrect, PTL DEF Spec
----------------------------------------------------------------------------
\* Who takes a whole archive away: a request that deletes this backup, the delete
\* of the server, the task whose archive it is, its pruning, or the restart.
LEMMA WholeLost ==
    ASSUME TypeOK, WorkInv, [Next]_vars, NEW b \in Ids, files[b] = "whole", files'[b] # "whole"
    PROVE  \/ task.id = b
           \/ \E a \in Reqs : req[a].pc = "unlink" /\ req[a].id = b
           \/ \E a \in Reqs : req[a].pc = "rmtree"
           \/ task.pc = "prune" /\ b \in task.left
           \/ rows[b].status = "creating"
<1>0. FilesOK /\ RowsOK /\ task \in Task BY DEF TypeOK, FilesOK, RowsOK
<1>1. ASSUME NEW a \in Reqs, Ask(a) \/ Serve(a)
      PROVE  \/ req[a].pc = "unlink" /\ req[a].id = b
             \/ req[a].pc = "rmtree"
  <2>1. CASE UnlinkBackup(a) BY <1>0, <2>1 DEF UnlinkBackup, FilesOK
  <2>2. CASE RemoveFiles(a) BY <2>2, Zenon DEF RemoveFiles
  <2>3. CASE files' = files BY <2>3
  <2> QED BY <1>1, <2>1, <2>2, <2>3, Zenon DEF Serve, Ask, Check, ReadUsage, ReadPruned, Insert, SpawnBackup,
          GetBackup, DropBackup, CancelTask, RemoveServer, Cascade, store
<1>2. CASE Run
  <2>1. CASE PruneFile
    <3>1. PICK newest \in task.left : files' = [files EXCEPT ![newest] = "none"] \/ files' = files
      BY <2>1, Zenon DEF PruneFile
    <3>2. task.pc = "prune" BY <2>1 DEF PruneFile, At
    <3> QED BY <1>0, <3>1, <3>2 DEF FilesOK
  <2>2. CASE \E s : files' = [files EXCEPT ![task.id] = s] BY <1>0, <2>2 DEF FilesOK
  <2>3. CASE files' = files BY <2>3
  <2> QED BY <1>2, <2>1, <2>2, <2>3, Zenon DEF Run, Begin, Before, Wait, Open, Archive, After, FinishBackup,
          PruneSelect, PruneCommit, End, FailUnlink, FailRow, Cancelled, Interrupted, CancelledFails, store
<1>3. CASE PanelDies BY <1>3, Zenon DEF PanelDies, store
<1>4. CASE Shutdown
  <2>1. CASE files' = [files EXCEPT ![task.id] = "none"] BY <1>0, <2>1 DEF FilesOK
  <2> QED BY <1>4, <2>1, Zenon DEF Shutdown, Interrupted
<1>5. CASE Recover BY <1>5, Zenon DEF Recover
<1>6. CASE UNCHANGED vars BY <1>6, Zenon DEF vars
<1> QED BY <1>1, <1>2, <1>3, <1>4, <1>5, <1>6, Zenon DEF Next

\* A schedule prunes its own backups only (_prune_backups): a backup a user made
\* loses its archive to the user's request, with the server, or to its own task.
THEOREM HandMadeStays == Spec => HandMadeKept
<1>1. TypeOK /\ WorkInv /\ [Next]_vars =>
         [\A b \in Ids :
            rows[b].status = "ready" /\ rows[b].op = "create" /\ files[b] = "whole" /\ files'[b] # "whole"
               => \/ task.id = b
                  \/ \E a \in Reqs : req[a].id = b \/ req[a].pc = "rmtree"]_vars
  <2> SUFFICES ASSUME TypeOK, WorkInv, [Next]_vars, NEW b \in Ids,
                      rows[b].status = "ready", rows[b].op = "create", files[b] = "whole", files'[b] # "whole"
               PROVE  \/ task.id = b
                      \/ \E a \in Reqs : req[a].id = b \/ req[a].pc = "rmtree"
    OBVIOUS
  <2>1. ~(task.pc = "prune" /\ b \in task.left) BY DEF WorkInv, OwnOnly
  <2> QED BY <2>1, WholeLost
<1> QED BY <1>1, WorkCorrect, PTL DEF Spec, HandMadeKept
----------------------------------------------------------------------------
\* What a run that ReadyHasFile is about has been spared.
Benign == Spared({"pruneFails", "removeFails", "panelDies", "shutdown"})

\* The server is being deleted, or is no more.
Gone == ~server \/ \E a \in Reqs : req[a].pc \in {"await", "remove", "rmtree", "cascade"}

Dropped(b) == \E a \in Reqs : req[a].pc = "drop" /\ req[a].id = b
Pruned(b) == task.pc = "prune" /\ b \in task.olds

\* A server that is no more has no backups.
NoRows == ~server => \A b \in Ids : rows[b].status = "none"

\* A ready backup has its archive, unless it or its server is on its way out.
WithFile ==
    Benign =>
       /\ up
       /\ HasArchive => files[task.id] = "whole" \/ Gone
       /\ \A b \in Ids : rows[b].status = "ready" => files[b] = "whole" \/ Gone \/ Dropped(b) \/ Pruned(b)
       /\ task.pc = "fail" => task.id \in 1 .. made /\ rows[task.id].status \in Unmade

\* A step that takes no archive from a backup that stays.
Careful ==
    /\ up'
    /\ Gone => Gone'
    /\ HasArchive' =>
          \/ files'[task'.id] = "whole"
          \/ HasArchive /\ task'.id = task.id /\ (files'[task.id] = files[task.id] \/ Gone')
    /\ \A b \in Ids : rows'[b].status = "ready" =>
          \/ Gone' \/ Dropped(b)' \/ Pruned(b)'
          \/ /\ files'[b] = files[b]
             /\ ~Dropped(b) /\ ~Pruned(b)
             /\ rows[b].status = "ready" \/ (HasArchive /\ task.id = b)
    /\ task'.pc = "fail" => task'.id \in 1 .. made' /\ rows'[task'.id].status \in Unmade

LEMMA CarefulKeeps ==
    ASSUME WithFile, Benign' => Benign /\ Careful
    PROVE  WithFile'
<1> SUFFICES ASSUME Benign' PROVE WithFile' BY DEF WithFile
<1>1. Benign /\ Careful OBVIOUS
<1>2. up' BY <1>1, Zenon DEF Careful
<1>3. (HasArchive => files[task.id] = "whole" \/ Gone)' BY <1>1 DEF Careful, WithFile
<1>4. \A b \in Ids : (rows[b].status = "ready" => files[b] = "whole" \/ Gone \/ Dropped(b) \/ Pruned(b))'
  BY <1>1 DEF Careful, WithFile
<1>5. (task.pc = "fail" => task.id \in 1 .. made /\ rows[task.id].status \in Unmade)'
  BY <1>1 DEF Careful
<1> QED BY <1>2, <1>3, <1>4, <1>5, Zenon DEF WithFile

\* What has gone wrong stays on record.
LEMMA EventsGrow == ASSUME [Next]_vars PROVE events \subseteq events'
<1>1. \A kind : Fails(kind) \/ Works => events \subseteq events' BY DEF Fails, Works
<1>2. ASSUME NEW a \in Reqs, Ask(a) \/ Serve(a) PROVE events \subseteq events'
  <2>1. CASE RemoveServer(a) BY <1>1, <2>1, Zenon DEF RemoveServer
  <2> QED BY <1>2, <2>1, Zenon DEF Serve, Ask, Check, ReadUsage, ReadPruned, Insert, SpawnBackup,
          GetBackup, UnlinkBackup, DropBackup, CancelTask, RemoveFiles, Cascade
<1>3. CASE Run
  BY <1>1, <1>3, Zenon DEF Run, Begin, Before, Wait, Open, Archive, After, FinishBackup, PruneSelect, PruneFile,
     PruneCommit, End, FailUnlink, FailRow, Cancelled, CancelledFails
<1>4. CASE PanelDies \/ Shutdown \/ Recover BY <1>1, <1>4, Zenon DEF PanelDies, Shutdown, Recover
<1>5. CASE UNCHANGED vars BY <1>5, Zenon DEF vars
<1> QED BY <1>2, <1>3, <1>4, <1>5, Zenon DEF Next

\* A server's rows are gone with it: none is made for it any more.
LEMMA NoRowsKeeps ==
    ASSUME TypeOK, NoRows, [Next]_vars
    PROVE  NoRows'
<1>0. RowsOK BY DEF TypeOK, RowsOK
<1>2. CASE \E a \in Reqs : Cascade(a) BY <1>2 DEF Cascade, NoRows, NoRow
<1>3. CASE \E a \in Reqs : Insert(a) /\ server
  <2>1. server' BY <1>3, Zenon DEF Insert
  <2> QED BY <2>1, Zenon DEF NoRows
<1>4. CASE server' = server /\ \A b \in Ids : rows[b].status = "none" => rows'[b].status = "none"
  BY <1>4, Zenon DEF NoRows
<1>5. \A b, s, n : rows' = SetStatus(b, s, n) =>
          \A c \in Ids : rows[c].status = "none" => rows'[c].status = "none"
  BY <1>0 DEF SetStatus, RowsOK
<1>6. ASSUME NEW a \in Reqs, Ask(a) \/ Serve(a), ~Cascade(a), ~(Insert(a) /\ server)
      PROVE  server' = server /\ \A b \in Ids : rows[b].status = "none" => rows'[b].status = "none"
  <2>1. CASE DropBackup(a)
    <3>1. \A b \in Ids : rows[b].status = "none" => rows'[b].status = "none"
      BY <1>0, <2>1 DEF DropBackup, RowsOK, NoRow
    <3> QED BY <2>1, <3>1, Zenon DEF DropBackup
  <2>2. CASE server' = server /\ rows' = rows BY <2>2, Zenon
  <2> QED BY <1>6, <2>1, <2>2, Zenon DEF Serve, Ask, Check, ReadUsage, ReadPruned, Insert, SpawnBackup,
          GetBackup, UnlinkBackup, CancelTask, RemoveServer, RemoveFiles, store
<1>7. ASSUME Run
      PROVE  server' = server /\ \A b \in Ids : rows[b].status = "none" => rows'[b].status = "none"
  <2>1. CASE FinishBackup \/ FailRow BY <1>5, <2>1, Zenon DEF FinishBackup, FailRow
  <2>2. CASE PruneCommit
    <3>1. \A b \in Ids : rows[b].status = "none" => rows'[b].status = "none"
      BY <1>0, <2>2 DEF PruneCommit, RowsOK, NoRow
    <3> QED BY <2>2, <3>1, Zenon DEF PruneCommit
  <2>3. CASE server' = server /\ rows' = rows BY <2>3, Zenon
  <2> QED BY <1>7, <2>1, <2>2, <2>3, Zenon DEF Run, Begin, Before, Wait, Open, Archive, After, PruneSelect,
          PruneFile, End, FailUnlink, Cancelled, CancelledFails, store
<1>8. CASE Recover
  <2>1. \A b \in Ids : rows[b].status = "none" => rows'[b].status = "none" BY <1>0, <1>8 DEF Recover, RowsOK
  <2> QED BY <1>4, <1>8, <2>1, Zenon DEF Recover
<1>9. CASE PanelDies \/ Shutdown BY <1>4, <1>9, Zenon DEF PanelDies, Shutdown, store
<1>10. CASE UNCHANGED vars BY <1>4, <1>10, Zenon DEF vars
<1> QED BY <1>2, <1>3, <1>4, <1>6, <1>7, <1>8, <1>9, <1>10, Zenon DEF Next, Serve

\* A delete of the server that is not spoilt goes on to its end.
LEMMA GoneStays ==
    ASSUME TypeOK, Gone, [Next]_vars, events' \cap {"removeFails", "panelDies", "shutdown"} = {}
    PROVE  Gone'
<1>0. ReqOK BY DEF TypeOK, ReqOK
<1>1. \A kind \in {"removeFails", "panelDies", "shutdown"} : ~Fails(kind) BY DEF Fails
<1>2. ASSUME server' = server,
             \A a \in Reqs : req[a].pc \in {"await", "remove", "rmtree", "cascade"}
                          => req'[a].pc \in {"await", "remove", "rmtree", "cascade"}
      PROVE  Gone'
  BY <1>2, Zenon DEF Gone
<1>3. ASSUME NEW a \in Reqs, Ask(a) \/ Serve(a) PROVE Gone'
  <2>1. CASE Cascade(a) BY <2>1, Zenon DEF Cascade, Gone
  <2>2. CASE RemoveServer(a) \/ RemoveFiles(a)
    <3>1. Goto(a, "rmtree") \/ Goto(a, "cascade") BY <1>1, <2>2 DEF RemoveServer, RemoveFiles
    <3>2. \A c \in Reqs : req[c].pc \in {"await", "remove", "rmtree", "cascade"}
                       => req'[c].pc \in {"await", "remove", "rmtree", "cascade"}
      BY <1>0, <3>1 DEF Goto, ReqOK, Request
    <3>3. server' = server BY <2>2, Zenon DEF RemoveServer, RemoveFiles, store
    <3> QED BY <1>2, <3>2, <3>3
  <2>3. CASE ~Cascade(a) /\ ~RemoveServer(a) /\ ~RemoveFiles(a)
    <3>1. req[a].pc \notin {"await", "remove", "rmtree", "cascade"}
      <4>1. \/ req[a].pc \in {"check", "space", "pruned", "insert", "spawn", "get", "unlink", "drop", "cancel"}
            \/ req[a] = Idle
        BY <1>3, <2>3, Zenon DEF Serve, Ask, Check, ReadUsage, ReadPruned, Insert, SpawnBackup,
           GetBackup, UnlinkBackup, DropBackup, CancelTask
      <4> QED BY <4>1 DEF Idle
    <3>2. \A c \in Reqs \ {a} : req'[c] = req[c]
      <4>1. CASE Insert(a) \/ SpawnBackup(a) BY <1>0, <4>1 DEF Insert, SpawnBackup, Finish, ReqOK
      <4>2. CASE Attends(a) BY <4>2, AttendsMoves
      <4> QED BY <1>3, <4>1, <4>2, Zenon DEF Serve, Attends
    <3>3. server' = server
      BY <1>3, <2>3, Zenon DEF Serve, Ask, Check, ReadUsage, ReadPruned, Insert, SpawnBackup,
         GetBackup, UnlinkBackup, DropBackup, CancelTask, store
    <3> QED BY <1>2, <3>1, <3>2, <3>3
  <2> QED BY <2>1, <2>2, <2>3
<1>4. CASE Run
  <2>1. server' = server
    BY <1>4, Zenon DEF Run, Begin, Before, Wait, Open, Archive, After, FinishBackup, PruneSelect, PruneFile,
       PruneCommit, End, FailUnlink, FailRow, Cancelled, CancelledFails, store
  <2>2. req' = req \/ EndTask
    BY <1>4, Zenon DEF Run, Begin, Before, Wait, Open, Archive, After, FinishBackup, PruneSelect, PruneFile,
       PruneCommit, End, FailUnlink, FailRow, Cancelled, CancelledFails, Step
  <2>3. \A c \in Reqs : req[c].pc \in {"await", "remove", "rmtree", "cascade"}
                     => req'[c].pc \in {"await", "remove", "rmtree", "cascade"}
    BY <1>0, <2>2 DEF EndTask, ReqOK, Request
  <2> QED BY <1>2, <2>1, <2>3
<1>5. CASE PanelDies \/ Shutdown BY <1>1, <1>5 DEF PanelDies, Shutdown
<1>6. CASE Recover BY <1>2, <1>6, Zenon DEF Recover
<1>7. CASE UNCHANGED vars BY <1>2, <1>7, Zenon DEF vars
<1> QED BY <1>3, <1>4, <1>5, <1>6, <1>7, Zenon DEF Next

\* The steps of a request that makes no backup take no other's archive.
LEMMA AttendsCareful ==
    ASSUME TypeOK, CutOffInv, WorkInv, WithFile, Benign, Gone => Gone', up', NEW a \in Reqs, Attends(a)
    PROVE  Careful
<1>0. ReqOK /\ RowsOK /\ FilesOK /\ task \in Task BY DEF TypeOK, ReqOK, RowsOK, FilesOK
<1>1. \/ task' = task
      \/ task' = [task EXCEPT !.cancelled = TRUE]
      \/ task = NoTask /\ task' = [NoTask EXCEPT !.op = "other", !.pc = "end"]
  <2>1. CASE Check(a)
    <3>1. task' = task \/ (~Busy /\ Spawn([NoTask EXCEPT !.op = "other", !.pc = "end"]))
      BY <2>1, Zenon DEF Check
    <3> QED BY <3>1, Zenon DEF Spawn, Busy
  <2> QED BY <2>1, Zenon DEF Attends, Ask, ReadUsage, ReadPruned, GetBackup, UnlinkBackup, DropBackup,
          CancelTask, RemoveServer, RemoveFiles, Cascade, store
<1>2. /\ HasArchive' => HasArchive /\ task'.id = task.id
      /\ task'.pc = "fail" => task.pc = "fail" /\ task'.id = task.id
      /\ \A b : Pruned(b) => Pruned(b)'
  <2>1. CASE task' = task BY <2>1 DEF HasArchive, Pruned
  <2>2. CASE task' = [task EXCEPT !.cancelled = TRUE] BY <1>0, <2>2 DEF HasArchive, Pruned, Task
  <2>3. CASE task = NoTask /\ task' = [NoTask EXCEPT !.op = "other", !.pc = "end"]
    <3>1. task.pc = "none" /\ task'.pc = "end" BY <2>3 DEF NoTask
    <3> QED BY <3>1 DEF HasArchive, Pruned
  <2> QED BY <1>1, <2>1, <2>2, <2>3
<1>3. \/ UnlinkBackup(a) \/ Gone'
      \/ files' = files
  <2>1. CASE RemoveFiles(a)
    <3>1. req'[a].pc = "cascade" BY <1>0, <2>1 DEF RemoveFiles, Goto, ReqOK, Request
    <3> QED BY <3>1 DEF Gone
  <2> QED BY <2>1, Zenon DEF Attends, Ask, Check, ReadUsage, ReadPruned, GetBackup, DropBackup,
     CancelTask, RemoveServer, Cascade, store
<1>4. HasArchive' => files'[task.id] = files[task.id] \/ Gone'
  <2>1. CASE UnlinkBackup(a) /\ HasArchive
    <3>1. req[a].id # task.id BY <2>1 DEF UnlinkBackup, WorkInv, MakingAlone, Deletes, Working, HasArchive
    <3> QED BY <1>0, <2>1, <3>1 DEF UnlinkBackup, FilesOK
  <2> QED BY <1>2, <1>3, <2>1
<1>5. ASSUME NEW b \in Ids, rows'[b].status = "ready"
      PROVE  \/ Gone' \/ Dropped(b)' \/ Pruned(b)'
             \/ files'[b] = files[b] /\ ~Dropped(b) /\ ~Pruned(b) /\ rows[b].status = "ready"
  <2>1. rows[b].status = "ready" /\ rows'[b] = rows[b] BY <1>5, AttendsMoves DEF NoRow
  <2>2. Dropped(b) => Dropped(b)'
    <3> SUFFICES ASSUME NEW c \in Reqs, req[c].pc = "drop", req[c].id = b PROVE Dropped(b)' BY DEF Dropped
    <3>1. CASE c # a BY <3>1, AttendsMoves DEF Dropped
    <3>2. CASE c = a
      <4>1. DropBackup(a)
        <5>1. req[a].pc \in {"check", "space", "pruned", "get", "unlink", "cancel", "remove", "rmtree", "cascade"}
                 \/ DropBackup(a) \/ req[a] = Idle
          BY Zenon DEF Attends, Ask, Check, ReadUsage, ReadPruned, GetBackup, UnlinkBackup,
             CancelTask, RemoveServer, RemoveFiles, Cascade
        <5> QED BY <3>2, <5>1 DEF Idle
      <4>2. rows'[b] = NoRow BY <1>0, <3>2, <4>1 DEF DropBackup, RowsOK
      <4> QED BY <1>5, <4>2 DEF NoRow
    <3> QED BY <3>1, <3>2
  <2>3. CASE UnlinkBackup(a)
    <3>1. CASE b = req[a].id
      <4>1. req'[a].pc = "drop" /\ req'[a].id = b BY <1>0, <2>3, <3>1 DEF UnlinkBackup, Goto, ReqOK, Request
      <4> QED BY <4>1 DEF Dropped
    <3>2. CASE b # req[a].id
      <4>1. files'[b] = files[b] BY <1>0, <2>3, <3>2 DEF UnlinkBackup, FilesOK
      <4> QED BY <1>2, <2>1, <2>2, <4>1
    <3> QED BY <3>1, <3>2
  <2> QED BY <1>2, <1>3, <2>1, <2>2, <2>3
<1>6. task'.pc = "fail" => task'.id \in 1 .. made' /\ rows'[task'.id].status \in Unmade
  <2> SUFFICES ASSUME task'.pc = "fail" PROVE task'.id \in 1 .. made' /\ rows'[task'.id].status \in Unmade
    OBVIOUS
  <2>1. task.id \in 1 .. made /\ rows[task.id].status \in Unmade /\ task'.id = task.id BY <1>2 DEF WithFile
  <2>2. task.id \in Ids BY <2>1, BoundsAssumption DEF TypeOK, Ids
  <2> QED BY <2>1, <2>2, AttendsMoves DEF NoRow, Unmade
<1> QED BY <1>2, <1>4, <1>5, <1>6, Zenon DEF Careful

\* A new row comes without an archive, but it is not ready.
LEMMA MakesCareful ==
    ASSUME TypeOK, CutOffInv, WorkInv, WithFile, Benign, Gone => Gone', up', NEW a \in Reqs,
           Insert(a) \/ SpawnBackup(a)
    PROVE  Careful
<1>0. ReqOK /\ RowsOK /\ FilesOK /\ task \in Task /\ made \in Nat /\ 1 .. made \subseteq Ids
  BY BoundsAssumption DEF TypeOK, ReqOK, RowsOK, FilesOK, Ids
<1>1. files' = files /\ req[a].pc \in {"insert", "spawn"} BY Zenon DEF Insert, SpawnBackup, store
<1>2. \A c \in Reqs \ {a} : req'[c] = req[c] BY <1>0 DEF Insert, SpawnBackup, Finish, ReqOK
<1>3. \A b \in Ids : Dropped(b) => Dropped(b)' BY <1>1, <1>2 DEF Dropped
<1>4. CASE Insert(a)
  <2>1. task' = task BY <1>4, Zenon DEF Insert
  <2>2. \/ made' = made + 1 /\ \E r : rows' = [rows EXCEPT ![made + 1] = r] /\ r.status = "creating"
        \/ made' = made /\ rows' = rows
    BY <1>4 DEF Insert
  <2>3. \A b \in Ids : rows'[b].status = "ready" => rows[b].status = "ready"
    BY <1>0, <2>2 DEF RowsOK
  <2>4. \A b \in 1 .. made : b \in 1 .. made' /\ rows'[b] = rows[b]
    <3>1. \A b \in 1 .. made : b # made + 1 /\ b \in 1 .. made + 1 BY <1>0
    <3> QED BY <1>0, <2>2, <3>1 DEF RowsOK
  <2>5. task'.pc = "fail" => task'.id \in 1 .. made' /\ rows'[task'.id].status \in Unmade
    BY <2>1, <2>4 DEF WithFile
  <2>6. HasArchive' = HasArchive /\ \A b : Pruned(b)' = Pruned(b) BY <2>1 DEF HasArchive, Pruned
  <2> QED BY <1>1, <1>3, <2>1, <2>3, <2>5, <2>6 DEF Careful
<1>5. CASE SpawnBackup(a)
  <2>1. made' = made /\ rows' = rows BY <1>5, Zenon DEF SpawnBackup, store
  <2>2. \/ task' = task
        \/ task = NoTask /\ task' = [NoTask EXCEPT !.op = req[a].op, !.pc = "begin", !.id = req[a].id]
    BY <1>5, Zenon DEF SpawnBackup, Spawn, Busy
  <2>3. CASE task' = task
    <3>1. HasArchive' = HasArchive /\ \A b : Pruned(b)' = Pruned(b) BY <2>3 DEF HasArchive, Pruned
    <3> QED BY <1>1, <1>3, <2>1, <2>3, <3>1 DEF Careful, WithFile
  <2>4. CASE task = NoTask /\ task' = [NoTask EXCEPT !.op = req[a].op, !.pc = "begin", !.id = req[a].id]
    <3>1. task'.pc = "begin" /\ task.pc = "none" BY <2>4 DEF NoTask
    <3>2. HasArchive' = FALSE /\ \A b : ~Pruned(b) BY <3>1 DEF HasArchive, Pruned
    <3> QED BY <1>1, <1>3, <2>1, <3>1, <3>2 DEF Careful
  <2> QED BY <2>2, <2>3, <2>4
<1> QED BY <1>4, <1>5

\* The task takes only its own archive, and those it is about to prune.
LEMMA RunCareful ==
    ASSUME TypeOK, CutOffInv, WorkInv, WithFile, Benign, Benign', Gone => Gone', Run
    PROVE  Careful
<1>0. ReqOK /\ RowsOK /\ FilesOK /\ task \in Task /\ made \in Nat /\ 1 .. made \subseteq Ids
  BY BoundsAssumption DEF TypeOK, ReqOK, RowsOK, FilesOK, Ids
<1>1. made' = made /\ up' /\ ~Fails("pruneFails") BY RunMoves DEF Benign, Spared, Fails
<1>2. \A b : Dropped(b) => Dropped(b)' BY RunMoves DEF Dropped
<1>3. task.cancelled => Gone'
  <2>1. task.cancelled => Gone BY DEF WorkInv, CancelledForDelete, Gone
  <2> QED BY <2>1
<1>4. task.pc \in Working => task.id \in 1 .. made /\ rows[task.id].status \in Unmade
  BY DEF WorkInv, MakingAlone
<1>5. task.pc \in Early => task.ok = FALSE BY DEF CutOffInv
<1>6. CASE Begin \/ Before \/ Wait \/ Open \/ Archive
  <2>1. task.pc \in Early /\ ~task.cancelled BY <1>6 DEF Begin, Before, Wait, Open, Archive, At, Early
  <2>2. rows' = rows /\ task'.id = task.id
    BY <1>0, <1>6 DEF Begin, Before, Wait, Open, Archive, Step, Task, store
  <2>3. \A b \in Ids : b # task.id => files'[b] = files[b]
    BY <1>0, <1>6 DEF Begin, Before, Wait, Open, Archive, FilesOK, store
  <2>4. \A b : ~Pruned(b) BY <2>1 DEF Pruned, Early
  <2>5. HasArchive' => files'[task'.id] = "whole"
    <3>1. CASE Begin BY <1>0, <3>1 DEF Begin, Step, Task, HasArchive
    <3>2. CASE Before \/ Wait BY <1>0, <3>2 DEF Before, Wait, Step, Task, HasArchive
    <3>3. CASE Open BY <1>0, <1>5, <2>1, <3>3 DEF Open, Step, Task, HasArchive
    <3>4. CASE Archive
      <4>1. CASE Step(IF task.running THEN "after" ELSE "fail")
        BY <1>0, <1>5, <2>1, <4>1 DEF Step, Task, HasArchive
      <4>2. CASE files' = [files EXCEPT ![task.id] = "whole"]
        BY <1>0, <1>4, <2>1, <2>2, <4>2 DEF FilesOK, Working
      <4> QED BY <3>4, <4>1, <4>2, Zenon DEF Archive
    <3> QED BY <1>6, <3>1, <3>2, <3>3, <3>4
  <2>6. rows[task.id].status # "ready" /\ task.id \in 1 .. made /\ rows[task.id].status \in Unmade
    BY <1>4, <2>1 DEF Working, Unmade
  <2>7. ~HasArchive BY <2>1 DEF HasArchive, Early
  <2> QED BY <1>1, <1>2, <2>2, <2>3, <2>4, <2>5, <2>6 DEF Careful
<1>7. CASE After
  <2>1. rows' = rows /\ files' = files BY <1>7, Zenon DEF After, store
  <2>2. /\ task'.id = task.id /\ task.pc = "after"
        /\ HasArchive' => HasArchive
    BY <1>0, <1>7 DEF After, At, Step, Task, HasArchive
  <2>3. \A b : ~Pruned(b) BY <2>2 DEF Pruned
  <2> QED BY <1>1, <1>2, <1>4, <2>1, <2>2, <2>3 DEF Careful, Working
<1>8. CASE FinishBackup
  <2>1. files' = files BY <1>8, Zenon DEF FinishBackup
  <2>2. task.pc = "finish" /\ task'.pc \in {"select", "end"} BY <1>0, <1>8 DEF FinishBackup, At, Step, Task
  <2>3. \A b \in Ids : b # task.id => rows'[b] = rows[b] BY <1>0, <1>8 DEF FinishBackup, SetStatus, RowsOK
  <2>4. HasArchive /\ ~HasArchive' /\ \A b : ~Pruned(b) BY <2>2 DEF HasArchive, Pruned
  <2> QED BY <1>1, <1>2, <2>1, <2>2, <2>3, <2>4 DEF Careful
<1>9. CASE PruneSelect
  <2>1. rows' = rows /\ files' = files BY <1>9, Zenon DEF PruneSelect, store
  <2>2. task.pc = "select" /\ task'.pc = "prune" BY <1>0, <1>9 DEF PruneSelect, At, Task
  <2>3. ~HasArchive' /\ \A b : ~Pruned(b) BY <2>2 DEF HasArchive, Pruned
  <2> QED BY <1>1, <1>2, <2>1, <2>2, <2>3 DEF Careful
<1>10. CASE PruneFile
  <2>1. PICK newest \in task.left : files' = [files EXCEPT ![newest] = "none"] /\ task' = [task EXCEPT !.left = @ \ {newest}]
    BY <1>1, <1>10, Zenon DEF PruneFile
  <2>2. rows' = rows BY <1>10, Zenon DEF PruneFile
  <2>3. task.pc = "prune" /\ task'.pc = "prune" /\ task'.olds = task.olds BY <1>0, <1>10, <2>1 DEF PruneFile, At, Task
  <2>4. newest \in task.olds BY <2>3 DEF WorkInv, OwnOnly
  <2>5. ~HasArchive' /\ \A b : Pruned(b) => Pruned(b)' BY <2>3 DEF HasArchive, Pruned
  <2>6. Pruned(newest)' BY <2>3, <2>4 DEF Pruned
  <2>7. \A b \in Ids : b # newest => files'[b] = files[b] BY <1>0, <2>1 DEF FilesOK
  <2> QED BY <1>1, <1>2, <2>2, <2>3, <2>5, <2>6, <2>7 DEF Careful
<1>11. CASE PruneCommit
  <2>1. files' = files BY <1>11, Zenon DEF PruneCommit
  <2>2. task.pc = "prune" /\ task'.pc = "end" BY <1>0, <1>1, <1>11 DEF PruneCommit, At, Step, Task
  <2>3. \A b \in Ids : IF b \in task.olds THEN rows'[b] = NoRow ELSE rows'[b] = rows[b]
    BY <1>1, <1>11 DEF PruneCommit
  <2>4. \A b \in Ids : rows'[b].status = "ready" => rows[b].status = "ready" /\ ~Pruned(b)
    BY <2>3 DEF Pruned, NoRow
  <2>5. ~HasArchive' BY <2>2 DEF HasArchive
  <2> QED BY <1>1, <1>2, <2>1, <2>2, <2>4, <2>5 DEF Careful
<1>12. CASE FailUnlink
  <2>1. rows' = rows BY <1>12, Zenon DEF FailUnlink
  <2>2. task.pc = "fail" /\ task'.pc = "failed" BY <1>0, <1>12 DEF FailUnlink, At, Step, Task
  <2>3. rows[task.id].status # "ready" BY <2>2 DEF WithFile, Unmade
  <2>4. \A b \in Ids : b # task.id => files'[b] = files[b] BY <1>0, <1>12 DEF FailUnlink, FilesOK
  <2>5. ~HasArchive' /\ \A b : ~Pruned(b) BY <2>2 DEF HasArchive, Pruned
  <2> QED BY <1>1, <1>2, <2>1, <2>2, <2>3, <2>4, <2>5 DEF Careful
<1>13. CASE FailRow
  <2>1. files' = files BY <1>13, Zenon DEF FailRow
  <2>2. task.pc = "failed" /\ task'.pc = "end" BY <1>0, <1>13 DEF FailRow, At, Step, Task
  <2>3. \A b \in Ids : rows'[b].status = "ready" => rows[b].status = "ready"
    BY <1>0, <1>13 DEF FailRow, SetStatus, RowsOK, Row
  <2>4. ~HasArchive' /\ \A b : ~Pruned(b) BY <2>2 DEF HasArchive, Pruned
  <2> QED BY <1>1, <1>2, <2>1, <2>2, <2>3, <2>4 DEF Careful
<1>14. CASE End
  <2>1. files' = files /\ rows' = rows /\ task' = NoTask /\ task.pc = "end" BY <1>14, Zenon DEF End, At, EndTask, store
  <2>2. task'.pc = "none" BY <2>1 DEF NoTask
  <2>3. ~HasArchive' /\ \A b : ~Pruned(b) BY <2>1, <2>2 DEF HasArchive, Pruned
  <2> QED BY <1>1, <1>2, <2>1, <2>2, <2>3 DEF Careful
<1>15. CASE Cancelled
  <2>1. task' = NoTask BY <1>15, Zenon DEF Cancelled, EndTask
  <2>2. task'.pc = "none" BY <2>1 DEF NoTask
  <2>3. ~HasArchive' BY <2>2 DEF HasArchive
  <2>4. Gone' BY <1>3, <1>15 DEF Cancelled
  <2> QED BY <1>1, <2>2, <2>3, <2>4 DEF Careful
<1>16. CASE CancelledFails
  <2>1. rows' = rows BY <1>16, Zenon DEF CancelledFails, store
  <2>2. task'.pc = "fail" /\ task'.id = task.id BY <1>0, <1>16 DEF CancelledFails, Task
  <2>3. ~HasArchive' BY <2>2 DEF HasArchive
  <2>4. Gone' BY <1>3, <1>16 DEF CancelledFails
  <2> QED BY <1>1, <1>4, <1>16, <2>1, <2>2, <2>3, <2>4 DEF Careful, CancelledFails, Working, Early
<1> QED BY <1>6, <1>7, <1>8, <1>9, <1>10, <1>11, <1>12, <1>13, <1>14, <1>15, <1>16, Zenon DEF Run

\* A ready backup can be restored (_finish_backup, delete_backup, _prune_backups):
\* its archive is there, as long as no pruning and no removal fails and the panel
\* is not ended in the middle.
THEOREM ReadyBackupHasFile == Spec => []ReadyHasFile
<1>1. Init => NoRows /\ WithFile
  <2>1. CASE Init
    <3>1. \A b \in Ids : rows[b].status = "none" BY <2>1 DEF Init, NoRow
    <3>2. task.pc = "none" BY <2>1 DEF Init, NoTask
    <3>3. up BY <2>1, Zenon DEF Init
    <3> QED BY <3>1, <3>2, <3>3 DEF NoRows, WithFile, HasArchive
  <2> QED BY <2>1
<1>2. TypeOK /\ CutOffInv /\ WorkInv /\ NoRows /\ WithFile /\ [Next]_vars => NoRows' /\ WithFile'
  <2> SUFFICES ASSUME TypeOK, CutOffInv, WorkInv, NoRows, WithFile, [Next]_vars, Benign'
               PROVE  NoRows' /\ WithFile'
    BY NoRowsKeeps DEF WithFile
  <2>1. Benign BY EventsGrow DEF Benign, Spared
  <2>2. up BY <2>1, Zenon DEF WithFile
  <2>3. Gone => Gone' BY GoneStays DEF Benign, Spared
  <2>4. ASSUME Careful PROVE WithFile' BY <2>1, <2>4, CarefulKeeps
  <2>5. ASSUME NEW a \in Reqs, Ask(a) \/ Serve(a) PROVE Careful
    <3>1. up'
      BY <2>2, <2>5, Zenon DEF Serve, Ask, Check, ReadUsage, ReadPruned, Insert, SpawnBackup,
         GetBackup, UnlinkBackup, DropBackup, CancelTask, RemoveServer, RemoveFiles, Cascade
    <3> QED BY <2>1, <2>3, <2>5, <3>1, AttendsCareful, MakesCareful, Zenon DEF Serve, Attends
  <2>6. ASSUME Run PROVE Careful BY <2>1, <2>3, <2>6, RunCareful
  <2>7. CASE PanelDies \/ Shutdown BY <2>7 DEF PanelDies, Shutdown, Fails, Benign, Spared
  <2>8. CASE Recover BY <2>2, <2>8, Zenon DEF Recover
  <2>9. CASE UNCHANGED vars
    BY <2>9, Zenon DEF vars, NoRows, WithFile, HasArchive, Gone, Dropped, Pruned, Benign, Spared
  <2> QED BY <2>4, <2>5, <2>6, <2>7, <2>8, <2>9, NoRowsKeeps, Zenon DEF Next
<1>3. NoRows /\ WithFile => ReadyHasFile
  <2> SUFFICES ASSUME NoRows, WithFile, Benign, Quiet, NEW b \in Ids, rows[b].status = "ready"
               PROVE  files[b] = "whole"
    BY DEF ReadyHasFile, Restorable, Benign
  <2>1. task.pc = "none" /\ \A a \in Reqs : req[a].pc = "idle" BY DEF Quiet, NoTask, Idle
  <2>2. server BY DEF NoRows
  <2>3. ~Gone /\ ~Dropped(b) /\ ~Pruned(b) BY <2>1, <2>2 DEF Gone, Dropped, Pruned
  <2> QED BY <2>3 DEF WithFile
<1> QED BY <1>1, <1>2, <1>3, WorkCorrect, PTL DEF Spec
----------------------------------------------------------------------------
\* The game was told not to save, and the task has yet to tell it otherwise.
Pausing == task.running = TRUE /\ task.pc \in {"wait", "open", "archive", "after"}

\* Nothing went wrong but an archive or a pruning.
CommandsWork == events \subseteq {"archiveFails", "pruneFails"}

\* A game does not save only while its backup is made, or its server deleted.
SavesInv ==
    /\ task.pc = "before" => task.running = TRUE
    /\ CommandsWork => saves \/ Gone \/ Pausing

LEMMA SavesKeeps ==
    ASSUME TypeOK, WorkInv, SavesInv, [Next]_vars
    PROVE  SavesInv'
<1>0. ReqOK /\ task \in Task BY DEF TypeOK, ReqOK
<1>1. ASSUME NEW a \in Reqs, Ask(a) \/ Serve(a)
      PROVE  /\ saves' = saves
             /\ task'.pc = "before" => task.pc = "before" /\ task'.running = task.running
             /\ Pausing => Pausing'
  <2>1. saves' = saves
    BY <1>1, Zenon DEF Serve, Ask, Check, ReadUsage, ReadPruned, Insert, SpawnBackup,
       GetBackup, UnlinkBackup, DropBackup, CancelTask, RemoveServer, RemoveFiles, Cascade
  <2>2. \/ task' = task
        \/ task' = [task EXCEPT !.cancelled = TRUE]
        \/ task = NoTask /\ task'.pc \in {"begin", "end"}
    <3>1. CASE Check(a)
      <4>1. task' = task \/ (task = NoTask /\ task' = [NoTask EXCEPT !.op = "other", !.pc = "end"])
        BY <3>1, Zenon DEF Check, Spawn, Busy
      <4> QED BY <4>1 DEF NoTask
    <3>2. CASE SpawnBackup(a)
      <4>1. \/ task' = task
            \/ task = NoTask /\ task' = [NoTask EXCEPT !.op = req[a].op, !.pc = "begin", !.id = req[a].id]
        BY <3>2, Zenon DEF SpawnBackup, Spawn, Busy
      <4> QED BY <4>1 DEF NoTask
    <3>3. CASE CancelTask(a) BY <3>3, Zenon DEF CancelTask
    <3> QED BY <1>1, <3>1, <3>2, <3>3, Zenon DEF Serve, Ask, ReadUsage, ReadPruned, Insert,
            GetBackup, UnlinkBackup, DropBackup, RemoveServer, RemoveFiles, Cascade, store
  <2>3. CASE task' = task BY <2>1, <2>3 DEF Pausing
  <2>4. CASE task' = [task EXCEPT !.cancelled = TRUE] BY <1>0, <2>1, <2>4 DEF Pausing, Task
  <2>5. CASE task = NoTask /\ task'.pc \in {"begin", "end"}
    <3>1. task.pc = "none" /\ task'.pc # "before" BY <2>5 DEF NoTask
    <3> QED BY <2>1, <3>1 DEF Pausing
  <2> QED BY <2>2, <2>3, <2>4, <2>5
<1>2. (task.pc = "before" => task.running = TRUE)'
  <2>1. CASE Begin BY <1>0, <2>1 DEF Begin, Step, Task
  <2>2. CASE \E pc \in TaskPc \ {"before"} : Step(pc) BY <1>0, <2>2 DEF Step, Task, TaskPc
  <2>3. CASE Archive \/ PruneSelect \/ CancelledFails
    BY <1>0, <2>3 DEF Archive, Step, PruneSelect, CancelledFails, Task
  <2>4. CASE PruneFile
    <3>1. PICK newest : task' = [task EXCEPT !.left = @ \ {newest}] \/ Step("fail")
      BY <2>4, Zenon DEF PruneFile
    <3> QED BY <1>0, <2>4, <3>1 DEF PruneFile, At, Step, Task
  <2>5. CASE task' = NoTask BY <2>5 DEF NoTask
  <2>6. CASE \E a \in Reqs : Ask(a) \/ Serve(a) BY <1>1, <2>6 DEF SavesInv
  <2>7. CASE task' = task BY <2>7 DEF SavesInv
  <2>8. CASE Before \/ Wait \/ Open \/ After \/ FinishBackup \/ PruneCommit \/ FailUnlink \/ FailRow
    BY <2>2, <2>8 DEF Before, Wait, Open, After, FinishBackup, PruneCommit, FailUnlink, FailRow, TaskPc
  <2> QED BY <2>1, <2>3, <2>4, <2>5, <2>6, <2>7, <2>8, Zenon DEF Next, Run, End, Cancelled, EndTask,
          PanelDies, Shutdown, Down, Recover, vars
<1>3. ASSUME CommandsWork' PROVE saves' \/ Gone' \/ Pausing'
  <2>1. CommandsWork BY <1>3, EventsGrow DEF CommandsWork
  <2>2. \A kind \in {"commandFails", "removeFails", "panelDies", "shutdown"} : ~Fails(kind)
    BY <1>3 DEF CommandsWork, Fails
  <2>3. Gone => Gone' BY <1>3, GoneStays DEF CommandsWork
  <2>4. task.cancelled => Gone' BY <2>3 DEF WorkInv, CancelledForDelete, Gone
  <2>5. saves \/ Gone \/ Pausing BY <2>1, Zenon DEF SavesInv
  <2>6. CASE saves' = saves /\ (Pausing => Pausing') BY <2>3, <2>5, <2>6, Zenon
  <2>7. CASE Before
    <3>1. task.pc = "before" /\ Step("wait") BY <2>2, <2>7, Zenon DEF Before, At
    <3>2. task'.pc = "wait" /\ task'.running = task.running BY <1>0, <3>1 DEF Step, Task
    <3> QED BY <3>1, <3>2 DEF SavesInv, Pausing
  <2>8. CASE Wait \/ Open \/ Archive
    <3>1. saves' = saves BY <2>8, Zenon DEF Wait, Open, Archive
    <3>2. Pausing => Pausing' BY <1>0, <2>8 DEF Wait, Open, Archive, Step, Pausing, Task
    <3> QED BY <2>6, <3>1, <3>2
  <2>9. CASE After BY <2>2, <2>9, Zenon DEF After
  <2>10. CASE Begin \/ FinishBackup \/ PruneSelect \/ PruneFile \/ PruneCommit \/ End \/ FailUnlink \/ FailRow
    <3>1. saves' = saves
      BY <2>10, Zenon DEF Begin, FinishBackup, PruneSelect, PruneFile, PruneCommit, End, FailUnlink, FailRow
    <3>2. ~Pausing
      BY <2>10 DEF Begin, FinishBackup, PruneSelect, PruneFile, PruneCommit, End, FailUnlink, FailRow, At, Pausing
    <3> QED BY <2>6, <3>1, <3>2
  <2>11. CASE Cancelled \/ CancelledFails BY <2>4, <2>11, Zenon DEF Cancelled, CancelledFails
  <2>12. CASE PanelDies \/ Shutdown BY <2>2, <2>12, Zenon DEF PanelDies, Shutdown
  <2>13. CASE Recover \/ UNCHANGED vars
    <3>1. saves' = saves /\ task' = task BY <2>13, Zenon DEF Recover, vars
    <3> QED BY <2>6, <3>1 DEF Pausing
  <2> QED BY <1>1, <2>6, <2>7, <2>8, <2>9, <2>10, <2>11, <2>12, <2>13, Zenon DEF Next, Run
<1> QED BY <1>2, <1>3, Zenon DEF SavesInv

\* Saving is paused only while the world is archived (backup_before and
\* backup_after): when nothing goes on the game saves by itself, whichever
\* backups failed, were cancelled or pruned, unless a command or the panel failed.
THEOREM SavingResumes == Spec => []SavesAgain
<1>1. Init => SavesInv
  <2>1. ASSUME Init PROVE saves /\ task.pc = "none"
    <3>1. task.pc = "none" BY <2>1 DEF Init, NoTask
    <3> QED BY <2>1, <3>1, Zenon DEF Init
  <2> QED BY <2>1 DEF SavesInv
<1>2. SavesInv => SavesAgain
  <2> SUFFICES ASSUME SavesInv, Quiet, server, CommandsWork PROVE saves BY DEF SavesAgain, CommandsWork
  <2>1. task.pc = "none" /\ \A a \in Reqs : req[a].pc = "idle" BY DEF Quiet, NoTask, Idle
  <2>2. ~Gone /\ ~Pausing BY <2>1 DEF Gone, Pausing
  <2> QED BY <2>2, Zenon DEF SavesInv
<1> QED BY <1>1, <1>2, SavesKeeps, WorkCorrect, PTL DEF Spec
----------------------------------------------------------------------------
(***************************************************************************)
(* Proofs about BackupStore when its requests come one after the other:    *)
(* rows and archives stay in step, and the backups within their room.      *)
(* With requests at the same time neither is so (a delete of the server    *)
(* leaves the archive of a backup that was about to begin), whatever the   *)
(* other constants are.                                                    *)
(***************************************************************************)

\* One request at a time: the next is asked when the last has its answer.
OneRequest == \A a, b \in Reqs : a = b

\* From the check that no task runs to the end, the request has the server alone.
Alone ==
    \A a \in Reqs : req[a].pc \in {"space", "pruned", "insert", "spawn", "remove", "rmtree", "cascade"}
                       => task = NoTask

\* Another task than a backup has no steps but its end.
OthersEnd == task.op = "other" => task.pc = "end"

\* A row says creating until its backup is settled, and not after.
Begun ==
    /\ \A a \in Reqs : req[a].pc = "spawn" => rows[req[a].id].status = "creating"
    /\ task.pc \in Working => rows[task.id].status = "creating"
    /\ task.pc \in {"select", "prune", "end"} => task.id = 0 \/ rows[task.id].status # "creating"

\* What a request for a backup was asked to do.
Asked ==
    \A a \in Reqs :
       /\ req[a].pc \in {"check", "space", "pruned", "insert", "spawn"} => req[a].op \in {"create", "schedule", "other"}
       /\ req[a].pc \in {"space", "pruned", "insert", "spawn"} => req[a].op # "other"
       /\ req[a].pc = "pruned" => req[a].op # "create"

OrderInv == Asked /\ Alone /\ OthersEnd /\ Begun

\* The task is none but its own two steps take it away or up.
LEMMA AttendsTask ==
    ASSUME TypeOK, NEW a \in Reqs, Attends(a)
    PROVE  \/ task' = task
           \/ task' = [task EXCEPT !.cancelled = TRUE] /\ req'[a].pc = "await"
           \/ task = NoTask /\ task' = [NoTask EXCEPT !.op = "other", !.pc = "end"] /\ req'[a] = Idle
<1>0. ReqOK BY DEF TypeOK, ReqOK
<1>1. CASE Check(a)
  <2>1. \/ task' = task
        \/ task = NoTask /\ task' = [NoTask EXCEPT !.op = "other", !.pc = "end"] /\ Finish(a)
    BY <1>1, Zenon DEF Check, Spawn, Busy
  <2> QED BY <1>0, <2>1 DEF Finish, ReqOK
<1>2. CASE CancelTask(a)
  <2>1. task' = task \/ (task' = [task EXCEPT !.cancelled = TRUE] /\ Goto(a, "await"))
    BY <1>2, Zenon DEF CancelTask
  <2> QED BY <1>0, <2>1 DEF Goto, ReqOK, Request
<1> QED BY <1>1, <1>2, Zenon DEF Attends, Ask, ReadUsage, ReadPruned, GetBackup, UnlinkBackup, DropBackup,
        RemoveServer, RemoveFiles, Cascade, store

\* A request's step keeps the order.
LEMMA AttendsOrder ==
    ASSUME TypeOK, WorkInv, OneRequest, OrderInv, NEW a \in Reqs, Attends(a)
    PROVE  OrderInv'
<1>0. ReqOK /\ RowsOK /\ task \in Task /\ (\A c \in Reqs : c = a)
  BY DEF TypeOK, ReqOK, RowsOK, OneRequest
<1>1. Alone'
  <2> SUFFICES ASSUME req'[a].pc \in {"space", "pruned", "insert", "spawn", "remove", "rmtree", "cascade"}
               PROVE  task' = NoTask
    BY <1>0 DEF Alone
  <2>1. task' = task BY AttendsTask DEF Idle
  <2>2. CASE Check(a) \/ CancelTask(a)
    <3>1. ~Busy \/ Finish(a) \/ Goto(a, "await") BY <2>2, Zenon DEF Check, CancelTask
    <3>2. ~Finish(a) /\ ~Goto(a, "await") BY <1>0 DEF Finish, Goto, Idle, ReqOK, Request
    <3> QED BY <2>1, <3>1, <3>2 DEF Busy
  <2>3. CASE Ask(a) BY <1>0, <2>3 DEF Ask, ReqOK, Idle
  <2>4. CASE GetBackup(a) BY <1>0, <2>4 DEF GetBackup, Finish, ReqOK, Request, Idle
  <2>5. CASE UnlinkBackup(a) \/ DropBackup(a)
    <3>1. Goto(a, "drop") \/ Finish(a) BY <2>5, Zenon DEF UnlinkBackup, DropBackup
    <3> QED BY <1>0, <3>1 DEF Finish, Goto, Idle, ReqOK, Request
  <2>6. CASE ReadUsage(a) \/ ReadPruned(a) \/ RemoveServer(a) \/ RemoveFiles(a) \/ Cascade(a)
    <3>1. req[a].pc \in {"space", "pruned", "remove", "rmtree", "cascade"}
      BY <2>6, Zenon DEF ReadUsage, ReadPruned, RemoveServer, RemoveFiles, Cascade
    <3> QED BY <2>1, <3>1 DEF OrderInv, Alone
  <2> QED BY <2>2, <2>3, <2>4, <2>5, <2>6 DEF Attends
<1>2. OthersEnd'
  <2>1. CASE task' = task \/ task' = [task EXCEPT !.cancelled = TRUE]
    BY <1>0, <2>1 DEF OrderInv, OthersEnd, Task
  <2>2. CASE task' = [NoTask EXCEPT !.op = "other", !.pc = "end"] BY <2>2 DEF OthersEnd, NoTask
  <2> QED BY <2>1, <2>2, AttendsTask
<1>3. req'[a].pc # "spawn" BY AttendsMoves
<1>4. \/ task'.pc = task.pc /\ task'.id = task.id
      \/ task'.pc = "end" /\ task'.id = 0
  BY <1>0, AttendsMoves DEF Task, NoTask
<1>5. ASSUME task'.pc \in Working PROVE rows'[task'.id].status = "creating"
  <2>1. task'.id = task.id /\ task.pc \in Working BY <1>4, <1>5 DEF Working, Early
  <2>2. task.id \in Ids /\ rows[task.id].status = "creating" /\ ~Deletes(a, task.id)
    BY <2>1, BoundsAssumption DEF OrderInv, Begun, WorkInv, MakingAlone, TypeOK, Ids
  <2>3. CASE DropBackup(a)
    <3>1. req[a].id # task.id BY <2>2, <2>3 DEF DropBackup, Deletes
    <3> QED BY <1>0, <2>1, <2>2, <2>3, <3>1 DEF DropBackup, RowsOK
  <2>4. ~Cascade(a)
    <3>1. task # NoTask BY <2>1 DEF NoTask, Working, Early
    <3> QED BY <3>1 DEF Cascade, OrderInv, Alone
  <2>5. DropBackup(a) \/ rows' = rows
    BY <2>4, Zenon DEF Attends, Ask, Check, ReadUsage, ReadPruned, GetBackup,
          UnlinkBackup, CancelTask, RemoveServer, RemoveFiles, store
  <2> QED BY <2>1, <2>2, <2>3, <2>5
<1>6. task'.pc \in {"select", "prune", "end"} => task'.id = 0 \/ rows'[task'.id].status # "creating"
  <2> SUFFICES ASSUME task'.pc \in {"select", "prune", "end"}, task'.id # 0
               PROVE  rows'[task'.id].status # "creating"
    OBVIOUS
  <2>1. task'.pc = task.pc /\ task'.id = task.id /\ task.id \in Ids BY <1>0, <1>4 DEF Task
  <2>2. rows[task.id].status # "creating" BY <2>1 DEF OrderInv, Begun
  <2> QED BY <2>1, <2>2, AttendsMoves DEF NoRow
<1>7. Begun' BY <1>0, <1>3, <1>5, <1>6 DEF Begun
<1>8. Asked'
  <2>1. CASE Ask(a)
    <3>1. PICK op \in Ops : req' = [req EXCEPT ![a] = [Idle EXCEPT !.op = op, !.pc =
             CASE op = "remove" -> "get" [] op = "delete" -> "cancel" [] OTHER -> "check"]]
      BY <2>1, Zenon DEF Ask
    <3>2. /\ req'[a].op = op /\ req'[a].pc \in {"get", "cancel", "check"}
          /\ req'[a].pc = "check" => op \notin {"remove", "delete"}
      BY <1>0, <3>1 DEF ReqOK, Idle
    <3> QED BY <1>0, <3>2, OpsAssumption DEF Asked, AllOps
  <2>2. CASE Check(a)
    <3>1. Finish(a) \/ (req[a].op # "other" /\ Goto(a, "space")) BY <2>2, Zenon DEF Check
    <3>2. req[a].pc = "check" BY <2>2 DEF Check
    <3> QED BY <1>0, <3>1, <3>2 DEF Finish, Goto, Idle, ReqOK, Request, OrderInv, Asked
  <2>3. CASE ReadUsage(a) BY <1>0, <2>3 DEF ReadUsage, Finish, Idle, ReqOK, Request, OrderInv, Asked
  <2>4. CASE ReadPruned(a) BY <1>0, <2>4 DEF ReadPruned, Finish, Goto, Idle, ReqOK, Request, OrderInv, Asked
  <2>5. CASE GetBackup(a) BY <1>0, <2>5 DEF GetBackup, Finish, Idle, ReqOK, Request, Asked
  <2>6. CASE UnlinkBackup(a) \/ DropBackup(a) \/ CancelTask(a) \/ RemoveServer(a) \/ RemoveFiles(a) \/ Cascade(a)
    <3>1. Finish(a) \/ \E pc \in {"drop", "remove", "await", "rmtree", "cascade"} : Goto(a, pc)
      BY <2>6 DEF UnlinkBackup, DropBackup, CancelTask, RemoveServer, RemoveFiles, Cascade
    <3> QED BY <1>0, <3>1 DEF Finish, Goto, Idle, ReqOK, Request, Asked
  <2> QED BY <2>1, <2>2, <2>3, <2>4, <2>5, <2>6 DEF Attends
<1> QED BY <1>1, <1>2, <1>7, <1>8 DEF OrderInv

\* The row is made, and taken over by its task, while no other task runs.
LEMMA MakesOrder ==
    ASSUME TypeOK, WorkInv, OneRequest, OrderInv, NEW a \in Reqs, Insert(a) \/ SpawnBackup(a)
    PROVE  OrderInv'
<1>0. ReqOK /\ RowsOK /\ task \in Task /\ (\A c \in Reqs : c = a) /\ made \in Nat
  BY BoundsAssumption DEF TypeOK, ReqOK, RowsOK, OneRequest
<1>1. req[a].pc \in {"insert", "spawn"} BY Zenon DEF Insert, SpawnBackup
<1>2. task = NoTask BY <1>1 DEF OrderInv, Alone
<1>3. CASE Insert(a)
  <2>1. task' = NoTask BY <1>2, <1>3, Zenon DEF Insert
  <2>2. Alone' BY <2>1, Zenon DEF Alone
  <2>3. OthersEnd' BY <2>1 DEF OthersEnd, NoTask
  <2>4. req'[a].pc = "spawn" => rows'[req'[a].id].status = "creating" /\ req'[a].op = req[a].op
    <3>1. CASE Finish(a) BY <1>0, <3>1 DEF Finish, Idle, ReqOK
    <3>2. CASE ~Finish(a)
      <4>1. /\ req' = [req EXCEPT ![a].pc = "spawn", ![a].id = made + 1]
            /\ rows' = [rows EXCEPT ![made + 1] = [status |-> "creating", op |-> req[a].op, size |-> 0]]
            /\ made < MaxBackups
        BY <1>3, <3>2, Zenon DEF Insert
      <4>2. req'[a].id = made + 1 /\ made + 1 \in Ids
        BY <1>0, <4>1, BoundsAssumption DEF ReqOK, Request, Ids
      <4>3. req'[a].op = req[a].op BY <1>0, <4>1 DEF ReqOK, Request
      <4> QED BY <1>0, <4>1, <4>2, <4>3 DEF RowsOK
    <3> QED BY <3>1, <3>2
  <2>5. Begun' BY <1>0, <2>1, <2>4 DEF Begun, NoTask, Working, Early
  <2>6. req'[a].pc \in {"spawn", "idle"} BY <1>0, <1>3 DEF Insert, Finish, Idle, ReqOK, Request
  <2>7. Asked' BY <1>0, <1>1, <2>4, <2>6 DEF OrderInv, Asked
  <2> QED BY <2>2, <2>3, <2>5, <2>7 DEF OrderInv
<1>4. CASE SpawnBackup(a)
  <2>1. req'[a] = Idle /\ rows' = rows BY <1>0, <1>4 DEF SpawnBackup, Finish, ReqOK, store
  <2>2. task' = [NoTask EXCEPT !.op = req[a].op, !.pc = "begin", !.id = req[a].id]
    BY <1>2, <1>4, Zenon DEF SpawnBackup, Spawn, Busy
  <2>3. task'.id = req[a].id /\ task'.pc = "begin" /\ task'.op = req[a].op BY <2>2 DEF NoTask
  <2>4. rows[req[a].id].status = "creating" BY <1>4, Zenon DEF SpawnBackup, OrderInv, Begun
  <2>5. Alone' BY <1>0, <2>1 DEF Alone, Idle
  <2>6. Begun' BY <1>0, <2>1, <2>3, <2>4 DEF Begun, Idle
  <2>7. req[a].op # "other" BY <1>4 DEF SpawnBackup, OrderInv, Asked
  <2>8. Asked' BY <1>0, <2>1 DEF Asked, Idle
  <2> QED BY <2>3, <2>5, <2>6, <2>7, <2>8 DEF OrderInv, OthersEnd
<1> QED BY <1>3, <1>4

\* The task keeps its name and its backup, and settles the row before it ends.
LEMMA RunOrder ==
    ASSUME TypeOK, CutOffInv, WorkInv, OrderInv, Run
    PROVE  OrderInv'
<1>0. ReqOK /\ RowsOK /\ task \in Task /\ 1 .. made \subseteq Ids
  BY BoundsAssumption DEF TypeOK, ReqOK, RowsOK, Ids
<1>1. task # NoTask
  <2>1. \/ task.pc \in {"begin", "before", "wait", "open", "archive", "after", "finish", "select",
                       "prune", "end", "fail", "failed"}
        \/ task.cancelled
    BY Zenon DEF Run, At, Begin, Before, Wait, Open, Archive, After, FinishBackup, PruneSelect, PruneFile,
       PruneCommit, End, FailUnlink, FailRow, Cancelled, CancelledFails
  <2>2. NoTask.pc = "none" /\ ~NoTask.cancelled BY DEF NoTask
  <2> QED BY <2>1, <2>2
<1>2. \A a \in Reqs : req[a].pc \notin {"space", "pruned", "insert", "spawn", "remove", "rmtree", "cascade"}
  BY <1>1 DEF OrderInv, Alone
<1>3. Alone' /\ (\A a \in Reqs : req'[a].pc # "spawn")
  <2>1. CASE req' = req BY <1>2, <2>1 DEF Alone
  <2>2. CASE EndTask
    <3>1. task' = NoTask BY <2>2, Zenon DEF EndTask
    <3>2. \A a \in Reqs : req'[a].pc # "spawn" BY <1>2, RunMoves
    <3> QED BY <3>1, <3>2 DEF Alone
  <2> QED BY <2>1, <2>2, RunMoves
<1>4. Asked'
  <2>1. CASE req' = req BY <2>1 DEF OrderInv, Asked
  <2>2. CASE EndTask
    <3>1. \A a \in Reqs : req'[a] = req[a] \/ req'[a].pc = "remove" BY <1>0, <2>2 DEF EndTask, ReqOK, Request
    <3> QED BY <3>1 DEF OrderInv, Asked
  <2> QED BY <2>1, <2>2, RunMoves
<1>5. \/ task' = NoTask
      \/ task'.id = task.id /\ task'.op = task.op /\ task.op # "other"
  <2>1. CASE End \/ Cancelled BY <2>1, Zenon DEF End, Cancelled, EndTask
  <2>2. CASE PruneFile
    <3>1. PICK newest : task' = [task EXCEPT !.left = @ \ {newest}] \/ Step("fail")
      BY <2>2, Zenon DEF PruneFile
    <3>2. task.pc # "end" BY <2>2 DEF PruneFile, At
    <3> QED BY <1>0, <3>1, <3>2 DEF Step, Task, OrderInv, OthersEnd
  <2>3. CASE Begin \/ Before \/ Wait \/ Open \/ Archive
    BY <1>0, <2>3 DEF Begin, Before, Wait, Open, Archive, At, Step, Task, OrderInv, OthersEnd
  <2>4. CASE After \/ FinishBackup \/ PruneSelect \/ PruneCommit \/ FailUnlink \/ FailRow \/ CancelledFails
    BY <1>0, <2>4 DEF After, FinishBackup, PruneSelect, PruneCommit, FailUnlink, FailRow, CancelledFails,
       At, Step, Task, OrderInv, OthersEnd
  <2> QED BY <2>1, <2>2, <2>3, <2>4 DEF Run
<1>6. OthersEnd' BY <1>5 DEF OthersEnd, NoTask
<1> SUFFICES Begun' BY <1>3, <1>4, <1>6 DEF OrderInv
<1>7. CASE task' = NoTask BY <1>3, <1>7 DEF Begun, NoTask, Working, Early
<1>8. CASE task'.id = task.id /\ FinishBackup
  <2>1. task'.pc \in {"select", "end"} BY <1>0, <1>8 DEF FinishBackup, Step, Task
  <2>2. task.id \in 1 .. made BY <1>8 DEF FinishBackup, At, CutOffInv, HasArchive
  <2>3. rows'[task.id].status # "creating" BY <1>0, <1>8, <2>2 DEF FinishBackup, SetStatus, RowsOK, Row
  <2> QED BY <1>3, <1>8, <2>1, <2>3 DEF Begun, Working, Early
<1>9. CASE task'.id = task.id /\ FailRow
  <2>1. task'.pc = "end" BY <1>0, <1>9 DEF FailRow, Step, Task
  <2>2. CASE task.id \in Ids
    <3>1. rows'[task.id].status # "creating" BY <1>0, <1>9, <2>2 DEF FailRow, SetStatus, RowsOK, Row
    <3> QED BY <1>3, <1>9, <2>1, <3>1 DEF Begun, Working, Early
  <2>3. CASE task.id = 0 BY <1>3, <1>9, <2>1, <2>3 DEF Begun, Working, Early
  <2> QED BY <1>0, <2>2, <2>3 DEF Task
<1>10. CASE task'.id = task.id /\ PruneCommit
  <2>1. task.pc = "prune" /\ task'.pc \in {"end", "fail"} BY <1>0, <1>10 DEF PruneCommit, At, Step, Task
  <2>2. task.id = 0 \/ rows'[task.id].status # "creating"
    <3>1. task.id \in Ids \/ task.id = 0 BY <1>0 DEF Task
    <3>2. \A b \in Ids : rows'[b] = rows[b] \/ rows'[b] = NoRow BY <1>10 DEF PruneCommit
    <3> QED BY <2>1, <3>1, <3>2 DEF OrderInv, Begun, NoRow
  <2> QED BY <1>3, <1>10, <2>1, <2>2 DEF Begun, Working, Early
<1>11. CASE task'.id = task.id /\ ~FinishBackup /\ ~FailRow /\ ~PruneCommit
  <2>1. rows' = rows
    BY <1>11, Zenon DEF Run, Begin, Before, Wait, Open, Archive, After, PruneSelect, PruneFile,
       End, FailUnlink, Cancelled, CancelledFails, store
  <2>2. CASE task' = NoTask BY <1>7, <2>2
  <2>3. CASE task' # NoTask
    <3>1. /\ task'.pc \in Working => task.pc \in Working
          /\ task'.pc \in {"select", "prune", "end"} => task.pc \in {"select", "prune", "end"}
      <4>1. CASE Begin BY <1>0, <4>1 DEF Begin, At, Step, Task, Working, Early
      <4>2. CASE Before \/ Wait \/ Open BY <1>0, <4>2 DEF Before, Wait, Open, At, Step, Task, Working, Early
      <4>3. CASE Archive \/ After BY <1>0, <4>3 DEF Archive, After, At, Step, Task, Working, Early
      <4>4. CASE PruneFile
        <5>1. PICK newest : task' = [task EXCEPT !.left = @ \ {newest}] \/ Step("fail")
          BY <4>4, Zenon DEF PruneFile
        <5> QED BY <1>0, <4>4, <5>1 DEF PruneFile, At, Step, Task, Working, Early
      <4>5. CASE PruneSelect \/ FailUnlink \/ CancelledFails
        BY <1>0, <4>5 DEF PruneSelect, FailUnlink, CancelledFails, At, Step, Task, Working, Early
      <4>6. CASE End \/ Cancelled BY <2>3, <4>6, Zenon DEF End, Cancelled, EndTask
      <4> QED BY <1>11, <4>1, <4>2, <4>3, <4>4, <4>5, <4>6 DEF Run
    <3> QED BY <1>3, <1>11, <2>1, <3>1 DEF OrderInv, Begun
  <2> QED BY <2>2, <2>3
<1> QED BY <1>5, <1>7, <1>8, <1>9, <1>10, <1>11

\* Nothing is left to keep in order when the panel ends, nor when it starts again.
LEMMA AroundOrder ==
    ASSUME TypeOK, WorkInv, OrderInv, PanelDies \/ Shutdown \/ Recover
    PROVE  OrderInv'
<1>1. task' = NoTask /\ \A a \in Reqs : req'[a] = Idle
  <2>1. CASE PanelDies \/ Shutdown BY <2>1 DEF PanelDies, Shutdown, Down
  <2>2. CASE Recover
    <3>1. task = NoTask /\ (\A a \in Reqs : req[a] = Idle) BY <2>2, Zenon DEF Recover, WorkInv, DownIsQuiet
    <3> QED BY <2>2, <3>1, Zenon DEF Recover
  <2> QED BY <2>1, <2>2
<1> QED BY <1>1 DEF OrderInv, Asked, Alone, OthersEnd, Begun, NoTask, Idle, Working, Early

\* With one request at a time, all of that holds throughout.
LEMMA OrderCorrect ==
    ASSUME OneRequest
    PROVE  Spec => [](TypeOK /\ CutOffInv /\ WorkInv /\ OrderInv)
<1>1. Init => OrderInv
  BY DEF Init, OrderInv, Asked, Alone, OthersEnd, Begun, NoTask, Idle, Working, Early
<1>2. TypeOK /\ CutOffInv /\ WorkInv /\ OrderInv /\ [Next]_vars => OrderInv'
  <2> SUFFICES ASSUME TypeOK, CutOffInv, WorkInv, OrderInv, [Next]_vars PROVE OrderInv' OBVIOUS
  <2>1. ASSUME NEW a \in Reqs, Ask(a) \/ Serve(a) PROVE OrderInv'
    BY <2>1, AttendsOrder, MakesOrder, Zenon DEF Serve, Attends
  <2>2. CASE Run BY <2>2, RunOrder
  <2>3. CASE PanelDies \/ Shutdown \/ Recover BY <2>3, AroundOrder
  <2>4. CASE UNCHANGED vars BY <2>4, Zenon DEF vars, OrderInv, Asked, Alone, OthersEnd, Begun
  <2> QED BY <2>1, <2>2, <2>3, <2>4, Zenon DEF Next
<1> QED BY <1>1, <1>2, WorkCorrect, PTL DEF Spec
----------------------------------------------------------------------------
\* The task is at work on this backup's archive.
Being(b) == task.id = b /\ task.pc \in {"archive", "after", "finish", "fail"}

\* A row that says creating is the task's, or a request's that will start one or
\* that deletes the server.
Minded(b) ==
    \/ task.id = b
    \/ \E a \in Reqs : \/ req[a].pc \in {"remove", "rmtree", "cascade"}
                       \/ req[a].pc = "spawn" /\ req[a].id = b

\* An archive is a ready backup's, or one being made, or left by a crash in a row
\* that will be looked after.
Owned(b) ==
    files[b] # "none" =>
       \/ rows[b].status = "ready"
       \/ rows[b].status = "creating" /\ (~up \/ Being(b))

\* What has been taken away before its row goes.
Emptied ==
    /\ task.pc = "prune" => \A b \in task.olds \ task.left : files[b] = "none"
    /\ task.pc = "failed" => (task.id \in Ids => files[task.id] = "none")
    /\ \A a \in Reqs : req[a].pc \in {"unlink", "drop"} => req[a].id \in Ids
    /\ \A a \in Reqs : req[a].pc = "drop" => files[req[a].id] = "none"
    /\ \A a \in Reqs : req[a].pc = "cascade" => \A b \in Ids : files[b] = "none"

Real ==
    up /\ Spared({"removeFails"}) => \A b \in Ids : rows[b].status = "creating" => Minded(b)

StepInv == (\A b \in Ids : Owned(b)) /\ Emptied /\ Real

\* A request's step takes rows and archives away together.
LEMMA AttendsStep ==
    ASSUME TypeOK, WorkInv, OneRequest, OrderInv, StepInv, NEW a \in Reqs, Attends(a)
    PROVE  (\A b \in Ids : Owned(b))' /\ Emptied'
<1>0. ReqOK /\ RowsOK /\ FilesOK /\ task \in Task /\ (\A c \in Reqs : c = a)
  BY DEF TypeOK, ReqOK, RowsOK, FilesOK, OneRequest
<1>1. up /\ up'
  <2>1. req[a] # Idle \/ up
    <3>1. \/ req[a].pc \in {"check", "space", "pruned", "get", "unlink", "drop", "cancel", "remove", "rmtree", "cascade"}
          \/ up
      BY Zenon DEF Attends, Ask, Check, ReadUsage, ReadPruned, GetBackup, UnlinkBackup, DropBackup,
         CancelTask, RemoveServer, RemoveFiles, Cascade
    <3>2. Idle.pc = "idle" BY DEF Idle
    <3> QED BY <3>1, <3>2
  <2>2. up BY <2>1, Zenon DEF WorkInv, DownIsQuiet
  <2> QED BY <2>2, Zenon DEF Attends, Ask, Check, ReadUsage, ReadPruned, GetBackup, UnlinkBackup, DropBackup,
       CancelTask, RemoveServer, RemoveFiles, Cascade
<1>2. \A b \in Ids : files'[b] = files[b] \/ files'[b] = "none"
  <2>1. CASE UnlinkBackup(a) BY <1>0, <2>1 DEF UnlinkBackup, FilesOK
  <2>2. CASE RemoveFiles(a) BY <2>2 DEF RemoveFiles
  <2>3. CASE files' = files BY <2>3
  <2> QED BY <2>1, <2>2, <2>3, Zenon DEF Attends, Ask, Check, ReadUsage, ReadPruned, GetBackup, DropBackup,
          CancelTask, RemoveServer, Cascade, store
<1>3. \A b \in Ids : rows'[b] = rows[b] \/ files'[b] = "none"
  <2>1. CASE DropBackup(a)
    <3>1. files' = files /\ files[req[a].id] = "none" BY <2>1, Zenon DEF DropBackup, StepInv, Emptied
    <3> QED BY <1>0, <2>1, <3>1 DEF DropBackup, RowsOK
  <2>2. CASE Cascade(a) BY <2>2, Zenon DEF Cascade, StepInv, Emptied
  <2>3. CASE rows' = rows BY <2>3
  <2> QED BY <2>1, <2>2, <2>3, Zenon DEF Attends, Ask, Check, ReadUsage, ReadPruned, GetBackup,
          UnlinkBackup, CancelTask, RemoveServer, RemoveFiles, store
<1>4. /\ \A b : Being(b) => Being(b)'
      /\ task'.pc = "prune" => task.pc = "prune" /\ task'.olds = task.olds /\ task'.left = task.left
      /\ task'.pc = "failed" => task.pc = "failed" /\ task'.id = task.id
  <2>1. CASE task' = task BY <2>1 DEF Being
  <2>2. CASE task' = [task EXCEPT !.cancelled = TRUE] BY <1>0, <2>2 DEF Being, Task
  <2>3. CASE task = NoTask /\ task' = [NoTask EXCEPT !.op = "other", !.pc = "end"]
    <3>1. task.pc = "none" /\ task'.pc = "end" BY <2>3 DEF NoTask
    <3> QED BY <3>1 DEF Being
  <2> QED BY <2>1, <2>2, <2>3, AttendsTask
<1>5. \A b \in Ids : Owned(b)' BY <1>1, <1>2, <1>3, <1>4 DEF StepInv, Owned
<1>6. (task.pc = "prune" => \A b \in task.olds \ task.left : files[b] = "none")'
  <2>1. task.olds \in SUBSET Ids BY <1>0 DEF Task
  <2> QED BY <1>2, <1>4, <2>1 DEF StepInv, Emptied
<1>7. (task.pc = "failed" => (task.id \in Ids => files[task.id] = "none"))' BY <1>2, <1>4 DEF StepInv, Emptied
<1>8. req'[a].pc = "drop" => files'[req'[a].id] = "none"
  <2>1. CASE UnlinkBackup(a)
    <3>2. req'[a].id = req[a].id BY <1>0, <2>1 DEF UnlinkBackup, Goto, ReqOK, Request
    <3>3. req[a].id \in Ids BY <2>1 DEF UnlinkBackup, StepInv, Emptied
    <3> QED BY <1>0, <2>1, <3>2, <3>3 DEF UnlinkBackup, FilesOK
  <2>2. CASE ~UnlinkBackup(a)
    <3>1. req'[a].pc # "drop"
      <4>1. CASE Ask(a) BY <1>0, <4>1 DEF Ask, ReqOK, Idle
      <4>2. CASE ReadUsage(a) \/ GetBackup(a) BY <1>0, <4>2 DEF ReadUsage, GetBackup, Finish, Idle, ReqOK, Request
      <4>3. CASE Check(a) \/ ReadPruned(a) \/ DropBackup(a) \/ CancelTask(a) \/ RemoveServer(a) \/ RemoveFiles(a) \/ Cascade(a)
        <5>1. Finish(a) \/ \E pc \in {"space", "insert", "remove", "await", "rmtree", "cascade"} : Goto(a, pc)
          BY <4>3 DEF Check, ReadPruned, DropBackup, CancelTask, RemoveServer, RemoveFiles, Cascade
        <5> QED BY <1>0, <5>1 DEF Finish, Goto, Idle, ReqOK, Request
      <4> QED BY <2>2, <4>1, <4>2, <4>3 DEF Attends
    <3> QED BY <3>1
  <2> QED BY <2>1, <2>2
<1>9. req'[a].pc = "cascade" => \A b \in Ids : files'[b] = "none"
  <2>1. CASE RemoveFiles(a) BY <2>1 DEF RemoveFiles
  <2>2. CASE ~RemoveFiles(a)
    <3>1. req'[a].pc # "cascade"
      <4>1. CASE Ask(a) BY <1>0, <4>1 DEF Ask, ReqOK, Idle
      <4>2. CASE ReadUsage(a) \/ GetBackup(a) BY <1>0, <4>2 DEF ReadUsage, GetBackup, Finish, Idle, ReqOK, Request
      <4>3. CASE Check(a) \/ ReadPruned(a) \/ UnlinkBackup(a) \/ DropBackup(a) \/ CancelTask(a) \/ RemoveServer(a) \/ Cascade(a)
        <5>1. Finish(a) \/ \E pc \in {"space", "insert", "remove", "await", "rmtree", "drop"} : Goto(a, pc)
          BY <4>3 DEF Check, ReadPruned, UnlinkBackup, DropBackup, CancelTask, RemoveServer, Cascade
        <5> QED BY <1>0, <5>1 DEF Finish, Goto, Idle, ReqOK, Request
      <4> QED BY <2>2, <4>1, <4>2, <4>3 DEF Attends
    <3> QED BY <3>1
  <2> QED BY <2>1, <2>2
<1>10. req'[a].pc \in {"unlink", "drop"} => req'[a].id \in Ids
  <2>1. CASE Ask(a) BY <1>0, <2>1 DEF Ask, ReqOK, Idle
  <2>2. CASE ReadUsage(a) BY <1>0, <2>2 DEF ReadUsage, Finish, Idle, ReqOK, Request
  <2>3. CASE GetBackup(a) BY <1>0, <2>3 DEF GetBackup, Finish, Idle, ReqOK, Request
  <2>4. CASE UnlinkBackup(a)
    BY <1>0, <2>4 DEF UnlinkBackup, Goto, ReqOK, Request, StepInv, Emptied
  <2>5. CASE Check(a) \/ ReadPruned(a) \/ DropBackup(a) \/ CancelTask(a) \/ RemoveServer(a) \/ RemoveFiles(a) \/ Cascade(a)
    <3>1. Finish(a) \/ \E pc \in {"space", "insert", "remove", "await", "rmtree", "cascade"} : Goto(a, pc)
      BY <2>5 DEF Check, ReadPruned, DropBackup, CancelTask, RemoveServer, RemoveFiles, Cascade
    <3> QED BY <1>0, <3>1 DEF Finish, Goto, Idle, ReqOK, Request
  <2> QED BY <2>1, <2>2, <2>3, <2>4, <2>5 DEF Attends
<1>11. Emptied' BY <1>0, <1>6, <1>7, <1>8, <1>9, <1>10 DEF Emptied
<1> QED BY <1>5, <1>11

\* Whoever minds a row that is being made goes on to.
LEMMA AttendsReal ==
    ASSUME TypeOK, WorkInv, OneRequest, OrderInv, StepInv, NEW a \in Reqs, Attends(a), [Next]_vars
    PROVE  Real'
<1>0. ReqOK /\ RowsOK /\ task \in Task /\ (\A c \in Reqs : c = a) BY DEF TypeOK, ReqOK, RowsOK, OneRequest
<1> SUFFICES ASSUME up', Spared({"removeFails"})', NEW b \in Ids, rows'[b].status = "creating"
             PROVE  Minded(b)'
  BY DEF Real
<1>1. Spared({"removeFails"}) /\ ~Fails("removeFails") BY EventsGrow DEF Spared, Fails
<1>2. up
  BY Zenon DEF Attends, Ask, Check, ReadUsage, ReadPruned, GetBackup, UnlinkBackup, DropBackup,
     CancelTask, RemoveServer, RemoveFiles, Cascade
<1>3. rows[b].status = "creating" /\ rows'[b] = rows[b] BY AttendsMoves DEF NoRow
<1>4. Minded(b) BY <1>1, <1>2, <1>3 DEF StepInv, Real
<1>5. CASE task.id = b
  <2>1. task'.id = b
    <3>1. CASE task' = task BY <1>5, <3>1
    <3>2. CASE task' = [task EXCEPT !.cancelled = TRUE] BY <1>0, <1>5, <3>2 DEF Task
    <3>3. task # NoTask
      <4>1. task.id # 0 BY <1>5, BoundsAssumption DEF Ids
      <4> QED BY <4>1 DEF NoTask
    <3> QED BY <3>1, <3>2, <3>3, AttendsTask
  <2> QED BY <2>1 DEF Minded
<1>6. CASE req[a].pc \in {"remove", "rmtree", "cascade", "spawn"}
  <2>1. RemoveServer(a) \/ RemoveFiles(a) \/ Cascade(a)
    <3>1. \/ RemoveServer(a) \/ RemoveFiles(a) \/ Cascade(a) \/ req[a] = Idle
          \/ req[a].pc \in {"check", "space", "pruned", "get", "unlink", "drop", "cancel"}
      BY Zenon DEF Attends, Ask, Check, ReadUsage, ReadPruned, GetBackup, UnlinkBackup, DropBackup, CancelTask
    <3> QED BY <1>6, <3>1 DEF Idle
  <2>2. ~Cascade(a)
    <3>1. Cascade(a) => rows'[b] = NoRow BY Zenon DEF Cascade
    <3> QED BY <1>3, <3>1 DEF NoRow
  <2>3. Goto(a, "rmtree") \/ Goto(a, "cascade") BY <1>1, <2>1, <2>2, Zenon DEF RemoveServer, RemoveFiles
  <2>4. req'[a].pc \in {"rmtree", "cascade"} BY <1>0, <2>3 DEF Goto, ReqOK, Request
  <2> QED BY <2>4 DEF Minded
<1> QED BY <1>0, <1>4, <1>5, <1>6 DEF Minded

\* The row that is made has no archive yet, and goes from its request to its task.
LEMMA MakesStep ==
    ASSUME TypeOK, CutOffInv, WorkInv, OneRequest, OrderInv, StepInv, NEW a \in Reqs,
           Insert(a) \/ SpawnBackup(a), [Next]_vars
    PROVE  StepInv'
<1>0. ReqOK /\ RowsOK /\ FilesOK /\ task \in Task /\ (\A c \in Reqs : c = a) /\ made \in Nat
  BY BoundsAssumption DEF TypeOK, ReqOK, RowsOK, FilesOK, OneRequest
<1>1. req[a].pc \in {"insert", "spawn"} /\ files' = files /\ up' = up BY Zenon DEF Insert, SpawnBackup, store
<1>2. task = NoTask /\ task.pc = "none" /\ task.id = 0
  <2>1. task = NoTask BY <1>1 DEF OrderInv, Alone
  <2> QED BY <2>1 DEF NoTask
<1>3. up
  <2>1. req[a] # Idle BY <1>1 DEF Idle
  <2> QED BY <2>1, Zenon DEF WorkInv, DownIsQuiet
<1>4. \A b \in Ids : files[b] # "none" => rows[b].status = "ready" BY <1>2, <1>3 DEF StepInv, Owned, Being
<1>5. Spared({"removeFails"})' => Spared({"removeFails"}) BY EventsGrow DEF Spared
<1>6. Spared({"removeFails"}) => \A b \in Ids : rows[b].status = "creating" => req[a].pc = "spawn" /\ req[a].id = b
  <2>1. \A b \in Ids : b # 0 BY DEF Ids
  <2> QED BY <1>0, <1>1, <1>2, <1>3, <2>1 DEF StepInv, Real, Minded
<1>7. CASE Insert(a)
  <2>1. task' = task BY <1>7, Zenon DEF Insert
  <2>2. req'[a].pc \in {"spawn", "idle"} BY <1>0, <1>7 DEF Insert, Finish, Idle, ReqOK, Request
  <2>3. Emptied' BY <1>0, <1>2, <2>1, <2>2 DEF Emptied
  <2>4. CASE made' = made /\ rows' = rows
    <3>1. req[a].pc = "insert" BY <1>7 DEF Insert
    <3>2. \A b \in Ids : Owned(b)' BY <1>1, <1>4, <2>4 DEF Owned
    <3>3. Real' BY <1>5, <1>6, <2>4, <3>1 DEF Real
    <3> QED BY <2>3, <3>2, <3>3 DEF StepInv
  <2>5. CASE /\ rows' = [rows EXCEPT ![made + 1] = [status |-> "creating", op |-> req[a].op, size |-> 0]]
             /\ req' = [req EXCEPT ![a].pc = "spawn", ![a].id = made + 1]
    <3>1. made + 1 \in Ids BY <1>0, <1>7, BoundsAssumption DEF Insert, Ids
    <3>2. rows[made + 1].status = "none"
      <4>1. made + 1 > made BY <1>0
      <4> QED BY <3>1, <4>1 DEF WorkInv, Numbers, NoRow
    <3>3. files[made + 1] = "none" BY <1>4, <3>1, <3>2
    <3>4. \A b \in Ids \ {made + 1} : rows'[b] = rows[b] BY <1>0, <2>5 DEF RowsOK
    <3>5. \A b \in Ids : Owned(b)' BY <1>1, <1>4, <3>3, <3>4 DEF Owned
    <3>6. req'[a].pc = "spawn" /\ req'[a].id = made + 1 BY <1>0, <2>5 DEF ReqOK, Request
    <3>7. req[a].pc = "insert" BY <1>7 DEF Insert
    <3>8. ASSUME Spared({"removeFails"})', NEW b \in Ids, rows'[b].status = "creating" PROVE Minded(b)'
      <4>1. b = made + 1 BY <1>5, <1>6, <3>4, <3>7, <3>8
      <4> QED BY <3>6, <4>1 DEF Minded
    <3>9. Real' BY <3>8 DEF Real
    <3> QED BY <2>3, <3>5, <3>9 DEF StepInv
  <2> QED BY <1>7, <2>4, <2>5, Zenon DEF Insert
<1>8. CASE SpawnBackup(a)
  <2>1. req'[a] = Idle /\ rows' = rows BY <1>0, <1>8 DEF SpawnBackup, Finish, ReqOK, store
  <2>2. task' = [NoTask EXCEPT !.op = req[a].op, !.pc = "begin", !.id = req[a].id]
    BY <1>2, <1>8, Zenon DEF SpawnBackup, Spawn, Busy
  <2>3. task'.id = req[a].id /\ task'.pc = "begin" BY <2>2 DEF NoTask
  <2>4. Emptied' BY <1>0, <2>1, <2>3 DEF Emptied, Idle
  <2>5. \A b \in Ids : Owned(b)' BY <1>1, <1>4, <2>1 DEF Owned
  <2>6. Real' BY <1>5, <1>6, <2>1, <2>3 DEF Real, Minded
  <2> QED BY <2>4, <2>5, <2>6 DEF StepInv
<1> QED BY <1>7, <1>8

\* The panel's end and its restart leave no archive without a row.
LEMMA AroundStep ==
    ASSUME TypeOK, WorkInv, OrderInv, StepInv, PanelDies \/ Shutdown \/ Recover
    PROVE  StepInv'
<1>0. ReqOK /\ RowsOK /\ FilesOK /\ task \in Task BY DEF TypeOK, ReqOK, RowsOK, FilesOK
<1>1. task'.pc = "none" /\ \A a \in Reqs : req'[a].pc = "idle"
  <2>1. CASE PanelDies \/ Shutdown BY <2>1 DEF PanelDies, Shutdown, Down, NoTask, Idle
  <2>2. CASE Recover
    <3>1. task = NoTask /\ (\A a \in Reqs : req[a] = Idle) /\ task' = task /\ req' = req
      BY <2>2, Zenon DEF Recover, WorkInv, DownIsQuiet
    <3> QED BY <3>1 DEF NoTask, Idle
  <2> QED BY <2>1, <2>2
<1>2. Emptied' BY <1>1 DEF Emptied
<1>3. CASE PanelDies \/ Shutdown
  <2>1. ~up' /\ rows' = rows BY <1>3, Zenon DEF PanelDies, Shutdown, Down, store
  <2>2. \A b \in Ids : files'[b] = files[b] \/ files'[b] = "none"
    BY <1>0, <1>3 DEF PanelDies, Shutdown, Interrupted, FilesOK, store
  <2>3. \A b \in Ids : Owned(b)' BY <2>1, <2>2 DEF StepInv, Owned
  <2>4. Real' BY <2>1, Zenon DEF Real
  <2> QED BY <1>2, <2>3, <2>4 DEF StepInv
<1>4. CASE Recover
  <2>1. \A b \in Ids : /\ rows'[b].status # "creating"
                       /\ rows[b].status = "creating" => files'[b] = "none"
                       /\ rows[b].status # "creating" => files'[b] = files[b] /\ rows'[b] = rows[b]
    BY <1>0, <1>4 DEF Recover, RowsOK, Row
  <2>2. \A b \in Ids : Owned(b)' BY <2>1 DEF StepInv, Owned
  <2>3. Real' BY <2>1 DEF Real
  <2> QED BY <1>2, <2>2, <2>3 DEF StepInv
<1> QED BY <1>3, <1>4

\* The task's archive appears with its row there, and goes before its row.
LEMMA RunStep ==
    ASSUME TypeOK, CutOffInv, WorkInv, OrderInv, StepInv, [Next]_vars, Run
    PROVE  StepInv'
<1>0. ReqOK /\ RowsOK /\ FilesOK /\ task \in Task /\ made \in Nat /\ 1 .. made \subseteq Ids
  BY BoundsAssumption DEF TypeOK, ReqOK, RowsOK, FilesOK, Ids
<1>1. up /\ up' /\ made' = made BY RunMoves
<1>2. task # NoTask
  <2>1. \/ task.pc \in {"begin", "before", "wait", "open", "archive", "after", "finish", "select",
                       "prune", "end", "fail", "failed"}
        \/ task.cancelled
    BY Zenon DEF Run, At, Begin, Before, Wait, Open, Archive, After, FinishBackup, PruneSelect, PruneFile,
       PruneCommit, End, FailUnlink, FailRow, Cancelled, CancelledFails
  <2>2. NoTask.pc = "none" /\ ~NoTask.cancelled BY DEF NoTask
  <2> QED BY <2>1, <2>2
<1>3. \A a \in Reqs : req[a].pc \notin {"spawn", "remove", "rmtree", "cascade"}
  BY <1>2 DEF OrderInv, Alone
<1>4. Spared({"removeFails"})' => Spared({"removeFails"}) BY EventsGrow DEF Spared
<1>5. Spared({"removeFails"}) => \A b \in Ids : rows[b].status = "creating" => task.id = b
  BY <1>1, <1>3 DEF StepInv, Real, Minded
<1>6. \A a \in Reqs : /\ req'[a].id = req[a].id
                      /\ req'[a].pc \in {"unlink", "drop"} => req'[a].pc = req[a].pc
                      /\ req'[a].pc # "cascade"
  BY <1>3, RunMoves
<1>7. \A b \in Ids : files[b] # "none" => rows[b].status = "ready" \/ (rows[b].status = "creating" /\ Being(b))
  BY <1>1 DEF StepInv, Owned
\* The parts of the invariant, each from what the step does to them.
<1>8. ASSUME \A b \in Ids : files'[b] # "none" =>
                rows'[b].status = "ready" \/ (rows'[b].status = "creating" /\ Being(b)')
      PROVE  \A b \in Ids : Owned(b)'
  BY <1>8 DEF Owned
<1>9. ASSUME \A b \in Ids : rows'[b].status = "creating" => rows[b].status = "creating" /\ task'.id = task.id
      PROVE  Real'
  BY <1>4, <1>5, <1>9 DEF Real, Minded
<1>10. ASSUME \A b \in Ids : files'[b] = files[b] \/ files'[b] = "none" \/ (task.id = b /\ task.pc \in Working),
              task'.pc = "prune" => \A b \in task'.olds \ task'.left : files'[b] = "none",
              task'.pc = "failed" => (task'.id \in Ids => files'[task'.id] = "none")
       PROVE  Emptied'
  <2>1. \A a \in Reqs : req'[a].pc \in {"unlink", "drop"} => req'[a].id \in Ids
    BY <1>6 DEF StepInv, Emptied
  <2>2. ASSUME NEW a \in Reqs, req'[a].pc = "drop" PROVE files'[req'[a].id] = "none"
    <3>1. req[a].pc = "drop" /\ req'[a].id = req[a].id BY <1>6, <2>2
    <3>2. files[req[a].id] = "none" /\ req[a].id \in Ids BY <3>1 DEF StepInv, Emptied
    <3>3. ~(task.id = req[a].id /\ task.pc \in Working) BY <3>1 DEF WorkInv, MakingAlone, Deletes
    <3> QED BY <1>10, <3>1, <3>2, <3>3
  <2> QED BY <1>6, <1>10, <2>1, <2>2 DEF Emptied
<1>11. CASE Begin \/ Before \/ Wait
  <2>1. rows' = rows /\ files' = files BY <1>11, Zenon DEF Begin, Before, Wait, store
  <2>2. task'.id = task.id /\ task.pc \in {"begin", "before", "wait"} /\ task'.pc \in {"before", "wait", "open", "fail"}
    BY <1>0, <1>11 DEF Begin, Before, Wait, At, Step, Task
  <2>3. \A b \in Ids : files'[b] # "none" => rows'[b].status = "ready" BY <1>7, <2>1, <2>2 DEF Being
  <2> QED BY <1>8, <1>9, <1>10, <2>1, <2>2, <2>3 DEF StepInv
<1>12. CASE Open \/ Archive \/ After
  <2>1. rows' = rows BY <1>12, Zenon DEF Open, Archive, After, store
  <2>2. task'.id = task.id /\ task.pc \in Working /\ task'.pc \in {"archive", "after", "finish", "fail"}
    BY <1>0, <1>12 DEF Open, Archive, After, At, Step, Task, Working, Early
  <2>3. \A b \in Ids : b # task.id => files'[b] = files[b] BY <1>0, <1>12 DEF Open, Archive, After, FilesOK, store
  <2>4. rows[task.id].status = "creating" BY <2>2 DEF OrderInv, Begun
  <2>5. \A b \in Ids : files'[b] # "none" => rows'[b].status = "ready" \/ (rows'[b].status = "creating" /\ Being(b)')
    BY <1>7, <2>1, <2>2, <2>3, <2>4 DEF Being
  <2> QED BY <1>8, <1>9, <1>10, <2>1, <2>2, <2>3, <2>5 DEF StepInv
<1>13. CASE FinishBackup
  <2>1. files' = files BY <1>13, Zenon DEF FinishBackup
  <2>2. task'.id = task.id /\ task.pc = "finish" /\ task'.pc \in {"select", "end"}
    BY <1>0, <1>13 DEF FinishBackup, At, Step, Task
  <2>3. task.id \in 1 .. made /\ rows[task.id].status = "creating"
    BY <2>2 DEF OrderInv, Begun, WorkInv, MakingAlone, Working
  <2>4. /\ \A b \in Ids : b # task.id => rows'[b] = rows[b]
        /\ rows'[task.id].status = "ready"
    BY <1>0, <1>13, <2>3 DEF FinishBackup, SetStatus, RowsOK, Row
  <2>5. \A b \in Ids : files'[b] # "none" => rows'[b].status = "ready" BY <1>7, <2>1, <2>4 DEF Being
  <2> QED BY <1>8, <1>9, <1>10, <2>1, <2>2, <2>4, <2>5 DEF StepInv
<1>14. CASE PruneSelect
  <2>1. files' = files /\ rows' = rows BY <1>14, Zenon DEF PruneSelect, store
  <2>2. task'.id = task.id /\ task.pc = "select" /\ task'.pc = "prune" /\ task'.olds = task'.left
    BY <1>0, <1>14 DEF PruneSelect, At, Task
  <2>3. \A b \in Ids : files'[b] # "none" => rows'[b].status = "ready" BY <1>7, <2>1, <2>2 DEF Being
  <2> QED BY <1>8, <1>9, <1>10, <2>1, <2>2, <2>3 DEF StepInv
<1>15. CASE PruneFile
  <2>1. rows' = rows /\ task.pc = "prune" BY <1>15, Zenon DEF PruneFile, At
  <2>2. PICK newest \in task.left :
           \/ files' = [files EXCEPT ![newest] = "none"] /\ task' = [task EXCEPT !.left = @ \ {newest}]
           \/ files' = files /\ Step("fail")
    BY <1>15, Zenon DEF PruneFile
  <2>3. task'.id = task.id BY <1>0, <2>2 DEF Step, Task
  <2>4. newest \in Ids /\ \A b \in Ids : files'[b] = files[b] \/ files'[b] = "none" BY <1>0, <2>2 DEF FilesOK, Task
  <2>5. \A b \in task.olds \ task.left : files[b] = "none" BY <2>1 DEF StepInv, Emptied
  <2>6. task'.pc = "prune" => \A b \in task'.olds \ task'.left : files'[b] = "none"
    <3>1. task.olds \in SUBSET Ids BY <1>0 DEF Task
    <3>2. CASE Step("fail") BY <1>0, <3>2 DEF Step, Task
    <3>3. CASE files' = [files EXCEPT ![newest] = "none"] /\ task' = [task EXCEPT !.left = @ \ {newest}]
      <4>1. task'.olds = task.olds /\ task'.left = task.left \ {newest} BY <1>0, <3>3 DEF Task
      <4>2. files'[newest] = "none" BY <1>0, <2>4, <3>3 DEF FilesOK
      <4> QED BY <2>4, <2>5, <3>1, <4>1, <4>2
    <3> QED BY <2>2, <3>2, <3>3
  <2>7. task'.pc \in {"prune", "fail"} BY <1>0, <2>1, <2>2 DEF Step, Task
  <2>8. \A b \in Ids : files'[b] # "none" => rows'[b].status = "ready" BY <1>7, <2>1, <2>4 DEF Being
  <2> QED BY <1>8, <1>9, <1>10, <2>1, <2>3, <2>4, <2>6, <2>7, <2>8 DEF StepInv
<1>16. CASE PruneCommit
  <2>1. files' = files BY <1>16, Zenon DEF PruneCommit
  <2>2. task'.id = task.id /\ task.pc = "prune" /\ task.left = {} /\ task'.pc \in {"end", "fail"}
    BY <1>0, <1>16 DEF PruneCommit, At, Step, Task
  <2>3. \A b \in Ids : rows'[b] = rows[b] \/ (rows'[b] = NoRow /\ b \in task.olds) BY <1>16 DEF PruneCommit
  <2>4. \A b \in task.olds : files[b] = "none" BY <2>2 DEF StepInv, Emptied
  <2>5. \A b \in Ids : files'[b] # "none" => rows'[b].status = "ready" BY <1>7, <2>1, <2>2, <2>3, <2>4 DEF Being
  <2>6. \A b \in Ids : rows'[b].status = "creating" => rows[b].status = "creating" BY <2>3 DEF NoRow
  <2> QED BY <1>8, <1>9, <1>10, <2>1, <2>2, <2>5, <2>6 DEF StepInv
<1>17. CASE End
  <2>1. files' = files /\ rows' = rows /\ task' = NoTask /\ task.pc = "end" BY <1>17, Zenon DEF End, At, EndTask, store
  <2>2. task'.pc = "none" BY <2>1 DEF NoTask
  <2>3. \A b \in Ids : files'[b] # "none" => rows'[b].status = "ready" BY <1>7, <2>1 DEF Being
  <2>4. Spared({"removeFails"}) => \A b \in Ids : rows[b].status # "creating"
    <3>1. \A b \in Ids : b # 0 BY DEF Ids
    <3> QED BY <1>5, <2>1, <3>1 DEF OrderInv, Begun
  <2>5. Real' BY <1>4, <2>1, <2>4 DEF Real
  <2> QED BY <1>8, <1>10, <2>1, <2>2, <2>3, <2>5 DEF StepInv
<1>18. CASE FailUnlink
  <2>1. rows' = rows BY <1>18, Zenon DEF FailUnlink
  <2>2. task'.id = task.id /\ task.pc = "fail" /\ task'.pc = "failed" BY <1>0, <1>18 DEF FailUnlink, At, Step, Task
  <2>3. \A b \in Ids : files'[b] = IF b = task.id THEN "none" ELSE files[b] BY <1>0, <1>18 DEF FailUnlink, FilesOK
  <2>4. \A b \in Ids : files'[b] # "none" => rows'[b].status = "ready" BY <1>7, <2>1, <2>3 DEF Being
  <2> QED BY <1>8, <1>9, <1>10, <2>1, <2>2, <2>3, <2>4 DEF StepInv
<1>19. CASE FailRow
  <2>1. files' = files BY <1>19, Zenon DEF FailRow
  <2>2. task'.id = task.id /\ task.pc = "failed" /\ task'.pc = "end" BY <1>0, <1>19 DEF FailRow, At, Step, Task
  <2>3. \A b \in Ids : b # task.id => rows'[b] = rows[b] BY <1>0, <1>19 DEF FailRow, SetStatus, RowsOK
  <2>4. task.id \in Ids => files[task.id] = "none" BY <2>2 DEF StepInv, Emptied
  <2>5. \A b \in Ids : rows'[b].status = "creating" => rows[b].status = "creating"
    BY <1>0, <1>19 DEF FailRow, SetStatus, RowsOK, Row
  <2>6. \A b \in Ids : files'[b] # "none" => rows'[b].status = "ready" BY <1>7, <2>1, <2>2, <2>3, <2>4 DEF Being
  <2> QED BY <1>8, <1>9, <1>10, <2>1, <2>2, <2>5, <2>6 DEF StepInv
<1>20. CASE Cancelled
  <2>1. rows' = rows /\ task' = NoTask /\ EndTask BY <1>20, Zenon DEF Cancelled, EndTask
  <2>2. task'.pc = "none" BY <2>1 DEF NoTask
  <2>3. \A b \in Ids : files'[b] = files[b] \/ files'[b] = "none" BY <1>0, <1>20 DEF Cancelled, Interrupted, FilesOK
  <2>4. \A b \in Ids : Being(b) => files'[b] = "none"
    BY <1>0, <1>2, <1>20 DEF Cancelled, Interrupted, Busy, FilesOK, Being, OrderInv, OthersEnd
  <2>5. \A b \in Ids : files'[b] # "none" => rows'[b].status = "ready" BY <1>7, <2>1, <2>3, <2>4
  <2>6. \E a \in Reqs : req'[a].pc = "remove"
    <3>1. PICK a \in Reqs : req[a].pc = "await" BY <1>20 DEF Cancelled, WorkInv, CancelledForDelete
    <3>2. req'[a].pc = "remove" BY <1>0, <2>1, <3>1 DEF EndTask, ReqOK, Request
    <3> QED BY <3>2
  <2>7. Real' BY <2>6 DEF Real, Minded
  <2> QED BY <1>8, <1>10, <2>2, <2>3, <2>5, <2>7 DEF StepInv
<1>21. CASE CancelledFails
  <2>1. rows' = rows /\ files' = files BY <1>21, Zenon DEF CancelledFails, store
  <2>2. task'.id = task.id /\ task'.pc = "fail" BY <1>0, <1>21 DEF CancelledFails, Task
  <2>3. \A b \in Ids : Being(b) => Being(b)' BY <2>2 DEF Being
  <2> QED BY <1>7, <1>8, <1>9, <1>10, <2>1, <2>2, <2>3 DEF StepInv
<1> QED BY <1>11, <1>12, <1>13, <1>14, <1>15, <1>16, <1>17, <1>18, <1>19, <1>20, <1>21, Zenon DEF Run

\* With one request at a time, all of that holds throughout.
LEMMA StepCorrect ==
    ASSUME OneRequest
    PROVE  Spec => []StepInv
<1>1. Init => StepInv
  <2> SUFFICES ASSUME Init PROVE StepInv OBVIOUS
  <2>1. task.pc = "none" /\ (\A a \in Reqs : req[a].pc = "idle") BY DEF Init, NoTask, Idle
  <2>2. \A b \in Ids : files[b] = "none" /\ rows[b].status = "none" BY DEF Init, NoRow
  <2> QED BY <2>1, <2>2 DEF StepInv, Owned, Emptied, Real
<1>2. TypeOK /\ CutOffInv /\ WorkInv /\ OrderInv /\ StepInv /\ [Next]_vars => StepInv'
  <2> SUFFICES ASSUME TypeOK, CutOffInv, WorkInv, OrderInv, StepInv, [Next]_vars PROVE StepInv' OBVIOUS
  <2>1. ASSUME NEW a \in Reqs, Ask(a) \/ Serve(a) PROVE StepInv'
    <3>1. CASE Attends(a) BY <3>1, AttendsStep, AttendsReal DEF StepInv
    <3>2. CASE Insert(a) \/ SpawnBackup(a) BY <3>2, MakesStep
    <3> QED BY <2>1, <3>1, <3>2, Zenon DEF Serve, Attends
  <2>2. CASE Run BY <2>2, RunStep
  <2>3. CASE PanelDies \/ Shutdown \/ Recover BY <2>3, AroundStep
  <2>4. CASE UNCHANGED vars
    BY <2>4, Zenon DEF vars, StepInv, Owned, Being, Emptied, Real, Minded, Spared
  <2> QED BY <2>1, <2>2, <2>3, <2>4, Zenon DEF Next
<1> QED BY <1>1, <1>2, OrderCorrect, PTL DEF Spec

\* Rows and archives are in step (_backup, delete_backup, _prune_backups, recover):
\* what fails, is cancelled, crashes or is deleted leaves no archive nobody can
\* see, no row that is being made for ever and no ready backup without its archive.
THEOREM RowsAndFilesAgree ==
    ASSUME OneRequest
    PROVE  Spec => []RowsAndFiles
<1>1. StepInv => NoLostFiles
  <2> SUFFICES ASSUME StepInv, Quiet, NEW b \in Ids, files[b] # "none" PROVE rows[b].status = "ready"
    BY DEF NoLostFiles
  <2>1. task.pc = "none" BY DEF Quiet, NoTask
  <2>2. up BY Zenon DEF Quiet
  <2> QED BY <2>1, <2>2 DEF StepInv, Owned, Being
<1>2. StepInv => CreatingIsReal
  <2> SUFFICES ASSUME StepInv, up, Spared({"removeFails"}), NEW b \in Ids, rows[b].status = "creating"
               PROVE  \/ task.id = b
                      \/ \E a \in Reqs : req[a].id = b \/ req[a].pc \in {"remove", "rmtree", "cascade"}
    BY DEF CreatingIsReal
  <2>1. Minded(b) BY DEF StepInv, Real
  <2> QED BY <2>1 DEF Minded
<1> QED BY <1>1, <1>2, StepCorrect, ReadyBackupHasFile, PTL DEF RowsAndFiles
----------------------------------------------------------------------------
\* How many of a set's backups are newer than this one, and those of the set with
\* at least n newer: Beyond(n) of a set that is not the schedule's.
Newer(S, b) == Cardinality({c \in S : c > b})
Old(S, n) == {b \in S : Newer(S, b) >= n}

LEMMA Finite ==
    ASSUME NEW S \in SUBSET Ids
    PROVE  IsFiniteSet(S) /\ Cardinality(S) \in Nat
<1>1. IsFiniteSet(Ids) BY FS_Interval, BoundsAssumption DEF Ids
<1> QED BY <1>1, FS_Subset, FS_CardinalityType

\* A part of a set of backups has no more than the set.
LEMMA Fewer ==
    ASSUME NEW S \in SUBSET Ids, NEW T \in SUBSET S
    PROVE  Cardinality(T) <= Cardinality(S)
BY Finite, FS_Subset

LEMMA NewerType ==
    ASSUME NEW S \in SUBSET Ids, NEW b
    PROVE  Newer(S, b) \in Nat
<1>1. {c \in S : c > b} \in SUBSET Ids OBVIOUS
<1> QED BY <1>1, Finite DEF Newer

\* An older backup has more newer ones.
LEMMA NewerThanOlder ==
    ASSUME NEW S \in SUBSET Ids, NEW b \in S, NEW c \in S, b < c
    PROVE  Newer(S, c) < Newer(S, b)
<1> DEFINE Bs == {d \in S : d > b}
           Cs == {d \in S : d > c}
<1>1. Bs \in SUBSET Ids /\ Cs \in SUBSET Ids OBVIOUS
<1>2. \A d \in Ids : d \in Int BY DEF Ids
<1>3. Cs \cup {c} \in SUBSET Bs /\ c \notin Cs BY <1>2
<1>4. Cardinality(Cs \cup {c}) = Cardinality(Cs) + 1 BY <1>1, <1>3, Finite, FS_AddElement
<1>5. Cardinality(Cs \cup {c}) <= Cardinality(Bs) BY <1>1, <1>3, Fewer
<1>6. Cardinality(Bs) \in Nat /\ Cardinality(Cs) \in Nat BY <1>1, Finite
<1>7. Newer(S, b) = Cardinality(Bs) /\ Newer(S, c) = Cardinality(Cs) BY DEF Newer
<1> QED BY <1>4, <1>5, <1>6, <1>7

\* Two of them never have equally many.
LEMMA NewerDiffers ==
    ASSUME NEW S \in SUBSET Ids, NEW b \in S, NEW c \in S, Newer(S, b) = Newer(S, c)
    PROVE  b = c
<1>1. b \in Int /\ c \in Int BY DEF Ids
<1>2. Newer(S, b) \in Nat BY NewerType
<1>3. ~(b < c) BY <1>2, NewerThanOlder
<1>4. ~(c < b) BY <1>2, NewerThanOlder
<1> QED BY <1>1, <1>3, <1>4

\* No more than n are left beside those with n newer ones.
LEMMA NewestFew ==
    ASSUME NEW S \in SUBSET Ids, NEW n \in Nat
    PROVE  Cardinality(S \ Old(S, n)) <= n
<1> DEFINE T == S \ Old(S, n)
           f == [b \in T |-> Newer(S, b)]
<1>1. T \in SUBSET Ids /\ T \in SUBSET S OBVIOUS
<1>2. \A b \in T : Newer(S, b) \in 0 .. n - 1
  <2> SUFFICES ASSUME NEW b \in T PROVE Newer(S, b) \in 0 .. n - 1 OBVIOUS
  <2>1. Newer(S, b) \in Nat BY NewerType
  <2>2. ~(Newer(S, b) >= n) BY DEF Old
  <2> QED BY <2>1, <2>2
<1>3. f \in [T -> 0 .. n - 1] BY <1>2
<1>4. IsFiniteSet(T) /\ Cardinality(T) \in Nat BY <1>1, Finite
<1>5. IsFiniteSet(0 .. n - 1) /\ Cardinality(0 .. n - 1) = n BY FS_Interval
<1>6. CASE Cardinality(0 .. n - 1) < Cardinality(T)
  <2>0. \A b \in T : f[b] = Newer(S, b) OBVIOUS
  <2> HIDE DEF T, f
  <2>1. \E b, c \in T : b # c /\ f[b] = f[c]
    <3> DEFINE R == 0 .. n - 1
    <3>1. IsFiniteSet(R) /\ Cardinality(R) < Cardinality(T) /\ f \in [T -> R] BY <1>3, <1>5, <1>6
    <3> HIDE DEF R
    <3> QED BY <1>4, <3>1, FS_PigeonHole
  <2>2. PICK b, c \in T : b # c /\ f[b] = f[c] BY <2>1
  <2>3. Newer(S, b) = Newer(S, c) BY <2>0, <2>2
  <2> QED BY <1>1, <2>2, <2>3, NewerDiffers
<1> QED BY <1>4, <1>5, <1>6

\* A new one at the end moves the limit on by one.
LEMMA OldAdd ==
    ASSUME NEW S \in SUBSET Ids, NEW d \in Ids, \A c \in S : c < d, NEW n \in Nat
    PROVE  Old(S \cup {d}, n + 1) = Old(S, n)
<1> DEFINE T == S \cup {d}
<1>1. T \in SUBSET Ids /\ \A b \in Ids : b \in Int BY DEF Ids
<1>2. ASSUME NEW b \in S PROVE Newer(T, b) = Newer(S, b) + 1
  <2>1. {c \in T : c > b} = {c \in S : c > b} \cup {d} BY <1>1
  <2>2. d \notin {c \in S : c > b} BY <1>1
  <2>3. {c \in S : c > b} \in SUBSET Ids OBVIOUS
  <2> QED BY <2>1, <2>2, <2>3, Finite, FS_AddElement DEF Newer
<1>3. Newer(T, d) = 0
  <2>1. {c \in T : c > d} = {} BY <1>1
  <2> QED BY <2>1, FS_EmptySet DEF Newer
<1>4. \A b \in S : Newer(S, b) \in Nat BY NewerType
<1> QED BY <1>2, <1>3, <1>4 DEF Old
----------------------------------------------------------------------------
\* A ready backup has its size, one that is being made has none yet.
RowSizes ==
    \A b \in Ids : /\ rows[b].status = "ready" => rows[b].size # 0
                   /\ rows[b].status \in {"creating", "none"} => rows[b].size = 0

\* A backup in the making is the last one recorded, and its row says what for.
LastMade ==
    /\ \A a \in Reqs : req[a].pc = "spawn" => req[a].id = made /\ rows[made].op = req[a].op
    /\ task.pc \in Working => /\ task.id = made /\ rows[made].op = task.op
                              /\ task.op \in {"create", "schedule"}
    /\ task.pc \in {"select", "prune"} => task.op = "schedule"

RowInv == RowSizes /\ LastMade

\* A request's step touches no row but to take it away.
LEMMA AttendsRow ==
    ASSUME TypeOK, WorkInv, OneRequest, RowInv, OrderInv', NEW a \in Reqs, Attends(a)
    PROVE  RowInv'
<1>0. (\A c \in Reqs : c = a) /\ task \in Task BY DEF OneRequest, TypeOK
<1>1. /\ made' = made /\ req'[a].pc # "spawn"
      /\ task' \in {task, [task EXCEPT !.cancelled = TRUE], [NoTask EXCEPT !.op = "other", !.pc = "end"]}
      /\ \A b \in Ids : rows'[b] \in {rows[b], NoRow}
  BY AttendsMoves
<1>2. RowSizes' BY <1>1 DEF RowInv, RowSizes, NoRow
<1>3. task'.pc = "end" \/ (task'.pc = task.pc /\ task'.id = task.id /\ task'.op = task.op)
  BY <1>0, <1>1 DEF Task, NoTask
<1>4. ASSUME task'.pc \in Working
      PROVE  task'.id = made' /\ rows'[made'].op = task'.op /\ task'.op \in {"create", "schedule"}
  <2>1. task.pc \in Working /\ task'.id = made /\ task'.op = task.op BY <1>3, <1>4 DEF RowInv, LastMade, Working, Early
  <2>2. rows'[made].status = "creating" BY <1>4, <2>1 DEF OrderInv, Begun
  <2>3. made \in 1 .. made BY <2>1 DEF RowInv, LastMade, WorkInv, MakingAlone
  <2>4. rows'[made] = rows[made]
    <3>1. made \in Ids BY <2>3, BoundsAssumption DEF TypeOK, Ids
    <3> QED BY <1>1, <2>2, <3>1 DEF NoRow
  <2> QED BY <1>1, <2>1, <2>4 DEF RowInv, LastMade
<1>5. task'.pc \in {"select", "prune"} => task'.op = "schedule" BY <1>3 DEF RowInv, LastMade
<1> QED BY <1>0, <1>1, <1>2, <1>4, <1>5 DEF RowInv, LastMade

\* A request records the backup under its own name and its task takes it over.
LEMMA MakesRow ==
    ASSUME TypeOK, OneRequest, OrderInv, RowInv, NEW a \in Reqs, Insert(a) \/ SpawnBackup(a)
    PROVE  RowInv'
<1>0. ReqOK /\ RowsOK /\ (\A c \in Reqs : c = a) /\ made \in Nat
  BY BoundsAssumption DEF TypeOK, ReqOK, RowsOK, OneRequest
<1>1. req[a].pc \in {"insert", "spawn"} BY Zenon DEF Insert, SpawnBackup
<1>2. task = NoTask BY <1>1 DEF OrderInv, Alone
<1>3. NoTask.pc = "none" BY DEF NoTask
<1>4. CASE Insert(a)
  <2>1. task'.pc = "none" BY <1>2, <1>3, <1>4, Zenon DEF Insert
  <2>2. CASE rows' = rows /\ Finish(a)
    <3>1. req'[a].pc = "idle" BY <1>0, <2>2 DEF Finish, ReqOK, Idle
    <3> QED BY <1>0, <2>1, <2>2, <3>1 DEF RowInv, RowSizes, LastMade, Working, Early
  <2>3. CASE /\ made' = made + 1
             /\ rows' = [rows EXCEPT ![made + 1] = [status |-> "creating", op |-> req[a].op, size |-> 0]]
             /\ req' = [req EXCEPT ![a].pc = "spawn", ![a].id = made + 1]
    <3>1. made + 1 \in Ids BY <1>0, <1>4, BoundsAssumption DEF Insert, Ids
    <3>2. \A b \in Ids \ {made + 1} : rows'[b] = rows[b] BY <1>0, <2>3 DEF RowsOK
    <3>3. /\ rows'[made + 1].status = "creating" /\ rows'[made + 1].size = 0
          /\ rows'[made + 1].op = req[a].op
      BY <1>0, <2>3, <3>1 DEF RowsOK
    <3>4. RowSizes' BY <3>2, <3>3 DEF RowInv, RowSizes
    <3>5. req'[a].id = made + 1 /\ req'[a].op = req[a].op BY <1>0, <2>3 DEF ReqOK, Request
    <3> QED BY <1>0, <2>1, <2>3, <3>3, <3>4, <3>5 DEF RowInv, LastMade, Working, Early
  <2> QED BY <1>4, <2>2, <2>3, Zenon DEF Insert
<1>5. CASE SpawnBackup(a)
  <2>1. req'[a].pc = "idle" /\ rows' = rows /\ made' = made
    BY <1>0, <1>5 DEF SpawnBackup, Finish, Idle, ReqOK, store
  <2>2. task' = [NoTask EXCEPT !.op = req[a].op, !.pc = "begin", !.id = req[a].id]
    BY <1>2, <1>5, Zenon DEF SpawnBackup, Spawn, Busy
  <2>3. task'.op = req[a].op /\ task'.id = req[a].id /\ task'.pc = "begin" BY <2>2 DEF NoTask
  <2>4. req[a].op \in {"create", "schedule"} /\ req[a].pc = "spawn"
    BY <1>5 DEF SpawnBackup, OrderInv, Asked
  <2> QED BY <1>0, <2>1, <2>3, <2>4 DEF RowInv, RowSizes, LastMade
<1> QED BY <1>4, <1>5

\* The task gives its row a size as it makes it ready.
LEMMA RunRow ==
    ASSUME TypeOK, CutOffInv, WorkInv, OrderInv, RowInv, Run
    PROVE  RowInv'
<1>0. ReqOK /\ RowsOK /\ task \in Task /\ made \in Nat /\ 1 .. made \subseteq Ids
  BY BoundsAssumption DEF TypeOK, ReqOK, RowsOK, Ids
<1>1. made' = made /\ \A a \in Reqs : req'[a].pc # "spawn"
  <2>1. \A a \in Reqs : req[a].pc # "spawn"
    <3>1. task # NoTask
      <4>1. \/ task.pc \in {"begin", "before", "wait", "open", "archive", "after", "finish", "select",
                       "prune", "end", "fail", "failed"}
            \/ task.cancelled
        BY Zenon DEF Run, At, Begin, Before, Wait, Open, Archive, After, FinishBackup, PruneSelect, PruneFile,
           PruneCommit, End, FailUnlink, FailRow, Cancelled, CancelledFails
      <4>2. NoTask.pc = "none" /\ ~NoTask.cancelled BY DEF NoTask
      <4> QED BY <4>1, <4>2
    <3> QED BY <3>1 DEF OrderInv, Alone
  <2> QED BY <2>1, RunMoves
<1>2. task.op # "other" \/ task.pc = "end" BY DEF OrderInv, OthersEnd
<1>3. ASSUME task'.pc \in Working => /\ task.pc \in Working /\ task'.id = task.id /\ task'.op = task.op
                                     /\ rows'[made] = rows[made],
             task'.pc \in {"select", "prune"} => task'.op = "schedule"
      PROVE  LastMade'
  BY <1>1, <1>3 DEF RowInv, LastMade
<1>4. CASE Begin \/ Before \/ Wait \/ Open \/ Archive \/ After
  <2>1. rows' = rows BY <1>4, Zenon DEF Begin, Before, Wait, Open, Archive, After, store
  <2>2. task.pc \in Working /\ task'.id = task.id /\ task'.op = task.op /\ task'.pc \notin {"select", "prune"}
    BY <1>0, <1>4 DEF Begin, Before, Wait, Open, Archive, After, At, Step, Task, Working, Early
  <2> QED BY <1>3, <2>1, <2>2 DEF RowInv, RowSizes
<1>5. CASE FinishBackup
  <2>1. task.pc = "finish" /\ task.id \in Ids BY <1>0, <1>5 DEF FinishBackup, At, CutOffInv, HasArchive
  <2>2. /\ task'.pc \notin Working
        /\ task'.pc \in {"select", "prune"} => task'.op = "schedule"
    BY <1>0, <1>5 DEF FinishBackup, Step, Task, Working, Early
  <2>3. rows[task.id].status = "creating" BY <2>1 DEF OrderInv, Begun, Working
  <2>4. /\ \A b \in Ids \ {task.id} : rows'[b] = rows[b]
        /\ rows'[task.id].status = "ready" /\ rows'[task.id].size # 0
    <3>1. PICK size \in Sizes : rows' = SetStatus(task.id, "ready", size) BY <1>5, Zenon DEF FinishBackup
    <3>2. size # 0 BY BoundsAssumption
    <3> QED BY <1>0, <2>1, <2>3, <3>1, <3>2 DEF SetStatus, RowsOK, Row
  <2> QED BY <1>3, <2>2, <2>4 DEF RowInv, RowSizes
<1>6. CASE PruneSelect
  <2>1. rows' = rows BY <1>6, Zenon DEF PruneSelect, store
  <2>2. task'.pc = "prune" /\ task'.op = task.op /\ task.pc = "select" BY <1>0, <1>6 DEF PruneSelect, At, Task
  <2> QED BY <1>3, <2>1, <2>2 DEF RowInv, RowSizes, LastMade, Working, Early
<1>7. CASE PruneFile
  <2>1. rows' = rows /\ task.pc = "prune" BY <1>7, Zenon DEF PruneFile, At
  <2>2. PICK newest : task' = [task EXCEPT !.left = @ \ {newest}] \/ Step("fail")
    BY <1>7, Zenon DEF PruneFile
  <2>3. task'.op = task.op /\ task'.pc \in {"prune", "fail"} BY <1>0, <2>1, <2>2 DEF Step, Task
  <2> QED BY <1>3, <2>1, <2>3 DEF RowInv, RowSizes, LastMade, Working, Early
<1>8. CASE PruneCommit
  <2>1. task'.pc \in {"end", "fail"} BY <1>0, <1>8 DEF PruneCommit, Step, Task
  <2>2. \A b \in Ids : rows'[b] = rows[b] \/ rows'[b] = NoRow BY <1>8 DEF PruneCommit
  <2>3. RowSizes' BY <2>2 DEF RowInv, RowSizes, NoRow
  <2> QED BY <1>3, <2>1, <2>3 DEF RowInv, Working, Early
<1>9. CASE End \/ Cancelled
  <2>1. task' = NoTask /\ rows' = rows BY <1>9, Zenon DEF End, Cancelled, EndTask, store
  <2> QED BY <1>3, <2>1 DEF RowInv, RowSizes, NoTask, Working, Early
<1>10. CASE FailUnlink \/ CancelledFails
  <2>1. rows' = rows BY <1>10, Zenon DEF FailUnlink, CancelledFails, store
  <2>2. task'.pc \in {"fail", "failed"} BY <1>0, <1>10 DEF FailUnlink, CancelledFails, Step, Task
  <2> QED BY <1>3, <2>1, <2>2 DEF RowInv, RowSizes, Working, Early
<1>11. CASE FailRow
  <2>1. task'.pc = "end" BY <1>0, <1>11 DEF FailRow, Step, Task
  <2>2. \A b \in Ids : rows'[b] = rows[b] \/ rows'[b].status = "failed"
    BY <1>0, <1>11 DEF FailRow, SetStatus, RowsOK, Row
  <2> QED BY <1>3, <2>1, <2>2 DEF RowInv, RowSizes, Working, Early
<1> QED BY <1>4, <1>5, <1>6, <1>7, <1>8, <1>9, <1>10, <1>11 DEF Run

\* With one request at a time, all of that holds throughout.
LEMMA RowCorrect ==
    ASSUME OneRequest
    PROVE  Spec => []RowInv
<1>1. Init => RowInv
  BY DEF Init, RowInv, RowSizes, LastMade, NoTask, NoRow, Idle, Working, Early
<1>2. TypeOK /\ CutOffInv /\ WorkInv /\ OrderInv /\ RowInv /\ OrderInv' /\ [Next]_vars => RowInv'
  <2> SUFFICES ASSUME TypeOK, CutOffInv, WorkInv, OrderInv, RowInv, OrderInv', [Next]_vars PROVE RowInv'
    OBVIOUS
  <2>0. RowsOK BY DEF TypeOK, RowsOK
  <2>1. ASSUME NEW a \in Reqs, Ask(a) \/ Serve(a) PROVE RowInv'
    BY <2>1, AttendsRow, MakesRow, Zenon DEF Serve, Attends
  <2>2. CASE Run BY <2>2, RunRow
  <2>3. CASE PanelDies \/ Shutdown \/ Recover
    <3>1. task'.pc = "none" /\ \A a \in Reqs : req'[a].pc = "idle"
      <4>1. CASE PanelDies \/ Shutdown BY <4>1 DEF PanelDies, Shutdown, Down, NoTask, Idle
      <4>2. CASE Recover
        <5>1. task = NoTask /\ (\A a \in Reqs : req[a] = Idle) /\ task' = task /\ req' = req
          BY <4>2, Zenon DEF Recover, WorkInv, DownIsQuiet
        <5> QED BY <5>1 DEF NoTask, Idle
      <4> QED BY <2>3, <4>1, <4>2
    <3>2. rows' = rows \/ Recover BY <2>3, Zenon DEF PanelDies, Shutdown, store
    <3>3. Recover => \A b \in Ids : rows'[b] = rows[b] \/ rows'[b].status = "failed"
      BY <2>0 DEF Recover, RowsOK, Row
    <3>4. RowSizes' BY <3>2, <3>3 DEF RowInv, RowSizes
    <3> QED BY <3>1, <3>4 DEF RowInv, LastMade, Working, Early
  <2>4. CASE UNCHANGED vars BY <2>4, Zenon DEF vars, RowInv, RowSizes, LastMade
  <2> QED BY <2>1, <2>2, <2>3, <2>4, Zenon DEF Next
<1> QED BY <1>1, <1>2, OrderCorrect, PTL DEF Spec
----------------------------------------------------------------------------
\* The backups that take up room, the archives that are complete, and what a
\* backup for op lets its pruning take away.
Sized == {b \in Ids : rows[b].size # 0}
Whole == {b \in Ids : files[b] = "whole"}
ToPrune(op, n) == IF op = "create" THEN {} ELSE Beyond(n)

\* There is room beside what stays of the backups when one more is made, and the archives
\* beside the one being made were each made while there was.
TaskRoom ==
    /\ Fits(rows, Whole \ {task.id})
    /\ task.pc \in Working => Bytes(rows, Sized \ ToPrune(task.op, Keep - 1)) < Limit
    /\ task.pc = "select" => Fits(rows, Sized \ Beyond(Keep))
    /\ task.pc = "prune" => Fits(rows, Sized \ task.olds)
    /\ task.pc \in {"end", "failed"} => Fits(rows, Whole)

ReqRoom(a) ==
    /\ req[a].pc = "pruned" => req[a].used = Bytes(rows, Sized)
    /\ req[a].pc \in {"insert", "spawn"} => Bytes(rows, Sized \ ToPrune(req[a].op, Keep - 1)) < Limit

RoomInv == Spared({"panelDies"}) /\ ~thinned => TaskRoom /\ \A a \in Reqs : ReqRoom(a)

\* Beside what is being made or pruned, the schedule's backups are few, unless
\* the server is on its way out.
NewestInv ==
    Spared({"removeFails", "panelDies", "shutdown"}) =>
       \/ Gone
       \/ /\ Cardinality(Scheduled \ {task.id}) <= Keep
          /\ task.pc = "prune" => Cardinality(Scheduled \ task.olds) <= Keep
          /\ task.pc = "end" => Cardinality(Scheduled) <= Keep

\* The sets of a state that these count.
LEMMA Counted ==
    /\ Sized \in SUBSET Ids /\ Whole \in SUBSET Ids /\ Scheduled \in SUBSET Ids
    /\ \A n \in Nat : Beyond(n) = Old(Scheduled, n) /\ Beyond(n) \in SUBSET Ids
    /\ Keep \in Nat /\ Keep - 1 \in Nat /\ Limit \in Nat
<1>1. Sized \in SUBSET Ids /\ Whole \in SUBSET Ids /\ Scheduled \in SUBSET Ids BY DEF Sized, Whole, Scheduled
<1>2. \A n \in Nat : Beyond(n) = Old(Scheduled, n) BY DEF Beyond, Old, Newer
<1>3. \A n \in Nat : Beyond(n) \in SUBSET Ids BY <1>1 DEF Beyond
<1>4. Keep \in Nat /\ Keep - 1 \in Nat /\ Limit \in Nat BY BoundsAssumption
<1> QED BY <1>1, <1>2, <1>3, <1>4

\* Some of the backups that fit fit too, at sizes that are no larger.
LEMMA FitsStill ==
    ASSUME NEW u \in [Ids -> Row], NEW r \in [Ids -> Row], NEW w \in SUBSET Ids, NEW v \in SUBSET w,
           \A b \in v : r[b].size <= u[b].size, Fits(u, w)
    PROVE  Fits(r, v)
<1> SUFFICES ASSUME NEW b \in v PROVE Bytes(r, {c \in v : c < b}) < Limit BY DEF Fits
<1> DEFINE x == {c \in v : c < b}
           y == {c \in w : c < b}
<1>1. x \in SUBSET Ids /\ y \in SUBSET Ids OBVIOUS
<1>2. Bytes(r, x) <= Bytes(u, y)
  <2>1. \A c \in x : r[c].size # 0 => c \in y /\ r[c].size <= u[c].size OBVIOUS
  <2> HIDE DEF x, y
  <2> QED BY <1>1, <2>1, NoMore
<1>3. Bytes(u, y) < Limit BY DEF Fits
<1>4. Bytes(r, x) \in Nat /\ Bytes(u, y) \in Nat /\ Limit \in Nat BY <1>1, BytesAdd, BoundsAssumption
<1> HIDE DEF x, y
<1>5. Bytes(r, x) < Limit BY <1>2, <1>3, <1>4
<1> QED BY <1>5 DEF x

\* A new backup fits beside older ones that leave some of the room, whatever its size.
LEMMA FitsOneMore ==
    ASSUME NEW r \in [Ids -> Row], NEW w \in SUBSET Ids, NEW d \in Ids, \A c \in w : c < d, Bytes(r, w) < Limit
    PROVE  Fits(r, w \cup {d})
<1> DEFINE v == w \cup {d}
<1> SUFFICES ASSUME NEW b \in v PROVE Bytes(r, {c \in v : c < b}) < Limit BY DEF Fits
<1> DEFINE x == {c \in v : c < b}
<1>0. \A c \in Ids : c \in Int BY DEF Ids
<1>1. x \in SUBSET w /\ x \in SUBSET Ids BY <1>0
<1>2. \A c \in x : r[c].size <= r[c].size
  <2>1. \A c \in x : r[c].size \in Nat BY <1>1, SizesAre
  <2> QED BY <2>1
<1> HIDE DEF x
<1>3. Bytes(r, x) <= Bytes(r, w) BY <1>1, <1>2, NoMore
<1>4. Bytes(r, x) \in Nat /\ Bytes(r, w) \in Nat /\ Limit \in Nat BY <1>1, BytesAdd, BoundsAssumption
<1>5. Bytes(r, x) < Limit BY <1>3, <1>4
<1> QED BY <1>5 DEF x

\* Fewer backups, no larger, leave at least the room that there was.
LEMMA RoomStill ==
    ASSUME NEW u \in [Ids -> Row], NEW r \in [Ids -> Row], NEW w \in SUBSET Ids, NEW v \in SUBSET w,
           \A b \in v : r[b].size <= u[b].size, Bytes(u, w) < Limit
    PROVE  Bytes(r, v) < Limit
<1>1. v \in SUBSET Ids OBVIOUS
<1>2. Bytes(r, v) <= Bytes(u, w) BY <1>1, NoMore
<1>3. Bytes(r, v) \in Nat /\ Bytes(u, w) \in Nat /\ Limit \in Nat BY <1>1, BytesAdd, BoundsAssumption
<1> QED BY <1>2, <1>3

\* What is no larger than itself.
LEMMA Same ==
    ASSUME NEW r \in [Ids -> Row]
    PROVE  \A b \in Ids : r[b].size <= r[b].size
<1>1. \A b \in Ids : r[b].size \in Nat BY SizesAre
<1> QED BY <1>1

\* All the backups take up what those with a size do.
LEMMA OnlySized ==
    ASSUME RowsOK
    PROVE  Bytes(rows, Ids) = Bytes(rows, Sized) /\ Bytes(rows, Sized) \in Nat
<1>1. rows \in [Ids -> Row] /\ Ids \in SUBSET Ids /\ Sized \in SUBSET Ids /\ Sized \in SUBSET Ids BY DEF RowsOK, Sized
<1>2. \A b \in Ids : rows[b].size # 0 => b \in Sized /\ rows[b].size <= rows[b].size BY <1>1, Same DEF Sized
<1>3. \A b \in Sized : rows[b].size # 0 => b \in Ids /\ rows[b].size <= rows[b].size BY <1>1, Same DEF Sized
<1>4. Bytes(rows, Ids) <= Bytes(rows, Sized) BY <1>1, <1>2, NoMore
<1>5. Bytes(rows, Sized) <= Bytes(rows, Ids) BY <1>1, <1>3, NoMore
<1>6. Bytes(rows, Ids) \in Nat /\ Bytes(rows, Sized) \in Nat BY <1>1, BytesAdd
<1> QED BY <1>4, <1>5, <1>6

\* A ready backup of the schedule takes up room.
LEMMA ScheduledSized ==
    ASSUME RowInv
    PROVE  Scheduled \subseteq Sized
BY DEF RowInv, RowSizes, Scheduled, Sized

\* A part of a set keeps to the set's bound.
LEMMA FewerStill ==
    ASSUME NEW S \in SUBSET Ids, NEW T \in SUBSET S, NEW m \in Int, Cardinality(S) <= m
    PROVE  Cardinality(T) <= m
<1>1. Cardinality(T) <= Cardinality(S) BY Fewer
<1>2. Cardinality(S) \in Nat /\ Cardinality(T) \in Nat BY Finite
<1> QED BY <1>1, <1>2

\* A request that makes no backup writes no archive, and takes rows away one by
\* one or all of them.
LEMMA AttendsStore ==
    ASSUME TypeOK, NEW a \in Reqs, Attends(a)
    PROVE  /\ Whole' \subseteq Whole
           /\ \/ rows' = rows
              \/ DropBackup(a) \/ Cascade(a)
<1>0. FilesOK BY DEF TypeOK, FilesOK
<1>1. \A b \in Ids : files'[b] = files[b] \/ files'[b] = "none"
  <2>1. CASE UnlinkBackup(a) BY <1>0, <2>1 DEF UnlinkBackup, FilesOK
  <2>2. CASE RemoveFiles(a) BY <2>2 DEF RemoveFiles
  <2>3. CASE files' = files BY <2>3
  <2> QED BY <2>1, <2>2, <2>3, Zenon DEF Attends, Ask, Check, ReadUsage, ReadPruned, GetBackup, DropBackup,
         CancelTask, RemoveServer, Cascade, store
<1>2. Whole' \subseteq Whole BY <1>1 DEF Whole
<1>3. rows' = rows \/ DropBackup(a) \/ Cascade(a)
  BY Zenon DEF Attends, Ask, Check, ReadUsage, ReadPruned, GetBackup, UnlinkBackup, CancelTask, RemoveServer,
     RemoveFiles, store
<1> QED BY <1>2, <1>3

\* The row of a backup that is dropped leaves the sets.
LEMMA DropSets ==
    ASSUME RowsOK, NEW d \in Ids, rows' = [rows EXCEPT ![d] = NoRow]
    PROVE  Sized' = Sized \ {d} /\ Scheduled' = Scheduled \ {d}
<1>1. \A b \in Ids : rows'[b] = IF b = d THEN NoRow ELSE rows[b] BY DEF RowsOK
<1>2. NoRow.size = 0 /\ NoRow.op = "none" BY DEF NoRow
<1> QED BY <1>1, <1>2 DEF Sized, Scheduled

\* The sets are the rows' alone.
LEMMA SameSets ==
    ASSUME rows' = rows
    PROVE  Sized' = Sized /\ Scheduled' = Scheduled /\ \A n : Beyond(n)' = Beyond(n)
BY DEF Sized, Scheduled, Beyond

\* A request that is no backup's takes no room.
LEMMA AttendsRoom ==
    ASSUME TypeOK, OneRequest, OrderInv, StepInv, RowInv, TaskRoom, \A c \in Reqs : ReqRoom(c),
           NEW a \in Reqs, Attends(a), ~thinned'
    PROVE  TaskRoom' /\ ReqRoom(a)'
<1>0. ReqOK /\ RowsOK /\ task \in Task /\ (\A c \in Reqs : c = a) /\ rows \in [Ids -> Row]
  BY DEF TypeOK, ReqOK, RowsOK, OneRequest
<1>1. Whole' \subseteq Whole BY AttendsStore
<1>2. \/ task = NoTask /\ task'.pc = "end" /\ task'.id = 0
      \/ /\ task'.pc = task.pc /\ task'.id = task.id /\ task'.op = task.op /\ task'.olds = task.olds
  BY <1>0, AttendsTask DEF NoTask, Task
<1>3. ASSUME rows' \in [Ids -> Row], \A b \in Ids : rows'[b].size <= rows[b].size
      PROVE  /\ Fits(rows', Whole' \ {task'.id})
             /\ task'.pc \in {"end", "failed"} => Fits(rows', Whole')
  <2>0. NoTask.id = 0 BY DEF NoTask
  <2>1. Whole' \ {task'.id} \in SUBSET (Whole \ {task.id}) BY <1>1, <1>2, <2>0
  <2>2. task'.pc \in {"end", "failed"} => Fits(rows, Whole)
    <3>1. 0 \notin Whole BY DEF Whole, Ids
    <3>2. task = NoTask => Whole \ {task.id} = Whole BY <2>0, <3>1
    <3> QED BY <1>2, <3>2 DEF TaskRoom
  <2>3. Whole \in SUBSET Ids /\ Whole \ {task.id} \in SUBSET Ids BY Counted
  <2>4. Fits(rows, Whole \ {task.id}) BY DEF TaskRoom
  <2>5. \A b \in Whole' \ {task'.id} : rows'[b].size <= rows[b].size BY <1>3, <2>1, <2>3
  <2>6. \A b \in Whole' : rows'[b].size <= rows[b].size BY <1>1, <1>3, <2>3
  <2>7. Fits(rows', Whole' \ {task'.id}) BY <1>0, <1>3, <2>1, <2>3, <2>4, <2>5, FitsStill
  <2>8. ASSUME Fits(rows, Whole) PROVE Fits(rows', Whole') BY <1>0, <1>1, <1>3, <2>3, <2>6, <2>8, FitsStill
  <2> QED BY <2>2, <2>7, <2>8
<1>4. CASE rows' = rows
  <2>0. Fits(rows', Whole' \ {task'.id}) /\ (task'.pc \in {"end", "failed"} => Fits(rows', Whole'))
    BY <1>0, <1>3, <1>4, Same
  <2>1. Sized' = Sized /\ \A n : Beyond(n)' = Beyond(n) BY <1>4, SameSets
  <2>2. TaskRoom' BY <1>2, <1>4, <2>0, <2>1 DEF TaskRoom, ToPrune, Working, Early
  <2>3. ReqRoom(a)'
    <3>1. CASE ReadUsage(a)
      <4> DEFINE used == Bytes(rows, Sized)
      <4>1. used \in Nat /\ Limit \in Nat /\ used = Bytes(rows, Ids) BY <1>0, Counted, OnlySized
      <4>2. \/ Finish(a)
            \/ /\ ~(req[a].op = "create" /\ used >= Limit)
               /\ req' = [req EXCEPT ![a].used = used, ![a].pc = IF req[a].op = "create" THEN "insert" ELSE "pruned"]
        BY <3>1, <4>1 DEF ReadUsage
      <4>3. CASE Finish(a) BY <1>0, <4>3 DEF Finish, Idle, ReqOK, ReqRoom
      <4>4. CASE ~Finish(a)
        <5>1. /\ req'[a].used = used /\ req'[a].op = req[a].op
              /\ req'[a].pc = IF req[a].op = "create" THEN "insert" ELSE "pruned"
          BY <1>0, <4>2, <4>4 DEF ReqOK, Request
        <5>2. req'[a].pc = "insert" => req'[a].op = "create" /\ used < Limit BY <4>1, <4>2, <4>4, <5>1
        <5>3. req'[a].pc \in {"insert", "pruned"} BY <5>1
        <5>4. Sized \ {} = Sized OBVIOUS
        <5> QED BY <1>4, <2>1, <5>1, <5>2, <5>3, <5>4 DEF ReqRoom, ToPrune
      <4> QED BY <4>3, <4>4
    <3>2. CASE ReadPruned(a)
      <4>1. req[a].pc = "pruned" /\ req[a].used = Bytes(rows, Sized) /\ req[a].op # "create"
        BY <3>2 DEF ReadPruned, ReqRoom, OrderInv, Asked
      <4>2. CASE Finish(a) BY <1>0, <4>2 DEF Finish, Idle, ReqOK, ReqRoom
      <4>3. CASE ~Finish(a)
        <5>1. Goto(a, "insert") /\ ~(req[a].used - Bytes(rows, Beyond(Keep - 1)) >= Limit)
          BY <3>2, <4>3 DEF ReadPruned
        <5>2. req'[a].pc = "insert" /\ req'[a].op = req[a].op BY <1>0, <5>1 DEF Goto, ReqOK, Request
        <5>3. Beyond(Keep - 1) \in SUBSET Sized BY ScheduledSized DEF Beyond
        <5>4. Sized \in SUBSET Ids /\ Beyond(Keep - 1) \in SUBSET Ids /\ Sized \ Beyond(Keep - 1) \in SUBSET Ids
          BY <5>3, Counted
        <5>5. Bytes(rows, Sized) = Bytes(rows, Beyond(Keep - 1)) + Bytes(rows, Sized \ Beyond(Keep - 1))
          BY <1>0, <5>3, <5>4, Apart
        <5>6. /\ Bytes(rows, Sized) \in Nat /\ Bytes(rows, Beyond(Keep - 1)) \in Nat
              /\ Bytes(rows, Sized \ Beyond(Keep - 1)) \in Nat /\ Limit \in Nat
          BY <1>0, <5>4, BytesAdd, Counted
        <5>7. Bytes(rows, Sized \ Beyond(Keep - 1)) < Limit BY <4>1, <5>1, <5>5, <5>6
        <5> QED BY <1>4, <2>1, <4>1, <5>2, <5>7 DEF ReqRoom, ToPrune
      <4> QED BY <4>2, <4>3
    <3>3. CASE ~ReadUsage(a) /\ ~ReadPruned(a)
      <4>1. req'[a].pc \notin {"pruned", "insert", "spawn"}
        <5>1. CASE Ask(a) BY <1>0, <5>1 DEF Ask, ReqOK, Idle
        <5>2. CASE GetBackup(a) BY <1>0, <5>2 DEF GetBackup, Finish, Idle, ReqOK, Request
        <5>3. CASE Finish(a) \/ \E pc \in {"space", "drop", "remove", "await", "rmtree", "cascade"} : Goto(a, pc)
          BY <1>0, <5>3 DEF Finish, Goto, Idle, ReqOK, Request
        <5>4. \/ Ask(a) \/ GetBackup(a)
              \/ Finish(a) \/ \E pc \in {"space", "drop", "remove", "await", "rmtree", "cascade"} : Goto(a, pc)
          BY <3>3 DEF Attends, Check, UnlinkBackup, DropBackup, CancelTask, RemoveServer, RemoveFiles, Cascade
        <5> QED BY <5>1, <5>2, <5>3, <5>4
      <4> QED BY <4>1 DEF ReqRoom
    <3> QED BY <3>1, <3>2, <3>3
  <2> QED BY <2>2, <2>3
<1>5. CASE DropBackup(a) \/ Cascade(a)
  <2>1. Finish(a) BY <1>5, Zenon DEF DropBackup, Cascade
  <2>2. ReqRoom(a)' BY <1>0, <2>1 DEF Finish, Idle, ReqOK, ReqRoom
  <2>3. task' = task BY <1>5, Zenon DEF DropBackup, Cascade
  <2>4. rows' \in [Ids -> Row] /\ \A b \in Ids : rows'[b] = rows[b] \/ rows'[b] = NoRow
    BY <1>0, <1>5, Nothing DEF DropBackup, Cascade
  <2>5. \A b \in Ids : rows'[b].size <= rows[b].size
    <3>1. NoRow.size = 0 BY DEF NoRow
    <3>2. \A b \in Ids : rows[b].size \in Nat BY <1>0, SizesAre
    <3> QED BY <2>4, <3>1, <3>2
  <2>6. Fits(rows', Whole' \ {task'.id}) /\ (task'.pc \in {"end", "failed"} => Fits(rows', Whole'))
    BY <1>3, <2>4, <2>5
  <2>7. CASE DropBackup(a)
    <3> DEFINE d == req[a].id
    <3>1. d \in Ids /\ rows' = [rows EXCEPT ![d] = NoRow] BY <2>7 DEF DropBackup, StepInv, Emptied
    <3>2. Sized' = Sized \ {d} /\ Scheduled' = Scheduled \ {d} BY <1>0, <3>1, DropSets
    <3>3. task.op = "schedule" => Scheduled' = Scheduled
      <4>1. task.op = "schedule" => d \notin Scheduled BY <2>7, Zenon DEF DropBackup
      <4> QED BY <3>2, <4>1
    <3> HIDE DEF d
    <3>4. task.op = "schedule" => \A n : Beyond(n)' = Beyond(n) BY <3>3 DEF Beyond
    <3>5. Sized \in SUBSET Ids BY Counted
    <3>6. ASSUME NEW P, Bytes(rows, Sized \ P) < Limit PROVE Bytes(rows', Sized' \ P) < Limit
      <4>1. Sized \ P \in SUBSET Ids /\ Sized' \ P \in SUBSET (Sized \ P) BY <3>2, <3>5
      <4>2. \A b \in Sized' \ P : rows'[b].size <= rows[b].size BY <2>5, <4>1
      <4> QED BY <1>0, <2>4, <3>6, <4>1, <4>2, RoomStill
    <3>7. ASSUME NEW P, Fits(rows, Sized \ P) PROVE Fits(rows', Sized' \ P)
      <4>1. Sized \ P \in SUBSET Ids /\ Sized' \ P \in SUBSET (Sized \ P) BY <3>2, <3>5
      <4>2. \A b \in Sized' \ P : rows'[b].size <= rows[b].size BY <2>5, <4>1
      <4> QED BY <1>0, <2>4, <3>7, <4>1, <4>2, FitsStill
    <3>8. task.pc \in Working => Bytes(rows', Sized' \ ToPrune(task.op, Keep - 1)') < Limit
      <4> SUFFICES ASSUME task.pc \in Working PROVE Bytes(rows', Sized' \ ToPrune(task.op, Keep - 1)') < Limit OBVIOUS
      <4>1. Bytes(rows, Sized \ ToPrune(task.op, Keep - 1)) < Limit BY DEF TaskRoom
      <4>2. Bytes(rows', Sized' \ ToPrune(task.op, Keep - 1)) < Limit BY <3>6, <4>1
      <4>3. ToPrune(task.op, Keep - 1)' = ToPrune(task.op, Keep - 1)
        <5>1. task.op \in {"create", "schedule"} BY DEF RowInv, LastMade
        <5> QED BY <2>3, <3>4, <5>1 DEF ToPrune
      <4> QED BY <4>2, <4>3
    <3>9. task.pc = "select" => Fits(rows', Sized' \ Beyond(Keep)')
      <4> SUFFICES ASSUME task.pc = "select" PROVE Fits(rows', Sized' \ Beyond(Keep)') OBVIOUS
      <4>1. Fits(rows, Sized \ Beyond(Keep)) BY DEF TaskRoom
      <4>2. Fits(rows', Sized' \ Beyond(Keep)) BY <3>7, <4>1
      <4>3. Beyond(Keep)' = Beyond(Keep) BY <3>4 DEF RowInv, LastMade
      <4> QED BY <4>2, <4>3
    <3>10. task.pc = "prune" => Fits(rows', Sized' \ task.olds) BY <3>7 DEF TaskRoom
    <3>11. TaskRoom' BY <2>3, <2>6, <3>8, <3>9, <3>10 DEF TaskRoom
    <3> QED BY <2>2, <3>11
  <2>8. CASE Cascade(a)
    <3>1. task' = NoTask BY <2>3, <2>8 DEF Cascade, OrderInv, Alone
    <3>2. TaskRoom' BY <2>6, <3>1 DEF TaskRoom, NoTask, Working, Early
    <3> QED BY <2>2, <3>2
  <2> QED BY <1>5, <2>7, <2>8
<1> QED BY <1>4, <1>5, AttendsStore

\* A request that makes a backup hands the room it found on to its task.
LEMMA MakesRoom ==
    ASSUME TypeOK, WorkInv, OneRequest, OrderInv, RowInv, TaskRoom, \A c \in Reqs : ReqRoom(c),
           NEW a \in Reqs, Insert(a) \/ SpawnBackup(a)
    PROVE  TaskRoom' /\ ReqRoom(a)'
<1>0. ReqOK /\ RowsOK /\ (\A c \in Reqs : c = a) /\ made \in Nat
  BY BoundsAssumption DEF TypeOK, ReqOK, RowsOK, OneRequest
<1>1. req[a].pc \in {"insert", "spawn"} /\ files' = files BY Zenon DEF Insert, SpawnBackup, store
<1>2. task.pc = "none" /\ task.id = 0 /\ task = NoTask
  <2>1. task = NoTask BY <1>1 DEF OrderInv, Alone
  <2> QED BY <2>1 DEF NoTask
<1>3. Whole' = Whole /\ Whole \in SUBSET Ids /\ Sized \in SUBSET Ids /\ rows \in [Ids -> Row]
  BY <1>0, <1>1, Counted DEF Whole, RowsOK
<1>4. ASSUME rows' \in [Ids -> Row], \A b \in Ids : rows'[b].size <= rows[b].size
      PROVE  Fits(rows', Whole' \ {task'.id})
  <2>1. 0 \notin Whole BY DEF Whole, Ids
  <2>2. Fits(rows, Whole)
    <3>1. Whole \ {task.id} = Whole BY <1>2, <2>1
    <3> QED BY <3>1 DEF TaskRoom
  <2>3. Whole' \ {task'.id} \in SUBSET Whole BY <1>3
  <2>4. \A b \in Whole' \ {task'.id} : rows'[b].size <= rows[b].size BY <1>3, <1>4, <2>3
  <2> QED BY <1>3, <1>4, <2>2, <2>3, <2>4, FitsStill
<1>5. Bytes(rows, Sized \ ToPrune(req[a].op, Keep - 1)) < Limit BY <1>1 DEF ReqRoom
<1>6. CASE Insert(a)
  <2>1. task' = task BY <1>6, Zenon DEF Insert
  <2>2. ASSUME rows' \in [Ids -> Row], \A b \in Ids : rows'[b].size <= rows[b].size PROVE TaskRoom'
    BY <1>2, <1>4, <2>1, <2>2 DEF TaskRoom, Working, Early
  <2>3. CASE Finish(a)
    <3>1. req'[a].pc = "idle" BY <1>0, <2>3 DEF Finish, Idle, ReqOK
    <3>2. req[a].pc = "insert" BY <1>6, Zenon DEF Insert
    <3>3. req' # [req EXCEPT ![a].pc = "spawn", ![a].id = made + 1]
      <4>1. [req EXCEPT ![a].pc = "spawn", ![a].id = made + 1][a].pc = "spawn" BY <1>0 DEF ReqOK, Request
      <4> QED BY <3>1, <4>1
    <3>4. rows' = rows BY <1>6, <3>3, Zenon DEF Insert
    <3>5. TaskRoom' BY <1>3, <2>2, <3>4, Same
    <3> QED BY <3>1, <3>5 DEF ReqRoom
  <2>4. CASE ~Finish(a)
    <3>1. /\ req' = [req EXCEPT ![a].pc = "spawn", ![a].id = made + 1]
          /\ rows' = [rows EXCEPT ![made + 1] = [status |-> "creating", op |-> req[a].op, size |-> 0]]
          /\ made < MaxBackups
      BY <1>6, <2>4, Zenon DEF Insert
    <3>2. made + 1 \in Ids /\ made + 1 > made BY <1>0, <3>1, BoundsAssumption DEF Ids
    <3>3. rows[made + 1] = NoRow BY <3>2 DEF WorkInv, Numbers
    <3>4. /\ \A b \in Ids : b # made + 1 => rows'[b] = rows[b]
          /\ rows'[made + 1].size = 0 /\ rows'[made + 1].status = "creating"
      BY <1>0, <3>1, <3>2 DEF RowsOK
    <3>5. Sized' = Sized /\ Scheduled' = Scheduled BY <3>2, <3>3, <3>4 DEF Sized, Scheduled, NoRow
    <3>6. \A n : Beyond(n)' = Beyond(n) BY <3>5 DEF Beyond
    <3>7. req'[a].pc = "spawn" /\ req'[a].op = req[a].op BY <1>0, <3>1 DEF ReqOK, Request
    <3>8. rows' \in [Ids -> Row] /\ \A b \in Ids : rows'[b].size = rows[b].size
      <4>1. rows' \in [Ids -> Row]
        <5>1. [status |-> "creating", op |-> req[a].op, size |-> 0] \in Row BY <1>0 DEF ReqOK, Request, Row
        <5> QED BY <1>3, <3>1, <5>1
      <4> QED BY <3>2, <3>3, <3>4, <4>1 DEF NoRow
    <3>9. \A b \in Ids : rows'[b].size <= rows[b].size BY <1>3, <3>8, Same
    <3>10. Bytes(rows', Sized \ ToPrune(req[a].op, Keep - 1)) < Limit
      <4> DEFINE w == Sized \ ToPrune(req[a].op, Keep - 1)
      <4>1. w \in SUBSET Ids /\ w \in SUBSET w /\ \A b \in w : rows'[b].size <= rows[b].size BY <1>3, <3>9
      <4>2. Bytes(rows, w) < Limit BY <1>5
      <4> HIDE DEF w
      <4>3. Bytes(rows', w) < Limit BY <1>3, <3>8, <4>1, <4>2, RoomStill
      <4> QED BY <4>3 DEF w
    <3>11. ReqRoom(a)' BY <3>5, <3>6, <3>7, <3>10 DEF ReqRoom, ToPrune
    <3> QED BY <2>2, <3>8, <3>9, <3>11
  <2> QED BY <2>3, <2>4
<1>7. CASE SpawnBackup(a)
  <2>1. req'[a].pc = "idle" /\ rows' = rows BY <1>0, <1>7 DEF SpawnBackup, Finish, Idle, ReqOK, store
  <2>2. task' = [NoTask EXCEPT !.op = req[a].op, !.pc = "begin", !.id = req[a].id]
    BY <1>2, <1>7, Zenon DEF SpawnBackup, Spawn, Busy
  <2>3. task'.op = req[a].op /\ task'.pc = "begin" BY <2>2 DEF NoTask
  <2>4. Sized' = Sized /\ \A n : Beyond(n)' = Beyond(n) BY <2>1, SameSets
  <2>5. Bytes(rows', Sized' \ ToPrune(task.op, Keep - 1)') < Limit BY <1>5, <2>1, <2>3, <2>4 DEF ToPrune
  <2>a. Fits(rows', Whole' \ {task'.id}) BY <1>3, <1>4, <2>1, Same
  <2>6. TaskRoom' BY <2>3, <2>5, <2>a DEF TaskRoom
  <2>7. ReqRoom(a)' BY <2>1 DEF ReqRoom
  <2> QED BY <2>6, <2>7
<1> QED BY <1>6, <1>7

\* A backup that becomes ready takes up the room that was there for it: what the
\* schedule prunes after it is what the request had counted on.
LEMMA FinishRoom ==
    ASSUME TypeOK, CutOffInv, WorkInv, OrderInv, StepInv, RowInv, TaskRoom, FinishBackup
    PROVE  TaskRoom'
<1>0. RowsOK /\ task \in Task /\ made \in Nat BY BoundsAssumption DEF TypeOK, RowsOK
<1> DEFINE d == task.id
<1>1. files' = files /\ task.pc = "finish" /\ task'.id = task.id /\ task'.op = task.op
      /\ task'.pc = (IF task.op = "schedule" THEN "select" ELSE "end")
  <2>1. files' = files BY Zenon DEF FinishBackup
  <2> QED BY <1>0, <2>1 DEF FinishBackup, At, Step, Task
<1>2. d \in Ids /\ d = made /\ rows[d].status = "creating" /\ rows[d].op = task.op
      /\ task.op \in {"create", "schedule"} /\ rows[d].size = 0
  <2>1. task.pc \in Working BY <1>1 DEF Working
  <2>2. d \in Ids BY <2>1, BoundsAssumption DEF WorkInv, MakingAlone, TypeOK, Ids
  <2>3. d = made /\ rows[d].op = task.op /\ task.op \in {"create", "schedule"} BY <2>1 DEF RowInv, LastMade
  <2>4. rows[d].status = "creating" BY <2>1 DEF OrderInv, Begun
  <2> QED BY <2>2, <2>3, <2>4 DEF RowInv, RowSizes
<1>3. /\ \A b \in Ids : b # d => rows'[b] = rows[b]
      /\ rows'[d].status = "ready" /\ rows'[d].size # 0 /\ rows'[d].op = rows[d].op
      /\ rows' \in [Ids -> Row]
  <2>1. PICK size \in Sizes : rows' = SetStatus(d, "ready", size) BY Zenon DEF FinishBackup
  <2>2. size # 0 BY BoundsAssumption
  <2>3. rows' \in [Ids -> Row]
    <3>1. [rows[d] EXCEPT !.status = "ready", !.size = size] \in Row BY <1>0, <1>2 DEF RowsOK, Row
    <3>2. rows' = [rows EXCEPT ![d] = [rows[d] EXCEPT !.status = "ready", !.size = size]]
      BY <1>2, <2>1 DEF SetStatus
    <3> QED BY <1>0, <3>1, <3>2 DEF RowsOK
  <2> QED BY <1>0, <1>2, <2>1, <2>2, <2>3 DEF SetStatus, RowsOK, Row
<1>4. d \notin Scheduled /\ Sized' = Sized \cup {d} /\ Scheduled' = IF task.op = "schedule" THEN Scheduled \cup {d} ELSE Scheduled
  BY <1>2, <1>3 DEF Sized, Scheduled
<1>5. \A c \in Sized : c < d
  <2> SUFFICES ASSUME NEW c \in Sized PROVE c < d OBVIOUS
  <2>1. c \in Ids /\ rows[c] # NoRow /\ c # d BY <1>2 DEF Sized, NoRow
  <2>2. c <= made BY <1>0, <2>1 DEF WorkInv, Numbers, Ids
  <2>3. c \in Int BY <2>1 DEF Ids
  <2> QED BY <1>0, <1>2, <2>1, <2>2, <2>3
<1>6. Whole' = Whole BY <1>1 DEF Whole
<1>a. rows \in [Ids -> Row] /\ Whole \in SUBSET Ids /\ Sized \in SUBSET Ids BY <1>0, Counted DEF RowsOK
<1>7. Fits(rows', Whole' \ {task'.id})
  <2> DEFINE w == Whole \ {d}
  <2>1. Fits(rows, w) BY DEF TaskRoom
  <2>2. Whole' \ {task'.id} = w /\ w \in SUBSET Ids /\ w \in SUBSET w BY <1>1, <1>6, <1>a
  <2>3. \A b \in w : rows'[b].size <= rows[b].size BY <1>3, <1>a, Same
  <2> HIDE DEF w
  <2>4. Fits(rows', w) BY <1>3, <1>a, <2>1, <2>2, <2>3, FitsStill
  <2> QED BY <2>2, <2>4
<1>8. Bytes(rows, Sized \ ToPrune(task.op, Keep - 1)) < Limit BY <1>1 DEF TaskRoom, Working
<1> HIDE DEF d
\* What stays beside it leaves room, and it comes after them.
<1>b. ASSUME NEW w \in SUBSET Sized, Bytes(rows, w) < Limit PROVE Fits(rows', w \cup {d})
  <2>1. w \in SUBSET Ids /\ w \in SUBSET w /\ (\A c \in w : c < d) /\ d \notin w
    <3>1. d \notin Sized BY <1>2 DEF Sized
    <3> QED BY <1>5, <1>a, <3>1
  <2>2. \A b \in w : rows'[b].size <= rows[b].size BY <1>3, <1>a, <2>1, Same
  <2>3. Bytes(rows', w) < Limit BY <1>3, <1>a, <1>b, <2>1, <2>2, RoomStill
  <2> QED BY <1>2, <1>3, <2>1, <2>3, FitsOneMore
<1>9. CASE task.op = "schedule"
  <2>0. \A c \in Scheduled : c < d BY <1>5, ScheduledSized
  <2>1. Beyond(Keep)' = Beyond(Keep - 1)
    <3>1. Keep - 1 \in Nat /\ (Keep - 1) + 1 = Keep /\ Keep \in Nat BY BoundsAssumption
    <3>2. Old(Scheduled \cup {d}, (Keep - 1) + 1) = Old(Scheduled, Keep - 1) BY <1>2, <2>0, <3>1, Counted, OldAdd
    <3>3. Beyond(Keep)' = Old(Scheduled', Keep) BY DEF Beyond, Old, Newer
    <3>4. Beyond(Keep - 1) = Old(Scheduled, Keep - 1) BY <3>1, Counted
    <3> QED BY <1>4, <1>9, <3>1, <3>2, <3>3, <3>4
  <2>2. Sized' \ Beyond(Keep)' = (Sized \ Beyond(Keep - 1)) \cup {d}
    <3>1. d \notin Beyond(Keep - 1) BY <1>4 DEF Beyond
    <3> QED BY <1>4, <2>1, <3>1
  <2>3. Bytes(rows, Sized \ Beyond(Keep - 1)) < Limit BY <1>8, <1>9 DEF ToPrune
  <2>4. Sized \ Beyond(Keep - 1) \in SUBSET Sized OBVIOUS
  <2>5. Fits(rows', (Sized \ Beyond(Keep - 1)) \cup {d}) BY <1>b, <2>3, <2>4
  <2>6. Fits(rows', Sized' \ Beyond(Keep)') BY <2>2, <2>5
  <2> QED BY <1>1, <1>7, <1>9, <2>6 DEF TaskRoom, Working, Early
<1>10. CASE task.op = "create"
  <2>1. Bytes(rows, Sized) < Limit
    <3>1. Sized \ {} = Sized OBVIOUS
    <3> QED BY <1>8, <1>10, <3>1 DEF ToPrune
  <2>2. Fits(rows', Sized \cup {d})
    <3>1. Sized \in SUBSET Sized OBVIOUS
    <3> QED BY <1>b, <2>1, <3>1
  <2>3. Whole' \in SUBSET (Sized \cup {d})
    <3>1. \A b \in Whole : rows[b].status = "ready" \/ b = d
      BY <1>1 DEF StepInv, Owned, Whole, Being, d, WorkInv, DownIsQuiet, NoTask
    <3>2. \A b \in Whole : b \in Ids BY DEF Whole
    <3> QED BY <1>6, <3>1, <3>2 DEF RowInv, RowSizes, Sized
  <2>4. Sized \cup {d} \in SUBSET Ids BY <1>2, <1>a
  <2>5. \A b \in Whole' : rows'[b].size <= rows'[b].size BY <1>3, <2>3, <2>4, Same
  <2>6. Fits(rows', Whole') BY <1>3, <2>2, <2>3, <2>4, <2>5, FitsStill
  <2> QED BY <1>1, <1>7, <1>10, <2>6 DEF TaskRoom, Working, Early
<1> QED BY <1>2, <1>9, <1>10

\* An interrupted task leaves no archive of its own.
LEMMA InterruptedRoom ==
    ASSUME TypeOK, WorkInv, OrderInv, StepInv, RowInv, TaskRoom, up, Interrupted
    PROVE  Fits(rows, Whole')
<1>0. FilesOK /\ task \in Task /\ Whole \in SUBSET Ids /\ rows \in [Ids -> Row] BY Counted DEF TypeOK, FilesOK
<1>1. \A b \in Ids : files'[b] = files[b] \/ files'[b] = "none" BY <1>0 DEF Interrupted, FilesOK
<1>2. Whole' \in SUBSET Whole BY <1>1 DEF Whole
<1>a. ASSUME NEW w \in SUBSET Ids, Whole' \in SUBSET w, Fits(rows, w) PROVE Fits(rows, Whole')
  <2>1. \A b \in Whole' : rows[b].size <= rows[b].size BY <1>0, <1>a, Same
  <2> QED BY <1>0, <1>a, <2>1, FitsStill
<1>3. CASE task.pc = "end" BY <1>0, <1>2, <1>3, <1>a DEF TaskRoom
<1>4. CASE task.pc # "end"
  <2>1. \A b \in Ids : b = task.id => files'[b] # "whole"
    <3> SUFFICES ASSUME task.id \in Ids PROVE files'[task.id] # "whole" OBVIOUS
    <3>1. task.op # "other" BY <1>4 DEF OrderInv, OthersEnd
    <3>2. Busy
      <4>1. task.id # 0 BY DEF Ids
      <4> QED BY <4>1 DEF Busy, NoTask
    <3>3. CASE task.pc # "begin"
      <4>1. files' = [files EXCEPT ![task.id] = "none"] BY <3>1, <3>2, <3>3 DEF Interrupted
      <4> QED BY <1>0, <4>1 DEF FilesOK
    <3>4. CASE task.pc = "begin"
      <4>1. rows[task.id].status = "creating" BY <3>4 DEF OrderInv, Begun, Working, Early
      <4>2. files[task.id] = "none" BY <3>4, <4>1 DEF StepInv, Owned, Being
      <4> QED BY <1>1, <4>2
    <3> QED BY <3>3, <3>4
  <2>2. Whole' \in SUBSET (Whole \ {task.id}) BY <1>2, <2>1 DEF Whole
  <2>3. Whole \ {task.id} \in SUBSET Ids /\ Fits(rows, Whole \ {task.id}) BY <1>0 DEF TaskRoom
  <2> QED BY <1>0, <1>a, <2>2, <2>3
<1> QED BY <1>3, <1>4

\* The task keeps to the room it was given.
LEMMA RunRoom ==
    ASSUME TypeOK, CutOffInv, WorkInv, OrderInv, StepInv, RowInv, TaskRoom, Run
    PROVE  TaskRoom' /\ \A a \in Reqs : ReqRoom(a)'
<1>0. RowsOK /\ FilesOK /\ task \in Task /\ Whole \in SUBSET Ids /\ Sized \in SUBSET Ids /\ rows \in [Ids -> Row] /\ up
  <2>1. up BY RunMoves, Zenon
  <2>2. RowsOK /\ FilesOK /\ task \in Task /\ rows \in [Ids -> Row] BY DEF TypeOK, RowsOK, FilesOK
  <2>3. Whole \in SUBSET Ids /\ Sized \in SUBSET Ids BY Counted
  <2> QED BY <2>1, <2>2, <2>3, Zenon
<1>1. \A a \in Reqs : ReqRoom(a)'
  <2>1. task # NoTask
    <3>1. \/ task.pc \in {"begin", "before", "wait", "open", "archive", "after", "finish", "select",
                     "prune", "end", "fail", "failed"}
          \/ task.cancelled
      BY Zenon DEF Run, At, Begin, Before, Wait, Open, Archive, After, FinishBackup, PruneSelect, PruneFile,
         PruneCommit, End, FailUnlink, FailRow, Cancelled, CancelledFails
    <3>2. NoTask.pc = "none" /\ ~NoTask.cancelled BY DEF NoTask
    <3> QED BY <3>1, <3>2
  <2>2. \A a \in Reqs : req[a].pc \notin {"pruned", "insert", "spawn"} BY <2>1 DEF OrderInv, Alone
  <2>3. \A a \in Reqs : req'[a].pc \notin {"pruned", "insert", "spawn"} BY <2>2, RunMoves
  <2> QED BY <2>3 DEF ReqRoom
<1>a. ASSUME NEW w \in SUBSET Ids, NEW v \in SUBSET w, Fits(rows, w), rows' \in [Ids -> Row],
             \A b \in Ids : rows'[b].size <= rows[b].size
      PROVE  Fits(rows', v)
  <2>1. \A b \in v : rows'[b].size <= rows[b].size BY <1>a
  <2> QED BY <1>0, <1>a, <2>1, FitsStill
<1>2. ASSUME Whole' \subseteq Whole \cup {task.id}, task'.id = task.id, rows' \in [Ids -> Row],
             \A b \in Ids : rows'[b].size <= rows[b].size
      PROVE  Fits(rows', Whole' \ {task'.id})
  <2>1. Whole' \ {task'.id} \in SUBSET (Whole \ {task.id}) BY <1>2
  <2>2. Whole \ {task.id} \in SUBSET Ids /\ Fits(rows, Whole \ {task.id}) BY <1>0 DEF TaskRoom
  <2> QED BY <1>2, <1>a, <2>1, <2>2
<1>3. ASSUME Fits(rows', Whole'), rows' \in [Ids -> Row]
      PROVE  Fits(rows', Whole' \ {task'.id})
  <2>1. Whole' \in SUBSET Ids /\ Whole' \ {task'.id} \in SUBSET Whole' BY DEF Whole
  <2>2. \A b \in Whole' \ {task'.id} : rows'[b].size <= rows'[b].size BY <1>3, <2>1, Same
  <2> QED BY <1>3, <2>1, <2>2, FitsStill
<1>b. ASSUME rows' = rows PROVE rows' \in [Ids -> Row] /\ \A b \in Ids : rows'[b].size <= rows[b].size
  BY <1>0, <1>b, Same
<1>4. CASE Begin \/ Before \/ Wait \/ Open \/ Archive \/ After
  <2>1. rows' = rows BY <1>4, Zenon DEF Begin, Before, Wait, Open, Archive, After, store
  <2>2. /\ task.pc \in Working /\ task'.id = task.id /\ task'.op = task.op
        /\ task'.pc \notin {"select", "prune", "end", "failed"}
    BY <1>0, <1>4 DEF Begin, Before, Wait, Open, Archive, After, At, Step, Task, Working, Early
  <2>3. \A b \in Ids : b # task.id => files'[b] = files[b]
    BY <1>0, <1>4 DEF Begin, Before, Wait, Open, Archive, After, FilesOK, store
  <2>4. Sized' = Sized /\ \A n : Beyond(n)' = Beyond(n) BY <2>1, SameSets
  <2>5. Whole' \subseteq Whole \cup {task.id} BY <2>3 DEF Whole
  <2>6. task'.pc \in Working => Bytes(rows', Sized' \ ToPrune(task.op, Keep - 1)') < Limit
    BY <2>1, <2>2, <2>4 DEF TaskRoom, ToPrune
  <2>7. Fits(rows', Whole' \ {task'.id}) BY <1>2, <1>b, <2>1, <2>2, <2>5
  <2> QED BY <1>1, <2>2, <2>6, <2>7 DEF TaskRoom
<1>5. CASE FinishBackup BY <1>1, <1>5, FinishRoom
<1>6. CASE PruneSelect
  <2>1. rows' = rows /\ files' = files BY <1>6, Zenon DEF PruneSelect, store
  <2>2. task'.id = task.id /\ task.pc = "select" /\ task'.pc = "prune" /\ task'.olds = Beyond(Keep)
    BY <1>0, <1>6 DEF PruneSelect, At, Task
  <2>3. Sized' = Sized /\ Whole' = Whole BY <2>1, SameSets DEF Whole
  <2>4. Fits(rows', Whole' \ {task'.id}) BY <1>2, <1>b, <2>1, <2>2, <2>3
  <2> QED BY <1>1, <2>1, <2>2, <2>3, <2>4 DEF TaskRoom, Working, Early
<1>7. CASE PruneFile
  <2>1. rows' = rows /\ task.pc = "prune" BY <1>7, Zenon DEF PruneFile, At
  <2>2. PICK newest \in task.left :
           \/ files' = [files EXCEPT ![newest] = "none"] /\ task' = [task EXCEPT !.left = @ \ {newest}]
           \/ files' = files /\ Step("fail")
    BY <1>7, Zenon DEF PruneFile
  <2>3. task'.id = task.id /\ task'.olds = task.olds /\ task'.pc \in {"prune", "fail"}
    BY <1>0, <2>1, <2>2 DEF Step, Task
  <2>4. \A b \in Ids : files'[b] = files[b] \/ files'[b] = "none" BY <1>0, <2>2 DEF FilesOK
  <2>5. Whole' \subseteq Whole BY <2>4 DEF Whole
  <2>6. Sized' = Sized BY <2>1, SameSets
  <2>7. Fits(rows', Whole' \ {task'.id}) BY <1>2, <1>b, <2>1, <2>3, <2>5
  <2> QED BY <1>1, <2>1, <2>3, <2>6, <2>7 DEF TaskRoom, Working, Early
<1>8. CASE PruneCommit
  <2>1. files' = files /\ task.pc = "prune" /\ task.left = {} BY <1>8, Zenon DEF PruneCommit, At
  <2>2. task'.id = task.id /\ task'.pc \in {"end", "fail"} BY <1>0, <1>8 DEF PruneCommit, Step, Task
  <2>3. Whole' = Whole BY <2>1 DEF Whole
  <2>4. Fits(rows, Whole)
    <3>1. \A b \in Whole : b \in Ids /\ rows[b].status = "ready"
      BY <1>0, <2>1 DEF StepInv, Owned, Whole, Being
    <3>2. \A b \in Whole : b \notin task.olds BY <2>1 DEF StepInv, Emptied, Whole
    <3>3. Whole \in SUBSET (Sized \ task.olds) BY <3>1, <3>2 DEF RowInv, RowSizes, Sized
    <3>4. Sized \ task.olds \in SUBSET Ids BY <1>0
    <3>5. Fits(rows, Sized \ task.olds) BY <2>1 DEF TaskRoom
    <3>6. \A b \in Whole : rows[b].size <= rows[b].size BY <1>0, Same
    <3> QED BY <1>0, <3>3, <3>4, <3>5, <3>6, FitsStill
  <2>5. rows' \in [Ids -> Row] /\ \A b \in Ids : rows'[b].size <= rows[b].size
    <3>1. CASE rows' = rows BY <1>b, <3>1
    <3>2. CASE rows' = [b \in Ids |-> IF b \in task.olds THEN NoRow ELSE rows[b]]
      <4>1. rows' \in [Ids -> Row] BY <1>0, <3>2, Nothing
      <4>2. NoRow.size = 0 /\ \A b \in Ids : rows[b].size \in Nat BY <1>0, SizesAre DEF NoRow
      <4> QED BY <3>2, <4>1, <4>2
    <3> QED BY <1>8, <3>1, <3>2, Zenon DEF PruneCommit
  <2>6. Fits(rows', Whole' \ {task'.id}) BY <1>2, <2>2, <2>3, <2>5
  <2>7. Fits(rows', Whole') BY <1>0, <1>a, <2>3, <2>4, <2>5
  <2> QED BY <1>1, <2>2, <2>6, <2>7 DEF TaskRoom, Working, Early
<1>9. CASE End
  <2>1. files' = files /\ rows' = rows /\ task.pc = "end" /\ task' = NoTask
    BY <1>9, Zenon DEF End, At, EndTask, store
  <2>2. Fits(rows', Whole') BY <2>1 DEF TaskRoom, Whole
  <2>3. Fits(rows', Whole' \ {task'.id}) BY <1>3, <1>b, <2>1, <2>2
  <2> QED BY <1>1, <2>1, <2>2, <2>3 DEF TaskRoom, NoTask, Working, Early
<1>10. CASE FailUnlink
  <2>1. task.pc = "fail" /\ task'.id = task.id /\ task'.pc = "failed" BY <1>0, <1>10 DEF FailUnlink, At, Step, Task
  <2>2. \A b \in Ids : files'[b] = IF b = task.id THEN "none" ELSE files[b] BY <1>0, <1>10 DEF FailUnlink, FilesOK
  <2>3. Whole' \in SUBSET (Whole \ {task.id}) BY <2>2 DEF Whole
  <2>4. Whole \ {task.id} \in SUBSET Ids /\ Fits(rows, Whole \ {task.id}) BY <1>0 DEF TaskRoom
  <2>5. rows' = rows BY <1>10, Zenon DEF FailUnlink
  <2>6. Fits(rows', Whole') BY <1>a, <1>b, <2>3, <2>4, <2>5
  <2>7. Fits(rows', Whole' \ {task'.id}) BY <1>3, <1>b, <2>5, <2>6
  <2> QED BY <1>1, <2>1, <2>6, <2>7 DEF TaskRoom, Working, Early
<1>11. CASE FailRow
  <2>1. files' = files /\ task.pc = "failed" BY <1>11, Zenon DEF FailRow, At
  <2>2. task'.pc = "end" BY <1>0, <1>11 DEF FailRow, Step, Task
  <2>3. rows' \in [Ids -> Row] /\ \A b \in Ids : rows'[b].size <= rows[b].size
    <3>1. CASE task.id \in Ids
      <4>1. rows[task.id].size \in {0} \cup Sizes BY <1>0, <3>1 DEF Row
      <4>2. rows' \in [Ids -> Row] BY <1>0, <1>11, <4>1, StoreTypes DEF FailRow
      <4>3. \A b \in Ids : rows'[b].size = rows[b].size BY <1>0, <1>11, <3>1 DEF FailRow, SetStatus, Row
      <4>4. \A b \in Ids : rows[b].size <= rows[b].size BY <1>0, Same
      <4> QED BY <4>2, <4>3, <4>4
    <3>2. CASE task.id \notin Ids
      <4>1. rows' = rows BY <1>0, <1>11, <3>2 DEF FailRow, SetStatus
      <4> QED BY <1>b, <4>1
    <3> QED BY <3>1, <3>2
  <2>4. Fits(rows, Whole) /\ Whole' = Whole BY <2>1 DEF TaskRoom, Whole
  <2>5. Fits(rows', Whole') BY <1>0, <1>a, <2>3, <2>4
  <2>6. Fits(rows', Whole' \ {task'.id}) BY <1>3, <2>3, <2>5
  <2> QED BY <1>1, <2>2, <2>5, <2>6 DEF TaskRoom, Working, Early
<1>12. CASE Cancelled
  <2>1. task' = NoTask /\ Interrupted /\ rows' = rows BY <1>12, Zenon DEF Cancelled, EndTask
  <2>2. Fits(rows, Whole') BY <1>0, <2>1, InterruptedRoom
  <2>3. Fits(rows', Whole') BY <2>1, <2>2
  <2>4. Fits(rows', Whole' \ {task'.id}) BY <1>3, <1>b, <2>1, <2>3
  <2> QED BY <1>1, <2>1, <2>3, <2>4 DEF TaskRoom, NoTask, Working, Early
<1>13. CASE CancelledFails
  <2>1. files' = files /\ rows' = rows BY <1>13, Zenon DEF CancelledFails, store
  <2>2. task'.id = task.id /\ task'.pc = "fail" BY <1>0, <1>13 DEF CancelledFails, Task
  <2>3. Whole' = Whole BY <2>1 DEF Whole
  <2>4. Fits(rows', Whole' \ {task'.id}) BY <1>2, <1>b, <2>1, <2>2, <2>3
  <2> QED BY <1>1, <2>2, <2>4 DEF TaskRoom, Working, Early
<1> QED BY <1>4, <1>5, <1>6, <1>7, <1>8, <1>9, <1>10, <1>11, <1>12, <1>13 DEF Run

\* That a schedule's backups were thinned is not forgotten.
LEMMA ThinnedStays ==
    ASSUME [Next]_vars, ~thinned'
    PROVE  ~thinned
<1>2. CASE \E a \in Reqs : Ask(a) \/ Serve(a)
  <2>1. ASSUME NEW a \in Reqs, DropBackup(a) PROVE ~thinned BY <2>1, Zenon DEF DropBackup
  <2>2. ASSUME NEW a \in Reqs, Ask(a) \/ Serve(a), ~DropBackup(a) PROVE thinned' = thinned
    BY <2>2, Zenon DEF Serve, Ask, Check, ReadUsage, ReadPruned, Insert, SpawnBackup, GetBackup, UnlinkBackup,
       CancelTask, RemoveServer, RemoveFiles, Cascade, store
  <2> QED BY <1>2, <2>1, <2>2
<1>3. CASE Run
  <2>1. thinned' = thinned
    BY <1>3, Zenon DEF Run, Begin, Before, Wait, Open, Archive, After, FinishBackup, PruneSelect, PruneFile,
       PruneCommit, End, FailUnlink, FailRow, Cancelled, CancelledFails, store
  <2> QED BY <2>1
<1>4. CASE PanelDies \/ Shutdown \/ Recover
  <2>1. thinned' = thinned BY <1>4, Zenon DEF PanelDies, Shutdown, Recover, store
  <2> QED BY <2>1
<1>5. CASE UNCHANGED vars
  <2>1. thinned' = thinned BY <1>5, Zenon DEF vars
  <2> QED BY <2>1
<1> QED BY <1>2, <1>3, <1>4, <1>5, Zenon DEF Next

\* With one request at a time, the room is kept throughout.
LEMMA RoomCorrect ==
    ASSUME OneRequest
    PROVE  Spec => []RoomInv
<1>1. Init => RoomInv
  <2> SUFFICES ASSUME Init PROVE RoomInv OBVIOUS
  <2>1. Whole = {} /\ task.pc = "none" /\ \A a \in Reqs : req[a].pc = "idle" BY DEF Init, Whole, NoTask, Idle
  <2>2. Fits(rows, Whole \ {task.id})
    <3>1. Whole \ {task.id} = {} BY <2>1
    <3> QED BY <3>1 DEF Fits
  <2> QED BY <2>1, <2>2 DEF RoomInv, TaskRoom, ReqRoom, Working, Early
<1>2. TypeOK /\ CutOffInv /\ WorkInv /\ OrderInv /\ StepInv /\ RowInv /\ RoomInv /\ [Next]_vars => RoomInv'
  <2> SUFFICES ASSUME TypeOK, CutOffInv, WorkInv, OrderInv, StepInv, RowInv, RoomInv, [Next]_vars,
                      Spared({"panelDies"})', ~thinned'
               PROVE  (TaskRoom /\ \A a \in Reqs : ReqRoom(a))'
    BY DEF RoomInv
  <2>a. Spared({"panelDies"}) BY EventsGrow DEF Spared
  <2>0. Spared({"panelDies"}) /\ ~thinned BY <2>a, ThinnedStays
  <2>1. TaskRoom /\ \A a \in Reqs : ReqRoom(a) BY <2>0 DEF RoomInv
  <2>2. ASSUME NEW a \in Reqs, Ask(a) \/ Serve(a) PROVE (TaskRoom /\ \A c \in Reqs : ReqRoom(c))'
    <3>1. TaskRoom' /\ ReqRoom(a)'
      BY <2>1, <2>2, AttendsRoom, MakesRoom, Zenon DEF Serve, Attends
    <3>2. \A c \in Reqs : c = a BY DEF OneRequest
    <3> QED BY <3>1, <3>2
  <2>3. CASE Run BY <2>1, <2>3, RunRoom
  <2>4. CASE PanelDies \/ Shutdown \/ Recover
    <3>1. ~PanelDies
      <4>1. PanelDies => "panelDies" \in events' BY DEF PanelDies, Fails
      <4> QED BY <4>1 DEF Spared
    <3>2. task' = NoTask /\ \A a \in Reqs : req'[a] = Idle
      <4>1. CASE Shutdown BY <4>1 DEF Shutdown, Down
      <4>2. CASE Recover BY <4>2, Zenon DEF Recover, WorkInv, DownIsQuiet
      <4> QED BY <2>4, <3>1, <4>1, <4>2
    <3>3. task'.pc = "none" /\ \A a \in Reqs : req'[a].pc = "idle" BY <3>2 DEF NoTask, Idle
    <3>0. rows \in [Ids -> Row] BY DEF TypeOK
    <3>a. rows' \in [Ids -> Row] /\ \A b \in Ids : rows'[b].size <= rows[b].size
      <4>1. CASE Shutdown
        <5>1. rows' = rows BY <4>1, Zenon DEF Shutdown
        <5> QED BY <3>0, <5>1, Same
      <4>2. CASE Recover
        <5>1. rows' \in [Ids -> Row] /\ \A b \in Ids : rows'[b].size = rows[b].size BY <3>0, <4>2 DEF Recover, Row
        <5>2. \A b \in Ids : rows[b].size <= rows[b].size BY <3>0, Same
        <5> QED BY <5>1, <5>2
      <4> QED BY <2>4, <3>1, <4>1, <4>2
    <3>b. ASSUME NEW w \in SUBSET Ids, NEW v \in SUBSET w, Fits(rows, w) PROVE Fits(rows', v)
      <4>1. \A b \in v : rows'[b].size <= rows[b].size BY <3>a
      <4> QED BY <3>0, <3>a, <3>b, <4>1, FitsStill
    <3>4. Fits(rows', Whole')
      <4>1. CASE Shutdown
        <5>1. up /\ Interrupted BY <4>1, Zenon DEF Shutdown
        <5>2. Fits(rows, Whole') BY <2>1, <5>1, InterruptedRoom
        <5>3. Whole' \in SUBSET Ids /\ Whole' \in SUBSET Whole' BY DEF Whole
        <5> QED BY <3>b, <5>2, <5>3
      <4>2. CASE Recover
        <5>1. task = NoTask BY <4>2, Zenon DEF Recover, WorkInv, DownIsQuiet
        <5>2. \A b \in Ids : files'[b] \in {"none", files[b]} BY <4>2 DEF Recover
        <5>3. Whole' \in SUBSET (Whole \ {task.id})
          <6>1. task.id \notin Ids BY <5>1 DEF NoTask, Ids
          <6> QED BY <5>2, <6>1 DEF Whole
        <5>4. Whole \ {task.id} \in SUBSET Ids BY Counted
        <5>5. Fits(rows, Whole \ {task.id}) BY <2>1 DEF TaskRoom
        <5> QED BY <3>b, <5>3, <5>4, <5>5
      <4> QED BY <2>4, <3>1, <4>1, <4>2
    <3>5. Fits(rows', Whole' \ {task'.id})
      <4>1. Whole' \in SUBSET Ids /\ Whole' \ {task'.id} \in SUBSET Whole' BY DEF Whole
      <4>2. \A b \in Whole' \ {task'.id} : rows'[b].size <= rows'[b].size BY <3>a, <4>1, Same
      <4> QED BY <3>4, <3>a, <4>1, <4>2, FitsStill
    <3> QED BY <3>3, <3>5 DEF TaskRoom, ReqRoom, Working, Early
  <2>5. CASE UNCHANGED vars
    <3>1. task' = task /\ req' = req /\ rows' = rows /\ files' = files BY <2>5, Zenon DEF vars
    <3>2. Sized' = Sized /\ Whole' = Whole /\ \A n : Beyond(n)' = Beyond(n) BY <3>1, SameSets DEF Whole
    <3> QED BY <2>1, <3>1, <3>2 DEF TaskRoom, ReqRoom, ToPrune
  <2> QED BY <2>2, <2>3, <2>4, <2>5, Zenon DEF Next
<1> QED BY <1>1, <1>2, OrderCorrect, StepCorrect, RowCorrect, PTL DEF Spec
----------------------------------------------------------------------------
\* A schedule's backups grow in number by the one its task finishes, and before
\* it ends it has pruned them.
LEMMA RunNewest ==
    ASSUME TypeOK, CutOffInv, WorkInv, OrderInv, RowInv, Run, Gone => Gone',
           Cardinality(Scheduled \ {task.id}) <= Keep,
           task.pc = "prune" => Cardinality(Scheduled \ task.olds) <= Keep,
           task.pc = "end" => Cardinality(Scheduled) <= Keep
    PROVE  \/ Gone'
           \/ /\ Cardinality(Scheduled' \ {task'.id}) <= Keep
              /\ task'.pc = "prune" => Cardinality(Scheduled' \ task'.olds) <= Keep
              /\ task'.pc = "end" => Cardinality(Scheduled') <= Keep
<1>0. RowsOK /\ task \in Task /\ Scheduled \in SUBSET Ids /\ Keep \in Int
  BY Counted DEF TypeOK, RowsOK
<1>1. ASSUME task'.id = task.id, Scheduled' \subseteq Scheduled \cup {task.id}
      PROVE  Cardinality(Scheduled' \ {task'.id}) <= Keep
  <2>1. Scheduled' \ {task'.id} \in SUBSET (Scheduled \ {task.id}) BY <1>1
  <2>2. Scheduled \ {task.id} \in SUBSET Ids BY <1>0
  <2> QED BY <1>0, <2>1, <2>2, FewerStill
<1>2. CASE Begin \/ Before \/ Wait \/ Open \/ Archive \/ After \/ FailUnlink \/ CancelledFails
  <2>1. rows' = rows
    BY <1>2, Zenon DEF Begin, Before, Wait, Open, Archive, After, FailUnlink, CancelledFails, store
  <2>2. Scheduled' = Scheduled BY <2>1, SameSets
  <2>3. task'.id = task.id /\ task'.pc \notin {"prune", "end"}
    <3>1. CASE Begin \/ Before \/ Wait \/ Open BY <1>0, <3>1 DEF Begin, Before, Wait, Open, At, Step, Task
    <3>2. CASE Archive \/ After BY <1>0, <3>2 DEF Archive, After, At, Step, Task
    <3>3. CASE FailUnlink \/ CancelledFails BY <1>0, <3>3 DEF FailUnlink, CancelledFails, At, Step, Task
    <3> QED BY <1>2, <3>1, <3>2, <3>3
  <2> QED BY <1>1, <2>2, <2>3
<1>3. CASE FinishBackup
  <2>1. task.pc = "finish" /\ task'.id = task.id /\ task'.pc = (IF task.op = "schedule" THEN "select" ELSE "end")
    BY <1>0, <1>3 DEF FinishBackup, At, Step, Task
  <2>2. task.id \in Ids /\ task.id = made /\ rows[task.id].status = "creating" /\ rows[task.id].op = task.op
    <3>1. task.pc \in Working BY <2>1 DEF Working
    <3>2. task.id \in Ids BY <3>1, BoundsAssumption DEF WorkInv, MakingAlone, TypeOK, Ids
    <3>3. rows[task.id].status = "creating" BY <3>1 DEF OrderInv, Begun
    <3> QED BY <3>1, <3>2, <3>3 DEF RowInv, LastMade
  <2>3. /\ \A b \in Ids : b # task.id => rows'[b] = rows[b]
        /\ rows'[task.id].op = task.op
    BY <1>0, <1>3, <2>2 DEF FinishBackup, SetStatus, RowsOK, Row
  <2>4. Scheduled' \subseteq Scheduled \cup {task.id} BY <2>3 DEF Scheduled
  <2>5. task'.pc = "end" => Scheduled' \subseteq Scheduled \ {task.id}
    BY <2>1, <2>2, <2>3 DEF Scheduled
  <2>6. task'.pc = "end" => Cardinality(Scheduled') <= Keep
    <3> SUFFICES ASSUME task'.pc = "end" PROVE Cardinality(Scheduled') <= Keep OBVIOUS
    <3>1. Scheduled' \in SUBSET (Scheduled \ {task.id}) /\ Scheduled \ {task.id} \in SUBSET Ids BY <1>0, <2>5
    <3> QED BY <1>0, <3>1, FewerStill
  <2> QED BY <1>1, <2>1, <2>4, <2>6
<1>4. CASE PruneSelect
  <2>1. rows' = rows BY <1>4, Zenon DEF PruneSelect, store
  <2>2. task'.id = task.id /\ task'.pc = "prune" /\ task'.olds = Beyond(Keep) BY <1>0, <1>4 DEF PruneSelect, Task
  <2>3. Scheduled' = Scheduled BY <2>1, SameSets
  <2>4. Cardinality(Scheduled \ Beyond(Keep)) <= Keep
    <3>1. Beyond(Keep) = Old(Scheduled, Keep) /\ Keep \in Nat BY Counted
    <3> QED BY <1>0, <3>1, NewestFew
  <2> QED BY <1>1, <2>2, <2>3, <2>4
<1>5. CASE PruneFile
  <2>1. rows' = rows /\ task.pc = "prune" BY <1>5, Zenon DEF PruneFile, At
  <2>2. PICK newest : task' = [task EXCEPT !.left = @ \ {newest}] \/ Step("fail")
    BY <1>5, Zenon DEF PruneFile
  <2>3. task'.id = task.id /\ task'.olds = task.olds /\ task'.pc \in {"prune", "fail"}
    BY <1>0, <2>1, <2>2 DEF Step, Task
  <2>4. Scheduled' = Scheduled BY <2>1, SameSets
  <2> QED BY <1>1, <2>1, <2>3, <2>4
<1>6. CASE PruneCommit
  <2>1. task.pc = "prune" /\ task'.id = task.id /\ task'.pc \in {"end", "fail"}
    BY <1>0, <1>6 DEF PruneCommit, At, Step, Task
  <2>2. \/ task'.pc = "fail" /\ rows' = rows
        \/ rows' = [b \in Ids |-> IF b \in task.olds THEN NoRow ELSE rows[b]]
    <3>1. (rows' = rows /\ Step("fail")) \/ rows' = [b \in Ids |-> IF b \in task.olds THEN NoRow ELSE rows[b]]
      BY <1>6, Zenon DEF PruneCommit
    <3> QED BY <1>0, <3>1 DEF Step, Task
  <2>3. CASE task'.pc = "fail" /\ rows' = rows
    <3>1. Scheduled' = Scheduled BY <2>3, SameSets
    <3> QED BY <1>1, <2>1, <2>3, <3>1
  <2>4. CASE rows' = [b \in Ids |-> IF b \in task.olds THEN NoRow ELSE rows[b]]
    <3>1. Scheduled' \subseteq Scheduled \ task.olds BY <2>4 DEF Scheduled, NoRow
    <3>2. Scheduled' \in SUBSET (Scheduled \ task.olds) /\ Scheduled \ task.olds \in SUBSET Ids BY <1>0, <3>1
    <3>3. Cardinality(Scheduled') <= Keep BY <1>0, <2>1, <3>2, FewerStill
    <3>4. Cardinality(Scheduled' \ {task'.id}) <= Keep BY <1>1, <2>1, <3>1
    <3> QED BY <2>1, <3>3, <3>4
  <2> QED BY <2>2, <2>3, <2>4
<1>7. CASE End
  <2>1. rows' = rows /\ task' = NoTask /\ task.pc = "end" BY <1>7, Zenon DEF End, At, EndTask, store
  <2>2. Scheduled' = Scheduled BY <2>1, SameSets
  <2>3. Scheduled' \ {task'.id} \in SUBSET Scheduled BY <2>2
  <2>4. Cardinality(Scheduled' \ {task'.id}) <= Keep BY <1>0, <2>1, <2>3, FewerStill
  <2>5. task'.pc = "none" BY <2>1 DEF NoTask
  <2> QED BY <2>4, <2>5
<1>8. CASE FailRow
  <2>1. task'.id = task.id /\ task'.pc = "end" BY <1>0, <1>8 DEF FailRow, Step, Task
  <2>2. \A b \in Ids : /\ b # task.id => rows'[b] = rows[b]
                       /\ b = task.id => rows'[b].status # "ready"
    BY <1>0, <1>8 DEF FailRow, SetStatus, RowsOK, Row
  <2>3. Scheduled' \in SUBSET (Scheduled \ {task.id}) BY <2>2 DEF Scheduled
  <2>4. Scheduled \ {task.id} \in SUBSET Ids BY <1>0
  <2>5. Cardinality(Scheduled') <= Keep BY <1>0, <2>3, <2>4, FewerStill
  <2>6. Scheduled' \subseteq Scheduled \cup {task.id} BY <2>3
  <2> QED BY <1>1, <2>1, <2>5, <2>6
<1>9. CASE Cancelled
  <2>1. task.cancelled BY <1>9, Zenon DEF Cancelled
  <2>2. Gone BY <2>1, Zenon DEF WorkInv, CancelledForDelete, Gone
  <2> QED BY <2>2
<1> QED BY <1>2, <1>3, <1>4, <1>5, <1>6, <1>7, <1>8, <1>9 DEF Run

\* With one request at a time, that holds throughout.
LEMMA NewestCorrect ==
    ASSUME OneRequest
    PROVE  Spec => []NewestInv
<1> DEFINE Few == /\ Cardinality(Scheduled \ {task.id}) <= Keep
                  /\ task.pc = "prune" => Cardinality(Scheduled \ task.olds) <= Keep
                  /\ task.pc = "end" => Cardinality(Scheduled) <= Keep
<1>1. Init => NewestInv
  <2> SUFFICES ASSUME Init PROVE Few BY DEF NewestInv
  <2>1. Scheduled = {} /\ task.pc = "none" BY DEF Init, Scheduled, NoTask, NoRow
  <2>2. Cardinality(Scheduled \ {task.id}) <= Keep
    <3>1. Scheduled \ {task.id} = {} BY <2>1
    <3> QED BY <3>1, FS_EmptySet, Counted
  <2> QED BY <2>1, <2>2
<1>2. TypeOK /\ CutOffInv /\ WorkInv /\ OrderInv /\ RowInv /\ NewestInv /\ [Next]_vars => NewestInv'
  <2> SUFFICES ASSUME TypeOK, CutOffInv, WorkInv, OrderInv, RowInv, NewestInv, [Next]_vars,
                      Spared({"removeFails", "panelDies", "shutdown"})'
               PROVE  Gone' \/ Few'
    BY DEF NewestInv
  <2>0. RowsOK /\ Scheduled \in SUBSET Ids /\ Keep \in Int /\ task \in Task BY Counted DEF TypeOK, RowsOK
  <2>1. Gone => Gone' BY GoneStays DEF Spared
  <2>2. Gone \/ Few
    <3>1. Spared({"removeFails", "panelDies", "shutdown"}) BY EventsGrow DEF Spared
    <3> QED BY <3>1 DEF NewestInv
  <2> SUFFICES ASSUME Few PROVE Gone' \/ Few' BY <2>1, <2>2
  <2>3. ASSUME NEW a \in Reqs, Ask(a) \/ Serve(a) PROVE Few'
    <3>1. Scheduled' \subseteq Scheduled
      <4>1. ASSUME \A b \in Ids : rows'[b] = rows[b] \/ rows'[b].status # "ready" PROVE Scheduled' \subseteq Scheduled
        BY <4>1 DEF Scheduled
      <4>2. CASE Attends(a)
        <5>1. \A b \in Ids : rows'[b] \in {rows[b], NoRow} BY <4>2, AttendsMoves
        <5> QED BY <4>1, <5>1 DEF NoRow
      <4>3. CASE Insert(a)
        <5>1. rows' = rows \/ rows' = [rows EXCEPT ![made + 1] = [status |-> "creating", op |-> req[a].op, size |-> 0]]
          BY <4>3, Zenon DEF Insert
        <5>2. \A b \in Ids : rows'[b] = rows[b] \/ rows'[b].status # "ready" BY <2>0, <5>1 DEF RowsOK
        <5> QED BY <4>1, <5>2
      <4>4. CASE SpawnBackup(a)
        <5>1. rows' = rows BY <4>4, Zenon DEF SpawnBackup, store
        <5> QED BY <4>1, <5>1
      <4> QED BY <2>3, <4>2, <4>3, <4>4, Zenon DEF Serve, Attends
    <3>2. \/ task'.id = task.id /\ task'.pc = task.pc /\ task'.olds = task.olds
          \/ task.id = 0 /\ task'.pc \in {"begin", "end"}
      <4>1. CASE Attends(a)
        <5>1. \/ task' = task \/ task' = [task EXCEPT !.cancelled = TRUE]
              \/ task = NoTask /\ task' = [NoTask EXCEPT !.op = "other", !.pc = "end"]
          BY <4>1, AttendsTask
        <5>2. CASE task' = task \/ task' = [task EXCEPT !.cancelled = TRUE] BY <2>0, <5>2 DEF Task
        <5>3. CASE task = NoTask /\ task' = [NoTask EXCEPT !.op = "other", !.pc = "end"] BY <5>3 DEF NoTask
        <5> QED BY <5>1, <5>2, <5>3
      <4>2. CASE Insert(a)
        <5>1. task' = task BY <4>2, Zenon DEF Insert
        <5> QED BY <5>1
      <4>3. CASE SpawnBackup(a)
        <5>1. req[a].pc = "spawn" BY <4>3, Zenon DEF SpawnBackup
        <5>2. task = NoTask BY <5>1 DEF OrderInv, Alone
        <5>3. task' = [NoTask EXCEPT !.op = req[a].op, !.pc = "begin", !.id = req[a].id]
          BY <4>3, <5>2, Zenon DEF SpawnBackup, Spawn, Busy
        <5> QED BY <5>2, <5>3 DEF NoTask
      <4> QED BY <2>3, <4>1, <4>2, <4>3, Zenon DEF Serve, Attends
    <3>3. CASE task'.id = task.id /\ task'.pc = task.pc /\ task'.olds = task.olds
      <4>1. /\ Scheduled' \ {task'.id} \in SUBSET (Scheduled \ {task.id})
            /\ Scheduled' \ task'.olds \in SUBSET (Scheduled \ task.olds)
            /\ Scheduled \ {task.id} \in SUBSET Ids /\ Scheduled \ task.olds \in SUBSET Ids
        BY <2>0, <3>1, <3>3
      <4> QED BY <2>0, <3>1, <3>3, <4>1, FewerStill
    <3>4. CASE task.id = 0 /\ task'.pc \in {"begin", "end"}
      <4>1. Scheduled \ {task.id} = Scheduled BY <2>0, <3>4 DEF Ids
      <4>2. Cardinality(Scheduled) <= Keep BY <4>1
      <4>3. Scheduled' \ {task'.id} \in SUBSET Scheduled BY <3>1
      <4>4. Cardinality(Scheduled' \ {task'.id}) <= Keep BY <2>0, <4>2, <4>3, FewerStill
      <4>5. Cardinality(Scheduled') <= Keep BY <2>0, <3>1, <4>2, FewerStill
      <4> QED BY <3>4, <4>4, <4>5
    <3> QED BY <3>2, <3>3, <3>4
  <2>4. CASE Run BY <2>1, <2>4, RunNewest
  <2>5. CASE PanelDies \/ Shutdown
    <3>1. "panelDies" \in events' \/ "shutdown" \in events' BY <2>5 DEF PanelDies, Shutdown, Fails
    <3> QED BY <3>1 DEF Spared
  <2>6. CASE Recover
    <3>1. task' = task /\ task = NoTask BY <2>6, Zenon DEF Recover, WorkInv, DownIsQuiet
    <3>2. Scheduled' = Scheduled BY <2>0, <2>6 DEF Recover, RowsOK, Row, Scheduled
    <3> QED BY <3>1, <3>2 DEF NoTask
  <2>7. CASE UNCHANGED vars
    <3>1. task' = task /\ rows' = rows BY <2>7, Zenon DEF vars
    <3>2. Scheduled' = Scheduled BY <3>1, SameSets
    <3> QED BY <3>1, <3>2
  <2> QED BY <2>3, <2>4, <2>5, <2>6, <2>7, Zenon DEF Next
<1> QED BY <1>1, <1>2, OrderCorrect, RowCorrect, PTL DEF Spec

\* The backups of a server are made while there is room, and no more stay than the
\* schedule keeps (_require_backup_space, _prune_backups): the room is counted before a
\* backup is made, as if the pruning were done, and the pruning after it takes what was
\* counted on.  Only the newest archive may be larger than the room that was left.
THEOREM RoomIsKept ==
    ASSUME OneRequest
    PROVE  Spec => []RoomKept
<1>1. RoomInv => WithinLimit
  <2> SUFFICES ASSUME RoomInv, Quiet, Spared({"panelDies"}), ~thinned PROVE Fits(rows, Whole)
    BY DEF WithinLimit, Whole
  <2>1. task = NoTask BY Zenon DEF Quiet
  <2>2. Whole \ {task.id} = Whole BY <2>1 DEF NoTask, Whole, Ids
  <2> QED BY <2>2 DEF RoomInv, TaskRoom
<1>2. NewestInv /\ NoRows => NewestKept
  <2> SUFFICES ASSUME NewestInv, NoRows, Quiet, Spared({"removeFails", "panelDies", "shutdown"})
               PROVE  Cardinality(Scheduled) <= Keep
    BY DEF NewestKept
  <2>1. task = NoTask /\ \A a \in Reqs : req[a] = Idle BY Zenon DEF Quiet
  <2>2. CASE Gone
    <3>1. ~server BY <2>1, <2>2 DEF Gone, Idle
    <3>2. Scheduled = {} BY <3>1 DEF NoRows, Scheduled
    <3> QED BY <3>2, FS_EmptySet, Counted
  <2>3. CASE ~Gone
    <3>1. Scheduled \ {task.id} = Scheduled BY <2>1 DEF NoTask, Scheduled, Ids
    <3> QED BY <2>3, <3>1 DEF NewestInv
  <2> QED BY <2>2, <2>3
<1>3. Init => NoRows
  <2>1. Init => server BY Zenon DEF Init
  <2> QED BY <2>1, Zenon DEF NoRows
<1>4. TypeOK /\ NoRows /\ [Next]_vars => NoRows' BY NoRowsKeeps
<1> QED BY <1>1, <1>2, <1>3, <1>4, RoomCorrect, NewestCorrect, TypeCorrect, PTL DEF Spec, RoomKept
================================================================================
