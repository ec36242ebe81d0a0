------------------------- MODULE ServerSettingsProofs -------------------------
(***************************************************************************)
(* Proofs about ServerSettings, for any template that _check_references    *)
(* lets pass, any requests and whatever is filled in: the values of a      *)
(* server fit each other, its ports are its own and the first free ones,   *)
(* an edit changes what it fills in, what cannot be changed does not.      *)
(* What is recursive, a fold over the fields or the ports and the leader   *)
(* of a port, is reasoned about by induction on how far it has come.       *)
(***************************************************************************)
EXTENDS ServerSettings, WellFoundedInduction, TLAPS
----------------------------------------------------------------------------
(* Induction, and what a fold over a sequence comes to.                    *)

\* What holds 0, and with every number the next one, holds all there are up to n.
LEMMA AllTheWay ==
    ASSUME NEW n \in Nat, NEW S, 0 \in S, \A k \in 0 .. n - 1 : k \in S => k + 1 \in S
    PROVE  \A k \in 0 .. n : k \in S
<1> DEFINE T == {k \in 0 .. n : k \notin S}
<1> SUFFICES ASSUME T # {} PROVE FALSE OBVIOUS
<1>1. T \subseteq Nat OBVIOUS
<1>2. \E x \in T : \A y \in T : ~(<<y, x>> \in OpToRel(<, Nat)) BY <1>1, WFMin, NatLessThanWellFounded, Zenon
<1>3. PICK x \in T : \A y \in T : ~(y < x) BY <1>1, <1>2 DEF OpToRel
<1>4. x - 1 \in 0 .. n - 1 /\ x - 1 < x BY <1>3
<1>5. x - 1 \in S BY <1>3, <1>4
<1>6. (x - 1) + 1 \in S BY <1>4, <1>5
<1> QED BY <1>3, <1>6

\* Some natural numbers have a first one.
LEMMA FirstOfSome ==
    ASSUME NEW s \in SUBSET Nat, s # {}
    PROVE  Min(s) \in s /\ \A y \in s : Min(s) <= y
<1>1. \E x \in s : \A y \in s : ~(<<y, x>> \in OpToRel(<, Nat)) BY WFMin, NatLessThanWellFounded, Zenon
<1>2. PICK x \in s : \A y \in s : ~(y < x) BY <1>1 DEF OpToRel
<1>3. \A y \in s : x =< y BY <1>2
<1> QED BY <1>3 DEF Min

\* Some of the first n numbers have a last one.
LEMMA LastOfSome ==
    ASSUME NEW n \in Nat, NEW s \in SUBSET (1 .. n), s # {}
    PROVE  Max(s) \in s /\ \A y \in s : y <= Max(s)
<1> DEFINE T == {n - y : y \in s}
<1>1. T \subseteq Nat BY s \subseteq Int
<1>2. T # {} OBVIOUS
<1>3. PICK x \in T : \A y \in T : x <= y BY <1>1, <1>2, FirstOfSome
<1>4. PICK z \in s : x = n - z BY <1>3
<1>5. \A y \in s : z >= y
  <2> TAKE y \in s
  <2>1. x <= n - y BY <1>3
  <2> QED BY <1>4, <2>1
<1> HIDE DEF T
<1>6. Max(s) \in s /\ \A y \in s : Max(s) >= y BY <1>4, <1>5 DEF Max
<1> QED BY <1>6

\* g has, for each set of the first n numbers, the steps at them done in order.
Staged(g, n, base, step) ==
    \A s \in SUBSET (1 .. n) : g[s] = IF s = {} THEN base ELSE step[<<Max(s), g[s \ {Max(s)}]>>]

\* There is such a function, whatever the steps are.
LEMMA Stages ==
    ASSUME NEW n \in Nat, NEW Acc, NEW base \in Acc, NEW step \in [(1 .. n) \X Acc -> Acc]
    PROVE  \E g \in [SUBSET (1 .. n) -> Acc] : Staged(g, n, base, step)
<1> DEFINE S == {k \in 0 .. n : \E g \in [SUBSET (1 .. k) -> Acc] : Staged(g, k, base, step)}
<1>1. 0 \in S
  <2> DEFINE g == [s \in SUBSET (1 .. 0) |-> base]
  <2>1. \A s \in SUBSET (1 .. 0) : s = {} OBVIOUS
  <2>2. g \in [SUBSET (1 .. 0) -> Acc] OBVIOUS
  <2>3. Staged(g, 0, base, step) BY <2>1 DEF Staged
  <2>4. 0 \in 0 .. n OBVIOUS
  <2> HIDE DEF g
  <2> QED BY <2>2, <2>3, <2>4
<1>2. ASSUME NEW k \in 0 .. n - 1, k \in S PROVE k + 1 \in S
  <2>1. PICK g \in [SUBSET (1 .. k) -> Acc] : Staged(g, k, base, step) BY <1>2
  <2> DEFINE h == [s \in SUBSET (1 .. k + 1) |-> IF k + 1 \in s THEN step[<<k + 1, g[s \ {k + 1}]>>] ELSE g[s]]
  <2>2. \A s \in SUBSET (1 .. k + 1) : s \ {k + 1} \in SUBSET (1 .. k) OBVIOUS
  <2>3. \A s \in SUBSET (1 .. k + 1) : k + 1 \notin s => s \in SUBSET (1 .. k) OBVIOUS
  <2>4. h \in [SUBSET (1 .. k + 1) -> Acc] BY <2>2, <2>3
  <2>5. ASSUME NEW s \in SUBSET (1 .. k + 1)
        PROVE  h[s] = IF s = {} THEN base ELSE step[<<Max(s), h[s \ {Max(s)}]>>]
    <3>1. CASE k + 1 \in s
      <4>1. Max(s) = k + 1
        <5>1. s # {} /\ k + 1 \in Nat BY <3>1
        <5>2. Max(s) \in s /\ \A y \in s : y <= Max(s) BY <5>1, LastOfSome
        <5>3. Max(s) \in 1 .. k + 1 /\ k + 1 <= Max(s) BY <3>1, <5>2
        <5> QED BY <5>3
      <4>2. h[s \ {k + 1}] = g[s \ {k + 1}] BY <2>2
      <4> QED BY <3>1, <4>1, <4>2
    <3>2. CASE k + 1 \notin s
      <4>1. s \in SUBSET (1 .. k) /\ h[s] = g[s] BY <2>3, <3>2
      <4>2. h[s \ {Max(s)}] = g[s \ {Max(s)}] BY <3>2
      <4>3. g[s] = IF s = {} THEN base ELSE step[<<Max(s), g[s \ {Max(s)}]>>] BY <2>1, <4>1 DEF Staged
      <4> QED BY <4>1, <4>2, <4>3
    <3> QED BY <3>1, <3>2
  <2>6. k + 1 \in 0 .. n OBVIOUS
  <2> HIDE DEF h
  <2>7. Staged(h, k + 1, base, step) BY <2>5 DEF Staged
  <2> QED BY <2>4, <2>6, <2>7
<1> HIDE DEF S
<1>3. \A k \in 0 .. n : k \in S BY <1>1, <1>2, AllTheWay
<1>4. n \in S BY <1>3
<1> QED BY <1>4 DEF S

\* The same of a function that is only known to do the steps where they are defined.
Steps(f, n, Acc, step) ==
    \A s \in SUBSET (1 .. n) : s # {} /\ f[s \ {Max(s)}] \in Acc => f[s] = step[<<Max(s), f[s \ {Max(s)}]>>]

OneByOne(f, n, Acc, step) ==
    \A k \in 0 .. n : f[1 .. k] \in Acc /\ (k # 0 => f[1 .. k] = step[<<k, f[1 .. k - 1]>>])

\* It does them one number after the other.
LEMMA StageByStage ==
    ASSUME NEW n \in Nat, NEW Acc, NEW base \in Acc, NEW step \in [(1 .. n) \X Acc -> Acc], NEW f, f[{}] = base,
           Steps(f, n, Acc, step)
    PROVE  OneByOne(f, n, Acc, step)
<1> DEFINE S == {k \in 0 .. n : f[1 .. k] \in Acc /\ (k # 0 => f[1 .. k] = step[<<k, f[1 .. k - 1]>>])}
<1>1. 0 \in S
  <2>1. 1 .. 0 = {} OBVIOUS
  <2> QED BY <2>1
<1>2. ASSUME NEW k \in 0 .. n - 1, k \in S PROVE k + 1 \in S
  <2>1. (1 .. k + 1) \ {k + 1} = 1 .. k /\ 1 .. k + 1 \in SUBSET (1 .. n) /\ 1 .. k + 1 # {} OBVIOUS
  <2>2. Max(1 .. k + 1) = k + 1
    <3>1. Max(1 .. k + 1) \in 1 .. k + 1 /\ \A y \in 1 .. k + 1 : y <= Max(1 .. k + 1) BY <2>1, LastOfSome
    <3>2. k + 1 \in 1 .. k + 1 OBVIOUS
    <3> HIDE <2>1
    <3> QED BY <3>1, <3>2
  <2>3. f[1 .. k] \in Acc BY <1>2
  <2>4. f[1 .. k + 1] = step[<<k + 1, f[1 .. k]>>] BY <2>1, <2>2, <2>3 DEF Steps
  <2>5. (k + 1) - 1 = k /\ k + 1 \in 0 .. n /\ k + 1 \in 1 .. n OBVIOUS
  <2>6. step[<<k + 1, f[1 .. k]>>] \in Acc BY <2>3, <2>5
  <2> QED BY <2>4, <2>5, <2>6
<1> HIDE DEF S
<1>3. \A k \in 0 .. n : k \in S BY <1>1, <1>2, AllTheWay
<1> QED BY <1>3 DEF S, OneByOne
----------------------------------------------------------------------------
(* Ports. *)

N == Len(Ports)
LEMMA PortsType ==
    /\ N \in Nat /\ DOMAIN Ports = 1 .. N
    /\ \A n \in 1 .. N : /\ Ports[n].default \in 1 .. MaxPort - 1 /\ Ports[n].protocol \in {"tcp", "udp"}
                         /\ Ports[n].follows \in STRING /\ Ports[n].name \in STRING
<1> DEFINE P == [name : STRING, protocol : {"tcp", "udp"}, default : 1 .. MaxPort - 1, follows : STRING]
<1>1. Ports \in Seq(P) BY PortsAssumption
<1>2. \A p \in P : /\ p.default \in 1 .. MaxPort - 1 /\ p.protocol \in {"tcp", "udp"}
                   /\ p.follows \in STRING /\ p.name \in STRING
  OBVIOUS
<1> HIDE DEF P
<1>3. N \in Nat /\ DOMAIN Ports = 1 .. N /\ \A n \in 1 .. N : Ports[n] \in P BY <1>1 DEF N
<1> QED BY <1>2, <1>3

\* The port another one follows.
Followed(n) == CHOOSE m \in 1 .. n - 1 : Ports[m].name = Ports[n].follows
LEMMA FollowedIsBefore ==
    ASSUME NEW n \in 1 .. N, Ports[n].follows # No
    PROVE  Followed(n) \in 1 .. n - 1
<1>1. \E m \in 1 .. n - 1 : Ports[m].name = Ports[n].follows BY ReferencesAssumption, PortsType DEF ReferencesOk
<1> QED BY <1>1 DEF Followed

Rooted(g, n) == \A m \in 1 .. n : g[m] = IF Ports[m].follows = No THEN m ELSE g[Followed(m)]

\* Every port has a leader, itself or an earlier port, which is its own.
LEMMA RootIsLeader ==
    ASSUME NEW n \in 1 .. N
    PROVE  /\ RootOf[n] \in 1 .. n /\ Ports[RootOf[n]].follows = No
           /\ Ports[n].follows = No => RootOf[n] = n
           /\ RootOf[RootOf[n]] = RootOf[n]
<1>0. N \in Nat /\ DOMAIN Ports = 1 .. N BY PortsType
<1> DEFINE S == {k \in 0 .. N : \E g \in [1 .. k -> Nat] : Rooted(g, k)}
<1>1. 0 \in S
  <2> DEFINE g == [m \in 1 .. 0 |-> 0]
  <2>1. g \in [1 .. 0 -> Nat] OBVIOUS
  <2>2. Rooted(g, 0) BY DEF Rooted
  <2>3. 0 \in 0 .. N BY <1>0
  <2> HIDE DEF g
  <2> QED BY <2>1, <2>2, <2>3
<1>2. ASSUME NEW k \in 0 .. N - 1, k \in S PROVE k + 1 \in S
  <2>1. PICK g \in [1 .. k -> Nat] : Rooted(g, k) BY <1>2
  <2> DEFINE h == [m \in 1 .. k + 1 |-> IF m \in 1 .. k THEN g[m]
                                        ELSE IF Ports[m].follows = No THEN m ELSE g[Followed(m)]]
  <2>2. k + 1 \in 1 .. N /\ k + 1 \in 0 .. N BY <1>0
  <2>3. Ports[k + 1].follows # No => Followed(k + 1) \in 1 .. k
    <3>1. (k + 1) - 1 = k BY <1>0
    <3> QED BY <2>2, <3>1, FollowedIsBefore
  <2>4. \A m \in 1 .. k : Ports[m].follows # No => Followed(m) \in 1 .. k
    <3> SUFFICES ASSUME NEW m \in 1 .. k, Ports[m].follows # No PROVE Followed(m) \in 1 .. k OBVIOUS
    <3>1. m \in 1 .. N BY <1>0
    <3>2. Followed(m) \in 1 .. m - 1 BY <3>1, FollowedIsBefore
    <3> QED BY <3>2
  <2>5. h \in [1 .. k + 1 -> Nat] BY <2>3
  <2>6. Rooted(h, k + 1)
    <3> SUFFICES ASSUME NEW m \in 1 .. k + 1
                 PROVE  h[m] = IF Ports[m].follows = No THEN m ELSE h[Followed(m)]
      BY DEF Rooted
    <3>1. CASE m \in 1 .. k BY <2>1, <2>4, <3>1 DEF Rooted
    <3>2. CASE m = k + 1 BY <2>3, <3>2
    <3> QED BY <3>1, <3>2
  <2> HIDE DEF h
  <2> QED BY <2>2, <2>5, <2>6
<1> HIDE DEF S
<1>3. N \in S
  <2>1. \A k \in 0 .. N : k \in S BY <1>0, <1>1, <1>2, AllTheWay
  <2> QED BY <1>0, <2>1
<1>4. PICK g \in [1 .. N -> Nat] : Rooted(g, N) BY <1>3 DEF S
<1>5. g = [m \in 1 .. N |-> IF Ports[m].follows = No THEN m ELSE g[Followed(m)]] BY <1>4 DEF Rooted
<1>6. RootOf = CHOOSE f : f = [m \in 1 .. N |-> IF Ports[m].follows = No THEN m ELSE f[Followed(m)]]
  BY <1>0 DEF RootOf, Followed
<1>7. RootOf = [m \in 1 .. N |-> IF Ports[m].follows = No THEN m ELSE RootOf[Followed(m)]] BY <1>5, <1>6
<1> DEFINE T == {k \in 0 .. N : \A m \in 1 .. k : RootOf[m] \in 1 .. m /\ Ports[RootOf[m]].follows = No}
<1>8. 0 \in T BY <1>0
<1>9. ASSUME NEW k \in 0 .. N - 1, k \in T PROVE k + 1 \in T
  <2>1. k + 1 \in 1 .. N /\ k + 1 \in 0 .. N /\ (k + 1) - 1 = k BY <1>0
  <2>2. RootOf[k + 1] \in 1 .. k + 1 /\ Ports[RootOf[k + 1]].follows = No
    <3>1. CASE Ports[k + 1].follows = No BY <1>7, <2>1, <3>1
    <3>2. CASE Ports[k + 1].follows # No
      <4>1. Followed(k + 1) \in 1 .. k BY <2>1, <3>2, FollowedIsBefore
      <4>2. RootOf[k + 1] = RootOf[Followed(k + 1)] BY <1>7, <2>1, <3>2
      <4>3. RootOf[Followed(k + 1)] \in 1 .. Followed(k + 1) /\ Ports[RootOf[Followed(k + 1)]].follows = No
        BY <1>9, <4>1
      <4> QED BY <4>1, <4>2, <4>3
    <3> QED BY <3>1, <3>2
  <2>3. \A m \in 1 .. k + 1 : m \in 1 .. k \/ m = k + 1 OBVIOUS
  <2> QED BY <1>9, <2>1, <2>2, <2>3
<1> HIDE DEF T
<1>10. \A k \in 0 .. N : k \in T BY <1>0, <1>8, <1>9, AllTheWay
<1>11. N \in T BY <1>0, <1>10
<1>12. RootOf[n] \in 1 .. n /\ Ports[RootOf[n]].follows = No BY <1>11 DEF T
<1>13. \A m \in 1 .. N : Ports[m].follows = No => RootOf[m] = m BY <1>7
<1>14. RootOf[n] \in 1 .. N BY <1>0, <1>12
<1> QED BY <1>12, <1>13, <1>14

\* What is done after some ports: what is given and what is taken.
Done == [ok : BOOLEAN, taken : SUBSET (Int \X {"tcp", "udp"}), ports : [1 .. N -> Int]]

LEMMA GiveGroupType ==
    ASSUME NEW done \in Done, NEW leader \in 1 .. N
    PROVE  /\ GiveGroup(done, leader) \in Done
           /\ GiveGroup(done, leader).ok /\ Ports[leader].follows = No =>
                 /\ done.ok
                 /\ \E base \in Fit(leader, done.taken) :
                       /\ \A b \in Fit(leader, done.taken) : base <= b
                       /\ GiveGroup(done, leader) =
                            [ok |-> TRUE, taken |-> Claimed(leader, base, done.taken),
                             ports |-> [n \in 1 .. N |-> IF n \in Group(leader) THEN Chosen(leader, base, n) ELSE done.ports[n]]]
           /\ Ports[leader].follows # No => GiveGroup(done, leader) = done
<1>0. DOMAIN Ports = 1 .. N BY PortsType
<1>1. CASE Ports[leader].follows # No BY <1>1 DEF GiveGroup
<1>2. CASE Ports[leader].follows = No /\ (~done.ok \/ Fit(leader, done.taken) = {})
  <2>1. GiveGroup(done, leader) = [done EXCEPT !.ok = FALSE] BY <1>2 DEF GiveGroup
  <2> QED BY <1>2, <2>1 DEF Done
<1>3. CASE Ports[leader].follows = No /\ done.ok /\ Fit(leader, done.taken) # {}
  <2> DEFINE base == Min(Fit(leader, done.taken))
             new == [ok |-> TRUE, taken |-> Claimed(leader, base, done.taken),
                     ports |-> [n \in 1 .. N |-> IF n \in Group(leader) THEN Chosen(leader, base, n) ELSE done.ports[n]]]
  <2>1. Fit(leader, done.taken) \subseteq Nat BY BoundsAssumption DEF Fit, Bases
  <2>2. base \in Fit(leader, done.taken) /\ \A b \in Fit(leader, done.taken) : base <= b BY <1>3, <2>1, FirstOfSome
  <2>3. GiveGroup(done, leader) = new BY <1>0, <1>3 DEF GiveGroup
  <2>4. base \in Int BY <2>1, <2>2
  <2> HIDE DEF base
  <2>5. \A n \in 1 .. N : Chosen(leader, base, n) \in Int /\ <<Chosen(leader, base, n), Ports[n].protocol>> \in Int \X {"tcp", "udp"}
    BY <2>4, PortsType DEF Chosen
  <2>6. Claimed(leader, base, done.taken) \in SUBSET (Int \X {"tcp", "udp"})
    BY <1>0, <2>5 DEF Claimed, Group, Done
  <2>7. new.ports \in [1 .. N -> Int] BY <2>5 DEF Done
  <2>8. new \in Done BY <2>6, <2>7 DEF Done
  <2> QED BY <1>3, <2>2, <2>3, <2>8
<1> QED BY <1>1, <1>2, <1>3 DEF Done

Start(taken) == [ok |-> TRUE, taken |-> taken, ports |-> NoServer.ports]

\* Ports are given in the order of the template.
LEMMA AllocateInOrder ==
    ASSUME NEW taken \in SUBSET (Int \X {"tcp", "udp"})
    PROVE  \E h \in [0 .. N -> Done] :
              /\ h[0] = Start(taken) /\ h[N] = Allocate(taken)
              /\ \A k \in 1 .. N : h[k] = GiveGroup(h[k - 1], k)
<1> DEFINE base == Start(taken)
           step == [p \in (1 .. N) \X Done |-> GiveGroup(p[2], p[1])]
<1>0. N \in Nat /\ DOMAIN Ports = 1 .. N BY PortsType
<1>1. base \in Done BY <1>0 DEF Start, Done, NoServer
<1>2. step \in [(1 .. N) \X Done -> Done] BY GiveGroupType
<1> HIDE DEF base
<1>3. PICK g \in [SUBSET (1 .. N) -> Done] : Staged(g, N, base, step)
  <2> HIDE DEF step
  <2> QED BY <1>0, <1>1, <1>2, Stages
<1> DEFINE all == [k \in 1 .. N |-> k]
           Made(q) == q = [s \in SUBSET (1 .. N) |-> IF s = {} THEN base ELSE GiveGroup(q[s \ {Max(s)}], all[Max(s)])]
           f == CHOOSE q : Made(q)
<1>4. \A s \in SUBSET (1 .. N) : s # {} => Max(s) \in 1 .. N BY <1>0, LastOfSome
<1>5. Made(g)
  <2>1. ASSUME NEW s \in SUBSET (1 .. N), s # {}
        PROVE  g[s] = GiveGroup(g[s \ {Max(s)}], Max(s))
    <3>1. g[s] = step[<<Max(s), g[s \ {Max(s)}]>>] BY <1>3, <2>1 DEF Staged
    <3> QED BY <1>4, <2>1, <3>1
  <2>2. g[{}] = base BY <1>3 DEF Staged
  <2> HIDE DEF step
  <2> QED BY <1>4, <2>1, <2>2
<1>6. Made(f) BY <1>5
<1>7. Allocate(taken) = f[1 .. N]
  BY <1>0 DEF Allocate, FoldLeftDomain, FoldLeft, MapThenFoldSet, base, Start
<1> HIDE DEF f
<1>8. \A k \in 0 .. N : f[1 .. k] \in Done /\ (k # 0 => f[1 .. k] = step[<<k, f[1 .. k - 1]>>])
  <2>1. f[{}] = base BY <1>6
  <2>2. ASSUME NEW s \in SUBSET (1 .. N), s # {}, f[s \ {Max(s)}] \in Done
        PROVE  f[s] = step[<<Max(s), f[s \ {Max(s)}]>>]
    <3>1. f[s] = GiveGroup(f[s \ {Max(s)}], Max(s)) BY <1>4, <1>6, <2>2
    <3> QED BY <1>4, <2>2, <3>1
  <2> HIDE DEF step
  <2>3. Steps(f, N, Done, step) BY <2>2 DEF Steps
  <2>4. OneByOne(f, N, Done, step) BY <1>0, <1>1, <1>2, <2>1, <2>3, StageByStage
  <2> QED BY <2>4 DEF OneByOne
<1> DEFINE h == [k \in 0 .. N |-> f[1 .. k]]
<1>9. h \in [0 .. N -> Done] BY <1>8
<1>10. h[0] = base /\ h[N] = Allocate(taken)
  <2>1. 1 .. 0 = {} OBVIOUS
  <2>2. f[{}] = base BY <1>6
  <2> QED BY <1>0, <1>7, <2>1, <2>2
<1>11. \A k \in 1 .. N : h[k] = GiveGroup(h[k - 1], k)
  <2> TAKE k \in 1 .. N
  <2>1. k \in 0 .. N /\ k - 1 \in 0 .. N /\ k # 0 BY <1>0
  <2>2. f[1 .. k] = step[<<k, f[1 .. k - 1]>>] /\ f[1 .. k - 1] \in Done BY <1>8, <2>1
  <2> QED BY <2>1, <2>2
<1> HIDE DEF h
<1> QED BY <1>9, <1>10, <1>11 DEF base

\* The ports of a group of its own have different numbers, or protocols.
GroupsApart ==
    \A n, m \in 1 .. N :
        RootOf[n] = RootOf[m] /\ Ports[n].protocol = Ports[m].protocol /\ Ports[n].default = Ports[m].default => n = m

GivenUpTo(ports, k) == {<<ports[m], Ports[m].protocol>> : m \in {n \in 1 .. N : RootOf[n] < k}}

\* A group is as near to its defaults as what is taken, and what was given before, let it.
NearDefault(ports, leader, taken) ==
    LET offset == ports[leader] - Ports[leader].default IN
    /\ \A n \in Group(leader) : ports[n] = Ports[n].default + offset
    /\ offset \in 0 .. SearchLimit - 1
    /\ \A less \in 0 .. offset - 1 : \E m \in Group(leader) :
          \/ Ports[m].default + less >= MaxPort
          \/ <<Ports[m].default + less, Ports[m].protocol>> \in taken \cup GivenUpTo(ports, leader)

\* What is given once the first k ports were looked at.
WellGiven(done, k, taken) ==
    /\ done.taken = taken \cup GivenUpTo(done.ports, k + 1)
    /\ \A n \in 1 .. N : RootOf[n] <= k =>
          /\ done.ports[n] \in 1 .. MaxPort - 1 /\ <<done.ports[n], Ports[n].protocol>> \notin taken
          /\ \A m \in 1 .. N :
                /\ GroupsApart
                /\ RootOf[m] <= k /\ done.ports[m] = done.ports[n] /\ Ports[m].protocol = Ports[n].protocol
                => m = n
          /\ RootOf[n] = n => NearDefault(done.ports, n, taken)

LEMMA GroupNearDefault ==
    ASSUME NEW taken, NEW done \in Done, NEW leader \in 1 .. N, RootOf[leader] = leader,
           NEW base \in Fit(leader, done.taken), \A b \in Fit(leader, done.taken) : base <= b,
           NEW ports \in [1 .. N -> Int], \A n \in Group(leader) : ports[n] = Chosen(leader, base, n),
           done.taken = taken \cup GivenUpTo(ports, leader)
    PROVE  NearDefault(ports, leader, taken)
<1> DEFINE offset == ports[leader] - Ports[leader].default
<1>0. N \in Nat /\ DOMAIN Ports = 1 .. N /\ leader \in Group(leader) /\ Group(leader) \subseteq 1 .. N BY PortsType DEF Group
<1>1. \A n \in 1 .. N : Ports[n].default \in 1 .. MaxPort - 1 BY PortsType
<1>2. MaxPort \in Nat /\ SearchLimit \in Nat BY BoundsAssumption
<1>3. base \in 1 .. MaxPort - 1 /\ base - Ports[leader].default \in 0 .. SearchLimit - 1 BY DEF Fit, Bases
<1>4. offset = base - Ports[leader].default BY <1>0, <1>1, <1>2, <1>3 DEF Chosen
<1> HIDE DEF offset
<1>5. offset \in 0 .. SearchLimit - 1 BY <1>3, <1>4
<1>6. \A n \in Group(leader) : ports[n] = Ports[n].default + offset
  <2> TAKE n \in Group(leader)
  <2>1. ports[n] = base + Ports[n].default - Ports[leader].default BY DEF Chosen
  <2> QED BY <1>0, <1>1, <1>2, <1>3, <1>4, <2>1
<1>7. ASSUME NEW less \in 0 .. offset - 1
      PROVE  \E m \in Group(leader) :
          \/ Ports[m].default + less >= MaxPort
          \/ <<Ports[m].default + less, Ports[m].protocol>> \in taken \cup GivenUpTo(ports, leader)
  <2> DEFINE d == Ports[leader].default
             b == d + less
  <2>0. d \in 1 .. MaxPort - 1 /\ base \in Int /\ offset = base - d /\ less \in Int /\ less >= 0 /\ less < offset
    BY <1>0, <1>1, <1>3, <1>4, <1>5
  <2> HIDE DEF d
  <2>1. b < base /\ b \in 1 .. MaxPort - 1 /\ b - d \in 0 .. SearchLimit - 1 BY <1>2, <1>3, <1>5, <2>0
  <2>2. b \in Bases(leader) /\ b \notin Fit(leader, done.taken)
    <3>1. b \in Bases(leader) BY <2>1 DEF Bases, d
    <3>2. ~(base <= b) BY <2>0, <2>1
    <3> QED BY <3>1, <3>2
  <2>3. PICK m \in Group(leader) : ~Usable(Chosen(leader, b, m), Ports[m].protocol, done.taken)
    BY <2>2 DEF Fit
  <2>4. Ports[m].default \in 1 .. MaxPort - 1 BY <1>0, <1>1
  <2>5. Chosen(leader, b, m) = Ports[m].default + less BY <2>0, <2>4 DEF Chosen, d
  <2> HIDE DEF b
  <2>6. Ports[m].default + less > 0 /\ Ports[m].default + less \in Int BY <2>0, <2>4
  <2>7. Ports[m].default + less >= MaxPort \/ <<Ports[m].default + less, Ports[m].protocol>> \in done.taken
    BY <1>2, <2>3, <2>5, <2>6 DEF Usable
  <2> QED BY <2>7
<1> QED BY <1>5, <1>6, <1>7 DEF NearDefault, offset

\* One more port looked at.
LEMMA GiveGroupWell ==
    ASSUME NEW taken \in SUBSET (Int \X {"tcp", "udp"}), NEW k \in 0 .. N - 1, NEW done \in Done,
           done.ok => WellGiven(done, k, taken), GiveGroup(done, k + 1).ok
    PROVE  WellGiven(GiveGroup(done, k + 1), k + 1, taken)
<1> DEFINE new == GiveGroup(done, k + 1)
           l == k + 1
<1>0. N \in Nat /\ DOMAIN Ports = 1 .. N /\ l \in 1 .. N /\ l + 1 = k + 2 BY PortsType
<1>r. \A n \in 1 .. N : RootOf[n] \in 1 .. n /\ Ports[RootOf[n]].follows = No /\ RootOf[RootOf[n]] = RootOf[n]
  BY RootIsLeader
<1>1. CASE Ports[l].follows # No
  <2>1. new = done BY <1>0, <1>1, GiveGroupType
  <2>2. \A n \in 1 .. N : RootOf[n] # l BY <1>1, <1>r
  <2>3. \A n \in 1 .. N : (RootOf[n] <= l <=> RootOf[n] <= k) /\ (RootOf[n] < l + 1 <=> RootOf[n] < k + 1)
    BY <1>r, <2>2
  <2>4. GivenUpTo(done.ports, l + 1) = GivenUpTo(done.ports, k + 1) BY <2>3 DEF GivenUpTo
  <2>5. WellGiven(done, k, taken) BY <2>1
  <2> HIDE DEF l, new
  <2>6. done.taken = taken \cup GivenUpTo(done.ports, l + 1) BY <2>4, <2>5 DEF WellGiven
  <2>7. WellGiven(done, l, taken) BY <2>3, <2>5, <2>6 DEF WellGiven
  <2> QED BY <2>1, <2>7 DEF new, l
<1>2. CASE Ports[l].follows = No
  <2>1. done.ok BY <1>0, <1>2, GiveGroupType
  <2>2. PICK base \in Fit(l, done.taken) :
           /\ \A b \in Fit(l, done.taken) : base <= b
           /\ new = [ok |-> TRUE, taken |-> Claimed(l, base, done.taken),
                     ports |-> [n \in 1 .. N |-> IF n \in Group(l) THEN Chosen(l, base, n) ELSE done.ports[n]]]
    BY <1>0, <1>2, GiveGroupType
  <2>3. RootOf[l] = l BY <1>0, <1>2, RootIsLeader
  <2>4. new \in Done BY <1>0, GiveGroupType
  <2> DEFINE ports == new.ports
  <2>5. /\ ports \in [1 .. N -> Int]
        /\ \A n \in Group(l) : ports[n] = Chosen(l, base, n)
        /\ \A n \in 1 .. N : RootOf[n] # l => ports[n] = done.ports[n]
    BY <1>0, <2>2, <2>4 DEF Group, Done
  <2> HIDE DEF new, l
  <2>6. WellGiven(done, k, taken) BY <2>1
  <2>7. \A n \in 1 .. N : n \in Group(l) <=> RootOf[n] = l BY <1>0 DEF Group
  <2>8. \A n \in 1 .. N : RootOf[n] \in Nat /\ (RootOf[n] < l <=> RootOf[n] <= k) /\ (RootOf[n] <= l <=> RootOf[n] <= k \/ RootOf[n] = l)
    BY <1>r DEF l
  <2>9. \A j \in 0 .. l : GivenUpTo(ports, j) = GivenUpTo(done.ports, j)
    <3> SUFFICES ASSUME NEW j \in 0 .. l, NEW n \in 1 .. N, RootOf[n] < j PROVE ports[n] = done.ports[n] BY DEF GivenUpTo
    <3>1. RootOf[n] # l BY <1>0, <2>8
    <3> QED BY <2>5, <3>1
  <2>10. done.taken = taken \cup GivenUpTo(ports, l) BY <1>0, <2>6, <2>9 DEF WellGiven, l
  <2>11. NearDefault(ports, l, taken) BY <1>0, <2>2, <2>3, <2>5, <2>10, GroupNearDefault
  <2>12. \A n \in Group(l) : ports[n] \in 1 .. MaxPort - 1 /\ <<ports[n], Ports[n].protocol>> \notin done.taken
    <3> TAKE n \in Group(l)
    <3>1. Usable(Chosen(l, base, n), Ports[n].protocol, done.taken) BY DEF Fit
    <3>2. ports[n] \in Int BY <1>0, <2>5 DEF Group
    <3> QED BY <2>5, <3>1, <3>2, BoundsAssumption DEF Usable
  <2>13. new.taken = taken \cup GivenUpTo(ports, l + 1)
    <3>1. new.taken = done.taken \cup {<<ports[n], Ports[n].protocol>> : n \in Group(l)} BY <2>2, <2>5 DEF Claimed
    <3>2. \A n \in 1 .. N : RootOf[n] < l + 1 <=> RootOf[n] < l \/ n \in Group(l) BY <1>0, <2>7, <2>8
    <3>3. Group(l) \subseteq 1 .. N BY <1>0 DEF Group
    <3>4. GivenUpTo(ports, l + 1) = GivenUpTo(ports, l) \cup {<<ports[n], Ports[n].protocol>> : n \in Group(l)}
      BY <3>2, <3>3 DEF GivenUpTo
    <3> QED BY <2>10, <3>1, <3>4
  <2>14. \A n \in 1 .. N : RootOf[n] <= k => /\ ports[n] = done.ports[n] /\ ports[n] \in 1 .. MaxPort - 1
                                           /\ <<ports[n], Ports[n].protocol>> \notin taken
                                           /\ <<ports[n], Ports[n].protocol>> \in done.taken
    <3> SUFFICES ASSUME NEW n \in 1 .. N, RootOf[n] <= k
                 PROVE  /\ ports[n] = done.ports[n] /\ ports[n] \in 1 .. MaxPort - 1
                        /\ <<ports[n], Ports[n].protocol>> \notin taken
                        /\ <<ports[n], Ports[n].protocol>> \in done.taken
      OBVIOUS
    <3>1. RootOf[n] # l /\ RootOf[n] < l BY <1>0, <2>8
    <3>2. ports[n] = done.ports[n] BY <2>5, <3>1
    <3>3. <<ports[n], Ports[n].protocol>> \in GivenUpTo(ports, l) BY <3>1 DEF GivenUpTo
    <3> QED BY <2>6, <2>10, <3>2, <3>3 DEF WellGiven
  <2>15. ASSUME NEW n \in 1 .. N, RootOf[n] <= l
         PROVE  /\ ports[n] \in 1 .. MaxPort - 1 /\ <<ports[n], Ports[n].protocol>> \notin taken
                /\ \A m \in 1 .. N :
                      /\ GroupsApart
                      /\ RootOf[m] <= l /\ ports[m] = ports[n] /\ Ports[m].protocol = Ports[n].protocol
                      => m = n
                /\ RootOf[n] = n => NearDefault(ports, n, taken)
    <3>1. ports[n] \in 1 .. MaxPort - 1 /\ <<ports[n], Ports[n].protocol>> \notin taken
      BY <2>7, <2>8, <2>10, <2>12, <2>14, <2>15
    <3>2. ASSUME NEW m \in 1 .. N, RootOf[m] <= l, ports[m] = ports[n], Ports[m].protocol = Ports[n].protocol, GroupsApart
          PROVE  m = n
      <4>1. CASE RootOf[m] <= k /\ RootOf[n] <= k BY <2>6, <2>14, <3>2, <4>1 DEF WellGiven
      <4>2. CASE RootOf[m] = l /\ RootOf[n] <= k BY <2>7, <2>12, <2>14, <3>2, <4>2
      <4>3. CASE RootOf[m] <= k /\ RootOf[n] = l BY <2>7, <2>12, <2>14, <3>2, <4>3
      <4>4. CASE RootOf[m] = l /\ RootOf[n] = l
        <5>1. ports[m] = Chosen(l, base, m) /\ ports[n] = Chosen(l, base, n) BY <2>5, <2>7, <4>4
        <5>2. /\ Ports[m].default \in Int /\ Ports[n].default \in Int /\ Ports[l].default \in Int /\ base \in Int
          BY <1>0, PortsType DEF Fit, Bases
        <5>3. base + Ports[m].default - Ports[l].default = base + Ports[n].default - Ports[l].default
          BY <3>2, <5>1 DEF Chosen
        <5>4. Ports[m].default = Ports[n].default BY <5>2, <5>3
        <5> QED BY <3>2, <4>4, <5>4 DEF GroupsApart
      <4> QED BY <2>8, <2>15, <3>2, <4>1, <4>2, <4>3, <4>4
    <3>3. ASSUME RootOf[n] = n PROVE NearDefault(ports, n, taken)
      <4>1. CASE n = l BY <2>11, <4>1
      <4>2. CASE n # l
        <5>1. RootOf[n] <= k /\ n \in 0 .. l BY <1>0, <2>8, <2>15, <3>3, <4>2
        <5>4. NearDefault(done.ports, n, taken) BY <2>6, <3>3, <5>1 DEF WellGiven
        <5>2. \A m \in Group(n) : ports[m] = done.ports[m] BY <1>0, <2>5, <4>2 DEF Group
        <5>3. ports[n] = done.ports[n] BY <2>5, <3>3, <4>2
        <5> QED BY <2>9, <5>1, <5>2, <5>3, <5>4 DEF NearDefault
      <4> QED BY <4>1, <4>2
    <3> QED BY <3>1, <3>2, <3>3
  <2> HIDE DEF ports
  <2>16. WellGiven(new, l, taken) BY <2>13, <2>15 DEF WellGiven, ports
  <2> QED BY <2>16 DEF new, l
<1> QED BY <1>1, <1>2 DEF new, l

\* What is allocated, if all of it could be.
LEMMA AllocateWell ==
    ASSUME NEW taken \in SUBSET (Int \X {"tcp", "udp"})
    PROVE  /\ Allocate(taken) \in Done
           /\ Allocate(taken).ok => WellGiven(Allocate(taken), N, taken)
<1>0. N \in Nat /\ DOMAIN Ports = 1 .. N BY PortsType
<1>1. PICK h \in [0 .. N -> Done] :
              /\ h[0] = Start(taken) /\ h[N] = Allocate(taken)
              /\ \A k \in 1 .. N : h[k] = GiveGroup(h[k - 1], k)
  BY AllocateInOrder
<1> DEFINE S == {k \in 0 .. N : h[k].ok => WellGiven(h[k], k, taken)}
<1>2. 0 \in S
  <2>1. \A n \in 1 .. N : RootOf[n] \in 1 .. n BY RootIsLeader
  <2>2. \A n \in 1 .. N : ~(RootOf[n] <= 0) /\ ~(RootOf[n] < 0 + 1) BY <2>1
  <2>3. GivenUpTo(h[0].ports, 0 + 1) = {} BY <2>2 DEF GivenUpTo
  <2>4. h[0].taken = taken BY <1>1 DEF Start
  <2>5. WellGiven(h[0], 0, taken) BY <2>2, <2>3, <2>4 DEF WellGiven
  <2> QED BY <1>0, <2>5
<1>3. ASSUME NEW k \in 0 .. N - 1, k \in S PROVE k + 1 \in S
  <2>1. k + 1 \in 1 .. N /\ k + 1 \in 0 .. N /\ (k + 1) - 1 = k /\ k \in 0 .. N BY <1>0
  <2>2. h[k + 1] = GiveGroup(h[k], k + 1) /\ h[k] \in Done BY <1>1, <2>1
  <2>3. h[k].ok => WellGiven(h[k], k, taken) BY <1>3
  <2>4. h[k + 1].ok => WellGiven(h[k + 1], k + 1, taken) BY <2>2, <2>3, GiveGroupWell
  <2> QED BY <2>1, <2>4
<1> HIDE DEF S
<1>4. \A k \in 0 .. N : k \in S BY <1>0, <1>2, <1>3, AllTheWay
<1>5. N \in 0 .. N BY <1>0
<1> QED BY <1>1, <1>4, <1>5 DEF S
----------------------------------------------------------------------------
(* Values. *)

M == Len(Fields)
LEMMA FieldsType ==
    /\ M \in Nat /\ DOMAIN Fields = 1 .. M
    /\ \A n \in 1 .. M : /\ Fields[n].id \in STRING /\ Fields[n].id # No /\ Fields[n].default \in STRING
                         /\ Fields[n].required \in BOOLEAN /\ (Fields[n].kind = "hidden" => Fields[n].default = No)
<1> DEFINE F == [id : STRING, kind : {"string", "select", "dynamic", "hidden"}, editable : BOOLEAN,
                 required : BOOLEAN, default : STRING, options : SUBSET STRING, ref : STRING,
                 shownFor : SUBSET STRING, source : STRING]
<1>1. Fields \in Seq(F) BY FieldsAssumption
<1>2. \A f \in F : f.id \in STRING /\ f.default \in STRING /\ f.required \in BOOLEAN OBVIOUS
<1> HIDE DEF F
<1>3. M \in Nat /\ DOMAIN Fields = 1 .. M /\ \A n \in 1 .. M : Fields[n] \in F BY <1>1 DEF M
<1> QED BY <1>2, <1>3, FieldsAssumption

\* A field is the one of its name.
LEMMA FieldOfId ==
    /\ FieldIds = {Fields[n].id : n \in 1 .. M}
    /\ \A n \in 1 .. M : Field(Fields[n].id) = Fields[n]
    /\ \A n, m \in 1 .. M : Fields[n].id = Fields[m].id => n = m
    /\ \A id \in FieldIds : \E n \in 1 .. M : id = Fields[n].id /\ Field(id) = Fields[n]
<1>1. DOMAIN Fields = 1 .. M BY FieldsType
<1>2. \A n, m \in 1 .. M : Fields[n].id = Fields[m].id => n = m BY <1>1, ReferencesAssumption DEF ReferencesOk
<1>3. ASSUME NEW n \in 1 .. M PROVE Field(Fields[n].id) = Fields[n]
  <2>1. Fields[n] \in Range(Fields) BY <1>1 DEF Range
  <2>2. \A f \in Range(Fields) : f.id = Fields[n].id => f = Fields[n] BY <1>1, <1>2 DEF Range
  <2> QED BY <2>1, <2>2 DEF Field
<1> QED BY <1>1, <1>2, <1>3 DEF FieldIds

\* What a field depends on comes before it.
LEMMA DependsOnEarlier ==
    ASSUME NEW n \in 1 .. M
    PROVE  /\ Fields[n].ref # No => \E m \in 1 .. n - 1 : Fields[m].id = Fields[n].ref
           /\ Fields[n].source # No => \E m \in 1 .. n - 1 : Fields[m].id = Fields[n].source
<1>1. \A ref \in {Fields[n].ref, Fields[n].source} \ {No} : \E m \in 1 .. n - 1 : Fields[m].id = ref
  <2>1. n \in DOMAIN Fields BY FieldsType
  <2> QED BY <2>1, ReferencesAssumption DEF ReferencesOk
<1>2. Fields[n].ref # No => Fields[n].ref \in {Fields[n].ref, Fields[n].source} \ {No} OBVIOUS
<1>3. Fields[n].source # No => Fields[n].source \in {Fields[n].ref, Fields[n].source} \ {No} OBVIOUS
<1> QED BY <1>1, <1>2, <1>3

Values == [FieldIds -> STRING]
Checked == [ok : BOOLEAN, clean : Values]

LEMMA ValidateFieldType ==
    ASSUME NEW n \in 1 .. M, NEW raw \in Values, NEW previous \in Values, NEW reachable \in BOOLEAN, NEW secret \in STRING,
           NEW done \in Checked
    PROVE  /\ ValidateField(done, Fields[n], raw, previous, reachable, secret) \in Checked
           /\ \A id \in FieldIds : id # Fields[n].id =>
                 ValidateField(done, Fields[n], raw, previous, reachable, secret).clean[id] = done.clean[id]
<1> DEFINE field == Fields[n]
           value == Value(field, raw, previous)
           new == ValidateField(done, field, raw, previous, reachable, secret)
<1>1. field.id \in FieldIds /\ field.default \in STRING /\ field.required \in BOOLEAN BY FieldsType, FieldOfId
<1>2. value \in STRING BY <1>1 DEF Value, Values
<1> HIDE DEF field, value
<1>3. \/ new = done
      \/ \E v \in STRING : new = [done EXCEPT !.clean[field.id] = v]
      \/ \E b \in BOOLEAN : new = [done EXCEPT !.ok = b]
  BY <1>1, <1>2 DEF ValidateField, value, Checked
<1> HIDE DEF new
<1>4. ASSUME NEW v \in STRING, new = [done EXCEPT !.clean[field.id] = v]
      PROVE  new \in Checked /\ \A id \in FieldIds : id # field.id => new.clean[id] = done.clean[id]
  <2>1. done.clean \in Values /\ done.ok \in BOOLEAN BY DEF Checked
  <2>2. [done.clean EXCEPT ![field.id] = v] \in Values BY <2>1 DEF Values
  <2>3. new = [done EXCEPT !.clean = [done.clean EXCEPT ![field.id] = v]] BY <1>4 DEF Checked
  <2>4. new = [ok |-> done.ok, clean |-> [done.clean EXCEPT ![field.id] = v]] BY <2>3 DEF Checked
  <2> QED BY <2>1, <2>2, <2>4 DEF Checked, Values
<1> QED BY <1>3, <1>4 DEF Checked, new, field

\* The fields are looked at in their order.
LEMMA ValidateInOrder ==
    ASSUME NEW raw \in Values, NEW previous \in Values, NEW reachable \in BOOLEAN, NEW secret \in STRING
    PROVE  \E h \in [0 .. M -> Checked] :
              /\ h[0] = [ok |-> TRUE, clean |-> NoValues] /\ h[M] = Validate(raw, previous, reachable, secret)
              /\ \A k \in 1 .. M : h[k] = ValidateField(h[k - 1], Fields[k], raw, previous, reachable, secret)
<1> DEFINE base == [ok |-> TRUE, clean |-> NoValues]
           step == [p \in (1 .. M) \X Checked |-> ValidateField(p[2], Fields[p[1]], raw, previous, reachable, secret)]
<1>0. M \in Nat /\ DOMAIN Fields = 1 .. M BY FieldsType
<1>1. base \in Checked BY FilledAssumption DEF Checked, Values
<1>2. step \in [(1 .. M) \X Checked -> Checked] BY ValidateFieldType
<1> HIDE DEF base
<1>3. PICK g \in [SUBSET (1 .. M) -> Checked] : Staged(g, M, base, step)
  <2> HIDE DEF step
  <2> QED BY <1>0, <1>1, <1>2, Stages
<1> DEFINE Made(q) == q = [s \in SUBSET (1 .. M) |->
                             IF s = {} THEN base
                             ELSE ValidateField(q[s \ {Max(s)}], Fields[Max(s)], raw, previous, reachable, secret)]
           f == CHOOSE q : Made(q)
<1>4. \A s \in SUBSET (1 .. M) : s # {} => Max(s) \in 1 .. M BY <1>0, LastOfSome
<1>5. Made(g)
  <2>1. ASSUME NEW s \in SUBSET (1 .. M), s # {}
        PROVE  g[s] = ValidateField(g[s \ {Max(s)}], Fields[Max(s)], raw, previous, reachable, secret)
    <3>1. g[s] = step[<<Max(s), g[s \ {Max(s)}]>>] BY <1>3, <2>1 DEF Staged
    <3> QED BY <1>4, <2>1, <3>1
  <2>2. g[{}] = base BY <1>3 DEF Staged
  <2> HIDE DEF step
  <2> QED BY <2>1, <2>2
<1>6. Made(f) BY <1>5
<1>7. Validate(raw, previous, reachable, secret) = f[1 .. M]
  BY <1>0 DEF Validate, FoldLeft, MapThenFoldSet, base
<1> HIDE DEF f
<1>8. f[{}] = base BY <1>6
<1>9. Steps(f, M, Checked, step)
  <2> SUFFICES ASSUME NEW s \in SUBSET (1 .. M), s # {}, f[s \ {Max(s)}] \in Checked
               PROVE  f[s] = step[<<Max(s), f[s \ {Max(s)}]>>]
    BY DEF Steps
  <2>1. f[s] = ValidateField(f[s \ {Max(s)}], Fields[Max(s)], raw, previous, reachable, secret) BY <1>6
  <2> QED BY <1>4, <2>1
<1>10. OneByOne(f, M, Checked, step)
  <2> HIDE DEF step
  <2> QED BY <1>0, <1>1, <1>2, <1>8, <1>9, StageByStage
<1> DEFINE h == [k \in 0 .. M |-> f[1 .. k]]
<1>11. h \in [0 .. M -> Checked] BY <1>10 DEF OneByOne
<1>12. h[0] = base /\ h[M] = Validate(raw, previous, reachable, secret)
  <2>1. 1 .. 0 = {} OBVIOUS
  <2> QED BY <1>0, <1>7, <1>8, <2>1
<1>13. \A k \in 1 .. M : h[k] = ValidateField(h[k - 1], Fields[k], raw, previous, reachable, secret)
  <2> TAKE k \in 1 .. M
  <2>1. k \in 0 .. M /\ k - 1 \in 0 .. M /\ k # 0 BY <1>0
  <2>2. f[1 .. k] = step[<<k, f[1 .. k - 1]>>] /\ f[1 .. k - 1] \in Checked BY <1>10, <2>1 DEF OneByOne
  <2> QED BY <2>1, <2>2
<1> HIDE DEF h
<1> QED BY <1>11, <1>12, <1>13 DEF base

\* Whether a field is shown, and what a provider is asked for it, the earlier ones decide.
LEMMA EarlierDecide ==
    ASSUME NEW n \in 1 .. M, NEW c, NEW d, \A m \in 1 .. n - 1 : c[Fields[m].id] = d[Fields[m].id]
    PROVE  Visible(Fields[n], c) = Visible(Fields[n], d) /\ DependencyParams(Fields[n], c) = DependencyParams(Fields[n], d)
BY DependsOnEarlier DEF Visible, DependencyParams

\* What becomes of a field that is accepted.
Outcome(field, raw, previous, reachable, secret, clean) ==
    LET value == Value(field, raw, previous) IN
    IF ~Visible(field, clean) THEN clean[field.id] = No
    ELSE IF value # No THEN clean[field.id] = value /\ Accepted(field, value, clean, previous, reachable)
    ELSE IF field.kind = "hidden" THEN clean[field.id] = secret
    ELSE clean[field.id] = No /\ ~field.required

LEMMA OutcomeStays ==
    ASSUME NEW n \in 1 .. M, NEW c, NEW d, \A m \in 1 .. n : c[Fields[m].id] = d[Fields[m].id],
           NEW raw \in Values, NEW previous \in Values, NEW reachable \in BOOLEAN, NEW secret \in STRING,
           Outcome(Fields[n], raw, previous, reachable, secret, c)
    PROVE  Outcome(Fields[n], raw, previous, reachable, secret, d)
<1> DEFINE field == Fields[n]
           value == Value(field, raw, previous)
<1>0. M \in Nat /\ 1 .. n - 1 \subseteq 1 .. n /\ n \in 1 .. n BY FieldsType
<1>1. Visible(field, c) = Visible(field, d) /\ DependencyParams(field, c) = DependencyParams(field, d)
  BY <1>0, EarlierDecide
<1>2. c[field.id] = d[field.id] BY <1>0
<1> HIDE DEF field, value
<1>3. Accepted(field, value, c, previous, reachable) = Accepted(field, value, d, previous, reachable)
  BY <1>1 DEF Accepted
<1>4. Outcome(field, raw, previous, reachable, secret, c) BY DEF field
<1> QED BY <1>1, <1>2, <1>3, <1>4 DEF Outcome, field, value

LEMMA ValidateFieldOutcome ==
    ASSUME NEW n \in 1 .. M, NEW raw \in Values, NEW previous \in Values, NEW reachable \in BOOLEAN, NEW secret \in STRING,
           NEW done \in Checked, done.clean[Fields[n].id] = No,
           ValidateField(done, Fields[n], raw, previous, reachable, secret).ok
    PROVE  /\ done.ok
           /\ Outcome(Fields[n], raw, previous, reachable, secret,
                      ValidateField(done, Fields[n], raw, previous, reachable, secret).clean)
<1> DEFINE field == Fields[n]
           value == Value(field, raw, previous)
           new == ValidateField(done, field, raw, previous, reachable, secret)
           clean == new.clean
<1>0. M \in Nat /\ field.id \in FieldIds BY FieldsType, FieldOfId
<1>c. \A id \in FieldIds : id # field.id => clean[id] = done.clean[id] BY ValidateFieldType
<1>1. \A m \in 1 .. n - 1 : done.clean[Fields[m].id] = clean[Fields[m].id]
  <2> HIDE DEF new
  <2> TAKE m \in 1 .. n - 1
  <2>1. m \in 1 .. M /\ m # n BY <1>0
  <2>2. Fields[m].id \in FieldIds /\ Fields[m].id # Fields[n].id BY <2>1, FieldOfId
  <2> QED BY <2>2, <1>c
<1>2. Visible(field, done.clean) = Visible(field, clean) /\ DependencyParams(field, done.clean) = DependencyParams(field, clean)
  BY <1>1, EarlierDecide
<1>3. new.ok /\ done.clean[field.id] = No OBVIOUS
<1>4. done = [ok |-> done.ok, clean |-> done.clean] /\ done.ok \in BOOLEAN /\ field.id \in DOMAIN done.clean
  BY <1>0 DEF Checked, Values
<1> HIDE DEF field, value
<1>5. Accepted(field, value, done.clean, previous, reachable) = Accepted(field, value, clean, previous, reachable)
  BY <1>2 DEF Accepted
<1>a. \A v : LET e == [done EXCEPT !.clean[field.id] = v] IN e.ok = done.ok /\ e.clean[field.id] = v BY <1>4
<1>b. \A b : LET e == [done EXCEPT !.ok = b] IN e.ok = b /\ e.clean = done.clean BY <1>4
<1>6. CASE ~Visible(field, done.clean)
  <2>1. new = done BY <1>6 DEF ValidateField
  <2> HIDE DEF new
  <2> QED BY <1>2, <1>3, <1>6, <2>1 DEF Outcome, field, new
<1>7. CASE Visible(field, done.clean) /\ value # No
  <2>1. Accepted(field, value, done.clean, previous, reachable) /\ new = [done EXCEPT !.clean[field.id] = value]
    BY <1>3, <1>7, <1>b DEF ValidateField, value
  <2> HIDE DEF new
  <2>2. done.ok /\ clean[field.id] = value BY <1>3, <1>a, <2>1
  <2> QED BY <1>2, <1>5, <1>7, <2>1, <2>2 DEF Outcome, field, new, value
<1>8. CASE Visible(field, done.clean) /\ value = No /\ field.kind = "hidden"
  <2>1. new = [done EXCEPT !.clean[field.id] = secret] BY <1>8 DEF ValidateField, value
  <2> HIDE DEF new
  <2>2. done.ok /\ clean[field.id] = secret BY <1>3, <1>a, <2>1
  <2> QED BY <1>2, <1>8, <2>2 DEF Outcome, field, new, value
<1>9. CASE Visible(field, done.clean) /\ value = No /\ field.kind # "hidden"
  <2>1. new = [done EXCEPT !.ok = done.ok /\ ~field.required] BY <1>9 DEF ValidateField, value
  <2> HIDE DEF new
  <2>2. new.ok = (done.ok /\ ~field.required) /\ clean = done.clean BY <1>b, <2>1
  <2> QED BY <1>2, <1>3, <1>9, <2>2 DEF Outcome, field, new, value
<1> HIDE DEF new
<1> QED BY <1>6, <1>7, <1>8, <1>9

\* What is accepted as a whole: of every field, what its own value makes of it.
LEMMA ValidateOutcome ==
    ASSUME NEW raw \in Values, NEW previous \in Values, NEW reachable \in BOOLEAN, NEW secret \in STRING
    PROVE  LET result == Validate(raw, previous, reachable, secret) IN
           /\ result \in Checked
           /\ result.ok => \A n \in 1 .. M : Outcome(Fields[n], raw, previous, reachable, secret, result.clean)
<1>0. M \in Nat BY FieldsType
<1>1. PICK h \in [0 .. M -> Checked] :
              /\ h[0] = [ok |-> TRUE, clean |-> NoValues] /\ h[M] = Validate(raw, previous, reachable, secret)
              /\ \A k \in 1 .. M : h[k] = ValidateField(h[k - 1], Fields[k], raw, previous, reachable, secret)
  BY ValidateInOrder
<1> DEFINE Good(k) ==
             /\ \A n \in k + 1 .. M : h[k].clean[Fields[n].id] = No
             /\ h[k].ok => \A n \in 1 .. k : Outcome(Fields[n], raw, previous, reachable, secret, h[k].clean)
           S == {k \in 0 .. M : Good(k)}
<1>2. 0 \in S
  <2>1. \A n \in 1 .. M : Fields[n].id \in FieldIds BY FieldOfId
  <2>2. h[0].clean = NoValues BY <1>1
  <2>3. \A n \in 1 .. M : h[0].clean[Fields[n].id] = No BY <2>1, <2>2 DEF NoValues
  <2> QED BY <1>0, <2>3
<1>3. ASSUME NEW k \in 0 .. M - 1, k \in S PROVE k + 1 \in S
  <2>1. k + 1 \in 1 .. M /\ k + 1 \in 0 .. M /\ (k + 1) - 1 = k /\ k \in 0 .. M BY <1>0
  <2> DEFINE l == k + 1
  <2>2. h[l] = ValidateField(h[k], Fields[l], raw, previous, reachable, secret) /\ h[k] \in Checked BY <1>1, <2>1
  <2>3. Good(k) BY <1>3
  <2>4. h[k].clean[Fields[l].id] = No BY <2>1, <2>3
  <2>a. \A id \in FieldIds : id # Fields[l].id => h[l].clean[id] = h[k].clean[id] BY <2>1, <2>2, ValidateFieldType
  <2>5. \A n \in 1 .. M : n # l => h[l].clean[Fields[n].id] = h[k].clean[Fields[n].id]
    <3> TAKE n \in 1 .. M
    <3>1. n # l => Fields[n].id \in FieldIds /\ Fields[n].id # Fields[l].id BY <2>1, FieldOfId
    <3> QED BY <2>a, <3>1
  <2>6. \A n \in l + 1 .. M : h[l].clean[Fields[n].id] = No
    <3> TAKE n \in l + 1 .. M
    <3>1. n \in 1 .. M /\ n # l /\ n \in k + 1 .. M BY <1>0
    <3> QED BY <2>3, <2>5, <3>1
  <2>7. ASSUME h[l].ok, NEW n \in 1 .. l PROVE Outcome(Fields[n], raw, previous, reachable, secret, h[l].clean)
    <3>1. h[k].ok /\ Outcome(Fields[l], raw, previous, reachable, secret, h[l].clean)
      BY <2>1, <2>2, <2>4, <2>7, ValidateFieldOutcome
    <3>2. CASE n = l BY <3>1, <3>2
    <3>3. CASE n # l
      <4>1. n \in 1 .. k /\ n \in 1 .. M /\ \A m \in 1 .. n : m \in 1 .. M /\ m # l BY <1>0, <3>3
      <4>2. Outcome(Fields[n], raw, previous, reachable, secret, h[k].clean) BY <2>3, <3>1, <4>1
      <4>3. \A m \in 1 .. n : h[k].clean[Fields[m].id] = h[l].clean[Fields[m].id] BY <2>5, <4>1
      <4> DEFINE c == h[k].clean
                 d == h[l].clean
      <4>4. Outcome(Fields[n], raw, previous, reachable, secret, c) /\ \A m \in 1 .. n : c[Fields[m].id] = d[Fields[m].id]
        BY <4>2, <4>3
      <4>5. n \in 1 .. M BY <4>1
      <4> HIDE DEF c, d
      <4>6. Outcome(Fields[n], raw, previous, reachable, secret, d) BY <4>4, <4>5, OutcomeStays
      <4> QED BY <4>6 DEF d
    <3> QED BY <3>2, <3>3
  <2>8. Good(l) BY <2>6, <2>7
  <2> HIDE DEF Good
  <2> QED BY <2>1, <2>8
<1> HIDE DEF S
<1>4. \A k \in 0 .. M : k \in S BY <1>0, <1>2, <1>3, AllTheWay
<1>5. M \in 0 .. M BY <1>0
<1> QED BY <1>1, <1>4, <1>5 DEF S
\* Values of a server fit each other: as ValuesFit says, and what has a default is not without.
Fits(values) ==
    \A n \in 1 .. M :
        LET field == Fields[n]
            value == values[field.id]
        IN  IF ~Visible(field, values) THEN value = No
            ELSE /\ field.required \/ field.kind = "hidden" \/ field.default # No => value # No
                 /\ value # No /\ field.kind = "hidden" => value \in Secrets
                 /\ value # No /\ field.kind = "select" => value \in field.options
                 /\ value # No /\ field.kind = "dynamic" => value \in Listed(field.id, DependencyParams(field, values))

\* What is accepted of a new server fits.
LEMMA NewValuesFit ==
    ASSUME NEW body \in Bodies, NEW reachable \in BOOLEAN, NEW secret \in Secrets,
           Validate(body, NoValues, reachable, secret).ok
    PROVE  Validate(body, NoValues, reachable, secret).clean \in Values /\ Fits(Validate(body, NoValues, reachable, secret).clean)
<1> DEFINE clean == Validate(body, NoValues, reachable, secret).clean
<1>1. body \in Values /\ NoValues \in Values /\ secret \in STRING /\ secret # No BY FilledAssumption DEF Values
<1>2. clean \in Values /\ \A n \in 1 .. M : Outcome(Fields[n], body, NoValues, reachable, secret, clean)
  BY <1>1, ValidateOutcome DEF Checked
<1> HIDE DEF clean
<1>3. ASSUME NEW n \in 1 .. M
      PROVE  LET field == Fields[n]
                 value == clean[field.id]
             IN  IF ~Visible(field, clean) THEN value = No
                 ELSE /\ field.required \/ field.kind = "hidden" \/ field.default # No => value # No
                      /\ value # No /\ field.kind = "hidden" => value \in Secrets
                      /\ value # No /\ field.kind = "select" => value \in field.options
                      /\ value # No /\ field.kind = "dynamic" => value \in Listed(field.id, DependencyParams(field, clean))
  <2> DEFINE field == Fields[n]
             value == Value(field, body, NoValues)
  <2>1. /\ field.id \in FieldIds /\ (field.kind = "hidden" => field.default = No)
        /\ NoValues[field.id] = No
    BY FieldsType, FieldOfId DEF NoValues
  <2>2. Outcome(field, body, NoValues, reachable, secret, clean) BY <1>2
  <2>3. (value = No => field.default = No) /\ (field.kind = "hidden" => value = No) BY <2>1 DEF Value
  <2>4. value # No /\ field.kind = "select" => (Accepted(field, value, clean, NoValues, reachable) => value \in field.options)
    BY DEF Accepted
  <2>5. value # No /\ field.kind = "dynamic" => (Accepted(field, value, clean, NoValues, reachable) =>
            value \in Listed(field.id, DependencyParams(field, clean)))
    BY <2>1 DEF Accepted
  <2> HIDE DEF field, value
  <2>6. IF ~Visible(field, clean) THEN clean[field.id] = No
        ELSE IF value # No THEN clean[field.id] = value /\ Accepted(field, value, clean, NoValues, reachable)
        ELSE IF field.kind = "hidden" THEN clean[field.id] = secret
        ELSE clean[field.id] = No /\ ~field.required
    BY <2>2 DEF Outcome, value
  <2> QED BY <1>1, <2>3, <2>4, <2>5, <2>6 DEF field
<1> QED BY <1>2, <1>3 DEF Fits, clean

\* An edit changes what it fills in, and what it hides or reveals.
AskedOnly(base, values, edit) ==
    \A n \in 1 .. M :
        LET id == Fields[n].id
        IN  values[id] # base[id] /\ (Visible(Fields[n], values) <=> Visible(Fields[n], base)) => edit[id] # No

\* What is accepted of an edit fits, and is what was asked for.
LEMMA EditedValuesFit ==
    ASSUME NEW old \in Values, Fits(old), NEW edit \in Edits, NEW reachable \in BOOLEAN, NEW secret \in Secrets,
           Validate(Merged(old, edit), old, reachable, secret).ok,
           Locked(old, Validate(Merged(old, edit), old, reachable, secret).clean) = {}
    PROVE  /\ Validate(Merged(old, edit), old, reachable, secret).clean \in Values
           /\ Fits(Validate(Merged(old, edit), old, reachable, secret).clean)
           /\ AskedOnly(old, Validate(Merged(old, edit), old, reachable, secret).clean, edit)
<1> DEFINE raw == Merged(old, edit)
           clean == Validate(raw, old, reachable, secret).clean
<1>0. edit \in Values /\ secret \in STRING /\ secret # No BY FilledAssumption DEF Values
<1>1. raw \in Values /\ \A id \in FieldIds : raw[id] = IF edit[id] # No THEN edit[id] ELSE old[id]
  BY <1>0 DEF Values, Merged
<1> HIDE DEF raw
<1>2. clean \in Values /\ \A n \in 1 .. M : Outcome(Fields[n], raw, old, reachable, secret, clean)
  BY <1>0, <1>1, ValidateOutcome DEF Checked, raw
<1>3. \A id \in FieldIds : old[id] # clean[id] => Field(id).editable BY DEF Locked, raw
<1> HIDE DEF clean
<1>4. ASSUME NEW n \in 1 .. M
      PROVE  LET field == Fields[n]
                 new == clean[field.id]
             IN  /\ IF ~Visible(field, clean) THEN new = No
                    ELSE /\ field.required \/ field.kind = "hidden" \/ field.default # No => new # No
                         /\ new # No /\ field.kind = "hidden" => new \in Secrets
                         /\ new # No /\ field.kind = "select" => new \in field.options
                         /\ new # No /\ field.kind = "dynamic" => new \in Listed(field.id, DependencyParams(field, clean))
                 /\ new # old[field.id] /\ (Visible(field, clean) <=> Visible(field, old)) => edit[field.id] # No
  <2> DEFINE field == Fields[n]
             value == Value(field, raw, old)
  <2>1. field.id \in FieldIds /\ (field.kind = "hidden" => field.default = No) BY FieldsType, FieldOfId
  <2>2. Outcome(field, raw, old, reachable, secret, clean) BY <1>2
  <2>3. /\ value = No => field.default = No
        /\ field.kind = "hidden" => value = old[field.id]
        /\ field.kind # "hidden" => value = IF raw[field.id] = No THEN field.default ELSE raw[field.id]
    BY <2>1 DEF Value
  <2>4. value # No /\ field.kind = "select" => (Accepted(field, value, clean, old, reachable) => value \in field.options)
    BY DEF Accepted
  <2>5. field.kind = "dynamic" => (Accepted(field, value, clean, old, reachable) =>
            old[field.id] = value \/ value \in Listed(field.id, DependencyParams(field, clean)))
    BY DEF Accepted
  <2>6. DependencyParams(field, clean) = DependencyParams(field, old)
    <3>1. CASE field.source = No BY <3>1 DEF DependencyParams
    <3>2. CASE field.source # No
      <4>1. PICK m \in 1 .. n - 1 : Fields[m].id = field.source BY <3>2, DependsOnEarlier
      <4>2. m \in 1 .. M /\ n \in DOMAIN Fields /\ m \in DOMAIN Fields BY <4>1, FieldsType
      <4>3. ~Fields[m].editable BY <4>1, <4>2, SourcesAssumption
      <4>4. field.source \in FieldIds /\ Field(field.source) = Fields[m] BY <4>1, <4>2, FieldOfId
      <4>5. old[field.source] = clean[field.source] BY <1>3, <4>3, <4>4
      <4> QED BY <3>2, <4>5 DEF DependencyParams
    <3> QED BY <3>1, <3>2
  <2>7. IF ~Visible(field, old) THEN old[field.id] = No
        ELSE /\ field.required \/ field.kind = "hidden" \/ field.default # No => old[field.id] # No
             /\ old[field.id] # No /\ field.kind = "hidden" => old[field.id] \in Secrets
             /\ old[field.id] # No /\ field.kind = "dynamic" => old[field.id] \in Listed(field.id, DependencyParams(field, old))
    BY DEF Fits
  <2>8. raw[field.id] = IF edit[field.id] # No THEN edit[field.id] ELSE old[field.id] BY <1>1, <2>1
  <2> HIDE DEF field, value
  <2>9. IF ~Visible(field, clean) THEN clean[field.id] = No
        ELSE IF value # No THEN clean[field.id] = value /\ Accepted(field, value, clean, old, reachable)
        ELSE IF field.kind = "hidden" THEN clean[field.id] = secret
        ELSE clean[field.id] = No /\ ~field.required
    BY <2>2 DEF Outcome, value
  <2>10. IF ~Visible(field, clean) THEN clean[field.id] = No
         ELSE /\ field.required \/ field.kind = "hidden" \/ field.default # No => clean[field.id] # No
              /\ clean[field.id] # No /\ field.kind = "hidden" => clean[field.id] \in Secrets
              /\ clean[field.id] # No /\ field.kind = "select" => clean[field.id] \in field.options
              /\ clean[field.id] # No /\ field.kind = "dynamic" =>
                    clean[field.id] \in Listed(field.id, DependencyParams(field, clean))
    BY <1>0, <2>3, <2>4, <2>5, <2>6, <2>7, <2>9
  <2>11. clean[field.id] # old[field.id] /\ (Visible(field, clean) <=> Visible(field, old)) => edit[field.id] # No
    BY <2>3, <2>7, <2>8, <2>9
  <2> QED BY <2>10, <2>11 DEF field
<1>5. Fits(clean) BY <1>4 DEF Fits
<1>6. AskedOnly(old, clean, edit) BY <1>4 DEF AskedOnly
<1> QED BY <1>2, <1>5, <1>6 DEF clean, raw
----------------------------------------------------------------------------
(* The rows and the requests. *)

Taking == SUBSET (Int \X {"tcp", "udp"})
Row == [state : {"new", "live", "gone"}, values : Values, ports : [1 .. N -> 0 .. MaxPort - 1]]
Request == [pc : {"idle", "look", "insert", "commit"}, id : Ids \cup {No}, base : Values, values : Values,
            edit : Values, taken : Taking]

\* What a request brings along was accepted, and an edit is what was asked for.
GoodRequest(r) ==
    /\ r.pc # "idle" => Fits(r.values)
    /\ r.pc = "commit" => AskedOnly(r.base, r.values, r.edit)

SettingsInv ==
    /\ servers \in [Ids -> Row] /\ req \in [Reqs -> Request]
    /\ outside \subseteq Outsiders /\ asked \in 0 .. MaxAsked /\ missed \in BOOLEAN /\ crossed \in BOOLEAN
    /\ \A i \in Live : Fits(servers[i].values)
    /\ \A a \in Reqs : GoodRequest(req[a])

LEMMA InvIsRowsFit == ASSUME SettingsInv PROVE RowsFit
<1>0. DOMAIN Ports = 1 .. N BY PortsType
<1>1. servers \in [Ids -> [state : {"new", "live", "gone"}, values : [FieldIds -> STRING],
                           ports : [DOMAIN Ports -> 0 .. MaxPort - 1]]]
  BY <1>0 DEF SettingsInv, Row, Values
<1>2. \A a \in Reqs : /\ req[a].pc \in {"idle", "look", "insert", "commit"} /\ req[a].id \in Ids \cup {No}
                      /\ {req[a].base, req[a].values, req[a].edit} \subseteq [FieldIds -> STRING]
  BY DEF SettingsInv, Request, Values
<1>3. TypeOK BY <1>1, <1>2 DEF TypeOK, SettingsInv
<1>4. ASSUME NEW i \in Live, NEW id \in FieldIds
      PROVE  LET value == servers[i].values[id]
                 field == Field(id)
             IN  IF ~Visible(field, servers[i].values) THEN value = No
                 ELSE /\ field.required \/ field.kind = "hidden" => value # No
                      /\ value # No /\ field.kind = "hidden" => value \in Secrets
                      /\ value # No /\ field.kind = "select" => value \in field.options
                      /\ value # No /\ field.kind = "dynamic" => value \in Listed(id, DependencyParams(field, servers[i].values))
  <2>1. PICK n \in 1 .. M : id = Fields[n].id /\ Field(id) = Fields[n] BY FieldOfId
  <2>2. Fits(servers[i].values) BY DEF SettingsInv
  <2> QED BY <2>1, <2>2 DEF Fits
<1> QED BY <1>3, <1>4 DEF RowsFit, ValuesFit

\* A request that goes on with what was accepted, while the rows stay or fit as well.
LEMMA GoesOn ==
    ASSUME SettingsInv, NEW a \in Reqs, NEW r \in Request, GoodRequest(r), req' = [req EXCEPT ![a] = r],
           servers' \in [Ids -> Row], \A i \in Live' : Fits(servers'[i].values),
           outside' = outside, asked' \in 0 .. MaxAsked, missed' \in BOOLEAN, crossed' \in BOOLEAN
    PROVE  SettingsInv'
<1>1. req' \in [Reqs -> Request] /\ \A b \in Reqs : GoodRequest(req'[b]) BY DEF SettingsInv
<1> QED BY <1>1 DEF SettingsInv

LEMMA IdleIsGood == Idle \in Request /\ GoodRequest(Idle) /\ Idle.pc = "idle"
<1>1. NoValues \in Values BY FilledAssumption DEF Values
<1> QED BY <1>1 DEF Idle, Request, GoodRequest, Taking

LEMMA NewRow == NoServer \in Row /\ NoServer.state = "new"
<1>1. NoValues \in Values BY FilledAssumption DEF Values
<1>2. 0 \in 0 .. MaxPort - 1 /\ DOMAIN Ports = 1 .. N BY BoundsAssumption, PortsType
<1> QED BY <1>1, <1>2 DEF NoServer, Row

\* Where the ports of a new server are: not in what was taken, apart, near their defaults.
Placed(ports, taken) ==
    \A n \in 1 .. N :
        /\ <<ports[n], Ports[n].protocol>> \notin taken
        /\ \A m \in 1 .. N : GroupsApart /\ ports[m] = ports[n] /\ Ports[m].protocol = Ports[n].protocol => m = n
        /\ RootOf[n] = n => NearDefault(ports, n, taken)

\* What the servers have is a set of ports.
LEMMA TakenType == ASSUME SettingsInv PROVE Taken \in Taking
<1>1. DOMAIN Ports = 1 .. N /\ \A n \in 1 .. N : Ports[n].protocol \in {"tcp", "udp"} BY PortsType
<1>2. \A i \in Ids, n \in 1 .. N : servers[i].ports[n] \in Int
  <2> TAKE i \in Ids, n \in 1 .. N
  <2>1. servers[i].ports \in [1 .. N -> 0 .. MaxPort - 1] BY DEF SettingsInv, Row
  <2>2. servers[i].ports[n] \in 0 .. MaxPort - 1 BY <2>1
  <2> QED BY <2>2
<1> QED BY <1>1, <1>2 DEF Taken, Taking, Given, Live

\* The step that creates a server.
LEMMA Inserted ==
    ASSUME SettingsInv, NEW a \in Reqs, Insert(a), ~UNCHANGED <<servers, missed>>
    PROVE  \E i \in Ids, ports \in [1 .. N -> 1 .. MaxPort - 1] :
              /\ servers[i].state = "new"
              /\ servers' = [servers EXCEPT ![i] = [state |-> "live", values |-> req[a].values, ports |-> ports]]
              /\ missed' = (missed \/ ~(Taken \subseteq req[a].taken))
              /\ Placed(ports, req[a].taken \cup outside)
<1> DEFINE taken == req[a].taken \cup outside
           i == CHOOSE j \in Ids : servers[j].state = "new"
           result == Allocate(taken)
           ports == result.ports
<1>0. N \in Nat /\ DOMAIN Ports = 1 .. N BY PortsType
<1>1. taken \in SUBSET (Int \X {"tcp", "udp"}) BY PortsAssumption DEF SettingsInv, Request, Taking
<1>2. /\ result.ok /\ \E j \in Ids : servers[j].state = "new"
      /\ servers' = [servers EXCEPT ![i] = [state |-> "live", values |-> req[a].values, ports |-> ports]]
      /\ missed' = (missed \/ ~(Taken \subseteq req[a].taken))
  BY Zenon DEF Insert
<1> HIDE DEF taken
<1>3. result \in Done /\ WellGiven(result, N, taken) BY <1>1, <1>2, AllocateWell
<1>4. \A n \in 1 .. N : RootOf[n] <= N
  <2> TAKE n \in 1 .. N
  <2>1. RootOf[n] \in 1 .. n BY RootIsLeader
  <2> QED BY <1>0, <2>1
<1> HIDE DEF result
<1>5. ports \in [1 .. N -> 1 .. MaxPort - 1]
  <2>1. ports \in [1 .. N -> Int] BY <1>3 DEF Done
  <2>2. \A n \in 1 .. N : ports[n] \in 1 .. MaxPort - 1 BY <1>3, <1>4 DEF WellGiven
  <2> QED BY <2>1, <2>2
<1>6. Placed(ports, taken) BY <1>3, <1>4 DEF WellGiven, Placed
<1>7. i \in Ids /\ servers[i].state = "new" BY <1>2
<1> HIDE DEF i, ports
<1> QED BY <1>2, <1>5, <1>6, <1>7 DEF taken

LEMMA SettingsStep == ASSUME SettingsInv, [Next]_vars PROVE SettingsInv'
<1>0. asked < MaxAsked => asked + 1 \in 0 .. MaxAsked BY BoundsAssumption DEF SettingsInv
<1>1. ASSUME NEW a \in Reqs, AskCreate(a) PROVE SettingsInv'
  <2>1. PICK body \in Bodies, reachable \in BOOLEAN, secret \in Secrets :
            /\ Validate(body, NoValues, reachable, secret).ok
            /\ req' = [req EXCEPT ![a] = [Idle EXCEPT !.pc = "look",
                                                   !.values = Validate(body, NoValues, reachable, secret).clean]]
    BY <1>1, Zenon DEF AskCreate
  <2> DEFINE values == Validate(body, NoValues, reachable, secret).clean
             r == [Idle EXCEPT !.pc = "look", !.values = values]
  <2>2. values \in Values /\ Fits(values) BY <2>1, NewValuesFit
  <2> HIDE DEF values
  <2>3. r \in Request /\ r.pc = "look" /\ r.values = values BY <2>2, IdleIsGood DEF Request
  <2>4. req' = [req EXCEPT ![a] = r] BY <2>1 DEF values
  <2> HIDE DEF r
  <2>5. GoodRequest(r) BY <2>2, <2>3 DEF GoodRequest
  <2> QED BY <1>0, <1>1, <2>3, <2>4, <2>5, GoesOn DEF AskCreate, SettingsInv, Live
<1>2. ASSUME NEW a \in Reqs, Look(a) PROVE SettingsInv'
  <2> DEFINE r == [req[a] EXCEPT !.pc = "insert", !.taken = Taken]
  <2>1. r \in Request /\ r.pc = "insert" /\ r.values = req[a].values BY TakenType DEF SettingsInv, Request
  <2>2. GoodRequest(r) BY <1>2, <2>1 DEF GoodRequest, SettingsInv, Look
  <2>3. req' = [req EXCEPT ![a] = r] BY <1>2 DEF Look, SettingsInv
  <2> HIDE DEF r
  <2> QED BY <1>2, <2>1, <2>2, <2>3, GoesOn DEF Look, SettingsInv, Live
<1>3. ASSUME NEW a \in Reqs, Insert(a) PROVE SettingsInv'
  <2>1. req' = [req EXCEPT ![a] = Idle] /\ UNCHANGED <<outside, asked, crossed>> BY <1>3 DEF Insert, Answer
  <2>2. CASE UNCHANGED <<servers, missed>> BY <2>1, <2>2, IdleIsGood, GoesOn DEF SettingsInv, Live
  <2>3. CASE ~UNCHANGED <<servers, missed>>
    <3>1. PICK i \in Ids, ports \in [1 .. N -> 1 .. MaxPort - 1] :
              /\ servers[i].state = "new"
              /\ servers' = [servers EXCEPT ![i] = [state |-> "live", values |-> req[a].values, ports |-> ports]]
              /\ missed' = (missed \/ ~(Taken \subseteq req[a].taken))
      BY <1>3, <2>3, Inserted
    <3> DEFINE row == [state |-> "live", values |-> req[a].values, ports |-> ports]
    <3>2. ports \in [1 .. N -> 0 .. MaxPort - 1] BY BoundsAssumption
    <3>3. row \in Row /\ row.values = req[a].values BY <3>2 DEF SettingsInv, Request, Row
    <3>4. Fits(row.values) BY <1>3, <3>3 DEF SettingsInv, GoodRequest, Insert
    <3>5. servers' = [servers EXCEPT ![i] = row] BY <3>1
    <3> HIDE DEF row
    <3>6. servers' \in [Ids -> Row] /\ \A j \in Live' : Fits(servers'[j].values)
      BY <3>3, <3>4, <3>5 DEF SettingsInv, Live
    <3>7. missed' \in BOOLEAN BY <3>1
    <3> QED BY <2>1, <3>6, <3>7, IdleIsGood, GoesOn DEF SettingsInv
  <2> QED BY <2>2, <2>3
<1>4. ASSUME NEW a \in Reqs, AskUpdate(a) PROVE SettingsInv'
  <2>1. PICK i \in Live, edit \in Edits, reachable \in BOOLEAN, secret \in Secrets :
          LET old == servers[i].values
              result == Validate(Merged(old, edit), old, reachable, secret)
          IN
          /\ \A id \in FieldIds : edit[id] # No => Field(id).editable
          /\ result.ok /\ Locked(old, result.clean) = {}
          /\ req' = [req EXCEPT ![a] = [Idle EXCEPT !.pc = "commit", !.id = i, !.base = old,
                                                    !.values = result.clean, !.edit = edit]]
    BY <1>4, Zenon DEF AskUpdate
  <2> DEFINE old == servers[i].values
             values == Validate(Merged(old, edit), old, reachable, secret).clean
             r == [Idle EXCEPT !.pc = "commit", !.id = i, !.base = old, !.values = values, !.edit = edit]
  <2>2. i \in Ids /\ old \in Values /\ Fits(old) BY DEF SettingsInv, Live, Row
  <2>3. req' = [req EXCEPT ![a] = r] /\ edit \in Values BY <2>1, FilledAssumption DEF Values
  <2>4. Validate(Merged(old, edit), old, reachable, secret).ok /\ Locked(old, values) = {} BY <2>1
  <2> HIDE DEF old
  <2>5. values \in Values /\ Fits(values) /\ AskedOnly(old, values, edit) BY <2>2, <2>4, EditedValuesFit
  <2> HIDE DEF values
  <2>6. r \in Request /\ r.pc = "commit" /\ r.base = old /\ r.values = values /\ r.edit = edit
    BY <2>2, <2>3, <2>5, IdleIsGood DEF Request
  <2> HIDE DEF r
  <2>7. GoodRequest(r) BY <2>5, <2>6 DEF GoodRequest
  <2>8. UNCHANGED <<servers, outside, missed, crossed>> /\ asked' \in 0 .. MaxAsked BY <1>0, <1>4 DEF AskUpdate
  <2> QED BY <2>3, <2>6, <2>7, <2>8, GoesOn DEF SettingsInv, Live
<1>5. ASSUME NEW a \in Reqs, Update(a) PROVE SettingsInv'
  <2>1. req' = [req EXCEPT ![a] = Idle] /\ UNCHANGED <<outside, asked, missed>> BY <1>5 DEF Update, Answer
  <2>2. CASE UNCHANGED <<servers, crossed>> BY <2>1, <2>2, IdleIsGood, GoesOn DEF SettingsInv, Live
  <2>3. CASE ~UNCHANGED <<servers, crossed>>
    <3> DEFINE i == req[a].id
               row == [servers[i] EXCEPT !.values = req[a].values]
    <3>1. /\ i \in Live /\ servers' = [servers EXCEPT ![i].values = req[a].values]
          /\ crossed' = (crossed \/ servers[i].values # req[a].base)
      BY <1>5, <2>3, Zenon DEF Update
    <3>2. i \in Ids /\ crossed' \in BOOLEAN BY <3>1 DEF Live
    <3>3. row \in Row /\ row.values = req[a].values BY <3>2 DEF SettingsInv, Request, Row
    <3>4. Fits(row.values) BY <1>5, <3>3 DEF SettingsInv, GoodRequest, Update
    <3>5. servers' = [servers EXCEPT ![i] = row] BY <3>1 DEF SettingsInv
    <3> HIDE DEF row, i
    <3>6. servers' \in [Ids -> Row] /\ \A j \in Live' : Fits(servers'[j].values)
      BY <3>2, <3>3, <3>4, <3>5 DEF SettingsInv, Live
    <3> QED BY <2>1, <3>2, <3>6, IdleIsGood, GoesOn DEF SettingsInv
  <2> QED BY <2>2, <2>3
<1>6. CASE Delete
  <2>1. PICK i \in Live : servers' = [servers EXCEPT ![i] = [NoServer EXCEPT !.state = "gone"]]
    BY <1>6, Zenon DEF Delete
  <2> DEFINE row == [NoServer EXCEPT !.state = "gone"]
  <2>2. row \in Row /\ row.state = "gone" BY NewRow DEF Row
  <2>3. servers' = [servers EXCEPT ![i] = row] /\ i \in Ids BY <2>1 DEF Live
  <2> HIDE DEF row
  <2>4. servers' \in [Ids -> Row] /\ \A j \in Live' : Fits(servers'[j].values)
    BY <2>2, <2>3 DEF SettingsInv, Live
  <2>5. UNCHANGED <<outside, req, missed, crossed>> /\ asked' \in 0 .. MaxAsked BY <1>0, <1>6 DEF Delete
  <2> QED BY <2>4, <2>5 DEF SettingsInv
<1>7. CASE UNCHANGED vars BY <1>7 DEF vars, SettingsInv, Live
<1> QED BY <1>1, <1>2, <1>3, <1>4, <1>5, <1>6, <1>7 DEF Next

LEMMA SettingsInit == ASSUME Init PROVE SettingsInv
<1>1. servers \in [Ids -> Row] /\ \A i \in Ids : servers[i].state = "new" BY NewRow DEF Init
<1>2. req \in [Reqs -> Request] /\ \A a \in Reqs : GoodRequest(req[a]) BY IdleIsGood DEF Init
<1>3. asked \in 0 .. MaxAsked BY BoundsAssumption DEF Init
<1> QED BY <1>1, <1>2, <1>3 DEF Init, SettingsInv, Live
LEMMA SettingsAlways == Spec => []SettingsInv
<1>1. Init => SettingsInv BY SettingsInit
<1>2. SettingsInv /\ [Next]_vars => SettingsInv' BY SettingsStep
<1> QED BY <1>1, <1>2, PTL DEF Spec

\* Rows have their types, ports below the last one among them, and values that fit.
THEOREM ValuesOfServersFit == Spec => []RowsFit
<1>1. SettingsInv => RowsFit BY InvIsRowsFit
<1> QED BY <1>1, SettingsAlways, PTL

LEMMA ApartStays ==
    ASSUME GroupsApart, SettingsInv, PortsUnlessMissed, [Next]_vars
    PROVE  PortsUnlessMissed'
<1>0. DOMAIN Ports = 1 .. N BY PortsType
<1> SUFFICES ASSUME ~missed' PROVE PortsApart' BY DEF PortsUnlessMissed
<1>1. ASSUME NEW a \in Reqs, Insert(a) PROVE PortsApart'
  <2>1. CASE UNCHANGED <<servers, missed>> BY <1>1, <2>1 DEF Insert, PortsUnlessMissed, PortsApart, Live
  <2>2. CASE ~UNCHANGED <<servers, missed>>
    <3>1. PICK i \in Ids, ports \in [1 .. N -> 1 .. MaxPort - 1] :
              /\ servers[i].state = "new"
              /\ servers' = [servers EXCEPT ![i] = [state |-> "live", values |-> req[a].values, ports |-> ports]]
              /\ missed' = (missed \/ ~(Taken \subseteq req[a].taken))
              /\ Placed(ports, req[a].taken \cup outside)
      BY <1>1, <2>2, Inserted
    <3>2. PortsApart /\ Taken \subseteq req[a].taken BY <3>1 DEF PortsUnlessMissed
    <3>3. /\ servers'[i].ports = ports /\ \A j \in Ids : j # i => servers'[j] = servers[j]
          /\ \A j \in Live' : j = i \/ j \in Live
      BY <3>1 DEF SettingsInv, Live
    <3>4. \A j \in Live, m \in 1 .. N : <<servers[j].ports[m], Ports[m].protocol>> \in req[a].taken
      BY <1>0, <3>2 DEF Taken, Given
    <3>5. \A n \in 1 .. N : /\ <<ports[n], Ports[n].protocol>> \notin req[a].taken
                            /\ <<ports[n], Ports[n].protocol>> \notin outside
                            /\ \A m \in 1 .. N : ports[m] = ports[n] /\ Ports[m].protocol = Ports[n].protocol => m = n
      BY <3>1 DEF Placed
    <3>6. outside' = outside /\ i \notin Live BY <1>1, <3>1 DEF Insert, Live
    <3>7. ASSUME NEW j \in Live', NEW k \in Live', NEW n \in 1 .. N, NEW m \in 1 .. N
          PROVE  /\ <<servers'[j].ports[n], Ports[n].protocol>> \notin outside'
                 /\ servers'[j].ports[n] = servers'[k].ports[m] /\ Ports[n].protocol = Ports[m].protocol => j = k /\ n = m
      <4>1. j \in Ids /\ k \in Ids BY DEF Live
      <4>2. CASE j = i /\ k = i BY <3>3, <3>5, <3>6, <4>2
      <4>3. CASE j = i /\ k # i
        <5>1. k \in Live /\ servers'[k] = servers[k] BY <3>3, <4>1, <4>3
        <5> QED BY <3>3, <3>4, <3>5, <3>6, <4>3, <5>1
      <4>4. CASE j # i /\ k = i
        <5>1. j \in Live /\ servers'[j] = servers[j] BY <3>3, <4>1, <4>4
        <5>2. <<servers[j].ports[n], Ports[n].protocol>> \notin outside BY <1>0, <3>2, <5>1 DEF PortsApart
        <5> QED BY <3>3, <3>4, <3>5, <3>6, <4>4, <5>1, <5>2
      <4>5. CASE j # i /\ k # i
        <5>1. j \in Live /\ servers'[j] = servers[j] /\ k \in Live /\ servers'[k] = servers[k] BY <3>3, <4>1, <4>5
        <5> QED BY <1>0, <3>2, <3>6, <5>1 DEF PortsApart
      <4> QED BY <4>2, <4>3, <4>4, <4>5
    <3> QED BY <1>0, <3>7 DEF PortsApart
  <2> QED BY <2>1, <2>2
<1>2. ASSUME outside' = outside, missed' = missed,
             \A i \in Live' : i \in Live /\ servers'[i].ports = servers[i].ports
      PROVE  PortsApart'
  <2>1. PortsApart BY <1>2 DEF PortsUnlessMissed
  <2> QED BY <1>2, <2>1 DEF PortsApart
<1>3. ASSUME NEW a \in Reqs, Update(a) PROVE PortsApart'
  <2>1. UNCHANGED servers \/ (req[a].id \in Live /\ servers' = [servers EXCEPT ![req[a].id].values = req[a].values])
    BY <1>3, Zenon DEF Update
  <2>2. \A i \in Live' : i \in Live /\ servers'[i].ports = servers[i].ports
    <3>1. \A i \in Ids : servers[i] \in Row BY DEF SettingsInv
    <3>2. \A i \in Ids : servers'[i].state = servers[i].state /\ servers'[i].ports = servers[i].ports
      BY <2>1, <3>1 DEF Live, SettingsInv, Row
    <3> QED BY <3>2 DEF Live
  <2> QED BY <1>2, <1>3, <2>2 DEF Update
<1>4. CASE Delete
  <2>1. PICK i \in Live : servers' = [servers EXCEPT ![i] = [NoServer EXCEPT !.state = "gone"]]
    BY <1>4, Zenon DEF Delete
  <2>2. [NoServer EXCEPT !.state = "gone"].state = "gone" BY DEF NoServer
  <2>3. \A j \in Live' : j \in Live /\ servers'[j].ports = servers[j].ports BY <2>1, <2>2 DEF Live, SettingsInv
  <2> QED BY <1>2, <1>4, <2>3 DEF Delete
<1>5. ASSUME UNCHANGED <<servers, outside, missed>> PROVE PortsApart' BY <1>2, <1>5 DEF Live
<1> QED BY <1>1, <1>3, <1>4, <1>5 DEF Next, AskCreate, Look, AskUpdate, vars

\* No two ports of the panel are the same, and none is another program's, but for two servers
\* created at once: of every template whose groups have no port twice.
THEOREM ServersHaveTheirOwnPorts == ASSUME GroupsApart PROVE Spec => []PortsUnlessMissed
<1>1. Init => PortsUnlessMissed
  <2> SUFFICES ASSUME Init PROVE PortsApart BY DEF PortsUnlessMissed
  <2>1. Live = {} BY NewRow DEF Init, Live
  <2> QED BY <2>1 DEF PortsApart
<1>2. SettingsInv /\ PortsUnlessMissed /\ [Next]_vars => PortsUnlessMissed' BY ApartStays
<1> QED BY <1>1, <1>2, SettingsAlways, PTL DEF Spec

\* A server that comes about does so by a request that saw what was taken.
LEMMA ComesByInsert ==
    ASSUME SettingsInv, Next, NEW i \in Ids, servers[i].state = "new", servers'[i].state = "live"
    PROVE  \E a \in Reqs : Insert(a) /\ ~UNCHANGED <<servers, missed>>
<1>1. servers' # servers OBVIOUS
<1>2. ASSUME NEW a \in Reqs, Update(a) PROVE FALSE
  <2>1. req[a].id \in Live /\ servers' = [servers EXCEPT ![req[a].id].values = req[a].values]
    BY <1>1, <1>2, Zenon DEF Update
  <2>2. req[a].id # i BY <2>1 DEF Live
  <2> QED BY <2>1, <2>2 DEF SettingsInv
<1>3. CASE Delete
  <2>1. PICK j \in Live : servers' = [servers EXCEPT ![j] = [NoServer EXCEPT !.state = "gone"]]
    BY <1>3, Zenon DEF Delete
  <2>2. j # i BY DEF Live
  <2> QED BY <2>1, <2>2 DEF SettingsInv
<1> QED BY <1>1, <1>2, <1>3 DEF Next, AskCreate, Look, AskUpdate

\* A new server gets the first ports that are free, in the order of the template, each group
\* as a whole: a lower base would have met another port or the end of them.
THEOREM NewServersGetTheFirstFreePorts == Spec => FirstFree
<1> DEFINE First == \A i \in Ids : servers[i].state = "new" /\ servers'[i].state = "live" =>
        \E a \in Reqs :
          /\ req[a].pc = "insert" /\ req'[a].pc = "idle"
          /\ \A n \in DOMAIN Ports :
               LET leader == RootOf[n]
                   offset == servers'[i].ports[leader] - Ports[leader].default
                   before == {<<servers'[i].ports[m], Ports[m].protocol>> : m \in {k \in DOMAIN Ports : RootOf[k] < leader}}
               IN  /\ servers'[i].ports[n] = Ports[n].default + offset
                   /\ offset \in 0 .. SearchLimit - 1
                   /\ \A less \in 0 .. offset - 1 : \E m \in Group(leader) :
                        \/ Ports[m].default + less >= MaxPort
                        \/ <<Ports[m].default + less, Ports[m].protocol>> \in req[a].taken \cup outside \cup before
<1>1. SettingsInv /\ [Next]_vars => [First]_vars
  <2> SUFFICES ASSUME SettingsInv, Next, NEW i \in Ids, servers[i].state = "new", servers'[i].state = "live"
               PROVE  \E a \in Reqs :
          /\ req[a].pc = "insert" /\ req'[a].pc = "idle"
          /\ \A n \in DOMAIN Ports :
               LET leader == RootOf[n]
                   offset == servers'[i].ports[leader] - Ports[leader].default
                   before == {<<servers'[i].ports[m], Ports[m].protocol>> : m \in {k \in DOMAIN Ports : RootOf[k] < leader}}
               IN  /\ servers'[i].ports[n] = Ports[n].default + offset
                   /\ offset \in 0 .. SearchLimit - 1
                   /\ \A less \in 0 .. offset - 1 : \E m \in Group(leader) :
                        \/ Ports[m].default + less >= MaxPort
                        \/ <<Ports[m].default + less, Ports[m].protocol>> \in req[a].taken \cup outside \cup before
    BY Zenon
  <2>0. N \in Nat /\ DOMAIN Ports = 1 .. N BY PortsType
  <2>1. PICK a \in Reqs : Insert(a) /\ ~UNCHANGED <<servers, missed>> BY ComesByInsert
  <2>2. req[a].pc = "insert" /\ req'[a].pc = "idle" BY <2>1, IdleIsGood DEF Insert, Answer, SettingsInv
  <2>3. PICK j \in Ids, ports \in [1 .. N -> 1 .. MaxPort - 1] :
              /\ servers[j].state = "new"
              /\ servers' = [servers EXCEPT ![j] = [state |-> "live", values |-> req[a].values, ports |-> ports]]
              /\ Placed(ports, req[a].taken \cup outside)
    BY <2>1, Inserted
  <2>4. j = i BY <2>3 DEF SettingsInv
  <2>5. servers'[i].ports = ports BY <2>3, <2>4 DEF SettingsInv
  <2>6. ASSUME NEW n \in DOMAIN Ports
        PROVE  LET leader == RootOf[n]
                   offset == ports[leader] - Ports[leader].default
                   before == {<<ports[m], Ports[m].protocol>> : m \in {k \in DOMAIN Ports : RootOf[k] < leader}}
               IN  /\ ports[n] = Ports[n].default + offset
                   /\ offset \in 0 .. SearchLimit - 1
                   /\ \A less \in 0 .. offset - 1 : \E m \in Group(leader) :
                        \/ Ports[m].default + less >= MaxPort
                        \/ <<Ports[m].default + less, Ports[m].protocol>> \in req[a].taken \cup outside \cup before
    <3> DEFINE leader == RootOf[n]
    <3>1. leader \in 1 .. n /\ RootOf[leader] = leader BY <2>0, RootIsLeader
    <3>2. leader \in 1 .. N /\ n \in Group(leader) BY <2>0, <3>1 DEF Group
    <3> HIDE DEF leader
    <3>3. NearDefault(ports, leader, req[a].taken \cup outside) BY <2>3, <3>1, <3>2 DEF Placed
    <3>4. GivenUpTo(ports, leader) = {<<ports[m], Ports[m].protocol>> : m \in {k \in DOMAIN Ports : RootOf[k] < leader}}
      BY <2>0 DEF GivenUpTo
    <3> QED BY <3>2, <3>3, <3>4 DEF NearDefault, leader
  <2> QED BY <2>2, <2>5, <2>6
<1> QED BY <1>1, SettingsAlways, PTL DEF Spec, FirstFree

\* The rest keep their values, unless two edits of a server met.
THEOREM OthersKeepTheirValues == Spec => RestUnlessCrossed
<1>1. SettingsInv /\ [Next]_vars => [crossed' \/ \A a \in Reqs : KeepsOthers(a)]_vars
  <2> SUFFICES ASSUME SettingsInv, Next, ~crossed', NEW a \in Reqs, req[a].pc = "commit", req'[a].pc = "idle",
                      req[a].id \in Live \cap Live', NEW id \in FieldIds,
                      servers'[req[a].id].values[id] # servers[req[a].id].values[id],
                      Visible(Field(id), servers'[req[a].id].values) = Visible(Field(id), servers[req[a].id].values)
               PROVE  req[a].edit[id] # No
    BY DEF KeepsOthers
  <2> DEFINE i == req[a].id
  <2>1. \A b \in Reqs : b # a => UNCHANGED req[a] \/ ~(Insert(b) \/ Update(b) \/ AskCreate(b) \/ Look(b) \/ AskUpdate(b))
    BY DEF SettingsInv, Insert, Update, AskCreate, Look, AskUpdate, Answer
  <2>2. Update(a)
    <3>1. ~Delete BY DEF Delete
    <3>2. PICK b \in Reqs : AskCreate(b) \/ Look(b) \/ Insert(b) \/ AskUpdate(b) \/ Update(b) BY <3>1 DEF Next
    <3>3. b = a BY <2>1, <3>2
    <3> QED BY <3>2, <3>3 DEF AskCreate, Look, Insert, AskUpdate
  <2>3. i \in Ids /\ servers[i] \in Row BY DEF Live, SettingsInv
  <2>4. servers' = [servers EXCEPT ![i].values = req[a].values] /\ servers[i].values = req[a].base
    BY <2>2, Zenon DEF Update
  <2>5. servers'[i].values = req[a].values BY <2>3, <2>4 DEF SettingsInv, Row
  <2>6. AskedOnly(req[a].base, req[a].values, req[a].edit) BY DEF SettingsInv, GoodRequest
  <2>7. PICK n \in 1 .. M : id = Fields[n].id /\ Field(id) = Fields[n] BY FieldOfId
  <2>8. Visible(Fields[n], req[a].values) = Visible(Fields[n], req[a].base) BY <2>4, <2>5, <2>7
  <2>9. req[a].values[id] # req[a].base[id] BY <2>4, <2>5
  <2> QED BY <2>6, <2>7, <2>8, <2>9 DEF AskedOnly
<1> QED BY <1>1, SettingsAlways, PTL DEF Spec, RestUnlessCrossed
----------------------------------------------------------------------------
(* Edits and what cannot be changed. *)

\* A row has its three columns, whatever they hold.
RowsOK == servers = [i \in Ids |-> [state |-> servers[i].state, values |-> servers[i].values, ports |-> servers[i].ports]]

\* So has a request its six.
Shaped(r) == r = [pc |-> r.pc, id |-> r.id, base |-> r.base, values |-> r.values, edit |-> r.edit, taken |-> r.taken]
ReqsOK == req = [a \in Reqs |-> req[a]] /\ \A a \in Reqs : Shaped(req[a])

\* An edit on its way keeps the fields that cannot be changed, not only of the row it was
\* validated against but of the row as it is by now.
Kept(a) ==
    LET i == req[a].id IN
    /\ i \in Ids /\ servers[i].state # "new"
    /\ i \in Live => \A id \in FieldIds : req[a].values[id] # servers[i].values[id] => Field(id).editable

EditsInv ==
    /\ RowsOK /\ ReqsOK
    /\ \A a \in Reqs : req[a].pc = "commit" => Kept(a)

\* A request that does nothing commits nothing.
LEMMA IdleRequest == Idle.pc = "idle" /\ Shaped(Idle)
BY DEF Idle, Shaped

\* The row of a server after an edit of it.
LEMMA EditedRow ==
    ASSUME RowsOK, NEW i \in Ids, NEW values
    PROVE  LET row == [servers[i] EXCEPT !.values = values]
           IN  /\ row.state = servers[i].state /\ row.values = values
               /\ row = [state |-> row.state, values |-> row.values, ports |-> row.ports]
<1>1. servers[i] = [state |-> servers[i].state, values |-> servers[i].values, ports |-> servers[i].ports]
  BY DEF RowsOK
<1> QED BY <1>1

\* A step that leaves the rows alone and begins no edit keeps the edits on their way.
LEMMA EditsUntouched ==
    ASSUME EditsInv, UNCHANGED servers, ReqsOK',
           \A a \in Reqs : req'[a].pc = "commit" => req'[a] = req[a]
    PROVE  EditsInv'
BY DEF EditsInv, RowsOK, Kept, Live

\* A step that changes rows only as fits all edits, and begins none, does as well.
LEMMA EditsFit ==
    ASSUME EditsInv, RowsOK', ReqsOK',
           \A a \in Reqs : req'[a].pc = "commit" => req'[a] = req[a],
           \A i \in Ids : servers[i].state # "new" => servers'[i].state # "new",
           \A i \in Ids : i \in Live' /\ servers[i].state # "new" =>
              i \in Live /\ \A id \in FieldIds : servers'[i].values[id] # servers[i].values[id] => Field(id).editable
    PROVE  EditsInv'
<1> SUFFICES ASSUME NEW a \in Reqs, req'[a].pc = "commit" PROVE Kept(a)' BY DEF EditsInv
<1>1. req'[a] = req[a] /\ Kept(a) BY DEF EditsInv
<1> QED BY <1>1 DEF Kept

\* A request that moves from where it begins no edit begins none.
LEMMA ReqBecomes ==
    ASSUME ReqsOK, NEW a \in Reqs, NEW r, Shaped(r), r.pc # "commit", req' = [req EXCEPT ![a] = r]
    PROVE  ReqsOK' /\ \A b \in Reqs : req'[b].pc = "commit" => req'[b] = req[b]
BY DEF ReqsOK

\* No step changes what an edit on its way relies on.
LEMMA EditsStep ==
    ASSUME EditsInv, [Next]_vars
    PROVE  EditsInv'
<1>0. RowsOK /\ ReqsOK BY DEF EditsInv
<1>1. ASSUME NEW a \in Reqs, AskCreate(a) PROVE EditsInv'
  <2>1. PICK body \in Bodies, reachable \in BOOLEAN, secret \in Secrets :
            req' = [req EXCEPT ![a] = [Idle EXCEPT !.pc = "look",
                                                   !.values = Validate(body, NoValues, reachable, secret).clean]]
    BY <1>1, Zenon DEF AskCreate
  <2> DEFINE values == Validate(body, NoValues, reachable, secret).clean
             r == [Idle EXCEPT !.pc = "look", !.values = values]
  <2>2. r.pc = "look" /\ Shaped(r)
    <3> DEFINE s == [Idle EXCEPT !.pc = "look"]
    <3>1. s = [Idle EXCEPT !.pc = "look"] OBVIOUS
    <3>2. r = [s EXCEPT !.values = values] OBVIOUS
    <3> HIDE DEF s, r, values
    <3>3. Shaped(s) /\ s.pc = "look" BY <3>1, IdleRequest DEF Shaped
    <3> QED BY <3>2, <3>3 DEF Shaped
  <2>3. req' = [req EXCEPT ![a] = r] /\ UNCHANGED servers BY <1>1, <2>1 DEF AskCreate
  <2> HIDE DEF r
  <2> QED BY <1>0, <2>2, <2>3, ReqBecomes, EditsUntouched
<1>2. ASSUME NEW a \in Reqs, Look(a) PROVE EditsInv'
  <2> DEFINE r == [req[a] EXCEPT !.pc = "insert", !.taken = Taken]
  <2>1. r.pc = "insert" /\ Shaped(r)
    <3> DEFINE s == [req[a] EXCEPT !.pc = "insert"]
    <3>1. s = [req[a] EXCEPT !.pc = "insert"] OBVIOUS
    <3>2. r = [s EXCEPT !.taken = Taken] OBVIOUS
    <3>3. Shaped(req[a]) BY <1>0 DEF ReqsOK
    <3> HIDE DEF s, r
    <3>4. Shaped(s) /\ s.pc = "insert" BY <3>1, <3>3 DEF Shaped
    <3> QED BY <3>2, <3>4 DEF Shaped
  <2>2. req' = [req EXCEPT ![a] = r] /\ UNCHANGED servers BY <1>0, <1>2 DEF Look, ReqsOK
  <2> HIDE DEF r
  <2> QED BY <1>0, <2>1, <2>2, ReqBecomes, EditsUntouched
<1>3. ASSUME NEW a \in Reqs, Insert(a) PROVE EditsInv'
  <2>1. ReqsOK' /\ \A b \in Reqs : req'[b].pc = "commit" => req'[b] = req[b]
    BY <1>0, <1>3, IdleRequest, ReqBecomes DEF Insert, Answer
  <2>2. CASE UNCHANGED servers BY <2>1, <2>2, EditsUntouched
  <2>3. CASE servers' # servers
    <3> DEFINE i == CHOOSE j \in Ids : servers[j].state = "new"
    <3>1. \E j \in Ids : servers[j].state = "new" BY <1>3, <2>3, Zenon DEF Insert
    <3>2. i \in Ids /\ servers[i].state = "new" BY <3>1
    <3>3. \E values, ports : servers' = [servers EXCEPT ![i] = [state |-> "live", values |-> values, ports |-> ports]]
      BY <1>3, <2>3, Zenon DEF Insert
    <3> HIDE DEF i
    <3>4. RowsOK' /\ \A j \in Ids : j # i => servers'[j] = servers[j] BY <1>0, <3>2, <3>3 DEF RowsOK
    <3>5. \A j \in Ids : servers[j].state # "new" => servers'[j] = servers[j] BY <3>2, <3>4
    <3> QED BY <2>1, <3>4, <3>5, EditsFit DEF Live
  <2> QED BY <2>2, <2>3
<1>4. ASSUME NEW a \in Reqs, AskUpdate(a) PROVE EditsInv'
  <2>1. PICK i \in Live, edit \in Edits, reachable \in BOOLEAN, secret \in Secrets :
          LET old == servers[i].values
              result == Validate(Merged(old, edit), old, reachable, secret)
          IN
          /\ \A id \in FieldIds : edit[id] # No => Field(id).editable
          /\ result.ok /\ Locked(old, result.clean) = {}
          /\ req' = [req EXCEPT ![a] = [Idle EXCEPT !.pc = "commit", !.id = i, !.base = old,
                                                    !.values = result.clean, !.edit = edit]]
    BY <1>4, Zenon DEF AskUpdate
  <2> DEFINE values == Validate(Merged(servers[i].values, edit), servers[i].values, reachable, secret).clean
             r == [Idle EXCEPT !.pc = "commit", !.id = i, !.base = servers[i].values, !.values = values, !.edit = edit]
  <2>2. Locked(servers[i].values, values) = {} /\ req' = [req EXCEPT ![a] = r] BY <2>1, Zenon
  <2>3. i \in Ids /\ servers[i].state = "live" BY DEF Live
  <2> HIDE DEF values
  <2>4. r.pc = "commit" /\ r.id = i /\ r.values = values /\ Shaped(r)
    <3> DEFINE s == [Idle EXCEPT !.pc = "commit"]
               t == [s EXCEPT !.id = i]
               u == [t EXCEPT !.base = servers[i].values]
               v == [u EXCEPT !.values = values]
    <3>1. s = [Idle EXCEPT !.pc = "commit"] OBVIOUS
    <3>2. t = [s EXCEPT !.id = i] OBVIOUS
    <3>3. u = [t EXCEPT !.base = servers[i].values] OBVIOUS
    <3>4. v = [u EXCEPT !.values = values] OBVIOUS
    <3>5. r = [v EXCEPT !.edit = edit] OBVIOUS
    <3> HIDE DEF r, s, t, u, v
    <3>6. Shaped(s) /\ s.pc = "commit" BY <3>1, IdleRequest DEF Shaped
    <3>7. Shaped(t) /\ t.pc = "commit" /\ t.id = i BY <3>2, <3>6 DEF Shaped
    <3>8. Shaped(u) /\ u.pc = "commit" /\ u.id = i BY <3>3, <3>7 DEF Shaped
    <3>9. Shaped(v) /\ v.pc = "commit" /\ v.id = i /\ v.values = values BY <3>4, <3>8 DEF Shaped
    <3> QED BY <3>5, <3>9 DEF Shaped
  <2> HIDE DEF r
  <2>5. ReqsOK' /\ req'[a] = r /\ \A b \in Reqs : b # a => req'[b] = req[b] BY <1>0, <2>2, <2>4 DEF ReqsOK
  <2>6. UNCHANGED servers BY <1>4 DEF AskUpdate
  <2>7. \A id \in FieldIds : values[id] # servers[i].values[id] => Field(id).editable BY <2>2 DEF Locked
  <2>8. Kept(a)' BY <2>3, <2>4, <2>5, <2>6, <2>7 DEF Kept
  <2>9. \A b \in Reqs : b # a /\ req'[b].pc = "commit" => Kept(b)' BY <2>5, <2>6 DEF EditsInv, Kept, Live
  <2> QED BY <1>0, <2>5, <2>6, <2>8, <2>9 DEF EditsInv, RowsOK
<1>5. ASSUME NEW a \in Reqs, Update(a) PROVE EditsInv'
  <2>1. ReqsOK' /\ \A b \in Reqs : req'[b].pc = "commit" => req'[b] = req[b]
    BY <1>0, <1>5, IdleRequest, ReqBecomes DEF Update, Answer
  <2>2. CASE UNCHANGED servers BY <2>1, <2>2, EditsUntouched
  <2>3. CASE servers' # servers
    <3> DEFINE i == req[a].id
    <3>1. i \in Live /\ servers' = [servers EXCEPT ![i].values = req[a].values] BY <1>5, <2>3, Zenon DEF Update
    <3>2. Kept(a) BY <1>5 DEF Update, EditsInv
    <3>3. i \in Ids BY <3>1 DEF Live
    <3>4. /\ RowsOK' /\ \A j \in Ids : j # i => servers'[j] = servers[j]
          /\ servers'[i].state = servers[i].state /\ servers'[i].values = req[a].values
      <4> DEFINE row == [servers[i] EXCEPT !.values = req[a].values]
      <4>1. servers' = [servers EXCEPT ![i] = row] BY <1>0, <3>1, <3>3 DEF RowsOK
      <4>2. /\ row.state = servers[i].state /\ row.values = req[a].values
            /\ row = [state |-> row.state, values |-> row.values, ports |-> row.ports]
        BY <1>0, <3>3, EditedRow
      <4> HIDE DEF row
      <4> QED BY <1>0, <3>3, <4>1, <4>2 DEF RowsOK
    <3>5. \A id \in FieldIds : req[a].values[id] # servers[i].values[id] => Field(id).editable
      BY <3>1, <3>2 DEF Kept
    <3> QED BY <2>1, <3>3, <3>4, <3>5, EditsFit DEF Live
  <2> QED BY <2>2, <2>3
<1>6. CASE Delete
  <2>1. PICK i \in Live : servers' = [servers EXCEPT ![i] = [NoServer EXCEPT !.state = "gone"]]
    BY <1>6, Zenon DEF Delete
  <2> DEFINE row == [NoServer EXCEPT !.state = "gone"]
  <2>2. row.state = "gone" /\ row = [state |-> row.state, values |-> row.values, ports |-> row.ports]
    BY DEF NoServer
  <2>3. servers' = [servers EXCEPT ![i] = row] /\ i \in Ids BY <2>1 DEF Live
  <2> HIDE DEF row
  <2>4. RowsOK' /\ servers'[i].state = "gone" /\ \A j \in Ids : j # i => servers'[j] = servers[j]
    BY <1>0, <2>2, <2>3 DEF RowsOK
  <2>5. ReqsOK' /\ UNCHANGED req BY <1>0, <1>6 DEF Delete, ReqsOK, Shaped
  <2> QED BY <2>4, <2>5, EditsFit DEF Live
<1>7. CASE UNCHANGED vars
  <2>1. UNCHANGED <<servers, req>> /\ ReqsOK' BY <1>0, <1>7 DEF vars, ReqsOK, Shaped
  <2> QED BY <2>1, EditsUntouched
<1> QED BY <1>1, <1>2, <1>3, <1>4, <1>5, <1>6, <1>7 DEF Next

\* What cannot be changed after a server is created does not change, by no edit and not by
\* two at once: neither a hidden field that an edit reveals, nor a secret.
THEOREM LockedFieldsAreKept == Spec => LockedKept
<1> DEFINE Unchangeable == \A i \in Live : i \in Live' =>
              \A id \in FieldIds : servers'[i].values[id] # servers[i].values[id] => Field(id).editable
<1>1. Init => EditsInv
  <2>1. NoServer = [state |-> NoServer.state, values |-> NoServer.values, ports |-> NoServer.ports] BY DEF NoServer
  <2> QED BY <2>1, IdleRequest DEF Init, EditsInv, RowsOK, ReqsOK
<1>2. EditsInv /\ [Next]_vars => EditsInv' BY EditsStep
<1>3. EditsInv /\ [Next]_vars => [Unchangeable]_vars
  <2> SUFFICES ASSUME EditsInv, Next, NEW i \in Live, i \in Live', NEW id \in FieldIds,
                      servers'[i].values[id] # servers[i].values[id]
               PROVE  Field(id).editable
    BY Zenon
  <2>0. i \in Ids /\ servers[i].state = "live" BY DEF Live
  <2>1. RowsOK BY DEF EditsInv
  <2>2. servers' # servers BY <2>0
  <2>3. CASE Delete
    <3>1. PICK j \in Live : servers' = [servers EXCEPT ![j] = [NoServer EXCEPT !.state = "gone"]]
      BY <2>3, Zenon DEF Delete
    <3>2. [NoServer EXCEPT !.state = "gone"].state = "gone" BY DEF NoServer
    <3>3. j # i BY <2>0, <2>1, <3>1, <3>2 DEF RowsOK, Live
    <3>4. servers'[i] = servers[i] BY <2>0, <2>1, <3>1, <3>3 DEF RowsOK
    <3> QED BY <3>4
  <2>4. ASSUME NEW a \in Reqs, Insert(a) PROVE FALSE
    <3> DEFINE new == CHOOSE j \in Ids : servers[j].state = "new"
    <3>1. \E j \in Ids : servers[j].state = "new" BY <2>2, <2>4, Zenon DEF Insert
    <3>2. new \in Ids /\ servers[new].state = "new" BY <3>1
    <3>3. \E row : servers' = [servers EXCEPT ![new] = row] BY <2>2, <2>4, Zenon DEF Insert
    <3> HIDE DEF new
    <3>4. servers'[i] = servers[i] BY <2>0, <2>1, <3>2, <3>3 DEF RowsOK
    <3> QED BY <3>4
  <2>5. ASSUME NEW a \in Reqs, Update(a) PROVE Field(id).editable
    <3> DEFINE j == req[a].id
    <3>1. j \in Live /\ servers' = [servers EXCEPT ![j].values = req[a].values] BY <2>2, <2>5, Zenon DEF Update
    <3>2. j = i BY <2>0, <2>1, <3>1 DEF RowsOK
    <3>3. servers'[i] = [servers[i] EXCEPT !.values = req[a].values] BY <2>0, <2>1, <3>1, <3>2 DEF RowsOK
    <3>4. servers'[i].values = req[a].values BY <2>0, <2>1, <3>3, EditedRow
    <3>5. Kept(a) BY <2>5 DEF Update, EditsInv
    <3> QED BY <3>1, <3>2, <3>4, <3>5 DEF Kept
  <2> QED BY <2>2, <2>3, <2>4, <2>5 DEF Next, AskCreate, Look, AskUpdate
<1> QED BY <1>1, <1>2, <1>3, PTL DEF Spec, LockedKept
===============================================================================
