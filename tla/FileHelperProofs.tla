--------------------------- MODULE FileHelperProofs ---------------------------
(***************************************************************************)
(* Proofs about FileHelper, for any requests, idle time, events and        *)
(* bounds: the types, that the helper has one maker, that the reaper takes *)
(* it only from silent requests, and that a server is removed whole.       *)
(***************************************************************************)
EXTENDS FileHelper, TLAPS

\* The parts of the type invariant that most steps have to do with.
ReqOK == req \in [Reqs -> Request]
Pcs == {"idle", "lock", "inspect", "remove", "create", "start", "exec", "work"}
Helper == [id : 0 .. 2 * MaxUses, state : {"none", "created", "running"}]

\* The mutex is held by the one request between taking it and going on without it.
Holding == {"inspect", "remove", "create", "start"}
LockOK == lock \in Reqs \cup {Free} /\ \A a \in Reqs : req[a].pc \in Holding <=> lock = a

\* The types, with the mutex.
TypeInv ==
    /\ helper \in Helper /\ volume \in BOOLEAN
    /\ ReqOK /\ LockOK
    /\ lastUsed \in Ages \cup {Unknown}
    /\ reaper \in {"wait", "close", "remove"}
    /\ removal \in {"none", "close", "remove", "volume", "done", "failed"}
    /\ uses \in 0 .. MaxUses /\ events \in 0 .. MaxEvents
    /\ beside \in BOOLEAN /\ untracked \in BOOLEAN
----------------------------------------------------------------------------
(* Types. *)

\* A request that does nothing is a well-formed one.
LEMMA IdleRequest == Idle \in Request /\ Idle.pc = "idle"
BY BoundsAssumption DEF Idle, Request, Ages

\* A request that ends, or goes on, is a well-formed one.
LEMMA ReqMoves ==
    ASSUME ReqOK, NEW a \in Reqs
    PROVE  /\ Answer(a) => ReqOK'
           /\ \A pc \in Pcs : Goto(a, pc) => ReqOK'
BY IdleRequest DEF ReqOK, Request, Pcs, Answer, Goto

\* Time makes an age an age.
LEMMA OlderAge == \A age \in Ages : Older(age) \in Ages /\ Older(age) >= age
BY BoundsAssumption DEF Older, Ages

\* A helper that is not there is a helper, and so is one that is made or started.
LEMMA Helpers ==
    /\ NoHelper \in Helper /\ NoHelper.state = "none"
    /\ \A id \in 1 .. 2 * MaxUses : [id |-> id, state |-> "created"] \in Helper
    /\ \A h \in Helper : [h EXCEPT !.state = "running"] \in Helper
BY BoundsAssumption DEF NoHelper, Helper

\* A request moves without the mutex, or with it; it is handed back, or taken when free.
LEMMA LockMoves ==
    ASSUME ReqOK, LockOK, NEW a \in Reqs, NEW r, req' = [req EXCEPT ![a] = r],
           \/ UNCHANGED lock /\ (r.pc \in Holding <=> req[a].pc \in Holding)
           \/ lock' = Free /\ req[a].pc \in Holding /\ r.pc \notin Holding
           \/ lock = Free /\ lock' = a /\ r.pc \in Holding
    PROVE  LockOK'
BY ReqsAssumption DEF ReqOK, LockOK

\* The steps of a request keep the types and the mutex.
LEMMA CommandType ==
    ASSUME TypeInv, NEW a \in Reqs, Ask(a) \/ Steps(a) \/ Write(a)
    PROVE  TypeInv'
<1>0. ReqOK /\ LockOK /\ req[a] \in Request BY DEF TypeInv, ReqOK
<1>1. 0 \in Ages BY BoundsAssumption DEF Ages
<1>2. CASE Ask(a)
  <2>1. PICK k \in Kinds : req' = [req EXCEPT ![a] = [Idle EXCEPT !.pc = "lock", !.kind = k, !.after = TRUE,
                                                 !.next = IF k = "restore" THEN "extract" ELSE "none"]]
    BY <1>2, Zenon DEF Ask
  <2> DEFINE next == IF k = "restore" THEN "extract" ELSE "none"
             r == [Idle EXCEPT !.pc = "lock", !.kind = k, !.after = TRUE, !.next = next]
  <2>2. r \in Request /\ r.pc = "lock" BY IdleRequest DEF Request
  <2>3. UNCHANGED lock /\ req[a].pc = "idle" BY <1>2 DEF Ask
  <2> HIDE DEF r
  <2>4. ReqOK' BY <1>0, <2>1, <2>2 DEF ReqOK, r
  <2>5. LockOK' BY <1>0, <2>1, <2>2, <2>3, LockMoves DEF Holding, r
  <2>6. uses' \in 0 .. MaxUses
    <3>1. uses \in 0 .. MaxUses /\ uses < MaxUses /\ uses' = uses + 1 BY <1>2, Zenon DEF Ask, TypeInv
    <3> QED BY <3>1, BoundsAssumption
  <2>7. lastUsed' \in Ages BY <1>1, <1>2 DEF Ask
  <2> QED BY <1>2, <2>4, <2>5, <2>6, <2>7, Zenon DEF Ask, TypeInv, docker
<1>3. CASE Lock(a)
  <2>1. ReqOK' BY <1>0, <1>3, ReqMoves DEF Lock, Pcs
  <2>2. LockOK' BY <1>0, <1>3, ReqsAssumption DEF Lock, Goto, LockOK, ReqOK, Request, Holding
  <2> QED BY <1>3, <2>1, <2>2, Zenon DEF Lock, TypeInv, docker, ghosts
<1>4. CASE Inspect(a)
  <2>1. ReqOK' BY <1>0, <1>4, ReqMoves DEF Inspect, Pcs
  <2>2. LockOK' BY <1>0, <1>4, ReqsAssumption DEF Inspect, Goto, LockOK, ReqOK, Request, Holding
  <2> QED BY <1>4, <2>1, <2>2, Zenon DEF Inspect, TypeInv, docker, ghosts
<1>5. CASE RemoveOld(a)
  <2>1. ReqOK' BY <1>0, <1>5, ReqMoves DEF RemoveOld, Pcs
  <2>2. LockOK' BY <1>0, <1>5, ReqsAssumption DEF RemoveOld, Goto, LockOK, ReqOK, Request, Holding
  <2> QED BY <1>5, <2>1, <2>2, Helpers, Zenon DEF RemoveOld, TypeInv, ghosts
<1>6. CASE Create(a)
  <2>1. ReqOK' BY <1>0, <1>6, ReqMoves DEF Create, Pcs
  <2>2. LockOK' BY <1>0, <1>6, ReqsAssumption, IdleRequest DEF Create, Answer, Goto, LockOK, ReqOK, Request, Holding
  <2>3. helper' \in Helper BY <1>6, Helpers DEF Create, TypeInv, docker
  <2>4. volume' \in BOOLEAN BY <1>6, Zenon DEF Create, TypeInv, docker
  <2> QED BY <1>6, <2>1, <2>2, <2>3, <2>4, Zenon DEF Create, TypeInv, ghosts
<1>7. CASE Start(a)
  <2>1. ReqOK' BY <1>0, <1>7, ReqMoves DEF Start, Pcs
  <2>2. LockOK' BY <1>0, <1>7, ReqsAssumption, IdleRequest DEF Start, Answer, Goto, LockOK, ReqOK, Request, Holding
  <2>3. helper' \in Helper BY <1>7, Helpers DEF Start, TypeInv
  <2> QED BY <1>7, <2>1, <2>2, <2>3, Zenon DEF Start, TypeInv, ghosts
<1>8. CASE Exec(a)
  <2>1. [req[a] EXCEPT !.pc = "work", !.box = helper.id] \in Request
    BY <1>0 DEF Request, TypeInv, Helper
  <2>2. ReqOK' BY <1>0, <1>8, <2>1, ReqMoves DEF Exec, ReqOK
  <2>3. LockOK' BY <1>0, <1>8, ReqsAssumption, IdleRequest DEF Exec, Answer, LockOK, ReqOK, Request, Holding
  <2> QED BY <1>8, <2>2, <2>3, Zenon DEF Exec, TypeInv, docker, ghosts
<1>9. CASE Done(a)
  <2> DEFINE r == [Idle EXCEPT !.pc = "lock", !.kind = req[a].kind, !.after = TRUE]
  <2>1. r \in Request /\ r.pc = "lock" BY <1>0, IdleRequest DEF Request
  <2>2. req' = [req EXCEPT ![a] = Idle] \/ req' = [req EXCEPT ![a] = r] BY <1>9, Zenon DEF Done, Answer
  <2> HIDE DEF r
  <2>3. ReqOK' BY <1>0, <2>1, <2>2, IdleRequest DEF ReqOK
  <2>4. req[a].pc = "work" /\ UNCHANGED lock BY <1>9 DEF Done, InHelper
  <2>5. LockOK' BY <1>0, <2>1, <2>2, <2>4, LockMoves, IdleRequest DEF Holding
  <2>6. lastUsed' \in Ages \cup {Unknown} BY <1>1, <1>9 DEF Done, TypeInv
  <2> QED BY <1>9, <2>3, <2>5, <2>6, Zenon DEF Done, TypeInv, docker, ghosts
<1>10. CASE CutOff(a)
  <2>1. ReqOK' BY <1>0, <1>10, ReqMoves DEF CutOff
  <2>2. LockOK' BY <1>0, <1>10, LockMoves, IdleRequest DEF CutOff, Answer, Holding
  <2> QED BY <1>10, <2>1, <2>2, Zenon DEF CutOff, TypeInv, docker, ghosts
<1>11. CASE Write(a)
  <2> DEFINE r == [req[a] EXCEPT !.silent = 0, !.after = TRUE]
  <2>1. req' = [req EXCEPT ![a] = r] BY <1>0, <1>11 DEF Write, ReqOK
  <2>2. r \in Request /\ r.pc = req[a].pc BY <1>0, <1>1 DEF Request
  <2> HIDE DEF r
  <2>3. ReqOK' BY <1>0, <2>1, <2>2 DEF ReqOK
  <2>4. LockOK' BY <1>0, <1>11, <2>1, <2>2, LockMoves DEF Write
  <2>5. lastUsed' \in Ages BY <1>1, <1>11 DEF Write
  <2> QED BY <1>11, <2>3, <2>4, <2>5, Zenon DEF Write, TypeInv, docker, ghosts
<1> QED BY <1>2, <1>3, <1>4, <1>5, <1>6, <1>7, <1>8, <1>9, <1>10, <1>11 DEF Steps

\* So do those of the reaper and of the removal.
LEMMA AgentType ==
    ASSUME TypeInv, Agent \/ Remove
    PROVE  TypeInv'
<1>1. CASE Look
  <2>1. ReqOK' BY <1>1 DEF Look, TypeInv, ReqOK, Request
  <2>2. \A a \in Reqs : req'[a].pc = req[a].pc BY <1>1 DEF Look, TypeInv, ReqOK, Request
  <2>3. LockOK' BY <1>1, <2>2 DEF Look, TypeInv, LockOK
  <2> QED BY <1>1, <2>1, <2>3, Zenon DEF Look, TypeInv, docker, ghosts
<1>2. CASE Forget
  <2>1. ReqOK' /\ LockOK' BY <1>2 DEF Forget, TypeInv, ReqOK, LockOK
  <2> QED BY <1>2, <2>1, Zenon DEF Forget, Forgotten, TypeInv, docker
<1>3. CASE Reap
  <2>1. ReqOK' /\ LockOK' BY <1>3 DEF Reap, TypeInv, ReqOK, LockOK
  <2> QED BY <1>3, <2>1, Helpers, Zenon DEF Reap, TypeInv, ghosts
<1>4. CASE CloseFiles
  <2>1. ReqOK' /\ LockOK' BY <1>4 DEF CloseFiles, TypeInv, ReqOK, LockOK
  <2> QED BY <1>4, <2>1, Helpers, Zenon DEF CloseFiles, Forgotten, TypeInv, docker, ghosts
<1>5. CASE RemoveVolume
  <2>1. ReqOK' /\ LockOK' BY <1>5 DEF RemoveVolume, TypeInv, ReqOK, LockOK
  <2>2. volume' \in BOOLEAN /\ removal' \in {"done", "failed"} BY <1>5, Zenon DEF RemoveVolume, TypeInv
  <2> QED BY <1>5, <2>1, <2>2, Zenon DEF RemoveVolume, TypeInv, ghosts
<1>6. CASE Remove
  <2>1. ReqOK' /\ LockOK' BY <1>6 DEF Remove, TypeInv, ReqOK, LockOK
  <2> QED BY <1>6, <2>1, Zenon DEF Remove, TypeInv, docker
<1> QED BY <1>1, <1>2, <1>3, <1>4, <1>5, <1>6 DEF Agent

\* And those of time and of what goes wrong.
LEMMA EventType ==
    ASSUME TypeInv, Time \/ Fails
    PROVE  TypeInv'
<1>0. ReqOK /\ LockOK BY DEF TypeInv
<1>1. CASE Time
  <2>1. \A a \in Reqs : /\ [req[a] EXCEPT !.silent = Older(@)] \in Request
                        /\ [req[a] EXCEPT !.silent = Older(@)].pc = req[a].pc
    BY <1>0, OlderAge DEF ReqOK, Request
  <2>2. ReqOK' /\ \A a \in Reqs : req'[a].pc = req[a].pc BY <1>0, <1>1, <2>1 DEF Time, ReqOK
  <2>3. LockOK' BY <1>0, <1>1, <2>2 DEF Time, LockOK
  <2>4. lastUsed' \in Ages \cup {Unknown}
    <3>1. lastUsed \in Ages \cup {Unknown} BY Zenon DEF TypeInv
    <3> QED BY <1>1, <3>1, OlderAge DEF Time
  <2> QED BY <1>1, <2>2, <2>3, <2>4, Zenon DEF Time, TypeInv, docker, ghosts
<1>2. CASE Fails
  <2>0. ASSUME events' = events + 1 PROVE events' \in 0 .. MaxEvents
    <3>1. events \in 0 .. MaxEvents /\ events < MaxEvents BY <1>2, Zenon DEF Fails, TypeInv
    <3> QED BY <2>0, <3>1, BoundsAssumption
  <2>1. CASE ReapFails
    <3>1. ReqOK' /\ LockOK' BY <1>0, <2>1 DEF ReapFails, ReqOK, LockOK
    <3> QED BY <2>0, <2>1, <3>1, Zenon DEF ReapFails, TypeInv, docker
  <2>2. ASSUME NEW a \in Reqs, CallFails(a) PROVE TypeInv'
    <3>1. ReqOK' BY <1>0, <2>2, ReqMoves DEF CallFails
    <3>2. LockOK' BY <1>0, <2>2, IdleRequest, ReqsAssumption DEF CallFails, Answer, ReqOK, LockOK, Holding
    <3> QED BY <2>0, <2>2, <3>1, <3>2, Zenon DEF CallFails, TypeInv, docker
  <2>3. CASE AgentDies
    <3>1. ReqOK' BY <2>3, IdleRequest DEF AgentDies, ReqOK
    <3>2. LockOK' BY <2>3, IdleRequest, ReqsAssumption DEF AgentDies, LockOK, Holding
    <3>3. removal' \in {"none", "close", "remove", "volume", "done", "failed"}
      BY <2>3, Zenon DEF AgentDies, TypeInv
    <3> QED BY <2>0, <2>3, <3>1, <3>2, <3>3, Zenon DEF AgentDies, TypeInv, docker
  <2> QED BY <1>2, <2>1, <2>2, <2>3 DEF Fails
<1> QED BY <1>1, <1>2

\* There is nothing wrong at first, and every step keeps it so.
LEMMA TypeInvStep ==
    /\ Init => TypeInv
    /\ TypeInv /\ [Next]_vars => TypeInv'
<1>1. ASSUME Init PROVE TypeInv
  <2>1. ReqOK /\ LockOK BY <1>1, IdleRequest, ReqsAssumption DEF Init, ReqOK, LockOK, Holding
  <2>2. uses \in 0 .. MaxUses /\ events \in 0 .. MaxEvents BY <1>1, BoundsAssumption DEF Init
  <2> QED BY <1>1, <2>1, <2>2, Helpers, Zenon DEF Init, TypeInv
<1>2. ASSUME TypeInv, [Next]_vars PROVE TypeInv'
  <2>1. CASE UNCHANGED vars
    <3>1. ReqOK' /\ LockOK' BY <1>2, <2>1 DEF vars, TypeInv, ReqOK, LockOK
    <3> QED BY <1>2, <2>1, <3>1, Zenon DEF vars, TypeInv
  <2> QED BY <1>2, <2>1, CommandType, AgentType, EventType DEF Next
<1> QED BY <1>1, <1>2

\* The helper, the mutex and the requests are always well-formed: whoever holds the mutex
\* is on the way to a helper.
THEOREM TypeCorrect == Spec => []TypeOK
<1>1. TypeInv => TypeOK
  <2> SUFFICES ASSUME TypeInv PROVE TypeOK OBVIOUS
  <2>1. lock = Free \/ \E a \in Reqs : lock = a /\ req[a].pc \in {"inspect", "remove", "create", "start"}
    BY DEF TypeInv, LockOK, Holding
  <2> QED BY <2>1, Zenon DEF TypeInv, TypeOK, Helper, ReqOK
<1> QED BY <1>1, TypeInvStep, PTL DEF Spec
----------------------------------------------------------------------------
(* One maker. *)

\* A helper that is in no state is not there, and whoever is about to make one finds none.
MakerInv == (helper.state = "none" => helper = NoHelper) /\ OneMaker

\* A step that makes or starts no helper and lets nobody be about to disturbs nothing.
LEMMA MakerUntouched ==
    ASSUME MakerInv, helper' \in {helper, NoHelper},
           \A a \in Reqs : req'[a].pc = "create" => req[a].pc = "create" \/ helper' = NoHelper
    PROVE  MakerInv'
BY DEF MakerInv, OneMaker

\* Two requests never both make the helper.
LEMMA MakerStep ==
    ASSUME TypeInv, MakerInv, [Next]_vars
    PROVE  MakerInv'
<1>0. ReqOK /\ LockOK /\ helper \in Helper BY DEF TypeInv
<1>1. ASSUME NEW a \in Reqs, Ask(a) \/ Exec(a) \/ Done(a) \/ CutOff(a) \/ Write(a) \/ CallFails(a) \/ Lock(a)
      PROVE  MakerInv'
  <2>1. \A r \in Request : /\ [r EXCEPT !.pc = "work", !.box = helper.id].pc = "work"
                           /\ [r EXCEPT !.silent = 0, !.after = TRUE].pc = r.pc
    BY DEF Request
  <2>2. \A k, next : [Idle EXCEPT !.pc = "lock", !.kind = k, !.after = TRUE, !.next = next].pc = "lock"
    BY IdleRequest DEF Request
  <2>3. \A k : [Idle EXCEPT !.pc = "lock", !.kind = k, !.after = TRUE].pc = "lock" BY IdleRequest DEF Request
  <2>4. CASE Ask(a)
    <3>1. PICK k \in Kinds : req' = [req EXCEPT ![a] = [Idle EXCEPT !.pc = "lock", !.kind = k, !.after = TRUE,
                                                   !.next = IF k = "restore" THEN "extract" ELSE "none"]]
      BY <2>4, Zenon DEF Ask
    <3>2. \E r : req' = [req EXCEPT ![a] = r] /\ r.pc = "lock" BY <2>2, <3>1, Zenon
    <3> QED BY <1>0, <2>4, <3>2, MakerUntouched DEF Ask, docker, ReqOK
  <2>5. CASE Exec(a)
    <3>1. \A b \in Reqs : req'[b].pc # "create" \/ req'[b] = req[b]
      BY <1>0, <2>5, IdleRequest DEF Exec, Answer, ReqOK, Request
    <3> QED BY <1>0, <2>5, <3>1, MakerUntouched DEF Exec, docker, ReqOK
  <2>6. CASE Done(a)
    <3>1. \E r : req' = [req EXCEPT ![a] = r] /\ r.pc # "create"
      <4>1. CASE Answer(a) BY <4>1, IdleRequest DEF Answer
      <4>2. CASE req' = [req EXCEPT ![a] = [Idle EXCEPT !.pc = "lock", !.kind = req[a].kind, !.after = TRUE]]
        BY <2>3, <4>2
      <4> QED BY <2>6, <4>1, <4>2, Zenon DEF Done
    <3> QED BY <1>0, <2>6, <3>1, MakerUntouched DEF Done, docker, ReqOK
  <2>7. CASE Write(a)
    <3>1. \E r : req' = [req EXCEPT ![a] = r] /\ r.pc = req[a].pc BY <1>0, <2>1, <2>7 DEF Write, ReqOK
    <3> QED BY <1>0, <2>7, <3>1, MakerUntouched DEF Write, docker, ReqOK
  <2>8. CASE CutOff(a) \/ CallFails(a)
    BY <1>0, <2>8, MakerUntouched, IdleRequest DEF CutOff, CallFails, Answer, docker, ReqOK
  <2>9. CASE Lock(a) BY <1>0, <2>9, MakerUntouched DEF Lock, Goto, docker, ReqOK, Request
  <2> QED BY <1>1, <2>4, <2>5, <2>6, <2>7, <2>8, <2>9
<1>2. ASSUME NEW a \in Reqs, Inspect(a) PROVE MakerInv'
  <2>1. \A b \in Reqs : b # a => req'[b] = req[b] BY <1>0, <1>2 DEF Inspect, Goto, ReqOK
  <2>2. req'[a].pc = "create" => helper.state = "none" BY <1>0, <1>2 DEF Inspect, Goto, ReqOK, Request, Helper
  <2> QED BY <1>2, <2>1, <2>2, MakerUntouched DEF Inspect, docker, MakerInv
<1>3. ASSUME NEW a \in Reqs, RemoveOld(a) PROVE MakerInv' BY <1>3, MakerUntouched DEF RemoveOld
<1>4. ASSUME NEW a \in Reqs, Create(a) \/ Start(a) PROVE MakerInv'
  <2>1. \A b \in Reqs : b # a => req[b].pc # "create" BY <1>0, <1>4 DEF LockOK, Holding, Create, Start
  <2>2. \A b \in Reqs : req'[b].pc # "create"
    BY <1>0, <1>4, <2>1, IdleRequest DEF Create, Start, Answer, Goto, ReqOK, Request
  <2>3. helper'.state = "none" => helper' = NoHelper
    <3>1. \A id : [id |-> id, state |-> "created"].state = "created" OBVIOUS
    <3>2. [helper EXCEPT !.state = "running"].state = "running" BY <1>0 DEF Helper
    <3> QED BY <1>4, <3>1, <3>2 DEF Create, Start, docker, MakerInv
  <2> QED BY <2>2, <2>3 DEF MakerInv, OneMaker
<1>5. CASE Agent \/ Remove \/ ReapFails \/ AgentDies \/ UNCHANGED vars
  <2>1. helper' \in {helper, NoHelper}
    BY <1>5 DEF Agent, Look, Forget, Reap, CloseFiles, RemoveVolume, Remove, ReapFails, AgentDies, vars, docker
  <2>2. \A a \in Reqs : req'[a].pc = "create" => req[a].pc = "create"
    BY <1>0, <1>5, IdleRequest
       DEF Agent, Look, Forget, Reap, CloseFiles, RemoveVolume, Remove, ReapFails, AgentDies, vars, ReqOK, Request
  <2> QED BY <2>1, <2>2, MakerUntouched
<1>6. CASE Time
  <2>1. \A a \in Reqs : req'[a].pc = req[a].pc BY <1>0, <1>6 DEF Time, ReqOK, Request
  <2> QED BY <1>6, <2>1, MakerUntouched DEF Time, docker
<1> QED BY <1>1, <1>2, <1>3, <1>4, <1>5, <1>6 DEF Next, Steps, Fails

\* Two requests never both make the helper: the server's mutex is held from the look at
\* Docker to the start.
THEOREM HelperHasOneMaker == Spec => []OneMaker
<1>1. Init => MakerInv BY IdleRequest DEF Init, MakerInv, OneMaker
<1>2. TypeInv /\ MakerInv /\ [Next]_vars => MakerInv' BY MakerStep
<1>3. MakerInv => OneMaker BY DEF MakerInv
<1> QED BY <1>1, <1>2, <1>3, TypeInvStep, PTL DEF Spec
----------------------------------------------------------------------------
(* The reaper. *)

\* The age the agent knows is no older than the last sign of any request, and from the
\* reaper's look on whoever is there was silent for too long or gave a sign since.
SilenceInv ==
    /\ lastUsed # Unknown => \A a \in Active : req[a].silent >= lastUsed
    /\ reaper # "wait" => \A a \in Active : req[a].silent > IdleAfter \/ req[a].after

\* A step by which nobody comes or gives a sign keeps that.
LEMMA SilenceKept ==
    ASSUME SilenceInv, lastUsed' \in {lastUsed, Unknown}, reaper' # "wait" => reaper # "wait",
           \A a \in Active' : a \in Active /\ req'[a].silent = req[a].silent /\ req'[a].after = req[a].after
    PROVE  SilenceInv'
<1>1. lastUsed' # Unknown' => \A a \in Active' : req'[a].silent >= lastUsed' BY DEF SilenceInv, Unknown
<1>2. ASSUME reaper' # "wait", NEW a \in Active' PROVE req'[a].silent > IdleAfter \/ req'[a].after
  <2>1. a \in Active /\ req'[a].silent = req[a].silent /\ req'[a].after = req[a].after BY <1>2
  <2>2. req[a].silent > IdleAfter \/ req[a].after BY <1>2, <2>1, Zenon DEF SilenceInv
  <2> QED BY <2>1, <2>2, Zenon
<1> QED BY <1>1, <1>2, Zenon DEF SilenceInv

\* A request that comes, goes on, or writes gives a sign.
LEMMA SilenceBroken ==
    ASSUME TypeInv, SilenceInv, NEW a \in Reqs, NEW r \in Request, req' = [req EXCEPT ![a] = r],
           r.after, r.silent = 0, lastUsed' = 0, UNCHANGED reaper
    PROVE  SilenceInv'
<1>0. ReqOK BY DEF TypeInv
<1>1. \A b \in Reqs : req'[b].silent >= 0 BY <1>0, BoundsAssumption DEF ReqOK, Request, Ages
<1>2. \A b \in Reqs : b # a => req'[b] = req[b] BY <1>0 DEF ReqOK
<1>3. req'[a].after BY <1>0, Zenon DEF ReqOK
<1>4. lastUsed' # Unknown' => \A b \in Active' : req'[b].silent >= lastUsed' BY <1>1 DEF Active
<1>5. ASSUME reaper' # "wait", NEW b \in Active' PROVE req'[b].silent > IdleAfter \/ req'[b].after
  <2>1. CASE b = a BY <1>3, <2>1, Zenon
  <2>2. CASE b # a
    <3>1. req'[b] = req[b] /\ b \in Active BY <1>2, <1>5, <2>2 DEF Active
    <3>2. req[b].silent > IdleAfter \/ req[b].after BY <1>5, <3>1, Zenon DEF SilenceInv
    <3> QED BY <3>1, <3>2, Zenon
  <2> QED BY <2>1, <2>2
<1> QED BY <1>4, <1>5, Zenon DEF SilenceInv

\* Every step keeps it.
LEMMA SilenceStep ==
    ASSUME TypeInv, SilenceInv, [Next]_vars
    PROVE  SilenceInv'
<1>0. ReqOK BY DEF TypeInv
<1>1. \A r \in Request : \A pc : LET s == [r EXCEPT !.pc = pc] IN s.silent = r.silent /\ s.after = r.after
  BY DEF Request
<1>2. ASSUME NEW a \in Reqs, req[a].pc # "idle", Answer(a) \/ \E pc : Goto(a, pc),
             UNCHANGED <<lastUsed, reaper>>
      PROVE  SilenceInv'
  <2>1. \A b \in Reqs : b # a => req'[b] = req[b] BY <1>0, <1>2 DEF Answer, Goto, ReqOK
  <2>2. CASE Answer(a)
    <3>1. \A b \in Active' : b # a /\ b \in Active BY <1>0, <2>1, <2>2, IdleRequest DEF Answer, Active, ReqOK
    <3> QED BY <1>2, <2>1, <3>1, SilenceKept DEF Active
  <2>3. ASSUME NEW pc, Goto(a, pc) PROVE SilenceInv'
    <3>1. req'[a] = [req[a] EXCEPT !.pc = pc] BY <1>0, <2>3 DEF Goto, ReqOK
    <3>2. req'[a].silent = req[a].silent /\ req'[a].after = req[a].after BY <1>0, <1>1, <3>1 DEF ReqOK
    <3> QED BY <1>2, <2>1, <3>2, SilenceKept DEF Active
  <2> QED BY <1>2, <2>2, <2>3
<1>3. ASSUME NEW a \in Reqs, Lock(a) \/ Inspect(a) \/ RemoveOld(a) \/ Create(a) \/ Start(a) \/ CutOff(a) \/ CallFails(a)
      PROVE  SilenceInv'
  <2>1. req[a].pc # "idle" /\ UNCHANGED <<lastUsed, reaper>>
    BY <1>3 DEF Lock, Inspect, RemoveOld, Create, Start, CutOff, CallFails, docker, ghosts
  <2>2. Answer(a) \/ \E pc : Goto(a, pc) BY <1>3, Zenon DEF Lock, Inspect, RemoveOld, Create, Start, CutOff, CallFails
  <2> QED BY <1>2, <2>1, <2>2
<1>4. ASSUME NEW a \in Reqs, Ask(a) PROVE SilenceInv'
  <2>1. PICK k \in Kinds : req' = [req EXCEPT ![a] = [Idle EXCEPT !.pc = "lock", !.kind = k, !.after = TRUE,
                                                 !.next = IF k = "restore" THEN "extract" ELSE "none"]]
    BY <1>4, Zenon DEF Ask
  <2> DEFINE next == IF k = "restore" THEN "extract" ELSE "none"
             r == [Idle EXCEPT !.pc = "lock", !.kind = k, !.after = TRUE, !.next = next]
  <2>2. Idle.silent = 0 BY DEF Idle
  <2>3. r \in Request /\ r.after /\ r.silent = 0 BY <2>2, IdleRequest DEF Request
  <2>4. req' = [req EXCEPT ![a] = r] BY <2>1, Zenon
  <2> HIDE DEF r
  <2> QED BY <1>4, <2>3, <2>4, SilenceBroken DEF Ask
<1>5. ASSUME NEW a \in Reqs, Exec(a) PROVE SilenceInv'
  <2>1. CASE Answer(a) BY <1>2, <1>5, <2>1 DEF Exec, ghosts
  <2>2. CASE req' = [req EXCEPT ![a].pc = "work", ![a].box = helper.id]
    <3>1. \A b \in Active' : b \in Active /\ req'[b].silent = req[b].silent /\ req'[b].after = req[b].after
      BY <1>0, <1>5, <2>2 DEF Exec, ReqOK, Request, Active
    <3> QED BY <1>5, <3>1, SilenceKept DEF Exec
  <2> QED BY <1>5, <2>1, <2>2 DEF Exec
<1>6. ASSUME NEW a \in Reqs, Done(a) PROVE SilenceInv'
  <2>1. CASE req[a].next = "none" BY <1>2, <1>6, <2>1 DEF Done, InHelper, ghosts
  <2>2. CASE req[a].next # "none"
    <3> DEFINE r == [Idle EXCEPT !.pc = "lock", !.kind = req[a].kind, !.after = TRUE]
    <3>1. req' = [req EXCEPT ![a] = r] /\ lastUsed' = 0 BY <1>6, <2>2, Zenon DEF Done
    <3>2. Idle.silent = 0 BY DEF Idle
    <3>3. r \in Request /\ r.after /\ r.silent = 0 BY <1>0, <3>2, IdleRequest DEF Request, ReqOK
    <3> HIDE DEF r
    <3> QED BY <1>6, <3>1, <3>3, SilenceBroken DEF Done
  <2> QED BY <2>1, <2>2
<1>7. ASSUME NEW a \in Reqs, Write(a) PROVE SilenceInv'
  <2> DEFINE r == [req[a] EXCEPT !.silent = 0, !.after = TRUE]
  <2>1. req' = [req EXCEPT ![a] = r] BY <1>0, <1>7 DEF Write, ReqOK
  <2>2. 0 \in Ages BY BoundsAssumption DEF Ages
  <2>3. r \in Request /\ r.after /\ r.silent = 0 BY <1>0, <2>2 DEF Request, ReqOK
  <2> HIDE DEF r
  <2> QED BY <1>7, <2>1, <2>3, SilenceBroken DEF Write
<1>8. CASE Look
  <2>1. lastUsed = IdleAfter + 1 /\ lastUsed # Unknown BY <1>8, BoundsAssumption DEF Look, Unknown
  <2>2. \A a \in Active' : a \in Active /\ req'[a].silent = req[a].silent
    BY <1>0, <1>8 DEF Look, Active, ReqOK, Request
  <2>3. \A a \in Active' : req'[a].silent >= lastUsed BY <2>1, <2>2 DEF SilenceInv
  <2>4. \A a \in Active' : req'[a].silent > IdleAfter
    <3>1. \A a \in Active' : req'[a].silent \in Ages BY <1>0, <2>2 DEF ReqOK, Request, Active
    <3> QED BY <2>1, <2>3, <3>1, BoundsAssumption DEF Ages
  <2>5. UNCHANGED lastUsed BY <1>8 DEF Look
  <2>6. lastUsed' # Unknown' => \A a \in Active' : req'[a].silent >= lastUsed' BY <2>3, <2>5
  <2> QED BY <2>4, <2>6, Zenon DEF SilenceInv
<1>9. CASE Forget \/ Reap \/ ReapFails \/ CloseFiles \/ RemoveVolume \/ Remove \/ UNCHANGED vars
  <2>1. lastUsed' \in {lastUsed, Unknown} /\ (reaper' # "wait" => reaper # "wait") /\ UNCHANGED req
    BY <1>9 DEF Forget, Reap, ReapFails, CloseFiles, RemoveVolume, Remove, Forgotten, vars, docker, ghosts
  <2> QED BY <2>1, SilenceKept DEF Active
<1>10. CASE AgentDies
  <2>1. Active' = {} BY <1>10, IdleRequest DEF AgentDies, Active
  <2> QED BY <2>1, Zenon DEF SilenceInv
<1>11. CASE Time
  <2>1. \A a \in Active' : a \in Active /\ req'[a].silent = Older(req[a].silent) /\ req'[a].after = req[a].after
    BY <1>0, <1>11 DEF Time, Active, ReqOK, Request
  <2>2. \A a \in Active : req[a].silent \in Ages BY <1>0 DEF ReqOK, Request, Active
  <2>3. ASSUME lastUsed' # Unknown', NEW a \in Active' PROVE req'[a].silent >= lastUsed'
    <3>1. lastUsed # Unknown /\ lastUsed' = Older(lastUsed) BY <1>11, <2>3 DEF Time, Unknown
    <3>2. lastUsed \in Ages BY <3>1 DEF TypeInv
    <3>3. req[a].silent >= lastUsed BY <2>1, <3>1 DEF SilenceInv
    <3>4. \A m, n \in Ages : m >= n => Older(m) >= Older(n) BY BoundsAssumption DEF Older, Ages
    <3> QED BY <2>1, <2>2, <3>1, <3>2, <3>3, <3>4
  <2>4. ASSUME reaper' # "wait", NEW a \in Active' PROVE req'[a].silent > IdleAfter \/ req'[a].after
    <3>1. a \in Active /\ req'[a].after = req[a].after /\ reaper # "wait" BY <1>11, <2>1, <2>4 DEF Time
    <3>2. CASE req[a].after BY <3>1, <3>2, Zenon
    <3>3. CASE ~req[a].after
      <4>1. req[a].silent > IdleAfter BY <3>1, <3>3, Zenon DEF SilenceInv
      <4>2. Older(req[a].silent) > IdleAfter BY <2>2, <3>1, <4>1, BoundsAssumption DEF Older, Ages
      <4> QED BY <2>1, <4>2, Zenon
    <3> QED BY <3>2, <3>3
  <2> QED BY <2>3, <2>4, Zenon DEF SilenceInv
<1> QED BY <1>3, <1>4, <1>5, <1>6, <1>7, <1>8, <1>9, <1>10, <1>11 DEF Next, Agent, Steps, Fails

\* The reaper stops a command only if its request gave no sign for longer than the idle
\* time, or did so between the reaper's look and the end of the helper.
THEOREM OnlyTheSilentAreReaped == Spec => ReapsTheSilent
<1> DEFINE Reaped == reaper = "remove" /\ helper # NoHelper /\ helper' = NoHelper =>
                        \A a \in Reqs : InHelper(a) => req[a].silent > IdleAfter \/ req[a].after
<1>1. Init => SilenceInv BY IdleRequest DEF Init, SilenceInv, Active
<1>2. TypeInv /\ SilenceInv /\ [Next]_vars => SilenceInv' BY SilenceStep
<1>3. SilenceInv /\ [Next]_vars => [Reaped]_vars
  <2> SUFFICES ASSUME SilenceInv, reaper = "remove", NEW a \in Reqs, InHelper(a)
               PROVE  req[a].silent > IdleAfter \/ req[a].after
    BY Zenon
  <2>1. a \in Active BY DEF InHelper, Active
  <2> QED BY <2>1, Zenon DEF SilenceInv
<1> QED BY <1>1, <1>2, <1>3, TypeInvStep, PTL DEF Spec, ReapsTheSilent
----------------------------------------------------------------------------
(* The removal of the server. *)

\* While a server is removed with nobody beside it nobody makes a helper, so it is gone
\* when its turn is over, and the volume after it.
RemovalInv ==
    removal # "none" /\ ~beside =>
        /\ Active = {} /\ removal # "failed"
        /\ removal \in {"volume", "done"} => helper = NoHelper
        /\ removal = "done" => ~volume

\* Every step keeps it.
LEMMA RemovalStep ==
    ASSUME TypeInv, RemovalInv, [Next]_vars
    PROVE  RemovalInv'
<1>0. ReqOK BY DEF TypeInv
<1>1. ASSUME NEW a \in Reqs, Ask(a) PROVE RemovalInv'
  <2>1. removal' # "none" => beside' BY <1>1, Zenon DEF Ask
  <2> QED BY <2>1, Zenon DEF RemovalInv
<1>2. ASSUME UNCHANGED <<removal, beside>>, Active # {} PROVE RemovalInv' BY <1>2, Zenon DEF RemovalInv
<1>3. ASSUME NEW a \in Reqs, Steps(a) \/ Write(a) \/ CallFails(a) PROVE RemovalInv'
  <2>1. Active # {}
    BY <1>3 DEF Steps, Lock, Inspect, RemoveOld, Create, Start, Exec, Done, CutOff, Write, CallFails, InHelper, Active
  <2>2. UNCHANGED <<removal, beside>>
    BY <1>3, Zenon DEF Steps, Lock, Inspect, RemoveOld, Create, Start, Exec, Done, CutOff, Write, CallFails, ghosts
  <2> QED BY <1>2, <2>1, <2>2
<1>4. CASE Look \/ Forget \/ Reap \/ ReapFails \/ Time \/ UNCHANGED vars
  <2>1. UNCHANGED <<removal, beside, volume>>
    BY <1>4, Zenon DEF Look, Forget, Reap, ReapFails, Time, docker, ghosts, vars
  <2>2. helper' \in {helper, NoHelper} BY <1>4 DEF Look, Forget, Reap, ReapFails, Time, docker, vars
  <2>3. Active' = Active BY <1>0, <1>4 DEF Look, Forget, Reap, ReapFails, Time, vars, Active, ReqOK, Request
  <2> QED BY <2>1, <2>2, <2>3, Zenon DEF RemovalInv
<1>5. CASE AgentDies
  <2>1. Active' = {} BY <1>5, IdleRequest DEF AgentDies, Active
  <2>2. removal' # "none" => removal' = removal /\ removal \notin {"close", "remove", "volume"}
    BY <1>5 DEF AgentDies, Removing
  <2>3. UNCHANGED <<helper, volume, beside>> BY <1>5, Zenon DEF AgentDies, docker
  <2> QED BY <2>1, <2>2, <2>3, Zenon DEF RemovalInv
<1>6. CASE Remove
  <2>1. removal' = "close" /\ (beside' <=> Active # {}) /\ UNCHANGED req BY <1>6, Zenon DEF Remove
  <2>2. Active' = Active BY <2>1 DEF Active
  <2> QED BY <2>1, <2>2 DEF RemovalInv
<1>7. CASE CloseFiles
  <2>1. removal \in {"close", "remove"} /\ removal' \in {"remove", "volume"} BY <1>7 DEF CloseFiles
  <2>2. UNCHANGED <<beside, req>> BY <1>7, Zenon DEF CloseFiles, ghosts
  <2>3. removal' = "volume" => helper' = NoHelper BY <1>7 DEF CloseFiles
  <2>4. Active' = Active BY <2>2 DEF Active
  <2> QED BY <2>1, <2>2, <2>3, <2>4 DEF RemovalInv
<1>8. CASE RemoveVolume
  <2>1. removal = "volume" /\ UNCHANGED <<helper, beside, req>> BY <1>8, Zenon DEF RemoveVolume, ghosts
  <2>2. helper = NoHelper => removal' = "done" /\ ~volume' BY <1>8, Zenon DEF RemoveVolume
  <2>3. Active' = Active BY <2>1 DEF Active
  <2>4. removal' # "none" BY <1>8 DEF RemoveVolume
  <2> QED BY <2>1, <2>2, <2>3, <2>4 DEF RemovalInv
<1> QED BY <1>1, <1>3, <1>4, <1>5, <1>6, <1>7, <1>8 DEF Next, Agent, Fails

\* A server is removed with its helper and its volume, and the removal works the first
\* time, unless a request was on its way beside it.
THEOREM ServersAreRemovedWhole == Spec => []RemovedWhole
<1>1. Init => RemovalInv BY DEF Init, RemovalInv
<1>2. TypeInv /\ RemovalInv /\ [Next]_vars => RemovalInv' BY RemovalStep
<1>3. RemovalInv => RemovedWhole BY DEF RemovalInv, RemovedWhole
<1> QED BY <1>1, <1>2, <1>3, TypeInvStep, PTL DEF Spec
===============================================================================
