------------------------------ MODULE FileHelper ------------------------------
(***************************************************************************)
(* The helper container of one server's files: started on demand by the    *)
(* first request, shared by all, removed by the reaper after an idle time  *)
(* and by the removal of the server (agent/internal/files/files.go,        *)
(* Remove in agent/internal/runtime/runtime.go).  An action is a call of   *)
(* Docker, or what the agent does under one of its mutexes; Docker itself  *)
(* is external.                                                            *)
(***************************************************************************)
EXTENDS Naturals

CONSTANTS
    Reqs,        \* requests of the panel
    Kinds,       \* what they are: a short command, a stream, a replaced volume
    IdleAfter,   \* how many times time passes while a helper may stay unused
    MaxUses,     \* bound: how many requests there are in all
    Events,      \* what may go wrong, and whether the server is removed
    MaxEvents    \* bound: how often it does

ASSUME KindsAssumption == Kinds \subseteq {"run", "stream", "restore"}
ASSUME EventsAssumption == Events \subseteq {"dockerFails", "agentDies", "removed"}
ASSUME BoundsAssumption == IdleAfter \in Nat /\ MaxUses \in Nat /\ MaxEvents \in Nat

VARIABLES
    helper,     \* the container of the helper's name: which one it is, and how far
    volume,     \* whether there is a volume
    lock,       \* who holds the server's mutex
    lastUsed,   \* how long ago the helper was used, if the agent knows
    req,        \* what each request is doing
    reaper,     \* what the reaper is doing
    removal,    \* how far the removal of the server is
    uses,       \* how many requests there were
    events,     \* how often something went wrong
    beside,     \* a request was there while the server was being removed
    untracked   \* the agent forgot a helper that stays, or that a request was about to make

vars == <<helper, volume, lock, lastUsed, req, reaper, removal, uses, events, beside, untracked>>
docker == <<helper, volume>>
ghosts == <<uses, events, beside, untracked>>

Ages == 0 .. IdleAfter + 1
Unknown == IdleAfter + 2
Free == "free"
ASSUME ReqsAssumption == Free \notin Reqs

NoHelper == [id |-> 0, state |-> "none"]

\* next is the command of a replaced volume that is still to come; silent is how long
\* ago it last marked the helper as used; after tells that it did since the reaper looked.
Request == [pc : {"idle", "lock", "inspect", "remove", "create", "start", "exec", "work"}, kind : Kinds \cup {"none"},
            next : {"none", "extract"}, box : 0 .. 2 * MaxUses, silent : Ages, after : BOOLEAN]
Idle == [pc |-> "idle", kind |-> "none", next |-> "none", box |-> 0, silent |-> 0, after |-> FALSE]

TypeOK ==
    /\ helper \in [id : 0 .. 2 * MaxUses, state : {"none", "created", "running"}]
    /\ volume \in BOOLEAN
    /\ lock = Free \/ \E a \in Reqs : lock = a /\ req[a].pc \in {"inspect", "remove", "create", "start"}
    /\ lastUsed \in Ages \cup {Unknown}
    /\ req \in [Reqs -> Request]
    /\ reaper \in {"wait", "close", "remove"}
    /\ removal \in {"none", "close", "remove", "volume", "done", "failed"}
    /\ uses \in 0 .. MaxUses /\ events \in 0 .. MaxEvents
    /\ beside \in BOOLEAN /\ untracked \in BOOLEAN

Init ==
    /\ helper = NoHelper /\ volume = TRUE
    /\ lock = Free /\ lastUsed = Unknown
    /\ req = [a \in Reqs |-> Idle]
    /\ reaper = "wait" /\ removal = "none"
    /\ uses = 0 /\ events = 0 /\ beside = FALSE /\ untracked = FALSE
----------------------------------------------------------------------------
Goto(a, pc) == req' = [req EXCEPT ![a].pc = pc]
Answer(a) == req' = [req EXCEPT ![a] = Idle]
Older(age) == IF age < IdleAfter + 1 THEN age + 1 ELSE age
Active == {a \in Reqs : req[a].pc # "idle"}
Removing == removal \in {"close", "remove", "volume"}
Forgotten ==
    /\ lastUsed' = Unknown
    /\ untracked' = (untracked \/ \E a \in Reqs : req[a].pc \in {"lock", "inspect", "remove", "create", "start"})
\* The helper has the command's process: it is the one the command was started in.
InHelper(a) == req[a].pc = "work" /\ helper.state = "running" /\ req[a].box = helper.id
----------------------------------------------------------------------------
(* A command in the helper. *)

\* Mutant of Ask: the use is not noted.
AskUnnoted(a) ==
    /\ req[a].pc = "idle" /\ uses < MaxUses /\ removal # "done"
    /\ \E k \in Kinds : req' = [req EXCEPT ![a] = [Idle EXCEPT !.pc = "lock", !.kind = k, !.after = TRUE]]
    /\ uses' = uses + 1 /\ beside' = (beside \/ removal # "none")
    /\ UNCHANGED <<docker, lock, lastUsed, reaper, removal, events, untracked>>
\* serverLock notes the use; the panel asks for nothing of a server that is gone.
Ask(a) ==
    /\ req[a].pc = "idle" /\ uses < MaxUses /\ removal # "done"
    /\ \E k \in Kinds :
          req' = [req EXCEPT ![a] = [Idle EXCEPT !.pc = "lock", !.kind = k, !.after = TRUE,
                                                 !.next = IF k = "restore" THEN "extract" ELSE "none"]]
    /\ lastUsed' = 0
    /\ uses' = uses + 1 /\ beside' = (beside \/ removal # "none")
    /\ UNCHANGED <<docker, lock, reaper, removal, events, untracked>>

\* Mutant of Lock: a mutex per request.
LockNothing(a) ==
    /\ req[a].pc = "lock" /\ lock' = a
    /\ Goto(a, "inspect")
    /\ UNCHANGED <<docker, lastUsed, reaper, removal, ghosts>>
Lock(a) ==
    /\ req[a].pc = "lock" /\ lock = Free /\ lock' = a
    /\ Goto(a, "inspect")
    /\ UNCHANGED <<docker, lastUsed, reaper, removal, ghosts>>

\* A running helper is used, one that never started is removed first.
Inspect(a) ==
    /\ req[a].pc = "inspect"
    /\ CASE helper.state = "running" -> Goto(a, "exec") /\ lock' = Free
         [] helper.state = "created" -> Goto(a, "remove") /\ UNCHANGED lock
         [] OTHER -> Goto(a, "create") /\ UNCHANGED lock
    /\ UNCHANGED <<docker, lastUsed, reaper, removal, ghosts>>

RemoveOld(a) ==
    /\ req[a].pc = "remove" /\ helper' = NoHelper
    /\ Goto(a, "create")
    /\ UNCHANGED <<volume, lock, lastUsed, reaper, removal, ghosts>>

\* A name in use is refused; a volume that is missing is made.
Create(a) ==
    /\ req[a].pc = "create"
    /\ IF helper = NoHelper
       THEN /\ \E id \in 1 .. 2 * MaxUses :
                  /\ \A b \in Reqs : req[b].box # id
                  /\ \A j \in 1 .. id - 1 : \E b \in Reqs : req[b].box = j
                  /\ helper' = [id |-> id, state |-> "created"]
            /\ volume' = TRUE
            /\ Goto(a, "start") /\ UNCHANGED lock
       ELSE Answer(a) /\ lock' = Free /\ UNCHANGED docker
    /\ UNCHANGED <<lastUsed, reaper, removal, ghosts>>

Start(a) ==
    /\ req[a].pc = "start" /\ lock' = Free
    /\ IF helper = NoHelper THEN Answer(a) /\ UNCHANGED helper
       ELSE helper' = [helper EXCEPT !.state = "running"] /\ Goto(a, "exec")
    /\ UNCHANGED <<volume, lastUsed, reaper, removal, ghosts>>

\* Exec, or ContainerExtract: refused without a running helper.
Exec(a) ==
    /\ req[a].pc = "exec"
    /\ IF helper.state = "running"
       THEN req' = [req EXCEPT ![a].pc = "work", ![a].box = helper.id]
       ELSE Answer(a)
    /\ UNCHANGED <<docker, lock, lastUsed, reaper, removal, ghosts>>

\* Mutant of Write: a stream does not count as use.
WriteUnseen(a) ==
    /\ InHelper(a) /\ req[a].kind = "stream" /\ req[a].silent > 0
    /\ req' = [req EXCEPT ![a].silent = 0]
    /\ UNCHANGED <<docker, lock, lastUsed, reaper, removal, ghosts>>
\* touchingWriter: a stream that goes on marks the helper as in use.
Write(a) ==
    /\ InHelper(a) /\ req[a].kind = "stream" /\ req[a].silent > 0
    /\ req' = [req EXCEPT ![a].silent = 0, ![a].after = TRUE]
    /\ lastUsed' = 0
    /\ UNCHANGED <<docker, lock, reaper, removal, ghosts>>

\* The command ends; replacing a volume goes on with the next one, from helper again.
Done(a) ==
    /\ InHelper(a)
    /\ IF req[a].next = "none" THEN Answer(a) /\ UNCHANGED lastUsed
       ELSE /\ req' = [req EXCEPT ![a] = [Idle EXCEPT !.pc = "lock", !.kind = req[a].kind, !.after = TRUE]]
            /\ lastUsed' = 0
    /\ UNCHANGED <<docker, lock, reaper, removal, ghosts>>

\* The helper went from under the command: its stream ends, it has no exit code.
CutOff(a) ==
    /\ req[a].pc = "work" /\ ~InHelper(a)
    /\ Answer(a)
    /\ UNCHANGED <<docker, lock, lastUsed, reaper, removal, ghosts>>

\* Mutant of CallFails: an error leaves the mutex locked.
CallFailsLocked(a) ==
    /\ req[a].pc \notin {"idle", "lock"} /\ Answer(a)
    /\ events' = events + 1
    /\ UNCHANGED <<docker, lock, lastUsed, reaper, removal, uses, beside, untracked>>
\* Any call of Docker may fail; the mutex is unlocked as the function returns.
CallFails(a) ==
    /\ req[a].pc \notin {"idle", "lock"} /\ Answer(a)
    /\ lock' = IF lock = a THEN Free ELSE lock
    /\ events' = events + 1
    /\ UNCHANGED <<docker, lastUsed, reaper, removal, uses, beside, untracked>>
----------------------------------------------------------------------------
(* The reaper, and the removal of the server. *)

\* ReapIdle looks under the lock of the agent ...
Look ==
    /\ reaper = "wait" /\ lastUsed = IdleAfter + 1
    /\ reaper' = "close"
    /\ req' = [a \in Reqs |-> [req[a] EXCEPT !.after = FALSE]]
    /\ UNCHANGED <<docker, lock, lastUsed, removal, ghosts>>

\* ... and closes after it: Close forgets the helper,
Forget ==
    /\ reaper = "close" /\ reaper' = "remove"
    /\ Forgotten
    /\ UNCHANGED <<docker, lock, req, removal, uses, events, beside>>

\* and has Docker remove it.
Reap ==
    /\ reaper = "remove" /\ reaper' = "wait"
    /\ helper' = NoHelper
    /\ UNCHANGED <<volume, lock, lastUsed, req, removal, ghosts>>

ReapFails ==
    /\ reaper = "remove" /\ reaper' = "wait"
    /\ events' = events + 1 /\ untracked' = TRUE
    /\ UNCHANGED <<docker, lock, lastUsed, req, removal, uses, beside>>

\* Remove: the helper keeps the volume in use, so it goes first.
Remove ==
    /\ "removed" \in Events /\ removal = "none" /\ removal' = "close"
    /\ beside' = (Active # {})
    /\ UNCHANGED <<docker, lock, lastUsed, req, reaper, uses, events, untracked>>

\* Mutant of CloseFiles: the helper is left alone.
CloseFilesNot ==
    /\ removal = "close" /\ removal' = "volume"
    /\ UNCHANGED <<docker, lock, lastUsed, req, reaper, ghosts>>
CloseFiles ==
    \/ /\ removal = "close" /\ removal' = "remove"
       /\ Forgotten
       /\ UNCHANGED <<docker, lock, req, reaper, uses, events, beside>>
    \/ /\ removal = "remove" /\ removal' = "volume"
       /\ helper' = NoHelper
       /\ UNCHANGED <<volume, lock, lastUsed, req, reaper, ghosts>>

\* A volume in use is not removed.
RemoveVolume ==
    /\ removal = "volume"
    /\ IF helper = NoHelper THEN volume' = FALSE /\ removal' = "done" ELSE removal' = "failed" /\ UNCHANGED volume
    /\ UNCHANGED <<helper, lock, lastUsed, req, reaper, ghosts>>

\* The agent starts again and knows of no helper; the panel loses its requests.
AgentDies ==
    /\ req' = [a \in Reqs |-> Idle] /\ lock' = Free /\ lastUsed' = Unknown
    /\ reaper' = "wait" /\ removal' = IF Removing THEN "none" ELSE removal
    /\ events' = events + 1 /\ untracked' = TRUE
    /\ UNCHANGED <<docker, uses, beside>>

Time ==
    /\ lastUsed \in 0 .. IdleAfter \/ \E a \in Active : req[a].silent <= IdleAfter
    /\ lastUsed' = IF lastUsed = Unknown THEN Unknown ELSE Older(lastUsed)
    /\ req' = [a \in Reqs |-> IF a \in Active THEN [req[a] EXCEPT !.silent = Older(@)] ELSE req[a]]
    /\ UNCHANGED <<docker, lock, reaper, removal, ghosts>>
----------------------------------------------------------------------------
Steps(a) ==
    \/ Lock(a) \/ Inspect(a) \/ RemoveOld(a) \/ Create(a) \/ Start(a) \/ Exec(a) \/ Done(a) \/ CutOff(a)
Agent == Look \/ Forget \/ Reap \/ CloseFiles \/ RemoveVolume
Fails ==
    /\ events < MaxEvents
    /\ \/ "dockerFails" \in Events /\ (ReapFails \/ \E a \in Reqs : CallFails(a))
       \/ "agentDies" \in Events /\ AgentDies
Next == Agent \/ Remove \/ Time \/ Fails \/ \E a \in Reqs : Ask(a) \/ Steps(a) \/ Write(a)
Spec == Init /\ [][Next]_vars

\* Docker answers, commands end, the reaper's ticker ticks and time passes.
FairSpec ==
    /\ Spec
    /\ WF_vars(Look) /\ WF_vars(Forget) /\ WF_vars(Reap) /\ WF_vars(CloseFiles) /\ WF_vars(RemoveVolume)
    /\ WF_vars(Time) /\ \A a \in Reqs : WF_vars(Steps(a))
----------------------------------------------------------------------------
(* Properties. *)

\* Two requests never both make the helper: a request that is about to finds none.
OneMaker == \A a \in Reqs : req[a].pc = "create" => helper = NoHelper

\* The reaper stops a command only if its request gave no sign for longer than the idle
\* time, or did so between the reaper's look and the end of the helper.
ReapsTheSilent ==
    [][reaper = "remove" /\ helper # NoHelper /\ helper' = NoHelper =>
          \A a \in Reqs : InHelper(a) => req[a].silent > IdleAfter \/ req[a].after]_vars

\* A server is removed with its helper and its volume, and the removal works the first
\* time, unless a request was on its way beside it.
RemovedWhole ==
    ~beside => removal # "failed" /\ (removal = "done" => helper = NoHelper /\ ~volume)

\* A helper nobody uses goes.  Not so when the reaper forgets it while a request that has
\* marked it as used waits for it.
IdleHelperGoes == helper # NoHelper ~> helper = NoHelper

\* All requests are answered in the end, whatever fails: nobody waits for a mutex for ever.
Answered == Active # {} ~> Active = {}

\* A helper nobody uses goes, unless Docker fails to remove it, the agent starts again, or
\* it is forgotten while a request waits for it.
IdleGoes == helper # NoHelper ~> (helper = NoHelper \/ untracked)
============================================================================
