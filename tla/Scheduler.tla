------------------------------- MODULE Scheduler -------------------------------
(***************************************************************************)
(* The schedules of a panel: the loop that wakes every minute, the rows it *)
(* reads, executes and writes back, and the requests that create, change,  *)
(* delete and run schedules meanwhile (panel/app/runtime/scheduler.py,     *)
(* panel/app/api/schedules.py).  The clock counts minutes.  A commit       *)
(* writes the columns its coroutine has changed since it read the row, as  *)
(* SQLAlchemy does; a row that is gone fails the whole commit.  What an    *)
(* execution does to the server is ServerManager's subject.                *)
(***************************************************************************)
EXTENDS Integers, FiniteSets

CONSTANTS
    Schedules,     \* ids of schedules
    Reqs,          \* coroutines that serve requests
    Ops,           \* what they are asked to do
    Bodies,        \* what requests ask for: cron n is every n-th minute
    Grants,        \* the sets of permissions a user may have
    MaxTime,       \* bound: the last minute, which stands for all that come after it
    MaxEvents      \* bound: how often the panel ends

AllOps == {"create", "update", "delete", "run"}
AllActions == {"backup", "restart", "start", "stop", "command"}

ASSUME OpsAssumption == Ops \subseteq AllOps
ASSUME BodiesAssumption == Bodies \subseteq [cron : Nat \ {0}, action : AllActions, enabled : BOOLEAN]
ASSUME BoundsAssumption == MaxTime \in Nat /\ MaxEvents \in Nat

VARIABLES
    clock,      \* the minute it is
    rows,       \* the schedules' rows
    loop,       \* the scheduler's own coroutine
    req,        \* what each request is doing
    ran,        \* ghost: the due times of each schedule run since its last change, or the panel's start
    unsaved,    \* ghost: those of them run by a tick that could not be written down
    ends        \* how often the panel has ended

vars == <<clock, rows, loop, req, ran, unsaved, ends>>
history == <<ran, unsaved, ends>>

None == 0       \* no time

\* state tells a row that was never there from one that is gone: ids are not used again.
LiveRow == [state : {"live"}, cron : Nat \ {0}, action : AllActions, enabled : BOOLEAN, next : Nat]
NoRow == [state |-> "new", cron |-> None, action |-> "none", enabled |-> FALSE, next |-> None]
GoneRow == [NoRow EXCEPT !.state = "gone"]
Row == LiveRow \cup {NoRow, GoneRow}

\* What the loop keeps of a row it has read, and of nothing else.
HeldRow == [cron : Nat, next : Nat]
NoneHeld == [s \in Schedules |-> [cron |-> None, next |-> None]]
Loop == [pc : {"down", "skip", "skipped", "asleep", "run", "commit", "dead"}, wake : Nat, now : Nat,
         since : Nat, due : SUBSET Schedules, left : SUBSET Schedules, held : [Schedules -> HeldRow],
         locks : BOOLEAN]
StoppedLoop == [pc |-> "down", wake |-> 0, now |-> 0, since |-> 0, due |-> {}, left |-> {},
                held |-> NoneHeld, locks |-> FALSE]

\* The columns a request writes; "same", and -1 for the times, leave a column alone.
Change == [cron : Nat, action : AllActions \cup {"same"}, enabled : {"yes", "no", "same"},
           next : Nat \cup {-1}]
NoChange == [cron |-> None, action |-> "same", enabled |-> "same", next |-> -1]

Request == [op : Ops \cup {"none"}, id : Schedules \cup {"none"}, held : Row, change : Change,
            pc : {"idle", "apply", "execute", "commit"}]
Idle == [op |-> "none", id |-> "none", held |-> NoRow, change |-> NoChange, pc |-> "idle"]

TypeOK ==
    /\ clock \in 0 .. MaxTime /\ ends \in 0 .. MaxEvents
    /\ rows \in [Schedules -> Row]
    /\ loop \in Loop
    /\ req \in [Reqs -> Request]
    /\ ran \in [Schedules -> SUBSET Nat] /\ unsaved \in [Schedules -> SUBSET Nat]

Init ==
    /\ clock = 0 /\ ends = 0
    /\ rows = [s \in Schedules |-> NoRow]
    /\ loop = StoppedLoop
    /\ req = [a \in Reqs |-> Idle]
    /\ ran = [s \in Schedules |-> {}] /\ unsaved = [s \in Schedules |-> {}]
----------------------------------------------------------------------------
\* next_run: the first time of a timetable after t.
NextRun(cron, t) == ((t \div cron) + 1) * cron

Live(s) == rows[s].state = "live"
Held(due) == [s \in Schedules |-> IF s \in due THEN [cron |-> rows[s].cron, next |-> rows[s].next]
                                  ELSE [cron |-> None, next |-> None]]

\* The columns of an object that were given another value than they had.
Changes(held, body, next) ==
    [cron |-> IF body.cron = held.cron THEN None ELSE body.cron,
     action |-> IF body.action = held.action THEN "same" ELSE body.action,
     enabled |-> IF body.enabled = held.enabled THEN "same" ELSE IF body.enabled THEN "yes" ELSE "no",
     next |-> IF next = held.next THEN -1 ELSE next]
\* What a commit makes of a row.
Merged(row, change) ==
    [row EXCEPT !.state = "live",
                !.cron = IF change.cron = None THEN @ ELSE change.cron,
                !.action = IF change.action = "same" THEN @ ELSE change.action,
                !.enabled = IF change.enabled = "same" THEN @ ELSE change.enabled = "yes",
                !.next = IF change.next = -1 THEN @ ELSE change.next]

ActionPermission(action) ==
    CASE action = "backup" -> "backups" [] action = "command" -> "console" [] OTHER -> "control"
\* require_action_permission
Permitted(granted, actions) == \A x \in actions : ActionPermission(x) \in granted

----------------------------------------------------------------------------
(* The loop. *)

DueAt(t) == {s \in Schedules : Live(s) /\ rows[s].enabled /\ rows[s].next \in 1 .. t}

\* skip_missed reads the enabled rows whose time has passed.
SkipMissed ==
    /\ loop.pc = "skip"
    /\ LET stale == DueAt(clock)
       IN  loop' = [loop EXCEPT !.pc = "skipped", !.now = clock, !.due = stale, !.held = Held(stale)]
    /\ UNCHANGED <<clock, rows, req, history>>

Sleep == loop' = [loop EXCEPT !.pc = "asleep", !.wake = IF clock < MaxTime THEN clock + 1 ELSE MaxTime,
                              !.now = 0, !.due = {}, !.left = {}, !.held = NoneHeld, !.locks = FALSE]
\* The rows of a batch move on to the first time after its start, by the timetable it read.
MovedOn == [s \in Schedules |->
              IF s \in loop.due THEN [rows[s] EXCEPT !.next = NextRun(loop.held[s].cron, loop.now)] ELSE rows[s]]

\* A row deleted since fails the commit, and nothing in the loop catches that here.
SkipCommit ==
    /\ loop.pc = "skipped"
    /\ IF \A s \in loop.due : Live(s)
       THEN rows' = MovedOn /\ Sleep
       ELSE loop' = [StoppedLoop EXCEPT !.pc = "dead"] /\ UNCHANGED rows
    /\ UNCHANGED <<clock, req, history>>

\* tick reads the rows that are due and holds them.
Wake ==
    /\ loop.pc = "asleep" /\ clock >= loop.wake
    /\ IF DueAt(clock) = {} THEN Sleep
       ELSE loop' = [loop EXCEPT !.pc = "run", !.now = clock, !.due = DueAt(clock),
                                 !.left = DueAt(clock), !.held = Held(DueAt(clock))]
    /\ UNCHANGED <<clock, rows, req, history>>

\* What the tick has run so far, and a tick that ends on an exception: it is logged, and
\* nothing of it is kept.
Done == loop.due \ loop.left
TickFails ==
    /\ unsaved' = [s \in Schedules |-> unsaved[s] \cup IF s \in Done /\ Live(s) THEN {loop.held[s].next} ELSE {}]
    /\ Sleep
    /\ UNCHANGED <<clock, rows, req, ran, ends>>

\* The earliest first.  A server that the session does not hold yet is read, and before it
\* reads the session writes what it has changed: that fails if one of those rows is gone,
\* and else no other session commits before this one does.  execute ends ok, skipped or
\* failed, and the timetable goes on from the start of the tick all the same.
Execute ==
    /\ loop.pc = "run"
    /\ \E s \in loop.left, flush \in BOOLEAN :
          /\ \A other \in loop.left : loop.held[s].next <= loop.held[other].next
          /\ flush => \A done \in Done : Live(done)
          /\ loop' = [loop EXCEPT !.left = @ \ {s}, !.pc = IF loop.left = {s} THEN "commit" ELSE "run",
                                  !.locks = @ \/ (flush /\ Done # {})]
          /\ ran' = [ran EXCEPT ![s] = @ \cup {loop.held[s].next}]
    /\ UNCHANGED <<clock, rows, req, unsaved, ends>>

ExecuteFails ==
    /\ loop.pc = "run"
    /\ \E done \in Done : ~Live(done)
    /\ TickFails

\* Mutants of TickCommit: it writes rows that are gone; it forgets to move the timetables
\* on; a failed commit ends the loop.
TickCommitBlind ==
    /\ loop.pc = "commit"
    /\ rows' = MovedOn /\ Sleep
    /\ UNCHANGED <<clock, req, history>>
TickCommitLast ==
    /\ loop.pc = "commit"
    /\ Sleep
    /\ UNCHANGED <<clock, rows, req, history>>
TickCommitDies ==
    /\ loop.pc = "commit"
    /\ IF \A s \in loop.due : Live(s)
       THEN rows' = MovedOn /\ Sleep
       ELSE loop' = [StoppedLoop EXCEPT !.pc = "dead"] /\ UNCHANGED rows
    /\ UNCHANGED <<clock, req, history>>

\* One commit for all: it fails as a whole if a row is gone, and the loop goes on.
TickCommit ==
    /\ loop.pc = "commit"
    /\ IF \A s \in loop.due : Live(s)
       THEN rows' = MovedOn /\ Sleep /\ UNCHANGED <<clock, req, history>>
       ELSE TickFails
----------------------------------------------------------------------------
(* Requests. *)

Finish(a) == req' = [req EXCEPT ![a] = Idle]

\* get_schedule_or_404
Load(a) ==
    /\ loop.pc # "down" /\ req[a] = Idle
    /\ \E op \in Ops \cap {"update", "run"}, s \in Schedules :
          /\ Live(s)
          /\ req' = [req EXCEPT ![a] = [Idle EXCEPT !.op = op, !.id = s, !.held = rows[s],
                                                    !.pc = IF op = "run" THEN "execute" ELSE "apply"]]
    /\ UNCHANGED <<clock, rows, loop, history>>

Refused(a) ==
    /\ req[a].pc \in {"apply", "execute"}
    /\ Finish(a)
    /\ UNCHANGED <<clock, rows, loop, history>>

NewTime(body) == IF body.enabled THEN NextRun(body.cron, clock) ELSE None

\* An update needs the right to what the schedule does and to what it is to do.
Touched(r, body) == {body.action, r.held.action}

\* The mutant of Apply starts the timetable anew only when it is another one.
ApplyKeeps(a) ==
    LET r == req[a] IN
    /\ r.pc = "apply"
    /\ \E body \in Bodies, granted \in Grants :
          /\ Permitted(granted, Touched(r, body))
          /\ req' = [req EXCEPT ![a].pc = "commit", ![a].held = NoRow, ![a].change =
                Changes(r.held, body, IF ~body.enabled THEN None ELSE IF r.held.cron = body.cron THEN r.held.next
                                      ELSE NextRun(body.cron, clock))]
    /\ UNCHANGED <<clock, rows, loop, history>>

\* require_action_permission, then apply: all fields, and a timetable from now on.
Apply(a) ==
    LET r == req[a] IN
    /\ r.pc = "apply"
    /\ \E body \in Bodies, granted \in Grants :
          /\ Permitted(granted, Touched(r, body))
          /\ req' = [req EXCEPT ![a].pc = "commit", ![a].held = NoRow, ![a].change =
                Changes(r.held, body, NewTime(body))]
    /\ UNCHANGED <<clock, rows, loop, history>>

Create(a) ==
    /\ loop.pc # "down" /\ ~loop.locks /\ req[a] = Idle /\ "create" \in Ops
    /\ \E s \in Schedules, body \in Bodies, granted \in Grants :
          /\ rows[s].state = "new" /\ Permitted(granted, {body.action})
          /\ rows' = [rows EXCEPT ![s] = Merged(NoRow, Changes(NoRow, body, NewTime(body)))]
    /\ UNCHANGED <<clock, loop, req, history>>

\* An update that finds its row gone fails, and so does one that has waited too long for
\* the tick's commit.
Update(a) ==
    LET r == req[a] IN
    /\ r.pc = "commit"
    /\ IF Live(r.id) /\ ~loop.locks
       THEN /\ rows' = [rows EXCEPT ![r.id] = Merged(@, r.change)]
            /\ ran' = [ran EXCEPT ![r.id] = {}] /\ unsaved' = [unsaved EXCEPT ![r.id] = {}]
       ELSE UNCHANGED <<rows, ran, unsaved>>
    /\ Finish(a)
    /\ UNCHANGED <<clock, loop, ends>>

Delete(a) ==
    /\ loop.pc # "down" /\ ~loop.locks /\ req[a] = Idle /\ "delete" \in Ops
    /\ \E s \in Schedules :
          /\ Live(s) /\ rows' = [rows EXCEPT ![s] = GoneRow]
          /\ ran' = [ran EXCEPT ![s] = {}] /\ unsaved' = [unsaved EXCEPT ![s] = {}]
    /\ UNCHANGED <<clock, loop, req, ends>>

\* run_schedule_now executes what it was allowed to; it writes how that went, and no
\* time to run at.
RunNow(a) ==
    /\ req[a].pc = "execute"
    /\ \E granted \in Grants : Permitted(granted, {req[a].held.action})
    /\ Finish(a)
    /\ UNCHANGED <<clock, rows, loop, history>>
----------------------------------------------------------------------------
\* A loop that sleeps wakes in time; one that executes may take minutes.
Minute ==
    /\ clock < MaxTime
    /\ loop.pc = "asleep" => clock < loop.wake
    /\ clock' = clock + 1
    /\ UNCHANGED <<rows, loop, req, history>>

\* The panel ends, or is shut down: the loop is cancelled and commits nothing.
PanelEnds ==
    /\ loop.pc # "down" /\ ends < MaxEvents
    /\ ends' = ends + 1
    /\ loop' = StoppedLoop /\ req' = [a \in Reqs |-> Idle]
    /\ ran' = [s \in Schedules |-> {}] /\ unsaved' = [s \in Schedules |-> {}]
    /\ UNCHANGED <<clock, rows>>

Start ==
    /\ loop.pc = "down"
    /\ loop' = [StoppedLoop EXCEPT !.pc = "skip", !.since = clock]
    /\ UNCHANGED <<clock, rows, req, history>>
----------------------------------------------------------------------------
Serve(a) ==
    \/ Load(a) \/ Refused(a) \/ Apply(a) \/ Create(a) \/ Update(a) \/ Delete(a) \/ RunNow(a)
LoopStep == SkipMissed \/ SkipCommit \/ Wake \/ Execute \/ ExecuteFails \/ TickCommit
Next == LoopStep \/ Minute \/ PanelEnds \/ Start \/ \E a \in Reqs : Serve(a)

Spec == Init /\ [][Next]_vars
FairSpec == Spec /\ WF_vars(LoopStep) /\ WF_vars(Minute) /\ WF_vars(Start)
----------------------------------------------------------------------------
(* Properties. *)

\* Runs missed while the panel was down are skipped, not replayed: what a tick holds
\* was due after the panel came up, whatever was changed while skip_missed worked.
MissedSkipped == loop.pc = "run" => \A s \in loop.due : loop.held[s].next > loop.since

\* A due time that was run is not run again, unless the schedule was changed since, or
\* the tick that ran it could not be written down because a schedule of that tick was
\* deleted: then the next tick runs what is left of it once more.
RunsAgainOnlyUnsaved ==
    loop.pc = "run" => \A s \in loop.left : loop.held[s].next \in ran[s] => loop.held[s].next \in unsaved[s]

\* A time that comes due while the panel is up is run once, or again after a tick that
\* lost its record; one that came due while it was down is not run.
EachOnce == MissedSkipped /\ RunsAgainOnlyUnsaved

\* An enabled schedule has a time to run at, within one run of some timetable,
\* whichever of a tick and a change wrote its columns last.  It need not be a time of
\* its own timetable: a tick writes back the one it read.
LongestCron == CHOOSE c \in {b.cron : b \in Bodies} : \A b \in Bodies : b.cron <= c
EnabledHasNext ==
    \A s \in Schedules : rows[s].enabled => rows[s].next \in 1 .. clock + LongestCron

\* A schedule that is due does not stay due while the panel is up: a tick runs it and
\* moves it on, or somebody changes or deletes it, whatever becomes of the other schedules
\* of the tick.
DueIsRun ==
    \A s \in Schedules :
        (s \in DueAt(clock) /\ loop.pc = "asleep") ~> (s \notin DueAt(clock) \/ loop.pc = "down")
============================================================================
