------------------------------ MODULE BackupStore ------------------------------
(***************************************************************************)
(* The backups of one server: their rows and their archive files, the      *)
(* background task that makes one, schedules that keep only their newest,  *)
(* and what cancellation, failure and a restart of the panel do to them    *)
(* (panel/app/runtime/manager.py, panel/app/api/backups.py).  What other   *)
(* tasks of the server do is ServerManager's subject: here they only keep  *)
(* the task busy.  An action ends where the coroutine awaits.              *)
(***************************************************************************)
EXTENDS Integers, FiniteSets, FiniteSetsExt

CONSTANTS
    Reqs,          \* coroutines that serve requests or due schedules
    Ops,           \* what they are asked to do
    Keep,          \* how many backups the schedule keeps
    Limit,         \* the server's room for backups
    Sizes,         \* what an archive may come to, known only when it is done
    MaxBackups,    \* bound: how many backups are made
    Events,        \* what may go wrong
    MaxEvents      \* bound: how many of those kinds, each once

AllOps == {"create", "schedule", "remove", "other", "delete"}
AllEvents == {"archiveFails", "commandFails", "pruneFails", "removeFails", "panelDies", "shutdown"}

ASSUME OpsAssumption == Ops \subseteq AllOps /\ Events \subseteq AllEvents
ASSUME BoundsAssumption ==
    Keep \in Nat \ {0} /\ Limit \in Nat /\ Sizes \subseteq Nat \ {0} /\ MaxBackups \in Nat /\ MaxEvents \in Nat

Ids == 1 .. MaxBackups      \* in the order of created_at

VARIABLES
    server,     \* the server's row exists
    rows,       \* the backups' rows; status "none" before and after
    files,      \* the archive of each backup
    made,       \* how many backups were ever recorded
    thinned,    \* ghost: somebody deleted a schedule's backup while it made one
    req,        \* what each request is doing
    task,       \* the server's background task
    saves,      \* the running game saves its world by itself
    up,         \* the panel runs
    events      \* what has gone wrong so far

vars == <<server, rows, files, made, thinned, req, task, saves, up, events>>
store == <<server, rows, files, made, thinned>>

Op == AllOps \cup {"none"}

Row == [status : {"none", "creating", "ready", "failed"}, op : Op, size : {0} \cup Sizes]
NoRow == [status |-> "none", op |-> "none", size |-> 0]

Request == [op : Op, id : Ids \cup {0}, used : Int,
            pc : {"idle", "check", "space", "pruned", "insert", "spawn", "get", "unlink",
                  "drop", "cancel", "await", "remove", "rmtree", "cascade"}]
Idle == [op |-> "none", id |-> 0, used |-> 0, pc |-> "idle"]

Task == [op : Op, id : Ids \cup {0}, running : BOOLEAN, ok : BOOLEAN,
         olds : SUBSET Ids, left : SUBSET Ids, cancelled : BOOLEAN,
         pc : {"none", "begin", "before", "wait", "open", "archive", "after", "finish", "select",
               "prune", "end", "fail", "failed"}]
NoTask == [op |-> "none", id |-> 0, running |-> FALSE, ok |-> FALSE, olds |-> {},
           left |-> {}, cancelled |-> FALSE, pc |-> "none"]

TypeOK ==
    /\ server \in BOOLEAN
    /\ rows \in [Ids -> Row]
    /\ files \in [Ids -> {"none", "partial", "whole"}]
    /\ made \in 0 .. MaxBackups
    /\ thinned \in BOOLEAN
    /\ req \in [Reqs -> Request]
    /\ task \in Task
    /\ saves \in BOOLEAN
    /\ up \in BOOLEAN
    /\ events \subseteq Events

Init ==
    /\ server = TRUE /\ up = TRUE /\ saves = TRUE
    /\ rows = [b \in Ids |-> NoRow] /\ files = [b \in Ids |-> "none"] /\ made = 0 /\ thinned = FALSE
    /\ req = [a \in Reqs |-> Idle] /\ task = NoTask
    /\ events = {}
----------------------------------------------------------------------------
Fails(kind) ==
    /\ kind \in Events \ events /\ Cardinality(events) < MaxEvents
    /\ events' = events \cup {kind}
Works == UNCHANGED events

Busy == task # NoTask
Finish(a) == req' = [req EXCEPT ![a] = Idle]
Goto(a, pc) == req' = [req EXCEPT ![a].pc = pc]
Spawn(t) == task' = IF Busy THEN task ELSE t

At(pc) == task.pc = pc /\ ~task.cancelled
Step(pc) == task' = [task EXCEPT !.pc = pc] /\ UNCHANGED req

\* The end of the task resumes the deletes that wait for it.
EndTask ==
    /\ task' = NoTask
    /\ req' = [a \in Reqs |-> IF req[a].pc = "await" THEN [req[a] EXCEPT !.pc = "remove"] ELSE req[a]]

\* What the backups bs take up by rows r.
Bytes(r, bs) == MapThenSumSet(LAMBDA b : r[b].size, bs)

\* Mutant of Scheduled: backups made by hand count as well.
AllReady == {b \in Ids : rows[b].status = "ready"}
\* The schedule's backups that are ready, and those beyond its newest n.
Scheduled == {b \in Ids : rows[b].op = "schedule" /\ rows[b].status = "ready"}
Beyond(n) == {b \in Scheduled : Cardinality({c \in Scheduled : c > b}) >= n}
----------------------------------------------------------------------------
Ask(a) ==
    /\ up /\ server /\ req[a] = Idle
    /\ \E op \in Ops : req' = [req EXCEPT ![a] = [Idle EXCEPT !.op = op, !.pc =
          CASE op = "remove" -> "get" [] op = "delete" -> "cancel" [] OTHER -> "check"]]
    /\ UNCHANGED <<store, task, saves, up, events>>

\* _require_installed, for a backup and for whatever else has a task.
Check(a) ==
    /\ req[a].pc = "check"
    /\ IF Busy \/ ~server THEN Finish(a) /\ UNCHANGED task
       ELSE IF req[a].op = "other"
            THEN Finish(a) /\ Spawn([NoTask EXCEPT !.op = "other", !.pc = "end"])
            ELSE Goto(a, "space") /\ UNCHANGED task
    /\ UNCHANGED <<store, saves, up, events>>

\* Mutant of ReadUsage: full only when over the limit.
ReadUsageLate(a) ==
    /\ req[a].pc = "space"
    /\ LET used == Bytes(rows, Ids)
       IN  IF req[a].op = "create" /\ used > Limit THEN Finish(a)
           ELSE req' = [req EXCEPT ![a].used = used,
                                   ![a].pc = IF req[a].op = "create" THEN "insert" ELSE "pruned"]
    /\ UNCHANGED <<store, task, saves, up, events>>

\* _require_backup_space sums the sizes of all rows; for a schedule a second
\* statement takes off what it will prune.  It asks for some room, not for as much
\* as the archive to come will take.
ReadUsage(a) ==
    /\ req[a].pc = "space"
    /\ LET used == Bytes(rows, Ids)
       IN  IF req[a].op = "create" /\ used >= Limit THEN Finish(a)
           ELSE req' = [req EXCEPT ![a].used = used,
                                   ![a].pc = IF req[a].op = "create" THEN "insert" ELSE "pruned"]
    /\ UNCHANGED <<store, task, saves, up, events>>

ReadPruned(a) ==
    /\ req[a].pc = "pruned"
    /\ IF req[a].used - Bytes(rows, Beyond(Keep - 1)) >= Limit THEN Finish(a) ELSE Goto(a, "insert")
    /\ UNCHANGED <<store, task, saves, up, events>>

\* The row is committed; the server's row must exist (foreign key).
Insert(a) ==
    /\ req[a].pc = "insert" /\ made < MaxBackups
    /\ IF ~server THEN Finish(a) /\ UNCHANGED <<made, rows>>
       ELSE /\ made' = made + 1
            /\ rows' = [rows EXCEPT ![made + 1] =
                  [status |-> "creating", op |-> req[a].op, size |-> 0]]
            /\ req' = [req EXCEPT ![a].pc = "spawn", ![a].id = made + 1]
    /\ UNCHANGED <<server, files, thinned, task, saves, up, events>>

SpawnBackup(a) ==
    /\ req[a].pc = "spawn"
    /\ Finish(a)
    /\ Spawn([NoTask EXCEPT !.op = req[a].op, !.pc = "begin", !.id = req[a].id])
    /\ UNCHANGED <<store, saves, up, events>>

\* delete_backup: not while it is being made; the file first, then the row.
GetBackup(a) ==
    /\ req[a].pc = "get"
    /\ \/ \E b \in Ids :
             /\ rows[b].status \in {"ready", "failed"}
             /\ req' = [req EXCEPT ![a].pc = "unlink", ![a].id = b]
       \/ Finish(a)
    /\ UNCHANGED <<store, task, saves, up, events>>

UnlinkBackup(a) ==
    /\ req[a].pc = "unlink" /\ Goto(a, "drop")
    /\ files' = [files EXCEPT ![req[a].id] = "none"]
    /\ UNCHANGED <<server, rows, made, thinned, task, saves, up, events>>

\* Mutant of DropBackup: the row stays.
DropNothing(a) == req[a].pc = "drop" /\ Finish(a) /\ UNCHANGED <<store, task, saves, up, events>>

DropBackup(a) ==
    /\ req[a].pc = "drop" /\ Finish(a)
    /\ rows' = [rows EXCEPT ![req[a].id] = NoRow]
    /\ thinned' = (thinned \/ (task.op = "schedule" /\ req[a].id \in Scheduled))
    /\ UNCHANGED <<server, files, made, task, saves, up, events>>

\* The delete of the server: cancel the task and wait for it, remove container
\* and volume, then the folder of archives, then the rows.
CancelTask(a) ==
    /\ req[a].pc = "cancel"
    /\ \/ ~server /\ Finish(a) /\ UNCHANGED task
       \/ server /\ ~Busy /\ Goto(a, "remove") /\ UNCHANGED task
       \/ server /\ Busy /\ Goto(a, "await") /\ task' = [task EXCEPT !.cancelled = TRUE]
    /\ UNCHANGED <<store, saves, up, events>>

RemoveServer(a) ==
    /\ req[a].pc = "remove"
    /\ \/ Works /\ Goto(a, "rmtree")
       \/ Fails("removeFails") /\ Finish(a)
    /\ UNCHANGED <<store, task, saves, up>>

RemoveFiles(a) ==
    /\ req[a].pc = "rmtree" /\ Goto(a, "cascade")
    /\ files' = [b \in Ids |-> "none"]
    /\ UNCHANGED <<server, rows, made, thinned, task, saves, up, events>>

Cascade(a) ==
    /\ req[a].pc = "cascade" /\ Finish(a)
    /\ server' = FALSE /\ rows' = [b \in Ids |-> NoRow]
    /\ UNCHANGED <<files, made, thinned, task, saves, up, events>>
----------------------------------------------------------------------------
\* _backup: was the game running when it began?
Begin ==
    /\ At("begin")
    /\ \/ Step("open")
       \/ task' = [task EXCEPT !.running = TRUE, !.pc = "before"] /\ UNCHANGED req
    /\ UNCHANGED <<store, saves, up, events>>

\* The commands that pause saving, and a wait for the game to follow.
Before ==
    /\ At("before")
    /\ \/ Works /\ saves' = FALSE /\ Step("wait")
       \/ Fails("commandFails") /\ saves' \in {saves, FALSE} /\ Step("fail")
    /\ UNCHANGED <<store, up>>

Wait == At("wait") /\ Step("open") /\ UNCHANGED <<store, saves, up, events>>

\* Mutant of Open: a refused archive skips the commands after it.
OpenOrFail ==
    /\ At("open")
    /\ \/ Works /\ files' = [files EXCEPT ![task.id] = "partial"] /\ Step("archive")
       \/ Fails("archiveFails") /\ Step("fail") /\ UNCHANGED files
    /\ UNCHANGED <<server, rows, made, thinned, saves, up>>

\* archive_to: the agent's answer first, then the file grows.  However it
\* ends, the commands after it are due if the game was running.
Open ==
    /\ At("open")
    /\ \/ Works /\ files' = [files EXCEPT ![task.id] = "partial"] /\ Step("archive")
       \/ Fails("archiveFails") /\ Step(IF task.running THEN "after" ELSE "fail") /\ UNCHANGED files
    /\ UNCHANGED <<server, rows, made, thinned, saves, up>>

\* Mutant of Archive: a stream that breaks off ends the archive.
ArchiveBrokenOff ==
    /\ At("archive") /\ UNCHANGED <<server, rows, made, thinned, req, saves, up>>
    /\ \/ Works /\ files' = [files EXCEPT ![task.id] = "whole"]
       \/ Fails("archiveFails") /\ UNCHANGED files
    /\ task' = [task EXCEPT !.ok = TRUE, !.pc = IF task.running THEN "after" ELSE "finish"]

Archive ==
    /\ At("archive")
    /\ \/ /\ Works /\ files' = [files EXCEPT ![task.id] = "whole"]
          /\ task' = [task EXCEPT !.ok = TRUE, !.pc = IF task.running THEN "after" ELSE "finish"]
          /\ UNCHANGED req
       \/ Fails("archiveFails") /\ Step(IF task.running THEN "after" ELSE "fail") /\ UNCHANGED files
    /\ UNCHANGED <<server, rows, made, thinned, saves, up>>

After ==
    /\ At("after")
    /\ \/ Works /\ saves' = TRUE /\ Step(IF task.ok THEN "finish" ELSE "fail")
       \/ Fails("commandFails") /\ Step("fail") /\ UNCHANGED saves
    /\ UNCHANGED <<store, up>>

\* _finish_backup does nothing to a row that is gone.
SetStatus(b, status, size) ==
    [rows EXCEPT ![b] = IF @.status = "none" THEN @ ELSE [@ EXCEPT !.status = status, !.size = size]]

FinishBackup ==
    /\ At("finish")
    /\ \E size \in Sizes : rows' = SetStatus(task.id, "ready", size)
    /\ Step(IF task.op = "schedule" THEN "select" ELSE "end")
    /\ UNCHANGED <<server, files, made, thinned, saves, up, events>>

\* _prune_backups: which ones, then file by file, then all the rows.
PruneSelect ==
    /\ At("select")
    /\ task' = [task EXCEPT !.olds = Beyond(Keep), !.left = Beyond(Keep), !.pc = "prune"]
    /\ UNCHANGED <<store, req, saves, up, events>>

PruneFile ==
    /\ At("prune") /\ task.left # {}
    /\ \/ /\ Works /\ UNCHANGED req
          /\ \E newest \in task.left :
                /\ \A c \in task.left : c <= newest
                /\ files' = [files EXCEPT ![newest] = "none"]
                /\ task' = [task EXCEPT !.left = @ \ {newest}]
       \/ Fails("pruneFails") /\ Step("fail") /\ UNCHANGED files
    /\ UNCHANGED <<server, rows, made, thinned, saves, up>>

PruneCommit ==
    /\ At("prune") /\ task.left = {}
    /\ \/ Works /\ rows' = [b \in Ids |-> IF b \in task.olds THEN NoRow ELSE rows[b]] /\ Step("end")
       \/ Fails("pruneFails") /\ Step("fail") /\ UNCHANGED rows
    /\ UNCHANGED <<server, files, made, thinned, saves, up>>

\* The last commit is done, but the coroutine has yet to go on: a cancellation
\* may still come first.
End == At("end") /\ EndTask /\ UNCHANGED <<store, saves, up, events>>

\* Whatever failed, the pruning included: no archive, and a row that says so.
FailUnlink ==
    /\ At("fail") /\ Step("failed")
    /\ files' = [files EXCEPT ![task.id] = "none"]
    /\ UNCHANGED <<server, rows, made, thinned, saves, up, events>>

\* Mutant of FailRow: the failure is only logged.
FailLogged == At("failed") /\ Step("end") /\ UNCHANGED <<store, saves, up, events>>

FailRow ==
    /\ At("failed") /\ Step("end")
    /\ rows' = SetStatus(task.id, "failed", rows[task.id].size)
    /\ UNCHANGED <<server, files, made, thinned, saves, up, events>>

\* CancelledError at an await of _backup: the archive goes, the row stays, and
\* the commands after the archive are sent if it had begun.
Interrupted ==
    /\ files' = IF task.op # "other" /\ Busy /\ task.pc # "begin" THEN [files EXCEPT ![task.id] = "none"] ELSE files
    /\ \/ saves' = saves /\ ~(task.running /\ task.pc \in {"open", "archive"})
       \/ saves' = TRUE /\ task.running /\ task.pc \in {"open", "archive", "after"}

Cancelled ==
    /\ task.cancelled /\ Interrupted /\ EndTask
    /\ UNCHANGED <<server, rows, made, thinned, up, events>>

\* Those commands fail in their turn: the failure takes the cancellation's place.
CancelledFails ==
    /\ task.cancelled /\ task.running /\ task.pc \in {"open", "archive"}
    /\ Fails("commandFails")
    /\ task' = [task EXCEPT !.cancelled = FALSE, !.pc = "fail"]
    /\ UNCHANGED <<store, req, saves, up>>
----------------------------------------------------------------------------
Down == up' = FALSE /\ task' = NoTask /\ req' = [a \in Reqs |-> Idle]

PanelDies ==
    /\ up /\ Fails("panelDies") /\ Down
    /\ UNCHANGED <<store, saves>>

\* A shutdown lets the requests finish, and cancels the scheduler and the task.
Shutdown ==
    /\ up /\ Fails("shutdown") /\ \A a \in Reqs : req[a] = Idle \/ req[a].op = "schedule"
    /\ Interrupted /\ Down
    /\ UNCHANGED <<server, rows, made, thinned>>

\* Mutant of Recover: only installs are looked after.
RecoverInstalls == ~up /\ up' = TRUE /\ UNCHANGED <<store, req, task, saves, events>>

\* "Installs and backups can't survive a panel restart".
Recover ==
    /\ ~up /\ up' = TRUE
    /\ rows' = [b \in Ids |-> IF rows[b].status = "creating" THEN [rows[b] EXCEPT !.status = "failed"]
                                                            ELSE rows[b]]
    /\ files' = [b \in Ids |-> IF rows[b].status = "creating" THEN "none" ELSE files[b]]
    /\ UNCHANGED <<server, made, thinned, req, task, saves, events>>

Serve(a) ==
    \/ Check(a) \/ ReadUsage(a) \/ ReadPruned(a) \/ Insert(a) \/ SpawnBackup(a)
    \/ GetBackup(a) \/ UnlinkBackup(a) \/ DropBackup(a)
    \/ CancelTask(a) \/ RemoveServer(a) \/ RemoveFiles(a) \/ Cascade(a)

Run ==
    \/ Begin \/ Before \/ Wait \/ Open \/ Archive \/ After \/ FinishBackup
    \/ PruneSelect \/ PruneFile \/ PruneCommit \/ End \/ FailUnlink \/ FailRow
    \/ Cancelled \/ CancelledFails

Next ==
    \/ \E a \in Reqs : Ask(a) \/ Serve(a)
    \/ Run \/ PanelDies \/ Shutdown \/ Recover

Spec == Init /\ [][Next]_vars

\* As in ServerManager: coroutines that can go on do, and a panel that ended is
\* started again.
FairSpec ==
    Spec /\ (\A a \in Reqs : WF_vars(Serve(a))) /\ WF_vars(Run) /\ WF_vars(Recover)
----------------------------------------------------------------------------
\* None of these went wrong.
Spared(kinds) == events \cap kinds = {}

Quiet == up /\ task = NoTask /\ \A a \in Reqs : req[a] = Idle

\* A backup that says ready is never a cut-off archive, whatever was interrupted.
NeverCutOff == \A b \in Ids : rows[b].status = "ready" => files[b] # "partial"

\* Every archive on the disk belongs to a ready backup: nothing that fails, is
\* cancelled, crashes or is deleted leaves a file that nobody can see.
NoLostFiles == Quiet => \A b \in Ids : files[b] # "none" => rows[b].status = "ready"

\* A backup that shows as being made has somebody at work on it.
CreatingIsReal ==
    up /\ Spared({"removeFails"}) => \A b \in Ids : rows[b].status = "creating" =>
              \/ task.id = b
              \/ \E a \in Reqs : req[a].id = b \/ req[a].pc \in {"remove", "rmtree", "cascade"}

\* A schedule prunes its own backups only: what a user made by hand goes by the
\* user's own request, with the server, or with its own failed task.
HandMadeKept ==
    [][\A b \in Ids :
         rows[b].status = "ready" /\ rows[b].op = "create" /\ files[b] = "whole" /\ files'[b] # "whole"
            => \/ task.id = b
               \/ \E a \in Reqs : req[a].id = b \/ req[a].pc = "rmtree"]_vars

\* A ready backup can be restored and downloaded: its archive is there.
Restorable == Quiet => \A b \in Ids : rows[b].status = "ready" => files[b] = "whole"

\* That holds as long as no pruning fails and no task is cut short.
ReadyHasFile == Spared({"pruneFails", "removeFails", "panelDies", "shutdown"}) => Restorable

\* Rows and archives are in step: no archive is nobody's, no ready backup has none, and
\* none shows as being made that nobody makes.
RowsAndFiles == NoLostFiles /\ CreatingIsReal /\ ReadyHasFile

\* Each of these backups was made while the older ones left some room.
Fits(r, bs) == \A b \in bs : Bytes(r, {c \in bs : c < b}) < Limit

\* A backup may be larger than the room that was left for it, but it is the last one:
\* the archives that are older than any archive leave some of the room.  Not so when a
\* crash comes between a schedule's new backup and its pruning, or when the backups it
\* meant to keep are deleted meanwhile, and it keeps larger ones in their place.
WithinLimit ==
    Quiet /\ Spared({"panelDies"}) /\ ~thinned =>
         Fits(rows, {b \in Ids : files[b] = "whole"})

\* A schedule keeps no more than its newest backups, as long as its task is not
\* cut off before it prunes.
NewestKept ==
    Quiet /\ Spared({"removeFails", "panelDies", "shutdown"}) => Cardinality(Scheduled) <= Keep

\* The backups of a server are made while there is room, and no more stay than the
\* schedule keeps: both are counted before a backup is made and settled after.
RoomKept == WithinLimit /\ NewestKept

\* "Pause autosave so the world isn't written to while it's archived", and no longer.
SavesAgain == Quiet /\ server /\ events \subseteq {"archiveFails", "pruneFails"} => saves

\* "It shows up as `creating` and turns `ready` or `failed`", or it is deleted.
BackupsSettle ==
    \A b \in Ids : rows[b].status = "creating" ~> rows[b].status # "creating" \/ "removeFails" \in events
=============================================================================
