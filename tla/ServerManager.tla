---------------------------- MODULE ServerManager ----------------------------
(***************************************************************************)
(* One game server as the panel runs it: ServerManager in                  *)
(* panel/app/runtime/manager.py, the handlers in panel/app/api that call   *)
(* it, its database row, its container and its data volume.  Everything    *)
(* the manager keeps is keyed by the server id, so one server is enough.   *)
(*                                                                         *)
(* The panel is one asyncio loop: a coroutine runs alone between two       *)
(* awaits, and every await lets the others in.  An action here is what a   *)
(* coroutine does from one await to the next, with the call it awaited.    *)
(***************************************************************************)
EXTENDS Integers, GameContainer

CONSTANTS
    Reqs,            \* coroutines that serve requests, due schedules, the watcher's rounds
    Resumer,         \* the coroutine that brings servers back after a start of the panel
    Slot,            \* the background task of the server, ServerManager._tasks[id]
    Ops,             \* the operations the requests ask for
    Events,          \* what may go wrong around the panel
    MaxEvents,       \* bound: how many of those events happen
    ResumeAttempts   \* RESUME_ATTEMPTS

AllOps == {"start", "stop", "restart", "reinstall", "update", "delete",
           "restore", "backup", "config", "watch"}

AllEvents == {"callFails",      \* a call to the agent or to Docker fails
              "agentLate",      \* the agent does not answer yet when the panel starts
              "gameExits",      \* the game exits or crashes on its own
              "boxRemoved",     \* somebody removes the container outside the panel
              "diskFills",      \* the game goes over its disk limit, or is back under it
              "panelDies",      \* the panel's process ends
              "reboot"}         \* the host goes down

ASSUME ActorsAssumption == /\ Resumer \notin Reqs
                           /\ Slot \notin Reqs
                           /\ Resumer # Slot
ASSUME OpsAssumption == Ops \subseteq AllOps
ASSUME EventsAssumption == Events \subseteq AllEvents
ASSUME BoundsAssumption == MaxEvents \in Nat /\ ResumeAttempts \in Nat \ {0}

Handlers == Reqs \cup {Resumer}
Actors == Handlers \cup {Slot}

VARIABLES
    row,         \* the Server row: its state ("none" once deleted) and should_run
    job,         \* what each coroutine is doing; job[Slot] is the background task
    stopping,    \* the server is in ServerManager._stopping
    restoring,   \* the server is in ServerManager._restoring
    diskError,   \* ServerManager.disk_errors[id]
    box,         \* the runtime container
    volume,      \* the data volume exists
    full,        \* the volume holds more than the disk limit
    up,          \* the panel runs
    attempts,    \* calls _resume has made to find Docker
    events,      \* how many events have happened
    crossed      \* history: a request has found no container and begun to rebuild it

vars == <<row, job, stopping, restoring, diskError, box, volume, full, up, attempts, events, crossed>>
memory == <<stopping, restoring, diskError>>
host == <<box, volume, full>>
panel == <<up, attempts, crossed>>
----------------------------------------------------------------------------
RowState == {"none", "pending", "installing", "install_failed", "installed"}
Seen == {"up", "down", "unknown"}
Pc == {"idle", "load", "check", "status", "go", "mark", "spawn", "await", "remove", "drop",
       "insert", "rebuild", "measure", "find", "state", "disk", "begin", "off", "policy",
       "wait", "create", "make", "flag", "run", "prepare", "build", "done", "end", "put", "archive"}

\* A coroutine: its operation, where it is, the state its row had when it
\* loaded it, what Docker told it, and whether somebody called Task.cancel.
Job == [op : AllOps \cup {"none", "create", "install", "resume"}, pc : Pc,
        snap : RowState, seen : Seen, cancelled : BOOLEAN]

Idle == [op |-> "none", pc |-> "idle", snap |-> "none", seen |-> "unknown", cancelled |-> FALSE]

TypeOK ==
    /\ row \in [state : RowState, shouldRun : BOOLEAN]
    /\ job \in [Actors -> Job]
    /\ stopping \in BOOLEAN
    /\ restoring \in BOOLEAN
    /\ diskError \in {"none", "cantStart", "stopped"}
    /\ box \in Container
    /\ volume \in BOOLEAN
    /\ full \in BOOLEAN
    /\ up \in BOOLEAN
    /\ attempts \in 0 .. ResumeAttempts
    /\ events \in 0 .. MaxEvents
    /\ crossed \in BOOLEAN

\* create_server has committed the row and goes on to install it.
Init ==
    /\ row = [state |-> "pending", shouldRun |-> FALSE]
    /\ \E a \in Reqs : job = [b \in Actors |->
          IF b = a THEN [Idle EXCEPT !.op = "create", !.pc = "mark"] ELSE Idle]
    /\ stopping = FALSE /\ restoring = FALSE /\ diskError = "none"
    /\ box = Absent /\ volume = FALSE /\ full = FALSE
    /\ up = TRUE /\ attempts = 0 /\ events = 0 /\ crossed = FALSE
----------------------------------------------------------------------------
\* Something around the panel goes wrong, within the bound.
Event(kind) == kind \in Events /\ events < MaxEvents /\ events' = events + 1
CallFails == Event("callFails")
NoEvent == UNCHANGED events

Busy == job[Slot] # Idle

At(a, pc) == job[a].pc = pc /\ ~job[a].cancelled
AtOp(a, ops, pc) == At(a, pc) /\ job[a].op \in ops

Goto(a, pc) == job' = [job EXCEPT ![a].pc = pc]

\* A coroutine returns or raises.  The end of the task resumes the deletes
\* that gathered it.
Finish(a) ==
    job' = [b \in Actors |->
              IF b = a THEN Idle
              ELSE IF a = Slot /\ job[b].pc = "await" THEN [job[b] EXCEPT !.pc = "remove"]
              ELSE job[b]]

\* _spawn: one background task per server; a second one is refused.
Spawn(a, op) ==
    job' = [job EXCEPT ![a] = Idle,
                       ![Slot] = IF Busy THEN @ ELSE [Idle EXCEPT !.op = op, !.pc = "begin"]]

\* Mutants of SetState and SetShouldRun: the row is written whether it exists or
\* not; the change is not committed.
SetStateBlindly(s) == [row EXCEPT !.state = s]
SetShouldRunLost(b) == row

\* _set_state and _set_should_run do nothing to a row deleted meanwhile.
SetState(s) == [row EXCEPT !.state = IF @ = "none" THEN @ ELSE s]
SetShouldRun(b) == [row EXCEPT !.shouldRun = IF row.state = "none" THEN @ ELSE b]

\* Mutant of Allowed: a running task does not matter.
AllowedBeside(a) == job[a].snap = "installed"

\* _require_installed: the state is the one the request loaded.
Allowed(a) == job[a].snap = "installed" /\ ~Busy

\* Mutant of StatusSeen: no answer from Docker counts as "not running".
StatusByFlags(a) ==
    IF job[a].snap # "installed" THEN job[a].snap ELSE IF restoring THEN "restoring" ELSE "down"

\* _live_status, with the flags of now and Docker's answer of before.
StatusSeen(a) ==
    IF job[a].snap # "installed" THEN job[a].snap
    ELSE IF restoring THEN "restoring"
    ELSE IF stopping THEN "stopping"
    ELSE job[a].seen
----------------------------------------------------------------------------
\* A request arrives (or a schedule is due, or the watcher wakes up).
Request(a) ==
    /\ up /\ job[a] = Idle
    /\ \E op \in Ops : job' = [job EXCEPT ![a] = [Idle EXCEPT !.op = op, !.pc = "load"]]
    /\ UNCHANGED <<row, memory, host, panel, events>>

\* The statement a handler opens with: get_server_or_404, or the watcher's
\* select of the rows that should run.
Load(a) ==
    /\ At(a, "load")
    /\ IF row.state = "none" \/ (job[a].op = "watch" /\ ~row.shouldRun)
       THEN Finish(a)
       ELSE job' = [job EXCEPT ![a].snap = row.state,
                               ![a].pc = IF job[a].op \in {"update", "watch"} THEN "status" ELSE "check"]
    /\ UNCHANGED <<row, memory, host, panel, events>>

\* delete() cancels the task, if there is one, and waits for its end.
CancelTask(a) ==
    IF Busy THEN job' = [job EXCEPT ![a].pc = "await", ![Slot].cancelled = TRUE]
            ELSE Goto(a, "remove")

\* What each operation does before its first await on Docker.
Check(a) ==
    /\ At(a, "check")
    /\ \/ /\ job[a].op \in {"stop", "restart"}
          /\ IF Allowed(a) THEN Spawn(a, job[a].op) ELSE Finish(a)
       \/ /\ job[a].op \in {"start", "resume", "restore", "backup"}
          /\ IF ~Allowed(a) THEN Finish(a)
             ELSE Goto(a, CASE job[a].op = "restore" -> "status"
                            [] job[a].op = "backup" -> "insert"
                            [] OTHER -> "state")
       \/ /\ job[a].op = "reinstall"
          /\ IF Busy THEN Finish(a) ELSE Goto(a, "status")
       \/ /\ job[a].op = "config"
          /\ IF job[a].snap = "installed" THEN Goto(a, "state") ELSE Finish(a)
       \/ /\ job[a].op = "delete"
          /\ CancelTask(a)
    /\ UNCHANGED <<row, memory, host, panel, events>>

\* statuses(): one call for all containers; no answer is an answer too.
ReadStatus(a) ==
    /\ At(a, "status")
    /\ \E s \in Seen :
          /\ job' = [job EXCEPT ![a].seen = s,
                                ![a].pc = IF job[a].op = "watch" THEN "measure" ELSE "go"]
          /\ \/ s = (IF Live(box) THEN "up" ELSE "down") /\ NoEvent
             \/ s = "unknown" /\ CallFails
    /\ UNCHANGED <<row, memory, host, panel>>

\* restore_backup, from the answer on: no await up to the spawned task.
GoRestore(a) ==
    /\ AtOp(a, {"restore"}, "go")
    /\ IF StatusSeen(a) = "down"
       THEN Spawn(a, "restore") /\ restoring' = ~Busy
       ELSE Finish(a) /\ UNCHANGED restoring
    /\ UNCHANGED <<row, stopping, diskError, host, panel, events>>

\* reinstall_server refuses a running server only; update_server, whose change
\* reinstalls the game, one that stops or is busy too.  A change of the disk
\* limit clears the error.
GoInstall(a) ==
    /\ AtOp(a, {"reinstall", "update"}, "go")
    /\ IF \/ StatusSeen(a) = "up"
          \/ job[a].op = "update" /\ (StatusSeen(a) = "stopping" \/ Busy)
       THEN Finish(a) /\ UNCHANGED diskError
       ELSE /\ Goto(a, "mark")
            /\ diskError' \in IF job[a].op = "update" THEN {diskError, "none"} ELSE {diskError}
    /\ UNCHANGED <<row, stopping, restoring, host, panel, events>>

\* Mutant of Mark: the row says so only once the task is there.
MarkLate(a) ==
    /\ At(a, "mark") /\ Goto(a, "spawn")
    /\ row' = SetShouldRun(FALSE)
    /\ UNCHANGED <<memory, host, panel, events>>

\* install(): the row says installing before the task exists.
Mark(a) ==
    /\ At(a, "mark")
    /\ IF row.state = "none"
       THEN Finish(a) /\ UNCHANGED row
       ELSE Goto(a, "spawn") /\ row' = [state |-> "installing", shouldRun |-> FALSE]
    /\ UNCHANGED <<memory, host, panel, events>>

SpawnInstall(a) ==
    /\ AtOp(a, {"create", "reinstall", "update"}, "spawn")
    /\ Spawn(a, "install")
    /\ UNCHANGED <<row, memory, host, panel, events>>

\* create_backup commits the backup's row, then spawns.
InsertBackup(a) ==
    /\ At(a, "insert") /\ Goto(a, "spawn")
    /\ UNCHANGED <<row, memory, host, panel, events>>

SpawnBackup(a) ==
    /\ AtOp(a, {"backup"}, "spawn")
    /\ Spawn(a, "backup")
    /\ UNCHANGED <<row, memory, host, panel, events>>

\* The watcher measures a running server, and stops one over its limit: the
\* reason is kept before stop() is asked, which may refuse.
Measure(a) ==
    /\ At(a, "measure")
    /\ \/ /\ StatusSeen(a) = "up" /\ full
          /\ diskError' = "stopped"
          /\ IF Allowed(a) THEN Spawn(a, "stop") ELSE Finish(a)
          /\ NoEvent
       \/ ~(StatusSeen(a) = "up" /\ full) /\ Finish(a) /\ NoEvent /\ UNCHANGED diskError
       \/ StatusSeen(a) = "up" /\ CallFails /\ Finish(a) /\ UNCHANGED diskError
    /\ UNCHANGED <<row, stopping, restoring, host, panel>>
----------------------------------------------------------------------------
\* start() and _ensure_container ask for the container; start goes on only if
\* it is not live, _ensure_container only if it does not exist.
ReadState(a) ==
    /\ a # Slot /\ At(a, "state")
    /\ \/ CallFails /\ Finish(a) /\ UNCHANGED crossed
       \/ NoEvent /\ job[a].op = "config" /\ Exists(box) /\ Finish(a) /\ UNCHANGED crossed
       \/ NoEvent /\ job[a].op = "config" /\ ~Exists(box) /\ Goto(a, "rebuild") /\ crossed' = TRUE
       \/ NoEvent /\ job[a].op # "config" /\ Live(box) /\ Finish(a) /\ UNCHANGED crossed
       \/ NoEvent /\ job[a].op # "config" /\ ~Live(box) /\ Goto(a, "disk") /\ UNCHANGED crossed
    /\ UNCHANGED <<row, memory, host, up, attempts>>

\* start() measures the volume: a full one is refused, with the reason kept.
CheckDisk(a) ==
    /\ At(a, "disk")
    /\ \/ CallFails /\ Finish(a) /\ UNCHANGED diskError
       \/ NoEvent /\ full /\ diskError' = "cantStart" /\ Finish(a)
       \/ NoEvent /\ ~full /\ diskError' = "none" /\ Goto(a, "create")
    /\ UNCHANGED <<row, stopping, restoring, host, panel>>

\* runtime.create in two calls, with room for others between them.  The first
\* removes whatever has the name, by force, or finds nothing to remove.
RemoveOk == box' = Absent /\ NoEvent
RemoveFails == CallFails /\ box' \in {box, Absent}

\* The second creates the container and mounts the volume, which the file helper
\* or Docker makes if it has to.  Docker refuses a name that is taken meanwhile.
CreateOk == ~Exists(box) /\ box' = Made(box) /\ volume' = TRUE /\ NoEvent
CreateFails ==
    /\ volume' \in {volume, TRUE}
    /\ \/ NoEvent /\ Exists(box) /\ UNCHANGED box
       \/ CallFails /\ box' \in {box, Made(box)}

\* _start, for a request, for the resumer and for the second half of a restart.
StartCreate(a) ==
    /\ At(a, "create")
    /\ \/ RemoveOk /\ Goto(a, "make")
       \/ RemoveFails /\ Finish(a)
    /\ UNCHANGED <<row, memory, volume, full, panel>>

StartMake(a) ==
    /\ AtOp(a, {"start", "resume", "restart"}, "make")
    /\ \/ CreateOk /\ Goto(a, "flag")
       \/ CreateFails /\ Finish(a)
    /\ UNCHANGED <<row, memory, full, panel>>

StartFlag(a) ==
    /\ At(a, "flag")
    /\ row' = SetShouldRun(TRUE)
    /\ Goto(a, "run")
    /\ UNCHANGED <<memory, host, panel, events>>

StartRun(a) ==
    /\ At(a, "run")
    /\ Finish(a)
    /\ \/ box' = Started(box) /\ NoEvent
       \/ CallFails /\ UNCHANGED box
    /\ UNCHANGED <<row, memory, volume, full, panel>>

\* _ensure_container: "Removed outside the panel: rebuild it".
Rebuild(a) ==
    /\ At(a, "rebuild")
    /\ \/ RemoveOk /\ Goto(a, "make")
       \/ RemoveFails /\ Finish(a)
    /\ UNCHANGED <<row, memory, volume, full, panel>>

RebuildMake(a) ==
    /\ AtOp(a, {"config"}, "make")
    /\ CreateOk \/ CreateFails
    /\ Finish(a)
    /\ UNCHANGED <<row, memory, full, panel>>
----------------------------------------------------------------------------
\* The first step of a task, up to its first await.
Begin ==
    /\ At(Slot, "begin")
    /\ \/ /\ job[Slot].op \in {"stop", "restart"}
          /\ stopping' = TRUE /\ Goto(Slot, "off")
       \/ /\ job[Slot].op = "install" /\ UNCHANGED stopping
          /\ IF row.state = "none" THEN Finish(Slot) ELSE Goto(Slot, "prepare")
       \/ job[Slot].op = "restore" /\ Goto(Slot, "put") /\ UNCHANGED stopping
       \/ job[Slot].op = "backup" /\ Goto(Slot, "archive") /\ UNCHANGED stopping
    /\ UNCHANGED <<row, restoring, diskError, host, panel, events>>

StopFlag ==
    /\ At(Slot, "off")
    /\ row' = SetShouldRun(FALSE)
    /\ Goto(Slot, "state")
    /\ UNCHANGED <<memory, host, panel, events>>

\* Mutant of Stopped: the flag goes only when the server stays down.
StoppedOnly ==
    IF job[Slot].op = "restart" THEN Goto(Slot, "create") /\ UNCHANGED stopping
    ELSE Finish(Slot) /\ stopping' = FALSE

\* _stop is over, whatever happened in it: a restart goes on with _start.
Stopped ==
    /\ stopping' = FALSE
    /\ IF job[Slot].op = "restart" THEN Goto(Slot, "create") ELSE Finish(Slot)

StopState ==
    /\ At(Slot, "state")
    /\ \/ NoEvent /\ Live(box) /\ Goto(Slot, "policy") /\ UNCHANGED stopping
       \/ NoEvent /\ ~Live(box) /\ Stopped
       \/ CallFails /\ Stopped
    /\ UNCHANGED <<row, restoring, diskError, host, panel>>

\* The runtime's stop: no more restarts by Docker, then wait for the end.
StopPolicy ==
    /\ At(Slot, "policy")
    /\ \/ NoEvent /\ Exists(box) /\ box' = NoRestart(box) /\ Goto(Slot, "wait") /\ UNCHANGED stopping
       \/ NoEvent /\ ~Exists(box) /\ UNCHANGED box /\ Stopped
       \/ CallFails /\ UNCHANGED box /\ Stopped
    /\ UNCHANGED <<row, restoring, diskError, volume, full, panel>>

StopWait ==
    /\ At(Slot, "wait")
    /\ Stopped
    /\ \/ NoEvent /\ box' \in AfterStop(box)
       \/ CallFails /\ UNCHANGED box
    /\ UNCHANGED <<row, restoring, diskError, volume, full, panel>>
----------------------------------------------------------------------------
InstallFails == Finish(Slot) /\ row' = SetState("install_failed")

\* _install: images, volume and install step; then the container.
InstallPrepare ==
    /\ At(Slot, "prepare")
    /\ \/ NoEvent /\ volume' = TRUE /\ Goto(Slot, "build") /\ UNCHANGED row
       \/ CallFails /\ volume' \in {volume, TRUE} /\ InstallFails
    /\ UNCHANGED <<memory, box, full, panel>>

InstallBuild ==
    /\ At(Slot, "build")
    /\ \/ RemoveOk /\ Goto(Slot, "make") /\ UNCHANGED row
       \/ RemoveFails /\ InstallFails
    /\ UNCHANGED <<memory, volume, full, panel>>

InstallMake ==
    /\ AtOp(Slot, {"install"}, "make")
    /\ \/ CreateOk /\ Goto(Slot, "done") /\ UNCHANGED row
       \/ CreateFails /\ InstallFails
    /\ UNCHANGED <<memory, full, panel>>

\* The commit, and the return of the task once the loop sees it.
InstallDone ==
    /\ At(Slot, "done")
    /\ row' = SetState("installed")
    /\ Goto(Slot, "end")
    /\ UNCHANGED <<memory, host, panel, events>>

InstallEnd ==
    /\ At(Slot, "end") /\ Finish(Slot)
    /\ UNCHANGED <<row, memory, host, panel, events>>

\* Mutant of RestorePut: the flag stays.
RestorePutOnly ==
    /\ At(Slot, "put") /\ Finish(Slot) /\ UNCHANGED <<row, memory, host, panel, events>>

\* _restore: the files are replaced, or that fails; the flag goes either way.
RestorePut ==
    /\ At(Slot, "put") /\ Finish(Slot) /\ restoring' = FALSE
    /\ NoEvent \/ CallFails
    /\ UNCHANGED <<row, stopping, diskError, host, panel>>

\* _backup, as far as the rest of the server notices.
BackupArchive ==
    /\ At(Slot, "archive") /\ Finish(Slot)
    /\ NoEvent \/ CallFails
    /\ UNCHANGED <<row, memory, host, panel>>

\* CancelledError reaches the task at its await: the call it was in may have
\* had its effect, finally clauses run and _install marks the failure.  A task
\* that had not begun runs none of its code.
Cancelled ==
    /\ job[Slot].cancelled /\ Finish(Slot)
    /\ LET begun == job[Slot].pc # "begin"
       IN  /\ row' = IF begun /\ job[Slot].op = "install" THEN SetState("install_failed") ELSE row
           /\ stopping' = FALSE
           /\ restoring' = (restoring /\ ~(begun /\ job[Slot].op = "restore"))
    /\ \/ UNCHANGED <<box, volume>>
       \/ job[Slot].pc = "prepare" /\ volume' = TRUE /\ UNCHANGED box
       \/ job[Slot].pc \in {"create", "build"} /\ box' = Absent /\ UNCHANGED volume
       \/ job[Slot].pc \in {"create", "build"} /\ box' \in {Absent, Fresh} /\ volume' = TRUE
       \/ job[Slot].pc = "make" /\ box' \in {box, Made(box)} /\ volume' = TRUE
       \/ job[Slot].pc = "run" /\ box' = Started(box) /\ UNCHANGED volume
       \/ job[Slot].pc = "wait" /\ box' \in AfterStop(box) /\ UNCHANGED volume
    /\ UNCHANGED <<diskError, full, panel, events>>
----------------------------------------------------------------------------
\* Mutant of Remove: the volume stays.
RemoveContainer(a) ==
    /\ At(a, "remove") /\ Goto(a, "drop") /\ box' = Absent
    /\ UNCHANGED <<row, memory, volume, full, panel, events>>

\* delete(): container and volume go; a failure leaves the rest for the next try.
Remove(a) ==
    /\ At(a, "remove")
    /\ \/ NoEvent /\ box' = Absent /\ volume' = FALSE /\ Goto(a, "drop")
       \/ CallFails /\ box' \in {box, Absent} /\ UNCHANGED volume /\ Finish(a)
    /\ UNCHANGED <<row, memory, full, panel>>

\* delete_server: the row goes last.
DropRow(a) ==
    /\ At(a, "drop") /\ Finish(a)
    /\ row' = [state |-> "none", shouldRun |-> FALSE]
    /\ UNCHANGED <<memory, host, panel, events>>
----------------------------------------------------------------------------
\* The panel's process ends.  Its memory goes; database, containers, volumes stay.
Down ==
    /\ up' = FALSE /\ job' = [b \in Actors |-> Idle]
    /\ stopping' = FALSE /\ restoring' = FALSE /\ diskError' = "none"
    /\ attempts' = 0 /\ UNCHANGED crossed

PanelDies ==
    /\ up /\ Event("panelDies") /\ Down
    /\ UNCHANGED <<row, host>>

\* shutdown(): the server finishes its requests, then the tasks are cancelled.
Shutdown ==
    /\ up /\ Event("panelDies") /\ \A a \in Reqs : job[a] = Idle
    /\ Down
    /\ row' = IF job[Slot].op = "install" /\ job[Slot].pc # "begin" THEN SetState("install_failed") ELSE row
    /\ UNCHANGED host

\* A host that comes back finds its games exited.
Reboot ==
    /\ Event("reboot") /\ Down
    /\ box' = Exited(box, "error")
    /\ UNCHANGED <<row, volume, full>>

\* Mutant of Recover: the servers that should run are left alone.
RecoverInstalls ==
    /\ ~up /\ up' = TRUE
    /\ row' = IF row.state = "installing" THEN SetState("install_failed") ELSE row
    /\ UNCHANGED <<job, memory, host, attempts, events, crossed>>

\* recover() and start_background_jobs, before the first request is served.
Recover ==
    /\ ~up
    /\ up' = TRUE
    /\ row' = IF row.state = "installing" THEN SetState("install_failed") ELSE row
    /\ job' = [job EXCEPT ![Resumer] = [Idle EXCEPT !.op = "resume", !.pc = "find"]]
    /\ UNCHANGED <<memory, host, attempts, events, crossed>>

\* _resume: what Docker runs, with retries while it cannot be reached.
FindStates ==
    /\ At(Resumer, "find") /\ attempts < ResumeAttempts
    /\ \/ /\ NoEvent /\ UNCHANGED attempts
          /\ job' = [job EXCEPT ![Resumer].seen = IF Live(box) THEN "up" ELSE "down",
                                ![Resumer].pc = "load"]
       \/ Event("agentLate") /\ attempts' = attempts + 1 /\ UNCHANGED job
    /\ UNCHANGED <<row, memory, host, up, crossed>>

GiveUp ==
    /\ At(Resumer, "find") /\ attempts = ResumeAttempts
    /\ Finish(Resumer)
    /\ UNCHANGED <<row, memory, host, panel, events>>

\* Only a server that should run, is installed and was not up is started.
Select ==
    /\ At(Resumer, "load")
    /\ IF row.shouldRun /\ row.state = "installed" /\ job[Resumer].seen = "down"
       THEN job' = [job EXCEPT ![Resumer].snap = row.state, ![Resumer].pc = "check"]
       ELSE Finish(Resumer)
    /\ UNCHANGED <<row, memory, host, panel, events>>
----------------------------------------------------------------------------
GameExits ==
    /\ Event("gameExits") /\ box' \in OnItsOwn(box)
    /\ UNCHANGED <<row, job, memory, volume, full, panel>>

BoxRemoved ==
    /\ Event("boxRemoved") /\ Exists(box) /\ box' = Absent
    /\ UNCHANGED <<row, job, memory, volume, full, panel>>

DiskFills ==
    /\ Event("diskFills") /\ full' = ~full
    /\ UNCHANGED <<row, job, memory, box, volume, panel>>

Around == PanelDies \/ Shutdown \/ Reboot \/ GameExits \/ BoxRemoved \/ DiskFills

StartStep(a) ==
    ReadState(a) \/ CheckDisk(a) \/ StartCreate(a) \/ StartMake(a) \/ StartFlag(a) \/ StartRun(a)

Handle(a) ==
    \/ Load(a) \/ Check(a) \/ ReadStatus(a) \/ GoRestore(a) \/ GoInstall(a) \/ Mark(a)
    \/ SpawnInstall(a) \/ InsertBackup(a) \/ SpawnBackup(a) \/ Measure(a)
    \/ StartStep(a) \/ Rebuild(a) \/ RebuildMake(a) \/ Remove(a) \/ DropRow(a)

Resume == FindStates \/ GiveUp \/ Select \/ Check(Resumer) \/ StartStep(Resumer)

Task ==
    \/ Begin \/ StopFlag \/ StopState \/ StopPolicy \/ StopWait
    \/ StartCreate(Slot) \/ StartMake(Slot) \/ StartFlag(Slot) \/ StartRun(Slot)
    \/ InstallPrepare \/ InstallBuild \/ InstallMake \/ InstallDone \/ InstallEnd
    \/ RestorePut \/ BackupArchive \/ Cancelled

Next ==
    \/ \E a \in Reqs : Request(a) \/ Handle(a)
    \/ Task \/ Recover \/ Resume \/ Around

Spec == Init /\ [][Next]_vars

\* The loop runs every coroutine that can go on; calls to the agent return
\* (they have timeouts); a panel that ended is started again by its supervisor.
\* Whether requests arrive, and what happens around the panel, is nobody's duty.
Fairness ==
    /\ \A a \in Reqs : WF_vars(Handle(a))
    /\ WF_vars(Task) /\ WF_vars(Recover) /\ WF_vars(Resume)

FairSpec == Spec /\ Fairness
----------------------------------------------------------------------------
(* Properties of every execution, however many requests run at once and     *)
(* whatever fails around the panel.                                         *)

\* The server shows as stopping exactly while its task is between the first
\* step and the end of _stop: no path out of _stop, cancelled, failed or
\* refused, leaves the flag behind or clears it early.
StoppingShown ==
    stopping <=> /\ job[Slot].op \in {"stop", "restart"}
                 /\ job[Slot].pc \in {"off", "state", "policy", "wait"}

\* While the files of a server are being replaced it shows as restoring, and
\* nothing but the end of that task takes the flag away.
RestoreFlagged == job[Slot].op = "restore" => restoring

\* The flags always tell what the task does, whatever became of the one before.
FlagsShown == StoppingShown /\ RestoreFlagged

\* A deleted server stays deleted: no task, flag or late answer re-creates its row.
DeletedForGood == [][row.state = "none" => row' = row]_vars
----------------------------------------------------------------------------
(* Properties of a panel that serves one request at a time (Reqs has one   *)
(* element); its background task, the resumer and the game still run       *)
(* beside it.  MCServerManager and the README say under which Events each  *)
(* one holds, and which runs show how it fails with more.                  *)

\* Nothing is going on in the panel.
Quiet == up /\ \A a \in Actors : job[a] = Idle

\* "Started from the panel and not stopped since": a live game is wanted.
LiveIsWanted == Quiet /\ Live(box) => row.shouldRun

\* ... and a wanted game has been started: it is up, or it went down by itself.
\* Left out, because it does happen: a request for the settings looks for the
\* container while a restart replaces it, finds none and makes one of its own,
\* in place of the game the restart has started meanwhile.
WantedWasStarted == Quiet /\ row.shouldRun /\ ~crossed => box.status \notin {"none", "created"}

\* should_run and the container say the same of a server at rest, whatever the order
\* they were changed in.
LiveAsWanted == LiveIsWanted /\ WantedWasStarted

\* The files of a server are replaced, or its game installed, only while the
\* game is down, from the first step of the task to its last.
ExclusiveFiles == job[Slot].op \in {"restore", "install"} => ~Live(box)

\* A server that shows as installing has somebody at work on it: its task, the
\* request about to spawn it, or the delete that cancelled it.
InstallingIsReal ==
    row.state = "installing" /\ up
        => \/ job[Slot].op = "install"
           \/ \E a \in Reqs : job[a].pc \in {"spawn", "remove", "drop"}

\* "Containers and the data volume go with it".
DeletedLeavesNothing == row.state = "none" => ~Exists(box) /\ ~volume

\* _start says a fresh container loses nothing but old console output: the
\* container of a game that is up goes only with its server, unless a request
\* crossed a restart as above.
NoLiveReplaced ==
    [][Live(box) /\ ~Exists(box') => crossed \/ \E a \in Reqs : At(a, "remove")]_vars

\* A server shows as restoring only while a backup is being put back.
RestoringIsReal == Quiet /\ row.state # "none" => ~restoring

\* What a server shows is going on has somebody at work on it.
ShownIsReal == InstallingIsReal /\ RestoringIsReal

\* The manager implements what it promises.  An install is over with its
\* commit, whenever its task returns.
Work == CASE job[Slot].op = "install" /\ job[Slot].pc # "end" -> "install"
          [] job[Slot].op = "restore" -> "restore"
          [] OTHER -> "none"

Promise == INSTANCE PromisedServer WITH
    state <- row.state,
    game <- IF Live(box) THEN "up" ELSE "down",
    work <- Work
KeepsPromise == Promise!Spec
----------------------------------------------------------------------------
(* Liveness, under the fairness above.                                     *)

\* The task of a server ends: it does not stay busy for ever.
TaskEnds == []<>(~up \/ ~Busy)

\* An install ends, one way or the other, across restarts of the panel too.
InstallEnds == row.state = "installing" ~> row.state # "installing"

\* Deletes end: the task they cancel always comes back to them.
DeleteEnds == \A a \in Reqs : job[a].op = "delete" ~> job[a].op # "delete"

\* Whatever was begun ends: tasks, installs and deletes.
WorkEnds == TaskEnds /\ InstallEnds /\ DeleteEnds

\* A server that should run is up again some time after the panel or the host
\* went down, unless a request stopped, reinstalled or deleted it meanwhile, or
\* Docker was not to be found for as long as the panel tries.
BackAfterReboot ==
    ~up /\ row.shouldRun /\ row.state = "installed"
        ~> Live(box) \/ ~row.shouldRun \/ row.state # "installed" \/ attempts = ResumeAttempts
=============================================================================
