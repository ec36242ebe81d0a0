-------------------------- MODULE ServerManagerProofs --------------------------
(***************************************************************************)
(* Proofs about ServerManager, for any set of requests, any set of         *)
(* operations and events, and any bounds.                                  *)
(***************************************************************************)
EXTENDS ServerManager, TLAPS

\* The coroutines' part of the type invariant.
JobsOK == job \in [Actors -> Job]

\* A coroutine that has nothing to do is a well-formed one.
LEMMA IdleIsJob == Idle \in Job
BY DEF Idle, Job, AllOps, Pc, RowState, Seen

\* Moving one coroutine on keeps the coroutines well-formed.
LEMMA GotoType ==
    ASSUME JobsOK, NEW a \in Actors, NEW pc \in Pc, Goto(a, pc)
    PROVE  JobsOK'
BY DEF JobsOK, Goto, Job

\* Ending one does, with the deletes it resumes.
LEMMA FinishType ==
    ASSUME JobsOK, NEW a \in Actors, Finish(a)
    PROVE  JobsOK'
<1> SUFFICES ASSUME NEW b \in Actors PROVE job'[b] \in Job
  BY DEF JobsOK, Finish
<1>1. job[b] \in Job BY DEF JobsOK
<1>2. [job[b] EXCEPT !.pc = "remove"] \in Job BY <1>1 DEF Job, Pc
<1> QED BY <1>1, <1>2, IdleIsJob DEF Finish

\* Spawning the task does, whether the slot is free or not.
LEMMA SpawnType ==
    ASSUME JobsOK, NEW a \in Actors, NEW op \in AllOps \cup {"install"}, Spawn(a, op)
    PROVE  JobsOK'
<1>1. Slot \in Actors BY DEF Actors
<1>2. [Idle EXCEPT !.op = op, !.pc = "begin"] \in Job
  BY IdleIsJob DEF Job, Pc
<1> QED BY <1>1, <1>2, IdleIsJob DEF JobsOK, Spawn

\* The container of every outcome of an agent call is a container.
LEMMA BoxTypes ==
    ASSUME NEW c \in Container
    PROVE  /\ Absent \in Container /\ Fresh \in Container /\ Made(c) \in Container
           /\ Started(c) \in Container /\ NoRestart(c) \in Container
           /\ \A code \in ExitCode : Exited(c, code) \in Container
           /\ OnItsOwn(c) \subseteq Container
           /\ AfterStop(c) \subseteq Container
<1>1. Absent \in Container /\ Fresh \in Container /\ Made(c) \in Container
  BY DEF Absent, Fresh, Made, Container, Status, ExitCode, Policy
<1>2. Started(c) \in Container /\ NoRestart(c) \in Container
  BY DEF Started, NoRestart, Container, Status, ExitCode, Policy
<1>3. ASSUME NEW code \in ExitCode PROVE Exited(c, code) \in Container
  BY DEF Exited, Container, Status, ExitCode, Policy
<1>4. "zero" \in ExitCode /\ "error" \in ExitCode BY DEF ExitCode
<1>5. OnItsOwn(c) \subseteq Container
  <2>1. [c EXCEPT !.status = "restarting"] \in Container /\ [c EXCEPT !.status = "running"] \in Container
    BY DEF Container, Status
  <2> QED BY <1>3, <1>4, <2>1 DEF OnItsOwn
<1>6. AfterStop(c) \subseteq Container BY <1>3 DEF AfterStop
<1> QED BY <1>1, <1>2, <1>3, <1>5, <1>6

\* What the tasks write to the row is a row.
LEMMA RowTypes ==
    ASSUME row \in [state : RowState, shouldRun : BOOLEAN]
    PROVE  /\ \A s \in RowState : SetState(s) \in [state : RowState, shouldRun : BOOLEAN]
           /\ \A b \in BOOLEAN : SetShouldRun(b) \in [state : RowState, shouldRun : BOOLEAN]
BY DEF SetState, SetShouldRun

\* An event is counted only below the bound.
LEMMA EventType ==
    ASSUME events \in 0 .. MaxEvents, NEW kind, Event(kind) \/ UNCHANGED events
    PROVE  events' \in 0 .. MaxEvents
BY BoundsAssumption DEF Event

\* The Init predicate is well-typed.
LEMMA InitType == Init => TypeOK
<1> SUFFICES ASSUME Init PROVE TypeOK OBVIOUS
<1>1. row \in [state : RowState, shouldRun : BOOLEAN] BY DEF Init, RowState
<1>2. job \in [Actors -> Job]
  <2>1. [Idle EXCEPT !.op = "create", !.pc = "mark"] \in Job BY IdleIsJob DEF Job, Pc
  <2> QED BY <2>1, IdleIsJob DEF Init
<1>3. box \in Container
  BY DEF Init, Absent, Container, Status, ExitCode, Policy
<1>4. attempts \in 0 .. ResumeAttempts /\ events \in 0 .. MaxEvents
  BY BoundsAssumption DEF Init
<1> QED BY <1>1, <1>2, <1>3, <1>4, Zenon DEF Init, TypeOK

\* So does moving one on with what it has just read.
LEMMA ReadType ==
    ASSUME JobsOK, NEW a \in Actors, NEW pc \in Pc, NEW snap \in RowState, NEW seen \in Seen,
           \/ job' = [job EXCEPT ![a].snap = snap, ![a].pc = pc]
           \/ job' = [job EXCEPT ![a].seen = seen, ![a].pc = pc]
    PROVE  JobsOK'
BY DEF JobsOK, Job

\* And a delete that cancels the task, if there is one, to wait for it.
LEMMA CancelType ==
    ASSUME JobsOK, NEW a \in Actors, NEW pc \in Pc,
           job' = [job EXCEPT ![a].pc = pc, ![Slot].cancelled = TRUE]
    PROVE  JobsOK'
<1>1. \A r \in Job : [r EXCEPT !.pc = pc] \in Job /\ [r EXCEPT !.cancelled = TRUE] \in Job
  BY DEF Job
<1>2. Slot \in Actors BY DEF Actors
<1>3. [job EXCEPT ![a].pc = pc] \in [Actors -> Job] BY <1>1 DEF JobsOK
<1> QED BY <1>1, <1>2, <1>3 DEF JobsOK

\* The steps of start(), for whoever takes them, keep the types.
LEMMA StartType ==
    ASSUME TypeOK, NEW a \in Actors, StartStep(a)
    PROVE  TypeOK'
<1>0. JobsOK /\ job[a] \in Job BY DEF TypeOK, JobsOK
<1>1. CASE ReadState(a)
  <2>1. JobsOK' BY <1>0, <1>1, FinishType, GotoType DEF ReadState, Pc
  <2>2. events' \in 0 .. MaxEvents BY <1>1, EventType DEF ReadState, TypeOK, NoEvent, CallFails
  <2>3. crossed' \in BOOLEAN BY <1>1, Zenon DEF ReadState, TypeOK
  <2> QED BY <1>1, <2>1, <2>2, <2>3, Zenon DEF ReadState, TypeOK, JobsOK, memory, host
<1>2. CASE CheckDisk(a)
  <2>1. JobsOK' BY <1>0, <1>2, FinishType, GotoType DEF CheckDisk, Pc
  <2>2. events' \in 0 .. MaxEvents BY <1>2, EventType DEF CheckDisk, TypeOK, NoEvent, CallFails
  <2>3. diskError' \in {"none", "cantStart", "stopped"} BY <1>2 DEF CheckDisk, TypeOK
  <2> QED BY <1>2, <2>1, <2>2, <2>3, Zenon DEF CheckDisk, TypeOK, JobsOK, host, panel
<1>3. CASE StartCreate(a)
  <2>1. JobsOK' BY <1>0, <1>3, FinishType, GotoType DEF StartCreate, Pc
  <2>2. box' \in Container BY <1>3, BoxTypes DEF StartCreate, TypeOK, RemoveOk, RemoveFails
  <2>3. events' \in 0 .. MaxEvents
    BY <1>3, EventType DEF StartCreate, TypeOK, RemoveOk, RemoveFails, NoEvent, CallFails
  <2> QED BY <1>3, <2>1, <2>2, <2>3, Zenon DEF StartCreate, TypeOK, JobsOK, memory, panel
<1>4. CASE StartFlag(a)
  <2>1. JobsOK' BY <1>0, <1>4, GotoType DEF StartFlag, Pc
  <2>2. row' \in [state : RowState, shouldRun : BOOLEAN] BY <1>4, RowTypes DEF StartFlag, TypeOK
  <2> QED BY <1>4, <2>1, <2>2, Zenon DEF StartFlag, TypeOK, JobsOK, memory, host, panel
<1>5. CASE StartRun(a)
  <2>1. JobsOK' BY <1>0, <1>5, FinishType DEF StartRun
  <2>2. box' \in Container BY <1>5, BoxTypes DEF StartRun, TypeOK
  <2>3. events' \in 0 .. MaxEvents BY <1>5, EventType DEF StartRun, TypeOK, NoEvent, CallFails
  <2> QED BY <1>5, <2>1, <2>2, <2>3, Zenon DEF StartRun, TypeOK, JobsOK, memory, panel
<1>6. CASE StartMake(a)
  <2>1. JobsOK' BY <1>0, <1>6, FinishType, GotoType DEF StartMake, Pc
  <2>2. box' \in Container BY <1>6, BoxTypes DEF StartMake, TypeOK, CreateOk, CreateFails
  <2>3. events' \in 0 .. MaxEvents
    BY <1>6, EventType DEF StartMake, TypeOK, CreateOk, CreateFails, NoEvent, CallFails
  <2>4. volume' \in BOOLEAN BY <1>6, Zenon DEF StartMake, TypeOK, CreateOk, CreateFails
  <2> QED BY <1>6, <2>1, <2>2, <2>3, <2>4, Zenon DEF StartMake, TypeOK, JobsOK, memory, panel
<1> QED BY <1>1, <1>2, <1>3, <1>4, <1>5, <1>6 DEF StartStep

\* The steps of the handlers keep the types.
LEMMA HandleType ==
    ASSUME TypeOK, NEW a \in Actors, Handle(a)
    PROVE  TypeOK'
<1>0. JobsOK /\ job[a] \in Job BY DEF TypeOK, JobsOK
<1>1. CASE Load(a)
  <2>1. JobsOK'
    <3>1. CASE Finish(a) BY <1>0, <3>1, FinishType
    <3>2. CASE ~Finish(a)
      <4>1. row.state \in RowState BY DEF TypeOK
      <4> QED BY <1>0, <1>1, <3>2, <4>1 DEF Load, JobsOK, Job, Pc
    <3> QED BY <3>1, <3>2
  <2> QED BY <1>1, <2>1, Zenon DEF Load, TypeOK, JobsOK, memory, host, panel
<1>2. CASE Check(a)
  <2>1. JobsOK'
    <3>1. CASE Finish(a) BY <1>0, <3>1, FinishType
    <3>2. CASE Spawn(a, job[a].op) /\ job[a].op \in {"stop", "restart"} BY <1>0, <3>2, SpawnType DEF AllOps
    <3>3. CASE \E pc \in {"status", "insert", "state", "remove"} : Goto(a, pc)
      BY <1>0, <3>3, GotoType DEF Pc
    <3>4. CASE job' = [job EXCEPT ![a].pc = "await", ![Slot].cancelled = TRUE]
      BY <1>0, <3>4, CancelType DEF Pc
    <3> QED BY <1>2, <3>1, <3>2, <3>3, <3>4 DEF Check, CancelTask
  <2> QED BY <1>2, <2>1, Zenon DEF Check, CancelTask, TypeOK, JobsOK, memory, host, panel
<1>3. CASE ReadStatus(a)
  <2>1. JobsOK'
    <3>1. PICK s \in Seen : job' = [job EXCEPT ![a].seen = s,
                                ![a].pc = IF job[a].op = "watch" THEN "measure" ELSE "go"]
      BY <1>3 DEF ReadStatus
    <3> QED BY <1>0, <3>1, ReadType DEF Pc, RowState
  <2>2. events' \in 0 .. MaxEvents BY <1>3, EventType DEF TypeOK, ReadStatus, NoEvent, CallFails
  <2> QED BY <1>3, <2>1, <2>2, Zenon DEF ReadStatus, TypeOK, JobsOK, memory, host, panel
<1>4. CASE GoRestore(a)
  <2>1. JobsOK' BY <1>0, <1>4, FinishType, SpawnType DEF GoRestore, AllOps
  <2>2. restoring' \in BOOLEAN BY <1>4, Zenon DEF GoRestore, TypeOK, Busy
  <2> QED BY <1>4, <2>1, <2>2, Zenon DEF GoRestore, TypeOK, JobsOK, host, panel
<1>5. CASE GoInstall(a)
  <2>1. JobsOK' BY <1>0, <1>5, FinishType, GotoType DEF GoInstall, Pc
  <2>2. diskError' \in {"none", "cantStart", "stopped"} BY <1>5 DEF GoInstall, TypeOK
  <2> QED BY <1>5, <2>1, <2>2, Zenon DEF GoInstall, TypeOK, JobsOK, host, panel
<1>6. CASE Mark(a)
  <2>1. JobsOK' BY <1>0, <1>6, FinishType, GotoType DEF Mark, Pc
  <2>2. [state |-> "installing", shouldRun |-> FALSE] \in [state : RowState, shouldRun : BOOLEAN]
    BY DEF RowState
  <2> QED BY <1>6, <2>1, <2>2, Zenon DEF Mark, TypeOK, JobsOK, memory, host, panel
<1>7. CASE SpawnInstall(a) \/ SpawnBackup(a)
  <2>1. JobsOK' BY <1>0, <1>7, SpawnType DEF SpawnInstall, SpawnBackup, AllOps
  <2> QED BY <1>7, <2>1, Zenon DEF SpawnInstall, SpawnBackup, TypeOK, JobsOK, memory, host, panel
<1>8. CASE InsertBackup(a)
  <2>1. JobsOK' BY <1>0, <1>8, GotoType DEF InsertBackup, Pc
  <2> QED BY <1>8, <2>1, Zenon DEF InsertBackup, TypeOK, JobsOK, memory, host, panel
<1>9. CASE Measure(a)
  <2>1. JobsOK' BY <1>0, <1>9, FinishType, SpawnType DEF Measure, AllOps
  <2>2. diskError' \in {"none", "cantStart", "stopped"} BY <1>9 DEF Measure, TypeOK
  <2>3. events' \in 0 .. MaxEvents BY <1>9, EventType DEF Measure, TypeOK, NoEvent, CallFails
  <2> QED BY <1>9, <2>1, <2>2, <2>3, Zenon DEF Measure, TypeOK, JobsOK, host, panel
<1>10. CASE StartStep(a) BY <1>10, StartType
<1>11. CASE Rebuild(a)
  <2>1. JobsOK' BY <1>0, <1>11, FinishType, GotoType DEF Rebuild, Pc
  <2>2. box' \in Container BY <1>11, BoxTypes DEF Rebuild, TypeOK, RemoveOk, RemoveFails
  <2>3. events' \in 0 .. MaxEvents
    BY <1>11, EventType DEF Rebuild, TypeOK, RemoveOk, RemoveFails, NoEvent, CallFails
  <2> QED BY <1>11, <2>1, <2>2, <2>3, Zenon DEF Rebuild, TypeOK, JobsOK, memory, panel
<1>12. CASE Remove(a)
  <2>1. JobsOK' BY <1>0, <1>12, FinishType, GotoType DEF Remove, Pc
  <2>2. box' \in Container BY <1>12, BoxTypes DEF Remove, TypeOK
  <2>3. events' \in 0 .. MaxEvents BY <1>12, EventType DEF Remove, TypeOK, NoEvent, CallFails
  <2>4. volume' \in BOOLEAN BY <1>12, Zenon DEF Remove, TypeOK
  <2> QED BY <1>12, <2>1, <2>2, <2>3, <2>4, Zenon DEF Remove, TypeOK, JobsOK, memory, panel
<1>13. CASE DropRow(a)
  <2>1. JobsOK' BY <1>0, <1>13, FinishType DEF DropRow
  <2>2. row' \in [state : RowState, shouldRun : BOOLEAN] BY <1>13 DEF DropRow, RowState
  <2> QED BY <1>13, <2>1, <2>2, Zenon DEF DropRow, TypeOK, JobsOK, memory, host, panel
<1>14. CASE RebuildMake(a)
  <2>1. JobsOK' BY <1>0, <1>14, FinishType DEF RebuildMake
  <2>2. box' \in Container BY <1>14, BoxTypes DEF RebuildMake, TypeOK, CreateOk, CreateFails
  <2>3. events' \in 0 .. MaxEvents
    BY <1>14, EventType DEF RebuildMake, TypeOK, CreateOk, CreateFails, NoEvent, CallFails
  <2>4. volume' \in BOOLEAN BY <1>14, Zenon DEF RebuildMake, TypeOK, CreateOk, CreateFails
  <2> QED BY <1>14, <2>1, <2>2, <2>3, <2>4, Zenon DEF RebuildMake, TypeOK, JobsOK, memory, panel
<1> QED
  BY <1>1, <1>2, <1>3, <1>4, <1>5, <1>6, <1>7, <1>8, <1>9, <1>10, <1>11, <1>12, <1>13, <1>14 DEF Handle

\* The steps of the background task keep the types.
LEMMA TaskType ==
    ASSUME TypeOK, Task
    PROVE  TypeOK'
<1>0. JobsOK /\ Slot \in Actors /\ job[Slot] \in Job BY DEF TypeOK, JobsOK, Actors
<1>1. CASE Begin
  <2>1. JobsOK' BY <1>0, <1>1, FinishType, GotoType DEF Begin, Pc
  <2>2. stopping' \in BOOLEAN BY <1>1, Zenon DEF Begin, TypeOK
  <2> QED BY <1>1, <2>1, <2>2, Zenon DEF Begin, TypeOK, JobsOK, host, panel
<1>2. CASE StopFlag
  <2>1. JobsOK' BY <1>0, <1>2, GotoType DEF StopFlag, Pc
  <2>2. row' \in [state : RowState, shouldRun : BOOLEAN] BY <1>2, RowTypes DEF StopFlag, TypeOK
  <2> QED BY <1>2, <2>1, <2>2, Zenon DEF StopFlag, TypeOK, JobsOK, memory, host, panel
<1>3. CASE StopState \/ StopPolicy \/ StopWait
  <2>1. JobsOK' BY <1>0, <1>3, FinishType, GotoType DEF StopState, StopPolicy, StopWait, Stopped, Pc
  <2>2. stopping' \in BOOLEAN BY <1>3, Zenon DEF StopState, StopPolicy, StopWait, Stopped, TypeOK
  <2>3. box' \in Container BY <1>3, BoxTypes DEF StopState, StopPolicy, StopWait, TypeOK, host
  <2>4. events' \in 0 .. MaxEvents
    BY <1>3, EventType DEF StopState, StopPolicy, StopWait, TypeOK, NoEvent, CallFails
  <2> QED BY <1>3, <2>1, <2>2, <2>3, <2>4, Zenon
          DEF StopState, StopPolicy, StopWait, TypeOK, JobsOK, host, panel
<1>4. CASE StartCreate(Slot) \/ StartMake(Slot) \/ StartFlag(Slot) \/ StartRun(Slot)
  BY <1>0, <1>4, StartType DEF StartStep
<1>5. CASE InstallPrepare \/ InstallBuild \/ InstallMake
  <2>1. JobsOK' BY <1>0, <1>5, FinishType, GotoType DEF InstallPrepare, InstallBuild, InstallMake, InstallFails, Pc
  <2>2. row' \in [state : RowState, shouldRun : BOOLEAN]
    BY <1>5, RowTypes DEF InstallPrepare, InstallBuild, InstallMake, InstallFails, TypeOK, RowState
  <2>3. box' \in Container
    BY <1>5, BoxTypes DEF InstallPrepare, InstallBuild, InstallMake, RemoveOk, RemoveFails, CreateOk, CreateFails, TypeOK
  <2>4. volume' \in BOOLEAN
    BY <1>5, Zenon DEF InstallPrepare, InstallBuild, InstallMake, RemoveOk, RemoveFails, CreateOk, CreateFails, TypeOK
  <2>5. events' \in 0 .. MaxEvents
    BY <1>5, EventType DEF InstallPrepare, InstallBuild, InstallMake, RemoveOk, RemoveFails, CreateOk, CreateFails,
       TypeOK, NoEvent, CallFails
  <2> QED BY <1>5, <2>1, <2>2, <2>3, <2>4, <2>5, Zenon
          DEF InstallPrepare, InstallBuild, InstallMake, TypeOK, JobsOK, memory, panel
<1>6. CASE InstallDone
  <2>1. JobsOK' BY <1>0, <1>6, GotoType DEF InstallDone, Pc
  <2>2. row' \in [state : RowState, shouldRun : BOOLEAN]
    BY <1>6, RowTypes DEF InstallDone, TypeOK, RowState
  <2> QED BY <1>6, <2>1, <2>2, Zenon DEF InstallDone, TypeOK, JobsOK, memory, host, panel
<1>7. CASE InstallEnd \/ BackupArchive
  <2>1. JobsOK' BY <1>0, <1>7, FinishType DEF InstallEnd, BackupArchive
  <2>2. events' \in 0 .. MaxEvents
    BY <1>7, EventType DEF InstallEnd, BackupArchive, TypeOK, NoEvent, CallFails
  <2> QED BY <1>7, <2>1, <2>2, Zenon
          DEF InstallEnd, BackupArchive, TypeOK, JobsOK, memory, host, panel
<1>8. CASE RestorePut
  <2>1. JobsOK' BY <1>0, <1>8, FinishType DEF RestorePut
  <2>2. events' \in 0 .. MaxEvents BY <1>8, EventType DEF RestorePut, TypeOK, NoEvent, CallFails
  <2> QED BY <1>8, <2>1, <2>2, Zenon DEF RestorePut, TypeOK, JobsOK, host, panel
<1>9. CASE Cancelled
  <2>1. JobsOK' BY <1>0, <1>9, FinishType DEF Cancelled
  <2>2. row' \in [state : RowState, shouldRun : BOOLEAN]
    BY <1>9, RowTypes DEF Cancelled, TypeOK, RowState
  <2>3. restoring' \in BOOLEAN /\ stopping' \in BOOLEAN BY <1>9, Zenon DEF Cancelled, TypeOK
  <2>4. box' \in Container BY <1>9, BoxTypes DEF Cancelled, TypeOK
  <2>5. volume' \in BOOLEAN BY <1>9, Zenon DEF Cancelled, TypeOK
  <2> QED BY <1>9, <2>1, <2>2, <2>3, <2>4, <2>5, Zenon DEF Cancelled, TypeOK, JobsOK, panel
<1> QED BY <1>1, <1>2, <1>3, <1>4, <1>5, <1>6, <1>7, <1>8, <1>9 DEF Task

\* So do the start of the panel and what follows it.
LEMMA ResumeType ==
    ASSUME TypeOK, Recover \/ Resume
    PROVE  TypeOK'
<1>0. JobsOK /\ Resumer \in Actors /\ job[Resumer] \in Job BY DEF TypeOK, JobsOK, Actors, Handlers
<1>1. CASE Recover
  <2>1. JobsOK'
    <3>1. [Idle EXCEPT !.op = "resume", !.pc = "find"] \in Job BY IdleIsJob DEF Job, Pc
    <3> QED BY <1>0, <1>1, <3>1 DEF Recover, JobsOK
  <2>2. row' \in [state : RowState, shouldRun : BOOLEAN] BY <1>1, RowTypes DEF Recover, TypeOK, RowState
  <2> QED BY <1>1, <2>1, <2>2, Zenon DEF Recover, TypeOK, JobsOK, memory, host
<1>2. CASE FindStates \/ GiveUp
  <2>1. JobsOK'
    <3>1. CASE Finish(Resumer) BY <1>0, <3>1, FinishType
    <3>2. CASE job' = [job EXCEPT ![Resumer].seen = IF Live(box) THEN "up" ELSE "down",
                                  ![Resumer].pc = "load"]
      BY <1>0, <3>2, ReadType DEF Pc, Seen, RowState
    <3>3. CASE UNCHANGED job BY <1>0, <3>3 DEF JobsOK
    <3> QED BY <1>2, <3>1, <3>2, <3>3 DEF FindStates, GiveUp
  <2>2. events' \in 0 .. MaxEvents BY <1>2, EventType DEF FindStates, GiveUp, TypeOK, NoEvent
  <2>3. attempts' \in 0 .. ResumeAttempts
    BY <1>2, BoundsAssumption DEF FindStates, GiveUp, TypeOK, panel
  <2> QED BY <1>2, <2>1, <2>2, <2>3, Zenon DEF FindStates, GiveUp, TypeOK, JobsOK, memory, host, panel
<1>3. CASE Select
  <2>1. JobsOK'
    <3>1. CASE Finish(Resumer) BY <1>0, <3>1, FinishType
    <3>2. CASE job' = [job EXCEPT ![Resumer].snap = row.state, ![Resumer].pc = "check"]
      BY <1>0, <3>2, ReadType DEF Pc, Seen, TypeOK
    <3> QED BY <1>3, <3>1, <3>2 DEF Select
  <2> QED BY <1>3, <2>1, Zenon DEF Select, TypeOK, JobsOK, memory, host, panel
<1>4. CASE Check(Resumer) BY <1>0, <1>4, HandleType DEF Handle
<1>5. CASE StartStep(Resumer) BY <1>0, <1>5, StartType
<1> QED BY <1>1, <1>2, <1>3, <1>4, <1>5 DEF Resume

\* And so does what happens around the panel.
LEMMA AroundType ==
    ASSUME TypeOK, Around
    PROVE  TypeOK'
<1>0. events' \in 0 .. MaxEvents
  BY EventType DEF Around, PanelDies, Shutdown, Reboot, GameExits, BoxRemoved, DiskFills, TypeOK
<1>1. CASE PanelDies \/ Shutdown \/ Reboot
  <2>1. JobsOK' BY <1>1, IdleIsJob DEF PanelDies, Shutdown, Reboot, Down, JobsOK
  <2>2. row' \in [state : RowState, shouldRun : BOOLEAN]
    BY <1>1, RowTypes DEF PanelDies, Shutdown, Reboot, TypeOK, RowState
  <2>3. box' \in Container
    BY <1>1, BoxTypes DEF PanelDies, Shutdown, Reboot, TypeOK, ExitCode, host
  <2>4. attempts' \in 0 .. ResumeAttempts
    BY <1>1, BoundsAssumption DEF PanelDies, Shutdown, Reboot, Down
  <2> QED BY <1>0, <1>1, <2>1, <2>2, <2>3, <2>4, Zenon
          DEF PanelDies, Shutdown, Reboot, Down, TypeOK, JobsOK, host
<1>2. CASE GameExits \/ BoxRemoved \/ DiskFills
  <2>1. box' \in Container BY <1>2, BoxTypes DEF GameExits, BoxRemoved, DiskFills, TypeOK
  <2>2. full' \in BOOLEAN BY <1>2, Zenon DEF GameExits, BoxRemoved, DiskFills, TypeOK
  <2> QED BY <1>0, <1>2, <2>1, <2>2, Zenon
          DEF GameExits, BoxRemoved, DiskFills, TypeOK, JobsOK, memory, panel
<1> QED BY <1>1, <1>2 DEF Around

\* Every step of the panel, its games and its host keeps the types, whatever
\* the requests, the operations, the events and the bounds are.
THEOREM TypeCorrect == Spec => []TypeOK
<1>1. TypeOK /\ [Next]_vars => TypeOK'
  <2> SUFFICES ASSUME TypeOK, [Next]_vars PROVE TypeOK' OBVIOUS
  <2>1. ASSUME NEW a \in Reqs, Request(a) PROVE TypeOK'
    <3>1. JobsOK'
      <4>1. \A op \in Ops : [Idle EXCEPT !.op = op, !.pc = "load"] \in Job
        BY IdleIsJob, OpsAssumption DEF Job, Pc
      <4>2. JobsOK BY DEF TypeOK, JobsOK
      <4> QED BY <2>1, <4>1, <4>2 DEF Request, JobsOK
    <3> QED BY <2>1, <3>1, Zenon DEF Request, TypeOK, JobsOK, memory, host, panel
  <2>2. ASSUME NEW a \in Reqs, Handle(a) PROVE TypeOK' BY <2>2, HandleType DEF Actors, Handlers
  <2>3. CASE Task BY <2>3, TaskType
  <2>4. CASE Recover \/ Resume BY <2>4, ResumeType
  <2>5. CASE Around BY <2>5, AroundType
  <2>6. CASE UNCHANGED vars BY <2>6, Zenon DEF vars, memory, host, panel, TypeOK
  <2> QED BY <2>1, <2>2, <2>3, <2>4, <2>5, <2>6 DEF Next
<1> QED BY <1>1, InitType, PTL DEF Spec----------------------------------------------------------------------------
(* The flags a status is made of.                                          *)

\* A handler that goes on or ends leaves the task alone.
LEMMA SlotKept ==
    ASSUME JobsOK, NEW a \in Handlers, NEW pc, Goto(a, pc) \/ Finish(a)
    PROVE  job'[Slot] = job[Slot]
<1>1. Slot \in Actors /\ a # Slot BY ActorsAssumption DEF Actors, Handlers
<1> QED BY <1>1 DEF JobsOK, Goto, Finish

\* One that spawns fills an empty slot and no other.
LEMMA SlotSpawned ==
    ASSUME JobsOK, NEW a \in Handlers, NEW op, Spawn(a, op)
    PROVE  job'[Slot] = IF Busy THEN job[Slot] ELSE [Idle EXCEPT !.op = op, !.pc = "begin"]
<1>1. Slot \in Actors /\ a # Slot BY ActorsAssumption DEF Actors, Handlers
<1> QED BY <1>1 DEF JobsOK, Spawn

\* What a handler's step can do to the task: nothing, cancel it, or begin one.
LEMMA SlotStep ==
    ASSUME TypeOK, NEW a \in Handlers, Handle(a) \/ FindStates \/ GiveUp \/ Select \/ Request(a)
    PROVE  \/ job'[Slot] = job[Slot]
           \/ job'[Slot] = [job[Slot] EXCEPT !.cancelled = TRUE]
           \/ ~Busy /\ \E op \in {"stop", "restart", "install", "restore", "backup"} :
                          /\ job'[Slot] = [Idle EXCEPT !.op = op, !.pc = "begin"]
                          /\ op = "restore" => GoRestore(a)
<1>0. JobsOK /\ Slot \in Actors /\ a \in Actors /\ a # Slot /\ Resumer # Slot
      /\ Resumer \in Handlers /\ Resumer \in Actors
  BY ActorsAssumption DEF TypeOK, JobsOK, Actors, Handlers
<1>1. CASE Load(a)
  BY <1>0, <1>1, SlotKept DEF Load, JobsOK
<1>2. CASE Check(a)
  <2>1. CASE Finish(a) \/ \E pc \in {"status", "insert", "state", "remove"} : Goto(a, pc)
    BY <1>0, <2>1, SlotKept
  <2>2. CASE Allowed(a) /\ Spawn(a, job[a].op) /\ job[a].op \in {"stop", "restart"}
    <3>1. job'[Slot] = [Idle EXCEPT !.op = job[a].op, !.pc = "begin"] /\ ~Busy
      BY <1>0, <2>2, SlotSpawned DEF Allowed
    <3> QED BY <2>2, <3>1
  <2>3. CASE job' = [job EXCEPT ![a].pc = "await", ![Slot].cancelled = TRUE]
    BY <1>0, <2>3 DEF JobsOK
  <2> QED BY <1>2, <2>1, <2>2, <2>3 DEF Check, CancelTask
<1>3. CASE ReadStatus(a)
  BY <1>0, <1>3 DEF ReadStatus, JobsOK
<1>4. CASE GoRestore(a) \/ GoInstall(a) \/ Mark(a) \/ SpawnInstall(a) \/ InsertBackup(a) \/ SpawnBackup(a)
  BY <1>0, <1>4, SlotKept, SlotSpawned
     DEF GoRestore, GoInstall, Mark, SpawnInstall, InsertBackup, SpawnBackup
<1>5. CASE Measure(a)
  BY <1>0, <1>5, SlotKept, SlotSpawned DEF Measure, Allowed
<1>6. CASE StartStep(a) \/ Rebuild(a) \/ RebuildMake(a) \/ Remove(a) \/ DropRow(a)
  BY <1>0, <1>6, SlotKept
     DEF StartStep, ReadState, CheckDisk, StartCreate, StartMake, StartFlag, StartRun, Rebuild, RebuildMake,
         Remove, DropRow
<1>7. CASE FindStates \/ GiveUp \/ Select
  BY <1>0, <1>7, SlotKept DEF FindStates, GiveUp, Select, JobsOK
<1>8. CASE Request(a) BY <1>0, <1>8 DEF Request, JobsOK
<1> QED BY <1>1, <1>2, <1>3, <1>4, <1>5, <1>6, <1>7, <1>8 DEF Handle

\* The stopping flag follows the task through _stop.
LEMMA StoppingStep ==
    ASSUME TypeOK, StoppingShown, [Next]_vars
    PROVE  StoppingShown'
<1>0. JobsOK /\ Slot \in Actors /\ Resumer \in Handlers /\ Resumer # Slot
      /\ job[Slot] \in Job /\ Idle.op = "none" /\ Idle.pc = "idle"
  BY ActorsAssumption DEF TypeOK, JobsOK, Actors, Handlers, Idle
<1>1. ASSUME NEW a \in Handlers,
             Handle(a) \/ FindStates \/ GiveUp \/ Select \/ Request(a)
      PROVE  StoppingShown'
  <2>1. UNCHANGED stopping
    BY <1>1 DEF Handle, Load, Check, CancelTask, ReadStatus, GoRestore, GoInstall, Mark, SpawnInstall,
       InsertBackup, SpawnBackup, Measure, StartStep, ReadState, CheckDisk, StartCreate, StartMake, StartFlag,
       StartRun, Rebuild, RebuildMake, Remove, DropRow, FindStates, GiveUp, Select, Request, memory
  <2>2. CASE job'[Slot] = job[Slot] BY <2>1, <2>2 DEF StoppingShown
  <2>3. CASE job'[Slot] = [job[Slot] EXCEPT !.cancelled = TRUE]
    <3>1. job'[Slot].op = job[Slot].op /\ job'[Slot].pc = job[Slot].pc BY <1>0, <2>3 DEF Job
    <3> QED BY <2>1, <3>1 DEF StoppingShown
  <2>4. CASE ~Busy /\ \E op : job'[Slot] = [Idle EXCEPT !.op = op, !.pc = "begin"]
    <3>1. job[Slot].pc = "idle" /\ job'[Slot].pc = "begin" BY <1>0, <2>4 DEF Busy, Idle
    <3> QED BY <2>1, <3>1 DEF StoppingShown
  <2> QED BY <1>1, <2>2, <2>3, <2>4, SlotStep
<1>2. CASE Task
  <2>1. ASSUME Finish(Slot) PROVE job'[Slot] = Idle BY <1>0, <2>1 DEF Finish
  <2>2. ASSUME NEW pc, Goto(Slot, pc)
        PROVE  job'[Slot].pc = pc /\ job'[Slot].op = job[Slot].op
    BY <1>0, <2>2 DEF Goto, JobsOK, Job
  <2>3. CASE Begin BY <1>0, <2>1, <2>2, <2>3 DEF Begin, At, StoppingShown
  <2>4. CASE StopFlag BY <1>0, <2>2, <2>4 DEF StopFlag, At, StoppingShown, memory
  <2>5. CASE StopState \/ StopPolicy \/ StopWait
    BY <1>0, <2>1, <2>2, <2>5 DEF StopState, StopPolicy, StopWait, Stopped, At, StoppingShown
  <2>6. CASE StartCreate(Slot) \/ StartMake(Slot) \/ StartFlag(Slot) \/ StartRun(Slot)
    <3>1. UNCHANGED stopping BY <2>6 DEF StartCreate, StartMake, StartFlag, StartRun, memory
    <3>2. job[Slot].pc \in {"create", "make", "flag", "run"}
      BY <2>6 DEF StartCreate, StartMake, StartFlag, StartRun, At, AtOp
    <3>3. job'[Slot].pc \in {"idle", "make", "flag", "run"}
      BY <1>0, <2>1, <2>2, <2>6 DEF StartCreate, StartMake, StartFlag, StartRun
    <3> QED BY <3>1, <3>2, <3>3 DEF StoppingShown
  <2>7. CASE InstallPrepare \/ InstallBuild \/ InstallMake \/ InstallDone \/ InstallEnd
    <3>1. UNCHANGED stopping
      BY <2>7 DEF InstallPrepare, InstallBuild, InstallMake, InstallDone, InstallEnd, memory
    <3>2. job[Slot].pc \in {"prepare", "build", "make", "done", "end"}
      BY <2>7 DEF InstallPrepare, InstallBuild, InstallMake, InstallDone, InstallEnd, At, AtOp
    <3>3. job'[Slot].pc \in {"idle", "build", "make", "done", "end"}
      BY <1>0, <2>1, <2>2, <2>7
         DEF InstallPrepare, InstallBuild, InstallMake, InstallDone, InstallEnd, InstallFails
    <3> QED BY <3>1, <3>2, <3>3 DEF StoppingShown
  <2>8. CASE RestorePut \/ BackupArchive
    BY <1>0, <2>1, <2>8 DEF RestorePut, BackupArchive, At, StoppingShown, memory
  <2>9. CASE Cancelled BY <1>0, <2>1, <2>9 DEF Cancelled, StoppingShown
  <2> QED BY <1>2, <2>3, <2>4, <2>5, <2>6, <2>7, <2>8, <2>9 DEF Task
<1>3. CASE Recover
  <2>1. job'[Slot] = job[Slot] BY <1>0, <1>3 DEF Recover, JobsOK
  <2> QED BY <1>3, <2>1 DEF Recover, StoppingShown, memory
<1>4. CASE Resume BY <1>0, <1>1, <1>4 DEF Resume, Handle
<1>5. CASE Around
  <2>1. CASE PanelDies \/ Shutdown \/ Reboot
    BY <1>0, <2>1 DEF PanelDies, Shutdown, Reboot, Down, StoppingShown
  <2>2. CASE GameExits \/ BoxRemoved \/ DiskFills
    BY <2>2 DEF GameExits, BoxRemoved, DiskFills, StoppingShown, memory
  <2> QED BY <1>5, <2>1, <2>2 DEF Around
<1>6. CASE UNCHANGED vars BY <1>6 DEF vars, StoppingShown
<1> QED BY <1>1, <1>2, <1>3, <1>4, <1>5, <1>6 DEF Next, Handlers

\* The restoring flag is up for as long as there is a restore task.
LEMMA RestoreStep ==
    ASSUME TypeOK, RestoreFlagged, [Next]_vars
    PROVE  RestoreFlagged'
<1>0. JobsOK /\ Slot \in Actors /\ Resumer \in Handlers /\ Resumer # Slot
      /\ job[Slot] \in Job /\ Idle.op = "none"
  BY ActorsAssumption DEF TypeOK, JobsOK, Actors, Handlers, Idle
<1>1. ASSUME NEW a \in Handlers, GoRestore(a) PROVE RestoreFlagged'
  <2>1. job[a] \in Job BY <1>0 DEF JobsOK, Actors
  <2>2. CASE StatusSeen(a) = "down"
    <3>1. ~restoring BY <2>1, <2>2 DEF StatusSeen, Job, RowState
    <3>2. CASE Busy
      BY <1>0, <1>1, <2>2, <3>1, <3>2, SlotSpawned DEF GoRestore, RestoreFlagged
    <3>3. CASE ~Busy
      <4>1. restoring' = TRUE BY <1>1, <2>2, <3>3, Zenon DEF GoRestore
      <4> QED BY <4>1 DEF RestoreFlagged
    <3> QED BY <3>2, <3>3
  <2>3. CASE StatusSeen(a) # "down"
    BY <1>0, <1>1, <2>3, SlotKept DEF GoRestore, RestoreFlagged
  <2> QED BY <2>2, <2>3
<1>2. ASSUME NEW a \in Handlers, ~GoRestore(a),
             Handle(a) \/ FindStates \/ GiveUp \/ Select \/ Request(a)
      PROVE  RestoreFlagged'
  <2>1. UNCHANGED restoring
    BY <1>2 DEF Handle, Load, Check, CancelTask, ReadStatus, GoInstall, Mark, SpawnInstall,
       InsertBackup, SpawnBackup, Measure, StartStep, ReadState, CheckDisk, StartCreate, StartMake, StartFlag,
       StartRun, Rebuild, RebuildMake, Remove, DropRow, FindStates, GiveUp, Select, Request, memory
  <2>2. job'[Slot].op # "restore" \/ job'[Slot].op = job[Slot].op
    <3>1. ASSUME NEW op, job'[Slot] = [Idle EXCEPT !.op = op, !.pc = "begin"]
          PROVE  job'[Slot].op = op
      BY <3>1 DEF Idle
    <3>2. CASE job'[Slot] = [job[Slot] EXCEPT !.cancelled = TRUE] BY <1>0, <3>2 DEF Job
    <3> QED BY <1>2, <3>1, <3>2, SlotStep
  <2> QED BY <2>1, <2>2 DEF RestoreFlagged
<1>3. ASSUME Finish(Slot) PROVE job'[Slot].op = "none" BY <1>0, <1>3 DEF Finish
<1>4. CASE Task
  <2>1. CASE RestorePut \/ Cancelled \/ InstallEnd \/ BackupArchive
    BY <1>3, <2>1 DEF RestorePut, Cancelled, InstallEnd, BackupArchive, RestoreFlagged
  <2>2. CASE ~(RestorePut \/ Cancelled \/ InstallEnd \/ BackupArchive)
    <3>1. UNCHANGED restoring
      BY <1>4, <2>2 DEF Task, Begin, StopFlag, StopState, StopPolicy, StopWait, StartCreate, StartMake,
         StartFlag, StartRun, InstallPrepare, InstallBuild, InstallMake, InstallDone, memory
    <3>2. job'[Slot].op \in {"none", job[Slot].op}
      <4>1. Finish(Slot) \/ \E pc : Goto(Slot, pc)
        BY <1>4, <2>2 DEF Task, Begin, StopFlag, StopState, StopPolicy, StopWait, Stopped, StartCreate,
           StartMake, StartFlag, StartRun, InstallPrepare, InstallBuild, InstallMake, InstallFails, InstallDone
      <4> QED BY <1>0, <1>3, <4>1 DEF Goto, JobsOK, Job
    <3> QED BY <3>1, <3>2 DEF RestoreFlagged
  <2> QED BY <2>1, <2>2
<1>5. CASE Recover
  <2>1. job'[Slot] = job[Slot] BY <1>0, <1>5 DEF Recover, JobsOK
  <2> QED BY <1>5, <2>1 DEF Recover, RestoreFlagged, memory
<1>6. CASE Around
  <2>1. CASE PanelDies \/ Shutdown \/ Reboot
    BY <1>0, <2>1 DEF PanelDies, Shutdown, Reboot, Down, RestoreFlagged
  <2>2. CASE GameExits \/ BoxRemoved \/ DiskFills
    BY <2>2 DEF GameExits, BoxRemoved, DiskFills, RestoreFlagged, memory
  <2> QED BY <1>6, <2>1, <2>2 DEF Around
<1>7. CASE UNCHANGED vars BY <1>7 DEF vars, memory, RestoreFlagged
<1>8. ASSUME NEW a \in Handlers,
             Handle(a) \/ FindStates \/ GiveUp \/ Select \/ Request(a)
      PROVE  RestoreFlagged'
  BY <1>1, <1>2, <1>8
<1>9. CASE Resume BY <1>0, <1>8, <1>9 DEF Resume, Handle
<1> QED BY <1>4, <1>5, <1>6, <1>7, <1>8, <1>9 DEF Next, Handlers

\* The stopping flag is right in every state of every execution: whichever
\* requests race and whatever call fails, no server is left showing as stopping.
THEOREM StoppingAlwaysShown == Spec => []StoppingShown
<1>1. Init => StoppingShown
  <2> SUFFICES ASSUME Init PROVE StoppingShown OBVIOUS
  <2>1. job[Slot] = Idle BY ActorsAssumption DEF Init, Actors
  <2> QED BY <2>1 DEF Init, StoppingShown, Idle
<1>2. TypeOK /\ StoppingShown /\ [Next]_vars => StoppingShown' BY StoppingStep
<1> QED BY <1>1, <1>2, TypeCorrect, PTL DEF Spec

\* A server whose files are being replaced always shows as restoring.
THEOREM RestoreAlwaysFlagged == Spec => []RestoreFlagged
<1>1. Init => RestoreFlagged
  <2> SUFFICES ASSUME Init PROVE RestoreFlagged OBVIOUS
  <2>1. job[Slot] = Idle BY ActorsAssumption DEF Init, Actors
  <2> QED BY <2>1 DEF Init, RestoreFlagged, Idle
<1>2. TypeOK /\ RestoreFlagged /\ [Next]_vars => RestoreFlagged' BY RestoreStep
<1> QED BY <1>1, <1>2, TypeCorrect, PTL DEF Spec

\* Both flags tell what the task does.
THEOREM FlagsAlwaysShown == Spec => []FlagsShown
BY StoppingAlwaysShown, RestoreAlwaysFlagged, PTL DEF FlagsShown

\* A deleted row is not wanted either, so that there is nothing left in it to change.
Dropped == row.state = "none" => row = [state |-> "none", shouldRun |-> FALSE]

\* What a step can do to the row of a server: nothing once it is deleted.
LEMMA DroppedStep ==
    ASSUME TypeOK, Dropped, [Next]_vars
    PROVE  Dropped' /\ (row.state = "none" => row' = row)
<1>0. row \in [state : RowState, shouldRun : BOOLEAN] BY DEF TypeOK
<1>1. ASSUME row' = row PROVE Dropped' /\ (row.state = "none" => row' = row)
  BY <1>1 DEF Dropped
<1>2. ASSUME NEW s \in RowState \ {"none"}, row' = SetState(s)
      PROVE  Dropped' /\ (row.state = "none" => row' = row)
  BY <1>0, <1>2 DEF Dropped, SetState
<1>3. ASSUME NEW b \in BOOLEAN, row' = SetShouldRun(b)
      PROVE  Dropped' /\ (row.state = "none" => row' = row)
  BY <1>0, <1>3 DEF Dropped, SetShouldRun
<1>4. CASE \E a \in Reqs : Mark(a)
  BY <1>1, <1>4 DEF Mark, Dropped
<1>5. CASE \E a \in Reqs : DropRow(a)
  BY <1>5 DEF DropRow, Dropped
<1>6. CASE \E a \in Actors : StartFlag(a) BY <1>3, <1>6 DEF StartFlag
<1>7. CASE Task
  <2>1. CASE StopFlag BY <1>3, <2>1 DEF StopFlag
  <2>2. CASE InstallPrepare \/ InstallBuild \/ InstallMake
    BY <1>1, <1>2, <2>2 DEF InstallPrepare, InstallBuild, InstallMake, InstallFails, RowState
  <2>3. CASE InstallDone BY <1>2, <2>3 DEF InstallDone, RowState
  <2>4. CASE Cancelled BY <1>1, <1>2, <2>4 DEF Cancelled, RowState
  <2>5. CASE StartFlag(Slot) BY <1>3, <2>5 DEF StartFlag
  <2>6. CASE ~(StopFlag \/ InstallPrepare \/ InstallBuild \/ InstallMake \/ InstallDone \/ Cancelled
               \/ StartFlag(Slot))
    BY <1>1, <1>7, <2>6 DEF Task, Begin, StopState, StopPolicy, StopWait, StartCreate, StartMake, StartRun,
       InstallEnd, RestorePut, BackupArchive
  <2> QED BY <2>1, <2>2, <2>3, <2>4, <2>5, <2>6
<1>8. CASE Recover BY <1>1, <1>2, <1>8 DEF Recover, RowState
<1>9. CASE Around
  <2>1. row' \in {row, SetState("install_failed")}
    BY <1>9 DEF Around, PanelDies, Shutdown, Reboot, GameExits, BoxRemoved, DiskFills
  <2> QED BY <1>1, <1>2, <2>1 DEF RowState
<1>10. ASSUME NEW a \in Handlers, ~Mark(a), ~DropRow(a), ~StartFlag(a),
              Handle(a) \/ Request(a)
       PROVE  row' = row
  BY <1>10 DEF Handle, Load, Check, CancelTask, ReadStatus, GoRestore, GoInstall, SpawnInstall,
     InsertBackup, SpawnBackup, Measure, StartStep, ReadState, CheckDisk, StartCreate, StartMake,
     StartRun, Rebuild, RebuildMake, Remove, Request
<1>11. CASE \E a \in Reqs : Request(a) \/ Handle(a)
  BY <1>1, <1>4, <1>5, <1>6, <1>10, <1>11 DEF Handlers, Actors
<1>12. CASE Resume
  <2>1. CASE StartFlag(Resumer) BY <1>6, <2>1 DEF Actors, Handlers
  <2>2. CASE ~StartFlag(Resumer)
    BY <1>1, <1>12, <2>2 DEF Resume, FindStates, GiveUp, Select, Check, CancelTask, StartStep, ReadState,
       CheckDisk, StartCreate, StartMake, StartRun
  <2> QED BY <2>1, <2>2
<1>13. CASE UNCHANGED vars BY <1>1, <1>13 DEF vars
<1> QED BY <1>7, <1>8, <1>9, <1>11, <1>12, <1>13 DEF Next

\* Deletion is for good: nothing a late task, a flag or a restart of the panel
\* writes brings back the row of a server that is gone.
THEOREM DeletionIsFinal == Spec => DeletedForGood
<1>1. Init => Dropped BY DEF Init, Dropped
<1>2. TypeOK /\ Dropped /\ [Next]_vars => Dropped' BY DroppedStep
<1>3. TypeOK /\ Dropped /\ [Next]_vars => [row.state = "none" => row' = row]_vars BY DroppedStep
<1> QED BY <1>1, <1>2, <1>3, TypeCorrect, PTL DEF Spec, DeletedForGood
----------------------------------------------------------------------------
(***************************************************************************)
(* ServerManager with one request at a time, beside its background task    *)
(* and a game that goes down or comes back as it likes: a restore and an   *)
(* install have the files to themselves, rows and flags say what is so,    *)
(* nothing is left of a deleted server, and the whole implements           *)
(* PromisedServer.  With two requests at once none of this holds (README,  *)
(* section 3).                                                             *)
(***************************************************************************)

\* One request at a time and no change that reinstalls the game, which passes during a
\* restart; the panel, the agent and the host stay up and answer, while games exit and
\* disks fill as they like.
OneClient(c) ==
    /\ Reqs = {c}
    /\ "update" \notin Ops
    /\ Events \subseteq {"gameExits", "diskFills"}

\* Where the task can be, and what the row and the game are then.
TaskPlace ==
    LET s == job[Slot] IN
    \/ s = Idle
    \/ /\ s.op \in {"stop", "restart"} /\ s.pc \in {"begin", "off", "state", "policy", "wait"}
       /\ row.state = "installed"
       /\ s.pc = "wait" => ~Live(box) \/ box.policy = "no"
    \/ /\ s.op = "restart" /\ s.pc \in {"create", "make", "flag", "run"}
       /\ row.state = "installed" /\ ~Live(box)
       /\ s.pc = "make" => ~Exists(box) \/ crossed
    \/ /\ s.op = "install" /\ s.pc \in {"begin", "prepare", "build", "make", "done"}
       /\ row.state = "installing" /\ ~Live(box)
       /\ s.pc = "make" => ~Exists(box)
       /\ s.pc = "done" => Exists(box)
    \/ s.op = "install" /\ s.pc = "end" /\ row.state = "installed" /\ ~Live(box)
    \/ s.op = "restore" /\ s.pc \in {"begin", "put"} /\ row.state = "installed" /\ ~Live(box)
    \/ s.op = "backup" /\ s.pc \in {"begin", "archive"} /\ row.state = "installed"

\* What a request has loaded is so until it acts on it, or nothing runs that could
\* bring the game up.
Loaded(c) ==
    IF job[c].snap = "installed" THEN row.state = "installed"
    ELSE row.state # "none" /\ ~Live(box) /\ job[Slot].op \in {"none", "install"}

\* Where the request can be: from its check on, it has the server to itself, but for
\* a change of the settings, a delete and the watcher.  A change that rebuilds the
\* container has found it between the two halves of a restart.
ClientPlace(c) ==
    LET r == job[c] IN
    \/ r = Idle
    \/ r.op \in Ops /\ r.pc = "load"
    \/ r.op \in Ops /\ r.pc = "check" /\ Loaded(c)
    \/ r.op = "watch" /\ r.pc \in {"status", "measure"} /\ Loaded(c)
    \/ r.op \in {"restore", "reinstall"} /\ r.pc = "status" /\ ~Busy /\ Loaded(c)
    \/ /\ r.op \in {"restore", "reinstall"} /\ r.pc = "go" /\ ~Busy /\ Loaded(c)
       /\ r.seen = "up" \/ (r.seen = "down" /\ ~Live(box))
    \/ r.op \in {"create", "reinstall"} /\ r.pc = "mark" /\ ~Busy /\ ~Live(box) /\ row.state # "none"
    \/ r.op \in {"create", "reinstall"} /\ r.pc = "spawn" /\ ~Busy /\ ~Live(box) /\ row.state = "installing"
    \/ r.op = "backup" /\ r.pc \in {"insert", "spawn"} /\ ~Busy /\ row.state = "installed"
    \/ r.op = "start" /\ r.pc = "state" /\ ~Busy /\ row.state = "installed"
    \/ /\ r.op = "start" /\ r.pc \in {"disk", "create", "make", "flag", "run"}
       /\ ~Busy /\ ~Live(box) /\ row.state = "installed"
       /\ r.pc = "make" => ~Exists(box)
    \/ r.op = "config" /\ r.pc = "state" /\ row.state = "installed"
    \/ r.op = "config" /\ r.pc \in {"rebuild", "make"} /\ row.state = "installed" /\ crossed
    \/ r.op = "delete" /\ r.pc = "await" /\ row.state # "none"
    \/ r.op = "delete" /\ r.pc = "remove" /\ ~Busy /\ row.state # "none"
    \/ r.op = "delete" /\ r.pc = "drop" /\ ~Busy /\ row.state # "none" /\ ~Exists(box)

\* The row and the container of the server, and who is about to bring them in line.
ServerPlace(c) ==
    LET r == job[c] s == job[Slot] IN
    /\ Live(box) => row.state = "installed"
    /\ row.state = "installed" => Exists(box) \/ s.pc = "make" \/ r.pc \in {"make", "remove", "drop"}
    /\ row.state = "installing" => s.op = "install" \/ r.pc \in {"spawn", "remove", "drop"}
    /\ row.state = "none" => s = Idle /\ ~Exists(box) /\ r.pc \in {"idle", "load"}

\* Whether it is to run, against whether it does.
WantedPlace(c) ==
    LET r == job[c] s == job[Slot] IN
    /\ Live(box) => \/ row.shouldRun
                    \/ s.op \in {"stop", "restart"} /\ s.pc \in {"state", "policy", "wait"}
                    \/ r.pc = "remove"
    /\ row.shouldRun => \/ box.status \notin {"none", "created"} \/ crossed
                        \/ s.pc \in {"make", "flag", "run"}
                        \/ r.pc \in {"make", "flag", "run", "remove", "drop"}
    /\ r.pc = "run" \/ s.pc = "run" => row.shouldRun
    /\ row.state = "installing" => ~row.shouldRun

\* Flags and the volume: only a delete leaves a flag behind, and it leaves no volume.
FlagPlace(c) ==
    LET r == job[c] s == job[Slot] IN
    /\ s.cancelled => r.pc = "await"
    /\ restoring => s.op = "restore" \/ row.state = "none" \/ r.pc \in {"remove", "drop"}
    /\ r.pc = "drop" \/ row.state = "none" => ~volume

PanelUp == up /\ job[Resumer] = Idle

OneInv(c) ==
    /\ PanelUp /\ TaskPlace /\ ClientPlace(c)
    /\ ServerPlace(c) /\ WantedPlace(c) /\ FlagPlace(c)
----------------------------------------------------------------------------
(* What a step does to the coroutines.                                     *)

LEMMA IdleFields ==
    Idle.op = "none" /\ Idle.pc = "idle" /\ Idle.snap = "none" /\ Idle.seen = "unknown" /\ Idle.cancelled = FALSE
BY DEF Idle

\* y is x, at another place.
Moved(x, y, pc) == y.op = x.op /\ y.snap = x.snap /\ y.seen = x.seen /\ y.cancelled = x.cancelled /\ y.pc = pc

LEMMA ClientMoves ==
    ASSUME NEW c, OneClient(c), JobsOK, job[Resumer] = Idle
    PROVE  /\ c \in Actors /\ Slot \in Actors /\ c # Slot
           /\ \A pc : Goto(c, pc) => /\ Moved(job[c], job'[c], pc) /\ job'[Slot] = job[Slot]
                                     /\ job'[Resumer] = Idle
           /\ Finish(c) => job'[c] = Idle /\ job'[Slot] = job[Slot] /\ job'[Resumer] = Idle
           /\ \A op : Spawn(c, op) =>
                 /\ job'[c] = Idle /\ job'[Resumer] = Idle
                 /\ Busy => job'[Slot] = job[Slot]
                 /\ ~Busy => Moved(Idle, [job'[Slot] EXCEPT !.op = "none"], "begin") /\ job'[Slot].op = op
<1>1. c \in Actors /\ Slot \in Actors /\ Resumer \in Actors /\ c # Slot /\ c # Resumer /\ Slot # Resumer
  BY ActorsAssumption DEF OneClient, Actors, Handlers
<1>2. ASSUME NEW pc, Goto(c, pc)
      PROVE  Moved(job[c], job'[c], pc) /\ job'[Slot] = job[Slot] /\ job'[Resumer] = Idle
  BY <1>1, <1>2 DEF Goto, JobsOK, Job, Moved
<1>3. Finish(c) => job'[c] = Idle /\ job'[Slot] = job[Slot] /\ job'[Resumer] = Idle
  BY <1>1 DEF Finish
<1>4. ASSUME NEW op, Spawn(c, op)
      PROVE  /\ job'[c] = Idle /\ job'[Resumer] = Idle
             /\ Busy => job'[Slot] = job[Slot]
             /\ ~Busy => Moved(Idle, [job'[Slot] EXCEPT !.op = "none"], "begin") /\ job'[Slot].op = op
  BY <1>1, <1>4 DEF Spawn, JobsOK, Idle, Moved
<1> QED BY <1>1, <1>2, <1>3, <1>4

LEMMA TaskMoves ==
    ASSUME NEW c, OneClient(c), JobsOK, job[Resumer] = Idle
    PROVE  /\ \A pc : Goto(Slot, pc) => /\ Moved(job[Slot], job'[Slot], pc) /\ job'[c] = job[c]
                                        /\ job'[Resumer] = Idle
           /\ Finish(Slot) => /\ job'[Slot] = Idle /\ job'[Resumer] = Idle
                              /\ job[c].pc = "await" => Moved(job[c], job'[c], "remove")
                              /\ job[c].pc # "await" => job'[c] = job[c]
<1>1. c \in Actors /\ Slot \in Actors /\ Resumer \in Actors /\ c # Slot /\ c # Resumer /\ Slot # Resumer
  BY ActorsAssumption DEF OneClient, Actors, Handlers
<1>2. ASSUME NEW pc, Goto(Slot, pc)
      PROVE  Moved(job[Slot], job'[Slot], pc) /\ job'[c] = job[c] /\ job'[Resumer] = Idle
  BY <1>1, <1>2 DEF Goto, JobsOK, Job, Moved
<1>3. ASSUME Finish(Slot)
      PROVE  /\ job'[Slot] = Idle /\ job'[Resumer] = Idle
             /\ job[c].pc = "await" => Moved(job[c], job'[c], "remove")
             /\ job[c].pc # "await" => job'[c] = job[c]
  BY <1>1, <1>3, IdleFields DEF Finish, JobsOK, Job, Moved
<1> QED BY <1>2, <1>3

\* Nothing fails, and nobody takes the panel or the host down.
LEMMA NothingFails ==
    ASSUME NEW c, OneClient(c)
    PROVE  ~CallFails /\ ~Event("agentLate") /\ ~Event("boxRemoved") /\ ~Event("panelDies") /\ ~Event("reboot")
BY DEF OneClient, CallFails, Event

\* The slot holds a task wherever a task can be.
LEMMA TaskIsBusy ==
    ASSUME TaskPlace
    PROVE  Busy <=> job[Slot].pc # "idle"
BY IdleFields DEF TaskPlace, Busy

----------------------------------------------------------------------------
(* The steps of the request.                                               *)

\* A request that moves on alone, between places where it changes nothing.
LEMMA ClientFrame ==
    ASSUME NEW c, OneClient(c), OneInv(c), UNCHANGED <<row, box, volume, restoring, up>>,
           job'[Slot] = job[Slot], job'[Resumer] = Idle,
           job[c].pc \notin {"spawn", "await", "remove", "drop", "make", "flag", "run"},
           row.state = "none" => job'[c].pc \in {"idle", "load"},
           crossed => crossed', job'[c].pc \notin {"drop", "run"}, ClientPlace(c)'
    PROVE  OneInv(c)'
<1>1. PanelUp' BY DEF OneInv, PanelUp
<1>2. TaskPlace' BY DEF OneInv, TaskPlace
<1>3. ServerPlace(c)' BY DEF OneInv, ServerPlace
<1>4. WantedPlace(c)' BY Zenon DEF OneInv, WantedPlace
<1>5. FlagPlace(c)' BY Zenon DEF OneInv, FlagPlace
<1> QED BY <1>1, <1>2, <1>3, <1>4, <1>5 DEF OneInv

\* The end of a request.
LEMMA ClientEnds ==
    ASSUME NEW c, OneClient(c), TypeOK, OneInv(c), UNCHANGED <<row, box, volume, restoring, up>>, Finish(c),
           crossed => crossed', job[c].pc \notin {"spawn", "await", "remove", "drop", "make", "flag", "run"}
    PROVE  OneInv(c)'
<1>1. job'[c] = Idle /\ job'[Slot] = job[Slot] /\ job'[Resumer] = Idle
  BY ClientMoves DEF TypeOK, JobsOK, OneInv, PanelUp
<1>2. ClientPlace(c)' BY <1>1 DEF ClientPlace
<1> QED BY <1>1, <1>2, IdleFields, ClientFrame

\* A request that has begun a task.
LEMMA ClientSpawns ==
    ASSUME NEW c, OneClient(c), TypeOK, OneInv(c), UNCHANGED <<row, box, volume, up>>,
           NEW op \in {"stop", "restart", "install", "restore", "backup"}, Spawn(c, op), ~Busy,
           crossed => crossed', job[c].pc \notin {"await", "remove", "drop", "make", "flag", "run"},
           row.state = (IF op = "install" THEN "installing" ELSE "installed"),
           op \in {"install", "restore"} => ~Live(box),
           restoring' => restoring \/ op = "restore"
    PROVE  OneInv(c)'
<1>1. job'[c] = Idle /\ job'[Resumer] = Idle /\ job'[Slot].op = op /\ job'[Slot].pc = "begin"
      /\ job'[Slot].cancelled = FALSE
  BY ClientMoves, IdleFields DEF TypeOK, JobsOK, OneInv, PanelUp, Moved
<1>2. PanelUp' BY <1>1 DEF OneInv, PanelUp
<1>3. TaskPlace' BY <1>1 DEF TaskPlace
<1>4. ClientPlace(c)' BY <1>1 DEF ClientPlace
<1>6. job[Slot].pc = "idle" /\ job[Slot].op = "none" BY IdleFields DEF Busy
<1>5. ServerPlace(c)' BY <1>1, <1>6, IdleFields DEF OneInv, ServerPlace
<1>7. WantedPlace(c)' BY <1>1, <1>6, IdleFields, Zenon DEF OneInv, WantedPlace
<1>8. FlagPlace(c)'
  <2>1. ~job'[Slot].cancelled BY <1>1
  <2>2. restoring => row.state = "none" \/ job[c].pc \in {"remove", "drop"}
    BY <1>6, Zenon DEF OneInv, FlagPlace
  <2>3. restoring' => op = "restore" BY <2>2
  <2> QED BY <1>1, <2>1, <2>3, IdleFields, Zenon DEF OneInv, FlagPlace
<1> QED BY <1>2, <1>3, <1>4, <1>5, <1>7, <1>8 DEF OneInv

\* Until it acts.
LEMMA ClientReads ==
    ASSUME NEW c, OneClient(c), TypeOK, OneInv(c),
           Request(c) \/ Load(c) \/ Check(c) \/ ReadStatus(c)
    PROVE  OneInv(c)'
<1>0. JobsOK /\ job[c] \in Job /\ job[Resumer] = Idle /\ ClientPlace(c) /\ TaskPlace /\ ServerPlace(c)
  BY ClientMoves DEF TypeOK, JobsOK, OneInv, PanelUp
<1>1. c \in Actors /\ Slot \in Actors /\ Resumer \in Actors /\ c # Slot /\ c # Resumer /\ Slot # Resumer
  BY ActorsAssumption DEF OneClient, Actors, Handlers
<1>2. UNCHANGED <<row, box, volume, restoring, up, crossed>>
  BY Zenon DEF Request, Load, Check, ReadStatus, memory, host, panel
<1>3. CASE Request(c)
  <2>1. job[c] = Idle BY <1>3, Zenon DEF Request
  <2>2. PICK op \in Ops : job' = [job EXCEPT ![c] = [Idle EXCEPT !.op = op, !.pc = "load"]]
    BY <1>3, Zenon DEF Request
  <2>3. job'[c].op = op /\ job'[c].pc = "load" /\ job'[Slot] = job[Slot] /\ job'[Resumer] = Idle
    BY <1>0, <1>1, <2>2 DEF JobsOK, Idle
  <2>4. ClientPlace(c)' BY <2>3 DEF ClientPlace
  <2> QED BY <1>2, <2>1, <2>3, <2>4, IdleFields, ClientFrame
<1>4. CASE Load(c)
  <2>1. job[c].pc = "load" BY <1>4 DEF Load, At
  <2>2. CASE Finish(c) BY <1>2, <2>1, <2>2, ClientEnds
  <2>3. CASE ~Finish(c)
    <3>1. /\ row.state # "none"
          /\ job' = [job EXCEPT ![c].snap = row.state,
                                ![c].pc = IF job[c].op \in {"update", "watch"} THEN "status" ELSE "check"]
      BY <1>4, <2>3 DEF Load
    <3>2. /\ job'[c].op = job[c].op /\ job'[c].snap = row.state
          /\ job'[c].pc = (IF job[c].op \in {"update", "watch"} THEN "status" ELSE "check")
          /\ job'[Slot] = job[Slot] /\ job'[Resumer] = Idle
      BY <1>0, <1>1, <3>1 DEF JobsOK, Job
    <3>3. job[c].op \in Ops /\ job[c].op # "update" BY <1>0, <2>1, IdleFields DEF ClientPlace, OneClient
    <3>4. row.state = "installed" \/ (~Live(box) /\ job[Slot].op \in {"none", "install"})
      BY <1>0, IdleFields DEF OneInv, ServerPlace, TaskPlace
    <3>5. Loaded(c)' BY <1>2, <3>1, <3>2, <3>4 DEF Loaded
    <3>6. ClientPlace(c)' BY <3>2, <3>3, <3>5 DEF ClientPlace
    <3>7. job'[c].pc \in {"status", "check"} BY <3>2
    <3> QED BY <1>2, <2>1, <3>1, <3>2, <3>6, <3>7, ClientFrame
  <2> QED BY <2>2, <2>3
<1>5. CASE Check(c)
  <2>1. job[c].pc = "check" /\ job[c].op \in Ops /\ Loaded(c)
    BY <1>0, <1>5, IdleFields DEF Check, At, ClientPlace
  <2>2. CASE Finish(c) BY <1>2, <2>1, <2>2, ClientEnds
  <2>3. CASE Allowed(c) /\ Spawn(c, job[c].op) /\ job[c].op \in {"stop", "restart"}
    <3>1. ~Busy /\ row.state = "installed" BY <2>1, <2>3 DEF Allowed, Loaded
    <3>2. restoring' => restoring BY <1>2
    <3> QED BY <1>2, <2>1, <2>3, <3>1, <3>2, ClientSpawns
  <2>4. ASSUME NEW pc \in {"status", "insert", "state"}, Goto(c, pc),
               \/ Allowed(c) /\ job[c].op \in {"start", "restore", "backup"}
                  /\ pc = (CASE job[c].op = "restore" -> "status"
                             [] job[c].op = "backup" -> "insert"
                             [] OTHER -> "state")
               \/ job[c].op = "reinstall" /\ ~Busy /\ pc = "status"
               \/ job[c].op = "config" /\ job[c].snap = "installed" /\ pc = "state"
        PROVE  OneInv(c)'
    <3>1. Moved(job[c], job'[c], pc) /\ job'[Slot] = job[Slot] /\ job'[Resumer] = Idle
      BY <1>0, <2>4, ClientMoves
    <3>2. Loaded(c)' /\ Busy' = Busy BY <1>2, <2>1, <3>1 DEF Loaded, Moved, Busy
    <3>3. job[c].snap = "installed" => row.state = "installed" BY <2>1 DEF Loaded
    <3>4. ClientPlace(c)'
      <4>1. CASE job[c].op = "start"
        <5>1. pc = "state" /\ ~Busy /\ row.state = "installed" BY <2>4, <3>3, <4>1 DEF Allowed
        <5> QED BY <1>2, <3>1, <3>2, <4>1, <5>1 DEF ClientPlace, Moved
      <4>2. CASE job[c].op = "backup"
        <5>1. pc = "insert" /\ ~Busy /\ row.state = "installed" BY <2>4, <3>3, <4>2 DEF Allowed
        <5> QED BY <1>2, <3>1, <3>2, <4>2, <5>1 DEF ClientPlace, Moved
      <4>3. CASE job[c].op \in {"restore", "reinstall"}
        <5>1. pc = "status" /\ ~Busy BY <2>4, <4>3 DEF Allowed
        <5> QED BY <1>2, <3>1, <3>2, <4>3, <5>1 DEF ClientPlace, Moved
      <4>4. CASE job[c].op = "config" BY <1>2, <2>4, <3>1, <3>3, <4>4 DEF ClientPlace, Moved
      <4> QED BY <2>4, <4>1, <4>2, <4>3, <4>4
    <3>5. row.state # "none" BY <2>1 DEF Loaded
    <3> QED BY <1>2, <2>1, <3>1, <3>4, <3>5, ClientFrame DEF Moved
  <2>5. CASE job[c].op = "delete" /\ CancelTask(c)
    <3>1. row.state # "none" BY <2>1 DEF Loaded
    <3>2. CASE Busy
      <4>1. job' = [job EXCEPT ![c].pc = "await", ![Slot].cancelled = TRUE] BY <2>5, <3>2 DEF CancelTask
      <4>2. /\ job'[c].op = "delete" /\ job'[c].pc = "await" /\ job'[Resumer] = Idle
            /\ job'[Slot].op = job[Slot].op /\ job'[Slot].pc = job[Slot].pc
        BY <1>0, <1>1, <2>5, <4>1 DEF JobsOK, Job
      <4>3. PanelUp' BY <1>2, <4>2 DEF OneInv, PanelUp
      <4>4. TaskPlace' BY <1>0, <1>2, <3>2, <4>2 DEF TaskPlace, Busy
      <4>5. ClientPlace(c)' BY <1>2, <3>1, <4>2 DEF ClientPlace
      <4>6. ServerPlace(c)' BY <1>2, <2>1, <3>1, <4>2 DEF OneInv, ServerPlace
      <4>7. WantedPlace(c)' BY <1>2, <2>1, <4>2, Zenon DEF OneInv, WantedPlace
      <4>8. FlagPlace(c)' BY <1>2, <2>1, <3>1, <4>2, Zenon DEF OneInv, FlagPlace
      <4> QED BY <4>3, <4>4, <4>5, <4>6, <4>7, <4>8 DEF OneInv
    <3>3. CASE ~Busy
      <4>1. Goto(c, "remove") BY <2>5, <3>3 DEF CancelTask
      <4>2. Moved(job[c], job'[c], "remove") /\ job'[Slot] = job[Slot] /\ job'[Resumer] = Idle
        BY <1>0, <4>1, ClientMoves
      <4>3. Busy' = Busy BY <4>2 DEF Busy
      <4>4. ClientPlace(c)' BY <1>2, <2>5, <3>1, <3>3, <4>2, <4>3 DEF ClientPlace, Moved
      <4> QED BY <1>2, <2>1, <3>1, <4>2, <4>4, ClientFrame DEF Moved
    <3> QED BY <3>2, <3>3
  <2>6. job[c].op \notin {"resume", "update"}
    BY <2>1, OpsAssumption DEF AllOps, OneClient
  <2>7. CASE job[c].op \in {"stop", "restart"} BY <1>5, <2>2, <2>3, <2>7 DEF Check
  <2>8. CASE job[c].op \in {"start", "restore", "backup"} BY <1>5, <2>2, <2>4, <2>8 DEF Check
  <2>9. CASE job[c].op = "reinstall" BY <1>5, <2>2, <2>4, <2>9 DEF Check
  <2>10. CASE job[c].op = "config" BY <1>5, <2>2, <2>4, <2>10 DEF Check
  <2>11. CASE job[c].op = "delete" BY <1>5, <2>5, <2>11 DEF Check
  <2> QED BY <1>5, <2>6, <2>7, <2>8, <2>9, <2>10, <2>11 DEF Check
<1>6. CASE ReadStatus(c)
  <2>1. job[c].pc = "status" BY <1>6 DEF ReadStatus, At
  <2>2. PICK s \in Seen : /\ job' = [job EXCEPT ![c].seen = s,
                                                ![c].pc = IF job[c].op = "watch" THEN "measure" ELSE "go"]
                          /\ s = (IF Live(box) THEN "up" ELSE "down")
    <3>1. ~CallFails BY NothingFails
    <3> QED BY <1>6, <3>1 DEF ReadStatus
  <2>3. /\ job'[c].op = job[c].op /\ job'[c].snap = job[c].snap /\ job'[c].seen = s
        /\ job'[c].pc = (IF job[c].op = "watch" THEN "measure" ELSE "go")
        /\ job'[Slot] = job[Slot] /\ job'[Resumer] = Idle
    BY <1>0, <1>1, <2>2 DEF JobsOK, Job
  <2>4. Loaded(c) BY <1>0, <2>1, IdleFields DEF ClientPlace
  <2>5. Loaded(c)' /\ Busy' = Busy BY <1>2, <2>3, <2>4 DEF Loaded, Busy
  <2>6. ClientPlace(c)'
    <3>1. CASE job[c].op = "watch" BY <2>3, <2>5, <3>1 DEF ClientPlace
    <3>2. CASE job[c].op # "watch"
      <4>1. job[c].op \in {"restore", "reinstall"} /\ ~Busy
        BY <1>0, <2>1, <3>2, IdleFields DEF ClientPlace
      <4>2. s = "up" \/ (s = "down" /\ ~Live(box)) BY <2>2
      <4> QED BY <1>2, <2>3, <2>5, <3>2, <4>1, <4>2 DEF ClientPlace
    <3> QED BY <3>1, <3>2
  <2>7. row.state # "none" BY <2>4 DEF Loaded
  <2> QED BY <1>2, <2>1, <2>3, <2>6, <2>7, ClientFrame
<1> QED BY <1>3, <1>4, <1>5, <1>6

\* A request that moves on alone keeps what it is about.
LEMMA ClientGoes ==
    ASSUME NEW c, OneClient(c), TypeOK, OneInv(c), NEW pc, Goto(c, pc)
    PROVE  /\ Moved(job[c], job'[c], pc) /\ job'[Slot] = job[Slot] /\ job'[Resumer] = Idle
           /\ Busy' = Busy
BY ClientMoves DEF TypeOK, JobsOK, OneInv, PanelUp, Busy

\* What a request decides by the answer of Docker.
LEMMA ClientDecides ==
    ASSUME NEW c, OneClient(c), TypeOK, StoppingShown, OneInv(c),
           GoRestore(c) \/ GoInstall(c) \/ Measure(c) \/ ReadState(c) \/ CheckDisk(c)
    PROVE  OneInv(c)'
<1>0. ClientPlace(c) BY DEF OneInv
<1>1. UNCHANGED <<row, box, volume, up>> /\ (crossed => crossed')
  <2>1. UNCHANGED <<row, box, volume, up>>
    BY Zenon DEF GoRestore, GoInstall, Measure, ReadState, CheckDisk, memory, host, panel
  <2>2. crossed => crossed' BY DEF GoRestore, GoInstall, Measure, ReadState, CheckDisk, panel
  <2> QED BY <2>1, <2>2
<1>2. CASE GoRestore(c)
  <2>1. job[c].op = "restore" /\ job[c].pc = "go" BY <1>2 DEF GoRestore, AtOp, At
  <2>2. Loaded(c) /\ ~Busy /\ (job[c].seen = "up" \/ (job[c].seen = "down" /\ ~Live(box)))
    BY <1>0, <2>1, IdleFields DEF ClientPlace
  <2>3. CASE StatusSeen(c) = "down"
    <3>1. job[c].snap = "installed"
      <4>1. job[c] \in Job BY ClientMoves DEF TypeOK, JobsOK, OneInv, PanelUp
      <4> QED BY <2>3, <4>1 DEF StatusSeen, Job, RowState
    <3>2. job[c].seen = "down" BY <2>3, <3>1 DEF StatusSeen
    <3>3. row.state = "installed" /\ ~Live(box) BY <2>2, <3>1, <3>2 DEF Loaded
    <3>4. Spawn(c, "restore") BY <1>2, <2>3, Zenon DEF GoRestore
    <3> QED BY <1>1, <2>1, <2>2, <3>3, <3>4, ClientSpawns
  <2>4. CASE StatusSeen(c) # "down"
    <3>1. Finish(c) /\ restoring' = restoring BY <1>2, <2>4, Zenon DEF GoRestore
    <3> QED BY <1>1, <2>1, <3>1, ClientEnds
  <2> QED BY <2>3, <2>4
<1>3. CASE GoInstall(c)
  <2>1. job[c].op \in {"reinstall", "update"} /\ job[c].pc = "go" BY <1>3 DEF GoInstall, AtOp, At
  <2>2. job[c].op = "reinstall" /\ Loaded(c) /\ ~Busy
        /\ (job[c].seen = "up" \/ (job[c].seen = "down" /\ ~Live(box)))
    BY <1>0, <2>1, IdleFields DEF ClientPlace
  <2>3. restoring' = restoring BY <1>3, Zenon DEF GoInstall
  <2>4. CASE Finish(c) BY <1>1, <2>1, <2>3, <2>4, ClientEnds
  <2>5. CASE ~Finish(c)
    <3>1. Goto(c, "mark") /\ StatusSeen(c) # "up" BY <1>3, <2>5, Zenon DEF GoInstall
    <3>2. ~Live(box) /\ row.state # "none"
      <4>1. CASE job[c].snap # "installed" BY <2>2, <4>1 DEF Loaded
      <4>2. CASE job[c].snap = "installed" /\ job[c].seen = "down" BY <2>2, <4>2 DEF Loaded
      <4>3. CASE job[c].snap = "installed" /\ job[c].seen = "up"
        <5>1. ~restoring
          <6>1. job[Slot].op # "restore" BY <2>2, IdleFields DEF Busy
          <6>2. row.state # "none" BY <2>2, <4>3 DEF Loaded
          <6> QED BY <2>1, <6>1, <6>2, Zenon DEF OneInv, FlagPlace
        <5>2. ~stopping BY <2>2, IdleFields DEF StoppingShown, Busy
        <5> QED BY <3>1, <4>3, <5>1, <5>2 DEF StatusSeen
      <4> QED BY <2>2, <4>1, <4>2, <4>3
    <3>3. Moved(job[c], job'[c], "mark") /\ job'[Slot] = job[Slot] /\ job'[Resumer] = Idle /\ Busy' = Busy
      BY <3>1, ClientGoes
    <3>4. ClientPlace(c)' BY <1>1, <2>2, <3>2, <3>3 DEF ClientPlace, Moved
    <3> QED BY <1>1, <2>1, <2>3, <3>2, <3>3, <3>4, ClientFrame DEF Moved
  <2> QED BY <2>4, <2>5
<1>4. CASE Measure(c)
  <2>1. job[c].pc = "measure" BY <1>4 DEF Measure, At
  <2>2. Loaded(c) BY <1>0, <2>1, IdleFields DEF ClientPlace
  <2>3. restoring' = restoring BY <1>4, Zenon DEF Measure
  <2>4. CASE Finish(c) BY <1>1, <2>1, <2>3, <2>4, ClientEnds
  <2>5. CASE ~Finish(c)
    <3>1. Spawn(c, "stop") /\ Allowed(c) BY <1>4, <2>5, NothingFails, Zenon DEF Measure
    <3>2. ~Busy /\ row.state = "installed" BY <2>2, <3>1 DEF Allowed, Loaded
    <3> QED BY <1>1, <2>1, <2>3, <3>1, <3>2, ClientSpawns
  <2> QED BY <2>4, <2>5
<1>5. CASE ReadState(c)
  <2>1. job[c].pc = "state" /\ restoring' = restoring BY <1>5, Zenon DEF ReadState, At, memory
  <2>2. CASE Finish(c) BY <1>1, <2>1, <2>2, ClientEnds
  <2>3. CASE ~Finish(c)
    <3>1. \/ job[c].op = "config" /\ Goto(c, "rebuild") /\ crossed'
          \/ job[c].op # "config" /\ ~Live(box) /\ Goto(c, "disk")
      BY <1>5, <2>3, NothingFails, Zenon DEF ReadState
    <3>2. job[c].op \in {"start", "config"} /\ row.state = "installed" /\ (job[c].op = "start" => ~Busy)
      BY <1>0, <2>1, IdleFields DEF ClientPlace
    <3>3. PICK pc \in {"rebuild", "disk"} :
             /\ Goto(c, pc)
             /\ pc = "rebuild" => job[c].op = "config" /\ crossed'
             /\ pc = "disk" => job[c].op = "start" /\ ~Busy /\ ~Live(box)
      BY <3>1, <3>2
    <3>5. Moved(job[c], job'[c], pc) /\ job'[Slot] = job[Slot] /\ job'[Resumer] = Idle /\ Busy' = Busy
      BY <3>3, ClientGoes
    <3>6. ClientPlace(c)' BY <1>1, <3>2, <3>3, <3>5 DEF ClientPlace, Moved
    <3> QED BY <1>1, <2>1, <3>2, <3>3, <3>5, <3>6, ClientFrame DEF Moved
  <2> QED BY <2>2, <2>3
<1>6. CASE CheckDisk(c)
  <2>1. job[c].pc = "disk" /\ restoring' = restoring BY <1>6, Zenon DEF CheckDisk, At
  <2>2. CASE Finish(c) BY <1>1, <2>1, <2>2, ClientEnds
  <2>3. CASE ~Finish(c)
    <3>1. Goto(c, "create") BY <1>6, <2>3, Zenon DEF CheckDisk
    <3>2. job[c].op = "start" /\ ~Busy /\ ~Live(box) /\ row.state = "installed"
      BY <1>0, <2>1, IdleFields DEF ClientPlace
    <3>3. Moved(job[c], job'[c], "create") /\ job'[Slot] = job[Slot] /\ job'[Resumer] = Idle /\ Busy' = Busy
      BY <3>1, ClientGoes
    <3>4. ClientPlace(c)' BY <1>1, <3>2, <3>3 DEF ClientPlace, Moved
    <3> QED BY <1>1, <2>1, <3>2, <3>3, <3>4, ClientFrame DEF Moved
  <2> QED BY <2>2, <2>3
<1> QED BY <1>2, <1>3, <1>4, <1>5, <1>6

\* A request announces its task, and spawns it.
LEMMA ClientAnnounces ==
    ASSUME NEW c, OneClient(c), TypeOK, OneInv(c),
           Mark(c) \/ SpawnInstall(c) \/ InsertBackup(c) \/ SpawnBackup(c)
    PROVE  OneInv(c)'
<1>0. ClientPlace(c) BY DEF OneInv
<1>1. UNCHANGED <<box, volume, restoring, up, crossed>>
  BY Zenon DEF Mark, SpawnInstall, InsertBackup, SpawnBackup, memory, host, panel
<1>2. CASE Mark(c)
  <2>1. job[c].pc = "mark" BY <1>2 DEF Mark, At
  <2>2. job[c].op \in {"create", "reinstall"} /\ ~Busy /\ ~Live(box) /\ row.state # "none"
    BY <1>0, <2>1, IdleFields DEF ClientPlace
  <2>3. Goto(c, "spawn") /\ row'.state = "installing" /\ ~row'.shouldRun BY <1>2, <2>2 DEF Mark
  <2>4. Moved(job[c], job'[c], "spawn") /\ job'[Slot] = job[Slot] /\ job'[Resumer] = Idle /\ Busy' = Busy
    BY <2>3, ClientGoes
  <2>5. job[Slot] = Idle BY <2>2 DEF Busy
  <2>6. PanelUp' BY <1>1, <2>4 DEF OneInv, PanelUp
  <2>7. TaskPlace' BY <2>4, <2>5 DEF TaskPlace
  <2>8. ClientPlace(c)' BY <1>1, <2>2, <2>3, <2>4 DEF ClientPlace, Moved
  <2>9. ServerPlace(c)' BY <1>1, <2>2, <2>3, <2>4 DEF ServerPlace, Moved
  <2>10. WantedPlace(c)' BY <1>1, <2>2, <2>3, <2>4, <2>5, IdleFields DEF WantedPlace, Moved
  <2>11. FlagPlace(c)'
    <3>1. ~restoring BY <2>1, <2>2, <2>5, IdleFields, Zenon DEF OneInv, FlagPlace
    <3> QED BY <1>1, <2>3, <2>4, <2>5, <3>1, IdleFields, Zenon DEF FlagPlace, Moved
  <2> QED BY <2>6, <2>7, <2>8, <2>9, <2>10, <2>11 DEF OneInv
<1>3. CASE SpawnInstall(c)
  <2>1. job[c].pc = "spawn" /\ job[c].op \in {"create", "reinstall", "update"} /\ Spawn(c, "install")
    BY <1>3, Zenon DEF SpawnInstall, AtOp, At
  <2>2. ~Busy /\ ~Live(box) /\ row.state = "installing" BY <1>0, <2>1, IdleFields DEF ClientPlace
  <2>3. UNCHANGED row BY <1>3 DEF SpawnInstall
  <2> QED BY <1>1, <2>1, <2>2, <2>3, ClientSpawns
<1>4. CASE InsertBackup(c)
  <2>1. job[c].pc = "insert" /\ Goto(c, "spawn") /\ UNCHANGED row BY <1>4, Zenon DEF InsertBackup, At
  <2>2. job[c].op = "backup" /\ ~Busy /\ row.state = "installed"
    BY <1>0, <2>1, IdleFields DEF ClientPlace
  <2>3. Moved(job[c], job'[c], "spawn") /\ job'[Slot] = job[Slot] /\ job'[Resumer] = Idle /\ Busy' = Busy
    BY <2>1, ClientGoes
  <2>4. ClientPlace(c)' BY <2>1, <2>2, <2>3 DEF ClientPlace, Moved
  <2> QED BY <1>1, <2>1, <2>2, <2>3, <2>4, ClientFrame DEF Moved
<1>5. CASE SpawnBackup(c)
  <2>1. job[c].pc = "spawn" /\ job[c].op = "backup" /\ Spawn(c, "backup") /\ UNCHANGED row
    BY <1>5, Zenon DEF SpawnBackup, AtOp, At
  <2>2. ~Busy /\ row.state = "installed" BY <1>0, <2>1, IdleFields DEF ClientPlace
  <2> QED BY <1>1, <2>1, <2>2, ClientSpawns
<1> QED BY <1>2, <1>3, <1>4, <1>5

\* A request brings the game up: nothing else is going on, so that the container it
\* replaces is down.
LEMMA ClientStarts ==
    ASSUME NEW c, OneClient(c), TypeOK, OneInv(c),
           StartCreate(c) \/ StartMake(c) \/ StartFlag(c) \/ StartRun(c)
    PROVE  OneInv(c)'
<1>0. ClientPlace(c) BY DEF OneInv
<1>1. UNCHANGED <<restoring, up, crossed>>
  BY Zenon DEF StartCreate, StartMake, StartFlag, StartRun, memory, panel
<1>2. PICK pc \in {"create", "make", "flag", "run"} :
         /\ job[c].pc = pc
         /\ pc = "make" => StartMake(c)
  BY DEF StartCreate, StartMake, StartFlag, StartRun, At, AtOp
<1>3. /\ job[c].op = "start" /\ ~Busy /\ ~Live(box) /\ row.state = "installed"
      /\ pc = "make" => ~Exists(box)
  BY <1>0, <1>2, IdleFields DEF ClientPlace, StartMake, AtOp
<1>4. job[Slot] = Idle /\ (pc # "make" => Exists(box))
  BY <1>2, <1>3, IdleFields DEF Busy, OneInv, ServerPlace
<1>5. ~restoring BY <1>2, <1>3, <1>4, IdleFields, Zenon DEF OneInv, FlagPlace
<1>6. CASE StartCreate(c)
  <2>1. box' = Absent /\ Goto(c, "make") /\ UNCHANGED <<row, volume>>
    BY <1>6, NothingFails, Zenon DEF StartCreate, RemoveOk, RemoveFails
  <2>2. Moved(job[c], job'[c], "make") /\ job'[Slot] = job[Slot] /\ job'[Resumer] = Idle /\ Busy' = Busy
    BY <2>1, ClientGoes
  <2>3. ~Live(box') /\ ~Exists(box') /\ row' = row BY <2>1 DEF Absent, Live, Exists
  <2>4. PanelUp' BY <1>1, <2>2 DEF OneInv, PanelUp
  <2>5. TaskPlace' BY <1>4, <2>2 DEF TaskPlace
  <2>6. ClientPlace(c)' BY <1>3, <2>2, <2>3 DEF ClientPlace, Moved
  <2>7. ServerPlace(c)' BY <1>3, <2>2, <2>3 DEF ServerPlace, Moved
  <2>8. WantedPlace(c)' BY <1>3, <1>4, <2>2, <2>3, IdleFields, Zenon DEF WantedPlace, Moved
  <2>9. FlagPlace(c)' BY <1>1, <1>3, <1>4, <1>5, <2>2, <2>3, IdleFields, Zenon DEF FlagPlace, Moved
  <2> QED BY <2>4, <2>5, <2>6, <2>7, <2>8, <2>9 DEF OneInv
<1>9. CASE StartMake(c)
  <2>0. pc = "make" BY <1>2, <1>9 DEF StartMake, AtOp, At
  <2>1. CreateOk /\ Goto(c, "flag") /\ UNCHANGED row
    BY <1>3, <1>9, <2>0, NothingFails, Zenon DEF StartMake, CreateFails
  <2>2. Moved(job[c], job'[c], "flag") /\ job'[Slot] = job[Slot] /\ job'[Resumer] = Idle /\ Busy' = Busy
    BY <2>1, ClientGoes
  <2>3. ~Live(box') /\ Exists(box') /\ row' = row BY <2>1 DEF CreateOk, Made, Fresh, Live, Exists
  <2>4. PanelUp' BY <1>1, <2>2 DEF OneInv, PanelUp
  <2>5. TaskPlace' BY <1>4, <2>2 DEF TaskPlace
  <2>6. ClientPlace(c)' BY <1>3, <2>2, <2>3 DEF ClientPlace, Moved
  <2>7. ServerPlace(c)' BY <1>3, <2>2, <2>3 DEF ServerPlace, Moved
  <2>8. WantedPlace(c)' BY <1>3, <1>4, <2>2, <2>3, IdleFields, Zenon DEF WantedPlace, Moved
  <2>9. FlagPlace(c)' BY <1>1, <1>3, <1>4, <1>5, <2>2, <2>3, IdleFields, Zenon DEF FlagPlace, Moved
  <2> QED BY <2>4, <2>5, <2>6, <2>7, <2>8, <2>9 DEF OneInv
<1>7. CASE StartFlag(c)
  <2>0. Exists(box) BY <1>2, <1>4, <1>7 DEF StartFlag, At
  <2>1. Goto(c, "run") /\ row' = SetShouldRun(TRUE) /\ UNCHANGED <<box, volume>>
    BY <1>7, Zenon DEF StartFlag, host
  <2>2. Moved(job[c], job'[c], "run") /\ job'[Slot] = job[Slot] /\ job'[Resumer] = Idle /\ Busy' = Busy
    BY <2>1, ClientGoes
  <2>3. row'.state = "installed" /\ row'.shouldRun BY <1>3, <2>1 DEF SetShouldRun, TypeOK
  <2>4. PanelUp' BY <1>1, <2>2 DEF OneInv, PanelUp
  <2>5. TaskPlace' BY <1>4, <2>2 DEF TaskPlace
  <2>6. ClientPlace(c)' BY <1>3, <2>1, <2>2, <2>3 DEF ClientPlace, Moved
  <2>7. ServerPlace(c)' BY <1>3, <1>4, <2>0, <2>1, <2>2, <2>3 DEF ServerPlace, Moved
  <2>8. WantedPlace(c)' BY <1>3, <1>4, <2>1, <2>2, <2>3, IdleFields DEF WantedPlace, Moved
  <2>9. FlagPlace(c)' BY <1>1, <1>4, <1>5, <2>1, <2>2, <2>3, IdleFields, Zenon DEF FlagPlace, Moved
  <2> QED BY <2>4, <2>5, <2>6, <2>7, <2>8, <2>9 DEF OneInv
<1>8. CASE StartRun(c)
  <2>1. Finish(c) /\ box' = Started(box) /\ UNCHANGED <<row, volume>>
    BY <1>8, NothingFails, Zenon DEF StartRun
  <2>2. job'[c] = Idle /\ job'[Slot] = job[Slot] /\ job'[Resumer] = Idle
    BY <2>1, ClientMoves DEF TypeOK, JobsOK, OneInv, PanelUp
  <2>0. Exists(box) BY <1>2, <1>4, <1>8 DEF StartRun, At
  <2>3. box'.status = "running" BY <1>3, <2>0, <2>1 DEF Started, TypeOK, Container
  <2>4. row.shouldRun
    <3>1. job[c].pc = "run" BY <1>8 DEF StartRun, At
    <3> QED BY <3>1, Zenon DEF OneInv, WantedPlace
  <2>5. PanelUp' BY <1>1, <2>2 DEF OneInv, PanelUp
  <2>6. TaskPlace' BY <1>4, <2>2 DEF TaskPlace
  <2>7. ClientPlace(c)' BY <2>2 DEF ClientPlace
  <2>8. ServerPlace(c)' BY <1>3, <2>1, <2>2, <2>3 DEF ServerPlace, Exists
  <2>9. WantedPlace(c)' BY <1>3, <1>4, <2>1, <2>2, <2>3, <2>4, IdleFields, Zenon DEF WantedPlace
  <2>10. FlagPlace(c)' BY <1>1, <1>3, <1>4, <1>5, <2>1, <2>2, IdleFields, Zenon DEF FlagPlace
  <2> QED BY <2>5, <2>6, <2>7, <2>8, <2>9, <2>10 DEF OneInv
<1> QED BY <1>6, <1>7, <1>8, <1>9

\* A request deletes the server: what is left of it goes with the row.
LEMMA ClientDeletes ==
    ASSUME NEW c, OneClient(c), TypeOK, OneInv(c), Remove(c) \/ DropRow(c)
    PROVE  OneInv(c)'
<1>0. ClientPlace(c) BY DEF OneInv
<1>1. UNCHANGED <<restoring, up, crossed>> BY Zenon DEF Remove, DropRow, memory, panel
<1>2. job[c].pc \in {"remove", "drop"} BY DEF Remove, DropRow, At
<1>3. job[c].op = "delete" /\ ~Busy /\ row.state # "none" BY <1>0, <1>2, IdleFields DEF ClientPlace
<1>4. job[Slot] = Idle BY <1>3 DEF Busy
<1>5. CASE Remove(c)
  <2>1. box' = Absent /\ volume' = FALSE /\ Goto(c, "drop") /\ UNCHANGED row
    BY <1>5, NothingFails, Zenon DEF Remove
  <2>2. Moved(job[c], job'[c], "drop") /\ job'[Slot] = job[Slot] /\ job'[Resumer] = Idle /\ Busy' = Busy
    BY <2>1, ClientGoes
  <2>3. ~Live(box') /\ ~Exists(box') BY <2>1 DEF Absent, Live, Exists
  <2>4. PanelUp' BY <1>1, <2>2 DEF OneInv, PanelUp
  <2>5. TaskPlace' BY <1>4, <2>2 DEF TaskPlace
  <2>6. ClientPlace(c)' BY <1>3, <2>1, <2>2, <2>3 DEF ClientPlace, Moved
  <2>7. ServerPlace(c)' BY <1>3, <2>1, <2>2, <2>3 DEF ServerPlace, Moved
  <2>8. row.state = "installing" => ~row.shouldRun BY Zenon DEF OneInv, WantedPlace
  <2>9. WantedPlace(c)' BY <1>4, <2>1, <2>2, <2>3, <2>8, IdleFields, Zenon DEF WantedPlace, Moved
  <2>10. FlagPlace(c)' BY <1>4, <2>1, <2>2, IdleFields, Zenon DEF FlagPlace, Moved
  <2> QED BY <2>4, <2>5, <2>6, <2>7, <2>9, <2>10 DEF OneInv
<1>6. CASE DropRow(c)
  <2>1. Finish(c) /\ row' = [state |-> "none", shouldRun |-> FALSE] /\ UNCHANGED <<box, volume>>
        /\ job[c].pc = "drop"
    BY <1>6, Zenon DEF DropRow, host, At
  <2>2. job'[c] = Idle /\ job'[Slot] = job[Slot] /\ job'[Resumer] = Idle
    BY <2>1, ClientMoves DEF TypeOK, JobsOK, OneInv, PanelUp
  <2>3. ~Exists(box) /\ ~Live(box) /\ row'.state = "none" /\ ~row'.shouldRun
    BY <1>0, <2>1, IdleFields DEF ClientPlace, Exists, Live
  <2>4. ~volume BY <2>1, Zenon DEF OneInv, FlagPlace
  <2>5. PanelUp' BY <1>1, <2>2 DEF OneInv, PanelUp
  <2>6. TaskPlace' BY <1>4, <2>2 DEF TaskPlace
  <2>7. ClientPlace(c)' BY <2>2 DEF ClientPlace
  <2>8. ServerPlace(c)' BY <1>4, <2>1, <2>2, <2>3, IdleFields DEF ServerPlace
  <2>9. WantedPlace(c)' BY <1>4, <2>1, <2>2, <2>3, IdleFields DEF WantedPlace
  <2>10. FlagPlace(c)' BY <1>4, <2>1, <2>2, <2>3, <2>4, IdleFields, Zenon DEF FlagPlace
  <2> QED BY <2>5, <2>6, <2>7, <2>8, <2>9, <2>10 DEF OneInv
<1> QED BY <1>5, <1>6

\* A request rebuilds the container a restart is replacing, too.
LEMMA ClientRebuilds ==
    ASSUME NEW c, OneClient(c), TypeOK, OneInv(c), Rebuild(c) \/ RebuildMake(c)
    PROVE  /\ OneInv(c)' /\ crossed /\ UNCHANGED row /\ (Finish(c) \/ \E pc : Goto(c, pc))
           /\ \/ Rebuild(c) /\ ~Live(box')
              \/ box' = box
              \/ ~Live(box) /\ ~Live(box')
<1>0. ClientPlace(c) BY DEF OneInv
<1>1. UNCHANGED <<row, restoring, up, crossed>> BY Zenon DEF Rebuild, RebuildMake, memory, panel
<1>2. job[c].pc \in {"rebuild", "make"} /\ (job[c].pc = "make" => job[c].op = "config")
  BY DEF Rebuild, RebuildMake, At, AtOp
<1>3. job[c].op = "config" /\ row.state = "installed" /\ crossed
  BY <1>0, <1>2, IdleFields DEF ClientPlace
<1>4. TaskPlace /\ (restoring => job[Slot].op = "restore")
  BY <1>2, <1>3, Zenon DEF OneInv, FlagPlace
<1>5. CASE Rebuild(c)
  <2>1. box' = Absent /\ Goto(c, "make") /\ UNCHANGED volume
    BY <1>5, NothingFails, Zenon DEF Rebuild, RemoveOk, RemoveFails
  <2>2. Moved(job[c], job'[c], "make") /\ job'[Slot] = job[Slot] /\ job'[Resumer] = Idle /\ Busy' = Busy
    BY <2>1, ClientGoes
  <2>3. ~Live(box') /\ ~Exists(box') BY <2>1 DEF Absent, Live, Exists
  <2>4. PanelUp' BY <1>1, <2>2 DEF OneInv, PanelUp
  <2>5. TaskPlace' BY <1>1, <1>3, <1>4, <2>2, <2>3 DEF TaskPlace
  <2>6. ClientPlace(c)' BY <1>1, <1>3, <2>2 DEF ClientPlace, Moved
  <2>7. ServerPlace(c)' BY <1>1, <1>3, <2>2, <2>3 DEF ServerPlace, Moved
  <2>8. WantedPlace(c)'
    <3>1. job[Slot].pc = "run" => row.shouldRun BY Zenon DEF OneInv, WantedPlace
    <3> QED BY <1>1, <1>3, <2>2, <2>3, <3>1 DEF WantedPlace, Moved
  <2>9. FlagPlace(c)'
    <3>1. ~job[Slot].cancelled BY <1>2, Zenon DEF OneInv, FlagPlace
    <3> QED BY <1>1, <1>3, <1>4, <2>2, <3>1 DEF FlagPlace, Moved
  <2> QED BY <1>1, <1>3, <1>5, <2>1, <2>3, <2>4, <2>5, <2>6, <2>7, <2>8, <2>9 DEF OneInv
<1>6. CASE RebuildMake(c)
  <2>1. Finish(c) /\ (box' = box \/ (~Exists(box) /\ box' = Made(box))) /\ Exists(box')
    <3>1. CASE CreateOk BY <1>6, <3>1 DEF RebuildMake, CreateOk, Made, Fresh, Exists
    <3>2. CASE CreateFails BY <1>6, <3>2, NothingFails DEF RebuildMake, CreateFails, Exists
    <3> QED BY <1>6, <3>1, <3>2 DEF RebuildMake
  <2>2. job'[c] = Idle /\ job'[Slot] = job[Slot] /\ job'[Resumer] = Idle
    BY <2>1, ClientMoves DEF TypeOK, JobsOK, OneInv, PanelUp
  <2>3. box' = box \/ (~Live(box) /\ ~Live(box')) BY <2>1 DEF Made, Fresh, Live, Exists
  <2>4. PanelUp' BY <1>1, <2>2 DEF OneInv, PanelUp
  <2>5. TaskPlace' BY <1>1, <1>3, <1>4, <2>2, <2>3 DEF TaskPlace
  <2>6. ClientPlace(c)' BY <2>2 DEF ClientPlace
  <2>7. ServerPlace(c)' BY <1>1, <1>3, <2>1, <2>2, IdleFields DEF ServerPlace
  <2>8. WantedPlace(c)'
    <3>1. /\ job[Slot].pc = "run" => row.shouldRun
          /\ Live(box) => \/ row.shouldRun
                          \/ job[Slot].op \in {"stop", "restart"} /\ job[Slot].pc \in {"state", "policy", "wait"}
      BY <1>2, Zenon DEF OneInv, WantedPlace
    <3> QED BY <1>1, <1>3, <2>2, <2>3, <3>1, IdleFields DEF WantedPlace
  <2>9. FlagPlace(c)'
    <3>1. ~job[Slot].cancelled BY <1>2, Zenon DEF OneInv, FlagPlace
    <3> QED BY <1>1, <1>3, <1>4, <2>2, <3>1, IdleFields DEF FlagPlace
  <2> QED BY <1>1, <1>3, <2>1, <2>3, <2>4, <2>5, <2>6, <2>7, <2>8, <2>9 DEF OneInv
<1> QED BY <1>5, <1>6

\* Whatever the request does.
LEMMA ClientStep ==
    ASSUME NEW c, OneClient(c), TypeOK, StoppingShown, OneInv(c), Request(c) \/ Handle(c)
    PROVE  OneInv(c)'
BY ClientReads, ClientDecides, ClientAnnounces, ClientStarts, ClientRebuilds, ClientDeletes
   DEF Handle, StartStep
----------------------------------------------------------------------------
(* The steps of the task.                                                  *)

\* Beside a task, a request has not begun anything.
LEMMA BesideTask ==
    ASSUME NEW c, OneClient(c), OneInv(c), Busy
    PROVE  /\ job[c].pc \in {"idle", "load", "check", "status", "measure", "state", "rebuild", "make", "await"}
           /\ row.state # "none" /\ (job[c].pc = "make" => crossed)
<1>1. row.state # "none" BY DEF OneInv, ServerPlace, Busy
<1>2. job[c].pc \in {"idle", "load", "check", "status", "measure", "state", "rebuild", "make", "await"}
      /\ (job[c].pc = "make" => crossed)
  BY IdleFields DEF OneInv, ClientPlace
<1> QED BY <1>1, <1>2

\* What is so of the request stays so, whatever the task does.
LEMMA TaskFrame ==
    ASSUME NEW c, OneClient(c), TypeOK, OneInv(c), Busy,
           Finish(Slot) \/ \E pc : Goto(Slot, pc),
           (row.state = "installed" => row'.state = "installed") \/ job[c].pc = "await",
           row'.state # "none", crossed' = crossed,
           job[Slot].op = "install" => ~Live(box')
    PROVE  /\ ClientPlace(c)' /\ job'[Resumer] = Idle
           /\ \/ Finish(Slot) /\ job[c].pc = "await" /\ job'[c].pc = "remove"
              \/ job'[c] = job[c] /\ (Finish(Slot) => job[c].pc # "await")
<1>1. JobsOK /\ job[Resumer] = Idle /\ ClientPlace(c) BY DEF TypeOK, JobsOK, OneInv, PanelUp
<1>2. job[c].pc \in {"idle", "load", "check", "status", "measure", "state", "rebuild", "make", "await"}
  BY BesideTask
<1>3. job'[Resumer] = Idle BY <1>1, TaskMoves
<1>4. CASE Finish(Slot) /\ job[c].pc = "await"
  <2>1. Moved(job[c], job'[c], "remove") /\ job'[Slot] = Idle BY <1>1, <1>4, TaskMoves
  <2>2. job[c].op = "delete" BY <1>1, <1>4, IdleFields DEF ClientPlace
  <2>3. ~Busy' BY <2>1 DEF Busy
  <2>4. ClientPlace(c)' BY <2>1, <2>2, <2>3 DEF ClientPlace, Moved
  <2> QED BY <1>3, <1>4, <2>1, <2>4 DEF Moved
<1>5. CASE ~(Finish(Slot) /\ job[c].pc = "await")
  <2>1. job'[c] = job[c] /\ (job'[Slot] = Idle \/ job'[Slot].op = job[Slot].op)
    BY <1>1, <1>5, TaskMoves DEF Moved
  <2>2. ASSUME Loaded(c), job[c].pc # "await" PROVE Loaded(c)'
    <3>1. CASE job[c].snap = "installed" BY <2>1, <2>2, <3>1 DEF Loaded
    <3>2. CASE job[c].snap # "installed"
      <4>1. job[Slot].op = "install"
        <5>1. job[Slot].op # "none" BY IdleFields DEF OneInv, TaskPlace, Busy
        <5> QED BY <2>2, <3>2, <5>1 DEF Loaded
      <4> QED BY <2>1, <2>2, <3>2, <4>1, IdleFields DEF Loaded
    <3> QED BY <3>1, <3>2
  <2>3. ClientPlace(c)'
    <3>1. CASE job[c] = Idle BY <2>1, <3>1 DEF ClientPlace
    <3>2. CASE job[c].op \in Ops /\ job[c].pc = "load" BY <2>1, <3>2 DEF ClientPlace
    <3>3. CASE job[c].op \in Ops /\ job[c].pc = "check" /\ Loaded(c)
      BY <2>1, <2>2, <3>3 DEF ClientPlace
    <3>4. CASE job[c].op = "watch" /\ job[c].pc \in {"status", "measure"} /\ Loaded(c)
      BY <2>1, <2>2, <3>4 DEF ClientPlace
    <3>5. CASE job[c].op = "config" /\ job[c].pc = "state" /\ row.state = "installed"
      BY <2>1, <3>5 DEF ClientPlace
    <3>7. CASE job[c].op = "config" /\ job[c].pc \in {"rebuild", "make"} /\ row.state = "installed" /\ crossed
      BY <2>1, <3>7 DEF ClientPlace
    <3>6. CASE job[c].op = "delete" /\ job[c].pc = "await" BY <2>1, <3>6 DEF ClientPlace
    <3> QED BY <1>1, <1>2, <3>1, <3>2, <3>3, <3>4, <3>5, <3>6, <3>7 DEF ClientPlace
  <2> QED BY <1>3, <1>5, <2>1, <2>3
<1> QED BY <1>4, <1>5

\* What a step of the task has to show, if it is not cancelled.
LEMMA TaskKeeps ==
    ASSUME NEW c, OneClient(c), TypeOK, OneInv(c), Busy,
           Finish(Slot) \/ \E pc : Goto(Slot, pc),
           up' = up, crossed' = crossed, row'.state \in {row.state, "installed"}, TaskPlace',
           restoring' => restoring /\ job'[Slot].op = "restore",
           job[Slot].op = "install" => ~Live(box'),
           Live(box') => row'.state = "installed",
           row'.state = "installed" => Exists(box') \/ job'[Slot].pc = "make" \/ job[c].pc = "make",
           row'.state = "installing" => job'[Slot].op = "install" /\ ~row'.shouldRun,
           Live(box') => \/ row'.shouldRun
                         \/ job'[Slot].op \in {"stop", "restart"}
                            /\ job'[Slot].pc \in {"state", "policy", "wait"},
           row'.shouldRun => \/ box'.status \notin {"none", "created"} \/ crossed
                             \/ job'[Slot].pc \in {"make", "flag", "run"},
           job'[Slot].pc = "run" => row'.shouldRun
    PROVE  OneInv(c)'
<1>1. job[c].pc \in {"idle", "load", "check", "status", "measure", "state", "rebuild", "make", "await"} /\ row.state # "none"
  BY BesideTask
<1>2. ClientPlace(c)' /\ job'[Resumer] = Idle
      /\ \/ Finish(Slot) /\ job[c].pc = "await" /\ job'[c].pc = "remove"
         \/ job'[c] = job[c] /\ (Finish(Slot) => job[c].pc # "await")
  BY <1>1, TaskFrame
<1>3. job'[c].pc \in {"idle", "load", "check", "status", "measure", "state", "rebuild", "make", "await",
                      "remove"}
  BY <1>1, <1>2
<1>4. PanelUp' BY <1>2 DEF OneInv, PanelUp
<1>5. ServerPlace(c)'
  <2>1. job[c].pc = "make" => job'[c].pc = "make" BY <1>2
  <2> QED BY <1>1, <1>3, <2>1 DEF ServerPlace
<1>6. WantedPlace(c)' BY <1>1, <1>3 DEF WantedPlace
<1>7. FlagPlace(c)'
  <2>1. job'[Slot].cancelled => job'[c].pc = "await"
    <3>1. JobsOK /\ job[Resumer] = Idle BY DEF TypeOK, JobsOK, OneInv, PanelUp
    <3>2. CASE Finish(Slot)
      <4>1. job'[Slot] = Idle BY <3>1, <3>2, TaskMoves
      <4> QED BY <4>1, IdleFields
    <3>3. CASE ~Finish(Slot)
      <4>1. job'[c] = job[c] /\ job'[Slot].cancelled = job[Slot].cancelled
        BY <1>2, <3>1, <3>3, TaskMoves DEF Moved
      <4>2. job[Slot].cancelled => job[c].pc = "await" BY Zenon DEF OneInv, FlagPlace
      <4> QED BY <4>1, <4>2
    <3> QED BY <3>2, <3>3
  <2>2. job'[c].pc # "drop" /\ row'.state # "none" BY <1>1, <1>3
  <2> QED BY <2>1, <2>2, Zenon DEF FlagPlace
<1> QED BY <1>2, <1>4, <1>5, <1>6, <1>7 DEF OneInv

\* What a step of the task may take for granted.
LEMMA TaskNow ==
    ASSUME NEW c, OneClient(c), TypeOK, OneInv(c), NEW pc, At(Slot, pc), pc # "idle"
    PROVE  /\ Busy /\ job[Slot].pc = pc /\ row.state # "none"
           /\ row.state = "installed" => Exists(box) \/ pc = "make" \/ job[c].pc = "make"
           /\ row.state = "installing" => job[Slot].op = "install"
           /\ row.shouldRun => box.status \notin {"none", "created"} \/ crossed \/ pc \in {"make", "flag", "run"}
           /\ Live(box) => row.shouldRun \/ pc \in {"state", "policy", "wait"}
           /\ row.state = "installing" => ~row.shouldRun
           /\ pc = "run" => row.shouldRun
           /\ restoring => job[Slot].op = "restore"
           /\ \A to : Goto(Slot, to) => job'[Slot].op = job[Slot].op /\ job'[Slot].pc = to
           /\ Finish(Slot) => job'[Slot].op = "none" /\ job'[Slot].pc = "idle" /\ job'[Slot] = Idle
<1>1. Busy /\ job[Slot].pc = pc BY IdleFields DEF At, Busy
<1>2. job[c].pc \in {"idle", "load", "check", "status", "measure", "state", "rebuild", "make", "await"}
      /\ row.state # "none" /\ (job[c].pc = "make" => crossed)
  BY <1>1, BesideTask
<1>3. /\ row.state = "installed" => Exists(box) \/ pc = "make" \/ job[c].pc = "make"
      /\ row.state = "installing" => job[Slot].op = "install"
  BY <1>1, <1>2 DEF OneInv, ServerPlace
<1>4. /\ row.shouldRun => box.status \notin {"none", "created"} \/ crossed \/ pc \in {"make", "flag", "run"}
      /\ Live(box) => row.shouldRun \/ pc \in {"state", "policy", "wait"}
      /\ row.state = "installing" => ~row.shouldRun
      /\ pc = "run" => row.shouldRun
  BY <1>1, <1>2, Zenon DEF OneInv, WantedPlace
<1>5. restoring => job[Slot].op = "restore" BY <1>2, Zenon DEF OneInv, FlagPlace
<1>6. JobsOK /\ job[Resumer] = Idle BY DEF TypeOK, JobsOK, OneInv, PanelUp
<1>7. ASSUME NEW to, Goto(Slot, to) PROVE job'[Slot].op = job[Slot].op /\ job'[Slot].pc = to
  BY <1>6, <1>7, TaskMoves DEF Moved
<1>8. Finish(Slot) => job'[Slot].op = "none" /\ job'[Slot].pc = "idle" /\ job'[Slot] = Idle
  BY <1>6, TaskMoves, IdleFields
<1> QED BY <1>1, <1>2, <1>3, <1>4, <1>5, <1>7, <1>8

\* A task begins.
LEMMA TaskBegins ==
    ASSUME NEW c, OneClient(c), TypeOK, OneInv(c), Begin
    PROVE  OneInv(c)'
<1>1. At(Slot, "begin") BY DEF Begin
<1>2. Busy /\ job[Slot].pc = "begin" /\ row.state # "none" /\ (restoring => job[Slot].op = "restore")
  BY <1>1, TaskNow
<1>3. UNCHANGED <<row, box, restoring, up, crossed>> BY Zenon DEF Begin, host, panel
<1>4. PICK pc \in {"off", "prepare", "put", "archive"} :
         /\ Goto(Slot, pc)
         /\ pc = "off" => job[Slot].op \in {"stop", "restart"}
         /\ pc = "prepare" => job[Slot].op = "install"
         /\ pc = "put" => job[Slot].op = "restore"
         /\ pc = "archive" => job[Slot].op = "backup"
  BY <1>2 DEF Begin
<1>5. job'[Slot].op = job[Slot].op /\ job'[Slot].pc = pc BY <1>1, <1>4, TaskNow
<1>6. TaskPlace BY DEF OneInv
<1>7. TaskPlace' BY <1>2, <1>3, <1>4, <1>5, <1>6, IdleFields DEF TaskPlace
<1>8. job[Slot].op = "install" => ~Live(box') BY <1>2, <1>3, <1>6, IdleFields DEF TaskPlace
<1>9. Live(box') => row.state = "installed" BY <1>3 DEF OneInv, ServerPlace
<1>10. /\ row.state = "installed" => Exists(box) \/ job[c].pc = "make"
       /\ row.state = "installing" => job[Slot].op = "install" /\ ~row.shouldRun
       /\ Live(box) => row.shouldRun
       /\ row.shouldRun => box.status \notin {"none", "created"} \/ crossed
  BY <1>1, TaskNow
<1>11. /\ row'.state = row.state /\ (row.state = "installed" => Exists(box') \/ job[c].pc = "make")
       /\ row.state = "installing" => job'[Slot].op = "install" /\ ~row'.shouldRun
       /\ Live(box') => row'.shouldRun
       /\ row'.shouldRun => box'.status \notin {"none", "created"} \/ crossed
       /\ restoring' => restoring /\ job'[Slot].op = "restore"
       /\ job'[Slot].pc # "run"
  BY <1>2, <1>3, <1>4, <1>5, <1>10
<1> QED BY <1>2, <1>3, <1>4, <1>5, <1>7, <1>8, <1>9, <1>11, TaskKeeps

\* The task takes a game down, and a restart goes on with a server that is down.
LEMMA TaskStops ==
    ASSUME NEW c, OneClient(c), TypeOK, OneInv(c), StopFlag \/ StopState \/ StopPolicy \/ StopWait
    PROVE  OneInv(c)'
<1>0. ~CallFails BY NothingFails
<1>1. PICK pc \in {"off", "state", "policy", "wait"} : At(Slot, pc)
  BY DEF StopFlag, StopState, StopPolicy, StopWait
<1>3. Busy /\ job[Slot].pc = pc BY <1>1, TaskNow
<1>4. job[Slot].op \in {"stop", "restart"} /\ row.state = "installed"
      /\ (pc = "wait" => ~Live(box) \/ box.policy = "no")
  BY <1>3, IdleFields DEF OneInv, TaskPlace
<1>5. ~restoring BY <1>1, <1>4, TaskNow
<1>6. UNCHANGED <<restoring, up, crossed>>
  BY Zenon DEF StopFlag, StopState, StopPolicy, StopWait, memory, panel
<1>7. Exists(box) \/ job[c].pc = "make" BY <1>1, <1>4, TaskNow
<1>8. row.shouldRun => box.status \notin {"none", "created"} \/ crossed BY <1>1, TaskNow, Zenon
<1>9. CASE StopFlag
  <2>1. Goto(Slot, "state") /\ row' = SetShouldRun(FALSE) /\ UNCHANGED box
    BY <1>9, Zenon DEF StopFlag, host
  <2>2. job'[Slot].op = job[Slot].op /\ job'[Slot].pc = "state" BY <1>1, <2>1, TaskNow
  <2>3. row'.state = "installed" /\ ~row'.shouldRun BY <1>4, <2>1 DEF SetShouldRun, TypeOK
  <2>4. TaskPlace' BY <1>4, <2>2, <2>3 DEF TaskPlace
  <2> QED BY <1>3, <1>4, <1>5, <1>6, <1>7, <2>1, <2>2, <2>3, <2>4, TaskKeeps
<1>10. ASSUME Stopped, UNCHANGED row, ~Live(box'), Exists(box) => Exists(box'),
              box.status \notin {"none", "created"} => box'.status \notin {"none", "created"}
       PROVE  OneInv(c)'
  <2>1. CASE job[Slot].op = "restart"
    <3>1. Goto(Slot, "create") BY <1>10, <2>1 DEF Stopped
    <3>2. job'[Slot].op = "restart" /\ job'[Slot].pc = "create" BY <1>1, <2>1, <3>1, TaskNow
    <3>3. TaskPlace' BY <1>4, <1>10, <3>2 DEF TaskPlace
    <3> QED BY <1>3, <1>4, <1>5, <1>6, <1>7, <1>8, <1>10, <3>1, <3>2, <3>3, TaskKeeps
  <2>2. CASE job[Slot].op # "restart"
    <3>1. Finish(Slot) BY <1>10, <2>2 DEF Stopped
    <3>2. job'[Slot] = Idle /\ job'[Slot].pc = "idle" BY <1>1, <3>1, TaskNow
    <3>3. TaskPlace' BY <3>2 DEF TaskPlace
    <3> QED BY <1>3, <1>4, <1>5, <1>6, <1>7, <1>8, <1>10, <3>1, <3>2, <3>3, TaskKeeps
  <2> QED BY <2>1, <2>2
<1>11. ASSUME NEW to \in {"policy", "wait"}, Goto(Slot, to), UNCHANGED row, Live(box') = Live(box),
              box'.status = box.status, to = "wait" => box'.policy = "no"
       PROVE  OneInv(c)'
  <2>1. job'[Slot].op = job[Slot].op /\ job'[Slot].pc = to BY <1>1, <1>11, TaskNow
  <2>2. TaskPlace' BY <1>4, <1>11, <2>1 DEF TaskPlace
  <2>3. Exists(box') \/ job[c].pc = "make" BY <1>7, <1>11 DEF Exists
  <2> QED BY <1>3, <1>4, <1>5, <1>6, <1>8, <1>11, <2>1, <2>2, <2>3, TaskKeeps
<1>12. CASE StopState
  <2>1. UNCHANGED <<row, box>> BY <1>12, Zenon DEF StopState, host
  <2>2. (Live(box) /\ Goto(Slot, "policy")) \/ (~Live(box) /\ Stopped) BY <1>0, <1>12 DEF StopState
  <2> QED BY <1>10, <1>11, <2>1, <2>2
<1>13. CASE StopPolicy
  <2>1. CASE ~Exists(box)
    <3>1. UNCHANGED <<row, box>> /\ Stopped BY <1>0, <1>13, <2>1, Zenon DEF StopPolicy
    <3>2. ~Live(box) BY <2>1 DEF Exists, Live
    <3> QED BY <1>10, <3>1, <3>2
  <2>2. CASE Exists(box)
    <3>1. UNCHANGED row /\ box' = NoRestart(box) /\ Goto(Slot, "wait")
      BY <1>0, <1>13, <2>2, Zenon DEF StopPolicy
    <3>2. box'.status = box.status /\ box'.policy = "no" BY <2>2, <3>1 DEF NoRestart, TypeOK, Container
    <3> QED BY <1>11, <3>1, <3>2 DEF Live
  <2> QED BY <2>1, <2>2
<1>14. CASE StopWait
  <2>1. UNCHANGED row /\ Stopped /\ box' \in AfterStop(box) /\ job[Slot].pc = "wait"
    BY <1>0, <1>14, Zenon DEF StopWait, At
  <2>2. CASE ~Live(box) BY <1>10, <2>1, <2>2 DEF AfterStop
  <2>3. CASE Live(box)
    <3>1. PICK code \in ExitCode : box' = Exited(box, code)
      BY <1>3, <1>4, <2>1, <2>3 DEF AfterStop
    <3>2. box'.status = "exited" BY <2>3, <3>1 DEF Exited, TypeOK, Container
    <3> QED BY <1>10, <2>1, <3>2 DEF Live, Exists
  <2> QED BY <2>2, <2>3
<1> QED BY <1>9, <1>12, <1>13, <1>14

\* The second half of a restart.
LEMMA TaskStarts ==
    ASSUME NEW c, OneClient(c), TypeOK, OneInv(c),
           StartCreate(Slot) \/ StartMake(Slot) \/ StartFlag(Slot) \/ StartRun(Slot)
    PROVE  OneInv(c)'
<1>1. PICK pc \in {"create", "make", "flag", "run"} : At(Slot, pc)
  BY DEF StartCreate, StartMake, StartFlag, StartRun, AtOp
<1>2. Busy /\ job[Slot].pc = pc /\ (pc = "make" => job[Slot].op # "install")
  <2>1. Busy /\ job[Slot].pc = pc BY <1>1, TaskNow
  <2> QED BY <2>1 DEF StartCreate, StartMake, StartFlag, StartRun, At, AtOp
<1>3. /\ job[Slot].op = "restart" /\ row.state = "installed" /\ ~Live(box)
      /\ pc = "make" => ~Exists(box) \/ crossed
  BY <1>2, IdleFields DEF OneInv, TaskPlace
<1>4. ~restoring /\ (pc # "make" => Exists(box) \/ job[c].pc = "make") BY <1>1, <1>3, TaskNow
<1>5. UNCHANGED <<restoring, up, crossed>>
  BY Zenon DEF StartCreate, StartMake, StartFlag, StartRun, memory, panel
<1>6. CASE StartCreate(Slot)
  <2>1. box' = Absent /\ Goto(Slot, "make") /\ UNCHANGED row
    BY <1>6, NothingFails, Zenon DEF StartCreate, RemoveOk, RemoveFails
  <2>2. job'[Slot].op = "restart" /\ job'[Slot].pc = "make" BY <1>1, <1>3, <2>1, TaskNow
  <2>3. ~Live(box') /\ ~Exists(box') BY <2>1 DEF Absent, Live, Exists
  <2>4. TaskPlace' BY <1>3, <2>1, <2>2, <2>3 DEF TaskPlace
  <2> QED BY <1>2, <1>3, <1>4, <1>5, <2>1, <2>2, <2>3, <2>4, TaskKeeps
<1>7. CASE StartMake(Slot)
  <2>1. pc = "make" BY <1>2, <1>7 DEF StartMake, AtOp, At
  <2>2. UNCHANGED row BY <1>7 DEF StartMake
  <2>3. CASE CreateOk /\ Goto(Slot, "flag")
    <3>1. job'[Slot].op = "restart" /\ job'[Slot].pc = "flag" BY <1>1, <1>3, <2>3, TaskNow
    <3>2. ~Live(box') /\ Exists(box') BY <2>3 DEF CreateOk, Made, Fresh, Live, Exists
    <3>3. TaskPlace' BY <1>3, <2>2, <3>1, <3>2 DEF TaskPlace
    <3> QED BY <1>2, <1>3, <1>4, <1>5, <2>2, <2>3, <3>1, <3>2, <3>3, TaskKeeps
  <2>4. CASE CreateFails /\ Finish(Slot)
    <3>1. Exists(box) /\ UNCHANGED box BY <2>4, NothingFails DEF CreateFails
    <3>2. job'[Slot] = Idle /\ job'[Slot].pc = "idle" /\ crossed
      BY <1>1, <1>3, <2>1, <2>4, <3>1, TaskNow
    <3>3. TaskPlace' BY <3>2 DEF TaskPlace
    <3> QED BY <1>2, <1>3, <1>4, <1>5, <2>2, <2>4, <3>1, <3>2, <3>3, TaskKeeps
  <2> QED BY <1>7, <2>3, <2>4 DEF StartMake
<1>8. CASE StartFlag(Slot)
  <2>0. pc = "flag" BY <1>2, <1>8 DEF StartFlag, At
  <2>1. Goto(Slot, "run") /\ row' = SetShouldRun(TRUE) /\ UNCHANGED box
    BY <1>8, Zenon DEF StartFlag, host
  <2>2. job'[Slot].op = "restart" /\ job'[Slot].pc = "run" BY <1>1, <1>3, <2>1, TaskNow
  <2>3. row'.state = "installed" /\ row'.shouldRun BY <1>3, <2>1 DEF SetShouldRun, TypeOK
  <2>4. TaskPlace' BY <1>3, <2>1, <2>2, <2>3 DEF TaskPlace
  <2>5. Exists(box') \/ job[c].pc = "make" BY <1>4, <2>0, <2>1
  <2> QED BY <1>2, <1>3, <1>4, <1>5, <2>1, <2>2, <2>3, <2>4, <2>5, TaskKeeps
<1>9. CASE StartRun(Slot)
  <2>1. Finish(Slot) /\ box' = Started(box) /\ UNCHANGED row /\ pc = "run"
    BY <1>2, <1>9, NothingFails, Zenon DEF StartRun, At
  <2>2. job'[Slot] = Idle /\ job'[Slot].pc = "idle" BY <1>1, <2>1, TaskNow
  <2>3. row.shouldRun BY <1>1, <2>1, TaskNow
  <2>4. TaskPlace' BY <2>2 DEF TaskPlace
  <2>5. CASE Exists(box)
    <3>1. box'.status = "running" BY <1>3, <2>1, <2>5 DEF Started, TypeOK, Container
    <3>2. Exists(box') BY <3>1 DEF Exists
    <3> QED BY <1>2, <1>3, <1>4, <1>5, <2>1, <2>2, <2>3, <2>4, <3>1, <3>2, TaskKeeps
  <2>6. CASE ~Exists(box)
    <3>1. box' = box /\ job[c].pc = "make" BY <1>4, <2>1, <2>6 DEF Started
    <3>2. crossed BY <1>2, <3>1, IdleFields DEF OneInv, ClientPlace
    <3> QED BY <1>2, <1>3, <1>4, <1>5, <2>1, <2>2, <2>3, <2>4, <3>1, <3>2, TaskKeeps
  <2> QED BY <2>5, <2>6
<1> QED BY <1>6, <1>7, <1>8, <1>9

\* The task installs the game, in a container that is down.
LEMMA TaskInstalls ==
    ASSUME NEW c, OneClient(c), TypeOK, OneInv(c),
           InstallPrepare \/ InstallBuild \/ InstallMake \/ InstallDone \/ InstallEnd
    PROVE  OneInv(c)'
<1>0. ~CallFails BY NothingFails
<1>1. PICK pc \in {"prepare", "build", "make", "done", "end"} : At(Slot, pc)
  BY DEF InstallPrepare, InstallBuild, InstallMake, InstallDone, InstallEnd, AtOp
<1>2. Busy /\ job[Slot].pc = pc /\ (pc = "make" => job[Slot].op = "install")
  <2>1. Busy /\ job[Slot].pc = pc BY <1>1, TaskNow
  <2> QED BY <2>1 DEF InstallPrepare, InstallBuild, InstallMake, InstallDone, InstallEnd, At, AtOp
<1>3. /\ job[Slot].op = "install" /\ ~Live(box)
      /\ row.state = (IF pc = "end" THEN "installed" ELSE "installing")
      /\ pc = "make" => ~Exists(box)
      /\ pc = "done" => Exists(box)
  BY <1>2, IdleFields DEF OneInv, TaskPlace
<1>4. /\ ~restoring /\ (row.state = "installed" => Exists(box) \/ job[c].pc = "make")
      /\ row.state = "installing" => ~row.shouldRun
      /\ pc = "end" => (row.shouldRun => box.status \notin {"none", "created"} \/ crossed)
  BY <1>1, <1>3, TaskNow
<1>5. UNCHANGED <<restoring, up, crossed>>
  BY Zenon DEF InstallPrepare, InstallBuild, InstallMake, InstallDone, InstallEnd, memory, panel
<1>6. CASE InstallPrepare
  <2>1. Goto(Slot, "build") /\ UNCHANGED <<row, box>> BY <1>0, <1>6, Zenon DEF InstallPrepare
  <2>2. row.state = "installing"
    <3>1. pc = "prepare" BY <1>2, <1>6 DEF InstallPrepare, At
    <3> QED BY <1>3, <3>1
  <2>3. job'[Slot].op = "install" /\ job'[Slot].pc = "build" BY <1>1, <1>3, <2>1, TaskNow
  <2>4. TaskPlace' BY <1>3, <2>1, <2>2, <2>3 DEF TaskPlace
  <2> QED BY <1>2, <1>3, <1>4, <1>5, <2>1, <2>2, <2>3, <2>4, TaskKeeps
<1>7. CASE InstallBuild
  <2>1. box' = Absent /\ Goto(Slot, "make") /\ UNCHANGED row
    BY <1>0, <1>7, Zenon DEF InstallBuild, RemoveOk, RemoveFails
  <2>2. row.state = "installing"
    <3>1. pc = "build" BY <1>2, <1>7 DEF InstallBuild, At
    <3> QED BY <1>3, <3>1
  <2>3. job'[Slot].op = "install" /\ job'[Slot].pc = "make" BY <1>1, <1>3, <2>1, TaskNow
  <2>4. ~Live(box') /\ ~Exists(box') BY <2>1 DEF Absent, Live, Exists
  <2>5. TaskPlace' BY <2>1, <2>2, <2>3, <2>4 DEF TaskPlace
  <2> QED BY <1>2, <1>3, <1>4, <1>5, <2>1, <2>2, <2>3, <2>4, <2>5, TaskKeeps
<1>10. CASE InstallMake
  <2>0. pc = "make" BY <1>2, <1>10 DEF InstallMake, AtOp, At
  <2>1. CreateOk /\ Goto(Slot, "done") /\ UNCHANGED row
    BY <1>0, <1>3, <1>10, <2>0, Zenon DEF InstallMake, CreateFails
  <2>2. row.state = "installing" BY <1>3, <2>0
  <2>3. job'[Slot].op = "install" /\ job'[Slot].pc = "done" BY <1>1, <1>3, <2>1, TaskNow
  <2>4. ~Live(box') /\ Exists(box') BY <2>1 DEF CreateOk, Made, Fresh, Live, Exists
  <2>5. TaskPlace' BY <2>1, <2>2, <2>3, <2>4 DEF TaskPlace
  <2> QED BY <1>2, <1>3, <1>4, <1>5, <2>1, <2>2, <2>3, <2>4, <2>5, TaskKeeps
<1>8. CASE InstallDone
  <2>1. Goto(Slot, "end") /\ row' = SetState("installed") /\ UNCHANGED box
    BY <1>8, Zenon DEF InstallDone, host
  <2>2. pc = "done" BY <1>2, <1>8 DEF InstallDone, At
  <2>3. row.state = "installing" /\ Exists(box) BY <1>3, <2>2
  <2>4. job'[Slot].op = "install" /\ job'[Slot].pc = "end" BY <1>1, <1>3, <2>1, TaskNow
  <2>5. row'.state = "installed" /\ ~row'.shouldRun BY <1>4, <2>1, <2>3 DEF SetState, TypeOK
  <2>6. TaskPlace' BY <1>3, <2>1, <2>4, <2>5 DEF TaskPlace
  <2> QED BY <1>2, <1>3, <1>4, <1>5, <2>1, <2>3, <2>4, <2>5, <2>6, TaskKeeps
<1>9. CASE InstallEnd
  <2>1. Finish(Slot) /\ UNCHANGED <<row, box>> BY <1>9, Zenon DEF InstallEnd, host
  <2>2. pc = "end" BY <1>2, <1>9 DEF InstallEnd, At
  <2>3. row.state = "installed" BY <1>3, <2>2
  <2>4. job'[Slot] = Idle /\ job'[Slot].pc = "idle" BY <1>1, <2>1, TaskNow
  <2>5. TaskPlace' BY <2>4 DEF TaskPlace
  <2> QED BY <1>2, <1>3, <1>4, <1>5, <2>1, <2>3, <2>4, <2>5, TaskKeeps
<1> QED BY <1>6, <1>7, <1>8, <1>9, <1>10

\* A restore takes its flag with it; a backup leaves nothing behind.
LEMMA TaskCopies ==
    ASSUME NEW c, OneClient(c), TypeOK, OneInv(c), RestorePut \/ BackupArchive
    PROVE  OneInv(c)'
<1>1. PICK pc \in {"put", "archive"} : At(Slot, pc) BY DEF RestorePut, BackupArchive
<1>2. Busy /\ job[Slot].pc = pc BY <1>1, TaskNow
<1>3. row.state = "installed" /\ job[Slot].op \in {"restore", "backup"}
      /\ (pc = "archive" => job[Slot].op = "backup")
  BY <1>2, IdleFields DEF OneInv, TaskPlace
<1>4. /\ Exists(box) \/ job[c].pc = "make"
      /\ (pc = "archive" => ~restoring) /\ (Live(box) => row.shouldRun)
      /\ row.shouldRun => box.status \notin {"none", "created"} \/ crossed
  BY <1>1, <1>3, TaskNow
<1>5. Finish(Slot) /\ UNCHANGED <<row, box, up, crossed>> BY Zenon DEF RestorePut, BackupArchive, host, panel
<1>6. ~restoring'
  <2>1. CASE RestorePut BY <2>1 DEF RestorePut
  <2>2. CASE BackupArchive
    <3>1. pc = "archive" BY <1>2, <2>2 DEF BackupArchive, At
    <3> QED BY <1>4, <2>2, <3>1 DEF BackupArchive, memory
  <2> QED BY <2>1, <2>2
<1>7. job'[Slot] = Idle /\ job'[Slot].pc = "idle" BY <1>1, <1>5, TaskNow
<1>8. TaskPlace' BY <1>7 DEF TaskPlace
<1> QED BY <1>2, <1>3, <1>4, <1>5, <1>6, <1>7, <1>8, TaskKeeps

\* A delete has cancelled the task: whatever it leaves, the delete takes away.
LEMMA TaskIsCancelled ==
    ASSUME NEW c, OneClient(c), TypeOK, OneInv(c), Cancelled
    PROVE  /\ OneInv(c)' /\ job[c].pc = "await" /\ row.state # "none"
           /\ Busy /\ Finish(Slot)
           /\ row'.state = (IF job[Slot].op = "install" /\ job[Slot].pc # "begin"
                            THEN "install_failed" ELSE row.state)
<1>1. job[Slot].cancelled /\ Finish(Slot) /\ up' = up /\ crossed' = crossed BY Zenon DEF Cancelled, panel
<1>2. Busy BY <1>1, IdleFields, Zenon DEF Busy
<1>3. job[c].pc = "await" BY <1>1, Zenon DEF OneInv, FlagPlace
<1>4. row.state # "none" BY <1>2, BesideTask
<1>5. row' = (IF job[Slot].pc # "begin" /\ job[Slot].op = "install" THEN SetState("install_failed") ELSE row)
  BY Zenon DEF Cancelled
<1>6. row'.state = (IF job[Slot].op = "install" /\ job[Slot].pc # "begin" THEN "install_failed" ELSE row.state)
      /\ row'.shouldRun = row.shouldRun
  BY <1>4, <1>5 DEF SetState, TypeOK
<1>7. \/ UNCHANGED box
      \/ job[Slot].pc \in {"create", "build", "make"} /\ box' \in {Fresh, Absent}
      \/ job[Slot].pc = "run" /\ box' = Started(box)
      \/ job[Slot].pc = "wait" /\ box' \in AfterStop(box)
  BY DEF Cancelled, Made
<1>8. TaskPlace BY DEF OneInv
<1>9. job[Slot].op = "install" => ~Live(box')
  <2>1. ~Live(Fresh) /\ ~Live(Absent) BY DEF Fresh, Absent, Live
  <2> QED BY <1>2, <1>7, <1>8, <2>1, IdleFields DEF TaskPlace
<1>10. Live(box') => row'.state = "installed"
  <2>1. CASE job[Slot].op = "install" BY <1>9, <2>1
  <2>2. CASE job[Slot].op # "install"
    <3>1. row.state = "installed" BY <1>2, <1>8, <2>2 DEF TaskPlace, Busy
    <3> QED BY <1>6, <2>2, <3>1
  <2> QED BY <2>1, <2>2
<1>11. ClientPlace(c)' /\ job'[Resumer] = Idle /\ job'[c].pc = "remove"
  BY <1>1, <1>2, <1>3, <1>4, <1>6, <1>9, TaskFrame
<1>12. job'[Slot] = Idle /\ ~job'[Slot].cancelled
  BY <1>1, TaskMoves, IdleFields DEF TypeOK, JobsOK, OneInv, PanelUp
<1>13. PanelUp' BY <1>1, <1>11 DEF OneInv, PanelUp
<1>14. TaskPlace' BY <1>12 DEF TaskPlace
<1>15. ServerPlace(c)' BY <1>4, <1>6, <1>10, <1>11 DEF ServerPlace
<1>16. WantedPlace(c)'
  <2>1. row'.state = "installing" => ~row'.shouldRun
    <3>1. row'.state = "installing" => row.state = "installing" BY <1>6
    <3>2. row.state = "installing" => ~row.shouldRun BY Zenon DEF OneInv, WantedPlace
    <3> QED BY <1>6, <3>1, <3>2
  <2> QED BY <1>11, <1>12, <2>1, IdleFields DEF WantedPlace
<1>17. FlagPlace(c)'
  <2>1. row'.state # "none" BY <1>4, <1>6
  <2> QED BY <1>11, <1>12, <2>1, Zenon DEF FlagPlace
<1> QED BY <1>1, <1>2, <1>3, <1>4, <1>6, <1>11, <1>13, <1>14, <1>15, <1>16, <1>17 DEF OneInv

\* Whatever the task does.
LEMMA TaskStep ==
    ASSUME NEW c, OneClient(c), TypeOK, OneInv(c), Task
    PROVE  OneInv(c)'
BY TaskBegins, TaskStops, TaskStarts, TaskInstalls, TaskCopies, TaskIsCancelled DEF Task
----------------------------------------------------------------------------
(* The panel around them, and the invariant.                               *)

\* A game that is up may exit or be restarted by Docker; one that is down stays down.
LEMMA GameGoes ==
    ASSUME TypeOK, box' \in OnItsOwn(box)
    PROVE  /\ Live(box) /\ box'.policy = box.policy
           /\ box'.status \in {"running", "restarting", "exited"}
<1>1. Live(box) BY DEF OnItsOwn, Live
<1>2. box' \in {Exited(box, "zero"), Exited(box, "error"), [box EXCEPT !.status = "restarting"],
                [box EXCEPT !.status = "running"]}
  BY <1>1 DEF OnItsOwn, Live
<1> QED BY <1>1, <1>2 DEF Exited, TypeOK, Container

\* The games and the disk do as they like.
LEMMA AroundStep ==
    ASSUME NEW c, OneClient(c), TypeOK, OneInv(c), GameExits \/ DiskFills
    PROVE  OneInv(c)'
<1>1. UNCHANGED <<row, job, restoring, volume, up, crossed>>
  BY Zenon DEF GameExits, DiskFills, memory, panel
<1>2. \/ box' = box
      \/ Live(box) /\ box'.policy = box.policy /\ box'.status \in {"running", "restarting", "exited"}
  BY GameGoes DEF GameExits, DiskFills
<1>3. (Live(box') => Live(box)) /\ (Exists(box) <=> Exists(box'))
      /\ (box.status \notin {"none", "created"} => box'.status \notin {"none", "created"})
      /\ box'.policy = box.policy
  BY <1>2 DEF Live, Exists
<1>4. PanelUp' BY <1>1 DEF OneInv, PanelUp
<1>5. TaskPlace' BY <1>1, <1>3 DEF OneInv, TaskPlace
<1>6. ClientPlace(c)' BY <1>1, <1>3 DEF OneInv, ClientPlace, Loaded, Busy
<1>7. ServerPlace(c)' BY <1>1, <1>3 DEF OneInv, ServerPlace
<1>8. WantedPlace(c)' BY <1>1, <1>3 DEF OneInv, WantedPlace
<1>9. FlagPlace(c)' BY <1>1, Zenon DEF OneInv, FlagPlace
<1> QED BY <1>4, <1>5, <1>6, <1>7, <1>8, <1>9 DEF OneInv

\* Nobody brings the panel back, since nobody takes it down.
LEMMA OnlyTheseSteps ==
    ASSUME NEW c, OneClient(c), OneInv(c), Next
    PROVE  Request(c) \/ Handle(c) \/ Task \/ GameExits \/ DiskFills
<1>1. up /\ job[Resumer].pc = "idle" BY IdleFields DEF OneInv, PanelUp
<1>2. ~Recover BY <1>1 DEF Recover
<1>3. ~Resume
  BY <1>1 DEF Resume, FindStates, GiveUp, Select, Check, StartStep, ReadState, CheckDisk, StartCreate,
     StartMake, StartFlag, StartRun, At, AtOp
<1>4. ~PanelDies /\ ~Shutdown /\ ~Reboot /\ ~BoxRemoved
  BY NothingFails DEF PanelDies, Shutdown, Reboot, BoxRemoved
<1> QED BY <1>2, <1>3, <1>4 DEF Next, Around, OneClient

LEMMA OneInit ==
    ASSUME NEW c, OneClient(c), Init
    PROVE  OneInv(c)
<1>1. c \in Actors /\ Slot \in Actors /\ Resumer \in Actors /\ c # Slot /\ c # Resumer /\ Slot # Resumer
  BY ActorsAssumption DEF OneClient, Actors, Handlers
<1>2. job = [b \in Actors |-> IF b = c THEN [Idle EXCEPT !.op = "create", !.pc = "mark"] ELSE Idle]
  BY DEF Init, OneClient
<1>3. job[c].op = "create" /\ job[c].pc = "mark" /\ job[Slot] = Idle /\ job[Resumer] = Idle
  BY <1>1, <1>2 DEF Idle
<1>4. row.state = "pending" /\ row.shouldRun = FALSE /\ ~Live(box) /\ ~volume /\ ~restoring /\ up
  BY DEF Init, Absent, Live
<1>5. PanelUp BY <1>3, <1>4 DEF PanelUp
<1>6. TaskPlace BY <1>3 DEF TaskPlace
<1>7. ClientPlace(c) BY <1>3, <1>4 DEF ClientPlace, Busy
<1>8. ServerPlace(c) BY <1>3, <1>4 DEF ServerPlace
<1>9. WantedPlace(c) BY <1>3, <1>4, IdleFields DEF WantedPlace
<1>10. FlagPlace(c) BY <1>3, <1>4, IdleFields DEF FlagPlace
<1> QED BY <1>5, <1>6, <1>7, <1>8, <1>9, <1>10 DEF OneInv

LEMMA OneStep ==
    ASSUME NEW c, OneClient(c), TypeOK, StoppingShown, OneInv(c), [Next]_vars
    PROVE  OneInv(c)'
<1>1. CASE Next BY <1>1, OnlyTheseSteps, ClientStep, TaskStep, AroundStep
<1>2. CASE UNCHANGED vars
  <2>1. UNCHANGED <<row, job, restoring, box, volume, up, crossed>> BY <1>2 DEF vars
  <2>2. PanelUp' BY <2>1 DEF OneInv, PanelUp
  <2>3. TaskPlace' BY <2>1 DEF OneInv, TaskPlace
  <2>4. ClientPlace(c)' BY <2>1 DEF OneInv, ClientPlace, Loaded, Busy
  <2>5. ServerPlace(c)' BY <2>1 DEF OneInv, ServerPlace
  <2>6. WantedPlace(c)' BY <2>1, Zenon DEF OneInv, WantedPlace
  <2>7. FlagPlace(c)' BY <2>1, Zenon DEF OneInv, FlagPlace
  <2> QED BY <2>2, <2>3, <2>4, <2>5, <2>6, <2>7 DEF OneInv
<1> QED BY <1>1, <1>2

\* With one request at a time, the request, the task and the server are where OneInv has them.
THEOREM OneAlways ==
    ASSUME NEW c, OneClient(c)
    PROVE  Spec => [](TypeOK /\ StoppingShown /\ OneInv(c))
<1>1. Init => OneInv(c) BY OneInit
<1>2. TypeOK /\ StoppingShown /\ OneInv(c) /\ [Next]_vars => OneInv(c)' BY OneStep
<1> QED BY <1>1, <1>2, TypeCorrect, StoppingAlwaysShown, PTL DEF Spec
----------------------------------------------------------------------------
(* What a reader of the panel may rely on.                                 *)

\* A server at rest runs if, and only if, it is wanted to, but for a game that went down
\* on its own: start, stop, restart, reinstall and the watcher leave should_run and the
\* container in step, whatever order they change them in.
THEOREM RunsAsWanted ==
    ASSUME NEW c, OneClient(c)
    PROVE  Spec => []LiveAsWanted
<1>1. OneInv(c) => LiveAsWanted
  <2> SUFFICES ASSUME OneInv(c), Quiet PROVE LiveIsWanted /\ WantedWasStarted
    BY DEF LiveAsWanted, LiveIsWanted, WantedWasStarted
  <2>1. job[c] = Idle /\ job[Slot] = Idle BY DEF Quiet, Actors, Handlers, OneClient
  <2> QED BY <2>1, IdleFields DEF OneInv, WantedPlace, LiveIsWanted, WantedWasStarted
<1> QED BY <1>1, OneAlways, PTL

\* A restore and an install have the files to themselves from the first step of their
\* task to its last: the checks at the request's door, made before its awaits, are
\* still good when the task runs.
THEOREM FilesAreExclusive ==
    ASSUME NEW c, OneClient(c)
    PROVE  Spec => []ExclusiveFiles
<1>1. OneInv(c) => ExclusiveFiles BY IdleFields DEF OneInv, TaskPlace, ExclusiveFiles
<1> QED BY <1>1, OneAlways, PTL

\* A server that shows as installing or restoring has somebody at work on it: a task
\* that is cancelled, before or after its first step, takes what it showed with it, or
\* the delete that cancelled it does.
THEOREM WhatIsShownIsReal ==
    ASSUME NEW c, OneClient(c)
    PROVE  Spec => []ShownIsReal
<1>1. OneInv(c) => ShownIsReal
  <2> SUFFICES ASSUME OneInv(c) PROVE InstallingIsReal /\ RestoringIsReal BY DEF ShownIsReal
  <2>1. InstallingIsReal BY DEF OneInv, ServerPlace, InstallingIsReal, OneClient
  <2>2. RestoringIsReal
    <3> SUFFICES ASSUME Quiet, row.state # "none" PROVE ~restoring BY Zenon DEF RestoringIsReal
    <3>1. job[c] = Idle /\ job[Slot] = Idle BY DEF Quiet, Actors, Handlers, OneClient
    <3>2. job[c].pc \notin {"remove", "drop"} /\ job[Slot].op # "restore" BY <3>1, IdleFields
    <3> QED BY <3>2, Zenon DEF OneInv, FlagPlace
  <2> QED BY <2>1, <2>2
<1> QED BY <1>1, OneAlways, PTL

\* Nothing of a deleted server is left in Docker, and no task brings it back.
THEOREM NothingIsLeft ==
    ASSUME NEW c, OneClient(c)
    PROVE  Spec => []DeletedLeavesNothing
<1>1. OneInv(c) => DeletedLeavesNothing
  <2> SUFFICES ASSUME OneInv(c), row.state = "none" PROVE ~Exists(box) /\ ~volume
    BY DEF DeletedLeavesNothing
  <2>1. ~Exists(box) BY DEF OneInv, ServerPlace
  <2>2. ~volume BY Zenon DEF OneInv, FlagPlace
  <2> QED BY <2>1, <2>2
<1> QED BY <1>1, OneAlways, PTL

\* A step with a game that is up leaves its container, but for a delete's.
LEMMA LiveStays ==
    ASSUME NEW c, OneClient(c), TypeOK, OneInv(c), [Next]_vars, Live(box), ~crossed, ~At(c, "remove")
    PROVE  Exists(box')
<1>0. ~CallFails /\ Exists(box) BY NothingFails DEF Live, Exists
<1>1. CASE Request(c) \/ Handle(c)
  <2>1. ~Rebuild(c) /\ ~RebuildMake(c) /\ ~StartCreate(c) /\ ~StartMake(c)
    BY IdleFields DEF Rebuild, RebuildMake, StartCreate, StartMake, At, AtOp, OneInv, ClientPlace
  <2>2. CASE StartRun(c) BY <1>0, <2>2 DEF StartRun, Started
  <2>3. CASE ~StartRun(c)
    <3>1. UNCHANGED box
      BY <1>1, <2>1, <2>3, Zenon DEF Request, Handle, StartStep, Load, Check, ReadStatus, GoRestore, GoInstall,
         Mark, SpawnInstall, InsertBackup, SpawnBackup, Measure, ReadState, CheckDisk, StartFlag, Remove,
         DropRow, host
    <3> QED BY <1>0, <3>1
  <2> QED BY <2>2, <2>3
<1>2. CASE Task
  <2>1. job[Slot].pc \notin {"create", "build", "make", "flag", "run"}
    BY IdleFields DEF OneInv, TaskPlace
  <2>2. \/ box' = box \/ box' = NoRestart(box) \/ box' \in AfterStop(box)
    BY <1>0, <1>2, <2>1 DEF Task, Begin, StopFlag, StopState, StopPolicy, StopWait, StartCreate, StartMake,
       StartFlag, StartRun, InstallPrepare, InstallBuild, InstallMake, InstallDone, InstallEnd, RestorePut,
       BackupArchive, Cancelled, At, AtOp, host
  <2>3. box' = NoRestart(box) => box'.status = box.status BY DEF NoRestart, TypeOK, Container
  <2>4. box' \in AfterStop(box) => box'.status \in {"exited", box.status}
    BY DEF AfterStop, Exited, TypeOK, Container
  <2> QED BY <1>0, <2>2, <2>3, <2>4 DEF Exists
<1>3. CASE GameExits \/ DiskFills
  <2>1. CASE GameExits BY <2>1, GameGoes DEF GameExits, Exists
  <2>2. CASE DiskFills BY <1>0, <2>2 DEF DiskFills
  <2> QED BY <1>3, <2>1, <2>2
<1>4. CASE UNCHANGED vars BY <1>0, <1>4 DEF vars
<1> QED BY <1>1, <1>2, <1>3, <1>4, OnlyTheseSteps

\* The container of a game that is up goes only with its server: what start, restart and
\* an install saw of it before their awaits still holds when they remove the old one,
\* unless a request for the settings has crossed a restart.
THEOREM NoLiveIsReplaced ==
    ASSUME NEW c, OneClient(c)
    PROVE  Spec => NoLiveReplaced
<1>1. TypeOK /\ OneInv(c) /\ [Next]_vars
      => [Live(box) /\ ~Exists(box') => crossed \/ \E a \in Reqs : At(a, "remove")]_vars
  BY LiveStays DEF OneClient
<1> QED BY <1>1, OneAlways, PTL DEF Spec, NoLiveReplaced
----------------------------------------------------------------------------
(* The manager implements PromisedServer: every step of the panel is one   *)
(* of the promised server, or none.                                        *)

Promised == [Promise!Next]_(Promise!vars)

\* What is done to the server as Work tells it.
LEMMA WorkIs ==
    /\ job[Slot].op \notin {"install", "restore"} => Work = "none"
    /\ job[Slot].op = "install" => Work = (IF job[Slot].pc = "end" THEN "none" ELSE "install")
    /\ job[Slot].op = "restore" => Work = "restore"
    /\ job'[Slot].op \notin {"install", "restore"} => Work' = "none"
    /\ job'[Slot].op = "install" => Work' = (IF job'[Slot].pc = "end" THEN "none" ELSE "install")
    /\ job'[Slot].op = "restore" => Work' = "restore"
BY DEF Work

\* The steps that change one of the three, and those that change none.
LEMMA Stutters ==
    ASSUME row'.state = row.state, Live(box') <=> Live(box), Work' = Work
    PROVE  Promised
BY DEF Promised, Promise!vars, Live

LEMMA SwitchesOn ==
    ASSUME row'.state = row.state, Work = "none", Work' = Work, row.state = "installed", ~Live(box), Live(box')
    PROVE  Promised
BY DEF Promised, Promise!Next, Promise!SwitchOn, Live

LEMMA SwitchesOff ==
    ASSUME row'.state = row.state, Work' = Work, Live(box), ~Live(box')
    PROVE  Promised
BY DEF Promised, Promise!Next, Promise!SwitchOff, Live

LEMMA BeginsInstall ==
    ASSUME row'.state = row.state, row.state = "installing", ~Live(box), box' = box, Work = "none", Work' = "install"
    PROVE  Promised
BY DEF Promised, Promise!Next, Promise!BeginInstall, Live

LEMMA EndsInstall ==
    ASSUME row'.state \in {"installed", "install_failed"}, ~Live(box), ~Live(box'), Work = "install", Work' = "none"
    PROVE  Promised
BY DEF Promised, Promise!Next, Promise!EndInstall, Live

LEMMA GivesUpInstall ==
    ASSUME ~Live(box), ~Live(box'), Work' = "none",
           \/ Work = "install" /\ row'.state = row.state
           \/ Work = "none" /\ row.state = "installed" /\ row'.state = "install_failed"
    PROVE  Promised
BY DEF Promised, Promise!Next, Promise!Abandon, Live

LEMMA BeginsRestore ==
    ASSUME row'.state = row.state, row.state = "installed", ~Live(box), box' = box, Work = "none", Work' = "restore"
    PROVE  Promised
BY DEF Promised, Promise!Next, Promise!BeginRestore, Live

LEMMA EndsRestore ==
    ASSUME row'.state = row.state, ~Live(box), box' = box, Work = "restore", Work' = "none"
    PROVE  Promised
BY DEF Promised, Promise!Next, Promise!EndRestore, Live

LEMMA Announces ==
    ASSUME row.state # "none", row'.state = "installing", ~Live(box), box' = box, Work = "none", Work' = "none"
    PROVE  Promised
BY DEF Promised, Promise!Next, Promise!Announce, Live

LEMMA Deletes ==
    ASSUME row.state # "none", row'.state = "none", ~Live(box), box' = box, Work = "none", Work' = "none"
    PROVE  Promised
BY DEF Promised, Promise!Next, Promise!Delete, Live

\* The steps of the request.
LEMMA ClientPromised ==
    ASSUME NEW c, OneClient(c), TypeOK, OneInv(c), OneInv(c)', Request(c) \/ Handle(c)
    PROVE  Promised
<1>0. ClientPlace(c) /\ ~CallFails BY NothingFails DEF OneInv
<1>1. JobsOK /\ job[Resumer] = Idle /\ job[Slot] \in Job BY ClientMoves DEF TypeOK, JobsOK, OneInv, PanelUp
<1>2. ~Busy => Work = "none" BY IdleFields, WorkIs DEF Busy
\* The task is left alone, or cancelled, or begun as what is no work on the files.
<1>4. ASSUME \/ Finish(c) \/ \E pc : Goto(c, pc)
             \/ \E op \in {"stop", "restart", "backup"} : Spawn(c, op)
      PROVE  Work' = Work
  <2>1. CASE job'[Slot] = job[Slot] BY <2>1 DEF Work
  <2>2. CASE job'[Slot] # job[Slot]
    <3>1. PICK op \in {"stop", "restart", "backup"} : Spawn(c, op) BY <1>1, <1>4, <2>2, ClientMoves
    <3>2. ~Busy /\ job'[Slot].op = op BY <1>1, <2>2, <3>1, ClientMoves
    <3> QED BY <1>2, <3>2, WorkIs
  <2> QED BY <2>1, <2>2
<1>5. CASE Request(c) \/ Load(c) \/ Check(c) \/ ReadStatus(c)
  <2>1. UNCHANGED <<row, box>> BY <1>5, Zenon DEF Request, Load, Check, ReadStatus, host
  <2>2. Work' = Work
    <3>1. c \in Actors /\ Slot \in Actors /\ c # Slot BY <1>1, ClientMoves
    <3>2. CASE Request(c) \/ Load(c) \/ ReadStatus(c)
      <4>1. job'[Slot] = job[Slot]
        BY <1>1, <3>1, <3>2 DEF Request, Load, ReadStatus, Finish, JobsOK
      <4> QED BY <4>1 DEF Work
    <3>3. CASE Check(c) /\ CancelTask(c)
      <4>1. job'[Slot].op = job[Slot].op /\ job'[Slot].pc = job[Slot].pc
        BY <1>1, <3>1, <3>3 DEF CancelTask, Goto, JobsOK, Job
      <4> QED BY <4>1 DEF Work
    <3>4. CASE Check(c) /\ ~CancelTask(c)
      <4>1. \/ Finish(c) \/ \E pc : Goto(c, pc)
            \/ \E op \in {"stop", "restart", "backup"} : Spawn(c, op)
        BY <3>4 DEF Check
      <4> QED BY <1>4, <4>1
    <3> QED BY <1>5, <3>2, <3>3, <3>4
  <2> QED BY <2>1, <2>2, Stutters
<1>6. CASE InsertBackup(c) \/ SpawnBackup(c) \/ GoInstall(c) \/ Measure(c) \/ ReadState(c) \/ CheckDisk(c)
  <2>1. UNCHANGED <<row, box>>
    BY <1>6, Zenon DEF InsertBackup, SpawnBackup, GoInstall, Measure, ReadState, CheckDisk, host
  <2>2. Finish(c) \/ (\E pc : Goto(c, pc)) \/ \E op \in {"stop", "restart", "backup"} : Spawn(c, op)
    BY <1>6 DEF InsertBackup, SpawnBackup, GoInstall, Measure, ReadState, CheckDisk
  <2> QED BY <1>4, <2>1, <2>2, Stutters
<1>7. CASE GoRestore(c)
  <2>1. UNCHANGED <<row, box>> BY <1>7, Zenon DEF GoRestore, host
  <2>2. CASE Finish(c) BY <1>4, <2>1, <2>2, Stutters
  <2>3. CASE ~Finish(c)
    <3>1. Spawn(c, "restore") /\ job[c].pc = "go" BY <1>7, <2>3, Zenon DEF GoRestore, AtOp, At
    <3>2. ~Busy BY <1>0, <3>1, IdleFields DEF ClientPlace
    <3>3. job'[Slot].op = "restore" BY <1>1, <3>1, <3>2, ClientMoves
    <3>4. row'.state = "installed" /\ ~Live(box') BY <3>3, IdleFields DEF OneInv, TaskPlace
    <3> QED BY <1>2, <2>1, <3>2, <3>3, <3>4, WorkIs, BeginsRestore
  <2> QED BY <2>2, <2>3
<1>8. CASE Mark(c)
  <2>1. job[c].pc = "mark" /\ UNCHANGED box BY <1>8, Zenon DEF Mark, At, host
  <2>2. ~Busy /\ ~Live(box) /\ row.state # "none" BY <1>0, <2>1, IdleFields DEF ClientPlace
  <2>3. Goto(c, "spawn") /\ row'.state = "installing" BY <1>8, <2>2 DEF Mark
  <2> QED BY <1>2, <1>4, <2>1, <2>2, <2>3, Announces
<1>9. CASE SpawnInstall(c)
  <2>1. job[c].pc = "spawn" /\ Spawn(c, "install") /\ UNCHANGED <<row, box>> /\ job[c].op # "backup"
    BY <1>9 DEF SpawnInstall, AtOp, At, host
  <2>2. ~Busy /\ ~Live(box) /\ row.state = "installing" BY <1>0, <2>1, IdleFields DEF ClientPlace
  <2>3. job'[Slot].op = "install" /\ job'[Slot].pc = "begin"
    BY <1>1, <2>1, <2>2, ClientMoves DEF Moved
  <2> QED BY <1>2, <2>1, <2>2, <2>3, WorkIs, BeginsInstall
<1>10. CASE StartCreate(c) \/ StartMake(c) \/ StartFlag(c) \/ StartRun(c)
  <2>1. \/ job[c].pc \in {"create", "flag", "run"}
        \/ job[c].pc = "make" /\ job[c].op # "config"
    BY <1>10 DEF StartCreate, StartMake, StartFlag, StartRun, At, AtOp
  <2>2. ~Busy /\ ~Live(box) /\ row.state = "installed" BY <1>0, <2>1, IdleFields DEF ClientPlace
  <2>3. row'.state = row.state BY <1>10 DEF StartCreate, StartMake, StartFlag, StartRun, SetShouldRun, TypeOK
  <2>4. Finish(c) \/ \E pc : Goto(c, pc) BY <1>10 DEF StartCreate, StartMake, StartFlag, StartRun
  <2>5. Work' = Work BY <1>4, <2>4
  <2>6. CASE Live(box') BY <1>2, <2>2, <2>3, <2>5, <2>6, SwitchesOn
  <2>7. CASE ~Live(box') BY <2>2, <2>3, <2>5, <2>7, Stutters
  <2> QED BY <2>6, <2>7
<1>11. CASE Remove(c)
  <2>1. UNCHANGED row /\ box' = Absent /\ Goto(c, "drop") BY <1>0, <1>11, Zenon DEF Remove
  <2>2. ~Live(box') BY <2>1 DEF Absent, Live
  <2>3. Work' = Work BY <1>4, <2>1
  <2>4. CASE Live(box) BY <2>1, <2>2, <2>3, <2>4, SwitchesOff
  <2>5. CASE ~Live(box) BY <2>1, <2>2, <2>3, <2>5, Stutters
  <2> QED BY <2>4, <2>5
<1>12. CASE DropRow(c)
  <2>1. job[c].pc = "drop" /\ row'.state = "none" /\ UNCHANGED box /\ Finish(c)
    BY <1>12 DEF DropRow, At, host
  <2>2. ~Busy /\ ~Exists(box) /\ row.state # "none" BY <1>0, <2>1, IdleFields DEF ClientPlace
  <2>3. ~Live(box) BY <2>2 DEF Exists, Live
  <2> QED BY <1>2, <1>4, <2>1, <2>2, <2>3, Deletes
<1>13. CASE Rebuild(c) \/ RebuildMake(c)
  <2>1. UNCHANGED row /\ Work' = Work BY <1>4, <1>13, ClientRebuilds
  <2>2. CASE Live(box) /\ ~Live(box') BY <2>1, <2>2, SwitchesOff
  <2>3. CASE Live(box) <=> Live(box') BY <2>1, <2>3, Stutters
  <2> QED BY <1>13, <2>2, <2>3, ClientRebuilds
<1> QED BY <1>5, <1>6, <1>7, <1>8, <1>9, <1>10, <1>11, <1>12, <1>13 DEF Handle, StartStep

\* The steps of the task, and of the game.
LEMMA TaskPromised ==
    ASSUME NEW c, OneClient(c), TypeOK, OneInv(c), Task \/ GameExits \/ DiskFills
    PROVE  Promised
<1>0. TaskPlace /\ ~CallFails BY NothingFails DEF OneInv
<1>1. \A pc : Goto(Slot, pc) => job'[Slot].op = job[Slot].op /\ job'[Slot].pc = pc
  BY TaskMoves DEF TypeOK, JobsOK, OneInv, PanelUp, Moved
<1>2. Finish(Slot) => job'[Slot].op = "none"
  BY TaskMoves, IdleFields DEF TypeOK, JobsOK, OneInv, PanelUp
<1>3. CASE Begin
  <2>1. At(Slot, "begin") /\ UNCHANGED <<row, box>> BY <1>3, Zenon DEF Begin, host
  <2>2. row.state # "none" BY <2>1, TaskNow
  <2>3. PICK pc \in {"off", "prepare", "put", "archive"} : Goto(Slot, pc) BY <1>3, <2>2 DEF Begin
  <2>4. Work' = Work BY <1>1, <2>1, <2>3 DEF Work, At
  <2> QED BY <2>1, <2>4, Stutters
<1>4. CASE StopFlag \/ StopState \/ StopPolicy \/ StopWait
  <2>1. PICK pc \in {"off", "state", "policy", "wait"} : At(Slot, pc)
    BY <1>4 DEF StopFlag, StopState, StopPolicy, StopWait
  <2>2. job[Slot].op \in {"stop", "restart"} BY <1>0, <2>1, IdleFields DEF TaskPlace, At
  <2>3. Finish(Slot) \/ \E to : Goto(Slot, to)
    BY <1>4 DEF StopFlag, StopState, StopPolicy, StopWait, Stopped
  <2>4. Work' = Work BY <1>1, <1>2, <2>2, <2>3, WorkIs
  <2>5. row'.state = row.state
    BY <1>4 DEF StopFlag, StopState, StopPolicy, StopWait, SetShouldRun, TypeOK
  <2>6. box' = box \/ box' = NoRestart(box) \/ box' \in AfterStop(box)
    BY <1>0, <1>4 DEF StopFlag, StopState, StopPolicy, StopWait, host
  <2>7. Live(box') => Live(box)
    <3>1. box' = NoRestart(box) => box'.status = box.status BY DEF NoRestart, TypeOK, Container
    <3>2. ~Live(box) /\ box' \in AfterStop(box) => box' = box BY DEF AfterStop
    <3> QED BY <2>6, <3>1, <3>2 DEF Live
  <2>8. CASE Live(box) /\ ~Live(box') BY <2>4, <2>5, <2>8, SwitchesOff
  <2>9. CASE Live(box) <=> Live(box') BY <2>4, <2>5, <2>9, Stutters
  <2> QED BY <2>7, <2>8, <2>9
<1>5. CASE StartCreate(Slot) \/ StartMake(Slot) \/ StartFlag(Slot) \/ StartRun(Slot)
  <2>1. \/ job[Slot].pc \in {"create", "flag", "run"}
        \/ job[Slot].pc = "make" /\ job[Slot].op # "install"
    BY <1>5 DEF StartCreate, StartMake, StartFlag, StartRun, At, AtOp
  <2>2. job[Slot].op = "restart" /\ row.state = "installed" /\ ~Live(box)
    BY <1>0, <2>1, IdleFields DEF TaskPlace
  <2>3. row'.state = row.state BY <1>5 DEF StartCreate, StartMake, StartFlag, StartRun, SetShouldRun, TypeOK
  <2>4. Finish(Slot) \/ \E pc : Goto(Slot, pc) BY <1>5 DEF StartCreate, StartMake, StartFlag, StartRun
  <2>5. Work = "none" /\ Work' = "none" BY <1>1, <1>2, <2>2, <2>4, WorkIs
  <2>6. CASE Live(box') BY <2>2, <2>3, <2>5, <2>6, SwitchesOn
  <2>7. CASE ~Live(box') BY <2>2, <2>3, <2>5, <2>7, Stutters
  <2> QED BY <2>6, <2>7
<1>6. CASE InstallPrepare \/ InstallBuild \/ InstallMake
  <2>1. /\ job[Slot].pc \in {"prepare", "build", "make"}
        /\ job[Slot].pc = "make" => job[Slot].op = "install"
    BY <1>6 DEF InstallPrepare, InstallBuild, InstallMake, At, AtOp
  <2>2. job[Slot].op = "install" /\ ~Live(box) /\ (job[Slot].pc = "make" => ~Exists(box))
    BY <1>0, <2>1, IdleFields DEF TaskPlace
  <2>3. /\ UNCHANGED row /\ (box' = box \/ box' \in {Absent, Made(box)})
        /\ \E pc \in {"build", "make", "done"} : Goto(Slot, pc)
    BY <1>0, <1>6, <2>2
       DEF InstallPrepare, InstallBuild, InstallMake, RemoveOk, RemoveFails, CreateOk, CreateFails, At, AtOp
  <2>4. ~Live(box') BY <2>2, <2>3 DEF Absent, Made, Fresh, Live
  <2>5. Work = "install" /\ Work' = "install" BY <1>1, <2>1, <2>2, <2>3, WorkIs
  <2> QED BY <2>2, <2>3, <2>4, <2>5, Stutters
<1>7. CASE InstallDone
  <2>1. job[Slot].pc = "done" /\ Goto(Slot, "end") /\ UNCHANGED box /\ row' = SetState("installed")
    BY <1>7, Zenon DEF InstallDone, At, host
  <2>2. job[Slot].op = "install" /\ ~Live(box) /\ row.state = "installing"
    BY <1>0, <2>1, IdleFields DEF TaskPlace
  <2>3. row'.state = "installed" BY <2>1, <2>2 DEF SetState, TypeOK
  <2>4. Work = "install" /\ Work' = "none" BY <1>1, <2>1, <2>2, WorkIs
  <2> QED BY <2>1, <2>2, <2>3, <2>4, EndsInstall
<1>8. CASE InstallEnd
  <2>1. job[Slot].pc = "end" /\ Finish(Slot) /\ UNCHANGED <<row, box>>
    BY <1>8, Zenon DEF InstallEnd, At, host
  <2>2. job[Slot].op = "install" BY <1>0, <2>1, IdleFields DEF TaskPlace
  <2>3. Work = "none" /\ Work' = "none" BY <1>2, <2>1, <2>2, WorkIs
  <2> QED BY <2>1, <2>3, Stutters
<1>9. CASE RestorePut
  <2>1. job[Slot].pc = "put" /\ Finish(Slot) /\ UNCHANGED <<row, box>>
    BY <1>9, Zenon DEF RestorePut, At, host
  <2>2. job[Slot].op = "restore" /\ ~Live(box) BY <1>0, <2>1, IdleFields DEF TaskPlace
  <2>3. Work = "restore" /\ Work' = "none" BY <1>2, <2>1, <2>2, WorkIs
  <2> QED BY <2>1, <2>2, <2>3, EndsRestore
<1>10. CASE BackupArchive
  <2>1. job[Slot].pc = "archive" /\ Finish(Slot) /\ UNCHANGED <<row, box>>
    BY <1>10, Zenon DEF BackupArchive, At, host
  <2>2. job[Slot].op = "backup" BY <1>0, <2>1, IdleFields DEF TaskPlace
  <2>3. Work = "none" /\ Work' = "none" BY <1>2, <2>1, <2>2, WorkIs
  <2> QED BY <2>1, <2>3, Stutters
<1>11. CASE Cancelled
  <2>1. /\ Busy /\ Finish(Slot)
        /\ row'.state = (IF job[Slot].op = "install" /\ job[Slot].pc # "begin"
                         THEN "install_failed" ELSE row.state)
    BY <1>11, TaskIsCancelled
  <2>2. Work' = "none" BY <1>2, <2>1, WorkIs
  <2>3. \/ UNCHANGED box
        \/ job[Slot].pc \in {"create", "build", "make"} /\ box' \in {Fresh, Absent}
        \/ job[Slot].pc = "run" /\ box' = Started(box)
        \/ job[Slot].pc = "wait" /\ box' \in AfterStop(box)
    BY <1>11 DEF Cancelled, Made
  <2>4. ~Live(Fresh) /\ ~Live(Absent) BY DEF Fresh, Absent, Live
  <2>5. CASE job[Slot].op = "install"
    <3>1. ~Live(box) /\ (job[Slot].pc = "end" => row.state = "installed")
      BY <1>0, <2>5, IdleFields DEF TaskPlace
    <3>2. ~Live(box') BY <1>0, <2>3, <2>4, <2>5, <3>1, IdleFields DEF TaskPlace
    <3>3. CASE job[Slot].pc = "begin"
      <4>1. Work = "install" BY <2>5, <3>3, WorkIs
      <4> QED BY <2>1, <2>2, <3>1, <3>2, <3>3, <4>1, GivesUpInstall
    <3>4. CASE job[Slot].pc = "end"
      <4>1. Work = "none" BY <2>5, <3>4, WorkIs
      <4> QED BY <2>1, <2>2, <2>5, <3>1, <3>2, <3>4, <4>1, GivesUpInstall
    <3>5. CASE job[Slot].pc \notin {"begin", "end"}
      <4>1. Work = "install" BY <2>5, <3>5, WorkIs
      <4> QED BY <2>1, <2>2, <2>5, <3>1, <3>2, <3>5, <4>1, EndsInstall
    <3> QED BY <3>3, <3>4, <3>5
  <2>6. CASE job[Slot].op = "restore"
    <3>1. ~Live(box) /\ job[Slot].pc \in {"begin", "put"} BY <1>0, <2>6, IdleFields DEF TaskPlace
    <3>2. Work = "restore" /\ box' = box /\ row'.state = row.state BY <2>1, <2>3, <2>6, <3>1, WorkIs
    <3> QED BY <2>2, <3>1, <3>2, EndsRestore
  <2>7. CASE job[Slot].op \notin {"install", "restore"}
    <3>1. Work = "none" /\ row'.state = row.state BY <2>1, <2>7, WorkIs
    <3>2. row.state = "installed" BY <1>0, <2>1, <2>7 DEF TaskPlace, Busy
    <3>3. CASE Live(box) /\ ~Live(box') BY <2>2, <3>1, <3>3, SwitchesOff
    <3>4. CASE ~Live(box) /\ Live(box') BY <2>2, <3>1, <3>2, <3>4, SwitchesOn
    <3>5. CASE Live(box) <=> Live(box') BY <2>2, <3>1, <3>5, Stutters
    <3> QED BY <3>3, <3>4, <3>5
  <2> QED BY <2>5, <2>6, <2>7
<1>12. CASE GameExits \/ DiskFills
  <2>1. UNCHANGED <<row, job>> /\ (box' = box \/ Live(box)) BY <1>12, GameGoes DEF GameExits, DiskFills
  <2>2. Work' = Work BY <2>1 DEF Work
  <2>3. CASE Live(box) /\ ~Live(box') BY <2>1, <2>2, <2>3, SwitchesOff
  <2>4. CASE Live(box) <=> Live(box') BY <2>1, <2>2, <2>4, Stutters
  <2> QED BY <2>1, <2>3, <2>4
<1> QED BY <1>3, <1>4, <1>5, <1>6, <1>7, <1>8, <1>9, <1>10, <1>11, <1>12 DEF Task

\* The manager, its requests, its task, its flags and its calls to Docker implement
\* PromisedServer: a server is installed, switched, restored and deleted one at a time.
THEOREM PromiseIsKept ==
    ASSUME NEW c, OneClient(c)
    PROVE  Spec => KeepsPromise
<1>1. Init => Promise!Init
  <2> SUFFICES ASSUME Init PROVE Promise!Init OBVIOUS
  <2>1. job[Slot] = Idle BY ActorsAssumption DEF Init, Actors, Handlers
  <2>2. Work = "none" BY <2>1, IdleFields, WorkIs
  <2>3. row.state = "pending" /\ ~Live(box) BY DEF Init, Absent, Live
  <2> QED BY <2>2, <2>3 DEF Promise!Init
<1>2. TypeOK /\ OneInv(c) /\ OneInv(c)' /\ [Next]_vars => [Promise!Next]_(Promise!vars)
  <2> SUFFICES ASSUME TypeOK, OneInv(c), OneInv(c)', [Next]_vars PROVE Promised BY DEF Promised
  <2>1. CASE Next BY <2>1, OnlyTheseSteps, ClientPromised, TaskPromised
  <2>2. CASE UNCHANGED vars
    <3>1. UNCHANGED <<row, box, job>> BY <2>2 DEF vars
    <3>2. Work' = Work BY <3>1 DEF Work
    <3> QED BY <3>1, <3>2, Stutters
  <2> QED BY <2>1, <2>2
<1> QED BY <1>1, <1>2, OneAlways, PTL DEF Spec, KeepsPromise, Promise!Spec
================================================================================
