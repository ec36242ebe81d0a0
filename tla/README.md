# PossumDocker: TLA+ models, checks and proofs

PossumDocker runs game servers on one machine. A *panel* (`panel/app`, Python, one asyncio process with an
SQLite database) decides; an *agent* (`agent`, Go) is the only program that talks to Docker. The code under
`src/` is the reference: each definition here is translated from it, and `PROJECT.json` names the lines. For
development the panel has a runtime of its own that talks to Docker directly (`runtime/docker.py`,
`runtime/docker_files.py`) and is kept in step with the agent (`docker.py:37`, `runtime.go:117`).
`GameContainer` and `VolumeFiles` stand for both and name the lines of the Python one; `FileHelper` is the agent's.

## 1. Inventory

| Component | State it keeps | Operations that change it | Talks to |
|---|---|---|---|
| Server manager (`runtime/manager.py`) | `_tasks`, `_stopping`, `_restoring`, `disk_errors`, install logs; the `servers` and `backups` rows | install, start, stop, restart, restore, backup, delete, recover, shutdown, `_resume`, disk watcher | database, agent, scheduler, API |
| Servers API (`api/servers.py`) | none of its own; SQLAlchemy objects that live as long as a request | create, update, start, stop, restart, reinstall, delete | manager, ports, validation |
| Backups (`manager.py`, `api/backups.py`) | `backups` rows, archive files | create, prune, restore, delete | agent's files |
| Scheduler (`runtime/scheduler.py`, `api/schedules.py`) | `schedules` rows, one loop | tick, skip_missed, create, edit, delete, run now | manager |
| Agent runtime (`agent/internal/runtime`) | Docker containers, volumes, networks | Create, Start, Stop, Remove, install step | Docker |
| Agent files (`agent/internal/files`) | helper containers, `lastUsed`, per-server locks | helper, ReapIdle, Close, read, write, restore, archive | Docker |
| Panel files (`api/files.py`) | the data volume through the agent | upload, move, unpack, delete | agent, disk limit |
| Console (`runtime/console.py`, `api/console.py`) | position in the log | follow, send | agent |
| Ports (`runtime/ports.py`) | `servers.ports` | allocate | database, agent |
| Users (`api/users.py`, `api/auth.py`, `core/auth.py`, `cli.py`) | users, sessions, access, failed logins | log in and out, edit, delete, grant | database |
| Games (`games/*`, `runtime/spec.py`) | templates loaded at start, cached options | validate values, build a container spec | providers |
| Config files (`games/configs.py`, `api/configs.py`) | files in the volume | read, edit keys | agent |
| Web interface, Docker client, settings, migrations, templates | - | - | - |

What is hard here:

- **Interleaving.** Every `await` in the panel lets other coroutines in. A handler reads the row, the status or
  the busy flag and uses it one or more awaits later. Only operations with a background task (`_spawn`) exclude
  each other; `start` is not one of them.
- **Failure between steps.** Database, memory and Docker are changed one after the other; any call to the agent
  may fail, before or after its effect.
- **Crash and restart.** The panel's memory goes, containers go on; a reboot takes the containers down too.
- **Cancellation.** `delete` cancels the task wherever it is, also before its first step.
- **Hosts with other writers.** The game and the file manager write the files the panel changes; other programs
  take ports; a helper container is shared by requests and taken away by a reaper.
- **Time.** Retries while the agent starts, a game that ignores its stop command, minute ticks, idle helpers.

## 2. Modules

| Module | What it is |
|---|---|
| `GameContainer` | A server's container as a record, and what one call of a runtime or Docker itself does to it. |
| `ServerManager` | The manager for one server: requests, background task, resumer, row, flags, container, volume, failures. |
| `PromisedServer` | What the manager promises, without requests, flags, tasks or Docker. `ServerManager` implements it. |
| `BackupStore` | The backups of one server: rows, archive files, the task that makes one, pruning, cancellation, recovery. |
| `Scheduler` | The loop of the schedules and the requests that create, change, delete and run them. |
| `FileHelper` | The helper container of one server's files: its mutex, its users, the reaper, the removal of the server. |
| `VolumeFiles` | What file requests do to one server's volume, within a disk limit. |
| `ServerSettings` | Values and host ports of servers: creating, editing, deleting; the algorithms of both as operators. |
| `ConfigFiles` | A config file by lines or in JSON, read, changed and written as a whole beside the game. |
| `Access` | Users, sessions and grants, and the terminal command that makes administrators. |
| `MC...` | The module of that name with what TLC needs: symmetry, and constants a `.cfg` cannot write. |
| `ServerManagerProofs`, `BackupStoreProofs`, `SchedulerProofs`, `AccessProofs`, `FileHelperProofs`, `VolumeFilesProofs`, `ServerSettingsProofs`, `ConfigFilesProofs` | TLAPS theorems about the module of that name, section 4. |

How they fit together: `ServerManager` owns the slot that only one task of a server has, and `BackupStore` looks into
the one task there that makes a backup (the others are `"other"`, which keep it out). `Scheduler` decides when the
manager is asked, `ServerManager` has such a call as one more request. `Access` decides who may ask. `ServerSettings`
decides with what a server is made, which its life cycle does not depend on. `VolumeFiles` and `ConfigFiles` use the
helper whose life is `FileHelper`; there a helper that goes away is an error, here it is a command that fails.

In all of them an action is what one coroutine does from one `await` to the next, or one call of Docker; reads with
nothing decided between them are one action with what they decide.

### ServerManager

Everything the manager keeps is keyed by the server's id and no operation reads another server's entry, so one
server is modelled.

| In the code | In `ServerManager` |
|---|---|
| `Server` row: `state`, `should_run`; deleted | `row.state`, `row.shouldRun`; state `"none"` |
| `_tasks[id]` and where its coroutine is | `job[Slot]`, `Idle` when there is none |
| a request, a due schedule, a round of the disk watcher | `job[a]`, `a \in Reqs` |
| `_resume` | `job[Resumer]`, `attempts` |
| `_stopping`, `_restoring`, `disk_errors` | `stopping`, `restoring`, `diskError` |
| the object a request loaded, the status it was told | `job[a].snap`, `job[a].seen` |
| `Task.cancel()` not yet delivered | `job[Slot].cancelled` |
| container, volume, disk usage over the limit | `box`, `volume`, `full` |
| `ServerBusy`, `RuntimeUnavailable`, HTTP errors | the coroutine ends (`Finish`) |

A call of the runtime that is several of Docker has a step for each that others can tell apart: `Stop` is `StopPolicy` and `StopWait`; `Create`
(`docker.py:194`, `runtime.go:293`) removes what has the name by force (`RemoveOk`, in `StartCreate`, `Rebuild`, `InstallBuild`) and then makes the container
(`CreateOk`, in `StartMake`, `RebuildMake`, `InstallMake`), unless another one has taken the name since. Between the two there is no container, and a request for the settings, which has no
busy check (`_ensure_container`, `manager.py:430`), finds none and makes one of its own, in place of a game that a restart
has brought up by then. The ghost `crossed` marks that such a request has found none.

Abstractions, each on the side of more behaviours or of none that differ: health checks (`starting` and
`running` are both "up"); `paused`, which nothing in the code causes; exit codes as zero and not zero; a call
that fails has its effect or not; the stale `server` object of a restart matters only by its state.

### BackupStore

| In the code | In `BackupStore` |
|---|---|
| `Backup` rows by `created_at`: `status`, `schedule_id`, `size` | `rows[b]`: `status`, `op` (made by hand or by the one schedule), `size` |
| `<backups>/<server>/<id>.tar.gz` | `files[b]`: `"none"`, `"partial"`, `"whole"` |
| a `POST`, `DELETE` or due schedule | `req[a]`; `used` is the sum it has read |
| `_tasks[id]` inside `_backup`, `_prune_backups` | `task`; `olds` and `left` are the rows and files to prune |
| the commands before and after (`save-off`, `save-on`) | `saves` |
| `CancelledError` at whatever is awaited | `Cancelled`, `Shutdown` through `Interrupted` |

What an archive comes to (`Sizes`) is known when it is done (`FinishBackup`), so a backup that was let in with some room left may overrun the limit, as in
`tests/test_storage.py:92`; `WithinLimit` says that none but the last does: what is older than any archive is below the limit. `thinned` is history:
one of a schedule's backups was deleted while it made another. One schedule has one `keep`; a server without a limit, and a limit that is changed, are left out. A commit and the coroutine's next step are two steps (`FinishBackup`, `End`): a cancellation can come between.

### Scheduler

| In the code | In `Scheduler` |
|---|---|
| `Schedule` rows: cron, action, `enabled`, `next_run_at` | `rows[s]`; cron `n` is every n-th minute, `next = 0` is no time |
| `_loop` between its awaits: `skip_missed`, sleep, `tick`, the objects its session holds | `loop.pc`, `loop.wake`, `loop.due`, `loop.left`, `loop.held` |
| a request and the object it loaded, the columns it set | `req[a]`, `req[a].held`, `req[a].change` |
| `db.commit()`: only changed columns; `StaleDataError` when a row is gone | `Merged`; the whole commit fails (`TickCommit`, `SkipCommit`) |
| an exception in `skip_missed`, which is outside the `try` of the loop | `loop.pc = "dead"` |

The second server of a tick is read by the session that has changed the first schedule, and a session writes what it has changed before it
reads (SQLAlchemy's autoflush): `Execute` with `flush`, which `ExecuteFails` when that row is gone. From there on the tick holds SQLite's write lock (`loop.locks`): other
commits wait for it (`busy_timeout`, `db.py:36`) or, as an update may, fail. `flush` is a choice, since a server the session holds already is not read again.
`ran` and `unsaved` are history: due times that were run, and those of them run by a tick that was lost. `MaxTime` stands for all minutes from then on.

The result of an execution (`ok`, `skipped`, `failed`) is left out, as is what it does to the server; so is that an execution which has to commit while its own
tick holds the lock fails with `database is locked`, which `execute` turns into `failed`. Deleting a
server deletes its schedules by cascade, which looks like a delete to the loop. The loop is assumed to wake within the minute
it asked for (`Minute` waits for it): a tick may last longer, a sleep not. At the grain of minutes the `<` of
`skip_missed` is a `<=` on the minute before. Two `PUT`s of one schedule at once can leave it enabled with no
time, which is why the run has one request beside the loop.

### FileHelper

| In the code | In `FileHelper` |
|---|---|
| the container `<server>-files` | `helper`: which one, and `"none"`, `"created"` or `"running"` |
| `locks[server]`, held from `inspect` to `start` | `lock` |
| `lastUsed[server]`, as an age | `lastUsed`, `Unknown` when the map has none |
| a request: waiting, making the helper, in a command; whether it streams (`touch` on each read) | `req[a].pc`, `kind`, `silent` |
| `ReapIdle`: list under the mutex, remove after it | `reaper`: `"wait"`, `"close"`, `"remove"` |
| `Runtime.Remove`: `Close`, remove the container, the volume | `removal` |

`beside` and `untracked` are history: a request was there during a removal; the agent forgot a helper that stays. The
panel's direct runtime has the same helper in Python, with the same lock; there `_exec_stream` never looks at the exit code of the
command, which the model does not tell apart, a helper that went before it was started is made once more, and a command is started in
the container that was found and not by its name.

### VolumeFiles

| In the code | In `VolumeFiles` |
|---|---|
| what is in the volume | `tree[path]`: kind, owner, size, content (which request wrote it) |
| `resolve` on both sides | `Resolve` |
| `require_space`, then each command of a request | `req[a].pc`: `"space"`, `"check"`, `"do"`, `"unzip"`, `"chown"`, `"disk"`, `"clean"` |
| `du`, which counts blocks | the sum of the sizes, plus up to `Slack` |
| `mkdir`, `mv -n`, `cp`, `rm -rf`, `unzip`, Docker's unpacking | external: `Move`, `Copied` and the like by what they do |

It stands for `files.go` and for `docker_files.py`, which run the same commands in the same order. What the commands really do is
kept: `mv -n` leaves a file that is in the way and says nothing; `mkdir -p` by two requests can leave a folder with root; the
clean-up after an archive that was too big removes what others put into its folder. Not modelled: the size limit of
texts, which names are valid, hard links, and the game's own writing.

Paths have at most `MaxDepth` names, and `Picks` are the lists of raw paths a move or a copy may be given (a request may pick any number of
them). `LimitAssumption` says that the limit is at least the two units that are there at first. `Doubled` is a copy that picks a folder and
something in it: `du` counts that once, as its comment says (`files.go:606`: "Something counted twice (a folder and a file inside
it) counts once"), and `cp` copies it twice. So such a copy takes the volume over its limit although nobody was beside it, where `manager.py:213` says
"Refuse a write of `adding` bytes that would take the server over its disk limit". `together` marks these too, and `OneAtATime` leaves them out.

### ServerSettings

`servers[i]` are the `values` and `ports` of a row. `create_server` validates (`AskCreate`), reads the ports of the other
servers (`Look`), asks for those of other programs and inserts (`Insert`); `update_server` validates against the row it read (`AskUpdate`) and
commits (`Update`). `Ports` and `Fields` are the template, in its order. `Allocate`
is `allocate_ports` as a fold over the groups (ports that follow another one move with it, `RootOf` is the one they follow in the end); `Validate` is the validation of all values as a fold over the fields, with visibility, defaults, hidden secrets and choices that depend on an earlier field. Two
ghosts name what was not noticed: `missed` (a server took its ports by a look at the others that had changed), `crossed` (an
edit wrote values that were no longer the row's). Left out: lengths, patterns and ranges of values, resource limits,
the effect of an edit on the container (in `ServerManager` as `update`), and an edit that blanks a field. `SourcesAssumption`
says that dynamic choices depend only on fields that cannot be edited, which is so in every template of the repository.

### ConfigFiles

A file is a sequence of lines `[key, value, kind, raw]`; comments and the like have no key. `raw` tells that a line
still has the form the game gave it. `Pieces` gives the lines `str.splitlines` makes of a text the game takes for one, and `Alone`
the setting and the text that such a piece is by itself: the panel parses each piece (`configs.py:37`), so the rest of a text can be a setting, also one of its own, and is
one for the game as well once the panel has written the file. The
read, the change and the write of a request are separate; the server's state and the container a write needs are merged with the
read and with `Fails`. Left out: encodings and escapes, and JSON numbers with a point.

### Access

| In the code | In `Access` |
|---|---|
| `User` rows: `is_admin`, `disabled`, the password's hash | `users[u]`: `admin`, `disabled`, a number that tells passwords apart (`last` is the newest given), `old` when the hash needs to be made anew |
| `UserSession` rows with `expires_at` | `sessions[i]`: its user, the time it has left; history: the password, `late` |
| `ServerAccess` rows on one server | `access[u]` |
| a handler at an `await`: hashing, counting, committing | `req[a].pc` |
| `cli.py`, a process of its own: the row and the sessions it read, the columns it changes | `cli`, `CliRead`, `CliSessions`, `CliCommit` |
| a release with other parameters for the hashes | `Upgrade`: the panel starts again, the hashes are `old` |

A login whose hash is `old` writes the password it has checked with the session it opens (`auth.py:59`, `Rehashed`), also over one that was set meanwhile; `late` marks
the session of a login that crossed a change, and those of others when the password is put back.

The operations `promote` and `enable` are there and the runs leave them out for their size, as `access` leaves out `demote`: `create` and the command make
administrators, the command enables, and `disable` takes rights by the same count. `LoginThrottle` is not modelled. Names are ids: that the command matches a name by case
(`cli.py:62`) and the API does not (`users.py:89`) cannot be seen here.

## 3. Runs

All runs have `CHECK_DEADLOCK FALSE`: a panel nobody asks anything, with its events used up, rests.

| Run | Instance | What it shows |
|---|---|---|
| `server_events` | 2 requests, 5 operations, 1 failure, lost container or restart of the panel | The flags tell what the task does; deleted stays deleted. |
| `server_one` | 1 request, all operations but update, 3 events of games and disks | Safety of an unhurried panel, and the refinement of `PromisedServer`. |
| `server_live` | 1 request, lifecycle, 3 reboots, panel deaths or late agents | Tasks, installs and deletes end; wanted servers come back. |
| `backups` | 1 request, all operations, 6 kinds of failure one at a time, 3 backups of size 1 or 2, limit 2, keep 2 | Rows and archives in step; none but the last overruns the limit; the number is kept; saving on again; backups settle. |
| `backups_together` | 2 requests, no failures, 3 backups of size 1 or 2, keep 1 | Making, deleting and pruning at once leave every ready backup its file. |
| `scheduler` | 2 schedules, 1 request, minutes 0 to 2, the panel ends once | A due time is run again only when its tick was lost, none missed is replayed, what is due does not stay due. |
| `access` | 2 users, 2 requests and the command, 8 operations, 2 sessions, 2 passwords | Rights that are taken are gone in every session; nothing stays of the deleted. |
| `helper` | 2 requests in all, streams and restores, any idle time is too long, 1 failure, restart or removal | One maker, no wait for ever, no sign of life ignored, no helper left. |
| `files` | 2 requests, all 8 operations, 4 names up to three deep, picks of one and two sources, limit 3, 1 command that fails | Paths stay in the volume; nothing overwritten unasked; limit and owner kept. |
| `settings` | 3 servers, 4 ports in 3 groups, 6 fields, 2 requests, 4 in all | Ports apart, values fit, locked fields stay. |
| `configs` | 2 requests, 4 in all, 2 writes of the game, lines that are split | Only what was asked for changes in what was read, and the game finds it. |
| `admins_gone` | 2 requests, login, create, demote | Violation: two administrators demote each other. |

**The bounds.** Two requests are the least that can interleave, and every conflict found needs two; one request
already interleaves with the task, the resumer, the loop and the game. `MaxEvents` bounds failures, deaths and crashes, not steps: between
them any number of requests runs, one after the other. `ResumeAttempts` is 12 in the code; with 2 and three events of
`server_live` the host can come up while the agent is late once, in time for the resumer, or twice, when it gives up.
Three backups with `Limit = 2` leave room after one of size 1, fill it, overrun it by the last, refuse one, and with `Keep` prune one and leave one made by hand beside
them; each kind of event happens at every step where it can, also with the backup that is the first to be pruned. Minutes 0 to 2
let a schedule come due while the panel is down, be skipped, come due again while a tick is at work, and run; the last minute stands for all later ones, so that a
schedule which is due in it again is run again. Two users
are two administrators, or one and somebody else. With `IdleAfter = 0` the reaper may act whenever time has passed since the last
use. Names at two and three depths with an archive and its folder give every file operation a source, a destination that is
there, one that is not, and one inside the source. In `settings` three servers exhaust the search for a group (`SearchLimit = 4`)
beside a port of another program; in `configs` every kind of line, a setting that is there twice and one the panel's `splitlines` splits
are among what the game may write.

**What a property leaves out is written in it**, as a named condition: the code does break the strict form there.

- `BackupStore` (`Spared`): after a pruning that failed, a shutdown or a crash there are ready rows without files
  (`ReadyHasFile`); a task cut off before it pruned leaves its schedule one more (`NewestKept`), and after a crash that one is over
  the limit too (`WithinLimit`), as are earlier archives when one of the schedule's was deleted while it made another (`thinned`); a delete whose `remove` fails leaves the row of the backup it cancelled (`CreatingIsReal`,
  `BackupsSettle`); a command that fails, or a cancellation before the archive begins, leaves saving off (`SavesAgain`).
- `ServerManager`: `crossed` in `WantedWasStarted` and `NoLiveReplaced` (a request for settings has found no container while it was replaced).
- `Scheduler`: `unsaved` in `RunsAgainOnlyUnsaved` (the tick that ran the due time failed, as another schedule of it had been deleted).
- `Access`: `stale` in `AnAdministrator` (an administrator went by a count that had changed, or by none); `late` in `OwnPassword` and
  `NoneDisabled` (a login that checked the password before the user was changed and opens its session after, or puts that password back).
- `FileHelper`: `beside` in `RemovedWhole`, `untracked` in `IdleGoes`, `after` in `ReapsTheSilent`.
- `VolumeFiles`: `together` (two requests at once, or a copy that is `Doubled`) and `fails` in `OneAtATime`. `NothingOverwritten` has none of it.
- `ServerSettings`: `missed` in `PortsUnlessMissed`, `crossed` in `RestUnlessCrossed`.
- `ConfigFiles`: files with a line the panel takes for two, in `OthersStay`; `StrangersKept` says of them what the panel read, not what the game did.

**Fairness.** `server_live` and `backups`: a coroutine that can go on does (the event loop is fair), calls to the agent
return (both sides have timeouts), and a panel that ended is started again (`restart: unless-stopped` in
`docker-compose.yml`). `scheduler`: the loop goes on, minutes pass, the panel is started again. `helper`: Docker
answers, commands end, the reaper's ticker ticks and time passes. No request, failure or crash is assumed anywhere.

**Where the code breaks what its documents say.** `admins_gone` is such a run and a finding in `PROJECT.json`: `update_user` counts the
active administrators and commits after an `await`, so two who demote each other both count two (`users.py:115`: "there must
be at least one active administrator"). With the same modules and other constants TLC shows more, each checked while
the modules were written:

| Module | Constants | Property | What the code does |
|---|---|---|---|
| `ServerManager` | 2 requests, `{start}` | `NoLiveReplaced` | Two starts; the second removes by force the container the first one started. |
| | 2 requests, `{start, restore}` | `ExclusiveFiles` | A restore begins while a start is on its way: files are replaced under a live game. |
| | 2 requests, `{reinstall}` | `InstallingIsReal` | Two reinstalls; the row says installing after the only task ended. |
| | 1 request, `{start, restart}`, `panelDies` | `LiveIsWanted` | A panel that ends inside a restart leaves a running game that is not wanted. |
| | 1 request, `{start, restart, config}` | `NoLiveReplaced`, `WantedWasStarted` without `crossed` | A request for settings finds no container during a restart, and its own takes the place of the game that came up. |
| | 1 request, `{start, restart, update}` | `ExclusiveFiles` | A change that reinstalls the game passes during a restart. |
| | 1 request, `{start, reinstall}`, `callFails` | `ExclusiveFiles` | A status call that fails lets a reinstall pass. |
| | 2 requests, `{start, stop}` | `LiveIsWanted` | A stop between the halves of a start leaves a live game that is not wanted. |
| | 2 requests, `{start, delete}` | `DeletedLeavesNothing` | A start beside a delete leaves a container or a volume. |
| | 1 request, `{restore, delete}`, `callFails` | `RestoringIsReal` | A delete that fails just after a restore was spawned leaves the server restoring. |
| | 1 request, `{start, backup}`, `reboot`, `FairSpec` | `BackAfterReboot` | A backup requested after a reboot keeps the server down. |
| `BackupStore` | 2 requests, `{create}`, `FairSpec` | `BackupsSettle` | Two backups asked for at once; the row of the refused one is creating for ever. |
| | 1 request, `{create}`, `shutdown` | `Restorable` | A shutdown just after READY unlinks the archive and leaves the row ready. |
| | 2 requests, `{create, delete}` | `NoLostFiles` | A backup asked for while the server is deleted leaves an archive no row names. |
| | 1 request, `{create, schedule, remove}`, keep 2, limit 4, 4 backups of size 1 or 2 | `WithinLimit` without `thinned` | A backup the schedule was to keep is deleted while it makes one: larger ones stay in its place, and the limit is overrun by more than the last. |
| `Scheduler` | those of `scheduler` | `RunsAgainOnlyUnsaved` without `unsaved` | Two schedules are due and one is deleted during the tick: its commit fails as a whole, and the other one's due time is run again a minute later. |
| `Access` | those of `access` | `OwnPassword` for the other sessions when a login puts a password back | A login whose hash is made anew commits after a new password was set: the old one is back (`auth.py:59`), and the new one's sessions do not fit it. |
| `FileHelper` | `Kinds = {"run"}`, `IdleAfter = 1`, no events, `FairSpec` | `IdleHelperGoes` | The reaper forgets a helper that a request marked as used and then waits for: it stays. |
| `ServerSettings` | those of `settings` | `PortsApart` | Two servers created at once get the same host port. |
| | those of `settings` | `RestKept` | All values are one column: an edit undoes one committed since it read the row. |
| `VolumeFiles` | those of `files`, without `Doubled` in `together` | `OneAtATime` | A folder is copied together with a file in it: measured once, copied twice, over the limit. |
| `ConfigFiles` | those of `configs` | `OthersAlwaysStay` | `splitlines` splits at more characters than the game (form feed, U+2028): `configs.py:19` says "Only what changed is rewritten: comments, order and unknown keys stay." |
| | those of `configs` | `StrangersAlwaysKept` | The rest of a split line is a setting by itself once it is written, also one of the panel's own: `configs.py:226` says "New keys may only be ones the template describes." |
| | those of `configs` | `OnlyTheGiven` | What the game writes between the read and the write is lost: `api/configs.py:107` says "Changes only the given keys." |

In `Scheduler` one also reads off `SkipCommit` that a schedule deleted while `skip_missed` works ends the loop, which nothing starts again
before the panel itself is.

Some properties are conjunctions of named parts, one question each: `FlagsShown`, `LiveAsWanted`, `ShownIsReal`, `WorkEnds`
(`ServerManager`), `RowsAndFiles`, `RoomKept` (`BackupStore`), `EachOnce`, `SessionsFit`, `OneAtATime`, `RowsFit`, `OnlyWhatWasAsked`. The
types of all modules are proved (section 4; those of `ServerSettings` are a part of `RowsFit`).

Each property of a passing run has a mutant: a definition with a plausible bug, next to the one it replaces in
the module, under which TLC finds that property violated.

## 4. Proofs

For every value of the constants that fulfils the modules' named assumptions: any set of requests, operations, events, any
bound. TLC evaluates these assumptions on every run.

**Induction.** Three modules are folds over sequences, sums over sets or recursive functions: the groups of ports and the fields of a template, the lines of a
file, the sources of a move, the bytes of a folder. Library theorems of induction take an operator as a parameter and cannot be used. What can be: a set of numbers that
is not empty has a least element (`WFMin` with `NatLessThanWellFounded`), which gives `AllTheWay`, induction on the membership of a set. `Stages` says that a
function which does given steps one after the other exists, `StageByStage` that the function a fold is defined by (a `CHOOSE`) is one; with them the fold of the community
modules is unfolded to a history of its intermediate values, and a statement about the result is proved along it. `BySize` does the same for finite sets by their size, and `SumAdds`
shows that a sum may begin with any of the elements. These first lemmas are the same in `ServerSettingsProofs`, `ConfigFilesProofs` and `VolumeFilesProofs`, each
of which can be read alone.

`ServerManagerProofs`:

- `TypeCorrect`: `Spec => []TypeOK`. One lemma per family of actions, each for an arbitrary actor.
- `StoppingAlwaysShown`: `Spec => []StoppingShown`. Inductive together with `TypeOK`: the task is the only
  coroutine that is ever at `off`, `state`, `policy` or `wait` with `stop` or `restart` as its operation, and every
  way out of those passes `Stopped`, `Cancelled` or `Down`.
- `RestoreAlwaysFlagged`: `Spec => []RestoreFlagged`, and with it `FlagsAlwaysShown`: `Spec => []FlagsShown`.
- `DeletionIsFinal`: `Spec => DeletedForGood`.

The second half of `ServerManagerProofs` is under `OneClient(c)`: `c` is the only request, `update` is not among the operations, and what happens around
the panel is games that exit (or are restarted by Docker) and disks that fill. The table of section 3 shows what fails without each of these hypotheses: with two requests every one of the properties,
with an `update`, a failing call or a panel that dies some; a container removed by somebody else leaves a wanted server without one. Any bound
on events is allowed, and any subset of the other operations.

- `OneAlways`: the invariant. None of the properties is inductive: that a restore finds the game down depends on what its request
  loaded and was told awaits ago. `OneInv` says where the two coroutines can be and what is so there. `TaskPlace`: at each
  place of the task, the state of the row and whether the game is down. `ClientPlace`: from the check that no task runs up to its own
  spawn a request has no task beside it; and `Loaded`, the heart of it: what a request has loaded is still
  so, or the game is down and the only task there may be is an install, which does not bring it up, or the request
  is one for settings that has found no container (`crossed`). `ServerPlace`, `WantedPlace` and `FlagPlace`: who is about to bring row, container,
  `should_run`, flags and volume in line whenever they are not. TLC checked `OneInv` on the instance of `server_one` first. One lemma for each family
  of steps; `ClientFrame`, `TaskFrame` and `TaskKeeps` say once what a step that leaves the server alone, or the other coroutine, need not show again.
- `RunsAsWanted`, `FilesAreExclusive`, `WhatIsShownIsReal`, `NothingIsLeft`: `Spec => []P` for `LiveAsWanted`, `ExclusiveFiles`,
  `ShownIsReal` and `DeletedLeavesNothing`, each from a part of `OneInv`.
- `NoLiveIsReplaced`: `Spec => NoLiveReplaced`, an action property: the steps that remove a container are at places where the game is down, or belong to the delete of
  the server, or to a request for settings that has crossed a restart (`ClientRebuilds`).
- `PromiseIsKept`: `Spec => KeepsPromise`, the refinement. `Mark` is `Announce`, `SpawnInstall` is `BeginInstall`, `InstallDone` is
  `EndInstall`, `GoRestore` is `BeginRestore`, `RestorePut` is `EndRestore`, `DropRow` is `Delete`; `StartRun` is `SwitchOn`; `StopWait`, `Remove`, `Rebuild` and a game that exits are
  `SwitchOff`; `Cancelled` is the end of whatever the task was at, or `Abandon`; the other steps are stutters.

`BackupStoreProofs`:

- `TypeCorrect`: `Spec => []TypeOK`.
- `ReadyNeverCutOff`: `Spec => []NeverCutOff`. `NeverCutOff` alone is not inductive: `FinishBackup` calls ready whatever
  the task's file is, and `Open` cuts off whatever row the task has. `CutOffInv` adds that a task which has its archive has it
  whole or lost, that one which writes has a row that is not ready, and that a row waiting for its task is nobody
  else's (ids are new, so two requests never spawn for the same row). Most steps are `Harmless`: they make nothing ready, write
  nothing and spawn nothing, and one lemma (`HarmlessKeeps`) deals with them all; five steps have their own.
- `HandMadeStays`: `Spec => HandMadeKept`. `WorkInv` says whose row is whose: ids are numbers given out once, a request's row
  is its own until it spawns, what a task prunes was made by the schedule, a cancelled task has a delete that waits for it, and a row is the
  only task's. From it a pruning that unlinks an archive made by hand is impossible; the other steps that unlink are the ones the property names.
- `ReadyBackupHasFile`: `Spec => []ReadyHasFile`. `WithFile` holds at every step and not only at rest: a ready row has its archive
  unless it is among those being pruned, deleted or going with the server; `NoRows` says that nothing has a row after the last of these.
- `SavingResumes`: `Spec => []SavesAgain`. `SavesInv` says who has switched saving off: a task between its commands before and
  after, which runs the latter on every way out, or a server that is gone.

The last part of `BackupStoreProofs` is under `OneRequest` (`Reqs` has one element at the most), for every `Limit` and `Keep`. With two requests a delete of the server
leaves the archive of a backup that was about to begin, and two backups asked for at once both find the last room.

- `RowsAndFilesAgree`: `Spec => []RowsAndFiles`. `OrderInv`: from its check to its end the request has the server alone, and a row says creating until
  its backup is settled, not after. `StepInv`: every archive and every row that says creating has its owner at each step.
- `RoomIsKept`: `Spec => []RoomKept`. What a request has measured (`ReadUsage` and `ReadPruned`, which leaves out what the schedule will prune, the backup that is made
  counted in) stays below the limit until the row is inserted and while the archive is made (`RoomInv`): sums of sizes of the other backups, which only get smaller. `Fits`, that
  the archives older than any leave some room, is then so of all but those still to be pruned, and of all when they are gone; `FitsStill` passes it to subsets. `NewestInv` bounds the
  schedule's rows beside the one that is made (`Keep`), and by what is left once `olds` are gone. It rests on lemmas about the cardinality
  of `Old`, the rows beyond the newest `n`, from the library's theorems on finite sets, and on lemmas about sums over subsets.

`SchedulerProofs`:

- `TypeCorrect`: `Spec => []TypeOK`. `NextRunLater`: the next time of a timetable exists and is later, so that no row is
  written without one.
- `EachOnceHolds`: `Spec => []EachOnce`, for any number of requests. `MissedInv` gives `MissedSkipped`: it follows a time from the row, through what a
  request or the loop holds of it, to the tick that runs it, and says at each of these that it is none or after the panel came up,
  once `skip_missed` has begun with it. `OnceInv` gives `RunsAgainOnlyUnsaved`: a time that was run lies behind the row's next one (`Behind`), also when the row has been changed since
  or is written back by a tick from what it held; or it could not be written down; or it is of the tick at work, and what that one has still to run lies behind it (`Past`).
- `EnabledAreTimed`: `Spec => []EnabledHasNext`, under `OneRequest`, since two `PUT`s at once can leave a schedule enabled with no time, and
  `BoundedCron`: some timetable can be asked for, and the gaps of all are bounded (a day, a month and a weekday come back within years). `TimedInv` says that
  the row, the object of the loop and the object of the request agree on what a commit will leave: a request that enables sets a time itself, and one
  that loaded an enabled row found a time that no tick takes away.

`AccessProofs`:

- `TypeCorrect`: `Spec => []TypeOK`.
- `DeletedUsersLeaveNothing`: `Spec => []NothingLeft`. Inductive as it stands with the types: the two steps that add a session or a
  grant (`OpenSession`, `SetAccess`) are refused by the foreign key when the user is gone, and nobody else adds any.
- `AdministratorsStay`: `Spec => []AnAdministrator`, for any finite set of users. The invariant `AdminInv` speaks of users that were ever there (`Used`)
  rather than of live ones, and adds that a request which is to insert a user has a panel that is used, and that one
  that takes an administrator's rights by a count has counted other than one. If that count is still the number of
  active administrators, another one is left, by `FS_CardinalityType` and `FS_RemoveElement`; if not, the step is `stale`.
- `SessionsAlwaysFit`: `Spec => []SessionsFit`. A login that puts a password back changes the row under sessions it marks late itself (`RehashedRow`); the command's commit writes the columns it changed
  and marks the sessions it has not read (`CliEffect`). `FitInv` says it of every session that is there, run out or not, and adds that no session's
  user is a row yet to be inserted, that ids above `opened` are unused, and
  that a request which changes its own password came through a session that is its user's or gone: ids are not used again, so the one session it keeps is its own.

`FileHelperProofs`:

- `TypeCorrect`: `Spec => []TypeInv`, which is `TypeOK` and that a request between `inspect` and `start` holds the mutex.
- `HelperHasOneMaker`: `Spec => []OneMaker`. `MakerInv` needs only the mutex: the helper appears by its holder.
- `OnlyTheSilentAreReaped`: `Spec => ReapsTheSilent`. `SilenceInv` relates each request's own silence to the age the agent
  keeps: when the reaper has picked the helper, who is in it was silent for longer than the idle time or has given a sign since.
- `ServersAreRemovedWhole`: `Spec => []RemovedWhole`. `RemovalInv` says at each step of the removal what is gone already, unless a request was beside it.

`ServerSettingsProofs`, for every template `_check_references` lets pass (any fields, options, ports and groups) whose dynamic choices
depend on fields that cannot be edited (`SourcesAssumption`):

- `ValuesOfServersFit`: `Spec => []RowsFit`, the types among it. What `Validate` accepts fits (`Fits`): along the fold over the fields, what is in `clean` for
  the fields before, on which visibility and choices of the next one depend, is no longer changed by it. `SettingsInv` carries this from the validation through
  the awaits of a request to the row.
- `ServersHaveTheirOwnPorts`: `Spec => []PortsUnlessMissed`. `WellGiven` says along the fold over the groups: what is given so far is free, apart and taken for the groups to
  come. It has the hypothesis `GroupsApart`: two ports of one group with one protocol have different defaults. The schema does not check it, and a template without it would get
  one port twice for one server; all templates of the repository fulfil it.
- `NewServersGetTheFirstFreePorts`: `Spec => FirstFree`. The offset of a group is the least one that fits (`NearDefault`): each lower one meets the end of the ports,
  a port taken before, or one given to an earlier group. No hypothesis on the template.
- `OthersKeepTheirValues`: `Spec => RestUnlessCrossed`. An accepted edit differs from the row it was validated against only in what it fills in, hides or
  reveals (`AskedOnly`), and that row is the present one unless two edits crossed.
- `LockedFieldsAreKept`: `Spec => LockedKept`. `EditsInv` says of every request that is about to commit
  (`Kept`) that the values it will write differ only in editable fields from the row as it is by now, not only from the row it was validated
  against. It is so when `AskUpdate` validated it (`Locked` is empty), and another edit that commits meanwhile changes the
  row in editable fields only, which is the same fact about that edit. So it holds of two edits at once, where `RestKept` does not.

`ConfigFilesProofs`, for any contents, bodies and texts; of the conversions it needs what `TextsAssumption` says (a text has pieces, an integer reads as itself):

- `TypeCorrect`: `Spec => []TypeOK`.
- `OnlyTheAskedIsWritten`: `Spec => OnlyWhatWasAsked`. `Ready` says of a request that is about to write how what it holds differs from what it read. Along the fold
  over what is filled in, each step keeps the other lines in their order (`KeepsLines`) and what the steps before have set, since no setting is filled in
  twice (`BodiesAssumption`); at the end the game finds each new text, in whichever of its lines it looks.
- `PanelsOwnIsKept`: `Spec => StrangersKept`, from the same invariant: `Ready` relates what will be written to the document the panel read, where the pieces of a split line are settings
  of their own, and what is asked for is none of the panel's own.

`VolumeFilesProofs`, for any finite set of names, any depth, raw paths, sizes and limits:

- `TypeCorrect`: `Spec => []TypeOK`. `Resolve` of any raw path is a path of the volume, however many `..` it has; every command leaves a tree, where what is
  there is in a folder.
- `NoFileIsLost`: `Spec => NothingOverwritten`, for requests beside each other: whatever came to the destination since it was looked at. For moves and copies
  of many sources along the fold over them (`CarryOne`).
- `LimitAndOwnersKept`: `Spec => []OneAtATime`. At rest the property says sizes and owners; in between, what a request holds is what it measured commands ago. TLC checked its invariant `JInv` on the instance of `files` first.
  `AloneOK` says that only one request is there, and `Promised` what it has made sure of at each place: after `require_space` that the tree and what is to be
  added fit (`Sound`); while an archive is unpacked that everything outside its folder is within the limit and the game's (`CalmOutside`), so that taking the folder away
  restores it; before the owner is handed on, that one path is not the game's. Under it are lemmas on sums over trees: `Fewer` (a map of paths
  into another tree that makes no two one), `BroughtSize`, `MvSize`, `CopyOneMore`. A copy adds
  what was measured because its sources are apart (`~Doubled`) and none holds the destination (`TransferOk`), so that copying one does not change what the next ones hold
  (`CopyHeld`).

Model-checked only: all liveness properties (`WorkEnds`, `BackAfterReboot`, `BackupsSettle`, `DueIsRun`, `Answered`, `IdleGoes`), which the prover does not do
as it has neither fairness nor `ENABLED`; and `SomeAdministrator`, which does not hold. Every safety and action property of a passing run is a theorem, those of
`ServerManager` but two, two of `BackupStore` and one of `Scheduler` for one request at a time, as their runs have it.

## 5. Not modelled

- **Agent: HTTP API, Docker client.** They decode and pass on; failures of the passing are events of the other modules. An agent that goes on with a call
  whose caller was cancelled or timed out is not modelled.
- **Console** (`runtime/console.py`): streams of lines with a position in whole seconds.
- **`LoginThrottle`**: a table of times per address, in memory.
- **Restores and downloads** that read an archive while it is deleted.
- **Templates**: parsing, caching of option lists, building of container configurations; pure functions of data.
- **Passwords and permissions** (a library call, but for hashes to be made anew, and constants), **settings, database, migrations**, the **web interface** and the **templates' data**.

## 6. What could come next

1. The theorems under `OneClient` with calls that fail, for the properties that hold then too.
2. Restores and downloads that read an archive while it is deleted, in `BackupStore`.
3. `Console`, and `LoginThrottle` in `Access`.
4. The types and `OneMaker` for the helper of the direct runtime, which is made once more when it goes before it is started.
