---------------------------- MODULE GameContainer ----------------------------
(***************************************************************************)
(* The runtime container of one server, as the panel's own runtime drives  *)
(* it through Docker (panel/app/runtime/docker.py), and the agent with the *)
(* same calls in the same order (agent/internal/runtime/runtime.go).  A    *)
(* container is a record: its Docker status, how its process last exited,  *)
(* and its restart policy.  The operators say what one call of a runtime   *)
(* does to it.                                                             *)
(***************************************************************************)

\* Docker's status; "none" is a container that does not exist.  "paused" is
\* left out: nothing in the panel or the agent pauses a container.
Status == {"none", "created", "running", "restarting", "exited"}

\* Exit codes as far as the panel tells them apart: zero, and any other.
ExitCode == {"zero", "error"}

\* host_limits gives a container "on-failure"; stop changes it to "no".
Policy == {"on-failure", "no"}

Container == [status : Status, code : ExitCode, policy : Policy]

Absent == [status |-> "none", code |-> "zero", policy |-> "no"]

Exists(c) == c.status # "none"

\* The statuses start, _stop and _resume take for a live game.
Live(c) == c.status \in {"running", "restarting"}

\* What create makes, once whatever had the name is gone.
Fresh == [status |-> "created", code |-> "zero", policy |-> "on-failure"]
Made(c) == IF Exists(c) THEN c ELSE Fresh

\* Start of a container that is already up changes nothing.
Started(c) == IF Exists(c) /\ ~Live(c) THEN [c EXCEPT !.status = "running"] ELSE c

\* The first half of Stop: Docker must not bring back a game that fails on
\* its way down.
NoRestart(c) == IF Exists(c) THEN [c EXCEPT !.policy = "no"] ELSE c

Exited(c, code) == IF Live(c) THEN [c EXCEPT !.status = "exited", !.code = code] ELSE c

\* What Docker itself may do next with a live container.  Its process can exit
\* cleanly, which ends it; fail under "no", which ends it too; fail under
\* "on-failure", which has Docker restart it until it gives up.
OnItsOwn(c) ==
    CASE c.status = "running" ->
             {Exited(c, "zero")} \cup
             IF c.policy = "no" THEN {Exited(c, "error")}
                                ELSE {[c EXCEPT !.status = "restarting"]}
      [] c.status = "restarting" ->
             {[c EXCEPT !.status = "running"], Exited(c, "error")}
      [] OTHER -> {}

\* Mutant of AfterStop: a game that ignores the stop command is never killed.
AfterStopWaits(c) == IF Live(c) THEN {} ELSE {c}

\* The second half of Stop: it returns once the container named at the call is
\* down, by the stop command, SIGTERM or SIGKILL.  A live container that
\* restarts on failure again is another one, created meanwhile: Stop waited
\* for the old one, unless Docker looked the name up after the change.
AfterStop(c) ==
    IF ~Live(c) THEN {c}
    ELSE {Exited(c, code) : code \in ExitCode}
         \cup (IF c.policy = "on-failure" THEN {c} ELSE {})
=============================================================================
