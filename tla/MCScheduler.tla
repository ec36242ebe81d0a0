------------------------------ MODULE MCScheduler ------------------------------
(* Scheduler with the bodies of its requests, for TLC. *)
EXTENDS Scheduler

Body(cron, action, enabled) == [cron |-> cron, action |-> action, enabled |-> enabled]
MCBodies == {Body(1, "backup", TRUE), Body(2, "command", TRUE), Body(1, "backup", FALSE)}
============================================================================
