---------------------------- MODULE PromisedServer ----------------------------
(***************************************************************************)
(* What the manager promises about one server, without requests, flags,    *)
(* tasks or Docker: a server is installed, switched on and off, restored   *)
(* and deleted, and whatever rewrites its files has them to itself.        *)
(***************************************************************************)
VARIABLES
    state,     \* what the database says of it; "none" once it is deleted
    game,      \* "up" or "down"
    work       \* what rewrites its files: "none", "install" or "restore"

vars == <<state, game, work>>

Init == state = "pending" /\ game = "down" /\ work = "none"

\* A new server, a reinstall, or a change that needs one.
Announce ==
    /\ state # "none" /\ game = "down" /\ work = "none"
    /\ state' = "installing"
    /\ UNCHANGED <<game, work>>

BeginInstall ==
    /\ state = "installing" /\ game = "down" /\ work = "none"
    /\ work' = "install"
    /\ UNCHANGED <<state, game>>

EndInstall ==
    /\ work = "install"
    /\ state' \in {"installed", "install_failed"}
    /\ work' = "none"
    /\ UNCHANGED game

\* A delete gives up on an install, at the latest when it has just succeeded.
Abandon ==
    \/ work = "install" /\ work' = "none" /\ UNCHANGED <<state, game>>
    \/ /\ state = "installed" /\ game = "down" /\ work = "none"
       /\ state' = "install_failed"
       /\ UNCHANGED <<game, work>>

SwitchOn ==
    /\ state = "installed" /\ game = "down" /\ work = "none"
    /\ game' = "up"
    /\ UNCHANGED <<state, work>>

SwitchOff == game = "up" /\ game' = "down" /\ UNCHANGED <<state, work>>

BeginRestore ==
    /\ state = "installed" /\ game = "down" /\ work = "none"
    /\ work' = "restore"
    /\ UNCHANGED <<state, game>>

EndRestore == work = "restore" /\ work' = "none" /\ UNCHANGED <<state, game>>

Delete ==
    /\ state # "none" /\ game = "down" /\ work = "none"
    /\ state' = "none"
    /\ UNCHANGED <<game, work>>

Next ==
    \/ Announce \/ BeginInstall \/ EndInstall \/ Abandon
    \/ SwitchOn \/ SwitchOff \/ BeginRestore \/ EndRestore \/ Delete

Spec == Init /\ [][Next]_vars
=============================================================================
