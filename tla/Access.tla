-------------------------------- MODULE Access --------------------------------
(***************************************************************************)
(* Users, sessions and access to servers: logging in, acting through a     *)
(* session that expires unless it is used, changing users beside each      *)
(* other, and the terminal command that makes administrators               *)
(* (panel/app/core/auth.py, panel/app/core/security.py,                    *)
(* panel/app/api/auth.py, panel/app/api/users.py, panel/app/cli.py).  An   *)
(* action ends where the coroutine awaits; a commit writes the columns its *)
(* coroutine changed.                                                      *)
(***************************************************************************)
EXTENDS Integers, FiniteSets

CONSTANTS
    Users,          \* ids, each with a name of its own
    Reqs,           \* coroutines that serve requests
    Ops,            \* what they are asked to do
    Permissions,    \* what may be granted on the one server, beside seeing it
    Lifetime,       \* how long an unused session lives
    MaxSessions,    \* bound: how many sessions are opened
    MaxPasswords    \* bound: how many passwords a user is given, one after the other

Changes == {"reset", "promote", "demote", "disable", "enable", "remove"}
AllOps == Changes \cup {"login", "logout", "password", "create", "grant"}

ASSUME UsersAssumption == IsFiniteSet(Users)
ASSUME OpsAssumption == Ops \subseteq AllOps
ASSUME BoundsAssumption == Lifetime \in Nat \ {0} /\ MaxSessions \in Nat /\ MaxPasswords \in Nat \ {0}

Ids == 1 .. MaxSessions

VARIABLES
    users,      \* the users' rows
    sessions,   \* the sessions' rows
    opened,     \* how many sessions were ever opened
    access,     \* what each user was granted on the server
    req,        \* what each request is doing
    cli,        \* what the terminal command is doing
    stale       \* a user lost their rights by a count of administrators that had changed, or by none

vars == <<users, sessions, opened, access, req, cli, stale>>
data == <<users, sessions, opened, access>>

\* last is the newest password the user was given, which need not be the one they have;
\* old tells that the hash was made with older parameters.
User == [state : {"live"}, admin : BOOLEAN, disabled : BOOLEAN, password : 1 .. MaxPasswords,
         last : 1 .. MaxPasswords, old : BOOLEAN]
NoUser == [state |-> "new", admin |-> FALSE, disabled |-> FALSE, password |-> 1, last |-> 1, old |-> FALSE]
GoneUser == [NoUser EXCEPT !.state = "gone"]

\* password is the one the session was opened with, or that it set itself; late tells
\* that a login crossed a change of the user: the session was being opened then, or a
\* login put back the password that it had checked before the change.
Session == [user : Users, left : 0 .. Lifetime, password : 1 .. MaxPasswords, late : BOOLEAN]
NoSession == [user |-> "none", left |-> 0, password |-> 1, late |-> FALSE]

\* target is whom the request is about, password what it logged in with, writes whether
\* it changes a column, admins the count it went by.
Request == [op : Ops \cup {"none"}, sid : Ids \cup {0}, target : Users \cup {"none"},
            password : 1 .. MaxPasswords, writes : BOOLEAN, admins : Nat,
            pc : {"idle", "open", "password", "count", "commit", "insert", "grant"}]
Idle == [op |-> "none", sid |-> 0, target |-> "none", password |-> 1, writes |-> FALSE,
         admins |-> 0, pc |-> "idle"]
\* The terminal command writes the columns that differed when it read the row, or a
\* row, and ends the sessions it found.
Cli == [user : Users \cup {"none"}, writes : SUBSET {"row", "admin", "disabled"}, old : SUBSET Ids,
        pc : {"idle", "sessions", "commit"}]
NoCli == [user |-> "none", writes |-> {}, old |-> {}, pc |-> "idle"]

TypeOK ==
    /\ users \in [Users -> User \cup {NoUser, GoneUser}]
    /\ sessions \in [Ids -> Session \cup {NoSession}]
    /\ opened \in 0 .. MaxSessions
    /\ access \in [Users -> {{}} \cup {p \cup {"view"} : p \in SUBSET Permissions}]
    /\ req \in [Reqs -> Request] /\ \A a \in Reqs : req[a].pc = "idle" \/ req[a].target \in Users
    /\ cli \in Cli /\ (cli.pc # "idle" => cli.user \in Users)
    /\ stale \in BOOLEAN

\* There are no users before ensure-admin has made the first.
Init ==
    /\ users = [u \in Users |-> NoUser]
    /\ sessions = [i \in Ids |-> NoSession] /\ opened = 0
    /\ access = [u \in Users |-> {}]
    /\ req = [a \in Reqs |-> Idle] /\ cli = NoCli
    /\ stale = FALSE
----------------------------------------------------------------------------
Live(u) == users[u].state = "live"
Finish(a) == req' = [req EXCEPT ![a] = Idle]
Goto(a, pc) == req' = [req EXCEPT ![a].pc = pc]
Without(gone) == [i \in Ids |-> IF i \in gone THEN NoSession ELSE sessions[i]]
SessionsOf(u) == {i \in Ids : sessions[i] # NoSession /\ sessions[i].user = u}

\* user_for_token: the session is there and not expired, its user is there and not disabled.
UserForToken(i) ==
    /\ sessions[i] # NoSession /\ sessions[i].left > 0
    /\ Live(sessions[i].user) /\ ~users[sessions[i].user].disabled

ActiveAdmins == {u \in Users : Live(u) /\ users[u].admin /\ ~users[u].disabled}

\* A new password, hashed with the current parameters.
NewPassword(user) == [user EXCEPT !.password = user.last + 1, !.last = user.last + 1, !.old = FALSE]
----------------------------------------------------------------------------
(* Sessions. *)

\* The right password of a user who may log in; a hash of older parameters is made anew.
Login(a) ==
    /\ req[a] = Idle /\ "login" \in Ops
    /\ \E u \in Users :
          /\ Live(u) /\ ~users[u].disabled
          /\ req' = [req EXCEPT ![a] = [Idle EXCEPT !.op = "login", !.target = u, !.password = users[u].password,
                                                    !.writes = users[u].old, !.pc = "open"]]
    /\ UNCHANGED <<data, cli, stale>>

\* Mutant of OpenSession: nothing refuses the session of a deleted user.
OpenSessionAnyway(a) ==
    LET r == req[a] IN
    /\ r.pc = "open" /\ opened < MaxSessions
    /\ opened' = opened + 1
    /\ sessions' = [sessions EXCEPT ![opened + 1] =
          [user |-> r.target, left |-> Lifetime, password |-> r.password, late |-> FALSE]]
    /\ Finish(a)
    /\ UNCHANGED <<users, access, cli, stale>>

\* The user's row after the login's commit: the hash is of the password it checked.
Rehashed(r) ==
    IF r.writes THEN [users[r.target] EXCEPT !.password = r.password, !.old = FALSE] ELSE users[r.target]

\* create_session tidies up and adds the session; a user deleted meanwhile fails it, with
\* what else the login writes.
OpenSession(a) ==
    LET r == req[a]
        user == Rehashed(r)
    IN
    /\ r.pc = "open" /\ opened < MaxSessions
    /\ IF ~Live(r.target) THEN UNCHANGED <<users, sessions, opened>>
       ELSE /\ opened' = opened + 1
            /\ users' = [users EXCEPT ![r.target] = user]
            /\ sessions' = [i \in Ids |->
                 IF i = opened + 1 THEN [user |-> r.target, left |-> Lifetime, password |-> r.password,
                     late |-> user.disabled \/ user.password # r.password]
                 ELSE IF sessions[i] # NoSession /\ sessions[i].left = 0 THEN NoSession
                 ELSE IF i \in SessionsOf(r.target) /\ user.password # users[r.target].password
                      THEN [sessions[i] EXCEPT !.late = TRUE] ELSE sessions[i]]
    /\ Finish(a)
    /\ UNCHANGED <<access, cli, stale>>

\* current_user: a session that is used lives on.
Uses(i) == UserForToken(i) /\ sessions' = [sessions EXCEPT ![i].left = Lifetime]

Logout(a) ==
    /\ req[a] = Idle /\ "logout" \in Ops
    /\ \E i \in Ids : UserForToken(i) /\ sessions' = Without({i})
    /\ UNCHANGED <<users, opened, access, req, cli, stale>>

AskPassword(a) ==
    /\ req[a] = Idle /\ "password" \in Ops
    /\ \E i \in Ids :
          /\ Uses(i)
          /\ req' = [req EXCEPT ![a] = [Idle EXCEPT !.op = "password", !.sid = i,
                                                    !.target = sessions[i].user, !.pc = "password"]]
    /\ UNCHANGED <<users, opened, access, cli, stale>>

\* The password the request was read with is checked; this browser stays logged in.
ChangePassword(a) ==
    LET r == req[a] IN
    /\ r.pc = "password" /\ users[r.target].last < MaxPasswords
    /\ IF ~Live(r.target) THEN UNCHANGED <<users, sessions>>
       ELSE /\ users' = [users EXCEPT ![r.target] = NewPassword(@)]
            /\ sessions' = [i \in Ids |->
                 IF i = r.sid /\ sessions[i] # NoSession THEN [sessions[i] EXCEPT !.password = users[r.target].last + 1]
                 ELSE IF i \in SessionsOf(r.target) THEN NoSession ELSE sessions[i]]
    /\ Finish(a)
    /\ UNCHANGED <<opened, access, cli, stale>>
----------------------------------------------------------------------------
(* Administrators. *)

Loses(r, user) == user.admin /\ ~user.disabled /\ r.op \in {"demote", "disable", "remove"}

\* The columns an update writes; one that has its value already is not written.
Changed(user, op) ==
    IF op = "reset" THEN NewPassword(user)
    ELSE [user EXCEPT !.admin = IF op = "promote" THEN TRUE ELSE IF op = "demote" THEN FALSE ELSE @,
                      !.disabled = IF op = "disable" THEN TRUE ELSE IF op = "enable" THEN FALSE ELSE @]

\* What the request goes on with: taking an administrator away waits for a count.
Begun(op, u) ==
    LET r == [Idle EXCEPT !.op = op, !.target = u, !.writes = Changed(users[u], op) # users[u]]
    IN  [r EXCEPT !.pc = CASE op = "grant" -> "grant" [] op = "create" -> "insert"
                           [] OTHER -> IF Loses(r, users[u]) THEN "count" ELSE "commit"]

\* require_admin and _user_or_404; nobody takes their own rights or access away, and
\* set_access refuses administrators.
Target(a) ==
    /\ req[a] = Idle
    /\ \E i \in Ids, op \in Ops \ {"login", "logout", "password"}, u \in Users :
          /\ Uses(i) /\ users[sessions[i].user].admin
          /\ IF op = "create" THEN users[u] = NoUser ELSE Live(u)
          /\ ~(u = sessions[i].user /\ op \in {"demote", "disable", "remove"})
          /\ ~(op = "grant" /\ users[u].admin)
          /\ req' = [req EXCEPT ![a] = Begun(op, u)]
    /\ UNCHANGED <<users, opened, access, cli, stale>>

\* Mutant of Count: the disabled administrators count as well.
CountDisabled(a) ==
    /\ req[a].pc = "count"
    /\ IF Cardinality({u \in Users : Live(u) /\ users[u].admin}) <= 1 THEN Finish(a)
       ELSE req' = [req EXCEPT ![a].pc = "commit", ![a].admins = Cardinality(ActiveAdmins)]
    /\ UNCHANGED <<data, cli, stale>>

Count(a) ==
    /\ req[a].pc = "count"
    /\ IF Cardinality(ActiveAdmins) <= 1 THEN Finish(a)
       ELSE req' = [req EXCEPT ![a].pc = "commit", ![a].admins = Cardinality(ActiveAdmins)]
    /\ UNCHANGED <<data, cli, stale>>

\* Mutant of UpdateUser: only a new password ends the user's sessions.
UpdateUserQuietly(a) ==
    LET r == req[a] IN
    /\ r.pc = "commit" /\ r.op # "remove" /\ (r.op = "reset" => users[r.target].last < MaxPasswords)
    /\ users' = IF Live(r.target) /\ r.writes THEN [users EXCEPT ![r.target] = Changed(@, r.op)] ELSE users
    /\ sessions' = IF r.op = "reset" THEN Without(SessionsOf(r.target)) ELSE sessions
    /\ Finish(a)
    /\ UNCHANGED <<opened, access, cli, stale>>

UpdateUser(a) ==
    LET r == req[a] IN
    /\ r.pc = "commit" /\ r.op # "remove" /\ (r.op = "reset" => users[r.target].last < MaxPasswords)
    /\ IF ~Live(r.target) THEN UNCHANGED <<users, sessions, stale>>
       ELSE /\ users' = IF r.writes THEN [users EXCEPT ![r.target] = Changed(@, r.op)] ELSE users
            /\ sessions' = IF r.op \in {"reset", "disable"} THEN Without(SessionsOf(r.target)) ELSE sessions
            /\ stale' = (stale \/ (Loses(r, users[r.target]) /\ r.admins # Cardinality(ActiveAdmins)))
    /\ Finish(a)
    /\ UNCHANGED <<opened, access, cli>>

\* The sessions and the grants go with the user.
DeleteUser(a) ==
    LET r == req[a] IN
    /\ r.pc = "commit" /\ r.op = "remove"
    /\ users' = IF Live(r.target) THEN [users EXCEPT ![r.target] = GoneUser] ELSE users
    /\ sessions' = Without(SessionsOf(r.target))
    /\ access' = [access EXCEPT ![r.target] = {}]
    /\ stale' = (stale \/ (Loses(r, users[r.target]) /\ r.admins # Cardinality(ActiveAdmins)))
    /\ Finish(a)
    /\ UNCHANGED <<opened, cli>>

\* The database refuses only a name that is the same to the letter.
CreateUser(a) ==
    LET u == req[a].target IN
    /\ req[a].pc = "insert"
    /\ \E admin \in BOOLEAN :
          users' = IF users[u] = NoUser THEN [users EXCEPT ![u] = [NoUser EXCEPT !.state = "live", !.admin = admin]]
                                        ELSE users
    /\ Finish(a)
    /\ UNCHANGED <<sessions, opened, access, cli, stale>>

\* Any permission implies seeing the server; none is no row.
SetAccess(a) ==
    LET r == req[a] IN
    /\ r.pc = "grant"
    /\ \E wanted \in SUBSET Permissions :
          access' = IF Live(r.target)
                    THEN [access EXCEPT ![r.target] = IF wanted = {} THEN {} ELSE wanted \cup {"view"}]
                    ELSE access
    /\ Finish(a)
    /\ UNCHANGED <<users, sessions, opened, cli, stale>>
----------------------------------------------------------------------------
\* create_admin finds the user by the letter, and then asks; ensure-admin does so only
\* while there are no users.
CliRead ==
    /\ cli = NoCli
    /\ \E u \in Users :
          /\ users[u].state # "gone"
          /\ cli' = IF Live(u) THEN [NoCli EXCEPT !.user = u, !.pc = "sessions",
                                      !.writes = {c \in {"admin", "disabled"} :
                                          IF c = "admin" THEN ~users[u].admin ELSE users[u].disabled}]
                    ELSE [NoCli EXCEPT !.user = u, !.pc = "commit", !.writes = {"row"}]
    /\ UNCHANGED <<data, req, stale>>

\* With the new password there, the sessions to end are read.
CliSessions ==
    /\ cli.pc = "sessions"
    /\ cli' = [cli EXCEPT !.pc = "commit", !.old = SessionsOf(cli.user)]
    /\ UNCHANGED <<data, req, stale>>

\* A row that came or went meanwhile fails it.
CliCommit ==
    LET u == cli.user
        row == IF "row" \in cli.writes THEN [NoUser EXCEPT !.state = "live", !.admin = TRUE]
               ELSE [NewPassword(users[u]) EXCEPT !.admin = @ \/ "admin" \in cli.writes,
                                                  !.disabled = @ /\ "disabled" \notin cli.writes]
    IN
    /\ cli.pc = "commit" /\ (Live(u) => users[u].last < MaxPasswords)
    /\ IF (IF "row" \in cli.writes THEN users[u] = NoUser ELSE Live(u))
       THEN /\ users' = [users EXCEPT ![u] = row]
            /\ sessions' = [i \in Ids |-> IF i \in cli.old THEN NoSession ELSE IF i \in SessionsOf(u)
                                          THEN [sessions[i] EXCEPT !.late = TRUE] ELSE sessions[i]]
       ELSE UNCHANGED <<users, sessions>>
    /\ cli' = NoCli
    /\ UNCHANGED <<opened, access, req, stale>>

\* A release with stronger parameters for the hashes: the panel starts again, without
\* the requests and the command it was serving.
Upgrade ==
    /\ users' = [u \in Users |-> IF Live(u) THEN [users[u] EXCEPT !.old = TRUE] ELSE users[u]]
    /\ req' = [a \in Reqs |-> Idle] /\ cli' = NoCli
    /\ UNCHANGED <<sessions, opened, access, stale>>

\* Sessions that are not used come nearer to their end.
Time ==
    /\ \E i \in Ids : sessions[i] # NoSession /\ sessions[i].left > 0
    /\ sessions' = [i \in Ids |-> IF sessions[i] # NoSession /\ sessions[i].left > 0
                                  THEN [sessions[i] EXCEPT !.left = @ - 1] ELSE sessions[i]]
    /\ UNCHANGED <<users, opened, access, req, cli, stale>>
----------------------------------------------------------------------------
Serve(a) ==
    \/ Login(a) \/ OpenSession(a) \/ Logout(a) \/ AskPassword(a) \/ ChangePassword(a)
    \/ Target(a) \/ Count(a) \/ UpdateUser(a) \/ DeleteUser(a) \/ CreateUser(a) \/ SetAccess(a)
Next == CliRead \/ CliSessions \/ CliCommit \/ Upgrade \/ Time \/ \E a \in Reqs : Serve(a)
Spec == Init /\ [][Next]_vars
----------------------------------------------------------------------------
(* Properties. *)

\* There is always an active administrator, as soon as there are users.  Not so when two
\* administrators demote each other at once.
SomeAdministrator == (\E u \in Users : Live(u)) => ActiveAdmins # {}

\* There is an active administrator, as soon as there are users, unless two
\* administrators went at once by a count that was no longer true.
AnAdministrator == (\E u \in Users : Live(u)) /\ ~stale => ActiveAdmins # {}

\* A session that can be used was opened with the password its user has now, or set
\* it: a new password logs out everywhere else.  Not so when a login crossed the change:
\* the session was being opened then, or a login put the password back.
OwnPassword ==
    \A i \in Ids : UserForToken(i) /\ ~sessions[i].late =>
        sessions[i].password = users[sessions[i].user].password

\* Enabling a user again brings back no session: a disabled one has none left.
NoneDisabled ==
    \A i \in Ids : sessions[i] # NoSession /\ ~sessions[i].late => ~users[sessions[i].user].disabled

\* Sessions follow what becomes of their user, but for those on their way.
SessionsFit == OwnPassword /\ NoneDisabled

\* A deleted user leaves no session and no grant behind, whatever was on its way.
NothingLeft ==
    \A u \in Users : users[u].state = "gone" => SessionsOf(u) = {} /\ access[u] = {}
============================================================================
