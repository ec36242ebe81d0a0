---------------------------- MODULE AccessProofs ----------------------------
(***************************************************************************)
(* Proofs about Access: its types, that a deleted user leaves nothing      *)
(* behind, that there is always an administrator but for two that go at    *)
(* once, and that sessions follow what becomes of their user.              *)
(***************************************************************************)
EXTENDS Access, TLAPS, FiniteSetTheorems

Row == User \cup {NoUser, GoneUser}
Grants == {{}} \cup {p \cup {"view"} : p \in SUBSET Permissions}
Pcs == {"idle", "open", "password", "count", "commit", "insert", "grant"}
ReqOK == req \in [Reqs -> Request] /\ \A a \in Reqs : req[a].pc = "idle" \/ req[a].target \in Users
----------------------------------------------------------------------------
(* Types. *)

\* A row that is there is a user's, and the others are as they should be.
LEMMA Rows ==
    ASSUME NEW user \in Row
    PROVE  /\ user.state = "live" => user \in User
           /\ user.state = "new" => user = NoUser
           /\ user.state = "gone" => user = GoneUser
           /\ user.password \in 1 .. MaxPasswords
<1>1. CASE user \in User BY <1>1 DEF User
<1>2. CASE user = NoUser BY <1>2, BoundsAssumption DEF NoUser
<1>3. CASE user = GoneUser BY <1>3, BoundsAssumption DEF NoUser, GoneUser
<1> QED BY <1>1, <1>2, <1>3 DEF Row

\* The columns that say what a user may do hold yes or no.
LEMMA RowBooleans ==
    ASSUME NEW user \in Row
    PROVE  user.admin \in BOOLEAN /\ user.disabled \in BOOLEAN
<1>1. CASE user \in User BY <1>1 DEF User
<1>2. CASE user = NoUser BY <1>2 DEF NoUser
<1>3. CASE user = GoneUser BY <1>3 DEF NoUser, GoneUser
<1> QED BY <1>1, <1>2, <1>3 DEF Row

\* A new password is one more column of the same user, as long as there are passwords left.
LEMMA NewPasswordRow ==
    ASSUME NEW user \in User
    PROVE  /\ LET new == NewPassword(user)
              IN  /\ new.state = "live" /\ new.password = user.last + 1
                  /\ new.admin = user.admin /\ new.disabled = user.disabled
           /\ user.last < MaxPasswords => NewPassword(user) \in User
<1>1. user.last \in 1 .. MaxPasswords BY DEF User
<1>2. user.last < MaxPasswords => user.last + 1 \in 1 .. MaxPasswords BY <1>1, BoundsAssumption
<1> QED BY <1>2 DEF NewPassword, User

\* A change of a user's columns gives a user, as long as there are passwords left.
LEMMA ChangedRow ==
    ASSUME NEW user \in User, NEW op, op = "reset" => user.last < MaxPasswords
    PROVE  Changed(user, op) \in User
<1>1. CASE op = "reset" BY <1>1, NewPasswordRow DEF Changed
<1>2. CASE op # "reset"
  <2> DEFINE admin == IF op = "promote" THEN TRUE ELSE IF op = "demote" THEN FALSE ELSE user.admin
             disabled == IF op = "disable" THEN TRUE ELSE IF op = "enable" THEN FALSE ELSE user.disabled
  <2>1. admin \in BOOLEAN /\ disabled \in BOOLEAN BY Zenon DEF User
  <2>2. Changed(user, op) = [user EXCEPT !.admin = admin, !.disabled = disabled] BY <1>2, Zenon DEF Changed
  <2> HIDE DEF admin, disabled
  <2> QED BY <2>1, <2>2 DEF User
<1> QED BY <1>1, <1>2

\* What a login makes of its user's row is the same user's, with the password the row had or
\* the one the login checked.
LEMMA RehashedRow ==
    ASSUME TypeOK, NEW a \in Reqs, NEW u \in Users, req[a].target = u, Live(u)
    PROVE  LET user == Rehashed(req[a])
           IN  /\ user \in User /\ user.state = users[u].state
               /\ user.admin = users[u].admin /\ user.disabled = users[u].disabled
<1>1. users[u] \in User BY Rows DEF TypeOK, Row, Live
<1>2. req[a].password \in 1 .. MaxPasswords BY DEF TypeOK, Request
<1>3. CASE req[a].writes BY <1>1, <1>2, <1>3 DEF Rehashed, User
<1>4. CASE ~req[a].writes BY <1>1, <1>4 DEF Rehashed
<1> QED BY <1>3, <1>4

\* A request that does nothing is a well-formed one.
LEMMA IdleRequest == Idle \in Request /\ Idle.pc = "idle"
BY BoundsAssumption DEF Idle, Request, Ids

\* A request that ends, or goes on, is a well-formed one.
LEMMA ReqMoves ==
    ASSUME ReqOK, NEW a \in Reqs
    PROVE  Finish(a) => ReqOK'
BY IdleRequest DEF ReqOK, Finish

\* So is one that begins to do something, about a user there may be.
LEMMA ReqBecomes ==
    ASSUME ReqOK, NEW a \in Reqs, NEW r \in Request, r.target \in Users, req' = [req EXCEPT ![a] = r]
    PROVE  ReqOK'
BY DEF ReqOK

\* What an administrator's request goes on with is a well-formed request about that user
\* which has no count yet.
LEMMA BegunRequest ==
    ASSUME NEW op \in Ops, NEW u \in Users
    PROVE  /\ Begun(op, u) \in Request /\ Begun(op, u).target = u
           /\ Begun(op, u).admins = 0 /\ Begun(op, u).pc # "idle"
<1> DEFINE writes == Changed(users[u], op) # users[u]
           r == [Idle EXCEPT !.op = op, !.target = u, !.writes = writes]
           pc == CASE op = "grant" -> "grant" [] op = "create" -> "insert"
                   [] OTHER -> IF Loses(r, users[u]) THEN "count" ELSE "commit"
<1>1. writes \in BOOLEAN OBVIOUS
<1>2. pc \in Pcs \ {"idle"} BY Zenon DEF Pcs
<1>3. Begun(op, u) = [r EXCEPT !.pc = pc] BY Zenon DEF Begun
<1>4. r \in Request /\ r.target = u /\ r.admins = 0
  <2> HIDE DEF writes
  <2>1. Idle.admins = 0 BY DEF Idle
  <2> QED BY <1>1, <2>1, IdleRequest DEF Request
<1> HIDE DEF r, pc
<1> QED BY <1>2, <1>3, <1>4 DEF Request, Pcs

\* Sessions that are used, or not, or changed otherwise, stay sessions.
LEMMA SessionMoves ==
    ASSUME sessions \in [Ids -> Session \cup {NoSession}], NEW i \in Ids, sessions[i] # NoSession
    PROVE  /\ sessions[i].user \in Users /\ sessions[i].left \in 0 .. Lifetime
           /\ \A n \in 0 .. Lifetime : [sessions[i] EXCEPT !.left = n] \in Session
           /\ \A n \in 1 .. MaxPasswords : [sessions[i] EXCEPT !.password = n] \in Session
           /\ [sessions[i] EXCEPT !.late = TRUE] \in Session
BY DEF Session

\* A session that is used has a user who is there, and stays one.
LEMMA UsedSession ==
    ASSUME TypeOK, NEW i \in Ids, UserForToken(i)
    PROVE  /\ sessions[i].user \in Users
           /\ Uses(i) => sessions' \in [Ids -> Session \cup {NoSession}]
<1>1. sessions \in [Ids -> Session \cup {NoSession}] /\ sessions[i] # NoSession BY DEF TypeOK, UserForToken
<1>2. Lifetime \in 0 .. Lifetime BY BoundsAssumption
<1>3. [sessions[i] EXCEPT !.left = Lifetime] \in Session BY <1>1, <1>2, SessionMoves
<1> QED BY <1>1, <1>3, SessionMoves DEF Uses

\* The steps of logging in and out keep the types.
LEMMA SessionType ==
    ASSUME TypeOK, NEW a \in Reqs, Login(a) \/ OpenSession(a) \/ Logout(a) \/ AskPassword(a) \/ ChangePassword(a)
    PROVE  TypeOK'
<1>1. ReqOK /\ req[a] \in Request BY DEF TypeOK, ReqOK
<1>2. CASE Login(a)
  <2>1. PICK u \in Users : Live(u) /\ req' = [req EXCEPT ![a] =
            [Idle EXCEPT !.op = "login", !.target = u, !.password = users[u].password, !.writes = users[u].old,
                         !.pc = "open"]]
    BY <1>2, Zenon DEF Login
  <2>2. users[u].password \in 1 .. MaxPasswords /\ users[u].old \in BOOLEAN BY <2>1, Rows DEF TypeOK, Row, User, Live
  <2>3. "login" \in Ops BY <1>2 DEF Login
  <2>4. [Idle EXCEPT !.op = "login", !.target = u, !.password = users[u].password, !.writes = users[u].old,
                     !.pc = "open"] \in Request
    BY <2>2, <2>3, BoundsAssumption, IdleRequest DEF Request
  <2>5. ReqOK' BY <1>1, <2>1, <2>4, ReqBecomes, IdleRequest DEF Request
  <2> QED BY <1>2, <2>5, Zenon DEF Login, TypeOK, ReqOK, data
<1>3. CASE OpenSession(a)
  <2>1. ReqOK' BY <1>1, <1>3, ReqMoves DEF OpenSession
  <2>2. CASE ~Live(req[a].target) BY <1>3, <2>1, <2>2, Zenon DEF OpenSession, TypeOK, ReqOK
  <2>3. CASE Live(req[a].target)
    <3>1. opened + 1 \in Ids /\ opened' = opened + 1 /\ opened' \in 0 .. MaxSessions
      BY <1>3, <2>3, BoundsAssumption DEF OpenSession, TypeOK, Ids
    <3>2. req[a].target \in Users BY <1>1, <1>3 DEF ReqOK, OpenSession
    <3> DEFINE u == req[a].target
               user == Rehashed(req[a])
               late == user.disabled \/ user.password # req[a].password
               new == [user |-> u, left |-> Lifetime, password |-> req[a].password, late |-> late]
    <3>3. user \in User BY <2>3, <3>2, RehashedRow
    <3>4. Lifetime \in 0 .. Lifetime BY BoundsAssumption
    <3>5. req[a].password \in 1 .. MaxPasswords BY <1>1 DEF Request
    <3>6. new \in Session
      <4>1. user.disabled \in BOOLEAN BY <3>3 DEF User
      <4>2. late \in BOOLEAN BY <4>1
      <4> HIDE DEF late
      <4> QED BY <3>2, <3>4, <3>5, <4>2 DEF Session
    <3>7. /\ users' = [users EXCEPT ![u] = user]
          /\ sessions' = [i \in Ids |-> IF i = opened + 1 THEN new
                            ELSE IF sessions[i] # NoSession /\ sessions[i].left = 0 THEN NoSession
                            ELSE IF i \in SessionsOf(u) /\ user.password # users[u].password
                                 THEN [sessions[i] EXCEPT !.late = TRUE] ELSE sessions[i]]
      BY <1>3, <2>3, Zenon DEF OpenSession
    <3>8. \A i \in SessionsOf(u) : [sessions[i] EXCEPT !.late = TRUE] \in Session
      BY SessionMoves DEF SessionsOf, TypeOK
    <3> HIDE DEF new, user
    <3>9. sessions' \in [Ids -> Session \cup {NoSession}] BY <3>6, <3>7, <3>8 DEF TypeOK
    <3>10. users' \in [Users -> Row] BY <3>3, <3>7 DEF TypeOK, Row
    <3> QED BY <1>3, <2>1, <2>3, <3>1, <3>9, <3>10, Zenon DEF OpenSession, TypeOK, ReqOK, Row
  <2> QED BY <2>2, <2>3
<1>4. CASE Logout(a)
  <2>1. sessions' \in [Ids -> Session \cup {NoSession}] BY <1>4 DEF Logout, Without, TypeOK
  <2> QED BY <1>4, <2>1, Zenon DEF Logout, TypeOK
<1>5. CASE AskPassword(a)
  <2>1. PICK i \in Ids : /\ Uses(i)
                         /\ req' = [req EXCEPT ![a] = [Idle EXCEPT !.op = "password", !.sid = i,
                                                    !.target = sessions[i].user, !.pc = "password"]]
    BY <1>5, Zenon DEF AskPassword
  <2>2. sessions[i].user \in Users /\ sessions' \in [Ids -> Session \cup {NoSession}]
    BY <2>1, UsedSession DEF Uses
  <2>3. "password" \in Ops BY <1>5 DEF AskPassword
  <2> DEFINE r == [Idle EXCEPT !.op = "password", !.sid = i, !.target = sessions[i].user, !.pc = "password"]
  <2>4. r \in Request BY <2>2, <2>3, IdleRequest DEF Request
  <2>5. r.target = sessions[i].user BY IdleRequest DEF Request
  <2>6. ReqOK' BY <1>1, <2>1, <2>2, <2>4, <2>5, ReqBecomes
  <2> QED BY <1>5, <2>2, <2>6, Zenon DEF AskPassword, TypeOK, ReqOK
<1>6. CASE ChangePassword(a)
  <2>1. ReqOK' BY <1>1, <1>6, ReqMoves DEF ChangePassword
  <2>2. CASE ~Live(req[a].target) BY <1>6, <2>1, <2>2, Zenon DEF ChangePassword, TypeOK, ReqOK
  <2>3. CASE Live(req[a].target)
    <3> DEFINE u == req[a].target
    <3>1. u \in Users BY <1>1, <1>6 DEF ReqOK, ChangePassword
    <3>2. users[u] \in User BY <2>3, <3>1, Rows DEF Live, TypeOK, Row
    <3>3. users[u].last + 1 \in 1 .. MaxPasswords
      BY <1>6, <3>2, BoundsAssumption DEF ChangePassword, User
    <3>4. NewPassword(users[u]) \in User BY <1>6, <3>2, NewPasswordRow DEF ChangePassword
    <3>5. users' = [users EXCEPT ![u] = NewPassword(users[u])]
      BY <1>6, <2>3 DEF ChangePassword
    <3>6. users' \in [Users -> Row] BY <3>4, <3>5 DEF TypeOK, Row
    <3>7. sessions' \in [Ids -> Session \cup {NoSession}]
      <4> DEFINE n == users[u].last + 1
      <4>1. sessions' = [i \in Ids |->
                 IF i = req[a].sid /\ sessions[i] # NoSession THEN [sessions[i] EXCEPT !.password = n]
                 ELSE IF i \in SessionsOf(u) THEN NoSession ELSE sessions[i]]
        BY <1>6, <2>3, Zenon DEF ChangePassword
      <4>2. \A i \in Ids : sessions[i] # NoSession => [sessions[i] EXCEPT !.password = n] \in Session
        BY <3>3, SessionMoves DEF TypeOK
      <4> QED BY <4>1, <4>2 DEF TypeOK
    <3> QED BY <1>6, <2>1, <3>6, <3>7, Zenon DEF ChangePassword, TypeOK, ReqOK, Row
  <2> QED BY <2>2, <2>3
<1> QED BY <1>2, <1>3, <1>4, <1>5, <1>6

\* The steps of changing users keep the types.
LEMMA AdminType ==
    ASSUME TypeOK, NEW a \in Reqs,
           Target(a) \/ Count(a) \/ UpdateUser(a) \/ DeleteUser(a) \/ CreateUser(a) \/ SetAccess(a)
    PROVE  TypeOK'
<1>1. ReqOK /\ req[a] \in Request BY DEF TypeOK, ReqOK
<1>2. CASE Target(a)
  <2>1. PICK i \in Ids, op \in Ops \ {"login", "logout", "password"}, u \in Users :
            Uses(i) /\ req' = [req EXCEPT ![a] = Begun(op, u)]
    BY <1>2, Zenon DEF Target
  <2>2. Begun(op, u) \in Request /\ Begun(op, u).target = u BY BegunRequest
  <2>3. ReqOK' BY <1>1, <2>1, <2>2, ReqBecomes
  <2>4. sessions' \in [Ids -> Session \cup {NoSession}] BY <2>1, UsedSession DEF Uses
  <2> QED BY <1>2, <2>3, <2>4, Zenon DEF Target, TypeOK, ReqOK
<1>3. CASE Count(a)
  <2>1. Cardinality(ActiveAdmins) \in Nat
    BY UsersAssumption, FS_Subset, FS_CardinalityType DEF ActiveAdmins
  <2>2. [req[a] EXCEPT !.pc = "commit", !.admins = Cardinality(ActiveAdmins)] \in Request BY <1>1, <2>1 DEF Request
  <2>3. CASE Finish(a)
    <3>1. ReqOK' BY <1>1, <2>3, ReqMoves
    <3> QED BY <1>3, <3>1, Zenon DEF Count, TypeOK, ReqOK, data
  <2>4. CASE req' = [req EXCEPT ![a].pc = "commit", ![a].admins = Cardinality(ActiveAdmins)]
    <3>1. req' = [req EXCEPT ![a] = [req[a] EXCEPT !.pc = "commit", !.admins = Cardinality(ActiveAdmins)]]
      BY <1>1, <2>4 DEF ReqOK
    <3>2. req[a].target \in Users BY <1>1, <1>3 DEF ReqOK, Count
    <3>3. ReqOK' BY <1>1, <2>2, <3>1, <3>2, ReqBecomes DEF Request
    <3> QED BY <1>3, <3>3, Zenon DEF Count, TypeOK, ReqOK, data
  <2> QED BY <1>3, <2>3, <2>4 DEF Count
<1>4. CASE UpdateUser(a)
  <2>1. ReqOK' BY <1>1, <1>4, ReqMoves DEF UpdateUser
  <2>2. CASE ~Live(req[a].target) BY <1>4, <2>1, <2>2, Zenon DEF UpdateUser, TypeOK, ReqOK
  <2>3. CASE Live(req[a].target)
    <3> DEFINE u == req[a].target
    <3>1. u \in Users BY <1>1, <1>4 DEF ReqOK, UpdateUser
    <3>2. users[u] \in User BY <2>3, <3>1, Rows DEF Live, TypeOK, Row
    <3>3. Changed(users[u], req[a].op) \in User BY <1>4, <3>2, ChangedRow DEF UpdateUser
    <3>4. users' \in [Users -> Row] BY <1>4, <2>3, <3>3 DEF UpdateUser, TypeOK, Row
    <3>5. sessions' \in [Ids -> Session \cup {NoSession}] BY <1>4, <2>3 DEF UpdateUser, Without, TypeOK
    <3>6. stale' \in BOOLEAN BY <1>4, <2>3, Zenon DEF UpdateUser, TypeOK
    <3> QED BY <1>4, <2>1, <3>4, <3>5, <3>6, Zenon DEF UpdateUser, TypeOK, ReqOK, Row
  <2> QED BY <2>2, <2>3
<1>5. CASE DeleteUser(a)
  <2>1. ReqOK' BY <1>1, <1>5, ReqMoves DEF DeleteUser
  <2>2. users' \in [Users -> Row] BY <1>5 DEF DeleteUser, TypeOK, Row
  <2>3. sessions' \in [Ids -> Session \cup {NoSession}] BY <1>5 DEF DeleteUser, Without, TypeOK
  <2>4. access' \in [Users -> Grants] BY <1>5 DEF DeleteUser, TypeOK, Grants
  <2>5. stale' \in BOOLEAN BY <1>5, Zenon DEF DeleteUser, TypeOK
  <2> QED BY <1>5, <2>1, <2>2, <2>3, <2>4, <2>5, Zenon DEF DeleteUser, TypeOK, ReqOK, Row, Grants
<1>6. CASE CreateUser(a)
  <2>1. ReqOK' BY <1>1, <1>6, ReqMoves DEF CreateUser
  <2>2. NoUser \in [state : {"new"}, admin : BOOLEAN, disabled : BOOLEAN, password : 1 .. MaxPasswords,
                    last : 1 .. MaxPasswords, old : BOOLEAN]
    BY BoundsAssumption DEF NoUser
  <2>3. \A admin \in BOOLEAN : [NoUser EXCEPT !.state = "live", !.admin = admin] \in User
    BY <2>2 DEF User
  <2>4. users' \in [Users -> Row] BY <1>6, <2>3 DEF CreateUser, TypeOK, Row
  <2> QED BY <1>6, <2>1, <2>4, Zenon DEF CreateUser, TypeOK, ReqOK, Row
<1>7. CASE SetAccess(a)
  <2>1. ReqOK' BY <1>1, <1>7, ReqMoves DEF SetAccess
  <2>2. PICK wanted \in SUBSET Permissions :
            access' = IF Live(req[a].target)
                      THEN [access EXCEPT ![req[a].target] = IF wanted = {} THEN {} ELSE wanted \cup {"view"}]
                      ELSE access
    BY <1>7, Zenon DEF SetAccess
  <2>3. (IF wanted = {} THEN {} ELSE wanted \cup {"view"}) \in Grants BY DEF Grants
  <2>4. access' \in [Users -> Grants] BY <2>2, <2>3 DEF TypeOK, Grants
  <2> QED BY <1>7, <2>1, <2>4, Zenon DEF SetAccess, TypeOK, ReqOK, Grants
<1> QED BY <1>2, <1>3, <1>4, <1>5, <1>6, <1>7

\* What the terminal command writes to a row it may still write.
CliRow ==
    IF "row" \in cli.writes THEN [NoUser EXCEPT !.state = "live", !.admin = TRUE]
    ELSE [NewPassword(users[cli.user]) EXCEPT !.admin = @ \/ "admin" \in cli.writes,
                                              !.disabled = @ /\ "disabled" \notin cli.writes]
CliWrites == IF "row" \in cli.writes THEN users[cli.user] = NoUser ELSE Live(cli.user)

\* It is a user's, who has the rights of an administrator if they did not exist, and else
\* no fewer than before.
LEMMA CliRowIs ==
    ASSUME TypeOK, CliCommit, CliWrites
    PROVE  /\ cli.user \in Users /\ CliRow \in User
           /\ Live(cli.user) => (users[cli.user].admin => CliRow.admin)
                                /\ (CliRow.disabled => users[cli.user].disabled)
           /\ ~Live(cli.user) => CliRow.admin /\ ~CliRow.disabled
<1> DEFINE u == cli.user
<1>1. u \in Users /\ users \in [Users -> Row] BY DEF TypeOK, CliCommit, Row
<1>2. CASE "row" \in cli.writes
  <2>1. users[u] = NoUser BY <1>2 DEF CliWrites
  <2>2. ~Live(u) BY <2>1 DEF Live, NoUser
  <2>3. CliRow \in User /\ CliRow.admin = TRUE /\ CliRow.disabled = FALSE
    <3>1. CliRow = [NoUser EXCEPT !.state = "live", !.admin = TRUE] BY <1>2, Zenon DEF CliRow
    <3>2. NoUser \in [state : {"new"}, admin : BOOLEAN, disabled : BOOLEAN, password : 1 .. MaxPasswords,
                      last : 1 .. MaxPasswords, old : BOOLEAN] /\ NoUser.disabled = FALSE
      BY BoundsAssumption DEF NoUser
    <3> QED BY <3>1, <3>2 DEF User
  <2> QED BY <1>1, <2>2, <2>3
<1>3. CASE "row" \notin cli.writes
  <2>1. Live(u) BY <1>3 DEF CliWrites
  <2>2. users[u] \in User BY <1>1, <2>1, Rows DEF Live
  <2> DEFINE new == NewPassword(users[u])
             admin == new.admin \/ "admin" \in cli.writes
             disabled == new.disabled /\ "disabled" \notin cli.writes
  <2>3. new \in User /\ new.admin = users[u].admin /\ new.disabled = users[u].disabled
    BY <2>1, <2>2, NewPasswordRow DEF CliCommit
  <2>4. /\ admin \in BOOLEAN /\ disabled \in BOOLEAN
        /\ users[u].admin => admin
        /\ disabled => users[u].disabled
    BY <2>3, Zenon DEF User
  <2>5. CliRow = [new EXCEPT !.admin = admin, !.disabled = disabled] BY <1>3, Zenon DEF CliRow
  <2> HIDE DEF new, admin, disabled
  <2>6. CliRow \in User /\ CliRow.admin = admin /\ CliRow.disabled = disabled BY <2>3, <2>4, <2>5 DEF User
  <2> QED BY <1>1, <2>1, <2>4, <2>6, Zenon
<1> QED BY <1>2, <1>3

\* What the command does to the rows and the sessions.
LEMMA CliEffect ==
    ASSUME CliCommit
    PROVE  /\ ~CliWrites => UNCHANGED <<users, sessions>>
           /\ CliWrites =>
                /\ users' = [users EXCEPT ![cli.user] = CliRow]
                /\ sessions' = [i \in Ids |-> IF i \in cli.old THEN NoSession ELSE IF i \in SessionsOf(cli.user)
                                              THEN [sessions[i] EXCEPT !.late = TRUE] ELSE sessions[i]]
BY Zenon DEF CliCommit, CliWrites, CliRow

\* The terminal command, a release and time keep the types.
LEMMA OtherType ==
    ASSUME TypeOK, CliRead \/ CliSessions \/ CliCommit \/ Upgrade \/ Time
    PROVE  TypeOK'
<1>0. NoCli \in Cli /\ NoCli.pc = "idle" BY DEF NoCli, Cli
<1>1. CASE CliRead
  <2>1. PICK u \in Users : 
          cli' = IF Live(u) THEN [NoCli EXCEPT !.user = u, !.pc = "sessions",
                                      !.writes = {c \in {"admin", "disabled"} :
                                          IF c = "admin" THEN ~users[u].admin ELSE users[u].disabled}]
                 ELSE [NoCli EXCEPT !.user = u, !.pc = "commit", !.writes = {"row"}]
    BY <1>1, Zenon DEF CliRead
  <2> DEFINE writes == {c \in {"admin", "disabled"} : IF c = "admin" THEN ~users[u].admin ELSE users[u].disabled}
  <2>2. writes \in SUBSET {"row", "admin", "disabled"} OBVIOUS
  <2>3. \/ cli' = [NoCli EXCEPT !.user = u, !.pc = "sessions", !.writes = writes]
        \/ cli' = [NoCli EXCEPT !.user = u, !.pc = "commit", !.writes = {"row"}]
    BY <2>1, Zenon
  <2> HIDE DEF writes
  <2>4. cli' \in Cli /\ cli'.user \in Users BY <2>2, <2>3 DEF NoCli, Cli
  <2> QED BY <1>1, <2>4, Zenon DEF CliRead, TypeOK, data
<1>2. CASE CliSessions
  <2>1. cli \in Cli /\ cli.user \in Users BY <1>2 DEF CliSessions, TypeOK
  <2>2. SessionsOf(cli.user) \in SUBSET Ids BY DEF SessionsOf
  <2>3. cli' \in Cli /\ cli'.user \in Users BY <1>2, <2>1, <2>2 DEF CliSessions, Cli
  <2> QED BY <1>2, <2>3, Zenon DEF CliSessions, TypeOK, data
<1>3. CASE CliCommit
  <2>1. cli' \in Cli /\ cli'.pc = "idle" BY <1>0, <1>3 DEF CliCommit
  <2>2. CASE ~CliWrites BY <1>3, <2>1, <2>2, CliEffect, Zenon DEF CliCommit, TypeOK
  <2>3. CASE CliWrites
    <3>1. CliRow \in User BY <1>3, <2>3, CliRowIs
    <3>2. users' \in [Users -> Row] BY <1>3, <2>3, <3>1, CliEffect DEF TypeOK, Row
    <3>3. sessions' \in [Ids -> Session \cup {NoSession}]
      <4>1. \A i \in SessionsOf(cli.user) : i \in Ids /\ [sessions[i] EXCEPT !.late = TRUE] \in Session
        BY SessionMoves DEF SessionsOf, TypeOK
      <4> QED BY <1>3, <2>3, <4>1, CliEffect DEF TypeOK
    <3> QED BY <1>3, <2>1, <3>2, <3>3, Zenon DEF CliCommit, TypeOK, Row
  <2> QED BY <2>2, <2>3
<1>4. CASE Upgrade
  <2>1. \A u \in Users : Live(u) => users[u] \in User BY Rows DEF TypeOK, Row, Live
  <2>2. \A u \in Users : Live(u) => [users[u] EXCEPT !.old = TRUE] \in User BY <2>1 DEF User
  <2>3. users' \in [Users -> Row] BY <1>4, <2>2 DEF Upgrade, TypeOK, Row
  <2>4. ReqOK' BY <1>4, IdleRequest DEF Upgrade, ReqOK
  <2>5. cli' \in Cli /\ cli'.pc = "idle" BY <1>0, <1>4 DEF Upgrade
  <2> QED BY <1>4, <2>3, <2>4, <2>5, Zenon DEF Upgrade, TypeOK, ReqOK, Row
<1>5. CASE Time
  <2>1. ASSUME NEW i \in Ids, sessions[i] # NoSession, sessions[i].left > 0
        PROVE  [sessions[i] EXCEPT !.left = @ - 1] \in Session
    <3>1. sessions[i].left \in 0 .. Lifetime BY <2>1, SessionMoves DEF TypeOK
    <3>2. sessions[i].left - 1 \in 0 .. Lifetime BY <2>1, <3>1, BoundsAssumption
    <3> QED BY <2>1, <3>2, SessionMoves DEF TypeOK
  <2>2. sessions' \in [Ids -> Session \cup {NoSession}] BY <1>5, <2>1 DEF Time, TypeOK
  <2> QED BY <1>5, <2>2, Zenon DEF Time, TypeOK
<1> QED BY <1>1, <1>2, <1>3, <1>4, <1>5

\* The rows and the requests there are at first are well-formed.
LEMMA InitType == Init => TypeOK
<1> SUFFICES ASSUME Init PROVE TypeOK OBVIOUS
<1>1. users \in [Users -> Row] BY DEF Init, Row
<1>2. sessions \in [Ids -> Session \cup {NoSession}] BY DEF Init
<1>3. opened \in 0 .. MaxSessions BY BoundsAssumption DEF Init
<1>4. access \in [Users -> Grants] BY DEF Init, Grants
<1>5. ReqOK BY IdleRequest DEF Init, ReqOK
<1>6. cli \in Cli /\ cli.pc = "idle" BY DEF Init, NoCli, Cli
<1>7. stale \in BOOLEAN BY DEF Init
<1> QED BY <1>1, <1>2, <1>3, <1>4, <1>5, <1>6, <1>7, Zenon DEF TypeOK, Row, Grants, ReqOK

\* Every step keeps the types.
LEMMA NextType == TypeOK /\ [Next]_vars => TypeOK'
<1> SUFFICES ASSUME TypeOK, [Next]_vars PROVE TypeOK' OBVIOUS
<1>1. CASE Next BY <1>1, SessionType, AdminType, OtherType, Zenon DEF Next, Serve
<1>2. CASE UNCHANGED vars BY <1>2, Zenon DEF vars, TypeOK
<1> QED BY <1>1, <1>2

\* Users, sessions, grants and requests are always well-formed, for any operations,
\* requests and bounds.
THEOREM TypeCorrect == Spec => []TypeOK
<1> QED BY InitType, NextType, PTL DEF Spec
----------------------------------------------------------------------------
(* What a deleted user leaves behind.                                      *)

\* A step that makes nobody gone, gives no session to one who is and grants them nothing.
LEMMA LeavesNothing ==
    ASSUME NothingLeft,
           \A u \in Users : users'[u].state = "gone" => users[u].state = "gone",
           \A i \in Ids : sessions'[i] # NoSession =>
              \/ sessions[i] # NoSession /\ sessions'[i].user = sessions[i].user
              \/ users[sessions'[i].user].state # "gone",
           \A u \in Users : users[u].state = "gone" => access'[u] = access[u]
    PROVE  NothingLeft'
BY DEF NothingLeft, SessionsOf

\* Changing a field of a session changes no other.
LEMMA SameUser ==
    ASSUME TypeOK, NEW i \in Ids, sessions[i] # NoSession
    PROVE  /\ \A x : [sessions[i] EXCEPT !.left = x].user = sessions[i].user
           /\ \A x : [sessions[i] EXCEPT !.password = x].user = sessions[i].user
           /\ \A x : [sessions[i] EXCEPT !.late = x].user = sessions[i].user
BY DEF TypeOK, Session

\* A change of a row does not take it away.
LEMMA SameState ==
    ASSUME NEW user \in User
    PROVE  \A op : Changed(user, op).state = "live"
<1>1. NewPassword(user).state = "live" BY NewPasswordRow
<1>2. ASSUME NEW op, op # "reset" PROVE Changed(user, op).state = user.state BY <1>2 DEF Changed, User
<1> QED BY <1>1, <1>2 DEF Changed, User

\* No step leaves anything of a deleted user.
LEMMA NothingLeftStep ==
    ASSUME TypeOK, NothingLeft, [Next]_vars
    PROVE  NothingLeft'
<1>0. users \in [Users -> Row] /\ sessions \in [Ids -> Session \cup {NoSession}] /\ access \in [Users -> Grants]
  BY DEF TypeOK, Row, Grants
<1>same. ASSUME UNCHANGED <<users, sessions, access>> PROVE NothingLeft'
  BY <1>same DEF NothingLeft, SessionsOf
<1>1. ASSUME NEW a \in Reqs, Login(a) \/ Count(a) PROVE NothingLeft'
  BY <1>1, <1>same, Zenon DEF Login, Count, data
<1>2. ASSUME NEW a \in Reqs, OpenSession(a) PROVE NothingLeft'
  <2>1. CASE ~Live(req[a].target) BY <1>2, <2>1, <1>same, Zenon DEF OpenSession
  <2>2. CASE Live(req[a].target)
    <3> DEFINE u == req[a].target
               user == Rehashed(req[a])
    <3>0. u \in Users /\ users[u].state = "live" BY <1>2, <2>2 DEF TypeOK, OpenSession, Live
    <3>1. \A i \in Ids : sessions'[i] # NoSession =>
             \/ sessions[i] # NoSession /\ sessions'[i].user = sessions[i].user
             \/ sessions'[i].user = u
      <4>1. \E new : /\ new.user = u
                     /\ sessions' = [i \in Ids |-> IF i = opened + 1 THEN new
                            ELSE IF sessions[i] # NoSession /\ sessions[i].left = 0 THEN NoSession
                            ELSE IF i \in SessionsOf(u) /\ user.password # users[u].password
                                 THEN [sessions[i] EXCEPT !.late = TRUE] ELSE sessions[i]]
        <5> DEFINE new == [user |-> u, left |-> Lifetime, password |-> req[a].password,
                           late |-> user.disabled \/ user.password # req[a].password]
        <5>1. new.user = u OBVIOUS
        <5>2. sessions' = [i \in Ids |-> IF i = opened + 1 THEN new
                            ELSE IF sessions[i] # NoSession /\ sessions[i].left = 0 THEN NoSession
                            ELSE IF i \in SessionsOf(u) /\ user.password # users[u].password
                                 THEN [sessions[i] EXCEPT !.late = TRUE] ELSE sessions[i]]
          BY <1>2, <2>2, Zenon DEF OpenSession
        <5> HIDE DEF new, user
        <5> QED BY <5>1, <5>2, Zenon
      <4> HIDE DEF user
      <4>2. PICK new : new.user = u /\ sessions' = [i \in Ids |-> IF i = opened + 1 THEN new
                            ELSE IF sessions[i] # NoSession /\ sessions[i].left = 0 THEN NoSession
                            ELSE IF i \in SessionsOf(u) /\ user.password # users[u].password
                                 THEN [sessions[i] EXCEPT !.late = TRUE] ELSE sessions[i]]
        BY <4>1
      <4> SUFFICES ASSUME NEW i \in Ids, sessions'[i] # NoSession
                   PROVE  \/ sessions[i] # NoSession /\ sessions'[i].user = sessions[i].user
                          \/ sessions'[i].user = u
        OBVIOUS
      <4>3. CASE i = opened + 1 BY <4>2, <4>3
      <4>4. CASE i # opened + 1 /\ i \in SessionsOf(u)
        <5>1. sessions'[i] = sessions[i] \/ sessions'[i] = [sessions[i] EXCEPT !.late = TRUE] BY <4>2, <4>4
        <5> QED BY <4>4, <5>1, SameUser DEF SessionsOf
      <4>5. CASE i # opened + 1 /\ i \notin SessionsOf(u) BY <4>2, <4>5
      <4> QED BY <4>3, <4>4, <4>5
    <3>2. \A v \in Users : users'[v].state = users[v].state
      <4>1. user.state = users[u].state BY <2>2, <3>0, RehashedRow
      <4>2. users' = [users EXCEPT ![u] = user] BY <1>2, <2>2, Zenon DEF OpenSession
      <4> HIDE DEF user
      <4> QED BY <1>0, <3>0, <4>1, <4>2
    <3> QED BY <1>2, <3>0, <3>1, <3>2, LeavesNothing DEF OpenSession
  <2> QED BY <2>1, <2>2
<1>3. ASSUME NEW a \in Reqs, Logout(a) PROVE NothingLeft'
  BY <1>0, <1>3, LeavesNothing DEF Logout, Without
<1>4. ASSUME NEW a \in Reqs, AskPassword(a) \/ Target(a) PROVE NothingLeft'
  <2>1. PICK i \in Ids : Uses(i) BY <1>4, Zenon DEF AskPassword, Target
  <2>2. \A j \in Ids : sessions'[j] # NoSession => sessions[j] # NoSession /\ sessions'[j].user = sessions[j].user
    BY <1>0, <2>1, SameUser DEF Uses, UserForToken
  <2>3. UNCHANGED <<users, access>> BY <1>4, Zenon DEF AskPassword, Target
  <2> QED BY <2>2, <2>3, LeavesNothing
<1>5. ASSUME NEW a \in Reqs, ChangePassword(a) PROVE NothingLeft'
  <2>1. CASE ~Live(req[a].target) BY <1>5, <2>1, <1>same, Zenon DEF ChangePassword
  <2>2. CASE Live(req[a].target)
    <3>1. \A u \in Users : users'[u].state = "gone" => users[u].state = "gone"
      <4>1. req[a].target \in Users => users[req[a].target] \in User BY <1>0, <2>2, Rows DEF Live
      <4>2. users' = [users EXCEPT ![req[a].target] = NewPassword(users[req[a].target])]
        BY <1>5, <2>2 DEF ChangePassword
      <4> QED BY <1>0, <4>1, <4>2, NewPasswordRow
    <3>2. \A i \in Ids : sessions'[i] # NoSession => sessions[i] # NoSession /\ sessions'[i].user = sessions[i].user
      <4>1. sessions' = [i \in Ids |->
                 IF i = req[a].sid /\ sessions[i] # NoSession
                 THEN [sessions[i] EXCEPT !.password = users[req[a].target].last + 1]
                 ELSE IF i \in SessionsOf(req[a].target) THEN NoSession ELSE sessions[i]]
        BY <1>5, <2>2, Zenon DEF ChangePassword
      <4> QED BY <4>1, SameUser
    <3> QED BY <1>5, <3>1, <3>2, LeavesNothing DEF ChangePassword
  <2> QED BY <2>1, <2>2
<1>6. ASSUME NEW a \in Reqs, UpdateUser(a) PROVE NothingLeft'
  <2>1. CASE ~Live(req[a].target) BY <1>6, <2>1, <1>same, Zenon DEF UpdateUser
  <2>2. CASE Live(req[a].target)
    <3>1. \A u \in Users : users'[u].state = "gone" => users[u].state = "gone"
      <4>1. req[a].target \in Users => users[req[a].target] \in User BY <1>0, <2>2, Rows DEF Live
      <4> QED BY <1>0, <1>6, <2>2, <4>1, SameState DEF UpdateUser
    <3>2. \A i \in Ids : sessions'[i] # NoSession => sessions[i] # NoSession /\ sessions'[i].user = sessions[i].user
      BY <1>6, <2>2 DEF UpdateUser, Without
    <3> QED BY <1>6, <3>1, <3>2, LeavesNothing DEF UpdateUser
  <2> QED BY <2>1, <2>2
<1>7. ASSUME NEW a \in Reqs, DeleteUser(a) PROVE NothingLeft'
  <2> SUFFICES ASSUME NEW u \in Users, users'[u].state = "gone"
               PROVE  SessionsOf(u)' = {} /\ access'[u] = {}
    BY DEF NothingLeft
  <2>1. \A i \in Ids : sessions'[i] # NoSession => sessions'[i] = sessions[i] /\ i \notin SessionsOf(req[a].target)
    BY <1>7 DEF DeleteUser, Without
  <2>2. CASE u = req[a].target BY <1>0, <1>7, <2>1, <2>2 DEF DeleteUser, SessionsOf
  <2>3. CASE u # req[a].target
    <3>1. users[u].state = "gone" BY <1>0, <1>7, <2>3 DEF DeleteUser
    <3> QED BY <1>0, <1>7, <2>1, <2>3, <3>1 DEF DeleteUser, NothingLeft, SessionsOf
  <2> QED BY <2>2, <2>3
<1>8. ASSUME NEW a \in Reqs, CreateUser(a) PROVE NothingLeft'
  <2>1. \A u \in Users : users'[u].state = "gone" => users[u].state = "gone"
    <3>1. \A admin \in BOOLEAN : [NoUser EXCEPT !.state = "live", !.admin = admin].state = "live" BY DEF NoUser
    <3> QED BY <1>0, <1>8, <3>1 DEF CreateUser
  <2> QED BY <1>8, <2>1, LeavesNothing DEF CreateUser
<1>9. ASSUME NEW a \in Reqs, SetAccess(a) PROVE NothingLeft'
  <2>1. \A u \in Users : users[u].state = "gone" => access'[u] = access[u] BY <1>0, <1>9 DEF SetAccess, Live
  <2> QED BY <1>9, <2>1, LeavesNothing DEF SetAccess
<1>10. CASE CliRead \/ CliSessions BY <1>10, <1>same, Zenon DEF CliRead, CliSessions, data
<1>11. CASE CliCommit
  <2>1. CASE ~CliWrites BY <1>11, <2>1, <1>same, CliEffect, Zenon DEF CliCommit
  <2>2. CASE CliWrites
    <3>1. \A u \in Users : users'[u].state = "gone" => users[u].state = "gone"
      <4>1. CliRow.state = "live" BY <1>11, <2>2, CliRowIs DEF User
      <4> QED BY <1>0, <1>11, <2>2, <4>1, CliEffect
    <3>2. \A i \in Ids : sessions'[i] # NoSession => sessions[i] # NoSession /\ sessions'[i].user = sessions[i].user
      <4>1. sessions' = [i \in Ids |-> IF i \in cli.old THEN NoSession ELSE IF i \in SessionsOf(cli.user)
                                      THEN [sessions[i] EXCEPT !.late = TRUE] ELSE sessions[i]]
        BY <1>11, <2>2, CliEffect
      <4> QED BY <4>1, SameUser DEF SessionsOf
    <3> QED BY <1>11, <3>1, <3>2, LeavesNothing DEF CliCommit
  <2> QED BY <2>1, <2>2
<1>up. CASE Upgrade
  <2>1. \A u \in Users : users'[u].state = users[u].state
    <3>1. \A u \in Users : Live(u) => users[u] \in User BY <1>0, Rows DEF Live
    <3> QED BY <1>up, <3>1 DEF Upgrade, User
  <2> QED BY <1>up, <2>1, LeavesNothing DEF Upgrade
<1>12. CASE Time
  <2>1. \A i \in Ids : sessions'[i] # NoSession => sessions[i] # NoSession /\ sessions'[i].user = sessions[i].user
    BY <1>12, SameUser DEF Time
  <2> QED BY <1>12, <2>1, LeavesNothing DEF Time
<1>13. CASE UNCHANGED vars BY <1>13, <1>same, Zenon DEF vars
<1> QED BY <1>1, <1>2, <1>3, <1>4, <1>5, <1>6, <1>7, <1>8, <1>9, <1>10, <1>11, <1>up, <1>12, <1>13 DEF Next, Serve

\* A deleted user never leaves a session or a grant behind: not even a login or a grant
\* that was on its way when the user was deleted.
THEOREM DeletedUsersLeaveNothing == Spec => []NothingLeft
<1>1. Init => NothingLeft
  <2>1. NoUser.state # "gone" BY DEF NoUser
  <2> QED BY <2>1 DEF Init, NothingLeft
<1>2. TypeOK /\ NothingLeft /\ [Next]_vars => NothingLeft' BY NothingLeftStep
<1> QED BY <1>1, <1>2, TypeCorrect, PTL DEF Spec
----------------------------------------------------------------------------
(* Administrators. *)

\* There were users at some time: a row is never new again.
Used == \E u \in Users : users[u].state # "new"

\* Since there were users there is an administrator; a user is inserted by one who was
\* there; and whoever takes an administrator away has counted more than one.
AdminInv ==
    /\ Used /\ ~stale => ActiveAdmins # {}
    /\ \A a \in Reqs : req[a].pc = "insert" => Used
    /\ \A a \in Reqs : req[a].pc = "commit" => req[a].admins # 1

\* A set with an element that does not have one element has another.
LEMMA Another ==
    ASSUME NEW u \in ActiveAdmins, Cardinality(ActiveAdmins) # 1
    PROVE  \E v \in ActiveAdmins : v # u
<1> SUFFICES ASSUME ActiveAdmins = {u} PROVE FALSE OBVIOUS
<1> QED BY FS_Singleton

\* Requests and rows as they were, or one of them ended, disturb nothing.
LEMMA AdminsUntouched ==
    ASSUME AdminInv, ReqOK, UNCHANGED <<users, stale>>,
           UNCHANGED req \/ \E a \in Reqs : Finish(a)
    PROVE  AdminInv'
<1>1. \A a \in Reqs : req'[a] = req[a] \/ req'[a].pc = "idle" BY IdleRequest DEF ReqOK, Finish
<1> QED BY <1>1 DEF AdminInv, Used, ActiveAdmins, Live

\* Rows that give the same rights to the same users, beside requests as they were or idle,
\* disturb nothing.
LEMMA RightsUntouched ==
    ASSUME AdminInv, UNCHANGED stale,
           \A u \in Users : /\ users'[u].state = users[u].state
                            /\ users'[u].admin = users[u].admin /\ users'[u].disabled = users[u].disabled,
           \A a \in Reqs : req'[a] = req[a] \/ req'[a].pc = "idle"
    PROVE  AdminInv'
<1>1. ASSUME NEW u \in ActiveAdmins PROVE u \in ActiveAdmins' BY Zenon DEF ActiveAdmins, Live
<1>2. Used' <=> Used BY DEF Used
<1> QED BY <1>1, <1>2 DEF AdminInv

\* A request that begins or goes on does so beside the same users.
LEMMA AdminsBeginning ==
    ASSUME AdminInv, ReqOK, UNCHANGED <<users, stale>>, NEW a \in Reqs, NEW r, req' = [req EXCEPT ![a] = r],
           r.pc = "insert" => Used, r.pc = "commit" => r.admins # 1
    PROVE  AdminInv'
BY DEF AdminInv, ReqOK, Used, ActiveAdmins, Live

\* A user who is changed or deleted leaves an administrator, if the count was still true.
LEMMA AdminsLost ==
    ASSUME TypeOK, AdminInv, NEW a \in Reqs, UpdateUser(a) \/ DeleteUser(a)
    PROVE  AdminInv'
<1> DEFINE u == req[a].target
           r == req[a]
<1>0. users \in [Users -> Row] /\ ReqOK BY DEF TypeOK, Row, ReqOK
<1>1. u \in Users /\ r.pc = "commit" BY <1>0 DEF ReqOK, UpdateUser, DeleteUser
<1>2. Finish(a) BY Zenon DEF UpdateUser, DeleteUser
<1>3. CASE ~Live(u)
  <2>1. UNCHANGED users BY <1>3 DEF UpdateUser, DeleteUser
  <2>2. ~stale' => ~stale BY <1>3, Zenon DEF UpdateUser, DeleteUser
  <2>3. \A b \in Reqs : req'[b] = req[b] \/ req'[b].pc = "idle" BY <1>0, <1>2, IdleRequest DEF ReqOK, Finish
  <2> QED BY <2>1, <2>2, <2>3 DEF AdminInv, Used, ActiveAdmins, Live
<1>4. CASE Live(u)
  <2>1. users[u] \in User BY <1>0, <1>1, <1>4, Rows DEF Live
  <2>2. \A v \in Users : v # u => users'[v] = users[v] BY <1>0, <1>4 DEF UpdateUser, DeleteUser
  <2>3. users'[u].state # "new"
    <3>1. CASE UpdateUser(a) BY <1>0, <1>1, <1>4, <2>1, <3>1, SameState DEF UpdateUser, Live
    <3>2. CASE DeleteUser(a)
      <4>1. GoneUser.state = "gone" BY DEF GoneUser, NoUser
      <4> QED BY <1>0, <1>1, <1>4, <3>2, <4>1 DEF DeleteUser
    <3> QED BY <3>1, <3>2
  <2>4. Used' BY <1>1, <2>3 DEF Used
  <2>5. Used BY <1>1, <1>4 DEF Used, Live
  <2>6. ASSUME ~stale' PROVE ActiveAdmins' # {}
    <3>1. ~stale /\ (Loses(r, users[u]) => r.admins = Cardinality(ActiveAdmins))
      BY <1>4, <2>6, Zenon DEF UpdateUser, DeleteUser
    <3>2. PICK v \in ActiveAdmins : TRUE BY <2>5, <3>1 DEF AdminInv
    <3>3. CASE \E w \in ActiveAdmins : w # u
      <4>1. PICK w \in ActiveAdmins : w # u BY <3>3
      <4>2. w \in Users /\ users'[w] = users[w] BY <2>2, <4>1 DEF ActiveAdmins
      <4> QED BY <4>1, <4>2 DEF ActiveAdmins, Live
    <3>4. CASE \A w \in ActiveAdmins : w = u
      <4>1. u \in ActiveAdmins BY <3>2, <3>4
      <4>2. Cardinality(ActiveAdmins) = 1 BY <3>4, <4>1, Another
      <4>3. ~Loses(r, users[u]) BY <1>1, <3>1, <4>2 DEF AdminInv
      <4>4. users[u].admin /\ ~users[u].disabled BY <4>1, Zenon DEF ActiveAdmins
      <4>5. r.op \notin {"demote", "disable", "remove"} BY <4>3, <4>4, Zenon DEF Loses
      <4>6. UpdateUser(a) BY <4>5 DEF DeleteUser
      <4>7. users'[u] = users[u] \/ users'[u] = Changed(users[u], r.op) BY <1>0, <1>1, <1>4, <4>6 DEF UpdateUser
      <4>8. Changed(users[u], r.op).admin /\ ~Changed(users[u], r.op).disabled
        <5>1. CASE r.op = "reset" BY <2>1, <4>4, <5>1, NewPasswordRow, Zenon DEF Changed
        <5>2. CASE r.op # "reset" BY <2>1, <4>4, <4>5, <5>2 DEF Changed, User
        <5> QED BY <5>1, <5>2
      <4>9. Changed(users[u], r.op).state = "live" BY <2>1, SameState
      <4>10. users'[u].admin /\ ~users'[u].disabled BY <4>4, <4>7, <4>8, Zenon
      <4>11. users'[u].state = "live" BY <1>4, <4>7, <4>9 DEF Live
      <4> QED BY <1>1, <4>10, <4>11, Zenon DEF ActiveAdmins, Live
    <3> QED BY <3>3, <3>4
  <2>7. \A b \in Reqs : req'[b] = req[b] \/ req'[b].pc = "idle" BY <1>0, <1>2, IdleRequest DEF ReqOK, Finish
  <2> QED BY <2>4, <2>6, <2>7 DEF AdminInv
<1> QED BY <1>3, <1>4

\* An administrator who is made, by another or at the terminal, is one more.
LEMMA AdminsMade ==
    ASSUME TypeOK, AdminInv, CliCommit \/ \E a \in Reqs : CreateUser(a)
    PROVE  AdminInv'
<1>0. users \in [Users -> Row] /\ ReqOK BY DEF TypeOK, Row, ReqOK
<1>1. ASSUME NEW v \in Users, users'[v] # users[v],
             users'[v].state # "new", v \in ActiveAdmins => v \in ActiveAdmins', Used \/ v \in ActiveAdmins',
             \A w \in Users : w # v => users'[w] = users[w], UNCHANGED stale,
             UNCHANGED req \/ \E a \in Reqs : Finish(a)
      PROVE  AdminInv'
  <2>1. \A b \in Reqs : req'[b] = req[b] \/ req'[b].pc = "idle" BY <1>0, <1>1, IdleRequest DEF ReqOK, Finish
  <2>2. Used' BY <1>1 DEF Used
  <2>3. \A w \in ActiveAdmins : w \in ActiveAdmins' BY <1>1 DEF ActiveAdmins, Live
  <2> QED BY <1>1, <2>1, <2>2, <2>3 DEF AdminInv
<1>2. ASSUME NEW a \in Reqs, CreateUser(a) PROVE AdminInv'
  <2> DEFINE u == req[a].target
  <2>1. u \in Users /\ Used BY <1>0, <1>2 DEF ReqOK, CreateUser, AdminInv
  <2>2. \A admin \in BOOLEAN : [NoUser EXCEPT !.state = "live", !.admin = admin].state = "live" /\ NoUser.state = "new"
    BY DEF NoUser
  <2>3. CASE UNCHANGED users BY <1>0, <1>2, <2>3, AdminsUntouched DEF CreateUser
  <2>4. CASE users[u] = NoUser
    <3>1. users'[u].state = "live" BY <1>0, <1>2, <2>1, <2>2, <2>4 DEF CreateUser
    <3>2. u \notin ActiveAdmins BY <2>2, <2>4 DEF ActiveAdmins, Live
    <3>3. \A w \in Users : w # u => users'[w] = users[w] BY <1>0, <1>2 DEF CreateUser
    <3> QED BY <1>1, <1>2, <2>1, <2>2, <2>4, <3>1, <3>2, <3>3 DEF CreateUser
  <2> QED BY <1>2, <2>3, <2>4 DEF CreateUser
<1>3. CASE CliCommit
  <2> DEFINE u == cli.user
  <2>1. UNCHANGED <<req, stale>> BY <1>3 DEF CliCommit
  <2>2. CASE UNCHANGED users BY <1>0, <2>1, <2>2, AdminsUntouched
  <2>3. CASE users' # users
    <3>0. CliWrites BY <1>3, <2>3, CliEffect
    <3>1. users' = [users EXCEPT ![u] = CliRow] BY <1>3, <3>0, CliEffect
    <3>2. u \in Users /\ CliRow.state = "live" BY <1>3, <3>0, CliRowIs DEF User
    <3>3. users'[u] = CliRow /\ users'[u] # users[u] BY <1>0, <2>3, <3>1, <3>2
    <3>4. u \in ActiveAdmins => u \in ActiveAdmins'
      BY <1>3, <3>0, <3>2, <3>3, CliRowIs, Zenon DEF ActiveAdmins, Live
    <3>5. \A w \in Users : w # u => users'[w] = users[w] BY <1>0, <3>1
    <3>6. Used \/ u \in ActiveAdmins'
      <4>1. CASE Live(u) BY <3>2, <4>1 DEF Used, Live
      <4>2. CASE ~Live(u) BY <1>3, <3>0, <3>2, <3>3, <4>2, CliRowIs, Zenon DEF ActiveAdmins, Live
      <4> QED BY <4>1, <4>2
    <3>7. users'[u].state # "new" BY <3>2, <3>3
    <3> QED BY <1>1, <2>1, <3>2, <3>3, <3>4, <3>5, <3>6, <3>7
  <2> QED BY <2>2, <2>3
<1> QED BY <1>2, <1>3

\* A login or a new password leaves everybody their rights, and so does a release.
LEMMA RightsKept ==
    ASSUME TypeOK, AdminInv, Upgrade \/ \E a \in Reqs : OpenSession(a) \/ ChangePassword(a)
    PROVE  AdminInv'
<1>0. users \in [Users -> Row] /\ ReqOK BY DEF TypeOK, Row, ReqOK
<1>1. ASSUME NEW a \in Reqs, NEW u \in Users, NEW user, Finish(a), UNCHANGED stale,
             users' = [users EXCEPT ![u] = user],
             user.state = users[u].state, user.admin = users[u].admin, user.disabled = users[u].disabled
      PROVE  AdminInv'
  <2>1. \A b \in Reqs : req'[b] = req[b] \/ req'[b].pc = "idle" BY <1>0, <1>1, IdleRequest DEF ReqOK, Finish
  <2>2. ASSUME NEW v \in Users
        PROVE  /\ users'[v].state = users[v].state
               /\ users'[v].admin = users[v].admin /\ users'[v].disabled = users[v].disabled
    <3>1. CASE v = u BY <1>0, <1>1, <3>1, Zenon
    <3>2. CASE v # u
      <4>1. users'[v] = users[v] BY <1>0, <1>1, <3>2
      <4> QED BY <4>1, Zenon
    <3> QED BY <3>1, <3>2
  <2> QED BY <1>1, <2>1, <2>2, RightsUntouched
<1>2. ASSUME NEW a \in Reqs, OpenSession(a) PROVE AdminInv'
  <2> DEFINE u == req[a].target
             user == Rehashed(req[a])
  <2>1. u \in Users /\ Finish(a) /\ UNCHANGED stale BY <1>0, <1>2, Zenon DEF ReqOK, OpenSession
  <2>2. CASE ~Live(u)
    <3>1. UNCHANGED <<users, stale>> BY <1>2, <2>2, Zenon DEF OpenSession
    <3> QED BY <1>0, <2>1, <3>1, AdminsUntouched
  <2>3. CASE Live(u)
    <3>1. user.state = users[u].state /\ user.admin = users[u].admin /\ user.disabled = users[u].disabled
      BY <2>1, <2>3, RehashedRow, Zenon
    <3>2. users' = [users EXCEPT ![u] = user] BY <1>2, <2>3, Zenon DEF OpenSession
    <3> HIDE DEF user
    <3> QED BY <1>1, <2>1, <3>1, <3>2
  <2> QED BY <2>2, <2>3
<1>3. ASSUME NEW a \in Reqs, ChangePassword(a) PROVE AdminInv'
  <2> DEFINE u == req[a].target
             user == NewPassword(users[u])
  <2>1. u \in Users /\ Finish(a) /\ UNCHANGED stale BY <1>0, <1>3, Zenon DEF ReqOK, ChangePassword
  <2>2. CASE ~Live(u)
    <3>1. UNCHANGED <<users, stale>> BY <1>3, <2>2, Zenon DEF ChangePassword
    <3> QED BY <1>0, <2>1, <3>1, AdminsUntouched
  <2>3. CASE Live(u)
    <3>0. users[u] \in User BY <1>0, <2>1, <2>3, Rows DEF Live
    <3>1. user.state = users[u].state /\ user.admin = users[u].admin /\ user.disabled = users[u].disabled
      BY <2>3, <3>0, NewPasswordRow, Zenon DEF Live
    <3>2. users' = [users EXCEPT ![u] = user] BY <1>3, <2>3, Zenon DEF ChangePassword
    <3> HIDE DEF user
    <3> QED BY <1>1, <2>1, <3>1, <3>2
  <2> QED BY <2>2, <2>3
<1>4. CASE Upgrade
  <2>1. \A a \in Reqs : req'[a].pc = "idle" BY <1>4, IdleRequest DEF Upgrade
  <2>2. ASSUME NEW u \in Users
        PROVE  /\ users'[u].state = users[u].state
               /\ users'[u].admin = users[u].admin /\ users'[u].disabled = users[u].disabled
    <3>1. CASE ~Live(u)
      <4>1. users'[u] = users[u] BY <1>4, <3>1 DEF Upgrade
      <4> QED BY <4>1, Zenon
    <3>2. CASE Live(u)
      <4>1. users'[u] = [users[u] EXCEPT !.old = TRUE] BY <1>4, <3>2 DEF Upgrade
      <4>2. users[u] \in User BY <1>0, <3>2, Rows DEF Live
      <4> QED BY <4>1, <4>2 DEF User
    <3> QED BY <3>1, <3>2
  <2>3. UNCHANGED stale BY <1>4, Zenon DEF Upgrade
  <2> QED BY <2>1, <2>2, <2>3, RightsUntouched
<1> QED BY <1>2, <1>3, <1>4

\* Every step keeps an administrator, but for those that go by a count no longer true.
LEMMA AdminsStep ==
    ASSUME TypeOK, AdminInv, [Next]_vars
    PROVE  AdminInv'
<1>0. ReqOK BY DEF TypeOK, ReqOK
<1>1. ASSUME NEW a \in Reqs, Logout(a) \/ SetAccess(a) PROVE AdminInv'
  <2>1. UNCHANGED <<users, stale>> /\ (UNCHANGED req \/ Finish(a))
    BY <1>1, Zenon DEF Logout, SetAccess
  <2> QED BY <1>0, <2>1, AdminsUntouched
<1>2. CASE CliRead \/ CliSessions \/ Time \/ UNCHANGED vars
  <2>1. UNCHANGED <<users, stale, req>> BY <1>2, Zenon DEF CliRead, CliSessions, Time, vars, data
  <2> QED BY <1>0, <2>1, AdminsUntouched
<1>3. ASSUME NEW a \in Reqs, Login(a) PROVE AdminInv'
  <2>1. PICK u \in Users : req' = [req EXCEPT ![a] =
            [Idle EXCEPT !.op = "login", !.target = u, !.password = users[u].password, !.writes = users[u].old,
                         !.pc = "open"]]
    BY <1>3, Zenon DEF Login
  <2> DEFINE r == [Idle EXCEPT !.op = "login", !.target = u, !.password = users[u].password,
                               !.writes = users[u].old, !.pc = "open"]
  <2>2. r.pc = "open" BY DEF Idle
  <2>3. UNCHANGED <<users, stale>> BY <1>3, Zenon DEF Login, data
  <2>4. req' = [req EXCEPT ![a] = r] BY <2>1
  <2> HIDE DEF r
  <2> QED BY <1>0, <2>2, <2>3, <2>4, AdminsBeginning
<1>4. ASSUME NEW a \in Reqs, AskPassword(a) PROVE AdminInv'
  <2>1. PICK i \in Ids : req' = [req EXCEPT ![a] = [Idle EXCEPT !.op = "password", !.sid = i,
                                                    !.target = sessions[i].user, !.pc = "password"]]
    BY <1>4, Zenon DEF AskPassword
  <2>2. [Idle EXCEPT !.op = "password", !.sid = i, !.target = sessions[i].user, !.pc = "password"].pc = "password"
    BY IdleRequest DEF Request
  <2> QED BY <1>0, <1>4, <2>1, <2>2, AdminsBeginning DEF AskPassword
<1>5. ASSUME NEW a \in Reqs, Target(a) PROVE AdminInv'
  <2>1. PICK i \in Ids, op \in Ops \ {"login", "logout", "password"}, u \in Users :
            Uses(i) /\ req' = [req EXCEPT ![a] = Begun(op, u)]
    BY <1>5, Zenon DEF Target
  <2>2. Used
    <3>1. sessions[i].user \in Users /\ users[sessions[i].user].state = "live"
      BY <2>1, UsedSession DEF Uses, UserForToken, Live
    <3> QED BY <3>1 DEF Used
  <2>3. UNCHANGED <<users, stale>> BY <1>5, Zenon DEF Target
  <2>4. Begun(op, u).admins # 1
    <3>1. Begun(op, u).admins = 0 BY BegunRequest
    <3> QED BY <3>1
  <2> DEFINE r == Begun(op, u)
  <2>5. req' = [req EXCEPT ![a] = r] /\ r.admins # 1 BY <2>1, <2>4, Zenon
  <2> HIDE DEF r
  <2> QED BY <1>0, <2>2, <2>3, <2>5, AdminsBeginning
<1>6. ASSUME NEW a \in Reqs, Count(a) PROVE AdminInv'
  <2>1. UNCHANGED <<users, stale>> BY <1>6, Zenon DEF Count, data
  <2>2. CASE Finish(a) BY <1>0, <2>1, <2>2, AdminsUntouched
  <2>3. CASE ~(Cardinality(ActiveAdmins) <= 1)
    <3> DEFINE r == [req[a] EXCEPT !.pc = "commit", !.admins = Cardinality(ActiveAdmins)]
    <3>1. req' = [req EXCEPT ![a] = r] BY <1>0, <1>6, <2>3 DEF Count, ReqOK
    <3>2. r.pc = "commit" /\ r.admins = Cardinality(ActiveAdmins) BY <1>0 DEF ReqOK, Request
    <3>3. Cardinality(ActiveAdmins) # 1 BY <2>3
    <3> HIDE DEF r
    <3> QED BY <1>0, <2>1, <3>1, <3>2, <3>3, AdminsBeginning
  <2> QED BY <1>6, <2>2, <2>3 DEF Count
<1>7. ASSUME NEW a \in Reqs, UpdateUser(a) \/ DeleteUser(a) PROVE AdminInv' BY <1>7, AdminsLost
<1>8. CASE CliCommit \/ \E a \in Reqs : CreateUser(a) BY <1>8, AdminsMade
<1>9. CASE Upgrade \/ \E a \in Reqs : OpenSession(a) \/ ChangePassword(a) BY <1>9, RightsKept
<1> QED BY <1>1, <1>2, <1>3, <1>4, <1>5, <1>6, <1>7, <1>8, <1>9 DEF Next, Serve

\* There is always an active administrator, as soon as there are users, unless two
\* administrators went at once by a count that was no longer true.
THEOREM AdministratorsStay == Spec => []AnAdministrator
<1>1. Init => AdminInv
  <2> SUFFICES ASSUME Init PROVE AdminInv OBVIOUS
  <2>1. NoUser.state = "new" BY DEF NoUser
  <2> QED BY <2>1, IdleRequest DEF Init, AdminInv, Used
<1>2. TypeOK /\ AdminInv /\ [Next]_vars => AdminInv' BY AdminsStep
<1>3. AdminInv => AnAdministrator
  <2> SUFFICES ASSUME AdminInv, \E u \in Users : Live(u), ~stale PROVE ActiveAdmins # {} BY DEF AnAdministrator
  <2>1. Used BY DEF Used, Live
  <2> QED BY <2>1 DEF AdminInv
<1> QED BY <1>1, <1>2, <1>3, TypeCorrect, PTL DEF Spec
----------------------------------------------------------------------------
(* Sessions. *)

\* A session is somebody's, and unless it came late its user has the password it was opened
\* with and is not disabled.
Fits(i) ==
    LET s == sessions[i] IN
    s # NoSession =>
        /\ users[s.user].state # "new"
        /\ ~s.late => ~users[s.user].disabled /\ s.password = users[s.user].password

\* Ids are not used again, and so a request that changes its own password still has a session
\* of its user, or none.
FitInv ==
    /\ \A i \in Ids : Fits(i)
    /\ \A i \in Ids : i > opened => sessions[i] = NoSession
    /\ \A a \in Reqs : req[a].pc = "password" =>
          LET i == req[a].sid
          IN  i \in Ids /\ i <= opened /\ (sessions[i] # NoSession => sessions[i].user = req[a].target)

\* A session that is there as before fits as before, when its user's password is the same and
\* nobody disabled them.
LEMMA FitsKept ==
    ASSUME NEW i \in Ids, Fits(i),
           sessions'[i] # NoSession =>
              /\ sessions[i] # NoSession
              /\ sessions'[i].user = sessions[i].user /\ sessions'[i].password = sessions[i].password
              /\ sessions[i].late => sessions'[i].late
              /\ LET u == sessions[i].user IN
                 /\ users[u].state # "new" => users'[u].state # "new"
                 /\ users'[u].disabled => users[u].disabled
                 /\ users'[u].password = users[u].password
    PROVE  Fits(i)'
BY Zenon DEF Fits

\* A session used, or not, is one of the same user, with the same password and as late.
LEMMA SameSession ==
    ASSUME TypeOK, NEW i \in Ids, sessions[i] # NoSession, NEW x
    PROVE  LET s == [sessions[i] EXCEPT !.left = x]
           IN  s.user = sessions[i].user /\ s.password = sessions[i].password /\ s.late = sessions[i].late
BY DEF TypeOK, Session

\* A step that opens no session and lets nobody ask for a password keeps what FitInv says of ids.
LEMMA FitInvKept ==
    ASSUME FitInv, \A i \in Ids : Fits(i)', opened' = opened,
           \A i \in Ids : sessions'[i] # NoSession => sessions[i] # NoSession /\ sessions'[i].user = sessions[i].user,
           \A a \in Reqs : req'[a].pc = "password" => req[a].pc = "password" /\ req'[a].sid = req[a].sid
                                                      /\ req'[a].target = req[a].target
    PROVE  FitInv'
<1>1. \A i \in Ids : i > opened' => sessions'[i] = NoSession BY DEF FitInv
<1>2. ASSUME NEW a \in Reqs, req'[a].pc = "password"
      PROVE  LET i == req'[a].sid
             IN  i \in Ids /\ i <= opened' /\ (sessions'[i] # NoSession => sessions'[i].user = req'[a].target)
  <2>1. req[a].pc = "password" /\ req'[a].sid = req[a].sid /\ req'[a].target = req[a].target BY <1>2
  <2>2. req[a].sid \in Ids /\ req[a].sid <= opened
        /\ (sessions[req[a].sid] # NoSession => sessions[req[a].sid].user = req[a].target)
    BY <2>1 DEF FitInv
  <2> QED BY <2>1, <2>2
<1> QED BY <1>1, <1>2 DEF FitInv

\* The same of steps that leave sessions, or use one, and users as they are.
LEMMA FitUsed ==
    ASSUME TypeOK, FitInv, UNCHANGED <<users, opened>>, UNCHANGED sessions \/ \E i \in Ids : Uses(i),
           \A a \in Reqs : req'[a].pc = "password" => req[a].pc = "password" /\ req'[a].sid = req[a].sid
                                                      /\ req'[a].target = req[a].target
    PROVE  FitInv'
<1>1. ASSUME NEW j \in Ids, sessions'[j] # NoSession
      PROVE  /\ sessions[j] # NoSession
             /\ sessions'[j].user = sessions[j].user /\ sessions'[j].password = sessions[j].password
             /\ sessions'[j].late = sessions[j].late
  <2>1. CASE UNCHANGED sessions BY <1>1, <2>1
  <2>2. CASE \E i \in Ids : Uses(i)
    <3>1. PICK i \in Ids : Uses(i) BY <2>2
    <3>2. sessions[i] # NoSession /\ sessions' = [sessions EXCEPT ![i].left = Lifetime] BY <3>1 DEF Uses, UserForToken
    <3>3. sessions'[j] = IF j = i THEN [sessions[i] EXCEPT !.left = Lifetime] ELSE sessions[j] BY <3>2 DEF TypeOK
    <3> QED BY <1>1, <3>2, <3>3, SameSession
  <2> QED BY <2>1, <2>2
<1>2. ASSUME NEW j \in Ids PROVE Fits(j)'
  <2>1. Fits(j) BY DEF FitInv
  <2> QED BY <1>1, <2>1, FitsKept
<1> QED BY <1>1, <1>2, FitInvKept

\* A request that ends asks for nothing any more, and the others ask as before.
LEMMA FinishAsks ==
    ASSUME ReqOK, NEW a \in Reqs, Finish(a)
    PROVE  \A b \in Reqs : req'[b].pc = "password" => req[b].pc = "password" /\ req'[b].sid = req[b].sid
                                                      /\ req'[b].target = req[b].target
BY DEF Finish, ReqOK, Idle

\* A request that becomes another one that asks for no password asks for none.
LEMMA OtherAsks ==
    ASSUME ReqOK, NEW a \in Reqs, NEW r, r.pc # "password", req' = [req EXCEPT ![a] = r]
    PROVE  \A b \in Reqs : req'[b].pc = "password" => req[b].pc = "password" /\ req'[b].sid = req[b].sid
                                                      /\ req'[b].target = req[b].target
BY DEF ReqOK

\* Opening a session: the new one has the password of its user, or is late.
LEMMA OpenFits ==
    ASSUME TypeOK, FitInv, NEW a \in Reqs, OpenSession(a)
    PROVE  FitInv'
<1>0. ReqOK /\ req[a] \in Request /\ opened \in 0 .. MaxSessions BY DEF TypeOK, ReqOK
<1>1. \A b \in Reqs : req'[b].pc = "password" => req[b].pc = "password" /\ req'[b].sid = req[b].sid
                                                  /\ req'[b].target = req[b].target
  BY <1>0, FinishAsks DEF OpenSession
<1>2. CASE ~Live(req[a].target)
  <2>1. UNCHANGED <<users, sessions, opened>> BY <1>2, Zenon DEF OpenSession
  <2> QED BY <1>1, <2>1, FitUsed
<1>3. CASE Live(req[a].target)
  <2> DEFINE r == req[a]
             u == r.target
             user == Rehashed(r)
             late == user.disabled \/ user.password # r.password
             s == [user |-> u, left |-> Lifetime, password |-> r.password, late |-> late]
  <2>1. /\ opened' = opened + 1 /\ opened < MaxSessions /\ users' = [users EXCEPT ![u] = user]
        /\ sessions' = [i \in Ids |-> IF i = opened + 1 THEN s
                           ELSE IF sessions[i] # NoSession /\ sessions[i].left = 0 THEN NoSession
                           ELSE IF i \in SessionsOf(u) /\ user.password # users[u].password
                                THEN [sessions[i] EXCEPT !.late = TRUE] ELSE sessions[i]]
    BY <1>3, Zenon DEF OpenSession
  <2>2. s.user = u /\ s.password = r.password /\ (~s.late => ~user.disabled /\ r.password = user.password)
    BY Zenon
  <2>u. /\ u \in Users /\ users \in [Users -> Row] /\ users[u].state = "live"
        /\ user.state = "live" /\ user.disabled = users[u].disabled
    BY <1>0, <1>3, RehashedRow DEF OpenSession, ReqOK, TypeOK, Row, Live
  <2> HIDE DEF s, user
  <2>v. users'[u] = user /\ \A v \in Users : v # u => users'[v] = users[v] BY <2>1, <2>u
  <2>l. \A i \in SessionsOf(u) : LET new == [sessions[i] EXCEPT !.late = TRUE]
                                IN  new.user = u /\ new.password = sessions[i].password /\ new.late = TRUE
    BY DEF TypeOK, Session, SessionsOf
  <2>3. ASSUME NEW i \in Ids PROVE Fits(i)'
    <3>0. Fits(i) BY DEF FitInv
    <3>1. CASE i = opened + 1
      <4>1. sessions'[i] = s BY <2>1, <3>1
      <4>2. users'[s.user].state # "new" BY <2>2, <2>u, <2>v
      <4>3. ~s.late => ~users'[s.user].disabled /\ s.password = users'[s.user].password
        BY <2>2, <2>v, Zenon
      <4> QED BY <4>1, <4>2, <4>3, Zenon DEF Fits
    <3>2. CASE i # opened + 1 /\ i \in SessionsOf(u) /\ user.password # users[u].password
      <4>1. sessions'[i] = NoSession \/ sessions'[i] = [sessions[i] EXCEPT !.late = TRUE] BY <2>1, <3>2
      <4>2. sessions'[i] # NoSession => sessions'[i].user = u /\ sessions'[i].late = TRUE BY <2>l, <3>2, <4>1
      <4> QED BY <2>u, <2>v, <4>2, Zenon DEF Fits
    <3>3. CASE i # opened + 1 /\ ~(i \in SessionsOf(u) /\ user.password # users[u].password)
      <4>1. sessions'[i] \in {sessions[i], NoSession} BY <2>1, <3>3
      <4>2. CASE sessions'[i] # NoSession /\ sessions[i].user = u
        <5>1. user.password = users[u].password BY <3>3, <4>1, <4>2 DEF SessionsOf
        <5>2. users'[u].state # "new" /\ (users'[u].disabled => users[u].disabled)
              /\ users'[u].password = users[u].password
          BY <2>u, <2>v, <5>1, Zenon
        <5> QED BY <3>0, <4>1, <4>2, <5>2, FitsKept
      <4>3. CASE sessions'[i] # NoSession /\ sessions[i].user # u
        <5>1. sessions'[i] = sessions[i] /\ sessions[i] # NoSession BY <4>1, <4>3
        <5>2. sessions[i].user \in Users BY <5>1, SessionMoves DEF TypeOK
        <5>3. users'[sessions[i].user] = users[sessions[i].user] BY <2>v, <4>3, <5>2
        <5> QED BY <3>0, <5>1, <5>3, FitsKept
      <4>4. CASE sessions'[i] = NoSession BY <4>4 DEF Fits
      <4> QED BY <4>2, <4>3, <4>4
    <3> QED BY <3>1, <3>2, <3>3
  <2>4. \A i \in Ids : i > opened' => sessions'[i] = NoSession
    <3>1. \A i \in Ids : i > opened + 1 => sessions[i] = NoSession BY <1>0 DEF FitInv, Ids
    <3> QED BY <1>0, <2>1, <3>1 DEF Ids, SessionsOf
  <2>5. ASSUME NEW b \in Reqs, req'[b].pc = "password"
        PROVE  LET i == req'[b].sid
               IN  i \in Ids /\ i <= opened' /\ (sessions'[i] # NoSession => sessions'[i].user = req'[b].target)
    <3>1. req[b].pc = "password" /\ req'[b].sid = req[b].sid /\ req'[b].target = req[b].target BY <1>1, <2>5
    <3>2. req[b].sid \in Ids /\ req[b].sid <= opened
          /\ (sessions[req[b].sid] # NoSession => sessions[req[b].sid].user = req[b].target)
      BY <3>1 DEF FitInv
    <3>3. req[b].sid # opened + 1 /\ req[b].sid <= opened + 1 BY <1>0, <3>2 DEF Ids
    <3>4. sessions'[req[b].sid] # NoSession =>
             sessions[req[b].sid] # NoSession /\ sessions'[req[b].sid].user = sessions[req[b].sid].user
      BY <2>1, <2>l, <3>2, <3>3 DEF SessionsOf
    <3> QED BY <2>1, <3>1, <3>2, <3>3, <3>4
  <2> QED BY <2>3, <2>4, <2>5 DEF FitInv
<1> QED BY <1>2, <1>3

\* A change of one's own password: this session has the new one, the others of the user are gone.
LEMMA PasswordFits ==
    ASSUME TypeOK, FitInv, NEW a \in Reqs, ChangePassword(a)
    PROVE  FitInv'
<1> DEFINE u == req[a].target
           n == users[u].last + 1
<1>0. ReqOK /\ u \in Users /\ users \in [Users -> Row] BY DEF TypeOK, ReqOK, Row, ChangePassword
<1>1. \A b \in Reqs : req'[b].pc = "password" => req[b].pc = "password" /\ req'[b].sid = req[b].sid
                                                  /\ req'[b].target = req[b].target
  BY <1>0, FinishAsks DEF ChangePassword
<1>2. CASE ~Live(u)
  <2>1. UNCHANGED <<users, sessions, opened>> BY <1>2, Zenon DEF ChangePassword
  <2> QED BY <1>1, <2>1, FitUsed
<1>3. CASE Live(u)
  <2>1. /\ opened' = opened /\ users' = [users EXCEPT ![u] = NewPassword(users[u])]
        /\ sessions' = [i \in Ids |->
                 IF i = req[a].sid /\ sessions[i] # NoSession THEN [sessions[i] EXCEPT !.password = n]
                 ELSE IF i \in SessionsOf(u) THEN NoSession ELSE sessions[i]]
    BY <1>3, Zenon DEF ChangePassword
  <2>2. users[u] \in User BY <1>0, <1>3, Rows DEF Live
  <2>3. users'[u].password = n /\ users'[u].disabled = users[u].disabled /\ users'[u].state = "live"
    BY <1>0, <2>1, <2>2, NewPasswordRow
  <2>4. \A v \in Users : v # u => users'[v] = users[v] BY <1>0, <2>1
  <2>5. sessions[req[a].sid] # NoSession => sessions[req[a].sid].user = u BY DEF FitInv, ChangePassword
  <2> HIDE DEF n
  <2>6. ASSUME NEW i \in Ids, sessions[i] # NoSession
        PROVE  LET s == [sessions[i] EXCEPT !.password = n]
               IN  s.user = sessions[i].user /\ s.password = n /\ s.late = sessions[i].late
    BY <2>6 DEF TypeOK, Session
  <2>7. ASSUME NEW i \in Ids PROVE Fits(i)'
    <3>0. Fits(i) BY DEF FitInv
    <3>1. CASE i = req[a].sid /\ sessions[i] # NoSession
      <4>1. sessions'[i] = [sessions[i] EXCEPT !.password = n] BY <2>1, <3>1
      <4>2. sessions'[i].user = u /\ sessions'[i].password = n /\ sessions'[i].late = sessions[i].late
        BY <2>5, <2>6, <3>1, <4>1
      <4>3. ~sessions[i].late => ~users[u].disabled BY <2>5, <3>0, <3>1, Zenon DEF Fits
      <4>4. users'[u].state # "new" BY <2>3
      <4>5. ~sessions'[i].late => ~users'[u].disabled /\ sessions'[i].password = users'[u].password
        BY <2>3, <4>2, <4>3, Zenon
      <4> QED BY <4>2, <4>4, <4>5, Zenon DEF Fits
    <3>2. CASE ~(i = req[a].sid /\ sessions[i] # NoSession)
      <4>1. sessions'[i] # NoSession => sessions'[i] = sessions[i] /\ sessions[i].user # u
        BY <2>1, <3>2 DEF SessionsOf
      <4>2. sessions'[i] # NoSession => sessions[i].user \in Users BY <4>1, SessionMoves DEF TypeOK
      <4> QED BY <2>4, <3>0, <4>1, <4>2, FitsKept
    <3> QED BY <3>1, <3>2
  <2>8. ASSUME NEW i \in Ids, sessions'[i] # NoSession
        PROVE  sessions[i] # NoSession /\ sessions'[i].user = sessions[i].user
    BY <2>1, <2>6, <2>8
  <2> QED BY <1>1, <2>1, <2>7, <2>8, FitInvKept
<1> QED BY <1>2, <1>3

\* Sessions that end, and one user's row that changes: it has none left, or only loses what
\* the sessions do not go by.
LEMMA EndFits ==
    ASSUME TypeOK, FitInv, NEW u, opened' = opened,
           \A i \in Ids : sessions'[i] # NoSession => sessions'[i] = sessions[i],
           \A v \in Users : v # u => users'[v] = users[v],
           \A i \in Ids : sessions'[i] # NoSession /\ sessions'[i].user = u =>
              /\ users'[u].state # "new"
              /\ users'[u].disabled => users[u].disabled
              /\ users'[u].password = users[u].password,
           \A a \in Reqs : req'[a].pc = "password" => req[a].pc = "password" /\ req'[a].sid = req[a].sid
                                                      /\ req'[a].target = req[a].target
    PROVE  FitInv'
<1>1. ASSUME NEW i \in Ids PROVE Fits(i)'
  <2>1. Fits(i) BY DEF FitInv
  <2>2. sessions'[i] # NoSession => sessions'[i] = sessions[i] /\ sessions[i].user \in Users
    BY SessionMoves DEF TypeOK
  <2>3. CASE sessions'[i] # NoSession /\ sessions[i].user = u
    <3>1. users'[u].state # "new" /\ (users'[u].disabled => users[u].disabled)
          /\ users'[u].password = users[u].password
      BY <2>2, <2>3, Zenon
    <3> QED BY <2>1, <2>2, <2>3, <3>1, FitsKept
  <2>4. CASE sessions'[i] # NoSession /\ sessions[i].user # u
    <3>1. users'[sessions[i].user] = users[sessions[i].user] BY <2>2, <2>4
    <3> QED BY <2>1, <2>2, <2>4, <3>1, FitsKept
  <2>5. CASE sessions'[i] = NoSession BY <2>5 DEF Fits
  <2> QED BY <2>3, <2>4, <2>5
<1> QED BY <1>1, FitInvKept

\* An update: a new password, or disabling, ends the user's sessions.
LEMMA UpdateFits ==
    ASSUME TypeOK, FitInv, NEW a \in Reqs, UpdateUser(a)
    PROVE  FitInv'
<1> DEFINE r == req[a]
           u == r.target
<1>0. ReqOK /\ u \in Users /\ users \in [Users -> Row] BY DEF TypeOK, ReqOK, Row, UpdateUser
<1>1. \A b \in Reqs : req'[b].pc = "password" => req[b].pc = "password" /\ req'[b].sid = req[b].sid
                                                  /\ req'[b].target = req[b].target
  BY <1>0, FinishAsks DEF UpdateUser
<1>2. opened' = opened BY DEF UpdateUser
<1>3. CASE ~Live(u)
  <2>1. UNCHANGED <<users, sessions, opened>> BY <1>3, Zenon DEF UpdateUser
  <2> QED BY <1>1, <2>1, FitUsed
<1>4. CASE Live(u)
  <2>1. /\ users' = IF r.writes THEN [users EXCEPT ![u] = Changed(@, r.op)] ELSE users
        /\ sessions' = IF r.op \in {"reset", "disable"} THEN Without(SessionsOf(u)) ELSE sessions
    BY <1>4, Zenon DEF UpdateUser
  <2>2. users[u] \in User BY <1>0, <1>4, Rows DEF Live
  <2>3. \A v \in Users : v # u => users'[v] = users[v] BY <1>0, <2>1
  <2>4. \A i \in Ids : sessions'[i] # NoSession => sessions'[i] = sessions[i] BY <2>1 DEF Without
  <2>5. ASSUME NEW i \in Ids, sessions'[i] # NoSession, sessions'[i].user = u
        PROVE  /\ users'[u].state # "new"
               /\ users'[u].disabled => users[u].disabled
               /\ users'[u].password = users[u].password
    <3>1. r.op \notin {"reset", "disable"} BY <2>1, <2>5 DEF Without, SessionsOf
    <3> DEFINE c == Changed(users[u], r.op)
    <3>2. c.state = "live" /\ c.password = users[u].password BY <2>2, <3>1 DEF Changed, User
    <3>3. c.disabled => users[u].disabled
      <4> DEFINE no == IF r.op = "disable" THEN TRUE ELSE IF r.op = "enable" THEN FALSE ELSE users[u].disabled
                 admin == IF r.op = "promote" THEN TRUE ELSE IF r.op = "demote" THEN FALSE ELSE users[u].admin
      <4>1. c = [users[u] EXCEPT !.admin = admin, !.disabled = no] BY <3>1, Zenon DEF Changed
      <4>2. no => users[u].disabled BY <3>1, Zenon
      <4> HIDE DEF admin, no, c
      <4>3. c.disabled = no BY <2>2, <4>1 DEF User
      <4> QED BY <4>2, <4>3, Zenon
    <3>4. users'[u] \in {users[u], c} BY <1>0, <2>1
    <3> HIDE DEF c
    <3>5. users[u].state = "live" BY <1>4 DEF Live
    <3> QED BY <3>2, <3>3, <3>4, <3>5
  <2> QED BY <1>1, <1>2, <2>3, <2>4, <2>5, EndFits
<1> QED BY <1>3, <1>4

\* A deleted user has no session left, and a new one has none yet.
LEMMA RowFits ==
    ASSUME TypeOK, FitInv, NEW a \in Reqs, DeleteUser(a) \/ CreateUser(a)
    PROVE  FitInv'
<1> DEFINE u == req[a].target
<1>0. ReqOK /\ u \in Users /\ users \in [Users -> Row] BY DEF TypeOK, ReqOK, Row, DeleteUser, CreateUser
<1>1. \A b \in Reqs : req'[b].pc = "password" => req[b].pc = "password" /\ req'[b].sid = req[b].sid
                                                  /\ req'[b].target = req[b].target
  BY <1>0, FinishAsks DEF DeleteUser, CreateUser
<1>2. opened' = opened BY DEF DeleteUser, CreateUser
<1>3. \A v \in Users : v # u => users'[v] = users[v] BY <1>0 DEF DeleteUser, CreateUser
<1>4. CASE DeleteUser(a)
  <2>1. sessions' = Without(SessionsOf(u)) BY <1>4 DEF DeleteUser
  <2>2. \A i \in Ids : sessions'[i] # NoSession => sessions'[i] = sessions[i] /\ sessions[i].user # u
    BY <2>1 DEF Without, SessionsOf
  <2> QED BY <1>1, <1>2, <1>3, <2>2, EndFits
<1>5. CASE CreateUser(a)
  <2>1. sessions' = sessions BY <1>5 DEF CreateUser
  <2>2. CASE users[u] = NoUser
    <3>1. users[u].state = "new" BY <2>2 DEF NoUser
    <3>2. \A i \in Ids : sessions[i] # NoSession => sessions[i].user # u BY <3>1 DEF FitInv, Fits
    <3> QED BY <1>1, <1>2, <1>3, <2>1, <3>2, EndFits
  <2>3. CASE users[u] # NoUser
    <3>1. users' = users BY <1>5, <2>3 DEF CreateUser
    <3> QED BY <1>1, <1>2, <2>1, <3>1, FitUsed
  <2> QED BY <2>2, <2>3
<1> QED BY <1>4, <1>5

\* The terminal ends the sessions it saw; those that came meanwhile are late.
LEMMA CliFits ==
    ASSUME TypeOK, FitInv, CliCommit
    PROVE  FitInv'
<1> DEFINE u == cli.user
<1>0. ReqOK /\ users \in [Users -> Row] BY DEF TypeOK, ReqOK, Row
<1>1. \A b \in Reqs : req'[b].pc = "password" => req[b].pc = "password" /\ req'[b].sid = req[b].sid
                                                  /\ req'[b].target = req[b].target
  BY DEF CliCommit
<1>2. opened' = opened BY DEF CliCommit
<1>3. CASE ~CliWrites
  <2>1. UNCHANGED <<users, sessions>> BY <1>3, CliEffect
  <2> QED BY <1>1, <1>2, <2>1, FitUsed
<1>4. CASE CliWrites
  <2>1. /\ users' = [users EXCEPT ![u] = CliRow]
        /\ sessions' = [i \in Ids |-> IF i \in cli.old THEN NoSession ELSE IF i \in SessionsOf(u)
                                      THEN [sessions[i] EXCEPT !.late = TRUE] ELSE sessions[i]]
    BY <1>4, CliEffect
  <2>2. CliRow.state = "live" BY <1>4, CliRowIs DEF User
  <2>3. ASSUME NEW i \in Ids, sessions'[i] # NoSession
        PROVE  /\ sessions[i] # NoSession /\ sessions'[i].user = sessions[i].user
               /\ IF sessions[i].user = u THEN sessions'[i].late = TRUE ELSE sessions'[i] = sessions[i]
    <3>1. CASE i \in SessionsOf(u)
      <4>1. sessions'[i] = [sessions[i] EXCEPT !.late = TRUE] BY <2>1, <2>3, <3>1
      <4>2. sessions[i] \in Session BY <3>1 DEF TypeOK, SessionsOf
      <4> QED BY <3>1, <4>1, <4>2 DEF Session, SessionsOf
    <3>2. CASE i \notin SessionsOf(u) BY <2>1, <2>3, <3>2 DEF SessionsOf
    <3> QED BY <3>1, <3>2
  <2>4. ASSUME NEW i \in Ids PROVE Fits(i)'
    <3>1. Fits(i) BY DEF FitInv
    <3>2. CASE sessions'[i] # NoSession /\ sessions[i].user = u
      <4>1. sessions'[i].late = TRUE /\ sessions'[i].user = u BY <2>3, <3>2
      <4>2. u \in Users BY <2>3, <3>2, SessionMoves DEF TypeOK
      <4>3. users'[u].state # "new" BY <1>0, <2>1, <2>2, <4>2
      <4> QED BY <4>1, <4>3, Zenon DEF Fits
    <3>3. CASE sessions'[i] # NoSession /\ sessions[i].user # u
      <4>1. sessions'[i] = sessions[i] /\ sessions[i] # NoSession BY <2>3, <3>3
      <4>2. sessions[i].user \in Users BY <4>1, SessionMoves DEF TypeOK
      <4>3. users'[sessions[i].user] = users[sessions[i].user] BY <1>0, <2>1, <3>3, <4>2
      <4> QED BY <3>1, <4>1, <4>3, FitsKept
    <3>4. CASE sessions'[i] = NoSession BY <3>4 DEF Fits
    <3> QED BY <3>2, <3>3, <3>4
  <2> QED BY <1>1, <1>2, <2>3, <2>4, FitInvKept
<1> QED BY <1>3, <1>4

\* Who asks to change their password has the session they ask through.
LEMMA AskFits ==
    ASSUME TypeOK, FitInv, NEW a \in Reqs, AskPassword(a)
    PROVE  FitInv'
<1>0. ReqOK /\ opened \in 0 .. MaxSessions /\ sessions \in [Ids -> Session \cup {NoSession}] BY DEF TypeOK, ReqOK
<1>1. PICK i \in Ids :
         /\ Uses(i)
         /\ req' = [req EXCEPT ![a] = [Idle EXCEPT !.op = "password", !.sid = i,
                                                   !.target = sessions[i].user, !.pc = "password"]]
  BY Zenon DEF AskPassword
<1> DEFINE r == [Idle EXCEPT !.op = "password", !.sid = i, !.target = sessions[i].user, !.pc = "password"]
<1>2. r.sid = i /\ r.target = sessions[i].user BY DEF Idle
<1> HIDE DEF r
<1>3. UNCHANGED <<users, opened>> BY DEF AskPassword
<1>4. sessions[i] # NoSession /\ sessions' = [sessions EXCEPT ![i].left = Lifetime] BY <1>1 DEF Uses, UserForToken
<1>5. ASSUME NEW j \in Ids
      PROVE  /\ sessions'[j] # NoSession => sessions[j] # NoSession
             /\ sessions[j] # NoSession =>
                   /\ sessions'[j].user = sessions[j].user /\ sessions'[j].password = sessions[j].password
                   /\ sessions'[j].late = sessions[j].late
  <2>1. sessions'[j] = IF j = i THEN [sessions[i] EXCEPT !.left = Lifetime] ELSE sessions[j] BY <1>0, <1>4
  <2> QED BY <1>4, <2>1, SameSession
<1>6. ASSUME NEW j \in Ids PROVE Fits(j)'
  <2>1. Fits(j) BY DEF FitInv
  <2> QED BY <1>3, <1>5, <2>1, FitsKept
<1>7. \A j \in Ids : j > opened' => sessions'[j] = NoSession
  <2> SUFFICES ASSUME NEW j \in Ids, j > opened PROVE sessions'[j] = NoSession BY <1>3
  <2>1. sessions[j] = NoSession BY DEF FitInv
  <2> QED BY <1>0, <1>4, <2>1
<1>8. ASSUME NEW b \in Reqs, req'[b].pc = "password"
      PROVE  LET j == req'[b].sid
             IN  j \in Ids /\ j <= opened' /\ (sessions'[j] # NoSession => sessions'[j].user = req'[b].target)
  <2>1. CASE b = a
    <3>1. req'[b] = r BY <1>0, <1>1, <2>1 DEF r, ReqOK
    <3>2. i <= opened BY <1>0, <1>4 DEF FitInv, Ids
    <3> QED BY <1>2, <1>3, <1>4, <1>5, <3>1, <3>2
  <2>2. CASE b # a
    <3>1. req'[b] = req[b] BY <1>0, <1>1, <2>2 DEF ReqOK
    <3>2. req[b].sid \in Ids /\ req[b].sid <= opened
          /\ (sessions[req[b].sid] # NoSession => sessions[req[b].sid].user = req[b].target)
      BY <1>8, <3>1 DEF FitInv
    <3> QED BY <1>3, <1>5, <3>1, <3>2
  <2> QED BY <2>1, <2>2
<1> QED BY <1>6, <1>7, <1>8 DEF FitInv

\* A release leaves the passwords, only their hashes are old; nobody asks for one any more.
LEMMA UpgradeFits ==
    ASSUME TypeOK, FitInv, Upgrade
    PROVE  FitInv'
<1>1. UNCHANGED <<sessions, opened>> /\ \A a \in Reqs : req'[a].pc = "idle" BY IdleRequest DEF Upgrade
<1>2. ASSUME NEW u \in Users
      PROVE  /\ users'[u].state = users[u].state /\ users'[u].password = users[u].password
             /\ users'[u].disabled = users[u].disabled
  <2>1. CASE ~Live(u)
    <3>1. users'[u] = users[u] BY <2>1 DEF Upgrade
    <3> QED BY <3>1, Zenon
  <2>2. CASE Live(u)
    <3>1. users'[u] = [users[u] EXCEPT !.old = TRUE] BY <2>2 DEF Upgrade
    <3>2. users[u] \in User BY <2>2, Rows DEF Live, TypeOK, Row
    <3> QED BY <3>1, <3>2 DEF User
  <2> QED BY <2>1, <2>2
<1>3. ASSUME NEW i \in Ids PROVE Fits(i)'
  <2>1. Fits(i) BY DEF FitInv
  <2>2. CASE sessions[i] # NoSession
    <3>1. sessions[i].user \in Users BY <2>2, SessionMoves DEF TypeOK
    <3> QED BY <1>1, <1>2, <2>1, <2>2, <3>1, Zenon DEF Fits
  <2>3. CASE sessions[i] = NoSession BY <1>1, <2>3 DEF Fits
  <2> QED BY <2>2, <2>3
<1> QED BY <1>1, <1>3, FitInvKept

\* Time takes nothing from a session but what it has left.
LEMMA TimeFits ==
    ASSUME TypeOK, FitInv, Time
    PROVE  FitInv'
<1>1. UNCHANGED <<users, opened, req>> BY DEF Time
<1>2. ASSUME NEW j \in Ids, sessions'[j] # NoSession
      PROVE  /\ sessions[j] # NoSession
             /\ sessions'[j].user = sessions[j].user /\ sessions'[j].password = sessions[j].password
             /\ sessions'[j].late = sessions[j].late
  <2>1. sessions'[j] = sessions[j] \/ (sessions[j] # NoSession
                                       /\ sessions'[j] = [sessions[j] EXCEPT !.left = @ - 1])
    BY DEF Time
  <2>2. CASE sessions'[j] = sessions[j] BY <1>2, <2>2, Zenon
  <2>3. CASE sessions[j] # NoSession /\ sessions'[j] = [sessions[j] EXCEPT !.left = sessions[j].left - 1]
    <3>1. sessions[j] \in Session BY <2>3 DEF TypeOK
    <3> QED BY <2>3, <3>1 DEF Session
  <2> QED BY <2>1, <2>2, <2>3
<1>3. ASSUME NEW j \in Ids PROVE Fits(j)'
  <2>1. Fits(j) BY DEF FitInv
  <2> QED BY <1>1, <1>2, <2>1, FitsKept
<1> QED BY <1>1, <1>2, <1>3, FitInvKept

\* What a request of an administrator goes on with asks for no password.
LEMMA BegunAsks ==
    ASSUME NEW op, NEW u
    PROVE  Begun(op, u).pc # "password"
<1> DEFINE r == [Idle EXCEPT !.op = op, !.target = u, !.writes = Changed(users[u], op) # users[u]]
           pc == CASE op = "grant" -> "grant" [] op = "create" -> "insert"
                   [] OTHER -> IF Loses(r, users[u]) THEN "count" ELSE "commit"
<1>1. Begun(op, u) = [r EXCEPT !.pc = pc] BY Zenon DEF Begun
<1>2. pc \in {"grant", "insert", "count", "commit"} OBVIOUS
<1>3. [r EXCEPT !.pc = pc].pc = pc
  <2>1. "pc" \in DOMAIN r BY DEF Idle
  <2> HIDE DEF pc
  <2> QED BY <2>1 DEF Idle
<1> HIDE DEF r, pc
<1> QED BY <1>1, <1>2, <1>3

\* Every step keeps the sessions fitting.
LEMMA FitStep ==
    ASSUME TypeOK, FitInv, [Next]_vars
    PROVE  FitInv'
<1>0. ReqOK BY DEF TypeOK, ReqOK
<1>1. CASE UNCHANGED vars BY <1>1, FitUsed DEF vars
<1>2. CASE CliRead \/ CliSessions BY <1>2, FitUsed DEF CliRead, CliSessions, data
<1>3. CASE CliCommit BY <1>3, CliFits
<1>4. CASE Time BY <1>4, TimeFits
<1>up. CASE Upgrade BY <1>up, UpgradeFits
<1>5. ASSUME NEW a \in Reqs, Login(a) PROVE FitInv'
  <2>1. PICK u \in Users :
           /\ Live(u) /\ ~users[u].disabled
           /\ req' = [req EXCEPT ![a] = [Idle EXCEPT !.op = "login", !.target = u, !.password = users[u].password,
                                                     !.writes = users[u].old, !.pc = "open"]]
    BY <1>5, Zenon DEF Login
  <2> DEFINE r == [Idle EXCEPT !.op = "login", !.target = u, !.password = users[u].password,
                               !.writes = users[u].old, !.pc = "open"]
  <2>2. r.pc # "password" BY DEF Idle
  <2>3. req' = [req EXCEPT ![a] = r] BY <2>1
  <2> HIDE DEF r
  <2>4. UNCHANGED <<users, opened, sessions>> BY <1>5 DEF Login, data
  <2> QED BY <1>0, <2>2, <2>3, <2>4, OtherAsks, FitUsed
<1>6. ASSUME NEW a \in Reqs, Logout(a) PROVE FitInv'
  <2>1. UNCHANGED <<users, opened, req>> BY <1>6 DEF Logout
  <2>2. \A i \in Ids : sessions'[i] # NoSession => sessions'[i] = sessions[i] BY <1>6 DEF Logout, Without
  <2>3. \A i \in Ids : sessions'[i] # NoSession => sessions[i] # NoSession BY <2>2
  <2>4. ASSUME NEW i \in Ids PROVE Fits(i)'
    <3>1. Fits(i) BY DEF FitInv
    <3> QED BY <2>1, <2>2, <2>3, <3>1, FitsKept
  <2> QED BY <2>1, <2>2, <2>3, <2>4, FitInvKept
<1>7. ASSUME NEW a \in Reqs, Target(a) PROVE FitInv'
  <2>1. PICK i \in Ids, op \in Ops \ {"login", "logout", "password"}, u \in Users :
           Uses(i) /\ req' = [req EXCEPT ![a] = Begun(op, u)]
    BY <1>7, Zenon DEF Target
  <2>2. UNCHANGED <<users, opened>> BY <1>7 DEF Target
  <2> QED BY <1>0, <2>1, <2>2, BegunAsks, OtherAsks, FitUsed
<1>8. ASSUME NEW a \in Reqs, Count(a) PROVE FitInv'
  <2>1. UNCHANGED <<users, opened, sessions>> BY <1>8 DEF Count, data
  <2>2. CASE Finish(a) BY <1>0, <2>1, <2>2, FinishAsks, FitUsed
  <2>3. CASE ~Finish(a)
    <3> DEFINE r == [req[a] EXCEPT !.pc = "commit", !.admins = Cardinality(ActiveAdmins)]
    <3>1. req' = [req EXCEPT ![a] = r] BY <1>8, <2>3 DEF Count
    <3>2. r.pc = "commit" BY <1>0 DEF ReqOK, Request
    <3> HIDE DEF r
    <3> QED BY <1>0, <2>1, <3>1, <3>2, OtherAsks, FitUsed
  <2> QED BY <2>2, <2>3
<1>9. ASSUME NEW a \in Reqs, SetAccess(a) PROVE FitInv'
  <2>1. Finish(a) /\ UNCHANGED <<users, sessions, opened>> BY <1>9 DEF SetAccess
  <2> QED BY <1>0, <2>1, FinishAsks, FitUsed
<1>10. ASSUME NEW a \in Reqs, OpenSession(a) \/ AskPassword(a) \/ ChangePassword(a) \/ UpdateUser(a)
       PROVE  FitInv'
  BY <1>10, OpenFits, AskFits, PasswordFits, UpdateFits
<1>11. ASSUME NEW a \in Reqs, DeleteUser(a) \/ CreateUser(a) PROVE FitInv' BY <1>11, RowFits
<1> QED BY <1>1, <1>2, <1>3, <1>4, <1>up, <1>5, <1>6, <1>7, <1>8, <1>9, <1>10, <1>11 DEF Next, Serve

\* Sessions follow what becomes of their user, but for those on their way: one that can be
\* used has its user's password, and a disabled user has none.
THEOREM SessionsAlwaysFit == Spec => []SessionsFit
<1>1. Init => FitInv
  <2> SUFFICES ASSUME Init PROVE FitInv OBVIOUS
  <2> QED BY IdleRequest DEF Init, FitInv, Fits
<1>2. TypeOK /\ FitInv /\ [Next]_vars => FitInv' BY FitStep
<1>3. FitInv => SessionsFit
  <2> SUFFICES ASSUME FitInv, NEW i \in Ids, sessions[i] # NoSession, ~sessions[i].late
               PROVE  /\ ~users[sessions[i].user].disabled
                      /\ sessions[i].password = users[sessions[i].user].password
    BY Zenon DEF SessionsFit, OwnPassword, NoneDisabled, UserForToken
  <2> QED BY Zenon DEF FitInv, Fits
<1> QED BY <1>1, <1>2, <1>3, TypeCorrect, PTL DEF Spec

=============================================================================
