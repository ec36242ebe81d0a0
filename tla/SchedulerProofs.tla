---------------------------- MODULE SchedulerProofs ----------------------------
(***************************************************************************)
(* Proofs about Scheduler, for any schedules, requests, timetables and     *)
(* bounds: the types, that a run missed while the panel was down is not    *)
(* made up for, that no due time is run twice but after a tick that could  *)
(* not be written down; and, with one request at a time, that an enabled   *)
(* schedule has a time to run at.                                          *)
(***************************************************************************)
EXTENDS Scheduler, WellFoundedInduction, TLAPS

\* The next time of a timetable is later, and not later than one run of it.
LEMMA NextRunLater ==
    ASSUME NEW cron \in Nat \ {0}, NEW t \in Nat
    PROVE  NextRun(cron, t) \in Nat /\ t < NextRun(cron, t) /\ NextRun(cron, t) <= t + cron
<1>1. t \div cron \in Nat /\ t % cron \in 0 .. cron - 1 /\ t = cron * (t \div cron) + (t % cron) OBVIOUS
<1> DEFINE q == t \div cron
<1>2. NextRun(cron, t) = (q + 1) * cron BY DEF NextRun
<1>3. (q + 1) * cron = cron * q + cron BY <1>1
<1> HIDE DEF q
<1>4. cron * q \in Nat BY <1>1 DEF q
<1> QED BY <1>1, <1>2, <1>3, <1>4 DEF q

\* A tick holds the timetables of rows that were there, and a request at work is
\* about a schedule.
Sound ==
    /\ loop.left \subseteq loop.due /\ (loop.pc # "run" => loop.left = {})
    /\ \A s \in loop.due : loop.held[s].cron # None
    /\ \A a \in Reqs : req[a].pc # "idle" => req[a].id \in Schedules

TypeInv == TypeOK /\ Sound

LEMMA Nothing ==
    /\ StoppedLoop \in Loop /\ StoppedLoop.pc = "down" /\ StoppedLoop.since = 0 /\ StoppedLoop.due = {}
    /\ Idle \in Request /\ Idle.pc = "idle" /\ NoRow \in Row /\ GoneRow \in Row /\ NoChange \in Change
<1>1. StoppedLoop \in Loop /\ StoppedLoop.pc = "down" /\ StoppedLoop.since = 0 /\ StoppedLoop.due = {}
  BY DEF StoppedLoop, Loop, NoneHeld, HeldRow, None
<1>2. NoRow \in Row /\ GoneRow \in Row BY DEF Row, NoRow, GoneRow
<1>3. NoChange \in Change BY DEF NoChange, Change, None
<1>4. Idle \in Request /\ Idle.pc = "idle" BY <1>2, <1>3 DEF Idle, Request
<1> QED BY <1>1, <1>2, <1>3, <1>4

\* A live row keeps its type when its time is moved on, and by any change that is written.
LEMMA RowTypes ==
    ASSUME NEW row \in Row, row.state = "live"
    PROVE  /\ row \in LiveRow
           /\ \A n \in Nat : [row EXCEPT !.next = n] \in LiveRow
           /\ \A change \in Change : Merged(row, change) \in LiveRow
<1>1. row \in LiveRow BY DEF Row, NoRow, GoneRow
<1>2. \A n \in Nat : [row EXCEPT !.next = n] \in LiveRow BY <1>1 DEF LiveRow
<1>3. ASSUME NEW change \in Change PROVE Merged(row, change) \in LiveRow
  BY <1>1, <1>3 DEF Merged, LiveRow, Change, None
<1> QED BY <1>1, <1>2, <1>3

\* What a request for a schedule writes.
LEMMA BodyTypes ==
    ASSUME TypeOK, NEW body \in Bodies
    PROVE  /\ body \in [cron : Nat \ {0}, action : AllActions, enabled : BOOLEAN]
           /\ NewTime(body) \in Nat
           /\ NewTime(body) # None => clock < NewTime(body) /\ NewTime(body) <= clock + body.cron
           /\ NewTime(body) = None <=> ~body.enabled
           /\ \A held \in Row : Changes(held, body, NewTime(body)) \in Change
           /\ LET row == Merged(NoRow, Changes(NoRow, body, NewTime(body)))
             IN  /\ row \in LiveRow /\ row.cron = body.cron /\ row.next = NewTime(body)
                 /\ row.enabled => body.enabled
<1>1. body \in [cron : Nat \ {0}, action : AllActions, enabled : BOOLEAN] BY BodiesAssumption
<1>2. clock \in Nat BY BoundsAssumption DEF TypeOK
<1>3. /\ NewTime(body) \in Nat
      /\ NewTime(body) # None => clock < NewTime(body) /\ NewTime(body) <= clock + body.cron
      /\ NewTime(body) = None <=> ~body.enabled
  <2>1. /\ NextRun(body.cron, clock) \in Nat /\ clock < NextRun(body.cron, clock)
        /\ NextRun(body.cron, clock) <= clock + body.cron
    BY <1>1, <1>2, NextRunLater
  <2>2. CASE body.enabled = TRUE BY <1>2, <2>1, <2>2 DEF NewTime, None
  <2>3. CASE body.enabled = FALSE BY <2>3 DEF NewTime, None
  <2> QED BY <1>1, <2>2, <2>3
<1>4. \A held \in Row : Changes(held, body, NewTime(body)) \in Change
  BY <1>1, <1>3 DEF Changes, Change, None
<1>5. LET row == Merged(NoRow, Changes(NoRow, body, NewTime(body)))
      IN  /\ row \in LiveRow /\ row.cron = body.cron /\ row.next = NewTime(body)
          /\ row.enabled => body.enabled
  <2> DEFINE n == NewTime(body)
             c == Changes(NoRow, body, n)
  <2>0. n \in Nat BY <1>3
  <2> HIDE DEF n
  <2>1. /\ c.cron = body.cron /\ c.action = body.action
        /\ c.enabled = (IF body.enabled THEN "yes" ELSE "same")
        /\ c.next = (IF n = None THEN -1 ELSE n)
    <3>1. NoRow.cron = 0 /\ NoRow.action = "none" /\ NoRow.enabled = FALSE /\ NoRow.next = 0 BY DEF NoRow, None
    <3>2. body.cron # 0 /\ body.action # "none" BY <1>1 DEF AllActions
    <3>3. CASE body.enabled = TRUE BY <3>1, <3>2, <3>3 DEF Changes, None
    <3>4. CASE body.enabled = FALSE BY <3>1, <3>2, <3>4 DEF Changes, None
    <3> QED BY <1>1, <3>3, <3>4
  <2> HIDE DEF c
  <2>2. c.cron # None /\ c.action # "same" BY <1>1, <2>1 DEF None, AllActions
  <2> DEFINE row == Merged(NoRow, c)
  <2>3. row.state = "live" /\ row.cron = body.cron /\ row.action = body.action /\ row.next = n
    BY <1>1, <2>0, <2>1, <2>2 DEF Merged, NoRow, None
  <2>4. row.enabled \in BOOLEAN /\ (row.enabled => body.enabled)
    <3>1. CASE body.enabled = TRUE BY <2>1, <3>1 DEF Merged, NoRow
    <3>2. CASE body.enabled = FALSE BY <2>1, <3>2 DEF Merged, NoRow
    <3> QED BY <1>1, <3>1, <3>2
  <2>5. row \in [state : {"live"}, cron : Nat, action : AllActions \cup {"none"}, enabled : BOOLEAN, next : Nat]
    <3>1. NoRow \in [state : {"new"}, cron : Nat, action : AllActions \cup {"none"}, enabled : BOOLEAN, next : Nat]
      BY DEF NoRow, None
    <3>2. c \in Change BY <1>4, Nothing DEF c, n
    <3> QED BY <3>1, <3>2 DEF Merged, Change, None
  <2> HIDE DEF row
  <2>6. row \in LiveRow BY <1>1, <2>0, <2>3, <2>4, <2>5 DEF LiveRow
  <2> QED BY <2>3, <2>4, <2>6 DEF row, c, n
<1> QED BY <1>1, <1>3, <1>4, <1>5
----------------------------------------------------------------------------
RowsOK == rows \in [Schedules -> Row]
ReqOK == req \in [Reqs -> Request]
TimesOK == clock \in Nat /\ ran \in [Schedules -> SUBSET Nat] /\ unsaved \in [Schedules -> SUBSET Nat]

LEMMA Parts ==
    ASSUME TypeInv
    PROVE  /\ RowsOK /\ ReqOK /\ TimesOK /\ loop \in Loop
           /\ \A s \in loop.due : s \in Schedules /\ loop.held[s].cron \in Nat \ {0} /\ loop.held[s].next \in Nat
           /\ loop.left \subseteq loop.due /\ (loop.pc # "run" => loop.left = {})
BY BoundsAssumption DEF TypeInv, TypeOK, Sound, RowsOK, ReqOK, TimesOK, Loop, HeldRow, None

\* A batch of rows moves on within the types, if they are all still there.
LEMMA MovedOnRows ==
    ASSUME TypeInv, \A s \in loop.due : Live(s)
    PROVE  /\ MovedOn \in [Schedules -> Row]
           /\ \A s \in Schedules : s \notin loop.due => MovedOn[s] = rows[s]
           /\ \A s \in loop.due : /\ MovedOn[s] = [rows[s] EXCEPT !.next = NextRun(loop.held[s].cron, loop.now)]
                                  /\ MovedOn[s] \in LiveRow
                                  /\ MovedOn[s].cron = rows[s].cron /\ MovedOn[s].enabled = rows[s].enabled
                                  /\ MovedOn[s].next = NextRun(loop.held[s].cron, loop.now)
                                  /\ loop.now < MovedOn[s].next
                                  /\ MovedOn[s].next <= loop.now + loop.held[s].cron
<1>0. RowsOK /\ loop.now \in Nat BY Parts DEF Loop
<1>1. ASSUME NEW s \in loop.due
      PROVE  /\ s \in Schedules /\ rows[s] \in LiveRow
             /\ NextRun(loop.held[s].cron, loop.now) \in Nat
             /\ loop.now < NextRun(loop.held[s].cron, loop.now)
             /\ NextRun(loop.held[s].cron, loop.now) <= loop.now + loop.held[s].cron
  <2>1. s \in Schedules /\ loop.held[s].cron \in Nat \ {0} BY Parts
  <2>2. rows[s] \in LiveRow BY <1>0, <2>1, RowTypes DEF Live, RowsOK
  <2> QED BY <1>0, <2>1, <2>2, NextRunLater
<1>2. ASSUME NEW s \in loop.due
      PROVE  LET row == [rows[s] EXCEPT !.next = NextRun(loop.held[s].cron, loop.now)]
             IN  /\ row \in LiveRow
                 /\ row.cron = rows[s].cron /\ row.enabled = rows[s].enabled
                 /\ row.next = NextRun(loop.held[s].cron, loop.now)
  <2> DEFINE n == NextRun(loop.held[s].cron, loop.now)
  <2>1. n \in Nat /\ rows[s] \in LiveRow BY <1>1
  <2> HIDE DEF n
  <2>2. LET row == [rows[s] EXCEPT !.next = n]
        IN  /\ row \in LiveRow /\ row.cron = rows[s].cron /\ row.enabled = rows[s].enabled /\ row.next = n
    BY <2>1 DEF LiveRow
  <2> QED BY <2>2 DEF n
<1>3. \A s \in Schedules : MovedOn[s] = IF s \in loop.due
                              THEN [rows[s] EXCEPT !.next = NextRun(loop.held[s].cron, loop.now)] ELSE rows[s]
  BY DEF MovedOn
<1>4. MovedOn \in [Schedules -> Row]
  <2>1. \A s \in Schedules : MovedOn[s] \in Row BY <1>0, <1>2, <1>3 DEF Row, RowsOK
  <2> QED BY <2>1 DEF MovedOn
<1>5. ASSUME NEW s \in loop.due
      PROVE  /\ MovedOn[s] = [rows[s] EXCEPT !.next = NextRun(loop.held[s].cron, loop.now)]
             /\ MovedOn[s] \in LiveRow
             /\ MovedOn[s].cron = rows[s].cron /\ MovedOn[s].enabled = rows[s].enabled
             /\ MovedOn[s].next = NextRun(loop.held[s].cron, loop.now)
  <2>1. MovedOn[s] = [rows[s] EXCEPT !.next = NextRun(loop.held[s].cron, loop.now)] BY <1>1, <1>3
  <2> QED BY <1>2, <2>1
<1>6. \A s \in Schedules : s \notin loop.due => MovedOn[s] = rows[s] BY <1>3
<1>7. \A s \in loop.due : loop.now < MovedOn[s].next /\ MovedOn[s].next <= loop.now + loop.held[s].cron
  BY <1>1, <1>5
<1> QED BY <1>4, <1>5, <1>6, <1>7

\* What a read of the due rows holds.
LEMMA DueTypes ==
    ASSUME TypeInv, NEW t \in Nat
    PROVE  /\ DueAt(t) \in SUBSET Schedules
           /\ Held(DueAt(t)) \in [Schedules -> HeldRow]
           /\ \A s \in DueAt(t) : /\ rows[s] \in LiveRow /\ rows[s].enabled /\ rows[s].next \in 1 .. t
                                  /\ Held(DueAt(t))[s].cron = rows[s].cron
                                  /\ Held(DueAt(t))[s].next = rows[s].next
<1>0. RowsOK BY Parts
<1>1. /\ DueAt(t) \in SUBSET Schedules
      /\ \A s \in DueAt(t) : rows[s].state = "live" /\ rows[s].next \in 1 .. t
  BY DEF DueAt, Live
<1>2. \A s \in DueAt(t) : rows[s].enabled BY Zenon DEF DueAt
<1>3. \A s \in DueAt(t) : rows[s] \in LiveRow BY <1>0, <1>1, RowTypes DEF RowsOK
<1> HIDE DEF DueAt
<1>4. \A s \in DueAt(t) : rows[s].cron \in Nat \ {0} /\ rows[s].next \in Nat BY <1>3 DEF LiveRow
<1>5. Held(DueAt(t)) \in [Schedules -> HeldRow] BY <1>1, <1>4 DEF Held, HeldRow, None
<1>6. \A s \in DueAt(t) : Held(DueAt(t))[s].cron = rows[s].cron /\ Held(DueAt(t))[s].next = rows[s].next
  BY <1>1 DEF Held
<1> QED BY <1>1, <1>2, <1>3, <1>5, <1>6

LEMMA SleepType ==
    ASSUME TypeInv, Sleep
    PROVE  /\ loop' \in Loop /\ loop'.pc = "asleep" /\ loop'.left = {} /\ loop'.due = {}
           /\ loop'.since = loop.since
<1>1. loop \in Loop /\ clock \in Nat /\ MaxTime \in Nat BY Parts, BoundsAssumption DEF TimesOK
<1>2. NoneHeld \in [Schedules -> HeldRow] BY DEF NoneHeld, HeldRow, None
<1> DEFINE wake == IF clock < MaxTime THEN clock + 1 ELSE MaxTime
<1>3. loop' = [loop EXCEPT !.pc = "asleep", !.wake = wake, !.now = 0, !.due = {}, !.left = {},
                           !.held = NoneHeld, !.locks = FALSE]
  BY Zenon DEF Sleep
<1>4. wake \in Nat BY <1>1
<1>5. \A w \in Nat, h \in [Schedules -> HeldRow] :
         LET l == [loop EXCEPT !.pc = "asleep", !.wake = w, !.now = 0, !.due = {}, !.left = {}, !.held = h,
                               !.locks = FALSE]
         IN  l \in Loop /\ l.pc = "asleep" /\ l.left = {} /\ l.due = {} /\ l.since = loop.since
  BY <1>1 DEF Loop
<1> HIDE DEF wake
<1>6. LET l == [loop EXCEPT !.pc = "asleep", !.wake = wake, !.now = 0, !.due = {}, !.left = {},
                            !.held = NoneHeld, !.locks = FALSE]
      IN  l \in Loop /\ l.pc = "asleep" /\ l.left = {} /\ l.due = {} /\ l.since = loop.since
  BY <1>2, <1>4, <1>5, Zenon
<1> QED BY <1>3, <1>6, Zenon

\* What one execution changes.
LEMMA Executes ==
    ASSUME TypeInv, Execute
    PROVE  /\ loop.pc = "run" /\ rows' = rows /\ unsaved' = unsaved
           /\ loop' \in Loop /\ loop'.pc \in {"run", "commit"} /\ loop'.left \subseteq loop.left
           /\ (loop'.pc # "run" => loop'.left = {})
           /\ loop'.since = loop.since /\ loop'.now = loop.now /\ loop'.due = loop.due /\ loop'.held = loop.held
           /\ \E s \in loop.left :
                 /\ loop'.left = loop.left \ {s}
                 /\ ran' = [ran EXCEPT ![s] = @ \cup {loop.held[s].next}]
<1>0. loop \in Loop BY Parts
<1>1. loop.pc = "run" /\ rows' = rows /\ unsaved' = unsaved BY Zenon DEF Execute
<1>2. PICK s \in loop.left, flush \in BOOLEAN :
         /\ loop' = [loop EXCEPT !.left = @ \ {s}, !.pc = IF loop.left = {s} THEN "commit" ELSE "run",
                                 !.locks = @ \/ (flush /\ Done # {})]
         /\ ran' = [ran EXCEPT ![s] = @ \cup {loop.held[s].next}]
  BY Zenon DEF Execute
<1>3. (loop.locks \/ (flush /\ Done # {})) \in BOOLEAN BY <1>0 DEF Loop
<1>4. ASSUME NEW locks \in BOOLEAN
      PROVE  LET l == [loop EXCEPT !.left = loop.left \ {s}, !.pc = IF loop.left = {s} THEN "commit" ELSE "run",
                                   !.locks = locks]
             IN  /\ l \in Loop /\ l.left = loop.left \ {s} /\ l.since = loop.since /\ l.now = loop.now
                 /\ l.due = loop.due /\ l.held = loop.held
                 /\ l.pc = (IF loop.left = {s} THEN "commit" ELSE "run")
  BY <1>0 DEF Loop
<1> DEFINE L == loop.locks \/ (flush /\ Done # {})
<1>5. loop' = [loop EXCEPT !.left = loop.left \ {s}, !.pc = IF loop.left = {s} THEN "commit" ELSE "run",
                           !.locks = L]
  BY <1>2
<1> HIDE DEF L
<1>6. /\ loop' \in Loop /\ loop'.left = loop.left \ {s} /\ loop'.since = loop.since /\ loop'.now = loop.now
      /\ loop'.due = loop.due /\ loop'.held = loop.held
      /\ loop'.pc = (IF loop.left = {s} THEN "commit" ELSE "run")
  BY <1>3, <1>4, <1>5 DEF L
<1> QED BY <1>1, <1>2, <1>6

\* A tick that fails, at an execution or at its end, and one that is written down.
LEMMA Fails ==
    ASSUME TypeInv, TickFails
    PROVE  /\ Sleep /\ rows' = rows /\ ran' = ran
           /\ unsaved' \in [Schedules -> SUBSET Nat]
           /\ \A s \in Schedules : unsaved[s] \subseteq unsaved'[s]
           /\ \A s \in Done : Live(s) => loop.held[s].next \in unsaved'[s]
<1>0. /\ unsaved \in [Schedules -> SUBSET Nat] /\ Done \subseteq Schedules
      /\ \A s \in Done : loop.held[s].next \in Nat
  BY Parts DEF TimesOK, Done
<1>1. Sleep /\ rows' = rows /\ ran' = ran BY Zenon DEF TickFails
<1>2. unsaved' = [s \in Schedules |-> unsaved[s] \cup IF s \in Done /\ Live(s) THEN {loop.held[s].next} ELSE {}]
  BY Zenon DEF TickFails
<1> QED BY <1>0, <1>1, <1>2

LEMMA TickEnds ==
    ASSUME TickCommit
    PROVE  /\ loop.pc = "commit"
           /\ \/ /\ \A s \in loop.due : Live(s)
                 /\ rows' = MovedOn /\ Sleep /\ ran' = ran /\ unsaved' = unsaved
              \/ TickFails
BY Zenon DEF TickCommit, history

\* The loop's steps keep the types.
LEMMA LoopType ==
    ASSUME TypeInv, LoopStep
    PROVE  TypeInv'
<1>0. /\ RowsOK /\ ReqOK /\ TimesOK /\ loop \in Loop /\ clock \in 0 .. MaxTime /\ ends \in 0 .. MaxEvents
      /\ \A s \in loop.due : s \in Schedules /\ loop.held[s].cron \in Nat \ {0} /\ loop.held[s].next \in Nat
      /\ loop.left \subseteq loop.due /\ (loop.pc # "run" => loop.left = {})
  BY Parts DEF TypeInv, TypeOK
<1>1. req' = req /\ clock' = clock /\ ends' = ends
  BY Zenon DEF LoopStep, SkipMissed, SkipCommit, Wake, Execute, ExecuteFails, TickCommit, TickFails, history
<1>2. clock \in Nat BY <1>0 DEF TimesOK
<1>4. ASSUME loop' \in Loop, loop'.left \subseteq loop'.due, loop'.pc # "run" => loop'.left = {},
             \A s \in loop'.due : loop'.held[s].cron # None,
             rows' \in [Schedules -> Row], ran' \in [Schedules -> SUBSET Nat],
             unsaved' \in [Schedules -> SUBSET Nat]
      PROVE  TypeInv'
  <2>1. Sound' BY <1>1, <1>4 DEF TypeInv, Sound
  <2> QED BY <1>0, <1>1, <1>4, <2>1 DEF TypeInv, TypeOK, ReqOK
<1>5. ASSUME Sleep, rows' \in [Schedules -> Row], ran' \in [Schedules -> SUBSET Nat],
             unsaved' \in [Schedules -> SUBSET Nat]
      PROVE  TypeInv'
  BY <1>4, <1>5, SleepType
<1>6. Held(DueAt(clock)) \in [Schedules -> HeldRow] /\ DueAt(clock) \in SUBSET Schedules
      /\ \A s \in DueAt(clock) : Held(DueAt(clock))[s].cron # None
  <2>1. \A s \in DueAt(clock) : rows[s].cron # None BY <1>2, DueTypes DEF LiveRow, None
  <2> QED BY <1>2, <2>1, DueTypes
<1>7. CASE SkipMissed
  <2>1. /\ loop' = [loop EXCEPT !.pc = "skipped", !.now = clock, !.due = DueAt(clock), !.held = Held(DueAt(clock))]
        /\ loop.pc = "skip"
    BY <1>7 DEF SkipMissed
  <2>2. rows' = rows /\ ran' = ran /\ unsaved' = unsaved BY <1>7, Zenon DEF SkipMissed, history
  <2> QED BY <1>0, <1>2, <1>4, <1>6, <2>1, <2>2 DEF Loop, RowsOK, TimesOK
<1>8. CASE SkipCommit
  <2>1. ran' = ran /\ unsaved' = unsaved BY <1>8, Zenon DEF SkipCommit, history
  <2>2. CASE \A s \in loop.due : Live(s)
    BY <1>0, <1>5, <1>8, <2>1, <2>2, MovedOnRows DEF SkipCommit, TimesOK
  <2>3. CASE ~ \A s \in loop.due : Live(s)
    <3>1. loop' = [StoppedLoop EXCEPT !.pc = "dead"] /\ rows' = rows BY <1>8, <2>3 DEF SkipCommit
    <3>2. loop' \in Loop /\ loop'.left = {} /\ loop'.due = {}
      BY <3>1 DEF StoppedLoop, Loop, NoneHeld, HeldRow, None
    <3> QED BY <1>0, <1>4, <2>1, <3>1, <3>2 DEF TimesOK, RowsOK
  <2> QED BY <2>2, <2>3
<1>9. CASE Wake
  <2>1. rows' = rows /\ ran' = ran /\ unsaved' = unsaved BY <1>9, Zenon DEF Wake, history
  <2>2. CASE DueAt(clock) = {} BY <1>0, <1>5, <1>9, <2>1, <2>2 DEF Wake, RowsOK, TimesOK
  <2>3. CASE DueAt(clock) # {}
    <3>1. loop' = [loop EXCEPT !.pc = "run", !.now = clock, !.due = DueAt(clock), !.left = DueAt(clock),
                               !.held = Held(DueAt(clock))]
      BY <1>9, <2>3 DEF Wake
    <3> QED BY <1>0, <1>2, <1>4, <1>6, <2>1, <3>1 DEF Loop, RowsOK, TimesOK
  <2> QED BY <2>2, <2>3
<1>10. CASE Execute
  <2>1. ran' \in [Schedules -> SUBSET Nat] BY <1>0, <1>10, Executes DEF TimesOK
  <2>2. \A s \in loop'.due : loop'.held[s].cron # None BY <1>0, <1>10, Executes DEF None
  <2> QED BY <1>0, <1>4, <1>10, <2>1, <2>2, Executes DEF RowsOK, TimesOK
<1>11. ASSUME TickFails PROVE TypeInv' BY <1>0, <1>5, <1>11, Fails DEF RowsOK, TimesOK
<1>12. CASE TickCommit BY <1>0, <1>5, <1>11, <1>12, TickEnds, MovedOnRows DEF TimesOK
<1>13. CASE ExecuteFails BY <1>11, <1>13 DEF ExecuteFails
<1> QED BY <1>7, <1>8, <1>9, <1>10, <1>12, <1>13 DEF LoopStep

\* What a request that is to commit will write.
LEMMA ApplyType ==
    ASSUME TypeInv, NEW r \in Request, r.id \in Schedules, NEW change \in Change
    PROVE  LET new == [r EXCEPT !.pc = "commit", !.held = NoRow, !.change = change]
           IN  new \in Request /\ new.pc = "commit" /\ new.id = r.id /\ new.change = change
BY Nothing DEF Request

\* The requests' steps keep the types.
LEMMA ServeType ==
    ASSUME TypeInv, NEW a \in Reqs, Serve(a)
    PROVE  TypeInv'
<1>0. /\ RowsOK /\ ReqOK /\ TimesOK /\ loop \in Loop /\ clock \in 0 .. MaxTime /\ ends \in 0 .. MaxEvents
  BY Parts DEF TypeInv, TypeOK
<1>1. loop' = loop /\ clock' = clock /\ ends' = ends
  BY Zenon DEF Serve, Load, Refused, Apply, Create, Update, Delete, RunNow, history
<1>2. ASSUME rows' \in [Schedules -> Row], ran' \in [Schedules -> SUBSET Nat],
             unsaved' \in [Schedules -> SUBSET Nat],
             \/ req' = req
             \/ \E r \in Request : req' = [req EXCEPT ![a] = r] /\ (r.pc # "idle" => r.id \in Schedules)
      PROVE  TypeInv'
  <2>1. req' \in [Reqs -> Request] /\ \A b \in Reqs : req'[b].pc # "idle" => req'[b].id \in Schedules
    BY <1>0, <1>2 DEF ReqOK, TypeInv, Sound
  <2>2. Sound' BY <1>1, <2>1 DEF TypeInv, Sound
  <2> QED BY <1>0, <1>1, <1>2, <2>1, <2>2 DEF TypeInv, TypeOK
<1>3. rows' = rows /\ ran' = ran /\ unsaved' = unsaved =>
         rows' \in [Schedules -> Row] /\ ran' \in [Schedules -> SUBSET Nat] /\ unsaved' \in [Schedules -> SUBSET Nat]
  BY <1>0 DEF RowsOK, TimesOK
<1>4. Finish(a) => \E r \in Request : req' = [req EXCEPT ![a] = r] /\ (r.pc # "idle" => r.id \in Schedules)
  BY Nothing DEF Finish
<1>5. CASE Load(a)
  <2>1. rows' = rows /\ ran' = ran /\ unsaved' = unsaved BY <1>5, Zenon DEF Load, history
  <2>2. PICK op \in Ops \cap {"update", "run"}, s \in Schedules :
           req' = [req EXCEPT ![a] = [Idle EXCEPT !.op = op, !.id = s, !.held = rows[s],
                                                  !.pc = IF op = "run" THEN "execute" ELSE "apply"]]
    BY <1>5, Zenon DEF Load
  <2>3. (IF op = "run" THEN "execute" ELSE "apply") \in {"execute", "apply"} OBVIOUS
  <2>4. \E r \in Request : req' = [req EXCEPT ![a] = r] /\ (r.pc # "idle" => r.id \in Schedules)
    <3>1. \A pc \in {"execute", "apply"} :
             LET r == [Idle EXCEPT !.op = op, !.id = s, !.held = rows[s], !.pc = pc]
             IN  r \in Request /\ r.id = s
      <4>1. rows[s] \in Row /\ op \in Ops BY <1>0, <2>2 DEF RowsOK
      <4> QED BY <4>1, Nothing DEF Request
    <3> QED BY <2>2, <2>3, <3>1
  <2> QED BY <1>2, <1>3, <2>1, <2>4
<1>6. CASE Refused(a)
  <2>1. rows' = rows /\ ran' = ran /\ unsaved' = unsaved /\ Finish(a) BY <1>6, Zenon DEF Refused, history
  <2> QED BY <1>2, <1>3, <1>4, <2>1
<1>7. CASE Apply(a)
  <2>1. rows' = rows /\ ran' = ran /\ unsaved' = unsaved /\ req[a].pc = "apply" BY <1>7, Zenon DEF Apply, history
  <2>2. PICK body \in Bodies :
           req' = [req EXCEPT ![a].pc = "commit", ![a].held = NoRow, ![a].change =
                      Changes(req[a].held, body, NewTime(body))]
    BY <1>7, Zenon DEF Apply
  <2>3. req[a] \in Request /\ req[a].id \in Schedules BY <1>0, <2>1 DEF ReqOK, TypeInv, Sound
  <2>4. Changes(req[a].held, body, NewTime(body)) \in Change BY <2>3, BodyTypes DEF Request, TypeInv
  <2>5. req' = [req EXCEPT ![a] = [req[a] EXCEPT !.pc = "commit", !.held = NoRow,
                                                 !.change = Changes(req[a].held, body, NewTime(body))]]
    <3> DEFINE c == Changes(req[a].held, body, NewTime(body))
    <3>1. req' = [req EXCEPT ![a].pc = "commit", ![a].held = NoRow, ![a].change = c] BY <2>2
    <3> HIDE DEF c
    <3>2. req' = [req EXCEPT ![a] = [req[a] EXCEPT !.pc = "commit", !.held = NoRow, !.change = c]]
      BY <1>0, <3>1 DEF ReqOK
    <3> QED BY <3>2 DEF c
  <2>6. \E r \in Request : req' = [req EXCEPT ![a] = r] /\ (r.pc # "idle" => r.id \in Schedules)
    <3>1. \A c \in Change : LET r == [req[a] EXCEPT !.pc = "commit", !.held = NoRow, !.change = c]
                            IN  r \in Request /\ r.id \in Schedules
      BY <2>3, ApplyType
    <3> QED BY <2>4, <2>5, <3>1
  <2> QED BY <1>2, <1>3, <2>1, <2>6
<1>8. CASE Create(a)
  <2>1. ran' = ran /\ unsaved' = unsaved /\ req' = req BY <1>8, Zenon DEF Create, history
  <2>2. PICK s \in Schedules, body \in Bodies :
           rows' = [rows EXCEPT ![s] = Merged(NoRow, Changes(NoRow, body, NewTime(body)))]
    BY <1>8, Zenon DEF Create
  <2>3. Merged(NoRow, Changes(NoRow, body, NewTime(body))) \in Row BY BodyTypes DEF TypeInv, Row
  <2>4. rows' \in [Schedules -> Row] BY <1>0, <2>2, <2>3 DEF RowsOK
  <2> QED BY <1>0, <1>2, <2>1, <2>4 DEF TimesOK
<1>9. CASE Update(a)
  <2>1. Finish(a) /\ req[a].pc = "commit" BY <1>9, Zenon DEF Update
  <2>2. CASE Live(req[a].id) /\ ~loop.locks
    <3>1. /\ rows' = [rows EXCEPT ![req[a].id] = Merged(rows[req[a].id], req[a].change)]
          /\ ran' = [ran EXCEPT ![req[a].id] = {}] /\ unsaved' = [unsaved EXCEPT ![req[a].id] = {}]
      BY <1>9, <2>2 DEF Update
    <3>2. req[a].id \in Schedules /\ req[a].change \in Change
      BY <1>0, <2>1 DEF ReqOK, TypeInv, Sound, Request
    <3>3. Merged(rows[req[a].id], req[a].change) \in Row
      BY <1>0, <2>2, <3>2, RowTypes DEF Live, RowsOK, Row
    <3>4. rows' \in [Schedules -> Row] BY <1>0, <3>1, <3>2, <3>3 DEF RowsOK
    <3>5. ran' \in [Schedules -> SUBSET Nat] /\ unsaved' \in [Schedules -> SUBSET Nat]
      BY <1>0, <3>1, <3>2 DEF TimesOK
    <3> QED BY <1>2, <1>4, <2>1, <3>4, <3>5
  <2>3. CASE ~ (Live(req[a].id) /\ ~loop.locks)
    <3>1. rows' = rows /\ ran' = ran /\ unsaved' = unsaved BY <1>9, <2>3 DEF Update
    <3> QED BY <1>2, <1>3, <1>4, <2>1, <3>1
  <2> QED BY <2>2, <2>3
<1>10. CASE Delete(a)
  <2>1. req' = req BY <1>10, Zenon DEF Delete
  <2>2. PICK s \in Schedules : /\ rows' = [rows EXCEPT ![s] = GoneRow]
                               /\ ran' = [ran EXCEPT ![s] = {}] /\ unsaved' = [unsaved EXCEPT ![s] = {}]
    BY <1>10, Zenon DEF Delete
  <2>3. rows' \in [Schedules -> Row] BY <1>0, <2>2, Nothing DEF RowsOK
  <2>4. ran' \in [Schedules -> SUBSET Nat] /\ unsaved' \in [Schedules -> SUBSET Nat] BY <1>0, <2>2 DEF TimesOK
  <2> QED BY <1>2, <2>1, <2>3, <2>4
<1>11. CASE RunNow(a)
  <2>1. rows' = rows /\ ran' = ran /\ unsaved' = unsaved /\ Finish(a) BY <1>11, Zenon DEF RunNow, history
  <2> QED BY <1>2, <1>3, <1>4, <2>1
<1> QED BY <1>5, <1>6, <1>7, <1>8, <1>9, <1>10, <1>11 DEF Serve

LEMMA TypeStep == TypeInv /\ [Next]_vars => TypeInv'
<1> SUFFICES ASSUME TypeInv, [Next]_vars PROVE TypeInv'
  OBVIOUS
<1>0. /\ RowsOK /\ ReqOK /\ TimesOK /\ loop \in Loop /\ clock \in 0 .. MaxTime /\ ends \in 0 .. MaxEvents
  BY Parts DEF TypeInv, TypeOK
<1>1. CASE LoopStep BY <1>1, LoopType
<1>2. CASE Minute
  <2>1. /\ rows' = rows /\ loop' = loop /\ req' = req /\ ran' = ran /\ unsaved' = unsaved /\ ends' = ends
        /\ clock' = clock + 1 /\ clock < MaxTime
    BY <1>2 DEF Minute, history
  <2>2. clock' \in 0 .. MaxTime BY <1>0, <2>1, BoundsAssumption
  <2> QED BY <1>0, <2>1, <2>2 DEF TypeInv, TypeOK, Sound
<1>3. CASE PanelEnds
  <2>1. rows' = rows /\ clock' = clock BY <1>3, Zenon DEF PanelEnds
  <2>7. ran' \in [Schedules -> SUBSET Nat] /\ unsaved' \in [Schedules -> SUBSET Nat] BY <1>3 DEF PanelEnds
  <2>2. loop' = StoppedLoop /\ req' = [a \in Reqs |-> Idle] BY <1>3, Zenon DEF PanelEnds
  <2>3. ends' \in 0 .. MaxEvents BY <1>0, <1>3, BoundsAssumption DEF PanelEnds
  <2>4. req' \in [Reqs -> Request] /\ \A a \in Reqs : req'[a].pc = "idle" BY <2>2, Nothing
  <2>5. loop' \in Loop /\ loop'.left = {} /\ loop'.due = {} BY <2>2, Nothing DEF StoppedLoop
  <2>6. Sound' BY <2>4, <2>5 DEF Sound
  <2> QED BY <1>0, <2>1, <2>3, <2>4, <2>5, <2>6, <2>7 DEF TypeInv, TypeOK, RowsOK, TimesOK
<1>4. CASE Start
  <2>1. rows' = rows /\ ran' = ran /\ unsaved' = unsaved /\ clock' = clock /\ req' = req /\ ends' = ends
    BY <1>4, Zenon DEF Start, history
  <2>2. loop' = [StoppedLoop EXCEPT !.pc = "skip", !.since = clock] BY <1>4, Zenon DEF Start
  <2>3. loop' \in Loop /\ loop'.left = {} /\ loop'.due = {}
    BY <1>0, <2>2, Nothing DEF StoppedLoop, Loop, TimesOK
  <2>4. Sound' BY <2>1, <2>3 DEF TypeInv, Sound
  <2> QED BY <1>0, <2>1, <2>3, <2>4 DEF TypeInv, TypeOK, RowsOK, TimesOK, ReqOK
<1>5. CASE \E a \in Reqs : Serve(a) BY <1>5, ServeType
<1>6. CASE UNCHANGED vars BY <1>6 DEF vars, TypeInv, TypeOK, Sound
<1> QED BY <1>1, <1>2, <1>3, <1>4, <1>5, <1>6 DEF Next

LEMMA TypeInit == Init => TypeInv
<1> SUFFICES ASSUME Init PROVE TypeInv
  OBVIOUS
<1>1. req \in [Reqs -> Request] /\ \A a \in Reqs : req[a].pc = "idle" BY Nothing DEF Init
<1>2. loop \in Loop /\ loop.left = {} /\ loop.due = {} BY Nothing DEF Init, StoppedLoop
<1>3. rows \in [Schedules -> Row] BY Nothing DEF Init
<1> QED BY <1>1, <1>2, <1>3, BoundsAssumption DEF Init, TypeInv, TypeOK, Sound

\* Every row, held copy and pending change of a reachable state has its type.
THEOREM TypeCorrect == Spec => []TypeOK
<1>1. TypeInv => TypeOK BY DEF TypeInv
<1> QED BY <1>1, TypeInit, TypeStep, PTL DEF Spec

LEMMA TypeAlways == Spec => []TypeInv
BY TypeInit, TypeStep, PTL DEF Spec
----------------------------------------------------------------------------
(* No due time is made up for, or run and recorded twice. *)

\* A time to run at that is none, or after the panel came up.
Fresh(n) == n = None \/ n > loop.since
Working == loop.pc \in {"skipped", "run", "commit"}
Ticking == loop.pc \in {"run", "commit"}

\* A batch starts after the panel came up, and no request is at work while the panel is down.
Started ==
    /\ loop.since <= clock
    /\ Working => loop.since <= loop.now /\ loop.now <= clock
    /\ loop.pc = "down" => \A a \in Reqs : req[a].pc = "idle"

\* Once skip_missed has read, only the rows it holds may be due from before.
RowsFresh ==
    loop.pc \in {"skipped", "asleep", "run", "commit"} =>
        \A s \in Schedules : \/ ~rows[s].enabled
                             \/ Fresh(rows[s].next)
                             \/ loop.pc = "skipped" /\ s \in loop.due
HeldFresh == Ticking => \A s \in loop.due : loop.held[s].next > loop.since

\* What a request will write is fresh, or leaves a fresh time alone.
ReqFresh(a) ==
    /\ req[a].pc = "apply" /\ Fresh(req[a].held.next) => Fresh(rows[req[a].id].next)
    /\ req[a].pc = "commit" =>
          IF req[a].change.next # -1 THEN Fresh(req[a].change.next)
          ELSE req[a].change.enabled = "yes" => Fresh(rows[req[a].id].next)

MissedInv == Started /\ RowsFresh /\ HeldFresh /\ \A a \in Reqs : ReqFresh(a)

LEMMA RowFields ==
    /\ \A row \in Row : row.next \in Nat /\ row.cron \in Nat /\ row.enabled \in BOOLEAN
    /\ NoRow.next = None /\ GoneRow.next = None /\ GoneRow.state = "gone" /\ NoRow.state = "new"
    /\ GoneRow.cron = None /\ ~GoneRow.enabled /\ ~NoRow.enabled
<1>1. \A row \in LiveRow : row.next \in Nat /\ row.cron \in Nat /\ row.enabled \in BOOLEAN BY DEF LiveRow
<1>2. /\ NoRow.next = None /\ GoneRow.next = None /\ GoneRow.state = "gone" /\ NoRow.state = "new"
      /\ GoneRow.cron = None /\ NoRow.cron = None /\ GoneRow.enabled = FALSE /\ NoRow.enabled = FALSE
  BY DEF NoRow, GoneRow
<1>3. NoRow.next \in Nat /\ NoRow.cron \in Nat /\ GoneRow.next \in Nat /\ GoneRow.cron \in Nat BY <1>2 DEF None
<1> QED BY <1>1, <1>2, <1>3 DEF Row

\* The columns a request writes of the time and of whether the schedule is enabled.
LEMMA ChangeFields ==
    ASSUME NEW held \in Row, NEW body \in Bodies, NEW next \in Nat
    PROVE  /\ Changes(held, body, next).next = (IF next = held.next THEN -1 ELSE next)
           /\ Changes(held, body, next).cron = (IF body.cron = held.cron THEN None ELSE body.cron)
           /\ Changes(held, body, next).enabled = "yes" <=> body.enabled /\ ~held.enabled
           /\ Changes(held, body, next).enabled = "no" <=> ~body.enabled /\ held.enabled
<1>0. body.enabled \in BOOLEAN /\ held.enabled \in BOOLEAN BY BodiesAssumption, RowFields
<1>1. /\ Changes(held, body, next).next = (IF next = held.next THEN -1 ELSE next)
      /\ Changes(held, body, next).cron = (IF body.cron = held.cron THEN None ELSE body.cron)
      /\ Changes(held, body, next).enabled =
            (IF body.enabled = held.enabled THEN "same" ELSE IF body.enabled THEN "yes" ELSE "no")
  BY Zenon DEF Changes
<1>2. CASE body.enabled = TRUE /\ held.enabled = TRUE BY <1>1, <1>2
<1>3. CASE body.enabled = TRUE /\ held.enabled = FALSE BY <1>1, <1>3
<1>4. CASE body.enabled = FALSE /\ held.enabled = TRUE BY <1>1, <1>4
<1>5. CASE body.enabled = FALSE /\ held.enabled = FALSE BY <1>1, <1>5
<1> QED BY <1>0, <1>2, <1>3, <1>4, <1>5

\* Steps that write no time but a fresh one leave a request that changed nothing as it was.
Later == \A s \in Schedules : rows'[s].next = rows[s].next \/ Fresh(rows'[s].next)

LEMMA RequestsStayFresh ==
    ASSUME TypeInv, MissedInv, Later, loop'.since = loop.since,
           NEW a \in Reqs, req'[a] = req[a]
    PROVE  ReqFresh(a)'
<1>1. req[a].pc \in {"apply", "commit"} => req[a].id \in Schedules BY DEF TypeInv, Sound
<1> QED BY <1>1 DEF MissedInv, ReqFresh, Later, Fresh

\* The frame of the steps the loop has no part in.
LEMMA MissedFrame ==
    ASSUME TypeInv, MissedInv, loop' = loop, clock' \in Nat, clock <= clock',
           \A s \in Schedules : \/ rows'[s].next = rows[s].next /\ (rows'[s].enabled => rows[s].enabled)
                                \/ Fresh(rows'[s].next),
           \A a \in Reqs : \/ req'[a] = req[a]
                           \/ req'[a].pc \notin {"apply", "commit"} /\ (req[a].pc = "idle" => loop.pc # "down")
                           \/ ReqFresh(a)' /\ loop.pc # "down"
    PROVE  MissedInv'
<1>0. clock \in Nat /\ loop \in Loop BY Parts DEF TimesOK
<1>1. Later BY DEF Later
<1>2. \A a \in Reqs : ReqFresh(a)'
  <2> SUFFICES ASSUME NEW a \in Reqs PROVE ReqFresh(a)'
    OBVIOUS
  <2>1. CASE req'[a] = req[a] BY <1>1, <2>1, RequestsStayFresh
  <2>2. CASE req'[a].pc \notin {"apply", "commit"} BY <2>2 DEF ReqFresh
  <2> QED BY <2>1, <2>2
<1>3. Started' BY <1>0 DEF MissedInv, Started, Working, Loop
<1>4. RowsFresh'
  <2> SUFFICES ASSUME loop.pc \in {"skipped", "asleep", "run", "commit"}, NEW s \in Schedules,
                      rows'[s].enabled, ~(loop.pc = "skipped" /\ s \in loop.due)
               PROVE  Fresh(rows'[s].next)
    BY DEF RowsFresh, Fresh
  <2>1. CASE rows'[s].next = rows[s].next /\ (rows'[s].enabled => rows[s].enabled)
    BY <2>1, Zenon DEF MissedInv, RowsFresh
  <2> QED BY <2>1
<1>5. HeldFresh' BY DEF MissedInv, HeldFresh, Ticking
<1> QED BY <1>2, <1>3, <1>4, <1>5 DEF MissedInv

LEMMA MissedServe ==
    ASSUME TypeInv, MissedInv, NEW a \in Reqs, Serve(a)
    PROVE  MissedInv'
<1>0. RowsOK /\ ReqOK /\ clock \in Nat /\ loop \in Loop BY Parts DEF TimesOK
<1>1. loop' = loop /\ clock' = clock
  BY Zenon DEF Serve, Load, Refused, Apply, Create, Update, Delete, RunNow, history
<1>2. \A b \in Reqs : b # a => req'[b] = req[b]
  <2>1. \/ req' = req
        \/ \E r : req' = [req EXCEPT ![a] = r]
    BY Zenon DEF Serve, Load, Refused, Apply, Create, Update, Delete, RunNow, Finish
  <2> QED BY <1>0, <2>1 DEF ReqOK
<1>3. Finish(a) => req'[a].pc = "idle" BY <1>0, Nothing DEF Finish, ReqOK
<1>4. loop.since <= clock /\ (req[a].pc # "idle" => loop.pc # "down") BY DEF MissedInv, Started
<1>5. ASSUME rows' = rows,
             \/ req'[a].pc \notin {"apply", "commit"} /\ (req[a].pc = "idle" => loop.pc # "down")
             \/ ReqFresh(a)' /\ loop.pc # "down"
      PROVE  MissedInv'
  BY <1>0, <1>1, <1>2, <1>5, MissedFrame
<1>6. CASE Load(a)
  <2>1. rows' = rows /\ loop.pc # "down" BY <1>6, Zenon DEF Load
  <2>2. PICK op \in Ops \cap {"update", "run"}, s \in Schedules :
           req' = [req EXCEPT ![a] = [Idle EXCEPT !.op = op, !.id = s, !.held = rows[s],
                                                  !.pc = IF op = "run" THEN "execute" ELSE "apply"]]
    BY <1>6, Zenon DEF Load
  <2>3. req'[a].id = s /\ req'[a].held = rows[s] /\ req'[a].pc \in {"execute", "apply"}
    BY <1>0, <2>2, Nothing DEF ReqOK, Request
  <2>4. ReqFresh(a)' BY <2>1, <2>3 DEF ReqFresh, Fresh
  <2> QED BY <1>5, <2>1, <2>4
<1>7. CASE Refused(a)
  <2>1. rows' = rows /\ Finish(a) /\ req[a].pc \in {"apply", "execute"} BY <1>7, Zenon DEF Refused
  <2> QED BY <1>3, <1>5, <2>1
<1>8. CASE RunNow(a)
  <2>1. rows' = rows /\ Finish(a) /\ req[a].pc = "execute" BY <1>8, Zenon DEF RunNow
  <2> QED BY <1>3, <1>5, <2>1
<1>9. CASE Apply(a)
  <2>1. rows' = rows /\ req[a].pc = "apply" BY <1>9, Zenon DEF Apply
  <2>2. PICK body \in Bodies :
           req' = [req EXCEPT ![a].pc = "commit", ![a].held = NoRow, ![a].change =
                      Changes(req[a].held, body, NewTime(body))]
    BY <1>9, Zenon DEF Apply
  <2> DEFINE n == NewTime(body)
             c == Changes(req[a].held, body, n)
  <2>3. n \in Nat /\ Fresh(n)
    BY <1>0, <1>4, BodyTypes DEF TypeInv, Fresh, Loop
  <2>4. req[a].held \in Row BY <1>0 DEF ReqOK, Request
  <2> HIDE DEF n
  <2>5. c.next = (IF n = req[a].held.next THEN -1 ELSE n) BY <2>3, <2>4, ChangeFields
  <2> HIDE DEF c
  <2>6. req'[a].pc = "commit" /\ req'[a].change = c /\ req'[a].id = req[a].id
    <3>1. req' = [req EXCEPT ![a].pc = "commit", ![a].held = NoRow, ![a].change = c] BY <2>2 DEF c, n
    <3> QED BY <1>0, <3>1 DEF ReqOK, Request
  <2>7. Fresh(req[a].held.next) => Fresh(rows[req[a].id].next) BY <2>1 DEF MissedInv, ReqFresh
  <2>8. n # -1 BY <2>3
  <2>9. ReqFresh(a)'
    <3>1. CASE n = req[a].held.next BY <1>1, <2>1, <2>3, <2>5, <2>6, <2>7, <3>1 DEF ReqFresh, Fresh
    <3>2. CASE n # req[a].held.next BY <1>1, <2>1, <2>3, <2>5, <2>6, <2>8, <3>2 DEF ReqFresh, Fresh
    <3> QED BY <3>1, <3>2
  <2> QED BY <1>4, <1>5, <2>1, <2>9
<1>10. CASE Create(a)
  <2>1. req' = req BY <1>10, Zenon DEF Create
  <2>2. PICK s \in Schedules, body \in Bodies :
           rows' = [rows EXCEPT ![s] = Merged(NoRow, Changes(NoRow, body, NewTime(body)))]
    BY <1>10, Zenon DEF Create
  <2>3. rows'[s].next = NewTime(body) BY <1>0, <2>2, BodyTypes DEF TypeInv, RowsOK
  <2>4. Fresh(rows'[s].next) BY <1>0, <1>4, <2>3, BodyTypes DEF TypeInv, Fresh, Loop
  <2>5. \A other \in Schedules : other # s => rows'[other] = rows[other] BY <1>0, <2>2 DEF RowsOK
  <2> QED BY <1>0, <1>1, <2>1, <2>4, <2>5, MissedFrame
<1>11. CASE Delete(a)
  <2>1. req' = req BY <1>11, Zenon DEF Delete
  <2>2. PICK s \in Schedules : rows' = [rows EXCEPT ![s] = GoneRow] BY <1>11, Zenon DEF Delete
  <2>3. \A other \in Schedules : other # s => rows'[other] = rows[other] BY <1>0, <2>2 DEF RowsOK
  <2>4. Fresh(rows'[s].next) BY <1>0, <2>2, RowFields DEF RowsOK, Fresh
  <2> QED BY <1>0, <1>1, <2>1, <2>3, <2>4, MissedFrame
<1>12. CASE Update(a)
  <2>1. Finish(a) /\ req[a].pc = "commit" BY <1>12, Zenon DEF Update
  <2>2. CASE ~ (Live(req[a].id) /\ ~loop.locks)
    <3>1. rows' = rows BY <1>12, <2>2 DEF Update
    <3> QED BY <1>3, <1>5, <2>1, <3>1
  <2>3. CASE Live(req[a].id) /\ ~loop.locks
    <3> DEFINE s == req[a].id
               c == req[a].change
    <3>1. rows' = [rows EXCEPT ![s] = Merged(rows[s], c)] BY <1>12, <2>3 DEF Update
    <3>2. s \in Schedules /\ c \in Change BY <1>0, <2>1 DEF ReqOK, TypeInv, Sound, Request
    <3>3. rows[s] \in LiveRow BY <1>0, <2>3, <3>2, RowTypes DEF Live, RowsOK
    <3>4. IF c.next # -1 THEN Fresh(c.next) ELSE c.enabled = "yes" => Fresh(rows[s].next)
      BY <2>1 DEF MissedInv, ReqFresh
    <3> HIDE DEF s, c
    <3>5. rows'[s] = Merged(rows[s], c) /\ \A other \in Schedules : other # s => rows'[other] = rows[other]
      BY <1>0, <3>1, <3>2 DEF RowsOK
    <3> DEFINE row == rows'[s]
    <3>9. /\ row.next = (IF c.next = -1 THEN rows[s].next ELSE c.next)
          /\ c.enabled = "same" => row.enabled = rows[s].enabled
          /\ c.enabled = "no" => row.enabled = FALSE
          /\ c.enabled \in {"same", "yes", "no"}
      <4> DEFINE m == Merged(rows[s], c)
      <4>1. /\ m.next = (IF c.next = -1 THEN rows[s].next ELSE c.next)
            /\ c.enabled = "same" => m.enabled = rows[s].enabled
            /\ c.enabled = "no" => m.enabled = FALSE
            /\ c.enabled \in {"same", "yes", "no"}
        BY <3>2, <3>3 DEF Merged, LiveRow, Change
      <4>2. row = m BY <3>5
      <4> HIDE DEF m, row
      <4> QED BY <4>1, <4>2
    <3> HIDE DEF row
    <3>6. \/ row.next = rows[s].next /\ (row.enabled => rows[s].enabled)
          \/ Fresh(row.next)
      <4>1. CASE c.next # -1 BY <3>4, <3>9, <4>1
      <4>2. CASE c.next = -1 /\ c.enabled = "yes" BY <3>4, <3>9, <4>2
      <4>3. CASE c.next = -1 /\ c.enabled = "no" BY <3>9, <4>3
      <4>4. CASE c.next = -1 /\ c.enabled = "same"
        <5>1. row.next = rows[s].next BY <3>9, <4>4
        <5>2. row.enabled => rows[s].enabled BY <3>9, <4>4, Zenon
        <5> QED BY <5>1, <5>2
      <4> QED BY <3>9, <4>1, <4>2, <4>3, <4>4
    <3>7. req'[a].pc = "idle" /\ loop.pc # "down" BY <1>3, <1>4, <2>1
    <3>8. \A other \in Schedules :
             \/ rows'[other].next = rows[other].next /\ (rows'[other].enabled => rows[other].enabled)
             \/ Fresh(rows'[other].next)
      BY <3>5, <3>6, Zenon DEF row
    <3> QED BY <1>0, <1>1, <1>2, <3>7, <3>8, MissedFrame
  <2> QED BY <2>2, <2>3
<1> QED BY <1>6, <1>7, <1>8, <1>9, <1>10, <1>11, <1>12 DEF Serve

\* A batch that has moved on.
LEMMA BatchIsLater ==
    ASSUME TypeInv, MissedInv, Working, \A s \in loop.due : Live(s), rows' = MovedOn
    PROVE  \A s \in Schedules : \/ s \in loop.due /\ Fresh(rows'[s].next)
                                \/ s \notin loop.due /\ rows'[s] = rows[s]
<1>1. loop.since \in Nat /\ loop.now \in Nat BY Parts DEF Loop
<1>2. loop.since <= loop.now BY DEF MissedInv, Started
<1> SUFFICES ASSUME NEW s \in Schedules
             PROVE  \/ s \in loop.due /\ Fresh(rows'[s].next)
                    \/ s \notin loop.due /\ rows'[s] = rows[s]
  OBVIOUS
<1>3. CASE s \notin loop.due BY <1>3, MovedOnRows
<1>4. CASE s \in loop.due
  <2>1. loop.now < rows'[s].next /\ rows'[s].next \in Nat BY <1>4, MovedOnRows DEF LiveRow
  <2> QED BY <1>1, <1>2, <1>4, <2>1 DEF Fresh
<1> QED BY <1>3, <1>4

LEMMA MissedLoop ==
    ASSUME TypeInv, MissedInv, LoopStep
    PROVE  MissedInv'
<1>0. RowsOK /\ ReqOK /\ clock \in Nat /\ loop \in Loop /\ loop.left \subseteq loop.due
  BY Parts DEF TimesOK
<1>1. req' = req /\ clock' = clock
  BY Zenon DEF LoopStep, SkipMissed, SkipCommit, Wake, Execute, ExecuteFails, TickCommit, TickFails, history
<1>2. loop.since <= clock /\ (Working => loop.since <= loop.now /\ loop.now <= clock) /\ loop.since \in Nat
  BY <1>0 DEF MissedInv, Started, Loop
<1>3. ASSUME Later, loop'.since = loop.since, Started', RowsFresh', HeldFresh' PROVE MissedInv'
  BY <1>1, <1>3, RequestsStayFresh DEF MissedInv
\* What a read of the due rows holds, in terms of loop'.
<1>4. ASSUME NEW pc \in {"skipped", "run"}, loop'.pc = pc, loop'.since = loop.since, loop'.now = clock,
             loop'.due = DueAt(clock), loop'.held = Held(DueAt(clock)), rows' = rows
      PROVE  /\ Started'
             /\ \A s \in loop'.due : s \in Schedules /\ loop'.held[s].next = rows[s].next /\ rows[s].enabled
             /\ Later
             /\ \A s \in Schedules : rows[s].enabled => rows[s].next = None \/ clock < rows[s].next \/ s \in loop'.due
  <2>1. Started' BY <1>0, <1>1, <1>2, <1>4 DEF Started, Working
  <2>2. \A s \in loop'.due : s \in Schedules /\ loop'.held[s].next = rows[s].next /\ rows[s].enabled
    BY <1>0, <1>4, DueTypes
  <2>3. ASSUME NEW s \in Schedules, rows[s].enabled, rows[s].next # None, ~(clock < rows[s].next)
        PROVE  s \in DueAt(clock)
    <3>1. rows[s].next \in Nat /\ rows[s].enabled # FALSE BY <1>0, <2>3, RowFields DEF RowsOK
    <3>2. rows[s].state = "live"
      <4>1. CASE rows[s] = NoRow BY <2>3, <4>1, RowFields
      <4>2. CASE rows[s] = GoneRow BY <2>3, <4>2, RowFields
      <4> QED BY <1>0, <4>1, <4>2 DEF RowsOK, Row, LiveRow
    <3>3. rows[s].next \in 1 .. clock BY <1>0, <2>3, <3>1 DEF None
    <3> QED BY <2>3, <3>2, <3>3, Zenon DEF DueAt, Live
  <2>4. Later BY <1>4 DEF Later
  <2> QED BY <1>4, <2>1, <2>2, <2>3, <2>4
<1>5. CASE SkipMissed
  <2>1. /\ loop' = [loop EXCEPT !.pc = "skipped", !.now = clock, !.due = DueAt(clock), !.held = Held(DueAt(clock))]
        /\ rows' = rows
    BY <1>5, Zenon DEF SkipMissed
  <2>2. /\ loop'.pc = "skipped" /\ loop'.since = loop.since /\ loop'.now = clock
        /\ loop'.due = DueAt(clock) /\ loop'.held = Held(DueAt(clock))
    BY <1>0, <2>1 DEF Loop
  <2>3. RowsFresh'
    <3>1. \A s \in Schedules : rows[s].enabled => rows[s].next = None \/ clock < rows[s].next \/ s \in loop'.due
      BY <1>4, <2>1, <2>2
    <3>2. \A s \in Schedules : rows[s].next \in Nat BY <1>0, RowFields DEF RowsOK
    <3>3. \A s \in Schedules : rows[s].next = None \/ clock < rows[s].next => Fresh(rows[s].next)
      BY <1>0, <1>2, <3>2 DEF Fresh
    <3>4. \A s \in Schedules : Fresh(rows[s].next) => Fresh(rows[s].next)' BY <2>1, <2>2 DEF Fresh
    <3> QED BY <2>1, <2>2, <3>1, <3>3, <3>4, Zenon DEF RowsFresh
  <2>4. HeldFresh' BY <2>2 DEF HeldFresh, Ticking
  <2> QED BY <1>3, <1>4, <2>1, <2>2, <2>3, <2>4
<1>6. CASE SkipCommit
  <2>1. loop.pc = "skipped" BY <1>6 DEF SkipCommit
  <2>2. CASE \A s \in loop.due : Live(s)
    <3>1. rows' = MovedOn /\ Sleep BY <1>6, <2>2 DEF SkipCommit
    <3>2. loop'.pc = "asleep" /\ loop'.since = loop.since BY <3>1, SleepType
    <3>3. \A s \in Schedules : \/ s \in loop.due /\ Fresh(rows'[s].next)
                               \/ s \notin loop.due /\ rows'[s] = rows[s]
      BY <2>1, <2>2, <3>1, BatchIsLater DEF Working
    <3>4. Later BY <3>3 DEF Later
    <3>5. Started' BY <1>1, <1>2, <3>2 DEF Started, Working
    <3>6. \A s \in Schedules : rows'[s].enabled => Fresh(rows'[s].next)
      BY <2>1, <3>3, Zenon DEF MissedInv, RowsFresh
    <3>7. \A s \in Schedules : Fresh(rows'[s].next) => Fresh(rows[s].next)' BY <3>2 DEF Fresh
    <3>8. RowsFresh' BY <3>2, <3>6, <3>7, Zenon DEF RowsFresh
    <3>9. HeldFresh' BY <3>2 DEF HeldFresh, Ticking
    <3> QED BY <1>3, <3>2, <3>4, <3>5, <3>8, <3>9
  <2>3. CASE ~ \A s \in loop.due : Live(s)
    <3>1. loop' = [StoppedLoop EXCEPT !.pc = "dead"] /\ rows' = rows BY <1>6, <2>3 DEF SkipCommit
    <3>2. loop'.pc = "dead" /\ loop'.since = 0 BY <3>1 DEF StoppedLoop
    <3>3. Started' BY <1>0, <1>1, <3>2 DEF Started, Working
    <3>4. RowsFresh' /\ HeldFresh' BY <3>2 DEF RowsFresh, HeldFresh, Ticking
    <3>5. ASSUME NEW a \in Reqs PROVE ReqFresh(a)'
      <4>1. /\ req[a].pc = "apply" => req[a].id \in Schedules /\ req[a].held \in Row
            /\ req[a].pc = "commit" => req[a].id \in Schedules /\ req[a].change \in Change
        BY <1>0 DEF ReqOK, TypeInv, Sound, Request
      <4>2. /\ req[a].pc = "apply" => rows[req[a].id].next \in Nat /\ req[a].held.next \in Nat
            /\ req[a].pc = "commit" => rows[req[a].id].next \in Nat /\ req[a].change.next \in Nat \cup {-1}
        BY <1>0, <4>1, RowFields DEF RowsOK, Change
      <4> QED BY <1>1, <3>1, <3>2, <4>2 DEF ReqFresh, Fresh, None
    <3> QED BY <3>3, <3>4, <3>5 DEF MissedInv
  <2> QED BY <2>2, <2>3
<1>7. CASE Wake
  <2>1. rows' = rows /\ loop.pc = "asleep" BY <1>7, Zenon DEF Wake
  <2>2. Later BY <2>1 DEF Later
  <2>3. ASSUME loop'.since = loop.since, loop'.pc \in {"asleep", "run"} PROVE RowsFresh'
    <3>1. \A s \in Schedules : ~rows[s].enabled \/ Fresh(rows[s].next)
      BY <2>1, Zenon DEF MissedInv, RowsFresh
    <3>2. \A s \in Schedules : Fresh(rows[s].next) => Fresh(rows[s].next)' BY <2>1, <2>3 DEF Fresh
    <3> QED BY <2>1, <3>1, <3>2, Zenon DEF RowsFresh
  <2>4. CASE DueAt(clock) = {}
    <3>1. Sleep BY <1>7, <2>4 DEF Wake
    <3>2. loop'.pc = "asleep" /\ loop'.since = loop.since BY <3>1, SleepType
    <3>3. Started' /\ HeldFresh' BY <1>1, <1>2, <3>2 DEF Started, Working, HeldFresh, Ticking
    <3> QED BY <1>3, <2>2, <2>3, <3>2, <3>3
  <2>5. CASE DueAt(clock) # {}
    <3>1. loop' = [loop EXCEPT !.pc = "run", !.now = clock, !.due = DueAt(clock), !.left = DueAt(clock),
                               !.held = Held(DueAt(clock))]
      BY <1>7, <2>5 DEF Wake
    <3>2. /\ loop'.pc = "run" /\ loop'.since = loop.since /\ loop'.now = clock
          /\ loop'.due = DueAt(clock) /\ loop'.held = Held(DueAt(clock))
      BY <1>0, <3>1 DEF Loop
    <3>3. Started' /\ \A s \in loop'.due : s \in Schedules /\ loop'.held[s].next = rows[s].next /\ rows[s].enabled
      BY <1>4, <2>1, <3>2
    <3>4. \A s \in loop'.due : Fresh(rows[s].next)
      BY <2>1, <3>3, Zenon DEF MissedInv, RowsFresh
    <3>5. \A s \in loop'.due : rows[s].next \in 1 .. clock BY <1>0, <3>2, DueTypes
    <3>6. \A s \in loop'.due : loop'.held[s].next > loop'.since
      BY <3>2, <3>3, <3>4, <3>5, <1>0 DEF Fresh, None
    <3>7. HeldFresh' BY <3>6 DEF HeldFresh
    <3> QED BY <1>3, <2>2, <2>3, <3>2, <3>3, <3>7
  <2> QED BY <2>4, <2>5
<1>8. CASE Execute
  <2>1. /\ loop.pc = "run" /\ rows' = rows /\ loop'.pc \in {"run", "commit"} /\ loop'.since = loop.since
        /\ loop'.now = loop.now /\ loop'.due = loop.due /\ loop'.held = loop.held
    BY <1>8, Executes
  <2>2. Later BY <2>1 DEF Later
  <2>3. Started' BY <1>1, <1>2, <2>1 DEF Started, Working
  <2>4. HeldFresh' BY <2>1 DEF MissedInv, HeldFresh, Ticking
  <2>5. RowsFresh'
    <3>1. \A r \in Schedules : ~rows[r].enabled \/ Fresh(rows[r].next)
      BY <2>1, Zenon DEF MissedInv, RowsFresh
    <3>2. \A r \in Schedules : Fresh(rows[r].next) => Fresh(rows[r].next)' BY <2>1 DEF Fresh
    <3> QED BY <2>1, <3>1, <3>2, Zenon DEF RowsFresh
  <2> QED BY <1>3, <2>1, <2>2, <2>3, <2>4, <2>5
\* A tick that ends leaves rows as they were, or moves them on.
<1>9. ASSUME Ticking, Sleep, \A s \in Schedules : rows'[s] = rows[s] \/ Fresh(rows'[s].next) PROVE MissedInv'
  <2>1. loop'.pc = "asleep" /\ loop'.since = loop.since BY <1>9, SleepType
  <2>2. Later BY <1>9 DEF Later
  <2>3. Started' /\ HeldFresh' BY <1>1, <1>2, <2>1 DEF Started, Working, HeldFresh, Ticking
  <2>4. RowsFresh'
    <3>1. \A s \in Schedules : ~rows'[s].enabled \/ Fresh(rows'[s].next)
      BY <1>9, Zenon DEF MissedInv, RowsFresh, Ticking
    <3>2. \A s \in Schedules : Fresh(rows'[s].next) => Fresh(rows[s].next)' BY <2>1 DEF Fresh
    <3> QED BY <2>1, <3>1, <3>2, Zenon DEF RowsFresh
  <2> QED BY <1>3, <2>1, <2>2, <2>3, <2>4
<1>10. CASE TickCommit
  <2>1. CASE TickFails BY <1>9, <1>10, <2>1, Fails, TickEnds DEF Ticking
  <2>2. CASE (\A s \in loop.due : Live(s)) /\ rows' = MovedOn /\ Sleep
    BY <1>9, <1>10, <2>2, TickEnds, BatchIsLater DEF Working, Ticking
  <2> QED BY <1>10, <2>1, <2>2, TickEnds
<1>11. CASE ExecuteFails
  <2>1. TickFails /\ loop.pc = "run" BY <1>11 DEF ExecuteFails
  <2> QED BY <1>9, <2>1, Fails DEF Ticking
<1> QED BY <1>5, <1>6, <1>7, <1>8, <1>10, <1>11 DEF LoopStep

LEMMA MissedStep == TypeInv /\ MissedInv /\ [Next]_vars => MissedInv'
<1> SUFFICES ASSUME TypeInv, MissedInv, [Next]_vars PROVE MissedInv'
  OBVIOUS
<1>0. /\ RowsOK /\ ReqOK /\ clock \in Nat /\ loop \in Loop BY Parts DEF TimesOK
<1>1. CASE LoopStep BY <1>1, MissedLoop
<1>2. CASE Minute
  <2>1. rows' = rows /\ loop' = loop /\ req' = req /\ clock' = clock + 1 BY <1>2, Zenon DEF Minute
  <2> QED BY <1>0, <2>1, MissedFrame
<1>3. CASE PanelEnds
  <2>1. clock' = clock /\ loop' = StoppedLoop /\ req' = [a \in Reqs |-> Idle] BY <1>3, Zenon DEF PanelEnds
  <2>2. \A a \in Reqs : req'[a].pc = "idle" BY <2>1, Nothing
  <2>3. loop'.pc = "down" /\ loop'.since = 0 BY <2>1, Nothing
  <2>4. Started' BY <1>0, <2>1, <2>2, <2>3 DEF Started, Working
  <2>5. RowsFresh' /\ HeldFresh' BY <2>3 DEF RowsFresh, HeldFresh, Ticking
  <2>6. \A a \in Reqs : ReqFresh(a)' BY <2>2 DEF ReqFresh
  <2> QED BY <2>4, <2>5, <2>6 DEF MissedInv
<1>4. CASE Start
  <2>1. rows' = rows /\ clock' = clock /\ req' = req /\ loop.pc = "down" BY <1>4, Zenon DEF Start
  <2>2. loop'.pc = "skip" /\ loop'.since = clock BY <1>4, Nothing DEF Start, Loop
  <2>3. \A a \in Reqs : req'[a].pc = "idle" BY <2>1 DEF MissedInv, Started
  <2>4. Started' BY <1>0, <2>1, <2>2, <2>3 DEF Started, Working
  <2>5. RowsFresh' /\ HeldFresh' BY <2>2 DEF RowsFresh, HeldFresh, Ticking
  <2>6. \A a \in Reqs : ReqFresh(a)' BY <2>3 DEF ReqFresh
  <2> QED BY <2>4, <2>5, <2>6 DEF MissedInv
<1>5. CASE \E a \in Reqs : Serve(a) BY <1>5, MissedServe
<1>6. CASE UNCHANGED vars
  <2>1. rows' = rows /\ loop' = loop /\ req' = req /\ clock' = clock BY <1>6 DEF vars
  <2> QED BY <1>0, <2>1, MissedFrame
<1> QED BY <1>1, <1>2, <1>3, <1>4, <1>5, <1>6 DEF Next

LEMMA MissedInit == Init => MissedInv
<1> SUFFICES ASSUME Init PROVE MissedInv
  OBVIOUS
<1>1. loop.pc = "down" /\ loop.since = 0 /\ clock = 0 BY Nothing DEF Init
<1>2. \A a \in Reqs : req[a].pc = "idle" BY Nothing DEF Init
<1> QED BY <1>1, <1>2 DEF MissedInv, Started, Working, RowsFresh, HeldFresh, Ticking, ReqFresh

\* A time that was run lies behind the time the schedule is to run at next, or could not
\* be written down, or is of the tick that is at work; what that tick has still to run
\* lies behind it.
Behind(s, t) == rows[s].next = None \/ t < rows[s].next
Past(s, t) ==
    /\ t <= clock
    /\ Working => t <= loop.now
    /\ t \in unsaved[s] \/ Behind(s, t) \/ (Ticking /\ s \in Done /\ t = loop.held[s].next)
OnceInv ==
    /\ Ticking => \A s \in loop.due : loop.held[s].next <= loop.now
    /\ Ticking => \A s \in loop.left : \A t \in ran[s] : t \in unsaved[s] \/ t < loop.held[s].next
    /\ \A s \in Schedules : \A t \in ran[s] : Past(s, t)

\* The frame of the steps the loop has no part in: nothing is run, and the times that are
\* written come after the clock, or begin the history of a schedule anew.
LEMMA OnceFrame ==
    ASSUME TypeInv, OnceInv, loop' = loop, clock' \in Nat, clock <= clock',
           \A s \in Schedules : \/ ran'[s] = {}
                                \/ /\ ran'[s] = ran[s] /\ unsaved'[s] = unsaved[s]
                                   /\ \/ rows'[s].next = rows[s].next \/ rows'[s].next = None
                                      \/ (rows'[s].next \in Nat /\ clock < rows'[s].next)
    PROVE  OnceInv'
<1>0. /\ clock \in Nat /\ ran \in [Schedules -> SUBSET Nat] /\ loop.due \in SUBSET Schedules
      /\ loop.left \subseteq loop.due
  BY Parts DEF TimesOK, Loop
<1>1. Ticking' => \A s \in loop'.due : loop'.held[s].next <= loop'.now BY DEF OnceInv, Ticking
<1>2. Ticking' => \A s \in loop'.left : \A t \in ran'[s] : t \in unsaved'[s] \/ t < loop'.held[s].next
  BY <1>0 DEF OnceInv, Ticking
<1>3. ASSUME NEW s \in Schedules, NEW t \in ran'[s] PROVE Past(s, t)'
  <2>1. t \in Nat /\ t \in ran[s] /\ unsaved'[s] = unsaved[s] /\ Past(s, t) BY <1>0, <1>3 DEF OnceInv
  <2>2. t <= clock' /\ (Working' => t <= loop'.now) BY <1>0, <2>1 DEF Past, Working
  <2>3. Behind(s, t) => Behind(s, t)' BY <1>0, <1>3, <2>1 DEF Behind, Past
  <2> QED BY <2>1, <2>2, <2>3 DEF Past, Ticking, Done
<1> QED BY <1>1, <1>2, <1>3 DEF OnceInv

LEMMA OnceServe ==
    ASSUME TypeInv, OnceInv, NEW a \in Reqs, Serve(a)
    PROVE  OnceInv'
<1>0. RowsOK /\ ReqOK /\ clock \in Nat /\ TimesOK
  BY Parts DEF TimesOK
<1>1. loop' = loop /\ clock' = clock
  BY Zenon DEF Serve, Load, Refused, Apply, Create, Update, Delete, RunNow, history
\* A change begins the history of its schedule anew.
<1>2. ASSUME NEW s \in Schedules, NEW row, rows' = [rows EXCEPT ![s] = row],
             ran' = [ran EXCEPT ![s] = {}], unsaved' = [unsaved EXCEPT ![s] = {}]
      PROVE  OnceInv'
  <2>1. /\ ran'[s] = {}
        /\ \A other \in Schedules : other # s => /\ rows'[other] = rows[other] /\ ran'[other] = ran[other]
                                                 /\ unsaved'[other] = unsaved[other]
    BY <1>0, <1>2 DEF RowsOK, TimesOK
  <2> QED BY <1>0, <1>1, <2>1, OnceFrame
<1>3. ASSUME rows' = rows, ran' = ran, unsaved' = unsaved PROVE OnceInv' BY <1>0, <1>1, <1>3, OnceFrame
<1>4. CASE Load(a) \/ Refused(a) \/ Apply(a) \/ RunNow(a)
  BY <1>3, <1>4, Zenon DEF Load, Refused, Apply, RunNow, history
<1>5. CASE Create(a)
  <2>1. ran' = ran /\ unsaved' = unsaved BY <1>5, Zenon DEF Create, history
  <2>2. PICK s \in Schedules, body \in Bodies :
           rows' = [rows EXCEPT ![s] = Merged(NoRow, Changes(NoRow, body, NewTime(body)))]
    BY <1>5, Zenon DEF Create
  <2>3. rows'[s].next = NewTime(body) BY <1>0, <2>2, BodyTypes DEF TypeInv, RowsOK
  <2>4. rows'[s].next = None \/ (rows'[s].next \in Nat /\ clock < rows'[s].next) BY <2>3, BodyTypes DEF TypeInv
  <2>5. \A other \in Schedules : other # s => rows'[other] = rows[other] BY <1>0, <2>2 DEF RowsOK
  <2> QED BY <1>0, <1>1, <2>1, <2>4, <2>5, OnceFrame
<1>6. CASE Delete(a) BY <1>2, <1>6, Zenon DEF Delete
<1>7. CASE Update(a)
  <2>1. req[a].id \in Schedules BY <1>7 DEF Update, TypeInv, Sound
  <2>2. CASE Live(req[a].id) /\ ~loop.locks BY <1>2, <1>7, <2>1, <2>2, Zenon DEF Update
  <2>3. CASE ~ (Live(req[a].id) /\ ~loop.locks) BY <1>3, <1>7, <2>3, Zenon DEF Update
  <2> QED BY <2>2, <2>3
<1> QED BY <1>4, <1>5, <1>6, <1>7 DEF Serve

\* A row that is gone has no time to run at.
LEMMA GoneHasNone ==
    ASSUME TypeInv, NEW s \in Schedules, ~Live(s)
    PROVE  rows[s].next = None
BY Parts, RowFields DEF RowsOK, Row, LiveRow, Live

LEMMA OnceLoop ==
    ASSUME TypeInv, MissedInv, OnceInv, LoopStep
    PROVE  OnceInv'
<1>0. /\ RowsOK /\ clock \in Nat /\ loop \in Loop /\ ran \in [Schedules -> SUBSET Nat]
      /\ loop.left \subseteq loop.due
      /\ \A s \in loop.due : s \in Schedules /\ loop.held[s].cron \in Nat \ {0} /\ loop.held[s].next \in Nat
  BY Parts DEF TimesOK
<1>1. clock' = clock
  BY Zenon DEF LoopStep, SkipMissed, SkipCommit, Wake, Execute, ExecuteFails, TickCommit, TickFails, history
<1>2. \A s \in Schedules : \A t \in ran[s] : t \in Nat /\ Past(s, t) BY <1>0 DEF OnceInv
<1>3. Working => loop.now <= clock /\ loop.now \in Nat BY <1>0 DEF MissedInv, Started, Loop
\* A loop that reads or sleeps holds nothing it has run: all that was run lies behind.
<1>4. ASSUME ran' = ran, loop'.pc \notin {"run", "commit"}, Working' => loop'.now = clock,
             \A s \in Schedules : \A t \in ran[s] : t \in unsaved'[s] \/ Behind(s, t)'
      PROVE  OnceInv'
  <2>1. ~Ticking' BY <1>4 DEF Ticking
  <2>2. ASSUME NEW s \in Schedules, NEW t \in ran'[s] PROVE Past(s, t)'
    <3>1. t <= clock /\ t \in ran[s] BY <1>2, <1>4, <2>2 DEF Past
    <3> QED BY <1>1, <1>4, <3>1 DEF Past
  <2> QED BY <2>1, <2>2 DEF OnceInv
<1>5. ASSUME ~Ticking, rows' = rows, unsaved' = unsaved
      PROVE  \A s \in Schedules : \A t \in ran[s] : t \in unsaved'[s] \/ Behind(s, t)'
  BY <1>2, <1>5 DEF Past, Behind
\* A batch moves on behind its start.
<1>6. ASSUME Working, \A s \in loop.due : Live(s), rows' = MovedOn, unsaved' = unsaved,
             NEW s \in Schedules, NEW t \in ran[s]
      PROVE  t \in unsaved'[s] \/ Behind(s, t)'
  <2>1. CASE s \notin loop.due
    <3>1. rows'[s] = rows[s] BY <1>6, <2>1, MovedOnRows
    <3> QED BY <1>2, <1>6, <2>1, <3>1 DEF Past, Behind, Done
  <2>2. CASE s \in loop.due
    <3>1. rows'[s].next \in Nat /\ loop.now < rows'[s].next BY <1>6, <2>2, MovedOnRows DEF LiveRow
    <3>2. t \in Nat /\ t <= loop.now BY <1>2, <1>6 DEF Past
    <3> QED BY <1>3, <1>6, <3>1, <3>2 DEF Behind
  <2> QED BY <2>1, <2>2
\* A tick that fails notes what it has run of the schedules that are left.
<1>7. ASSUME Ticking, TickFails PROVE OnceInv'
  <2>1. Sleep /\ rows' = rows /\ ran' = ran BY <1>7, Fails
  <2>2. loop'.pc = "asleep" BY <2>1, SleepType
  <2>3. ASSUME NEW s \in Schedules, NEW t \in ran[s] PROVE t \in unsaved'[s] \/ Behind(s, t)'
    <3>1. Past(s, t) /\ unsaved[s] \subseteq unsaved'[s] BY <1>2, <1>7, <2>3, Fails
    <3>2. CASE t \in unsaved[s] BY <3>1, <3>2
    <3>3. CASE Behind(s, t) BY <2>1, <3>3 DEF Behind
    <3>4. CASE s \in Done /\ t = loop.held[s].next
      <4>1. CASE Live(s) BY <1>7, <3>4, <4>1, Fails
      <4>2. CASE ~Live(s)
        <5>1. rows[s].next = None BY <4>2, GoneHasNone
        <5> QED BY <2>1, <5>1 DEF Behind
      <4> QED BY <4>1, <4>2
    <3> QED BY <3>1, <3>2, <3>3, <3>4 DEF Past
  <2> QED BY <1>4, <2>1, <2>2, <2>3 DEF Working
<1>8. CASE SkipMissed
  <2>1. /\ loop' = [loop EXCEPT !.pc = "skipped", !.now = clock, !.due = DueAt(clock), !.held = Held(DueAt(clock))]
        /\ loop.pc = "skip" /\ rows' = rows /\ ran' = ran /\ unsaved' = unsaved
    BY <1>8, Zenon DEF SkipMissed, history
  <2>2. loop'.pc = "skipped" /\ loop'.now = clock BY <1>0, <2>1 DEF Loop
  <2> QED BY <1>4, <1>5, <2>1, <2>2 DEF Ticking
<1>9. CASE SkipCommit
  <2>1. loop.pc = "skipped" /\ ran' = ran /\ unsaved' = unsaved BY <1>9, Zenon DEF SkipCommit, history
  <2>2. CASE \A s \in loop.due : Live(s)
    <3>1. rows' = MovedOn /\ Sleep BY <1>9, <2>2 DEF SkipCommit
    <3>2. loop'.pc = "asleep" BY <3>1, SleepType
    <3> QED BY <1>4, <1>6, <2>1, <2>2, <3>1, <3>2 DEF Working
  <2>3. CASE ~ \A s \in loop.due : Live(s)
    <3>1. loop' = [StoppedLoop EXCEPT !.pc = "dead"] /\ rows' = rows BY <1>9, <2>3 DEF SkipCommit
    <3>2. loop'.pc = "dead" BY <3>1 DEF StoppedLoop
    <3> QED BY <1>4, <1>5, <2>1, <3>1, <3>2 DEF Ticking, Working
  <2> QED BY <2>2, <2>3
<1>10. CASE Wake
  <2>1. loop.pc = "asleep" /\ rows' = rows /\ ran' = ran /\ unsaved' = unsaved BY <1>10, Zenon DEF Wake, history
  <2>2. CASE DueAt(clock) = {}
    <3>1. Sleep BY <1>10, <2>2 DEF Wake
    <3>2. loop'.pc = "asleep" BY <3>1, SleepType
    <3> QED BY <1>4, <1>5, <2>1, <3>2 DEF Ticking, Working
  <2>3. CASE DueAt(clock) # {}
    <3>1. loop' = [loop EXCEPT !.pc = "run", !.now = clock, !.due = DueAt(clock), !.left = DueAt(clock),
                               !.held = Held(DueAt(clock))]
      BY <1>10, <2>3 DEF Wake
    <3>2. /\ loop'.pc = "run" /\ loop'.now = clock /\ loop'.due = DueAt(clock) /\ loop'.left = DueAt(clock)
          /\ loop'.held = Held(DueAt(clock))
      BY <1>0, <3>1 DEF Loop
    <3>3. ASSUME NEW s \in Schedules, NEW t \in ran[s] PROVE t \in unsaved[s] \/ Behind(s, t)
      BY <1>2, <2>1, <3>3 DEF Past, Ticking
    <3>4. ASSUME NEW s \in loop'.due
          PROVE  /\ loop'.held[s].next <= clock
                 /\ \A t \in ran[s] : t \in unsaved[s] \/ t < loop'.held[s].next
      <4>1. s \in Schedules /\ loop'.held[s].next = rows[s].next /\ rows[s].next \in 1 .. clock
        BY <1>0, <3>2, DueTypes
      <4> QED BY <1>0, <3>3, <4>1 DEF Behind, None
    <3>5. ASSUME NEW s \in Schedules, NEW t \in ran'[s] PROVE Past(s, t)'
      <4>1. t <= clock /\ t \in ran[s] BY <1>2, <2>1, <3>5 DEF Past
      <4> QED BY <1>1, <2>1, <3>2, <3>3, <4>1 DEF Past, Behind
    <3> QED BY <2>1, <3>2, <3>4, <3>5 DEF OnceInv
  <2> QED BY <2>2, <2>3
<1>11. CASE Execute
  <2>1. /\ loop.pc = "run" /\ rows' = rows /\ unsaved' = unsaved
        /\ loop'.now = loop.now /\ loop'.due = loop.due /\ loop'.held = loop.held
    BY <1>11, Executes
  <2>2. PICK s \in loop.left : /\ loop'.left = loop.left \ {s} /\ loop'.pc \in {"run", "commit"}
                               /\ ran' = [ran EXCEPT ![s] = @ \cup {loop.held[s].next}]
    BY <1>11, Executes
  <2>3. s \in Schedules /\ s \in Done' /\ Done \subseteq Done' BY <1>0, <2>1, <2>2 DEF Done
  <2>4. \A other \in Schedules : other # s => ran'[other] = ran[other] BY <1>0, <2>2
  <2>5. \A t \in ran'[s] : t \in ran[s] \/ t = loop.held[s].next BY <1>0, <2>2, <2>3
  <2>6. Ticking /\ Ticking' /\ Working /\ Working' BY <2>1, <2>2 DEF Ticking, Working
  <2>7. \A r \in loop'.left : \A t \in ran'[r] : t \in unsaved'[r] \/ t < loop'.held[r].next
    BY <1>0, <2>1, <2>2, <2>4, <2>6 DEF OnceInv
  <2>8. ASSUME NEW r \in Schedules, NEW t \in ran[r] PROVE Past(r, t)'
    <3>1. Past(r, t) BY <1>2, <2>8
    <3> QED BY <1>1, <2>1, <2>3, <2>6, <3>1 DEF Past, Behind
  <2>9. ASSUME NEW t, t = loop.held[s].next PROVE Past(s, t)'
    <3>1. t <= loop.now BY <1>0, <2>2, <2>6, <2>9 DEF OnceInv
    <3>2. t <= clock BY <1>0, <1>3, <2>2, <2>6, <2>9, <3>1
    <3> QED BY <1>1, <2>1, <2>3, <2>6, <2>9, <3>1, <3>2 DEF Past
  <2>10. \A r \in Schedules : \A t \in ran'[r] : Past(r, t)' BY <2>4, <2>5, <2>8, <2>9
  <2>11. \A r \in loop'.due : loop'.held[r].next <= loop'.now BY <2>1, <2>6 DEF OnceInv
  <2> QED BY <2>7, <2>10, <2>11 DEF OnceInv
<1>12. CASE ExecuteFails BY <1>7, <1>12 DEF ExecuteFails, Ticking
<1>13. CASE TickCommit
  <2>1. CASE TickFails BY <1>7, <1>13, <2>1, TickEnds DEF Ticking
  <2>2. CASE (\A s \in loop.due : Live(s)) /\ rows' = MovedOn /\ Sleep /\ ran' = ran /\ unsaved' = unsaved
    <3>1. Working /\ loop'.pc = "asleep" BY <1>13, <2>2, SleepType, TickEnds DEF Working
    <3> QED BY <1>4, <1>6, <2>2, <3>1 DEF Working
  <2> QED BY <1>13, <2>1, <2>2, TickEnds
<1> QED BY <1>8, <1>9, <1>10, <1>11, <1>12, <1>13 DEF LoopStep

LEMMA OnceStep == TypeInv /\ MissedInv /\ OnceInv /\ [Next]_vars => OnceInv'
<1> SUFFICES ASSUME TypeInv, MissedInv, OnceInv, [Next]_vars PROVE OnceInv'
  OBVIOUS
<1>0. clock \in Nat BY Parts DEF TimesOK
<1>1. CASE LoopStep BY <1>1, OnceLoop
<1>2. CASE Minute
  <2>1. rows' = rows /\ loop' = loop /\ ran' = ran /\ unsaved' = unsaved /\ clock' = clock + 1
    BY <1>2, Zenon DEF Minute, history
  <2> QED BY <1>0, <2>1, OnceFrame
<1>3. CASE PanelEnds
  <2>1. ran' = [s \in Schedules |-> {}] /\ loop'.pc = "down" BY <1>3, Nothing DEF PanelEnds
  <2> QED BY <2>1 DEF OnceInv, Ticking
<1>4. CASE Start
  <2>1. rows' = rows /\ ran' = ran /\ unsaved' = unsaved /\ clock' = clock /\ loop.pc = "down"
    BY <1>4, Zenon DEF Start, history
  <2>2. loop'.pc = "skip" BY <1>4, Nothing DEF Start, Loop
  <2> QED BY <2>1, <2>2 DEF OnceInv, Past, Behind, Ticking, Working
<1>5. CASE \E a \in Reqs : Serve(a) BY <1>5, OnceServe
<1>6. CASE UNCHANGED vars
  <2>1. rows' = rows /\ loop' = loop /\ ran' = ran /\ unsaved' = unsaved /\ clock' = clock BY <1>6 DEF vars
  <2> QED BY <1>0, <2>1, OnceFrame
<1> QED BY <1>1, <1>2, <1>3, <1>4, <1>5, <1>6 DEF Next

\* Runs missed while the panel was down are not made up for, and a due time that was run is
\* not run again until the schedule is changed, but after a tick that could not be written
\* down because one of its schedules was deleted.
THEOREM EachOnceHolds == Spec => []EachOnce
<1>1. Init => OnceInv
  <2>1. Init => loop.pc = "down" /\ (\A s \in Schedules : ran[s] = {}) BY Nothing DEF Init
  <2> QED BY <2>1 DEF OnceInv, Ticking
<1>2. TypeInv /\ MissedInv /\ OnceInv => EachOnce
  <2> SUFFICES ASSUME TypeInv, MissedInv, OnceInv PROVE EachOnce
    OBVIOUS
  <2>1. MissedSkipped BY DEF MissedInv, HeldFresh, Ticking, MissedSkipped
  <2>2. ASSUME loop.pc = "run", NEW s \in loop.left, loop.held[s].next \in ran[s]
        PROVE  loop.held[s].next \in unsaved[s]
    <3>1. loop.held[s].next \in Nat BY <2>2, Parts
    <3> QED BY <2>2, <3>1 DEF OnceInv, Ticking
  <2> QED BY <2>1, <2>2 DEF EachOnce, RunsAgainOnlyUnsaved
<1> QED BY <1>1, <1>2, TypeInit, TypeStep, MissedInit, MissedStep, OnceStep, PTL DEF Spec
----------------------------------------------------------------------------
(* With one request at a time, an enabled schedule has a time to run at.   *)

OneRequest == \A a, b \in Reqs : a = b
\* Some timetable can be asked for, and none is longer than some time: cron comes back in years.
BoundedCron == Bodies # {} /\ \E bound \in Nat : \A body \in Bodies : body.cron <= bound

RowTimed(s) ==
    /\ rows[s].cron <= LongestCron /\ rows[s].next <= clock + LongestCron
    /\ rows[s].enabled => rows[s].next # None
HeldTimed == \A s \in loop.due : loop.held[s].cron <= LongestCron

\* A request holds what its row says of being enabled; what it will write either ends
\* that, or writes a time, or leaves one, or leaves the row disabled.
HeldIsRow(a) ==
    LET row == rows[req[a].id] IN
    req[a].pc = "apply" /\ row.state = "live" =>
        /\ row.enabled <=> req[a].held.enabled
        /\ req[a].held.next # None => row.next # None
WillBeTimed(a) ==
    LET row == rows[req[a].id] change == req[a].change IN
    req[a].pc = "commit" =>
        /\ change.cron <= LongestCron /\ change.next <= clock + LongestCron
        /\ row.state = "live" =>
              \/ change.enabled = "no"
              \/ change.next > 0
              \/ change.next = -1 /\ row.next # None
              \/ change.enabled = "same" /\ ~row.enabled

TimedInv ==
    /\ \A s \in Schedules : RowTimed(s)
    /\ HeldTimed
    /\ \A a \in Reqs : HeldIsRow(a) /\ WillBeTimed(a)

LEMMA Longest ==
    ASSUME BoundedCron
    PROVE  LongestCron \in Nat \ {0} /\ \A body \in Bodies : body.cron \in Nat \ {0} /\ body.cron <= LongestCron
<1>2. \A body \in Bodies : body.cron \in Nat \ {0} BY BodiesAssumption
<1>0. PICK bound \in Nat : \A body \in Bodies : body.cron <= bound BY DEF BoundedCron
<1> DEFINE T == {bound - body.cron : body \in Bodies}
<1>a. T \subseteq Nat /\ T # {} BY <1>0, <1>2 DEF BoundedCron
<1>b. \E x \in T : \A y \in T : ~(<<y, x>> \in OpToRel(<, Nat)) BY <1>a, WFMin, NatLessThanWellFounded, Zenon
<1>c. PICK x \in T : \A y \in T : ~(y < x) BY <1>a, <1>b DEF OpToRel
<1>1. PICK longest \in Bodies : \A body \in Bodies : body.cron <= longest.cron
  <2>1. PICK longest \in Bodies : x = bound - longest.cron BY <1>c
  <2>2. ASSUME NEW body \in Bodies PROVE body.cron <= longest.cron
    <3>1. bound - body.cron \in T BY <2>2
    <3>2. ~(bound - body.cron < bound - longest.cron) BY <1>c, <2>1, <3>1
    <3>3. body.cron \in Nat /\ longest.cron \in Nat BY <1>2
    <3> QED BY <1>0, <3>2, <3>3
  <2> QED BY <2>2
<1>3. LongestCron \in {b.cron : b \in Bodies} /\ \A b \in Bodies : b.cron <= LongestCron
  BY <1>1 DEF LongestCron
<1> QED BY <1>2, <1>3

\* Steps that leave the rows alone, or move them on to a time as a tick does.
MovedAtMost ==
    \A s \in Schedules :
        \/ rows'[s] = rows[s]
        \/ /\ rows'[s].cron = rows[s].cron /\ rows'[s].enabled = rows[s].enabled
           /\ rows[s].state = "live" /\ rows'[s].state = "live"
           /\ rows'[s].next # None /\ rows'[s].next <= clock + LongestCron

LEMMA LaterBound == \A t, u, l \in Nat : t <= u => t + l \in Nat /\ u + l \in Nat /\ t + l <= u + l
OBVIOUS

LEMMA TimedRows ==
    ASSUME BoundedCron, TypeInv, TimedInv, MovedAtMost, clock' \in Nat, clock <= clock'
    PROVE  \A s \in Schedules : rows' \in [Schedules -> Row] => RowTimed(s)'
<1>0. RowsOK /\ clock \in Nat /\ LongestCron \in Nat BY Longest, Parts DEF TimesOK
<1> DEFINE L == LongestCron
           T == clock + L
           U == clock' + L
<1>4. T \in Nat /\ U \in Nat /\ T <= U BY <1>0, LaterBound
<1> SUFFICES ASSUME NEW s \in Schedules, rows' \in [Schedules -> Row] PROVE RowTimed(s)'
  OBVIOUS
<1>1. rows[s].next \in Nat /\ rows'[s].next \in Nat BY <1>0, RowFields DEF RowsOK
<1>2. rows[s].cron <= LongestCron /\ rows[s].next <= clock + LongestCron /\ (rows[s].enabled => rows[s].next # None)
  BY Zenon DEF TimedInv, RowTimed
<1>5. rows'[s].cron <= LongestCron /\ (rows'[s].enabled => rows'[s].next # None)
  BY <1>2, Zenon DEF MovedAtMost
<1>6. rows'[s].next <= T BY <1>2 DEF MovedAtMost
<1> HIDE DEF T, U
<1>7. rows'[s].next <= U BY <1>1, <1>4, <1>6
<1>8. U = (clock + LongestCron)' BY DEF U, LongestCron
<1> QED BY <1>5, <1>7, <1>8 DEF RowTimed

LEMMA TimedRequests ==
    ASSUME BoundedCron, TypeInv, TimedInv, MovedAtMost, clock' \in Nat, clock <= clock',
           NEW a \in Reqs, req'[a] = req[a]
    PROVE  HeldIsRow(a)' /\ WillBeTimed(a)'
<1>0. ReqOK /\ clock \in Nat /\ LongestCron \in Nat BY Longest, Parts DEF TimesOK
<1>1. req[a].pc \in {"apply", "commit"} => req[a].id \in Schedules BY DEF TypeInv, Sound
<1>2. HeldIsRow(a) /\ WillBeTimed(a) BY DEF TimedInv
<1>3. HeldIsRow(a)'
  <2> SUFFICES ASSUME req[a].pc = "apply", rows'[req[a].id].state = "live"
               PROVE  /\ rows'[req[a].id].enabled <=> req[a].held.enabled
                      /\ req[a].held.next # None => rows'[req[a].id].next # None
    BY Zenon DEF HeldIsRow
  <2>1. /\ rows[req[a].id].state = "live" /\ rows'[req[a].id].enabled = rows[req[a].id].enabled
        /\ rows[req[a].id].next # None => rows'[req[a].id].next # None
    BY <1>1, Zenon DEF MovedAtMost
  <2>2. /\ rows[req[a].id].enabled <=> req[a].held.enabled
        /\ req[a].held.next # None => rows[req[a].id].next # None
    BY <1>2, <2>1, Zenon DEF HeldIsRow
  <2> QED BY <2>1, <2>2, Zenon
<1>4. WillBeTimed(a)'
  <2> SUFFICES ASSUME req[a].pc = "commit"
               PROVE  /\ req[a].change.cron <= LongestCron /\ req[a].change.next <= clock' + LongestCron
                      /\ rows'[req[a].id].state = "live" =>
                            \/ req[a].change.enabled = "no"
                            \/ req[a].change.next > 0
                            \/ req[a].change.next = -1 /\ rows'[req[a].id].next # None
                            \/ req[a].change.enabled = "same" /\ ~rows'[req[a].id].enabled
    BY Zenon DEF WillBeTimed, LongestCron
  <2>1. /\ req[a].change.cron <= LongestCron /\ req[a].change.next <= clock + LongestCron
        /\ rows[req[a].id].state = "live" =>
              \/ req[a].change.enabled = "no"
              \/ req[a].change.next > 0
              \/ req[a].change.next = -1 /\ rows[req[a].id].next # None
              \/ req[a].change.enabled = "same" /\ ~rows[req[a].id].enabled
    BY <1>2, Zenon DEF WillBeTimed
  <2>2. /\ rows'[req[a].id].state = "live" => rows[req[a].id].state = "live"
        /\ rows'[req[a].id].enabled = rows[req[a].id].enabled
        /\ rows[req[a].id].next # None => rows'[req[a].id].next # None
    BY <1>1, Zenon DEF MovedAtMost
  <2>3. req[a].change.next \in Nat \cup {-1} BY <1>0 DEF ReqOK, Request, Change
  <2>4. req[a].change.next <= clock' + LongestCron BY <1>0, <2>1, <2>3
  <2> QED BY <2>1, <2>2, <2>4, Zenon
<1> QED BY <1>3, <1>4

LEMMA TimedServe ==
    ASSUME OneRequest, BoundedCron, TypeInv, TypeInv', TimedInv, NEW a \in Reqs, Serve(a)
    PROVE  TimedInv'
<1>0. /\ RowsOK /\ ReqOK /\ clock \in Nat /\ loop \in Loop /\ LongestCron \in Nat /\ LongestCron' = LongestCron
      /\ \A s \in Schedules : rows[s].next \in Nat /\ rows[s].cron \in Nat
  BY Longest, Parts, RowFields DEF TimesOK, LongestCron, RowsOK
<1>1. loop' = loop /\ clock' = clock
  BY Zenon DEF Serve, Load, Refused, Apply, Create, Update, Delete, RunNow, history
<1>2. HeldTimed' BY <1>0, <1>1 DEF TimedInv, HeldTimed
<1>3. \A b \in Reqs : b = a BY DEF OneRequest
<1>4. Finish(a) => req'[a].pc = "idle" BY <1>0, Nothing DEF Finish, ReqOK
<1>5. req'[a].pc \notin {"apply", "commit"} => HeldIsRow(a)' /\ WillBeTimed(a)'
  BY DEF HeldIsRow, WillBeTimed
<1>6. rows' = rows => \A s \in Schedules : RowTimed(s)'
  BY <1>0, <1>1, Zenon DEF TimedInv, RowTimed
<1>7. ASSUME \A s \in Schedules : RowTimed(s)', HeldIsRow(a)', WillBeTimed(a)' PROVE TimedInv'
  BY <1>2, <1>3, <1>7, Zenon DEF TimedInv
\* One row is written, and no request is left at work.
<1>8. ASSUME NEW s \in Schedules, \A other \in Schedules : other # s => rows'[other] = rows[other],
             req'[a].pc \notin {"apply", "commit"},
             rows'[s].cron <= LongestCron, rows'[s].next <= clock + LongestCron,
             rows'[s].enabled => rows'[s].next # None
      PROVE  TimedInv'
  <2>1. RowTimed(s)' BY <1>0, <1>1, <1>8, Zenon DEF RowTimed
  <2>2. ASSUME NEW other \in Schedules, other # s PROVE RowTimed(other)'
    <3>1. RowTimed(other) BY DEF TimedInv
    <3> QED BY <1>0, <1>1, <1>8, <2>2, <3>1, Zenon DEF RowTimed
  <2>3. \A other \in Schedules : RowTimed(other)' BY <2>1, <2>2
  <2> QED BY <1>5, <1>7, <1>8, <2>3
<1>9. CASE Load(a)
  <2>1. rows' = rows BY <1>9, Zenon DEF Load
  <2>2. PICK op \in Ops \cap {"update", "run"}, s \in Schedules :
           req' = [req EXCEPT ![a] = [Idle EXCEPT !.op = op, !.id = s, !.held = rows[s],
                                                  !.pc = IF op = "run" THEN "execute" ELSE "apply"]]
    BY <1>9, Zenon DEF Load
  <2>3. req'[a].id = s /\ req'[a].held = rows[s] /\ req'[a].pc \in {"execute", "apply"}
    BY <1>0, <2>2, Nothing DEF ReqOK, Request
  <2>4. HeldIsRow(a)' BY <2>1, <2>3, Zenon DEF HeldIsRow
  <2>5. WillBeTimed(a)' BY <2>3 DEF WillBeTimed
  <2> QED BY <1>6, <1>7, <2>1, <2>4, <2>5
<1>10. CASE Refused(a) \/ RunNow(a)
  <2>1. rows' = rows /\ Finish(a) BY <1>10, Zenon DEF Refused, RunNow
  <2> QED BY <1>4, <1>5, <1>6, <1>7, <2>1
<1>11. CASE Create(a)
  <2>1. req' = req /\ req[a] = Idle BY <1>11, Zenon DEF Create
  <2>2. PICK s \in Schedules, body \in Bodies :
           rows' = [rows EXCEPT ![s] = Merged(NoRow, Changes(NoRow, body, NewTime(body)))]
    BY <1>11, Zenon DEF Create
  <2>3. /\ rows'[s].next = NewTime(body) /\ rows'[s].cron = body.cron
        /\ \A other \in Schedules : other # s => rows'[other] = rows[other]
    BY <1>0, <2>2, BodyTypes DEF TypeInv, RowsOK
  <2>4. rows'[s].enabled => body.enabled
    <3>1. rows'[s] = Merged(NoRow, Changes(NoRow, body, NewTime(body))) BY <1>0, <2>2 DEF RowsOK
    <3>2. Merged(NoRow, Changes(NoRow, body, NewTime(body))).enabled => body.enabled
      BY BodyTypes, Zenon DEF TypeInv
    <3> QED BY <3>1, <3>2, Zenon
  <2>5. NewTime(body) \in Nat /\ NewTime(body) <= clock + LongestCron /\ body.cron <= LongestCron
    <3>1. body.cron \in Nat /\ body.cron <= LongestCron BY Longest
    <3>2. NewTime(body) \in Nat /\ (NewTime(body) # None => NewTime(body) <= clock + body.cron)
      BY BodyTypes DEF TypeInv
    <3> QED BY <1>0, <3>1, <3>2 DEF None
  <2>6. rows'[s].enabled => rows'[s].next # None
    <3>1. NewTime(body) = None => ~body.enabled BY BodyTypes, Zenon DEF TypeInv
    <3> QED BY <2>3, <2>4, <3>1, Zenon
  <2>7. req'[a].pc = "idle" BY <2>1, Nothing
  <2>8. rows'[s].cron <= LongestCron /\ rows'[s].next <= clock + LongestCron BY <2>3, <2>5
  <2> QED BY <1>8, <2>3, <2>6, <2>7, <2>8
<1>12. CASE Delete(a)
  <2>1. req' = req /\ req[a] = Idle BY <1>12, Zenon DEF Delete
  <2>2. PICK s \in Schedules : rows' = [rows EXCEPT ![s] = GoneRow] BY <1>12, Zenon DEF Delete
  <2>3. rows'[s] = GoneRow /\ \A other \in Schedules : other # s => rows'[other] = rows[other]
    BY <1>0, <2>2 DEF RowsOK
  <2>4. rows'[s].next = 0 /\ rows'[s].cron = 0 BY <2>3, RowFields DEF None
  <2>5. ~rows'[s].enabled BY <2>3, RowFields, Zenon
  <2>6. req'[a].pc = "idle" BY <2>1, Nothing
  <2>7. rows'[s].cron <= LongestCron /\ rows'[s].next <= clock + LongestCron BY <1>0, <2>4
  <2> QED BY <1>8, <2>3, <2>5, <2>6, <2>7
<1>13. CASE Apply(a)
  <2>1. rows' = rows /\ req[a].pc = "apply" BY <1>13, Zenon DEF Apply
  <2>2. PICK body \in Bodies :
           req' = [req EXCEPT ![a].pc = "commit", ![a].held = NoRow, ![a].change =
                      Changes(req[a].held, body, NewTime(body))]
    BY <1>13, Zenon DEF Apply
  <2> DEFINE n == NewTime(body)
             c == Changes(req[a].held, body, n)
             row == rows[req[a].id]
             held == req[a].held
  <2>3. held \in Row /\ req[a].id \in Schedules BY <1>0, <2>1 DEF ReqOK, Request, TypeInv, Sound
  <2>4. /\ n \in Nat /\ body.cron \in Nat /\ body.cron <= LongestCron
        /\ n # None => n <= clock + body.cron
    BY Longest, BodyTypes DEF TypeInv
  <2>5. n = None => ~body.enabled BY BodyTypes, Zenon DEF TypeInv
  <2>6. req'[a].pc = "commit" /\ req'[a].change = c /\ req'[a].id = req[a].id
    <3>1. req' = [req EXCEPT ![a].pc = "commit", ![a].held = NoRow, ![a].change = c] BY <2>2
    <3> HIDE DEF c
    <3> QED BY <1>0, <3>1 DEF ReqOK, Request
  <2> HIDE DEF n
  <2>7. c.next = (IF n = held.next THEN -1 ELSE n) /\ c.cron = (IF body.cron = held.cron THEN None ELSE body.cron)
    BY <2>3, <2>4, ChangeFields
  <2>8. body.enabled /\ ~held.enabled => c.enabled = "yes" BY <2>3, <2>4, ChangeFields, Zenon
  <2>9. /\ c.enabled \in {"yes", "no", "same"} /\ (c.enabled = "yes" => body.enabled)
        /\ ~body.enabled => c.enabled = "no" \/ (c.enabled = "same" /\ ~held.enabled)
    <3>1. c.enabled \in {"yes", "no", "same"} BY Zenon DEF Changes
    <3>2. c.enabled = "yes" <=> body.enabled /\ ~held.enabled BY <2>3, <2>4, ChangeFields, Zenon
    <3>3. c.enabled = "no" <=> ~body.enabled /\ held.enabled BY <2>3, <2>4, ChangeFields, Zenon
    <3> QED BY <3>1, <3>2, <3>3, Zenon
  <2> HIDE DEF c
  <2>10. row.state = "live" => (row.enabled <=> held.enabled) BY <2>1, Zenon DEF TimedInv, HeldIsRow
  <2>11. row.state = "live" /\ held.next # None => row.next # None BY <2>1, Zenon DEF TimedInv, HeldIsRow
  <2>12. c.cron <= LongestCron /\ c.next <= clock + LongestCron BY <1>0, <2>4, <2>7 DEF None
  <2>13. ASSUME row.state = "live"
         PROVE  \/ c.enabled = "no"
                \/ c.next > 0
                \/ c.next = -1 /\ row.next # None
                \/ c.enabled = "same" /\ ~row.enabled
    <3>1. CASE n = None
      <4>1. ~body.enabled BY <2>5, <3>1
      <4> QED BY <2>9, <2>10, <2>13, <4>1, Zenon
    <3>2. CASE n # None /\ n = held.next BY <2>7, <2>11, <2>13, <3>2
    <3>3. CASE n # None /\ n # held.next BY <2>4, <2>7, <3>3 DEF None
    <3> QED BY <3>1, <3>2, <3>3
  <2>14. HeldIsRow(a)' BY <2>6 DEF HeldIsRow
  <2>15. WillBeTimed(a)'
    <3>1. clock' + LongestCron' = clock + LongestCron BY <1>0, <1>1
    <3> QED BY <1>0, <1>1, <2>1, <2>6, <2>12, <2>13, Zenon DEF WillBeTimed, row
  <2> QED BY <1>6, <1>7, <2>1, <2>14, <2>15
<1>14. CASE Update(a)
  <2>1. Finish(a) /\ req[a].pc = "commit" BY <1>14, Zenon DEF Update
  <2>2. CASE ~ (Live(req[a].id) /\ ~loop.locks)
    <3>1. rows' = rows BY <1>14, <2>2 DEF Update
    <3> QED BY <1>4, <1>5, <1>6, <1>7, <2>1, <3>1
  <2>3. CASE Live(req[a].id) /\ ~loop.locks
    <3> DEFINE s == req[a].id
               c == req[a].change
               old == rows[s]
               new == rows'[s]
    <3>1. rows' = [rows EXCEPT ![s] = Merged(old, c)] BY <1>14, <2>3 DEF Update
    <3>2. s \in Schedules /\ c \in Change BY <1>0, <2>1 DEF ReqOK, TypeInv, Sound, Request
    <3>3. old \in LiveRow /\ old.state = "live" BY <1>0, <2>3, <3>2, RowTypes DEF Live, RowsOK
    <3>4. new = Merged(old, c) /\ \A other \in Schedules : other # s => rows'[other] = rows[other]
      BY <1>0, <3>1, <3>2 DEF RowsOK
    <3>5. /\ c.cron <= LongestCron /\ c.next <= clock + LongestCron
          /\ \/ c.enabled = "no"
             \/ c.next > 0
             \/ c.next = -1 /\ old.next # None
             \/ c.enabled = "same" /\ ~old.enabled
      BY <2>1, <3>3, Zenon DEF TimedInv, WillBeTimed
    <3>6. old.cron <= LongestCron /\ old.next <= clock + LongestCron /\ (old.enabled => old.next # None)
      BY <3>2, Zenon DEF TimedInv, RowTimed
    <3> HIDE DEF s, c, old
    <3>7. LET m == Merged(old, c)
          IN  /\ m.next = (IF c.next = -1 THEN old.next ELSE c.next)
              /\ m.cron = (IF c.cron = None THEN old.cron ELSE c.cron)
              /\ c.enabled = "same" => m.enabled = old.enabled
              /\ c.enabled = "no" => m.enabled = FALSE
      BY <3>2, <3>3 DEF Merged, LiveRow, Change
    <3> HIDE DEF new
    <3>8. /\ new.next = (IF c.next = -1 THEN old.next ELSE c.next)
          /\ new.cron = (IF c.cron = None THEN old.cron ELSE c.cron)
          /\ c.enabled = "same" => new.enabled = old.enabled
          /\ c.enabled = "no" => new.enabled = FALSE
      <4> DEFINE m == Merged(old, c)
      <4>1. new = m BY <3>4
      <4>2. /\ m.next = (IF c.next = -1 THEN old.next ELSE c.next)
            /\ m.cron = (IF c.cron = None THEN old.cron ELSE c.cron)
            /\ c.enabled = "same" => m.enabled = old.enabled
            /\ c.enabled = "no" => m.enabled = FALSE
        BY <3>7, Zenon
      <4> HIDE DEF m
      <4> QED BY <4>1, <4>2
    <3>9. new.cron <= LongestCron /\ new.next <= clock + LongestCron
      BY <3>5, <3>6, <3>8
    <3>10. new.enabled => new.next # None
      <4>1. CASE c.enabled = "no" BY <3>8, <4>1, Zenon
      <4>2. CASE c.next > 0 BY <3>8, <4>2 DEF None
      <4>3. CASE c.next = -1 /\ old.next # None BY <3>8, <4>3
      <4>4. CASE c.enabled = "same" /\ ~old.enabled BY <3>8, <4>4, Zenon
      <4> QED BY <3>5, <4>1, <4>2, <4>3, <4>4
    <3>11. req'[a].pc = "idle" BY <1>4, <2>1
    <3> QED BY <1>8, <3>2, <3>4, <3>9, <3>10, <3>11 DEF new
  <2> QED BY <2>2, <2>3
<1> QED BY <1>9, <1>10, <1>11, <1>12, <1>13, <1>14 DEF Serve

\* The frame of the steps no request has a part in.
LEMMA TimedFrame ==
    ASSUME BoundedCron, TypeInv, TypeInv', TimedInv, MovedAtMost, clock <= clock', HeldTimed',
           \A a \in Reqs : req'[a] = req[a] \/ req'[a].pc \notin {"apply", "commit"}
    PROVE  TimedInv'
<1>0. clock' \in Nat /\ rows' \in [Schedules -> Row] BY BoundsAssumption DEF TypeInv, TypeOK
<1>1. \A s \in Schedules : RowTimed(s)' BY <1>0, TimedRows
<1>2. ASSUME NEW a \in Reqs PROVE HeldIsRow(a)' /\ WillBeTimed(a)'
  <2>1. CASE req'[a] = req[a] BY <1>0, <2>1, TimedRequests
  <2>2. CASE req'[a].pc \notin {"apply", "commit"} BY <2>2 DEF HeldIsRow, WillBeTimed
  <2> QED BY <2>1, <2>2
<1> QED BY <1>1, <1>2 DEF TimedInv

LEMMA TimedLoop ==
    ASSUME BoundedCron, TypeInv, TypeInv', MissedInv, TimedInv, LoopStep
    PROVE  TimedInv'
<1>0. /\ RowsOK /\ clock \in Nat /\ loop \in Loop /\ LongestCron \in Nat /\ LongestCron' = LongestCron
      /\ loop.left \subseteq loop.due
      /\ \A s \in loop.due : s \in Schedules /\ loop.held[s].cron \in Nat \ {0}
  BY Longest, Parts DEF TimesOK, LongestCron
<1>1. req' = req /\ clock' = clock
  BY Zenon DEF LoopStep, SkipMissed, SkipCommit, Wake, Execute, ExecuteFails, TickCommit, TickFails, history
<1>2. ASSUME MovedAtMost, HeldTimed' PROVE TimedInv' BY <1>0, <1>1, <1>2, TimedFrame
<1>3. rows' = rows => MovedAtMost BY Zenon DEF MovedAtMost
<1>4. Sleep => HeldTimed' BY SleepType DEF HeldTimed
<1>5. loop'.due = DueAt(clock) /\ loop'.held = Held(DueAt(clock)) => HeldTimed'
  <2> SUFFICES ASSUME loop'.due = DueAt(clock), loop'.held = Held(DueAt(clock)), NEW s \in DueAt(clock)
               PROVE  loop'.held[s].cron <= LongestCron
    BY <1>0 DEF HeldTimed
  <2>1. s \in Schedules /\ Held(DueAt(clock))[s].cron = rows[s].cron BY <1>0, DueTypes
  <2>2. rows[s].cron <= LongestCron BY <2>1 DEF TimedInv, RowTimed
  <2> QED BY <2>1, <2>2
<1>6. Working /\ (\A s \in loop.due : Live(s)) /\ rows' = MovedOn => MovedAtMost
  <2> SUFFICES ASSUME Working, \A s \in loop.due : Live(s), rows' = MovedOn, NEW s \in Schedules, s \in loop.due
               PROVE  /\ rows'[s].cron = rows[s].cron /\ rows'[s].enabled = rows[s].enabled
                      /\ rows[s].state = "live" /\ rows'[s].state = "live"
                      /\ rows'[s].next # None /\ rows'[s].next <= clock + LongestCron
    BY MovedOnRows DEF MovedAtMost
  <2>1. loop.now <= clock /\ loop.now \in Nat BY <1>0 DEF MissedInv, Started, Loop
  <2>2. loop.held[s].cron <= LongestCron /\ loop.held[s].cron \in Nat BY <1>0 DEF TimedInv, HeldTimed
  <2>3. /\ rows'[s].cron = rows[s].cron /\ rows'[s].enabled = rows[s].enabled
        /\ rows'[s] \in LiveRow
        /\ loop.now < rows'[s].next /\ rows'[s].next <= loop.now + loop.held[s].cron
    BY MovedOnRows
  <2>4. rows'[s].state = "live" /\ rows'[s].next \in Nat BY <2>3 DEF LiveRow
  <2>5. rows[s].state = "live" BY DEF Live
  <2>6. rows'[s].next # None /\ rows'[s].next <= clock + LongestCron
    BY <1>0, <2>1, <2>2, <2>3, <2>4 DEF None
  <2> QED BY <2>3, <2>4, <2>5, <2>6
<1>7. CASE SkipMissed
  <2>1. /\ loop' = [loop EXCEPT !.pc = "skipped", !.now = clock, !.due = DueAt(clock), !.held = Held(DueAt(clock))]
        /\ rows' = rows
    BY <1>7, Zenon DEF SkipMissed
  <2>2. loop'.due = DueAt(clock) /\ loop'.held = Held(DueAt(clock)) BY <1>0, <2>1 DEF Loop
  <2> QED BY <1>2, <1>3, <1>5, <2>1, <2>2
<1>8. CASE SkipCommit
  <2>1. CASE \A s \in loop.due : Live(s)
    <3>1. loop.pc = "skipped" /\ rows' = MovedOn /\ Sleep BY <1>8, <2>1 DEF SkipCommit
    <3> QED BY <1>2, <1>4, <1>6, <2>1, <3>1 DEF Working
  <2>2. CASE ~ \A s \in loop.due : Live(s)
    <3>1. loop' = [StoppedLoop EXCEPT !.pc = "dead"] /\ rows' = rows BY <1>8, <2>2 DEF SkipCommit
    <3>2. loop'.due = {} BY <3>1 DEF StoppedLoop
    <3> QED BY <1>2, <1>3, <3>1, <3>2 DEF HeldTimed
  <2> QED BY <2>1, <2>2
<1>9. CASE Wake
  <2>1. rows' = rows BY <1>9, Zenon DEF Wake
  <2>2. CASE DueAt(clock) = {}
    <3>1. Sleep BY <1>9, <2>2 DEF Wake
    <3> QED BY <1>2, <1>3, <1>4, <2>1, <3>1
  <2>3. CASE DueAt(clock) # {}
    <3>1. loop' = [loop EXCEPT !.pc = "run", !.now = clock, !.due = DueAt(clock), !.left = DueAt(clock),
                               !.held = Held(DueAt(clock))]
      BY <1>9, <2>3 DEF Wake
    <3>2. loop'.due = DueAt(clock) /\ loop'.held = Held(DueAt(clock)) BY <1>0, <3>1 DEF Loop
    <3> QED BY <1>2, <1>3, <1>5, <2>1, <3>2
  <2> QED BY <2>2, <2>3
<1>10. CASE Execute
  <2>1. rows' = rows /\ loop'.due = loop.due /\ loop'.held = loop.held BY <1>10, Executes
  <2>2. HeldTimed' BY <1>0, <2>1 DEF TimedInv, HeldTimed
  <2> QED BY <1>2, <1>3, <2>1, <2>2
<1>11. ASSUME TickFails PROVE TimedInv' BY <1>2, <1>3, <1>4, <1>11, Fails
<1>12. CASE TickCommit
  <2>1. CASE (\A s \in loop.due : Live(s)) /\ rows' = MovedOn /\ Sleep
    BY <1>2, <1>4, <1>6, <1>12, <2>1, TickEnds DEF Working
  <2> QED BY <1>11, <1>12, <2>1, TickEnds
<1>13. CASE ExecuteFails BY <1>11, <1>13 DEF ExecuteFails
<1> QED BY <1>7, <1>8, <1>9, <1>10, <1>12, <1>13 DEF LoopStep

LEMMA TimedStep ==
    ASSUME OneRequest, BoundedCron
    PROVE  TypeInv /\ TypeInv' /\ MissedInv /\ TimedInv /\ [Next]_vars => TimedInv'
<1> SUFFICES ASSUME TypeInv, TypeInv', MissedInv, TimedInv, [Next]_vars PROVE TimedInv'
  OBVIOUS
<1>0. clock \in Nat /\ LongestCron' = LongestCron BY Parts DEF TimesOK, LongestCron
<1>1. CASE LoopStep BY <1>1, TimedLoop
<1>2. CASE Minute \/ UNCHANGED vars
  <2>1. rows' = rows /\ loop' = loop /\ req' = req /\ clock' \in {clock, clock + 1}
    BY <1>2, Zenon DEF Minute, vars
  <2>2. MovedAtMost BY <2>1, Zenon DEF MovedAtMost
  <2>3. HeldTimed' BY <1>0, <2>1 DEF TimedInv, HeldTimed
  <2>4. clock <= clock' BY <1>0, <2>1
  <2> QED BY <2>1, <2>2, <2>3, <2>4, TimedFrame
<1>3. CASE PanelEnds
  <2>1. clock' = clock /\ rows' = rows /\ loop' = StoppedLoop /\ req' = [a \in Reqs |-> Idle]
    BY <1>3, Zenon DEF PanelEnds
  <2>2. \A a \in Reqs : req'[a].pc = "idle" BY <2>1, Nothing
  <2>3. MovedAtMost BY <2>1, Zenon DEF MovedAtMost
  <2>4. HeldTimed' BY <2>1, Nothing DEF HeldTimed
  <2> QED BY <1>0, <2>1, <2>2, <2>3, <2>4, TimedFrame
<1>4. CASE Start
  <2>1. clock' = clock /\ rows' = rows /\ req' = req BY <1>4, Zenon DEF Start
  <2>2. loop'.due = {} BY <1>4, Nothing DEF Start, StoppedLoop
  <2>3. MovedAtMost BY <2>1, Zenon DEF MovedAtMost
  <2>4. HeldTimed' BY <2>2 DEF HeldTimed
  <2> QED BY <1>0, <2>1, <2>3, <2>4, TimedFrame
<1>5. CASE \E a \in Reqs : Serve(a) BY <1>5, TimedServe
<1> QED BY <1>1, <1>2, <1>3, <1>4, <1>5 DEF Next

\* With one request at a time, whatever the loop does meanwhile, an enabled schedule has
\* a time to run at, within one run of the longest timetable that was asked for.
THEOREM EnabledAreTimed ==
    ASSUME OneRequest, BoundedCron
    PROVE  Spec => []EnabledHasNext
<1>1. Init => TimedInv
  <2> SUFFICES ASSUME Init PROVE TimedInv
    OBVIOUS
  <2>0. LongestCron \in Nat BY Longest
  <2>1. clock = 0 /\ loop.due = {} /\ \A s \in Schedules : rows[s] = NoRow BY Nothing DEF Init
  <2>2. \A a \in Reqs : req[a].pc = "idle" BY Nothing DEF Init
  <2>3. NoRow.cron = 0 /\ NoRow.next = 0 /\ NoRow.enabled = FALSE BY DEF NoRow, None
  <2>4. ASSUME NEW s \in Schedules PROVE RowTimed(s)
    <3>1. rows[s].cron <= LongestCron /\ rows[s].next <= clock + LongestCron BY <2>0, <2>1, <2>3
    <3>2. ~rows[s].enabled BY <2>1, <2>3
    <3> QED BY <3>1, <3>2, Zenon DEF RowTimed
  <2> QED BY <2>1, <2>2, <2>4 DEF TimedInv, HeldTimed, HeldIsRow, WillBeTimed
<1>2. TypeInv /\ TimedInv => EnabledHasNext
  <2> SUFFICES ASSUME TypeInv, TimedInv, NEW s \in Schedules, rows[s].enabled
               PROVE  rows[s].next \in 1 .. clock + LongestCron
    BY DEF EnabledHasNext
  <2>1. rows[s].next # None /\ rows[s].next <= clock + LongestCron BY Zenon DEF TimedInv, RowTimed
  <2>2. rows[s].next \in Nat /\ clock \in Nat /\ LongestCron \in Nat
    BY Longest, Parts, RowFields DEF TimesOK, RowsOK
  <2> QED BY <2>1, <2>2 DEF None
<1> QED BY <1>1, <1>2, TypeInit, TypeStep, MissedInit, MissedStep, TimedStep, PTL DEF Spec
================================================================================
