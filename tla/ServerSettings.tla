---------------------------- MODULE ServerSettings ----------------------------
(***************************************************************************)
(* What a server is given when it is created and what may be changed       *)
(* later: the values of its template's fields and its host ports           *)
(* (create_server and update_server in panel/app/api/servers.py,           *)
(* panel/app/games/validation.py, panel/app/runtime/ports.py, the          *)
(* references of panel/app/games/schema.py).  An action ends where the     *)
(* coroutine awaits something another one may come between.                *)
(***************************************************************************)
EXTENDS Integers, Sequences, FiniteSets, SequencesExt, FiniteSetsExt

CONSTANTS
    Ids,          \* servers
    Reqs,         \* requests
    Ports,        \* the template's ports
    Fields,       \* the template's fields, in order
    Listed(_,_), \* what a provider lists for a field, by what it depends on
    Bodies,       \* what is filled in for a new server
    Edits,        \* what is filled in to change one
    Secrets,      \* what is generated
    Outsiders,    \* ports of the host other programs may have
    SearchLimit,  \* how far from its default a port is searched
    MaxPort,      \* where ports end
    MaxAsked      \* bound: how many requests there are in all

No == "none"
ASSUME BoundsAssumption == SearchLimit \in Nat \ {0} /\ MaxPort \in Nat \ {0} /\ MaxAsked \in Nat

\* _check_references: a port follows one declared before it, fields depend on earlier ones.
ReferencesOk ==
    /\ \A n \in DOMAIN Ports :
          /\ Ports[n].follows # No => \E m \in 1 .. n - 1 : Ports[m].name = Ports[n].follows
          /\ \A m \in DOMAIN Ports : Ports[m].name = Ports[n].name => m = n
    /\ \A n \in DOMAIN Fields :
          /\ \A ref \in {Fields[n].ref, Fields[n].source} \ {No} : \E m \in 1 .. n - 1 : Fields[m].id = ref
          /\ \A m \in DOMAIN Fields : Fields[m].id = Fields[n].id => m = n
ASSUME ReferencesAssumption == ReferencesOk
\* The ports and the fields a template can have; a secret has no default.
ASSUME PortsAssumption ==
    /\ Outsiders \subseteq Nat \X {"tcp", "udp"}
    /\ Ports \in Seq([name : STRING, protocol : {"tcp", "udp"}, default : 1 .. MaxPort - 1, follows : STRING])
ASSUME FieldsAssumption ==
    /\ Fields \in Seq([id : STRING, kind : {"string", "select", "dynamic", "hidden"}, editable : BOOLEAN,
                       required : BOOLEAN, default : STRING, options : SUBSET STRING, ref : STRING,
                       shownFor : SUBSET STRING, source : STRING])
    /\ \A n \in DOMAIN Fields : Fields[n].id # No /\ (Fields[n].kind = "hidden" => Fields[n].default = No)
\* A template whose choices depend on a field that can be changed is not covered: an unchanged
\* choice is not looked up again.
ASSUME SourcesAssumption == \A n, m \in DOMAIN Fields : Fields[n].source = Fields[m].id => ~Fields[m].editable

FieldIds == {Fields[n].id : n \in DOMAIN Fields}
Field(id) == CHOOSE f \in Range(Fields) : f.id = id
NoValues == [id \in FieldIds |-> No]
ASSUME FilledAssumption ==
    /\ Bodies \cup Edits \cup {NoValues} \subseteq [FieldIds -> STRING]
    /\ Secrets \subseteq STRING \ {No}

VARIABLES
    servers,    \* the servers' rows
    outside,    \* the ports other programs have
    req,        \* what each request is doing
    asked,      \* how many requests there were
    missed,     \* a server got its ports by a look at the others that was no longer true
    crossed     \* a server was changed by values that were no longer its own

vars == <<servers, outside, req, asked, missed, crossed>>

NoServer == [state |-> "new", values |-> NoValues, ports |-> [n \in DOMAIN Ports |-> 0]]
\* base is what the row had when the request loaded it, taken the ports it saw.
Idle == [pc |-> "idle", id |-> No, base |-> NoValues, values |-> NoValues, edit |-> NoValues, taken |-> {}]
----------------------------------------------------------------------------
(* Ports: allocate_ports. *)

RootOf == LET root[n \in DOMAIN Ports] ==
                IF Ports[n].follows = No THEN n
                ELSE root[CHOOSE m \in 1 .. n - 1 : Ports[m].name = Ports[n].follows]
          IN  root
Group(leader) == {n \in DOMAIN Ports : RootOf[n] = leader}

\* Mutant of Bases: the search starts behind the default.
BasesAfter(leader) == {b \in 1 .. MaxPort - 1 : b - Ports[leader].default \in 1 .. SearchLimit - 1}
Bases(leader) == {b \in 1 .. MaxPort - 1 : b - Ports[leader].default \in 0 .. SearchLimit - 1}
Chosen(leader, base, n) == base + Ports[n].default - Ports[leader].default

Usable(port, protocol, taken) == 0 < port /\ port < MaxPort /\ <<port, protocol>> \notin taken
Fit(leader, taken) ==
    {b \in Bases(leader) : \A n \in Group(leader) : Usable(Chosen(leader, b, n), Ports[n].protocol, taken)}

\* Mutant of Claimed: what the server was given already is not counted.
ClaimedNot(leader, base, taken) == taken
Claimed(leader, base, taken) == taken \cup {<<Chosen(leader, base, n), Ports[n].protocol>> : n \in Group(leader)}
\* A port that follows another is given with the group of its leader.
GiveGroup(done, leader) ==
    IF Ports[leader].follows # No THEN done
    ELSE IF ~done.ok \/ Fit(leader, done.taken) = {} THEN [done EXCEPT !.ok = FALSE]
    ELSE LET base == Min(Fit(leader, done.taken)) IN
         [ok |-> TRUE, taken |-> Claimed(leader, base, done.taken),
          ports |-> [n \in DOMAIN Ports |-> IF n \in Group(leader) THEN Chosen(leader, base, n) ELSE done.ports[n]]]
Allocate(taken) == FoldLeftDomain(GiveGroup, [ok |-> TRUE, taken |-> taken, ports |-> NoServer.ports], Ports)
----------------------------------------------------------------------------
(* Values: validate_values. *)

Visible(field, values) == field.ref = No \/ values[field.ref] \in field.shownFor

\* Mutant of Value: a hidden secret may be filled in.
ValueFilled(field, raw, previous) == IF raw[field.id] = No THEN field.default ELSE raw[field.id]
\* A hidden secret is never filled in; what is empty has its default.
Value(field, raw, previous) ==
    LET value == IF field.kind = "hidden" THEN previous[field.id] ELSE raw[field.id]
    IN  IF value = No THEN field.default ELSE value

\* What a provider is asked with.
DependencyParams(field, values) == IF field.source = No THEN No ELSE values[field.source]
\* A choice that did not change is not looked up, so no provider has to be there.
Accepted(field, value, clean, previous, reachable) ==
    CASE field.kind = "dynamic" -> \/ previous[field.id] = value
                                   \/ reachable /\ value \in Listed(field.id, DependencyParams(field, clean))
      [] field.kind = "select" -> value \in field.options
      [] OTHER -> TRUE

ValidateField(done, field, raw, previous, reachable, secret) ==
    LET value == Value(field, raw, previous) IN
    IF ~Visible(field, done.clean) THEN done
    ELSE IF value # No
         THEN IF Accepted(field, value, done.clean, previous, reachable)
              THEN [done EXCEPT !.clean[field.id] = value] ELSE [done EXCEPT !.ok = FALSE]
         ELSE IF field.kind = "hidden" THEN [done EXCEPT !.clean[field.id] = secret]
         ELSE [done EXCEPT !.ok = done.ok /\ ~field.required]

Validate(raw, previous, reachable, secret) ==
    FoldLeft(LAMBDA done, field : ValidateField(done, field, raw, previous, reachable, secret),
             [ok |-> TRUE, clean |-> NoValues], Fields)

\* Mutant of Merged: what is not filled in has its default again.
MergedDefaults(old, edit) ==
    [id \in FieldIds |-> IF edit[id] # No THEN edit[id] ELSE IF Field(id).default # No THEN Field(id).default ELSE old[id]]
Merged(old, edit) == [id \in FieldIds |-> IF edit[id] # No THEN edit[id] ELSE old[id]]
\* Mutant of Locked: what an edit reveals is not looked at.
LockedFilled(old, new) == {}
\* Editing one field can hide or reveal another.
Locked(old, new) == {id \in FieldIds : old[id] # new[id] /\ ~Field(id).editable}
----------------------------------------------------------------------------
Live == {i \in Ids : servers[i].state = "live"}
Answer(a) == req' = [req EXCEPT ![a] = Idle]
Given(i) == {<<servers[i].ports[n], Ports[n].protocol>> : n \in DOMAIN Ports}
Taken == UNION {Given(i) : i \in Live}

TypeOK ==
    /\ servers \in [Ids -> [state : {"new", "live", "gone"}, values : [FieldIds -> STRING],
                            ports : [DOMAIN Ports -> 0 .. MaxPort - 1]]]
    /\ \A a \in Reqs : /\ req[a].pc \in {"idle", "look", "insert", "commit"} /\ req[a].id \in Ids \cup {No}
                       /\ {req[a].base, req[a].values, req[a].edit} \subseteq [FieldIds -> STRING]
    /\ outside \subseteq Outsiders /\ asked \in 0 .. MaxAsked
    /\ missed \in BOOLEAN /\ crossed \in BOOLEAN

Init ==
    /\ servers = [i \in Ids |-> NoServer]
    /\ outside \in SUBSET Outsiders
    /\ req = [a \in Reqs |-> Idle]
    /\ asked = 0 /\ missed = FALSE /\ crossed = FALSE

\* create_server: what is filled in is validated, which may ask a provider,
AskCreate(a) ==
    /\ req[a].pc = "idle" /\ asked < MaxAsked
    /\ \E body \in Bodies, reachable \in BOOLEAN, secret \in Secrets :
          LET result == Validate(body, NoValues, reachable, secret) IN
          /\ result.ok
          /\ req' = [req EXCEPT ![a] = [Idle EXCEPT !.pc = "look", !.values = result.clean]]
    /\ asked' = asked + 1
    /\ UNCHANGED <<servers, outside, missed, crossed>>

\* the ports of the other servers are read, stopped ones as well,
Look(a) ==
    /\ req[a].pc = "look"
    /\ req' = [req EXCEPT ![a].pc = "insert", ![a].taken = Taken]
    /\ UNCHANGED <<servers, outside, asked, missed, crossed>>

\* and after the ones of other programs its own are picked.
Insert(a) ==
    LET r == req[a]
        result == Allocate(r.taken \cup outside)
    IN
    /\ r.pc = "insert"
    /\ IF ~result.ok THEN UNCHANGED <<servers, missed>>
       ELSE /\ \E i \in Ids : servers[i].state = "new"
            /\ servers' = [servers EXCEPT ![CHOOSE i \in Ids : servers[i].state = "new"] =
                             [state |-> "live", values |-> r.values, ports |-> result.ports]]
            /\ missed' = (missed \/ ~(Taken \subseteq r.taken))
    /\ Answer(a)
    /\ UNCHANGED <<outside, asked, crossed>>

\* update_server: the row is loaded and validated with what was filled in.
AskUpdate(a) ==
    /\ req[a].pc = "idle" /\ asked < MaxAsked
    /\ \E i \in Live, edit \in Edits, reachable \in BOOLEAN, secret \in Secrets :
          LET old == servers[i].values
              result == Validate(Merged(old, edit), old, reachable, secret)
          IN
          /\ \A id \in FieldIds : edit[id] # No => Field(id).editable
          /\ result.ok /\ Locked(old, result.clean) = {}
          /\ req' = [req EXCEPT ![a] = [Idle EXCEPT !.pc = "commit", !.id = i, !.base = old,
                                                    !.values = result.clean, !.edit = edit]]
    /\ asked' = asked + 1
    /\ UNCHANGED <<servers, outside, missed, crossed>>

\* All values are one column; it is written if it changed since it was loaded.
Update(a) ==
    LET r == req[a] IN
    /\ r.pc = "commit"
    /\ IF r.id \in Live /\ r.values # r.base
       THEN /\ servers' = [servers EXCEPT ![r.id].values = r.values]
            /\ crossed' = (crossed \/ servers[r.id].values # r.base)
       ELSE UNCHANGED <<servers, crossed>>
    /\ Answer(a)
    /\ UNCHANGED <<outside, asked, missed>>

\* A server that goes gives its ports back.
Delete ==
    /\ asked < MaxAsked /\ asked' = asked + 1
    /\ \E i \in Live : servers' = [servers EXCEPT ![i] = [NoServer EXCEPT !.state = "gone"]]
    /\ UNCHANGED <<outside, req, missed, crossed>>
----------------------------------------------------------------------------
Next == Delete \/ \E a \in Reqs : AskCreate(a) \/ Look(a) \/ Insert(a) \/ AskUpdate(a) \/ Update(a)
Spec == Init /\ [][Next]_vars
----------------------------------------------------------------------------
(* Properties. *)

\* No two ports of the panel are the same, and none is another program's.
PortsApart ==
    \A i, j \in Live, n, m \in DOMAIN Ports :
        /\ <<servers[i].ports[n], Ports[n].protocol>> \notin outside
        /\ servers[i].ports[n] = servers[j].ports[m] /\ Ports[n].protocol = Ports[m].protocol => i = j /\ n = m

\* They are, but for two servers created at once.
PortsUnlessMissed == ~missed => PortsApart

\* A new server gets the first ports that are free, in the order of the template, each group
\* as a whole: a lower base would have met another port or the end of them.
FirstFree ==
    [][\A i \in Ids : servers[i].state = "new" /\ servers'[i].state = "live" =>
        \E a \in Reqs :
          /\ req[a].pc = "insert" /\ req'[a].pc = "idle"
          /\ \A n \in DOMAIN Ports :
               LET leader == RootOf[n]
                   offset == servers'[i].ports[leader] - Ports[leader].default
                   before == {<<servers'[i].ports[m], Ports[m].protocol>> : m \in {k \in DOMAIN Ports : RootOf[k] < leader}}
               IN  /\ servers'[i].ports[n] = Ports[n].default + offset
                   /\ offset \in 0 .. SearchLimit - 1
                   /\ \A less \in 0 .. offset - 1 : \E m \in Group(leader) :
                        \/ Ports[m].default + less >= MaxPort
                        \/ <<Ports[m].default + less, Ports[m].protocol>> \in req[a].taken \cup outside \cup before]_vars

\* What cannot be changed after a server is created does not change, by no edit and not by
\* two at once: neither a hidden field that an edit reveals, nor a secret.
LockedKept ==
    [][\A i \in Live : i \in Live' =>
          \A id \in FieldIds : servers'[i].values[id] # servers[i].values[id] => Field(id).editable]_vars

\* A server's values fit each other: what is not shown has none, what is required has
\* one, a secret was generated and never filled in, and a choice is one of those there are.
ValuesFit ==
    \A i \in Live, id \in FieldIds :
        LET value == servers[i].values[id]
            field == Field(id)
        IN  IF ~Visible(field, servers[i].values) THEN value = No
            ELSE /\ field.required \/ field.kind = "hidden" => value # No
                 /\ value # No /\ field.kind = "hidden" => value \in Secrets
                 /\ value # No /\ field.kind = "select" => value \in field.options
                 /\ value # No /\ field.kind = "dynamic" => value \in Listed(id, DependencyParams(field, servers[i].values))

\* Rows have their types, ports below the last one among them, and values that fit.
RowsFit == TypeOK /\ ValuesFit

\* The step of an edit leaves the fields it does not fill in as they are, but for those it
\* hides or reveals.
KeepsOthers(a) ==
    req[a].pc = "commit" /\ req'[a].pc = "idle" /\ req[a].id \in Live \cap Live' =>
        \A id \in FieldIds :
            LET row == servers[req[a].id].values
                new == servers'[req[a].id].values
            IN  new[id] # row[id] /\ Visible(Field(id), new) = Visible(Field(id), row) => req[a].edit[id] # No

\* The rest keep their values.  Not so when two edits of a server meet.
RestKept == [][\A a \in Reqs : KeepsOthers(a)]_vars

\* The rest keep their values, unless two edits of a server met.
RestUnlessCrossed == [][crossed' \/ \A a \in Reqs : KeepsOthers(a)]_vars
============================================================================
