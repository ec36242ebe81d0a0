----------------------------- MODULE ConfigFiles -----------------------------
(***************************************************************************)
(* Changing settings in a config file of a game (update_config in          *)
(* panel/app/api/configs.py, write_config in panel/app/runtime/manager.py, *)
(* panel/app/games/configs.py).  A file is a sequence of lines; in JSON a  *)
(* line is an entry.  The game and the file manager write it as well, and  *)
(* the request that changes it reads it first.                             *)
(***************************************************************************)
EXTENDS Naturals, Sequences, FiniteSets, SequencesExt, FiniteSetsExt

CONSTANTS
    Reqs,         \* requests
    Keys,         \* settings
    Values,       \* texts of settings and of lines that hold none
    Hints,        \* the settings the template describes
    Managed,      \* the settings that are the panel's own
    Fits(_,_),    \* whether a text is one the hint of a setting allows
    AsInteger(_), \* what int() reads in a text, No if it fails
    Pieces(_),    \* what str.splitlines makes of a text that is one line to the game
    Alone(_),     \* the setting and the text of a piece on a line of its own
    Contents(_),  \* what the game or the file manager may write, by format
    Bodies,       \* what is filled in: sequences of settings and texts
    MaxAsked,     \* bound: how many requests there are in all
    MaxWritten    \* bound: how often others write the file

No == "none"
ASSUME BoundsAssumption == MaxAsked \in Nat /\ MaxWritten \in Nat
ASSUME KeysAssumption == Hints \cup Managed \subseteq Keys /\ No \notin Keys

VARIABLES
    format,   \* of the file, from the template: "lines" or "json"
    file,     \* the lines of the file, and whether there is one the panel can parse
    req,      \* what each request is doing
    asked,    \* how many requests there were
    written   \* how often others wrote the file

vars == <<format, file, req, asked, written>>

Kinds == {"text", "boolean", "integer", "other"}
Lines == [key : Keys \cup {No}, value : Values, kind : Kinds, raw : BOOLEAN]
\* What an entry of JSON is, it is written as.
WellTyped(line) == /\ line.kind = "boolean" => line.value \in {"true", "false"}
                   /\ line.kind = "integer" => AsInteger(line.value) = line.value
\* Other formats know texts only.
Plain(line) == line.kind \in {"text", "other"} /\ (line.key # No => line.kind = "text")
ASSUME TextsAssumption ==
    \A value \in Values :
        /\ Pieces(value) \in Seq(Values) /\ Alone(value) \in [key : Keys \cup {No}, value : Values]
        /\ AsInteger(value) \in Values \cup {No}
        /\ AsInteger(value) # No => AsInteger(AsInteger(value)) = AsInteger(value)
ASSUME ContentsAssumption ==
    /\ \A lines \in Contents("json") \cup Contents("lines") :
          lines \in Seq(Lines) /\ \A i \in DOMAIN lines : WellTyped(lines[i])
    /\ \A lines \in Contents("lines") : \A i \in DOMAIN lines : Plain(lines[i])
\* A setting is filled in once.
ASSUME BodiesAssumption ==
    \A body \in Bodies : /\ body \in Seq([key : Keys, value : Values])
                          /\ \A m, n \in DOMAIN body : body[m].key = body[n].key => m = n
\* A line keeps the form the game gave it (raw) until the panel writes it.
Line(key, value, kind, raw) == [key |-> key, value |-> value, kind |-> kind, raw |-> raw]
Absent == [state |-> "absent", lines |-> <<>>]
Good(lines) == [state |-> "good", lines |-> lines]
Idle == [pc |-> "idle", body |-> <<>>, base |-> Absent, lines |-> <<>>]
----------------------------------------------------------------------------
(* A document. *)

\* The panel ends a line at more characters than the game does, and takes the rest of it for
\* lines of their own.
Parsed(line) == IF Len(Pieces(line.value)) < 2 THEN <<line>>
                ELSE [i \in DOMAIN Pieces(line.value) |->
                        IF i = 1 THEN [line EXCEPT !.value = Pieces(line.value)[1]]
                        ELSE LET piece == Alone(Pieces(line.value)[i]) IN Line(piece.key, piece.value, "text", line.raw)]
Pieced(lines) == FoldLeft(LAMBDA done, line : done \o Parsed(line), <<>>, lines)
Document(lines) == IF format = "json" THEN lines ELSE Pieced(lines)

Places(lines, key) == {i \in DOMAIN lines : lines[i].key = key}
Settings(lines) == {lines[i].key : i \in DOMAIN lines} \ {No}
\* For a key set twice the game uses the last one.
Item(lines, key) == lines[Max(Places(lines, key))].value

\* Mutant of SetLine: the first line of a setting is changed, the game uses the last one.
SetLineFirst(lines, key, value) ==
    IF Places(lines, key) = {} THEN Append(lines, Line(key, value, "text", FALSE))
    ELSE [lines EXCEPT ![Min(Places(lines, key))] = Line(key, value, "text", FALSE)]
SetLine(lines, key, value) ==
    IF Places(lines, key) = {} THEN Append(lines, Line(key, value, "text", FALSE))
    ELSE [i \in DOMAIN lines |->
            IF lines[i].key = key /\ lines[i].value # value THEN Line(key, value, "text", FALSE) ELSE lines[i]]

\* The JSON type the game expects is kept.
TypeFits(kind, value) == CASE kind = "boolean" -> value \in {"true", "false"}
                           [] kind = "integer" -> AsInteger(value) # No
                           [] OTHER -> TRUE
\* Mutant of Typed: a number is written as the text that was filled in.
TypedAsText(kind, value) == value
Typed(kind, value) == IF kind = "integer" THEN AsInteger(value) ELSE value
SetEntry(lines, key, value) ==
    [i \in DOMAIN lines |-> IF lines[i].key # key THEN lines[i]
                            ELSE [lines[i] EXCEPT !.value = Typed(lines[i].kind, value)]]

\* JSON is written anew as a whole, other formats line by line.
Rendered(lines) == IF format = "json" THEN [i \in DOMAIN lines |-> [lines[i] EXCEPT !.raw = FALSE]] ELSE lines

Set(lines, body) ==
    FoldLeft(LAMBDA done, entry : IF format = "json" THEN SetEntry(done, entry.key, entry.value)
                                  ELSE SetLine(done, entry.key, entry.value),
             lines, body)
\* _set_json: no new entries, and only texts of the entry's type.
EntriesFit(lines, body) ==
    format = "json" => \A n \in DOMAIN body :
        /\ body[n].key \in Settings(lines)
        /\ \A i \in Places(lines, body[n].key) : TypeFits(lines[i].kind, body[n].value)

\* validate_config_values, with the file at hand: new keys may only be ones the template describes.
\* Mutant of Valid: what the panel manages is not looked at.
ValidManaged(body, existing) ==
    \A n \in DOMAIN body : body[n].key \in existing \cup Hints /\ Fits(body[n].key, body[n].value)
Valid(body, existing) ==
    \A n \in DOMAIN body : /\ body[n].key \in existing \cup Hints
                           /\ body[n].key \notin Managed /\ Fits(body[n].key, body[n].value)
----------------------------------------------------------------------------
TypeOK ==
    /\ format \in {"lines", "json"} /\ file.state \in {"absent", "good", "broken"}
    /\ \A i \in DOMAIN file.lines : file.lines[i] \in Lines /\ WellTyped(file.lines[i])
    /\ \A a \in Reqs : req[a].pc \in {"idle", "read", "write"} /\ req[a].base.state \in {"absent", "good"}
    /\ asked \in 0 .. MaxAsked /\ written \in 0 .. MaxWritten

Init ==
    /\ format \in {"lines", "json"}
    /\ file = Absent
    /\ req = [a \in Reqs |-> Idle]
    /\ asked = 0 /\ written = 0

\* The game writes the file on its start, the file manager at any time.
Written ==
    /\ written < MaxWritten /\ written' = written + 1
    /\ file' \in {Good(lines) : lines \in Contents(format)} 
                  \cup (IF format = "json" THEN {[Absent EXCEPT !.state = "broken"]} ELSE {})
    /\ UNCHANGED <<format, req, asked>>

Ask(a) ==
    /\ req[a].pc = "idle" /\ asked < MaxAsked
    /\ \E body \in Bodies : /\ Valid(body, Keys)
                            /\ req' = [req EXCEPT ![a] = [Idle EXCEPT !.pc = "read", !.body = body]]
    /\ asked' = asked + 1
    /\ UNCHANGED <<format, file, written>>

\* The file is read and the document changed; invalid JSON, or a value the document does not
\* take, refuses the whole request.
Read(a) ==
    LET lines == Document(file.lines) IN
    /\ req[a].pc = "read"
    /\ IF /\ file.state # "broken"
          /\ Valid(req[a].body, Settings(lines)) /\ EntriesFit(lines, req[a].body)
       THEN req' = [req EXCEPT ![a].pc = "write", ![a].base = file,
                               ![a].lines = Rendered(Set(lines, req[a].body))]
       ELSE req' = [req EXCEPT ![a] = Idle]
    /\ UNCHANGED <<format, file, asked, written>>

\* The document is written as it was read and changed, whoever wrote the file since.
Write(a) ==
    /\ req[a].pc = "write"
    /\ file' = Good(req[a].lines)
    /\ req' = [req EXCEPT ![a] = Idle]
    /\ UNCHANGED <<format, asked, written>>

\* The server is not installed, or a call fails.
Fails(a) ==
    /\ req[a].pc # "idle"
    /\ req' = [req EXCEPT ![a] = Idle]
    /\ UNCHANGED <<format, file, asked, written>>
----------------------------------------------------------------------------
Next == Written \/ \E a \in Reqs : Ask(a) \/ Read(a) \/ Write(a) \/ Fails(a)
Spec == Init /\ [][Next]_vars
----------------------------------------------------------------------------
(* Properties. *)

Asked(a) == {req[a].body[n].key : n \in DOMAIN req[a].body}
Writes(a) == req[a].pc = "write" /\ req'[a].pc = "idle" /\ file'.state = "good" /\ file'.lines = req[a].lines
\* Every line is where it was and as it was, those of the given settings have new values, and
\* what is new is theirs.  JSON is laid out anew.
KeepsLines(old, new, keys) ==
    /\ Len(old) <= Len(new)
    /\ \A i \in DOMAIN old :
          /\ new[i].key = old[i].key /\ new[i].kind = old[i].kind
          /\ old[i].key \notin keys => new[i].value = old[i].value /\ (format = "json" \/ new[i].raw = old[i].raw)
    /\ \A i \in DOMAIN new \ DOMAIN old : new[i].key \in keys
OneLineEach(lines) == \A i \in DOMAIN lines : Len(Pieces(lines[i].value)) = 1

\* "Comments, order and unknown keys stay": what is written differs from what was read only in
\* the settings asked for.  Not so for a line the panel takes for two.
OthersStay ==
    [][\A a \in Reqs : Writes(a) /\ (format = "json" \/ OneLineEach(req[a].base.lines)) =>
          KeepsLines(req[a].base.lines, file'.lines, Asked(a))]_vars

\* The same of every file, as the document says: not so for a file with such a line.
OthersAlwaysStay ==
    [][\A a \in Reqs : Writes(a) => KeepsLines(req[a].base.lines, file'.lines, Asked(a))]_vars

\* The game, which uses the last line of a setting, finds what was asked for once it is written.
AskedIsSet ==
    [][\A a \in Reqs : Writes(a) =>
          \A n \in DOMAIN req[a].body :
              LET key == req[a].body[n].key
                  last == file'.lines[Max(Places(file'.lines, key))]
              IN  /\ key \in Settings(file'.lines)
                  /\ \/ last.value = req[a].body[n].value
                     \/ last.kind = "integer" /\ last.value = AsInteger(req[a].body[n].value)]_vars

\* What is written is what was read with what was asked for, as the game reads it.
OnlyWhatWasAsked == OthersStay /\ AskedIsSet

\* A request writes no setting of the panel's own, and makes none that no template describes:
\* the file has those the panel read in it, with the same texts.
StrangersKept ==
    [][\A a \in Reqs : Writes(a) =>
          LET read == Document(req[a].base.lines) IN
          /\ Settings(file'.lines) \subseteq Settings(read) \cup Hints
          /\ \A key \in Managed \cap (Settings(file'.lines) \cup Settings(read)) :
                /\ key \in Settings(file'.lines) \cap Settings(read)
                /\ Item(file'.lines, key) = Item(read, key)]_vars

\* The same of what the game finds before and after: not so for a line the panel takes for
\* two, as the rest of a text is a setting by itself once it is written.
StrangersAlwaysKept ==
    [][\A a \in Reqs : Writes(a) =>
          LET old == req[a].base.lines IN
          /\ Settings(file'.lines) \subseteq Settings(old) \cup Hints
          /\ \A key \in Managed \cap (Settings(file'.lines) \cup Settings(old)) :
                /\ key \in Settings(file'.lines) \cap Settings(old)
                /\ Item(file'.lines, key) = Item(old, key)]_vars

\* "Changes only the given keys": not so when the file is written between the read and the write.
OnlyTheGiven ==
    [][\A a \in Reqs : Writes(a) => \A key \in Settings(file.lines) \ Asked(a) :
          key \in Settings(file'.lines) /\ Item(file'.lines, key) = Item(file.lines, key)]_vars
============================================================================
