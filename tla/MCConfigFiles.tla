---------------------------- MODULE MCConfigFiles ----------------------------
(* ConfigFiles with four settings and a file the game writes in two ways, for TLC. *)
EXTENDS ConfigFiles, TLC

MCKeys == {"port", "mode", "motd", "extra"}
MCValues == {"1", "01", "2", "true", "false", "hi", "hi you", "you", "hi port 1", "port 1", "note"}
\* Two texts have a separator in them at which str.splitlines splits and the game does not;
\* what is behind it is a setting by itself in one of them.
MCPieces(value) == CASE value = "hi you" -> <<"hi", "you">> [] value = "hi port 1" -> <<"hi", "port 1">>
                     [] OTHER -> <<value>>
MCAlone(piece) == IF piece = "port 1" THEN [key |-> "port", value |-> "1"] ELSE [key |-> No, value |-> piece]
MCAsInteger(value) == CASE value \in {"1", "01"} -> "1" [] value = "2" -> "2" [] OTHER -> No
MCFits(key, value) == key = "mode" => value \in {"true", "false"}

Note == Line(No, "note", "other", TRUE)
MCContents(kind) ==
    IF kind = "json"
    THEN {<<Line("port", "2", "integer", TRUE), Note, Line("mode", "false", "boolean", TRUE)>>,
          <<Line("extra", "1", "integer", TRUE), Line("mode", "true", "boolean", TRUE), Line("motd", "hi", "text", TRUE)>>}
    ELSE {<<Note, Line("mode", "false", "text", TRUE), Line("port", "2", "text", TRUE), Line("mode", "true", "text", TRUE)>>,
          <<Line("motd", "hi you", "text", TRUE), Line("extra", "1", "text", TRUE), Note>>}

Entry(key, value) == [key |-> key, value |-> value]
MCBodies == {<<Entry("mode", "false")>>, <<Entry("extra", "01"), Entry("motd", "hi you")>>, <<Entry("extra", "hi")>>,
             <<Entry("motd", "hi port 1")>>, <<Entry("motd", "hi"), Entry("mode", "true")>>, <<Entry("port", "1")>>, <<Entry("mode", "note")>>}
MCSymmetry == Permutations(Reqs)
============================================================================
