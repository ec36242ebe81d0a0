--------------------------- MODULE MCServerSettings ---------------------------
(* ServerSettings with the ports and fields of a small template, for TLC. *)
EXTENDS ServerSettings, TLC

MCPort(name, protocol, default, follows) ==
    [name |-> name, protocol |-> protocol, default |-> default, follows |-> follows]
MCPorts == <<MCPort("game", "udp", 2, No), MCPort("query", "udp", 5, "game"),
             MCPort("web", "udp", 4, No), MCPort("rcon", "tcp", 5, No)>>

MCField(id, kind, editable) ==
    [id |-> id, kind |-> kind, editable |-> editable, required |-> FALSE, default |-> No, options |-> {},
     ref |-> No, shownFor |-> {}, source |-> No]
MCFields ==
    <<[MCField("loader", "select", FALSE) EXCEPT !.options = {"paper", "fabric"}, !.default = "paper"],
      [MCField("version", "dynamic", FALSE) EXCEPT !.required = TRUE, !.source = "loader"],
      [MCField("mode", "select", TRUE) EXCEPT !.options = {"open", "closed"}, !.default = "open"],
      [MCField("motto", "string", FALSE) EXCEPT !.ref = "mode", !.shownFor = {"closed"}],
      [MCField("memory", "select", TRUE) EXCEPT !.options = {"1", "2"}, !.default = "1"],
      MCField("token", "hidden", FALSE)>>
MCListed(id, value) == IF value = "paper" THEN {"v1"} ELSE {"v1", "v2"}

Filled(change) == [id \in FieldIds |-> IF id \in DOMAIN change THEN change[id] ELSE No]
MCBodies == {Filled([version |-> "v1"]), Filled([version |-> "v2", loader |-> "paper"]),
             Filled([version |-> "v2", loader |-> "fabric", mode |-> "closed", motto |-> "hi"]),
             Filled([version |-> "v1", mode |-> "closed", token |-> "mine"])}
MCEdits == {Filled([mode |-> "open"]), Filled([mode |-> "closed"]), Filled([memory |-> "2"]),
            Filled([motto |-> "ho"]), Filled([memory |-> "3"])}
MCOutsiders == {<<2, "udp">>, <<6, "udp">>}
MCSymmetry == Permutations(Reqs)
============================================================================
