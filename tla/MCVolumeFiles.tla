----------------------------- MODULE MCVolumeFiles -----------------------------
(* VolumeFiles with the paths TLC asks for. *)
EXTENDS VolumeFiles, TLC

MCRaw == {<<>>, <<"d">>, <<"..", "z">>, <<"d", ".", "f">>, <<"e">>, <<"d", "e">>, <<"f", "..", "..", "d", "z">>}
MCPicks == {<<raw>> : raw \in MCRaw} \cup {<<raw, <<"d", ".", "f">>>> : raw \in MCRaw}
Symmetry == Permutations(Reqs)
============================================================================
