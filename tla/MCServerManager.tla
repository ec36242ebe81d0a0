--------------------------- MODULE MCServerManager ---------------------------
(***************************************************************************)
(* ServerManager for TLC.  Requests are interchangeable, so runs that check *)
(* no liveness property may take the states up to a permutation of them.    *)
(***************************************************************************)
EXTENDS ServerManager, TLC

RequestSymmetry == Permutations(Reqs)
=============================================================================
