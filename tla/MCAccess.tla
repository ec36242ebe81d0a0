------------------------------- MODULE MCAccess -------------------------------
(* Access with the symmetry of its users and of its requests, for TLC. *)
EXTENDS Access, TLC

Symmetry == Permutations(Users) \cup Permutations(Reqs)
============================================================================
