-------------------------------- MODULE MCOwner --------------------------------
(* Two jobs whose families share three process identifiers. *)
EXTENDS ProcessOwner, TLC

Symmetry == Permutations(Pid) \cup Permutations(Job)
=============================================================================
