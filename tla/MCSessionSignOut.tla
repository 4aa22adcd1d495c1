-------------------------- MODULE MCSessionSignOut --------------------------
(* SessionSignOut with two tabs of one browser and one replica. *)
EXTENDS SessionSignOut, TLC

Symmetry == Permutations(Tab)
=============================================================================
