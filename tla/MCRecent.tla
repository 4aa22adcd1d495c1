------------------------------ MODULE MCRecent ------------------------------
(* Recent with one or two tabs and three repositories over a list of two. *)
EXTENDS Recent, TLC

Symmetry == Permutations(Tab) \cup Permutations(Repo)
=============================================================================
