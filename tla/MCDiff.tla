------------------------------- MODULE MCDiff -------------------------------
(* Diff on patches of two files and a few rows, under a budget of a few lines. *)
EXTENDS Diff
=============================================================================
