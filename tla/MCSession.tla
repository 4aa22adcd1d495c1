----------------------------- MODULE MCSession -----------------------------
(* Session on small instances: one or two replicas, two or three tabs.     *)
EXTENDS Session, TLC

Symmetry == Permutations(Tab)
=============================================================================
