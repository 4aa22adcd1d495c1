---------------------------- MODULE MCVisibility ----------------------------
(* Visibility on small instances: at first ann may change the repository,    *)
(* ben may see it and cyd has no role on it.  In MCApart nobody has two      *)
(* requests in flight: ann has a tab to herself.                             *)
EXTENDS Visibility, TLC

CONSTANTS ann, ben, cyd, p, t1, t2

MCFirstVis == [q \in Repo |-> "private"]

MCFirstRole ==
  [x \in Reader |-> [q \in Repo |->
     IF x = ann THEN {"see", "change"} ELSE IF x = ben THEN {"see"} ELSE {}]]

MCApart == [t \in Tab |-> IF t = t1 THEN {ann} ELSE Reader \ {ann}]
MCShared == [t \in Tab |-> Reader]
=============================================================================
