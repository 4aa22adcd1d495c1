----------------------------- MODULE MCScreens -----------------------------
(* Screens with every screen the route table names asked for.                *)
EXTENDS Screens

MCAsked == Pages \cup Forms
=============================================================================
