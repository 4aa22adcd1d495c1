------------------------------ MODULE MCForms ------------------------------
EXTENDS Forms, TLC

CONSTANTS a, b

\* One tab for everything, another that only opens pages.
MCOpens == (a :> (Fetch \cup Post)) @@ (b :> {"home"})

\* The same, and nobody signs out.
MCStays == [t \in {a, b} |-> MCOpens[t] \ {"sign-out"}]
=============================================================================
