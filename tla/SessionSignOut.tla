--------------------------- MODULE SessionSignOut ---------------------------
(***************************************************************************)
(* Session with a history of the sign-outs the browser has seen carried    *)
(* out: left holds the sign-ins whose owner signed out here.               *)
(***************************************************************************)
EXTENDS Session

VARIABLE left

\* The answer to a sign-out that was carried out is applied.
SignedOut(t) ==
  /\ Receive(t)
  /\ request[t].kind = "signout"
  /\ request[t].reply = Deletes
  /\ request[t].carried # None

HInit == Init /\ left = {}

HNext ==
  /\ Next
  /\ left' = left \cup {request[t].carried.login : t \in {u \in Tab : SignedOut(u)}}

HSpec == HInit /\ [][HNext]_<<vars, left>>

\* handleSignOut "ends the session here and then at the issuer": once the
\* browser has applied the answer to the sign-out form, it never holds that
\* sign-in again.
SignOutFinal == jar # None => jar.login \notin left
=============================================================================
