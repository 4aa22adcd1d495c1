----------------------------- MODULE RecentList -----------------------------
(***************************************************************************)
(* What the recent list promises a person (session.go: Recent, Remember,   *)
(* Forget, Clear): the repositories this session has opened, newest first, *)
(* each once, and no more than Limit of them.  Stated by what changes and  *)
(* what stays, without saying how the cookie is rewritten.  The list has   *)
(* several writers and no lock: each takes a copy, makes one change to it, *)
(* and puts it in the place of the list; the last to do so stands.         *)
(***************************************************************************)
EXTENDS Naturals, Sequences

CONSTANTS Repo, Limit, Writer

VARIABLES
  list,
  copy  \* the copy each writer has in hand

At(s) == {s[i] : i \in DOMAIN s}

\* s and u hold the repositories both hold in the same order.
SameOrder(s, u) ==
  \A i, j \in DOMAIN s : \A k, l \in DOMAIN u :
    s[i] = u[k] /\ s[j] = u[l] => (i < j <=> k < l)

\* The order of a list without its newest entry.
Rest(s) == IF s = <<>> THEN <<>> ELSE Tail(s)

Once(s) == \A i, j \in DOMAIN s : s[i] = s[j] => i = j

\* Opening r puts it first, keeps the order of the others, and lets go of
\* the oldest one only, and only when the list is full.
Open(old, new, r) ==
  /\ Once(new) /\ new # <<>> /\ new[1] = r
  /\ SameOrder(old, Rest(new)) /\ At(Rest(new)) \subseteq At(old) \ {r}
  /\ \/ At(Rest(new)) = At(old) \ {r}
     \/ /\ Len(old) = Limit /\ r \notin At(old)
        /\ At(Rest(new)) = At(old) \ {old[Limit]}

\* Deleting r takes it out and leaves the rest as it was.
Delete(old, new, r) == Once(new) /\ At(new) = At(old) \ {r} /\ SameOrder(old, new)

Others(w) == \A v \in Writer \ {w} : copy'[v] = copy[v]

\* The one change: something is opened or deleted, or the session ends and the
\* list with it.
Change(w) ==
  /\ UNCHANGED list /\ Others(w)
  /\ LET old == copy[w]
         new == copy'[w] IN
     /\ Len(new) <= Limit /\ At(new) \subseteq Repo
     /\ new = <<>> \/ \E r \in Repo : Open(old, new, r) \/ Delete(old, new, r)

Take(w)   == UNCHANGED list /\ copy'[w] = list /\ Others(w)
GiveUp(w) == UNCHANGED list /\ copy'[w] = <<>> /\ Others(w)
Put(w)    == list' = copy[w] /\ copy'[w] = <<>> /\ Others(w)

Init == list = <<>> /\ copy = [w \in Writer |-> <<>>]
Next ==
  \/ \E w \in Writer : GiveUp(w) \/ Take(w) \/ Put(w)
  \/ \E w \in Writer : Change(w)
Spec == Init /\ [][Next]_<<list, copy>>
=============================================================================
