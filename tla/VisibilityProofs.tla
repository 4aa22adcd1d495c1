-------------------------- MODULE VisibilityProofs --------------------------
(***************************************************************************)
(* Visibility, for every number of replicas, people, repositories, tabs    *)
(* and changes of a visibility or of a role, and every lifetime of an      *)
(* answer: the types hold, and an overview tells nobody what the registry  *)
(* has not told them themselves within the lifetime and one request.       *)
(***************************************************************************)
EXTENDS Visibility, TLAPS

\* A request on its way.
Good(q) ==
  /\ q.phase # "idle" => q.reader \in Reader /\ q.repo \in Repo /\ q.at \in Replica
  /\ q.phase # "idle" /\ q.kind = "flip" => q.target \in Vis
  /\ q.phase = "read" /\ q.kind = "overview" /\ q.can => q.answer \in Vis

Inv ==
  /\ TypeOK
  /\ \A t \in Tab : Good(request[t])

LEMMA IdleGood == Idle \in Request /\ Good(Idle)
BY DEF Idle, Request, Good, None

\* Init establishes the invariant: nothing is kept and nothing is asked.
LEMMA InitInv == Init => Inv
<1> SUFFICES ASSUME Init PROVE Inv
  OBVIOUS
<1>1. Blank \in Page
  BY DEF Blank, Page
<1>2. TypeOK
  BY <1>1, IdleGood, VisibilityAssumption DEF Init, TypeOK
<1>3. QED
  BY <1>2, IdleGood DEF Init, Inv

\* What a page tells is a page's.
LEMMA PageType == Inv /\ [Next]_vars => page' \in Page
<1> SUFFICES ASSUME Inv, [Next]_vars PROVE page' \in Page
  OBVIOUS
<1>0. page \in Page
  BY DEF Inv, TypeOK
<1>1. CASE page' = page \/ page' = Blank
  <2>1. Blank \in Page
    BY DEF Blank, Page
  <2>2. QED
    BY <1>0, <1>1, <2>1
<1>2. ASSUME NEW t \in Tab, OverviewUntold(t) PROVE page' \in Page
  BY <1>2 DEF OverviewUntold, Shows, Page
<1>3. ASSUME NEW t \in Tab, OverviewHit(t) PROVE page' \in Page
  <2>1. PICK e \in Stored(request[t].at, request[t].reader, request[t].repo) :
          Shows(t, e.vis, e.can)
    BY <1>3 DEF OverviewHit
  <2>2. request[t].at \in Replica
    BY <1>3 DEF OverviewHit, At, Inv, Good
  <2>3. e \in Entry
    BY <2>1, <2>2 DEF Stored, Inv, TypeOK
  <2>4. QED
    BY <2>1, <2>3 DEF Shows, Page, Entry
<1>4. ASSUME NEW t \in Tab, OverviewShown(t) PROVE page' \in Page
  <2>1. request[t] \in Request
    BY DEF Inv, TypeOK
  <2>2. PICK b \in Vis \cup {None, "unknown"}, c \in BOOLEAN : Shows(t, b, c)
    BY <1>4, <2>1 DEF OverviewShown, Request
  <2>3. QED
    BY <2>2 DEF Shows, Page
<1>5. QED
  BY <1>1, <1>2, <1>3, <1>4 DEF Next, vars

\* One request becomes another good one, and the others stay.
LEMMA RequestKept ==
  ASSUME Inv, NEW t \in Tab, NEW q \in Request, Good(q),
         request' = [request EXCEPT ![t] = q]
  PROVE  request' \in [Tab -> Request] /\ \A u \in Tab : Good(request'[u])
BY DEF Inv, TypeOK

\* SetEntry: the memory of a replica keeps answers.
LEMMA EntryKept ==
  ASSUME Inv, NEW r \in Replica, NEW x \in Reader, NEW p \in Repo, NEW v \in Vis,
         NEW c \in BOOLEAN, SetEntry(r, x, p, v, c)
  PROVE  cache' \in [Replica -> SUBSET Entry]
<1> DEFINE new  == [key |-> Key(x, p), vis |-> v, can |-> c, at |-> now]
           kept == {e \in cache[r] : e.key # Key(x, p)} \cup {new}
<1>1. new \in Entry
  BY DEF Entry, Key, Inv, TypeOK
<1>2. kept \subseteq Entry
  BY <1>1 DEF Inv, TypeOK
<1>3. cache' = cache \/ cache' = [cache EXCEPT ![r] = kept]
  BY DEF SetEntry
<1>4. QED
  BY <1>2, <1>3 DEF Inv, TypeOK

\* Send: a request starts with a person, a repository and a replica.
LEMMA SendStep ==
  ASSUME Inv, page' \in Page,
         NEW t \in Tab, NEW r \in Replica, NEW x \in Whose[t], NEW p \in Repo,
         NEW kind \in {"overview", "flip"}, NEW target \in Vis \cup {None},
         kind = "flip" => target \in Vis,
         Send(t, r, x, p, kind, target)
  PROVE  Inv'
<1> DEFINE q == [Idle EXCEPT !.phase = "sent", !.kind = kind, !.reader = x, !.repo = p,
                   !.at = r, !.sentAt = now, !.target = target, !.expects = chosen[x][p]]
<1>1. x \in Reader
  BY VisibilityAssumption
<1>2. chosen[x][p] \in Vis \cup {None} /\ now \in Nat
  BY <1>1 DEF Inv, TypeOK
<1>3. q \in Request /\ Good(q)
  BY <1>1, <1>2 DEF Idle, Request, Good
<1>4. request' = [request EXCEPT ![t] = q]
  BY DEF Send
<1>5. request' \in [Tab -> Request] /\ \A u \in Tab : Good(request'[u])
  BY <1>3, <1>4, RequestKept
<1>6. QED
  BY <1>5 DEF Send, Inv, TypeOK

\* A step of one request that leaves the registry, the memories and the clock as
\* they are.
LEMMA QuietStep ==
  ASSUME Inv, page' \in Page, NEW t \in Tab, NEW q \in Request, Good(q),
         request' = [request EXCEPT ![t] = q],
         UNCHANGED <<now, vis, changes, cache, held, chosen, role, had>>
  PROVE  Inv'
<1>1. request' \in [Tab -> Request] /\ \A u \in Tab : Good(request'[u])
  BY RequestKept
<1>2. QED
  BY <1>1 DEF Inv, TypeOK

\* Change: the registry holds another value, and the histories follow.
LEMMA ChangeType ==
  ASSUME Inv, NEW p \in Repo, NEW v \in Vis, Change(p, v)
  PROVE  /\ vis' \in [Repo -> Vis]
         /\ held' \in [Repo -> [Vis -> Nat]]
         /\ chosen' \in [Reader -> [Repo -> Vis \cup {None}]]
<1>1. vis[p] \in Vis /\ now \in Nat
  BY DEF Inv, TypeOK
<1>2. held' \in [Repo -> [Vis -> Nat]]
  BY <1>1 DEF Change, Inv, TypeOK
<1>3. \A x \in Reader : [chosen[x] EXCEPT ![p] = None] \in [Repo -> Vis \cup {None}]
  BY DEF Inv, TypeOK
<1>4. chosen' \in [Reader -> [Repo -> Vis \cup {None}]]
  BY <1>3 DEF Change
<1>5. QED
  BY <1>2, <1>4 DEF Change, Inv, TypeOK

\* ChangeRole: what each reader may do, and when each right was last taken away.
LEMMA RoleChanged ==
  ASSUME Inv, NEW x \in Reader, NEW p \in Repo, NEW new \in Role, ChangeRole(x, p, new)
  PROVE  /\ role' \in [Reader -> [Repo -> Role]]
         /\ had' \in [Reader -> [Repo -> [Right -> Nat]]]
         /\ \A y \in Reader, o \in Repo :
              role'[y][o] = IF y = x /\ o = p THEN new ELSE role[y][o]
         /\ \A y \in Reader, o \in Repo, a \in Right :
              had'[y][o][a] = IF y = x /\ o = p /\ a \in role[x][p] /\ a \notin new
                              THEN now ELSE had[y][o][a]
<1> PICK lost : lost = [a \in Right |-> IF a \in role[x][p] \ new THEN now ELSE had[x][p][a]]
  OBVIOUS
<1>1. now \in Nat /\ had[x][p] \in [Right -> Nat] /\ had[x] \in [Repo -> [Right -> Nat]]
      /\ role[x] \in [Repo -> Role]
  BY DEF Inv, TypeOK
<1>2. lost \in [Right -> Nat]
  BY <1>1
<1>3. had' = [had EXCEPT ![x] = [had[x] EXCEPT ![p] = lost]]
  BY DEF ChangeRole
<1>4. [had[x] EXCEPT ![p] = lost] \in [Repo -> [Right -> Nat]]
  BY <1>1, <1>2
<1>5. had' \in [Reader -> [Repo -> [Right -> Nat]]]
  BY <1>3, <1>4 DEF Inv, TypeOK
<1>6. \A y \in Reader, o \in Repo :
        had'[y][o] = IF y = x /\ o = p THEN lost ELSE had[y][o]
  BY <1>1, <1>3 DEF Inv, TypeOK
<1>7. role' = [role EXCEPT ![x] = [role[x] EXCEPT ![p] = new]]
  BY DEF ChangeRole
<1>8. role' \in [Reader -> [Repo -> Role]]
  BY <1>1, <1>7 DEF Inv, TypeOK
<1>9. \A y \in Reader, o \in Repo :
        role'[y][o] = IF y = x /\ o = p THEN new ELSE role[y][o]
  BY <1>1, <1>7 DEF Inv, TypeOK
<1>10. \A a \in Right :
         lost[a] = IF a \in role[x][p] /\ a \notin new THEN now ELSE had[x][p][a]
  OBVIOUS
<1>11. \A y \in Reader, o \in Repo, a \in Right :
         had'[y][o][a] = IF y = x /\ o = p /\ a \in role[x][p] /\ a \notin new
                         THEN now ELSE had[y][o][a]
  <2> SUFFICES ASSUME NEW y \in Reader, NEW o \in Repo, NEW a \in Right
               PROVE  had'[y][o][a] = IF y = x /\ o = p /\ a \in role[x][p] /\ a \notin new
                                      THEN now ELSE had[y][o][a]
    OBVIOUS
  <2>1. CASE y = x /\ o = p
    BY <1>6, <1>10, <2>1
  <2>2. CASE ~(y = x /\ o = p)
    BY <1>6, <2>2
  <2>3. QED
    BY <2>1, <2>2
<1>12. QED
  BY <1>5, <1>8, <1>9, <1>11

\* What the overview does: it is told nothing, reuses an answer, asks, is
\* answered, and shows the answer.
LEMMA OverviewStep ==
  ASSUME Inv, page' \in Page, NEW t \in Tab,
         \/ OverviewUntold(t) \/ OverviewHit(t) \/ OverviewMiss(t)
         \/ RegistryReads(t) \/ OverviewShown(t)
  PROVE  Inv'
<1> DEFINE q == request[t]
<1>0. q \in Request /\ Good(q)
  BY DEF Inv, TypeOK
<1>1. CASE OverviewUntold(t) \/ OverviewHit(t)
  BY <1>1, IdleGood, QuietStep DEF OverviewUntold, OverviewHit, Shows, Ends
<1>2. CASE OverviewMiss(t)
  <2> DEFINE n == [q EXCEPT !.phase = "asking"]
  <2>1. n \in Request /\ Good(n)
    BY <1>0, <1>2 DEF Request, Good, OverviewMiss, At
  <2>2. request' = [request EXCEPT ![t] = n]
    BY <1>2 DEF OverviewMiss
  <2>3. QED
    BY <1>2, <2>1, <2>2, QuietStep DEF OverviewMiss
<1>3. CASE RegistryReads(t)
  <2>1. PICK a \in {"absent", "fault"} \cup {vis[q.repo]}, c \in BOOLEAN :
          /\ c => a \in Vis
          /\ request' = [request EXCEPT ![t].phase = "read", ![t].answer = a, ![t].can = c]
    BY <1>3 DEF RegistryReads
  <2>2. vis[q.repo] \in Vis
    BY <1>0, <1>3 DEF RegistryReads, At, Good, Inv, TypeOK
  <2> DEFINE n == [q EXCEPT !.phase = "read", !.answer = a, !.can = c]
  <2>3. n \in Request /\ Good(n)
    BY <1>0, <1>3, <2>1, <2>2 DEF Request, Good, RegistryReads, At
  <2>4. request' = [request EXCEPT ![t] = n]
    BY <2>1
  <2>5. QED
    BY <1>3, <2>3, <2>4, QuietStep DEF RegistryReads
<1>4. CASE OverviewShown(t)
  <2>1. request' = [request EXCEPT ![t] = Idle]
    BY <1>4 DEF OverviewShown, Shows, Ends
  <2>2. request' \in [Tab -> Request] /\ \A u \in Tab : Good(request'[u])
    BY <2>1, IdleGood, RequestKept
  <2>3. q.reader \in Reader /\ q.repo \in Repo /\ q.at \in Replica /\ q.can \in BOOLEAN
    BY <1>0, <1>4 DEF Good, OverviewShown, At, Request
  <2>4. cache' \in [Replica -> SUBSET Entry]
    <3>1. CASE q.answer \notin Vis
      BY <1>4, <3>1 DEF OverviewShown, Inv, TypeOK
    <3>2. CASE q.answer \in Vis
      <4>1. SetEntry(q.at, q.reader, q.repo, q.answer, q.can)
        BY <1>4, <3>2 DEF OverviewShown
      <4>2. QED
        BY <2>3, <3>2, <4>1, EntryKept
    <3>3. QED
      BY <3>1, <3>2
  <2>5. QED
    BY <1>4, <2>2, <2>4 DEF OverviewShown, Inv, TypeOK
<1>5. QED
  BY <1>1, <1>2, <1>3, <1>4

\* Choice: what was chosen here is remembered of the person who chose it.
LEMMA ChoiceType ==
  ASSUME Inv, NEW t \in Tab, request[t].reader \in Reader, request[t].repo \in Repo, Choice(t)
  PROVE  chosen' \in [Reader -> [Repo -> Vis \cup {None}]]
<1> DEFINE q == request[t]
<1>1. q.target \in Vis \cup {None}
  BY DEF Inv, TypeOK, Request
<1>2. [chosen[q.reader] EXCEPT ![q.repo] = q.target] \in [Repo -> Vis \cup {None}]
  BY <1>1 DEF Inv, TypeOK
<1>3. \/ chosen' = chosen
      \/ chosen' = [chosen EXCEPT ![q.reader] = [chosen[q.reader] EXCEPT ![q.repo] = q.target]]
  BY DEF Choice
<1>4. QED
  BY <1>2, <1>3 DEF Inv, TypeOK

\* What the form does: it is refused, the registry writes or refuses, and the
\* answer is written through or not.
LEMMA FlipStep ==
  ASSUME Inv, page' \in Page, NEW t \in Tab,
         FlipRefused(t) \/ RegistryWrites(t) \/ FlipDone(t) \/ FlipFailed(t)
  PROVE  Inv'
<1> DEFINE q == request[t]
<1>0. q \in Request /\ Good(q)
  BY DEF Inv, TypeOK
<1>1. CASE FlipRefused(t) \/ FlipFailed(t)
  BY <1>1, IdleGood, QuietStep DEF FlipRefused, FlipFailed, Ends
<1>2. CASE RegistryWrites(t)
  <2>1. PICK a \in {"ok", "lost"} :
          request' = [request EXCEPT ![t].phase = "read", ![t].answer = a]
    BY <1>2 DEF RegistryWrites
  <2> DEFINE n == [q EXCEPT !.phase = "read", !.answer = a]
  <2>2. n \in Request /\ Good(n)
    BY <1>0, <1>2, <2>1 DEF Request, Good, RegistryWrites, At
  <2>3. request' = [request EXCEPT ![t] = n]
    BY <2>1
  <2>4. request' \in [Tab -> Request] /\ \A u \in Tab : Good(request'[u])
    BY <2>2, <2>3, RequestKept
  <2>5. q.repo \in Repo /\ q.target \in Vis
    BY <1>0, <1>2 DEF Good, RegistryWrites, At
  <2>6. Change(q.repo, q.target) \/ UNCHANGED <<vis, held, chosen>>
    BY <1>2 DEF RegistryWrites
  <2>7. /\ vis' \in [Repo -> Vis]
        /\ held' \in [Repo -> [Vis -> Nat]]
        /\ chosen' \in [Reader -> [Repo -> Vis \cup {None}]]
    BY <2>5, <2>6, ChangeType DEF Inv, TypeOK
  <2>8. QED
    BY <1>2, <2>4, <2>7 DEF RegistryWrites, Inv, TypeOK
<1>3. CASE FlipDone(t)
  <2>1. q.reader \in Reader /\ q.repo \in Repo /\ q.at \in Replica /\ q.target \in Vis
    BY <1>0, <1>3 DEF Good, FlipDone, At
  <2>2. SetEntry(q.at, q.reader, q.repo, q.target, TRUE)
    BY <1>3 DEF FlipDone
  <2>3. cache' \in [Replica -> SUBSET Entry]
    BY <2>1, <2>2, EntryKept
  <2>4. chosen' \in [Reader -> [Repo -> Vis \cup {None}]]
    BY <1>3, <2>1, ChoiceType DEF FlipDone
  <2>5. request' = [request EXCEPT ![t] = Idle]
    BY <1>3 DEF FlipDone, Ends
  <2>6. request' \in [Tab -> Request] /\ \A u \in Tab : Good(request'[u])
    BY <2>5, IdleGood, RequestKept
  <2>7. QED
    BY <1>3, <2>3, <2>4, <2>6 DEF FlipDone, Inv, TypeOK
<1>4. QED
  BY <1>1, <1>2, <1>3

\* What happens around the requests.
Around ==
  \/ Tick
  \/ \E p \in Repo : ChangeElsewhere(p)
  \/ \E p \in Repo : \E x \in Reader : \E new \in Role \ {role[x][p]} : ChangeRole(x, p, new)
  \/ \E r \in Replica : Evict(r)

LEMMA AroundStep ==
  ASSUME Inv, page' \in Page, Around
  PROVE  Inv'
<1>1. CASE Tick
  <2>1. cache' \in [Replica -> SUBSET Entry]
    BY <1>1 DEF Tick, Inv, TypeOK
  <2>2. QED
    BY <1>1, <2>1 DEF Tick, Inv, TypeOK
<1>2. ASSUME NEW p \in Repo, ChangeElsewhere(p) PROVE Inv'
  <2>1. Other(vis[p]) \in Vis
    BY DEF Other, Vis
  <2>2. /\ vis' \in [Repo -> Vis]
        /\ held' \in [Repo -> [Vis -> Nat]]
        /\ chosen' \in [Reader -> [Repo -> Vis \cup {None}]]
    BY <1>2, <2>1, ChangeType DEF ChangeElsewhere
  <2>3. changes' \in 0..MaxChange
    BY <1>2, VisibilityAssumption DEF ChangeElsewhere, Inv, TypeOK
  <2>4. QED
    BY <1>2, <2>2, <2>3 DEF ChangeElsewhere, Inv, TypeOK
<1>3. ASSUME NEW p \in Repo, NEW x \in Reader, NEW new \in Role, ChangeRole(x, p, new)
      PROVE  Inv'
  <2>1. changes' \in 0..MaxChange
    BY <1>3, VisibilityAssumption DEF ChangeRole, Inv, TypeOK
  <2>2. role' \in [Reader -> [Repo -> Role]] /\ had' \in [Reader -> [Repo -> [Right -> Nat]]]
    BY <1>3, RoleChanged
  <2>3. QED
    BY <1>3, <2>1, <2>2 DEF ChangeRole, Inv, TypeOK
<1>4. ASSUME NEW r \in Replica, Evict(r) PROVE Inv'
  <2>1. PICK e \in cache[r] : cache' = [cache EXCEPT ![r] = @ \ {e}]
    BY <1>4 DEF Evict
  <2>2. cache' \in [Replica -> SUBSET Entry]
    BY <2>1 DEF Inv, TypeOK
  <2>3. QED
    BY <1>4, <2>2 DEF Evict, Inv, TypeOK
<1>5. QED
  BY <1>1, <1>2, <1>3, <1>4 DEF Around

\* Every step keeps the invariant.
LEMMA StepInv == Inv /\ [Next]_vars => Inv'
<1> SUFFICES ASSUME Inv, [Next]_vars PROVE Inv'
  OBVIOUS
<1>0. page' \in Page
  BY PageType
<1>1. CASE UNCHANGED vars
  BY <1>1 DEF vars, Inv, TypeOK
<1>2. CASE Around
  BY <1>0, <1>2, AroundStep
<1>3. ASSUME NEW t \in Tab, NEW r \in Replica, NEW x \in Whose[t], NEW p \in Repo,
             Send(t, r, x, p, "overview", None) \/ \E v \in Vis : Send(t, r, x, p, "flip", v)
      PROVE  Inv'
  BY <1>0, <1>3, SendStep
<1>4. QED
  BY <1>0, <1>1, <1>2, <1>3, OverviewStep, FlipStep DEF Next, Unseen, Around

\* newVisibilityCache and its users: every variable keeps its type (TypeOK), for
\* every value of the constants.
THEOREM TypeCorrect == Spec => []TypeOK
<1>1. Inv => TypeOK
  BY DEF Inv
<1>2. QED
  BY <1>1, InitInv, StepInv, PTL DEF Spec

\* A badge is told by the overview alone: untold, reused, or just answered.
LEMMA TellsOnly ==
  ASSUME Inv, [Next]_vars, NEW t \in Tab, Tells(t)
  PROVE  OverviewUntold(t) \/ OverviewHit(t) \/ OverviewShown(t)
<1> DEFINE q == request[t]
<1>0. q \in Request /\ q.kind = "overview" /\ q.phase \in {"sent", "read"}
      /\ request'[t].phase = "idle"
  BY DEF Inv, TypeOK, Tells
<1>1. ASSUME NEW u \in Tab, OverviewUntold(u) \/ OverviewHit(u) \/ OverviewShown(u)
      PROVE  u = t
  BY <1>0, <1>1 DEF OverviewUntold, OverviewHit, OverviewShown, Shows, Ends, Inv, TypeOK
<1>2. ASSUME NEW u \in Tab, \/ OverviewMiss(u) \/ RegistryReads(u) \/ RegistryWrites(u)
                           \/ FlipRefused(u) \/ FlipDone(u) \/ FlipFailed(u)
      PROVE  FALSE
  <2>1. PICK n : request' = [request EXCEPT ![u] = n]
    BY <1>2 DEF OverviewMiss, RegistryReads, RegistryWrites, FlipRefused, FlipDone,
                FlipFailed, Ends
  <2>2. u = t
    BY <1>0, <2>1 DEF Inv, TypeOK
  <2>3. CASE OverviewMiss(u) \/ RegistryReads(u)
    BY <1>0, <2>2, <2>3 DEF OverviewMiss, RegistryReads, Inv, TypeOK, Request
  <2>4. CASE RegistryWrites(u) \/ FlipRefused(u) \/ FlipDone(u) \/ FlipFailed(u)
    BY <1>0, <2>2, <2>4 DEF RegistryWrites, FlipRefused, FlipDone, FlipFailed, At
  <2>5. QED
    BY <1>2, <2>3, <2>4
<1>3. ASSUME NEW u \in Tab, NEW r, NEW x, NEW p, NEW kind, NEW target,
             Send(u, r, x, p, kind, target)
      PROVE  FALSE
  BY <1>0, <1>3 DEF Send, Idle, Inv, TypeOK
<1>4. ~UNCHANGED request
  BY <1>0
<1>5. ~Around /\ ~UNCHANGED vars
  BY <1>4 DEF Around, Tick, ChangeElsewhere, ChangeRole, Evict, vars
<1>6. QED
  BY <1>1, <1>2, <1>3, <1>5 DEF Next, Unseen, Around

----------------------------------------------------------------------------
(***************************************************************************)
(* How old an answer is.                                                   *)
(***************************************************************************)

\* The registry holds v for p, or held it no earlier than at.
Since(p, v, at) == vis[p] = v \/ at <= held[p][v]

\* The registry lets x do a to p, or did no earlier than at.
May(x, p, a, at) == a \in role[x][p] \/ at <= had[x][p][a]

\* What an answer to x about p says was so at some moment no earlier than at.
Ground(x, p, v, can, at) ==
  /\ Since(p, v, at)
  /\ May(x, p, "see", at)
  /\ can => May(x, p, "change", at)

\* A request that is not older than it may be, and an answer the registry gave
\* after it was sent.
Prompt(q) ==
  q.phase # "idle" =>
    /\ q.sentAt <= now /\ now <= q.sentAt + Patience
    /\ q.phase = "read" /\ q.kind = "overview" /\ q.answer \in Vis =>
         Ground(q.reader, q.repo, q.answer, q.can, q.sentAt)
    /\ q.phase = "read" /\ q.kind = "flip" /\ q.answer = "ok" =>
         Ground(q.reader, q.repo, q.target, TRUE, q.sentAt)

\* An answer within its lifetime, that was the registry's no longer than a
\* request takes before it was stored.
Young(e) ==
  /\ e.at <= now /\ now < e.at + TTL
  /\ \E at \in Nat : /\ at <= e.at /\ e.at <= at + Patience
                     /\ Ground(e.key[1], e.key[2], e.vis, e.can, at)

\* What the registry let go of and took away is past, and every request and answer
\* is in time.
Timed ==
  /\ \A p \in Repo, v \in Vis : held[p][v] <= now
  /\ \A x \in Reader, p \in Repo, a \in Right : had[x][p][a] <= now
  /\ \A t \in Tab : Prompt(request[t])
  /\ \A r \in Replica : \A e \in cache[r] : Young(e)

\* What every step does to the ground the answers stand on: what the registry
\* held it holds, or it let go of it no earlier than now, and so with the rights.
VisKeeps ==
  \A p \in Repo, v \in Vis :
    /\ vis[p] = v => vis'[p] = v \/ now <= held'[p][v]
    /\ held[p][v] <= held'[p][v] /\ held'[p][v] <= now'

RoleKeeps ==
  \A x \in Reader, p \in Repo, a \in Right :
    /\ a \in role[x][p] => a \in role'[x][p] \/ now <= had'[x][p][a]
    /\ had[x][p][a] <= had'[x][p][a] /\ had'[x][p][a] <= now'

Keeps == now <= now' /\ VisKeeps /\ RoleKeeps

\* At first nothing is kept, and what the registry holds it holds.
LEMMA InitTimed == Init => Timed
<1> SUFFICES ASSUME Init PROVE Timed
  OBVIOUS
<1>1. 0 <= now
  BY VisibilityAssumption DEF Init
<1>2. /\ \A p \in Repo, v \in Vis : held[p][v] = 0
      /\ \A x \in Reader, p \in Repo, a \in Right : had[x][p][a] = 0
      /\ \A r \in Replica : cache[r] = {}
  BY DEF Init
<1>3. \A t \in Tab : Prompt(request[t])
  BY DEF Init, Prompt, Idle
<1>4. QED
  BY <1>1, <1>2, <1>3 DEF Timed

\* Change: what the registry held until now is held until now.
LEMMA ChangeKeeps ==
  ASSUME Inv, Timed, NEW p \in Repo, NEW v \in Vis, Change(p, v), now' = now
  PROVE  VisKeeps
<1>1. now \in Nat /\ vis[p] \in Vis /\ held \in [Repo -> [Vis -> Nat]] /\ vis \in [Repo -> Vis]
  BY DEF Inv, TypeOK
<1>2. held' = [held EXCEPT ![p] = [held[p] EXCEPT ![vis[p]] = now]]
  BY DEF Change
<1>3. \A o \in Repo, w \in Vis :
        held'[o][w] = IF o = p /\ w = vis[p] THEN now ELSE held[o][w]
  BY <1>1, <1>2
<1>4. \A o \in Repo : vis'[o] = IF o = p THEN v ELSE vis[o]
  BY <1>1 DEF Change
<1>5. \A o \in Repo, w \in Vis : held[o][w] \in Nat /\ held[o][w] <= now
  BY <1>1 DEF Timed
<1>6. QED
  BY <1>1, <1>3, <1>4, <1>5 DEF VisKeeps

\* A step that leaves what the registry holds, or the roles, alone.
LEMMA SameVisKeeps ==
  ASSUME Inv, Timed, UNCHANGED <<vis, held>>, now' = now \/ now' = now + 1
  PROVE  VisKeeps
<1>1. now \in Nat /\ \A p \in Repo, v \in Vis : held[p][v] \in Nat /\ held[p][v] <= now
  BY DEF Inv, TypeOK, Timed
<1>2. QED
  BY <1>1 DEF VisKeeps

LEMMA SameRoleKeeps ==
  ASSUME Inv, Timed, UNCHANGED <<role, had>>, now' = now \/ now' = now + 1
  PROVE  RoleKeeps
<1>1. now \in Nat
      /\ \A x \in Reader, p \in Repo, a \in Right : had[x][p][a] \in Nat /\ had[x][p][a] <= now
  BY DEF Inv, TypeOK, Timed
<1>2. QED
  BY <1>1 DEF RoleKeeps

LEMMA SameKeeps ==
  ASSUME Inv, Timed, UNCHANGED <<vis, held, role, had>>, now' = now \/ now' = now + 1
  PROVE  Keeps
<1>1. now <= now'
  BY DEF Inv, TypeOK
<1>2. QED
  BY <1>1, SameVisKeeps, SameRoleKeeps DEF Keeps

\* ChangeRole: a right that is taken away was held until now.
LEMMA RoleChangeKeeps ==
  ASSUME Inv, Timed, NEW x \in Reader, NEW p \in Repo, NEW new \in Role,
         ChangeRole(x, p, new)
  PROVE  Keeps
<1>1. now' = now /\ now \in Nat /\ UNCHANGED <<vis, held>>
  BY DEF ChangeRole, Inv, TypeOK
<1>2. \A y \in Reader, o \in Repo, a \in Right : had[y][o][a] \in Nat /\ had[y][o][a] <= now
  BY DEF Inv, TypeOK, Timed
<1>3. ASSUME NEW y \in Reader, NEW o \in Repo, NEW a \in Right
      PROVE  /\ a \in role[y][o] => a \in role'[y][o] \/ now <= had'[y][o][a]
             /\ had[y][o][a] <= had'[y][o][a] /\ had'[y][o][a] <= now'
  <2>1. /\ role'[y][o] = IF y = x /\ o = p THEN new ELSE role[y][o]
        /\ had'[y][o][a] = IF y = x /\ o = p /\ a \in role[x][p] /\ a \notin new
                           THEN now ELSE had[y][o][a]
    BY RoleChanged
  <2>2. QED
    BY <1>1, <1>2, <2>1
<1>4. QED
  BY <1>1, <1>3, SameVisKeeps DEF Keeps, RoleKeeps

\* An answer the registry gave stays as young as it was.
LEMMA GroundKept ==
  ASSUME Inv, Inv', Keeps, NEW x \in Reader, NEW p \in Repo, NEW v \in Vis, NEW c \in BOOLEAN,
         NEW at \in Nat, at <= now, Ground(x, p, v, c, at)
  PROVE  Ground(x, p, v, c, at)'
<1>1. now \in Nat /\ held[p][v] \in Nat /\ held'[p][v] \in Nat
  BY DEF Inv, TypeOK
<1>2. Since(p, v, at)'
  BY <1>1 DEF Keeps, VisKeeps, Since, Ground
<1>3. ASSUME NEW a \in Right, May(x, p, a, at) PROVE May(x, p, a, at)'
  <2>1. had[x][p][a] \in Nat /\ had'[x][p][a] \in Nat
    BY DEF Inv, TypeOK
  <2>2. QED
    BY <1>1, <1>3, <2>1 DEF Keeps, RoleKeeps, May
<1>4. QED
  BY <1>2, <1>3 DEF Ground, Right

\* A stored answer stays as young as it was, while it lives.
LEMMA YoungKept ==
  ASSUME Inv, Inv', Keeps, NEW e \in Entry, Young(e), now' < e.at + TTL
  PROVE  Young(e)'
<1>1. /\ e.key[1] \in Reader /\ e.key[2] \in Repo /\ e.vis \in Vis /\ e.can \in BOOLEAN
      /\ e.at \in Nat /\ now \in Nat /\ now' \in Nat /\ Patience \in Nat
  BY VisibilityAssumption DEF Entry, Inv, TypeOK
<1>2. PICK at \in Nat : /\ at <= e.at /\ e.at <= at + Patience
                        /\ Ground(e.key[1], e.key[2], e.vis, e.can, at)
  BY DEF Young
<1>3. at <= now /\ e.at <= now'
  BY <1>1, <1>2 DEF Young, Keeps
<1>4. Ground(e.key[1], e.key[2], e.vis, e.can, at)'
  BY <1>1, <1>2, <1>3, GroundKept
<1>5. QED
  BY <1>2, <1>3, <1>4 DEF Young

\* A request that does not move stays prompt while the clock stands.
LEMMA PromptKept ==
  ASSUME Inv, Inv', Keeps, now' = now, NEW q \in Request, Good(q), Prompt(q)
  PROVE  Prompt(q)'
<1> SUFFICES ASSUME q.phase # "idle" PROVE Prompt(q)'
  BY DEF Prompt
<1>1. /\ q.reader \in Reader /\ q.repo \in Repo /\ q.sentAt \in Nat /\ q.can \in BOOLEAN
      /\ q.sentAt <= now /\ now <= q.sentAt + Patience
  BY DEF Good, Prompt, Request
<1>2. q.phase = "read" /\ q.kind = "overview" /\ q.answer \in Vis =>
        Ground(q.reader, q.repo, q.answer, q.can, q.sentAt)'
  BY <1>1, GroundKept DEF Prompt
<1>3. q.phase = "read" /\ q.kind = "flip" /\ q.answer = "ok" =>
        q.target \in Vis /\ Ground(q.reader, q.repo, q.target, TRUE, q.sentAt)'
  BY <1>1, GroundKept DEF Prompt, Good
<1>4. QED
  BY <1>1, <1>2, <1>3 DEF Prompt

\* What is not of a request's own does not make it less prompt.
LEMMA PromptSame ==
  ASSUME NEW t \in Tab, NEW n \in Request, n = request'[t], Prompt(n)'
  PROVE  Prompt(request[t])'
BY DEF Prompt, Ground, Since, May

\* Requests and answers where the clock stands: one request moves, or none, and a
\* replica keeps what it kept and perhaps something as young.
LEMMA StillTimed ==
  ASSUME Inv, Inv', Timed, Keeps, now' = now,
         \A u \in Tab : request'[u] = request[u] \/ Prompt(request[u])',
         \A s \in Replica : \A e \in cache'[s] : e \in cache[s] \/ Young(e)'
  PROVE  Timed'
<1>1. /\ \A p \in Repo, v \in Vis : held'[p][v] <= now'
      /\ \A x \in Reader, p \in Repo, a \in Right : had'[x][p][a] <= now'
  BY DEF Keeps, VisKeeps, RoleKeeps
<1>2. ASSUME NEW u \in Tab PROVE Prompt(request[u])'
  <2>1. CASE request'[u] = request[u]
    <3>1. PICK n \in Request : n = request[u]
      BY DEF Inv, TypeOK
    <3>2. Good(n) /\ Prompt(n)
      BY <3>1 DEF Inv, Timed
    <3>3. Prompt(n)'
      BY <3>2, PromptKept
    <3>4. QED
      BY <2>1, <3>1, <3>3, PromptSame
  <2>2. QED
    BY <2>1
<1>3. ASSUME NEW s \in Replica, NEW e \in cache'[s] PROVE Young(e)'
  <2>1. CASE e \in cache[s]
    <3>1. e \in Entry /\ Young(e)
      BY <2>1 DEF Inv, TypeOK, Timed
    <3>2. now' < e.at + TTL
      BY <3>1 DEF Young
    <3>3. QED
      BY <3>1, <3>2, YoungKept
  <2>2. QED
    BY <2>1
<1>4. QED
  BY <1>1, <1>2, <1>3 DEF Timed

LEMMA MoveTimed ==
  ASSUME Inv, Inv', Timed, Keeps, now' = now, NEW t \in Tab, NEW q \in Request,
         request' = [request EXCEPT ![t] = q], Prompt(q)',
         \A s \in Replica : \A e \in cache'[s] : e \in cache[s] \/ Young(e)'
  PROVE  Timed'
<1>1. q = request'[t]
  BY DEF Inv, TypeOK
<1>2. Prompt(request[t])'
  BY <1>1, PromptSame
<1>3. \A u \in Tab : u # t => request'[u] = request[u]
  BY DEF Inv, TypeOK
<1>4. QED
  BY <1>2, <1>3, StillTimed

\* A request that ends, or moves without an answer of the registry in it.
LEMMA SilentTimed ==
  ASSUME Inv, Inv', Timed, NEW t \in Tab, NEW q \in Request,
         request' = [request EXCEPT ![t] = q],
         UNCHANGED <<now, vis, cache, held, role, had>>,
         q.phase # "read",
         q.phase # "idle" => q.sentAt <= now /\ now <= q.sentAt + Patience
  PROVE  Timed'
<1>1. Keeps
  BY SameKeeps
<1>2. Prompt(q)'
  BY DEF Prompt
<1>3. QED
  BY <1>1, <1>2, MoveTimed

LEMMA EndsTimed ==
  ASSUME Inv, Inv', Timed, NEW t \in Tab, Ends(t),
         UNCHANGED <<now, vis, held, role, had>>,
         \A s \in Replica : \A e \in cache'[s] : e \in cache[s] \/ Young(e)'
  PROVE  Timed'
<1>1. Keeps
  BY SameKeeps
<1>2. Prompt(Idle)'
  BY DEF Prompt, Idle
<1>3. QED
  BY <1>1, <1>2, IdleGood, MoveTimed DEF Ends

\* SetEntry: what is stored is as young as the request that asked for it.
LEMMA StoredYoung ==
  ASSUME Inv, NEW r \in Replica, NEW x \in Reader, NEW p \in Repo, NEW v \in Vis,
         NEW c \in BOOLEAN, NEW at \in Nat, at <= now, now <= at + Patience,
         Ground(x, p, v, c, at), SetEntry(r, x, p, v, c),
         UNCHANGED <<now, vis, held, role, had>>
  PROVE  \A s \in Replica : \A e \in cache'[s] : e \in cache[s] \/ Young(e)'
<1> PICK new : new = [key |-> Key(x, p), vis |-> v, can |-> c, at |-> now]
  OBVIOUS
<1> DEFINE kept == {e \in cache[r] : e.key # Key(x, p)} \cup {new}
<1>1. now \in Nat /\ now < now + TTL
  BY VisibilityAssumption DEF Inv, TypeOK
<1>2. new.at = now /\ new.key[1] = x /\ new.key[2] = p /\ new.vis = v /\ new.can = c
  BY DEF Key
<1>3. Ground(new.key[1], new.key[2], new.vis, new.can, at)'
  BY <1>2 DEF Ground, Since, May
<1>4. Young(new)'
  BY <1>1, <1>2, <1>3 DEF Young
<1>5. cache' = cache \/ cache' = [cache EXCEPT ![r] = kept]
  BY DEF SetEntry
<1>6. \A e \in kept : e \in cache[r] \/ Young(e)'
  BY <1>4
<1>7. QED
  BY <1>5, <1>6 DEF Inv, TypeOK

\* The overview.
LEMMA OverviewTimed ==
  ASSUME Inv, Inv', Timed, NEW t \in Tab,
         \/ OverviewUntold(t) \/ OverviewHit(t) \/ OverviewMiss(t)
         \/ RegistryReads(t) \/ OverviewShown(t)
  PROVE  Timed'
<1> DEFINE q == request[t]
<1>0. q \in Request /\ Good(q) /\ Prompt(q) /\ q.phase # "idle"
  BY DEF Inv, TypeOK, Timed, OverviewUntold, OverviewHit, OverviewMiss, RegistryReads,
         OverviewShown, At
<1>1. /\ q.reader \in Reader /\ q.repo \in Repo /\ q.at \in Replica /\ q.can \in BOOLEAN
      /\ q.sentAt \in Nat /\ q.sentAt <= now /\ now <= q.sentAt + Patience
  BY <1>0 DEF Good, Prompt, Request
<1>2. CASE OverviewUntold(t) \/ OverviewHit(t)
  BY <1>2, EndsTimed DEF OverviewUntold, OverviewHit, Shows
<1>3. CASE OverviewMiss(t)
  <2>1. PICK n \in Request : n = request'[t]
    BY DEF Inv, TypeOK
  <2>2. n.phase = "asking" /\ n.sentAt = q.sentAt
    BY <1>0, <1>3, <2>1 DEF OverviewMiss, Request, Inv, TypeOK
  <2>3. request' = [request EXCEPT ![t] = n] /\ UNCHANGED <<now, vis, cache, held, role, had>>
    BY <1>3, <2>1 DEF OverviewMiss, Inv, TypeOK
  <2>4. QED
    BY <1>1, <2>2, <2>3, SilentTimed
<1>4. CASE RegistryReads(t)
  <2>0. PICK n \in Request : n = request'[t]
    BY DEF Inv, TypeOK
  <2>1. PICK a \in {"absent", "fault"} \cup {vis[q.repo]}, c \in BOOLEAN :
          /\ a \in Vis => "see" \in role[q.reader][q.repo]
          /\ c => "change" \in role[q.reader][q.repo]
          /\ request' = [request EXCEPT ![t].phase = "read", ![t].answer = a, ![t].can = c]
    BY <1>4 DEF RegistryReads
  <2>2. /\ n.sentAt = q.sentAt /\ n.repo = q.repo /\ n.reader = q.reader
        /\ n.answer = a /\ n.kind = "overview" /\ n.can = c
    <3>1. n = [q EXCEPT !.phase = "read", !.answer = a, !.can = c]
      BY <2>0, <2>1 DEF Inv, TypeOK
    <3>2. q.kind = "overview"
      BY <1>4 DEF RegistryReads, At
    <3>3. QED
      BY <1>0, <3>1, <3>2 DEF Request
  <2>3. n.answer \in Vis => /\ n.answer = vis[n.repo]
                            /\ "see" \in role[n.reader][n.repo]
                            /\ n.can => "change" \in role[n.reader][n.repo]
    BY <2>1, <2>2 DEF Vis
  <2>4. UNCHANGED <<now, vis, cache, held, role, had>>
    BY <1>4 DEF RegistryReads
  <2>5. Prompt(n)'
    BY <1>1, <2>2, <2>3, <2>4 DEF Prompt, Ground, Since, May
  <2>6. request' = [request EXCEPT ![t] = n]
    BY <2>0, <2>1 DEF Inv, TypeOK
  <2>7. QED
    BY <2>4, <2>5, <2>6, SameKeeps, MoveTimed
<1>5. CASE OverviewShown(t)
  <2>1. Ends(t) /\ UNCHANGED <<now, vis, held, role, had>>
    BY <1>5 DEF OverviewShown, Shows
  <2>2. \A s \in Replica : \A e \in cache'[s] : e \in cache[s] \/ Young(e)'
    <3>1. CASE q.answer \in Vis
      <4>1. /\ SetEntry(q.at, q.reader, q.repo, q.answer, q.can)
            /\ Ground(q.reader, q.repo, q.answer, q.can, q.sentAt)
        BY <1>0, <1>5, <3>1 DEF OverviewShown, Prompt, At
      <4>2. QED
        BY <1>1, <2>1, <3>1, <4>1, StoredYoung
    <3>2. CASE q.answer \notin Vis
      BY <1>5, <3>2 DEF OverviewShown
    <3>3. QED
      BY <3>1, <3>2
  <2>3. QED
    BY <2>1, <2>2, EndsTimed
<1>6. QED
  BY <1>2, <1>3, <1>4, <1>5

\* The form.
LEMMA FlipTimed ==
  ASSUME Inv, Inv', Timed, NEW t \in Tab,
         FlipRefused(t) \/ RegistryWrites(t) \/ FlipDone(t) \/ FlipFailed(t)
  PROVE  Timed'
<1> DEFINE q == request[t]
<1>0. q \in Request /\ Good(q) /\ Prompt(q) /\ q.phase # "idle" /\ q.kind = "flip"
  BY DEF Inv, TypeOK, Timed, FlipRefused, RegistryWrites, FlipDone, FlipFailed, At
<1>1. /\ q.reader \in Reader /\ q.repo \in Repo /\ q.at \in Replica /\ q.target \in Vis
      /\ q.sentAt \in Nat /\ q.sentAt <= now /\ now <= q.sentAt + Patience
  BY <1>0 DEF Good, Prompt, Request
<1>2. CASE FlipRefused(t) \/ FlipFailed(t)
  BY <1>2, EndsTimed DEF FlipRefused, FlipFailed
<1>3. CASE RegistryWrites(t)
  <2>0. PICK n \in Request : n = request'[t]
    BY DEF Inv, TypeOK
  <2>1. now' = now /\ cache' = cache /\ UNCHANGED <<role, had>>
    BY <1>3 DEF RegistryWrites
  <2>2. /\ n.sentAt = q.sentAt /\ n.repo = q.repo /\ n.target = q.target /\ n.kind = "flip"
        /\ n.reader = q.reader
        /\ n.answer = "ok" => "change" \in role[q.reader][q.repo] /\ Change(q.repo, q.target)
    BY <1>0, <1>3, <2>0 DEF RegistryWrites, Request, Inv, TypeOK
  <2>3. role[q.reader][q.repo] \in Role
    BY <1>1 DEF Inv, TypeOK
  <2>4. n.answer = "ok" => Ground(n.reader, n.repo, n.target, TRUE, n.sentAt)'
    <3> SUFFICES ASSUME n.answer = "ok"
                 PROVE  Ground(n.reader, n.repo, n.target, TRUE, n.sentAt)'
      OBVIOUS
    <3>1. "see" \in role'[q.reader][q.repo] /\ "change" \in role'[q.reader][q.repo]
      BY <2>1, <2>2, <2>3 DEF Role
    <3>2. vis'[q.repo] = q.target
      BY <1>1, <2>2 DEF Change, Inv, TypeOK
    <3>3. QED
      BY <2>2, <3>1, <3>2 DEF Ground, Since, May
  <2>5. Prompt(n)'
    BY <1>1, <2>1, <2>2, <2>4 DEF Prompt
  <2>6. Keeps
    <3>1. VisKeeps
      BY <1>1, <1>3, <2>1, ChangeKeeps, SameVisKeeps DEF RegistryWrites
    <3>2. RoleKeeps /\ now <= now'
      BY <2>1, SameRoleKeeps DEF Inv, TypeOK
    <3>3. QED
      BY <3>1, <3>2 DEF Keeps
  <2>7. request' = [request EXCEPT ![t] = n]
    BY <1>3, <2>0 DEF RegistryWrites, Inv, TypeOK
  <2>8. QED
    BY <2>1, <2>5, <2>6, <2>7, MoveTimed
<1>4. CASE FlipDone(t)
  <2>1. Ends(t) /\ UNCHANGED <<now, vis, held, role, had>>
    BY <1>4 DEF FlipDone
  <2>2. /\ SetEntry(q.at, q.reader, q.repo, q.target, TRUE)
        /\ Ground(q.reader, q.repo, q.target, TRUE, q.sentAt)
    BY <1>0, <1>4 DEF Prompt, FlipDone, At
  <2>3. \A s \in Replica : \A e \in cache'[s] : e \in cache[s] \/ Young(e)'
    BY <1>1, <2>1, <2>2, StoredYoung
  <2>4. QED
    BY <2>1, <2>3, EndsTimed
<1>5. QED
  BY <1>2, <1>3, <1>4

\* Send.
LEMMA SendTimed ==
  ASSUME Inv, Inv', Timed, NEW t \in Tab, NEW r, NEW x, NEW p, NEW kind, NEW target,
         Send(t, r, x, p, kind, target)
  PROVE  Timed'
<1>1. PICK n \in Request : n = request'[t]
  BY DEF Inv, TypeOK
<1>2. n.phase = "sent" /\ n.sentAt = now
  BY <1>1 DEF Send, Idle, Inv, TypeOK
<1>3. now <= now + Patience
  BY VisibilityAssumption DEF Inv, TypeOK
<1>4. request' = [request EXCEPT ![t] = n] /\ UNCHANGED <<now, vis, cache, held, role, had>>
  BY <1>1 DEF Send, Inv, TypeOK
<1>5. now <= n.sentAt + Patience /\ n.sentAt <= now /\ n.phase # "read"
  BY <1>2, <1>3 DEF Inv, TypeOK
<1>6. QED
  BY <1>4, <1>5, SilentTimed

\* What happens around the requests.
LEMMA AroundTimed ==
  ASSUME Inv, Inv', Timed, Around
  PROVE  Timed'
<1>1. CASE Tick
  <2>1. /\ UNCHANGED <<vis, held, request, role, had>> /\ now' = now + 1
        /\ \A t \in Tab : request[t].phase # "idle" => now < request[t].sentAt + Patience
        /\ cache' = [r \in Replica |-> {e \in cache[r] : Fresh(e, now')}]
    BY <1>1 DEF Tick
  <2>2. Keeps /\ now \in Nat
    BY <2>1, SameKeeps DEF Inv, TypeOK
  <2>3. /\ \A p \in Repo, v \in Vis : held'[p][v] <= now'
        /\ \A x \in Reader, p \in Repo, a \in Right : had'[x][p][a] <= now'
    BY <2>2 DEF Keeps, VisKeeps, RoleKeeps
  <2>4. ASSUME NEW t \in Tab PROVE Prompt(request[t])'
    <3>1. request[t] \in Request /\ Prompt(request[t]) /\ Patience \in Nat
      BY VisibilityAssumption DEF Inv, TypeOK, Timed
    <3>2. PICK s \in Nat : s = request[t].sentAt
      BY <3>1 DEF Request
    <3>3. request[t].phase # "idle" => s <= now /\ now < s + Patience
      BY <2>1, <3>1, <3>2 DEF Prompt
    <3>4. request[t].phase # "idle" => s <= now + 1 /\ now + 1 <= s + Patience
      BY <2>2, <3>1, <3>3
    <3>5. QED
      BY <2>1, <3>1, <3>2, <3>4 DEF Prompt, Ground, Since, May
  <2>5. ASSUME NEW r \in Replica, NEW e \in cache'[r] PROVE Young(e)'
    <3>1. e \in Entry /\ Young(e) /\ now' < e.at + TTL
      BY <2>1 DEF Inv, TypeOK, Timed, Fresh
    <3>2. QED
      BY <2>2, <3>1, YoungKept
  <2>6. QED
    BY <2>3, <2>4, <2>5 DEF Timed
<1>2. ASSUME NEW p \in Repo, ChangeElsewhere(p) PROVE Timed'
  <2>1. Change(p, Other(vis[p])) /\ UNCHANGED <<now, cache, request, role, had>>
    BY <1>2 DEF ChangeElsewhere
  <2>2. Other(vis[p]) \in Vis /\ now <= now'
    BY <2>1 DEF Other, Vis, Inv, TypeOK
  <2>3. Keeps
    BY <2>1, <2>2, ChangeKeeps, SameRoleKeeps DEF Keeps
  <2>4. QED
    BY <2>1, <2>3, StillTimed
<1>3. ASSUME NEW p \in Repo, NEW x \in Reader, NEW new \in Role, ChangeRole(x, p, new)
      PROVE  Timed'
  <2>1. UNCHANGED <<now, cache, request>>
    BY <1>3 DEF ChangeRole
  <2>2. Keeps
    BY <1>3, RoleChangeKeeps
  <2>3. QED
    BY <2>1, <2>2, StillTimed
<1>4. ASSUME NEW r \in Replica, Evict(r) PROVE Timed'
  <2>1. UNCHANGED <<now, vis, held, role, had, request>>
        /\ \A s \in Replica : cache'[s] \subseteq cache[s]
    BY <1>4 DEF Evict, Inv, TypeOK
  <2>2. QED
    BY <2>1, SameKeeps, StillTimed
<1>5. QED
  BY <1>1, <1>2, <1>3, <1>4 DEF Around

\* Every step keeps the answers as young as they were.
LEMMA StepTimed == Inv /\ Inv' /\ Timed /\ [Next]_vars => Timed'
<1> SUFFICES ASSUME Inv, Inv', Timed, [Next]_vars PROVE Timed'
  OBVIOUS
<1>1. CASE UNCHANGED vars
  BY <1>1 DEF vars, Timed, Prompt, Ground, Since, May, Young
<1>2. CASE Next
  BY <1>2, OverviewTimed, FlipTimed, SendTimed, AroundTimed DEF Next, Unseen, Around
<1>3. QED
  BY <1>1, <1>2

\* What an overview tells was so, of this repository and for this reader, less than
\* a lifetime and the time of one request ago.
LEMMA ToldGround ==
  ASSUME Inv, Timed, [Next]_vars, NEW t \in Tab, Tells(t)
  PROVE  /\ page'.can => page'.badge \in Vis
         /\ page'.badge \in Vis =>
              /\ request[t].reader \in Reader /\ request[t].repo \in Repo
              /\ \E at \in Nat :
                   /\ now < at + TTL + Patience
                   /\ Ground(request[t].reader, request[t].repo, page'.badge, page'.can, at)
<1> DEFINE q == request[t]
<1>0. /\ q \in Request /\ Good(q) /\ Prompt(q) /\ now \in Nat
      /\ TTL \in Nat /\ 0 < TTL /\ Patience \in Nat
  BY VisibilityAssumption DEF Inv, TypeOK, Timed
<1>1. CASE OverviewUntold(t)
  BY <1>1 DEF OverviewUntold, Shows, None, Vis
<1>2. CASE OverviewHit(t)
  <2>1. PICK e \in Stored(q.at, q.reader, q.repo) : Shows(t, e.vis, e.can)
    BY <1>2 DEF OverviewHit
  <2>2. q.at \in Replica /\ q.reader \in Reader /\ q.repo \in Repo
    BY <1>0, <1>2 DEF Good, OverviewHit, At
  <2>3. Young(e) /\ e \in Entry /\ e.key = <<q.reader, q.repo>>
    BY <2>1, <2>2 DEF Stored, Key, Timed, Inv, TypeOK
  <2>4. page'.badge = e.vis /\ page'.can = e.can
    BY <2>1 DEF Shows
  <2>5. PICK at \in Nat : /\ at <= e.at /\ e.at <= at + Patience
                          /\ Ground(e.key[1], e.key[2], e.vis, e.can, at)
    BY <2>3 DEF Young
  <2>6. now < e.at + TTL /\ e.at \in Nat /\ e.vis \in Vis
    BY <2>3 DEF Young, Entry
  <2>7. now < at + TTL + Patience
    BY <1>0, <2>5, <2>6
  <2>8. Ground(q.reader, q.repo, page'.badge, page'.can, at)
    BY <2>3, <2>4, <2>5
  <2>9. QED
    BY <2>2, <2>4, <2>6, <2>7, <2>8
<1>3. CASE OverviewShown(t)
  <2>1. CASE q.answer \in Vis
    <3>1. page'.badge = q.answer /\ page'.can = q.can
      BY <1>3, <2>1 DEF OverviewShown, Shows
    <3>2. /\ q.reader \in Reader /\ q.repo \in Repo /\ q.sentAt \in Nat
          /\ now <= q.sentAt + Patience
          /\ Ground(q.reader, q.repo, q.answer, q.can, q.sentAt)
      BY <1>0, <1>3, <2>1 DEF Good, Prompt, OverviewShown, At, Request
    <3>3. now < q.sentAt + TTL + Patience
      BY <1>0, <3>2
    <3>4. QED
      BY <2>1, <3>1, <3>2, <3>3
  <2>2. CASE q.answer \notin Vis
    BY <1>3, <2>2 DEF OverviewShown, Shows, Vis, None
  <2>3. QED
    BY <2>1, <2>2
<1>4. QED
  BY <1>1, <1>2, <1>3, TellsOnly

LEMMA BadgeStep ==
  ASSUME Inv, Timed, [Next]_vars, NEW t \in Tab, Tells(t), page'.badge \in Vis
  PROVE  \/ vis[request[t].repo] = page'.badge
         \/ now < held[request[t].repo][page'.badge] + TTL + Patience
<1>1. PICK at \in Nat : /\ now < at + TTL + Patience
                        /\ Since(request[t].repo, page'.badge, at)
  BY ToldGround DEF Ground
<1>2. held[request[t].repo][page'.badge] \in Nat
  BY ToldGround DEF Inv, TypeOK
<1>3. now \in Nat /\ TTL \in Nat /\ Patience \in Nat
  BY VisibilityAssumption DEF Inv, TypeOK
<1>4. QED
  BY <1>1, <1>2, <1>3 DEF Since

LEMMA OwnStep ==
  ASSUME Inv, Timed, [Next]_vars, NEW t \in Tab, Tells(t)
  PROVE  /\ page'.badge \in Vis => Recently(request[t].reader, request[t].repo, "see")
         /\ page'.can => Recently(request[t].reader, request[t].repo, "change")
<1> SUFFICES ASSUME page'.badge \in Vis
             PROVE  /\ Recently(request[t].reader, request[t].repo, "see")
                    /\ page'.can => Recently(request[t].reader, request[t].repo, "change")
  BY ToldGround
<1>1. PICK at \in Nat :
        /\ now < at + TTL + Patience
        /\ Ground(request[t].reader, request[t].repo, page'.badge, page'.can, at)
  BY ToldGround
<1>2. now \in Nat /\ TTL \in Nat /\ Patience \in Nat
  BY VisibilityAssumption DEF Inv, TypeOK
<1>3. ASSUME NEW a \in Right, May(request[t].reader, request[t].repo, a, at)
      PROVE  Recently(request[t].reader, request[t].repo, a)
  <2>1. had[request[t].reader][request[t].repo][a] \in Nat
    BY ToldGround DEF Inv, TypeOK
  <2>2. QED
    BY <1>1, <1>2, <1>3, <2>1 DEF May, Recently
<1>4. QED
  BY <1>1, <1>3 DEF Ground, Right

\* visibilityTTL: however many replicas keep answers, and whoever changes the
\* visibility elsewhere, no badge is older than the lifetime and one request
\* (BadgeBounded), for every value of the constants.
THEOREM BadgeBoundedCorrect == Spec => BadgeBounded
<1>1. Inv /\ Timed /\ [Next]_vars =>
        [\A t \in Tab :
           Tells(t) /\ page'.badge \in Vis =>
             \/ vis[request[t].repo] = page'.badge
             \/ now < held[request[t].repo][page'.badge] + TTL + Patience]_vars
  BY BadgeStep
<1>2. QED
  BY <1>1, InitInv, StepInv, InitTimed, StepTimed, PTL DEF Spec, BadgeBounded

\* visibilityKey and visibilityTTL: whatever the replicas keep and whoever asks,
\* and however the roles change at the registry, what an overview tells a reader
\* was theirs to be told less than the lifetime and one request ago (OwnAnswer),
\* for every value of the constants.
THEOREM OwnAnswerCorrect == Spec => OwnAnswer
<1>1. Inv /\ Timed /\ [Next]_vars =>
        [\A t \in Tab :
           LET Still(a) == Recently(request[t].reader, request[t].repo, a) IN
           Tells(t) => /\ page'.badge \in Vis => Still("see")
                       /\ page'.can => Still("change")]_vars
  BY OwnStep
<1>2. QED
  BY <1>1, InitInv, StepInv, InitTimed, StepTimed, PTL DEF Spec, OwnAnswer

----------------------------------------------------------------------------
(***************************************************************************)
(* The person who made the change sees it at once.  When one replica       *)
(* answers everybody and nobody has two requests in flight, what a reader  *)
(* chose, while it stands, is what the registry holds, what the replica    *)
(* keeps for them, and what an answer on its way to them says.             *)
(***************************************************************************)

\* What the deployment and its readers are taken to be.
Alone ==
  /\ \A r, s \in Replica : r = s
  /\ \A t, u \in Tab : \A x \in Whose[t] : x \in Whose[u] => t = u

\* An answer on its way does not contradict what its reader chose, and while a
\* change of theirs is on its way they have chosen nothing.
Told(q) ==
  /\ q.phase = "read" /\ q.kind = "overview" /\ q.answer \in Vis =>
       chosen[q.reader][q.repo] \in {None, q.answer}
  /\ q.phase = "read" /\ q.kind = "flip" /\ q.answer = "ok" =>
       chosen[q.reader][q.repo] = None

Fits(t) ==
  /\ request[t].phase # "idle" => request[t].reader \in Whose[t]
  /\ Told(request[t])

\* A kept answer does not contradict it either, and is a reader's with a subject.
Agrees(e) == Keyed(e.key[1]) /\ chosen[e.key[1]][e.key[2]] \in {None, e.vis}

Stands == \A x \in Reader, p \in Repo : chosen[x][p] \in {None, vis[p]}

Chosen ==
  /\ \A t \in Tab : Fits(t)
  /\ Stands
  /\ \A r \in Replica : \A e \in cache[r] : Agrees(e)

\* Nobody chooses anything new in this step.
Fades == \A x \in Reader, p \in Repo : chosen'[x][p] \in {None, chosen[x][p]}

LEMMA InitChosen == Init => Chosen
<1> SUFFICES ASSUME Init PROVE Chosen
  OBVIOUS
<1>1. \A t \in Tab : Fits(t)
  BY DEF Init, Fits, Told, Idle
<1>2. QED
  BY <1>1 DEF Init, Chosen, Stands

\* Where nobody chooses anew, what agreed with the choices still does.
LEMMA FadesKept ==
  ASSUME Inv, Inv', Chosen, Fades, Stands',
         \A u \in Tab : request'[u] = request[u] \/ Fits(u)',
         \A s \in Replica : \A e \in cache'[s] : e \in cache[s] \/ Agrees(e)'
  PROVE  Chosen'
<1>1. ASSUME NEW u \in Tab PROVE Fits(u)'
  <2>1. CASE request'[u] = request[u]
    <3>1. CASE request[u].phase = "idle"
      BY <2>1, <3>1 DEF Fits, Told
    <3>2. CASE request[u].phase # "idle"
      <4>1. request[u].reader \in Reader /\ request[u].repo \in Repo
        BY <3>2 DEF Inv, Good
      <4>2. chosen'[request[u].reader][request[u].repo]
              \in {None, chosen[request[u].reader][request[u].repo]}
        BY <4>1 DEF Fades
      <4>3. Fits(u)
        BY DEF Chosen
      <4>4. QED
        BY <2>1, <4>2, <4>3 DEF Fits, Told
    <3>3. QED
      BY <3>1, <3>2
  <2>2. QED
    BY <2>1
<1>2. ASSUME NEW s \in Replica, NEW e \in cache'[s] PROVE Agrees(e)'
  <2>1. CASE e \in cache[s]
    <3>1. e.key[1] \in Reader /\ e.key[2] \in Repo /\ Agrees(e)
      BY <2>1 DEF Inv, TypeOK, Entry, Chosen
    <3>2. QED
      BY <3>1 DEF Agrees, Fades
  <2>2. QED
    BY <2>1
<1>3. QED
  BY <1>1, <1>2 DEF Chosen

\* SetEntry: one answer is kept for its reader in place of the last.
LEMMA StoredAgrees ==
  ASSUME Inv, NEW r \in Replica, NEW x \in Reader, NEW p \in Repo, NEW v \in Vis,
         NEW c \in BOOLEAN, SetEntry(r, x, p, v, c), chosen'[x][p] \in {None, v}
  PROVE  \A s \in Replica : \A e \in cache'[s] : e \in cache[s] \/ Agrees(e)'
<1> PICK new : new = [key |-> Key(x, p), vis |-> v, can |-> c, at |-> now]
  OBVIOUS
<1> DEFINE kept == {e \in cache[r] : e.key # Key(x, p)} \cup {new}
<1>1. Keyed(x) => Agrees(new)'
  BY DEF Agrees, Key, Keyed
<1>2. \/ cache' = cache
      \/ Keyed(x) /\ cache' = [cache EXCEPT ![r] = kept]
  BY DEF SetEntry
<1>3. Keyed(x) => \A e \in kept : e \in cache[r] \/ Agrees(e)'
  BY <1>1
<1>4. QED
  BY <1>2, <1>3 DEF Inv, TypeOK

\* A change of anybody's: nobody's choice of that repository stands any more.
LEMMA ChangeFades ==
  ASSUME Inv, Chosen, NEW p \in Repo, NEW v \in Vis, Change(p, v)
  PROVE  Fades /\ Stands' /\ \A x \in Reader : chosen'[x][p] = None
<1>1. \A x \in Reader, o \in Repo :
        chosen'[x][o] = IF o = p THEN None ELSE chosen[x][o]
  BY DEF Change, Inv, TypeOK
<1>2. \A o \in Repo : o # p => vis'[o] = vis[o]
  BY DEF Change, Inv, TypeOK
<1>3. QED
  BY <1>1, <1>2 DEF Fades, Stands, Chosen

\* A request that ends says nothing any more.
LEMMA EndsFits ==
  ASSUME Inv, NEW t \in Tab, Ends(t)
  PROVE  Fits(t)'
BY DEF Ends, Idle, Fits, Told, Inv, TypeOK

LEMMA SameFades ==
  ASSUME Chosen, UNCHANGED <<vis, chosen>>
  PROVE  Fades /\ Stands'
BY DEF Fades, Stands, Chosen

\* The overview: the registry's answer is what it holds, and so what stands.
LEMMA OverviewChosen ==
  ASSUME Inv, Inv', Chosen, NEW t \in Tab,
         \/ OverviewUntold(t) \/ OverviewHit(t) \/ OverviewMiss(t)
         \/ RegistryReads(t) \/ OverviewShown(t)
  PROVE  Chosen'
<1> DEFINE q == request[t]
<1>0. /\ q \in Request /\ Good(q) /\ Fits(t) /\ q.phase # "idle" /\ q.kind = "overview"
      /\ \A u \in Tab : u # t => request'[u] = request[u]
      /\ UNCHANGED <<vis, chosen>>
  BY DEF Inv, TypeOK, Chosen, OverviewUntold, OverviewHit, OverviewMiss, RegistryReads,
         OverviewShown, Shows, Ends, At
<1>1. Fades /\ Stands'
  BY <1>0, SameFades
<1>2. Fits(t)'
  <2>1. CASE OverviewUntold(t) \/ OverviewHit(t) \/ OverviewMiss(t) \/ OverviewShown(t)
    <3>1. CASE OverviewMiss(t)
      <4>1. request'[t].reader = q.reader /\ request'[t].phase = "asking"
        BY <1>0, <3>1 DEF OverviewMiss, Request, Inv, TypeOK
      <4>2. QED
        BY <1>0, <4>1 DEF Fits, Told
    <3>2. CASE OverviewUntold(t) \/ OverviewHit(t) \/ OverviewShown(t)
      BY <3>2, EndsFits DEF OverviewUntold, OverviewHit, OverviewShown, Shows
    <3>3. QED
      BY <2>1, <3>1, <3>2
  <2>2. CASE RegistryReads(t)
    <3>1. PICK a \in {"absent", "fault"} \cup {vis[q.repo]}, c \in BOOLEAN :
            request' = [request EXCEPT ![t].phase = "read", ![t].answer = a, ![t].can = c]
      BY <2>2 DEF RegistryReads
    <3>2. /\ request'[t].reader = q.reader /\ request'[t].repo = q.repo
          /\ request'[t].answer = a /\ request'[t].kind = "overview"
      BY <1>0, <3>1 DEF Request, Inv, TypeOK
    <3>3. a \in Vis => a = vis[q.repo]
      BY <3>1 DEF Vis
    <3>4. chosen[q.reader][q.repo] \in {None, vis[q.repo]}
      BY <1>0 DEF Good, Chosen, Stands
    <3>5. QED
      BY <1>0, <3>2, <3>3, <3>4 DEF Fits, Told
  <2>3. QED
    BY <2>1, <2>2
<1>3. \A s \in Replica : \A e \in cache'[s] : e \in cache[s] \/ Agrees(e)'
  <2>1. CASE OverviewShown(t) /\ q.answer \in Vis
    <3>1. SetEntry(q.at, q.reader, q.repo, q.answer, q.can) /\ q.can \in BOOLEAN
      BY <1>0, <2>1 DEF OverviewShown, Request
    <3>2. /\ q.reader \in Reader /\ q.repo \in Repo /\ q.at \in Replica
          /\ chosen'[q.reader][q.repo] \in {None, q.answer}
      BY <1>0, <2>1 DEF Good, Fits, Told, OverviewShown, At
    <3>3. QED
      BY <2>1, <3>1, <3>2, StoredAgrees
  <2>2. CASE ~(OverviewShown(t) /\ q.answer \in Vis)
    BY <2>2 DEF OverviewUntold, OverviewHit, OverviewMiss, RegistryReads, OverviewShown
  <2>3. QED
    BY <2>1, <2>2
<1>4. QED
  BY <1>0, <1>1, <1>2, <1>3, FadesKept

\* The answer to a change comes back: what its reader chose is what this
\* replica keeps for them, and no other request of theirs is on its way.
LEMMA FlipDoneChosen ==
  ASSUME Alone, Inv, Inv', Chosen, NEW t \in Tab, FlipDone(t)
  PROVE  Chosen'
<1> DEFINE q == request[t]
<1>0. /\ q \in Request /\ Good(q) /\ Fits(t) /\ q.phase = "read" /\ q.kind = "flip"
      /\ q.answer = "ok"
      /\ UNCHANGED <<now, vis>>
      /\ SetEntry(q.at, q.reader, q.repo, q.target, TRUE)
      /\ Choice(t)
      /\ Ends(t)
  BY DEF Inv, TypeOK, Chosen, FlipDone, At
<1>1. /\ q.reader \in Reader /\ q.repo \in Repo /\ q.at \in Replica /\ q.target \in Vis
      /\ q.reader \in Whose[t] /\ chosen[q.reader][q.repo] = None
  BY <1>0 DEF Good, Fits, Told
<1>2. \A u \in Tab : u # t => request'[u] = request[u]
  BY <1>0 DEF Ends, Inv, TypeOK
<1>3. /\ chosen'[q.reader][q.repo] \in {None, q.target}
      /\ chosen'[q.reader][q.repo] \in {None, vis[q.repo]}
  BY <1>0, <1>1 DEF Choice, Inv, TypeOK
<1>4. \A x \in Reader, p \in Repo :
        x # q.reader \/ p # q.repo => chosen'[x][p] = chosen[x][p]
  BY <1>0, <1>1 DEF Choice, Inv, TypeOK
<1>5. Stands'
  BY <1>0, <1>3, <1>4 DEF Chosen, Stands
<1>6. ASSUME NEW u \in Tab PROVE Fits(u)'
  <2>1. CASE u = t
    BY <1>0, <2>1, EndsFits
  <2>2. CASE u # t
    <3>1. request'[u] = request[u] /\ Fits(u)
      BY <1>2, <2>2 DEF Chosen
    <3>2. CASE request[u].phase = "idle"
      BY <3>1, <3>2 DEF Fits, Told
    <3>3. CASE request[u].phase # "idle"
      <4>1. request[u].reader \in Reader /\ request[u].repo \in Repo
        BY <3>3 DEF Inv, Good
      <4>2. request[u].reader # q.reader
        BY <1>1, <2>2, <3>1, <3>3 DEF Fits, Alone
      <4>3. chosen'[request[u].reader][request[u].repo]
              = chosen[request[u].reader][request[u].repo]
        BY <1>4, <4>1, <4>2
      <4>4. QED
        BY <3>1, <4>3 DEF Fits, Told
    <3>4. QED
      BY <3>2, <3>3
  <2>3. QED
    BY <2>1, <2>2
<1>7. ASSUME NEW s \in Replica, NEW e \in cache'[s] PROVE Agrees(e)'
  <2> DEFINE k    == Key(q.reader, q.repo)
             new  == [key |-> k, vis |-> q.target, can |-> TRUE, at |-> now]
             kept == {d \in cache[q.at] : d.key # k} \cup {new}
  <2>0. s = q.at /\ e \in Entry
    BY <1>1 DEF Alone, Inv, TypeOK
  <2>1. CASE e = new /\ Keyed(q.reader)
    BY <1>3, <2>1 DEF Agrees, Key, Keyed
  <2>2. CASE e \in cache[s] /\ e.key # k
    <3>1. Agrees(e) /\ e.key[1] \in Reader /\ e.key[2] \in Repo
      BY <2>2, <2>0 DEF Chosen, Entry
    <3>2. e.key[1] # q.reader \/ e.key[2] # q.repo
      BY <2>0, <2>2 DEF Key, Entry
    <3>3. QED
      BY <1>4, <3>1, <3>2 DEF Agrees, Keyed
  <2>3. CASE e \in cache[s] /\ e.key = k /\ ~Keyed(q.reader)
    BY <2>3 DEF Chosen, Agrees, Key
  <2>4. cache'[s] = IF Keyed(q.reader) THEN kept ELSE cache[s]
    BY <1>0, <1>1, <2>0 DEF SetEntry, Inv, TypeOK
  <2>5. QED
    BY <2>0, <2>1, <2>2, <2>3, <2>4, <1>4 DEF Chosen
<1>8. QED
  BY <1>5, <1>6, <1>7 DEF Chosen

\* The form.
LEMMA FlipChosen ==
  ASSUME Alone, Inv, Inv', Chosen, NEW t \in Tab,
         FlipRefused(t) \/ RegistryWrites(t) \/ FlipDone(t) \/ FlipFailed(t)
  PROVE  Chosen'
<1> DEFINE q == request[t]
<1>0. /\ q \in Request /\ Good(q) /\ Fits(t) /\ q.phase # "idle" /\ q.kind = "flip"
      /\ \A u \in Tab : u # t => request'[u] = request[u]
  BY DEF Inv, TypeOK, Chosen, FlipRefused, RegistryWrites, FlipDone, FlipFailed, Ends, At
<1>1. CASE FlipRefused(t) \/ FlipFailed(t)
  <2>1. UNCHANGED <<vis, cache, chosen>>
    BY <1>1 DEF FlipRefused, FlipFailed
  <2>2. Fits(t)'
    BY <1>1, EndsFits DEF FlipRefused, FlipFailed
  <2>3. Fades /\ Stands'
    BY <2>1, SameFades
  <2>4. QED
    BY <1>0, <2>1, <2>2, <2>3, FadesKept
<1>2. CASE RegistryWrites(t)
  <2>1. /\ cache' = cache
        /\ request'[t].reader = q.reader /\ request'[t].repo = q.repo
        /\ request'[t].kind = "flip"
        /\ request'[t].answer = "ok" => Change(q.repo, q.target)
        /\ Change(q.repo, q.target) \/ UNCHANGED <<vis, chosen>>
    BY <1>0, <1>2 DEF RegistryWrites, Request, Inv, TypeOK
  <2>2. q.reader \in Reader /\ q.repo \in Repo /\ q.target \in Vis
    BY <1>0 DEF Good
  <2>3. Fades /\ Stands'
    BY <2>1, <2>2, SameFades, ChangeFades
  <2>4. request'[t].answer = "ok" => chosen'[q.reader][q.repo] = None
    BY <2>1, <2>2, ChangeFades
  <2>5. Fits(t)'
    BY <1>0, <2>1, <2>4 DEF Fits, Told
  <2>6. QED
    BY <1>0, <2>1, <2>3, <2>5, FadesKept
<1>3. CASE FlipDone(t)
  BY <1>3, FlipDoneChosen
<1>4. QED
  BY <1>1, <1>2, <1>3

\* Send, and what happens around the requests.
LEMMA OtherChosen ==
  ASSUME Inv, Inv', Chosen,
         \/ Around
         \/ \E t \in Tab : \E r \in Replica, x \in Whose[t] : \E p, kind, target :
              Send(t, r, x, p, kind, target)
  PROVE  Chosen'
<1>1. ASSUME NEW t \in Tab, NEW r \in Replica, NEW x \in Whose[t], NEW p, NEW kind, NEW target,
             Send(t, r, x, p, kind, target)
      PROVE  Chosen'
  <2>1. UNCHANGED <<vis, cache, chosen>> /\ \A u \in Tab : u # t => request'[u] = request[u]
    BY <1>1 DEF Send, Inv, TypeOK
  <2>2. request'[t].phase = "sent" /\ request'[t].reader = x
    BY <1>1 DEF Send, Idle, Inv, TypeOK
  <2>3. Fits(t)'
    BY <2>2 DEF Fits, Told
  <2>4. QED
    BY <2>1, <2>3, SameFades, FadesKept
<1>2. CASE Tick
  <2>1. UNCHANGED <<vis, chosen, request>> /\ \A s \in Replica : cache'[s] \subseteq cache[s]
    BY <1>2 DEF Tick
  <2>2. QED
    BY <2>1, SameFades, FadesKept
<1>3. ASSUME NEW p \in Repo, ChangeElsewhere(p) PROVE Chosen'
  <2>1. Other(vis[p]) \in Vis
    BY DEF Other, Vis
  <2>2. Fades /\ Stands'
    BY <1>3, <2>1, ChangeFades DEF ChangeElsewhere
  <2>3. QED
    BY <1>3, <2>2, FadesKept DEF ChangeElsewhere
<1>4. ASSUME NEW r \in Replica, Evict(r) PROVE Chosen'
  <2>1. \A s \in Replica : cache'[s] \subseteq cache[s]
    BY <1>4 DEF Evict, Inv, TypeOK
  <2>2. UNCHANGED <<vis, chosen, request>>
    BY <1>4 DEF Evict
  <2>3. QED
    BY <2>1, <2>2, SameFades, FadesKept
<1>5. ASSUME NEW x \in Reader, NEW p \in Repo, NEW new, ChangeRole(x, p, new)
      PROVE  Chosen'
  <2>1. UNCHANGED <<vis, chosen, request, cache>>
    BY <1>5 DEF ChangeRole
  <2>2. QED
    BY <2>1, SameFades, FadesKept
<1>6. QED
  BY <1>1, <1>2, <1>3, <1>4, <1>5 DEF Around

LEMMA StepChosen ==
  ASSUME Alone
  PROVE  Inv /\ Inv' /\ Chosen /\ [Next]_vars => Chosen'
<1> SUFFICES ASSUME Inv, Inv', Chosen, [Next]_vars PROVE Chosen'
  OBVIOUS
<1>1. CASE UNCHANGED vars
  BY <1>1 DEF vars, Chosen, Fits, Told, Stands, Agrees, Keyed
<1>2. CASE Next
  BY <1>2, OverviewChosen, FlipChosen, OtherChosen DEF Next, Unseen, Around
<1>3. QED
  BY <1>1, <1>2

\* What an overview tells its reader is what they chose, while that stands.
LEMMA OwnFlipStep ==
  ASSUME Inv, Chosen, [Next]_vars, NEW t \in Tab, Tells(t), page'.badge \in Vis,
         request[t].expects # None,
         chosen[request[t].reader][request[t].repo] = request[t].expects
  PROVE  page'.badge = request[t].expects
<1> DEFINE q == request[t]
<1>0. q \in Request /\ Good(q) /\ Told(q)
  BY DEF Inv, TypeOK, Chosen, Fits
<1>1. CASE OverviewUntold(t)
  BY <1>1 DEF OverviewUntold, Shows, None, Vis
<1>2. CASE OverviewHit(t)
  <2>1. PICK e \in Stored(q.at, q.reader, q.repo) : Shows(t, e.vis, e.can)
    BY <1>2 DEF OverviewHit
  <2>2. q.at \in Replica
    BY <1>0, <1>2 DEF Good, OverviewHit, At
  <2>3. Agrees(e) /\ e.key = <<q.reader, q.repo>>
    BY <2>1, <2>2 DEF Stored, Key, Chosen
  <2>4. page'.badge = e.vis
    BY <2>1 DEF Shows
  <2>5. QED
    BY <2>3, <2>4 DEF Agrees
<1>3. CASE OverviewShown(t)
  <2>1. page'.badge = q.answer /\ q.answer \in Vis
    BY <1>0, <1>3 DEF OverviewShown, Shows, Vis, None
  <2>2. QED
    BY <1>0, <1>3, <2>1 DEF Told, OverviewShown, At
<1>4. QED
  BY <1>1, <1>2, <1>3, TellsOnly

\* handleVisibilityPost: "the person who made the change sees it at once"
\* (SeesOwnFlip), where one replica answers and nobody has two requests in
\* flight.
THEOREM OwnFlipIsSeen ==
  ASSUME Alone
  PROVE  Spec => SeesOwnFlip
<1>1. Inv /\ Chosen /\ [Next]_vars =>
        [\A t \in Tab :
           /\ Tells(t)
           /\ page'.badge \in Vis
           /\ request[t].expects # None
           /\ chosen[request[t].reader][request[t].repo] = request[t].expects
           => page'.badge = request[t].expects]_vars
  BY OwnFlipStep
<1>2. Inv /\ Chosen /\ [Next]_vars => Chosen'
  BY StepChosen, StepInv
<1>3. QED
  BY <1>1, <1>2, InitInv, InitChosen, StepInv, PTL DEF Spec, SeesOwnFlip
=============================================================================
