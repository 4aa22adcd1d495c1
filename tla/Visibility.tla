----------------------------- MODULE Visibility -----------------------------
(***************************************************************************)
(* The public or private badge of the overview and the form that changes   *)
(* it (internal/web/page_visibility.go, visibilityOf in page_repo.go, and  *)
(* ReadVisibility and SetVisibility of internal/registry/client.go).       *)
(*                                                                         *)
(* The registry holds the fact, and what each person may do.  Each         *)
(* replica reuses an answer for TTL, keyed by the reader's subject and     *)
(* the repository, and a change made here is written through to the        *)
(* memory of the replica that made it.  A call to the registry takes       *)
(* time: the registry decides at one moment, the replica acts on the       *)
(* answer at a later one, and the steps of other requests fall between     *)
(* the two.                                                                *)
(***************************************************************************)
EXTENDS Naturals, FiniteSets

CONSTANTS
  Replica,   \* the processes a request may reach
  Reader,    \* the signed-in people
  Nameless,  \* those whose issuer minted no subject
  FirstVis,  \* per repository: what the registry holds at first
  FirstRole, \* per reader and repository: what they may do there at first
  Repo,      \* the repositories
  Tab,       \* the requests in flight
  Whose,     \* per tab: who may send from it
  TTL,       \* visibilityTTL
  Patience,  \* how long a request may be in flight
  MaxTime,   \* bound: the clock
  MaxChange  \* bound: changes made elsewhere, of a visibility or of a role

Vis == {"public", "private"}

\* What a role allows: nothing, to see the repository, or to change it too.
Right == {"see", "change"}
Role == {{}, {"see"}, {"see", "change"}}

ASSUME VisibilityAssumption ==
  /\ Nameless \subseteq Reader
  /\ FirstVis \in [Repo -> Vis]
  /\ FirstRole \in [Reader -> [Repo -> Role]]
  /\ Whose \in [Tab -> SUBSET Reader]
  /\ TTL \in Nat \ {0} /\ Patience \in Nat /\ MaxTime \in Nat /\ MaxChange \in Nat

Other(v) == IF v = "public" THEN "private" ELSE "public"

VARIABLES
  now,      \* the clock
  vis,      \* what the registry holds
  changes,  \* how many changes were made elsewhere
  cache,    \* per replica: the answers it may reuse
  request,  \* per tab: the request it has in flight
  page,     \* what the overview of the last step told, if it showed one
  held,     \* history: the last moment the registry held each value
  chosen,   \* history: per reader, what they chose here and nobody changed since
  role,     \* per reader and repository: what the registry lets them do
  had       \* history: the last moment the registry took each right away

vars == <<now, vis, changes, cache, request, page, held, chosen, role, had>>

None == "none"

Idle == [phase |-> "idle", kind |-> "overview", reader |-> None, repo |-> None,
         at |-> None, sentAt |-> 0, target |-> None, answer |-> None, can |-> FALSE,
         expects |-> None]

Blank == [badge |-> None, can |-> FALSE]

\* The clock starts where 0, the moment the histories start with, is too long
\* ago for an answer of then to be told.
Init ==
  /\ now = TTL + Patience
  /\ vis = FirstVis
  /\ changes = 0
  /\ cache = [r \in Replica |-> {}]
  /\ request = [t \in Tab |-> Idle]
  /\ page = Blank
  /\ held = [p \in Repo |-> [v \in Vis |-> 0]]
  /\ chosen = [x \in Reader |-> [p \in Repo |-> None]]
  /\ role = FirstRole
  /\ had = [x \in Reader |-> [p \in Repo |-> [a \in Right |-> 0]]]

----------------------------------------------------------------------------
(***************************************************************************)
(* The memory of a replica (a TTL cache) and its keys.                     *)
(***************************************************************************)

\* Mutants of Key: an account named by what it calls itself, which two may
\* share, and no account at all.
KeyByName(x, p) == <<"Sam", p>>
KeyBare(x, p) == p

\* visibilityKey: the subject and the repository.
Key(x, p) == <<x, p>>

\* visibilityKey: a reader with no subject has no key, and nothing about them
\* is stored or reused.
Keyed(x) == x \notin Nameless

\* Mutant of Fresh: an answer is reused for as long as there is room for it.
FreshAlways(e, m) == TRUE

\* At m an answer may be reused: TTL from when it was stored.
Fresh(e, m) == m < e.at + TTL

Stored(r, x, p) == {e \in cache[r] : e.key = Key(x, p) /\ Keyed(x)}

\* Set: one answer per key, the last one stored.
SetEntry(r, x, p, v, c) ==
  cache' = IF ~Keyed(x) THEN cache
           ELSE [cache EXCEPT ![r] =
                  {e \in @ : e.key # Key(x, p)}
                    \cup {[key |-> Key(x, p), vis |-> v, can |-> c, at |-> now]}]

----------------------------------------------------------------------------
(***************************************************************************)
(* The registry.                                                           *)
(***************************************************************************)

\* The registry holds v for p from now on.  A change of anybody's makes what
\* each reader chose before it no longer theirs to see.
Change(p, v) ==
  /\ vis' = [vis EXCEPT ![p] = v]
  /\ held' = [held EXCEPT ![p][vis[p]] = now]
  /\ chosen' = [x \in Reader |-> [chosen[x] EXCEPT ![p] = None]]

\* A change made somewhere else: another session, or the registry's own API.
ChangeElsewhere(p) ==
  /\ changes < MaxChange
  /\ changes' = changes + 1
  /\ Change(p, Other(vis[p]))
  /\ UNCHANGED <<now, cache, request, role, had>>

\* Somebody is given another role on a repository, or loses the one they held.
ChangeRole(x, p, new) ==
  /\ changes < MaxChange
  /\ changes' = changes + 1
  /\ role' = [role EXCEPT ![x][p] = new]
  /\ had' = [had EXCEPT ![x][p] =
               [a \in Right |-> IF a \in role[x][p] \ new THEN now ELSE @[a]]]
  /\ UNCHANGED <<now, vis, cache, request, held, chosen>>

\* Time passes while no request outlives Patience.  An answer is never reused
\* past its lifetime, and is gone as the clock passes it.
Tick ==
  /\ now < MaxTime
  /\ \A t \in Tab : request[t].phase # "idle" => now < request[t].sentAt + Patience
  /\ now' = now + 1
  /\ cache' = [r \in Replica |-> {e \in cache[r] : Fresh(e, now')}]
  /\ UNCHANGED <<vis, changes, request, held, chosen, role, had>>

\* A replica keeps so many answers and no more, and a deletion drops one of them:
\* any answer may go.
Evict(r) ==
  /\ \E e \in cache[r] : cache' = [cache EXCEPT ![r] = @ \ {e}]
  /\ UNCHANGED <<now, vis, changes, request, held, chosen, role, had>>

----------------------------------------------------------------------------
Send(t, r, x, p, kind, target) ==
  /\ request[t].phase = "idle"
  /\ request' = [request EXCEPT ![t] = [Idle EXCEPT
       !.phase = "sent", !.kind = kind, !.reader = x, !.repo = p, !.at = r,
       !.sentAt = now, !.target = target, !.expects = chosen[x][p]]]
  /\ UNCHANGED <<now, vis, changes, cache, held, chosen, role, had>>

\* The answer is back with the browser.
Ends(t) == request' = [request EXCEPT ![t] = Idle]

Shows(t, badge, can) == Ends(t) /\ page' = [badge |-> badge, can |-> can]

(***************************************************************************)
(* The overview: visibilityOf.                                             *)
(***************************************************************************)

At(t, kind, phase) == request[t].kind = kind /\ request[t].phase = phase

\* No token for the control plane: nothing is asked and nothing is told.
OverviewUntold(t) ==
  /\ At(t, "overview", "sent")
  /\ Shows(t, None, FALSE)
  /\ UNCHANGED <<now, vis, changes, cache, held, chosen, role, had>>

\* An answer this replica may reuse.
OverviewHit(t) ==
  LET q == request[t] IN
  /\ At(t, "overview", "sent")
  /\ \E e \in Stored(q.at, q.reader, q.repo) : Shows(t, e.vis, e.can)
  /\ UNCHANGED <<now, vis, changes, cache, held, chosen, role, had>>

\* None: the registry is asked.
OverviewMiss(t) ==
  LET q == request[t] IN
  /\ At(t, "overview", "sent")
  /\ Stored(q.at, q.reader, q.repo) = {}
  /\ request' = [request EXCEPT ![t].phase = "asking"]
  /\ UNCHANGED <<now, vis, changes, cache, held, chosen, role, had>>

\* The registry answers with what it holds now; to a person with no role it
\* answers as for a repository that is not there; or it does not answer.  The
\* role is the one held at that moment.
RegistryReads(t) ==
  LET q == request[t] IN
  /\ At(t, "overview", "asking")
  /\ \E a \in {"absent", "fault"} \cup {vis[q.repo]} :
       /\ a \in Vis <=> a # "fault" /\ "see" \in role[q.reader][q.repo]
       /\ request' = [request EXCEPT ![t].phase = "read", ![t].answer = a,
                        ![t].can = (a \in Vis /\ "change" \in role[q.reader][q.repo])]
  /\ UNCHANGED <<now, vis, changes, cache, held, chosen, role, had>>

\* Mutant of OverviewShown: a call that failed reads as private.
OverviewShownPrivate(t) ==
  LET q == request[t] IN
  /\ At(t, "overview", "read")
  /\ IF q.answer \in Vis
     THEN SetEntry(q.at, q.reader, q.repo, q.answer, q.can) /\ Shows(t, q.answer, q.can)
     ELSE cache' = cache /\ Shows(t, "private", FALSE)
  /\ UNCHANGED <<now, vis, changes, held, chosen, role, had>>

\* The answer comes back: it is stored and shown, says nothing, or is unknown.
OverviewShown(t) ==
  LET q == request[t] IN
  /\ At(t, "overview", "read")
  /\ IF q.answer \in Vis
     THEN SetEntry(q.at, q.reader, q.repo, q.answer, q.can) /\ Shows(t, q.answer, q.can)
     ELSE cache' = cache /\ Shows(t, IF q.answer = "absent" THEN None ELSE "unknown", FALSE)
  /\ UNCHANGED <<now, vis, changes, held, chosen, role, had>>

(***************************************************************************)
(* The visibility form: handleVisibilityPost.                              *)
(***************************************************************************)

\* Refused before the registry is asked: the form's token, the repository, the
\* token for the control plane, or the value.
FlipRefused(t) ==
  /\ At(t, "flip", "sent")
  /\ Ends(t)
  /\ UNCHANGED <<now, vis, changes, cache, held, chosen, role, had>>

\* The registry writes what somebody who may change it chose, and its answer
\* arrives or is lost; anybody else is refused.
RegistryWrites(t) ==
  LET q == request[t] IN
  /\ At(t, "flip", "sent")
  /\ IF "change" \in role[q.reader][q.repo]
     THEN /\ Change(q.repo, q.target)
          /\ \E a \in {"ok", "lost"} :
               request' = [request EXCEPT ![t].phase = "read", ![t].answer = a]
     ELSE /\ request' = [request EXCEPT ![t].phase = "read", ![t].answer = "lost"]
          /\ UNCHANGED <<vis, held, chosen>>
  /\ UNCHANGED <<now, changes, cache, role, had>>

Choice(t) ==
  LET q == request[t] IN
  chosen' = IF vis[q.repo] = q.target
            THEN [chosen EXCEPT ![q.reader][q.repo] = q.target] ELSE chosen

\* Mutant of FlipDone: the redirect without the write-through.
FlipDoneUnwritten(t) ==
  /\ At(t, "flip", "read")
  /\ request[t].answer = "ok"
  /\ Choice(t)
  /\ Ends(t)
  /\ UNCHANGED <<now, vis, changes, cache, held, role, had>>

\* The answer comes back: written through to this replica's memory, and on to
\* the overview.
FlipDone(t) ==
  LET q == request[t] IN
  /\ At(t, "flip", "read")
  /\ q.answer = "ok"
  /\ SetEntry(q.at, q.reader, q.repo, q.target, TRUE)
  /\ Choice(t)
  /\ Ends(t)
  /\ UNCHANGED <<now, vis, changes, held, role, had>>

\* visibilityFailed: no memory is touched.
FlipFailed(t) ==
  /\ At(t, "flip", "read")
  /\ request[t].answer = "lost"
  /\ Ends(t)
  /\ UNCHANGED <<now, vis, changes, cache, held, chosen, role, had>>

\* The steps that show no overview.
Unseen ==
  \/ Tick
  \/ \E p \in Repo :
       \/ ChangeElsewhere(p)
       \/ \E x \in Reader : \E new \in Role \ {role[x][p]} : ChangeRole(x, p, new)
  \/ \E r \in Replica : Evict(r)
  \/ \E t \in Tab :
       \/ \E r \in Replica, x \in Whose[t], p \in Repo :
            \/ Send(t, r, x, p, "overview", None)
            \/ \E v \in Vis : Send(t, r, x, p, "flip", v)
       \/ OverviewMiss(t) \/ RegistryReads(t)
       \/ FlipRefused(t) \/ RegistryWrites(t) \/ FlipDone(t) \/ FlipFailed(t)

Next ==
  \/ Unseen /\ page' = Blank
  \/ \E t \in Tab : OverviewUntold(t) \/ OverviewHit(t) \/ OverviewShown(t)

Spec == Init /\ [][Next]_vars

----------------------------------------------------------------------------
Entry == [key : Reader \X Repo, vis : Vis, can : BOOLEAN, at : Nat]

Request ==
  [phase : {"idle", "sent", "asking", "read"}, kind : {"overview", "flip"},
   reader : Reader \cup {None}, repo : Repo \cup {None}, at : Replica \cup {None},
   sentAt : Nat, target : Vis \cup {None}, expects : Vis \cup {None}, can : BOOLEAN,
   answer : Vis \cup {None, "absent", "fault", "ok", "lost"}]

Page == [badge : Vis \cup {None, "unknown"}, can : BOOLEAN]

TypeOK ==
  /\ now \in Nat /\ changes \in 0..MaxChange
  /\ vis \in [Repo -> Vis]
  /\ cache \in [Replica -> SUBSET Entry]
  /\ request \in [Tab -> Request]
  /\ page \in Page
  /\ held \in [Repo -> [Vis -> Nat]]
  /\ chosen \in [Reader -> [Repo -> Vis \cup {None}]]
  /\ role \in [Reader -> [Repo -> Role]]
  /\ had \in [Reader -> [Repo -> [Right -> Nat]]]

\* A page tells a badge in this step.
Tells(t) == /\ request[t].kind = "overview"
            /\ request[t].phase \in {"sent", "read"} /\ request'[t].phase = "idle"

\* The registry lets x do a to p, or took that away so short a time ago that an
\* answer from before may still be told: TTL and the time a request takes.
Recently(x, p, a) ==
  \/ a \in role[x][p]
  \/ now < had[x][p][a] + TTL + Patience

\* visibilityKey: "one reader's right to change it is never served to another",
\* and visibilityTTL: what a kept answer may go on saying is bounded.  An
\* overview tells a reader what the registry holds only if they themselves may
\* see it, and that they may change it only if they themselves may, now or
\* until so short a time ago.
OwnAnswer ==
  [][\A t \in Tab :
       LET Still(a) == Recently(request[t].reader, request[t].repo, a) IN
       Tells(t) => /\ page'.badge \in Vis => Still("see")
                   /\ page'.can => Still("change")]_vars

\* visibilityTTL and visibilityOf: a stale badge is "a stated bound rather than
\* an accidental one", and a failed call is never a wrong answer.  A badge that
\* is told was the registry's own answer no longer ago than TTL and the time a
\* request takes.
BadgeBounded ==
  [][\A t \in Tab :
       Tells(t) /\ page'.badge \in Vis =>
         \/ vis[request[t].repo] = page'.badge
         \/ now < held[request[t].repo][page'.badge] + TTL + Patience]_vars

\* handleVisibilityPost: "the person who made the change sees it at once".  An
\* overview asked for after the answer to the flip tells what was chosen, while
\* nobody has changed it again.
SeesOwnFlip ==
  [][\A t \in Tab :
       /\ Tells(t)
       /\ page'.badge \in Vis
       /\ request[t].expects # None
       /\ chosen[request[t].reader][request[t].repo] = request[t].expects
       => page'.badge = request[t].expects]_vars
=============================================================================
