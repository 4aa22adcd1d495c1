--------------------------- MODULE SessionProofs ---------------------------
(***************************************************************************)
(* Session, for every number of replicas, tabs, sign-ins and clock ticks:  *)
(* the types hold, and every copy of a session ends Window after its own   *)
(* sign-in.                                                                *)
(***************************************************************************)
EXTENDS Session, TLAPS

\* A refreshed session is a session of the same sign-in with the same end.
LEMMA RefreshedType ==
  ASSUME NEW c \in SessionSet, now \in Nat
  PROVE  /\ Refreshed(c) \in SessionSet
         /\ Refreshed(c).login = c.login
         /\ Refreshed(c).until = c.until
         /\ Refreshed(c).gen = c.gen + 1
BY SessionAssumption DEF SessionSet, Refreshed

\* A tab at rest is a request.
LEMMA IdleType == Idle \in Request
<1>1. AnyReplica \in Replica
  BY SessionAssumption DEF AnyReplica
<1>2. QED
  BY <1>1 DEF Idle, Request, Phase, Kind, Untouched

\* What a response may do to the cookie.
LEMMA ReplyType ==
  ASSUME NEW c \in SessionSet \cup {None}
  PROVE  /\ Writes(c) \in [sets : BOOLEAN, cookie : SessionSet \cup {None}]
         /\ Untouched \in [sets : BOOLEAN, cookie : SessionSet \cup {None}]
         /\ Deletes \in [sets : BOOLEAN, cookie : SessionSet \cup {None}]
BY DEF Writes, Untouched, Deletes

\* Advancing a request keeps it a request.
LEMMA AdvanceType ==
  ASSUME TypeOK, NEW t \in Tab, NEW phase \in Phase,
         NEW reader \in SessionSet \cup {None},
         NEW reply \in [sets : BOOLEAN, cookie : SessionSet \cup {None}],
         Advance(t, phase, reader, reply)
  PROVE  request' \in [Tab -> Request]
<1> DEFINE q == [request[t] EXCEPT !.phase = phase, !.reader = reader, !.reply = reply]
<1>1. request[t] \in Request
  BY DEF TypeOK
<1>2. q \in Request
  BY <1>1 DEF Request
<1>3. request' = [request EXCEPT ![t] = q]
  BY DEF Advance
<1>4. QED
  BY <1>2, <1>3 DEF TypeOK

----------------------------------------------------------------------------
\* What every step does to the ground the copies stand on: sign-ins are only
\* added, their times stay, and the issuer's refresh tokens only advance.
Progress == /\ logins <= logins'
            /\ \A l \in 1..logins : since'[l] = since[l]
            /\ \A l \in Login : live[l] <= live'[l]

\* A copy that was bounded stays bounded.
LEMMA BoundedKept ==
  ASSUME TypeOK, TypeOK', Progress, NEW c \in SessionSet \cup {None}, Bounded(c)
  PROVE  Bounded(c)'
<1> SUFFICES ASSUME c # None PROVE Bounded(c)'
  BY DEF Bounded
<1>1. c \in SessionSet /\ c.login \in Login /\ c.gen \in Nat
  BY DEF SessionSet
<1>2. live[c.login] \in Nat /\ live'[c.login] \in Nat /\ logins \in Nat /\ logins' \in Nat
  BY <1>1, SessionAssumption DEF TypeOK
<1>3. c.login \in 1..logins
  BY <1>1, <1>2, SessionAssumption DEF Bounded, Login
<1>4. c.login <= logins'
  BY <1>1, <1>2, SessionAssumption DEF Bounded, Progress, Login
<1>5. c.until = since'[c.login] + Window
  BY <1>3 DEF Bounded, Progress
<1>6. c.gen <= live'[c.login]
  BY <1>1, <1>2 DEF Bounded, Progress
<1>7. QED
  BY <1>4, <1>5, <1>6 DEF Bounded

\* What a request holds are sessions or nothing.
LEMMA HeldType ==
  ASSUME TypeOK, NEW t \in Tab
  PROVE  HeldBy(t) \subseteq SessionSet \cup {None}
BY DEF TypeOK, Request, HeldBy

\* Advancing a request with a bounded reader and a bounded answer leaves every
\* request with bounded copies only.
LEMMA AdvanceBounded ==
  ASSUME TypeOK, TypeOK', WindowHolds, Progress, NEW t \in Tab, NEW phase \in Phase,
         NEW reader \in SessionSet \cup {None},
         NEW reply \in [sets : BOOLEAN, cookie : SessionSet \cup {None}],
         Advance(t, phase, reader, reply),
         Bounded(reader)', Bounded(reply.cookie)'
  PROVE  \A u \in Tab : \A c \in HeldBy(u)' : Bounded(c)'
<1> SUFFICES ASSUME NEW u \in Tab, NEW c \in HeldBy(u)' PROVE Bounded(c)'
  OBVIOUS
<1>1. request[u] \in Request
  BY DEF TypeOK
<1>2. HeldBy(u)' \subseteq HeldBy(u) \cup {reader, reply.cookie}
  <2>1. CASE u = t
    BY <1>1, <2>1 DEF TypeOK, Advance, Request, HeldBy
  <2>2. CASE u # t
    BY <2>2 DEF TypeOK, Advance, HeldBy
  <2>3. QED
    BY <2>1, <2>2
<1>3. CASE c \in HeldBy(u)
  BY <1>3, HeldType, BoundedKept DEF WindowHolds
<1>4. CASE c \in {reader, reply.cookie}
  BY <1>4
<1>5. QED
  BY <1>2, <1>3, <1>4

\* Putting a tab to rest leaves every request with bounded copies only.
LEMMA RestBounded ==
  ASSUME TypeOK, TypeOK', WindowHolds, Progress, NEW t \in Tab,
         request' = [request EXCEPT ![t] = Idle]
  PROVE  \A u \in Tab : \A c \in HeldBy(u)' : Bounded(c)'
<1> SUFFICES ASSUME NEW u \in Tab, NEW c \in HeldBy(u)' PROVE Bounded(c)'
  OBVIOUS
<1>1. HeldBy(u)' \subseteq HeldBy(u) \cup {None}
  BY DEF TypeOK, HeldBy, Idle, Untouched
<1>2. CASE c \in HeldBy(u)
  BY <1>2, HeldType, BoundedKept DEF WindowHolds
<1>3. CASE c = None
  BY <1>3 DEF Bounded
<1>4. QED
  BY <1>1, <1>2, <1>3

----------------------------------------------------------------------------
Inv == TypeOK /\ WindowHolds

\* Nothing about the sign-ins changes: every copy stays as good as it was.
LEMMA StillProgress ==
  ASSUME TypeOK, UNCHANGED <<logins, since>>,
         \/ live' = live
         \/ \E l \in Login : live' = [live EXCEPT ![l] = live[l] + 1]
  PROVE  Progress
<1>1. logins \in Nat /\ \A l \in Login : live[l] \in Nat
  BY SessionAssumption DEF TypeOK
<1>2. \A l \in Login : live[l] <= live'[l]
  BY <1>1 DEF TypeOK
<1>3. QED
  BY <1>1, <1>2 DEF Progress

\* A request leaves with the cookie the jar holds: the copy it carries is as
\* good as that one.
LEMMA SendStep ==
  ASSUME Inv, NEW t \in Tab, NEW r \in Replica, NEW k \in Kind, Send(t, r, k)
  PROVE  Inv'
<1> DEFINE q == [phase |-> "sent", kind |-> k, at |-> r, sentAt |-> now,
                 carried |-> jar, reader |-> None, reply |-> Untouched]
<1>1. q \in Request
  BY ReplyType DEF Inv, TypeOK, Request, Phase
<1>2. TypeOK'
  BY <1>1 DEF Inv, TypeOK, Send
<1>3. Progress
  BY StillProgress DEF Inv, Send
<1>4. \A u \in Tab : \A c \in HeldBy(u)' : Bounded(c)'
  <2> SUFFICES ASSUME NEW u \in Tab, NEW c \in HeldBy(u)' PROVE Bounded(c)'
    OBVIOUS
  <2>1. HeldBy(u)' \subseteq HeldBy(u) \cup {jar, None}
    BY DEF Inv, TypeOK, Send, HeldBy, Untouched
  <2>2. c \in SessionSet \cup {None} /\ Bounded(c)
    BY <2>1, HeldType DEF Inv, TypeOK, WindowHolds, Bounded
  <2>3. QED
    BY <1>2, <1>3, <2>2, BoundedKept DEF Inv
<1>5. QED
  BY <1>2, <1>4 DEF Inv, WindowHolds, Bounded, Send

\* The browser's two ways to end a request.
LEMMA RestStep ==
  ASSUME Inv, NEW t \in Tab, Receive(t) \/ Lose(t)
  PROVE  Inv'
<1>1. request[t] \in Request
  BY DEF Inv, TypeOK
<1>2. jar' \in SessionSet \cup {None} /\ Bounded(jar')
  BY <1>1 DEF Inv, TypeOK, Request, WindowHolds, HeldBy, Receive, Lose
<1>3. TypeOK'
  BY <1>2, IdleType DEF Inv, TypeOK, Receive, Lose
<1>4. Progress
  BY StillProgress DEF Inv, Receive, Lose
<1>5. \A u \in Tab : \A c \in HeldBy(u)' : Bounded(c)'
  BY <1>3, <1>4, RestBounded DEF Inv, Receive, Lose
<1>6. QED
  BY <1>2, <1>3, <1>5 DEF Inv, WindowHolds, Bounded, Receive, Lose

\* Time takes copies out of the memories and makes none.
LEMMA TickStep ==
  ASSUME Inv, Tick
  PROVE  Inv'
<1>1. \A r \in Replica : memo'[r] \subseteq memo[r]
  BY DEF Tick, Held
<1>2. TypeOK'
  BY <1>1 DEF Inv, TypeOK, Tick
<1>3. \A u \in Tab : HeldBy(u)' = HeldBy(u)
  BY DEF Tick, HeldBy
<1>4. QED
  BY <1>1, <1>2, <1>3 DEF Inv, WindowHolds, Bounded, Tick

\* The issuer ending a sign-in touches no copy of its session.
LEMMA RevokeStep ==
  ASSUME Inv, NEW l \in Login, Revoke(l)
  PROVE  Inv'
BY DEF Inv, TypeOK, Revoke, WindowHolds, Bounded, HeldBy

\* A handler that advances a request with bounded copies, adds nothing but
\* bounded copies to the memories, and leaves the browser alone.
LEMMA HandlerStep ==
  ASSUME Inv, NEW t \in Tab, NEW phase \in Phase,
         NEW reader \in SessionSet \cup {None},
         NEW reply \in [sets : BOOLEAN, cookie : SessionSet \cup {None}],
         Advance(t, phase, reader, reply),
         UNCHANGED <<now, jar, ended>>,
         logins' \in 0..MaxLogin, since' \in [Login -> Nat], live' \in [Login -> Nat],
         memo' \in [Replica -> SUBSET SessionSet],
         Progress,
         \A r \in Replica : \A c \in memo'[r] : c \in memo[r] \/ Bounded(c)',
         Bounded(reader)', Bounded(reply.cookie)'
  PROVE  Inv'
<1>1. TypeOK'
  BY AdvanceType DEF Inv, TypeOK
<1>2. Bounded(jar)'
  <2>1. jar \in SessionSet \cup {None} /\ Bounded(jar)
    BY DEF Inv, TypeOK, WindowHolds
  <2>2. QED
    BY <1>1, <2>1, BoundedKept DEF Inv, Bounded
<1>3. ASSUME NEW r \in Replica, NEW c \in memo'[r] PROVE Bounded(c)'
  <2>1. CASE c \in memo[r]
    BY <1>1, <2>1, BoundedKept DEF Inv, TypeOK, WindowHolds
  <2>2. QED
    BY <2>1
<1>4. \A u \in Tab : \A c \in HeldBy(u)' : Bounded(c)'
  BY <1>1, AdvanceBounded DEF Inv
<1>5. QED
  BY <1>1, <1>2, <1>3, <1>4 DEF Inv, WindowHolds

\* The handler steps that leave sign-ins and memories alone: the reader and
\* the answer hold nothing, or a copy there was already.
LEMMA PlainStep ==
  ASSUME Inv, NEW t \in Tab, NEW phase \in Phase,
         NEW reader \in SessionSet \cup {None},
         NEW reply \in [sets : BOOLEAN, cookie : SessionSet \cup {None}],
         Advance(t, phase, reader, reply),
         UNCHANGED <<now, jar, logins, since, live, ended, memo>>,
         Bounded(reader), Bounded(reply.cookie)
  PROVE  Inv'
<1>1. Progress
  BY StillProgress DEF Inv
<1>2. Bounded(reader)' /\ Bounded(reply.cookie)'
  BY DEF Bounded
<1>3. QED
  BY <1>1, <1>2, HandlerStep DEF Inv, TypeOK

\* What a request holds, as the steps below use it.
LEMMA Carried ==
  ASSUME Inv, NEW t \in Tab
  PROVE  /\ request[t].carried \in SessionSet \cup {None} /\ Bounded(request[t].carried)
         /\ request[t].reader \in SessionSet \cup {None} /\ Bounded(request[t].reader)
         /\ request[t].reply \in [sets : BOOLEAN, cookie : SessionSet \cup {None}]
         /\ Bounded(request[t].reply.cookie)
         /\ request[t].at \in Replica
<1>1. request[t] \in Request
  BY DEF Inv, TypeOK
<1>2. \A c \in HeldBy(t) : Bounded(c)
  BY DEF Inv, WindowHolds
<1>3. QED
  BY <1>1, <1>2 DEF Request, HeldBy

\* No session at all is within bounds.
LEMMA NothingBounded == Bounded(None)
BY DEF Bounded

\* Whatever Load finds, what it serves and writes back is a copy the request
\* carried, one this replica remembered, or a refresh of the one carried.
LEMMA LoadStep ==
  ASSUME Inv, NEW t \in Tab, Load(t)
  PROVE  Inv'
<1> DEFINE r == request[t].at
           c == request[t].carried
<1>1. None \in SessionSet \cup {None} /\ "serve" \in Phase
  BY DEF Phase
<1>2. /\ Untouched \in [sets : BOOLEAN, cookie : SessionSet \cup {None}]
      /\ Deletes \in [sets : BOOLEAN, cookie : SessionSet \cup {None}]
      /\ Untouched.cookie = None /\ Deletes.cookie = None
  BY ReplyType DEF Untouched, Deletes, Writes
<1>3. CASE LoadNothing(t)
  BY <1>1, <1>2, <1>3, NothingBounded, PlainStep DEF LoadNothing
<1>4. CASE LoadElapsed(t)
  BY <1>1, <1>2, <1>4, NothingBounded, PlainStep DEF LoadElapsed
<1>5. CASE LoadFresh(t)
  BY <1>1, <1>2, <1>5, Carried, NothingBounded, PlainStep DEF LoadFresh
<1>6. CASE LoadRemembered(t)
  <2>1. PICK m \in Remembered(r, c) : Advance(t, "serve", m, Writes(m))
    BY <1>6 DEF LoadRemembered
  <2>2. m \in memo[r] /\ r \in Replica
    BY <2>1, Carried DEF Remembered
  <2>3. m \in SessionSet /\ Bounded(m)
    BY <2>2 DEF Inv, TypeOK, WindowHolds
  <2>4. /\ Writes(m) \in [sets : BOOLEAN, cookie : SessionSet \cup {None}]
        /\ Writes(m).cookie = m
    BY <2>3, ReplyType DEF Writes
  <2>5. UNCHANGED <<now, jar, logins, since, live, ended, memo>>
    BY <1>6 DEF LoadRemembered
  <2>6. QED
    BY <1>1, <2>1, <2>3, <2>4, <2>5, PlainStep
<1>7. CASE LoadRefreshed(t)
  <2>1. c \in SessionSet /\ c.login \in Login /\ c.gen \in Nat /\ Bounded(c) /\ r \in Replica
    BY <1>7, Carried DEF LoadRefreshed, Refreshing, SessionSet
  <2>2. PICK n \in SessionSet :
          n = Refreshed(c) /\ n.login = c.login /\ n.until = c.until /\ n.gen = c.gen + 1
    BY <2>1, RefreshedType DEF Inv, TypeOK
  <2>3. live' = [live EXCEPT ![c.login] = live[c.login] + 1]
    BY <1>7 DEF LoadRefreshed, Accepted
  <2>4. live' \in [Login -> Nat]
    BY <2>1, <2>3 DEF Inv, TypeOK
  <2>5. UNCHANGED <<now, jar, logins, since, ended>>
    BY <1>7 DEF LoadRefreshed
  <2>6. Progress
    BY <2>1, <2>3, <2>5, StillProgress DEF Inv
  <2>7. live'[c.login] = c.gen + 1
    BY <1>7, <2>1 DEF LoadRefreshed, Inv, TypeOK
  <2>8. Bounded(n)'
    <3>1. c # None /\ n.gen <= live'[n.login]
      BY <2>1, <2>2, <2>7, NoneAssumption
    <3>2. QED
      BY <2>1, <2>2, <2>5, <3>1 DEF Bounded
  <2>9. memo' = [memo EXCEPT ![r] = @ \cup {n}]
    BY <1>7, <2>2 DEF LoadRefreshed
  <2>10. /\ memo' \in [Replica -> SUBSET SessionSet]
         /\ \A s \in Replica : \A d \in memo'[s] : d \in memo[s] \/ Bounded(d)'
    BY <2>1, <2>2, <2>8, <2>9 DEF Inv, TypeOK
  <2>11. /\ Writes(n) \in [sets : BOOLEAN, cookie : SessionSet \cup {None}]
         /\ Writes(n).cookie = n
    BY <2>2, ReplyType DEF Writes
  <2>12. Advance(t, "serve", n, Writes(n))
    BY <1>7, <2>2 DEF LoadRefreshed
  <2>13. QED
    BY <1>1, <2>2, <2>4, <2>5, <2>6, <2>8, <2>10, <2>11, <2>12, HandlerStep
       DEF Inv, TypeOK
<1>8. CASE LoadRefused(t)
  BY <1>1, <1>2, <1>8, NothingBounded, PlainStep DEF LoadRefused
<1>9. CASE LoadFault(t)
  <2>1. c \in SessionSet /\ c.login \in Login
    BY <1>9, Carried DEF LoadFault, Refreshing, SessionSet
  <2>2. \/ live' = live
        \/ live' = [live EXCEPT ![c.login] = live[c.login] + 1]
    BY <1>9 DEF LoadFault, Accepted
  <2>3. live' \in [Login -> Nat]
    BY <2>1, <2>2 DEF Inv, TypeOK
  <2>4. UNCHANGED <<now, jar, logins, since, ended, memo>>
    BY <1>9 DEF LoadFault
  <2>5. Progress
    BY <2>1, <2>2, <2>4, StillProgress DEF Inv
  <2>6. Advance(t, "serve", None, Deletes)
    BY <1>9 DEF LoadFault
  <2>7. Bounded(None)'
    BY DEF Bounded
  <2>8. QED
    BY <1>1, <1>2, <2>3, <2>4, <2>5, <2>6, <2>7, HandlerStep DEF Inv, TypeOK
<1>10. QED
  BY <1>3, <1>4, <1>5, <1>6, <1>7, <1>8, <1>9 DEF Load

\* A screen answers with what Load left, or with a deletion.
LEMMA ServeStep ==
  ASSUME Inv, NEW t \in Tab, Serve(t)
  PROVE  Inv'
<1>1. PICK refused \in BOOLEAN :
        Advance(t, "answered", request[t].reader,
                IF refused THEN Deletes ELSE request[t].reply)
  BY DEF Serve
<1>2. PICK reply \in [sets : BOOLEAN, cookie : SessionSet \cup {None}] :
        /\ reply = IF refused THEN Deletes ELSE request[t].reply
        /\ Bounded(reply.cookie)
  <2>1. Deletes \in [sets : BOOLEAN, cookie : SessionSet \cup {None}] /\ Deletes.cookie = None
    BY ReplyType DEF Deletes, Writes
  <2>2. QED
    BY <2>1, Carried, NothingBounded
<1>3. UNCHANGED <<now, jar, logins, since, live, ended, memo>> /\ "answered" \in Phase
  BY DEF Serve, Phase
<1>4. QED
  BY <1>1, <1>2, <1>3, Carried, PlainStep

\* A new sign-in starts its own window and moves no other's.
LEMMA CallbackStep ==
  ASSUME Inv, NEW t \in Tab, Callback(t)
  PROVE  Inv'
<1> DEFINE n == [login |-> logins + 1, gen |-> 0, exp |-> now + TokenLife,
                 until |-> now + Window]
<1>1. "answered" \in Phase /\ None \in SessionSet \cup {None}
  BY DEF Phase
<1>2. UNCHANGED <<now, jar, live, ended, memo>>
  BY DEF Callback
<1>3. CASE /\ logins < MaxLogin
           /\ logins' = logins + 1
           /\ since' = [since EXCEPT ![logins + 1] = now]
           /\ Advance(t, "answered", None, Writes(n))
  <2>1. /\ logins \in Nat /\ now \in Nat
        /\ logins + 1 \in Login /\ logins' \in 0..MaxLogin
    BY <1>3, SessionAssumption DEF Inv, TypeOK, Login
  <2>2. /\ since' \in [Login -> Nat] /\ since'[logins + 1] = now
        /\ \A l \in 1..logins : since'[l] = since[l]
    BY <1>3, <2>1, SessionAssumption DEF Inv, TypeOK, Login
  <2>3. Progress
    BY <1>2, <1>3, <2>1, <2>2 DEF Progress, Inv, TypeOK
  <2>4. PICK m \in SessionSet : m = n
    <3>1. now + TokenLife \in Nat /\ now + Window \in Nat /\ 0 \in Nat
      BY <2>1, SessionAssumption
    <3>2. n \in SessionSet
      BY <2>1, <3>1 DEF SessionSet
    <3>3. QED
      BY <3>2
  <2>5. Bounded(m)'
    <3>1. live'[logins + 1] \in Nat
      BY <1>2, <2>1 DEF Inv, TypeOK
    <3>2. m.login <= logins' /\ m.until = since'[m.login] + Window /\ m.gen <= live'[m.login]
      BY <1>3, <2>1, <2>2, <2>4, <3>1
    <3>3. QED
      BY <3>2 DEF Bounded
  <2>6. /\ Writes(m) \in [sets : BOOLEAN, cookie : SessionSet \cup {None}]
        /\ Writes(m).cookie = m
    BY ReplyType DEF Writes
  <2>7. Bounded(None)'
    BY DEF Bounded
  <2>8. Advance(t, "answered", None, Writes(m))
    BY <1>3, <2>4
  <2>9. QED
    BY <1>1, <1>2, <2>1, <2>2, <2>3, <2>5, <2>6, <2>7, <2>8, HandlerStep DEF Inv, TypeOK
<1>4. CASE Advance(t, "answered", None, Untouched) /\ UNCHANGED <<logins, since>>
  <2>1. /\ Untouched \in [sets : BOOLEAN, cookie : SessionSet \cup {None}]
        /\ Untouched.cookie = None
    BY ReplyType DEF Untouched
  <2>2. QED
    BY <1>1, <1>2, <1>4, <2>1, NothingBounded, PlainStep
<1>5. QED
  BY <1>3, <1>4 DEF Callback

\* A sign-out answers with a deletion or leaves the cookie alone.
LEMMA SignOutStep ==
  ASSUME Inv, NEW t \in Tab, SignOut(t)
  PROVE  Inv'
<1>1. PICK valid \in BOOLEAN :
        Advance(t, "answered", None, IF valid THEN Deletes ELSE Untouched)
  BY DEF SignOut
<1>2. PICK reply \in [sets : BOOLEAN, cookie : SessionSet \cup {None}] :
        reply = (IF valid THEN Deletes ELSE Untouched) /\ reply.cookie = None
  BY ReplyType DEF Deletes, Untouched, Writes
<1>3. UNCHANGED <<now, jar, logins, since, live, ended, memo>> /\ "answered" \in Phase
  BY DEF SignOut, Phase
<1>4. QED
  BY <1>1, <1>2, <1>3, NothingBounded, PlainStep

\* Before any sign-in there is no copy of a session to be wrong about.
LEMMA InitInv == Init => Inv
<1> SUFFICES ASSUME Init PROVE Inv
  OBVIOUS
<1>1. TypeOK
  BY IdleType, SessionAssumption DEF Init, TypeOK
<1>2. WindowHolds
  BY DEF Init, WindowHolds, Bounded, HeldBy, Idle, Untouched
<1>3. QED
  BY <1>1, <1>2 DEF Inv

\* Every step of the browser, the issuer, the clock and the service keeps the
\* types and the bounds of every copy.
LEMMA StepInv == Inv /\ [Next]_vars => Inv'
<1> SUFFICES ASSUME Inv, [Next]_vars PROVE Inv'
  OBVIOUS
<1>1. CASE Tick
  BY <1>1, TickStep
<1>2. CASE \E l \in Login : Revoke(l)
  BY <1>2, RevokeStep
<1>3. ASSUME NEW t \in Tab, NEW r \in Replica, NEW k \in Kind, Send(t, r, k)
      PROVE  Inv'
  BY <1>3, SendStep
<1>4. ASSUME NEW t \in Tab, Load(t) PROVE Inv'
  BY <1>4, LoadStep
<1>5. ASSUME NEW t \in Tab, Serve(t) PROVE Inv'
  BY <1>5, ServeStep
<1>6. ASSUME NEW t \in Tab, Callback(t) PROVE Inv'
  BY <1>6, CallbackStep
<1>7. ASSUME NEW t \in Tab, SignOut(t) PROVE Inv'
  BY <1>7, SignOutStep
<1>8. ASSUME NEW t \in Tab, Receive(t) \/ Lose(t) PROVE Inv'
  BY <1>8, RestStep
<1>9. CASE UNCHANGED vars
  BY <1>9 DEF vars, Inv, TypeOK, WindowHolds, Bounded, HeldBy
<1>10. QED
  BY <1>1, <1>2, <1>3, <1>4, <1>5, <1>6, <1>7, <1>8, <1>9 DEF Next

----------------------------------------------------------------------------
\* Every state of the session machine is well typed.
THEOREM TypeCorrect == Spec => []TypeOK
<1>1. Inv => TypeOK
  BY DEF Inv
<1>2. QED
  BY <1>1, InitInv, StepInv, PTL DEF Spec

\* New and Load: no refresh, replica or order of answers moves the twelve hour
\* window of a session (WindowHolds), for every value of the constants.
THEOREM WindowCorrect == Spec => []WindowHolds
<1>1. Inv => WindowHolds
  BY DEF Inv
<1>2. QED
  BY <1>1, InitInv, StepInv, PTL DEF Spec

\* A request leaves "sent" for "serve" through Load alone, and Load accepts a
\* session only while its window is open.
LEMMA ServedStep ==
  ASSUME Inv, [Next]_vars, NEW t \in Tab,
         request'[t].phase = "serve", request[t].phase = "sent",
         request'[t].reader # None
  PROVE  now < since[request'[t].reader.login] + Window
<1> DEFINE c == request[t].carried
<1>0. request[t] \in Request
  BY DEF Inv, TypeOK
<1>1. ASSUME NEW u \in Tab, NEW phase, NEW reader, NEW reply, Advance(u, phase, reader, reply)
      PROVE  /\ u = t => phase = "serve" /\ reader = request'[t].reader
             /\ u = t
  BY <1>0, <1>1 DEF Inv, TypeOK, Advance, Request
<1>2. ASSUME NEW u \in Tab, Load(u)
      PROVE  /\ u = t /\ c # None /\ ~Elapsed(c)
             /\ request'[t].reader.login = c.login
  <2>1. \E reader, reply : Advance(u, "serve", reader, reply)
    BY <1>2 DEF Load, LoadNothing, LoadElapsed, LoadFresh, LoadRemembered,
                LoadRefreshed, LoadRefused, LoadFault
  <2>2. u = t
    BY <1>1, <2>1
  <2>3. ~LoadNothing(u) /\ ~LoadElapsed(u) /\ ~LoadRefused(u) /\ ~LoadFault(u)
    BY <1>1 DEF LoadNothing, LoadElapsed, LoadRefused, LoadFault
  <2>4. CASE LoadFresh(u)
    BY <1>1, <2>2, <2>4 DEF LoadFresh
  <2>5. CASE LoadRemembered(u)
    BY <1>1, <2>2, <2>5 DEF LoadRemembered, Remembered, Refreshing
  <2>6. CASE LoadRefreshed(u)
    BY <1>1, <2>2, <2>6 DEF LoadRefreshed, Refreshed, Refreshing
  <2>7. QED
    BY <1>2, <2>2, <2>3, <2>4, <2>5, <2>6 DEF Load
<1>3. CASE \E u \in Tab : Load(u)
  <2>1. c # None /\ ~Elapsed(c) /\ request'[t].reader.login = c.login
    BY <1>2, <1>3
  <2>2. c \in SessionSet /\ c.until = since[c.login] + Window /\ c.until \in Nat /\ now \in Nat
    BY <2>1, Carried DEF Bounded, SessionSet, Inv, TypeOK
  <2>3. QED
    BY <2>1, <2>2 DEF Elapsed
<1>4. ASSUME NEW u \in Tab, Serve(u) \/ Callback(u) \/ SignOut(u) PROVE FALSE
  <2>1. \E reader, reply : Advance(u, "answered", reader, reply)
    BY <1>4 DEF Serve, Callback, SignOut
  <2>2. QED
    BY <1>1, <2>1
<1>5. ASSUME NEW u \in Tab, \/ Receive(u) \/ Lose(u)
                           \/ \E r \in Replica, k \in Kind : Send(u, r, k)
      PROVE  FALSE
  BY <1>5 DEF Inv, TypeOK, Receive, Lose, Send, Idle
<1>6. CASE Tick \/ (\E l \in Login : Revoke(l)) \/ UNCHANGED vars
  BY <1>6 DEF Tick, Revoke, vars
<1>7. QED
  BY <1>3, <1>4, <1>5, <1>6 DEF Next

\* Load and Read: no screen ever acts for a person past the window of that
\* person's own sign-in (ServedInsideWindow).
THEOREM ServedCorrect == Spec => ServedInsideWindow
<1>1. Inv /\ [Next]_vars =>
        [\A t \in Tab :
           request'[t].phase = "serve" /\ request[t].phase = "sent"
             /\ request'[t].reader # None
           => now < since[request'[t].reader.login] + Window]_vars
  BY ServedStep
<1>2. QED
  BY <1>1, InitInv, StepInv, PTL DEF Spec, ServedInsideWindow

----------------------------------------------------------------------------
(***************************************************************************)
(* The half-dead cookie.  Load deletes the session it does not accept, and *)
(* the screen behind it takes no deletion back: this is what Receive finds *)
(* in the answer.                                                          *)
(***************************************************************************)

\* What a handler's last assignment leaves on the request it advances, and
\* that it touches no other.
LEMMA AdvanceEffect ==
  ASSUME TypeOK, NEW t \in Tab, NEW phase, NEW reader, NEW reply,
         Advance(t, phase, reader, reply)
  PROVE  /\ \A u \in Tab : u # t => request'[u] = request[u]
         /\ request'[t].phase = phase /\ request'[t].reader = reader
         /\ request'[t].reply = reply
         /\ request'[t].carried = request[t].carried
         /\ request'[t].kind = request[t].kind
         /\ request'[t].sentAt = request[t].sentAt
<1>1. request[t] \in Request
  BY DEF TypeOK
<1>2. QED
  BY <1>1 DEF TypeOK, Advance, Request

\* A page whose session Load did not accept answers with its deletion.
Refusal(t) ==
  /\ request[t].phase \in {"serve", "answered"}
  /\ request[t].kind = "page"
  /\ request[t].carried # None
  /\ request[t].reader = None
  => request[t].reply = Deletes

Refusing == \A t \in Tab : Refusal(t)

\* The handlers: each advances one request and leaves it such a page.
LEMMA RefusalStep ==
  ASSUME Inv, Refusing, NEW t \in Tab,
         Load(t) \/ Serve(t) \/ Callback(t) \/ SignOut(t)
  PROVE  Refusing'
<1>1. ASSUME NEW phase, NEW reader, NEW reply, Advance(t, phase, reader, reply),
             \/ request[t].carried = None \/ reader # None \/ reply = Deletes
             \/ request[t].kind # "page"
      PROVE  Refusing'
  BY <1>1, AdvanceEffect DEF Inv, Refusing, Refusal
<1>2. None \notin SessionSet
  BY NoneAssumption
<1>3. CASE Load(t)
  <2>1. CASE LoadNothing(t)
    BY <1>1, <2>1 DEF LoadNothing
  <2>2. CASE LoadElapsed(t)
    BY <1>1, <2>2 DEF LoadElapsed
  <2>3. CASE LoadFresh(t)
    BY <1>1, <2>3 DEF LoadFresh
  <2>4. CASE LoadRemembered(t)
    <3>1. PICK m \in Remembered(request[t].at, request[t].carried) :
            Advance(t, "serve", m, Writes(m))
      BY <2>4 DEF LoadRemembered
    <3>2. m \in SessionSet
      BY <3>1, Carried DEF Remembered, Inv, TypeOK
    <3>3. QED
      BY <1>1, <1>2, <3>1, <3>2
  <2>5. CASE LoadRefreshed(t)
    <3>1. Refreshed(request[t].carried) \in SessionSet
      BY <2>5, Carried, RefreshedType DEF LoadRefreshed, Refreshing, Inv, TypeOK
    <3>2. QED
      BY <1>1, <1>2, <2>5, <3>1 DEF LoadRefreshed
  <2>6. CASE LoadRefused(t)
    BY <1>1, <2>6 DEF LoadRefused
  <2>7. CASE LoadFault(t)
    BY <1>1, <2>7 DEF LoadFault
  <2>8. QED
    BY <1>3, <2>1, <2>2, <2>3, <2>4, <2>5, <2>6, <2>7 DEF Load
<1>4. CASE Serve(t)
  <2>1. PICK refused \in BOOLEAN :
          Advance(t, "answered", request[t].reader,
                  IF refused THEN Deletes ELSE request[t].reply)
    BY <1>4 DEF Serve
  <2>2. Refusal(t) /\ request[t].phase = "serve"
    BY <1>4 DEF Serve, Refusing
  <2>3. QED
    BY <1>1, <2>1, <2>2 DEF Refusal
<1>5. CASE Callback(t) \/ SignOut(t)
  <2>1. PICK reply : Advance(t, "answered", None, reply) /\ request[t].kind # "page"
    BY <1>5 DEF Callback, SignOut
  <2>2. QED
    BY <1>1, <2>1
<1>6. QED
  BY <1>3, <1>4, <1>5

LEMMA RefusingStep == Inv /\ Refusing /\ [Next]_vars => Refusing'
<1> SUFFICES ASSUME Inv, Refusing, [Next]_vars PROVE Refusing'
  OBVIOUS
<1>1. ASSUME NEW t \in Tab, Load(t) \/ Serve(t) \/ Callback(t) \/ SignOut(t)
      PROVE  Refusing'
  BY <1>1, RefusalStep
<1>2. ASSUME NEW t \in Tab, NEW r \in Replica, NEW k \in Kind, Send(t, r, k)
      PROVE  Refusing'
  BY <1>2 DEF Inv, TypeOK, Refusing, Refusal, Send
<1>3. ASSUME NEW t \in Tab, Receive(t) \/ Lose(t) PROVE Refusing'
  BY <1>3 DEF Inv, TypeOK, Refusing, Refusal, Receive, Lose, Idle
<1>4. CASE Tick \/ (\E l \in Login : Revoke(l)) \/ UNCHANGED vars
  BY <1>4 DEF Tick, Revoke, vars, Refusing, Refusal
<1>5. QED
  BY <1>1, <1>2, <1>3, <1>4 DEF Next

\* Load: "a caller ... cannot leave a half-dead cookie in place"
\* (DeadCookieGone): the answer to a page whose session was not accepted ends
\* the browser's copy of that session, whatever it received in between.
THEOREM DeadCookieEnds == Spec => DeadCookieGone
<1>1. Init => Refusing
  BY DEF Init, Refusing, Refusal, Idle
<1>2. Inv /\ Refusing /\ [Next]_vars =>
        [\A t \in Tab :
           /\ Receive(t)
           /\ request[t].kind = "page"
           /\ request[t].carried # None
           /\ request[t].reader = None
           => jar' # request[t].carried]_vars
  BY DEF Refusing, Refusal, Receive, Deletes, Writes
<1>3. QED
  BY <1>1, <1>2, InitInv, StepInv, RefusingStep, PTL DEF Spec, DeadCookieGone

----------------------------------------------------------------------------
(***************************************************************************)
(* The live session.  When one replica answers every request, no answer is *)
(* lost, a replica remembers a refresh for two Patiences, and an access    *)
(* token lives longer than Ahead and two Patiences, the issuer is never    *)
(* shown a refresh token it has rotated.  The argument is about the spent  *)
(* copies, those whose refresh token is rotated: whoever still carries one *)
(* was sent while the answer with its heir was on its way, so it arrives   *)
(* before the replica has forgotten the heir.                              *)
(***************************************************************************)

\* What the deployment is taken to be.
OneReplica == \A r, s \in Replica : r = s
Settled ==
  /\ OneReplica
  /\ ~Faults
  /\ 2 * Patience <= Hold
  /\ Ahead + 2 * Patience < TokenLife

Memory == UNION {memo[r] : r \in Replica}
Copies == ({jar} \cup Memory \cup UNION {HeldBy(t) : t \in Tab}) \ {None}

Spent(c)   == c.gen < live[c.login]
Heir(c, m) == m.login = c.login /\ m.gen = c.gen + 1
Writing(t) == request[t].phase \in {"serve", "answered"} /\ request[t].reply.sets

\* The tab t is about to overwrite the jar's spent copy, and the heir m is
\* no older than t's request.
JarHeir(m, t) ==
  Heir(jar, m) /\ Writing(t) /\ request[t].sentAt + TokenLife <= m.exp

\* The heir m of what t carries is at most a Patience older than t's request.
CarriedHeir(t, m) ==
  Heir(request[t].carried, m) /\ request[t].sentAt + TokenLife <= m.exp + Patience

\* A sign-in yet to come has had no refresh.
Unborn == \A l \in Login : l > logins => live[l] = 0

\* No request outlives Patience.
Prompt ==
  \A t \in Tab : request[t].phase # "idle" =>
    request[t].sentAt <= now /\ now <= request[t].sentAt + Patience

\* A token is spent only near its expiry, and expires but once.
Due   == \A c \in Copies : Spent(c) => c.exp <= now + Ahead
Twins == \A c, d \in Copies : c.login = d.login /\ c.gen = d.gen => c.exp = d.exp

\* An answer writes a session made no longer than a Patience before its request.
Recency(t) ==
  Writing(t) /\ request[t].reply.cookie # None =>
    request[t].sentAt + TokenLife <= request[t].reply.cookie.exp + Patience
Recently == \A t \in Tab : Recency(t)

\* A spent copy in the jar, or on a request Load has yet to read, has its heir
\* in memory.
JarFollowed == jar # None /\ Spent(jar) => \E m \in Memory, t \in Tab : JarHeir(m, t)
Followed(t) ==
  request[t].phase = "sent" /\ request[t].carried # None /\ Spent(request[t].carried) =>
    \E m \in Memory : CarriedHeir(t, m)
CarriedFollowed == \A t \in Tab : Followed(t)

Kept == Unborn /\ Prompt /\ Due /\ Twins /\ Recently /\ JarFollowed /\ CarriedFollowed

\* The sorts of what the arguments below count with.
LEMMA CopyFacts ==
  ASSUME Inv, NEW c \in Copies
  PROVE  /\ c \in SessionSet /\ c # None /\ c.login \in Login /\ c.login <= logins
         /\ c.gen \in Nat /\ c.exp \in Nat /\ c.gen <= live[c.login]
         /\ live[c.login] \in Nat
<1>1. c \in SessionSet \cup {None} /\ Bounded(c)
  <2>1. CASE c = jar
    BY <2>1 DEF Inv, TypeOK, WindowHolds
  <2>2. CASE c \in Memory
    BY <2>2 DEF Memory, Inv, TypeOK, WindowHolds
  <2>3. CASE \E t \in Tab : c \in HeldBy(t)
    BY <2>3, HeldType DEF Inv, WindowHolds
  <2>4. QED
    BY <2>1, <2>2, <2>3 DEF Copies
<1>2. c # None /\ c \in SessionSet
  BY <1>1 DEF Copies
<1>3. QED
  BY <1>1, <1>2 DEF SessionSet, Bounded, Inv, TypeOK

LEMMA Numbers ==
  ASSUME Inv
  PROVE  /\ now \in Nat /\ logins \in Nat
         /\ Patience \in Nat /\ Ahead \in Nat /\ Hold \in Nat /\ TokenLife \in Nat
         /\ \A t \in Tab : request[t].sentAt \in Nat
BY SessionAssumption DEF Inv, TypeOK, Request

\* Where a copy may be.
LEMMA CopyIs ==
  /\ jar # None => jar \in Copies
  /\ \A m \in Memory : m # None => m \in Copies
  /\ \A t \in Tab : /\ request[t].carried # None => request[t].carried \in Copies
                    /\ request[t].reader # None => request[t].reader \in Copies
                    /\ request[t].reply.cookie # None => request[t].reply.cookie \in Copies
BY DEF Copies, HeldBy

LEMMA MemoryIs == Inv => Memory \subseteq Copies
BY NoneAssumption DEF Inv, TypeOK, Memory, Copies

\* What the handlers' steps have in common: the copies there are afterwards.
LEMMA AdvanceCopies ==
  ASSUME TypeOK, NEW t \in Tab, NEW phase, NEW reader, NEW reply,
         Advance(t, phase, reader, reply), jar' = jar
  PROVE  Copies' \subseteq Copies \cup Memory' \cup ({reader, reply.cookie} \ {None})
<1>1. \A u \in Tab : HeldBy(u)' \subseteq HeldBy(u) \cup {reader, reply.cookie}
  BY AdvanceEffect DEF HeldBy
<1>2. QED
  BY <1>1 DEF Copies

\* A step that spends no token and makes no copy keeps what is said of copies.
LEMMA CopiesKept ==
  ASSUME Inv, Due, Twins, Copies' \subseteq Copies, live' = live, now' \in Nat, now <= now'
  PROVE  Due' /\ Twins'
<1>1. Twins'
  BY DEF Twins
<1>2. ASSUME NEW c \in Copies', Spent(c)' PROVE c.exp <= now' + Ahead
  <2>1. c \in Copies /\ Spent(c)
    BY <1>2 DEF Spent
  <2>2. c.exp <= now + Ahead
    BY <2>1 DEF Due
  <2>3. QED
    BY <2>1, <2>2, CopyFacts, Numbers
<1>3. QED
  BY <1>1, <1>2 DEF Due

\* (a) A handler that serves or answers with nothing, or with a copy there
\* already is.
LEMMA KeptQuiet ==
  ASSUME Inv, Kept, NEW t \in Tab, NEW phase \in {"serve", "answered"},
         NEW reader, NEW reply,
         Advance(t, phase, reader, reply),
         UNCHANGED <<now, jar, logins, since, live, ended, memo>>,
         request[t].phase # "idle",
         reader # None => reader \in Copies,
         reply.cookie # None => reply.cookie \in Copies,
         reply.sets /\ reply.cookie # None =>
           request[t].sentAt + TokenLife <= reply.cookie.exp + Patience,
         request[t].phase # "sent" => (request[t].reply.sets => reply.sets)
  PROVE  Kept'
<1>1. /\ \A u \in Tab : u # t => request'[u] = request[u]
      /\ request'[t].phase = phase /\ request'[t].reply = reply
      /\ request'[t].carried = request[t].carried
      /\ request'[t].sentAt = request[t].sentAt
  BY AdvanceEffect DEF Inv
<1>2. Memory' = Memory /\ Memory \subseteq Copies
  BY MemoryIs DEF Memory
<1>3. Copies' \subseteq Copies
  <2>1. Copies' \subseteq Copies \cup Memory' \cup ({reader, reply.cookie} \ {None})
    BY AdvanceCopies DEF Inv
  <2>2. QED
    BY <1>2, <2>1
<1>4. Unborn'
  BY DEF Kept, Unborn
<1>5. Prompt'
  BY <1>1 DEF Kept, Prompt
<1>6. Due' /\ Twins'
  BY <1>3, CopiesKept, Numbers DEF Kept
<1>7. Recently'
  BY <1>1 DEF Kept, Recently, Recency, Writing
<1>8. JarFollowed'
  <2> SUFFICES ASSUME jar # None, Spent(jar) PROVE \E m \in Memory, u \in Tab : JarHeir(m, u)'
    BY <1>2 DEF JarFollowed, Spent
  <2>1. PICK m \in Memory, u \in Tab : JarHeir(m, u)
    BY DEF Kept, JarFollowed
  <2>2. Writing(u)' /\ request'[u].sentAt = request[u].sentAt
    <3>1. CASE u = t
      BY <1>1, <2>1, <3>1 DEF JarHeir, Writing
    <3>2. CASE u # t
      BY <1>1, <2>1, <3>2 DEF JarHeir, Writing
    <3>3. QED
      BY <3>1, <3>2
  <2>3. JarHeir(m, u)'
    BY <2>1, <2>2 DEF JarHeir, Heir
  <2>4. QED
    BY <2>3
<1>9. CarriedFollowed'
  <2> SUFFICES ASSUME NEW u \in Tab PROVE Followed(u)'
    BY DEF CarriedFollowed
  <2>1. CASE u = t
    BY <1>1, <2>1 DEF Followed
  <2>2. CASE u # t
    <3>1. Followed(u) /\ request'[u] = request[u]
      BY <1>1, <2>2 DEF Kept, CarriedFollowed
    <3>2. QED
      BY <1>2, <3>1 DEF Followed, Spent, CarriedHeir, Heir
  <2>3. QED
    BY <2>1, <2>2
<1>10. QED
  BY <1>4, <1>5, <1>6, <1>7, <1>8, <1>9 DEF Kept

\* (b) The issuer rotates the token c carries: every other copy of it becomes
\* spent, and the answer just made is their heir.
LEMMA KeptRefreshed ==
  ASSUME Inv, Kept, NEW t \in Tab, LoadRefreshed(t)
  PROVE  Kept'
<1> DEFINE c == request[t].carried
           r == request[t].at
<1>1. c \in Copies /\ r \in Replica /\ request[t].phase = "sent"
  BY Carried, CopyIs DEF LoadRefreshed, Refreshing, Loading
<1>2. /\ c \in SessionSet /\ c.login \in Login /\ c.login <= logins
      /\ c.gen \in Nat /\ c.exp \in Nat
  BY <1>1, CopyFacts
<1>3. live[c.login] = c.gen /\ live' = [live EXCEPT ![c.login] = c.gen + 1]
      /\ c.exp <= now + Ahead
  BY DEF LoadRefreshed, Accepted, Refreshing, Expiring
<1>4. PICK n \in SessionSet :
        n = Refreshed(c) /\ n.login = c.login /\ n.gen = c.gen + 1 /\ n.exp = now + TokenLife
  BY <1>2, RefreshedType, Numbers DEF Refreshed
<1>5. n # None
  BY NoneAssumption
<1>6. /\ Advance(t, "serve", n, Writes(n))
      /\ UNCHANGED <<now, jar, logins, since, ended>>
      /\ memo' = [memo EXCEPT ![r] = @ \cup {n}]
  BY <1>4 DEF LoadRefreshed
<1>7. /\ \A u \in Tab : u # t => request'[u] = request[u]
      /\ request'[t].phase = "serve" /\ request'[t].reply = Writes(n)
      /\ request'[t].carried = c
      /\ request'[t].sentAt = request[t].sentAt
  BY <1>6, AdvanceEffect DEF Inv
<1>8. Memory' = Memory \cup {n}
  BY <1>1, <1>6 DEF Memory, Inv, TypeOK
<1>9. Copies' \subseteq Copies \cup {n}
  <2>1. Copies' \subseteq Copies \cup Memory' \cup ({n, Writes(n).cookie} \ {None})
    BY <1>6, AdvanceCopies DEF Inv
  <2>2. QED
    BY <1>8, <2>1, MemoryIs DEF Writes
<1>10. \A l \in Login : /\ live[l] \in Nat
                        /\ live'[l] = IF l = c.login THEN c.gen + 1 ELSE live[l]
  BY <1>2, <1>3 DEF Inv, TypeOK
<1>11. ~(n.gen < live'[n.login])
  BY <1>2, <1>4, <1>10
<1>12. ASSUME NEW d \in Copies, Spent(d)', ~Spent(d)
       PROVE  d.login = c.login /\ d.gen = c.gen
  <2>1. d.login \in Login /\ d.gen \in Nat /\ d.gen <= live[d.login] /\ live[d.login] \in Nat
    BY CopyFacts
  <2>2. d.gen = live[d.login]
    BY <1>12, <2>1 DEF Spent
  <2>3. d.gen < live'[d.login]
    BY <1>12 DEF Spent
  <2>4. d.login = c.login
    BY <1>10, <2>1, <2>2, <2>3
  <2>5. QED
    BY <1>3, <2>2, <2>4
<1>13. Unborn'
  <2> SUFFICES ASSUME NEW l \in Login, l > logins PROVE live'[l] = 0
    BY <1>6 DEF Unborn
  <2>1. l # c.login
    BY <1>2, Numbers DEF Login
  <2>2. QED
    BY <1>10, <2>1 DEF Kept, Unborn
<1>14. Prompt'
  BY <1>6, <1>7, <1>1 DEF Kept, Prompt
<1>15. Due'
  <2> SUFFICES ASSUME NEW d \in Copies', d.gen < live'[d.login] PROVE d.exp <= now + Ahead
    BY <1>6 DEF Due, Spent
  <2>1. d # n
    BY <1>11
  <2>2. d \in Copies /\ Spent(d)'
    BY <1>9, <2>1 DEF Spent
  <2>3. CASE Spent(d)
    BY <2>2, <2>3 DEF Kept, Due
  <2>4. CASE ~Spent(d)
    <3>1. d.login = c.login /\ d.gen = c.gen
      BY <1>12, <2>2, <2>4
    <3>2. d.exp = c.exp
      BY <1>1, <2>2, <3>1 DEF Kept, Twins
    <3>3. QED
      BY <1>3, <3>2
  <2>5. QED
    BY <2>3, <2>4
<1>16. Twins'
  <2>1. ASSUME NEW d \in Copies PROVE ~(d.login = n.login /\ d.gen = n.gen)
    <3>1. d.gen \in Nat /\ d.gen <= live[d.login]
      BY CopyFacts
    <3>2. QED
      BY <1>2, <1>3, <1>4, <3>1
  <2>2. QED
    BY <1>9, <2>1 DEF Kept, Twins
<1>17. Recently'
  <2>1. request'[t].reply.cookie = n /\ request[t].sentAt <= now
    BY <1>1, <1>7 DEF Writes, Kept, Prompt
  <2>2. request'[t].sentAt + TokenLife <= request'[t].reply.cookie.exp + Patience
    BY <1>4, <1>7, <2>1, Numbers
  <2>3. QED
    BY <1>7, <2>2 DEF Kept, Recently, Recency, Writing
<1>18. request[t].sentAt + TokenLife <= n.exp
  <2>1. request[t].sentAt <= now
    BY <1>1 DEF Kept, Prompt
  <2>2. QED
    BY <1>4, <2>1, Numbers
<1>19. JarFollowed'
  <2> SUFFICES ASSUME jar # None, Spent(jar)'
               PROVE \E m \in Memory', u \in Tab : JarHeir(m, u)'
    BY <1>6 DEF JarFollowed, Spent
  <2>0. jar' = jar /\ jar \in Copies
    BY <1>6, CopyIs
  <2>1. CASE Spent(jar)
    <3>1. PICK m \in Memory, u \in Tab : JarHeir(m, u)
      BY <2>1 DEF Kept, JarFollowed
    <3>2. u # t
      BY <1>1, <3>1 DEF JarHeir, Writing
    <3>3. JarHeir(m, u)'
      BY <1>7, <2>0, <3>1, <3>2 DEF JarHeir, Heir, Writing
    <3>4. QED
      BY <1>8, <3>3
  <2>2. CASE ~Spent(jar)
    <3>1. jar.login = c.login /\ jar.gen = c.gen
      BY <1>12, <2>0, <2>2 DEF Spent
    <3>2. Writing(t)'
      BY <1>7 DEF Writing, Writes
    <3>3. JarHeir(n, t)'
      BY <1>4, <1>7, <1>18, <2>0, <3>1, <3>2 DEF JarHeir, Heir
    <3>4. QED
      BY <1>8, <3>3
  <2>3. QED
    BY <2>1, <2>2
<1>20. CarriedFollowed'
  <2> SUFFICES ASSUME NEW u \in Tab PROVE Followed(u)'
    BY DEF CarriedFollowed
  <2>1. CASE u = t
    BY <1>7, <2>1 DEF Followed
  <2>2. CASE u # t
    <3> SUFFICES ASSUME request[u].phase = "sent", request[u].carried # None,
                        Spent(request[u].carried)'
                 PROVE  \E m \in Memory' : CarriedHeir(u, m)'
      BY <1>7, <2>2 DEF Followed, Spent
    <3>0. request'[u] = request[u] /\ request[u].carried \in Copies
      BY <1>7, <2>2, CopyIs
    <3>1. CASE Spent(request[u].carried)
      <4>1. PICK m \in Memory : CarriedHeir(u, m)
        BY <3>1 DEF Kept, CarriedFollowed, Followed
      <4>2. CarriedHeir(u, m)'
        BY <3>0, <4>1 DEF CarriedHeir, Heir
      <4>3. QED
        BY <1>8, <4>2
    <3>2. CASE ~Spent(request[u].carried)
      <4>1. request[u].carried.login = c.login /\ request[u].carried.gen = c.gen
        BY <1>12, <3>0, <3>2 DEF Spent
      <4>2. request[u].sentAt <= now
        BY DEF Kept, Prompt
      <4>3. request[u].sentAt + TokenLife <= n.exp + Patience
        BY <1>4, <4>2, Numbers
      <4>4. CarriedHeir(u, n)'
        BY <1>4, <3>0, <4>1, <4>3 DEF CarriedHeir, Heir
      <4>5. QED
        BY <1>8, <4>4
    <3>3. QED
      BY <3>1, <3>2
  <2>3. QED
    BY <2>1, <2>2
<1>21. QED
  BY <1>13, <1>14, <1>15, <1>16, <1>17, <1>19, <1>20 DEF Kept

\* (c) A new sign-in: no copy of its session was there before.
LEMMA KeptSignedIn ==
  ASSUME Inv, Inv', Kept, NEW t \in Tab, request[t].phase = "sent",
         NEW n \in SessionSet,
         n.login = logins + 1, n.gen = 0, n.exp = now + TokenLife,
         logins' = logins + 1,
         Advance(t, "answered", None, Writes(n)),
         UNCHANGED <<now, jar, live, ended, memo>>
  PROVE  Kept'
<1>1. /\ \A u \in Tab : u # t => request'[u] = request[u]
      /\ request'[t].phase = "answered" /\ request'[t].reply = Writes(n)
      /\ request'[t].carried = request[t].carried
      /\ request'[t].sentAt = request[t].sentAt
  BY AdvanceEffect DEF Inv
<1>2. Memory' = Memory /\ Memory \subseteq Copies
  BY MemoryIs DEF Memory
<1>3. Copies' \subseteq Copies \cup {n}
  <2>1. Copies' \subseteq Copies \cup Memory' \cup ({None, Writes(n).cookie} \ {None})
    BY AdvanceCopies DEF Inv
  <2>2. QED
    BY <1>2, <2>1 DEF Writes
<1>4. n.login \in Login /\ live[n.login] = 0
  <2>1. n.login \in Login
    BY DEF SessionSet
  <2>2. n.login > logins
    BY Numbers
  <2>3. QED
    BY <2>1, <2>2 DEF Kept, Unborn
<1>5. ASSUME NEW d \in Copies PROVE d.login # n.login
  <2>1. d.login <= logins /\ d.login \in Nat
    BY CopyFacts DEF Login
  <2>2. QED
    BY <2>1, Numbers
<1>6. Unborn'
  <2> SUFFICES ASSUME NEW l \in Login, l > logins + 1 PROVE live[l] = 0
    BY DEF Unborn
  <2>1. l > logins
    BY Numbers DEF Login
  <2>2. QED
    BY <2>1 DEF Kept, Unborn
<1>7. Prompt'
  BY <1>1 DEF Kept, Prompt
<1>8. Due'
  <2> SUFFICES ASSUME NEW d \in Copies', d.gen < live[d.login] PROVE d.exp <= now + Ahead
    BY DEF Due, Spent
  <2>1. d # n
    BY <1>4
  <2>2. QED
    BY <1>3, <2>1 DEF Kept, Due, Spent
<1>9. Twins'
  BY <1>3, <1>5 DEF Kept, Twins
<1>10. Recently'
  <2>1. request'[t].reply.cookie = n /\ request[t].sentAt <= now
    BY <1>1 DEF Writes, Kept, Prompt
  <2>2. request'[t].sentAt + TokenLife <= request'[t].reply.cookie.exp + Patience
    BY <1>1, <2>1, Numbers
  <2>3. QED
    BY <1>1, <2>2 DEF Kept, Recently, Recency, Writing
<1>11. JarFollowed'
  <2> SUFFICES ASSUME jar # None, Spent(jar) PROVE \E m \in Memory, u \in Tab : JarHeir(m, u)'
    BY <1>2 DEF JarFollowed, Spent
  <2>1. PICK m \in Memory, u \in Tab : JarHeir(m, u)
    BY DEF Kept, JarFollowed
  <2>2. u # t
    BY <2>1 DEF JarHeir, Writing
  <2>3. JarHeir(m, u)'
    BY <1>1, <2>1, <2>2 DEF JarHeir, Heir, Writing
  <2>4. QED
    BY <2>3
<1>12. CarriedFollowed'
  <2> SUFFICES ASSUME NEW u \in Tab PROVE Followed(u)'
    BY DEF CarriedFollowed
  <2>1. CASE u = t
    BY <1>1, <2>1 DEF Followed
  <2>2. CASE u # t
    <3>1. Followed(u) /\ request'[u] = request[u]
      BY <1>1, <2>2 DEF Kept, CarriedFollowed
    <3>2. QED
      BY <1>2, <3>1 DEF Followed, Spent, CarriedHeir, Heir
  <2>3. QED
    BY <2>1, <2>2
<1>13. QED
  BY <1>6, <1>7, <1>8, <1>9, <1>10, <1>11, <1>12 DEF Kept

\* (d) A request leaves with the jar's copy: if that is spent, the answer with
\* its heir is on its way, and its own request is at most a Patience old.
LEMMA KeptSend ==
  ASSUME Inv, Kept, NEW t \in Tab, NEW r \in Replica, NEW k \in Kind, Send(t, r, k)
  PROVE  Kept'
<1>1. /\ \A u \in Tab : u # t => request'[u] = request[u]
      /\ request'[t].phase = "sent" /\ request'[t].reply = Untouched
      /\ request'[t].carried = jar /\ request'[t].reader = None
      /\ request'[t].sentAt = now
      /\ request[t].phase = "idle"
  BY DEF Inv, TypeOK, Send
<1>2. UNCHANGED <<now, jar, logins, since, live, ended, memo>>
  BY DEF Send
<1>3. Memory' = Memory
  BY <1>2 DEF Memory
<1>4. Copies' \subseteq Copies
  <2>1. \A u \in Tab : HeldBy(u)' \subseteq HeldBy(u) \cup {jar, None}
    BY <1>1 DEF HeldBy, Untouched
  <2>2. QED
    BY <1>2, <1>3, <2>1 DEF Copies
<1>5. Unborn'
  BY <1>2 DEF Kept, Unborn
<1>6. Prompt'
  BY <1>1, <1>2, Numbers DEF Kept, Prompt
<1>7. Due' /\ Twins'
  BY <1>2, <1>4, CopiesKept, Numbers DEF Kept
<1>8. Recently'
  BY <1>1 DEF Kept, Recently, Recency, Writing
<1>9. JarFollowed'
  <2> SUFFICES ASSUME jar # None, Spent(jar) PROVE \E m \in Memory, u \in Tab : JarHeir(m, u)'
    BY <1>2, <1>3 DEF JarFollowed, Spent
  <2>1. PICK m \in Memory, u \in Tab : JarHeir(m, u)
    BY DEF Kept, JarFollowed
  <2>2. u # t
    BY <1>1, <2>1 DEF JarHeir, Writing
  <2>3. JarHeir(m, u)'
    BY <1>1, <1>2, <2>1, <2>2 DEF JarHeir, Heir, Writing
  <2>4. QED
    BY <2>3
<1>10. CarriedFollowed'
  <2> SUFFICES ASSUME NEW u \in Tab PROVE Followed(u)'
    BY DEF CarriedFollowed
  <2>1. CASE u = t
    <3> SUFFICES ASSUME jar # None, Spent(jar) PROVE \E m \in Memory : CarriedHeir(t, m)'
      BY <1>1, <1>2, <1>3, <2>1 DEF Followed, Spent
    <3>1. PICK m \in Memory, u2 \in Tab : JarHeir(m, u2)
      BY DEF Kept, JarFollowed
    <3>2. now <= request[u2].sentAt + Patience /\ request[u2].sentAt + TokenLife <= m.exp
      BY <3>1 DEF JarHeir, Writing, Kept, Prompt
    <3>3. m.exp \in Nat
      BY MemoryIs, CopyFacts
    <3>4. now + TokenLife <= m.exp + Patience
      BY <3>2, <3>3, Numbers
    <3>5. CarriedHeir(t, m)'
      BY <1>1, <3>1, <3>4 DEF CarriedHeir, JarHeir, Heir
    <3>6. QED
      BY <3>5
  <2>2. CASE u # t
    <3>1. Followed(u) /\ request'[u] = request[u]
      BY <1>1, <2>2 DEF Kept, CarriedFollowed
    <3>2. QED
      BY <1>2, <1>3, <3>1 DEF Followed, Spent, CarriedHeir, Heir
  <2>3. QED
    BY <2>1, <2>2
<1>11. QED
  BY <1>5, <1>6, <1>7, <1>8, <1>9, <1>10 DEF Kept

\* (e) The browser never writes a spent copy over the jar: its token would be
\* near its expiry, and the answer would be older than Patience.
LEMMA KeptReceive ==
  ASSUME Settled, Inv, Kept, NEW t \in Tab, Receive(t)
  PROVE  Kept'
<1>1. /\ \A u \in Tab : u # t => request'[u] = request[u]
      /\ request'[t] = Idle
      /\ request[t].phase = "answered"
  BY DEF Inv, TypeOK, Receive
<1>2. UNCHANGED <<now, logins, since, live, ended, memo>>
  BY DEF Receive
<1>3. Memory' = Memory
  BY <1>2 DEF Memory
<1>4. jar' = IF request[t].reply.sets THEN request[t].reply.cookie ELSE jar
  BY DEF Receive
<1>5. Copies' \subseteq Copies
  <2>1. \A u \in Tab : HeldBy(u)' \subseteq HeldBy(u) \cup {None}
    BY <1>1 DEF HeldBy, Idle, Untouched
  <2>2. jar' \in {jar, request[t].reply.cookie}
    BY <1>4
  <2>3. QED
    BY <1>3, <2>1, <2>2 DEF Copies, HeldBy
<1>6. Unborn'
  BY <1>2 DEF Kept, Unborn
<1>7. Prompt'
  BY <1>1, <1>2 DEF Kept, Prompt, Idle
<1>8. Due' /\ Twins'
  BY <1>2, <1>5, CopiesKept, Numbers DEF Kept
<1>9. Recently'
  BY <1>1 DEF Kept, Recently, Recency, Writing, Idle
<1>10. JarFollowed'
  <2> SUFFICES ASSUME jar' # None, Spent(jar')
               PROVE \E m \in Memory, u \in Tab : JarHeir(m, u)'
    BY <1>2, <1>3 DEF JarFollowed, Spent
  <2>1. CASE ~request[t].reply.sets
    <3>0. jar' = jar
      BY <1>4, <2>1
    <3>1. PICK m \in Memory, u \in Tab : JarHeir(m, u)
      BY <3>0 DEF Kept, JarFollowed
    <3>2. u # t
      BY <2>1, <3>1 DEF JarHeir, Writing
    <3>3. JarHeir(m, u)'
      BY <1>1, <3>0, <3>1, <3>2 DEF JarHeir, Heir, Writing
    <3>4. QED
      BY <3>3
  <2>2. CASE request[t].reply.sets
    <3> DEFINE w == request[t].reply.cookie
               s == request[t].sentAt
    <3>1. jar' = w /\ w \in Copies
      BY <1>4, <2>2, CopyIs
    <3>2. w.exp <= now + Ahead
      BY <3>1 DEF Kept, Due
    <3>3. s + TokenLife <= w.exp + Patience
      BY <1>1, <2>2, <3>1 DEF Kept, Recently, Recency, Writing
    <3>4. now <= s + Patience
      BY <1>1 DEF Kept, Prompt
    <3>5. w.exp \in Nat /\ s \in Nat
      BY <3>1, CopyFacts, Numbers
    <3>6. Ahead + 2 * Patience < TokenLife
      BY DEF Settled
    <3> HIDE DEF w, s
    <3>7. QED
      BY <3>2, <3>3, <3>4, <3>5, <3>6, Numbers
  <2>3. QED
    BY <2>1, <2>2
<1>11. CarriedFollowed'
  <2> SUFFICES ASSUME NEW u \in Tab PROVE Followed(u)'
    BY DEF CarriedFollowed
  <2>1. CASE u = t
    BY <1>1, <2>1 DEF Followed, Idle
  <2>2. CASE u # t
    <3>1. Followed(u) /\ request'[u] = request[u]
      BY <1>1, <2>2 DEF Kept, CarriedFollowed
    <3>2. QED
      BY <1>2, <1>3, <3>1 DEF Followed, Spent, CarriedHeir, Heir
  <2>3. QED
    BY <2>1, <2>2
<1>12. QED
  BY <1>6, <1>7, <1>8, <1>9, <1>10, <1>11 DEF Kept

\* (f) Time passes and the replica forgets, but never an heir somebody needs.
LEMMA KeptTick ==
  ASSUME Settled, Inv, Kept, Tick
  PROVE  Kept'
<1>1. /\ now' = now + 1 /\ now' \in Nat /\ now <= now'
      /\ UNCHANGED <<jar, logins, since, live, ended, request>>
      /\ memo' = [r \in Replica |-> Held(r, now + 1)]
      /\ \A t \in Tab : request[t].phase # "idle" => now < request[t].sentAt + Patience
  BY Numbers DEF Tick
<1>2. Copies' \subseteq Copies
  <2>1. Memory' \subseteq Memory
    BY <1>1 DEF Memory, Held
  <2>2. QED
    BY <1>1, <2>1 DEF Copies, HeldBy
<1>3. ASSUME NEW m \in Memory, NEW s \in Nat,
             now < s + Patience, s + TokenLife <= m.exp + Patience
      PROVE  m \in Memory'
  <2>1. PICK r \in Replica : m \in memo[r]
    BY DEF Memory
  <2>2. m.exp \in Nat
    BY MemoryIs, CopyFacts
  <2>3. 2 * Patience <= Hold
    BY DEF Settled
  <2>4. now + 1 <= (m.exp - TokenLife) + Hold
    BY <1>3, <2>2, <2>3, Numbers
  <2>5. m \in memo'[r]
    BY <1>1, <2>1, <2>4 DEF Held
  <2>6. QED
    BY <2>5 DEF Memory
<1>4. Unborn'
  BY <1>1 DEF Kept, Unborn
<1>5. Prompt'
  BY <1>1, Numbers DEF Kept, Prompt
<1>6. Due' /\ Twins'
  BY <1>1, <1>2, CopiesKept DEF Kept
<1>7. Recently'
  BY <1>1 DEF Kept, Recently, Recency, Writing
<1>8. JarFollowed'
  <2> SUFFICES ASSUME jar # None, Spent(jar)
               PROVE \E m \in Memory', t \in Tab : JarHeir(m, t)'
    BY <1>1 DEF JarFollowed, Spent
  <2>1. PICK m \in Memory, t \in Tab : JarHeir(m, t)
    BY DEF Kept, JarFollowed
  <2>2. request[t].sentAt + TokenLife <= m.exp /\ now < request[t].sentAt + Patience
    BY <1>1, <2>1 DEF JarHeir, Writing
  <2>3. m.exp \in Nat
    BY MemoryIs, CopyFacts
  <2>4. request[t].sentAt + TokenLife <= m.exp + Patience
    BY <2>2, <2>3, Numbers
  <2>5. m \in Memory'
    BY <1>3, <2>2, <2>4, Numbers
  <2>6. JarHeir(m, t)'
    BY <1>1, <2>1 DEF JarHeir, Heir, Writing
  <2>7. QED
    BY <2>5, <2>6
<1>9. CarriedFollowed'
  <2> SUFFICES ASSUME NEW t \in Tab, request[t].phase = "sent", request[t].carried # None,
                      Spent(request[t].carried)
               PROVE  \E m \in Memory' : CarriedHeir(t, m)'
    BY <1>1 DEF CarriedFollowed, Followed, Spent
  <2>1. PICK m \in Memory : CarriedHeir(t, m)
    BY DEF Kept, CarriedFollowed, Followed
  <2>2. m \in Memory'
    BY <1>1, <1>3, <2>1, Numbers DEF CarriedHeir
  <2>3. CarriedHeir(t, m)'
    BY <1>1, <2>1 DEF CarriedHeir, Heir
  <2>4. QED
    BY <2>2, <2>3
<1>10. QED
  BY <1>4, <1>5, <1>6, <1>7, <1>8, <1>9 DEF Kept

\* Who refreshes from memory is answered with a session made no longer than a
\* Patience before its request.
LEMMA RememberedRecent ==
  ASSUME Inv, Kept, NEW t \in Tab, Refreshing(t),
         NEW m \in Remembered(request[t].at, request[t].carried)
  PROVE  m \in Copies /\ request[t].sentAt + TokenLife <= m.exp + Patience
<1> DEFINE c == request[t].carried
<1>1. c \in Copies /\ request[t].phase = "sent" /\ c # None
  BY CopyIs DEF Refreshing, Loading
<1>2. m \in Memory /\ m.login = c.login /\ m.gen = c.gen + 1
  BY Carried DEF Remembered, Memory
<1>3. m \in Copies /\ m.gen <= live[m.login] /\ live[m.login] \in Nat /\ c.gen \in Nat
  BY <1>1, <1>2, MemoryIs, CopyFacts
<1>4. Spent(c)
  BY <1>2, <1>3 DEF Spent
<1>5. PICK h \in Memory : CarriedHeir(t, h)
  BY <1>1, <1>4 DEF Kept, CarriedFollowed, Followed
<1>6. h.exp = m.exp
  BY <1>2, <1>3, <1>5, MemoryIs DEF Kept, Twins, CarriedHeir, Heir
<1>7. QED
  BY <1>3, <1>5, <1>6 DEF CarriedHeir

\* Whatever Load finds.
LEMMA KeptLoad ==
  ASSUME Settled, Inv, Kept, NEW t \in Tab, Load(t)
  PROVE  Kept'
<1>1. request[t].phase = "sent"
  BY DEF Load, LoadNothing, LoadElapsed, LoadFresh, LoadRemembered, LoadRefreshed,
         LoadRefused, LoadFault, Refreshing, Loading
<1>2. /\ ~Untouched.sets /\ Untouched.cookie = None /\ Deletes.cookie = None
      /\ "serve" \in {"serve", "answered"} /\ request[t].phase # "idle"
  BY <1>1 DEF Untouched, Deletes, Writes
<1>3. CASE LoadNothing(t)
  BY <1>1, <1>2, <1>3, KeptQuiet DEF LoadNothing
<1>4. CASE LoadElapsed(t)
  BY <1>1, <1>2, <1>4, KeptQuiet DEF LoadElapsed
<1>5. CASE LoadFresh(t)
  BY <1>1, <1>2, <1>5, CopyIs, KeptQuiet DEF LoadFresh
<1>6. CASE LoadRemembered(t)
  <2>1. PICK m \in Remembered(request[t].at, request[t].carried) :
          Advance(t, "serve", m, Writes(m))
    BY <1>6 DEF LoadRemembered
  <2>2. m \in Copies /\ request[t].sentAt + TokenLife <= m.exp + Patience
    BY <1>6, <2>1, RememberedRecent DEF LoadRemembered
  <2>3. Writes(m).cookie = m
    BY DEF Writes
  <2>4. UNCHANGED <<now, jar, logins, since, live, ended, memo>>
    BY <1>6 DEF LoadRemembered
  <2>5. QED
    BY <1>1, <1>2, <2>1, <2>2, <2>3, <2>4, KeptQuiet
<1>7. CASE LoadRefreshed(t)
  BY <1>7, KeptRefreshed
<1>8. CASE LoadRefused(t)
  BY <1>1, <1>2, <1>8, KeptQuiet DEF LoadRefused
<1>9. CASE LoadFault(t)
  BY <1>9 DEF LoadFault, Settled
<1>10. QED
  BY <1>3, <1>4, <1>5, <1>6, <1>7, <1>8, <1>9 DEF Load

\* A screen answers with what Load left, or with a deletion.
LEMMA KeptServe ==
  ASSUME Inv, Kept, NEW t \in Tab, Serve(t)
  PROVE  Kept'
<1>1. PICK refused \in BOOLEAN :
        Advance(t, "answered", request[t].reader,
                IF refused THEN Deletes ELSE request[t].reply)
  BY DEF Serve
<1>2. PICK reply : reply = IF refused THEN Deletes ELSE request[t].reply
  OBVIOUS
<1>4. reply.cookie # None =>
        reply.cookie = request[t].reply.cookie /\ reply.sets = request[t].reply.sets
  BY <1>2 DEF Deletes, Writes
<1>5. request[t].reply.sets => reply.sets
  BY <1>2 DEF Deletes, Writes
<1>3. /\ UNCHANGED <<now, jar, logins, since, live, ended, memo>>
      /\ request[t].phase = "serve" /\ request[t].phase # "idle"
  BY DEF Serve
<1>6. reply.cookie # None => reply.cookie \in Copies
  BY <1>4, CopyIs
<1>7. request[t].reader # None => request[t].reader \in Copies
  BY CopyIs
<1>8. reply.sets /\ reply.cookie # None =>
        request[t].sentAt + TokenLife <= reply.cookie.exp + Patience
  BY <1>3, <1>4 DEF Kept, Recently, Recency, Writing
<1>9. Advance(t, "answered", request[t].reader, reply)
  BY <1>1, <1>2
<1>10. QED
  BY <1>3, <1>5, <1>6, <1>7, <1>8, <1>9, KeptQuiet

\* A sign-in, or a failed one.
LEMMA KeptCallback ==
  ASSUME Inv, Inv', Kept, NEW t \in Tab, Callback(t)
  PROVE  Kept'
<1> DEFINE new == [login |-> logins + 1, gen |-> 0, exp |-> now + TokenLife,
                   until |-> now + Window]
<1>1. UNCHANGED <<now, jar, live, ended, memo>> /\ request[t].phase = "sent"
  BY DEF Callback
<1>2. CASE /\ logins < MaxLogin
           /\ logins' = logins + 1
           /\ since' = [since EXCEPT ![logins + 1] = now]
           /\ Advance(t, "answered", None, Writes(new))
  <2>1. PICK n \in SessionSet : n = new
    <3>1. logins + 1 \in Login /\ now + TokenLife \in Nat /\ now + Window \in Nat
      BY <1>2, Numbers, SessionAssumption DEF Login
    <3>2. QED
      BY <3>1 DEF SessionSet
  <2>2. n.login = logins + 1 /\ n.gen = 0 /\ n.exp = now + TokenLife
    BY <2>1
  <2>3. Advance(t, "answered", None, Writes(n))
    BY <1>2, <2>1
  <2>4. logins' = logins + 1
    BY <1>2
  <2>5. QED
    BY <1>1, <2>2, <2>3, <2>4, KeptSignedIn
<1>3. CASE Advance(t, "answered", None, Untouched) /\ UNCHANGED <<logins, since>>
  <2>1. ~Untouched.sets /\ Untouched.cookie = None
    BY DEF Untouched
  <2>2. QED
    BY <1>1, <1>3, <2>1, KeptQuiet
<1>4. QED
  BY <1>2, <1>3 DEF Callback

\* A sign-out answers with a deletion or leaves the cookie alone.
LEMMA KeptSignOut ==
  ASSUME Inv, Kept, NEW t \in Tab, SignOut(t)
  PROVE  Kept'
<1>1. PICK valid \in BOOLEAN :
        Advance(t, "answered", None, IF valid THEN Deletes ELSE Untouched)
  BY DEF SignOut
<1>2. PICK reply : reply = IF valid THEN Deletes ELSE Untouched
  OBVIOUS
<1>3. UNCHANGED <<now, jar, logins, since, live, ended, memo>> /\ request[t].phase = "sent"
  BY DEF SignOut
<1>4. reply.cookie = None
  BY <1>2 DEF Deletes, Untouched, Writes
<1>5. QED
  BY <1>1, <1>2, <1>3, <1>4, KeptQuiet

LEMMA KeptStep ==
  ASSUME Settled
  PROVE  Inv /\ Inv' /\ Kept /\ [Next]_vars => Kept'
<1> SUFFICES ASSUME Inv, Inv', Kept, [Next]_vars PROVE Kept'
  OBVIOUS
<1>1. CASE Tick
  BY <1>1, KeptTick
<1>2. ASSUME NEW t \in Tab, NEW r \in Replica, NEW k \in Kind, Send(t, r, k)
      PROVE  Kept'
  BY <1>2, KeptSend
<1>3. ASSUME NEW t \in Tab, Load(t) PROVE Kept'
  BY <1>3, KeptLoad
<1>4. ASSUME NEW t \in Tab, Serve(t) PROVE Kept'
  BY <1>4, KeptServe
<1>5. ASSUME NEW t \in Tab, Callback(t) PROVE Kept'
  BY <1>5, KeptCallback
<1>6. ASSUME NEW t \in Tab, SignOut(t) PROVE Kept'
  BY <1>6, KeptSignOut
<1>7. ASSUME NEW t \in Tab, Receive(t) PROVE Kept'
  BY <1>7, KeptReceive
<1>8. ASSUME NEW t \in Tab, Lose(t) PROVE Kept'
  BY <1>8 DEF Lose, Settled
<1>9. CASE (\E l \in Login : Revoke(l)) \/ UNCHANGED vars
  <2>1. UNCHANGED <<now, jar, logins, since, live, memo, request>>
    BY <1>9 DEF Revoke, vars
  <2>2. Copies' = Copies /\ Memory' = Memory
    BY <2>1 DEF Copies, Memory, HeldBy
  <2>3. /\ Unborn' /\ Prompt' /\ Due' /\ Twins' /\ Recently'
    BY <2>1, <2>2 DEF Kept, Unborn, Prompt, Due, Twins, Recently, Recency, Writing, Spent
  <2>4. JarFollowed' /\ CarriedFollowed'
    BY <2>1, <2>2 DEF Kept, JarFollowed, CarriedFollowed, Followed, JarHeir,
                      CarriedHeir, Heir, Writing, Spent
  <2>5. QED
    BY <2>3, <2>4 DEF Kept
<1>10. QED
  BY <1>1, <1>2, <1>3, <1>4, <1>5, <1>6, <1>7, <1>8, <1>9 DEF Next

\* Nobody has signed in: there is no copy to be spent.
LEMMA KeptInit == Init => Kept
<1> SUFFICES ASSUME Init PROVE Kept
  OBVIOUS
<1>1. /\ \A t \in Tab : request[t] = Idle
      /\ jar = None /\ live = [l \in Login |-> 0] /\ memo = [r \in Replica |-> {}]
  BY DEF Init
<1>2. Copies = {}
  BY <1>1 DEF Copies, Memory, HeldBy, Idle, Untouched
<1>3. Unborn /\ Prompt /\ Recently /\ JarFollowed /\ CarriedFollowed
  BY <1>1 DEF Unborn, Prompt, Recently, Recency, Writing, JarFollowed,
              CarriedFollowed, Followed, Idle
<1>4. QED
  BY <1>2, <1>3 DEF Kept, Due, Twins

\* A refusal of a live sign-in would be of a spent copy whose heir the one
\* replica has forgotten, and it has not.
LEMMA RefusedEnded ==
  ASSUME Settled, Inv, Kept, NEW t \in Tab, LoadRefused(t)
  PROVE  request[t].carried.login \in ended
<1> DEFINE c == request[t].carried
           r == request[t].at
<1> SUFFICES ASSUME c.login \notin ended PROVE FALSE
  OBVIOUS
<1>1. c \in Copies /\ c # None /\ request[t].phase = "sent" /\ r \in Replica
  BY Carried, CopyIs DEF LoadRefused, Refreshing, Loading
<1>2. c.gen \in Nat /\ c.gen <= live[c.login] /\ live[c.login] \in Nat
  BY <1>1, CopyFacts
<1>3. live[c.login] # c.gen
  BY DEF LoadRefused, Accepted
<1>4. Spent(c)
  BY <1>2, <1>3 DEF Spent
<1>5. PICK m \in Memory : CarriedHeir(t, m)
  BY <1>1, <1>4 DEF Kept, CarriedFollowed, Followed
<1>6. PICK s \in Replica : m \in memo[s]
  BY DEF Memory
<1>7. m \in memo[r]
  BY <1>1, <1>6 DEF Settled, OneReplica
<1>8. m \in Remembered(r, c)
  BY <1>5, <1>7 DEF Remembered, CarriedHeir, Heir
<1>9. QED
  BY <1>8 DEF LoadRefused

\* Read: refusing a rotated token must not end "a session that was alive"
\* (LiveSessionKept), wherever the deployment is Settled.
THEOREM LiveSessionCorrect ==
  ASSUME Settled
  PROVE  Spec => LiveSessionKept
<1>1. Inv /\ Kept /\ [Next]_vars =>
        [\A t \in Tab : LoadRefused(t) => request[t].carried.login \in ended]_vars
  BY RefusedEnded
<1>2. Inv /\ Kept /\ [Next]_vars => Kept'
  BY KeptStep, StepInv
<1>3. QED
  BY <1>1, <1>2, InitInv, KeptInit, StepInv, PTL DEF Spec, LiveSessionKept
=============================================================================
