------------------------------ MODULE Session ------------------------------
(***************************************************************************)
(* The signed-in session of one browser, served by any of several replicas *)
(* (internal/session/session.go, begin and the sign-out handlers of        *)
(* internal/web/page_auth.go).                                             *)
(*                                                                         *)
(* The service keeps nothing: the session is the encrypted cookie in the   *)
(* browser, and every request carries the one the jar held when it was     *)
(* sent.  Two requests of two tabs can therefore carry the same session,   *)
(* reach two replicas, and have their answers applied in either order.     *)
(* The issuer rotates the refresh token on each use and refuses one it has *)
(* rotated already.  The relying-party library answers a refresh token it  *)
(* spent moments ago with the outcome of that refresh; that memory is a    *)
(* replica's own (memo).                                                   *)
(***************************************************************************)
EXTENDS Naturals, FiniteSets

CONSTANTS
  Replica,    \* the processes a request may reach
  Tab,        \* the requests one browser may have in flight
  None,       \* no cookie, no session
  Window,     \* session.Lifetime: how long a session lives from sign-in
  TokenLife,  \* how long an access token of the issuer lives
  Ahead,      \* how close to its expiry an access token is refreshed
  Hold,       \* how long a replica remembers the outcome of a refresh
  Patience,   \* how long a request may be in flight
  MaxLogin,   \* bound: sign-ins
  MaxTime,    \* bound: the clock
  Faults      \* answers may be lost, the issuer's and those to the browser

ASSUME SessionAssumption ==
  /\ Replica # {}
  /\ Window \in Nat /\ TokenLife \in Nat /\ Ahead \in Nat /\ Hold \in Nat
  /\ Patience \in Nat /\ MaxLogin \in Nat /\ MaxTime \in Nat
  /\ Faults \in BOOLEAN

Login == 1..MaxLogin

\* What the cookie holds: whose sign-in it is, which of that sign-in's
\* refresh tokens it carries, when the access token expires, and when the
\* session ends (oidc.Session: RefreshToken, Expiry, SessionExpiry).
SessionSet == [login : Login, gen : Nat, exp : Nat, until : Nat]

ASSUME NoneAssumption == None \notin SessionSet

AnyReplica == CHOOSE r \in Replica : TRUE

Kind == {"page", "callback", "signout", "notify"}
Phase == {"idle", "sent", "serve", "answered"}

VARIABLES
  now,      \* the clock
  jar,      \* the session cookie the browser holds, or None
  logins,   \* how many sign-ins the issuer has completed
  since,    \* when each sign-in completed
  live,     \* the one refresh token of each sign-in the issuer accepts
  ended,    \* the sign-ins the issuer itself has ended
  memo,     \* per replica: the sessions its recent refreshes produced
  request   \* per tab: the request it has in flight

vars == <<now, jar, logins, since, live, ended, memo, request>>

\* A response either leaves the session cookie alone or carries one
\* Set-Cookie for it that the browser keeps: a session, or None for a
\* deletion.  Several lines for one cookie are the last one.
Untouched == [sets |-> FALSE, cookie |-> None]
Writes(c) == [sets |-> TRUE, cookie |-> c]
Deletes   == Writes(None)

Request == [phase : Phase, kind : Kind, at : Replica, sentAt : Nat,
            carried : SessionSet \cup {None}, reader : SessionSet \cup {None},
            reply : [sets : BOOLEAN, cookie : SessionSet \cup {None}]]

\* A tab with no request in flight.
Idle == [phase |-> "idle", kind |-> "page", at |-> AnyReplica, sentAt |-> 0,
         carried |-> None, reader |-> None, reply |-> Untouched]

Init ==
  /\ now = 0
  /\ jar = None
  /\ logins = 0
  /\ since = [l \in Login |-> 0]
  /\ live = [l \in Login |-> 0]
  /\ ended = {}
  /\ memo = [r \in Replica |-> {}]
  /\ request = [t \in Tab |-> Idle]

----------------------------------------------------------------------------
(***************************************************************************)
(* The library's reading of a session, as Load depends on it.              *)
(***************************************************************************)

\* Mutant of Elapsed: the window closes one instant late.
ElapsedLate(c) == c.until < now

\* The session window has closed.
Elapsed(c) == c.until <= now

\* The access token is within Ahead of its expiry.
Expiring(c) == c.exp <= now + Ahead

\* Mutants of Refreshed: a refresh that moves the window, and one that keeps no
\* refresh token.
RefreshedSliding(c) ==
  [c EXCEPT !.gen = c.gen + 1, !.exp = now + TokenLife, !.until = now + Window]
RefreshedBare(c) == [c EXCEPT !.gen = None, !.exp = now + TokenLife]

\* What a refresh of c makes: a new access token and refresh token in the
\* same session, whose end does not move.
Refreshed(c) ==
  [login |-> c.login, gen |-> c.gen + 1, exp |-> now + TokenLife, until |-> c.until]

\* The outcome this replica remembers for the refresh token c carries.
Remembered(r, c) == {m \in memo[r] : m.login = c.login /\ m.gen = c.gen + 1}

\* The issuer refreshes the session whose newest refresh token is presented,
\* unless it has ended that sign-in itself.
Accepted(c) == live[c.login] = c.gen /\ c.login \notin ended

\* What memo[r] still holds once the clock has moved to t.
Held(r, t) == {m \in memo[r] : t <= (m.exp - TokenLife) + Hold}

----------------------------------------------------------------------------
(***************************************************************************)
(* The browser and the clock.                                              *)
(***************************************************************************)

\* A tab sends a request with the cookie the jar holds now; the balancer
\* picks the replica.
Send(t, r, k) ==
  /\ request[t].phase = "idle"
  /\ k = "callback" => logins < MaxLogin
  /\ request' = [request EXCEPT ![t] =
       [phase |-> "sent", kind |-> k, at |-> r, sentAt |-> now,
        carried |-> jar, reader |-> None, reply |-> Untouched]]
  /\ UNCHANGED <<now, jar, logins, since, live, ended, memo>>

\* The browser applies the Set-Cookie of an answer, whatever it holds by now.
Receive(t) ==
  /\ request[t].phase = "answered"
  /\ jar' = IF request[t].reply.sets THEN request[t].reply.cookie ELSE jar
  /\ request' = [request EXCEPT ![t] = Idle]
  /\ UNCHANGED <<now, logins, since, live, ended, memo>>

\* The tab is closed or the connection breaks: no Set-Cookie is applied.
Lose(t) ==
  /\ Faults
  /\ request[t].phase = "answered"
  /\ request' = [request EXCEPT ![t] = Idle]
  /\ UNCHANGED <<now, jar, logins, since, live, ended, memo>>

\* Time passes while no request outlives Patience, and each replica forgets
\* the refreshes it no longer answers for.
Tick ==
  /\ now < MaxTime
  /\ \A t \in Tab : request[t].phase # "idle" => now < request[t].sentAt + Patience
  /\ now' = now + 1
  /\ memo' = [r \in Replica |-> Held(r, now + 1)]
  /\ UNCHANGED <<jar, logins, since, live, ended, request>>

\* The issuer ends a sign-in: an administrator, or a sign-out elsewhere.
Revoke(l) ==
  /\ l \in 1..logins \ ended
  /\ ended' = ended \cup {l}
  /\ UNCHANGED <<now, jar, logins, since, live, memo, request>>

----------------------------------------------------------------------------
(***************************************************************************)
(* The service.  Each handler reads the session once, in Load.             *)
(***************************************************************************)

Advance(t, phase, reader, reply) ==
  request' = [request EXCEPT ![t] =
    [@ EXCEPT !.phase = phase, !.reader = reader, !.reply = reply]]

Loading(t) == request[t].phase = "sent" /\ request[t].kind = "page"

\* No session cookie: ErrNoSession, and no cookie is written.
LoadNothing(t) ==
  /\ Loading(t)
  /\ request[t].carried = None
  /\ Advance(t, "serve", None, Untouched)
  /\ UNCHANGED <<now, jar, logins, since, live, ended, memo>>

\* Mutant of LoadElapsed: refused and left in place.
LoadElapsedKept(t) ==
  /\ Loading(t)
  /\ request[t].carried # None
  /\ Elapsed(request[t].carried)
  /\ Advance(t, "serve", None, Untouched)
  /\ UNCHANGED <<now, jar, logins, since, live, ended, memo>>

\* A session whose window has elapsed is refused and cleared.
LoadElapsed(t) ==
  /\ Loading(t)
  /\ request[t].carried # None
  /\ Elapsed(request[t].carried)
  /\ Advance(t, "serve", None, Deletes)
  /\ UNCHANGED <<now, jar, logins, since, live, ended, memo>>

\* A token with time left is left alone.
LoadFresh(t) ==
  /\ Loading(t)
  /\ request[t].carried # None
  /\ ~Elapsed(request[t].carried)
  /\ ~Expiring(request[t].carried)
  /\ Advance(t, "serve", request[t].carried, Untouched)
  /\ UNCHANGED <<now, jar, logins, since, live, ended, memo>>

Refreshing(t) ==
  /\ Loading(t)
  /\ request[t].carried # None
  /\ ~Elapsed(request[t].carried)
  /\ Expiring(request[t].carried)

\* Mutant of LoadRemembered: who waits for a refresh another request began goes
\* on waiting when its outcome is there.
LoadRememberedWaits(t) ==
  /\ Refreshing(t)
  /\ Remembered(request[t].at, request[t].carried) # {}
  /\ UNCHANGED vars

\* This replica spent the same refresh token moments ago: its outcome is the
\* answer, and is written back here too.
LoadRemembered(t) ==
  /\ Refreshing(t)
  /\ \E m \in Remembered(request[t].at, request[t].carried) :
       Advance(t, "serve", m, Writes(m))
  /\ UNCHANGED <<now, jar, logins, since, live, ended, memo>>

\* Mutant of LoadRefreshed: the refreshed session is used and not written back.
LoadRefreshedUnsaved(t) ==
  LET r == request[t].at
      c == request[t].carried IN
  /\ Refreshing(t)
  /\ Remembered(r, c) = {}
  /\ Accepted(c)
  /\ live' = [live EXCEPT ![c.login] = c.gen + 1]
  /\ memo' = [memo EXCEPT ![r] = @ \cup {Refreshed(c)}]
  /\ Advance(t, "serve", Refreshed(c), Untouched)
  /\ UNCHANGED <<now, jar, logins, since, ended>>

\* The issuer accepts the refresh token and rotates it; the refreshed session
\* is written back to the cookie.
LoadRefreshed(t) ==
  LET r == request[t].at
      c == request[t].carried IN
  /\ Refreshing(t)
  /\ Remembered(r, c) = {}
  /\ Accepted(c)
  /\ live' = [live EXCEPT ![c.login] = c.gen + 1]
  /\ memo' = [memo EXCEPT ![r] = @ \cup {Refreshed(c)}]
  /\ Advance(t, "serve", Refreshed(c), Writes(Refreshed(c)))
  /\ UNCHANGED <<now, jar, logins, since, ended>>

\* The issuer refuses a refresh token it has rotated: the session is cleared.
LoadRefused(t) ==
  LET r == request[t].at
      c == request[t].carried IN
  /\ Refreshing(t)
  /\ Remembered(r, c) = {}
  /\ ~Accepted(c)
  /\ Advance(t, "serve", None, Deletes)
  /\ UNCHANGED <<now, jar, logins, since, live, ended, memo>>

\* The issuer does not answer, before or after it rotated the token: a
\* refresh that failed clears the session like one that was refused.
LoadFault(t) ==
  LET r == request[t].at
      c == request[t].carried IN
  /\ Faults
  /\ Refreshing(t)
  /\ Remembered(r, c) = {}
  /\ \/ live' = live
     \/ Accepted(c) /\ live' = [live EXCEPT ![c.login] = c.gen + 1]
  /\ Advance(t, "serve", None, Deletes)
  /\ UNCHANGED <<now, jar, logins, since, ended, memo>>

\* The screen behind the session: it answers, or a service refuses the
\* credential the reader presented and the handler clears the session.
Serve(t) ==
  /\ request[t].phase = "serve"
  /\ \E refused \in BOOLEAN :
       /\ refused => request[t].reader # None
       /\ Advance(t, "answered", request[t].reader,
                  IF refused THEN Deletes ELSE request[t].reply)
  /\ UNCHANGED <<now, jar, logins, since, live, ended, memo>>

\* The callback exchanges the code and writes a new session, or the exchange
\* fails and the browser is sent on with no session written.
Callback(t) ==
  /\ request[t].phase = "sent"
  /\ request[t].kind = "callback"
  /\ \/ /\ logins < MaxLogin
        /\ logins' = logins + 1
        /\ since' = [since EXCEPT ![logins + 1] = now]
        /\ Advance(t, "answered", None,
             Writes([login |-> logins + 1, gen |-> 0,
                     exp |-> now + TokenLife, until |-> now + Window]))
     \/ Advance(t, "answered", None, Untouched) /\ UNCHANGED <<logins, since>>
  /\ UNCHANGED <<now, jar, live, ended, memo>>

\* The sign-out form and the issuer's front-channel frame: neither reads the
\* session.  The form's token or the frame's destination is checked, and the
\* session is cleared.
SignOut(t) ==
  /\ request[t].phase = "sent"
  /\ request[t].kind \in {"signout", "notify"}
  /\ \E valid \in BOOLEAN :
       Advance(t, "answered", None, IF valid THEN Deletes ELSE Untouched)
  /\ UNCHANGED <<now, jar, logins, since, live, ended, memo>>

Load(t) ==
  \/ LoadNothing(t)  \/ LoadElapsed(t)   \/ LoadFresh(t) \/ LoadRemembered(t)
  \/ LoadRefreshed(t) \/ LoadRefused(t) \/ LoadFault(t)

Next ==
  \/ Tick
  \/ \E l \in Login : Revoke(l)
  \/ \E t \in Tab :
       \/ \E r \in Replica, k \in Kind : Send(t, r, k)
       \/ Load(t) \/ Serve(t) \/ Callback(t) \/ SignOut(t)
       \/ Receive(t) \/ Lose(t)

Spec == Init /\ [][Next]_vars

\* The server runs every request it accepted, and the browser applies what it
\* is answered or gives the request up.
FairSpec ==
  Spec /\ \A t \in Tab : /\ WF_vars(Load(t) \/ Callback(t) \/ SignOut(t))
                         /\ WF_vars(Serve(t))
                         /\ WF_vars(Receive(t))

----------------------------------------------------------------------------
TypeOK ==
  /\ now \in Nat
  /\ jar \in SessionSet \cup {None}
  /\ logins \in 0..MaxLogin
  /\ since \in [Login -> Nat]
  /\ live \in [Login -> Nat]
  /\ ended \subseteq Login
  /\ memo \in [Replica -> SUBSET SessionSet]
  /\ request \in [Tab -> Request]

\* The copies of a session a request carries, acts on, and answers with.
HeldBy(t) == {request[t].carried, request[t].reader, request[t].reply.cookie}

\* A copy of a session ends Window after its own sign-in, and carries a refresh
\* token the issuer has issued to that sign-in.
Bounded(c) ==
  c # None => /\ c.login <= logins
              /\ c.until = since[c.login] + Window
              /\ c.gen <= live[c.login]

\* Lifetime and Load: "a refresh renews the access token inside the window and
\* never moves the window".  It holds of every copy there is, in the jar, on a
\* request or its answer and in a replica's memory, whatever the order of the
\* refreshes that made them.
WindowHolds ==
  /\ Bounded(jar)
  /\ \A r \in Replica : \A c \in memo[r] : Bounded(c)
  /\ \A t \in Tab : \A c \in HeldBy(t) : Bounded(c)

\* Load and Read: a screen acts for a person only within Window of that
\* person's own sign-in, however often the session was refreshed and however
\* long ago the cookie was sent.
ServedInsideWindow ==
  [][\A t \in Tab :
       request'[t].phase = "serve" /\ request[t].phase = "sent"
         /\ request'[t].reader # None
       => now < since[request'[t].reader.login] + Window]_vars

\* Read: the issuer refusing a token an earlier request rotated must not end
\* "a session that was alive".  Load loses a session to a refusal only when the
\* issuer has ended that sign-in.
LiveSessionKept ==
  [][\A t \in Tab : LoadRefused(t) => request[t].carried.login \in ended]_vars

\* Load: "a caller ... cannot leave a half-dead cookie in place".  A browser
\* that applies the answer to a request whose session Load would not accept no
\* longer holds the session that request carried, whatever else it received
\* in the meantime.
DeadCookieGone ==
  [][\A t \in Tab :
       /\ Receive(t)
       /\ request[t].kind = "page"
       /\ request[t].carried # None
       /\ request[t].reader = None
       => jar' # request[t].carried]_vars

\* Every request the browser sent comes to an end.
Answered == \A t \in Tab : request[t].phase = "sent" ~> request[t].phase = "idle"
=============================================================================
