------------------------------- MODULE Recent -------------------------------
(***************************************************************************)
(* The recent list of one browser (internal/session/session.go: Recent,    *)
(* Remember, Forget, writeRecent, Clear; internal/web: openRepo,           *)
(* handleDeletePost, handleHome, handleSignOut).                           *)
(*                                                                         *)
(* The list is a cookie beside the session cookie.  A request reads the    *)
(* list it was sent with, and its response rewrites the whole cookie, so   *)
(* the cookie a browser ends with depends on the order its tabs' answers   *)
(* are applied in.  A response is a sequence of Set-Cookie lines, applied  *)
(* in order: the last one for a cookie is the one that stays.              *)
(***************************************************************************)
EXTENDS Naturals, Sequences

CONSTANTS
  Repo,       \* the repositories of the installation
  Limit,      \* session.recentLimit
  Tab,        \* the requests the browser may have in flight
  MaxLogin,   \* bound: sign-ins
  Anonymous   \* the installation answers reads that carry no token

ASSUME RecentAssumption ==
  Limit \in Nat \ {0} /\ MaxLogin \in Nat /\ Anonymous \in BOOLEAN

NoSession == 0
Login == 1..MaxLogin

\* An entry of the list.  by is history: the session that opened it.
Opened == [id : Repo, by : Login \cup {NoSession}]

VARIABLES
  session,  \* the session cookie in the jar: a sign-in, or NoSession
  recent,   \* the recent cookie in the jar
  logins,   \* how many sign-ins there have been
  dead,     \* the sign-ins Load no longer accepts
  deleted,  \* the repositories that have been deleted
  told,     \* history: those whose deletion the browser has been shown
  request   \* per tab: the request it has in flight

vars == <<session, recent, logins, dead, deleted, told, request>>

Idle == [phase |-> "idle", kind |-> "home", repo |-> {}, session |-> NoSession,
         recent |-> <<>>, lines |-> <<>>, done |-> FALSE]

\* The requests that name a repository, and those that do not.
Named == {"open", "delete"}
Plain == {"home", "signout", "callback"}

\* The entries of l at the positions I, in their order.
Pick(l, I) ==
  LET upTo[n \in 0..Len(l)] ==
        IF n = 0 THEN <<>> ELSE IF n \in I THEN Append(upTo[n - 1], l[n]) ELSE upTo[n - 1]
  IN  upTo[Len(l)]

----------------------------------------------------------------------------
(***************************************************************************)
(* The response: Set-Cookie lines.                                         *)
(***************************************************************************)

SessionLine(s) == [name |-> "session", session |-> s, list |-> <<>>]
RecentLine(l)  == [name |-> "recent", session |-> NoSession, list |-> l]

\* Mutant of Clear: the session alone is deleted.
ClearSessionAlone(lines) == Append(lines, SessionLine(NoSession))

\* Clear: a deletion of the session and of the recent list.
Clear(lines) == lines \o <<SessionLine(NoSession), RecentLine(<<>>)>>

\* Mutant of WriteRecent: the line is put in front of those already written.
WriteRecentBefore(lines, l) == <<RecentLine(l)>> \o lines

\* Where the lines for a cookie stand.
LinesFor(lines, name) == {i \in DOMAIN lines : lines[i].name = name}

\* writeRecent: the lines written for the recent list so far are taken back,
\* and one is added.  An empty list is a deletion.
WriteRecent(lines, l) ==
  Append(Pick(lines, DOMAIN lines \ LinesFor(lines, "recent")), RecentLine(l))

\* The cookies a browser holds once it has applied every line, the last one
\* for a cookie being the one that stays.
LastFor(lines, name) ==
  lines[CHOOSE i \in LinesFor(lines, name) : \A j \in LinesFor(lines, name) : j <= i]
SessionAfter(lines, old) ==
  IF LinesFor(lines, "session") = {} THEN old ELSE LastFor(lines, "session").session
RecentAfter(lines, old) ==
  IF LinesFor(lines, "recent") = {} THEN old ELSE LastFor(lines, "recent").list

----------------------------------------------------------------------------
(***************************************************************************)
(* The list.                                                               *)
(***************************************************************************)

Without(l, id) == Pick(l, {i \in DOMAIN l : l[i].id # id})

\* Mutant of Remembered: the identifier alone is kept.
RememberedBare(l, id, by) == <<id>> \o Without(l, id)

\* Mutant of Remembered: the entry is added and the older one left in.
RememberedTwice(l, id, by) ==
  LET next == <<[id |-> id, by |-> by]>> \o l
  IN  SubSeq(next, 1, IF Len(next) < Limit THEN Len(next) ELSE Limit)

\* Mutant of Remembered: a list already full is left without its front.
RememberedLast(l, id, by) ==
  LET next == Append(Without(l, id), [id |-> id, by |-> by])
  IN  SubSeq(next, 1, IF Len(next) < Limit THEN Len(next) ELSE Limit)

\* Remember: one repository to the front, the rest behind it, and Limit kept.
Remembered(l, id, by) ==
  LET next == <<[id |-> id, by |-> by]>> \o Without(l, id)
  IN  SubSeq(next, 1, IF Len(next) < Limit THEN Len(next) ELSE Limit)

----------------------------------------------------------------------------
Init ==
  /\ session = NoSession /\ recent = <<>>
  /\ logins = 0 /\ dead = {}
  /\ deleted = {} /\ told = {}
  /\ request = [t \in Tab |-> Idle]

(***************************************************************************)
(* The browser, the issuer and the clock.                                  *)
(***************************************************************************)

\* A tab sends a request with the two cookies the jar holds now.
Send(t, kind, repos) ==
  /\ request[t].phase = "idle"
  /\ request' = [request EXCEPT ![t] = [Idle EXCEPT
       !.phase = "sent", !.kind = kind, !.repo = repos,
       !.session = session, !.recent = recent]]
  /\ UNCHANGED <<session, recent, logins, dead, deleted, told>>

\* The browser applies the Set-Cookie lines of an answer in order.
Receive(t) ==
  /\ request[t].phase = "answered"
  /\ session' = SessionAfter(request[t].lines, session)
  /\ recent' = RecentAfter(request[t].lines, recent)
  /\ told' = IF request[t].done THEN told \cup request[t].repo ELSE told
  /\ request' = [request EXCEPT ![t] = Idle]
  /\ UNCHANGED <<logins, dead, deleted>>

\* The tab is closed before the answer arrives.
Lose(t) ==
  /\ request[t].phase = "answered"
  /\ request' = [request EXCEPT ![t] = Idle]
  /\ UNCHANGED <<session, recent, logins, dead, deleted, told>>

\* A session stops being accepted: its window elapses, or its refresh fails.
Die ==
  /\ session # NoSession /\ session \notin dead
  /\ dead' = dead \cup {session}
  /\ UNCHANGED <<session, recent, logins, deleted, told, request>>

\* The browser lets the session cookie go by itself.  The recent cookie has a
\* Max-Age of its own, renewed by every repository opened, and stays.
DropSession ==
  /\ session # NoSession
  /\ session' = NoSession
  /\ UNCHANGED <<recent, logins, dead, deleted, told, request>>

----------------------------------------------------------------------------
(***************************************************************************)
(* The handlers.  Each reads the cookies its request was sent with.        *)
(***************************************************************************)

Live(q) == q.session # NoSession /\ q.session \notin dead

\* Load: a session that is refused is cleared; no cookie is nothing to clear.
Loaded(q) == IF q.session \in dead THEN Clear(<<>>) ELSE <<>>

\* What Origo may answer about a repository.  A token is refused or looked at;
\* without one, an installation that answers no anonymous read refuses.
Answers(tok, gone) ==
  {"other"} \cup (IF gone THEN {} ELSE IF tok \/ Anonymous THEN {"ok"} ELSE {})
            \cup (IF tok \/ ~Anonymous THEN {"refused"} ELSE {})

\* readFailed: a refusal of a credential that was presented clears.
Failed(lines, tok, answer) == IF answer = "refused" /\ tok THEN Clear(lines) ELSE lines

RememberIn(q, lines, r) ==
  WriteRecent(lines, Remembered(q.recent, r, IF Live(q) THEN q.session ELSE NoSession))

Answer(t, lines, done) ==
  request' = [request EXCEPT ![t] = [Idle EXCEPT
    !.phase = "answered", !.kind = request[t].kind, !.repo = request[t].repo,
    !.lines = lines, !.done = done]]

\* A repository screen: openRepo remembers what it resolved, and a refusal by
\* a later call of the same page clears after that.  The form that creates a
\* repository answers in the same ways: it remembers what the registry made.
Open(t) ==
  /\ request[t].phase = "sent" /\ request[t].kind = "open"
  /\ \E r \in request[t].repo, minted, later \in BOOLEAN :
       LET q == request[t]
           tok == Live(q) /\ minted IN
       \E a \in Answers(tok, r \in deleted) :
         /\ later => Live(q) /\ a = "ok"
         /\ Answer(t, IF a # "ok" THEN Failed(Loaded(q), tok, a)
                      ELSE IF later THEN Clear(RememberIn(q, Loaded(q), r))
                      ELSE RememberIn(q, Loaded(q), r), FALSE)
  /\ UNCHANGED <<session, recent, logins, dead, deleted, told>>

\* The home screen: a refusal of the list clears.
Home(t) ==
  /\ request[t].phase = "sent" /\ request[t].kind = "home"
  /\ \E minted \in BOOLEAN :
       LET q == request[t]
           tok == Live(q) /\ minted IN
       \E a \in Answers(tok, FALSE) : Answer(t, Failed(Loaded(q), tok, a), FALSE)
  /\ UNCHANGED <<session, recent, logins, dead, deleted, told>>

\* The deletion form, carried out: the registry deletes, the list forgets.
Delete(t) ==
  /\ request[t].phase = "sent" /\ request[t].kind = "delete"
  /\ Live(request[t])
  /\ \E r \in request[t].repo \ deleted :
       LET q == request[t] IN
       /\ deleted' = deleted \cup {r}
       /\ \/ Answer(t, WriteRecent(RememberIn(q, Loaded(q), r), Without(q.recent, r)), TRUE)
          \* the registry's answer is lost: the screen says it is unavailable
          \/ Answer(t, RememberIn(q, Loaded(q), r), FALSE)
  /\ UNCHANGED <<session, recent, logins, dead, told>>

\* The deletion form, refused: by its own token or name, by Origo before the
\* repository is opened, or by the registry after it.
DeleteRefused(t) ==
  /\ request[t].phase = "sent" /\ request[t].kind = "delete"
  /\ \/ Answer(t, <<>>, FALSE)
     \/ \E r \in request[t].repo, minted, refused \in BOOLEAN :
          LET q == request[t]
              tok == Live(q) /\ minted IN
          \E a \in Answers(tok, r \in deleted) :
            /\ refused => Live(q) /\ a = "ok"
            /\ Answer(t, IF a # "ok" THEN Failed(Loaded(q), tok, a)
                         ELSE IF refused THEN Clear(RememberIn(q, Loaded(q), r))
                         ELSE RememberIn(q, Loaded(q), r), FALSE)
  /\ UNCHANGED <<session, recent, logins, dead, deleted, told>>

\* The sign-out form and the issuer's frame: checked, then both cookies go.
SignOut(t) ==
  /\ request[t].phase = "sent" /\ request[t].kind = "signout"
  /\ \E valid \in BOOLEAN : Answer(t, IF valid THEN Clear(<<>>) ELSE <<>>, FALSE)
  /\ UNCHANGED <<session, recent, logins, dead, deleted, told>>

\* The callback writes the session cookie and leaves the recent one alone.
Callback(t) ==
  /\ request[t].phase = "sent" /\ request[t].kind = "callback"
  /\ \/ /\ logins < MaxLogin
        /\ logins' = logins + 1
        /\ Answer(t, <<SessionLine(logins + 1)>>, FALSE)
     \/ Answer(t, <<>>, FALSE) /\ UNCHANGED logins
  /\ UNCHANGED <<session, recent, dead, deleted, told>>

Next ==
  \/ Die \/ DropSession
  \/ \E t \in Tab :
       \/ \E k \in Plain : Send(t, k, {})
       \/ \E k \in Named, r \in Repo : Send(t, k, {r})
       \/ Open(t) \/ Home(t) \/ Delete(t) \/ DeleteRefused(t)
       \/ SignOut(t) \/ Callback(t) \/ Receive(t) \/ Lose(t)

Spec == Init /\ [][Next]_vars

----------------------------------------------------------------------------
TypeOK ==
  /\ session \in Login \cup {NoSession}
  /\ recent \in Seq(Opened)
  /\ logins \in 0..MaxLogin
  /\ dead \subseteq Login /\ deleted \subseteq Repo /\ told \subseteq deleted
  /\ \A t \in Tab : /\ request[t].kind \in Plain \cup Named
                    /\ request[t].phase \in {"idle", "sent", "answered"}
                    /\ request[t].recent \in Seq(Opened)

Ids(l) == [i \in DOMAIN l |-> l[i].id]

\* openRepo: once the answer that opened a repository is applied, and unless
\* that answer ended the session, the repository is first on the list.
OpenedIsFirst ==
  [][\A t \in Tab :
       /\ request[t].kind = "open"
       /\ Receive(t)
       /\ LinesFor(request[t].lines, "recent") # {}
       => recent' = <<>> \/ {recent'[1].id} = request[t].repo]_vars

\* Clear "removes the session and the recent list": an answer that takes the
\* session away takes the list away with it, even when the same answer had
\* already remembered a repository.
ClearedTogether ==
  [][\A t \in Tab :
       Receive(t) /\ LinesFor(request[t].lines, "session") # {} /\ session' = NoSession
       => recent' = <<>>]_vars

Names(l) == {l[i].id : i \in DOMAIN l}

\* The list a request has in hand: the one it was sent with, and once it is
\* answered the one its answer writes, if it writes one.
InHand(q) == IF q.phase = "sent" THEN q.recent ELSE RecentAfter(q.lines, <<>>)

\* The repository is on the list, or on a copy of it on its way.
Around(r) == r \in Names(recent) \/ \E t \in Tab : r \in Names(InHand(request[t]))

\* handleDeletePost and Forget: the answer that tells of a deletion takes the
\* repository off the list, and once it is on no copy of the list either it
\* never comes back.
StaysForgotten ==
  [][/\ \A t \in Tab : request[t].done /\ Receive(t) => request[t].repo \cap Names(recent') = {}
     /\ \A r \in told : ~Around(r) => ~Around(r)']_vars

\* Forget: once the browser was told of a deletion, the list does not go on
\* "naming a repository nobody can open".
Forgotten == Names(recent) \cap told = {}

\* writeRecent: "One response carries one Set-Cookie for it".
OneRecentLine ==
  \A t \in Tab : \A i, j \in LinesFor(request[t].lines, "recent") : i = j

\* The package comment and Opened: the list holds "the repositories this session
\* has opened", and none that another sign-in opened.
OfThisSession ==
  session # NoSession => \A i \in DOMAIN recent : recent[i].by \in {session, NoSession}

\* Recent carries out what RecentList promises: every answer, in whatever order
\* they are applied, puts one change of the list its request was sent with; so
\* the list names no repository twice and no more than Limit of them.
Promise == INSTANCE RecentList WITH
  list <- Ids(recent), Writer <- Tab,
  copy <- [t \in Tab |-> Ids(InHand(request[t]))]
KeepsPromise == Promise!Spec
=============================================================================
