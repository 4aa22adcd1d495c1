--------------------------- MODULE ReadingProofs ---------------------------
(***************************************************************************)
(* Reading, for every number of branches, commits, files and changes, and  *)
(* however far behind an unchecked answer is: what a screen puts together  *)
(* from several calls belongs together, and the pages of a list together   *)
(* list everything once.                                                   *)
(***************************************************************************)
EXTENDS Reading, FiniteSetTheorems, SetInduction, TLAPS

Screen == {"overview", "refs", "tree", "blob", "raw", "log", "commit", "patch"}

CommitSet == [parent : 0..MaxPush, line : SUBSET Commit,
              dir : UNION {[S -> Commit] : S \in SUBSET File}]
StateSet == [heads : [Branch -> 0..MaxPush], known : 0..MaxPush]

\* A state of the repository names no commit that was not pushed.
Within(s) == s.known <= Len(commits) /\ \A b \in Branch : s.heads[b] <= Len(commits)

Repository ==
  /\ commits \in Seq(CommitSet) /\ Len(commits) <= MaxPush
  /\ past \in Seq(StateSet) /\ Len(past) > 0
  /\ \A i \in 1..Len(past) : Within(past[i])
  /\ Now.known = Len(commits)
  /\ \A c \in 1..Len(commits) : commits[c].parent <= Len(commits)

\* A page has its fields, and they are of their types.
Typed(p) ==
  /\ DOMAIN p = DOMAIN Blank
  /\ p.screen \in Screen /\ p.ref \in Ref \cup {None}
  /\ p.at \in 0..Len(commits) /\ p.last \in 0..Len(commits)
  /\ DOMAIN p.items \subseteq File \cup Commit /\ p.says \in BOOLEAN
  /\ p.sent \in 1..Len(past)

Ended(p, kind) == p.call = "none" /\ p.kind = kind

\* The states the repository was in while p was made, as in During.
Seen(p) == {past[i] : i \in (IF p.aged = {} THEN p.sent ELSE 1)..Len(past)}
Was(p) == \E s \in Seen(p) : Resolved(s, p.ref) = p.at

\* The parts of a page made of several calls, while it is made and after.
Compares(p) ==
  /\ p.call # "none" => p.diff = <<>>
  /\ p.call = "compare" => p.at # None /\ commits[p.at].parent # None
  /\ Ended(p, "commit") =>
       /\ p.at # None
       /\ p.diff = IF commits[p.at].parent = None THEN <<>> ELSE <<commits[p.at].parent, p.at>>

Finds(p) ==
  /\ p.call = "bytes" =>
       /\ p.at # None /\ Was(p)
       /\ p.file \in DOMAIN p.items /\ p.file \in DOMAIN Dir(p.at)
       /\ p.items[p.file] = Dir(p.at)[p.file]
  /\ Ended(p, "file") =>
       /\ p.at # None /\ Was(p)
       /\ p.file \in DOMAIN Dir(p.at) /\ p.bytes = Dir(p.at)[p.file]
  /\ p.call # "none" => p.pinned = FALSE
  /\ p.pinned => Pinned(p.ref, p.at)

Admits(p) == "tree" \in p.aged \/ "log" \in p.aged => p.says

Pair(p, i, j) ==
  i <= j /\ Resolved(past[i], p.ref) = p.at /\ Resolved(past[j], p.ref) = p.last
Orders(p) ==
  /\ p.call # "none" => p.bytes = None
  /\ p.call \in {"last", "readme"} =>
       p.at # None /\ \A f \in DOMAIN p.items : f \in DOMAIN Dir(p.at) /\ p.items[f] = Dir(p.at)[f]
  /\ p.call = "last" /\ p.aged = {} =>
       \E i \in p.sent..Len(past) : Resolved(past[i], p.ref) = p.at
  /\ p.call = "readme" => Readme \in DOMAIN p.items
  /\ p.call = "readme" \/ Ended(p, "overview") =>
       /\ p.at # None
       /\ p.bytes # None => p.bytes = Dir(p.at)[Readme]
       /\ p.aged = {} /\ p.last # None => \E i, j \in p.sent..Len(past) : Pair(p, i, j)

Made(p) == Typed(p) /\ Compares(p) /\ Finds(p) /\ Admits(p) /\ Orders(p)

Inv == Repository /\ Made(page)

----------------------------------------------------------------------------
\* What a name stands for is a commit that was pushed.
LEMMA ResolvedIn ==
  ASSUME NEW s \in StateSet, NEW n \in Nat, s.known <= n, \A b \in Branch : s.heads[b] <= n,
         NEW ref
  PROVE  Resolved(s, ref) \in 0..n
<1>1. CASE ref \in Branch /\ s.heads[ref] # None
  BY <1>1, ReadingAssumption DEF Resolved, StateSet
<1>2. CASE ~(ref \in Branch /\ s.heads[ref] # None) /\ ref \in 1..s.known
  <2>1. Resolved(s, ref) = ref
    BY <1>2 DEF Resolved
  <2>2. QED
    BY <1>2, <2>1, ReadingAssumption DEF StateSet
<1>3. CASE ~(ref \in Branch /\ s.heads[ref] # None) /\ ref \notin 1..s.known
           /\ Cardinality(Abbreviated(s, ref)) = 1
  <2>1. Resolved(s, ref) = CHOOSE c \in Abbreviated(s, ref) : TRUE
    BY <1>3 DEF Resolved
  <2>2. Abbreviated(s, ref) # {}
    BY <1>3, FS_EmptySet
  <2>3. Resolved(s, ref) \in Abbreviated(s, ref)
    BY <2>1, <2>2
  <2>4. QED
    BY <2>3, ReadingAssumption DEF Abbreviated, StateSet
<1>4. CASE ~(ref \in Branch /\ s.heads[ref] # None) /\ ref \notin 1..s.known
           /\ Cardinality(Abbreviated(s, ref)) # 1
  BY <1>4 DEF Resolved, None
<1>5. QED
  BY <1>1, <1>2, <1>3, <1>4

\* An object id stands for its commit, or for nothing the state knows.
LEMMA ResolvedCommit ==
  ASSUME NEW s \in StateSet, NEW c \in Commit
  PROVE  Resolved(s, c) \in {c, None} /\ (c <= s.known => Resolved(s, c) = c)
<1>1. c \in Nat /\ c \notin Branch /\ c \notin Word /\ c # None
  BY ReadingAssumption DEF Commit, None
<1>2. Abbreviated(s, c) = {}
  <2>1. \A x : <<c, x>> \notin Prefix
    BY <1>1, ReadingAssumption
  <2>2. QED
    BY <2>1 DEF Abbreviated
<1>3. Cardinality(Abbreviated(s, c)) # 1
  BY <1>2, FS_EmptySet
<1>4. QED
  BY <1>1, <1>3 DEF Resolved, StateSet, Commit

\* A call is answered from a state the repository was in, the present one if
\* Origo says it was checked.
LEMMA AnswerFrom ==
  ASSUME Repository, NEW a \in Answer
  PROVE  /\ a.state \in StateSet /\ Within(a.state) /\ a.stale \in BOOLEAN
         /\ \E i \in 1..Len(past) : a.state = past[i] /\ (~a.stale => i = Len(past))
<1>1. \E i \in 1..Len(past) : a.state = past[i] /\ (~a.stale => i = Len(past))
  BY DEF Answer, Now, Repository
<1>2. a.stale \in BOOLEAN
  <2>1. a = [state |-> Now, stale |-> FALSE] \/ \E i \in 1..Len(past) : a = [state |-> past[i], stale |-> TRUE]
    BY DEF Answer, Repository
  <2>2. CASE a = [state |-> Now, stale |-> FALSE]
    BY <2>2
  <2>3. CASE \E i \in 1..Len(past) : a = [state |-> past[i], stale |-> TRUE]
    BY <2>3
  <2>4. QED
    BY <2>1, <2>2, <2>3
<1>3. QED
  BY <1>1, <1>2 DEF Repository

\* Its state is one of those a page is made in that it is one of the calls of.
LEMMA AnswerSeen ==
  ASSUME Repository, NEW a \in Answer, NEW p, p.sent \in 1..Len(past), a.stale => p.aged # {}
  PROVE  /\ a.state \in Seen(p)
         /\ p.aged = {} => a.state = past[Len(past)] /\ Len(past) \in p.sent..Len(past)
<1>1. PICK i \in 1..Len(past) : a.state = past[i] /\ (~a.stale => i = Len(past))
  BY AnswerFrom
<1>2. i \in (IF p.aged = {} THEN p.sent ELSE 1)..Len(past)
  BY <1>1 DEF Repository
<1>3. QED
  BY <1>1, <1>2 DEF Seen, Repository

----------------------------------------------------------------------------
\* The numbers and the empty list a new page begins with.
LEMMA Beginnings ==
  ASSUME Repository
  PROVE  /\ Len(commits) \in Nat /\ None \in 0..Len(commits)
         /\ 1 \in 1..Len(past) /\ Len(past) \in 1..Len(past)
<1>1. Len(commits) \in Nat /\ Len(past) \in Nat /\ Len(past) > 0
  BY DEF Repository
<1>2. QED
  BY <1>1 DEF None

\* An empty list has no rows.
LEMMA NoRows == DOMAIN <<>> = {}
OBVIOUS

\* A page with nothing on it, or with a sentence, or just asked for.
LEMMA BlankMade ==
  ASSUME Repository, NEW kind \in {"none", "missing", "notfound", "failed"}
  PROVE  Made(Message(kind)) /\ Made(Blank)
<1>1. \A p \in {Message(kind), Blank} :
        /\ DOMAIN p = DOMAIN Blank /\ p.screen = "overview" /\ p.ref = None
        /\ p.call = "none" /\ p.kind \in {"none", "missing", "notfound", "failed"}
        /\ p.at = None /\ p.last = None /\ p.items = <<>> /\ p.says = FALSE
        /\ p.sent = 1 /\ p.aged = {} /\ p.pinned = FALSE
  BY DEF Message, Blank
<1>2. \A p \in {Message(kind), Blank} : Typed(p)
  <2> TAKE p \in {Message(kind), Blank}
  <2>1. p.screen \in Screen /\ p.ref \in Ref \cup {None}
    BY <1>1 DEF Screen
  <2>2. DOMAIN p.items \subseteq File \cup Commit
    BY <1>1, NoRows
  <2>3. p.at \in 0..Len(commits) /\ p.last \in 0..Len(commits) /\ p.sent \in 1..Len(past)
    BY <1>1, Beginnings
  <2>4. p.says \in BOOLEAN
    BY <1>1, Zenon
  <2>5. QED
    BY <1>1, <2>1, <2>2, <2>3, <2>4 DEF Typed
<1>3. \A p \in {Message(kind), Blank} :
        Compares(p) /\ Finds(p) /\ Admits(p) /\ Orders(p)
  BY <1>1 DEF Compares, Finds, Admits, Orders, Ended
<1>4. QED
  BY <1>2, <1>3 DEF Made

LEMMA AskedMade ==
  ASSUME Repository, NEW p, DOMAIN p = DOMAIN Blank, p.screen \in Screen,
         p.ref \in Ref \cup {None}, p.at = None, p.last = None, p.items = <<>>,
         p.says = FALSE, p.aged = {}, p.pinned = FALSE, p.diff = <<>>, p.bytes = None
  PROVE  Made(Asked(p))
<1> DEFINE q == Asked(p)
<1>1. /\ DOMAIN q = DOMAIN Blank /\ q.screen = p.screen /\ q.ref = p.ref
      /\ q.call = "resolve" /\ q.sent = Len(past)
      /\ q.at = None /\ q.last = None /\ q.items = <<>> /\ q.says = FALSE
      /\ q.aged = {} /\ q.pinned = FALSE /\ q.diff = <<>> /\ q.bytes = None
  BY DEF Asked, Blank
<1>2. Typed(q)
  <2>1. DOMAIN q.items \subseteq File \cup Commit
    BY <1>1, NoRows
  <2>2. q.at \in 0..Len(commits) /\ q.last \in 0..Len(commits) /\ q.sent \in 1..Len(past)
    BY <1>1, Beginnings
  <2>3. q.says \in BOOLEAN
    BY <1>1, Zenon
  <2>4. QED
    BY <1>1, <2>1, <2>2, <2>3 DEF Typed
<1>3. Compares(q) /\ Finds(q) /\ Admits(q) /\ Orders(q)
  BY <1>1 DEF Compares, Finds, Admits, Orders, Ended
<1>4. QED
  BY <1>2, <1>3 DEF Made

\* A step that puts such a page in the place of page.
LEMMA Becoming ==
  ASSUME Repository, NEW p, Made(p), page' = p, UNCHANGED <<commits, past>>
  PROVE  Inv'
<1>1. Repository'
  BY DEF Repository, Within, Now
<1>2. Typed(page)' /\ Compares(page)' /\ Admits(page)' /\ Orders(page)'
  BY DEF Made, Typed, Compares, Admits, Orders, Pair, Ended, Seen, Dir
<1>3. Finds(page)'
  BY DEF Made, Finds, Ended, Was, Seen, Dir
<1>4. QED
  BY <1>1, <1>2, <1>3 DEF Inv, Made

\* What Got and Says make of the page, when a call is answered with a.
Gets(a, g) ==
  /\ DOMAIN g = DOMAIN Blank /\ g.screen = page.screen /\ g.ref = page.ref /\ g.file = page.file
  /\ g.at = page.at /\ g.last = page.last /\ g.items = page.items
  /\ g.sent = page.sent /\ g.diff = page.diff
  /\ g.bytes = page.bytes /\ g.pinned = page.pinned
  /\ g.aged = (IF a.stale THEN page.aged \cup {page.call} ELSE page.aged)
  /\ g.says \in BOOLEAN /\ (page.says => g.says)

LEMMA GotGets ==
  ASSUME Made(page), NEW a, a.stale \in BOOLEAN
  PROVE  Gets(a, Got(a))
<1>1. DOMAIN page = DOMAIN Blank /\ page.says \in BOOLEAN
  BY DEF Made, Typed
<1>2. QED
  BY <1>1 DEF Gets, Got, Blank

LEMMA SaysGets ==
  ASSUME Made(page), NEW a, a.stale \in BOOLEAN
  PROVE  Gets(a, Says(Got(a), a)) /\ (a.stale => Says(Got(a), a).says)
<1>1. DOMAIN page = DOMAIN Blank /\ page.says \in BOOLEAN
  BY DEF Made, Typed
<1>2. QED
  BY <1>1 DEF Gets, Got, Says, Blank

\* q is p, but for the call, the kind and what no theorem speaks of.
Carries(p, q) ==
  /\ DOMAIN q = DOMAIN Blank /\ q.screen = p.screen /\ q.ref = p.ref /\ q.file = p.file
  /\ q.at = p.at /\ q.items = p.items /\ q.bytes = p.bytes /\ q.last = p.last /\ q.diff = p.diff
  /\ q.pinned = p.pinned /\ q.says = p.says /\ q.sent = p.sent /\ q.aged = p.aged

LEMMA CallsCarries ==
  ASSUME NEW p, DOMAIN p = DOMAIN Blank, NEW call
  PROVE  Carries(p, Calls(p, call)) /\ Calls(p, call).call = call
BY DEF Carries, Calls, Blank

LEMMA EndsCarries ==
  ASSUME NEW p, DOMAIN p = DOMAIN Blank, NEW kind
  PROVE  Carries(p, Ends(p, kind)) /\ Ends(p, kind).call = "none" /\ Ends(p, kind).kind = kind
BY DEF Carries, Ends, Blank

\* The states a page was made in stay among them as it goes on.
LEMMA SeenGrows ==
  ASSUME Repository, NEW p, NEW q, p.sent \in 1..Len(past), q.sent = p.sent,
         p.aged \subseteq q.aged
  PROVE  Seen(p) \subseteq Seen(q)
<1>1. CASE q.aged = {}
  BY <1>1 DEF Seen
<1>2. CASE q.aged # {}
  BY <1>2 DEF Seen
<1>3. QED
  BY <1>1, <1>2

\* The commit an answer's state resolves a name to, and what it is.
LEMMA AnswerCommit ==
  ASSUME Repository, NEW a \in Answer, NEW ref
  PROVE  /\ Resolved(a.state, ref) \in 0..Len(commits)
         /\ Resolved(a.state, ref) # None =>
              /\ commits[Resolved(a.state, ref)] \in CommitSet
              /\ DOMAIN Dir(Resolved(a.state, ref)) \subseteq File
              /\ commits[Resolved(a.state, ref)].line \subseteq Commit
<1>1. Len(commits) \in Nat
  BY DEF Repository
<1>2. Resolved(a.state, ref) \in 0..Len(commits)
  BY <1>1, AnswerFrom, ResolvedIn DEF Within
<1>3. ASSUME NEW c \in 1..Len(commits)
      PROVE  commits[c] \in CommitSet /\ DOMAIN Dir(c) \subseteq File /\ commits[c].line \subseteq Commit
  <2>1. commits[c] \in CommitSet
    BY DEF Repository
  <2>2. QED
    BY <2>1 DEF CommitSet, Dir
<1>4. QED
  BY <1>1, <1>2, <1>3 DEF None

----------------------------------------------------------------------------
\* People push: what a page was made of is still what it was.
LEMMA Grows ==
  ASSUME Inv, Repository', UNCHANGED page, NEW s, past' = Append(past, s),
         Len(commits) <= Len(commits'), \A c \in 1..Len(commits) : commits'[c] = commits[c]
  PROVE  Inv'
<1> DEFINE n == Len(past)
<1>1. /\ n \in Nat /\ n > 0 /\ Len(past') = n + 1 /\ \A i \in 1..n : past'[i] = past[i]
      /\ Len(commits) \in Nat /\ Len(commits') \in Nat
  BY DEF Inv, Repository
<1>2. Typed(page) /\ page.sent \in 1..n /\ page.at \in 0..Len(commits)
  BY DEF Inv, Made, Typed
<1>3. Typed(page)'
  BY <1>1, <1>2 DEF Typed
<1>4. page.at # None => page.at \in 1..Len(commits) /\ commits'[page.at] = commits[page.at]
  BY <1>1, <1>2 DEF None
<1>5. Compares(page)'
  BY <1>4 DEF Inv, Made, Compares, Ended
<1>6. \A st \in Seen(page) : st \in Seen(page)'
  <2>1. \A i \in 1..n : i \in 1..Len(past') /\ (i \in page.sent..n => i \in page.sent..Len(past'))
    BY <1>1, <1>2
  <2>2. QED
    BY <1>1, <1>2, <2>1 DEF Seen
<1>7. Finds(page)'
  <2>1. Was(page) => Was(page)'
    BY <1>6 DEF Was
  <2>2. QED
    BY <1>4, <2>1 DEF Inv, Made, Finds, Ended, Dir
<1>8. Admits(page)'
  BY <1>6 DEF Inv, Made, Admits
<1>9. Orders(page)'
  <2>1. \A i \in page.sent..n : i \in page.sent..Len(past') /\ past'[i] = past[i]
    BY <1>1, <1>2
  <2>2. (\E i \in page.sent..n : Resolved(past[i], page.ref) = page.at) =>
          \E i \in page.sent..Len(past') : Resolved(past'[i], page.ref) = page.at
    BY <2>1
  <2>3. (\E i, j \in page.sent..n : Pair(page, i, j)) =>
          \E i, j \in page.sent..Len(past') : Pair(page, i, j)'
    BY <2>1 DEF Pair
  <2>4. QED
    BY <1>4, <2>2, <2>3 DEF Inv, Made, Orders, Ended, Dir
<1>10. QED
  BY <1>3, <1>5, <1>7, <1>8, <1>9 DEF Inv, Made

LEMMA PushKeeps ==
  ASSUME Inv, NEW b \in Branch, Push(b)
  PROVE  Inv'
<1> DEFINE n == Len(commits) + 1
           st == [heads |-> [Now.heads EXCEPT ![b] = n], known |-> n]
<1>1. /\ commits \in Seq(CommitSet) /\ Len(commits) \in Nat /\ n \in 1..MaxPush
      /\ past \in Seq(StateSet) /\ Len(past) \in Nat /\ Len(past) > 0
      /\ Now \in StateSet /\ Within(Now) /\ MaxPush \in Nat
  BY ReadingAssumption DEF Inv, Repository, Push, Now
<1>2. PICK files \in SUBSET File :
        \E kept \in SUBSET (files \cap DOMAIN (IF Now.heads[b] = None THEN <<>> ELSE Dir(Now.heads[b]))) :
          commits' = Append(commits,
            [parent |-> Now.heads[b],
             line |-> {n} \cup (IF Now.heads[b] = None THEN {} ELSE commits[Now.heads[b]].line),
             dir |-> [f \in files |->
               IF f \in kept THEN (IF Now.heads[b] = None THEN <<>> ELSE Dir(Now.heads[b]))[f] ELSE n]])
  BY DEF Push
<1> DEFINE parent == Now.heads[b]
           old == IF parent = None THEN <<>> ELSE Dir(parent)
<1>3. PICK kept \in SUBSET (files \cap DOMAIN old) :
          commits' = Append(commits,
            [parent |-> parent,
             line |-> {n} \cup (IF parent = None THEN {} ELSE commits[parent].line),
             dir |-> [f \in files |-> IF f \in kept THEN old[f] ELSE n]])
  BY <1>2
<1>4. past' = Append(past, st) /\ page' = page
  BY DEF Push, Changed
<1>5. parent \in 0..Len(commits)
  BY <1>1, ReadingAssumption DEF StateSet, Within
<1>6. parent # None => parent \in 1..Len(commits) /\ commits[parent] \in CommitSet
  BY <1>1, <1>5 DEF None
<1>7. \A f \in kept : old[f] \in Commit
  <2>1. CASE parent = None
    BY <2>1, NoRows
  <2>2. CASE parent # None
    <3>1. PICK S \in SUBSET File : Dir(parent) \in [S -> Commit]
      BY <1>6, <2>2 DEF Dir, CommitSet
    <3>2. QED
      BY <2>2, <3>1
  <2>3. QED
    BY <2>1, <2>2
<1>8. [f \in files |-> IF f \in kept THEN old[f] ELSE n] \in UNION {[S -> Commit] : S \in SUBSET File}
  <2>1. [f \in files |-> IF f \in kept THEN old[f] ELSE n] \in [files -> Commit]
    BY <1>1, <1>7 DEF Commit
  <2>2. QED
    BY <2>1
<1>9. {n} \cup (IF parent = None THEN {} ELSE commits[parent].line) \in SUBSET Commit
  BY <1>1, <1>6 DEF CommitSet, Commit
<1> DEFINE new == [parent |-> parent,
                   line |-> {n} \cup (IF parent = None THEN {} ELSE commits[parent].line),
                   dir |-> [f \in files |-> IF f \in kept THEN old[f] ELSE n]]
<1>10. new \in CommitSet /\ new.parent = parent
  BY <1>1, <1>5, <1>8, <1>9 DEF CommitSet
<1>11. st \in StateSet /\ st.known = n
  BY <1>1 DEF StateSet
<1>12. commits' = Append(commits, new)
  BY <1>3
<1> HIDE DEF new, st, old, parent
<1>13. /\ commits' \in Seq(CommitSet) /\ Len(commits') = n
       /\ \A c \in 1..Len(commits) : commits'[c] = commits[c]
       /\ commits'[n].parent = parent
  BY <1>1, <1>10, <1>12
<1>14. /\ past' \in Seq(StateSet) /\ Len(past') = Len(past) + 1 /\ past'[Len(past) + 1] = st
       /\ \A i \in 1..Len(past) : past'[i] = past[i]
  BY <1>1, <1>4, <1>11
<1> DEFINE Inside(s) == s.known <= n /\ \A x \in Branch : s.heads[x] <= n
<1>15. \A i \in 1..Len(past') : Inside(past'[i])
  <2>1. ASSUME NEW i \in 1..Len(past)
        PROVE  Inside(past[i])
    <3>1. past[i] \in StateSet /\ Within(past[i])
      BY <1>1 DEF Inv, Repository
    <3>2. QED
      <4>1. past[i].known \in Nat /\ \A x \in Branch : past[i].heads[x] \in Nat
        BY <3>1, ReadingAssumption DEF StateSet
      <4>2. QED
        BY <1>1, <3>1, <4>1 DEF Within
  <2>2. Inside(st)
    <3>1. \A x \in Branch : Now.heads[x] \in Nat /\ Now.heads[x] <= Len(commits)
      BY <1>1, ReadingAssumption DEF Within, StateSet
    <3>2. \A x \in Branch : st.heads[x] <= n
      BY <1>1, <3>1 DEF st, StateSet
    <3>3. QED
      BY <1>1, <1>11, <3>2
  <2>3. QED
    BY <1>1, <1>14, <2>1, <2>2
<1>16. \A c \in 1..Len(commits') : commits'[c].parent <= Len(commits')
  <2>1. \A c \in 1..Len(commits) : commits[c].parent \in Nat /\ commits[c].parent <= Len(commits)
    <3>1. \A c \in 1..Len(commits) : commits[c] \in CommitSet
      BY <1>1
    <3>2. \A c \in 1..Len(commits) : commits[c].parent \in Nat
      BY <3>1, ReadingAssumption DEF CommitSet
    <3>3. QED
      BY <3>2 DEF Inv, Repository
  <2>2. parent <= n
    BY <1>1, <1>5
  <2>3. \A c \in 1..Len(commits) : commits'[c].parent <= n
    BY <1>1, <1>13, <2>1
  <2>4. \A c \in 1..n : c \in 1..Len(commits) \/ c = n
    BY <1>1
  <2>5. commits'[n].parent <= n
    BY <1>13, <2>2
  <2>6. \A c \in 1..n : commits'[c].parent <= n
    BY <2>3, <2>4, <2>5
  <2>7. QED
    BY <1>13, <2>6
<1>17. Repository'
  BY <1>1, <1>11, <1>13, <1>14, <1>15, <1>16 DEF Repository, Now, Within
<1>18. QED
  BY <1>1, <1>4, <1>13, <1>17, Grows

LEMMA MoveKeeps ==
  ASSUME Inv, NEW b \in Branch, Move(b)
  PROVE  Inv'
<1>1. PICK c \in 1..Len(commits) \cup {None} :
        past' = Append(past, [heads |-> [Now.heads EXCEPT ![b] = c], known |-> Now.known])
  BY DEF Move, Changed
<1> DEFINE st == [heads |-> [Now.heads EXCEPT ![b] = c], known |-> Now.known]
<1>2. commits' = commits /\ page' = page
  BY DEF Move
<1>3. /\ Len(commits) \in Nat /\ Len(commits) <= MaxPush /\ MaxPush \in Nat
      /\ past \in Seq(StateSet) /\ Len(past) \in Nat /\ Len(past) > 0
      /\ Now \in StateSet /\ Within(Now) /\ Now.known = Len(commits)
  BY ReadingAssumption DEF Inv, Repository, Now
<1>4. c \in 0..MaxPush /\ c <= Len(commits)
  BY <1>3 DEF None
<1>5. st \in StateSet /\ st.known = Now.known
  BY <1>3, <1>4 DEF StateSet
<1>6. Within(st)
  <2>1. \A x \in Branch : st.heads[x] <= Len(commits)
    BY <1>3, <1>4 DEF StateSet, Within
  <2>2. QED
    BY <1>3, <1>5, <2>1 DEF Within
<1>7. past' = Append(past, st)
  BY <1>1
<1> HIDE DEF st
<1>8. /\ past' \in Seq(StateSet) /\ Len(past') = Len(past) + 1 /\ past'[Len(past) + 1] = st
      /\ \A i \in 1..Len(past) : past'[i] = past[i]
  BY <1>3, <1>5, <1>7
<1>9. \A i \in 1..Len(past') : Within(past'[i])
  BY <1>3, <1>6, <1>8 DEF Inv, Repository
<1>10. Repository'
  BY <1>2, <1>3, <1>5, <1>8, <1>9 DEF Inv, Repository, Within, Now
<1>11. QED
  BY <1>2, <1>3, <1>7, <1>10, Grows

----------------------------------------------------------------------------
\* The page before an answer.
LEMMA PageBefore ==
  ASSUME Inv, page.call # "none"
  PROVE  /\ Repository /\ Made(page) /\ Typed(page) /\ Admits(page)
         /\ page.diff = <<>> /\ page.pinned = FALSE /\ page.bytes = None
BY DEF Inv, Made, Compares, Finds, Orders

LEMMA ResolveKeeps ==
  ASSUME Inv, Resolve
  PROVE  Inv'
<1>1. PICK a \in Answer :
        LET p == [Says(Got(a), a) EXCEPT !.head = a.state.heads[Default],
                                         !.ref = IF @ = None THEN Default ELSE @] IN
        Becomes(Calls(p,
          CASE p.screen \in {"overview", "refs"} -> "heads"
            [] p.screen = "tree"                 -> IF p.head = None THEN "heads" ELSE "tree"
            [] p.screen \in {"blob", "raw"}      -> "entry"
            [] p.screen = "log"                  -> "log"
            [] p.screen \in {"commit", "patch"}  -> "commit"))
  BY DEF Resolve
<1>2. page.call = "resolve"
  BY DEF Resolve, At
<1>3. /\ Repository /\ Made(page) /\ Typed(page) /\ Admits(page)
      /\ page.diff = <<>> /\ page.pinned = FALSE /\ page.bytes = None
  BY <1>2, PageBefore
<1>4. a.stale \in BOOLEAN
  BY <1>3, AnswerFrom
<1> DEFINE g == Says(Got(a), a)
           p == [g EXCEPT !.head = a.state.heads[Default], !.ref = IF @ = None THEN Default ELSE @]
           call == CASE p.screen \in {"overview", "refs"} -> "heads"
                     [] p.screen = "tree"                 -> IF p.head = None THEN "heads" ELSE "tree"
                     [] p.screen \in {"blob", "raw"}      -> "entry"
                     [] p.screen = "log"                  -> "log"
                     [] p.screen \in {"commit", "patch"}  -> "commit"
           q == Calls(p, call)
<1>5. Gets(a, g)
  BY <1>3, <1>4, SaysGets
<1> HIDE DEF g
<1>6. /\ DOMAIN p = DOMAIN Blank /\ p.screen = g.screen
      /\ p.ref = (IF g.ref = None THEN Default ELSE g.ref)
      /\ p.at = g.at /\ p.last = g.last /\ p.items = g.items /\ p.sent = g.sent
      /\ p.diff = g.diff /\ p.bytes = g.bytes /\ p.pinned = g.pinned
      /\ p.aged = g.aged /\ p.says = g.says
  BY <1>2, <1>5 DEF Blank, Gets
<1> HIDE DEF p
<1>7. p.screen \in Screen
  BY <1>2, <1>3, <1>5, <1>6 DEF Typed, Gets
<1>8. call \in {"heads", "tree", "entry", "log", "commit"}
  BY <1>7 DEF Screen
<1> HIDE DEF call
<1>9. Carries(p, q) /\ q.call = call
  BY <1>6, CallsCarries
<1>10. Becomes(q)
  BY <1>1 DEF p, g, call
<1> HIDE DEF q
<1>11. Typed(q)
  <2>1. p.ref \in Ref \cup {None}
    BY <1>2, <1>3, <1>5, <1>6, ReadingAssumption DEF Typed, Ref, Gets
  <2>2. QED
    BY <1>2, <1>3, <1>5, <1>6, <1>7, <1>9, <2>1 DEF Typed, Carries, Gets
<1>12. Compares(q) /\ Finds(q) /\ Orders(q)
  BY <1>2, <1>3, <1>5, <1>6, <1>8, <1>9 DEF Compares, Finds, Orders, Ended, Carries, Gets
<1>13. Admits(q)
  BY <1>2, <1>3, <1>5, <1>6, <1>9 DEF Admits, Carries, Gets
<1>14. QED
  BY <1>3, <1>10, <1>11, <1>12, <1>13, Becoming DEF Made, Becomes

LEMMA HeadsKeeps ==
  ASSUME Inv, Heads
  PROVE  Inv'
<1>1. PICK a \in Answer :
        LET p == Got(a) IN
        Becomes(IF p.screen = "refs" THEN Ends([p EXCEPT !.heads = a.state.heads], "refs")
                ELSE IF NothingPushed(p, a.state) THEN Ends(p, "empty")
                ELSE Calls(p, "tree"))
  BY DEF Heads
<1>2. page.call = "heads"
  BY DEF Heads, At
<1>3. /\ Repository /\ Made(page) /\ Typed(page) /\ Admits(page)
      /\ page.diff = <<>> /\ page.pinned = FALSE /\ page.bytes = None
  BY <1>2, PageBefore
<1>4. a.stale \in BOOLEAN
  BY <1>3, AnswerFrom
<1> DEFINE p == Got(a)
           h == [p EXCEPT !.heads = a.state.heads]
           q == IF p.screen = "refs" THEN Ends(h, "refs")
                ELSE IF NothingPushed(p, a.state) THEN Ends(p, "empty")
                ELSE Calls(p, "tree")
<1>5. Gets(a, p)
  BY <1>3, <1>4, GotGets
<1> HIDE DEF p
<1>6. Carries(p, h)
  BY <1>2, <1>5 DEF Blank, Carries, Gets
<1> HIDE DEF h
<1>7. /\ Carries(p, q)
      /\ \/ q.call = "none" /\ q.kind = "refs"
         \/ q.call = "none" /\ q.kind = "empty"
         \/ q.call = "tree"
  <2>1. CASE p.screen = "refs"
    BY <1>2, <1>5, <1>6, <2>1, EndsCarries DEF Carries, Gets
  <2>2. CASE p.screen # "refs" /\ NothingPushed(p, a.state)
    BY <1>2, <1>5, <2>2, EndsCarries DEF Gets
  <2>3. CASE p.screen # "refs" /\ ~NothingPushed(p, a.state)
    BY <1>2, <1>5, <2>3, CallsCarries DEF Gets
  <2>4. QED
    BY <2>1, <2>2, <2>3
<1>8. Becomes(q)
  BY <1>1 DEF p, h
<1> HIDE DEF q
<1>9. Typed(q)
  BY <1>2, <1>3, <1>5, <1>7 DEF Typed, Carries, Gets
<1>10. Compares(q) /\ Finds(q) /\ Orders(q)
  BY <1>2, <1>3, <1>5, <1>7 DEF Compares, Finds, Orders, Ended, Carries, Gets
<1>11. Admits(q)
  BY <1>2, <1>3, <1>5, <1>7 DEF Admits, Carries, Gets
<1>12. QED
  BY <1>3, <1>8, <1>9, <1>10, <1>11, Becoming DEF Made, Becomes

\* A page that says the screen found nothing, or failed.
LEMMA MessageKeeps ==
  ASSUME Repository, NEW kind \in {"missing", "notfound", "failed"}, Becomes(Message(kind))
  PROVE  Inv'
<1>1. Made(Message(kind))
  BY BlankMade
<1>2. QED
  BY <1>1, Becoming DEF Becomes

LEMMA TreeKeeps ==
  ASSUME Inv, Tree
  PROVE  Inv'
<1>1. PICK a \in Answer :
        LET c == Resolved(a.state, page.ref) IN
        Becomes(
          IF c = None THEN Message("missing")
          ELSE LET behind == After(DOMAIN Dir(c), page.cursor)
                   rows == FirstOf(behind)
                   p == [Says(Got(a), a) EXCEPT
                          !.at = c, !.items = [f \in rows |-> Dir(c)[f]], !.next = NextOf(behind),
                          !.seen = Rows(page, rows)] IN
               IF p.screen = "overview" THEN Calls(p, "last") ELSE Ends(p, "listing"))
  BY DEF Tree
<1>2. page.call = "tree"
  BY DEF Tree, At
<1>3. /\ Repository /\ Made(page) /\ Typed(page) /\ Admits(page)
      /\ page.diff = <<>> /\ page.pinned = FALSE /\ page.bytes = None
  BY <1>2, PageBefore
<1>4. a.stale \in BOOLEAN
  BY <1>3, AnswerFrom
<1> DEFINE c == Resolved(a.state, page.ref)
           behind == After(DOMAIN Dir(c), page.cursor)
           rows == FirstOf(behind)
           g == Says(Got(a), a)
           p == [g EXCEPT !.at = c, !.items = [f \in rows |-> Dir(c)[f]], !.next = NextOf(behind),
                          !.seen = Rows(page, rows)]
           q == IF p.screen = "overview" THEN Calls(p, "last") ELSE Ends(p, "listing")
<1>5. CASE c = None
  BY <1>1, <1>3, <1>5, MessageKeeps
<1>6. CASE c # None
  <2>1. Becomes(q)
    BY <1>1, <1>6
  <2>2. Gets(a, g) /\ (a.stale => g.says)
    BY <1>3, <1>4, SaysGets
  <2>3. c \in 0..Len(commits) /\ DOMAIN Dir(c) \subseteq File
    BY <1>3, <1>6, AnswerCommit
  <2>4. rows \subseteq DOMAIN Dir(c)
    BY DEF FirstOf, After
  <2> HIDE DEF g, rows, behind
  <2>5. /\ DOMAIN p = DOMAIN Blank /\ p.screen = g.screen /\ p.ref = g.ref
        /\ p.at = c /\ p.items = [f \in rows |-> Dir(c)[f]] /\ p.bytes = g.bytes
        /\ p.last = g.last /\ p.diff = g.diff /\ p.pinned = g.pinned /\ p.says = g.says
        /\ p.sent = g.sent /\ p.aged = g.aged
    BY <2>2 DEF Gets, Blank
  <2> HIDE DEF p
  <2>6. Carries(p, q) /\ (q.call = "last" \/ (q.call = "none" /\ q.kind = "listing"))
    <3>1. CASE p.screen = "overview"
      BY <2>5, <3>1, CallsCarries
    <3>2. CASE p.screen # "overview"
      BY <2>5, <3>2, EndsCarries
    <3>3. QED
      BY <3>1, <3>2
  <2>7. a.stale => q.aged # {}
    BY <2>2, <2>5, <2>6 DEF Gets, Carries
  <2>8. q.sent \in 1..Len(past)
    BY <1>3, <2>2, <2>5, <2>6 DEF Gets, Carries, Typed
  <2>9. q.aged = {} => a.state = past[Len(past)] /\ Len(past) \in q.sent..Len(past)
    BY <1>3, <2>7, <2>8, AnswerSeen
  <2> HIDE DEF q
  <2>10. Typed(q)
    <3>1. DOMAIN p.items \subseteq File
      BY <2>3, <2>4, <2>5
    <3>2. QED
      BY <1>3, <2>2, <2>3, <2>5, <2>6, <3>1 DEF Typed, Gets, Carries
  <2>11. Compares(q) /\ Finds(q)
    BY <1>2, <1>3, <2>2, <2>5, <2>6 DEF Compares, Finds, Ended, Gets, Carries
  <2>12. Admits(q)
    BY <1>2, <1>3, <2>2, <2>5, <2>6 DEF Admits, Gets, Carries
  <2>13. Orders(q)
    <3>1. q.at = c /\ q.ref = page.ref /\ q.bytes = None
      BY <1>3, <2>2, <2>5, <2>6 DEF Gets, Carries
    <3>2. \A f \in DOMAIN q.items : f \in DOMAIN Dir(c) /\ q.items[f] = Dir(c)[f]
      BY <2>4, <2>5, <2>6 DEF Carries
    <3>3. q.aged = {} => \E i \in q.sent..Len(past) : Resolved(past[i], q.ref) = q.at
      BY <2>9, <3>1
    <3>4. QED
      BY <1>6, <2>6, <3>1, <3>2, <3>3 DEF Orders, Ended
  <2>14. QED
    BY <1>3, <2>1, <2>10, <2>11, <2>12, <2>13, Becoming DEF Made, Becomes
<1>7. QED
  BY <1>5, <1>6

LEMMA LastKeeps ==
  ASSUME Inv, Last
  PROVE  Inv'
<1>1. PICK a \in Answer :
        LET c == Resolved(a.state, LogRef(page.ref))
            p == [Got(a) EXCEPT !.last = c] IN
        Becomes(IF c = None /\ ~NoBranch(a.state) THEN Message("missing")
                ELSE IF Readme \in DOMAIN page.items THEN Calls(p, "readme")
                ELSE Ends(p, "overview"))
  BY DEF Last
<1>2. page.call = "last"
  BY DEF Last, At
<1>3. /\ Repository /\ Made(page) /\ Typed(page) /\ Admits(page)
      /\ page.diff = <<>> /\ page.pinned = FALSE /\ page.bytes = None
  BY <1>2, PageBefore
<1>4. a.stale \in BOOLEAN
  BY <1>3, AnswerFrom
<1> DEFINE c == Resolved(a.state, LogRef(page.ref))
           g == Got(a)
           p == [g EXCEPT !.last = c]
           q == IF Readme \in DOMAIN page.items THEN Calls(p, "readme") ELSE Ends(p, "overview")
<1>5. CASE c = None /\ ~NoBranch(a.state)
  BY <1>1, <1>3, <1>5, MessageKeeps
<1>6. CASE ~(c = None /\ ~NoBranch(a.state))
  <2>1. Becomes(q)
    BY <1>1, <1>6
  <2>2. Gets(a, g)
    BY <1>3, <1>4, GotGets
  <2>3. c \in 0..Len(commits) /\ c = Resolved(a.state, page.ref)
    BY <1>3, AnswerCommit DEF LogRef
  <2> HIDE DEF g
  <2>4. /\ DOMAIN p = DOMAIN Blank /\ p.screen = g.screen /\ p.ref = g.ref
        /\ p.at = g.at /\ p.items = g.items /\ p.bytes = g.bytes
        /\ p.last = c /\ p.diff = g.diff /\ p.pinned = g.pinned /\ p.says = g.says
        /\ p.sent = g.sent /\ p.aged = g.aged
    BY <2>2 DEF Gets, Blank
  <2> HIDE DEF p
  <2>5. /\ Carries(p, q)
        /\ \/ q.call = "readme" /\ Readme \in DOMAIN page.items
           \/ q.call = "none" /\ q.kind = "overview"
    BY <2>4, CallsCarries, EndsCarries
  <2>6. a.stale => q.aged # {}
    BY <2>2, <2>4, <2>5 DEF Gets, Carries
  <2>7. q.sent \in 1..Len(past) /\ q.sent = page.sent /\ page.aged \subseteq q.aged
    BY <1>3, <2>2, <2>4, <2>5 DEF Gets, Carries, Typed
  <2>8. q.aged = {} => a.state = past[Len(past)] /\ Len(past) \in q.sent..Len(past)
    BY <1>3, <2>6, <2>7, AnswerSeen
  <2> HIDE DEF q
  <2>9. Typed(q)
    BY <1>3, <2>2, <2>3, <2>4, <2>5 DEF Typed, Gets, Carries
  <2>10. Compares(q) /\ Finds(q)
    BY <1>2, <1>3, <2>2, <2>4, <2>5 DEF Compares, Finds, Ended, Gets, Carries
  <2>11. Admits(q)
    BY <1>2, <1>3, <2>2, <2>4, <2>5 DEF Admits, Gets, Carries
  <2>12. Orders(q)
    <3>1. /\ q.at = page.at /\ q.ref = page.ref /\ q.bytes = None /\ q.last = c
          /\ q.items = page.items
      BY <1>3, <2>2, <2>4, <2>5 DEF Gets, Carries
    <3>2. Orders(page)
      BY <1>3 DEF Made
    <3>3. /\ page.at # None
          /\ \A f \in DOMAIN page.items : f \in DOMAIN Dir(page.at) /\ page.items[f] = Dir(page.at)[f]
      BY <1>2, <3>2 DEF Orders
    <3>4. q.aged = {} => \E i, j \in q.sent..Len(past) : Pair(q, i, j)
      <4>1. SUFFICES ASSUME q.aged = {}
                     PROVE  \E i, j \in q.sent..Len(past) : Pair(q, i, j)
        OBVIOUS
      <4>2. PICK i \in page.sent..Len(past) : Resolved(past[i], page.ref) = page.at
        BY <1>2, <2>7, <3>2, <4>1 DEF Orders
      <4>3. Resolved(past[Len(past)], q.ref) = q.last /\ Len(past) \in q.sent..Len(past)
        BY <2>3, <2>8, <3>1, <4>1
      <4>4. i <= Len(past) /\ i \in q.sent..Len(past)
        BY <2>7
      <4>5. Pair(q, i, Len(past))
        BY <3>1, <4>2, <4>3, <4>4 DEF Pair
      <4>6. QED
        BY <4>3, <4>4, <4>5
    <3>5. QED
      BY <2>5, <3>1, <3>3, <3>4 DEF Orders, Ended
  <2>13. QED
    BY <1>3, <2>1, <2>9, <2>10, <2>11, <2>12, Becoming DEF Made, Becomes
<1>7. QED
  BY <1>5, <1>6

\* The readme: the blob the page of the directory in hand lists, or nothing.
LEMMA ReadReadmeKeeps ==
  ASSUME Inv, ReadReadme
  PROVE  Inv'
<1>1. page.call = "readme"
  BY DEF ReadReadme, At
<1>2. /\ Repository /\ Made(page) /\ Typed(page) /\ Admits(page)
      /\ page.diff = <<>> /\ page.pinned = FALSE /\ page.bytes = None
  BY <1>1, PageBefore
<1>3. Orders(page)
  BY <1>2 DEF Made
<1>4. ASSUME NEW g, DOMAIN g = DOMAIN Blank, g.screen = page.screen, g.ref = page.ref,
             g.at = page.at, g.items = page.items, g.last = page.last, g.diff = page.diff,
             g.pinned = page.pinned, g.sent = page.sent,
             g.bytes \in {None, page.items[Readme]},
             g.aged \in {page.aged, page.aged \cup {"readme"}},
             g.says \in BOOLEAN, page.says => g.says,
             Becomes(Ends(g, "overview"))
      PROVE  Inv'
  <2> DEFINE q == Ends(g, "overview")
  <2>1. Carries(g, q) /\ q.call = "none" /\ q.kind = "overview"
    BY <1>4, EndsCarries
  <2> HIDE DEF q
  <2>2. Typed(q)
    BY <1>2, <1>4, <2>1 DEF Typed, Carries
  <2>3. Compares(q) /\ Finds(q)
    BY <1>2, <1>4, <2>1 DEF Compares, Finds, Ended, Carries
  <2>4. Admits(q)
    BY <1>2, <1>4, <2>1 DEF Admits, Carries
  <2>5. Orders(q)
    <3>1. /\ page.at # None /\ Readme \in DOMAIN page.items
          /\ page.items[Readme] = Dir(page.at)[Readme]
      BY <1>1, <1>3 DEF Orders
    <3>2. q.bytes # None => q.bytes = Dir(q.at)[Readme]
      BY <1>4, <2>1, <3>1 DEF Carries
    <3>3. q.aged = {} => page.aged = {}
      BY <1>4, <2>1 DEF Carries
    <3>4. q.sent = page.sent /\ q.at = page.at /\ q.ref = page.ref /\ q.last = page.last
      BY <1>4, <2>1 DEF Carries
    <3>5. q.aged = {} /\ q.last # None => \E i, j \in q.sent..Len(past) : Pair(q, i, j)
      BY <1>1, <1>3, <3>3, <3>4 DEF Orders, Pair
    <3>6. QED
      BY <2>1, <3>1, <3>2, <3>4, <3>5 DEF Orders, Ended
  <2>6. QED
    BY <1>2, <1>4, <2>2, <2>3, <2>4, <2>5, Becoming DEF Made, Becomes, q
<1>5. CASE Becomes(Ends(page, "overview"))
  <2>1. DOMAIN page = DOMAIN Blank /\ page.says \in BOOLEAN
    BY <1>2 DEF Typed
  <2>2. QED
    BY <1>2, <1>4, <1>5, <2>1
<1>6. CASE \E a \in Answer : /\ Holds(a.state, page.items[Readme])
                             /\ Becomes(Ends([Got(a) EXCEPT !.bytes = page.items[Readme]], "overview"))
  <2>1. PICK a \in Answer : Becomes(Ends([Got(a) EXCEPT !.bytes = page.items[Readme]], "overview"))
    BY <1>6
  <2> DEFINE o == Got(a)
             g == [o EXCEPT !.bytes = page.items[Readme]]
  <2>2. Gets(a, o)
    BY <1>2, AnswerFrom, GotGets
  <2> HIDE DEF o
  <2>3. /\ DOMAIN g = DOMAIN Blank /\ g.screen = o.screen /\ g.ref = o.ref
        /\ g.at = o.at /\ g.items = o.items /\ g.bytes = page.items[Readme]
        /\ g.last = o.last /\ g.diff = o.diff /\ g.pinned = o.pinned /\ g.says = o.says
        /\ g.sent = o.sent /\ g.aged = o.aged
    BY <2>2 DEF Gets, Blank
  <2>4. Becomes(Ends(g, "overview"))
    BY <2>1 DEF o
  <2> HIDE DEF g
  <2>5. g.aged \in {page.aged, page.aged \cup {"readme"}}
    BY <1>1, <2>2, <2>3 DEF Gets
  <2>6. QED
    BY <1>4, <2>2, <2>3, <2>4, <2>5 DEF Gets
<1>7. QED
  BY <1>5, <1>6 DEF ReadReadme

LEMMA FindEntryKeeps ==
  ASSUME Inv, FindEntry
  PROVE  Inv'
<1>1. PICK a \in Answer :
        LET c == Resolved(a.state, page.ref) IN
        Becomes(
          IF c = None THEN Message("missing")
          ELSE LET rows == FirstOf(DOMAIN Dir(c)) IN
               IF page.file \notin rows THEN Message("notfound")
               ELSE Calls([Got(a) EXCEPT !.at = MetaCommit(page, c),
                                         !.items = [f \in rows |-> Dir(c)[f]]], "bytes"))
  BY DEF FindEntry
<1>2. page.call = "entry"
  BY DEF FindEntry, At
<1>3. /\ Repository /\ Made(page) /\ Typed(page) /\ Admits(page)
      /\ page.diff = <<>> /\ page.pinned = FALSE /\ page.bytes = None
  BY <1>2, PageBefore
<1>4. a.stale \in BOOLEAN
  BY <1>3, AnswerFrom
<1> DEFINE c == Resolved(a.state, page.ref)
           rows == FirstOf(DOMAIN Dir(c))
           g == Got(a)
           p == [g EXCEPT !.at = c, !.items = [f \in rows |-> Dir(c)[f]]]
           q == Calls(p, "bytes")
<1>5. CASE c = None
  BY <1>1, <1>3, <1>5, MessageKeeps
<1>6. CASE c # None /\ page.file \notin rows
  BY <1>1, <1>3, <1>6, MessageKeeps
<1>7. CASE c # None /\ page.file \in rows
  <2>1. Becomes(q)
    BY <1>1, <1>7 DEF MetaCommit
  <2>2. Gets(a, g)
    BY <1>3, <1>4, GotGets
  <2>3. c \in 0..Len(commits) /\ DOMAIN Dir(c) \subseteq File
    BY <1>3, <1>7, AnswerCommit
  <2>4. rows \subseteq DOMAIN Dir(c)
    BY DEF FirstOf
  <2>5. page.file \in rows
    BY <1>7
  <2> HIDE DEF g, rows
  <2>6. /\ DOMAIN p = DOMAIN Blank /\ p.screen = g.screen /\ p.ref = g.ref /\ p.file = g.file
        /\ p.at = c /\ p.items = [f \in rows |-> Dir(c)[f]] /\ p.bytes = g.bytes
        /\ p.last = g.last /\ p.diff = g.diff /\ p.pinned = g.pinned /\ p.says = g.says
        /\ p.sent = g.sent /\ p.aged = g.aged
    BY <2>2 DEF Gets, Blank
  <2> HIDE DEF p
  <2>7. Carries(p, q) /\ q.call = "bytes"
    BY <2>6, CallsCarries
  <2> HIDE DEF q
  <2>8. a.stale => q.aged # {}
    BY <2>2, <2>6, <2>7 DEF Gets, Carries
  <2>9. q.sent \in 1..Len(past)
    BY <1>3, <2>2, <2>6, <2>7 DEF Gets, Carries, Typed
  <2>10. Typed(q)
    <3>1. DOMAIN p.items \subseteq File
      BY <2>3, <2>4, <2>6
    <3>2. QED
      BY <1>3, <2>2, <2>3, <2>6, <2>7, <3>1 DEF Typed, Gets, Carries
  <2>11. Compares(q) /\ Orders(q)
    BY <1>2, <1>3, <2>2, <2>6, <2>7 DEF Compares, Orders, Ended, Gets, Carries
  <2>12. Admits(q)
    BY <1>2, <1>3, <2>2, <2>6, <2>7 DEF Admits, Gets, Carries
  <2>13. Finds(q)
    <3>1. q.at = c /\ q.ref = page.ref /\ q.file = page.file /\ q.pinned = FALSE
      BY <1>3, <2>2, <2>6, <2>7 DEF Gets, Carries
    <3>2. Was(q)
      BY <1>3, <2>8, <2>9, <3>1, AnswerSeen DEF Was
    <3>3. q.file \in DOMAIN q.items /\ q.file \in DOMAIN Dir(c) /\ q.items[q.file] = Dir(c)[q.file]
      BY <2>4, <2>5, <2>6, <2>7, <3>1 DEF Carries
    <3>4. QED
      BY <1>7, <2>7, <3>1, <3>2, <3>3 DEF Finds, Ended
  <2>14. QED
    BY <1>3, <2>1, <2>10, <2>11, <2>12, <2>13, Becoming DEF Made, Becomes
<1>8. QED
  BY <1>5, <1>6, <1>7

LEMMA ReadBytesKeeps ==
  ASSUME Inv, ReadBytes
  PROVE  Inv'
<1>1. PICK a \in Answer :
        Becomes(
          IF ~Holds(a.state, page.items[page.file]) THEN Message("missing")
          ELSE Ends([Got(a) EXCEPT !.bytes = page.items[page.file],
                      !.items = <<>>,
                      !.pinned = page.screen = "blob" /\ Pinned(page.ref, page.at)], "file"))
  BY DEF ReadBytes
<1>2. page.call = "bytes"
  BY DEF ReadBytes, At
<1>3. /\ Repository /\ Made(page) /\ Typed(page) /\ Admits(page)
      /\ page.diff = <<>> /\ page.pinned = FALSE /\ page.bytes = None
  BY <1>2, PageBefore
<1>4. a.stale \in BOOLEAN
  BY <1>3, AnswerFrom
<1> DEFINE g == Got(a)
           p == [g EXCEPT !.bytes = page.items[page.file],
                          !.items = <<>>,
                          !.pinned = page.screen = "blob" /\ Pinned(page.ref, page.at)]
           q == Ends(p, "file")
<1>5. CASE ~Holds(a.state, page.items[page.file])
  BY <1>1, <1>3, <1>5, MessageKeeps
<1>6. CASE Holds(a.state, page.items[page.file])
  <2>1. Becomes(q)
    BY <1>1, <1>6
  <2>2. Gets(a, g)
    BY <1>3, <1>4, GotGets
  <2> HIDE DEF g
  <2>3. /\ DOMAIN p = DOMAIN Blank /\ p.screen = g.screen /\ p.ref = g.ref /\ p.file = g.file
        /\ p.at = g.at /\ p.items = <<>> /\ p.bytes = page.items[page.file]
        /\ p.last = g.last /\ p.diff = g.diff /\ p.says = g.says
        /\ p.sent = g.sent /\ p.aged = g.aged
    BY <2>2 DEF Gets, Blank
  <2>4. p.pinned => Pinned(page.ref, page.at)
    BY <2>2 DEF Gets, Blank
  <2> HIDE DEF p
  <2>5. Carries(p, q) /\ q.call = "none" /\ q.kind = "file"
    BY <2>3, EndsCarries
  <2> HIDE DEF q
  <2>6. /\ q.at = page.at /\ q.ref = page.ref /\ q.file = page.file /\ q.sent = page.sent
        /\ page.aged \subseteq q.aged /\ q.items = <<>> /\ q.bytes = page.items[page.file]
        /\ (q.pinned => Pinned(page.ref, page.at))
    BY <2>2, <2>3, <2>4, <2>5 DEF Gets, Carries
  <2>7. Typed(q)
    <3>1. DOMAIN q.items \subseteq File \cup Commit
      BY <2>6, NoRows
    <3>2. QED
      BY <1>3, <2>2, <2>3, <2>5, <3>1 DEF Typed, Gets, Carries
  <2>8. Compares(q) /\ Orders(q)
    BY <1>2, <1>3, <2>2, <2>3, <2>5 DEF Compares, Orders, Ended, Gets, Carries
  <2>9. Admits(q)
    BY <1>2, <1>3, <2>2, <2>3, <2>5 DEF Admits, Gets, Carries
  <2>10. Finds(q)
    <3>1. /\ page.at # None /\ Was(page) /\ page.file \in DOMAIN Dir(page.at)
          /\ page.items[page.file] = Dir(page.at)[page.file]
      BY <1>2, <1>3 DEF Made, Finds
    <3>2. Seen(page) \subseteq Seen(q)
      BY <1>3, <2>6, SeenGrows DEF Typed
    <3>3. Was(q)
      BY <2>6, <3>1, <3>2 DEF Was
    <3>4. QED
      BY <2>5, <2>6, <3>1, <3>3 DEF Finds, Ended
  <2>11. QED
    BY <1>3, <2>1, <2>7, <2>8, <2>9, <2>10, Becoming DEF Made, Becomes
<1>7. QED
  BY <1>5, <1>6

LEMMA LogKeeps ==
  ASSUME Inv, Log
  PROVE  Inv'
<1>1. PICK a \in Answer :
        LET c == Resolved(a.state, page.ref) IN
        Becomes(
          IF c = None THEN IF NoBranch(a.state) THEN Ends(Says(Got(a), a), "log")
                           ELSE Message("missing")
          ELSE LET behind == Before(commits[c].line, page.cursor)
                   rows == NewestOf(behind) IN
               Ends([Says(Got(a), a) EXCEPT
                      !.at = c, !.items = [x \in rows |-> x], !.next = OlderOf(behind),
                      !.seen = Rows(page, rows)], "log"))
  BY DEF Log
<1>2. page.call = "log"
  BY DEF Log, At
<1>3. /\ Repository /\ Made(page) /\ Typed(page) /\ Admits(page)
      /\ page.diff = <<>> /\ page.pinned = FALSE /\ page.bytes = None
  BY <1>2, PageBefore
<1>4. a.stale \in BOOLEAN
  BY <1>3, AnswerFrom
<1> DEFINE c == Resolved(a.state, page.ref)
           behind == Before(commits[c].line, page.cursor)
           rows == NewestOf(behind)
           g == Says(Got(a), a)
           p == [g EXCEPT !.at = c, !.items = [x \in rows |-> x], !.next = OlderOf(behind),
                          !.seen = Rows(page, rows)]
<1>5. Gets(a, g) /\ (a.stale => g.says)
  BY <1>3, <1>4, SaysGets
<1>6. ASSUME NEW o, DOMAIN o = DOMAIN Blank, o.screen = page.screen, o.ref = page.ref,
             o.at \in 0..Len(commits), DOMAIN o.items \subseteq File \cup Commit,
             o.last = page.last, o.sent = page.sent, o.pinned = FALSE,
             o.aged = g.aged, o.says = g.says, Becomes(Ends(o, "log"))
      PROVE  Inv'
  <2> DEFINE q == Ends(o, "log")
  <2>1. Carries(o, q) /\ q.call = "none" /\ q.kind = "log"
    BY <1>6, EndsCarries
  <2> HIDE DEF q, g
  <2>2. Typed(q)
    BY <1>3, <1>5, <1>6, <2>1 DEF Typed, Gets, Carries
  <2>3. Compares(q) /\ Finds(q) /\ Orders(q)
    BY <1>3, <1>6, <2>1 DEF Compares, Finds, Orders, Ended, Carries
  <2>4. Admits(q)
    BY <1>2, <1>3, <1>5, <1>6, <2>1 DEF Admits, Gets, Carries
  <2>5. QED
    BY <1>3, <1>6, <2>2, <2>3, <2>4, Becoming DEF Made, Becomes, q
<1>7. CASE c = None /\ NoBranch(a.state)
  <2>1. Becomes(Ends(g, "log"))
    BY <1>1, <1>7
  <2> HIDE DEF g
  <2>2. g.at \in 0..Len(commits) /\ DOMAIN g.items \subseteq File \cup Commit
    BY <1>3, <1>5 DEF Gets, Typed
  <2>3. QED
    BY <1>3, <1>5, <1>6, <2>1, <2>2 DEF Gets
<1>8. CASE c = None /\ ~NoBranch(a.state)
  BY <1>1, <1>3, <1>8, MessageKeeps
<1>9. CASE c # None
  <2>1. Becomes(Ends(p, "log"))
    BY <1>1, <1>9
  <2>2. c \in 0..Len(commits) /\ commits[c].line \subseteq Commit
    BY <1>3, <1>9, AnswerCommit
  <2>3. rows \subseteq commits[c].line
    BY DEF NewestOf, Before
  <2> HIDE DEF g, rows, behind
  <2>4. /\ DOMAIN p = DOMAIN Blank /\ p.screen = g.screen /\ p.ref = g.ref
        /\ p.at = c /\ p.items = [x \in rows |-> x]
        /\ p.last = g.last /\ p.pinned = g.pinned /\ p.says = g.says
        /\ p.sent = g.sent /\ p.aged = g.aged
    BY <1>5 DEF Gets, Blank
  <2> HIDE DEF p
  <2>5. DOMAIN p.items \subseteq File \cup Commit
    BY <2>2, <2>3, <2>4
  <2>6. QED
    BY <1>3, <1>5, <1>6, <2>1, <2>2, <2>4, <2>5 DEF Gets
<1>10. QED
  BY <1>7, <1>8, <1>9

LEMMA ReadCommitKeeps ==
  ASSUME Inv, ReadCommit
  PROVE  Inv'
<1>1. PICK a \in Answer :
        LET c == Resolved(a.state, page.rev)
            p == [Says(Got(a), a) EXCEPT !.at = c] IN
        Becomes(IF c = None THEN Message("missing")
                ELSE IF commits[c].parent # None THEN Calls(p, "compare")
                ELSE IF page.screen = "commit" THEN Ends(p, "commit")
                ELSE Message("notfound"))
  BY DEF ReadCommit
<1>2. page.call = "commit"
  BY DEF ReadCommit, At
<1>3. /\ Repository /\ Made(page) /\ Typed(page) /\ Admits(page)
      /\ page.diff = <<>> /\ page.pinned = FALSE /\ page.bytes = None
  BY <1>2, PageBefore
<1>4. a.stale \in BOOLEAN
  BY <1>3, AnswerFrom
<1> DEFINE c == Resolved(a.state, page.rev)
           g == Says(Got(a), a)
           p == [g EXCEPT !.at = c]
           q == IF commits[c].parent # None THEN Calls(p, "compare") ELSE Ends(p, "commit")
<1>5. CASE c = None
  BY <1>1, <1>3, <1>5, MessageKeeps
<1>6. CASE c # None /\ commits[c].parent = None /\ page.screen # "commit"
  BY <1>1, <1>3, <1>6, MessageKeeps
<1>7. CASE c # None /\ (commits[c].parent # None \/ page.screen = "commit")
  <2>1. Becomes(q)
    BY <1>1, <1>7
  <2>2. Gets(a, g)
    BY <1>3, <1>4, SaysGets
  <2>3. c \in 0..Len(commits)
    BY <1>3, AnswerCommit
  <2> HIDE DEF g
  <2>4. /\ DOMAIN p = DOMAIN Blank /\ p.screen = g.screen /\ p.ref = g.ref
        /\ p.at = c /\ p.items = g.items /\ p.bytes = g.bytes
        /\ p.last = g.last /\ p.diff = g.diff /\ p.pinned = g.pinned /\ p.says = g.says
        /\ p.sent = g.sent /\ p.aged = g.aged
    BY <2>2 DEF Gets, Blank
  <2> HIDE DEF p
  <2>5. /\ Carries(p, q)
        /\ \/ q.call = "compare" /\ commits[c].parent # None
           \/ q.call = "none" /\ q.kind = "commit" /\ commits[c].parent = None
    <3>1. CASE commits[c].parent # None
      BY <2>4, <3>1, CallsCarries
    <3>2. CASE commits[c].parent = None
      BY <2>4, <3>2, EndsCarries
    <3>3. QED
      BY <3>1, <3>2
  <2> HIDE DEF q
  <2>6. Typed(q)
    BY <1>3, <2>2, <2>3, <2>4, <2>5 DEF Typed, Gets, Carries
  <2>7. Finds(q) /\ Orders(q)
    BY <1>2, <1>3, <2>2, <2>4, <2>5 DEF Finds, Orders, Ended, Gets, Carries
  <2>8. Admits(q)
    BY <1>2, <1>3, <2>2, <2>4, <2>5 DEF Admits, Gets, Carries
  <2>9. Compares(q)
    <3>1. q.at = c /\ q.diff = <<>>
      BY <1>3, <2>2, <2>4, <2>5 DEF Gets, Carries
    <3>2. QED
      BY <1>7, <2>5, <3>1 DEF Compares, Ended
  <2>10. QED
    BY <1>3, <2>1, <2>6, <2>7, <2>8, <2>9, Becoming DEF Made, Becomes
<1>8. QED
  BY <1>5, <1>6, <1>7

\* The difference: both sides are object ids, whatever the branches became.
LEMMA CompareKeeps ==
  ASSUME Inv, Compare
  PROVE  Inv'
<1>1. PICK a \in Answer :
        LET base == Resolved(a.state, commits[page.at].parent)
            head == Resolved(a.state, Compared(page)) IN
        Becomes(IF base = None \/ head = None THEN Message("missing")
                ELSE Ends([Got(a) EXCEPT !.diff = <<base, head>>], "commit"))
  BY DEF Compare
<1>2. page.call = "compare"
  BY DEF Compare, At
<1>3. /\ Repository /\ Made(page) /\ Typed(page) /\ Admits(page)
      /\ page.diff = <<>> /\ page.pinned = FALSE /\ page.bytes = None
  BY <1>2, PageBefore
<1>4. a.stale \in BOOLEAN /\ a.state \in StateSet
  BY <1>3, AnswerFrom
<1>5. page.at # None /\ commits[page.at].parent # None
  BY <1>2, <1>3 DEF Made, Compares
<1>6. page.at \in Commit /\ commits[page.at].parent \in Commit
  <2>1. /\ Len(commits) \in Nat /\ Len(commits) <= MaxPush /\ MaxPush \in Nat
        /\ page.at \in 1..Len(commits)
    BY <1>3, <1>5, ReadingAssumption DEF Repository, Typed, None
  <2>2. commits[page.at] \in CommitSet
    BY <1>3, <2>1 DEF Repository
  <2>3. QED
    BY <1>5, <2>1, <2>2 DEF CommitSet, Commit, None
<1> DEFINE base == Resolved(a.state, commits[page.at].parent)
           head == Resolved(a.state, Compared(page))
           g == Got(a)
           p == [g EXCEPT !.diff = <<base, head>>]
           q == Ends(p, "commit")
<1>7. base \in {commits[page.at].parent, None} /\ head \in {page.at, None}
  BY <1>4, <1>6, ResolvedCommit DEF Compared
<1>8. CASE base = None \/ head = None
  BY <1>1, <1>3, <1>8, MessageKeeps
<1>9. CASE ~(base = None \/ head = None)
  <2>1. Becomes(q)
    BY <1>1, <1>9
  <2>2. Gets(a, g)
    BY <1>3, <1>4, GotGets
  <2>3. base = commits[page.at].parent /\ head = page.at
    BY <1>7, <1>9
  <2> HIDE DEF g, base, head
  <2>4. /\ DOMAIN p = DOMAIN Blank /\ p.screen = g.screen /\ p.ref = g.ref
        /\ p.at = g.at /\ p.items = g.items /\ p.bytes = g.bytes
        /\ p.last = g.last /\ p.diff = <<base, head>> /\ p.pinned = g.pinned /\ p.says = g.says
        /\ p.sent = g.sent /\ p.aged = g.aged
    BY <2>2 DEF Gets, Blank
  <2> HIDE DEF p
  <2>5. Carries(p, q) /\ q.call = "none" /\ q.kind = "commit"
    BY <2>4, EndsCarries
  <2> HIDE DEF q
  <2>6. Typed(q)
    BY <1>3, <2>2, <2>4, <2>5 DEF Typed, Gets, Carries
  <2>7. Finds(q) /\ Orders(q)
    BY <1>2, <1>3, <2>2, <2>4, <2>5 DEF Finds, Orders, Ended, Gets, Carries
  <2>8. Admits(q)
    BY <1>2, <1>3, <2>2, <2>4, <2>5 DEF Admits, Gets, Carries
  <2>9. Compares(q)
    <3>1. q.at = page.at /\ q.diff = <<commits[page.at].parent, page.at>>
      BY <2>2, <2>3, <2>4, <2>5 DEF Gets, Carries
    <3>2. QED
      BY <1>5, <2>5, <3>1 DEF Compares, Ended
  <2>10. QED
    BY <1>3, <2>1, <2>6, <2>7, <2>8, <2>9, Becoming DEF Made, Becomes
<1>10. QED
  BY <1>8, <1>9

----------------------------------------------------------------------------
\* The reader asks for a page, or leaves it.
LEMMA AskKeeps ==
  ASSUME Inv, NEW screen \in Screen, NEW ref \in Ref \cup {None}, NEW rev, NEW file,
         Ask(screen, ref, rev, file)
  PROVE  Inv'
<1> DEFINE p == [Blank EXCEPT !.screen = screen, !.ref = ref, !.rev = rev, !.file = file,
                              !.walk = Begun(screen, ref)]
<1>1. page' = Asked(p) /\ UNCHANGED <<commits, past>>
  BY DEF Ask
<1>2. /\ DOMAIN p = DOMAIN Blank /\ p.screen = screen /\ p.ref = ref
      /\ p.at = None /\ p.last = None /\ p.items = <<>> /\ p.says = FALSE
      /\ p.aged = {} /\ p.pinned = FALSE /\ p.diff = <<>> /\ p.bytes = None
  BY DEF Blank
<1> HIDE DEF p
<1>3. Made(Asked(p))
  BY <1>2, AskedMade DEF Inv
<1>4. QED
  BY <1>1, <1>3, Becoming DEF Inv

LEMMA FollowKeeps ==
  ASSUME Inv, Follow
  PROVE  Inv'
<1> DEFINE p == [Blank EXCEPT
             !.screen = IF page.screen = "log" THEN "log" ELSE "tree",
             !.ref = IF page.screen = "overview" THEN None ELSE RefQuery(page.ref),
             !.cursor = page.next, !.seen = page.seen,
             !.walk = [page.walk EXCEPT !.aged = @ \/ page.aged # {}]]
<1>1. page' = Asked(p) /\ UNCHANGED <<commits, past>>
  BY DEF Follow
<1>2. /\ DOMAIN p = DOMAIN Blank
      /\ p.screen = (IF page.screen = "log" THEN "log" ELSE "tree")
      /\ p.ref = (IF page.screen = "overview" THEN None ELSE RefQuery(page.ref))
      /\ p.at = None /\ p.last = None /\ p.items = <<>> /\ p.says = FALSE
      /\ p.aged = {} /\ p.pinned = FALSE /\ p.diff = <<>> /\ p.bytes = None
  BY DEF Blank
<1> HIDE DEF p
<1>3. p.ref \in Ref \cup {None} /\ p.screen \in Screen
  BY <1>2 DEF Inv, Made, Typed, RefQuery, Screen
<1>4. Made(Asked(p))
  BY <1>2, <1>3, AskedMade DEF Inv
<1>5. QED
  BY <1>1, <1>4, Becoming DEF Inv

LEMMA InitHolds == Init => Inv
<1> SUFFICES ASSUME Init PROVE Inv
  OBVIOUS
<1>1. commits = <<>> /\ Len(commits) = 0 /\ commits \in Seq(CommitSet)
  BY DEF Init
<1> DEFINE s == [heads |-> [b \in Branch |-> None], known |-> 0]
<1>2. past = <<s>>
  BY DEF Init
<1>3. s \in StateSet /\ s.known = 0 /\ \A b \in Branch : s.heads[b] = 0
  BY ReadingAssumption DEF StateSet, None
<1> HIDE DEF s
<1>4. past \in Seq(StateSet) /\ Len(past) = 1 /\ past[1] = s
  BY <1>2, <1>3
<1>5. Repository
  BY <1>1, <1>3, <1>4, ReadingAssumption DEF Repository, Within, Now
<1>6. QED
  BY <1>5, BlankMade DEF Init, Inv

LEMMA NextKeeps == Inv /\ [Next]_vars => Inv'
<1> SUFFICES ASSUME Inv, [Next]_vars PROVE Inv'
  OBVIOUS
<1>1. ASSUME NEW b \in Branch, Push(b) \/ Move(b) PROVE Inv'
  BY <1>1, PushKeeps, MoveKeeps
<1>2. CASE AskAny
  BY <1>2, AskKeeps DEF AskAny, Screen, Ref
<1>3. CASE Follow
  BY <1>3, FollowKeeps
<1>4. CASE Close
  BY <1>4, BlankMade, Becoming DEF Close, Inv
<1>5. CASE Read
  <2>1. CASE Fail
    BY <2>1, MessageKeeps DEF Fail, Inv
  <2>2. QED
    BY <1>5, <2>1, ResolveKeeps, HeadsKeeps, TreeKeeps, LastKeeps, ReadReadmeKeeps, FindEntryKeeps,
       ReadBytesKeeps, LogKeeps, ReadCommitKeeps, CompareKeeps DEF Read
<1>6. CASE UNCHANGED vars
  BY <1>6, Becoming DEF vars, Inv
<1>7. QED
  BY <1>1, <1>2, <1>3, <1>4, <1>5, <1>6 DEF Next

LEMMA InvHolds == Spec => []Inv
BY InitHolds, NextKeeps, PTL DEF Spec

----------------------------------------------------------------------------
\* What a page and the repository are made of: the state and the page of every
\* screen of internal/web/page_repo.go, page_file.go and page_commit.go.
THEOREM TypesHold == Spec => []TypeOK
<1>1. Inv => TypeOK
  <2> SUFFICES ASSUME Inv PROVE TypeOK
    OBVIOUS
  <2>1. Len(commits) \in Nat /\ Len(commits) <= MaxPush /\ MaxPush \in Nat
    BY ReadingAssumption DEF Inv, Repository
  <2>2. page.at \in 0..MaxPush /\ page.last \in 0..MaxPush
    BY <2>1 DEF Inv, Made, Typed
  <2>3. QED
    BY <2>2 DEF Inv, Repository, Made, Typed, TypeOK, CommitSet, StateSet
<1>2. QED
  BY <1>1, InvHolds, PTL

\* handleBlob: the bytes of the file screen are those its path has in the
\* commit the page names, and the address named that commit while it was made.
THEOREM FilesAreOneState == Spec => []FileIsOneState
<1>1. Inv => FileIsOneState
  BY DEF Inv, Made, Finds, Ended, Was, Seen, FileIsOneState, Shown, Idle, During
<1>2. QED
  BY <1>1, InvHolds, PTL

\* handleCommit and handlePatch: the difference is that of the commit shown
\* from its first parent.
THEOREM CommitsAreOneState == Spec => []CommitIsOneState
<1>1. Inv => CommitIsOneState
  BY DEF Inv, Made, Compares, Ended, CommitIsOneState, Shown, Idle
<1>2. QED
  BY <1>1, InvHolds, PTL

\* handleOverview: the last commit is not older than the directory below it,
\* and the readme is the one the directory lists.
THEOREM OverviewsAreInOrder == Spec => []OverviewInOrder
<1>1. Inv => OverviewInOrder
  BY DEF Inv, Made, Orders, Pair, Ended, OverviewInOrder, Shown, Idle
<1>2. QED
  BY <1>1, InvHolds, PTL

\* staleSentence: a listing Origo served without a currency check says so.
THEOREM ListingsSayStale == Spec => []ListingSaysStale
<1>1. Inv => ListingSaysStale
  BY DEF Inv, Made, Admits, ListingSaysStale, SaysStale
<1>2. QED
  BY <1>1, InvHolds, PTL

\* newPinView: a pinned file, and the permalink of any file, go on showing the
\* bytes they showed, wherever the branches move, where no branch has a name
\* written like an object id.
THEOREM CitationsHold ==
  ASSUME Hex \cap Branch = {}
  PROVE  Spec => []CitationHolds
<1>1. Inv => CitationHolds
  <2> SUFFICES ASSUME Inv, Shown("file") PROVE CitationHolds
    BY DEF CitationHolds
  <2>1. /\ page.at # None /\ page.file \in DOMAIN Dir(page.at)
        /\ page.bytes = Dir(page.at)[page.file]
        /\ page.pinned => Pinned(page.ref, page.at)
    BY DEF Inv, Made, Finds, Ended, Shown, Idle
  <2>2. Now \in StateSet /\ page.at \in Commit /\ page.at \in Nat /\ page.at \in 1..Now.known
    BY <2>1, ReadingAssumption DEF Inv, Made, Typed, Repository, Now, Commit, None
  <2>3. Resolved(Now, page.at) = page.at
    BY <2>2, ResolvedCommit
  <2>4. ASSUME page.pinned, page.ref # page.at, Resolved(Now, page.ref) # None
        PROVE  Resolved(Now, page.ref) = page.at
    <3>1. page.ref \in Hex /\ <<page.ref, page.at>> \in Prefix
      BY <2>1, <2>4 DEF Pinned
    <3>2. page.ref \notin Branch /\ page.ref \notin Nat
      BY <3>1, ReadingAssumption
    <3>3. page.at \in Abbreviated(Now, page.ref)
      BY <2>2, <3>1 DEF Abbreviated
    <3>4. page.ref \notin 1..Now.known
      BY <3>2
    <3>5. /\ Cardinality(Abbreviated(Now, page.ref)) = 1
          /\ Resolved(Now, page.ref) = CHOOSE c \in Abbreviated(Now, page.ref) : TRUE
      BY <2>4, <3>2, <3>4 DEF Resolved
    <3>6. Abbreviated(Now, page.ref) = {page.at}
      <4>1. IsFiniteSet(Abbreviated(Now, page.ref))
        <5>1. IsFiniteSet(1..Now.known)
          BY <2>2, ReadingAssumption, FS_Interval DEF StateSet
        <5>2. QED
          BY <5>1, FS_Subset DEF Abbreviated
      <4>2. PICK x : Abbreviated(Now, page.ref) = {x}
        BY <3>5, <4>1, FS_Singleton
      <4>3. QED
        BY <3>3, <4>2
    <3>7. QED
      BY <3>5, <3>6
  <2>5. page.pinned => ShowsOnly(page.ref, page.file, page.bytes)
    BY <2>1, <2>3, <2>4 DEF ShowsOnly
  <2>6. QED
    BY <2>1, <2>3, <2>5 DEF CitationHolds, ShowsOnly
<1>2. QED
  BY <1>1, InvHolds, PTL

----------------------------------------------------------------------------
(***************************************************************************)
(* The walk from page to page of a directory or a log.  Each page lists    *)
(* what is behind its cursor, as far as there is room, and the cursor of   *)
(* the next is the last thing it listed: what was listed so far is what    *)
(* the reference holds up to there, as long as it stands still, and        *)
(* nothing behind there was listed yet, wherever it moves.                 *)
(***************************************************************************)

\* A page of a directory takes the first entries there are, up to its cursor.
LEMMA FirstPage ==
  ASSUME NEW S \in SUBSET (Nat \ {0}), IsFiniteSet(S)
  PROVE  /\ FirstOf(S) \subseteq S
         /\ NextOf(S) = None => FirstOf(S) = S
         /\ NextOf(S) # None => /\ NextOf(S) \in S
                                /\ \A x \in S : x \in FirstOf(S) <=> x <= NextOf(S)
<1>0. \A x \in S : x \in Nat
  OBVIOUS
<1>1. FirstOf(S) \subseteq S
  BY DEF FirstOf
<1>2. ASSUME NEW x \in FirstOf(S), NEW y \in S, y <= x PROVE y \in FirstOf(S)
  <2> DEFINE X == {z \in S : z <= x}
             Y == {z \in S : z <= y}
  <2>0. x \in Nat /\ y \in Nat
    BY <1>0, <1>1
  <2>1. x \in S /\ Cardinality(X) <= PageSize
    BY DEF FirstOf
  <2>2. Y \subseteq X
    <3>1. ASSUME NEW z \in S, z <= y PROVE z <= x
      BY <1>0, <1>2, <2>0, <3>1
    <3>2. QED
      BY <3>1
  <2>3. IsFiniteSet(X) /\ IsFiniteSet(Y)
    BY FS_Subset
  <2>4. Cardinality(Y) <= Cardinality(X)
    BY <2>2, <2>3, FS_Subset
  <2>5. Cardinality(X) \in Nat /\ Cardinality(Y) \in Nat /\ PageSize \in Nat
    BY <2>3, FS_CardinalityType, ReadingAssumption
  <2>6. Cardinality(Y) <= PageSize
    BY <2>1, <2>4, <2>5
  <2>7. QED
    BY <2>6 DEF FirstOf
<1>3. CASE S = FirstOf(S)
  BY <1>1, <1>3 DEF NextOf
<1>4. CASE S # FirstOf(S)
  <2>1. S # {}
    BY <1>1, <1>4
  <2>2. PICK m \in S : \A j \in S : m <= j
    BY <2>1, Least
  <2>3. {y \in S : y <= m} = {m}
    <3>1. ASSUME NEW y \in S, y <= m PROVE y = m
      BY <1>0, <2>2, <3>1
    <3>2. m <= m
      BY <1>0
    <3>3. QED
      BY <3>1, <3>2
  <2>4. m \in FirstOf(S)
    BY <2>3, FS_Singleton, ReadingAssumption DEF FirstOf
  <2>5. IsFiniteSet(FirstOf(S))
    BY <1>1, FS_Subset
  <2>6. \E x \in FirstOf(S) : \A y \in FirstOf(S) : y <= x
    BY <1>1, <2>4, <2>5, GreatestOfFinite
  <2>7. NextOf(S) = CHOOSE x \in FirstOf(S) : \A y \in FirstOf(S) : y <= x
    BY <1>4 DEF NextOf
  <2>8. NextOf(S) \in FirstOf(S) /\ \A y \in FirstOf(S) : y <= NextOf(S)
    BY <2>6, <2>7
  <2>9. NextOf(S) \in S /\ NextOf(S) # None
    BY <1>1, <2>8 DEF None
  <2>10. \A x \in S : x \in FirstOf(S) <=> x <= NextOf(S)
    BY <1>2, <2>8
  <2>11. QED
    BY <1>1, <2>9, <2>10
<1>5. QED
  BY <1>3, <1>4

\* A page of a log takes the newest commits there are, down to its cursor.
LEMMA NewestPage ==
  ASSUME NEW S \in SUBSET (Nat \ {0}), IsFiniteSet(S)
  PROVE  /\ NewestOf(S) \subseteq S
         /\ OlderOf(S) = None => NewestOf(S) = S
         /\ OlderOf(S) # None => /\ OlderOf(S) \in S
                                 /\ \A x \in S : x \in NewestOf(S) <=> x >= OlderOf(S)
<1>0. \A x \in S : x \in Nat
  OBVIOUS
<1>1. NewestOf(S) \subseteq S
  BY DEF NewestOf
<1>2. ASSUME NEW x \in NewestOf(S), NEW y \in S, y >= x PROVE y \in NewestOf(S)
  <2> DEFINE X == {z \in S : z >= x}
             Y == {z \in S : z >= y}
  <2>0. x \in Nat /\ y \in Nat
    BY <1>0, <1>1
  <2>1. x \in S /\ Cardinality(X) <= PageSize
    BY DEF NewestOf
  <2>2. Y \subseteq X
    <3>1. ASSUME NEW z \in S, z >= y PROVE z >= x
      BY <1>0, <1>2, <2>0, <3>1
    <3>2. QED
      BY <3>1
  <2>3. IsFiniteSet(X) /\ IsFiniteSet(Y)
    BY FS_Subset
  <2>4. Cardinality(Y) <= Cardinality(X)
    BY <2>2, <2>3, FS_Subset
  <2>5. Cardinality(X) \in Nat /\ Cardinality(Y) \in Nat /\ PageSize \in Nat
    BY <2>3, FS_CardinalityType, ReadingAssumption
  <2>6. Cardinality(Y) <= PageSize
    BY <2>1, <2>4, <2>5
  <2>7. QED
    BY <2>6 DEF NewestOf
<1>3. CASE S = NewestOf(S)
  BY <1>1, <1>3 DEF OlderOf
<1>4. CASE S # NewestOf(S)
  <2>1. S # {}
    BY <1>1, <1>4
  <2>2. PICK m \in S : \A j \in S : j <= m
    BY <2>1, GreatestOfFinite
  <2>3. {y \in S : y >= m} = {m}
    <3>1. ASSUME NEW y \in S, y >= m PROVE y = m
      BY <1>0, <2>2, <3>1
    <3>2. m >= m
      BY <1>0
    <3>3. QED
      BY <3>1, <3>2
  <2>4. m \in NewestOf(S)
    <3>1. Cardinality({m}) = 1
      BY FS_Singleton
    <3>2. 1 <= PageSize
      BY ReadingAssumption
    <3>3. QED
      BY <2>3, <3>1, <3>2 DEF NewestOf
  <2>5. \E x \in NewestOf(S) : \A y \in NewestOf(S) : x <= y
    BY <1>1, <2>4, Least
  <2>6. \E x \in NewestOf(S) : \A y \in NewestOf(S) : y >= x
    BY <1>1, <2>5
  <2>7. OlderOf(S) = CHOOSE x \in NewestOf(S) : \A y \in NewestOf(S) : y >= x
    BY <1>4 DEF OlderOf
  <2>8. OlderOf(S) \in NewestOf(S) /\ \A y \in NewestOf(S) : y >= OlderOf(S)
    BY <2>6, <2>7
  <2>9. OlderOf(S) \in S /\ OlderOf(S) # None
    BY <1>1, <2>8 DEF None
  <2>10. \A x \in S : x \in NewestOf(S) <=> x >= OlderOf(S)
    BY <1>2, <2>8
  <2>11. QED
    BY <1>1, <2>9, <2>10
<1>5. QED
  BY <1>3, <1>4

\* A page that has yet to read its list, and one that has read it.
ToRead(p) == p.call \in {"resolve", "heads", "tree", "log"}
HasRead(p) ==
  p.call \in {"last", "readme"} \/ \E kind \in {"listing", "overview", "log"} : Ended(p, kind)

Entries == File \cup Commit

\* The types of what a walk is remembered by; only a list that was read goes on.
Walked(p) ==
  /\ p.seen \in [Entries -> Nat] /\ p.cursor \in Nat /\ p.next \in Nat
  /\ DOMAIN p.walk = DOMAIN Blank.walk
  /\ p.walk.since \in 1..Len(past) /\ p.walk.aged \in BOOLEAN /\ p.walk.ref \in Ref
  /\ p.next # None => HasRead(p)

\* The screens a walk goes through, and the reference they carry.
Kinds(p) ==
  /\ p.walk.screen \in {"tree", "log"} =>
       /\ p.screen = p.walk.screen
       /\ p.ref = p.walk.ref \/ (p.call = "resolve" /\ p.ref = None /\ p.walk.ref = Default)
  /\ p.call = "heads" => p.screen \in {"tree", "overview", "refs"}
  /\ p.call = "tree" => p.screen \in {"tree", "overview"}
  /\ p.call \in {"last", "readme"} \/ Ended(p, "overview") => p.screen = "overview"
  /\ p.call = "log" \/ Ended(p, "log") => p.screen = "log"
  /\ Ended(p, "listing") => p.screen = "tree"

\* Of a directory, nothing was listed twice and nothing behind the cursor.
UpTo(p, k) == \A x \in Entries : p.seen[x] = 1 => x <= k
Once(p) ==
  p.screen \in {"tree", "overview"} =>
    /\ ToRead(p) \/ HasRead(p) => \A x \in Entries : p.seen[x] <= 1
    /\ ToRead(p) => UpTo(p, p.cursor)
    /\ HasRead(p) /\ p.next # None => UpTo(p, p.next)

\* What a walk is of, and whether it has passed x when its cursor is k.
Things(screen, c) == IF screen = "log" THEN commits[c].line ELSE DOMAIN Dir(c)
Passed(screen, x, k) == k # None /\ IF screen = "log" THEN x >= k ELSE x <= k

SeenTo(p, c, k) ==
  \A x \in Entries :
    p.seen[x] = IF x \in Things(p.walk.screen, c) /\ Passed(p.walk.screen, x, k) THEN 1 ELSE 0
SeenAll(p, c) ==
  \A x \in Entries : p.seen[x] = IF x \in Things(p.walk.screen, c) THEN 1 ELSE 0
SeenNone(p) == \A x \in Entries : p.seen[x] = 0

\* What was listed so far is what the reference holds up to the cursor.
Coming(p, c) == IF p.cursor = None THEN SeenNone(p) ELSE c # None /\ SeenTo(p, c, p.cursor)
Come(p, c) ==
  /\ p.walk.screen = "tree" \/ p.next # None => c # None
  /\ c # None => IF p.next = None THEN SeenAll(p, c) ELSE SeenTo(p, c, p.next)
Whole(p) ==
  p.walk.screen \in {"tree", "log"} /\ ~p.walk.aged /\ Still(p.walk) =>
    /\ ToRead(p) => Coming(p, Resolved(Now, p.walk.ref))
    /\ HasRead(p) /\ p.aged = {} => Come(p, Resolved(Now, p.walk.ref))

Walks(p) == Walked(p) /\ Kinds(p) /\ Once(p) /\ Whole(p)

----------------------------------------------------------------------------
LEMMA EntriesAre == Entries \subseteq Nat \ {0}
BY ReadingAssumption DEF Entries, Commit

\* An empty page has walked nowhere.
LEMMA BlankWalks ==
  ASSUME Repository, NEW kind \in {"none", "missing", "notfound", "failed"}
  PROVE  Walks(Message(kind)) /\ Walks(Blank)
<1>1. Message(kind).walk = Blank.walk
  <2>1. ASSUME NEW b, "walk" \in DOMAIN b PROVE [b EXCEPT !.kind = kind].walk = b.walk
    BY <2>1
  <2>2. "walk" \in DOMAIN Blank
    BY DEF Blank
  <2>3. QED
    BY <2>1, <2>2 DEF Message
<1>2. \A p \in {Message(kind), Blank} :
        /\ p.screen = "overview" /\ p.call = "none"
        /\ p.kind \in {"none", "missing", "notfound", "failed"}
        /\ p.cursor = None /\ p.next = None
        /\ p.seen = [x \in Entries |-> 0]
  BY DEF Message, Blank, Entries
<1>3. \A p \in {Message(kind), Blank} : p.walk = Blank.walk
  BY <1>1
<1>4. /\ Blank.walk.screen = "overview" /\ Blank.walk.since = 1
      /\ Blank.walk.aged = FALSE /\ Blank.walk.ref = Default
  BY DEF Blank
<1>5. \A p \in {Message(kind), Blank} : ~ToRead(p) /\ ~HasRead(p)
  BY <1>2 DEF ToRead, HasRead, Ended
<1>6. \A p \in {Message(kind), Blank} : Walked(p)
  <2> TAKE p \in {Message(kind), Blank}
  <2>1. p.seen \in [Entries -> Nat] /\ p.cursor \in Nat /\ p.next \in Nat /\ p.next = None
    BY <1>2 DEF None
  <2>2. DOMAIN p.walk = DOMAIN Blank.walk
    BY <1>3
  <2>3. p.walk.since \in 1..Len(past)
    BY <1>3, <1>4, Beginnings
  <2>4. p.walk.aged \in BOOLEAN
    BY <1>3, <1>4
  <2>5. p.walk.ref \in Ref
    BY <1>3, <1>4, ReadingAssumption DEF Ref
  <2>6. QED
    BY <2>1, <2>2, <2>3, <2>4, <2>5 DEF Walked
<1>7. \A p \in {Message(kind), Blank} : Kinds(p) /\ Once(p) /\ Whole(p)
  BY <1>2, <1>5, <1>3, <1>4 DEF Kinds, Once, Whole, Ended
<1>8. QED
  BY <1>6, <1>7 DEF Walks

\* A step that puts such a page in the place of page.
LEMMA WalksOn ==
  ASSUME NEW p, Walks(p), page' = p, UNCHANGED <<commits, past>>
  PROVE  Walks(page)'
<1>1. Walked(page)' /\ Kinds(page)' /\ Once(page)'
  BY DEF Walks, Walked, Kinds, Once, UpTo, ToRead, HasRead, Ended
<1>2. Whole(page)'
  BY DEF Walks, Whole, Coming, Come, SeenTo, SeenAll, SeenNone, Things, Passed, Still, Now,
         ToRead, HasRead, Ended, Dir
<1>3. QED
  BY <1>1, <1>2 DEF Walks

\* The walk is not touched.
SameWalk(p, q) ==
  /\ q.screen = p.screen /\ q.cursor = p.cursor /\ q.next = p.next
  /\ q.seen = p.seen /\ q.walk = p.walk

\* A call that is not that of the list.
LEMMA WalkKept ==
  ASSUME NEW p, NEW q, Walks(p), SameWalk(p, q), Kinds(q),
         ToRead(q) => ToRead(p),
         HasRead(q) => HasRead(p) /\ (q.aged = {} => p.aged = {}),
         p.next # None => HasRead(q)
  PROVE  Walks(q)
<1>1. Walked(q)
  BY DEF Walks, Walked, SameWalk
<1>2. Once(q)
  BY DEF Walks, Once, UpTo, SameWalk
<1>3. Whole(q)
  BY DEF Walks, Whole, Coming, Come, SeenTo, SeenAll, SeenNone, SameWalk
<1>4. QED
  BY <1>1, <1>2, <1>3 DEF Walks

\* What a call's answer leaves of the page as it is, for the walk.
Follows(p, q) ==
  /\ DOMAIN q = DOMAIN Blank /\ SameWalk(p, q) /\ q.ref = p.ref
  /\ q.aged = {} => p.aged = {}

LEMMA GotFollows ==
  ASSUME Made(page), NEW a
  PROVE  Follows(page, Got(a)) /\ Follows(page, Says(Got(a), a))
<1>1. DOMAIN page = DOMAIN Blank
  BY DEF Made, Typed
<1>2. QED
  BY <1>1 DEF Follows, SameWalk, Got, Says, Blank

LEMMA CallsFollows ==
  ASSUME NEW p, DOMAIN p = DOMAIN Blank, NEW call
  PROVE  Follows(p, Calls(p, call)) /\ Calls(p, call).call = call
BY DEF Follows, SameWalk, Calls, Blank

LEMMA EndsFollows ==
  ASSUME NEW p, DOMAIN p = DOMAIN Blank, NEW kind
  PROVE  Follows(p, Ends(p, kind)) /\ Ends(p, kind).call = "none" /\ Ends(p, kind).kind = kind
BY DEF Follows, SameWalk, Ends, Blank

LEMMA FollowsOn ==
  ASSUME NEW p, NEW q, NEW r, Follows(p, q), Follows(q, r)
  PROVE  Follows(p, r)
BY DEF Follows, SameWalk

\* A page that ends, or goes on to a call, without the list of a walk.
LEMMA WalkAside ==
  ASSUME NEW p, NEW q, Walks(p), Follows(p, q), ~HasRead(p), ~ToRead(q), ~HasRead(q),
         p.call # "resolve"
  PROVE  Walks(q)
<1>1. /\ q.call \notin {"heads", "tree", "log", "last", "readme"}
      /\ ~Ended(q, "overview") /\ ~Ended(q, "log") /\ ~Ended(q, "listing")
  BY DEF ToRead, HasRead
<1>2. Kinds(q)
  BY <1>1 DEF Walks, Kinds, Follows, SameWalk
<1>3. p.next = None
  BY DEF Walks, Walked
<1>4. QED
  BY <1>2, <1>3, WalkKept DEF Follows

\* A call that is answered between the list and the end of the overview.
LEMMA WalkAfter ==
  ASSUME NEW p, NEW q, Walks(p), Follows(p, q), p.call \in {"last", "readme"},
         q.call = "readme" \/ Ended(q, "overview")
  PROVE  Walks(q)
<1>1. HasRead(p) /\ HasRead(q) /\ ~ToRead(q)
  BY DEF HasRead, ToRead, Ended
<1>2. p.screen = "overview"
  BY DEF Walks, Kinds
<1>3. Kinds(q)
  BY <1>2 DEF Walks, Kinds, Follows, SameWalk, Ended
<1>4. QED
  BY <1>1, <1>3, WalkKept DEF Follows

----------------------------------------------------------------------------
\* People push: the reference of a walk stood still, and what it is of is there.
LEMMA WalkGrows ==
  ASSUME Inv, Walks(page), UNCHANGED page, NEW s, past' = Append(past, s),
         Len(commits) <= Len(commits'), \A c \in 1..Len(commits) : commits'[c] = commits[c]
  PROVE  Walks(page)'
<1> DEFINE n == Len(past)
           w == page.walk
<1>0. PICK now : now = Resolved(past[n], w.ref)
  OBVIOUS
<1>1. /\ n \in Nat /\ n > 0 /\ Len(past') = n + 1 /\ \A i \in 1..n : past'[i] = past[i]
      /\ Len(commits) \in Nat
  BY DEF Inv, Repository
<1>2. w.since \in 1..n
  BY DEF Walks, Walked
<1>3. Walked(page)' /\ Kinds(page)' /\ Once(page)'
  <2>1. w.since \in 1..Len(past')
    BY <1>1, <1>2
  <2>2. QED
    BY <2>1 DEF Walks, Walked, Kinds, Once, UpTo, ToRead, HasRead, Ended
<1>4. ASSUME Still(w)' PROVE Still(w) /\ Resolved(Now, w.ref)' = now /\ Resolved(Now, w.ref) = now
  <2>1. \A i \in w.since..(n + 1) : Resolved(past'[i], w.ref) = Resolved(past'[n + 1], w.ref)
    BY <1>1, <1>4 DEF Still, Now
  <2>2. \A i \in w.since..n : i \in 1..n /\ i \in w.since..(n + 1)
    BY <1>1, <1>2
  <2>3. \A i \in w.since..n : Resolved(past[i], w.ref) = Resolved(past'[n + 1], w.ref)
    BY <1>1, <2>1, <2>2
  <2>4. n \in w.since..n
    BY <1>1, <1>2
  <2>5. now = Resolved(past'[n + 1], w.ref)
    BY <1>0, <2>3, <2>4
  <2>6. QED
    BY <1>0, <1>1, <2>3, <2>5 DEF Still, Now
<1>5. now # None => now \in 1..Len(commits) /\ commits'[now] = commits[now]
  <2>1. past[n] \in StateSet /\ Within(past[n])
    BY <1>1 DEF Inv, Repository
  <2>2. now \in 0..Len(commits)
    BY <1>0, <1>1, <2>1, ResolvedIn DEF Within
  <2>3. QED
    BY <1>1, <2>2 DEF None
<1> HIDE DEF w, n
<1>6. Whole(page)'
  <2> SUFFICES ASSUME page.walk.screen \in {"tree", "log"}, ~page.walk.aged, Still(page.walk)'
               PROVE  /\ ToRead(page) => Coming(page, now)'
                      /\ HasRead(page) /\ page.aged = {} => Come(page, now)'
    BY <1>4 DEF Whole, w, ToRead, HasRead, Ended
  <2>1. Still(page.walk) /\ Resolved(Now, page.walk.ref) = now
    BY <1>4 DEF w
  <2>2. /\ ToRead(page) => Coming(page, now)
        /\ HasRead(page) /\ page.aged = {} => Come(page, now)
    BY <2>1 DEF Walks, Whole
  <2>3. QED
    BY <1>5, <2>2 DEF Coming, Come, SeenTo, SeenAll, SeenNone, Things, Passed, Dir
<1>7. QED
  BY <1>3, <1>6 DEF Walks

LEMMA PushWalks ==
  ASSUME Inv, Walks(page), NEW b \in Branch, Push(b) \/ Move(b)
  PROVE  Walks(page)'
<1>1. Len(commits) \in Nat
  BY DEF Inv, Repository
<1>2. CASE Push(b)
  <2>1. PICK r, s : commits' = Append(commits, r) /\ past' = Append(past, s)
    BY <1>2 DEF Push, Changed
  <2>2. Len(commits') = Len(commits) + 1 /\ \A c \in 1..Len(commits) : commits'[c] = commits[c]
    BY <2>1 DEF Inv, Repository
  <2>3. UNCHANGED page
    BY <1>2 DEF Push
  <2>4. QED
    BY <1>1, <2>1, <2>2, <2>3, WalkGrows
<1>3. CASE Move(b)
  <2>1. PICK s : past' = Append(past, s)
    BY <1>3 DEF Move, Changed
  <2>2. UNCHANGED <<page, commits>>
    BY <1>3 DEF Move
  <2>3. QED
    BY <1>1, <2>1, <2>2, WalkGrows
<1>4. QED
  BY <1>2, <1>3

LEMMA MessageWalks ==
  ASSUME Repository, NEW kind \in {"missing", "notfound", "failed"}, Becomes(Message(kind))
  PROVE  Walks(page)'
<1>1. Walks(Message(kind))
  BY BlankWalks
<1>2. QED
  BY <1>1, WalksOn DEF Becomes

\* The first page of a walk has everything before it.
LEMMA AskWalks ==
  ASSUME Inv, NEW screen \in Screen, NEW ref \in Ref \cup {None}, NEW rev, NEW file,
         Ask(screen, ref, rev, file)
  PROVE  Walks(page)'
<1> DEFINE p == [Blank EXCEPT !.screen = screen, !.ref = ref, !.rev = rev, !.file = file,
                              !.walk = Begun(screen, ref)]
           q == Asked(p)
           w == Begun(screen, ref)
<1>1. page' = q /\ UNCHANGED <<commits, past>>
  BY DEF Ask
<1>2. /\ DOMAIN p = DOMAIN Blank /\ p.screen = screen /\ p.ref = ref
      /\ p.cursor = None /\ p.next = None /\ p.aged = {}
      /\ p.seen = [x \in Entries |-> 0] /\ p.walk = w
  BY DEF Blank, Entries
<1> HIDE DEF p
<1>3. /\ q.screen = screen /\ q.ref = ref /\ q.call = "resolve"
      /\ q.cursor = None /\ q.next = None /\ q.seen = [x \in Entries |-> 0] /\ q.walk = w
  BY <1>2 DEF Asked, Blank
<1>4. /\ DOMAIN w = DOMAIN Blank.walk /\ w.screen = screen /\ w.since = Len(past) /\ w.aged = FALSE
      /\ w.ref = IF ref = None THEN Default ELSE ref
  BY DEF Begun, Blank
<1> HIDE DEF q, w
<1>5. ToRead(q) /\ ~HasRead(q)
  BY <1>3 DEF ToRead, HasRead, Ended
<1>6. Walked(q)
  <2>1. w.since \in 1..Len(past)
    BY <1>4, Beginnings DEF Inv
  <2>2. w.ref \in Ref
    BY <1>4, ReadingAssumption DEF Ref
  <2>3. q.seen \in [Entries -> Nat] /\ q.cursor \in Nat /\ q.next \in Nat
    BY <1>3 DEF None
  <2>4. w.aged \in BOOLEAN
    BY <1>4
  <2>5. QED
    BY <1>3, <1>4, <2>1, <2>2, <2>3, <2>4 DEF Walked
<1>7. Kinds(q) /\ Once(q)
  BY <1>3, <1>4, <1>5 DEF Kinds, Once, UpTo, Ended
<1>8. Whole(q)
  BY <1>3, <1>5 DEF Whole, Coming, SeenNone
<1>9. QED
  BY <1>1, <1>6, <1>7, <1>8, WalksOn DEF Walks

\* The page after one that has more behind it.
LEMMA FollowWalks ==
  ASSUME Inv, Walks(page), Follow
  PROVE  Walks(page)'
<1> DEFINE v == [page.walk EXCEPT !.aged = @ \/ page.aged # {}]
           p == [Blank EXCEPT
             !.screen = IF page.screen = "log" THEN "log" ELSE "tree",
             !.ref = IF page.screen = "overview" THEN None ELSE RefQuery(page.ref),
             !.cursor = page.next, !.seen = page.seen, !.walk = v]
           q == Asked(p)
<1>1. page' = q /\ UNCHANGED <<commits, past>>
  BY DEF Follow
<1>2. /\ DOMAIN p = DOMAIN Blank
      /\ p.screen = (IF page.screen = "log" THEN "log" ELSE "tree")
      /\ p.ref = (IF page.screen = "overview" THEN None ELSE RefQuery(page.ref))
      /\ p.cursor = page.next /\ p.next = None /\ p.aged = {}
      /\ p.seen = page.seen /\ p.walk = v
  BY DEF Blank
<1> HIDE DEF p
<1>3. /\ q.screen = p.screen /\ q.ref = p.ref /\ q.call = "resolve"
      /\ q.cursor = page.next /\ q.next = None /\ q.seen = page.seen /\ q.walk = v
  BY <1>2 DEF Asked, Blank
<1>4. /\ DOMAIN v = DOMAIN Blank.walk /\ v.screen = page.walk.screen /\ v.since = page.walk.since
      /\ v.ref = page.walk.ref /\ v.aged \in BOOLEAN
      /\ ~v.aged => ~page.walk.aged /\ page.aged = {}
  <2>1. DOMAIN page.walk = DOMAIN Blank.walk /\ page.walk.aged \in BOOLEAN
    BY DEF Walks, Walked
  <2>2. QED
    BY <2>1 DEF Blank
<1> HIDE DEF q, v
<1>5. ToRead(q) /\ ~HasRead(q)
  BY <1>3 DEF ToRead, HasRead, Ended
<1>6. page.next # None /\ page.call = "none"
  BY DEF Follow, Idle
<1>7. /\ HasRead(page)
      /\ \/ page.screen = "overview" /\ p.screen = "tree"
         \/ page.screen = "tree" /\ p.screen = "tree" /\ p.ref = RefQuery(page.ref)
         \/ page.screen = "log" /\ p.screen = "log" /\ p.ref = RefQuery(page.ref)
  <2>1. HasRead(page)
    BY <1>6 DEF Walks, Walked
  <2>2. page.screen \in {"overview", "tree", "log"}
    BY <1>6, <2>1 DEF HasRead, Walks, Kinds
  <2>3. QED
    BY <1>2, <2>1, <2>2
<1>8. Walked(q)
  BY <1>3, <1>4 DEF Walks, Walked, None
<1>9. Kinds(q)
  <2>1. v.screen \in {"tree", "log"} =>
          q.screen = v.screen /\ (q.ref = v.ref \/ (q.ref = None /\ v.ref = Default))
    BY <1>3, <1>4, <1>6, <1>7 DEF Walks, Kinds, RefQuery
  <2>2. QED
    BY <1>3, <2>1 DEF Kinds, Ended
<1>10. Once(q)
  BY <1>3, <1>5, <1>6, <1>7 DEF Walks, Once, UpTo
<1>11. Whole(q)
  <2>1. SUFFICES ASSUME v.screen \in {"tree", "log"}, ~v.aged, Still(v)
                 PROVE  Coming(q, Resolved(Now, v.ref))
    BY <1>3, <1>5 DEF Whole
  <2>2. Still(page.walk)
    BY <1>4, <2>1 DEF Still
  <2>3. Come(page, Resolved(Now, v.ref))
    BY <1>4, <1>7, <2>1, <2>2 DEF Walks, Whole
  <2>4. QED
    BY <1>3, <1>4, <1>6, <2>3 DEF Come, Coming, SeenTo
<1>12. QED
  BY <1>1, <1>8, <1>9, <1>10, <1>11, WalksOn DEF Walks

LEMMA ResolveWalks ==
  ASSUME Inv, Walks(page), Resolve
  PROVE  Walks(page)'
<1>1. PICK a \in Answer :
        LET p == [Says(Got(a), a) EXCEPT !.head = a.state.heads[Default],
                                         !.ref = IF @ = None THEN Default ELSE @] IN
        Becomes(Calls(p,
          CASE p.screen \in {"overview", "refs"} -> "heads"
            [] p.screen = "tree"                 -> IF p.head = None THEN "heads" ELSE "tree"
            [] p.screen \in {"blob", "raw"}      -> "entry"
            [] p.screen = "log"                  -> "log"
            [] p.screen \in {"commit", "patch"}  -> "commit"))
  BY DEF Resolve
<1>2. page.call = "resolve"
  BY DEF Resolve, At
<1>3. Repository /\ Made(page) /\ Typed(page)
  BY <1>2, PageBefore
<1> DEFINE g == Says(Got(a), a)
           p == [g EXCEPT !.head = a.state.heads[Default], !.ref = IF @ = None THEN Default ELSE @]
           call == CASE p.screen \in {"overview", "refs"} -> "heads"
                     [] p.screen = "tree"                 -> IF p.head = None THEN "heads" ELSE "tree"
                     [] p.screen \in {"blob", "raw"}      -> "entry"
                     [] p.screen = "log"                  -> "log"
                     [] p.screen \in {"commit", "patch"}  -> "commit"
           q == Calls(p, call)
<1>4. Follows(page, g)
  BY <1>3, GotFollows
<1> HIDE DEF g
<1>5. /\ DOMAIN p = DOMAIN Blank /\ SameWalk(g, p)
      /\ p.ref = (IF g.ref = None THEN Default ELSE g.ref)
  BY <1>4 DEF Blank, Follows, SameWalk
<1> HIDE DEF p
<1>6. p.screen = page.screen /\ page.screen \in Screen
  BY <1>3, <1>4, <1>5 DEF Typed, Follows, SameWalk
<1>7. /\ call \in {"heads", "tree", "entry", "log", "commit"}
      /\ call = "heads" => page.screen \in {"overview", "refs", "tree"}
      /\ call = "tree" => page.screen = "tree"
      /\ call = "log" => page.screen = "log"
  BY <1>6 DEF Screen
<1> HIDE DEF call
<1>8. Follows(p, q) /\ q.call = call
  BY <1>5, CallsFollows
<1>9. Becomes(q)
  BY <1>1 DEF p, g, call
<1> HIDE DEF q
<1>10. SameWalk(page, q) /\ q.ref = (IF page.ref = None THEN Default ELSE page.ref)
  BY <1>4, <1>5, <1>8 DEF Follows, SameWalk
<1>11. Kinds(q)
  <2>1. page.walk.ref # None
    BY ReadingAssumption DEF Walks, Walked, Ref, None, Commit
  <2>2. q.walk.screen \in {"tree", "log"} => q.screen = q.walk.screen /\ q.ref = q.walk.ref
    BY <1>2, <1>10, <2>1 DEF Walks, Kinds, SameWalk
  <2>3. QED
    BY <1>7, <1>8, <1>10, <2>2 DEF Kinds, SameWalk, Ended
<1>12. ToRead(page) /\ ~HasRead(page) /\ ~HasRead(q)
  BY <1>2, <1>7, <1>8 DEF ToRead, HasRead, Ended
<1>13. page.next = None
  BY <1>12 DEF Walks, Walked
<1>14. Walks(q)
  BY <1>10, <1>11, <1>12, <1>13, WalkKept
<1>15. QED
  BY <1>9, <1>14, WalksOn DEF Becomes

LEMMA HeadsWalks ==
  ASSUME Inv, Walks(page), Heads
  PROVE  Walks(page)'
<1>1. PICK a \in Answer :
        LET p == Got(a) IN
        Becomes(IF p.screen = "refs" THEN Ends([p EXCEPT !.heads = a.state.heads], "refs")
                ELSE IF NothingPushed(p, a.state) THEN Ends(p, "empty")
                ELSE Calls(p, "tree"))
  BY DEF Heads
<1>2. page.call = "heads"
  BY DEF Heads, At
<1>3. Repository /\ Made(page) /\ Typed(page)
  BY <1>2, PageBefore
<1> DEFINE p == Got(a)
           h == [p EXCEPT !.heads = a.state.heads]
           q == IF p.screen = "refs" THEN Ends(h, "refs")
                ELSE IF NothingPushed(p, a.state) THEN Ends(p, "empty")
                ELSE Calls(p, "tree")
<1>4. Follows(page, p)
  BY <1>3, GotFollows
<1> HIDE DEF p
<1>5. Follows(p, h) /\ DOMAIN h = DOMAIN Blank /\ DOMAIN p = DOMAIN Blank
  BY <1>4 DEF Blank, Follows, SameWalk
<1> HIDE DEF h
<1>6. Becomes(q)
  BY <1>1 DEF p, h
<1>7. /\ Follows(page, q)
      /\ \/ q.call = "none" /\ q.kind \in {"refs", "empty"}
         \/ q.call = "tree" /\ page.screen # "refs"
  <2>1. CASE p.screen = "refs"
    BY <1>4, <1>5, <2>1, EndsFollows, FollowsOn
  <2>2. CASE p.screen # "refs" /\ NothingPushed(p, a.state)
    BY <1>4, <1>5, <2>2, EndsFollows, FollowsOn
  <2>3. CASE p.screen # "refs" /\ ~NothingPushed(p, a.state)
    <3>1. page.screen # "refs"
      BY <1>4, <2>3 DEF Follows, SameWalk
    <3>2. QED
      BY <1>4, <1>5, <2>3, <3>1, CallsFollows, FollowsOn
  <2>4. QED
    BY <2>1, <2>2, <2>3
<1> HIDE DEF q
<1>8. ToRead(page) /\ ~HasRead(page) /\ ~HasRead(q)
  BY <1>2, <1>7 DEF ToRead, HasRead, Ended
<1>9. Walks(q)
  <2>1. CASE q.call = "none" /\ q.kind \in {"refs", "empty"}
    <3>1. ~ToRead(q)
      BY <2>1 DEF ToRead
    <3>2. QED
      BY <1>2, <1>7, <1>8, <3>1, WalkAside
  <2>2. CASE q.call = "tree" /\ page.screen # "refs"
    <3>1. Kinds(q)
      BY <1>2, <1>7, <2>2 DEF Walks, Kinds, Follows, SameWalk, Ended
    <3>2. page.next = None
      BY <1>8 DEF Walks, Walked
    <3>3. QED
      BY <1>7, <1>8, <3>1, <3>2, WalkKept DEF Follows
  <2>3. QED
    BY <1>7, <2>1, <2>2
<1>10. QED
  BY <1>6, <1>9, WalksOn DEF Becomes

LEMMA LastWalks ==
  ASSUME Inv, Walks(page), Last
  PROVE  Walks(page)'
<1>1. PICK a \in Answer :
        LET c == Resolved(a.state, LogRef(page.ref))
            p == [Got(a) EXCEPT !.last = c] IN
        Becomes(IF c = None /\ ~NoBranch(a.state) THEN Message("missing")
                ELSE IF Readme \in DOMAIN page.items THEN Calls(p, "readme")
                ELSE Ends(p, "overview"))
  BY DEF Last
<1>2. page.call = "last"
  BY DEF Last, At
<1>3. Repository /\ Made(page) /\ Typed(page)
  BY <1>2, PageBefore
<1> DEFINE c == Resolved(a.state, LogRef(page.ref))
           g == Got(a)
           p == [g EXCEPT !.last = c]
           q == IF Readme \in DOMAIN page.items THEN Calls(p, "readme") ELSE Ends(p, "overview")
<1>4. CASE c = None /\ ~NoBranch(a.state)
  BY <1>1, <1>3, <1>4, MessageWalks
<1>5. CASE ~(c = None /\ ~NoBranch(a.state))
  <2>1. Becomes(q)
    BY <1>1, <1>5
  <2>2. Follows(page, g)
    BY <1>3, GotFollows
  <2> HIDE DEF g, c
  <2>3. Follows(g, p) /\ DOMAIN p = DOMAIN Blank
    BY <2>2 DEF Blank, Follows, SameWalk
  <2> HIDE DEF p
  <2>4. Follows(p, q) /\ (q.call = "readme" \/ Ended(q, "overview"))
    BY <2>3, CallsFollows, EndsFollows DEF Ended
  <2> HIDE DEF q
  <2>5. Walks(q)
    BY <1>2, <2>2, <2>3, <2>4, FollowsOn, WalkAfter
  <2>6. QED
    BY <2>1, <2>5, WalksOn DEF Becomes
<1>6. QED
  BY <1>4, <1>5

LEMMA ReadReadmeWalks ==
  ASSUME Inv, Walks(page), ReadReadme
  PROVE  Walks(page)'
<1>1. page.call = "readme"
  BY DEF ReadReadme, At
<1>2. Repository /\ Made(page) /\ Typed(page)
  BY <1>1, PageBefore
<1>3. ASSUME NEW p, Follows(page, p), Becomes(Ends(p, "overview"))
      PROVE  Walks(page)'
  <2> DEFINE q == Ends(p, "overview")
  <2>1. Follows(p, q) /\ Ended(q, "overview")
    BY <1>3, EndsFollows DEF Follows, Ended
  <2> HIDE DEF q
  <2>2. Walks(q)
    BY <1>1, <1>3, <2>1, FollowsOn, WalkAfter
  <2>3. QED
    BY <1>3, <2>2, WalksOn DEF Becomes, q
<1>4. CASE Becomes(Ends(page, "overview"))
  <2>1. Follows(page, page)
    BY <1>2 DEF Typed, Follows, SameWalk
  <2>2. QED
    BY <1>3, <1>4, <2>1
<1>5. ASSUME NEW a \in Answer,
             Becomes(Ends([Got(a) EXCEPT !.bytes = page.items[Readme]], "overview"))
      PROVE  Walks(page)'
  <2> DEFINE g == Got(a)
             p == [g EXCEPT !.bytes = page.items[Readme]]
  <2>1. Follows(page, g)
    BY <1>2, GotFollows
  <2> HIDE DEF g
  <2>2. Follows(g, p)
    BY <2>1 DEF Blank, Follows, SameWalk
  <2> HIDE DEF p
  <2>3. Becomes(Ends(p, "overview"))
    BY <1>5 DEF p, g
  <2>4. QED
    BY <1>3, <2>1, <2>2, <2>3, FollowsOn
<1>6. QED
  BY <1>4, <1>5 DEF ReadReadme

\* The calls of a page that has no list to walk.
LEMMA AsideWalks ==
  ASSUME Inv, Walks(page), page.call \in {"entry", "bytes", "commit", "compare"},
         NEW q, Follows(page, q), Becomes(q),
         q.call \in {"bytes", "compare"} \/ (q.call = "none" /\ q.kind \in {"file", "commit"})
  PROVE  Walks(page)'
<1>1. ~HasRead(page) /\ ~ToRead(q) /\ ~HasRead(q)
  BY DEF HasRead, ToRead, Ended
<1>2. Walks(q)
  BY <1>1, WalkAside
<1>3. QED
  BY <1>2, WalksOn DEF Becomes

LEMMA FindEntryWalks ==
  ASSUME Inv, Walks(page), FindEntry
  PROVE  Walks(page)'
<1>1. PICK a \in Answer :
        LET c == Resolved(a.state, page.ref) IN
        Becomes(
          IF c = None THEN Message("missing")
          ELSE LET rows == FirstOf(DOMAIN Dir(c)) IN
               IF page.file \notin rows THEN Message("notfound")
               ELSE Calls([Got(a) EXCEPT !.at = MetaCommit(page, c),
                                         !.items = [f \in rows |-> Dir(c)[f]]], "bytes"))
  BY DEF FindEntry
<1>2. page.call = "entry"
  BY DEF FindEntry, At
<1>3. Repository /\ Made(page)
  BY <1>2, PageBefore
<1> DEFINE c == Resolved(a.state, page.ref)
           rows == FirstOf(DOMAIN Dir(c))
           g == Got(a)
           p == [g EXCEPT !.at = MetaCommit(page, c), !.items = [f \in rows |-> Dir(c)[f]]]
           q == Calls(p, "bytes")
<1>4. Becomes(q) \/ Becomes(Message("missing")) \/ Becomes(Message("notfound"))
  BY <1>1
<1>5. Follows(page, g)
  BY <1>3, GotFollows
<1> HIDE DEF g, c, rows
<1>6. Follows(g, p) /\ DOMAIN p = DOMAIN Blank
  BY <1>5 DEF Blank, Follows, SameWalk
<1> HIDE DEF p
<1>7. Follows(page, q) /\ q.call = "bytes"
  BY <1>5, <1>6, CallsFollows, FollowsOn
<1> HIDE DEF q
<1>8. CASE Becomes(q)
  BY <1>2, <1>7, <1>8, AsideWalks
<1>9. CASE Becomes(Message("missing")) \/ Becomes(Message("notfound"))
  BY <1>3, <1>9, MessageWalks
<1>10. QED
  BY <1>4, <1>8, <1>9

LEMMA ReadBytesWalks ==
  ASSUME Inv, Walks(page), ReadBytes
  PROVE  Walks(page)'
<1>1. PICK a \in Answer :
        Becomes(
          IF ~Holds(a.state, page.items[page.file]) THEN Message("missing")
          ELSE Ends([Got(a) EXCEPT !.bytes = page.items[page.file],
                      !.items = <<>>,
                      !.pinned = page.screen = "blob" /\ Pinned(page.ref, page.at)], "file"))
  BY DEF ReadBytes
<1>2. page.call = "bytes"
  BY DEF ReadBytes, At
<1>3. Repository /\ Made(page)
  BY <1>2, PageBefore
<1> DEFINE g == Got(a)
           p == [g EXCEPT !.bytes = page.items[page.file], !.items = <<>>,
                          !.pinned = page.screen = "blob" /\ Pinned(page.ref, page.at)]
           q == Ends(p, "file")
<1>4. Becomes(q) \/ Becomes(Message("missing"))
  BY <1>1
<1>5. Follows(page, g)
  BY <1>3, GotFollows
<1> HIDE DEF g
<1>6. Follows(g, p) /\ DOMAIN p = DOMAIN Blank
  BY <1>5 DEF Blank, Follows, SameWalk
<1> HIDE DEF p
<1>7. Follows(page, q) /\ q.call = "none" /\ q.kind = "file"
  BY <1>5, <1>6, EndsFollows, FollowsOn
<1> HIDE DEF q
<1>8. CASE Becomes(q)
  BY <1>2, <1>7, <1>8, AsideWalks
<1>9. QED
  BY <1>3, <1>4, <1>8, MessageWalks

LEMMA ReadCommitWalks ==
  ASSUME Inv, Walks(page), ReadCommit
  PROVE  Walks(page)'
<1>1. PICK a \in Answer :
        LET c == Resolved(a.state, page.rev)
            p == [Says(Got(a), a) EXCEPT !.at = c] IN
        Becomes(IF c = None THEN Message("missing")
                ELSE IF commits[c].parent # None THEN Calls(p, "compare")
                ELSE IF page.screen = "commit" THEN Ends(p, "commit")
                ELSE Message("notfound"))
  BY DEF ReadCommit
<1>2. page.call = "commit"
  BY DEF ReadCommit, At
<1>3. Repository /\ Made(page)
  BY <1>2, PageBefore
<1> DEFINE c == Resolved(a.state, page.rev)
           g == Says(Got(a), a)
           p == [g EXCEPT !.at = c]
<1>4. \/ Becomes(Calls(p, "compare")) \/ Becomes(Ends(p, "commit"))
      \/ Becomes(Message("missing")) \/ Becomes(Message("notfound"))
  BY <1>1
<1>5. Follows(page, g)
  BY <1>3, GotFollows
<1> HIDE DEF g, c
<1>6. Follows(g, p) /\ DOMAIN p = DOMAIN Blank
  BY <1>5 DEF Blank, Follows, SameWalk
<1>7. Follows(page, p)
  BY <1>5, <1>6, FollowsOn
<1> HIDE DEF p
<1>8. CASE Becomes(Calls(p, "compare"))
  <2>1. Follows(page, Calls(p, "compare")) /\ Calls(p, "compare").call = "compare"
    BY <1>6, <1>7, CallsFollows, FollowsOn
  <2>2. QED
    BY <1>2, <1>8, <2>1, AsideWalks
<1>9. CASE Becomes(Ends(p, "commit"))
  <2>1. /\ Follows(page, Ends(p, "commit"))
        /\ Ends(p, "commit").call = "none" /\ Ends(p, "commit").kind = "commit"
    BY <1>6, <1>7, EndsFollows, FollowsOn
  <2>2. QED
    BY <1>2, <1>9, <2>1, AsideWalks
<1>10. CASE Becomes(Message("missing")) \/ Becomes(Message("notfound"))
  BY <1>3, <1>10, MessageWalks
<1>11. QED
  BY <1>4, <1>8, <1>9, <1>10

LEMMA CompareWalks ==
  ASSUME Inv, Walks(page), Compare
  PROVE  Walks(page)'
<1>1. PICK a \in Answer :
        LET base == Resolved(a.state, commits[page.at].parent)
            head == Resolved(a.state, Compared(page)) IN
        Becomes(IF base = None \/ head = None THEN Message("missing")
                ELSE Ends([Got(a) EXCEPT !.diff = <<base, head>>], "commit"))
  BY DEF Compare
<1>2. page.call = "compare"
  BY DEF Compare, At
<1>3. Repository /\ Made(page)
  BY <1>2, PageBefore
<1> DEFINE d == <<Resolved(a.state, commits[page.at].parent), Resolved(a.state, Compared(page))>>
           g == Got(a)
           p == [g EXCEPT !.diff = d]
           q == Ends(p, "commit")
<1>4. Becomes(q) \/ Becomes(Message("missing"))
  BY <1>1
<1>5. Follows(page, g)
  BY <1>3, GotFollows
<1> HIDE DEF g, d
<1>6. Follows(g, p) /\ DOMAIN p = DOMAIN Blank
  BY <1>5 DEF Blank, Follows, SameWalk
<1> HIDE DEF p
<1>7. Follows(page, q) /\ q.call = "none" /\ q.kind = "commit"
  BY <1>5, <1>6, EndsFollows, FollowsOn
<1> HIDE DEF q
<1>8. CASE Becomes(q)
  BY <1>2, <1>7, <1>8, AsideWalks
<1>9. QED
  BY <1>3, <1>4, <1>8, MessageWalks

\* What a page adds to what the walk has listed before it.
LEMMA RowsAdd ==
  ASSUME NEW p, p.seen \in [Entries -> Nat], NEW S
  PROVE  /\ Rows(p, S) \in [Entries -> Nat]
         /\ \A x \in Entries : Rows(p, S)[x] = (IF x \in S THEN p.seen[x] + 1 ELSE p.seen[x])
<1>1. DOMAIN p.seen = Entries /\ \A x \in Entries : p.seen[x] \in Nat
  OBVIOUS
<1>2. \A x \in Entries : p.seen[x] + 1 \in Nat /\ p.seen[x] + 0 = p.seen[x]
  BY <1>1
<1>3. \A x \in Entries : Rows(p, S)[x] = (IF x \in S THEN p.seen[x] + 1 ELSE p.seen[x])
  BY <1>1, <1>2 DEF Rows
<1>4. Rows(p, S) = [x \in Entries |-> Rows(p, S)[x]]
  BY <1>1 DEF Rows
<1>5. QED
  BY <1>1, <1>2, <1>3, <1>4

\* One page of the directory S, behind the cursor k.
LEMMA DirectoryPage ==
  ASSUME NEW S \in SUBSET Entries, IsFiniteSet(S), NEW k \in Nat,
         NEW rows, rows = FirstOf(After(S, k)), NEW next, next = NextOf(After(S, k))
  PROVE  /\ next \in Nat
         /\ \A x \in Entries : x \in rows => x \in S /\ x > k
         /\ next = None => \A x \in Entries : x \in rows <=> x \in S /\ x > k
         /\ next # None => /\ next > k
                           /\ \A x \in Entries : x \in rows <=> x \in S /\ x > k /\ x <= next
<1> DEFINE B == After(S, k)
<1>1. B \in SUBSET (Nat \ {0}) /\ IsFiniteSet(B)
  BY EntriesAre, FS_Subset DEF After
<1>2. \A x : x \in B <=> x \in S /\ x > k
  BY DEF After
<1>3. /\ rows \subseteq B
      /\ next = None => rows = B
      /\ next # None => next \in B /\ \A x \in B : x \in rows <=> x <= next
  BY <1>1, FirstPage
<1> HIDE DEF B
<1>4. next \in Nat
  <2>1. CASE next = None
    BY <2>1 DEF None
  <2>2. CASE next # None
    BY <1>1, <1>3, <2>2
  <2>3. QED
    BY <2>1, <2>2
<1>5. QED
  BY <1>2, <1>3, <1>4

\* One page of the log S, from the cursor k down.
LEMMA LogPage ==
  ASSUME NEW S \in SUBSET Entries, IsFiniteSet(S), NEW k \in Nat,
         NEW rows, rows = NewestOf(Before(S, k)), NEW next, next = OlderOf(Before(S, k))
  PROVE  /\ next \in Nat
         /\ next = None => \A x \in Entries : x \in rows <=> x \in S /\ (k = None \/ x < k)
         /\ next # None =>
              /\ k = None \/ next < k
              /\ \A x \in Entries : x \in rows <=> x \in S /\ (k = None \/ x < k) /\ x >= next
<1> DEFINE B == Before(S, k)
<1>1. B \in SUBSET (Nat \ {0}) /\ IsFiniteSet(B)
  <2>1. B \subseteq S
    BY DEF Before
  <2>2. QED
    BY <2>1, EntriesAre, FS_Subset
<1>2. \A x : x \in B <=> x \in S /\ (k = None \/ x < k)
  BY DEF Before
<1>3. /\ rows \subseteq B
      /\ next = None => rows = B
      /\ next # None => next \in B /\ \A x \in B : x \in rows <=> x >= next
  BY <1>1, NewestPage
<1> HIDE DEF B
<1>4. next \in Nat
  <2>1. CASE next = None
    BY <2>1 DEF None
  <2>2. CASE next # None
    BY <1>1, <1>3, <2>2
  <2>3. QED
    BY <2>1, <2>2
<1>5. QED
  BY <1>2, <1>3, <1>4

\* The directory and the history of a commit are of finitely many entries.
LEMMA CommitLists ==
  ASSUME Repository, NEW a \in Answer, NEW ref, Resolved(a.state, ref) # None
  PROVE  /\ DOMAIN Dir(Resolved(a.state, ref)) \in SUBSET Entries
         /\ IsFiniteSet(DOMAIN Dir(Resolved(a.state, ref)))
         /\ commits[Resolved(a.state, ref)].line \in SUBSET Entries
         /\ IsFiniteSet(commits[Resolved(a.state, ref)].line)
<1>1. /\ DOMAIN Dir(Resolved(a.state, ref)) \subseteq File
      /\ commits[Resolved(a.state, ref)].line \subseteq Commit
  BY AnswerCommit
<1>2. IsFiniteSet(File) /\ IsFiniteSet(Commit)
  BY ReadingAssumption, FS_Interval DEF Commit
<1>3. QED
  BY <1>1, <1>2, FS_Subset DEF Entries

\* An answer that is not behind is from the present state, and so are those
\* before it.
LEMMA FreshAnswer ==
  ASSUME NEW a \in Answer, NEW q,
         q.aged = (IF a.stale THEN page.aged \cup {page.call} ELSE page.aged), q.aged = {}
  PROVE  page.aged = {} /\ a.state = Now
<1>1. ~a.stale /\ page.aged = {}
  OBVIOUS
<1>2. QED
  BY <1>1 DEF Answer

LEMMA TreeWalks ==
  ASSUME Inv, Walks(page), Tree
  PROVE  Walks(page)'
<1>1. PICK a \in Answer :
        LET c == Resolved(a.state, page.ref) IN
        Becomes(
          IF c = None THEN Message("missing")
          ELSE LET behind == After(DOMAIN Dir(c), page.cursor)
                   rows == FirstOf(behind)
                   p == [Says(Got(a), a) EXCEPT
                          !.at = c, !.items = [f \in rows |-> Dir(c)[f]], !.next = NextOf(behind),
                          !.seen = Rows(page, rows)] IN
               IF p.screen = "overview" THEN Calls(p, "last") ELSE Ends(p, "listing"))
  BY DEF Tree
<1>2. page.call = "tree"
  BY DEF Tree, At
<1>3. Repository /\ Made(page)
  BY <1>2, PageBefore
<1>4. a.stale \in BOOLEAN
  BY <1>3, AnswerFrom
<1> DEFINE c == Resolved(a.state, page.ref)
           S == DOMAIN Dir(c)
           k == page.cursor
           rows == FirstOf(After(S, k))
           next == NextOf(After(S, k))
           g == Says(Got(a), a)
           p == [g EXCEPT !.at = c, !.items = [f \in rows |-> Dir(c)[f]], !.next = next,
                          !.seen = Rows(page, rows)]
           q == IF p.screen = "overview" THEN Calls(p, "last") ELSE Ends(p, "listing")
<1>5. CASE c = None
  BY <1>1, <1>3, <1>5, MessageWalks
<1>6. CASE c # None
  <2>1. Becomes(q)
    BY <1>1, <1>6
  <2>2. Follows(page, g) /\ g.aged = (IF a.stale THEN page.aged \cup {page.call} ELSE page.aged)
    BY <1>3, <1>4, GotFollows, SaysGets DEF Gets
  <2>3. S \in SUBSET Entries /\ IsFiniteSet(S) /\ k \in Nat /\ page.seen \in [Entries -> Nat]
    BY <1>3, <1>6, CommitLists DEF Walks, Walked
  <2>4. /\ next \in Nat
        /\ \A x \in Entries : x \in rows => x \in S /\ x > k
        /\ next = None => \A x \in Entries : x \in rows <=> x \in S /\ x > k
        /\ next # None => /\ next > k
                          /\ \A x \in Entries : x \in rows <=> x \in S /\ x > k /\ x <= next
    BY <2>3, DirectoryPage
  <2> HIDE DEF g, rows, next
  <2>5. /\ DOMAIN p = DOMAIN Blank /\ p.screen = page.screen /\ p.ref = page.ref
        /\ p.walk = page.walk /\ p.aged = g.aged
        /\ p.next = next /\ p.seen = Rows(page, rows)
    BY <2>2 DEF Follows, SameWalk, Blank
  <2> HIDE DEF p
  <2>6. /\ Follows(p, q) /\ q.aged = p.aged
        /\ \/ page.screen = "overview" /\ q.call = "last"
           \/ page.screen = "tree" /\ Ended(q, "listing")
    <3>1. page.screen \in {"tree", "overview"}
      BY <1>2 DEF Walks, Kinds
    <3>2. CASE p.screen = "overview"
      BY <2>5, <3>2, CallsFollows, CallsCarries DEF Carries
    <3>3. CASE p.screen # "overview"
      BY <2>5, <3>1, <3>3, EndsFollows, EndsCarries DEF Carries, Ended
    <3>4. QED
      BY <3>2, <3>3
  <2> HIDE DEF q
  <2>7. /\ q.screen = page.screen /\ q.ref = page.ref /\ q.walk = page.walk /\ q.next = next
        /\ q.seen \in [Entries -> Nat]
        /\ \A x \in Entries : q.seen[x] = (IF x \in rows THEN page.seen[x] + 1 ELSE page.seen[x])
        /\ q.cursor \in Nat
    <3>1. q.cursor = k
      BY <2>2, <2>5, <2>6 DEF Follows, SameWalk, p, Blank
    <3>2. QED
      BY <2>3, <2>5, <2>6, <3>1, RowsAdd DEF Follows, SameWalk
  <2>8. HasRead(q) /\ ~ToRead(q) /\ ToRead(page)
    BY <1>2, <2>6 DEF HasRead, ToRead, Ended
  <2>9. Walked(q)
    BY <2>4, <2>7, <2>8 DEF Walks, Walked
  <2>10. Kinds(q)
    BY <1>2, <2>6, <2>7 DEF Walks, Kinds, Ended
  <2>11. Once(q)
    <3>1. page.screen \in {"tree", "overview"}
      BY <2>6
    <3>2. ASSUME NEW x \in Entries
          PROVE  /\ x \in Nat /\ page.seen[x] \in {0, 1}
                 /\ page.seen[x] = 1 => x <= k
      BY <2>3, <2>8, <3>1, EntriesAre DEF Walks, Once, UpTo
    <3>3. ASSUME NEW x \in Entries
          PROVE  /\ q.seen[x] <= 1
                 /\ next # None /\ q.seen[x] = 1 => x <= next
      <4>1. x \in Nat /\ page.seen[x] \in {0, 1} /\ (page.seen[x] = 1 => x <= k)
        BY <3>2
      <4>2. CASE x \in rows
        <5>1. x > k /\ (next # None => x <= next)
          BY <2>4, <4>2
        <5>2. page.seen[x] = 0
          BY <2>3, <4>1, <5>1
        <5>3. q.seen[x] = 1
          BY <2>7, <4>2, <5>2
        <5>4. QED
          BY <5>1, <5>3
      <4>3. CASE x \notin rows
        <5>1. q.seen[x] = page.seen[x]
          BY <2>7, <4>3
        <5>2. next # None => next > k
          BY <2>4
        <5>3. QED
          BY <2>3, <2>4, <4>1, <5>1, <5>2
      <4>4. QED
        BY <4>2, <4>3
    <3>4. QED
      BY <2>7, <2>8, <3>3 DEF Once, UpTo
  <2>12. Whole(q)
    <3>1. SUFFICES ASSUME page.walk.screen \in {"tree", "log"}, ~page.walk.aged,
                          Still(page.walk), q.aged = {}
                   PROVE  Come(q, Resolved(Now, page.walk.ref))
      BY <2>7, <2>8 DEF Whole
    <3>2. page.walk.screen = "tree" /\ page.ref = page.walk.ref
      BY <1>2, <2>6, <3>1 DEF Walks, Kinds
    <3>3. c = Resolved(Now, page.walk.ref)
      BY <2>2, <2>5, <2>6, <3>1, <3>2, FreshAnswer
    <3>4. Coming(page, c)
      BY <2>8, <3>1, <3>3 DEF Walks, Whole
    <3>5. ASSUME NEW x \in Entries
          PROVE  x \in Nat \ {0} /\ page.seen[x] = (IF x \in S /\ x <= k THEN 1 ELSE 0)
      <4>1. x \in Nat \ {0}
        BY EntriesAre
      <4>2. CASE k = None
        <5>1. page.seen[x] = 0
          BY <3>4, <4>2 DEF Coming, SeenNone
        <5>2. ~(x <= k)
          BY <4>1, <4>2 DEF None
        <5>3. QED
          BY <4>1, <5>1, <5>2
      <4>3. CASE k # None
        BY <3>2, <3>4, <4>1, <4>3 DEF Coming, SeenTo, Passed, Things
      <4>4. QED
        BY <4>2, <4>3
    <3>6. CASE next = None
      <4>1. ASSUME NEW x \in Entries
            PROVE  q.seen[x] = IF x \in S THEN 1 ELSE 0
        <5>1. x \in rows <=> x \in S /\ x > k
          BY <2>4, <3>6
        <5>2. x \in Nat /\ k \in Nat
          BY <2>3, <3>5
        <5>3. QED
          BY <2>7, <3>5, <5>1, <5>2
      <4>2. SeenAll(q, c)
        BY <2>7, <3>2, <4>1 DEF SeenAll, Things
      <4>3. QED
        BY <1>6, <2>7, <3>3, <3>6, <4>2 DEF Come
    <3>7. CASE next # None
      <4>1. ASSUME NEW x \in Entries
            PROVE  q.seen[x] = IF x \in S /\ x <= next THEN 1 ELSE 0
        <5>1. next > k /\ (x \in rows <=> x \in S /\ x > k /\ x <= next)
          BY <2>4, <3>7
        <5>2. x \in Nat /\ k \in Nat /\ next \in Nat
          BY <2>3, <2>4, <3>5
        <5>3. QED
          BY <2>7, <3>5, <5>1, <5>2
      <4>2. SeenTo(q, c, next)
        BY <2>7, <3>2, <3>7, <4>1 DEF SeenTo, Things, Passed
      <4>3. QED
        BY <1>6, <2>7, <3>3, <3>7, <4>2 DEF Come
    <3>8. QED
      BY <3>6, <3>7
  <2>13. QED
    BY <2>1, <2>9, <2>10, <2>11, <2>12, WalksOn DEF Walks, Becomes
<1>7. QED
  BY <1>5, <1>6

LEMMA LogWalks ==
  ASSUME Inv, Walks(page), Log
  PROVE  Walks(page)'
<1>1. PICK a \in Answer :
        LET c == Resolved(a.state, page.ref) IN
        Becomes(
          IF c = None THEN IF NoBranch(a.state) THEN Ends(Says(Got(a), a), "log")
                           ELSE Message("missing")
          ELSE LET behind == Before(commits[c].line, page.cursor)
                   rows == NewestOf(behind) IN
               Ends([Says(Got(a), a) EXCEPT
                      !.at = c, !.items = [x \in rows |-> x], !.next = OlderOf(behind),
                      !.seen = Rows(page, rows)], "log"))
  BY DEF Log
<1>2. page.call = "log"
  BY DEF Log, At
<1>3. Repository /\ Made(page)
  BY <1>2, PageBefore
<1>4. a.stale \in BOOLEAN
  BY <1>3, AnswerFrom
<1>5. ToRead(page) /\ ~HasRead(page) /\ page.screen = "log"
  BY <1>2 DEF ToRead, HasRead, Ended, Walks, Kinds
<1> DEFINE c == Resolved(a.state, page.ref)
           S == commits[c].line
           k == page.cursor
           rows == NewestOf(Before(S, k))
           next == OlderOf(Before(S, k))
           g == Says(Got(a), a)
           p == [g EXCEPT !.at = c, !.items = [x \in rows |-> x], !.next = next,
                          !.seen = Rows(page, rows)]
<1>6. CASE c = None /\ ~NoBranch(a.state)
  BY <1>1, <1>3, <1>6, MessageWalks
<1>7. Follows(page, g) /\ g.aged = (IF a.stale THEN page.aged \cup {page.call} ELSE page.aged)
  BY <1>3, <1>4, GotFollows, SaysGets DEF Gets
<1>8. ASSUME NEW q, Ended(q, "log"), q.screen = page.screen, q.ref = page.ref, q.walk = page.walk,
             q.aged = g.aged,
             page.walk.screen \in {"tree", "log"}, ~page.walk.aged, Still(page.walk), q.aged = {}
      PROVE  /\ page.walk.screen = "log" /\ c = Resolved(Now, page.walk.ref)
             /\ Coming(page, c)
  <2>1. page.walk.screen = "log" /\ page.ref = page.walk.ref
    BY <1>2, <1>5, <1>8 DEF Walks, Kinds
  <2>2. c = Resolved(Now, page.walk.ref)
    BY <1>7, <1>8, <2>1, FreshAnswer
  <2>3. Coming(page, c)
    BY <1>5, <1>8, <2>2 DEF Walks, Whole
  <2>4. QED
    BY <2>1, <2>2, <2>3
<1>9. CASE c = None /\ NoBranch(a.state)
  <2> DEFINE q == Ends(g, "log")
  <2>1. Becomes(q)
    BY <1>1, <1>9
  <2>2. Follows(g, q) /\ Ended(q, "log") /\ q.aged = g.aged
    BY <1>7, EndsFollows, EndsCarries DEF Follows, Carries, Ended
  <2> HIDE DEF q, g, p
  <2>3. SameWalk(page, q) /\ q.ref = page.ref
    BY <1>7, <2>2 DEF Follows, SameWalk
  <2>4. page.next = None
    BY <1>5 DEF Walks, Walked
  <2>5. HasRead(q) /\ ~ToRead(q)
    BY <2>2 DEF HasRead, ToRead, Ended
  <2>6. Walked(q)
    BY <2>3, <2>5 DEF Walks, Walked, SameWalk
  <2>7. Kinds(q) /\ Once(q)
    BY <1>2, <1>5, <2>2, <2>3 DEF Walks, Kinds, Once, SameWalk, Ended
  <2>8. Whole(q)
    <3>1. SUFFICES ASSUME page.walk.screen \in {"tree", "log"}, ~page.walk.aged,
                          Still(page.walk), q.aged = {}
                   PROVE  Come(q, Resolved(Now, page.walk.ref))
      BY <2>3, <2>5 DEF Whole, SameWalk
    <3>2. page.walk.screen = "log" /\ c = Resolved(Now, page.walk.ref)
      BY <1>8, <2>2, <2>3, <3>1 DEF SameWalk
    <3>3. QED
      BY <1>9, <2>3, <2>4, <3>2 DEF Come, SameWalk
  <2>9. QED
    BY <2>1, <2>6, <2>7, <2>8, WalksOn DEF Walks, Becomes
<1>10. CASE c # None
  <2> DEFINE q == Ends(p, "log")
  <2>1. Becomes(q)
    BY <1>1, <1>10
  <2>2. S \in SUBSET Entries /\ IsFiniteSet(S) /\ k \in Nat /\ page.seen \in [Entries -> Nat]
    BY <1>3, <1>10, CommitLists DEF Walks, Walked
  <2>3. /\ next \in Nat
        /\ next = None => \A x \in Entries : x \in rows <=> x \in S /\ (k = None \/ x < k)
        /\ next # None =>
             /\ k = None \/ next < k
             /\ \A x \in Entries : x \in rows <=> x \in S /\ (k = None \/ x < k) /\ x >= next
    BY <2>2, LogPage
  <2> HIDE DEF g, rows, next
  <2>4. /\ DOMAIN p = DOMAIN Blank /\ p.screen = page.screen /\ p.ref = page.ref
        /\ p.walk = page.walk /\ p.aged = g.aged /\ p.cursor = k
        /\ p.next = next /\ p.seen = Rows(page, rows)
    BY <1>7 DEF Follows, SameWalk, Blank
  <2> HIDE DEF p
  <2>5. Follows(p, q) /\ q.aged = p.aged /\ Ended(q, "log")
    BY <2>4, EndsFollows, EndsCarries DEF Carries, Ended
  <2> HIDE DEF q
  <2>6. /\ q.screen = page.screen /\ q.ref = page.ref /\ q.walk = page.walk /\ q.next = next
        /\ q.seen \in [Entries -> Nat]
        /\ \A x \in Entries : q.seen[x] = (IF x \in rows THEN page.seen[x] + 1 ELSE page.seen[x])
        /\ q.cursor \in Nat
    BY <2>2, <2>4, <2>5, RowsAdd DEF Follows, SameWalk
  <2>7. HasRead(q) /\ ~ToRead(q)
    BY <2>5 DEF HasRead, ToRead, Ended
  <2>8. Walked(q)
    BY <2>3, <2>6, <2>7 DEF Walks, Walked
  <2>9. Kinds(q) /\ Once(q)
    BY <1>2, <1>5, <2>5, <2>6 DEF Walks, Kinds, Once, Ended
  <2>10. Whole(q)
    <3>1. SUFFICES ASSUME page.walk.screen \in {"tree", "log"}, ~page.walk.aged,
                          Still(page.walk), q.aged = {}
                   PROVE  Come(q, Resolved(Now, page.walk.ref))
      BY <2>6, <2>7 DEF Whole
    <3>2. page.walk.screen = "log" /\ c = Resolved(Now, page.walk.ref) /\ Coming(page, c)
      BY <1>8, <2>4, <2>5, <2>6, <3>1
    <3>3. ASSUME NEW x \in Entries
          PROVE  x \in Nat \ {0} /\ page.seen[x] = (IF x \in S /\ k # None /\ x >= k THEN 1 ELSE 0)
      <4>1. x \in Nat \ {0}
        BY EntriesAre
      <4>2. CASE k = None
        <5>1. page.seen[x] = 0
          BY <3>2, <4>2 DEF Coming, SeenNone
        <5>2. QED
          BY <4>1, <4>2, <5>1
      <4>3. CASE k # None
        BY <3>2, <4>1, <4>3 DEF Coming, SeenTo, Passed, Things
      <4>4. QED
        BY <4>2, <4>3
    <3>4. CASE next = None
      <4>1. ASSUME NEW x \in Entries
            PROVE  q.seen[x] = IF x \in S THEN 1 ELSE 0
        <5>1. x \in rows <=> x \in S /\ (k = None \/ x < k)
          BY <2>3, <3>4
        <5>2. x \in Nat /\ k \in Nat
          BY <2>2, <3>3
        <5>3. QED
          BY <2>6, <3>3, <5>1, <5>2
      <4>2. SeenAll(q, c)
        BY <2>6, <3>2, <4>1 DEF SeenAll, Things
      <4>3. QED
        BY <1>10, <2>6, <3>2, <3>4, <4>2 DEF Come
    <3>5. CASE next # None
      <4>1. ASSUME NEW x \in Entries
            PROVE  q.seen[x] = IF x \in S /\ x >= next THEN 1 ELSE 0
        <5>1. /\ k = None \/ next < k
              /\ x \in rows <=> x \in S /\ (k = None \/ x < k) /\ x >= next
          BY <2>3, <3>5
        <5>2. x \in Nat /\ k \in Nat /\ next \in Nat
          BY <2>2, <2>3, <3>3
        <5>3. QED
          BY <2>6, <3>3, <5>1, <5>2
      <4>2. SeenTo(q, c, next)
        BY <2>6, <3>2, <3>5, <4>1 DEF SeenTo, Things, Passed
      <4>3. QED
        BY <1>10, <2>6, <3>2, <3>5, <4>2 DEF Come
    <3>6. QED
      BY <3>4, <3>5
  <2>11. QED
    BY <2>1, <2>8, <2>9, <2>10, WalksOn DEF Walks, Becomes
<1>11. QED
  BY <1>6, <1>9, <1>10

LEMMA WalksKept == Inv /\ Walks(page) /\ [Next]_vars => Walks(page)'
<1> SUFFICES ASSUME Inv, Walks(page), [Next]_vars PROVE Walks(page)'
  OBVIOUS
<1>1. ASSUME NEW b \in Branch, Push(b) \/ Move(b) PROVE Walks(page)'
  BY <1>1, PushWalks
<1>2. CASE AskAny
  BY <1>2, AskWalks DEF AskAny, Screen, Ref
<1>3. CASE Follow
  BY <1>3, FollowWalks
<1>4. CASE Close
  BY <1>4, BlankWalks, WalksOn DEF Close, Inv
<1>5. CASE Read
  <2>1. CASE Fail
    BY <2>1, MessageWalks DEF Fail, Inv
  <2>2. QED
    BY <1>5, <2>1, ResolveWalks, HeadsWalks, TreeWalks, LastWalks, ReadReadmeWalks,
       FindEntryWalks, ReadBytesWalks, LogWalks, ReadCommitWalks, CompareWalks DEF Read
<1>6. CASE UNCHANGED vars
  BY <1>6, WalksOn DEF vars
<1>7. QED
  BY <1>1, <1>2, <1>3, <1>4, <1>5, <1>6 DEF Next

\* "Every entry appears exactly once" over the pages of a directory or a log
\* whose reference stands still, and none twice wherever it moves between two
\* pages: handleTree and handleLog of internal/web/page_repo.go and
\* page_commit.go, with the cursors of internal/origo/client.go, for every
\* size of a page.
THEOREM EntriesListedOnce == Spec => []ListedOnce
<1>1. Init => Walks(page)
  BY InitHolds, BlankWalks DEF Init, Inv
<1>2. Inv /\ Walks(page) => ListedOnce
  <2> SUFFICES ASSUME Walks(page) PROVE ListedOnce
    OBVIOUS
  <2>1. CompleteFrom({"tree", "log"})
    <3>1. SUFFICES ASSUME page.walk.screen \in {"tree", "log"}
                   PROVE  LET c == Resolved(Now, page.walk.ref) IN
                          /\ LastPage("listing") => Complete(DOMAIN Dir(c))
                          /\ LastPage("log") /\ c # None => Complete(commits[c].line)
      BY DEF CompleteFrom
    <3> DEFINE c == Resolved(Now, page.walk.ref)
    <3>2. ASSUME NEW kind \in {"listing", "log"}, LastPage(kind)
          PROVE  /\ Come(page, c) /\ page.next = None
                 /\ page.walk.screen = IF kind = "log" THEN "log" ELSE "tree"
      <4>1. Ended(page, kind) /\ HasRead(page) /\ page.next = None
        BY <3>2 DEF LastPage, Shown, Idle, Ended, HasRead
      <4>2. page.walk.screen = IF kind = "log" THEN "log" ELSE "tree"
        BY <3>1, <4>1 DEF Walks, Kinds
      <4>3. Come(page, c)
        BY <3>1, <3>2, <4>1 DEF LastPage, Walks, Whole
      <4>4. QED
        BY <4>1, <4>2, <4>3
    <3>3. ASSUME LastPage("listing") PROVE Complete(DOMAIN Dir(c))
      BY <3>2, <3>3 DEF Come, SeenAll, Things, Complete, Entries
    <3>4. ASSUME LastPage("log"), c # None PROVE Complete(commits[c].line)
      BY <3>2, <3>4 DEF Come, SeenAll, Things, Complete, Entries
    <3>5. QED
      BY <3>3, <3>4
  <2>2. ASSUME Shown("listing"), NEW f \in File PROVE page.seen[f] <= 1
    <3>1. HasRead(page) /\ page.screen = "tree"
      BY <2>2 DEF Shown, Idle, Ended, HasRead, Walks, Kinds
    <3>2. QED
      BY <3>1 DEF Walks, Once, Entries
  <2>3. QED
    BY <2>1, <2>2 DEF ListedOnce
<1>3. QED
  BY <1>1, <1>2, WalksKept, InvHolds, PTL DEF Spec
=============================================================================
