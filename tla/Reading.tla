------------------------------ MODULE Reading ------------------------------
(***************************************************************************)
(* The screens that read a repository (internal/web/page_repo.go,          *)
(* page_file.go, page_commit.go; internal/origo/client.go), while people   *)
(* push to it.                                                             *)
(*                                                                         *)
(* A page is made of several calls.  Each call names a reference, a commit *)
(* or a blob and is answered from the state the repository is in at that   *)
(* moment, or, when Origo could not check that it is current, from an      *)
(* older one (Origo-Stale).  Origo names the commit a reference resolved   *)
(* to (Origo-Commit), and lists a directory or a log a page at a time.     *)
(*                                                                         *)
(* The repository has one directory and no tags.  What a call answers when *)
(* it fails for a reason other than absence is the business of Screens;    *)
(* here the page is a failure.                                             *)
(***************************************************************************)
EXTENDS Naturals, Sequences, FiniteSets

CONSTANTS
  Branch,    \* names of branches
  Default,   \* the default branch, which need not have been pushed
  Word,      \* other names an address may carry: abbreviated object ids
  Hex,       \* the names written like an object id, long enough for one
  Prefix,    \* <<name, commit>>: the commit's object id begins with that name
  File,      \* the names of files, in the order a directory lists them
  Readme,    \* the file the overview shows below the directory
  PageSize,  \* how many entries or commits Origo puts on a page
  MaxPush,   \* bound: commits
  MaxMove,   \* bound: changes of a reference
  MaxLag     \* bound: how many changes an answer may be behind, unchecked

Commit == 1..MaxPush
None == 0

ASSUME ReadingAssumption ==
  /\ Default \in Branch
  /\ (Branch \cup Word) \cap Nat = {} /\ Branch \cap Word = {}
  /\ Hex \subseteq Branch \cup Word
  /\ Prefix \subseteq (Branch \cup Word) \X Commit
  /\ File \subseteq Nat \ {0} /\ IsFiniteSet(File) /\ Readme \in File
  /\ PageSize \in Nat \ {0} /\ MaxPush \in Nat /\ MaxMove \in Nat /\ MaxLag \in Nat

Ref == Branch \cup Word \cup Commit

VARIABLES
  commits,  \* the commits, in the order they were pushed
  past,     \* what the references were, after every change; the last is now
  page      \* the page being made or shown: its address and what is on it

vars == <<commits, past, page>>

Now == past[Len(past)]
Dir(c) == commits[c].dir

\* An address nothing has been asked at, and an empty page.
Blank == [screen |-> "overview", ref |-> None, rev |-> None, file |-> None, cursor |-> None,
          call |-> "none", kind |-> "none", head |-> None, heads |-> <<>>,
          at |-> None, items |-> <<>>, bytes |-> None, last |-> None, diff |-> <<>>,
          pinned |-> FALSE, next |-> None, says |-> FALSE,
          sent |-> 1, aged |-> {}, seen |-> [x \in File \cup Commit |-> 0],
          walk |-> [screen |-> "overview", ref |-> Default, since |-> 1, aged |-> FALSE]]

----------------------------------------------------------------------------
(***************************************************************************)
(* Origo: what it answers from one state of the repository.                *)
(***************************************************************************)

\* The commit a name stands for: a branch of that name, the commit of that
\* object id, or the only one it abbreviates.
Abbreviated(s, ref) == {c \in 1..s.known : <<ref, c>> \in Prefix /\ ref \in Hex}
Resolved(s, ref) ==
  IF ref \in Branch /\ s.heads[ref] # None THEN s.heads[ref]
  ELSE IF ref \in 1..s.known THEN ref
  ELSE IF Cardinality(Abbreviated(s, ref)) = 1 THEN CHOOSE c \in Abbreviated(s, ref) : TRUE
  ELSE None

NoBranch(s) == \A b \in Branch : s.heads[b] = None

\* One page of a directory: the entries behind the cursor, and the cursor of
\* the page after it.
After(S, cursor) == {x \in S : x > cursor}
FirstOf(S) == {x \in S : Cardinality({y \in S : y <= x}) <= PageSize}
NextOf(S) == IF S = FirstOf(S) THEN None ELSE CHOOSE x \in FirstOf(S) : \A y \in FirstOf(S) : y <= x

\* One page of a log: the same, newest first; the cursor is the last commit
\* of the page before.
Before(S, cursor) == IF cursor = None THEN S ELSE {x \in S : x < cursor}
NewestOf(S) == {x \in S : Cardinality({y \in S : y >= x}) <= PageSize}
OlderOf(S) == IF S = NewestOf(S) THEN None ELSE CHOOSE x \in NewestOf(S) : \A y \in NewestOf(S) : y >= x

\* The states a call may be answered from: the present one, or one that was
\* not checked and may be behind.
Answer ==
  {[state |-> Now, stale |-> FALSE]}
    \cup {[state |-> past[i], stale |-> TRUE] :
            i \in {j \in DOMAIN past : MaxLag > 0 /\ Len(past) <= j + MaxLag}}

----------------------------------------------------------------------------
(***************************************************************************)
(* People push.                                                            *)
(***************************************************************************)

Changed(heads, known) == past' = Append(past, [heads |-> heads, known |-> known])

\* A commit is pushed to b, on top of what b is.
Push(b) ==
  /\ Len(commits) < MaxPush /\ Len(past) <= MaxMove
  /\ LET n == Len(commits) + 1 IN
     \E files \in SUBSET File :
       LET parent == Now.heads[b]
           old == IF parent = None THEN <<>> ELSE Dir(parent) IN
       \E kept \in SUBSET (files \cap DOMAIN old) :
         /\ commits' = Append(commits,
              [parent |-> parent,
               line |-> {n} \cup (IF parent = None THEN {} ELSE commits[parent].line),
               dir |-> [f \in files |-> IF f \in kept THEN old[f] ELSE n]])
         /\ Changed([Now.heads EXCEPT ![b] = n], n)
  /\ UNCHANGED page

\* A branch is made, set back, or deleted; the default branch is not deleted.
Move(b) ==
  /\ Len(past) <= MaxMove
  /\ \E c \in 1..Len(commits) \cup (IF b = Default THEN {} ELSE {None}) :
       /\ c # Now.heads[b]
       /\ Changed([Now.heads EXCEPT ![b] = c], Now.known)
  /\ UNCHANGED <<commits, page>>

----------------------------------------------------------------------------
(***************************************************************************)
(* The reader asks for a page.                                             *)
(***************************************************************************)

Idle == page.call = "none"
Asked(p) == [p EXCEPT !.call = "resolve", !.sent = Len(past)]

\* History: the pages of one directory or one log, from the first of them.
Begun(screen, ref) ==
  [screen |-> screen, ref |-> IF ref = None THEN Default ELSE ref,
   since |-> Len(past), aged |-> FALSE]

\* The page is left.
Close ==
  /\ Idle
  /\ page' = Blank
  /\ UNCHANGED <<commits, past>>

\* An address is typed, or one that the page just left showed is opened.
Ask(screen, ref, rev, file) ==
  /\ page = Blank
  /\ page' = Asked([Blank EXCEPT !.screen = screen, !.ref = ref, !.rev = rev, !.file = file,
                                 !.walk = Begun(screen, ref)])
  /\ UNCHANGED <<commits, past>>

\* Mutant of RefQuery: the reference is left to the default.
RefQueryDropped(ref) == None

\* RefQuery, RefQueryValue: the reference an address of this page carries on.
RefQuery(ref) == IF ref = Default THEN None ELSE ref

\* The link to the page after this one.  The overview's, in overview.gohtml,
\* leads to the directory and carries no reference.
Follow ==
  /\ Idle /\ page.next # None
  /\ page' = Asked([Blank EXCEPT
       !.screen = IF page.screen = "log" THEN "log" ELSE "tree",
       !.ref = IF page.screen = "overview" THEN None ELSE RefQuery(page.ref),
       !.cursor = page.next, !.seen = page.seen,
       !.walk = [page.walk EXCEPT !.aged = @ \/ page.aged # {}]])
  /\ UNCHANGED <<commits, past>>

----------------------------------------------------------------------------
(***************************************************************************)
(* The handlers, call by call.                                             *)
(***************************************************************************)

At(call) == page.call = call
Becomes(p) == page' = p /\ UNCHANGED <<commits, past>>

\* The page after a call was answered with a; whether it was out of date is
\* history.
Got(a) == [page EXCEPT !.aged = IF a.stale THEN @ \cup {page.call} ELSE @]

\* Mutant of Says: the line is that of the first call alone.
SaysFirst(p, a) == [p EXCEPT !.says = @ \/ (a.stale /\ page.call = "resolve")]

\* staleSentence, firstNonEmpty: the page carries the line from here on.
Says(p, a) == [p EXCEPT !.says = @ \/ a.stale]

Calls(p, call) == [p EXCEPT !.call = call]
Ends(p, kind) == [p EXCEPT !.call = "none", !.kind = kind, !.head = None]

\* A page with nothing of the repository on it.
Message(kind) == [Blank EXCEPT !.kind = kind]

\* Any call may fail otherwise: readFailed.
Fail ==
  /\ ~Idle /\ ~At("readme")
  /\ Becomes(Message("failed"))

\* openRepo: the name, the default branch and the commit that branch is at.
Resolve ==
  /\ At("resolve")
  /\ \E a \in Answer :
       LET p == [Says(Got(a), a) EXCEPT !.head = a.state.heads[Default],
                                        !.ref = IF @ = None THEN Default ELSE @] IN
       Becomes(Calls(p,
         CASE p.screen \in {"overview", "refs"} -> "heads"
           [] p.screen = "tree"                 -> IF p.head = None THEN "heads" ELSE "tree"
           [] p.screen \in {"blob", "raw"}      -> "entry"
           [] p.screen = "log"                  -> "log"
           [] p.screen \in {"commit", "patch"}  -> "commit"))

\* handleOverview, handleTree: the repository has no commit at all.
NothingPushed(p, s) == p.head = None /\ NoBranch(s)

\* refsFor, and what the screens make of it: a repository without a commit is
\* a page of its own.
Heads ==
  /\ At("heads")
  /\ \E a \in Answer :
       LET p == Got(a) IN
       Becomes(IF p.screen = "refs" THEN Ends([p EXCEPT !.heads = a.state.heads], "refs")
               ELSE IF NothingPushed(p, a.state) THEN Ends(p, "empty")
               ELSE Calls(p, "tree"))

\* The rows of one page, added to those of the pages it was reached through.
Rows(p, S) == [x \in DOMAIN p.seen |-> p.seen[x] + IF x \in S THEN 1 ELSE 0]

\* handleTree, and the second read of handleOverview: one page of a directory.
Tree ==
  /\ At("tree")
  /\ \E a \in Answer :
       LET c == Resolved(a.state, page.ref) IN
       Becomes(
         IF c = None THEN Message("missing")
         ELSE LET behind == After(DOMAIN Dir(c), page.cursor)
                  rows == FirstOf(behind)
                  p == [Says(Got(a), a) EXCEPT
                         !.at = c, !.items = [f \in rows |-> Dir(c)[f]], !.next = NextOf(behind),
                         !.seen = Rows(page, rows)] IN
              IF p.screen = "overview" THEN Calls(p, "last") ELSE Ends(p, "listing"))

\* Mutant of LogRef: the log is asked for without a reference.
LogRefDropped(ref) == Default

\* handleOverview: the reference the log is asked for.
LogRef(ref) == ref

\* handleOverview: the newest commit of the log, and whether the page of the
\* directory in hand has a readme.  Origo answers the log of an empty
\* repository with an empty page.
Last ==
  /\ At("last")
  /\ \E a \in Answer :
       LET c == Resolved(a.state, LogRef(page.ref))
           p == [Got(a) EXCEPT !.last = c] IN
       Becomes(IF c = None /\ ~NoBranch(a.state) THEN Message("missing")
               ELSE IF Readme \in DOMAIN page.items THEN Calls(p, "readme")
               ELSE Ends(p, "overview"))

\* A blob read by its object id, where the state answering knows it.
Holds(s, blob) == blob <= s.known

\* readme: a blob that cannot be read leaves the overview without it.
ReadReadme ==
  /\ At("readme")
  /\ \/ \E a \in Answer :
          /\ Holds(a.state, page.items[Readme])
          /\ Becomes(Ends([Got(a) EXCEPT !.bytes = page.items[Readme]], "overview"))
     \/ Becomes(Ends(page, "overview"))

\* Mutant of MetaCommit: what the address names.
MetaOfAddress(p, c) == p.ref

\* Mutant of MetaCommit: the commit the repository itself was answered with.
MetaOfRepo(p, c) == p.head

\* readMeta: the commit the read of the directory resolved to.
MetaCommit(p, c) == c

\* findEntry: the entry is looked for on the first page of its directory.
FindEntry ==
  /\ At("entry")
  /\ \E a \in Answer :
       LET c == Resolved(a.state, page.ref) IN
       Becomes(
         IF c = None THEN Message("missing")
         ELSE LET rows == FirstOf(DOMAIN Dir(c)) IN
              IF page.file \notin rows THEN Message("notfound")
              ELSE Calls([Got(a) EXCEPT !.at = MetaCommit(page, c),
                                        !.items = [f \in rows |-> Dir(c)[f]]], "bytes"))

\* Mutant of Pinned: any name the object id begins with.
PinnedShort(ref, c) == ref = c \/ <<ref, c>> \in Prefix

\* newPinView, isObjectID: the address names the commit its read resolved to.
Pinned(ref, c) == ref = c \/ (ref \in Hex /\ <<ref, c>> \in Prefix)

\* handleBlob and handleRaw: the bytes, by the object id of the entry.
ReadBytes ==
  /\ At("bytes")
  /\ \E a \in Answer :
       Becomes(
         IF ~Holds(a.state, page.items[page.file]) THEN Message("missing")
         ELSE Ends([Got(a) EXCEPT !.bytes = page.items[page.file],
                     !.items = <<>>,
                     !.pinned = page.screen = "blob" /\ Pinned(page.ref, page.at)], "file"))

\* handleLog: one page of a log.
Log ==
  /\ At("log")
  /\ \E a \in Answer :
       LET c == Resolved(a.state, page.ref) IN
       Becomes(
         IF c = None THEN IF NoBranch(a.state) THEN Ends(Says(Got(a), a), "log")
                          ELSE Message("missing")
         ELSE LET behind == Before(commits[c].line, page.cursor)
                  rows == NewestOf(behind) IN
              Ends([Says(Got(a), a) EXCEPT
                     !.at = c, !.items = [x \in rows |-> x], !.next = OlderOf(behind),
                     !.seen = Rows(page, rows)], "log"))

\* handleCommit and handlePatch: the commit the address names, and its parent.
ReadCommit ==
  /\ At("commit")
  /\ \E a \in Answer :
       LET c == Resolved(a.state, page.rev)
           p == [Says(Got(a), a) EXCEPT !.at = c] IN
       Becomes(IF c = None THEN Message("missing")
               ELSE IF commits[c].parent # None THEN Calls(p, "compare")
               ELSE IF page.screen = "commit" THEN Ends(p, "commit")
               ELSE Message("notfound"))

\* Mutant of Compared: up to what the address names.
ComparedAddress(p) == p.rev

\* handleCommit, handlePatch: the side the parent is compared to.
Compared(p) == p.at

\* The difference between the two, by the object ids just read.
Compare ==
  /\ At("compare")
  /\ \E a \in Answer :
       LET base == Resolved(a.state, commits[page.at].parent)
           head == Resolved(a.state, Compared(page)) IN
       Becomes(IF base = None \/ head = None THEN Message("missing")
               ELSE Ends([Got(a) EXCEPT !.diff = <<base, head>>], "commit"))

----------------------------------------------------------------------------
Init ==
  /\ commits = <<>>
  /\ past = <<[heads |-> [b \in Branch |-> None], known |-> 0]>>
  /\ page = Blank

AskAny ==
  \/ \E screen \in {"overview", "tree", "log"}, ref \in Ref \cup {None} :
       Ask(screen, ref, None, None)
  \/ \E screen \in {"blob", "raw"}, ref \in Ref \cup {None}, file \in File :
       Ask(screen, ref, None, file)
  \/ \E screen \in {"commit", "patch"}, rev \in Ref : Ask(screen, None, rev, None)
  \/ Ask("refs", None, None, None)

Read ==
  \/ Fail \/ Resolve \/ Heads \/ Tree \/ Last \/ ReadReadme \/ FindEntry \/ ReadBytes
  \/ Log \/ ReadCommit \/ Compare

Next ==
  \/ \E b \in Branch : Push(b) \/ Move(b)
  \/ AskAny \/ Follow \/ Close \/ Read

Spec == Init /\ [][Next]_vars

----------------------------------------------------------------------------
Shown(kind) == Idle /\ page.kind = kind

\* The states the repository was in while this page was made; any state
\* before, if one of the calls was answered without a currency check.
During == {past[i] : i \in (IF page.aged = {} THEN page.sent ELSE 1)..Len(past)}

TypeOK ==
  /\ commits \in Seq([parent : 0..MaxPush, line : SUBSET Commit,
                      dir : UNION {[S -> Commit] : S \in SUBSET File}])
  /\ past \in Seq([heads : [Branch -> 0..MaxPush], known : 0..MaxPush])
  /\ page.ref \in Ref \cup {None} /\ page.at \in 0..MaxPush /\ page.last \in 0..MaxPush
  /\ DOMAIN page.items \subseteq File \cup Commit /\ page.says \in BOOLEAN

\* handleBlob: the file screen is made of a directory and a blob, read apart.
\* Its bytes are those its path has in the commit the page names and its
\* permalink carries, and the address named that commit while it was made.
FileIsOneState ==
  Shown("file") =>
    /\ page.at # None
    /\ page.file \in DOMAIN Dir(page.at) /\ page.bytes = Dir(page.at)[page.file]
    /\ \E s \in During : Resolved(s, page.ref) = page.at

\* What an address shows now, where it shows anything.
ShowsOnly(ref, file, bytes) ==
  LET c == Resolved(Now, ref) IN
  c # None => file \in DOMAIN Dir(c) /\ Dir(c)[file] = bytes

\* newPinView: "This address always shows these bytes."  However the branches
\* move afterwards, the address of a pinned file and the permalink of any
\* file show the bytes they showed.
CitationHolds ==
  Shown("file") =>
    /\ Resolved(Now, page.at) = page.at /\ ShowsOnly(page.at, page.file, page.bytes)
    /\ page.pinned => ShowsOnly(page.ref, page.file, page.bytes)

\* handleOverview: the last commit above the directory is not one that the
\* directory has already left behind, and the readme below it is the one
\* that directory lists.
OverviewInOrder ==
  Shown("overview") =>
    /\ page.bytes # None => page.bytes = Dir(page.at)[Readme]
    /\ page.aged = {} /\ page.last # None =>
         \E i, j \in page.sent..Len(past) :
           i <= j /\ Resolved(past[i], page.ref) = page.at
                  /\ Resolved(past[j], page.ref) = page.last

\* The last of the pages of a directory or a log, whose reference meanwhile
\* stood still; and the rows of them all are S.
Still(w) == \A i \in w.since..Len(past) : Resolved(past[i], w.ref) = Resolved(Now, w.ref)
LastPage(kind) ==
  Shown(kind) /\ page.next = None /\ page.aged = {} /\ ~page.walk.aged /\ Still(page.walk)
Complete(S) == \A x \in File \cup Commit : page.seen[x] = IF x \in S THEN 1 ELSE 0
CompleteFrom(screens) ==
  page.walk.screen \in screens =>
    LET c == Resolved(Now, page.walk.ref) IN
    /\ LastPage("listing") => Complete(DOMAIN Dir(c))
    /\ LastPage("log") /\ c # None => Complete(commits[c].line)

\* handleTree and handleLog: over the pages of a directory or a log whose
\* reference stands still "every entry appears exactly once"; and no entry
\* appears twice, wherever the branch moved between two pages.
ListedOnce ==
  /\ CompleteFrom({"tree", "log"})
  /\ Shown("listing") => \A f \in File : page.seen[f] <= 1

\* overview.gohtml: and so it is when the first of the pages is the overview.
ListedOnceFromOverview == CompleteFrom({"overview"})

\* handleCommit and handlePatch: the difference shown is that of the commit
\* shown from its own first parent, even when the address named a branch.
CommitIsOneState ==
  Shown("commit") =>
    page.diff = IF commits[page.at].parent = None THEN <<>>
                ELSE <<commits[page.at].parent, page.at>>

\* staleSentence: "the line a page carries when Origo served it without a
\* currency check".
SaysStale(kind, calls) == Shown(kind) /\ page.aged \cap calls # {} => page.says
ListingSaysStale ==
  /\ SaysStale("listing", {"tree"}) /\ SaysStale("log", {"log"})
  /\ SaysStale("overview", {"tree"})
PageSaysStale ==
  /\ SaysStale("overview", {"heads", "last"}) /\ SaysStale("refs", {"heads"})
  /\ SaysStale("file", {"entry"})

\* treeData.NoCommits: "nobody has pushed to it".
NobodyPushed == Shown("empty") => \E s \in During : s.known = 0

\* readFailedIn: the sections of a page that found nothing lead to the default
\* branch, "so every one of them leads to a screen that renders whatever was
\* missing".
SectionsRender == Shown("missing") => Resolved(Now, Default) # None \/ NoBranch(Now)

\* handleTree and findEntry: a file a directory lists is one the file screen
\* finds, as long as the directory stays what it is.
ListedIsFound ==
  Shown("listing") /\ Resolved(Now, page.ref) = page.at =>
    DOMAIN page.items \subseteq FirstOf(DOMAIN Dir(page.at))
=============================================================================
