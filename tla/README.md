# TLA+ models of origo-web

origo-web is the browser interface of an Origo git host: a Go server that
renders every page on the server, keeps nothing of its own, and asks four other
systems for everything. Origo answers for repositories, the registry (the
control plane) for names, rights and visibility, the key store for SSH keys,
and an OpenID Connect issuer for who is signed in. The deployment runs two
replicas of it (`deploy/base/deployment.yaml`).

That shape decides what is hard. Whatever the program knows about a person is in
its cookies that the browser sends and the responses rewrite, so two tabs are two
writers of one cell with no lock; a replica cannot see what another has just
done; every screen is a row of calls of which any may fail; and what the calls of
one screen read may change between them. These models are about those four things,
and about the one real algorithm in the program, the reader of unified diffs.

## Inventory

| part | state it keeps | operations | what is hard about it | what makes it correct |
|---|---|---|---|---|
| Session (`internal/session`, `begin` and the sign-out handlers in `internal/web/page_auth.go`) | an encrypted cookie: refresh token, expiry of the access token, end of the window; per replica, the library's memory of recent refreshes | `Load`, `Read`, `Clear`, callback, sign-out, front-channel logout | requests of several tabs carry one session across its refresh; answers applied in any order, or lost; the issuer rotates refresh tokens | twelve hours from sign-in whatever happens; no live session lost; a refused cookie goes; every request answered |
| Recent list (`internal/session`) | a second cookie: the repositories last opened | `Recent`, `Remember`, `Forget`, `writeRecent`, `Clear` | each response rewrites the whole cookie from the list its request was sent with; one response may write it several times | newest first, each once, bounded; gone with the session; a deleted repository gone |
| Visibility badge and form (`page_visibility.go`, `visibilityOf`) | per replica, a TTL memory of the registry's answers per person | the overview's read, the form's write and write-through | a read and a write race; another replica's memory; changes made elsewhere, of a visibility and of a role | one person's answer never serves another; a stated bound on staleness, of a badge and of a right; who changed it sees it |
| Screens (every handler of `internal/web`) | none beyond one request | a row of checks and calls per route | the fifth call fails after four succeeded; one of two tokens was not minted | a session ends only for a refused credential; one answer for "no" and "not there"; nothing deleted unasked |
| Diff (`internal/diff`, `page_commit.go`) | the file being read | `parseFiles`, `applyBudget`, `openEvery`, `expandLinks` | lines of a file that look like lines of the format; limits | every row, number, path and count is git's; the page stays in its budget |
| Clients (`internal/origo`, `internal/registry`, `internal/keys`) | none | one method per call | their error classes decide what a screen does | the classes their callers branch on |
| Reading across a push (`page_repo.go`, `page_file.go`, `page_commit.go`) | none | several reads per page; the pages of a directory and a log | the repository changes between two reads; an answer may not have been checked to be current; directories come in pages | what one screen puts together belongs together; a citation keeps its bytes; every entry listed once; a stale page says so |
| Forms (`CSRFToken`, `CSRFValid`, `page_keys.go`, `page_new.go`, `page_delete.go`) | a third cookie, with the token of every form; the keys and repositories are the services' | issue, check; add and remove a key, create, delete | two first requests issue two tokens; a write takes effect and its answer is lost; others change the same things between the page, the question and the write | a form left open still works; an answer tells what was done; a deletion deletes what was named; the table agrees with the sentence above it |
| Actor tokens (`begin`) | two tokens per request | mint | one is minted and the other not | only whether each was minted, in Screens |
| Server and shutdown (`cmd/origoweb`, `server.go`) | requests in flight | serve, drain | a replica stops with requests in flight | an answer that is cut is an answer lost, in Session, Recent and Forms |
| Configuration, views, templates | none that changes | - | - | not modelled: no state, no concurrency |

How they interact: a handler first reads the session (`begin`), once per request;
mints a token for Origo and one for the control plane; makes its calls in order;
and writes its answer, to which `Load`, `Remember`, `Forget` and `Clear` may have
added Set-Cookie lines. A refusal by a service of a credential that was presented
leads back to the session (`Clear`). A form is handled only when its token is the one
of the cookie sent with it. The overview alone reads the visibility memory; the
visibility form writes it. Only the issuer, the
registry, the key store and Origo outlive a request.

## Modules

    Session ---- SessionSignOut ---- MCSessionSignOut
       |  \----- MCSession
       \-------- SessionProofs

    RecentList <-- (refined by) -- Recent ---- MCRecent
                                     \-------- RecentProofs ----+
    Visibility ---- MCVisibility                                |
       \----------- VisibilityProofs                            +-- SetInduction
    Reading ------- MCReading                                   |
       \----------- ReadingProofs ------------------------------+
    Forms --------- MCForms
       \----------- FormsProofs
    Screens ------- MCScreens
       \----------- ScreensProofs
    Diff ---------- MCDiff
       \----------- DiffProofs

**Session.** One browser (`jar`), several tabs (`request`), several replicas
(`memo`), and the issuer (`logins`, `since`, `live`, `ended`). A request carries
the cookie the jar held when it was sent. `Load` is one action per outcome of
the library's reading of the session: `LoadNothing`, `LoadElapsed`, `LoadFresh`,
`LoadRemembered`, `LoadRefreshed`, `LoadRefused`, `LoadFault`; a refresh and its
bookkeeping in one replica are one step, because the library gives the requests
that wait for one refresh its one outcome, which `session_test.go` relies on.
`Serve` is the rest of the handler, which may clear. `Callback`, `SignOut`,
`Receive` and `Lose` are the callback, both kinds of sign-out, and an answer
applied or lost. A refresh token is the sign-in it belongs to and a number; the
issuer accepts the newest only. Cookie encryption, the authorization-code
exchange and its flow cookie are not in the model.

**SessionSignOut** adds one history variable to Session: the sign-ins whose owner
has seen a sign-out carried out.

**Recent** has the two cookies of a browser and the lines of each response in the
order the handler writes them. `WriteRecent` takes back the lines for the recent
cookie already written and adds one, as `writeRecent` does; `Clear` only adds.
Its requests are a repository screen (and the form that creates one, which
remembers it in the same way), the home screen, the deletion, the sign-outs and
the callback. `by`, `told` and `done` are history.

**RecentList** is the promise: a list with several writers and no lock, each of which
takes a copy, makes one change to it, and puts it in the place of the list. Opening,
deleting and ending are said by what changes and what stays. `Promise` in Recent is
that module with `list <- Ids(recent)`, a writer for each tab, and for its copy the
list the tab's request was sent with and later the one its answer writes (`InHand`).

**Visibility** splits each call to the registry in two: the moment the registry
decides (`RegistryReads`, `RegistryWrites`) and the moment the replica acts on the
answer (`OverviewShown`, `FlipDone`, `FlipFailed`). `cache` is the TTL memory; an
entry leaves it as the clock passes its lifetime (`Tick`) or earlier (`Evict`). What
the registry lets each person do is `role`, and other clients change that
(`ChangeRole`) as they change a visibility (`ChangeElsewhere`). `page` is what the
overview of the last step told. `held`, `had` and `chosen` are history: when the
registry last held each visibility, when it last took each right away, and what each
person chose. `Whose` says which people may send from which tab.

**Reading** is one reader and a repository that others push to. `past` has what the
references were after every change; `Push` and `Move` add to it, and never touch a
commit. A page is made call by call (`Resolve`, `Heads`, `Tree`, `Last`, `ReadReadme`,
`FindEntry`, `ReadBytes`, `Log`, `ReadCommit`, `Compare`), each answered from what the
repository is at that moment, or from an older state that Origo did not check and
says so (`Answer`). `Resolved` is what a name in an address stands for: a branch
first, then an object id, then an abbreviation. `After`, `FirstOf` and `NextOf` are a
directory's pages, `Before`, `NewestOf` and `OlderOf` a log's. `Ask` opens an address,
`Follow` the link to the next page; `seen`, `sent`, `aged` and `walk` are history.

**Forms** is one browser and the two services its forms write to. `Begin` is where a
request is given its token (`CSRFToken`), `Refuse` where a form with another one is
answered (`CSRFValid`). Each call of a handler is an action (`List`, `Parse`, `Add`,
`Remove`, `Spaces`, `Create`, `Resolve`, `Administers`, `Forget`); a write may take
effect and be answered with a failure. `Elsewhere` is everybody else. `GoBack` and
`Retry` are the person who does what the refusal says. `fresh`, `wrote`, `about` and
`again` are history. The home screen stands for every page without a form of its own
and is opened in a new tab; a pasted text that is no key is one more refusal.

**Screens** is one request. A `Plan` is the row of checks and calls of a route, in
the handler's order; each call is answered with a success or with one of the
classes the clients tell apart, and `Failed` is what the handler becomes of it:
status, page, notice, cleared session. Data is not in it, except where it decides
whether a call is made (an empty repository, a readme, a commit without parent).

**Diff** lets git write a patch line by line (`WriteFile`, with the lines of `ReadHeader`;
`WriteHunk`, `WriteRow`) while `Read` reads it: a line in front of a file's hunks sets a
field, one below the first of them is a row (`BodyLine`). `truth` is what git meant, `patch` what the reader
understood. A line is the prefix that decides its case, with what stands behind
it; a removed line whose text begins with two dashes *is* a `---` line. `Page` is
`applyBudget` over the files read. `ShowCommit` asks it for the whole patch or for one
path, perhaps with every file opened; `ShowCompare`, the comparison, shuts files by the
same limits and reads nothing that turns them off. The numbers of a hunk's header are
values that `WriteHunk` hands over: `hunkStarts`, which takes them out of the text, is
not modelled.

Comments marked "Mutant of" head variants of a definition with a plausible mistake
in it; each property of a passing run is refuted by TLC when one of them takes the
place of the definition.

## Runs

| run | instance | checked |
|---|---|---|
| session_one | 1 replica, 3 tabs, 1 sign-in, no lost answers | `TypeOK`, `LiveSessionKept` |
| session_many | 2 replicas, 2 tabs, 1 sign-in, answers lost, issuer failing, fair | `WindowHolds`, `ServedInsideWindow`, `DeadCookieGone`, `Answered` |
| session_replicas | 2 replicas, 2 tabs | `LiveSessionKept` **refuted** |
| session_signout | 1 replica, 2 tabs | `SignOutFinal` **refuted** |
| recent_tabs | 2 tabs, 3 repositories, list of 2 | `TypeOK`, `OpenedIsFirst`, `ClearedTogether`, `StaysForgotten`, `KeepsPromise` |
| visibility_apart | 1 replica, 2 tabs, 3 people of whom nobody has two tabs | `TypeOK`, `OwnAnswer`, `BadgeBounded`, `SeesOwnFlip` |
| reading_pages | 2 branches, 2 commits, 3 changes, 2 files, 1 entry to a page, answers 1 change behind | `TypeOK`, `FileIsOneState`, `CitationHolds`, `OverviewInOrder`, `ListedOnce`, `CommitIsOneState`, `ListingSaysStale` |
| reading_overview | the same, every answer current | `ListedOnceFromOverview` **refuted** |
| forms | 2 tabs, 1 key, 1 name, 2 ids, 2 tokens, fair | `TypeOK`, `FreshFormValid`, `TableTells`, `AnswerTrue`, `DeletesOnlyResolved`, `Retried` |
| screens_pages | every route, every answer | `TypeOK`, `ClearsOnlyRefused`, `NoticeOnlyRefused`, `KeysRefusalEnds`, `OneRefusal`, `DeletesOnlyOwned` |
| diff_patches | 2 files, 4 rows | `TypeOK`, `PlainFaithful`, `CountsAreRows`, `BudgetHolds`, `ExpandOpens` |
| diff_rows | 1 file, 3 rows | `RowsFaithful` **refuted** |

What they show, and why the bounds are enough:

- **session_one.** On one replica no session is lost because two requests spent the
  same refresh token, *if* a replica remembers a refresh for at least twice the time
  a request may take (`Hold = 2`, `Patience = 1`): the second request may have been
  sent just before the first one's answer was applied, and that answer may have been
  as late as a request can be. With `Hold = 1` TLC refutes it. The access token has to
  outlive `Ahead` and two such requests as well (`TokenLife = 4`): one that lapses sooner
  is due again while answers with the session before it are still on their way, and with
  `TokenLife = 3` TLC refutes the property too. Both conditions came out of its proof, and
  an issuer's tokens and the library's memory are far above them. `MaxTime = 7` lets a
  refresh, its forgetting and the next refresh happen. A third tab is what can still hold
  the oldest token while the other two go through a refresh each.
- **session_many.** The window of twelve hours stays where sign-in put it and no
  screen acts past it; a browser that applied the answer to a refused session no
  longer holds that session; and every request comes to an end. Two replicas are what
  a refresh could be repeated by. `Faults` adds lost answers and an issuer that
  rotates and fails to say so. A second sign-in is what a window could be confused
  with: `WindowHolds` and `ServedInsideWindow` are proved for any number of them.
  `FairSpec` has weak fairness for each tab on `Load`, `Callback` or `SignOut`, on
  `Serve`, and on `Receive`. net/http runs each accepted request in a goroutine of its
  own, and no handler waits for another but through the library's refresh. That the
  issuer and the services answer or fail is an assumption about them: the code sets no
  deadline on its calls, which end with the request's context. The browser applies an
  answer that reached it; giving it up (`Lose`) is possible and not assumed. Nothing is
  assumed fair about sending, the clock or revocation.
- **recent_tabs.** A list of two over three repositories is the smallest on which an
  entry falls off, one already there moves, and one is deleted from the middle of
  what is left. What two tabs may do to the list is what RecentList allows several
  writers: an update may be lost, never half made. It assumes an installation that
  refuses reads without a token, as Origo does now.
- **reading_pages.** Two branches are what a link that forgets its reference could
  lead from and to; three changes are a push, a push between two calls, and a branch
  set back or deleted; one entry to a page makes every directory of two files one of
  two pages. A word that abbreviates the first commit, and a branch whose name begins
  its object id but is too short for one, are what a pinned address could be confused
  with. What a file or commit screen puts together is of one commit however many
  pushes fall between its calls, because each later call names an object id an earlier
  one returned; the overview's two reads of a branch are not, and what remains is their
  order. `ListingSaysStale` is of the directory and the log, on their own screens and,
  for the directory, on the overview.
- **forms.** One tab does everything, another opens pages, other people add, remove,
  create and delete the same things. Two ids let a thing go and come back under the
  same name; two tokens are one for each first request. The fairness is that an
  accepted request is handled, that its answer reaches the browser or is given up, and
  that who was told to go back and try again does. The last is about the person and is
  what the sentence asks: `Retried` says that it is enough.
- **visibility_apart.** The clock starts at `TTL + Patience`, where the histories have
  nothing recent in them. With `TTL = 2`, `Patience = 1` and `MaxTime = 6` it goes on far
  enough for an answer to be stored a request late, reused at its last moment, and be
  gone. The registry holds "private" at first; "public" would be the same with the names
  exchanged. ann may change the repository, and has a tab to herself; ben, who may see
  it and has no subject to key the memory by, and cyd, who has no role, share the other.
  One change from outside, of the visibility or of anybody's role, falls anywhere. A
  person whose role is taken away may still be told the visibility, and offered the form,
  from an answer kept before: for the lifetime and one request, which is what
  `OwnAnswer` says of it, and `BadgeBounded` of the badge. Both count from the change,
  because a request may be answered by the registry just before it and stored after. The
  registry decides each write for itself. The person who changed the visibility sees it.
- **screens_pages.** Nothing is bounded: each of the routes, with and without a
  registry, with every combination of minted tokens and every class of answer.
- **diff_patches.** Two files show that what one holds does not disturb the other.
  `Collapse = 1`, `PerFile = 2`, `PerPatch = 2` over four rows put files below, at
  and past each limit, and a file past `Collapse` in a patch that is not past
  `PerPatch`; hunks start at line 4, so a number that is not reset or not
  moved shows. `PlainFaithful` says for which files the page shows what git
  wrote: those none of whose lines looks like a header, and, for the path, those
  whose name has no ` b/` in it or is named again after the first line. `ExpandOpens` is
  about the commit screen. The comparison shuts files by the same budget and offers
  nothing that opens them all (`handleCompare`, `templates/compare.gohtml`); each of its
  files still opens by itself.

### Where the code does not do what it says

- **session_replicas.** The memory of a refresh belongs to a process. Two requests
  with one expiring session that reach two replicas both present its refresh token;
  the second is refused, and `Load` clears a session that was alive. The deployment
  has two replicas, and says they need nothing from each other.
- **session_signout.** An answer that carries a refreshed session, applied after the
  answer to the sign-out form, signs the person back in.
- **reading_overview.** The overview's link to the next page of its directory carries
  the cursor and not the reference (`templates/overview.gohtml:118`; `handleTree` puts
  both in the same link). On a branch other than the default one it leads into another
  directory, and the rest of this one is never listed.
- **diff_rows.** A removed line that begins with `-- ` is written `--- ` by git, and is
  read as the header line of a file: it is missing from the page and the numbers
  after it are off by one.

The overview also says "The readme is too large to show here" of a readme whose read
failed (`templates/overview.gohtml`); no property is about that sentence.

Smaller disagreements have a configuration of their own beside the runs above. TLC
refutes the property each of them names:

| configuration | property | what TLC shows |
|---|---|---|
| `MCRecent_forgotten` | `Forgotten` | a page sent before a deletion's answer was applied puts the repository back on the list |
| `MCRecent_lines` | `OneRecentLine` | a page that remembered and was then refused has two lines for the recent cookie; the last one wins, so the list goes |
| `MCRecent_cleared` | `ClearedTogether` | where reads without a token are answered, a request whose session was refused clears the list and then writes it back |
| `MCRecent_session` | `OfThisSession` | the list outlives a session cookie that went by itself, and the next sign-in starts with it |
| `MCVisibility_race` | `SeesOwnFlip` | on one replica, an overview in a second tab stores what it was told before the change over the write-through |
| `MCVisibility_replicas` | `SeesOwnFlip` | with two replicas the write-through is in the memory of one; the redirect may be served by the other, whose answer is up to the lifetime old |
| `MCReading_stale` | `PageSaysStale` | the overview's references and last commit, the references screen and the file screen do not look at whether their reads were checked |
| `MCReading_sections` | `SectionsRender` | "not found" inside a repository whose default branch was never pushed leads to sections that are not found either |
| `MCReading_empty` | `NobodyPushed` | a repository whose only branch was deleted again "has no commits yet": the page asks whether there is a branch (`page_repo.go:250`), and says that nobody has pushed |
| `MCReading_found` | `ListedIsFound` | a file past the first page of its directory is listed and not found: `findEntry` reads one page |
| `MCReading_citation` | `CitationHolds` | with a branch named like an abbreviated object id, an address said to be pinned comes to mean the branch |
| `MCForms_expired` | `ExpiresAtSignOut` | a form expires though nobody signed out: two first requests each issued a token. `docs/using.md:209` says the form was open across a sign-out, which leaves the token cookie alone |
| `MCForms_table` | `InTheTable` | "It is in the table above" is said of a key removed before the table was read |
| `MCForms_failed` | `CouldNotTrue` | "The key could not be added" is also said when only the answer was lost |
| `MCForms_shown` | `DeletesWhatWasShown` | the name was given to another repository between the page and the form, and that one is deleted |
| `MCScreens_notice` | `NoticeWhenRefused` | the notice follows Origo's token, also when the refusal was of the other one |
| `MCScreens_nobody` | `NobodySignedIn` | a live session without Origo's token is shown the sign-in page and kept |
| `MCScreens_origo` | `OrigoRefusalEnds` | the readme and two probes of the token screen drop a refused credential |
| `MCScreens_registry` | `RegistryRefusalEnds` | so does the badge of the overview |
| `MCScreens_deleted` | `NothingDeleted` | a deletion whose answer was lost is shown as one that did not happen |
| `MCDiff_paths` | `PathsFaithful` | a file with no hunks and ` b/` in its name is shown under a wrong path |

## Proofs

TLAPS proves every property of the passing runs but the two about liveness, for every
value of the constants the assumptions allow. Each module of proofs EXTENDS the module
it is about, names one inductive invariant or a few, and has one lemma for each action.

| module | theorems | invariant |
|---|---|---|
| SessionProofs | `TypeCorrect`, `WindowCorrect`, `ServedCorrect`, `DeadCookieEnds`, `LiveSessionCorrect` | `Inv`, `Refusing`, `Kept` |
| VisibilityProofs | `TypeCorrect`, `OwnAnswerCorrect`, `BadgeBoundedCorrect`, `OwnFlipIsSeen` | `Inv`, `Timed`, `Chosen` |
| FormsProofs | `TypesHold`, `TypeCorrect`, `AnswersAreTrue`, `FreshFormsAreValid`, `DeletionsAreResolved`, `TablesTell` | `Types`, `Fresh`, `Resolved`, `Recorded`, `Room` |
| ReadingProofs | `TypesHold`, `FilesAreOneState`, `CommitsAreOneState`, `OverviewsAreInOrder`, `ListingsSayStale`, `CitationsHold`, `EntriesListedOnce` | `Repository`, `Made(page)`, `Walks(page)` |
| RecentProofs | `TypesHold`, `PromiseIsKept`, `OpenedComesFirst`, `ClearsTogether`, `DeletedStaysForgotten` | `RInv` |
| ScreensProofs | `TypesHold`, `ClearsOnlyTheRefused`, `NoticesOnlyTheRefused`, `KeysEnd`, `DeletesOnlyTheOwned`, `OneRefusalForBoth` | `SInv` |
| DiffProofs | `TypesHold`, `PlainFilesAreRead`, `CountsAreOfRows`, `BudgetIsKept`, `ExpandOpensAll`, `PlainPatchesAreRead`, `NamedPatchesAreNamed` | `DInv` |

Three theorems hold of some deployments only, and say of which: `LiveSessionCorrect`
(`Settled`), `OwnFlipIsSeen` (`Alone`), and `ClearsTogether` and `CitationsHold` with one
condition each. The runs that show the conditions to be needed are named below.

### Session

`SessionProofs` holds for every number of replicas, tabs and sign-ins and every length of
window, token, memory and patience, from `SessionAssumption` (there is a replica,
the lengths and bounds are naturals) and `NoneAssumption` (no cookie is not a
session):

- `TypeCorrect`: `Spec => []TypeOK`;
- `WindowCorrect`: `Spec => []WindowHolds`;
- `ServedCorrect`: `Spec => ServedInsideWindow`;
- `DeadCookieEnds`: `Spec => DeadCookieGone`;
- `LiveSessionCorrect`: `Spec => LiveSessionKept`, where the deployment is `Settled`.

The inductive invariant is `Inv == TypeOK /\ WindowHolds`. `WindowHolds` speaks of
every copy of a session there is, on requests, in answers and in the replicas'
memories, because the cookie in the jar is only ever one of those: to know that
what a browser will hold is good, all that may be written to it must be. For each
copy `Bounded` says more than the end of its window: that its sign-in has happened
(or a later sign-in could move `since` under it), and that its refresh token was
issued (or a refresh could run ahead of the issuer).

The proof turns on `Progress`: sign-ins are only added, the time of one never
moves, and the issuer's newest token only advances. `BoundedKept` shows that a step
with `Progress` keeps every copy good; `AdvanceBounded` that a handler which
answers with good copies keeps the invariant; `HandlerStep` and `PlainStep` join
the two, and there is then one lemma per action. `ServedStep` reads the action
property off the invariant: a request goes on to be served only with a copy that
has not elapsed, and that copy ends one window after its own sign-in.

`DeadCookieEnds` needs `Refusing`: between `Load` and the answer, a page whose session
was not accepted holds the deletion, and `Serve` may add another but takes none back.

`LiveSessionCorrect` is the one positive statement about refresh tokens, and what
`Settled` asks is what the argument uses: one replica (`session_replicas` shows two to
be too many), no answer lost and no fault, a memory of two `Patience`s, and a token that
lives longer than `Ahead` and two `Patience`s. `Kept` is about the copies that are
spent, those whose refresh token the issuer has rotated. A spent copy in the jar is
about to be overwritten by an answer on its way (`JarFollowed`), so a request sent with
it was sent before that answer arrived, and the copy's heir is at most a `Patience`
older than the request (`CarriedFollowed`); `Load` therefore finds the heir in memory,
and never asks the issuer about a token it rotated. Beyond that it needs that a copy is
spent only near its expiry (`Due`), that the same sign-in and number mean the same
expiry (`Twins`), and that no answer writes a session older than a `Patience` before its
request (`Recently`): an older answer applied late would put a spent copy back.

### Visibility

`VisibilityProofs` holds for every number of replicas, people, repositories, tabs and
changes and every lifetime and patience, whatever the registry holds at first, from
`VisibilityAssumption` (the nameless are readers; every repository has a visibility and
every reader a role on it; readers send from tabs; the lifetime is not zero; the bounds
are naturals):

- `TypeCorrect`: `Spec => []TypeOK`;
- `OwnAnswerCorrect`: `Spec => OwnAnswer`;
- `BadgeBoundedCorrect`: `Spec => BadgeBounded`;
- `OwnFlipIsSeen`: `Spec => SeesOwnFlip`, where readers are `Alone`.

The first rests on `Inv`: besides the types, a request on its way names a person, a
repository and a replica (`Good`).

The next two are one argument, because a badge and a right grow old alike. `Ground`
says of what somebody was told that the registry held that visibility (`Since`) and let
them see or change the repository (`May`) at a given moment, or later. A request's
answer has such a ground at the moment it was sent (`Prompt`), and an answer kept has one
for the reader in its key, at most a `Patience` before it was stored, and is not past
its lifetime (`Young`); `Timed` is both. A change at the registry makes no ground older,
because what it replaces was true until now; `Keeps` says that of every step, and
`MoveTimed` what a handler's step must show beyond it. `ToldGround` joins them: whatever
an overview tells has a ground less than `TTL + Patience` ago. It uses that the key of an
answer holds its reader: with `KeyByName` the ground would be somebody else's. The form's
write-through needs no more, because the registry answers "ok" to who may change the
repository at that moment. No assumption is made on how many changes happen elsewhere or
on which replica keeps what, which is why the bound is all that holds with several
replicas.

`OwnFlipIsSeen` assumes one replica and that nobody has two tabs; `MCVisibility_replicas`
and `MCVisibility_race` refute it without the one and without the other. Its invariant
`Chosen` says of what a reader chose and nobody has changed since that the registry
holds it (`Stands`), that the replica keeps nothing else for them (`Agrees`), and that no
answer on its way to them says otherwise (`Told`). The last is what the second tab breaks.

### Forms

`FormsProofs` holds for every number of tabs, keys and names, whatever each tab
opens, and without the bounds on tokens and ids, from `FormsAssumption` (there are
finitely many tabs, each opens known operations, keys and names are not ids):

- `TypesHold`: `Spec => []Types`;
- `TypeCorrect`: `Spec => []TypeOK`;
- `TablesTell`: `Spec => []TableTells`;
- `AnswersAreTrue`: `Spec => []AnswerTrue`;
- `FreshFormsAreValid`: `Spec => []FreshFormValid`;
- `DeletionsAreResolved`: `Spec => DeletesOnlyResolved`.

`Types` is more than the run's `TypeOK`: a request waits only for a call its operation
makes (`CallFits`), and a sentence stands on a page only once it was earned (`Told`), which
is what `AnswersAreTrue` needs; there is one lemma per handler, over what every handler
keeps (`Kept`, `Handled`). `Fresh` is the invariant of the second: once the token is
settled no answer on its way carries another (`SettledKept`), a page asked for then
carries that token, and so does a form sent from it. `Resolved` is that of the third:
an id is never used twice, so a request that resolved an id deletes that repository or
nothing, and under the name it was sent with.

`Recorded` is that of `TablesTell`: every token and id a page or a request knows was
issued or used, a request shows no table before the list is read, and what it will then
say is not on the account is not. Ids do not come back, so it still is not when the list
is read; and a key that is on the account then is in the table. `Room` counts the other
way: the tokens issued, and the tabs one may still be issued to, are together at most
`MaxToken`, so the bound never forbids a step of the code but `Lose`. With it the types
of the run, bounds included, follow.

### Reading

`ReadingProofs` holds for every number of branches, commits, files and changes of
a reference, every length of a page and however far behind an unchecked answer is, from
`ReadingAssumption` (there is a default branch; names are not commits; only names are
abbreviations; finitely many files, the readme among them; the bounds are naturals):

- `TypesHold`: `Spec => []TypeOK`;
- `FilesAreOneState`: `Spec => []FileIsOneState`;
- `CommitsAreOneState`: `Spec => []CommitIsOneState`;
- `OverviewsAreInOrder`: `Spec => []OverviewInOrder`;
- `ListingsSayStale`: `Spec => []ListingSaysStale`;
- `EntriesListedOnce`: `Spec => []ListedOnce`;
- `CitationsHold`: `Spec => []CitationHolds`, where no branch has a name in `Hex`. The
  run `MCReading_citation.cfg` has such a branch, and shows that the condition is needed.

Their invariant is `Repository /\ Made(page)`. `Repository` says that no state the
repository was in names a commit that was not pushed; without it a page could hold a
commit of which nothing is known. `Made` says of the page between two calls what the
screen relies on when it puts the answers together: of a file page that its row is of
the directory the commit it holds has (`Finds`), of an overview that the reference was
at that commit at one of the moments since it was asked for (`Orders`), of a commit page
that it holds an object id (`Compares`). An object id stands for its own commit or for
nothing (`ResolvedCommit`): that is why reads apart in time agree. `Grows` shows once
that a push leaves every page as true as it was, because commits and past states are
only ever added; there is then one lemma per handler.

`EntriesListedOnce` is about all the pages that were followed from one to the next, so its
invariant is about the walk: `Walks` says that nothing behind the cursor was listed and
nothing before it twice (`Once`), and, while the reference is where the walk found it and
every answer was checked, that what was listed is exactly what the reference holds up to
the cursor (`Whole`). `FirstPage` and `NewestPage` are what it rests on: a page of a
directory is the least of its files past the cursor and the next cursor the greatest of
them, a page of a log likewise from the other end. `Kinds` is what the link of the
overview breaks, and it speaks of the tree and log screens alone.

### Recent

`RecentProofs` holds for every number of tabs, repositories and sign-ins and every
`Limit`, from `RecentAssumption` (`Limit` is a natural above zero):

- `TypesHold`: `Spec => []TypeOK`;
- `PromiseIsKept`: `Spec => KeepsPromise`, the refinement of RecentList;
- `OpenedComesFirst`: `Spec => OpenedIsFirst`;
- `ClearsTogether`: `Spec => ClearedTogether`, where reads without a token are refused;
- `DeletedStaysForgotten`: `Spec => StaysForgotten`.

`RInv` says that the list in the browser, the one every request was sent with and the one
every answer would leave are `Good` (each repository once, `Limit` at most), and what
an answer of each kind writes: first what it opened, without what it deleted, and nothing
if the session goes (`Together`). The refinement needs no more: each handler makes one
change to the list in hand, whatever lines it wrote before, because the last line for the
cookie is the one that stays. `MCRecent_cleared` refutes `ClearedTogether` where reads
without a token are answered.

The work is in the lists: what is left of one without an entry is in the same order and
as long as it can be. The order of a selection is by the greatest and least positions of
finite sets, and those exist by an induction over the naturals. `SetInduction` states it
with a set where the library's theorem has an operator for a parameter, which the provers
cannot instantiate, and derives it from the order being well founded.

### Screens

`ScreensProofs` holds for every set of screens that may be asked for, and proves the six
properties of `screens_pages` from one invariant. `SInv` is about the plan still ahead of a
request, because that is what a failure cuts off: a deletion is behind the question who
administers the repository, a call that carries the control plane's token behind the
check that there is one, and the session is read once (`PlanOK`). Of what has happened it
says that the session is cleared only if a service refused a credential, `Load` refused
the session, or the screen is a sign-out, and that a refusal by the key store has already
led to the sign-in page. There is one lemma for the plan of each screen and one for each
way to fail. `OneRefusalForBoth` needs no invariant: it compares what `Failed` makes of
two answers.

### Diff

`DiffProofs` holds for patches of any number of files and rows and every budget, from
`DiffAssumption` (the limits are not zero, the lines of a file are of the four kinds):

- `TypesHold`: `Spec => []TypeOK`;
- `PlainFilesAreRead`: `Spec => []PlainFaithful`;
- `CountsAreOfRows`: `Spec => []CountsAreRows`;
- `BudgetIsKept`: `Spec => []BudgetHolds`;
- `ExpandOpensAll`: `Spec => []ExpandOpens`;
- `PlainPatchesAreRead` and `NamedPatchesAreNamed`: `RowsFaithful` and `PathsFaithful`, which
  TLC refutes of all patches, hold of those whose lines look like no header (and, for the
  paths, whose names with ` b/` in them come again after the first line).

`DInv` sets the reader beside git, file by file (`Match`): the counts are those of the
rows, rows are only in a file with a body, and where no line of the file looks like a
header the rows and the path are git's. For the next row to be git's too, the reader has
to count with git, which `Numbered` says of the body being written, if its rows are plain
so far. Of one that is not, `Match` still has the counts: a line is either read as its row
and counted (`ReadPlain`) or changes a path and neither (`ReadOther`). `ReadHeaderOn` is
what the lines in front of the hunks leave, `ReadEnd` that the row made of the empty line
behind the last newline is the one taken away again. For the budget, `BudgetedOf` is what
`applyBudget` does to one file, and the total over all files is the same after it, because
no count is changed.

### What is model-checked only

`Answered` and `Retried`: liveness under fairness is out of the prover's reach. What a
fold computes is an induction over data, so the total of a patch is an opaque number in
`DiffProofs` (of which only what is said above is used), and how many rows git may write
(`RowsWritten`) plays no part in it. The refuted properties are TLC's alone, with the
counterexamples it prints.

## Bounds

`MaxLogin`, `MaxTime` (Session, Visibility), `MaxChange` (Visibility), `MaxPush`,
`MaxMove` and `MaxLag` (Reading), `MaxToken` and `MaxId` (Forms), `MaxFiles` and
`MaxRows` (Diff) bound the models, each as a guard of the actions that would
pass it. `Window`, `TokenLife`, `Ahead`, `Hold`, `Patience`, `TTL`, `Limit`, `PageSize` and
the three limits of a budget are constants of the code or its surroundings, made small.
`Patience` is of the surroundings alone: the clock waits for a request that old,
which stands for whatever in front of the service gives up on slow requests.

## Not modelled

- The flow cookie of a sign-in, the authorization-code exchange, cookie encryption:
  the relying-party library's.
- The lifetime of actor tokens: the library reuses one "until shortly before it lapses",
  and how long before is not in this repository. The drain of a replica: what it cuts
  is an answer lost.
- Tags, nested directories, the comparison of two given revisions, ranges and cut
  bodies, in Reading. The token and visibility forms, in Forms: they carry the same
  token, and Screens and Visibility have what they do.
- Routing, headers, configuration, templates, the rendering of markdown and times:
  no state, no interleaving.
- Paths that git quotes and the digits of a hunk's header, in Diff.

## Plan

Done first, because a wrong step there costs a person their session: Session, then
the cookie beside it, the one shared memory, the failure paths, the one algorithm.
Then what one page reads while others push (Reading), and what a form writes while
others write the same (Forms). Next:

1. A composition of Session and Recent, where the list is the session's own.
2. The composition of Visibility and Forms: the right to change a repository is asked
   for in one request, kept, and shown in another.
3. In Reading, nested directories, whose pages and breadcrumbs are links too.

Proofs to come: those of the compositions, with their modules. For the parts above, more
than the runs ask: that each page a walk of Reading follows is further on than the last,
the safety half of its coming to an end; and, in Session, which copies two replicas can
still lose.
