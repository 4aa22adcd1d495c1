------------------------------- MODULE Forms -------------------------------
(***************************************************************************)
(* The forms that change something at a service that keeps it: the keys of *)
(* an account, a new repository, a deletion (internal/web/page_keys.go,    *)
(* page_new.go, page_delete.go), and the token each form carries           *)
(* (internal/session/session.go, CSRFToken and CSRFValid).                 *)
(*                                                                         *)
(* One browser, several tabs.  A request carries the token cookie the jar  *)
(* held when it was sent; answers are applied in any order.  Each call to  *)
(* a service is a step of its own, and between two calls other people, or  *)
(* the same person elsewhere, change what the service keeps.  A write may  *)
(* take effect and its answer be lost.                                     *)
(*                                                                         *)
(* Any request may be met by the sign-in page: when the session ends is    *)
(* the business of Session, and what a refused credential does of Screens. *)
(***************************************************************************)
EXTENDS Naturals, FiniteSets

CONSTANTS
  Key,       \* public keys, as pasted
  Name,      \* names a repository may have, owner and slug
  Tab,
  Opens,     \* what is opened and sent from each tab
  MaxToken,  \* bound: tokens issued, through answers that were lost (Lose)
  MaxId      \* bound: keys and repositories ever registered

None == 0

Fetch == {"home", "keys", "remove", "new", "delete"}
Post == {"paste", "add", "removal", "creation", "deletion", "sign-out"}

ASSUME FormsAssumption ==
  /\ IsFiniteSet(Tab) /\ Opens \in [Tab -> SUBSET (Fetch \cup Post)]
  /\ (Key \cup Name) \cap Nat = {}
  /\ MaxToken \in Nat /\ Cardinality(Tab) <= MaxToken /\ MaxId \in Nat

VARIABLES
  jar,     \* the browser's token cookie
  issued,  \* how many tokens were issued
  keys,    \* the keys on the account, each under its id
  repos,   \* which repository bears each name
  lastId,  \* ids are not used twice
  page,    \* what each tab shows
  req      \* the request each tab has on its way

service == <<keys, repos, lastId>>
vars == <<jar, issued, keys, repos, lastId, page, req>>

\* What a tab shows: the screen and what it is about, the token its forms
\* carry, the table of keys, the sentence of a refusal; and, as history, the
\* id that sentence is about and whether the token was settled.
Blank == [screen |-> "none", arg |-> None, token |-> None, table |-> {}, says |-> "",
          about |-> None, fresh |-> FALSE, again |-> "none"]

\* A request: what is asked, with which form token and cookies, the call it
\* waits for, and the page being made.  wrote is history.
NoRequest == [op |-> "none", arg |-> None, token |-> None, typed |-> TRUE, fresh |-> FALSE,
              cookie |-> None, given |-> None,
              call |-> "none", id |-> None, wrote |-> FALSE, page |-> Blank]

Mine == {x.id : x \in keys}
Held(k) == {x \in keys : x.key = k}
Idle(t) == req[t].call = "none"

----------------------------------------------------------------------------
(***************************************************************************)
(* The person.                                                             *)
(***************************************************************************)

\* History: the browser has its token, and no answer on its way brings
\* another one.
Settled == jar # None /\ \A t \in Tab : ~Idle(t) => req[t].cookie # None

\* The page a request is to make.
Asked == [Blank EXCEPT !.fresh = Settled]

\* A request sent from t, by a link or an address, or by the form shown.
Sent(t, op, arg) ==
  [NoRequest EXCEPT
     !.op = op, !.arg = arg, !.call = "begin", !.cookie = jar,
     !.token = IF op \in Post THEN page[t].token ELSE None, !.fresh = page[t].fresh,
     !.page = Asked]

Sends(t, r) ==
  /\ Idle(t) /\ r.op \in Opens[t]
  /\ req' = [req EXCEPT ![t] = r]
  /\ UNCHANGED <<jar, issued, service>>

\* Anything is opened that has an address or that the page links to.  The home
\* screen, which has no form of its own, stands for all such, in a new tab.
Open(t) ==
  /\ \/ \E op \in {"keys", "new"} : Sends(t, Sent(t, op, None))
     \/ page[t].screen = "none" /\ Sends(t, Sent(t, "home", None))
     \/ \E id \in page[t].table : Sends(t, Sent(t, "remove", id))
     \/ \E n \in Name : Sends(t, Sent(t, "delete", n))
  /\ page' = [page EXCEPT ![t].again = "none"]

\* keys.gohtml, new.gohtml, delete.gohtml, base.gohtml: the forms a page
\* has, and what each is sent with.
Forms(p) ==
  CASE p.screen \in {"keys", "removing"} ->
         {<<"paste", k>> : k \in Key}
           \cup (IF p.screen = "removing" THEN {<<"removal", p.arg>>} ELSE {})
    [] p.screen = "confirm" -> {<<"add", p.arg>>}
    [] p.screen = "new"     -> {<<"creation", n>> : n \in Name}
    [] p.screen = "delete"  -> {<<"deletion", p.arg>>}
    [] OTHER                -> {}
Framed(p) == p.screen \notin {"none", "expired", "sign-in"}

Submit(t) ==
  /\ \/ \E f \in Forms(page[t]) :
          \/ Sends(t, Sent(t, f[1], f[2]))
          \/ f[1] = "deletion" /\ Sends(t, [Sent(t, f[1], f[2]) EXCEPT !.typed = FALSE])
     \/ Framed(page[t]) /\ Sends(t, Sent(t, "sign-out", None))
  /\ page' = [page EXCEPT ![t].again = "none"]

\* Where a form is found, and which one is tried first there.
Found(op) ==
  CASE op \in {"paste", "add"} -> "keys" [] op = "removal" -> "remove" [] op = "creation" -> "new"
    [] op = "deletion" -> "delete" [] OTHER -> "home"
First(op) == IF op = "add" THEN "paste" ELSE op

\* Mutant of Returned: the page is shown again as it was.
ReturnedKept(t, r) ==
  [r EXCEPT !.call = "answer", !.page =
     [@ EXCEPT !.token = page[t].token, !.arg = r.arg,
        !.screen = CASE r.op = "keys" -> "keys" [] r.op = "remove" -> "removing"
                     [] r.op = "new" -> "new" [] r.op = "delete" -> "delete" [] OTHER -> "message"]]

\* ServeHTTP, no-store: a page gone back to is asked for again.
Returned(t, r) == r

\* "Go back and try again."  Back past the answers to forms, to the page
\* that has an address.
GoBack(t) ==
  /\ page[t].screen = "expired" /\ page[t].again # "none"
  /\ LET again == page[t].again
         arg == IF again \in {"removal", "deletion"} THEN page[t].arg ELSE None
         r == [Sent(t, Found(again), arg) EXCEPT !.page.again = again] IN
     Sends(t, Returned(t, r))
  /\ UNCHANGED page

Retry(t) ==
  /\ page[t].screen # "expired" /\ page[t].again # "none"
  /\ IF page[t].again = "sign-out" THEN Sends(t, Sent(t, "sign-out", None))
     ELSE \E f \in Forms(page[t]) : f[1] = page[t].again /\ Sends(t, Sent(t, f[1], f[2]))
  /\ UNCHANGED page

----------------------------------------------------------------------------
(***************************************************************************)
(* The handlers, call by call.                                             *)
(***************************************************************************)

At(t, call) == req[t].call = call
Becomes(t, r) == req' = [req EXCEPT ![t] = r]
Calls(r, call) == [r EXCEPT !.call = call]
Shows(r, screen) == [r EXCEPT !.call = "answer", !.page.screen = screen]
SignsIn(r) == [r EXCEPT !.call = "answer", !.page = [Blank EXCEPT !.screen = "sign-in"]]
Redirects(r) == [r EXCEPT !.call = "redirect"]

\* A sentence of refusal, about an id where it is about one.
Says(r, says, about) == [r EXCEPT !.page.says = says, !.page.about = about]

\* Mutant of CSRFToken: a fresh one on every render.
CSRFTokenFresh(r) == issued + 1

\* CSRFToken: the browser's own, a fresh one for a browser that has none.
CSRFToken(r) == IF r.cookie # None THEN r.cookie ELSE issued + 1

\* CSRFValid: the form's token is the one of the cookie sent with it.
CSRFValid(r) == r.cookie # None /\ r.token = r.cookie

\* What each handler asks first.
FirstCall(op) ==
  CASE op \in {"keys", "remove"}     -> "list"   [] op = "paste"    -> "parse"
    [] op = "add"                    -> "add"    [] op = "removal"  -> "remove"
    [] op = "new"                    -> "spaces" [] op = "creation" -> "create"
    [] op \in {"delete", "deletion"} -> "resolve"

\* A form whose token is not the browser's: http.Error, before anything is read.
Refuse(t) ==
  LET r == req[t] IN
  /\ At(t, "begin") /\ r.op \in Post /\ ~CSRFValid(r)
  /\ Becomes(t, [r EXCEPT !.call = "answer",
                          !.page = [Blank EXCEPT !.screen = "expired", !.arg = r.arg,
                                                 !.again = First(r.op)]])
  /\ UNCHANGED <<jar, issued, service, page>>

\* handleSignOut: neither reads the session nor issues a token.
SignOut(t) ==
  LET r == req[t] IN
  /\ At(t, "begin") /\ r.op = "sign-out" /\ CSRFValid(r)
  /\ Becomes(t, SignsIn(r))
  /\ UNCHANGED <<jar, issued, service, page>>

\* begin and requirePlatform.
Begin(t) ==
  LET token == CSRFToken(req[t])
      r == [req[t] EXCEPT !.page.token = token,
                          !.given = IF token = req[t].cookie THEN None ELSE token] IN
  /\ At(t, "begin") /\ r.op # "sign-out" /\ (r.op \in Post => CSRFValid(r))
  /\ issued' = IF r.given = None THEN issued ELSE token
  /\ \/ Becomes(t, SignsIn(r))
     \/ Becomes(t, IF r.op = "home" THEN Shows(r, "message") ELSE Calls(r, FirstCall(r.op)))
  /\ UNCHANGED <<jar, service, page>>

\* pickRemoving: the key a removal asks about, in the list just read.
Picked(r) ==
  IF r.op # "remove" THEN r
  ELSE IF r.arg \in r.page.table THEN [Shows(r, "removing") EXCEPT !.page.arg = r.arg]
  ELSE Says(r, "absent", r.arg)

\* renderKeys: the list, and the screen it is drawn on.  A store that cannot
\* list leaves neither a table nor a form.
List(t) ==
  LET r == req[t]
      read == Picked([Shows(r, IF r.page.screen = "confirm" THEN "confirm" ELSE "keys")
                        EXCEPT !.page.table = Mine]) IN
  /\ At(t, "list")
  /\ Becomes(t, read) \/ Becomes(t, Shows(r, "outage"))
  /\ UNCHANGED <<jar, issued, service, page>>

\* Mutant of Listed: the screen is drawn with the table the form was sent from.
ListedBefore(t, r) ==
  [Shows(r, IF r.page.screen = "confirm" THEN "confirm" ELSE "keys")
     EXCEPT !.page.table = page[t].table]

\* renderKeys: "The list is read on every render, including after a refusal".
Listed(t, r) == Calls(r, "list")

\* refuseKey: a refusal by its code.  That the paste is no key, or one that is
\* on another account, are refusals that say nothing of this one.
RefuseKey(t, r) ==
  \/ \E x \in Held(r.arg) : Becomes(t, Listed(t, Says(r, "yours", x.id)))
  \/ Becomes(t, Listed(t, Says(r, "refused", None)))
  \/ Becomes(t, Listed(t, Says(r, "failed", None)))

\* handleKeysPost, the paste: the store says what it would hold.
Parse(t) ==
  LET r == req[t] IN
  /\ At(t, "parse")
  /\ \/ Becomes(t, Listed(t, [r EXCEPT !.page.screen = "confirm", !.page.arg = r.arg]))
     \/ RefuseKey(t, r)
  /\ UNCHANGED <<jar, issued, service, page>>

\* handleKeysPost, the confirmation; the answer to a key stored may be lost.
Add(t) ==
  LET r == req[t]
      stored == [r EXCEPT !.wrote = TRUE] IN
  /\ At(t, "add")
  /\ \/ /\ Held(r.arg) = {} /\ lastId < MaxId
        /\ lastId' = lastId + 1
        /\ keys' = keys \cup {[key |-> r.arg, id |-> lastId']}
        /\ \/ Becomes(t, Redirects(stored))
           \/ Becomes(t, Listed(t, Says(stored, "failed", None)))
        /\ UNCHANGED repos
     \/ RefuseKey(t, r) /\ UNCHANGED service
  /\ UNCHANGED <<jar, issued, page>>

\* handleKeyRemovePost.
Remove(t) ==
  LET r == req[t]
      gone == [r EXCEPT !.wrote = TRUE] IN
  /\ At(t, "remove")
  /\ \/ /\ r.arg \in Mine
        /\ keys' = {x \in keys : x.id # r.arg}
        /\ Becomes(t, Redirects(gone)) \/ Becomes(t, Listed(t, Says(gone, "failed", None)))
        /\ UNCHANGED <<repos, lastId>>
     \/ /\ r.arg \notin Mine
        /\ Becomes(t, Listed(t, Says(r, "absent", r.arg)))
        /\ UNCHANGED service
     \/ Becomes(t, Listed(t, Says(r, "failed", None))) /\ UNCHANGED service
  /\ UNCHANGED <<jar, issued, page>>

\* renderNew.
Spaces(t) ==
  /\ At(t, "spaces")
  /\ Becomes(t, Shows(req[t], "new")) \/ Becomes(t, Shows(req[t], "message"))
  /\ UNCHANGED <<jar, issued, service, page>>

\* Mutant of Unanswered: asked again, under a fresh id.
UnansweredAgain(r) == Calls(r, "create")

\* createRefused: no answer, which is a screen of its own.
Unanswered(r) == Shows(r, "message")

\* handleNewPost: one call, under an id made for it.
Create(t) ==
  LET r == req[t]
      made == [r EXCEPT !.wrote = TRUE] IN
  /\ At(t, "create")
  /\ \/ /\ repos[r.arg] = None /\ lastId < MaxId
        /\ lastId' = lastId + 1
        /\ repos' = [repos EXCEPT ![r.arg] = lastId']
        /\ Becomes(t, Redirects(made)) \/ Becomes(t, Unanswered(made))
        /\ UNCHANGED keys
     \/ /\ repos[r.arg] # None
        /\ Becomes(t, Calls(Says(r, "taken", None), "spaces"))
        /\ UNCHANGED service
     \/ /\ Becomes(t, Calls(Says(r, "refused", None), "spaces")) \/ Becomes(t, Unanswered(r))
        /\ UNCHANGED service
  /\ UNCHANGED <<jar, issued, page>>

\* openRepo: the repository that bears the name in the address.
Resolve(t) ==
  LET r == req[t] IN
  /\ At(t, "resolve")
  /\ \/ repos[r.arg] # None /\ Becomes(t, Calls([r EXCEPT !.id = repos[r.arg]], "administers"))
     \/ Becomes(t, Shows(r, "message"))
  /\ UNCHANGED <<jar, issued, service, page>>

\* renderDelete.
ShowsDelete(r) == [Shows(r, "delete") EXCEPT !.page.arg = r.arg, !.page.about = r.id]

\* administers, and the name that was typed back.  Who administers what may
\* change, or not be answered.
Administers(t) ==
  LET r == req[t] IN
  /\ At(t, "administers")
  /\ \/ /\ \E n \in Name : repos[n] = r.id
        /\ Becomes(t, IF r.op = "delete" THEN ShowsDelete(r)
                      ELSE IF ~r.typed THEN ShowsDelete([r EXCEPT !.page.says = "refused"])
                      ELSE Calls(r, "forget"))
     \/ Becomes(t, Shows(r, "message"))
  /\ UNCHANGED <<jar, issued, service, page>>

\* Mutant of Forgets: what bears the name by now.
ForgetsName(r) == {r.arg} \cap {n \in Name : repos[n] # None}

\* Forget: the repository is named by its id.
Forgets(r) == {n \in Name : repos[n] = r.id}

\* handleDeletePost, deleteRefused.
Forget(t) ==
  LET r == req[t]
      gone == [r EXCEPT !.wrote = TRUE] IN
  /\ At(t, "forget")
  /\ \/ \E n \in Forgets(r) :
          /\ repos' = [repos EXCEPT ![n] = None]
          /\ Becomes(t, Redirects(gone)) \/ Becomes(t, Shows(gone, "message"))
          /\ UNCHANGED <<keys, lastId>>
     \/ /\ \/ Becomes(t, ShowsDelete([r EXCEPT !.page.says = "refused"]))
           \/ Becomes(t, Shows(r, "message"))
        /\ UNCHANGED service
  /\ UNCHANGED <<jar, issued, page>>

----------------------------------------------------------------------------
(***************************************************************************)
(* The browser applies an answer; and everybody else.                      *)
(***************************************************************************)

\* The forms a page has are what is tried again on it.
Offers(p, op) == IF op = "sign-out" THEN Framed(p) ELSE \E f \in Forms(p) : f[1] = op
Trying(p) == [p EXCEPT !.again = IF p.screen = "expired" \/ Offers(p, p.again) THEN p.again ELSE "none"]

Receive(t) ==
  LET r == req[t] IN
  /\ jar' = IF r.given # None THEN r.given ELSE jar
  /\ \/ /\ At(t, "answer")
        /\ page' = [page EXCEPT ![t] = Trying(r.page)]
        /\ Becomes(t, NoRequest)
     \/ /\ At(t, "redirect")
        /\ page' = [page EXCEPT ![t] = Blank]
        /\ Becomes(t, Sent(t, IF r.op \in {"add", "removal"} THEN "keys" ELSE "home", None))
  /\ UNCHANGED <<issued, service>>

\* The answer does not arrive, or the person goes elsewhere before it does.
Lose(t) ==
  /\ req[t].call \in {"answer", "redirect"}
  /\ jar # None \/ issued + Cardinality(Tab) <= MaxToken
  /\ Becomes(t, NoRequest)
  /\ page' = [page EXCEPT ![t].again = "none"]
  /\ UNCHANGED <<jar, issued, service>>

\* Keys and repositories change by other hands.
Elsewhere ==
  /\ \/ /\ lastId < MaxId /\ lastId' = lastId + 1
        /\ \/ \E k \in Key :
                /\ Held(k) = {}
                /\ keys' = keys \cup {[key |-> k, id |-> lastId']}
                /\ UNCHANGED repos
           \/ \E n \in Name :
                repos[n] = None /\ repos' = [repos EXCEPT ![n] = lastId'] /\ UNCHANGED keys
     \/ \E x \in keys : keys' = keys \ {x} /\ UNCHANGED <<repos, lastId>>
     \/ \E n \in Name :
          repos[n] # None /\ repos' = [repos EXCEPT ![n] = None] /\ UNCHANGED <<keys, lastId>>
  /\ UNCHANGED <<jar, issued, page, req>>

Init ==
  /\ jar = None /\ issued = 0 /\ keys = {} /\ repos = [n \in Name |-> None] /\ lastId = 0
  /\ page = [t \in Tab |-> Blank] /\ req = [t \in Tab |-> NoRequest]

Handle(t) ==
  \/ Refuse(t) \/ SignOut(t) \/ Begin(t) \/ List(t) \/ Parse(t) \/ Add(t) \/ Remove(t)
  \/ Spaces(t) \/ Create(t) \/ Resolve(t) \/ Administers(t) \/ Forget(t)

Next ==
  \/ \E t \in Tab :
       Open(t) \/ Submit(t) \/ GoBack(t) \/ Retry(t) \/ Handle(t) \/ Receive(t) \/ Lose(t)
  \/ Elsewhere

\* A request accepted is handled, its answer reaches the browser or is given
\* up, and who was told to try again does.
GoesOn(t) == Handle(t) \/ Receive(t) \/ GoBack(t) \/ Retry(t)

Spec == Init /\ [][Next]_vars /\ \A t \in Tab : WF_vars(GoesOn(t))

----------------------------------------------------------------------------
Id == 0..MaxId

TypeOK ==
  /\ jar \in 0..issued /\ issued \in 0..MaxToken
  /\ keys \subseteq [key : Key, id : Id]
  /\ repos \in [Name -> Id] /\ lastId \in Id
  /\ \A t \in Tab :
       /\ page[t].token \in 0..MaxToken /\ page[t].table \subseteq Id /\ page[t].about \in Id
       /\ req[t].cookie \in 0..issued /\ req[t].given \in 0..issued /\ req[t].id \in Id
       /\ req[t].page.token \in 0..issued

\* CSRFToken: "two tabs of the same interface would break each other".  A form
\* of a page that was asked for when the browser had its token, and no answer
\* on its way was bringing another, is never refused as expired, whatever
\* other tabs do and however long it was left open.
FreshFormValid ==
  \A t \in Tab : req[t].call = "answer" /\ req[t].page.screen = "expired" => ~req[t].fresh

\* docs/using.md: "This form has expired" means that "the form was open across
\* a sign-out", so where nobody signs out no form expires.
ExpiresAtSignOut ==
  (\A t \in Tab : "sign-out" \notin Opens[t]) => \A t \in Tab : page[t].screen # "expired"

\* http.Error: "This form has expired. Go back and try again."  Who does that
\* gets past it, or to a page that has no such form.
Retried == \A t \in Tab : page[t].again # "none" ~> page[t].again = "none"

\* renderKeys, pickRemoving: "the table beside a refused form is never a
\* stale one".  A key said to be in the table is in it, unless it was removed
\* meanwhile; one said not to be on the account is not; one the page asks
\* about is.
TableTells ==
  \A t \in Tab :
    LET p == page[t] IN
    /\ p.screen = "keys" /\ p.says = "yours" => p.about \in p.table \/ p.about \notin Mine
    /\ p.screen = "keys" /\ p.says = "absent" => p.about \notin p.table
    /\ p.screen = "removing" => p.arg \in p.table

\* refuseKey: "This key is already on your account. It is in the table above."
InTheTable == \A t \in Tab : page[t].says = "yours" => page[t].about \in page[t].table

\* handleNewPost, handleKeysPost, handleKeyRemovePost, deleteRefused: "an
\* answer means both exist and a refusal means neither does".  A form answered
\* with a redirect did what it was for, and one answered with the sentence of
\* a refusal did nothing.
AnswerTrue ==
  \A t \in Tab :
    /\ At(t, "redirect") => req[t].wrote
    /\ At(t, "answer") /\ req[t].page.says \in {"yours", "taken", "absent", "refused"}
         => ~req[t].wrote

\* refuseKey and handleKeyRemovePost: "The key could not be added."
CouldNotTrue ==
  \A t \in Tab :
    At(t, "answer") /\ req[t].page.says = "failed" => ~req[t].wrote

\* handleDeletePost: what a form deletes is the repository that bore the typed
\* name when this same request asked who administers it, not one that has got
\* the name since.
DeletesOnlyResolved ==
  [][\A t \in Tab : req'[t] # req[t] /\ At(t, "forget") =>
       \A n \in Name : repos'[n] # repos[n] =>
         repos'[n] = None /\ repos[n] = req[t].id /\ req[t].arg = n /\ req[t].typed]_vars

\* handleDelete: and it is the one the page it was sent from was drawn for.
DeletesWhatWasShown ==
  [][\A t \in Tab : req'[t] # req[t] /\ At(t, "forget") =>
       \A n \in Name : repos'[n] # repos[n] => repos[n] = page[t].about]_vars
=============================================================================
