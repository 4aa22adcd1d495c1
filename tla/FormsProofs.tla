---------------------------- MODULE FormsProofs ----------------------------
(***************************************************************************)
(* Forms, for every number of tabs, keys, names and ids: a form of a page  *)
(* that was asked for when the browser had its token is never refused as   *)
(* expired, and a deletion takes the repository it resolved and no other.  *)
(***************************************************************************)
EXTENDS Forms, FiniteSetTheorems, TLAPS

Arg == Key \cup Name \cup Nat
Op == Fetch \cup Post \cup {"none"}
Call == {"none", "begin", "list", "parse", "add", "remove", "spaces", "create", "resolve",
         "administers", "forget", "answer", "redirect"}
Screen == {"none", "sign-in", "expired", "message", "outage", "keys", "removing", "confirm",
           "new", "delete"}
Sentence == {"", "yours", "taken", "absent", "refused", "failed"}
Again == Post \cup {"none"}

PageSet == [screen : Screen, arg : Arg, token : Nat, table : SUBSET Nat, says : Sentence,
            about : Arg, fresh : BOOLEAN, again : Again]
RequestSet == [op : Op, arg : Arg, token : Nat, typed : BOOLEAN, fresh : BOOLEAN,
               cookie : Nat, given : Nat, call : Call, id : Nat, wrote : BOOLEAN,
               page : PageSet]

\* The requests that name a repository, and those that write.
Naming == {"creation", "delete", "deletion"}
Writing == {"add", "removal", "creation", "deletion"}

\* The delete screen, and an expired form of it, are about a name.
PageNames(p) ==
  p.screen = "delete" \/ (p.screen = "expired" /\ p.again = "deletion") => p.arg \in Name

\* Which request waits for which call.
CallFits(r) ==
  /\ r.op \in Naming => r.arg \in Name
  /\ r.call = "begin" => r.op # "none"
  /\ r.call = "add" => r.op = "add"
  /\ r.call = "remove" => r.op = "removal"
  /\ r.call = "create" => r.op = "creation"
  /\ r.call \in {"resolve", "administers"} => r.op \in {"delete", "deletion"}
  /\ r.call = "forget" => r.op = "deletion" /\ r.typed = TRUE

\* What is told of a write: nothing before it is asked for; and one that took
\* effect is told as done, as failed, or by no sentence.
Told(r) ==
  /\ r.call \notin {"list", "spaces", "answer", "redirect"} => r.page.says = "" /\ r.wrote = FALSE
  /\ r.call = "redirect" => r.wrote = TRUE
  /\ r.wrote = TRUE => r.op \in Writing /\ r.page.says \in {"", "failed"} /\ r.call # "spaces"

\* A token comes with the answer to a browser that sent none.
Given(r) == r.given # None => r.cookie = None

RequestOK(r) == PageNames(r.page) /\ CallFits(r) /\ Told(r) /\ Given(r)

Types ==
  /\ jar \in Nat /\ issued \in Nat /\ lastId \in Nat
  /\ keys \subseteq [key : Arg, id : Nat]
  /\ repos \in [Name -> Nat]
  /\ page \in [Tab -> PageSet] /\ req \in [Tab -> RequestSet]
  /\ \A t \in Tab : PageNames(page[t]) /\ RequestOK(req[t])

----------------------------------------------------------------------------
\* A blank page and a tab at rest.
LEMMA BlankType ==
  /\ Blank \in PageSet /\ NoRequest \in RequestSet
  /\ PageNames(Blank) /\ RequestOK(NoRequest)
<1>1. Blank \in PageSet
  BY DEF Blank, PageSet, Arg, None, Screen, Sentence, Again
<1>2. NoRequest \in RequestSet
  BY <1>1 DEF NoRequest, RequestSet, Arg, None, Op, Call
<1>3. Blank.screen = "none" /\ Blank.says = "" /\ NoRequest.page = Blank
      /\ NoRequest.op = "none" /\ NoRequest.call = "none" /\ NoRequest.wrote = FALSE
      /\ NoRequest.given = None
  BY DEF Blank, NoRequest
<1>4. QED
  BY <1>1, <1>2, <1>3 DEF RequestOK, PageNames, CallFits, Told, Given, Naming

\* The forms of a page are sent by a post, and name what their page names.
LEMMA FormsType ==
  ASSUME NEW p \in PageSet, PageNames(p), NEW f \in Forms(p)
  PROVE  /\ f[1] \in Post /\ f[2] \in Arg
         /\ f[1] \in Naming => f[2] \in Name
<1>1. p.arg \in Arg /\ Key \subseteq Arg /\ Name \subseteq Arg
  BY DEF PageSet, Arg
<1>2. CASE p.screen \in {"keys", "removing"}
  <2>1. (\E k \in Key : f = <<"paste", k>>) \/ f = <<"removal", p.arg>>
    BY <1>2 DEF Forms
  <2>2. QED
    BY <1>1, <2>1 DEF Post, Naming
<1>3. CASE p.screen = "confirm"
  <2>1. f = <<"add", p.arg>>
    BY <1>3 DEF Forms
  <2>2. QED
    BY <1>1, <2>1 DEF Post, Naming
<1>4. CASE p.screen = "new"
  <2>1. \E n \in Name : f = <<"creation", n>>
    BY <1>4 DEF Forms
  <2>2. QED
    BY <1>1, <2>1 DEF Post, Naming
<1>5. CASE p.screen = "delete"
  <2>1. f = <<"deletion", p.arg>>
    BY <1>5 DEF Forms
  <2>2. QED
    BY <1>1, <1>5, <2>1 DEF Post, Naming, PageNames
<1>6. QED
  BY <1>2, <1>3, <1>4, <1>5 DEF Forms

\* What a page in the making is given first.
LEMMA MarkedType ==
  ASSUME NEW b \in BOOLEAN
  PROVE  LET p == [Blank EXCEPT !.fresh = b] IN
         p \in PageSet /\ p.fresh = b /\ p.screen = "none" /\ p.says = "" /\ PageNames(p)
BY BlankType DEF Blank, PageSet, PageNames

\* What Sent makes.
LEMMA SentType ==
  ASSUME Types, NEW t \in Tab, NEW op \in Op \ {"none"}, NEW arg \in Arg,
         op \in Naming => arg \in Name
  PROVE  LET r == Sent(t, op, arg) IN
         /\ r \in RequestSet /\ RequestOK(r)
         /\ r.op = op /\ r.call = "begin" /\ r.cookie = jar /\ r.given = None
         /\ r.page.fresh = Settled /\ r.page.screen = "none"
         /\ r.fresh = page[t].fresh /\ (op \in Post => r.token = page[t].token)
<1> DEFINE token == IF op \in Post THEN page[t].token ELSE None
           r == Sent(t, op, arg)
<1>1. token \in Nat
  BY DEF Types, PageSet, None
<1>2. Settled \in BOOLEAN
  BY DEF Settled
<1>3. Asked \in PageSet /\ Asked.fresh = Settled /\ Asked.screen = "none" /\ Asked.says = ""
  BY <1>2, MarkedType DEF Asked
<1>4. r = [NoRequest EXCEPT
             !.op = op, !.arg = arg, !.call = "begin", !.cookie = jar,
             !.token = token, !.fresh = page[t].fresh, !.page = Asked]
  BY DEF Sent
<1> HIDE DEF r, token
<1>5. /\ r \in RequestSet /\ RequestOK(r)
      /\ r.op = op /\ r.call = "begin" /\ r.cookie = jar /\ r.given = None
      /\ r.page = Asked /\ r.fresh = page[t].fresh /\ r.token = token
  <2>1. page[t] \in PageSet /\ jar \in Nat /\ page[t].fresh \in BOOLEAN
    BY DEF Types, PageSet
  <2>2. NoRequest \in RequestSet /\ NoRequest.given = None /\ NoRequest.wrote = FALSE
    BY BlankType DEF NoRequest
  <2>3. /\ r \in RequestSet /\ r.wrote = FALSE /\ r.arg = arg
        /\ r.op = op /\ r.call = "begin" /\ r.cookie = jar /\ r.given = None
        /\ r.page = Asked /\ r.fresh = page[t].fresh /\ r.token = token
    BY <1>1, <1>3, <1>4, <2>1, <2>2 DEF RequestSet, Call
  <2>4. RequestOK(r)
    <3>1. PageNames(r.page)
      BY <1>3, <2>3 DEF PageNames
    <3>2. CallFits(r)
      BY <2>3 DEF CallFits
    <3>3. r.page.says = ""
      BY <1>3, <2>3
    <3>4. Told(r)
      BY <2>3, <3>3 DEF Told
    <3>5. QED
      BY <2>3, <3>1, <3>2, <3>4 DEF RequestOK, Given
  <2>5. QED
    BY <2>3, <2>4
<1>6. QED
  BY <1>3, <1>5 DEF r, token

\* One tab's request replaced by another keeps the types of them all.
LEMMA TypesKept ==
  ASSUME Types, NEW t \in Tab, NEW r \in RequestSet, RequestOK(r),
         req' = [req EXCEPT ![t] = r]
  PROVE  /\ req' \in [Tab -> RequestSet]
         /\ \A u \in Tab : RequestOK(req'[u])
BY DEF Types

----------------------------------------------------------------------------
\* Something is sent from t.
SendStep(t) ==
  \E r \in RequestSet :
    /\ Idle(t) /\ req' = [req EXCEPT ![t] = r]
    /\ RequestOK(r)
    /\ r.call = "begin" /\ r.cookie = jar /\ r.given = None
    /\ r.page.fresh = TRUE => Settled
    /\ r.op \in Post => r.token = page[t].token /\ r.fresh = page[t].fresh
    /\ UNCHANGED <<jar, issued, keys, repos, lastId>>
    /\ page' = page \/ page' = [page EXCEPT ![t].again = "none"]

LEMMA SentStep ==
  ASSUME Types, NEW t \in Tab, NEW op \in Op \ {"none"}, NEW arg \in Arg,
         op \in Naming => arg \in Name, Sends(t, Sent(t, op, arg)),
         page' = page \/ page' = [page EXCEPT ![t].again = "none"]
  PROVE  SendStep(t)
<1> DEFINE r == Sent(t, op, arg)
<1>1. /\ r \in RequestSet /\ RequestOK(r)
      /\ r.op = op /\ r.call = "begin" /\ r.cookie = jar /\ r.given = None
      /\ r.page.fresh = Settled
      /\ r.fresh = page[t].fresh /\ (op \in Post => r.token = page[t].token)
  BY SentType
<1>2. Idle(t) /\ req' = [req EXCEPT ![t] = r] /\ UNCHANGED <<jar, issued, keys, repos, lastId>>
  BY DEF Sends, service
<1> HIDE DEF r
<1>3. QED
  BY <1>1, <1>2 DEF SendStep

LEMMA OpenStep == ASSUME Types, NEW t \in Tab, Open(t) PROVE SendStep(t)
<1> USE DEF Open
<1>1. CASE \E op \in {"keys", "new"} : Sends(t, Sent(t, op, None))
  BY <1>1, SentStep DEF Arg, None, Naming, Op, Fetch
<1>2. CASE Sends(t, Sent(t, "home", None))
  BY <1>2, SentStep DEF Arg, None, Naming, Op, Fetch
<1>3. CASE \E id \in page[t].table : Sends(t, Sent(t, "remove", id))
  <2>1. page[t].table \subseteq Arg
    BY DEF Types, PageSet, Arg
  <2>2. QED
    BY <1>3, <2>1, SentStep DEF Naming, Op, Fetch
<1>4. CASE \E n \in Name : Sends(t, Sent(t, "delete", n))
  BY <1>4, SentStep DEF Arg, Naming, Op, Fetch
<1>5. QED
  BY <1>1, <1>2, <1>3, <1>4

LEMMA SubmitStep == ASSUME Types, NEW t \in Tab, Submit(t) PROVE SendStep(t)
<1>1. page[t] \in PageSet /\ PageNames(page[t])
  BY DEF Types
<1>2. CASE \E f \in Forms(page[t]) : Sends(t, Sent(t, f[1], f[2]))
  <2>1. PICK f \in Forms(page[t]) : Sends(t, Sent(t, f[1], f[2]))
    BY <1>2
  <2>2. f[1] \in Op \ {"none"} /\ f[2] \in Arg /\ (f[1] \in Naming => f[2] \in Name)
    BY <1>1, FormsType DEF Op, Post
  <2>3. page' = page \/ page' = [page EXCEPT ![t].again = "none"]
    BY DEF Submit
  <2>4. QED
    BY <2>1, <2>2, <2>3, SentStep
<1>3. CASE \E f \in Forms(page[t]) :
             f[1] = "deletion" /\ Sends(t, [Sent(t, f[1], f[2]) EXCEPT !.typed = FALSE])
  <2>1. PICK f \in Forms(page[t]) :
               f[1] = "deletion" /\ Sends(t, [Sent(t, f[1], f[2]) EXCEPT !.typed = FALSE])
    BY <1>3
  <2> DEFINE s == Sent(t, f[1], f[2])
             r == [s EXCEPT !.typed = FALSE]
  <2>2. /\ s \in RequestSet /\ RequestOK(s)
        /\ s.op = f[1] /\ s.call = "begin" /\ s.cookie = jar /\ s.given = None
        /\ s.page.fresh = Settled /\ s.fresh = page[t].fresh
        /\ f[1] \in Post => s.token = page[t].token
    <3>1. f[1] \in Op \ {"none"} /\ f[2] \in Arg /\ (f[1] \in Naming => f[2] \in Name)
      BY <1>1, FormsType DEF Op, Post
    <3>2. QED
      BY <3>1, SentType
  <2>3. /\ r \in RequestSet /\ RequestOK(r)
        /\ r.op = s.op /\ r.call = "begin" /\ r.cookie = jar /\ r.given = None
        /\ r.page.fresh = Settled /\ r.fresh = page[t].fresh /\ r.token = s.token
    BY <2>2 DEF RequestSet, RequestOK, PageNames, CallFits, Told, Given
  <2>4. QED
    BY <2>1, <2>2, <2>3 DEF SendStep, Sends, service, Submit
<1>4. CASE Sends(t, Sent(t, "sign-out", None))
  BY <1>4, SentStep DEF Submit, Arg, None, Naming, Op, Post
<1>5. QED
  BY <1>2, <1>3, <1>4 DEF Submit

LEMMA GoBackStep == ASSUME Types, NEW t \in Tab, GoBack(t) PROVE SendStep(t)
<1> DEFINE again == page[t].again
           op == Found(again)
           arg == IF again \in {"removal", "deletion"} THEN page[t].arg ELSE None
           s == Sent(t, op, arg)
           r == [s EXCEPT !.page.again = again]
<1>1. page[t] \in PageSet /\ PageNames(page[t]) /\ page[t].screen = "expired"
  BY DEF Types, GoBack
<1>2. op \in Op \ {"none"} /\ arg \in Arg /\ (op \in Naming => arg \in Name) /\ op \notin Post
  BY <1>1 DEF Found, PageSet, PageNames, Arg, Naming, None, Post, Op, Fetch, Again
<1>3. /\ s \in RequestSet /\ RequestOK(s)
      /\ s.op = op /\ s.call = "begin" /\ s.cookie = jar /\ s.given = None
      /\ s.page.fresh = Settled /\ s.page.screen = "none"
  BY <1>2, SentType
<1>4. /\ r \in RequestSet /\ RequestOK(r)
      /\ r.op = op /\ r.call = "begin" /\ r.cookie = jar /\ r.given = None
      /\ r.page.fresh = Settled
  BY <1>1, <1>3 DEF RequestSet, PageSet, RequestOK, PageNames, CallFits, Told, Given
<1>5. Sends(t, r) /\ page' = page
  BY DEF GoBack, Returned
<1>6. QED
  BY <1>2, <1>4, <1>5 DEF SendStep, Sends, service

LEMMA RetryStep == ASSUME Types, NEW t \in Tab, Retry(t) PROVE SendStep(t)
<1>1. page[t] \in PageSet /\ PageNames(page[t]) /\ page' = page
  BY DEF Types, Retry
<1>2. CASE Sends(t, Sent(t, "sign-out", None))
  BY <1>1, <1>2, SentStep DEF Arg, None, Naming, Op, Post
<1>3. CASE \E f \in Forms(page[t]) : Sends(t, Sent(t, f[1], f[2]))
  <2>1. PICK f \in Forms(page[t]) : Sends(t, Sent(t, f[1], f[2]))
    BY <1>3
  <2>2. f[1] \in Op \ {"none"} /\ f[2] \in Arg /\ (f[1] \in Naming => f[2] \in Name)
    BY <1>1, FormsType DEF Op, Post
  <2>3. QED
    BY <1>1, <2>1, <2>2, SentStep
<1>4. QED
  BY <1>2, <1>3 DEF Retry

----------------------------------------------------------------------------
\* What no call changes of a request.
Kept(r, s) ==
  /\ s \in RequestSet
  /\ s.op = r.op /\ s.arg = r.arg /\ s.token = r.token /\ s.typed = r.typed /\ s.fresh = r.fresh
  /\ s.cookie = r.cookie /\ s.given = r.given
  /\ s.page.fresh = TRUE => r.page.fresh = TRUE /\ s.page.token = r.page.token

LEMMA KeptTwice ==
  ASSUME NEW r, NEW s, NEW u, Kept(r, s), Kept(s, u)
  PROVE  Kept(r, u)
BY DEF Kept

LEMMA CallsFact ==
  ASSUME NEW r \in RequestSet, NEW c \in Call
  PROVE  LET s == Calls(r, c) IN
         Kept(r, s) /\ s.call = c /\ s.page = r.page /\ s.wrote = r.wrote /\ s.id = r.id
BY DEF Kept, RequestSet, Calls

LEMMA ShowsFact ==
  ASSUME NEW r \in RequestSet, NEW c \in Screen
  PROVE  LET s == Shows(r, c) IN
         /\ Kept(r, s) /\ s.call = "answer" /\ s.wrote = r.wrote /\ s.id = r.id
         /\ s.page.screen = c /\ s.page.says = r.page.says /\ s.page.arg = r.page.arg
BY DEF Kept, RequestSet, PageSet, Shows, Call

LEMMA SignsInFact ==
  ASSUME NEW r \in RequestSet
  PROVE  LET s == SignsIn(r) IN
         /\ Kept(r, s) /\ s.call = "answer" /\ s.wrote = r.wrote
         /\ s.page.screen = "sign-in" /\ s.page.says = "" /\ s.page.fresh = FALSE
<1>1. Blank \in PageSet /\ Blank.fresh = FALSE /\ Blank.says = ""
  BY BlankType DEF Blank
<1>2. QED
  BY <1>1 DEF Kept, RequestSet, PageSet, SignsIn, Call, Screen

LEMMA SaysFact ==
  ASSUME NEW r \in RequestSet, NEW says \in Sentence, NEW about \in Arg
  PROVE  LET s == Says(r, says, about) IN
         /\ Kept(r, s) /\ s.call = r.call /\ s.wrote = r.wrote /\ s.id = r.id
         /\ s.page.screen = r.page.screen /\ s.page.says = says /\ s.page.arg = r.page.arg
         /\ s.page.again = r.page.again
BY DEF Kept, RequestSet, PageSet, Says

LEMMA WroteFact ==
  ASSUME NEW r \in RequestSet
  PROVE  LET s == [r EXCEPT !.wrote = TRUE] IN
         Kept(r, s) /\ s.call = r.call /\ s.wrote = TRUE /\ s.id = r.id /\ s.page = r.page
BY DEF Kept, RequestSet

----------------------------------------------------------------------------
\* What r, a state of t's request while it is handled, has kept of what was
\* sent; the page it makes carries the cookie's token.
Stage(t, r) ==
  LET q == req[t] IN
  /\ r \in RequestSet /\ Given(r)
  /\ r.op = q.op /\ r.arg = q.arg /\ r.token = q.token /\ r.typed = q.typed /\ r.fresh = q.fresh
  /\ r.cookie = q.cookie /\ (~At(t, "begin") => r.given = q.given)
  /\ r.page.fresh = TRUE =>
       /\ q.page.fresh = TRUE
       /\ At(t, "begin") /\ q.cookie # None => r.page.token = q.cookie
       /\ ~At(t, "begin") => r.page.token = q.page.token

LEMMA StageKept ==
  ASSUME NEW t \in Tab, NEW r, NEW s, Stage(t, r), Kept(r, s)
  PROVE  Stage(t, s)
BY DEF Stage, Kept, Given

LEMMA StageSelf ==
  ASSUME Types, NEW t \in Tab, ~At(t, "begin")
  PROVE  Stage(t, req[t])
BY DEF Stage, Types, RequestOK

\* What the handling of t's request does to what it stands for.
Handled(t) ==
  /\ ~Idle(t) /\ UNCHANGED <<jar, page>>
  /\ \E s \in RequestSet :
       /\ req' = [req EXCEPT ![t] = s] /\ Stage(t, s) /\ RequestOK(s)
       /\ s.call \notin {"none", "begin"}
       /\ s.call = "answer" /\ s.page.screen = "expired" =>
            At(t, "begin") /\ req[t].op \in Post /\ ~CSRFValid(req[t])
       /\ s.call = "administers" =>
            s.id # None /\ s.id = repos[s.arg] /\ s.arg \in Name /\ UNCHANGED <<repos, lastId>>
       /\ s.call = "forget" =>
            At(t, "administers") /\ s.id = req[t].id /\ UNCHANGED <<repos, lastId>>

LEMMA HandledFrom ==
  ASSUME NEW t \in Tab, ~Idle(t), UNCHANGED <<jar, page>>, NEW s,
         req' = [req EXCEPT ![t] = s], Stage(t, s), PageNames(s.page), CallFits(s), Told(s),
         s.call \notin {"none", "begin", "administers", "forget"},
         s.call = "answer" => s.page.screen # "expired"
  PROVE  Handled(t)
BY DEF Handled, Stage, RequestOK

LEMMA RefuseStep == ASSUME Types, NEW t \in Tab, Refuse(t) PROVE Handled(t)
<1> DEFINE r == req[t]
           p == [Blank EXCEPT !.screen = "expired", !.arg = r.arg, !.again = First(r.op)]
           s == [r EXCEPT !.call = "answer", !.page = p]
<1>1. r \in RequestSet /\ RequestOK(r) /\ r.call = "begin" /\ r.op \in Post /\ ~CSRFValid(r)
  BY DEF Types, Refuse, At
<1>2. First(r.op) \in Again /\ (First(r.op) = "deletion" => r.arg \in Name)
  BY <1>1 DEF First, Again, Post, RequestOK, CallFits, Naming
<1>3. p \in PageSet /\ PageNames(p) /\ p.screen = "expired" /\ p.fresh = FALSE /\ p.says = ""
  BY <1>1, <1>2, BlankType DEF Blank, PageSet, PageNames, RequestSet, Screen
<1> HIDE DEF p
<1>4. /\ s \in RequestSet /\ s.call = "answer" /\ s.page = p
      /\ s.op = r.op /\ s.arg = r.arg /\ s.token = r.token /\ s.typed = r.typed
      /\ s.fresh = r.fresh /\ s.cookie = r.cookie /\ s.given = r.given /\ s.wrote = r.wrote
  BY <1>1, <1>3 DEF RequestSet, Call
<1>5. req' = [req EXCEPT ![t] = s] /\ UNCHANGED <<jar, page>>
  BY DEF Refuse, Becomes, p
<1> HIDE DEF s
<1>6. Stage(t, s)
  BY <1>1, <1>3, <1>4 DEF Stage, RequestOK, Given
<1>7. RequestOK(s)
  BY <1>1, <1>3, <1>4 DEF RequestOK, CallFits, Told, Given, Naming
<1>8. QED
  BY <1>1, <1>4, <1>5, <1>6, <1>7 DEF Handled, Idle, At

LEMMA SignOutStep == ASSUME Types, NEW t \in Tab, SignOut(t) PROVE Handled(t)
<1> DEFINE r == req[t]
           s == SignsIn(r)
<1>1. r \in RequestSet /\ RequestOK(r) /\ r.call = "begin"
  BY DEF Types, SignOut, At
<1>2. /\ Kept(r, s) /\ s.call = "answer" /\ s.wrote = r.wrote
      /\ s.page.screen = "sign-in" /\ s.page.says = "" /\ s.page.fresh = FALSE
  BY <1>1, SignsInFact
<1>3. req' = [req EXCEPT ![t] = s] /\ UNCHANGED <<jar, page>>
  BY DEF SignOut, Becomes
<1> HIDE DEF s
<1>4. Stage(t, s)
  BY <1>1, <1>2 DEF Stage, Kept, RequestOK, Given
<1>5. PageNames(s.page) /\ CallFits(s) /\ Told(s)
  BY <1>1, <1>2 DEF Kept, RequestOK, PageNames, CallFits, Told, Naming
<1>6. QED
  BY <1>1, <1>2, <1>3, <1>4, <1>5, HandledFrom DEF Idle

LEMMA BeginStep == ASSUME Types, NEW t \in Tab, Begin(t) PROVE Handled(t) /\ issued' \in Nat
<1> DEFINE q == req[t]
           token == CSRFToken(q)
           given == IF token = q.cookie THEN None ELSE token
           r == [q EXCEPT !.page.token = token, !.given = given]
<1>1. /\ q \in RequestSet /\ RequestOK(q) /\ q.call = "begin" /\ q.page.says = ""
      /\ q.wrote = FALSE /\ q.op # "sign-out" /\ q.op # "none" /\ UNCHANGED <<jar, page>>
      /\ issued \in Nat
  <2>1. q \in RequestSet /\ RequestOK(q) /\ issued \in Nat
    BY DEF Types
  <2>2. q.call = "begin" /\ UNCHANGED <<jar, page>> /\ r.op # "sign-out"
    BY DEF Begin, At
  <2>3. r.op = q.op
    BY <2>1 DEF RequestSet
  <2>4. q.page.says = "" /\ q.wrote = FALSE /\ q.op # "none"
    BY <2>1, <2>2 DEF RequestOK, CallFits, Told
  <2>5. QED
    BY <2>1, <2>2, <2>3, <2>4
<1>2. /\ token \in Nat /\ given \in Nat /\ (given # None => q.cookie = None)
      /\ (q.cookie # None => token = q.cookie)
  <2>1. q.cookie \in Nat /\ issued \in Nat /\ None \in Nat
    BY <1>1 DEF RequestSet, None
  <2>2. QED
    BY <2>1 DEF CSRFToken
<1>3. issued' \in Nat
  <2>1. r.given = given
    BY <1>1, <1>2 DEF RequestSet, PageSet
  <2>2. issued' = IF r.given = None THEN issued ELSE token
    BY DEF Begin
  <2>3. QED
    BY <1>2, <2>1, <2>2 DEF Types
<1>4. \/ req' = [req EXCEPT ![t] = SignsIn(r)]
      \/ q.op = "home" /\ req' = [req EXCEPT ![t] = Shows(r, "message")]
      \/ q.op # "home" /\ req' = [req EXCEPT ![t] = Calls(r, FirstCall(r.op))]
  BY <1>1 DEF Begin, Becomes, RequestSet
<1> HIDE DEF token, given
<1>5. /\ r \in RequestSet /\ r.given = given /\ r.page.token = token /\ r.call = "begin"
      /\ r.op = q.op /\ r.arg = q.arg /\ r.token = q.token /\ r.typed = q.typed
      /\ r.fresh = q.fresh /\ r.cookie = q.cookie /\ r.wrote = FALSE /\ r.page.says = ""
      /\ r.page.fresh = q.page.fresh /\ r.page.screen = q.page.screen
      /\ r.page.arg = q.page.arg /\ r.page.again = q.page.again
  BY <1>1, <1>2 DEF RequestSet, PageSet
<1> HIDE DEF r
<1>6. Stage(t, r) /\ PageNames(r.page) /\ (q.op \in Naming => q.arg \in Name)
  <2>1. Stage(t, r)
    <3>1. Given(r)
      BY <1>2, <1>5 DEF Given
    <3>2. /\ At(t, "begin")
          /\ r.page.fresh = TRUE => q.page.fresh = TRUE
          /\ q.cookie # None => r.page.token = q.cookie
      BY <1>1, <1>2, <1>5 DEF At
    <3>3. QED
      BY <1>5, <3>1, <3>2 DEF Stage
  <2>2. PageNames(r.page) /\ (q.op \in Naming => q.arg \in Name)
    BY <1>1, <1>5 DEF RequestOK, PageNames, CallFits
  <2>3. QED
    BY <2>1, <2>2
<1>7. CASE req' = [req EXCEPT ![t] = SignsIn(r)]
  <2> DEFINE s == SignsIn(r)
  <2>1. /\ Kept(r, s) /\ s.call = "answer" /\ s.wrote = FALSE
        /\ s.page.screen = "sign-in" /\ s.page.says = ""
    BY <1>5, SignsInFact
  <2> HIDE DEF s
  <2>2. Stage(t, s)
    BY <1>6, <2>1, StageKept
  <2>3. PageNames(s.page) /\ CallFits(s) /\ Told(s)
    BY <1>5, <1>6, <2>1 DEF Kept, PageNames, CallFits, Told, Naming
  <2>4. QED
    BY <1>1, <1>3, <1>7, <2>1, <2>2, <2>3, HandledFrom DEF Idle, s
<1>8. CASE q.op = "home" /\ req' = [req EXCEPT ![t] = Shows(r, "message")]
  <2> DEFINE s == Shows(r, "message")
  <2>1. /\ Kept(r, s) /\ s.call = "answer" /\ s.wrote = FALSE
        /\ s.page.screen = "message" /\ s.page.says = ""
    BY <1>5, ShowsFact DEF Screen
  <2> HIDE DEF s
  <2>2. Stage(t, s)
    BY <1>6, <2>1, StageKept
  <2>3. PageNames(s.page) /\ CallFits(s) /\ Told(s)
    BY <1>5, <1>6, <2>1 DEF Kept, PageNames, CallFits, Told, Naming
  <2>4. QED
    BY <1>1, <1>3, <1>8, <2>1, <2>2, <2>3, HandledFrom DEF Idle, s
<1>9. CASE q.op # "home" /\ req' = [req EXCEPT ![t] = Calls(r, FirstCall(r.op))]
  <2> DEFINE c == FirstCall(r.op)
             s == Calls(r, c)
  <2>1. /\ c \in {"list", "parse", "add", "remove", "spaces", "create", "resolve"}
        /\ c = "add" => r.op = "add"
        /\ c = "remove" => r.op = "removal"
        /\ c = "create" => r.op = "creation"
        /\ c = "resolve" => r.op \in {"delete", "deletion"}
    BY <1>1, <1>5, <1>9 DEF FirstCall, RequestSet, Op, Fetch, Post
  <2> HIDE DEF c
  <2>2. Kept(r, s) /\ s.call = c /\ s.wrote = FALSE /\ s.page = r.page
    <3>1. c \in Call
      BY <2>1 DEF Call
    <3>2. Kept(r, s) /\ s.call = c /\ s.wrote = r.wrote /\ s.page = r.page
      BY <1>5, <3>1, CallsFact
    <3>3. QED
      BY <1>5, <3>2
  <2> HIDE DEF s
  <2>3. Stage(t, s)
    BY <1>6, <2>2, StageKept
  <2>4. PageNames(s.page)
    BY <1>6, <2>2
  <2>5. CallFits(s) /\ Told(s)
    BY <1>5, <1>6, <2>1, <2>2 DEF Kept, CallFits, Told, Naming
  <2>6. QED
    BY <1>1, <1>3, <1>9, <2>1, <2>2, <2>3, <2>4, <2>5, HandledFrom DEF Idle, s, c
<1>10. QED
  BY <1>4, <1>7, <1>8, <1>9

\* The ways a call after the first ends.
LEMMA HandledBy ==
  ASSUME Types, NEW t \in Tab, ~Idle(t), ~At(t, "begin"), UNCHANGED <<jar, page>>, NEW s,
         req' = [req EXCEPT ![t] = s], Kept(req[t], s), PageNames(s.page), CallFits(s), Told(s),
         s.call \in {"list", "spaces", "answer", "redirect"},
         s.call = "answer" => s.page.screen # "expired"
  PROVE  Handled(t)
BY StageSelf, StageKept, HandledFrom

LEMMA ListedFact ==
  ASSUME NEW t, NEW r \in RequestSet, PageNames(r.page), CallFits(r),
         NEW says \in Sentence, NEW about \in Arg,
         r.wrote = TRUE => r.op \in Writing /\ says = "failed"
  PROVE  LET s == Listed(t, Says(r, says, about)) IN
         /\ Kept(r, s) /\ s.call = "list" /\ PageNames(s.page) /\ CallFits(s) /\ Told(s)
<1> DEFINE u == Says(r, says, about)
           s == Listed(t, u)
<1>1. /\ Kept(r, u) /\ u.wrote = r.wrote
      /\ u.page.screen = r.page.screen /\ u.page.says = says /\ u.page.arg = r.page.arg
      /\ u.page.again = r.page.again
  BY SaysFact
<1>2. u \in RequestSet
  BY <1>1 DEF Kept
<1> HIDE DEF u
<1>3. Kept(u, s) /\ s.call = "list" /\ s.page = u.page /\ s.wrote = u.wrote
  BY <1>2, CallsFact DEF Listed, Call
<1> HIDE DEF s
<1>4. Kept(r, s)
  BY <1>1, <1>3, KeptTwice
<1>5. PageNames(s.page)
  BY <1>1, <1>3 DEF PageNames
<1>6. CallFits(s)
  BY <1>3, <1>4 DEF Kept, CallFits
<1>7. Told(s)
  BY <1>1, <1>3, <1>4 DEF Kept, Told
<1>8. QED
  BY <1>3, <1>4, <1>5, <1>6, <1>7 DEF s, u

LEMMA RedirectsFact ==
  ASSUME NEW r \in RequestSet, PageNames(r.page), CallFits(r),
         r.wrote = TRUE, r.op \in Writing, r.page.says = ""
  PROVE  LET s == Redirects(r) IN
         /\ Kept(r, s) /\ s.call = "redirect" /\ PageNames(s.page) /\ CallFits(s) /\ Told(s)
<1> DEFINE s == Redirects(r)
<1>1. Kept(r, s) /\ s.call = "redirect" /\ s.page = r.page /\ s.wrote = r.wrote
  BY CallsFact DEF Redirects, Calls, Call
<1> HIDE DEF s
<1>2. PageNames(s.page)
  BY <1>1 DEF PageNames
<1>3. CallFits(s)
  BY <1>1 DEF Kept, CallFits
<1>4. Told(s)
  BY <1>1 DEF Kept, Told
<1>5. QED
  BY <1>1, <1>2, <1>3, <1>4 DEF s

LEMMA AnswerFact ==
  ASSUME NEW r \in RequestSet, CallFits(r), NEW c \in Screen \ {"delete", "expired"},
         r.wrote = TRUE => r.op \in Writing /\ r.page.says \in {"", "failed"}
  PROVE  LET s == Shows(r, c) IN
         /\ Kept(r, s) /\ s.call = "answer" /\ PageNames(s.page) /\ CallFits(s) /\ Told(s)
         /\ s.page.screen # "expired"
<1> DEFINE s == Shows(r, c)
<1>1. /\ Kept(r, s) /\ s.call = "answer" /\ s.wrote = r.wrote
      /\ s.page.screen = c /\ s.page.says = r.page.says
  BY ShowsFact
<1> HIDE DEF s
<1>2. PageNames(s.page)
  BY <1>1 DEF PageNames
<1>3. CallFits(s)
  BY <1>1 DEF Kept, CallFits
<1>4. Told(s)
  BY <1>1 DEF Kept, Told
<1>5. QED
  BY <1>1, <1>2, <1>3, <1>4 DEF s

\* What a request at a call is.
LEMMA AtCall ==
  ASSUME Types, NEW t \in Tab, ~Idle(t), ~At(t, "begin")
  PROVE  LET r == req[t] IN
         /\ r \in RequestSet /\ PageNames(r.page) /\ CallFits(r) /\ Told(r) /\ r.arg \in Arg
         /\ r.wrote = TRUE => r.op \in Writing /\ r.page.says \in {"", "failed"}
BY DEF Types, RequestOK, RequestSet, Told

LEMMA SpacesStep == ASSUME Types, NEW t \in Tab, Spaces(t) PROVE Handled(t)
<1> DEFINE r == req[t]
<1>1. ~Idle(t) /\ ~At(t, "begin") /\ UNCHANGED <<jar, page>>
  BY DEF Spaces, At, Idle
<1>2. r \in RequestSet /\ CallFits(r)
      /\ (r.wrote = TRUE => r.op \in Writing /\ r.page.says \in {"", "failed"})
  BY <1>1, AtCall
<1>3. PICK c \in {"new", "message"} : req' = [req EXCEPT ![t] = Shows(r, c)]
  BY DEF Spaces, Becomes
<1> DEFINE s == Shows(r, c)
<1>4. /\ Kept(r, s) /\ s.call = "answer" /\ PageNames(s.page) /\ CallFits(s) /\ Told(s)
      /\ s.page.screen # "expired"
  BY <1>2, AnswerFact DEF Screen
<1> HIDE DEF s
<1>5. QED
  BY <1>1, <1>3, <1>4, HandledBy DEF s

LEMMA ListStep == ASSUME Types, NEW t \in Tab, List(t) PROVE Handled(t)
<1> DEFINE r == req[t]
           c == IF r.page.screen = "confirm" THEN "confirm" ELSE "keys"
           b == [Shows(r, c) EXCEPT !.page.table = Mine]
           asked == [Shows(b, "removing") EXCEPT !.page.arg = b.arg]
           absent == Says(b, "absent", b.arg)
           outage == Shows(r, "outage")
<1>1. ~Idle(t) /\ ~At(t, "begin") /\ UNCHANGED <<jar, page>>
  BY DEF List, At, Idle
<1>2. /\ r \in RequestSet /\ CallFits(r) /\ r.arg \in Arg
      /\ (r.wrote = TRUE => r.op \in Writing /\ r.page.says \in {"", "failed"})
  BY <1>1, AtCall
<1>3. \/ req' = [req EXCEPT ![t] = outage]
      \/ req' = [req EXCEPT ![t] = b]
      \/ b.op = "remove" /\ req' = [req EXCEPT ![t] = asked]
      \/ b.op = "remove" /\ req' = [req EXCEPT ![t] = absent]
  BY DEF List, Becomes, Picked
<1>4. /\ Kept(r, b) /\ b.call = "answer" /\ b.wrote = r.wrote
      /\ b.page.screen \in {"confirm", "keys"} /\ b.page.says = r.page.says
  <2> DEFINE u == Shows(r, c)
  <2>1. /\ Kept(r, u) /\ u.call = "answer" /\ u.wrote = r.wrote
        /\ u.page.screen = c /\ u.page.says = r.page.says /\ u \in RequestSet
    <3>1. c \in Screen
      BY DEF Screen
    <3>2. /\ Kept(r, u) /\ u.call = "answer" /\ u.wrote = r.wrote
          /\ u.page.screen = c /\ u.page.says = r.page.says
      BY <1>2, <3>1, ShowsFact
    <3>3. QED
      BY <3>2 DEF Kept
  <2>2. Mine \subseteq Nat
    BY DEF Mine, Types
  <2> HIDE DEF u
  <2>3. /\ Kept(u, b) /\ b.call = u.call /\ b.wrote = u.wrote
        /\ b.page.screen = u.page.screen /\ b.page.says = u.page.says
    BY <2>1, <2>2 DEF Kept, RequestSet, PageSet, u
  <2>4. QED
    BY <2>1, <2>3, KeptTwice
<1> HIDE DEF b
<1>5. b \in RequestSet /\ b.arg \in Arg /\ b.op = r.op
  BY <1>4 DEF Kept, RequestSet
<1>6. CASE req' = [req EXCEPT ![t] = outage]
  <2>1. /\ Kept(r, outage) /\ outage.call = "answer" /\ PageNames(outage.page)
        /\ CallFits(outage) /\ Told(outage) /\ outage.page.screen # "expired"
    BY <1>2, AnswerFact DEF Screen
  <2> HIDE DEF outage
  <2>2. QED
    BY <1>1, <1>6, <2>1, HandledBy
<1>7. CASE req' = [req EXCEPT ![t] = b]
  <2>1. PageNames(b.page) /\ CallFits(b) /\ Told(b) /\ b.page.screen # "expired"
    BY <1>2, <1>4 DEF PageNames, CallFits, Told, Kept
  <2>2. QED
    BY <1>1, <1>4, <1>7, <2>1, HandledBy
<1>8. CASE b.op = "remove" /\ req' = [req EXCEPT ![t] = asked]
  <2> DEFINE u == Shows(b, "removing")
  <2>1. /\ Kept(b, u) /\ u.call = "answer" /\ u.wrote = b.wrote /\ u \in RequestSet
        /\ u.page.screen = "removing"
    <3>1. "removing" \in Screen
      BY DEF Screen
    <3>2. /\ Kept(b, u) /\ u.call = "answer" /\ u.wrote = b.wrote
          /\ u.page.screen = "removing"
      BY <1>5, <3>1, ShowsFact
    <3>3. QED
      BY <3>2 DEF Kept
  <2> HIDE DEF u
  <2>2. /\ Kept(u, asked) /\ asked.call = "answer" /\ asked.wrote = b.wrote
        /\ asked.page.screen = "removing"
    BY <1>5, <2>1 DEF Kept, RequestSet, PageSet, u
  <2> HIDE DEF asked
  <2>3. Kept(r, asked)
    BY <1>4, <2>1, <2>2, KeptTwice
  <2>4. asked.wrote # TRUE /\ asked.op = "remove"
    BY <1>2, <1>4, <1>5, <1>8, <2>2, <2>3 DEF Writing, Kept
  <2>5. PageNames(asked.page) /\ CallFits(asked) /\ Told(asked)
    BY <2>2, <2>4 DEF PageNames, CallFits, Told, Naming
  <2>6. QED
    BY <1>1, <1>8, <2>2, <2>3, <2>5, HandledBy
<1>9. CASE b.op = "remove" /\ req' = [req EXCEPT ![t] = absent]
  <2>1. /\ Kept(b, absent) /\ absent.call = "answer" /\ absent.wrote = b.wrote
        /\ absent.page.screen \in {"confirm", "keys"}
    <3>1. "absent" \in Sentence
      BY DEF Sentence
    <3>2. /\ Kept(b, absent) /\ absent.call = b.call /\ absent.wrote = b.wrote
          /\ absent.page.screen = b.page.screen
      BY <1>5, <3>1, SaysFact
    <3>3. QED
      BY <1>4, <3>2
  <2> HIDE DEF absent
  <2>2. Kept(r, absent)
    BY <1>4, <2>1, KeptTwice
  <2>3. absent.wrote # TRUE /\ absent.op = "remove"
    BY <1>2, <1>4, <1>5, <1>9, <2>1, <2>2 DEF Writing, Kept
  <2>4. PageNames(absent.page) /\ CallFits(absent) /\ Told(absent)
    BY <2>1, <2>3 DEF PageNames, CallFits, Told, Naming
  <2>5. QED
    BY <1>1, <1>9, <2>1, <2>2, <2>4, HandledBy
<1>10. QED
  BY <1>3, <1>6, <1>7, <1>8, <1>9

\* A form that did nothing, told so above the list.
LEMMA RefusedStep ==
  ASSUME Types, NEW t \in Tab, req[t].call \in {"parse", "add", "remove"},
         UNCHANGED <<jar, page>>, NEW says \in Sentence, NEW about \in Arg,
         req' = [req EXCEPT ![t] = Listed(t, Says(req[t], says, about))]
  PROVE  Handled(t)
<1> DEFINE r == req[t]
           s == Listed(t, Says(r, says, about))
<1>1. ~Idle(t) /\ ~At(t, "begin")
  BY DEF At, Idle
<1>2. /\ r \in RequestSet /\ PageNames(r.page) /\ CallFits(r) /\ r.wrote # TRUE
  BY <1>1, AtCall DEF Told
<1>3. /\ Kept(r, s) /\ s.call = "list" /\ PageNames(s.page) /\ CallFits(s) /\ Told(s)
  BY <1>2, ListedFact
<1> HIDE DEF s
<1>4. QED
  BY <1>1, <1>3, HandledBy DEF s

\* One that took effect, answered or not.
LEMMA WrittenFact ==
  ASSUME NEW t, NEW w \in RequestSet, PageNames(w.page), CallFits(w), w.wrote = TRUE,
         w.op \in Writing, w.page.says = "", NEW s,
         \/ s = Redirects(w) \/ s = Listed(t, Says(w, "failed", None)) \/ s = Shows(w, "message")
  PROVE  /\ Kept(w, s) /\ s.call \in {"list", "answer", "redirect"}
         /\ PageNames(s.page) /\ CallFits(s) /\ Told(s)
         /\ s.call = "answer" => s.page.screen # "expired"
<1>1. CASE s = Redirects(w)
  <2>1. LET u == Redirects(w) IN
        /\ Kept(w, u) /\ u.call = "redirect" /\ PageNames(u.page) /\ CallFits(u) /\ Told(u)
    BY RedirectsFact
  <2>2. QED
    BY <1>1, <2>1
<1>2. CASE s = Listed(t, Says(w, "failed", None))
  <2>1. "failed" \in Sentence /\ None \in Arg
    BY DEF Sentence, Arg, None
  <2>2. LET u == Listed(t, Says(w, "failed", None)) IN
        /\ Kept(w, u) /\ u.call = "list" /\ PageNames(u.page) /\ CallFits(u) /\ Told(u)
    BY <2>1, ListedFact
  <2>3. QED
    BY <1>2, <2>2
<1>3. CASE s = Shows(w, "message")
  <2>1. "message" \in Screen \ {"delete", "expired"}
    BY DEF Screen
  <2>2. LET u == Shows(w, "message") IN
        /\ Kept(w, u) /\ u.call = "answer" /\ PageNames(u.page) /\ CallFits(u) /\ Told(u)
        /\ u.page.screen # "expired"
    BY <2>1, AnswerFact
  <2>3. QED
    BY <1>3, <2>2
<1>4. QED
  BY <1>1, <1>2, <1>3

LEMMA WrittenStep ==
  ASSUME Types, NEW t \in Tab, req[t].call \in {"add", "remove", "create", "forget"},
         UNCHANGED <<jar, page>>,
         \E s : /\ req' = [req EXCEPT ![t] = s]
                /\ LET w == [req[t] EXCEPT !.wrote = TRUE] IN
                   s \in {Redirects(w), Listed(t, Says(w, "failed", None)), Shows(w, "message")}
  PROVE  Handled(t)
<1> DEFINE r == req[t]
           w == [r EXCEPT !.wrote = TRUE]
<1>1. ~Idle(t) /\ ~At(t, "begin")
  BY DEF At, Idle
<1>2. /\ r \in RequestSet /\ PageNames(r.page) /\ CallFits(r) /\ Told(r)
      /\ r.op \in Writing /\ r.page.says = ""
  BY <1>1, AtCall DEF Told, CallFits, Writing
<1>3. /\ Kept(r, w) /\ w.wrote = TRUE /\ w.call = r.call /\ w.page = r.page
  BY <1>2, WroteFact
<1>4. PICK s : /\ req' = [req EXCEPT ![t] = s]
               /\ s \in {Redirects(w), Listed(t, Says(w, "failed", None)), Shows(w, "message")}
  OBVIOUS
<1> HIDE DEF w
<1>5. w \in RequestSet /\ PageNames(w.page) /\ CallFits(w) /\ w.op \in Writing /\ w.page.says = ""
  BY <1>2, <1>3 DEF Kept, CallFits, PageNames
<1>6. /\ Kept(w, s) /\ s.call \in {"list", "answer", "redirect"}
      /\ PageNames(s.page) /\ CallFits(s) /\ Told(s)
      /\ s.call = "answer" => s.page.screen # "expired"
  <2>1. \/ s = Redirects(w) \/ s = Listed(t, Says(w, "failed", None)) \/ s = Shows(w, "message")
    BY <1>4
  <2>2. w.wrote = TRUE
    BY <1>3
  <2>3. QED
    BY <1>5, <2>1, <2>2, WrittenFact
<1>7. Kept(r, s)
  BY <1>3, <1>6, KeptTwice
<1>8. QED
  BY <1>1, <1>4, <1>6, <1>7, HandledBy

\* No answer, or one that is not about the form.
LEMMA MessageStep ==
  ASSUME Types, NEW t \in Tab, ~Idle(t), ~At(t, "begin"), UNCHANGED <<jar, page>>,
         req' = [req EXCEPT ![t] = Shows(req[t], "message")]
  PROVE  Handled(t)
<1> DEFINE s == Shows(req[t], "message")
<1>1. /\ Kept(req[t], s) /\ s.call = "answer" /\ PageNames(s.page) /\ CallFits(s) /\ Told(s)
      /\ s.page.screen # "expired"
  BY AtCall, AnswerFact DEF Screen
<1> HIDE DEF s
<1>2. QED
  BY <1>1, HandledBy DEF s

LEMMA RefuseKeyStep ==
  ASSUME Types, NEW t \in Tab, req[t].call \in {"parse", "add"}, UNCHANGED <<jar, page>>,
         RefuseKey(t, req[t])
  PROVE  Handled(t)
<1>1. PICK says \in Sentence, about \in Arg :
             req' = [req EXCEPT ![t] = Listed(t, Says(req[t], says, about))]
  <2>1. \A x \in Held(req[t].arg) : x.id \in Arg
    BY DEF Held, Types, Arg
  <2>2. QED
    BY <2>1 DEF RefuseKey, Becomes, Sentence, Arg, None
<1>2. QED
  BY <1>1, RefusedStep

LEMMA ParseStep == ASSUME Types, NEW t \in Tab, Parse(t) PROVE Handled(t)
<1> DEFINE r == req[t]
           u == [r EXCEPT !.page.screen = "confirm", !.page.arg = r.arg]
           s == Listed(t, u)
<1>1. ~Idle(t) /\ ~At(t, "begin") /\ UNCHANGED <<jar, page>> /\ r.call = "parse"
  BY DEF Parse, At, Idle
<1>2. CASE RefuseKey(t, r)
  BY <1>1, <1>2, RefuseKeyStep
<1>3. CASE req' = [req EXCEPT ![t] = s]
  <2>1. r \in RequestSet /\ CallFits(r) /\ r.wrote # TRUE /\ r.arg \in Arg
    BY <1>1, AtCall DEF Told
  <2>2. Kept(r, u) /\ u \in RequestSet /\ u.wrote = r.wrote /\ u.page.screen = "confirm"
    BY <2>1 DEF Kept, RequestSet, PageSet, Screen
  <2> HIDE DEF u
  <2>3. Kept(u, s) /\ s.call = "list" /\ s.page = u.page /\ s.wrote = u.wrote
    BY <2>2, CallsFact DEF Listed, Call
  <2> HIDE DEF s
  <2>4. Kept(r, s)
    BY <2>2, <2>3, KeptTwice
  <2>5. PageNames(s.page) /\ CallFits(s) /\ Told(s)
    BY <2>1, <2>2, <2>3, <2>4 DEF PageNames, CallFits, Told, Kept
  <2>6. QED
    BY <1>1, <1>3, <2>3, <2>4, <2>5, HandledBy
<1>4. QED
  BY <1>2, <1>3 DEF Parse, Becomes

LEMMA AddStep == ASSUME Types, NEW t \in Tab, Add(t) PROVE Handled(t)
<1>1. UNCHANGED <<jar, page>> /\ req[t].call = "add"
  BY DEF Add, At
<1>2. CASE RefuseKey(t, req[t])
  BY <1>1, <1>2, RefuseKeyStep
<1>3. ASSUME ~RefuseKey(t, req[t]) PROVE Handled(t)
  <2> DEFINE w == [req[t] EXCEPT !.wrote = TRUE]
  <2>1. \E s \in {Redirects(w), Listed(t, Says(w, "failed", None)), Shows(w, "message")} :
          req' = [req EXCEPT ![t] = s]
    BY <1>3 DEF Add, Becomes
  <2>2. QED
    BY <1>1, <2>1, WrittenStep
<1>4. QED
  BY <1>2, <1>3

LEMMA RemoveStep == ASSUME Types, NEW t \in Tab, Remove(t) PROVE Handled(t)
<1> DEFINE r == req[t]
           w == [r EXCEPT !.wrote = TRUE]
<1>1. UNCHANGED <<jar, page>> /\ r.call = "remove" /\ r.arg \in Arg /\ None \in Arg
  BY AtCall DEF Remove, At, Idle, Arg, None
<1>2. \/ \E s \in {Redirects(w), Listed(t, Says(w, "failed", None)), Shows(w, "message")} :
           req' = [req EXCEPT ![t] = s]
      \/ \E says \in Sentence, about \in Arg :
           req' = [req EXCEPT ![t] = Listed(t, Says(r, says, about))]
  BY <1>1 DEF Remove, Becomes, Sentence
<1>3. QED
  BY <1>1, <1>2, WrittenStep, RefusedStep

LEMMA CreateStep == ASSUME Types, NEW t \in Tab, Create(t) PROVE Handled(t)
<1> DEFINE r == req[t]
           w == [r EXCEPT !.wrote = TRUE]
<1>1. UNCHANGED <<jar, page>> /\ r.call = "create" /\ ~Idle(t) /\ ~At(t, "begin")
  BY DEF Create, At, Idle
<1>2. \/ \E s \in {Redirects(w), Listed(t, Says(w, "failed", None)), Shows(w, "message")} :
           req' = [req EXCEPT ![t] = s]
      \/ req' = [req EXCEPT ![t] = Shows(r, "message")]
      \/ \E says \in Sentence : req' = [req EXCEPT ![t] = Calls(Says(r, says, None), "spaces")]
  BY DEF Create, Becomes, Unanswered, Sentence
<1>3. CASE \E says \in Sentence : req' = [req EXCEPT ![t] = Calls(Says(r, says, None), "spaces")]
  <2>1. PICK says \in Sentence : req' = [req EXCEPT ![t] = Calls(Says(r, says, None), "spaces")]
    BY <1>3
  <2> DEFINE u == Says(r, says, None)
             s == Calls(u, "spaces")
  <2>2. r \in RequestSet /\ PageNames(r.page) /\ CallFits(r) /\ r.wrote # TRUE
    BY <1>1, AtCall DEF Told
  <2>3. /\ Kept(r, u) /\ u.wrote = r.wrote /\ u.page.screen = r.page.screen
        /\ u.page.arg = r.page.arg /\ u.page.again = r.page.again
    <3>1. None \in Arg
      BY DEF Arg, None
    <3>2. QED
      BY <2>2, <3>1, SaysFact
  <2> HIDE DEF u
  <2>4. Kept(u, s) /\ s.call = "spaces" /\ s.wrote = u.wrote /\ s.page = u.page
    <3>1. u \in RequestSet /\ "spaces" \in Call
      BY <2>3 DEF Kept, Call
    <3>2. QED
      BY <3>1, CallsFact
  <2> HIDE DEF s
  <2>5. Kept(r, s)
    BY <2>3, <2>4, KeptTwice
  <2>6. PageNames(s.page) /\ CallFits(s) /\ Told(s)
    BY <2>2, <2>3, <2>4, <2>5 DEF Kept, PageNames, CallFits, Told
  <2>7. req' = [req EXCEPT ![t] = s]
    BY <2>1 DEF s, u
  <2>8. QED
    BY <1>1, <2>4, <2>5, <2>6, <2>7, HandledBy
<1>4. QED
  BY <1>1, <1>2, <1>3, WrittenStep, MessageStep

LEMMA ResolveStep == ASSUME Types, NEW t \in Tab, Resolve(t) PROVE Handled(t)
<1> DEFINE r == req[t]
           u == [r EXCEPT !.id = repos[r.arg]]
           s == Calls(u, "administers")
<1>1. /\ UNCHANGED <<jar, page, repos, lastId>> /\ r.call = "resolve"
      /\ ~Idle(t) /\ ~At(t, "begin")
  BY DEF Resolve, At, Idle, service
<1>2. \/ repos[r.arg] # None /\ req' = [req EXCEPT ![t] = s]
      \/ req' = [req EXCEPT ![t] = Shows(r, "message")]
  BY DEF Resolve, Becomes
<1>3. CASE repos[r.arg] # None /\ req' = [req EXCEPT ![t] = s]
  <2>1. /\ r \in RequestSet /\ PageNames(r.page) /\ CallFits(r) /\ Told(r)
        /\ r.op \in {"delete", "deletion"} /\ r.arg \in Name
    BY <1>1, AtCall DEF CallFits, Naming
  <2>2. Kept(r, u) /\ u.id = repos[r.arg] /\ u.wrote = r.wrote /\ u.page = r.page /\ u \in RequestSet
    <3>1. repos[r.arg] \in Nat
      BY <2>1 DEF Types
    <3>2. \A i \in Nat : LET v == [r EXCEPT !.id = i] IN
            Kept(r, v) /\ v.id = i /\ v.wrote = r.wrote /\ v.page = r.page /\ v \in RequestSet
      BY <2>1 DEF Kept, RequestSet
    <3>3. QED
      BY <3>1, <3>2
  <2> HIDE DEF u
  <2>3. Kept(u, s) /\ s.call = "administers" /\ s.wrote = u.wrote /\ s.page = u.page /\ s.id = u.id
    <3>1. "administers" \in Call
      BY DEF Call
    <3>2. QED
      BY <2>2, <3>1, CallsFact
  <2> HIDE DEF s
  <2>4. Kept(r, s)
    BY <2>2, <2>3, KeptTwice
  <2>5. PageNames(s.page) /\ CallFits(s) /\ Told(s)
    <3>1. s.op = r.op /\ s.arg = r.arg /\ s.page = r.page /\ s.wrote = r.wrote
      BY <2>2, <2>3, <2>4 DEF Kept
    <3>2. PageNames(s.page)
      BY <2>1, <3>1 DEF PageNames
    <3>3. CallFits(s)
      BY <2>1, <2>3, <3>1 DEF CallFits
    <3>4. r.page.says = "" /\ r.wrote = FALSE
      BY <1>1, <2>1 DEF Told
    <3>5. Told(s)
      BY <2>3, <3>1, <3>4 DEF Told
    <3>6. QED
      BY <3>2, <3>3, <3>5
  <2>6. Stage(t, s) /\ RequestOK(s)
    <3>1. Stage(t, r)
      BY <1>1, StageSelf
    <3>2. Stage(t, s)
      BY <2>4, <3>1, StageKept
    <3>3. Given(s)
      BY <3>2 DEF Stage
    <3>4. QED
      BY <2>5, <3>2, <3>3 DEF RequestOK
  <2>7. s.id = repos[s.arg] /\ s.id # None /\ s.arg \in Name /\ s \in RequestSet
    BY <1>3, <2>1, <2>2, <2>3, <2>4 DEF Kept
  <2>8. QED
    BY <1>1, <1>3, <2>3, <2>6, <2>7 DEF Handled
<1>4. QED
  BY <1>1, <1>2, <1>3, MessageStep

\* The delete screen, drawn after the name was resolved.
LEMMA ShowsDeleteStep ==
  ASSUME Types, NEW t \in Tab, req[t].call \in {"administers", "forget"},
         UNCHANGED <<jar, page>>, NEW says \in {"", "refused"},
         req' = [req EXCEPT ![t] = ShowsDelete([req[t] EXCEPT !.page.says = says])]
  PROVE  Handled(t)
<1> DEFINE r == req[t]
           u == [r EXCEPT !.page.says = says]
           v == Shows(u, "delete")
           s == ShowsDelete(u)
<1>1. ~Idle(t) /\ ~At(t, "begin")
  BY DEF At, Idle
<1>2. /\ r \in RequestSet /\ CallFits(r) /\ r.wrote # TRUE
      /\ r.arg \in Name /\ r.arg \in Arg /\ r.id \in Arg
  BY <1>1, AtCall DEF CallFits, Told, Naming, RequestSet, Arg
<1>3. Kept(r, u) /\ u.wrote = r.wrote /\ u \in RequestSet
  BY <1>2 DEF Kept, RequestSet, PageSet, Sentence
<1> HIDE DEF u
<1>4. Kept(u, v) /\ v.call = "answer" /\ v.wrote = u.wrote /\ v.page.screen = "delete" /\ v \in RequestSet
  <2>1. "delete" \in Screen
    BY DEF Screen
  <2>2. Kept(u, v) /\ v.call = "answer" /\ v.wrote = u.wrote /\ v.page.screen = "delete"
    BY <1>3, <2>1, ShowsFact
  <2>3. QED
    BY <2>2 DEF Kept
<1> HIDE DEF v
<1>5. u.arg = r.arg /\ u.id \in Arg /\ u.arg \in Arg
  BY <1>2, <1>3 DEF Kept, RequestSet, Arg
<1>6. Kept(v, s) /\ s.call = "answer" /\ s.wrote = v.wrote /\ s.page.arg = r.arg
  BY <1>4, <1>5 DEF Kept, RequestSet, PageSet, ShowsDelete, v
<1> HIDE DEF s
<1>7. Kept(r, s)
  BY <1>3, <1>4, <1>6, KeptTwice
<1>8. s.page.screen = "delete"
  BY <1>4 DEF s, v, ShowsDelete, RequestSet, PageSet
<1>9. PageNames(s.page) /\ CallFits(s) /\ Told(s)
  BY <1>2, <1>3, <1>4, <1>6, <1>7 DEF Kept, PageNames, CallFits, Told
<1>10. QED
  BY <1>1, <1>6, <1>7, <1>8, <1>9, HandledBy DEF s, u

LEMMA AdministersStep == ASSUME Types, NEW t \in Tab, Administers(t) PROVE Handled(t)
<1> DEFINE r == req[t]
           s == Calls(r, "forget")
           u == [r EXCEPT !.page.says = "refused"]
<1>1. /\ UNCHANGED <<jar, page, repos, lastId>> /\ r.call = "administers"
      /\ ~Idle(t) /\ ~At(t, "begin") /\ At(t, "administers")
  BY DEF Administers, At, Idle, service
<1>2. /\ r \in RequestSet /\ PageNames(r.page) /\ CallFits(r) /\ Told(r)
      /\ r.op \in {"delete", "deletion"} /\ r.arg \in Name /\ r.page.says = "" /\ r.wrote = FALSE
  BY <1>1, AtCall DEF CallFits, Told, Naming
<1>3. r = [r EXCEPT !.page.says = ""]
  BY <1>2 DEF RequestSet, PageSet
<1>4. \/ req' = [req EXCEPT ![t] = ShowsDelete(r)]
      \/ req' = [req EXCEPT ![t] = ShowsDelete(u)]
      \/ r.op = "deletion" /\ r.typed = TRUE /\ req' = [req EXCEPT ![t] = s]
      \/ req' = [req EXCEPT ![t] = Shows(r, "message")]
  <2>1. r.typed \in BOOLEAN
    BY <1>2 DEF RequestSet
  <2>2. QED
    BY <1>2, <2>1 DEF Administers, Becomes
<1>5. CASE req' = [req EXCEPT ![t] = ShowsDelete(r)]
  <2>1. req' = [req EXCEPT ![t] = ShowsDelete([r EXCEPT !.page.says = ""])]
    BY <1>3, <1>5
  <2>2. QED
    BY <1>1, <2>1, ShowsDeleteStep
<1>6. CASE req' = [req EXCEPT ![t] = ShowsDelete(u)]
  BY <1>1, <1>6, ShowsDeleteStep
<1>7. CASE r.op = "deletion" /\ r.typed = TRUE /\ req' = [req EXCEPT ![t] = s]
  <2>1. Kept(r, s) /\ s.call = "forget" /\ s.wrote = r.wrote /\ s.page = r.page /\ s.id = r.id
    <3>1. "forget" \in Call
      BY DEF Call
    <3>2. QED
      BY <1>2, <3>1, CallsFact
  <2> HIDE DEF s
  <2>2. s.op = r.op /\ s.arg = r.arg /\ s.typed = r.typed /\ s \in RequestSet
    BY <2>1 DEF Kept
  <2>3. PageNames(s.page)
    BY <1>2, <2>1 DEF PageNames
  <2>4. CallFits(s)
    BY <1>2, <1>7, <2>1, <2>2 DEF CallFits
  <2>5. Told(s)
    BY <1>2, <2>1 DEF Told
  <2>6. Stage(t, s) /\ RequestOK(s)
    <3>1. Stage(t, r)
      BY <1>1, StageSelf
    <3>2. Stage(t, s)
      BY <2>1, <3>1, StageKept
    <3>3. Given(s)
      BY <3>2 DEF Stage
    <3>4. QED
      BY <2>3, <2>4, <2>5, <3>2, <3>3 DEF RequestOK
  <2>7. QED
    BY <1>1, <1>7, <2>1, <2>2, <2>6 DEF Handled
<1>8. CASE req' = [req EXCEPT ![t] = Shows(r, "message")]
  BY <1>1, <1>8, MessageStep
<1>9. QED
  BY <1>4, <1>5, <1>6, <1>7, <1>8

LEMMA ForgetStep == ASSUME Types, NEW t \in Tab, Forget(t) PROVE Handled(t)
<1> DEFINE r == req[t]
           w == [r EXCEPT !.wrote = TRUE]
<1>1. /\ UNCHANGED <<jar, page>> /\ r.call = "forget" /\ ~Idle(t) /\ ~At(t, "begin")
  BY DEF Forget, At, Idle
<1>2. \/ \E s \in {Redirects(w), Listed(t, Says(w, "failed", None)), Shows(w, "message")} :
           req' = [req EXCEPT ![t] = s]
      \/ req' = [req EXCEPT ![t] = ShowsDelete([r EXCEPT !.page.says = "refused"])]
      \/ req' = [req EXCEPT ![t] = Shows(r, "message")]
  BY DEF Forget, Becomes
<1>3. QED
  BY <1>1, <1>2, WrittenStep, MessageStep, ShowsDeleteStep

LEMMA HandleStep == ASSUME Types, NEW t \in Tab, Handle(t) PROVE Handled(t)
BY RefuseStep, SignOutStep, BeginStep, ListStep, ParseStep, AddStep, RemoveStep, SpacesStep,
   CreateStep, ResolveStep, AdministersStep, ForgetStep DEF Handle

----------------------------------------------------------------------------
\* An answer applied: the page is shown, or a redirect is followed.
Received(t) ==
  \E p \in PageSet, s \in RequestSet :
    /\ page' = [page EXCEPT ![t] = p] /\ req' = [req EXCEPT ![t] = s]
    /\ PageNames(p) /\ RequestOK(s) /\ ~Idle(t)
    /\ jar' = IF req[t].given # None THEN req[t].given ELSE jar
    /\ \/ /\ At(t, "answer") /\ s = NoRequest
          /\ p.fresh = req[t].page.fresh /\ p.token = req[t].page.token
       \/ /\ p.fresh = FALSE /\ s.op \notin Post /\ s.call = "begin"
          /\ s.cookie = jar /\ s.given = None /\ (s.page.fresh = TRUE => Settled)

Lost(t) ==
  /\ ~Idle(t) /\ req' = [req EXCEPT ![t] = NoRequest] /\ jar' = jar
  /\ page' = [page EXCEPT ![t].again = "none"]

LEMMA LoseStep == ASSUME NEW t \in Tab, Lose(t) PROVE Lost(t)
BY DEF Lose, Lost, Becomes, Idle

LEMMA ReceiveStep == ASSUME Types, NEW t \in Tab, Receive(t) PROVE Received(t)
<1> DEFINE r == req[t]
           q == r.page
<1>1. /\ r \in RequestSet /\ RequestOK(r) /\ q \in PageSet /\ PageNames(q)
      /\ jar' = IF r.given # None THEN r.given ELSE jar
  BY DEF Types, RequestSet, RequestOK, Receive
<1>2. CASE /\ At(t, "answer") /\ page' = [page EXCEPT ![t] = Trying(q)]
           /\ req' = [req EXCEPT ![t] = NoRequest]
  <2> DEFINE p == Trying(q)
  <2>1. PICK a \in {q.again, "none"} : p = [q EXCEPT !.again = a] /\ (q.screen = "expired" => a = q.again)
    BY DEF Trying
  <2> HIDE DEF p
  <2>2. p \in PageSet /\ PageNames(p) /\ p.fresh = q.fresh /\ p.token = q.token
    BY <1>1, <2>1 DEF PageSet, PageNames, Again
  <2>3. NoRequest \in RequestSet /\ RequestOK(NoRequest) /\ ~Idle(t)
    BY <1>2, BlankType DEF At, Idle
  <2>4. page' = [page EXCEPT ![t] = p]
    BY <1>2 DEF p
  <2>5. QED
    BY <1>1, <1>2, <2>2, <2>3, <2>4 DEF Received
<1>3. CASE /\ At(t, "redirect") /\ page' = [page EXCEPT ![t] = Blank]
           /\ req' = [req EXCEPT ![t] = Sent(t, IF r.op \in {"add", "removal"} THEN "keys" ELSE "home", None)]
  <2> DEFINE op == IF r.op \in {"add", "removal"} THEN "keys" ELSE "home"
             s == Sent(t, op, None)
  <2>1. op \in Op \ {"none"} /\ op \notin Naming /\ op \notin Post /\ None \in Arg
    BY DEF Op, Fetch, Post, Naming, Arg, None
  <2> HIDE DEF op
  <2>2. /\ s \in RequestSet /\ RequestOK(s) /\ s.op = op /\ s.call = "begin"
        /\ s.cookie = jar /\ s.given = None /\ s.page.fresh = Settled
    BY <2>1, SentType
  <2>3. Blank \in PageSet /\ PageNames(Blank) /\ Blank.fresh = FALSE /\ ~Idle(t)
    BY <1>3, BlankType DEF Blank, At, Idle
  <2>4. req' = [req EXCEPT ![t] = s] /\ page' = [page EXCEPT ![t] = Blank]
    BY <1>3 DEF op
  <2> HIDE DEF s
  <2>5. QED
    BY <1>1, <2>1, <2>2, <2>3, <2>4 DEF Received
<1>4. QED
  BY <1>2, <1>3 DEF Receive, Becomes

\* How the service moves in any step.
Moved ==
  /\ keys' \subseteq [key : Arg, id : Nat]
  /\ \/ UNCHANGED <<repos, lastId>>
     \/ lastId' = lastId /\ \E n \in Name : repos' = [repos EXCEPT ![n] = None]
     \/ lastId' = lastId + 1 /\ repos' = repos
     \/ lastId' = lastId + 1 /\ \E n \in Name : repos' = [repos EXCEPT ![n] = lastId']

LEMMA HandleMoves == ASSUME Types, NEW t \in Tab, Handle(t) PROVE Moved
<1>1. CASE UNCHANGED service
  BY <1>1 DEF service, Moved, Types
<1>2. req[t] \in RequestSet /\ req[t].arg \in Arg
  BY DEF Types, RequestSet
<1>3. CASE Add(t)
  BY <1>2, <1>3 DEF Add, Moved, Types, service
<1>4. CASE Remove(t)
  BY <1>4 DEF Remove, Moved, Types, service
<1>5. CASE Create(t)
  <2>1. req[t].arg \in Name
    BY <1>5, AtCall DEF Create, At, Idle, CallFits, Naming
  <2>2. QED
    BY <1>5, <2>1 DEF Create, Moved, Types, service
<1>6. CASE Forget(t)
  BY <1>6 DEF Forget, Forgets, Moved, Types, service
<1>7. CASE Refuse(t) \/ SignOut(t) \/ Begin(t) \/ List(t) \/ Parse(t) \/ Spaces(t) \/ Resolve(t)
           \/ Administers(t)
  BY <1>1, <1>7 DEF Refuse, SignOut, Begin, List, Parse, Spaces, Resolve, Administers
<1>8. QED
  BY <1>3, <1>4, <1>5, <1>6, <1>7 DEF Handle

LEMMA IssuedKept == ASSUME Types, NEW t \in Tab, Handle(t) PROVE issued' \in Nat
<1>1. CASE Begin(t)
  BY <1>1, BeginStep
<1>2. CASE UNCHANGED issued
  BY <1>2 DEF Types
<1>3. QED
  BY <1>1, <1>2 DEF Handle, Refuse, SignOut, List, Parse, Add, Remove, Spaces, Create, Resolve,
                    Administers, Forget

\* What any step is.
Step ==
  \/ \E t \in Tab : SendStep(t) \/ Handled(t) \/ Received(t) \/ Lost(t)
  \/ UNCHANGED <<jar, page, req>>

LEMMA NextStep == ASSUME Types, [Next]_vars PROVE Step /\ Moved /\ issued' \in Nat
<1> USE DEF Step
<1>1. CASE UNCHANGED vars
  BY <1>1 DEF vars, Moved, Types
<1>2. CASE Elsewhere
  <2>1. UNCHANGED <<jar, issued, page, req>>
    BY <1>2 DEF Elsewhere
  <2>2. Key \subseteq Arg
    BY DEF Arg
  <2>3. Moved
    BY <1>2, <2>2 DEF Elsewhere, Moved, Types
  <2>4. QED
    BY <2>1, <2>3 DEF Types
<1>3. ASSUME NEW t \in Tab, Open(t) \/ Submit(t) \/ GoBack(t) \/ Retry(t)
      PROVE  Step /\ Moved /\ issued' \in Nat
  <2>1. SendStep(t)
    BY <1>3, OpenStep, SubmitStep, GoBackStep, RetryStep
  <2>2. UNCHANGED <<issued, keys, repos, lastId>>
    BY <2>1 DEF SendStep
  <2>3. QED
    BY <2>1, <2>2 DEF Moved, Types
<1>4. ASSUME NEW t \in Tab, Handle(t)
      PROVE  Step /\ Moved /\ issued' \in Nat
  BY <1>4, HandleStep, HandleMoves, IssuedKept
<1>5. ASSUME NEW t \in Tab, Receive(t) \/ Lose(t)
      PROVE  Step /\ Moved /\ issued' \in Nat
  <2>1. Received(t) \/ Lost(t)
    BY <1>5, ReceiveStep, LoseStep
  <2>2. UNCHANGED <<issued, keys, repos, lastId>>
    BY <1>5 DEF Receive, Lose, service
  <2>3. QED
    BY <2>1, <2>2 DEF Moved, Types
<1>6. QED
  BY <1>1, <1>2, <1>3, <1>4, <1>5 DEF Next

----------------------------------------------------------------------------
\* A page put in the place of t's.
LEMMA PageKept ==
  ASSUME Types, NEW t \in Tab, page' = page \/ page' = [page EXCEPT ![t].again = "none"]
  PROVE  /\ page' \in [Tab -> PageSet] /\ \A u \in Tab : PageNames(page'[u])
         /\ \A u \in Tab : page'[u].fresh = page[u].fresh /\ page'[u].token = page[u].token
<1>1. page \in [Tab -> PageSet] /\ \A u \in Tab : PageNames(page[u])
  BY DEF Types
<1>2. CASE page' = page
  BY <1>1, <1>2
<1>3. CASE page' = [page EXCEPT ![t].again = "none"]
  <2> DEFINE p == [page[t] EXCEPT !.again = "none"]
  <2>1. /\ p \in PageSet /\ p.fresh = page[t].fresh /\ p.token = page[t].token
        /\ p.screen = page[t].screen /\ p.arg = page[t].arg /\ p.again = "none"
    BY <1>1 DEF PageSet, Again
  <2>2. page' = [page EXCEPT ![t] = p]
    BY <1>1, <1>3
  <2> HIDE DEF p
  <2>3. PageNames(p)
    BY <1>1, <2>1 DEF PageNames
  <2>4. QED
    BY <1>1, <2>1, <2>2, <2>3
<1>4. QED
  BY <1>2, <1>3

LEMMA TypesStep == ASSUME Types, Step, Moved, issued' \in Nat PROVE Types'
<1>1. /\ keys' \subseteq [key : Arg, id : Nat] /\ repos' \in [Name -> Nat] /\ lastId' \in Nat
  BY DEF Types, Moved, None
<1>2. ASSUME NEW t \in Tab, SendStep(t) PROVE Types'
  <2>1. PICK r \in RequestSet :
               /\ req' = [req EXCEPT ![t] = r] /\ RequestOK(r) /\ jar' = jar
               /\ page' = page \/ page' = [page EXCEPT ![t].again = "none"]
    BY <1>2 DEF SendStep
  <2>2. req' \in [Tab -> RequestSet] /\ \A u \in Tab : RequestOK(req'[u])
    BY <2>1, TypesKept
  <2>3. page' \in [Tab -> PageSet] /\ \A u \in Tab : PageNames(page'[u])
    BY <2>1, PageKept
  <2>4. QED
    BY <1>1, <2>1, <2>2, <2>3 DEF Types
<1>3. ASSUME NEW t \in Tab, Handled(t) PROVE Types'
  <2>1. PICK r \in RequestSet : req' = [req EXCEPT ![t] = r] /\ RequestOK(r)
    BY <1>3 DEF Handled
  <2>2. req' \in [Tab -> RequestSet] /\ \A u \in Tab : RequestOK(req'[u])
    BY <2>1, TypesKept
  <2>3. jar' = jar /\ page' = page
    BY <1>3 DEF Handled
  <2>4. QED
    BY <1>1, <2>2, <2>3 DEF Types
<1>4. ASSUME NEW t \in Tab, Received(t) PROVE Types'
  <2>1. PICK p \in PageSet, r \in RequestSet :
               /\ page' = [page EXCEPT ![t] = p] /\ req' = [req EXCEPT ![t] = r]
               /\ PageNames(p) /\ RequestOK(r)
    BY <1>4 DEF Received
  <2>2. req' \in [Tab -> RequestSet] /\ \A u \in Tab : RequestOK(req'[u])
    BY <2>1, TypesKept
  <2>3. page' \in [Tab -> PageSet] /\ \A u \in Tab : PageNames(page'[u])
    BY <2>1 DEF Types
  <2>4. jar' \in Nat
    BY <1>4 DEF Received, Types, RequestSet
  <2>5. QED
    BY <1>1, <2>2, <2>3, <2>4 DEF Types
<1>5. ASSUME NEW t \in Tab, Lost(t) PROVE Types'
  <2>1. req' \in [Tab -> RequestSet] /\ \A u \in Tab : RequestOK(req'[u])
    BY <1>5, BlankType, TypesKept DEF Lost
  <2>2. page' \in [Tab -> PageSet] /\ (\A u \in Tab : PageNames(page'[u])) /\ jar' = jar
    BY <1>5, PageKept DEF Lost
  <2>3. QED
    BY <1>1, <2>1, <2>2 DEF Types
<1>6. CASE UNCHANGED <<jar, page, req>>
  BY <1>1, <1>6 DEF Types
<1>7. QED
  BY <1>2, <1>3, <1>4, <1>5, <1>6 DEF Step

LEMMA InitTypes == ASSUME Init PROVE Types
<1>1. page \in [Tab -> PageSet] /\ req \in [Tab -> RequestSet]
      /\ \A t \in Tab : PageNames(page[t]) /\ RequestOK(req[t])
  BY BlankType DEF Init
<1>2. QED
  BY <1>1 DEF Init, Types, None

THEOREM TypesHold == Spec => []Types
<1>1. Types /\ [Next]_vars => Types'
  BY NextStep, TypesStep
<1>2. QED
  BY <1>1, InitTypes, PTL DEF Spec

----------------------------------------------------------------------------
\* AnswerTrue: an invariant of every request from the first call on.
THEOREM AnswersAreTrue == Spec => []AnswerTrue
<1>1. Types => AnswerTrue
  <2> SUFFICES ASSUME Types, NEW t \in Tab, Told(req[t])
               PROVE  /\ At(t, "redirect") => req[t].wrote
                      /\ At(t, "answer") /\ req[t].page.says \in {"yours", "taken", "absent", "refused"}
                           => ~req[t].wrote
    BY DEF Types, RequestOK, AnswerTrue
  <2>1. req[t].wrote \in BOOLEAN
    BY DEF Types, RequestSet
  <2>2. QED
    BY <2>1 DEF Told, At
<1>2. QED
  BY <1>1, TypesHold, PTL

----------------------------------------------------------------------------
\* The page a tab shows, or is waiting for, since the browser had its token;
\* and a form sent from such a page.
FreshPage(t) == page[t].fresh = TRUE => Settled /\ page[t].token = jar
FreshAsked(t) ==
  ~Idle(t) /\ req[t].page.fresh = TRUE =>
    Settled /\ req[t].cookie = jar /\ (~At(t, "begin") => req[t].page.token = jar)
FreshSent(t) ==
  ~Idle(t) /\ req[t].op \in Post /\ req[t].fresh = TRUE =>
    Settled /\ req[t].cookie = jar /\ req[t].token = jar
FreshAnswered(t) ==
  req[t].call = "answer" /\ req[t].page.screen = "expired" =>
    req[t].op \in Post /\ req[t].fresh # TRUE

Fresh == \A t \in Tab : FreshPage(t) /\ FreshAsked(t) /\ FreshSent(t) /\ FreshAnswered(t)

\* Once the browser has its token, it keeps it: every request carries it.
LEMMA SettledKept == ASSUME Types, Step, Settled PROVE Settled' /\ jar' = jar
<1>1. jar # None /\ \A u \in Tab : ~Idle(u) => req[u].cookie # None
  BY DEF Settled
<1>2. req \in [Tab -> RequestSet] /\ \A u \in Tab : RequestOK(req[u])
  BY DEF Types
<1>3. ASSUME NEW t \in Tab, SendStep(t) PROVE Settled' /\ jar' = jar
  <2>1. PICK r \in RequestSet : req' = [req EXCEPT ![t] = r] /\ jar' = jar /\ r.cookie = jar
    BY <1>3 DEF SendStep
  <2>2. QED
    BY <1>1, <1>2, <2>1 DEF Settled, Idle
<1>4. ASSUME NEW t \in Tab, Handled(t) PROVE Settled' /\ jar' = jar
  <2>1. PICK s \in RequestSet : req' = [req EXCEPT ![t] = s] /\ Stage(t, s)
    BY <1>4 DEF Handled
  <2>2. s.cookie = req[t].cookie /\ jar' = jar /\ ~Idle(t)
    BY <1>4, <2>1 DEF Stage, Handled
  <2>3. QED
    BY <1>1, <1>2, <2>1, <2>2 DEF Settled, Idle
<1>5. ASSUME NEW t \in Tab, Received(t) PROVE Settled' /\ jar' = jar
  <2>1. jar' = jar
    BY <1>1, <1>2, <1>5 DEF Received, RequestOK, Given
  <2>2. PICK s \in RequestSet :
               req' = [req EXCEPT ![t] = s] /\ (s.call = "none" \/ s.cookie = jar)
    <3>1. NoRequest.call = "none"
      BY DEF NoRequest
    <3>2. QED
      BY <1>5, <3>1 DEF Received
  <2>3. QED
    BY <1>1, <1>2, <2>1, <2>2 DEF Settled, Idle
<1>6. ASSUME NEW t \in Tab, Lost(t) PROVE Settled' /\ jar' = jar
  <2>1. NoRequest.call = "none"
    BY DEF NoRequest
  <2>2. QED
    BY <1>1, <1>2, <1>6, <2>1 DEF Settled, Idle, Lost
<1>7. CASE UNCHANGED <<jar, page, req>>
  BY <1>1, <1>7 DEF Settled, Idle
<1>8. QED
  BY <1>3, <1>4, <1>5, <1>6, <1>7 DEF Step

\* What one tab does leaves the others fresh.
LEMMA FreshElsewhere ==
  ASSUME Types, Step, Fresh, NEW u \in Tab, req'[u] = req[u],
         page'[u].fresh = page[u].fresh, page'[u].token = page[u].token
  PROVE  FreshPage(u)' /\ FreshAsked(u)' /\ FreshSent(u)' /\ FreshAnswered(u)'
<1>1. FreshPage(u) /\ FreshAsked(u) /\ FreshSent(u) /\ FreshAnswered(u)
  BY DEF Fresh
<1>2. FreshPage(u)'
  BY <1>1, SettledKept DEF FreshPage
<1>3. FreshAsked(u)'
  BY <1>1, SettledKept DEF FreshAsked, Idle, At
<1>4. FreshSent(u)'
  BY <1>1, SettledKept DEF FreshSent, Idle
<1>5. FreshAnswered(u)'
  BY <1>1 DEF FreshAnswered
<1>6. QED
  BY <1>2, <1>3, <1>4, <1>5

LEMMA FreshStep == ASSUME Types, Fresh, Step PROVE Fresh'
<1>1. page \in [Tab -> PageSet] /\ req \in [Tab -> RequestSet]
  BY DEF Types
<1>2. ASSUME NEW t \in Tab, SendStep(t) PROVE Fresh'
  <2>1. PICK r \in RequestSet :
               /\ req' = [req EXCEPT ![t] = r] /\ RequestOK(r) /\ jar' = jar
               /\ page' = page \/ page' = [page EXCEPT ![t].again = "none"]
               /\ r.call = "begin" /\ r.cookie = jar /\ (r.page.fresh = TRUE => Settled)
               /\ r.op \in Post => r.token = page[t].token /\ r.fresh = page[t].fresh
    BY <1>2 DEF SendStep
  <2>2. \A u \in Tab : page'[u].fresh = page[u].fresh /\ page'[u].token = page[u].token
    BY <2>1, PageKept
  <2>3. \A u \in Tab : u # t => req'[u] = req[u]
    BY <1>1, <2>1
  <2>4. req'[t] = r
    BY <1>1, <2>1
  <2>5. FreshPage(t)
    BY DEF Fresh
  <2>6. FreshPage(t)' /\ FreshAsked(t)'
    BY <2>1, <2>2, <2>4, <2>5, SettledKept DEF FreshPage, FreshAsked, Idle, At
  <2>7. FreshSent(t)' /\ FreshAnswered(t)'
    BY <2>1, <2>4, <2>5, SettledKept DEF FreshPage, FreshSent, FreshAnswered, Idle
  <2>8. QED
    BY <2>2, <2>3, <2>6, <2>7, FreshElsewhere DEF Fresh
<1>3. ASSUME NEW t \in Tab, Handled(t) PROVE Fresh'
  <2>1. PICK s \in RequestSet :
               /\ req' = [req EXCEPT ![t] = s] /\ Stage(t, s) /\ s.call \notin {"none", "begin"}
               /\ s.call = "answer" /\ s.page.screen = "expired" =>
                    At(t, "begin") /\ req[t].op \in Post /\ ~CSRFValid(req[t])
    BY <1>3 DEF Handled
  <2>2. ~Idle(t) /\ jar' = jar /\ page' = page
    BY <1>3 DEF Handled
  <2>3. req'[t] = s /\ \A u \in Tab : u # t => req'[u] = req[u]
    BY <1>1, <2>1
  <2>4. /\ s.op = req[t].op /\ s.token = req[t].token /\ s.fresh = req[t].fresh
        /\ s.cookie = req[t].cookie
        /\ s.page.fresh = TRUE =>
             /\ req[t].page.fresh = TRUE
             /\ At(t, "begin") /\ req[t].cookie # None => s.page.token = req[t].cookie
             /\ ~At(t, "begin") => s.page.token = req[t].page.token
    BY <2>1 DEF Stage
  <2>5. FreshPage(t) /\ FreshAsked(t) /\ FreshSent(t)
    BY DEF Fresh
  <2>6. FreshPage(t)'
    BY <2>2, <2>5, SettledKept DEF FreshPage
  <2>7. FreshAsked(t)'
    <3>1. SUFFICES ASSUME req'[t].page.fresh = TRUE
                   PROVE  Settled' /\ req'[t].cookie = jar' /\ req'[t].page.token = jar'
      BY DEF FreshAsked
    <3>2. Settled /\ req[t].cookie = jar /\ (~At(t, "begin") => req[t].page.token = jar)
      BY <2>2, <2>3, <2>4, <2>5, <3>1 DEF FreshAsked
    <3>3. jar # None /\ jar' = jar /\ Settled'
      BY <3>2, SettledKept DEF Settled
    <3>4. QED
      BY <2>3, <2>4, <3>1, <3>2, <3>3
  <2>8. FreshSent(t)'
    BY <2>2, <2>3, <2>4, <2>5, SettledKept DEF FreshSent
  <2>9. FreshAnswered(t)'
    BY <2>1, <2>2, <2>3, <2>4, <2>5 DEF FreshAnswered, FreshSent, CSRFValid, Settled
  <2>10. QED
    BY <2>2, <2>3, <2>6, <2>7, <2>8, <2>9, FreshElsewhere DEF Fresh
<1>4. ASSUME NEW t \in Tab, Received(t) PROVE Fresh'
  <2>1. PICK p \in PageSet, s \in RequestSet :
               /\ page' = [page EXCEPT ![t] = p] /\ req' = [req EXCEPT ![t] = s]
               /\ \/ /\ At(t, "answer") /\ s = NoRequest
                     /\ p.fresh = req[t].page.fresh /\ p.token = req[t].page.token
                  \/ /\ p.fresh = FALSE /\ s.op \notin Post /\ s.call = "begin"
                     /\ s.cookie = jar /\ (s.page.fresh = TRUE => Settled)
    BY <1>4 DEF Received
  <2>2. req'[t] = s /\ page'[t] = p
    BY <1>1, <2>1
  <2>3. \A u \in Tab : u # t => req'[u] = req[u] /\ page'[u] = page[u]
    BY <1>1, <2>1
  <2>4. NoRequest.call = "none"
    BY DEF NoRequest
  <2>5. FreshAsked(t) /\ ~Idle(t)
    BY <1>4 DEF Fresh, Received
  <2>6. FreshPage(t)'
    BY <2>1, <2>2, <2>5, SettledKept DEF FreshPage, FreshAsked, At
  <2>7. FreshAsked(t)' /\ FreshSent(t)' /\ FreshAnswered(t)'
    BY <2>1, <2>2, <2>4, SettledKept DEF FreshAsked, FreshSent, FreshAnswered, Idle, At
  <2>8. QED
    BY <2>3, <2>6, <2>7, FreshElsewhere DEF Fresh
<1>5. ASSUME NEW t \in Tab, Lost(t) PROVE Fresh'
  <2>1. \A u \in Tab : page'[u].fresh = page[u].fresh /\ page'[u].token = page[u].token
    BY <1>5, PageKept DEF Lost
  <2>2. req'[t] = NoRequest /\ (\A u \in Tab : u # t => req'[u] = req[u]) /\ NoRequest.call = "none"
    BY <1>1, <1>5 DEF Lost, NoRequest
  <2>3. FreshPage(t)
    BY DEF Fresh
  <2>4. FreshPage(t)' /\ FreshAsked(t)' /\ FreshSent(t)' /\ FreshAnswered(t)'
    BY <2>1, <2>2, <2>3, SettledKept DEF FreshPage, FreshAsked, FreshSent, FreshAnswered, Idle
  <2>5. QED
    BY <2>1, <2>2, <2>4, FreshElsewhere DEF Fresh
<1>6. CASE UNCHANGED <<jar, page, req>>
  BY <1>6, FreshElsewhere DEF Fresh
<1>7. QED
  BY <1>2, <1>3, <1>4, <1>5, <1>6 DEF Step

\* FreshFormValid: the token of a page asked for when the browser had one is
\* the browser's, and stays so.
THEOREM FreshFormsAreValid == Spec => []FreshFormValid
<1>1. Init => Fresh
  <2>1. Blank.fresh = FALSE /\ NoRequest.call = "none"
    BY DEF Blank, NoRequest
  <2>2. QED
    BY <2>1 DEF Init, Fresh, FreshPage, FreshAsked, FreshSent, FreshAnswered, Idle
<1>2. Types /\ Fresh /\ [Next]_vars => Fresh'
  BY NextStep, FreshStep
<1>3. Types /\ Fresh => FreshFormValid
  <2>1. ASSUME Types, NEW t \in Tab PROVE req[t].fresh \in BOOLEAN
    BY <2>1 DEF Types, RequestSet
  <2>2. QED
    BY <2>1 DEF Fresh, FreshAnswered, FreshFormValid
<1>4. QED
  BY <1>1, <1>2, <1>3, TypesHold, PTL DEF Spec

----------------------------------------------------------------------------
\* Ids are not used twice, no two names bear one, and a deletion under way is
\* of the repository its name bore, which no other name bears since.
Resolved(t) ==
  req[t].call \in {"administers", "forget"} =>
    /\ req[t].id # None /\ req[t].id <= lastId
    /\ \A n \in Name : repos[n] = req[t].id => req[t].arg = n

Ids ==
  /\ \A n \in Name : repos[n] <= lastId
  /\ \A m, n \in Name : repos[m] = repos[n] /\ repos[m] # None => m = n
  /\ \A t \in Tab : Resolved(t)

\* The names, and a resolution that no step of its own tab touches.
LEMMA IdsMoved ==
  ASSUME Types, Ids, Moved
  PROVE  /\ \A n \in Name : repos'[n] <= lastId'
         /\ \A m, n \in Name : repos'[m] = repos'[n] /\ repos'[m] # None => m = n
         /\ \A i \in Nat, a \in Arg :
              i # None /\ i <= lastId /\ (\A n \in Name : repos[n] = i => a = n) =>
                i <= lastId' /\ \A n \in Name : repos'[n] = i => a = n
<1>1. /\ repos \in [Name -> Nat] /\ lastId \in Nat /\ None = 0
      /\ \A n \in Name : repos[n] <= lastId
      /\ \A m, n \in Name : repos[m] = repos[n] /\ repos[m] # None => m = n
  BY DEF Types, Ids, None
<1>2. CASE UNCHANGED <<repos, lastId>>
  BY <1>1, <1>2
<1>3. CASE lastId' = lastId /\ \E n \in Name : repos' = [repos EXCEPT ![n] = None]
  BY <1>1, <1>3
<1>4. CASE lastId' = lastId + 1 /\ repos' = repos
  BY <1>1, <1>4
<1>5. CASE lastId' = lastId + 1 /\ \E n \in Name : repos' = [repos EXCEPT ![n] = lastId']
  BY <1>1, <1>5
<1>6. QED
  BY <1>2, <1>3, <1>4, <1>5 DEF Moved

LEMMA IdsStep == ASSUME Types, Ids, Step, Moved PROVE Ids'
<1>1. req \in [Tab -> RequestSet] /\ \A u \in Tab : req[u].id \in Nat /\ req[u].arg \in Arg
  BY DEF Types, RequestSet
<1>2. ASSUME NEW u \in Tab, req'[u] = req[u] PROVE Resolved(u)'
  BY <1>1, <1>2, IdsMoved DEF Ids, Resolved
<1>3. ASSUME NEW t \in Tab, NEW s, req' = [req EXCEPT ![t] = s],
             s.call \notin {"administers", "forget"}
      PROVE  \A u \in Tab : Resolved(u)'
  <2>1. Resolved(t)'
    BY <1>1, <1>3 DEF Resolved
  <2>2. QED
    BY <1>1, <1>2, <1>3, <2>1
<1>4. NoRequest.call = "none"
  BY DEF NoRequest
<1>5. ASSUME NEW t \in Tab, SendStep(t) \/ Received(t) \/ Lost(t) PROVE \A u \in Tab : Resolved(u)'
  <2>1. \E s : req' = [req EXCEPT ![t] = s] /\ s.call \notin {"administers", "forget"}
    BY <1>4, <1>5 DEF SendStep, Received, Lost
  <2>2. QED
    BY <1>3, <2>1
<1>6. ASSUME NEW t \in Tab, Handled(t) PROVE \A u \in Tab : Resolved(u)'
  <2>1. PICK s \in RequestSet :
               /\ req' = [req EXCEPT ![t] = s] /\ Stage(t, s)
               /\ s.call = "administers" =>
                    s.id # None /\ s.id = repos[s.arg] /\ s.arg \in Name /\ UNCHANGED <<repos, lastId>>
               /\ s.call = "forget" =>
                    At(t, "administers") /\ s.id = req[t].id /\ UNCHANGED <<repos, lastId>>
    BY <1>6 DEF Handled
  <2>2. req'[t] = s /\ s.arg = req[t].arg
    BY <1>1, <2>1 DEF Stage
  <2>3. CASE s.call = "administers"
    BY <1>1, <1>2, <2>1, <2>2, <2>3 DEF Ids, Resolved
  <2>4. CASE s.call = "forget"
    <3>1. Resolved(t)'
      BY <2>1, <2>2, <2>4 DEF Ids, Resolved, At
    <3>2. QED
      BY <1>1, <1>2, <2>1, <3>1
  <2>5. CASE s.call \notin {"administers", "forget"}
    BY <1>3, <2>1, <2>5
  <2>6. QED
    BY <2>3, <2>4, <2>5
<1>7. \A u \in Tab : Resolved(u)'
  BY <1>2, <1>5, <1>6 DEF Step
<1>8. QED
  BY <1>7, IdsMoved DEF Ids

\* Only its own Forget takes a request from the call to delete.
LEMMA OnlyForget ==
  ASSUME Types, Next, NEW t \in Tab, req'[t] # req[t], At(t, "forget")
  PROVE  Forget(t)
<1>1. req \in [Tab -> RequestSet] /\ ~Idle(t)
  BY DEF Types, At, Idle
<1>2. ~Elsewhere
  BY DEF Elsewhere
<1>3. ASSUME NEW u \in Tab, NEW s, req' = [req EXCEPT ![u] = s] PROVE u = t
  BY <1>1, <1>3
<1>4. ASSUME NEW u \in Tab, Open(u) \/ Submit(u) \/ GoBack(u) \/ Retry(u) PROVE FALSE
  <2>1. SendStep(u)
    BY <1>4, OpenStep, SubmitStep, GoBackStep, RetryStep
  <2>2. u = t /\ Idle(u)
    BY <1>3, <2>1 DEF SendStep
  <2>3. QED
    BY <1>1, <2>2
<1>5. ASSUME NEW u \in Tab, Receive(u) \/ Lose(u) PROVE FALSE
  <2>1. u = t
    BY <1>3, <1>5 DEF Receive, Lose, Becomes
  <2>2. QED
    BY <1>5, <2>1 DEF Receive, Lose, At
<1>6. ASSUME NEW u \in Tab, Handle(u) PROVE u = t
  <2>1. Handled(u)
    BY <1>6, HandleStep
  <2>2. QED
    BY <1>3, <2>1 DEF Handled
<1>7. Handle(t)
  BY <1>2, <1>4, <1>5, <1>6 DEF Next
<1>8. QED
  BY <1>7 DEF Handle, At, Refuse, SignOut, Begin, List, Parse, Add, Remove, Spaces, Create,
              Resolve, Administers

\* DeletesOnlyResolved: the id taken when the name was resolved is what is
\* deleted, and only under the name that was typed.
THEOREM DeletionsAreResolved == Spec => DeletesOnlyResolved
<1>1. Init => Ids
  <2>1. NoRequest.call = "none"
    BY DEF NoRequest
  <2>2. QED
    BY <2>1 DEF Init, Ids, Resolved, None
<1>2. Types /\ Ids /\ [Next]_vars => Ids'
  BY NextStep, IdsStep
<1> DEFINE Deletes ==
      \A t \in Tab : req'[t] # req[t] /\ At(t, "forget") =>
        \A n \in Name : repos'[n] # repos[n] =>
          repos'[n] = None /\ repos[n] = req[t].id /\ req[t].arg = n /\ req[t].typed
<1>3. Types /\ Ids /\ [Next]_vars => [Deletes]_vars
  <2> SUFFICES ASSUME Types, Ids, Next, NEW t \in Tab, req'[t] # req[t], At(t, "forget"),
                      NEW n \in Name, repos'[n] # repos[n]
               PROVE  repos'[n] = None /\ repos[n] = req[t].id /\ req[t].arg = n /\ req[t].typed
    OBVIOUS
  <2>1. Forget(t)
    BY OnlyForget
  <2>2. repos'[n] = None /\ repos[n] = req[t].id
    BY <2>1 DEF Forget, Forgets, Types, service
  <2>3. req[t].arg = n
    BY <2>2 DEF Ids, Resolved, At
  <2>4. req[t].typed
    BY DEF Types, RequestOK, CallFits, At
  <2>5. QED
    BY <2>2, <2>3, <2>4
<1>4. QED
  BY <1>1, <1>2, <1>3, TypesHold, PTL DEF Spec, DeletesOnlyResolved

----------------------------------------------------------------------------
(***************************************************************************)
(* What a page and a request know of the service: i tokens were issued, n  *)
(* ids were used, and the ids of mine are on the account.                  *)
(***************************************************************************)

PageGood(p, i, n, mine) ==
  /\ p.about \in 0..n /\ p.table \subseteq 0..n /\ p.token \in 0..i
  /\ p.screen = "expired" /\ p.again = "removal" => p.arg \in 0..n
  /\ p.screen = "confirm" => p.arg \in Key
  /\ p.screen = "keys" /\ p.says = "yours" => p.about \in p.table \/ p.about \notin mine
  /\ p.screen = "keys" /\ p.says = "absent" => p.about \notin p.table
  /\ p.screen = "removing" => p.arg \in p.table

\* Until the list is read a request shows no table; and what it will say is not
\* on the account is not.
RequestGood(r, i, n, mine) ==
  /\ r.cookie \in 0..i /\ r.given \in 0..i /\ r.id \in 0..n
  /\ r.op \in {"remove", "removal"} => r.arg \in 0..n
  /\ r.op \in {"paste", "add"} => r.arg \in Key
  /\ r.call = "parse" => r.op = "paste"
  /\ r.call \notin {"none", "answer"} => r.page.screen \in {"none", "confirm"}
  /\ r.call = "list" /\ r.page.says = "absent" => r.page.about \notin mine
  /\ PageGood(r.page, i, n, mine)

Recorded ==
  /\ jar \in 0..issued /\ lastId \in 0..MaxId
  /\ \A x \in keys : x.key \in Key /\ x.id \in 0..lastId
  /\ \A m \in Name : repos[m] \in 0..lastId
  /\ \A t \in Tab : PageGood(page[t], issued, lastId, Mine) /\ RequestGood(req[t], issued, lastId, Mine)

\* Tokens and ids are only added, and an id that is off the account stays off.
LEMMA PageStaysGood ==
  ASSUME NEW i \in Nat, NEW j \in Nat, i <= j, NEW n \in Nat, NEW m \in Nat, n <= m,
         NEW mine, NEW after, \A k \in 0..n : k \notin mine => k \notin after,
         NEW p, PageGood(p, i, n, mine)
  PROVE  PageGood(p, j, m, after)
BY DEF PageGood

LEMMA RequestStaysGood ==
  ASSUME NEW i \in Nat, NEW j \in Nat, i <= j, NEW n \in Nat, NEW m \in Nat, n <= m,
         NEW mine, NEW after, \A k \in 0..n : k \notin mine => k \notin after,
         NEW r, RequestGood(r, i, n, mine)
  PROVE  RequestGood(r, j, m, after)
<1>1. PageGood(r.page, i, n, mine) /\ r.page.about \in 0..n
  BY DEF RequestGood, PageGood
<1>2. PageGood(r.page, j, m, after)
  BY <1>1, PageStaysGood
<1>3. QED
  BY <1>1, <1>2 DEF RequestGood

\* What a form is to be tried for again is no part of it, but on an expired one.
LEMMA AgainGood ==
  ASSUME NEW i, NEW n, NEW mine, NEW p \in PageSet, PageGood(p, i, n, mine), NEW a \in {p.again, "none"}
  PROVE  PageGood([p EXCEPT !.again = a], i, n, mine)
BY DEF PageGood, PageSet

LEMMA BlankGood ==
  ASSUME NEW i \in Nat, NEW n \in Nat, NEW mine
  PROVE  PageGood(Blank, i, n, mine) /\ RequestGood(NoRequest, i, n, mine)
<1>1. PageGood(Blank, i, n, mine)
  BY DEF Blank, PageGood, None
<1>2. QED
  BY <1>1 DEF NoRequest, RequestGood, None

----------------------------------------------------------------------------
\* What becomes of a request that is good.
LEMMA CallsGood ==
  ASSUME NEW i, NEW n, NEW mine, NEW r \in RequestSet, RequestGood(r, i, n, mine),
         r.call \notin {"none", "answer"}, NEW c \in Call \ {"none", "answer"},
         c = "parse" => r.op = "paste",
         c = "list" /\ r.page.says = "absent" => r.page.about \notin mine
  PROVE  RequestGood(Calls(r, c), i, n, mine)
<1> DEFINE s == Calls(r, c)
<1>1. /\ s.cookie = r.cookie /\ s.given = r.given /\ s.id = r.id /\ s.op = r.op /\ s.arg = r.arg
      /\ s.call = c /\ s.page = r.page
  BY DEF RequestSet, Calls
<1> HIDE DEF s
<1>2. RequestGood(s, i, n, mine)
  BY <1>1 DEF RequestGood
<1>3. QED
  BY <1>2 DEF s

\* A page drawn for it.
LEMMA DrawnGood ==
  ASSUME NEW i, NEW n, NEW mine, NEW r \in RequestSet, RequestGood(r, i, n, mine),
         NEW p, PageGood(p, i, n, mine), NEW s, s.call = "answer", s.page = p,
         s.cookie = r.cookie, s.given = r.given, s.id = r.id, s.op = r.op, s.arg = r.arg
  PROVE  RequestGood(s, i, n, mine)
BY DEF RequestGood

LEMMA ShowsGood ==
  ASSUME NEW i, NEW n, NEW mine, NEW r \in RequestSet, RequestGood(r, i, n, mine),
         NEW c \in Screen \ {"expired", "confirm", "keys", "removing"}
  PROVE  RequestGood(Shows(r, c), i, n, mine)
<1> DEFINE s == Shows(r, c)
<1>1. /\ s.cookie = r.cookie /\ s.given = r.given /\ s.id = r.id /\ s.op = r.op /\ s.arg = r.arg
      /\ s.call = "answer"
  BY DEF RequestSet, Shows
<1>2. /\ s.page.screen = c /\ s.page.about = r.page.about /\ s.page.table = r.page.table
      /\ s.page.token = r.page.token
  BY DEF RequestSet, PageSet, Shows
<1> HIDE DEF s
<1>3. PageGood(s.page, i, n, mine)
  BY <1>2 DEF RequestGood, PageGood
<1>4. RequestGood(s, i, n, mine)
  BY <1>1, <1>3, DrawnGood
<1>5. QED
  BY <1>4 DEF s

\* A sentence for the list to be drawn under.
LEMMA SaysGood ==
  ASSUME NEW i, NEW n, NEW mine, NEW r \in RequestSet, RequestGood(r, i, n, mine),
         r.call \notin {"none", "answer", "list"}, NEW says \in Sentence, NEW about \in Arg, about \in 0..n
  PROVE  LET u == Says(r, says, about) IN
         /\ u \in RequestSet /\ RequestGood(u, i, n, mine) /\ u.call = r.call /\ u.op = r.op
         /\ u.page.says = says /\ u.page.about = about
<1> DEFINE u == Says(r, says, about)
<1>1. /\ u.cookie = r.cookie /\ u.given = r.given /\ u.id = r.id /\ u.op = r.op /\ u.arg = r.arg
      /\ u.call = r.call
  BY DEF RequestSet, Says
<1>2. /\ u.page.screen = r.page.screen /\ u.page.about = about /\ u.page.table = r.page.table
      /\ u.page.token = r.page.token /\ u.page.arg = r.page.arg /\ u.page.says = says
  BY DEF RequestSet, PageSet, Says
<1>3. u \in RequestSet
  BY SaysFact DEF Kept
<1> HIDE DEF u
<1>4. PageGood(u.page, i, n, mine)
  BY <1>2 DEF RequestGood, PageGood
<1>5. RequestGood(u, i, n, mine)
  BY <1>1, <1>2, <1>4 DEF RequestGood
<1>6. QED
  BY <1>1, <1>2, <1>3, <1>5 DEF u

LEMMA ListedGood ==
  ASSUME NEW t, NEW i, NEW n, NEW mine, NEW r \in RequestSet, RequestGood(r, i, n, mine),
         r.call \notin {"none", "answer", "list"}, NEW says \in Sentence, NEW about \in Arg, about \in 0..n,
         says = "absent" => about \notin mine
  PROVE  RequestGood(Listed(t, Says(r, says, about)), i, n, mine)
<1> DEFINE u == Says(r, says, about)
<1>1. /\ u \in RequestSet /\ RequestGood(u, i, n, mine) /\ u.call = r.call
      /\ u.page.says = says /\ u.page.about = about
  BY SaysGood
<1> HIDE DEF u
<1>2. "list" \in Call \ {"none", "answer"}
  BY DEF Call
<1>3. RequestGood(Calls(u, "list"), i, n, mine)
  BY <1>1, <1>2, CallsGood
<1>4. QED
  BY <1>3 DEF Listed, u

LEMMA WroteGood ==
  ASSUME NEW i, NEW n, NEW mine, NEW r \in RequestSet, RequestGood(r, i, n, mine)
  PROVE  LET w == [r EXCEPT !.wrote = TRUE] IN
         w \in RequestSet /\ RequestGood(w, i, n, mine) /\ w.call = r.call
<1> DEFINE w == [r EXCEPT !.wrote = TRUE]
<1>1. /\ w.cookie = r.cookie /\ w.given = r.given /\ w.id = r.id /\ w.op = r.op /\ w.arg = r.arg
      /\ w.call = r.call /\ w.page = r.page /\ w \in RequestSet
  BY DEF RequestSet
<1> HIDE DEF w
<1>2. RequestGood(w, i, n, mine)
  BY <1>1 DEF RequestGood
<1>3. QED
  BY <1>1, <1>2 DEF w

----------------------------------------------------------------------------
\* A request sent, whatever it is to be tried for again and whatever is typed.
LEMMA SentGood ==
  ASSUME NEW i \in Nat, NEW n \in Nat, NEW mine, NEW t \in Tab, jar \in 0..i, NEW op, NEW arg,
         op \in {"remove", "removal"} => arg \in 0..n,
         op \in {"paste", "add"} => arg \in Key
  PROVE  LET s == Sent(t, op, arg) IN
         /\ RequestGood(s, i, n, mine)
         /\ RequestGood([s EXCEPT !.typed = FALSE], i, n, mine)
         /\ \A a : RequestGood([s EXCEPT !.page.again = a], i, n, mine)
<1> DEFINE s == Sent(t, op, arg)
           Like(r) == /\ r.cookie = jar /\ r.given = None /\ r.id = None /\ r.op = op /\ r.arg = arg
                      /\ r.call = "begin"
                      /\ r.page.screen = "none" /\ r.page.about = None /\ r.page.table = {}
                      /\ r.page.token = None
<1>1. Like(s) /\ Like([s EXCEPT !.typed = FALSE]) /\ \A a : Like([s EXCEPT !.page.again = a])
  BY DEF Sent, NoRequest, Asked, Blank
<1> HIDE DEF s
<1>2. ASSUME NEW r, Like(r) PROVE RequestGood(r, i, n, mine)
  BY <1>2 DEF RequestGood, PageGood, None
<1> HIDE DEF Like
<1>3. RequestGood(s, i, n, mine) /\ RequestGood([s EXCEPT !.typed = FALSE], i, n, mine)
  BY <1>1, <1>2
<1>4. ASSUME NEW a PROVE RequestGood([s EXCEPT !.page.again = a], i, n, mine)
  BY <1>1, <1>2
<1>5. QED
  BY <1>3, <1>4 DEF s

\* Of its tab, a step makes a request that is good by what the service kept
\* before it.
MakesGood(t) ==
  \E s : req' = [req EXCEPT ![t] = s] /\ RequestGood(s, issued', lastId, Mine)

\* What is good of a request being handled, and of a page shown.
LEMMA GoodNow ==
  ASSUME Types, Recorded, NEW t \in Tab
  PROVE  /\ issued \in Nat /\ lastId \in Nat /\ jar \in 0..issued /\ Mine \subseteq 0..lastId
         /\ req[t] \in RequestSet /\ RequestGood(req[t], issued, lastId, Mine)
         /\ page[t] \in PageSet /\ PageNames(page[t]) /\ PageGood(page[t], issued, lastId, Mine)
BY DEF Types, Recorded, Mine

\* A form sends the key pasted, and the id its page asks about.
LEMMA FormsGood ==
  ASSUME NEW i, NEW n \in Nat, NEW mine, NEW p \in PageSet, PageGood(p, i, n, mine), NEW f \in Forms(p)
  PROVE  /\ f[1] \in {"remove", "removal"} => f[2] \in 0..n
         /\ f[1] \in {"paste", "add"} => f[2] \in Key
<1>1. CASE p.screen \in {"keys", "removing"}
  <2>1. (\E k \in Key : f = <<"paste", k>>) \/ (p.screen = "removing" /\ f = <<"removal", p.arg>>)
    BY <1>1 DEF Forms
  <2>2. p.screen = "removing" => p.arg \in 0..n
    BY DEF PageGood
  <2>3. QED
    BY <2>1, <2>2
<1>2. CASE p.screen = "confirm"
  <2>1. f = <<"add", p.arg>> /\ p.arg \in Key
    BY <1>2 DEF Forms, PageGood
  <2>2. QED
    BY <2>1
<1>3. CASE p.screen = "new"
  <2>1. \E m \in Name : f = <<"creation", m>>
    BY <1>3 DEF Forms
  <2>2. QED
    BY <2>1
<1>4. CASE p.screen = "delete"
  <2>1. f = <<"deletion", p.arg>>
    BY <1>4 DEF Forms
  <2>2. QED
    BY <2>1
<1>5. QED
  BY <1>1, <1>2, <1>3, <1>4 DEF Forms

LEMMA SendsGood ==
  ASSUME Types, Recorded, NEW t \in Tab, NEW r, Sends(t, r), RequestGood(r, issued, lastId, Mine)
  PROVE  MakesGood(t)
BY DEF Sends, MakesGood

LEMMA OpenGood == ASSUME Types, Recorded, NEW t \in Tab, Open(t) PROVE MakesGood(t)
<1>1. /\ issued \in Nat /\ lastId \in Nat /\ jar \in 0..issued
      /\ PageGood(page[t], issued, lastId, Mine)
  BY GoodNow
<1>2. PICK op, arg : /\ Sends(t, Sent(t, op, arg))
                     /\ op \in {"remove", "removal"} => arg \in 0..lastId
                     /\ op \notin {"paste", "add"}
  BY <1>1 DEF Open, PageGood
<1>3. RequestGood(Sent(t, op, arg), issued, lastId, Mine)
  BY <1>1, <1>2, SentGood
<1>4. QED
  BY <1>2, <1>3, SendsGood

LEMMA SubmitGood == ASSUME Types, Recorded, NEW t \in Tab, Submit(t) PROVE MakesGood(t)
<1>1. /\ issued \in Nat /\ lastId \in Nat /\ jar \in 0..issued
      /\ page[t] \in PageSet /\ PageGood(page[t], issued, lastId, Mine)
  BY GoodNow
<1>2. PICK op, arg : /\ \/ Sends(t, Sent(t, op, arg))
                        \/ Sends(t, [Sent(t, op, arg) EXCEPT !.typed = FALSE])
                     /\ op \in {"remove", "removal"} => arg \in 0..lastId
                     /\ op \in {"paste", "add"} => arg \in Key
  <2>1. CASE \E f \in Forms(page[t]) :
               \/ Sends(t, Sent(t, f[1], f[2]))
               \/ f[1] = "deletion" /\ Sends(t, [Sent(t, f[1], f[2]) EXCEPT !.typed = FALSE])
    <3>1. PICK f \in Forms(page[t]) : \/ Sends(t, Sent(t, f[1], f[2]))
                                     \/ Sends(t, [Sent(t, f[1], f[2]) EXCEPT !.typed = FALSE])
      BY <2>1
    <3>2. /\ f[1] \in {"remove", "removal"} => f[2] \in 0..lastId
          /\ f[1] \in {"paste", "add"} => f[2] \in Key
      BY <1>1, FormsGood
    <3>3. QED
      BY <3>1, <3>2
  <2>2. CASE Sends(t, Sent(t, "sign-out", None))
    BY <2>2
  <2>3. QED
    BY <2>1, <2>2 DEF Submit
<1>3. /\ RequestGood(Sent(t, op, arg), issued, lastId, Mine)
      /\ RequestGood([Sent(t, op, arg) EXCEPT !.typed = FALSE], issued, lastId, Mine)
  BY <1>1, <1>2, SentGood
<1>4. QED
  BY <1>2, <1>3, SendsGood

LEMMA GoBackGood == ASSUME Types, Recorded, NEW t \in Tab, GoBack(t) PROVE MakesGood(t)
<1> DEFINE again == page[t].again
           arg == IF again \in {"removal", "deletion"} THEN page[t].arg ELSE None
           op == Found(again)
           r == [Sent(t, op, arg) EXCEPT !.page.again = again]
<1>1. /\ issued \in Nat /\ lastId \in Nat /\ jar \in 0..issued
      /\ page[t] \in PageSet /\ PageGood(page[t], issued, lastId, Mine) /\ again \in Again
  BY GoodNow DEF PageSet
<1>2. /\ page[t].screen = "expired" /\ Sends(t, r)
  BY DEF GoBack, Returned
<1>3. again = "removal" => arg \in 0..lastId
  BY <1>1, <1>2 DEF PageGood
<1>4. /\ op \in {"remove", "removal"} => arg \in 0..lastId
      /\ op \in {"paste", "add"} => arg \in Key
  BY <1>1, <1>3 DEF Found, Again, Post
<1> HIDE DEF op, arg, again
<1>5. RequestGood(r, issued, lastId, Mine)
  BY <1>1, <1>4, SentGood
<1>6. QED
  BY <1>2, <1>5, SendsGood

LEMMA RetryGood == ASSUME Types, Recorded, NEW t \in Tab, Retry(t) PROVE MakesGood(t)
<1>1. /\ issued \in Nat /\ lastId \in Nat /\ jar \in 0..issued
      /\ page[t] \in PageSet /\ PageGood(page[t], issued, lastId, Mine)
  BY GoodNow
<1>2. PICK op, arg : /\ Sends(t, Sent(t, op, arg))
                     /\ op \in {"remove", "removal"} => arg \in 0..lastId
                     /\ op \in {"paste", "add"} => arg \in Key
  <2>1. CASE \E f \in Forms(page[t]) : Sends(t, Sent(t, f[1], f[2]))
    <3>1. PICK f \in Forms(page[t]) : Sends(t, Sent(t, f[1], f[2]))
      BY <2>1
    <3>2. /\ f[1] \in {"remove", "removal"} => f[2] \in 0..lastId
          /\ f[1] \in {"paste", "add"} => f[2] \in Key
      BY <1>1, FormsGood
    <3>3. QED
      BY <3>1, <3>2
  <2>2. CASE Sends(t, Sent(t, "sign-out", None))
    BY <2>2
  <2>3. QED
    BY <2>1, <2>2 DEF Retry
<1>3. RequestGood(Sent(t, op, arg), issued, lastId, Mine)
  BY <1>1, <1>2, SentGood
<1>4. QED
  BY <1>2, <1>3, SendsGood

----------------------------------------------------------------------------
\* The handlers.
LEMMA RefuseGood == ASSUME Types, Recorded, NEW t \in Tab, Refuse(t) PROVE MakesGood(t)
<1> DEFINE r == req[t]
           p == [Blank EXCEPT !.screen = "expired", !.arg = r.arg, !.again = First(r.op)]
           s == [r EXCEPT !.call = "answer", !.page = p]
<1>1. /\ issued \in Nat /\ lastId \in Nat /\ r \in RequestSet
      /\ RequestGood(r, issued, lastId, Mine)
  BY GoodNow
<1>2. /\ p.screen = "expired" /\ p.arg = r.arg /\ p.again = First(r.op) /\ p.about = None
      /\ p.table = {} /\ p.token = None
  BY DEF Blank
<1>3. p.again = "removal" => p.arg \in 0..lastId
  BY <1>1, <1>2 DEF First, RequestGood
<1>4. PageGood(p, issued, lastId, Mine)
  BY <1>1, <1>2, <1>3 DEF PageGood, None
<1> HIDE DEF p
<1>5. /\ s.call = "answer" /\ s.page = p
      /\ s.cookie = r.cookie /\ s.given = r.given /\ s.id = r.id /\ s.op = r.op /\ s.arg = r.arg
  BY <1>1 DEF RequestSet
<1>6. req' = [req EXCEPT ![t] = s] /\ issued' = issued
  BY DEF Refuse, Becomes, p
<1> HIDE DEF s
<1>7. RequestGood(s, issued, lastId, Mine)
  BY <1>1, <1>4, <1>5, DrawnGood
<1>8. QED
  BY <1>6, <1>7 DEF MakesGood

LEMMA SignsInGood ==
  ASSUME NEW i \in Nat, NEW n \in Nat, NEW mine, NEW r \in RequestSet, RequestGood(r, i, n, mine)
  PROVE  RequestGood(SignsIn(r), i, n, mine)
<1> DEFINE p == [Blank EXCEPT !.screen = "sign-in"]
           s == SignsIn(r)
<1>1. PageGood(p, i, n, mine)
  BY DEF PageGood, Blank, None
<1> HIDE DEF p
<1>2. /\ s.call = "answer" /\ s.page = p
      /\ s.cookie = r.cookie /\ s.given = r.given /\ s.id = r.id /\ s.op = r.op /\ s.arg = r.arg
  BY DEF RequestSet, SignsIn, p
<1> HIDE DEF s
<1>3. RequestGood(s, i, n, mine)
  BY <1>1, <1>2, DrawnGood
<1>4. QED
  BY <1>3 DEF s

LEMMA SignOutGood == ASSUME Types, Recorded, NEW t \in Tab, SignOut(t) PROVE MakesGood(t)
<1>1. /\ issued \in Nat /\ lastId \in Nat /\ req[t] \in RequestSet
      /\ RequestGood(req[t], issued, lastId, Mine)
  BY GoodNow
<1>2. RequestGood(SignsIn(req[t]), issued, lastId, Mine)
  BY <1>1, SignsInGood
<1>3. QED
  BY <1>2 DEF SignOut, Becomes, MakesGood

\* The token of the page is the cookie's, or the one just issued.
LEMMA BeginGood ==
  ASSUME Types, Recorded, NEW t \in Tab, Begin(t)
  PROVE  MakesGood(t) /\ issued' \in Nat /\ issued <= issued' /\ issued' <= issued + 1
<1> DEFINE q == req[t]
           token == CSRFToken(q)
           given == IF token = q.cookie THEN None ELSE token
           r == [q EXCEPT !.page.token = token, !.given = given]
<1>1. /\ issued \in Nat /\ lastId \in Nat /\ q \in RequestSet
      /\ RequestGood(q, issued, lastId, Mine) /\ q.call = "begin" /\ q.page.says = ""
  <2>1. q \in RequestSet /\ RequestOK(q) /\ q.call = "begin"
    BY DEF Types, Begin, At
  <2>2. QED
    BY <2>1, GoodNow DEF RequestOK, Told
<1>0. issued \in Nat /\ lastId \in Nat
  BY GoodNow
<1>2. r.given = given /\ r.op = q.op
  BY <1>1 DEF RequestSet, PageSet
<1>3. /\ \/ q.cookie # None /\ token = q.cookie /\ given = None /\ issued' = issued
         \/ q.cookie = None /\ token = issued + 1 /\ given = token /\ issued' = token
      /\ q.cookie \in 0..issued
  <2>1. q.cookie \in 0..issued
    BY <1>1 DEF RequestGood
  <2>2. issued' = IF given = None THEN issued ELSE token
    BY <1>2 DEF Begin
  <2>3. token = IF q.cookie # None THEN q.cookie ELSE issued + 1
    BY DEF CSRFToken
  <2>4. given = IF token = q.cookie THEN None ELSE token
    OBVIOUS
  <2> HIDE DEF token, given, r, q
  <2>5. QED
    BY <1>0, <2>1, <2>2, <2>3, <2>4 DEF None
<1>4. \/ req' = [req EXCEPT ![t] = SignsIn(r)]
      \/ q.op = "home" /\ req' = [req EXCEPT ![t] = Shows(r, "message")]
      \/ q.op # "home" /\ q.op # "sign-out" /\ req' = [req EXCEPT ![t] = Calls(r, FirstCall(r.op))]
  BY <1>2 DEF Begin, Becomes
<1> HIDE DEF token, given
<1>5. token \in 0..issued' /\ given \in 0..issued' /\ token \in Nat /\ given \in Nat
      /\ issued' \in Nat /\ issued <= issued' /\ issued' <= issued + 1
  BY <1>0, <1>3 DEF None
<1>6. /\ r \in RequestSet /\ r.given = given /\ r.page.token = token /\ r.call = "begin"
      /\ r.op = q.op /\ r.arg = q.arg /\ r.cookie = q.cookie /\ r.id = q.id
      /\ r.page.says = "" /\ r.page.screen = q.page.screen /\ r.page.table = q.page.table
      /\ r.page.arg = q.page.arg /\ r.page.again = q.page.again /\ r.page.about = q.page.about
  BY <1>1, <1>5 DEF RequestSet, PageSet
<1> HIDE DEF r
<1>7. RequestGood(r, issued', lastId, Mine)
  <2>1. RequestGood(q, issued', lastId, Mine)
    <3>1. lastId <= lastId /\ \A k \in 0..lastId : k \notin Mine => k \notin Mine
      BY <1>0
    <3> HIDE DEF q
    <3>2. QED
      BY <1>1, <1>5, <3>1, RequestStaysGood
  <2>2. PageGood(r.page, issued', lastId, Mine)
    BY <1>5, <1>6, <2>1 DEF RequestGood, PageGood
  <2>3. QED
    BY <1>1, <1>5, <1>6, <2>1, <2>2 DEF RequestGood
<1>8. RequestGood(SignsIn(r), issued', lastId, Mine)
  BY <1>1, <1>5, <1>6, <1>7, SignsInGood
<1>9. RequestGood(Shows(r, "message"), issued', lastId, Mine)
  BY <1>6, <1>7, ShowsGood DEF Screen
<1>10. ASSUME q.op # "home", q.op # "sign-out"
       PROVE  RequestGood(Calls(r, FirstCall(r.op)), issued', lastId, Mine)
  <2> DEFINE c == FirstCall(r.op)
  <2>1. q.op # "none"
    BY <1>1 DEF Types, RequestOK, CallFits
  <2>2. c \in Call \ {"none", "answer"} /\ (c = "parse" => r.op = "paste")
    BY <1>6, <1>10, <2>1 DEF FirstCall, RequestSet, Op, Fetch, Post, Call
  <2> HIDE DEF c
  <2>3. r.call \notin {"none", "answer"} /\ r.page.says # "absent"
    BY <1>6
  <2>4. RequestGood(Calls(r, c), issued', lastId, Mine)
    BY <1>6, <1>7, <2>2, <2>3, CallsGood
  <2>5. QED
    BY <2>4 DEF c
<1>11. QED
  BY <1>4, <1>5, <1>8, <1>9, <1>10 DEF MakesGood

\* The table is the account's; what is said not to be in it is not.
LEMMA ListGood == ASSUME Types, Recorded, NEW t \in Tab, List(t) PROVE MakesGood(t)
<1> DEFINE r == req[t]
           c == IF r.page.screen = "confirm" THEN "confirm" ELSE "keys"
           b == [Shows(r, c) EXCEPT !.page.table = Mine]
           asked == [Shows(b, "removing") EXCEPT !.page.arg = b.arg]
           absent == Says(b, "absent", b.arg)
           Like(s) == /\ s.call = "answer" /\ s.cookie = r.cookie /\ s.given = r.given /\ s.id = r.id
                      /\ s.op = r.op /\ s.arg = r.arg
                      /\ s.page.table = Mine /\ s.page.token = r.page.token
<1>1. /\ issued \in Nat /\ lastId \in Nat /\ r \in RequestSet /\ Mine \subseteq 0..lastId
      /\ RequestGood(r, issued, lastId, Mine) /\ r.call = "list" /\ issued' = issued
  BY GoodNow DEF List, At
<1>2. \/ req' = [req EXCEPT ![t] = Shows(r, "outage")]
      \/ req' = [req EXCEPT ![t] = b]
      \/ b.op = "remove" /\ b.arg \in b.page.table /\ req' = [req EXCEPT ![t] = asked]
      \/ b.op = "remove" /\ b.arg \notin b.page.table /\ req' = [req EXCEPT ![t] = absent]
  BY DEF List, Becomes, Picked
<1>3. /\ Like(b) /\ b.page.screen = c /\ b.page.arg = r.page.arg
      /\ b.page.about = r.page.about /\ b.page.says = r.page.says /\ b.page.again = r.page.again
  BY <1>1 DEF RequestSet, PageSet, Shows
<1>4. b \in RequestSet
  <2>1. Mine \in SUBSET Nat
    BY <1>1
  <2>2. QED
    BY <1>1, <2>1 DEF RequestSet, PageSet, Shows, Screen, Call
<1>5. /\ Like(asked) /\ asked.page.screen = "removing" /\ asked.page.arg = b.arg
      /\ asked.page.about = b.page.about
  BY <1>3, <1>4 DEF RequestSet, PageSet, Shows
<1>6. /\ Like(absent) /\ absent.page.screen = c /\ absent.page.says = "absent"
      /\ absent.page.about = b.arg /\ absent.page.arg = b.page.arg
  BY <1>3, <1>4 DEF RequestSet, PageSet, Says
<1>7. b.arg = r.arg /\ b.op = r.op /\ b.page.table = Mine
  BY <1>3
<1> HIDE DEF b, asked, absent
<1>8. ASSUME NEW s, Like(s), PageGood(s.page, issued, lastId, Mine)
      PROVE  RequestGood(s, issued, lastId, Mine)
  BY <1>1, <1>8, DrawnGood
<1>9. RequestGood(b, issued, lastId, Mine)
  <2>1. PageGood(b.page, issued, lastId, Mine)
    BY <1>1, <1>3 DEF RequestGood, PageGood
  <2>2. QED
    BY <1>3, <1>8, <2>1
<1>10. CASE b.op = "remove" /\ b.arg \in b.page.table /\ req' = [req EXCEPT ![t] = asked]
  <2>1. PageGood(asked.page, issued, lastId, Mine)
    BY <1>1, <1>3, <1>5, <1>7, <1>10 DEF RequestGood, PageGood
  <2>2. RequestGood(asked, issued, lastId, Mine)
    BY <1>5, <1>8, <2>1
  <2>3. QED
    BY <1>1, <1>10, <2>2 DEF MakesGood
<1>11. CASE b.op = "remove" /\ b.arg \notin b.page.table /\ req' = [req EXCEPT ![t] = absent]
  <2>1. r.arg \in 0..lastId
    BY <1>1, <1>7, <1>11 DEF RequestGood
  <2>2. PageGood(absent.page, issued, lastId, Mine)
    BY <1>1, <1>3, <1>6, <1>7, <1>11, <2>1 DEF RequestGood, PageGood
  <2>3. RequestGood(absent, issued, lastId, Mine)
    BY <1>6, <1>8, <2>2
  <2>4. QED
    BY <1>1, <1>11, <2>3 DEF MakesGood
<1>12. RequestGood(Shows(r, "outage"), issued, lastId, Mine)
  BY <1>1, ShowsGood DEF Screen
<1>13. QED
  BY <1>1, <1>2, <1>9, <1>10, <1>11, <1>12 DEF MakesGood

\* A request that waits for a call after the first.
LEMMA GoodCall ==
  ASSUME Types, Recorded, NEW t \in Tab, ~Idle(t), ~At(t, "begin"), ~At(t, "answer"),
         ~At(t, "list")
  PROVE  LET r == req[t] IN
         /\ issued \in Nat /\ lastId \in Nat /\ None \in Arg /\ None \in 0..lastId
         /\ r \in RequestSet /\ RequestGood(r, issued, lastId, Mine)
         /\ r.call \notin {"none", "answer", "list"} /\ CallFits(r) /\ Told(r)
<1>1. req[t] \in RequestSet /\ CallFits(req[t]) /\ Told(req[t])
  BY AtCall
<1>2. issued \in Nat /\ lastId \in Nat /\ RequestGood(req[t], issued, lastId, Mine)
  BY GoodNow
<1>3. lastId \in Nat
  BY GoodNow
<1>4. None \in Arg /\ None \in 0..lastId
  BY <1>3 DEF None, Arg
<1>5. QED
  BY <1>1, <1>2, <1>4 DEF Idle, At

\* A form told, above the list, that it did nothing.
LEMMA RefusedGood ==
  ASSUME Types, Recorded, NEW t \in Tab, req[t].call \in {"parse", "add", "remove"},
         issued' = issued, NEW says \in Sentence, NEW about \in Arg, about \in 0..lastId,
         says = "absent" => about \notin Mine,
         req' = [req EXCEPT ![t] = Listed(t, Says(req[t], says, about))]
  PROVE  MakesGood(t)
<1>1. /\ req[t] \in RequestSet /\ RequestGood(req[t], issued, lastId, Mine)
      /\ req[t].call \notin {"none", "answer", "list"}
  BY GoodCall DEF Idle, At
<1>2. RequestGood(Listed(t, Says(req[t], says, about)), issued, lastId, Mine)
  BY <1>1, ListedGood
<1>3. QED
  BY <1>2 DEF MakesGood

LEMMA RefuseKeyGood ==
  ASSUME Types, Recorded, NEW t \in Tab, req[t].call \in {"parse", "add"}, issued' = issued,
         RefuseKey(t, req[t])
  PROVE  MakesGood(t)
<1>1. PICK says \in Sentence, about \in Arg :
             /\ req' = [req EXCEPT ![t] = Listed(t, Says(req[t], says, about))]
             /\ about \in 0..lastId /\ says # "absent"
  <2>1. \A x \in Held(req[t].arg) : x.id \in Arg /\ x.id \in 0..lastId
    BY DEF Held, Types, Recorded, Arg
  <2>2. None \in Arg /\ None \in 0..lastId
    BY GoodCall DEF Idle, At
  <2>3. QED
    BY <2>1, <2>2 DEF RefuseKey, Becomes, Sentence
<1>2. QED
  BY <1>1, RefusedGood

LEMMA ParseGood == ASSUME Types, Recorded, NEW t \in Tab, Parse(t) PROVE MakesGood(t)
<1> DEFINE r == req[t]
           u == [r EXCEPT !.page.screen = "confirm", !.page.arg = r.arg]
<1>1. At(t, "parse") /\ r.call = "parse" /\ issued' = issued
  BY DEF Parse, At
<1>2. CASE RefuseKey(t, r)
  BY <1>1, <1>2, RefuseKeyGood
<1>3. CASE req' = [req EXCEPT ![t] = Listed(t, u)]
  <2>1. /\ r \in RequestSet /\ RequestGood(r, issued, lastId, Mine) /\ r.page.says = ""
        /\ r.arg \in Arg
    BY <1>1, GoodCall DEF Idle, At, Told, RequestSet
  <2>2. r.arg \in Key
    BY <1>1, <2>1 DEF RequestGood
  <2>3. /\ u.cookie = r.cookie /\ u.given = r.given /\ u.id = r.id /\ u.op = r.op /\ u.arg = r.arg
        /\ u.call = "parse" /\ u.page.screen = "confirm" /\ u.page.about = r.page.about
        /\ u.page.table = r.page.table /\ u.page.token = r.page.token /\ u.page.arg = r.arg
        /\ u.page.says = ""
    BY <1>1, <2>1 DEF RequestSet, PageSet
  <2>4. u \in RequestSet
    BY <2>1 DEF RequestSet, PageSet, Screen
  <2> HIDE DEF u
  <2>5. PageGood(u.page, issued, lastId, Mine)
    BY <2>1, <2>2, <2>3 DEF RequestGood, PageGood
  <2>6. RequestGood(u, issued, lastId, Mine)
    BY <1>1, <2>1, <2>3, <2>5 DEF RequestGood
  <2>7. "list" \in Call \ {"none", "answer"} /\ u.call \notin {"none", "answer"} /\ u.page.says # "absent"
    BY <2>3 DEF Call
  <2>8. RequestGood(Calls(u, "list"), issued, lastId, Mine)
    BY <2>4, <2>6, <2>7, CallsGood
  <2>9. QED
    BY <1>1, <1>3, <2>8 DEF MakesGood, Listed
<1>4. QED
  BY <1>2, <1>3 DEF Parse, Becomes

\* A form that took effect, answered or not.
LEMMA WrittenGood ==
  ASSUME Types, Recorded, NEW t \in Tab, req[t].call \in {"add", "remove", "create", "forget"},
         issued' = issued,
         \E s : /\ req' = [req EXCEPT ![t] = s]
                /\ LET w == [req[t] EXCEPT !.wrote = TRUE] IN
                   s \in {Redirects(w), Listed(t, Says(w, "failed", None)), Shows(w, "message")}
  PROVE  MakesGood(t)
<1> DEFINE r == req[t]
           w == [r EXCEPT !.wrote = TRUE]
<1>1. /\ r \in RequestSet /\ RequestGood(r, issued, lastId, Mine)
      /\ r.call \notin {"none", "answer", "list"} /\ None \in Arg /\ None \in 0..lastId
  BY GoodCall DEF Idle, At
<1>2. w \in RequestSet /\ RequestGood(w, issued, lastId, Mine) /\ w.call = r.call
  BY <1>1, WroteGood
<1>3. PICK s : /\ req' = [req EXCEPT ![t] = s]
               /\ s \in {Redirects(w), Listed(t, Says(w, "failed", None)), Shows(w, "message")}
  OBVIOUS
<1> HIDE DEF w
<1>4. CASE s = Redirects(w)
  <2>1. "redirect" \in Call \ {"none", "answer"} /\ w.call \notin {"none", "answer"}
    BY <1>1, <1>2 DEF Call
  <2>2. RequestGood(Calls(w, "redirect"), issued, lastId, Mine)
    BY <1>2, <2>1, CallsGood
  <2>3. QED
    BY <1>3, <1>4, <2>2 DEF MakesGood, Redirects, Calls
<1>5. CASE s = Listed(t, Says(w, "failed", None))
  <2>1. "failed" \in Sentence /\ w.call \notin {"none", "answer", "list"}
    BY <1>1, <1>2 DEF Sentence
  <2>2. RequestGood(Listed(t, Says(w, "failed", None)), issued, lastId, Mine)
    BY <1>1, <1>2, <2>1, ListedGood
  <2>3. QED
    BY <1>3, <1>5, <2>2 DEF MakesGood
<1>6. CASE s = Shows(w, "message")
  <2>1. RequestGood(Shows(w, "message"), issued, lastId, Mine)
    BY <1>2, ShowsGood DEF Screen
  <2>2. QED
    BY <1>3, <1>6, <2>1 DEF MakesGood
<1>7. QED
  BY <1>3, <1>4, <1>5, <1>6

LEMMA AddGood == ASSUME Types, Recorded, NEW t \in Tab, Add(t) PROVE MakesGood(t)
<1> DEFINE w == [req[t] EXCEPT !.wrote = TRUE]
<1>1. req[t].call = "add" /\ issued' = issued
  BY DEF Add, At
<1>2. \/ \E s \in {Redirects(w), Listed(t, Says(w, "failed", None)), Shows(w, "message")} :
           req' = [req EXCEPT ![t] = s]
      \/ RefuseKey(t, req[t])
  BY DEF Add, Becomes
<1>3. QED
  BY <1>1, <1>2, WrittenGood, RefuseKeyGood

LEMMA RemoveGood == ASSUME Types, Recorded, NEW t \in Tab, Remove(t) PROVE MakesGood(t)
<1> DEFINE r == req[t]
           w == [r EXCEPT !.wrote = TRUE]
<1>1. /\ r.call = "remove" /\ issued' = issued
      /\ None \in Arg /\ None \in 0..lastId /\ CallFits(r) /\ r.arg \in Arg
  BY GoodCall DEF Remove, At, Idle, RequestSet
<1>2. r.arg \in 0..lastId
  <2>1. r.op = "removal"
    BY <1>1 DEF CallFits
  <2>2. QED
    BY <2>1, GoodNow DEF RequestGood
<1>3. \/ \E s \in {Redirects(w), Listed(t, Says(w, "failed", None)), Shows(w, "message")} :
           req' = [req EXCEPT ![t] = s]
      \/ \E says \in Sentence, about \in Arg :
           /\ req' = [req EXCEPT ![t] = Listed(t, Says(r, says, about))]
           /\ about \in 0..lastId /\ (says = "absent" => about \notin Mine)
  BY <1>1, <1>2 DEF Remove, Becomes, Sentence
<1>4. QED
  BY <1>1, <1>3, WrittenGood, RefusedGood

\* No answer, or one that leaves no form.
LEMMA MessageGood ==
  ASSUME Types, Recorded, NEW t \in Tab, issued' = issued,
         NEW c \in {"message", "new"}, req' = [req EXCEPT ![t] = Shows(req[t], c)]
  PROVE  MakesGood(t)
<1>1. req[t] \in RequestSet /\ RequestGood(req[t], issued, lastId, Mine)
  BY GoodNow
<1>2. RequestGood(Shows(req[t], c), issued, lastId, Mine)
  BY <1>1, ShowsGood DEF Screen
<1>3. QED
  BY <1>2 DEF MakesGood

LEMMA SpacesGood == ASSUME Types, Recorded, NEW t \in Tab, Spaces(t) PROVE MakesGood(t)
BY MessageGood DEF Spaces, Becomes

LEMMA CreateGood == ASSUME Types, Recorded, NEW t \in Tab, Create(t) PROVE MakesGood(t)
<1> DEFINE r == req[t]
           w == [r EXCEPT !.wrote = TRUE]
<1>1. r.call = "create" /\ issued' = issued
  BY DEF Create, At
<1>2. \/ \E s \in {Redirects(w), Listed(t, Says(w, "failed", None)), Shows(w, "message")} :
           req' = [req EXCEPT ![t] = s]
      \/ req' = [req EXCEPT ![t] = Shows(r, "message")]
      \/ \E says \in {"taken", "refused"} :
           req' = [req EXCEPT ![t] = Calls(Says(r, says, None), "spaces")]
  BY DEF Create, Becomes, Unanswered
<1>3. ASSUME NEW says \in {"taken", "refused"},
             req' = [req EXCEPT ![t] = Calls(Says(r, says, None), "spaces")]
      PROVE  MakesGood(t)
  <2> DEFINE u == Says(r, says, None)
  <2>1. /\ r \in RequestSet /\ RequestGood(r, issued, lastId, Mine)
        /\ r.call \notin {"none", "answer", "list"} /\ None \in Arg /\ None \in 0..lastId
    BY <1>1, GoodCall DEF Idle, At
  <2>2. u \in RequestSet /\ RequestGood(u, issued, lastId, Mine) /\ u.call = r.call
    <3>1. says \in Sentence
      BY DEF Sentence
    <3>2. QED
      BY <2>1, <3>1, SaysGood
  <2> HIDE DEF u
  <2>3. "spaces" \in Call \ {"none", "answer"} /\ u.call \notin {"none", "answer"}
    BY <2>1, <2>2 DEF Call
  <2>4. RequestGood(Calls(u, "spaces"), issued, lastId, Mine)
    BY <2>2, <2>3, CallsGood
  <2>5. QED
    BY <1>1, <1>3, <2>4 DEF MakesGood, u
<1>4. QED
  BY <1>1, <1>2, <1>3, WrittenGood, MessageGood

LEMMA ResolveGood == ASSUME Types, Recorded, NEW t \in Tab, Resolve(t) PROVE MakesGood(t)
<1> DEFINE r == req[t]
           u == [r EXCEPT !.id = repos[r.arg]]
<1>1. r.call = "resolve" /\ issued' = issued
  BY DEF Resolve, At
<1>2. \/ req' = [req EXCEPT ![t] = Calls(u, "administers")]
      \/ req' = [req EXCEPT ![t] = Shows(r, "message")]
  BY DEF Resolve, Becomes
<1>3. CASE req' = [req EXCEPT ![t] = Calls(u, "administers")]
  <2>1. r \in RequestSet /\ RequestGood(r, issued, lastId, Mine) /\ CallFits(r)
    BY <1>1, GoodCall DEF Idle, At
  <2>2. r.arg \in Name
    BY <1>1, <2>1 DEF CallFits, Naming
  <2>3. repos[r.arg] \in Nat /\ repos[r.arg] \in 0..lastId
    BY <2>2 DEF Types, Recorded
  <2>4. /\ u.cookie = r.cookie /\ u.given = r.given /\ u.id = repos[r.arg] /\ u.op = r.op
        /\ u.arg = r.arg /\ u.call = "resolve" /\ u.page = r.page
    BY <1>1, <2>1 DEF RequestSet
  <2>5. u \in RequestSet
    BY <2>1, <2>3 DEF RequestSet
  <2> HIDE DEF u
  <2>6. RequestGood(u, issued, lastId, Mine)
    BY <1>1, <2>1, <2>3, <2>4 DEF RequestGood
  <2>7. "administers" \in Call \ {"none", "answer"} /\ u.call \notin {"none", "answer"}
    BY <2>4 DEF Call
  <2>8. RequestGood(Calls(u, "administers"), issued, lastId, Mine)
    BY <2>5, <2>6, <2>7, CallsGood
  <2>9. QED
    BY <1>1, <1>3, <2>8 DEF MakesGood
<1>4. QED
  BY <1>1, <1>2, <1>3, MessageGood

LEMMA ShowsDeleteGood ==
  ASSUME Types, Recorded, NEW t \in Tab, issued' = issued, NEW says \in {"", "refused"},
         req' = [req EXCEPT ![t] = ShowsDelete([req[t] EXCEPT !.page.says = says])]
  PROVE  MakesGood(t)
<1> DEFINE r == req[t]
           s == ShowsDelete([r EXCEPT !.page.says = says])
<1>1. r \in RequestSet /\ RequestGood(r, issued, lastId, Mine)
  BY GoodNow
<1>2. /\ s.cookie = r.cookie /\ s.given = r.given /\ s.id = r.id /\ s.op = r.op /\ s.arg = r.arg
      /\ s.call = "answer" /\ s.page.screen = "delete" /\ s.page.about = r.id
      /\ s.page.table = r.page.table /\ s.page.token = r.page.token
  BY <1>1 DEF RequestSet, PageSet, ShowsDelete, Shows
<1> HIDE DEF s
<1>3. PageGood(s.page, issued, lastId, Mine)
  BY <1>1, <1>2 DEF RequestGood, PageGood
<1>4. RequestGood(s, issued, lastId, Mine)
  BY <1>1, <1>2, <1>3, DrawnGood
<1>5. QED
  BY <1>4 DEF MakesGood, s

LEMMA AdministersGood == ASSUME Types, Recorded, NEW t \in Tab, Administers(t) PROVE MakesGood(t)
<1> DEFINE r == req[t]
<1>1. r.call = "administers" /\ issued' = issued
  BY DEF Administers, At
<1>2. /\ r \in RequestSet /\ RequestGood(r, issued, lastId, Mine) /\ Told(r)
      /\ r.call \notin {"none", "answer", "list"}
  BY <1>1, GoodCall DEF Idle, At
<1>3. r = [r EXCEPT !.page.says = ""]
  BY <1>1, <1>2 DEF RequestSet, PageSet, Told
<1>4. \/ \E says \in {"", "refused"} :
           req' = [req EXCEPT ![t] = ShowsDelete([r EXCEPT !.page.says = says])]
      \/ req' = [req EXCEPT ![t] = Calls(r, "forget")]
      \/ req' = [req EXCEPT ![t] = Shows(r, "message")]
  BY <1>3 DEF Administers, Becomes
<1>5. RequestGood(Calls(r, "forget"), issued, lastId, Mine)
  <2>1. "forget" \in Call \ {"none", "answer"} /\ r.call \notin {"none", "answer"}
    BY <1>2 DEF Call
  <2>2. QED
    BY <1>2, <2>1, CallsGood
<1>6. CASE req' = [req EXCEPT ![t] = Calls(r, "forget")]
  BY <1>1, <1>5, <1>6 DEF MakesGood
<1>7. QED
  BY <1>1, <1>4, <1>6, MessageGood, ShowsDeleteGood

LEMMA ForgetGood == ASSUME Types, Recorded, NEW t \in Tab, Forget(t) PROVE MakesGood(t)
<1> DEFINE r == req[t]
           w == [r EXCEPT !.wrote = TRUE]
<1>1. r.call = "forget" /\ issued' = issued
  BY DEF Forget, At
<1>2. \/ \E s \in {Redirects(w), Listed(t, Says(w, "failed", None)), Shows(w, "message")} :
           req' = [req EXCEPT ![t] = s]
      \/ req' = [req EXCEPT ![t] = ShowsDelete([r EXCEPT !.page.says = "refused"])]
      \/ req' = [req EXCEPT ![t] = Shows(r, "message")]
  BY DEF Forget, Becomes
<1>3. QED
  BY <1>1, <1>2, WrittenGood, MessageGood, ShowsDeleteGood

LEMMA HandleGood == ASSUME Types, Recorded, NEW t \in Tab, Handle(t) PROVE MakesGood(t)
BY RefuseGood, SignOutGood, BeginGood, ListGood, ParseGood, AddGood, RemoveGood, SpacesGood,
   CreateGood, ResolveGood, AdministersGood, ForgetGood DEF Handle

----------------------------------------------------------------------------
\* What a step does to the service: ids are only added, and the account does
\* not get one back.
ServiceKept ==
  /\ lastId <= lastId' /\ lastId' \in Nat /\ lastId' \in 0..MaxId
  /\ \A x \in keys' : x.key \in Key /\ x.id \in 0..lastId'
  /\ \A m \in Name : repos'[m] \in 0..lastId'
  /\ \A k \in 0..lastId : k \notin Mine => k \notin Mine'

LEMMA ServiceGood == ASSUME Types, Recorded, [Next]_vars PROVE ServiceKept
<1>1. /\ lastId \in Nat /\ MaxId \in Nat /\ lastId \in 0..MaxId /\ repos \in [Name -> Nat]
      /\ \A x \in keys : x.key \in Key /\ x.id \in 0..lastId
      /\ \A m \in Name : repos[m] \in 0..lastId
  BY FormsAssumption DEF Types, Recorded
<1>2. CASE UNCHANGED service
  BY <1>1, <1>2 DEF service, Mine, ServiceKept
<1>3. ASSUME NEW k \in Key, lastId < MaxId, lastId' = lastId + 1, repos' = repos,
             keys' = keys \cup {[key |-> k, id |-> lastId']}
      PROVE  ServiceKept
  <2>1. lastId <= lastId' /\ lastId' \in 0..MaxId /\ lastId' \notin 0..lastId
    BY <1>1, <1>3
  <2>2. \A x \in keys' : x.key \in Key /\ x.id \in 0..lastId'
    BY <1>1, <1>3, <2>1
  <2>3. \A m \in Name : repos'[m] \in 0..lastId'
    BY <1>1, <1>3, <2>1
  <2>4. ASSUME NEW i \in Mine' PROVE i \in Mine \/ i = lastId'
    <3>1. PICK x \in keys' : i = x.id
      BY <2>4 DEF Mine
    <3>2. CASE x \in keys
      BY <3>1, <3>2 DEF Mine
    <3>3. CASE x = [key |-> k, id |-> lastId']
      BY <3>1, <3>3
    <3>4. QED
      BY <1>3, <3>1, <3>2, <3>3
  <2>5. QED
    BY <2>1, <2>2, <2>3, <2>4 DEF ServiceKept
<1>4. ASSUME NEW n \in Name, lastId < MaxId, lastId' = lastId + 1, keys' = keys,
             repos' = [repos EXCEPT ![n] = lastId']
      PROVE  ServiceKept
  <2>1. lastId <= lastId' /\ lastId' \in 0..MaxId
    BY <1>1, <1>4
  <2>2. \A x \in keys' : x.key \in Key /\ x.id \in 0..lastId'
    BY <1>1, <1>4, <2>1
  <2>3. \A m \in Name : repos'[m] \in 0..lastId'
    BY <1>1, <1>4, <2>1
  <2>4. Mine' = Mine
    BY <1>4 DEF Mine
  <2>5. QED
    BY <2>1, <2>2, <2>3, <2>4 DEF ServiceKept
<1>5. ASSUME keys' \subseteq keys, UNCHANGED <<repos, lastId>> PROVE ServiceKept
  <2>1. lastId <= lastId' /\ lastId' \in 0..MaxId
    BY <1>1, <1>5
  <2>2. /\ \A x \in keys' : x.key \in Key /\ x.id \in 0..lastId'
        /\ \A m \in Name : repos'[m] \in 0..lastId'
    BY <1>1, <1>5
  <2>3. Mine' \subseteq Mine
    BY <1>5 DEF Mine
  <2>4. QED
    BY <2>1, <2>2, <2>3 DEF ServiceKept
<1>6. ASSUME NEW n \in Name, repos' = [repos EXCEPT ![n] = None], UNCHANGED <<keys, lastId>>
      PROVE  ServiceKept
  <2>1. lastId <= lastId' /\ lastId' \in 0..MaxId /\ None \in 0..lastId'
    BY <1>1, <1>6 DEF None
  <2>2. /\ \A x \in keys' : x.key \in Key /\ x.id \in 0..lastId'
        /\ \A m \in Name : repos'[m] \in 0..lastId'
    BY <1>1, <1>6, <2>1
  <2>3. Mine' = Mine
    BY <1>6 DEF Mine
  <2>4. QED
    BY <2>1, <2>2, <2>3 DEF ServiceKept
<1>7. CASE Elsewhere
  BY <1>3, <1>4, <1>5, <1>6, <1>7 DEF Elsewhere
<1>8. ASSUME NEW t \in Tab, Handle(t), ~UNCHANGED service PROVE ServiceKept
  <2>1. CASE Add(t)
    <3>1. req[t].arg \in Key
      BY <2>1, AtCall, GoodNow DEF Add, At, Idle, CallFits, RequestGood
    <3>2. QED
      BY <1>3, <1>8, <2>1, <3>1 DEF Add
  <2>2. CASE Remove(t)
    <3>1. keys' \subseteq keys /\ UNCHANGED <<repos, lastId>>
      BY <1>8, <2>2 DEF Remove
    <3>2. QED
      BY <1>5, <3>1
  <2>3. CASE Create(t)
    <3>1. req[t].arg \in Name
      BY <2>3, AtCall DEF Create, At, Idle, CallFits, Naming
    <3>2. QED
      BY <1>4, <1>8, <2>3, <3>1 DEF Create
  <2>4. CASE Forget(t)
    BY <1>6, <1>8, <2>4 DEF Forget, Forgets
  <2>5. QED
    BY <1>8, <2>1, <2>2, <2>3, <2>4
    DEF Handle, Refuse, SignOut, Begin, List, Parse, Spaces, Resolve, Administers
<1>9. ASSUME NEW t \in Tab, Open(t) \/ Submit(t) \/ GoBack(t) \/ Retry(t) \/ Receive(t) \/ Lose(t)
      PROVE  UNCHANGED service
  <2>1. CASE Open(t) \/ Submit(t) \/ GoBack(t) \/ Retry(t)
    <3>1. SendStep(t)
      BY <2>1, OpenStep, SubmitStep, GoBackStep, RetryStep
    <3>2. QED
      BY <3>1 DEF SendStep, service
  <2>2. CASE Receive(t) \/ Lose(t)
    BY <2>2 DEF Receive, Lose
  <2>3. QED
    BY <1>9, <2>1, <2>2
<1>10. QED
  BY <1>2, <1>7, <1>8, <1>9 DEF Next, vars, service

\* How the tokens go.
LEMMA TokensGrow ==
  ASSUME Types, Recorded, [Next]_vars
  PROVE  issued' \in Nat /\ issued <= issued'
<1>1. issued \in Nat
  BY DEF Types
<1>2. ASSUME NEW t \in Tab, Begin(t) PROVE issued' \in Nat /\ issued <= issued'
  BY <1>2, BeginGood
<1>3. ASSUME NEW t \in Tab, Handle(t), ~Begin(t) PROVE issued' = issued
  BY <1>3 DEF Handle, Refuse, SignOut, List, Parse, Add, Remove, Spaces, Create, Resolve,
              Administers, Forget
<1>4. ASSUME NEW t \in Tab, Open(t) \/ Submit(t) \/ GoBack(t) \/ Retry(t) PROVE issued' = issued
  <2>1. SendStep(t)
    BY <1>4, OpenStep, SubmitStep, GoBackStep, RetryStep
  <2>2. QED
    BY <2>1 DEF SendStep
<1>5. ASSUME NEW t \in Tab, Receive(t) \/ Lose(t) PROVE issued' = issued
  BY <1>5 DEF Receive, Lose
<1>6. CASE Elsewhere \/ UNCHANGED vars
  BY <1>1, <1>6 DEF Elsewhere, vars
<1>7. QED
  BY <1>1, <1>2, <1>3, <1>4, <1>5, <1>6 DEF Next

\* A page put in the place of t's is good as before.
LEMMA PageAgain ==
  ASSUME Types, Recorded, NEW t \in Tab,
         \/ page' = page \/ page' = [page EXCEPT ![t].again = "none"]
         \/ \E p : page' = [page EXCEPT ![t] = p] /\ PageGood(p, issued, lastId, Mine)
  PROVE  \A u \in Tab : PageGood(page'[u], issued, lastId, Mine)
<1>1. page \in [Tab -> PageSet] /\ \A u \in Tab : PageGood(page[u], issued, lastId, Mine)
  BY DEF Types, Recorded
<1>2. PageGood([page[t] EXCEPT !.again = "none"], issued, lastId, Mine)
  BY <1>1, AgainGood
<1>3. QED
  BY <1>1, <1>2

LEMMA PagesGood ==
  ASSUME Types, Recorded, [Next]_vars
  PROVE  \A u \in Tab : PageGood(page'[u], issued, lastId, Mine)
<1>1. ASSUME NEW t \in Tab, Open(t) \/ Submit(t) \/ GoBack(t) \/ Retry(t)
      PROVE  \A u \in Tab : PageGood(page'[u], issued, lastId, Mine)
  <2>1. SendStep(t)
    BY <1>1, OpenStep, SubmitStep, GoBackStep, RetryStep
  <2>2. page' = page \/ page' = [page EXCEPT ![t].again = "none"]
    BY <2>1 DEF SendStep
  <2>3. QED
    BY <2>2, PageAgain
<1>2. ASSUME NEW t \in Tab, Lose(t) PROVE \A u \in Tab : PageGood(page'[u], issued, lastId, Mine)
  BY <1>2, PageAgain DEF Lose
<1>3. ASSUME NEW t \in Tab, Receive(t) PROVE \A u \in Tab : PageGood(page'[u], issued, lastId, Mine)
  <2>1. PageGood(Blank, issued, lastId, Mine) /\ PageGood(Trying(req[t].page), issued, lastId, Mine)
    <3>1. /\ issued \in Nat /\ lastId \in Nat /\ req[t].page \in PageSet
          /\ PageGood(req[t].page, issued, lastId, Mine)
      BY GoodNow DEF RequestSet, RequestGood
    <3>2. PageGood(Blank, issued, lastId, Mine)
      BY <3>1, BlankGood
    <3>3. PageGood(Trying(req[t].page), issued, lastId, Mine)
      BY <3>1, AgainGood DEF Trying
    <3>4. QED
      BY <3>2, <3>3
  <2>2. page' = [page EXCEPT ![t] = Blank] \/ page' = [page EXCEPT ![t] = Trying(req[t].page)]
    BY <1>3 DEF Receive
  <2>3. QED
    BY <2>1, <2>2, PageAgain
<1>4. ASSUME page' = page PROVE \A u \in Tab : PageGood(page'[u], issued, lastId, Mine)
  BY <1>4 DEF Recorded
<1>5. ASSUME NEW t \in Tab, Handle(t) PROVE page' = page
  BY <1>5, HandleStep DEF Handled
<1>6. CASE Elsewhere \/ UNCHANGED vars
  BY <1>4, <1>6 DEF Elsewhere, vars
<1>7. QED
  BY <1>1, <1>2, <1>3, <1>4, <1>5, <1>6 DEF Next

LEMMA RequestsGood ==
  ASSUME Types, Recorded, [Next]_vars
  PROVE  \A u \in Tab : RequestGood(req'[u], issued', lastId, Mine)
<1>1. /\ req \in [Tab -> RequestSet] /\ issued \in Nat /\ lastId \in Nat
      /\ issued' \in Nat /\ issued <= issued'
  BY TokensGrow DEF Types
<1>2. \A u \in Tab : RequestGood(req[u], issued', lastId, Mine)
  <2>1. lastId <= lastId /\ \A k \in 0..lastId : k \notin Mine => k \notin Mine
    BY <1>1
  <2>2. \A u \in Tab : RequestGood(req[u], issued, lastId, Mine)
    BY DEF Recorded
  <2>3. QED
    BY <1>1, <2>1, <2>2, RequestStaysGood
<1>3. ASSUME NEW t \in Tab, MakesGood(t)
      PROVE  \A u \in Tab : RequestGood(req'[u], issued', lastId, Mine)
  BY <1>1, <1>2, <1>3 DEF MakesGood
<1>4. ASSUME NEW t \in Tab, Receive(t) \/ Lose(t) PROVE MakesGood(t)
  <2>1. jar \in 0..issued /\ issued' = issued
    BY <1>4 DEF Recorded, Receive, Lose
  <2>2. RequestGood(NoRequest, issued, lastId, Mine)
    BY <1>1, BlankGood
  <2>3. \A op \in {"keys", "home"} : RequestGood(Sent(t, op, None), issued, lastId, Mine)
    BY <1>1, <2>1, SentGood
  <2>4. \/ req' = [req EXCEPT ![t] = NoRequest]
        \/ \E op \in {"keys", "home"} : req' = [req EXCEPT ![t] = Sent(t, op, None)]
    BY <1>4 DEF Receive, Lose, Becomes
  <2>5. QED
    BY <2>1, <2>2, <2>3, <2>4 DEF MakesGood
<1>5. CASE Elsewhere \/ UNCHANGED vars
  BY <1>2, <1>5 DEF Elsewhere, vars
<1>6. QED
  BY <1>3, <1>4, <1>5, OpenGood, SubmitGood, GoBackGood, RetryGood, HandleGood DEF Next

LEMMA JarGood == ASSUME Types, Recorded, [Next]_vars PROVE jar' \in 0..issued'
<1>1. /\ issued \in Nat /\ issued' \in Nat /\ issued <= issued' /\ jar \in 0..issued
  BY TokensGrow DEF Types, Recorded
<1>2. ASSUME jar' = jar PROVE jar' \in 0..issued'
  BY <1>1, <1>2
<1>3. ASSUME NEW t \in Tab, Receive(t) PROVE jar' \in 0..issued'
  <2>1. req[t].given \in 0..issued /\ issued' = issued
    BY <1>3 DEF Recorded, RequestGood, Receive
  <2>2. QED
    BY <1>1, <1>3, <2>1 DEF Receive
<1>4. ASSUME NEW t \in Tab, Open(t) \/ Submit(t) \/ GoBack(t) \/ Retry(t) PROVE jar' = jar
  <2>1. SendStep(t)
    BY <1>4, OpenStep, SubmitStep, GoBackStep, RetryStep
  <2>2. QED
    BY <2>1 DEF SendStep
<1>5. ASSUME NEW t \in Tab, Handle(t) PROVE jar' = jar
  BY <1>5, HandleStep DEF Handled
<1>6. ASSUME NEW t \in Tab, Lose(t) PROVE jar' = jar
  BY <1>6 DEF Lose
<1>7. CASE Elsewhere \/ UNCHANGED vars
  BY <1>2, <1>7 DEF Elsewhere, vars
<1>8. QED
  BY <1>2, <1>3, <1>4, <1>5, <1>6, <1>7 DEF Next

LEMMA RecordedStep == ASSUME Types, Recorded, [Next]_vars PROVE Recorded'
<1>1. /\ issued \in Nat /\ issued' \in Nat /\ issued <= issued' /\ lastId \in Nat
  BY TokensGrow DEF Types
<1>2. /\ lastId' \in Nat /\ lastId <= lastId' /\ lastId' \in 0..MaxId
      /\ \A x \in keys' : x.key \in Key /\ x.id \in 0..lastId'
      /\ \A m \in Name : repos'[m] \in 0..lastId'
      /\ \A k \in 0..lastId : k \notin Mine => k \notin Mine'
  BY ServiceGood DEF ServiceKept
<1>3. \A u \in Tab : PageGood(page'[u], issued', lastId', Mine')
  BY <1>1, <1>2, PagesGood, PageStaysGood
<1>4. \A u \in Tab : RequestGood(req'[u], issued', lastId', Mine')
  <2>1. issued' <= issued'
    BY <1>1
  <2>2. QED
    BY <1>1, <1>2, <2>1, RequestsGood, RequestStaysGood
<1>5. QED
  BY <1>2, <1>3, <1>4, JarGood DEF Recorded

LEMMA InitRecorded == ASSUME Init PROVE Recorded
<1>1. MaxId \in Nat /\ keys = {} /\ issued = 0 /\ lastId = 0 /\ jar = None
      /\ repos = [n \in Name |-> None]
  BY FormsAssumption DEF Init
<1>2. \A t \in Tab : PageGood(page[t], issued, lastId, Mine) /\ RequestGood(req[t], issued, lastId, Mine)
  BY <1>1, BlankGood DEF Init
<1>3. QED
  BY <1>1, <1>2 DEF Recorded, None

THEOREM RecordedHolds == Spec => []Recorded
<1>1. Types /\ Recorded /\ [Next]_vars => Recorded'
  BY RecordedStep
<1>2. QED
  BY <1>1, InitRecorded, TypesHold, PTL DEF Spec

\* TableTells: a sentence is drawn over the list read after it was settled on,
\* and an id that is off the account does not come back.
THEOREM TablesTell == Spec => []TableTells
<1>1. Recorded => TableTells
  BY DEF Recorded, PageGood, TableTells
<1>2. QED
  BY <1>1, RecordedHolds, PTL

----------------------------------------------------------------------------
(***************************************************************************)
(* MaxToken is enough: a token is issued to a request sent without one,    *)
(* and once the browser has one every request carries it.  Lose is the     *)
(* only step that needs more, and it is guarded.                           *)
(***************************************************************************)

\* The tabs a token may yet be issued to.
Wanting ==
  {t \in Tab : /\ req[t].given = None
               /\ jar = None \/ (req[t].cookie = None /\ At(t, "begin"))}

\* A token is given by Begin, and to no form that was let through.
Comes(r) ==
  /\ r.call \in {"none", "begin"} => r.given = None
  /\ r.call \notin {"none", "begin", "answer"} /\ r.op \in Post => r.cookie # None

Room ==
  /\ \A t \in Tab : Comes(req[t])
  /\ issued + Cardinality(Wanting) <= MaxToken

\* Fewer tabs are left to want one.
LEMMA RoomShrinks ==
  ASSUME Types, Room, Wanting' \subseteq Wanting, issued' = issued
  PROVE  issued' + Cardinality(Wanting') <= MaxToken
<1>1. IsFiniteSet(Wanting)
  BY FormsAssumption, FS_Subset DEF Wanting
<1>2. Cardinality(Wanting') <= Cardinality(Wanting) /\ IsFiniteSet(Wanting')
  BY <1>1, FS_Subset
<1>3. Cardinality(Wanting) \in Nat /\ Cardinality(Wanting') \in Nat
  BY <1>1, <1>2, FS_CardinalityType
<1>4. issued \in Nat /\ MaxToken \in Nat /\ issued + Cardinality(Wanting) <= MaxToken
  BY FormsAssumption DEF Types, Room
<1>5. QED
  BY <1>2, <1>3, <1>4

\* One of them was given a token.
LEMMA RoomTaken ==
  ASSUME Types, Room, NEW t \in Wanting, Wanting' \subseteq Wanting \ {t}, issued' = issued + 1
  PROVE  issued' + Cardinality(Wanting') <= MaxToken
<1>1. IsFiniteSet(Wanting)
  BY FormsAssumption, FS_Subset DEF Wanting
<1>2. /\ IsFiniteSet(Wanting \ {t})
      /\ Cardinality(Wanting \ {t}) = Cardinality(Wanting) - 1
  BY <1>1, FS_RemoveElement
<1>3. Cardinality(Wanting') <= Cardinality(Wanting \ {t}) /\ IsFiniteSet(Wanting')
  BY <1>2, FS_Subset
<1>4. Cardinality(Wanting) \in Nat /\ Cardinality(Wanting') \in Nat
  BY <1>1, <1>3, FS_CardinalityType
<1>5. issued \in Nat /\ MaxToken \in Nat /\ issued + Cardinality(Wanting) <= MaxToken
  BY FormsAssumption DEF Types, Room
<1>6. QED
  BY <1>2, <1>3, <1>4, <1>5

\* How t's request enters into it, when the jar is as it was.
LEMMA WantingStep ==
  ASSUME Types, NEW t \in Tab, NEW s, req' = [req EXCEPT ![t] = s], jar' = jar,
         s.given = None /\ (jar = None \/ (s.cookie = None /\ s.call = "begin")) => t \in Wanting
  PROVE  Wanting' \subseteq Wanting
<1>1. req'[t] = s /\ \A u \in Tab : u # t => req'[u] = req[u]
  BY DEF Types
<1>2. QED
  BY <1>1 DEF Wanting, At

LEMMA ComesStep ==
  ASSUME Types, Room, NEW t \in Tab, NEW s, req' = [req EXCEPT ![t] = s], Comes(s)
  PROVE  \A u \in Tab : Comes(req'[u])
BY DEF Types, Room

\* What a handler that is the first does.
BegunOnce(t) ==
  \E s : /\ req' = [req EXCEPT ![t] = s] /\ s.cookie = req[t].cookie /\ s.op = req[t].op
         /\ s.call # "answer" /\ req[t].op \in Post => req[t].cookie # None
         /\ \/ s.given = None /\ issued' = issued
            \/ s.given # None /\ req[t].cookie = None /\ issued' = issued + 1

LEMMA BeginsOnce ==
  ASSUME Types, NEW t \in Tab, Handle(t), At(t, "begin"), req[t].given = None
  PROVE  BegunOnce(t)
<1> DEFINE q == req[t]
<1>1. q \in RequestSet /\ issued \in Nat /\ q.given = None
  BY DEF Types
<1>2. CASE Refuse(t)
  <2>1. PICK p : req' = [req EXCEPT ![t] = [q EXCEPT !.call = "answer", !.page = p]] /\ issued' = issued
    BY <1>2 DEF Refuse, Becomes
  <2>2. LET s == [q EXCEPT !.call = "answer", !.page = p] IN
        s.cookie = q.cookie /\ s.op = q.op /\ s.call = "answer" /\ s.given = q.given
    BY <1>1 DEF RequestSet
  <2>3. QED
    BY <1>1, <2>1, <2>2 DEF BegunOnce
<1>3. CASE SignOut(t)
  <2>1. req' = [req EXCEPT ![t] = SignsIn(q)] /\ issued' = issued
    BY <1>3 DEF SignOut, Becomes
  <2>2. LET s == SignsIn(q) IN
        s.cookie = q.cookie /\ s.op = q.op /\ s.call = "answer" /\ s.given = q.given
    BY <1>1 DEF RequestSet, SignsIn
  <2>3. QED
    BY <1>1, <2>1, <2>2 DEF BegunOnce
<1>4. CASE Begin(t)
  <2> DEFINE token == CSRFToken(q)
             given == IF token = q.cookie THEN None ELSE token
             r == [q EXCEPT !.page.token = token, !.given = given]
  <2>1. /\ r.given = given /\ r.cookie = q.cookie /\ r.op = q.op
    BY <1>1 DEF RequestSet
  <2>2. /\ issued' = IF given = None THEN issued ELSE token
        /\ \/ req' = [req EXCEPT ![t] = SignsIn(r)]
           \/ req' = [req EXCEPT ![t] = Shows(r, "message")]
           \/ req' = [req EXCEPT ![t] = Calls(r, FirstCall(r.op))]
        /\ q.op \in Post => q.cookie # None
    BY <2>1, <1>4 DEF Begin, Becomes, CSRFValid
  <2>3. \/ given = None /\ issued' = issued
        \/ given # None /\ q.cookie = None /\ issued' = issued + 1
    BY <1>1, <2>2 DEF CSRFToken, None
  <2>4. \A s \in {SignsIn(r), Shows(r, "message"), Calls(r, FirstCall(r.op))} :
          s.given = given /\ s.cookie = q.cookie /\ s.op = q.op
    BY <1>1, <2>1 DEF RequestSet, SignsIn, Shows, Calls
  <2> HIDE DEF token, given, r
  <2>5. QED
    BY <2>2, <2>3, <2>4 DEF BegunOnce
<1>5. QED
  BY <1>2, <1>3, <1>4 DEF Handle, At, List, Parse, Add, Remove, Spaces, Create, Resolve,
                          Administers, Forget

LEMMA RoomHandled == ASSUME Types, Room, NEW t \in Tab, Handle(t) PROVE Room'
<1>1. /\ Comes(req[t]) /\ jar' = jar
      /\ \E s \in RequestSet : req' = [req EXCEPT ![t] = s] /\ Stage(t, s) /\ s.call \notin {"none", "begin"}
  BY HandleStep DEF Handled, Room
<1>2. CASE At(t, "begin")
  <2>1. req[t].given = None
    BY <1>1, <1>2 DEF Comes, At
  <2>2. PICK s : /\ req' = [req EXCEPT ![t] = s] /\ s.cookie = req[t].cookie /\ s.op = req[t].op
                 /\ s.call # "answer" /\ req[t].op \in Post => req[t].cookie # None
                 /\ \/ s.given = None /\ issued' = issued
                    \/ s.given # None /\ req[t].cookie = None /\ issued' = issued + 1
    <3>1. BegunOnce(t)
      BY <1>2, <2>1, BeginsOnce
    <3>2. QED
      BY <3>1 DEF BegunOnce
  <2>3. s.call \notin {"none", "begin"}
    BY <1>1, <2>2 DEF Types
  <2>4. \A u \in Tab : Comes(req'[u])
    BY <2>2, <2>3, ComesStep DEF Comes
  <2>5. Wanting' \subseteq Wanting
    BY <1>1, <2>1, <2>2, <2>3, WantingStep DEF Wanting
  <2>6. CASE s.given # None /\ req[t].cookie = None /\ issued' = issued + 1
    <3>1. t \in Wanting
      BY <1>2, <2>1, <2>6 DEF Wanting
    <3>2. t \notin Wanting'
      BY <2>2, <2>6 DEF Wanting, Types
    <3>3. QED
      BY <2>4, <2>5, <2>6, <3>1, <3>2, RoomTaken DEF Room
  <2>7. QED
    BY <2>2, <2>4, <2>5, <2>6, RoomShrinks DEF Room
<1>3. CASE ~At(t, "begin")
  <2>1. PICK s \in RequestSet : /\ req' = [req EXCEPT ![t] = s] /\ Stage(t, s)
                               /\ s.call \notin {"none", "begin"}
    BY <1>1
  <2>2. s.given = req[t].given /\ s.cookie = req[t].cookie /\ s.op = req[t].op
    BY <1>3, <2>1 DEF Stage
  <2>3. req[t].call \notin {"none", "begin", "answer"}
    BY <1>3 DEF Handle, At, Refuse, SignOut, Begin, List, Parse, Add, Remove, Spaces, Create,
               Resolve, Administers, Forget
  <2>4. \A u \in Tab : Comes(req'[u])
    BY <1>1, <2>1, <2>2, <2>3, ComesStep DEF Comes
  <2>5. Wanting' \subseteq Wanting
    BY <1>1, <2>1, <2>2, WantingStep DEF Wanting
  <2>6. issued' = issued
    BY <1>3 DEF Handle, At, Refuse, SignOut, Begin, List, Parse, Add, Remove, Spaces, Create,
               Resolve, Administers, Forget
  <2>7. QED
    BY <2>4, <2>5, <2>6, RoomShrinks DEF Room
<1>4. QED
  BY <1>2, <1>3

LEMMA RoomSent == ASSUME Types, Room, NEW t \in Tab, SendStep(t) PROVE Room'
<1>1. PICK s \in RequestSet : /\ Idle(t) /\ req' = [req EXCEPT ![t] = s]
                             /\ s.call = "begin" /\ s.cookie = jar /\ s.given = None
                             /\ jar' = jar /\ issued' = issued
  BY DEF SendStep
<1>2. req[t].given = None
  BY <1>1 DEF Room, Comes, Idle
<1>3. \A u \in Tab : Comes(req'[u])
  BY <1>1, ComesStep DEF Comes
<1>4. Wanting' \subseteq Wanting
  BY <1>1, <1>2, WantingStep DEF Wanting
<1>5. QED
  BY <1>1, <1>3, <1>4, RoomShrinks DEF Room

LEMMA RestComes == Comes(NoRequest) /\ NoRequest.given = None /\ NoRequest.call = "none"
BY DEF Comes, NoRequest

LEMMA RoomLost == ASSUME Types, Room, NEW t \in Tab, Lose(t) PROVE Room'
<1>1. req' = [req EXCEPT ![t] = NoRequest] /\ jar' = jar /\ issued' = issued
  BY DEF Lose, Becomes
<1>2. \A u \in Tab : Comes(req'[u])
  BY <1>1, RestComes, ComesStep
<1>3. CASE jar # None
  <2>1. Wanting' \subseteq Wanting
    BY <1>1, <1>3, RestComes, WantingStep
  <2>2. QED
    BY <1>1, <1>2, <2>1, RoomShrinks DEF Room
<1>4. CASE issued + Cardinality(Tab) <= MaxToken
  <2>1. Wanting' \subseteq Tab
    BY DEF Wanting
  <2>2. Cardinality(Wanting') <= Cardinality(Tab) /\ IsFiniteSet(Wanting')
    BY <2>1, FormsAssumption, FS_Subset
  <2>3. Cardinality(Wanting') \in Nat /\ Cardinality(Tab) \in Nat
    BY <2>2, FormsAssumption, FS_CardinalityType
  <2>4. issued \in Nat /\ MaxToken \in Nat
    BY FormsAssumption DEF Types
  <2>5. issued' + Cardinality(Wanting') <= MaxToken
    BY <1>1, <1>4, <2>2, <2>3, <2>4
  <2>6. QED
    BY <1>2, <2>5 DEF Room
<1>5. QED
  BY <1>3, <1>4 DEF Lose

LEMMA RoomReceived == ASSUME Types, Room, NEW t \in Tab, Receive(t) PROVE Room'
<1> DEFINE r == req[t]
<1>1. /\ r \in RequestSet /\ RequestOK(r) /\ Comes(r) /\ issued' = issued
      /\ jar' = IF r.given # None THEN r.given ELSE jar
  BY DEF Types, Room, Receive
<1>2. PICK s : /\ req' = [req EXCEPT ![t] = s] /\ s.given = None
               /\ \/ s.call = "none"
                  \/ s.call = "begin" /\ s.cookie = jar /\ r.given = None
  <2>1. CASE At(t, "answer")
    BY <2>1, RestComes DEF Receive, Becomes, At
  <2>2. CASE At(t, "redirect")
    <3>1. r.op \in Post /\ r.cookie # None
      BY <1>1, <2>2 DEF At, RequestOK, Told, Comes, Writing, Post
    <3>2. r.given = None
      BY <1>1, <3>1 DEF RequestOK, Given
    <3>3. \A op : LET s == Sent(t, op, None) IN s.given = None /\ s.call = "begin" /\ s.cookie = jar
      BY DEF Sent, NoRequest
    <3>4. QED
      BY <2>2, <3>2, <3>3 DEF Receive, Becomes, At
  <2>3. QED
    BY <2>1, <2>2 DEF Receive
<1>3. \A u \in Tab : Comes(req'[u])
  BY <1>2, ComesStep DEF Comes
<1>4. CASE r.given = None
  <2>1. Wanting' \subseteq Wanting
    BY <1>1, <1>2, <1>4, WantingStep DEF Wanting
  <2>2. QED
    BY <1>1, <1>3, <2>1, RoomShrinks DEF Room
<1>5. CASE r.given # None
  <2>1. jar' # None /\ s.call = "none"
    BY <1>1, <1>2, <1>5
  <2>2. req'[t] = s /\ \A u \in Tab : u # t => req'[u] = req[u]
    BY <1>2 DEF Types
  <2>3. Wanting' \subseteq Wanting
    BY <2>1, <2>2 DEF Wanting, At
  <2>4. QED
    BY <1>1, <1>3, <2>3, RoomShrinks DEF Room
<1>6. QED
  BY <1>4, <1>5

THEOREM RoomHolds == Spec => []Room
<1>1. Init => Room
  <2>1. ASSUME Init PROVE Room
    <3>1. Wanting = Tab
      BY <2>1, RestComes DEF Init, Wanting
    <3>2. Cardinality(Tab) \in Nat /\ Cardinality(Tab) <= MaxToken /\ issued = 0 /\ MaxToken \in Nat
      BY <2>1, FormsAssumption, FS_CardinalityType DEF Init
    <3>3. QED
      BY <2>1, <3>1, <3>2, RestComes DEF Init, Room
  <2>2. QED
    BY <2>1
<1>2. Types /\ Room /\ [Next]_vars => Room'
  <2> SUFFICES ASSUME Types, Room, [Next]_vars PROVE Room'
    OBVIOUS
  <2>1. CASE UNCHANGED <<jar, issued, req>>
    <3>1. Wanting' = Wanting
      BY <2>1 DEF Wanting, At
    <3>2. QED
      BY <2>1, <3>1 DEF Room
  <2>2. ASSUME NEW t \in Tab, Open(t) \/ Submit(t) \/ GoBack(t) \/ Retry(t) PROVE Room'
    BY <2>2, OpenStep, SubmitStep, GoBackStep, RetryStep, RoomSent
  <2>3. QED
    BY <2>1, <2>2, RoomHandled, RoomReceived, RoomLost DEF Next, Elsewhere, vars
<1>3. QED
  BY <1>1, <1>2, TypesHold, PTL DEF Spec

\* TypeOK: the types, what is recorded, and the bound on tokens.
THEOREM TypeCorrect == Spec => []TypeOK
<1>1. ASSUME Types, Recorded, Room PROVE TypeOK
  <2>1. issued \in Nat /\ MaxToken \in Nat /\ issued <= MaxToken
    <3>1. IsFiniteSet(Wanting)
      BY FormsAssumption, FS_Subset DEF Wanting
    <3>2. Cardinality(Wanting) \in Nat
      BY <3>1, FS_CardinalityType
    <3>3. issued \in Nat /\ MaxToken \in Nat /\ issued + Cardinality(Wanting) <= MaxToken
      BY <1>1, FormsAssumption DEF Types, Room
    <3>4. QED
      BY <3>2, <3>3
  <2>2. lastId \in Id /\ 0..lastId \subseteq Id /\ 0..issued \subseteq 0..MaxToken
    BY <1>1, <2>1, FormsAssumption DEF Recorded, Id
  <2>3. keys \subseteq [key : Key, id : Id]
    BY <1>1, <2>2 DEF Types, Recorded
  <2>4. repos \in [Name -> Id]
    BY <1>1, <2>2 DEF Types, Recorded
  <2>5. ASSUME NEW t \in Tab
        PROVE  /\ page[t].token \in 0..MaxToken /\ page[t].table \subseteq Id /\ page[t].about \in Id
               /\ req[t].cookie \in 0..issued /\ req[t].given \in 0..issued /\ req[t].id \in Id
               /\ req[t].page.token \in 0..issued
    <3>1. PageGood(page[t], issued, lastId, Mine) /\ RequestGood(req[t], issued, lastId, Mine)
      BY <1>1 DEF Recorded
    <3>2. QED
      BY <2>2, <3>1 DEF PageGood, RequestGood
  <2>6. jar \in 0..issued /\ issued \in 0..MaxToken
    BY <1>1, <2>1 DEF Recorded
  <2>7. QED
    BY <2>2, <2>3, <2>4, <2>5, <2>6 DEF TypeOK
<1>2. QED
  BY <1>1, TypesHold, RecordedHolds, RoomHolds, PTL
=============================================================================
