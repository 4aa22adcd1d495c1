------------------------------ MODULE Screens ------------------------------
(***************************************************************************)
(* What one request does, from the session it carries to the screen it is  *)
(* answered with (internal/web): which calls the handler makes, in which   *)
(* order, with which of the reader's two tokens, and what every answer of  *)
(* Origo, the registry and the key store turns into.                       *)
(*                                                                         *)
(* A handler is its plan: the steps it takes while each of them succeeds.  *)
(* A step is a check of the handler's own or a call to a service.  A step  *)
(* that does not succeed answers the request, is skipped, or replaces the  *)
(* rest of the plan by the calls of the screen that says what went wrong.  *)
(* Where a handler may go two ways on the data it read, it has two plans.  *)
(***************************************************************************)
EXTENDS Naturals, Sequences

CONSTANT Asked  \* the screens a browser asks for

Pages == {"home", "signin", "byid", "docs", "unknown", "overview", "refs", "tree",
          "blob", "raw", "log", "commit", "patch", "compare", "tokens", "keys",
          "keyRemove", "new", "visibility", "delete", "notify"}
Forms == {"tokensPost", "keysPost", "keyRemovePost", "newPost", "visibilityPost",
          "deletePost", "signout"}

ASSUME ScreensAssumption == Asked \subseteq Pages \cup Forms

\* The calls, by the service that answers them.
OrigoCall == {"list", "resolve", "repo", "heads", "tags", "tree", "commits", "commit",
              "compare", "blob", "stream", "readme", "named", "records", "mint"}
RegistryCall == {"badge", "visibility", "set", "forget", "namespaces", "create"}
KeysCall == {"keys", "parse", "add", "remove"}
Call == OrigoCall \cup RegistryCall \cup KeysCall

\* The calls that change something at the service.
Write == {"set", "forget", "create", "add", "remove"}

\* The checks of the handlers themselves.
Check == {"csrf", "begin", "front", "token", "platform", "creation", "words", "entry",
          "parents", "picked", "clear"}

VARIABLES
  registry,  \* the installation names a registry
  request    \* the request being answered

vars == <<registry, request>>

\* session: Load accepted the session.  lapsed: it refused one, and cleared it.
\* tok, platform: the issuer minted the token for Origo, for the control plane.
\* page, status, notice, clears: the answer; notice is the sign-in page saying
\* the session was rejected.  refusedBy, wrote and owns are history: the calls
\* that refused a credential this request presented, the writes that took
\* effect, and the registry having answered that the reader administers.
Idle == [phase |-> "idle", screen |-> "home", plan |-> <<>>,
         session |-> FALSE, lapsed |-> FALSE, tok |-> FALSE, platform |-> FALSE,
         page |-> "none", status |-> 200, notice |-> FALSE, clears |-> FALSE,
         refusedBy |-> {}, wrote |-> {}, owns |-> FALSE]

Init == registry \in BOOLEAN /\ request = Idle

----------------------------------------------------------------------------
(***************************************************************************)
(* The plans.                                                              *)
(***************************************************************************)

\* openRepo: the session is read, and the repository resolved by its name.
OpenRepo == <<"begin", "resolve">>

Home     == {<<"begin", "list">>}
SignInAt == {<<"begin", "front">>}
ByID     == {<<"begin", "repo">>}
Docs     == {<<"begin">>}
Unknown  == {<<"begin">>}

\* The repository is empty, has no readme, or has one.
Overview == {OpenRepo \o <<"badge", "heads", "tags">> \o rest :
               rest \in {<<>>, <<"tree", "commits">>, <<"tree", "commits", "readme">>}}
Refs     == {OpenRepo \o <<"heads", "tags">>}
\* The references are asked first where the repository names no head.
Tree     == {OpenRepo \o rest :
               rest \in {<<"tree">>, <<"heads", "tags">>, <<"heads", "tags", "tree">>}}
\* findEntry: a path is named, and the directory holds it.
FindEntry == <<"entry", "tree", "entry">>
\* A file past the fetch limit is not fetched.
Blob     == {OpenRepo \o FindEntry, OpenRepo \o FindEntry \o <<"blob">>}
Raw      == {OpenRepo \o FindEntry \o <<"stream">>}
Log      == {OpenRepo \o <<"commits">>}
\* A commit with no parent is compared with nothing.
Commit   == {OpenRepo \o <<"commit">>, OpenRepo \o <<"commit", "compare">>}
Patch    == {OpenRepo \o <<"commit", "parents", "compare">>}
Compare  == {OpenRepo, OpenRepo \o <<"compare">>}

RenderTokens == {<<"list">>, <<"list", "named", "records">>}
Tokens       == {<<"begin", "token">> \o r : r \in RenderTokens}
TokensPost   == {<<"csrf", "begin", "token", "words", "repo", "mint">>}

Keys          == {<<"begin", "platform", "keys">>}
\* A paste is parsed and shown, and a confirmed one is stored.
KeysPost      == {<<"csrf", "begin", "platform", "words", "parse", "keys">>,
                  <<"csrf", "begin", "platform", "words", "add">>}
KeyRemove     == {<<"begin", "platform", "keys", "picked">>}
KeyRemovePost == {<<"csrf", "begin", "platform", "remove">>}

New     == {<<"begin", "creation", "platform", "namespaces">>}
NewPost == {<<"csrf", "begin", "creation", "platform", "words", "create">>}

\* administers: the registry is asked before a deletion is offered or made.
Administers    == <<"platform", "visibility">>
VisibilityPage == {OpenRepo \o Administers}
VisibilityPost == {<<"csrf">> \o OpenRepo \o <<"platform", "words", "set">>}
Delete         == {OpenRepo \o Administers}

\* Mutant of DeletePost: the screen asked who administers, and the form need not.
DeletePostUnasked == {<<"csrf">> \o OpenRepo \o <<"platform", "words", "forget">>}
DeletePost     == {<<"csrf">> \o OpenRepo \o Administers \o <<"words", "forget">>}

SignOut == {<<"csrf", "clear">>}
Notify  == {<<"words", "clear">>}

Plans ==
  [home |-> Home, signin |-> SignInAt, byid |-> ByID, docs |-> Docs, unknown |-> Unknown,
   overview |-> Overview, refs |-> Refs, tree |-> Tree, blob |-> Blob, raw |-> Raw,
   log |-> Log, commit |-> Commit, patch |-> Patch, compare |-> Compare,
   tokens |-> Tokens, tokensPost |-> TokensPost, keys |-> Keys, keysPost |-> KeysPost,
   keyRemove |-> KeyRemove, keyRemovePost |-> KeyRemovePost, new |-> New,
   newPost |-> NewPost, visibility |-> VisibilityPage, visibilityPost |-> VisibilityPost,
   delete |-> Delete, deletePost |-> DeletePost, signout |-> SignOut, notify |-> Notify]

\* The screens whose plan ends in a redirect.
Redirects == {"byid", "keyRemovePost", "newPost", "visibilityPost", "deletePost", "signout"}

----------------------------------------------------------------------------
(***************************************************************************)
(* What a service may answer, and how its client reads it.                 *)
(***************************************************************************)

\* Statuses 400, 401, 403, 404 or 410, 501 and the other 5xx; no answer at all;
\* and a 2xx whose body the client cannot read.
Common == {"invalid", "unauthenticated", "forbidden", "missing", "unserved", "failed",
           "unreachable", "garbled"}

\* A write with no body to read is never garbled.
Bodiless == {"set", "forget", "remove"}

\* The registry's and the key store's own refusals, by code, and Origo's 413.
Own(call) ==
  CASE call \in {"blob", "stream"} -> {"toolarge"}
    [] call = "create"             -> {"conflict", "limit", "origo_refused", "no_origo"}
    [] call = "forget"             -> {"conflict", "registered", "origo_refused", "no_origo"}
    [] call \in {"parse", "add"}   -> {"yours", "taken", "nokey"}
    [] call = "visibility"         -> {"reader"}  \* 200, and may not change it
    [] OTHER                       -> {}

Absent      == {"forbidden", "missing"}
Unavailable == {"unserved", "failed", "unreachable"}

\* registry.do: no registry is configured, or it serves no such route.  A
\* deletion's 404 is about the repository.
NoRegistry(call, a) == ~registry \/ (a = "missing" /\ call # "forget")

Presented(q, call) == IF call \in OrigoCall THEN q.tok ELSE q.platform

----------------------------------------------------------------------------
(***************************************************************************)
(* How a request is answered.  Each operator is the request as it becomes. *)
(***************************************************************************)

Ends(q, page, status) ==
  [q EXCEPT !.phase = "answered", !.plan = <<>>, !.page = page, !.status = status]

\* The rest of the plan is another screen's, whose answer has this status.
Instead(q, plan, status) == [q EXCEPT !.plan = plan, !.status = status]

Clear(q) == [q EXCEPT !.clears = TRUE]
ClearIfPresented(q) == IF q.tok THEN Clear(q) ELSE q

\* Mutant of SignIn: the notice follows the session and not the credential.
SignInSession(q, status) == [Ends(q, "signin", status) EXCEPT !.notice = q.session]

\* signInPage: the notice follows the token for Origo.
SignIn(q, status) == [Ends(q, "signin", status) EXCEPT !.notice = q.tok]

NotFound(q)   == Ends(q, "notfound", 404)
Gone(q)       == Ends(q, "unavailable", 502)
Broken(q)     == Ends(q, "broken", 502)
NoCreation(q) == Ends(q, "nocreation", 404)

\* Mutants of ReadFailed: a refusal clears whatever was presented, and a 403
\* is told apart from a 404.
ReadFailedClears(q, a) ==
  CASE a = "unauthenticated" -> SignIn(Clear(q), 401)
    [] a \in Absent          -> NotFound(q)
    [] a \in Unavailable     -> Gone(q)
    [] OTHER                 -> Broken(q)
ReadFailedTells(q, a) ==
  CASE a = "unauthenticated" -> SignIn(ClearIfPresented(q), 401)
    [] a = "missing"         -> NotFound(q)
    [] a \in Unavailable     -> Gone(q)
    [] OTHER                 -> Broken(q)

ReadFailed(q, a) ==
  CASE a = "unauthenticated" -> SignIn(ClearIfPresented(q), 401)
    [] a \in Absent          -> NotFound(q)
    [] a \in Unavailable     -> Gone(q)
    [] OTHER                 -> Broken(q)

\* The repository answered: what is missing is inside it.
ReadFailedIn(q, a) == IF a \in Absent THEN Ends(q, "notfoundin", 404) ELSE ReadFailed(q, a)

\* handleHome: a visitor who presented nothing is asked to sign in, not refused;
\* any other refusal is the screen without a directory.
HomeRefused(q, a) ==
  IF a = "unauthenticated" THEN SignIn(ClearIfPresented(q), IF q.tok THEN 401 ELSE 200)
  ELSE [q EXCEPT !.plan = Tail(@)]

\* renderTokens: the same, at its own address.
TokensRefused(q, a) ==
  IF a = "unauthenticated" THEN SignIn(ClearIfPresented(q), 401)
  ELSE [q EXCEPT !.plan = Tail(@)]

MintRefused(q, a) ==
  {CASE a = "unauthenticated" -> SignIn(ClearIfPresented(q), 401)
     [] a \in Absent          -> Instead(q, plan, 404)
     [] a \in Unavailable     -> Gone(q)
     [] OTHER                 -> Instead(q, plan, 502) : plan \in RenderTokens}

\* Mutant of KeysUnlisted: the status of the screen it is drawn for is dropped.
KeysUnlistedUnset(q, a) ==
  IF a = "unauthenticated" THEN SignIn(Clear(q), 401)
  ELSE Ends(q, "page", IF q.status = 200 THEN 0 ELSE q.status)

\* renderKeys: a store that cannot list says so on the screen.
KeysUnlisted(q, a) ==
  IF a = "unauthenticated" THEN SignIn(Clear(q), 401)
  ELSE Ends(q, "page", IF q.status = 200 THEN 502 ELSE q.status)

RefuseKey(q, a) ==
  CASE a = "unauthenticated"   -> SignIn(Clear(q), 401)
    [] a \in {"yours", "taken"} -> Instead(q, <<"keys">>, 409)
    [] a = "nokey"              -> Instead(q, <<"keys">>, 400)
    [] OTHER                   -> Instead(q, <<"keys">>, 502)

\* Mutant of RemoveRefused: a refused credential is like any other failure.
RemoveRefusedKept(q, a) ==
  IF a = "missing" THEN Instead(q, <<"keys">>, 404) ELSE Instead(q, <<"keys">>, 502)

RemoveRefused(q, a) ==
  CASE a = "unauthenticated" -> SignIn(Clear(q), 401)
    [] a = "missing"         -> Instead(q, <<"keys">>, 404)
    [] OTHER                 -> Instead(q, <<"keys">>, 502)

NamespacesRefused(q, a) ==
  IF NoRegistry("namespaces", a) THEN NoCreation(q)
  ELSE IF a = "unauthenticated" THEN SignIn(Clear(q), 401)
  ELSE Gone(q)

CreateRefused(q, a) ==
  IF NoRegistry("create", a) \/ a = "no_origo" THEN NoCreation(q) ELSE
  CASE a = "unauthenticated"                        -> SignIn(Clear(q), 401)
    [] a = "forbidden"                              -> Instead(q, <<"namespaces">>, 403)
    [] a \in {"conflict", "limit", "origo_refused"} -> Instead(q, <<"namespaces">>, 409)
    [] a = "invalid"                                -> Instead(q, <<"namespaces">>, 400)
    [] OTHER                                        -> Gone(q)

VisibilityFailed(q, call, a) ==
  IF NoRegistry(call, a) \/ a \in Absent THEN NotFound(q)
  ELSE IF a = "unauthenticated" THEN SignIn(Clear(q), 401)
  ELSE Gone(q)

DeleteRefused(q, a) ==
  IF a \in {"conflict", "registered", "origo_refused", "no_origo"} THEN Ends(q, "page", 409)
  ELSE VisibilityFailed(q, "forget", a)

\* A call whose failure the screen does not stop for: the badge, the readme, and
\* the two probes of the token screen, the second of which needs the first.
Skips(q, call) == [q EXCEPT !.plan = IF call = "named" THEN <<>> ELSE Tail(@)]

\* The requests q may become when call is answered a, which is not a success.
Failed(q, call, a) ==
  CASE call \in {"badge", "readme", "named", "records"} -> {Skips(q, call)}
    [] call = "list" -> {IF q.screen = "home" THEN HomeRefused(q, a) ELSE TokensRefused(q, a)}
    [] call = "mint" -> MintRefused(q, a)
    [] call = "repo" -> IF q.screen = "tokensPost" THEN MintRefused(q, a) ELSE {ReadFailed(q, a)}
    [] call = "resolve" -> {ReadFailed(q, a)}
    [] call \in {"heads", "tags", "tree", "commits", "commit", "compare", "blob", "stream"} ->
         {IF a = "toolarge" THEN Ends(q, "page", 200) ELSE ReadFailedIn(q, a)}
    [] call = "keys" -> {KeysUnlisted(q, a)}
    [] call \in {"parse", "add"} -> {RefuseKey(q, a)}
    [] call = "remove" -> {RemoveRefused(q, a)}
    [] call = "namespaces" -> {NamespacesRefused(q, a)}
    [] call = "create" -> {CreateRefused(q, a)}
    [] call \in {"visibility", "set"} ->
         {IF a = "reader" THEN NotFound(q) ELSE VisibilityFailed(q, call, a)}
    [] call = "forget" -> {DeleteRefused(q, a)}

----------------------------------------------------------------------------
(***************************************************************************)
(* The steps.                                                              *)
(***************************************************************************)

Ask(s) ==
  /\ request.phase = "idle"
  /\ \E plan \in Plans[s] :
       request' = [Idle EXCEPT !.phase = "asked", !.screen = s, !.plan = plan]
  /\ UNCHANGED registry

Seen ==
  /\ request.phase = "answered"
  /\ request' = Idle
  /\ UNCHANGED registry

At(step) == request.phase = "asked" /\ request.plan # <<>> /\ Head(request.plan) = step
Becomes(q) == request' = q /\ UNCHANGED registry
Passed == [request EXCEPT !.plan = Tail(@)]

\* CSRFValid: refused before anything is read.
CheckForm ==
  /\ At("csrf")
  /\ Becomes(Passed) \/ Becomes(Ends(request, "expired", 403))

\* begin and Read: no session, one Load refused and cleared, or a live one for
\* which the issuer mints each of the two tokens or does not.
Begin ==
  /\ At("begin")
  /\ \/ Becomes(Passed)
     \/ Becomes([Passed EXCEPT !.lapsed = TRUE, !.clears = TRUE])
     \/ \E tok, platform \in BOOLEAN :
          Becomes([Passed EXCEPT !.session = TRUE, !.tok = tok, !.platform = platform])

\* handleSignIn: somebody whose token was minted is sent on.
Front ==
  /\ At("front")
  /\ Becomes(IF request.tok THEN Ends(request, "redirect", 302) ELSE SignIn(request, 200))

\* The token screens ask a reader with no token for Origo to sign in.
CheckToken ==
  /\ At("token")
  /\ Becomes(IF request.tok THEN Passed ELSE SignIn(request, 200))

\* requirePlatform: a live session the issuer would not mint for is told so, and
\* nobody at all is asked to sign in.
RequirePlatform ==
  /\ At("platform")
  /\ Becomes(IF request.platform THEN Passed
             ELSE IF request.session THEN Ends(request, "fault", 502)
             ELSE SignIn(request, 200))

\* CanCreate: the installation names a registry.
CheckCreation ==
  /\ At("creation")
  /\ Becomes(IF registry THEN Passed ELSE NoCreation(request))

\* What was typed into the form, or which address the frame is loaded from: it
\* is taken, or the form comes back.
CheckWords ==
  /\ At("words")
  /\ \/ Becomes(Passed)
     \/ \E plan \in CASE request.screen = "tokensPost" -> RenderTokens
                      [] request.screen = "keysPost"   -> {<<"keys">>}
                      [] request.screen = "newPost"    -> {<<"namespaces">>}
                      [] OTHER                         -> {<<>>} :
          Becomes(IF plan = <<>> THEN Ends(request, "page", 400)
                  ELSE Instead(request, plan, 400))

\* findEntry and handlePatch: the path or the parent is there, or it is not.
CheckEntry ==
  /\ At("entry") \/ At("parents")
  /\ Becomes(Passed) \/ Becomes(NotFound(request))

\* pickRemoving: the key is in the list just read, or it is not.
CheckPicked ==
  /\ At("picked")
  /\ Becomes(Passed) \/ Becomes(Ends(request, "page", 404))

\* handleSignOut and LogoutNotify.
EndSession ==
  /\ At("clear")
  /\ Becomes(Clear(Passed))

\* The badge is neither asked for nor shown without a token for the control plane.
SkipBadge ==
  /\ At("badge")
  /\ ~request.platform
  /\ Becomes(Passed)

\* The registry, where there is one, and the other services answer a call and do
\* what it asks.  The registry's badge may be an answer reused from before.
Succeed(call) ==
  /\ At(call)
  /\ call = "badge" => request.platform
  /\ call \in RegistryCall => registry
  /\ Becomes([Passed EXCEPT
       !.wrote = IF call \in Write THEN @ \cup {call} ELSE @,
       !.owns = @ \/ call = "visibility"])

\* A call is not answered with a success.  A write whose answer never arrived, or
\* arrived unreadable, may have taken effect.
Refuse(call) ==
  /\ At(call)
  /\ call = "badge" => request.platform
  /\ \E a \in Common \cup Own(call) :
       /\ call \in RegistryCall /\ ~registry => a = "missing"
       /\ call \in Bodiless => a # "garbled"
       /\ \E lost \in BOOLEAN :
            /\ lost => call \in Write /\ a \in {"unreachable", "garbled"}
            /\ LET q == [request EXCEPT
                  !.refusedBy = IF a = "unauthenticated" /\ Presented(request, call)
                                THEN @ \cup {call} ELSE @,
                  !.wrote = IF lost THEN @ \cup {call} ELSE @] IN
               \E next \in Failed(q, call, a) : Becomes(next)

\* The plan has been carried out.
Render ==
  /\ request.phase = "asked" /\ request.plan = <<>>
  /\ Becomes(IF request.screen \in Redirects /\ request.status = 200
             THEN Ends(request, "redirect", 303)
             ELSE Ends(request, "page",
                       IF request.screen = "unknown" THEN 404 ELSE request.status))

Next ==
  \/ \E s \in Asked : Ask(s)
  \/ CheckForm \/ Begin \/ Front \/ CheckToken \/ RequirePlatform \/ CheckCreation
  \/ CheckWords \/ CheckEntry \/ CheckPicked \/ EndSession \/ SkipBadge
  \/ \E call \in Call : Succeed(call) \/ Refuse(call)
  \/ Render \/ Seen

Spec == Init /\ [][Next]_vars

----------------------------------------------------------------------------
TypeOK ==
  /\ registry \in BOOLEAN
  /\ request.phase \in {"idle", "asked", "answered"}
  /\ request.screen \in Pages \cup Forms
  /\ request.plan \in Seq(Call \cup Check)
  /\ request.status \in {200, 302, 303, 400, 401, 403, 404, 409, 502}
  /\ request.refusedBy \subseteq Call /\ request.wrote \subseteq Write

Answered == request.phase = "answered"

\* readFailed, handleHome and the failure paths of every screen: an answer that
\* takes the session away answers a credential this request itself presented
\* and a service refused, a session Load refused, or a sign-out.  A refusal of
\* a call that carried no token ends nobody's session.
ClearsOnlyRefused ==
  Answered /\ request.clears =>
    request.refusedBy # {} \/ request.lapsed \/ request.screen \in {"signout", "notify"}

\* signInPage: "A session that presented nothing was not refused, it was never
\* asked."  The page says the session was rejected only when one was.
NoticeOnlyRefused == Answered /\ request.notice => request.refusedBy # {}

\* signInPage: the notice "follows the credential the request actually carried".
\* The sign-in page a refused credential leads to says so.
NoticeWhenRefused ==
  Answered /\ request.page = "signin" /\ request.refusedBy # {} => request.notice

\* signInPage: "Nobody is signed in on this page ... the session behind a refusal
\* has just been cleared, and there was never one behind the front door."
NobodySignedIn ==
  Answered /\ request.page = "signin" => ~request.session \/ request.clears

\* keys.Unauthenticated and origo.Unauthenticated: "The caller clears the session
\* and sends the person to sign in once"; registry.Unauthenticated: it "ends the
\* same way every other refused credential does".
EndsOn(calls) ==
  Answered /\ request.refusedBy \cap calls # {} => request.clears /\ request.page = "signin"

KeysRefusalEnds     == EndsOn(KeysCall)
OrigoRefusalEnds    == EndsOn(OrigoCall)
RegistryRefusalEnds == EndsOn(RegistryCall)

\* origo.Absent: Origo "answers 403 and 404 to exactly the same question ... and
\* one sentence covers both".  No screen answers the one otherwise than the
\* other, for any call to Origo it may be at.
OneRefusal ==
  request.phase = "asked" /\ request.plan # <<>> /\ Head(request.plan) \in OrigoCall =>
    Failed(request, Head(request.plan), "forbidden")
      = Failed(request, Head(request.plan), "missing")

\* administers: a repository is deleted only in a request in which the registry
\* had answered that this person administers it, and whose form was valid.
DeletesOnlyOwned == "forget" \in request.wrote => request.owns

\* deleteRefused: "Nothing was deleted in any of these."
NothingDeleted == Answered /\ "forget" \in request.wrote => request.page = "redirect"
=============================================================================
