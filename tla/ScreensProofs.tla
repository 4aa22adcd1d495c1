--------------------------- MODULE ScreensProofs ---------------------------
(***************************************************************************)
(* Screens, for every set of screens that are asked for: a session is      *)
(* taken away, and said to be rejected, only after a refusal; a refusal of *)
(* the key store always ends it; and no repository is deleted in a request *)
(* whose reader was not found to administer it.                            *)
(***************************************************************************)
EXTENDS Screens, SequenceTheorems, TLAPS

Page == {"none", "signin", "notfound", "notfoundin", "unavailable", "broken", "nocreation",
         "page", "expired", "redirect", "fault"}
Status == {200, 302, 303, 400, 401, 403, 404, 409, 502}

Request == [phase : {"idle", "asked", "answered"}, screen : Pages \cup Forms,
            plan : Seq(Call \cup Check),
            session : BOOLEAN, lapsed : BOOLEAN, tok : BOOLEAN, platform : BOOLEAN,
            page : Page, status : Status, notice : BOOLEAN, clears : BOOLEAN,
            refusedBy : SUBSET Call, wrote : SUBSET Write, owns : BOOLEAN]

\* The steps a handler takes with the token for the control plane in hand, the
\* forms that come back with a list among them.
Needs(s) == (RegistryCall \ {"badge"}) \cup KeysCall
              \cup (IF s \in {"keysPost", "newPost"} THEN {"words"} ELSE {})

\* What is left of a plan: it takes the session away on two screens only, it
\* deletes after the registry was asked who administers, it does what needs the
\* token after the check for it, and it reads the session once.
PlanOK(plan, s, platform, owns) ==
  \A i \in 1..Len(plan) :
    /\ plan[i] = "clear" => s \in {"signout", "notify"}
    /\ plan[i] = "forget" => owns = TRUE \/ \E j \in 1..(i - 1) : plan[j] = "visibility"
    /\ plan[i] \in Needs(s) => platform = TRUE \/ \E j \in 1..(i - 1) : plan[j] = "platform"
    /\ plan[i] = "begin" => platform = FALSE /\ \A j \in 1..(i - 1) : plan[j] # "begin"

\* What holds of a request whatever became of its last call.
Sound(q) ==
  /\ PlanOK(q.plan, q.screen, q.platform, q.owns)
  /\ q.tok = TRUE => q.session = TRUE
  /\ q.clears = TRUE => \/ q.refusedBy # {} \/ q.lapsed = TRUE
                        \/ q.screen \in {"signout", "notify"}
  /\ q.notice = TRUE => q.refusedBy # {}
  /\ "forget" \in q.wrote => q.owns = TRUE

\* The answer that says the session is gone.
SignedOut(q) == q.phase = "answered" /\ q.clears = TRUE /\ q.page = "signin"

SInv ==
  /\ registry \in BOOLEAN
  /\ request \in Request /\ Sound(request)
  /\ request.refusedBy \cap KeysCall # {} => SignedOut(request)

----------------------------------------------------------------------------
(***************************************************************************)
(* The plans.                                                              *)
(***************************************************************************)

\* Steps that neither read a session nor take it away, write through the
\* registry, or wait for the token of the control plane.
Harmless == (Call \cup Check)
              \ ({"begin", "clear", "words"} \cup (RegistryCall \ {"badge"}) \cup KeysCall)

LEMMA HarmlessIsOK ==
  ASSUME NEW plan \in Seq(Harmless), NEW s, NEW p, NEW o
  PROVE  /\ plan \in Seq(Call \cup Check) /\ PlanOK(plan, s, p, o)
         /\ \A i \in 1..Len(plan) : plan[i] # "begin"
<1>1. Harmless \subseteq Call \cup Check
  BY DEF Harmless
<1>2. plan \in Seq(Call \cup Check)
  BY <1>1
<1>3. ASSUME NEW x \in Harmless PROVE x # "clear" /\ x # "forget" /\ x # "begin" /\ x \notin Needs(s)
  BY <1>3 DEF Harmless, Needs, RegistryCall
<1>4. \A i \in 1..Len(plan) : plan[i] \in Harmless
  OBVIOUS
<1>5. QED
  BY <1>2, <1>3, <1>4 DEF PlanOK

LEMMA HarmlessSteps ==
  {"csrf", "front", "token", "platform", "creation", "entry", "parents", "picked",
   "list", "resolve", "repo", "heads", "tags", "tree", "commits", "commit", "compare", "blob",
   "stream", "readme", "named", "records", "mint", "badge"} \subseteq Harmless
BY DEF Harmless, Call, Check, OrigoCall, RegistryCall, KeysCall

LEMMA StepNames ==
  {"csrf", "begin", "platform", "creation", "words", "picked", "clear", "resolve", "repo", "mint",
   "token", "visibility", "set", "forget", "namespaces", "create", "keys", "parse", "add",
   "remove"} \subseteq Call \cup Check
BY DEF Call, Check, OrigoCall, RegistryCall, KeysCall

\* A plan made of two: what the second one needs, the first has seen to.
LEMMA PlanInParts ==
  ASSUME NEW a \in Seq(Call \cup Check), NEW b \in Seq(Call \cup Check), NEW s, NEW p, NEW o,
         PlanOK(a, s, FALSE, FALSE), PlanOK(b, s, p, o),
         p = TRUE => \E j \in 1..Len(a) : a[j] = "platform",
         o = TRUE => \E j \in 1..Len(a) : a[j] = "visibility",
         \A i \in 1..Len(b) : b[i] # "begin"
  PROVE  a \o b \in Seq(Call \cup Check) /\ PlanOK(a \o b, s, FALSE, FALSE)
<1> DEFINE c == a \o b
           n == Len(a)
           m == Len(b)
<1>1. /\ c \in Seq(Call \cup Check) /\ n \in Nat /\ m \in Nat /\ Len(c) = n + m
      /\ \A i \in 1..(n + m) : c[i] = IF i <= n THEN a[i] ELSE b[i - n]
  BY ConcatProperties
<1> HIDE DEF c, n, m
<1>2. ASSUME NEW i \in 1..n PROVE i \in 1..(n + m) /\ c[i] = a[i]
  BY <1>1
<1>3. ASSUME NEW i \in 1..(n + m), ~(i <= n)
      PROVE  i - n \in 1..m /\ c[i] = b[i - n]
  BY <1>1, <1>3
<1>4. ASSUME NEW i \in 1..n
      PROVE  /\ c[i] = "clear" => s \in {"signout", "notify"}
             /\ c[i] = "forget" => \E j \in 1..(i - 1) : c[j] = "visibility"
             /\ c[i] \in Needs(s) => \E j \in 1..(i - 1) : c[j] = "platform"
             /\ c[i] = "begin" => \A j \in 1..(i - 1) : c[j] # "begin"
  <2>1. /\ a[i] = "clear" => s \in {"signout", "notify"}
        /\ a[i] = "forget" => \E j \in 1..(i - 1) : a[j] = "visibility"
        /\ a[i] \in Needs(s) => \E j \in 1..(i - 1) : a[j] = "platform"
        /\ a[i] = "begin" => \A j \in 1..(i - 1) : a[j] # "begin"
    BY DEF PlanOK, n
  <2>2. \A j \in 1..(i - 1) : j \in 1..n
    BY <1>1
  <2>3. QED
    BY <1>2, <2>1, <2>2
<1>5. ASSUME NEW i \in 1..(n + m), ~(i <= n)
      PROVE  /\ c[i] = "clear" => s \in {"signout", "notify"}
             /\ c[i] = "forget" => \E j \in 1..(i - 1) : c[j] = "visibility"
             /\ c[i] \in Needs(s) => \E j \in 1..(i - 1) : c[j] = "platform"
             /\ c[i] # "begin"
  <2> DEFINE k == i - n
  <2>1. k \in 1..m /\ c[i] = b[k]
    BY <1>3, <1>5
  <2>2. /\ b[k] = "clear" => s \in {"signout", "notify"}
        /\ b[k] = "forget" => o = TRUE \/ \E j \in 1..(k - 1) : b[j] = "visibility"
        /\ b[k] \in Needs(s) => p = TRUE \/ \E j \in 1..(k - 1) : b[j] = "platform"
        /\ b[k] # "begin"
    BY <2>1 DEF PlanOK, m
  <2>3. \A j \in 1..n : j \in 1..(i - 1) /\ c[j] = a[j]
    BY <1>1, <1>2, <1>5
  <2>4. ASSUME NEW j \in 1..(k - 1)
        PROVE  n + j \in 1..(i - 1) /\ c[n + j] = b[j]
    <3>1. n + j \in 1..(n + m) /\ ~(n + j <= n) /\ (n + j) - n = j /\ n + j \in 1..(i - 1)
      BY <1>1, <1>5
    <3>2. c[n + j] = b[(n + j) - n]
      BY <1>3, <3>1
    <3>3. QED
      BY <3>1, <3>2
  <2>5. /\ p = TRUE => \E j \in 1..(i - 1) : c[j] = "platform"
        /\ o = TRUE => \E j \in 1..(i - 1) : c[j] = "visibility"
    BY <2>3 DEF n
  <2> HIDE DEF k
  <2>6. QED
    BY <2>1, <2>2, <2>4, <2>5
<1>6. ASSUME NEW i \in 1..Len(c)
      PROVE  /\ c[i] = "clear" => s \in {"signout", "notify"}
             /\ c[i] = "forget" => FALSE = TRUE \/ \E j \in 1..(i - 1) : c[j] = "visibility"
             /\ c[i] \in Needs(s) => FALSE = TRUE \/ \E j \in 1..(i - 1) : c[j] = "platform"
             /\ c[i] = "begin" => FALSE = FALSE /\ \A j \in 1..(i - 1) : c[j] # "begin"
  <2>1. i \in 1..(n + m)
    BY <1>1
  <2>2. CASE i <= n
    <3>1. i \in 1..n
      BY <1>1, <2>1, <2>2
    <3>2. QED
      BY <1>4, <3>1
  <2>3. CASE ~(i <= n)
    BY <1>5, <2>1, <2>3
  <2>4. QED
    BY <2>2, <2>3
<1>7. PlanOK(c, s, FALSE, FALSE)
  BY <1>6 DEF PlanOK
<1>8. QED
  BY <1>1, <1>7 DEF c

LEMMA Onward ==
  ASSUME NEW s, NEW a \in Seq(Call \cup Check), PlanOK(a, s, FALSE, FALSE), NEW b \in Seq(Harmless)
  PROVE  a \o b \in Seq(Call \cup Check) /\ PlanOK(a \o b, s, FALSE, FALSE)
<1>1. /\ b \in Seq(Call \cup Check) /\ PlanOK(b, s, FALSE, FALSE)
      /\ \A i \in 1..Len(b) : b[i] # "begin"
  BY HarmlessIsOK
<1>2. QED
  BY <1>1, PlanInParts

LEMMA OpenRepoOK ==
  ASSUME NEW s
  PROVE  /\ OpenRepo \in Seq(Call \cup Check) /\ PlanOK(OpenRepo, s, FALSE, FALSE)
         /\ <<"csrf">> \o OpenRepo \in Seq(Call \cup Check)
         /\ PlanOK(<<"csrf">> \o OpenRepo, s, FALSE, FALSE)
<1> DEFINE a == <<"csrf">>
           c == a \o OpenRepo
<1>1. OpenRepo = <<"begin", "resolve">>
  BY DEF OpenRepo
<1>2. OpenRepo \in Seq(Call \cup Check) /\ Len(OpenRepo) = 2
  BY <1>1, StepNames
<1>3. PlanOK(OpenRepo, s, FALSE, FALSE)
  BY <1>1, <1>2 DEF PlanOK, Needs, RegistryCall, KeysCall
<1>4. a \in Seq(Call \cup Check) /\ Len(a) = 1 /\ a[1] = "csrf"
  BY StepNames
<1>5. /\ c \in Seq(Call \cup Check) /\ Len(c) = 1 + 2
      /\ \A i \in 1..(1 + 2) : c[i] = IF i <= 1 THEN a[i] ELSE OpenRepo[i - 1]
  <2> HIDE DEF a
  <2>1. /\ c \in Seq(Call \cup Check) /\ Len(c) = Len(a) + Len(OpenRepo)
        /\ \A i \in 1..(Len(a) + Len(OpenRepo)) :
             c[i] = IF i <= Len(a) THEN a[i] ELSE OpenRepo[i - Len(a)]
    BY <1>2, <1>4, ConcatProperties
  <2>2. QED
    BY <1>2, <1>4, <2>1
<1>6. Len(c) = 3 /\ c[1] = "csrf" /\ c[2] = "begin" /\ c[3] = "resolve"
  <2> HIDE DEF a, c
  <2>1. 1 \in 1..(1 + 2) /\ 2 \in 1..(1 + 2) /\ 3 \in 1..(1 + 2) /\ 2 - 1 = 1 /\ 3 - 1 = 2
    OBVIOUS
  <2>2. QED
    BY <1>1, <1>4, <1>5, <2>1
<1>7. PlanOK(c, s, FALSE, FALSE)
  <2> HIDE DEF a, c
  <2>1. QED
    BY <1>6 DEF PlanOK, Needs, RegistryCall, KeysCall
<1>8. QED
  BY <1>2, <1>3, <1>5, <1>7

LEMMA TokenLists == RenderTokens \subseteq Seq(Harmless)
<1>1. "list" \in Harmless /\ "named" \in Harmless /\ "records" \in Harmless
  BY HarmlessSteps
<1>2. QED
  BY <1>1 DEF RenderTokens

\* The screens that read and ask for nothing but what Origo says.
LEMMA ReadPlans ==
  ASSUME NEW s,
         NEW plan \in Home \cup SignInAt \cup ByID \cup Docs \cup Unknown \cup Tokens \cup Overview
                       \cup Refs \cup Tree \cup Blob \cup Raw \cup Log \cup Commit \cup Patch
                       \cup Compare
  PROVE  plan \in Seq(Call \cup Check) /\ PlanOK(plan, s, FALSE, FALSE)
<1> DEFINE Good(l) == l \in Seq(Call \cup Check) /\ PlanOK(l, s, FALSE, FALSE)
<1>1. /\ "front" \in Harmless /\ "list" \in Harmless /\ "repo" \in Harmless /\ "token" \in Harmless
      /\ "badge" \in Harmless /\ "heads" \in Harmless /\ "tags" \in Harmless
      /\ "tree" \in Harmless /\ "commits" \in Harmless /\ "readme" \in Harmless
      /\ "entry" \in Harmless /\ "blob" \in Harmless /\ "stream" \in Harmless
      /\ "commit" \in Harmless /\ "compare" \in Harmless /\ "parents" \in Harmless
  BY HarmlessSteps
<1>2. Good(<<"begin">>) /\ Good(<<"begin", "list">>) /\ Good(<<"begin", "front">>) /\ Good(<<"begin", "repo">>)
      /\ Good(<<"begin", "token">>)
  <2>1. {"begin", "list", "front", "repo", "token"} \subseteq Call \cup Check
    BY DEF Call, Check, OrigoCall
  <2>2. QED
    BY <2>1 DEF PlanOK, Needs, RegistryCall, KeysCall
<1>3. ASSUME NEW rest \in Seq(Harmless) PROVE Good(OpenRepo \o rest)
  BY OpenRepoOK, Onward
<1>4. ASSUME NEW rest \in Seq(Harmless), NEW more \in Seq(Harmless)
      PROVE  Good((OpenRepo \o rest) \o more)
  BY <1>3, Onward
<1>5. CASE plan \in Home \cup SignInAt \cup ByID \cup Docs \cup Unknown
  BY <1>2, <1>5 DEF Home, SignInAt, ByID, Docs, Unknown
<1>6. CASE plan \in Tokens
  <2>1. PICK r \in RenderTokens : plan = <<"begin", "token">> \o r
    BY <1>6 DEF Tokens
  <2>2. r \in Seq(Harmless)
    BY TokenLists
  <2>3. QED
    BY <1>2, <2>1, <2>2, Onward
<1>7. CASE plan \in Overview
  <2>1. <<"badge", "heads", "tags">> \in Seq(Harmless)
    BY <1>1
  <2>2. <<>> \in Seq(Harmless)
    OBVIOUS
  <2>3. <<"tree", "commits">> \in Seq(Harmless) /\ <<"tree", "commits", "readme">> \in Seq(Harmless)
    BY <1>1
  <2>4. PICK rest \in {<<>>, <<"tree", "commits">>, <<"tree", "commits", "readme">>} :
          plan = (OpenRepo \o <<"badge", "heads", "tags">>) \o rest
    BY <1>7 DEF Overview
  <2>5. QED
    BY <1>4, <2>1, <2>2, <2>3, <2>4
<1>8. CASE plan \in Refs \cup Tree \cup Log
  <2>1. /\ <<"heads", "tags">> \in Seq(Harmless) /\ <<"tree">> \in Seq(Harmless)
        /\ <<"heads", "tags", "tree">> \in Seq(Harmless) /\ <<"commits">> \in Seq(Harmless)
    BY <1>1
  <2>2. \E rest \in {<<"heads", "tags">>, <<"tree">>, <<"heads", "tags", "tree">>, <<"commits">>} :
          plan = OpenRepo \o rest
    BY <1>8 DEF Refs, Tree, Log
  <2>3. QED
    BY <1>3, <2>1, <2>2
<1>9. CASE plan \in Blob \cup Raw
  <2>1. FindEntry \in Seq(Harmless) /\ <<"blob">> \in Seq(Harmless) /\ <<"stream">> \in Seq(Harmless)
    BY <1>1 DEF FindEntry
  <2>2. \/ plan = OpenRepo \o FindEntry
        \/ plan = (OpenRepo \o FindEntry) \o <<"blob">>
        \/ plan = (OpenRepo \o FindEntry) \o <<"stream">>
    BY <1>9 DEF Blob, Raw
  <2>3. QED
    BY <1>3, <1>4, <2>1, <2>2
<1>10. CASE plan \in Commit \cup Patch \cup Compare
  <2>1. /\ <<"commit">> \in Seq(Harmless) /\ <<"commit", "compare">> \in Seq(Harmless)
        /\ <<"commit", "parents", "compare">> \in Seq(Harmless) /\ <<"compare">> \in Seq(Harmless)
    BY <1>1
  <2>2. \/ plan = OpenRepo
        \/ \E rest \in {<<"commit">>, <<"commit", "compare">>, <<"commit", "parents", "compare">>,
                         <<"compare">>} : plan = OpenRepo \o rest
    BY <1>10 DEF Commit, Patch, Compare
  <2>3. QED
    BY <1>3, <2>1, <2>2, OpenRepoOK
<1>11. QED
  BY <1>5, <1>6, <1>7, <1>8, <1>9, <1>10

LEMMA KeyPlans ==
  \A s \in {"keys", "keysPost", "keyRemove", "keyRemovePost"} : \A plan \in Plans[s] :
    plan \in Seq(Call \cup Check) /\ PlanOK(plan, s, FALSE, FALSE)
<1>1. ASSUME NEW s \in {"keys", "keysPost", "keyRemove", "keyRemovePost"},
             NEW plan \in Keys \cup KeysPost \cup KeyRemove \cup KeyRemovePost
      PROVE  plan \in Seq(Call \cup Check) /\ PlanOK(plan, s, FALSE, FALSE)
  <2>1. CASE plan = <<"begin", "platform", "keys">>
    BY <2>1, StepNames DEF PlanOK, Needs, RegistryCall, KeysCall
  <2>2. CASE plan = <<"csrf", "begin", "platform", "words", "parse", "keys">>
    BY <2>2, StepNames DEF PlanOK, Needs, RegistryCall, KeysCall
  <2>3. CASE plan = <<"csrf", "begin", "platform", "words", "add">>
    BY <2>3, StepNames DEF PlanOK, Needs, RegistryCall, KeysCall
  <2>4. CASE plan = <<"begin", "platform", "keys", "picked">>
    BY <2>4, StepNames DEF PlanOK, Needs, RegistryCall, KeysCall
  <2>5. CASE plan = <<"csrf", "begin", "platform", "remove">>
    BY <2>5, StepNames DEF PlanOK, Needs, RegistryCall, KeysCall
  <2>6. QED
    BY <2>1, <2>2, <2>3, <2>4, <2>5 DEF Keys, KeysPost, KeyRemove, KeyRemovePost
<1>2. \A s \in {"keys", "keysPost", "keyRemove", "keyRemovePost"} :
        Plans[s] \subseteq Keys \cup KeysPost \cup KeyRemove \cup KeyRemovePost
  BY DEF Plans
<1>3. QED
  BY <1>1, <1>2

\* The forms that create a repository, change who sees it, and delete it.
LEMMA RegistryPlans ==
  \A s \in {"new", "newPost", "visibility", "visibilityPost", "delete", "deletePost"} :
    \A plan \in Plans[s] : plan \in Seq(Call \cup Check) /\ PlanOK(plan, s, FALSE, FALSE)
<1> DEFINE All == Seq(Call \cup Check)
<1>1. ASSUME NEW s, NEW plan \in New \cup NewPost
      PROVE  plan \in All /\ PlanOK(plan, s, FALSE, FALSE)
  <2>1. CASE plan = <<"begin", "creation", "platform", "namespaces">>
    BY <2>1, StepNames DEF PlanOK, Needs, RegistryCall, KeysCall
  <2>2. CASE plan = <<"csrf", "begin", "creation", "platform", "words", "create">>
    BY <2>2, StepNames DEF PlanOK, Needs, RegistryCall, KeysCall
  <2>3. QED
    BY <2>1, <2>2 DEF New, NewPost
<1>2. ASSUME NEW s, NEW a \in {OpenRepo, <<"csrf">> \o OpenRepo}
      PROVE  a \in All /\ PlanOK(a, s, FALSE, FALSE)
  BY OpenRepoOK
<1>3. ASSUME NEW s
      PROVE  /\ Administers \in All /\ PlanOK(Administers, s, FALSE, FALSE)
             /\ \E j \in 1..Len(Administers) : Administers[j] = "platform"
             /\ \E j \in 1..Len(Administers) : Administers[j] = "visibility"
             /\ \A i \in 1..Len(Administers) : Administers[i] # "begin"
  <2>1. Administers = <<"platform", "visibility">>
    BY DEF Administers
  <2>2. Len(Administers) = 2 /\ Administers[1] = "platform" /\ Administers[2] = "visibility"
    BY <2>1
  <2>3. Administers \in All
    BY <2>1, StepNames
  <2>4. 1 \in 1..2 /\ 2 \in 1..2
    OBVIOUS
  <2>5. PlanOK(Administers, s, FALSE, FALSE)
    BY <2>1 DEF PlanOK, Needs, RegistryCall, KeysCall
  <2>6. \A i \in 1..Len(Administers) : Administers[i] # "begin"
    BY <2>1
  <2>7. QED
    BY <2>2, <2>3, <2>4, <2>5, <2>6
<1>4. ASSUME NEW s, NEW a \in {OpenRepo, <<"csrf">> \o OpenRepo}
      PROVE  /\ a \o Administers \in All /\ PlanOK(a \o Administers, s, FALSE, FALSE)
             /\ \E j \in 1..Len(a \o Administers) : (a \o Administers)[j] = "platform"
             /\ \E j \in 1..Len(a \o Administers) : (a \o Administers)[j] = "visibility"
  <2>1. a \in All /\ PlanOK(a, s, FALSE, FALSE)
    BY <1>2
  <2>2. a \o Administers \in All /\ PlanOK(a \o Administers, s, FALSE, FALSE)
    BY <1>3, <2>1, PlanInParts
  <2>3. ASSUME NEW j \in 1..Len(Administers)
        PROVE  \E i \in 1..Len(a \o Administers) : (a \o Administers)[i] = Administers[j]
    <3>1. /\ Len(a \o Administers) = Len(a) + Len(Administers)
          /\ Len(a) \in Nat /\ Len(Administers) \in Nat
          /\ \A i \in 1..(Len(a) + Len(Administers)) :
               (a \o Administers)[i] = IF i <= Len(a) THEN a[i] ELSE Administers[i - Len(a)]
      BY <1>3, <2>1, ConcatProperties
    <3>2. Len(a) + j \in 1..(Len(a) + Len(Administers)) /\ (Len(a) + j) - Len(a) = j /\ ~(Len(a) + j <= Len(a))
      BY <3>1
    <3>3. (a \o Administers)[Len(a) + j] = Administers[j]
      BY <3>1, <3>2
    <3>4. QED
      BY <3>1, <3>2, <3>3
  <2>4. QED
    BY <1>3, <2>2, <2>3
<1>5. ASSUME NEW s, NEW plan \in VisibilityPage \cup Delete
      PROVE  plan \in All /\ PlanOK(plan, s, FALSE, FALSE)
  BY <1>4 DEF VisibilityPage, Delete
<1>6. ASSUME NEW plan \in VisibilityPost
      PROVE  plan \in All /\ PlanOK(plan, "visibilityPost", FALSE, FALSE)
  <2> DEFINE b == <<"platform", "words", "set">>
  <2>1. b \in All
    BY StepNames
  <2>2. PlanOK(b, "visibilityPost", FALSE, FALSE) /\ \A i \in 1..Len(b) : b[i] # "begin"
    BY DEF PlanOK, Needs, RegistryCall, KeysCall
  <2>3. <<"csrf">> \o OpenRepo \in All /\ PlanOK(<<"csrf">> \o OpenRepo, "visibilityPost", FALSE, FALSE)
    BY <1>2
  <2> HIDE DEF b
  <2>4. /\ (<<"csrf">> \o OpenRepo) \o b \in All
        /\ PlanOK((<<"csrf">> \o OpenRepo) \o b, "visibilityPost", FALSE, FALSE)
    BY <2>1, <2>2, <2>3, PlanInParts
  <2>5. QED
    BY <2>4 DEF VisibilityPost, b
<1>7. ASSUME NEW plan \in DeletePost
      PROVE  plan \in All /\ PlanOK(plan, "deletePost", FALSE, FALSE)
  <2> DEFINE a == (<<"csrf">> \o OpenRepo) \o Administers
             b == <<"words", "forget">>
  <2>1. b \in All
    BY StepNames
  <2>2. PlanOK(b, "deletePost", TRUE, TRUE) /\ \A i \in 1..Len(b) : b[i] # "begin"
    BY DEF PlanOK, Needs, RegistryCall, KeysCall
  <2>3. /\ a \in All /\ PlanOK(a, "deletePost", FALSE, FALSE)
        /\ \E j \in 1..Len(a) : a[j] = "platform"
        /\ \E j \in 1..Len(a) : a[j] = "visibility"
    BY <1>4
  <2> HIDE DEF a, b
  <2>4. a \o b \in All /\ PlanOK(a \o b, "deletePost", FALSE, FALSE)
    BY <2>1, <2>2, <2>3, PlanInParts
  <2>5. QED
    BY <2>4 DEF DeletePost, a, b
<1>8. /\ Plans["new"] = New /\ Plans["newPost"] = NewPost /\ Plans["visibility"] = VisibilityPage
      /\ Plans["visibilityPost"] = VisibilityPost /\ Plans["delete"] = Delete
      /\ Plans["deletePost"] = DeletePost
  BY DEF Plans
<1>9. QED
  BY <1>1, <1>5, <1>6, <1>7, <1>8

\* Every plan of every screen.
LEMMA PlansOK ==
  ASSUME NEW s \in Pages \cup Forms, NEW plan \in Plans[s]
  PROVE  plan \in Seq(Call \cup Check) /\ PlanOK(plan, s, FALSE, FALSE)
<1>1. CASE s \in {"keys", "keysPost", "keyRemove", "keyRemovePost"}
  BY <1>1, KeyPlans
<1>2. CASE s \in {"new", "newPost", "visibility", "visibilityPost", "delete", "deletePost"}
  BY <1>2, RegistryPlans
<1>3. CASE s = "tokensPost"
  <2>1. plan = <<"csrf", "begin", "token", "words", "repo", "mint">>
    BY <1>3 DEF Plans, TokensPost
  <2>2. QED
    BY <1>3, <2>1, StepNames DEF PlanOK, Needs, RegistryCall, KeysCall
<1>4. CASE s \in {"signout", "notify"}
  <2>1. plan = <<"csrf", "clear">> \/ plan = <<"words", "clear">>
    BY <1>4 DEF Plans, SignOut, Notify
  <2>2. CASE plan = <<"csrf", "clear">>
    BY <1>4, <2>2, StepNames DEF PlanOK, Needs, RegistryCall, KeysCall
  <2>3. CASE plan = <<"words", "clear">>
    BY <1>4, <2>3, StepNames DEF PlanOK, Needs, RegistryCall, KeysCall
  <2>4. QED
    BY <2>1, <2>2, <2>3
<1>5. CASE s \in {"home", "signin", "byid", "docs", "unknown", "overview", "refs", "tree",
                  "blob", "raw", "log", "commit", "patch", "compare", "tokens"}
  <2>1. plan \in Home \cup SignInAt \cup ByID \cup Docs \cup Unknown \cup Tokens \cup Overview
                \cup Refs \cup Tree \cup Blob \cup Raw \cup Log \cup Commit \cup Patch \cup Compare
    BY <1>5 DEF Plans
  <2>2. QED
    BY <2>1, ReadPlans
<1>6. QED
  BY <1>1, <1>2, <1>3, <1>4, <1>5 DEF Pages, Forms

----------------------------------------------------------------------------
(***************************************************************************)
(* What a step is taken with, and what is left after it.                   *)
(***************************************************************************)

LEMMA PlanRest ==
  ASSUME NEW q \in Request, Sound(q), q.plan # <<>>
  PROVE  /\ Tail(q.plan) \in Seq(Call \cup Check)
         /\ Head(q.plan) = "clear" => q.screen \in {"signout", "notify"}
         /\ Head(q.plan) = "forget" => q.owns = TRUE
         /\ Head(q.plan) \in Needs(q.screen) => q.platform = TRUE
         /\ \A p, o : /\ Head(q.plan) = "begin" \/ p = q.platform
                      /\ Head(q.plan) = "platform" => p = TRUE
                      /\ q.owns = TRUE \/ Head(q.plan) = "visibility" => o = TRUE
                      => PlanOK(Tail(q.plan), q.screen, p, o)
<1> DEFINE l == q.plan
           r == Tail(l)
<1>1. l \in Seq(Call \cup Check) /\ l # <<>> /\ PlanOK(l, q.screen, q.platform, q.owns)
  BY DEF Request, Sound
<1>2. /\ r \in Seq(Call \cup Check) /\ Len(l) \in Nat /\ Len(l) # 0 /\ Len(r) = Len(l) - 1
      /\ \A i \in 1..Len(r) : r[i] = l[i + 1]
      /\ Head(l) = l[1] /\ 1 \in 1..Len(l) /\ 1..(1 - 1) = {}
  BY <1>1
<1> HIDE DEF l, r
<1>3. /\ l[1] = "clear" => q.screen \in {"signout", "notify"}
      /\ l[1] = "forget" => q.owns = TRUE
      /\ l[1] \in Needs(q.screen) => q.platform = TRUE
  BY <1>1, <1>2 DEF PlanOK
<1>4. ASSUME NEW p, NEW o,
             l[1] = "begin" \/ p = q.platform,
             l[1] = "platform" => p = TRUE,
             q.owns = TRUE \/ l[1] = "visibility" => o = TRUE
      PROVE  PlanOK(r, q.screen, p, o)
  <2> SUFFICES ASSUME NEW i \in 1..Len(r)
        PROVE  /\ r[i] = "clear" => q.screen \in {"signout", "notify"}
               /\ r[i] = "forget" => o = TRUE \/ \E j \in 1..(i - 1) : r[j] = "visibility"
               /\ r[i] \in Needs(q.screen) => p = TRUE \/ \E j \in 1..(i - 1) : r[j] = "platform"
               /\ r[i] = "begin" => p = FALSE /\ \A j \in 1..(i - 1) : r[j] # "begin"
    BY DEF PlanOK
  <2>1. i + 1 \in 1..Len(l) /\ r[i] = l[i + 1] /\ (i + 1) - 1 = i /\ 1 \in 1..i
    BY <1>2
  <2>2. /\ r[i] = "clear" => q.screen \in {"signout", "notify"}
        /\ r[i] = "forget" => q.owns = TRUE \/ \E j \in 1..i : l[j] = "visibility"
        /\ r[i] \in Needs(q.screen) => q.platform = TRUE \/ \E j \in 1..i : l[j] = "platform"
        /\ r[i] = "begin" => q.platform = FALSE /\ \A j \in 1..i : l[j] # "begin"
    BY <1>1, <2>1 DEF PlanOK
  <2>3. ASSUME NEW j \in 1..i, j # 1 PROVE j - 1 \in 1..(i - 1) /\ r[j - 1] = l[j]
    BY <1>2, <2>3
  <2>4. ASSUME NEW j \in 1..(i - 1) PROVE j + 1 \in 1..i /\ r[j] = l[j + 1]
    BY <1>2
  <2>5. l[1] = "begin" => q.platform = FALSE
    BY <1>1, <1>2 DEF PlanOK
  <2>6. r[i] = "clear" => q.screen \in {"signout", "notify"}
    BY <2>2
  <2>7. r[i] = "forget" => o = TRUE \/ \E j \in 1..(i - 1) : r[j] = "visibility"
    BY <1>4, <2>2, <2>3
  <2>8. r[i] \in Needs(q.screen) => p = TRUE \/ \E j \in 1..(i - 1) : r[j] = "platform"
    BY <1>4, <2>2, <2>3, <2>5
  <2>9. r[i] = "begin" => p = FALSE /\ \A j \in 1..(i - 1) : r[j] # "begin"
    BY <1>4, <2>1, <2>2, <2>4
  <2>10. QED
    BY <2>6, <2>7, <2>8, <2>9
<1>5. QED
  BY <1>2, <1>3, <1>4 DEF l, r

\* What no refusal changes.
Same(n, q) ==
  /\ n.screen = q.screen /\ n.session = q.session /\ n.lapsed = q.lapsed
  /\ n.tok = q.tok /\ n.platform = q.platform
  /\ n.refusedBy = q.refusedBy /\ n.wrote = q.wrote /\ n.owns = q.owns

\* What q may become when a call of it is not answered with a success.
Refusal(n, q) ==
  /\ n \in Request /\ Same(n, q)
  /\ PlanOK(n.plan, q.screen, q.platform, q.owns)
  /\ n.clears = TRUE => q.clears = TRUE \/ q.refusedBy # {}
  /\ n.notice = TRUE => q.notice = TRUE \/ q.refusedBy # {}

LEMMA RefusalSound ==
  ASSUME NEW q \in Request, Sound(q), NEW n, Refusal(n, q)
  PROVE  Sound(n)
BY DEF Sound, Refusal, Same

LEMMA NoPlan == \A s, p, o : PlanOK(<<>>, s, p, o)
BY DEF PlanOK

LEMMA EndsOK ==
  ASSUME NEW q \in Request, NEW page \in Page, NEW status \in Status
  PROVE  Refusal(Ends(q, page, status), q) /\ Ends(q, page, status).phase = "answered"
<1> DEFINE n == Ends(q, page, status)
<1>0. <<>> \in Seq(Call \cup Check)
  OBVIOUS
<1>1. n \in Request
  BY <1>0 DEF Ends, Request
<1>2. /\ n.plan = <<>> /\ n.clears = q.clears /\ n.notice = q.notice /\ Same(n, q)
      /\ n.phase = "answered"
  BY DEF Ends, Request, Same
<1> HIDE DEF n
<1>3. QED
  BY <1>1, <1>2, NoPlan DEF Refusal, n

LEMMA Statuses ==
  /\ 200 \in Status /\ 302 \in Status /\ 303 \in Status /\ 400 \in Status /\ 401 \in Status
  /\ 403 \in Status /\ 404 \in Status /\ 409 \in Status /\ 502 \in Status
BY DEF Status

LEMMA SignInFields ==
  ASSUME NEW q \in Request, NEW status \in Status
  PROVE  /\ SignIn(q, status) \in Request /\ Same(SignIn(q, status), q)
         /\ SignIn(q, status).plan = <<>> /\ SignIn(q, status).clears = q.clears
         /\ SignIn(q, status).notice = q.tok /\ SignIn(q, status).phase = "answered"
         /\ SignIn(q, status).page = "signin"
<1> DEFINE e == Ends(q, "signin", status)
           n == [e EXCEPT !.notice = q.tok]
<1>1. e \in Request
  BY EndsOK DEF Refusal, Page
<1>2. /\ e.plan = <<>> /\ e.clears = q.clears /\ Same(e, q)
      /\ e.phase = "answered" /\ e.page = "signin"
  BY DEF Ends, Request, Same
<1>3. SignIn(q, status) = n
  BY DEF SignIn
<1> HIDE DEF e
<1>4. n \in Request
  BY <1>1 DEF Request
<1>5. /\ n.plan = e.plan /\ n.clears = e.clears /\ n.notice = q.tok /\ Same(n, e)
      /\ n.phase = e.phase /\ n.page = e.page
  BY <1>1 DEF Request, Same
<1>6. QED
  BY <1>2, <1>3, <1>4, <1>5 DEF Same

LEMMA ClearFields ==
  ASSUME NEW q \in Request
  PROVE  /\ Clear(q) \in Request /\ Same(Clear(q), q) /\ Clear(q).clears = TRUE
         /\ Clear(q).plan = q.plan /\ Clear(q).notice = q.notice
         /\ Clear(q).phase = q.phase /\ Clear(q).page = q.page
<1>1. Clear(q) \in Request
  BY DEF Clear, Request
<1>2. QED
  BY <1>1 DEF Clear, Request, Same

\* The sign-in page after a refusal.
LEMMA SignInOK ==
  ASSUME NEW q \in Request, NEW status \in Status, q.tok = TRUE => q.refusedBy # {}
  PROVE  /\ Refusal(SignIn(q, status), q)
         /\ Refusal(SignIn(ClearIfPresented(q), status), q)
<1>1. Refusal(SignIn(q, status), q)
  BY SignInFields, NoPlan DEF Refusal
<1>2. CASE q.tok = TRUE
  <2>1. Clear(q) \in Request /\ Same(Clear(q), q)
    BY ClearFields
  <2>2. /\ SignIn(Clear(q), status) \in Request /\ Same(SignIn(Clear(q), status), Clear(q))
        /\ SignIn(Clear(q), status).plan = <<>>
    BY <2>1, SignInFields
  <2>3. Refusal(SignIn(Clear(q), status), q)
    BY <1>2, <2>1, <2>2, NoPlan DEF Refusal, Same
  <2>4. QED
    BY <1>1, <1>2, <2>3 DEF ClearIfPresented
<1>3. CASE q.tok = FALSE
  BY <1>1, <1>3 DEF ClearIfPresented
<1>4. QED
  BY <1>2, <1>3 DEF Request

LEMMA ClearedOK ==
  ASSUME NEW q \in Request, NEW status \in Status, q.refusedBy # {}
  PROVE  Refusal(SignIn(Clear(q), status), q) /\ SignedOut(SignIn(Clear(q), status))
<1>1. Clear(q) \in Request /\ Same(Clear(q), q) /\ Clear(q).clears = TRUE
  BY ClearFields
<1>2. /\ SignIn(Clear(q), status) \in Request /\ Same(SignIn(Clear(q), status), Clear(q))
      /\ SignIn(Clear(q), status).plan = <<>>
      /\ SignIn(Clear(q), status).clears = TRUE
      /\ SignIn(Clear(q), status).phase = "answered"
      /\ SignIn(Clear(q), status).page = "signin"
  BY <1>1, SignInFields
<1>3. QED
  BY <1>1, <1>2, NoPlan DEF Refusal, Same, SignedOut

\* The rest of the plan is another screen's.
LEMMA InsteadOK ==
  ASSUME NEW q \in Request, NEW plan \in Seq(Call \cup Check), NEW status \in Status,
         PlanOK(plan, q.screen, q.platform, q.owns)
  PROVE  Refusal(Instead(q, plan, status), q) /\ Instead(q, plan, status).phase = q.phase
<1> DEFINE n == Instead(q, plan, status)
<1>1. n \in Request
  BY DEF Instead, Request
<1>2. /\ n.plan = plan /\ n.clears = q.clears /\ n.notice = q.notice /\ Same(n, q)
      /\ n.phase = q.phase
  BY DEF Instead, Request, Same
<1> HIDE DEF n
<1>3. QED
  BY <1>1, <1>2 DEF Refusal, n

\* The step is left out.
LEMMA LeftOutOK ==
  ASSUME NEW q \in Request, Sound(q), q.plan # <<>>, Head(q.plan) \in Call \ {"visibility"},
         NEW plan \in {Tail(q.plan), <<>>}
  PROVE  Refusal([q EXCEPT !.plan = plan], q)
<1> DEFINE n == [q EXCEPT !.plan = plan]
<1>1. "platform" \notin Call
  BY DEF Call, OrigoCall, RegistryCall, KeysCall
<1>2. /\ plan \in Seq(Call \cup Check)
      /\ PlanOK(plan, q.screen, q.platform, q.owns)
  <2>1. Head(q.plan) # "platform" /\ Head(q.plan) # "visibility"
    BY <1>1
  <2>2. Tail(q.plan) \in Seq(Call \cup Check)
    BY PlanRest
  <2>3. PlanOK(Tail(q.plan), q.screen, q.platform, q.owns)
    BY <2>1, PlanRest
  <2>4. <<>> \in Seq(Call \cup Check)
    OBVIOUS
  <2>5. QED
    BY <2>2, <2>3, <2>4, NoPlan
<1>3. n \in Request
  BY <1>2 DEF Request
<1>4. /\ n.plan = plan /\ n.clears = q.clears /\ n.notice = q.notice /\ Same(n, q)
  BY DEF Request, Same
<1> HIDE DEF n
<1>5. QED
  BY <1>2, <1>3, <1>4 DEF Refusal, n

----------------------------------------------------------------------------
(***************************************************************************)
(* Every refusal, by the call that is refused.                             *)
(***************************************************************************)

\* Answers of Origo to a page.
LEMMA OrigoRefusals ==
  ASSUME NEW q \in Request, NEW a, a = "unauthenticated" /\ q.tok = TRUE => q.refusedBy # {}
  PROVE  /\ Refusal(ReadFailed(q, a), q) /\ Refusal(ReadFailedIn(q, a), q)
         /\ Refusal(Ends(q, "page", 200), q)
<1>1. /\ Refusal(NotFound(q), q) /\ Refusal(Gone(q), q) /\ Refusal(Broken(q), q)
      /\ Refusal(Ends(q, "notfoundin", 404), q) /\ Refusal(Ends(q, "page", 200), q)
  BY EndsOK DEF NotFound, Gone, Broken, Page, Status
<1>2. ASSUME a = "unauthenticated" PROVE Refusal(SignIn(ClearIfPresented(q), 401), q)
  BY <1>2, SignInOK, Statuses
<1>3. Refusal(ReadFailed(q, a), q)
  BY <1>1, <1>2 DEF ReadFailed
<1>4. QED
  BY <1>1, <1>3 DEF ReadFailedIn

\* The list of the home screen and of the token screen.
LEMMA ListRefusals ==
  ASSUME NEW q \in Request, Sound(q), q.plan # <<>>, Head(q.plan) = "list", NEW a,
         a = "unauthenticated" /\ q.tok = TRUE => q.refusedBy # {}
  PROVE  Refusal(HomeRefused(q, a), q) /\ Refusal(TokensRefused(q, a), q)
<1>1. "list" \in Call \ {"visibility"}
  BY DEF Call, OrigoCall
<1>2. Refusal([q EXCEPT !.plan = Tail(q.plan)], q)
  BY <1>1, LeftOutOK
<1>3. ASSUME a = "unauthenticated"
      PROVE  /\ Refusal(SignIn(ClearIfPresented(q), 401), q)
             /\ Refusal(SignIn(ClearIfPresented(q), 200), q)
  <2>1. q.tok = TRUE => q.refusedBy # {}
    BY <1>3
  <2>2. 200 \in Status /\ 401 \in Status
    BY Statuses
  <2>3. QED
    BY <2>1, <2>2, SignInOK
<1>4. Refusal(HomeRefused(q, a), q)
  BY <1>2, <1>3 DEF HomeRefused
<1>5. Refusal(TokensRefused(q, a), q)
  BY <1>2, <1>3 DEF TokensRefused
<1>6. QED
  BY <1>4, <1>5

\* Making a token: the screen is drawn again.
LEMMA MintRefusals ==
  ASSUME NEW q \in Request, NEW a, a = "unauthenticated" /\ q.tok = TRUE => q.refusedBy # {},
         NEW n \in MintRefused(q, a)
  PROVE  Refusal(n, q)
<1>1. ASSUME NEW plan \in RenderTokens
      PROVE  /\ Refusal(Instead(q, plan, 404), q) /\ Refusal(Instead(q, plan, 502), q)
  <2>1. plan \in Seq(Harmless)
    BY TokenLists
  <2>2. plan \in Seq(Call \cup Check) /\ PlanOK(plan, q.screen, q.platform, q.owns)
    BY <2>1, HarmlessIsOK
  <2>3. QED
    BY <2>2, InsteadOK DEF Status
<1>2. Refusal(Gone(q), q)
  BY EndsOK DEF Gone, Page, Status
<1>3. ASSUME a = "unauthenticated" PROVE Refusal(SignIn(ClearIfPresented(q), 401), q)
  BY <1>3, SignInOK, Statuses
<1>4. QED
  BY <1>1, <1>2, <1>3 DEF MintRefused

\* A screen that lists again with the token it has.
LEMMA ListedAgain ==
  ASSUME NEW q \in Request, q.platform = TRUE
  PROVE  \A status \in Status : /\ Refusal(Instead(q, <<"keys">>, status), q)
                                /\ Refusal(Instead(q, <<"namespaces">>, status), q)
<1>1. /\ <<"keys">> \in Seq(Call \cup Check)
      /\ PlanOK(<<"keys">>, q.screen, q.platform, q.owns)
  BY StepNames DEF PlanOK
<1>2. /\ <<"namespaces">> \in Seq(Call \cup Check)
      /\ PlanOK(<<"namespaces">>, q.screen, q.platform, q.owns)
  BY StepNames DEF PlanOK
<1>3. QED
  BY <1>1, <1>2, InsteadOK

\* The key store's answers: a refused credential always ends the session.
LEMMA KeyRefusals ==
  ASSUME NEW q \in Request, q.platform = TRUE, NEW a, a = "unauthenticated" => q.refusedBy # {}
  PROVE  /\ Refusal(KeysUnlisted(q, a), q) /\ Refusal(RefuseKey(q, a), q)
         /\ Refusal(RemoveRefused(q, a), q)
         /\ a = "unauthenticated" => /\ SignedOut(KeysUnlisted(q, a)) /\ SignedOut(RefuseKey(q, a))
                                     /\ SignedOut(RemoveRefused(q, a))
<1>1. a = "unauthenticated" => /\ Refusal(SignIn(Clear(q), 401), q)
                               /\ SignedOut(SignIn(Clear(q), 401))
  BY ClearedOK DEF Status
<1>2. /\ Refusal(Instead(q, <<"keys">>, 400), q) /\ Refusal(Instead(q, <<"keys">>, 404), q)
      /\ Refusal(Instead(q, <<"keys">>, 409), q) /\ Refusal(Instead(q, <<"keys">>, 502), q)
  <2>1. \A status \in Status : /\ Refusal(Instead(q, <<"keys">>, status), q)
                               /\ Refusal(Instead(q, <<"namespaces">>, status), q)
    BY ListedAgain
  <2>2. QED
    BY <2>1, Statuses
<1>3. q.status \in Status
  BY DEF Request
<1>4. Refusal(Ends(q, "page", IF q.status = 200 THEN 502 ELSE q.status), q)
  BY <1>3, EndsOK DEF Page, Status
<1>5. Refusal(KeysUnlisted(q, a), q) /\ (a = "unauthenticated" => SignedOut(KeysUnlisted(q, a)))
  BY <1>1, <1>4 DEF KeysUnlisted
<1>6. Refusal(RefuseKey(q, a), q) /\ (a = "unauthenticated" => SignedOut(RefuseKey(q, a)))
  BY <1>1, <1>2 DEF RefuseKey
<1>7. Refusal(RemoveRefused(q, a), q) /\ (a = "unauthenticated" => SignedOut(RemoveRefused(q, a)))
  BY <1>1, <1>2 DEF RemoveRefused
<1>8. QED
  BY <1>5, <1>6, <1>7

\* The registry's.
LEMMA RegistryRefusals ==
  ASSUME NEW q \in Request, q.platform = TRUE, NEW a, a = "unauthenticated" => q.refusedBy # {}
  PROVE  /\ Refusal(NamespacesRefused(q, a), q) /\ Refusal(CreateRefused(q, a), q)
         /\ \A call : Refusal(VisibilityFailed(q, call, a), q)
         /\ Refusal(DeleteRefused(q, a), q) /\ Refusal(NotFound(q), q)
<1>1. a = "unauthenticated" => Refusal(SignIn(Clear(q), 401), q)
  BY ClearedOK DEF Status
<1>2. /\ Refusal(Instead(q, <<"namespaces">>, 400), q) /\ Refusal(Instead(q, <<"namespaces">>, 403), q)
      /\ Refusal(Instead(q, <<"namespaces">>, 409), q)
  <2>1. \A status \in Status : /\ Refusal(Instead(q, <<"keys">>, status), q)
                               /\ Refusal(Instead(q, <<"namespaces">>, status), q)
    BY ListedAgain
  <2>2. QED
    BY <2>1, Statuses
<1>3. /\ Refusal(NotFound(q), q) /\ Refusal(Gone(q), q) /\ Refusal(NoCreation(q), q)
      /\ Refusal(Ends(q, "page", 409), q)
  BY EndsOK DEF NotFound, Gone, NoCreation, Page, Status
<1>4. Refusal(NamespacesRefused(q, a), q)
  BY <1>1, <1>3 DEF NamespacesRefused
<1>5. Refusal(CreateRefused(q, a), q)
  BY <1>1, <1>2, <1>3 DEF CreateRefused
<1>6. ASSUME NEW call PROVE Refusal(VisibilityFailed(q, call, a), q)
  BY <1>1, <1>3 DEF VisibilityFailed
<1>7. Refusal(DeleteRefused(q, a), q)
  BY <1>3, <1>6 DEF DeleteRefused
<1>8. QED
  BY <1>3, <1>4, <1>5, <1>6, <1>7

\* Whatever call it is that was not answered with a success.
LEMMA FailedOK ==
  ASSUME NEW q \in Request, Sound(q), q.plan # <<>>, NEW call \in Call, Head(q.plan) = call,
         NEW a, a = "unauthenticated" /\ Presented(q, call) => q.refusedBy # {},
         NEW n \in Failed(q, call, a)
  PROVE  Refusal(n, q) /\ (call \in KeysCall /\ a = "unauthenticated" => SignedOut(n))
<1>1. q.tok \in BOOLEAN /\ q.platform \in BOOLEAN
  BY DEF Request
<1>2. call \in OrigoCall => (a = "unauthenticated" /\ q.tok = TRUE => q.refusedBy # {})
  BY <1>1 DEF Presented
<1>3. call \in (RegistryCall \ {"badge"}) \cup KeysCall =>
        /\ q.platform = TRUE
        /\ a = "unauthenticated" => q.refusedBy # {}
  <2>1. call \in (RegistryCall \ {"badge"}) \cup KeysCall => q.platform = TRUE
    BY PlanRest DEF Needs
  <2>2. call \in (RegistryCall \ {"badge"}) \cup KeysCall => call \notin OrigoCall
    BY DEF RegistryCall, KeysCall, OrigoCall
  <2>3. QED
    BY <2>1, <2>2 DEF Presented
<1>4. CASE call \in {"badge", "readme", "named", "records"}
  <2>1. Failed(q, call, a) = {Skips(q, call)}
    BY <1>4 DEF Failed
  <2>2. call \in Call \ {"visibility"}
    BY <1>4
  <2>3. Refusal([q EXCEPT !.plan = Tail(q.plan)], q) /\ Refusal([q EXCEPT !.plan = <<>>], q)
    BY <2>2, LeftOutOK
  <2>4. Refusal(Skips(q, call), q)
    BY <2>3 DEF Skips
  <2>5. QED
    BY <1>4, <2>1, <2>4 DEF KeysCall
<1>5. CASE call = "list"
  <2>1. n = HomeRefused(q, a) \/ n = TokensRefused(q, a)
    BY <1>5 DEF Failed
  <2>2. call \in OrigoCall /\ call \notin KeysCall
    BY <1>5 DEF OrigoCall, KeysCall
  <2>3. QED
    BY <1>2, <1>5, <2>1, <2>2, ListRefusals
<1>6. CASE call \in {"repo", "mint", "resolve"}
  <2>1. n \in MintRefused(q, a) \/ n = ReadFailed(q, a)
    BY <1>6 DEF Failed
  <2>2. call \in OrigoCall /\ call \notin KeysCall
    BY <1>6 DEF OrigoCall, KeysCall
  <2>3. QED
    BY <1>2, <2>1, <2>2, MintRefusals, OrigoRefusals
<1>7. CASE call \in {"heads", "tags", "tree", "commits", "commit", "compare", "blob", "stream"}
  <2>1. n = Ends(q, "page", 200) \/ n = ReadFailedIn(q, a)
    BY <1>7 DEF Failed
  <2>2. call \in OrigoCall /\ call \notin KeysCall
    BY <1>7 DEF OrigoCall, KeysCall
  <2>3. a = "unauthenticated" /\ q.tok = TRUE => q.refusedBy # {}
    BY <1>2, <2>2
  <2>4. /\ Refusal(ReadFailed(q, a), q) /\ Refusal(ReadFailedIn(q, a), q)
        /\ Refusal(Ends(q, "page", 200), q)
    BY <2>3, OrigoRefusals, Zenon
  <2>5. QED
    BY <2>1, <2>2, <2>4
<1>8. CASE call \in KeysCall
  <2>1. n \in {KeysUnlisted(q, a), RefuseKey(q, a), RemoveRefused(q, a)}
    BY <1>8 DEF Failed, KeysCall
  <2>2. q.platform = TRUE /\ (a = "unauthenticated" => q.refusedBy # {})
    BY <1>3, <1>8
  <2>3. QED
    BY <2>1, <2>2, KeyRefusals
<1>9. CASE call \in RegistryCall \ {"badge"}
  <2>1. n \in {NamespacesRefused(q, a), CreateRefused(q, a), NotFound(q),
               VisibilityFailed(q, call, a), DeleteRefused(q, a)}
    BY <1>9 DEF Failed, RegistryCall
  <2>2. q.platform = TRUE /\ (a = "unauthenticated" => q.refusedBy # {})
    BY <1>3, <1>9
  <2>3. call \notin KeysCall
    BY <1>9 DEF RegistryCall, KeysCall
  <2>4. QED
    BY <2>1, <2>2, <2>3, RegistryRefusals
<1>10. QED
  BY <1>4, <1>5, <1>6, <1>7, <1>8, <1>9 DEF Call, OrigoCall, RegistryCall

----------------------------------------------------------------------------
(***************************************************************************)
(* The steps.                                                              *)
(***************************************************************************)

\* A step is taken at the head of the plan of a request that is not answered.
LEMMA StepTaken ==
  ASSUME SInv, NEW step, At(step)
  PROVE  /\ request \in Request /\ Sound(request) /\ request.plan # <<>>
         /\ Head(request.plan) = step /\ request.phase = "asked"
         /\ request.refusedBy \cap KeysCall = {}
BY DEF SInv, At, SignedOut

\* A step that answers the request otherwise than by a call.
LEMMA RefusalStep ==
  ASSUME SInv, NEW step, At(step), NEW n, Refusal(n, request), Becomes(n)
  PROVE  SInv'
<1>1. request \in Request /\ Sound(request) /\ request.refusedBy \cap KeysCall = {}
  BY StepTaken
<1>2. Sound(n) /\ n \in Request /\ n.refusedBy = request.refusedBy
  BY <1>1, RefusalSound DEF Refusal, Same
<1>3. request' = n /\ registry' = registry
  BY DEF Becomes
<1>4. QED
  BY <1>1, <1>2, <1>3 DEF SInv

\* A step that goes on: it may find the session refused or the tokens minted,
\* take the session away, or carry a call out.
LEMMA PassedStep ==
  ASSUME SInv, NEW step, At(step), NEW n \in Request, Becomes(n),
         n.plan = Tail(request.plan), n.screen = request.screen, n.phase = "asked",
         n.refusedBy = request.refusedBy, n.notice = request.notice,
         step = "begin" \/ n.platform = request.platform,
         step = "platform" => n.platform = TRUE,
         request.owns = TRUE \/ step = "visibility" => n.owns = TRUE,
         n.tok = TRUE => n.session = TRUE,
         n.clears = TRUE => request.clears = TRUE \/ n.lapsed = TRUE \/ step = "clear",
         request.lapsed = TRUE => n.lapsed = TRUE,
         "forget" \in n.wrote => "forget" \in request.wrote \/ step = "forget"
  PROVE  SInv'
<1>1. /\ request \in Request /\ Sound(request) /\ request.plan # <<>>
      /\ Head(request.plan) = step /\ request.refusedBy \cap KeysCall = {}
  BY StepTaken
<1>2. PlanOK(n.plan, n.screen, n.platform, n.owns)
  BY <1>1, PlanRest
<1>3. step = "clear" => request.screen \in {"signout", "notify"}
  BY <1>1, PlanRest
<1>4. step = "forget" => request.owns = TRUE
  BY <1>1, PlanRest
<1>5. Sound(n)
  BY <1>1, <1>2, <1>3, <1>4 DEF Sound
<1>6. request' = n /\ registry' = registry
  BY DEF Becomes
<1>7. QED
  BY <1>1, <1>5, <1>6 DEF SInv

\* The fields of a request that went on.
LEMMA PassedFields ==
  ASSUME SInv, NEW step, At(step)
  PROVE  /\ Passed \in Request /\ Passed.plan = Tail(request.plan) /\ Same(Passed, request)
         /\ Passed.phase = "asked" /\ Passed.notice = request.notice
         /\ Passed.clears = request.clears
<1>1. request \in Request /\ Tail(request.plan) \in Seq(Call \cup Check) /\ request.phase = "asked"
  BY StepTaken, PlanRest
<1>2. Passed \in Request
  BY <1>1 DEF Passed, Request
<1>3. QED
  BY <1>1, <1>2 DEF Passed, Request, Same

LEMMA JustPassed ==
  ASSUME SInv, NEW step, At(step), step # "visibility",
         step = "platform" => request.platform = TRUE, Becomes(Passed)
  PROVE  SInv'
<1> DEFINE n == Passed
<1>1. /\ n \in Request /\ n.plan = Tail(request.plan) /\ n.phase = "asked"
      /\ n.notice = request.notice /\ n.clears = request.clears
      /\ n.screen = request.screen /\ n.refusedBy = request.refusedBy
      /\ n.platform = request.platform /\ n.owns = request.owns /\ n.tok = request.tok
      /\ n.session = request.session /\ n.lapsed = request.lapsed /\ n.wrote = request.wrote
  BY PassedFields DEF Same
<1>2. request.tok = TRUE => request.session = TRUE
  BY StepTaken DEF Sound
<1>3. Becomes(n)
  OBVIOUS
<1>4. n.lapsed \in BOOLEAN /\ n.owns \in BOOLEAN
  BY <1>1 DEF Request
<1> HIDE DEF n
<1>5. /\ step = "begin" \/ n.platform = request.platform
      /\ step = "platform" => n.platform = TRUE
      /\ request.owns = TRUE \/ step = "visibility" => n.owns = TRUE
      /\ n.tok = TRUE => n.session = TRUE
      /\ n.clears = TRUE => request.clears = TRUE \/ n.lapsed = TRUE \/ step = "clear"
      /\ request.lapsed = TRUE => n.lapsed = TRUE
      /\ "forget" \in n.wrote => "forget" \in request.wrote \/ step = "forget"
  BY <1>1, <1>2
<1>6. QED
  BY <1>1, <1>3, <1>5, PassedStep

\* The checks of the handlers themselves: the plan goes on, or the request is
\* answered.
LEMMA ChecksHold ==
  ASSUME SInv,
         \/ CheckForm \/ Front \/ CheckToken \/ RequirePlatform \/ CheckCreation
         \/ CheckEntry \/ CheckPicked \/ SkipBadge
  PROVE  SInv'
<1> DEFINE r == request
<1>1. r \in Request /\ Sound(r) /\ r.tok \in BOOLEAN /\ r.platform \in BOOLEAN /\ r.session \in BOOLEAN
  BY DEF SInv, Request
<1>2. ASSUME NEW page \in Page, NEW status \in Status PROVE Refusal(Ends(r, page, status), r)
  BY <1>1, EndsOK
<1>3. /\ Refusal(Ends(r, "expired", 403), r) /\ Refusal(NotFound(r), r) /\ Refusal(NoCreation(r), r)
      /\ Refusal(Ends(r, "page", 404), r) /\ Refusal(Ends(r, "redirect", 302), r)
      /\ Refusal(Ends(r, "fault", 502), r)
  BY <1>2, Statuses DEF NotFound, NoCreation, Page
<1>4. r.tok = FALSE => Refusal(SignIn(r, 200), r)
  BY <1>1, SignInOK, Statuses
<1>5. r.session = FALSE => r.tok = FALSE
  BY <1>1 DEF Sound
<1>6. CASE CheckForm
  <2>1. At("csrf") /\ (Becomes(Passed) \/ Becomes(Ends(r, "expired", 403)))
    BY <1>6 DEF CheckForm
  <2>2. QED
    BY <1>3, <2>1, JustPassed, RefusalStep
<1>7. CASE Front
  <2>1. /\ At("front")
        /\ \/ r.tok = TRUE /\ Becomes(Ends(r, "redirect", 302))
           \/ r.tok = FALSE /\ Becomes(SignIn(r, 200))
    BY <1>1, <1>7 DEF Front
  <2>2. QED
    BY <1>3, <1>4, <2>1, RefusalStep
<1>8. CASE CheckToken
  <2>1. At("token") /\ (Becomes(Passed) \/ (r.tok = FALSE /\ Becomes(SignIn(r, 200))))
    BY <1>1, <1>8 DEF CheckToken
  <2>2. QED
    BY <1>4, <2>1, JustPassed, RefusalStep
<1>9. CASE RequirePlatform
  <2>1. /\ At("platform")
        /\ \/ r.platform = TRUE /\ Becomes(Passed)
           \/ Becomes(Ends(r, "fault", 502))
           \/ r.session = FALSE /\ Becomes(SignIn(r, 200))
    BY <1>1, <1>9 DEF RequirePlatform
  <2>2. QED
    BY <1>3, <1>4, <1>5, <2>1, JustPassed, RefusalStep
<1>10. CASE CheckCreation
  <2>1. At("creation") /\ (Becomes(Passed) \/ Becomes(NoCreation(r)))
    BY <1>10 DEF CheckCreation
  <2>2. QED
    BY <1>3, <2>1, JustPassed, RefusalStep
<1>11. CASE CheckEntry
  <2>1. (At("entry") \/ At("parents")) /\ (Becomes(Passed) \/ Becomes(NotFound(r)))
    BY <1>11 DEF CheckEntry
  <2>2. QED
    BY <1>3, <2>1, JustPassed, RefusalStep
<1>12. CASE CheckPicked
  <2>1. At("picked") /\ (Becomes(Passed) \/ Becomes(Ends(r, "page", 404)))
    BY <1>12 DEF CheckPicked
  <2>2. QED
    BY <1>3, <2>1, JustPassed, RefusalStep
<1>13. CASE SkipBadge
  <2>1. At("badge") /\ Becomes(Passed)
    BY <1>13 DEF SkipBadge
  <2>2. QED
    BY <2>1, JustPassed
<1>14. QED
  BY <1>6, <1>7, <1>8, <1>9, <1>10, <1>11, <1>12, <1>13

\* The session is read: there is none, a refused one, or a live one.
LEMMA BeginHolds ==
  ASSUME SInv, Begin
  PROVE  SInv'
<1>1. At("begin")
  BY DEF Begin
<1>2. /\ Passed \in Request /\ Passed.plan = Tail(request.plan) /\ Passed.phase = "asked"
      /\ Passed.notice = request.notice /\ Passed.clears = request.clears
      /\ Passed.screen = request.screen /\ Passed.refusedBy = request.refusedBy
      /\ Passed.platform = request.platform /\ Passed.owns = request.owns
      /\ Passed.tok = request.tok /\ Passed.session = request.session
      /\ Passed.lapsed = request.lapsed /\ Passed.wrote = request.wrote
  BY <1>1, PassedFields DEF Same
<1>3. request.tok = TRUE => request.session = TRUE
  BY <1>1, StepTaken DEF Sound
<1>4. CASE Becomes(Passed)
  BY <1>1, <1>4, JustPassed
<1>5. CASE Becomes([Passed EXCEPT !.lapsed = TRUE, !.clears = TRUE])
  <2> DEFINE n == [Passed EXCEPT !.lapsed = TRUE, !.clears = TRUE]
  <2>1. n \in Request
    BY <1>2 DEF Request
  <2>2. /\ n.plan = Passed.plan /\ n.phase = Passed.phase /\ n.notice = Passed.notice
        /\ n.screen = Passed.screen /\ n.refusedBy = Passed.refusedBy
        /\ n.platform = Passed.platform /\ n.owns = Passed.owns /\ n.tok = Passed.tok
        /\ n.session = Passed.session /\ n.wrote = Passed.wrote /\ n.lapsed = TRUE
    BY <1>2 DEF Request
  <2>3. Becomes(n)
    BY <1>5
  <2> HIDE DEF n
  <2>4. /\ n.plan = Tail(request.plan) /\ n.phase = "asked" /\ n.notice = request.notice
        /\ n.screen = request.screen /\ n.refusedBy = request.refusedBy
        /\ request.owns = TRUE \/ "begin" = "visibility" => n.owns = TRUE
        /\ n.tok = TRUE => n.session = TRUE
        /\ "forget" \in n.wrote => "forget" \in request.wrote \/ "begin" = "forget"
    BY <1>2, <1>3, <2>2
  <2>5. QED
    BY <1>1, <2>1, <2>2, <2>3, <2>4, PassedStep
<1>6. ASSUME NEW tok \in BOOLEAN, NEW platform \in BOOLEAN,
             Becomes([Passed EXCEPT !.session = TRUE, !.tok = tok, !.platform = platform])
      PROVE  SInv'
  <2> DEFINE n == [Passed EXCEPT !.session = TRUE, !.tok = tok, !.platform = platform]
  <2>1. n \in Request
    BY <1>2 DEF Request
  <2>2. /\ n.plan = Passed.plan /\ n.phase = Passed.phase /\ n.notice = Passed.notice
        /\ n.screen = Passed.screen /\ n.refusedBy = Passed.refusedBy
        /\ n.owns = Passed.owns /\ n.session = TRUE /\ n.wrote = Passed.wrote
        /\ n.lapsed = Passed.lapsed /\ n.clears = Passed.clears
    BY <1>2 DEF Request
  <2>3. Becomes(n)
    BY <1>6
  <2> HIDE DEF n
  <2>4. /\ n.plan = Tail(request.plan) /\ n.phase = "asked" /\ n.notice = request.notice
        /\ n.screen = request.screen /\ n.refusedBy = request.refusedBy
        /\ request.owns = TRUE \/ "begin" = "visibility" => n.owns = TRUE
        /\ n.tok = TRUE => n.session = TRUE
        /\ "begin" = "begin" \/ n.platform = request.platform
        /\ "begin" = "platform" => n.platform = TRUE
        /\ n.clears = TRUE => request.clears = TRUE \/ n.lapsed = TRUE \/ "begin" = "clear"
        /\ request.lapsed = TRUE => n.lapsed = TRUE
        /\ "forget" \in n.wrote => "forget" \in request.wrote \/ "begin" = "forget"
    BY <1>2, <1>3, <2>1, <2>2 DEF Request
  <2>5. QED
    BY <1>1, <2>1, <2>3, <2>4, PassedStep
<1>7. QED
  BY <1>4, <1>5, <1>6 DEF Begin

\* What was typed is taken, or the form comes back with the list it shows.
LEMMA WordsHold ==
  ASSUME SInv, CheckWords
  PROVE  SInv'
<1>1. At("words") /\ request \in Request /\ Sound(request) /\ request.plan # <<>>
      /\ Head(request.plan) = "words"
  BY StepTaken DEF CheckWords
<1>2. Refusal(Ends(request, "page", 400), request)
  BY <1>1, EndsOK, Statuses DEF Page
<1>3. ASSUME NEW plan \in RenderTokens PROVE Refusal(Instead(request, plan, 400), request)
  <2>1. plan \in Seq(Harmless)
    BY TokenLists
  <2>2. plan \in Seq(Call \cup Check) /\ PlanOK(plan, request.screen, request.platform, request.owns)
    BY <2>1, HarmlessIsOK
  <2>3. QED
    BY <1>1, <2>2, InsteadOK, Statuses
<1>4. ASSUME request.screen \in {"keysPost", "newPost"}
      PROVE  /\ Refusal(Instead(request, <<"keys">>, 400), request)
             /\ Refusal(Instead(request, <<"namespaces">>, 400), request)
  <2>1. "words" \in Needs(request.screen)
    BY <1>4 DEF Needs
  <2>2. request.platform = TRUE
    BY <1>1, <2>1, PlanRest
  <2>3. \A status \in Status : /\ Refusal(Instead(request, <<"keys">>, status), request)
                               /\ Refusal(Instead(request, <<"namespaces">>, status), request)
    BY <1>1, <2>2, ListedAgain
  <2>4. QED
    BY <2>3, Statuses
<1>5. \/ Becomes(Passed) \/ Becomes(Ends(request, "page", 400))
      \/ \E plan \in RenderTokens : Becomes(Instead(request, plan, 400))
      \/ /\ request.screen \in {"keysPost", "newPost"}
         /\ \/ Becomes(Instead(request, <<"keys">>, 400))
            \/ Becomes(Instead(request, <<"namespaces">>, 400))
  BY DEF CheckWords
<1>6. CASE Becomes(Passed)
  BY <1>1, <1>6, JustPassed
<1>7. CASE Becomes(Ends(request, "page", 400))
  BY <1>1, <1>2, <1>7, RefusalStep
<1>8. ASSUME NEW plan \in RenderTokens, Becomes(Instead(request, plan, 400)) PROVE SInv'
  BY <1>1, <1>3, <1>8, RefusalStep
<1>9. CASE request.screen \in {"keysPost", "newPost"} /\ Becomes(Instead(request, <<"keys">>, 400))
  BY <1>1, <1>4, <1>9, RefusalStep
<1>10. CASE /\ request.screen \in {"keysPost", "newPost"}
            /\ Becomes(Instead(request, <<"namespaces">>, 400))
  BY <1>1, <1>4, <1>10, RefusalStep
<1>11. QED
  BY <1>5, <1>6, <1>7, <1>8, <1>9, <1>10

\* A sign-out takes the session away.
LEMMA EndHolds ==
  ASSUME SInv, EndSession
  PROVE  SInv'
<1> DEFINE n == Clear(Passed)
<1>1. At("clear") /\ Becomes(n)
  BY DEF EndSession
<1>2. /\ Passed \in Request /\ Passed.plan = Tail(request.plan) /\ Same(Passed, request)
      /\ Passed.phase = "asked" /\ Passed.notice = request.notice
  BY <1>1, PassedFields
<1>3. n \in Request /\ Same(n, Passed) /\ n.plan = Passed.plan /\ n.notice = Passed.notice
      /\ n.phase = Passed.phase
  BY <1>2, ClearFields
<1>4. request.tok = TRUE => request.session = TRUE
  BY <1>1, StepTaken DEF Sound
<1> HIDE DEF n
<1>5. /\ n.plan = Tail(request.plan) /\ n.phase = "asked" /\ n.notice = request.notice
      /\ n.screen = request.screen /\ n.refusedBy = request.refusedBy
      /\ n.platform = request.platform
      /\ request.owns = TRUE \/ "clear" = "visibility" => n.owns = TRUE
      /\ n.tok = TRUE => n.session = TRUE
      /\ n.clears = TRUE => request.clears = TRUE \/ n.lapsed = TRUE \/ "clear" = "clear"
      /\ "clear" = "begin" \/ n.platform = request.platform
      /\ "clear" = "platform" => n.platform = TRUE
      /\ request.lapsed = TRUE => n.lapsed = TRUE
      /\ "forget" \in n.wrote => "forget" \in request.wrote \/ "clear" = "forget"
  BY <1>2, <1>3, <1>4 DEF Same, Request
<1>6. QED
  BY <1>1, <1>3, <1>5, PassedStep

\* A call is carried out.
LEMMA SucceedHolds ==
  ASSUME SInv, NEW call \in Call, Succeed(call)
  PROVE  SInv'
<1> DEFINE wrote == IF call \in Write THEN request.wrote \cup {call} ELSE request.wrote
           owns == request.owns \/ call = "visibility"
           n == [Passed EXCEPT !.wrote = wrote, !.owns = owns]
<1>1. At(call)
  BY DEF Succeed
<1>2. /\ Passed \in Request /\ Passed.plan = Tail(request.plan) /\ Passed.phase = "asked"
      /\ Passed.notice = request.notice /\ Passed.clears = request.clears
      /\ Passed.screen = request.screen /\ Passed.refusedBy = request.refusedBy
      /\ Passed.platform = request.platform /\ Passed.owns = request.owns
      /\ Passed.tok = request.tok /\ Passed.session = request.session
      /\ Passed.lapsed = request.lapsed /\ Passed.wrote = request.wrote
  BY <1>1, PassedFields DEF Same
<1>3. Becomes(n)
  BY <1>2 DEF Succeed
<1>4. wrote \in SUBSET Write /\ owns \in BOOLEAN
  BY <1>1, StepTaken DEF Request
<1>5. "forget" \in wrote => "forget" \in request.wrote \/ call = "forget"
  OBVIOUS
<1>6. (request.owns = TRUE \/ call = "visibility") => owns = TRUE
  OBVIOUS
<1> HIDE DEF wrote, owns
<1>7. n \in Request
  BY <1>2, <1>4 DEF Request
<1>8. /\ n.plan = Passed.plan /\ n.phase = Passed.phase /\ n.notice = Passed.notice
      /\ n.screen = Passed.screen /\ n.refusedBy = Passed.refusedBy
      /\ n.platform = Passed.platform /\ n.owns = owns /\ n.tok = Passed.tok
      /\ n.session = Passed.session /\ n.wrote = wrote /\ n.clears = Passed.clears
      /\ n.lapsed = Passed.lapsed
  BY <1>2 DEF Request
<1>9. request.tok = TRUE => request.session = TRUE
  BY <1>1, StepTaken DEF Sound
<1>10. call # "platform" /\ call # "begin" /\ call # "clear"
  BY DEF Call, OrigoCall, RegistryCall, KeysCall
<1> HIDE DEF n
<1>11. /\ n.plan = Tail(request.plan) /\ n.phase = "asked" /\ n.notice = request.notice
       /\ n.screen = request.screen /\ n.refusedBy = request.refusedBy
       /\ n.platform = request.platform
       /\ request.owns = TRUE \/ call = "visibility" => n.owns = TRUE
       /\ n.tok = TRUE => n.session = TRUE
       /\ n.clears = TRUE => request.clears = TRUE
       /\ request.lapsed = TRUE => n.lapsed = TRUE
       /\ "forget" \in n.wrote => "forget" \in request.wrote \/ call = "forget"
  BY <1>2, <1>5, <1>6, <1>8, <1>9
<1>12. QED
  BY <1>1, <1>3, <1>7, <1>10, <1>11, PassedStep

\* A call is refused, or is never answered.
LEMMA RefuseHolds ==
  ASSUME SInv, NEW call \in Call, Refuse(call)
  PROVE  SInv'
<1>1. PICK a \in Common \cup Own(call), lost \in BOOLEAN :
        /\ lost => call \in Write /\ a \in {"unreachable", "garbled"}
        /\ LET q == [request EXCEPT
              !.refusedBy = IF a = "unauthenticated" /\ Presented(request, call)
                            THEN @ \cup {call} ELSE @,
              !.wrote = IF lost THEN @ \cup {call} ELSE @] IN
           \E next \in Failed(q, call, a) : Becomes(next)
  BY DEF Refuse
<1> DEFINE refusedBy == IF a = "unauthenticated" /\ Presented(request, call)
                        THEN request.refusedBy \cup {call} ELSE request.refusedBy
           wrote == IF lost THEN request.wrote \cup {call} ELSE request.wrote
           q == [request EXCEPT !.refusedBy = refusedBy, !.wrote = wrote]
<1>2. PICK n \in Failed(q, call, a) : Becomes(n)
  BY <1>1
<1>3. At(call) /\ request \in Request /\ Sound(request) /\ request.plan # <<>>
      /\ Head(request.plan) = call /\ request.refusedBy \cap KeysCall = {}
  BY StepTaken DEF Refuse
<1>4. refusedBy \in SUBSET Call /\ wrote \in SUBSET Write
  BY <1>1, <1>3 DEF Request
<1>5. /\ request.refusedBy # {} => refusedBy # {}
      /\ a = "unauthenticated" /\ Presented(request, call) => refusedBy # {}
      /\ refusedBy \cap KeysCall # {} => call \in KeysCall /\ a = "unauthenticated"
  BY <1>3
<1>6. "forget" \in wrote => request.owns = TRUE
  <2>1. call = "forget" => request.owns = TRUE
    BY <1>3, PlanRest
  <2>2. "forget" \in request.wrote => request.owns = TRUE
    BY <1>3 DEF Sound
  <2>3. QED
    BY <2>1, <2>2
<1> HIDE DEF refusedBy, wrote
<1>7. q \in Request
  BY <1>3, <1>4 DEF Request
<1>8. /\ q.plan = request.plan /\ q.screen = request.screen /\ q.platform = request.platform
      /\ q.owns = request.owns /\ q.tok = request.tok /\ q.session = request.session
      /\ q.clears = request.clears /\ q.lapsed = request.lapsed /\ q.notice = request.notice
      /\ q.refusedBy = refusedBy /\ q.wrote = wrote
  BY <1>3 DEF Request
<1> HIDE DEF q
<1>9. Sound(q)
  BY <1>3, <1>5, <1>6, <1>8 DEF Sound
<1>10. a = "unauthenticated" /\ Presented(q, call) => q.refusedBy # {}
  BY <1>5, <1>8 DEF Presented
<1>11. Refusal(n, q) /\ (call \in KeysCall /\ a = "unauthenticated" => SignedOut(n))
  BY <1>2, <1>3, <1>7, <1>8, <1>9, <1>10, FailedOK
<1>12. Sound(n) /\ n \in Request /\ n.refusedBy = q.refusedBy
  BY <1>7, <1>9, <1>11, RefusalSound DEF Refusal, Same
<1>13. request' = n /\ registry' = registry
  BY <1>2 DEF Becomes
<1>14. n.refusedBy \cap KeysCall # {} => SignedOut(n)
  BY <1>5, <1>8, <1>11, <1>12
<1>15. QED
  BY <1>12, <1>13, <1>14 DEF SInv

\* The plan has been carried out.
LEMMA RenderHolds ==
  ASSUME SInv, Render
  PROVE  SInv'
<1>1. /\ request \in Request /\ Sound(request) /\ request.refusedBy \cap KeysCall = {}
      /\ request.status \in Status
  BY DEF SInv, SignedOut, Render, Request
<1>2. PICK page \in Page, status \in Status : Becomes(Ends(request, page, status))
  <2>1. "redirect" \in Page /\ "page" \in Page
    BY DEF Page
  <2>2. QED
    BY <1>1, <2>1, Statuses DEF Render
<1> DEFINE n == Ends(request, page, status)
<1>3. Refusal(n, request)
  BY <1>1, EndsOK
<1>4. request' = n /\ registry' = registry
  BY <1>2 DEF Becomes
<1> HIDE DEF n
<1>5. Sound(n) /\ n \in Request /\ n.refusedBy = request.refusedBy
  BY <1>1, <1>3, RefusalSound DEF Refusal, Same
<1>6. QED
  BY <1>1, <1>4, <1>5 DEF SInv

\* A request that is just asked for, and none.
LEMMA Asking ==
  ASSUME NEW phase \in {"idle", "asked", "answered"}, NEW s \in Pages \cup Forms,
         NEW plan \in Seq(Call \cup Check), PlanOK(plan, s, FALSE, FALSE),
         request' = [Idle EXCEPT !.phase = phase, !.screen = s, !.plan = plan],
         registry' \in BOOLEAN
  PROVE  SInv'
<1> DEFINE n == [Idle EXCEPT !.phase = phase, !.screen = s, !.plan = plan]
<1>1. n \in Request
  <2>1. "none" \in Page /\ 200 \in Status
    BY DEF Page, Status
  <2>2. QED
    BY <2>1 DEF Idle, Request
<1>2. /\ n.plan = plan /\ n.screen = s /\ n.platform = FALSE /\ n.owns = FALSE /\ n.tok = FALSE
      /\ n.clears = FALSE /\ n.notice = FALSE /\ n.wrote = {} /\ n.refusedBy = {}
  BY DEF Idle
<1> HIDE DEF n
<1>3. Sound(n)
  BY <1>2 DEF Sound
<1>4. request' = n
  BY DEF n
<1>5. QED
  BY <1>1, <1>2, <1>3, <1>4 DEF SInv

LEMMA IdleOK == Idle \in Request /\ Sound(Idle) /\ Idle.refusedBy = {}
<1>1. <<>> \in Seq(Call \cup Check) /\ "home" \in Pages
  BY DEF Pages
<1>2. Idle \in Request
  BY <1>1 DEF Idle, Request, Page, Status
<1>3. QED
  BY <1>2, NoPlan DEF Idle, Sound

LEMMA AskHolds ==
  ASSUME SInv, NEW s \in Asked, Ask(s)
  PROVE  SInv'
<1>1. s \in Pages \cup Forms
  BY ScreensAssumption
<1>2. PICK plan \in Plans[s] :
        request' = [Idle EXCEPT !.phase = "asked", !.screen = s, !.plan = plan]
  BY DEF Ask
<1>3. plan \in Seq(Call \cup Check) /\ PlanOK(plan, s, FALSE, FALSE)
  BY <1>1, PlansOK
<1>4. registry' \in BOOLEAN
  BY DEF Ask, SInv
<1>5. QED
  BY <1>1, <1>2, <1>3, <1>4, Asking

LEMMA SeenHolds ==
  ASSUME SInv, Seen
  PROVE  SInv'
<1>1. request' = Idle /\ registry' \in BOOLEAN
  BY DEF Seen, SInv
<1>2. QED
  BY <1>1, IdleOK DEF SInv

----------------------------------------------------------------------------
(***************************************************************************)
(* The theorems.                                                           *)
(***************************************************************************)

LEMMA InitHolds == Init => SInv
BY IdleOK DEF Init, SInv

LEMMA StepHolds == SInv /\ [Next]_vars => SInv'
<1> SUFFICES ASSUME SInv, [Next]_vars PROVE SInv'
  OBVIOUS
<1>1. ASSUME NEW s \in Asked, Ask(s) PROVE SInv'
  BY <1>1, AskHolds
<1>2. CASE \/ CheckForm \/ Front \/ CheckToken \/ RequirePlatform \/ CheckCreation
           \/ CheckEntry \/ CheckPicked \/ SkipBadge
  BY <1>2, ChecksHold
<1>3. CASE Begin
  BY <1>3, BeginHolds
<1>4. CASE CheckWords
  BY <1>4, WordsHold
<1>5. CASE EndSession
  BY <1>5, EndHolds
<1>6. ASSUME NEW call \in Call, Succeed(call) PROVE SInv'
  BY <1>6, SucceedHolds
<1>7. ASSUME NEW call \in Call, Refuse(call) PROVE SInv'
  BY <1>7, RefuseHolds
<1>8. CASE Render
  BY <1>8, RenderHolds
<1>9. CASE Seen
  BY <1>9, SeenHolds
<1>10. CASE UNCHANGED vars
  BY <1>10 DEF vars, SInv, Sound, SignedOut
<1>11. QED
  BY <1>1, <1>2, <1>3, <1>4, <1>5, <1>6, <1>7, <1>8, <1>9, <1>10 DEF Next

\* SInv holds of every request, whichever screen it asks for.
THEOREM Holds == Spec => []SInv
<1>1. Init => SInv
  BY InitHolds
<1>2. SInv /\ [Next]_vars => SInv'
  BY StepHolds
<1>3. QED
  BY <1>1, <1>2, PTL DEF Spec

\* Every request has one of the phases, screens, steps and statuses above, and
\* its writes are writes.
THEOREM TypesHold == Spec => []TypeOK
<1>1. SInv => TypeOK
  BY DEF SInv, Request, TypeOK, Status
<1>2. QED
  BY <1>1, Holds, PTL

\* readFailed and its kin: an answer takes the session away only when a service
\* refused a credential the request presented, when Load refused the session, or
\* on a sign-out.
THEOREM ClearsOnlyTheRefused == Spec => []ClearsOnlyRefused
<1>1. SInv => ClearsOnlyRefused
  BY DEF SInv, Sound, ClearsOnlyRefused, Answered
<1>2. QED
  BY <1>1, Holds, PTL

\* signInPage: the page says the session was rejected only when one was.
THEOREM NoticesOnlyTheRefused == Spec => []NoticeOnlyRefused
<1>1. SInv => NoticeOnlyRefused
  BY DEF SInv, Sound, NoticeOnlyRefused, Answered
<1>2. QED
  BY <1>1, Holds, PTL

\* keys.Unauthenticated: whatever it was asked, the key store's refusal of a
\* credential clears the session and ends on the sign-in page.
THEOREM KeysEnd == Spec => []KeysRefusalEnds
<1>1. SInv => KeysRefusalEnds
  BY DEF SInv, SignedOut, KeysRefusalEnds, EndsOn
<1>2. QED
  BY <1>1, Holds, PTL

\* administers: no request deletes a repository unless the registry had answered
\* in it that this person administers it, whether or not the deletion's own
\* answer arrives.
THEOREM DeletesOnlyTheOwned == Spec => []DeletesOnlyOwned
<1>1. SInv => DeletesOnlyOwned
  BY DEF SInv, Sound, DeletesOnlyOwned
<1>2. QED
  BY <1>1, Holds, PTL

\* What may become of a request after a 403 is what may become of it after a 404.
LEMMA Alike ==
  ASSUME NEW q, NEW call \in OrigoCall
  PROVE  Failed(q, call, "forbidden") = Failed(q, call, "missing")
<1>1. "forbidden" \in Absent /\ "missing" \in Absent
  BY DEF Absent
<1>2. ReadFailed(q, "forbidden") = ReadFailed(q, "missing")
  BY <1>1 DEF ReadFailed
<1>3. ReadFailedIn(q, "forbidden") = ReadFailedIn(q, "missing")
  BY <1>1 DEF ReadFailedIn
<1>4. MintRefused(q, "forbidden") = MintRefused(q, "missing")
  BY <1>1 DEF MintRefused
<1>5. /\ HomeRefused(q, "forbidden") = HomeRefused(q, "missing")
      /\ TokensRefused(q, "forbidden") = TokensRefused(q, "missing")
  BY DEF HomeRefused, TokensRefused
<1>6. CASE call \in {"readme", "named", "records"}
  BY <1>6 DEF Failed
<1>7. CASE call = "list"
  BY <1>5, <1>7 DEF Failed
<1>8. CASE call \in {"mint", "repo", "resolve"}
  BY <1>2, <1>4, <1>8 DEF Failed
<1>9. CASE call \in {"heads", "tags", "tree", "commits", "commit", "compare", "blob", "stream"}
  BY <1>3, <1>9 DEF Failed
<1>10. QED
  BY <1>6, <1>7, <1>8, <1>9 DEF OrigoCall

\* origo.Absent: no screen tells a 403 of Origo from a 404, whatever call the
\* request is at and whatever came before it.
THEOREM OneRefusalForBoth == Spec => []OneRefusal
<1>1. OneRefusal
  BY Alike DEF OneRefusal
<1>2. QED
  BY <1>1, PTL
=============================================================================
