-------------------------------- MODULE PairPage --------------------------------
(***************************************************************************)
(* The pairing page in the browsers that have it open: the handlers of     *)
(* internal/daemon/pair_handler.go, the token buckets of                   *)
(* internal/daemon/ratelimit.go and the page's own refresh.  A bucket is   *)
(* counted in the units one second refills, so a request costs as many     *)
(* units as seconds pass for a token.                                      *)
(***************************************************************************)
EXTENDS Integers, FiniteSets

CONSTANTS
    Tab, Slot,      \* browser tabs, and form submissions under way
    Period,         \* seconds between refreshes of the unpaired page
    Cost, Burst,    \* of each bucket: seconds per token, tokens it holds
    RetryAfter,     \* the header of each endpoint's refusal
    MaxOpens        \* bound: page loads a user asks for, by hand or by a form

Bucket == {"page", "image", "reset", "code"}

ASSUME PairPageAssumption ==
    /\ IsFiniteSet(Tab) /\ IsFiniteSet(Slot)
    /\ Period \in Nat \ {0} /\ MaxOpens \in Nat
    /\ Cost \in [Bucket -> Nat \ {0}] /\ Burst \in [Bucket -> Nat \ {0}]
    /\ RetryAfter \in [Bucket -> Nat]

\* The rates newPairHandlers chooses: the page's bucket has a token again before
\* the page refreshes, the image's holds more and fills no slower, and nobody is
\* told to come back before there is a token.
ASSUME RatesAssumption ==
    /\ Cost["page"] <= Period
    /\ Cost["image"] <= Cost["page"]
    /\ Cost["page"] * Burst["page"] <= Cost["image"] * Burst["image"]
    /\ \A b \in Bucket : Cost[b] <= RetryAfter[b]

VARIABLES
    level,      \* units in each bucket
    wait,       \* the seconds left of the last Retry-After, if nobody was admitted since
    csrf,       \* whether a CSRF token is stored: then it is the last one minted
    paired,     \* the flag of the pair cache
    tab,        \* what each tab shows and what is on its way to it
    post,       \* the form submissions
    uses,       \* how often a form with the last token was accepted
    opens

vars == <<level, wait, csrf, paired, tab, post, uses, opens>>
forms == <<post, uses>>

\* Tokens are random: one is the last minted or matches nothing any more.
Nothing == [page |-> "none", token |-> "none"]
Blank == [page |-> "blank", token |-> "none", timer |-> Period, coming |-> Nothing, image |-> "no"]
Free == [at |-> "free", from |-> {}, token |-> "none"]

Init ==
    /\ level = [b \in Bucket |-> Cost[b] * Burst[b]] /\ wait = [b \in Bucket |-> {}]
    /\ csrf = FALSE /\ paired \in BOOLEAN
    /\ tab = [t \in Tab |-> Blank] /\ post = [s \in Slot |-> Free]
    /\ uses = 0 /\ opens = 0

\* The header of a refusal, Retry-After; the last one is remembered.
Told(b, ok) ==
    IF ok THEN [wait EXCEPT ![b] = {}]
    ELSE [c \in Bucket |-> IF c = b THEN {RetryAfter[b]} ELSE {}]

\* Bug: a refused request is charged too.
AdmitCharges(b, ok) ==
    /\ ok = (level[b] >= Cost[b])
    /\ level' = [level EXCEPT ![b] = @ - Cost[b]]
    /\ wait' = Told(b, ok)

\* Bug: the page gets the five requests a minute it used to.
AdmitSlowly(b, ok) ==
    LET cost == IF b = "page" THEN 12 ELSE Cost[b] IN
    /\ ok = (level[b] >= cost)
    /\ level' = [level EXCEPT ![b] = IF ok THEN @ - cost ELSE @]
    /\ wait' = Told(b, ok)

\* Bug: the page and its image share a bucket.
AdmitShared(b, ok) ==
    LET one == IF b = "image" THEN "page" ELSE b IN
    /\ ok = (level[one] >= Cost[one])
    /\ level' = [level EXCEPT ![one] = IF ok THEN @ - Cost[one] ELSE @]
    /\ wait' = Told(one, ok)

\* Limiter.Allow: one token, or none is taken.
Admit(b, ok) ==
    /\ ok = (level[b] >= Cost[b])
    /\ level' = [level EXCEPT ![b] = IF ok THEN @ - Cost[b] ELSE @]
    /\ wait' = Told(b, ok)

\* generateCSRFToken: a new token takes the place of the stored one, for the
\* pages and the forms under way alike.
Older(token) == IF token = "last" THEN "old" ELSE token
Mint(t, page, posts) ==
    /\ csrf' = TRUE /\ uses' = 0
    /\ tab' = [[u \in Tab |-> [tab[u] EXCEPT !.token = Older(@), !.coming.token = Older(@)]]
                  EXCEPT ![t].coming = [page |-> page, token |-> "last"]]
    /\ post' = [s \in Slot |-> [posts[s] EXCEPT !.token = Older(@)]]

\* handlePairPage, for tab t: the page is on its way, or the refusal, which has
\* neither form nor refresh.
PairPage(t, posts) ==
    \E ok \in BOOLEAN :
       /\ Admit("page", ok)
       /\ IF ok THEN Mint(t, IF paired THEN "paired" ELSE "pair", posts)
          ELSE /\ tab' = [tab EXCEPT ![t] = [Blank EXCEPT !.page = "limited"]]
               /\ post' = posts /\ UNCHANGED <<csrf, uses>>

Submitting(t) == \E s \in Slot : t \in post[s].from

\* The user opens or reloads the page.
Open(t) ==
    /\ opens < MaxOpens /\ opens' = opens + 1
    /\ tab[t].coming = Nothing /\ ~Submitting(t)
    /\ PairPage(t, post)
    /\ UNCHANGED paired

\* The refresh the unpaired page asks for, unless a form of it is under way.
Refresh(t) ==
    /\ tab[t].page = "pair" /\ tab[t].timer = 0 /\ tab[t].coming = Nothing
    /\ ~Submitting(t)
    /\ PairPage(t, post)
    /\ UNCHANGED <<paired, opens>>

\* The page arrives; the unpaired one asks for the code's image.
Show(t) ==
    /\ tab[t].coming # Nothing
    /\ tab' = [tab EXCEPT ![t] = [page |-> @.coming.page, token |-> @.coming.token,
            timer |-> Period, coming |-> Nothing,
            image |-> IF @.coming.page = "pair" THEN "asked" ELSE "no"]]
    /\ UNCHANGED <<level, wait, csrf, paired, forms, opens>>

\* handlePairQR: the image of the cached code, or none yet.
PairQR(t) ==
    /\ tab[t].image = "asked"
    /\ \E ok \in BOOLEAN :
          /\ Admit("image", ok)
          /\ tab' = [tab EXCEPT ![t].image = IF ok THEN "no" ELSE "limited"]
    /\ UNCHANGED <<csrf, paired, forms, opens>>

-------------------------------------------------------------------------------
(* The forms: "Get pairing code" of the unpaired page, "Force re-pair" of   *)
(* the paired one.  Submitting one abandons a page on its way.              *)

Submit(t, s) ==
    /\ tab[t].page \in {"pair", "paired", "codeAnswer", "resetAnswer"} /\ post[s].at = "free"
    /\ post' = [post EXCEPT ![s] =
            [at |-> IF tab[t].page \in {"pair", "codeAnswer"} THEN "code" ELSE "reset",
             from |-> {t}, token |-> tab[t].token]]
    /\ tab' = [tab EXCEPT ![t].coming = Nothing, ![t].image = "no"]
    /\ UNCHANGED <<level, wait, csrf, paired, uses, opens>>

\* The tab shows the answer of a form, which does not refresh; loading it again
\* sends the form again.
AnswerPage(page) == IF page \in {"pair", "codeAnswer"} THEN "codeAnswer" ELSE "resetAnswer"
Answered(s) ==
    tab' = [t \in Tab |-> IF t \in post[s].from /\ tab[t].page \in {"pair", "paired"}
                          THEN [tab[t] EXCEPT !.page = AnswerPage(@), !.timer = Period, !.image = "no"]
                          ELSE tab[t]]

\* Both handlers ask their bucket first, before they look at the form.
AdmitForm(s) ==
    /\ post[s].at \in {"reset", "code"}
    /\ \E ok \in BOOLEAN :
          /\ Admit(post[s].at, ok)
          /\ IF ok THEN /\ post' = [post EXCEPT ![s].at = IF @ = "reset" THEN "checkReset" ELSE "checkPaired"]
                        /\ UNCHANGED tab
                   ELSE post' = [post EXCEPT ![s] = Free] /\ Answered(s)
    /\ UNCHANGED <<csrf, paired, uses, opens>>

\* The redirect to /pair is a page load of its own.
Redirect(s) ==
    /\ post[s].at = "redirect"
    /\ opens < MaxOpens /\ opens' = opens + 1
    /\ \E t \in post[s].from : PairPage(t, [post EXCEPT ![s] = Free])
    /\ UNCHANGED paired

\* handlePairCode: a daemon that is paired by now shows so.
CheckPaired(s) ==
    /\ post[s].at = "checkPaired"
    /\ post' = [post EXCEPT ![s].at = IF paired THEN "redirect" ELSE "checkCode"]
    /\ UNCHANGED <<level, wait, csrf, paired, tab, uses, opens>>

\* Bug: a token that does not match is consumed too.
ValidCSRFTokenClears(s, ok) ==
    /\ ok = (csrf /\ post[s].token = "last")
    /\ csrf' = FALSE

\* Bug: a token that was accepted stays valid.
ValidCSRFTokenKeeps(s, ok) ==
    /\ ok = (csrf /\ post[s].token = "last")
    /\ UNCHANGED csrf

\* validCSRFToken: a match consumes the token.
ValidCSRFToken(s, ok) ==
    /\ ok = (csrf /\ post[s].token = "last")
    /\ csrf' = (csrf /\ ~ok)

CheckToken(s) ==
    /\ post[s].at \in {"checkReset", "checkCode"}
    /\ \E ok \in BOOLEAN :
          /\ ValidCSRFToken(s, ok)
          /\ IF ok THEN /\ post' = [post EXCEPT ![s].at = IF @ = "checkReset" THEN "logout" ELSE "ask"]
                        /\ uses' = uses + 1
                        /\ UNCHANGED tab
                   ELSE /\ post' = [post EXCEPT ![s].at = "refused"] /\ Answered(s)
                        /\ UNCHANGED uses
    /\ UNCHANGED <<level, wait, paired, opens>>

Forget(s) ==
    /\ post[s].at = "refused" /\ post' = [post EXCEPT ![s] = Free]
    /\ UNCHANGED <<level, wait, csrf, paired, tab, uses, opens>>

\* Logout, then the cache reset and the redirect; or its error.
Logout(s) ==
    /\ post[s].at = "logout"
    /\ \/ post' = [post EXCEPT ![s].at = "redirect"] /\ paired' = FALSE /\ UNCHANGED tab
       \/ post' = [post EXCEPT ![s] = Free] /\ Answered(s) /\ UNCHANGED paired
    /\ UNCHANGED <<level, wait, csrf, uses, opens>>

\* The number is checked and the code asked for (PairPhone); the page shows the
\* code or what went wrong.
PairPhone(s) ==
    /\ post[s].at = "ask"
    /\ post' = [post EXCEPT ![s] = Free] /\ Answered(s)
    /\ UNCHANGED <<level, wait, csrf, paired, uses, opens>>

-------------------------------------------------------------------------------

\* A phone pairs, or revokes, and the pair cache follows.
PairingChanges ==
    /\ paired' = ~paired
    /\ UNCHANGED <<level, wait, csrf, tab, forms, opens>>

\* Bug: the bucket overflows.
RefillOverflows == level' = [b \in Bucket |-> level[b] + 1]

\* The refill of Limiter.Allow, told second by second: up to the burst.
Refill ==
    level' = [b \in Bucket |-> IF level[b] < Cost[b] * Burst[b] THEN level[b] + 1 ELSE level[b]]

\* A second passes; refreshes are not late, answers take less than a second.
Tick ==
    /\ \A s \in Slot : post[s].at = "free"
    /\ \A t \in Tab : tab[t].coming = Nothing /\ tab[t].image # "asked" /\ (tab[t].page = "pair" => tab[t].timer > 0)
    /\ Refill
    /\ wait' = [b \in Bucket |-> {IF n = 0 THEN 0 ELSE n - 1 : n \in wait[b]}]
    /\ tab' = [t \in Tab |-> IF tab[t].page = "pair" THEN [tab[t] EXCEPT !.timer = @ - 1] ELSE tab[t]]
    /\ UNCHANGED <<csrf, paired, forms, opens>>

Next ==
    \/ \E t \in Tab : Open(t) \/ Refresh(t) \/ Show(t) \/ PairQR(t)
    \/ \E t \in Tab, s \in Slot : Submit(t, s)
    \/ \E s \in Slot :
          \/ AdmitForm(s) \/ Redirect(s) \/ CheckPaired(s) \/ CheckToken(s)
          \/ Forget(s) \/ Logout(s) \/ PairPhone(s)
    \/ PairingChanges \/ Tick

Spec == Init /\ [][Next]_vars

-------------------------------------------------------------------------------

TypeOK ==
    /\ \A b \in Bucket : level[b] \in 0..(Cost[b] * Burst[b]) /\ wait[b] \subseteq 0..RetryAfter[b]
    /\ csrf \in BOOLEAN /\ paired \in BOOLEAN /\ uses \in 0..Cardinality(Slot)
    /\ \A t \in Tab : tab[t].timer \in 0..Period
                     /\ (tab[t].page \in {"blank", "limited"} <=> tab[t].token = "none")
    /\ \A s \in Slot : post[s].at = "free" <=> post[s].token = "none"

\* However many tabs are opened and left to refresh, they never all end on the
\* refusal, which does not refresh ("both limiters below must refill faster than
\* that or a single viewer permanently rate-limits itself"); loads by hand on top
\* of them may use up the bucket.
OpenTabs == {t \in Tab : tab[t].page # "blank" \/ tab[t].coming # Nothing}
SomePageLives ==
    opens <= Cardinality(OpenTabs) /\ OpenTabs # {} => \E t \in OpenTabs : tab[t].page # "limited"

\* A page that was admitted gets its image: the image's own bucket never refuses
\* what the page's bucket let through.
ImagesAreServed == \A t \in Tab : tab[t].image # "limited"

\* A form works at most once, however often it is submitted.
FormsWorkOnce == uses <= 1

\* A form is refused only because a page loaded later, or the same form, was
\* there first: somebody else's stale or forged form never invalidates it.
RefusalsHaveACause ==
    \A s \in Slot : post[s].at = "refused" /\ post[s].token = "last" => uses > 0

\* A form that was served works, and works once.
FormsAreHonest == FormsWorkOnce /\ RefusalsHaveACause

\* Whoever is alone and waits as long as a refusal says is admitted.
RetryAfterIsHonest == \A b \in Bucket : 0 \in wait[b] => level[b] >= Cost[b]

\* The buckets stop a flood of requests and not the people who look at the page.
LimitsAreFair == SomePageLives /\ ImagesAreServed /\ RetryAfterIsHonest
===============================================================================
