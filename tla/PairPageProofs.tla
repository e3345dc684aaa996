---------------------------- MODULE PairPageProofs ----------------------------
(***************************************************************************)
(* What the pairing page keeps, for any number of tabs and forms, and for  *)
(* all rates that fit together as RatesAssumption says.                    *)
(***************************************************************************)
EXTENDS PairPage, FiniteSetTheorems, TLAPS

Token == {"none", "old", "last"}
Shown == {"blank", "limited", "pair", "paired", "codeAnswer", "resetAnswer"}
Coming == [page : {"none", "pair", "paired"}, token : Token]
TabType == [page : Shown, token : Token, timer : 0..Period, coming : Coming,
            image : {"no", "asked", "limited"}]
PostType == [at : {"free", "reset", "code", "checkReset", "checkPaired", "checkCode", "logout",
                   "ask", "redirect", "refused"},
             from : SUBSET Tab, token : Token]

Full(b) == Cost[b] * Burst[b]

Types ==
    /\ level \in [Bucket -> Nat]
    /\ \A b \in Bucket : level[b] <= Full(b)
    /\ wait \in [Bucket -> SUBSET Nat]
    /\ \A b \in Bucket : \A n \in wait[b] : n <= RetryAfter[b]
    /\ csrf \in BOOLEAN /\ paired \in BOOLEAN /\ opens \in Nat
    /\ tab \in [Tab -> TabType]
    /\ post \in [Slot -> PostType]

\* What carries a token: every page with a form and every form under way.
Carried ==
    /\ \A t \in Tab : /\ tab[t].page \in {"blank", "limited"} <=> tab[t].token = "none"
                      /\ tab[t].coming.page = "none" <=> tab[t].coming.token = "none"
    /\ \A s \in Slot : /\ post[s].at = "free" <=> post[s].token = "none"
                       /\ post[s].at = "free" => post[s].from = {}
                       /\ \A t \in post[s].from : tab[t].page # "blank"

\* The last token has been minted and not used, or used once; before the first
\* nothing carries it.
TokenOK ==
    /\ uses \in {0, 1}
    /\ uses = 1 => ~csrf /\ Slot # {}
    /\ ~csrf /\ uses = 0 =>
         /\ \A t \in Tab : tab[t].token # "last" /\ tab[t].coming.token # "last"
         /\ \A s \in Slot : post[s].token # "last"

\* Who was told to wait has a token when the wait is over.
WaitOK == \A b \in Bucket : \A n \in wait[b] : Cost[b] <= level[b] + n

\* Images still to be asked for, and the pages that will ask.
Asking == {t \in Tab : tab[t].image = "asked"}
Arriving == {t \in Tab : tab[t].coming.page = "pair"}

\* For each of them the image's bucket holds what the page's bucket gave away.
ImageOK ==
    /\ \A t \in Tab : tab[t].image # "limited"
    /\ level["page"] + Cost["page"] * (Cardinality(Asking) + Cardinality(Arriving)) <= level["image"]

\* A tab that will not be refused unless the user reloads it: what it shows does
\* not refresh, or there is a token by the time it does.
Lives(t) ==
    \/ tab[t].page \in {"paired", "codeAnswer", "resetAnswer"}
    \/ tab[t].page # "limited" /\ tab[t].coming # Nothing
    \/ /\ tab[t].page = "pair"
       /\ \/ Submitting(t)
          \/ Cost["page"] <= level["page"]
          \/ Period <= level["page"] + tab[t].timer

\* Nobody has loaded a page a second time: a tab is open for each load.
OnlyOnce == opens <= Cardinality(OpenTabs)

\* As long as that is so, a tab whose form is under way waits for its answer
\* only, and a refusal has been shown.
FormsWait ==
    OnlyOnce => \A s \in Slot : \A t \in post[s].from :
                   /\ tab[t].coming = Nothing
                   /\ post[s].at = "refused" => tab[t].page # "pair"

\* And one of the open tabs lives.
AliveOK ==
    /\ Cardinality(OpenTabs) <= opens
    /\ OpenTabs = {} => Cost["page"] <= level["page"]
    /\ OnlyOnce /\ OpenTabs # {} => \E t \in OpenTabs : Lives(t)

-------------------------------------------------------------------------------
(* What the operators of PairPage change, tab by tab.                      *)

\* The page is on its way to tab t, and every older token is older now.
Served(t, posts) ==
    /\ Cost["page"] <= level["page"]
    /\ level' = [level EXCEPT !["page"] = @ - Cost["page"]]
    /\ csrf' = TRUE /\ uses' = 0
    /\ tab' \in [Tab -> TabType]
    /\ \A u \in Tab : /\ tab'[u].page = tab[u].page /\ tab'[u].timer = tab[u].timer
                       /\ tab'[u].image = tab[u].image /\ tab'[u].token = Older(tab[u].token)
    /\ \A u \in Tab \ {t} : /\ tab'[u].coming.page = tab[u].coming.page
                             /\ tab'[u].coming.token = Older(tab[u].coming.token)
    /\ tab'[t].coming.page \in {"pair", "paired"} /\ tab'[t].coming.token = "last"
    /\ post' \in [Slot -> PostType]
    /\ \A s \in Slot : /\ post'[s].at = posts[s].at /\ post'[s].from = posts[s].from
                        /\ post'[s].token = Older(posts[s].token)

\* The tab shows the refusal.
Turned(t, posts) ==
    /\ level["page"] < Cost["page"]
    /\ level' = level
    /\ tab' \in [Tab -> TabType]
    /\ \A u \in Tab \ {t} : tab'[u] = tab[u]
    /\ tab'[t] = [Blank EXCEPT !.page = "limited"]
    /\ post' = posts
    /\ UNCHANGED <<csrf, uses>>

\* Limiter.Allow changes its own bucket and the wait, and keeps their types.
LEMMA AdmitEffect ==
    ASSUME Types, NEW b \in Bucket, NEW ok \in BOOLEAN, Admit(b, ok)
    PROVE  /\ ok <=> Cost[b] <= level[b]
           /\ level' \in [Bucket -> Nat]
           /\ level'[b] = IF ok THEN level[b] - Cost[b] ELSE level[b]
           /\ \A c \in Bucket \ {b} : level'[c] = level[c]
           /\ \A c \in Bucket : level'[c] <= Full(c)
           /\ wait' \in [Bucket -> SUBSET Nat]
           /\ \A c \in Bucket : \A n \in wait'[c] : n <= RetryAfter[c]
           /\ \A c \in Bucket : \A n \in wait'[c] :
                 \/ ok /\ c # b /\ n \in wait[c]
                 \/ ~ok /\ c = b /\ n = RetryAfter[b]
<1>1. /\ \A c \in Bucket : Cost[c] \in Nat /\ Burst[c] \in Nat /\ RetryAfter[c] \in Nat
      /\ \A c \in Bucket : level[c] \in Nat /\ Full(c) \in Nat
  BY PairPageAssumption DEF Types, Full
<1>2. ok <=> Cost[b] <= level[b]
  BY <1>1 DEF Admit
<1>3. /\ level' \in [Bucket -> Nat]
      /\ level'[b] = IF ok THEN level[b] - Cost[b] ELSE level[b]
      /\ \A c \in Bucket \ {b} : level'[c] = level[c]
  BY <1>1, <1>2 DEF Admit, Types
<1>4. \A c \in Bucket : level'[c] <= Full(c)
  BY <1>1, <1>3 DEF Types
<1>5. CASE ok
  BY <1>1, <1>2, <1>3, <1>4, <1>5 DEF Admit, Told, Types
<1>6. CASE ~ok
  <2>1. wait' = [c \in Bucket |-> IF c = b THEN {RetryAfter[b]} ELSE {}]
    BY <1>6 DEF Admit, Told
  <2> QED
    BY <1>1, <1>2, <1>3, <1>4, <1>6, <2>1
<1> QED
  BY <1>5, <1>6

\* handlePairPage: served or turned away.
LEMMA PairPageEffect ==
    ASSUME Types, NEW t \in Tab, NEW posts \in [Slot -> PostType], PairPage(t, posts)
    PROVE  Served(t, posts) \/ Turned(t, posts)
<1>1. PICK ok \in BOOLEAN :
          /\ Admit("page", ok)
          /\ IF ok THEN Mint(t, IF paired THEN "paired" ELSE "pair", posts)
             ELSE /\ tab' = [tab EXCEPT ![t] = [Blank EXCEPT !.page = "limited"]]
                  /\ post' = posts /\ UNCHANGED <<csrf, uses>>
  BY DEF PairPage
<1>2. "page" \in Bucket
  BY DEF Bucket
<1>3. ok <=> Cost["page"] <= level["page"]
  BY <1>1, <1>2, AdmitEffect
<1>4. \A u \in Tab : tab[u] \in TabType
  BY DEF Types
<1>5. \A token \in Token : Older(token) \in Token
  BY DEF Token, Older
<1>6. CASE ok
  <2>1. Cost["page"] <= level["page"] /\ level' = [level EXCEPT !["page"] = @ - Cost["page"]]
    BY <1>1, <1>3, <1>6 DEF Admit
  <2> DEFINE page == IF paired THEN "paired" ELSE "pair"
             older == [u \in Tab |-> [tab[u] EXCEPT !.token = Older(@), !.coming.token = Older(@)]]
  <2>2. /\ csrf' = TRUE /\ uses' = 0
        /\ tab' = [older EXCEPT ![t].coming = [page |-> page, token |-> "last"]]
        /\ post' = [s \in Slot |-> [posts[s] EXCEPT !.token = Older(@)]]
    BY <1>1, <1>6 DEF Mint
  <2>3. page \in {"pair", "paired"}
    OBVIOUS
  <2> HIDE DEF page
  <2>4. \A u \in Tab : /\ older[u] \in TabType
                       /\ older[u].page = tab[u].page /\ older[u].timer = tab[u].timer
                       /\ older[u].image = tab[u].image /\ older[u].token = Older(tab[u].token)
                       /\ older[u].coming.page = tab[u].coming.page
                       /\ older[u].coming.token = Older(tab[u].coming.token)
    BY <1>4, <1>5 DEF TabType, Coming
  <2>5. DOMAIN older = Tab
    OBVIOUS
  <2>6. older \in [Tab -> TabType]
    BY <2>4
  <2> HIDE DEF older
  <2>7. /\ \A u \in Tab \ {t} : tab'[u] = older[u]
        /\ tab'[t] = [older[t] EXCEPT !.coming = [page |-> page, token |-> "last"]]
    BY <2>2, <2>6
  <2>8. /\ tab'[t] \in TabType
        /\ tab'[t].page = older[t].page /\ tab'[t].timer = older[t].timer
        /\ tab'[t].image = older[t].image /\ tab'[t].token = older[t].token
        /\ tab'[t].coming.page = page /\ tab'[t].coming.token = "last"
    BY <2>3, <2>4, <2>7 DEF TabType, Coming, Token
  <2>9. tab' \in [Tab -> TabType]
    BY <2>2, <2>6, <2>7, <2>8
  <2>10. \A u \in Tab : /\ tab'[u].page = tab[u].page /\ tab'[u].timer = tab[u].timer
                        /\ tab'[u].image = tab[u].image /\ tab'[u].token = Older(tab[u].token)
    <3> SUFFICES ASSUME NEW u \in Tab
                 PROVE  /\ tab'[u].page = older[u].page /\ tab'[u].timer = older[u].timer
                        /\ tab'[u].image = older[u].image /\ tab'[u].token = older[u].token
      BY <2>4
    <3>1. CASE u = t
      BY <2>8, <3>1
    <3>2. CASE u # t
      BY <2>7, <3>2
    <3> QED
      BY <3>1, <3>2
  <2>11. \A u \in Tab \ {t} : /\ tab'[u].coming.page = tab[u].coming.page
                              /\ tab'[u].coming.token = Older(tab[u].coming.token)
    BY <2>4, <2>7
  <2>12. \A s \in Slot : /\ post'[s] \in PostType
                         /\ post'[s].at = posts[s].at /\ post'[s].from = posts[s].from
                         /\ post'[s].token = Older(posts[s].token)
    BY <1>5, <2>2 DEF PostType
  <2>13. post' \in [Slot -> PostType]
    BY <2>2, <2>12
  <2> QED
    BY <2>1, <2>2, <2>3, <2>8, <2>9, <2>10, <2>11, <2>12, <2>13 DEF Served
<1>7. CASE ~ok
  <2>1. /\ level' = level
        /\ tab' = [tab EXCEPT ![t] = [Blank EXCEPT !.page = "limited"]]
        /\ post' = posts /\ UNCHANGED <<csrf, uses>>
    BY <1>1, <1>7 DEF Admit, Types
  <2>2. [Blank EXCEPT !.page = "limited"] \in TabType
    BY PairPageAssumption DEF Blank, Nothing, TabType, Shown, Coming, Token
  <2>3. level["page"] < Cost["page"]
    BY <1>2, <1>3, <1>7, PairPageAssumption DEF Types
  <2> QED
    BY <2>1, <2>2, <2>3 DEF Turned, Types
<1> QED
  BY <1>6, <1>7

\* An answer replaces the page whose form it answers, and only that one.
LEMMA AnsweredEffect ==
    ASSUME Types, NEW s \in Slot, Answered(s)
    PROVE  /\ tab' \in [Tab -> TabType]
           /\ \A t \in Tab : /\ tab'[t].token = tab[t].token /\ tab'[t].coming = tab[t].coming
                             /\ tab'[t].image \in {"no", tab[t].image}
           /\ \A t \in Tab : \/ tab'[t] = tab[t]
                             \/ /\ t \in post[s].from /\ tab[t].page \in {"pair", "paired"}
                                /\ tab'[t].page \in {"codeAnswer", "resetAnswer"}
           /\ \A t \in post[s].from : tab'[t].page \notin {"pair", "paired"}
<1> DEFINE answer(t) == [tab[t] EXCEPT !.page = AnswerPage(@), !.timer = Period, !.image = "no"]
           hit(t) == t \in post[s].from /\ tab[t].page \in {"pair", "paired"}
<1>1. \A t \in Tab : tab[t] \in TabType
  BY DEF Types
<1>2. \A t \in Tab : /\ answer(t) \in TabType
                     /\ answer(t).token = tab[t].token /\ answer(t).coming = tab[t].coming
                     /\ answer(t).image = "no"
                     /\ answer(t).page \in {"codeAnswer", "resetAnswer"}
  <2> SUFFICES ASSUME NEW t \in Tab
               PROVE  /\ answer(t) \in TabType
                      /\ answer(t).token = tab[t].token /\ answer(t).coming = tab[t].coming
                      /\ answer(t).image = "no"
                      /\ answer(t).page \in {"codeAnswer", "resetAnswer"}
    OBVIOUS
  <2>1. PICK page \in {"codeAnswer", "resetAnswer"} : page = AnswerPage(tab[t].page)
    BY DEF AnswerPage
  <2>2. answer(t) = [tab[t] EXCEPT !.page = page, !.timer = Period, !.image = "no"]
    BY <2>1, <1>1 DEF TabType
  <2>3. Period \in 0..Period /\ page \in Shown /\ tab[t] \in TabType
    BY <1>1, PairPageAssumption DEF Shown
  <2> HIDE DEF answer
  <2> QED
    BY <2>1, <2>2, <2>3 DEF TabType
<1>3. tab' = [t \in Tab |-> IF hit(t) THEN answer(t) ELSE tab[t]]
  BY DEF Answered
<1> HIDE DEF answer
<1>4. post[s].from \subseteq Tab
  BY DEF Types, PostType
<1> QED
  BY <1>1, <1>2, <1>3, <1>4

\* What the handlers of a form, past its submission, have in common: a form
\* that is done has shown its answer, except where it leads back to the page.
Handled(s) ==
    /\ post[s].at # "free"
    /\ post' \in [Slot -> PostType]
    /\ \A r \in Slot \ {s} : post'[r] = post[r]
    /\ \/ post'[s] = Free
       \/ post'[s].at # "free" /\ post'[s].from = post[s].from /\ post'[s].token = post[s].token
    /\ tab' = tab \/ Answered(s)
    /\ post'[s] = Free \/ post'[s].at = "refused" => Answered(s) \/ post[s].at = "refused"
    /\ level'["page"] = level["page"] /\ level'["image"] = level["image"]
    /\ opens' = opens

FormSteps(s) ==
    \/ AdmitForm(s) \/ CheckPaired(s) \/ CheckToken(s)
    \/ Forget(s) \/ Logout(s) \/ PairPhone(s)

LEMMA FormEffect ==
    ASSUME Types, NEW s \in Slot, FormSteps(s)
    PROVE  Handled(s)
<1> DEFINE Goes(at) == [post EXCEPT ![s].at = at]
           Ats == {"reset", "code", "checkReset", "checkPaired", "checkCode", "logout",
                   "ask", "redirect", "refused"}
<1>1. post[s] \in PostType /\ DOMAIN post = Slot
  BY DEF Types
<1>2. \A at \in Ats : /\ Goes(at) \in [Slot -> PostType]
                      /\ \A r \in Slot \ {s} : Goes(at)[r] = post[r]
                      /\ Goes(at)[s].at = at
                      /\ Goes(at)[s].from = post[s].from /\ Goes(at)[s].token = post[s].token
                      /\ Goes(at)[s] # Free
  BY DEF Types, PostType, Free
<1>3. /\ [post EXCEPT ![s] = Free] \in [Slot -> PostType]
      /\ \A r \in Slot \ {s} : [post EXCEPT ![s] = Free][r] = post[r]
      /\ [post EXCEPT ![s] = Free][s] = Free
  BY DEF Types, PostType, Free, Token
<1>4. CASE AdmitForm(s)
  <2>1. PICK ok \in BOOLEAN :
          /\ Admit(post[s].at, ok)
          /\ IF ok THEN /\ post' = [post EXCEPT ![s].at = IF @ = "reset" THEN "checkReset" ELSE "checkPaired"]
                        /\ UNCHANGED tab
                   ELSE post' = [post EXCEPT ![s] = Free] /\ Answered(s)
    BY <1>4 DEF AdmitForm
  <2>2. post[s].at \in {"reset", "code"} /\ opens' = opens
    BY <1>4 DEF AdmitForm
  <2>3. level'["page"] = level["page"] /\ level'["image"] = level["image"]
    BY <2>1, <2>2, AdmitEffect DEF Bucket
  <2>4. CASE ok
    <3>1. PICK at \in {"checkReset", "checkPaired"} : post' = Goes(at)
      BY <2>1, <2>4
    <3> HIDE DEF Goes
    <3> QED
      BY <1>2, <2>1, <2>2, <2>3, <2>4, <3>1 DEF Handled
  <2>5. CASE ~ok
    BY <1>3, <2>1, <2>2, <2>3, <2>5 DEF Handled
  <2> QED
    BY <2>4, <2>5
<1>5. CASE CheckPaired(s)
  <2>1. PICK at \in {"redirect", "checkCode"} : post' = Goes(at)
    BY <1>5 DEF CheckPaired
  <2>2. tab' = tab /\ level' = level /\ opens' = opens /\ post[s].at = "checkPaired"
    BY <1>5 DEF CheckPaired
  <2> HIDE DEF Goes
  <2> QED
    BY <1>2, <2>1, <2>2 DEF Handled
<1>6. CASE CheckToken(s)
  <2>1. \/ \E at \in {"logout", "ask"} : post' = Goes(at) /\ tab' = tab
        \/ post' = Goes("refused") /\ Answered(s)
    BY <1>6 DEF CheckToken
  <2>2. level' = level /\ opens' = opens /\ post[s].at \in {"checkReset", "checkCode"}
    BY <1>6 DEF CheckToken
  <2> HIDE DEF Goes
  <2>3. CASE post' = Goes("refused") /\ Answered(s)
    BY <1>2, <2>2, <2>3 DEF Handled
  <2>4. ASSUME NEW at \in {"logout", "ask"}, post' = Goes(at), tab' = tab
        PROVE  Handled(s)
    BY <1>2, <2>2, <2>4 DEF Handled
  <2> QED
    BY <2>1, <2>3, <2>4
<1>7. CASE Forget(s)
  BY <1>3, <1>7 DEF Forget, Handled
<1>8. CASE Logout(s)
  <2>1. \/ post' = Goes("redirect") /\ tab' = tab
        \/ post' = [post EXCEPT ![s] = Free] /\ Answered(s)
    BY <1>8 DEF Logout
  <2>2. level' = level /\ opens' = opens /\ post[s].at = "logout"
    BY <1>8 DEF Logout
  <2> HIDE DEF Goes
  <2> QED
    BY <1>2, <1>3, <2>1, <2>2 DEF Handled
<1>9. CASE PairPhone(s)
  BY <1>3, <1>9 DEF PairPhone, Handled
<1> QED
  BY <1>4, <1>5, <1>6, <1>7, <1>8, <1>9 DEF FormSteps

\* The page that arrives.
LEMMA ShowEffect ==
    ASSUME Types, Carried, NEW t \in Tab, Show(t)
    PROVE  /\ tab' \in [Tab -> TabType]
           /\ \A u \in Tab \ {t} : tab'[u] = tab[u]
           /\ tab'[t].page = tab[t].coming.page /\ tab'[t].page \in {"pair", "paired"}
           /\ tab'[t].token = tab[t].coming.token /\ tab'[t].token # "none"
           /\ tab'[t].timer = Period /\ tab'[t].coming = Nothing
           /\ tab'[t].image = IF tab[t].coming.page = "pair" THEN "asked" ELSE "no"
           /\ UNCHANGED <<level, wait, csrf, paired, forms, opens>>
<1>1. /\ tab[t] \in TabType /\ tab[t].coming \in Coming
      /\ tab[t].coming # Nothing
  BY DEF Types, TabType, Show
<1>2. tab[t].coming.page # "none" /\ tab[t].coming.token # "none"
  BY <1>1 DEF Carried, Coming, Nothing
<1>3. tab' = [tab EXCEPT ![t] = [page |-> tab[t].coming.page, token |-> tab[t].coming.token,
            timer |-> Period, coming |-> Nothing,
            image |-> IF tab[t].coming.page = "pair" THEN "asked" ELSE "no"]]
  BY DEF Show
<1>4. Nothing \in Coming /\ Period \in 0..Period
  BY PairPageAssumption DEF Nothing, Coming, Token
<1>5. tab'[t] \in TabType
  BY <1>1, <1>2, <1>3, <1>4 DEF Types, TabType, Coming, Shown
<1> QED
  BY <1>1, <1>2, <1>3, <1>5 DEF Types, Coming, Show

\* The image answers its request.
LEMMA PairQREffect ==
    ASSUME Types, NEW t \in Tab, PairQR(t)
    PROVE  \E ok \in BOOLEAN :
              /\ Admit("image", ok)
              /\ tab' \in [Tab -> TabType]
              /\ \A u \in Tab : /\ tab'[u].page = tab[u].page /\ tab'[u].timer = tab[u].timer
                                /\ tab'[u].token = tab[u].token /\ tab'[u].coming = tab[u].coming
              /\ \A u \in Tab \ {t} : tab'[u] = tab[u]
              /\ tab'[t].image = IF ok THEN "no" ELSE "limited"
<1>1. PICK ok \in BOOLEAN :
          /\ Admit("image", ok)
          /\ tab' = [tab EXCEPT ![t].image = IF ok THEN "no" ELSE "limited"]
  BY DEF PairQR
<1>2. tab[t] \in TabType
  BY DEF Types
<1>3. /\ tab'[t] \in TabType
      /\ tab'[t].page = tab[t].page /\ tab'[t].timer = tab[t].timer
      /\ tab'[t].token = tab[t].token /\ tab'[t].coming = tab[t].coming
      /\ tab'[t].image = IF ok THEN "no" ELSE "limited"
  BY <1>1, <1>2 DEF Types, TabType
<1>4. /\ tab' \in [Tab -> TabType]
      /\ \A u \in Tab \ {t} : tab'[u] = tab[u]
  BY <1>1, <1>3 DEF Types
<1>5. \A u \in Tab : /\ tab'[u].page = tab[u].page /\ tab'[u].timer = tab[u].timer
                     /\ tab'[u].token = tab[u].token /\ tab'[u].coming = tab[u].coming
  BY <1>3, <1>4
<1> QED
  BY <1>1, <1>3, <1>4, <1>5

\* A submitted form carries the token of its page and abandons what is coming.
LEMMA SubmitEffect ==
    ASSUME Types, NEW t \in Tab, NEW s \in Slot, Submit(t, s)
    PROVE  /\ tab[t].page \notin {"blank", "limited"} /\ post[s].at = "free"
           /\ post' \in [Slot -> PostType]
           /\ \A r \in Slot \ {s} : post'[r] = post[r]
           /\ post'[s].at \in {"code", "reset"} /\ post'[s].from = {t} /\ post'[s].token = tab[t].token
           /\ tab' \in [Tab -> TabType]
           /\ \A u \in Tab \ {t} : tab'[u] = tab[u]
           /\ tab'[t].page = tab[t].page /\ tab'[t].timer = tab[t].timer
           /\ tab'[t].token = tab[t].token
           /\ tab'[t].coming = Nothing /\ tab'[t].image = "no"
           /\ UNCHANGED <<level, wait, csrf, paired, uses, opens>>
<1>1. tab[t] \in TabType
  BY DEF Types
<1>2. tab' = [tab EXCEPT ![t] = [tab[t] EXCEPT !.coming = Nothing, !.image = "no"]]
  BY DEF Submit, Types
<1>3. [tab[t] EXCEPT !.coming = Nothing, !.image = "no"] \in TabType
  BY <1>1 DEF TabType, Nothing, Coming, Token
<1>4. /\ tab' \in [Tab -> TabType]
      /\ \A u \in Tab \ {t} : tab'[u] = tab[u]
      /\ tab'[t].page = tab[t].page /\ tab'[t].timer = tab[t].timer
      /\ tab'[t].token = tab[t].token
      /\ tab'[t].coming = Nothing /\ tab'[t].image = "no"
  BY <1>1, <1>2, <1>3 DEF Types, TabType
<1>5. PICK at \in {"code", "reset"} :
        post' = [post EXCEPT ![s] = [at |-> at, from |-> {t}, token |-> tab[t].token]]
  BY DEF Submit
<1>6. [at |-> at, from |-> {t}, token |-> tab[t].token] \in PostType
  BY <1>1 DEF PostType, TabType
<1>7. /\ post' \in [Slot -> PostType]
      /\ \A r \in Slot \ {s} : post'[r] = post[r]
      /\ post'[s] = [at |-> at, from |-> {t}, token |-> tab[t].token]
  BY <1>5, <1>6 DEF Types
<1> QED
  BY <1>4, <1>5, <1>7 DEF Submit

\* A second.
LEMMA TickEffect ==
    ASSUME Types, Tick
    PROVE  /\ tab' \in [Tab -> TabType]
           /\ \A t \in Tab : /\ tab'[t].page = tab[t].page /\ tab'[t].token = tab[t].token
                             /\ tab'[t].coming = tab[t].coming /\ tab'[t].image = tab[t].image
                             /\ tab'[t].timer = IF tab[t].page = "pair" THEN tab[t].timer - 1 ELSE tab[t].timer
                             /\ tab[t].coming = Nothing /\ tab[t].image # "asked"
           /\ level' \in [Bucket -> Nat]
           /\ \A b \in Bucket : /\ level'[b] <= Full(b) /\ level[b] <= level'[b]
                                /\ level'[b] = level[b] + 1 \/ level'[b] = Full(b)
           /\ wait' \in [Bucket -> SUBSET Nat]
           /\ \A b \in Bucket : \A n \in wait'[b] : \E k \in wait[b] : n = IF k = 0 THEN 0 ELSE k - 1
           /\ \A s \in Slot : post[s].at = "free"
           /\ UNCHANGED <<csrf, paired, forms, opens>>
<1>1. \A t \in Tab : /\ tab[t] \in TabType /\ tab[t].timer \in 0..Period /\ Period \in Nat
                     /\ tab[t].page = "pair" => tab[t].timer > 0
                     /\ tab[t].coming = Nothing /\ tab[t].image # "asked"
  BY PairPageAssumption DEF Types, TabType, Tick
<1>2. \A t \in Tab : /\ tab[t].page = "pair" => [tab[t] EXCEPT !.timer = @ - 1] \in TabType
                     /\ [tab[t] EXCEPT !.timer = @ - 1].page = tab[t].page
                     /\ [tab[t] EXCEPT !.timer = @ - 1].token = tab[t].token
                     /\ [tab[t] EXCEPT !.timer = @ - 1].coming = tab[t].coming
                     /\ [tab[t] EXCEPT !.timer = @ - 1].image = tab[t].image
                     /\ [tab[t] EXCEPT !.timer = @ - 1].timer = tab[t].timer - 1
  BY <1>1 DEF TabType
<1>3. tab' = [t \in Tab |-> IF tab[t].page = "pair" THEN [tab[t] EXCEPT !.timer = @ - 1] ELSE tab[t]]
  BY DEF Tick
<1>4. tab' \in [Tab -> TabType]
  BY <1>1, <1>2, <1>3
<1>5. \A t \in Tab : /\ tab'[t].page = tab[t].page /\ tab'[t].token = tab[t].token
                     /\ tab'[t].coming = tab[t].coming /\ tab'[t].image = tab[t].image
                     /\ tab'[t].timer = IF tab[t].page = "pair" THEN tab[t].timer - 1 ELSE tab[t].timer
  BY <1>2, <1>3
<1>6. \A b \in Bucket : level[b] \in Nat /\ Full(b) \in Nat /\ level[b] <= Full(b)
  BY PairPageAssumption DEF Types, Full
<1>7. level' = [b \in Bucket |-> IF level[b] < Full(b) THEN level[b] + 1 ELSE level[b]]
  BY DEF Tick, Refill, Full
<1>8. /\ level' \in [Bucket -> Nat]
      /\ \A b \in Bucket : /\ level'[b] <= Full(b) /\ level[b] <= level'[b]
                           /\ level'[b] = level[b] + 1 \/ level'[b] = Full(b)
  BY <1>6, <1>7
<1>9. wait' = [b \in Bucket |-> {IF n = 0 THEN 0 ELSE n - 1 : n \in wait[b]}]
  BY DEF Tick
<1>10. \A b \in Bucket : {IF n = 0 THEN 0 ELSE n - 1 : n \in wait[b]} \in SUBSET Nat
  BY DEF Types
<1>11. /\ wait' \in [Bucket -> SUBSET Nat]
       /\ \A b \in Bucket : \A n \in wait'[b] : \E k \in wait[b] : n = IF k = 0 THEN 0 ELSE k - 1
  BY <1>9, <1>10
<1> QED
  BY <1>1, <1>4, <1>5, <1>8, <1>11 DEF Tick

-------------------------------------------------------------------------------
(* The tokens.                                                             *)

FormsInv == Types /\ Carried /\ TokenOK

\* The steps of Next, with the handlers of a form told apart from its redirect.
LEMMA Steps ==
    ASSUME [Next]_vars
    PROVE  \/ \E t \in Tab : Open(t) \/ Refresh(t) \/ Show(t) \/ PairQR(t)
           \/ \E t \in Tab, s \in Slot : Submit(t, s)
           \/ \E s \in Slot : FormSteps(s) \/ Redirect(s)
           \/ PairingChanges \/ Tick \/ UNCHANGED vars
BY DEF Next, FormSteps

\* Where a page is asked for: by hand, by its refresh, by a form's redirect.
Asked(t, posts) ==
    /\ PairPage(t, posts) /\ UNCHANGED paired
    /\ \/ /\ Open(t) /\ tab[t].coming = Nothing /\ ~Submitting(t)
          /\ posts = post /\ opens' = opens + 1
       \/ /\ Refresh(t) /\ posts = post /\ opens' = opens
          /\ tab[t].page = "pair" /\ tab[t].timer = 0 /\ tab[t].coming = Nothing
          /\ ~Submitting(t)
       \/ \E s \in Slot : /\ Redirect(s) /\ t \in post[s].from /\ post[s].at = "redirect"
                          /\ posts = [post EXCEPT ![s] = Free] /\ opens' = opens + 1

LEMMA AskedSteps ==
    ASSUME Types
    PROVE  /\ \A t \in Tab : Open(t) \/ Refresh(t) => Asked(t, post)
           /\ \A s \in Slot : Redirect(s) =>
                \E t \in Tab : Asked(t, [post EXCEPT ![s] = Free])
<1>1. ASSUME NEW t \in Tab, Open(t)
      PROVE  Asked(t, post)
  BY <1>1 DEF Open, Asked
<1>2. ASSUME NEW t \in Tab, Refresh(t)
      PROVE  Asked(t, post)
  BY <1>2 DEF Refresh, Asked
<1>3. ASSUME NEW s \in Slot, Redirect(s)
      PROVE  \E t \in Tab : Asked(t, [post EXCEPT ![s] = Free])
  <2>1. PICK t \in post[s].from : PairPage(t, [post EXCEPT ![s] = Free])
    BY <1>3 DEF Redirect
  <2>2. post[s].from \subseteq Tab
    BY DEF Types, PostType
  <2>3. Asked(t, [post EXCEPT ![s] = Free])
    BY <1>3, <2>1 DEF Redirect, Asked
  <2> QED
    BY <2>1, <2>2, <2>3
<1> QED
  BY <1>1, <1>2, <1>3

\* The forms that stay under way when a page is asked for.
LEMMA AskedPosts ==
    ASSUME Types, NEW t \in Tab, NEW posts, Asked(t, posts)
    PROVE  /\ posts \in [Slot -> PostType]
           /\ \A s \in Slot : posts[s] = post[s] \/ posts[s] = Free
           /\ Served(t, posts) \/ Turned(t, posts)
<1>1. CASE posts = post
  BY <1>1, PairPageEffect DEF Types, Asked
<1>2. ASSUME NEW s \in Slot, posts = [post EXCEPT ![s] = Free]
      PROVE  /\ posts \in [Slot -> PostType]
             /\ \A r \in Slot : posts[r] = post[r] \/ posts[r] = Free
  BY <1>2 DEF Types, PostType, Free, Token
<1>3. posts \in [Slot -> PostType] /\ \A s \in Slot : posts[s] = post[s] \/ posts[s] = Free
  BY <1>1, <1>2 DEF Asked
<1> QED
  BY <1>3, PairPageEffect DEF Asked

LEMMA FormsInvInitially == Init => FormsInv
<1> SUFFICES ASSUME Init
             PROVE  FormsInv
  OBVIOUS
<1>1. \A b \in Bucket : Cost[b] \in Nat /\ Burst[b] \in Nat /\ Full(b) \in Nat /\ level[b] = Full(b)
  BY PairPageAssumption DEF Init, Full
<1>2. Nothing \in Coming /\ Blank \in TabType /\ Free \in PostType
  BY PairPageAssumption DEF Nothing, Coming, Token, Blank, TabType, Shown, Free, PostType
<1>3. Types
  <2>1. level \in [Bucket -> Nat] /\ \A b \in Bucket : level[b] <= Full(b)
    BY <1>1 DEF Init, Full
  <2> QED
    BY <1>2, <2>1 DEF Init, Types
<1>4. Carried
  BY DEF Init, Carried, Blank, Nothing, Free
<1>5. TokenOK
  BY DEF Init, TokenOK, Blank, Nothing, Free
<1> QED
  BY <1>3, <1>4, <1>5 DEF FormsInv

LEMMA TypesStep ==
    ASSUME FormsInv, [Next]_vars
    PROVE  Types'
<1> USE DEF FormsInv
<1>1. ASSUME NEW t \in Tab, NEW posts, Asked(t, posts)
      PROVE  Types'
  <2>1. PICK ok \in BOOLEAN : Admit("page", ok)
    BY <1>1 DEF Asked, PairPage
  <2>2. /\ level' \in [Bucket -> Nat]
        /\ \A c \in Bucket : level'[c] <= Full(c)
        /\ wait' \in [Bucket -> SUBSET Nat]
        /\ \A c \in Bucket : \A n \in wait'[c] : n <= RetryAfter[c]
    BY <2>1, AdmitEffect DEF Bucket
  <2>3. /\ tab' \in [Tab -> TabType] /\ post' \in [Slot -> PostType]
        /\ csrf' \in BOOLEAN
    BY <1>1, AskedPosts DEF Served, Turned, Types
  <2>4. opens' \in Nat /\ paired' \in BOOLEAN
    BY <1>1 DEF Asked, Types
  <2> QED
    BY <2>2, <2>3, <2>4 DEF Types, Full
<1>2. ASSUME NEW t \in Tab, Show(t)
      PROVE  Types'
  BY <1>2, ShowEffect DEF Types, forms, Full
<1>3. ASSUME NEW t \in Tab, PairQR(t)
      PROVE  Types'
  <2>1. PICK ok \in BOOLEAN : Admit("image", ok) /\ tab' \in [Tab -> TabType]
    BY <1>3, PairQREffect
  <2>2. /\ level' \in [Bucket -> Nat]
        /\ \A c \in Bucket : level'[c] <= Full(c)
        /\ wait' \in [Bucket -> SUBSET Nat]
        /\ \A c \in Bucket : \A n \in wait'[c] : n <= RetryAfter[c]
    BY <2>1, AdmitEffect DEF Bucket
  <2> QED
    BY <1>3, <2>1, <2>2 DEF Types, PairQR, forms, Full
<1>4. ASSUME NEW t \in Tab, NEW s \in Slot, Submit(t, s)
      PROVE  Types'
  BY <1>4, SubmitEffect DEF Types, Full
<1>5. ASSUME NEW s \in Slot, FormSteps(s)
      PROVE  Types'
  <2>1. /\ tab' \in [Tab -> TabType] /\ post' \in [Slot -> PostType] /\ opens' \in Nat
    BY <1>5, FormEffect, AnsweredEffect DEF Handled, Types
  <2>2. /\ level' \in [Bucket -> Nat]
        /\ \A c \in Bucket : level'[c] <= Full(c)
        /\ wait' \in [Bucket -> SUBSET Nat]
        /\ \A c \in Bucket : \A n \in wait'[c] : n <= RetryAfter[c]
    <3>1. CASE AdmitForm(s)
      <4>1. PICK ok \in BOOLEAN : Admit(post[s].at, ok)
        BY <3>1 DEF AdmitForm
      <4>2. post[s].at \in Bucket
        BY <3>1 DEF AdmitForm, Bucket
      <4> QED
        BY <4>1, <4>2, AdmitEffect
    <3>2. CASE ~AdmitForm(s)
      BY <1>5, <3>2 DEF FormSteps, CheckPaired, CheckToken, Forget, Logout, PairPhone, Types
    <3> QED
      BY <3>1, <3>2
  <2>3. csrf' \in BOOLEAN /\ paired' \in BOOLEAN
    BY <1>5 DEF FormSteps, AdmitForm, CheckPaired, CheckToken, ValidCSRFToken, Forget, Logout,
       PairPhone, Types
  <2> QED
    BY <2>1, <2>2, <2>3 DEF Types, Full
<1>6. CASE PairingChanges
  BY <1>6 DEF PairingChanges, Types, forms, Full
<1>7. CASE Tick
  <2>1. \A b \in Bucket : \A n \in wait'[b] : n <= RetryAfter[b]
    <3> SUFFICES ASSUME NEW b \in Bucket, NEW n \in wait'[b]
                 PROVE  n <= RetryAfter[b]
      OBVIOUS
    <3>1. PICK k \in wait[b] : n = IF k = 0 THEN 0 ELSE k - 1
      BY <1>7, TickEffect
    <3>2. k \in Nat /\ k <= RetryAfter[b] /\ RetryAfter[b] \in Nat
      BY PairPageAssumption DEF Types
    <3> QED
      BY <3>1, <3>2
  <2>2. /\ tab' \in [Tab -> TabType]
        /\ level' \in [Bucket -> Nat] /\ \A b \in Bucket : level'[b] <= Full(b)
        /\ wait' \in [Bucket -> SUBSET Nat]
        /\ UNCHANGED <<csrf, paired, post, opens>>
    BY <1>7, TickEffect DEF forms
  <2> QED
    BY <2>1, <2>2 DEF Types, Full
<1>8. CASE UNCHANGED vars
  BY <1>8 DEF vars, forms, Types, Full
<1> QED
  BY <1>1, <1>2, <1>3, <1>4, <1>5, <1>6, <1>7, <1>8, Steps, AskedSteps

LEMMA CarriedStep ==
    ASSUME FormsInv, [Next]_vars
    PROVE  Carried'
<1> USE DEF FormsInv
<1>1. ASSUME NEW t \in Tab, NEW posts, Asked(t, posts)
      PROVE  Carried'
  <2>1. \A s \in Slot : posts[s] = post[s] \/ posts[s] = Free
    BY <1>1, AskedPosts
  <2>2. \A s \in Slot : /\ posts[s].at = "free" <=> posts[s].token = "none"
                        /\ posts[s].at = "free" => posts[s].from = {}
                        /\ \A u \in posts[s].from : tab[u].page # "blank"
    BY <2>1 DEF Carried, Free
  <2>3. posts \in [Slot -> PostType]
    BY <1>1, AskedPosts
  <2>4. \A token : Older(token) = "none" <=> token = "none"
    BY DEF Older
  <2>5. CASE Served(t, posts)
    <3>1. \A u \in Tab : tab'[u].page \in {"blank", "limited"} <=> tab'[u].token = "none"
      BY <2>4, <2>5 DEF Served, Carried
    <3>2. \A u \in Tab : tab'[u].coming.page = "none" <=> tab'[u].coming.token = "none"
      <4> SUFFICES ASSUME NEW u \in Tab
                   PROVE  tab'[u].coming.page = "none" <=> tab'[u].coming.token = "none"
        OBVIOUS
      <4>1. CASE u = t
        BY <2>5, <4>1 DEF Served
      <4>2. CASE u # t
        BY <2>4, <2>5, <4>2 DEF Served, Carried
      <4> QED
        BY <4>1, <4>2
    <3>3. ASSUME NEW s \in Slot
          PROVE  /\ post'[s].at = "free" <=> post'[s].token = "none"
                 /\ post'[s].at = "free" => post'[s].from = {}
                 /\ \A u \in post'[s].from : tab'[u].page # "blank"
      <4>1. posts[s].from \subseteq Tab
        BY <2>3 DEF PostType
      <4>2. /\ post'[s].at = posts[s].at /\ post'[s].from = posts[s].from
            /\ post'[s].token = Older(posts[s].token)
            /\ \A u \in Tab : tab'[u].page = tab[u].page
        BY <2>5 DEF Served
      <4> QED
        BY <2>2, <2>4, <4>1, <4>2
    <3> QED
      BY <3>1, <3>2, <3>3 DEF Carried
  <2>6. CASE Turned(t, posts)
    <3>1. \A u \in Tab : \/ tab'[u] = tab[u]
                         \/ tab'[u].page = "limited" /\ tab'[u].token = "none" /\ tab'[u].coming = Nothing
      BY <2>6 DEF Turned, Blank
    <3>2. post' = posts /\ \A s \in Slot : posts[s].from \subseteq Tab
      BY <2>3, <2>6 DEF Turned, PostType
    <3> QED
      BY <2>2, <3>1, <3>2 DEF Carried, Nothing
  <2> QED
    BY <1>1, <2>5, <2>6, AskedPosts
<1>2. ASSUME NEW t \in Tab, Show(t)
      PROVE  Carried'
  <2>1. \A u \in Tab : \/ tab'[u] = tab[u]
                       \/ /\ tab'[u].page \in {"pair", "paired"} /\ tab'[u].token # "none"
                          /\ tab'[u].coming = Nothing
    BY <1>2, ShowEffect
  <2>2. post' = post /\ \A s \in Slot : post[s].from \subseteq Tab
    BY <1>2 DEF Show, forms, Types, PostType
  <2> QED
    BY <2>1, <2>2 DEF Carried, Nothing
<1>3. ASSUME NEW t \in Tab, PairQR(t)
      PROVE  Carried'
  <2>1. \A u \in Tab : /\ tab'[u].page = tab[u].page
                       /\ tab'[u].token = tab[u].token /\ tab'[u].coming = tab[u].coming
    BY <1>3, PairQREffect
  <2>2. post' = post /\ \A s \in Slot : post[s].from \subseteq Tab
    BY <1>3 DEF PairQR, forms, Types, PostType
  <2> QED
    BY <2>1, <2>2 DEF Carried
<1>4. ASSUME NEW t \in Tab, NEW s \in Slot, Submit(t, s)
      PROVE  Carried'
  <2>1. \A u \in Tab : /\ tab'[u].page = tab[u].page /\ tab'[u].token = tab[u].token
                       /\ tab'[u].coming = tab[u].coming \/ tab'[u].coming = Nothing
    BY <1>4, SubmitEffect
  <2>2. \A r \in Slot : \/ post'[r] = post[r]
                        \/ /\ post'[r].at \in {"code", "reset"} /\ post'[r].from = {t}
                           /\ post'[r].token = tab[t].token
    BY <1>4, SubmitEffect
  <2>3. /\ tab[t].page \notin {"blank", "limited"} /\ tab[t].token # "none"
        /\ \A r \in Slot : post[r].from \subseteq Tab
    BY <1>4, SubmitEffect DEF Carried, Types, PostType
  <2> QED
    BY <2>1, <2>2, <2>3 DEF Carried, Nothing
<1>5. ASSUME NEW s \in Slot, FormSteps(s)
      PROVE  Carried'
  <2>1. Handled(s)
    BY <1>5, FormEffect
  <2>2. \A u \in Tab : /\ tab'[u].token = tab[u].token /\ tab'[u].coming = tab[u].coming
                       /\ \/ tab'[u].page = tab[u].page
                          \/ /\ tab[u].page \notin {"blank", "limited"}
                             /\ tab'[u].page \notin {"blank", "limited"}
    BY <2>1, AnsweredEffect DEF Handled
  <2>3. \A r \in Slot : /\ post'[r].at = "free" <=> post'[r].token = "none"
                        /\ post'[r].at = "free" => post'[r].from = {}
                        /\ post'[r].from \in {{}, post[r].from}
    BY <2>1 DEF Handled, Carried, Free
  <2>4. \A r \in Slot : post[r].from \subseteq Tab
    BY DEF Types, PostType
  <2> QED
    BY <2>2, <2>3, <2>4 DEF Carried
<1>6. CASE PairingChanges
  BY <1>6 DEF PairingChanges, forms, Carried
<1>7. CASE Tick
  <2>1. \A r \in Slot : post[r].from \subseteq Tab
    BY DEF Types, PostType
  <2> QED
    BY <1>7, <2>1, TickEffect DEF Carried, forms
<1>8. CASE UNCHANGED vars
  BY <1>8 DEF vars, forms, Carried
<1> QED
  BY <1>1, <1>2, <1>3, <1>4, <1>5, <1>6, <1>7, <1>8, Steps, AskedSteps

LEMMA TokenStep ==
    ASSUME FormsInv, RefusalsHaveACause, [Next]_vars
    PROVE  TokenOK' /\ RefusalsHaveACause'
<1> USE DEF FormsInv
<1>1. ASSUME NEW t \in Tab, NEW posts, Asked(t, posts)
      PROVE  TokenOK' /\ RefusalsHaveACause'
  <2>1. \A s \in Slot : posts[s] = post[s] \/ posts[s] = Free
    BY <1>1, AskedPosts
  <2>2. CASE Served(t, posts)
    <3>1. TokenOK'
      BY <2>2 DEF Served, TokenOK
    <3>2. \A token : Older(token) # "last"
      BY DEF Older
    <3>3. \A s \in Slot : post'[s].token # "last"
      BY <2>2, <3>2 DEF Served
    <3> QED
      BY <3>1, <3>3 DEF RefusalsHaveACause
  <2>3. CASE Turned(t, posts)
    <3>1. \A u \in Tab : \/ tab'[u] = tab[u]
                         \/ tab'[u].token = "none" /\ tab'[u].coming = Nothing
      BY <2>3 DEF Turned, Blank
    <3>2. /\ csrf' = csrf /\ uses' = uses /\ post' = posts
      BY <2>3 DEF Turned
    <3>3. TokenOK'
      BY <2>1, <3>1, <3>2 DEF TokenOK, Nothing, Free
    <3>4. RefusalsHaveACause'
      BY <2>1, <3>2 DEF RefusalsHaveACause, Free
    <3> QED
      BY <3>3, <3>4
  <2> QED
    BY <1>1, <2>2, <2>3, AskedPosts
<1>2. ASSUME NEW t \in Tab, Show(t)
      PROVE  TokenOK' /\ RefusalsHaveACause'
  <2>1. \A u \in Tab : \/ tab'[u] = tab[u]
                       \/ tab'[u].token = tab[u].coming.token /\ tab'[u].coming = Nothing
    BY <1>2, ShowEffect
  <2>2. UNCHANGED <<csrf, uses, post>>
    BY <1>2 DEF Show, forms
  <2> QED
    BY <2>1, <2>2 DEF TokenOK, RefusalsHaveACause, Nothing
<1>3. ASSUME NEW t \in Tab, PairQR(t)
      PROVE  TokenOK' /\ RefusalsHaveACause'
  <2>1. \A u \in Tab : tab'[u].token = tab[u].token /\ tab'[u].coming = tab[u].coming
    BY <1>3, PairQREffect
  <2>2. UNCHANGED <<csrf, uses, post>>
    BY <1>3 DEF PairQR, forms
  <2> QED
    BY <2>1, <2>2 DEF TokenOK, RefusalsHaveACause
<1>4. ASSUME NEW t \in Tab, NEW s \in Slot, Submit(t, s)
      PROVE  TokenOK' /\ RefusalsHaveACause'
  <2>1. \A u \in Tab : /\ tab'[u].token = tab[u].token
                       /\ tab'[u].coming = tab[u].coming \/ tab'[u].coming = Nothing
    BY <1>4, SubmitEffect
  <2>2. \A r \in Slot : \/ post'[r] = post[r]
                        \/ post'[r].at \in {"code", "reset"} /\ post'[r].token = tab[t].token
    BY <1>4, SubmitEffect
  <2>3. UNCHANGED <<csrf, uses>>
    BY <1>4, SubmitEffect
  <2> QED
    BY <2>1, <2>2, <2>3 DEF TokenOK, RefusalsHaveACause, Nothing
<1>5. ASSUME NEW s \in Slot, FormSteps(s)
      PROVE  TokenOK' /\ RefusalsHaveACause'
  <2>1. Handled(s)
    BY <1>5, FormEffect
  <2>2. \A u \in Tab : tab'[u].token = tab[u].token /\ tab'[u].coming = tab[u].coming
    BY <2>1, AnsweredEffect DEF Handled
  <2>3. \A r \in Slot : post'[r].token \in {post[r].token, "none"}
    BY <2>1 DEF Handled, Free
  <2>4. CASE CheckToken(s)
    <3>1. PICK ok \in BOOLEAN :
            /\ ValidCSRFToken(s, ok)
            /\ IF ok THEN /\ post' = [post EXCEPT ![s].at = IF @ = "checkReset" THEN "logout" ELSE "ask"]
                          /\ uses' = uses + 1
                     ELSE /\ post' = [post EXCEPT ![s].at = "refused"] /\ uses' = uses
      BY <2>4 DEF CheckToken
    <3>2. CASE ok
      <4>1. csrf /\ csrf' = FALSE
        BY <3>1, <3>2, Zenon DEF ValidCSRFToken
      <4>2. uses = 0 /\ uses' = 1
        BY <3>1, <3>2, <4>1 DEF TokenOK
      <4> QED
        BY <4>1, <4>2 DEF TokenOK, RefusalsHaveACause
    <3>3. CASE ~ok
      <4>1. uses' = uses /\ (csrf' <=> csrf) /\ ~(csrf /\ post[s].token = "last")
        BY <3>1, <3>3 DEF ValidCSRFToken
      <4>2. TokenOK'
        BY <2>2, <2>3, <4>1 DEF TokenOK
      <4>3. post[s].token = "last" => uses > 0
        BY <4>1 DEF TokenOK
      <4>4. \A r \in Slot \ {s} : post'[r] = post[r]
        BY <2>1 DEF Handled
      <4> QED
        BY <2>3, <4>1, <4>2, <4>3, <4>4 DEF RefusalsHaveACause
    <3> QED
      BY <3>2, <3>3
  <2>5. CASE ~CheckToken(s)
    <3>1. csrf' = csrf /\ uses' = uses
      BY <1>5, <2>5 DEF FormSteps, AdmitForm, CheckPaired, Forget, Logout, PairPhone
    <3>2. post'[s].at # "refused"
      <4>1. post \in [Slot -> PostType]
        BY DEF Types
      <4> QED
        BY <1>5, <2>5, <4>1 DEF FormSteps, AdmitForm, CheckPaired, Forget, Logout, PairPhone, Free, PostType
    <3>3. TokenOK'
      BY <2>2, <2>3, <3>1 DEF TokenOK
    <3>4. \A r \in Slot \ {s} : post'[r] = post[r]
      BY <2>1 DEF Handled
    <3> QED
      BY <3>1, <3>2, <3>3, <3>4 DEF RefusalsHaveACause
  <2> QED
    BY <2>4, <2>5
<1>6. CASE PairingChanges
  BY <1>6 DEF PairingChanges, forms, TokenOK, RefusalsHaveACause
<1>7. CASE Tick
  BY <1>7, TickEffect DEF forms, TokenOK, RefusalsHaveACause
<1>8. CASE UNCHANGED vars
  BY <1>8 DEF vars, forms, TokenOK, RefusalsHaveACause
<1> QED
  BY <1>1, <1>2, <1>3, <1>4, <1>5, <1>6, <1>7, <1>8, Steps, AskedSteps

\* FormsInv and the cause of refusals hold together in every state.
LEMMA FormsAlways == Spec => [](FormsInv /\ RefusalsHaveACause)
<1>1. Init => FormsInv /\ RefusalsHaveACause
  BY FormsInvInitially DEF Init, RefusalsHaveACause, Free
<1>2. FormsInv /\ RefusalsHaveACause /\ [Next]_vars => (FormsInv /\ RefusalsHaveACause)'
  BY TypesStep, CarriedStep, TokenStep DEF FormsInv
<1> QED
  BY <1>1, <1>2, PTL DEF Spec

\* Every state is of its type: the buckets never overflow, a token is accepted
\* no more often than there are forms, and a page that was refused has none.
THEOREM PageTypeCorrect == Spec => []TypeOK
<1>1. FormsInv => TypeOK
  <2> SUFFICES ASSUME FormsInv
               PROVE  TypeOK
    OBVIOUS
  <2>1. \A b \in Bucket : /\ level[b] \in Nat /\ Cost[b] * Burst[b] \in Nat /\ level[b] <= Cost[b] * Burst[b]
                          /\ RetryAfter[b] \in Nat
                          /\ \A n \in wait[b] : n \in Nat /\ n <= RetryAfter[b]
    BY PairPageAssumption DEF FormsInv, Types, Full
  <2>2. \A b \in Bucket : level[b] \in 0..(Cost[b] * Burst[b]) /\ wait[b] \subseteq 0..RetryAfter[b]
    BY <2>1
  <2>3. uses \in 0..Cardinality(Slot)
    <3>1. Cardinality(Slot) \in Nat /\ (Cardinality(Slot) = 0 <=> Slot = {})
      BY PairPageAssumption, FS_CardinalityType, FS_EmptySet
    <3> QED
      BY <3>1 DEF FormsInv, TokenOK
  <2>4. \A t \in Tab : tab[t].timer \in 0..Period
    BY DEF FormsInv, Types, TabType
  <2> QED
    BY <2>2, <2>3, <2>4 DEF FormsInv, Types, Carried, TypeOK
<1> QED
  BY <1>1, FormsAlways, PTL

\* A form that was served works once, whatever other tabs load, submit or
\* reload meanwhile, and is refused only for a later page or its own repetition.
THEOREM FormsAlwaysHonest == Spec => []FormsAreHonest
<1>1. FormsInv /\ RefusalsHaveACause => FormsAreHonest
  BY DEF FormsInv, TokenOK, FormsAreHonest, FormsWorkOnce
<1> QED
  BY <1>1, FormsAlways, PTL

-------------------------------------------------------------------------------
(* The limits: what RatesAssumption is for.                                *)

LimitsInv == FormsInv /\ WaitOK /\ ImageOK /\ FormsWait /\ AliveOK

LEMMA Times ==
    ASSUME NEW c \in Nat, NEW m \in Nat, NEW n \in Nat
    PROVE  /\ c * m \in Nat
           /\ m <= n => c * m <= c * n
           /\ c * (m + 1) = c * m + c
           /\ m > 0 => c <= c * m
OBVIOUS

\* A full bucket has a token.
LEMMA FullHasToken == \A b \in Bucket : Cost[b] <= Full(b) /\ Cost[b] \in Nat /\ Full(b) \in Nat
<1> SUFFICES ASSUME NEW b \in Bucket
             PROVE  Cost[b] <= Full(b) /\ Cost[b] \in Nat /\ Full(b) \in Nat
  OBVIOUS
<1>1. Cost[b] \in Nat /\ Burst[b] \in Nat /\ Burst[b] > 0
  BY PairPageAssumption
<1> QED
  BY <1>1, Times DEF Full

\* Only requests and seconds change the buckets.
LEMMA LevelSteps ==
    ASSUME Types, [Next]_vars
    PROVE  \/ \E b \in Bucket, ok \in BOOLEAN : Admit(b, ok)
           \/ Tick
           \/ UNCHANGED <<level, wait>>
<1>1. ASSUME NEW t \in Tab, NEW posts, Asked(t, posts)
      PROVE  \E b \in Bucket, ok \in BOOLEAN : Admit(b, ok)
  BY <1>1 DEF Asked, PairPage, Bucket
<1>2. ASSUME NEW t \in Tab, PairQR(t)
      PROVE  \E b \in Bucket, ok \in BOOLEAN : Admit(b, ok)
  BY <1>2 DEF PairQR, Bucket
<1>3. ASSUME NEW s \in Slot, FormSteps(s)
      PROVE  \/ \E b \in Bucket, ok \in BOOLEAN : Admit(b, ok)
             \/ UNCHANGED <<level, wait>>
  <2>1. CASE AdmitForm(s)
    BY <2>1 DEF AdmitForm, Bucket
  <2> QED
    BY <1>3, <2>1 DEF FormSteps, CheckPaired, CheckToken, Forget, Logout, PairPhone
<1> QED
  BY <1>1, <1>2, <1>3, Steps, AskedSteps DEF Show, Submit, PairingChanges, vars

LEMMA WaitStep ==
    ASSUME Types, WaitOK, [Next]_vars
    PROVE  WaitOK'
<1>1. ASSUME NEW b \in Bucket, NEW ok \in BOOLEAN, Admit(b, ok)
      PROVE  WaitOK'
  <2> SUFFICES ASSUME NEW c \in Bucket, NEW n \in wait'[c]
               PROVE  Cost[c] <= level'[c] + n
    BY DEF WaitOK
  <2>1. /\ Cost[c] \in Nat /\ level'[c] \in Nat
        /\ \/ c # b /\ n \in wait[c]
           \/ c = b /\ n = RetryAfter[b]
    BY <1>1, AdmitEffect, PairPageAssumption
  <2>2. CASE c # b /\ n \in wait[c]
    BY <1>1, <2>2, AdmitEffect DEF WaitOK
  <2>3. CASE c = b /\ n = RetryAfter[b]
    BY <2>1, <2>3, RatesAssumption, PairPageAssumption
  <2> QED
    BY <2>1, <2>2, <2>3
<1>2. CASE Tick
  <2> SUFFICES ASSUME NEW b \in Bucket, NEW n \in wait'[b]
               PROVE  Cost[b] <= level'[b] + n
    BY DEF WaitOK
  <2>1. PICK k \in wait[b] : n = IF k = 0 THEN 0 ELSE k - 1
    BY <1>2, TickEffect
  <2>2. /\ k \in Nat /\ level[b] \in Nat /\ level'[b] \in Nat /\ Cost[b] \in Nat
        /\ Cost[b] <= level[b] + k /\ level[b] <= level'[b]
        /\ level'[b] = level[b] + 1 \/ level'[b] = Full(b)
    BY <1>2, TickEffect, PairPageAssumption DEF Types, WaitOK
  <2> QED
    BY <2>1, <2>2, FullHasToken
<1>3. CASE UNCHANGED <<level, wait>>
  BY <1>3 DEF WaitOK
<1> QED
  BY <1>1, <1>2, <1>3, LevelSteps

\* The tabs that have a request for an image coming are finitely many.
LEMMA PendingFinite ==
    /\ IsFiniteSet(Asking) /\ Cardinality(Asking) \in Nat
    /\ IsFiniteSet(Arriving) /\ Cardinality(Arriving) \in Nat
    /\ IsFiniteSet(Asking') /\ Cardinality(Asking') \in Nat
    /\ IsFiniteSet(Arriving') /\ Cardinality(Arriving') \in Nat
BY PairPageAssumption, FS_Subset, FS_CardinalityType DEF Asking, Arriving

\* The inequality of ImageOK survives n pages of the page's bucket that are
\* matched by n images.
LEMMA Shift ==
    ASSUME NEW c \in Nat, NEW p \in Nat, NEW i \in Nat, NEW q \in Nat, NEW j \in Nat,
           NEW m \in Nat, NEW n \in Nat,
           p + c * m <= i,
           \/ q = p /\ j = i /\ n <= m
           \/ p = q + c /\ j = i /\ n <= m + 1
           \/ q = p /\ i <= j + c /\ m = n + 1
    PROVE  q + c * n <= j
<1>1. c * m \in Nat /\ c * n \in Nat
  BY Times
<1>2. CASE q = p /\ j = i /\ n <= m
  BY <1>1, <1>2, Times
<1>3. CASE p = q + c /\ j = i /\ n <= m + 1
  <2>1. c * n <= c * m + c
    BY <1>3, Times
  <2> QED
    BY <1>1, <1>3, <2>1
<1>4. CASE q = p /\ i <= j + c /\ m = n + 1
  <2>1. c * m = c * n + c
    BY <1>4, Times
  <2> QED
    BY <1>1, <1>4, <2>1
<1> QED
  BY <1>2, <1>3, <1>4

LEMMA ImageStep ==
    ASSUME Types, Types', Carried, ImageOK, [Next]_vars
    PROVE  ImageOK'
<1> DEFINE m == Cardinality(Asking) + Cardinality(Arriving)
           n == Cardinality(Asking') + Cardinality(Arriving')
<1>1. m \in Nat /\ n \in Nat
  BY PendingFinite
<1>2. /\ Cost["page"] \in Nat /\ Cost["image"] \in Nat
      /\ level["page"] \in Nat /\ level["image"] \in Nat
      /\ level'["page"] \in Nat /\ level'["image"] \in Nat
      /\ level["page"] + Cost["page"] * m <= level["image"]
  BY PairPageAssumption DEF Types, Bucket, ImageOK
\* Nothing is asked for that was not, at the same levels.
<1>3. ASSUME Asking' \subseteq Asking, Arriving' \subseteq Arriving,
             level'["page"] = level["page"], level'["image"] = level["image"]
      PROVE  level'["page"] + Cost["page"] * n <= level'["image"]
  <2>1. n <= m
    BY <1>3, PendingFinite, FS_Subset
  <2> HIDE DEF m, n
  <2> QED
    BY <1>1, <1>2, <1>3, <2>1, Shift
<1>4. ASSUME NEW t \in Tab, NEW posts, Asked(t, posts)
      PROVE  ImageOK'
  <2>1. CASE Served(t, posts)
    <3>1. \A u \in Tab : tab'[u].image = tab[u].image
      BY <2>1 DEF Served
    <3>2. Asking' = Asking
      BY <3>1 DEF Asking
    <3>3. Arriving' \subseteq Arriving \union {t}
      BY <2>1 DEF Served, Arriving
    <3>4. n <= m + 1
      <4>1. /\ IsFiniteSet(Arriving \union {t})
            /\ \/ Cardinality(Arriving \union {t}) = Cardinality(Arriving)
               \/ Cardinality(Arriving \union {t}) = Cardinality(Arriving) + 1
        BY PendingFinite, FS_AddElement
      <4>2. Cardinality(Arriving') <= Cardinality(Arriving \union {t})
        BY <3>3, <4>1, FS_Subset
      <4>3. Cardinality(Arriving \union {t}) \in Nat
        BY <4>1, FS_CardinalityType
      <4> QED
        BY <3>2, <4>1, <4>2, <4>3, PendingFinite
    <3>5. level["page"] = level'["page"] + Cost["page"] /\ level'["image"] = level["image"]
      BY <1>2, <2>1 DEF Served, Types, Bucket
    <3> HIDE DEF m, n
    <3>6. level'["page"] + Cost["page"] * n <= level'["image"]
      BY <1>1, <1>2, <3>4, <3>5, Shift
    <3> QED
      BY <3>1, <3>6 DEF ImageOK, n
  <2>2. CASE Turned(t, posts)
    <3>1. \A u \in Tab : \/ tab'[u] = tab[u]
                         \/ tab'[u].image = "no" /\ tab'[u].coming = Nothing
      BY <2>2 DEF Turned, Blank
    <3>2. Asking' \subseteq Asking /\ Arriving' \subseteq Arriving /\ level' = level
      BY <2>2, <3>1 DEF Turned, Asking, Arriving, Nothing
    <3> QED
      BY <1>3, <3>1, <3>2 DEF ImageOK
  <2> QED
    BY <1>4, <2>1, <2>2, AskedPosts
<1>5. ASSUME NEW t \in Tab, Show(t)
      PROVE  ImageOK'
  <2>1. /\ \A u \in Tab \ {t} : tab'[u] = tab[u]
        /\ tab'[t].coming.page = "none"
        /\ tab'[t].image = IF tab[t].coming.page = "pair" THEN "asked" ELSE "no"
        /\ level' = level
    BY <1>5, ShowEffect DEF Nothing
  <2>2. \A u \in Tab : tab'[u].image # "limited"
    BY <2>1 DEF ImageOK
  <2>3. CASE tab[t].coming.page = "pair"
    <3>1. t \in Arriving /\ Arriving' = Arriving \ {t} /\ Asking' = Asking \union {t}
      BY <2>1, <2>3 DEF Arriving, Asking
    <3>2. /\ Cardinality(Arriving') = Cardinality(Arriving) - 1
          /\ Cardinality(Asking') <= Cardinality(Asking) + 1
      BY <3>1, PendingFinite, FS_AddElement, FS_RemoveElement
    <3>3. n <= m
      BY <3>2, PendingFinite
    <3> HIDE DEF m, n
    <3>4. level'["page"] + Cost["page"] * n <= level'["image"]
      BY <1>1, <1>2, <2>1, <3>3, Shift
    <3> QED
      BY <2>2, <3>4 DEF ImageOK, n
  <2>4. CASE tab[t].coming.page # "pair"
    <3>1. Arriving' \subseteq Arriving /\ Asking' \subseteq Asking
      BY <2>1, <2>4 DEF Arriving, Asking
    <3> QED
      BY <1>3, <2>1, <2>2, <3>1 DEF ImageOK
  <2> QED
    BY <2>3, <2>4
<1>6. ASSUME NEW t \in Tab, PairQR(t)
      PROVE  ImageOK'
  <2>1. PICK ok \in BOOLEAN :
           /\ Admit("image", ok)
           /\ \A u \in Tab : tab'[u].coming = tab[u].coming
           /\ \A u \in Tab \ {t} : tab'[u] = tab[u]
           /\ tab'[t].image = IF ok THEN "no" ELSE "limited"
    BY <1>6, PairQREffect
  <2>2. t \in Asking
    BY <1>6 DEF PairQR, Asking
  <2>3. m > 0
    BY <2>2, PendingFinite, FS_EmptySet
  <2>4. Cost["image"] <= level["image"]
    <3>1. Cost["page"] <= Cost["page"] * m /\ Cost["page"] * m \in Nat
      BY <1>1, <1>2, <2>3, Times
    <3> HIDE DEF m
    <3> QED
      BY <1>2, <3>1, RatesAssumption
  <2>5. /\ ok
        /\ level'["page"] = level["page"] /\ level["image"] = level'["image"] + Cost["image"]
    BY <1>2, <2>1, <2>4, AdmitEffect DEF Bucket
  <2>6. \A u \in Tab : tab'[u].image # "limited"
    BY <2>1, <2>5 DEF ImageOK
  <2>7. Asking' = Asking \ {t} /\ Arriving' = Arriving
    BY <2>1, <2>5 DEF Asking, Arriving
  <2>8. m = n + 1
    BY <2>2, <2>7, PendingFinite, FS_RemoveElement
  <2>9. level["image"] <= level'["image"] + Cost["page"]
    BY <1>2, <2>5, RatesAssumption
  <2> HIDE DEF m, n
  <2>10. level'["page"] + Cost["page"] * n <= level'["image"]
    BY <1>1, <1>2, <2>5, <2>8, <2>9, Shift
  <2> QED
    BY <2>6, <2>10 DEF ImageOK, n
<1>7. ASSUME NEW t \in Tab, NEW s \in Slot, Submit(t, s)
      PROVE  ImageOK'
  <2>1. /\ \A u \in Tab : \/ tab'[u] = tab[u]
                          \/ tab'[u].coming = Nothing /\ tab'[u].image = "no"
        /\ level' = level
    BY <1>7, SubmitEffect
  <2>2. Asking' \subseteq Asking /\ Arriving' \subseteq Arriving
    BY <2>1 DEF Asking, Arriving, Nothing
  <2> QED
    BY <1>3, <2>1, <2>2 DEF ImageOK
<1>8. ASSUME NEW s \in Slot, FormSteps(s)
      PROVE  ImageOK'
  <2>1. /\ \A u \in Tab : tab'[u].coming = tab[u].coming /\ tab'[u].image \in {"no", tab[u].image}
        /\ level'["page"] = level["page"] /\ level'["image"] = level["image"]
    BY <1>8, FormEffect, AnsweredEffect DEF Handled
  <2>2. Asking' \subseteq Asking /\ Arriving' \subseteq Arriving
    BY <2>1 DEF Asking, Arriving
  <2> QED
    BY <1>3, <2>1, <2>2 DEF ImageOK
<1>9. CASE Tick
  <2>1. /\ \A u \in Tab : /\ tab'[u].coming = tab[u].coming /\ tab'[u].image = tab[u].image
                          /\ tab'[u].coming = Nothing /\ tab'[u].image # "asked"
        /\ \A b \in Bucket : /\ level'[b] <= Full(b) /\ level[b] <= level'[b]
                             /\ level'[b] = level[b] + 1 \/ level'[b] = Full(b)
    BY <1>9, TickEffect
  <2>2. Asking' = {} /\ Arriving' = {}
    BY <2>1 DEF Asking, Arriving, Nothing
  <2>3. n = 0
    BY <2>2, FS_EmptySet
  <2>4. level["page"] <= level["image"]
    <3>1. Cost["page"] * m \in Nat
      BY <1>1, <1>2, Times
    <3> HIDE DEF m
    <3> QED
      BY <1>2, <3>1
  <2>5. level'["page"] <= level'["image"]
    <3>1. /\ level'["page"] <= Full("page")
          /\ level'["page"] = level["page"] + 1 \/ level'["page"] = Full("page")
          /\ level["page"] <= level'["page"]
          /\ level'["image"] = level["image"] + 1 \/ level'["image"] = Full("image")
          /\ level["page"] <= Full("page")
      BY <2>1 DEF Bucket, Types
    <3>2. Full("page") <= Full("image") /\ Full("page") \in Nat /\ Full("image") \in Nat
      BY RatesAssumption, FullHasToken DEF Full, Bucket
    <3>3. level'["page"] <= level["page"] + 1
      BY <1>9, <1>2, <3>1, <3>2 DEF Tick, Refill, Full, Bucket
    <3> QED
      BY <1>2, <2>4, <3>1, <3>2, <3>3
  <2>6. Cost["page"] * 0 = 0
    BY <1>2
  <2>7. level'["page"] + Cost["page"] * n <= level'["image"]
    BY <1>2, <2>3, <2>5, <2>6
  <2> QED
    BY <2>1, <2>7 DEF ImageOK
<1>10. CASE PairingChanges \/ UNCHANGED vars
  <2>1. tab' = tab /\ level' = level
    BY <1>10 DEF PairingChanges, vars
  <2>2. Asking' = Asking /\ Arriving' = Arriving
    BY <2>1 DEF Asking, Arriving
  <2> QED
    BY <1>3, <2>1, <2>2 DEF ImageOK
<1> QED
  BY <1>4, <1>5, <1>6, <1>7, <1>8, <1>9, <1>10, Steps, AskedSteps

\* A tab is shown or on its way exactly if it is open.
LEMMA OpenTabsFinite ==
    ASSUME Types, Carried
    PROVE  /\ IsFiniteSet(OpenTabs) /\ Cardinality(OpenTabs) \in Nat
           /\ \A t \in Tab : tab[t].coming = Nothing <=> tab[t].coming.page = "none"
           /\ \A t \in Tab : t \in OpenTabs <=> tab[t].page # "blank" \/ tab[t].coming.page # "none"
<1>1. IsFiniteSet(OpenTabs) /\ Cardinality(OpenTabs) \in Nat
  BY PairPageAssumption, FS_Subset, FS_CardinalityType DEF OpenTabs
<1>2. \A t \in Tab : tab[t].coming = Nothing <=> tab[t].coming.page = "none"
  <2> SUFFICES ASSUME NEW t \in Tab
               PROVE  tab[t].coming = Nothing <=> tab[t].coming.page = "none"
    OBVIOUS
  <2>1. tab[t].coming \in Coming
    BY DEF Types, TabType
  <2> QED
    BY <2>1 DEF Carried, Coming, Nothing
<1> QED
  BY <1>1, <1>2 DEF OpenTabs

\* A step that opens no tab and loads no page keeps what is said about the open
\* tabs, if it does so tab by tab.
LEMMA SameTabs ==
    ASSUME AliveOK, opens' = opens, OpenTabs' = OpenTabs,
           level["page"] \in Nat, level'["page"] \in Nat, level["page"] <= level'["page"],
           OnlyOnce => \A t \in OpenTabs : Lives(t) => Lives(t)'
    PROVE  AliveOK'
<1>1. Cardinality(OpenTabs)' = Cardinality(OpenTabs) /\ OnlyOnce' = OnlyOnce
  BY DEF OnlyOnce
<1>2. Cost["page"] \in Nat
  BY PairPageAssumption DEF Bucket
<1>3. OpenTabs' = {} => Cost["page"] <= level'["page"]
  BY <1>2 DEF AliveOK
<1>4. OnlyOnce /\ OpenTabs # {} => \E t \in OpenTabs : Lives(t)'
  BY DEF AliveOK
<1> QED
  BY <1>1, <1>3, <1>4 DEF AliveOK

\* The page is loaded: by the first load of its tab, by its refresh, or once
\* more by hand.
LEMMA AliveAsked ==
    ASSUME LimitsInv, FormsInv', NEW t \in Tab, NEW posts, Asked(t, posts)
    PROVE  FormsWait' /\ AliveOK'
<1> USE DEF LimitsInv, FormsInv
<1>1. Served(t, posts) \/ Turned(t, posts)
  BY AskedPosts
<1>2. /\ tab'[t].page # "blank" \/ tab'[t].coming.page # "none"
      /\ \A u \in Tab \ {t} : tab'[u].page = tab[u].page /\ tab'[u].coming.page = tab[u].coming.page
  BY <1>1 DEF Served, Turned, Blank
<1>3. OpenTabs' = OpenTabs \union {t}
  <2>1. \A u \in Tab : u \in OpenTabs <=> tab[u].page # "blank" \/ tab[u].coming.page # "none"
    BY OpenTabsFinite
  <2>2. \A u \in Tab : (u \in OpenTabs)' <=> tab'[u].page # "blank" \/ tab'[u].coming.page # "none"
    <3>1. Types' /\ Carried'
      OBVIOUS
    <3>2. \A u \in Tab : tab'[u].coming \in Coming
      BY <3>1 DEF Types, TabType
    <3>3. \A u \in Tab : tab'[u].coming = Nothing <=> tab'[u].coming.page = "none"
      BY <3>1, <3>2 DEF Carried, Coming, Nothing
    <3> QED
      BY <3>3 DEF OpenTabs
  <2>3. OpenTabs \subseteq Tab /\ OpenTabs' \subseteq Tab
    BY DEF OpenTabs
  <2> QED
    BY <1>2, <2>1, <2>2, <2>3
<1>4. /\ IsFiniteSet(OpenTabs) /\ Cardinality(OpenTabs) \in Nat /\ opens \in Nat
      /\ Cardinality(OpenTabs') = IF t \in OpenTabs THEN Cardinality(OpenTabs) ELSE Cardinality(OpenTabs) + 1
  <2>1. IsFiniteSet(OpenTabs) /\ Cardinality(OpenTabs) \in Nat
    BY OpenTabsFinite
  <2> QED
    BY <1>3, <2>1, FS_AddElement DEF Types
<1>5. /\ opens' \in {opens, opens + 1}
      /\ opens' = opens => Refresh(t) /\ t \in OpenTabs
  BY <1>4 DEF Asked, OpenTabs
<1>6. Cardinality(OpenTabs') <= opens'
  BY <1>4, <1>5 DEF AliveOK
<1>7. OpenTabs' # {}
  BY <1>3
\* Any other load is one too many.
<1>8. ASSUME OnlyOnce'
      PROVE  /\ OnlyOnce /\ posts = post /\ tab[t].coming = Nothing /\ ~Submitting(t)
             /\ \/ t \notin OpenTabs /\ tab[t].page = "blank"
                \/ t \in OpenTabs /\ tab[t].page = "pair" /\ tab[t].timer = 0
  <2>1. opens' <= Cardinality(OpenTabs')
    BY <1>8 DEF OnlyOnce
  <2>2. CASE t \in OpenTabs
    <3>1. opens' = opens /\ OnlyOnce
      BY <1>4, <1>5, <2>1, <2>2 DEF AliveOK, OnlyOnce
    <3>2. opens' # opens + 1
      BY <1>4, <3>1
    <3> QED
      BY <2>2, <3>1, <3>2 DEF Asked
  <2>3. CASE t \notin OpenTabs
    <3>1. OnlyOnce
      BY <1>4, <1>5, <2>1, <2>3 DEF OnlyOnce
    <3>2. tab[t].page = "blank"
      BY <2>3 DEF OpenTabs
    <3>3. \A s \in Slot : t \notin post[s].from
      BY <3>2 DEF Carried
    <3> QED
      BY <2>3, <3>1, <3>2, <3>3 DEF Asked
  <2> QED
    BY <2>2, <2>3
<1>9. FormsWait'
  <2> SUFFICES ASSUME OnlyOnce', NEW s \in Slot, NEW u \in post'[s].from
               PROVE  tab'[u].coming = Nothing /\ (post'[s].at = "refused" => tab'[u].page # "pair")
    BY DEF FormsWait
  <2>1. post'[s].from = post[s].from /\ post'[s].at = post[s].at
    BY <1>1, <1>8 DEF Served, Turned
  <2>2. u \in Tab /\ u # t
    BY <1>8, <2>1 DEF Types, PostType, Submitting
  <2>3. tab[u].coming = Nothing /\ (post[s].at = "refused" => tab[u].page # "pair")
    BY <1>8, <2>1 DEF FormsWait
  <2>4. tab'[u].page = tab[u].page /\ tab'[u].coming.page = "none"
    BY <1>2, <2>2, <2>3 DEF Nothing
  <2>5. tab'[u].coming \in Coming /\ tab'[u].coming.token = "none"
    BY <2>2, <2>4 DEF Types, TabType, Carried
  <2> QED
    BY <2>1, <2>3, <2>4, <2>5 DEF Coming, Nothing
<1>10. ASSUME OnlyOnce'
       PROVE  \E u \in OpenTabs' : Lives(u)'
  <2>1. CASE Served(t, posts)
    <3>1. tab'[t].page # "limited"
      BY <1>8, <1>10, <2>1 DEF Served
    <3>2. tab'[t].coming # Nothing
      BY <2>1 DEF Served, Nothing
    <3> QED
      BY <1>3, <3>1, <3>2 DEF Lives
  <2>2. CASE Turned(t, posts)
    <3>1. /\ level["page"] < Cost["page"] /\ level' = level
          /\ level["page"] \in Nat /\ Cost["page"] \in Nat /\ Period \in Nat
      BY <2>2, PairPageAssumption DEF Turned, Types, Bucket
    <3>2. OpenTabs # {}
      BY <3>1 DEF AliveOK
    <3>3. PICK u \in OpenTabs : Lives(u)
      BY <1>8, <1>10, <3>2 DEF AliveOK
    <3>4. u # t
      <4> SUFFICES ASSUME u = t
                   PROVE  FALSE
        OBVIOUS
      <4>1. tab[t].page = "pair" /\ tab[t].timer = 0 /\ tab[t].coming = Nothing /\ ~Submitting(t)
        BY <1>8, <1>10, <3>3
      <4> QED
        BY <3>1, <3>3, <4>1, RatesAssumption DEF Lives
    <3>5. u \in Tab /\ tab'[u] = tab[u] /\ post' = post
      BY <1>8, <1>10, <2>2, <3>4 DEF Turned, OpenTabs
    <3>6. Lives(u)'
      BY <3>1, <3>3, <3>5 DEF Lives, Submitting
    <3> QED
      BY <1>3, <3>6
  <2> QED
    BY <1>1, <2>1, <2>2
<1> QED
  BY <1>6, <1>7, <1>9, <1>10 DEF AliveOK

LEMMA AliveStep ==
    ASSUME LimitsInv, FormsInv', [Next]_vars
    PROVE  FormsWait' /\ AliveOK'
<1> USE DEF LimitsInv, FormsInv
<1>1. level["page"] \in Nat /\ level'["page"] \in Nat /\ Period \in Nat /\ Cost["page"] \in Nat
  BY PairPageAssumption DEF Types, Bucket
<1>2. \A s \in Slot : post[s].from \subseteq Tab
  BY DEF Types, PostType
<1>3. \A u \in Tab : tab[u].timer \in Nat
  BY DEF Types, TabType
<1>4. OpenTabs \subseteq Tab
  BY DEF OpenTabs
<1>5. ASSUME NEW t \in Tab, Show(t)
      PROVE  FormsWait' /\ AliveOK'
  <2>1. /\ \A u \in Tab \ {t} : tab'[u] = tab[u]
        /\ tab'[t].page \in {"pair", "paired"} /\ tab'[t].timer = Period
        /\ level' = level /\ post' = post /\ opens' = opens
        /\ tab[t].coming # Nothing
    BY <1>5, ShowEffect DEF forms, Show
  <2>2. OpenTabs' = OpenTabs
    BY <2>1 DEF OpenTabs
  <2>3. \A u \in OpenTabs : Lives(u) => Lives(u)'
    <3> SUFFICES ASSUME NEW u \in OpenTabs, Lives(u)
                 PROVE  Lives(u)'
      OBVIOUS
    <3>1. CASE u = t
      BY <1>1, <2>1, <3>1 DEF Lives
    <3>2. CASE u # t
      BY <1>4, <2>1, <3>2 DEF Lives, Submitting
    <3> QED
      BY <3>1, <3>2
  <2>4. AliveOK'
    BY <1>1, <2>1, <2>2, <2>3, SameTabs
  <2>5. FormsWait'
    <3> SUFFICES ASSUME OnlyOnce, NEW s \in Slot, NEW u \in post[s].from
                 PROVE  tab'[u].coming = Nothing /\ (post[s].at = "refused" => tab'[u].page # "pair")
      BY <2>1, <2>2 DEF FormsWait, OnlyOnce
    <3>1. tab[u].coming = Nothing /\ u # t
      BY <2>1 DEF FormsWait
    <3> QED
      BY <1>2, <2>1, <3>1 DEF FormsWait
  <2> QED
    BY <2>4, <2>5
<1>6. ASSUME NEW t \in Tab, PairQR(t)
      PROVE  FormsWait' /\ AliveOK'
  <2>1. /\ \A u \in Tab : /\ tab'[u].page = tab[u].page /\ tab'[u].timer = tab[u].timer
                          /\ tab'[u].coming = tab[u].coming
        /\ level'["page"] = level["page"]
    BY <1>6, PairQREffect, AdmitEffect DEF Bucket
  <2>2. post' = post /\ opens' = opens
    BY <1>6 DEF PairQR, forms
  <2>3. OpenTabs' = OpenTabs
    BY <2>1 DEF OpenTabs
  <2>4. \A u \in OpenTabs : Lives(u) => Lives(u)'
    BY <1>4, <2>1, <2>2 DEF Lives, Submitting
  <2>5. AliveOK'
    BY <1>1, <2>1, <2>2, <2>3, <2>4, SameTabs
  <2>6. FormsWait'
    BY <1>2, <2>1, <2>2, <2>3 DEF FormsWait, OnlyOnce
  <2> QED
    BY <2>5, <2>6
<1>7. ASSUME NEW t \in Tab, NEW s \in Slot, Submit(t, s)
      PROVE  FormsWait' /\ AliveOK'
  <2>1. /\ tab[t].page \notin {"blank", "limited"} /\ post[s].at = "free"
        /\ \A r \in Slot \ {s} : post'[r] = post[r]
        /\ post'[s].at \in {"code", "reset"} /\ post'[s].from = {t}
        /\ \A u \in Tab \ {t} : tab'[u] = tab[u]
        /\ tab'[t].page = tab[t].page /\ tab'[t].coming = Nothing
        /\ level' = level /\ opens' = opens
    BY <1>7, SubmitEffect
  <2>2. OpenTabs' = OpenTabs
    BY <2>1 DEF OpenTabs
  <2>3. \A u \in OpenTabs : Lives(u) => Lives(u)'
    <3> SUFFICES ASSUME NEW u \in OpenTabs, Lives(u)
                 PROVE  Lives(u)'
      OBVIOUS
    <3>1. CASE u = t
      <4>1. Submitting(t)'
        BY <2>1 DEF Submitting
      <4>2. tab[t].page \in {"pair", "paired", "codeAnswer", "resetAnswer"}
        BY <1>7 DEF Submit
      <4> QED
        BY <2>1, <3>1, <4>1, <4>2 DEF Lives
    <3>2. CASE u # t
      <4>1. tab'[u] = tab[u]
        BY <1>4, <2>1, <3>2
      <4>2. Submitting(u) => Submitting(u)'
        <5>1. post[s].from = {}
          BY <2>1 DEF Carried
        <5> QED
          BY <2>1, <5>1 DEF Submitting
      <4> QED
        BY <2>1, <4>1, <4>2 DEF Lives
    <3> QED
      BY <3>1, <3>2
  <2>4. AliveOK'
    BY <1>1, <2>1, <2>2, <2>3, SameTabs
  <2>5. FormsWait'
    <3> SUFFICES ASSUME OnlyOnce, NEW r \in Slot, NEW u \in post'[r].from
                 PROVE  tab'[u].coming = Nothing /\ (post'[r].at = "refused" => tab'[u].page # "pair")
      BY <2>1, <2>2 DEF FormsWait, OnlyOnce
    <3>1. CASE r = s
      BY <2>1, <3>1
    <3>2. CASE r # s
      <4>1. post'[r] = post[r] /\ u \in Tab
        BY <1>2, <2>1, <3>2
      <4>2. tab[u].coming = Nothing /\ (post[r].at = "refused" => tab[u].page # "pair")
        BY <4>1 DEF FormsWait
      <4>3. tab'[u].page = tab[u].page /\ tab'[u].coming \in {tab[u].coming, Nothing}
        BY <2>1, <4>1
      <4> QED
        BY <4>1, <4>2, <4>3
    <3> QED
      BY <3>1, <3>2
  <2> QED
    BY <2>4, <2>5
<1>8. ASSUME NEW s \in Slot, FormSteps(s)
      PROVE  FormsWait' /\ AliveOK'
  <2>1. /\ \A r \in Slot \ {s} : post'[r] = post[r]
        /\ \/ post'[s] = Free
           \/ post'[s].from = post[s].from
        /\ post'[s] = Free \/ post'[s].at = "refused" => Answered(s) \/ post[s].at = "refused"
        /\ level'["page"] = level["page"] /\ opens' = opens
    BY <1>8, FormEffect DEF Handled
  <2>2. /\ \A u \in Tab : tab'[u].coming = tab[u].coming
        /\ \A u \in Tab : \/ tab'[u] = tab[u]
                          \/ /\ tab[u].page \in {"pair", "paired"}
                             /\ tab'[u].page \in {"codeAnswer", "resetAnswer"}
        /\ Answered(s) => \A u \in post[s].from : tab'[u].page # "pair"
    BY <1>8, FormEffect, AnsweredEffect DEF Handled
  <2>3. OpenTabs' = OpenTabs
    BY <2>2 DEF OpenTabs
  <2>4. ASSUME OnlyOnce, NEW u \in OpenTabs, Lives(u)
        PROVE  Lives(u)'
    <3>1. CASE tab'[u].page \in {"codeAnswer", "resetAnswer"}
      BY <3>1 DEF Lives
    <3>2. CASE tab'[u] = tab[u] /\ tab[u].page = "pair" /\ Submitting(u)
      <4>1. PICK r \in Slot : u \in post[r].from
        BY <3>2 DEF Submitting
      <4>2. u \in post'[r].from
        <5>1. CASE r = s
          <6>1. post[s].at # "refused"
            BY <2>4, <3>2, <4>1, <5>1 DEF FormsWait
          <6>2. ~Answered(s)
            BY <2>2, <3>2, <4>1, <5>1
          <6> QED
            BY <2>1, <4>1, <5>1, <6>1, <6>2
        <5>2. CASE r # s
          BY <2>1, <4>1, <5>2
        <5> QED
          BY <5>1, <5>2
      <4>3. Submitting(u)'
        BY <4>2 DEF Submitting
      <4> QED
        BY <3>2, <4>3 DEF Lives
    <3>3. CASE tab'[u] = tab[u] /\ ~(tab[u].page = "pair" /\ Submitting(u))
      BY <2>1, <2>4, <3>3 DEF Lives
    <3> QED
      BY <1>4, <2>2, <3>1, <3>2, <3>3
  <2>5. AliveOK'
    BY <1>1, <2>1, <2>3, <2>4, SameTabs
  <2>6. FormsWait'
    <3> SUFFICES ASSUME OnlyOnce, NEW r \in Slot, NEW u \in post'[r].from
                 PROVE  tab'[u].coming = Nothing /\ (post'[r].at = "refused" => tab'[u].page # "pair")
      BY <2>1, <2>3 DEF FormsWait, OnlyOnce
    <3>1. u \in post[r].from /\ u \in Tab
      BY <1>2, <2>1 DEF Free
    <3>2. tab[u].coming = Nothing /\ (post[r].at = "refused" => tab[u].page # "pair")
      BY <3>1 DEF FormsWait
    <3>3. post'[r].at = "refused" => tab'[u].page # "pair"
      <4>1. CASE r = s /\ Answered(s)
        BY <2>2, <3>1, <4>1
      <4>2. CASE ~(r = s /\ Answered(s))
        <5>1. post'[r].at = "refused" => post[r].at = "refused"
          BY <2>1, <4>2
        <5> QED
          BY <2>2, <3>1, <3>2, <5>1
      <4> QED
        BY <4>1, <4>2
    <3> QED
      BY <2>2, <3>1, <3>2, <3>3
  <2> QED
    BY <2>5, <2>6
<1>9. CASE Tick
  <2>1. /\ \A u \in Tab : /\ tab'[u].page = tab[u].page /\ tab'[u].coming = tab[u].coming
                          /\ tab'[u].timer = IF tab[u].page = "pair" THEN tab[u].timer - 1 ELSE tab[u].timer
        /\ level["page"] <= level'["page"]
        /\ level'["page"] = level["page"] + 1 \/ level'["page"] = Full("page")
        /\ \A s \in Slot : post[s].from = {}
        /\ post' = post /\ opens' = opens
    BY <1>9, TickEffect DEF forms, Bucket, Carried
  <2>2. OpenTabs' = OpenTabs
    BY <2>1 DEF OpenTabs
  <2>3. ASSUME NEW u \in OpenTabs, Lives(u)
        PROVE  Lives(u)'
    <3>1. ~Submitting(u)
      BY <2>1 DEF Submitting
    <3>2. CASE tab[u].page # "pair"
      BY <1>4, <2>1, <2>3, <3>2 DEF Lives
    <3>3. CASE tab[u].page = "pair" /\ tab[u].coming # Nothing
      BY <1>4, <2>1, <3>3 DEF Lives
    <3>4. CASE tab[u].page = "pair" /\ tab[u].coming = Nothing
      <4>1. Cost["page"] <= level["page"] \/ Period <= level["page"] + tab[u].timer
        BY <2>3, <3>1, <3>4 DEF Lives
      <4>2. tab'[u].timer = tab[u].timer - 1 /\ tab[u].timer \in Nat
        BY <1>3, <1>4, <2>1, <3>4
      <4>3. Cost["page"] <= level'["page"] \/ Period <= level'["page"] + tab'[u].timer
        BY <1>1, <2>1, <4>1, <4>2, FullHasToken DEF Bucket
      <4> QED
        BY <1>4, <2>1, <3>4, <4>3 DEF Lives
    <3> QED
      BY <3>2, <3>3, <3>4
  <2>4. AliveOK'
    BY <1>1, <2>1, <2>2, <2>3, SameTabs
  <2>5. FormsWait'
    BY <2>1 DEF FormsWait
  <2> QED
    BY <2>4, <2>5
<1>10. CASE PairingChanges \/ UNCHANGED vars
  <2>1. tab' = tab /\ level' = level /\ post' = post /\ opens' = opens
    BY <1>10 DEF PairingChanges, vars, forms
  <2> QED
    BY <2>1 DEF FormsWait, AliveOK, OnlyOnce, OpenTabs, Lives, Submitting
<1> QED
  BY <1>5, <1>6, <1>7, <1>8, <1>9, <1>10, Steps, AskedSteps, AliveAsked

\* Whatever the rates are, as long as they fit together as RatesAssumption says,
\* and however many tabs are open: a page that was admitted gets its image, a
\* refused request has a token after Retry-After, and of the tabs that were
\* loaded once each, one always lives.
THEOREM LimitsAlwaysFair == Spec => []LimitsAreFair
<1>1. Init => LimitsInv
  <2> SUFFICES ASSUME Init
               PROVE  LimitsInv
    OBVIOUS
  <2>1. FormsInv
    BY FormsInvInitially
  <2>2. WaitOK
    BY DEF Init, WaitOK
  <2>3. OpenTabs = {} /\ Asking = {} /\ Arriving = {}
    BY DEF Init, OpenTabs, Asking, Arriving, Blank, Nothing
  <2>4. Cardinality(OpenTabs) = 0 /\ Cardinality(Asking) = 0 /\ Cardinality(Arriving) = 0
    BY <2>3, FS_EmptySet
  <2>5. /\ level["page"] = Full("page") /\ level["image"] = Full("image")
        /\ Full("page") \in Nat /\ Full("image") \in Nat /\ Full("page") <= Full("image")
        /\ Cost["page"] <= Full("page") /\ Cost["page"] \in Nat
    BY FullHasToken, RatesAssumption DEF Init, Full, Bucket
  <2>6. Cost["page"] * (0 + 0) = 0
    BY <2>5
  <2>7. ImageOK
    <3>1. \A t \in Tab : tab[t].image # "limited"
      BY DEF Init, Blank
    <3> QED
      BY <2>4, <2>5, <2>6, <3>1 DEF ImageOK
  <2>8. FormsWait
    BY DEF Init, FormsWait, Free
  <2>9. AliveOK
    BY <2>3, <2>4, <2>5 DEF Init, AliveOK
  <2> QED
    BY <2>1, <2>2, <2>7, <2>8, <2>9 DEF LimitsInv
<1>2. LimitsInv /\ [Next]_vars /\ FormsInv' => LimitsInv'
  BY WaitStep, ImageStep, AliveStep DEF LimitsInv, FormsInv
<1>3. LimitsInv => LimitsAreFair
  <2> SUFFICES ASSUME LimitsInv
               PROVE  LimitsAreFair
    OBVIOUS
  <2>1. SomePageLives
    BY DEF LimitsInv, AliveOK, OnlyOnce, Lives, SomePageLives
  <2>2. ImagesAreServed
    BY DEF LimitsInv, ImageOK, ImagesAreServed
  <2>3. RetryAfterIsHonest
    <3> SUFFICES ASSUME NEW b \in Bucket, 0 \in wait[b]
                 PROVE  level[b] >= Cost[b]
      BY DEF RetryAfterIsHonest
    <3>1. Cost[b] <= level[b] + 0 /\ level[b] \in Nat /\ Cost[b] \in Nat
      BY PairPageAssumption DEF LimitsInv, FormsInv, Types, WaitOK
    <3> QED
      BY <3>1
  <2> QED
    BY <2>1, <2>2, <2>3 DEF LimitsAreFair
<1> QED
  BY <1>1, <1>2, <1>3, FormsAlways, PTL DEF Spec
===============================================================================
