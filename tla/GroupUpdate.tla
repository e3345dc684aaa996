------------------------------ MODULE GroupUpdate ------------------------------
(***************************************************************************)
(* update_group_participants: Client.UpdateGroupParticipants of            *)
(* internal/client/features_groups.go.  One call reads the group, decides  *)
(* what to ask for, asks WhatsApp in one or more requests and attributes   *)
(* the entries of each reply to the people it was asked about, inviting    *)
(* the ones whose privacy settings block being added.  Meanwhile other     *)
(* admins change the group.  A person has two addresses, a phone number    *)
(* and a LID, which the daemon can relate only when it knows the mapping   *)
(* or the group shows both.                                                *)
(***************************************************************************)
EXTENDS Naturals, Sequences, FiniteSets

CONSTANTS
    Person, Self,   \* Self is the paired user
    Action,         \* the changes asked for
    Wish,           \* the lists of addresses asked for
    Facts,          \* what the group and the daemon may show of its people
    MaxChanges      \* bound on the changes other admins make during the call

JID == [who : Person, form : {"pn", "lid"}]
Role == {"out", "member", "admin"}

ASSUME GroupAssumption ==
    /\ Self \in Person /\ MaxChanges \in Nat
    /\ Action \subseteq {"add", "remove", "promote", "demote"}
    /\ Wish \subseteq Seq(JID)
    /\ Facts \subseteq [lidMode : BOOLEAN, open : BOOLEAN,
                        shown : SUBSET Person, known : SUBSET Person]

VARIABLES
    role,       \* what WhatsApp takes each person to be in the group
    facts,      \* the group's addressing and add mode, who it shows, mappings known
    call,       \* the running call
    changed,    \* the addresses asked about whose person WhatsApp changed for the call
    invites,    \* the invites sent: to whom, and whose code
    spent,      \* sends the rate limiter has admitted for the call
    changes     \* changes made by others

vars == <<role, facts, call, changed, invites, spent, changes>>

\* The address the group itself uses, and every address its entry carries.
Own(p) == [who |-> p, form |-> IF facts.lidMode THEN "lid" ELSE "pn"]
Names(p) == IF p \in facts.shown THEN {j \in JID : j.who = p} ELSE {Own(p)}

\* lidForPN: the stored LID of a phone number, none for another address.
LidForPN(j) ==
    {l \in JID : j.form = "pn" /\ j.who \in facts.known /\ l = [j EXCEPT !.form = "lid"]}

\* findParticipant, for an address and its known LID.
Found(j) == role[j.who] # "out" /\ Names(j.who) \cap ({j} \union LidForPN(j)) # {}

\* checkParticipantPermission.
Permitted(action) ==
    \/ role[Self] = "admin"
    \/ role[Self] = "member" /\ action = "add" /\ facts.open

\* Bug: a stranger's number and LID are taken for two people.
IdentityAsTyped(j) == IF Found(j) THEN Own(j.who) ELSE j

\* planParticipantChange: whom an address names, as far as the daemon can tell.
Identity(j) ==
    CASE Found(j) -> Own(j.who)
      [] ~Found(j) /\ LidForPN(j) # {} -> CHOOSE l \in LidForPN(j) : TRUE
      [] OTHER -> j

\* planParticipantChange: lists it refuses.
SamePersonTwice(wish) ==
    \E i, k \in DOMAIN wish : i < k /\ Identity(wish[i]) = Identity(wish[k])
RemovesSelf(action, wish) ==
    action = "remove" /\ \E i \in DOMAIN wish : wish[i].who = Self /\ Found(wish[i])

\* planParticipantChange: the outcome known in advance, and the address to send.
Planned(action, j) ==
    CASE action = "add" /\ Found(j) -> "already_member"
      [] action # "add" /\ ~Found(j) -> "not_member"
      [] OTHER -> "pending"
Target(action, j) == IF action = "add" THEN j ELSE Own(j.who)

\* Participants are numbered as in the list; requests and loops go in that order.
First(S) == CHOOSE i \in S : \A k \in S : i <= k

Idle == [at |-> "idle"]
NoAnswer == [i \in {} |-> "silent"]

Init ==
    /\ role \in [Person -> Role]
    /\ facts \in Facts
    /\ facts.open => role[Self] = "member"
    /\ call = Idle
    /\ changed = {} /\ invites = {} /\ spent = 0 /\ changes = 0

\* GetGroupInfo and what is decided from it: an error, a report without a
\* request, or the requests to make.
Begin(action, wish, invite) ==
    /\ call = Idle
    /\ LET status == [i \in DOMAIN wish |-> Planned(action, wish[i])]
           pending == {i \in DOMAIN wish : status[i] = "pending"}
           refused == ~Permitted(action) \/ SamePersonTwice(wish) \/ RemovesSelf(action, wish)
       IN call' = [at |-> CASE refused -> "error"
                            [] ~refused /\ pending = {} -> "report"
                            [] OTHER -> "request",
                   action |-> action, invite |-> invite, wish |-> wish,
                   target |-> [i \in DOMAIN wish |-> Target(action, wish[i])],
                   status |-> status,
                   todo |-> pending, left |-> {}, answer |-> NoAnswer,
                   asked |-> 0, lost |-> FALSE]
    /\ UNCHANGED <<role, facts, changed, invites, spent, changes>>

-------------------------------------------------------------------------------
(* WhatsApp and the other admins.                                          *)

\* Bug: every change goes in one request.
OneBatch == call.todo

\* participantBatches: adds to a LID-addressed group go one per request.
Batch == IF call.action = "add" /\ facts.lidMode THEN {First(call.todo)} ELSE call.todo

\* What WhatsApp may decide about the k-th address of a request, v being what
\* it decided about the earlier ones: to do it, or why not, or not to mention
\* it.  It checks the paired user's rights itself, and decides once about a
\* person named twice.
Verdicts(batch, k, v) ==
    LET p == call.target[k].who
        before == {v[i] : i \in {n \in batch : n < k /\ call.target[n].who = p}} \ {"silent"}
    IN {"silent"} \union
       CASE ~Permitted(call.action) -> {"refused"}
         [] Permitted(call.action) /\ call.action = "add" ->
              IF role[p] # "out" \/ "ok" \in before THEN {"present"}
              ELSE IF before # {} THEN before ELSE {"ok", "blocked", "refused"}
         [] OTHER -> IF role[p] = "out" THEN {"refused"} ELSE {"ok", "refused"}

Answers(batch) ==
    {v \in [batch -> {"ok", "present", "blocked", "refused", "silent"}] :
        \A k \in batch : v[k] \in Verdicts(batch, k, v)}

\* The addresses a reply entry carries: the group's own way to name the person,
\* and outside LID-addressed groups also the address that was asked for.
EntryNames(i) ==
    Names(call.target[i].who) \union (IF facts.lidMode THEN {} ELSE {call.target[i]})

RoleAfter == [add |-> "member", remove |-> "out", promote |-> "admin", demote |-> "member"]

\* The addresses WhatsApp acts on when it decides v about batch.
Served(batch, v) == {call.target[k] : k \in {n \in batch : v[n] = "ok"}}

Apply(batch, v) ==
    /\ role' = [p \in Person |-> IF \E j \in Served(batch, v) : j.who = p
                                 THEN RoleAfter[call.action] ELSE role[p]]
    /\ changed' = changed \union Served(batch, v)

\* Other admins, or the people themselves, change the group; only a change that
\* comes before a request has an effect on the call.
OthersChange(p, r) ==
    /\ call # Idle /\ call.at = "request"
    /\ changes < MaxChanges /\ role[p] # r
    /\ role' = [role EXCEPT ![p] = r]
    /\ changes' = changes + 1
    /\ UNCHANGED <<facts, call, changed, invites, spent>>

-------------------------------------------------------------------------------

\* Where the call goes once a batch is dealt with.
Following(rest) == IF rest = {} THEN "report" ELSE "request"

\* A request that is answered: its reply is then read entry by entry.
RequestAnswered ==
    /\ call.at = "request"
    /\ \E v \in Answers(Batch) :
          /\ Apply(Batch, v)
          /\ call' = [call EXCEPT !.at = "record", !.todo = @ \ Batch, !.left = Batch,
                                  !.answer = v, !.asked = @ + 1]
    /\ UNCHANGED <<facts, invites, spent, changes>>

\* Bug: any request that fails fails the call.
AfterFailureAborts(lost) ==
    [call EXCEPT !.at = "error", !.todo = @ \ Batch, !.asked = @ + 1, !.lost = lost \/ @]

\* A request that fails: the first one fails the call, a later one its batch.
AfterFailure(lost) ==
    [call EXCEPT !.at = IF call.asked = 0 THEN "error" ELSE Following(call.todo \ Batch),
                 !.status = [i \in DOMAIN @ |-> IF call.asked > 0 /\ i \in Batch
                                                THEN "undelivered" ELSE @[i]],
                 !.todo = @ \ Batch, !.asked = @ + 1, !.lost = lost \/ @]

\* WhatsApp may have served a request whose answer was lost.
RequestFails ==
    /\ call.at = "request"
    /\ \/ /\ UNCHANGED <<role, changed>>
          /\ call' = AfterFailure(FALSE)
       \/ /\ \E v \in Answers(Batch) : Apply(Batch, v)
          /\ call' = AfterFailure(TRUE)
    /\ UNCHANGED <<facts, invites, spent, changes>>

\* Bug: the first entry of a reply stands for any participant it does not name.
ResultForFirst(i) ==
    LET entries == {e \in DOMAIN call.answer : call.answer[e] # "silent"}
        direct == {e \in entries : call.target[i] \in EntryNames(e)}
    IN IF direct # {} THEN direct ELSE entries

\* resultFor: the reply entries that may be taken for the i-th address: those
\* that name it, those whose LID the mapping relates to it, or the only one.
ResultFor(i) ==
    LET entries == {e \in DOMAIN call.answer : call.answer[e] # "silent"}
        direct == {e \in entries : call.target[i] \in EntryNames(e)}
        mapped == {e \in entries : facts.lidMode /\ Own(call.target[e].who) \in LidForPN(call.target[i])}
    IN CASE direct # {} -> direct
         [] direct = {} /\ mapped # {} -> mapped
         [] OTHER -> IF Cardinality(DOMAIN call.answer) = 1 THEN entries ELSE {}

\* Bug: the word for a successful change is missing.
OutcomeBlank(verdict) ==
    CASE verdict = "ok" -> ""
      [] verdict = "blocked" -> "invite_required"
      [] verdict = "present" /\ call.action = "add" -> "already_member"
      [] OTHER -> "failed"

\* applyResult.
Outcome(verdict) ==
    CASE verdict = "ok" -> "done"
      [] verdict = "blocked" -> "invite_required"
      [] verdict = "present" /\ call.action = "add" -> "already_member"
      [] OTHER -> "failed"

\* The loop over the batch: one participant's entry is found and recorded.
Settle(status) ==
    call' = [call EXCEPT !.status[First(call.left)] = status, !.left = @ \ {First(call.left)},
                         !.at = IF call.left = {First(call.left)} THEN Following(call.todo)
                                ELSE "record"]

Unanswered ==
    /\ call.at = "record" /\ ResultFor(First(call.left)) = {}
    /\ Settle("unanswered")
    /\ UNCHANGED <<role, facts, changed, invites, spent, changes>>

\* The first entry in the order of the reply; nothing to invite for.
Answered ==
    /\ call.at = "record" /\ ResultFor(First(call.left)) # {}
    /\ LET verdict == call.answer[First(ResultFor(First(call.left)))]
       IN ~(call.invite /\ verdict = "blocked") /\ Settle(Outcome(verdict))
    /\ UNCHANGED <<role, facts, changed, invites, spent, changes>>

\* Bug: the invite is sent before the limiter is asked.
InviteUnpaid ==
    /\ call.at = "record" /\ ResultFor(First(call.left)) # {}
    /\ LET i == First(call.left)
           e == First(ResultFor(i))
       IN /\ call.invite /\ call.answer[e] = "blocked"
          /\ \/ Settle("invite_required") /\ UNCHANGED <<invites, spent>>
             \/ Settle("invite_failed") /\ spent' = spent + 1 /\ UNCHANGED invites
             \/ /\ Settle("invite_sent") /\ UNCHANGED spent
                /\ invites' = invites \union {[to |-> call.target[i].who, code |-> call.target[e].who]}
    /\ UNCHANGED <<role, facts, changed, changes>>

\* inviteParticipant: the reply has no code or the limiter holds the invite
\* back, or it is paid for and then fails or reaches the person's chat.
Invite ==
    /\ call.at = "record" /\ ResultFor(First(call.left)) # {}
    /\ LET i == First(call.left)
           e == First(ResultFor(i))
       IN /\ call.invite /\ call.answer[e] = "blocked"
          /\ \/ Settle("invite_required") /\ UNCHANGED <<invites, spent>>
             \/ Settle("invite_failed") /\ spent' = spent + 1 /\ UNCHANGED invites
             \/ /\ Settle("invite_sent") /\ spent' = spent + 1
                /\ invites' = invites \union {[to |-> call.target[i].who, code |-> call.target[e].who]}
    /\ UNCHANGED <<role, facts, changed, changes>>

Next ==
    \/ \E action \in Action, wish \in Wish, invite \in BOOLEAN : Begin(action, wish, invite)
    \/ \E p \in Person, r \in Role : OthersChange(p, r)
    \/ RequestAnswered \/ RequestFails
    \/ Unanswered \/ Answered \/ Invite

Spec == Init /\ [][Next]_vars

-------------------------------------------------------------------------------

Status == {"pending", "done", "already_member", "not_member", "invite_required",
           "invite_sent", "invite_failed", "failed", "unanswered", "undelivered"}

TypeOK ==
    /\ role \in [Person -> Role] /\ changed \subseteq JID
    /\ invites \subseteq [to : Person, code : Person]
    /\ spent \in Nat /\ changes \in 0..MaxChanges
    /\ call # Idle =>
         /\ call.at \in {"request", "record", "report", "error"}
         /\ \A i \in DOMAIN call.wish : call.status[i] \in Status /\ call.target[i] \in JID

\* The report never credits a person with a change WhatsApp did not make for
\* the call, whichever addresses the reply used and whatever others changed
\* meanwhile (resultFor, "the only reliable way to tell whose result it is").
SuccessIsTheirs ==
    call # Idle => \A i \in DOMAIN call.wish :
        call.status[i] = "done" => \E j \in changed : j.who = call.wish[i].who

\* A participant reported as unanswered was not changed: an answered request
\* never hides whom it changed.
SilenceIsUnchanged ==
    call # Idle => \A i \in DOMAIN call.wish :
        call.status[i] = "unanswered" => call.target[i] \notin changed

\* A call that returns an error and no report has changed nothing, unless the
\* answer to its first and only request was lost ("Nothing has changed yet only
\* if this was the first request").
ErrorIsUnchanged ==
    call # Idle /\ call.at = "error" =>
        changed = {} \/ (call.asked = 1 /\ call.lost)

\* An invite carries the code WhatsApp issued for the person it is sent to, was
\* asked for, is reported, and there are never more of them than sends the
\* limiter admitted.
InvitesArePaidAndTheirs ==
    /\ \A inv \in invites :
          /\ inv.to = inv.code /\ call.invite
          /\ \E i \in DOMAIN call.wish :
                /\ call.wish[i].who = inv.to /\ call.status[i] = "invite_sent"
                /\ call.target[i] \notin changed
    /\ Cardinality(invites) <= spent

\* A person asked for by number and by LID is acted on at most once when the
\* mapping is known, whatever the group hides ("catches the same person given as
\* both number and LID").
OncePerPerson ==
    call # Idle /\ call.at = "request" => \A i, k \in DOMAIN call.wish :
        /\ i # k /\ call.status[i] = "pending" /\ call.status[k] = "pending"
        /\ call.wish[i].who = call.wish[k].who
        => call.wish[i].who \notin facts.known

\* What the caller is told, and what it may conclude about who was changed.
ReportIsTrue == SuccessIsTheirs /\ SilenceIsUnchanged /\ ErrorIsUnchanged /\ OncePerPerson
===============================================================================
