-------------------------------- MODULE Account --------------------------------
(***************************************************************************)
(* What the methods of the client do to the paired user's account and to   *)
(* the cache (internal/client/features*.go).                               *)
(*                                                                         *)
(* An account is a record; a method is an operator from an account to the  *)
(* set of its outcomes, each a new account and whether the method reported *)
(* success.  Every method but the last asks WhatsApp once, after it has    *)
(* seen a connection; WhatsApp may refuse, and it may do what it was asked *)
(* and the answer be lost.  The user is an admin of the groups, as the     *)
(* descriptions of the group tools ask.                                    *)
(***************************************************************************)
EXTENDS Integers, FiniteSets, Sequences

CONSTANTS
    Group,          \* groups; HomeGroup is there from the start
    HomeGroup,
    Text,           \* names, topics, bodies, options, emoji, privacy values
    Incoming,       \* messages received and cached, each with its sender
    MaxLinks,       \* bound: invite links minted for the home group
    MaxSent,        \* bound: messages sent
    MaxAsked        \* bound: history requests

Blank == "blank"        \* the empty string
None == "none"
Revoked == "revoked"

ASSUME AccountConstants ==
    /\ HomeGroup \in Group /\ MaxLinks \in Nat \ {0} /\ MaxSent \in Nat /\ MaxAsked \in Nat
    /\ \A m \in Incoming : DOMAIN m = {"id", "from"}
    /\ Text \intersect {Blank, None, Revoked} = {}

\* A message the user sent: what it says, whether a tool told its caller the id, and
\* whether the cache has a row for it.
Sent == [body : Text \union {Revoked}, told : BOOLEAN, cached : BOOLEAN]

AccountType ==
    [online : BOOLEAN, groups : SUBSET Group, made : SUBSET Group,
     title : Text, topic : Text \union {Blank}, announce : BOOLEAN, locked : BOOLEAN,
     link : 1 .. MaxLinks, blocked : BOOLEAN, presence : {"available", "unavailable"},
     privacy : Text, about : Text \union {Blank}, typing : BOOLEAN,
     reaction : Text \union {None}, vote : Text \union {None},
     acked : SUBSET Incoming, sent : Seq(Sent),
     asked : 0 .. MaxAsked, downloaded : BOOLEAN]

\* The messages a caller can name: their id was returned, or list_messages shows it.
Nameable(a) == {i \in DOMAIN a.sent : a.sent[i].told \/ a.sent[i].cached}

-----------------------------------------------------------------------------
(* Outcomes                                                                *)

Refused(a) == {[ok |-> FALSE, to |-> a]}

\* A request to WhatsApp that would lead to one of the accounts in "to".
Ask(a, to) ==
    IF ~a.online THEN Refused(a)
    ELSE Refused(a) \union [ok : BOOLEAN, to : to]

\* The same about a group: WhatsApp refuses who is not a member.
AskGroup(a, g, to) == IF g \in a.groups THEN Ask(a, to) ELSE Refused(a)

\* A new message.  The reply that says so names it; if the answer is lost nobody
\* learns the id and no row is stored.  "keeps" says whether persistSent is called:
\* a failure to store the row is logged and forgotten.
Post(a, body, tells, keeps) ==
    IF ~a.online \/ Len(a.sent) = MaxSent THEN Refused(a)
    ELSE LET with(told, cached) ==
                 [a EXCEPT !.sent = Append(@, [body |-> body, told |-> told,
                                               cached |-> cached])]
         IN  Refused(a)
                 \union {[ok |-> FALSE, to |-> with(FALSE, FALSE)]}
                 \union {[ok |-> TRUE, to |-> with(tells, c)] :
                             c \in IF keeps THEN BOOLEAN ELSE {FALSE}}

-----------------------------------------------------------------------------
(* Groups                                                                  *)

CreateGroup(a) ==
    Ask(a, {[a EXCEPT !.groups = @ \union {g}, !.made = @ \union {g}] : g \in Group \ a.made})

LeaveGroup(a, g) == AskGroup(a, g, {[a EXCEPT !.groups = @ \ {g}]})

ListJoinedGroups(a) == Ask(a, {a})

GetGroupInfoJSON(a, g) == AskGroup(a, g, {a})

SetGroupName(a, name) == AskGroup(a, HomeGroup, {[a EXCEPT !.title = name]})

SetGroupTopic(a, topic) == AskGroup(a, HomeGroup, {[a EXCEPT !.topic = topic]})

SetGroupAnnounce(a, only) == AskGroup(a, HomeGroup, {[a EXCEPT !.announce = only]})

SetGroupLocked(a, locked) == AskGroup(a, HomeGroup, {[a EXCEPT !.locked = locked]})

\* Asked to reset it, WhatsApp mints a new link and the old one stops working.
GetGroupInviteLink(a, reset) ==
    AskGroup(a, HomeGroup,
             IF reset THEN {[a EXCEPT !.link = n] : n \in (1 .. MaxLinks) \cap {a.link + 1}}
                      ELSE {a})

JoinGroupWithLink(a, code) ==
    IF code = a.link THEN Ask(a, {[a EXCEPT !.groups = @ \union {HomeGroup}]})
                     ELSE Refused(a)

-----------------------------------------------------------------------------
(* Blocklist, presence, privacy                                            *)

GetBlocklist(a) == Ask(a, {a})

\* BlockContact and UnblockContact.
updateBlocklist(a, block) == Ask(a, {[a EXCEPT !.blocked = block]})

SendPresence(a, state) == Ask(a, {[a EXCEPT !.presence = state]})

GetPrivacySettings(a) == Ask(a, {a})

SetPrivacySetting(a, value) == Ask(a, {[a EXCEPT !.privacy = value]})

SetStatusMessage(a, text) == Ask(a, {[a EXCEPT !.about = text]})

-----------------------------------------------------------------------------
(* Messages                                                                *)

MarkRead(a, ids) ==
    IF ids = {} THEN Refused(a) ELSE Ask(a, {[a EXCEPT !.acked = @ \union ids]})

\* MarkChatRead acks the cached incoming messages sender by sender, in no fixed
\* order; when one receipt fails the earlier ones have been sent.
MarkChatRead(a) ==
    IF ~a.online THEN Refused(a)
    ELSE {[ok |-> FALSE, to |-> [a EXCEPT !.acked = @ \union {m \in Incoming : m.from \in done}]] :
              done \in SUBSET {m.from : m \in Incoming}}
         \union {[ok |-> TRUE, to |-> [a EXCEPT !.acked = Incoming]]}

SendReaction(a, emoji) == Ask(a, {[a EXCEPT !.reaction = emoji]})

SendReply(a, body) == Post(a, body, FALSE, FALSE)

\* WhatsApp edits and revokes only messages that are there.
EditMessage(a, i, body) ==
    IF a.sent[i].body = Revoked THEN Ask(a, {a})
    ELSE Ask(a, {[a EXCEPT !.sent[i].body = body]})

DeleteMessage(a, i) == Ask(a, {[a EXCEPT !.sent[i].body = Revoked]})

SendTyping(a, active) == Ask(a, {[a EXCEPT !.typing = active]})

\* The answer about every number; the limiter may refuse.
IsOnWhatsApp(a) == Ask(a, {a})

SendPoll(a, question) == Post(a, question, TRUE, TRUE)

\* A vote on a cached poll replaces the one before it.
SendPollVote(a, options) == Ask(a, {[a EXCEPT !.vote = options]})

SendContactCard(a, name) == Post(a, name, TRUE, TRUE)

\* A history request is a message to the user's own phone, which answers each one
\* later (CacheReads).
RequestHistorySync(a) ==
    IF a.asked = MaxAsked THEN Refused(a) ELSE Ask(a, {[a EXCEPT !.asked = @ + 1]})

\* Download: a file that is cached needs no connection.
Download(a) ==
    {[ok |-> a.downloaded, to |-> a]}
        \union IF a.online THEN {[ok |-> TRUE, to |-> [a EXCEPT !.downloaded = TRUE]]} ELSE {}

\* Store queries and GetPollResults read the cache alone.
ReadCache(a) == {[ok |-> TRUE, to |-> a]}
===============================================================================
