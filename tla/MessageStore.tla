------------------------------ MODULE MessageStore ----------------------------
(***************************************************************************)
(* The message cache of internal/store and its three writers:              *)
(*   the event handler of internal/client/events.go, one event at a time;  *)
(*   history sync, which stores a conversation while events go on;         *)
(*   tool calls that cache what they sent (persistSent), and SendPoll,     *)
(*   which attaches the options of its poll afterwards.                    *)
(* Every store call is one SQL statement, hence one step; nothing holds    *)
(* them together.  WhatsApp may deliver an event late, out of order or     *)
(* again.  A person has a phone-number and a LID address; the library's    *)
(* table of persons whose two addresses are known does not change here.    *)
(* Names, media columns and contents are left out.                         *)
(***************************************************************************)
EXTENDS Integers, Sequences, FiniteSets

CONSTANTS
    Person, Group,  \* who one can write to, and group chats
    Mapped,         \* persons whose LID is in whatsmeow_lid_map
    Option,         \* the options of every poll
    Events,         \* events that WhatsApp may deliver
    Conversations,  \* the histories it may send: sequences of events of a chat
    Calls,          \* sends of this daemon: [id, to, poll]
    Outcome,        \* how a write may end: {TRUE} or BOOLEAN
    MaxCrashes, Horizon   \* bounds

Direct == [who : Person, form : {"pn", "lid"}]
Chat == Group \union Direct
Sender == [who : Person, form : {"pn", "lid"}, device : {0, 1}]
Id == {e.id : e \in Events} \union {c.id : c \in Calls}

\* A vote carries the id of its poll, and what it picks.
Event == [kind : {"text", "poll", "vote"}, id : Id, chat : Chat, from : Sender,
          at : Nat, picks : SUBSET Option]

ASSUME StoreAssumption ==
    /\ Mapped \subseteq Person
    /\ Events \subseteq Event
    /\ Conversations \subseteq Seq(Events)
    /\ \A b \in Conversations : b # <<>> /\ \A i \in DOMAIN b : b[i].chat = b[1].chat
    /\ \A c \in Calls : c.to \in Chat /\ c.poll \in BOOLEAN
    /\ Outcome \subseteq BOOLEAN
    /\ MaxCrashes \in Nat /\ Horizon \in Nat

\* Message ids are unique: no text has the id of a poll, and no message that is
\* received has the id of one that is sent, nor do two sends share one.
ASSUME IdAssumption ==
    /\ \A e, f \in Events : e.kind = "text" /\ f.kind = "poll" => e.id # f.id
    /\ \A e \in Events, c \in Calls : e.kind # "vote" => e.id # c.id
    /\ \A c, d \in Calls : c.id = d.id => c = d

VARIABLES
    now,
    chats,      \* table chats: last_message_time by jid
    rows,       \* table messages, with whether poll_options_json is set
    votes,      \* table poll_votes
    live,       \* what the event handler is doing
    sync,       \* the part of a conversation still to be stored
    calls,      \* where each call is, and the time it took for its rows
    heard,      \* history: the votes handed to the store
    tallied,    \* history: polls whose options the last write to them set
    crashes

tables == <<chats, rows, votes>>
ghosts == <<heard, tallied>>
vars == <<now, tables, live, sync, calls, ghosts, crashes>>

\* A chat without a row: no event has that time.
NoChat == -1
Idle == [at |-> "idle"]
Ready == [at |-> "ready", now |-> 0]
Done == [at |-> "done", now |-> 0]
NoSync == [chat |-> Idle, left |-> <<>>]

\* ResolveLIDToJID of a chat and of a sender; a resolved sender has no device.
ResolveChat(chat) ==
    IF chat \in Direct /\ chat.form = "lid" /\ chat.who \in Mapped
    THEN [chat EXCEPT !.form = "pn"]
    ELSE chat

ResolveSender(from) ==
    IF from.form = "lid" /\ from.who \in Mapped
    THEN [who |-> from.who, form |-> "pn", device |-> 0]
    ELSE from

\* Bug: the peer is believed.
Unclamped(at) == at

\* The clamp of a peer's timestamp.
ClampToNow(at) == IF at > now THEN now ELSE at

-------------------------------------------------------------------------------
(* The statements of internal/store.                                       *)

StoreChat(chat, at) == chats' = [chats EXCEPT ![chat] = at]

SameRow(r, id, chat) == r.id = id /\ r.chat = chat

\* Bug: INSERT without the primary key.
StoreMessageAnew(id, chat, at) ==
    rows' = rows \union {[id |-> id, chat |-> chat, at |-> at, options |-> FALSE]}

\* INSERT OR REPLACE: the new row has no poll options.  The foreign key makes
\* it fail when the chat has no row.
StoreMessage(id, chat, at) ==
    rows' = {r \in rows : ~SameRow(r, id, chat)}
            \union {[id |-> id, chat |-> chat, at |-> at, options |-> FALSE]}

\* UPDATE: a no-op without the row.
StorePollMetadata(id, chat) ==
    rows' = {IF SameRow(r, id, chat) THEN [r EXCEPT !.options = TRUE] ELSE r : r \in rows}

HasPollOptions(id, chat) == \E r \in rows : SameRow(r, id, chat) /\ r.options

SameVote(v, w) == v.poll = w.poll /\ v.chat = w.chat /\ v.voter = w.voter

\* Bug: the WHERE clause is missing.
StorePollVoteAlways(v) == votes' = {w \in votes : ~SameVote(v, w)} \union {v}

\* ON CONFLICT DO UPDATE unless the stored vote is newer.
StorePollVote(v) ==
    LET stored == {w \in votes : SameVote(v, w)} IN
    votes' = IF \E w \in stored : w.at > v.at THEN votes ELSE (votes \ stored) \union {v}

-------------------------------------------------------------------------------

Init ==
    /\ now = 0
    /\ chats = [c \in Chat |-> NoChat] /\ rows = {} /\ votes = {}
    /\ live = Idle /\ sync = NoSync /\ calls = [c \in Calls |-> Ready]
    /\ heard = {} /\ tallied = {}
    /\ crashes = 0

\* handleMessage up to StoreChat.  A vote may carry a time that has not come.
HandleMessage(e) ==
    /\ live = Idle
    /\ e.kind = "vote" \/ e.at <= now
    /\ \E ok \in Outcome :
          IF ok THEN StoreChat(ResolveChat(e.chat), e.at) ELSE UNCHANGED chats
    /\ live' = [at |-> IF e.kind = "vote" THEN "lookup" ELSE "row", event |-> e]
    /\ UNCHANGED <<now, rows, votes, sync, calls, ghosts, crashes>>

\* StoreMessage of an event; an error ends the handler.
HandleRow ==
    /\ live.at = "row"
    /\ LET e == live.event
           chat == ResolveChat(e.chat) IN
       \E ok \in Outcome :
          IF ok /\ chats[chat] # NoChat
          THEN /\ StoreMessage(e.id, chat, e.at)
               /\ live' = IF e.kind = "poll" THEN [live EXCEPT !.at = "metadata"] ELSE Idle
          ELSE live' = Idle /\ UNCHANGED rows
    /\ UNCHANGED <<now, chats, votes, sync, calls, ghosts, crashes>>

\* The options of a poll just stored; an error is logged.
HandleMetadata ==
    /\ live.at = "metadata"
    /\ LET poll == <<live.event.id, ResolveChat(live.event.chat)>> IN
       \E ok \in Outcome :
          IF ok
          THEN /\ StorePollMetadata(poll[1], poll[2])
               /\ tallied' = tallied \union {poll}
          ELSE tallied' = tallied \ {poll} /\ UNCHANGED rows
    /\ live' = Idle
    /\ UNCHANGED <<now, chats, votes, sync, calls, heard, crashes>>

\* handlePollVote: GetPollOptions; a vote that cannot be decrypted or is for an
\* unknown poll is dropped.
HandleVoteLookup ==
    /\ live.at = "lookup"
    /\ \/ /\ HasPollOptions(live.event.id, ResolveChat(live.event.chat))
          /\ live' = [live EXCEPT !.at = "vote"]
       \/ live' = Idle
    /\ UNCHANGED <<now, tables, sync, calls, ghosts, crashes>>

\* handlePollVote: the vote is recorded under the time it claims, at most now.
HandleVote ==
    /\ live.at = "vote"
    /\ LET e == live.event
           vote == [poll |-> e.id, chat |-> ResolveChat(e.chat),
                    voter |-> ResolveSender(e.from), picks |-> e.picks,
                    at |-> ClampToNow(e.at)] IN
       \E ok \in Outcome :
          IF ok THEN StorePollVote(vote) /\ heard' = heard \union {vote}
                ELSE UNCHANGED <<votes, heard>>
    /\ live' = Idle
    /\ UNCHANGED <<now, chats, rows, sync, calls, tallied, crashes>>

\* Bug: the conversation is stored under the address it came with.
SyncChatAsTyped(b) ==
    /\ sync = NoSync
    /\ \A i \in DOMAIN b : b[i].at <= now
    /\ StoreChat(b[1].chat, b[1].at)
    /\ sync' = [chat |-> b[1].chat, left |-> b]
    /\ UNCHANGED <<now, rows, votes, live, calls, ghosts, crashes>>

\* handleHistorySync of a conversation: the chat takes the time of the first
\* message, whatever it had before.
SyncChat(b) ==
    /\ sync = NoSync
    /\ \A i \in DOMAIN b : b[i].at <= now
    /\ \E ok \in Outcome :
          IF ok THEN StoreChat(ResolveChat(b[1].chat), b[1].at) ELSE UNCHANGED chats
    /\ sync' = [chat |-> ResolveChat(b[1].chat), left |-> b]
    /\ UNCHANGED <<now, rows, votes, live, calls, ghosts, crashes>>

\* Bug: history stores a row for a poll, as handleMessage does, without options.
SyncRowOfPoll ==
    /\ sync # NoSync
    /\ chats[sync.chat] # NoChat
    /\ StoreMessage(Head(sync.left).id, sync.chat, Head(sync.left).at)
    /\ sync' = IF Len(sync.left) = 1 THEN NoSync ELSE [sync EXCEPT !.left = Tail(@)]
    /\ UNCHANGED <<now, chats, votes, live, calls, ghosts, crashes>>

\* The next message of the conversation; polls and votes have no content and
\* are skipped.
SyncRow ==
    /\ sync # NoSync
    /\ LET e == Head(sync.left) IN
       \E ok \in Outcome :
          IF ok /\ e.kind = "text" /\ chats[sync.chat] # NoChat
          THEN StoreMessage(e.id, sync.chat, e.at)
          ELSE UNCHANGED rows
    /\ sync' = IF Len(sync.left) = 1 THEN NoSync ELSE [sync EXCEPT !.left = Tail(@)]
    /\ UNCHANGED <<now, chats, votes, live, calls, ghosts, crashes>>

\* The wire send succeeds; persistSent takes the local time once, for the chat
\* and the message.
SentChat(c) ==
    /\ calls[c] = Ready
    /\ \E ok \in Outcome :
          IF ok THEN StoreChat(ResolveChat(c.to), now) ELSE UNCHANGED chats
    /\ calls' = [calls EXCEPT ![c] = [at |-> "row", now |-> now]]
    /\ UNCHANGED <<now, rows, votes, live, sync, ghosts, crashes>>

\* persistSent stores the message; SendPoll goes on even if that failed.
SentRow(c) ==
    /\ calls[c].at = "row"
    /\ \E ok \in Outcome :
          IF ok /\ chats[ResolveChat(c.to)] # NoChat
          THEN StoreMessage(c.id, ResolveChat(c.to), calls[c].now)
          ELSE UNCHANGED rows
    /\ calls' = [calls EXCEPT ![c] = IF c.poll THEN [at |-> "metadata", now |-> 0] ELSE Done]
    /\ UNCHANGED <<now, chats, votes, live, sync, ghosts, crashes>>

\* SendPoll attaches the options, to the chat as it was addressed.
SentMetadata(c) ==
    /\ calls[c].at = "metadata"
    /\ \E ok \in Outcome :
          IF ok
          THEN /\ StorePollMetadata(c.id, c.to)
               /\ tallied' = IF \E r \in rows : SameRow(r, c.id, c.to)
                             THEN tallied \union {<<c.id, c.to>>} ELSE tallied
          ELSE UNCHANGED <<rows, tallied>>
    /\ calls' = [calls EXCEPT ![c] = Done]
    /\ UNCHANGED <<now, chats, votes, live, sync, heard, crashes>>

\* The daemon dies and comes back: the tables stay.  A poll whose row was just
\* being stored again loses its options.
Crash ==
    /\ crashes < MaxCrashes /\ crashes' = crashes + 1
    /\ tallied' = IF live.at = "metadata"
                  THEN tallied \ {<<live.event.id, ResolveChat(live.event.chat)>>}
                  ELSE tallied
    /\ live' = Idle /\ sync' = NoSync
    /\ calls' = [c \in Calls |-> IF calls[c] = Ready THEN Ready ELSE Done]
    /\ UNCHANGED <<now, tables, heard>>

Tick ==
    /\ now < Horizon /\ now' = now + 1
    /\ UNCHANGED <<tables, live, sync, calls, ghosts, crashes>>

Next ==
    \/ \E e \in Events : HandleMessage(e)
    \/ HandleRow
    \/ HandleMetadata
    \/ HandleVoteLookup
    \/ HandleVote
    \/ \E b \in Conversations : SyncChat(b)
    \/ SyncRow
    \/ \E c \in Calls : SentChat(c) \/ SentRow(c) \/ SentMetadata(c)
    \/ Crash
    \/ Tick

Spec == Init /\ [][Next]_vars

-------------------------------------------------------------------------------

Row == [id : Id, chat : Chat, at : Nat, options : BOOLEAN]
Vote == [poll : Id, chat : Chat, voter : Sender, picks : SUBSET Option, at : Nat]

TypeOK ==
    /\ now \in 0..Horizon
    /\ chats \in [Chat -> Nat \union {NoChat}]
    /\ rows \in SUBSET Row
    /\ \A r, s \in rows : SameRow(r, s.id, s.chat) => r = s
    /\ votes \in SUBSET Vote /\ heard \in SUBSET Vote
    /\ \A v, w \in votes : SameVote(v, w) => v = w
    /\ live = Idle \/ live \in [at : {"row", "metadata", "lookup", "vote"}, event : Events]
    /\ sync = NoSync \/ sync \in [chat : Chat, left : Seq(Events) \ {<<>>}]
    /\ calls \in [Calls -> [at : {"ready", "row", "metadata", "done"}, now : 0..Horizon]]
    /\ tallied \in SUBSET (Id \X Chat)
    /\ crashes \in 0..MaxCrashes

\* No writer is in the middle of anything.
Rest == live = Idle /\ sync = NoSync /\ \A c \in Calls : calls[c] \in {Ready, Done}

\* "StorePollVote records a voter's latest selection for a poll" (poll.go:73):
\* however votes are repeated and reordered, a person who voted is counted
\* once, with the selection of the latest time the store was told of.
VoteStands ==
    \A poll \in Id, chat \in Chat, p \in Person :
        LET OfPerson(S) == {v \in S : v.poll = poll /\ v.chat = chat /\ v.voter.who = p} IN
        OfPerson(heard) # {} =>
            \E v \in OfPerson(heard) :
                /\ {w.picks : w \in OfPerson(votes)} = {v.picks}
                /\ Cardinality(OfPerson(votes)) = 1
                /\ \A w \in OfPerson(heard) : w.at <= v.at

\* "so a malicious far-future value can't permanently suppress later legitimate
\* updates" (events.go:517): a vote cast from now on takes effect.
NoVoterIsLockedOut == \A v \in votes : v.at <= now

\* A poll that was given its options keeps them, although every re-delivery
\* replaces its row and history sync may come across it: at rest only a failed
\* write, or a crash between row and options, has taken them away.
PollStaysTallied == Rest => \A poll \in tallied : HasPollOptions(poll[1], poll[2])

\* "convert LID to standard JID for direct chats" (events.go:88): whoever writes
\* and under whichever address, the messages of a mapped person share a chat.
OneChatPerPerson ==
    \A c \in Direct : c.form = "lid" /\ c.who \in Mapped =>
        chats[c] = NoChat /\ \A r \in rows : r.chat # c

===============================================================================
