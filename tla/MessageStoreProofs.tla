--------------------------- MODULE MessageStoreProofs --------------------------
(***************************************************************************)
(* Proofs about MessageStore, for any traffic of events, histories and     *)
(* calls, with writes that fail and crashes.  What the statements of the   *)
(* store do to its tables is stated once, in the lemmas of the first part. *)
(***************************************************************************)
EXTENDS MessageStore, FiniteSetTheorems, TLAPS

KeysUnique == \A r, s \in rows : SameRow(r, s.id, s.chat) => r = s
VotersUnique == \A v, w \in votes : SameVote(v, w) => v = w

\* A direct chat is under the number of its person, if that is known.
Resolved(chat) == ~(chat \in Direct /\ chat.form = "lid" /\ chat.who \in Mapped)

LEMMA ResolveChatResolves ==
    ASSUME NEW chat \in Chat
    PROVE  ResolveChat(chat) \in Chat /\ Resolved(ResolveChat(chat))
<1>1. CASE chat \in Direct /\ chat.form = "lid" /\ chat.who \in Mapped
  <2> DEFINE c == [chat EXCEPT !.form = "pn"]
  <2>1. c \in Direct /\ c.form = "pn"
    BY <1>1 DEF Direct
  <2> QED
    BY <1>1, <2>1 DEF ResolveChat, Resolved, Chat
<1>2. CASE Resolved(chat)
  BY <1>2 DEF ResolveChat, Resolved
<1> QED
  BY <1>1, <1>2 DEF Resolved

LEMMA ResolveSenderKeepsWho ==
    ASSUME NEW from \in Sender
    PROVE  ResolveSender(from) \in Sender /\ ResolveSender(from).who = from.who
BY DEF ResolveSender, Sender

-------------------------------------------------------------------------------
(* The statements of the store.                                            *)

\* A message replaces the row of its key and no other.
LEMMA StoreMessageRows ==
    ASSUME rows \in SUBSET Row, KeysUnique, NEW id \in Id, NEW chat \in Chat, NEW at \in Nat,
           StoreMessage(id, chat, at)
    PROVE  /\ rows' \in SUBSET Row /\ KeysUnique'
           /\ \E r \in rows' : SameRow(r, id, chat)
           /\ \A r \in rows : ~SameRow(r, id, chat) => r \in rows'
           /\ \A r \in rows' : r \in rows \/ r.chat = chat
<1> DEFINE new == [id |-> id, chat |-> chat, at |-> at, options |-> FALSE]
<1>1. rows' = {r \in rows : ~SameRow(r, id, chat)} \union {new}
  BY DEF StoreMessage
<1>2. new \in Row /\ SameRow(new, id, chat) /\ new.chat = chat
  BY DEF Row, SameRow
<1>3. \A r \in rows : ~SameRow(r, id, chat) => ~SameRow(r, new.id, new.chat)
                                               /\ ~SameRow(new, r.id, r.chat)
  BY DEF SameRow
<1> HIDE DEF new
<1> QED
  BY <1>1, <1>2, <1>3 DEF KeysUnique

\* Setting the options of a poll keeps every row, and the options of the others.
LEMMA StorePollMetadataRows ==
    ASSUME rows \in SUBSET Row, KeysUnique, NEW id, NEW chat, StorePollMetadata(id, chat)
    PROVE  /\ rows' \in SUBSET Row /\ KeysUnique'
           /\ \A i \in Id, c \in Chat : HasPollOptions(i, c) => HasPollOptions(i, c)'
           /\ \A r \in rows : SameRow(r, id, chat) => HasPollOptions(id, chat)'
           /\ \A i, c : (\E r \in rows : SameRow(r, i, c)) => \E r \in rows' : SameRow(r, i, c)
           /\ \A r \in rows' : \E s \in rows : r.chat = s.chat
<1> DEFINE set(r) == IF SameRow(r, id, chat) THEN [r EXCEPT !.options = TRUE] ELSE r
<1>1. rows' = {set(r) : r \in rows}
  BY DEF StorePollMetadata
<1>2. ASSUME NEW r \in Row
      PROVE  /\ set(r) \in Row /\ set(r).id = r.id /\ set(r).chat = r.chat
             /\ r.options => set(r).options
             /\ SameRow(r, id, chat) => set(r).options = TRUE
  BY DEF Row
<1> HIDE DEF set
<1>3. rows' \in SUBSET Row /\ \A r \in rows : set(r) \in rows'
  BY <1>1, <1>2
<1>4. ASSUME NEW a \in rows', NEW b \in rows', SameRow(a, b.id, b.chat) PROVE a = b
  <2>1. PICK r \in rows : a = set(r)
    BY <1>1
  <2>2. PICK s \in rows : b = set(s)
    BY <1>1
  <2>3. SameRow(r, s.id, s.chat)
    BY <1>2, <1>4, <2>1, <2>2 DEF SameRow
  <2> QED
    BY <2>1, <2>2, <2>3 DEF KeysUnique
<1>5. ASSUME NEW i, NEW c, NEW r \in rows, SameRow(r, i, c)
      PROVE  set(r) \in rows' /\ SameRow(set(r), i, c)
  BY <1>2, <1>3, <1>5 DEF SameRow
<1>6. ASSUME NEW i \in Id, NEW c \in Chat, HasPollOptions(i, c) PROVE HasPollOptions(i, c)'
  <2>1. PICK r \in rows : SameRow(r, i, c) /\ r.options
    BY <1>6 DEF HasPollOptions
  <2> QED
    BY <1>2, <1>5, <2>1 DEF HasPollOptions
<1>7. ASSUME NEW r \in rows, SameRow(r, id, chat) PROVE HasPollOptions(id, chat)'
  BY <1>2, <1>5, <1>7 DEF HasPollOptions
<1>8. \A r \in rows' : \E s \in rows : r.chat = s.chat
  BY <1>1, <1>2
<1> QED
  BY <1>3, <1>4, <1>5, <1>6, <1>7, <1>8 DEF KeysUnique

\* A vote is stored unless the stored one of its voter is newer; the stored vote
\* of a voter never gets older.
LEMMA StorePollVoteVotes ==
    ASSUME votes \in SUBSET Vote, VotersUnique, NEW v \in Vote, StorePollVote(v)
    PROVE  /\ votes' \in SUBSET Vote /\ VotersUnique'
           /\ votes' \subseteq votes \union {v}
           /\ \A w \in votes \union {v} : \E x \in votes' : SameVote(x, w) /\ w.at <= x.at
<1> DEFINE stored == {w \in votes : SameVote(v, w)}
<1>1. \A w \in Vote : SameVote(w, w) /\ w.at <= w.at
  BY DEF SameVote, Vote
<1>2. \A w, x \in Vote : SameVote(w, x) => SameVote(x, w)
  BY DEF SameVote
<1>a. \A w, x, y \in Vote : SameVote(w, x) /\ SameVote(w, y) => SameVote(x, y)
  BY DEF SameVote
<1>3. CASE \E w \in stored : w.at > v.at
  <2>1. votes' = votes
    BY <1>3 DEF StorePollVote
  <2>2. PICK w \in votes : SameVote(v, w) /\ w.at > v.at
    BY <1>3
  <2>3. SameVote(w, v) /\ v.at <= w.at
    BY <1>2, <2>2 DEF Vote
  <2> QED
    BY <1>1, <2>1, <2>2, <2>3 DEF VotersUnique
<1>4. CASE ~\E w \in stored : w.at > v.at
  <2>1. votes' = (votes \ stored) \union {v}
    BY <1>4 DEF StorePollVote
  <2>2. VotersUnique'
    BY <1>2, <2>1 DEF VotersUnique
  <2>3. ASSUME NEW w \in votes PROVE \E x \in votes' : SameVote(x, w) /\ w.at <= x.at
    <3>1. CASE w \in stored
      <4>1. w.at <= v.at
        BY <1>4, <3>1 DEF Vote
      <4> QED
        BY <2>1, <3>1, <4>1
    <3>2. CASE w \notin stored
      BY <1>1, <2>1, <3>2
    <3> QED
      BY <3>1, <3>2
  <2> QED
    BY <1>1, <2>1, <2>2, <2>3
<1> QED
  BY <1>3, <1>4

-------------------------------------------------------------------------------
(* Types, and what the event handler is doing.                             *)

LiveOK ==
    /\ live.at = "row" => live.event.kind # "vote"
    /\ live.at = "metadata" =>
          /\ live.event.kind = "poll"
          /\ \E r \in rows : SameRow(r, live.event.id, ResolveChat(live.event.chat))
    /\ live.at \in {"lookup", "vote"} => live.event.kind = "vote"

TypeInv == TypeOK /\ LiveOK

LEMMA EventTypes ==
    ASSUME NEW e \in Events
    PROVE  /\ e.kind \in {"text", "poll", "vote"} /\ e.id \in Id /\ e.chat \in Chat
           /\ e.from \in Sender /\ e.at \in Nat /\ e.picks \in SUBSET Option
           /\ ResolveChat(e.chat) \in Chat
<1>1. e \in Event
  BY StoreAssumption DEF StoreAssumption
<1> QED
  BY <1>1, ResolveChatResolves DEF Event

LEMMA CallTypes ==
    ASSUME NEW c \in Calls
    PROVE  c.id \in Id /\ c.to \in Chat /\ ResolveChat(c.to) \in Chat
BY StoreAssumption, ResolveChatResolves DEF StoreAssumption, Id

LEMMA ConversationTypes ==
    ASSUME NEW b \in Conversations
    PROVE  b \in Seq(Events) /\ b # <<>> /\ b[1] \in Events
<1>1. b \in Seq(Events) /\ b # <<>>
  BY StoreAssumption DEF StoreAssumption
<1> QED
  BY <1>1

\* The vote an event stands for.
VoteOf(e) == [poll |-> e.id, chat |-> ResolveChat(e.chat), voter |-> ResolveSender(e.from),
              picks |-> e.picks, at |-> ClampToNow(e.at)]

LEMMA VoteOfType ==
    ASSUME NEW e \in Events, now \in Nat
    PROVE  /\ VoteOf(e) \in Vote /\ VoteOf(e).at <= now
           /\ VoteOf(e).voter = ResolveSender(e.from)
<1>1. ClampToNow(e.at) \in Nat /\ ClampToNow(e.at) <= now
  BY EventTypes DEF ClampToNow
<1> QED
  BY <1>1, EventTypes, ResolveSenderKeepsWho DEF VoteOf, Vote

\* The conversation shrinks by its head, or is finished.
LEMMA SyncShrinks ==
    ASSUME NEW s \in [chat : Chat, left : Seq(Events) \ {<<>>}]
    PROVE  /\ Head(s.left) \in Events
           /\ Len(s.left) # 1 =>
                 [s EXCEPT !.left = Tail(@)] \in [chat : Chat, left : Seq(Events) \ {<<>>}]
           /\ [s EXCEPT !.left = Tail(@)].chat = s.chat
<1> DEFINE q == s.left
<1>1. q \in Seq(Events) /\ q # <<>>
  OBVIOUS
<1>2. Head(q) \in Events /\ Tail(q) \in Seq(Events) /\ Len(Tail(q)) = Len(q) - 1
      /\ Len(q) \in Nat \ {0}
  BY <1>1
<1>3. Len(q) # 1 => Tail(q) # <<>>
  <2> DEFINE t == Tail(q)
  <2>1. Len(t) = Len(q) - 1
    BY <1>2
  <2> HIDE DEF t, q
  <2>2. t = <<>> => Len(t) = 0
    OBVIOUS
  <2>3. Len(q) # 1 => t # <<>>
    BY <1>2, <2>1, <2>2
  <2> QED
    BY <2>3 DEF t
<1> QED
  BY <1>2, <1>3

LEMMA InitType == Init => TypeInv
<1> SUFFICES ASSUME Init PROVE TypeInv
  OBVIOUS
<1>1. calls \in [Calls -> [at : {"ready", "row", "metadata", "done"}, now : 0..Horizon]]
  BY StoreAssumption DEF Init, Ready, StoreAssumption
<1>2. chats \in [Chat -> Nat \union {NoChat}] /\ now \in 0..Horizon /\ crashes \in 0..MaxCrashes
  BY StoreAssumption DEF Init, StoreAssumption
<1> QED
  BY <1>1, <1>2 DEF Init, TypeInv, TypeOK, LiveOK, Idle

\* The steps of the event handler.
LEMMA HandlerTypeStep ==
    ASSUME TypeInv,
           \/ \E e \in Events : HandleMessage(e)
           \/ HandleRow \/ HandleMetadata \/ HandleVoteLookup \/ HandleVote
    PROVE  TypeInv'
<1> USE DEF TypeInv, ghosts, tables
<1>t. /\ now \in Nat /\ chats \in [Chat -> Nat \union {NoChat}]
      /\ rows \in SUBSET Row /\ KeysUnique /\ votes \in SUBSET Vote /\ heard \in SUBSET Vote
      /\ VotersUnique /\ tallied \in SUBSET (Id \X Chat)
      /\ live.at # "idle" =>
            live \in [at : {"row", "metadata", "lookup", "vote"}, event : Events]
  BY DEF TypeOK, KeysUnique, VotersUnique, Idle
<1>1. ASSUME NEW e \in Events, HandleMessage(e) PROVE TypeInv'
  <2>1. live' \in [at : {"row", "metadata", "lookup", "vote"}, event : Events]
        /\ LiveOK'
    BY <1>1, EventTypes DEF HandleMessage, LiveOK
  <2>2. chats' \in [Chat -> Nat \union {NoChat}]
    BY <1>1, <1>t, EventTypes DEF HandleMessage, StoreChat
  <2> QED
    BY <1>1, <2>1, <2>2 DEF HandleMessage, TypeOK
<1>2. CASE HandleRow
  <2> DEFINE e == live.event
             chat == ResolveChat(e.chat)
  <2>0. live.at = "row" /\ e \in Events /\ e.kind \in {"text", "poll"}
    BY <1>2, <1>t, EventTypes DEF HandleRow, LiveOK
  <2>1. CASE StoreMessage(e.id, chat, e.at)
    <3>1. /\ rows' \in SUBSET Row /\ KeysUnique'
          /\ \E r \in rows' : SameRow(r, e.id, chat)
      BY <1>t, <2>0, <2>1, EventTypes, StoreMessageRows
    <3>2. /\ live' = Idle \/ live' \in [at : {"row", "metadata", "lookup", "vote"}, event : Events]
          /\ LiveOK'
      BY <1>2, <1>t, <2>0, <3>1 DEF HandleRow, LiveOK, Idle
    <3> QED
      BY <1>2, <3>1, <3>2 DEF HandleRow, TypeOK, KeysUnique
  <2>2. CASE live' = Idle /\ UNCHANGED rows
    BY <1>2, <2>2 DEF HandleRow, TypeOK, LiveOK, Idle
  <2> QED
    BY <1>2, <2>1, <2>2 DEF HandleRow
<1>3. CASE HandleMetadata
  <2> DEFINE poll == <<live.event.id, ResolveChat(live.event.chat)>>
  <2>0. poll \in Id \X Chat /\ live' = Idle
    BY <1>3, <1>t, EventTypes DEF HandleMetadata
  <2>1. rows' \in SUBSET Row /\ KeysUnique'
    <3>1. CASE StorePollMetadata(poll[1], poll[2])
      BY <1>t, <3>1, StorePollMetadataRows
    <3>2. CASE UNCHANGED rows
      BY <1>t, <3>2 DEF KeysUnique
    <3> QED
      BY <1>3, <3>1, <3>2 DEF HandleMetadata
  <2>2. tallied' \in SUBSET (Id \X Chat)
    BY <1>3, <1>t, <2>0 DEF HandleMetadata
  <2> QED
    BY <1>3, <2>0, <2>1, <2>2 DEF HandleMetadata, TypeOK, LiveOK, Idle, KeysUnique
<1>4. CASE HandleVoteLookup
  BY <1>4, <1>t DEF HandleVoteLookup, TypeOK, LiveOK, Idle
<1>5. CASE HandleVote
  <2> DEFINE v == VoteOf(live.event)
  <2>1. v \in Vote
    BY <1>5, <1>t, VoteOfType DEF HandleVote
  <2>2. votes' \in SUBSET Vote /\ VotersUnique' /\ heard' \in SUBSET Vote
    <3>1. CASE StorePollVote(v) /\ heard' = heard \union {v}
      BY <1>t, <2>1, <3>1, StorePollVoteVotes
    <3>2. CASE UNCHANGED <<votes, heard>>
      BY <1>t, <3>2 DEF VotersUnique
    <3> QED
      BY <1>5, <3>1, <3>2 DEF HandleVote, VoteOf
  <2> QED
    BY <1>5, <2>2 DEF HandleVote, TypeOK, LiveOK, Idle, VotersUnique
<1> QED
  BY <1>1, <1>2, <1>3, <1>4, <1>5

\* The steps of history sync.
LEMMA SyncTypeStep ==
    ASSUME TypeInv, (\E b \in Conversations : SyncChat(b)) \/ SyncRow
    PROVE  TypeInv'
<1> USE DEF TypeInv, ghosts, tables
<1>t. /\ chats \in [Chat -> Nat \union {NoChat}] /\ rows \in SUBSET Row /\ KeysUnique
      /\ sync # NoSync => sync \in [chat : Chat, left : Seq(Events) \ {<<>>}]
  BY DEF TypeOK, KeysUnique
<1>1. ASSUME NEW b \in Conversations, SyncChat(b) PROVE TypeInv'
  <2>1. b \in Seq(Events) /\ b # <<>> /\ b[1] \in Events
    BY ConversationTypes
  <2>2. sync' \in [chat : Chat, left : Seq(Events) \ {<<>>}]
    BY <1>1, <2>1, EventTypes DEF SyncChat
  <2>3. chats' \in [Chat -> Nat \union {NoChat}]
    BY <1>1, <1>t, <2>1, EventTypes DEF SyncChat, StoreChat
  <2> QED
    BY <1>1, <2>2, <2>3 DEF SyncChat, TypeOK, LiveOK
<1>2. CASE SyncRow
  <2> DEFINE e == Head(sync.left)
  <2>1. /\ e \in Events /\ sync.chat \in Chat
        /\ sync' = NoSync \/ sync' \in [chat : Chat, left : Seq(Events) \ {<<>>}]
    BY <1>2, <1>t, SyncShrinks DEF SyncRow
  <2>2. CASE StoreMessage(e.id, sync.chat, e.at)
    <3>1. /\ rows' \in SUBSET Row /\ KeysUnique'
          /\ \E r \in rows' : SameRow(r, e.id, sync.chat)
          /\ \A r \in rows : ~SameRow(r, e.id, sync.chat) => r \in rows'
      BY <1>t, <2>1, <2>2, EventTypes, StoreMessageRows
    <3>2. \A i, c : (\E r \in rows : SameRow(r, i, c)) => \E r \in rows' : SameRow(r, i, c)
      BY <3>1 DEF SameRow
    <3> QED
      BY <1>2, <2>1, <3>1, <3>2 DEF SyncRow, TypeOK, LiveOK, KeysUnique
  <2>3. CASE UNCHANGED rows
    BY <1>2, <2>1, <2>3 DEF SyncRow, TypeOK, LiveOK
  <2> QED
    BY <1>2, <2>2, <2>3 DEF SyncRow
<1> QED
  BY <1>1, <1>2

\* The steps of a call.
LEMMA CallTypeStep ==
    ASSUME TypeInv, NEW c \in Calls, SentChat(c) \/ SentRow(c) \/ SentMetadata(c)
    PROVE  TypeInv'
<1> USE DEF TypeInv, ghosts, tables
<1>t. /\ chats \in [Chat -> Nat \union {NoChat}] /\ rows \in SUBSET Row /\ KeysUnique
      /\ now \in 0..Horizon /\ 0 \in 0..Horizon /\ tallied \in SUBSET (Id \X Chat)
      /\ calls \in [Calls -> [at : {"ready", "row", "metadata", "done"}, now : 0..Horizon]]
      /\ calls[c].now \in Nat
  BY StoreAssumption DEF StoreAssumption, TypeOK, KeysUnique
<1>c. c.id \in Id /\ c.to \in Chat /\ ResolveChat(c.to) \in Chat
  BY CallTypes
<1>1. CASE SentChat(c)
  <2>1. chats' \in [Chat -> Nat \union {NoChat}]
    BY <1>1, <1>t, <1>c DEF SentChat, StoreChat
  <2>2. calls' \in [Calls -> [at : {"ready", "row", "metadata", "done"}, now : 0..Horizon]]
    BY <1>1, <1>t DEF SentChat
  <2> QED
    BY <1>1, <2>1, <2>2 DEF SentChat, TypeOK, LiveOK
<1>2. CASE SentRow(c)
  <2>1. calls' \in [Calls -> [at : {"ready", "row", "metadata", "done"}, now : 0..Horizon]]
    BY <1>2, <1>t DEF SentRow, Done
  <2>2. CASE StoreMessage(c.id, ResolveChat(c.to), calls[c].now)
    <3>1. /\ rows' \in SUBSET Row /\ KeysUnique'
          /\ \E r \in rows' : SameRow(r, c.id, ResolveChat(c.to))
          /\ \A r \in rows : ~SameRow(r, c.id, ResolveChat(c.to)) => r \in rows'
      BY <1>t, <1>c, <2>2, StoreMessageRows
    <3>2. \A i, d : (\E r \in rows : SameRow(r, i, d)) => \E r \in rows' : SameRow(r, i, d)
      BY <3>1 DEF SameRow
    <3> QED
      BY <1>2, <2>1, <3>1, <3>2 DEF SentRow, TypeOK, LiveOK, KeysUnique
  <2>3. CASE UNCHANGED rows
    BY <1>2, <2>1, <2>3 DEF SentRow, TypeOK, LiveOK
  <2> QED
    BY <1>2, <2>2, <2>3 DEF SentRow
<1>3. CASE SentMetadata(c)
  <2>1. calls' \in [Calls -> [at : {"ready", "row", "metadata", "done"}, now : 0..Horizon]]
    BY <1>3, <1>t DEF SentMetadata, Done
  <2>2. tallied' \in SUBSET (Id \X Chat)
    BY <1>3, <1>t, <1>c DEF SentMetadata
  <2>3. /\ rows' \in SUBSET Row /\ KeysUnique'
        /\ \A i, d : (\E r \in rows : SameRow(r, i, d)) => \E r \in rows' : SameRow(r, i, d)
    <3>1. CASE StorePollMetadata(c.id, c.to)
      BY <1>t, <3>1, StorePollMetadataRows
    <3>2. CASE UNCHANGED rows
      BY <1>t, <3>2 DEF KeysUnique
    <3> QED
      BY <1>3, <3>1, <3>2 DEF SentMetadata
  <2> QED
    BY <1>3, <2>1, <2>2, <2>3 DEF SentMetadata, TypeOK, LiveOK, KeysUnique
<1> QED
  BY <1>1, <1>2, <1>3

LEMMA TypeStep == TypeInv /\ [Next]_vars => TypeInv'
<1> SUFFICES ASSUME TypeInv, [Next]_vars PROVE TypeInv'
  OBVIOUS
<1>1. CASE Crash
  <2>1. calls' \in [Calls -> [at : {"ready", "row", "metadata", "done"}, now : 0..Horizon]]
    BY <1>1, StoreAssumption DEF Crash, Ready, Done, StoreAssumption
  <2>2. tallied' \in SUBSET (Id \X Chat)
    BY <1>1 DEF Crash, TypeInv, TypeOK
  <2>3. crashes' \in 0..MaxCrashes
    BY <1>1, StoreAssumption DEF Crash, TypeInv, TypeOK, StoreAssumption
  <2> QED
    BY <1>1, <2>1, <2>2, <2>3 DEF Crash, TypeInv, TypeOK, LiveOK, Idle, tables
<1>2. CASE Tick
  <2>1. now' \in 0..Horizon
    BY <1>2, StoreAssumption DEF Tick, TypeInv, TypeOK, StoreAssumption
  <2> QED
    BY <1>2, <2>1 DEF Tick, TypeInv, TypeOK, LiveOK, tables, ghosts
<1>3. CASE UNCHANGED vars
  BY <1>3 DEF TypeInv, TypeOK, LiveOK, vars, tables, ghosts
<1> QED
  BY <1>1, <1>2, <1>3, HandlerTypeStep, SyncTypeStep, CallTypeStep DEF Next

\* Every reachable state of the store and its writers is of its type; a key has
\* at most one row, and a voter at most one vote on a poll.
THEOREM StoreTypeCorrect == Spec => []TypeOK
BY InitType, TypeStep, PTL DEF Spec, TypeInv

-------------------------------------------------------------------------------
(* One chat per person.                                                    *)

\* Everything is stored, and about to be stored, under resolved chats.
ChatsInv ==
    /\ TypeInv
    /\ sync # NoSync => Resolved(sync.chat)
    /\ \A r \in rows : Resolved(r.chat)
    /\ \A c \in Chat : ~Resolved(c) => chats[c] = NoChat

LEMMA ChatsStep ==
    ASSUME ChatsInv, [Next]_vars
    PROVE  ChatsInv'
<1> USE DEF ghosts, tables
<1>0. TypeInv'
  BY TypeStep DEF ChatsInv
<1>t. /\ chats \in [Chat -> Nat \union {NoChat}] /\ rows \in SUBSET Row /\ KeysUnique
      /\ sync # NoSync => sync \in [chat : Chat, left : Seq(Events) \ {<<>>}]
      /\ live.at # "idle" =>
            live \in [at : {"row", "metadata", "lookup", "vote"}, event : Events]
      /\ \A c \in Calls : calls[c].now \in Nat
  BY StoreAssumption DEF StoreAssumption, ChatsInv, TypeInv, TypeOK, KeysUnique, Idle
<1>1. ASSUME NEW e \in Events, HandleMessage(e) PROVE ChatsInv'
  <2>1. ResolveChat(e.chat) \in Chat /\ Resolved(ResolveChat(e.chat))
    BY EventTypes, ResolveChatResolves
  <2> QED
    BY <1>0, <1>1, <1>t, <2>1 DEF HandleMessage, StoreChat, ChatsInv
<1>2. CASE HandleRow
  <2> DEFINE e == live.event
             chat == ResolveChat(e.chat)
  <2>1. e \in Events /\ e.id \in Id /\ e.at \in Nat /\ chat \in Chat /\ Resolved(chat)
    BY <1>2, <1>t, EventTypes, ResolveChatResolves DEF HandleRow
  <2>2. StoreMessage(e.id, chat, e.at) \/ UNCHANGED rows
    BY <1>2 DEF HandleRow
  <2>3. \A r \in rows' : r \in rows \/ r.chat = chat
    BY <1>t, <2>1, <2>2, StoreMessageRows
  <2> QED
    BY <1>0, <1>2, <2>1, <2>3 DEF HandleRow, ChatsInv
<1>3. CASE HandleMetadata
  <2>1. \A r \in rows' : \E s \in rows : r.chat = s.chat
    BY <1>3, <1>t, StorePollMetadataRows DEF HandleMetadata
  <2> QED
    BY <1>0, <1>3, <2>1 DEF HandleMetadata, ChatsInv, Resolved
<1>4. CASE HandleVoteLookup \/ HandleVote \/ Tick
  BY <1>0, <1>4 DEF HandleVoteLookup, HandleVote, Tick, ChatsInv
<1>5. ASSUME NEW b \in Conversations, SyncChat(b) PROVE ChatsInv'
  <2>1. ResolveChat(b[1].chat) \in Chat /\ Resolved(ResolveChat(b[1].chat))
    BY ConversationTypes, EventTypes, ResolveChatResolves
  <2> QED
    BY <1>0, <1>5, <1>t, <2>1 DEF SyncChat, StoreChat, ChatsInv
<1>6. CASE SyncRow
  <2> DEFINE e == Head(sync.left)
  <2>1. /\ e \in Events /\ e.id \in Id /\ e.at \in Nat /\ sync.chat \in Chat
        /\ Resolved(sync.chat) /\ (sync' = NoSync \/ sync'.chat = sync.chat)
    BY <1>6, <1>t, SyncShrinks, EventTypes DEF SyncRow, ChatsInv
  <2>2. StoreMessage(e.id, sync.chat, e.at) \/ UNCHANGED rows
    BY <1>6 DEF SyncRow
  <2>3. \A r \in rows' : r \in rows \/ r.chat = sync.chat
    BY <1>t, <2>1, <2>2, StoreMessageRows
  <2> QED
    BY <1>0, <1>6, <2>1, <2>3 DEF SyncRow, ChatsInv
<1>7. ASSUME NEW c \in Calls, SentChat(c) \/ SentRow(c) \/ SentMetadata(c) PROVE ChatsInv'
  <2>1. /\ c.id \in Id /\ ResolveChat(c.to) \in Chat /\ Resolved(ResolveChat(c.to))
    BY CallTypes, ResolveChatResolves
  <2>2. CASE SentChat(c)
    BY <1>0, <1>t, <2>1, <2>2 DEF SentChat, StoreChat, ChatsInv
  <2>3. CASE SentRow(c)
    <3>1. StoreMessage(c.id, ResolveChat(c.to), calls[c].now) \/ UNCHANGED rows
      BY <2>3 DEF SentRow
    <3>2. \A r \in rows' : r \in rows \/ r.chat = ResolveChat(c.to)
      BY <1>t, <2>1, <3>1, StoreMessageRows
    <3> QED
      BY <1>0, <2>1, <2>3, <3>2 DEF SentRow, ChatsInv
  <2>4. CASE SentMetadata(c)
    <3>1. \A r \in rows' : \E s \in rows : r.chat = s.chat
      BY <2>4, <1>t, StorePollMetadataRows DEF SentMetadata
    <3> QED
      BY <1>0, <2>4, <3>1 DEF SentMetadata, ChatsInv, Resolved
  <2> QED
    BY <1>7, <2>2, <2>3, <2>4
<1>8. CASE Crash
  BY <1>0, <1>8 DEF Crash, ChatsInv
<1>9. CASE UNCHANGED vars
  BY <1>0, <1>9 DEF vars, ChatsInv
<1> QED
  BY <1>1, <1>2, <1>3, <1>4, <1>5, <1>6, <1>7, <1>8, <1>9 DEF Next

\* Whoever writes, and under whichever address, nothing is ever stored under the
\* LID of a person whose number is known.
THEOREM OneChatAlways == Spec => []OneChatPerPerson
<1>1. Init => ChatsInv
  BY InitType DEF Init, ChatsInv
<1>2. ChatsInv /\ [Next]_vars => ChatsInv'
  BY ChatsStep
<1>3. ChatsInv => OneChatPerPerson
  BY DEF ChatsInv, OneChatPerPerson, Resolved, Chat
<1> QED
  BY <1>1, <1>2, <1>3, PTL DEF Spec

-------------------------------------------------------------------------------
(* Votes.                                                                  *)

\* What is stored was heard, and of every voter it is the latest.
VotesInv ==
    /\ TypeInv
    /\ votes \subseteq heard
    /\ \A h \in heard : \E v \in votes : SameVote(v, h) /\ h.at <= v.at
    /\ \A h \in heard : h.at <= now
    /\ \A h \in heard :
          \E e \in Events : e.kind = "vote" /\ h.voter = ResolveSender(e.from)

LEMMA VotesStep ==
    ASSUME VotesInv, [Next]_vars
    PROVE  VotesInv'
<1> USE DEF ghosts, tables
<1>0. TypeInv'
  BY TypeStep DEF VotesInv
<1>t. /\ now \in Nat /\ votes \in SUBSET Vote /\ heard \in SUBSET Vote /\ VotersUnique
      /\ live.at # "idle" =>
            live \in [at : {"row", "metadata", "lookup", "vote"}, event : Events]
      /\ \A h \in heard : h.at \in Nat
  BY DEF VotesInv, TypeInv, TypeOK, VotersUnique, Idle, Vote
<1>1. CASE HandleVote
  <2> DEFINE e == live.event
             v == VoteOf(e)
  <2>0. e \in Events /\ e.kind = "vote" /\ now' = now
    BY <1>1, <1>t DEF HandleVote, VotesInv, TypeInv, LiveOK
  <2>1. v \in Vote /\ v.at <= now /\ v.voter = ResolveSender(e.from)
    BY <1>t, <2>0, VoteOfType
  <2>2. CASE StorePollVote(v) /\ heard' = heard \union {v}
    <3> HIDE DEF v
    <3>1. /\ votes' \subseteq votes \union {v} /\ votes' \subseteq Vote
          /\ \A w \in votes \union {v} : \E x \in votes' : SameVote(x, w) /\ w.at <= x.at
      BY <1>t, <2>1, <2>2, StorePollVoteVotes
    <3>2. ASSUME NEW h \in heard' PROVE \E x \in votes' : SameVote(x, h) /\ h.at <= x.at
      <4>1. PICK w \in votes \union {v} : SameVote(w, h) /\ h.at <= w.at
        <5>1. CASE h \in heard
          BY <5>1 DEF VotesInv
        <5>2. CASE h = v
          BY <2>1, <5>2 DEF SameVote, Vote
        <5> QED
          BY <2>2, <5>1, <5>2
      <4>2. PICK x \in votes' : SameVote(x, w) /\ w.at <= x.at
        BY <3>1
      <4>3. h.at \in Nat /\ w.at \in Nat /\ x.at \in Nat
        BY <1>t, <2>1, <2>2, <3>1 DEF Vote
      <4>4. SameVote(x, h) /\ h.at <= x.at
        BY <4>1, <4>2, <4>3 DEF SameVote
      <4> QED
        BY <4>4
    <3> QED
      BY <1>0, <2>0, <2>1, <2>2, <3>1, <3>2 DEF VotesInv
  <2>3. CASE UNCHANGED <<votes, heard>>
    BY <1>0, <2>0, <2>3 DEF VotesInv
  <2> QED
    BY <1>1, <2>2, <2>3 DEF HandleVote, VoteOf
<1>2. CASE Tick
  <2>1. \A h \in heard : h.at <= now + 1
    BY <1>t DEF VotesInv
  <2> QED
    BY <1>0, <1>2, <2>1 DEF Tick, VotesInv
<1>3. CASE UNCHANGED <<now, votes, heard>>
  BY <1>0, <1>3 DEF VotesInv
<1> QED
  BY <1>1, <1>2, <1>3
     DEF Next, HandleMessage, HandleRow, HandleMetadata, HandleVoteLookup, SyncChat, SyncRow,
         SentChat, SentRow, SentMetadata, Crash, vars

LEMMA InitVotes == Init => VotesInv
BY InitType DEF Init, VotesInv

\* No stored vote is from the future, whatever time its voter claimed.
THEOREM NoVoterEverLockedOut == Spec => []NoVoterIsLockedOut
<1>1. VotesInv => NoVoterIsLockedOut
  BY DEF VotesInv, NoVoterIsLockedOut
<1> QED
  BY <1>1, InitVotes, VotesStep, PTL DEF Spec

\* The votes of a person all arrive under one resolved sender: from one device,
\* or under a LID that is known.
OneSenderEach ==
    \A e, f \in Events :
        e.kind = "vote" /\ f.kind = "vote" /\ e.from.who = f.from.who =>
            ResolveSender(e.from) = ResolveSender(f.from)

\* However votes are repeated, delayed and reordered, a person whose votes arrive
\* under one resolved sender is counted once, with the latest selection.
THEOREM VotesStand ==
    ASSUME OneSenderEach
    PROVE  Spec => []VoteStands
<1>1. VotesInv => VoteStands
  <2> SUFFICES ASSUME VotesInv PROVE VoteStands
    OBVIOUS
  <2>t. heard \in SUBSET Vote /\ votes \in SUBSET Vote /\ VotersUnique /\ votes \subseteq heard
    BY DEF VotesInv, TypeInv, TypeOK, VotersUnique
  <2>1. \A h \in heard : h.voter \in Sender
    BY <2>t DEF Vote
  <2>2. ASSUME NEW g \in heard, NEW h \in heard, g.poll = h.poll, g.chat = h.chat,
               g.voter.who = h.voter.who
        PROVE  SameVote(g, h)
    <3>1. PICK e \in Events : e.kind = "vote" /\ g.voter = ResolveSender(e.from)
      BY DEF VotesInv
    <3>2. PICK f \in Events : f.kind = "vote" /\ h.voter = ResolveSender(f.from)
      BY DEF VotesInv
    <3>3. e.from.who = f.from.who
      BY <2>2, <3>1, <3>2, EventTypes, ResolveSenderKeepsWho
    <3> QED
      BY <2>2, <3>1, <3>2, <3>3 DEF OneSenderEach, SameVote
  <2>3. ASSUME NEW poll \in Id, NEW chat \in Chat, NEW p \in Person,
               NEW h \in heard, h.poll = poll, h.chat = chat, h.voter.who = p
        PROVE  LET OfPerson(S) == {v \in S : v.poll = poll /\ v.chat = chat /\ v.voter.who = p} IN
               \E v \in OfPerson(heard) :
                   /\ {w.picks : w \in OfPerson(votes)} = {v.picks}
                   /\ Cardinality(OfPerson(votes)) = 1
                   /\ \A w \in OfPerson(heard) : w.at <= v.at
    <3> DEFINE OfPerson(S) == {v \in S : v.poll = poll /\ v.chat = chat /\ v.voter.who = p}
    <3>1. PICK v \in votes : SameVote(v, h) /\ h.at <= v.at
      BY DEF VotesInv
    <3>2. v \in heard /\ v \in OfPerson(heard) /\ v \in OfPerson(votes)
      BY <2>t, <2>3, <3>1 DEF SameVote
    <3>3. ASSUME NEW w \in OfPerson(votes) PROVE w = v
      BY <2>t, <2>2, <3>2 DEF VotersUnique
    <3>4. OfPerson(votes) = {v}
      BY <3>2, <3>3
    <3>5. Cardinality(OfPerson(votes)) = 1
      BY <3>4, FS_Singleton
    <3>6. ASSUME NEW w \in OfPerson(heard) PROVE w.at <= v.at
      <4>1. PICK x \in votes : SameVote(x, w) /\ w.at <= x.at
        BY DEF VotesInv
      <4>2. x \in OfPerson(votes)
        BY <4>1 DEF SameVote
      <4> QED
        BY <3>3, <4>1, <4>2
    <3>7. {w.picks : w \in OfPerson(votes)} = {v.picks}
      BY <3>4
    <3> QED
      BY <3>2, <3>5, <3>6, <3>7
  <2> QED
    BY <2>3 DEF VoteStands
<1> QED
  BY <1>1, InitVotes, VotesStep, PTL DEF Spec

-------------------------------------------------------------------------------
(* Polls keep their options.                                               *)

\* A message with this id is a poll received, or one that a finished call sent.
PollId(id) ==
    \/ \E e \in Events : e.kind = "poll" /\ e.id = id
    \/ \E c \in Calls : c.id = id /\ calls[c] = Done

\* The handler has replaced the row of this poll, and sets its options next.
Restoring(id, chat) ==
    live.at = "metadata" /\ live.event.id = id /\ ResolveChat(live.event.chat) = chat

TalliedInv ==
    /\ TypeInv
    /\ \A i \in Id, c \in Chat : <<i, c>> \in tallied =>
          PollId(i) /\ (HasPollOptions(i, c) \/ Restoring(i, c))

\* A message that is no poll known by its id leaves the options of the polls.
LEMMA OptionsStay ==
    ASSUME rows \in SUBSET Row, KeysUnique, NEW id \in Id, NEW chat \in Chat, NEW at \in Nat,
           StoreMessage(id, chat, at) \/ UNCHANGED rows,
           NEW i \in Id, NEW c \in Chat, <<i, c>> # <<id, chat>>, HasPollOptions(i, c)
    PROVE  HasPollOptions(i, c)'
<1>1. PICK r \in rows : SameRow(r, i, c) /\ r.options
  BY DEF HasPollOptions
<1>2. ~SameRow(r, id, chat)
  BY <1>1 DEF SameRow
<1>3. r \in rows'
  BY <1>2, StoreMessageRows
<1> QED
  BY <1>1, <1>3 DEF HasPollOptions

LEMMA TalliedStep ==
    ASSUME TalliedInv, [Next]_vars
    PROVE  TalliedInv'
<1> USE DEF ghosts, tables
<1>0. TypeInv'
  BY TypeStep DEF TalliedInv
<1>t. /\ rows \in SUBSET Row /\ KeysUnique /\ tallied \in SUBSET (Id \X Chat)
      /\ sync # NoSync => sync \in [chat : Chat, left : Seq(Events) \ {<<>>}]
      /\ live.at # "idle" =>
            live \in [at : {"row", "metadata", "lookup", "vote"}, event : Events]
      /\ calls \in [Calls -> [at : {"ready", "row", "metadata", "done"}, now : 0..Horizon]]
      /\ \A c \in Calls : calls[c].now \in Nat
  BY StoreAssumption DEF StoreAssumption, TalliedInv, TypeInv, TypeOK, KeysUnique, Idle
<1>1. CASE UNCHANGED <<rows, tallied, calls>> /\ (live.at # "metadata" \/ live' = live)
  BY <1>0, <1>1 DEF TalliedInv, PollId, HasPollOptions, Restoring
<1>2. CASE HandleRow
  <2> DEFINE e == live.event
             chat == ResolveChat(e.chat)
  <2>1. /\ e \in Events /\ e.id \in Id /\ e.at \in Nat /\ chat \in Chat
        /\ e.kind \in {"text", "poll"} /\ UNCHANGED <<tallied, calls>> /\ live.at = "row"
    BY <1>2, <1>t, EventTypes DEF HandleRow, TalliedInv, TypeInv, LiveOK
  <2>2. CASE live' = Idle /\ UNCHANGED rows
    BY <1>0, <2>1, <2>2 DEF TalliedInv, PollId, HasPollOptions, Restoring
  <2>3. CASE /\ StoreMessage(e.id, chat, e.at)
             /\ live' = IF e.kind = "poll" THEN [live EXCEPT !.at = "metadata"] ELSE Idle
    <3>1. ASSUME NEW i \in Id, NEW c \in Chat, <<i, c>> \in tallied, <<i, c>> # <<e.id, chat>>
          PROVE  PollId(i)' /\ HasPollOptions(i, c)'
      <4>1. HasPollOptions(i, c) /\ PollId(i)
        BY <2>1, <3>1 DEF TalliedInv, Restoring
      <4>2. HasPollOptions(i, c)'
        BY <1>t, <2>1, <2>3, <3>1, <4>1, OptionsStay
      <4> QED
        BY <2>1, <4>1, <4>2 DEF PollId
    <3>2. ASSUME <<e.id, chat>> \in tallied
          PROVE  PollId(e.id) /\ live'.at = "metadata" /\ live'.event = e
      <4>1. PollId(e.id)
        BY <2>1, <3>2 DEF TalliedInv
      <4>2. e.kind = "poll"
        BY <2>1, <4>1, IdAssumption DEF IdAssumption, PollId
      <4> QED
        BY <1>t, <2>1, <2>3, <4>1, <4>2
    <3>3. ASSUME NEW i \in Id, NEW c \in Chat, <<i, c>> \in tallied, <<i, c>> = <<e.id, chat>>
          PROVE  PollId(i)' /\ Restoring(i, c)'
      BY <2>1, <3>2, <3>3 DEF PollId, Restoring
    <3> HIDE DEF e, chat
    <3>4. \A i \in Id, c \in Chat : <<i, c>> \in tallied =>
              PollId(i)' /\ (HasPollOptions(i, c)' \/ Restoring(i, c)')
      BY <3>1, <3>3
    <3> QED
      BY <1>0, <2>1, <3>4 DEF TalliedInv
  <2> QED
    BY <1>2, <2>2, <2>3 DEF HandleRow
<1>3. CASE HandleMetadata
  <2> DEFINE id == live.event.id
             chat == ResolveChat(live.event.chat)
  <2>1. /\ live.event \in Events /\ live.event.kind = "poll" /\ calls' = calls
        /\ \E r \in rows : SameRow(r, id, chat)
    BY <1>3, <1>t DEF HandleMetadata, TalliedInv, TypeInv, LiveOK
  <2>2. PollId(id)
    BY <2>1 DEF PollId
  <2>3. CASE StorePollMetadata(id, chat) /\ tallied' = tallied \union {<<id, chat>>}
    <3> HIDE DEF id, chat
    <3>1. ASSUME NEW i \in Id, NEW c \in Chat, <<i, c>> \in tallied'
          PROVE  PollId(i)' /\ HasPollOptions(i, c)'
      <4>1. CASE <<i, c>> = <<id, chat>>
        <5>1. i = id /\ c = chat
          BY <4>1
        <5>2. HasPollOptions(i, c)'
          BY <1>t, <2>1, <2>3, <5>1, StorePollMetadataRows
        <5> QED
          BY <2>1, <2>2, <5>1, <5>2 DEF PollId
      <4>2. CASE <<i, c>> # <<id, chat>>
        <5>1. <<i, c>> \in tallied /\ PollId(i) /\ HasPollOptions(i, c)
          BY <2>3, <3>1, <4>2 DEF TalliedInv, Restoring, id, chat
        <5>2. HasPollOptions(i, c)'
          BY <1>t, <2>3, <5>1, StorePollMetadataRows
        <5> QED
          BY <2>1, <5>1, <5>2 DEF PollId
      <4> QED
        BY <4>1, <4>2
    <3> QED
      BY <1>0, <3>1 DEF TalliedInv
  <2>4. CASE tallied' = tallied \ {<<id, chat>>} /\ UNCHANGED rows
    <3>1. ASSUME NEW i \in Id, NEW c \in Chat, <<i, c>> \in tallied'
          PROVE  PollId(i)' /\ HasPollOptions(i, c)'
      BY <2>1, <2>4, <3>1 DEF TalliedInv, Restoring, PollId, HasPollOptions
    <3> QED
      BY <1>0, <3>1 DEF TalliedInv
  <2> QED
    BY <1>3, <2>3, <2>4 DEF HandleMetadata
<1>4. CASE SyncRow
  <2> DEFINE e == Head(sync.left)
  <2>1. /\ e \in Events /\ e.id \in Id /\ e.at \in Nat /\ sync.chat \in Chat
        /\ UNCHANGED <<tallied, calls, live>>
    BY <1>4, <1>t, SyncShrinks, EventTypes DEF SyncRow
  <2>2. CASE UNCHANGED rows
    BY <1>0, <2>1, <2>2 DEF TalliedInv, PollId, HasPollOptions, Restoring
  <2>3. CASE e.kind = "text" /\ StoreMessage(e.id, sync.chat, e.at)
    <3> HIDE DEF e
    <3>1. ASSUME NEW i \in Id, PollId(i) PROVE i # e.id
      BY <2>1, <2>3, <3>1, IdAssumption DEF IdAssumption, PollId
    <3>2. ASSUME NEW i \in Id, NEW c \in Chat, <<i, c>> \in tallied
          PROVE  PollId(i)' /\ (HasPollOptions(i, c)' \/ Restoring(i, c)')
      <4>1. PollId(i) /\ <<i, c>> # <<e.id, sync.chat>>
        BY <3>1, <3>2 DEF TalliedInv
      <4>2. HasPollOptions(i, c) => HasPollOptions(i, c)'
        BY <1>t, <2>1, <2>3, <4>1, OptionsStay
      <4> QED
        BY <2>1, <3>2, <4>1, <4>2 DEF TalliedInv, PollId, Restoring
    <3> QED
      BY <1>0, <2>1, <3>2 DEF TalliedInv
  <2> QED
    BY <1>4, <2>2, <2>3 DEF SyncRow
<1>5. ASSUME NEW d \in Calls, SentChat(d) \/ SentRow(d) \/ SentMetadata(d) PROVE TalliedInv'
  <2>0. /\ d.id \in Id /\ d.to \in Chat /\ ResolveChat(d.to) \in Chat /\ live' = live
        /\ calls[d] # Done /\ calls[d].now \in Nat
    BY <1>5, <1>t, CallTypes DEF SentChat, SentRow, SentMetadata, Ready, Done
  <2>1. \A i : PollId(i) => PollId(i)'
    <3>1. \A c \in Calls : calls[c] = Done => calls'[c] = Done
      BY <1>5, <1>t, <2>0 DEF SentChat, SentRow, SentMetadata
    <3> QED
      BY <3>1 DEF PollId
  <2>2. \A i : PollId(i) => i # d.id
    BY <2>0, IdAssumption DEF IdAssumption, PollId
  <2>3. CASE SentChat(d)
    BY <1>0, <2>0, <2>1, <2>3 DEF SentChat, TalliedInv, HasPollOptions, Restoring
  <2>4. CASE SentRow(d)
    <3>1. StoreMessage(d.id, ResolveChat(d.to), calls[d].now) \/ UNCHANGED rows
      BY <2>4 DEF SentRow
    <3>2. ASSUME NEW i \in Id, NEW c \in Chat, <<i, c>> \in tallied
          PROVE  PollId(i)' /\ (HasPollOptions(i, c)' \/ Restoring(i, c)')
      <4>1. PollId(i) /\ <<i, c>> # <<d.id, ResolveChat(d.to)>>
        BY <2>2, <3>2 DEF TalliedInv
      <4>2. HasPollOptions(i, c) => HasPollOptions(i, c)'
        BY <1>t, <2>0, <3>1, <4>1, OptionsStay
      <4> QED
        BY <2>0, <2>1, <3>2, <4>1, <4>2 DEF TalliedInv, Restoring
    <3> QED
      BY <1>0, <2>4, <3>2 DEF SentRow, TalliedInv
  <2>5. CASE SentMetadata(d)
    <3>1. PollId(d.id)'
      BY <1>t, <2>5 DEF SentMetadata, PollId
    <3>2. ASSUME NEW i \in Id, NEW c \in Chat, <<i, c>> \in tallied
          PROVE  PollId(i)' /\ (HasPollOptions(i, c)' \/ Restoring(i, c)')
      <4>1. HasPollOptions(i, c) => HasPollOptions(i, c)'
        <5>1. CASE StorePollMetadata(d.id, d.to)
          BY <1>t, <5>1, StorePollMetadataRows
        <5>2. CASE UNCHANGED rows
          BY <5>2 DEF HasPollOptions
        <5> QED
          BY <2>5, <5>1, <5>2 DEF SentMetadata
      <4> QED
        BY <2>0, <2>1, <3>2, <4>1 DEF TalliedInv, Restoring
    <3>3. ASSUME <<d.id, d.to>> \in tallied', <<d.id, d.to>> \notin tallied
          PROVE  HasPollOptions(d.id, d.to)'
      <4>1. StorePollMetadata(d.id, d.to) /\ \E r \in rows : SameRow(r, d.id, d.to)
        BY <2>5, <3>3 DEF SentMetadata
      <4> QED
        BY <1>t, <4>1, StorePollMetadataRows
    <3>4. tallied' \subseteq tallied \union {<<d.id, d.to>>}
      BY <2>5 DEF SentMetadata
    <3>5. ASSUME NEW i \in Id, NEW c \in Chat, <<i, c>> \in tallied'
          PROVE  PollId(i)' /\ (HasPollOptions(i, c)' \/ Restoring(i, c)')
      <4>1. CASE <<i, c>> \in tallied
        BY <3>2, <4>1
      <4>2. CASE <<i, c>> \notin tallied
        <5>1. i = d.id /\ c = d.to
          BY <3>4, <3>5, <4>2
        <5> QED
          BY <3>1, <3>3, <3>5, <4>2, <5>1
      <4> QED
        BY <4>1, <4>2
    <3> QED
      BY <1>0, <3>5 DEF TalliedInv
  <2> QED
    BY <1>5, <2>3, <2>4, <2>5
<1>6. CASE Crash
  <2>1. \A i : PollId(i) => PollId(i)'
    BY <1>6, <1>t DEF Crash, PollId, Ready, Done
  <2>2. ASSUME NEW i \in Id, NEW c \in Chat, <<i, c>> \in tallied'
        PROVE  <<i, c>> \in tallied /\ ~Restoring(i, c)
    BY <1>6, <2>2 DEF Crash, Restoring
  <2> QED
    BY <1>0, <1>6, <2>1, <2>2 DEF Crash, TalliedInv, HasPollOptions
<1> QED
  BY <1>1, <1>2, <1>3, <1>4, <1>5, <1>6
     DEF Next, HandleMessage, HandleVoteLookup, HandleVote, SyncChat, Tick, vars, Idle

\* A poll that was given its options has them whenever the writers are at rest,
\* unless a write failed or a crash came between row and options.
THEOREM PollsStayTallied == Spec => []PollStaysTallied
<1>1. Init => TalliedInv
  BY InitType DEF Init, TalliedInv
<1>2. TalliedInv /\ [Next]_vars => TalliedInv'
  BY TalliedStep
<1>3. TalliedInv => PollStaysTallied
  <2> SUFFICES ASSUME TalliedInv, Rest, NEW poll \in tallied
               PROVE  HasPollOptions(poll[1], poll[2])
    BY DEF PollStaysTallied
  <2>1. poll \in Id \X Chat
    BY DEF TalliedInv, TypeInv, TypeOK
  <2>2. poll = <<poll[1], poll[2]>> /\ poll[1] \in Id /\ poll[2] \in Chat
    BY <2>1
  <2>3. ~Restoring(poll[1], poll[2])
    BY DEF Rest, Idle, Restoring
  <2> QED
    BY <2>2, <2>3 DEF TalliedInv
<1> QED
  BY <1>1, <1>2, <1>3, PTL DEF Spec

===============================================================================
