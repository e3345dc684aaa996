------------------------------ MODULE CacheReads -------------------------------
(***************************************************************************)
(* Reading the message cache while it is being filled: the listings of     *)
(* messages and of chats page by page, the context of a message, and the   *)
(* history requests that walk a chat back from a cached row                *)
(* (store/queries.go, store/store.go, client/events.go, client/history.go, *)
(* client/send.go, tools_query.go).                                        *)
(*                                                                         *)
(* Every query is one SQLite statement, so it sees one state of the cache; *)
(* what takes several statements is interleaved with the live messages,    *)
(* with the sent ones and with the rows of a history batch, which are      *)
(* stored one by one, each write on its own and any of them may fail.  No  *)
(* statement orders rows of the same key: any of them may come first.      *)
(* Message rows are never deleted and a message seen again is replaced by  *)
(* itself, so that table is a set of messages; a chat's row is replaced    *)
(* with every message handled, its time by that message's, however old.    *)
(*                                                                         *)
(* WhatsApp's own order of a chat is a sequence, oldest first.  It answers *)
(* a history request, perhaps twice, perhaps never, with the messages just *)
(* before the anchor the request names.                                    *)
(***************************************************************************)
EXTENDS Integers, FiniteSets, Sequences

CONSTANTS
    Chat,           \* the chats
    NamesOf,        \* the names a chat may resolve to, by their rank in the alphabet
    Histories,      \* what WhatsApp may hold: functions from Chat to sequences
    Filter,         \* the filters of list_messages that are tried
    DefaultLimit,   \* 20 in the code: the page of a caller that asks for none
    MaxLimit,       \* 100: the largest page list_messages gives
    DefaultContext, \* 5: the width of a context that is not asked for
    DefaultCount,   \* 50: the size of a history request that names none
    Asked,          \* the limits, widths and counts callers ask for
    MaxRequests,    \* bound: history requests not yet answered for good
    MaxHeard        \* bound: rows that come without a request

\* A message: its time in seconds, and whether it has text or media to keep.
Message == [chat : Chat, id : Nat, at : Nat, kept : BOOLEAN]

ASSUME ReadConstants ==
    /\ {DefaultLimit, MaxLimit, DefaultContext, DefaultCount} \subseteq Nat \ {0}
    /\ NamesOf \in [Chat -> SUBSET Nat]
    /\ Asked \subseteq Int /\ {MaxRequests, MaxHeard} \subseteq Nat
    /\ \A h \in Histories : \A c \in Chat :
           /\ h[c] \in Seq(Message)
           /\ \A i \in DOMAIN h[c] : h[c][i].chat = c
           /\ \A i, j \in DOMAIN h[c] :
                  i < j => h[c][i].at <= h[c][j].at /\ h[c][i].id # h[c][j].id

VARIABLES
    history,    \* what WhatsApp holds
    chats,      \* the chats table
    rows,       \* the messages table
    requests,   \* history requests WhatsApp may answer
    left,       \* what the live handler or a send, and a history batch, have yet to store
    heard,      \* for the properties: the rows not only a history request brought
    lost,       \* for the properties: messages of a batch whose write failed
    reading     \* the reading tool call in progress

cache == <<history, chats, rows, requests, left, heard, lost>>
vars == <<history, chats, rows, requests, left, heard, lost, reading>>

None == 0
Idle == [tool |-> "none"]

Messages == UNION {{history[c][i] : i \in DOMAIN history[c]} : c \in Chat}
Place(m) == CHOOSE i \in DOMAIN history[m.chat] : history[m.chat][i] = m
RowsOf(c) == {m \in rows : m.chat = c}

Least(a, b) == IF a < b THEN a ELSE b

-----------------------------------------------------------------------------
(* What the statements return                                              *)

\* ORDER BY timestamp DESC LIMIT n, and ASC: the possible answers.
Newest(S, n) ==
    {R \in SUBSET S : /\ Cardinality(R) = Least(n, Cardinality(S))
                      /\ \A r \in R, o \in S \ R : r.at >= o.at}
Oldest(S, n) ==
    {R \in SUBSET S : /\ Cardinality(R) = Least(n, Cardinality(S))
                      /\ \A r \in R, o \in S \ R : r.at <= o.at}

\* LIMIT n OFFSET page * n
\* Bug: the offset counts pages from one.
PageFromOne(S, page, n) ==
    UNION {Newest(S \ skipped, n) : skipped \in Newest(S, (page + 1) * n)}

Page(S, page, n) ==
    UNION {Newest(S \ skipped, n) : skipped \in Newest(S, page * n)}

\* The rows a filter of list_messages selects.  Its bounds exclude their own time.
Matching(f) ==
    {m \in rows : /\ f.after # None => m.at > f.after
                  /\ f.before # None => m.at < f.before
                  /\ f.chat # None => m.chat = f.chat}

\* A number not above zero means the default.
OrDefault(asked, default) == IF asked <= 0 THEN default ELSE asked

\* queryContextWindow: up to n rows of the chat strictly before, or after, a time.
\* Bug: both windows are read oldest first.
WindowOldestFirst(c, at, n, ascending) ==
    IF ascending THEN Oldest({m \in RowsOf(c) : m.at > at}, n)
                 ELSE Oldest({m \in RowsOf(c) : m.at < at}, n)

Window(c, at, n, ascending) ==
    IF ascending THEN Oldest({m \in RowsOf(c) : m.at > at}, n)
                 ELSE Newest({m \in RowsOf(c) : m.at < at}, n)

\* What ORDER BY name, or ORDER BY last_message_time DESC, makes of the chats table.
Sorted(table, sort) ==
    {[chat |-> r.chat, at |-> IF sort = "name" THEN 0 - r.name ELSE r.at] : r \in table}

\* For the properties: the entries no other ties with, the chats before an entry, and
\* the entries that stay in place when a table changes: they keep their key, no other
\* ties with them, and no chat before them is moved behind them.
Alone(entries) == {e \in entries : \A o \in entries \ {e} : o.at # e.at}
Before(entries, e) == {o.chat : o \in {x \in entries : x.at > e.at}}
InPlace(still, old, new) ==
    {e \in still \cap Alone(new) : Before(old, e) \subseteq Before(new, e)}

-----------------------------------------------------------------------------
(* How the cache is filled                                                 *)

\* StoreChat replaces the row of a chat, its name and its time, or fails: every caller
\* goes on.
StoreChat(c, name, at) ==
    \/ UNCHANGED <<chats, reading>>
    \/ LET table == {r \in chats : r.chat # c}
                        \union {[chat |-> c, name |-> name, at |-> at]}
           still == InPlace(reading.still, Sorted(chats, reading.sort),
                            Sorted(table, reading.sort))
       IN  /\ chats' = table
           /\ reading' = IF reading.tool = "list_chats"
                         THEN [reading EXCEPT !.still = still] ELSE reading

\* GetChatName: the name the chat has, or one its contact or group resolves to.
GetChatName(c) ==
    LET known == {r.name : r \in {x \in chats : x.chat = c}}
    IN  IF known # {} THEN known ELSE NamesOf[c]

\* A message comes, or is sent, outside any history request: first the row of its chat,
\* then its own, unless it has nothing to keep.  One at a time.
Live(m, names) ==
    /\ left["live"] = << >>
    /\ m \in heard \/ Cardinality(heard) < MaxHeard
    /\ \E name \in names : StoreChat(m.chat, name, m.at)
    /\ left' = [left EXCEPT !["live"] = IF m.kept THEN <<m>> ELSE << >>]
    /\ UNCHANGED <<history, rows, requests, heard, lost>>

\* handleMessage: any message, early, late, again or never.  What WhatsApp sends of its
\* own accord when a device is linked comes like this too.
Arrive(m) == Live(m, GetChatName(m.chat))

\* persistSent resolves the name again.  Its clock is taken to agree with WhatsApp's.
Send(m) == m.kept /\ Live(m, NamesOf[m.chat])

\* resolveAnchor: the cached rows a request may start from.
\* Bug: a request for a time starts from the message WhatsApp holds there.
AnchorsAtTime(c, from, anchor) ==
    IF anchor = "oldest" THEN UNION Oldest(RowsOf(c), 1)
    ELSE IF from # None
    THEN {m \in Messages : m.chat = c /\ m.at = from}
    ELSE UNION Newest(RowsOf(c), 1)

Anchors(c, from, anchor) ==
    LET before == {m \in RowsOf(c) : m.at <= from}
    IN  CASE anchor = "oldest" -> UNION Oldest(RowsOf(c), 1)
          [] anchor # "oldest" /\ from # None ->
                 IF before # {} THEN UNION Newest(before, 1)
                                ELSE UNION Oldest(RowsOf(c), 1)
          [] OTHER -> UNION Newest(RowsOf(c), 1)

\* request_sync and RequestHistorySync.  Without a cached row there is no request;
\* the chat's form (use_lid) only decides whether WhatsApp finds the anchor.
RequestSync(c, from, anchor, count) ==
    /\ count >= 0
    /\ Cardinality(requests) < MaxRequests
    /\ \E m \in Anchors(c, from, anchor) :
           requests' = requests \union
               {[anchor |-> m, count |-> OrDefault(count, DefaultCount)]}
    /\ UNCHANGED <<history, chats, rows, left, heard, lost, reading>>

\* WhatsApp answers with the messages just before the anchor, newest first, perhaps more
\* than once.  handleHistorySync replaces the row of the chat by the time of the first,
\* then stores them one by one.  Batches are handled one at a time.
Answer(r) ==
    LET c == r.anchor.chat
        place == Place(r.anchor)
        batch == [i \in 1 .. Least(r.count, place - 1) |-> history[c][place - i]]
    IN  /\ left["sync"] = << >>
        /\ left' = [left EXCEPT !["sync"] = batch]
        /\ IF batch = << >> THEN UNCHANGED <<chats, reading>>
           ELSE \E name \in GetChatName(c) : StoreChat(c, name, batch[1].at)
        /\ requests' \in {requests, requests \ {r}}
        /\ UNCHANGED <<history, rows, heard, lost>>

\* A request that is never answered: past retention, or under a form of the chat
\* WhatsApp does not know the anchor by.
Unanswered(r) ==
    /\ requests' = requests \ {r}
    /\ UNCHANGED <<history, chats, rows, left, heard, lost, reading>>

\* StoreMessage: a message without text or media is dropped, one whose chat has no row
\* is refused.
Stored(w, m) ==
    /\ \E r \in chats : r.chat = m.chat
    /\ IF m.kept THEN /\ rows' = rows \union {m}
                      /\ heard' = IF w = "live" THEN heard \union {m} ELSE heard
                      /\ lost' = lost \ {m}
       ELSE UNCHANGED <<rows, heard, lost>>

\* The write failed, which is logged and no more.
NotStored(w, m) ==
    /\ lost' = IF w = "sync" /\ m.kept /\ m \notin rows THEN lost \union {m} ELSE lost
    /\ UNCHANGED <<rows, heard>>

\* The last step of handleMessage and persistSent, and the loop of handleHistorySync: it
\* goes on with the older messages when one fails.
\* Bug: the batch is stored from its other end.
StoreNextReversed(w) ==
    LET m == left[w][Len(left[w])]
    IN  /\ left[w] # << >>
        /\ Stored(w, m) \/ NotStored(w, m)
        /\ left' = [left EXCEPT ![w] = SubSeq(@, 1, Len(@) - 1)]
        /\ UNCHANGED <<history, chats, requests, reading>>

StoreNext(w) ==
    LET m == Head(left[w])
    IN  /\ left[w] # << >>
        /\ Stored(w, m) \/ NotStored(w, m)
        /\ left' = [left EXCEPT ![w] = Tail(@)]
        /\ UNCHANGED <<history, chats, requests, reading>>

Crash ==
    /\ left["live"] # << >> \/ left["sync"] # << >> \/ reading # Idle
    /\ left' = [w \in {"live", "sync"} |-> << >>]
    /\ reading' = Idle
    /\ UNCHANGED <<history, chats, rows, requests, heard, lost>>

-----------------------------------------------------------------------------
(* The reading tools                                                       *)

\* A caller that reads list_messages page after page until a page is not full.
StartListing(f, asked) ==
    /\ reading = Idle
    /\ reading' = [tool |-> "list_messages", filter |-> f, page |-> 0, seen |-> {},
                   limit |-> OrDefault(Least(asked, MaxLimit), DefaultLimit),
                   had |-> Alone(Matching(f)), over |-> FALSE]
    /\ UNCHANGED cache

ListMessages ==
    /\ reading.tool = "list_messages" /\ ~reading.over
    /\ \E R \in Page(Matching(reading.filter), reading.page, reading.limit) :
           reading' = [reading EXCEPT !.seen = @ \union R, !.page = @ + 1,
                                      !.over = Cardinality(R) < reading.limit]
    /\ UNCHANGED cache

\* The same for list_chats, by name or by last activity, the latter unless asked.
StartChats(asked, sort) ==
    /\ reading = Idle
    /\ reading' = [tool |-> "list_chats", sort |-> sort, page |-> 0, seen |-> {},
                   limit |-> OrDefault(asked, DefaultLimit),
                   still |-> Alone(Sorted(chats, sort)), over |-> FALSE]
    /\ UNCHANGED cache

ListChats ==
    /\ reading.tool = "list_chats" /\ ~reading.over
    /\ \E R \in Page(Sorted(chats, reading.sort), reading.page, reading.limit) :
           reading' = [reading EXCEPT !.seen = @ \union {e.chat : e \in R},
                                      !.page = @ + 1,
                                      !.over = Cardinality(R) < reading.limit]
    /\ UNCHANGED cache

\* GetMessageContext: the row of that id (of any chat that has one), then the rows
\* before it, then the rows after it, in three statements.
Lookup(id, asked) ==
    /\ reading = Idle
    /\ \E m \in rows :
           /\ m.id = id
           /\ reading' = [tool |-> "get_message_context", target |-> m,
                          had |-> RowsOf(m.chat), width |-> OrDefault(asked, DefaultContext),
                          before |-> {}, after |-> {}, more |-> 2, over |-> FALSE]
    /\ UNCHANGED cache

ReadBefore ==
    /\ reading.tool = "get_message_context" /\ reading.more = 2
    /\ \E R \in Window(reading.target.chat, reading.target.at, reading.width, FALSE) :
           reading' = [reading EXCEPT !.before = R, !.more = 1]
    /\ UNCHANGED cache

ReadAfter ==
    /\ reading.tool = "get_message_context" /\ reading.more = 1
    /\ \E R \in Window(reading.target.chat, reading.target.at, reading.width, TRUE) :
           reading' = [reading EXCEPT !.after = R, !.more = 0, !.over = TRUE]
    /\ UNCHANGED cache

Return ==
    /\ reading # Idle /\ reading.over
    /\ reading' = Idle
    /\ UNCHANGED cache

-----------------------------------------------------------------------------

Init ==
    /\ history \in Histories
    /\ chats = {} /\ rows = {} /\ requests = {} /\ heard = {} /\ lost = {}
    /\ left = [w \in {"live", "sync"} |-> << >>]
    /\ reading = Idle

Next ==
    \/ \E m \in Messages : Arrive(m) \/ Send(m)
    \/ \E c \in Chat, from \in {m.at : m \in Messages} \union {None},
          anchor \in {"newest", "oldest"}, count \in Asked :
           RequestSync(c, from, anchor, count)
    \/ \E r \in requests : Answer(r) \/ Unanswered(r)
    \/ \E w \in {"live", "sync"} : StoreNext(w)
    \/ Crash
    \/ \E f \in Filter, asked \in Asked : StartListing(f, asked)
    \/ \E asked \in Asked, sort \in {"name", "last_active"} : StartChats(asked, sort)
    \/ \E id \in {m.id : m \in Messages}, asked \in Asked : Lookup(id, asked)
    \/ ListMessages \/ ListChats \/ ReadBefore \/ ReadAfter \/ Return

Spec == Init /\ [][Next]_vars

-----------------------------------------------------------------------------
(* Properties                                                              *)

\* The cache holds messages of the history that have something to keep, under chats that
\* have one row each, and a reading call has seen only cached rows.
TypeOK ==
    /\ history \in Histories
    /\ rows \subseteq {m \in Messages : m.kept}
    /\ \A m \in rows : \E r \in chats : r.chat = m.chat
    /\ \A r \in chats : r.chat \in Chat /\ r.name \in NamesOf[r.chat]
    /\ \A r, s \in chats : r.chat = s.chat => r = s
    /\ heard \subseteq rows /\ lost \subseteq Messages \ rows
    /\ Cardinality(requests) <= MaxRequests
    /\ \A r \in requests : r.anchor \in rows /\ r.count \in Nat \ {0}
    /\ \A w \in {"live", "sync"} : \A i \in DOMAIN left[w] : left[w][i] \in Messages
    /\ reading.tool = "list_messages" => reading.seen \subseteq rows
    /\ reading.tool = "list_chats" => reading.seen \subseteq {r.chat : r \in chats}
    /\ reading.tool = "get_message_context" =>
           reading.before \union reading.after \subseteq rows

\* A caller that pages to the end of list_messages has seen every message that was
\* there from the start and shares its time with no other: rows that arrive between two
\* pages may repeat a row, never hide one.  One that pages to the end of list_chats has
\* seen every chat whose row was there from the start and stayed in place: it kept its
\* key, no chat tied with it, and none before it was moved behind it.  By name that is
\* every chat of a name of its own while no chat is renamed.  By last activity, the
\* default, a chat that gets a message between two pages moves to a page already read
\* and may be missed, and so may one that a chat falls behind (StoreChat keeps the time
\* of the last message handled, not of the latest).
PagingSkipsNothing ==
    reading # Idle /\ reading.over =>
        /\ reading.tool = "list_messages" =>
               reading.had \cap Alone(Matching(reading.filter)) \subseteq reading.seen
        /\ reading.tool = "list_chats" =>
               \A e \in reading.still : e.chat \in reading.seen

\* The context of a message is of its own chat, on the right side of it, and has no
\* gap: a row that was there from the start and lies between the message and one
\* shown is shown (GetMessageContext, whose three statements other writes separate).
ContextIsAround ==
    reading.tool = "get_message_context" /\ reading.over =>
        LET t == reading.target
        IN  /\ \A m \in reading.before : m.chat = t.chat /\ m.at < t.at
            /\ \A m \in reading.after : m.chat = t.chat /\ m.at > t.at
            /\ \A m \in reading.had :
                   /\ m.at < t.at /\ (\E b \in reading.before : b.at < m.at) =>
                          m \in reading.before
                   /\ m.at > t.at /\ (\E a \in reading.after : a.at > m.at) =>
                          m \in reading.after

\* Walking back leaves no hole of its own.  Of the messages above a row that only history
\* requests brought, one that is missing lies above a row that came by itself, where
\* messages may have been missed while the daemon was away, or was in a batch and its
\* write failed: whatever anchors were asked for, answers repeated, lost or cut short by
\* a crash, and live messages stored in between.  A failed write does leave a hole, which
\* the oldest anchor, looking only down, never fills.
WalkLeavesNoHole ==
    \A m, n \in Messages :
        /\ n \in rows \ heard /\ m.kept /\ m.chat = n.chat /\ Place(n) < Place(m)
        => \/ m \in rows \union lost
           \/ \E l \in heard : /\ l.chat = n.chat
                               /\ Place(n) < Place(l) /\ Place(l) < Place(m)
===============================================================================
