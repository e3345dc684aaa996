---------------------------- MODULE CacheReadsProofs ----------------------------
(***************************************************************************)
(* Proofs about CacheReads, for chats, histories and pages of any size.    *)
(* What is cached is argued about by the places of WhatsApp's history,     *)
(* what a reading call has seen by how many rows come before a row that    *)
(* it has not seen yet.                                                    *)
(***************************************************************************)
EXTENDS CacheReads, FiniteSetTheorems, TLAPS

-------------------------------------------------------------------------------
(* The cache: histories, tables, requests and what is left to store.       *)

\* Every message has one place in the history of its chat.
LEMMA PlaceOf ==
    ASSUME history \in Histories
    PROVE  /\ \A c \in Chat : history[c] \in Seq(Message)
           /\ \A c \in Chat : \A i \in DOMAIN history[c] :
                 /\ i \in Nat \ {0} /\ i <= Len(history[c])
                 /\ history[c][i] \in Messages /\ history[c][i].chat = c
                 /\ Place(history[c][i]) = i
           /\ \A m \in Messages :
                 /\ m \in Message /\ m.chat \in Chat
                 /\ Place(m) \in DOMAIN history[m.chat] /\ history[m.chat][Place(m)] = m
<1>1. \A c \in Chat :
         /\ history[c] \in Seq(Message)
         /\ \A i \in DOMAIN history[c] : history[c][i].chat = c
         /\ \A i, j \in DOMAIN history[c] : i < j => history[c][i].id # history[c][j].id
  BY ReadConstants
<1>2. \A c \in Chat : \A i \in DOMAIN history[c] :
         /\ i \in Nat \ {0} /\ i <= Len(history[c]) /\ history[c][i] \in Message
  BY <1>1
<1>3. \A c \in Chat : \A i \in DOMAIN history[c] :
         history[c][i] \in Messages /\ Place(history[c][i]) = i
  <2> SUFFICES ASSUME NEW c \in Chat, NEW i \in DOMAIN history[c]
               PROVE  history[c][i] \in Messages /\ Place(history[c][i]) = i
    OBVIOUS
  <2>1. history[c][i] \in Messages
    BY DEF Messages
  <2>2. \A j \in DOMAIN history[c] : history[c][j] = history[c][i] => j = i
    <3> SUFFICES ASSUME NEW j \in DOMAIN history[c], history[c][j] = history[c][i], j # i
                 PROVE  FALSE
      OBVIOUS
    <3>1. j < i \/ i < j
      BY <1>2
    <3> QED
      BY <1>1, <3>1
  <2>3. history[c][i].chat = c
    BY <1>1
  <2> QED
    BY <2>1, <2>2, <2>3 DEF Place
<1>4. \A m \in Messages : \E c \in Chat : \E i \in DOMAIN history[c] : m = history[c][i]
  BY DEF Messages
<1>5. \A m \in Messages :
         /\ m \in Message /\ m.chat \in Chat
         /\ Place(m) \in DOMAIN history[m.chat] /\ history[m.chat][Place(m)] = m
  BY <1>1, <1>2, <1>3, <1>4
<1> QED
  BY <1>1, <1>2, <1>3, <1>5

\* The rows are kept messages, and what was lost is not among them.
CacheOK ==
    /\ history \in Histories
    /\ IsFiniteSet(rows) /\ rows \subseteq {m \in Messages : m.kept}
    /\ heard \subseteq rows /\ lost \subseteq Messages \ rows

\* Every chat has at most one row, and a message has its chat's.
ChatRow == [chat : Chat, name : Nat, at : Nat]
TableOK(table) ==
    /\ IsFiniteSet(table) /\ table \subseteq ChatRow
    /\ \A r \in table : r.name \in NamesOf[r.chat]
    /\ \A r, s \in table : r.chat = s.chat => r = s
ChatsOfRows == \A m \in rows : \E r \in chats : r.chat = m.chat

\* Seen from a place of a chat, nothing of a higher one is missing: its message is
\* cached or lost, or a row that came by itself lies between.
Covered(c, p, k) ==
    \/ history[c][k] \in rows \union lost
    \/ \E j \in DOMAIN history[c] : history[c][j] \in heard /\ p < j /\ j < k
CoveredFrom(c, p) ==
    \A k \in DOMAIN history[c] : p < k /\ history[c][k].kept => Covered(c, p, k)

\* WalkLeavesNoHole, place by place.
NoHole ==
    \A c \in Chat : \A i \in DOMAIN history[c] :
        history[c][i] \in rows \ heard => CoveredFrom(c, i)

RequestsOK ==
    /\ IsFiniteSet(requests) /\ Cardinality(requests) <= MaxRequests
    /\ \A r \in requests : r.anchor \in rows /\ r.count \in Nat \ {0}

\* What is left of a batch goes down from a place of a chat, and from that place
\* nothing above is missing.
Descends(c, p) ==
    /\ p \in DOMAIN history[c] /\ Len(left["sync"]) <= p
    /\ \A i \in DOMAIN left["sync"] : left["sync"][i] = history[c][p - i + 1]
    /\ CoveredFrom(c, p)
Writers == {"live", "sync"}
LeftOK ==
    /\ left \in [Writers -> Seq(Message)]
    /\ \A i \in DOMAIN left["live"] : left["live"][i] \in Messages
    /\ left["sync"] # << >> => \E c \in Chat : \E p \in DOMAIN history[c] : Descends(c, p)

CacheInv ==
    CacheOK /\ TableOK(chats) /\ ChatsOfRows /\ NoHole /\ RequestsOK /\ LeftOK

\* More rows, and more that came by themselves, uncover nothing.
LEMMA CoveredGrows ==
    ASSUME UNCHANGED history, rows \union lost \subseteq rows' \union lost',
           heard \subseteq heard', NEW c, NEW p, CoveredFrom(c, p)
    PROVE  CoveredFrom(c, p)'
BY DEF CoveredFrom, Covered

\* From a lower place as little is missing.
LEMMA CoveredBelow ==
    ASSUME history \in Histories, NEW c \in Chat, NEW p \in DOMAIN history[c],
           CoveredFrom(c, p), history[c][p].kept => history[c][p] \in rows \union lost
    PROVE  CoveredFrom(c, p - 1)
<1>1. \A k \in DOMAIN history[c] : k \in Nat
  BY PlaceOf
<1> SUFFICES ASSUME NEW k \in DOMAIN history[c], p - 1 < k, history[c][k].kept
             PROVE  Covered(c, p - 1, k)
  BY DEF CoveredFrom
<1>2. CASE k = p
  BY <1>2 DEF Covered
<1>3. CASE k # p
  <2>1. p < k
    BY <1>1, <1>3
  <2>2. Covered(c, p, k)
    BY <2>1 DEF CoveredFrom
  <2>3. \A j \in DOMAIN history[c] : p < j => p - 1 < j
    BY <1>1
  <2> QED
    BY <2>2, <2>3 DEF Covered
<1> QED
  BY <1>2, <1>3

\* Writing a message, or failing to, leaves no hole below what was missing already.
LEMMA StoreRow ==
    ASSUME CacheInv, NEW w \in Writers, NEW c \in Chat, NEW p \in DOMAIN history[c],
           Stored(w, history[c][p]) \/ NotStored(w, history[c][p]),
           UNCHANGED <<history, chats>>,
           w = "sync" => CoveredFrom(c, p)
    PROVE  /\ CacheOK' /\ TableOK(chats)' /\ ChatsOfRows' /\ NoHole'
           /\ rows \subseteq rows' /\ heard \subseteq heard'
           /\ rows \union lost \subseteq rows' \union lost'
           /\ w = "sync" /\ history[c][p].kept => history[c][p] \in rows' \union lost'
<1> DEFINE m == history[c][p]
<1>1. m.chat = c /\ Place(m) = p /\ m \in Messages
  BY PlaceOf DEF CacheInv, CacheOK
<1>2. TableOK(chats)'
  BY DEF CacheInv, TableOK
<1>3. /\ rows' = rows \/ (rows' = rows \union {m} /\ m.kept /\ \E r \in chats : r.chat = c)
      /\ heard' = heard \/ heard' = heard \union {m}
      /\ m \in rows' \ rows => (w = "live" /\ m \in heard') \/ w = "sync"
      /\ heard' \subseteq rows'
      /\ lost' \subseteq Messages \ rows'
      /\ rows \union lost \subseteq rows' \union lost'
      /\ w = "sync" /\ m.kept => m \in rows' \union lost'
  BY <1>1 DEF Stored, NotStored, CacheInv, CacheOK, Writers
<1>4. IsFiniteSet(rows')
  BY <1>3, FS_AddElement DEF CacheInv, CacheOK
<1>5. CacheOK'
  BY <1>1, <1>3, <1>4 DEF CacheInv, CacheOK, Messages
<1>6. ChatsOfRows'
  BY <1>1, <1>3 DEF CacheInv, ChatsOfRows
<1>7. \A d, q : CoveredFrom(d, q) => CoveredFrom(d, q)'
  BY <1>3, CoveredGrows
<1>8. NoHole'
  <2> SUFFICES ASSUME NEW d \in Chat, NEW i \in DOMAIN history[d],
                      history[d][i] \in rows' \ heard'
               PROVE  CoveredFrom(d, i)'
    BY DEF NoHole
  <2>1. CASE history[d][i] \in rows
    BY <1>3, <1>7, <2>1 DEF CacheInv, NoHole
  <2>2. CASE history[d][i] \notin rows
    <3>1. history[d][i] = m /\ w = "sync"
      BY <1>3, <2>2
    <3>2. d = c /\ i = p
      BY <1>1, <3>1, PlaceOf DEF CacheInv, CacheOK
    <3> QED
      BY <1>7, <3>1, <3>2
  <2> QED
    BY <2>1, <2>2
<1> QED
  BY <1>2, <1>3, <1>5, <1>6, <1>8

\* The row of a chat is replaced.
LEMMA StoreChatTable ==
    ASSUME CacheInv, NEW c \in Chat, NEW name \in NamesOf[c], NEW at \in Nat,
           StoreChat(c, name, at), UNCHANGED rows
    PROVE  /\ TableOK(chats)' /\ ChatsOfRows'
           /\ {r.chat : r \in chats} \subseteq {r.chat : r \in chats'}
<1>1. CASE UNCHANGED chats
  BY <1>1 DEF CacheInv, TableOK, ChatsOfRows
<1>2. CASE ~UNCHANGED chats
  <2> DEFINE old == {r \in chats : r.chat # c}
             new == [chat |-> c, name |-> name, at |-> at]
  <2>1. chats' = old \union {new}
    BY <1>2 DEF StoreChat
  <2>2. IsFiniteSet(chats')
    <3>1. old \in SUBSET chats
      OBVIOUS
    <3>2. IsFiniteSet(old)
      BY <3>1, FS_Subset DEF CacheInv, TableOK
    <3> QED
      BY <2>1, <3>2, FS_AddElement
  <2>3. new \in ChatRow /\ new.chat = c /\ new.name = name
    BY ReadConstants DEF ChatRow
  <2> HIDE DEF new
  <2>4. TableOK(chats)'
    BY <2>1, <2>2, <2>3 DEF CacheInv, TableOK
  <2>5. \A r \in chats : \E s \in chats' : s.chat = r.chat
    BY <2>1, <2>3
  <2> QED
    BY <2>4, <2>5 DEF CacheInv, ChatsOfRows
<1> QED
  BY <1>1, <1>2

LEMMA NamesKnown ==
    ASSUME CacheInv, NEW c \in Chat
    PROVE  GetChatName(c) \subseteq NamesOf[c]
BY DEF CacheInv, TableOK, GetChatName

LEMMA LeftGrows ==
    ASSUME LeftOK, UNCHANGED history, left'["sync"] = left["sync"],
           left' \in [Writers -> Seq(Message)],
           \A i \in DOMAIN left'["live"] : left'["live"][i] \in Messages,
           rows \union lost \subseteq rows' \union lost', heard \subseteq heard'
    PROVE  LeftOK'
<1>0. UNCHANGED Messages
  BY DEF Messages
<1>1. CASE left["sync"] = << >>
  BY <1>0, <1>1 DEF LeftOK
<1>2. CASE left["sync"] # << >>
  <2>1. PICK c \in Chat : \E p \in DOMAIN history[c] : Descends(c, p)
    BY <1>2 DEF LeftOK
  <2>2. PICK p \in DOMAIN history[c] : Descends(c, p)
    BY <2>1
  <2>3. CoveredFrom(c, p)'
    BY <2>2, CoveredGrows DEF Descends
  <2>4. Descends(c, p)'
    BY <2>2, <2>3 DEF Descends
  <2> QED
    BY <1>0, <2>2, <2>4 DEF LeftOK
<1> QED
  BY <1>1, <1>2

LEMMA RequestsGrow ==
    ASSUME RequestsOK, UNCHANGED requests, rows \subseteq rows'
    PROVE  RequestsOK'
BY DEF RequestsOK

\* What neither table of messages nor what is heard or lost changes.
LEMMA SameRows ==
    ASSUME CacheInv, UNCHANGED <<history, rows, heard, lost>>
    PROVE  CacheOK' /\ NoHole'
BY DEF CacheInv, CacheOK, NoHole, CoveredFrom, Covered, Messages

LEMMA LiveCache ==
    ASSUME CacheInv, NEW m \in Messages, NEW names \in SUBSET NamesOf[m.chat], Live(m, names)
    PROVE  CacheInv' /\ UNCHANGED rows
<1>1. PICK name \in names : StoreChat(m.chat, name, m.at)
  BY DEF Live
<1>2. UNCHANGED <<history, rows, requests, heard, lost>>
      /\ left' = [left EXCEPT !["live"] = IF m.kept THEN <<m>> ELSE << >>]
  BY DEF Live
<1>3. m \in Message /\ m.chat \in Chat /\ m.at \in Nat
  BY PlaceOf DEF CacheInv, CacheOK, Message
<1>4. TableOK(chats)' /\ ChatsOfRows'
  BY <1>1, <1>2, <1>3, StoreChatTable
<1>5. CacheOK' /\ NoHole'
  BY <1>2, SameRows
<1>6. /\ left' \in [Writers -> Seq(Message)] /\ left'["sync"] = left["sync"]
      /\ \A i \in DOMAIN left'["live"] : left'["live"][i] \in Messages
  BY <1>2, <1>3 DEF CacheInv, LeftOK, Writers
<1>7. LeftOK'
  BY <1>2, <1>6, LeftGrows DEF CacheInv
<1>8. RequestsOK'
  BY <1>2, RequestsGrow DEF CacheInv
<1> QED
  BY <1>2, <1>4, <1>5, <1>7, <1>8 DEF CacheInv

\* A request starts from a cached row.
LEMMA AnchorsAreRows ==
    ASSUME NEW c, NEW from, NEW anchor
    PROVE  Anchors(c, from, anchor) \subseteq rows
<1>1. \A S, n : UNION Newest(S, n) \subseteq S /\ UNION Oldest(S, n) \subseteq S
  BY DEF Newest, Oldest
<1>2. RowsOf(c) \subseteq rows
  BY DEF RowsOf
<1> QED
  BY <1>1, <1>2 DEF Anchors

LEMMA DefaultIsPositive ==
    ASSUME NEW asked \in Int, NEW default \in Nat \ {0}
    PROVE  OrDefault(asked, default) \in Nat \ {0}
BY DEF OrDefault

LEMMA RequestCache ==
    ASSUME CacheInv, NEW c \in Chat, NEW from, NEW anchor, NEW count \in Asked,
           RequestSync(c, from, anchor, count)
    PROVE  CacheInv'
<1>1. PICK m \in Anchors(c, from, anchor) :
         requests' = requests \union {[anchor |-> m, count |-> OrDefault(count, DefaultCount)]}
  BY DEF RequestSync
<1>2. UNCHANGED <<history, chats, rows, left, heard, lost>>
      /\ Cardinality(requests) < MaxRequests
  BY DEF RequestSync
<1>3. m \in rows /\ OrDefault(count, DefaultCount) \in Nat \ {0}
  BY AnchorsAreRows, DefaultIsPositive, ReadConstants
<1>4. IsFiniteSet(requests') /\ Cardinality(requests') <= MaxRequests
  <2>1. /\ IsFiniteSet(requests') /\ Cardinality(requests) \in Nat
        /\ Cardinality(requests') = Cardinality(requests)
           \/ Cardinality(requests') = Cardinality(requests) + 1
    BY <1>1, FS_AddElement, FS_CardinalityType DEF CacheInv, RequestsOK
  <2> QED
    BY <1>2, <2>1, ReadConstants
<1>5. RequestsOK'
  BY <1>1, <1>2, <1>3, <1>4 DEF CacheInv, RequestsOK
<1>6. CacheOK' /\ NoHole'
  BY <1>2, SameRows
<1>7. TableOK(chats)' /\ ChatsOfRows' /\ LeftOK'
  BY <1>2, LeftGrows DEF CacheInv, TableOK, ChatsOfRows, LeftOK
<1> QED
  BY <1>5, <1>6, <1>7 DEF CacheInv

LEMMA FewerRequests ==
    ASSUME RequestsOK, NEW r \in requests, UNCHANGED rows,
           requests' \in {requests, requests \ {r}}
    PROVE  RequestsOK'
<1>1. /\ IsFiniteSet(requests \ {r}) /\ Cardinality(requests) \in Nat
      /\ Cardinality(requests \ {r}) = Cardinality(requests) - 1
  BY FS_RemoveElement, FS_CardinalityType DEF RequestsOK
<1>2. CASE requests' = requests
  BY <1>2 DEF RequestsOK
<1>3. CASE requests' = requests \ {r}
  <2>1. Cardinality(requests') <= MaxRequests
    BY <1>1, <1>3, ReadConstants DEF RequestsOK
  <2> QED
    BY <1>1, <1>3, <2>1 DEF RequestsOK
<1> QED
  BY <1>2, <1>3

\* The messages WhatsApp answers with lie just below a cached row.
LEMMA AnswerCache ==
    ASSUME CacheInv, NEW r \in requests, Answer(r)
    PROVE  CacheInv' /\ UNCHANGED rows
<1> DEFINE m == r.anchor
<1>1. m \in rows /\ m \in Messages /\ r.count \in Nat \ {0}
  BY DEF CacheInv, CacheOK, RequestsOK
<1>2. m.chat \in Chat /\ Place(m) \in Nat
  BY <1>1, PlaceOf DEF CacheInv, CacheOK
<1>3. PICK c \in Chat : c = m.chat
  BY <1>2
<1>4. PICK place \in Nat : place = Place(m)
  BY <1>2
<1>5. PICK n : n = Least(r.count, place - 1)
  OBVIOUS
<1>6. /\ c \in Chat /\ place \in DOMAIN history[c] /\ history[c][place] = m
      /\ place \in Nat \ {0} /\ place <= Len(history[c])
      /\ history[c] \in Seq(Message)
  BY <1>1, <1>3, <1>4, PlaceOf DEF CacheInv, CacheOK
<1>7. PICK batch : batch = [i \in 1 .. n |-> history[c][place - i]]
  OBVIOUS
<1>8. /\ left' = [left EXCEPT !["sync"] = batch]
      /\ requests' \in {requests, requests \ {r}} /\ UNCHANGED <<history, rows, heard, lost>>
      /\ IF batch = << >> THEN UNCHANGED <<chats, reading>>
         ELSE \E name \in GetChatName(c) : StoreChat(c, name, batch[1].at)
  BY <1>3, <1>4, <1>5, <1>7 DEF Answer
<1>9. n \in Nat /\ n <= place - 1
  BY <1>1, <1>6, <1>5 DEF Least
<1>10. batch \in Seq(Message) /\ Len(batch) = n /\ DOMAIN batch = 1 .. n
  <2>1. \A i \in 1 .. n : history[c][place - i] \in Message
    BY <1>6, <1>9
  <2>2. batch \in [1 .. n -> Message]
    BY <1>7, <2>1
  <2> QED
    BY <1>9, <2>2
<1>11. /\ left' \in [Writers -> Seq(Message)] /\ left'["sync"] = batch
       /\ left'["live"] = left["live"]
  BY <1>8, <1>10 DEF CacheInv, LeftOK, Writers
<1>12. TableOK(chats)' /\ ChatsOfRows'
  <2>1. CASE batch = << >>
    BY <1>8, <2>1 DEF CacheInv, TableOK, ChatsOfRows
  <2>2. CASE batch # << >>
    <3>1. PICK name \in GetChatName(c) : StoreChat(c, name, batch[1].at)
      BY <1>8, <2>2
    <3>2. batch[1].at \in Nat
      <4>1. batch[1] \in Message
        BY <1>10, <2>2
      <4> QED
        BY <4>1 DEF Message
    <3>3. name \in NamesOf[c]
      BY <1>6, NamesKnown
    <3> QED
      BY <1>8, <3>1, <3>2, <3>3, StoreChatTable
  <2> QED
    BY <2>1, <2>2
<1>13. CoveredFrom(c, place - 1)
  <2>1. CoveredFrom(c, place) \/ history[c][place] \in heard
    BY <1>1, <1>6 DEF CacheInv, NoHole
  <2>2. CASE CoveredFrom(c, place)
    BY <1>1, <1>6, <2>2, CoveredBelow DEF CacheInv, CacheOK
  <2>3. CASE history[c][place] \in heard
    <3> SUFFICES ASSUME NEW k \in DOMAIN history[c], place - 1 < k
                 PROVE  Covered(c, place - 1, k)
      BY DEF CoveredFrom
    <3>1. k = place \/ place < k
      BY <1>6
    <3>2. place - 1 < place
      BY <1>6
    <3> QED
      BY <1>1, <1>6, <2>3, <3>1, <3>2 DEF Covered
  <2> QED
    BY <2>1, <2>2, <2>3
<1>14. ASSUME batch # << >>
       PROVE  place - 1 \in DOMAIN history[c] /\ Descends(c, place - 1)'
  <2>1. n # 0
    BY <1>10, <1>14
  <2>2. place - 1 \in DOMAIN history[c]
    BY <1>6, <1>9, <2>1
  <2>3. \A i \in 1 .. n : batch[i] = history[c][(place - 1) - i + 1]
    <3> TAKE i \in 1 .. n
    <3>1. (place - 1) - i + 1 = place - i
      BY <1>6, <1>9
    <3> QED
      BY <1>7, <3>1
  <2>4. CoveredFrom(c, place - 1)'
    BY <1>8, <1>13 DEF CoveredFrom, Covered
  <2> QED
    BY <1>8, <1>9, <1>10, <1>11, <2>2, <2>3, <2>4 DEF Descends
<1>15. LeftOK'
  BY <1>6, <1>8, <1>11, <1>14 DEF CacheInv, LeftOK, Messages
<1>16. RequestsOK'
  BY <1>8, FewerRequests DEF CacheInv
<1>17. CacheOK' /\ NoHole'
  BY <1>8, SameRows
<1> QED
  BY <1>8, <1>12, <1>15, <1>16, <1>17 DEF CacheInv

LEMMA UnansweredCache ==
    ASSUME CacheInv, NEW r \in requests, Unanswered(r)
    PROVE  CacheInv'
<1>1. UNCHANGED <<history, chats, rows, left, heard, lost>> /\ requests' = requests \ {r}
  BY DEF Unanswered
<1>2. RequestsOK'
  BY <1>1, FewerRequests DEF CacheInv
<1>3. CacheOK' /\ NoHole'
  BY <1>1, SameRows
<1>4. TableOK(chats)' /\ ChatsOfRows' /\ LeftOK'
  BY <1>1, LeftGrows DEF CacheInv, TableOK, ChatsOfRows, LeftOK
<1> QED
  BY <1>2, <1>3, <1>4 DEF CacheInv

\* The next message of a batch is the next one down; a live one lies anywhere.
LEMMA StoreNextCache ==
    ASSUME CacheInv, NEW w \in Writers, StoreNext(w)
    PROVE  CacheInv' /\ rows \subseteq rows'
<1>1. PICK s \in Seq(Message) : s = left[w]
  BY DEF CacheInv, LeftOK
<1>2. /\ s # << >> /\ (Stored(w, Head(s)) \/ NotStored(w, Head(s)))
      /\ left' = [left EXCEPT ![w] = Tail(s)] /\ UNCHANGED <<history, chats, requests>>
  BY <1>1 DEF StoreNext
<1>3. /\ Head(s) = s[1] /\ 1 \in DOMAIN s /\ Tail(s) \in Seq(Message)
      /\ Len(Tail(s)) = Len(s) - 1 /\ Len(s) \in Nat /\ DOMAIN s = 1 .. Len(s)
      /\ DOMAIN Tail(s) = 1 .. Len(s) - 1
      /\ \A i \in 1 .. Len(s) - 1 : Tail(s)[i] = s[i + 1]
  BY <1>1, <1>2
<1>4. left' \in [Writers -> Seq(Message)] /\ left'[w] = Tail(s)
      /\ \A v \in Writers : v # w => left'[v] = left[v]
  BY <1>2, <1>3 DEF CacheInv, LeftOK
<1>5. RequestsOK' /\ LeftOK' /\ CacheInv' /\ rows \subseteq rows'
  <2>1. CASE w = "live"
    <3>1. PICK c \in Chat : \E p \in DOMAIN history[c] : Head(s) = history[c][p]
      BY <1>1, <1>3, <2>1, PlaceOf DEF CacheInv, CacheOK, LeftOK
    <3>2. PICK p \in DOMAIN history[c] : Head(s) = history[c][p]
      BY <3>1
    <3>3. /\ CacheOK' /\ TableOK(chats)' /\ ChatsOfRows' /\ NoHole'
          /\ rows \subseteq rows' /\ heard \subseteq heard'
          /\ rows \union lost \subseteq rows' \union lost'
      BY <1>2, <2>1, <3>2, StoreRow
    <3>4. \A i \in DOMAIN left'["live"] : left'["live"][i] \in Messages
      <4> SUFFICES ASSUME NEW i \in 1 .. Len(s) - 1 PROVE s[i + 1] \in Messages
        BY <1>3, <1>4, <2>1
      <4>1. i + 1 \in DOMAIN s
        BY <1>3
      <4> QED
        BY <1>1, <2>1, <4>1 DEF CacheInv, LeftOK
    <3>5. LeftOK'
      BY <1>2, <1>4, <2>1, <3>3, <3>4, LeftGrows DEF CacheInv, Writers
    <3>6. RequestsOK'
      BY <1>2, <3>3, RequestsGrow DEF CacheInv
    <3> QED
      BY <3>3, <3>5, <3>6 DEF CacheInv
  <2>2. CASE w = "sync"
    <3>1. PICK c \in Chat : \E p \in DOMAIN history[c] : Descends(c, p)
      BY <1>1, <1>2, <2>2 DEF CacheInv, LeftOK
    <3>2. PICK p \in DOMAIN history[c] : Descends(c, p)
      BY <3>1
    <3>3. history[c] \in Seq(Message) /\ p \in Nat \ {0} /\ p <= Len(history[c])
      BY PlaceOf DEF CacheInv, CacheOK
    <3>4. /\ Len(s) <= p /\ (\A i \in DOMAIN s : s[i] = history[c][p - i + 1])
          /\ CoveredFrom(c, p)
      BY <1>1, <2>2, <3>2 DEF Descends
    <3>5. Head(s) = history[c][p]
      <4>1. p - 1 + 1 = p
        BY <3>3
      <4> QED
        BY <1>3, <3>4, <4>1
    <3>6. /\ CacheOK' /\ TableOK(chats)' /\ ChatsOfRows' /\ NoHole'
          /\ rows \subseteq rows' /\ heard \subseteq heard'
          /\ rows \union lost \subseteq rows' \union lost'
          /\ history[c][p].kept => history[c][p] \in rows' \union lost'
      BY <1>2, <2>2, <3>4, <3>5, StoreRow
    <3>7. CoveredFrom(c, p - 1)'
      <4>1. CoveredFrom(c, p)'
        BY <1>2, <3>4, <3>6, CoveredGrows
      <4>2. \A k \in DOMAIN history[c] : k \in Nat
        BY PlaceOf DEF CacheInv, CacheOK
      <4> SUFFICES ASSUME NEW k \in DOMAIN history[c], p - 1 < k, history[c][k].kept
                   PROVE  Covered(c, p - 1, k)'
        BY <1>2 DEF CoveredFrom
      <4>3. CASE k = p
        BY <1>2, <3>6, <4>3 DEF Covered
      <4>4. CASE k # p
        <5>1. p < k
          BY <3>3, <4>2, <4>4
        <5>2. Covered(c, p, k)'
          BY <1>2, <4>1, <5>1 DEF CoveredFrom
        <5>3. \A j \in DOMAIN history[c] : p < j => p - 1 < j
          BY <3>3, <4>2
        <5> QED
          BY <1>2, <5>2, <5>3 DEF Covered
      <4> QED
        BY <4>3, <4>4
    <3>8. ASSUME Tail(s) # << >>
          PROVE  p - 1 \in DOMAIN history[c] /\ Descends(c, p - 1)'
      <4>1. Len(s) - 1 # 0
        BY <1>3, <3>8
      <4>2. p - 1 \in DOMAIN history[c] /\ Len(s) - 1 <= p - 1
        BY <1>3, <3>3, <3>4, <4>1
      <4>3. \A i \in 1 .. Len(s) - 1 : Tail(s)[i] = history[c][(p - 1) - i + 1]
        <5> TAKE i \in 1 .. Len(s) - 1
        <5>1. i + 1 \in DOMAIN s /\ p - (i + 1) + 1 = (p - 1) - i + 1
          BY <1>3, <3>3
        <5> QED
          BY <1>3, <3>4, <5>1
      <4> QED
        BY <1>2, <1>3, <1>4, <2>2, <3>7, <4>2, <4>3 DEF Descends
    <3>9. LeftOK'
      <4>1. left'["live"] = left["live"] /\ left'["sync"] = Tail(s)
        BY <1>4, <2>2 DEF Writers
      <4>2. \A i \in DOMAIN left'["live"] : left'["live"][i] \in Messages'
        <5>1. UNCHANGED Messages
          BY <1>2 DEF Messages
        <5>2. \A i \in DOMAIN left["live"] : left["live"][i] \in Messages
          BY DEF CacheInv, LeftOK
        <5> QED
          BY <4>1, <5>1, <5>2
      <4>3. left'["sync"] # << >> =>
               \E d \in Chat : \E q \in DOMAIN history'[d] : Descends(d, q)'
        BY <1>2, <3>8, <4>1
      <4> QED
        BY <1>4, <4>2, <4>3 DEF LeftOK
    <3>10. RequestsOK'
      BY <1>2, <3>6, RequestsGrow DEF CacheInv
    <3> QED
      BY <3>6, <3>9, <3>10 DEF CacheInv
  <2> QED
    BY <2>1, <2>2 DEF Writers
<1> QED
  BY <1>5

-------------------------------------------------------------------------------
(* What the statements return.                                             *)

\* ORDER BY timestamp DESC LIMIT n gives n rows, or all of them.
LEMMA NewestRows ==
    ASSUME NEW S, IsFiniteSet(S), NEW n \in Nat, NEW R \in Newest(S, n)
    PROVE  /\ R \subseteq S /\ IsFiniteSet(R) /\ Cardinality(R) \in Nat
           /\ Cardinality(R) <= n
           /\ R = S \/ Cardinality(R) = n
           /\ \A r \in R, o \in S \ R : r.at >= o.at
<1>1. R \subseteq S /\ Cardinality(R) = Least(n, Cardinality(S))
      /\ \A r \in R, o \in S \ R : r.at >= o.at
  BY DEF Newest
<1>2. IsFiniteSet(R) /\ (Cardinality(S) = Cardinality(R) => S = R)
  BY <1>1, FS_Subset
<1>3. Cardinality(R) \in Nat /\ Cardinality(S) \in Nat
  BY <1>2, FS_CardinalityType
<1>4. CASE n < Cardinality(S)
  BY <1>1, <1>2, <1>3, <1>4 DEF Least
<1>5. CASE ~(n < Cardinality(S))
  BY <1>1, <1>2, <1>3, <1>5 DEF Least
<1> QED
  BY <1>4, <1>5

\* A page of a listing: a row that shares its time with no other and has a page's
\* number of newer rows for every page before is on the page, or has as many for
\* this page too.
LEMMA PageOrBehind ==
    ASSUME NEW S, IsFiniteSet(S), \A x \in S : x.at \in Int,
           NEW p \in Nat, NEW limit \in Nat, NEW R \in Page(S, p, limit),
           NEW m \in S, \A o \in S \ {m} : o.at # m.at,
           NEW A \in SUBSET S, \A o \in A : o.at > m.at, p * limit <= Cardinality(A)
    PROVE  m \in R \/ (/\ Cardinality(R) = limit
                       /\ \E B \in SUBSET S : /\ \A o \in B : o.at > m.at
                                              /\ (p + 1) * limit <= Cardinality(B))
<1>0. PICK skip \in Nat : skip = p * limit
  OBVIOUS
<1>1. PICK skipped \in Newest(S, skip) : R \in Newest(S \ skipped, limit)
  BY <1>0 DEF Page
<1>2. /\ skipped \subseteq S /\ IsFiniteSet(skipped) /\ Cardinality(skipped) \in Nat
      /\ Cardinality(skipped) <= skip /\ (skipped = S \/ Cardinality(skipped) = skip)
      /\ \A r \in skipped, o \in S \ skipped : r.at >= o.at
  BY NewestRows
<1>3. IsFiniteSet(S \ skipped)
  BY FS_Subset
<1>4. /\ R \subseteq S \ skipped /\ IsFiniteSet(R) /\ Cardinality(R) \in Nat
      /\ (R = S \ skipped \/ Cardinality(R) = limit)
      /\ \A r \in R, o \in (S \ skipped) \ R : r.at >= o.at
  BY <1>1, <1>3, NewestRows
<1>5. m \notin skipped
  <2> SUFFICES ASSUME m \in skipped PROVE FALSE
    OBVIOUS
  <2>1. A \subseteq skipped \ {m}
    BY <1>2
  <2>2. IsFiniteSet(skipped \ {m}) /\ Cardinality(skipped \ {m}) = Cardinality(skipped) - 1
    BY <1>2, FS_RemoveElement
  <2>3. Cardinality(A) <= Cardinality(skipped \ {m}) /\ Cardinality(A) \in Nat
    BY <2>1, <2>2, FS_Subset, FS_CardinalityType
  <2> QED
    BY <1>0, <1>2, <2>2, <2>3
<1>6. ASSUME m \notin R
      PROVE  /\ Cardinality(R) = limit
             /\ \E B \in SUBSET S : /\ \A o \in B : o.at > m.at
                                    /\ (p + 1) * limit <= Cardinality(B)
  <2> DEFINE B == skipped \union R
  <2>1. Cardinality(R) = limit /\ Cardinality(skipped) = skip
    BY <1>2, <1>4, <1>5, <1>6
  <2>2. \A o \in B : o.at > m.at
    <3> TAKE o \in B
    <3>1. o.at >= m.at /\ o \in S \ {m}
      BY <1>2, <1>4, <1>5, <1>6
    <3> QED
      BY <3>1
  <2>3. Cardinality(B) = skip + limit
    <3>1. skipped \cap R = {}
      BY <1>4
    <3>2. Cardinality(skipped \cap R) = 0
      BY <3>1, FS_EmptySet
    <3>3. Cardinality(skipped \union R)
             = Cardinality(skipped) + Cardinality(R) - Cardinality(skipped \cap R)
      BY <1>2, <1>4, FS_Union
    <3> QED
      BY <2>1, <3>2, <3>3
  <2>4. (p + 1) * limit = skip + limit
    BY <1>0
  <2>5. B \in SUBSET S
    BY <1>2, <1>4
  <2> QED
    BY <2>1, <2>2, <2>3, <2>4, <2>5
<1> QED
  BY <1>6

\* The entries of a chats table, one for each of its rows.
Entry == [chat : Chat, at : Int]
OneEach(S) == \A x, y \in S : x.chat = y.chat => x = y
LEMMA SortedEntries ==
    ASSUME NEW table, TableOK(table), NEW sort
    PROVE  /\ IsFiniteSet(Sorted(table, sort)) /\ Sorted(table, sort) \subseteq Entry
           /\ OneEach(Sorted(table, sort))
           /\ \A e \in Sorted(table, sort) : \E r \in table : r.chat = e.chat
<1> DEFINE entry(r) == [chat |-> r.chat, at |-> IF sort = "name" THEN 0 - r.name ELSE r.at]
           S == Sorted(table, sort)
           f == [r \in table |-> entry(r)]
<1>1. f \in Surjection(table, S)
  BY DEF Sorted, Surjection
<1>2. IsFiniteSet(S)
  BY <1>1, FS_Surjection DEF TableOK
<1>3. \A r \in table : entry(r) \in Entry /\ entry(r).chat = r.chat
  BY DEF TableOK, ChatRow, Entry
<1>4. \A e \in S : \E r \in table : e = entry(r)
  BY DEF Sorted
<1>5. S \subseteq Entry /\ \A e \in S : \E r \in table : r.chat = e.chat
  BY <1>3, <1>4
<1>6. OneEach(S)
  BY <1>3, <1>4 DEF OneEach, TableOK
<1> QED
  BY <1>2, <1>5, <1>6

\* As many chats come before an entry as entries do.
LEMMA BeforeEntries ==
    ASSUME NEW S, IsFiniteSet(S), OneEach(S), NEW e
    PROVE  LET A == {x \in S : x.at > e.at}
           IN  /\ IsFiniteSet(A) /\ IsFiniteSet(Before(S, e))
               /\ Cardinality(Before(S, e)) = Cardinality(A) /\ Cardinality(A) \in Nat
<1> DEFINE A == {x \in S : x.at > e.at}
           f == [x \in A |-> x.chat]
<1>1. IsFiniteSet(A)
  <2>1. A \in SUBSET S
    OBVIOUS
  <2> QED
    BY <2>1, FS_Subset
<1>2. f \in Surjection(A, Before(S, e))
  BY DEF Surjection, Before
<1>3. f \in Injection(A, Before(S, e))
  BY <1>2 DEF Injection, IsInjective, Surjection, OneEach
<1> QED
  BY <1>1, <1>2, <1>3, FS_Surjection, FS_CardinalityType

-------------------------------------------------------------------------------
(* The reading calls.                                                      *)

ListCall ==
    [tool : {"list_messages"}, filter : Filter, page : Nat, seen : SUBSET Message,
     limit : Nat \ {0}, had : SUBSET Message, over : BOOLEAN]
ChatsCall ==
    [tool : {"list_chats"}, sort : {"name", "last_active"}, page : Nat, seen : SUBSET Chat,
     limit : Nat \ {0}, still : SUBSET Entry, over : BOOLEAN]
ContextCall ==
    [tool : {"get_message_context"}, target : Message, had : SUBSET Message,
     width : Nat \ {0}, before : SUBSET Message, after : SUBSET Message,
     more : {0, 1, 2}, over : BOOLEAN]

\* A row not listed yet has a page of newer rows for every page read.
RowsAhead(m) ==
    \E A \in SUBSET Matching(reading.filter) :
        /\ \A o \in A : o.at > m.at
        /\ reading.page * reading.limit <= Cardinality(A)
ListingOK ==
    reading.tool = "list_messages" =>
        /\ reading.had \subseteq Matching(reading.filter) /\ reading.seen \subseteq rows
        /\ \A m \in reading.had \cap Alone(Matching(reading.filter)) :
              m \in reading.seen \/ (~reading.over /\ RowsAhead(m))

\* A chat still in place and not listed yet has a page of chats before it for every
\* page read.
ChatsAhead(e) ==
    reading.page * reading.limit <= Cardinality(Before(Sorted(chats, reading.sort), e))
ChatsOK ==
    reading.tool = "list_chats" =>
        /\ reading.seen \subseteq {r.chat : r \in chats}
        /\ reading.still \subseteq Alone(Sorted(chats, reading.sort))
        /\ \A e \in reading.still :
              e.chat \in reading.seen \/ (~reading.over /\ ChatsAhead(e))

\* What has been read on one side of the message is of its chat and has no gap.
BeforeOK ==
    /\ \A m \in reading.before : m.chat = reading.target.chat /\ m.at < reading.target.at
    /\ \A m \in reading.had :
          m.at < reading.target.at /\ (\E b \in reading.before : b.at < m.at)
          => m \in reading.before
AfterOK ==
    /\ \A m \in reading.after : m.chat = reading.target.chat /\ m.at > reading.target.at
    /\ \A m \in reading.had :
          m.at > reading.target.at /\ (\E a \in reading.after : a.at > m.at)
          => m \in reading.after
ContextOK ==
    reading.tool = "get_message_context" =>
        /\ reading.had \subseteq RowsOf(reading.target.chat)
        /\ reading.before \union reading.after \subseteq rows
        /\ reading.more # 2 => BeforeOK
        /\ reading.more = 0 => AfterOK
        /\ reading.over => reading.more = 0

ReadingOK ==
    /\ reading \in {Idle} \union ListCall \union ChatsCall \union ContextCall
    /\ ListingOK /\ ChatsOK /\ ContextOK

\* Rows that arrive while a call reads take nothing from it.
LEMMA ReadingGrows ==
    ASSUME ReadingOK, UNCHANGED <<chats, reading>>, rows \subseteq rows'
    PROVE  ReadingOK'
<1>1. reading' \in {Idle} \union ListCall \union ChatsCall \union ContextCall
  BY DEF ReadingOK
<1>2. ListingOK'
  <2> SUFFICES ASSUME reading.tool = "list_messages" PROVE ListingOK'
    BY DEF ListingOK
  <2>1. PICK f : f = reading.filter
    OBVIOUS
  <2>2. PICK S : S = Matching(f)
    OBVIOUS
  <2>3. PICK T : T = Matching(f)'
    OBVIOUS
  <2>4. S \subseteq T
    BY <2>2, <2>3 DEF Matching
  <2>5. T = Matching(reading.filter)'
    BY <2>1, <2>3 DEF Matching
  <2>6. /\ reading.had \subseteq S /\ reading.seen \subseteq rows
        /\ \A m \in reading.had : m \in Alone(S)
              => \/ m \in reading.seen
                 \/ /\ ~reading.over
                    /\ \E A \in SUBSET S : /\ \A o \in A : o.at > m.at
                                           /\ reading.page * reading.limit <= Cardinality(A)
    BY <2>1, <2>2 DEF ReadingOK, ListingOK, RowsAhead
  <2>7. \A m \in S : m \in Alone(T) => m \in Alone(S)
    BY <2>4 DEF Alone
  <2>8. /\ reading'.had \subseteq T /\ reading'.seen \subseteq rows'
        /\ \A m \in reading'.had : m \in Alone(T)
              => \/ m \in reading'.seen
                 \/ /\ ~reading'.over
                    /\ \E A \in SUBSET T : /\ \A o \in A : o.at > m.at
                                           /\ reading'.page * reading'.limit <= Cardinality(A)
    BY <2>4, <2>6, <2>7
  <2> QED
    BY <2>5, <2>8 DEF ListingOK, RowsAhead
<1>3. ChatsOK'
  BY DEF ReadingOK, ChatsOK, ChatsAhead
<1>4. ContextOK'
  BY DEF ReadingOK, ContextOK, BeforeOK, AfterOK, RowsOf
<1> QED
  BY <1>1, <1>2, <1>3, <1>4 DEF ReadingOK

\* A chat's row that is replaced leaves before an entry in place as many as before.
LEMMA StoreChatReading ==
    ASSUME CacheInv, TableOK(chats)', ReadingOK, NEW c \in Chat, NEW name, NEW at,
           {r.chat : r \in chats} \subseteq {r.chat : r \in chats'},
           StoreChat(c, name, at), UNCHANGED rows
    PROVE  ReadingOK'
<1>1. CASE UNCHANGED <<chats, reading>>
  BY <1>1, ReadingGrows
<1>2. CASE ~UNCHANGED <<chats, reading>> /\ reading.tool # "list_chats"
  <2>1. reading' = reading
    BY <1>2 DEF StoreChat
  <2>2. ListingOK' /\ ContextOK' /\ ChatsOK'
    BY <1>2, <2>1 DEF ReadingOK, ListingOK, ContextOK, ChatsOK, RowsAhead, BeforeOK, AfterOK,
       Matching, RowsOf
  <2> QED
    BY <2>1, <2>2 DEF ReadingOK
<1>3. CASE ~UNCHANGED <<chats, reading>> /\ reading.tool = "list_chats"
  <2>1. reading \in ChatsCall
    BY <1>3 DEF ReadingOK, Idle, ListCall, ContextCall
  <2>2. PICK sort : sort = reading.sort
    OBVIOUS
  <2>3. PICK S : S = Sorted(chats, sort)
    OBVIOUS
  <2>4. PICK T : T = Sorted(chats', sort)
    OBVIOUS
  <2>5. PICK still : still = InPlace(reading.still, S, T)
    OBVIOUS
  <2>6. reading' = [reading EXCEPT !.still = still]
    BY <1>3, <2>2, <2>3, <2>4, <2>5 DEF StoreChat
  <2>7. still \subseteq reading.still /\ still \subseteq Alone(T)
        /\ \A e \in still : Before(S, e) \subseteq Before(T, e)
    BY <2>5 DEF InPlace
  <2>8. still \in SUBSET Entry
    BY <2>1, <2>7 DEF ChatsCall
  <2>9. /\ reading' \in ChatsCall /\ reading'.tool = "list_chats" /\ reading'.still = still
        /\ reading'.sort = sort /\ reading'.page = reading.page
        /\ reading'.seen = reading.seen /\ reading'.limit = reading.limit
        /\ reading'.over = reading.over
    BY <2>1, <2>2, <2>6, <2>8 DEF ChatsCall
  <2>10. /\ reading.page * reading.limit \in Nat
         /\ reading'.page * reading'.limit = reading.page * reading.limit
    BY <2>1, <2>9 DEF ChatsCall
  <2>11. \A e : /\ IsFiniteSet(Before(T, e)) /\ Cardinality(Before(T, e)) \in Nat
                /\ Cardinality(Before(S, e)) \in Nat
    <3> TAKE e
    <3>1. IsFiniteSet(S) /\ OneEach(S)
      BY <2>3, SortedEntries DEF CacheInv
    <3>2. TableOK(chats')
      BY DEF TableOK
    <3>3. IsFiniteSet(T) /\ OneEach(T)
      BY <2>4, <3>2, SortedEntries
    <3> QED
      BY <3>1, <3>3, BeforeEntries, FS_CardinalityType
  <2>12. ASSUME NEW e \in still, e.chat \notin reading.seen
         PROVE  ~reading.over /\ reading.page * reading.limit <= Cardinality(Before(T, e))
    <3>1. ~reading.over /\ reading.page * reading.limit <= Cardinality(Before(S, e))
      BY <1>3, <2>2, <2>3, <2>7, <2>12 DEF ReadingOK, ChatsOK, ChatsAhead
    <3>2. Cardinality(Before(S, e)) <= Cardinality(Before(T, e))
      BY <2>7, <2>11, FS_Subset
    <3> QED
      BY <2>10, <2>11, <3>1, <3>2
  <2>13. reading.seen \subseteq {r.chat : r \in chats'}
    BY <1>3 DEF ReadingOK, ChatsOK
  <2>14. T = Sorted(chats, reading.sort)'
    BY <2>4, <2>9
  <2>15. ChatsOK'
    BY <2>7, <2>9, <2>12, <2>13, <2>14 DEF ChatsOK, ChatsAhead
  <2> QED
    BY <2>9, <2>15 DEF ReadingOK, ListingOK, ContextOK
<1> QED
  BY <1>1, <1>2, <1>3

\* To a listing by name a message that comes, under the name its chat has, moves nothing:
\* a chat stays in place unless another takes its name.
LEMMA NameOrderStays ==
    ASSUME CacheInv, NEW c \in Chat, NEW name \in GetChatName(c), NEW at,
           chats' = {r \in chats : r.chat # c}
                        \union {[chat |-> c, name |-> name, at |-> at]},
           NEW still \in SUBSET Sorted(chats, "name")
    PROVE  InPlace(still, Sorted(chats, "name"), Sorted(chats', "name"))
               = still \cap Alone(Sorted(chats', "name"))
<1> DEFINE entry(r) == [chat |-> r.chat, at |-> 0 - r.name]
           new == [chat |-> c, name |-> name, at |-> at]
<1>1. \A table : Sorted(table, "name") = {entry(r) : r \in table}
  BY DEF Sorted
<1>2. \A r \in chats : r.chat = c => entry(r) = entry(new)
  <2> SUFFICES ASSUME NEW r \in chats, r.chat = c PROVE r.name = name
    OBVIOUS
  <2>1. \A x \in chats : x.chat = c => x = r
    BY DEF CacheInv, TableOK
  <2> QED
    BY <2>1 DEF GetChatName
<1>3. Sorted(chats, "name") \subseteq Sorted(chats', "name")
  <2> SUFFICES ASSUME NEW r \in chats PROVE \E s \in chats' : entry(r) = entry(s)
    <3>1. \A x \in Sorted(chats, "name") : \E r \in chats : x = entry(r)
      BY <1>1
    <3>2. \A s \in chats' : entry(s) \in Sorted(chats', "name")
      BY <1>1
    <3> HIDE DEF entry
    <3> QED
      BY <3>1, <3>2
  <2>1. CASE r.chat = c
    BY <1>2, <2>1
  <2>2. CASE r.chat # c
    BY <2>2
  <2> QED
    BY <2>1, <2>2
<1>4. \A e : Before(Sorted(chats, "name"), e) \subseteq Before(Sorted(chats', "name"), e)
  BY <1>3 DEF Before
<1> QED
  BY <1>4 DEF InPlace

LEMMA IdleReading ==
    ASSUME reading' = Idle
    PROVE  ReadingOK'
BY DEF ReadingOK, ListingOK, ChatsOK, ContextOK, Idle

LEMMA RowsAreMessages ==
    ASSUME CacheInv
    PROVE  /\ rows \subseteq Message /\ IsFiniteSet(rows)
           /\ \A m \in rows : m.at \in Nat /\ m.chat \in Chat /\ m.chat \in Nat
<1>1. rows \subseteq Message /\ IsFiniteSet(rows)
  BY PlaceOf DEF CacheInv, CacheOK
<1>2. \A m \in Message : m.at \in Nat /\ m.chat \in Chat /\ m.chat \in Nat
  BY ReadConstants DEF Message
<1> QED
  BY <1>1, <1>2

LEMMA StartListingReading ==
    ASSUME CacheInv, NEW f \in Filter, NEW asked \in Asked, StartListing(f, asked)
    PROVE  ReadingOK'
<1>1. PICK limit : limit = OrDefault(Least(asked, MaxLimit), DefaultLimit)
  OBVIOUS
<1>2. PICK had : had = Alone(Matching(f))
  OBVIOUS
<1>3. /\ reading' = [tool |-> "list_messages", filter |-> f, page |-> 0, seen |-> {},
                     limit |-> limit, had |-> had, over |-> FALSE]
      /\ UNCHANGED rows
  BY <1>1, <1>2 DEF StartListing, cache
<1>4. limit \in Nat \ {0}
  <2>1. Least(asked, MaxLimit) \in Int
    BY ReadConstants DEF Least
  <2> QED
    BY <1>1, <2>1, DefaultIsPositive, ReadConstants
<1>5. had \subseteq Matching(f) /\ had \subseteq Message
  BY <1>2, RowsAreMessages DEF Matching, Alone
<1>6. /\ reading' \in ListCall /\ reading'.tool = "list_messages"
      /\ reading'.filter = f /\ reading'.page = 0 /\ reading'.seen = {}
      /\ reading'.limit = limit /\ reading'.had = had /\ ~reading'.over
  BY <1>3, <1>4, <1>5 DEF ListCall
<1>7. \A m : RowsAhead(m)'
  <2>1. reading'.page * reading'.limit <= Cardinality({})
    BY <1>4, <1>6, FS_EmptySet
  <2> QED
    BY <2>1 DEF RowsAhead
<1>8. ListingOK'
  <2>1. Matching(reading.filter)' = Matching(f)
    BY <1>3, <1>6 DEF Matching
  <2> QED
    BY <1>5, <1>6, <1>7, <2>1 DEF ListingOK
<1> QED
  BY <1>6, <1>8 DEF ReadingOK, ChatsOK, ContextOK

LEMMA ListMessagesReading ==
    ASSUME CacheInv, ReadingOK, ListMessages
    PROVE  ReadingOK'
<1>1. reading.tool = "list_messages" /\ ~reading.over /\ UNCHANGED rows
  BY DEF ListMessages, cache
<1>2. reading \in ListCall
  BY <1>1 DEF ReadingOK, Idle, ChatsCall, ContextCall
<1>3. PICK f : f = reading.filter
  OBVIOUS
<1>4. PICK S : S = Matching(f)
  OBVIOUS
<1>5. PICK p \in Nat : p = reading.page
  BY <1>2 DEF ListCall
<1>6. PICK limit \in Nat \ {0} : limit = reading.limit
  BY <1>2 DEF ListCall
<1>7. PICK R \in Page(S, p, limit) :
         reading' = [reading EXCEPT !.seen = @ \union R, !.page = @ + 1,
                                    !.over = Cardinality(R) < reading.limit]
  BY <1>3, <1>4, <1>5, <1>6 DEF ListMessages
<1>8. S \subseteq rows /\ IsFiniteSet(S) /\ (\A x \in S : x.at \in Int)
      /\ S \subseteq Message
  <2>1. S \in SUBSET rows
    BY <1>4 DEF Matching
  <2> QED
    BY <2>1, RowsAreMessages, FS_Subset
<1>9. R \subseteq S
  <2>1. PICK skipped : R \in Newest(S \ skipped, limit)
    BY <1>7 DEF Page
  <2> QED
    BY <2>1 DEF Newest
<1>10. (reading.seen \union R) \in SUBSET Message /\ reading.page + 1 \in Nat
       /\ (Cardinality(R) < reading.limit) \in BOOLEAN
  BY <1>2, <1>8, <1>9 DEF ListCall
<1>11. /\ reading' \in ListCall /\ reading'.tool = "list_messages"
       /\ reading'.seen = reading.seen \union R /\ reading'.page = reading.page + 1
       /\ reading'.over = (Cardinality(R) < reading.limit)
       /\ reading'.filter = reading.filter /\ reading'.limit = reading.limit
       /\ reading'.had = reading.had
  BY <1>2, <1>7, <1>10 DEF ListCall
<1>12. Matching(reading.filter)' = S
  BY <1>1, <1>3, <1>4, <1>11 DEF Matching
<1>13. /\ reading.had \subseteq S /\ reading.seen \subseteq rows
       /\ \A m \in reading.had : m \in Alone(S)
             => \/ m \in reading.seen
                \/ \E A \in SUBSET S : /\ \A o \in A : o.at > m.at
                                       /\ p * limit <= Cardinality(A)
  BY <1>1, <1>3, <1>4, <1>5, <1>6 DEF ReadingOK, ListingOK, RowsAhead
<1>14. ASSUME NEW m \in reading.had, m \in Alone(S)
       PROVE  \/ m \in reading.seen \union R
              \/ /\ Cardinality(R) = limit
                 /\ \E B \in SUBSET S : /\ \A o \in B : o.at > m.at
                                        /\ (p + 1) * limit <= Cardinality(B)
  <2>1. CASE m \in reading.seen
    BY <2>1
  <2>2. CASE m \notin reading.seen
    <3>1. PICK A \in SUBSET S : /\ \A o \in A : o.at > m.at
                                /\ p * limit <= Cardinality(A)
      BY <1>13, <1>14, <2>2
    <3>2. m \in S /\ \A o \in S \ {m} : o.at # m.at
      BY <1>14 DEF Alone
    <3> QED
      BY <1>7, <1>8, <1>14, <3>1, <3>2, PageOrBehind
  <2> QED
    BY <2>1, <2>2
<1>15. \A m \in reading.had : m \in Alone(S)
          => m \in reading'.seen \/ (~reading'.over /\ RowsAhead(m)')
  <2> SUFFICES ASSUME NEW m \in reading.had, m \in Alone(S),
                      m \notin reading'.seen
               PROVE  ~reading'.over /\ RowsAhead(m)'
    OBVIOUS
  <2>1. /\ Cardinality(R) = limit
        /\ \E B \in SUBSET S : /\ \A o \in B : o.at > m.at
                               /\ (p + 1) * limit <= Cardinality(B)
    BY <1>11, <1>14
  <2>2. ~(Cardinality(R) < reading.limit)
    BY <1>6, <2>1
  <2>3. ~reading'.over
    BY <1>11, <2>2, Zenon
  <2>4. reading'.page = p + 1 /\ reading'.limit = limit
    BY <1>5, <1>6, <1>11
  <2> QED
    BY <1>12, <2>1, <2>3, <2>4 DEF RowsAhead
<1>16. ListingOK'
  BY <1>1, <1>8, <1>9, <1>11, <1>12, <1>13, <1>15 DEF ListingOK
<1> QED
  BY <1>11, <1>16 DEF ReadingOK, ChatsOK, ContextOK

LEMMA StartChatsReading ==
    ASSUME CacheInv, NEW asked \in Asked, NEW sort \in {"name", "last_active"},
           StartChats(asked, sort)
    PROVE  ReadingOK'
<1>1. PICK limit : limit = OrDefault(asked, DefaultLimit)
  OBVIOUS
<1>2. PICK S : S = Sorted(chats, sort)
  OBVIOUS
<1>3. /\ reading' = [tool |-> "list_chats", sort |-> sort, page |-> 0, seen |-> {},
                     limit |-> limit, still |-> Alone(S), over |-> FALSE]
      /\ UNCHANGED chats
  BY <1>1, <1>2 DEF StartChats, cache
<1>4. limit \in Nat \ {0}
  BY <1>1, DefaultIsPositive, ReadConstants
<1>5. IsFiniteSet(S) /\ OneEach(S) /\ Alone(S) \in SUBSET Entry
  BY <1>2, SortedEntries DEF CacheInv, Alone
<1>6. /\ reading' \in ChatsCall /\ reading'.tool = "list_chats" /\ reading'.sort = sort
      /\ reading'.page = 0 /\ reading'.seen = {}
      /\ reading'.limit = limit /\ reading'.still = Alone(S) /\ ~reading'.over
  BY <1>3, <1>4, <1>5 DEF ChatsCall
<1>7. S = Sorted(chats, reading.sort)'
  BY <1>2, <1>3, <1>6
<1>8. \A e : ChatsAhead(e)'
  <2> TAKE e
  <2>1. reading'.page * reading'.limit = 0
    BY <1>4, <1>6
  <2>2. Cardinality(Before(S, e)) \in Nat
    BY <1>5, BeforeEntries
  <2> QED
    BY <1>7, <2>1, <2>2 DEF ChatsAhead
<1>9. ChatsOK'
  BY <1>6, <1>7, <1>8 DEF ChatsOK
<1> QED
  BY <1>6, <1>9 DEF ReadingOK, ListingOK, ContextOK

LEMMA ListChatsReading ==
    ASSUME CacheInv, ReadingOK, ListChats
    PROVE  ReadingOK'
<1>1. reading.tool = "list_chats" /\ ~reading.over /\ UNCHANGED chats
  BY DEF ListChats, cache
<1>2. reading \in ChatsCall
  BY <1>1 DEF ReadingOK, Idle, ListCall, ContextCall
<1>3. PICK p \in Nat : p = reading.page
  BY <1>2 DEF ChatsCall
<1>4. PICK limit \in Nat \ {0} : limit = reading.limit
  BY <1>2 DEF ChatsCall
<1>5. PICK S : S = Sorted(chats, reading.sort)
  OBVIOUS
<1>6. /\ IsFiniteSet(S) /\ S \subseteq Entry /\ OneEach(S)
      /\ \A e \in S : \E r \in chats : r.chat = e.chat
  BY <1>5, SortedEntries DEF CacheInv
<1>7. PICK R \in Page(S, p, limit) :
         reading' = [reading EXCEPT !.seen = @ \union {e.chat : e \in R}, !.page = @ + 1,
                                    !.over = Cardinality(R) < reading.limit]
  BY <1>3, <1>4, <1>5 DEF ListChats
<1>8. R \subseteq S
  <2>1. PICK skipped : R \in Newest(S \ skipped, limit)
    BY <1>7 DEF Page
  <2> QED
    BY <2>1 DEF Newest
<1>9. PICK found : found = {e.chat : e \in R}
  OBVIOUS
<1>10. found \subseteq {r.chat : r \in chats} /\ found \subseteq Chat
  BY <1>6, <1>8, <1>9 DEF Entry
<1>11. (reading.seen \union found) \in SUBSET Chat /\ reading.page + 1 \in Nat
       /\ (Cardinality(R) < reading.limit) \in BOOLEAN
  BY <1>2, <1>10 DEF ChatsCall
<1>12. /\ reading' \in ChatsCall /\ reading'.tool = "list_chats"
       /\ reading'.seen = reading.seen \union found /\ reading'.page = reading.page + 1
       /\ reading'.over = (Cardinality(R) < reading.limit)
       /\ reading'.sort = reading.sort /\ reading'.limit = reading.limit
       /\ reading'.still = reading.still
  BY <1>2, <1>7, <1>9, <1>11 DEF ChatsCall
<1>13. S = Sorted(chats, reading.sort)'
  BY <1>1, <1>5, <1>12
<1>14. /\ reading.seen \subseteq {r.chat : r \in chats} /\ reading.still \subseteq Alone(S)
       /\ \A e \in reading.still :
             e.chat \in reading.seen \/ p * limit <= Cardinality(Before(S, e))
  BY <1>1, <1>3, <1>4, <1>5 DEF ReadingOK, ChatsOK, ChatsAhead
<1>15. ASSUME NEW e \in reading.still, e.chat \notin reading'.seen
       PROVE  ~reading'.over /\ ChatsAhead(e)'
  <2> DEFINE A == {x \in S : x.at > e.at}
  <2>1. e \in S /\ \A o \in S \ {e} : o.at # e.at
    BY <1>14 DEF Alone
  <2>2. e \notin R
    BY <1>9, <1>12, <1>15
  <2>3. IsFiniteSet(A) /\ Cardinality(Before(S, e)) = Cardinality(A) /\ Cardinality(A) \in Nat
    BY <1>6, BeforeEntries
  <2>4. p * limit <= Cardinality(A)
    BY <1>12, <1>14, <1>15, <2>3
  <2>5. A \in SUBSET S /\ (\A o \in A : o.at > e.at) /\ \A x \in S : x.at \in Int
    BY <1>6 DEF Entry
  <2>6. /\ Cardinality(R) = limit
        /\ \E B \in SUBSET S : /\ \A o \in B : o.at > e.at
                               /\ (p + 1) * limit <= Cardinality(B)
    <3> HIDE DEF A
    <3> QED
      BY <1>6, <1>7, <2>1, <2>2, <2>4, <2>5, PageOrBehind
  <2>7. PICK B \in SUBSET A : (p + 1) * limit <= Cardinality(B)
    BY <2>6
  <2>8. Cardinality(B) <= Cardinality(A) /\ Cardinality(B) \in Nat
    BY <2>3, FS_Subset, FS_CardinalityType
  <2>9. (p + 1) * limit <= Cardinality(A)
    <3>1. (p + 1) * limit \in Nat
      OBVIOUS
    <3> QED
      BY <2>3, <2>7, <2>8, <3>1
  <2>10. ~(Cardinality(R) < reading.limit)
    BY <1>4, <2>6
  <2>11. ~reading'.over
    BY <1>12, <2>10, Zenon
  <2>12. reading'.page = p + 1 /\ reading'.limit = limit
    BY <1>3, <1>4, <1>12
  <2> QED
    BY <1>13, <2>3, <2>9, <2>11, <2>12 DEF ChatsAhead
<1>16. ChatsOK'
  BY <1>1, <1>10, <1>12, <1>13, <1>14, <1>15 DEF ChatsOK
<1> QED
  BY <1>12, <1>16 DEF ReadingOK, ListingOK, ContextOK

LEMMA LookupReading ==
    ASSUME CacheInv, NEW id, NEW asked \in Asked, Lookup(id, asked)
    PROVE  ReadingOK'
<1>1. PICK width : width = OrDefault(asked, DefaultContext)
  OBVIOUS
<1>2. PICK m \in rows :
         reading' = [tool |-> "get_message_context", target |-> m, had |-> RowsOf(m.chat),
                     width |-> width, before |-> {}, after |-> {}, more |-> 2, over |-> FALSE]
  BY <1>1 DEF Lookup
<1>3. width \in Nat \ {0} /\ UNCHANGED rows
  BY <1>1, DefaultIsPositive, ReadConstants DEF Lookup, cache
<1>4. rows \subseteq Message /\ RowsOf(m.chat) \subseteq rows
  BY RowsAreMessages DEF RowsOf
<1>5. /\ reading' \in ContextCall /\ reading'.tool = "get_message_context"
      /\ reading'.target = m /\ reading'.had = RowsOf(m.chat) /\ reading'.before = {} /\ reading'.after = {}
      /\ reading'.more = 2 /\ ~reading'.over
  BY <1>2, <1>3, <1>4 DEF ContextCall
<1>6. ContextOK'
  BY <1>3, <1>5 DEF ContextOK, RowsOf
<1> QED
  BY <1>5, <1>6 DEF ReadingOK, ListingOK, ChatsOK

LEMMA ReadBeforeReading ==
    ASSUME CacheInv, ReadingOK, ReadBefore
    PROVE  ReadingOK'
<1>1. reading.tool = "get_message_context" /\ reading.more = 2 /\ UNCHANGED rows
  BY DEF ReadBefore, cache
<1>2. reading \in ContextCall /\ ~reading.over /\ reading.had \subseteq RowsOf(reading.target.chat)
      /\ reading.after \subseteq rows
  BY <1>1 DEF ReadingOK, Idle, ListCall, ChatsCall, ContextCall, ContextOK
<1>3. PICK t \in Message : t = reading.target
  BY <1>2 DEF ContextCall
<1>4. PICK R \in Window(t.chat, t.at, reading.width, FALSE) :
         reading' = [reading EXCEPT !.before = R, !.more = 1]
  BY <1>3 DEF ReadBefore
<1>5. /\ R \subseteq {m \in RowsOf(t.chat) : m.at < t.at}
      /\ \A r \in R, o \in {m \in RowsOf(t.chat) : m.at < t.at} \ R : r.at >= o.at
  BY <1>4 DEF Window, Newest
<1>6. R \subseteq rows /\ R \subseteq Message /\ \A r \in R : r.chat = t.chat /\ r.at < t.at
  BY <1>5, RowsAreMessages DEF RowsOf
<1>7. /\ reading' \in ContextCall /\ reading'.tool = "get_message_context"
      /\ reading'.target = t /\ reading'.had = reading.had /\ reading'.before = R
      /\ reading'.after = reading.after /\ reading'.more = 1 /\ ~reading'.over
  BY <1>2, <1>3, <1>4, <1>6 DEF ContextCall
<1>8. ASSUME NEW m \in reading.had, m.at < t.at, NEW b \in R, b.at < m.at
      PROVE  m \in R
  <2>1. m \in RowsOf(t.chat) /\ m.at \in Nat /\ b.at \in Nat
    BY <1>2, <1>3, <1>6, <1>8, RowsAreMessages DEF RowsOf
  <2> QED
    BY <1>5, <1>8, <2>1
<1>9. BeforeOK'
  BY <1>6, <1>7, <1>8 DEF BeforeOK
<1>10. ContextOK'
  BY <1>1, <1>2, <1>3, <1>6, <1>7, <1>9 DEF ContextOK, RowsOf
<1> QED
  BY <1>7, <1>10 DEF ReadingOK, ListingOK, ChatsOK

LEMMA ReadAfterReading ==
    ASSUME CacheInv, ReadingOK, ReadAfter
    PROVE  ReadingOK'
<1>1. reading.tool = "get_message_context" /\ reading.more = 1 /\ UNCHANGED rows
  BY DEF ReadAfter, cache
<1>2. reading \in ContextCall /\ reading.had \subseteq RowsOf(reading.target.chat) /\ reading.before \subseteq rows
      /\ BeforeOK
  BY <1>1 DEF ReadingOK, Idle, ListCall, ChatsCall, ContextCall, ContextOK
<1>3. PICK t \in Message : t = reading.target
  BY <1>2 DEF ContextCall
<1>4. PICK R \in Window(t.chat, t.at, reading.width, TRUE) :
         reading' = [reading EXCEPT !.after = R, !.more = 0, !.over = TRUE]
  BY <1>3 DEF ReadAfter
<1>5. /\ R \subseteq {m \in RowsOf(t.chat) : m.at > t.at}
      /\ \A r \in R, o \in {m \in RowsOf(t.chat) : m.at > t.at} \ R : r.at <= o.at
  BY <1>4 DEF Window, Oldest
<1>6. R \subseteq rows /\ R \subseteq Message /\ \A r \in R : r.chat = t.chat /\ r.at > t.at
  BY <1>5, RowsAreMessages DEF RowsOf
<1>7. /\ reading' \in ContextCall /\ reading'.tool = "get_message_context"
      /\ reading'.target = t /\ reading'.had = reading.had /\ reading'.after = R
      /\ reading'.before = reading.before /\ reading'.more = 0
  BY <1>2, <1>3, <1>4, <1>6 DEF ContextCall
<1>8. ASSUME NEW m \in reading.had, m.at > t.at, NEW a \in R, a.at > m.at
      PROVE  m \in R
  <2>1. m \in RowsOf(t.chat) /\ m.at \in Nat /\ a.at \in Nat
    BY <1>2, <1>3, <1>6, <1>8, RowsAreMessages DEF RowsOf
  <2> QED
    BY <1>5, <1>8, <2>1
<1>9. AfterOK'
  BY <1>6, <1>7, <1>8 DEF AfterOK
<1>10. BeforeOK'
  BY <1>2, <1>3, <1>7 DEF BeforeOK
<1>11. ContextOK'
  BY <1>1, <1>2, <1>3, <1>6, <1>7, <1>9, <1>10 DEF ContextOK, RowsOf
<1> QED
  BY <1>7, <1>11 DEF ReadingOK, ListingOK, ChatsOK

-------------------------------------------------------------------------------
(* The invariant.                                                          *)

Inv == CacheInv /\ ReadingOK

LEMMA InitInv == Init => Inv
<1> SUFFICES ASSUME Init PROVE Inv
  OBVIOUS
<1>1. CacheOK /\ NoHole /\ TableOK(chats) /\ ChatsOfRows
  BY FS_EmptySet DEF Init, CacheOK, NoHole, TableOK, ChatsOfRows
<1>2. RequestsOK
  BY FS_EmptySet, ReadConstants DEF Init, RequestsOK
<1>3. LeftOK
  BY DEF Init, LeftOK, Writers
<1>4. ReadingOK
  BY DEF Init, ReadingOK, ListingOK, ChatsOK, ContextOK, Idle
<1> QED
  BY <1>1, <1>2, <1>3, <1>4 DEF Inv, CacheInv

LEMMA SameCache ==
    ASSUME CacheInv, UNCHANGED cache
    PROVE  CacheInv' /\ UNCHANGED <<chats, rows>>
<1>1. UNCHANGED <<history, chats, rows, requests, left, heard, lost>>
  BY DEF cache
<1>2. CacheOK' /\ NoHole'
  BY <1>1, SameRows
<1>3. TableOK(chats)' /\ ChatsOfRows' /\ LeftOK' /\ RequestsOK'
  BY <1>1, LeftGrows, RequestsGrow DEF CacheInv, TableOK, ChatsOfRows, LeftOK
<1> QED
  BY <1>1, <1>2, <1>3 DEF CacheInv

\* A message that comes by itself, or is sent.
LEMMA LiveInv ==
    ASSUME Inv, NEW m \in Messages, Arrive(m) \/ Send(m)
    PROVE  Inv'
<1>1. m.chat \in Chat /\ m.at \in Nat
  BY PlaceOf DEF Inv, CacheInv, CacheOK, Message
<1>2. GetChatName(m.chat) \in SUBSET NamesOf[m.chat]
  BY <1>1, NamesKnown DEF Inv
<1>3. PICK names \in SUBSET NamesOf[m.chat] : Live(m, names)
  BY <1>2 DEF Arrive, Send
<1>4. CacheInv' /\ UNCHANGED rows
  BY <1>3, LiveCache DEF Inv
<1>5. PICK name \in names : StoreChat(m.chat, name, m.at)
  BY <1>3 DEF Live
<1>6. {r.chat : r \in chats} \subseteq {r.chat : r \in chats'}
  BY <1>1, <1>4, <1>5, StoreChatTable DEF Inv
<1>7. ReadingOK'
  BY <1>1, <1>4, <1>5, <1>6, StoreChatReading DEF Inv, CacheInv
<1> QED
  BY <1>4, <1>7 DEF Inv

LEMMA AnswerInv ==
    ASSUME Inv, NEW r \in requests, Answer(r)
    PROVE  Inv'
<1>1. CacheInv' /\ UNCHANGED rows
  BY AnswerCache DEF Inv
<1>2. CASE UNCHANGED <<chats, reading>>
  BY <1>1, <1>2, ReadingGrows DEF Inv
<1>3. CASE ~UNCHANGED <<chats, reading>>
  <2>1. PICK c \in Chat : c = r.anchor.chat
    BY PlaceOf DEF Inv, CacheInv, CacheOK, RequestsOK
  <2>2. PICK batch : /\ left'["sync"] = batch /\ batch # << >>
                     /\ \E name \in GetChatName(c) : StoreChat(c, name, batch[1].at)
    BY <1>3, <2>1 DEF Answer, Inv, CacheInv, LeftOK, Writers
  <2>3. PICK name \in NamesOf[c] : StoreChat(c, name, batch[1].at)
    BY <2>1, <2>2, NamesKnown DEF Inv
  <2>4. batch \in Seq(Message)
    BY <1>1, <2>2 DEF CacheInv, LeftOK, Writers
  <2>5. batch[1].at \in Nat
    <3>1. batch[1] \in Message
      BY <2>2, <2>4
    <3> QED
      BY <3>1 DEF Message
  <2>6. {x.chat : x \in chats} \subseteq {x.chat : x \in chats'}
    BY <1>1, <2>1, <2>3, <2>5, StoreChatTable DEF Inv
  <2>7. ReadingOK'
    BY <1>1, <2>1, <2>3, <2>6, StoreChatReading DEF Inv, CacheInv
  <2> QED
    BY <1>1, <2>7 DEF Inv
<1> QED
  BY <1>2, <1>3

LEMMA NextInv ==
    ASSUME Inv, [Next]_vars
    PROVE  Inv'
<1>1. CacheInv /\ ReadingOK
  BY DEF Inv
<1>2. ASSUME NEW c \in Chat, NEW from, NEW anchor, NEW count \in Asked,
             RequestSync(c, from, anchor, count)
      PROVE  Inv'
  <2>1. UNCHANGED <<chats, rows, reading>>
    BY <1>2 DEF RequestSync
  <2>2. CacheInv'
    BY <1>1, <1>2, RequestCache
  <2> QED
    BY <1>1, <2>1, <2>2, ReadingGrows DEF Inv
<1>3. ASSUME NEW r \in requests, Unanswered(r)
      PROVE  Inv'
  <2>1. UNCHANGED <<chats, rows, reading>>
    BY <1>3 DEF Unanswered
  <2>2. CacheInv'
    BY <1>1, <1>3, UnansweredCache
  <2> QED
    BY <1>1, <2>1, <2>2, ReadingGrows DEF Inv
<1>4. ASSUME NEW w \in {"live", "sync"}, StoreNext(w)
      PROVE  Inv'
  <2>1. UNCHANGED <<chats, reading>>
    BY <1>4 DEF StoreNext
  <2>2. CacheInv' /\ rows \subseteq rows'
    BY <1>1, <1>4, StoreNextCache DEF Writers
  <2> QED
    BY <1>1, <2>1, <2>2, ReadingGrows DEF Inv
<1>5. CASE Crash
  <2>1. /\ left' = [w \in {"live", "sync"} |-> << >>] /\ reading' = Idle
        /\ UNCHANGED <<history, chats, rows, requests, heard, lost>>
    BY <1>5 DEF Crash
  <2>2. LeftOK'
    BY <2>1 DEF LeftOK, Writers
  <2>3. CacheOK' /\ NoHole'
    BY <1>1, <2>1, SameRows
  <2>4. TableOK(chats)' /\ ChatsOfRows' /\ RequestsOK'
    BY <1>1, <2>1, RequestsGrow DEF CacheInv, TableOK, ChatsOfRows
  <2> QED
    BY <2>1, <2>2, <2>3, <2>4, IdleReading DEF Inv, CacheInv
<1>6. ASSUME UNCHANGED cache, ReadingOK'
      PROVE  Inv'
  BY <1>1, <1>6, SameCache DEF Inv
<1>7. ASSUME NEW f \in Filter, NEW asked \in Asked, StartListing(f, asked)
      PROVE  Inv'
  <2>1. UNCHANGED cache
    BY <1>7 DEF StartListing
  <2> QED
    BY <1>1, <1>6, <1>7, <2>1, StartListingReading
<1>8. ASSUME NEW asked \in Asked, NEW sort \in {"name", "last_active"}, StartChats(asked, sort)
      PROVE  Inv'
  <2>1. UNCHANGED cache
    BY <1>8 DEF StartChats
  <2> QED
    BY <1>1, <1>6, <1>8, <2>1, StartChatsReading
<1>9. ASSUME NEW id, NEW asked \in Asked, Lookup(id, asked)
      PROVE  Inv'
  <2>1. UNCHANGED cache
    BY <1>9 DEF Lookup
  <2> QED
    BY <1>1, <1>6, <1>9, <2>1, LookupReading
<1>10. CASE ListMessages
  <2>1. UNCHANGED cache
    BY <1>10 DEF ListMessages
  <2> QED
    BY <1>1, <1>6, <1>10, <2>1, ListMessagesReading
<1>11. CASE ListChats
  <2>1. UNCHANGED cache
    BY <1>11 DEF ListChats
  <2> QED
    BY <1>1, <1>6, <1>11, <2>1, ListChatsReading
<1>12. CASE ReadBefore
  <2>1. UNCHANGED cache
    BY <1>12 DEF ReadBefore
  <2> QED
    BY <1>1, <1>6, <1>12, <2>1, ReadBeforeReading
<1>13. CASE ReadAfter
  <2>1. UNCHANGED cache
    BY <1>13 DEF ReadAfter
  <2> QED
    BY <1>1, <1>6, <1>13, <2>1, ReadAfterReading
<1>14. CASE Return
  <2>1. UNCHANGED cache /\ reading' = Idle
    BY <1>14 DEF Return
  <2> QED
    BY <1>6, <2>1, IdleReading
<1>15. CASE UNCHANGED vars
  <2>1. UNCHANGED cache /\ UNCHANGED <<chats, rows, reading>>
    BY <1>15 DEF vars, cache
  <2> QED
    BY <1>1, <1>6, <2>1, ReadingGrows
<1> QED
  BY <1>2, <1>3, <1>4, <1>5, <1>7, <1>8, <1>9, <1>10, <1>11, <1>12, <1>13, <1>14, <1>15,
     LiveInv, AnswerInv DEF Next

LEMMA InvHolds == Spec => []Inv
<1>1. Inv /\ [Next]_vars => Inv'
  BY NextInv
<1> QED
  BY <1>1, InitInv, PTL DEF Spec

-------------------------------------------------------------------------------
(* The theorems.                                                           *)

\* The cache keeps kept messages of the history, each under its chat's one row;
\* requests start from cached rows and stay within their bound; a reading call shows
\* cached rows only.
THEOREM CacheTypeCorrect == Spec => []TypeOK
<1>1. Inv => TypeOK
  <2> SUFFICES ASSUME Inv PROVE TypeOK
    OBVIOUS
  <2>1. \A w \in {"live", "sync"} : \A i \in DOMAIN left[w] : left[w][i] \in Messages
    <3>1. CASE left["sync"] = << >>
      BY <3>1 DEF Inv, CacheInv, LeftOK
    <3>2. CASE left["sync"] # << >>
      <4>1. PICK c \in Chat : \E p \in DOMAIN history[c] : Descends(c, p)
        BY <3>2 DEF Inv, CacheInv, LeftOK
      <4>2. PICK p \in DOMAIN history[c] : Descends(c, p)
        BY <4>1
      <4>3. PICK s \in Seq(Message) : s = left["sync"]
        BY DEF Inv, CacheInv, LeftOK, Writers
      <4>4. p \in Nat /\ history[c] \in Seq(Message) /\ p <= Len(history[c]) /\ Len(s) <= p
        BY <4>2, <4>3, PlaceOf DEF Inv, CacheInv, CacheOK, Descends
      <4>5. \A i \in DOMAIN s : p - i + 1 \in DOMAIN history[c]
        BY <4>3, <4>4
      <4>6. \A i \in DOMAIN s : s[i] \in Messages
        BY <4>2, <4>3, <4>5, PlaceOf DEF Inv, CacheInv, CacheOK, Descends
      <4> QED
        BY <4>3, <4>6 DEF Inv, CacheInv, LeftOK
    <3> QED
      BY <3>1, <3>2
  <2>2. \A r \in chats : r.chat \in Chat
    BY DEF Inv, CacheInv, TableOK, ChatRow
  <2>3. reading.tool \in {"list_messages", "list_chats", "get_message_context"} =>
           /\ reading.tool = "list_messages" => reading.seen \subseteq rows
           /\ reading.tool = "list_chats" => reading.seen \subseteq {r.chat : r \in chats}
           /\ reading.tool = "get_message_context" =>
                 reading.before \union reading.after \subseteq rows
    BY DEF Inv, ReadingOK, ListingOK, ChatsOK, ContextOK
  <2> QED
    BY <2>1, <2>2, <2>3 DEF Inv, CacheInv, CacheOK, TableOK, ChatsOfRows, RequestsOK, TypeOK
<1> QED
  BY <1>1, InvHolds, PTL

\* Walking a chat back leaves no hole of its own: what is missing above a row that only
\* history requests brought lies above a row that came by itself, or its write failed,
\* whatever anchors are asked for and whatever is repeated, lost, cut short or stored in
\* between (resolveAnchor, RequestHistorySync and the loop of handleHistorySync).
THEOREM WalkNeverLeavesAHole == Spec => []WalkLeavesNoHole
<1>1. Inv => WalkLeavesNoHole
  <2> SUFFICES ASSUME Inv, NEW m \in Messages, NEW n \in Messages,
                      n \in rows \ heard, m.kept, m.chat = n.chat, Place(n) < Place(m)
               PROVE  \/ m \in rows \union lost
                      \/ \E l \in heard : /\ l.chat = n.chat
                                          /\ Place(n) < Place(l) /\ Place(l) < Place(m)
    BY DEF WalkLeavesNoHole
  <2>1. /\ m.chat \in Chat
        /\ Place(m) \in DOMAIN history[m.chat] /\ history[m.chat][Place(m)] = m
        /\ Place(n) \in DOMAIN history[m.chat] /\ history[m.chat][Place(n)] = n
    BY PlaceOf DEF Inv, CacheInv, CacheOK
  <2>2. Covered(m.chat, Place(n), Place(m))
    BY <2>1 DEF Inv, CacheInv, NoHole, CoveredFrom
  <2>3. \A j \in DOMAIN history[m.chat] :
           history[m.chat][j].chat = m.chat /\ Place(history[m.chat][j]) = j
    BY <2>1, PlaceOf DEF Inv, CacheInv, CacheOK
  <2> QED
    BY <2>1, <2>2, <2>3 DEF Covered
<1> QED
  BY <1>1, InvHolds, PTL

\* The context of a message has no gap on either side, though other rows arrive
\* between the three statements that read it (GetMessageContext).
THEOREM ContextAlwaysAround == Spec => []ContextIsAround
<1>1. Inv => ContextIsAround
  <2> SUFFICES ASSUME Inv, reading.tool = "get_message_context", reading.over
               PROVE  ContextIsAround
    BY DEF ContextIsAround
  <2>1. BeforeOK /\ AfterOK
    BY DEF Inv, ReadingOK, ContextOK
  <2> QED
    BY <2>1 DEF BeforeOK, AfterOK, ContextIsAround
<1> QED
  BY <1>1, InvHolds, PTL

\* Rows that arrive between two pages never hide a row from a caller that pages to the
\* end (ListMessages); nor do rows of chats that are replaced hide a chat that stays in
\* place, by name or by last activity (ListChats).
THEOREM PagingNeverSkips == Spec => []PagingSkipsNothing
<1>1. Inv => PagingSkipsNothing
  BY DEF Inv, ReadingOK, ListingOK, ChatsOK, PagingSkipsNothing
<1> QED
  BY <1>1, InvHolds, PTL

===============================================================================
