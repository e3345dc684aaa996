------------------------------ MODULE OutboundSend ----------------------------
(***************************************************************************)
(* Concurrent outbound tool calls of internal/client, from the connection  *)
(* check to the cache row, competing for one limiter.  The limiter is its  *)
(* abstraction SendBudget: RateLimiter implements it and admits exactly    *)
(* when it would (ImplementsSendBudget, DecisionExact).                    *)
(*                                                                         *)
(* Three families of tools differ in what they do around the wire send:    *)
(*   "send"  send_message, send_file, ..., and group invites: throttled,   *)
(*           may be slow or fail before the wire, persisted                *)
(*   "poll"  send_poll and send_contact: not throttled, persisted          *)
(*   "reply" replies, reactions, edits, revokes and poll votes: neither    *)
(* Between two steps of a call any other call or an inbound message may    *)
(* come in.  The connection may come and go at any time, so each read of   *)
(* it may find it up or down.                                              *)
(***************************************************************************)
EXTENDS SendBudget

CONSTANTS
    Call,           \* the tool calls in flight, each runs once
    Recipient,      \* chats a call can address
    Group,          \* those of them that are groups
    NumberOf,       \* the number behind a chat: another address for a LID only
    Asked,          \* what the calls may be for, a set of Requests
    StoreOutcome,   \* how store calls may end: {TRUE} or BOOLEAN
    MaxDelay        \* bound: ticks from the admission to the wire send

Tool == {"send", "poll", "reply"}
Request == [tool : Tool, to : Recipient, bypass : BOOLEAN]

ASSUME OutboundAssumption ==
    /\ Group \subseteq Recipient
    /\ NumberOf \in [Recipient -> Recipient]
    /\ \A r \in Recipient : r \in Group <=> NumberOf[r] \in Group
    /\ Asked \subseteq Request
    /\ StoreOutcome \subseteq BOOLEAN
    /\ MaxDelay \in Nat

VARIABLES
    run,        \* what each call is doing, with the locals it still needs
    inbound,    \* 1:1 chats with an inbound message in the store, as it names them
    wire,       \* messages handed to WhatsApp
    rows,       \* calls whose message has a row in the cache
    cold        \* history: admissions to people without an inbound message

callVars == <<run, inbound, wire, rows, cold>>
sendVars == <<budgetVars, callVars>>

NoTicket == -1   \* the call holds no admission
Ticket == Nat \union {NoTicket}

\* A running call: the step it is at, its request, what IsKnownContact told
\* it, and the id of its admission.
Running == [at : {"classify", "limit", "sending", "persist"}, for : Request,
            contact : BOOLEAN, ticket : Ticket]
Doing(step, request, contact, ticket) ==
    [at |-> step, for |-> request, contact |-> contact, ticket |-> ticket]
Idle == [at |-> "idle"]
Returned == [at |-> "returned"]

\* checkSendRate applies: a throttled tool without the operator's override.
Throttled(request) == request.tool = "send" /\ ~request.bypass

\* The person has written to us, under whichever address the store has it.
Known(to) == to \in Group \/ \E chat \in inbound : NumberOf[chat] = NumberOf[to]

\* The admission of a call that holds a ticket.
Admission(ticket) == CHOOSE e \in admitted : e.id = ticket

-------------------------------------------------------------------------------

OInit ==
    /\ Init
    /\ run = [c \in Call |-> Idle]
    /\ inbound = {} /\ wire = {} /\ rows = {} /\ cold = {}

\* A tool call that finds no connection returns at once.
NotConnected(c) ==
    /\ run[c] = Idle
    /\ run' = [run EXCEPT ![c] = Returned]
    /\ UNCHANGED <<budgetVars, inbound, wire, rows, cold>>

\* Bug: checkSendRate is asked of chats with inbound history only.
BeginUnchecked(c, request) ==
    /\ run[c] = Idle
    /\ run' = [run EXCEPT ![c] =
           Doing(IF Throttled(request) /\ Known(request.to) THEN "classify" ELSE "sending",
              request, FALSE, NoTicket)]
    /\ UNCHANGED <<budgetVars, inbound, wire, rows, cold>>

\* A tool call finds the connection up; the override header skips the limiter.
Begin(c, request) ==
    /\ run[c] = Idle
    /\ run' = [run EXCEPT ![c] =
           Doing(IF Throttled(request) THEN "classify" ELSE "sending", request, FALSE, NoTicket)]
    /\ UNCHANGED <<budgetVars, inbound, wire, rows, cold>>

\* Bug: a store error counts as a known contact.
IsKnownContactOpen(c) ==
    /\ run[c].at = "classify"
    /\ \E lookedUp \in StoreOutcome :
          LET to == run[c].for.to IN
          run' = [run EXCEPT ![c] =
              Doing("limit", run[c].for, to \in Group \/ ~lookedUp \/ to \in inbound, NoTicket)]
    /\ UNCHANGED <<budgetVars, inbound, wire, rows, cold>>

\* IsKnownContact: a group is known; otherwise the store is asked whether there is
\* an inbound message under the address as typed, and an error counts as "no".
IsKnownContact(c) ==
    /\ run[c].at = "classify"
    /\ \E lookedUp \in StoreOutcome :
          LET to == run[c].for.to IN
          run' = [run EXCEPT ![c] =
              Doing("limit", run[c].for, to \in Group \/ (lookedUp /\ to \in inbound), NoTicket)]
    /\ UNCHANGED <<budgetVars, inbound, wire, rows, cold>>

\* AllowSend admits the call under the class it was given earlier.
AllowSend(c) ==
    /\ run[c].at = "limit"
    /\ Admit(run[c].contact)
    /\ run' = [run EXCEPT ![c] = Doing("sending", run[c].for, run[c].contact, calls)]
    /\ cold' = IF Known(run[c].for.to) THEN cold ELSE cold \union {calls}
    /\ UNCHANGED <<inbound, wire, rows>>

\* AllowSend denies: the call returns the rate-limit error.
RefuseSend(c) ==
    /\ run[c].at = "limit"
    /\ ~MayAdmit(run[c].contact)
    /\ run' = [run EXCEPT ![c] = Returned]
    /\ UNCHANGED <<budgetVars, inbound, wire, rows, cold>>

\* Bug: the row is written before the send.
FailSendCached(c) ==
    /\ run[c].at = "sending"
    /\ rows' = rows \union {c}
    /\ run' = [run EXCEPT ![c] = Returned]
    /\ UNCHANGED <<budgetVars, inbound, wire, cold>>

\* The media cannot be read, converted or uploaded, or SendMessage fails.
FailSend(c) ==
    /\ run[c].at = "sending"
    /\ run' = [run EXCEPT ![c] = Returned]
    /\ UNCHANGED <<budgetVars, inbound, wire, rows, cold>>

\* Bug: a send is retried until it is acknowledged, under one admission.
SendMessageAgain(c) ==
    /\ run[c].at = "sending"
    /\ wire' = wire \union {[call |-> c, at |-> now, bypass |-> run[c].for.bypass,
                             throttled |-> Throttled(run[c].for),
                             ticket |-> run[c].ticket]}
    /\ UNCHANGED <<budgetVars, run, inbound, rows, cold>>

\* SendMessage succeeds; only replies and their like are done then.
SendMessage(c) ==
    /\ run[c].at = "sending"
    /\ wire' = wire \union {[call |-> c, at |-> now, bypass |-> run[c].for.bypass,
                             throttled |-> Throttled(run[c].for),
                             ticket |-> run[c].ticket]}
    /\ run' = IF run[c].for.tool = "reply"
              THEN [run EXCEPT ![c] = Returned]
              ELSE [run EXCEPT ![c] = Doing("persist", run[c].for, run[c].contact, run[c].ticket)]
    /\ UNCHANGED <<budgetVars, inbound, rows, cold>>

\* persistSent: a store error is logged and forgotten.
PersistSent(c) ==
    /\ run[c].at = "persist"
    /\ \E stored \in StoreOutcome : rows' = IF stored THEN rows \union {c} ELSE rows
    /\ run' = [run EXCEPT ![c] = Returned]
    /\ UNCHANGED <<budgetVars, inbound, wire, cold>>

\* Bug: messages of groups count as inbound history as well.
ReceiveAny(r) ==
    /\ \E chat \in {r, NumberOf[r]} \ inbound : inbound' = inbound \union {chat}
    /\ UNCHANGED <<budgetVars, run, wire, rows, cold>>

\* handleMessage stores an inbound message of a 1:1 chat, under the number behind it
\* if the LID table has it already and can be read, else under its own address.
Receive(r) ==
    /\ r \notin Group
    /\ \E chat \in {r, NumberOf[r]} \ inbound : inbound' = inbound \union {chat}
    /\ UNCHANGED <<budgetVars, run, wire, rows, cold>>

\* Time passes; MaxDelay bounds how long an admitted call takes to the wire.
Clock ==
    /\ Tick
    /\ \A c \in Call : run[c].at = "sending" /\ run[c].ticket # NoTicket
           => now - Admission(run[c].ticket).at < MaxDelay
    /\ UNCHANGED callVars

ONext ==
    \/ \E c \in Call :
          \/ NotConnected(c)
          \/ \E request \in Asked : Begin(c, request)
          \/ IsKnownContact(c)
          \/ AllowSend(c)
          \/ RefuseSend(c)
          \/ FailSend(c)
          \/ SendMessage(c)
          \/ PersistSent(c)
    \/ \E r \in Recipient : Receive(r)
    \/ Clock

OSpec == OInit /\ [][ONext]_sendVars

-------------------------------------------------------------------------------

Sent == [call : Call, at : Nat, bypass : BOOLEAN, throttled : BOOLEAN, ticket : Ticket]

OTypeOK ==
    /\ now \in Nat /\ calls \in Nat
    /\ admitted \in SUBSET Entry /\ lookups \in SUBSET Entry
    /\ run \in [Call -> Running \union {Idle, Returned}]
    /\ inbound \in SUBSET (Recipient \ Group)
    /\ wire \in SUBSET Sent
    /\ rows \in SUBSET Call
    /\ cold \in SUBSET Nat

\* Every message a throttled tool puts on the wire was paid for by an
\* admission of its own, taken no later than the send: neither a retry, an
\* early return nor two calls sharing the limiter mints or reuses budget.
SendsArePaidFor ==
    \A w \in wire : w.throttled =>
        /\ \E e \in admitted : e.id = w.ticket /\ e.at <= w.at
        /\ \A v \in wire : v # w => v.ticket # w.ticket

\* Cold outreach is what the stricter cap is for: however the classification
\* read races with inbound messages and store errors, and whichever addresses
\* people are typed and stored under, the admissions of any trailing hour that went
\* to people unknown at that moment stay within it.
ColdOutreachCap ==
    Capped({e \in admitted : e.id \in cold}, Hour, NonContactMaxPerHour)

\* The limiter caps admissions, and an admitted call reaches the wire up to
\* MaxDelay later.  What WhatsApp sees of throttled sends therefore stays
\* within the hourly cap over every window that is shorter by MaxDelay.
WireCap ==
    MaxDelay <= Hour =>
        Capped({w \in wire : w.throttled}, Hour - MaxDelay, MaxSendsPerHour)

\* Both caps hold between the admissions and the wire.
CapsReachTheWire == ColdOutreachCap /\ WireCap

\* "Cache the sent message so local history stays complete" (send.go:82): the
\* row comes after the send, so that the history shows no message that failed.
HistoryIsSent == \A c \in rows : \E w \in wire : w.call = c

\* What the wire carries is accounted for on both sides, by the limiter's admissions
\* and by the cache, however calls interleave, fail between two steps or meet a
\* failing store.
WireIsAccountedFor == SendsArePaidFor /\ HistoryIsSent

===============================================================================
