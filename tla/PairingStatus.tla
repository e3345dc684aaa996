----------------------------- MODULE PairingStatus ----------------------------
(***************************************************************************)
(* The pairing_status tool of internal/mcp/tools_query.go, which supervisor*)
(* programs poll, next to the pairing state machine.  The tool takes no    *)
(* lock across its reads of the pair cache, of the connection and of the   *)
(* device store, so any step of Pairing may come between two of them.      *)
(***************************************************************************)
EXTENDS Pairing

VARIABLES
    status,     \* where the call is, and its reply once it has returned
    saw         \* history: was the device paired and connected during the call

statusVars == <<status, saw>>
allVars == <<vars, statusVars>>

NoReply == [state |-> "none"]
Reply == {NoReply, [state |-> "ready"], [state |-> "awaiting_qr"], [state |-> "panic"]}
         \union [state : {"awaiting_qr"}, payload : Code \union {NoCode}]

Connected == session /\ link

StatusInit == status = [at |-> "idle", reply |-> NoReply] /\ saw = Connected

Goto(at) == status' = [at |-> at, reply |-> NoReply]
Return(reply) == status' = [at |-> "idle", reply |-> reply]

\* A poll: the first read is of the paired flag.
ReadPaired ==
    /\ status.at = "idle"
    /\ boot # "exited"
    /\ Goto(IF cache.paired THEN "connected" ELSE "qr")
    /\ saw' = Connected
    /\ UNCHANGED vars

ReadConnected ==
    /\ status.at = "connected"
    /\ Goto(IF link THEN "identity" ELSE "qr")
    /\ UNCHANGED <<vars, saw>>

\* Bug: the identity is not checked again after the connection.
TrustIdentity ==
    /\ status.at = "identity"
    /\ Return([state |-> "ready"])
    /\ UNCHANGED <<vars, saw>>

\* The nil check of Store.ID ...
CheckIdentity ==
    /\ status.at = "identity"
    /\ Goto(IF session THEN "fields" ELSE "qr")
    /\ UNCHANGED <<vars, saw>>

\* ... and its use, which reads the pointer again.
UseIdentity ==
    /\ status.at = "fields"
    /\ Return([state |-> IF session THEN "ready" ELSE "panic"])
    /\ UNCHANGED <<vars, saw>>

\* Not ready: the switch asks whether a code is cached ...
CheckQR ==
    /\ status.at = "qr"
    /\ IF cache.qr # NoCode THEN Goto("payload") ELSE Return([state |-> "awaiting_qr"])
    /\ UNCHANGED <<vars, saw>>

\* ... and the reply takes the code from the cache once more.
ReadPayload ==
    /\ status.at = "payload"
    /\ Return([state |-> "awaiting_qr", payload |-> cache.qr])
    /\ UNCHANGED <<vars, saw>>

StatusSteps ==
    ReadPaired \/ ReadConnected \/ CheckIdentity \/ UseIdentity \/ CheckQR \/ ReadPayload

\* A step of the state machine: a running call sees what it leads to, and a
\* restart ends the call.
PairingStep ==
    /\ Next
    /\ status' = IF restarts' # restarts THEN [at |-> "idle", reply |-> NoReply] ELSE status
    /\ saw' = IF status.at = "idle" THEN saw ELSE saw \/ Connected'

StatusNext == StatusSteps \/ PairingStep
StatusSpec == Init /\ StatusInit /\ [][StatusNext]_allVars

-------------------------------------------------------------------------------

\* "ready (paired and connected)" (tools_query.go:296): although the flag, the
\* connection and the identity are read one by one, a ready reply is true of
\* one moment of the call, at which the device was paired and connected.
ReadyIsTrue == status.reply.state = "ready" => saw

===============================================================================
