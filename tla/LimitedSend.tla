------------------------------ MODULE LimitedSend -----------------------------
(***************************************************************************)
(* The outbound calls of OutboundSend against the limiter itself: the      *)
(* admission of a call is decided, and recorded, by the pruned windows of  *)
(* RateLimiter and no longer by the complete history.  checkSendRate calls *)
(* AllowSend, which holds the limiter's mutex until it has recorded the    *)
(* call, so each is one step.  Lookups keep to a window of their own       *)
(* (ratelimit.go:127) and are left to RateLimiter.                         *)
(***************************************************************************)
EXTENDS OutboundSend, RateLimiter

limitedVars == <<vars, callVars>>

LInit == OInit /\ RInit

\* AllowSend admits the call and records it in the windows.
CheckAllows(c) ==
    /\ run[c].at = "limit"
    /\ AdmitSend(run[c].contact)
    /\ run' = [run EXCEPT ![c] = Doing("sending", run[c].for, run[c].contact, calls)]
    /\ cold' = IF Known(run[c].for.to) THEN cold ELSE cold \union {calls}
    /\ UNCHANGED <<inbound, wire, rows>>

\* AllowSend denies, after pruning: the call returns the rate-limit error.
CheckDenies(c) ==
    /\ run[c].at = "limit"
    /\ DenySend(run[c].contact)
    /\ run' = [run EXCEPT ![c] = Returned]
    /\ UNCHANGED <<inbound, wire, rows, cold>>

\* The steps of a call that do not ask the limiter.
Unasked(c) ==
    \/ NotConnected(c)
    \/ \E request \in Asked : Begin(c, request)
    \/ IsKnownContact(c)
    \/ FailSend(c)
    \/ SendMessage(c)
    \/ PersistSent(c)

LNext ==
    \/ \E c \in Call : CheckAllows(c) \/ CheckDenies(c)
    \/ \E c \in Call : Unasked(c) /\ UNCHANGED limiterVars
    \/ \E r \in Recipient : Receive(r) /\ UNCHANGED limiterVars
    \/ Clock /\ UNCHANGED limiterVars

LSpec == LInit /\ [][LNext]_limitedVars

-------------------------------------------------------------------------------

\* However the calls interleave, and although the windows forget what is an hour
\* old and a denial only prunes them, the calls are admitted and refused as the
\* complete history would: nothing is admitted that the history has no room for,
\* and no call is refused for an entry that no longer counts.
ImplementsOutboundSend == OSpec

===============================================================================
