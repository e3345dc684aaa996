------------------------------ MODULE SendBudget ------------------------------
(***************************************************************************)
(* What internal/ratelimit promises, said without its data structures: the *)
(* complete history of admitted calls is kept, and a call is admitted only *)
(* when that history leaves room for it.  The promises are the comments of *)
(* the Config fields (floors between sends, caps per trailing hour and     *)
(* minute); RateLimiter implements this module.                            *)
(***************************************************************************)
EXTENDS Integers, FiniteSets

CONSTANTS
    MinSendInterval,        \* floor between any two sends
    MaxSendsPerHour,        \* cap on sends in a trailing hour, 0 = no cap
    NonContactMinInterval,  \* floor before a send to a non-contact
    NonContactMaxPerHour,   \* cap on non-contact sends, 0 = no cap
    MaxUsyncPerMinute,      \* cap on is_on_whatsapp lookups, 0 = no cap
    Hour, Minute,           \* the window lengths, in clock ticks
    Horizon                 \* bound of the model: the clock stops here

ASSUME BudgetAssumption ==
    /\ MinSendInterval \in Nat
    /\ NonContactMinInterval \in Nat
    /\ MaxSendsPerHour \in Nat
    /\ NonContactMaxPerHour \in Nat
    /\ MaxUsyncPerMinute \in Nat
    /\ Hour \in Nat
    /\ Minute \in Nat
    /\ Horizon \in Nat

VARIABLES
    now,        \* the limiter's clock
    calls,      \* calls admitted so far; the identity of the next one
    admitted,   \* every admitted send
    lookups     \* every admitted lookup

budgetVars == <<now, calls, admitted, lookups>>

\* An admitted call.  Two calls may carry the same time, so each has an id.
Entry == [id : Nat, at : Nat, contact : BOOLEAN]

\* The floor that applies before a send: the stricter one for a non-contact.
MinInterval(isContact) ==
    IF ~isContact /\ NonContactMinInterval > MinSendInterval
    THEN NonContactMinInterval
    ELSE MinSendInterval

\* The members of S in the trailing window of length dur, both ends included.
Trailing(S, dur) == {e \in S : e.at >= now - dur}

NonContacts(S) == {e \in S : ~e.contact}

\* A window has room for one more call.
Room(S, cap) == cap = 0 \/ Cardinality(S) < cap

MayAdmit(isContact) ==
    /\ \A e \in admitted : now - e.at >= MinInterval(isContact)
    /\ Room(Trailing(admitted, Hour), MaxSendsPerHour)
    /\ isContact \/ Room(Trailing(NonContacts(admitted), Hour), NonContactMaxPerHour)

MayLookUp == Room(Trailing(lookups, Minute), MaxUsyncPerMinute)

-------------------------------------------------------------------------------

Init ==
    /\ now = 0
    /\ calls = 0
    /\ admitted = {}
    /\ lookups = {}

Admit(isContact) ==
    /\ MayAdmit(isContact)
    /\ admitted' = admitted \union {[id |-> calls, at |-> now, contact |-> isContact]}
    /\ calls' = calls + 1
    /\ UNCHANGED <<now, lookups>>

LookUp ==
    /\ MayLookUp
    /\ lookups' = lookups \union {[id |-> calls, at |-> now, contact |-> TRUE]}
    /\ calls' = calls + 1
    /\ UNCHANGED <<now, admitted>>

Tick ==
    /\ now < Horizon
    /\ now' = now + 1
    /\ UNCHANGED <<calls, admitted, lookups>>

Next ==
    \/ \E isContact \in BOOLEAN : Admit(isContact)
    \/ LookUp
    \/ Tick

Spec == Init /\ [][Next]_budgetVars

-------------------------------------------------------------------------------

\* Calls of S within the window of length dur that ends when e was admitted.
WindowEndingAt(S, e, dur) == {f \in S : e.at - dur <= f.at /\ f.at <= e.at}

Capped(S, dur, cap) ==
    cap > 0 => \A e \in S : Cardinality(WindowEndingAt(S, e, dur)) <= cap

\* "MaxSendsPerHour caps total sends in any trailing hour" (ratelimit.go:29):
\* any hour of history, and not only the current one, holds at most the cap.
HourlyCap == Capped(admitted, Hour, MaxSendsPerHour)

\* "NonContactMaxPerHour caps sends to non-contacts in any trailing hour".
NonContactHourlyCap == Capped(NonContacts(admitted), Hour, NonContactMaxPerHour)

\* "MaxUsyncPerMinute caps explicit is_on_whatsapp lookups per minute".
UsyncCap == Capped(lookups, Minute, MaxUsyncPerMinute)

\* "MinSendInterval is the floor between any two sends (contact or not)", and
\* a non-contact send also keeps the stricter floor to every earlier send.
MinSpacing ==
    \A e, f \in admitted :
        e.id < f.id => f.at - e.at >= MinInterval(f.contact)

\* The promises of the Config comments together: whichever calls came and were denied
\* in between, every trailing hour and minute of the whole history stays within its
\* cap and every two sends keep the floor.
Promises == HourlyCap /\ NonContactHourlyCap /\ UsyncCap /\ MinSpacing

===============================================================================
