------------------------------ MODULE RateLimiter -----------------------------
(***************************************************************************)
(* internal/ratelimit/ratelimit.go: the in-memory sliding windows that     *)
(* throttle outbound calls.  AllowSend and AllowUsync hold the mutex from  *)
(* the clock read to the return, so each is one step.  The windows sends,  *)
(* nonContactSends and usyncs are the code's slices: append order is the   *)
(* order of time, so a set of entries that each carry their time and an    *)
(* identity says as much.  A behaviour is one life of the daemon: a        *)
(* restart forgets the windows on purpose.                                 *)
(***************************************************************************)
EXTENDS SendBudget

VARIABLES
    sends, nonContactSends, usyncs,  \* the windows
    lastSend,                        \* time of the last admitted send
    retry     \* history: what the last denied call of each kind was told

limiterVars == <<sends, nonContactSends, usyncs, lastSend, retry>>
vars == <<budgetVars, limiterVars>>

NoSend == -1   \* the zero time.Time

CallKind == {"contact", "nonContact", "usync"}
SendKind(isContact) == IF isContact THEN "contact" ELSE "nonContact"

\* Bug: an entry exactly one window old is pruned too.
PruneUpTo(window, cutoff) == {e \in window : e.at > cutoff}

PruneBefore(window, cutoff) == {e \in window : ~(e.at < cutoff)}

\* The non-contact floor and both hourly windows as AllowSend sees them.
LiveSends == PruneBefore(sends, now - Hour)
LiveNonContacts == PruneBefore(nonContactSends, now - Hour)
\* Bug: the minute is a tick short.
ShortLiveUsyncs == PruneBefore(usyncs, now - Minute + 1)

LiveUsyncs == PruneBefore(usyncs, now - Minute)

\* Bug: the cap is compared before the call is counted.
OverCap(window, cap) == cap > 0 /\ Cardinality(window) > cap

AtCap(window, cap) == cap > 0 /\ Cardinality(window) >= cap

\* Bug: the stricter floor of a non-contact is forgotten.
TooSoonForContact(isContact) == lastSend # NoSend /\ now - lastSend < MinSendInterval

TooSoon(isContact) ==
    lastSend # NoSend /\ now - lastSend < MinInterval(isContact)

\* Bug: the stricter cap is asked of contacts.
ContactCapped(isContact) ==
    isContact /\ AtCap(LiveNonContacts, NonContactMaxPerHour)

NonContactCapped(isContact) ==
    ~isContact /\ AtCap(LiveNonContacts, NonContactMaxPerHour)

SendAllowed(isContact) ==
    /\ ~TooSoon(isContact)
    /\ ~AtCap(LiveSends, MaxSendsPerHour)
    /\ ~NonContactCapped(isContact)

UsyncAllowed == ~AtCap(LiveUsyncs, MaxUsyncPerMinute)

\* Bug: the newest entry instead of the oldest.
NewestExpiry(window, dur) ==
    (CHOOSE e \in window : \A f \in window : e.at >= f.at).at + dur

\* now + untilOldestExpires: when the oldest entry has left the window.
OldestExpiry(window, dur) ==
    (CHOOSE e \in window : \A f \in window : e.at <= f.at).at + dur

\* now + RetryAfter of a denied send, in the order of the code's checks.
SendRetryAt(isContact) ==
    IF TooSoon(isContact) THEN lastSend + MinInterval(isContact)
    ELSE IF AtCap(LiveSends, MaxSendsPerHour) THEN OldestExpiry(LiveSends, Hour)
    ELSE OldestExpiry(LiveNonContacts, Hour)

-------------------------------------------------------------------------------

RInit ==
    /\ Init
    /\ sends = {} /\ nonContactSends = {} /\ usyncs = {}
    /\ lastSend = NoSend
    /\ retry = [k \in CallKind |-> 0]

Deny(kind, until) ==
    /\ retry' = [retry EXCEPT ![kind] = until]
    /\ UNCHANGED <<calls, admitted, lookups>>

\* Bug: the attempt is recorded before the checks, so a denial holds a slot.
DenySendRecording(isContact) ==
    /\ ~SendAllowed(isContact)
    /\ sends' = LiveSends \union {[id |-> calls, at |-> now, contact |-> isContact]}
    /\ nonContactSends' = LiveNonContacts
    /\ Deny(SendKind(isContact), SendRetryAt(isContact))
    /\ UNCHANGED <<now, usyncs, lastSend>>

\* AllowSend up to "Admitted - record": only the pruning survives a denial.
DenySend(isContact) ==
    /\ ~SendAllowed(isContact)
    /\ sends' = LiveSends
    /\ nonContactSends' = LiveNonContacts
    /\ Deny(SendKind(isContact), SendRetryAt(isContact))
    /\ UNCHANGED <<now, usyncs, lastSend>>

\* Bug: the floor's cutoff is stored for the time of the send.
AdmitSendAtCutoff(isContact) ==
    LET e == [id |-> calls, at |-> now, contact |-> isContact] IN
    /\ SendAllowed(isContact)
    /\ sends' = LiveSends \union {e}
    /\ nonContactSends' =
           IF isContact THEN LiveNonContacts ELSE LiveNonContacts \union {e}
    /\ lastSend' = now - MinInterval(isContact)
    /\ admitted' = admitted \union {e}
    /\ calls' = calls + 1
    /\ UNCHANGED <<now, lookups, usyncs, retry>>

\* AllowSend that admits.
AdmitSend(isContact) ==
    LET e == [id |-> calls, at |-> now, contact |-> isContact] IN
    /\ SendAllowed(isContact)
    /\ sends' = LiveSends \union {e}
    /\ nonContactSends' =
           IF isContact THEN LiveNonContacts ELSE LiveNonContacts \union {e}
    /\ lastSend' = now
    /\ admitted' = admitted \union {e}
    /\ calls' = calls + 1
    /\ UNCHANGED <<now, lookups, usyncs, retry>>

DenyUsync ==
    /\ ~UsyncAllowed
    /\ usyncs' = LiveUsyncs
    /\ Deny("usync", OldestExpiry(LiveUsyncs, Minute))
    /\ UNCHANGED <<now, sends, nonContactSends, lastSend>>

AdmitUsync ==
    LET e == [id |-> calls, at |-> now, contact |-> TRUE] IN
    /\ UsyncAllowed
    /\ usyncs' = LiveUsyncs \union {e}
    /\ lookups' = lookups \union {e}
    /\ calls' = calls + 1
    /\ UNCHANGED <<now, admitted, sends, nonContactSends, lastSend, retry>>

RTick == Tick /\ UNCHANGED limiterVars

RNext ==
    \/ \E isContact \in BOOLEAN : AdmitSend(isContact) \/ DenySend(isContact)
    \/ AdmitUsync
    \/ DenyUsync
    \/ RTick

RSpec == RInit /\ [][RNext]_vars

-------------------------------------------------------------------------------

TypeOK ==
    /\ now \in Nat
    /\ calls \in Nat
    /\ admitted \in SUBSET Entry /\ lookups \in SUBSET Entry
    /\ sends \in SUBSET Entry /\ nonContactSends \in SUBSET Entry
    /\ usyncs \in SUBSET Entry
    /\ lastSend \in Nat \union {NoSend}
    /\ retry \in [CallKind -> Int]

\* The windows are pruned and lossy, yet a call is admitted exactly when the
\* complete history leaves room for it: pruning never drops an entry that
\* still counts (AllowSend would over-admit), and neither a denial nor a stale
\* entry ever holds a slot (it would starve the caller).
DecisionExact ==
    /\ \A isContact \in BOOLEAN : SendAllowed(isContact) <=> MayAdmit(isContact)
    /\ UsyncAllowed <=> MayLookUp

KindAllowed(kind) ==
    CASE kind = "contact"    -> SendAllowed(TRUE)
      [] kind = "nonContact" -> SendAllowed(FALSE)
      [] kind = "usync"      -> UsyncAllowed

\* Decision.RetryAfter never overstates the wait: until the time a denied
\* caller was told has come, no call of its kind is admitted, whatever calls
\* of the other kinds do in between.
RetryAfterIsNecessary ==
    \A kind \in CallKind : now < retry[kind] => ~KindAllowed(kind)

\* Every step of the limiter is a step the history allows.
ImplementsSendBudget == Spec

===============================================================================
