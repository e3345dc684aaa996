------------------------------- MODULE SendProofs -------------------------------
(***************************************************************************)
(* Theorems on SendBudget, RateLimiter, OutboundSend, LimitedSend: caps    *)
(* and floors follow from SendBudget's guards of admission, where the      *)
(* whole history decides; RateLimiter is proved to implement SendBudget,   *)
(* by showing that its pruned windows still hold every entry that counts,  *)
(* and inherits them; and between the limiter and the wire OutboundSend    *)
(* keeps them for any number of concurrent calls, any caps and any delay.  *)
(***************************************************************************)
EXTENDS LimitedSend, FiniteSetTheorems, WellFoundedInduction, TLAPS

-------------------------------------------------------------------------------
(* Part 1: the history of SendBudget.                                      *)

\* Times and ids of the history lie in the past.
HistoryOK ==
    /\ now \in Nat
    /\ calls \in Nat
    /\ admitted \in SUBSET Entry
    /\ lookups \in SUBSET Entry
    /\ IsFiniteSet(admitted)
    /\ IsFiniteSet(lookups)
    /\ \A e \in admitted \union lookups : e.at <= now /\ e.id < calls

\* An entry made now keeps every window of S within the cap, provided the
\* window that ends now has room: the only windows it joins end now.
LEMMA CapGrows ==
    ASSUME now \in Nat,
           NEW S \in SUBSET Entry, IsFiniteSet(S),
           \A f \in S : f.at <= now,
           NEW dur \in Nat, NEW cap \in Nat,
           NEW e \in Entry, e.at = now,
           Room(Trailing(S, dur), cap),
           Capped(S, dur, cap)
    PROVE  Capped(S \union {e}, dur, cap)
<1> SUFFICES ASSUME cap > 0, NEW g \in S \union {e}
             PROVE  Cardinality(WindowEndingAt(S \union {e}, g, dur)) <= cap
  BY DEF Capped
<1>1. CASE g.at = now
  <2>1. WindowEndingAt(S \union {e}, g, dur) = Trailing(S, dur) \union {e}
    BY <1>1 DEF WindowEndingAt, Trailing, Entry
  <2>2. IsFiniteSet(Trailing(S, dur))
    BY FS_Subset DEF Trailing
  <2>3. /\ Cardinality(Trailing(S, dur)) \in Nat
        /\ Cardinality(Trailing(S, dur)) < cap
    BY <2>2, FS_CardinalityType DEF Room
  <2>4. \/ Cardinality(Trailing(S, dur) \union {e}) = Cardinality(Trailing(S, dur))
        \/ Cardinality(Trailing(S, dur) \union {e}) = Cardinality(Trailing(S, dur)) + 1
    BY <2>2, FS_AddElement
  <2>5. Cardinality(Trailing(S, dur) \union {e}) <= cap
    BY <2>3, <2>4
  <2> QED
    BY <2>1, <2>5
<1>2. CASE g.at # now
  <2>1. WindowEndingAt(S \union {e}, g, dur) = WindowEndingAt(S, g, dur)
    BY <1>2 DEF WindowEndingAt, Entry
  <2> QED
    BY <1>2, <2>1 DEF Capped
<1> QED
  BY <1>1, <1>2

\* Every step of SendBudget keeps the history well formed.
LEMMA HistoryStep == HistoryOK /\ [Next]_budgetVars => HistoryOK'
<1> SUFFICES ASSUME HistoryOK, [Next]_budgetVars
             PROVE  HistoryOK'
  OBVIOUS
<1>1. ASSUME NEW isContact \in BOOLEAN, Admit(isContact)
      PROVE  HistoryOK'
  <2> DEFINE e == [id |-> calls, at |-> now, contact |-> isContact]
  <2>1. IsFiniteSet(admitted \union {e})
    BY FS_AddElement DEF HistoryOK
  <2>2. /\ e \in Entry /\ e.at = now /\ e.id = calls
        /\ admitted' = admitted \union {e} /\ lookups' = lookups
        /\ calls' = calls + 1 /\ now' = now
    BY <1>1 DEF HistoryOK, Admit, Entry
  <2> HIDE DEF e
  <2> QED
    BY <2>1, <2>2 DEF HistoryOK, Entry
<1>2. CASE LookUp
  <2> DEFINE e == [id |-> calls, at |-> now, contact |-> TRUE]
  <2>1. IsFiniteSet(lookups \union {e})
    BY FS_AddElement DEF HistoryOK
  <2>2. /\ e \in Entry /\ e.at = now /\ e.id = calls
        /\ lookups' = lookups \union {e} /\ admitted' = admitted
        /\ calls' = calls + 1 /\ now' = now
    BY <1>2 DEF HistoryOK, LookUp, Entry
  <2> HIDE DEF e
  <2> QED
    BY <2>1, <2>2 DEF HistoryOK, Entry
<1>3. CASE Tick
  BY <1>3 DEF HistoryOK, Tick, Entry
<1>4. CASE UNCHANGED budgetVars
  BY <1>4 DEF HistoryOK, budgetVars
<1> QED
  BY <1>1, <1>2, <1>3, <1>4 DEF Next

\* The history is always finite, and never ahead of the clock.
LEMMA SendBudgetHistory == Spec => []HistoryOK
<1>1. Init => HistoryOK
  BY FS_EmptySet DEF Init, HistoryOK
<1> QED
  BY <1>1, HistoryStep, PTL DEF Spec

\* Whatever the limits and however the calls are timed, a history kept by
\* SendBudget satisfies every cap and floor the Config comments promise.
THEOREM BudgetKeepsPromises == Spec => []Promises
<1>1. Init => Promises
  BY DEF Init, Promises, HourlyCap, NonContactHourlyCap, UsyncCap, MinSpacing,
         Capped, NonContacts
<1>2. HistoryOK /\ Promises /\ [Next]_budgetVars => Promises'
  <2> SUFFICES ASSUME HistoryOK, Promises, [Next]_budgetVars
               PROVE  Promises'
    OBVIOUS
  <2> USE BudgetAssumption
  <2>1. ASSUME NEW isContact \in BOOLEAN, Admit(isContact)
        PROVE  Promises'
    <3> DEFINE e == [id |-> calls, at |-> now, contact |-> isContact]
    <3>1. /\ e \in Entry /\ e.at = now /\ e.id = calls /\ e.contact = isContact
          /\ admitted' = admitted \union {e} /\ lookups' = lookups
      BY <2>1 DEF HistoryOK, Admit, Entry
    <3> HIDE DEF e
    <3>2. HourlyCap'
      BY <2>1, <3>1, CapGrows DEF HistoryOK, Promises, HourlyCap, Capped, Admit,
         MayAdmit, WindowEndingAt
    <3>3. NonContactHourlyCap'
      <4>1. CASE isContact
        <5>1. NonContacts(admitted)' = NonContacts(admitted)
          BY <4>1, <3>1 DEF NonContacts
        <5> QED
          BY <5>1 DEF Promises, NonContactHourlyCap, Capped, WindowEndingAt
      <4>2. CASE ~isContact
        <5>1. NonContacts(admitted)' = NonContacts(admitted) \union {e}
          BY <4>2, <3>1 DEF NonContacts
        <5>2. /\ NonContacts(admitted) \in SUBSET Entry
              /\ IsFiniteSet(NonContacts(admitted))
              /\ \A f \in NonContacts(admitted) : f.at <= now
          BY FS_Subset DEF HistoryOK, NonContacts
        <5>3. Room(Trailing(NonContacts(admitted), Hour), NonContactMaxPerHour)
          BY <2>1, <4>2 DEF Admit, MayAdmit
        <5>4. Capped(NonContacts(admitted) \union {e}, Hour, NonContactMaxPerHour)
          BY <3>1, <5>2, <5>3, CapGrows
             DEF HistoryOK, Promises, NonContactHourlyCap
        <5> QED
          BY <5>1, <5>4 DEF NonContactHourlyCap, Capped, WindowEndingAt
      <4> QED
        BY <4>1, <4>2
    <3>4. UsyncCap'
      BY <3>1 DEF Promises, UsyncCap, Capped, WindowEndingAt
    <3>5. MinSpacing'
      <4> SUFFICES ASSUME NEW f \in admitted \union {e}, NEW g \in admitted \union {e},
                          f.id < g.id
                   PROVE  g.at - f.at >= MinInterval(g.contact)
        BY <3>1 DEF MinSpacing, MinInterval
      <4>1. CASE g = e
        BY <2>1, <3>1, <4>1 DEF HistoryOK, Admit, MayAdmit, Entry
      <4>2. CASE f = e /\ g # e
        BY <3>1, <4>2 DEF HistoryOK, Entry
      <4>3. CASE f # e /\ g # e
        BY <4>3 DEF Promises, MinSpacing
      <4> QED
        BY <4>1, <4>2, <4>3
    <3> QED
      BY <3>2, <3>3, <3>4, <3>5 DEF Promises
  <2>2. CASE LookUp
    <3> DEFINE e == [id |-> calls, at |-> now, contact |-> TRUE]
    <3>1. /\ e \in Entry /\ e.at = now
          /\ admitted' = admitted /\ lookups' = lookups \union {e}
      BY <2>2 DEF HistoryOK, LookUp, Entry
    <3> HIDE DEF e
    <3>2. UsyncCap'
      BY <2>2, <3>1, CapGrows DEF HistoryOK, Promises, UsyncCap, Capped, LookUp,
         MayLookUp, WindowEndingAt
    <3> QED
      BY <3>1, <3>2 DEF Promises, HourlyCap, NonContactHourlyCap, MinSpacing,
         Capped, NonContacts, WindowEndingAt, MinInterval
  <2>3. CASE UNCHANGED <<admitted, lookups>>
    BY <2>3 DEF Promises, HourlyCap, NonContactHourlyCap, UsyncCap, MinSpacing,
       Capped, NonContacts, WindowEndingAt, MinInterval
  <2> QED
    BY <2>1, <2>2, <2>3 DEF Next, Tick, budgetVars
<1> QED
  BY <1>1, <1>2, SendBudgetHistory, PTL DEF Spec

\* A non-empty set of naturals has a least element.
LEMMA LeastNat ==
    ASSUME NEW T \in SUBSET Nat, T # {}
    PROVE  \E x \in T : \A y \in T : x <= y
<1> DEFINE R == OpToRel(<, Nat)
<1>1. IsWellFoundedOn(R, Nat)
  BY NatLessThanWellFounded
<1>2. PICK x \in T : \A y \in T : ~(<<y, x>> \in R)
  <2> HIDE DEF R
  <2> QED
    BY <1>1, WFMin
<1>3. \A y \in T : <<y, x>> \in Nat \X Nat /\ ~(y < x)
  BY <1>2 DEF OpToRel
<1>4. \A y \in T : x <= y
  <2> SUFFICES ASSUME NEW y \in T PROVE x <= y
    OBVIOUS
  <2>1. x \in Nat /\ y \in Nat /\ ~(y < x)
    BY <1>3
  <2> HIDE DEF R
  <2> QED
    BY <2>1
<1> QED
  BY <1>4

-------------------------------------------------------------------------------
(* Part 2: the windows of RateLimiter lose nothing that counts.            *)

SendWindowsOK ==
    /\ sends \subseteq admitted
    /\ Trailing(admitted, Hour) \subseteq sends
    /\ nonContactSends \subseteq NonContacts(admitted)
    /\ Trailing(NonContacts(admitted), Hour) \subseteq nonContactSends
    /\ lastSend \in Nat \union {NoSend}
    /\ lastSend = NoSend <=> admitted = {}
    /\ lastSend # NoSend => \E e \in admitted : e.at = lastSend
    /\ \A e \in admitted : e.at <= lastSend

UsyncWindowOK ==
    /\ usyncs \subseteq lookups
    /\ Trailing(lookups, Minute) \subseteq usyncs

WindowsOK == HistoryOK /\ SendWindowsOK /\ UsyncWindowOK

\* After pruning, each window is exactly the trailing window of its history.
LEMMA LiveIsTrailing ==
    ASSUME WindowsOK
    PROVE  /\ LiveSends = Trailing(admitted, Hour)
           /\ LiveNonContacts = Trailing(NonContacts(admitted), Hour)
           /\ LiveUsyncs = Trailing(lookups, Minute)
<1> USE BudgetAssumption
<1>1. LiveSends = Trailing(admitted, Hour)
  BY DEF WindowsOK, SendWindowsOK, HistoryOK, LiveSends, PruneBefore, Trailing, Entry
<1>2. LiveNonContacts = Trailing(NonContacts(admitted), Hour)
  BY DEF WindowsOK, SendWindowsOK, HistoryOK, LiveNonContacts, PruneBefore, Trailing,
     NonContacts, Entry
<1>3. LiveUsyncs = Trailing(lookups, Minute)
  BY DEF WindowsOK, UsyncWindowOK, HistoryOK, LiveUsyncs, PruneBefore, Trailing, Entry
<1> QED
  BY <1>1, <1>2, <1>3

\* The code's comparison with a cap and the room of a window agree.
LEMMA CapIsRoom ==
    ASSUME NEW S, IsFiniteSet(S), NEW cap \in Nat
    PROVE  ~AtCap(S, cap) <=> Room(S, cap)
BY FS_CardinalityType DEF AtCap, Room

\* The floor test against lastSend says what the whole history says.
LEMMA FloorIsSpacing ==
    ASSUME WindowsOK, NEW isContact \in BOOLEAN
    PROVE  ~TooSoon(isContact) <=>
               \A e \in admitted : now - e.at >= MinInterval(isContact)
<1> USE BudgetAssumption
<1>1. CASE lastSend = NoSend
  BY <1>1 DEF WindowsOK, SendWindowsOK, TooSoon
<1>2. CASE lastSend # NoSend
  <2>1. /\ lastSend \in Nat /\ now \in Nat
        /\ \A e \in admitted : e.at \in Nat /\ e.at <= lastSend
        /\ \E e \in admitted : e.at = lastSend
    BY <1>2 DEF WindowsOK, SendWindowsOK, HistoryOK, Entry
  <2>2. MinInterval(isContact) \in Nat
    BY DEF MinInterval
  <2> QED
    BY <1>2, <2>1, <2>2 DEF TooSoon
<1> QED
  BY <1>1, <1>2

\* Windows that hold what counts decide as the history does.
LEMMA ExactDecisions == WindowsOK => DecisionExact
<1> SUFFICES ASSUME WindowsOK PROVE DecisionExact
  OBVIOUS
<1> USE BudgetAssumption
<1>1. /\ IsFiniteSet(Trailing(admitted, Hour))
      /\ IsFiniteSet(Trailing(lookups, Minute))
  BY FS_Subset DEF WindowsOK, HistoryOK, Trailing
<1>2. IsFiniteSet(Trailing(NonContacts(admitted), Hour))
  <2>1. Trailing(NonContacts(admitted), Hour) \in SUBSET admitted
    BY DEF Trailing, NonContacts
  <2> QED
    BY <2>1, FS_Subset DEF WindowsOK, HistoryOK
<1>3. ASSUME NEW isContact \in BOOLEAN
      PROVE  SendAllowed(isContact) <=> MayAdmit(isContact)
  <2>1. ~AtCap(LiveSends, MaxSendsPerHour)
           <=> Room(Trailing(admitted, Hour), MaxSendsPerHour)
    BY <1>1, LiveIsTrailing, CapIsRoom
  <2>2. ~AtCap(LiveNonContacts, NonContactMaxPerHour)
           <=> Room(Trailing(NonContacts(admitted), Hour), NonContactMaxPerHour)
    BY <1>2, LiveIsTrailing, CapIsRoom
  <2> QED
    BY <2>1, <2>2, FloorIsSpacing DEF SendAllowed, NonContactCapped, MayAdmit
<1>4. UsyncAllowed <=> MayLookUp
  BY <1>1, LiveIsTrailing, CapIsRoom DEF UsyncAllowed, MayLookUp
<1> QED
  BY <1>3, <1>4 DEF DecisionExact

\* Each step of the limiter is a step of the history, or leaves it alone.
LEMMA StepImplements == WindowsOK /\ [RNext]_vars => [Next]_budgetVars
<1> SUFFICES ASSUME WindowsOK, [RNext]_vars PROVE [Next]_budgetVars
  OBVIOUS
<1>1. ASSUME NEW isContact \in BOOLEAN, AdmitSend(isContact)
      PROVE  Admit(isContact)
  BY <1>1, ExactDecisions DEF DecisionExact, AdmitSend, Admit
<1>2. ASSUME NEW isContact \in BOOLEAN, DenySend(isContact)
      PROVE  UNCHANGED budgetVars
  BY <1>2 DEF DenySend, Deny, budgetVars
<1>3. CASE AdmitUsync
  BY <1>3, ExactDecisions DEF DecisionExact, AdmitUsync, LookUp, Next
<1>4. CASE DenyUsync
  BY <1>4 DEF DenyUsync, Deny, budgetVars
<1>5. CASE RTick
  BY <1>5 DEF RTick, Next
<1>6. CASE UNCHANGED vars
  BY <1>6 DEF vars
<1> QED
  BY <1>1, <1>2, <1>3, <1>4, <1>5, <1>6 DEF RNext, Next

\* An admitted send joins the windows; the pruned ones still hold the rest.
LEMMA AdmitSendKeepsWindows ==
    ASSUME WindowsOK, NEW isContact \in BOOLEAN, AdmitSend(isContact)
    PROVE  SendWindowsOK'
<1> USE BudgetAssumption
<1> DEFINE e == [id |-> calls, at |-> now, contact |-> isContact]
<1>1. /\ e.at = now /\ e.contact = isContact
      /\ now' = now /\ now \in Nat /\ lastSend' = now
      /\ admitted' = admitted \union {e}
      /\ sends' = LiveSends \union {e}
      /\ nonContactSends' =
             IF isContact THEN LiveNonContacts ELSE LiveNonContacts \union {e}
      /\ \A f \in admitted : f.at \in Nat /\ f.at <= now
  BY DEF WindowsOK, HistoryOK, AdmitSend, Entry
<1> HIDE DEF e
<1>2. /\ LiveSends = Trailing(admitted, Hour)
      /\ LiveNonContacts = Trailing(NonContacts(admitted), Hour)
  BY LiveIsTrailing
<1>3. sends' \subseteq admitted' /\ Trailing(admitted, Hour)' \subseteq sends'
  BY <1>1, <1>2 DEF Trailing
<1>4. /\ nonContactSends' \subseteq NonContacts(admitted)'
      /\ Trailing(NonContacts(admitted), Hour)' \subseteq nonContactSends'
  BY <1>1, <1>2 DEF Trailing, NonContacts
<1>5. /\ lastSend' \in Nat \union {NoSend}
      /\ lastSend' = NoSend <=> admitted' = {}
      /\ lastSend' # NoSend => \E f \in admitted' : f.at = lastSend'
      /\ \A f \in admitted' : f.at <= lastSend'
  BY <1>1 DEF NoSend
<1> QED
  BY <1>3, <1>4, <1>5 DEF SendWindowsOK

\* A denial leaves the pruned windows behind, which is all that counts.
LEMMA DenySendKeepsWindows ==
    ASSUME WindowsOK, NEW isContact \in BOOLEAN, DenySend(isContact)
    PROVE  SendWindowsOK'
<1>1. /\ now' = now /\ admitted' = admitted /\ lastSend' = lastSend
      /\ sends' = Trailing(admitted, Hour)
      /\ nonContactSends' = Trailing(NonContacts(admitted), Hour)
  BY LiveIsTrailing DEF DenySend, Deny
<1> QED
  BY <1>1 DEF WindowsOK, SendWindowsOK, Trailing, NonContacts

\* As time passes the trailing windows only lose entries.
LEMMA TickKeepsWindows ==
    ASSUME WindowsOK, RTick
    PROVE  SendWindowsOK' /\ UsyncWindowOK'
<1> USE BudgetAssumption
<1>1. /\ now' = now + 1 /\ now \in Nat
      /\ admitted' = admitted /\ lookups' = lookups /\ lastSend' = lastSend
      /\ sends' = sends /\ nonContactSends' = nonContactSends /\ usyncs' = usyncs
      /\ \A f \in admitted \union lookups : f.at \in Nat
  BY DEF WindowsOK, HistoryOK, RTick, Tick, limiterVars, Entry
<1>2. /\ Trailing(admitted, Hour)' \subseteq Trailing(admitted, Hour)
      /\ Trailing(NonContacts(admitted), Hour)'
             \subseteq Trailing(NonContacts(admitted), Hour)
      /\ Trailing(lookups, Minute)' \subseteq Trailing(lookups, Minute)
  BY <1>1 DEF Trailing, NonContacts
<1> QED
  BY <1>1, <1>2 DEF WindowsOK, SendWindowsOK, UsyncWindowOK, NonContacts

\* A lookup, admitted or denied, keeps the lookup window complete.
LEMMA UsyncKeepsWindow ==
    ASSUME WindowsOK, AdmitUsync \/ DenyUsync
    PROVE  UsyncWindowOK'
<1> USE BudgetAssumption
<1>1. LiveUsyncs = Trailing(lookups, Minute) /\ now \in Nat
  BY LiveIsTrailing DEF WindowsOK, HistoryOK
<1>2. CASE AdmitUsync
  BY <1>1, <1>2 DEF AdmitUsync, UsyncWindowOK, Trailing
<1>3. CASE DenyUsync
  BY <1>1, <1>3 DEF DenyUsync, Deny, UsyncWindowOK, Trailing
<1> QED
  BY <1>2, <1>3

\* A step of the limiter keeps what its windows hold.
LEMMA WindowsStep == WindowsOK /\ [RNext]_vars => WindowsOK'
<1> SUFFICES ASSUME WindowsOK, [RNext]_vars
             PROVE  WindowsOK'
  OBVIOUS
<1>1. HistoryOK'
  BY StepImplements, HistoryStep DEF WindowsOK
<1>2. ASSUME NEW isContact \in BOOLEAN, AdmitSend(isContact)
      PROVE  SendWindowsOK' /\ UsyncWindowOK'
  BY <1>2, AdmitSendKeepsWindows
     DEF AdmitSend, WindowsOK, UsyncWindowOK, Trailing
<1>3. ASSUME NEW isContact \in BOOLEAN, DenySend(isContact)
      PROVE  SendWindowsOK' /\ UsyncWindowOK'
  BY <1>3, DenySendKeepsWindows
     DEF DenySend, Deny, WindowsOK, UsyncWindowOK, Trailing
<1>4. CASE AdmitUsync \/ DenyUsync
  BY <1>1, <1>4, UsyncKeepsWindow
     DEF AdmitUsync, DenyUsync, Deny, WindowsOK, SendWindowsOK, Trailing,
         NonContacts
<1>5. CASE RTick
  BY <1>1, <1>5, TickKeepsWindows DEF WindowsOK
<1>6. CASE UNCHANGED vars
  BY <1>1, <1>6 DEF vars, budgetVars, limiterVars, WindowsOK, SendWindowsOK,
     UsyncWindowOK, Trailing, NonContacts
<1> QED
  BY <1>1, <1>2, <1>3, <1>4, <1>5, <1>6 DEF RNext, WindowsOK

\* Empty windows hold the empty history.
LEMMA WindowsInitially == RInit => WindowsOK
BY FS_EmptySet DEF RInit, Init, WindowsOK, HistoryOK, SendWindowsOK,
   UsyncWindowOK, Trailing, NonContacts, NoSend

\* The windows always hold every entry that still counts.
LEMMA WindowsInvariant == RSpec => []WindowsOK
BY WindowsInitially, WindowsStep, PTL DEF RSpec

\* The limiter decides from its pruned windows what the complete history
\* would decide, for every choice of limits and every timing of the calls.
THEOREM LimiterIsExact == RSpec => []DecisionExact
BY WindowsInvariant, ExactDecisions, PTL

\* The limiter implements SendBudget.
THEOREM LimiterImplements == RSpec => ImplementsSendBudget
<1>1. RInit => Init
  BY DEF RInit
<1> QED
  BY <1>1, WindowsInvariant, StepImplements, PTL DEF RSpec, Spec, ImplementsSendBudget

\* The limiter keeps the caps and floors of the Config comments.
THEOREM LimiterKeepsPromises == RSpec => []Promises
BY LimiterImplements, BudgetKeepsPromises DEF ImplementsSendBudget

-------------------------------------------------------------------------------
(* Part 3: RetryAfter.  A denial is explained by calls that are still in   *)
(* the way until the time the caller was told.                             *)

\* The calls of S that are in the window which ends at time u reach the cap.
Exhausted(S, u, dur, cap) ==
    cap > 0 /\ Cardinality({e \in S : e.at >= u - dur}) >= cap

RetryOK ==
    /\ retry \in [CallKind -> Int]
    /\ \A isContact \in BOOLEAN :
          LET u == retry[SendKind(isContact)] IN
          now < u => \/ lastSend # NoSend /\ u <= lastSend + MinInterval(isContact)
                     \/ Exhausted(admitted, u, Hour, MaxSendsPerHour)
                     \/ /\ ~isContact
                        /\ Exhausted(NonContacts(admitted), u, Hour,
                                     NonContactMaxPerHour)
    /\ LET u == retry["usync"] IN
       now < u => Exhausted(lookups, u, Minute, MaxUsyncPerMinute)

\* More calls do not make a budget less exhausted.
LEMMA ExhaustedGrows ==
    ASSUME NEW T, IsFiniteSet(T), NEW S \in SUBSET T,
           NEW u, NEW dur, NEW cap \in Nat, Exhausted(S, u, dur, cap)
    PROVE  Exhausted(T, u, dur, cap)
<1> DEFINE ST == {e \in S : e.at >= u - dur}
           TT == {e \in T : e.at >= u - dur}
<1>1. ST \in SUBSET TT /\ TT \in SUBSET T
  OBVIOUS
<1>2. cap > 0 /\ Cardinality(ST) >= cap
  BY DEF Exhausted
<1> SUFFICES Cardinality(TT) >= cap
  BY <1>2 DEF Exhausted
<1> HIDE DEF ST, TT
<1>3. IsFiniteSet(TT)
  BY <1>1, FS_Subset
<1>4. IsFiniteSet(ST) /\ Cardinality(ST) <= Cardinality(TT)
  BY <1>1, <1>3, FS_Subset
<1>5. Cardinality(ST) \in Nat /\ Cardinality(TT) \in Nat
  BY <1>3, <1>4, FS_CardinalityType
<1> QED
  BY <1>2, <1>4, <1>5

\* What is exhausted at a later time u is at its cap now.
LEMMA ExhaustedIsFull ==
    ASSUME NEW S \in SUBSET Entry, IsFiniteSet(S), now \in Nat,
           NEW u \in Int, now < u, NEW dur \in Nat, NEW cap \in Nat,
           Exhausted(S, u, dur, cap)
    PROVE  AtCap(Trailing(S, dur), cap)
<1> DEFINE Late == {e \in S : e.at >= u - dur}
<1>1. Late \in SUBSET Trailing(S, dur)
  BY DEF Trailing, Entry
<1>2. Trailing(S, dur) \in SUBSET S
  BY DEF Trailing
<1>3. cap > 0 /\ Cardinality(Late) >= cap
  BY DEF Exhausted
<1> HIDE DEF Late
<1>4. IsFiniteSet(Trailing(S, dur))
  BY <1>2, FS_Subset
<1>5. IsFiniteSet(Late) /\ Cardinality(Late) <= Cardinality(Trailing(S, dur))
  BY <1>1, <1>4, FS_Subset
<1>6. Cardinality(Late) \in Nat /\ Cardinality(Trailing(S, dur)) \in Nat
  BY <1>4, <1>5, FS_CardinalityType
<1> QED
  BY <1>3, <1>5, <1>6 DEF AtCap

\* A window at its cap stays exhausted until its oldest entry expires.
LEMMA FullIsExhausted ==
    ASSUME NEW S \in SUBSET Entry, IsFiniteSet(S), now \in Nat,
           NEW dur \in Nat, NEW cap \in Nat,
           AtCap(Trailing(S, dur), cap)
    PROVE  LET u == OldestExpiry(Trailing(S, dur), dur) IN
           u \in Int /\ Exhausted(S, u, dur, cap)
<1> DEFINE W == Trailing(S, dur)
           oldest == CHOOSE e \in W : \A f \in W : e.at <= f.at
           u == oldest.at + dur
           Kept == {e \in S : e.at >= u - dur}
<1>1. W \in SUBSET S /\ W \in SUBSET Entry
  BY DEF Trailing
<1>2. IsFiniteSet(W)
  BY <1>1, FS_Subset
<1>3. W # {}
  BY <1>2, FS_EmptySet DEF AtCap
<1>4. \E e \in W : \A f \in W : e.at <= f.at
  <2>1. {e.at : e \in W} \in SUBSET Nat /\ {e.at : e \in W} # {}
    BY <1>1, <1>3 DEF Entry
  <2>2. PICK x \in {e.at : e \in W} : \A y \in {e.at : e \in W} : x <= y
    BY <2>1, LeastNat
  <2> QED
    BY <2>2
<1>5. /\ oldest \in W /\ \A f \in W : oldest.at <= f.at
      /\ oldest.at \in Nat
  BY <1>1, <1>4 DEF Entry
<1> HIDE DEF W, oldest
<1>6. W \in SUBSET Kept /\ Kept \in SUBSET S
  BY <1>1, <1>5 DEF Entry
<1>7. OldestExpiry(W, dur) = oldest.at + dur
  BY DEF OldestExpiry, oldest
<1>8. cap > 0 /\ Cardinality(W) >= cap
  BY DEF AtCap, W
<1> HIDE DEF Kept
<1>9. IsFiniteSet(Kept)
  BY <1>6, FS_Subset
<1>10. Cardinality(W) <= Cardinality(Kept)
  BY <1>6, <1>9, FS_Subset
<1>11. Cardinality(W) \in Nat /\ Cardinality(Kept) \in Nat
  BY <1>2, <1>9, FS_CardinalityType
<1>12. Cardinality(Kept) >= cap
  BY <1>8, <1>10, <1>11
<1>13. u \in Int
  BY <1>5
<1> HIDE DEF u
<1>14. Exhausted(S, u, dur, cap)
  BY <1>8, <1>12 DEF Exhausted, Kept
<1> QED
  BY <1>7, <1>13, <1>14 DEF W, u

\* A denied send is told a time until which something it collided with stays.
LEMMA DenialIsExplained ==
    ASSUME WindowsOK, NEW isContact \in BOOLEAN, ~SendAllowed(isContact)
    PROVE  LET u == SendRetryAt(isContact) IN
           /\ u \in Int
           /\ \/ lastSend # NoSend /\ u <= lastSend + MinInterval(isContact)
              \/ Exhausted(admitted, u, Hour, MaxSendsPerHour)
              \/ /\ ~isContact
                 /\ Exhausted(NonContacts(admitted), u, Hour, NonContactMaxPerHour)
<1> USE BudgetAssumption
<1>1. /\ MinInterval(isContact) \in Nat /\ now \in Nat
      /\ lastSend \in Nat \union {NoSend}
      /\ admitted \in SUBSET Entry /\ IsFiniteSet(admitted)
  BY DEF MinInterval, WindowsOK, SendWindowsOK, HistoryOK
<1>2. /\ NonContacts(admitted) \in SUBSET Entry
      /\ IsFiniteSet(NonContacts(admitted))
  BY <1>1, FS_Subset DEF NonContacts
<1>3. CASE TooSoon(isContact)
  BY <1>1, <1>3 DEF TooSoon, SendRetryAt
<1>4. CASE ~TooSoon(isContact) /\ AtCap(LiveSends, MaxSendsPerHour)
  <2>1. SendRetryAt(isContact) = OldestExpiry(Trailing(admitted, Hour), Hour)
    BY <1>4, LiveIsTrailing DEF SendRetryAt
  <2>2. AtCap(Trailing(admitted, Hour), MaxSendsPerHour)
    BY <1>4, LiveIsTrailing
  <2> QED
    BY <1>1, <2>1, <2>2, FullIsExhausted
<1>5. CASE ~TooSoon(isContact) /\ ~AtCap(LiveSends, MaxSendsPerHour)
  <2>1. ~isContact /\ AtCap(LiveNonContacts, NonContactMaxPerHour)
    BY <1>5 DEF SendAllowed, NonContactCapped
  <2>2. SendRetryAt(isContact)
            = OldestExpiry(Trailing(NonContacts(admitted), Hour), Hour)
    BY <1>5, LiveIsTrailing DEF SendRetryAt
  <2>3. AtCap(Trailing(NonContacts(admitted), Hour), NonContactMaxPerHour)
    BY <2>1, LiveIsTrailing
  <2> QED
    BY <1>1, <1>2, <2>1, <2>2, <2>3, FullIsExhausted
<1> QED
  BY <1>3, <1>4, <1>5

\* What a denied send is told is explained by the history.
LEMMA DenyKeepsRetry ==
    ASSUME WindowsOK, RetryOK, NEW isContact \in BOOLEAN, DenySend(isContact)
    PROVE  RetryOK'
<1> DEFINE k == SendKind(isContact)
           u == SendRetryAt(isContact)
<1>1. /\ now' = now /\ lastSend' = lastSend /\ admitted' = admitted
      /\ lookups' = lookups
      /\ retry' = [retry EXCEPT ![k] = u]
      /\ ~SendAllowed(isContact)
  BY DEF DenySend, Deny
<1>2. calls \in Nat /\ k \in CallKind /\ k # "usync"
  BY DEF WindowsOK, HistoryOK, SendKind, CallKind
<1>3. /\ u \in Int
      /\ \/ lastSend # NoSend /\ u <= lastSend + MinInterval(isContact)
         \/ Exhausted(admitted, u, Hour, MaxSendsPerHour)
         \/ ~isContact /\ Exhausted(NonContacts(admitted), u, Hour, NonContactMaxPerHour)
  BY <1>1, DenialIsExplained
<1> HIDE DEF u
<1>4. /\ retry' \in [CallKind -> Int]
      /\ retry'[k] = u
      /\ \A j \in CallKind : j # k => retry'[j] = retry[j]
  BY <1>1, <1>2, <1>3 DEF RetryOK
<1>5. ASSUME NEW c \in BOOLEAN, now < retry'[SendKind(c)]
      PROVE  \/ lastSend # NoSend
                /\ retry'[SendKind(c)] <= lastSend + MinInterval(c)
             \/ Exhausted(admitted, retry'[SendKind(c)], Hour, MaxSendsPerHour)
             \/ ~c /\ Exhausted(NonContacts(admitted), retry'[SendKind(c)],
                                Hour, NonContactMaxPerHour)
  <2>1. CASE c = isContact
    BY <1>3, <1>4, <2>1
  <2>2. CASE c # isContact
    <3>1. SendKind(c) \in CallKind /\ SendKind(c) # k
      BY <2>2 DEF SendKind, CallKind
    <3>2. retry'[SendKind(c)] = retry[SendKind(c)]
      BY <1>4, <3>1
    <3> QED
      BY <1>5, <3>2 DEF RetryOK
  <2> QED
    BY <2>1, <2>2
<1>6. retry'["usync"] = retry["usync"]
  BY <1>2, <1>4 DEF CallKind
<1> HIDE DEF k
<1> QED
  BY <1>1, <1>4, <1>5, <1>6 DEF RetryOK, Exhausted, NonContacts, MinInterval

\* A step that only adds calls and lets time pass leaves every earlier denial
\* explained.
LEMMA GrowthKeepsRetry ==
    ASSUME WindowsOK, WindowsOK', RetryOK, retry' = retry,
           now <= now', admitted \subseteq admitted', lookups \subseteq lookups',
           lastSend <= lastSend'
    PROVE  RetryOK'
<1> USE BudgetAssumption
<1>1. /\ now \in Nat /\ now' \in Nat
      /\ lastSend \in Nat \union {NoSend} /\ lastSend' \in Nat \union {NoSend}
      /\ IsFiniteSet(admitted') /\ IsFiniteSet(lookups')
  BY DEF WindowsOK, HistoryOK, SendWindowsOK
<1>2. \A kind \in CallKind : retry[kind] \in Int
  BY DEF RetryOK
<1>3. ASSUME NEW c \in BOOLEAN, now' < retry[SendKind(c)]
      PROVE  \/ lastSend' # NoSend
                /\ retry[SendKind(c)] <= lastSend' + MinInterval(c)
             \/ Exhausted(admitted', retry[SendKind(c)], Hour, MaxSendsPerHour)
             \/ ~c /\ Exhausted(NonContacts(admitted'), retry[SendKind(c)],
                                Hour, NonContactMaxPerHour)
  <2> DEFINE u == retry[SendKind(c)]
  <2>1. SendKind(c) \in CallKind
    BY DEF SendKind, CallKind
  <2>2. u \in Int /\ MinInterval(c) \in Nat
    BY <1>2, <2>1 DEF MinInterval
  <2>3. now < u
    BY <1>1, <1>3, <2>2
  <2>4. \/ lastSend # NoSend /\ u <= lastSend + MinInterval(c)
        \/ Exhausted(admitted, u, Hour, MaxSendsPerHour)
        \/ ~c /\ Exhausted(NonContacts(admitted), u, Hour, NonContactMaxPerHour)
    BY <2>3 DEF RetryOK
  <2> HIDE DEF u
  <2>5. ASSUME lastSend # NoSend, u <= lastSend + MinInterval(c)
        PROVE  lastSend' # NoSend /\ u <= lastSend' + MinInterval(c)
    BY <1>1, <2>2, <2>5 DEF NoSend
  <2>6. ASSUME Exhausted(admitted, u, Hour, MaxSendsPerHour)
        PROVE  Exhausted(admitted', u, Hour, MaxSendsPerHour)
    BY <1>1, <2>6, ExhaustedGrows
  <2>7. ASSUME Exhausted(NonContacts(admitted), u, Hour, NonContactMaxPerHour)
        PROVE  Exhausted(NonContacts(admitted'), u, Hour, NonContactMaxPerHour)
    <3>1. NonContacts(admitted) \in SUBSET NonContacts(admitted')
      BY DEF NonContacts
    <3>2. IsFiniteSet(NonContacts(admitted'))
      BY <1>1, FS_Subset DEF NonContacts
    <3> QED
      BY <2>7, <3>1, <3>2, ExhaustedGrows
  <2> QED
    BY <2>4, <2>5, <2>6, <2>7 DEF u
<1>4. ASSUME now' < retry["usync"]
      PROVE  Exhausted(lookups', retry["usync"], Minute, MaxUsyncPerMinute)
  <2>1. now < retry["usync"]
    BY <1>1, <1>2, <1>4 DEF CallKind
  <2>2. Exhausted(lookups, retry["usync"], Minute, MaxUsyncPerMinute)
    BY <2>1 DEF RetryOK
  <2> QED
    BY <1>1, <2>2, ExhaustedGrows
<1> QED
  BY <1>3, <1>4 DEF RetryOK, Exhausted, NonContacts, MinInterval

\* What a denied lookup is told is explained by the history.
LEMMA DenyUsyncKeepsRetry ==
    ASSUME WindowsOK, RetryOK, DenyUsync
    PROVE  RetryOK'
<1> USE BudgetAssumption
<1> DEFINE u == OldestExpiry(LiveUsyncs, Minute)
<1>1. /\ now' = now /\ lastSend' = lastSend /\ admitted' = admitted
      /\ lookups' = lookups /\ calls \in Nat
      /\ retry' = [retry EXCEPT !["usync"] = u]
  BY DEF DenyUsync, Deny, WindowsOK, HistoryOK
<1>2. u \in Int /\ Exhausted(lookups, u, Minute, MaxUsyncPerMinute)
  BY LiveIsTrailing, FullIsExhausted
     DEF DenyUsync, UsyncAllowed, WindowsOK, HistoryOK
<1> HIDE DEF u
<1>3. /\ retry' \in [CallKind -> Int]
      /\ retry'["usync"] = u
      /\ retry'["contact"] = retry["contact"]
      /\ retry'["nonContact"] = retry["nonContact"]
  BY <1>1, <1>2 DEF RetryOK, CallKind
<1>4. \A c \in BOOLEAN : retry'[SendKind(c)] = retry[SendKind(c)]
  BY <1>3 DEF SendKind
<1> QED
  BY <1>1, <1>2, <1>3, <1>4 DEF RetryOK, Exhausted, NonContacts, MinInterval

\* Every RetryAfter told so far is explained by the history.
LEMMA RetryInvariant == RSpec => []RetryOK
<1>1. RInit => RetryOK
  BY DEF RInit, Init, RetryOK, CallKind, SendKind
<1>2. WindowsOK /\ WindowsOK' /\ RetryOK /\ [RNext]_vars => RetryOK'
  <2> SUFFICES ASSUME WindowsOK, WindowsOK', RetryOK, [RNext]_vars
               PROVE  RetryOK'
    OBVIOUS
  <2>1. now \in Nat /\ lastSend \in Nat \union {NoSend} /\ lastSend <= now
    BY BudgetAssumption
       DEF WindowsOK, HistoryOK, SendWindowsOK, NoSend, Entry
  <2>2. ASSUME NEW isContact \in BOOLEAN, AdmitSend(isContact)
        PROVE  RetryOK'
    BY <2>1, <2>2, GrowthKeepsRetry DEF AdmitSend, NoSend
  <2>3. ASSUME NEW isContact \in BOOLEAN, DenySend(isContact)
        PROVE  RetryOK'
    BY <2>3, DenyKeepsRetry
  <2>4. CASE AdmitUsync
    BY <2>1, <2>4, GrowthKeepsRetry DEF AdmitUsync, NoSend
  <2>5. CASE DenyUsync
    BY <2>5, DenyUsyncKeepsRetry
  <2>6. CASE RTick
    BY <2>1, <2>6, GrowthKeepsRetry DEF RTick, Tick, limiterVars, NoSend
  <2>7. CASE UNCHANGED vars
    BY <2>1, <2>7, GrowthKeepsRetry DEF vars, budgetVars, limiterVars, NoSend
  <2> QED
    BY <2>2, <2>3, <2>4, <2>5, <2>6, <2>7 DEF RNext
<1> QED
  BY <1>1, <1>2, WindowsInvariant, PTL DEF RSpec

\* An explained RetryAfter does not overstate the wait.
LEMMA ExplainedIsNecessary == WindowsOK /\ RetryOK => RetryAfterIsNecessary
<1> SUFFICES ASSUME WindowsOK, RetryOK, NEW kind \in CallKind,
                    now < retry[kind]
             PROVE  ~KindAllowed(kind)
  BY DEF RetryAfterIsNecessary
<1> USE BudgetAssumption
<1>1. /\ now \in Nat /\ lastSend \in Nat \union {NoSend}
      /\ retry[kind] \in Int
      /\ admitted \in SUBSET Entry /\ IsFiniteSet(admitted)
      /\ lookups \in SUBSET Entry /\ IsFiniteSet(lookups)
  BY DEF WindowsOK, HistoryOK, SendWindowsOK, RetryOK
<1>2. /\ NonContacts(admitted) \in SUBSET Entry
      /\ IsFiniteSet(NonContacts(admitted))
  BY <1>1, FS_Subset DEF NonContacts
<1>3. ASSUME NEW c \in BOOLEAN, kind = SendKind(c)
      PROVE  ~SendAllowed(c)
  <2> DEFINE u == retry[kind]
  <2>1. \/ lastSend # NoSend /\ u <= lastSend + MinInterval(c)
        \/ Exhausted(admitted, u, Hour, MaxSendsPerHour)
        \/ ~c /\ Exhausted(NonContacts(admitted), u, Hour, NonContactMaxPerHour)
    BY <1>3 DEF RetryOK
  <2> u \in Int /\ now < u /\ MinInterval(c) \in Nat
    BY <1>1 DEF MinInterval
  <2> HIDE DEF u
  <2>2. CASE lastSend # NoSend /\ u <= lastSend + MinInterval(c)
    BY <1>1, <2>2 DEF SendAllowed, TooSoon
  <2>3. CASE Exhausted(admitted, u, Hour, MaxSendsPerHour)
    BY <1>1, <2>3, ExhaustedIsFull, LiveIsTrailing DEF SendAllowed
  <2>4. CASE ~c /\ Exhausted(NonContacts(admitted), u, Hour, NonContactMaxPerHour)
    BY <1>1, <1>2, <2>4, ExhaustedIsFull, LiveIsTrailing
       DEF SendAllowed, NonContactCapped
  <2> QED
    BY <2>1, <2>2, <2>3, <2>4
<1>4. CASE kind = "usync"
  <2>1. Exhausted(lookups, retry[kind], Minute, MaxUsyncPerMinute)
    BY <1>4 DEF RetryOK
  <2>2. AtCap(Trailing(lookups, Minute), MaxUsyncPerMinute)
    BY <1>1, <2>1, ExhaustedIsFull
  <2> QED
    BY <1>4, <2>2, LiveIsTrailing DEF KindAllowed, UsyncAllowed
<1>5. CASE kind = "contact"
  BY <1>3, <1>5 DEF SendKind, KindAllowed
<1>6. CASE kind = "nonContact"
  BY <1>3, <1>6 DEF SendKind, KindAllowed
<1> QED
  BY <1>4, <1>5, <1>6 DEF CallKind

\* However calls of the other kinds interleave, a denied caller who comes back
\* before now + RetryAfter is denied again.
THEOREM RetryAfterIsHonest == RSpec => []RetryAfterIsNecessary
BY WindowsInvariant, RetryInvariant, ExplainedIsNecessary, PTL

\* Every variable of the limiter keeps its type.
THEOREM LimiterTypeCorrect == RSpec => []TypeOK
<1>1. WindowsOK /\ RetryOK => TypeOK
  BY DEF WindowsOK, HistoryOK, SendWindowsOK, UsyncWindowOK, RetryOK, TypeOK,
     NonContacts
<1> QED
  BY <1>1, WindowsInvariant, RetryInvariant, PTL

-------------------------------------------------------------------------------
(* Part 4: the calls between the limiter and the wire.                     *)

Types ==
    /\ run \in [Call -> Running \union {Idle, Returned}]
    /\ inbound \in SUBSET (Recipient \ Group)
    /\ wire \in SUBSET Sent
    /\ rows \in SUBSET Call
    /\ cold \in SUBSET Nat

\* No two admissions share an id; the cold ones are charged to the stricter cap.
AdmissionsOK ==
    /\ \A e, f \in admitted : e.id = f.id => e = f
    /\ \A n \in cold : n < calls
    /\ \A e \in admitted : e.id \in cold => ~e.contact

\* A ticket was admitted by the time given and at most MaxDelay earlier.
Paid(ticket, time) ==
    \E e \in admitted : e.id = ticket /\ e.at <= time /\ time <= e.at + MaxDelay

Holds(c, ticket) == run[c].at = "sending" /\ run[c].ticket = ticket

\* What a call may rely on at each step.
CallOK(c) ==
    /\ run[c].at \in {"classify", "limit"} => Throttled(run[c].for)
    /\ run[c].at = "limit" /\ run[c].contact => Known(run[c].for.to)
    /\ run[c].at = "sending" => (Throttled(run[c].for) <=> run[c].ticket # NoTicket)
    /\ run[c].at = "sending" /\ Throttled(run[c].for) =>
         /\ Paid(run[c].ticket, now)
         /\ \A w \in wire : w.ticket # run[c].ticket
         /\ \A d \in Call \ {c} : ~Holds(d, run[c].ticket)
    /\ run[c].at = "persist" => \E w \in wire : w.call = c

\* Every throttled message has an admission of its own, at most MaxDelay older.
WireOK ==
    /\ \A w \in wire : w.throttled <=> w.ticket # NoTicket
    /\ \A w \in wire : w.throttled => Paid(w.ticket, w.at)
    /\ \A v, w \in wire : v.throttled /\ v.ticket = w.ticket => v = w

Inv == /\ HistoryOK /\ Types /\ AdmissionsOK /\ WireOK /\ HistoryIsSent
       /\ \A c \in Call : CallOK(c)

-------------------------------------------------------------------------------

\* A new call holds no ticket of anybody.
LEMMA InvInitially == OInit => Inv
BY BudgetAssumption, FS_EmptySet
DEF OInit, Init, Inv, HistoryOK, Types, AdmissionsOK, WireOK, HistoryIsSent, CallOK, Idle

\* The steps of the calls leave the limiter to its own steps.
LEMMA LimiterSteps == Types /\ [ONext]_sendVars => [Next]_budgetVars
<1> SUFFICES ASSUME Types, [ONext]_sendVars
             PROVE  Next \/ UNCHANGED budgetVars
  OBVIOUS
<1>1. ASSUME NEW c \in Call, AllowSend(c)
      PROVE  Next
  <2>1. run[c] \in Running
    BY <1>1 DEF Types, AllowSend, Idle, Returned
  <2>2. run[c].contact \in BOOLEAN
    BY <2>1 DEF Running
  <2> QED
    BY <1>1, <2>2 DEF AllowSend, Next
<1>2. ASSUME NEW c \in Call,
             \/ NotConnected(c) \/ IsKnownContact(c) \/ RefuseSend(c) \/ FailSend(c)
             \/ SendMessage(c) \/ PersistSent(c) \/ \E request \in Asked : Begin(c, request)
      PROVE  UNCHANGED budgetVars
  BY <1>2 DEF NotConnected, Begin, IsKnownContact, RefuseSend, FailSend, SendMessage, PersistSent
<1>3. CASE \E r \in Recipient : Receive(r)
  BY <1>3 DEF Receive
<1>4. CASE Clock
  BY <1>4 DEF Clock, Next
<1>5. CASE UNCHANGED sendVars
  BY <1>5 DEF sendVars
<1> QED
  BY <1>1, <1>2, <1>3, <1>4, <1>5 DEF ONext

\* Steps of one call that touch neither budget nor wire keep what is not about the
\* call itself.
LEMMA Quietly ==
  ASSUME Inv, NEW c \in Call, NEW r \in Running \union {Idle, Returned},
         run' = [run EXCEPT ![c] = r], r.at = "sending" => r.ticket = NoTicket,
         UNCHANGED <<budgetVars, inbound, wire, cold>>
  PROVE  /\ HistoryOK' /\ AdmissionsOK' /\ WireOK'
         /\ run' \in [Call -> Running \union {Idle, Returned}]
         /\ \A d \in Call \ {c} : CallOK(d)'
<1>1. HistoryOK'
  BY DEF Inv, HistoryOK, budgetVars
<1>2. AdmissionsOK' /\ WireOK'
  BY DEF Inv, AdmissionsOK, WireOK, Paid, budgetVars
<1>3. run' \in [Call -> Running \union {Idle, Returned}] /\ run'[c] = r
  BY DEF Inv, Types
<1>4. ASSUME NEW d \in Call \ {c}
      PROVE  CallOK(d)'
  <2>1. run'[d] = run[d] /\ CallOK(d)
    BY DEF Inv, Types
  <2>2. ASSUME run[d].at = "sending", Throttled(run[d].for), NEW k \in Call \ {d}
        PROVE  ~Holds(k, run[d].ticket)'
    BY <1>3, <2>1, <2>2 DEF Holds, CallOK, Inv, Types
  <2> QED
    BY <2>1, <2>2 DEF CallOK, Holds, Known, Paid, budgetVars
<1> QED
  BY <1>1, <1>2, <1>3, <1>4

LEMMA Together ==
  ASSUME HistoryOK', Types', AdmissionsOK', WireOK', HistoryIsSent',
         \A c \in Call : CallOK(c)'
  PROVE  Inv'
BY DEF Inv

\* Steps before the limiter, refusals and failures.
LEMMA QuietStepsKeepInv ==
  ASSUME Inv, NEW c \in Call,
         \/ NotConnected(c) \/ IsKnownContact(c) \/ RefuseSend(c) \/ FailSend(c)
         \/ PersistSent(c) \/ \E request \in Asked : Begin(c, request)
  PROVE  Inv'
<1>0. c \in DOMAIN run /\ \A r : run' = [run EXCEPT ![c] = r] => run'[c] = r
  BY DEF Inv, Types
<1>1. CASE NotConnected(c) \/ RefuseSend(c) \/ FailSend(c)
  <2>1. /\ run' = [run EXCEPT ![c] = Returned] /\ run'[c] = Returned
        /\ UNCHANGED <<budgetVars, inbound, wire, rows, cold>>
    BY <1>0, <1>1 DEF NotConnected, RefuseSend, FailSend
  <2>2. Returned.at = "returned"
    BY DEF Returned
  <2>3. CallOK(c)'
    BY <2>1, <2>2 DEF CallOK
  <2> QED
    BY <2>1, <2>2, <2>3, Quietly, Together DEF Inv, Types, HistoryIsSent
<1>2. CASE PersistSent(c)
  <2>1. /\ run' = [run EXCEPT ![c] = Returned] /\ run'[c] = Returned
        /\ UNCHANGED <<budgetVars, inbound, wire, cold>> /\ rows' \in {rows, rows \union {c}}
        /\ run[c].at = "persist"
    BY <1>0, <1>2 DEF PersistSent
  <2>2. Returned.at = "returned"
    BY DEF Returned
  <2>3. CallOK(c)'
    BY <2>1, <2>2 DEF CallOK
  <2>4. HistoryIsSent'
    BY <2>1 DEF Inv, CallOK, HistoryIsSent
  <2>5. rows' \in SUBSET Call
    BY <2>1 DEF Inv, Types
  <2> QED
    BY <2>1, <2>2, <2>3, <2>4, <2>5, Quietly, Together DEF Inv, Types
<1>3. ASSUME NEW request \in Asked, Begin(c, request)
      PROVE  Inv'
  <2> DEFINE r == Doing(IF Throttled(request) THEN "classify" ELSE "sending", request, FALSE, NoTicket)
  <2>1. /\ run' = [run EXCEPT ![c] = r] /\ run'[c] = r
        /\ UNCHANGED <<budgetVars, inbound, wire, rows, cold>>
    BY <1>0, <1>3 DEF Begin
  <2>2. /\ r \in Running /\ r.ticket = NoTicket /\ r.for = request
        /\ r.at = IF Throttled(request) THEN "classify" ELSE "sending"
    BY OutboundAssumption DEF Doing, Running, Ticket
  <2> HIDE DEF r
  <2>3. CallOK(c)'
    BY <2>1, <2>2 DEF CallOK
  <2> QED
    BY <2>1, <2>2, <2>3, Quietly, Together DEF Inv, Types, HistoryIsSent
<1>4. CASE IsKnownContact(c)
  <2>1. PICK lookedUp \in BOOLEAN :
          run' = [run EXCEPT ![c] = Doing("limit", run[c].for,
              run[c].for.to \in Group \/ (lookedUp /\ run[c].for.to \in inbound), NoTicket)]
    BY <1>4, OutboundAssumption DEF IsKnownContact
  <2> DEFINE known == run[c].for.to \in Group \/ (lookedUp /\ run[c].for.to \in inbound)
             r == Doing("limit", run[c].for, known, NoTicket)
  <2>2. /\ run[c].at = "classify" /\ UNCHANGED <<budgetVars, inbound, wire, rows, cold>>
    BY <1>4 DEF IsKnownContact
  <2>3. run[c] \in Running
    BY <2>2 DEF Inv, Types, Idle, Returned
  <2>4. /\ r \in Running /\ r.at = "limit" /\ r.for = run[c].for /\ r.contact = known
        /\ run' = [run EXCEPT ![c] = r] /\ run'[c] = r
    BY <1>0, <2>1, <2>3 DEF Doing, Running, Ticket
  <2>5. known => Known(run[c].for.to)
    BY DEF Known
  <2> HIDE DEF r, known
  <2>6. CallOK(c)'
    BY <2>2, <2>4, <2>5 DEF Inv, CallOK, Known
  <2> QED
    BY <2>2, <2>4, <2>6, Quietly, Together DEF Inv, Types, HistoryIsSent
<1> QED
  BY <1>1, <1>2, <1>3, <1>4

\* An admission makes a ticket that nobody has yet.
LEMMA AllowSendKeepsInv ==
  ASSUME Inv, HistoryOK', NEW c \in Call, AllowSend(c)
  PROVE  Inv'
<1> DEFINE r == Doing("sending", run[c].for, run[c].contact, calls)
           e == [id |-> calls, at |-> now, contact |-> run[c].contact]
<1>1. run[c] \in Running /\ run[c].at = "limit"
  BY DEF Inv, Types, AllowSend, Idle, Returned
<1>2. /\ r \in Running /\ r.at = "sending" /\ r.for = run[c].for /\ r.ticket = calls
      /\ r.ticket \in Nat /\ r.ticket # NoTicket
  BY <1>1 DEF Doing, Running, Ticket, Inv, HistoryOK, NoTicket
<1>3. e \in Entry /\ e.id = calls /\ e.at = now /\ e.contact = run[c].contact
  BY <1>1 DEF Entry, Running, Inv, HistoryOK
<1>4. /\ run' = [run EXCEPT ![c] = r] /\ run'[c] = r /\ \A d \in Call \ {c} : run'[d] = run[d]
      /\ admitted' = admitted \union {e} /\ calls' = calls + 1
      /\ UNCHANGED <<now, inbound, wire, rows>>
      /\ cold' = IF Known(run[c].for.to) THEN cold ELSE cold \union {calls}
  BY DEF AllowSend, Admit, Inv, Types
<1> HIDE DEF r, e
<1>5. Types'
  BY <1>2, <1>4 DEF Inv, Types, HistoryOK
<1>6. AdmissionsOK'
  <2>1. ~Known(run[c].for.to) => ~e.contact
    BY <1>1, <1>3 DEF Inv, CallOK
  <2>2. \A n \in cold' : n < calls + 1
    BY <1>4 DEF Inv, Types, AdmissionsOK, HistoryOK
  <2>3. \A f \in admitted' : f.id \in cold' => ~f.contact
    BY <2>1, <1>3, <1>4 DEF Inv, Types, AdmissionsOK, HistoryOK, Entry
  <2>4. \A f, g \in admitted' : f.id = g.id => f = g
    BY <1>3, <1>4 DEF Inv, AdmissionsOK, HistoryOK, Entry
  <2> QED
    BY <1>4, <2>2, <2>3, <2>4 DEF AdmissionsOK
<1>7. \A ticket, time : Paid(ticket, time) => Paid(ticket, time)'
  BY <1>4 DEF Paid
<1>8. WireOK' /\ HistoryIsSent'
  BY <1>4, <1>7 DEF Inv, WireOK, HistoryIsSent
<1>9. \A ticket, time : Paid(ticket, time) => ticket # calls
  BY DEF Paid, Inv, HistoryOK, Entry
<1>10. CallOK(c)'
  <2>1. Paid(run[c].ticket, now)'
    <3>1. e \in admitted' /\ e.id = run'[c].ticket /\ e.at <= now' /\ now' <= e.at + MaxDelay
      BY <1>2, <1>3, <1>4, OutboundAssumption DEF Inv, HistoryOK
    <3> QED
      BY <3>1 DEF Paid
  <2>2. \A w \in wire : w.ticket # calls
    BY <1>9 DEF Inv, WireOK, HistoryOK, NoTicket
  <2>3. \A d \in Call \ {c} : run[d].at = "sending" => run[d].ticket # calls
    BY <1>9 DEF Inv, CallOK, NoTicket, HistoryOK
  <2>4. Throttled(run[c].for)
    BY <1>1 DEF Inv, CallOK
  <2> QED
    BY <1>2, <1>4, <2>1, <2>2, <2>3, <2>4 DEF CallOK, Holds
<1>11. ASSUME NEW d \in Call \ {c}
       PROVE  CallOK(d)'
  <2>1. CallOK(d) /\ run'[d] = run[d]
    BY <1>4 DEF Inv
  <2>2. ASSUME run[d].at = "sending", Throttled(run[d].for), NEW k \in Call \ {d}
        PROVE  ~Holds(k, run[d].ticket)'
    <3>1. Paid(run[d].ticket, now) /\ ~Holds(k, run[d].ticket)
      BY <2>1, <2>2 DEF CallOK
    <3>2. run[d].ticket # calls
      BY <1>9, <3>1
    <3> QED
      BY <1>2, <1>4, <3>1, <3>2 DEF Holds
  <2>3. run[d].at = "sending" /\ Throttled(run[d].for) => Paid(run[d].ticket, now)'
    BY <1>4, <1>7, <2>1 DEF CallOK, Paid
  <2> QED
    BY <1>4, <2>1, <2>2, <2>3 DEF CallOK, Known
<1> QED
  BY <1>5, <1>6, <1>8, <1>10, <1>11, Together

\* A send uses up the ticket of its call.
LEMMA SendMessageKeepsInv ==
  ASSUME Inv, NEW c \in Call, SendMessage(c)
  PROVE  Inv'
<1> DEFINE w == [call |-> c, at |-> now, bypass |-> run[c].for.bypass,
                 throttled |-> Throttled(run[c].for), ticket |-> run[c].ticket]
           r == IF run[c].for.tool = "reply" THEN Returned
                ELSE Doing("persist", run[c].for, run[c].contact, run[c].ticket)
<1>1. run[c] \in Running /\ run[c].at = "sending"
  BY DEF Inv, Types, SendMessage, Idle, Returned
<1>2. r \in Running \union {Idle, Returned} /\ r.at \in {"returned", "persist"}
  BY <1>1 DEF Doing, Running, Ticket, Returned
<1>3. /\ w \in Sent /\ w.call = c /\ w.at = now /\ w.ticket = run[c].ticket
      /\ w.throttled = Throttled(run[c].for)
  BY <1>1 DEF Sent, Running, Request, Throttled, Inv, HistoryOK
<1>4. /\ run' = [run EXCEPT ![c] = r] /\ run'[c] = r /\ \A d \in Call \ {c} : run'[d] = run[d]
      /\ wire' = wire \union {w} /\ UNCHANGED <<budgetVars, inbound, rows, cold>>
  BY DEF SendMessage, Inv, Types
<1> HIDE DEF w, r
<1>5. HistoryOK' /\ AdmissionsOK' /\ \A ticket, time : Paid(ticket, time) => Paid(ticket, time)'
  BY <1>4 DEF Inv, HistoryOK, AdmissionsOK, Paid, budgetVars
<1>6. Types' /\ HistoryIsSent'
  BY <1>2, <1>3, <1>4 DEF Inv, Types, HistoryIsSent
<1>7. CallOK(c)
  BY DEF Inv
<1>8. WireOK'
  <2>1. w.throttled <=> w.ticket # NoTicket
    BY <1>1, <1>3, <1>7 DEF CallOK
  <2>2. w.throttled => Paid(w.ticket, w.at) /\ \A v \in wire : v.ticket # w.ticket
    BY <1>1, <1>3, <1>7 DEF CallOK
  <2>3. \A u, v \in wire' : u.throttled /\ u.ticket = v.ticket => u = v
    BY <1>4, <2>1, <2>2 DEF Inv, WireOK
  <2> QED
    BY <1>4, <1>5, <2>1, <2>2, <2>3 DEF Inv, WireOK
<1>9. CallOK(c)'
  BY <1>2, <1>3, <1>4 DEF CallOK
<1>10. ASSUME NEW d \in Call \ {c}
       PROVE  CallOK(d)'
  <2>1. CallOK(d) /\ run'[d] = run[d]
    BY <1>4 DEF Inv
  <2>2. ASSUME run[d].at = "sending", Throttled(run[d].for)
        PROVE  /\ \A k \in Call \ {d} : ~Holds(k, run[d].ticket)'
               /\ \A v \in wire' : v.ticket # run[d].ticket
               /\ Paid(run[d].ticket, now)'
    <3>1. \A k \in Call \ {d} : ~Holds(k, run[d].ticket)
      BY <2>1, <2>2 DEF CallOK
    <3>2. \A k \in Call \ {d} : ~Holds(k, run[d].ticket)'
      BY <1>2, <1>4, <3>1 DEF Holds
    <3>3. w.ticket # run[d].ticket
      BY <1>1, <1>3, <3>1 DEF Holds
    <3> QED
      BY <1>4, <1>5, <2>1, <2>2, <3>2, <3>3 DEF CallOK, budgetVars
  <2> QED
    BY <1>4, <2>1, <2>2 DEF CallOK, Known
<1> QED
  BY <1>5, <1>6, <1>8, <1>9, <1>10, Together

\* Inbound messages only make people known.
LEMMA ReceiveKeepsInv ==
  ASSUME Inv, NEW r \in Recipient, Receive(r)
  PROVE  Inv'
<1>1. PICK chat \in {r, NumberOf[r]} \ inbound : inbound' = inbound \union {chat}
  BY DEF Receive
<1>2. UNCHANGED <<budgetVars, run, wire, rows, cold>> /\ r \notin Group
  BY DEF Receive
<1>3. chat \in Recipient \ Group
  BY <1>1, <1>2, OutboundAssumption
<1>4. HistoryOK' /\ AdmissionsOK' /\ WireOK' /\ HistoryIsSent' /\ Types'
  BY <1>1, <1>2, <1>3
     DEF Inv, HistoryOK, AdmissionsOK, WireOK, Paid, HistoryIsSent, Types, budgetVars
<1>5. \A to : Known(to) => Known(to)'
  BY <1>1 DEF Known
<1>6. \A c \in Call : CallOK(c)'
  BY <1>2, <1>5 DEF Inv, CallOK, Paid, Holds, budgetVars
<1> QED
  BY <1>4, <1>6, Together

\* The clock waits for admitted calls that have used up MaxDelay.
LEMMA ClockKeepsInv ==
  ASSUME Inv, HistoryOK', Clock
  PROVE  Inv'
<1>1. now' = now + 1 /\ UNCHANGED <<calls, admitted, run, inbound, wire, rows, cold>>
  BY DEF Clock, Tick, callVars
<1>2. AdmissionsOK' /\ WireOK' /\ HistoryIsSent' /\ Types'
  BY <1>1 DEF Inv, AdmissionsOK, WireOK, Paid, HistoryIsSent, Types
<1>3. ASSUME NEW c \in Call, run[c].at = "sending", run[c].ticket # NoTicket,
             Paid(run[c].ticket, now)
      PROVE  Paid(run[c].ticket, now)'
  <2>1. PICK e \in admitted : e.id = run[c].ticket /\ e.at <= now
    BY <1>3 DEF Paid
  <2>2. Admission(run[c].ticket) = e
    BY <2>1 DEF Admission, Inv, AdmissionsOK
  <2>3. now - e.at < MaxDelay
    BY <1>3, <2>2 DEF Clock
  <2>4. e.at <= now + 1 /\ now + 1 <= e.at + MaxDelay
    BY <2>1, <2>3, OutboundAssumption DEF Inv, HistoryOK, Entry
  <2> QED
    BY <1>1, <2>1, <2>4 DEF Paid
<1>4. ASSUME NEW c \in Call
      PROVE  CallOK(c)'
  BY <1>1, <1>3 DEF Inv, CallOK, Known, Holds
<1> QED
  BY <1>2, <1>4, Together

LEMMA InvInductive == Inv /\ [ONext]_sendVars => Inv'
<1> SUFFICES ASSUME Inv, [ONext]_sendVars
             PROVE  Inv'
  OBVIOUS
<1>1. HistoryOK'
  BY LimiterSteps, HistoryStep DEF Inv
<1>2. CASE UNCHANGED sendVars
  <2>1. HistoryOK' /\ Types' /\ AdmissionsOK' /\ WireOK' /\ HistoryIsSent'
    BY <1>1, <1>2 DEF Inv, Types, AdmissionsOK, WireOK, Paid, HistoryIsSent, sendVars, budgetVars, callVars
  <2>2. \A c \in Call : CallOK(c)'
    BY <1>2 DEF Inv, CallOK, Known, Paid, Holds, sendVars, budgetVars, callVars
  <2> QED
    BY <2>1, <2>2, Together
<1> QED
  BY <1>1, <1>2, QuietStepsKeepInv, AllowSendKeepsInv, SendMessageKeepsInv, ReceiveKeepsInv,
     ClockKeepsInv DEF ONext

LEMMA InvAlways == OSpec => []Inv
BY InvInitially, InvInductive, PTL DEF OSpec

-------------------------------------------------------------------------------

\* Every variable of the calls keeps its type.
THEOREM OutboundTypeCorrect == OSpec => []OTypeOK
<1>1. Inv => OTypeOK
  BY DEF Inv, Types, HistoryOK, OTypeOK
<1> QED
  BY <1>1, InvAlways, PTL

\* Every throttled message was paid for by an admission of its own, however many
\* calls share the limiter, are denied or fail between admission and wire.
LEMMA EverySendIsPaidFor == OSpec => []SendsArePaidFor
<1>1. Inv => SendsArePaidFor
  BY DEF Inv, WireOK, Paid, SendsArePaidFor
<1> QED
  BY <1>1, InvAlways, PTL

\* The cached history shows only calls whose message was handed to WhatsApp.
LEMMA HistoryShowsWhatWasSent == OSpec => []HistoryIsSent
<1>1. Inv => HistoryIsSent
  BY DEF Inv
<1> QED
  BY <1>1, InvAlways, PTL

\* For any number of calls: no message leaves unpaid or twice on one admission,
\* and no row is cached of a message that did not leave.
THEOREM WireAlwaysAccountedFor == OSpec => []WireIsAccountedFor
BY EverySendIsPaidFor, HistoryShowsWhatWasSent, PTL DEF WireIsAccountedFor

-------------------------------------------------------------------------------
(* The caps: those of SendBudget hold of the admissions, since the limiter   *)
(* takes no step of its own.                                                 *)

\* Part of a capped history is capped.
LEMMA CappedPart ==
  ASSUME NEW S, IsFiniteSet(S), NEW T \in SUBSET S, NEW dur, NEW cap \in Nat,
         Capped(S, dur, cap)
  PROVE  Capped(T, dur, cap)
<1> SUFFICES ASSUME cap > 0, NEW e \in T
             PROVE  Cardinality(WindowEndingAt(T, e, dur)) <= cap
  BY DEF Capped
<1>1. /\ IsFiniteSet(WindowEndingAt(S, e, dur))
      /\ WindowEndingAt(T, e, dur) \in SUBSET WindowEndingAt(S, e, dur)
  BY FS_Subset DEF WindowEndingAt
<1>2. /\ Cardinality(WindowEndingAt(T, e, dur)) \in Nat
      /\ Cardinality(WindowEndingAt(S, e, dur)) \in Nat
      /\ Cardinality(WindowEndingAt(T, e, dur)) <= Cardinality(WindowEndingAt(S, e, dur))
  BY <1>1, FS_Subset, FS_CardinalityType
<1>3. Cardinality(WindowEndingAt(S, e, dur)) <= cap
  BY DEF Capped
<1> QED
  BY <1>2, <1>3

\* The admissions that were cold count against the stricter cap.
LEMMA ColdIsCapped == Inv /\ NonContactHourlyCap => ColdOutreachCap
<1> SUFFICES ASSUME Inv, NonContactHourlyCap
             PROVE  ColdOutreachCap
  OBVIOUS
<1>1. IsFiniteSet(NonContacts(admitted))
  BY FS_Subset DEF Inv, HistoryOK, NonContacts
<1>2. {e \in admitted : e.id \in cold} \in SUBSET NonContacts(admitted)
  BY DEF Inv, AdmissionsOK, NonContacts
<1> QED
  BY <1>1, <1>2, CappedPart, BudgetAssumption DEF NonContactHourlyCap, ColdOutreachCap

\* A finite, non-empty set of entries has a latest one.
LEMMA LatestEntry ==
  ASSUME NEW S \in SUBSET Entry, S # {}, NEW top \in Nat, \A e \in S : e.at <= top
  PROVE  \E e \in S : \A f \in S : f.at <= e.at
<1> DEFINE Gaps == {top - e.at : e \in S}
<1>1. Gaps \in SUBSET Nat /\ Gaps # {}
  BY DEF Entry
<1>2. PICK x \in Gaps : \A y \in Gaps : x <= y
  BY <1>1, LeastNat
<1>3. PICK e \in S : x = top - e.at
  BY <1>2
<1>4. \A f \in S : top - e.at <= top - f.at
  BY <1>2, <1>3
<1> QED
  BY <1>4 DEF Entry

\* Messages that share a window on the wire were admitted within an hour, each by
\* an admission of its own.
LEMMA WireIsCapped == Inv /\ HourlyCap => WireCap
<1> SUFFICES ASSUME Inv, HourlyCap, MaxDelay <= Hour, MaxSendsPerHour > 0,
                    NEW last \in wire, last.throttled
             PROVE  Cardinality(WindowEndingAt({w \in wire : w.throttled}, last, Hour - MaxDelay))
                        <= MaxSendsPerHour
  BY DEF WireCap, Capped
<1> USE BudgetAssumption, OutboundAssumption
<1> DEFINE W == WindowEndingAt({w \in wire : w.throttled}, last, Hour - MaxDelay)
           f == [w \in W |-> Admission(w.ticket)]
           A == {f[w] : w \in W}
<1>1. /\ last \in W /\ W \in SUBSET wire /\ last.at \in Nat
      /\ \A w \in W : w.throttled /\ w.at \in Nat /\ w.at <= last.at
                      /\ w.at >= last.at - Hour + MaxDelay
  BY DEF WindowEndingAt, Inv, Types, Sent
<1>2. ASSUME NEW w \in W
      PROVE  /\ f[w] \in admitted /\ f[w].id = w.ticket
             /\ f[w].at <= last.at /\ f[w].at >= last.at - Hour
  <2>1. PICK e \in admitted : e.id = w.ticket /\ e.at <= w.at /\ w.at <= e.at + MaxDelay
    BY <1>1 DEF Inv, WireOK, Paid
  <2>2. Admission(w.ticket) = e
    BY <2>1 DEF Admission, Inv, AdmissionsOK
  <2>3. e.at \in Nat
    BY DEF Inv, HistoryOK, Entry
  <2> HIDE DEF W
  <2> QED
    BY <1>1, <2>1, <2>2, <2>3
<1> HIDE DEF W
<1>3. A \in SUBSET admitted /\ A # {} /\ A \in SUBSET Entry
  BY <1>1, <1>2 DEF Inv, HistoryOK
<1>4. \A e \in A : e.at <= last.at /\ e.at >= last.at - Hour /\ e.at \in Nat
  BY <1>2, <1>3 DEF Entry
<1>5. PICK e \in A : \A g \in A : g.at <= e.at
  <2> HIDE DEF A
  <2> QED
    BY <1>1, <1>3, <1>4, LatestEntry
<1>6. A \in SUBSET WindowEndingAt(admitted, e, Hour)
  <2> HIDE DEF A
  <2> QED
    BY <1>1, <1>3, <1>4, <1>5 DEF WindowEndingAt
<1>7. /\ IsFiniteSet(WindowEndingAt(admitted, e, Hour))
      /\ Cardinality(WindowEndingAt(admitted, e, Hour)) <= MaxSendsPerHour
  BY <1>3, <1>5, FS_Subset DEF Inv, HistoryOK, HourlyCap, Capped, WindowEndingAt
<1>8. f \in Injection(W, A)
  <2>1. \A v, w \in W : f[v] = f[w] => v = w
    BY <1>1, <1>2 DEF Inv, WireOK
  <2> QED
    BY <2>1 DEF Injection, IsInjective
<1>9. IsFiniteSet(A) /\ Cardinality(A) <= Cardinality(WindowEndingAt(admitted, e, Hour))
  BY <1>6, <1>7, FS_Subset
<1>10. IsFiniteSet(W) /\ Cardinality(W) <= Cardinality(A)
  BY <1>8, <1>9, FS_Injection
<1>11. /\ Cardinality(W) \in Nat /\ Cardinality(A) \in Nat
       /\ Cardinality(WindowEndingAt(admitted, e, Hour)) \in Nat
  BY <1>7, <1>9, <1>10, FS_CardinalityType
<1>12. Cardinality(W) <= MaxSendsPerHour
  BY <1>7, <1>9, <1>10, <1>11
<1> QED
  BY <1>12 DEF W

\* The caps of the limiter reach the wire: cold outreach stays within the stricter
\* cap however classification races with inbound messages and store errors, and
\* the messages WhatsApp sees within the hourly cap, whatever the delays.
THEOREM CapsAlwaysReachTheWire == OSpec => []CapsReachTheWire
<1>1. OInit => Init
  BY DEF OInit
<1>2. Inv => Types
  BY DEF Inv
<1>3. OSpec => Spec
  BY <1>1, <1>2, InvAlways, LimiterSteps, PTL DEF OSpec, Spec
<1>4. Inv /\ Promises => CapsReachTheWire
  BY ColdIsCapped, WireIsCapped DEF Promises, CapsReachTheWire
<1> QED
  BY <1>3, <1>4, InvAlways, BudgetKeepsPromises, PTL

-------------------------------------------------------------------------------
(* Part 5: LimitedSend, the calls and the windows together.                *)

\* A step of the calls is a step of the limiter, or leaves it alone.
LEMMA CallsLeaveLimiter == Types /\ [LNext]_limitedVars => [RNext]_vars
<1> SUFFICES ASSUME Types, [LNext]_limitedVars
             PROVE  RNext \/ UNCHANGED vars
  OBVIOUS
<1>1. ASSUME NEW c \in Call, CheckAllows(c) \/ CheckDenies(c)
      PROVE  RNext
  <2>1. run[c] \in Running
    BY <1>1 DEF Types, CheckAllows, CheckDenies, Idle, Returned
  <2>2. run[c].contact \in BOOLEAN
    BY <2>1 DEF Running
  <2>3. AdmitSend(run[c].contact) \/ DenySend(run[c].contact)
    BY <1>1 DEF CheckAllows, CheckDenies
  <2> QED
    BY <2>2, <2>3 DEF RNext
<1>2. ASSUME NEW c \in Call, Unasked(c) /\ UNCHANGED limiterVars
      PROVE  UNCHANGED vars
  BY <1>2 DEF Unasked, NotConnected, Begin, IsKnownContact, FailSend, SendMessage,
              PersistSent, vars
<1>3. CASE \E r \in Recipient : Receive(r) /\ UNCHANGED limiterVars
  BY <1>3 DEF Receive, vars
<1>4. CASE Clock /\ UNCHANGED limiterVars
  BY <1>4 DEF Clock, RTick, RNext
<1>5. CASE UNCHANGED limitedVars
  BY <1>5 DEF limitedVars
<1> QED
  BY <1>1, <1>2, <1>3, <1>4, <1>5 DEF LNext

\* A call the windows let through is one the history has room for.
LEMMA CheckAllowsImplements ==
  ASSUME WindowsOK, Types, NEW c \in Call, CheckAllows(c)
  PROVE  AllowSend(c)
<1>1. run[c] \in Running
  BY DEF Types, CheckAllows, Idle, Returned
<1>2. run[c].contact \in BOOLEAN
  BY <1>1 DEF Running
<1>3. SendAllowed(run[c].contact) <=> MayAdmit(run[c].contact)
  BY <1>2, ExactDecisions DEF DecisionExact
<1>4. AdmitSend(run[c].contact)
  BY DEF CheckAllows
<1>5. Admit(run[c].contact)
  BY <1>3, <1>4 DEF AdmitSend, Admit
<1> QED
  BY <1>5 DEF CheckAllows, AllowSend

\* A call the windows refuse is one the history has no room for.
LEMMA CheckDeniesImplements ==
  ASSUME WindowsOK, Types, NEW c \in Call, CheckDenies(c)
  PROVE  RefuseSend(c)
<1>1. run[c] \in Running
  BY DEF Types, CheckDenies, Idle, Returned
<1>2. run[c].contact \in BOOLEAN
  BY <1>1 DEF Running
<1>3. SendAllowed(run[c].contact) <=> MayAdmit(run[c].contact)
  BY <1>2, ExactDecisions DEF DecisionExact
<1>4. DenySend(run[c].contact)
  BY DEF CheckDenies
<1>5. ~MayAdmit(run[c].contact) /\ UNCHANGED budgetVars
  BY <1>3, <1>4 DEF DenySend, Deny, budgetVars
<1> QED
  BY <1>5 DEF CheckDenies, RefuseSend

\* Every step of the calls with the windows is one with the history.
LEMMA LimitedStepImplements ==
  WindowsOK /\ Types /\ [LNext]_limitedVars => [ONext]_sendVars
<1> SUFFICES ASSUME WindowsOK, Types, [LNext]_limitedVars
             PROVE  ONext \/ UNCHANGED sendVars
  OBVIOUS
<1>1. ASSUME NEW c \in Call, CheckAllows(c) \/ CheckDenies(c)
      PROVE  ONext
  BY <1>1, CheckAllowsImplements, CheckDeniesImplements DEF ONext
<1>2. ASSUME NEW c \in Call, Unasked(c)
      PROVE  ONext
  BY <1>2 DEF Unasked, ONext
<1>3. CASE \E r \in Recipient : Receive(r) /\ UNCHANGED limiterVars
  BY <1>3 DEF ONext
<1>4. CASE Clock /\ UNCHANGED limiterVars
  BY <1>4 DEF ONext
<1>5. CASE UNCHANGED limitedVars
  BY <1>5 DEF limitedVars, vars, sendVars
<1> QED
  BY <1>1, <1>2, <1>3, <1>4, <1>5 DEF LNext

\* The windows hold what counts while calls use them, and the calls keep theirs:
\* neither is inductive alone, since the windows are right only if the class a call
\* was given is one, and the calls only if the windows decide as the history would.
LEMMA LimitedInvariant == LSpec => [](WindowsOK /\ Inv)
<1>1. LInit => WindowsOK /\ Inv
  BY WindowsInitially, InvInitially DEF LInit
<1>2. Inv => Types
  BY DEF Inv
<1>3. WindowsOK /\ Inv /\ [LNext]_limitedVars => (WindowsOK /\ Inv)'
  BY <1>2, CallsLeaveLimiter, WindowsStep, LimitedStepImplements, InvInductive
<1> QED
  BY <1>1, <1>3, PTL DEF LSpec

\* With the limiter's own windows the calls are admitted and refused as with the
\* complete history, for any number of calls and any caps, floors and windows.
THEOREM LimitedSendImplements == LSpec => ImplementsOutboundSend
<1>1. LInit => OInit
  BY DEF LInit
<1>2. Inv => Types
  BY DEF Inv
<1> QED
  BY <1>1, <1>2, LimitedInvariant, LimitedStepImplements, PTL
     DEF LSpec, OSpec, ImplementsOutboundSend

\* So what holds of the calls against the history holds against the windows: the
\* caps reach the wire, each throttled message is paid for by its own admission.
THEOREM LimitedSendKeepsPromises ==
  LSpec => [](WireIsAccountedFor /\ CapsReachTheWire)
BY LimitedSendImplements, WireAlwaysAccountedFor, CapsAlwaysReachTheWire, PTL
   DEF ImplementsOutboundSend

\* And the limiter behaves under these callers as it does under any: a call that is
\* denied is told no longer wait than necessary, whatever the other calls do.
THEOREM LimitedRetryIsHonest == LSpec => []RetryAfterIsNecessary
<1>1. LInit => RInit
  BY DEF LInit
<1>2. Inv => Types
  BY DEF Inv
<1>3. LSpec => RSpec
  BY <1>1, <1>2, LimitedInvariant, CallsLeaveLimiter, PTL DEF LSpec, RSpec
<1> QED
  BY <1>3, RetryAfterIsHonest, PTL

===============================================================================
