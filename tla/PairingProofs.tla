----------------------------- MODULE PairingProofs ----------------------------
(***************************************************************************)
(* Proofs about Pairing, for any number of revocations, resets, restarts,  *)
(* codes and channels.  The inductive invariant Inv says where the daemon  *)
(* is while it boots, that the dispatcher has a listening pump before it   *)
(* connects, and that a session the daemon has no handler for is on its    *)
(* way through a pump.                                                     *)
(***************************************************************************)
EXTENDS PairingStatus, SequenceTheorems, TLAPS

\* A success that the pump of p has not taken yet.
Announced(p) == \E i \in DOMAIN chans[p].queue : chans[p].queue[i] = Success

\* The pump of p has nothing to do and nothing is coming.
Silent(p) == chans[p].queue = <<>> /\ chans[p].at = "read"

BootOK ==
    /\ boot \in {"start", "install", "connect"} =>
          ~link /\ chans = <<>> /\ dispatch = "idle" /\ pending = 0
    /\ boot \in {"install", "connect"} => session
    /\ boot = "connect" => handlers > 0
    /\ boot = "dial" => ~session /\ Open # {}
    /\ boot \in {"dial", "exited"} =>
          ~link /\ dispatch = "idle" /\ pending = 0 /\ \A p \in DOMAIN chans : Silent(p)

DispatchOK ==
    /\ dispatch # "idle" => pending > 0
    /\ dispatch = "dial" => ~link /\ ~session /\ Open # {}

HandlersOK ==
    /\ session => \/ handlers > 0
                  \/ boot \in {"start", "install"}
                  \/ \E p \in DOMAIN chans : Announced(p) \/ chans[p].at = "install"
    /\ \A p \in DOMAIN chans : chans[p].at = "dial" => handlers > 0

Inv == TypeOK /\ BootOK /\ DispatchOK /\ HandlersOK /\ PairingIsHeard

-------------------------------------------------------------------------------

\* Replacing the channel of one pump leaves a sequence of as many channels.
LEMMA ReplaceChannel ==
    ASSUME NEW S, NEW s \in Seq(S), NEW p \in DOMAIN s, NEW c \in S
    PROVE  /\ [s EXCEPT ![p] = c] \in Seq(S)
           /\ Len([s EXCEPT ![p] = c]) = Len(s)
           /\ DOMAIN [s EXCEPT ![p] = c] = DOMAIN s
OBVIOUS

\* So does replacing every channel.
LEMMA ReplaceAllChannels ==
    ASSUME NEW S, NEW s \in Seq(S), NEW f, f \in [DOMAIN s -> S]
    PROVE  f \in Seq(S) /\ Len(f) = Len(s) /\ DOMAIN f = DOMAIN s
<1>1. DOMAIN s = 1..Len(s) /\ Len(s) \in Nat
  OBVIOUS
<1> QED
  BY <1>1

\* Initially the invariant holds.
LEMMA InitInv == Init => Inv
<1> SUFFICES ASSUME Init PROVE Inv
  OBVIOUS
<1> USE PairingAssumption DEF PairingAssumption
<1>1. TypeOK
  <2>1. chans \in Seq(Channel) /\ Len(chans) <= MaxChannels
    BY DEF Init
  <2>2. cache \in [qr : Code \union {NoCode}, paired : BOOLEAN]
    BY DEF Init, Cleared
  <2>3. revokes \in 0..MaxRevokes /\ resets \in 0..MaxResets /\ restarts \in 0..MaxRestarts
    BY DEF Init
  <2> QED
    BY <2>1, <2>2, <2>3 DEF Init, TypeOK
<1>2. BootOK /\ DispatchOK /\ HandlersOK /\ PairingIsHeard
  BY DEF Init, BootOK, DispatchOK, HandlersOK, PairingIsHeard
<1> QED
  BY <1>1, <1>2 DEF Inv

-------------------------------------------------------------------------------
(* Types.                                                                  *)

\* What the pump actions and the library do to one channel keeps its type.
LEMMA ChannelUpdates ==
    ASSUME NEW c \in Channel
    PROVE  /\ NewChannel \in Channel
           /\ c.queue # <<>> => [c EXCEPT !.queue = Tail(@)] \in Channel
           /\ [c EXCEPT !.queue = <<>>, !.at = "install"] \in Channel
           /\ [c EXCEPT !.at = "dial"] \in Channel
           /\ [c EXCEPT !.at = "done"] \in Channel
           /\ [c EXCEPT !.open = FALSE] \in Channel
           /\ [c EXCEPT !.open = FALSE, !.queue = Append(@, Success)] \in Channel
<1> USE PairingAssumption DEF PairingAssumption, Channel, NewChannel
<1>1. c.queue \in Seq(Code \union {Success})
  OBVIOUS
<1>2. c.queue # <<>> => Tail(c.queue) \in Seq(Code \union {Success})
  BY <1>1
<1>3. Append(c.queue, Success) \in Seq(Code \union {Success})
  BY <1>1
<1>4. <<>> \in Seq(Code \union {Success})
  OBVIOUS
<1>5. NewChannel \in Channel
  BY <1>4
<1> QED
  BY <1>1, <1>2, <1>3, <1>4, <1>5

\* The code a channel emits next has a name of its channel.
LEMMA NextCode ==
    ASSUME NEW c \in Channel, NEW p \in 1..MaxChannels
    PROVE  LET next == (c.emitted % MaxCodes) + 1 IN
           /\ next \in 1..MaxCodes
           /\ [c EXCEPT !.emitted = next, !.queue = <<<<p, next>>>>] \in Channel
<1> DEFINE next == (c.emitted % MaxCodes) + 1
<1> USE PairingAssumption DEF PairingAssumption
<1>1. c.emitted \in Nat
  BY DEF Channel
<1>2. next \in 1..MaxCodes
  BY <1>1
<1> HIDE DEF next
<1>3. <<p, next>> \in Code \union {Success}
  BY <1>2 DEF Code
<1>4. <<<<p, next>>>> \in Seq(Code \union {Success})
  BY <1>3
<1> DEFINE q == <<<<p, next>>>>
<1>5. next \in 0..MaxCodes
  BY <1>2
<1>6. [c EXCEPT !.emitted = next, !.queue = q] \in Channel
  <2> HIDE DEF q
  <2>1. q \in Seq(Code \union {Success})
    BY <1>4 DEF q
  <2> QED
    BY <1>5, <2>1 DEF Channel
<1> QED
  BY <1>2, <1>6 DEF next

\* A pump replaces its channel and leaves it as open as it was.
LEMMA PumpReplaces ==
    ASSUME chans \in Seq(Channel), NEW p \in DOMAIN chans, PumpSteps(p)
    PROVE  \E c \in Channel : chans' = [chans EXCEPT ![p] = c] /\ c.open = chans[p].open
<1>1. chans[p] \in Channel
  OBVIOUS
<1>2. CASE PumpCode(p)
  <2> DEFINE c == [chans[p] EXCEPT !.queue = Tail(@)]
  <2>1. c \in Channel /\ c.open = chans[p].open
    BY <1>1, <1>2, ChannelUpdates DEF PumpCode, Channel
  <2>2. chans' = [chans EXCEPT ![p] = c]
    BY <1>2 DEF PumpCode
  <2> QED
    BY <2>1, <2>2
<1>3. CASE PumpSuccess(p)
  <2> DEFINE c == [chans[p] EXCEPT !.queue = <<>>, !.at = "install"]
  <2>1. c \in Channel /\ c.open = chans[p].open
    BY <1>1, ChannelUpdates DEF Channel
  <2>2. chans' = [chans EXCEPT ![p] = c]
    BY <1>3 DEF PumpSuccess
  <2> QED
    BY <2>1, <2>2
<1>4. CASE PumpInstall(p)
  <2> DEFINE c == [chans[p] EXCEPT !.at = "dial"]
  <2>1. c \in Channel /\ c.open = chans[p].open
    BY <1>1, ChannelUpdates DEF Channel
  <2>2. chans' = [chans EXCEPT ![p] = c]
    BY <1>4 DEF PumpInstall
  <2> QED
    BY <2>1, <2>2
<1>5. CASE PumpDial(p)
  <2> DEFINE c == [chans[p] EXCEPT !.at = "done"]
  <2>1. c \in Channel /\ c.open = chans[p].open
    BY <1>1, ChannelUpdates DEF Channel
  <2>2. chans' = [chans EXCEPT ![p] = c]
    BY <1>5 DEF PumpDial
  <2> QED
    BY <2>1, <2>2
<1> QED
  BY <1>2, <1>3, <1>4, <1>5 DEF PumpSteps

\* What becomes of the channels s in a step, whichever action takes it.
ChannelStep(s, t) ==
    \/ t = s
    \/ t = <<>>
    \/ t = Append(s, NewChannel) /\ Len(s) < MaxChannels
    \/ \E p \in DOMAIN s : \E c \in Channel : t = [s EXCEPT ![p] = c]
    \/ t \in [DOMAIN s -> Channel]

LEMMA NextIsChannelStep ==
    ASSUME chans \in Seq(Channel), Len(chans) <= MaxChannels, BootOK, Next
    PROVE  ChannelStep(chans, chans')
<1> USE DEF ChannelStep
<1>1. CASE RunSteps
  <2>1. CASE BootQRChannel
    <3>1. chans = <<>> /\ Len(chans) < MaxChannels
      BY <2>1, PairingAssumption DEF BootQRChannel, BootOK, PairingAssumption
    <3> QED
      BY <2>1, <3>1 DEF BootQRChannel
  <2> QED
    BY <1>1, <2>1 DEF RunSteps, BootPaired, BootInstall, BootConnect, BootDial
<1>2. CASE DispatcherSteps
  BY <1>2 DEF DispatcherSteps, LoggedOutReset, LoggedOutQRChannel, LoggedOutDial
<1>3. ASSUME NEW p \in DOMAIN chans, PumpSteps(p) PROVE ChannelStep(chans, chans')
  <2>1. \E c \in Channel : chans' = [chans EXCEPT ![p] = c]
    BY <1>3, PumpReplaces
  <2> QED
    BY <2>1
<1>4. ASSUME NEW p \in DOMAIN chans, EmitCode(p) PROVE ChannelStep(chans, chans')
  <2>1. chans[p] \in Channel /\ p \in 1..MaxChannels
    BY PairingAssumption DEF PairingAssumption
  <2>2. \E c \in Channel : chans' = [chans EXCEPT ![p] = c]
    BY <1>4, <2>1, NextCode DEF EmitCode
  <2> QED
    BY <2>2
<1>5. CASE Timeout \/ PhonePairs
  <2>1. \A p \in DOMAIN chans : chans[p] \in Channel
    OBVIOUS
  <2>2. chans' \in [DOMAIN chans -> Channel]
    BY <1>5, <2>1, ChannelUpdates DEF Timeout, PhonePairs
  <2> QED
    BY <2>2
<1>6. CASE ResetLogout \/ ResetCache \/ Revoke \/ LinkFlaps \/ Restart
  BY <1>6 DEF ResetLogout, ResetCache, Revoke, LinkFlaps, Restart
<1> QED
  BY <1>1, <1>2, <1>3, <1>4, <1>5, <1>6 DEF Next

\* A channel step keeps the type of the channels.
LEMMA ChannelStepKeepsType ==
    ASSUME NEW s \in Seq(Channel), Len(s) <= MaxChannels, NEW t, ChannelStep(s, t)
    PROVE  t \in Seq(Channel) /\ Len(t) <= MaxChannels
<1>0. Len(s) \in Nat /\ MaxChannels \in Nat
  BY PairingAssumption DEF PairingAssumption
<1>1. CASE t = s
  BY <1>1
<1>2. CASE t = <<>>
  BY <1>0, <1>2
<1>3. CASE t = Append(s, NewChannel) /\ Len(s) < MaxChannels
  <2>1. NewChannel \in Channel
    BY PairingAssumption DEF NewChannel, Channel, PairingAssumption
  <2> QED
    BY <1>0, <1>3, <2>1
<1>4. ASSUME NEW p \in DOMAIN s, NEW c \in Channel, t = [s EXCEPT ![p] = c]
      PROVE  t \in Seq(Channel) /\ Len(t) <= MaxChannels
  BY <1>4, ReplaceChannel
<1>5. CASE t \in [DOMAIN s -> Channel]
  BY <1>5, ReplaceAllChannels
<1> QED
  BY <1>1, <1>2, <1>3, <1>4, <1>5 DEF ChannelStep

\* The types of the other variables.
RestOK ==
    /\ session \in BOOLEAN /\ link \in BOOLEAN
    /\ cache \in [qr : Code \union {NoCode}, paired : BOOLEAN]
    /\ handlers \in Nat /\ pending \in Nat
    /\ dispatch \in {"idle", "qr", "dial"}
    /\ boot \in {"start", "install", "connect", "dial", "run", "exited"}
    /\ resetting \in BOOLEAN
    /\ revokes \in 0..MaxRevokes /\ resets \in 0..MaxResets
    /\ restarts \in 0..MaxRestarts

LEMMA RestStep ==
    ASSUME RestOK, chans \in Seq(Channel), DispatchOK, Next
    PROVE  RestOK'
<1> USE PairingAssumption DEF PairingAssumption, RestOK
<1>1. CASE BootPaired
  BY <1>1 DEF BootPaired, SetPaired, counters
<1>2. CASE BootInstall
  BY <1>2 DEF BootInstall, counters
<1>3. CASE BootConnect
  BY <1>3 DEF BootConnect, Dial, counters
<1>4. CASE BootQRChannel
  BY <1>4 DEF BootQRChannel, counters
<1>5. CASE BootDial
  BY <1>5 DEF BootDial, Dial, counters
<1>6. CASE LoggedOutReset
  BY <1>6 DEF LoggedOutReset, Cleared, counters
<1>7. CASE LoggedOutQRChannel
  BY <1>7 DEF LoggedOutQRChannel, DispatchOK, counters
<1>8. CASE LoggedOutDial
  BY <1>8 DEF LoggedOutDial, DispatchOK, Dial, counters
<1>9. ASSUME NEW p \in DOMAIN chans, PumpSteps(p) PROVE RestOK'
  <2>1. CASE PumpCode(p)
    <3>1. Head(chans[p].queue) \in Code
      <4>1. chans[p] \in Channel
        OBVIOUS
      <4>2. chans[p].queue \in Seq(Code \union {Success}) /\ chans[p].queue # <<>>
        BY <2>1, <4>1 DEF PumpCode, Channel
      <4> QED
        BY <2>1, <4>2 DEF PumpCode
    <3> QED
      BY <2>1, <3>1 DEF PumpCode, SetQR, counters
  <2>2. CASE PumpSuccess(p)
    BY <2>2 DEF PumpSuccess, SetPaired, counters
  <2>3. CASE PumpInstall(p)
    BY <2>3 DEF PumpInstall, counters
  <2>4. CASE PumpDial(p)
    BY <2>4 DEF PumpDial, Dial, daemonVars, counters
  <2> QED
    BY <1>9, <2>1, <2>2, <2>3, <2>4 DEF PumpSteps
<1>10. CASE ResetLogout
  <2>1. resets' \in 0..MaxResets
    BY <1>10 DEF ResetLogout
  <2> QED
    BY <1>10, <2>1 DEF ResetLogout
<1>11. CASE ResetCache
  BY <1>11 DEF ResetCache, Cleared, counters
<1>12. ASSUME NEW p \in DOMAIN chans, EmitCode(p) PROVE RestOK'
  BY <1>12 DEF EmitCode, daemonVars, counters
<1>13. CASE Timeout
  BY <1>13 DEF Timeout, daemonVars, counters
<1>14. CASE PhonePairs
  BY <1>14 DEF PhonePairs, daemonVars, counters
<1>15. CASE Revoke
  <2>1. revokes' \in 0..MaxRevokes
    BY <1>15 DEF Revoke
  <2>2. pending' \in Nat
    BY <1>15 DEF Revoke
  <2> QED
    BY <1>15, <2>1, <2>2 DEF Revoke, daemonVars
<1>16. CASE LinkFlaps
  BY <1>16 DEF LinkFlaps, daemonVars, counters
<1>17. CASE Restart
  <2>1. restarts' \in 0..MaxRestarts
    BY <1>17 DEF Restart
  <2>2. cache' \in [qr : Code \union {NoCode}, paired : BOOLEAN]
    BY <1>17 DEF Restart, Cleared
  <2>3. revokes' \in 0..MaxRevokes /\ resets' \in 0..MaxResets
    BY <1>17 DEF Restart
  <2> QED
    BY <1>17, <2>1, <2>2, <2>3 DEF Restart
<1> QED
  BY <1>1, <1>2, <1>3, <1>4, <1>5, <1>6, <1>7, <1>8, <1>9, <1>10, <1>11, <1>12,
     <1>13, <1>14, <1>15, <1>16, <1>17 DEF Next, RunSteps, DispatcherSteps

\* Every step keeps the types, given where the daemon is.
LEMMA TypeStep ==
    ASSUME TypeOK, BootOK, DispatchOK, [Next]_vars
    PROVE  TypeOK'
<1>1. CASE Next
  <2>1. RestOK /\ chans \in Seq(Channel) /\ Len(chans) <= MaxChannels
    BY DEF TypeOK, RestOK
  <2>2. RestOK'
    BY <1>1, <2>1, RestStep
  <2>3. ChannelStep(chans, chans')
    BY <1>1, <2>1, NextIsChannelStep
  <2>4. chans' \in Seq(Channel) /\ Len(chans') <= MaxChannels
    BY <2>1, <2>3, ChannelStepKeepsType
  <2> QED
    BY <2>2, <2>4 DEF TypeOK, RestOK
<1>2. CASE UNCHANGED vars
  BY <1>2 DEF TypeOK, vars, daemonVars, counters
<1> QED
  BY <1>1, <1>2

-------------------------------------------------------------------------------
(* Booting, dispatching, and hearing a pairing.                            *)

\* Which channels are open, and which pumps are silent, after one channel has
\* been replaced.
LEMMA OpenAfterReplace ==
    ASSUME chans \in Seq(Channel), NEW p \in DOMAIN chans, NEW c \in Channel,
           chans' = [chans EXCEPT ![p] = c], c.open = chans[p].open
    PROVE  Open' = Open
BY DEF Open

\* Every step keeps BootOK.
LEMMA BootStep ==
    ASSUME Inv, Next PROVE BootOK'
<1> USE DEF Inv
<1>t. chans \in Seq(Channel) /\ handlers \in Nat /\ pending \in Nat
      /\ boot \in {"start", "install", "connect", "dial", "run", "exited"}
      /\ session \in BOOLEAN /\ link \in BOOLEAN
  BY DEF TypeOK
<1>1. CASE BootPaired \/ BootInstall
  BY <1>t, <1>1 DEF BootPaired, BootInstall, BootOK
<1>2. CASE BootConnect
  BY <1>t, <1>2 DEF BootConnect, BootOK, Dial
<1>3. CASE BootQRChannel
  <2>1. chans = <<>> /\ chans' = Append(chans, NewChannel)
    BY <1>3 DEF BootQRChannel, BootOK
  <2>2. DOMAIN chans' = {1} /\ chans'[1] = NewChannel
    BY <2>1
  <2>3. Open' # {} /\ \A p \in DOMAIN chans' : Silent(p)'
    BY <2>2 DEF Open, Silent, NewChannel
  <2> QED
    BY <1>t, <1>3, <2>3 DEF BootQRChannel, BootOK
<1>4. CASE BootDial
  BY <1>t, <1>4 DEF BootDial, BootOK, Dial, Silent
<1>5. CASE DispatcherSteps
  <2>1. pending > 0
    BY <1>t, <1>5 DEF DispatcherSteps, LoggedOutReset, LoggedOutQRChannel, LoggedOutDial,
                      DispatchOK
  <2>2. boot = "run"
    BY <1>t, <2>1 DEF BootOK
  <2>3. boot' = boot
    BY <1>5 DEF DispatcherSteps, LoggedOutReset, LoggedOutQRChannel, LoggedOutDial
  <2> QED
    BY <2>2, <2>3 DEF BootOK
<1>6. ASSUME NEW p \in DOMAIN chans, PumpSteps(p) PROVE BootOK'
  <2>1. ~Silent(p)
    BY <1>t, <1>6 DEF PumpSteps, PumpCode, PumpSuccess, PumpInstall, PumpDial, Silent
  <2>2. boot = "run"
    BY <1>t, <2>1 DEF BootOK
  <2>3. boot' = boot
    BY <1>6 DEF PumpSteps, PumpCode, PumpSuccess, PumpInstall, PumpDial, daemonVars
  <2> QED
    BY <2>2, <2>3 DEF BootOK
<1>7. CASE ResetLogout
  BY <1>t, <1>7 DEF ResetLogout, BootOK
<1>8. CASE ResetCache
  BY <1>t, <1>8 DEF ResetCache, BootOK, Open, Silent
<1>9. ASSUME NEW p \in DOMAIN chans, EmitCode(p) PROVE BootOK'
  BY <1>t, <1>9 DEF EmitCode, BootOK, daemonVars
<1>10. CASE Timeout \/ PhonePairs \/ Revoke
  BY <1>t, <1>10 DEF Timeout, PhonePairs, Revoke, BootOK, daemonVars
<1>11. CASE LinkFlaps
  BY <1>t, <1>11 DEF LinkFlaps, BootOK, daemonVars
<1>12. CASE Restart
  BY <1>t, <1>12 DEF Restart, BootOK
<1> QED
  BY <1>1, <1>2, <1>3, <1>4, <1>5, <1>6, <1>7, <1>8, <1>9, <1>10, <1>11, <1>12
     DEF Next, RunSteps

\* Every step keeps DispatchOK.
LEMMA DispatchStep ==
    ASSUME Inv, Next PROVE DispatchOK'
<1> USE DEF Inv
<1>t. chans \in Seq(Channel) /\ handlers \in Nat /\ pending \in Nat
      /\ dispatch \in {"idle", "qr", "dial"}
      /\ session \in BOOLEAN /\ link \in BOOLEAN
  BY DEF TypeOK
<1>1. CASE RunSteps
  <2>1. dispatch = "idle" /\ dispatch' = dispatch
    BY <1>1 DEF RunSteps, BootPaired, BootInstall, BootConnect, BootQRChannel, BootDial, BootOK
  <2> QED
    BY <2>1 DEF DispatchOK
<1>2. CASE LoggedOutReset
  BY <1>t, <1>2 DEF LoggedOutReset, DispatchOK
<1>3. CASE LoggedOutQRChannel
  <2>1. CASE link \/ session
    BY <1>3, <2>1 DEF LoggedOutQRChannel, DispatchOK
  <2>2. CASE ~(link \/ session)
    <3>1. chans' = Append(chans, NewChannel)
      BY <1>3, <2>2 DEF LoggedOutQRChannel
    <3>2. Len(chans) + 1 \in DOMAIN chans' /\ chans'[Len(chans) + 1] = NewChannel
      BY <1>t, <3>1
    <3>3. Open' # {}
      BY <3>2 DEF Open, NewChannel
    <3> QED
      BY <1>t, <1>3, <2>2, <3>3 DEF LoggedOutQRChannel, DispatchOK
  <2> QED
    BY <2>1, <2>2
<1>4. CASE LoggedOutDial
  BY <1>4 DEF LoggedOutDial, DispatchOK
<1>5. ASSUME NEW p \in DOMAIN chans, PumpSteps(p) PROVE DispatchOK'
  <2>1. PICK c \in Channel : chans' = [chans EXCEPT ![p] = c] /\ c.open = chans[p].open
    BY <1>t, <1>5, PumpReplaces
  <2>2. Open' = Open
    BY <1>t, <2>1, OpenAfterReplace
  <2>3. /\ dispatch' = dispatch /\ pending' = pending /\ session' = session
        /\ ~link /\ ~session => ~link'
    BY <1>t, <1>5 DEF PumpSteps, PumpCode, PumpSuccess, PumpInstall, PumpDial, Dial, daemonVars
  <2> QED
    BY <2>2, <2>3 DEF DispatchOK
<1>6. CASE ResetLogout \/ Timeout \/ PhonePairs \/ LinkFlaps
  BY <1>t, <1>6 DEF ResetLogout, Timeout, PhonePairs, LinkFlaps, DispatchOK, daemonVars
<1>7. CASE ResetCache
  BY <1>7 DEF ResetCache, DispatchOK, Open
<1>8. ASSUME NEW p \in DOMAIN chans, EmitCode(p) PROVE DispatchOK'
  BY <1>8 DEF EmitCode, DispatchOK, daemonVars
<1>9. CASE Revoke
  BY <1>t, <1>9 DEF Revoke, DispatchOK, daemonVars
<1>10. CASE Restart
  BY <1>10 DEF Restart, DispatchOK
<1> QED
  BY <1>1, <1>2, <1>3, <1>4, <1>5, <1>6, <1>7, <1>8, <1>9, <1>10
     DEF Next, DispatcherSteps

\* Every step keeps PairingIsHeard.
LEMMA HeardStep ==
    ASSUME Inv, Next PROVE PairingIsHeard'
<1> USE DEF Inv
<1>t. chans \in Seq(Channel) /\ session \in BOOLEAN /\ link \in BOOLEAN
  BY DEF TypeOK
<1>1. CASE BootPaired \/ BootInstall \/ BootQRChannel
  BY <1>1 DEF BootPaired, BootInstall, BootQRChannel, BootOK, PairingIsHeard
<1>2. CASE BootConnect
  BY <1>2 DEF BootConnect, BootOK, PairingIsHeard
<1>3. CASE BootDial
  BY <1>3 DEF BootDial, BootOK, PairingIsHeard, Open
<1>4. CASE LoggedOutReset
  BY <1>4 DEF LoggedOutReset, PairingIsHeard, Open
<1>5. CASE LoggedOutQRChannel
  <2>1. CASE link \/ session
    BY <1>5, <2>1 DEF LoggedOutQRChannel, PairingIsHeard, Open
  <2>2. CASE ~(link \/ session)
    BY <1>5, <2>2 DEF LoggedOutQRChannel, PairingIsHeard
  <2> QED
    BY <2>1, <2>2
<1>6. CASE LoggedOutDial
  BY <1>6 DEF LoggedOutDial, DispatchOK, PairingIsHeard, Open
<1>7. ASSUME NEW p \in DOMAIN chans, PumpSteps(p) PROVE PairingIsHeard'
  <2>1. PICK c \in Channel : chans' = [chans EXCEPT ![p] = c] /\ c.open = chans[p].open
    BY <1>t, <1>7, PumpReplaces
  <2>2. Open' = Open
    BY <1>t, <2>1, OpenAfterReplace
  <2>3. session' = session /\ (link' => link \/ session)
    BY <1>t, <1>7 DEF PumpSteps, PumpCode, PumpSuccess, PumpInstall, PumpDial, Dial, daemonVars
  <2> QED
    BY <2>2, <2>3 DEF PairingIsHeard
<1>8. CASE ResetLogout \/ Timeout \/ PhonePairs \/ Revoke \/ LinkFlaps \/ Restart
  <2>1. CASE ResetLogout \/ Timeout \/ Revoke \/ Restart
    <3>1. ~link'
      BY <2>1 DEF ResetLogout, Timeout, Revoke, Restart
    <3> QED
      BY <3>1 DEF PairingIsHeard
  <2>2. CASE PhonePairs \/ LinkFlaps
    <3>1. session' = TRUE
      BY <1>t, <2>2 DEF PhonePairs, LinkFlaps
    <3> QED
      BY <3>1 DEF PairingIsHeard
  <2> QED
    BY <1>8, <2>1, <2>2
<1>9. CASE ResetCache
  BY <1>9 DEF ResetCache, PairingIsHeard, Open
<1>10. ASSUME NEW p \in DOMAIN chans, EmitCode(p) PROVE PairingIsHeard'
  <2>1. chans[p] \in Channel /\ p \in 1..MaxChannels
    BY <1>t, PairingAssumption DEF PairingAssumption, TypeOK
  <2>2. PICK c : chans' = [chans EXCEPT ![p] = c] /\ c.open = chans[p].open
    BY <1>10, <2>1, NextCode DEF EmitCode, Channel
  <2>3. Open' = Open
    BY <1>t, <2>2 DEF Open
  <2> QED
    BY <1>10, <2>3 DEF EmitCode, PairingIsHeard
<1> QED
  BY <1>1, <1>2, <1>3, <1>4, <1>5, <1>6, <1>7, <1>8, <1>9, <1>10
     DEF Next, RunSteps, DispatcherSteps

\* A pump works towards the handler of the session it announced.
LEMMA PumpNoticing ==
    ASSUME chans \in Seq(Channel), handlers \in Nat, NEW p \in DOMAIN chans, PumpSteps(p),
           chans[p].at = "dial" => handlers > 0,
           Announced(p) \/ chans[p].at \in {"install", "dial"}
    PROVE  Announced(p)' \/ chans'[p].at = "install" \/ handlers' > 0
<1>1. chans[p] \in Channel
  OBVIOUS
<1>2. CASE PumpCode(p)
  <2> DEFINE q == chans[p].queue
  <2>1. q \in Seq(Code \union {Success}) /\ q # <<>> /\ Head(q) # Success
    BY <1>1, <1>2 DEF PumpCode, Channel
  <2>2. chans'[p].queue = Tail(q)
    BY <1>1, <1>2 DEF PumpCode, Channel
  <2>3. PICK i \in DOMAIN q : q[i] = Success
    BY <1>2 DEF PumpCode, Announced
  <2>4. i # 1
    BY <2>1, <2>3
  <2>5. i - 1 \in DOMAIN Tail(q) /\ Tail(q)[i - 1] = Success
    BY <2>1, <2>3, <2>4
  <2> QED
    BY <2>2, <2>5 DEF Announced
<1>3. CASE PumpSuccess(p)
  BY <1>1, <1>3 DEF PumpSuccess, Channel
<1>4. CASE PumpInstall(p)
  BY <1>4 DEF PumpInstall
<1>5. CASE PumpDial(p)
  BY <1>5 DEF PumpDial, daemonVars
<1> QED
  BY <1>2, <1>3, <1>4, <1>5 DEF PumpSteps

\* Every step keeps HandlersOK.
LEMMA HandlersStep ==
    ASSUME Inv, Next PROVE HandlersOK'
<1> USE DEF Inv
<1>t. /\ chans \in Seq(Channel) /\ handlers \in Nat
      /\ boot \in {"start", "install", "connect", "dial", "run", "exited"}
      /\ session \in BOOLEAN
  BY DEF TypeOK
<1>1. CASE BootPaired
  BY <1>1 DEF BootPaired, HandlersOK
<1>2. CASE BootInstall
  BY <1>t, <1>2 DEF BootInstall, HandlersOK
<1>3. CASE BootConnect
  BY <1>3 DEF BootConnect, BootOK, HandlersOK
<1>4. CASE BootQRChannel
  <2>1. chans = <<>> /\ chans' = Append(chans, NewChannel)
    BY <1>4 DEF BootQRChannel, BootOK
  <2>2. DOMAIN chans' = {1} /\ chans'[1].at = "read"
    BY <2>1 DEF NewChannel
  <2> QED
    BY <1>4, <2>2 DEF BootQRChannel, HandlersOK
<1>5. CASE BootDial
  BY <1>5 DEF BootDial, BootOK, HandlersOK
<1>6. CASE LoggedOutReset \/ LoggedOutDial
  <2>1. UNCHANGED <<session, chans, handlers, boot>>
    BY <1>6 DEF LoggedOutReset, LoggedOutDial
  <2> QED
    BY <2>1 DEF HandlersOK, Announced
<1>7. CASE LoggedOutQRChannel
  <2>1. CASE link \/ session
    BY <1>7, <2>1 DEF LoggedOutQRChannel, HandlersOK, Announced
  <2>2. CASE ~(link \/ session)
    <3>1. chans' = Append(chans, NewChannel)
      BY <1>7, <2>2 DEF LoggedOutQRChannel
    <3>2. \A p \in DOMAIN chans' :
              \/ p \in DOMAIN chans /\ chans'[p] = chans[p]
              \/ chans'[p].at = "read"
      BY <1>t, <3>1 DEF NewChannel
    <3> QED
      BY <1>7, <2>2, <3>2 DEF LoggedOutQRChannel, HandlersOK
  <2> QED
    BY <2>1, <2>2
<1>8. ASSUME NEW p \in DOMAIN chans, PumpSteps(p) PROVE HandlersOK'
  <2>1. PICK c \in Channel : chans' = [chans EXCEPT ![p] = c]
    BY <1>t, <1>8, PumpReplaces
  <2>2. DOMAIN chans' = DOMAIN chans /\ \A q \in DOMAIN chans \ {p} : chans'[q] = chans[q]
    BY <1>t, <2>1
  <2>3. session' = session /\ handlers' >= handlers /\ handlers' \in Nat /\ boot' = boot
    <3>1. CASE PumpCode(p) \/ PumpSuccess(p) \/ PumpDial(p)
      <4>1. UNCHANGED <<session, handlers, boot>>
        BY <3>1 DEF PumpCode, PumpSuccess, PumpDial, daemonVars
      <4> QED
        BY <1>t, <4>1
    <3>2. CASE PumpInstall(p)
      BY <1>t, <3>2 DEF PumpInstall
    <3> QED
      BY <1>8, <3>1, <3>2 DEF PumpSteps
  <2>4. chans'[p].at = "dial" => handlers' > 0
    <3>1. chans[p] \in Channel
      BY <1>t
    <3>2. CASE PumpCode(p)
      BY <1>t, <3>1, <3>2 DEF PumpCode, Channel
    <3>3. CASE PumpSuccess(p)
      BY <1>t, <3>1, <3>3 DEF PumpSuccess, Channel
    <3>4. CASE PumpInstall(p)
      BY <1>t, <3>4 DEF PumpInstall
    <3>5. CASE PumpDial(p)
      BY <1>t, <3>1, <3>5 DEF PumpDial, Channel
    <3> QED
      BY <1>8, <3>2, <3>3, <3>4, <3>5 DEF PumpSteps
  <2>5. session' => \/ handlers' > 0
                    \/ boot' \in {"start", "install"}
                    \/ \E q \in DOMAIN chans' : Announced(q)' \/ chans'[q].at = "install"
    <3>1. SUFFICES ASSUME session, ~(handlers > 0), ~(boot \in {"start", "install"})
                   PROVE  \/ handlers' > 0
                          \/ \E q \in DOMAIN chans' : Announced(q)' \/ chans'[q].at = "install"
      BY <1>t, <2>3
    <3>2. PICK q \in DOMAIN chans : Announced(q) \/ chans[q].at = "install"
      BY <3>1 DEF HandlersOK
    <3>3. CASE q = p
      BY <1>t, <1>8, <2>2, <3>2, <3>3, PumpNoticing DEF HandlersOK
    <3>4. CASE q # p
      BY <2>2, <3>2, <3>4 DEF Announced
    <3> QED
      BY <3>3, <3>4
  <2> QED
    BY <1>t, <2>2, <2>3, <2>4, <2>5 DEF HandlersOK
<1>9. CASE ResetLogout \/ Revoke
  BY <1>9 DEF ResetLogout, Revoke, HandlersOK, daemonVars
<1>10. CASE ResetCache \/ LinkFlaps
  BY <1>10 DEF ResetCache, LinkFlaps, HandlersOK, Announced, daemonVars
<1>11. ASSUME NEW p \in DOMAIN chans, EmitCode(p) PROVE HandlersOK'
  <2>1. \A q \in DOMAIN chans : chans[q] \in Channel
    BY <1>t
  <2>2. DOMAIN chans' = DOMAIN chans /\ \A q \in DOMAIN chans : chans'[q].at = chans[q].at
    BY <1>t, <1>11, <2>1 DEF EmitCode, Channel
  <2> QED
    BY <1>11, <2>2 DEF EmitCode, HandlersOK, daemonVars
<1>12. CASE Timeout
  <2>1. \A q \in DOMAIN chans : chans[q] \in Channel
    BY <1>t
  <2>2. DOMAIN chans' = DOMAIN chans /\ \A q \in DOMAIN chans : chans'[q].at = chans[q].at
    BY <1>t, <1>12, <2>1 DEF Timeout, Channel
  <2> QED
    BY <1>12, <2>2 DEF Timeout, HandlersOK, daemonVars
<1>13. CASE PhonePairs
  <2>1. \A q \in DOMAIN chans : chans[q] \in Channel
    BY <1>t
  <2>2. DOMAIN chans' = DOMAIN chans /\ \A q \in DOMAIN chans : chans'[q].at = chans[q].at
    BY <1>t, <1>13, <2>1 DEF PhonePairs, Channel
  <2>3. PICK p \in DOMAIN chans : chans[p].open
    BY <1>13 DEF PhonePairs, Open
  <2>4. chans'[p].queue = Append(chans[p].queue, Success)
    BY <1>13, <2>1, <2>3 DEF PhonePairs, Channel
  <2>5. chans[p].queue \in Seq(Code \union {Success})
    BY <2>1 DEF Channel
  <2>6. LET q == chans[p].queue IN
        Len(q) + 1 \in DOMAIN Append(q, Success) /\ Append(q, Success)[Len(q) + 1] = Success
    BY <2>5
  <2>7. Announced(p)'
    BY <2>4, <2>6 DEF Announced
  <2> QED
    BY <1>13, <2>2, <2>3, <2>7 DEF PhonePairs, HandlersOK, daemonVars
<1>14. CASE Restart
  BY <1>14 DEF Restart, HandlersOK
<1> QED
  BY <1>1, <1>2, <1>3, <1>4, <1>5, <1>6, <1>7, <1>8, <1>9, <1>10, <1>11, <1>12, <1>13,
     <1>14 DEF Next, RunSteps, DispatcherSteps

\* Every step keeps the invariant.
LEMMA InvStep == Inv /\ [Next]_vars => Inv'
<1> SUFFICES ASSUME Inv, [Next]_vars PROVE Inv'
  OBVIOUS
<1>1. CASE Next
  BY <1>1, TypeStep, BootStep, DispatchStep, HandlersStep, HeardStep DEF Inv
<1>2. CASE UNCHANGED vars
  BY <1>2 DEF Inv, TypeOK, BootOK, DispatchOK, HandlersOK, PairingIsHeard, Open, Silent,
              Announced, vars, daemonVars, counters
<1> QED
  BY <1>1, <1>2

\* The invariant holds in every behaviour.
THEOREM PairingInvariant == Spec => []Inv
BY InvStep, InitInv, PTL DEF Spec

\* Every state is of its type, whatever the bounds of the environment.
THEOREM PairingTypeCorrect == Spec => []TypeOK
BY PairingInvariant, PTL DEF Inv

\* A connected, unpaired device always has a pump that would hear the pairing.
THEOREM PairingAlwaysHeard == Spec => []PairingIsHeard
BY PairingInvariant, PTL DEF Inv

\* A daemon at rest with a session has a handler for its revocation.
THEOREM RevocationAlwaysHeard == Spec => []RevocationIsHeard
<1>1. Inv => RevocationIsHeard
  <2> SUFFICES ASSUME Inv, Quiescent, session PROVE handlers > 0
    BY DEF RevocationIsHeard
  <2>1. \A p \in DOMAIN chans : ~Announced(p) /\ chans[p].at # "install"
    BY DEF Quiescent, Noticing, Announced
  <2> QED
    BY <2>1 DEF Inv, HandlersOK, Quiescent
<1> QED
  BY <1>1, PairingInvariant, PTL

-------------------------------------------------------------------------------
(* The paired flag.  A flag without a session has somebody left to clear   *)
(* it: the reset that logged out, or a LoggedOut handler not yet begun.    *)

PumpsPaired == \A p \in DOMAIN chans : Noticing(p) => session

FlagOK ==
    cache.paired /\ ~session =>
        resetting \/ pending > (IF dispatch = "idle" THEN 0 ELSE 1)

PairedInv == Inv /\ PumpsPaired /\ FlagOK

\* A pump that has something to notice has had it before the step.
LEMMA PumpStillNoticing ==
    ASSUME chans \in Seq(Channel), NEW p \in DOMAIN chans, PumpSteps(p), Noticing(p)'
    PROVE  Noticing(p)
<1>1. chans[p] \in Channel
  OBVIOUS
<1>2. CASE PumpCode(p)
  <2> DEFINE q == chans[p].queue
  <2>1. q \in Seq(Code \union {Success}) /\ q # <<>>
    BY <1>1, <1>2 DEF PumpCode, Channel
  <2>2. chans'[p].queue = Tail(q) /\ chans'[p].at = chans[p].at
    BY <1>1, <1>2 DEF PumpCode, Channel
  <2>3. \A i \in DOMAIN Tail(q) : i + 1 \in DOMAIN q /\ q[i + 1] = Tail(q)[i]
    BY <2>1
  <2> QED
    BY <2>2, <2>3 DEF Noticing
<1>3. CASE PumpSuccess(p)
  <2>1. chans[p].queue \in Seq(Code \union {Success})
    BY <1>1 DEF Channel
  <2> QED
    BY <1>3, <2>1 DEF PumpSuccess, Noticing
<1>4. CASE PumpInstall(p)
  BY <1>4 DEF PumpInstall, Noticing
<1>5. CASE PumpDial(p)
  <2>1. chans'[p].queue = chans[p].queue /\ chans'[p].at = "done"
    BY <1>1, <1>5 DEF PumpDial, Channel
  <2> QED
    BY <2>1 DEF Noticing
<1> QED
  BY <1>2, <1>3, <1>4, <1>5 DEF PumpSteps

\* While sessions do not end early, every step keeps PumpsPaired.
LEMMA PumpsPairedStep ==
    ASSUME Inv, PumpsPaired, Next, EarlyEnd = FALSE PROVE PumpsPaired'
<1>t. chans \in Seq(Channel) /\ session \in BOOLEAN
  BY DEF Inv, TypeOK
<1>0. \A p \in DOMAIN chans : chans[p] \in Channel
  BY <1>t
<1>1. CASE UNCHANGED <<session, chans>>
  BY <1>1 DEF PumpsPaired, Noticing
<1>2. CASE BootQRChannel \/ LoggedOutQRChannel
  <2>1. CASE UNCHANGED <<session, chans>>
    BY <2>1 DEF PumpsPaired, Noticing
  <2>2. CASE chans' = Append(chans, NewChannel) /\ session' = session
    <3>1. \A p \in DOMAIN chans' :
              \/ p \in DOMAIN chans /\ chans'[p] = chans[p]
              \/ chans'[p] = NewChannel
      BY <1>t, <2>2
    <3>2. NewChannel.queue = <<>> /\ NewChannel.at = "read"
      BY DEF NewChannel
    <3> QED
      BY <2>2, <3>1, <3>2 DEF PumpsPaired, Noticing
  <2> QED
    BY <1>2, <2>1, <2>2 DEF BootQRChannel, LoggedOutQRChannel
<1>3. ASSUME NEW p \in DOMAIN chans, PumpSteps(p) PROVE PumpsPaired'
  <2>1. PICK c \in Channel : chans' = [chans EXCEPT ![p] = c]
    BY <1>t, <1>3, PumpReplaces
  <2>2. DOMAIN chans' = DOMAIN chans /\ \A q \in DOMAIN chans \ {p} : chans'[q] = chans[q]
    BY <1>t, <2>1
  <2>3. session' = session
    BY <1>3 DEF PumpSteps, PumpCode, PumpSuccess, PumpInstall, PumpDial
  <2>4. \A q \in DOMAIN chans \ {p} : Noticing(q)' => Noticing(q)
    BY <2>2 DEF Noticing
  <2>5. Noticing(p)' => Noticing(p)
    BY <1>t, <1>3, PumpStillNoticing
  <2> QED
    BY <2>2, <2>3, <2>4, <2>5 DEF PumpsPaired
<1>4. CASE ResetLogout \/ Revoke
  <2>1. \A p \in DOMAIN chans : ~Noticing(p)
    BY <1>4 DEF ResetLogout, Revoke
  <2>2. chans' = chans
    BY <1>4 DEF ResetLogout, Revoke
  <2> QED
    BY <2>1, <2>2 DEF PumpsPaired, Noticing
<1>5. ASSUME NEW p \in DOMAIN chans, EmitCode(p) PROVE PumpsPaired'
  <2> DEFINE next == (chans[p].emitted % MaxCodes) + 1
  <2>1. session' = session /\ DOMAIN chans' = DOMAIN chans
    BY <1>t, <1>5 DEF EmitCode
  <2>2. \A q \in DOMAIN chans \ {p} : chans'[q] = chans[q]
    BY <1>t, <1>5 DEF EmitCode
  <2>3. chans'[p].queue = <<<<p, next>>>> /\ chans'[p].at = chans[p].at
    BY <1>0, <1>5 DEF EmitCode, Channel
  <2>4. p \in Nat \ {0}
    BY <1>t
  <2>5. \A i \in DOMAIN <<<<p, next>>>> : <<<<p, next>>>>[i] # Success
    BY <2>4 DEF Success
  <2>6. Noticing(p)' => Noticing(p)
    BY <2>3, <2>5 DEF Noticing
  <2>7. \A q \in DOMAIN chans \ {p} : Noticing(q)' => Noticing(q)
    BY <2>2 DEF Noticing
  <2> QED
    BY <2>1, <2>6, <2>7 DEF PumpsPaired
<1>6. CASE Timeout
  <2>1. /\ session' = session /\ DOMAIN chans' = DOMAIN chans
        /\ \A q \in DOMAIN chans : /\ chans'[q].at = chans[q].at
                                  /\ chans'[q].queue = chans[q].queue
    BY <1>0, <1>6 DEF Timeout, Channel
  <2> QED
    BY <2>1 DEF PumpsPaired, Noticing
<1>7. CASE PhonePairs
  BY <1>7 DEF PhonePairs, PumpsPaired
<1>8. CASE Restart
  BY <1>8 DEF Restart, PumpsPaired
<1>9. CASE \/ BootPaired \/ BootInstall \/ BootConnect \/ BootDial \/ LoggedOutReset
            \/ LoggedOutDial \/ ResetCache \/ LinkFlaps
  BY <1>1, <1>9 DEF BootPaired, BootInstall, BootConnect, BootDial, LoggedOutReset,
                    LoggedOutDial, ResetCache, LinkFlaps
<1> QED
  BY <1>2, <1>3, <1>4, <1>5, <1>6, <1>7, <1>8, <1>9 DEF Next, RunSteps, DispatcherSteps

\* While sessions do not end early, every step keeps FlagOK.
LEMMA FlagStep ==
    ASSUME PairedInv, Next, EarlyEnd = FALSE PROVE FlagOK'
<1> USE DEF PairedInv
<1>t. /\ session \in BOOLEAN /\ resetting \in BOOLEAN /\ handlers \in Nat /\ pending \in Nat
      /\ dispatch \in {"idle", "qr", "dial"}
      /\ cache \in [qr : Code \union {NoCode}, paired : BOOLEAN]
      /\ chans \in Seq(Channel)
  BY DEF Inv, TypeOK
<1>1. CASE UNCHANGED <<session, cache, resetting, pending, dispatch>>
  BY <1>1 DEF FlagOK
<1>2. CASE BootPaired
  BY <1>2 DEF BootPaired, FlagOK
<1>3. CASE \/ BootInstall \/ BootConnect \/ BootQRChannel \/ BootDial \/ Timeout \/ LinkFlaps
  BY <1>1, <1>3 DEF BootInstall, BootConnect, BootQRChannel, BootDial, Timeout, LinkFlaps,
                    daemonVars
<1>4. CASE LoggedOutReset \/ ResetCache \/ Restart
  <2>1. ~cache'.paired
    BY <1>4 DEF LoggedOutReset, ResetCache, Restart, Cleared
  <2> QED
    BY <2>1 DEF FlagOK
<1>5. CASE LoggedOutQRChannel
  BY <1>t, <1>5 DEF LoggedOutQRChannel, FlagOK
<1>6. CASE LoggedOutDial
  BY <1>t, <1>6 DEF LoggedOutDial, FlagOK
<1>7. ASSUME NEW p \in DOMAIN chans, PumpSteps(p) PROVE FlagOK'
  <2>1. CASE PumpCode(p)
    BY <2>1 DEF PumpCode, SetQR, FlagOK
  <2>2. CASE PumpSuccess(p)
    <3>0. chans[p] \in Channel
      BY <1>t
    <3>1. chans[p].queue \in Seq(Code \union {Success})
      BY <3>0 DEF Channel
    <3>2. 1 \in DOMAIN chans[p].queue /\ chans[p].queue[1] = Success
      BY <2>2, <3>1 DEF PumpSuccess
    <3>3. session
      BY <3>2 DEF PumpsPaired, Noticing
    <3> QED
      BY <2>2, <3>3 DEF PumpSuccess, FlagOK
  <2>3. CASE PumpInstall(p) \/ PumpDial(p)
    BY <1>1, <2>3 DEF PumpInstall, PumpDial, daemonVars
  <2> QED
    BY <1>7, <2>1, <2>2, <2>3 DEF PumpSteps
<1>8. CASE ResetLogout
  BY <1>8 DEF ResetLogout, FlagOK
<1>9. ASSUME NEW p \in DOMAIN chans, EmitCode(p) PROVE FlagOK'
  BY <1>1, <1>9 DEF EmitCode, daemonVars
<1>10. CASE PhonePairs
  BY <1>10 DEF PhonePairs, FlagOK
<1>11. CASE Revoke
  <2>1. \A p \in DOMAIN chans : ~Noticing(p)
    BY <1>11 DEF Revoke
  <2>2. \A p \in DOMAIN chans : ~Announced(p) /\ chans[p].at # "install"
    BY <2>1 DEF Noticing, Announced
  <2>3. session /\ boot \notin {"start", "install"}
    BY <1>11 DEF Revoke, Inv, BootOK
  <2>4. handlers > 0
    BY <2>2, <2>3 DEF Inv, HandlersOK
  <2>5. dispatch # "idle" => pending > 0
    BY DEF Inv, DispatchOK
  <2>6. pending' = pending + handlers /\ dispatch' = dispatch
    BY <1>11 DEF Revoke, daemonVars
  <2>7. pending' > (IF dispatch' = "idle" THEN 0 ELSE 1)
    BY <1>t, <2>4, <2>5, <2>6
  <2> QED
    BY <2>7 DEF FlagOK
<1> QED
  BY <1>2, <1>3, <1>4, <1>5, <1>6, <1>7, <1>8, <1>9, <1>10, <1>11
     DEF Next, RunSteps, DispatcherSteps

\* Provided no session ends before the daemon has noticed its start, the paired
\* flag of a daemon at rest never claims a session that is gone.
THEOREM PairedAlwaysTrue ==
    ASSUME EarlyEnd = FALSE
    PROVE  Spec => []PairedIsTrue
<1>1. Init => PairedInv
  BY InitInv DEF PairedInv, Init, Cleared, PumpsPaired, FlagOK
<1>2. PairedInv /\ [Next]_vars => PairedInv'
  <2> SUFFICES ASSUME PairedInv, [Next]_vars PROVE PairedInv'
    OBVIOUS
  <2>1. Inv'
    BY InvStep DEF PairedInv
  <2>2. CASE Next
    BY <2>1, <2>2, PumpsPairedStep, FlagStep DEF PairedInv
  <2>3. CASE UNCHANGED vars
    BY <2>1, <2>3 DEF PairedInv, PumpsPaired, FlagOK, Noticing, vars, daemonVars
  <2> QED
    BY <2>2, <2>3
<1>3. PairedInv => PairedIsTrue
  <2> SUFFICES ASSUME PairedInv, Quiescent, cache.paired, ~session PROVE FALSE
    BY DEF PairedIsTrue
  <2>1. pending = 0 /\ ~resetting
    BY DEF Quiescent
  <2>2. pending > 0
    BY <2>1 DEF PairedInv, FlagOK, Inv, TypeOK
  <2> QED
    BY <2>1, <2>2
<1> QED
  BY <1>1, <1>2, <1>3, PTL DEF Spec

-------------------------------------------------------------------------------
(* The cache of a device at most revoked once.  There is one handler then  *)
(* and one pairing at a time, and what an earlier pump left is spent.      *)

\* What may wait in a channel: the code it emitted last, the success, or both.
Waiting(p) == chans[p].queue \in {<<<<p, chans[p].emitted>>>>, <<<<p, chans[p].emitted>>, Success>>}
QueueOK(p) == chans[p].queue = <<>> \/ chans[p].queue = <<Success>> \/ Waiting(p)

\* The cached code is the one its channel emitted last, or that one is waiting.
QRCached ==
    cache.qr # NoCode =>
        /\ cache.qr[1] \in DOMAIN chans
        /\ cache.qr[2] = chans[cache.qr[1]].emitted \/ Waiting(cache.qr[1])

\* Nothing is left that could bring the device back, except a restart.
Stranded == ~session /\ ~link /\ pending = 0 /\ Open = {}

\* Before the first revocation the daemon pairs once and installs one handler.
FirstLife ==
    /\ pending = 0 /\ Len(chans) <= 1 /\ handlers <= 1
    /\ boot \in {"start", "install", "dial"} => handlers = 0
    /\ \A p \in DOMAIN chans : chans[p].at \in {"read", "install"} => handlers = 0

\* The only LoggedOut call runs while the device has neither a session nor codes.
OneCall ==
    /\ pending <= 1
    /\ pending = 1 => ~session /\ \A p \in DOMAIN chans : chans[p].queue = <<>>
    /\ pending = 1 /\ dispatch # "dial" => ~link /\ Open = {}
    /\ resetting => Stranded /\ boot # "start"

\* Closed channels deliver a success or nothing that is ever shown.
Closing == \A p \in DOMAIN chans :
    ~chans[p].open /\ chans[p].queue # <<>> => Announced(p) \/ Stranded

\* What is shown: a session, or the code of a channel that waits for the phone.
Shown ==
    /\ session => boot = "start" \/ cache.paired \/ \E p \in DOMAIN chans : Announced(p)
    /\ dispatch # "idle" \/ boot = "start" => cache.qr = NoCode
    /\ cache.qr # NoCode /\ Open # {} => cache.qr[1] \in Open

OneRevoke == (revokes = 0 => FirstLife) /\ OneCall /\ Closing /\ Shown

CurrentInv ==
    /\ session => Open = {}
    /\ \A p \in DOMAIN chans : QueueOK(p)
    /\ QRCached
    /\ revokes <= 1 => OneRevoke

\* Appending to a sequence of one.
LEMMA AppendToOne ==
    ASSUME NEW S, NEW c \in S, NEW d \in S
    PROVE  Append(<<c>>, d) = <<c, d>>
<1>1. <<c>> \in Seq(S) /\ Len(<<c>>) = 1 /\ <<c>>[1] = c
  OBVIOUS
<1>2. /\ <<c, d>> \in Seq(S) /\ Len(<<c, d>>) = 2
      /\ <<c, d>>[1] = c /\ <<c, d>>[2] = d
  OBVIOUS
<1>3. ASSUME NEW s \in Seq(S), Len(s) = 1, s[1] = c
      PROVE  /\ Append(s, d) \in Seq(S) /\ Len(Append(s, d)) = 2
             /\ Append(s, d)[1] = c /\ Append(s, d)[2] = d
  <2> DEFINE a == Append(s, d)
  <2>1. /\ a \in Seq(S) /\ Len(a) = Len(s) + 1
        /\ (\A i \in 1..Len(s) : a[i] = s[i]) /\ a[Len(s) + 1] = d
    BY AppendProperties
  <2> HIDE DEF a
  <2>2. Len(a) = 2 /\ a[1] = c /\ a[2] = d
    BY <1>3, <2>1
  <2> QED
    BY <2>1, <2>2 DEF a
<1>4. ASSUME NEW s \in Seq(S), NEW t \in Seq(S), Len(s) = 2, Len(t) = 2,
             s[1] = t[1], s[2] = t[2]
      PROVE  s = t
  <2>1. \A i \in 1..Len(s) : s[i] = t[i]
    BY <1>4
  <2> QED
    BY <1>4, <2>1, SeqEqual
<1> QED
  BY <1>1, <1>2, <1>3, <1>4

\* Codes differ from the success, and what a pump takes leaves the rest.
LEMMA QueueShapes ==
    ASSUME NEW p \in Nat \ {0}, NEW n
    PROVE  /\ <<p, n>> # Success /\ <<p, n>> # NoCode
           /\ Head(<<<<p, n>>>>) = <<p, n>> /\ Tail(<<<<p, n>>>>) = <<>>
           /\ Head(<<Success>>) = Success
           /\ Head(<<<<p, n>>, Success>>) = <<p, n>> /\ Tail(<<<<p, n>>, Success>>) = <<Success>>
           /\ Append(<<>>, Success) = <<Success>>
           /\ Append(<<<<p, n>>>>, Success) = <<<<p, n>>, Success>>
           /\ <<<<p, n>>>> # <<>> /\ <<Success>> # <<>> /\ <<<<p, n>>, Success>> # <<>>
           /\ <<<<p, n>>>> # <<Success>> /\ <<<<p, n>>>> # <<<<p, n>>, Success>>
           /\ <<Success>> # <<<<p, n>>, Success>>
<1>1. <<p, n>> # Success /\ <<p, n>> # NoCode
  BY DEF Success, NoCode
<1> DEFINE c == <<p, n>>
<1> HIDE DEF c
<1>2. /\ Head(<<c>>) = c /\ Tail(<<c>>) = <<>> /\ Head(<<Success>>) = Success
      /\ Head(<<c, Success>>) = c /\ Tail(<<c, Success>>) = <<Success>>
      /\ Append(<<>>, Success) = <<Success>>
  OBVIOUS
<1>5. Append(<<c>>, Success) = <<c, Success>>
  BY AppendToOne, c \in {c, Success}, Success \in {c, Success}
<1>3. <<c>> # <<>> /\ <<Success>> # <<>> /\ <<c, Success>> # <<>> /\ <<c>> # <<c, Success>>
  OBVIOUS
<1>4. c # Success => <<c>> # <<Success>> /\ <<Success>> # <<c, Success>>
  OBVIOUS
<1> QED
  BY <1>1, <1>2, <1>3, <1>4, <1>5 DEF c

\* A success is announced by the queues that end in one.
LEMMA AnnouncedQueues ==
    ASSUME NEW p \in DOMAIN chans, p \in Nat \ {0}, QueueOK(p)
    PROVE  Announced(p) <=>
               chans[p].queue \in {<<Success>>, <<<<p, chans[p].emitted>>, Success>>}
<1>1. <<p, chans[p].emitted>> # Success
  BY QueueShapes
<1>2. CASE chans[p].queue = <<>>
  BY <1>2 DEF Announced
<1>3. CASE chans[p].queue = <<Success>>
  BY <1>3 DEF Announced
<1>4. CASE chans[p].queue = <<<<p, chans[p].emitted>>>>
  BY <1>1, <1>4, QueueShapes DEF Announced
<1>5. CASE chans[p].queue = <<<<p, chans[p].emitted>>, Success>>
  <2>1. 2 \in DOMAIN chans[p].queue /\ chans[p].queue[2] = Success
    BY <1>5
  <2> QED
    BY <1>5, <2>1 DEF Announced
<1> QED
  BY <1>2, <1>3, <1>4, <1>5 DEF QueueOK, Waiting

\* What the steps below start from.
CurrentStart == Inv /\ PumpsPaired /\ CurrentInv

LEMMA CurrentInit == Init => CurrentInv
BY DEF Init, Cleared, CurrentInv, QRCached, OneRevoke, FirstLife, OneCall, Closing, Shown, Open

\* Steps that leave the channels alone.
LEMMA SameChannelsStep ==
    ASSUME CurrentStart, chans' = chans,
           \/ BootPaired \/ BootInstall \/ BootConnect \/ BootDial
           \/ LoggedOutReset \/ LoggedOutDial \/ ResetCache \/ LinkFlaps
    PROVE  CurrentInv'
<1> USE DEF CurrentStart, CurrentInv, QRCached, OneRevoke, FirstLife, OneCall, Closing, Shown,
            Stranded, counters
<1>0. /\ Open' = Open
      /\ \A p \in DOMAIN chans : /\ QueueOK(p) => QueueOK(p)'
                                 /\ Waiting(p) => Waiting(p)'
                                 /\ Announced(p) => Announced(p)'
  BY DEF Open, QueueOK, Waiting, Announced
<1>t. /\ session \in BOOLEAN /\ link \in BOOLEAN /\ pending \in Nat /\ handlers \in Nat
      /\ revokes \in Nat
  BY PairingAssumption DEF Inv, TypeOK
<1>1. CASE BootPaired
  BY <1>0, <1>1 DEF BootPaired, SetPaired, Inv, BootOK
<1>2. CASE BootInstall
  BY <1>0, <1>t, <1>2 DEF BootInstall, Inv, BootOK
<1>3. CASE BootConnect
  BY <1>0, <1>t, <1>3 DEF BootConnect, Dial, Inv, BootOK
<1>4. CASE BootDial
  BY <1>0, <1>t, <1>4 DEF BootDial, Dial, Inv, BootOK
<1>5. CASE LoggedOutReset
  BY <1>0, <1>t, <1>5 DEF LoggedOutReset, Cleared, Inv, BootOK
<1>6. CASE LoggedOutDial
  BY <1>0, <1>t, <1>6 DEF LoggedOutDial, Dial, Inv, DispatchOK
<1>7. CASE ResetCache
  BY <1>0, <1>t, <1>7 DEF ResetCache, Cleared
<1>8. CASE LinkFlaps
  BY <1>0, <1>t, <1>8 DEF LinkFlaps, daemonVars
<1> QED
  BY <1>1, <1>2, <1>3, <1>4, <1>5, <1>6, <1>7, <1>8

\* A pairing starts: on a device without a session, after its cache was cleared.
LEMMA NewChannelStep ==
    ASSUME CurrentStart, chans' = Append(chans, NewChannel),
           BootQRChannel \/ LoggedOutQRChannel
    PROVE  CurrentInv'
<1> USE DEF CurrentStart, CurrentInv, OneRevoke, OneCall, Stranded, counters
<1> DEFINE n == Len(chans) + 1
<1>t. /\ session \in BOOLEAN /\ link \in BOOLEAN /\ pending \in Nat /\ handlers \in Nat
      /\ revokes \in Nat /\ chans \in Seq(Channel)
  BY PairingAssumption DEF Inv, TypeOK
<1>1. /\ DOMAIN chans' = DOMAIN chans \union {n} /\ n \notin DOMAIN chans
      /\ \A p \in DOMAIN chans : chans'[p] = chans[p]
      /\ chans'[n] = NewChannel /\ Len(chans') = n
  BY <1>t
<1> HIDE DEF n
<1>2. NewChannel.open /\ NewChannel.queue = <<>> /\ NewChannel.at = "read"
  BY DEF NewChannel
<1>3. Open' = Open \union {n}
  BY <1>1, <1>2 DEF Open
<1>4. \A p \in DOMAIN chans : /\ QueueOK(p) => QueueOK(p)'
                              /\ Waiting(p) => Waiting(p)'
                              /\ Announced(p) => Announced(p)'
  BY <1>1 DEF QueueOK, Waiting, Announced
<1>5. \A p \in DOMAIN chans' : QueueOK(p)'
  <2> TAKE p \in DOMAIN chans'
  <2>1. CASE p \in DOMAIN chans
    BY <1>4, <2>1
  <2>2. CASE p \notin DOMAIN chans
    <3>1. chans'[p].queue = <<>>
      BY <1>1, <1>2, <2>2
    <3> QED
      BY <3>1 DEF QueueOK
  <2> QED
    BY <2>1, <2>2
<1>6. QRCached'
  BY <1>1, <1>4 DEF QRCached, BootQRChannel, LoggedOutQRChannel
<1>7. CASE BootQRChannel
  <2>1. chans = <<>> /\ pending = 0 /\ ~session /\ ~link /\ dispatch = "idle"
    BY <1>7 DEF BootQRChannel, Inv, BootOK
  <2>2. /\ UNCHANGED <<session, link, pending, cache, handlers, dispatch, resetting, revokes>>
        /\ boot = "start" /\ boot' = "dial"
    BY <1>7 DEF BootQRChannel
  <2>3. Len(chans') = 1 /\ DOMAIN chans = {} /\ DOMAIN chans' = {n} /\ chans'[n].at = "read"
    BY <1>1, <1>2, <2>1 DEF n
  <2>4. resetting => revokes > 1
    BY <1>t, <2>2
  <2>5. revokes' <= 1 => (revokes' = 0 => FirstLife')
    BY <1>t, <2>1, <2>2, <2>3 DEF FirstLife
  <2>6. revokes' <= 1 => OneCall'
    BY <2>1, <2>2, <2>4, <1>t
  <2>7. revokes' <= 1 => Closing' /\ Shown'
    BY <1>2, <1>1, <2>1, <2>2, <2>3 DEF Closing, Shown
  <2> QED
    BY <1>5, <1>6, <2>1, <2>2, <2>5, <2>6, <2>7
<1>8. CASE LoggedOutQRChannel
  <2>1. /\ dispatch = "qr" /\ pending > 0 /\ ~session /\ ~link
        /\ UNCHANGED <<session, link, pending, cache, handlers, boot, resetting, revokes>>
        /\ dispatch' = "dial"
    <3>1. chans' # chans
      BY <1>t
    <3> QED
      BY <1>8, <1>t, <3>1 DEF LoggedOutQRChannel, Inv, DispatchOK
  <2>2. revokes' <= 1 => OneCall' /\ revokes' # 0
    BY <1>1, <1>2, <1>t, <2>1 DEF FirstLife
  <2>3. revokes' <= 1 => Closing' /\ Shown'
    BY <1>1, <1>2, <1>3, <1>t, <2>1, <1>4 DEF Closing, Shown
  <2> QED
    BY <1>5, <1>6, <2>1, <2>2, <2>3
<1> QED
  BY <1>7, <1>8

\* A pairing that the library refuses: the device has a session or a connection,
\* which it cannot have while the only call of a handler runs.
LEMMA RefusedChannelStep ==
    ASSUME CurrentStart, LoggedOutQRChannel, chans' = chans
    PROVE  CurrentInv'
<1> USE DEF CurrentStart, CurrentInv
<1>1. /\ Open' = Open
      /\ \A p \in DOMAIN chans : QueueOK(p) => QueueOK(p)'
      /\ QRCached => QRCached'
  BY DEF Open, QueueOK, Waiting, QRCached, LoggedOutQRChannel
<1>2. chans \in Seq(Channel) /\ pending \in Nat
  BY DEF Inv, TypeOK
<1>3. Append(chans, NewChannel) # chans
  BY <1>2
<1>4. link \/ session
  BY <1>3 DEF LoggedOutQRChannel
<1>5. ~(revokes <= 1)
  BY <1>2, <1>4 DEF LoggedOutQRChannel, OneRevoke, OneCall, Inv, DispatchOK
<1> QED
  BY <1>1, <1>5 DEF LoggedOutQRChannel, counters

\* What replacing the channel of p leaves of the others.
LEMMA OthersStay ==
    ASSUME chans \in Seq(Channel), NEW p \in DOMAIN chans, NEW c, chans' = [chans EXCEPT ![p] = c]
    PROVE  /\ DOMAIN chans' = DOMAIN chans /\ Len(chans') = Len(chans) /\ chans'[p] = c
           /\ \A q \in DOMAIN chans \ {p} : /\ chans'[q] = chans[q]
                                            /\ QueueOK(q) => QueueOK(q)'
                                            /\ Waiting(q) => Waiting(q)'
                                            /\ Announced(q) => Announced(q)'
<1>1. DOMAIN chans = 1..Len(chans) /\ Len(chans) \in Nat
  OBVIOUS
<1>2. /\ DOMAIN chans' = DOMAIN chans /\ chans'[p] = c
      /\ \A q \in DOMAIN chans \ {p} : chans'[q] = chans[q]
  BY <1>1
<1>3. Len(chans') = Len(chans)
  <2>1. chans' \in Seq(Channel \union {c})
    OBVIOUS
  <2> QED
    BY <1>1, <1>2, <2>1
<1> QED
  BY <1>2, <1>3 DEF QueueOK, Waiting, Announced

\* A pump takes the code its channel emitted last: its channel is open, or the
\* success is next.
LEMMA PumpCodeStep ==
    ASSUME CurrentStart, NEW p \in DOMAIN chans, PumpCode(p)
    PROVE  CurrentInv'
<1> USE DEF CurrentStart
<1>t. /\ session \in BOOLEAN /\ link \in BOOLEAN /\ pending \in Nat /\ handlers \in Nat
      /\ revokes \in Nat /\ chans \in Seq(Channel) /\ chans[p] \in Channel
  BY PairingAssumption DEF Inv, TypeOK
<1>p. p \in Nat \ {0}
  BY <1>t
<1> DEFINE n == chans[p].emitted
           q == chans[p].queue
<1>1. /\ q \in {<<<<p, n>>>>, <<<<p, n>>, Success>>}
      /\ Head(q) = <<p, n>> /\ Tail(q) \in {<<>>, <<Success>>} /\ <<p, n>> # NoCode
      /\ q = <<<<p, n>>, Success>> => Tail(q) = <<Success>>
      /\ q = <<<<p, n>>>> => Tail(q) = <<>>
  <2>1. q \in {<<>>, <<Success>>, <<<<p, n>>>>, <<<<p, n>>, Success>>}
    BY DEF CurrentInv, QueueOK, Waiting
  <2>2. q # <<>> /\ Head(q) # Success
    BY DEF PumpCode
  <2>3. /\ Head(<<Success>>) = Success /\ <<p, n>> # NoCode
        /\ Head(<<<<p, n>>>>) = <<p, n>> /\ Tail(<<<<p, n>>>>) = <<>>
        /\ Head(<<<<p, n>>, Success>>) = <<p, n>> /\ Tail(<<<<p, n>>, Success>>) = <<Success>>
        /\ <<<<p, n>>>> # <<<<p, n>>, Success>>
    BY <1>p, QueueShapes
  <2> HIDE DEF n, q
  <2> QED
    BY <2>1, <2>2, <2>3
<1>2. q # <<>> /\ (Announced(p) => Tail(q) = <<Success>>)
  <2>1. Announced(p) => q \in {<<Success>>, <<<<p, n>>, Success>>}
    BY <1>p, AnnouncedQueues DEF CurrentInv
  <2>2. q # <<Success>> /\ q # <<>>
    BY <1>1, <1>p, QueueShapes
  <2> QED
    BY <1>1, <2>1, <2>2
<1> DEFINE c == [chans[p] EXCEPT !.queue = Tail(@)]
<1>3. /\ c.queue = Tail(q) /\ c.open = chans[p].open /\ c.at = chans[p].at
      /\ c.emitted = n
  BY <1>t DEF Channel
<1>4. /\ chans' = [chans EXCEPT ![p] = c] /\ cache' = [qr |-> <<p, n>>, paired |-> FALSE]
      /\ UNCHANGED <<session, link, pending, handlers, dispatch, boot, resetting, revokes>>
  BY <1>1 DEF PumpCode, SetQR, counters
<1> HIDE DEF c
<1>5. /\ DOMAIN chans' = DOMAIN chans /\ Len(chans') = Len(chans) /\ chans'[p] = c
      /\ \A r \in DOMAIN chans \ {p} : /\ chans'[r] = chans[r]
                                       /\ QueueOK(r) => QueueOK(r)'
                                       /\ Waiting(r) => Waiting(r)'
                                       /\ Announced(r) => Announced(r)'
  BY <1>4, <1>t, OthersStay
<1>6. Open' = Open /\ \A r \in DOMAIN chans : chans'[r].at = chans[r].at
  BY <1>5, <1>3 DEF Open
<1>7. \A r \in DOMAIN chans' : QueueOK(r)'
  <2>1. QueueOK(p)'
    BY <1>1, <1>3, <1>5 DEF QueueOK
  <2> QED
    BY <1>5, <2>1 DEF CurrentInv
<1>8. QRCached'
  BY <1>3, <1>4, <1>5 DEF QRCached
<1>9. chans'[p].queue # <<>> => Announced(p)'
  <2>1. 1 \in DOMAIN <<Success>> /\ <<Success>>[1] = Success
    OBVIOUS
  <2>2. chans'[p].queue \in {<<>>, <<Success>>}
    BY <1>1, <1>3, <1>5
  <2> QED
    BY <2>1, <2>2 DEF Announced
<1>10. Announced(p) => Announced(p)'
  <2>1. <<Success>> # <<>>
    OBVIOUS
  <2> QED
    BY <1>2, <1>3, <1>5, <1>9, <2>1
<1>11. Announced(p) => session
  BY DEF PumpsPaired, Noticing, Announced
<1>12. ASSUME revokes <= 1 PROVE OneRevoke'
  <2> USE <1>12
  <2>1. pending = 0 /\ (resetting => Stranded /\ boot # "start") /\ dispatch = "idle"
    BY <1>2, <1>t DEF CurrentInv, OneRevoke, OneCall, Inv, DispatchOK
  <2>2. boot # "start"
    BY DEF Inv, BootOK
  <2>3. p \notin Open /\ ~Stranded => Announced(p)
    BY <1>2 DEF CurrentInv, OneRevoke, Closing, Open
  <2>4. revokes' = 0 => FirstLife'
    BY <1>4, <1>5, <1>6 DEF CurrentInv, OneRevoke, FirstLife
  <2>5. OneCall'
    BY <1>4, <1>6, <2>1 DEF OneCall, Stranded
  <2>6. Closing'
    BY <1>4, <1>5, <1>6, <1>9 DEF CurrentInv, OneRevoke, Closing, Stranded
  <2>7. session => Announced(p)'
    BY <2>3, <1>10 DEF CurrentInv, Stranded
  <2>8. Open # {} => p \in Open
    BY <2>3, <1>11 DEF CurrentInv, Stranded
  <2>9. Shown'
    BY <1>4, <1>5, <1>6, <2>1, <2>2, <2>7, <2>8 DEF Shown
  <2> QED
    BY <2>4, <2>5, <2>6, <2>9 DEF OneRevoke
<1> QED
  BY <1>4, <1>6, <1>7, <1>8, <1>12 DEF CurrentInv

\* A pump takes the success of the session that is there.
LEMMA PumpSuccessStep ==
    ASSUME CurrentStart, NEW p \in DOMAIN chans, PumpSuccess(p)
    PROVE  CurrentInv'
<1> USE DEF CurrentStart
<1>t. /\ session \in BOOLEAN /\ link \in BOOLEAN /\ pending \in Nat /\ handlers \in Nat
      /\ revokes \in Nat /\ chans \in Seq(Channel) /\ chans[p] \in Channel
  BY PairingAssumption DEF Inv, TypeOK
<1> DEFINE c == [chans[p] EXCEPT !.queue = <<>>, !.at = "install"]
<1>1. /\ c.queue = <<>> /\ c.open = chans[p].open /\ c.at = "install"
      /\ c.emitted = chans[p].emitted /\ chans[p].at = "read"
  BY <1>t DEF Channel, PumpSuccess
<1>2. /\ chans' = [chans EXCEPT ![p] = c] /\ cache' = [qr |-> NoCode, paired |-> TRUE]
      /\ UNCHANGED <<session, link, pending, handlers, dispatch, boot, resetting, revokes>>
  BY DEF PumpSuccess, SetPaired, counters
<1> HIDE DEF c
<1>3. /\ DOMAIN chans' = DOMAIN chans /\ Len(chans') = Len(chans) /\ chans'[p] = c
      /\ \A r \in DOMAIN chans \ {p} : /\ chans'[r] = chans[r]
                                       /\ QueueOK(r) => QueueOK(r)'
                                       /\ Waiting(r) => Waiting(r)'
                                       /\ Announced(r) => Announced(r)'
  BY <1>2, <1>t, OthersStay
<1>4. Open' = Open
  BY <1>1, <1>3 DEF Open
<1>5. session
  <2>1. chans[p].queue \in Seq(Code \union {Success})
    BY <1>t DEF Channel
  <2>2. 1 \in DOMAIN chans[p].queue /\ chans[p].queue[1] = Success
    BY <2>1 DEF PumpSuccess
  <2> QED
    BY <2>2 DEF PumpsPaired, Noticing
<1>6. \A r \in DOMAIN chans' : QueueOK(r)'
  <2>1. QueueOK(p)'
    BY <1>1, <1>3 DEF QueueOK
  <2> QED
    BY <1>3, <2>1 DEF CurrentInv
<1>7. ASSUME revokes <= 1 PROVE OneRevoke'
  <2>1. pending = 0 /\ ~resetting
    BY <1>5, <1>7, <1>t DEF CurrentInv, OneRevoke, OneCall, Stranded
  <2>2. revokes' = 0 => FirstLife'
    BY <1>1, <1>2, <1>3, <1>7 DEF CurrentInv, OneRevoke, FirstLife
  <2>3. OneCall'
    BY <1>2, <2>1 DEF OneCall
  <2>4. Closing'
    BY <1>1, <1>2, <1>3, <1>4, <1>5, <1>7 DEF CurrentInv, OneRevoke, Closing, Stranded
  <2>5. Shown'
    BY <1>2 DEF Shown
  <2> QED
    BY <2>2, <2>3, <2>4, <2>5 DEF OneRevoke
<1> QED
  BY <1>2, <1>4, <1>6, <1>7 DEF CurrentInv, QRCached

\* A pump installs the handlers of the session, or connects and ends.
LEMMA PumpEndStep ==
    ASSUME CurrentStart, NEW p \in DOMAIN chans, PumpInstall(p) \/ PumpDial(p)
    PROVE  CurrentInv'
<1> USE DEF CurrentStart
<1>t. /\ session \in BOOLEAN /\ link \in BOOLEAN /\ pending \in Nat /\ handlers \in Nat
      /\ revokes \in Nat /\ chans \in Seq(Channel) /\ chans[p] \in Channel
  BY PairingAssumption DEF Inv, TypeOK
<1>1. \E c \in Channel :
        /\ chans' = [chans EXCEPT ![p] = c] /\ c.open = chans[p].open
        /\ c.queue = chans[p].queue /\ c.emitted = chans[p].emitted
        /\ c.at \in {"dial", "done"}
  <2>1. CASE PumpInstall(p)
    <3> DEFINE c == [chans[p] EXCEPT !.at = "dial"]
    <3>1. c \in Channel
      BY <1>t, ChannelUpdates
    <3>2. chans' = [chans EXCEPT ![p] = c]
      BY <2>1 DEF PumpInstall
    <3> QED
      BY <1>t, <3>1, <3>2 DEF Channel
  <2>2. CASE PumpDial(p)
    <3> DEFINE c == [chans[p] EXCEPT !.at = "done"]
    <3>1. c \in Channel
      BY <1>t, ChannelUpdates
    <3>2. chans' = [chans EXCEPT ![p] = c]
      BY <2>2 DEF PumpDial
    <3> QED
      BY <1>t, <3>1, <3>2 DEF Channel
  <2> QED
    BY <2>1, <2>2
<1>2. PICK c \in Channel :
        /\ chans' = [chans EXCEPT ![p] = c] /\ c.open = chans[p].open
        /\ c.queue = chans[p].queue /\ c.emitted = chans[p].emitted
        /\ c.at \in {"dial", "done"}
  BY <1>1
<1>3. /\ UNCHANGED <<session, pending, cache, dispatch, boot, resetting, revokes>>
      /\ handlers' = (IF chans[p].at = "install" THEN handlers + 1 ELSE handlers)
      /\ chans[p].at \in {"install", "dial"}
  BY DEF PumpInstall, PumpDial, daemonVars, counters
<1>4. /\ DOMAIN chans' = DOMAIN chans /\ Len(chans') = Len(chans) /\ chans'[p] = c
      /\ \A r \in DOMAIN chans \ {p} : /\ chans'[r] = chans[r]
                                       /\ QueueOK(r) => QueueOK(r)'
                                       /\ Waiting(r) => Waiting(r)'
                                       /\ Announced(r) => Announced(r)'
  BY <1>2, <1>t, OthersStay
<1>5. /\ Open' = Open
      /\ \A r \in DOMAIN chans : /\ QueueOK(r) => QueueOK(r)'
                                 /\ Waiting(r) => Waiting(r)'
                                 /\ Announced(r) => Announced(r)'
                                 /\ chans'[r].queue = chans[r].queue
                                 /\ chans'[r].open = chans[r].open
                                 /\ chans'[r].emitted = chans[r].emitted
  BY <1>2, <1>4 DEF Open, QueueOK, Waiting, Announced
<1>6. session
  BY <1>3 DEF PumpsPaired, Noticing
<1>7. ASSUME revokes <= 1 PROVE OneRevoke'
  <2>1. pending = 0 /\ ~resetting
    BY <1>6, <1>7, <1>t DEF CurrentInv, OneRevoke, OneCall, Stranded
  <2>2. ASSUME revokes' = 0 PROVE FirstLife'
    <3>1. FirstLife /\ boot \notin {"start", "install", "dial"}
      BY <1>3, <1>7, <2>2 DEF CurrentInv, OneRevoke, Inv, BootOK, Silent
    <3>2. \A r \in DOMAIN chans : r = p
      BY <1>t, <3>1 DEF FirstLife
    <3> QED
      BY <1>2, <1>3, <1>4, <1>t, <3>1, <3>2 DEF FirstLife
  <2>3. OneCall'
    BY <1>3, <2>1 DEF OneCall
  <2>4. Closing'
    BY <1>3, <1>4, <1>5, <1>6, <1>7 DEF CurrentInv, OneRevoke, Closing, Stranded
  <2>5. Shown'
    BY <1>3, <1>4, <1>5, <1>7 DEF CurrentInv, OneRevoke, Shown
  <2> QED
    BY <2>2, <2>3, <2>4, <2>5 DEF OneRevoke
<1> QED
  BY <1>3, <1>4, <1>5, <1>7 DEF CurrentInv, QRCached

\* A channel emits its next code once its pump has taken the last one.
LEMMA EmitCodeStep ==
    ASSUME CurrentStart, NEW p \in DOMAIN chans, EmitCode(p)
    PROVE  CurrentInv'
<1> USE DEF CurrentStart
<1>t. /\ session \in BOOLEAN /\ link \in BOOLEAN /\ pending \in Nat /\ handlers \in Nat
      /\ revokes \in Nat /\ chans \in Seq(Channel) /\ chans[p] \in Channel
      /\ p \in 1..MaxChannels
  BY PairingAssumption DEF PairingAssumption, Inv, TypeOK
<1> DEFINE next == (chans[p].emitted % MaxCodes) + 1
           c == [chans[p] EXCEPT !.emitted = next, !.queue = <<<<p, next>>>>]
<1>1. c \in Channel /\ chans' = [chans EXCEPT ![p] = c]
  BY <1>t, NextCode DEF EmitCode
<1>2. /\ c.queue = <<<<p, c.emitted>>>> /\ c.open = chans[p].open /\ c.at = chans[p].at
      /\ chans[p].open /\ link /\ ~session
      /\ UNCHANGED <<session, link, pending, cache, handlers, dispatch, boot, resetting, revokes>>
  <2> DEFINE a == <<<<p, next>>>>
  <2> HIDE DEF next, a
  <2>1. [chans[p] EXCEPT !.emitted = next, !.queue = a].queue = a
        /\ [chans[p] EXCEPT !.emitted = next, !.queue = a].emitted = next
        /\ [chans[p] EXCEPT !.emitted = next, !.queue = a].open = chans[p].open
        /\ [chans[p] EXCEPT !.emitted = next, !.queue = a].at = chans[p].at
    BY <1>t DEF Channel
  <2> QED
    BY <2>1 DEF EmitCode, daemonVars, counters, a
<1> HIDE DEF c
<1>3. /\ DOMAIN chans' = DOMAIN chans /\ Len(chans') = Len(chans) /\ chans'[p] = c
      /\ \A r \in DOMAIN chans \ {p} : /\ chans'[r] = chans[r]
                                       /\ QueueOK(r) => QueueOK(r)'
                                       /\ Waiting(r) => Waiting(r)'
                                       /\ Announced(r) => Announced(r)'
  BY <1>1, <1>t, OthersStay
<1>4. Open' = Open /\ \A r \in DOMAIN chans : chans'[r].at = chans[r].at
  BY <1>2, <1>3 DEF Open
<1>5. QueueOK(p)' /\ Waiting(p)'
  BY <1>2, <1>3 DEF QueueOK, Waiting
<1>6. \A r \in DOMAIN chans' : QueueOK(r)'
  BY <1>3, <1>5 DEF CurrentInv
<1>7. QRCached'
  BY <1>2, <1>3, <1>5 DEF CurrentInv, QRCached
<1>8. ASSUME revokes <= 1 PROVE OneRevoke'
  <2>1. pending = 0 /\ ~resetting
    BY <1>2, <1>8, <1>t DEF CurrentInv, OneRevoke, OneCall, Stranded, Inv, DispatchOK
  <2>2. revokes' = 0 => FirstLife'
    BY <1>2, <1>3, <1>4, <1>8 DEF CurrentInv, OneRevoke, FirstLife
  <2>3. OneCall'
    BY <1>2, <2>1 DEF OneCall
  <2>4. Closing'
    BY <1>2, <1>3, <1>4, <1>8 DEF CurrentInv, OneRevoke, Closing, Stranded
  <2>5. Shown'
    BY <1>2, <1>3, <1>4, <1>8 DEF CurrentInv, OneRevoke, Shown
  <2> QED
    BY <2>2, <2>3, <2>4, <2>5 DEF OneRevoke
<1> QED
  BY <1>2, <1>4, <1>6, <1>7, <1>8 DEF CurrentInv

\* The codes run out: every channel closes and the device is stranded.
LEMMA TimeoutStep ==
    ASSUME CurrentStart, Timeout
    PROVE  CurrentInv'
<1> USE DEF CurrentStart
<1>t. /\ session \in BOOLEAN /\ link \in BOOLEAN /\ pending \in Nat /\ handlers \in Nat
      /\ revokes \in Nat /\ chans \in Seq(Channel)
      /\ \A p \in DOMAIN chans : chans[p] \in Channel
  BY PairingAssumption DEF Inv, TypeOK
<1>1. /\ link /\ ~session /\ ~link'
      /\ UNCHANGED <<session, pending, cache, handlers, dispatch, boot, resetting, revokes>>
  BY DEF Timeout, daemonVars, counters
<1>2. /\ DOMAIN chans' = DOMAIN chans
      /\ \A p \in DOMAIN chans : /\ ~chans'[p].open /\ chans'[p].queue = chans[p].queue
                                 /\ chans'[p].at = chans[p].at
                                 /\ chans'[p].emitted = chans[p].emitted
  BY <1>t DEF Timeout, Channel
<1>3. chans' \in [DOMAIN chans -> Channel]
  BY <1>t, ChannelUpdates DEF Timeout
<1>4. Len(chans') = Len(chans)
  BY <1>t, <1>3, ReplaceAllChannels
<1>5. Open' = {} /\ \A p \in DOMAIN chans : /\ QueueOK(p) => QueueOK(p)'
                                            /\ Waiting(p) => Waiting(p)'
  BY <1>2 DEF Open, QueueOK, Waiting
<1>6. ASSUME revokes <= 1 PROVE OneRevoke'
  <2>1. pending = 0 /\ ~resetting
    BY <1>1, <1>6, <1>t DEF CurrentInv, OneRevoke, OneCall, Stranded, Inv, DispatchOK
  <2>2. revokes' = 0 => FirstLife'
    BY <1>1, <1>2, <1>4, <1>6 DEF CurrentInv, OneRevoke, FirstLife
  <2>3. OneCall'
    BY <1>1, <2>1 DEF OneCall
  <2>4. Closing'
    BY <1>1, <1>5, <2>1 DEF Closing, Stranded
  <2>5. Shown'
    BY <1>1, <1>5, <1>6 DEF CurrentInv, OneRevoke, Shown
  <2> QED
    BY <2>2, <2>3, <2>4, <2>5 DEF OneRevoke
<1> QED
  BY <1>1, <1>2, <1>5, <1>6 DEF CurrentInv, QRCached

\* The phone pairs: every open channel closes with a success.
LEMMA PhonePairsStep ==
    ASSUME CurrentStart, PhonePairs
    PROVE  CurrentInv'
<1> USE DEF CurrentStart
<1>t. /\ session \in BOOLEAN /\ link \in BOOLEAN /\ pending \in Nat /\ handlers \in Nat
      /\ revokes \in Nat /\ chans \in Seq(Channel)
      /\ \A p \in DOMAIN chans : chans[p] \in Channel /\ p \in Nat \ {0}
  BY PairingAssumption DEF Inv, TypeOK
<1>1. /\ link /\ ~session /\ session' /\ Open # {}
      /\ UNCHANGED <<link, pending, cache, handlers, dispatch, boot, resetting, revokes>>
  BY DEF PhonePairs, daemonVars, counters
<1>2. /\ DOMAIN chans' = DOMAIN chans
      /\ \A p \in DOMAIN chans : /\ ~chans'[p].open
                                 /\ chans'[p].at = chans[p].at
                                 /\ chans'[p].emitted = chans[p].emitted
                                 /\ chans'[p].queue = IF chans[p].open
                                                      THEN Append(chans[p].queue, Success)
                                                      ELSE chans[p].queue
  <2>1. chans' = [p \in DOMAIN chans |->
           IF chans[p].open
           THEN [chans[p] EXCEPT !.open = FALSE, !.queue = Append(@, Success)]
           ELSE chans[p]]
    BY DEF PhonePairs
  <2>2. ASSUME NEW c \in Channel, NEW a
        PROVE  LET d == [c EXCEPT !.open = FALSE, !.queue = a] IN
               d.open = FALSE /\ d.at = c.at /\ d.emitted = c.emitted /\ d.queue = a
    BY DEF Channel
  <2>3. ASSUME NEW p \in DOMAIN chans
        PROVE  /\ ~chans'[p].open /\ chans'[p].at = chans[p].at
               /\ chans'[p].emitted = chans[p].emitted
               /\ chans'[p].queue = IF chans[p].open THEN Append(chans[p].queue, Success)
                                                     ELSE chans[p].queue
    <3> DEFINE a == Append(chans[p].queue, Success)
               d == [chans[p] EXCEPT !.open = FALSE, !.queue = a]
    <3>1. chans'[p] = IF chans[p].open THEN d ELSE chans[p]
      BY <2>1
    <3>2. d.open = FALSE /\ d.at = chans[p].at /\ d.emitted = chans[p].emitted /\ d.queue = a
      <4> HIDE DEF a
      <4> QED
        BY <1>t, <2>2
    <3> HIDE DEF d
    <3> QED
      BY <3>1, <3>2
  <2> QED
    BY <2>1, <2>3
<1>3. chans' \in [DOMAIN chans -> Channel]
  BY <1>t, ChannelUpdates DEF PhonePairs
<1>4. Len(chans') = Len(chans) /\ Open' = {}
  BY <1>t, <1>2, <1>3, ReplaceAllChannels DEF Open
<1>5. \A p \in DOMAIN chans : ~Announced(p)
  BY <1>1 DEF PumpsPaired, Noticing, Announced
<1>6. ASSUME NEW p \in DOMAIN chans
      PROVE  /\ QueueOK(p)' /\ (Waiting(p) => Waiting(p)')
             /\ chans[p].open => Announced(p)'
  <2> DEFINE c == <<p, chans[p].emitted>>
  <2>1. p \in Nat \ {0} /\ QueueOK(p)
    BY <1>t DEF CurrentInv
  <2>2. chans[p].queue \in {<<>>, <<c>>}
    BY <1>5, <2>1, AnnouncedQueues DEF QueueOK, Waiting
  <2>3. /\ Append(<<>>, Success) = <<Success>> /\ Append(<<c>>, Success) = <<c, Success>>
        /\ <<c>> # <<>> /\ <<c>> # <<Success>> /\ <<c, Success>> # <<>>
    BY <2>1, QueueShapes
  <2>4. /\ 1 \in DOMAIN <<Success>> /\ <<Success>>[1] = Success
        /\ 2 \in DOMAIN <<c, Success>> /\ <<c, Success>>[2] = Success
    OBVIOUS
  <2>5. chans'[p].emitted = chans[p].emitted
    BY <1>2
  <2>6. CASE chans[p].open
    <3>1. chans'[p].queue = Append(chans[p].queue, Success)
      BY <1>2, <2>6
    <3>2. chans'[p].queue \in {<<Success>>, <<c, Success>>}
      BY <2>2, <2>3, <3>1
    <3>3. QueueOK(p)'
      BY <2>5, <3>2 DEF QueueOK, Waiting
    <3>4. Announced(p)'
      BY <2>4, <3>2 DEF Announced
    <3>5. Waiting(p) => chans[p].queue = <<c>>
      BY <2>2, <2>3 DEF Waiting
    <3>6. Waiting(p) => Waiting(p)'
      BY <2>3, <2>5, <3>1, <3>5 DEF Waiting
    <3> QED
      BY <3>3, <3>4, <3>6
  <2>7. CASE ~chans[p].open
    BY <1>2, <2>1, <2>7 DEF QueueOK, Waiting
  <2> QED
    BY <2>6, <2>7
<1>7. ASSUME revokes <= 1 PROVE OneRevoke'
  <2>1. pending = 0 /\ ~resetting
    BY <1>1, <1>7, <1>t DEF CurrentInv, OneRevoke, OneCall, Stranded, Inv, DispatchOK
  <2>2. revokes' = 0 => FirstLife'
    BY <1>1, <1>2, <1>4, <1>7 DEF CurrentInv, OneRevoke, FirstLife
  <2>3. OneCall'
    BY <1>1, <2>1 DEF OneCall
  <2>4. Closing'
    <3>1. \A p \in DOMAIN chans : ~chans[p].open => chans[p].queue = <<>>
      BY <1>1, <1>5, <1>7 DEF CurrentInv, OneRevoke, Closing, Stranded
    <3> QED
      BY <1>2, <1>6, <3>1 DEF Closing
  <2>5. Shown'
    BY <1>1, <1>2, <1>4, <1>6, <1>7 DEF CurrentInv, OneRevoke, Shown, Open
  <2> QED
    BY <2>2, <2>3, <2>4, <2>5 DEF OneRevoke
<1> QED
  BY <1>1, <1>2, <1>4, <1>6, <1>7 DEF CurrentInv, QRCached

\* The session ends, by a reset or by the phone, with nothing under way: no code
\* or success waits, and a revocation reaches the one handler.
LEMMA SessionEndsStep ==
    ASSUME CurrentStart, EarlyEnd = FALSE, ResetLogout \/ Revoke
    PROVE  CurrentInv'
<1> USE DEF CurrentStart
<1>t. /\ session \in BOOLEAN /\ link \in BOOLEAN /\ pending \in Nat /\ handlers \in Nat
      /\ revokes \in Nat
  BY PairingAssumption DEF Inv, TypeOK
<1>1. /\ session /\ link /\ ~session' /\ ~link'
      /\ UNCHANGED <<chans, cache, handlers, dispatch, boot>>
      /\ \A p \in DOMAIN chans : ~Noticing(p)
  BY DEF ResetLogout, Revoke, daemonVars
<1>2. /\ Open' = Open /\ Open = {}
      /\ \A p \in DOMAIN chans : /\ QueueOK(p) => QueueOK(p)'
                                 /\ Waiting(p) => Waiting(p)'
                                 /\ Announced(p) => Announced(p)'
                                 /\ ~Announced(p)
  BY <1>1 DEF CurrentInv, Open, QueueOK, Waiting, Announced, Noticing
<1>3. boot # "start"
  BY <1>1 DEF Inv, BootOK
<1>4. revokes <= 1 => /\ pending = 0 /\ ~resetting /\ dispatch = "idle"
                      /\ \A p \in DOMAIN chans : chans[p].queue = <<>>
  BY <1>1, <1>2, <1>t DEF CurrentInv, OneRevoke, OneCall, Closing, Stranded, Open, Inv, DispatchOK
<1>5. CASE ResetLogout
  <2>1. pending' = pending /\ revokes' = revokes
    BY <1>5 DEF ResetLogout
  <2>2. ASSUME revokes <= 1 PROVE OneRevoke'
    BY <1>1, <1>2, <1>3, <1>4, <2>1, <2>2
       DEF CurrentInv, OneRevoke, FirstLife, OneCall, Closing, Shown, Stranded
  <2> QED
    BY <1>1, <1>2, <2>1, <2>2 DEF CurrentInv, QRCached
<1>6. CASE Revoke
  <2>1. pending' = pending + handlers /\ revokes' = revokes + 1 /\ resetting' = resetting
    BY <1>6 DEF Revoke, daemonVars
  <2>2. ASSUME revokes' <= 1 PROVE OneRevoke'
    <3>1. revokes = 0 /\ revokes' # 0 /\ revokes <= 1
      BY <1>t, <2>1, <2>2
    <3>2. pending' <= 1
      BY <1>4, <1>t, <2>1, <3>1 DEF CurrentInv, OneRevoke, FirstLife
    <3> QED
      BY <1>1, <1>2, <1>3, <1>4, <2>1, <3>1, <3>2
         DEF CurrentInv, OneRevoke, OneCall, Closing, Shown
  <2> QED
    BY <1>1, <1>2, <2>1, <2>2 DEF CurrentInv, QRCached
<1> QED
  BY <1>5, <1>6

\* Every step keeps what is known of the cache.
LEMMA CurrentStep ==
    ASSUME CurrentStart, EarlyEnd = FALSE, [Next]_vars
    PROVE  CurrentInv'
<1>1. CASE BootPaired \/ BootInstall \/ BootConnect \/ BootDial \/ ResetCache \/ LinkFlaps
           \/ LoggedOutReset \/ LoggedOutDial
  BY <1>1, SameChannelsStep
     DEF BootPaired, BootInstall, BootConnect, BootDial, ResetCache, LinkFlaps,
         LoggedOutReset, LoggedOutDial
<1>2. CASE BootQRChannel
  BY <1>2, NewChannelStep DEF BootQRChannel
<1>3. CASE LoggedOutQRChannel
  BY <1>3, NewChannelStep, RefusedChannelStep DEF LoggedOutQRChannel
<1>4. ASSUME NEW p \in DOMAIN chans, PumpSteps(p) PROVE CurrentInv'
  BY <1>4, PumpCodeStep, PumpSuccessStep, PumpEndStep DEF PumpSteps
<1>5. ASSUME NEW p \in DOMAIN chans, EmitCode(p) PROVE CurrentInv'
  BY <1>5, EmitCodeStep
<1>6. CASE Timeout \/ PhonePairs
  BY <1>6, TimeoutStep, PhonePairsStep
<1>7. CASE ResetLogout \/ Revoke
  BY <1>7, SessionEndsStep
<1>8. CASE Restart
  <2>1. chans' = <<>> /\ cache'.qr = NoCode /\ ~link' /\ boot' = "start" /\ ~resetting'
        /\ pending' = 0 /\ handlers' = 0 /\ dispatch' = "idle"
    BY <1>8 DEF Restart, Cleared
  <2>2. Open' = {} /\ DOMAIN chans' = {} /\ Len(chans') = 0
    BY <2>1 DEF Open
  <2> QED
    BY <2>1, <2>2 DEF CurrentInv, QRCached, OneRevoke, FirstLife, OneCall, Closing, Shown
<1>9. CASE UNCHANGED vars
  BY <1>9 DEF CurrentStart, CurrentInv, QueueOK, Waiting, QRCached, OneRevoke, FirstLife, OneCall,
              Closing, Shown, Announced, Stranded, Open, vars, daemonVars, counters
<1> QED
  BY <1>1, <1>2, <1>3, <1>4, <1>5, <1>6, <1>7, <1>8, <1>9
     DEF Next, RunSteps, DispatcherSteps

\* Provided no session ends before the daemon has noticed its start, the cache of
\* a daemon at rest shows what there is to show: the session up to the first
\* revocation, and a code only if it is the last one of a channel that is still
\* open, if any is.
THEOREM CacheAlwaysCurrent ==
    ASSUME EarlyEnd = FALSE
    PROVE  Spec => []CacheIsCurrent
<1>1. Init => CurrentStart
  BY InitInv, CurrentInit DEF CurrentStart, Init, PumpsPaired
<1>2. CurrentStart /\ [Next]_vars => CurrentStart'
  <2> SUFFICES ASSUME CurrentStart, [Next]_vars PROVE CurrentStart'
    OBVIOUS
  <2>1. Inv'
    BY InvStep DEF CurrentStart
  <2>2. PumpsPaired'
    <3>1. CASE Next
      BY <3>1, PumpsPairedStep DEF CurrentStart
    <3>2. CASE UNCHANGED vars
      BY <3>2 DEF CurrentStart, PumpsPaired, Noticing, vars
    <3> QED
      BY <3>1, <3>2
  <2> QED
    BY <2>1, <2>2, CurrentStep DEF CurrentStart
<1>3. CurrentStart => CacheIsCurrent
  <2> SUFFICES ASSUME CurrentStart, Quiescent PROVE CacheIsCurrent
    BY DEF CacheIsCurrent, PairedIsShown, QRIsLatest
  <2>1. /\ boot = "run"
        /\ \A p \in DOMAIN chans : chans[p].queue = <<>> /\ ~Announced(p) /\ ~Waiting(p)
    BY QueueShapes DEF Quiescent, Announced, Noticing, Waiting
  <2>2. session /\ revokes <= 1 => cache.paired
    BY <2>1 DEF CurrentStart, CurrentInv, OneRevoke, Shown
  <2>3. cache.qr # NoCode => /\ cache.qr[2] = chans[cache.qr[1]].emitted
                             /\ Open # {} /\ revokes <= 1 => cache.qr[1] \in Open
    BY <2>1 DEF CurrentStart, CurrentInv, QRCached, OneRevoke, Shown
  <2> QED
    BY <2>2, <2>3 DEF CacheIsCurrent, PairedIsShown, QRIsLatest
<1> QED
  BY <1>1, <1>2, <1>3, PTL DEF Spec

-------------------------------------------------------------------------------
(* pairing_status, whose reads any step of Pairing may separate.           *)

\* A device that is connected during a call has been seen so.  A session that begins
\* after the connection was read began with the connection up.
StatusInv ==
    /\ status.at # "idle" => status.reply.state = "none"
    /\ status.at # "idle" /\ Connected => saw
    /\ status.at = "identity" /\ session => saw
    /\ status.at = "fields" => saw
    /\ ReadyIsTrue

\* A session begins only with the connection up.
LEMMA SessionsBeginConnected == Next /\ session' /\ ~session => link'
<1>1. CASE RunSteps \/ DispatcherSteps
  BY <1>1 DEF RunSteps, BootPaired, BootInstall, BootConnect, BootQRChannel, BootDial,
              DispatcherSteps, LoggedOutReset, LoggedOutQRChannel, LoggedOutDial
<1>2. CASE \E p \in DOMAIN chans : PumpSteps(p) \/ EmitCode(p)
  BY <1>2 DEF PumpSteps, PumpCode, PumpSuccess, PumpInstall, PumpDial, EmitCode
<1>3. CASE PhonePairs
  BY <1>3 DEF PhonePairs
<1>4. CASE ResetLogout \/ ResetCache \/ Timeout \/ Revoke \/ LinkFlaps \/ Restart
  BY <1>4 DEF ResetLogout, ResetCache, Timeout, Revoke, LinkFlaps, Restart
<1> QED
  BY <1>1, <1>2, <1>3, <1>4 DEF Next

\* A ready reply is true of a moment of its call, whatever pairings, revocations,
\* resets and connection losses come between the three reads.
THEOREM ReadyAlwaysTrue == StatusSpec => []ReadyIsTrue
<1> USE DEF Goto, Return, NoReply, ReadyIsTrue
<1>1. Init /\ StatusInit => StatusInv
  BY DEF StatusInit, StatusInv
<1>2. StatusInv /\ [StatusNext]_allVars => StatusInv'
  <2> SUFFICES ASSUME StatusInv, [StatusNext]_allVars
               PROVE  StatusInv'
    OBVIOUS
  <2>1. CASE ReadPaired
    BY <2>1 DEF StatusInv, ReadPaired, Connected, vars
  <2>2. CASE ReadConnected
    BY <2>2 DEF StatusInv, ReadConnected, Connected, vars
  <2>3. CASE CheckIdentity
    BY <2>3 DEF StatusInv, CheckIdentity, Connected, vars
  <2>4. CASE UseIdentity
    BY <2>4 DEF StatusInv, UseIdentity, Connected, vars
  <2>5. CASE CheckQR
    BY <2>5 DEF StatusInv, CheckQR, Connected, vars
  <2>6. CASE ReadPayload
    BY <2>6 DEF StatusInv, ReadPayload, Connected, vars
  <2>7. CASE PairingStep
    BY <2>7, SessionsBeginConnected DEF StatusInv, PairingStep, Connected
  <2>8. CASE UNCHANGED allVars
    BY <2>8 DEF StatusInv, Connected, allVars, statusVars, vars
  <2> QED
    BY <2>1, <2>2, <2>3, <2>4, <2>5, <2>6, <2>7, <2>8 DEF StatusNext, StatusSteps
<1>3. StatusInv => ReadyIsTrue
  BY DEF StatusInv
<1> QED
  BY <1>1, <1>2, <1>3, PTL DEF StatusSpec

===============================================================================
