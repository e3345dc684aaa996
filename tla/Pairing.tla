-------------------------------- MODULE Pairing -------------------------------
(***************************************************************************)
(* The daemon's pairing state machine: internal/daemon/server.go and       *)
(* pair_cache.go, the production driver of cmd/whatsapp-mcp and the        *)
(* connection guards of internal/client.  Four kinds of goroutine share    *)
(* the pair cache and the WhatsApp client:                                 *)
(*   Run            boots the driver;                                      *)
(*   the dispatcher calls the LoggedOut handlers, one after the other;     *)
(*   a pump         per QR channel reads its items and, on success,        *)
(*                  installs the handlers of the new session;              *)
(*   POST /pair/reset logs the device out.                                 *)
(* The WhatsApp library and the phone are external: they emit codes, pair, *)
(* revoke the session and lose the connection.                             *)
(***************************************************************************)
EXTENDS Naturals, Sequences, FiniteSets

CONSTANTS
    MaxRevokes, MaxResets, MaxRestarts,  \* bounds on the environment
    MaxCodes,    \* codes of a channel told apart, later ones repeat their names
    MaxChannels, \* bound: QR channels a daemon opens
    DialFails,   \* the connection may fail to come up
    CodesRunOut, \* the phone may leave the codes unscanned until they end
    EarlyEnd     \* a session may end before the daemon has noticed its start

ASSUME PairingAssumption ==
    /\ MaxRevokes \in Nat /\ MaxResets \in Nat /\ MaxRestarts \in Nat
    /\ MaxCodes \in Nat \ {0} /\ MaxChannels \in Nat \ {0}
    /\ DialFails \in BOOLEAN /\ CodesRunOut \in BOOLEAN /\ EarlyEnd \in BOOLEAN

VARIABLES
    session,    \* the device store holds an identity; survives a restart
    link,       \* the websocket is up
    chans,      \* the QR channels opened so far, each with its pump
    cache,      \* PairCache: the code to show, and the paired flag
    handlers,   \* LoggedOut handlers installed, none is ever removed
    pending,    \* calls of handlers for LoggedOut events not yet finished
    dispatch,   \* where the running handler is
    boot,       \* where Run is
    resetting,  \* a reset has logged out and not yet cleared the cache
    revokes, resets, restarts   \* counters of the bounds

daemonVars == <<cache, handlers, dispatch, boot, resetting>>
counters == <<revokes, resets, restarts>>
vars == <<session, link, chans, pending, daemonVars, counters>>

\* An item of a QR channel: a code, named by its channel and its number, or
\* the success that ends the pairing.
Code == (1..MaxChannels) \X (1..MaxCodes)
NoCode == <<0, 0>>
Success == <<0, 1>>

Channel == [open : BOOLEAN, emitted : 0..MaxCodes,
            queue : Seq(Code \union {Success}), at : {"read", "install", "dial", "done"}]
NewChannel == [open |-> TRUE, emitted |-> 0, queue |-> <<>>, at |-> "read"]

Open == {p \in DOMAIN chans : chans[p].open}

\* Bug: a cached code is not replaced by the next one.
SetFirstQR(code) ==
    cache' = [qr |-> IF cache.qr = NoCode THEN code ELSE cache.qr, paired |-> FALSE]

\* PairCache.SetQR, SetPaired and Reset.
SetQR(code) == cache' = [qr |-> code, paired |-> FALSE]
SetPaired == cache' = [qr |-> NoCode, paired |-> TRUE]
Cleared == [qr |-> NoCode, paired |-> FALSE]

\* Client.Connect: the guard on unpaired devices, the dial, and its result.
Dial(allowUnpaired, up) ==
    /\ up => (allowUnpaired \/ session)
    /\ ~up => (DialFails \/ ~(allowUnpaired \/ session))
    /\ link' = up

\* A pump that has not finished what a success makes it do.
Noticing(p) == Success \in {chans[p].queue[i] : i \in DOMAIN chans[p].queue}
               \/ chans[p].at \in {"install", "dial"}

-------------------------------------------------------------------------------

Init ==
    /\ session \in BOOLEAN
    /\ link = FALSE
    /\ chans = <<>>
    /\ cache = Cleared
    /\ handlers = 0 /\ pending = 0
    /\ dispatch = "idle" /\ boot = "start" /\ resetting = FALSE
    /\ revokes = 0 /\ resets = 0 /\ restarts = 0

\* bootDriver with a stored session: show the device as paired.
BootPaired ==
    /\ boot = "start" /\ session
    /\ SetPaired
    /\ boot' = "install"
    /\ UNCHANGED <<session, link, chans, pending, handlers, dispatch, resetting, counters>>

\* productionDriver.Connect: the LoggedOut and event handlers come first.
BootInstall ==
    /\ boot = "install"
    /\ handlers' = handlers + 1
    /\ boot' = "connect"
    /\ UNCHANGED <<session, link, chans, pending, cache, dispatch, resetting, counters>>

BootConnect ==
    /\ boot = "connect"
    /\ \E up \in BOOLEAN :
          /\ Dial(FALSE, up)
          /\ boot' = IF up THEN "run" ELSE "exited"
    /\ UNCHANGED <<session, chans, pending, cache, handlers, dispatch, resetting, counters>>

\* StartPairing at boot: GetQRChannel, which the library refuses on a device
\* that is connected or has a session, then the pump.
BootQRChannel ==
    /\ boot = "start" /\ ~session
    /\ chans' = Append(chans, NewChannel)
    /\ boot' = "dial"
    /\ UNCHANGED <<session, link, pending, cache, handlers, dispatch, resetting, counters>>

\* StartPairing at boot: Connect; Run returns its error and the daemon exits.
BootDial ==
    /\ boot = "dial"
    /\ \E up \in BOOLEAN :
          /\ Dial(TRUE, up)
          /\ boot' = IF up THEN "run" ELSE "exited"
    /\ UNCHANGED <<session, chans, pending, cache, handlers, dispatch, resetting, counters>>

\* Bug: the paired flag is left for the next code to clear.
LoggedOutKeepsCache ==
    /\ dispatch = "idle" /\ pending > 0
    /\ dispatch' = "qr"
    /\ UNCHANGED <<session, link, chans, pending, cache, handlers, boot, resetting, counters>>

\* Bug: the cache is reset and no pairing is started.
LoggedOutOnlyResets ==
    /\ dispatch = "idle" /\ pending > 0
    /\ cache' = Cleared
    /\ pending' = pending - 1
    /\ UNCHANGED <<session, link, chans, handlers, dispatch, boot, resetting, counters>>

\* onLoggedOut, called for a LoggedOut event: forget the session.
LoggedOutReset ==
    /\ dispatch = "idle" /\ pending > 0
    /\ cache' = Cleared
    /\ dispatch' = "qr"
    /\ UNCHANGED <<session, link, chans, pending, handlers, boot, resetting, counters>>

\* Bug: the device is connected before the QR channel is asked for.
LoggedOutNoQRChannel ==
    /\ dispatch = "qr"
    /\ dispatch' = "dial"
    /\ UNCHANGED <<session, link, chans, pending, cache, handlers, boot, resetting, counters>>

\* onLoggedOut's StartPairing: GetQRChannel; its error is dropped.
LoggedOutQRChannel ==
    /\ dispatch = "qr"
    /\ IF link \/ session
       THEN /\ dispatch' = "idle" /\ pending' = pending - 1
            /\ UNCHANGED chans
       ELSE /\ Len(chans) < MaxChannels
            /\ chans' = Append(chans, NewChannel)
            /\ dispatch' = "dial"
            /\ UNCHANGED pending
    /\ UNCHANGED <<session, link, cache, handlers, boot, resetting, counters>>

\* onLoggedOut's StartPairing: Connect; its error is dropped.
LoggedOutDial ==
    /\ dispatch = "dial"
    /\ \E up \in BOOLEAN : Dial(TRUE, up)
    /\ dispatch' = "idle" /\ pending' = pending - 1
    /\ UNCHANGED <<session, chans, cache, handlers, boot, resetting, counters>>

\* The pump of a channel takes the next code.
PumpCode(p) ==
    /\ chans[p].at = "read" /\ chans[p].queue # <<>>
    /\ Head(chans[p].queue) # Success
    /\ SetQR(Head(chans[p].queue))
    /\ chans' = [chans EXCEPT ![p] = [chans[p] EXCEPT !.queue = Tail(@)]]
    /\ UNCHANGED <<session, link, pending, handlers, dispatch, boot, resetting, counters>>

\* Bug: only the handlers of the new session are installed.
PumpSuccessUnshown(p) ==
    /\ chans[p].at = "read" /\ chans[p].queue # <<>>
    /\ Head(chans[p].queue) = Success
    /\ chans' = [chans EXCEPT ![p] = [chans[p] EXCEPT !.queue = <<>>, !.at = "install"]]
    /\ UNCHANGED <<session, link, pending, cache, handlers, dispatch, boot, resetting, counters>>

\* onPairSuccess: show the device as paired ...
PumpSuccess(p) ==
    /\ chans[p].at = "read" /\ chans[p].queue # <<>>
    /\ Head(chans[p].queue) = Success
    /\ SetPaired
    /\ chans' = [chans EXCEPT ![p] = [chans[p] EXCEPT !.queue = <<>>, !.at = "install"]]
    /\ UNCHANGED <<session, link, pending, handlers, dispatch, boot, resetting, counters>>

\* Bug: the handlers are installed only when a connection is to be made.
PumpInstallsLater(p) ==
    /\ chans[p].at = "install"
    /\ handlers' = IF link THEN handlers ELSE handlers + 1
    /\ chans' = [chans EXCEPT ![p] = [chans[p] EXCEPT !.at = "dial"]]
    /\ UNCHANGED <<session, link, pending, cache, dispatch, boot, resetting, counters>>

\* ... install the handlers of the session ...
PumpInstall(p) ==
    /\ chans[p].at = "install"
    /\ handlers' = handlers + 1
    /\ chans' = [chans EXCEPT ![p] = [chans[p] EXCEPT !.at = "dial"]]
    /\ UNCHANGED <<session, link, pending, cache, dispatch, boot, resetting, counters>>

\* ... and connect, unless the pairing left the connection up.  The pump ends.
PumpDial(p) ==
    /\ chans[p].at = "dial"
    /\ IF link THEN UNCHANGED link ELSE \E up \in BOOLEAN : Dial(FALSE, up)
    /\ chans' = [chans EXCEPT ![p] = [chans[p] EXCEPT !.at = "done"]]
    /\ UNCHANGED <<session, pending, daemonVars, counters>>

\* handlePairReset: Logout, which the library refuses without a session and a
\* connection, and which emits no LoggedOut event.
ResetLogout ==
    /\ boot # "exited" /\ ~resetting
    /\ session /\ link
    /\ EarlyEnd \/ \A p \in DOMAIN chans : ~Noticing(p)
    /\ resets < MaxResets /\ resets' = resets + 1
    /\ session' = FALSE /\ link' = FALSE
    /\ resetting' = TRUE
    /\ UNCHANGED <<chans, pending, cache, handlers, dispatch, boot, revokes, restarts>>

\* Bug: a reset counts as the call of a LoggedOut handler.
ResetCacheAsLoggedOut ==
    /\ resetting
    /\ cache' = Cleared
    /\ pending' = pending - 1
    /\ resetting' = FALSE
    /\ UNCHANGED <<session, link, chans, handlers, dispatch, boot, counters>>

\* handlePairReset after the logout.
ResetCache ==
    /\ resetting
    /\ cache' = Cleared
    /\ resetting' = FALSE
    /\ UNCHANGED <<session, link, chans, pending, handlers, dispatch, boot, counters>>

-------------------------------------------------------------------------------

\* The library rotates the code of a channel; a code no pump has taken yet
\* keeps the next one back.
EmitCode(p) ==
    /\ link /\ ~session
    /\ chans[p].open /\ chans[p].queue = <<>>
    /\ LET next == (chans[p].emitted % MaxCodes) + 1 IN
       chans' = [chans EXCEPT ![p] =
                    [chans[p] EXCEPT !.emitted = next, !.queue = <<<<p, next>>>>]]
    /\ UNCHANGED <<session, link, pending, daemonVars, counters>>

\* The codes are used up or the connection is lost while pairing: the library
\* disconnects and closes its channels.
Timeout ==
    /\ CodesRunOut
    /\ link /\ ~session
    /\ link' = FALSE
    /\ chans' = [p \in DOMAIN chans |-> [chans[p] EXCEPT !.open = FALSE]]
    /\ UNCHANGED <<session, pending, daemonVars, counters>>

\* The phone scans a code, or takes the code of /pair/code: the identity is
\* stored, and every open channel delivers the success and is closed.
PhonePairs ==
    /\ link /\ ~session
    /\ \E p \in Open : chans[p].emitted > 0
    /\ session' = TRUE
    /\ chans' = [p \in DOMAIN chans |->
           IF chans[p].open
           THEN [chans[p] EXCEPT !.open = FALSE, !.queue = Append(@, Success)]
           ELSE chans[p]]
    /\ UNCHANGED <<link, pending, daemonVars, counters>>

\* The phone revokes the session: the connection ends, the identity is
\* deleted, and LoggedOut goes to the handlers installed by then.
Revoke ==
    /\ session /\ link
    /\ EarlyEnd \/ \A p \in DOMAIN chans : ~Noticing(p)
    /\ revokes < MaxRevokes /\ revokes' = revokes + 1
    /\ session' = FALSE /\ link' = FALSE
    /\ pending' = pending + handlers
    /\ UNCHANGED <<chans, daemonVars, resets, restarts>>

\* The connection of a paired device is lost, and comes back by itself.
LinkFlaps ==
    /\ session /\ boot = "run"
    /\ link' = ~link
    /\ UNCHANGED <<session, chans, pending, daemonVars, counters>>

\* The daemon crashes, is stopped or has exited, and is started again.
Restart ==
    /\ restarts < MaxRestarts /\ restarts' = restarts + 1
    /\ link' = FALSE /\ chans' = <<>> /\ cache' = Cleared
    /\ handlers' = 0 /\ pending' = 0 /\ dispatch' = "idle"
    /\ boot' = "start" /\ resetting' = FALSE
    /\ UNCHANGED <<session, revokes, resets>>

RunSteps == BootPaired \/ BootInstall \/ BootConnect \/ BootQRChannel \/ BootDial
DispatcherSteps == LoggedOutReset \/ LoggedOutQRChannel \/ LoggedOutDial
PumpSteps(p) == PumpCode(p) \/ PumpSuccess(p) \/ PumpInstall(p) \/ PumpDial(p)

Next ==
    \/ RunSteps
    \/ DispatcherSteps
    \/ \E p \in DOMAIN chans : PumpSteps(p)
    \/ ResetLogout
    \/ ResetCache
    \/ \E p \in DOMAIN chans : EmitCode(p)
    \/ Timeout
    \/ PhonePairs
    \/ Revoke
    \/ LinkFlaps
    \/ Restart

Spec == Init /\ [][Next]_vars

\* The goroutines of the daemon are scheduled, and the library keeps rotating
\* the codes of an open channel; the phone, the user and the network owe nothing.
Fairness ==
    /\ WF_vars(RunSteps)
    /\ WF_vars(DispatcherSteps)
    /\ \A p \in 1..MaxChannels :
          /\ WF_vars(p \in DOMAIN chans /\ PumpSteps(p))
          /\ WF_vars(p \in DOMAIN chans /\ EmitCode(p))
    /\ WF_vars(ResetCache)

FairSpec == Spec /\ Fairness

-------------------------------------------------------------------------------

TypeOK ==
    /\ session \in BOOLEAN /\ link \in BOOLEAN
    /\ chans \in Seq(Channel) /\ Len(chans) <= MaxChannels
    /\ cache \in [qr : Code \union {NoCode}, paired : BOOLEAN]
    /\ handlers \in Nat /\ pending \in Nat
    /\ dispatch \in {"idle", "qr", "dial"}
    /\ boot \in {"start", "install", "connect", "dial", "run", "exited"}
    /\ resetting \in BOOLEAN
    /\ revokes \in 0..MaxRevokes /\ resets \in 0..MaxResets
    /\ restarts \in 0..MaxRestarts

\* No goroutine of the daemon has anything left to do.
Quiescent ==
    /\ boot = "run" /\ pending = 0 /\ ~resetting
    /\ \A p \in DOMAIN chans : chans[p].queue = <<>> /\ ~Noticing(p)

\* "Paired reports whether the device is currently paired" (pair_cache.go:49):
\* once the goroutines that revocations, resets and pairings set off are done,
\* in whatever order they ran, the flag claims no session that is gone.
PairedIsTrue == Quiescent /\ cache.paired => session

\* The other half of that comment: a paired device is also shown as paired.
\* From the second revocation on this may fail: every pairing adds a handler,
\* each LoggedOut event then resets the cache once per handler, and the last
\* reset may come after the device has been paired again.
PairedIsShown == Quiescent /\ session /\ revokes <= 1 => cache.paired

\* "Connect AFTER QRChannel" (production_driver.go:40): an unpaired device that
\* is connected has a pump listening, so no pairing by the phone goes unheard.
PairingIsHeard == link /\ ~session => Open # {}

\* "install the LoggedOut handler" (server.go:163): a paired device that the
\* daemon has come to rest with would hear of its revocation.
RevocationIsHeard == Quiescent /\ session => handlers > 0

\* "QR returns the latest cached pairing code" (pair_cache.go:56): at rest, a
\* cached code is the one its channel emitted last; up to the first
\* revocation it is also no dead channel's while another waits for a phone.
QRIsLatest ==
    Quiescent /\ cache.qr # NoCode =>
        LET p == cache.qr[1] IN
        /\ cache.qr[2] = chans[p].emitted
        /\ Open # {} /\ revokes <= 1 => p \in Open

\* What the page and pairing_status show is about the device as it is now.
CacheIsCurrent == PairedIsShown /\ QRIsLatest

\* "Flips the cache to unpaired and kicks the pairing flow back up"
\* (server.go:175): a device that lost its session to the phone, or starts
\* without one, gets a code to scan unless it is paired before that.
RevokedShowsQR == ~session ~> cache.qr # NoCode \/ session

===============================================================================
