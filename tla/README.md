# Verification of whatsapp-mcp

TLA+ models of the daemon that bridges WhatsApp and MCP clients, checked with
TLC on small instances and, where it matters most, proved with TLAPS for every
value of the constants. Paths below are relative to the repository.

## 1. Inventory

| Part | State | Operations | What must hold |
|---|---|---|---|
| Outbound rate limiter `internal/ratelimit` | three sliding windows, time of the last send | `AllowSend`, `AllowUsync` | caps per trailing hour and minute, floors between sends, exact decisions, honest `RetryAfter` |
| Outbound tool calls `internal/client/send.go`, `features*.go` | locals of each call; the limiter, the store, the connection are shared | send, polls, contact cards, replies, reactions, edits, revokes, votes | every throttled message is paid for once; cold outreach stays within its cap; the history shows what was sent |
| Pairing state machine `internal/daemon/server.go`, `pair_cache.go`, `cmd/whatsapp-mcp/production_driver.go`, `internal/client/client.go` | pair cache (code, flag), LoggedOut handlers, QR channels and their pumps, boot progress | boot, code, pair success, revocation, reset, restart | the flag agrees with the device, no pairing or revocation goes unheard, an unpaired device gets a code |
| `pairing_status` tool `internal/mcp/tools_query.go` | none; unlocked reads of cache, connection, device store | poll | `ready` is never a lie |
| Pairing web page `internal/daemon/pair_handler.go`, `ratelimit.go` | one CSRF token, four token buckets; in the browsers, tabs and forms under way | page, QR image, reset, phone code, the page's own refresh | a form that was served works, once; the limits stop a flood and not a viewer; `Retry-After` is honest |
| Message store `internal/store` | chats, messages, poll options, votes; LID map of the library | upserts, poll tallies, anchors, context windows | later events do not destroy what earlier ones stored; one vote per voter |
| Event handlers and history sync `internal/client/events.go`, `history.go` | none of their own | live messages, votes, bulk history, history requests | the same in any order of arrival |
| Store queries `internal/store/queries.go` | none | pages of messages and chats, context windows | a reader misses nothing that was there and stayed in place, whatever arrives meanwhile |
| History requests `internal/client/history.go` | none; the cached rows are the cursor | anchor, request, batch | walking back leaves no hole of its own |
| Media download `internal/client/download.go` | a cache file per message, temporary files, output files | validate, fetch, replace, link or copy, read back | a caller gets its message's bytes; no torn or stray file; a file of the user is kept |
| Group participants `internal/client/features_groups.go` | none; one call spans several requests | add, remove, promote, demote, invite | the report is true of what WhatsApp did; invites are paid for |
| MCP tools `internal/mcp/tools_*.go` over `features_*.go` | the account at WhatsApp and the cache | 42 tools, each one client method | read-only, destructive and idempotent hints and promised ways back are true |
| Store lock, serve, shutdown `internal/store/lock*.go`, `cmd/whatsapp-mcp` | a lock file | acquire, release | one daemon per store |
| HTTP server, results, media conversion, vCards, path guard, redactor | none | pass-through or pure functions on strings and bytes | - |

Interaction: MCP tool calls run concurrently in the HTTP server's goroutines and
share one `Client`, one limiter and one store. The WhatsApp library calls the
daemon back from its event goroutine (messages, history, LoggedOut) and feeds
one channel of QR items per pairing. The daemon's `Run`, those callbacks, the
pumps and `POST /pair/reset` all write the pair cache, which `pairing_status`
and the page read.

What is hard here: several goroutines writing one cache in any order; a session
that ends while its start is still being noticed; handlers that accumulate; a
restart that forgets everything except the session; classification, admission,
send and cache row of a message as separate steps; window boundaries in the
limiter; replies attributed to people who have two addresses; files shared by
concurrent calls through hard links; queries in several statements over tables
that grow; calls repeated because an answer was lost. `PROJECT.json` lists each
hazard at its line.

## 2. Modules and how they correspond to the code

**SendBudget** is what the comments of `ratelimit.Config` promise, told with the
complete history of admitted calls: `Admit` and `LookUp` are possible when the
history leaves room. `Capped` asks the caps of *every* trailing window, not only
of the current one.

**RateLimiter** is `ratelimit.go`. `AllowSend` holds the mutex throughout, so it
is one step, split by result into `AdmitSend` and `DenySend`; likewise
`AllowUsync`. A window is a set of entries with a time and an identity: the
slices are in append order, which is the order of time. The order of the checks
shows in `SendRetryAt`, which is `RetryAfter` in absolute time. The variable
`retry` records, in absolute time, what the last denied caller of each kind
was told. `PROPERTY ImplementsSendBudget` is the refinement: the two modules
share the history variables, so the mapping is the identity.

**OutboundSend** composes concurrent tool calls with `SendBudget`, which stands
for the limiter. Each
call goes through the steps of `Client.send`: connection check (`NotConnected`,
`Begin`), `IsKnownContact`, `AllowSend` or `RefuseSend`, wire (`FailSend`,
`SendMessage`), `PersistSent`. `tool` tells the families apart: "send" is
throttled and persisted (also group invites), "poll" is not throttled but
persisted (`SendPoll`, `SendContactCard`), "reply" is neither. `Receive` is what
`handleMessage` changes for the classification: it stores under the number
behind a LID (`NumberOf`) when the table has it, else under the LID, while
`IsKnownContact` asks for the address as typed. `cold` remembers the admissions
to people who had not written under any address. The connection is not a
variable: the code reads it once, at the start of a call, so finding it up or
down is a free choice.

**LimitedSend** is the calls of OutboundSend against RateLimiter's windows:
`checkSendRate` calls `AllowSend`, which decides and records under one mutex
(`CheckAllows`, `CheckDenies`); the other steps are OutboundSend's own. It
implements OutboundSend (`ImplementsOutboundSend`), again with the history
variables shared.

**Pairing** is the pairing state machine.

| Model | Code |
|---|---|
| `session` | `Store.ID` of the device store, on disk |
| `link` | the websocket |
| `chans[p]` | a QR channel (`open`, items in `queue`) and the pump goroutine of `StartPairing` (`at`) |
| `cache`, `SetQR`, `SetPaired`, `Cleared` | `PairCache` and its methods |
| `handlers`, `pending`, `dispatch` | LoggedOut handlers installed, handler calls outstanding, and where the running one is |
| `boot`, `Boot*` | `Run`, `bootDriver`, the driver's `Connect` and `StartPairing` |
| `LoggedOut*` | `onLoggedOut`: reset the cache, ask for a QR channel, dial |
| `Pump*` | code, success, and the `Connect` that installs the handlers |
| `ResetLogout`, `ResetCache` | `handlePairReset` |
| `EmitCode`, `Timeout`, `PhonePairs`, `Revoke`, `LinkFlaps` | the WhatsApp library and the phone, external |

The external behaviour is what the code relies on or its comments say: codes
rotate while connected and unpaired; a pairing stores the identity, delivers a
success to every open channel and closes it; a channel is refused on a device
that is connected or paired; the library's `Logout` needs a session and a
connection and emits no LoggedOut event; LoggedOut runs the handlers one after
the other. A bounded queue stands for the channel: the library does not emit
the next code before the pump has taken the last one.

**PairingStatus** adds the reads of the `pairing_status` tool, one action per
read, to that machine. `saw` remembers whether the device was paired and
connected during the call.

**MessageStore** is the message cache with its writers. Each statement of
`internal/store` is one step, because nothing wraps several in a transaction;
between two statements of a writer the others run.

| Model | Code |
|---|---|
| `chats`, `rows`, `votes` | the tables of `messages.db`, keyed as their primary keys are |
| `live`, `Handle*` | the event goroutine in `handleMessage` and `handlePollVote` |
| `sync`, `Sync*` | `handleHistorySync`, conversation by conversation, message by message |
| `calls`, `Sent*` | `persistSent` after a successful send, and the options of `SendPoll` |
| `ResolveChat`, `ResolveSender` | `ResolveLIDToJID`: chats of persons are resolved, groups are not; a resolved sender loses its device, any other keeps it |
| `heard`, `tallied` | history variables |

Events are delivered in any order and any number of times. A failing statement
is an outcome of every write (`Outcome`); a foreign key makes a message fail
when its chat has no row. The library's table of known LIDs is constant. A
message id belongs to one message (`IdAssumption`), as WhatsApp's do; `NoChat`
is the time of a chat without a row.

**GroupUpdate** is one call of `UpdateGroupParticipants`. `Begin` is
`GetGroupInfo` and `planParticipantChange`; a batch is one request
(`RequestAnswered`, `RequestFails`), its reply is recorded entry by entry
(`Unanswered`, `Answered`, `Invite`), and `OthersChange` is another admin. The
entries of a batch and of its reply are told by their place in the caller's
list, so a batch is a set of places and a loop takes its least.
`role` is the group at WhatsApp; `changed` remembers what WhatsApp did for the
call, which the code never sees. A person has a number and a LID; `facts` says
which the group shows and which mapping the daemon knows. External, as the code
and its comments rely on it: WhatsApp decides once about a person named twice
in a request, checks the user's rights itself, and outside LID-addressed groups
names people in its reply by the address it was asked for, too. A request may be
served although its answer is lost.

**MediaFile** is the promise of `Client.Download` about one message's cached
copy: it appears whole in one step, and a caller is given it only after it was
seen whole. **Download** is the code, one step per file operation: look at
the output path, validate the cache file, fetch, temporary file, rename, hard
link or copy, read back. A file's content is a message's bytes, a part of
them, the user's, or nothing. `from` makes hard links: what is written through
one name changes under all, and a rename takes the name only. `MF` is the
refinement mapping: a cache file that is neither missing nor its message's
is damaged, and a call's program counter is mapped to asked, found or returned.

**PairPage** is the pairing page in several tabs: the handlers of
`pair_handler.go`, the CSRF token, the token buckets and the browser's refresh.
A bucket is counted in the units that one second refills, so the fractions of
`ratelimit.go` are exact. A token is the last one minted or matches nothing.
`wait` counts down the `Retry-After` of the last refusal. Both form handlers
charge their bucket before they look at the token; an error page does not
refresh. `RatesAssumption` is what the rates of `newPairHandlers` have in
common.

**CacheReads** is reading the cache while it fills: `list_messages` and
`list_chats` page by page, the latter in its two orders, `get_message_context`
in its three statements, and `request_sync` walking a chat back. `history` is
what WhatsApp holds, `chats` and `rows` are the tables. A message comes in any
order, late or again (`Arrive`), or is sent (`Send`): first the row of its chat
is replaced, its name and its time (`StoreChat`), then its own is stored. Either
write may fail, and each is a step of its own. `Answer` delivers the messages
before an anchor, perhaps again, perhaps never; `StoreNext` is one turn of the
loop of `handleHistorySync`, which goes on when a write fails, or the last write
of a message that came by itself. What WhatsApp sends unasked when a device is
linked comes like `Arrive`; live messages and sends are handled one at a time,
concurrently with a batch. `heard` remembers the rows that came by themselves,
`lost` the messages of a batch whose write failed, and `still` the chats that
have stayed in place since a listing began (`InPlace`). The messages of a
history are of its chat and have ids of their own, and a chat has the names of
`NamesOf` (`ReadConstants`). No statement orders rows of the same key, so
`Newest` and `Oldest` are sets of possible answers. Messages are never deleted
and one seen again is replaced by itself.

**Account** says what each client method does to the account and the cache, as
an operator from an account to its possible outcomes, the lost answer included.
**Tools** has one definition per registered tool: its hints, the tests of its
handler, the method it calls, and the tools its description names as the way
back. Properties quantify over every call that could be made next.
`update_group_participants` is GroupUpdate's, the admission of sends
OutboundSend's.

| Module | State and its code |
|---|---|
| GroupUpdate | `call`: locals of the call; `spent`: `checkSendRate`; `invites`: invite messages on the wire |
| Download | `cache`: `<chat dir>/<file>`; `temp`: `os.CreateTemp`; `output`: `output_path`; `call`: locals |
| PairPage | `csrf`: `csrfToken`; `level`: `Limiter.tokens`; `tab`, `post`: browsers |
| CacheReads | `chats`, `rows`: the tables; `left`: what a message that came by itself, and a batch, have yet to store; `reading`: a tool call, or a client that pages |
| Tools | `account`: WhatsApp's side and what the cache adds to it |

The modules whose names end with Proofs hold the theorems: **SendProofs** (of
SendBudget, RateLimiter, OutboundSend and LimitedSend), **PairingProofs**
(PairingStatus's, too), **MessageStoreProofs**, **GroupUpdateProofs**,
**DownloadProofs**, **PairPageProofs**, **CacheReadsProofs** and
**ToolsProofs**. Those whose names begin with MC hold the model values of the
runs that need more than numbers. Operators commented "Bug:" next to an action
are mutated forms of it; no specification uses them, they serve to confirm that
a property notices such a mistake.

## 3. Runs

| Run | Result | Question |
|---|---|---|
| RateLimiter | passes | are decisions exact, promises kept, `RetryAfter` no overstatement; is SendBudget implemented |
| LimitedSend | passes | are concurrent calls admitted as the history would have it; what do they pay, and what do the wire and cold recipients see |
| Pairing | passes | is the cache right when the goroutines rest, are pairings and revocations heard |
| PairingLive | passes | does an unpaired device get a code |
| PairingStatus | passes | is `ready` true of one moment of the call |
| MessageStore | passes | whichever way events, histories and sends interleave: is each voter's latest vote the one that counts, can nobody be locked out by a clock that is ahead, do polls keep their options, does a person have one chat |
| StoreDevices | violated | does a person who votes from two devices count once (`poll.go:73`)? No: the voter key keeps the device |
| GroupUpdate | passes | is what the caller is told true, whichever requests fail, answers are lost and addresses the reply uses; do invites carry their person's code, and are they paid for |
| Download | passes | is MediaFile implemented; does each caller read its own bytes; is what stays on disk sound and what was there kept |
| PairPage | passes | do refreshing tabs stay alive, does waiting `Retry-After` help, does a form work exactly once unless something was there before it |
| CacheReads | passes | does paging skip a row or a chat that stays in place, has a context a gap, does walking back leave a hole that no failed write explains |
| Tools | passes | are the declared hints and the promised ways back true of every tool in every account two calls lead to |

Bounds, all named constants. `Horizon` ends the clock; with an hour of three
ticks and five ticks in all, each window fills, slides and fills again, and
entries exactly a window old occur. `Hour` and `Minute` are ticks, so the caps
are small numbers too; the theorems cover all values. Three calls in LimitedSend
let two compete for the last slot while a third is between admission and wire;
`MaxDelay` bounds that delay, since without any bound the wire promises nothing.
A person with a LID and a group are addressed; polls take the steps of a send
under the operator's override. In Pairing two revocations, a reset and a restart
suffice for the second LoggedOut event with two handlers, where the interesting
orders begin; `MaxChannels` is larger than the number of channels those can
open, so it never keeps a handler waiting in PairingLive. `MaxCodes` repeats
code names beyond two. In MessageStore two times order any two events, and a
vote may claim one beyond; every event can be repeated without bound. `ann` has
a known LID and votes under both addresses, `bob` has none and votes under one:
a person with two keys is the subject of StoreDevices. In GroupUpdate every pair
of addresses of two people is asked for in every combination of what the group
shows and the daemon knows; one change by others suffices to make the plan
stale. Adds and removes cover every branch: promoting and demoting take the
paths of removing. The paired user's own addresses are shown and known. In
Download two calls run again and again on two messages and an output on each
device, so that a file is validated, linked, replaced and read in every order;
`MaxTrouble` allows one crash or one change by the user, and several at once
only damage more files. PairPage has the real rates and bursts of the page and
its image (a token each four seconds, bursts of 5 and 10, a refresh each five
seconds); the minute of a reset and the 20 seconds of a code are 2 and 1, since
only their order to the other steps matters. `MaxOpens` bounds loads by hand and
by a form. CacheReads has a chat of three messages and a chat of one that shares
an id, whose name lies between the two the first may have, so that chats change
places in both orders; or one chat whose messages are of one second, one of them
without content. Pages and contexts are of one or two rows, batches of two.
`MaxHeard` lets two rows come without a request, so that one may be the anchor
of a walk and the other lie in its way. Tools explores two steps
before the call it examines and the one that repeats or undoes it. Deadlock is
checked for the limiter; the other models stop when calls have returned, the
daemon has exited or a bound is reached.

Three switches describe the environment. `DialFails` and `CodesRunOut` are off
only in runs that ask for liveness or blame one cause. `EarlyEnd` allows a
session to end before the pump has noticed its start. `PairedIsTrue` needs it
off: with it on, the flag stays set when a revocation precedes the handler that
would hear it (`server.go:161`), and nothing corrects it. `ready` is checked
with it on, and stays true because the tool does not trust the flag.
`CacheIsCurrent` (`PairedIsShown` and the second part of `QRIsLatest`) is stated
up to the first revocation for a reason: handlers accumulate
(`production_driver.go:45`), each LoggedOut event resets the cache once per
handler, and the last reset may come after the device has been paired again.

Some properties say less than one might wish, because the code does. If two tabs
refresh and the user reloads by hand, the bucket may run dry and every tab end
on the page that does not refresh: `SomePageLives` asks for one load per tab. A
form is refused once a later page was loaded, since there is one token:
`RefusalsHaveACause` says nothing else refuses it. Rows of one time have no
order in a query, so a page boundary between them may hide one:
`PagingSkipsNothing` asks for messages alone in their time. Of `list_chats` only
the order by name can be relied on: while no chat is renamed, a client that
pages to the end has seen every chat that was there and has a name of its own.
Under the default order, `last_active`, a chat of a later page that gets a
message moves to a page already read and is never seen; and a chat that a late
event or an old history moves back pushes the ones after it up, one of them past
the page reached. Neither kind of chat is promised anything: only one that keeps
its key, that none ties with and that no chat before it falls behind is seen.
`WalkLeavesNoHole` leaves out two holes. A batch whose write of one row
fails goes on with the older ones, and the oldest anchor, which looks only down
from them, never asks for the lost one again. And the gap between a row that
came by itself and the next one below is what the daemon missed while it was
away, not what walking back left. `DiskIsSound`
leaves out outputs on another device, where a failed copy stays. `RepeatsSettle`
leaves out `request_sync`, and `UndoneAsPromised` `send_reply` and
`send_poll_vote`, for the findings below.

Fairness (PairingLive): weak fairness of `Run`, of the dispatcher, of each pump
and of the reset handler, which are goroutines that no lock keeps from
running, and of the code rotation of an open channel, which is the library's
timer. Nothing is assumed of the phone, the user or the network; failing dials
are excluded, because `onLoggedOut` drops the error and nothing retries.

## 4. Proofs

Every invariant and action property of the runs is a theorem too, for all values
of the constants. The properties themselves are seldom inductive; below, for
each module, is what had to be known in addition, and why.

`SendProofs`. Part 1: the caps and floors of SendBudget follow from its
admission guards, since every window that ends at an admitted call was counted
when the call was admitted, and later calls are later in time. Part 2: the
pruned windows hold every entry of the history that still counts (`WindowsOK`;
the decision alone is not inductive, since it says nothing about what pruning
forgets), hence exact decisions, the refinement, and by it the promises. Part 3:
`RetryAfter` never overstates, because a denial is explained by a floor or by a
full window that stays full until the time told (`RetryOK`).

Part 4: between its admission and the wire a call holds a ticket. `CallOK` says
that the ticket was admitted at most `MaxDelay` ago, that no other call holds it
and no message on the wire has used it; `WireOK`, that every throttled message
has its own. A window of the wire then maps one to one into a window of
admissions that is longer by the delay, to which the limiter's promises apply
(`CapsAlwaysReachTheWire`). Cold outreach needs `AdmissionsOK`: an admission to
somebody who had not written was charged to the stricter cap, for the address as
typed can only be known if the person is.

Part 5: with the windows in place of the history (`LimitedSendImplements`).
Neither invariant is inductive alone: the windows are right only while callers
ask with a class, and the calls are only while the windows decide as the history
would, so `LimitedInvariant` carries both. Steps of LimitedSend are steps of
RateLimiter as well, so that `RetryAfter` is honest to these callers, too.

`PairingProofs`. `Inv`: what the boot phases exclude (`BootOK`), that the
dispatcher dials only with a pump listening (`DispatchOK`), that a session
without handlers is on its way through the boot or through a pump
(`HandlersOK`). From it follow the type invariant, `PairingIsHeard` and
`RevocationIsHeard`, with early ends of sessions, failing dials and any number
of revocations, resets and restarts. `PairedAlwaysTrue` adds, for `EarlyEnd =
FALSE`, that a set flag without a session has somebody left to clear it
(`FlagOK`), and that noticing pumps mean a session (`PumpsPaired`);
`CacheAlwaysCurrent` adds where the latest code of each channel is, in its queue
or in the cache, and, up to the first revocation, that there is one handler and
one pairing at a time (`CurrentInv`). `ReadyAlwaysTrue` needs no such
hypothesis: `StatusInv` ties what a call has read so far to what it has seen of
the device since it began.

`MessageStoreProofs`. `ChatsInv`: the chat a history batch is being stored under
is resolved, as is that of every row. `VotesInv`: what is stored was heard,
nothing heard is dated after the present, and no vote heard of a voter is later
than the one stored, from which `NoVoterEverLockedOut` and `VotesStand` follow.
`VotesStand` assumes `OneSenderEach`, that a person's votes come under one
address once resolved; StoreDevices shows that it fails without. `TalliedInv`: a
poll has its options, or the handler has just replaced its row and sets them
next; a later message is no other poll's row by `IdAssumption`.

`GroupUpdateProofs`. That a person is not asked about twice was not inductive as
the run first stated it, at the moment of a request, since nothing was said of
what happens while a reply is recorded; `OnceOK` says it of every stage.
`WorkOK` and `TargetsOK` say which entries are left and that no address is asked
about twice, `ChangedOK` that WhatsApp changed only who was asked about, and
`AnswerOK` that the reply being recorded agrees with what it changed.

`DownloadProofs`. Why a caller reads its own bytes depends on what other calls
may do to the cache file between its rename and its reading. `Inv` says what a
cache file may hold (`CacheOK`: a whole file of that message, a torn one only
after a crash, or what the user wrote), what an output path shares with it or
with the one call that fills it (`OutputOK`), what each call relies on at each
step (`StepOK`: its temporary file is whole before the rename, its cache file is
there before the link) and what it has seen (`SeenOK`). From it follow all the
properties of the module, the refinement too: `CachedFile` shows the abstract
file of MediaFile, and `Stage` folds the file operations of a call into the
abstract stages, so that the rename is the only step in which a copy appears.

`PairPageProofs`. Forms: `TokenOK`, a token in use was minted last and not used,
or used once, and before the first one nothing carries any. The limits rest on
`RatesAssumption`, one part each. Images: the image's bucket is ahead of the
page's by the cost of a page for every image still to be asked for (`ImageOK`).
Waits: the level and what is left of the wait make up a token (`WaitOK`).
Refreshing tabs: one of them has a token, or will have it when it refreshes,
because the bucket gains in `Period` what a page costs, and whoever took a token
since is that tab now (`AliveOK`); a form under way ends on a page that does not
refresh (`FormsWait`). The 5 seconds, the 15 a minute and the bursts enter in no
other way.

`CacheReadsProofs`. `NoHole` is `WalkLeavesNoHole` place by place: from a row
that only requests brought, every higher message is cached, lost, or above a row
that came by itself (`Covered`). It is inductive only with what is on its way: a
batch being stored goes down without gaps from a place above which nothing is
missing (`LeftOK`, `Descends`), and an answer to be given was asked for at a row
that is there (`RequestsOK`); a failed write adds to `lost` what it does not add
to the rows. Paging: a row not listed yet has a page of others ahead of it for
every page read (`RowsAhead`), and rows that arrive add to them. For chats the
same holds of those in place (`ChatsAhead`), since a chat has one row
(`TableOK`) and whatever was before such a chat stays before it.
`NameOrderStays` says why that covers the order by name: a message that comes
under the name its chat has moves no chat. Contexts: `BeforeOK` and `AfterOK`,
one for each of the later statements.

`ToolsProofs`. The properties quantify over every call in an account, so little
has to be known of how the account came to be: that it is typed, and that the
groups the user is in and the home group are among those made (`SoundOK`; else
the group that create_group makes would not be new, and leaving it would not
lead back). The rest is 42 tools. Their outcomes are set images of accounts with
one field or two changed, so part 1 says what `Put` twice, and back, comes to.
Tools that set one field to a value (`SettingOf`, `Accepted`) share one lemma
for settling and one for the way back; for those that send, edit, revoke,
acknowledge or download, a lemma each says what a call leaves, that it settles,
and what takes it back. `mark_chat_read` settles although it may stop halfway,
because what a repetition adds the first call could have added. A message sent
is undone by deleting it: the list of messages then shows, as `Visible` has it,
what it did before.

Assumptions: the named ASSUMEs of the modules, which TLC evaluates on the runs
of those modules. Most are types of constants. Those with content are
`IdAssumption` and `ReadConstants` (ids are distinct within what they key),
`OutboundAssumption` and `GroupAssumption` (which parameters a call may have; a
group has no other address), `RatesAssumption`, in `DownloadAssumption` that a
missing, a torn and a foreign file are told from a message, and in
`AccountConstants` that a blank, an absent and a revoked text are told from one
that somebody wrote. Two theorems on the pair cache have the
hypothesis `EarlyEnd = FALSE`, discussed in section 3, and `VotesStand` has
`OneSenderEach`. `LimiterKeepsPromises` states `Promises`, the caps and floors
together.

Model-checked only: the liveness property `RevokedShowsQR`, since liveness under
fairness is out of the prover's reach.

## 5. Not modelled

- The store lock and the shutdown: one `flock` held for the life of a process,
  of which a model would only repeat what the operating system does.
- The HTTP server and its authentication, argument parsing and result text,
  media conversion, vCards, the path guard, the redactor and logging: they keep
  no state that another part reads.
- Names and phone numbers of senders and contacts, text layout, the tally that
  `GetPollResults` computes, migrations.
- Of the store queries: `SearchContacts`, the name filter and the last message
  of `list_chats`, and the context expansion of `list_messages`. In CacheReads a
  sent message has WhatsApp's time from the start, where the code stores the
  daemon's until a history corrects it; `use_lid` only decides whether WhatsApp
  answers.
- Media rows without a hash (`validateCachedMedia` accepts any file of the right
  length for them), and rows that change during a download.
- Of the library's locks nothing can be said from this repository: whether
  `onLoggedOut` may register handlers and dial inside the event goroutine
  (`client.go:302`) is such a question. The pair cache holds strings; a code is
  represented by its channel and number.

Differences between comment and code that were met. `StoreDevices` shows one;
the others have no run, and `PROJECT.json` quotes each with its lines.

- Limiter: an entry exactly one window old still counts, so `RetryAfter`
  (`ratelimit.go:57`) is an instant short. Replies, reactions, edits, revokes,
  polls, votes and contact cards do not ask it (`ratelimit.go:8`).
- Pairing: a reset starts no new pairing (design document, line 127); codes end
  with the channel's timeout (line 48); `awaiting_qr` is also the answer for a
  paired device whose connection is down (`tools_query.go:296`).
- Store: the options of a poll sent to a LID are not stored
  (`tools_media.go:28`); late events and histories move the time `list_chats`
  sorts by back (`tools_query.go:146`).
- Queries: the bounds of `list_messages` are exclusive (`tools_query.go:68`);
  its context looks the match up by id alone (`queries.go:113`); paging through
  `list_chats` in its default order may miss a chat (`tools_query.go:144`).
- History: a batch of messages without content moves no anchor, so walking back
  stops there; each repeat of `request_sync` is a new request
  (`tools_message.go:188`, 196).
- Download: a second caller is satisfied by a file that is still being copied,
  or was cut short, at an output on another device (`download.go:267`).
- Tools: an empty vote cannot be cast (`tools_media.go:64`), a reply's id is
  nowhere to be found (`tools_send.go:188`), and deleting a message leaves its
  row as it is (`tools_message.go:64`).

## 6. What could follow

1. **MessageStore** with a LID table that grows: what was stored under a LID
   before its number was known stays there (`lid.go:29`).
2. The lookups of `is_on_whatsapp` as callers of LimitedSend.
