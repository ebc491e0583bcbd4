# phonepad: verification of the receiver

TLA+ models of the daemon that lets a phone act as keyboard, touchpad and file
source of a desktop (`daemon/`), and of the client code that talks to it
(`mobile/src/lib`). TLC checks them on small instances; TLAPS proves nearly all
of the safety properties for every value of the constants, and both refinements.

1. [The system](#the-system)
2. [Modules](#modules)
3. [Runs](#runs)
4. [Fairness](#fairness)
5. [Proofs](#proofs)
6. [Findings](#findings)
7. [What is left out](#what-is-left-out)
8. [Plan](#plan)

## The system

| Component | State | Operations | Interacts with |
|---|---|---|---|
| upload store, `internal/filebatches` | private stages and published folders on disk, one mutex | Begin, Status, WriteChunk, Commit, Cancel, the expiry sweep | called by the HTTP handlers of file transfers, which pass a guard that is asked in front of the first disk effect |
| serialised injector, `internal/input/async.go` | FIFO, epoch, reset barrier, closed flag, one worker | submissions with and without a receipt, Reset, Close, CloseContext | every input effect of the server goes through it to the device |
| literal text, `server/input_operations.go`, `inputops/text.go`, `mobile/src/lib/literal-transfer.ts` | leases with a registry each; one pending text in the client | begin, chunk, commit, status, cancel, renew; send, status, reviewed | mutation gate, injector, control session |
| permissions, control session, gate: `server/capabilities.go`, `lifecycle.go`, `server.go` | current connection, `gen`, `sessionEpoch`, permissions and their revision, `inputResetIncomplete`, closing | setCurrent, clearCurrent, SetPermissions, Shutdown, permits | every effect runs under `mutationGate` with a permit captured earlier |
| control frames and capability messages, `server/server.go`, `capabilities.go`, `media.go` | capability revision built and sent, the media observed, a read loop and a watchdog per connection | hello, updates, frames, ping | gate, session, injector |
| key actions, `server/actions.go` | operations with their next sequence, state and receipts | press, repeat, cancel | gate, injector |
| file transfers, `server/file_transfers.go` | `uploadMu`; the clipboard marker, then receipt, beside a published batch | status, begin, chunk, commit, cancel, clipboard | store, gate, clipboard |
| version 1 batches, single files, `server/file_batches.go`, `files.go` | published folder with its receipt; a saved file | POST, GET of a receipt | `uploadMu`, gate, clipboard |
| clipboard | desktop clipboard, lease of the paste worker | read, copy, paste a text and restore | gate, injector |
| Linux device: `internal/input/input.go`, `touchpad.go`, `touchpad_linux.go`, `linear_touch.go`, `mutter_motion_linux.go` | slots and tracking IDs, whether they are known to be wrong; the gesture and lease of the native pointer; keys and buttons that may be down | touch frames, cancel, geometry, buttons, keys, combinations, text, reset | below the injector, one call at a time |
| pairing, sessions | one invitation, one token | issue, claim | HTTP |
| preview, desktop relay, media | one publisher, one viewer | relay | web client, setup workers |
| start-up, certificates, development reload, set-up scripts, web and mobile user interfaces | | | |

`PROJECT.json` lists all of them with their sources and how far each is
modelled.

What is hard, and what makes each part correct:

- *Store.* Any operation may stop between two disk effects (an error, the death
  of the process, a power loss), and the next one reads what was left. A
  published folder must hold exactly what its manifest declares; what was
  acknowledged must survive; an identity is stored or cancelled once and for all.
- *Injector.* A reset or close must cut off everything older although an older
  sender may hold `enqueueMu` in front of a full FIFO, must never lose a sender
  or send on a closed channel, and must not wait for a stuck device longer than
  its context allows. What was answered "rejected" must never run.
- *Text.* The client gives up a request after eight seconds while its handler
  goes on, requests may be repeated, and the session or the policy may change
  between any two steps of a handler. A text must be typed at most once, a
  receipt must be true, and what the user is told to send again must not appear
  later.
- *Gate.* A permit is captured at admission and used after two more locks; a
  transition must leave nothing of the old session behind, or say that it could
  not; and whoever holds the gate must give it back.
- *Control.* A handler routes its frames one after another, but its session may be
  replaced while one of them is anywhere between the socket and the device. A
  key sequence must reach the device once and in order, a receipt must be true,
  a cancellation must hold, and nothing of a replaced session may be done or stay
  pressed. Policy, media and sessions each announce changes from goroutines of
  their own; the phone ignores what is not newer than what it has heard.
- *Transfers.* A copy to the clipboard cannot be undone nor asked about, so it is
  preceded by a durable marker; the host may die before, between and after. Three
  locks are held together while a guard of the store waits for the gate.
- *Device.* Any write may stop half-way, and errors are only logged. What may be
  down has to be remembered until a reset lets go of it, and a touchpad of which
  only a part of a frame was consumed must not be given the next one.

## Modules

| Module | What it models | State and actions in the code |
|---|---|---|
| `FileBatches` | the store, one action per disk effect of an operation | `staging` and `published` are the directories; `op` is the operation that holds `Store.mu` and the step it is at; a failure or a crash may come between any two steps |
| `BatchContract` | what one batch identity goes through | the abstract specification `FileBatches` implements; `Phase` is the mapping |
| `InputQueue` | `asyncText` | a critical section of `a.mu` is one action; the goroutines of `ResetContext` (`courier`) and `finishClose` (`finisher`) and the worker have a place each |
| `SerialInput` | operations that wait, which of them is older, and cuts | the abstract specification `InputQueue` implements: `Waiting` and `Before` are the mapping of the FIFO and of what the worker has taken from it; a cut is in force while the current epoch is not that of an applied reset |
| `MutationGate` | permits, sessions, policies, shutdown, the gate | no behaviour of its own; `todo` is what the transition that holds the gate has yet to do. Extended by the modules that model effects |
| `TextOperations` | client, handler, registry, leases, over `MutationGate` | a critical section of `s.mu`, of a transfer's mutex or of a provider call is one action; `req[h].at` is where a request's handler is |
| `ControlSession` | the websocket handler from handshake to end, hello and updates, media observations, frames, key operations, over `MutationGate`; what the phone makes of the messages | `conn[c].at` is where the handler of a connection is (its read loop routes one frame at a time); `line` and `running` are the injector; a critical section of `s.mu` or `capabilitySendMu` is one action |
| `FileTransfers` | the handlers of version 2, version 1 and single files with `uploadMu`, `Store.mu` and the gate, over `MutationGate` and `BatchContract`; the death of the host | `phase` is the store, as `BatchContract` has it; `record` is what a reader finds about a copy and `survives` what it may find after a power loss; `req[h].at` is the handler's place |
| `Touchpad` | `mtState` and `mtTouchpad`: slots, events, the kernel's view, writes that stop half-way | no behaviour of its own: an operation is the set of the pads it may leave behind |
| `UinputDevice` | the Linux device: `Touchpad`, `linearTouch` and its lease, mouse, keyboard | every operation holds `d.mu`, so it is one action, which ends in any of the states its failing calls may leave |
| `MC...` | values of the constants for TLC | |
| `FileBatchesProofs`, `BatchStoreProofs` | theorems about `FileBatches` | |
| `InputQueueProofs`, `TextOperationsProofs`, `ControlSessionProofs`, `UinputDeviceProofs` | theorems about the module they are named after | |
| `FileTransfersProofs`, `FileAnswersProofs` | theorems about `FileTransfers` | |

`TextOperations` does not contain `InputQueue`; it represents the injector by
what `InputQueue` is checked and proved to promise: an operation whose context
ends before it has begun never begins (`RefusedNeverRuns`), operations run one at
a time, and a reset is confirmed only when nothing older runs
(`ImplementsPromise`). `ControlSession` has the same promise as a line of its own,
because a key operation waits in it. `FileTransfers` has of the store what
`FileBatches` is checked and proved to implement: the moves of `BatchContract`, each at the
point where the handler calls the store, with the sweep at any moment. `UinputDevice`
is what the injector's worker calls. Every connection in `MutationGate` speaks
protocol 2.

Definitions headed "Wrong:" are variants of the definition that follows them,
each with a mistake one could make in the code; they are not part of the
specification.

## Runs

| Run | Instance | What it shows |
|---|---|---|
| `store_batches` | two identities, one receiving slot, two stage slots, errors and crashes | types, published folders are intact, limits hold, replies are what the disk says, the store implements `BatchContract` |
| `store_payload` | one batch of a three-byte and a one-byte file; chunks continue, repeat, overlap, contradict; errors, crashes, power loss | acknowledged bytes survive, an acknowledged chunk is stored |
| `store_power`, `store_resume` | one batch | two findings, below |
| `queue` | three threads, one place in the FIFO, contexts that end, a device that may hang | types, refused calls never run, a closed queue is quiet, the queue implements `SerialInput`; a bounded reset or close returns even with a device that does not, and with one that does, resets are applied and all calls end |
| `text_once` | two concurrent requests of one text, repeated and late, two applications, two transitions | receipts are true and nothing is typed twice, forgotten texts stay untyped, a completed transition is quiet, a bound target is kept |
| `text_ends` | one text in two chunks, leases renewed and evicted, a device with a pointer geometry | types, receipts, effects only under the permit of their admission; with a device that returns, requests and transitions end |
| `text_renew`, `text_stuck` | one text | two findings, below |
| `files` | one batch of each version and a single file, two handlers, two requests, two transitions, one death of the host with or without power | types, a batch is copied at most once, answers are true and stay true, effects are permitted, the locks never block each other |
| `control` | two connections, one key operation of three sequences, three frames or observations, two transitions, a reset that may time out | types, sequences once and in order, true receipts, cancellations that hold, quiet transitions, the phone's view of policy and media |
| `device` | three fingers over two slots, one button, a key and a modifier, two operations that fail | types, the pad is right or known to be wrong, a reset that succeeds lets go of everything, only single fingers click |

Why the bounds are enough. *Store:* with two slots and two identities every
comparison of a limit has both outcomes, and a stage can be created, broken,
expired and reused; three bytes are the least that let a chunk start inside,
at the end of and beyond what is staged; the clock counts to the TTL, after
which only the comparison matters. *Queue:* one place is the least FIFO
that can be full; three threads and the reset's goroutine are one that executes,
one that waits in the FIFO, one that holds `enqueueMu` and one that resets or
closes. *Text:* two handlers serve the two
requests a race needs; one chunk (two in `text_ends`) separates begin from
commit; two transitions let a session begin and then be replaced, end, lose a
permission or be shut down in any step of a request; with two leases kept the
third evicts one. *Files:* two requests are a repetition, or a race of any two
kinds; a death between them lets the second one read what the first has left at
any of its steps. *Control:* three frames are a press, its repetition and a
cancellation, or a frame and two observations that come back in the wrong order;
three sequences are a press and the two repeats that can follow; one
operation and a limit of one let a second connection begin the same operation
again and a repeat meet the limit, but the 128 operations after which a session
refuses presses are not reached (below). *Device:* two slots let a gesture have one finger,
two, and one of another again; a third contact exchanges one for another; two
failures are one that leaves something behind and one in the operation that meets
it. `MaxTransitions`, `MaxCalls`, `MaxLeases`, `MaxRequests`, `MaxRestarts`,
`MaxEvents`, `Sequences_` and `MaxFaults` are bounds of the model; `Quota`, `Kept`,
`Capacity`, `Limit`, `MaxSlots` and the store's limits are constants of the code,
made small.

Deadlock is checked for the store and the device. The other models stop when
their bounds are used up: no call, request, frame or transition is left. That the
locks of `FileTransfers` never block each other is an invariant of its own
(`NoneStuck`): as long as anyone waits, someone can go on.

## Fairness

- *Queue:* weak fairness of each goroutine's steps. A thread waiting for
  `enqueueMu` gets it in the end (Go's mutex hands over to a waiter that
  starves). Contexts need not end. That the device returns (`DeviceReturns`) is
  an assumption of `ResetsApply` and `CallsEnd`, not of `TimedCallsEnd`.
- *Text:* weak fairness of each handler and of the transition that holds the
  gate; the five-second contexts of the handler make its waits for the device end.
  `RequestsEnd` and `TransitionsEnd` assume that the device returns; the client
  and the network need not do anything.
- *Store, files, control, device:* only safety is checked, and no fairness assumed.
  An operation of the store is a finite sequence of steps by its shape. In
  `files` the state that everyone would wait in for ever is excluded by `NoneStuck`.

## Proofs

The theorems hold for every value of the constants: of batches, bytes, manifests,
limits and faults; of threads, capacity and number of calls; of handlers, texts,
targets, files, posts and policies; of connections, key operations and sequences;
of fingers, buttons and keys; of transitions, leases, deaths of the host. They
assume no more than the `ASSUME`s of the modules, which say that names are distinct
(a handler is not called "free"), that limits are numbers and which of them are
not zero, that a manifest is a sequence of files, that there are finitely many
batches, that the modifiers are keys. TLC evaluates them in every run.

Every proof has the same argument: a stronger invariant, checked by TLC on
the runs' instances before it was proved, with one lemma or step for each action,
and under it one for each part that the action can disturb.

| Module | Inductive invariant | Theorems about the properties of the runs |
|---|---|---|
| `FileBatchesProofs` | `Invariance`: `IInv` | `TypeCorrect`, `AcknowledgedSafe`, `StoredIntact` |
| `BatchStoreProofs` | `StagesInUse`: `UInv` | `AnswersTrue`, `LimitsHold`, `ContractImplemented`, `AckedChunkStored` |
| `InputQueueProofs` | `QueueInvariance`: `QInv`; `BarrierInvariance`: `PInv`; `WaitInv` | `QueueTypeCorrect`, `RefusedSafe`, `ClosedSafe`, `PromiseKept`; also `QueueNeverStuck` |
| `TextOperationsProofs` | `TextInvariant`: `TInv` | `TextTypes`, `TextReceipts`, `DiscardsHold`, `TransitionsAreQuiet`, `EffectsPermitted`, `TargetsKept` |
| `ControlSessionProofs` | `ControlInvariant`: `CInv` | `ControlTypes`, `KeysOrdered`, `ReceiptsHold`, `CancellationsHold`, `DeviceOfSession`, `ViewOfForce` |
| `FileTransfersProofs` | `TransferInvariance`: `FInv` | `TransferTypeCorrect`, `TransferCopiedOnce`, `TransferEffectPermitted`; also `LocksInOrder`, `StoreByContract` |
| `FileAnswersProofs` | `AnswerInvariance`: `AInv` | `TransferAnswersTruthful`, `TransferAnswersLast` |
| `UinputDeviceProofs` | `GestureInvariant`: `GInv`; `DeviceInvariant`: `DInv` | `ClicksOfOneFinger`, `DeviceTypes`, `PadIsSound`, `ResetsRelease` |

*Store.* `IInv` is the type invariant and what the steps of an operation rely on:
which parts of a stage exist at each step (`SlotOK`), that indices and lengths
agree between manifest, files and the operation (`DiskOK`). `TypeOK` alone is
not inductive: the steps index the files of a stage by numbers that an earlier
step has checked. `AcknowledgedSafe` rests on what the operation knows between
the sync and the acknowledgement, namely that the whole file is synced.
`StoredIntact` holds as long as no power is lost; its invariant adds that the
stage of a publication in progress is verified, which no other step can undo
because the mutex is held.

`UInv` adds what the operation is there for: which method can be at which step
(`KindsOK`), what the stage looks like that a begin is creating, a PUT writing to,
a commit publishing, a cancellation or a removal taking apart (`CreateUse` to
`RemoveUse`), and that a receiving stage is no longer than it declared. With it a
reply can be compared with the disk although the steps that decided it lie
behind (`AnswersTrue`). `CapacityInv` has to say that whoever is past
the comparison but has not made its directory still has room: a begin compares
the limits once, and its stage counts several disk effects later; that nobody
else takes the room is what the mutex is for. For `ContractImplemented` each action has a
lemma that it is a step of `BatchContract` for the batch of the operation
(`Advance`) or changes no batch's phase (`Rest`); the sweep's and a crash's steps
are among them. `ChunkHeld` carries the bytes from the comparison of the
overlap to the acknowledgement.

*Queue.* `QInv` is `LifeInv` (the order in which a close takes the
queue apart: no senders before the close operation is offered, it is the last in
the channel, the worker is gone before the close is done), `QueuedInv` and
`HeldInv` (an operation is in one place only, in the FIFO or with the worker, and
belongs to a call that was made), `HistoryInv` (what is still pending has neither
begun nor been refused), `CallInv` (what a caller inside a call may conclude from
its receipt). Without the uniqueness of an operation's place one could not
exclude that a refused call has a twin in the FIFO.

`PromiseKept` is the refinement of `SerialInput`, and needs more than `QInv`. The
code compares epochs; `SerialInput` knows only that a cut is in force. They agree
because a reset is in one place (with its goroutine, in the channel, or with the
worker until the barrier is lifted), because nothing that was submitted is ever
behind it (`CourierInv`, `QueuedResetInv`, `HeldResetInv`: `submit` waits while
there is a barrier), and because what was admitted is of the current epoch exactly
when no cut has come since (`AdmittedInv`). From this the worker's comparison
discards an operation exactly when `SerialInput` may drop it, and a cut ends only
with nothing waiting. Most steps leave the waiting line as it is (`LineSame`);
sending appends to it, receiving moves its head, and the comparison takes that
away.

`QueueNeverStuck` is what safety can say of `CallsEnd`: as long as a call, a
reset or a close is unfinished, a caller, the courier of a reset, the finisher of
a close or the worker has something that it need not wait for, or the device is at
work. `WaitInv` gives each wait its cause: an action whose caller waits is in the
channel or with the worker, a barrier's reset is with its courier, in the channel or
with the worker, and whoever waits for the end of a close has seen it begin. The
guards that say who need not wait (`CallerReady` to `WorkerReady`) are the guards of the
actions; that these are then enabled was compared by TLC on the instance of `queue`.
That the device returns and that goroutines are scheduled is what `CallsEnd` adds.

*Text.* `TInv` says who has the gate (`GateInv`), what a request carries from step
to step (`RequestInv`), that the permit of the one who types still holds because
nothing can change session or policy meanwhile (`PermitInv`), that a text has one
claim and its holder knows what became of it (`ClaimInv`), whose text the
injector has (`DeviceInv`), what the client may believe (`ClientInv`) and that
without a reset to come or a failed one the device types for the current
session (`QuietInv`). `ReceiptsTruthful` is not inductive without `ClaimInv`: the
registry says "uncertain" while the handler waits for the injector's answer, and
with two claims one of them could report "rejected" what the other has typed.

*Control.* `SessionInv` says that a generation belongs to one connection and a permit
to the session of its connection; `FramesInv` follows a key frame from the socket
through reservation, gate, line and device to the receipt and what the client
was told; `TalkInv` orders the messages. `KeysInOrder` alone is not inductive: that a
repeat does not pass the one before it needs that the earlier one has begun
whenever the later one has been reserved (`OperationOf`), which in turn holds
only for the current connection's map of operations. For `ViewSound` a connection that does not
know the newest revision must have an announcement on its way (`DueInv`), and an
older message must never be written behind a newer one (`OrderInv`); the handler
of a new session is between the two when it writes its hello under
`capabilitySendMu`.

*Transfers.* Besides types `FInv` says that
past `uploadMu` there is only its holder (`PlaceOK`), that whoever is about to
offer a batch has not offered it and has a marker that a power loss cannot take
away (`BatchOK`), that a version 1 publisher has found nothing (`OlderOK`), and
that a batch whose record may yet be gone has never been offered (`FileOK`).
`CopiedOnce` alone is not inductive: it needs that two handlers are never between
marker and copy of one batch, which is what `uploadMu` is for, and that a marker
read after the host has died is among those that `survives` allows. The steps are
grouped by what they may disturb: `HandlerStep` reduces the invariant to the
handler that moves and to the file it serves. For `EffectPermitted`, `PInv` adds
that the holder of the gate has a permit that is honoured (nothing that changes
session or permissions runs while a handler holds it) and that the
permit of a request that names a session is of that session. The property says it of
the handler that holds the gate and has the effect, and says it of every effect, also of
those after a shutdown has begun: `runPermittedMutation` does not look at
`lifecycleClosing`.

`LocksInOrder` is `NoneStuck` without `ENABLED`: `uploadMu`, the store's mutex and the gate belong to
requests that are being served or to a transition (`LocksHeld`), and some request that
is being served waits for none of them, unless a transition has the gate, which waits for
nothing here. Whoever has the gate waits for no lock; whoever has
the store's mutex waits at most for the gate. That a handler that does not wait can
take its step is the part that TLC shows.

`StoreByContract` closes the gap between the two modules: each step of the
transfers is for each batch one of `BatchContract`'s or none, and
`ContractImplemented` says the same of `FileBatches`. What the results on transfers suppose
of the store is thereby a formula that the store is proved to implement.

`AInv` adds the past: what has been told of a file (`AnswerOK`) and what a handler
between marker and answer knows of the copy (`WitnessOK`). Nobody may have been
told "ready" or "unavailable" while some power loss could still bring back a state
without a marker (`Unread`), because the next request would then copy again. That
stored and cancelled batches stay so is the store's promise (`Lasting`).

*Device.* `GInv` compares what `linearTouch` remembers (`previous`, `moved`,
`multi`, `blocked`) with the fingers that have been down since all were up: unless
it knows of several, or a lease was taken in the middle, the finger it follows is
all there has been. A cancellation, and a finger in the place of another, which the code
treats as one, begin a new gesture. The touchpad is an arbitrary value in this part, so that
`ClicksOfOneFinger` does not depend on what failing writes leave of it.

`DInv` adds the devices. Of the touchpad it says that no contact has two slots and,
unless the daemon knows its view to be lost (`desynced`), that the kernel's
tracks, palms and bits are those of the slots (`PadOK`); of buttons and keys that what
may be down is remembered (`HoldOK`, `KeysOK`). `PadSound` alone is not inductive: a
frame is a list of events, written whole or torn at any of them (`WriteIs`). After a torn
one the pad is only known to be `desynced`, and the next operation starts with a hard reset,
whose outcome does not depend on what the kernel holds.

What a frame does is a recursive function over its events (`After`), the slots it gives to
contacts one over its contacts (`Assigned`), and the induction theorems of the library
cannot be used on them, since they take an operator as parameter.
The proofs argue by a least counterexample instead: if a fact about the prefixes of a
frame failed, there would be a shortest prefix at which it fails (`LeastExists`, from
the well-foundedness of the numbers), and its last event refutes that (`UpTo`). So each
segment of a frame has its lemma: the lifts, the new contacts, the palms, the
bits of their number, the release of all, the final report. The assignment of slots never
runs out because occupied slots are as many as contacts (`RoomLeft`), which is
counted by a bijection (`OccupiedCount`).

Only model-checked: liveness (`ResetsApply`, `CallsEnd`,
`TimedCallsEnd`, `RequestsEnd`, `TransitionsEnd`), which the prover cannot treat, and
`NoneStuck` as it is written, because it speaks of `ENABLED`.

## Findings

- `store_power` and `store_resume`: an interrupted PUT may leave bytes in the
  page cache that a later commit publishes without syncing them, and a crash in
  the middle of a PUT may leave a stage that cannot be resumed although the
  documents promise it.
- `text_renew`: a commit that has been claimed is still typed after its lease was
  renewed; the contract says that earlier leases cannot inject. A renewal changes
  neither `gen` nor `permissionRevision`, which are what the gate compares.
- `text_stuck`: a transition's reset has the documented deadline of five seconds,
  but a disconnection or revocation then applies a pointer geometry, which waits
  for a second reset with `context.Background()` while `mutationGate` is held. If
  the device does not return, the transition never ends.

`PROJECT.json` quotes the lines.

Modelling met more behaviour that no document contradicts in so many words, or
that the properties therefore leave out:

- *Availability of input, as the phone sees it.* The result of a reset becomes part
  of the capabilities without a revision of its own. A media update built during
  the up to five seconds of a revocation's reset takes the revision of the
  policy's message, which `sendCapabilityUpdate` then drops (`capabilities.go:434`),
  and the phone keeps the availability from before the reset until the next change.
  `ViewSound` therefore speaks of policy, media and session only.
- *A lease in the middle of a gesture.* `idle()` is there "so a new lease cannot split
  a gesture" (`linear_touch.go:28`), but while the pointer is blocked its fingers go
  to the touchpad and are not tracked: the lease is taken again between two frames
  of one gesture, the touchpad keeps its contacts, and the rest of the gesture may
  click. `OneFingerClicks` excludes these gestures (`split`).
- *A finger in the place of another.* "A replacement without a release is cancellation,
  never a click" (`linear_touch.go:99`), but the finger that stays may still click: the
  frames {1}, {2}, {2}, {} can end in a click, since the third counts as the start of a
  gesture. `OneFingerClicks` counts fingers from the cancellation on (`seen`).
- *A lease that does not come back.* A move that fails while a finger is down leaves
  `previous` set; blocked, the pointer never clears it, so `idle()` stays false until
  a cancel or a reset.
- *A native button that may stay down.* `release` forgets the button before it lets
  go of it (`linear_touch.go:117`); if that fails, only a new lease releases it.
- *Forgotten key operations.* `actionOps` is emptied only by `setCurrent`: after 128
  operations every press of the session is answered "operation_capacity", and the
  handler of a replaced connection may put one into the new session's map.
- *A cancelled operation's receipts.* A repeat that was executed and is sent again
  after the cancellation is answered "rejected", because the state is looked at
  before the receipts (`actions.go:110`). `ReceiptsTrue` speaks of frames, and this
  one, the repetition, has indeed had no effect.
- *Files after a shutdown.* `Shutdown` stops admission and cancels the contexts of the
  requests, but `runPermittedMutation` does not look at the closing, unlike
  `runLifecycleMutation`, and says so (`lifecycle.go:128`). A request that was accepted
  before and does not notice its context may store, publish or copy between `Shutdown`
  and the end of the session, and, if it names no session, even later under a permit it
  captures then. `session-contract.md:40` says that the shutdown cancels the
  admitted requests. `EffectPermitted` covers these effects; it does not exclude them.
- *Version 1.* A host that dies between the copy and `persistReceipt` answers
  "unavailable" ever after, although the clipboard has the batch; a publication
  that a power loss undoes may be made, and copied, again. `AnswersTruthful` covers
  version 2 and `CopiedOnce` makes this exception.
- *"ready" before the sync.* A status read between the rename of the receipt and the
  sync of its directory may say "ready" and, after a power loss, "uncertain".
- *Verification.* The code verifies the files, outside the gate, before it writes the
  marker; item 7 of `file-transfer-contract.md` lists them in the reverse order.
  Nothing in the host changes a published file in between.

## What is left out

- *Store:* malformed requests, symbolic links, the durability of directory
  entries after a power loss, which file of a removal goes first.
- *Queue:* the contents of results; adapters that refuse by themselves; the wait
  of a submission for `enqueueMu`, which its context does not bound, is a step
  that may be delayed for ever only while the device hangs. `ResetContext` on a
  closed queue returns at once.
- *Text:* malformed and unauthorised requests, manifests and chunks that
  contradict those of the same operation (a second client), an injector without
  literal text, capability messages that are delayed after they were sent,
  failures of the random source, a geometry that a connection fails to apply,
  protocol 1. A client whose lease has been evicted can never resolve its
  pending text; no document promises otherwise.
- *Control:* the fields of frames and their validation, the pointer position, key
  tables, more than one key operation at a time; the 30 seconds after which an
  observation of the media is "unknown"; a write that fails ends the connection,
  a read may fail at any time. The wait of a repeat for the sequence before it
  (`actions.go:188`) cannot occur, because a connection's frames are routed one
  after another and another connection's operations are in another map.
- *Transfers:* headers and manifests that are rejected, names and their
  collisions, quotas, the contents of chunks (these are `FileBatches`'s).
- *Device:* positions, pressure, gain and prediction decide nothing that the
  properties speak of: a slide that is too short, a click that is too slow and a
  failed construction of a touchpad are choices or steps that change nothing.
  Relative motion and scrolling keep no state. `Close` is not modelled, nor are the
  adapters for macOS and Windows.
- *Pairing* is a few critical sections of one lock. The *clipboard's* paste worker
  depends on other programs and their selection protocols. *Preview and media* are
  relays of bytes and workers around GStreamer and PipeWire. Certificates, user
  interfaces, scripts and start-up are I/O.

## Plan

Done: store, queue, gate, text, control connections with key actions, transfers of
both versions, the Linux device, and proofs of all the properties the runs check but
`NoneStuck` and the five about liveness. What is worth adding is the clipboard's lease and the
phone's reconnection, if an interface of the paste worker is settled.
