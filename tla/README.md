# d3addr0p in TLA+

A verification project for d3addr0p, an end-to-end encrypted messenger: a Go
gateway that relays opaque blobs between mailboxes, a TypeScript client over a
Rust MLS core, and a PHP control plane for accounts and key packages. The
modules here are translated from the source at the commit under `src/`; every
definition that models code is listed with its lines in `PROJECT.json` ("map").

## 1. Inventory

| Component | State it keeps | Operations | What makes it correct |
|---|---|---|---|
| Gateway bus (`gateway/internal/bus/bus.go`) | per mailbox: held blobs with the devices that acked them, the consumer registry, attached channels | Publish, Subscribe, detach, AckAcross, sweep, Close | a blob is held for each registered device until that device acks it; memory stays bounded; idle mailboxes leave nothing behind |
| Gateway connection (`gateway/internal/ws`) | subscriptions of one socket, token buckets, connection counts | subscribe, publish, ackAll, read loop, pings, limits | acks reach every mailbox of the socket; a dropped publish gets no receipt |
| Device delivery (`groupchannel.ts`) | envelopes in memory, durable state | onDeliver, process, ack, reconnect | at-least-once delivery through crashes |
| Membership commits (`groupchannel.ts`, `conversation.rs`) | MLS epoch, staged commit, backstop timer, sealed copy | stage add or remove, publish, receive (echo or rival), backstop, restore, join | no fork, no private epoch, staged commits are resolved |
| Transport (`transport.ts`, `wsadapter.ts`) | paced queue, unconfirmed map, two timers, pace | publish, drain, RATE_LIMIT, receipt, takePending | no frame silently lost, the pacer does not stall |
| Message lifetime (`lifetime.ts`, `vault.ts`, parts of `groupchannel.ts`, `controller.ts`) | record per message, timers per tab, apply chain, receive ratchet in memory and on disk | store, arm, burn, expire, sweep, recall, ratchet flush | a burn message is read once, a recall works, acks follow the store, countdowns end |
| Self-group and Welcome outbox (`app.ts` ensureSelfGroup, `groupchannel.ts`) | groups held and sealed, outbox, fallback window, failure count | list, claim, mint, welcome, replay, retire, heal | one mint per device, one canonical group in the end |
| Provisioning (`provisioning.ts`, wizards in `app.ts`) | window, nonce, role, pending request, shown code, timers | open window, request, confirm, grant, show and scan a code | every screen ends; a live window has its timer |
| Authorization and revocation (`app.ts`, `UserStore.php`, `revoke.rs`, `conversation.rs`) | rows, account epoch, signed records, floors, denylists, certificates, packages | revoke, sync, backfill, recover, recredential, publish | running devices end up denying the revoked key and admitting each other's packages |
| Registration, sign-on (`app.ts`, `auth.ts`, `controller.ts`, `worker.js`) | vault, seed, identity, connection state, retry timers, worker queue | register, discard, log in, reconnect, sign out, wipe | a live account's keys exist here; a dropped socket is replaced |
| Conversation list (`controller.ts`, `groupchannel.ts`) | sealed blob, rows, closed ids, recorded self-groups, block list, per-tab copies | connect, reconcile, start, join, close, block, evict | closes stick across tabs, a session has its group |
| Sync of lists and profile (`controller.ts`) | versioned maps with tombstones, identity card | edit, publish, adopt, resync | sibling devices converge, no write undoes another |
| Calls (`callsession.ts`, `app.ts`) | calls, captures, pending candidates, overlay | start, accept, decline, hang up, signals, navigation | captures are released, candidates are applied, a hangup reaches the peer |
| Files (`filetransfer.ts`, `app.ts`) | transfer at each end, channel, write chain | offer, accept, stream, write, finish, fail | a received file is whole; an accepted one arrives |
| Desktop (`app.ts`) | live, parked and minimized windows, drafts, loaders, scan camera | go, open, park, minimize, restore, load, scan | the camera follows its screen; no plaintext is parked |
| Persistence, worker bridge (`idb.ts`, `workerproxy.ts`, `worker.js`) | IndexedDB, operation chain | transactions, request and reply | transactions commit in order; operations run one at a time |
| Rendering, build integrity, desktop shell, configuration, generated and vendored code | views | I/O | not protocol state |

**Interaction.** A device publishes through Transport to the gateway connection,
which rate limits it and hands it to the Bus. The Bus delivers to every attached
channel and holds the blob. The receiving device decrypts, applies (a commit to
the MLS group, a message to the store, a recall to the stored copy, a control
frame to a synchronized list), makes the result durable and acks. Membership
changes move the conversation to a new epoch and thereby to a new mailbox. A lost
socket or a reload goes through `connectGateway`: the sealed state is restored,
the mailboxes are subscribed again, their un-acked backlog is re-flushed, and
unfinished publishes, staged commits and remembered Welcomes are issued again. The
account server knows devices, their packages and the account epoch; the client
reads that list at sign-on and reconciles groups, certificates and denylist with
it. The main thread talks to the worker over one ordered port, and several tabs
share one store.

**What is hard.** Two devices committing or minting at once; timers racing late
echoes and receipts; crashes between "in memory", "sealed", "published" and
"acked"; redelivery of what was already applied; tabs that share a store but not
timers or memory; a screen, a call or a permission prompt that outlives what it
was for; answers that arrive after the user has gone on; every cap of the bus at
its limit; silence that looks like absence. `PROJECT.json` ("hazards") lists each
one at its line.

## 2. Modules

| Module | Models | Run |
|---|---|---|
| `Bus` | the in-process bus and the calls a connection makes to it | `bus_queue`, `bus_limits` |
| `Mailbox` | abstract: at-least-once delivery to the devices of an account | `delivery` |
| `Delivery` | devices behind the bus (extends `Bus`), refines `Mailbox` | `delivery` |
| `GroupCommit` | the commit protocol of one conversation | `group_safe`, `group_live` |
| `Transport` | the publish path of one client | `transport` |
| `Lifetime` | inbound apply in each tab, message store, lifetimes, recall | `lifetime`, `burn_tabs` |
| `SelfGroup`, `Pairing`, `Revocation` | the devices of one account | `account` (`MCAccount`) |
| `SignOn`, `Calls`, `Files`, `BuddyMaps` | a signed-in session | `session` (`MCSession`) |
| `Desktop`, `Conversations`, `Registration`, `IdentityCard` | what a device shows and keeps | `screens` (`MCScreens`), `register_retry` |
| `Lists` | the filter `Desktop` and `IdentityCard` use | |
| `BusProofs`, `MailboxProofs`, `GroupProofs`, `TransportProofs`, `LifetimeProofs`, `SessionProofs`, `AccountProofs`, `ScreensProofs` | theorems for all constants | |

`MCAccount`, `MCSession` and `MCScreens` put modules together that share no state:
a variable `part` says which of them is at work, and the others stand in an
initial state. Such a run checks the sum of its parts, not their product; nothing
is lost, since no action of one part reads a variable of another.

**Bus.** `b.mu` is held for the whole body of every operation, so each is one
action. `AckAcross` is the exception: its loop over the connection's mailboxes is
one step per mailbox, with `acking` standing for the lock section, during which no
other bus operation is enabled. `pending[s]` is a set of blobs stamped with their
publication number `n`; the stamp gives the queue order of the Go slice. `channel`
holds the content and the capacity of a Go channel. `got` and `missed` are ghosts:
what a connection has read, and what a full channel could not take. Eviction among
equally stale consumers is a choice, since it depends on Go's map order.

**Delivery and Mailbox.** `durable` is what a device has processed so that it
survives a crash; `expected` is a ghost: the blobs published while the device was
listening or had a cursor. `Process` and `DAck` are separate actions, so a crash
can come between them. `Mailbox` knows only what is due to a device, held for it,
in its memory, kept and lapsed. `AtLeastOnce` is the refinement: under the mapping
in `Delivery`, every step of bus and devices is a step of `Mailbox` or a stutter.

**GroupCommit.** An epoch is named by the commit that created it and carries its
ancestry. `mem` is the group in memory, `disk` the sealed copy, `jobs` the reseals
in flight and `ready` their continuations: the await in `stageAddSibling` and in
the merge path is the gap between them. The gateway is a FIFO log per epoch with a
cursor per device, which is what `Bus` promises. A member processes a commit
exactly when it is on the commit's parent epoch. Any member may stage whenever
nothing is pending, which over-approximates the ranking of the reconcile loop.
`regime` is the environment: `timely` (a backstop of 8 s, 24 s after a reload,
outlasts the gateway), `lockstep` (a commit is staged when every member listens to
the epoch's mailbox; `docs/honest-limits.md` 364-379 concedes the other case),
`storeFails`, and the number of faults.

**Transport.** Frames are `publish`, `receipt`, `subscribe` and `limit`; the
RATE_LIMIT error does not name its frame, as in the code. Time is abstract: an
armed timer may fire. `Paced` assumes that at the slowest pace one gap outlasts a
round trip and a refill; without it a frame that is confirmed too late may be sent
again for ever and starve the next one. `forgotten` records the frames that
overflow of the unconfirmed map gives up.

**Lifetime.** Every tab has a worker of its own, hence its own connection, receive
ratchet, apply chain, timers and view, and each connected tab receives every frame;
they share the store, the sealed blob and the cursor at the gateway. A record is
`absent`, `held`, `armed` or `tombstone`. Every await between a read and a write of
the store is a boundary between two actions; `openBurnOnRead` holds the cross-tab
lock between its two, `armOnView` and `storeIncoming` none. `ratchet` is the set of
frames whose receive key is spent in a tab's memory, `disk` the same in the sealed
blob. `revived` is a ghost that counts the puts over a tombstone. `regime` is the
environment: which tabs are in use, which messages the peer sends, whether frames may
overtake one another, and the numbers of lost connections, crashes and failed
persists.

**SelfGroup.** A device's `ensureSelfGroup` pass is suspended at each of its awaits
(`pass`): listing, claiming packages, minting, and a Welcome may arrive in between.
Devices are numbered in key order, the lowest authorised one is the designated
minter and the others mint when their fallback window passes. A group's roster is
one value for its members; how its commits race is `GroupCommit`'s subject. Every
device holds the account key and a certificate, so the branches of
`selfGroupSuffices` for a device without either (`groupchannel.ts` 423, 434-443) do
not occur.

**Pairing.** Both flows (six words, QR) on both devices. Windows, attempts and
codes are numbered. A window's timer belongs to the machine that opened it and
survives the machine when a reconnect drops it (`hOld`), as in the code.

**BuddyMaps and IdentityCard.** Every change is a load, a modification and a save
with awaits between them. User operations run one at a time, but control frames
are adopted outside that queue; for the card, `runIdentityWrite` queues both. A
version is what `this.now()` shows on the editing device, with no maximum against the
version it replaces. In `BuddyMaps` the clock of each device runs `Ahead` of the
slowest by a constant and `Tick` lets time pass; a version further ahead of the
adopting device's clock than `MaxFuture` is refused, as in `adoptBuddies`. In
`IdentityCard`, where no version is refused, the clock of any device may show any
time at any edit. Entries carry neither the verified key nor the alias for which the
code breaks a tie.

**Revocation.** `vault` is a device's sealed identity: certificate epoch, floor,
denylist, seed. A change of it and its reseal are one step, since nothing leaves
the device in between; a reload loses the handlers under way.

**SignOn.** The main thread, the worker's one-at-a-time chain and the ordered port
between them; the main thread learns of a closed socket only from that port.
**Registration.** `doRegister` is suspended at each await, and `discardAccount`
deletes record by record. Each open page has a `registerInFlight` flag of its own,
the records are shared, and a name may be registered as often as the user likes.
`tried`, `again` and `late` are ghosts: the names whose request has left and was not
refused, those registered once more after that or in two pages at once, and those
whose creation was answered with an error. **Conversations.** Every tab has its own
worker and copy of the state; all seal into one blob and the last seal wins; a seal
is an entry of the queue of transactions and is lost when its tab dies first.
**Desktop.** `navGen` is abstracted to whether a pending loader's copy is still
current; worker calls answer in order, server reads in any order. **Calls, Files.**
Every await is a step, signals are lost when the window shows something else, a
chunk is its number.

## 3. Runs

| Run | Checks | Instance and why it is enough |
|---|---|---|
| `bus_queue` | `TypeOK`, `IdleRegistryPruned`, `BacklogCompleteAndFirst`, `HeldUntilAcked` | one mailbox, two devices and legacy clients on two connections, two publications that may share an id, a clock of one tick with retention 0: crash, re-subscribe, TTL, expiry of a cursor and a full channel all occur |
| `bus_limits` | `Bounded`, `CursorKept` | two mailboxes with every cap at 1, TTLs that are defaulted and clamped, a clock past floor and retention |
| `delivery` | `AtLeastOnce`, `EventuallyDurable` | two devices, one id published twice, a crash, a TTL that may pass; no cap is reached and no cursor expires within the horizon: these are the losses the code accepts |
| `group_safe` | `TypeOK`, `NoFork`, `HeldUntilDurable`, `NoPrivateEpoch` | two founders and a joiner, two commits (rivals, or one after the other), in two environments: an orderly one with two faults among crash, reconnect, loss and duplication; an unruly one with no timing assumption, lagging members, failing reseals and one fault. `NoFork` and `HeldUntilDurable` speak of the orderly one |
| `group_live` | `Converges` | the orderly environment with one fault and fairness |
| `transport` | `TypeOK`, `NeverSilentlyLost`, `NeverStalled`, `EventuallySent` | three envelopes, a bucket of one, a retry buffer of two, so that both overflow; one lost socket, one rate-limited subscribe |
| `lifetime` | `TypeOK`, `BurnLatchHolds`, `AckedIsDurable`, `RecallEffective`, `CountdownEnds` | two tabs that both receive a burn message, or both a timed one, with two lost connections, a crash, a failed persist; or one tab with a message of each lifetime, in-order arrival, a lost connection, a crash. `CountdownEnds` and `RecallEffective` speak of a single tab, `RecallEffective` also of frames in order and persists that succeed; `BurnLatchHolds` and `AckedIsDurable` of all environments |
| `burn_tabs` (violation) | `BurnShownOnce` | two tabs, one burn message, no fault; see section 4 |
| `account` | `MintOnce`, `Canonical` (SelfGroup), `LiveHasTimer`, `PairingEnds` (Pairing), `RevocationSettles` (Revocation) | two devices that may each mint, three ids and a fault; two windows, two attempts and a fault; a founding device, a paired one and one that is unpaired or long revoked, one more revocation, one failed read or upload or reload |
| `session` | `OfflineRecovers` (SignOn), `NoOrphanCapture`, `NoStrandedIce`, `HangupReaches` (Calls), `ReceivedWhole`, `AcceptedArrives` (Files), `MapsConverge` (BuddyMaps) | two sign-ins with a drop, a wake and a fault; two calls, a candidate, a navigation and a refusal; three chunks over a buffer of one with a fault; two devices whose clocks are a tick apart with an allowance of none, so that versions tie, go back and are refused, a buddy, a folder, two edits and a reload |
| `screens` | `CameraReleased`, `NoParkedPlaintext` (Desktop), `SessionIsHeld`, `ClosesStick` (Conversations), `KeysLostForCause` (Registration), `CardLosesNoUpdate` (IdentityCard) | two conversations, four user moves, an event and two loaders; two tabs over one store with four kinds of conversation and two events; three presses under two names in two pages with two faults, late errors among them; two devices, two fields, two edits at any of two times and a crash |
| `register_retry` (violation) | `AccountHasKeys` | a registration the server accepted is tried again under the same name; see section 4 |

Deadlock is not checked: every bounded behaviour ends once its publications,
commits, edits, user moves and faults are used up, and the real system may stop
there too.

**What is left out on purpose.** `EarlyClose = FALSE` excludes a case in which
`OfflineRecovers` is false of the code; section 4 includes it. `BurnLatchHolds`
allows one more showing for each put over a tombstone and denies such puts to a
single tab; that two tabs do it is `burn_tabs`. `RecallEffective` and
`CountdownEnds` exclude a second tab, with which they are false (section 4).
`KeysLostForCause` excludes names registered once more after the request had left,
or in two pages at once, and names whose creation was answered with an error.
`Canonical` excludes behaviours in which a reload tore an unsealed group from a
device, the gateway forgot a Welcome or a device has given up minting;
`RevocationSettles` excludes records stranded on their minter and a revocation that
went through on one device alone; `HangupReaches` users that leave the conversation;
`AcceptedArrives` faults. Each exclusion is written in the property and stands for a
behaviour section 4 describes or a limit the code states.

**Fairness.** `Delivery`: the forwarding goroutine, the client's receive loop and
its auto-reconnect keep running (weak); taking `b.mu` is strongly fair, because
Go's `sync.Mutex` hands the lock to a waiter that starves. `GroupCommit`: a
device's event loop, its timers and the gateway make progress; nothing is assumed
of staging or of faults. `Transport`: timers fire, the loops run, the socket opens
and is dialled again, the bucket refills. `Lifetime`: the timers of a running tab
fire. `SelfGroup`: a started pass goes on, timers fire, frames and Welcomes are
delivered, and the triggers of another pass (sign-on, directory change) recur.
`Pairing`: timers fire and the gateway delivers. `BuddyMaps`: time passes,
operations and adoptions finish, and a device that stays idle with nothing on its
way to the others resyncs in the end, as it does at each connect (weak fairness,
which two devices need no more than). `SignOn`: the retry timer fires,
the worker runs its chain and the port delivers. `Calls`, `Files`: signals and
awaited operations resolve, the channel opens and carries data. `Revocation`:
handlers under way go on and every running device polls, which retries what is
unfinished and reads the device list again (weak fairness of the two together).

## 4. Counterexamples

TLC refutes each of these. All but the first two are outside the runs: the row names
the configuration and the change that reproduce it (the property is added to the
configuration, as INVARIANT or PROPERTY).

| Configuration | Property | What happens |
|---|---|---|
| `MCReRegister.cfg` (run `register_retry`) | `AccountHasKeys` | a second registration of a name whose account exists is refused and `discardAccount` erases its only keys (`app.ts` 9258, 9264, against 9216-9218 and 9224-9227) |
| `MCBurnTabs.cfg` (run `burn_tabs`) | `BurnShownOnce` | two tabs receive a burn message and find no record; one stores it, shows it and leaves the tombstone, then the put of the other overwrites the tombstone with a readable copy (`lifetime.ts` 81-86, against 78-80) |
| `MCScreens.cfg`, `MaxRegister = 1` | `AccountHasKeys` | any status but 201 and 409 is a refusal (`auth.ts` 424): a gateway error after the server's commit erases the keys |
| `MCBusQueue.cfg` | `SlowConsumerCovered` | a blob skipped by one full legacy channel is not held if another channel took it (`bus.go` 173, against 165-166) |
| `MCDelivery.cfg`, one device (`Conn = {k1}`, `Consumer = {c1}`, `Owner <- OneDevice`), `Retention = 0` | `NeverSilentlyLost` of `Delivery` | a connected but silent device is swept; a blob in its channel is dropped from the bus and a crash loses it (`bus.go` 444, against `docs/honest-limits.md` 349-351) |
| `MCGroupSafe.cfg` | `RetriedAddJoins` | the Welcome of a losing Add is accepted, the retry's is rejected as "already a member" (`conversation.rs` 1549, against 2024) |
| `MCGroupSafe.cfg`, `NoFork` without `Orderly` | `NoFork` | the backstop aborts a commit that is only late; peers merge it, the committer commits again on the old epoch (`groupchannel.ts` 1569) |
| `MCTransport.cfg` | `NoNeedlessDuplicate` | a receipt after the retry sweep does not take its frame out of the queue (`transport.ts` 163, against 106-107) |
| `MCLifetime.cfg` | `ExpiredStaysGone` | expiry deletes the record, so a redelivery whose first ack was lost is stored as new (`lifetime.ts` 188, against 78-80) |
| `MCLifetime.cfg`, `Regimes <- TwoTabsCrash` | `ExpiredStaysGone` | a second tab's arming writes back what the first tab's timer erased (`lifetime.ts` 113, against 95) |
| `MCLifetime.cfg`, `Regimes <- TwoTabsCrash`, no guard | `CountdownEnds` | the arming tab closes; no open tab has the timer and nothing sweeps until the next unlock (`lifetime.ts` 138, against 133-135) |
| `MCLifetime.cfg`, `Regimes <- Overtaking`, no guard | `RecallEffective` | a rate-limited message arrives after its recall, which found nothing and was acked (`groupchannel.ts` 2236, against 2226-2228); a persist that fails before its recall does the same |
| `MCLifetime.cfg`, `Regimes <- TwoTabsRecall`, no guard | `RecallEffective` | one tab stores and recalls the message while the put of another tab is under way; the message is back after the acked recall (`lifetime.ts` 81-86, against `groupchannel.ts` 2226-2228) |
| `MCLifetime.cfg` | `RedeliveredNotLost` | the ratchet flush seals the spent key of a frame still queued; after a crash its redelivery cannot be decrypted (`groupchannel.ts` 620, against 2225-2226) |
| `MCSession.cfg`, `EarlyClose = TRUE` | `OfflineRecovers` | the socket closes before the connect's reply is handled; `setConn('live')` disarms the retry of a dead link (`app.ts` 8126) |
| `MCSession.cfg` | `AbandonedIsClean` | a grant adopted while the wizard is abandoned leaves the authorized marker without a vault (`controller.ts` 2181) |
| `MCSession.cfg` | `CaptureHasControls` | a capture runs for a call that is not the one on the overlay (against `app.ts` 4753) |
| `MCScreens.cfg` | `BackSticks` | a refresh latched before the user went back brings Settings to the front (`app.ts` 8472, 8485, against 8469) |
| `MCScreens.cfg` | `NoGhostWindow`, `OneWindow` | a window stays parked behind itself, or a conversation has two windows (`app.ts` 5078, against 4997-4999 and 9661) |
| `MCScreens.cfg` | `FrontHasLog` | a chat comes to the front with the emptied log of its snapshot (`app.ts` 9689, against 9652-9658) |
| `MCScreens.cfg` | `DraftSurvives` | text typed while a row's answer is pending is gone when it arrives (`app.ts` 6501-6513, against 5081-5083) |
| `MCScreens.cfg` | `BlockedStaysOut` | a Welcome is joined before the block check, and the next connect restores the group (`groupchannel.ts` 2059, against 2112-2113) |
| `MCScreens.cfg` | `PeerNeverRecordedSelf` | a refused close records a half-joined peer conversation as a self-group (`controller.ts` 1463-1467, against 865-866) |
| `MCScreens.cfg` | `LiveIsListed` | a live conversation has no row (against `controller.ts` 2101) |
| `MCAccount.cfg` | `MintedIsPublished` | a record whose upload failed is "already covered" on the device that minted it and is never uploaded (`app.ts` 7464-7465, against 7451-7453) |
| `MCAccount.cfg` | `StaleWithheld` | a failed list read counts as epoch 0, so old packages are published (`app.ts` 7508, against 7518) |
| `MCAccount.cfg` | `EnrolledIsSealed` | a reseal that fails still announces the authorization, and the device is enrolled without a certificate on disk (`groupchannel.ts` 1864, against 1860-1861) |
| `MCAccount.cfg` | `UnprovenWelcomeKept` | an outbox entry is dropped because the adder's own roster lists the target (`groupchannel.ts` 1939, against 2166-2168) |
| `MCSession.cfg` | `StaleFrameCannotUndo` | an adoption that loaded before an edit saves after it (`controller.ts` 1071, 1101, against 1055-1058); the resync repairs it, which is why `MapsConverge` holds |
| `MCScreens.cfg` | `CardNeverRegresses` | an edit on a device whose clock is behind the version it replaces, skewed or set back, lowers the version; the siblings that hold the replaced one ignore the edit (`controller.ts` 384, 390-392, against 358-361) |

Read in the code and not checked: an edit with a lower version than the one it
replaces, or two edits of the card or two moves of a buddy between folders stamped
with the same millisecond, leave the devices different (`CardsConverge` in
`IdentityCard` is what `controller.ts` 358-361 says, and no run has its fairness);
`identityWrite` is a queue of one worker, so a second tab of the device may write
the card between the load and the save of the first (`controller.ts` 367-376);
`startProvisioning` and `startQrScan` (`app.ts` 7525, 7681) do not read the account
epoch first, unlike the paths at 7493-7498; a revoke call that fails leaves the
floor raised on the device that made the record (`HalfRevoked`);
`recordSelfGroupIds` (`controller.ts` 903-905) and the block list (1350-1361) are
written without the lock the closed set has; the fallback window is not armed again
when `listDevices` fails (`app.ts` 8055-8073); an operation of the worker that never
settles holds up all later ones (`worker.js` 173); the file receiver has no
`onclose` handler (`filetransfer.ts` 299); a callee whose capture fails tells the
caller nothing (`callsession.ts` 392).

## 5. Proofs

Eight modules hold the proofs; each proves about the module of its name (`GroupProofs`
about `GroupCommit`, `AccountProofs` about `Pairing` and `SelfGroup`, `SessionProofs`
about `Calls` and `Files`, `ScreensProofs` about `Registration`, `Conversations` and
`Desktop`, and about `IdentityCard`). Every invariant and every action property that a
run checks is proved here for every value of the constants. The counters that end a run
(`MaxPublish`, `MaxCommit`, ...) are any natural numbers, so a theorem speaks of
behaviours of any length. The inductive invariants were checked by TLC first.

| Theorem | States | From |
|---|---|---|
| `TypeCorrect`, `IdlePruned` | `[]TypeOK`, `[]IdleRegistryPruned` of `Bus` | themselves |
| `HeldBlobKept`, `CursorLostForCause` | `HeldUntilAcked`, `CursorKept` | `TypeOK` |
| `MemoryBounded` | `[]Bounded` | `CapInv` |
| `BacklogFirst` | `[]BacklogCompleteAndFirst` | `BacklogInv` |
| `MailboxLosesNothing` | `[]NothingLost` of `Mailbox` | itself |
| `GroupTypes`, `NothingPrivate` | `[]TypeOK`, `[]NoPrivateEpoch` of `GroupCommit` | `GroupInv` |
| `FoundersNeverFork`, `DurableIsHeld` | `[]NoFork`, `[]HeldUntilDurable` | `GroupInv`, `OrderInv` |
| `TransportTypes`, `PublishedIsKept`, `PacerNeverStalls` | `[]TypeOK`, `[]NeverSilentlyLost`, `[]NeverStalled` of `Transport` | `TransportInv` |
| `LifetimeTypes`, `BurnOnce`, `AckAfterStore` | `[]TypeOK`, `[]BurnLatchHolds`, `[]AckedIsDurable` of `Lifetime` | `LifetimeInv` |
| `RecallIsFinal` | `[]RecallEffective` | `LifetimeInv`, `RecallInv` |
| `PairingTimersArmed` | `[]LiveHasTimer` of `Pairing` | `TimerInv` |
| `MintsOnce` | `[]MintOnce` of `SelfGroup` | `MintInv` |
| `CaptureBelongsToCall`, `IceIsDrained` | `[]NoOrphanCapture`, `[]NoStrandedIce` of `Calls` | `CallInv` |
| `FileArrivesWhole` | `[]ReceivedWhole` of `Files` | `FileInv` |
| `AccountKeepsKeys` | `[]KeysLostForCause` of `Registration` | `RegInv` |
| `SessionsStayHeld`, `ClosedIdsStick` | `[]SessionIsHeld`, `ClosesStick` of `Conversations` | `ConvInv` |
| `CardKeepsUpdates` | `CardLosesNoUpdate` of `IdentityCard` | `CardInv` |
| `CameraStaysReleased`, `ParkedIsErased` | `[]CameraReleased`, `[]NoParkedPlaintext` of `Desktop` | `DeskInv` |

**Assumptions.** Those the modules name, and no others. Caps, limits and bounds are
naturals, positive where the code divides or indexes by them. `Bus`: the empty id is
no consumer, the default TTL is within the maximum, mailboxes and devices are finitely
many, `NoAck` is no ack. `GroupCommit`: founders are devices, devices are finitely
many. `SelfGroup`: device numbers are positive and finitely many. `Calls`: a call has
two ends. `Files`: the low-water mark is not above the high-water mark. `Lifetime`: a
message has one lifetime. `Registration`: a press is in a page. `Conversations`: peers,
pending and self conversations are different ones. No theorem has a hypothesis of its
own. `NoFork`, `HeldUntilDurable`, `RecallEffective`, the second half of
`BurnLatchHolds` and `KeysLostForCause` are conditional in their own statements (the
orderly environment; one tab in use, in-order arrival and persists that succeed; one
tab in use; the names section 3 lists); the theorems cover all environments.

**The arguments.**

- *Bus.* For `HeldUntilAcked` the case that matters is `dropFullyAcked` after
  another device's ack or a sweep that has shrunk the registry: the device that stays
  registered has not acked, so the blob stays. `CapInv` adds finiteness, which
  cardinalities need: a publish adds one blob after the oldest has made room, a
  registration one cursor after an eviction. `BacklogInv` keeps, for what a connection
  has read followed by what its channel holds, that stamps rise, and that every blob
  still queued and not acked by it is in there or was missed: a subscribe flushes in
  stamp order, and nothing published later has a lower stamp.
- *GroupCommit.* `GroupInv` is the tree of epochs with its ancestries, mailboxes that
  hold only children of their epoch, and sessions (in memory, sealed, on the way to the
  store) whose staged commit leaves the epoch they are on; `Public` says that all of
  them are on epochs the gateway fanned out. `OrderInv` is the agreement: every
  session of a founder is on the path of first commits (`Canonical`), the commit it
  has published on its epoch is the one it has staged, seals follow one another
  (`InSequence`), an entry is acked only after the epoch behind it is sealed
  (`AckedLate`) and a commit is published only after its own seal (`SealedFirst`,
  `SealedFar`). Two canonical epochs are on one path, which is `NoFork`.
- *Transport.* Each envelope is on the bus, under way, queued or in the retry buffer;
  `NeverStalled` is inductive together with the shape of the frames.
- *Lifetime.* `OneWriter` says that only the head of a tab's apply chain is past its
  read, and that the read is still right while no other tab is in use. `BurnLock` says
  that a viewing tab past its read holds the lock on a message that is still held, and
  counts: a message was shown once for each tombstone that stands or was overwritten.
  So a view never acts on a stale read, and a put only does when another tab came in
  between. `RecallInv` follows a message and its recall from
  the wire through mailbox, connection and apply chain and keeps their order; after the
  ack no copy of the message is left whose key is not already spent on disk.
- *Pairing, SelfGroup.* `TimerInv` adds that the code being derived is the one in
  memory. `MintInv` adds that a device still holds what it minted, that a group before
  certificates has everyone as member, and that a pass about to mint has claimed
  someone; hence the second mint finds the first group and stops.
- *Calls.* `CallInv` says for each call which end placed it and which awaits either end
  can still be in: an end that has left a call waits for nothing that opens a device
  unchecked. *Files.* `FileInv` is the phase of the transfer, with sink, write chain
  and channel forming one prefix of the file.
- *Registration.* A page has at most one suspended run, and two pages that register one
  name are known to (`OneRun`); a run about a name that is not excused has made the
  records its step presupposes, and is about an account of this device only once the
  server has accepted it (`Knows`); an account of this device that is not excused has
  its records (`NameKept`). *Conversations.* The recording tab holds the lock
  and what it read is still the stored set. *Desktop.* `DeskInv` types the windows,
  drafts and loaders and says that the camera runs only with its scan in front and
  while no loader can replace it unseen. *IdentityCard.* The one write under way on a
  device started from the card that is still sealed there, so an adoption is compared
  with the current card, and the fields an edit leaves alone are the current ones.

`Desktop` filters its windows and pending loaders, and `IdentityCard` the frames that
are not waiting already, with `Kept` of `Lists`, a recursive function, and not with
`SelectSeq`, of which the provers know nothing. What `Kept` returns is proved by least
counterexample (`LeastNat`, from the well-foundedness of `<` on `Nat`), for lists of any
length. A few leaves name their prover and a longer time limit.

**Model-checked only.**

- Liveness, which needs fairness and ENABLED: `Converges`, `EventuallySent`,
  `EventuallyDurable`, `CountdownEnds`, `Canonical`, `PairingEnds`, `MapsConverge`,
  `OfflineRecovers`, `HangupReaches`, `AcceptedArrives`, `RevocationSettles`.
- The refinement `AtLeastOnce` of `Mailbox` by `Delivery`. It is not a theorem for all
  constants: a queue at its cap, an evicted or an expired cursor lose what the mailbox
  owes.

## 6. Not modelled

The history-off mode (`idb.ts` 84-140), which keeps new records in the memory of the
tab that received them, is not modelled: `Lifetime` is about the default, the durable
history. `BuddyMaps`, `IdentityCard`, `SelfGroup`, `Pairing` and `Revocation` have one
tab of each device in use. A device acks a Welcome before it reseals
(`groupchannel.ts` 2088, 2102), a control frame before its adoption is saved (2220),
and a commit whose reseal failed (2189): `Delivery`'s `DAck` is the ack that follows a
durable save, and these three are modelled in `SelfGroup` (`torn`), in `BuddyMaps` and
in the unruly environment of `GroupCommit`.

Rendering, the service worker, the desktop shell, configuration, generated and
vendored code carry no protocol state. MLS, ciphers, IndexedDB, WebRTC and the
WebSocket implementation are taken as given. Wire formats, the QR symbol and the
six words are abstract. Of the control plane, login challenges, sessions, invites
and key-package claims are not modelled, nor are the gateway's connection caps and
per-mailbox limiter map, the pairwise session of `session.ts`, the eager
`addDevice` and `removeDevice` merges, and the failover ranking of the reconcile
loop. Two hazards of these parts are therefore not in the list: `claimOne`
(`UserStore.php` 967) selects a package and marks it consumed in two statements,
and the failover timers of `reconcileRemovalOne` (`groupchannel.ts` 1402) are
neither deduplicated nor cancelled.

## 7. Plan

1. The steps of `Delivery` as steps of `Mailbox`, under the condition that no cap is
   reached and no cursor expires: the bus stamps, the registry and the memory of a
   connection in one invariant that says which blobs a device is still owed. It also
   needs that an envelope id belongs to one mailbox, as the random ids of the client do;
   the present instance has one mailbox.
2. `CrashSafe` of `Delivery` from that and `MailboxLosesNothing`.
