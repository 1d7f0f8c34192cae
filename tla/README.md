# A TLA+ model of meshcore and Packet Highway

The repository holds two programs. `mesh/` is **meshcore**, a serverless
peer-to-peer messenger over BLE: a Rust core with one worker thread, a C ABI, a
C++ JSI host object and thin iOS, Android and TypeScript layers. `backend/` and
`frontend/` are **Packet Highway**, a network traffic visualizer in Python and
JavaScript. This directory holds TLA+ modules of their stateful parts, the TLC
configurations that check them on small instances, and proofs for TLAPS.

`PROJECT.json` lists the components, runs, mutants, findings, hazards and
theorems, and maps every definition to the source lines it stands for.

Source paths below are relative to `src/`; `core/` is short for
`mesh/rust/meshcore/src/`.

## 1. Inventory

### meshcore

One **worker thread** per node owns nearly all state. It takes one command from
an mpsc channel (or waits 250 ms), handles it, and ticks. Everything else talks
to it through the channel, through a few atomics and through three mutexes (peer
table, inbox, event sink).

| Component | State | Operations | Hard behaviour | What makes it correct |
|---|---|---|---|---|
| replay window `core/replay.rs` | per sender: epoch, highest counter, 64-bit bitmap | `admit` | reordering, duplicates, restarts, the shift at exactly 64 | a frame at most once; nothing in the window refused; sessions never interleave |
| outbox `core/outbox.rs` | map of pending frames, insertion order | `push`, `ack`, `take_due`, `wake_for_peer`, `drop_superseded_internal` | two structures to agree, a full queue, backoff, deadline | at most one receipt per message; given up only when due or crowded out |
| worker `core/lib.rs` | running flag, peer table, badge, sender chain, prekeys, caches | start, stop, send, ingest, tick | commands, timers and frames in any order; half-failed start or stop; one frame's arrival flushing the frames of others | the UI is never told more than is true; a message leaves the queue in the end |
| sender keys `core/senderkey.rs` | own chain; per peer up to two chains with skipped keys | next key, distribute, install, derive, commit | broadcasts and distributions reordered, eviction, rotation | both ends on the same key; spent keys stay spent; no access to the past |
| prekeys `core/prekey.rs` | current and retired secrets, generation | rotate, bundle, get | a rotation between sealing and a retry, restart at generation 0 | a retried message can be opened; correspondents converge on the current prekey; secrets die in time |
| relay cache `core/relaycache.rs` and the relay path in `lib.rs` | carried frames with age, dedup set | relay, store, take for peer, expire | copies on many paths, forgotten ids, acks that are lost | at most once; "delivered" is never a lie; bounded lateness |
| frames `core/frame.rs`, crypto `core/crypto.rs`, and the worker's choice of keys in `lib.rs` | per node: prekeys it holds, its chain and who has it, chains it was given | build, parse, relay, seal, unseal, hand over a chain | which key goes with which frame, damaged frames and those of other builds, limits of lengths, a rotation that stops half way | what is accepted was built by its sender; the padlock is honest; chains go to one peer at a time; no fallback to the group key |
| events `core/event.rs`, `mesh/js/src/events.ts` | none | encode, decode | two hand-written codecs, one of them at fixed offsets | JavaScript reads what Rust wrote |
| C ABI `mesh/rust/meshcore-ffi/src/c_api.rs`, JNI `android.rs` | handle, swappable sink behind an RwLock, a reference to the radio | create, free, calls, set sink, emit, receive | a callback in flight while the sink is cleared; a call that read its handle before the core was freed; a radio that refuses | no callback after teardown, no deadlock; the radio released once; no handle outlives its core; accepted commands are served |
| buffers `meshcore-ffi/src/buffer.rs`, `MeshRustBuffer.h` | one allocation | into raw, free, move | two owners | freed once |
| JSI host object `mesh/shared/cpp` | valid flag, handle, listener, dropped counter | install, onEvent, get, invalidate | worker thread against JS thread against module thread | as for the C ABI; drops counted |
| TypeScript API `mesh/js/src/index.ts` | handlers, listener | initialize, on, drain, send | pull and push of the same messages, throwing handlers | order; nothing lost |
| iOS and Android bridges and radios | module state, advertising slots, scan sets | install, invalidate, advertise, send | OS callbacks on their own queues, limited slots | the bridge frees the core once; frames are not lost to a full slot silently |

### Packet Highway

| Component | State | Operations | Hard behaviour | What makes it correct |
|---|---|---|---|---|
| live session `backend/live.py`, `app.py` | capped queue, drop count, sniffer | enqueue, pump, run, stop | capture thread, event loop and client end in any order | order, every drop told, the sniffer always stopped |
| packet summaries `backend/packets.py`, `synth.py` | none | summarize, generate | odd packets | total function |
| traffic controller `frontend/src/traffic.js`, pools `vehicles.js` | due queue, lane tails, convoys, free lists | ingest, schedule, spawn, release | admission while a lane is occupied; records recycled while others point at them | vehicles never overlap; no slot lost or used twice; every packet shown or counted |
| flows `flows.js`, DNS `dns.js`, stats `stats.js` | tables keyed by flow or transaction id, rings | observe, tick, prune | retransmissions, timeouts racing late answers, caps | each attempt counted once, in one outcome |
| playback `playback.js`, `main.js`, `sources.js` | cursor, clock, mode | play, seek, switch | seek in mid-play, stale answers after a mode switch | each packet once, in order, after any seek |
| scene and panels | GPU and DOM objects | draw | none | not a subject of this project |

## 2. Modules

| Module | Models | Kind |
|---|---|---|
| `ReplayWindow` | `replay.rs`, the sealing counter and epoch of a sender, the air | component |
| `Wire` | `frame.rs`, `crypto.rs` and the bodies of `prekey.rs` and `senderkey.rs`: frames, keys, sealing, one operator per function | data type, used by the next |
| `Sealing`, `MCSealing` | what a node seals frames with, accepts and answers: `seal`, `unseal`, `do_ingest`, `accept`, rotation; values for TLC | component |
| `SealingProofs` | the theorems of both | proofs |
| `EventWire` | `to_wire`, `mesh_peers`, `decodeEvent`, `decodePeers` | data type, used by the next |
| `Bridge`, `MCBridge` | a core under its native module, from creation to free, on iOS or Android; events for TLC | component |
| `BridgeProofs` | its theorems | proofs |
| `Outbox` | `outbox.rs`, one operator per method | data type, used by the next |
| `StoreForward` | the worker as a sender: commands, ticks, what it does to the outbox and tells the UI | component |
| `Receipts` | what a user sees of a message | abstract specification of `StoreForward` |
| `SenderKey` | `senderkey.rs` and its callers, one sender and one receiver | component |
| `Prekeys` | `prekey.rs` and its callers, owner and correspondent | component |
| `PrekeyLifetime` | `Prekeys` with a clock per secret | extends the former |
| `KeyProofs` | the theorems of `SenderKey`, `Prekeys` and `PrekeyLifetime` | proofs |
| `Filter` | `Vec::retain`, and deleting from a JavaScript map while it is iterated | operator, used by `Delivery`, the trackers and `Traffic` |
| `FilterProofs` | what it keeps, and lemmas about finite sequences | proofs |
| `Delivery` | sender, relays, recipient: relaying, carrying, acks, dedup | composition |
| `Mailbox` | what two users see | abstract specification of `Delivery` |
| `DeliveryProofs` | the theorems of `ReplayWindow` and `Delivery`, its refinement of `Mailbox` | proofs |
| `EventDelivery` | worker, sink lock, host object, JS thread, module teardown | composition |
| `WorkerProofs` | the theorems of `StoreForward` with `Outbox`, its refinement of `Receipts`; those of `EventDelivery` | proofs |
| `Capture` | packets on their way to the analysis | environment, used by the next two |
| `Flows` | `flows.js` among TCP clients and servers | component |
| `Dns` | `dns.js` among resolvers and DNS servers | component |
| `Trackers`, `MCTrackers` | both under one clock and one reset, as in `main.js`; symmetry and a schedule of retries for TLC | composition |
| `LiveSession` | `live.py`, `sources.js` and the page's handlers | composition |
| `VisualizerProofs` | the theorems of `Flows` and `Dns` under `Trackers`, and those of `LiveSession` | proofs |
| `Traffic` | `traffic.js` with the pools of `vehicles.js` | component |
| `Playback` | `playback.js` | component |
| `Road`, `MCRoad` | both as `main.js` drives and resets them; lanes, lengths and a capture for TLC | composition |
| `RoadProofs` | its theorems | proofs |

Each module keeps the names of the code, has one action per handler or step, its
properties after `Spec`, and last what the documentation says that the code does
not do. What is known of the types is a conjunct of the first invariant. Definitions whose comment starts with "Mutant" are
plausible mistakes, used to see that a property would notice them.

### How state and actions correspond

*ReplayWindow.* `replay` is the worker's map of windows, with the 64-bit word as
the set of its bit positions. `Seal` is `next_counter`, `Restart` a new process
with a later epoch, and the three admitted cases and three refusals of `admit`
are an action each. Frames that were sent stay in `sent` for ever, so the air
may delay, reorder and repeat without limit; loss is a frame never chosen.

*StoreForward.* The loop `recv_timeout -> handle -> tick` is `phase`. Each
command is one action with everything the handler does to the state: `do_send`
includes the eviction and its receipt, `accept` includes `touch_peer` with the
flush of woken frames, `tick` includes expiry, retransmission and the badge.
`rotate_sender_chain` serves the peers one by one since the set is a hash map.
Time passes only in `Clock`; timestamps are kept as distances from now. The
environment chooses commands and frames, and the radio may fail in start and
stop. Frame contents, beacons going out and relaying are not here.

*SenderKey.* A key is its place in the ratchet: `key = n` means n steps from the
chain's first key, so a derivation error is a wrong number. `Committed` is
`derive` then `commit`, `InstallForward`, `InstallRefused` and `InstallNew` are
the three ways through `ChainStore::install`. Distributions are a bag in flight:
the replay window admits each frame once. Broadcasts stay on the air. A frame
that fails to verify is `Reject`: the code derives, does not commit.

*Prekeys.* `Ring` is the set of secrets, `beacons` every published prekey (any
of them may arrive late), `held` what the correspondent installed, `mail` its
sealed messages with their age. `Rotate` is the whole tick branch: the ring
turns and a beacon goes out at once.

*Delivery.* `air` holds the copies of the current unit of time, which any node
may hear or miss. `Evict` is whatever else takes the message out of the outbox: one
pushed after it, which the user is told (`expired`), or a distribution or
`flush_woken`, which nobody is (`lost`). `seen` is the dedup cache, `admitted` what the replay window
of an end node let through, `cache` the carried frames. `Relay` is the whole
relay branch of `do_ingest`; `Discover` is `touch_peer` with `take_for_peer`. Both
this and `expire` keep some entries of a list in their order: `Retained`, given the
places to keep. (The sequence library has such an operator, but defines it by a
recursion that the provers cannot follow.)

*Wire.* A frame is the record of its fields as they stand in the buffer, with the
lengths the header claims beside what is there, so that `Parses` can find them at
odds. A derived key is the record of what it was derived from; a ciphertext opens
under the key, nonce and associated data it was made with, and `Aad` keeps every
field but `ttl`, `hops` and the ciphertext. Names have a width per character, so
that the cut at `MAX_NICKNAME` bytes can fall inside one.

*Sealing.* `known` holds the prekeys of peers, `chain` and `sharedWith` the own
chain and who has it, `chains` what others gave. `Start` is `do_start` with its
beacon, and also the beacon of `tick`. `do_ingest` is split by what becomes of the
frame: `HearOwn`, `Overhear`, and one `Accept...` for each kind, each with the
frame it answers with and the copy it floods. `RotateChain(n, served)` is
`rotate_sender_chain` stopped after `served`: the first failure ends it. `built`,
`accepted` and `lapsed` are history. Frames stay on `air`; `Damage` puts a copy with
one field changed beside them, `OtherBuild` a frame whose preamble does not go with
its recipient, the mix-up `parse` refuses.

*EventWire.* A buffer is its length and the fields Rust has appended, each with
the offset it came to and its width; `w & field` appends one. The decoders know
only offsets: where no field of that width begins they read garbage, so a missing
pad shows. `peers_wire` and `decodePeers` are the two loops.

*Bridge.* A handle is the number of its core; a call is two steps, one that reads
the handle (`Begin`) and one that uses it (`HostCall`, `ScanCall`), so a teardown
may come between. `ForgetHost`, `ForgetRadio`, `Free`, `Freed` are `invalidate` in
its order; `Freed` waits for the worker's thread, since `Drop` joins it. `Radio` is
what each platform makes of a missing callback, a refusal or an exception. A
worker's step is one command with the tick after it, and the event it reports.

*EventDelivery.* Three threads with the steps at which they can be interleaved:
the worker makes an event and puts it in the inbox, then reads the sink, calls,
checks `valid_`, posts; the JS thread installs a host (revoking, unregistering
and forgetting the last one), drains step by step, runs posted events; the module
thread takes the last host down, frees the core and joins the worker. The read
guard of the sink is `SinkWritable`.

*Flows, Dns, Trackers.* A packet is its kind and the connection or lookup it is
of; `wire` holds those the tracker has not analysed, with their age, up to `LAG`.
The JavaScript maps are sequences, because their order of insertion decides what
a cap evicts. Every branch of `add` is an operator and `FlowTick` and `DnsTick`
are whole calls. Timestamps are kept as ages, so only `Clock` changes them; the
environment retransmits after `Interval[0]`, `Interval[1]`, ... units, answers,
refuses, aborts, repeats. `ResetWorld` empties both trackers while connections go on, with or without what was on its way. The constants' fit is an assumption with a name:
a retry comes within `REFAIL_WINDOW` of the failure, and the analysis is never later
than a timeout is long. `tick` prunes `recentFail` when it has more than `FAIL_CAP`
entries (500 in the code), by its own clock: `Outdated`. A failure it prunes while a
packet that late could still belong to it is in `crowdedOut`, like what a cap removed.

*LiveSession.* Everything is indexed by session, since a session may outlive the
click that stopped it: `run` and `pump` are its two tasks, each atomic between
awaits, `callbacks` the `call_soon_threadsafe` queue, `down` what is in the
socket. `StartOver` is the `resetWorld` of a seek or of a file that is loaded while a
capture runs; `shown` goes on over it, since what comes twice is to be seen. `ws` is the source's socket and `attached` the sockets with handlers. A
send on a socket that is gone fails. A started sniffer is assumed to stop when
told to, and a broken connection to be noticed by both ends at once.

*Traffic, Playback, Road.* A pool is the sequence of its vehicles, oldest first,
since JavaScript's `Map` keeps the order of insertion and an exhausted pool takes
the first. A vehicle has its lane, its file (`sub`), its distance from the gate,
its length and its packets; `tails` names the vehicle admission looks at, which may
be gone. A frame is the steps of `update()` in their order, so that one packet or
one burst is an action: `ScheduleNext`, `BeginFlush`, `FlushNext`, `Move`. Handlers
run between frames. How many packets of the queue are due is left open, which
covers any spreading of a batch. `Playback` has the binary search and the loop of
`tick` as they are; `Road` adds the handlers and what each of them resets.

## 3. Runs

Eleven runs check the modules, one per component; the longest takes some two
minutes on two workers. Liveness is checked in the same run as safety, under the
fairness stated below. The types of a module are a conjunct of one of its
invariants, the first in the table.

| Run | Checks | Bounds, and why they suffice |
|---|---|---|
| `ReplayWindow` | `WindowInv`, `AtMostOnce`, `NeverRefuseInWindow`, `SessionsInOrder` | Window of 2, counters to 4: jumps below, at and above the width, gaps filled, frames older than the window; two sessions. The senders do not interact, so one is enough; the proofs cover the rest. |
| `StoreForward` | `UiHonest`, `GivenUpOnlyWhenDue`, `ImplementsReceipts`, `Settles` | Two messages, two peers, a queue of two: messages and distributions push each other out in every combination. Backoffs of one and two, a deadline of two: an entry is retried once, and may expire before or at its second attempt; a worker that may be arbitrarily late. |
| `SenderKey` | `InStep`, `PastStaysShut`, `KeysLost` | Two chains of four keys and a store of one, so a rotation evicts; two distributions on their way at once, so they overtake each other; skips of two and a cache of one, so that it overflows and jumps are refused. |
| `Prekeys` | `ExposureWhileRunning`, `RetriesOpen`, `Heals` | `RETAINED * ROTATE_INTERVAL = DEADLINE`, the tightest the assumption allows; two retired secrets and three rotations, so a secret lives its whole life; two sessions. A timely owner. |
| `Sealing` | `Authentic`, `PadlockHonest`, `ChainsHandedOver`, `Fits`, `NoDowngrade` | Two nodes, one of which writes, stops and rotates its chain while the other answers and rotates its prekey; six frames, or three and one that comes of a fault: a beacon each way, a chain handed over, a rotation, a broadcast and its predecessor. A nickname one byte too long, bodies of `MAX_BODY` and one more. The proofs cover more nodes, frames and faults. |
| `Bridge` | `RadioReleasedOnce`, `HandlesLive`, `AcceptedServed`, `DecodedAsSent` | Two cores one after the other, so that a handle may be stale; two commands, so that one waits while the other is served; every event with its fields at their limits, lengths below and above each limit. `up` keeps the last buffer only, since decoding depends on nothing else. |
| `Delivery` | `CarriesOnlyForAbsent`, `ImplementsMailbox`, `LateBound` | Two relays, three hops, a cache of one (message and ack compete), deadline and TTL 2, a recipient that forgets ids, an outbox that may give up a message at any age. |
| `EventDelivery` | `NoLateCallback`, `MessagesKept`, `FirstSightInOrder`, `CallsReturn` | Three events, an inbox of two, two hosts: overflow, and a reload at every step. |
| `Trackers` | `CountedOnce`, `TimeoutsHonest`, `OpenIsExact` | Two connections, two lookups and one that is discovery, at most two of them begun; every cap is one, so each insertion may evict and a second failure prunes; two retries, one before its SYN times out and one in the refail window after; packets analysed up to two units late, so that what is out of that window by the clock may be in the window of a packet under way; any number of resets. |
| `LiveSession` | `Accounted`, `ShownWhileRunning`, `TroubleTold`, `SnifferStopped` | Two captures that may overlap in their ends, three packets: a queue of two overflows, a batch of one leaves some queued. |
| `Road` | `Timeline`, `NoOverlap`, `BurstsLeave` | A slow and a fast lane, frames of up to two units, three live packets of any lane and type, convoys that stop growing at three, and a capture of six that is played at two speeds, paused and sought: both files fill up, a burst of one and one of two gather, the car pool takes the tail of a file, the queue goes stale. |

Deadlock is checked in all but the `EventDelivery` run: that system stops when
its module was invalidated and its events are used up.

`StoreForwardReceiptsComplete` ends with a counterexample, the finding of section
6. Its deadline is 3 and its worker timely, so that what it finds is not due to a
late one.

The history variables (`accepted`, `built`, `receipts`, `handled`, ...) are what a
user or a test could have seen; no guard reads them but to bound how much happens.
Bounds that are not constants of the code are marked "bound:" where they are
declared.

### Fairness

`StoreForward!FairSpec`: the worker's loop goes on (`recv_timeout` returns after
250 ms at the latest, `tick` follows always), and time passes. Nothing is assumed
of commands, radio or peers. `Prekeys!FairSpec`: a running node beacons (every
two seconds in `tick`) and a beacon of its current prekey gets through if it is
current for ever; no single beacon need arrive. `EventDelivery!EventFairSpec`: a
thread inside a call takes its next step when it can. The app need not drain, and
the worker need not make events. `LiveSession!FairSpec`: the event loop runs its
callbacks and tasks and the page its messages; no capture need start or stop and no
packet come. `Road!FairSpec`: a frame that began ends (it is one call), and frames
in which time passes begin again and again: the road is not frozen for ever.
The other modules have no liveness property: nothing in the code promises that a
frame arrives, and what `Bridge` promises of a command holds when `free` returns.
Fairness does not restrict what the invariants see: they hold in every reachable
state.

### Time

`Timely` says that a worker never lets a due entry wait for a tick while a unit
of time passes. It is TRUE where time is bounded from above (`Prekeys`, and the
finding about receipts), FALSE in `StoreForward`. Clocks do not go backwards,
save where `ReplayWindow` lets a restarted sender come with any later epoch and
`StaleEpoch` covers an earlier one. Real constants of time and size (64 counters,
2 minutes, 256 entries, ...) are parameters; in `Wire`, `EventWire` and `Bridge`
sizes are those of the code.

## 4. Proofs

Every theorem is for all values of the constants that satisfy the named
assumptions of its module, which TLC evaluates in the run.

| Module | Theorem | States |
|---|---|---|
| `DeliveryProofs` | `WindowInvariant` | `WindowSpec => []WindowInv`, with `WindowExact` in it |
| | `WindowTypeCorrect` | `WindowSpec => []WindowTypeOK` |
| | `DeliveredAtMostOnce` | `WindowSpec => []AtMostOnce` |
| | `InWindowAccepted` | `WindowSpec => NeverRefuseInWindow` |
| | `SessionsDeliveredInOrder` | `WindowSpec => SessionsInOrder` |
| | `DeliveryInvariant` | `Spec => []IInv` |
| | `RelaysCarryForAbsentPeers` | `Spec => []CarriesOnlyForAbsent` |
| | `TwoUsersSeeAMailbox` | `Spec => ImplementsMailbox` |
| | `NothingComesTooLate` | `Spec => LateBound`, where no relay forgets ids |
| `SealingProofs` | `BuildParses` | what `build` returns is parsed as what it is, and fits `MAX_FRAME` |
| | `SealingInvariant` | `Spec => []IInv` |
| | `OnlyBuiltAccepted` | `Spec => []Authentic` |
| | `PadlockTrue` | `Spec => []PadlockHonest` |
| | `ChainsNeverBroadcast` | `Spec => []ChainsHandedOver` |
| | `FramesFit` | `Spec => []Fits` |
| | `BroadcastsKeepTheRatchet` | `Spec => NoDowngrade` |
| `BridgeProofs` | `BridgeInvariant` | `Spec => []IInv` |
| | `RadiosReleasedOnce` | `Spec => []RadioReleasedOnce` |
| | `HandlesNeverDangle` | `Spec => []HandlesLive` |
| | `CommandsServed` | `Spec => []AcceptedServed` |
| | `ReadAsWritten` | `Spec => []DecodedAsSent` |
| `KeyProofs` | `PrekeyInvariant` | `Spec => []IInv` |
| | `RetriesCanBeOpened` | `Spec => []RetriesOpen` |
| | `SecretsForgotten` | `LifeSpec => []ExposureWhileRunning`, for a `Timely` owner |
| | `ChainInvariant` | `ChainSpec => []ChainInv` |
| | `BothInStep` | `ChainSpec => []InStep` |
| | `PastClosed` | `ChainSpec => []PastStaysShut` |
| | `OnlyNamedLosses` | `ChainSpec => KeysLost` |
| `WorkerProofs` | `WorkerInvariant` | `Spec => []IInv` |
| | `BadgeAndStateHonest` | `Spec => []UiHonest` |
| | `NothingGivenUpEarly` | `Spec => GivenUpOnlyWhenDue` |
| | `WorkerImplementsReceipts` | `Spec => ImplementsReceipts` |
| | `DeliveryInvariant` | `EventSpec => []EventIInv` |
| | `NoCallbackAfterTeardown` | `EventSpec => []NoLateCallback` |
| | `NoMessageLost` | `EventSpec => []MessagesKept` |
| | `MessagesSeenInOrder` | `EventSpec => []FirstSightInOrder` |
| `VisualizerProofs` | `TrackerInvariant` | `Spec => []IInv` |
| | `OneFailureEach` | `Spec => []CountedOnce` |
| | `ShownIsOpen` | `Spec => []OpenIsExact` |
| | `TimeoutsAreReal` | `Spec => []TimeoutsHonest` |
| | `LiveInvariant` | `LiveSpec => []LiveInv` |
| | `PacketsAccounted` | `LiveSpec => []Accounted` |
| | `NothingAfterStop` | `LiveSpec => ShownWhileRunning` |
| `RoadProofs` | `RoadInvariant` | `Spec => []RoadInv` |
| | `RoadTimeline` | `Spec => []Timeline` |
| | `RoadClear` | `Spec => []NoOverlap` |

*Replay window.* `AtMostOnce` alone is not inductive: it does not say that the
bitmap remembers what was accepted. `WindowExact` does: a sender's window has bit i
set just when frame `highest - i` of its epoch was accepted, nothing past `highest`
was, nothing of a later epoch was. `WindowInv` is `WindowTypeOK`, `AtMostOnce` and
`WindowExact`, and TLC checks it too. The work is in the shift: that bit i after a
jump is bit `i - shift` before it, and that what falls off the end is just what
`Vouches` refuses afterwards. The two action properties follow from `WindowInv` and the
case of `admit` that the step took. Assumed: a positive width, natural bounds, and
a value for "no window" that is not a window.

*Sealing.* That what is accepted was built says nothing of the frames not yet
accepted, so it is not inductive. `IInv` speaks of every frame there is: what was
built is `Genuine` (its ciphertext is bound to its header, it parses, it fits, and a
chain in it is its sender's, sealed under a prekey of its recipient), what is on the
air is `Heard` (if it parses and has a ciphertext, a built frame has the same), and
what was accepted is `Honest`. A node opens a frame only if its header is the one
the ciphertext was bound to; `AadBinds` makes the two frames the same but for `ttl`
and `hops`, which is `Authentic`. `FlagsAnnounce` and the pairing of preamble and
recipient in `Parses` give `PadlockHonest`. `Handed` is what `ChainsHandedOver`
says, and `Kept` what `NoDowngrade` needs: a node that has sealed with its chain
has correspondents, and shares its chain with one of them unless a rotation failed.
Assumed: finitely many nodes, none of them the broadcast id; nicknames of whole
characters; natural bounds. No bound on frames, faults or rotations is used.
`BuildParses` needs only the sizes of `frame.rs`; that a cut nickname fits is the
arithmetic of its four widths.

*Bridge.* None of its three properties is inductive. A radio is released once
because only the core the module owns can be at work (`Owned`), and it stays at
work until `Shutdown` reaches the head of its queue, which only `Free` puts there
(`Ledger`); handles are gone before their core because `invalidate` forgets them in
that order (`Forgotten`). `Ledger` also says that what was accepted is what was
served followed by what waits, which gives `CommandsServed`: what precedes the
`Shutdown` was served, in order. The codec is apart from all this: a buffer grows
only at its end, so no two fields of one width begin at one offset (`InOrder`), and a
decoder that comes to the offset of a field finds that field. The two loops over the
peer table are followed from a smallest row at which they would disagree. Assumed:
the events and peer tables of the run are in `Events` and sequences of `PeerInfos`,
that is, as wide as the code's types.

*Event delivery.* A late callback needs a sink that outlives its host. `EventIInv` says
that the sink is the last host or none, that it was cleared before the host forgot
its core, and that it does not change while a callback holds the lock. For
`MessagesKept` it says that the inbox is in the order of arrival: what pushed a
message out is then as much as the inbox holds, and younger. That messages are first
seen in order is not in `EventIInv`: a second invariant on top of it says that what is
posted is posted in the order of making, that only the last host is valid and only
while it is the sink, and that once a drain has ended whatever the inbox holds is on
its way to that host, too. Assumed: an inbox that holds at least one message.

*Prekeys.* That the ring still holds a secret says nothing of the next rotation. In
`IInv` the ring is the last generations without a gap (`RingExact`), and a message
whose prekey was replaced n rotations ago is as old as n - 1 intervals and the time
since the last one (`Aged`): to outlive the ring it would have to outlive the outbox,
which is the constraint between the two constants (`RetentionAssumption`). `Awake`
counts the same intervals from the other side, and is what `SecretsForgotten` needs;
it alone assumes an owner that does not miss a rotation.

*Sender keys.* `ChainInv` ties the peer's chains to the sender's: an inbound chain opens
only keys from where it was given on (`NoRetroactiveAccess`), each of its kept keys is
its own and behind its index, the store has one chain per id, and what opened a
broadcast is behind the chain and not kept (`SpentIsBehind`). A distribution replaces
a chain only when it is ahead of it, so nothing spent comes back. Assumed: natural
caps, and room for one chain at least.

*Store and forward.* That `push` finds one entry to evict, and only one, is not to be
had from its bound: `IInv` says that `order` is a strict linear order of what is
queued (`Linear`), so that a first entry exists by well-foundedness and is unique. A
message that is queued has had no receipt (`Unsettled`), which makes every receipt
the only one. One lemma, `QuietStep`, is about all the steps in which the user is
told nothing: messages may vanish in them, but only what is due, or out of a full
queue. The refinement maps a message to its `Outcome`; each action is a step of
`Receipts` or changes no outcome. Assumed: a positive capacity, backoff, deadline and
time to live, and message ids that are no peers.

*Delivery.* A relay carries only for absent peers because discovery hands over all it
has for one (`Absent`). `Sealed` says that a frame on the air or in a cache was sent:
the ack only once the message is in the inbox, so "delivered" is no lie; `Once` that
the inbox has a message just when the window of its recipient let it through. The
refinement of `Mailbox` follows, every relay's step being a stutter. `LateBound` needs
a third invariant (`InTime`): relays pass a message on, each holds it for less than
one `TTL`, and each does so once, for it remembers the id; so a copy is no older than
the deadline and one `TTL` for every relay that knows it. `NothingComesTooLate` assumes
just that no relay forgets ids, as the property is false otherwise.

*Trackers.* The counters say little of the future, so `IInv` speaks of the packets
under way. `Chained`: the next SYN of a client, if there is one, is or will be captured
no later than `Apart` after the last; which next SYN there is decides whether a
failure is counted again, so `Failures` has a set of connections that were counted as
failed, whose later SYNs are `Followed` within the window of the failure. The sets in
`Failures` and `Established` are quantified: the trackers count, they do not remember
whom. `Seen` says that a SYN of a client that waits is in the tracker or on the wire and
young enough not to lapse before its answer, which comes behind it. For DNS, a query is
`Superseded` by a later packet of the same lookup before it may lapse, or it is the
client's last, and then `slow` records it. A reset takes the trackers, not the wire, and
what the hosts owe the wire (`WireRight`) does not depend on the trackers. A failure that
is pruned and not in `crowdedOut` has no SYN to come (`LongAgo`). A step takes a packet off the wire, ages
all, or puts one at its end, and each part of `IInv` is shown for these three once.
Assumed: the fit of the retry schedule to the window, and a lag no longer than either
timeout.

*Live session.* A packet goes through four stages, from the callbacks of the thread to
the queue, the messages and the page. Each is in order and the whole of it lies before
the next (`InOrder`), and no packet is later than what was captured (`Honest`); so the
stages have nothing in common, and a step that moves packets from one to another keeps
the count, and one that drops a packet raises `dropped` by one. What makes
`ShownWhileRunning` hold is that only the session of the page's own socket is connected,
that what is not connected has no messages on their way, and that while a capture runs
everything shown is its own (`OneRuns`). Assumed: a queue and a batch of one at least.

*Road.* `NoOverlap` is about all pairs of a file, and `roomIn` measures one vehicle.
`Behind` closes the gap: while no exhausted pool has taken it, the vehicle that `tails`
names is on the road and none of its file is nearer to the gate, so what is clear of it
is clear of all (`GateClear`). A lane moves as one, so the distances stay, and the tail
goes past the exit only when all before it have (`MoveClear`). `Timeline` follows a
packet from `ToCome` by way of a burst or at once to a vehicle: what is to come is in
turn (`Lined`); a burst is the only one of its lane and later than all that drives
there (`Gathered`, `Driven`), which is why a packet that joins it overtakes nothing, and
why one that drives needs `PendingIn` to be empty; and a live packet is later than
`received`, a played one later than the cursor (`LastId`, `Later`), whichever mode
numbers them, for every change of mode resets the road. `PlaybackInv` has
`CursorExact`; that a seek restores it needs the binary search to be right
(`SearchIs`: what is before `lo` is earlier, what is from `hi` on is not, and each
round brings them closer). Assumed: captures are sorted and not empty, their packets
have a lane and a type that is not the convoy, and speeds, lengths and pools are
positive.

*Induction.* What the recursive functions compute (`Retained`, the peer table, the
skipped keys, the rounds of a seek) is proved from a smallest counterexample: a set of natural numbers that
is not empty has a smallest element, which is a fact about a well-founded relation and
takes no operator as a parameter.

TLC checked the properties in small instances before they were proved, and for
`ReplayWindow`, `Sealing` and `Bridge` the strengthened invariants too. Every
invariant and action property of the runs is a theorem, and so are both
refinements. Only model-checked is liveness, which is beyond the prover (`Settles`,
`Heals`, `CallsReturn`, `TroubleTold`, `SnifferStopped`, `BurstsLeave`).

## 5. What is not modelled

- Hashing, signing and AEAD: they are ideal in `Wire`, and random draws never
  repeat. The bit fiddling of `crypto.rs` is left to its tests, and so is the
  persistence of the identity.
- Buffers shorter than a header, which `parse` refuses before reading any field.
- `buffer.rs` and `MeshRustBuffer.h`: each owns its allocation by RAII and is freed
  in one place, on one path; there are no steps to interleave.
- The radios: `Delivery` lets any node hear any copy or miss it, `Sealing` lets any
  frame be late or lost, which covers the single `pendingFrame` of the iOS radio
  and the advertising slots of Android. Which nodes are in reach is not modelled.
- A module method that runs while another does (`installJSI` and `invalidate` on two
  threads, MeshCoreModule.kt:94): nothing in the code orders them, and a call with
  a core that was freed under it has no defined outcome to state properties about.
- Failure to seal: the only causes are a missing random source and exhausted
  counters. `Sealing!RotateChain` has what it does to a rotation.
- `android.rs` beyond its calls, its radio and its teardown: the marshalling.
- Drawing and layout. Of the road also flares, the spotlight, the glow, due times,
  and the mesh instance a vehicle occupies.
- `NoOverlap` says nothing once an exhausted pool has taken the last vehicle of a
  file (`tailTaken`), for `roomIn` then finds the gate free.
- A frame of the page with a time before the last one: the first animation frame
  after a tick of a hidden tab may have a slightly older timestamp (main.js:240-242,
  340-342), and the road goes back by that much. All vehicles of a lane do, so their
  distances stay. `Road!Step` moves forward or not at all.
- Of the trackers: sequence numbers, server names, round-trip times and the log.
- Of the live session: the demo stream.
- `packets.py`, `synth.py`, `stats.js`: functions of one packet, a generator and sums
  for display.
- Two equal random ids or chain ids.

## 6. What the runs found

`StoreForwardReceiptsComplete`: a message past its deadline that is taken by the
flush for a discovered peer is dropped without `messageExpired`; so is one that a
distribution pushes out of a full outbox. `PROJECT.json` quotes the sentence the
code departs from.

Other departures from the documents that were met but no run is spent on:

*Store and forward*

- The flush for one peer consumes the due retries of the others, which then wait
  longer than the longest backoff (lib.rs:1117, against outbox.rs:40).
- The carry time starts at each relay, so a message may arrive after its sender was
  told it expired (relaycache.rs:147, against relaycache.rs:40-44).
- A message that evicts a distribution makes the UI report an expiry of something
  the user never sent (`StoreForward!SendDirected`; lib.rs:547, outbox.rs:18-19). So
  does a message to the all-zero id: it is sealed as a broadcast, yet queued.
- A start that fails at its beacon leaves `running` set, with only an `Error` event.

*Keys*

- A newer distribution of a held chain throws away the keys kept for broadcasts
  still under way (`SenderKey!InstallForward`; senderkey.rs:36-39).
- A distribution that comes after its chain was evicted brings spent keys back
  (`SenderKey!InstallNew`, exempted in `PastStaysShut`; senderkey.rs:567-568).
- A message sealed to a prekey its owner had already replaced may be retried
  after the secret is gone: `RetriesOpen` speaks of messages sealed to the
  current prekey only (prekey.rs:27-29).
- A stopped node neither rotates nor forgets: `ExposureWhileRunning` counts
  running time only (prekey.rs:22-24).
- A rotation that fails at one peer leaves the peers after it without the chain, and
  if it is the first, broadcasts go out under the group key: `NoDowngrade` exempts
  nodes in `lapsed` (lib.rs:931-942).
- A beacon heard while stopped installs the prekey without sending the chain
  (`Sealing!AcceptBeaconOnly`), and the next beacon has nothing new.
- `do_ingest` remembers a message id before it has authenticated the frame
  (lib.rs:656, against 667), so a damaged copy, or one that comes before its key,
  keeps the good copy out.
- `Config.channel_secret` is said to stop unrelated meshes from relaying for each
  other (lib.rs:143-150); relaying needs no key (lib.rs:682-687), and a directed
  frame is not bound to the channel.

*Bridge*

- Events posted before a reload are dropped on the JS thread without being counted
  (`EventDelivery!RunStale`; ARCHITECTURE.md:295-296).
- Messages pushed to the listener are drained once more (`EventDelivery!Take`;
  MeshCoreHostObject.cpp:264), and notices emitted without a sink are gone
  (`EmitUnheard`; mesh/js/src/index.ts:131).
- A command sent while `free` joins the worker is accepted with `Ok` and never
  served; `AcceptedServed` speaks of those before the `Shutdown`.
- `mesh_core_new` says `destroy` has been invoked by the time it returns, whether it
  succeeds or fails (c_api.rs:340-342); when it succeeds, that comes with `free`.
- `nativeStart`, `nativeStop` and `nativeIngest` return an error for a null handle
  without `set_last_error` (android.rs:285, 303, 395), and ingest does allocate and
  lock in its critical section (383-384).
- A too long advertisement is cut on iOS and dropped on Android (`Bridge!Begin`).

*Visualizer*

- With more than 500 failures remembered, a SYN analysed late may find the failure it
  belongs to pruned, and fail once more (`Flows!Outdated`, exempted in `CountedOnce`;
  flows.js:183-187).
- Loading a file under a live capture, or scrubbing it, zeroes the drops on display
  until the next packets come, since `resetWorld` resets them in any mode
  (`LiveSession!StartOver`; main.js:202-220).
- A vehicle that enters while a spotlight is on is not dimmed: `afterSpawn` reads
  `highlightKey`, which nothing sets (traffic.js:196, against traffic.js:284-285).
- A capture whose upload ends after the page went back to live mode resets the live
  road (`Road!LoadTimeline` in any mode; main.js:207-220).

## 7. Plan

Done: the meshcore core (replay window, outbox and worker, sender keys, prekeys,
frames and sealing, multi-hop delivery), the bridge with its codec and event
delivery, two abstract specifications, the visualizer's trackers, live session,
road and playback; the theorems of all of these, and both refinements.

What is left is what no module has: the hazards without a property, whose notes in
`PROJECT.json` say why, and the parts of section 5. Liveness stays with TLC.
