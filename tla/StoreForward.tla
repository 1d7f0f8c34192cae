---------------------------- MODULE StoreForward ----------------------------
(***************************************************************************)
(* The worker thread of a meshcore node (mesh/rust/meshcore/src/lib.rs) as  *)
(* the sender of directed messages: what it does to its outbox and to the   *)
(* receipts the UI sees.                                                    *)
(*                                                                          *)
(* The worker loop takes one command, handles it, and then always ticks:    *)
(* phase is "recv" before a command, "tick" after it, and "share" while a   *)
(* rotation of the sender chain hands the new chain to one peer after the   *)
(* other.  Each handler is one action.  Other threads see the state between *)
(* the phases (running, the badge), and time passes between any two.        *)
(*                                                                          *)
(* The commands come from the mpsc channel: which one is next is the        *)
(* environment's choice.  Of an inbound frame only what reaches accept with *)
(* a fresh verdict is here; ReplayWindow.tla is about the rest.  What the   *)
(* prekeys and the sender chain do beyond queueing a distribution is in     *)
(* SenderKey.tla and Prekeys.tla.  Sealing does not fail here.              *)
(*                                                                          *)
(* A message is known by its id.  At most one sender-key distribution is    *)
(* queued per peer, so its id is represented by the peer itself.            *)
(***************************************************************************)
EXTENDS Outbox, Sequences

CONSTANTS
  Peers,     \* the other nodes
  UserMsgs,  \* ids of the messages the user sends, each sent once
  PEER_TTL,  \* a peer silent this long leaves the table
  Timely     \* the worker never lets a due entry wait for its tick

ASSUME StoreForwardAssumption ==
  /\ UserMsgs \cap Peers = {}
  /\ PEER_TTL \in Nat \ {0}
  /\ Timely \in BOOLEAN

Ids == UserMsgs \cup Peers

VARIABLES
  phase,        \* where the worker loop is
  running,      \* the running flag
  uiRunning,    \* the last transport state the UI was told
  peers,        \* the peer table: peer -> how long it has been silent
  prekeyed,     \* the peers whose prekey is installed
  toShare,      \* the peers a chain rotation has still to serve
  pending,      \* Outbox.pending
  before,       \* Outbox.order
  badge,        \* outbox_len, the count the UI shows
  status,       \* message -> "new", "refused", "broadcast" or "queued"
  receipts      \* message -> the receipts the UI got for it, in order

outbox == <<pending, before>>
uiVars == <<badge, status, receipts>>
nodeVars == <<running, uiRunning, peers, prekeyed, toShare>>
vars == <<phase, running, uiRunning, peers, prekeyed, toShare,
          pending, before, badge, status, receipts>>

-----------------------------------------------------------------------------
Init ==
  /\ phase = "recv"
  /\ running = FALSE
  /\ uiRunning = FALSE
  /\ peers = [p \in {} |-> 0]
  /\ prekeyed = {}
  /\ toShare = {}
  /\ pending = [i \in {} |-> 0]
  /\ before = {}
  /\ badge = 0
  /\ status = [m \in UserMsgs |-> "new"]
  /\ receipts = [m \in UserMsgs |-> << >>]

\* The UI hears the same outcome for each of the given ids.  What it hears of an
\* evicted distribution is no message of the user's.
Report(ids, outcome) ==
  receipts' = [m \in UserMsgs |->
                 IF m \in ids THEN Append(receipts[m], outcome) ELSE receipts[m]]

SyncBadge == badge' = Cardinality(UserIds(pending'))

-----------------------------------------------------------------------------
(* Commands from JavaScript.                                                *)

\* start_scanning failed: nothing happened but an error event.
StartFails ==
  /\ phase = "recv"
  /\ phase' = "tick"
  /\ UNCHANGED <<nodeVars, outbox, uiVars>>

\* Scanning started but the first beacon failed: the node runs, and the UI
\* gets an error event in place of the transport state.
StartNoBeacon ==
  /\ phase = "recv"
  /\ phase' = "tick"
  /\ running' = TRUE
  /\ UNCHANGED <<uiRunning, peers, prekeyed, toShare, outbox, uiVars>>

Start ==
  /\ phase = "recv"
  /\ phase' = "tick"
  /\ running' = TRUE
  /\ uiRunning' = TRUE
  /\ UNCHANGED <<peers, prekeyed, toShare, outbox, uiVars>>

\* Stopping failed: in stop_advertising, or after it in stop_scanning.
StopFails ==
  /\ phase = "recv"
  /\ phase' = "tick"
  /\ UNCHANGED <<nodeVars, outbox, uiVars>>

Stop ==
  /\ phase = "recv"
  /\ phase' = "tick"
  /\ running' = FALSE
  /\ uiRunning' = FALSE
  /\ UNCHANGED <<peers, prekeyed, toShare, outbox, uiVars>>

\* The node is not running: the caller holds an id and gets an error event.
SendRefused(m) ==
  /\ phase = "recv"
  /\ ~running
  /\ status[m] = "new"
  /\ phase' = "tick"
  /\ status' = [status EXCEPT ![m] = "refused"]
  /\ UNCHANGED <<nodeVars, outbox, badge, receipts>>

\* A broadcast is reported delivered as soon as it is on the air.
SendBroadcast(m) ==
  /\ phase = "recv"
  /\ running
  /\ status[m] = "new"
  /\ phase' = "tick"
  /\ status' = [status EXCEPT ![m] = "broadcast"]
  /\ Report({m}, "delivered")
  /\ UNCHANGED <<nodeVars, outbox, badge>>

\* A directed message goes on the air and is held until its recipient acks.
SendDirected(m, p) ==
  /\ phase = "recv"
  /\ running
  /\ status[m] = "new"
  /\ phase' = "tick"
  /\ status' = [status EXCEPT ![m] = "queued"]
  /\ pending' = Pushed(pending, before, m, p, "User")
  /\ before' = PushedOrder(pending, before, m)
  /\ Report(Evicted(pending, before, m), "expired")
  /\ SyncBadge
  /\ UNCHANGED nodeVars

-----------------------------------------------------------------------------
(* Inbound frames: do_ingest, from accept on.                               *)

\* touch_peer: a peer that was not in the table has its queued frames woken,
\* and if that woke any, everything due is taken from the outbox and what is
\* addressed to the peer goes on the air.
Discovers(p) == p \notin DOMAIN peers /\ Woken(pending, p) # {}

Touched(p) == IF Discovers(p) THEN AfterTakeDue(AfterWake(pending, p)) ELSE pending

TouchedOrder(p) == OrderWithout(before, DOMAIN pending \ DOMAIN Touched(p))

Hear(p) == peers' = [q \in DOMAIN peers \cup {p} |-> IF q = p THEN 0 ELSE peers[q]]

\* A fresh frame from p that clears nothing and brings no newer prekey: a
\* message or a distribution, which is acked, a beacon, an unsolicited ack.
IngestOther(p) ==
  /\ phase = "recv"
  /\ phase' = "tick"
  /\ Hear(p)
  /\ pending' = Touched(p)
  /\ before' = TouchedOrder(p)
  /\ UNCHANGED <<running, uiRunning, prekeyed, toShare, uiVars>>

\* An ack from p of a frame that is still queued once p was touched, whoever the
\* frame was for: ack() looks at the id alone.
IngestAck(p, i) ==
  /\ phase = "recv"
  /\ i \in DOMAIN Touched(p)
  /\ phase' = "tick"
  /\ Hear(p)
  /\ pending' = Without(Touched(p), {i})
  /\ before' = OrderWithout(TouchedOrder(p), {i})
  /\ Report({i} \cap UserIds(Touched(p)), "delivered")
  /\ SyncBadge
  /\ UNCHANGED <<running, uiRunning, prekeyed, toShare, status>>

\* send_sender_key on the outbox given as q and o: the distribution replaces
\* the one still queued for p.  What push evicts for it is not looked at.
Distribute(q, o, p) ==
  LET kept  == Without(q, Superseded(q, p))
      order == OrderWithout(o, Superseded(q, p))
  IN  /\ pending' = Pushed(kept, order, p, p, "Internal")
      /\ before' = PushedOrder(kept, order, p)

\* A beacon with a prekey newer than the one installed for p.
IngestBeacon(p) ==
  /\ phase = "recv"
  /\ phase' = "tick"
  /\ Hear(p)
  /\ prekeyed' = prekeyed \cup {p}
  /\ IF running
     THEN Distribute(Touched(p), TouchedOrder(p), p)
     ELSE pending' = Touched(p) /\ before' = TouchedOrder(p)
  /\ UNCHANGED <<running, uiRunning, toShare, uiVars>>

-----------------------------------------------------------------------------
(* Housekeeping.                                                            *)

\* recv_timeout ran out: no command, straight to the tick.
Timeout ==
  /\ phase = "recv"
  /\ phase' = "tick"
  /\ UNCHANGED <<nodeVars, outbox, uiVars>>

\* peer_lost for every peer that was silent too long.
ExpirePeers == peers' = Restrict(peers, {p \in DOMAIN peers : peers[p] < PEER_TTL})

TickStopped ==
  /\ phase = "tick"
  /\ ~running
  /\ phase' = "recv"
  /\ ExpirePeers
  /\ UNCHANGED <<running, uiRunning, prekeyed, toShare, outbox, uiVars>>

\* Retransmit what is due, report what has expired.  When the sender chain is
\* due too, the tick goes on to redistribute it to every peer with a prekey.
TickRunning ==
  /\ phase = "tick"
  /\ running
  /\ ExpirePeers
  /\ pending' = AfterTakeDue(pending)
  /\ before' = OrderWithout(before, Expired(pending))
  /\ Report(Expired(pending) \cap UserIds(pending), "expired")
  /\ SyncBadge
  /\ toShare' \in {{}, prekeyed}
  /\ phase' = IF toShare' = {} THEN "recv" ELSE "share"
  /\ UNCHANGED <<running, uiRunning, prekeyed, status>>

\* rotate_sender_chain hands the fresh chain to one more peer.
Share(p) ==
  /\ phase = "share"
  /\ p \in toShare
  /\ toShare' = toShare \ {p}
  /\ phase' = IF toShare' = {} THEN "recv" ELSE "share"
  /\ Distribute(pending, before, p)
  /\ UNCHANGED <<running, uiRunning, peers, prekeyed, uiVars>>

\* One unit of time passes.  A timely worker ticks several times per unit.
Clock ==
  /\ Timely => phase = "recv" /\ (running => Due(pending) \cup Expired(pending) = {})
  /\ peers' = [p \in DOMAIN peers |-> IF peers[p] < PEER_TTL THEN peers[p] + 1 ELSE PEER_TTL]
  /\ pending' = Elapse(pending)
  /\ UNCHANGED <<phase, running, uiRunning, prekeyed, toShare, before, uiVars>>

Command ==
  \/ StartFails \/ StartNoBeacon \/ Start
  \/ StopFails \/ Stop
  \/ \E m \in UserMsgs : SendRefused(m) \/ SendBroadcast(m)
  \/ \E m \in UserMsgs, p \in Peers : SendDirected(m, p)
  \/ \E p \in Peers : IngestOther(p) \/ IngestBeacon(p)
  \/ \E p \in Peers, i \in Ids : IngestAck(p, i)

Tick == TickStopped \/ TickRunning \/ \E p \in Peers : Share(p)

Next == Command \/ Timeout \/ Tick \/ Clock

Spec == Init /\ [][Next]_vars

\* The worker thread keeps running its loop, and time passes.
FairSpec == Spec /\ WF_vars(Timeout) /\ WF_vars(Tick) /\ WF_vars(Clock)

-----------------------------------------------------------------------------
(* Properties.                                                              *)

\* The order is a total order of what is queued, and the queue is bounded: push
\* always finds the entry it has to evict (outbox.rs, push and remove).
QueueConsistent ==
  /\ Cardinality(DOMAIN pending) <= CAPACITY
  /\ \A i, j \in DOMAIN pending :
       i # j => (<<i, j>> \in before <=> <<j, i>> \notin before)

TypeOK ==
  /\ phase \in {"recv", "tick", "share"}
  /\ running \in BOOLEAN /\ uiRunning \in BOOLEAN
  /\ DOMAIN peers \subseteq Peers
  /\ peers \in [DOMAIN peers -> 0 .. PEER_TTL]
  /\ prekeyed \subseteq Peers /\ toShare \subseteq Peers
  /\ DOMAIN pending \subseteq Ids
  /\ pending \in [DOMAIN pending -> Pending(Peers)]
  /\ before \subseteq (DOMAIN pending) \X (DOMAIN pending)
  /\ badge \in Nat
  /\ status \in [UserMsgs -> {"new", "refused", "broadcast", "queued"}]
  /\ receipts \in [UserMsgs -> Seq({"delivered", "expired"})]
  /\ QueueConsistent

\* Messages that left the outbox without any receipt.
Lost == {m \in UserMsgs : status[m] = "queued" /\ m \notin DOMAIN pending /\ receipts[m] = << >>}

\* No message is given up, with or without a receipt, before its deadline
\* unless the queue is full.
GivenUpOnlyWhenDue ==
  [][\A m \in UserMsgs :
       /\ m \in DOMAIN pending
       /\ m \notin DOMAIN pending'
       /\ receipts'[m] # <<"delivered">>
       => \/ pending[m].age = DEADLINE
          \/ Cardinality(DOMAIN pending) = CAPACITY]_vars

\* The UI's pending count is the number of messages that are waiting for an
\* ack, except after one of them vanished without a receipt; and the UI is never
\* told that the node runs when it does not, although start and stop may fail
\* half way.  (Types and the queue's own bounds go with it.)
UiHonest ==
  /\ TypeOK
  /\ badge = Cardinality(UserIds(pending)) \/ Lost # {}
  /\ uiRunning => running

\* While the node runs, no message stays in the outbox forever, whatever peers
\* come and go.
Settles ==
  <>[]running => \A m \in UserMsgs : []<>(m \notin DOMAIN pending)

\* What became of a message, as Receipts.tla tells it.
Outcome(m) ==
  CASE status[m] \in {"new", "refused"} -> status[m]
    [] Len(receipts[m]) = 1 /\ m \notin DOMAIN pending -> receipts[m][1]
    [] status[m] = "queued" /\ receipts[m] = << >> ->
         IF m \in DOMAIN pending THEN "waiting" ELSE "lost"
    [] OTHER -> "contradictory"

R == INSTANCE Receipts WITH Msgs <- UserMsgs, outcome <- [m \in UserMsgs |-> Outcome(m)]

\* Every behaviour of the worker is one of Receipts: a message gets one receipt
\* at most, and none while it is still retried (do_send, accept's Ack arm, tick);
\* an ack settles one message and a full queue gives up at most one.
ImplementsReceipts == R!Spec

(* What the documentation says and the code does not do.                    *)

\* "Drains as acks arrive; entries that never get one surface as
\* `messageExpired`" (mesh/js/src/index.ts:214): what leaves the queue without
\* an ack is reported.
ReceiptsComplete == Lost = {}
=============================================================================
