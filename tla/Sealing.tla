------------------------------- MODULE Sealing -------------------------------
(***************************************************************************)
(* What a meshcore node seals its frames with, and which frames it accepts  *)
(* (mesh/rust/meshcore/src/lib.rs: seal, unseal, do_ingest, accept,         *)
(* send_beacon, send_sender_key, rotate_sender_chain; frames and keys are   *)
(* those of Wire.tla).  Nodes announce prekeys, hand each other their       *)
(* chains, broadcast, write to one another, acknowledge and relay.          *)
(*                                                                          *)
(* Frames stay on the air: any of them may arrive at any node, late, out of *)
(* order, or never.  Faults put damaged copies among them, and frames of    *)
(* another build that pairs preambles and recipients differently.           *)
(*                                                                          *)
(* Left to the modules that have them: time, the outbox and its retries     *)
(* (StoreForward.tla), carried frames and what dedup forgets (Delivery.tla),*)
(* the replay window (ReplayWindow.tla), restarts (Prekeys.tla), skipped    *)
(* keys and the caps of a chain store (SenderKey.tla).                      *)
(***************************************************************************)
EXTENDS Wire, FiniteSets

CONSTANTS
  Nodes,        \* the peers, by their ids
  Channel,      \* node -> its channel_secret
  Nickname,     \* node -> its configured nickname
  Ttl,          \* config.ttl
  RETAINED,     \* retired prekeys kept
  Lengths,      \* lengths of the bodies users send
  MaxFrames,    \* bound: frames built, by all nodes
  Users,        \* bound: nodes that write, stop and rotate their chain
  Rotators,     \* bound: nodes that rotate their prekey
  MaxRotations, \* bound: rotations of a chain, and of a prekey
  MaxFaults,    \* bound: frames that come of a fault
  FaultCost     \* bound: how many frames fewer there are for each fault

\* No prekey of the peer is known.
None == -1

ASSUME SealingAssumption ==
  /\ BROADCAST_ID \notin Nodes
  /\ IsFiniteSet(Nodes)
  /\ Nickname \in [Nodes -> [text : STRING, width : 1 .. 4, count : Nat, rest : {0}]]
  /\ Ttl \in 0 .. 255
  /\ RETAINED \in Nat
  /\ Lengths \subseteq Nat
  /\ MaxFrames \in Nat
  /\ Users \subseteq Nodes
  /\ Rotators \subseteq Nodes
  /\ MaxRotations \in Nat
  /\ MaxFaults \in Nat
  /\ FaultCost \in Nat

VARIABLES
  running,    \* node -> its running flag
  counter,    \* node -> the counter of its next frame
  generation, \* node -> the generation of its current prekey
  known,      \* node -> peer -> generation of the prekey it holds, or None
  chain,      \* node -> its sender chain
  sharedWith, \* node -> chain_shared_with
  chains,     \* node -> the chains distributed to it, where they stand
  seen,       \* node -> message ids it has seen
  air,        \* frames that were sent
  faults,     \* how many of them come of a fault
  built,      \* frames as they were built (history)
  accepted,   \* who accepted which frame, opened with which key (history)
  lapsed      \* nodes whose last rotation of the chain failed (history)

keyVars == <<generation, known, chain, sharedWith, chains>>
vars == <<running, counter, keyVars, seen, air, faults, built, accepted, lapsed>>

-----------------------------------------------------------------------------
(* Sealing.                                                                 *)

\* What random_16 and random_nonce draw for frame k of a node.
Drawn(n, k) == [from |-> n, draw |-> k]

Outgoing(n, k, recipient, body, kind, sealing) ==
  Build(n, recipient, Drawn(n, k), Drawn(n, k), k, Ttl, body, NoName, kind, sealing)

\* send_beacon: under the channel's key, with the signed prekey, never relayed.
Beacon(n, k, gen) ==
  Build(n, BROADCAST_ID, Drawn(n, k), Drawn(n, k), k, 1, Bundle(n, gen), Nickname[n],
        "Beacon", Sealing(NetworkKey(Channel[n]), NoPreamble))

\* seal, to a peer whose prekey is the one of generation gen, or not known.
DirectedSealing(n, k, peer, gen) ==
  IF gen = None
  THEN Sealing(StaticKey(n, peer), NoPreamble)
  ELSE Sealing(SealKeyFs(n, Ephemeral(n, k), peer, gen), FsPreamble(Ephemeral(n, k), gen))

\* seal, to everybody.
BroadcastSealing(n) ==
  IF sharedWith[n] = {}
  THEN Sealing(NetworkKey(Channel[n]), NoPreamble)
  ELSE Sealing(MessageKey(chain[n]), SkPreamble(chain[n]))

Directed(n, k, peer, gen, body, kind) ==
  Outgoing(n, k, peer, body, kind, DirectedSealing(n, k, peer, gen))

\* send_sender_key: the chain as it stands, to a peer whose prekey is known.
Handover(n, k, peer, gen, c) == Directed(n, k, peer, gen, Distribution(c), "SenderKey")

FreshChain(n, rotation) ==
  [number |-> [owner |-> n, rotation |-> rotation], index |-> 0]

(* Opening.                                                                 *)

HeldPrekeys(n) == {g \in 0 .. generation[n] : g >= generation[n] - RETAINED}

\* The key exists with which unseal opens the frame.
Derivable(n, f) ==
  CASE IsBroadcast(f) /\ f.preamble.preamble = "SK" ->
         \E c \in chains[n] :
           /\ c.number = f.preamble.chain
           /\ c.number.owner = f.sender
           /\ c.index <= f.preamble.index
    [] ~IsBroadcast(f) /\ f.preamble.preamble = "FS" ->
         f.preamble.generation \in HeldPrekeys(n)
    [] OTHER -> TRUE

OpeningKey(n, f) ==
  IF IsBroadcast(f)
  THEN IF f.preamble.preamble = "SK"
       THEN MessageKey([number |-> f.preamble.chain, index |-> f.preamble.index])
       ELSE NetworkKey(Channel[n])
  ELSE IF f.preamble.preamble = "FS"
       THEN OpenKeyFs(Prekey(n, f.preamble.generation), f.preamble.ephemeral, f.sender,
                      f.recipient, f.preamble.generation)
       ELSE StaticKey(n, f.sender)

ForUs(n, f) == f.recipient = n \/ IsBroadcast(f)

\* unseal yields the body.
Unseals(n, f) == Derivable(n, f) /\ Opens(f, OpeningKey(n, f))

\* ChainStore::install: a chain that is held only moves forward.
Installed(store, c) ==
  IF \E h \in store : h.number = c.number /\ h.index >= c.index
  THEN store
  ELSE {h \in store : h.number # c.number} \cup {c}

-----------------------------------------------------------------------------
(* What a node does on its own.                                             *)

Init ==
  /\ running = [n \in Nodes |-> FALSE]
  /\ counter = [n \in Nodes |-> 0]
  /\ generation = [n \in Nodes |-> 0]
  /\ known = [n \in Nodes |-> [p \in Nodes |-> None]]
  /\ chain = [n \in Nodes |-> FreshChain(n, 0)]
  /\ sharedWith = [n \in Nodes |-> {}]
  /\ chains = [n \in Nodes |-> {}]
  /\ seen = [n \in Nodes |-> {}]
  /\ air = {}
  /\ faults = 0
  /\ built = {}
  /\ accepted = {}
  /\ lapsed = {}

\* The node's next frames, one for each counter it consumes, and copies of
\* frames it relays.
Transmit(n, frames, copies) ==
  /\ Cardinality(built) + Cardinality(frames) + FaultCost * faults <= MaxFrames
  /\ counter' = [counter EXCEPT ![n] = @ + Cardinality(frames)]
  /\ built' = built \cup frames
  /\ air' = air \cup frames \cup copies

\* do_start; at a node that runs, also the beacon of tick.
Start(n) ==
  /\ running' = [running EXCEPT ![n] = TRUE]
  /\ Transmit(n, {Beacon(n, counter[n], generation[n])}, {})
  /\ UNCHANGED <<keyVars, seen, faults, accepted, lapsed>>

\* do_stop.
Stop(n) ==
  /\ running' = [running EXCEPT ![n] = FALSE]
  /\ UNCHANGED <<counter, keyVars, seen, air, faults, built, accepted, lapsed>>

\* tick: the prekey is replaced, and announced at once.
RotatePrekey(n) ==
  /\ running[n]
  /\ generation[n] < MaxRotations
  /\ generation' = [generation EXCEPT ![n] = @ + 1]
  /\ Transmit(n, {Beacon(n, counter[n], generation'[n])}, {})
  /\ UNCHANGED <<running, known, chain, sharedWith, chains, seen, faults, accepted, lapsed>>

\* do_send to everybody; the key is taken from the chain whatever becomes of it.
Broadcast(n, length) ==
  /\ running[n]
  /\ length \in 1 .. MAX_BODY
  /\ Transmit(n, {Outgoing(n, counter[n], BROADCAST_ID, Text(length), "Message",
                           BroadcastSealing(n))}, {})
  /\ chain' = IF sharedWith[n] = {} THEN chain ELSE [chain EXCEPT ![n] = NextChain(@)]
  /\ seen' = [seen EXCEPT ![n] = @ \cup {Drawn(n, counter[n])}]
  /\ UNCHANGED <<running, generation, known, sharedWith, chains, faults, accepted, lapsed>>

\* do_send to a peer.
SendTo(n, peer, length) ==
  /\ running[n]
  /\ length \in 1 .. MAX_BODY
  /\ Transmit(n, {Directed(n, counter[n], peer, known[n][peer], Text(length), "Message")}, {})
  /\ seen' = [seen EXCEPT ![n] = @ \cup {Drawn(n, counter[n])}]
  /\ UNCHANGED <<running, keyVars, faults, accepted, lapsed>>

\* The peers whose prekey the node holds.
Correspondents(n) == {p \in Nodes : known[n][p] # None}

\* Turns in which some peers are served, counted on from k.
Turns(peers, k) ==
  {turn \in [peers -> k .. k + Cardinality(peers) - 1] :
     \A p, q \in peers : p # q => turn[p] # turn[q]}

\* Mutant: who had the last chain is not forgotten.
RotateChainUnforgetting(n, served) ==
  /\ running[n]
  /\ chain[n].number.rotation < MaxRotations
  /\ served \subseteq Correspondents(n)
  /\ chain' = [chain EXCEPT ![n] = FreshChain(n, @.number.rotation + 1)]
  /\ sharedWith' = [sharedWith EXCEPT ![n] = @ \cup served]
  /\ \E turn \in Turns(served, counter[n]) :
       Transmit(n, {Handover(n, turn[p], p, known[n][p], chain'[n]) : p \in served}, {})
  /\ lapsed' = IF served = Correspondents(n) THEN lapsed \ {n} ELSE lapsed \cup {n}
  /\ UNCHANGED <<running, generation, known, chains, seen, faults, accepted>>

\* Mutant: the peers wait for their next beacon.
RotateChainLazily(n, served) ==
  /\ running[n]
  /\ chain[n].number.rotation < MaxRotations
  /\ served \subseteq Correspondents(n)
  /\ chain' = [chain EXCEPT ![n] = FreshChain(n, @.number.rotation + 1)]
  /\ sharedWith' = [sharedWith EXCEPT ![n] = {}]
  /\ UNCHANGED <<running, counter, generation, known, chains, seen, air, faults, built,
                 accepted, lapsed>>

\* rotate_sender_chain: a fresh chain, handed to the correspondents one by one,
\* in any order.  The first that fails ends it: only those before are served.
RotateChain(n, served) ==
  /\ running[n]
  /\ chain[n].number.rotation < MaxRotations
  /\ served \subseteq Correspondents(n)
  /\ chain' = [chain EXCEPT ![n] = FreshChain(n, @.number.rotation + 1)]
  /\ sharedWith' = [sharedWith EXCEPT ![n] = served]
  /\ \E turn \in Turns(served, counter[n]) :
       Transmit(n, {Handover(n, turn[p], p, known[n][p], chain'[n]) : p \in served}, {})
  /\ lapsed' = IF served = Correspondents(n) THEN lapsed \ {n} ELSE lapsed \cup {n}
  /\ UNCHANGED <<running, generation, known, chains, seen, faults, accepted>>

-----------------------------------------------------------------------------
(* do_ingest and accept.                                                    *)

\* A copy that parses and whose id is new.
Hear(n, f) ==
  /\ Parses(f)
  /\ f.msgId \notin seen[n]
  /\ seen' = [seen EXCEPT ![n] = @ \cup {f.msgId}]

\* A copy of the node's own frame comes back.  (A radio does not hear itself.)
HearOwn(n, f) ==
  /\ f \notin built
  /\ Hear(n, f)
  /\ f.sender = n
  /\ UNCHANGED <<running, counter, keyVars, air, faults, built, accepted, lapsed>>

\* The copy the node floods on.
Reflood(n, f) == IF f.ttl > 1 /\ f.recipient # n THEN {Relayed(f)} ELSE {}

\* A frame for somebody else, or one that does not open.
Overhear(n, f) ==
  /\ Hear(n, f)
  /\ f.sender # n
  /\ ~(ForUs(n, f) /\ Unseals(n, f))
  /\ Transmit(n, {}, Reflood(n, f))
  /\ UNCHANGED <<running, keyVars, faults, accepted, lapsed>>

Accept(n, f) ==
  /\ Hear(n, f)
  /\ f.sender # n
  /\ ForUs(n, f)
  /\ Unseals(n, f)
  /\ accepted' = accepted \cup {[by |-> n, frame |-> f, key |-> OpeningKey(n, f)]}
  /\ UNCHANGED <<running, faults, lapsed>>

\* The bundle is the sender's and newer than what is held.
Supersedes(n, f) ==
  BundleParses(f.sender, f.ct.body) /\ f.ct.body.generation > known[n][f.sender]

\* A beacon with nothing new.
AcceptOldBeacon(n, f) ==
  /\ Accept(n, f)
  /\ Kind(f) = "Beacon"
  /\ ~Supersedes(n, f)
  /\ Transmit(n, {}, Reflood(n, f))
  /\ UNCHANGED keyVars

\* A newer prekey: it is installed, and the chain handed over under it.
AcceptBeacon(n, f) ==
  /\ Accept(n, f)
  /\ Kind(f) = "Beacon"
  /\ Supersedes(n, f)
  /\ running[n]
  /\ known' = [known EXCEPT ![n][f.sender] = f.ct.body.generation]
  /\ Transmit(n, {Handover(n, counter[n], f.sender, known'[n][f.sender], chain[n])},
              Reflood(n, f))
  /\ sharedWith' = [sharedWith EXCEPT ![n] = @ \cup {f.sender}]
  /\ UNCHANGED <<generation, chain, chains>>

\* The same without a hand-over: the node is stopped and floods on, or sealing
\* fails, which ends do_ingest there.
AcceptBeaconOnly(n, f) ==
  /\ Accept(n, f)
  /\ Kind(f) = "Beacon"
  /\ Supersedes(n, f)
  /\ known' = [known EXCEPT ![n][f.sender] = f.ct.body.generation]
  /\ Transmit(n, {}, IF running[n] THEN {} ELSE Reflood(n, f))
  /\ UNCHANGED <<generation, chain, sharedWith, chains>>

\* send_ack.
Ack(n, f) ==
  Directed(n, counter[n], f.sender, known[n][f.sender], Receipt(f.msgId), "Ack")

\* A chain: it is installed, and the frame acknowledged.
AcceptSenderKey(n, f) ==
  /\ Accept(n, f)
  /\ Kind(f) = "SenderKey"
  /\ chains' = [chains EXCEPT ![n] = Installed(@, f.ct.body.chain)]
  /\ Transmit(n, {Ack(n, f)}, Reflood(n, f))
  /\ UNCHANGED <<generation, known, chain, sharedWith>>

\* A message; it is acknowledged unless it was for everybody.
AcceptMessage(n, f) ==
  /\ Accept(n, f)
  /\ Kind(f) = "Message"
  /\ Transmit(n, IF IsBroadcast(f) THEN {} ELSE {Ack(n, f)}, Reflood(n, f))
  /\ UNCHANGED keyVars

\* An acknowledgement, for the outbox.
AcceptAck(n, f) ==
  /\ Accept(n, f)
  /\ Kind(f) = "Ack"
  /\ Transmit(n, {}, Reflood(n, f))
  /\ UNCHANGED keyVars

Ingest(n, f) ==
  \/ HearOwn(n, f) \/ Overhear(n, f)
  \/ AcceptOldBeacon(n, f) \/ AcceptBeacon(n, f) \/ AcceptBeaconOnly(n, f)
  \/ AcceptSenderKey(n, f) \/ AcceptMessage(n, f) \/ AcceptAck(n, f)

-----------------------------------------------------------------------------
(* Faults.                                                                  *)

\* Copies of a frame with something else in one place.
Damaged(f) ==
  {[f EXCEPT !.flags = IF flag \in @ THEN @ \ {flag} ELSE @ \cup {flag}] : flag \in Flags}
  \cup {[f EXCEPT !.sender = n] : n \in Nodes}
  \cup {[f EXCEPT !.recipient = n] : n \in Nodes \cup {BROADCAST_ID}}
  \cup {[f EXCEPT !.nonce.draw = @ + 1], [f EXCEPT !.msgId.draw = @ + 1],
        [f EXCEPT !.nickname.text = "damaged"], [f EXCEPT !.ct = [length |-> f.ct.length]]}

\* One more fault is within the bounds.
Fault ==
  /\ faults < MaxFaults
  /\ Cardinality(built) + FaultCost * (faults + 1) <= MaxFrames
  /\ faults' = faults + 1

Damage ==
  /\ Fault
  /\ \E f \in built : \E g \in Damaged(f) : air' = air \cup {g}
  /\ UNCHANGED <<running, counter, keyVars, seen, built, accepted, lapsed>>

\* Frames of a node while it runs a build that lets any preamble go with any
\* recipient.
Unpaired(m) ==
  {Outgoing(m, counter[m], BROADCAST_ID, Text(1), "Message",
            Sealing(NetworkKey(Channel[m]), FsPreamble(Ephemeral(m, counter[m]), 0)))}
  \cup {Outgoing(m, counter[m], p, Text(1), "Message",
                 Sealing(StaticKey(m, p), SkPreamble(chain[m]))) : p \in Nodes \ {m}}

OtherBuild(m) ==
  /\ Fault
  /\ \E f \in Unpaired(m) : air' = air \cup {f}
  /\ counter' = [counter EXCEPT ![m] = @ + 1]
  /\ UNCHANGED <<running, keyVars, seen, built, accepted, lapsed>>

-----------------------------------------------------------------------------
Next ==
  \/ \E n \in Users, length \in Lengths :
       Broadcast(n, length) \/ \E peer \in Nodes \ {n} : SendTo(n, peer, length)
  \/ \E n \in Users : Stop(n) \/ \E served \in SUBSET Nodes : RotateChain(n, served)
  \/ \E n \in Rotators : RotatePrekey(n)
  \/ \E n \in Nodes : Start(n) \/ OtherBuild(n) \/ \E f \in air : Ingest(n, f)
  \/ Damage

Spec == Init /\ [][Next]_vars

-----------------------------------------------------------------------------
(* Properties.                                                              *)

TypeOK ==
  /\ running \in [Nodes -> BOOLEAN]
  /\ counter \in [Nodes -> Nat]
  /\ generation \in [Nodes -> 0 .. MaxRotations]
  /\ known \in [Nodes -> [Nodes -> {None} \cup 0 .. MaxRotations]]
  /\ sharedWith \in [Nodes -> SUBSET Nodes]
  /\ built \subseteq air

\* What is accepted is what its sender built, but for the two bytes relays
\* rewrite, whatever copies the air holds (frame.rs: "Everything else is inside").
\* (The types go with it.)
Authentic ==
  /\ TypeOK
  /\ \A a \in accepted : \E g \in built :
    [a.frame EXCEPT !.ttl = g.ttl, !.hops = g.hops] = g

\* A message that is shown as forward secret was sealed with an ephemeral
\* key or a message key, and one that is not, was not (parse: "a group-key
\* message wearing a padlock").
PadlockHonest ==
  \A a \in accepted : IsForwardSecret(a.frame) <=> a.key.kind \in {"fs", "message"}

\* A chain leaves a node only under a prekey of the peer it is for, whoever the
\* node believes to have its chain was sent it, and nobody else comes to hold it
\* (send_sender_key: "it must never be broadcast").
ChainsHandedOver ==
  /\ \A f \in built : Kind(f) = "SenderKey" =>
       f.ct.key.kind = "fs" /\ f.ct.key.to = f.recipient
  /\ \A n \in Nodes, p \in Nodes : p \in sharedWith[n] =>
       \E f \in built : /\ f.sender = n /\ f.recipient = p /\ Kind(f) = "SenderKey"
                        /\ f.ct.body.chain.number = chain[n].number
  /\ \A n \in Nodes : \A c \in chains[n] :
       \E f \in built : /\ f.sender = c.number.owner /\ f.recipient = n
                        /\ Kind(f) = "SenderKey" /\ f.ct.body.chain = c

\* Once a node has sealed a broadcast with its chain, it seals one under the
\* group key again only after a rotation of the chain failed
\* (rotate_sender_chain: "a rotation that downgraded every broadcast in the gap
\* would be worse than not rotating").
NoDowngrade ==
  [][\A g \in built' \ built :
       (Kind(g) = "Message" /\ g.ct.key.kind = "network")
         => \/ g.sender \in lapsed
            \/ \A f \in built : f.sender = g.sender => f.ct.key.kind # "message"]_vars

\* Every frame a node builds fits a frame and can be read back as what it is; a
\* beacon fits one extended advertisement (MAX_BODY: "can never fail to fit").
Fits ==
  \A f \in built :
    /\ Parses(f)
    /\ FrameLen(f) <= IF Kind(f) = "Beacon" THEN 254 ELSE MAX_FRAME
=============================================================================
