------------------------------ MODULE SenderKey ------------------------------
(***************************************************************************)
(* Broadcast chains of meshcore (mesh/rust/meshcore/src/senderkey.rs, and   *)
(* its callers in lib.rs): one node broadcasts, rotates its chain and hands *)
(* it to a peer; the peer opens what it can.  Between them the air loses,   *)
(* delays, duplicates and reorders broadcasts, and loses, delays and        *)
(* reorders distributions.  A distribution is admitted at most once per     *)
(* frame, by the replay window (ReplayWindow.tla).                          *)
(*                                                                          *)
(* A key is known by its place: key n of a chain is what n ratchet steps    *)
(* make of the chain's first key, and message key n comes from it.  A chain *)
(* is known by its number in the order of rotation; the code draws a random *)
(* chain_id, and two equal draws are left out.  The sender's other          *)
(* correspondents are one, "other": what counts is that the chain may be in *)
(* use before the peer is given it.  Broadcasts under the group key touch   *)
(* no chain and are left out; the node is running.                          *)
(***************************************************************************)
EXTENDS Integers, Sequences, FiniteSets, Functions, Bags

CONSTANTS
  MAX_SKIP,         \* how far ahead of the chain one frame may be
  SKIPPED_CAP,      \* bound on kept message keys, per chain
  CHAINS_PER_PEER,  \* chains kept of one peer
  MAX_INDEX,        \* largest index: u32::MAX in the code
  MaxChain,         \* bound: chains are 0 .. MaxChain
  MaxInFlight       \* bound: distributions on the air at a time

ASSUME SenderKeyAssumption ==
  /\ MAX_SKIP \in Nat
  /\ SKIPPED_CAP \in Nat
  /\ CHAINS_PER_PEER \in Nat \ {0}
  /\ MAX_INDEX \in Nat
  /\ MaxChain \in Nat
  /\ MaxInFlight \in Nat

ChainIds == 0 .. MaxChain
Indices == 0 .. MAX_INDEX

\* A chain with its key: what a sender holds, and what a distribution carries.
Chain == [id : ChainIds, index : Indices, key : Indices]

\* Who the sender shares its chain with.
Correspondents == {"peer", "other"}

VARIABLES
  own,      \* the sender's chain
  shared,   \* chain_shared_with, and peer_prekeys: they have the same members
  air,      \* broadcasts that were sent: any of them may arrive, again
  inFlight, \* bag of the distributions sent and not yet admitted
  chains,   \* the peer's ChainStore for this sender, newest first
  spent,    \* the message keys that opened a broadcast (history)
  given,    \* chain -> the sender's index when it first distributed it (history)
  evicted   \* chains that left the store (history)

chainVars == <<own, shared, air, inFlight, chains, spent, given, evicted>>
senderVars == <<own, shared, air>>

-----------------------------------------------------------------------------
(* SenderChain.                                                             *)

Fresh(id) == [id |-> id, index |-> 0, key |-> 0]

\* The chain after it gave its next message key.
Step(chain) == [chain EXCEPT !.index = @ + 1, !.key = @ + 1]

\* The chain as it stands now.
Distribution(chain) == chain

(* InboundChain.                                                            *)

Inbound(d) == [id |-> d.id, index |-> d.index, key |-> d.key, skipped |-> [i \in {} |-> 0]]

Behind(c, i) == i < c.index

\* derive(i) yields a key.
Derivable(c, i) ==
  IF Behind(c, i)
  THEN i \in DOMAIN c.skipped
  ELSE i - c.index <= MAX_SKIP /\ i < MAX_INDEX

\* The message key derive(i) yields.
Derived(c, i) == IF Behind(c, i) THEN c.skipped[i] ELSE c.key + (i - c.index)

\* The oldest keys go until SKIPPED_CAP are left.
Trimmed(skipped) ==
  Restrict(skipped,
    {i \in DOMAIN skipped : Cardinality({j \in DOMAIN skipped : j > i}) < SKIPPED_CAP})

\* The message keys a jump to i leaves behind.
NewlySkipped(c, i) == [j \in c.index .. i - 1 |-> c.key + (j - c.index)]

\* Mutant: the chain stops at the index it opened, with the key behind it.
CommittedShort(c, i) ==
  IF Behind(c, i)
  THEN [c EXCEPT !.skipped = Restrict(@, DOMAIN @ \ {i})]
  ELSE [c EXCEPT !.index = i, !.key = Derived(c, i) + 1,
                 !.skipped = Trimmed([j \in DOMAIN c.skipped \cup (c.index .. i - 1) |->
                    IF j \in DOMAIN c.skipped THEN c.skipped[j] ELSE NewlySkipped(c, i)[j]])]

\* The chain once the frame with index i was opened: commit(derive(i)).
Committed(c, i) ==
  IF Behind(c, i)
  THEN [c EXCEPT !.skipped = Restrict(@, DOMAIN @ \ {i})]
  ELSE [c EXCEPT !.index = i + 1, !.key = Derived(c, i) + 1,
                 !.skipped = Trimmed([j \in DOMAIN c.skipped \cup (c.index .. i - 1) |->
                    IF j \in DOMAIN c.skipped THEN c.skipped[j] ELSE NewlySkipped(c, i)[j]])]

(* ChainStore.                                                              *)

Held == {chains[n].id : n \in DOMAIN chains}
Place(id) == CHOOSE n \in DOMAIN chains : chains[n].id = id

\* Mutant: any other index than the one held is accepted.
MovesForwardEither(d) == d.index # chains[Place(d.id)].index

\* A distribution of a chain that is held moves it forward.
MovesForward(d) == d.index > chains[Place(d.id)].index

\* How many of the chains held stay when another one goes in.
Kept == IF Len(chains) < CHAINS_PER_PEER THEN Len(chains) ELSE CHAINS_PER_PEER - 1

-----------------------------------------------------------------------------
ChainInit ==
  /\ own = Fresh(0)
  /\ shared = {}
  /\ air = {}
  /\ inFlight = EmptyBag
  /\ chains = << >>
  /\ spent = {}
  /\ given = [c \in ChainIds |-> MAX_INDEX]
  /\ evicted = {}

\* A broadcast takes the next message key, until the chain is exhausted.
Broadcast ==
  /\ shared # {}
  /\ own.index < MAX_INDEX
  /\ air' = air \cup {own}
  /\ own' = Step(own)
  /\ UNCHANGED <<shared, inFlight, chains, spent, given, evicted>>

\* Hands chain c to the peer: send_sender_key.
Share(c) ==
  /\ BagCardinality(inFlight) < MaxInFlight
  /\ inFlight' = inFlight (+) SetToBag({Distribution(c)})
  /\ given' = [given EXCEPT ![c.id] = IF c.index < @ THEN c.index ELSE @]

\* A newer prekey of the peer came with its beacon.
Redistribute ==
  /\ Share(own)
  /\ shared' = shared \cup {"peer"}
  /\ UNCHANGED <<own, air, chains, spent, evicted>>

\* The same with a beacon of another correspondent.
RedistributeOther ==
  /\ shared' = shared \cup {"other"}
  /\ UNCHANGED <<own, air, inFlight, chains, spent, given, evicted>>

\* rotate_sender_chain: the chain is replaced, and shared at once with the
\* peers whose prekey is known.
RotateChain ==
  /\ own.id < MaxChain
  /\ own' = Fresh(own.id + 1)
  /\ IF "peer" \in shared THEN Share(own') ELSE UNCHANGED <<inFlight, given>>
  /\ UNCHANGED <<shared, air, chains, spent, evicted>>

\* A distribution is lost for good.
Lose(d) ==
  /\ inFlight' = inFlight (-) SetToBag({d})
  /\ UNCHANGED <<senderVars, chains, spent, given, evicted>>

\* install, for a chain that is held.
InstallForward(d) ==
  /\ inFlight' = inFlight (-) SetToBag({d})
  /\ d.id \in Held
  /\ MovesForward(d)
  /\ chains' = [chains EXCEPT ![Place(d.id)] = Inbound(d)]
  /\ UNCHANGED <<senderVars, spent, given, evicted>>

InstallRefused(d) ==
  /\ inFlight' = inFlight (-) SetToBag({d})
  /\ d.id \in Held
  /\ ~MovesForward(d)
  /\ UNCHANGED <<senderVars, chains, spent, given, evicted>>

\* install, for a chain that is not: it goes first and the last one may go.
InstallNew(d) ==
  /\ inFlight' = inFlight (-) SetToBag({d})
  /\ d.id \notin Held
  /\ chains' = <<Inbound(d)>> \o SubSeq(chains, 1, Kept)
  /\ evicted' = evicted \cup {chains[n].id : n \in Kept + 1 .. Len(chains)}
  /\ UNCHANGED <<senderVars, spent, given>>

Opens(f) ==
  /\ f.id \in Held
  /\ Derivable(chains[Place(f.id)], f.index)

\* A broadcast arrives that the peer can open.
Open(f) ==
  /\ Opens(f)
  /\ Derived(chains[Place(f.id)], f.index) = f.key
  /\ chains' = [chains EXCEPT ![Place(f.id)] = Committed(@, f.index)]
  /\ spent' = spent \cup {<<f.id, f.index>>}
  /\ UNCHANGED <<senderVars, inFlight, given, evicted>>

\* Mutant: the chain is moved before the frame is verified.
RejectCommits(id, i) ==
  /\ id \in Held
  /\ Derivable(chains[Place(id)], i)
  /\ chains' = [chains EXCEPT ![Place(id)] = Committed(@, i)]
  /\ UNCHANGED <<senderVars, inFlight, spent, given, evicted>>

\* A damaged broadcast arrives: a key is derived, the frame does not verify,
\* and nothing is committed.
Reject(id, i) ==
  /\ id \in Held
  /\ Derivable(chains[Place(id)], i)
  /\ UNCHANGED chainVars

InstallChain(d) == InstallForward(d) \/ InstallRefused(d) \/ InstallNew(d)

ChainNext ==
  \/ Broadcast \/ Redistribute \/ RedistributeOther \/ RotateChain
  \/ \E d \in DOMAIN inFlight : Lose(d) \/ InstallChain(d)
  \/ \E f \in air : Open(f)
  \/ \E id \in ChainIds, i \in Indices : Reject(id, i)

ChainSpec == ChainInit /\ [][ChainNext]_chainVars

-----------------------------------------------------------------------------
(* Properties.                                                              *)

InboundChain(c) ==
  /\ [id |-> c.id, index |-> c.index, key |-> c.key] \in Chain
  /\ DOMAIN c.skipped \subseteq Indices
  /\ c.skipped \in [DOMAIN c.skipped -> Indices]
  /\ Cardinality(DOMAIN c.skipped) <= SKIPPED_CAP

\* Every variable has its type; the caches keep to their bounds.
ChainTypeOK ==
  /\ own \in Chain
  /\ shared \subseteq Correspondents
  /\ air \subseteq Chain
  /\ IsABag(inFlight) /\ DOMAIN inFlight \subseteq Chain
  /\ Len(chains) <= CHAINS_PER_PEER
  /\ \A n \in DOMAIN chains : InboundChain(chains[n])
  /\ \A m, n \in DOMAIN chains : chains[m].id = chains[n].id => m = n
  /\ spent \subseteq ChainIds \X Indices
  /\ given \in [ChainIds -> Indices]
  /\ evicted \subseteq ChainIds

\* The message keys the peer can still derive, now or by ratcheting on.
Reach(c) == {<<c.id, i>> : i \in DOMAIN c.skipped \cup c.index .. MAX_INDEX - 1}
Reachable == UNION {Reach(chains[n]) : n \in DOMAIN chains}

\* What the peer derives is the key the sender used: however frames and
\* distributions are reordered, its chains and the keys it kept stay in step
\* with the sender's ratchet (derive, commit, install); and the sender holds no
\* key from which one it already used can be derived.  (Types and caps go with it.)
InStep ==
  /\ ChainTypeOK
  /\ own.key = own.index
  /\ \A f \in air : f.id = own.id => f.key < own.key
  /\ \A n \in DOMAIN chains :
       /\ chains[n].key = chains[n].index
       /\ \A i \in DOMAIN chains[n].skipped : chains[n].skipped[i] = i

\* The past stays closed: what was broadcast before the peer was first given a
\* chain (ARCHITECTURE.md, "No retroactive access"), and what a key has opened,
\* for that key cannot be derived again as long as its chain was never evicted
\* from the store.
PastStaysShut ==
  \A k \in Reachable :
    /\ k[2] >= given[k[1]]
    /\ k \in spent => k[1] \in evicted

\* A key the peer could derive is lost only by opening its own broadcast, as
\* the oldest of a cache that is over its bound, or when a distribution
\* arrives.  No other frame costs the peer a broadcast that is still on its way.
KeysLost ==
  [][\A k \in Reachable \ Reachable' :
       \/ k \in spent'
       \/ inFlight' # inFlight
       \/ \E n \in DOMAIN chains' :
            /\ chains'[n].id = k[1]
            /\ Cardinality(DOMAIN chains'[n].skipped) = SKIPPED_CAP
            /\ \A i \in DOMAIN chains'[n].skipped : k[2] < i]_chainVars
=============================================================================
