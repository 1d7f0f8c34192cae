------------------------------ MODULE Delivery ------------------------------
(***************************************************************************)
(* A directed message on its way through a mesh of meshcore nodes           *)
(* (mesh/rust/meshcore/src/lib.rs, do_ingest and accept, and relaycache.rs): *)
(* a sender retries it until it is acked or too old, relays flood it on and *)
(* carry it for a peer they cannot see, the recipient takes it once and     *)
(* acks it once.  An ack is a directed frame too: relays flood and carry it *)
(* the same way.                                                            *)
(*                                                                          *)
(* When the sender retries is left open here, and when its outbox is full   *)
(* (StoreForward.tla has both), and so is when a relay hears a beacon or    *)
(* loses a peer.  Every sealed frame has one counter, so what the replay    *)
(* window lets through is what it did not let through before                *)
(* (ReplayWindow.tla).  A frame stays on the air for less than one unit of  *)
(* time, in which any node may hear it, or not.  Workers tick several times *)
(* per unit, and all clocks agree.                                          *)
(***************************************************************************)
EXTENDS Filter, FiniteSets

CONSTANTS
  Msgs,       \* the messages
  Relays,     \* the nodes that are neither sender nor recipient
  Sender,
  Recipient,
  HOPS,       \* ttl of a fresh frame (DEFAULT_TTL)
  DEADLINE,   \* outbox::DEADLINE_MS
  TTL,        \* relaycache::TTL_MS
  CAPACITY,   \* relaycache::CAPACITY
  Forgetful   \* nodes whose dedup cache may drop an id

Nodes == Relays \cup {Sender, Recipient}

\* The age after which nothing is told apart.
MaxAge == DEADLINE + Cardinality(Relays) * TTL + 1

ASSUME DeliveryAssumption ==
  /\ IsFiniteSet(Relays)
  /\ Sender # Recipient
  /\ {Sender, Recipient} \cap Relays = {}
  /\ HOPS \in Nat \ {0}
  /\ DEADLINE \in Nat \ {0}
  /\ TTL \in Nat \ {0}
  /\ CAPACITY \in Nat \ {0}
  /\ Forgetful \subseteq Nodes

\* The compile-time assertion of relaycache.rs.
ASSUME TtlAssumption == TTL <= DEADLINE

\* The frame of a message, and the frame of its ack.
Frame == [msg : Msgs, kind : {"Message", "Ack"}]
MessageOf(m) == [msg |-> m, kind |-> "Message"]
AckOf(m) == [msg |-> m, kind |-> "Ack"]
From(f) == IF f.kind = "Message" THEN Sender ELSE Recipient
To(f) == IF f.kind = "Message" THEN Recipient ELSE Sender

\* A frame on the air.
Copy == [frame : Frame, ttl : 1 .. HOPS]

VARIABLES
  status,   \* message -> "new", "waiting", "delivered", "expired" or "lost"
  age,      \* message -> time since it was sealed, capped at MaxAge
  air,      \* the copies on the air
  seen,     \* node -> ids in its dedup cache
  admitted, \* frames the windows of Sender and Recipient let through
  inbox,    \* message -> how often it was put into the recipient's inbox
  table,    \* relay -> the end nodes in its peer table
  cache     \* relay -> what it carries: a sequence, oldest first

vars == <<status, age, air, seen, admitted, inbox, table, cache>>

Cached == [frame : Frame, ttl : 1 .. HOPS, age : 0 .. TTL]

-----------------------------------------------------------------------------
(* RelayCache.                                                              *)

Carries(r, f) == \E i \in DOMAIN cache[r] : cache[r][i].frame = f

\* store: the oldest entry makes room.
Stored(entries, f, ttl) ==
  Append(IF Len(entries) >= CAPACITY THEN Tail(entries) ELSE entries,
         [frame |-> f, ttl |-> ttl, age |-> 0])

\* take_for_peer: what is carried for p, and the rest.
TakenFor(entries, p) ==
  {[frame |-> entries[i].frame, ttl |-> entries[i].ttl] :
     i \in {j \in DOMAIN entries : To(entries[j].frame) = p}}

LeftFor(entries, p) == Retained(entries, {i \in DOMAIN entries : To(entries[i].frame) # p})

\* Mutant: nothing carried is ever too old.
UnexpiredAll(entries) == entries

\* expire.
Unexpired(entries) == Retained(entries, {i \in DOMAIN entries : entries[i].age < TTL})

-----------------------------------------------------------------------------
Init ==
  /\ status = [m \in Msgs |-> "new"]
  /\ age = [m \in Msgs |-> 0]
  /\ air = {}
  /\ seen = [n \in Nodes |-> {}]
  /\ admitted = {}
  /\ inbox = [m \in Msgs |-> 0]
  /\ table \in [Relays -> SUBSET {Sender, Recipient}]
  /\ cache = [r \in Relays |-> << >>]

\* do_send: the sender remembers its own id and holds the frame.
Send(m) ==
  /\ status[m] = "new"
  /\ status' = [status EXCEPT ![m] = "waiting"]
  /\ air' = air \cup {[frame |-> MessageOf(m), ttl |-> HOPS]}
  /\ seen' = [seen EXCEPT ![Sender] = @ \cup {MessageOf(m)}]
  /\ UNCHANGED <<age, admitted, inbox, table, cache>>

\* take_due: the same frame again, or the receipt that it expired.
Retry(m) ==
  /\ status[m] = "waiting"
  /\ age[m] < DEADLINE
  /\ air' = air \cup {[frame |-> MessageOf(m), ttl |-> HOPS]}
  /\ UNCHANGED <<status, age, seen, admitted, inbox, table, cache>>

Expire(m) ==
  /\ status[m] = "waiting"
  /\ age[m] >= DEADLINE
  /\ status' = [status EXCEPT ![m] = "expired"]
  /\ UNCHANGED <<age, air, seen, admitted, inbox, table, cache>>

\* The outbox gives m up: another message of the sender pushes it out, which the
\* user is told, or a distribution does, or flush_woken takes it, and nobody is.
Evict(m) ==
  /\ status[m] = "waiting"
  /\ \E outcome \in {"expired", "lost"} : status' = [status EXCEPT ![m] = outcome]
  /\ UNCHANGED <<age, air, seen, admitted, inbox, table, cache>>

(* do_ingest.                                                               *)

\* A node hears a frame whose id it has not seen.
Hears(n, c) ==
  /\ c.frame \notin seen[n]
  /\ seen' = [seen EXCEPT ![n] = @ \cup {c.frame}]

\* Its own frame comes back, or one its replay window refuses.
HearNothingNew(c) ==
  /\ \/ Hears(From(c.frame), c)
     \/ Hears(To(c.frame), c) /\ c.frame \in admitted
  /\ UNCHANGED <<status, age, air, admitted, inbox, table, cache>>

\* The message is for this node: it goes to the inbox and is acked.
Receive(c) ==
  /\ c.frame.kind = "Message"
  /\ Hears(Recipient, c)
  /\ c.frame \notin admitted
  /\ admitted' = admitted \cup {c.frame}
  /\ inbox' = [inbox EXCEPT ![c.frame.msg] = @ + 1]
  /\ air' = air \cup {[frame |-> AckOf(c.frame.msg), ttl |-> HOPS]}
  /\ UNCHANGED <<status, age, table, cache>>

\* Mutant: the receipt is given although the outbox gave the message up.
ReceiveAckLate(c) ==
  /\ c.frame.kind = "Ack"
  /\ Hears(Sender, c)
  /\ c.frame \notin admitted
  /\ admitted' = admitted \cup {c.frame}
  /\ status' = [status EXCEPT ![c.frame.msg] = "delivered"]
  /\ UNCHANGED <<age, air, inbox, table, cache>>

\* The ack is for this node: if the outbox still holds the message, it is
\* delivered.
ReceiveAck(c) ==
  /\ c.frame.kind = "Ack"
  /\ Hears(Sender, c)
  /\ c.frame \notin admitted
  /\ admitted' = admitted \cup {c.frame}
  /\ status' = [status EXCEPT ![c.frame.msg] = IF @ = "waiting" THEN "delivered" ELSE @]
  /\ UNCHANGED <<age, air, inbox, table, cache>>

\* Mutant: a frame is carried for a peer that is in the table, too.
KeepsAll(r, c) == ~Carries(r, c.frame)

\* A relay carries what is for a peer it cannot see.
Keeps(r, c) == To(c.frame) \notin table[r] /\ ~Carries(r, c.frame)

\* Floods it on, one hop less, and carries it if there is nobody to hear it.
Relay(r, c) ==
  /\ c.ttl > 1
  /\ Hears(r, c)
  /\ air' = air \cup {[c EXCEPT !.ttl = @ - 1]}
  /\ cache' = IF Keeps(r, c)
              THEN [cache EXCEPT ![r] = Stored(@, c.frame, c.ttl - 1)]
              ELSE cache
  /\ UNCHANGED <<status, age, admitted, inbox, table>>

\* The frame has no hop left.
RelayEnds(r, c) ==
  /\ c.ttl = 1
  /\ Hears(r, c)
  /\ UNCHANGED <<status, age, air, admitted, inbox, table, cache>>

\* touch_peer: a beacon of an end node that was not in the table.  What is
\* carried for it goes on the air.
Discover(r, p) ==
  /\ p \notin table[r]
  /\ table' = [table EXCEPT ![r] = @ \cup {p}]
  /\ air' = air \cup TakenFor(cache[r], p)
  /\ cache' = [cache EXCEPT ![r] = LeftFor(@, p)]
  /\ UNCHANGED <<status, age, seen, admitted, inbox>>

\* tick: the peer was silent for too long.
PeerLost(r, p) ==
  /\ p \in table[r]
  /\ table' = [table EXCEPT ![r] = @ \ {p}]
  /\ UNCHANGED <<status, age, air, seen, admitted, inbox, cache>>

\* tick: carried frames that are too old are dropped.
ExpireCarried(r) ==
  /\ \E i \in DOMAIN cache[r] : cache[r][i].age >= TTL
  /\ cache' = [cache EXCEPT ![r] = Unexpired(@)]
  /\ UNCHANGED <<status, age, air, seen, admitted, inbox, table>>

\* remember: other traffic pushes an id out of the dedup cache.
Forget(n, f) ==
  /\ f \in seen[n]
  /\ seen' = [seen EXCEPT ![n] = @ \ {f}]
  /\ UNCHANGED <<status, age, air, admitted, inbox, table, cache>>

\* One unit of time passes.  Nothing overdue waits that long.
Clock ==
  /\ \A m \in Msgs : status[m] = "waiting" => age[m] < DEADLINE
  /\ \A r \in Relays : Unexpired(cache[r]) = cache[r]
  /\ age' = [m \in Msgs |-> IF status[m] = "new" \/ age[m] = MaxAge THEN age[m] ELSE age[m] + 1]
  /\ cache' = [r \in Relays |-> [i \in DOMAIN cache[r] |->
                 [cache[r][i] EXCEPT !.age = IF @ < TTL THEN @ + 1 ELSE TTL]]]
  /\ air' = {}
  /\ UNCHANGED <<status, seen, admitted, inbox, table>>

Next ==
  \/ \E m \in Msgs : Send(m) \/ Retry(m) \/ Expire(m) \/ Evict(m)
  \/ \E c \in air : HearNothingNew(c) \/ Receive(c) \/ ReceiveAck(c)
  \/ \E c \in air, r \in Relays : Relay(r, c) \/ RelayEnds(r, c)
  \/ \E r \in Relays, p \in {Sender, Recipient} : Discover(r, p) \/ PeerLost(r, p)
  \/ \E r \in Relays : ExpireCarried(r)
  \/ \E n \in Forgetful : \E f \in seen[n] : Forget(n, f)
  \/ Clock

Spec == Init /\ [][Next]_vars

-----------------------------------------------------------------------------
(* Properties.                                                              *)

TypeOK ==
  /\ status \in [Msgs -> {"new", "waiting", "delivered", "expired", "lost"}]
  /\ age \in [Msgs -> 0 .. MaxAge]
  /\ air \subseteq Copy
  /\ seen \in [Nodes -> SUBSET Frame]
  /\ admitted \subseteq Frame
  /\ inbox \in [Msgs -> Nat]
  /\ table \in [Relays -> SUBSET {Sender, Recipient}]
  /\ cache \in [Relays -> Seq(Cached)]
  /\ \A r \in Relays : Len(cache[r]) <= CAPACITY

M == INSTANCE Mailbox
       WITH sent <- {m \in Msgs : status[m] # "new"},
            receipt <- [m \in Msgs |->
                          IF status[m] \in {"delivered", "expired"} THEN status[m] ELSE "none"]

\* Relays, retries and lost or repeated frames are invisible to the two users:
\* what they see is a Mailbox.  No message is in the inbox twice, even after the
\* recipient's dedup cache has forgotten its id; a receipt "delivered" is never a
\* lie, and is never taken back.
ImplementsMailbox == M!Spec

\* A relay carries nothing for a peer that is in its table (relaycache.rs,
\* "What is held, and what is not").  (Types and the cap of its cache go with it.)
CarriesOnlyForAbsent ==
  /\ TypeOK
  /\ \A r \in Relays : \A i \in DOMAIN cache[r] : To(cache[r][i].frame) \notin table[r]

\* A message reaches the inbox no later than the last relay could have carried
\* it: each relay adds TTL at most, for each remembers what it carried.
LateBound ==
  [][\A m \in Msgs : inbox'[m] > inbox[m] => age[m] <= DEADLINE + Cardinality(Relays) * TTL]_vars
=============================================================================
