---------------------------- MODULE WorkerProofs ----------------------------
(***************************************************************************)
(* What the worker thread guarantees: of the messages it sends              *)
(* (StoreForward), and of the events it hands to JavaScript                 *)
(* (EventDelivery).                                                         *)
(*                                                                          *)
(* StoreForward, for any capacity, any backoff, any peers and any messages: *)
(* the queue and its order list agree and are bounded, the badge is right   *)
(* unless a message vanished, nothing is given up early, and what the user  *)
(* sees is one of the behaviours of Receipts.                               *)
(*                                                                          *)
(* The queue is kept a strict linear order (Linear): this is what makes the *)
(* entry pushed first exist, and makes it one (EvictOne).  What is queued   *)
(* is known by its id (Owned), and a message that is queued has had no      *)
(* receipt (Unsettled): a receipt ends its stay.                            *)
(*                                                                          *)
(* EventDelivery, for any inbox, any number of events and any number of     *)
(* runtimes: no callback runs in a host that was told to forget its core, a *)
(* message is not lost unless the inbox was full, and the app first sees    *)
(* the messages in their order.                                             *)
(*                                                                          *)
(* The first is not inductive: it needs that the sink is the last host or   *)
(* none, is cleared before the host forgets its core, and does not change   *)
(* under a callback (Bound).  The second needs that what is in the inbox    *)
(* are messages in their order (Ordered), so that those which push one out  *)
(* are as many as the inbox holds, and all came after it.  The third needs  *)
(* that what was posted is in order too (Numbered), that a host which was   *)
(* heard of is registered (Trusted), and that whatever a drain left behind  *)
(* is on its way to the listener (Drained).                                 *)
(***************************************************************************)
EXTENDS StoreForward, EventDelivery, FiniteSetTheorems, NaturalsInduction, WellFoundedInduction, TLAPS

(* The outbox.                                                              *)

\* The order list is a strict linear order of the entries of q.
Linear(q, o) ==
  /\ o \subseteq (DOMAIN q) \X (DOMAIN q)
  /\ \A i, j \in DOMAIN q : i # j => (<<i, j>> \in o <=> <<j, i>> \notin o)
  /\ \A i \in DOMAIN q : <<i, i>> \notin o
  /\ \A i, j, k \in DOMAIN q : <<i, j>> \in o /\ <<j, k>> \in o => <<i, k>> \in o

\* Messages are the user's, distributions the node's own.
Owned(q) ==
  /\ DOMAIN q \subseteq Ids
  /\ q \in [DOMAIN q -> Pending(Peers)]
  /\ \A i \in DOMAIN q : q[i].traffic = "User" <=> i \in UserMsgs

Queue(q, o) ==
  /\ Owned(q)
  /\ IsFiniteSet(DOMAIN q) /\ Cardinality(DOMAIN q) <= CAPACITY
  /\ Linear(q, o)

\* What r keeps of q is addressed and owned as it was.
Keeps(r, q) ==
  /\ DOMAIN r \subseteq DOMAIN q
  /\ \A i \in DOMAIN r : r[i].traffic = q[i].traffic /\ r[i].recipient = q[i].recipient

-----------------------------------------------------------------------------
(* Numbers.                                                                 *)

\* A power of two is a number: as many as there are subsets.
LEMMA PowerType == ASSUME NEW n \in Nat PROVE 2^n \in Nat
  <1>1. IsFiniteSet(1 .. n) /\ Cardinality(1 .. n) = n
    BY FS_Interval
  <1>2. Cardinality(SUBSET (1 .. n)) = 2^Cardinality(1 .. n) /\ IsFiniteSet(SUBSET (1 .. n))
    BY <1>1, FS_SUBSET
  <1>3. Cardinality(SUBSET (1 .. n)) \in Nat
    BY <1>2, FS_CardinalityType
  <1> QED
    BY <1>1, <1>2, <1>3

\* The delay is within its bound, and never zero.
LEMMA BackoffType == ASSUME NEW n \in Nat PROVE Backoff(n) \in 0 .. MAX_BACKOFF
  <1>1. 2^n \in Nat
    BY PowerType
  <1>2. BASE_BACKOFF * 2^n \in Nat
    BY <1>1, OutboxAssumption
  <1> QED
    BY <1>2, OutboxAssumption DEF Backoff

-----------------------------------------------------------------------------
(* The queue.                                                               *)

\* A queue without some of its entries, whatever their timers.
LEMMA Shrunk ==
  ASSUME NEW q, NEW o, Queue(q, o), NEW ids, NEW r,
         DOMAIN r = DOMAIN q \ ids, r \in [DOMAIN r -> Pending(Peers)],
         Keeps(r, q)
  PROVE  Queue(r, OrderWithout(o, ids))
  <1>1. Owned(r)
    BY DEF Queue, Owned, Keeps
  <1>2. IsFiniteSet(DOMAIN r) /\ Cardinality(DOMAIN r) <= CAPACITY
    <2>1. /\ IsFiniteSet(DOMAIN r) /\ Cardinality(DOMAIN r) <= Cardinality(DOMAIN q)
          /\ IsFiniteSet(DOMAIN q) /\ Cardinality(DOMAIN q) <= CAPACITY
      BY FS_Subset DEF Queue
    <2>2. Cardinality(DOMAIN r) \in Nat /\ Cardinality(DOMAIN q) \in Nat
      BY <2>1, FS_CardinalityType
    <2> QED
      BY <2>1, <2>2, OutboxAssumption
  <1>3. Linear(r, OrderWithout(o, ids))
    BY DEF Queue, Linear, OrderWithout
  <1> QED
    BY <1>1, <1>2, <1>3 DEF Queue

LEMMA WithoutQueue ==
  ASSUME NEW q, NEW o, Queue(q, o), NEW ids
  PROVE  /\ Queue(Without(q, ids), OrderWithout(o, ids))
         /\ DOMAIN Without(q, ids) = DOMAIN q \ ids
         /\ Keeps(Without(q, ids), q)
         /\ \A i \in DOMAIN q \ ids : Without(q, ids)[i] = q[i]
  <1> DEFINE r == Without(q, ids)
  <1>1. DOMAIN r = DOMAIN q \ ids /\ \A i \in DOMAIN q \ ids : r[i] = q[i]
    BY DEF Without, Restrict
  <1>2. r \in [DOMAIN r -> Pending(Peers)]
    BY DEF Without, Restrict, Queue, Owned
  <1>3. Keeps(r, q)
    BY <1>1 DEF Keeps
  <1> HIDE DEF r
  <1>4. Queue(r, OrderWithout(o, ids))
    BY <1>1, <1>2, <1>3, Shrunk
  <1> QED
    BY <1>1, <1>3, <1>4 DEF r

\* The first of a queue exists.
LEMMA First ==
  ASSUME NEW q, NEW o, Queue(q, o), NEW D \in SUBSET DOMAIN q, D # {}
  PROVE  \E i \in D : \A j \in D : <<j, i>> \notin o
  <1> DEFINE Earlier(i) == {j \in D : <<j, i>> \in o}
             T == {Earlier(i) : i \in D}
  <1>0. IsFiniteSet(D)
    BY FS_Subset DEF Queue
  <1>1. T \subseteq FiniteSubsetsOf(D) /\ T # {}
    <2>1. ASSUME NEW i \in D PROVE Earlier(i) \in SUBSET D /\ IsFiniteSet(Earlier(i))
      <3>1. Earlier(i) \in SUBSET D
        OBVIOUS
      <3> HIDE DEF Earlier
      <3> QED
        BY <1>0, <3>1, FS_Subset
    <2> HIDE DEF Earlier
    <2> QED
      BY <2>1 DEF FiniteSubsetsOf
  <1>2. IsWellFoundedOn(StrictSubsetOrdering(D), FiniteSubsetsOf(D))
    BY FS_StrictSubsetOrderingWellFounded
  <1> HIDE DEF T
  <1>3. PICK A \in T : \A B \in T : ~(<<B, A>> \in StrictSubsetOrdering(D))
    BY <1>1, <1>2, WFMin
  <1>4. PICK m \in D : A = Earlier(m)
    BY <1>3 DEF T
  <1>5. ASSUME NEW j \in D, <<j, m>> \in o PROVE FALSE
    <2>1. Earlier(j) \subseteq Earlier(m)
      BY <1>5 DEF Queue, Linear
    <2>2. j \in Earlier(m) /\ j \notin Earlier(j)
      BY <1>5 DEF Queue, Linear
    <2>3. Earlier(j) \in T
      BY DEF T
    <2>4. Earlier(j) \in SUBSET D /\ Earlier(m) \in SUBSET D
      OBVIOUS
    <2> HIDE DEF Earlier
    <2>5. <<Earlier(j), Earlier(m)>> \in StrictSubsetOrdering(D)
      BY <2>1, <2>2, <2>4 DEF StrictSubsetOrdering
    <2> QED
      BY <1>3, <1>4, <2>3, <2>5
  <1> QED
    BY <1>5

\* A push into a full queue evicts one entry, another than its own.
LEMMA EvictOne ==
  ASSUME NEW q, NEW o, Queue(q, o), NEW id
  PROVE  LET others == DOMAIN q \ {id}
             out == Evicted(q, o, id)
         IN  /\ out \subseteq others
             /\ \A i, j \in out : i = j
             /\ out # {} => Cardinality(DOMAIN q) = CAPACITY
             /\ IsFiniteSet(others \ out) /\ Cardinality(others \ out) + 1 <= CAPACITY
  <1> DEFINE others == DOMAIN q \ {id}
             out == Evicted(q, o, id)
  <1>1. /\ IsFiniteSet(others) /\ Cardinality(others) \in Nat /\ Cardinality(others) <= CAPACITY
        /\ Cardinality(DOMAIN q) \in Nat /\ Cardinality(DOMAIN q) <= CAPACITY
        /\ Cardinality(others) <= Cardinality(DOMAIN q) /\ CAPACITY \in Nat \ {0}
    <2>1. IsFiniteSet(DOMAIN q) /\ Cardinality(DOMAIN q) <= CAPACITY /\ others \in SUBSET DOMAIN q
      BY DEF Queue
    <2>2. IsFiniteSet(others) /\ Cardinality(others) <= Cardinality(DOMAIN q)
      BY <2>1, FS_Subset
    <2>3. Cardinality(others) \in Nat /\ Cardinality(DOMAIN q) \in Nat
      BY <2>1, <2>2, FS_CardinalityType
    <2> HIDE DEF others
    <2> QED
      BY <2>1, <2>2, <2>3, OutboxAssumption
  <1>2. out = IF Cardinality(others) >= CAPACITY
              THEN {i \in others : \A j \in others : <<j, i>> \notin o} ELSE {}
    BY DEF Evicted, Oldest, Restrict
  <1>3. out \subseteq others
    BY <1>2
  <1>4. \A i, j \in out : i = j
    BY <1>2 DEF Queue, Linear
  <1>5. out # {} => Cardinality(DOMAIN q) = CAPACITY
    <2>1. out # {} => Cardinality(others) >= CAPACITY
      BY <1>2
    <2> HIDE DEF out, others
    <2> QED
      BY <1>1, <2>1
  <1>6. IsFiniteSet(others \ out) /\ Cardinality(others \ out) + 1 <= CAPACITY
    <2>1. CASE Cardinality(others) < CAPACITY
      <3>1. out = {}
        <4> HIDE DEF others, out
        <4> QED
          BY <1>1, <1>2, <2>1
      <3> HIDE DEF others, out
      <3>2. others \ out = others
        BY <3>1
      <3> QED
        BY <1>1, <2>1, <3>2
    <2>2. CASE ~(Cardinality(others) < CAPACITY)
      <3>1. others # {}
        <4>1. others = {} => Cardinality(others) = 0
          BY FS_EmptySet
        <4> HIDE DEF others
        <4> QED
          BY <1>1, <2>2, <4>1
      <3>2. \E i \in others : \A j \in others : <<j, i>> \notin o
        BY <3>1, First
      <3>3. Cardinality(others) >= CAPACITY
        <4> HIDE DEF others
        <4> QED
          BY <1>1, <2>2
      <3>4. PICK e \in others : e \in out
        BY <1>2, <3>2, <3>3
      <3>5. others \ out = others \ {e} /\ e \in others
        BY <1>3, <1>4, <3>4
      <3> HIDE DEF others, out
      <3>6. IsFiniteSet(others \ {e}) /\ Cardinality(others \ {e}) = Cardinality(others) - 1
        BY <1>1, <3>5, FS_RemoveElement
      <3> QED
        BY <1>1, <3>5, <3>6
    <2> QED
      BY <2>1, <2>2
  <1> QED
    BY <1>3, <1>4, <1>5, <1>6

\* What is pushed is in the queue, last, and what was evicted is not.
LEMMA PushQueue ==
  ASSUME NEW q, NEW o, Queue(q, o), NEW id \in Ids, NEW p \in Peers, NEW traffic \in Traffic,
         traffic = "User" <=> id \in UserMsgs
  PROVE  LET r == Pushed(q, o, id, p, traffic)
             out == Evicted(q, o, id)
         IN  /\ Queue(r, PushedOrder(q, o, id))
             /\ DOMAIN r = (DOMAIN q \ out) \cup {id}
  <1> DEFINE r == Pushed(q, o, id, p, traffic)
             out == Evicted(q, o, id)
             others == DOMAIN q \ {id}
             D == (DOMAIN q \ out) \cup {id}
             w == PushedOrder(q, o, id)
  <1>1. /\ out \subseteq others
        /\ IsFiniteSet(others \ out) /\ Cardinality(others \ out) + 1 <= CAPACITY
    BY EvictOne
  <1>2. /\ DOMAIN r = D
        /\ \A i \in D : r[i] = IF i = id THEN NewEntry(p, traffic) ELSE q[i]
    BY DEF Pushed
  <1>3. w = OrderWithout(o, out \cup {id}) \cup {<<i, id>> : i \in others \ out}
    <2>1. DOMAIN q \ (out \cup {id}) = others \ out
      OBVIOUS
    <2> QED
      BY <2>1 DEF PushedOrder
  <1> HIDE DEF r, out, w
  <1>4. NewEntry(p, traffic) \in Pending(Peers) /\ NewEntry(p, traffic).traffic = traffic
    <2>1. Backoff(0) \in 0 .. MAX_BACKOFF
      BY BackoffType
    <2> QED
      BY <2>1, OutboxAssumption DEF NewEntry, Pending
  <1>5. D \subseteq Ids
    BY DEF Queue, Owned
  <1>6. Owned(r)
    <2>1. \A i \in D : r[i] \in Pending(Peers) /\ (r[i].traffic = "User" <=> i \in UserMsgs)
      BY <1>2, <1>4 DEF Queue, Owned
    <2>2. r = [i \in D |-> r[i]]
      BY <1>2 DEF r, Pushed
    <2> HIDE DEF D
    <2> QED
      BY <1>2, <1>5, <2>1, <2>2 DEF Owned
  <1>7. IsFiniteSet(D) /\ Cardinality(D) <= CAPACITY
    <2>1. D = (others \ out) \cup {id} /\ id \notin others \ out
      BY <1>1
    <2>2. /\ IsFiniteSet((others \ out) \cup {id})
          /\ Cardinality((others \ out) \cup {id}) = Cardinality(others \ out) + 1
      BY <1>1, <2>1, FS_AddElement
    <2> HIDE DEF D, others
    <2> QED
      BY <1>1, <2>1, <2>2
  <1>8. Linear(r, w)
    <2> DEFINE rest == others \ out
    <2>1. D = rest \cup {id} /\ id \notin rest /\ rest \subseteq DOMAIN q
      BY <1>1
    <2>2. /\ \A i, j \in rest : <<i, j>> \in w <=> <<i, j>> \in o
          /\ \A i \in rest : <<i, id>> \in w /\ <<id, i>> \notin w
          /\ <<id, id>> \notin w
          /\ w \subseteq D \X D
      <3> DEFINE kept == OrderWithout(o, out \cup {id})
      <3>1. kept \subseteq rest \X rest
        BY DEF Queue, Linear, OrderWithout
      <3>2. \A i, j \in rest : <<i, j>> \in kept <=> <<i, j>> \in o
        BY DEF OrderWithout
      <3>3. w = kept \cup {<<i, id>> : i \in rest}
        BY <1>3
      <3> HIDE DEF rest, D, others, kept
      <3>4. \A i, j \in rest : <<i, j>> \in w <=> <<i, j>> \in o
        BY <2>1, <3>2, <3>3
      <3>5. \A i \in rest : <<i, id>> \in w /\ <<id, i>> \notin w
        BY <2>1, <3>1, <3>3
      <3>6. <<id, id>> \notin w
        BY <2>1, <3>1, <3>3
      <3>7. w \subseteq D \X D
        BY <2>1, <3>1, <3>3
      <3> QED
        BY <3>4, <3>5, <3>6, <3>7
    <2> HIDE DEF rest, D, others
    <2>3. \A i, j \in D : i # j => (<<i, j>> \in w <=> <<j, i>> \notin w)
      BY <2>1, <2>2 DEF Queue, Linear
    <2>4. \A i \in D : <<i, i>> \notin w
      BY <2>1, <2>2 DEF Queue, Linear
    <2>5. \A i, j, k \in D : <<i, j>> \in w /\ <<j, k>> \in w => <<i, k>> \in w
      <3> SUFFICES ASSUME NEW i \in D, NEW j \in D, NEW k \in D,
                          <<i, j>> \in w, <<j, k>> \in w
                   PROVE  <<i, k>> \in w
        OBVIOUS
      <3>1. i \in rest /\ j \in rest
        BY <2>1, <2>2
      <3>2. CASE k = id
        BY <2>2, <3>1, <3>2
      <3>3. CASE k \in rest
        BY <2>1, <2>2, <3>1, <3>3 DEF Queue, Linear
      <3> QED
        BY <2>1, <3>2, <3>3
    <2> QED
      BY <1>2, <2>2, <2>3, <2>4, <2>5 DEF Linear, D
  <1> QED
    BY <1>2, <1>6, <1>7, <1>8 DEF Queue, r, out, w

\* The same entries, with other timers.
LEMMA Retimed ==
  ASSUME NEW q, NEW o, Queue(q, o), NEW r,
         DOMAIN r = DOMAIN q, r \in [DOMAIN r -> Pending(Peers)], Keeps(r, q)
  PROVE  Queue(r, o)
  <1>1. Queue(r, OrderWithout(o, {}))
    BY Shrunk
  <1>2. OrderWithout(o, {}) = o
    BY DEF OrderWithout
  <1> QED
    BY <1>1, <1>2

\* Time passing moves timers only.
LEMMA ElapseQueue ==
  ASSUME NEW q, NEW o, Queue(q, o)
  PROVE  DOMAIN Elapse(q) = DOMAIN q /\ Queue(Elapse(q), o)
  <1> DEFINE r == Elapse(q)
  <1>1. DOMAIN r = DOMAIN q
    BY DEF Elapse
  <1>2. ASSUME NEW i \in DOMAIN q
        PROVE  /\ r[i] \in Pending(Peers)
               /\ r[i].traffic = q[i].traffic /\ r[i].recipient = q[i].recipient
    <2>1. q[i] \in Pending(Peers)
      BY DEF Queue, Owned
    <2>2. r[i] = [q[i] EXCEPT !.age  = IF @ < DEADLINE THEN @ + 1 ELSE DEADLINE,
                              !.wait = IF @ > 0 THEN @ - 1 ELSE 0]
      BY DEF Elapse
    <2> DEFINE a == IF q[i].age < DEADLINE THEN q[i].age + 1 ELSE DEADLINE
               w == IF q[i].wait > 0 THEN q[i].wait - 1 ELSE 0
    <2>3. a \in 0 .. DEADLINE /\ w \in 0 .. MAX_BACKOFF
      BY <2>1, OutboxAssumption DEF Pending
    <2>4. r[i] = [q[i] EXCEPT !.age = a, !.wait = w]
      BY <2>2
    <2> HIDE DEF r, a, w
    <2>5. r[i] = [recipient |-> q[i].recipient, traffic |-> q[i].traffic,
                  attempts |-> q[i].attempts, age |-> a, wait |-> w]
      BY <2>1, <2>4 DEF Pending
    <2> QED
      BY <2>1, <2>3, <2>5 DEF Pending
  <1>3. r = [i \in DOMAIN q |-> r[i]]
    BY DEF Elapse
  <1> HIDE DEF r
  <1>4. r \in [DOMAIN r -> Pending(Peers)] /\ Keeps(r, q)
    BY <1>1, <1>2, <1>3 DEF Keeps
  <1>5. Queue(r, o)
    BY <1>1, <1>4, Retimed
  <1> QED
    BY <1>1, <1>5 DEF r

\* Waking the entries of a peer keeps their age.
LEMMA WakeQueue ==
  ASSUME NEW q, NEW o, Queue(q, o), NEW p
  PROVE  /\ DOMAIN AfterWake(q, p) = DOMAIN q
         /\ Queue(AfterWake(q, p), o) /\ Keeps(AfterWake(q, p), q)
         /\ \A i \in DOMAIN q : AfterWake(q, p)[i].age = q[i].age
  <1> DEFINE r == AfterWake(q, p)
  <1>1. DOMAIN r = DOMAIN q
    BY DEF AfterWake
  <1>2. ASSUME NEW i \in DOMAIN q
        PROVE  /\ r[i] \in Pending(Peers) /\ r[i].age = q[i].age
               /\ r[i].traffic = q[i].traffic /\ r[i].recipient = q[i].recipient
    <2>1. q[i] \in Pending(Peers)
      BY DEF Queue, Owned
    <2>2. r[i] = [q[i] EXCEPT !.wait = 0] \/ r[i] = q[i]
      BY DEF AfterWake
    <2> HIDE DEF r
    <2> QED
      BY <2>1, <2>2, OutboxAssumption DEF Pending
  <1>3. r = [i \in DOMAIN q |-> r[i]]
    BY DEF AfterWake
  <1> HIDE DEF r
  <1>4. r \in [DOMAIN r -> Pending(Peers)] /\ Keeps(r, q)
    BY <1>1, <1>2, <1>3 DEF Keeps
  <1>5. Queue(r, o)
    BY <1>1, <1>4, Retimed
  <1> QED
    BY <1>1, <1>2, <1>4, <1>5 DEF r

\* take_due drops exactly what has reached its deadline.
LEMMA TakeDueQueue ==
  ASSUME NEW q, NEW o, Queue(q, o)
  PROVE  /\ DOMAIN AfterTakeDue(q) = DOMAIN q \ Expired(q)
         /\ Queue(AfterTakeDue(q), OrderWithout(o, Expired(q)))
         /\ Keeps(AfterTakeDue(q), q)
         /\ \A i \in Expired(q) : i \in DOMAIN q /\ q[i].age = DEADLINE
  <1> DEFINE r == AfterTakeDue(q)
  <1>1. DOMAIN r = DOMAIN q \ Expired(q)
    BY DEF AfterTakeDue
  <1>2. ASSUME NEW i \in DOMAIN r
        PROVE  /\ r[i] \in Pending(Peers)
               /\ r[i].traffic = q[i].traffic /\ r[i].recipient = q[i].recipient
    <2>1. i \in DOMAIN q /\ q[i] \in Pending(Peers)
      BY <1>1 DEF Queue, Owned
    <2>2. r[i] = Attempted(q[i]) \/ r[i] = q[i]
      BY <1>1 DEF AfterTakeDue
    <2> HIDE DEF r
    <2> DEFINE n == IF q[i].attempts < MAX_SHIFT THEN q[i].attempts + 1 ELSE MAX_SHIFT
    <2>3. n \in 0 .. MAX_SHIFT /\ n \in Nat
      BY <2>1, OutboxAssumption DEF Pending
    <2>4. Attempted(q[i]) = [q[i] EXCEPT !.attempts = n, !.wait = Backoff(n)]
      BY DEF Attempted
    <2> HIDE DEF n
    <2>5. Backoff(n) \in 0 .. MAX_BACKOFF
      BY <2>3, BackoffType
    <2> QED
      BY <2>1, <2>2, <2>3, <2>4, <2>5 DEF Pending
  <1>3. r = [i \in DOMAIN r |-> r[i]]
    BY DEF AfterTakeDue
  <1> HIDE DEF r
  <1>4. r \in [DOMAIN r -> Pending(Peers)] /\ Keeps(r, q)
    BY <1>1, <1>2, <1>3 DEF Keeps
  <1>5. Queue(r, OrderWithout(o, Expired(q)))
    BY <1>1, <1>4, Shrunk
  <1>6. ASSUME NEW i \in Expired(q) PROVE i \in DOMAIN q /\ q[i].age = DEADLINE
    <2>1. i \in DOMAIN q /\ q[i].age >= DEADLINE /\ q[i] \in Pending(Peers)
      BY DEF Queue, Owned, Expired
    <2> QED
      BY <2>1, OutboxAssumption DEF Pending
  <1> QED
    BY <1>1, <1>4, <1>5, <1>6 DEF r

-----------------------------------------------------------------------------
(* The same for the worker's own steps.                                     *)

\* Hearing from a peer drops nothing that is not at its deadline.
LEMMA TouchQueue ==
  ASSUME Queue(pending, before), NEW p
  PROVE  /\ Queue(Touched(p), TouchedOrder(p)) /\ Keeps(Touched(p), pending)
         /\ \A i \in DOMAIN pending \ DOMAIN Touched(p) : pending[i].age = DEADLINE
  <1>1. CASE Discovers(p)
    <2> DEFINE w == AfterWake(pending, p)
    <2>1. /\ DOMAIN w = DOMAIN pending /\ Queue(w, before) /\ Keeps(w, pending)
          /\ \A i \in DOMAIN pending : w[i].age = pending[i].age
      BY WakeQueue
    <2>2. Touched(p) = AfterTakeDue(w)
      BY <1>1 DEF Touched
    <2> HIDE DEF w
    <2>3. /\ DOMAIN Touched(p) = DOMAIN w \ Expired(w)
          /\ Queue(Touched(p), OrderWithout(before, Expired(w)))
          /\ Keeps(Touched(p), w)
          /\ \A i \in Expired(w) : i \in DOMAIN w /\ w[i].age = DEADLINE
      BY <2>1, <2>2, TakeDueQueue
    <2>4. DOMAIN pending \ DOMAIN Touched(p) = Expired(w)
      BY <2>1, <2>3
    <2>5. TouchedOrder(p) = OrderWithout(before, Expired(w))
      BY <2>4 DEF TouchedOrder
    <2> QED
      BY <2>1, <2>3, <2>4, <2>5 DEF Keeps
  <1>2. CASE ~Discovers(p)
    <2>1. Touched(p) = pending
      BY <1>2 DEF Touched
    <2>2. TouchedOrder(p) = before
      BY <2>1 DEF TouchedOrder, OrderWithout
    <2> QED
      BY <2>1, <2>2 DEF Keeps
  <1> QED
    BY <1>1, <1>2

\* A distribution takes no message's place unless the queue is full.
LEMMA DistributeQueue ==
  ASSUME NEW q, NEW o, Queue(q, o), NEW p \in Peers, Distribute(q, o, p)
  PROVE  /\ Queue(pending', before')
         /\ (DOMAIN pending') \cap UserMsgs \subseteq DOMAIN q
         /\ \A m \in UserMsgs \cap DOMAIN q :
              m \notin DOMAIN pending' => Cardinality(DOMAIN q) = CAPACITY
  <1> DEFINE kept == Without(q, Superseded(q, p))
             order == OrderWithout(o, Superseded(q, p))
             out == Evicted(kept, order, p)
  <1>1. /\ Queue(kept, order) /\ DOMAIN kept = DOMAIN q \ Superseded(q, p)
    BY WithoutQueue
  <1>2. pending' = Pushed(kept, order, p, p, "Internal") /\ before' = PushedOrder(kept, order, p)
    BY DEF Distribute
  <1>3. p \in Ids /\ p \notin UserMsgs /\ "Internal" \in Traffic /\ "Internal" # "User"
    BY StoreForwardAssumption DEF Ids, Traffic
  <1> HIDE DEF kept, order, out
  <1>4. /\ Queue(pending', before')
        /\ DOMAIN pending' = (DOMAIN kept \ out) \cup {p}
    <2>1. /\ Queue(Pushed(kept, order, p, p, "Internal"), PushedOrder(kept, order, p))
          /\ DOMAIN Pushed(kept, order, p, p, "Internal") = (DOMAIN kept \ out) \cup {p}
      <3>1. ASSUME NEW t \in Traffic, t # "User"
            PROVE  /\ Queue(Pushed(kept, order, p, p, t), PushedOrder(kept, order, p))
                   /\ DOMAIN Pushed(kept, order, p, p, t) = (DOMAIN kept \ out) \cup {p}
        <4>1. t = "User" <=> p \in UserMsgs
          BY <1>3, <3>1
        <4> QED
          BY <1>1, <1>3, <4>1, PushQueue DEF out
      <3> QED
        BY <1>3, <3>1
    <2> QED
      BY <1>2, <2>1
  <1>5. out # {} => Cardinality(DOMAIN kept) = CAPACITY
    BY <1>1, EvictOne DEF out
  <1>6. out # {} => Cardinality(DOMAIN q) = CAPACITY
    <2>1. /\ IsFiniteSet(DOMAIN q) /\ Cardinality(DOMAIN q) <= CAPACITY
          /\ DOMAIN kept \in SUBSET DOMAIN q
      BY <1>1 DEF Queue
    <2>2. IsFiniteSet(DOMAIN kept) /\ Cardinality(DOMAIN kept) <= Cardinality(DOMAIN q)
      BY <2>1, FS_Subset
    <2>3. Cardinality(DOMAIN kept) \in Nat /\ Cardinality(DOMAIN q) \in Nat /\ CAPACITY \in Nat
      BY <2>1, <2>2, FS_CardinalityType, OutboxAssumption
    <2> QED
      BY <1>5, <2>1, <2>2, <2>3
  <1>7. \A m \in UserMsgs \cap DOMAIN q : m \notin Superseded(q, p)
    BY DEF Superseded, Queue, Owned
  <1> QED
    BY <1>1, <1>3, <1>4, <1>6, <1>7

-----------------------------------------------------------------------------
(* The invariant.                                                           *)

NodeTypes ==
  /\ phase \in {"recv", "tick", "share"}
  /\ running \in BOOLEAN /\ uiRunning \in BOOLEAN
  /\ uiRunning => running
  /\ DOMAIN peers \subseteq Peers
  /\ peers \in [DOMAIN peers -> 0 .. PEER_TTL]
  /\ prekeyed \subseteq Peers /\ toShare \subseteq Peers

UiTypes ==
  /\ badge \in Nat
  /\ status \in [UserMsgs -> {"new", "refused", "broadcast", "queued"}]
  /\ receipts \in [UserMsgs -> Seq({"delivered", "expired"})]

\* A message has no receipt before it is sent nor while it is queued, and one at
\* most after that.
Unsettled ==
  \A m \in UserMsgs :
    \/ status[m] \in {"new", "refused"} /\ receipts[m] = << >> /\ m \notin DOMAIN pending
    \/ status[m] = "broadcast" /\ receipts[m] = <<"delivered">> /\ m \notin DOMAIN pending
    \/ status[m] = "queued" /\ receipts[m] = << >>
    \/ /\ status[m] = "queued" /\ receipts[m] \in {<<"delivered">>, <<"expired">>}
       /\ m \notin DOMAIN pending

Badge == badge = Cardinality(UserIds(pending)) \/ Lost # {}

IInv == NodeTypes /\ UiTypes /\ Queue(pending, before) /\ Unsettled /\ Badge

\* What Outcome makes of the state.
ReadsAs(m) ==
  /\ status[m] \in {"new", "refused"} => Outcome(m) = status[m]
  /\ m \in DOMAIN pending => Outcome(m) = "waiting"
  /\ status[m] \in {"broadcast", "queued"} =>
       /\ receipts[m] = <<"delivered">> => Outcome(m) = "delivered"
       /\ receipts[m] = <<"expired">> => Outcome(m) = "expired"
       /\ receipts[m] = << >> /\ m \notin DOMAIN pending => Outcome(m) = "lost"

Reads == \A m \in UserMsgs : ReadsAs(m)

LEMMA Reading == Unsettled => Reads
  <1> SUFFICES ASSUME Unsettled, NEW m \in UserMsgs
               PROVE  ReadsAs(m)
    BY DEF Reads
  <1>1. Len(<< >>) = 0 /\ Len(<<"delivered">>) = 1 /\ Len(<<"expired">>) = 1
    OBVIOUS
  <1>2. <<"delivered">>[1] = "delivered" /\ <<"expired">>[1] = "expired"
    OBVIOUS
  <1>3. CASE status[m] \in {"new", "refused"} /\ receipts[m] = << >> /\ m \notin DOMAIN pending
    BY <1>3 DEF Outcome, ReadsAs
  <1>4. CASE /\ status[m] \in {"broadcast", "queued"} /\ receipts[m] \in {<<"delivered">>, <<"expired">>}
             /\ m \notin DOMAIN pending
    <2>1. Len(receipts[m]) = 1
      BY <1>1, <1>4
    <2>2. Outcome(m) = receipts[m][1]
      BY <1>4, <2>1 DEF Outcome
    <2>3. receipts[m] # << >>
      BY <1>1, <2>1
    <2> QED
      BY <1>2, <1>4, <2>2, <2>3 DEF ReadsAs
  <1>5. CASE status[m] = "queued" /\ receipts[m] = << >>
    <2>1. Len(receipts[m]) = 0
      BY <1>1, <1>5
    <2>2. Outcome(m) = IF m \in DOMAIN pending THEN "waiting" ELSE "lost"
      BY <1>5, <2>1 DEF Outcome
    <2>3. receipts[m] # <<"delivered">> /\ receipts[m] # <<"expired">>
      BY <1>1, <2>1
    <2> QED
      BY <1>5, <2>2, <2>3 DEF ReadsAs
  <1> QED
    BY <1>3, <1>4, <1>5 DEF Unsettled

LEMMA ReadingNext == Unsettled' => Reads'
  BY Reading, PTL

\* The messages of a queue are its entries with a message's id.
LEMMA UserIdsAre ==
  ASSUME NEW q, NEW o, Queue(q, o)
  PROVE  /\ UserIds(q) = (DOMAIN q) \cap UserMsgs
         /\ Cardinality(UserIds(q)) \in Nat
  <1>1. UserIds(q) = (DOMAIN q) \cap UserMsgs
    BY DEF Queue, Owned, UserIds
  <1>2. IsFiniteSet(UserIds(q))
    BY <1>1, FS_Subset DEF Queue
  <1> QED
    BY <1>1, <1>2, FS_CardinalityType

LEMMA InitInv == Init => IInv
  <1> SUFFICES ASSUME Init PROVE IInv
    OBVIOUS
  <1>1. NodeTypes
    BY DEF Init, NodeTypes
  <1>2. UiTypes
    BY DEF Init, UiTypes
  <1>3. DOMAIN pending = {} /\ before = {} /\ pending \in [{} -> Pending(Peers)]
    BY DEF Init
  <1>4. IsFiniteSet({}) /\ Cardinality({}) = 0
    BY FS_EmptySet
  <1>5. Queue(pending, before)
    BY <1>3, <1>4, OutboxAssumption DEF Queue, Owned, Linear
  <1>6. Unsettled
    BY <1>3 DEF Init, Unsettled
  <1>7. Badge
    <2>1. UserIds(pending) = {}
      BY <1>3 DEF UserIds
    <2> QED
      BY <1>4, <2>1 DEF Init, Badge
  <1> QED
    BY <1>1, <1>2, <1>5, <1>6, <1>7 DEF IInv

-----------------------------------------------------------------------------
(* The steps.  Each shows the user a step of Receipts, or none.             *)

Shown == [m \in UserMsgs |-> Outcome(m)]

Refines == R!Next \/ UNCHANGED Shown

\* No message leaves early, in this step.
NotEarly ==
  \A m \in UserMsgs :
    m \in DOMAIN pending /\ m \notin DOMAIN pending' /\ receipts'[m] # <<"delivered">> =>
      pending[m].age = DEADLINE \/ Cardinality(DOMAIN pending) = CAPACITY

Step == UiTypes' /\ Unsettled' /\ Badge' /\ NotEarly /\ Refines

\* The badge keeps right when it is not touched, or is set from the queue.
LEMMA BadgeStep ==
  ASSUME IInv, Queue(pending', before'), UNCHANGED <<status, receipts>>,
         (DOMAIN pending') \cap UserMsgs \subseteq DOMAIN pending,
         UNCHANGED badge \/ SyncBadge
  PROVE  Badge' /\ badge' \in Nat
  <1>1. UserIds(pending) = (DOMAIN pending) \cap UserMsgs
    BY UserIdsAre DEF IInv
  <1>2. UserIds(pending') = (DOMAIN pending') \cap UserMsgs /\ Cardinality(UserIds(pending')) \in Nat
    BY UserIdsAre
  <1>3. CASE SyncBadge
    BY <1>2, <1>3 DEF SyncBadge, Badge
  <1>4. CASE UNCHANGED badge
    <2>1. badge' \in Nat
      BY <1>4 DEF IInv, UiTypes
    <2>2. Lost \subseteq Lost'
      BY DEF Lost
    <2>3. CASE UserIds(pending') = UserIds(pending)
      BY <1>4, <2>1, <2>2, <2>3 DEF Badge, IInv
    <2>4. CASE UserIds(pending') # UserIds(pending)
      <3>1. PICK m \in UserMsgs : m \in DOMAIN pending /\ m \notin DOMAIN pending'
        BY <1>1, <1>2, <2>4
      <3>2. m \in Lost'
        BY <3>1 DEF Lost, IInv, Unsettled
      <3> QED
        BY <2>1, <3>2 DEF Badge
    <2> QED
      BY <2>3, <2>4
  <1> QED
    BY <1>3, <1>4

\* The user is told nothing, and at most messages vanish.
LEMMA QuietStep ==
  ASSUME IInv, Queue(pending', before'), UNCHANGED <<status, receipts>>,
         (DOMAIN pending') \cap UserMsgs \subseteq DOMAIN pending,
         UNCHANGED badge \/ SyncBadge,
         \A m \in UserMsgs \cap DOMAIN pending :
           m \notin DOMAIN pending' =>
             pending[m].age = DEADLINE \/ Cardinality(DOMAIN pending) = CAPACITY
  PROVE  Step
  <1> DEFINE vanished == {m \in UserMsgs : m \in DOMAIN pending /\ m \notin DOMAIN pending'}
  <1>1. Badge' /\ badge' \in Nat
    BY BadgeStep
  <1>2. UiTypes'
    BY <1>1 DEF IInv, UiTypes
  <1>3. Unsettled'
    BY DEF IInv, Unsettled
  <1>4. NotEarly
    BY DEF NotEarly
  <1>5. Reads /\ Reads'
    BY <1>3, Reading, ReadingNext DEF IInv
  <1>6. \A m \in UserMsgs \ vanished : Outcome(m)' = Outcome(m)
    BY DEF Outcome
  <1>7. \A m \in vanished : Outcome(m) = "waiting" /\ Outcome(m)' = "lost"
    BY <1>3, <1>5 DEF Reads, ReadsAs, IInv, Unsettled
  <1>8. vanished = {} => Refines
    BY <1>6 DEF Refines, Shown
  <1>9. vanished # {} => Refines
    <2> SUFFICES ASSUME vanished # {} PROVE Refines
      OBVIOUS
    <2>1. vanished \subseteq R!Waiting
      BY <1>7 DEF R!Waiting
    <2>2. vanished \in SUBSET UserMsgs
      OBVIOUS
    <2> HIDE DEF vanished
    <2>3. Shown' = [m \in UserMsgs |-> IF m \in vanished THEN "lost" ELSE Shown[m]]
      BY <1>6, <1>7 DEF Shown
    <2>4. R!Lose(vanished)
      BY <2>1, <2>3 DEF R!Lose, Shown
    <2> QED
      BY <2>2, <2>4 DEF Refines, R!Next
  <1> QED
    BY <1>1, <1>2, <1>3, <1>4, <1>8, <1>9 DEF Step

\* A step that leaves the outbox and the user alone.
LEMMA IdleStep ==
  ASSUME IInv, UNCHANGED <<outbox, uiVars>>
  PROVE  Queue(pending', before') /\ Step
  <1>1. pending' = pending /\ before' = before /\ UNCHANGED <<badge, status, receipts>>
    BY DEF outbox, uiVars
  <1>2. Queue(pending', before')
    BY <1>1 DEF IInv
  <1> QED
    BY <1>1, <1>2, QuietStep

\* A report is one receipt more.
LEMMA ReportType ==
  ASSUME UiTypes, NEW ids, NEW word \in {"delivered", "expired"}, Report(ids, word)
  PROVE  receipts' \in [UserMsgs -> Seq({"delivered", "expired"})]
  <1> DEFINE Words == {"delivered", "expired"}
  <1>1. ASSUME NEW m \in UserMsgs
        PROVE  receipts[m] \in Seq(Words) /\ Append(receipts[m], word) \in Seq(Words)
    <2>1. receipts[m] \in Seq(Words)
      BY DEF UiTypes
    <2>2. word \in Words
      OBVIOUS
    <2> HIDE DEF Words
    <2> QED
      BY <2>1, <2>2
  <1>2. receipts' = [m \in UserMsgs |->
                       IF m \in ids THEN Append(receipts[m], word) ELSE receipts[m]]
    BY DEF Report
  <1> QED
    BY <1>1, <1>2

\* A message that never enters the queue.
LEMMA UnqueuedStep ==
  ASSUME IInv, NEW m \in UserMsgs, status[m] = "new", UNCHANGED <<outbox, badge>>,
         \/ status' = [status EXCEPT ![m] = "refused"] /\ UNCHANGED receipts
         \/ status' = [status EXCEPT ![m] = "broadcast"] /\ Report({m}, "delivered")
  PROVE  Queue(pending', before') /\ Step
  <1>1. pending' = pending /\ before' = before /\ badge' = badge
    BY DEF outbox
  <1>2. Queue(pending', before')
    BY <1>1 DEF IInv
  <1>3. receipts[m] = << >> /\ m \notin DOMAIN pending
    BY DEF IInv, Unsettled
  <1>4. \A i \in UserMsgs \ {m} : status'[i] = status[i] /\ receipts'[i] = receipts[i]
    BY DEF IInv, UiTypes, Report
  <1>5. \/ status'[m] = "refused" /\ receipts'[m] = << >>
        \/ status'[m] = "broadcast" /\ receipts'[m] = <<"delivered">>
    <2>1. Append(receipts[m], "delivered") = <<"delivered">>
      BY <1>3
    <2> QED
      BY <1>3, <2>1 DEF IInv, UiTypes, Report
  <1>6. UiTypes'
    <2>1. CASE UNCHANGED receipts
      BY <1>1, <2>1 DEF IInv, UiTypes
    <2>2. CASE Report({m}, "delivered")
      <3>1. receipts' \in [UserMsgs -> Seq({"delivered", "expired"})]
        BY <2>2, ReportType DEF IInv
      <3> QED
        BY <1>1, <3>1 DEF IInv, UiTypes
    <2> QED
      BY <2>1, <2>2
  <1>7. Unsettled'
    BY <1>1, <1>3, <1>4, <1>5 DEF IInv, Unsettled
  <1>8. Badge'
    <2>1. Lost \subseteq Lost'
      BY <1>1, <1>4 DEF Lost
    <2> QED
      BY <1>1, <2>1 DEF IInv, Badge
  <1>9. NotEarly
    BY <1>1 DEF NotEarly
  <1>10. Refines
    <2>1. Reads /\ Reads'
      BY <1>7, Reading, ReadingNext DEF IInv
    <2>2. \A i \in UserMsgs \ {m} : Outcome(i)' = Outcome(i)
      BY <1>1, <1>4 DEF Outcome
    <2>3. Shown[m] = "new"
      BY <2>1 DEF Reads, ReadsAs, Shown
    <2>4. Outcome(m)' \in {"refused", "delivered"}
      BY <1>5, <2>1 DEF Reads, ReadsAs
    <2>5. Shown' = [Shown EXCEPT ![m] = Outcome(m)']
      BY <2>2 DEF Shown
    <2>6. R!Refuse(m) \/ R!Broadcast(m)
      BY <2>3, <2>4, <2>5 DEF R!Refuse, R!Broadcast, Shown
    <2> QED
      BY <2>6 DEF Refines, R!Next
  <1> QED
    BY <1>2, <1>6, <1>7, <1>8, <1>9, <1>10 DEF Step

\* A directed message: one older at most is given up for it.
LEMMA SendDirectedStep ==
  ASSUME IInv, NEW m \in UserMsgs, NEW p \in Peers, SendDirected(m, p)
  PROVE  Queue(pending', before') /\ Step
  <1> DEFINE out == Evicted(pending, before, m)
             given == out \cap UserMsgs
  <1>1. receipts[m] = << >> /\ m \notin DOMAIN pending /\ status[m] = "new"
    BY DEF IInv, Unsettled, SendDirected
  <1>2. /\ Queue(pending', before')
        /\ DOMAIN pending' = (DOMAIN pending \ out) \cup {m}
    <2>1. m \in Ids /\ "User" \in Traffic
      BY DEF Ids, Traffic
    <2>2. Queue(pending, before)
      BY DEF IInv
    <2>3. ASSUME NEW t \in Traffic, t = "User" <=> m \in UserMsgs
          PROVE  /\ Queue(Pushed(pending, before, m, p, t), PushedOrder(pending, before, m))
                 /\ DOMAIN Pushed(pending, before, m, p, t) = (DOMAIN pending \ out) \cup {m}
      BY <2>1, <2>2, <2>3, PushQueue
    <2> QED
      BY <2>1, <2>3 DEF SendDirected
  <1>3. /\ out \subseteq DOMAIN pending \ {m} /\ \A i, j \in out : i = j
        /\ out # {} => Cardinality(DOMAIN pending) = CAPACITY
    BY EvictOne DEF IInv
  <1> HIDE DEF out
  <1>4. \A i \in given : receipts[i] = << >> /\ receipts'[i] = <<"expired">>
    <2>1. \A i \in given : receipts[i] = << >>
      BY <1>3 DEF IInv, Unsettled
    <2>2. Append(<< >>, "expired") = <<"expired">>
      OBVIOUS
    <2> QED
      BY <2>1, <2>2 DEF SendDirected, Report, out
  <1>5. \A i \in UserMsgs \ given : receipts'[i] = receipts[i]
    BY DEF SendDirected, Report, out
  <1>6. status'[m] = "queued" /\ \A i \in UserMsgs \ {m} : status'[i] = status[i]
    BY DEF SendDirected, IInv, UiTypes
  <1>7. Cardinality(UserIds(pending')) \in Nat
    BY <1>2, UserIdsAre
  <1>8. UiTypes'
    <2>1. receipts' \in [UserMsgs -> Seq({"delivered", "expired"})]
      BY ReportType DEF IInv, SendDirected
    <2> QED
      BY <1>7, <2>1 DEF IInv, UiTypes, SendDirected, SyncBadge
  <1>9. Unsettled'
    BY <1>1, <1>2, <1>3, <1>4, <1>5, <1>6 DEF IInv, Unsettled
  <1>10. Badge'
    BY DEF Badge, SendDirected, SyncBadge
  <1>11. NotEarly
    BY <1>2, <1>3 DEF NotEarly
  <1>12. Refines
    <2>1. Reads /\ Reads'
      BY <1>9, Reading, ReadingNext DEF IInv
    <2>2. \A i \in UserMsgs \ (given \cup {m}) : Outcome(i)' = Outcome(i)
      BY <1>2, <1>5, <1>6 DEF Outcome
    <2>3. \A i \in given : Outcome(i) = "waiting" /\ status'[i] = "queued"
      BY <1>3, <1>6, <2>1 DEF Reads, ReadsAs, IInv, Unsettled
    <2>4. \A i \in given : Outcome(i)' = "expired"
      BY <1>4, <2>1, <2>3 DEF Reads, ReadsAs
    <2>5. Outcome(m) = "new" /\ Outcome(m)' = "waiting"
      BY <1>1, <1>2, <2>1 DEF Reads, ReadsAs
    <2>6. given \subseteq R!Waiting /\ m \notin given /\ \A i, j \in given : i = j
      BY <1>3, <2>3 DEF R!Waiting
    <2>7. given \in SUBSET UserMsgs
      OBVIOUS
    <2> HIDE DEF given
    <2>8. Shown' = [i \in UserMsgs |-> IF i = m THEN "waiting"
                                       ELSE IF i \in given THEN "expired" ELSE Shown[i]]
      BY <2>2, <2>4, <2>5 DEF Shown
    <2>9. R!Queue(m, given)
      BY <2>5, <2>6, <2>8 DEF R!Queue, Shown
    <2> QED
      BY <2>7, <2>9 DEF Refines, R!Next
  <1> QED
    BY <1>2, <1>8, <1>9, <1>10, <1>11, <1>12 DEF Step

\* An ack: the message it is for is delivered, others may vanish.
LEMMA IngestAckStep ==
  ASSUME IInv, NEW p \in Peers, NEW i \in Ids, IngestAck(p, i)
  PROVE  Queue(pending', before') /\ Step
  <1> DEFINE t == Touched(p)
             vanished == {m \in UserMsgs : m \in DOMAIN pending /\ m \notin DOMAIN t}
  <1>1. /\ Queue(t, TouchedOrder(p)) /\ Keeps(t, pending)
        /\ \A j \in DOMAIN pending \ DOMAIN t : pending[j].age = DEADLINE
    BY TouchQueue DEF IInv
  <1>2. /\ i \in DOMAIN t /\ pending' = Without(t, {i})
        /\ before' = OrderWithout(TouchedOrder(p), {i})
        /\ Report({i} \cap UserIds(t), "delivered") /\ SyncBadge /\ status' = status
    BY DEF IngestAck
  <1> HIDE DEF t
  <1>3. Queue(pending', before') /\ DOMAIN pending' = DOMAIN t \ {i}
    BY <1>1, <1>2, WithoutQueue
  <1>4. DOMAIN t \subseteq DOMAIN pending
    BY <1>1 DEF Keeps
  <1>5. UserIds(t) = (DOMAIN t) \cap UserMsgs
    BY <1>1, UserIdsAre
  <1>6. CASE i \notin UserMsgs
    <2>1. receipts' = receipts
      BY <1>2, <1>5, <1>6 DEF Report, IInv, UiTypes
    <2> QED
      BY <1>1, <1>2, <1>3, <1>4, <1>6, <2>1, QuietStep
  <1>7. CASE i \in UserMsgs
    <2>1. receipts[i] = << >> /\ status[i] = "queued" /\ i \in DOMAIN pending
      BY <1>2, <1>4, <1>7 DEF IInv, Unsettled
    <2>2. Append(<< >>, "delivered") = <<"delivered">>
      OBVIOUS
    <2>3. /\ receipts'[i] = <<"delivered">>
          /\ \A m \in UserMsgs \ {i} : receipts'[m] = receipts[m]
      BY <1>2, <1>5, <1>7, <2>1, <2>2 DEF Report
    <2>4. UiTypes'
      <3>1. receipts' \in [UserMsgs -> Seq({"delivered", "expired"})]
        BY <1>2, ReportType DEF IInv
      <3>2. Cardinality(UserIds(pending')) \in Nat
        BY <1>3, UserIdsAre
      <3> QED
        BY <1>2, <3>1, <3>2 DEF IInv, UiTypes, SyncBadge
    <2>5. Unsettled'
      BY <1>2, <1>3, <1>4, <2>1, <2>3 DEF IInv, Unsettled
    <2>6. Badge'
      BY <1>2 DEF Badge, SyncBadge
    <2>7. NotEarly
      BY <1>1, <1>3, <2>3 DEF NotEarly
    <2>8. Refines
      <3>1. Reads /\ Reads'
        BY <2>5, Reading, ReadingNext DEF IInv
      <3>2. \A m \in UserMsgs \ (vanished \cup {i}) : Outcome(m)' = Outcome(m)
        BY <1>2, <1>3, <1>4, <2>3 DEF Outcome
      <3>3. \A m \in vanished : Outcome(m) = "waiting" /\ Outcome(m)' = "lost"
        <4> SUFFICES ASSUME NEW m \in vanished
                     PROVE  Outcome(m) = "waiting" /\ Outcome(m)' = "lost"
          OBVIOUS
        <4>1. /\ m \in UserMsgs /\ m \in DOMAIN pending /\ m \notin DOMAIN pending' /\ m # i
              /\ status[m] = "queued" /\ receipts[m] = << >>
          BY <1>2, <1>3 DEF IInv, Unsettled
        <4>2. status'[m] = "queued" /\ receipts'[m] = << >>
          BY <1>2, <2>3, <4>1
        <4> QED
          BY <3>1, <4>1, <4>2 DEF Reads, ReadsAs
      <3>4. Outcome(i) = "waiting" /\ Outcome(i)' = "delivered"
        BY <1>2, <1>7, <2>1, <2>3, <3>1 DEF Reads, ReadsAs
      <3>5. i \in R!Waiting /\ vanished \subseteq R!Waiting \ {i} /\ vanished \in SUBSET UserMsgs
        BY <1>2, <1>7, <3>3, <3>4 DEF R!Waiting
      <3> HIDE DEF vanished
      <3>6. Shown' = [m \in UserMsgs |-> IF m = i THEN "delivered"
                                         ELSE IF m \in vanished THEN "lost" ELSE Shown[m]]
        BY <3>2, <3>3, <3>4 DEF Shown
      <3>7. R!Confirm(i, vanished)
        BY <3>5, <3>6 DEF R!Confirm, Shown
      <3> QED
        BY <1>7, <3>5, <3>7 DEF Refines, R!Next
    <2> QED
      BY <1>3, <2>4, <2>5, <2>6, <2>7, <2>8 DEF Step
  <1> QED
    BY <1>6, <1>7

\* A tick gives up what is late, and tells.
LEMMA TickStep ==
  ASSUME IInv, TickRunning
  PROVE  Queue(pending', before') /\ Step
  <1> DEFINE late == Expired(pending) \cap UserMsgs
  <1>1. /\ Queue(pending', before')
        /\ DOMAIN pending' = DOMAIN pending \ Expired(pending)
        /\ \A i \in Expired(pending) : i \in DOMAIN pending /\ pending[i].age = DEADLINE
    BY TakeDueQueue DEF IInv, TickRunning
  <1>2. UserIds(pending) = (DOMAIN pending) \cap UserMsgs
    BY UserIdsAre DEF IInv
  <1>3. Report(late, "expired") /\ SyncBadge /\ status' = status
    <2>1. Expired(pending) \cap UserIds(pending) = late
      BY <1>1, <1>2
    <2> QED
      BY <2>1 DEF TickRunning
  <1>4. \A m \in late : m \in UserMsgs /\ m \in DOMAIN pending /\ m \notin DOMAIN pending'
    BY <1>1
  <1>5. \A m \in UserMsgs \ late : m \in DOMAIN pending' <=> m \in DOMAIN pending
    BY <1>1
  <1>6. late \in SUBSET UserMsgs
    OBVIOUS
  <1>7. NotEarly
    BY <1>1 DEF NotEarly
  <1> HIDE DEF late
  <1>8. \A m \in late : receipts[m] = << >> /\ status[m] = "queued"
    BY <1>4 DEF IInv, Unsettled
  <1>9. \A m \in late : receipts'[m] = <<"expired">>
    <2>1. Append(<< >>, "expired") = <<"expired">>
      OBVIOUS
    <2> QED
      BY <1>3, <1>4, <1>8, <2>1 DEF Report
  <1>10. \A m \in UserMsgs \ late : receipts'[m] = receipts[m]
    BY <1>3 DEF Report
  <1>11. UiTypes'
    <2>1. receipts' \in [UserMsgs -> Seq({"delivered", "expired"})]
      BY <1>3, ReportType DEF IInv
    <2>2. Cardinality(UserIds(pending')) \in Nat
      BY <1>1, UserIdsAre
    <2> QED
      BY <1>3, <2>1, <2>2 DEF IInv, UiTypes, SyncBadge
  <1>12. Unsettled'
    BY <1>3, <1>4, <1>5, <1>8, <1>9, <1>10 DEF IInv, Unsettled
  <1>13. Badge'
    BY <1>3 DEF Badge, SyncBadge
  <1>14. Refines
    <2>1. Reads /\ Reads'
      BY <1>12, Reading, ReadingNext DEF IInv
    <2>2. \A m \in UserMsgs \ late : Outcome(m)' = Outcome(m)
      BY <1>3, <1>5, <1>10 DEF Outcome
    <2>3. \A m \in late : Outcome(m) = "waiting" /\ Outcome(m)' = "expired"
      BY <1>3, <1>4, <1>8, <1>9, <2>1 DEF Reads, ReadsAs
    <2>4. late \subseteq R!Waiting
      BY <1>4, <2>3 DEF R!Waiting
    <2>5. Shown' = [m \in UserMsgs |-> IF m \in late THEN "expired" ELSE Shown[m]]
      BY <2>2, <2>3 DEF Shown
    <2>6. late # {} => R!GiveUp(late)
      BY <2>4, <2>5 DEF R!GiveUp, Shown
    <2>7. late = {} => UNCHANGED Shown
      BY <2>2 DEF Shown
    <2> QED
      BY <1>6, <2>6, <2>7 DEF Refines, R!Next
  <1> QED
    BY <1>1, <1>7, <1>11, <1>12, <1>13, <1>14 DEF Step

-----------------------------------------------------------------------------
(* The theorems.                                                            *)

\* The loop and the peer table keep their types, and the UI is not told that
\* the node runs when it does not.
LEMMA NodeStep ==
  ASSUME NodeTypes, [Next]_vars
  PROVE  NodeTypes'
  <1>1. CASE StartFails \/ StartNoBeacon \/ Start \/ StopFails \/ Stop \/ Timeout
    <2>1. /\ phase' = "tick" \/ UNCHANGED phase
          /\ UNCHANGED <<peers, prekeyed, toShare>>
      BY <1>1 DEF StartFails, StartNoBeacon, Start, StopFails, Stop, Timeout, nodeVars
    <2>2. \/ running' = running /\ uiRunning' = uiRunning
          \/ running' = TRUE /\ uiRunning' = uiRunning
          \/ running' = TRUE /\ uiRunning' = TRUE
          \/ running' = FALSE /\ uiRunning' = FALSE
      BY <1>1 DEF StartFails, StartNoBeacon, Start, StopFails, Stop, Timeout, nodeVars
    <2>3. running' \in BOOLEAN /\ uiRunning' \in BOOLEAN
      BY <2>2 DEF NodeTypes
    <2>4. uiRunning' => running'
      BY <2>2, Zenon DEF NodeTypes
    <2> QED
      BY <2>1, <2>3, <2>4 DEF NodeTypes
  <1>2. CASE \E m \in UserMsgs :
               SendRefused(m) \/ SendBroadcast(m) \/ \E p \in Peers : SendDirected(m, p)
    BY <1>2 DEF NodeTypes, SendRefused, SendBroadcast, SendDirected, nodeVars
  <1>3. CASE \E p \in Peers : IngestOther(p) \/ IngestBeacon(p) \/ \E i \in Ids : IngestAck(p, i)
    <2>1. PICK p \in Peers : IngestOther(p) \/ IngestBeacon(p) \/ \E i \in Ids : IngestAck(p, i)
      BY <1>3
    <2>2. Hear(p) /\ UNCHANGED <<running, uiRunning, toShare>> /\ phase' = "tick"
      BY <2>1 DEF IngestOther, IngestBeacon, IngestAck
    <2>3. prekeyed' \subseteq Peers
      BY <2>1 DEF NodeTypes, IngestOther, IngestBeacon, IngestAck
    <2>4. DOMAIN peers' \subseteq Peers /\ peers' \in [DOMAIN peers' -> 0 .. PEER_TTL]
      BY <2>2, StoreForwardAssumption DEF NodeTypes, Hear
    <2> QED
      BY <2>2, <2>3, <2>4 DEF NodeTypes
  <1>4. CASE TickStopped \/ TickRunning
    <2>1. DOMAIN peers' \subseteq Peers /\ peers' \in [DOMAIN peers' -> 0 .. PEER_TTL]
      BY <1>4 DEF NodeTypes, TickStopped, TickRunning, ExpirePeers, Restrict
    <2> QED
      BY <1>4, <2>1 DEF NodeTypes, TickStopped, TickRunning
  <1>5. CASE \E p \in Peers : Share(p)
    BY <1>5 DEF NodeTypes, Share
  <1>6. CASE Clock
    <2>1. DOMAIN peers' \subseteq Peers /\ peers' \in [DOMAIN peers' -> 0 .. PEER_TTL]
      BY <1>6, StoreForwardAssumption DEF NodeTypes, Clock
    <2> QED
      BY <1>6, <2>1 DEF NodeTypes, Clock
  <1>7. CASE UNCHANGED vars
    BY <1>7 DEF NodeTypes, vars
  <1> QED
    BY <1>1, <1>2, <1>3, <1>4, <1>5, <1>6, <1>7 DEF Next, Command, Tick

\* Whatever the worker does, the queue, the badge and the receipts stay right.
LEMMA OutboxStep ==
  ASSUME IInv, [Next]_vars
  PROVE  Queue(pending', before') /\ Step
  <1>1. CASE StartFails \/ StartNoBeacon \/ Start \/ StopFails \/ Stop \/ Timeout \/ TickStopped
    BY <1>1, IdleStep DEF StartFails, StartNoBeacon, Start, StopFails, Stop, Timeout, TickStopped
  <1>2. CASE \E m \in UserMsgs : SendRefused(m)
    BY <1>2, UnqueuedStep DEF SendRefused
  <1>3. CASE \E m \in UserMsgs : SendBroadcast(m)
    BY <1>3, UnqueuedStep DEF SendBroadcast
  <1>4. CASE \E m \in UserMsgs, p \in Peers : SendDirected(m, p)
    BY <1>4, SendDirectedStep
  <1>5. ASSUME NEW p \in Peers, IngestOther(p)
        PROVE  Queue(pending', before') /\ Step
    <2>1. /\ Queue(Touched(p), TouchedOrder(p)) /\ Keeps(Touched(p), pending)
          /\ \A i \in DOMAIN pending \ DOMAIN Touched(p) : pending[i].age = DEADLINE
      BY TouchQueue DEF IInv
    <2>2. pending' = Touched(p) /\ before' = TouchedOrder(p) /\ UNCHANGED <<badge, status, receipts>>
      BY <1>5 DEF IngestOther, uiVars
    <2> QED
      BY <2>1, <2>2, QuietStep DEF Keeps
  <1>6. ASSUME NEW p \in Peers, IngestBeacon(p)
        PROVE  Queue(pending', before') /\ Step
    <2>1. /\ Queue(Touched(p), TouchedOrder(p)) /\ Keeps(Touched(p), pending)
          /\ \A i \in DOMAIN pending \ DOMAIN Touched(p) : pending[i].age = DEADLINE
      BY TouchQueue DEF IInv
    <2>2. UNCHANGED <<badge, status, receipts>>
      BY <1>6 DEF IngestBeacon, uiVars
    <2>3. CASE ~running
      BY <1>6, <2>1, <2>2, <2>3, QuietStep DEF Keeps, IngestBeacon
    <2>4. CASE running
      <3>1. /\ Queue(pending', before')
            /\ (DOMAIN pending') \cap UserMsgs \subseteq DOMAIN Touched(p)
            /\ \A m \in UserMsgs \cap DOMAIN Touched(p) :
                 m \notin DOMAIN pending' => Cardinality(DOMAIN Touched(p)) = CAPACITY
        BY <1>6, <2>1, <2>4, DistributeQueue DEF IngestBeacon
      <3>2. DOMAIN Touched(p) \subseteq DOMAIN pending
        BY <2>1 DEF Keeps
      <3>3. Cardinality(DOMAIN Touched(p)) = CAPACITY => Cardinality(DOMAIN pending) = CAPACITY
        <4>1. /\ IsFiniteSet(DOMAIN pending) /\ Cardinality(DOMAIN pending) <= CAPACITY
              /\ DOMAIN Touched(p) \in SUBSET DOMAIN pending
          BY <3>2 DEF IInv, Queue
        <4>2. /\ IsFiniteSet(DOMAIN Touched(p))
              /\ Cardinality(DOMAIN Touched(p)) <= Cardinality(DOMAIN pending)
          BY <4>1, FS_Subset
        <4>3. Cardinality(DOMAIN pending) \in Nat /\ CAPACITY \in Nat
          BY <4>1, FS_CardinalityType, OutboxAssumption
        <4> QED
          BY <4>1, <4>2, <4>3
      <3>4. \A m \in UserMsgs \cap DOMAIN pending :
              m \notin DOMAIN pending' =>
                pending[m].age = DEADLINE \/ Cardinality(DOMAIN pending) = CAPACITY
        BY <2>1, <3>1, <3>3
      <3>5. (DOMAIN pending') \cap UserMsgs \subseteq DOMAIN pending
        BY <3>1, <3>2
      <3> QED
        BY <2>2, <3>1, <3>4, <3>5, QuietStep
    <2> QED
      BY <2>3, <2>4
  <1>7. CASE \E p \in Peers, i \in Ids : IngestAck(p, i)
    BY <1>7, IngestAckStep
  <1>8. CASE TickRunning
    BY <1>8, TickStep
  <1>9. ASSUME NEW p \in Peers, Share(p)
        PROVE  Queue(pending', before') /\ Step
    <2>1. Queue(pending, before) /\ Distribute(pending, before, p)
      BY <1>9 DEF IInv, Share
    <2>2. UNCHANGED <<badge, status, receipts>>
      BY <1>9 DEF Share, uiVars
    <2>3. /\ Queue(pending', before')
          /\ (DOMAIN pending') \cap UserMsgs \subseteq DOMAIN pending
          /\ \A m \in UserMsgs \cap DOMAIN pending :
               m \notin DOMAIN pending' => Cardinality(DOMAIN pending) = CAPACITY
      BY <2>1, DistributeQueue
    <2> QED
      BY <2>2, <2>3, QuietStep
  <1>10. CASE Clock
    <2>1. pending' = Elapse(pending) /\ UNCHANGED <<before, badge, status, receipts>>
      BY <1>10 DEF Clock, uiVars
    <2>2. DOMAIN pending' = DOMAIN pending /\ Queue(pending', before')
      BY <2>1, ElapseQueue DEF IInv
    <2> QED
      BY <2>1, <2>2, QuietStep
  <1>11. CASE UNCHANGED vars
    BY <1>11, IdleStep DEF vars, outbox, uiVars
  <1> QED
    BY <1>1, <1>2, <1>3, <1>4, <1>5, <1>6, <1>7, <1>8, <1>9, <1>10, <1>11
    DEF Next, Command, Tick

\* The invariant of the worker: types, the queue and its order list, what a
\* queued message may have been told, and the badge.
THEOREM WorkerInvariant == Spec => []IInv
  <1>1. Init => IInv
    BY InitInv
  <1>2. IInv /\ [Next]_vars => IInv'
    <2> SUFFICES ASSUME IInv, [Next]_vars PROVE IInv'
      OBVIOUS
    <2>1. NodeTypes'
      BY NodeStep DEF IInv
    <2>2. Queue(pending', before') /\ Step
      BY OutboxStep
    <2> QED
      BY <2>1, <2>2 DEF IInv, Step
  <1> QED
    BY <1>1, <1>2, PTL DEF Spec

\* The badge counts the messages that wait unless one vanished, and a node the
\* UI is told to be running does run, with the queue in bounds and in order.
THEOREM BadgeAndStateHonest == Spec => []UiHonest
  <1>1. IInv => UiHonest
    <2> SUFFICES ASSUME IInv PROVE UiHonest
      OBVIOUS
    <2>1. QueueConsistent
      BY DEF IInv, Queue, Linear, QueueConsistent
    <2>2. TypeOK
      BY <2>1 DEF IInv, NodeTypes, UiTypes, Queue, Owned, Linear, TypeOK
    <2> QED
      BY <2>2 DEF IInv, NodeTypes, Badge, UiHonest
  <1> QED
    BY <1>1, WorkerInvariant, PTL

\* No message leaves the queue without an ack before its deadline, unless the
\* queue is full.
THEOREM NothingGivenUpEarly == Spec => GivenUpOnlyWhenDue
  <1>1. IInv /\ [Next]_vars =>
          [\A m \in UserMsgs :
             /\ m \in DOMAIN pending
             /\ m \notin DOMAIN pending'
             /\ receipts'[m] # <<"delivered">>
             => \/ pending[m].age = DEADLINE
                \/ Cardinality(DOMAIN pending) = CAPACITY]_vars
    BY OutboxStep DEF Step, NotEarly
  <1> QED
    BY <1>1, WorkerInvariant, PTL DEF Spec, GivenUpOnlyWhenDue

\* What the user sees of the worker is a behaviour of Receipts: one outcome per
\* message, final once it is reached.
THEOREM WorkerImplementsReceipts == Spec => ImplementsReceipts
  <1>1. Init => R!Init
    BY DEF Init, R!Init, Outcome
  <1>2. IInv /\ [Next]_vars => [R!Next]_Shown
    BY OutboxStep DEF Step, Refines
  <1> QED
    BY <1>1, <1>2, WorkerInvariant, PTL DEF Spec, ImplementsReceipts, R!Spec, Shown

-----------------------------------------------------------------------------
(* Event delivery.                                                          *)

Calling == worker.pc \in {"called", "posting"}

Bound ==
  /\ Installing => module = "live" /\ hosts < MaxHosts
  /\ sink # NoHost => sink = hosts /\ sink \in handles
  /\ js \in {"forget", "register"} => sink = NoHost
  /\ module \notin {"live", "unregister"} => sink = NoHost
  /\ Calling => worker.host = sink /\ sink # NoHost
  /\ worker.pc \in {"emit", "called", "posting"} => worker.event \in Events

Ordered ==
  /\ \A i \in 1 .. Len(inbox) : inbox[i] \in Messages
  /\ \A i, j \in 1 .. Len(inbox) : i < j => inbox[i] < inbox[j]

EventIInv == EventTypeOK /\ Bound /\ Ordered /\ MessagesKept

-----------------------------------------------------------------------------
(* Steps that neither make, nor pull, nor show an event.                    *)

\* What was made, is kept and was shown stays what it was.
LEMMA KeptStays ==
  ASSUME Ordered, MessagesKept, UNCHANGED <<log, inbox, reached>>
  PROVE  Ordered' /\ MessagesKept'
  BY DEF Ordered, MessagesKept, Messages, Crowded

\* Steps of emit, with its read guard.
LEMMA EmitIInv == ASSUME EventIInv, Emit \/ StopWorker PROVE EventIInv'
  <1> USE DEF workerVars, bindVars, jsVars
  <1>1. CASE EmitUnheard
    <2>1. EventTypeOK' /\ Bound'
      BY <1>1 DEF EmitUnheard, Idle, EventIInv, EventTypeOK, Bound, Calling, Installing
    <2> QED
      BY <1>1, <2>1, KeptStays DEF EmitUnheard, EventIInv
  <1>2. CASE EmitTo
    <2>1. EventTypeOK' /\ Bound'
      BY <1>2 DEF EmitTo, EventIInv, EventTypeOK, Bound, Calling, Installing
    <2> QED
      BY <1>2, <2>1, KeptStays DEF EmitTo, EventIInv
  <1>3. CASE OnEventDropped
    <2>1. EventTypeOK' /\ Bound'
      BY <1>3 DEF OnEventDropped, Idle, EventIInv, EventTypeOK, Bound, Calling, Installing
    <2> QED
      BY <1>3, <2>1, KeptStays DEF OnEventDropped, EventIInv
  <1>4. CASE OnEvent
    <2>1. EventTypeOK' /\ Bound'
      BY <1>4 DEF OnEvent, EventIInv, EventTypeOK, Bound, Calling, Installing
    <2> QED
      BY <1>4, <2>1, KeptStays DEF OnEvent, EventIInv
  <1>5. CASE Post
    <2>1. worker.host \in Hosts /\ worker.event \in Events
      BY <1>5 DEF Post, EventIInv, EventTypeOK, Bound, Calling
    <2>2. queue' \in Seq(Hosts \X Events)
      BY <1>5, <2>1 DEF Post, EventIInv, EventTypeOK
    <2>3. EventTypeOK' /\ Bound'
      BY <1>5, <2>2 DEF Post, Idle, EventIInv, EventTypeOK, Bound, Calling, Installing
    <2> QED
      BY <1>5, <2>3, KeptStays DEF Post, EventIInv
  <1>6. CASE StopWorker
    <2>1. EventTypeOK' /\ Bound'
      BY <1>6 DEF StopWorker, Idle, EventIInv, EventTypeOK, Bound, Calling, Installing
    <2> QED
      BY <1>6, <2>1, KeptStays DEF StopWorker, EventIInv
  <1> QED
    BY <1>1, <1>2, <1>3, <1>4, <1>5, <1>6 DEF Emit

\* Steps that bind a host, or take it down.
LEMMA BindIInv == ASSUME EventIInv, Initialize \/ Install \/ Invalidate \/ Teardown PROVE EventIInv'
  <1> USE DEF workerVars, bindVars, jsVars, Unregister, Forget, Revoke, SinkWritable
  <1>0. MaxHosts \in Nat
    BY EventDeliveryAssumption
  <1>1. CASE Initialize
    <2>1. EventTypeOK' /\ Bound'
      BY <1>1 DEF Initialize, EventIInv, EventTypeOK, Bound, Calling, Installing, NoHost
    <2> QED
      BY <1>1, <2>1, KeptStays DEF Initialize, EventIInv
  <1>2. CASE JsUnregister
    <2>1. EventTypeOK' /\ Bound'
      BY <1>2 DEF JsUnregister, EventIInv, EventTypeOK, Bound, Calling, Installing
    <2> QED
      BY <1>2, <2>1, KeptStays DEF JsUnregister, EventIInv
  <1>3. CASE JsForget
    <2>1. EventTypeOK' /\ Bound'
      BY <1>3 DEF JsForget, EventIInv, EventTypeOK, Bound, Calling, Installing
    <2> QED
      BY <1>3, <2>1, KeptStays DEF JsForget, EventIInv
  <1>4. CASE Register
    <2>1. EventTypeOK' /\ Bound'
      BY <1>0, <1>4 DEF Register, EventIInv, EventTypeOK, Bound, Calling, Installing, Hosts, NoHost
    <2> QED
      BY <1>4, <2>1, KeptStays DEF Register, EventIInv
  <1>5. CASE Invalidate
    <2>1. EventTypeOK' /\ Bound'
      BY <1>5 DEF Invalidate, EventIInv, EventTypeOK, Bound, Calling, Installing, NoHost
    <2> QED
      BY <1>5, <2>1, KeptStays DEF Invalidate, EventIInv
  <1>6. CASE ModuleUnregister
    <2>1. EventTypeOK' /\ Bound'
      BY <1>6 DEF ModuleUnregister, EventIInv, EventTypeOK, Bound, Calling, Installing
    <2> QED
      BY <1>6, <2>1, KeptStays DEF ModuleUnregister, EventIInv
  <1>7. CASE ModuleForget
    <2>1. EventTypeOK' /\ Bound'
      BY <1>7 DEF ModuleForget, EventIInv, EventTypeOK, Bound, Calling, Installing
    <2> QED
      BY <1>7, <2>1, KeptStays DEF ModuleForget, EventIInv
  <1>8. CASE Free \/ Join
    <2>1. EventTypeOK' /\ Bound'
      BY <1>8 DEF Free, Join, EventIInv, EventTypeOK, Bound, Calling, Installing
    <2> QED
      BY <1>8, <2>1, KeptStays DEF Free, Join, EventIInv
  <1> QED
    BY <1>1, <1>2, <1>3, <1>4, <1>5, <1>6, <1>7, <1>8 DEF Install, Teardown

\* Steps of a drain that pull nothing, and a posted event that is stale.
LEMMA IdleIInv == ASSUME EventIInv, Drain \/ Receive \/ TakeNothing \/ RunStale PROVE EventIInv'
  <1> USE DEF workerVars, bindVars, jsVars
  <1>1. CASE Drain \/ Receive \/ TakeNothing
    <2>1. EventTypeOK' /\ Bound'
      BY <1>1 DEF Drain, Receive, TakeNothing, EventIInv, EventTypeOK, Bound, Calling, Installing
    <2> QED
      BY <1>1, <2>1, KeptStays DEF Drain, Receive, TakeNothing, EventIInv
  <1>2. CASE RunStale
    <2>1. queue' \in Seq(Hosts \X Events)
      BY <1>2 DEF RunStale, EventIInv, EventTypeOK
    <2>2. EventTypeOK' /\ Bound'
      BY <1>2, <2>1 DEF RunStale, EventIInv, EventTypeOK, Bound, Calling, Installing
    <2> QED
      BY <1>2, <2>2, KeptStays DEF RunStale, EventIInv
  <1> QED
    BY <1>1, <1>2

-----------------------------------------------------------------------------
(* Steps that make an event, pull one, or show one.                         *)

\* Numbers in their order, all past n, are as many as there are.
LEMMA Counted ==
  ASSUME NEW box \in Seq(Events), NEW S, IsFiniteSet(S), NEW n,
         \A i \in 1 .. Len(box) : box[i] \in S,
         \A i, j \in 1 .. Len(box) : i < j => box[i] < box[j]
  PROVE  Cardinality(S) >= Len(box)
  <1> DEFINE f == [i \in 1 .. Len(box) |-> box[i]]
  <1>1. f \in Injection(1 .. Len(box), S)
    <2>1. f \in [1 .. Len(box) -> S]
      OBVIOUS
    <2>2. ASSUME NEW i \in 1 .. Len(box), NEW j \in 1 .. Len(box), f[i] = f[j] PROVE i = j
      <3>1. box[i] = box[j]
        BY <2>2
      <3>2. box[i] \in Nat /\ box[j] \in Nat
        <4>1. \A k \in 1 .. Len(box) : box[k] \in Events
          OBVIOUS
        <4>2. Events \subseteq Nat
          BY EventDeliveryAssumption DEF Events
        <4> QED
          BY <4>1, <4>2
      <3>3. ~(i < j) /\ ~(j < i)
        BY <3>1, <3>2
      <3> QED
        BY <3>3
    <2> QED
      BY <2>1, <2>2 DEF Injection, IsInjective
  <1>2. IsFiniteSet(1 .. Len(box)) /\ Cardinality(1 .. Len(box)) = Len(box)
    <2>1. Len(box) \in Nat /\ (1 > Len(box) => Len(box) = 0)
      OBVIOUS
    <2> QED
      BY <2>1, FS_Interval
  <1>3. Cardinality(1 .. Len(box)) <= Cardinality(S)
    BY <1>1, FS_Injection
  <1>4. Cardinality(S) \in Nat
    BY FS_CardinalityType
  <1> QED
    BY <1>2, <1>3, <1>4

\* Messages that crowded one out are still there when more are made.
LEMMA CrowdedStays ==
  ASSUME EventTypeOK', INBOX_CAPACITY \in Nat, Messages \subseteq Messages', NEW n, Crowded(n)
  PROVE  Crowded(n)'
  <1> DEFINE old == {k \in Messages : k > n}
             new == {k \in Messages' : k > n}
  <1>1. IsFiniteSet(new)
    <2>1. IsFiniteSet(1 .. Len(log'))
      BY FS_Interval DEF EventTypeOK
    <2>2. new \subseteq 1 .. Len(log')
      BY DEF Messages, EventTypeOK
    <2> QED
      BY <2>1, <2>2, FS_Subset
  <1>2. old \in SUBSET new
    OBVIOUS
  <1> HIDE DEF old, new
  <1>3. Cardinality(old) <= Cardinality(new)
    BY <1>1, <1>2, FS_Subset
  <1>4. Cardinality(old) \in Nat /\ Cardinality(new) \in Nat
    BY <1>1, <1>2, FS_Subset, FS_CardinalityType
  <1>5. Cardinality(old) >= INBOX_CAPACITY
    BY DEF Crowded, old
  <1>6. Cardinality(new) >= INBOX_CAPACITY
    BY <1>3, <1>4, <1>5
  <1> QED
    BY <1>6 DEF Crowded, new

\* A notice is made: the inbox is left alone.
LEMMA MakeNoticeIInv == ASSUME EventIInv, Make("notice") PROVE EventIInv'
  <1> USE DEF workerVars, bindVars, jsVars
  <1>1. log \in Seq(Kinds) /\ Len(log) < MaxEvents /\ log' = Append(log, "notice")
    BY DEF Make, EventIInv, EventTypeOK
  <1>2. /\ log' \in Seq(Kinds) /\ Len(log') = Len(log) + 1
        /\ \A i \in 1 .. Len(log) : log'[i] = log[i]
        /\ log'[Len(log) + 1] = "notice"
    BY <1>1 DEF Kinds
  <1>3. Len(log') \in Events /\ Len(log') <= MaxEvents
    BY <1>1, <1>2, EventDeliveryAssumption DEF Events
  <1>4. EventTypeOK'
    BY <1>2, <1>3 DEF Make, EventIInv, EventTypeOK
  <1>5. Bound'
    BY <1>3 DEF Make, EventIInv, Bound, Calling, Installing
  <1>6. Messages' = Messages
    BY <1>1, <1>2 DEF Messages
  <1>7. Ordered' /\ MessagesKept'
    BY <1>6 DEF Make, EventIInv, Ordered, MessagesKept, Crowded
  <1> QED
    BY <1>4, <1>5, <1>7 DEF EventIInv

\* A message is made: it goes to the end of the inbox, and may push out the first.
LEMMA MakeMessageIInv == ASSUME EventIInv, Make("message") PROVE EventIInv'
  <1> USE DEF workerVars, bindVars, jsVars
  <1> DEFINE n == Len(log) + 1
             box == IF Len(inbox) >= INBOX_CAPACITY THEN Tail(inbox) ELSE inbox
  <1>1. log \in Seq(Kinds) /\ Len(log) < MaxEvents /\ log' = Append(log, "message")
    BY DEF Make, EventIInv, EventTypeOK
  <1>2. /\ log' \in Seq(Kinds) /\ Len(log') = n
        /\ \A i \in 1 .. Len(log) : log'[i] = log[i]
        /\ log'[n] = "message"
    BY <1>1 DEF Kinds
  <1>3. n \in Events /\ n <= MaxEvents
    BY <1>1, EventDeliveryAssumption DEF Events
  <1>4. Messages' = Messages \cup {n} /\ Messages \subseteq 1 .. Len(log)
    BY <1>1, <1>2 DEF Messages
  <1>5. inbox \in Seq(Events) /\ Len(inbox) <= INBOX_CAPACITY /\ INBOX_CAPACITY \in Nat \ {0}
    BY EventDeliveryAssumption DEF EventIInv, EventTypeOK
  <1>6. inbox' = Append(box, n)
    BY <1>2 DEF Make, PushInbox
  <1>7. /\ box \in Seq(Events) /\ Len(box) < INBOX_CAPACITY
        /\ \A i \in 1 .. Len(box) : box[i] \in Messages
        /\ \A i, j \in 1 .. Len(box) : i < j => box[i] < box[j]
    <2>1. CASE Len(inbox) >= INBOX_CAPACITY
      <3>1. /\ box = Tail(inbox) /\ Len(box) = Len(inbox) - 1 /\ box \in Seq(Events)
            /\ \A i \in 1 .. Len(box) : box[i] = inbox[i + 1]
        BY <1>5, <2>1
      <3> HIDE DEF box
      <3> QED
        BY <1>5, <2>1, <3>1 DEF EventIInv, Ordered
    <2>2. CASE ~(Len(inbox) >= INBOX_CAPACITY)
      BY <1>5, <2>2 DEF EventIInv, Ordered
    <2> QED
      BY <2>1, <2>2
  <1>8. \A m \in ToSet(inbox) : m \in ToSet(box) \/ (Len(inbox) >= INBOX_CAPACITY /\ m = Head(inbox))
    <2>1. CASE Len(inbox) >= INBOX_CAPACITY
      <3>1. /\ box = Tail(inbox) /\ Len(box) = Len(inbox) - 1
            /\ \A i \in 1 .. Len(box) : box[i] = inbox[i + 1]
            /\ Head(inbox) = inbox[1]
        BY <1>5, <2>1
      <3> HIDE DEF box
      <3>2. ASSUME NEW i \in 1 .. Len(inbox), i # 1
            PROVE  inbox[i] \in ToSet(box)
        <4>1. i - 1 \in 1 .. Len(box) /\ inbox[i] = box[i - 1]
          BY <1>5, <3>1, <3>2
        <4> QED
          BY <1>7, <4>1 DEF ToSet
      <3>3. ASSUME NEW m \in ToSet(inbox) PROVE m \in ToSet(box) \/ m = Head(inbox)
        <4>1. PICK i \in 1 .. Len(inbox) : m = inbox[i]
          BY <1>5, <3>3 DEF ToSet
        <4> QED
          BY <3>1, <3>2, <4>1
      <3> QED
        BY <2>1, <3>3
    <2>2. CASE ~(Len(inbox) >= INBOX_CAPACITY)
      BY <2>2
    <2> QED
      BY <2>1, <2>2
  <1> HIDE DEF box
  <1>9. /\ inbox' \in Seq(Events) /\ Len(inbox') = Len(box) + 1 /\ inbox'[Len(box) + 1] = n
        /\ \A i \in 1 .. Len(box) : inbox'[i] = box[i]
    BY <1>3, <1>6, <1>7
  <1>10. EventTypeOK'
    BY <1>2, <1>3, <1>5, <1>7, <1>9 DEF Make, EventIInv, EventTypeOK
  <1>11. Bound'
    BY <1>2, <1>3 DEF Make, EventIInv, Bound, Calling, Installing
  <1>12. Ordered'
    <2>1. \A i \in 1 .. Len(inbox') : inbox'[i] \in Messages'
      BY <1>4, <1>7, <1>9
    <2>2. ASSUME NEW i \in 1 .. Len(inbox'), NEW j \in 1 .. Len(inbox'), i < j
          PROVE  inbox'[i] < inbox'[j]
      <3>1. i \in 1 .. Len(box) /\ inbox'[i] = box[i] /\ box[i] \in 1 .. Len(log)
        <4>1. i \in 1 .. Len(box)
          BY <1>7, <1>9, <2>2
        <4> QED
          BY <1>4, <1>7, <1>9, <4>1
      <3>2. CASE j = Len(box) + 1
        BY <1>1, <1>9, <3>1, <3>2
      <3>3. CASE j # Len(box) + 1
        BY <1>7, <1>9, <2>2, <3>1, <3>3
      <3> QED
        BY <3>2, <3>3
    <2> QED
      BY <2>1, <2>2 DEF Ordered
  <1>13. MessagesKept'
    <2> SUFFICES ASSUME NEW m \in Messages'
                 PROVE  m \in ToSet(reached)' \/ m \in ToSet(inbox)' \/ Crowded(m)'
      BY DEF MessagesKept
    <2>1. ToSet(box) \subseteq ToSet(inbox)' /\ n \in ToSet(inbox)'
      BY <1>7, <1>9 DEF ToSet
    <2>2. reached' = reached
      BY DEF Make
    <2>3. CASE m = n
      BY <2>1, <2>3
    <2>4. CASE m \in Messages /\ m \in ToSet(reached)
      BY <2>2, <2>4
    <2>5. CASE m \in Messages /\ Crowded(m)
      BY <1>4, <1>5, <1>10, <2>5, CrowdedStays
    <2>6. CASE m \in ToSet(box)
      BY <2>1, <2>6
    <2>7. CASE Len(inbox) >= INBOX_CAPACITY /\ m = Head(inbox)
      <3> DEFINE later == {k \in Messages' : k > m}
      <3>1. Len(inbox') = INBOX_CAPACITY
        <4>1. Len(box) = Len(inbox) - 1
          BY <1>5, <2>7 DEF box
        <4> QED
          BY <1>5, <1>9, <2>7, <4>1
      <3>2. \A i \in 1 .. Len(inbox') : inbox'[i] \in later
        <4>1. \A i \in 1 .. Len(box) : box[i] = inbox[i + 1] /\ i + 1 \in 1 .. Len(inbox)
          BY <1>5, <2>7 DEF box
        <4>2. m = inbox[1] /\ 1 \in 1 .. Len(inbox) /\ m \in 1 .. Len(log)
          BY <1>4, <1>5, <2>7 DEF EventIInv, Ordered
        <4>3. \A i \in 1 .. Len(box) : box[i] > m
          BY <1>5, <1>7, <4>1, <4>2 DEF EventIInv, Ordered, Events
        <4> QED
          BY <1>1, <1>4, <1>7, <1>9, <4>2, <4>3
      <3>3. IsFiniteSet(later)
        <4>1. Len(log) \in Nat
          BY <1>1
        <4>2. later \subseteq 1 .. n
          <5>1. later \subseteq Messages'
            OBVIOUS
          <5>2. 1 .. Len(log) \subseteq 1 .. n /\ n \in 1 .. n
            BY <4>1
          <5> QED
            BY <1>4, <5>1, <5>2
        <4>3. IsFiniteSet(1 .. n)
          BY <4>1, FS_Interval
        <4> HIDE DEF later
        <4> QED
          BY <4>2, <4>3, FS_Subset
      <3> HIDE DEF later
      <3>4. Cardinality(later) >= Len(inbox')
        BY <1>9, <1>12, <3>2, <3>3, Counted DEF Ordered
      <3>5. Cardinality(later) >= INBOX_CAPACITY
        BY <3>1, <3>4
      <3> QED
        BY <3>5 DEF Crowded, later
    <2> QED
      BY <1>4, <1>8, <2>3, <2>4, <2>5, <2>6, <2>7 DEF EventIInv, MessagesKept
  <1> QED
    BY <1>10, <1>11, <1>12, <1>13 DEF EventIInv

\* An event is pulled from the inbox.
LEMMA TakeIInv == ASSUME EventIInv, Take PROVE EventIInv'
  <1> USE DEF workerVars, bindVars, jsVars
  <1>1. /\ inbox \in Seq(Events) /\ inbox # << >> /\ inbox' = Tail(inbox)
        /\ reached \in Seq(Events) /\ reached' = Append(reached, Head(inbox))
        /\ UNCHANGED <<log, worker, queue, dropped, module, sink, hosts, valid, handles>>
    BY DEF Take, EventIInv, EventTypeOK
  <1>2. /\ inbox' \in Seq(Events) /\ Len(inbox') = Len(inbox) - 1 /\ Len(inbox) \in Nat
        /\ \A i \in 1 .. Len(inbox') : inbox'[i] = inbox[i + 1]
        /\ Head(inbox) = inbox[1] /\ inbox[1] \in Events
    BY <1>1
  <1>3. /\ reached' \in Seq(Events) /\ Len(reached') = Len(reached) + 1 /\ Len(reached) \in Nat
        /\ \A i \in 1 .. Len(reached) : reached'[i] = reached[i]
        /\ reached'[Len(reached) + 1] = inbox[1]
    BY <1>1, <1>2
  <1>4. EventTypeOK'
    <2>1. Len(inbox') <= INBOX_CAPACITY
      BY <1>2, EventDeliveryAssumption DEF EventIInv, EventTypeOK
    <2>2. cut' \in BOOLEAN /\ js' \in {"drain", "free"}
      BY DEF Take, EventIInv, EventTypeOK
    <2> QED
      BY <1>1, <1>2, <1>3, <2>1, <2>2 DEF EventIInv, EventTypeOK
  <1>5. Bound'
    BY <1>1 DEF Take, EventIInv, Bound, Calling, Installing
  <1>6. Messages' = Messages
    BY <1>1 DEF Messages
  <1>7. Ordered'
    BY <1>2, <1>6 DEF EventIInv, Ordered
  <1>8. ASSUME NEW m \in ToSet(inbox) PROVE m \in ToSet(inbox)' \/ m \in ToSet(reached)'
    <2>1. PICK i \in 1 .. Len(inbox) : m = inbox[i]
      BY <1>1, <1>8 DEF ToSet
    <2>2. CASE i = 1
      <3>1. Len(reached) + 1 \in DOMAIN reached'
        BY <1>3
      <3> QED
        BY <1>3, <2>1, <2>2, <3>1 DEF ToSet
    <2>3. CASE i # 1
      <3>1. i - 1 \in DOMAIN inbox' /\ inbox'[i - 1] = inbox[i]
        BY <1>2, <2>3
      <3> QED
        BY <2>1, <3>1 DEF ToSet
    <2> QED
      BY <2>2, <2>3
  <1>9. ToSet(reached) \subseteq ToSet(reached)'
    BY <1>1, <1>3 DEF ToSet
  <1>10. MessagesKept'
    BY <1>6, <1>8, <1>9 DEF EventIInv, MessagesKept, Crowded
  <1> QED
    BY <1>4, <1>5, <1>7, <1>10 DEF EventIInv

\* A posted event runs.
LEMMA RunPostedIInv == ASSUME EventIInv, RunPosted PROVE EventIInv'
  <1> USE DEF workerVars, bindVars, jsVars
  <1>1. /\ queue \in Seq(Hosts \X Events) /\ queue # << >> /\ queue' = Tail(queue)
        /\ reached \in Seq(Events) /\ reached' = Append(reached, Head(queue)[2])
        /\ UNCHANGED <<log, inbox, worker, js, cut, dropped, module, sink, hosts, valid, handles>>
    BY DEF RunPosted, EventIInv, EventTypeOK
  <1>2. queue' \in Seq(Hosts \X Events) /\ Head(queue)[2] \in Events
    BY <1>1
  <1>3. /\ reached' \in Seq(Events) /\ Len(reached') = Len(reached) + 1 /\ Len(reached) \in Nat
        /\ \A i \in 1 .. Len(reached) : reached'[i] = reached[i]
    BY <1>1, <1>2
  <1>4. EventTypeOK'
    BY <1>1, <1>2, <1>3 DEF EventIInv, EventTypeOK
  <1>5. Bound'
    BY <1>1 DEF EventIInv, Bound, Calling, Installing
  <1>6. ASSUME NEW n \in ToSet(reached) PROVE n \in ToSet(reached)'
    <2>1. PICK i \in 1 .. Len(reached) : reached[i] = n
      BY <1>1 DEF ToSet
    <2>2. i \in 1 .. Len(reached') /\ reached'[i] = n
      BY <1>3, <2>1
    <2> QED
      BY <1>3, <2>2 DEF ToSet
  <1>7. Ordered'
    BY <1>1 DEF EventIInv, Ordered, Messages
  <1>8. MessagesKept'
    BY <1>1, <1>6 DEF EventIInv, MessagesKept, Messages, Crowded
  <1> QED
    BY <1>4, <1>5, <1>7, <1>8 DEF EventIInv

-----------------------------------------------------------------------------
(* Theorems.                                                                *)

\* Nothing is made, bound or posted.
LEMMA EventInitIInv == EventInit => EventIInv
  <1> SUFFICES ASSUME EventInit PROVE EventIInv
    OBVIOUS
  <1>1. EventTypeOK
    <2>1. << >> \in Seq(Kinds) /\ << >> \in Seq(Events) /\ << >> \in Seq(Hosts \X Events)
      OBVIOUS
    <2>2. /\ Len(log) = 0 /\ Len(inbox) = 0
          /\ 0 <= MaxEvents /\ 0 <= INBOX_CAPACITY /\ 0 \in 0 .. MaxHosts
      BY EventDeliveryAssumption DEF EventInit
    <2>3. worker \in [pc : {"idle", "emit", "called", "posting", "stopped"},
                      event : Events \cup {0}, host : Hosts \cup {NoHost}]
      BY DEF EventInit, Idle
    <2> QED
      BY <2>1, <2>2, <2>3 DEF EventInit, EventTypeOK
  <1>2. Bound /\ Ordered /\ MessagesKept
    BY DEF EventInit, Bound, Calling, Installing, Idle, Ordered, MessagesKept, Messages
  <1> QED
    BY <1>1, <1>2 DEF EventIInv

\* Every step keeps the invariant.
LEMMA EventNextIInv == ASSUME EventIInv, [EventNext]_eventVars PROVE EventIInv'
  <1>1. CASE UNCHANGED eventVars
    BY <1>1 DEF eventVars, workerVars, bindVars, jsVars, EventIInv, EventTypeOK, Bound, Calling, Installing,
                Ordered, MessagesKept, Messages, Crowded
  <1>2. CASE \E kind \in Kinds : Make(kind)
    BY <1>2, MakeNoticeIInv, MakeMessageIInv DEF Kinds
  <1> QED
    BY <1>1, <1>2, EmitIInv, BindIInv, IdleIInv, TakeIInv, RunPostedIInv DEF EventNext

\* The invariant holds however the three threads interleave.
THEOREM DeliveryInvariant == EventSpec => []EventIInv
  BY EventInitIInv, EventNextIInv, PTL DEF EventSpec

\* A callback in flight keeps its host bound: teardown waits for it.
THEOREM NoCallbackAfterTeardown == EventSpec => []NoLateCallback
  <1>1. EventIInv => NoLateCallback
    BY DEF EventIInv, Bound, Calling, NoLateCallback
  <1> QED
    BY <1>1, DeliveryInvariant, PTL

\* No reload and no race of push and pull loses a message.
THEOREM NoMessageLost == EventSpec => []MessagesKept
  <1>1. EventIInv => MessagesKept
    BY DEF EventIInv
  <1> QED
    BY <1>1, DeliveryInvariant, PTL
-----------------------------------------------------------------------------
(* The order in which messages are first seen.  A second invariant, on top  *)
(* of the first: what is posted is posted in order, only to the host that   *)
(* is bound; and once a drain has come to its end, what is in the inbox     *)
(* is on its way to that host, too.                                         *)

InFlight == worker.pc \in {"emit", "called", "posting"}

\* What reached JavaScript was made, and the queue is in the order of making, with
\* the event the worker still emits after all of it.
Numbered ==
  /\ InFlight => worker.event = Len(log)
  /\ \A i \in 1 .. Len(reached) : reached[i] <= Len(log)
  /\ \A i \in 1 .. Len(queue) : /\ queue[i][2] <= Len(log)
                                /\ InFlight => queue[i][2] < Len(log)
  /\ \A i, j \in 1 .. Len(queue) : i < j => queue[i][2] < queue[j][2]

\* Only the last host is valid, and only while it is registered.
Trusted ==
  /\ valid \subseteq {hosts} \cap handles
  /\ hosts \in valid => sink = hosts /\ ~Installing /\ module = "live"

OnItsWay(m) ==
  \/ InFlight /\ worker.event = m
  \/ \E i \in 1 .. Len(reached) : reached[i] = m
  \/ \E i \in 1 .. Len(queue) : queue[i] = <<hosts, m>>

Drained ==
  ~cut /\ js = "free" /\ hosts \in valid => \A k \in 1 .. Len(inbox) : OnItsWay(inbox[k])

\* n was never seen before m.
After(m, n) == \A i \in 1 .. Len(reached) : reached[i] = n => \E j \in 1 .. i - 1 : reached[j] = m

Sighted == ~cut => \A m, n \in Messages : m < n => Crowded(m) \/ After(m, n)

\* The queue without its head.
LEMMA QueueTail ==
  ASSUME EventTypeOK, queue # << >>, queue' = Tail(queue)
  PROVE  /\ Len(queue) \in Nat \ {0} /\ Len(queue') = Len(queue) - 1
         /\ \A i \in 1 .. Len(queue') : queue'[i] = queue[i + 1] /\ i + 1 \in 1 .. Len(queue)
         /\ Head(queue) = queue[1] /\ 1 \in 1 .. Len(queue)
  <1>1. queue \in Seq(Hosts \X Events)
    BY DEF EventTypeOK
  <1> QED
    BY <1>1

\* What is shown goes to the end of what was seen.
LEMMA ReachedGrows ==
  ASSUME EventTypeOK, NEW n, reached' = Append(reached, n)
  PROVE  /\ Len(reached) \in Nat /\ Len(reached') = Len(reached) + 1
         /\ \A i \in 1 .. Len(reached) : reached'[i] = reached[i]
         /\ reached'[Len(reached) + 1] = n
  <1>1. reached \in Seq(Events)
    BY DEF EventTypeOK
  <1> QED
    BY <1>1

\* The entries of the queue are pairs of numbers.
LEMMA QueueEntry ==
  ASSUME EventTypeOK, NEW i \in 1 .. Len(queue)
  PROVE  /\ queue[i] = <<queue[i][1], queue[i][2]>>
         /\ queue[i][1] \in Hosts /\ queue[i][2] \in Events /\ queue[i][2] \in Nat
  <1>1. queue \in Seq(Hosts \X Events)
    BY DEF EventTypeOK
  <1>2. queue[i] \in Hosts \X Events
    BY <1>1
  <1>3. PICK h \in Hosts, e \in Events : queue[i] = <<h, e>>
    BY <1>2
  <1>4. e \in Nat
    BY EventDeliveryAssumption DEF Events
  <1> QED
    BY <1>3, <1>4

LEMMA NumberedStays ==
  ASSUME EventIInv, Numbered, [EventNext]_eventVars
  PROVE  Numbered'
  <1> USE DEF workerVars, bindVars, jsVars
  <1>0. EventTypeOK /\ Bound /\ Len(log) \in Nat
    BY DEF EventIInv, EventTypeOK
  <1>1. ASSUME NEW kind \in Kinds, Make(kind) PROVE Numbered'
    <2>1. Len(log') = Len(log) + 1
      BY <1>0, <1>1 DEF Make, EventTypeOK
    <2>2. InFlight' /\ worker'.event = Len(log')
      BY <1>1 DEF Make, InFlight
    <2>3. queue' = queue /\ reached' = reached /\ reached \in Seq(Events)
      BY <1>0, <1>1 DEF Make, EventTypeOK
    <2>4. \A i \in 1 .. Len(queue) : queue[i][2] < Len(log')
      BY <1>0, <2>1, QueueEntry DEF Numbered
    <2>5. \A i \in 1 .. Len(reached) : reached[i] <= Len(log')
      <3>1. \A i \in 1 .. Len(reached) : reached[i] \in Nat
        BY <2>3, EventDeliveryAssumption DEF Events
      <3> QED
        BY <1>0, <2>1, <3>1 DEF Numbered
    <2>6. \A i \in 1 .. Len(queue) : queue[i][2] <= Len(log')
      BY <1>0, <2>1, <2>4, QueueEntry
    <2> QED
      BY <2>2, <2>3, <2>4, <2>5, <2>6 DEF Numbered
  <1>2. ASSUME EmitUnheard \/ EmitTo \/ OnEventDropped \/ OnEvent \/ StopWorker PROVE Numbered'
    <2>1. queue' = queue /\ reached' = reached /\ log' = log
      BY <1>2 DEF EmitUnheard, EmitTo, OnEventDropped, OnEvent, StopWorker
    <2>2. CASE EmitTo \/ OnEvent
      <3>1. InFlight /\ worker'.event = worker.event
        BY <1>0, <2>2 DEF EmitTo, OnEvent, InFlight, EventTypeOK
      <3> QED
        BY <2>1, <3>1 DEF Numbered
    <2>3. CASE EmitUnheard \/ OnEventDropped \/ StopWorker
      <3>1. ~InFlight'
        BY <2>3 DEF EmitUnheard, OnEventDropped, StopWorker, InFlight, Idle
      <3> QED
        BY <2>1, <3>1 DEF Numbered
    <2> QED
      BY <1>2, <2>2, <2>3
  <1>3. ASSUME Post PROVE Numbered'
    <2>1. /\ queue' = Append(queue, <<worker.host, worker.event>>) /\ reached' = reached
          /\ log' = log /\ InFlight /\ ~InFlight' /\ worker.event = Len(log)
      BY <1>3 DEF Post, InFlight, Idle, Numbered
    <2>2. queue \in Seq(Hosts \X Events) /\ <<worker.host, worker.event>> \in Hosts \X Events
      BY <1>0, <1>3 DEF EventTypeOK, Bound, Calling, Post
    <2>3. /\ Len(queue) \in Nat /\ Len(queue') = Len(queue) + 1
          /\ \A i \in 1 .. Len(queue) : queue'[i] = queue[i]
          /\ queue'[Len(queue) + 1] = <<worker.host, worker.event>>
      BY <2>1, <2>2
    <2>4. \A i \in 1 .. Len(queue') : i \in 1 .. Len(queue) \/ i = Len(queue) + 1
      BY <2>3
    <2>5. \A i \in 1 .. Len(queue) : queue'[i][2] < Len(log)
      BY <2>1, <2>3 DEF Numbered
    <2>6. queue'[Len(queue) + 1][2] = Len(log)
      BY <2>1, <2>3
    <2>7. \A i \in 1 .. Len(queue') : queue'[i][2] <= Len(log)
      BY <1>0, <2>3, <2>4, <2>6 DEF Numbered
    <2>8. ASSUME NEW i \in 1 .. Len(queue'), NEW j \in 1 .. Len(queue'), i < j
          PROVE  queue'[i][2] < queue'[j][2]
      <3>1. i \in 1 .. Len(queue)
        BY <2>3, <2>8
      <3>2. CASE j = Len(queue) + 1
        BY <2>5, <2>6, <3>1, <3>2
      <3>3. CASE j # Len(queue) + 1
        BY <2>3, <2>4, <2>8, <3>1, <3>3 DEF Numbered
      <3> QED
        BY <3>2, <3>3
    <2> QED
      BY <2>1, <2>7, <2>8 DEF Numbered
  <1>4. ASSUME Take PROVE Numbered'
    <2>1. inbox # << >> /\ reached' = Append(reached, Head(inbox)) /\ UNCHANGED <<log, worker, queue>>
      BY <1>4 DEF Take
    <2>2. Head(inbox) = inbox[1] /\ 1 \in 1 .. Len(inbox)
      BY <1>0, <2>1 DEF EventTypeOK
    <2>3. Head(inbox) <= Len(log)
      BY <1>0, <2>2 DEF EventIInv, Ordered, Messages, EventTypeOK
    <2>4. \A i \in 1 .. Len(reached') : reached'[i] <= Len(log)
      BY <1>0, <2>1, <2>3, ReachedGrows DEF Numbered
    <2> QED
      BY <2>1, <2>4 DEF Numbered, InFlight
  <1>5. ASSUME RunPosted \/ RunStale PROVE Numbered'
    <2>1. queue # << >> /\ queue' = Tail(queue) /\ UNCHANGED <<log, worker>>
      BY <1>5 DEF RunPosted, RunStale
    <2>2. \A i \in 1 .. Len(reached') : reached'[i] <= Len(log)
      <3>1. CASE reached' = reached
        BY <3>1 DEF Numbered
      <3>2. CASE reached' = Append(reached, Head(queue)[2])
        <4>1. Head(queue)[2] <= Len(log)
          BY <1>0, <2>1, QueueTail DEF Numbered
        <4> QED
          BY <1>0, <3>2, <4>1, ReachedGrows DEF Numbered
      <3> QED
        BY <1>5, <3>1, <3>2 DEF RunPosted, RunStale
    <2>3. \A i \in 1 .. Len(queue') : queue'[i] = queue[i + 1] /\ i + 1 \in 1 .. Len(queue)
      BY <1>0, <2>1, QueueTail
    <2>4. \A i, j \in 1 .. Len(queue') : i < j => queue'[i][2] < queue'[j][2]
      BY <2>3 DEF Numbered
    <2> QED
      BY <2>1, <2>2, <2>3, <2>4 DEF Numbered, InFlight
  <1>6. ASSUME \/ Initialize \/ Install \/ Drain \/ Receive \/ TakeNothing \/ Invalidate \/ Teardown
               \/ UNCHANGED eventVars
        PROVE  Numbered'
    <2>1. UNCHANGED <<log, worker, queue, reached>>
      BY <1>6 DEF Initialize, Install, JsUnregister, JsForget, Register, Drain, Receive, TakeNothing,
                  Invalidate, Teardown, ModuleUnregister, ModuleForget, Free, Join, eventVars
    <2> QED
      BY <2>1 DEF Numbered, InFlight
  <1> QED
    BY <1>1, <1>2, <1>3, <1>4, <1>5, <1>6 DEF EventNext, Emit

LEMMA TrustedStays ==
  ASSUME EventIInv, Trusted, [EventNext]_eventVars
  PROVE  Trusted'
  <1> USE DEF workerVars, bindVars, jsVars, Unregister, Forget, Revoke
  <1>0. EventTypeOK /\ Bound
    BY DEF EventIInv
  <1>1. ASSUME Initialize PROVE Trusted'
    <2>1. hosts \notin Hosts => hosts = 0
      BY <1>0 DEF EventTypeOK, Hosts
    <2>2. 0 \notin Hosts
      BY DEF Hosts
    <2> QED
      BY <1>0, <1>1, <2>1, <2>2 DEF Initialize, Trusted, Installing, EventTypeOK
  <1>2. ASSUME JsUnregister \/ JsForget PROVE Trusted'
    BY <1>2 DEF JsUnregister, JsForget, Trusted, Installing
  <1>3. ASSUME Register PROVE Trusted'
    BY <1>0, <1>3 DEF Register, Trusted, Installing, Bound
  <1>4. ASSUME Drain \/ Receive \/ TakeNothing \/ Take PROVE Trusted'
    BY <1>4 DEF Drain, Receive, TakeNothing, Take, Trusted, Installing
  <1>5. ASSUME Invalidate PROVE Trusted'
    <2>1. 0 \notin Hosts
      BY DEF Hosts
    <2> QED
      BY <1>0, <1>5, <2>1 DEF Invalidate, Trusted, EventTypeOK
  <1>6. ASSUME Teardown PROVE Trusted'
    BY <1>6 DEF Teardown, ModuleUnregister, ModuleForget, Free, Join, Trusted
  <1>7. ASSUME \/ \E kind \in Kinds : Make(kind)
               \/ Emit \/ StopWorker \/ RunPosted \/ RunStale \/ UNCHANGED eventVars
        PROVE  Trusted'
    BY <1>7 DEF Make, Emit, EmitUnheard, EmitTo, OnEventDropped, OnEvent, Post, StopWorker, RunPosted,
                RunStale, eventVars, Trusted, Installing
  <1> QED
    BY <1>1, <1>2, <1>3, <1>4, <1>5, <1>6, <1>7 DEF EventNext, Install
\* What is on its way gets there: it is posted to the host that is bound, or shown.
LEMMA OnItsWayStays ==
  ASSUME EventTypeOK, [EventNext]_eventVars, NEW m, OnItsWay(m), Trusted, Bound, hosts' = hosts, hosts \in valid
  PROVE  OnItsWay(m)'
  <1> USE DEF workerVars, bindVars, jsVars
  <1>1. ASSUME NEW kind \in Kinds, Make(kind) PROVE OnItsWay(m)'
    BY <1>1 DEF Make, OnItsWay, InFlight
  <1>2. ASSUME EmitUnheard \/ OnEventDropped \/ StopWorker PROVE OnItsWay(m)'
    <2>1. /\ ~InFlight \/ (worker.pc = "emit" /\ sink = NoHost)
                       \/ (worker.pc = "called" /\ worker.host \notin valid)
          /\ UNCHANGED <<reached, queue>>
      BY <1>2 DEF EmitUnheard, OnEventDropped, StopWorker, InFlight
    <2>2. ~InFlight
      BY <2>1 DEF Trusted, Bound, Calling, EventTypeOK, InFlight, NoHost, Hosts
    <2> QED
      BY <2>1, <2>2 DEF OnItsWay
  <1>3. ASSUME EmitTo \/ OnEvent PROVE OnItsWay(m)'
    <2>1. InFlight' /\ worker'.event = worker.event /\ UNCHANGED <<reached, queue>>
      BY <1>3 DEF EmitTo, OnEvent, InFlight, EventTypeOK
    <2> QED
      BY <2>1 DEF OnItsWay
  <1>4. ASSUME Post PROVE OnItsWay(m)'
    <2>1. queue' = Append(queue, <<hosts, worker.event>>) /\ reached' = reached
      BY <1>4 DEF Post, Trusted, Bound, Calling
    <2>2. queue \in Seq(Hosts \X Events) /\ <<hosts, worker.event>> \in Hosts \X Events
      BY <1>4 DEF Post, Trusted, EventTypeOK, Bound
    <2>3. /\ Len(queue) \in Nat /\ Len(queue') = Len(queue) + 1
          /\ \A i \in 1 .. Len(queue) : queue'[i] = queue[i]
          /\ queue'[Len(queue) + 1] = <<hosts, worker.event>>
      BY <2>1, <2>2
    <2>4. \A i \in 1 .. Len(queue) : i \in 1 .. Len(queue')
      BY <2>3
    <2>5. Len(queue) + 1 \in 1 .. Len(queue')
      BY <2>3
    <2> QED
      BY <2>1, <2>3, <2>4, <2>5 DEF OnItsWay
  <1>5. ASSUME NEW n, reached' = Append(reached, n), OnItsWay(m), UNCHANGED <<worker, queue>>
        PROVE  OnItsWay(m)'
    <2>1. \A i \in 1 .. Len(reached) : i \in 1 .. Len(reached') /\ reached'[i] = reached[i]
      BY <1>5, ReachedGrows
    <2> QED
      BY <1>5, <2>1 DEF OnItsWay, InFlight
  <1>6. ASSUME Take PROVE OnItsWay(m)'
    BY <1>5, <1>6 DEF Take
  <1>7. ASSUME RunPosted PROVE OnItsWay(m)'
    <2>1. queue # << >> /\ queue' = Tail(queue) /\ reached' = Append(reached, Head(queue)[2]) /\ worker' = worker
      BY <1>7 DEF RunPosted
    <2>2. /\ \A i \in 1 .. Len(reached) : i \in 1 .. Len(reached') /\ reached'[i] = reached[i]
          /\ Len(reached) + 1 \in 1 .. Len(reached') /\ reached'[Len(reached) + 1] = Head(queue)[2]
      BY <2>1, ReachedGrows
    <2>3. ASSUME NEW i \in 1 .. Len(queue), queue[i] = <<hosts, m>> PROVE OnItsWay(m)'
      <3>1. CASE i = 1
        <4>1. Head(queue)[2] = m
          BY <2>1, <2>3, <3>1, QueueTail
        <4> QED
          BY <2>2, <4>1 DEF OnItsWay
      <3>2. CASE i # 1
        <4>1. i - 1 \in 1 .. Len(queue') /\ queue'[i - 1] = queue[i]
          BY <2>1, <3>2, QueueTail
        <4> QED
          BY <2>3, <4>1 DEF OnItsWay
      <3> QED
        BY <3>1, <3>2
    <2> QED
      BY <2>1, <2>2, <2>3 DEF OnItsWay, InFlight
  <1>8. ASSUME RunStale PROVE OnItsWay(m)'
    <2>1. queue # << >> /\ queue' = Tail(queue) /\ Head(queue)[1] \notin valid /\ UNCHANGED <<worker, reached>>
      BY <1>8 DEF RunStale
    <2>2. ASSUME NEW i \in 1 .. Len(queue), queue[i] = <<hosts, m>> PROVE OnItsWay(m)'
      <3>1. i # 1
        BY <2>1, <2>2, QueueTail
      <3>2. i - 1 \in 1 .. Len(queue') /\ queue'[i - 1] = queue[i]
        BY <2>1, <3>1, QueueTail
      <3> QED
        BY <2>2, <3>2 DEF OnItsWay
    <2> QED
      BY <2>1, <2>2 DEF OnItsWay, InFlight
  <1>9. ASSUME \/ Initialize \/ Install \/ Drain \/ Receive \/ TakeNothing \/ Invalidate \/ Teardown
               \/ UNCHANGED eventVars
        PROVE  OnItsWay(m)'
    <2>1. UNCHANGED <<worker, queue, reached>>
      BY <1>9 DEF Initialize, Install, JsUnregister, JsForget, Register, Drain, Receive, TakeNothing,
                  Invalidate, Teardown, ModuleUnregister, ModuleForget, Free, Join, eventVars
    <2> QED
      BY <2>1 DEF OnItsWay, InFlight
  <1> QED
    BY <1>1, <1>2, <1>3, <1>4, <1>6, <1>7, <1>8, <1>9 DEF EventNext, Emit
\* What is in the inbox after a push was there before, or is pushed.
LEMMA PushedIs ==
  ASSUME EventTypeOK, NEW n \in Events, NEW k \in 1 .. Len(PushInbox(inbox, n))
  PROVE  PushInbox(inbox, n)[k] = n \/ \E i \in 1 .. Len(inbox) : PushInbox(inbox, n)[k] = inbox[i]
  <1> DEFINE box == IF Len(inbox) >= INBOX_CAPACITY THEN Tail(inbox) ELSE inbox
  <1>1. inbox \in Seq(Events) /\ INBOX_CAPACITY \in Nat \ {0}
    BY EventDeliveryAssumption DEF EventTypeOK
  <1>2. box \in Seq(Events) /\ \A j \in 1 .. Len(box) : \E i \in 1 .. Len(inbox) : box[j] = inbox[i]
    <2>1. CASE Len(inbox) >= INBOX_CAPACITY
      <3>1. /\ box = Tail(inbox) /\ Len(box) = Len(inbox) - 1 /\ box \in Seq(Events)
            /\ \A i \in 1 .. Len(box) : box[i] = inbox[i + 1] /\ i + 1 \in 1 .. Len(inbox)
        BY <1>1, <2>1
      <3> HIDE DEF box
      <3> QED
        BY <3>1
    <2>2. CASE ~(Len(inbox) >= INBOX_CAPACITY)
      BY <1>1, <2>2
    <2> QED
      BY <2>1, <2>2
  <1>3. PushInbox(inbox, n) = Append(box, n)
    BY DEF PushInbox
  <1> HIDE DEF box
  <1>4. /\ Len(Append(box, n)) = Len(box) + 1 /\ Len(box) \in Nat
        /\ \A j \in 1 .. Len(box) : Append(box, n)[j] = box[j]
        /\ Append(box, n)[Len(box) + 1] = n
    BY <1>2
  <1>5. k \in 1 .. Len(box) \/ k = Len(box) + 1
    BY <1>3, <1>4
  <1> QED
    BY <1>2, <1>3, <1>4, <1>5

LEMMA DrainedStays ==
  ASSUME EventIInv, Trusted, Drained, [EventNext]_eventVars
  PROVE  Drained'
  <1> USE DEF workerVars, bindVars, jsVars, Unregister, Forget, Revoke
  <1>0. EventTypeOK /\ Bound
    BY DEF EventIInv
  <1> SUFFICES ASSUME ~cut', js' = "free", hosts' \in valid', NEW k \in 1 .. Len(inbox')
               PROVE  OnItsWay(inbox[k])'
    BY DEF Drained
  <1>s. ASSUME js = "free", UNCHANGED <<cut, hosts>>, valid' \subseteq valid,
               NEW i \in 1 .. Len(inbox), inbox'[k] = inbox[i]
        PROVE  OnItsWay(inbox[k])'
    <2>1. hosts \in valid /\ ~cut
      BY <1>s
    <2>2. OnItsWay(inbox[i])
      BY <1>s, <2>1 DEF Drained
    <2> DEFINE m == inbox[i]
    <2>3. \A n : OnItsWay(n) => OnItsWay(n)'
      BY <1>0, <1>s, <2>1, OnItsWayStays
    <2>4. \A n : OnItsWay(n) /\ inbox'[k] = n => OnItsWay(inbox[k])'
      BY <2>3 DEF OnItsWay
    <2> QED
      BY <1>s, <2>2, <2>4
  <1>1. ASSUME NEW kind \in Kinds, Make(kind) PROVE OnItsWay(inbox[k])'
    <2>1. CASE inbox' = inbox
      BY <1>1, <1>s, <2>1 DEF Make
    <2>2. CASE inbox' = PushInbox(inbox, Len(log'))
      <3>1. Len(log') \in Events
        BY <1>0, <1>1, EventDeliveryAssumption DEF Make, Events, EventTypeOK
      <3>2. inbox'[k] = Len(log') \/ \E i \in 1 .. Len(inbox) : inbox'[k] = inbox[i]
        BY <1>0, <2>2, <3>1, PushedIs
      <3>3. inbox'[k] = Len(log') => OnItsWay(inbox[k])'
        BY <1>1 DEF Make, OnItsWay, InFlight
      <3> QED
        BY <1>1, <1>s, <3>2, <3>3 DEF Make
    <2> QED
      BY <1>1, <2>1, <2>2 DEF Make
  <1>2. ASSUME Emit \/ StopWorker \/ RunPosted \/ RunStale \/ Invalidate \/ Teardown \/ UNCHANGED eventVars
        PROVE  OnItsWay(inbox[k])'
    <2>1. UNCHANGED <<js, cut, hosts, inbox>> /\ valid' \subseteq valid
      BY <1>2 DEF Emit, EmitUnheard, EmitTo, OnEventDropped, OnEvent, Post, StopWorker, RunPosted, RunStale,
                  Invalidate, Teardown, ModuleUnregister, ModuleForget, Free, Join, eventVars
    <2> QED
      BY <1>s, <2>1
  <1>3. ASSUME TakeNothing PROVE FALSE
    BY <1>3 DEF TakeNothing
  <1>4. ASSUME Receive PROVE FALSE
    BY <1>4 DEF Receive, Trusted
  <1>5. ASSUME Take \/ Initialize \/ Install \/ Drain PROVE FALSE
    BY <1>5 DEF Take, Initialize, Install, JsUnregister, JsForget, Register, Drain
  <1> QED
    BY <1>1, <1>2, <1>3, <1>4, <1>5 DEF EventNext

\* One more event is shown, and every message before it was, or may have been lost.
LEMMA ShowNext ==
  ASSUME EventTypeOK, NEW k, reached' = Append(reached, k), log' = log,
         \A m, n \in Messages : m < n => Crowded(m) \/ After(m, n),
         \A m \in Messages : k \in Messages /\ m < k => Crowded(m) \/ \E j \in 1 .. Len(reached) : reached[j] = m
  PROVE  \A m, n \in Messages' : m < n => Crowded(m)' \/ After(m, n)'
  <1>1. Messages' = Messages /\ \A m : Crowded(m)' <=> Crowded(m)
    BY DEF Messages, Crowded
  <1>2. /\ Len(reached) \in Nat /\ Len(reached') = Len(reached) + 1
        /\ \A i \in 1 .. Len(reached) : reached'[i] = reached[i]
        /\ reached'[Len(reached) + 1] = k
    BY ReachedGrows
  <1>3. ASSUME NEW m \in Messages, NEW n \in Messages, m < n, ~Crowded(m),
               NEW i \in 1 .. Len(reached'), reached'[i] = n
        PROVE  \E j \in 1 .. i - 1 : reached'[j] = m
    <2>1. CASE i \in 1 .. Len(reached)
      <3>1. PICK j \in 1 .. i - 1 : reached[j] = m
        BY <1>2, <1>3, <2>1 DEF After
      <3>2. j \in 1 .. Len(reached)
        BY <1>2, <2>1
      <3> QED
        BY <1>2, <3>1, <3>2
    <2>2. CASE i = Len(reached) + 1
      <3>1. PICK j \in 1 .. Len(reached) : reached[j] = m
        BY <1>2, <1>3, <2>2
      <3>2. j \in 1 .. i - 1
        BY <1>2, <2>2
      <3> QED
        BY <1>2, <3>1, <3>2
    <2> QED
      BY <1>2, <2>1, <2>2
  <1> QED
    BY <1>1, <1>3 DEF After

LEMMA SightedStays ==
  ASSUME EventIInv, EventIInv', Numbered, Trusted, Drained, Sighted, [EventNext]_eventVars
  PROVE  Sighted'
  <1> USE DEF workerVars, bindVars, jsVars
  <1>0. EventTypeOK /\ EventTypeOK' /\ MessagesKept /\ Ordered /\ INBOX_CAPACITY \in Nat /\ Len(log) \in Nat
    BY EventDeliveryAssumption DEF EventIInv, EventTypeOK
  <1>c. cut => cut'
    BY DEF EventNext, Make, Emit, EmitUnheard, EmitTo, OnEventDropped, OnEvent, Post, StopWorker, Initialize,
           Install, JsUnregister, JsForget, Register, Drain, Receive, TakeNothing, Take, RunPosted,
           RunStale, Invalidate, Teardown, ModuleUnregister, ModuleForget, Free, Join, eventVars
  <1> SUFFICES ASSUME ~cut' PROVE \A m, n \in Messages' : m < n => Crowded(m)' \/ After(m, n)'
    BY DEF Sighted
  <1>d. ~cut /\ \A m, n \in Messages : m < n => Crowded(m) \/ After(m, n)
    BY <1>c DEF Sighted
  <1> DEFINE Goal == \A m, n \in Messages' : m < n => Crowded(m)' \/ After(m, n)'
  <1>i. \A m \in Messages : m \in 1 .. Len(log)
    BY <1>0 DEF Messages, EventTypeOK
  <1>1. ASSUME NEW kind \in Kinds, Make(kind) PROVE Goal
    <2>1. /\ Len(log') = Len(log) + 1 /\ reached' = reached
          /\ \A i \in 1 .. Len(log) : log'[i] = log[i]
      BY <1>0, <1>1 DEF Make, EventTypeOK
    <2>2. Messages \subseteq Messages' /\ Messages' \subseteq Messages \cup {Len(log')}
      <3>1. DOMAIN log = 1 .. Len(log) /\ DOMAIN log' = 1 .. Len(log')
        BY <1>0 DEF EventTypeOK
      <3>2. \A i \in 1 .. Len(log') : i \in 1 .. Len(log) \/ i = Len(log')
        BY <1>0, <2>1
      <3>3. \A i \in 1 .. Len(log) : i \in 1 .. Len(log')
        BY <1>0, <2>1
      <3> QED
        BY <2>1, <3>1, <3>2, <3>3 DEF Messages
    <2>3. ASSUME NEW m \in Messages, Crowded(m) PROVE Crowded(m)'
      BY <1>0, <2>2, <2>3, CrowdedStays
    <2>4. ASSUME NEW m PROVE After(m, Len(log'))
      <3>1. \A i \in 1 .. Len(reached) : reached[i] \in Nat /\ reached[i] <= Len(log)
        <4>1. Events \subseteq Nat
          BY EventDeliveryAssumption DEF Events
        <4>2. \A i \in 1 .. Len(reached) : reached[i] \in Events
          BY <1>0 DEF EventTypeOK
        <4> QED
          BY <4>1, <4>2 DEF Numbered
      <3>2. \A i \in 1 .. Len(reached) : reached[i] # Len(log) + 1
        BY <1>0, <3>1
      <3> QED
        BY <2>1, <3>2 DEF After
    <2>5. ASSUME NEW m \in Messages', NEW n \in Messages', m < n PROVE Crowded(m)' \/ After(m, n)
      <3>1. n = Len(log') \/ n \in Messages
        BY <2>2
      <3>2. n \in Messages => m \in Messages
        BY <1>0, <1>i, <2>1, <2>2, <2>5
      <3> QED
        BY <1>d, <2>3, <2>4, <2>5, <3>1, <3>2
    <2> QED
      BY <2>1, <2>5 DEF After
  <1>2. ASSUME Take PROVE Goal
    <2>1. inbox # << >> /\ reached' = Append(reached, Head(inbox)) /\ log' = log
      BY <1>2 DEF Take
    <2>2. /\ inbox \in Seq(Events) /\ Head(inbox) = inbox[1] /\ 1 \in 1 .. Len(inbox)
          /\ DOMAIN inbox = 1 .. Len(inbox)
      BY <1>0, <2>1 DEF EventTypeOK
    <2>3. ASSUME NEW m \in Messages, m < Head(inbox)
          PROVE  Crowded(m) \/ \E j \in 1 .. Len(reached) : reached[j] = m
      <3>1. ASSUME m \in ToSet(inbox) PROVE FALSE
        <4>1. PICK i \in 1 .. Len(inbox) : inbox[i] = m
          BY <2>2, <3>1 DEF ToSet
        <4>2. i = 1 \/ inbox[1] < inbox[i]
          BY <1>0, <2>2 DEF Ordered
        <4>3. inbox[1] \in Nat /\ inbox[i] \in Nat
          BY <1>0, <1>i, <2>2 DEF Ordered
        <4> QED
          BY <2>2, <2>3, <4>1, <4>2, <4>3
      <3>2. ASSUME m \in ToSet(reached) PROVE \E j \in 1 .. Len(reached) : reached[j] = m
        BY <1>0, <3>2 DEF ToSet, EventTypeOK
      <3> QED
        BY <1>0, <3>1, <3>2 DEF MessagesKept
    <2> QED
      BY <1>0, <1>d, <2>1, <2>3, ShowNext
  <1>3. ASSUME RunPosted PROVE Goal
    <2>1. /\ queue # << >> /\ reached' = Append(reached, Head(queue)[2]) /\ log' = log
          /\ js = "free" /\ Head(queue)[1] \in valid
      BY <1>3 DEF RunPosted
    <2>2. Head(queue) = queue[1] /\ 1 \in 1 .. Len(queue)
      <3>1. queue \in Seq(Hosts \X Events)
        BY <1>0 DEF EventTypeOK
      <3> QED
        BY <2>1, <3>1
    <2>3. hosts \in valid
      BY <2>1 DEF Trusted
    <2>4. queue[1][2] \in Nat /\ queue[1][2] <= Len(log) /\ (InFlight => queue[1][2] < Len(log))
      BY <1>0, <2>2, QueueEntry DEF Numbered
    <2>5. ASSUME NEW m \in Messages, m < Head(queue)[2]
          PROVE  Crowded(m) \/ \E j \in 1 .. Len(reached) : reached[j] = m
      <3>1. ASSUME m \in ToSet(inbox) PROVE \E j \in 1 .. Len(reached) : reached[j] = m
        <4>1. PICK i \in 1 .. Len(inbox) : inbox[i] = m
          BY <1>0, <3>1 DEF ToSet, EventTypeOK
        <4>2. OnItsWay(m)
          BY <1>d, <2>1, <2>3, <4>1 DEF Drained
        <4>3. m \in Nat /\ m < queue[1][2]
          BY <1>0, <1>i, <2>2, <2>5
        <4>4. ~(InFlight /\ worker.event = m)
          BY <1>0, <2>4, <4>3 DEF Numbered
        <4>5. ASSUME NEW l \in 1 .. Len(queue), queue[l] = <<hosts, m>> PROVE FALSE
          <5>1. queue[l][2] = m
            BY <4>5
          <5>2. l = 1 \/ queue[1][2] < queue[l][2]
            BY <2>2 DEF Numbered
          <5> QED
            BY <2>4, <4>3, <5>1, <5>2
        <4> QED
          BY <4>2, <4>4, <4>5 DEF OnItsWay
      <3>2. ASSUME m \in ToSet(reached) PROVE \E j \in 1 .. Len(reached) : reached[j] = m
        BY <1>0, <3>2 DEF ToSet, EventTypeOK
      <3> QED
        BY <1>0, <3>1, <3>2 DEF MessagesKept
    <2> QED
      BY <1>0, <1>d, <2>1, <2>5, ShowNext
  <1>4. ASSUME \/ Emit \/ StopWorker \/ Initialize \/ Install \/ Drain \/ Receive \/ TakeNothing \/ RunStale
               \/ Invalidate \/ Teardown \/ UNCHANGED eventVars
        PROVE  Goal
    <2>1. UNCHANGED <<log, reached>>
      BY <1>4 DEF Emit, EmitUnheard, EmitTo, OnEventDropped, OnEvent, Post, StopWorker, Initialize,
                  Install, JsUnregister, JsForget, Register, Drain, Receive, TakeNothing, RunStale,
                  Invalidate, Teardown, ModuleUnregister, ModuleForget, Free, Join, eventVars
    <2> QED
      BY <1>d, <2>1 DEF Messages, Crowded, After
  <1> HIDE DEF Goal
  <1>5. Goal
    BY <1>1, <1>2, <1>3, <1>4 DEF EventNext
  <1> QED
    BY <1>5 DEF Goal
\* The order of the natural numbers, as a set of pairs.
LEMMA NaturalOrder ==
  \E less : less = {ss \in Nat \X Nat : ss[1] < ss[2]} /\ IsWellFoundedOn(less, Nat)
  BY NatLessThanWellFounded, Zenon DEF OpToRel

\* What was seen was seen at some place first, and that is its Pos.
LEMMA PosIs ==
  ASSUME EventTypeOK, NEW n \in ToSet(reached)
  PROVE  /\ Pos(n) \in 1 .. Len(reached) /\ reached[Pos(n)] = n
         /\ \A j \in 1 .. Pos(n) - 1 : reached[j] # n
  <1> DEFINE P == {i \in 1 .. Len(reached) : reached[i] = n}
  <1>1. Len(reached) \in Nat /\ DOMAIN reached = 1 .. Len(reached)
    BY DEF EventTypeOK
  <1>2. P # {} /\ P \in SUBSET Nat
    BY <1>1 DEF ToSet
  <1>3. PICK less : less = {ss \in Nat \X Nat : ss[1] < ss[2]} /\ IsWellFoundedOn(less, Nat)
    BY NaturalOrder
  <1>4. PICK i \in P : \A j \in P : ~(<<j, i>> \in less)
    BY <1>2, <1>3, WFMin
  <1>5. ASSUME NEW j \in 1 .. i - 1 PROVE reached[j] # n
    <2>1. j \in 1 .. Len(reached) /\ j \in Nat /\ i \in Nat /\ j < i
      BY <1>1
    <2>2. <<j, i>> \in less
      BY <1>3, <2>1
    <2> QED
      BY <1>4, <2>1, <2>2
  <1>6. \E k \in DOMAIN reached : reached[k] = n /\ \A j \in 1 .. k - 1 : reached[j] # n
    BY <1>1, <1>5
  <1> QED
    BY <1>1, <1>6 DEF Pos

\* Until a handler throws out of a drain, messages are first seen in the order in which
\* they were received: pushed or pulled, over any number of runtimes (emit, push_inbox,
\* onEvent, receive, initialize).
THEOREM MessagesSeenInOrder == EventSpec => []FirstSightInOrder
  <1> DEFINE OInv == EventIInv /\ Numbered /\ Trusted /\ Drained /\ Sighted
  <1>1. EventInit => OInv
    BY EventInitIInv DEF EventInit, Numbered, InFlight, Idle, Trusted, Drained, Sighted, Messages
  <1>2. OInv /\ [EventNext]_eventVars => OInv'
    <2> SUFFICES ASSUME OInv, [EventNext]_eventVars PROVE OInv'
      OBVIOUS
    <2>1. EventIInv'
      BY EventNextIInv
    <2>2. Numbered' /\ Trusted' /\ Drained'
      BY NumberedStays, TrustedStays, DrainedStays
    <2>3. Sighted'
      BY <2>1, SightedStays
    <2> QED
      BY <2>1, <2>2, <2>3
  <1>3. OInv => FirstSightInOrder
    <2> SUFFICES ASSUME OInv, ~cut, NEW m \in Messages \cap ToSet(reached),
                        NEW n \in Messages \cap ToSet(reached), m < n, ~Crowded(m)
                 PROVE  Pos(m) < Pos(n)
      BY DEF FirstSightInOrder
    <2>1. EventTypeOK /\ After(m, n)
      BY DEF EventIInv, Sighted
    <2>2. PICK j \in 1 .. Pos(n) - 1 : reached[j] = m
      BY <2>1, PosIs DEF After
    <2>3. /\ Pos(m) \in 1 .. Len(reached) /\ Pos(n) \in 1 .. Len(reached)
          /\ \A i \in 1 .. Pos(m) - 1 : reached[i] # m
      BY <2>1, PosIs
    <2>4. ~(j \in 1 .. Pos(m) - 1)
      BY <2>2, <2>3
    <2> QED
      BY <2>2, <2>3, <2>4
  <1> QED
    BY <1>1, <1>2, <1>3, PTL DEF EventSpec
=============================================================================
