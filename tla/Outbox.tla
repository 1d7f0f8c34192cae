------------------------------- MODULE Outbox -------------------------------
(***************************************************************************)
(* The retransmit queue of meshcore (mesh/rust/meshcore/src/outbox.rs) as a *)
(* data type: one operator per method, on the map of pending entries and    *)
(* the insertion order kept beside it.                                      *)
(*                                                                          *)
(* Timestamps are kept as distances from now, which is all the code ever    *)
(* computes from them: age is now - queued_at_ms, capped at DEADLINE since  *)
(* nothing distinguishes two ages past it, and wait is next_attempt_ms -    *)
(* now, zero once the attempt is due.  Elapse is the clock moving on by one *)
(* unit.  The clock does not go backwards in this model.                    *)
(*                                                                          *)
(* `before' is the order of the Vec `order' as a relation: <<i, j>> is in it *)
(* when i was pushed before j.                                              *)
(***************************************************************************)
EXTENDS Integers, FiniteSets, Functions

CONSTANTS
  CAPACITY,      \* bound on queued entries
  BASE_BACKOFF,  \* first retry delay
  MAX_BACKOFF,   \* longest delay between two attempts
  DEADLINE,      \* an entry this old is given up
  MAX_SHIFT      \* attempts beyond this many no longer lengthen the delay

ASSUME OutboxAssumption ==
  /\ CAPACITY \in Nat \ {0}
  /\ BASE_BACKOFF \in Nat \ {0}
  /\ MAX_BACKOFF \in Nat \ {0}
  /\ DEADLINE \in Nat \ {0}
  /\ MAX_SHIFT \in Nat

\* Who a queued frame belongs to.
Traffic == {"User", "Internal"}

\* What the queue keeps of a frame addressed to one of the given peers.
Pending(peers) ==
  [recipient : peers, traffic : Traffic,
   attempts : 0 .. MAX_SHIFT, age : 0 .. DEADLINE, wait : 0 .. MAX_BACKOFF]

Backoff(attempts) ==
  IF BASE_BACKOFF * 2^attempts < MAX_BACKOFF
  THEN BASE_BACKOFF * 2^attempts
  ELSE MAX_BACKOFF

\* The entries but those of ids, and the order of what is left.
Without(pending, ids) == Restrict(pending, DOMAIN pending \ ids)
OrderWithout(before, ids) == {p \in before : p[1] \notin ids /\ p[2] \notin ids}

\* The entry pushed first: `order.first()'.
Oldest(pending, before) ==
  {i \in DOMAIN pending : \A j \in DOMAIN pending : <<j, i>> \notin before}

NewEntry(recipient, traffic) ==
  [recipient |-> recipient, traffic |-> traffic,
   attempts |-> 0, age |-> 0, wait |-> Backoff(0)]

\* What push(id, ..) evicts, once it has removed an entry of the same id.
Evicted(pending, before, id) ==
  LET others == DOMAIN pending \ {id}
  IN  IF Cardinality(others) >= CAPACITY
      THEN Oldest(Restrict(pending, others), before)
      ELSE {}

\* The queue after push made room and inserted the entry last.
Pushed(pending, before, id, recipient, traffic) ==
  [i \in (DOMAIN pending \ Evicted(pending, before, id)) \cup {id} |->
     IF i = id THEN NewEntry(recipient, traffic) ELSE pending[i]]

PushedOrder(pending, before, id) ==
  LET out == Evicted(pending, before, id) \cup {id}
  IN  OrderWithout(before, out) \cup {<<i, id>> : i \in DOMAIN pending \ out}

\* The internal frames for a peer that a fresh distribution supersedes.
Superseded(pending, peer) ==
  {i \in DOMAIN pending : pending[i].traffic = "Internal" /\ pending[i].recipient = peer}

\* Mutant: len() in place of user_len().
AllIds(pending) == DOMAIN pending

UserIds(pending) == {i \in DOMAIN pending : pending[i].traffic = "User"}

\* Mutant: given up one unit early.
ExpiredEarly(pending) == {i \in DOMAIN pending : pending[i].age >= DEADLINE - 1}

\* take_due: what has reached its deadline, what is to be sent again, and the
\* entries it leaves behind.
Expired(pending) == {i \in DOMAIN pending : pending[i].age >= DEADLINE}
Due(pending) == {i \in DOMAIN pending \ Expired(pending) : pending[i].wait = 0}

Attempted(entry) ==
  LET n == IF entry.attempts < MAX_SHIFT THEN entry.attempts + 1 ELSE MAX_SHIFT
  IN  [entry EXCEPT !.attempts = n, !.wait = Backoff(n)]

\* Mutant: what has expired is reported but stays queued.
AfterTakeDueKeeps(pending) ==
  [i \in DOMAIN pending |->
     IF i \in Due(pending) THEN Attempted(pending[i]) ELSE pending[i]]

AfterTakeDue(pending) ==
  [i \in DOMAIN pending \ Expired(pending) |->
     IF i \in Due(pending) THEN Attempted(pending[i]) ELSE pending[i]]

\* wake_for_peer: the entries it makes due, and the queue afterwards.
Woken(pending, peer) ==
  {i \in DOMAIN pending : pending[i].recipient = peer /\ pending[i].wait > 0}

\* Mutant: waking an entry starts its life over.
AfterWakeFresh(pending, peer) ==
  [i \in DOMAIN pending |->
     IF i \in Woken(pending, peer) THEN [pending[i] EXCEPT !.wait = 0, !.age = 0]
                                   ELSE pending[i]]

AfterWake(pending, peer) ==
  [i \in DOMAIN pending |->
     IF i \in Woken(pending, peer) THEN [pending[i] EXCEPT !.wait = 0] ELSE pending[i]]

\* One unit of time passes.
Elapse(pending) ==
  [i \in DOMAIN pending |->
     [pending[i] EXCEPT !.age  = IF @ < DEADLINE THEN @ + 1 ELSE DEADLINE,
                        !.wait = IF @ > 0 THEN @ - 1 ELSE 0]]
=============================================================================
