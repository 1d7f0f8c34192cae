------------------------------ MODULE Receipts ------------------------------
(***************************************************************************)
(* What the user sees of the messages handed to a node: each goes from      *)
(* "new" to one final outcome.  A directed message waits for its ack until  *)
(* it is delivered, given up with a receipt, or lost without one.           *)
(*                                                                          *)
(* StoreForward.tla is the detailed specification and implements this one.  *)
(***************************************************************************)
EXTENDS Naturals

CONSTANT Msgs

VARIABLE outcome  \* message -> what the user knows, or would want to know

Outcomes == {"new", "refused", "waiting", "delivered", "expired", "lost"}

Waiting == {m \in Msgs : outcome[m] = "waiting"}

Init == outcome = [m \in Msgs |-> "new"]

\* The node is stopped: the message is not taken.
Refuse(m) ==
  /\ outcome[m] = "new"
  /\ outcome' = [outcome EXCEPT ![m] = "refused"]

\* A broadcast counts as delivered when it is sent.
Broadcast(m) ==
  /\ outcome[m] = "new"
  /\ outcome' = [outcome EXCEPT ![m] = "delivered"]

\* A directed message is taken; one older message at most makes room for it.
Queue(m, dropped) ==
  /\ outcome[m] = "new"
  /\ dropped \subseteq Waiting
  /\ \A i, j \in dropped : i = j
  /\ outcome' = [i \in Msgs |-> IF i = m THEN "waiting"
                                ELSE IF i \in dropped THEN "expired" ELSE outcome[i]]

\* One message is acked.  Others may vanish in the same step.
Confirm(m, vanished) ==
  /\ m \in Waiting
  /\ vanished \subseteq Waiting \ {m}
  /\ outcome' = [i \in Msgs |-> IF i = m THEN "delivered"
                                ELSE IF i \in vanished THEN "lost" ELSE outcome[i]]

\* Messages that waited too long are given up together.
GiveUp(late) ==
  /\ late \subseteq Waiting
  /\ late # {}
  /\ outcome' = [i \in Msgs |-> IF i \in late THEN "expired" ELSE outcome[i]]

\* Messages vanish: the user is told nothing.
Lose(vanished) ==
  /\ vanished \subseteq Waiting
  /\ vanished # {}
  /\ outcome' = [i \in Msgs |-> IF i \in vanished THEN "lost" ELSE outcome[i]]

Next ==
  \/ \E m \in Msgs : Refuse(m) \/ Broadcast(m)
  \/ \E m \in Msgs, dropped \in SUBSET Msgs : Queue(m, dropped)
  \/ \E m \in Msgs, vanished \in SUBSET Msgs : Confirm(m, vanished)
  \/ \E late \in SUBSET Msgs : GiveUp(late)
  \/ \E vanished \in SUBSET Msgs : Lose(vanished)

Spec == Init /\ [][Next]_outcome
=============================================================================
