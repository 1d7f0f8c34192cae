------------------------------- MODULE Mailbox -------------------------------
(***************************************************************************)
(* What a mesh of meshcore nodes promises one sender and one recipient of   *)
(* directed messages.  A message is sent once, reaches the recipient's      *)
(* inbox at most once, and the sender's receipt is final: "delivered" only  *)
(* after the message was in the inbox, "expired" whatever became of it.     *)
(*                                                                          *)
(* Delivery.tla is the detailed specification and implements this one.      *)
(***************************************************************************)
EXTENDS Naturals

CONSTANT Msgs

VARIABLES
  sent,      \* messages the user handed over
  inbox,     \* message -> times the recipient got it
  receipt    \* message -> "none", "delivered" or "expired"

mailboxVars == <<sent, inbox, receipt>>

Init ==
  /\ sent = {}
  /\ inbox = [m \in Msgs |-> 0]
  /\ receipt = [m \in Msgs |-> "none"]

Send(m) ==
  /\ m \notin sent
  /\ sent' = sent \cup {m}
  /\ UNCHANGED <<inbox, receipt>>

Receive(m) ==
  /\ m \in sent
  /\ inbox[m] = 0
  /\ inbox' = [inbox EXCEPT ![m] = 1]
  /\ UNCHANGED <<sent, receipt>>

Confirm(m) ==
  /\ inbox[m] > 0
  /\ receipt[m] = "none"
  /\ receipt' = [receipt EXCEPT ![m] = "delivered"]
  /\ UNCHANGED <<sent, inbox>>

GiveUp(m) ==
  /\ m \in sent
  /\ receipt[m] = "none"
  /\ receipt' = [receipt EXCEPT ![m] = "expired"]
  /\ UNCHANGED <<sent, inbox>>

Next == \E m \in Msgs : Send(m) \/ Receive(m) \/ Confirm(m) \/ GiveUp(m)

Spec == Init /\ [][Next]_mailboxVars
=============================================================================
