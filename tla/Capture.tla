------------------------------- MODULE Capture -------------------------------
(***************************************************************************)
(* Packets on their way from the network to the analysis of the visualizer  *)
(* (frontend/src/main.js, trackPacket): in the order of their timestamps,   *)
(* up to LAG units late.  In live mode they come in batches and the lag is  *)
(* short; in playback mode there is none.                                   *)
(*                                                                          *)
(* A timestamp is kept as an age: the time since the packet was captured.   *)
(***************************************************************************)
EXTENDS Filter

CONSTANTS
  LAG,     \* the longest time between a packet's timestamp and its analysis
  MaxWire  \* bound: packets on their way

ASSUME CaptureAssumption == LAG \in Nat /\ MaxWire \in Nat \ {0}

VARIABLE wire  \* packets captured and not yet analysed, oldest first

Captured(kind, of) ==
  /\ Len(wire) < MaxWire
  /\ wire' = Append(wire, [kind |-> kind, of |-> of, age |-> 0])

\* The analysis takes the next packet.
Analysed == wire' = Tail(wire)

\* Time may pass: no packet would become later than LAG.
InTime == \A i \in DOMAIN wire : wire[i].age < LAG

Travelled == [i \in DOMAIN wire |-> [wire[i] EXCEPT !.age = @ + 1]]

\* A packet of this connection or lookup is still to be analysed.
OnItsWay(of) == \E i \in DOMAIN wire : wire[i].of = of
=============================================================================
