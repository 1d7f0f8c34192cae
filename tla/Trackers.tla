------------------------------ MODULE Trackers -------------------------------
(***************************************************************************)
(* Both trackers as main.js runs them: trackPacket gives every packet to    *)
(* each, in the order of capture, step() ticks both with the same clock.    *)
(***************************************************************************)
EXTENDS Flows, Dns

CONSTANT MaxBusy  \* bound: connections and lookups begun

ASSUME BusyAssumption == MaxBusy \in Nat

vars == <<wire, flowVars, dnsVars>>

Init == wire = << >> /\ FlowInit /\ DnsInit

FlowStep == (FlowDeliver \/ FlowTick) /\ UNCHANGED dnsVars

DnsStep == (DnsDeliver \/ DnsTick) /\ UNCHANGED flowVars

Begun == Cardinality(Tried) + Cardinality({q \in Lookups : resolver[q].asked > 0})

HostStep ==
  /\ \/ Hosts /\ UNCHANGED dnsVars
     \/ Resolvers /\ UNCHANGED flowVars
  /\ Begun' <= MaxBusy

\* resetWorld: a seek, a mode switch or a new capture empties both trackers, and
\* what was on its way is skipped or thrown away; not so when a file is loaded, or
\* its timeline scrubbed, under a live capture.  The connections and lookups under
\* way go on, seen from their middle.
ResetWorld ==
  /\ wire' \in {<< >>, wire}
  /\ FlowReset /\ DnsReset

\* One unit of time passes.
Clock ==
  /\ InTime /\ FlowsInTime /\ DnsInTime
  /\ wire' = Travelled
  /\ FlowsElapse /\ DnsElapse

Next == FlowStep \/ DnsStep \/ HostStep \/ ResetWorld \/ Clock

Spec == Init /\ [][Next]_vars
=============================================================================
