----------------------------- MODULE MCTrackers -----------------------------
(* Connections, and lookups that expect an answer, are interchangeable.     *)
EXTENDS Trackers, TLC

\* The first SYN comes again before it times out, the next a moment after.
MCInterval == [n \in 0 .. RETRIES |-> IF n = 1 THEN TIMEOUT + 1 ELSE 1]

Symmetry == Permutations(Conns) \cup Permutations(Lookups \ Discovery)
=============================================================================
