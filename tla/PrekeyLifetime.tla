--------------------------- MODULE PrekeyLifetime ---------------------------
(***************************************************************************)
(* How long the secrets of Prekeys.tla exist.  For each generation of the   *)
(* running session a clock counts the running time since its prekey was     *)
(* first published.  A stopped node neither rotates nor forgets (tick       *)
(* returns before rotate_if_due), so the time it was stopped is left out.   *)
(***************************************************************************)
EXTENDS Prekeys

VARIABLE awake  \* generation -> running time since it was published, capped past EXPOSURE

lifeVars == <<vars, awake>>

\* The documented life of a secret.
EXPOSURE == ROTATE_INTERVAL * (RETAINED + 1)

Zero == [g \in Generations |-> 0]

Older ==
  [g \in Generations |->
     IF g \in Ring /\ [epoch |-> epoch, generation |-> g] \in beacons /\ awake[g] <= EXPOSURE
     THEN awake[g] + 1 ELSE awake[g]]

LifeInit == Init /\ awake = Zero

LifeClock == Clock /\ awake' = IF running THEN Older ELSE awake

\* A restart makes new secrets.
LifeRestart == Restart /\ awake' = Zero

LifeOther ==
  /\ \/ SendBeacon \/ Stop \/ Rotate \/ HearBeacon
     \/ \E m \in Msgs : Seal(m) \/ Arrive(m) \/ GiveUp(m)
  /\ UNCHANGED awake

LifeSpec == LifeInit /\ [][LifeClock \/ LifeRestart \/ LifeOther]_lifeVars

LifeFairSpec == LifeSpec /\ Fairness

-----------------------------------------------------------------------------
LifeTypeOK ==
  /\ TypeOK
  /\ awake \in [Generations -> 0 .. EXPOSURE + 1]

\* While messages are sealed to it, a secret sees at most EXPOSURE of running
\* time: the ring turns and forgets (prekey.rs, "Dropping is the feature").  (The types go with it.)
ExposureWhileRunning == LifeTypeOK /\ \A g \in Ring : awake[g] <= EXPOSURE
=============================================================================
