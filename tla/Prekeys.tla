------------------------------- MODULE Prekeys -------------------------------
(***************************************************************************)
(* Rotating prekeys of meshcore (mesh/rust/meshcore/src/prekey.rs, and its  *)
(* callers in lib.rs).  The owner replaces its prekey at intervals, keeps a *)
(* few retired ones and publishes the current one in its beacons.  A        *)
(* correspondent seals each message to the newest prekey it has heard of,   *)
(* and its outbox sends the same sealed bytes again until DEADLINE.         *)
(*                                                                          *)
(* The air loses, delays and reorders beacons and messages, and the owner   *)
(* stops, starts again, or restarts with an empty ring and a later epoch    *)
(* (its clock is not set back: ReplayWindow.tla has that case).             *)
(*                                                                          *)
(* Both clocks run at the same rate.  Timestamps are kept as ages, capped   *)
(* where nothing distinguishes them any more.                               *)
(***************************************************************************)
EXTENDS Integers, Sequences

CONSTANTS
  ROTATE_INTERVAL,  \* age at which the current prekey is replaced
  RETAINED,         \* retired prekeys kept
  DEADLINE,         \* outbox::DEADLINE_MS: a message this old is given up
  Msgs,             \* the messages of the correspondent
  NoPrekey,         \* none is known: the message is sealed to the static key
  MaxEpoch,         \* bound: sessions of the owner are 0 .. MaxEpoch
  MaxGeneration,    \* bound: a session makes generations 0 .. MaxGeneration
  Timely            \* the owner never lets a due rotation wait for its tick

Epochs == 0 .. MaxEpoch
Generations == 0 .. MaxGeneration

\* A prekey, to those who hold its public half.
PeerPrekey == [epoch : Epochs, generation : Generations]

ASSUME PrekeyAssumption ==
  /\ ROTATE_INTERVAL \in Nat \ {0}
  /\ RETAINED \in Nat
  /\ DEADLINE \in Nat \ {0}
  /\ MaxEpoch \in Nat
  /\ MaxGeneration \in Nat
  /\ Timely \in BOOLEAN
  /\ NoPrekey \notin PeerPrekey

\* The relation retention_outlives_the_outbox_deadline pins.
ASSUME RetentionAssumption == RETAINED * ROTATE_INTERVAL >= DEADLINE

VARIABLES
  running,     \* the owner's running flag
  epoch,       \* its session
  current,     \* generation of its current prekey
  retired,     \* generations of the retired ones, youngest first
  sinceRotate, \* time since the last rotation, capped at ROTATE_INTERVAL
  beacons,     \* prekeys published: any of them may arrive, in any order
  held,        \* the prekey the correspondent has installed, or NoPrekey
  mail         \* message -> what became of it

ringVars == <<epoch, current, retired, sinceRotate>>
vars == <<running, ringVars, beacons, held, mail>>

-----------------------------------------------------------------------------
(* PrekeyRing and PeerPrekey.                                               *)

Ring == {current} \cup {retired[i] : i \in DOMAIN retired}

Published == [epoch |-> epoch, generation |-> current]

\* Mutant: generations alone are compared.
SupersedesWithinSession(p, q) == p.generation > q.generation

Supersedes(p, q) ==
  \/ p.epoch > q.epoch
  \/ p.epoch = q.epoch /\ p.generation > q.generation

\* Mutant: the eviction leaves one more than RETAINED.
RetiredLong(ring, generation) ==
  [i \in 1 .. (IF Len(ring) <= RETAINED THEN Len(ring) + 1 ELSE RETAINED + 1) |->
     IF i = 1 THEN generation ELSE ring[i - 1]]

\* Mutant: the eviction leaves one less than RETAINED.
RetiredShort(ring, generation) ==
  [i \in 1 .. (IF Len(ring) + 1 < RETAINED THEN Len(ring) + 1 ELSE RETAINED - 1) |->
     IF i = 1 THEN generation ELSE ring[i - 1]]

\* push_front, then pop_back down to RETAINED.
Retired(ring, generation) ==
  [i \in 1 .. (IF Len(ring) < RETAINED THEN Len(ring) + 1 ELSE RETAINED) |->
     IF i = 1 THEN generation ELSE ring[i - 1]]

(* What a message is.                                                       *)

New == [state |-> "new", prekey |-> NoPrekey, toCurrent |-> FALSE, age |-> 0]

Sealed == [state |-> "waiting", prekey |-> held, toCurrent |-> held = Published, age |-> 0]

Waiting == {m \in Msgs : mail[m].state = "waiting"}

\* The owner can open what was sealed to this prekey: it looks the generation
\* up, and the frame verifies if it is the secret of that session.
CanOpen(prekey) ==
  \/ prekey = NoPrekey
  \/ prekey.generation \in Ring /\ prekey.epoch = epoch

-----------------------------------------------------------------------------
Init ==
  /\ running = FALSE
  /\ epoch = 0
  /\ current = 0
  /\ retired = << >>
  /\ sinceRotate = 0
  /\ beacons = {}
  /\ held = NoPrekey
  /\ mail = [m \in Msgs |-> New]

(* The owner.                                                               *)

\* do_start publishes a beacon; tick publishes one every few seconds.
SendBeacon ==
  /\ running' = TRUE
  /\ beacons' = beacons \cup {Published}
  /\ UNCHANGED <<ringVars, held, mail>>

Stop ==
  /\ running
  /\ running' = FALSE
  /\ UNCHANGED <<ringVars, beacons, held, mail>>

\* A tick that finds the rotation due: the ring turns, and the beacon with the
\* new prekey goes out at once.
RotateDue == running /\ sinceRotate = ROTATE_INTERVAL

Rotate ==
  /\ RotateDue
  /\ current < MaxGeneration
  /\ current' = current + 1
  /\ retired' = Retired(retired, current)
  /\ sinceRotate' = 0
  /\ UNCHANGED <<running, epoch, held, mail>>
  /\ beacons' = beacons \cup {Published'}

\* The process ends and a new session begins with generation 0.
Restart ==
  /\ epoch < MaxEpoch
  /\ running' = FALSE
  /\ epoch' = epoch + 1
  /\ current' = 0
  /\ retired' = << >>
  /\ sinceRotate' = 0
  /\ UNCHANGED <<beacons, held, mail>>

(* The correspondent.                                                       *)

\* accept, Beacon arm: only a newer prekey replaces the one installed.
Install(p) ==
  /\ held # NoPrekey => Supersedes(p, held)
  /\ held' = p
  /\ UNCHANGED <<running, ringVars, beacons, mail>>

HearBeacon == \E p \in beacons : Install(p)

\* seal and push: the message goes on the air and into the outbox.
Seal(m) ==
  /\ mail[m].state = "new"
  /\ mail' = [mail EXCEPT ![m] = Sealed]
  /\ UNCHANGED <<running, ringVars, beacons, held>>

\* One of the attempts reaches the owner, which opens it or reports an error.
\* Either way it has seen the id and drops the attempts that follow.
Arrive(m) ==
  /\ m \in Waiting
  /\ mail[m].age < DEADLINE
  /\ mail' = [mail EXCEPT ![m].state = IF CanOpen(mail[m].prekey) THEN "opened" ELSE "refused"]
  /\ UNCHANGED <<running, ringVars, beacons, held>>

\* The outbox gives the message up.
GiveUp(m) ==
  /\ m \in Waiting
  /\ mail[m].age = DEADLINE
  /\ mail' = [mail EXCEPT ![m].state = "expired"]
  /\ UNCHANGED <<running, ringVars, beacons, held>>

\* One unit of time passes.
Clock ==
  /\ Timely => ~RotateDue
  /\ sinceRotate' = IF sinceRotate < ROTATE_INTERVAL THEN sinceRotate + 1 ELSE ROTATE_INTERVAL
  /\ mail' = [m \in Msgs |-> IF m \in Waiting /\ mail[m].age < DEADLINE
                             THEN [mail[m] EXCEPT !.age = @ + 1] ELSE mail[m]]
  /\ UNCHANGED <<running, epoch, current, retired, beacons, held>>

Next ==
  \/ SendBeacon \/ Stop \/ Rotate \/ Restart
  \/ HearBeacon
  \/ \E m \in Msgs : Seal(m) \/ Arrive(m) \/ GiveUp(m)
  \/ Clock

Spec == Init /\ [][Next]_vars

HearCurrent == running /\ Install(Published) /\ Published \in beacons

\* A running owner beacons, and one beacon of its current prekey gets through.
Fairness == WF_vars(running /\ SendBeacon) /\ WF_vars(HearCurrent)

FairSpec == Spec /\ Fairness

-----------------------------------------------------------------------------
(* Properties.                                                              *)

Mail ==
  [state : {"new", "waiting", "opened", "refused", "expired"},
   prekey : PeerPrekey \cup {NoPrekey}, toCurrent : BOOLEAN, age : 0 .. DEADLINE]

TypeOK ==
  /\ running \in BOOLEAN
  /\ epoch \in Epochs
  /\ current \in Generations
  /\ retired \in Seq(Generations) /\ Len(retired) <= RETAINED
  /\ sinceRotate \in 0 .. ROTATE_INTERVAL
  /\ beacons \subseteq PeerPrekey
  /\ held \in PeerPrekey \cup {NoPrekey}
  /\ mail \in [Msgs -> Mail]

\* Sealed to the prekey that was the owner's current one at that moment, in the
\* session that still runs.
ToCurrent(m) == mail[m].toCurrent /\ mail[m].prekey.epoch = epoch

\* A message sealed to the owner's current prekey can be opened for as long as
\* the outbox retries it, whatever rotations happen meanwhile (prekey.rs,
\* "retention has to exceed it").
RetriesOpen ==
  \A m \in Waiting : ToCurrent(m) /\ mail[m].age < DEADLINE => CanOpen(mail[m].prekey)

\* A correspondent that hears beacons ends up with the current prekey, across
\* restarts of the owner too: a rebooted peer is not lost for good.
Heals == <>[]running => <>[](held = Published)
=============================================================================
