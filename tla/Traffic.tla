------------------------------- MODULE Traffic -------------------------------
(***************************************************************************)
(* The road of the visualizer: TrafficController in frontend/src/traffic.js *)
(* with the pools of vehicles.js.  Packets become vehicles that enter a     *)
(* lane at its gate and move at the lane's speed; what finds no room in     *)
(* either file of its lane gathers into a convoy.                           *)
(*                                                                          *)
(* One frame is several steps here, in the order of update(): packets that  *)
(* are due, gathered packets, the move.  JavaScript runs a frame without    *)
(* interruption, so everything else happens between frames.                 *)
(*                                                                          *)
(* A pool is its vehicles, oldest first; which instance of the mesh draws   *)
(* which is left out, and so are flares, colors, the spotlight and the glow.*)
(* While the road is frozen no batch is ingested and no frame begins.       *)
(***************************************************************************)
EXTENDS Filter, FiniteSets, SequencesExt

CONSTANTS
  Lanes,        \* a lane in one direction
  Kinds,        \* types of vehicles
  Drone,        \* the type that flies
  Convoy,       \* the type that carries a burst
  Speed,        \* lane -> distance moved in a unit of time
  Length,       \* type -> length of a vehicle of one packet
  LONGEST,      \* packets from which on a convoy grows no longer
  ConvoyLength, \* number of packets up to LONGEST -> length of their convoy
  Cap,          \* type -> size of its pool
  GAP,          \* GAP_BUFFER
  EXIT,         \* distance from the gate to the exit
  LABELS,       \* size of LabelPool
  LABEL_MIN,    \* packets from which on a convoy is labeled
  STALE,        \* packets that may stay queued after a frame
  FRAME         \* bound: the longest frame

ASSUME TrafficAssumption ==
  /\ {Drone, Convoy} \subseteq Kinds
  /\ Speed \in [Lanes -> Nat \ {0}]
  /\ Length \in [Kinds -> Nat \ {0}]
  /\ LONGEST \in Nat \ {0} /\ ConvoyLength \in [1 .. LONGEST -> Nat \ {0}]
  /\ Cap \in [Kinds -> Nat \ {0}]
  /\ GAP \in Nat /\ EXIT \in Nat /\ LABELS \in Nat /\ STALE \in Nat
  /\ LABEL_MIN \in Nat \ {0} /\ FRAME \in Nat \ {0}

VARIABLES
  queue,      \* packets of live batches whose time has not come
  frame,      \* where update() is
  dt,         \* how long this frame is
  todo,       \* packets this frame is to schedule
  toFlush,    \* lanes whose gathered packets this frame is to flush
  pool,       \* type -> its vehicles on the road, oldest first
  tails,      \* lane and file -> the vehicle admitted last, NoVehicle at first
  lastSub,    \* lane -> the file used last
  pendingAgg, \* bursts that gather, one for a lane, in the order of insertion
  labeled,    \* convoys with a label
  tailTaken   \* history: the pool took a vehicle that was the last of its file

roadVars == <<pool, tails, lastSub, tailTaken>>
trafficVars == <<queue, frame, dt, todo, toFlush, roadVars, pendingAgg, labeled>>

Files == {0, 1}
Airborne == 2
Full == 3
NoVehicle == 0

\* A vehicle goes by the id of its first packet.
Name(v) == v.pkts[1]

OnRoad == UNION {ToSet(pool[k]) : k \in Kinds}

-----------------------------------------------------------------------------
(* Admission.                                                               *)

\* The last vehicle of a file, if it was not released.
TailOf(lane, sub) ==
  {v \in OnRoad : v.lane = lane /\ v.sub = sub /\ Name(v) = tails[lane][sub]}

\* Mutant: no clearance for the vehicle that enters.
RoomInHalf(lane, sub, len) ==
  \A tail \in TailOf(lane, sub) : 2 * tail.z >= tail.len + 2 * GAP

\* roomIn: twice the distances, for they are between centers.
RoomIn(lane, sub, len) ==
  \A tail \in TailOf(lane, sub) : 2 * tail.z >= tail.len + len + 2 * GAP

\* pickSub
SubFor(lane, len) ==
  LET prefer == 1 - lastSub[lane] IN
  IF RoomIn(lane, prefer, len) THEN prefer
  ELSE IF RoomIn(lane, 1 - prefer, len) THEN 1 - prefer ELSE Full

FileFor(kind, lane, len) == IF kind = Drone THEN Airborne ELSE SubFor(lane, len)

\* VehiclePool.spawn: an exhausted pool takes its oldest vehicle from the road.
Exhausted(kind) == Len(pool[kind]) >= Cap[kind]

Spawned(kind, v) ==
  [pool EXCEPT ![kind] = Append(IF Exhausted(kind) THEN Tail(@) ELSE @, v)]

TakesTail(kind) ==
  Exhausted(kind) /\ LET v == Head(pool[kind]) IN v.sub # Airborne /\ v \in TailOf(v.lane, v.sub)

\* place: there is room, and the vehicle enters.
Place(kind, lane, len, pkts) ==
  LET sub == FileFor(kind, lane, len) IN
  /\ sub # Full
  /\ pool' = Spawned(kind, [lane |-> lane, sub |-> sub, z |-> 0, len |-> len, pkts |-> pkts])
  /\ IF sub = Airborne THEN UNCHANGED <<tails, lastSub>>
     ELSE /\ tails' = [tails EXCEPT ![lane][sub] = pkts[1]]
          /\ lastSub' = [lastSub EXCEPT ![lane] = sub]
  /\ tailTaken' = (tailTaken \/ TakesTail(kind))

NoRoom(kind, lane, len) == FileFor(kind, lane, len) = Full

-----------------------------------------------------------------------------
(* schedule: one packet.                                                    *)

PendingIn(lane) == {i \in DOMAIN pendingAgg : pendingAgg[i].lane = lane}

\* A packet, [id, lane, kind], of a lane where a burst gathers joins it.
Join(p) ==
  /\ PendingIn(p.lane) # {}
  /\ pendingAgg' = [i \in DOMAIN pendingAgg |->
                      IF i \in PendingIn(p.lane)
                      THEN [pendingAgg[i] EXCEPT !.pkts = Append(@, p.id)] ELSE pendingAgg[i]]
  /\ UNCHANGED roadVars

Drive(p) ==
  /\ PendingIn(p.lane) = {}
  /\ Place(p.kind, p.lane, Length[p.kind], <<p.id>>)
  /\ UNCHANGED pendingAgg

Gather(p) ==
  /\ PendingIn(p.lane) = {}
  /\ NoRoom(p.kind, p.lane, Length[p.kind])
  /\ pendingAgg' = Append(pendingAgg, [lane |-> p.lane, kind |-> p.kind, pkts |-> <<p.id>>])
  /\ UNCHANGED roadVars

\* Mutant: a packet with room drives past the burst that gathers.
ScheduleFirst(p) ==
  \/ Join(p) /\ NoRoom(p.kind, p.lane, Length[p.kind])
  \/ Place(p.kind, p.lane, Length[p.kind], <<p.id>>) /\ UNCHANGED pendingAgg
  \/ Gather(p)

Schedule(p) == Join(p) \/ Drive(p) \/ Gather(p)

(* flushAggs: one burst.                                                    *)

IsConvoy(agg) == Len(agg.pkts) > 1

KindOf(agg) == IF IsConvoy(agg) THEN Convoy ELSE agg.kind

LengthOf(agg) ==
  LET n == Len(agg.pkts) IN
  IF IsConvoy(agg) THEN ConvoyLength[IF n < LONGEST THEN n ELSE LONGEST] ELSE Length[agg.kind]

WithLabel(agg) ==
  IF Len(agg.pkts) >= LABEL_MIN /\ IsConvoy(agg) /\ Cardinality(labeled) < LABELS
  THEN labeled \cup {agg.pkts[1]} ELSE labeled

\* Mutant: a burst is flushed but stays.
FlushKeeps(lane) ==
  \E i \in PendingIn(lane) :
    LET agg == pendingAgg[i] IN
    \/ /\ Place(KindOf(agg), lane, LengthOf(agg), agg.pkts)
       /\ labeled' = WithLabel(agg)
       /\ UNCHANGED pendingAgg
    \/ /\ NoRoom(KindOf(agg), lane, LengthOf(agg))
       /\ UNCHANGED <<roadVars, pendingAgg, labeled>>

Flush(lane) ==
  \E i \in PendingIn(lane) :
    LET agg == pendingAgg[i] IN
    \/ /\ Place(KindOf(agg), lane, LengthOf(agg), agg.pkts)
       /\ pendingAgg' = RemoveAt(pendingAgg, i)
       /\ labeled' = WithLabel(agg)
    \/ /\ NoRoom(KindOf(agg), lane, LengthOf(agg))
       /\ UNCHANGED <<roadVars, pendingAgg, labeled>>

-----------------------------------------------------------------------------
(* The frame.                                                               *)

TrafficInit ==
  /\ queue = << >> /\ todo = << >> /\ toFlush = << >>
  /\ frame = "none" /\ dt = 0
  /\ pool = [k \in Kinds |-> << >>]
  /\ tails = [lane \in Lanes |-> [sub \in Files |-> NoVehicle]]
  /\ lastSub = [lane \in Lanes |-> 1]
  /\ pendingAgg = << >>
  /\ labeled = {}
  /\ tailTaken = FALSE

\* ingestBatch
Ingest(p) ==
  /\ frame = "none"
  /\ queue' = Append(queue, p)
  /\ UNCHANGED <<frame, dt, todo, toFlush, roadVars, pendingAgg, labeled>>

\* A frame of length d begins: it schedules what playback gives and the first n
\* of the queue, those that are due.  If too much stays the page was in the
\* background, and the rest is thrown away.
BeginFrame(d, n, crossed) ==
  /\ frame = "none"
  /\ frame' = "schedule" /\ dt' = d
  /\ todo' = crossed \o SubSeq(queue, 1, n)
  /\ queue' = IF Len(queue) - n > STALE THEN << >> ELSE SubSeq(queue, n + 1, Len(queue))
  /\ UNCHANGED <<toFlush, roadVars, pendingAgg, labeled>>

ScheduleNext ==
  /\ frame = "schedule" /\ todo # << >>
  /\ Schedule(Head(todo))
  /\ todo' = Tail(todo)
  /\ UNCHANGED <<queue, frame, dt, toFlush, labeled>>

BeginFlush ==
  /\ frame = "schedule" /\ todo = << >>
  /\ frame' = "flush"
  /\ toFlush' = [i \in DOMAIN pendingAgg |-> pendingAgg[i].lane]
  /\ UNCHANGED <<queue, dt, todo, roadVars, pendingAgg, labeled>>

FlushNext ==
  /\ frame = "flush" /\ toFlush # << >>
  /\ Flush(Head(toFlush))
  /\ toFlush' = Tail(toFlush)
  /\ UNCHANGED <<queue, frame, dt, todo>>

\* VehiclePool.update: everything moves, what is past the exit is released.
Ahead(v) == [v EXCEPT !.z = @ + Speed[v.lane] * dt]

Moved(k) ==
  LET all == [i \in DOMAIN pool[k] |-> Ahead(pool[k][i])]
  IN  Retained(all, {i \in DOMAIN all : all[i].z <= EXIT})

\* The labels of convoys that are gone are released.
LabelsLeft == labeled \cap UNION {{Name(v) : v \in ToSet(Moved(k))} : k \in Kinds}

Move ==
  /\ frame = "flush" /\ toFlush = << >>
  /\ frame' = "none"
  /\ dt' = 0
  /\ pool' = [k \in Kinds |-> Moved(k)]
  /\ labeled' = LabelsLeft
  /\ UNCHANGED <<queue, todo, toFlush, tails, lastSub, tailTaken, pendingAgg>>

FrameStep == ScheduleNext \/ BeginFlush \/ FlushNext \/ Move

\* clear
Clear ==
  /\ frame = "none"
  /\ queue' = << >>
  /\ pool' = [k \in Kinds |-> << >>]
  /\ tails' = [lane \in Lanes |-> [sub \in Files |-> NoVehicle]]
  /\ lastSub' = [lane \in Lanes |-> 1]
  /\ pendingAgg' = << >>
  /\ labeled' = {}
  /\ tailTaken' = FALSE
  /\ UNCHANGED <<frame, dt, todo, toFlush>>

-----------------------------------------------------------------------------
(* Properties.                                                              *)

Names == {Name(v) : v \in OnRoad}

\* Besides the types: no pool exceeds its size, no label stays behind, and no
\* lane gathers two bursts.
TrafficTypeOK ==
  /\ frame \in {"none", "schedule", "flush"} /\ dt \in 0 .. FRAME
  /\ \A k \in Kinds : Len(pool[k]) <= Cap[k]
  /\ \A v \in OnRoad : v.lane \in Lanes /\ v.sub \in Files \cup {Airborne} /\ v.z \in 0 .. EXIT
  /\ lastSub \in [Lanes -> Files]
  /\ \A i, j \in DOMAIN pendingAgg : pendingAgg[i].lane = pendingAgg[j].lane => i = j
  /\ Cardinality(labeled) <= LABELS
  /\ frame = "none" => labeled \subseteq Names
  /\ tailTaken \in BOOLEAN

\* Vehicles of one file keep their clearance, from the gate to the exit
\* (traffic.js, "Collision avoidance is purely positional, at admission time"),
\* unless an exhausted pool took the vehicle that admission looks at.
NoOverlap ==
  ~tailTaken =>
    \A v, w \in OnRoad :
      v # w /\ v.lane = w.lane /\ v.sub = w.sub /\ v.sub # Airborne /\ v.z >= w.z
        => 2 * (v.z - w.z) >= v.len + w.len + 2 * GAP

\* Ids of packets in the order they were received.
Before(A, B) == \A a \in A, b \in B : a < b
Rising(a) == \A i, j \in DOMAIN a : i < j => a[i] < a[j]

Ids(s) == {s[i].id : i \in DOMAIN s}
InTurn(s) == \A i, j \in DOMAIN s : i < j => s[i].id < s[j].id

Bursts == ToSet(pendingAgg)
ToCome == Ids(todo) \cup Ids(queue)

\* Part of Road!Timeline: in a lane whoever is further came earlier, nobody rides
\* twice, what gathers came later than what drives, and what is scheduled next
\* or queued came later still.
InOrder ==
  /\ InTurn(todo) /\ InTurn(queue) /\ Before(Ids(todo), Ids(queue))
  /\ \A a \in Bursts : Rising(a.pkts) /\ Before(ToSet(a.pkts), ToCome)
  /\ \A v \in OnRoad :
       /\ Rising(v.pkts) /\ Before(ToSet(v.pkts), ToCome)
       /\ \A a \in Bursts : a.lane = v.lane => Before(ToSet(v.pkts), ToSet(a.pkts))
  /\ \A v, w \in OnRoad : v.lane = w.lane =>
       /\ v.z > w.z => Before(ToSet(v.pkts), ToSet(w.pkts))
       /\ v # w => Before(ToSet(v.pkts), ToSet(w.pkts)) \/ Before(ToSet(w.pkts), ToSet(v.pkts))

Gathers(lane) == PendingIn(lane) # {}
=============================================================================
