-------------------------------- MODULE Road ---------------------------------
(***************************************************************************)
(* The road as main.js drives it: live batches in live mode, the playback   *)
(* of a loaded capture in pcap mode, and everything that resets the world.  *)
(***************************************************************************)
EXTENDS Traffic, Playback

CONSTANT MaxPackets  \* bound: packets of live captures

\* laneFor and vehicleTypeFor have an answer for every packet; convoys are made of
\* several.
ASSUME RoadAssumption ==
  /\ MaxPackets \in Nat
  /\ \A c \in Captures : c \in Seq([ts : Nat, lane : Lanes, kind : Kinds \ {Convoy}])

VARIABLES
  mode,     \* live or pcap
  received  \* packets of live captures so far

vars == <<trafficVars, playbackVars, mode, received>>

Init == TrafficInit /\ PlaybackInit /\ mode = "live" /\ received = 0

\* onPackets; a batch is one packet after the other.
OnPackets(lane, kind) ==
  /\ mode = "live" /\ received < MaxPackets
  /\ Ingest([id |-> received + 1, lane |-> lane, kind |-> kind])
  /\ received' = received + 1
  /\ UNCHANGED <<playbackVars, mode>>

\* The playback's packets, named by their place.
Packet(n) == [id |-> n, lane |-> packets[n].lane, kind |-> packets[n].kind]

CrossedPackets == [k \in 1 .. cursor' - cursor |-> Packet(cursor + k)]

\* step: the playback's packets, then update().
Step(d, n) ==
  /\ IF mode = "pcap" /\ Loaded THEN PlaybackTick(d) ELSE UNCHANGED playbackVars
  /\ BeginFrame(d, n, CrossedPackets)
  /\ UNCHANGED <<mode, received>>

UpdateGoesOn == FrameStep /\ UNCHANGED <<playbackVars, mode, received>>

\* onModeSwitch
SwitchMode ==
  /\ mode' = IF mode = "live" THEN "pcap" ELSE "live"
  /\ playing' = FALSE
  /\ Clear
  /\ UNCHANGED <<packets, clock, cursor, received>>

\* onCaptureToggle
StartCapture ==
  /\ mode = "live"
  /\ Clear
  /\ UNCHANGED <<playbackVars, mode, received>>

\* loadTimeline, whenever the answer comes, in live mode too.
LoadTimeline(c) ==
  /\ Load(c)
  /\ Clear
  /\ UNCHANGED <<mode, received>>

\* onScrub, onSeekRelative
Scrub(time) ==
  /\ Loaded
  /\ SeekTo(time)
  /\ Clear
  /\ UNCHANGED <<playing, mode, received>>

\* onPlayToggle: from the end it starts again.
PlayToggle ==
  /\ mode = "pcap" /\ Loaded
  /\ playing' = ~playing
  /\ IF AtEnd THEN SeekTo(packets[1].ts) /\ Clear
     ELSE UNCHANGED <<packets, clock, cursor, trafficVars>>
  /\ frame = "none"
  /\ UNCHANGED <<mode, received>>

Next ==
  \/ \E lane \in Lanes, kind \in Kinds \ {Convoy} : OnPackets(lane, kind)
  \/ \E d \in 0 .. FRAME, n \in 0 .. Len(queue) : Step(d, n)
  \/ UpdateGoesOn
  \/ SwitchMode \/ StartCapture \/ PlayToggle
  \/ \E c \in Captures : LoadTimeline(c)
  \/ Loaded /\ \E time \in 0 .. End : Scrub(time)

Spec == Init /\ [][Next]_vars

\* Frames go on, and again and again time passes between them: the road is not
\* frozen for ever.
Fairness ==
  /\ WF_vars(UpdateGoesOn)
  /\ SF_vars(\E d \in 1 .. FRAME, n \in 0 .. Len(queue) : Step(d, n))

FairSpec == Spec /\ Fairness

TypeOK ==
  /\ TrafficTypeOK
  /\ mode \in {"live", "pcap"} /\ playing \in BOOLEAN
  /\ cursor \in 0 .. Len(packets)
  /\ received \in 0 .. MaxPackets

\* The road is a timeline (traffic.js, "overtaking cannot happen"): vehicles,
\* bursts and queue of a lane are in the order of their packets, without a packet
\* shown twice, and no seek, pause or reload makes the playback skip or repeat one.
\* (Types, pools and labels go with it.)
Timeline == TypeOK /\ InOrder /\ CursorExact

\* A burst leaves in the end, however many packets join it (traffic.js,
\* "Pending bursts flush as soon as their lane has entry room again").
BurstsLeave == \A lane \in Lanes : Gathers(lane) ~> ~Gathers(lane)
=============================================================================
