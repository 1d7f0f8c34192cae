------------------------------ MODULE Playback -------------------------------
(***************************************************************************)
(* The timeline of a loaded capture (frontend/src/playback.js): a virtual   *)
(* clock that plays at some speed, a cursor into the packets, and seeking.  *)
(* What main.js does around it is in Road.tla.                              *)
(***************************************************************************)
EXTENDS Integers, Sequences

CONSTANTS
  Captures,  \* what may be loaded: packets in the order of their timestamps
  RATE       \* bound: units of the capture's time played in one of the page's

\* packets.py, parse_pcap_path: no capture is empty, and they are sorted.
ASSUME PlaybackAssumption ==
  /\ RATE \in Nat \ {0}
  /\ \A c \in Captures :
       /\ Len(c) > 0
       /\ \A n \in DOMAIN c : c[n].ts \in Nat
       /\ \A m, n \in DOMAIN c : m < n => c[m].ts <= c[n].ts

VARIABLES
  packets,  \* the capture, empty until one is loaded
  clock,    \* t: where the playback is
  cursor,   \* i: packets handed out or skipped
  playing

playbackVars == <<packets, clock, cursor, playing>>

Loaded == packets # << >>
End == packets[Len(packets)].ts
AtEnd == clock >= End

PlaybackInit == packets = << >> /\ clock = 0 /\ cursor = 0 /\ playing = FALSE

\* load, and loadTimeline's play.
Load(c) ==
  /\ packets' = c
  /\ clock' = c[1].ts
  /\ cursor' = 0
  /\ playing' = TRUE

\* seek's binary search: how many packets are before the time sought.  At most
\* as many rounds as packets.
Narrowed(x, time) ==
  LET mid == (x.lo + x.hi) \div 2 IN
  IF x.lo >= x.hi THEN x
  ELSE IF packets[mid + 1].ts < time THEN [x EXCEPT !.lo = mid + 1] ELSE [x EXCEPT !.hi = mid]

Search(time) ==
  LET round[n \in 0 .. Len(packets)] ==
        IF n = 0 THEN [lo |-> 0, hi |-> Len(packets)] ELSE Narrowed(round[n - 1], time)
  IN  round[Len(packets)].lo

Clamped(time) ==
  IF time < packets[1].ts THEN packets[1].ts ELSE IF time > End THEN End ELSE time

\* seek
SeekTo(time) ==
  /\ clock' = Clamped(time)
  /\ cursor' = Search(Clamped(time))
  /\ UNCHANGED packets

\* tick's loop: the cursor stops at the first packet that is later.
CrossedBy(time) ==
  LET Stops == {n \in cursor .. Len(packets) : n = Len(packets) \/ packets[n + 1].ts > time}
  IN  CHOOSE n \in Stops : \A m \in Stops : n <= m

\* tick, d units of time after the last.
PlaybackTick(d) ==
  IF playing /\ Loaded
  THEN \E rate \in 1 .. RATE :
         LET time == clock + d * rate IN
         /\ cursor' = CrossedBy(time)
         /\ clock' = IF time >= End THEN End ELSE time
         /\ playing' = (time < End)
         /\ UNCHANGED packets
  ELSE UNCHANGED playbackVars

-----------------------------------------------------------------------------
\* Part of Road!Timeline: the cursor is exactly where the clock is: whatever was played, paused, sought
\* or loaded, no packet before the clock is still to come, and none after it was
\* handed out or skipped.
CursorExact ==
  \A n \in DOMAIN packets :
    /\ packets[n].ts < clock => n <= cursor
    /\ n <= cursor => packets[n].ts <= clock
=============================================================================
