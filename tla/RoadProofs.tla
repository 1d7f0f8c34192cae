---------------------------- MODULE RoadProofs -----------------------------
(***************************************************************************)
(* The road for any lanes, speeds, lengths, pools and captures: it is a     *)
(* timeline, and vehicles of a file keep their clearance.                   *)
(*                                                                          *)
(* Admission looks at one vehicle, the last that entered the file.  That is *)
(* enough because none of the file is behind it (Behind), because a lane    *)
(* moves as one, and because only an exhausted pool takes it away.  The     *)
(* order comes from where a packet may be: to come, in a burst of its lane, *)
(* on the road; it only goes on, with nothing of its lane in front of it    *)
(* that is later (Lined, Gathered, Driven).                                 *)
(***************************************************************************)
EXTENDS Road, FilterProofs

(* The playback.                                                            *)

LEMMA CaptureIs ==
  ASSUME NEW c \in Captures
  PROVE  /\ Len(c) \in Nat \ {0} /\ DOMAIN c = 1 .. Len(c) /\ c # << >>
         /\ \A n \in 1 .. Len(c) : c[n].ts \in Nat /\ c[n].lane \in Lanes /\ c[n].kind \in Kinds \ {Convoy}
         /\ \A m, n \in 1 .. Len(c) : m < n => c[m].ts <= c[n].ts
  <1>1. c \in Seq([ts : Nat, lane : Lanes, kind : Kinds \ {Convoy}])
    BY RoadAssumption
  <1>2. Len(c) \in Nat /\ DOMAIN c = 1 .. Len(c) /\ Len(c) > 0
    BY <1>1, PlaybackAssumption
  <1>3. \A n \in 1 .. Len(c) : c[n] \in [ts : Nat, lane : Lanes, kind : Kinds \ {Convoy}]
    <2> DEFINE S == [ts : Nat, lane : Lanes, kind : Kinds \ {Convoy}]
    <2>1. c \in Seq(S)
      BY <1>1
    <2> HIDE DEF S
    <2>2. \A n \in 1 .. Len(c) : c[n] \in S
      BY <1>2, <2>1
    <2> QED
      BY <2>2 DEF S
  <1>4. \A m, n \in 1 .. Len(c) : m < n => c[m].ts <= c[n].ts
    BY <1>2, PlaybackAssumption
  <1>5. c # << >>
    BY <1>2
  <1> QED
    BY <1>2, <1>3, <1>4, <1>5

\* The rounds of a search up to round n.
Rounds(round, time, n) ==
  round = [k \in 0 .. n |-> IF k = 0 THEN [lo |-> 0, hi |-> Len(packets)]
                            ELSE Narrowed(round[k - 1], time)]

LEMMA RoundsExist ==
  ASSUME NEW time, NEW n \in Nat
  PROVE  \E round : Rounds(round, time, n)
  <1> DEFINE Fails == {k \in Nat : ~ \E round : Rounds(round, time, k)}
  <1> SUFFICES ASSUME Fails # {} PROVE FALSE
    OBVIOUS
  <1>1. PICK k \in Fails : \A j \in Fails : k <= j
    BY Smallest
  <1>2. k # 0
    <2>1. Rounds([i \in 0 .. 0 |-> [lo |-> 0, hi |-> Len(packets)]], time, 0)
      BY DEF Rounds
    <2> QED
      BY <2>1
  <1>3. k - 1 \in Nat /\ k - 1 \notin Fails
    BY <1>1, <1>2
  <1>4. PICK f : Rounds(f, time, k - 1)
    BY <1>3
  <1> DEFINE last == Narrowed(f[k - 1], time)
             g == [i \in 0 .. k |-> IF i = k THEN last ELSE f[i]]
  <1>5. Rounds(g, time, k)
    <2>1. g[0] = [lo |-> 0, hi |-> Len(packets)] /\ g[k] = last /\ g[k - 1] = f[k - 1]
      BY <1>2, <1>3, <1>4 DEF Rounds
    <2>2. ASSUME NEW i \in 0 .. k, i # 0, i # k
          PROVE  g[i] = f[i] /\ g[i - 1] = f[i - 1] /\ f[i] = Narrowed(f[i - 1], time)
      <3>1. i \in 0 .. k - 1 /\ i - 1 \in 0 .. k - 1 /\ i - 1 \in 0 .. k /\ i - 1 # k
        BY <1>3, <2>2
      <3>2. f[i] = Narrowed(f[i - 1], time)
        BY <1>4, <2>2, <3>1 DEF Rounds
      <3> HIDE DEF last
      <3> QED
        BY <2>2, <3>1, <3>2
    <2> HIDE DEF last
    <2>3. g = [i \in 0 .. k |-> g[i]]
      OBVIOUS
    <2> HIDE DEF g
    <2>4. ASSUME NEW i \in 0 .. k
          PROVE  g[i] = IF i = 0 THEN [lo |-> 0, hi |-> Len(packets)] ELSE Narrowed(g[i - 1], time)
      BY <1>2, <2>1, <2>2 DEF last
    <2> QED
      BY <2>3, <2>4 DEF Rounds
  <1> QED
    BY <1>1, <1>5

\* What is before the interval that is left is earlier than the time sought, and
\* what is behind it is not.
Sound(x, time) ==
  /\ x.lo \in 0 .. Len(packets) /\ x.hi \in 0 .. Len(packets) /\ x.lo <= x.hi
  /\ \A m \in 1 .. x.lo : packets[m].ts < time
  /\ \A m \in x.hi + 1 .. Len(packets) : ~(packets[m].ts < time)

LEMMA NarrowedSound ==
  ASSUME packets \in Captures, NEW time \in Nat, NEW x \in [lo : Nat, hi : Nat], Sound(x, time)
  PROVE  LET y == Narrowed(x, time)
         IN  /\ y \in [lo : Nat, hi : Nat] /\ Sound(y, time)
             /\ x.lo >= x.hi => y = x
             /\ x.lo < x.hi => y.hi - y.lo < x.hi - x.lo
  <1> DEFINE mid == (x.lo + x.hi) \div 2
             len == Len(packets)
  <1>1. /\ len \in Nat /\ \A n \in 1 .. len : packets[n].ts \in Nat
        /\ \A m, n \in 1 .. len : m < n => packets[m].ts <= packets[n].ts
    BY CaptureIs
  <1>2. x.lo \in Nat /\ x.hi \in Nat /\ x.hi <= len /\ x.lo <= x.hi
    BY DEF Sound
  <1>3. CASE x.lo >= x.hi
    <2>1. Narrowed(x, time) = x
      BY <1>3 DEF Narrowed
    <2> QED
      BY <1>2, <1>3, <2>1
  <1>4. CASE x.lo < x.hi
    <2>1. mid \in Nat /\ x.lo <= mid /\ mid < x.hi /\ mid + 1 \in 1 .. len
      BY <1>1, <1>2, <1>4
    <2>2. ~(x.lo >= x.hi)
      BY <1>2, <1>4
    <2> HIDE DEF mid
    <2>3. CASE packets[mid + 1].ts < time
      <3> DEFINE y == [x EXCEPT !.lo = mid + 1]
      <3>1. Narrowed(x, time) = y
        BY <2>2, <2>3 DEF Narrowed, mid
      <3>2. y \in [lo : Nat, hi : Nat] /\ y.lo = mid + 1 /\ y.hi = x.hi
        BY <2>1
      <3> HIDE DEF y
      <3>3. ASSUME NEW m \in 1 .. mid + 1 PROVE packets[m].ts < time
        <4>1. m \in 1 .. len /\ (m = mid + 1 \/ m < mid + 1)
          BY <1>1, <2>1
        <4> QED
          BY <1>1, <2>1, <2>3, <4>1
      <3>4. Sound(y, time)
        BY <1>1, <1>2, <2>1, <3>2, <3>3 DEF Sound
      <3> QED
        BY <1>2, <1>4, <2>1, <3>1, <3>2, <3>4
    <2>4. CASE ~(packets[mid + 1].ts < time)
      <3> DEFINE y == [x EXCEPT !.hi = mid]
      <3>1. Narrowed(x, time) = y
        BY <2>2, <2>4 DEF Narrowed, mid
      <3>2. y \in [lo : Nat, hi : Nat] /\ y.hi = mid /\ y.lo = x.lo
        BY <2>1
      <3> HIDE DEF y
      <3>3. ASSUME NEW m \in mid + 1 .. len PROVE ~(packets[m].ts < time)
        <4>1. m \in 1 .. len /\ (m = mid + 1 \/ mid + 1 < m)
          BY <1>1, <2>1
        <4> QED
          BY <1>1, <2>1, <2>4, <4>1
      <3>4. Sound(y, time)
        BY <1>1, <1>2, <2>1, <3>2, <3>3 DEF Sound
      <3> QED
        BY <1>2, <1>4, <2>1, <3>1, <3>2, <3>4
    <2> QED
      BY <2>3, <2>4
  <1> QED
    BY <1>2, <1>3, <1>4

\* The search finds the first packet that is not earlier.
LEMMA SearchIs ==
  ASSUME packets \in Captures, NEW time \in Nat
  PROVE  /\ Search(time) \in 0 .. Len(packets)
         /\ \A m \in 1 .. Len(packets) : m <= Search(time) <=> packets[m].ts < time
  <1> DEFINE len == Len(packets)
             round == CHOOSE f : Rounds(f, time, len)
  <1>1. len \in Nat /\ \A n \in 1 .. len : packets[n].ts \in Nat
    BY CaptureIs
  <1>2. Rounds(round, time, len)
    BY <1>1, RoundsExist
  <1>3. Search(time) = round[len].lo
    BY DEF Search, Rounds
  <1> HIDE DEF round, len
  <1> DEFINE Right(k) == /\ round[k] \in [lo : Nat, hi : Nat] /\ Sound(round[k], time)
                         /\ round[k].hi - round[k].lo <= len - k
             Fails == {k \in 0 .. len : ~Right(k)}
  <1>4. ASSUME Fails # {} PROVE FALSE
    <2>0. Fails \in SUBSET Nat
      BY <1>1
    <2>1. PICK k \in Fails : \A j \in Fails : k <= j
      BY <1>4, <2>0, Smallest
    <2>2. k # 0
      <3>1. round[0] = [lo |-> 0, hi |-> len]
        BY <1>1, <1>2 DEF Rounds, len
      <3>2. Right(0)
        BY <1>1, <3>1 DEF Sound, len
      <3> QED
        BY <3>2
    <2>3. k \in 0 .. len /\ k - 1 \in 0 .. len /\ k - 1 \notin Fails
      BY <1>1, <2>1, <2>2
    <2>4. Right(k - 1)
      BY <2>3
    <2>5. round[k] = Narrowed(round[k - 1], time)
      BY <1>2, <2>2, <2>3 DEF Rounds
    <2> DEFINE x == round[k - 1]
               y == round[k]
    <2>6. x \in [lo : Nat, hi : Nat] /\ Sound(x, time) /\ x.hi - x.lo <= len - (k - 1) /\ y = Narrowed(x, time)
      BY <2>4, <2>5
    <2> HIDE DEF x, y
    <2>7. /\ y \in [lo : Nat, hi : Nat] /\ Sound(y, time)
          /\ x.lo >= x.hi => y = x
          /\ x.lo < x.hi => y.hi - y.lo < x.hi - x.lo
      BY <2>6, NarrowedSound
    <2>8. y.hi - y.lo <= len - k
      <3>1. x.lo \in Nat /\ x.hi \in Nat /\ y.lo \in Nat /\ y.hi \in Nat /\ x.lo <= x.hi /\ k \in Nat /\ k <= len
        BY <1>1, <2>3, <2>6, <2>7 DEF Sound
      <3>2. CASE x.lo >= x.hi
        BY <1>1, <2>7, <3>1, <3>2
      <3>3. CASE x.lo < x.hi
        BY <1>1, <2>6, <2>7, <3>1, <3>3
      <3> QED
        BY <3>1, <3>2, <3>3
    <2> QED
      BY <2>1, <2>7, <2>8 DEF y
  <1>5. Right(len)
    BY <1>1, <1>4
  <1> DEFINE z == round[len]
  <1>6. z.lo \in Nat /\ z.hi \in Nat /\ z.lo <= z.hi /\ z.hi - z.lo <= 0 /\ z.hi <= len /\ Sound(z, time)
    BY <1>1, <1>5 DEF Sound, len
  <1> HIDE DEF z
  <1>7. z.lo = z.hi /\ z.lo \in 0 .. len
    BY <1>1, <1>6
  <1>8. ASSUME NEW m \in 1 .. len PROVE m <= z.lo <=> packets[m].ts < time
    <2>1. m \in 1 .. z.lo \/ m \in z.hi + 1 .. len
      BY <1>1, <1>7
    <2> QED
      BY <1>1, <1>6, <1>7, <2>1 DEF Sound, len
  <1> QED
    BY <1>3, <1>7, <1>8 DEF z, len

PlaybackInv ==
  /\ packets = << >> \/ packets \in Captures
  /\ clock \in Nat /\ cursor \in 0 .. Len(packets) /\ playing \in BOOLEAN
  /\ CursorExact

LEMMA PlaybackInitInv == PlaybackInit => PlaybackInv
  <1> SUFFICES ASSUME PlaybackInit PROVE PlaybackInv
    OBVIOUS
  <1>1. packets = << >> /\ Len(packets) = 0 /\ DOMAIN packets = {} /\ clock = 0 /\ cursor = 0 /\ playing = FALSE
    BY DEF PlaybackInit
  <1>2. CursorExact
    BY <1>1 DEF CursorExact
  <1>3. cursor \in 0 .. Len(packets)
    BY <1>1
  <1> QED
    BY <1>1, <1>2, <1>3 DEF PlaybackInv

LEMMA LoadInv ==
  ASSUME NEW c \in Captures, Load(c)
  PROVE  PlaybackInv'
  <1>1. /\ Len(c) \in Nat \ {0} /\ DOMAIN c = 1 .. Len(c)
        /\ \A n \in 1 .. Len(c) : c[n].ts \in Nat
        /\ \A m, n \in 1 .. Len(c) : m < n => c[m].ts <= c[n].ts
    BY CaptureIs
  <1>2. packets' = c /\ clock' = c[1].ts /\ cursor' = 0 /\ playing' = TRUE
    BY DEF Load
  <1>3. ASSUME NEW n \in 1 .. Len(c) PROVE ~(c[n].ts < c[1].ts) /\ ~(n <= 0)
    <2>1. 1 \in 1 .. Len(c) /\ (n = 1 \/ 1 < n)
      BY <1>1
    <2>2. c[1].ts <= c[n].ts /\ c[1].ts \in Nat /\ c[n].ts \in Nat
      BY <1>1, <2>1
    <2> QED
      BY <2>2
  <1>4. clock' \in Nat /\ cursor' \in 0 .. Len(packets')
    BY <1>1, <1>2
  <1>5. CursorExact'
    BY <1>1, <1>2, <1>3 DEF CursorExact
  <1> QED
    BY <1>2, <1>4, <1>5 DEF PlaybackInv

\* The capture that is loaded, its last packet's time, and the times between.
LEMMA LoadedIs ==
  ASSUME PlaybackInv, Loaded
  PROVE  /\ packets \in Captures /\ Len(packets) \in Nat \ {0} /\ DOMAIN packets = 1 .. Len(packets)
         /\ \A n \in 1 .. Len(packets) : packets[n].ts \in Nat /\ packets[n].ts <= End
         /\ \A m, n \in 1 .. Len(packets) : m < n => packets[m].ts <= packets[n].ts
         /\ End \in Nat
         /\ \A time \in Nat : Clamped(time) \in Nat
  <1>1. packets \in Captures
    BY DEF PlaybackInv, Loaded
  <1>2. /\ Len(packets) \in Nat \ {0} /\ DOMAIN packets = 1 .. Len(packets)
        /\ \A n \in 1 .. Len(packets) : packets[n].ts \in Nat
        /\ \A m, n \in 1 .. Len(packets) : m < n => packets[m].ts <= packets[n].ts
    BY <1>1, CaptureIs
  <1>3. 1 \in 1 .. Len(packets) /\ Len(packets) \in 1 .. Len(packets)
    BY <1>2
  <1>4. End \in Nat /\ packets[1].ts \in Nat
    BY <1>2, <1>3 DEF End
  <1>5. ASSUME NEW n \in 1 .. Len(packets) PROVE packets[n].ts <= End
    <2>1. CASE n < Len(packets)
      BY <1>2, <1>3, <2>1 DEF End
    <2>2. CASE n = Len(packets)
      BY <1>2, <1>3, <2>2 DEF End
    <2> QED
      <3> DEFINE len == Len(packets)
      <3>1. len \in Nat /\ n \in 1 .. len
        BY <1>2
      <3> HIDE DEF len
      <3>2. n < len \/ n = len
        BY <3>1
      <3> QED
        BY <2>1, <2>2, <3>2 DEF len
  <1>6. \A time \in Nat : Clamped(time) \in Nat
    BY <1>4 DEF Clamped
  <1> QED
    BY <1>1, <1>2, <1>4, <1>5, <1>6

LEMMA SeekInv ==
  ASSUME PlaybackInv, Loaded, NEW time \in Nat, SeekTo(time), playing' \in BOOLEAN
  PROVE  PlaybackInv'
  <1> DEFINE t == Clamped(time)
  <1>1. /\ packets \in Captures /\ Len(packets) \in Nat /\ DOMAIN packets = 1 .. Len(packets)
        /\ \A n \in 1 .. Len(packets) : packets[n].ts \in Nat
        /\ t \in Nat
    BY LoadedIs
  <1>2. clock' = t /\ cursor' = Search(t) /\ packets' = packets
    BY DEF SeekTo
  <1> HIDE DEF t
  <1>3. /\ Search(t) \in 0 .. Len(packets)
        /\ \A m \in 1 .. Len(packets) : m <= Search(t) <=> packets[m].ts < t
    BY <1>1, SearchIs
  <1>4. CursorExact'
    BY <1>1, <1>2, <1>3 DEF CursorExact
  <1> QED
    BY <1>1, <1>2, <1>3, <1>4 DEF PlaybackInv

LEMMA TickInv ==
  ASSUME PlaybackInv, NEW d \in Nat, PlaybackTick(d)
  PROVE  PlaybackInv' /\ packets' = packets /\ cursor <= cursor'
  <1>0. cursor \in Nat /\ Len(packets) \in Nat /\ cursor <= Len(packets)
    <2>1. packets = << >> \/ Len(packets) \in Nat
      BY CaptureIs DEF PlaybackInv
    <2> QED
      BY <2>1 DEF PlaybackInv
  <1>1. CASE ~(playing /\ Loaded)
    <2>1. packets' = packets /\ clock' = clock /\ cursor' = cursor /\ playing' = playing
      BY <1>1 DEF PlaybackTick, playbackVars
    <2> QED
      BY <1>0, <2>1 DEF PlaybackInv, CursorExact
  <1>2. CASE playing /\ Loaded
    <2>1. PICK rate \in 1 .. RATE : LET time == clock + d * rate IN
            /\ cursor' = CrossedBy(time) /\ clock' = IF time >= End THEN End ELSE time
            /\ playing' = (time < End) /\ packets' = packets
      BY <1>2 DEF PlaybackTick
    <2> DEFINE time == clock + d * rate
               len == Len(packets)
               Stops == {n \in cursor .. len : n = len \/ packets[n + 1].ts > time}
    <2>2. clock \in Nat /\ time \in Nat /\ clock <= time
      <3>1. rate \in Nat /\ clock \in Nat
        BY PlaybackAssumption DEF PlaybackInv
      <3>2. d * rate \in Nat
        BY <3>1
      <3> QED
        BY <3>1, <3>2
    <2>3. cursor' = CrossedBy(time) /\ clock' = (IF time >= End THEN End ELSE time) /\ playing' \in BOOLEAN /\ packets' = packets
      BY <2>1
    <2> HIDE DEF time
    <2>4. /\ len \in Nat /\ DOMAIN packets = 1 .. len /\ packets \in Captures
          /\ \A n \in 1 .. len : packets[n].ts \in Nat /\ packets[n].ts <= End
          /\ \A m, n \in 1 .. len : m < n => packets[m].ts <= packets[n].ts
          /\ End \in Nat
      BY <1>2, LoadedIs
    <2>5. CrossedBy(time) = CHOOSE n \in Stops : \A m \in Stops : n <= m
      BY DEF CrossedBy
    <2>6. cursor' \in Stops /\ \A m \in Stops : cursor' <= m
      <3>1. Stops \in SUBSET Nat /\ len \in Stops
        BY <1>0, <2>4
      <3> HIDE DEF Stops
      <3>2. \E n \in Stops : \A m \in Stops : n <= m
        BY <3>1, Smallest
      <3> QED
        BY <2>3, <2>5, <3>2
    <2>7. cursor' \in cursor .. len /\ (cursor' = len \/ packets[cursor' + 1].ts > time)
      BY <2>6
    <2>8. clock' \in Nat /\ clock' <= time /\ clock' <= End /\ (clock' = End \/ clock' = time)
      BY <2>2, <2>3, <2>4
    <2>9. ASSUME NEW n \in 1 .. len, packets[n].ts < clock', ~(n <= cursor') PROVE FALSE
      <3>0. cursor' \in Nat /\ len \in Nat /\ n \in Nat /\ n <= len /\ cursor' < n
        BY <1>0, <2>4, <2>7, <2>9
      <3>1. cursor' + 1 \in 1 .. len /\ (cursor' + 1 = n \/ cursor' + 1 < n) /\ cursor' # len
        <4>1. \A c, k, m \in Nat : m <= k /\ c < m => c + 1 \in 1 .. k /\ (c + 1 = m \/ c + 1 < m) /\ c # k
          OBVIOUS
        <4> HIDE DEF len, Stops
        <4> QED
          BY <3>0, <4>1
      <3>2. packets[cursor' + 1].ts <= packets[n].ts /\ packets[cursor' + 1].ts \in Nat /\ packets[n].ts \in Nat
        BY <2>4, <3>1
      <3> QED
        BY <2>2, <2>7, <2>8, <2>9, <3>1, <3>2
    <2>10. ASSUME NEW n \in 1 .. len, n <= cursor' PROVE packets[n].ts <= clock'
      <3>0. packets[n].ts \in Nat /\ packets[n].ts <= End
        BY <2>4
      <3>1. CASE clock' = End
        BY <3>0, <3>1
      <3>2. CASE clock' = time /\ n <= cursor
        <4>1. packets[n].ts <= clock
          BY <2>4, <3>2 DEF PlaybackInv, CursorExact
        <4> QED
          BY <2>2, <3>0, <3>2, <4>1
      <3>3. CASE clock' = time /\ ~(n <= cursor)
        <4>0. cursor' \in Nat /\ cursor' <= len /\ len \in Nat /\ n \in Nat /\ n <= cursor' /\ cursor < n /\ cursor \in Nat
          BY <1>0, <2>4, <2>7, <2>10, <3>3
        <4>1. n - 1 \in cursor .. len /\ n - 1 < cursor' /\ n - 1 # len /\ (n - 1) + 1 = n /\ ~(cursor' <= n - 1)
          BY <4>0
        <4>2. n - 1 \notin Stops
          BY <2>6, <4>1, Zenon
        <4>3. ~(packets[n].ts > time)
          BY <4>1, <4>2
        <4> QED
          BY <2>2, <3>0, <3>3, <4>3
      <3> QED
        BY <2>8, <3>1, <3>2, <3>3
    <2>11. CursorExact'
      BY <2>3, <2>4, <2>9, <2>10 DEF CursorExact
    <2>12. cursor' \in 0 .. len /\ cursor <= cursor'
      BY <1>0, <2>4, <2>7
    <2> QED
      BY <2>3, <2>4, <2>8, <2>11, <2>12 DEF PlaybackInv
  <1> QED
    BY <1>1, <1>2

-----------------------------------------------------------------------------
(* The road: types, and the clearance of its vehicles.                      *)

\* The packets of a vehicle or a burst.
Group == Seq(Nat) \ {<< >>}

Message == [id : Nat, lane : Lanes, kind : Kinds \ {Convoy}]
Burst == [lane : Lanes, kind : Kinds \ {Convoy}, pkts : Group]
Vehicle == [lane : Lanes, sub : {0, 1, 2}, z : Nat, len : Nat \ {0}, pkts : Group]

RoadTypes ==
  /\ pool \in [Kinds -> Seq(Vehicle)]
  /\ tails \in [Lanes -> [Files -> Nat]]
  /\ lastSub \in [Lanes -> Files]
  /\ tailTaken \in BOOLEAN
  /\ \A k \in Kinds : Len(pool[k]) <= Cap[k]
  /\ \A v \in OnRoad : v.z <= EXIT

\* The vehicle admission looks at is there, and none of its file is behind it.
Behind ==
  ~tailTaken =>
    \A v \in OnRoad : v.sub # Airborne =>
      /\ TailOf(v.lane, v.sub) # {}
      /\ \A t \in TailOf(v.lane, v.sub) : t.z <= v.z

Clearance == RoadTypes /\ Behind /\ NoOverlap

\* What is on the road is in a place of a pool.
LEMMA OnRoadIs ==
  ASSUME pool \in [Kinds -> Seq(Vehicle)]
  PROVE  /\ \A k \in Kinds : pool[k] \in Seq(Vehicle) /\ DOMAIN pool[k] = 1 .. Len(pool[k]) /\ Len(pool[k]) \in Nat
         /\ \A k \in Kinds : \A i \in 1 .. Len(pool[k]) : pool[k][i] \in OnRoad
         /\ \A v \in OnRoad : \E k \in Kinds : \E i \in 1 .. Len(pool[k]) : v = pool[k][i]
         /\ \A v \in OnRoad : v \in Vehicle
  <1> DEFINE V == Vehicle
  <1> HIDE DEF V
  <1>1. \A k \in Kinds : pool[k] \in Seq(V) /\ DOMAIN pool[k] = 1 .. Len(pool[k]) /\ Len(pool[k]) \in Nat
    BY DEF V
  <1>2. \A k \in Kinds : \A i \in 1 .. Len(pool[k]) : pool[k][i] \in V
    BY <1>1
  <1>3. \A k \in Kinds : \A i \in 1 .. Len(pool[k]) : pool[k][i] \in OnRoad
    BY <1>1 DEF OnRoad, ToSet
  <1>4. \A v \in OnRoad : \E k \in Kinds : \E i \in 1 .. Len(pool[k]) : v = pool[k][i]
    BY <1>1 DEF OnRoad, ToSet
  <1>5. \A v \in OnRoad : v \in V
    BY <1>2, <1>4
  <1> QED
    BY <1>1, <1>3, <1>4, <1>5 DEF V

LEMMA VehicleIs ==
  ASSUME NEW v \in Vehicle
  PROVE  /\ v.lane \in Lanes /\ v.sub \in {0, 1, 2} /\ v.z \in Nat /\ v.len \in Nat \ {0}
         /\ v.pkts \in Seq(Nat) /\ v.pkts # << >> /\ Len(v.pkts) \in Nat \ {0} /\ DOMAIN v.pkts = 1 .. Len(v.pkts)
         /\ Name(v) \in Nat /\ Name(v) \in ToSet(v.pkts)
         /\ \A x \in ToSet(v.pkts) : x \in Nat
  <1>1. v.lane \in Lanes /\ v.sub \in {0, 1, 2} /\ v.z \in Nat /\ v.len \in Nat \ {0}
    BY DEF Vehicle
  <1>2. v.pkts \in Seq(Nat) /\ v.pkts # << >>
    BY DEF Vehicle, Group
  <1> DEFINE s == v.pkts
  <1>3. s \in Seq(Nat) /\ s # << >>
    BY <1>2
  <1> HIDE DEF s
  <1>4. Len(s) \in Nat \ {0} /\ DOMAIN s = 1 .. Len(s) /\ \A i \in 1 .. Len(s) : s[i] \in Nat
    BY <1>3
  <1>5. s[1] \in Nat /\ s[1] \in ToSet(s) /\ \A x \in ToSet(s) : x \in Nat
    BY <1>4 DEF ToSet
  <1> QED
    BY <1>1, <1>2, <1>4, <1>5 DEF s, Name

\* A vehicle enters: it is on the road, and the oldest of its pool may not be any
\* more.
LEMMA SpawnedIs ==
  ASSUME RoadTypes, NEW kind \in Kinds, NEW v \in Vehicle, pool' = Spawned(kind, v)
  PROVE  /\ pool' \in [Kinds -> Seq(Vehicle)]
         /\ \A k \in Kinds : Len(pool'[k]) <= Cap[k]
         /\ v \in OnRoad' /\ OnRoad' \subseteq OnRoad \cup {v}
         /\ \A w \in OnRoad : w \in OnRoad' \/ (Exhausted(kind) /\ w = Head(pool[kind]))
  <1> DEFINE V == Vehicle
             s == pool[kind]
             r == IF Exhausted(kind) THEN Tail(s) ELSE s
             n == Append(r, v)
  <1>1. /\ \A k \in Kinds : pool[k] \in Seq(Vehicle) /\ DOMAIN pool[k] = 1 .. Len(pool[k]) /\ Len(pool[k]) \in Nat
        /\ \A k \in Kinds : \A i \in 1 .. Len(pool[k]) : pool[k][i] \in OnRoad
        /\ \A w \in OnRoad : \E k \in Kinds : \E i \in 1 .. Len(pool[k]) : w = pool[k][i]
    BY OnRoadIs DEF RoadTypes
  <1>2. pool' = [pool EXCEPT ![kind] = n]
    BY DEF Spawned
  <1>3. s \in Seq(V) /\ v \in V /\ Cap[kind] \in Nat \ {0} /\ Len(s) \in Nat /\ Len(s) <= Cap[kind]
    BY <1>1, TrafficAssumption DEF RoadTypes
  <1>4. /\ r \in Seq(V) /\ Len(r) \in Nat /\ Len(r) + 1 <= Cap[kind] /\ DOMAIN r = 1 .. Len(r)
        /\ \A j \in 1 .. Len(r) : \E i \in 1 .. Len(s) : r[j] = s[i]
        /\ \A i \in 1 .. Len(s) : (\E j \in 1 .. Len(r) : r[j] = s[i]) \/ (Exhausted(kind) /\ s[i] = Head(s))
    <2> HIDE DEF V
    <2>1. CASE Exhausted(kind)
      <3>1. s # << >> /\ r = Tail(s)
        BY <1>3, <2>1 DEF Exhausted
      <3> HIDE DEF s, r
      <3>2. /\ r \in Seq(V) /\ Len(r) = Len(s) - 1 /\ DOMAIN r = 1 .. Len(s) - 1
            /\ Head(s) = s[1] /\ DOMAIN s = 1 .. Len(s) /\ Len(s) \in Nat \ {0}
            /\ \A i \in DOMAIN r : i + 1 \in DOMAIN s /\ r[i] = s[i + 1]
            /\ \A i \in DOMAIN s : i # 1 => i - 1 \in DOMAIN r /\ r[i - 1] = s[i]
        BY <1>3, <3>1, TailIs
      <3>3. \A j \in 1 .. Len(r) : \E i \in 1 .. Len(s) : r[j] = s[i]
        BY <3>2
      <3>4. ASSUME NEW i \in 1 .. Len(s) PROVE (\E j \in 1 .. Len(r) : r[j] = s[i]) \/ s[i] = Head(s)
        <4>1. CASE i = 1
          BY <3>2, <4>1
        <4>2. CASE i # 1
          <5>1. i - 1 \in 1 .. Len(r) /\ r[i - 1] = s[i]
            BY <3>2, <4>2
          <5> QED
            BY <5>1
        <4> QED
          BY <4>1, <4>2
      <3>5. Len(r) \in Nat /\ Len(r) + 1 <= Cap[kind]
        BY <1>3, <3>2
      <3> QED
        BY <2>1, <3>2, <3>3, <3>4, <3>5
    <2>2. CASE ~Exhausted(kind)
      <3>1. r = s /\ Len(s) < Cap[kind]
        BY <1>3, <2>2 DEF Exhausted
      <3> HIDE DEF s, r
      <3> QED
        BY <1>3, <3>1
    <2> QED
      BY <2>1, <2>2
  <1> HIDE DEF V, r
  <1>5. /\ n \in Seq(V) /\ Len(n) = Len(r) + 1 /\ DOMAIN n = 1 .. Len(r) + 1 /\ n[Len(r) + 1] = v
        /\ \A i \in DOMAIN r : i \in DOMAIN n /\ n[i] = r[i]
        /\ \A i \in DOMAIN n : i \in DOMAIN r \/ i = Len(r) + 1
    BY <1>3, <1>4, AppendIs
  <1> HIDE DEF n
  <1>6. pool' \in [Kinds -> Seq(V)]
    BY <1>2, <1>5 DEF RoadTypes, V
  <1>7. pool'[kind] = n /\ \A k \in Kinds : k # kind => pool'[k] = pool[k]
    BY <1>2 DEF RoadTypes
  <1>8. /\ \A k \in Kinds : DOMAIN pool'[k] = 1 .. Len(pool'[k])
        /\ \A k \in Kinds : \A i \in 1 .. Len(pool'[k]) : pool'[k][i] \in OnRoad'
        /\ \A w \in OnRoad' : \E k \in Kinds : \E i \in 1 .. Len(pool'[k]) : w = pool'[k][i]
    <2>1. \A k \in Kinds : DOMAIN pool'[k] = 1 .. Len(pool'[k])
      BY <1>6
    <2> QED
      BY <2>1 DEF OnRoad, ToSet
  <1>9. \A k \in Kinds : Len(pool'[k]) <= Cap[k]
    BY <1>4, <1>5, <1>7 DEF RoadTypes
  <1>10. v \in OnRoad'
    <2>1. Len(n) \in 1 .. Len(pool'[kind]) /\ pool'[kind][Len(n)] = v
      BY <1>4, <1>5, <1>7
    <2> QED
      BY <1>8, <2>1
  <1>11. ASSUME NEW w \in OnRoad' PROVE w \in OnRoad \/ w = v
    <2>1. PICK k \in Kinds : \E i \in 1 .. Len(pool'[k]) : w = pool'[k][i]
      BY <1>8
    <2>2. CASE k # kind
      BY <1>1, <1>7, <2>1, <2>2
    <2>3. CASE k = kind
      <3>1. PICK i \in 1 .. Len(n) : w = n[i]
        BY <1>7, <2>1, <2>3
      <3>2. CASE i = Len(r) + 1
        BY <1>5, <3>1, <3>2
      <3>3. CASE i \in 1 .. Len(r)
        <4>1. PICK j \in 1 .. Len(s) : r[i] = s[j]
          BY <1>4, <3>3
        <4> QED
          BY <1>1, <1>4, <1>5, <3>1, <3>3, <4>1
      <3> QED
        BY <1>4, <1>5, <3>2, <3>3
    <2> QED
      BY <2>2, <2>3
  <1>12. ASSUME NEW w \in OnRoad PROVE w \in OnRoad' \/ (Exhausted(kind) /\ w = Head(pool[kind]))
    <2>1. PICK k \in Kinds : \E i \in 1 .. Len(pool[k]) : w = pool[k][i]
      BY <1>1
    <2>2. CASE k # kind
      BY <1>7, <1>8, <2>1, <2>2
    <2>3. CASE k = kind
      <3>1. PICK i \in 1 .. Len(s) : w = s[i]
        BY <2>1, <2>3
      <3>2. ASSUME NEW j \in 1 .. Len(r), r[j] = s[i] PROVE w \in OnRoad'
        BY <1>4, <1>5, <1>7, <1>8, <3>1, <3>2
      <3> QED
        BY <1>4, <3>1, <3>2
    <2> QED
      BY <2>2, <2>3
  <1> QED
    BY <1>6, <1>9, <1>10, <1>11, <1>12 DEF V

\* A file is only chosen if it has room.
LEMMA FileIs ==
  ASSUME NEW kind, NEW lane \in Lanes, NEW len, lastSub \in [Lanes -> Files], NEW sub, sub = FileFor(kind, lane, len), sub # Full
  PROVE  sub \in {0, 1, 2} /\ (sub # Airborne => sub \in Files /\ RoomIn(lane, sub, len))
  <1>1. CASE kind = Drone
    BY <1>1 DEF FileFor, Airborne
  <1>2. CASE kind # Drone
    <2> DEFINE prefer == 1 - lastSub[lane]
    <2>1. prefer \in {0, 1} /\ 1 - prefer \in {0, 1}
      BY DEF Files
    <2>2. sub = SubFor(lane, len)
      BY <1>2 DEF FileFor
    <2> HIDE DEF prefer
    <2>3. \/ sub = prefer /\ RoomIn(lane, prefer, len)
          \/ sub = 1 - prefer /\ RoomIn(lane, 1 - prefer, len)
      BY <2>2 DEF SubFor, prefer
    <2> QED
      BY <2>1, <2>3 DEF Files, Airborne
  <1> QED
    BY <1>1, <1>2

\* What enters a file is clear of all that is in it.
LEMMA GateClear ==
  ASSUME Clearance, ~tailTaken, NEW lane \in Lanes, NEW sub \in Files, NEW len \in Nat \ {0}, RoomIn(lane, sub, len),
         NEW v \in OnRoad, v.lane = lane, v.sub = sub
  PROVE  2 * v.z >= v.len + len + 2 * GAP
  <1>1. sub # Airborne /\ GAP \in Nat
    BY TrafficAssumption DEF Files, Airborne
  <1>2. PICK t \in TailOf(lane, sub) : t.z <= v.z
    BY <1>1 DEF Clearance, Behind
  <1>3. t \in OnRoad /\ t.lane = lane /\ t.sub = sub
    BY DEF TailOf
  <1>4. 2 * t.z >= t.len + len + 2 * GAP
    BY DEF RoomIn
  <1>5. v \in Vehicle /\ t \in Vehicle
    BY <1>3, OnRoadIs DEF Clearance, RoadTypes
  <1>6. v.z \in Nat /\ t.z \in Nat /\ v.len \in Nat /\ t.len \in Nat
    BY <1>5, VehicleIs
  <1>7. CASE v = t
    BY <1>4, <1>7
  <1>8. CASE v # t
    <2>1. 2 * (v.z - t.z) >= v.len + t.len + 2 * GAP
      BY <1>1, <1>2, <1>3, <1>6, <1>8 DEF Clearance, NoOverlap
    <2> QED
      BY <1>1, <1>4, <1>6, <2>1
  <1> QED
    BY <1>7, <1>8

\* At most this vehicle is new on the road.
Enters(lane, pkts) ==
  \E new \in Vehicle : /\ new.lane = lane /\ new.z = 0 /\ new.pkts = pkts
                       /\ OnRoad' \subseteq OnRoad \cup {new}

\* The vehicle that enters keeps the clearance, and is now the last of its file.
LEMMA PlaceClear ==
  ASSUME Clearance, NEW kind \in Kinds, NEW lane \in Lanes, NEW len \in Nat \ {0},
         NEW pkts \in Group, Place(kind, lane, len, pkts),
         \A v \in OnRoad : v.lane = lane => Before(ToSet(v.pkts), ToSet(pkts))
  PROVE  Clearance' /\ Enters(lane, pkts)
  <1> DEFINE sub == FileFor(kind, lane, len)
             new == [lane |-> lane, sub |-> sub, z |-> 0, len |-> len, pkts |-> pkts]
  <1>1. /\ sub # Full /\ pool' = Spawned(kind, new)
        /\ IF sub = Airborne THEN tails' = tails /\ lastSub' = lastSub
           ELSE tails' = [tails EXCEPT ![lane][sub] = pkts[1]] /\ lastSub' = [lastSub EXCEPT ![lane] = sub]
        /\ tailTaken' = (tailTaken \/ TakesTail(kind))
    BY DEF Place
  <1>2. sub \in {0, 1, 2} /\ (sub # Airborne => sub \in Files /\ RoomIn(lane, sub, len))
    <2>1. lastSub \in [Lanes -> Files]
      BY DEF Clearance, RoadTypes
    <2> QED
      BY <1>1, <2>1, FileIs
  <1>3. /\ new \in Vehicle /\ new.lane = lane /\ new.sub = sub /\ new.z = 0 /\ new.len = len /\ new.pkts = pkts
        /\ Name(new) = pkts[1]
    BY <1>2 DEF Vehicle, Name
  <1> HIDE DEF sub, new
  <1>4. /\ pool' \in [Kinds -> Seq(Vehicle)]
        /\ \A k \in Kinds : Len(pool'[k]) <= Cap[k]
        /\ new \in OnRoad' /\ OnRoad' \subseteq OnRoad \cup {new}
        /\ \A w \in OnRoad : w \in OnRoad' \/ (Exhausted(kind) /\ w = Head(pool[kind]))
    BY <1>1, <1>3, SpawnedIs DEF Clearance
  <1>5. \A v \in OnRoad \cup {new} : v \in Vehicle
    BY <1>3, OnRoadIs DEF Clearance, RoadTypes
  <1>6. pkts[1] \in Nat /\ pkts[1] \in ToSet(pkts)
    BY <1>3, VehicleIs
  <1>7. RoadTypes'
    <2>1. tails' \in [Lanes -> [Files -> Nat]] /\ lastSub' \in [Lanes -> Files]
      <3>1. tails \in [Lanes -> [Files -> Nat]] /\ lastSub \in [Lanes -> Files]
        BY DEF Clearance, RoadTypes
      <3>2. CASE sub = Airborne
        BY <1>1, <3>1, <3>2
      <3>3. CASE sub # Airborne
        <4>1. tails' = [tails EXCEPT ![lane] = [@ EXCEPT ![sub] = pkts[1]]] /\ lastSub' = [lastSub EXCEPT ![lane] = sub]
          BY <1>1, <3>3
        <4>2. [tails[lane] EXCEPT ![sub] = pkts[1]] \in [Files -> Nat]
          BY <1>2, <1>6, <3>1, <3>3
        <4> QED
          BY <1>2, <3>1, <3>3, <4>1, <4>2
      <3> QED
        BY <3>2, <3>3
    <2>2. \A v \in OnRoad' : v.z <= EXIT
      <3>1. 0 <= EXIT
        BY TrafficAssumption
      <3>2. \A v \in OnRoad : v.z <= EXIT
        BY DEF Clearance, RoadTypes
      <3> QED
        BY <1>3, <1>4, <3>1, <3>2
    <2>3. tailTaken' \in BOOLEAN
      BY <1>1 DEF Clearance, RoadTypes
    <2> QED
      BY <1>4, <2>1, <2>2, <2>3 DEF RoadTypes
  <1>8. ASSUME ~tailTaken', NEW v \in OnRoad', v.sub # Airborne
        PROVE  /\ TailOf(v.lane, v.sub)' # {}
               /\ \A t \in TailOf(v.lane, v.sub)' : t.z <= v.z
    <2>1. ~tailTaken /\ ~TakesTail(kind)
      BY <1>1, <1>8
    <2>2. v \in Vehicle /\ v.lane \in Lanes /\ v.sub \in Files /\ v.z \in Nat
      BY <1>4, <1>5, <1>8, VehicleIs DEF Files, Airborne
    <2>3. CASE v.lane = lane /\ v.sub = sub
      <3>1. tails'[v.lane][v.sub] = pkts[1]
        BY <1>1, <1>2, <1>8, <2>3 DEF Clearance, RoadTypes
      <3>2. new \in TailOf(v.lane, v.sub)'
        BY <1>3, <1>4, <2>3, <3>1 DEF TailOf
      <3>3. ASSUME NEW t \in TailOf(v.lane, v.sub)' PROVE t = new
        <4>1. t \in OnRoad' /\ t.lane = lane /\ Name(t) = pkts[1]
          BY <2>3, <3>1 DEF TailOf
        <4>2. ASSUME t \in OnRoad PROVE FALSE
          <5>1. t \in Vehicle
            BY <1>5, <4>2
          <5>2. Name(t) \in ToSet(t.pkts) /\ Name(t) \in Nat
            BY <5>1, VehicleIs
          <5>3. Before(ToSet(t.pkts), ToSet(pkts))
            BY <4>1, <4>2
          <5>4. Name(t) < pkts[1]
            BY <1>6, <5>2, <5>3 DEF Before
          <5> QED
            BY <1>6, <4>1, <5>4
        <4> QED
          BY <1>4, <4>1, <4>2
      <3> QED
        BY <1>3, <2>2, <3>2, <3>3
    <2>4. CASE ~(v.lane = lane /\ v.sub = sub)
      <3>1. v # new /\ v \in OnRoad
        BY <1>3, <1>4, <1>8, <2>4
      <3>2. tails'[v.lane][v.sub] = tails[v.lane][v.sub]
        <4>1. CASE sub = Airborne
          BY <1>1, <4>1
        <4>2. CASE sub # Airborne
          <5>1. tails' = [tails EXCEPT ![lane] = [@ EXCEPT ![sub] = pkts[1]]]
            BY <1>1, <4>2
          <5>2. tails \in [Lanes -> [Files -> Nat]]
            BY DEF Clearance, RoadTypes
          <5> QED
            BY <1>2, <2>2, <2>4, <4>2, <5>1, <5>2
        <4> QED
          BY <4>1, <4>2
      <3>3. ASSUME NEW t \in TailOf(v.lane, v.sub)' PROVE t \in TailOf(v.lane, v.sub)
        <4>1. t \in OnRoad' /\ t.lane = v.lane /\ t.sub = v.sub /\ Name(t) = tails[v.lane][v.sub]
          BY <3>2 DEF TailOf
        <4>2. t # new
          BY <1>3, <2>4, <4>1
        <4> QED
          BY <1>4, <4>1, <4>2 DEF TailOf
      <3>4. PICK t \in TailOf(v.lane, v.sub) : TRUE
        BY <1>8, <2>1, <3>1 DEF Clearance, Behind
      <3>5. t \in OnRoad /\ t.lane = v.lane /\ t.sub = v.sub /\ Name(t) = tails[v.lane][v.sub]
        BY DEF TailOf
      <3>6. t \in OnRoad'
        <4>1. ASSUME Exhausted(kind), t = Head(pool[kind]) PROVE FALSE
          <5>1. t.sub # Airborne /\ t \in TailOf(t.lane, t.sub)
            BY <1>8, <3>5
          <5> QED
            BY <2>1, <4>1, <5>1 DEF TakesTail
        <4> QED
          BY <1>4, <3>5, <4>1
      <3>7. t \in TailOf(v.lane, v.sub)'
        BY <3>2, <3>5, <3>6 DEF TailOf
      <3> QED
        BY <1>8, <2>1, <3>1, <3>3, <3>7 DEF Clearance, Behind
    <2> QED
      BY <2>3, <2>4
  <1>9. ASSUME ~tailTaken', NEW v \in OnRoad', NEW w \in OnRoad',
               v # w, v.lane = w.lane, v.sub = w.sub, v.sub # Airborne, v.z >= w.z
        PROVE  2 * (v.z - w.z) >= v.len + w.len + 2 * GAP
    <2>1. ~tailTaken
      BY <1>1, <1>9
    <2>2. /\ v \in OnRoad \cup {new} /\ w \in OnRoad \cup {new}
          /\ v.z \in Nat /\ w.z \in Nat /\ v.len \in Nat \ {0} /\ w.len \in Nat \ {0} /\ GAP \in Nat
      BY <1>4, <1>5, VehicleIs, TrafficAssumption
    <2>3. CASE v # new /\ w # new
      BY <1>9, <2>1, <2>2, <2>3 DEF Clearance, NoOverlap
    <2>4. CASE v # new /\ w = new
      <3>1. 2 * v.z >= v.len + len + 2 * GAP
        BY <1>2, <1>3, <1>9, <2>1, <2>2, <2>4, GateClear
      <3> QED
        BY <1>3, <2>2, <2>4, <3>1
    <2>5. CASE v = new /\ w # new
      <3>1. 2 * w.z >= w.len + len + 2 * GAP
        BY <1>2, <1>3, <1>9, <2>1, <2>2, <2>5, GateClear
      <3>2. w.z = 0
        BY <1>3, <1>9, <2>2, <2>5
      <3> QED
        BY <2>2, <3>1, <3>2
    <2> QED
      BY <1>9, <2>3, <2>4, <2>5
  <1>10. Behind' /\ NoOverlap'
    BY <1>8, <1>9 DEF Behind, NoOverlap
  <1>11. Enters(lane, pkts)
    BY <1>3, <1>4 DEF Enters
  <1> QED
    BY <1>7, <1>10, <1>11 DEF Clearance

\* How far this frame takes the vehicles of a lane.
Way(lane) == Speed[lane] * dt

LEMMA AheadIs ==
  ASSUME dt \in Nat, NEW v \in Vehicle
  PROVE  /\ Way(v.lane) \in Nat
         /\ Ahead(v) \in Vehicle /\ Ahead(v).z = v.z + Way(v.lane)
         /\ Ahead(v).lane = v.lane /\ Ahead(v).sub = v.sub /\ Ahead(v).len = v.len /\ Ahead(v).pkts = v.pkts
         /\ Name(Ahead(v)) = Name(v)
  <1>1. v.lane \in Lanes /\ v.z \in Nat
    BY VehicleIs
  <1>2. Way(v.lane) \in Nat
    <2>1. Speed[v.lane] \in Nat
      BY <1>1, TrafficAssumption
    <2> QED
      BY <2>1 DEF Way
  <1>3. Ahead(v) = [v EXCEPT !.z = @ + Way(v.lane)]
    BY DEF Ahead, Way
  <1>4. v.z + Way(v.lane) \in Nat
    BY <1>1, <1>2
  <1>5. /\ Ahead(v) \in Vehicle /\ Ahead(v).z = v.z + Way(v.lane)
        /\ Ahead(v).lane = v.lane /\ Ahead(v).sub = v.sub /\ Ahead(v).len = v.len /\ Ahead(v).pkts = v.pkts
    BY <1>3, <1>4 DEF Vehicle
  <1> QED
    BY <1>2, <1>5 DEF Name

\* After a move those are on the road who were, unless they are past the exit.
LEMMA MovedIs ==
  ASSUME RoadTypes, dt \in Nat, pool' = [k \in Kinds |-> Moved(k)]
  PROVE  /\ pool' \in [Kinds -> Seq(Vehicle)]
         /\ \A k \in Kinds : Len(pool'[k]) <= Cap[k]
         /\ \A v \in OnRoad' : v.z <= EXIT /\ \E w \in OnRoad : v = Ahead(w)
         /\ \A w \in OnRoad : Ahead(w).z <= EXIT => Ahead(w) \in OnRoad'
  <1> DEFINE V == Vehicle
  <1>1. /\ \A k \in Kinds : pool[k] \in Seq(V) /\ DOMAIN pool[k] = 1 .. Len(pool[k]) /\ Len(pool[k]) \in Nat
        /\ \A k \in Kinds : \A i \in 1 .. Len(pool[k]) : pool[k][i] \in OnRoad
        /\ \A w \in OnRoad : \E k \in Kinds : \E i \in 1 .. Len(pool[k]) : w = pool[k][i]
        /\ \A w \in OnRoad : w \in V /\ Ahead(w) \in V
    BY OnRoadIs, AheadIs DEF RoadTypes
  <1> HIDE DEF V
  <1>2. ASSUME NEW k \in Kinds
        PROVE  /\ Moved(k) \in Seq(V) /\ Len(Moved(k)) <= Len(pool[k]) /\ Len(Moved(k)) \in Nat
               /\ DOMAIN Moved(k) = 1 .. Len(Moved(k))
               /\ \A j \in DOMAIN Moved(k) : \E i \in 1 .. Len(pool[k]) :
                    Moved(k)[j] = Ahead(pool[k][i]) /\ Ahead(pool[k][i]).z <= EXIT
               /\ \A i \in 1 .. Len(pool[k]) : Ahead(pool[k][i]).z <= EXIT =>
                    \E j \in DOMAIN Moved(k) : Moved(k)[j] = Ahead(pool[k][i])
    <2> DEFINE all == [i \in DOMAIN pool[k] |-> Ahead(pool[k][i])]
               keep == {i \in DOMAIN all : all[i].z <= EXIT}
               left == Retained(all, keep)
    <2>1. /\ all \in Seq(V) /\ Len(all) = Len(pool[k]) /\ DOMAIN all = 1 .. Len(pool[k])
          /\ \A i \in 1 .. Len(pool[k]) : all[i] = Ahead(pool[k][i])
      BY <1>1
    <2>2. \A i \in 1 .. Len(pool[k]) : i \in keep <=> Ahead(pool[k][i]).z <= EXIT
      BY <2>1
    <2>3. Moved(k) = left
      BY DEF Moved
    <2> HIDE DEF all, keep
    <2>4. /\ left \in Seq(V)
          /\ \A j \in DOMAIN left : \E i \in DOMAIN all : i \in keep /\ left[j] = all[i]
          /\ \A i \in DOMAIN all : i \in keep => \E j \in DOMAIN left : left[j] = all[i]
      <3>1. all \in Seq(V)
        BY <2>1
      <3> QED
        BY <3>1, RetainedIs
    <2>5. Len(left) <= Len(all)
      BY <2>1, RetainedLength
    <2> HIDE DEF left
    <2>6. Len(left) \in Nat /\ DOMAIN left = 1 .. Len(left)
      BY <2>4
    <2>7. \A j \in DOMAIN left : \E i \in 1 .. Len(pool[k]) : left[j] = Ahead(pool[k][i]) /\ Ahead(pool[k][i]).z <= EXIT
      <3>1. ASSUME NEW j \in DOMAIN left
            PROVE \E i \in 1 .. Len(pool[k]) : left[j] = Ahead(pool[k][i]) /\ Ahead(pool[k][i]).z <= EXIT
        <4>1. PICK i \in DOMAIN all : i \in keep /\ left[j] = all[i]
          BY <2>4
        <4> QED
          BY <2>1, <2>2, <4>1
      <3> QED
        BY <3>1
    <2>8. ASSUME NEW i \in 1 .. Len(pool[k]), Ahead(pool[k][i]).z <= EXIT
          PROVE  \E j \in DOMAIN left : left[j] = Ahead(pool[k][i])
      <3>1. i \in keep /\ i \in DOMAIN all /\ all[i] = Ahead(pool[k][i])
        BY <2>1, <2>2, <2>8
      <3> QED
        BY <2>4, <3>1
    <2>9. left \in Seq(V) /\ Len(left) <= Len(pool[k])
      BY <2>1, <2>4, <2>5
    <2> QED
      BY <2>3, <2>6, <2>7, <2>8, <2>9
  <1>3. \A k \in Kinds : pool'[k] = Moved(k)
    OBVIOUS
  <1>4. pool' \in [Kinds -> Seq(V)]
    BY <1>2
  <1>5. ASSUME NEW k \in Kinds PROVE Len(pool'[k]) <= Cap[k]
    <2>1. Len(pool[k]) <= Cap[k] /\ Cap[k] \in Nat
      BY TrafficAssumption DEF RoadTypes
    <2> QED
      BY <1>1, <1>2, <1>3, <2>1
  <1>6. ASSUME NEW v \in OnRoad' PROVE v.z <= EXIT /\ \E w \in OnRoad : v = Ahead(w)
    <2>1. PICK k \in Kinds : v \in ToSet(pool'[k])
      BY DEF OnRoad
    <2>2. PICK j \in DOMAIN Moved(k) : v = Moved(k)[j]
      BY <1>3, <2>1 DEF ToSet
    <2> QED
      BY <1>1, <1>2, <2>2
  <1>7. ASSUME NEW w \in OnRoad, Ahead(w).z <= EXIT PROVE Ahead(w) \in OnRoad'
    <2>1. PICK k \in Kinds : \E i \in 1 .. Len(pool[k]) : w = pool[k][i]
      BY <1>1
    <2>2. PICK j \in DOMAIN Moved(k) : Moved(k)[j] = Ahead(w)
      BY <1>2, <1>7, <2>1
    <2>3. Ahead(w) \in ToSet(pool'[k])
      BY <1>3, <2>2 DEF ToSet
    <2> QED
      BY <2>3 DEF OnRoad
  <1> QED
    BY <1>4, <1>5, <1>6, <1>7 DEF V

\* Everything in a lane moves the same way, so distances stay.
LEMMA MoveClear ==
  ASSUME Clearance, dt \in Nat, pool' = [k \in Kinds |-> Moved(k)], UNCHANGED <<tails, lastSub, tailTaken>>
  PROVE  Clearance'
  <1>1. /\ pool' \in [Kinds -> Seq(Vehicle)]
        /\ \A k \in Kinds : Len(pool'[k]) <= Cap[k]
        /\ \A v \in OnRoad' : v.z <= EXIT /\ \E w \in OnRoad : v = Ahead(w)
        /\ \A w \in OnRoad : Ahead(w).z <= EXIT => Ahead(w) \in OnRoad'
    BY MovedIs DEF Clearance
  <1>2. RoadTypes'
    BY <1>1 DEF Clearance, RoadTypes
  <1>3. ASSUME NEW w \in OnRoad
        PROVE  /\ w \in Vehicle /\ w.z \in Nat /\ w.len \in Nat /\ w.lane \in Lanes /\ Way(w.lane) \in Nat
               /\ Ahead(w).z = w.z + Way(w.lane) /\ Name(Ahead(w)) = Name(w)
               /\ Ahead(w).lane = w.lane /\ Ahead(w).sub = w.sub /\ Ahead(w).len = w.len
    <2>1. w \in Vehicle
      BY OnRoadIs DEF Clearance, RoadTypes
    <2> QED
      BY <2>1, VehicleIs, AheadIs
  <1>4. ASSUME ~tailTaken', NEW v \in OnRoad', v.sub # Airborne
        PROVE  /\ TailOf(v.lane, v.sub)' # {}
               /\ \A t \in TailOf(v.lane, v.sub)' : t.z <= v.z
    <2>1. PICK w \in OnRoad : v = Ahead(w)
      BY <1>1
    <2>2. v.lane = w.lane /\ v.sub = w.sub /\ w.sub # Airborne
      BY <1>3, <1>4, <2>1
    <2>3. /\ TailOf(w.lane, w.sub) # {}
          /\ \A t \in TailOf(w.lane, w.sub) : t.z <= w.z
      BY <1>4, <2>2 DEF Clearance, Behind
    <2>4. PICK t \in TailOf(w.lane, w.sub) : TRUE
      BY <2>3
    <2>5. t \in OnRoad /\ t.lane = w.lane /\ t.sub = w.sub /\ Name(t) = tails[w.lane][w.sub] /\ t.z <= w.z
      BY <2>3 DEF TailOf
    <2>6. Ahead(t).z <= EXIT
      <3>1. v.z <= EXIT /\ v.z = w.z + Way(w.lane) /\ Ahead(t).z = t.z + Way(w.lane)
        BY <1>1, <1>3, <2>1, <2>5
      <3>2. w.z \in Nat /\ t.z \in Nat /\ Way(w.lane) \in Nat /\ EXIT \in Nat
        BY <1>3, <2>5, TrafficAssumption
      <3> QED
        BY <2>5, <3>1, <3>2
    <2>7. Ahead(t) \in TailOf(v.lane, v.sub)'
      BY <1>1, <1>3, <2>2, <2>5, <2>6 DEF TailOf
    <2>8. ASSUME NEW u \in TailOf(v.lane, v.sub)' PROVE u.z <= v.z
      <3>1. u \in OnRoad' /\ u.lane = v.lane /\ u.sub = v.sub /\ Name(u) = tails[v.lane][v.sub]
        BY DEF TailOf
      <3>2. PICK x \in OnRoad : u = Ahead(x)
        BY <1>1, <3>1
      <3>3. x \in TailOf(w.lane, w.sub)
        BY <1>3, <2>2, <3>1, <3>2 DEF TailOf
      <3>4. x.z <= w.z /\ x.lane = w.lane
        BY <2>3, <3>3 DEF TailOf
      <3>5. u.z = x.z + Way(w.lane) /\ v.z = w.z + Way(w.lane) /\ x.z \in Nat /\ w.z \in Nat /\ Way(w.lane) \in Nat
        BY <1>3, <2>1, <3>2, <3>4
      <3> QED
        BY <3>4, <3>5
    <2> QED
      BY <2>7, <2>8
  <1>5. ASSUME ~tailTaken', NEW v \in OnRoad', NEW w \in OnRoad',
               v # w, v.lane = w.lane, v.sub = w.sub, v.sub # Airborne, v.z >= w.z
        PROVE  2 * (v.z - w.z) >= v.len + w.len + 2 * GAP
    <2>1. PICK x \in OnRoad : v = Ahead(x)
      BY <1>1
    <2>2. PICK y \in OnRoad : w = Ahead(y)
      BY <1>1
    <2>3. /\ x # y /\ x.lane = y.lane /\ x.sub = y.sub /\ x.sub # Airborne
          /\ v.len = x.len /\ w.len = y.len
      BY <1>3, <1>5, <2>1, <2>2
    <2>4. v.z = x.z + Way(x.lane) /\ w.z = y.z + Way(x.lane) /\ x.z \in Nat /\ y.z \in Nat /\ Way(x.lane) \in Nat
      BY <1>3, <2>1, <2>2, <2>3
    <2>5. x.z >= y.z /\ v.z - w.z = x.z - y.z
      BY <1>5, <2>4
    <2>6. 2 * (x.z - y.z) >= x.len + y.len + 2 * GAP
      BY <1>5, <2>3, <2>5 DEF Clearance, NoOverlap
    <2> QED
      BY <2>3, <2>5, <2>6
  <1> QED
    BY <1>2, <1>4, <1>5 DEF Clearance, Behind, NoOverlap

\* An empty road.
LEMMA EmptyClear ==
  ASSUME pool' = [k \in Kinds |-> << >>], tails' = [lane \in Lanes |-> [sub \in Files |-> NoVehicle]],
         lastSub' = [lane \in Lanes |-> 1], tailTaken' = FALSE
  PROVE  Clearance' /\ OnRoad' = {}
  <1> DEFINE V == Vehicle
  <1> HIDE DEF V
  <1>1. << >> \in Seq(V) /\ Len(<< >>) = 0 /\ DOMAIN << >> = {}
    OBVIOUS
  <1>2. OnRoad' = {}
    BY <1>1 DEF OnRoad, ToSet
  <1>3. pool' \in [Kinds -> Seq(V)] /\ \A k \in Kinds : Len(pool'[k]) <= Cap[k]
    BY <1>1, TrafficAssumption
  <1>4. tails' \in [Lanes -> [Files -> Nat]] /\ lastSub' \in [Lanes -> Files]
    BY DEF Files, NoVehicle
  <1>5. RoadTypes'
    BY <1>2, <1>3, <1>4 DEF RoadTypes, V
  <1> QED
    BY <1>2, <1>5 DEF Clearance, Behind, NoOverlap

-----------------------------------------------------------------------------
(* The order of the packets.                                                *)

\* The last packet that came.
LastId == IF mode = "live" THEN received ELSE cursor

Lined ==
  /\ queue \in Seq(Message) /\ todo \in Seq(Message)
  /\ InTurn(todo) /\ InTurn(queue) /\ Before(Ids(todo), Ids(queue))
  /\ \A x \in ToCome : x <= LastId

Gathered ==
  /\ pendingAgg \in Seq(Burst)
  /\ \A i, j \in DOMAIN pendingAgg : pendingAgg[i].lane = pendingAgg[j].lane => i = j
  /\ \A a \in Bursts :
       /\ Rising(a.pkts) /\ Before(ToSet(a.pkts), ToCome)
       /\ \A x \in ToSet(a.pkts) : x <= LastId

Driven ==
  /\ \A v \in OnRoad :
       /\ Rising(v.pkts) /\ Before(ToSet(v.pkts), ToCome)
       /\ \A x \in ToSet(v.pkts) : x <= LastId
       /\ \A a \in Bursts : a.lane = v.lane => Before(ToSet(v.pkts), ToSet(a.pkts))
  /\ \A v, w \in OnRoad : v.lane = w.lane =>
       /\ v.z > w.z => Before(ToSet(v.pkts), ToSet(w.pkts))
       /\ v # w => Before(ToSet(v.pkts), ToSet(w.pkts)) \/ Before(ToSet(w.pkts), ToSet(v.pkts))

LEMMA RisingAppend ==
  ASSUME NEW a \in Seq(Nat), NEW n \in Nat
  PROVE  /\ ToSet(Append(a, n)) = ToSet(a) \cup {n}
         /\ Append(a, n) # << >>
         /\ Rising(a) /\ Before(ToSet(a), {n}) => Rising(Append(a, n))
  <1>1. /\ DOMAIN Append(a, n) = 1 .. Len(a) + 1 /\ DOMAIN a = 1 .. Len(a) /\ Len(a) \in Nat
        /\ Append(a, n)[Len(a) + 1] = n
        /\ \A i \in DOMAIN a : Append(a, n)[i] = a[i]
    BY AppendIs
  <1>2. \A i \in 1 .. Len(a) + 1 : i \in 1 .. Len(a) \/ i = Len(a) + 1
    BY <1>1
  <1>3. \A i \in 1 .. Len(a) : i \in 1 .. Len(a) + 1
    BY <1>1
  <1>4. Len(a) + 1 \in 1 .. Len(a) + 1
    BY <1>1
  <1>5. ToSet(Append(a, n)) = ToSet(a) \cup {n}
    BY <1>1, <1>2, <1>3, <1>4 DEF ToSet
  <1>6. ASSUME Rising(a), Before(ToSet(a), {n}), NEW i \in 1 .. Len(a) + 1, NEW j \in 1 .. Len(a) + 1, i < j
        PROVE  Append(a, n)[i] < Append(a, n)[j]
    <2>1. i \in 1 .. Len(a)
      BY <1>1, <1>6
    <2>2. CASE j = Len(a) + 1
      <3>1. a[i] \in ToSet(a)
        BY <1>1, <2>1 DEF ToSet
      <3> QED
        BY <1>1, <1>6, <2>1, <2>2, <3>1 DEF Before
    <2>3. CASE j \in 1 .. Len(a)
      BY <1>1, <1>6, <2>1, <2>3 DEF Rising
    <2> QED
      BY <1>2, <2>2, <2>3
  <1>7. Append(a, n) # << >>
    BY <1>1
  <1> QED
    BY <1>1, <1>5, <1>6, <1>7 DEF Rising

LEMMA One ==
  ASSUME NEW n \in Nat
  PROVE  /\ <<n>> \in Group /\ ToSet(<<n>>) = {n} /\ Rising(<<n>>)
  <1>1. <<n>> \in Seq(Nat) /\ Len(<<n>>) = 1 /\ DOMAIN <<n>> = 1 .. 1 /\ <<n>>[1] = n
    OBVIOUS
  <1>2. \A i \in 1 .. 1 : i = 1
    OBVIOUS
  <1>3. 1 \in 1 .. 1
    OBVIOUS
  <1>4. <<n>> # << >>
    OBVIOUS
  <1>5. ToSet(<<n>>) = {n}
    BY <1>1, <1>2, <1>3 DEF ToSet
  <1>6. Rising(<<n>>)
    BY <1>1, <1>2 DEF Rising
  <1> QED
    BY <1>1, <1>4, <1>5, <1>6 DEF Group

\* Packets in their turn: the first, one more, and where a queue is cut.
LEMMA IdsAre ==
  ASSUME NEW s \in Seq(Message)
  PROVE  /\ Len(s) \in Nat /\ DOMAIN s = 1 .. Len(s)
         /\ \A i \in 1 .. Len(s) : s[i] \in Message /\ s[i].id \in Ids(s)
         /\ \A x \in Ids(s) : x \in Nat
  <1> DEFINE M == Message
  <1> HIDE DEF M
  <1>1. s \in Seq(M)
    BY DEF M
  <1>2. Len(s) \in Nat /\ DOMAIN s = 1 .. Len(s) /\ \A i \in 1 .. Len(s) : s[i] \in M
    BY <1>1
  <1>3. \A m \in M : m.id \in Nat
    BY DEF M, Message
  <1> QED
    BY <1>2, <1>3 DEF M, Ids

LEMMA IdsFirst ==
  ASSUME NEW s \in Seq(Message), s # << >>
  PROVE  /\ Head(s) \in Message /\ Tail(s) \in Seq(Message)
         /\ Head(s).id \in Ids(s) /\ Ids(Tail(s)) \subseteq Ids(s)
         /\ InTurn(s) => InTurn(Tail(s)) /\ Before({Head(s).id}, Ids(Tail(s)))
  <1> DEFINE M == Message
             r == Tail(s)
  <1> HIDE DEF M
  <1>1. s \in Seq(M)
    BY DEF M
  <1>2. /\ r \in Seq(M) /\ Len(r) = Len(s) - 1 /\ DOMAIN r = 1 .. Len(s) - 1
        /\ DOMAIN s = 1 .. Len(s) /\ Len(s) \in Nat \ {0}
        /\ Head(s) = s[1] /\ 1 \in DOMAIN s /\ s[1] \in M
        /\ \A i \in DOMAIN r : i + 1 \in DOMAIN s /\ r[i] = s[i + 1]
    BY <1>1, TailIs
  <1> HIDE DEF r
  <1>3. Head(s).id \in Ids(s) /\ Ids(r) \subseteq Ids(s)
    BY <1>2 DEF Ids
  <1>4. ASSUME InTurn(s) PROVE InTurn(r) /\ Before({Head(s).id}, Ids(r))
    <2>1. ASSUME NEW i \in DOMAIN r, NEW j \in DOMAIN r, i < j PROVE r[i].id < r[j].id
      <3>1. i + 1 \in DOMAIN s /\ j + 1 \in DOMAIN s /\ i + 1 < j + 1 /\ r[i] = s[i + 1] /\ r[j] = s[j + 1]
        BY <1>2, <2>1
      <3> QED
        BY <1>4, <3>1 DEF InTurn
    <2>2. ASSUME NEW i \in DOMAIN r PROVE Head(s).id < r[i].id
      <3>1. i + 1 \in DOMAIN s /\ 1 < i + 1 /\ r[i] = s[i + 1] /\ 1 \in DOMAIN s
        BY <1>2, <2>2
      <3> QED
        BY <1>2, <1>4, <3>1 DEF InTurn
    <2> QED
      BY <2>1, <2>2 DEF InTurn, Before, Ids
  <1> QED
    BY <1>2, <1>3, <1>4 DEF M, r

LEMMA IdsAppend ==
  ASSUME NEW s \in Seq(Message), NEW m \in Message
  PROVE  /\ Append(s, m) \in Seq(Message) /\ Ids(Append(s, m)) = Ids(s) \cup {m.id}
         /\ InTurn(s) /\ Before(Ids(s), {m.id}) => InTurn(Append(s, m))
  <1> DEFINE M == Message
             r == Append(s, m)
  <1> HIDE DEF M
  <1>1. s \in Seq(M) /\ m \in M
    BY DEF M
  <1>2. /\ r \in Seq(M) /\ DOMAIN r = 1 .. Len(s) + 1
        /\ DOMAIN s = 1 .. Len(s) /\ Len(s) \in Nat /\ Len(s) + 1 \in DOMAIN r
        /\ r[Len(s) + 1] = m
        /\ \A i \in DOMAIN s : i \in DOMAIN r /\ r[i] = s[i] /\ i < Len(s) + 1
        /\ \A i \in DOMAIN r : i \in DOMAIN s \/ i = Len(s) + 1
    BY <1>1, AppendIs
  <1> HIDE DEF r
  <1>3. Ids(r) = Ids(s) \cup {m.id}
    BY <1>2 DEF Ids
  <1>4. ASSUME InTurn(s), Before(Ids(s), {m.id}), NEW i \in DOMAIN r, NEW j \in DOMAIN r, i < j
        PROVE  r[i].id < r[j].id
    <2>1. i \in DOMAIN s
      BY <1>2, <1>4
    <2>2. CASE j \in DOMAIN s
      BY <1>2, <1>4, <2>1, <2>2 DEF InTurn
    <2>3. CASE j = Len(s) + 1
      <3>1. s[i].id \in Ids(s)
        BY <2>1 DEF Ids
      <3> QED
        BY <1>2, <1>4, <2>1, <2>3, <3>1 DEF Before
    <2> QED
      BY <1>2, <2>2, <2>3
  <1> QED
    BY <1>2, <1>3, <1>4 DEF InTurn, M, r

\* What is left of a sequence without its first n.
LEMMA Rest ==
  ASSUME NEW S, NEW s \in Seq(S), NEW n \in 0 .. Len(s)
  PROVE  LET r == SubSeq(s, n + 1, Len(s))
         IN  /\ r \in Seq(S) /\ Len(r) = Len(s) - n /\ DOMAIN r = 1 .. Len(s) - n
             /\ \A i \in 1 .. Len(s) - n : r[i] = s[n + i]
  <1> DEFINE len == Len(s)
             r == SubSeq(s, n + 1, len)
  <1>1. len \in Nat /\ n \in Nat /\ n <= len /\ \A i \in 1 .. len : s[i] \in S
    OBVIOUS
  <1> HIDE DEF len
  <1>2. \A i \in n + 1 .. len : s[i] \in S
    <2>1. \A i \in n + 1 .. len : i \in 1 .. len
      BY <1>1
    <2> QED
      BY <1>1, <2>1
  <1>3. /\ r \in Seq(S)
        /\ Len(r) = IF n + 1 <= len THEN len - (n + 1) + 1 ELSE 0
        /\ \A i \in 1 .. len - (n + 1) + 1 : r[i] = s[n + 1 + i - 1]
    BY <1>1, <1>2, SubSeqProperties
  <1> HIDE DEF r
  <1>4. Len(r) = len - n /\ len - (n + 1) + 1 = len - n
    BY <1>1, <1>3
  <1>5. ASSUME NEW i \in 1 .. len - n PROVE r[i] = s[n + i]
    <2>1. n + 1 + i - 1 = n + i /\ i \in 1 .. len - (n + 1) + 1
      BY <1>1
    <2>2. r[i] = s[n + 1 + i - 1]
      BY <1>3, <2>1
    <2> QED
      BY <2>1, <2>2
  <1>6. DOMAIN r = 1 .. len - n
    BY <1>3, <1>4
  <1> QED
    BY <1>3, <1>4, <1>5, <1>6 DEF r, len

LEMMA IdsCut ==
  ASSUME NEW s \in Seq(Message), NEW n \in 0 .. Len(s), InTurn(s), NEW a, NEW b,
         a = SubSeq(s, 1, n), b = SubSeq(s, n + 1, Len(s))
  PROVE  /\ a \in Seq(Message) /\ b \in Seq(Message)
         /\ InTurn(a) /\ InTurn(b) /\ Ids(a) \subseteq Ids(s) /\ Ids(b) \subseteq Ids(s)
         /\ Before(Ids(a), Ids(b))
  <1> DEFINE M == Message
             len == Len(s)
  <1>1. len \in Nat /\ DOMAIN s = 1 .. len /\ n \in Nat /\ n <= len
    BY IdsAre
  <1> HIDE DEF M
  <1>2. s \in Seq(M)
    BY DEF M
  <1>3. a \in Seq(M) /\ Len(a) = n /\ DOMAIN a = 1 .. n /\ \A i \in 1 .. n : a[i] = s[i]
    BY <1>1, <1>2
  <1>4. b \in Seq(M) /\ Len(b) = len - n /\ DOMAIN b = 1 .. len - n /\ \A i \in 1 .. len - n : b[i] = s[n + i]
    BY <1>2, Rest
  <1>5. \A i, j \in 1 .. len : i < j => s[i].id < s[j].id
    BY <1>1 DEF InTurn
  <1> HIDE DEF len
  <1>6. \A i \in 1 .. n : i \in 1 .. len
    BY <1>1
  <1>7. \A i \in 1 .. len - n : n + i \in 1 .. len
    BY <1>1
  <1>8. InTurn(a) /\ Ids(a) \subseteq Ids(s)
    BY <1>1, <1>3, <1>5, <1>6 DEF InTurn, Ids
  <1>9. Ids(b) \subseteq Ids(s)
    BY <1>1, <1>4, <1>7 DEF Ids
  <1>10. ASSUME NEW i \in 1 .. len - n, NEW j \in 1 .. len - n, i < j PROVE b[i].id < b[j].id
    <2>1. n + i \in 1 .. len /\ n + j \in 1 .. len /\ n + i < n + j
      BY <1>1, <1>10
    <2> QED
      BY <1>4, <1>5, <2>1
  <1>11. ASSUME NEW i \in 1 .. n, NEW j \in 1 .. len - n PROVE a[i].id < b[j].id
    <2>1. i \in 1 .. len /\ n + j \in 1 .. len /\ i < n + j
      BY <1>1
    <2> QED
      BY <1>3, <1>4, <1>5, <2>1
  <1>12. InTurn(b)
    BY <1>4, <1>10 DEF InTurn
  <1>13. Before(Ids(a), Ids(b))
    BY <1>3, <1>4, <1>11 DEF Before, Ids
  <1> QED
    BY <1>3, <1>4, <1>8, <1>9, <1>12, <1>13 DEF M

\* What is to come was to come before, or came just now.
Later ==
  /\ LastId \in Nat /\ LastId' \in Nat /\ LastId <= LastId'
  /\ \A x \in ToCome' : x \in ToCome \/ (x \in Nat /\ LastId < x)

LEMMA ToComeIs ==
  ASSUME Lined
  PROVE  \A x \in ToCome : x \in Nat
  <1>1. queue \in Seq(Message) /\ todo \in Seq(Message)
    BY DEF Lined
  <1> QED
    BY <1>1, IdsAre DEF ToCome

LEMMA BurstIs ==
  ASSUME pendingAgg \in Seq(Burst)
  PROVE  /\ DOMAIN pendingAgg = 1 .. Len(pendingAgg) /\ Len(pendingAgg) \in Nat
         /\ \A i \in DOMAIN pendingAgg : pendingAgg[i] \in Burst /\ pendingAgg[i] \in Bursts
         /\ \A a \in Bursts : /\ a \in Burst /\ a.lane \in Lanes /\ a.kind \in Kinds \ {Convoy}
                              /\ a.pkts \in Seq(Nat) /\ a.pkts # << >> /\ \A x \in ToSet(a.pkts) : x \in Nat
         /\ \A a \in Bursts : \E i \in DOMAIN pendingAgg : a = pendingAgg[i]
  <1> DEFINE B == Burst
  <1> HIDE DEF B
  <1>1. pendingAgg \in Seq(B)
    BY DEF B
  <1>2. /\ DOMAIN pendingAgg = 1 .. Len(pendingAgg) /\ Len(pendingAgg) \in Nat
        /\ \A i \in DOMAIN pendingAgg : pendingAgg[i] \in B
    BY <1>1
  <1>3. \A i \in DOMAIN pendingAgg : pendingAgg[i] \in Bursts
    BY <1>2 DEF Bursts, ToSet
  <1>4. \A a \in Bursts : \E i \in DOMAIN pendingAgg : a = pendingAgg[i]
    BY <1>2 DEF Bursts, ToSet
  <1>5. ASSUME NEW a \in Bursts
        PROVE  /\ a \in B /\ a.lane \in Lanes /\ a.kind \in Kinds \ {Convoy}
               /\ a.pkts \in Seq(Nat) /\ a.pkts # << >> /\ \A x \in ToSet(a.pkts) : x \in Nat
    <2>1. a \in B
      BY <1>2, <1>4
    <2>2. a.lane \in Lanes /\ a.kind \in Kinds \ {Convoy} /\ a.pkts \in Seq(Nat) /\ a.pkts # << >>
      BY <2>1 DEF B, Burst, Group
    <2> DEFINE s == a.pkts
    <2>3. s \in Seq(Nat)
      BY <2>2
    <2> HIDE DEF s
    <2>4. \A x \in ToSet(s) : x \in Nat
      BY <2>3 DEF ToSet
    <2> QED
      BY <2>1, <2>2, <2>4 DEF s
  <1> QED
    BY <1>2, <1>3, <1>4, <1>5 DEF B

\* Fewer bursts, and what is to come is later.
LEMMA GatheredFewer ==
  ASSUME Gathered, Lined, Later, pendingAgg' \in Seq(Burst), Bursts' \subseteq Bursts,
         \A i, j \in DOMAIN pendingAgg' : pendingAgg'[i].lane = pendingAgg'[j].lane => i = j
  PROVE  Gathered'
  <1>1. ASSUME NEW a \in Bursts'
        PROVE  /\ Rising(a.pkts) /\ Before(ToSet(a.pkts), ToCome')
               /\ \A x \in ToSet(a.pkts) : x <= LastId'
    <2>1. a \in Bursts
      BY <1>1
    <2>2. /\ Rising(a.pkts) /\ Before(ToSet(a.pkts), ToCome)
          /\ \A x \in ToSet(a.pkts) : x <= LastId /\ x \in Nat
      BY <2>1, BurstIs DEF Gathered
    <2>3. LastId \in Nat /\ LastId' \in Nat /\ LastId <= LastId'
      BY DEF Later
    <2>4. ASSUME NEW x \in ToSet(a.pkts), NEW y \in ToCome' PROVE x < y
      <3>1. CASE y \in ToCome
        BY <2>2, <2>4, <3>1 DEF Before
      <3>2. CASE y \in Nat /\ LastId < y
        BY <2>2, <2>3, <2>4, <3>2
      <3> QED
        BY <2>4, <3>1, <3>2 DEF Later
    <2>5. \A x \in ToSet(a.pkts) : x <= LastId'
      BY <2>2, <2>3
    <2> QED
      BY <2>2, <2>4, <2>5 DEF Before
  <1> QED
    BY <1>1 DEF Gathered

\* What gathers now gathered before in its lane, or was to come.
Joins ==
  \A a \in Bursts' : \A y \in ToSet(a.pkts) :
    y \in ToCome \/ \E b \in Bursts : b.lane = a.lane /\ y \in ToSet(b.pkts)

LEMMA JoinsFewer == Bursts' \subseteq Bursts => Joins
  BY DEF Joins

\* What drives on comes before what gathers and what is to come.
LEMMA StillBefore ==
  ASSUME Driven, Lined, Later, Joins, NEW v \in OnRoad, v \in Vehicle
  PROVE  /\ Rising(v.pkts) /\ Before(ToSet(v.pkts), ToCome')
         /\ \A x \in ToSet(v.pkts) : x <= LastId'
         /\ \A a \in Bursts' : a.lane = v.lane => Before(ToSet(v.pkts), ToSet(a.pkts))
  <1>1. /\ Rising(v.pkts) /\ Before(ToSet(v.pkts), ToCome)
        /\ \A x \in ToSet(v.pkts) : x <= LastId
        /\ \A a \in Bursts : a.lane = v.lane => Before(ToSet(v.pkts), ToSet(a.pkts))
    BY DEF Driven
  <1>2. \A x \in ToSet(v.pkts) : x \in Nat
    BY VehicleIs
  <1>3. LastId \in Nat /\ LastId' \in Nat /\ LastId <= LastId'
    BY DEF Later
  <1>4. ASSUME NEW x \in ToSet(v.pkts), NEW y \in ToCome' PROVE x < y
    <2>1. CASE y \in ToCome
      BY <1>1, <1>4, <2>1 DEF Before
    <2>2. CASE y \in Nat /\ LastId < y
      BY <1>1, <1>2, <1>3, <1>4, <2>2
    <2> QED
      BY <1>4, <2>1, <2>2 DEF Later
  <1>5. ASSUME NEW a \in Bursts', a.lane = v.lane, NEW x \in ToSet(v.pkts), NEW y \in ToSet(a.pkts) PROVE x < y
    <2>1. CASE y \in ToCome
      BY <1>1, <1>5, <2>1 DEF Before
    <2>2. ASSUME NEW b \in Bursts, b.lane = a.lane, y \in ToSet(b.pkts) PROVE x < y
      BY <1>1, <1>5, <2>2 DEF Before
    <2> QED
      BY <1>5, <2>1, <2>2 DEF Joins
  <1>6. \A x \in ToSet(v.pkts) : x <= LastId'
    BY <1>1, <1>2, <1>3
  <1> QED
    BY <1>1, <1>4, <1>5, <1>6 DEF Before

LEMMA DrivenStays ==
  ASSUME Driven, Lined, Later, Joins, pool \in [Kinds -> Seq(Vehicle)], OnRoad' \subseteq OnRoad
  PROVE  Driven'
  <1>1. ASSUME NEW v \in OnRoad'
        PROVE  /\ Rising(v.pkts) /\ Before(ToSet(v.pkts), ToCome')
               /\ \A x \in ToSet(v.pkts) : x <= LastId'
               /\ \A a \in Bursts' : a.lane = v.lane => Before(ToSet(v.pkts), ToSet(a.pkts))
    <2>1. v \in OnRoad /\ v \in Vehicle
      BY <1>1, OnRoadIs
    <2> QED
      BY <2>1, StillBefore
  <1>2. \A v, w \in OnRoad' : v.lane = w.lane =>
          /\ v.z > w.z => Before(ToSet(v.pkts), ToSet(w.pkts))
          /\ v # w => Before(ToSet(v.pkts), ToSet(w.pkts)) \/ Before(ToSet(w.pkts), ToSet(v.pkts))
    BY DEF Driven
  <1> QED
    BY <1>1, <1>2 DEF Driven

\* A vehicle enters a lane, and no burst gathers there any more.
LEMMA DrivenOneMore ==
  ASSUME Driven, Lined, Later, Joins, pool \in [Kinds -> Seq(Vehicle)],
         NEW new \in Vehicle, OnRoad' \subseteq OnRoad \cup {new}, new.z = 0,
         Rising(new.pkts), Before(ToSet(new.pkts), ToCome'), \A x \in ToSet(new.pkts) : x <= LastId',
         \A a \in Bursts' : a.lane # new.lane,
         \A v \in OnRoad : v.lane = new.lane => Before(ToSet(v.pkts), ToSet(new.pkts))
  PROVE  Driven'
  <1>1. ASSUME NEW v \in OnRoad'
        PROVE  /\ Rising(v.pkts) /\ Before(ToSet(v.pkts), ToCome')
               /\ \A x \in ToSet(v.pkts) : x <= LastId'
               /\ \A a \in Bursts' : a.lane = v.lane => Before(ToSet(v.pkts), ToSet(a.pkts))
    <2>1. CASE v = new
      BY <2>1
    <2>2. CASE v \in OnRoad
      <3>1. v \in Vehicle
        BY <2>2, OnRoadIs
      <3> QED
        BY <2>2, <3>1, StillBefore
    <2> QED
      BY <1>1, <2>1, <2>2
  <1>2. ASSUME NEW v \in OnRoad', NEW w \in OnRoad', v.lane = w.lane
        PROVE  /\ v.z > w.z => Before(ToSet(v.pkts), ToSet(w.pkts))
               /\ v # w => Before(ToSet(v.pkts), ToSet(w.pkts)) \/ Before(ToSet(w.pkts), ToSet(v.pkts))
    <2>1. CASE v \in OnRoad /\ w \in OnRoad
      BY <1>2, <2>1 DEF Driven
    <2>2. CASE v \in OnRoad /\ w = new
      BY <1>2, <2>2
    <2>3. CASE v = new /\ w \in OnRoad
      <3>1. Before(ToSet(w.pkts), ToSet(v.pkts))
        BY <1>2, <2>3
      <3>2. w.z \in Nat
        BY <2>3, OnRoadIs, VehicleIs
      <3>3. ~(v.z > w.z)
        BY <2>3, <3>2
      <3> QED
        BY <3>1, <3>3
    <2>4. CASE v = new /\ w = new
      <3>1. ~(v.z > w.z) /\ v = w
        BY <2>4
      <3> QED
        BY <3>1
    <2> QED
      BY <1>2, <2>1, <2>2, <2>3, <2>4
  <1> QED
    BY <1>1, <1>2 DEF Driven

\* Everything in a lane moves the same way, so the order stays.
LEMMA DrivenMoves ==
  ASSUME Driven, Lined, Later, Joins, RoadTypes, dt \in Nat, pool' = [k \in Kinds |-> Moved(k)]
  PROVE  Driven'
  <1>1. \A v \in OnRoad' : \E w \in OnRoad : v = Ahead(w)
    BY MovedIs
  <1>2. \A w \in OnRoad : /\ w \in Vehicle /\ w.z \in Nat /\ Way(w.lane) \in Nat
                          /\ Ahead(w).z = w.z + Way(w.lane)
                          /\ Ahead(w).lane = w.lane /\ Ahead(w).pkts = w.pkts
    BY OnRoadIs, VehicleIs, AheadIs DEF RoadTypes
  <1>3. ASSUME NEW v \in OnRoad'
        PROVE  /\ Rising(v.pkts) /\ Before(ToSet(v.pkts), ToCome')
               /\ \A x \in ToSet(v.pkts) : x <= LastId'
               /\ \A a \in Bursts' : a.lane = v.lane => Before(ToSet(v.pkts), ToSet(a.pkts))
    <2>1. PICK w \in OnRoad : v = Ahead(w)
      BY <1>1
    <2>2. v.lane = w.lane /\ v.pkts = w.pkts /\ w \in Vehicle
      BY <1>2, <2>1
    <2> QED
      BY <2>2, StillBefore
  <1>4. ASSUME NEW v \in OnRoad', NEW w \in OnRoad', v.lane = w.lane
        PROVE  /\ v.z > w.z => Before(ToSet(v.pkts), ToSet(w.pkts))
               /\ v # w => Before(ToSet(v.pkts), ToSet(w.pkts)) \/ Before(ToSet(w.pkts), ToSet(v.pkts))
    <2>1. PICK x \in OnRoad : v = Ahead(x)
      BY <1>1
    <2>2. PICK y \in OnRoad : w = Ahead(y)
      BY <1>1
    <2>3. x.lane = y.lane /\ v.pkts = x.pkts /\ w.pkts = y.pkts
      BY <1>2, <1>4, <2>1, <2>2
    <2>4. v.z = x.z + Way(x.lane) /\ w.z = y.z + Way(x.lane) /\ x.z \in Nat /\ y.z \in Nat /\ Way(x.lane) \in Nat
      BY <1>2, <2>1, <2>2, <2>3
    <2>5. v.z > w.z => x.z > y.z
      BY <2>4
    <2>6. v # w => x # y
      BY <2>1, <2>2
    <2> QED
      BY <2>3, <2>5, <2>6 DEF Driven
  <1> QED
    BY <1>3, <1>4 DEF Driven

LEMMA ClearanceStays ==
  ASSUME Clearance, UNCHANGED roadVars
  PROVE  Clearance' /\ OnRoad' = OnRoad
  <1>1. pool' = pool /\ tails' = tails /\ lastSub' = lastSub /\ tailTaken' = tailTaken
    BY DEF roadVars
  <1>2. OnRoad' = OnRoad
    BY <1>1 DEF OnRoad
  <1>3. \A lane, sub : TailOf(lane, sub)' = TailOf(lane, sub)
    BY <1>1, <1>2 DEF TailOf
  <1>4. RoadTypes'
    BY <1>1, <1>2 DEF Clearance, RoadTypes
  <1>5. Behind'
    BY <1>1, <1>2, <1>3 DEF Clearance, Behind
  <1>6. NoOverlap'
    BY <1>1, <1>2 DEF Clearance, NoOverlap
  <1> QED
    BY <1>2, <1>4, <1>5, <1>6 DEF Clearance

\* The first packet of a frame is scheduled.
LEMMA HeadOut ==
  ASSUME Lined, LastId \in Nat, LastId' = LastId, todo # << >>, todo' = Tail(todo), queue' = queue
  PROVE  /\ Head(todo) \in Message /\ Head(todo).id \in ToCome /\ Head(todo).id \in Nat /\ Head(todo).id <= LastId
         /\ Before({Head(todo).id}, ToCome')
         /\ Later /\ Lined'
  <1> DEFINE p == Head(todo)
  <1>1. /\ queue \in Seq(Message) /\ todo \in Seq(Message)
        /\ InTurn(todo) /\ InTurn(queue) /\ Before(Ids(todo), Ids(queue))
        /\ \A x \in ToCome : x <= LastId
    BY DEF Lined
  <1>2. /\ p \in Message /\ Tail(todo) \in Seq(Message) /\ p.id \in Ids(todo) /\ Ids(Tail(todo)) \subseteq Ids(todo)
        /\ InTurn(Tail(todo)) /\ Before({p.id}, Ids(Tail(todo)))
    BY <1>1, IdsFirst
  <1>3. Ids(todo)' = Ids(Tail(todo)) /\ Ids(queue)' = Ids(queue)
    BY DEF Ids
  <1> HIDE DEF p
  <1>4. p.id \in ToCome /\ p.id \in Nat /\ p.id <= LastId
    BY <1>1, <1>2, ToComeIs DEF ToCome
  <1>5. ToCome' \subseteq ToCome
    BY <1>2, <1>3 DEF ToCome
  <1>6. Before({p.id}, ToCome')
    BY <1>1, <1>2, <1>3 DEF Before, ToCome
  <1>7. Later
    BY <1>5 DEF Later
  <1>8. InTurn(todo)' /\ InTurn(queue)'
    BY <1>1, <1>2 DEF InTurn
  <1>9. Before(Ids(todo), Ids(queue))'
    BY <1>1, <1>2, <1>3 DEF Before
  <1>10. Lined'
    BY <1>1, <1>2, <1>5, <1>8, <1>9 DEF Lined
  <1> QED
    BY <1>2, <1>4, <1>6, <1>7, <1>10 DEF p

LEMMA NoneGathers ==
  ASSUME pendingAgg \in Seq(Burst), NEW lane, PendingIn(lane) = {}
  PROVE  \A a \in Bursts : a.lane # lane
  BY BurstIs DEF PendingIn

\* What Schedule does to the road, given what HeadOut says of the packet.
LEMMA JoinOrder ==
  ASSUME Clearance, Lined, Gathered, Driven, Later, NEW p \in Message, Join(p),
         p.id \in ToCome, p.id \in Nat, p.id <= LastId', Before({p.id}, ToCome')
  PROVE  Clearance' /\ Gathered' /\ Driven'
  <1>1. /\ PendingIn(p.lane) # {} /\ UNCHANGED roadVars
        /\ pendingAgg' = [i \in DOMAIN pendingAgg |->
                            IF i \in PendingIn(p.lane)
                            THEN [pendingAgg[i] EXCEPT !.pkts = Append(@, p.id)] ELSE pendingAgg[i]]
    BY DEF Join
  <1>2. Clearance' /\ OnRoad' = OnRoad
    BY <1>1, ClearanceStays
  <1>3. /\ DOMAIN pendingAgg = 1 .. Len(pendingAgg) /\ Len(pendingAgg) \in Nat
        /\ \A i \in DOMAIN pendingAgg : pendingAgg[i] \in Burst /\ pendingAgg[i] \in Bursts
        /\ \A a \in Bursts : /\ a \in Burst /\ a.pkts \in Seq(Nat) /\ \A x \in ToSet(a.pkts) : x \in Nat
    BY BurstIs DEF Gathered
  <1>4. \A a \in Bursts : /\ Rising(a.pkts) /\ Before(ToSet(a.pkts), ToCome)
                          /\ \A x \in ToSet(a.pkts) : x <= LastId
    BY DEF Gathered
  <1> DEFINE more(a) == [a EXCEPT !.pkts = Append(@, p.id)]
  <1>5. ASSUME NEW a \in Bursts
        PROVE  /\ more(a) \in Burst /\ more(a).lane = a.lane
               /\ ToSet(more(a).pkts) = ToSet(a.pkts) \cup {p.id} /\ Rising(more(a).pkts)
    <2>1. a \in Burst /\ a.pkts \in Seq(Nat) /\ Rising(a.pkts) /\ Before(ToSet(a.pkts), {p.id})
      BY <1>3, <1>4 DEF Before
    <2>2. /\ ToSet(Append(a.pkts, p.id)) = ToSet(a.pkts) \cup {p.id}
          /\ Append(a.pkts, p.id) # << >> /\ Rising(Append(a.pkts, p.id))
      BY <2>1, RisingAppend
    <2>3. Append(a.pkts, p.id) \in Seq(Nat)
      BY <2>1
    <2>4. more(a) \in Burst /\ more(a).lane = a.lane /\ more(a).pkts = Append(a.pkts, p.id)
      BY <2>1, <2>2, <2>3 DEF Burst, Group
    <2> QED
      BY <2>2, <2>4
  <1>6. /\ DOMAIN pendingAgg' = DOMAIN pendingAgg
        /\ \A i \in DOMAIN pendingAgg :
             pendingAgg'[i] = IF i \in PendingIn(p.lane) THEN more(pendingAgg[i]) ELSE pendingAgg[i]
    BY <1>1
  <1> HIDE DEF more
  <1>7. \A i \in DOMAIN pendingAgg : /\ pendingAgg'[i] \in Burst /\ pendingAgg'[i].lane = pendingAgg[i].lane
    BY <1>3, <1>5, <1>6
  <1>8. pendingAgg' \in Seq(Burst)
    <2> DEFINE B == Burst
    <2> HIDE DEF B
    <2>1. \A i \in 1 .. Len(pendingAgg) : pendingAgg'[i] \in B
      BY <1>3, <1>7 DEF B
    <2>2. pendingAgg' = [i \in 1 .. Len(pendingAgg) |-> pendingAgg'[i]]
      BY <1>1, <1>3
    <2>3. pendingAgg' \in Seq(B)
      BY <1>3, <2>1, <2>2
    <2> QED
      BY <2>3 DEF B
  <1>9. \A i, j \in DOMAIN pendingAgg' : pendingAgg'[i].lane = pendingAgg'[j].lane => i = j
    BY <1>6, <1>7 DEF Gathered
  <1>10. ASSUME NEW a \in Bursts'
         PROVE  \E b \in Bursts : a = b \/ a = more(b)
    <2>1. PICK i \in DOMAIN pendingAgg : a = pendingAgg'[i]
      BY <1>6 DEF Bursts, ToSet
    <2> QED
      BY <1>3, <1>6, <2>1
  <1>11. ASSUME NEW a \in Bursts'
         PROVE  /\ Rising(a.pkts) /\ Before(ToSet(a.pkts), ToCome')
                /\ \A x \in ToSet(a.pkts) : x <= LastId'
    <2>1. PICK b \in Bursts : a = b \/ a = more(b)
      BY <1>10
    <2>2. Rising(a.pkts) /\ \A x \in ToSet(a.pkts) : x \in ToSet(b.pkts) \/ x = p.id
      BY <1>4, <1>5, <2>1
    <2>3. LastId \in Nat /\ LastId' \in Nat /\ LastId <= LastId'
      BY DEF Later
    <2>4. ASSUME NEW x \in ToSet(a.pkts) PROVE x <= LastId'
      <3>1. CASE x \in ToSet(b.pkts)
        <4>1. x \in Nat /\ x <= LastId
          BY <1>3, <1>4, <3>1
        <4> QED
          BY <2>3, <4>1
      <3> QED
        BY <2>2, <2>4, <3>1
    <2>5. ASSUME NEW x \in ToSet(a.pkts), NEW y \in ToCome' PROVE x < y
      <3>1. CASE x = p.id
        BY <2>5, <3>1 DEF Before
      <3>2. CASE x \in ToSet(b.pkts) /\ y \in ToCome
        BY <1>4, <3>2 DEF Before
      <3>3. CASE x \in ToSet(b.pkts) /\ y \in Nat /\ LastId < y
        <4>1. x \in Nat /\ x <= LastId
          BY <1>3, <1>4, <3>3
        <4> QED
          BY <2>3, <3>3, <4>1
      <3> QED
        BY <2>2, <2>5, <3>1, <3>2, <3>3 DEF Later
    <2> QED
      BY <2>2, <2>4, <2>5 DEF Before
  <1>12. Joins
    <2>1. ASSUME NEW a \in Bursts', NEW y \in ToSet(a.pkts)
          PROVE  y \in ToCome \/ \E b \in Bursts : b.lane = a.lane /\ y \in ToSet(b.pkts)
      <3>1. PICK b \in Bursts : a = b \/ a = more(b)
        BY <1>10
      <3> QED
        BY <1>5, <2>1, <3>1
    <2> QED
      BY <2>1 DEF Joins
  <1>13. Driven'
    <2>1. pool \in [Kinds -> Seq(Vehicle)]
      BY DEF Clearance, RoadTypes
    <2> QED
      BY <1>2, <1>12, <2>1, DrivenStays
  <1> QED
    BY <1>2, <1>8, <1>9, <1>11, <1>13 DEF Gathered

\* A vehicle enters with packets that come after all that drives in its lane and
\* before all that is to come, and nothing gathers in the lane.
LEMMA PlaceOrder ==
  ASSUME Clearance, Lined, Gathered, Driven, Later,
         NEW kind \in Kinds, NEW lane \in Lanes, NEW len \in Nat \ {0}, NEW pkts \in Group,
         Place(kind, lane, len, pkts), Rising(pkts),
         Before(ToSet(pkts), ToCome'), \A x \in ToSet(pkts) : x <= LastId',
         \A v \in OnRoad : v.lane = lane => Before(ToSet(v.pkts), ToSet(pkts)),
         pendingAgg' \in Seq(Burst), Bursts' \subseteq Bursts, \A a \in Bursts' : a.lane # lane,
         \A i, j \in DOMAIN pendingAgg' : pendingAgg'[i].lane = pendingAgg'[j].lane => i = j
  PROVE  Clearance' /\ Gathered' /\ Driven'
  <1>1. Clearance' /\ Enters(lane, pkts)
    BY PlaceClear
  <1>2. PICK new \in Vehicle : /\ new.lane = lane /\ new.z = 0 /\ new.pkts = pkts
                               /\ OnRoad' \subseteq OnRoad \cup {new}
    BY <1>1 DEF Enters
  <1>3. Gathered'
    BY GatheredFewer
  <1>4. Driven'
    <2>1. Joins
      BY JoinsFewer
    <2>2. /\ Rising(new.pkts) /\ Before(ToSet(new.pkts), ToCome') /\ \A x \in ToSet(new.pkts) : x <= LastId'
          /\ \A v \in OnRoad : v.lane = new.lane => Before(ToSet(v.pkts), ToSet(new.pkts))
          /\ \A a \in Bursts' : a.lane # new.lane
      BY <1>2
    <2>3. pool \in [Kinds -> Seq(Vehicle)]
      BY DEF Clearance, RoadTypes
    <2> QED
      BY <1>2, <2>1, <2>2, <2>3, DrivenOneMore
  <1> QED
    BY <1>1, <1>3, <1>4

LEMMA DriveOrder ==
  ASSUME Clearance, Lined, Gathered, Driven, Later, NEW p \in Message, Drive(p),
         p.id \in ToCome, p.id \in Nat, p.id <= LastId', Before({p.id}, ToCome')
  PROVE  Clearance' /\ Gathered' /\ Driven'
  <1>1. /\ PendingIn(p.lane) = {} /\ pendingAgg' = pendingAgg
        /\ Place(p.kind, p.lane, Length[p.kind], <<p.id>>)
    BY DEF Drive
  <1>2. p.lane \in Lanes /\ p.kind \in Kinds /\ Length[p.kind] \in Nat \ {0}
    BY TrafficAssumption DEF Message
  <1>3. PICK one \in Group : one = <<p.id>> /\ ToSet(one) = {p.id} /\ Rising(one)
    BY One
  <1>4. PICK len \in Nat \ {0} : len = Length[p.kind]
    BY <1>2
  <1>5. Place(p.kind, p.lane, len, one)
    BY <1>1, <1>3, <1>4
  <1>6. \A v \in OnRoad : v.lane = p.lane => Before(ToSet(v.pkts), ToSet(one))
    BY <1>3 DEF Driven, Before
  <1>7. Before(ToSet(one), ToCome') /\ \A x \in ToSet(one) : x <= LastId'
    BY <1>3
  <1>8. Bursts' = Bursts
    BY <1>1 DEF Bursts
  <1>9. \A a \in Bursts' : a.lane # p.lane
    BY <1>1, <1>8, NoneGathers DEF Gathered
  <1>10. /\ pendingAgg' \in Seq(Burst)
         /\ \A i, j \in DOMAIN pendingAgg' : pendingAgg'[i].lane = pendingAgg'[j].lane => i = j
    BY <1>1 DEF Gathered
  <1>11. PICK kind \in Kinds, lane \in Lanes : kind = p.kind /\ lane = p.lane
    BY <1>2
  <1>12. Place(kind, lane, len, one) /\ Rising(one) /\ Bursts' \subseteq Bursts
    BY <1>3, <1>5, <1>8, <1>11
  <1>13. \A v \in OnRoad : v.lane = lane => Before(ToSet(v.pkts), ToSet(one))
    BY <1>6, <1>11
  <1>14. \A a \in Bursts' : a.lane # lane
    BY <1>9, <1>11
  <1> QED
    BY <1>7, <1>10, <1>12, <1>13, <1>14, PlaceOrder

\* A packet gathers in a lane where nothing does.
LEMMA GatherOrder ==
  ASSUME Clearance, Lined, Gathered, Driven, Later, NEW p \in Message, Gather(p),
         p.id \in ToCome, p.id \in Nat, p.id <= LastId', Before({p.id}, ToCome')
  PROVE  Clearance' /\ Gathered' /\ Driven'
  <1>1. /\ PendingIn(p.lane) = {} /\ UNCHANGED roadVars
        /\ pendingAgg' = Append(pendingAgg, [lane |-> p.lane, kind |-> p.kind, pkts |-> <<p.id>>])
    BY DEF Gather
  <1>2. Clearance' /\ OnRoad' = OnRoad
    BY <1>1, ClearanceStays
  <1>3. PICK one \in Group : one = <<p.id>> /\ ToSet(one) = {p.id} /\ Rising(one)
    BY One
  <1>4. PICK a \in Burst : a.lane = p.lane /\ a.pkts = one /\ pendingAgg' = Append(pendingAgg, a)
    <2> DEFINE a == [lane |-> p.lane, kind |-> p.kind, pkts |-> one]
    <2>1. a \in Burst /\ a.lane = p.lane /\ a.pkts = one
      BY <1>3 DEF Burst, Message
    <2>2. pendingAgg' = Append(pendingAgg, a)
      BY <1>1, <1>3
    <2> HIDE DEF a
    <2> QED
      BY <2>1, <2>2
  <1> DEFINE B == Burst
  <1> HIDE DEF B
  <1>5. pendingAgg \in Seq(B) /\ a \in B
    BY DEF Gathered, B
  <1>6. /\ pendingAgg' \in Seq(B) /\ DOMAIN pendingAgg' = 1 .. Len(pendingAgg) + 1
        /\ DOMAIN pendingAgg = 1 .. Len(pendingAgg) /\ Len(pendingAgg) \in Nat
        /\ pendingAgg'[Len(pendingAgg) + 1] = a
        /\ \A i \in DOMAIN pendingAgg : i \in DOMAIN pendingAgg' /\ pendingAgg'[i] = pendingAgg[i]
        /\ \A i \in DOMAIN pendingAgg' : i \in DOMAIN pendingAgg \/ i = Len(pendingAgg) + 1
    BY <1>4, <1>5, AppendIs
  <1>7. /\ \A i \in DOMAIN pendingAgg : pendingAgg[i] \in Bursts /\ pendingAgg[i].lane # p.lane
        /\ \A b \in Bursts : b.lane # p.lane
    BY <1>1, NoneGathers, BurstIs DEF Gathered
  <1>8. ASSUME NEW i \in DOMAIN pendingAgg', NEW j \in DOMAIN pendingAgg', pendingAgg'[i].lane = pendingAgg'[j].lane
        PROVE  i = j
    <2>1. CASE i \in DOMAIN pendingAgg /\ j \in DOMAIN pendingAgg
      BY <1>6, <1>8, <2>1 DEF Gathered
    <2>2. CASE i \in DOMAIN pendingAgg /\ j = Len(pendingAgg) + 1
      BY <1>4, <1>6, <1>7, <1>8, <2>2
    <2>3. CASE i = Len(pendingAgg) + 1 /\ j \in DOMAIN pendingAgg
      BY <1>4, <1>6, <1>7, <1>8, <2>3
    <2> QED
      BY <1>6, <1>8, <2>1, <2>2, <2>3
  <1>9. \A b \in Bursts' : b \in Bursts \/ b = a
    <2>1. ASSUME NEW b \in Bursts' PROVE b \in Bursts \/ b = a
      <3>1. PICK i \in DOMAIN pendingAgg' : b = pendingAgg'[i]
        BY <2>1 DEF Bursts, ToSet
      <3> QED
        BY <1>6, <1>7, <3>1
    <2> QED
      BY <2>1
  <1>10. Joins
    <2>1. \A y \in ToSet(a.pkts) : y \in ToCome
      BY <1>3, <1>4
    <2> QED
      BY <1>9, <2>1 DEF Joins
  <1>11. ASSUME NEW b \in Bursts'
         PROVE  /\ Rising(b.pkts) /\ Before(ToSet(b.pkts), ToCome')
                /\ \A x \in ToSet(b.pkts) : x <= LastId'
    <2>1. CASE b = a
      BY <1>3, <1>4, <2>1
    <2>2. CASE b \in Bursts
      <3>1. /\ Rising(b.pkts) /\ Before(ToSet(b.pkts), ToCome)
            /\ \A x \in ToSet(b.pkts) : x <= LastId /\ x \in Nat
        BY <2>2, BurstIs DEF Gathered
      <3>2. LastId \in Nat /\ LastId' \in Nat /\ LastId <= LastId'
        BY DEF Later
      <3>3. \A x \in ToSet(b.pkts) : x <= LastId'
        BY <3>1, <3>2
      <3>4. ASSUME NEW x \in ToSet(b.pkts), NEW y \in ToCome' PROVE x < y
        <4>1. CASE y \in ToCome
          BY <3>1, <3>4, <4>1 DEF Before
        <4>2. CASE y \in Nat /\ LastId < y
          BY <3>1, <3>2, <3>4, <4>2
        <4> QED
          BY <3>4, <4>1, <4>2 DEF Later
      <3> QED
        BY <3>1, <3>3, <3>4 DEF Before
    <2> QED
      BY <1>9, <1>11, <2>1, <2>2
  <1>12. Gathered'
    BY <1>6, <1>8, <1>11 DEF Gathered, B
  <1>13. Driven'
    <2>1. pool \in [Kinds -> Seq(Vehicle)]
      BY DEF Clearance, RoadTypes
    <2> QED
      BY <1>2, <1>10, <2>1, DrivenStays
  <1> QED
    BY <1>2, <1>12, <1>13

LEMMA ScheduleOrder ==
  ASSUME Clearance, Lined, Gathered, Driven, LastId \in Nat, LastId' = LastId,
         todo # << >>, Schedule(Head(todo)), todo' = Tail(todo), queue' = queue
  PROVE  Clearance' /\ Lined' /\ Gathered' /\ Driven'
  <1>1. PICK p \in Message : p = Head(todo)
    BY HeadOut
  <1>2. /\ p.id \in ToCome /\ p.id \in Nat /\ p.id <= LastId'
        /\ Before({p.id}, ToCome') /\ Later /\ Lined'
    BY <1>1, HeadOut
  <1>3. Join(p) \/ Drive(p) \/ Gather(p)
    BY <1>1 DEF Schedule
  <1>4. CASE Join(p)
    BY <1>2, <1>4, JoinOrder
  <1>5. CASE Drive(p)
    BY <1>2, <1>5, DriveOrder
  <1>6. CASE Gather(p)
    BY <1>2, <1>6, GatherOrder
  <1> QED
    BY <1>2, <1>3, <1>4, <1>5, <1>6

LEMMA LinedStays ==
  ASSUME Lined, LastId \in Nat, LastId' = LastId, todo' = todo, queue' = queue
  PROVE  Lined' /\ Later
  <1>1. Ids(todo)' = Ids(todo) /\ Ids(queue)' = Ids(queue)
    BY DEF Ids
  <1>2. ToCome' = ToCome
    BY <1>1 DEF ToCome
  <1>3. Later
    BY <1>2 DEF Later
  <1>4. InTurn(todo)' /\ InTurn(queue)' /\ Before(Ids(todo), Ids(queue))'
    BY <1>1 DEF Lined, InTurn, Before
  <1> QED
    BY <1>2, <1>3, <1>4 DEF Lined

\* A sequence without what is at one place.
LEMMA RemovedIs ==
  ASSUME NEW S, NEW s \in Seq(S), NEW i \in 1 .. Len(s)
  PROVE  LET r == RemoveAt(s, i)
         IN  /\ r \in Seq(S) /\ DOMAIN r = 1 .. Len(s) - 1
             /\ \A j \in 1 .. Len(s) - 1 : r[j] = IF j < i THEN s[j] ELSE s[j + 1]
  <1> DEFINE len == Len(s)
             a == SubSeq(s, 1, i - 1)
             b == SubSeq(s, i + 1, len)
             r == a \o b
  <1>1. len \in Nat /\ i \in Nat /\ 1 <= i /\ i <= len /\ DOMAIN s = 1 .. len /\ \A j \in 1 .. len : s[j] \in S
    OBVIOUS
  <1>2. b \in Seq(S) /\ Len(b) = len - i /\ \A j \in 1 .. len - i : b[j] = s[i + j]
    <2>1. i \in 0 .. len
      BY <1>1
    <2> QED
      BY <2>1, Rest
  <1>3. a \in Seq(S) /\ Len(a) = i - 1 /\ \A j \in 1 .. i - 1 : a[j] = s[j]
    BY <1>1
  <1> HIDE DEF a, b, len
  <1>4. /\ r \in Seq(S) /\ Len(r) = (i - 1) + (len - i)
        /\ \A j \in 1 .. (i - 1) + (len - i) : r[j] = IF j <= i - 1 THEN a[j] ELSE b[j - (i - 1)]
    BY <1>2, <1>3, ConcatProperties
  <1> HIDE DEF r
  <1>5. (i - 1) + (len - i) = len - 1
    BY <1>1
  <1>6. ASSUME NEW j \in 1 .. len - 1 PROVE r[j] = IF j < i THEN s[j] ELSE s[j + 1]
    <2>1. r[j] = IF j <= i - 1 THEN a[j] ELSE b[j - (i - 1)]
      BY <1>4, <1>5
    <2>2. CASE j < i
      <3>1. j <= i - 1 /\ j \in 1 .. i - 1
        BY <1>1, <2>2
      <3> QED
        BY <1>3, <2>1, <2>2, <3>1
    <2>3. CASE ~(j < i)
      <3>1. ~(j <= i - 1) /\ j - (i - 1) \in 1 .. len - i /\ i + (j - (i - 1)) = j + 1
        BY <1>1, <2>3
      <3>2. b[j - (i - 1)] = s[i + (j - (i - 1))]
        BY <1>2, <3>1
      <3> QED
        BY <2>1, <2>3, <3>1, <3>2
    <2> QED
      BY <2>2, <2>3
  <1>7. DOMAIN r = 1 .. len - 1
    <2>1. DOMAIN r = 1 .. Len(r)
      BY <1>4
    <2> QED
      BY <1>4, <1>5, <2>1
  <1>8. RemoveAt(s, i) = r
    BY DEF RemoveAt, r, a, b, len
  <1> QED
    BY <1>4, <1>6, <1>7, <1>8 DEF len

LEMMA LengthIs ==
  ASSUME NEW a \in Burst
  PROVE  LengthOf(a) \in Nat \ {0} /\ KindOf(a) \in Kinds
  <1> DEFINE s == a.pkts
             n == Len(s)
  <1>1. a.kind \in Kinds \ {Convoy} /\ s \in Seq(Nat)
    BY DEF Burst, Group
  <1>2. n \in Nat
    <2> HIDE DEF s
    <2> QED
      BY <1>1
  <1>3. Convoy \in Kinds /\ Length[a.kind] \in Nat \ {0}
    BY <1>1, TrafficAssumption
  <1>4. CASE IsConvoy(a)
    <2>1. n > 1
      BY <1>4 DEF IsConvoy
    <2> DEFINE m == IF n < LONGEST THEN n ELSE LONGEST
    <2> HIDE DEF n
    <2>2. m \in 1 .. LONGEST
      BY <1>2, <2>1, TrafficAssumption
    <2>3. ConvoyLength[m] \in Nat \ {0}
      BY <2>2, TrafficAssumption
    <2>4. LengthOf(a) = ConvoyLength[m] /\ KindOf(a) = Convoy
      BY <1>4 DEF LengthOf, KindOf, n
    <2> QED
      BY <1>3, <2>3, <2>4
  <1>5. CASE ~IsConvoy(a)
    <2>1. LengthOf(a) = Length[a.kind] /\ KindOf(a) = a.kind
      BY <1>5 DEF LengthOf, KindOf
    <2> QED
      BY <1>1, <1>3, <2>1
  <1> QED
    BY <1>4, <1>5

LEMMA FlushOrder ==
  ASSUME Clearance, Lined, Gathered, Driven, LastId \in Nat, LastId' = LastId,
         todo' = todo, queue' = queue, NEW lane \in Lanes, Flush(lane)
  PROVE  Clearance' /\ Lined' /\ Gathered' /\ Driven'
  <1>1. Lined' /\ Later
    BY LinedStays
  <1>2. PICK i \in PendingIn(lane) :
          LET agg == pendingAgg[i] IN
          \/ /\ Place(KindOf(agg), lane, LengthOf(agg), agg.pkts)
             /\ pendingAgg' = RemoveAt(pendingAgg, i)
          \/ UNCHANGED <<roadVars, pendingAgg>>
    BY DEF Flush
  <1>3. PICK agg : agg = pendingAgg[i]
    OBVIOUS
  <1>4. \/ /\ Place(KindOf(agg), lane, LengthOf(agg), agg.pkts)
           /\ pendingAgg' = RemoveAt(pendingAgg, i)
        \/ UNCHANGED roadVars /\ pendingAgg' = pendingAgg
    BY <1>2, <1>3
  <1>5. i \in DOMAIN pendingAgg /\ agg.lane = lane
    BY <1>3 DEF PendingIn
  <1>6. /\ DOMAIN pendingAgg = 1 .. Len(pendingAgg) /\ Len(pendingAgg) \in Nat
        /\ \A j \in DOMAIN pendingAgg : pendingAgg[j] \in Burst /\ pendingAgg[j] \in Bursts
        /\ agg \in Burst /\ agg \in Bursts /\ agg.pkts \in Group
    BY <1>3, <1>5, BurstIs DEF Gathered, Group
  <1>7. CASE UNCHANGED roadVars /\ pendingAgg' = pendingAgg
    <2>1. Clearance' /\ OnRoad' = OnRoad
      BY <1>7, ClearanceStays
    <2>2. Bursts' = Bursts
      BY <1>7 DEF Bursts
    <2>3. Gathered'
      <3>1. /\ pendingAgg' \in Seq(Burst)
            /\ \A j, k \in DOMAIN pendingAgg' : pendingAgg'[j].lane = pendingAgg'[k].lane => j = k
        BY <1>7 DEF Gathered
      <3> QED
        BY <1>1, <2>2, <3>1, GatheredFewer
    <2>4. pool \in [Kinds -> Seq(Vehicle)] /\ Joins
      BY <2>2, JoinsFewer DEF Clearance, RoadTypes
    <2> QED
      BY <1>1, <2>1, <2>3, <2>4, DrivenStays
  <1>8. CASE /\ Place(KindOf(agg), lane, LengthOf(agg), agg.pkts)
             /\ pendingAgg' = RemoveAt(pendingAgg, i)
    <2> DEFINE B == Burst
               len == Len(pendingAgg)
               new(j) == IF j < i THEN j ELSE j + 1
    <2> HIDE DEF B
    <2>1. pendingAgg \in Seq(B) /\ i \in 1 .. len /\ len \in Nat
      BY <1>5, <1>6 DEF Gathered, B
    <2>2. /\ pendingAgg' \in Seq(B) /\ DOMAIN pendingAgg' = 1 .. len - 1
          /\ \A j \in 1 .. len - 1 : pendingAgg'[j] = IF j < i THEN pendingAgg[j] ELSE pendingAgg[j + 1]
      BY <1>8, <2>1, RemovedIs
    <2> HIDE DEF len
    <2>3. ASSUME NEW j \in 1 .. len - 1
          PROVE  new(j) \in 1 .. len /\ new(j) # i /\ pendingAgg'[j] = pendingAgg[new(j)]
      BY <2>1, <2>2
    <2>4. ASSUME NEW j \in 1 .. len - 1, NEW k \in 1 .. len - 1, new(j) = new(k) PROVE j = k
      BY <2>1, <2>4
    <2> HIDE DEF new
    <2>5. DOMAIN pendingAgg = 1 .. len
      BY <1>6 DEF len
    <2>6. ASSUME NEW j \in DOMAIN pendingAgg', NEW k \in DOMAIN pendingAgg', pendingAgg'[j].lane = pendingAgg'[k].lane
          PROVE  j = k
      <3>1. new(j) = new(k)
        BY <2>2, <2>3, <2>5, <2>6 DEF Gathered
      <3> QED
        BY <2>2, <2>4, <2>6, <3>1
    <2>7. ASSUME NEW a \in Bursts' PROVE a \in Bursts /\ a.lane # lane
      <3>1. PICK j \in 1 .. len - 1 : a = pendingAgg'[j]
        BY <2>2, <2>7 DEF Bursts, ToSet
      <3>2. a = pendingAgg[new(j)] /\ new(j) \in DOMAIN pendingAgg /\ new(j) # i
        BY <2>3, <2>5, <3>1
      <3>3. pendingAgg[new(j)].lane # pendingAgg[i].lane
        BY <1>5, <3>2 DEF Gathered
      <3> QED
        BY <1>3, <1>5, <1>6, <3>2, <3>3
    <2>8. LengthOf(agg) \in Nat \ {0} /\ KindOf(agg) \in Kinds
      BY <1>6, LengthIs
    <2>9. PICK kind \in Kinds, leng \in Nat \ {0}, pkts \in Group : kind = KindOf(agg) /\ leng = LengthOf(agg) /\ pkts = agg.pkts
      BY <1>6, <2>8
    <2>10. Place(kind, lane, leng, pkts)
      BY <1>8, <2>9
    <2>11. /\ Rising(agg.pkts) /\ Before(ToSet(agg.pkts), ToCome)
           /\ \A x \in ToSet(agg.pkts) : x <= LastId
      BY <1>6 DEF Gathered
    <2>12. ToCome' = ToCome
      BY DEF ToCome, Ids
    <2>13. /\ Rising(pkts) /\ Before(ToSet(pkts), ToCome') /\ \A x \in ToSet(pkts) : x <= LastId'
      BY <2>9, <2>11, <2>12
    <2>14. \A v \in OnRoad : v.lane = lane => Before(ToSet(v.pkts), ToSet(pkts))
      BY <1>5, <1>6, <2>9 DEF Driven
    <2>15. pendingAgg' \in Seq(Burst) /\ Bursts' \subseteq Bursts /\ \A a \in Bursts' : a.lane # lane
      BY <2>2, <2>7 DEF B
    <2>16. \A j, k \in DOMAIN pendingAgg' : pendingAgg'[j].lane = pendingAgg'[k].lane => j = k
      BY <2>6
    <2>17. Clearance' /\ Gathered' /\ Driven'
      BY <1>1, <2>10, <2>13, <2>14, <2>15, <2>16, PlaceOrder
    <2> QED
      BY <1>1, <2>17
  <1> QED
    BY <1>4, <1>7, <1>8

-----------------------------------------------------------------------------
(* The frame, and the labels.                                               *)

FrameInv ==
  /\ frame \in {"none", "schedule", "flush"} /\ dt \in 0 .. FRAME
  /\ mode \in {"live", "pcap"} /\ received \in 0 .. MaxPackets
  /\ toFlush \in Seq(Lanes)
  /\ frame \in {"none", "flush"} => todo = << >>
  /\ mode = "pcap" => queue = << >>

LabelInv ==
  /\ IsFiniteSet(labeled) /\ Cardinality(labeled) <= LABELS
  /\ frame = "none" => labeled \subseteq Names

\* All of it.
RoadInv ==
  /\ PlaybackInv /\ FrameInv /\ LabelInv
  /\ Clearance /\ Lined /\ Gathered /\ Driven

LEMMA LastIdIs ==
  ASSUME PlaybackInv, FrameInv
  PROVE  LastId \in Nat /\ cursor \in Nat /\ received \in Nat /\ Len(packets) \in Nat /\ cursor <= Len(packets)
  <1>1. Len(packets) \in Nat
    <2>1. packets = << >> => Len(packets) = 0
      OBVIOUS
    <2>2. packets \in Captures => Len(packets) \in Nat
      BY CaptureIs
    <2> QED
      BY <2>1, <2>2 DEF PlaybackInv
  <1>2. received \in Nat
    BY RoadAssumption DEF FrameInv
  <1>3. cursor \in Nat /\ cursor <= Len(packets)
    BY <1>1 DEF PlaybackInv
  <1> QED
    BY <1>1, <1>2, <1>3 DEF LastId

LEMMA EmptyIds == Ids(<< >>) = {} /\ InTurn(<< >>) /\ << >> \in Seq(Message)
  <1> DEFINE M == Message
  <1> HIDE DEF M
  <1>1. DOMAIN << >> = {} /\ << >> \in Seq(M)
    OBVIOUS
  <1> QED
    BY <1>1 DEF Ids, InTurn, M

LEMMA IdsConcat ==
  ASSUME NEW s \in Seq(Message), NEW t \in Seq(Message), InTurn(s), InTurn(t), Before(Ids(s), Ids(t))
  PROVE  s \o t \in Seq(Message) /\ InTurn(s \o t) /\ Ids(s \o t) \subseteq Ids(s) \cup Ids(t)
  <1> DEFINE M == Message
             r == s \o t
             m == Len(s)
             n == Len(t)
  <1> HIDE DEF M
  <1>1. s \in Seq(M) /\ t \in Seq(M)
    BY DEF M
  <1>2. /\ r \in Seq(M) /\ Len(r) = m + n
        /\ \A i \in 1 .. m + n : r[i] = IF i <= m THEN s[i] ELSE t[i - m]
    BY <1>1, ConcatProperties
  <1>3. m \in Nat /\ n \in Nat /\ DOMAIN s = 1 .. m /\ DOMAIN t = 1 .. n
    BY <1>1
  <1> HIDE DEF r
  <1>4. DOMAIN r = 1 .. m + n
    BY <1>2
  <1> HIDE DEF m, n
  <1>5. ASSUME NEW i \in 1 .. m + n
        PROVE  \/ i \in 1 .. m /\ r[i] = s[i]
               \/ i \notin 1 .. m /\ i - m \in 1 .. n /\ r[i] = t[i - m]
    BY <1>2, <1>3
  <1>6. \A i \in 1 .. m : s[i].id \in Ids(s)
    BY <1>3 DEF Ids
  <1>7. \A i \in 1 .. n : t[i].id \in Ids(t)
    BY <1>3 DEF Ids
  <1>8. Ids(r) \subseteq Ids(s) \cup Ids(t)
    BY <1>4, <1>5, <1>6, <1>7 DEF Ids
  <1>9. ASSUME NEW i \in 1 .. m + n, NEW j \in 1 .. m + n, i < j PROVE r[i].id < r[j].id
    <2>1. CASE i \in 1 .. m /\ j \in 1 .. m
      BY <1>3, <1>5, <1>9, <2>1 DEF InTurn
    <2>2. CASE i \in 1 .. m /\ j \notin 1 .. m
      <3>1. r[i].id \in Ids(s) /\ r[j].id \in Ids(t)
        BY <1>5, <1>6, <1>7, <2>2
      <3> QED
        BY <3>1 DEF Before
    <2>3. CASE i \notin 1 .. m /\ j \notin 1 .. m
      <3>1. i - m \in 1 .. n /\ j - m \in 1 .. n /\ r[i] = t[i - m] /\ r[j] = t[j - m]
        BY <1>5, <2>3
      <3>2. i - m < j - m
        BY <1>3, <1>9
      <3> QED
        BY <1>3, <3>1, <3>2 DEF InTurn
    <2>4. CASE i \notin 1 .. m /\ j \in 1 .. m
      BY <1>3, <1>9, <2>4
    <2> QED
      BY <2>1, <2>2, <2>3, <2>4
  <1>10. InTurn(r)
    BY <1>4, <1>9 DEF InTurn
  <1> QED
    BY <1>2, <1>8, <1>10 DEF r, M

\* What the playback hands out in a frame.
LEMMA CrossedIs ==
  ASSUME PlaybackInv, PlaybackInv', packets' = packets, cursor <= cursor'
  PROVE  /\ CrossedPackets \in Seq(Message) /\ InTurn(CrossedPackets)
         /\ \A x \in Ids(CrossedPackets) : x \in Nat /\ cursor < x /\ x <= cursor'
  <1> DEFINE M == Message
             n == cursor' - cursor
             s == CrossedPackets
  <1>1. packets = << >> \/ packets \in Captures
    BY DEF PlaybackInv
  <1>2. Len(packets) \in Nat /\ cursor \in Nat /\ cursor' \in Nat /\ cursor' <= Len(packets)
    <2>1. packets = << >> => Len(packets) = 0
      OBVIOUS
    <2>2. packets \in Captures => Len(packets) \in Nat
      BY CaptureIs
    <2> QED
      BY <1>1, <2>1, <2>2 DEF PlaybackInv
  <1>3. n \in Nat /\ \A k \in 1 .. n : cursor + k \in 1 .. Len(packets) /\ cursor < cursor + k /\ cursor + k <= cursor'
    <2>1. \A a, b, c \in Nat : a <= b /\ b <= c =>
            b - a \in Nat /\ \A k \in 1 .. b - a : a + k \in 1 .. c /\ a < a + k /\ a + k <= b
      OBVIOUS
    <2> QED
      BY <1>2, <2>1
  <1>4. ASSUME NEW k \in 1 .. n PROVE Packet(cursor + k) \in M /\ Packet(cursor + k).id = cursor + k
    <2>1. cursor + k \in 1 .. Len(packets)
      BY <1>3
    <2>2. packets \in Captures
      <3>1. packets # << >>
        BY <2>1
      <3> QED
        BY <1>1, <3>1
    <2>3. packets[cursor + k].lane \in Lanes /\ packets[cursor + k].kind \in Kinds \ {Convoy} /\ cursor + k \in Nat
      BY <1>2, <2>1, <2>2, CaptureIs
    <2> QED
      BY <2>3 DEF Packet, Message
  <1>5. s = [k \in 1 .. n |-> Packet(cursor + k)]
    BY DEF CrossedPackets
  <1> HIDE DEF M, s
  <1>6. s \in Seq(M) /\ DOMAIN s = 1 .. n /\ \A k \in 1 .. n : s[k].id = cursor + k
    <2> HIDE DEF n
    <2>1. DOMAIN s = 1 .. n /\ \A k \in 1 .. n : s[k] = Packet(cursor + k)
      BY <1>5
    <2>2. s \in Seq(M)
      BY <1>3, <1>4, <1>5
    <2> QED
      BY <1>4, <2>1, <2>2
  <1> HIDE DEF n
  <1>7. InTurn(s)
    <2>1. \A i, j \in 1 .. n : i < j => cursor + i < cursor + j
      BY <1>2, <1>3
    <2> QED
      BY <1>6, <2>1 DEF InTurn
  <1>8. \A x \in Ids(s) : x \in Nat /\ cursor < x /\ x <= cursor'
    <2>1. \A x \in Ids(s) : \E k \in 1 .. n : x = cursor + k
      BY <1>6 DEF Ids
    <2>2. \A k \in 1 .. n : cursor + k \in Nat
      BY <1>2, <1>3
    <2> QED
      BY <1>3, <2>1, <2>2
  <1> QED
    BY <1>6, <1>7, <1>8 DEF s, M

LEMMA StepPlays ==
  ASSUME RoadInv, NEW d \in 0 .. FRAME, NEW n \in 0 .. Len(queue), Step(d, n)
  PROVE  /\ PlaybackInv' /\ packets' = packets /\ cursor <= cursor'
         /\ mode' = mode /\ received' = received
         /\ mode = "live" => cursor' = cursor
  <1>1. PlaybackInv /\ mode' = mode /\ received' = received
    BY DEF RoadInv, Step
  <1>2. CASE mode = "pcap" /\ Loaded
    <2>1. PlaybackTick(d) /\ d \in Nat
      BY <1>2, TrafficAssumption DEF Step
    <2> QED
      BY <1>1, <1>2, <2>1, TickInv
  <1>3. CASE ~(mode = "pcap" /\ Loaded)
    <2>1. packets' = packets /\ clock' = clock /\ cursor' = cursor /\ playing' = playing
      BY <1>3 DEF Step, playbackVars
    <2>2. PlaybackInv'
      BY <1>1, <2>1 DEF PlaybackInv, CursorExact
    <2>3. cursor <= cursor'
      BY <2>1, LastIdIs DEF RoadInv
    <2> QED
      BY <1>1, <2>1, <2>2, <2>3
  <1> QED
    BY <1>2, <1>3

\* Nothing happens on the road.
LEMMA RoadStays ==
  ASSUME Clearance, Lined, Gathered, Driven, Later, UNCHANGED roadVars, pendingAgg' = pendingAgg
  PROVE  Clearance' /\ Gathered' /\ Driven' /\ OnRoad' = OnRoad
  <1>1. Clearance' /\ OnRoad' = OnRoad
    BY ClearanceStays
  <1>2. Bursts' = Bursts
    BY DEF Bursts
  <1>3. Gathered'
    <2>1. /\ pendingAgg' \in Seq(Burst)
          /\ \A j, k \in DOMAIN pendingAgg' : pendingAgg'[j].lane = pendingAgg'[k].lane => j = k
      BY DEF Gathered
    <2> QED
      BY <1>2, <2>1, GatheredFewer
  <1>4. pool \in [Kinds -> Seq(Vehicle)] /\ Joins
    BY <1>2, JoinsFewer DEF Clearance, RoadTypes
  <1> QED
    BY <1>1, <1>3, <1>4, DrivenStays

LEMMA OnPacketsInv ==
  ASSUME RoadInv, NEW lane \in Lanes, NEW kind \in Kinds \ {Convoy}, OnPackets(lane, kind)
  PROVE  RoadInv'
  <1>1. /\ PlaybackInv /\ FrameInv /\ LabelInv /\ Clearance /\ Lined /\ Gathered /\ Driven
    BY DEF RoadInv
  <1> DEFINE m == [id |-> received + 1, lane |-> lane, kind |-> kind]
  <1>2. /\ mode = "live" /\ received < MaxPackets /\ frame = "none" /\ queue' = Append(queue, m)
        /\ received' = received + 1 /\ mode' = mode
        /\ UNCHANGED <<packets, clock, cursor, playing, frame, dt, todo, toFlush, roadVars, pendingAgg, labeled>>
    BY DEF OnPackets, Ingest, playbackVars
  <1>3. received \in Nat /\ cursor \in Nat /\ MaxPackets \in Nat
    BY <1>1, LastIdIs, RoadAssumption
  <1>4. m \in Message /\ m.id = received + 1
    BY <1>3 DEF Message
  <1> HIDE DEF m
  <1>5. LastId = received /\ LastId' = received + 1 /\ todo = << >> /\ todo' = << >>
    BY <1>1, <1>2 DEF LastId, FrameInv
  <1>6. /\ queue \in Seq(Message) /\ InTurn(queue) /\ \A x \in Ids(queue) : x \in Nat /\ x <= received
    BY <1>1, <1>5, ToComeIs DEF Lined, ToCome
  <1>7. Before(Ids(queue), {m.id})
    BY <1>3, <1>4, <1>6 DEF Before
  <1>8. queue' \in Seq(Message) /\ InTurn(queue') /\ Ids(queue') = Ids(queue) \cup {received + 1}
    BY <1>2, <1>4, <1>6, <1>7, IdsAppend
  <1>9. Ids(todo) = {} /\ Ids(todo') = {} /\ InTurn(todo') /\ todo' \in Seq(Message)
    BY <1>5, EmptyIds
  <1>10. ToCome' = Ids(queue') /\ ToCome = Ids(queue)
    BY <1>9 DEF ToCome, Ids
  <1>11. Lined'
    <2>1. Before(Ids(todo'), Ids(queue'))
      BY <1>9 DEF Before
    <2>2. \A x \in ToCome' : x <= LastId'
      BY <1>3, <1>5, <1>6, <1>8, <1>10
    <2> QED
      BY <1>8, <1>9, <2>1, <2>2 DEF Lined, InTurn, Before, Ids
  <1>12. Later
    BY <1>3, <1>5, <1>8, <1>10 DEF Later
  <1>13. Clearance' /\ Gathered' /\ Driven' /\ OnRoad' = OnRoad
    BY <1>1, <1>2, <1>12, RoadStays
  <1>14. PlaybackInv'
    BY <1>1, <1>2 DEF PlaybackInv, CursorExact
  <1>15. FrameInv'
    BY <1>1, <1>2, <1>3 DEF FrameInv
  <1>16. LabelInv'
    BY <1>1, <1>2, <1>13 DEF LabelInv, Names
  <1> QED
    BY <1>11, <1>13, <1>14, <1>15, <1>16 DEF RoadInv

LEMMA StepInv ==
  ASSUME RoadInv, NEW d \in 0 .. FRAME, NEW n \in 0 .. Len(queue), Step(d, n)
  PROVE  RoadInv'
  <1>1. /\ PlaybackInv /\ FrameInv /\ LabelInv /\ Clearance /\ Lined /\ Gathered /\ Driven
    BY DEF RoadInv
  <1>2. /\ PlaybackInv' /\ packets' = packets /\ cursor <= cursor'
        /\ mode' = mode /\ received' = received
        /\ mode = "live" => cursor' = cursor
    BY StepPlays
  <1> DEFINE crossed == CrossedPackets
             due == SubSeq(queue, 1, n)
             rest == SubSeq(queue, n + 1, Len(queue))
  <1>3. /\ frame = "none" /\ frame' = "schedule" /\ dt' = d /\ todo' = crossed \o due
        /\ queue' = << >> \/ queue' = rest
        /\ toFlush' = toFlush /\ UNCHANGED roadVars /\ pendingAgg' = pendingAgg /\ labeled' = labeled
    BY DEF Step, BeginFrame
  <1>4. /\ crossed \in Seq(Message) /\ InTurn(crossed)
        /\ \A x \in Ids(crossed) : x \in Nat /\ cursor < x /\ x <= cursor'
    BY <1>1, <1>2, CrossedIs
  <1>5. /\ queue \in Seq(Message) /\ InTurn(queue) /\ todo = << >> /\ Ids(todo) = {}
        /\ \A x \in Ids(queue) : x \in Nat /\ x <= LastId
    BY <1>1, <1>3, ToComeIs, EmptyIds DEF Lined, FrameInv, ToCome
  <1>6. /\ due \in Seq(Message) /\ rest \in Seq(Message)
        /\ InTurn(due) /\ InTurn(rest) /\ Ids(due) \subseteq Ids(queue) /\ Ids(rest) \subseteq Ids(queue)
        /\ Before(Ids(due), Ids(rest))
    BY <1>5, IdsCut
  <1> HIDE DEF crossed, due, rest
  <1>7. /\ LastId \in Nat /\ LastId' \in Nat /\ cursor \in Nat /\ cursor' \in Nat /\ LastId <= LastId'
        /\ mode = "live" => Ids(crossed) = {}
        /\ mode = "pcap" => Ids(queue) = {} /\ LastId = cursor /\ LastId' = cursor'
        /\ mode \in {"live", "pcap"}
    <2>1. LastId \in Nat /\ cursor \in Nat /\ received \in Nat /\ mode \in {"live", "pcap"}
      BY <1>1, LastIdIs DEF FrameInv
    <2>2. cursor' \in Nat
      <3>1. Len(packets) \in Nat
        BY <1>1, LastIdIs
      <3> QED
        BY <1>2, <3>1 DEF PlaybackInv
    <2>3. CASE mode = "live"
      <3>1. cursor' = cursor /\ LastId = received /\ LastId' = received
        BY <1>2, <2>3 DEF LastId
      <3>2. Ids(crossed) = {}
        BY <1>4, <2>1, <3>1
      <3> QED
        BY <2>1, <2>2, <2>3, <3>1, <3>2
    <2>4. CASE mode = "pcap"
      <3>1. LastId = cursor /\ LastId' = cursor'
        BY <1>2, <2>4 DEF LastId
      <3>2. Ids(queue) = {}
        BY <1>1, <2>4, EmptyIds DEF FrameInv
      <3> QED
        BY <1>2, <2>1, <2>2, <2>4, <3>1, <3>2
    <2> QED
      BY <2>1, <2>3, <2>4
  <1>8. Before(Ids(crossed), Ids(queue))
    BY <1>7 DEF Before
  <1>9. todo' \in Seq(Message) /\ InTurn(todo') /\ Ids(todo') \subseteq Ids(crossed) \cup Ids(due)
    <2>1. Before(Ids(crossed), Ids(due))
      BY <1>6, <1>8 DEF Before
    <2> QED
      BY <1>3, <1>4, <1>6, <2>1, IdsConcat
  <1>10. /\ queue' \in Seq(Message) /\ InTurn(queue') /\ Ids(queue') \subseteq Ids(rest)
    BY <1>3, <1>6, EmptyIds
  <1>11. Before(Ids(todo'), Ids(queue'))
    BY <1>6, <1>8, <1>9, <1>10 DEF Before
  <1>12. ToCome' = Ids(todo') \cup Ids(queue') /\ ToCome = Ids(queue)
    BY <1>5 DEF ToCome, Ids
  <1>13. ToCome' \subseteq Ids(crossed) \cup Ids(queue)
    BY <1>6, <1>9, <1>10, <1>12
  <1>14. \A x \in ToCome' : x <= LastId' /\ (x \in ToCome \/ (x \in Nat /\ LastId < x))
    <2>1. ASSUME NEW x \in Ids(crossed) PROVE x <= LastId' /\ x \in Nat /\ LastId < x
      BY <1>4, <1>7, <2>1
    <2>2. ASSUME NEW x \in Ids(queue) PROVE x <= LastId' /\ x \in ToCome
      BY <1>5, <1>7, <1>12, <2>2
    <2> QED
      BY <1>13, <2>1, <2>2
  <1>15. Later
    BY <1>7, <1>14 DEF Later
  <1>16. Lined'
    BY <1>9, <1>10, <1>11, <1>14 DEF Lined, InTurn, Before, Ids
  <1>17. Clearance' /\ Gathered' /\ Driven'
    BY <1>1, <1>3, <1>15, RoadStays
  <1>18. FrameInv'
    <2>1. mode' = "pcap" => queue' = << >>
      <3>1. ASSUME mode = "pcap", queue' = rest PROVE queue' = << >>
        <4>1. queue = << >> /\ Len(queue) = 0 /\ n = 0
          BY <1>1, <3>1 DEF FrameInv
        <4>2. rest = << >>
          BY <4>1 DEF rest
        <4> QED
          BY <3>1, <4>2
      <3> QED
        BY <1>2, <1>3, <3>1
    <2> QED
      BY <1>1, <1>2, <1>3, <2>1 DEF FrameInv
  <1>19. LabelInv'
    BY <1>1, <1>3 DEF LabelInv
  <1> QED
    BY <1>2, <1>16, <1>17, <1>18, <1>19 DEF RoadInv

LEMMA LabelOne ==
  ASSUME NEW agg, IsFiniteSet(labeled), Cardinality(labeled) <= LABELS, labeled' = WithLabel(agg)
  PROVE  IsFiniteSet(labeled') /\ Cardinality(labeled') <= LABELS
  <1>1. Cardinality(labeled) \in Nat /\ LABELS \in Nat
    BY FS_CardinalityType, TrafficAssumption
  <1>2. CASE labeled' = labeled
    BY <1>2
  <1>3. CASE labeled' = labeled \cup {agg.pkts[1]} /\ Cardinality(labeled) < LABELS
    <2>1. /\ IsFiniteSet(labeled \cup {agg.pkts[1]})
          /\ Cardinality(labeled \cup {agg.pkts[1]}) =
               IF agg.pkts[1] \in labeled THEN Cardinality(labeled) ELSE Cardinality(labeled) + 1
      BY FS_AddElement
    <2> QED
      BY <1>1, <1>3, <2>1
  <1> QED
    BY <1>2, <1>3 DEF WithLabel

LEMMA FrameStepInv ==
  ASSUME RoadInv, UpdateGoesOn
  PROVE  RoadInv'
  <1>1. /\ PlaybackInv /\ FrameInv /\ LabelInv /\ Clearance /\ Lined /\ Gathered /\ Driven
    BY DEF RoadInv
  <1>2. /\ UNCHANGED <<packets, clock, cursor, playing, mode, received>>
        /\ ScheduleNext \/ BeginFlush \/ FlushNext \/ Move
    BY DEF UpdateGoesOn, FrameStep, playbackVars
  <1>3. PlaybackInv' /\ LastId \in Nat /\ LastId' = LastId
    <2>1. PlaybackInv' /\ LastId' = LastId
      BY <1>1, <1>2 DEF PlaybackInv, CursorExact, LastId
    <2> QED
      BY <1>1, <2>1, LastIdIs
  <1>4. CASE ScheduleNext
    <2>1. /\ frame = "schedule" /\ todo # << >> /\ Schedule(Head(todo)) /\ todo' = Tail(todo)
          /\ UNCHANGED <<queue, frame, dt, toFlush, labeled>>
      BY <1>4 DEF ScheduleNext
    <2>2. Clearance' /\ Lined' /\ Gathered' /\ Driven'
      BY <1>1, <1>3, <2>1, ScheduleOrder
    <2>3. FrameInv' /\ LabelInv'
      BY <1>1, <1>2, <2>1 DEF FrameInv, LabelInv
    <2> QED
      BY <1>3, <2>2, <2>3 DEF RoadInv
  <1>5. CASE BeginFlush
    <2>1. /\ frame = "schedule" /\ todo = << >> /\ frame' = "flush"
          /\ toFlush' = [i \in DOMAIN pendingAgg |-> pendingAgg[i].lane]
          /\ UNCHANGED <<queue, dt, todo, roadVars, pendingAgg, labeled>>
      BY <1>5 DEF BeginFlush
    <2>2. Lined' /\ Later
      BY <1>1, <1>3, <2>1, LinedStays
    <2>3. Clearance' /\ Gathered' /\ Driven'
      BY <1>1, <2>1, <2>2, RoadStays
    <2>4. toFlush' \in Seq(Lanes)
      <3>1. /\ DOMAIN pendingAgg = 1 .. Len(pendingAgg) /\ Len(pendingAgg) \in Nat
            /\ \A i \in DOMAIN pendingAgg : pendingAgg[i].lane \in Lanes
        BY <1>1, BurstIs DEF Gathered
      <3> QED
        BY <2>1, <3>1
    <2>5. FrameInv' /\ LabelInv'
      BY <1>1, <1>2, <2>1, <2>4 DEF FrameInv, LabelInv
    <2> QED
      BY <1>3, <2>2, <2>3, <2>5 DEF RoadInv
  <1>6. CASE FlushNext
    <2>1. /\ frame = "flush" /\ toFlush # << >> /\ Flush(Head(toFlush)) /\ toFlush' = Tail(toFlush)
          /\ UNCHANGED <<queue, frame, dt, todo>>
      BY <1>6 DEF FlushNext
    <2>2. Head(toFlush) \in Lanes /\ Tail(toFlush) \in Seq(Lanes)
      <3>1. toFlush \in Seq(Lanes)
        BY <1>1 DEF FrameInv
      <3> QED
        BY <2>1, <3>1, TailIs
    <2>3. PICK lane \in Lanes : Flush(lane)
      BY <2>1, <2>2
    <2>4. Clearance' /\ Lined' /\ Gathered' /\ Driven'
      BY <1>1, <1>3, <2>1, <2>3, FlushOrder
    <2>5. FrameInv'
      BY <1>1, <1>2, <2>1, <2>2 DEF FrameInv
    <2>6. LabelInv'
      <3>1. labeled' = labeled \/ \E agg : labeled' = WithLabel(agg)
        BY <2>3 DEF Flush
      <3>2. IsFiniteSet(labeled') /\ Cardinality(labeled') <= LABELS
        BY <1>1, <3>1, LabelOne DEF LabelInv
      <3> QED
        BY <2>1, <3>2 DEF LabelInv
    <2> QED
      BY <1>3, <2>4, <2>5, <2>6 DEF RoadInv
  <1>7. CASE Move
    <2>1. /\ frame = "flush" /\ frame' = "none" /\ dt' = 0
          /\ pool' = [k \in Kinds |-> Moved(k)] /\ labeled' = LabelsLeft
          /\ UNCHANGED <<queue, todo, toFlush, tails, lastSub, tailTaken, pendingAgg>>
      BY <1>7 DEF Move
    <2>2. dt \in Nat
      BY <1>1, TrafficAssumption DEF FrameInv
    <2>3. Lined' /\ Later
      BY <1>1, <1>3, <2>1, LinedStays
    <2>4. Clearance'
      BY <1>1, <2>1, <2>2, MoveClear
    <2>5. Bursts' = Bursts
      BY <2>1 DEF Bursts
    <2>6. Gathered'
      <3>1. /\ pendingAgg' \in Seq(Burst)
            /\ \A j, k \in DOMAIN pendingAgg' : pendingAgg'[j].lane = pendingAgg'[k].lane => j = k
        BY <1>1, <2>1 DEF Gathered
      <3> QED
        BY <1>1, <2>3, <2>5, <3>1, GatheredFewer
    <2>7. Driven'
      <3>1. Joins /\ RoadTypes
        BY <1>1, <2>5, JoinsFewer DEF Clearance
      <3> QED
        BY <1>1, <2>1, <2>2, <2>3, <3>1, DrivenMoves
    <2>8. FrameInv'
      <3>1. 0 \in 0 .. FRAME
        BY TrafficAssumption
      <3> QED
        BY <1>1, <1>2, <2>1, <3>1 DEF FrameInv
    <2>9. LabelInv'
      <3>1. labeled' \subseteq labeled
        BY <2>1 DEF LabelsLeft
      <3>2. IsFiniteSet(labeled') /\ Cardinality(labeled') <= Cardinality(labeled)
        BY <1>1, <3>1, FS_Subset DEF LabelInv
      <3>3. Cardinality(labeled') \in Nat /\ Cardinality(labeled) \in Nat /\ LABELS \in Nat
        BY <1>1, <3>2, FS_CardinalityType, TrafficAssumption DEF LabelInv
      <3>4. Cardinality(labeled') <= LABELS
        BY <1>1, <3>2, <3>3 DEF LabelInv
      <3>5. \A k \in Kinds : pool'[k] = Moved(k)
        BY <2>1
      <3>6. labeled' \subseteq Names'
        <4>1. ASSUME NEW x \in labeled' PROVE x \in Names'
          <5>1. PICK k \in Kinds : \E v \in ToSet(Moved(k)) : x = Name(v)
            BY <2>1, <4>1 DEF LabelsLeft
          <5>2. PICK v \in ToSet(pool'[k]) : x = Name(v)
            BY <3>5, <5>1
          <5>3. v \in OnRoad'
            BY DEF OnRoad
          <5> QED
            BY <5>2, <5>3 DEF Names
        <4> QED
          BY <4>1
      <3> QED
        BY <3>2, <3>4, <3>6 DEF LabelInv
    <2> QED
      BY <1>3, <2>3, <2>4, <2>6, <2>7, <2>8, <2>9 DEF RoadInv
  <1> QED
    BY <1>2, <1>4, <1>5, <1>6, <1>7

\* The world is reset: nothing is on the road or to come.
LEMMA ClearInv ==
  ASSUME FrameInv, Clear, PlaybackInv', LastId' \in Nat, mode' \in {"live", "pcap"}, received' = received
  PROVE  RoadInv'
  <1>1. /\ frame = "none" /\ queue' = << >> /\ pool' = [k \in Kinds |-> << >>]
        /\ tails' = [lane \in Lanes |-> [sub \in Files |-> NoVehicle]]
        /\ lastSub' = [lane \in Lanes |-> 1] /\ pendingAgg' = << >> /\ labeled' = {} /\ tailTaken' = FALSE
        /\ UNCHANGED <<frame, dt, todo, toFlush>>
    BY DEF Clear
  <1>2. Clearance' /\ OnRoad' = {}
    BY <1>1, EmptyClear
  <1>3. todo' = << >>
    BY <1>1 DEF FrameInv
  <1>4. Ids(todo') = {} /\ Ids(queue') = {} /\ InTurn(todo') /\ InTurn(queue')
        /\ todo' \in Seq(Message) /\ queue' \in Seq(Message)
    BY <1>1, <1>3, EmptyIds
  <1>5. ToCome' = {}
    BY <1>4 DEF ToCome, Ids
  <1>6. Lined'
    BY <1>4, <1>5 DEF Lined, InTurn, Before, Ids
  <1>7. Gathered'
    <2> DEFINE B == Burst
    <2> HIDE DEF B
    <2>1. pendingAgg' \in Seq(B) /\ DOMAIN pendingAgg' = {}
      BY <1>1
    <2>2. Bursts' = {}
      BY <2>1 DEF Bursts, ToSet
    <2> QED
      BY <2>1, <2>2 DEF Gathered, B
  <1>8. Driven'
    BY <1>2 DEF Driven
  <1>9. FrameInv'
    BY <1>1 DEF FrameInv
  <1>10. LabelInv'
    <2>1. IsFiniteSet({}) /\ Cardinality({}) = 0 /\ 0 <= LABELS
      BY FS_EmptySet, TrafficAssumption
    <2> QED
      BY <1>1, <2>1 DEF LabelInv
  <1> QED
    BY <1>2, <1>6, <1>7, <1>8, <1>9, <1>10 DEF RoadInv

LEMMA LastIdAfter ==
  ASSUME PlaybackInv', received' \in Nat
  PROVE  LastId' \in Nat
  <1>1. Len(packets') \in Nat
    <2>1. packets' = << >> => Len(packets') = 0
      OBVIOUS
    <2>2. packets' \in Captures => Len(packets') \in Nat
      BY CaptureIs
    <2> QED
      BY <2>1, <2>2 DEF PlaybackInv
  <1>2. cursor' \in Nat
    BY <1>1 DEF PlaybackInv
  <1> QED
    BY <1>2 DEF LastId

LEMMA RoadInitInv == Init => RoadInv
  <1> SUFFICES ASSUME Init PROVE RoadInv
    OBVIOUS
  <1>1. /\ queue = << >> /\ todo = << >> /\ toFlush = << >> /\ frame = "none" /\ dt = 0
        /\ pool = [k \in Kinds |-> << >>]
        /\ tails = [lane \in Lanes |-> [sub \in Files |-> NoVehicle]]
        /\ lastSub = [lane \in Lanes |-> 1] /\ pendingAgg = << >> /\ labeled = {} /\ tailTaken = FALSE
        /\ mode = "live" /\ received = 0 /\ PlaybackInit
    BY DEF Init, TrafficInit
  <1>2. PlaybackInv
    BY <1>1, PlaybackInitInv
  <1>3. /\ Ids(todo) = {} /\ Ids(queue) = {} /\ InTurn(todo) /\ InTurn(queue)
        /\ todo \in Seq(Message) /\ queue \in Seq(Message)
    BY <1>1, EmptyIds
  <1>4. ToCome = {} /\ Lined
    BY <1>3 DEF ToCome, Lined, Before
  <1>5. OnRoad = {} /\ \A k \in Kinds : Len(pool[k]) <= Cap[k]
    <2>1. DOMAIN << >> = {} /\ Len(<< >>) = 0
      OBVIOUS
    <2>2. OnRoad = {}
      BY <1>1, <2>1 DEF OnRoad, ToSet
    <2> QED
      BY <1>1, <2>1, <2>2, TrafficAssumption
  <1>6. Clearance
    <2> DEFINE V == Vehicle
    <2> HIDE DEF V
    <2>1. pool \in [Kinds -> Seq(V)]
      BY <1>1
    <2>2. tails \in [Lanes -> [Files -> Nat]] /\ lastSub \in [Lanes -> Files]
      BY <1>1 DEF Files, NoVehicle
    <2>3. RoadTypes
      BY <1>1, <1>5, <2>1, <2>2 DEF RoadTypes, V
    <2> QED
      BY <1>5, <2>3 DEF Clearance, Behind, NoOverlap
  <1>7. Gathered
    <2> DEFINE B == Burst
    <2> HIDE DEF B
    <2>1. pendingAgg \in Seq(B) /\ DOMAIN pendingAgg = {}
      BY <1>1
    <2>2. Bursts = {}
      BY <2>1 DEF Bursts, ToSet
    <2> QED
      BY <2>1, <2>2 DEF Gathered, B
  <1>8. Driven
    BY <1>5 DEF Driven
  <1>9. FrameInv
    <2>1. << >> \in Seq(Lanes) /\ 0 \in 0 .. FRAME /\ 0 \in 0 .. MaxPackets
      BY TrafficAssumption, RoadAssumption
    <2> QED
      BY <1>1, <2>1 DEF FrameInv
  <1>10. LabelInv
    <2>1. IsFiniteSet({}) /\ Cardinality({}) = 0 /\ 0 <= LABELS
      BY FS_EmptySet, TrafficAssumption
    <2> QED
      BY <1>1, <2>1 DEF LabelInv
  <1> QED
    BY <1>2, <1>4, <1>6, <1>7, <1>8, <1>9, <1>10 DEF RoadInv

LEMMA RoadNextInv == RoadInv /\ [Next]_vars => RoadInv'
  <1> SUFFICES ASSUME RoadInv, [Next]_vars PROVE RoadInv'
    OBVIOUS
  <1>1. /\ PlaybackInv /\ FrameInv /\ LabelInv /\ Clearance /\ Lined /\ Gathered /\ Driven
    BY DEF RoadInv
  <1>2. LastId \in Nat /\ received \in Nat /\ mode \in {"live", "pcap"}
    BY <1>1, LastIdIs DEF FrameInv
  <1>3. ASSUME UNCHANGED <<trafficVars, playbackVars, mode, received>> \/
               /\ UNCHANGED <<trafficVars, packets, clock, cursor, mode, received>>
               /\ playing' \in BOOLEAN
        PROVE  RoadInv'
    <2>1. /\ UNCHANGED <<queue, frame, dt, todo, toFlush, roadVars, pendingAgg, labeled>>
          /\ UNCHANGED <<packets, clock, cursor, mode, received>> /\ playing' \in BOOLEAN
      BY <1>1, <1>3 DEF trafficVars, playbackVars, PlaybackInv
    <2>2. PlaybackInv'
      BY <1>1, <2>1 DEF PlaybackInv, CursorExact
    <2>3. LastId' = LastId
      BY <2>1 DEF LastId
    <2>4. Lined' /\ Later
      BY <1>1, <1>2, <2>1, <2>3, LinedStays
    <2>5. Clearance' /\ Gathered' /\ Driven' /\ OnRoad' = OnRoad
      BY <1>1, <2>1, <2>4, RoadStays
    <2>6. FrameInv' /\ LabelInv'
      BY <1>1, <2>1, <2>5 DEF FrameInv, LabelInv, Names
    <2> QED
      BY <2>2, <2>4, <2>5, <2>6 DEF RoadInv
  <1>4. ASSUME NEW lane \in Lanes, NEW kind \in Kinds \ {Convoy}, OnPackets(lane, kind) PROVE RoadInv'
    BY <1>4, OnPacketsInv
  <1>5. ASSUME NEW d \in 0 .. FRAME, NEW n \in 0 .. Len(queue), Step(d, n) PROVE RoadInv'
    BY <1>5, StepInv
  <1>6. CASE UpdateGoesOn
    BY <1>6, FrameStepInv
  <1>7. CASE SwitchMode
    <2>1. /\ mode' \in {"live", "pcap"} /\ playing' = FALSE /\ Clear
          /\ UNCHANGED <<packets, clock, cursor, received>>
      BY <1>7 DEF SwitchMode
    <2>2. PlaybackInv'
      BY <1>1, <2>1 DEF PlaybackInv, CursorExact
    <2> QED
      BY <1>1, <1>2, <2>1, <2>2, LastIdAfter, ClearInv
  <1>8. CASE StartCapture
    <2>1. Clear /\ UNCHANGED <<packets, clock, cursor, playing, mode, received>>
      BY <1>8 DEF StartCapture, playbackVars
    <2>2. PlaybackInv'
      BY <1>1, <2>1 DEF PlaybackInv, CursorExact
    <2> QED
      BY <1>1, <1>2, <2>1, <2>2, LastIdAfter, ClearInv
  <1>9. ASSUME NEW c \in Captures, LoadTimeline(c) PROVE RoadInv'
    <2>1. Load(c) /\ Clear /\ UNCHANGED <<mode, received>>
      BY <1>9 DEF LoadTimeline
    <2>2. PlaybackInv'
      BY <2>1, LoadInv
    <2> QED
      BY <1>1, <1>2, <2>1, <2>2, LastIdAfter, ClearInv
  <1>10. ASSUME Loaded, NEW time \in 0 .. End, Scrub(time) PROVE RoadInv'
    <2>1. SeekTo(time) /\ Clear /\ UNCHANGED <<playing, mode, received>>
      BY <1>10 DEF Scrub
    <2>2. time \in Nat
      BY <1>1, <1>10, LoadedIs
    <2>3. PlaybackInv'
      BY <1>1, <1>10, <2>1, <2>2, SeekInv DEF PlaybackInv
    <2> QED
      BY <1>1, <1>2, <2>1, <2>3, LastIdAfter, ClearInv
  <1>11. CASE PlayToggle
    <2>1. /\ Loaded /\ playing' \in BOOLEAN /\ UNCHANGED <<mode, received>>
          /\ IF AtEnd THEN SeekTo(packets[1].ts) /\ Clear
             ELSE UNCHANGED <<packets, clock, cursor, trafficVars>>
      BY <1>1, <1>11 DEF PlayToggle, PlaybackInv
    <2>2. CASE AtEnd
      <3>1. SeekTo(packets[1].ts) /\ Clear
        BY <2>1, <2>2
      <3>2. packets[1].ts \in Nat
        <4>1. Len(packets) \in Nat \ {0} /\ \A n \in 1 .. Len(packets) : packets[n].ts \in Nat
          BY <1>1, <2>1, LoadedIs
        <4> QED
          BY <4>1
      <3>3. PlaybackInv'
        BY <1>1, <2>1, <3>1, <3>2, SeekInv
      <3> QED
        BY <1>1, <1>2, <2>1, <3>1, <3>3, LastIdAfter, ClearInv
    <2>3. CASE ~AtEnd
      BY <1>3, <2>1, <2>3
    <2> QED
      BY <2>2, <2>3
  <1>12. CASE UNCHANGED vars
    BY <1>3, <1>12 DEF vars
  <1> QED
    BY <1>4, <1>5, <1>6, <1>7, <1>8, <1>9, <1>10, <1>11, <1>12 DEF Next

\* The road is consistent whatever is played, captured, sought, toggled or
\* loaded: the playback's cursor and clock, the frame, the labels, the pools and
\* the tails of the files, what gathers and what is to come.
THEOREM RoadInvariant == Spec => []RoadInv
  <1>1. Init => RoadInv
    BY RoadInitInv
  <1>2. RoadInv /\ [Next]_vars => RoadInv'
    BY RoadNextInv
  <1> QED
    BY <1>1, <1>2, PTL DEF Spec

LEMMA RoadInvTimeline == RoadInv => Timeline
  <1> SUFFICES ASSUME RoadInv PROVE Timeline
    OBVIOUS
  <1>1. /\ PlaybackInv /\ FrameInv /\ LabelInv /\ Clearance /\ Lined /\ Gathered /\ Driven
    BY DEF RoadInv
  <1>2. TrafficTypeOK
    <2>1. \A k \in Kinds : Len(pool[k]) <= Cap[k]
      BY <1>1 DEF Clearance, RoadTypes
    <2>2. ASSUME NEW v \in OnRoad
          PROVE  v.lane \in Lanes /\ v.sub \in Files \cup {Airborne} /\ v.z \in 0 .. EXIT
      <3>1. v \in Vehicle /\ v.z <= EXIT
        BY <1>1, OnRoadIs DEF Clearance, RoadTypes
      <3>2. v.lane \in Lanes /\ v.sub \in {0, 1, 2} /\ v.z \in Nat
        BY <3>1, VehicleIs
      <3>3. v.z \in 0 .. EXIT
        BY <3>1, <3>2, TrafficAssumption
      <3> QED
        BY <3>2, <3>3 DEF Files, Airborne
    <2>3. lastSub \in [Lanes -> Files] /\ tailTaken \in BOOLEAN
      BY <1>1 DEF Clearance, RoadTypes
    <2>4. \A i, j \in DOMAIN pendingAgg : pendingAgg[i].lane = pendingAgg[j].lane => i = j
      BY <1>1 DEF Gathered
    <2> QED
      BY <1>1, <2>1, <2>2, <2>3, <2>4 DEF TrafficTypeOK, FrameInv, LabelInv
  <1>3. TypeOK
    BY <1>1, <1>2 DEF TypeOK, FrameInv, PlaybackInv
  <1>4. InOrder
    <2>1. InTurn(todo) /\ InTurn(queue) /\ Before(Ids(todo), Ids(queue))
      BY <1>1 DEF Lined
    <2>2. \A a \in Bursts : Rising(a.pkts) /\ Before(ToSet(a.pkts), ToCome)
      BY <1>1 DEF Gathered
    <2>3. /\ \A v \in OnRoad :
               /\ Rising(v.pkts) /\ Before(ToSet(v.pkts), ToCome)
               /\ \A a \in Bursts : a.lane = v.lane => Before(ToSet(v.pkts), ToSet(a.pkts))
          /\ \A v, w \in OnRoad : v.lane = w.lane =>
               /\ v.z > w.z => Before(ToSet(v.pkts), ToSet(w.pkts))
               /\ v # w => Before(ToSet(v.pkts), ToSet(w.pkts)) \/ Before(ToSet(w.pkts), ToSet(v.pkts))
      BY <1>1 DEF Driven
    <2> QED
      BY <2>1, <2>2, <2>3, Zenon DEF InOrder
  <1>5. CursorExact
    BY <1>1 DEF PlaybackInv
  <1> QED
    BY <1>3, <1>4, <1>5 DEF Timeline

\* The road is a timeline: vehicles, bursts and queue of every lane are in the
\* order of their packets, none is shown twice, and the playback skips or repeats
\* nothing, for every set of lanes, speeds, lengths and captures.
THEOREM RoadTimeline == Spec => []Timeline
  <1>1. RoadInv => Timeline
    BY RoadInvTimeline
  <1> QED
    BY <1>1, RoadInvariant, PTL

\* Vehicles of a file keep their clearance from the gate to the exit, unless an
\* exhausted pool took the one admission looks at.
THEOREM RoadClear == Spec => []NoOverlap
  <1>1. RoadInv => NoOverlap
    BY DEF RoadInv, Clearance
  <1> QED
    BY <1>1, RoadInvariant, PTL
=============================================================================
