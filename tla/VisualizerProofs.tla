-------------------------- MODULE VisualizerProofs ---------------------------
(***************************************************************************)
(* What the trackers of the visualizer count and show, for any connections, *)
(* lookups, timeouts, caps, lag of the analysis and schedule of retries;    *)
(* and what a live capture guarantees.  They have no variable in common.    *)
(***************************************************************************)
EXTENDS Trackers, LiveSession, FilterProofs

(* The handshake tracker: the invariant.                                    *)

Counters == {"synSent", "synRetries", "established", "halfOpen", "refused", "resets"}
Closing == {"fin", "refusal", "abort"}
Entries == [conn : Conns, age : Nat, refail : BOOLEAN]
Clients == [phase : {"idle", "connecting", "open", "gone"}, tries : 0 .. RETRIES, wait : Nat]
Packets ==
  [kind : FlowPackets, of : Conns, age : 0 .. LAG]
    \cup [kind : {"query"} \cup Rcodes, of : Lookups, age : 0 .. LAG]

WireTypes == wire \in Seq(Packets)

FlowTypes ==
  /\ pending \in Seq(Entries)
  /\ open \in Seq(Conns)
  /\ recentFail \in [Conns -> 0 .. FORGOTTEN]
  /\ counts \in [Counters -> Nat]
  /\ client \in [Conns -> Clients]
  /\ crowdedOut \subseteq Conns /\ answered \subseteq Conns /\ cutOff \subseteq Conns

\* The SYNs that wait, without their order, and what is shown as open.
Pend == {pending[i] : i \in DOMAIN pending}
Shown == {open[i] : i \in DOMAIN open}

Is(p, kinds, c) == p.kind \in kinds /\ p.of = c
IsSyn(p, c) == Is(p, {"syn"}, c)

Unique ==
  /\ \A i, j \in DOMAIN pending : pending[i].conn = pending[j].conn => i = j
  /\ \A i, j \in DOMAIN open : open[i] = open[j] => i = j
  /\ Len(open) <= OPEN_CAP

\* The wire is in the order of capture, and so is what was analysed before it.
InSequence ==
  /\ \A i, j \in DOMAIN wire : i <= j => wire[j].age <= wire[i].age
  /\ \A e \in Pend, j \in DOMAIN wire : IsSyn(wire[j], e.conn) => wire[j].age <= e.age
  /\ \A e \in Pend : e.age <= TIMEOUT + 1

\* Whatever is seen was begun.
Known ==
  /\ \A e \in Pend : client[e.conn].phase # "idle"
  /\ \A i \in DOMAIN wire : wire[i].kind \in FlowPackets => client[wire[i].of].phase # "idle"
  /\ \A c \in answered : client[c].phase \in {"open", "gone"}

\* No SYN comes after an answer or an end, and nothing after an end opens.
Ended ==
  \A i \in DOMAIN wire :
    /\ wire[i].kind \in {"synack"} \cup Closing =>
         /\ client[wire[i].of].phase \in {"open", "gone"}
         /\ \A j \in DOMAIN wire : j > i => ~IsSyn(wire[j], wire[i].of)
    /\ wire[i].kind \in Closing => client[wire[i].of].phase = "gone"

Retries(x) == x.phase = "connecting" /\ x.tries < RETRIES

\* The next SYN of c, a client in state x, after place i of the wire w, was or
\* will be captured no later than d after a moment that is a ago, if there is a
\* next one.
Followed(w, x, c, i, a, d) ==
  \/ \E j \in DOMAIN w : j > i /\ IsSyn(w[j], c) /\ a - w[j].age <= d
  \/ Retries(x) /\ a + x.wait <= d
  \/ ~Retries(x) /\ \A j \in DOMAIN w : j > i => ~IsSyn(w[j], c)

Apart == TIMEOUT + REFAIL_WINDOW

Chained ==
  /\ \A e \in Pend : Followed(wire, client[e.conn], e.conn, 0, e.age, Apart)
  /\ \A i \in DOMAIN wire : wire[i].kind = "syn" =>
       Followed(wire, client[wire[i].of], wire[i].of, i, wire[i].age, Apart)

Failed == counts.halfOpen + counts.refused

\* The connections counted as failed.  Their later SYNs belong to the failure.
FailedSet(F) ==
  /\ Failed <= Cardinality(F)
  /\ \A c \in F, e \in Pend : e.conn = c => e.refail
  /\ \A c \in F : \/ \E e \in Pend : e.conn = c
                 \/ Followed(wire, client[c], c, 0, recentFail[c], REFAIL_WINDOW - 1)

Failures ==
  /\ IsFiniteSet(Tried)
  /\ crowdedOut = {} => \E F \in SUBSET Tried : FailedSet(F)

Balance ==
  /\ IsFiniteSet(Attempts)
  /\ Failed + Cardinality(Attempts) <= counts.synSent

\* The connections counted as established.  Nothing of theirs can be answered.
EstablishedSet(E) ==
  /\ counts.established <= Cardinality(E)
  /\ \A c \in E : client[c].phase \in {"open", "gone"}
  /\ \A c \in E, e \in Pend : e.conn # c
  /\ \A c \in E, j \in DOMAIN wire : ~IsSyn(wire[j], c)

Established == \E E \in SUBSET Tried : EstablishedSet(E)

\* What is shown, or will be, is open, or its end is on the wire behind.
OpenTrue ==
  /\ \A c \in Shown : client[c].phase = "open" \/ \E j \in DOMAIN wire : Is(wire[j], Closing, c)
  /\ \A i \in DOMAIN wire : wire[i].kind = "synack" =>
       client[wire[i].of].phase = "open" \/ \E j \in DOMAIN wire : j > i /\ Is(wire[j], Closing, wire[i].of)

\* A SYN of c no older than a is among the entries es, or on the wire w before
\* place k.
Recent(es, w, c, a, k) ==
  \/ \E e \in es : e.conn = c /\ e.age <= a
  \/ \E j \in DOMAIN w : j < k /\ IsSyn(w[j], c) /\ w[j].age <= a

\* Who was seen from the beginning is not lost before its time.
Seen ==
  \A c \in Conns \ (cutOff \cup crowdedOut) :
    /\ client[c].phase = "connecting" /\ SinceSyn(c) <= TIMEOUT =>
         Recent(Pend, wire, c, SinceSyn(c), Len(wire) + 1)
    /\ client[c].phase = "open" /\ c \in answered /\ c \notin Shown =>
         \E k \in DOMAIN wire : Is(wire[k], {"synack"}, c) /\ Recent(Pend, wire, c, TIMEOUT - LAG + wire[k].age, k)

FlowInv ==
  /\ FlowTypes /\ Unique /\ InSequence /\ Known /\ Ended /\ Chained
  /\ Failures /\ Balance /\ Established /\ OpenTrue /\ Seen
-----------------------------------------------------------------------------
(* The wire.                                                                *)

LEMMA WireFacts ==
  ASSUME WireTypes
  PROVE  /\ DOMAIN wire = 1 .. Len(wire) /\ Len(wire) \in Nat
         /\ \A i \in DOMAIN wire : wire[i] \in Packets /\ wire[i].age \in 0 .. LAG
         /\ \A i \in DOMAIN wire : wire[i].kind \in FlowPackets => wire[i].of \in Conns
         /\ \A i \in DOMAIN wire : wire[i].kind \notin FlowPackets =>
              wire[i].kind \in {"query"} \cup Rcodes /\ wire[i].of \in Lookups
         /\ \A i \in DOMAIN wire : \A c : IsSyn(wire[i], c) => c \in Conns
         /\ LAG \in Nat
  <1>1. DOMAIN wire = 1 .. Len(wire) /\ Len(wire) \in Nat /\ \A i \in DOMAIN wire : wire[i] \in Packets
    BY DEF WireTypes
  <1>2. ASSUME NEW i \in DOMAIN wire
        PROVE  /\ wire[i].age \in 0 .. LAG
               /\ wire[i].kind \in FlowPackets => wire[i].of \in Conns
               /\ wire[i].kind \notin FlowPackets =>
                    wire[i].kind \in {"query"} \cup Rcodes /\ wire[i].of \in Lookups
    <2>1. wire[i] \in Packets
      BY <1>1
    <2> QED
      BY <2>1 DEF Packets, FlowPackets, Rcodes
  <1>3. LAG \in Nat
    BY CaptureAssumption
  <1>4. \A i \in DOMAIN wire : \A c : IsSyn(wire[i], c) => c \in Conns
    BY <1>2 DEF IsSyn, Is, FlowPackets
  <1> QED
    BY <1>1, <1>2, <1>3, <1>4

\* v is w with p at its end; v is w without its first.
Longer(w, v, p) ==
  /\ Len(v) = Len(w) + 1 /\ Len(w) + 1 \in DOMAIN v /\ v[Len(w) + 1] = p
  /\ \A i \in DOMAIN w : i \in DOMAIN v /\ v[i] = w[i] /\ i < Len(w) + 1
  /\ \A i \in DOMAIN v : i \in Nat /\ (i \in DOMAIN w \/ i = Len(w) + 1)

Shorter(w, v) ==
  /\ 1 \in DOMAIN w /\ Head(w) = w[1] /\ Len(v) = Len(w) - 1
  /\ \A i \in DOMAIN v : i \in Nat /\ i >= 1 /\ i + 1 \in DOMAIN w /\ v[i] = w[i + 1]
  /\ \A i \in DOMAIN w : i \in Nat /\ i >= 1 /\ (i # 1 => i - 1 \in DOMAIN v /\ v[i - 1] = w[i])

\* A packet is captured.
LEMMA WireGrows ==
  ASSUME WireTypes, NEW kind, NEW of, Captured(kind, of),
         (kind \in FlowPackets /\ of \in Conns) \/ (kind \in {"query"} \cup Rcodes /\ of \in Lookups)
  PROVE  WireTypes' /\ Longer(wire, wire', [kind |-> kind, of |-> of, age |-> 0])
  <1> DEFINE p == [kind |-> kind, of |-> of, age |-> 0]
  <1>1. p \in Packets
    <2>1. 0 \in 0 .. LAG
      BY CaptureAssumption
    <2> QED
      BY <2>1 DEF Packets
  <1>2. wire' = Append(wire, p)
    BY DEF Captured
  <1> HIDE DEF p
  <1>3. /\ wire' \in Seq(Packets) /\ Len(wire') = Len(wire) + 1
        /\ Len(wire) + 1 \in DOMAIN wire'
        /\ wire'[Len(wire) + 1] = p
        /\ \A i \in DOMAIN wire : i \in DOMAIN wire' /\ wire'[i] = wire[i] /\ i < Len(wire) + 1
        /\ \A i \in DOMAIN wire' : i \in DOMAIN wire \/ i = Len(wire) + 1
    BY <1>1, <1>2, AppendIs DEF WireTypes
  <1>4. DOMAIN wire' \subseteq Nat
    BY <1>3
  <1> QED
    BY <1>3, <1>4 DEF p, WireTypes, Longer

\* The first packet is analysed.
LEMMA WireShrinks ==
  ASSUME WireTypes, wire # << >>, Analysed
  PROVE  WireTypes' /\ Shorter(wire, wire')
  <1>1. wire' = Tail(wire)
    BY DEF Analysed
  <1>2. /\ wire' \in Seq(Packets) /\ Len(wire') = Len(wire) - 1
        /\ Head(wire) = wire[1] /\ 1 \in DOMAIN wire
        /\ \A i \in DOMAIN wire' : i + 1 \in DOMAIN wire /\ wire'[i] = wire[i + 1]
        /\ \A i \in DOMAIN wire : i # 1 => i - 1 \in DOMAIN wire' /\ wire'[i - 1] = wire[i]
        /\ DOMAIN wire' = 1 .. Len(wire) - 1 /\ DOMAIN wire = 1 .. Len(wire)
    BY <1>1, TailIs DEF WireTypes
  <1>3. /\ \A i \in DOMAIN wire' : i \in Nat /\ i >= 1
        /\ \A i \in DOMAIN wire : i \in Nat /\ i >= 1
    BY <1>2
  <1> QED
    BY <1>2, <1>3 DEF WireTypes, Shorter

\* A unit of time passes.
LEMMA WireAges ==
  ASSUME WireTypes, InTime, wire' = Travelled
  PROVE  /\ WireTypes' /\ Len(wire') = Len(wire) /\ DOMAIN wire' = DOMAIN wire
         /\ \A i \in DOMAIN wire : /\ wire'[i].kind = wire[i].kind /\ wire'[i].of = wire[i].of
                                   /\ wire'[i].age = wire[i].age + 1
  <1>1. /\ wire' = [i \in DOMAIN wire |-> [wire[i] EXCEPT !.age = @ + 1]]
        /\ DOMAIN wire = 1 .. Len(wire) /\ Len(wire) \in Nat
    BY WireFacts DEF Travelled
  <1>2. ASSUME NEW i \in DOMAIN wire
        PROVE  /\ wire'[i] \in Packets
               /\ wire'[i].kind = wire[i].kind /\ wire'[i].of = wire[i].of
               /\ wire'[i].age = wire[i].age + 1
    <2>1. wire[i] \in Packets /\ wire[i].age < LAG /\ wire[i].age \in 0 .. LAG /\ LAG \in Nat
      BY WireFacts DEF InTime
    <2>2. wire[i].age + 1 \in 0 .. LAG
      BY <2>1
    <2>3. wire'[i] = [wire[i] EXCEPT !.age = wire[i].age + 1]
      BY <1>1
    <2> QED
      BY <2>1, <2>2, <2>3 DEF Packets
  <1>3. wire' \in Seq(Packets) /\ Len(wire') = Len(wire)
    <2>1. wire' \in [1 .. Len(wire) -> Packets]
      BY <1>1, <1>2
    <2> QED
      BY <1>1, <2>1
  <1> QED
    BY <1>1, <1>2, <1>3 DEF WireTypes
-----------------------------------------------------------------------------
(* The DNS tracker: the invariant.                                          *)

DnsPackets == {"query"} \cup Rcodes
Queries == [lookup : Lookups, age : Nat]
Clerks == [asked : 0 .. ASKS, answers : 0 .. ASKS, since : Nat]

DnsTypes ==
  /\ waiting \in Seq(Queries)
  /\ dnsCounts \in [{"queries"} \cup Outcomes -> Nat]
  /\ resolver \in [Lookups -> Clerks]
  /\ slow \in BOOLEAN

DnsUnique ==
  /\ Len(waiting) <= DNS_CAP
  /\ \A i, j \in DOMAIN waiting : waiting[i].lookup = waiting[j].lookup => i = j
  /\ \A i \in DOMAIN waiting : waiting[i].lookup \notin Discovery /\ waiting[i].age <= DNS_TIMEOUT + 1

DnsBalance == dnsCounts.timeouts + Len(waiting) <= dnsCounts.queries

Unanswered(x) == x.asked > 0 /\ x.answers = 0

\* A query of q, of age a, is followed after place i of the wire w by a later packet
\* of q in time, or it is the last that was asked by a client in state x.
Superseded(w, x, q, i, a) ==
  \/ \E j \in DOMAIN w : j > i /\ Is(w[j], DnsPackets, q) /\ a - w[j].age + LAG <= DNS_TIMEOUT
  \/ Unanswered(x) /\ a <= x.since

Timely ==
  ~slow =>
    /\ dnsCounts.timeouts = 0
    /\ \A i \in DOMAIN waiting :
         Superseded(wire, resolver[waiting[i].lookup], waiting[i].lookup, 0, waiting[i].age)
    /\ \A i \in DOMAIN wire : wire[i].kind = "query" /\ wire[i].of \notin Discovery =>
         Superseded(wire, resolver[wire[i].of], wire[i].of, i, wire[i].age)
    /\ \A q \in Lookups \ Discovery : Unanswered(resolver[q]) =>
         resolver[q].since = 0 \/ resolver[q].since + LAG <= DNS_TIMEOUT

DnsInv == DnsTypes /\ DnsUnique /\ DnsBalance /\ Timely

IInv == WireTypes /\ FlowInv /\ DnsInv
-----------------------------------------------------------------------------
(* The DNS tracker: its steps.                                              *)

LEMMA SupersededByRest ==
  ASSUME NEW w, NEW v, Shorter(w, v), NEW x, NEW q, NEW a
  PROVE  /\ \A i \in Nat : i >= 1 /\ Superseded(w, x, q, i, a) => Superseded(v, x, q, i - 1, a)
         /\ Superseded(w, x, q, 0, a) /\ ~Is(w[1], DnsPackets, q) => Superseded(v, x, q, 0, a)
  <1>1. ASSUME NEW i \in Nat, i >= 1, Superseded(w, x, q, i, a) PROVE Superseded(v, x, q, i - 1, a)
    <2>1. CASE Unanswered(x) /\ a <= x.since
      BY <2>1 DEF Superseded
    <2>2. CASE \E j \in DOMAIN w : j > i /\ Is(w[j], DnsPackets, q) /\ a - w[j].age + LAG <= DNS_TIMEOUT
      <3>1. PICK j \in DOMAIN w : j > i /\ Is(w[j], DnsPackets, q) /\ a - w[j].age + LAG <= DNS_TIMEOUT
        BY <2>2
      <3>2. j \in Nat /\ j # 1 /\ j - 1 > i - 1
        BY <1>1, <3>1 DEF Shorter
      <3>3. j - 1 \in DOMAIN v /\ v[j - 1] = w[j]
        BY <3>1, <3>2 DEF Shorter
      <3> QED
        BY <3>1, <3>2, <3>3 DEF Superseded
    <2> QED
      BY <1>1, <2>1, <2>2 DEF Superseded
  <1>2. ASSUME Superseded(w, x, q, 0, a), ~Is(w[1], DnsPackets, q) PROVE Superseded(v, x, q, 0, a)
    <2>1. CASE Unanswered(x) /\ a <= x.since
      BY <2>1 DEF Superseded
    <2>2. CASE \E j \in DOMAIN w : j > 0 /\ Is(w[j], DnsPackets, q) /\ a - w[j].age + LAG <= DNS_TIMEOUT
      <3>1. PICK j \in DOMAIN w : j > 0 /\ Is(w[j], DnsPackets, q) /\ a - w[j].age + LAG <= DNS_TIMEOUT
        BY <2>2
      <3>2. j \in Nat /\ j # 1 /\ j - 1 > 0
        BY <1>2, <3>1 DEF Shorter
      <3>3. j - 1 \in DOMAIN v /\ v[j - 1] = w[j]
        BY <3>1, <3>2 DEF Shorter
      <3> QED
        BY <3>1, <3>2, <3>3 DEF Superseded
    <2> QED
      BY <1>2, <2>1, <2>2 DEF Superseded
  <1> QED
    BY <1>1, <1>2

LEMMA SupersededStill ==
  ASSUME NEW w, NEW v, NEW p, Longer(w, v, p), NEW x, NEW q, NEW i, NEW a, Superseded(w, x, q, i, a)
  PROVE  Superseded(v, x, q, i, a)
  BY DEF Superseded, Longer

\* Nothing of DNS is analysed or captured.
LEMMA DnsUntouched ==
  ASSUME WireTypes, DnsInv, UNCHANGED dnsVars,
         \/ Shorter(wire, wire') /\ wire[1].kind \notin DnsPackets
         \/ \E p : Longer(wire, wire', p) /\ p.kind \notin DnsPackets
         \/ UNCHANGED wire
  PROVE  DnsInv'
  <1>1. UNCHANGED <<waiting, dnsCounts, resolver, slow>>
    BY DEF dnsVars, dnsTrackerVars
  <1>2. DnsTypes' /\ DnsUnique' /\ DnsBalance'
    BY <1>1 DEF DnsInv, DnsTypes, DnsUnique, DnsBalance
  <1>3. CASE Shorter(wire, wire') /\ wire[1].kind \notin DnsPackets
    <2>1. ASSUME ~slow, NEW i \in DOMAIN waiting
          PROVE  Superseded(wire', resolver[waiting[i].lookup], waiting[i].lookup, 0, waiting[i].age)
      <3>1. Superseded(wire, resolver[waiting[i].lookup], waiting[i].lookup, 0, waiting[i].age)
        BY <2>1 DEF DnsInv, Timely
      <3> QED
        BY <1>3, <3>1, SupersededByRest DEF Is
    <2>2. ASSUME ~slow, NEW i \in DOMAIN wire', wire'[i].kind = "query", wire'[i].of \notin Discovery
          PROVE  Superseded(wire', resolver[wire'[i].of], wire'[i].of, i, wire'[i].age)
      <3>1. i + 1 \in DOMAIN wire /\ wire'[i] = wire[i + 1] /\ i + 1 \in Nat /\ i + 1 >= 1 /\ i = (i + 1) - 1
        BY <1>3 DEF Shorter
      <3>2. Superseded(wire, resolver[wire[i + 1].of], wire[i + 1].of, i + 1, wire[i + 1].age)
        BY <2>2, <3>1 DEF DnsInv, Timely
      <3> QED
        BY <1>3, <3>1, <3>2, SupersededByRest
    <2> QED
      BY <1>1, <1>2, <2>1, <2>2 DEF DnsInv, Timely
  <1>4. CASE \E p : Longer(wire, wire', p) /\ p.kind \notin DnsPackets
    <2>0. PICK p : Longer(wire, wire', p) /\ p.kind \notin DnsPackets
      BY <1>4
    <2>1. ASSUME ~slow, NEW i \in DOMAIN waiting
          PROVE  Superseded(wire', resolver[waiting[i].lookup], waiting[i].lookup, 0, waiting[i].age)
      BY <2>0, <2>1, SupersededStill DEF DnsInv, Timely
    <2>2. ASSUME ~slow, NEW i \in DOMAIN wire', wire'[i].kind = "query", wire'[i].of \notin Discovery
          PROVE  Superseded(wire', resolver[wire'[i].of], wire'[i].of, i, wire'[i].age)
      <3>1. i \in DOMAIN wire /\ wire'[i] = wire[i]
        BY <2>0, <2>2 DEF Longer, DnsPackets
      <3>2. Superseded(wire, resolver[wire[i].of], wire[i].of, i, wire[i].age)
        BY <2>2, <3>1 DEF DnsInv, Timely
      <3> QED
        BY <2>0, <3>1, <3>2, SupersededStill
    <2> QED
      BY <1>1, <1>2, <2>1, <2>2 DEF DnsInv, Timely
  <1>5. CASE UNCHANGED wire
    BY <1>1, <1>2, <1>5 DEF DnsInv, Timely
  <1> QED
    BY <1>3, <1>4, <1>5

LEMMA RoomIs ==
  ASSUME DnsTypes, DnsUnique
  PROVE  /\ Room \in Seq(Queries) /\ Len(Room) + 1 <= DNS_CAP /\ Len(Room) <= Len(waiting)
         /\ DOMAIN Room = 1 .. Len(Room) /\ Len(Room) \in Nat /\ Len(waiting) \in Nat
         /\ \A j \in DOMAIN Room : \E i \in DOMAIN waiting : Room[j] = waiting[i]
         /\ \A j, k \in DOMAIN Room : Room[j].lookup = Room[k].lookup => j = k
  <1>1. waiting \in Seq(Queries) /\ Len(waiting) \in Nat /\ DNS_CAP \in Nat \ {0} /\ Len(waiting) <= DNS_CAP
    BY DnsAssumption DEF DnsTypes, DnsUnique
  <1>2. CASE Len(waiting) >= DNS_CAP
    <2>1. waiting # << >> /\ Room = Tail(waiting)
      BY <1>1, <1>2 DEF Room
    <2>2. /\ Room \in Seq(Queries) /\ Len(Room) = Len(waiting) - 1 /\ DOMAIN Room = 1 .. Len(Room)
          /\ \A i \in DOMAIN Room : i + 1 \in DOMAIN waiting /\ Room[i] = waiting[i + 1]
      BY <1>1, <2>1, TailIs
    <2>3. ASSUME NEW j \in DOMAIN Room, NEW k \in DOMAIN Room, Room[j].lookup = Room[k].lookup PROVE j = k
      <3>1. j + 1 = k + 1
        BY <2>2, <2>3 DEF DnsUnique
      <3> QED
        BY <2>2, <3>1
    <2>4. Len(Room) + 1 <= DNS_CAP /\ Len(Room) <= Len(waiting) /\ Len(Room) \in Nat
      BY <1>1, <2>2
    <2> QED
      BY <1>1, <2>2, <2>3, <2>4
  <1>3. CASE Len(waiting) < DNS_CAP
    <2>1. Room = waiting
      BY <1>1, <1>3 DEF Room
    <2>2. Len(waiting) + 1 <= DNS_CAP
      BY <1>1, <1>3
    <2> QED
      BY <1>1, <2>1, <2>2 DEF DnsUnique
  <1> QED
    BY <1>1, <1>2, <1>3

LEMMA AskedIs ==
  ASSUME DnsTypes, DnsUnique, NEW p, p.of \in Lookups, p.age \in Nat
  PROVE  LET asked == Asked(p)
             entry == [lookup |-> p.of, age |-> p.age]
         IN  /\ asked \in Seq(Queries) /\ Len(asked) <= DNS_CAP /\ Len(asked) <= Len(waiting) + 1
             /\ \A j \in DOMAIN asked :
                  asked[j] = entry \/ \E i \in DOMAIN waiting : waiting[i].lookup # p.of /\ asked[j] = waiting[i]
             /\ \A j, k \in DOMAIN asked : asked[j].lookup = asked[k].lookup => j = k
  <1> DEFINE asked == Asked(p)
             entry == [lookup |-> p.of, age |-> p.age]
             room == Room
  <1>1. /\ room \in Seq(Queries) /\ Len(room) + 1 <= DNS_CAP /\ Len(room) <= Len(waiting)
        /\ DOMAIN room = 1 .. Len(room) /\ Len(room) \in Nat /\ Len(waiting) \in Nat
        /\ \A j \in DOMAIN room : \E i \in DOMAIN waiting : room[j] = waiting[i]
        /\ \A j, k \in DOMAIN room : room[j].lookup = room[k].lookup => j = k
    BY RoomIs
  <1>2. entry \in Queries /\ entry.lookup = p.of
    BY DEF Queries
  <1>3. asked = IF \E i \in DOMAIN room : room[i].lookup = p.of
                THEN [i \in DOMAIN room |-> IF room[i].lookup = p.of THEN entry ELSE room[i]]
                ELSE Append(room, entry)
    BY DEF Asked
  <1>4. DNS_CAP \in Nat
    BY DnsAssumption
  <1> HIDE DEF room, entry, asked
  <1>5. CASE \E i \in DOMAIN room : room[i].lookup = p.of
    <2>1. asked = [i \in 1 .. Len(room) |-> IF room[i].lookup = p.of THEN entry ELSE room[i]]
      BY <1>1, <1>3, <1>5
    <2>2. \A i \in 1 .. Len(room) : room[i] \in Queries
      BY <1>1
    <2>3. asked \in [1 .. Len(room) -> Queries]
      BY <1>2, <2>1, <2>2
    <2>4. asked \in Seq(Queries) /\ Len(asked) = Len(room) /\ DOMAIN asked = DOMAIN room
      BY <1>1, <2>3
    <2>5. \A j \in DOMAIN asked : asked[j] = entry \/ (room[j].lookup # p.of /\ asked[j] = room[j])
      BY <1>1, <2>1, <2>4
    <2>6. \A j \in DOMAIN asked : asked[j].lookup = room[j].lookup
      BY <1>1, <1>2, <2>1, <2>4
    <2>7. \A j \in DOMAIN asked :
            asked[j] = entry \/ \E i \in DOMAIN waiting : waiting[i].lookup # p.of /\ asked[j] = waiting[i]
      BY <1>1, <2>4, <2>5
    <2>8. \A j, k \in DOMAIN asked : asked[j].lookup = asked[k].lookup => j = k
      BY <1>1, <2>4, <2>6
    <2>9. Len(asked) <= DNS_CAP /\ Len(asked) <= Len(waiting) + 1
      BY <1>1, <1>4, <2>4
    <2> QED
      BY <2>4, <2>7, <2>8, <2>9 DEF asked, entry
  <1>6. CASE ~ \E i \in DOMAIN room : room[i].lookup = p.of
    <2>1. asked = Append(room, entry)
      BY <1>3, <1>6
    <2>2. /\ asked \in Seq(Queries) /\ Len(asked) = Len(room) + 1
          /\ asked[Len(room) + 1] = entry
          /\ \A i \in DOMAIN room : asked[i] = room[i]
          /\ \A i \in DOMAIN asked : i \in DOMAIN room \/ i = Len(room) + 1
      BY <1>1, <1>2, <2>1, AppendIs
    <2>3. \A j \in DOMAIN asked :
            asked[j] = entry \/ \E i \in DOMAIN waiting : waiting[i].lookup # p.of /\ asked[j] = waiting[i]
      BY <1>1, <1>6, <2>2
    <2>4. ASSUME NEW j \in DOMAIN asked, NEW k \in DOMAIN asked, asked[j].lookup = asked[k].lookup PROVE j = k
      <3>1. \A i \in DOMAIN room : asked[i].lookup # entry.lookup
        BY <1>2, <1>6, <2>2
      <3> QED
        BY <1>1, <2>2, <2>4, <3>1
    <2>5. Len(asked) <= DNS_CAP /\ Len(asked) <= Len(waiting) + 1
      BY <1>1, <1>4, <2>2
    <2> QED
      BY <2>2, <2>3, <2>4, <2>5 DEF asked, entry
  <1> QED
    BY <1>5, <1>6

\* What waits, for a timely account.
LEMMA TimelyWaits ==
  ASSUME DnsInv, ~slow, NEW i \in DOMAIN waiting
  PROVE  Superseded(wire, resolver[waiting[i].lookup], waiting[i].lookup, 0, waiting[i].age)
  BY DEF DnsInv, Timely

\* The queries on the wire, after the first packet is analysed.
LEMMA TimelyRest ==
  ASSUME DnsInv, ~slow, Shorter(wire, wire'), NEW i \in DOMAIN wire', wire'[i].kind = "query", wire'[i].of \notin Discovery
  PROVE  Superseded(wire', resolver[wire'[i].of], wire'[i].of, i, wire'[i].age)
  <1>1. i + 1 \in DOMAIN wire /\ wire'[i] = wire[i + 1] /\ i + 1 \in Nat /\ i + 1 >= 1 /\ i = (i + 1) - 1
    BY DEF Shorter
  <1>2. Superseded(wire, resolver[wire[i + 1].of], wire[i + 1].of, i + 1, wire[i + 1].age)
    BY <1>1 DEF DnsInv, Timely
  <1> QED
    BY <1>1, <1>2, SupersededByRest

LEMMA CountsStay ==
  ASSUME DnsTypes, NEW k \in {"queries"} \cup Rcodes, dnsCounts' = DnsCounted(k)
  PROVE  /\ dnsCounts' \in [{"queries"} \cup Outcomes -> Nat]
         /\ dnsCounts'.timeouts = dnsCounts.timeouts
         /\ dnsCounts'.queries = IF k = "queries" THEN dnsCounts.queries + 1 ELSE dnsCounts.queries
         /\ dnsCounts.timeouts \in Nat /\ dnsCounts.queries \in Nat
  BY DEF DnsTypes, DnsCounted, Outcomes, Rcodes

LEMMA QueryStep ==
  ASSUME WireTypes, DnsInv, wire # << >>, Analysed, UNCHANGED <<resolver, slow>>,
         Head(wire).kind = "query", DiscoveryQuery(Head(wire)) \/ Query(Head(wire))
  PROVE  DnsInv'
  <1> DEFINE p == wire[1]
  <1>1. Shorter(wire, wire') /\ Head(wire) = p /\ 1 \in DOMAIN wire
    BY WireShrinks DEF Shorter
  <1>2. p.kind = "query" /\ p.of \in Lookups /\ p.age \in 0 .. LAG /\ LAG \in Nat /\ p.age \in Nat
    BY <1>1, WireFacts DEF FlowPackets
  <1>3. /\ dnsCounts' \in [{"queries"} \cup Outcomes -> Nat]
        /\ dnsCounts'.timeouts = dnsCounts.timeouts /\ dnsCounts'.queries = dnsCounts.queries + 1
        /\ dnsCounts.timeouts \in Nat /\ dnsCounts.queries \in Nat
    <2>1. dnsCounts' = DnsCounted("queries")
      BY DEF DiscoveryQuery, Query
    <2> QED
      BY <2>1, CountsStay DEF DnsInv
  <1>4. Len(waiting) \in Nat /\ dnsCounts.timeouts + Len(waiting) <= dnsCounts.queries
    BY DEF DnsInv, DnsTypes, DnsBalance
  <1>5. ~slow => dnsCounts.timeouts = 0
    BY DEF DnsInv, Timely
  <1>6. \A q \in Lookups \ Discovery : ~slow /\ Unanswered(resolver[q]) =>
          resolver[q].since = 0 \/ resolver[q].since + LAG <= DNS_TIMEOUT
    BY DEF DnsInv, Timely
  <1> HIDE DEF p
  <1>7. CASE DiscoveryQuery(Head(wire))
    <2>1. p.of \in Discovery /\ waiting' = waiting
      BY <1>1, <1>7 DEF DiscoveryQuery
    <2>2. DnsTypes' /\ DnsUnique'
      BY <1>3, <2>1 DEF DnsInv, DnsTypes, DnsUnique
    <2>3. DnsBalance'
      BY <1>3, <1>4, <2>1 DEF DnsBalance
    <2>4. ASSUME ~slow, NEW i \in DOMAIN waiting
          PROVE  Superseded(wire', resolver[waiting[i].lookup], waiting[i].lookup, 0, waiting[i].age)
      <3>1. ~Is(wire[1], DnsPackets, waiting[i].lookup)
        BY <2>1 DEF DnsInv, DnsUnique, Is, p
      <3> QED
        BY <1>1, <2>4, <3>1, TimelyWaits, SupersededByRest
    <2>5. Timely'
      BY <1>1, <1>3, <1>5, <1>6, <2>1, <2>4, TimelyRest DEF Timely
    <2> QED
      BY <2>2, <2>3, <2>5 DEF DnsInv
  <1>8. CASE Query(Head(wire))
    <2> DEFINE asked == Asked(p)
    <2>1. p.of \notin Discovery /\ waiting' = asked
      BY <1>1, <1>8 DEF Query
    <2>2. /\ asked \in Seq(Queries) /\ Len(asked) <= DNS_CAP /\ Len(asked) <= Len(waiting) + 1
          /\ \A j \in DOMAIN asked :
               \/ asked[j] = [lookup |-> p.of, age |-> p.age]
               \/ \E i \in DOMAIN waiting : waiting[i].lookup # p.of /\ asked[j] = waiting[i]
          /\ \A j, k \in DOMAIN asked : asked[j].lookup = asked[k].lookup => j = k
      BY <1>2, AskedIs DEF DnsInv
    <2> HIDE DEF asked
    <2>3. DnsTypes'
      BY <1>3, <2>1, <2>2 DEF DnsInv, DnsTypes
    <2>4. DnsUnique'
      <3>1. p.age <= DNS_TIMEOUT + 1
        BY <1>2, DnsAssumption
      <3>2. \A j \in DOMAIN asked : asked[j].lookup \notin Discovery /\ asked[j].age <= DNS_TIMEOUT + 1
        BY <2>1, <2>2, <3>1 DEF DnsInv, DnsUnique
      <3> QED
        BY <2>1, <2>2, <3>2 DEF DnsUnique
    <2>5. DnsBalance'
      <3>1. Len(asked) \in Nat
        BY <2>2
      <3> QED
        BY <1>3, <1>4, <2>1, <2>2, <3>1 DEF DnsBalance
    <2>6. ASSUME ~slow, NEW j \in DOMAIN asked
          PROVE  Superseded(wire', resolver[asked[j].lookup], asked[j].lookup, 0, asked[j].age)
      <3>1. CASE asked[j] = [lookup |-> p.of, age |-> p.age]
        <4>1. Superseded(wire, resolver[p.of], p.of, 1, p.age)
          BY <1>1, <1>2, <2>1, <2>6 DEF DnsInv, Timely, p
        <4>2. Superseded(wire', resolver[p.of], p.of, 1 - 1, p.age)
          BY <1>1, <4>1, SupersededByRest
        <4> QED
          BY <3>1, <4>2
      <3>2. CASE \E i \in DOMAIN waiting : waiting[i].lookup # p.of /\ asked[j] = waiting[i]
        <4>1. PICK i \in DOMAIN waiting : waiting[i].lookup # p.of /\ asked[j] = waiting[i]
          BY <3>2
        <4>2. ~Is(wire[1], DnsPackets, waiting[i].lookup)
          BY <4>1 DEF Is, p
        <4> QED
          BY <1>1, <2>6, <4>1, <4>2, TimelyWaits, SupersededByRest
      <3> QED
        BY <2>2, <3>1, <3>2
    <2>7. Timely'
      BY <1>1, <1>3, <1>5, <1>6, <2>1, <2>6, TimelyRest DEF Timely
    <2> QED
      BY <2>3, <2>4, <2>5, <2>7 DEF DnsInv
  <1> QED
    BY <1>7, <1>8

\* Whoever still waits after some are removed waited before.
LEMMA WaitersLeft ==
  ASSUME DnsTypes, DnsUnique, NEW keep, waiting' = Retained(waiting, keep)
  PROVE  /\ waiting' \in Seq(Queries) /\ DnsUnique' /\ Len(waiting') <= Len(waiting)
         /\ Len(waiting') \in Nat /\ Len(waiting) \in Nat
         /\ \A j \in DOMAIN waiting' : \E i \in DOMAIN waiting : i \in keep /\ waiting'[j] = waiting[i]
  <1> DEFINE left == Retained(waiting, keep)
  <1>1. waiting \in Seq(Queries) /\ Len(waiting) <= DNS_CAP /\ DNS_CAP \in Nat
    BY DnsAssumption DEF DnsTypes, DnsUnique
  <1>2. left \in Seq(Queries) /\ \A j \in DOMAIN left : \E i \in DOMAIN waiting : i \in keep /\ left[j] = waiting[i]
    BY <1>1, RetainedIs
  <1>3. Len(left) <= Len(waiting)
    BY <1>1, RetainedLength
  <1>4. \A j, k \in DOMAIN left :
          j # k => \E h, i \in DOMAIN waiting : h # i /\ left[j] = waiting[h] /\ left[k] = waiting[i]
    BY <1>1, RetainedApart
  <1>5. waiting' = left
    OBVIOUS
  <1> HIDE DEF left
  <1>6. \A j, k \in DOMAIN left : left[j].lookup = left[k].lookup => j = k
    BY <1>4 DEF DnsUnique
  <1>7. \A j \in DOMAIN left : left[j].lookup \notin Discovery /\ left[j].age <= DNS_TIMEOUT + 1
    BY <1>2 DEF DnsUnique
  <1>8. Len(left) <= DNS_CAP /\ Len(left) \in Nat /\ Len(waiting) \in Nat
    BY <1>1, <1>2, <1>3
  <1>9. DnsUnique'
    BY <1>5, <1>6, <1>7, <1>8 DEF DnsUnique
  <1> QED
    BY <1>2, <1>3, <1>5, <1>8, <1>9

LEMMA ResponseStep ==
  ASSUME WireTypes, DnsInv, wire # << >>, Analysed, UNCHANGED <<resolver, slow>>,
         Head(wire).kind \in Rcodes, Response(Head(wire))
  PROVE  DnsInv'
  <1> DEFINE p == wire[1]
             keep == {i \in DOMAIN waiting : waiting[i].lookup # p.of}
  <1>1. Shorter(wire, wire') /\ Head(wire) = p /\ 1 \in DOMAIN wire
    BY WireShrinks DEF Shorter
  <1>2. waiting' = Retained(waiting, keep) /\ dnsCounts' = DnsCounted(p.kind) /\ p.kind \in Rcodes
    BY <1>1 DEF Response
  <1>3. /\ dnsCounts' \in [{"queries"} \cup Outcomes -> Nat]
        /\ dnsCounts'.timeouts = dnsCounts.timeouts /\ dnsCounts'.queries = dnsCounts.queries
        /\ dnsCounts.timeouts \in Nat /\ dnsCounts.queries \in Nat
    BY <1>2, CountsStay DEF DnsInv, Rcodes
  <1>4. \A i \in keep : waiting[i].lookup # p.of
    OBVIOUS
  <1> HIDE DEF p, keep
  <1>5. /\ waiting' \in Seq(Queries) /\ DnsUnique' /\ Len(waiting') <= Len(waiting)
        /\ Len(waiting') \in Nat /\ Len(waiting) \in Nat
        /\ \A j \in DOMAIN waiting' : \E i \in DOMAIN waiting : i \in keep /\ waiting'[j] = waiting[i]
    BY <1>2, WaitersLeft DEF DnsInv
  <1>6. DnsTypes'
    BY <1>3, <1>5 DEF DnsInv, DnsTypes
  <1>7. DnsBalance'
    BY <1>3, <1>5 DEF DnsInv, DnsBalance
  <1>8. ASSUME ~slow, NEW j \in DOMAIN waiting'
        PROVE  Superseded(wire', resolver[waiting'[j].lookup], waiting'[j].lookup, 0, waiting'[j].age)
    <2>1. PICK i \in DOMAIN waiting : i \in keep /\ waiting'[j] = waiting[i]
      BY <1>5, <1>8
    <2>2. ~Is(wire[1], DnsPackets, waiting[i].lookup)
      BY <1>4, <2>1 DEF Is, p
    <2> QED
      BY <1>1, <1>8, <2>1, <2>2, TimelyWaits, SupersededByRest
  <1>9. Timely'
    <2>1. ~slow => dnsCounts.timeouts = 0
      BY DEF DnsInv, Timely
    <2>2. \A q \in Lookups \ Discovery : ~slow /\ Unanswered(resolver[q]) =>
            resolver[q].since = 0 \/ resolver[q].since + LAG <= DNS_TIMEOUT
      BY DEF DnsInv, Timely
    <2> QED
      BY <1>1, <1>3, <1>8, <2>1, <2>2, TimelyRest DEF Timely
  <1> QED
    BY <1>5, <1>6, <1>7, <1>9 DEF DnsInv

\* Nothing lapses that was answered in time.
LEMMA NothingLapses ==
  ASSUME WireTypes, DnsInv, ~slow
  PROVE  Lapsed = {}
  <1> SUFFICES ASSUME NEW i \in DOMAIN waiting PROVE ~(waiting[i].age > DNS_TIMEOUT)
    BY DEF Lapsed
  <1> DEFINE q == waiting[i].lookup
             a == waiting[i].age
  <1>1. a \in Nat /\ q \in Lookups \ Discovery /\ resolver[q].since \in Nat
    <2>1. waiting[i] \in Queries /\ q \notin Discovery
      BY DEF DnsInv, DnsTypes, DnsUnique
    <2>2. \A l \in Lookups : resolver[l] \in Clerks
      BY DEF DnsInv, DnsTypes
    <2> QED
      BY <2>1, <2>2 DEF Queries, Clerks
  <1>2. Superseded(wire, resolver[q], q, 0, a)
    BY TimelyWaits
  <1>3. DNS_TIMEOUT \in Nat /\ LAG \in Nat
    BY DnsAssumption, CaptureAssumption
  <1>4. ASSUME NEW j \in DOMAIN wire, a - wire[j].age + LAG <= DNS_TIMEOUT PROVE a <= DNS_TIMEOUT
    <2>1. wire[j].age \in 0 .. LAG
      BY WireFacts
    <2> QED
      BY <1>1, <1>3, <1>4, <2>1
  <1>5. ASSUME Unanswered(resolver[q]), a <= resolver[q].since PROVE a <= DNS_TIMEOUT
    <2>1. resolver[q].since = 0 \/ resolver[q].since + LAG <= DNS_TIMEOUT
      BY <1>1, <1>5 DEF DnsInv, Timely
    <2> QED
      BY <1>1, <1>3, <1>5, <2>1
  <1> QED
    BY <1>1, <1>2, <1>3, <1>4, <1>5 DEF Superseded

LEMMA DnsTickStep ==
  ASSUME WireTypes, DnsInv, DnsTick
  PROVE  DnsInv'
  <1> DEFINE keep == DOMAIN waiting \ Lapsed
  <1>1. /\ Lapsed # {} /\ waiting' = Retained(waiting, keep) /\ UNCHANGED <<wire, resolver, slow>>
        /\ dnsCounts' = [dnsCounts EXCEPT !.timeouts = @ + Cardinality(Lapsed)]
    BY DEF DnsTick, StillWaiting
  <1>2. slow
    BY <1>1, NothingLapses
  <1>3. waiting \in Seq(Queries) /\ DOMAIN waiting = 1 .. Len(waiting) /\ Len(waiting) \in Nat
    BY DEF DnsInv, DnsTypes
  <1>4. Lapsed \subseteq DOMAIN waiting
    BY DEF Lapsed
  <1> HIDE DEF keep
  <1>5. waiting' \in Seq(Queries) /\ DnsUnique' /\ Len(waiting') \in Nat
    BY <1>1, WaitersLeft DEF DnsInv
  <1>6. Len(waiting') = Cardinality(keep \cap DOMAIN waiting)
    BY <1>1, <1>3, RetainedLength
  <1>7. /\ IsFiniteSet(DOMAIN waiting) /\ Cardinality(DOMAIN waiting) = Len(waiting)
        /\ keep \cap DOMAIN waiting = DOMAIN waiting \ Lapsed /\ DOMAIN waiting \cap Lapsed = Lapsed
    BY <1>3, <1>4, UpTo DEF keep
  <1>8. Cardinality(DOMAIN waiting \ Lapsed) = Cardinality(DOMAIN waiting) - Cardinality(DOMAIN waiting \cap Lapsed)
    BY <1>7, FS_Difference
  <1>9. Cardinality(Lapsed) \in Nat
    BY <1>4, <1>7, FS_Subset, FS_CardinalityType
  <1>10. /\ dnsCounts \in [{"queries"} \cup Outcomes -> Nat] /\ dnsCounts.timeouts \in Nat /\ dnsCounts.queries \in Nat
         /\ dnsCounts.timeouts + Len(waiting) <= dnsCounts.queries
    BY DEF DnsInv, DnsTypes, DnsBalance, Outcomes
  <1>11. /\ dnsCounts' \in [{"queries"} \cup Outcomes -> Nat]
         /\ dnsCounts'.timeouts = dnsCounts.timeouts + Cardinality(Lapsed) /\ dnsCounts'.queries = dnsCounts.queries
    BY <1>1, <1>9, <1>10 DEF Outcomes, Rcodes
  <1>12. DnsTypes'
    BY <1>1, <1>5, <1>11 DEF DnsInv, DnsTypes
  <1>13. DnsBalance'
    <2>1. Len(waiting') = Len(waiting) - Cardinality(Lapsed)
      BY <1>6, <1>7, <1>8
    <2> QED
      BY <1>3, <1>9, <1>10, <1>11, <2>1 DEF DnsBalance
  <1>14. Timely'
    BY <1>1, <1>2 DEF Timely
  <1> QED
    BY <1>5, <1>12, <1>13, <1>14 DEF DnsInv

LEMMA DnsResetStep ==
  ASSUME WireTypes, DnsInv, DnsReset, wire' \in {<< >>, wire}
  PROVE  DnsInv'
  <1>1. /\ waiting' = << >> /\ dnsCounts' = [k \in DOMAIN dnsCounts |-> 0] /\ UNCHANGED <<resolver, slow>>
        /\ dnsCounts \in [{"queries"} \cup Outcomes -> Nat]
    BY DEF DnsReset, DnsInv, DnsTypes
  <1>2. dnsCounts' \in [{"queries"} \cup Outcomes -> Nat] /\ dnsCounts'.timeouts = 0 /\ dnsCounts'.queries = 0
    BY <1>1 DEF Outcomes
  <1>3. DnsTypes' /\ DnsUnique' /\ DnsBalance'
    BY <1>1, <1>2, DnsAssumption DEF DnsInv, DnsTypes, DnsUnique, DnsBalance
  <1>4. Timely'
    BY <1>1, <1>2 DEF DnsInv, Timely
  <1> QED
    BY <1>3, <1>4 DEF DnsInv

LEMMA AskStep ==
  ASSUME WireTypes, DnsInv, NEW q \in Lookups, Ask(q)
  PROVE  WireTypes' /\ DnsInv'
  <1> DEFINE p == [kind |-> "query", of |-> q, age |-> 0]
             x == resolver[q]
             y == [x EXCEPT !.asked = @ + 1, !.since = 0]
  <1>1. /\ x.asked < ASKS /\ x.answers = 0 /\ x.since >= RESEND
        /\ resolver' = [resolver EXCEPT ![q].asked = @ + 1, ![q].since = 0]
        /\ UNCHANGED <<waiting, dnsCounts, slow>>
    BY DEF Ask, dnsTrackerVars
  <1>2. WireTypes' /\ Longer(wire, wire', p)
    BY WireGrows DEF Ask
  <1>3. resolver \in [Lookups -> Clerks] /\ x \in Clerks /\ ASKS \in Nat /\ RESEND \in Nat \ {0} /\ LAG \in Nat /\ DNS_TIMEOUT \in Nat
    BY DnsAssumption, CaptureAssumption DEF DnsInv, DnsTypes
  <1>4. resolver' = [resolver EXCEPT ![q] = y]
    BY <1>1, <1>3
  <1>5. y \in Clerks /\ y.asked = x.asked + 1 /\ y.answers = 0 /\ y.since = 0 /\ x.asked \in Nat /\ x.since \in Nat
    BY <1>1, <1>3 DEF Clerks
  <1>6. Unanswered(y)
    BY <1>5 DEF Unanswered
  <1>7. p.kind = "query" /\ p.of = q /\ p.age = 0 /\ Is(p, DnsPackets, q)
    BY DEF Is, DnsPackets
  <1> HIDE DEF p, y
  <1>8. resolver' \in [Lookups -> Clerks] /\ resolver'[q] = y /\ \A l \in Lookups \ {q} : resolver'[l] = resolver[l]
    BY <1>3, <1>4, <1>5
  <1>9. DnsTypes' /\ DnsUnique' /\ DnsBalance'
    BY <1>1, <1>8 DEF DnsInv, DnsTypes, DnsUnique, DnsBalance
  <1>10. ASSUME NEW l \in Lookups \ Discovery, NEW i, NEW a \in Nat, i < Len(wire) + 1, ~slow,
                Superseded(wire, resolver[l], l, i, a)
         PROVE  Superseded(wire', resolver'[l], l, i, a)
    <2>1. CASE l # q
      BY <1>2, <1>8, <1>10, <2>1, SupersededStill
    <2>2. CASE l = q /\ Unanswered(x) /\ a <= x.since
      <3>1. x.since + LAG <= DNS_TIMEOUT
        BY <1>1, <1>3, <1>5, <1>10, <2>2 DEF DnsInv, Timely
      <3>2. a - 0 + LAG <= DNS_TIMEOUT
        BY <1>3, <1>5, <1>10, <2>2, <3>1
      <3>3. Len(wire) + 1 \in DOMAIN wire' /\ wire'[Len(wire) + 1] = p
        BY <1>2 DEF Longer
      <3> QED
        BY <1>7, <1>10, <2>2, <3>2, <3>3 DEF Superseded
    <2>3. CASE l = q /\ ~(Unanswered(x) /\ a <= x.since)
      <3>1. \E j \in DOMAIN wire : j > i /\ Is(wire[j], DnsPackets, q) /\ a - wire[j].age + LAG <= DNS_TIMEOUT
        BY <1>10, <2>3 DEF Superseded
      <3> QED
        BY <1>2, <2>3, <3>1 DEF Superseded, Longer
    <2> QED
      BY <2>1, <2>2, <2>3
  <1>11. ASSUME ~slow, NEW i \in DOMAIN waiting
         PROVE  Superseded(wire', resolver'[waiting[i].lookup], waiting[i].lookup, 0, waiting[i].age)
    <2>1. waiting[i] \in Queries /\ waiting[i].lookup \notin Discovery
      BY DEF DnsInv, DnsTypes, DnsUnique
    <2>2. waiting[i].lookup \in Lookups \ Discovery /\ waiting[i].age \in Nat /\ 0 < Len(wire) + 1
      BY <2>1, WireFacts DEF Queries
    <2> QED
      BY <1>10, <1>11, <2>2, TimelyWaits
  <1>12. ASSUME ~slow, NEW i \in DOMAIN wire', wire'[i].kind = "query", wire'[i].of \notin Discovery
         PROVE  Superseded(wire', resolver'[wire'[i].of], wire'[i].of, i, wire'[i].age)
    <2>1. CASE i \in DOMAIN wire
      <3>1. wire'[i] = wire[i] /\ i < Len(wire) + 1
        BY <1>2, <2>1 DEF Longer
      <3>2. wire[i].of \in Lookups /\ wire[i].age \in Nat
        BY <1>12, <2>1, <3>1, WireFacts DEF FlowPackets
      <3>3. Superseded(wire, resolver[wire[i].of], wire[i].of, i, wire[i].age)
        BY <1>12, <2>1, <3>1 DEF DnsInv, Timely
      <3> QED
        BY <1>10, <1>12, <3>1, <3>2, <3>3
    <2>2. CASE i \notin DOMAIN wire
      <3>1. wire'[i] = p
        BY <1>2, <2>2 DEF Longer
      <3> QED
        BY <1>5, <1>6, <1>7, <1>8, <3>1 DEF Superseded
    <2> QED
      BY <2>1, <2>2
  <1>13. \A l \in Lookups \ Discovery : ~slow /\ Unanswered(resolver'[l]) =>
           resolver'[l].since = 0 \/ resolver'[l].since + LAG <= DNS_TIMEOUT
    <2>1. \A l \in Lookups \ Discovery : ~slow /\ Unanswered(resolver[l]) =>
            resolver[l].since = 0 \/ resolver[l].since + LAG <= DNS_TIMEOUT
      BY DEF DnsInv, Timely
    <2> QED
      BY <1>5, <1>8, <2>1
  <1>14. Timely'
    <2>1. ~slow => dnsCounts.timeouts = 0
      BY DEF DnsInv, Timely
    <2> QED
      BY <1>1, <1>11, <1>12, <1>13, <2>1 DEF Timely
  <1> QED
    BY <1>2, <1>9, <1>14 DEF DnsInv

LEMMA RespondStep ==
  ASSUME WireTypes, DnsInv, NEW q \in Lookups, Respond(q)
  PROVE  WireTypes' /\ DnsInv'
  <1>0. PICK rcode \in Rcodes : Captured(rcode, q)
    BY DEF Respond
  <1> DEFINE p == [kind |-> rcode, of |-> q, age |-> 0]
             x == resolver[q]
             y == [x EXCEPT !.answers = @ + 1]
  <1>1. /\ x.answers < x.asked
        /\ resolver' = [resolver EXCEPT ![q].answers = @ + 1]
        /\ UNCHANGED <<waiting, dnsCounts, slow>>
    BY DEF Respond, dnsTrackerVars
  <1>2. WireTypes' /\ Longer(wire, wire', p)
    BY <1>0, WireGrows
  <1>3. resolver \in [Lookups -> Clerks] /\ x \in Clerks /\ ASKS \in Nat /\ LAG \in Nat /\ DNS_TIMEOUT \in Nat /\ LAG <= DNS_TIMEOUT
    BY DnsAssumption, CaptureAssumption DEF DnsInv, DnsTypes
  <1>4. resolver' = [resolver EXCEPT ![q] = y]
    BY <1>1, <1>3
  <1>5. y \in Clerks /\ y.answers = x.answers + 1 /\ x.answers \in Nat /\ x.since \in Nat
    BY <1>1, <1>3 DEF Clerks
  <1>6. ~Unanswered(y)
    BY <1>5 DEF Unanswered
  <1>7. p.kind \in Rcodes /\ p.of = q /\ p.age = 0 /\ Is(p, DnsPackets, q) /\ p.kind # "query"
    BY DEF Is, DnsPackets, Rcodes
  <1> HIDE DEF p, y
  <1>8. resolver' \in [Lookups -> Clerks] /\ resolver'[q] = y /\ \A l \in Lookups \ {q} : resolver'[l] = resolver[l]
    BY <1>3, <1>4, <1>5
  <1>9. DnsTypes' /\ DnsUnique' /\ DnsBalance'
    BY <1>1, <1>8 DEF DnsInv, DnsTypes, DnsUnique, DnsBalance
  <1>10. ASSUME NEW l \in Lookups \ Discovery, NEW i, NEW a \in Nat, i < Len(wire) + 1, ~slow,
                Superseded(wire, resolver[l], l, i, a)
         PROVE  Superseded(wire', resolver'[l], l, i, a)
    <2>1. CASE l # q
      BY <1>2, <1>8, <1>10, <2>1, SupersededStill
    <2>2. CASE l = q /\ Unanswered(x) /\ a <= x.since
      <3>1. x.since = 0 \/ x.since + LAG <= DNS_TIMEOUT
        BY <1>10, <2>2 DEF DnsInv, Timely
      <3>2. a - 0 + LAG <= DNS_TIMEOUT
        BY <1>3, <1>5, <1>10, <2>2, <3>1
      <3>3. Len(wire) + 1 \in DOMAIN wire' /\ wire'[Len(wire) + 1] = p
        BY <1>2 DEF Longer
      <3> QED
        BY <1>7, <1>10, <2>2, <3>2, <3>3 DEF Superseded
    <2>3. CASE l = q /\ ~(Unanswered(x) /\ a <= x.since)
      <3>1. \E j \in DOMAIN wire : j > i /\ Is(wire[j], DnsPackets, q) /\ a - wire[j].age + LAG <= DNS_TIMEOUT
        BY <1>10, <2>3 DEF Superseded
      <3> QED
        BY <1>2, <2>3, <3>1 DEF Superseded, Longer
    <2> QED
      BY <2>1, <2>2, <2>3
  <1>11. ASSUME ~slow, NEW i \in DOMAIN waiting
         PROVE  Superseded(wire', resolver'[waiting[i].lookup], waiting[i].lookup, 0, waiting[i].age)
    <2>1. waiting[i] \in Queries /\ waiting[i].lookup \notin Discovery
      BY DEF DnsInv, DnsTypes, DnsUnique
    <2>2. waiting[i].lookup \in Lookups \ Discovery /\ waiting[i].age \in Nat /\ 0 < Len(wire) + 1
      BY <2>1, WireFacts DEF Queries
    <2> QED
      BY <1>10, <1>11, <2>2, TimelyWaits
  <1>12. ASSUME ~slow, NEW i \in DOMAIN wire', wire'[i].kind = "query", wire'[i].of \notin Discovery
         PROVE  Superseded(wire', resolver'[wire'[i].of], wire'[i].of, i, wire'[i].age)
    <2>1. i \in DOMAIN wire
      BY <1>2, <1>7, <1>12 DEF Longer
    <2>2. wire'[i] = wire[i] /\ i < Len(wire) + 1
      BY <1>2, <2>1 DEF Longer
    <2>3. wire[i].of \in Lookups /\ wire[i].age \in Nat
      BY <1>12, <2>1, <2>2, WireFacts DEF FlowPackets
    <2>4. Superseded(wire, resolver[wire[i].of], wire[i].of, i, wire[i].age)
      BY <1>12, <2>1, <2>2 DEF DnsInv, Timely
    <2> QED
      BY <1>10, <1>12, <2>2, <2>3, <2>4
  <1>13. \A l \in Lookups \ Discovery : ~slow /\ Unanswered(resolver'[l]) =>
           resolver'[l].since = 0 \/ resolver'[l].since + LAG <= DNS_TIMEOUT
    <2>1. \A l \in Lookups \ Discovery : ~slow /\ Unanswered(resolver[l]) =>
            resolver[l].since = 0 \/ resolver[l].since + LAG <= DNS_TIMEOUT
      BY DEF DnsInv, Timely
    <2> QED
      BY <1>6, <1>8, <2>1
  <1>14. Timely'
    <2>1. ~slow => dnsCounts.timeouts = 0
      BY DEF DnsInv, Timely
    <2> QED
      BY <1>1, <1>11, <1>12, <1>13, <2>1 DEF Timely
  <1> QED
    BY <1>2, <1>9, <1>14 DEF DnsInv

LEMMA DnsElapseStep ==
  ASSUME WireTypes, DnsInv, InTime, DnsInTime, wire' = Travelled, DnsElapse
  PROVE  DnsInv'
  <1>1. /\ waiting' = [i \in DOMAIN waiting |-> [waiting[i] EXCEPT !.age = @ + 1]]
        /\ resolver' = [q \in Lookups |-> [resolver[q] EXCEPT !.since = IF @ < Longest THEN @ + 1 ELSE @]]
        /\ slow' = (slow \/ \E q \in Lookups : Overlong(q))
        /\ dnsCounts' = dnsCounts
    BY DEF DnsElapse
  <1>2. /\ DOMAIN wire' = DOMAIN wire
        /\ \A i \in DOMAIN wire : /\ wire'[i].kind = wire[i].kind /\ wire'[i].of = wire[i].of
                                  /\ wire'[i].age = wire[i].age + 1 /\ wire[i].age \in Nat
    BY WireAges, WireFacts
  <1>3. /\ waiting \in Seq(Queries) /\ Len(waiting) \in Nat /\ DOMAIN waiting = 1 .. Len(waiting)
        /\ resolver \in [Lookups -> Clerks] /\ LAG \in Nat /\ DNS_TIMEOUT \in Nat
    BY DnsAssumption, CaptureAssumption DEF DnsInv, DnsTypes
  <1>4. ASSUME NEW i \in DOMAIN waiting
        PROVE  /\ waiting'[i].lookup = waiting[i].lookup /\ waiting'[i].age = waiting[i].age + 1
               /\ waiting'[i] \in Queries /\ waiting[i].age <= DNS_TIMEOUT /\ waiting[i].age \in Nat
               /\ waiting[i].lookup \in Lookups \ Discovery
    <2>1. waiting[i] \in Queries /\ waiting'[i] = [waiting[i] EXCEPT !.age = @ + 1] /\ waiting[i].lookup \notin Discovery
      BY <1>1, <1>3 DEF DnsInv, DnsUnique
    <2>2. ~(waiting[i].age > DNS_TIMEOUT)
      BY DEF DnsInTime, Lapsed
    <2> QED
      BY <1>3, <2>1, <2>2 DEF Queries
  <1>5. waiting' \in Seq(Queries) /\ Len(waiting') = Len(waiting) /\ DOMAIN waiting' = DOMAIN waiting
    <2>1. waiting' \in [1 .. Len(waiting) -> Queries]
      BY <1>1, <1>3, <1>4
    <2> QED
      BY <1>1, <1>3, <2>1
  <1>6. Longest \in Nat /\ DNS_TIMEOUT <= Longest
    BY DnsAssumption DEF Longest
  <1>7. ASSUME NEW q \in Lookups
        PROVE  /\ resolver'[q] \in Clerks
               /\ resolver'[q].asked = resolver[q].asked /\ resolver'[q].answers = resolver[q].answers
               /\ resolver[q].since \in Nat
               /\ resolver[q].since < DNS_TIMEOUT => resolver'[q].since = resolver[q].since + 1
    <2>1. resolver[q] \in Clerks
      BY <1>3
    <2> DEFINE since == IF resolver[q].since < Longest THEN resolver[q].since + 1 ELSE resolver[q].since
    <2>2. resolver'[q] = [resolver[q] EXCEPT !.since = since]
      BY <1>1
    <2>3. resolver[q].since \in Nat
      BY <2>1 DEF Clerks
    <2>4. since \in Nat /\ (resolver[q].since < DNS_TIMEOUT => since = resolver[q].since + 1)
      BY <1>3, <1>6, <2>3
    <2> HIDE DEF since
    <2>5. resolver'[q] \in Clerks /\ resolver'[q].since = since
      BY <2>1, <2>2, <2>4 DEF Clerks
    <2> QED
      BY <2>1, <2>2, <2>3, <2>4, <2>5 DEF Clerks
  <1>8. DnsTypes' /\ DnsUnique' /\ DnsBalance'
    <2>1. resolver' \in [Lookups -> Clerks]
      BY <1>1, <1>7
    <2>2. slow' \in BOOLEAN
      BY <1>1
    <2>3. DnsTypes'
      BY <1>1, <1>5, <2>1, <2>2 DEF DnsInv, DnsTypes
    <2>4. DnsUnique'
      BY <1>3, <1>4, <1>5 DEF DnsInv, DnsUnique
    <2> QED
      BY <1>1, <1>5, <2>3, <2>4 DEF DnsInv, DnsBalance
  <1>9. ASSUME ~slow', NEW q \in Lookups \ Discovery, Unanswered(resolver[q])
        PROVE  resolver[q].since + LAG < DNS_TIMEOUT /\ resolver'[q].since = resolver[q].since + 1
    <2>1. ~Overlong(q) /\ resolver[q].since \in Nat
      BY <1>1, <1>7, <1>9
    <2>2. resolver[q].since + LAG < DNS_TIMEOUT
      BY <1>3, <1>9, <2>1 DEF Overlong, Unanswered
    <2>3. resolver[q].since < DNS_TIMEOUT
      BY <1>3, <2>1, <2>2
    <2> QED
      BY <1>7, <2>2, <2>3
  <1>10. ASSUME ~slow', NEW q \in Lookups \ Discovery, NEW i, NEW a \in Nat, Superseded(wire, resolver[q], q, i, a)
         PROVE  Superseded(wire', resolver'[q], q, i, a + 1)
    <2>1. CASE Unanswered(resolver[q]) /\ a <= resolver[q].since
      <3>1. resolver'[q].since = resolver[q].since + 1 /\ resolver[q].since \in Nat
        BY <1>7, <1>9, <1>10, <2>1
      <3>2. Unanswered(resolver'[q])
        BY <1>7, <2>1 DEF Unanswered
      <3> QED
        BY <1>10, <2>1, <3>1, <3>2 DEF Superseded
    <2>2. CASE \E j \in DOMAIN wire : j > i /\ Is(wire[j], DnsPackets, q) /\ a - wire[j].age + LAG <= DNS_TIMEOUT
      <3>1. PICK j \in DOMAIN wire : j > i /\ Is(wire[j], DnsPackets, q) /\ a - wire[j].age + LAG <= DNS_TIMEOUT
        BY <2>2
      <3>2. j \in DOMAIN wire' /\ Is(wire'[j], DnsPackets, q)
        BY <1>2, <3>1 DEF Is
      <3>3. (a + 1) - wire'[j].age + LAG <= DNS_TIMEOUT
        BY <1>2, <1>3, <1>10, <3>1
      <3>4. \E k \in DOMAIN wire' : k > i /\ Is(wire'[k], DnsPackets, q) /\ (a + 1) - wire'[k].age + LAG <= DNS_TIMEOUT
        BY <3>1, <3>2, <3>3
      <3> QED
        BY <3>4 DEF Superseded
    <2> QED
      BY <1>10, <2>1, <2>2 DEF Superseded
  <1>11. Timely'
    <2>1. ~slow' => ~slow
      BY <1>1
    <2>2. ASSUME ~slow', NEW i \in DOMAIN waiting'
          PROVE  Superseded(wire', resolver'[waiting'[i].lookup], waiting'[i].lookup, 0, waiting'[i].age)
      <3>1. i \in DOMAIN waiting
        BY <1>5, <2>2
      <3>2. Superseded(wire, resolver[waiting[i].lookup], waiting[i].lookup, 0, waiting[i].age)
        BY <2>1, <2>2, <3>1, TimelyWaits
      <3> QED
        BY <1>4, <1>10, <2>2, <3>1, <3>2
    <2>3. ASSUME ~slow', NEW i \in DOMAIN wire', wire'[i].kind = "query", wire'[i].of \notin Discovery
          PROVE  Superseded(wire', resolver'[wire'[i].of], wire'[i].of, i, wire'[i].age)
      <3>1. i \in DOMAIN wire /\ wire[i].kind = "query" /\ wire'[i].of = wire[i].of /\ wire'[i].age = wire[i].age + 1
        BY <1>2, <2>3
      <3>2. wire[i].of \in Lookups \ Discovery /\ wire[i].age \in Nat
        BY <1>2, <2>3, <3>1, WireFacts DEF FlowPackets
      <3>3. Superseded(wire, resolver[wire[i].of], wire[i].of, i, wire[i].age)
        BY <2>1, <2>3, <3>1, <3>2 DEF DnsInv, Timely
      <3> QED
        BY <1>10, <2>3, <3>1, <3>2, <3>3
    <2>4. ASSUME ~slow', NEW q \in Lookups \ Discovery, Unanswered(resolver'[q])
          PROVE  resolver'[q].since + LAG <= DNS_TIMEOUT
      <3>1. Unanswered(resolver[q])
        BY <1>7, <2>4 DEF Unanswered
      <3> QED
        BY <1>3, <1>7, <1>9, <2>4, <3>1
    <2>5. ~slow => dnsCounts.timeouts = 0
      BY DEF DnsInv, Timely
    <2> QED
      BY <1>1, <2>1, <2>2, <2>3, <2>4, <2>5 DEF Timely
  <1> QED
    BY <1>8, <1>11 DEF DnsInv
-----------------------------------------------------------------------------
(* The handshake tracker: who is followed, and who was seen recently.       *)

LEMMA FollowedByRest ==
  ASSUME NEW w, NEW v, Shorter(w, v), NEW x, NEW c, NEW a, NEW d
  PROVE  /\ \A i \in Nat : i >= 1 /\ Followed(w, x, c, i, a, d) => Followed(v, x, c, i - 1, a, d)
         /\ Followed(w, x, c, 0, a, d) /\ ~IsSyn(w[1], c) => Followed(v, x, c, 0, a, d)
  <1>1. ASSUME NEW j \in DOMAIN w, j # 1, IsSyn(w[j], c), a - w[j].age <= d, NEW k \in Int, k < j - 1
        PROVE  \E h \in DOMAIN v : h > k /\ IsSyn(v[h], c) /\ a - v[h].age <= d
    <2>1. j \in Nat /\ j - 1 \in DOMAIN v /\ v[j - 1] = w[j] /\ j - 1 > k
      BY <1>1 DEF Shorter
    <2> QED
      BY <1>1, <2>1
  <1>2. ASSUME NEW i \in Nat, i >= 1, Followed(w, x, c, i, a, d) PROVE Followed(v, x, c, i - 1, a, d)
    <2>1. CASE Retries(x) /\ a + x.wait <= d
      BY <2>1 DEF Followed
    <2>2. CASE \E j \in DOMAIN w : j > i /\ IsSyn(w[j], c) /\ a - w[j].age <= d
      <3>1. PICK j \in DOMAIN w : j > i /\ IsSyn(w[j], c) /\ a - w[j].age <= d
        BY <2>2
      <3>2. j \in Nat
        BY DEF Shorter
      <3>3. i - 1 \in Int /\ i - 1 < j - 1 /\ j # 1
        BY <1>2, <3>1, <3>2
      <3> QED
        BY <1>1, <3>1, <3>3 DEF Followed
    <2>3. CASE ~Retries(x) /\ \A j \in DOMAIN w : j > i => ~IsSyn(w[j], c)
      <3>1. ASSUME NEW j \in DOMAIN v, j > i - 1 PROVE ~IsSyn(v[j], c)
        <4>1. j \in Nat /\ j + 1 \in DOMAIN w /\ v[j] = w[j + 1]
          BY DEF Shorter
        <4>2. j + 1 > i
          BY <1>2, <3>1, <4>1
        <4> QED
          BY <2>3, <4>1, <4>2
      <3> QED
        BY <2>3, <3>1 DEF Followed
    <2> QED
      BY <1>2, <2>1, <2>2, <2>3 DEF Followed
  <1>3. ASSUME Followed(w, x, c, 0, a, d), ~IsSyn(w[1], c) PROVE Followed(v, x, c, 0, a, d)
    <2>1. CASE Retries(x) /\ a + x.wait <= d
      BY <2>1 DEF Followed
    <2>2. CASE \E j \in DOMAIN w : j > 0 /\ IsSyn(w[j], c) /\ a - w[j].age <= d
      <3>1. PICK j \in DOMAIN w : j > 0 /\ IsSyn(w[j], c) /\ a - w[j].age <= d
        BY <2>2
      <3>2. j \in Nat /\ j # 1
        BY <1>3, <3>1 DEF Shorter
      <3>3. 0 < j - 1
        BY <3>1, <3>2
      <3> QED
        BY <1>1, <3>1, <3>2, <3>3 DEF Followed
    <2>3. CASE ~Retries(x) /\ \A j \in DOMAIN w : j > 0 => ~IsSyn(w[j], c)
      <3>1. ASSUME NEW j \in DOMAIN v PROVE ~IsSyn(v[j], c)
        <4>1. j \in Nat /\ j + 1 \in DOMAIN w /\ v[j] = w[j + 1]
          BY DEF Shorter
        <4> QED
          BY <2>3, <4>1
      <3> QED
        BY <2>3, <3>1 DEF Followed
    <2> QED
      BY <1>3, <2>1, <2>2, <2>3 DEF Followed
  <1> QED
    BY <1>2, <1>3

\* v is w, or w with p at its end.
Extends(w, v, p) ==
  /\ \A i \in DOMAIN w : i \in DOMAIN v /\ v[i] = w[i]
  /\ \A i \in DOMAIN v : i \in DOMAIN w \/ v[i] = p

\* What was captured is no SYN of c.
LEMMA FollowedStill ==
  ASSUME NEW w, NEW v, NEW p, Extends(w, v, p), NEW c, ~IsSyn(p, c), NEW x, NEW i, NEW a, NEW d, Followed(w, x, c, i, a, d)
  PROVE  Followed(v, x, c, i, a, d)
  BY DEF Followed, Extends

\* The client has ended its attempts.
LEMMA FollowedEnds ==
  ASSUME NEW w, NEW v, NEW p, Extends(w, v, p), NEW c, ~IsSyn(p, c), NEW x, x.wait \in Nat, NEW y, ~Retries(y),
         NEW i, NEW a \in Nat, NEW d \in Int, \A j \in DOMAIN w : w[j].age \in Nat, Followed(w, x, c, i, a, d)
  PROVE  Followed(v, y, c, i, a, d)
  <1>1. CASE \E j \in DOMAIN w : j > i /\ IsSyn(w[j], c) /\ a - w[j].age <= d
    BY <1>1 DEF Followed, Extends
  <1>2. CASE \A j \in DOMAIN w : j > i => ~IsSyn(w[j], c)
    BY <1>2 DEF Followed, Extends
  <1>3. CASE a + x.wait <= d
    <2>1. \A j \in DOMAIN w : a - w[j].age <= d
      BY <1>3
    <2> QED
      BY <1>2, <2>1 DEF Followed, Extends
  <1> QED
    BY <1>1, <1>2, <1>3 DEF Followed

\* The client sends its next SYN.
LEMMA FollowedBySyn ==
  ASSUME NEW w, NEW v, NEW p, Longer(w, v, p), NEW c, IsSyn(p, c), p.age = 0, NEW x, Retries(x), x.wait = 0, NEW y,
         NEW i, i < Len(w) + 1, NEW a \in Nat, NEW d, Followed(w, x, c, i, a, d)
  PROVE  Followed(v, y, c, i, a, d)
  <1>1. CASE \E j \in DOMAIN w : j > i /\ IsSyn(w[j], c) /\ a - w[j].age <= d
    BY <1>1 DEF Followed, Longer
  <1>2. CASE a + x.wait <= d
    <2>1. Len(w) + 1 \in DOMAIN v /\ v[Len(w) + 1] = p /\ a - p.age <= d
      BY <1>2 DEF Longer
    <2> QED
      BY <2>1 DEF Followed
  <1> QED
    BY <1>1, <1>2 DEF Followed

\* v is w, a unit of time later.
Older(w, v) ==
  /\ DOMAIN v = DOMAIN w /\ Len(v) = Len(w)
  /\ \A i \in DOMAIN w : /\ v[i].kind = w[i].kind /\ v[i].of = w[i].of
                         /\ w[i].age \in Nat /\ v[i].age = w[i].age + 1

LEMMA FollowedAges ==
  ASSUME NEW w, NEW v, Older(w, v), NEW c, NEW x, NEW y, x.wait \in Nat, y.phase = x.phase, y.tries = x.tries,
         x.phase = "connecting" => y.wait = x.wait - 1,
         NEW i, NEW a \in Nat, NEW b \in Nat, b <= a + 1, NEW d \in Int, Followed(w, x, c, i, a, d)
  PROVE  Followed(v, y, c, i, b, d)
  <1>1. CASE \E j \in DOMAIN w : j > i /\ IsSyn(w[j], c) /\ a - w[j].age <= d
    <2>1. PICK j \in DOMAIN w : j > i /\ IsSyn(w[j], c) /\ a - w[j].age <= d
      BY <1>1
    <2>2. j \in DOMAIN v /\ IsSyn(v[j], c) /\ b - v[j].age <= d
      BY <2>1 DEF Older, IsSyn, Is
    <2> QED
      BY <2>1, <2>2 DEF Followed
  <1>2. CASE Retries(x) /\ a + x.wait <= d
    BY <1>2 DEF Followed, Retries
  <1>3. CASE ~Retries(x) /\ \A j \in DOMAIN w : j > i => ~IsSyn(w[j], c)
    BY <1>3 DEF Followed, Retries, Older, IsSyn, Is
  <1> QED
    BY <1>1, <1>2, <1>3 DEF Followed

\* What every entry still there, and every packet, gives.
LEMMA RecentStill ==
  ASSUME NEW es, NEW w, NEW v, NEW p, Extends(w, v, p), NEW c, NEW a \in Int, NEW b \in Int, a <= b, NEW k, NEW l,
         \A e \in es : e.age \in Nat, \A i \in DOMAIN w : w[i].age \in Nat /\ i \in Nat,
         \A i \in DOMAIN w : i < k => i < l, Recent(es, w, c, a, k)
  PROVE  Recent(es, v, c, b, l)
  <1>1. CASE \E e \in es : e.conn = c /\ e.age <= a
    BY <1>1 DEF Recent
  <1>2. CASE \E j \in DOMAIN w : j < k /\ IsSyn(w[j], c) /\ w[j].age <= a
    <2>1. PICK j \in DOMAIN w : j < k /\ IsSyn(w[j], c) /\ w[j].age <= a
      BY <1>2
    <2>2. j \in DOMAIN v /\ v[j] = w[j] /\ j < l /\ v[j].age <= b
      BY <2>1 DEF Extends
    <2> QED
      BY <2>1, <2>2 DEF Recent
  <1> QED
    BY <1>1, <1>2 DEF Recent
-----------------------------------------------------------------------------
(* The handshake tracker: what a packet does to what it keeps.              *)

LEMMA FlowFacts ==
  ASSUME FlowTypes
  PROVE  /\ TIMEOUT \in Nat \ {0} /\ REFAIL_WINDOW \in Nat \ {0} /\ LAG \in Nat /\ LAG <= TIMEOUT
         /\ OPEN_CAP \in Nat \ {0} /\ PENDING_CAP \in Nat \ {0}
         /\ DOMAIN pending = 1 .. Len(pending) /\ Len(pending) \in Nat
         /\ DOMAIN open = 1 .. Len(open) /\ Len(open) \in Nat
         /\ Pend \subseteq Entries /\ Shown \subseteq Conns /\ Attempts \subseteq Conns
         /\ \A e \in Pend : e.conn \in Conns /\ e.age \in Nat
         /\ Attempts = {e.conn : e \in {f \in Pend : ~f.refail}}
  <1>1. /\ DOMAIN pending = 1 .. Len(pending) /\ Len(pending) \in Nat
        /\ DOMAIN open = 1 .. Len(open) /\ Len(open) \in Nat
        /\ Pend \subseteq Entries /\ Shown \subseteq Conns
    BY DEF FlowTypes, Pend, Shown
  <1>2. \A e \in Pend : e.conn \in Conns /\ e.age \in Nat
    BY <1>1 DEF Entries
  <1>3. Attempts = {e.conn : e \in {f \in Pend : ~f.refail}}
    BY DEF Attempts, Pend
  <1> QED
    BY <1>1, <1>2, <1>3, FlowsAssumption, CaptureAssumption

UniquePending == \A i, j \in DOMAIN pending : pending[i].conn = pending[j].conn => i = j
UniqueOpen == (\A i, j \in DOMAIN open : open[i] = open[j] => i = j) /\ Len(open) <= OPEN_CAP

LEMMA UniqueParts ==
  Unique <=> UniquePending /\ UniqueOpen
  BY DEF Unique, UniquePending, UniqueOpen

LEMMA OnePending ==
  ASSUME UniquePending, NEW e \in Pend, NEW f \in Pend, e.conn = f.conn
  PROVE  e = f
  BY DEF UniquePending, Pend

LEMMA PendingLeft ==
  ASSUME FlowTypes, UniquePending, NEW keep, pending' = Retained(pending, keep)
  PROVE  /\ pending' \in Seq(Entries) /\ UniquePending'
         /\ \A e \in Pend' : \E i \in DOMAIN pending : i \in keep /\ e = pending[i]
         /\ \A i \in DOMAIN pending : i \in keep => pending[i] \in Pend'
         /\ Pend' \subseteq Pend
  <1> DEFINE left == Retained(pending, keep)
  <1>1. pending \in Seq(Entries)
    BY DEF FlowTypes
  <1>2. /\ left \in Seq(Entries)
        /\ \A j \in DOMAIN left : \E i \in DOMAIN pending : i \in keep /\ left[j] = pending[i]
        /\ \A i \in DOMAIN pending : i \in keep => \E j \in DOMAIN left : left[j] = pending[i]
    BY <1>1, RetainedIs
  <1>3. \A j, k \in DOMAIN left :
          j # k => \E h, i \in DOMAIN pending : h # i /\ left[j] = pending[h] /\ left[k] = pending[i]
    BY <1>1, RetainedApart
  <1>4. pending' = left
    OBVIOUS
  <1> HIDE DEF left
  <1>5. UniquePending'
    BY <1>3, <1>4 DEF UniquePending
  <1>6. /\ \A e \in Pend' : \E i \in DOMAIN pending : i \in keep /\ e = pending[i]
        /\ \A i \in DOMAIN pending : i \in keep => pending[i] \in Pend'
    BY <1>2, <1>4 DEF Pend
  <1>7. Pend' \subseteq Pend
    BY <1>6 DEF Pend
  <1> QED
    BY <1>2, <1>4, <1>5, <1>6, <1>7

LEMMA PendingWithoutIs ==
  ASSUME FlowTypes, UniquePending, NEW c, pending' = PendingWithout(c)
  PROVE  pending' \in Seq(Entries) /\ UniquePending' /\ Pend' = {e \in Pend : e.conn # c}
  <1> DEFINE keep == {i \in DOMAIN pending : pending[i].conn # c}
  <1>1. pending' = Retained(pending, keep) /\ \A i \in DOMAIN pending : i \in keep <=> pending[i].conn # c
    BY DEF PendingWithout
  <1> HIDE DEF keep
  <1>2. /\ pending' \in Seq(Entries) /\ UniquePending'
        /\ \A e \in Pend' : \E i \in DOMAIN pending : i \in keep /\ e = pending[i]
        /\ \A i \in DOMAIN pending : i \in keep => pending[i] \in Pend'
    BY <1>1, PendingLeft
  <1>3. Pend' = {e \in Pend : e.conn # c}
    BY <1>1, <1>2 DEF Pend
  <1> QED
    BY <1>2, <1>3

LEMMA OpenWithoutIs ==
  ASSUME FlowTypes, UniqueOpen, NEW c, open' = OpenWithout(c)
  PROVE  open' \in Seq(Conns) /\ UniqueOpen' /\ Shown' = Shown \ {c}
  <1> DEFINE keep == {i \in DOMAIN open : open[i] # c}
             left == Retained(open, keep)
  <1>1. /\ open' = left /\ \A i \in DOMAIN open : i \in keep <=> open[i] # c
        /\ open \in Seq(Conns)
    BY DEF OpenWithout, FlowTypes
  <1> HIDE DEF keep
  <1>2. /\ left \in Seq(Conns)
        /\ \A j \in DOMAIN left : \E i \in DOMAIN open : i \in keep /\ left[j] = open[i]
        /\ \A i \in DOMAIN open : i \in keep => \E j \in DOMAIN left : left[j] = open[i]
    BY <1>1, RetainedIs
  <1>3. \A j, k \in DOMAIN left :
          j # k => \E h, i \in DOMAIN open : h # i /\ left[j] = open[h] /\ left[k] = open[i]
    BY <1>1, RetainedApart
  <1>4. Len(left) <= Len(open)
    BY <1>1, RetainedLength
  <1>5. Len(open) \in Nat /\ OPEN_CAP \in Nat /\ Len(open) <= OPEN_CAP
    BY FlowFacts DEF UniqueOpen
  <1> HIDE DEF left
  <1>6. Len(left) \in Nat
    BY <1>2
  <1>7. UniqueOpen'
    BY <1>1, <1>3, <1>4, <1>5, <1>6 DEF UniqueOpen
  <1>8. Shown' = Shown \ {c}
    BY <1>1, <1>2 DEF Shown
  <1> QED
    BY <1>1, <1>2, <1>7, <1>8

LEMMA OpenedIs ==
  ASSUME FlowTypes, UniqueOpen, NEW c \in Conns, open' = Opened(c)
  PROVE  /\ open' \in Seq(Conns) /\ UniqueOpen'
         /\ c \in Shown' /\ Shown' \subseteq Shown \cup {c}
         /\ Shown \subseteq Shown' \cup CrowdedOutOfOpen
         /\ CrowdedOutOfOpen \subseteq Conns
  <1> DEFINE room == OpenedRoom
  <1>1. open \in Seq(Conns) /\ OPEN_CAP \in Nat \ {0} /\ Len(open) <= OPEN_CAP /\ Len(open) \in Nat
    BY FlowFacts DEF FlowTypes, UniqueOpen
  <1>2. /\ room \in Seq(Conns) /\ Len(room) <= OPEN_CAP - 1
        /\ \A i, j \in DOMAIN room : room[i] = room[j] => i = j
        /\ \A i \in DOMAIN room : room[i] \in Shown
        /\ \A d \in Shown : d \in CrowdedOutOfOpen \/ \E i \in DOMAIN room : room[i] = d
        /\ CrowdedOutOfOpen \subseteq Conns
    <2>1. CASE Len(open) >= OPEN_CAP
      <3>1. room = Tail(open) /\ open # << >> /\ CrowdedOutOfOpen = {Head(open)}
        BY <1>1, <2>1 DEF OpenedRoom, CrowdedOutOfOpen
      <3>2. /\ room \in Seq(Conns) /\ Len(room) = Len(open) - 1
            /\ Head(open) = open[1] /\ 1 \in DOMAIN open /\ open[1] \in Conns
            /\ \A i \in DOMAIN room : i + 1 \in DOMAIN open /\ room[i] = open[i + 1]
            /\ \A i \in DOMAIN open : i # 1 => i - 1 \in DOMAIN room /\ room[i - 1] = open[i]
            /\ DOMAIN room = 1 .. Len(open) - 1
        BY <1>1, <3>1, TailIs
      <3>3. \A i, j \in DOMAIN room : i \in Int /\ (i + 1 = j + 1 => i = j)
        BY <3>2
      <3>4. \A i, j \in DOMAIN room : room[i] = room[j] => i = j
        BY <3>2, <3>3 DEF UniqueOpen
      <3>5. \A i \in DOMAIN room : room[i] \in Shown
        BY <3>2 DEF Shown
      <3>6. \A d \in Shown : d \in CrowdedOutOfOpen \/ \E i \in DOMAIN room : room[i] = d
        BY <3>1, <3>2 DEF Shown
      <3> QED
        BY <1>1, <3>1, <3>2, <3>4, <3>5, <3>6
    <2>2. CASE ~(Len(open) >= OPEN_CAP)
      <3>1. room = open /\ CrowdedOutOfOpen = {}
        BY <2>2 DEF OpenedRoom, CrowdedOutOfOpen
      <3> QED
        BY <1>1, <2>2, <3>1 DEF UniqueOpen, Shown
    <2> QED
      BY <2>1, <2>2
  <1>3. open' = IF \E i \in DOMAIN room : room[i] = c THEN room ELSE Append(room, c)
    BY DEF Opened
  <1> HIDE DEF room
  <1>4. CASE \E i \in DOMAIN room : room[i] = c
    <2>1. open' = room
      BY <1>3, <1>4
    <2>2. Len(room) \in Nat
      BY <1>2
    <2>3. UniqueOpen'
      BY <1>1, <1>2, <2>1, <2>2 DEF UniqueOpen
    <2>4. c \in Shown' /\ Shown' \subseteq Shown \cup {c} /\ Shown \subseteq Shown' \cup CrowdedOutOfOpen
      BY <1>2, <1>4, <2>1 DEF Shown
    <2> QED
      BY <1>2, <2>1, <2>3, <2>4
  <1>5. CASE ~\E i \in DOMAIN room : room[i] = c
    <2>1. open' = Append(room, c)
      BY <1>3, <1>5
    <2>2. /\ open' \in Seq(Conns) /\ Len(open') = Len(room) + 1 /\ Len(room) \in Nat
          /\ Len(room) + 1 \in DOMAIN open' /\ open'[Len(room) + 1] = c
          /\ \A i \in DOMAIN room : i \in DOMAIN open' /\ open'[i] = room[i]
          /\ \A i \in DOMAIN open' : i \in DOMAIN room \/ i = Len(room) + 1
      BY <1>2, <2>1, AppendIs
    <2>3. Len(open') <= OPEN_CAP
      BY <1>1, <1>2, <2>2
    <2>4. \A i, j \in DOMAIN open' : open'[i] = open'[j] => i = j
      BY <1>2, <1>5, <2>2
    <2>5. UniqueOpen'
      BY <2>3, <2>4 DEF UniqueOpen
    <2>6. c \in Shown' /\ Shown' \subseteq Shown \cup {c} /\ Shown \subseteq Shown' \cup CrowdedOutOfOpen
      BY <1>2, <2>2 DEF Shown
    <2> QED
      BY <1>2, <2>2, <2>5, <2>6
  <1> QED
    BY <1>4, <1>5

LEMMA CountedIs ==
  ASSUME FlowTypes, NEW kind \in Counters, counts' = Counted(kind)
  PROVE  /\ counts' \in [Counters -> Nat] /\ counts'[kind] = counts[kind] + 1
         /\ \A k \in Counters : k # kind => counts'[k] = counts[k]
         /\ \A k \in Counters : counts[k] \in Nat
  BY DEF FlowTypes, Counted, Counters

\* What a packet p may do to what is kept.
Handled(p) ==
  /\ \A e \in Pend' : e \in Pend \/ (p.kind = "syn" /\ e.conn = p.of /\ e.age = p.age)
  /\ p.kind = "syn" => \E e \in Pend' : e.conn = p.of
  /\ p.kind = "syn" => \A e \in Pend' : e.conn = p.of => e.age = p.age
  /\ p.kind \in {"synack", "refusal", "abort"} => \A e \in Pend' : e.conn # p.of
  /\ \A e \in Pend : \/ e \in Pend' \/ e.conn \in crowdedOut'
                     \/ e.conn = p.of /\ p.kind \in {"syn", "synack", "refusal", "abort"}
  /\ \A e \in Pend' : \/ \E f \in Pend : f.conn = e.conn /\ f.refail = e.refail
                      \/ e.refail
                      \/ e.conn = p.of /\ p.kind = "syn" /\ ~FailedJustNow(p) /\ \A f \in Pend : f.conn # p.of
  /\ crowdedOut \subseteq crowdedOut'
  /\ \A c \in Conns : recentFail'[c] = recentFail[c] \/ (c = p.of /\ p.kind \in {"synack", "refusal"})
  /\ \A c \in Shown' : c \in Shown \/ (c = p.of /\ p.kind = "synack")
  /\ p.kind \in Closing => p.of \notin Shown'
  /\ \A c \in Shown : c \in Shown' \/ c \in crowdedOut' \/ (c = p.of /\ p.kind \in Closing)
  /\ p.kind = "synack" /\ (\E e \in Pend : e.conn = p.of) => p.of \in Shown'
  /\ \/ Failed' = Failed
     \/ Failed' = Failed + 1 /\ p.kind = "refusal" /\ p.of \in Attempts
  /\ \/ counts'.established = counts.established
     \/ counts'.established = counts.established + 1 /\ p.kind = "synack" /\ \E e \in Pend : e.conn = p.of

\* The attempts that are left, and those counted, were begun.
LEMMA BalanceStays ==
  ASSUME FlowTypes, Balance, counts' \in [Counters -> Nat],
         \/ Attempts' \subseteq Attempts /\ Failed' = Failed /\ counts'.synSent = counts.synSent
         \/ \E c : Attempts' \subseteq Attempts \cup {c} /\ Failed' = Failed /\ counts'.synSent = counts.synSent + 1
         \/ \E N \in SUBSET Attempts : /\ Attempts' \subseteq Attempts \ N
                                       /\ Failed' = Failed + Cardinality(N) /\ counts'.synSent = counts.synSent
  PROVE  Balance'
  <1>1. /\ IsFiniteSet(Attempts) /\ Cardinality(Attempts) \in Nat /\ Failed \in Nat
        /\ counts.synSent \in Nat /\ Failed + Cardinality(Attempts) <= counts.synSent
    <2>1. IsFiniteSet(Attempts) /\ Failed + Cardinality(Attempts) <= counts.synSent
      BY DEF Balance
    <2>2. counts.halfOpen \in Nat /\ counts.refused \in Nat /\ counts.synSent \in Nat
      BY DEF FlowTypes, Counters
    <2> QED
      BY <2>1, <2>2, FS_CardinalityType DEF Failed
  <1>2. CASE Attempts' \subseteq Attempts /\ Failed' = Failed /\ counts'.synSent = counts.synSent
    <2>1. IsFiniteSet(Attempts') /\ Cardinality(Attempts') <= Cardinality(Attempts)
      BY <1>1, <1>2, FS_Subset
    <2>2. Cardinality(Attempts') \in Nat
      BY <2>1, FS_CardinalityType
    <2> QED
      BY <1>1, <1>2, <2>1, <2>2 DEF Balance
  <1>3. ASSUME NEW c, Attempts' \subseteq Attempts \cup {c}, Failed' = Failed, counts'.synSent = counts.synSent + 1
        PROVE  Balance'
    <2>1. IsFiniteSet(Attempts \cup {c}) /\ Cardinality(Attempts \cup {c}) <= Cardinality(Attempts) + 1
      <3>1. /\ IsFiniteSet(Attempts \cup {c})
            /\ Cardinality(Attempts \cup {c}) = IF c \in Attempts THEN Cardinality(Attempts) ELSE Cardinality(Attempts) + 1
        BY <1>1, FS_AddElement
      <3> QED
        BY <1>1, <3>1
    <2>2. IsFiniteSet(Attempts') /\ Cardinality(Attempts') <= Cardinality(Attempts \cup {c})
      BY <1>3, <2>1, FS_Subset
    <2>3. Cardinality(Attempts') \in Nat /\ Cardinality(Attempts \cup {c}) \in Nat
      BY <2>1, <2>2, FS_CardinalityType
    <2>4. Failed' + Cardinality(Attempts') <= counts'.synSent
      BY <1>1, <1>3, <2>1, <2>2, <2>3
    <2> QED
      BY <2>2, <2>4 DEF Balance
  <1>4. ASSUME NEW N \in SUBSET Attempts, Attempts' \subseteq Attempts \ N,
               Failed' = Failed + Cardinality(N), counts'.synSent = counts.synSent
        PROVE  Balance'
    <2>1. IsFiniteSet(N) /\ Attempts \cap N = N
      BY <1>1, FS_Subset
    <2>2. IsFiniteSet(Attempts \ N) /\ Cardinality(Attempts \ N) = Cardinality(Attempts) - Cardinality(N)
      <3>1. /\ IsFiniteSet(Attempts \ N)
            /\ Cardinality(Attempts \ N) = Cardinality(Attempts) - Cardinality(Attempts \cap N)
        BY <1>1, FS_Difference
      <3> QED
        BY <2>1, <3>1
    <2>3. IsFiniteSet(Attempts') /\ Cardinality(Attempts') <= Cardinality(Attempts \ N)
      BY <1>4, <2>2, FS_Subset
    <2>4. Cardinality(Attempts') \in Nat /\ Cardinality(Attempts \ N) \in Nat /\ Cardinality(N) \in Nat
      BY <2>1, <2>2, <2>3, FS_CardinalityType
    <2>5. Failed' + Cardinality(Attempts') <= counts'.synSent
      BY <1>1, <1>4, <2>2, <2>3, <2>4
    <2> QED
      BY <2>3, <2>5 DEF Balance
  <1> QED
    BY <1>2, <1>3, <1>4

\* A SYN while one is waiting.
LEMMA SynAgainHandled ==
  ASSUME FlowTypes, Unique, Balance, NEW p, p.kind = "syn", p.of \in Conns, p.age \in 0 .. LAG,
         UNCHANGED <<client, historyVars>>, SynAgain(p)
  PROVE  FlowTypes' /\ Unique' /\ Balance' /\ Handled(p)
  <1> DEFINE fresh(i) == [pending[i] EXCEPT !.age = p.age]
  <1>1. /\ counts' = Counted("synRetries") /\ UNCHANGED <<recentFail, open, crowdedOut, client, answered, cutOff>>
        /\ \E i \in DOMAIN pending : pending[i].conn = p.of
        /\ pending' = [i \in DOMAIN pending |-> IF i \in PendingOf(p.of) THEN fresh(i) ELSE pending[i]]
    BY DEF SynAgain, IsPending, PendingOf, historyVars
  <1>2. DOMAIN pending = 1 .. Len(pending) /\ Len(pending) \in Nat /\ p.age \in Nat
    BY FlowFacts
  <1>3. \A i \in DOMAIN pending : pending[i] \in Entries
    BY DEF FlowTypes
  <1>4. ASSUME NEW i \in DOMAIN pending
        PROVE  /\ pending'[i] \in Entries /\ pending'[i].conn = pending[i].conn /\ pending'[i].refail = pending[i].refail
               /\ pending'[i] = pending[i] \/ pending'[i].conn = p.of
               /\ pending'[i].conn = p.of => pending'[i].age = p.age
    <2>1. CASE pending[i].conn = p.of
      <3>1. pending'[i] = fresh(i)
        BY <1>1, <2>1 DEF PendingOf
      <3> QED
        BY <1>2, <1>3, <2>1, <3>1 DEF Entries
    <2>2. CASE pending[i].conn # p.of
      <3>1. pending'[i] = pending[i]
        BY <1>1, <2>2 DEF PendingOf
      <3> QED
        BY <1>3, <2>2, <3>1
    <2> QED
      BY <2>1, <2>2
  <1>5. DOMAIN pending' = DOMAIN pending
    BY <1>1
  <1>6. pending' \in Seq(Entries)
    <2>1. pending' \in [1 .. Len(pending) -> Entries]
      BY <1>1, <1>2, <1>4
    <2> QED
      BY <1>2, <2>1
  <1>7. /\ counts' \in [Counters -> Nat] /\ counts'.halfOpen = counts.halfOpen /\ counts'.refused = counts.refused
        /\ counts'.synSent = counts.synSent /\ counts'.established = counts.established
    BY <1>1, CountedIs DEF Counters
  <1>8. Failed' = Failed
    BY <1>7 DEF Failed
  <1>9. Shown' = Shown
    BY <1>1 DEF Shown
  <1>10. /\ \A e \in Pend' : e \in Pend \/ (e.conn = p.of /\ e.age = p.age)
         /\ \A e \in Pend' : e.conn = p.of => e.age = p.age
         /\ \E e \in Pend' : e.conn = p.of
         /\ \A e \in Pend : e \in Pend' \/ e.conn = p.of
         /\ \A e \in Pend' : \E f \in Pend : f.conn = e.conn /\ f.refail = e.refail
    <2>1. ASSUME NEW e \in Pend'
          PROVE  /\ e \in Pend \/ (e.conn = p.of /\ e.age = p.age)
                 /\ e.conn = p.of => e.age = p.age
                 /\ \E f \in Pend : f.conn = e.conn /\ f.refail = e.refail
      <3>1. PICK i \in DOMAIN pending : e = pending'[i]
        BY <1>5 DEF Pend
      <3>2. pending[i] \in Pend
        BY DEF Pend
      <3> QED
        BY <1>4, <3>1, <3>2
    <2>2. \A i \in DOMAIN pending : pending'[i] \in Pend'
      BY <1>5 DEF Pend
    <2>3. \A e \in Pend : e \in Pend' \/ e.conn = p.of
      BY <1>4, <2>2 DEF Pend
    <2> QED
      BY <1>1, <1>4, <2>1, <2>2, <2>3
  <1>11. FlowTypes'
    BY <1>1, <1>6, <1>7 DEF FlowTypes
  <1>12. Unique'
    BY <1>1, <1>4, <1>5 DEF Unique
  <1>13. Attempts' \subseteq Attempts
    BY <1>4, <1>5 DEF Attempts
  <1>14. Balance'
    BY <1>7, <1>8, <1>13, BalanceStays
  <1>15. Handled(p)
    BY <1>1, <1>7, <1>8, <1>9, <1>10 DEF Handled, Closing
  <1> QED
    BY <1>11, <1>12, <1>14, <1>15

\* A SYN when none is waiting.
LEMMA SynNewHandled ==
  ASSUME FlowTypes, Unique, Balance, NEW p, p.kind = "syn", p.of \in Conns, p.age \in 0 .. LAG,
         UNCHANGED <<client, historyVars>>, SynRefail(p) \/ SynFirst(p)
  PROVE  FlowTypes' /\ Unique' /\ Balance' /\ Handled(p)
  <1> DEFINE first == ~FailedJustNow(p)
             kept == IF first /\ Full THEN Tail(pending) ELSE pending
             entry == Entry(p, ~first)
  <1>1. /\ UNCHANGED <<recentFail, open, client, answered, cutOff>>
        /\ \A i \in DOMAIN pending : pending[i].conn # p.of
        /\ pending' = Append(kept, entry)
        /\ counts' = Counted(IF first THEN "synSent" ELSE "synRetries")
        /\ crowdedOut' = crowdedOut \cup IF first /\ Full THEN {Head(pending).conn} ELSE {}
    BY DEF SynRefail, SynFirst, IsPending, PendingOf, historyVars
  <1>2. /\ pending \in Seq(Entries) /\ PENDING_CAP \in Nat \ {0} /\ Len(pending) \in Nat /\ p.age \in Nat
    BY FlowFacts DEF FlowTypes
  <1>3. entry \in Entries /\ entry.conn = p.of /\ entry.age = p.age /\ entry.refail = ~first
    BY <1>2 DEF Entry, Entries
  <1>4. /\ kept \in Seq(Entries) /\ Len(kept) \in Nat
        /\ \A i \in DOMAIN kept : \E h \in DOMAIN pending : kept[i] = pending[h]
        /\ \A i, j \in DOMAIN kept : kept[i].conn = kept[j].conn => i = j
        /\ \A h \in DOMAIN pending : pending[h].conn \in crowdedOut' \/ \E i \in DOMAIN kept : kept[i] = pending[h]
        /\ crowdedOut' \subseteq Conns
    <2>1. CASE first /\ Full
      <3>1. kept = Tail(pending) /\ pending # << >> /\ crowdedOut' = crowdedOut \cup {Head(pending).conn}
        BY <1>1, <1>2, <2>1 DEF Full
      <3>2. /\ kept \in Seq(Entries) /\ Len(kept) = Len(pending) - 1
            /\ Head(pending) = pending[1] /\ 1 \in DOMAIN pending /\ pending[1] \in Entries
            /\ \A i \in DOMAIN kept : i + 1 \in DOMAIN pending /\ kept[i] = pending[i + 1]
            /\ \A i \in DOMAIN pending : i # 1 => i - 1 \in DOMAIN kept /\ kept[i - 1] = pending[i]
            /\ DOMAIN kept = 1 .. Len(pending) - 1
        BY <1>2, <3>1, TailIs
      <3>3. \A i, j \in DOMAIN kept : i \in Int /\ (i + 1 = j + 1 => i = j)
        BY <3>2
      <3>4. \A i, j \in DOMAIN kept : kept[i].conn = kept[j].conn => i = j
        BY <3>2, <3>3 DEF Unique
      <3>5. crowdedOut' \subseteq Conns
        BY <3>1, <3>2 DEF Entries, FlowTypes
      <3>6. \A h \in DOMAIN pending : pending[h].conn \in crowdedOut' \/ \E i \in DOMAIN kept : kept[i] = pending[h]
        BY <3>1, <3>2
      <3>7. \A i \in DOMAIN kept : \E h \in DOMAIN pending : kept[i] = pending[h]
        BY <3>2
      <3>8. Len(kept) \in Nat
        BY <3>2
      <3> HIDE DEF kept
      <3> QED
        BY <3>2, <3>4, <3>5, <3>6, <3>7, <3>8
    <2>2. CASE ~(first /\ Full)
      <3>1. kept = pending /\ crowdedOut' = crowdedOut
        BY <1>1, <2>2
      <3> QED
        BY <1>2, <3>1 DEF Unique, FlowTypes
    <2> QED
      BY <2>1, <2>2
  <1>5. crowdedOut \subseteq crowdedOut'
    BY <1>1
  <1> HIDE DEF kept, entry
  <1>6. /\ pending' \in Seq(Entries)
        /\ Len(kept) + 1 \in DOMAIN pending' /\ pending'[Len(kept) + 1] = entry
        /\ \A i \in DOMAIN kept : i \in DOMAIN pending' /\ pending'[i] = kept[i]
        /\ \A i \in DOMAIN pending' : i \in DOMAIN kept \/ i = Len(kept) + 1
    BY <1>1, <1>3, <1>4, AppendIs
  <1>7. Unique'
    <2>1. \A i, j \in DOMAIN pending' : pending'[i].conn = pending'[j].conn => i = j
      BY <1>1, <1>3, <1>4, <1>6
    <2> QED
      BY <1>1, <2>1 DEF Unique
  <1>8. /\ \A e \in Pend' : e \in Pend \/ e = entry
        /\ entry \in Pend'
        /\ \A e \in Pend : e \in Pend' \/ e.conn \in crowdedOut'
        /\ \A e \in Pend : e.conn # p.of
    <2>1. \A e \in Pend' : e \in Pend \/ e = entry
      BY <1>4, <1>6 DEF Pend
    <2>2. entry \in Pend'
      BY <1>6 DEF Pend
    <2>3. \A e \in Pend : e \in Pend' \/ e.conn \in crowdedOut'
      BY <1>4, <1>6 DEF Pend
    <2> QED
      BY <1>1, <2>1, <2>2, <2>3 DEF Pend
  <1>9. /\ counts' \in [Counters -> Nat] /\ counts'.halfOpen = counts.halfOpen /\ counts'.refused = counts.refused
        /\ counts'.synSent = (IF first THEN counts.synSent + 1 ELSE counts.synSent)
        /\ counts'.established = counts.established
    BY <1>1, CountedIs DEF Counters
  <1>10. Failed' = Failed
    BY <1>9 DEF Failed
  <1>11. Shown' = Shown
    BY <1>1 DEF Shown
  <1>12. FlowTypes'
    BY <1>1, <1>4, <1>6, <1>9 DEF FlowTypes
  <1>13. Attempts' = {e.conn : e \in {f \in Pend' : ~f.refail}}
    BY DEF Attempts, Pend
  <1>14. Attempts' \subseteq Attempts \cup (IF first THEN {p.of} ELSE {})
    BY <1>3, <1>8, <1>13, FlowFacts
  <1>15. Balance'
    <2>1. CASE first
      <3>1. \E c : Attempts' \subseteq Attempts \cup {c} /\ Failed' = Failed /\ counts'.synSent = counts.synSent + 1
        BY <1>9, <1>10, <1>14, <2>1
      <3> QED
        BY <1>9, <3>1, BalanceStays
    <2>2. CASE ~first
      <3>1. Attempts' \subseteq Attempts /\ Failed' = Failed /\ counts'.synSent = counts.synSent
        BY <1>9, <1>10, <1>14, <2>2
      <3> QED
        BY <1>9, <3>1, BalanceStays
    <2> QED
      BY <2>1, <2>2
  <1>16. Handled(p)
    <2>1. \A e \in Pend' : \/ \E f \in Pend : f.conn = e.conn /\ f.refail = e.refail
                           \/ e.refail
                           \/ e.conn = p.of /\ ~FailedJustNow(p) /\ \A f \in Pend : f.conn # p.of
      BY <1>3, <1>8
    <2>2. /\ \A e \in Pend' : e \in Pend \/ (e.conn = p.of /\ e.age = p.age)
          /\ \A e \in Pend' : e.conn = p.of => e.age = p.age
          /\ \E e \in Pend' : e.conn = p.of
      BY <1>3, <1>8
    <2> QED
      BY <1>1, <1>5, <1>8, <1>9, <1>10, <1>11, <2>1, <2>2 DEF Handled, Closing
  <1> QED
    BY <1>7, <1>12, <1>15, <1>16

\* An answer.
LEMMA SynAckHandled ==
  ASSUME FlowTypes, Unique, Balance, NEW p, p.kind = "synack", p.of \in Conns, p.age \in 0 .. LAG,
         UNCHANGED <<client, historyVars>>, SynAck(p)
  PROVE  FlowTypes' /\ Unique' /\ Balance' /\ Handled(p)
  <1>0. UniquePending /\ UniqueOpen /\ UNCHANGED <<client, answered, cutOff>>
    BY UniqueParts DEF historyVars
  <1>1. IsPending(p.of) <=> \E e \in Pend : e.conn = p.of
    BY DEF IsPending, PendingOf, Pend
  <1>2. CASE ~IsPending(p.of)
    <2>1. UNCHANGED <<pending, recentFail, open, counts, crowdedOut>>
      BY <1>2 DEF SynAck, trackerVars
    <2>2. Pend' = Pend /\ Shown' = Shown /\ Failed' = Failed /\ Attempts' = Attempts
      BY <2>1 DEF Pend, Shown, Failed, Attempts
    <2>3. FlowTypes' /\ Unique' /\ Balance'
      BY <1>0, <2>1, <2>2 DEF FlowTypes, Unique, Balance
    <2> QED
      BY <1>1, <1>2, <2>1, <2>2, <2>3 DEF Handled, Closing
  <1>3. CASE IsPending(p.of)
    <2>1. /\ pending' = PendingWithout(p.of)
          /\ recentFail' = [recentFail EXCEPT ![p.of] = FORGOTTEN]
          /\ counts' = Counted("established")
          /\ open' = Opened(p.of)
          /\ crowdedOut' = crowdedOut \cup CrowdedOutOfOpen
      BY <1>3 DEF SynAck
    <2>2. pending' \in Seq(Entries) /\ UniquePending' /\ Pend' = {e \in Pend : e.conn # p.of}
      BY <1>0, <2>1, PendingWithoutIs
    <2>3. /\ open' \in Seq(Conns) /\ UniqueOpen' /\ p.of \in Shown' /\ Shown' \subseteq Shown \cup {p.of}
          /\ Shown \subseteq Shown' \cup CrowdedOutOfOpen /\ CrowdedOutOfOpen \subseteq Conns
      BY <1>0, <2>1, OpenedIs
    <2>4. /\ counts' \in [Counters -> Nat] /\ counts'.halfOpen = counts.halfOpen /\ counts'.refused = counts.refused
          /\ counts'.synSent = counts.synSent /\ counts'.established = counts.established + 1
      BY <2>1, CountedIs DEF Counters
    <2>5. FORGOTTEN \in 0 .. FORGOTTEN
      BY FlowFacts DEF FORGOTTEN, STALE
    <2>6. FlowTypes'
      BY <1>0, <2>1, <2>2, <2>3, <2>4, <2>5 DEF FlowTypes
    <2>7. Unique'
      BY <2>2, <2>3 DEF Unique, UniquePending, UniqueOpen
    <2>8. Failed' = Failed
      BY <2>4 DEF Failed
    <2>9. Attempts' \subseteq Attempts
      BY <2>2, <2>6, FlowFacts DEF Attempts, Pend
    <2>10. Balance'
      BY <2>4, <2>8, <2>9, BalanceStays
    <2>11. \A c \in Conns : recentFail'[c] = recentFail[c] \/ c = p.of
      BY <2>1 DEF FlowTypes
    <2>12. crowdedOut \subseteq crowdedOut' /\ Shown \subseteq Shown' \cup crowdedOut'
      BY <2>1, <2>3
    <2> QED
      BY <1>1, <1>3, <2>2, <2>3, <2>4, <2>6, <2>7, <2>8, <2>10, <2>11, <2>12 DEF Handled, Closing
  <1> QED
    BY <1>2, <1>3

\* An end.
LEMMA FinHandled ==
  ASSUME FlowTypes, Unique, Balance, NEW p, p.kind = "fin", p.of \in Conns, p.age \in 0 .. LAG,
         UNCHANGED <<client, historyVars>>, Fin(p)
  PROVE  FlowTypes' /\ Unique' /\ Balance' /\ Handled(p)
  <1>0. UniquePending /\ UniqueOpen
    BY UniqueParts
  <1>1. open' = OpenWithout(p.of) /\ UNCHANGED <<pending, recentFail, counts, crowdedOut, client, answered, cutOff>>
    BY DEF Fin, historyVars
  <1>2. open' \in Seq(Conns) /\ UniqueOpen' /\ Shown' = Shown \ {p.of}
    BY <1>0, <1>1, OpenWithoutIs
  <1>3. Pend' = Pend /\ Failed' = Failed /\ Attempts' = Attempts
    BY <1>1 DEF Pend, Failed, Attempts
  <1>4. FlowTypes' /\ Unique' /\ Balance'
    BY <1>0, <1>1, <1>2, <1>3 DEF FlowTypes, Unique, Balance, UniquePending, UniqueOpen
  <1> QED
    BY <1>1, <1>2, <1>3, <1>4 DEF Handled, Closing

LEMMA RefusalHandled ==
  ASSUME FlowTypes, Unique, Balance, NEW p, p.kind = "refusal", p.of \in Conns, p.age \in 0 .. LAG,
         UNCHANGED <<client, historyVars>>, Refusal(p)
  PROVE  FlowTypes' /\ Unique' /\ Balance' /\ Handled(p)
  <1>0. UniquePending /\ UniqueOpen
    BY UniqueParts
  <1> DEFINE hit == p.of \in Attempts
             since == IF IsPending(p.of) THEN p.age ELSE recentFail[p.of]
  <1>1. /\ open' = OpenWithout(p.of) /\ pending' = PendingWithout(p.of)
        /\ UNCHANGED <<crowdedOut, client, answered, cutOff>>
        /\ recentFail' = [recentFail EXCEPT ![p.of] = since]
        /\ counts' = IF hit THEN [Counted("resets") EXCEPT !.refused = @ + 1] ELSE Counted("resets")
    BY DEF Refusal, historyVars
  <1>2. pending' \in Seq(Entries) /\ UniquePending' /\ Pend' = {e \in Pend : e.conn # p.of}
    BY <1>0, <1>1, PendingWithoutIs
  <1>3. open' \in Seq(Conns) /\ UniqueOpen' /\ Shown' = Shown \ {p.of}
    BY <1>0, <1>1, OpenWithoutIs
  <1>4. since \in 0 .. FORGOTTEN /\ recentFail \in [Conns -> 0 .. FORGOTTEN]
    <2>1. p.age \in 0 .. FORGOTTEN /\ recentFail \in [Conns -> 0 .. FORGOTTEN]
      BY FlowFacts DEF FORGOTTEN, STALE, FlowTypes
    <2> QED
      BY <2>1
  <1> HIDE DEF since
  <1>5. /\ counts' \in [Counters -> Nat] /\ counts'.halfOpen = counts.halfOpen
        /\ counts'.refused = (IF hit THEN counts.refused + 1 ELSE counts.refused)
        /\ counts'.synSent = counts.synSent /\ counts'.established = counts.established
        /\ counts.halfOpen \in Nat /\ counts.refused \in Nat
    <2> DEFINE base == Counted("resets")
    <2>1. /\ base \in [Counters -> Nat] /\ base.halfOpen = counts.halfOpen /\ base.refused = counts.refused
          /\ base.synSent = counts.synSent /\ base.established = counts.established
          /\ counts.halfOpen \in Nat /\ counts.refused \in Nat
      BY DEF FlowTypes, Counted, Counters
    <2>2. counts' = IF hit THEN [base EXCEPT !.refused = @ + 1] ELSE base
      BY <1>1
    <2> HIDE DEF base, hit
    <2> QED
      BY <2>1, <2>2 DEF Counters
  <1>6. Failed' = (IF hit THEN Failed + 1 ELSE Failed)
    BY <1>5 DEF Failed
  <1>7. FlowTypes'
    BY <1>1, <1>2, <1>3, <1>4, <1>5 DEF FlowTypes
  <1>8. Unique'
    BY <1>2, <1>3 DEF Unique, UniquePending, UniqueOpen
  <1>9. Attempts' \subseteq Attempts \ {p.of}
    <2>1. Attempts' = {e.conn : e \in {f \in Pend' : ~f.refail}}
      BY DEF Attempts, Pend
    <2> QED
      BY <1>2, <2>1, FlowFacts
  <1>10. Balance'
    <2>1. CASE hit
      <3>1. Cardinality({p.of}) = 1
        BY FS_Singleton
      <3>2. {p.of} \in SUBSET Attempts
        BY <2>1
      <3>3. Failed' = Failed + Cardinality({p.of})
        BY <1>6, <2>1, <3>1
      <3>4. \E N \in SUBSET Attempts : /\ Attempts' \subseteq Attempts \ N
                                       /\ Failed' = Failed + Cardinality(N) /\ counts'.synSent = counts.synSent
        BY <1>5, <1>9, <3>2, <3>3
      <3> QED
        BY <1>5, <3>4, BalanceStays
    <2>2. CASE ~hit
      <3>1. Attempts' \subseteq Attempts /\ Failed' = Failed
        BY <1>6, <1>9, <2>2
      <3> QED
        BY <1>5, <3>1, BalanceStays
    <2> QED
      BY <2>1, <2>2
  <1>11. \A c \in Conns : recentFail'[c] = recentFail[c] \/ c = p.of
    BY <1>1, <1>4
  <1>12. Failed' = Failed \/ (Failed' = Failed + 1 /\ p.of \in Attempts)
    BY <1>6
  <1> HIDE DEF hit
  <1>13. Handled(p)
    BY <1>1, <1>2, <1>3, <1>5, <1>11, <1>12 DEF Handled, Closing
  <1> QED
    BY <1>7, <1>8, <1>10, <1>13

LEMMA AbortHandled ==
  ASSUME FlowTypes, Unique, Balance, NEW p, p.kind = "abort", p.of \in Conns, p.age \in 0 .. LAG,
         UNCHANGED <<client, historyVars>>, Abort(p)
  PROVE  FlowTypes' /\ Unique' /\ Balance' /\ Handled(p)
  <1>0. UniquePending /\ UniqueOpen
    BY UniqueParts
  <1>1. /\ open' = OpenWithout(p.of) /\ pending' = PendingWithout(p.of) /\ counts' = Counted("resets")
        /\ UNCHANGED <<recentFail, crowdedOut, client, answered, cutOff>>
    BY DEF Abort, historyVars
  <1>2. pending' \in Seq(Entries) /\ UniquePending' /\ Pend' = {e \in Pend : e.conn # p.of}
    BY <1>0, <1>1, PendingWithoutIs
  <1>3. open' \in Seq(Conns) /\ UniqueOpen' /\ Shown' = Shown \ {p.of}
    BY <1>0, <1>1, OpenWithoutIs
  <1>4. /\ counts' \in [Counters -> Nat] /\ counts'.halfOpen = counts.halfOpen /\ counts'.refused = counts.refused
        /\ counts'.synSent = counts.synSent /\ counts'.established = counts.established
    BY <1>1, CountedIs DEF Counters
  <1>5. Failed' = Failed
    BY <1>4 DEF Failed
  <1>6. FlowTypes'
    BY <1>1, <1>2, <1>3, <1>4 DEF FlowTypes
  <1>7. Unique'
    BY <1>2, <1>3 DEF Unique, UniquePending, UniqueOpen
  <1>8. Attempts' \subseteq Attempts
    <2>1. Attempts' = {e.conn : e \in {f \in Pend' : ~f.refail}}
      BY DEF Attempts, Pend
    <2> QED
      BY <1>2, <2>1, FlowFacts
  <1>9. Balance'
    BY <1>4, <1>5, <1>8, BalanceStays
  <1>10. Handled(p)
    BY <1>1, <1>2, <1>3, <1>4, <1>5 DEF Handled, Closing
  <1> QED
    BY <1>6, <1>7, <1>9, <1>10

\* A packet that concerns no connection.
LEMMA OtherHandled ==
  ASSUME FlowTypes, Unique, Balance, NEW p, p.kind \notin FlowPackets, UNCHANGED flowVars
  PROVE  FlowTypes' /\ Unique' /\ Balance' /\ Handled(p)
  <1>1. UNCHANGED <<pending, recentFail, open, counts, crowdedOut, client, answered, cutOff>>
    BY DEF flowVars, trackerVars, historyVars
  <1>2. Pend' = Pend /\ Shown' = Shown /\ Failed' = Failed /\ Attempts' = Attempts
    BY <1>1 DEF Pend, Shown, Failed, Attempts
  <1>3. FlowTypes' /\ Unique' /\ Balance'
    BY <1>1, <1>2 DEF FlowTypes, Unique, Balance
  <1> QED
    BY <1>1, <1>2, <1>3 DEF Handled, Closing, FlowPackets

LEMMA FlowAddHandled ==
  ASSUME FlowTypes, Unique, Balance, NEW p, p.of \in Conns, p.age \in 0 .. LAG,
         UNCHANGED <<client, historyVars>>, FlowAdd(p)
  PROVE  FlowTypes' /\ Unique' /\ Balance' /\ Handled(p)
  BY SynAgainHandled, SynNewHandled, SynAckHandled, FinHandled, RefusalHandled, AbortHandled DEF FlowAdd
-----------------------------------------------------------------------------
(* The handshake tracker: a packet is analysed.                             *)

Takes ==
  /\ Shorter(wire, wire') /\ Handled(wire[1]) /\ UNCHANGED <<client, historyVars>>
  /\ FlowTypes' /\ Unique' /\ Balance'

LEMMA TakesFacts ==
  ASSUME WireTypes, FlowInv, Takes
  PROVE  /\ UNCHANGED <<client, answered, cutOff>>
         /\ 1 \in DOMAIN wire
         /\ \A i \in DOMAIN wire' : i \in Nat /\ i >= 1 /\ i + 1 \in DOMAIN wire /\ wire'[i] = wire[i + 1] /\ i = (i + 1) - 1
         /\ \A i \in DOMAIN wire : i \in Nat /\ i >= 1 /\ (i # 1 => i - 1 \in DOMAIN wire' /\ wire'[i - 1] = wire[i])
         /\ \A i \in DOMAIN wire : wire[i].age \in Nat /\ wire[i].age <= wire[1].age
         /\ \A e \in Pend : e.conn \in Conns /\ e.age \in Nat
         /\ \A e \in Pend' : e.conn \in Conns /\ e.age \in Nat
  <1>1. UNCHANGED <<client, answered, cutOff>> /\ Shorter(wire, wire') /\ FlowTypes'
    BY DEF Takes, historyVars
  <1>2. 1 \in DOMAIN wire
    BY <1>1 DEF Shorter
  <1>3. \A i \in DOMAIN wire' : i \in Nat /\ i >= 1 /\ i + 1 \in DOMAIN wire /\ wire'[i] = wire[i + 1] /\ i = (i + 1) - 1
    BY <1>1 DEF Shorter
  <1>4. \A i \in DOMAIN wire : i \in Nat /\ i >= 1 /\ (i # 1 => i - 1 \in DOMAIN wire' /\ wire'[i - 1] = wire[i])
    BY <1>1 DEF Shorter
  <1>5. \A i \in DOMAIN wire : wire[i].age \in Nat
    BY WireFacts
  <1>6. \A i \in DOMAIN wire : wire[i].age <= wire[1].age
    BY <1>2, <1>4 DEF FlowInv, InSequence
  <1>7. \A e \in Pend : e.conn \in Conns /\ e.age \in Nat
    BY FlowFacts DEF FlowInv
  <1>8. Pend' \subseteq Entries
    BY <1>1 DEF FlowTypes, Pend
  <1> QED
    BY <1>1, <1>2, <1>3, <1>4, <1>5, <1>6, <1>7, <1>8 DEF Entries

LEMMA TakesOrder ==
  ASSUME WireTypes, FlowInv, Takes
  PROVE  InSequence' /\ Known' /\ Ended'
  <1> DEFINE p == wire[1]
  <1>1. p.kind = "syn" => client[p.of].phase # "idle"
    BY TakesFacts DEF FlowInv, Known, FlowPackets
  <1>2. p.age \in 0 .. LAG /\ LAG <= TIMEOUT /\ LAG \in Nat /\ TIMEOUT \in Nat
    BY TakesFacts, WireFacts, FlowFacts DEF FlowInv
  <1>3. \A e \in Pend' : e \in Pend \/ (p.kind = "syn" /\ e.conn = p.of /\ e.age = p.age)
    BY DEF Takes, Handled
  <1>4. ASSUME NEW i \in DOMAIN wire', NEW j \in DOMAIN wire', i <= j PROVE wire'[j].age <= wire'[i].age
    <2>1. /\ i + 1 \in DOMAIN wire /\ wire'[i] = wire[i + 1] /\ i \in Nat
          /\ j + 1 \in DOMAIN wire /\ wire'[j] = wire[j + 1] /\ j \in Nat
      BY TakesFacts
    <2>2. i + 1 <= j + 1
      BY <1>4, <2>1
    <2> QED
      BY <2>1, <2>2 DEF FlowInv, InSequence
  <1>5. ASSUME NEW e \in Pend', NEW j \in DOMAIN wire', IsSyn(wire'[j], e.conn) PROVE wire'[j].age <= e.age
    <2>1. j + 1 \in DOMAIN wire /\ wire'[j] = wire[j + 1]
      BY TakesFacts
    <2>2. CASE e \in Pend
      BY <1>5, <2>1, <2>2 DEF FlowInv, InSequence
    <2>3. CASE e.age = p.age
      BY <2>1, <2>3, TakesFacts
    <2> QED
      BY <1>3, <2>2, <2>3
  <1>6. ASSUME NEW e \in Pend' PROVE e.age <= TIMEOUT + 1
    BY <1>2, <1>3 DEF FlowInv, InSequence
  <1>7. ASSUME NEW e \in Pend' PROVE client'[e.conn].phase # "idle"
    <2>1. client[e.conn].phase # "idle"
      BY <1>1, <1>3 DEF FlowInv, Known
    <2> QED
      BY <2>1, TakesFacts
  <1>8. ASSUME NEW i \in DOMAIN wire' 
        PROVE  /\ wire'[i].kind \in FlowPackets => client'[wire'[i].of].phase # "idle"
               /\ wire'[i].kind \in {"synack"} \cup Closing =>
                    /\ client'[wire'[i].of].phase \in {"open", "gone"}
                    /\ \A j \in DOMAIN wire' : j > i => ~IsSyn(wire'[j], wire'[i].of)
               /\ wire'[i].kind \in Closing => client'[wire'[i].of].phase = "gone"
    <2>1. i + 1 \in DOMAIN wire /\ wire'[i] = wire[i + 1] /\ i \in Nat /\ client' = client
      BY TakesFacts
    <2>2. /\ wire[i + 1].kind \in FlowPackets => client[wire[i + 1].of].phase # "idle"
          /\ wire[i + 1].kind \in {"synack"} \cup Closing =>
               /\ client[wire[i + 1].of].phase \in {"open", "gone"}
               /\ \A j \in DOMAIN wire : j > i + 1 => ~IsSyn(wire[j], wire[i + 1].of)
          /\ wire[i + 1].kind \in Closing => client[wire[i + 1].of].phase = "gone"
      BY <2>1 DEF FlowInv, Known, Ended
    <2>3. ASSUME NEW j \in DOMAIN wire', j > i PROVE j + 1 \in DOMAIN wire /\ wire'[j] = wire[j + 1] /\ j + 1 > i + 1
      BY <2>1, <2>3, TakesFacts
    <2> QED
      BY <2>1, <2>2, <2>3
  <1>9. \A c \in answered' : client'[c].phase \in {"open", "gone"}
    BY TakesFacts DEF FlowInv, Known
  <1> QED
    BY <1>4, <1>5, <1>6, <1>7, <1>8, <1>9 DEF InSequence, Known, Ended

\* An answer or an end leaves nothing of its connection that could fail.
LEMMA TakesEnded ==
  ASSUME WireTypes, FlowInv, Takes, wire[1].kind \in {"synack", "fin", "refusal", "abort"}
  PROVE  /\ client[wire[1].of].phase \in {"open", "gone"}
         /\ wire[1].kind # "synack" => client[wire[1].of].phase = "gone"
         /\ \A j \in DOMAIN wire : ~IsSyn(wire[j], wire[1].of)
         /\ \A j \in DOMAIN wire' : ~IsSyn(wire'[j], wire[1].of)
         /\ \A a, d : Followed(wire', client[wire[1].of], wire[1].of, 0, a, d)
  <1>1. /\ client[wire[1].of].phase \in {"open", "gone"}
        /\ \A j \in DOMAIN wire : j > 1 => ~IsSyn(wire[j], wire[1].of)
        /\ wire[1].kind # "synack" => client[wire[1].of].phase = "gone"
    BY TakesFacts DEF FlowInv, Ended, Closing
  <1>2. \A j \in DOMAIN wire : j = 1 \/ j > 1
    BY TakesFacts
  <1>3. \A j \in DOMAIN wire : ~IsSyn(wire[j], wire[1].of)
    BY <1>1, <1>2 DEF IsSyn, Is
  <1>4. \A j \in DOMAIN wire' : ~IsSyn(wire'[j], wire[1].of)
    BY <1>3, TakesFacts
  <1> QED
    BY <1>1, <1>3, <1>4 DEF Followed, Retries

LEMMA TakesChained ==
  ASSUME WireTypes, FlowInv, Takes
  PROVE  Chained'
  <1> DEFINE p == wire[1]
  <1>0. Shorter(wire, wire') /\ client' = client
    BY TakesFacts DEF Takes
  <1>1. ASSUME NEW i \in DOMAIN wire', wire'[i].kind = "syn"
        PROVE  Followed(wire', client'[wire'[i].of], wire'[i].of, i, wire'[i].age, Apart)
    <2>1. i + 1 \in DOMAIN wire /\ wire'[i] = wire[i + 1] /\ i + 1 \in Nat /\ i + 1 >= 1 /\ i = (i + 1) - 1
      BY TakesFacts
    <2>2. Followed(wire, client[wire[i + 1].of], wire[i + 1].of, i + 1, wire[i + 1].age, Apart)
      BY <1>1, <2>1 DEF FlowInv, Chained
    <2>3. Followed(wire', client[wire[i + 1].of], wire[i + 1].of, (i + 1) - 1, wire[i + 1].age, Apart)
      BY <1>0, <2>1, <2>2, FollowedByRest
    <2> QED
      BY <1>0, <2>1, <2>3
  <1>2. ASSUME NEW e \in Pend' PROVE Followed(wire', client'[e.conn], e.conn, 0, e.age, Apart)
    <2>1. CASE p.kind = "syn" /\ e.conn = p.of
      <3>1. e.age = p.age
        BY <2>1 DEF Takes, Handled
      <3>2. Followed(wire, client[p.of], p.of, 1, p.age, Apart)
        BY <2>1, TakesFacts DEF FlowInv, Chained
      <3>3. Followed(wire', client[p.of], p.of, 1 - 1, p.age, Apart)
        BY <1>0, <3>2, FollowedByRest
      <3> QED
        BY <1>0, <2>1, <3>1, <3>3
    <2>2. CASE ~(p.kind = "syn" /\ e.conn = p.of)
      <3>1. e \in Pend
        BY <2>2 DEF Takes, Handled
      <3>2. Followed(wire, client[e.conn], e.conn, 0, e.age, Apart) /\ ~IsSyn(wire[1], e.conn)
        BY <2>2, <3>1 DEF FlowInv, Chained, IsSyn, Is
      <3> QED
        BY <1>0, <3>2, FollowedByRest
    <2> QED
      BY <2>1, <2>2
  <1> QED
    BY <1>1, <1>2 DEF Chained

LEMMA TakesFailures ==
  ASSUME WireTypes, FlowInv, Takes
  PROVE  Failures'
  <1> DEFINE p == wire[1]
  <1>0. /\ Shorter(wire, wire') /\ client' = client /\ Tried' = Tried /\ IsFiniteSet(Tried)
        /\ crowdedOut \subseteq crowdedOut'
        /\ Failed \in Nat
    <2>1. counts.halfOpen \in Nat /\ counts.refused \in Nat
      BY DEF FlowInv, FlowTypes, Counters
    <2> QED
      BY <2>1, TakesFacts DEF Takes, Tried, Handled, Failed, FlowInv, Failures
  <1> SUFFICES ASSUME crowdedOut' = {} PROVE \E F \in SUBSET Tried' : FailedSet(F)'
    BY <1>0 DEF Failures
  <1>1. PICK F \in SUBSET Tried : FailedSet(F)
    BY <1>0 DEF FlowInv, Failures
  <1>2. /\ Failed <= Cardinality(F)
        /\ \A c \in F, e \in Pend : e.conn = c => e.refail
        /\ \A c \in F : \/ \E e \in Pend : e.conn = c
                        \/ Followed(wire, client[c], c, 0, recentFail[c], REFAIL_WINDOW - 1)
    BY <1>1 DEF FailedSet
  <1>3. IsFiniteSet(F) /\ Cardinality(F) \in Nat /\ F \subseteq Conns
    BY <1>0, FS_Subset, FS_CardinalityType DEF Tried
  <1>4. PICK G \in SUBSET Tried :
          /\ Failed' <= Cardinality(G) /\ F \subseteq G
          /\ \A c \in G \ F : c = p.of /\ p.kind = "refusal"
    <2>1. CASE Failed' = Failed
      BY <1>2, <2>1
    <2>2. CASE Failed' = Failed + 1 /\ p.kind = "refusal" /\ p.of \in Attempts
      <3>1. p.of \notin F
        BY <1>2, <2>2 DEF Attempts, Pend
      <3>2. Cardinality(F \cup {p.of}) = Cardinality(F) + 1
        BY <1>3, <3>1, FS_AddElement
      <3>3. p.of \in Tried
        <4>1. client[p.of].phase = "gone"
          BY <2>2, TakesEnded
        <4>2. p.of \in Conns
          BY <2>2, FlowFacts DEF FlowInv
        <4> QED
          BY <4>1, <4>2 DEF Tried
      <3>4. Failed' <= Cardinality(F \cup {p.of})
        BY <1>0, <1>2, <1>3, <2>2, <3>2
      <3>5. F \cup {p.of} \in SUBSET Tried
        BY <3>3
      <3> QED
        BY <2>2, <3>4, <3>5
    <2> QED
      BY <2>1, <2>2 DEF Takes, Handled
  <1>5. ASSUME NEW c \in F, c = p.of, p.kind = "syn", ~FailedJustNow(p) PROVE \E e \in Pend : e.conn = c
    <2>1. SUFFICES ASSUME Followed(wire, client[c], c, 0, recentFail[c], REFAIL_WINDOW - 1) PROVE FALSE
      BY <1>2
    <2>2. /\ recentFail[c] \in Nat /\ REFAIL_WINDOW \in Nat /\ p.age \in Nat
          /\ ~(recentFail[c] - p.age < REFAIL_WINDOW)
          /\ client[c].wait \in Nat
      <3>1. recentFail[c] \in 0 .. FORGOTTEN /\ FORGOTTEN \in Nat /\ client[c] \in Clients
        BY <1>3, FlowFacts DEF FlowInv, FlowTypes, FORGOTTEN, STALE
      <3>2. ~(recentFail[c] - p.age < REFAIL_WINDOW)
        BY <1>5 DEF FailedJustNow
      <3> QED
        BY <3>1, <3>2, FlowFacts, TakesFacts DEF Clients, FlowInv
    <2>3. 1 \in DOMAIN wire /\ 1 > 0 /\ IsSyn(wire[1], c)
      BY <1>5, TakesFacts DEF IsSyn, Is
    <2>4. ASSUME NEW j \in DOMAIN wire, recentFail[c] - wire[j].age <= REFAIL_WINDOW - 1 PROVE FALSE
      <3>1. wire[j].age \in Nat /\ wire[j].age <= p.age
        BY TakesFacts
      <3> QED
        BY <2>2, <2>4, <3>1
    <2>5. ASSUME recentFail[c] + client[c].wait <= REFAIL_WINDOW - 1 PROVE FALSE
      BY <2>2, <2>5
    <2> QED
      BY <2>1, <2>3, <2>4, <2>5 DEF Followed
  <1>6. \A c \in G, e \in Pend' : e.conn = c => e.refail
    <2> SUFFICES ASSUME NEW e \in Pend', e.conn \in G PROVE e.refail
      OBVIOUS
    <2>1. e.conn \in F
      <3>1. p.kind = "refusal" => e.conn # p.of
        BY DEF Takes, Handled
      <3> QED
        BY <1>4, <3>1
    <2>2. CASE \E f \in Pend : f.conn = e.conn /\ f.refail = e.refail
      BY <1>2, <2>1, <2>2
    <2>3. CASE e.conn = p.of /\ p.kind = "syn" /\ ~FailedJustNow(p) /\ \A f \in Pend : f.conn # p.of
      BY <1>5, <2>1, <2>3
    <2> QED
      BY <2>2, <2>3 DEF Takes, Handled
  <1>7. ASSUME NEW c \in G
        PROVE  \/ \E e \in Pend' : e.conn = c
               \/ Followed(wire', client'[c], c, 0, recentFail'[c], REFAIL_WINDOW - 1)
    <2>1. CASE c = p.of /\ p.kind = "syn"
      BY <2>1 DEF Takes, Handled
    <2>2. CASE c = p.of /\ p.kind \in {"synack", "fin", "refusal", "abort"}
      BY <1>0, <2>2, TakesEnded
    <2>3. CASE c \in F /\ ~(c = p.of /\ p.kind \in FlowPackets)
      <3>1. CASE \E e \in Pend : e.conn = c
        <4>1. PICK e \in Pend : e.conn = c
          BY <3>1
        <4>2. e \in Pend'
          BY <2>3, <4>1 DEF Takes, Handled, FlowPackets
        <4> QED
          BY <4>1, <4>2
      <3>2. CASE Followed(wire, client[c], c, 0, recentFail[c], REFAIL_WINDOW - 1)
        <4>1. ~IsSyn(wire[1], c)
          BY <2>3 DEF IsSyn, Is, FlowPackets
        <4>2. recentFail'[c] = recentFail[c]
          BY <1>3, <2>3 DEF Takes, Handled, FlowPackets
        <4> QED
          BY <1>0, <3>2, <4>1, <4>2, FollowedByRest
      <3> QED
        BY <1>2, <2>3, <3>1, <3>2
    <2> QED
      BY <1>4, <2>1, <2>2, <2>3 DEF FlowPackets
  <1>8. FailedSet(G)'
    BY <1>4, <1>6, <1>7 DEF FailedSet
  <1> QED
    BY <1>0, <1>8

LEMMA TakesEstablished ==
  ASSUME WireTypes, FlowInv, Takes
  PROVE  Established'
  <1> DEFINE p == wire[1]
  <1>0. client' = client /\ Tried' = Tried /\ IsFiniteSet(Tried) /\ counts.established \in Nat
    BY TakesFacts DEF Tried, FlowInv, Failures, FlowTypes, Counters
  <1>1. PICK E \in SUBSET Tried : EstablishedSet(E)
    BY DEF FlowInv, Established
  <1>2. /\ counts.established <= Cardinality(E)
        /\ \A c \in E : client[c].phase \in {"open", "gone"}
        /\ \A c \in E, e \in Pend : e.conn # c
        /\ \A c \in E, j \in DOMAIN wire : ~IsSyn(wire[j], c)
    BY <1>1 DEF EstablishedSet
  <1>3. IsFiniteSet(E) /\ Cardinality(E) \in Nat
    BY <1>0, FS_Subset, FS_CardinalityType
  <1>4. \A c \in E, e \in Pend' : e.conn # c
    <2> SUFFICES ASSUME NEW e \in Pend', e.conn \in E PROVE FALSE
      OBVIOUS
    <2>1. e \in Pend \/ (p.kind = "syn" /\ e.conn = p.of)
      BY DEF Takes, Handled
    <2>2. ~IsSyn(wire[1], e.conn)
      BY <1>2, TakesFacts
    <2> QED
      BY <1>2, <2>1, <2>2 DEF IsSyn, Is
  <1>5. \A c \in E, j \in DOMAIN wire' : ~IsSyn(wire'[j], c)
    BY <1>2, TakesFacts
  <1>6. CASE counts'.established = counts.established
    <2>1. EstablishedSet(E)'
      BY <1>0, <1>2, <1>4, <1>5, <1>6 DEF EstablishedSet
    <2> QED
      BY <1>0, <2>1 DEF Established
  <1>7. CASE counts'.established = counts.established + 1 /\ p.kind = "synack" /\ \E e \in Pend : e.conn = p.of
    <2>1. p.of \notin E /\ p.of \in Conns
      BY <1>2, <1>7, TakesFacts
    <2>2. client[p.of].phase \in {"open", "gone"} /\ \A j \in DOMAIN wire' : ~IsSyn(wire'[j], p.of)
      BY <1>7, TakesEnded
    <2>3. \A e \in Pend' : e.conn # p.of
      BY <1>7 DEF Takes, Handled
    <2>4. PICK D : D = E \cup {p.of}
      OBVIOUS
    <2>5. D \in SUBSET Tried
      BY <2>1, <2>2, <2>4 DEF Tried
    <2>6. Cardinality(D) = Cardinality(E) + 1
      BY <1>3, <2>1, <2>4, FS_AddElement
    <2>7. counts'.established <= Cardinality(D)
      BY <1>0, <1>2, <1>3, <1>7, <2>6
    <2>8. EstablishedSet(D)'
      BY <1>0, <1>2, <1>4, <1>5, <2>2, <2>3, <2>4, <2>7 DEF EstablishedSet
    <2> QED
      BY <1>0, <2>5, <2>8 DEF Established
  <1> QED
    BY <1>6, <1>7 DEF Takes, Handled

LEMMA TakesOpen ==
  ASSUME WireTypes, FlowInv, Takes
  PROVE  OpenTrue'
  <1> DEFINE p == wire[1]
  <1>0. client' = client
    BY TakesFacts
  <1>1. ASSUME NEW c \in Shown'
        PROVE  client'[c].phase = "open" \/ \E j \in DOMAIN wire' : Is(wire'[j], Closing, c)
    <2>1. CASE c \in Shown
      <3>1. ~Is(wire[1], Closing, c)
        BY <1>1 DEF Takes, Handled, Is
      <3>2. CASE client[c].phase = "open"
        BY <1>0, <3>2
      <3>3. CASE \E j \in DOMAIN wire : Is(wire[j], Closing, c)
        <4>1. PICK j \in DOMAIN wire : Is(wire[j], Closing, c)
          BY <3>3
        <4>2. j - 1 \in DOMAIN wire' /\ wire'[j - 1] = wire[j]
          BY <3>1, <4>1, TakesFacts
        <4> QED
          BY <4>1, <4>2
      <3> QED
        BY <2>1, <3>2, <3>3 DEF FlowInv, OpenTrue
    <2>2. CASE c = p.of /\ p.kind = "synack"
      <3>1. CASE client[c].phase = "open"
        BY <1>0, <3>1
      <3>2. CASE \E j \in DOMAIN wire : j > 1 /\ Is(wire[j], Closing, c)
        <4>1. PICK j \in DOMAIN wire : j > 1 /\ Is(wire[j], Closing, c)
          BY <3>2
        <4>2. j - 1 \in DOMAIN wire' /\ wire'[j - 1] = wire[j]
          BY <4>1, TakesFacts
        <4> QED
          BY <4>1, <4>2
      <3> QED
        BY <2>2, <3>1, <3>2, TakesFacts DEF FlowInv, OpenTrue
    <2> QED
      BY <2>1, <2>2 DEF Takes, Handled
  <1>2. ASSUME NEW i \in DOMAIN wire', wire'[i].kind = "synack"
        PROVE  \/ client'[wire'[i].of].phase = "open"
               \/ \E j \in DOMAIN wire' : j > i /\ Is(wire'[j], Closing, wire'[i].of)
    <2>1. i + 1 \in DOMAIN wire /\ wire'[i] = wire[i + 1] /\ i \in Nat
      BY TakesFacts
    <2>2. CASE client[wire[i + 1].of].phase = "open"
      BY <1>0, <2>1, <2>2
    <2>3. CASE \E j \in DOMAIN wire : j > i + 1 /\ Is(wire[j], Closing, wire[i + 1].of)
      <3>1. PICK j \in DOMAIN wire : j > i + 1 /\ Is(wire[j], Closing, wire[i + 1].of)
        BY <2>3
      <3>2. j \in Nat /\ j # 1
        BY <2>1, <3>1, TakesFacts
      <3>3. j - 1 \in DOMAIN wire' /\ wire'[j - 1] = wire[j] /\ j - 1 > i
        BY <2>1, <3>1, <3>2, TakesFacts
      <3> QED
        BY <2>1, <3>1, <3>3
    <2> QED
      BY <1>2, <2>1, <2>2, <2>3 DEF FlowInv, OpenTrue
  <1> QED
    BY <1>1, <1>2 DEF OpenTrue

LEMMA TakesRecent ==
  ASSUME WireTypes, FlowInv, Takes, NEW c \in Conns \ crowdedOut', NEW a \in Int, NEW k \in Int, NEW l \in Int, l = k - 1,
         Recent(Pend, wire, c, a, k), ~(wire[1].of = c /\ wire[1].kind \in {"synack", "refusal", "abort"})
  PROVE  Recent(Pend', wire', c, a, l)
  <1>1. CASE \E e \in Pend : e.conn = c /\ e.age <= a
    <2>1. PICK e \in Pend : e.conn = c /\ e.age <= a
      BY <1>1
    <2>2. CASE IsSyn(wire[1], c)
      <3>1. \E f \in Pend' : f.conn = c /\ f.age = wire[1].age
        BY <2>2 DEF Takes, Handled, IsSyn, Is
      <3>2. wire[1].age <= e.age /\ wire[1].age \in Nat /\ e.age \in Nat
        BY <2>1, <2>2, TakesFacts DEF FlowInv, InSequence
      <3>3. wire[1].age <= a
        BY <2>1, <3>2
      <3> QED
        BY <3>1, <3>3 DEF Recent
    <2>3. CASE ~IsSyn(wire[1], c)
      <3>1. e \in Pend'
        BY <2>1, <2>3 DEF Takes, Handled, IsSyn, Is
      <3> QED
        BY <2>1, <3>1 DEF Recent
    <2> QED
      BY <2>2, <2>3
  <1>2. CASE \E j \in DOMAIN wire : j < k /\ IsSyn(wire[j], c) /\ wire[j].age <= a
    <2>1. PICK j \in DOMAIN wire : j < k /\ IsSyn(wire[j], c) /\ wire[j].age <= a
      BY <1>2
    <2>2. CASE j = 1
      <3>1. \E f \in Pend' : f.conn = c /\ f.age = wire[1].age
        BY <2>1, <2>2 DEF Takes, Handled, IsSyn, Is
      <3> QED
        BY <2>1, <2>2, <3>1 DEF Recent
    <2>3. CASE j # 1
      <3>1. j \in Nat /\ j - 1 \in DOMAIN wire' /\ wire'[j - 1] = wire[j]
        BY <2>3, TakesFacts
      <3>2. j - 1 < l
        BY <2>1, <3>1
      <3> QED
        BY <2>1, <3>1, <3>2 DEF Recent
    <2> QED
      BY <2>2, <2>3
  <1> QED
    BY <1>1, <1>2 DEF Recent

LEMMA TakesSeen ==
  ASSUME WireTypes, FlowInv, Takes
  PROVE  Seen'
  <1> DEFINE p == wire[1]
  <1>0. /\ client' = client /\ answered' = answered /\ cutOff' = cutOff /\ crowdedOut \subseteq crowdedOut'
        /\ Len(wire') + 1 = (Len(wire) + 1) - 1 /\ Len(wire) \in Nat /\ Len(wire') \in Nat
        /\ TIMEOUT \in Int /\ LAG \in Int
    <2>1. Len(wire') = Len(wire) - 1 /\ Len(wire) \in Nat /\ 1 \in DOMAIN wire /\ DOMAIN wire = 1 .. Len(wire)
      BY WireFacts, TakesFacts DEF Takes, Shorter
    <2> QED
      BY <2>1, TakesFacts, FlowFacts DEF Takes, Handled, FlowInv
  <1> SUFFICES ASSUME NEW c \in Conns \ (cutOff \cup crowdedOut')
               PROVE  /\ client[c].phase = "connecting" /\ SinceSyn(c) <= TIMEOUT =>
                           Recent(Pend', wire', c, SinceSyn(c), Len(wire') + 1)
                      /\ client[c].phase = "open" /\ c \in answered /\ c \notin Shown' =>
                           \E k \in DOMAIN wire' : /\ Is(wire'[k], {"synack"}, c)
                                                   /\ Recent(Pend', wire', c, TIMEOUT - LAG + wire'[k].age, k)
    BY <1>0 DEF Seen, SinceSyn
  <1>1. c \in Conns \ (cutOff \cup crowdedOut) /\ c \in Conns \ crowdedOut'
    BY <1>0
  <1>2. ASSUME client[c].phase = "connecting", SinceSyn(c) <= TIMEOUT
        PROVE  Recent(Pend', wire', c, SinceSyn(c), Len(wire') + 1)
    <2>1. Recent(Pend, wire, c, SinceSyn(c), Len(wire) + 1)
      BY <1>1, <1>2 DEF FlowInv, Seen
    <2>2. ~(p.of = c /\ p.kind \in {"synack", "refusal", "abort"})
      BY <1>2, TakesEnded
    <2>3. SinceSyn(c) \in Int
      <3>1. client[c] \in Clients
        BY DEF FlowInv, FlowTypes
      <3>2. client[c].tries \in 0 .. RETRIES /\ client[c].wait \in Nat
        BY <3>1 DEF Clients
      <3> QED
        BY <3>2, FlowsAssumption DEF SinceSyn
    <2> QED
      BY <1>0, <1>1, <2>1, <2>2, <2>3, TakesRecent
  <1>3. ASSUME client[c].phase = "open", c \in answered, c \notin Shown'
        PROVE  \E k \in DOMAIN wire' : /\ Is(wire'[k], {"synack"}, c)
                                       /\ Recent(Pend', wire', c, TIMEOUT - LAG + wire'[k].age, k)
    <2>1. ~(p.of = c /\ p.kind \in Closing)
      BY <1>3, TakesEnded DEF Closing
    <2>2. c \notin Shown
      BY <1>1, <1>3, <2>1 DEF Takes, Handled
    <2>3. PICK k \in DOMAIN wire : /\ Is(wire[k], {"synack"}, c)
                                   /\ Recent(Pend, wire, c, TIMEOUT - LAG + wire[k].age, k)
      BY <1>1, <1>3, <2>2 DEF FlowInv, Seen
    <2>4. ~(p.of = c /\ p.kind = "synack")
      <3> SUFFICES ASSUME p.of = c, p.kind = "synack" PROVE FALSE
        OBVIOUS
      <3>1. \A e \in Pend : e.conn # c
        BY <1>3 DEF Takes, Handled
      <3>2. \A j \in DOMAIN wire : ~IsSyn(wire[j], c)
        BY TakesEnded
      <3> QED
        BY <2>3, <3>1, <3>2 DEF Recent
    <2>5. k # 1
      BY <2>3, <2>4 DEF Is
    <2>6. k \in Nat /\ k - 1 \in DOMAIN wire' /\ wire'[k - 1] = wire[k] /\ wire[k].age \in Nat
      BY <2>5, TakesFacts
    <2>7. ~(wire[1].of = c /\ wire[1].kind \in {"synack", "refusal", "abort"})
      BY <2>1, <2>4 DEF Closing
    <2>8. Recent(Pend', wire', c, TIMEOUT - LAG + wire[k].age, k - 1)
      BY <1>0, <1>1, <2>3, <2>6, <2>7, TakesRecent
    <2> QED
      BY <2>3, <2>6, <2>8
  <1> QED
    BY <1>2, <1>3

LEMMA TakesStep ==
  ASSUME WireTypes, FlowInv, Takes
  PROVE  FlowInv'
  BY TakesOrder, TakesChained, TakesFailures, TakesEstablished, TakesOpen, TakesSeen DEF Takes, FlowInv
-----------------------------------------------------------------------------
(* The handshake tracker: the clock.                                        *)

\* What a tick leaves, and what it counts.
LEMMA FlowTickKeeps ==
  ASSUME FlowInv, FlowTick
  PROVE  /\ UNCHANGED <<open, wire, client, answered, cutOff>> /\ crowdedOut \subseteq crowdedOut'
         /\ FlowTypes' /\ Unique'
         /\ Pend' = {e \in Pend : ~(e.age > TIMEOUT)}
         /\ OverdueConns = {e.conn : e \in {f \in Pend : f.age > TIMEOUT}}
         /\ NewlyHalfOpen = {e.conn : e \in {f \in Pend : f.age > TIMEOUT /\ ~f.refail}}
         /\ \A c \in Conns : recentFail'[c] = IF c \in OverdueConns THEN 0
                                              ELSE IF c \in Outdated THEN FORGOTTEN ELSE recentFail[c]
         /\ crowdedOut' = {} => \A c \in Outdated : c \in Conns => recentFail[c] >= STALE
         /\ IsFiniteSet(NewlyHalfOpen) /\ Cardinality(NewlyHalfOpen) \in Nat
         /\ Failed \in Nat /\ Failed' = Failed + Cardinality(NewlyHalfOpen)
         /\ counts'.established = counts.established
         /\ Balance'
  <1> DEFINE keep == {i \in DOMAIN pending : ~Overdue(pending[i])}
             n == Cardinality(NewlyHalfOpen)
  <1>0. FlowTypes /\ Balance /\ UniquePending /\ UniqueOpen
    BY UniqueParts DEF FlowInv
  <1>1. /\ UNCHANGED <<open, wire, client, answered, cutOff>>
        /\ crowdedOut' = crowdedOut \cup {c \in Outdated : recentFail[c] \in REFAIL_WINDOW + 1 .. STALE - 1}
        /\ pending' = Retained(pending, keep)
        /\ recentFail' = [c \in Conns |-> IF c \in OverdueConns THEN 0
                                          ELSE IF c \in Outdated THEN FORGOTTEN ELSE recentFail[c]]
        /\ counts' = [counts EXCEPT !.halfOpen = @ + n]
    BY DEF FlowTick, historyVars
  <1>2. \A i \in DOMAIN pending : i \in keep <=> ~(pending[i].age > TIMEOUT)
    BY DEF Overdue
  <1> HIDE DEF keep
  <1>3. /\ pending' \in Seq(Entries) /\ UniquePending'
        /\ \A e \in Pend' : \E i \in DOMAIN pending : i \in keep /\ e = pending[i]
        /\ \A i \in DOMAIN pending : i \in keep => pending[i] \in Pend'
    BY <1>0, <1>1, PendingLeft
  <1>4. Pend' = {e \in Pend : ~(e.age > TIMEOUT)}
    BY <1>2, <1>3 DEF Pend
  <1>5. /\ OverdueConns = {e.conn : e \in {f \in Pend : f.age > TIMEOUT}}
        /\ NewlyHalfOpen = {e.conn : e \in {f \in Pend : f.age > TIMEOUT /\ ~f.refail}}
    BY DEF OverdueConns, NewlyHalfOpen, Overdue, Pend
  <1>6. NewlyHalfOpen \subseteq Attempts
    BY <1>0, <1>5, FlowFacts
  <1>7. IsFiniteSet(NewlyHalfOpen) /\ n \in Nat
    BY <1>0, <1>6, FS_Subset, FS_CardinalityType DEF Balance
  <1> HIDE DEF n
  <1>8. /\ counts' \in [Counters -> Nat] /\ counts'.halfOpen = counts.halfOpen + n /\ counts'.refused = counts.refused
        /\ counts'.synSent = counts.synSent /\ counts'.established = counts.established
        /\ counts.halfOpen \in Nat /\ counts.refused \in Nat
    <2>1. counts \in [Counters -> Nat]
      BY <1>0 DEF FlowTypes
    <2>2. counts' = [counts EXCEPT !.halfOpen = counts.halfOpen + n] /\ counts.halfOpen + n \in Nat
      BY <1>1, <1>7, <2>1 DEF Counters
    <2> QED
      BY <2>1, <2>2 DEF Counters
  <1>9. Failed \in Nat /\ Failed' = Failed + n
    BY <1>7, <1>8 DEF Failed
  <1>10. recentFail' \in [Conns -> 0 .. FORGOTTEN] /\ recentFail \in [Conns -> 0 .. FORGOTTEN]
    <2>1. 0 \in 0 .. FORGOTTEN /\ FORGOTTEN \in 0 .. FORGOTTEN /\ recentFail \in [Conns -> 0 .. FORGOTTEN]
      BY <1>0, FlowFacts DEF FlowTypes, FORGOTTEN, STALE
    <2> QED
      BY <1>1, <2>1
  <1>15. ASSUME NEW c \in Outdated PROVE c \in Conns /\ recentFail[c] > REFAIL_WINDOW
    <2>1. c \in Remembered \ OverdueConns /\ recentFail[c] > REFAIL_WINDOW
      BY <1>15 DEF Outdated
    <2> QED
      BY <2>1 DEF Remembered
  <1>16. crowdedOut \subseteq crowdedOut' /\ crowdedOut' \subseteq Conns
    BY <1>0, <1>1, <1>15 DEF FlowTypes
  <1>17. ASSUME crowdedOut' = {}, NEW c \in Outdated PROVE recentFail[c] >= STALE
    <2>1. recentFail[c] \in Nat /\ recentFail[c] > REFAIL_WINDOW
      BY <1>10, <1>15
    <2>2. recentFail[c] \notin REFAIL_WINDOW + 1 .. STALE - 1
      BY <1>1, <1>17
    <2>3. REFAIL_WINDOW \in Nat /\ STALE \in Nat
      BY FlowsAssumption, CaptureAssumption DEF STALE
    <2> QED
      BY <2>1, <2>2, <2>3
  <1>11. FlowTypes'
    BY <1>0, <1>1, <1>3, <1>8, <1>10, <1>16 DEF FlowTypes
  <1>12. Unique'
    BY <1>0, <1>1, <1>3 DEF Unique, UniquePending, UniqueOpen
  <1>13. Attempts' \subseteq Attempts \ NewlyHalfOpen
    <2>1. Attempts' = {e.conn : e \in {f \in Pend' : ~f.refail}}
      BY DEF Attempts, Pend
    <2> SUFFICES ASSUME NEW e \in Pend', ~e.refail PROVE e.conn \in Attempts \ NewlyHalfOpen
      BY <2>1
    <2>2. e \in Pend /\ ~(e.age > TIMEOUT)
      BY <1>4
    <2>3. e.conn \in Attempts
      BY <1>0, <2>2, FlowFacts
    <2>4. e.conn \notin NewlyHalfOpen
      BY <1>0, <1>5, <2>2, OnePending
    <2> QED
      BY <2>3, <2>4
  <1>14. Balance'
    <2>1. \E N \in SUBSET Attempts : /\ Attempts' \subseteq Attempts \ N
                                     /\ Failed' = Failed + Cardinality(N) /\ counts'.synSent = counts.synSent
      BY <1>6, <1>8, <1>9, <1>13 DEF n
    <2> QED
      BY <1>0, <1>8, <2>1, BalanceStays
  <1> QED
    BY <1>1, <1>4, <1>5, <1>7, <1>8, <1>9, <1>11, <1>12, <1>14, <1>16, <1>17 DEF n

\* Who failed too long ago for any packet has no SYN to come.
LEMMA LongAgo ==
  ASSUME WireTypes, NEW x \in Clients, NEW c, NEW a \in Nat, a >= STALE, NEW b,
         Followed(wire, x, c, 0, a, REFAIL_WINDOW - 1)
  PROVE  Followed(wire, x, c, 0, b, REFAIL_WINDOW - 1)
  <1>1. REFAIL_WINDOW \in Nat /\ LAG \in Nat /\ a >= REFAIL_WINDOW + LAG
    BY FlowsAssumption, CaptureAssumption DEF STALE
  <1>2. ~(Retries(x) /\ a + x.wait <= REFAIL_WINDOW - 1)
    BY <1>1 DEF Clients
  <1>3. ASSUME NEW j \in DOMAIN wire PROVE ~(a - wire[j].age <= REFAIL_WINDOW - 1)
    <2>1. wire[j].age \in 0 .. LAG
      BY WireFacts
    <2> QED
      BY <1>1, <2>1
  <1> QED
    BY <1>2, <1>3 DEF Followed

LEMMA FlowTickFailures ==
  ASSUME WireTypes, FlowInv, FlowTick
  PROVE  Failures'
  <1>0. /\ client' = client /\ wire' = wire /\ crowdedOut \subseteq crowdedOut' /\ Tried' = Tried /\ IsFiniteSet(Tried)
        /\ TIMEOUT \in Nat /\ REFAIL_WINDOW \in Nat \ {0} /\ FlowTypes
    BY FlowTickKeeps, FlowFacts DEF Tried, FlowInv, Failures
  <1> SUFFICES ASSUME crowdedOut' = {} PROVE \E F \in SUBSET Tried' : FailedSet(F)'
    BY <1>0 DEF Failures
  <1>10. crowdedOut = {}
    BY <1>0
  <1>1. PICK F \in SUBSET Tried : FailedSet(F)
    BY <1>10 DEF FlowInv, Failures
  <1>2. /\ Failed <= Cardinality(F)
        /\ \A c \in F, e \in Pend : e.conn = c => e.refail
        /\ \A c \in F : \/ \E e \in Pend : e.conn = c
                        \/ Followed(wire, client[c], c, 0, recentFail[c], REFAIL_WINDOW - 1)
    BY <1>1 DEF FailedSet
  <1>3. PICK G : G = F \cup NewlyHalfOpen
    OBVIOUS
  <1>4. G \in SUBSET Tried
    <2>1. \A e \in Pend : e.conn \in Tried
      BY <1>0, FlowFacts DEF FlowInv, Known, Tried
    <2> QED
      BY <1>3, <2>1, FlowTickKeeps
  <1>5. Failed' <= Cardinality(G)
    <2>1. IsFiniteSet(F) /\ Cardinality(F) \in Nat
      BY <1>0, FS_Subset, FS_CardinalityType
    <2>2. F \cap NewlyHalfOpen = {}
      BY <1>2, FlowTickKeeps
    <2>3. Cardinality(G) = Cardinality(F) + Cardinality(NewlyHalfOpen)
      <3>1. Cardinality(G) = Cardinality(F) + Cardinality(NewlyHalfOpen) - Cardinality(F \cap NewlyHalfOpen)
        BY <1>3, <2>1, FlowTickKeeps, FS_Union
      <3>2. Cardinality(F \cap NewlyHalfOpen) = 0
        BY <2>2, FS_EmptySet
      <3> QED
        BY <2>1, <3>1, <3>2, FlowTickKeeps
    <2> QED
      BY <1>2, <2>1, <2>3, FlowTickKeeps
  <1>6. \A c \in G, e \in Pend' : e.conn = c => e.refail
    <2> SUFFICES ASSUME NEW e \in Pend', e.conn \in G PROVE e.refail
      OBVIOUS
    <2>1. e \in Pend /\ ~(e.age > TIMEOUT)
      BY FlowTickKeeps
    <2>2. e.conn \notin NewlyHalfOpen
      BY <2>1, FlowTickKeeps, OnePending, UniqueParts DEF FlowInv
    <2> QED
      BY <1>2, <1>3, <2>1, <2>2
  <1>7. ASSUME NEW c \in OverdueConns
        PROVE  Followed(wire', client'[c], c, 0, recentFail'[c], REFAIL_WINDOW - 1)
    <2>1. PICK e \in Pend : e.conn = c /\ e.age > TIMEOUT
      BY FlowTickKeeps
    <2>2. c \in Conns /\ e.age = TIMEOUT + 1 /\ recentFail'[c] = 0
      <3>1. c \in Conns /\ e.age \in Nat /\ e.age <= TIMEOUT + 1
        BY <1>0, <2>1, FlowFacts DEF FlowInv, InSequence
      <3> QED
        BY <1>0, <2>1, <3>1, FlowTickKeeps
    <2>3. Followed(wire, client[c], c, 0, TIMEOUT + 1, TIMEOUT + REFAIL_WINDOW)
      BY <2>1, <2>2 DEF FlowInv, Chained, Apart
    <2>4. client[c].wait \in Nat
      BY <1>0, <2>2 DEF FlowTypes, Clients
    <2>5. ASSUME NEW j \in DOMAIN wire PROVE 0 - wire[j].age <= REFAIL_WINDOW - 1
      <3>1. wire[j].age \in Nat
        BY WireFacts
      <3> QED
        BY <1>0, <3>1
    <2>6. (TIMEOUT + 1) + client[c].wait <= TIMEOUT + REFAIL_WINDOW => 0 + client[c].wait <= REFAIL_WINDOW - 1
      BY <1>0, <2>4
    <2>7. Followed(wire, client[c], c, 0, 0, REFAIL_WINDOW - 1)
      BY <2>3, <2>5, <2>6 DEF Followed
    <2> QED
      BY <1>0, <2>2, <2>7
  <1>8. ASSUME NEW c \in G
        PROVE  \/ \E e \in Pend' : e.conn = c
               \/ Followed(wire', client'[c], c, 0, recentFail'[c], REFAIL_WINDOW - 1)
    <2>1. CASE c \in OverdueConns
      BY <1>7, <2>1
    <2>2. CASE c \notin OverdueConns
      <3>1. c \in F
        BY <1>3, <2>2, FlowTickKeeps
      <3>2. CASE \E e \in Pend : e.conn = c
        BY <2>2, <3>2, FlowTickKeeps
      <3>3. CASE Followed(wire, client[c], c, 0, recentFail[c], REFAIL_WINDOW - 1)
        <4>1. c \in Conns /\ client[c] \in Clients /\ recentFail[c] \in Nat
          BY <1>0, <3>1 DEF Tried, FlowTypes
        <4>2. CASE c \notin Outdated
          <5>1. recentFail'[c] = recentFail[c]
            BY <2>2, <4>1, <4>2, FlowTickKeeps
          <5> QED
            BY <1>0, <3>3, <5>1
        <4>3. CASE c \in Outdated
          <5>1. recentFail[c] >= STALE
            BY <4>1, <4>3, FlowTickKeeps
          <5>2. Followed(wire, client[c], c, 0, recentFail'[c], REFAIL_WINDOW - 1)
            BY <3>3, <4>1, <5>1, LongAgo
          <5> QED
            BY <1>0, <5>2
        <4> QED
          BY <4>2, <4>3
      <3> QED
        BY <1>2, <3>1, <3>2, <3>3
    <2> QED
      BY <2>1, <2>2
  <1>9. FailedSet(G)'
    BY <1>5, <1>6, <1>8 DEF FailedSet
  <1> QED
    BY <1>0, <1>4, <1>9

LEMMA FlowTickStep ==
  ASSUME WireTypes, FlowInv, FlowTick
  PROVE  FlowInv'
  <1>0. /\ UNCHANGED <<open, wire, client, answered, cutOff>> /\ Pend' \subseteq Pend
        /\ crowdedOut \subseteq crowdedOut' /\ counts'.established = counts.established /\ Shown' = Shown /\ Tried' = Tried
    BY FlowTickKeeps DEF Shown, Tried
  <1>1. InSequence' /\ Known' /\ Ended' /\ Chained' /\ OpenTrue'
    <2>1. InSequence' /\ Known'
      BY <1>0 DEF FlowInv, InSequence, Known
    <2>2. Ended' /\ OpenTrue'
      BY <1>0 DEF FlowInv, Ended, OpenTrue
    <2>3. Chained'
      BY <1>0 DEF FlowInv, Chained
    <2> QED
      BY <2>1, <2>2, <2>3
  <1>2. Established'
    <2>1. PICK E \in SUBSET Tried : EstablishedSet(E)
      BY DEF FlowInv, Established
    <2>2. EstablishedSet(E)'
      BY <1>0, <2>1 DEF EstablishedSet
    <2> QED
      BY <1>0, <2>2 DEF Established
  <1>3. ASSUME NEW c, NEW a \in Int, a <= TIMEOUT, NEW k, Recent(Pend, wire, c, a, k)
        PROVE  Recent(Pend', wire', c, a, k)
    <2>1. CASE \E e \in Pend : e.conn = c /\ e.age <= a
      <3>1. PICK e \in Pend : e.conn = c /\ e.age <= a
        BY <2>1
      <3>2. e.age \in Nat /\ TIMEOUT \in Nat
        BY FlowFacts DEF FlowInv
      <3>3. e \in Pend'
        BY <1>3, <3>1, <3>2, FlowTickKeeps
      <3> QED
        BY <3>1, <3>3 DEF Recent
    <2>2. CASE \E j \in DOMAIN wire : j < k /\ IsSyn(wire[j], c) /\ wire[j].age <= a
      BY <1>0, <2>2 DEF Recent
    <2> QED
      BY <1>3, <2>1, <2>2 DEF Recent
  <1>4. Seen'
    <2> SUFFICES ASSUME NEW c \in Conns \ (cutOff \cup crowdedOut)
                 PROVE  /\ client[c].phase = "connecting" /\ SinceSyn(c) <= TIMEOUT =>
                             Recent(Pend', wire', c, SinceSyn(c), Len(wire) + 1)
                        /\ client[c].phase = "open" /\ c \in answered /\ c \notin Shown =>
                             \E k \in DOMAIN wire : /\ Is(wire[k], {"synack"}, c)
                                                    /\ Recent(Pend', wire', c, TIMEOUT - LAG + wire[k].age, k)
      BY <1>0 DEF Seen, SinceSyn
    <2>1. SinceSyn(c) \in Int
      <3>1. client[c] \in Clients
        BY DEF FlowInv, FlowTypes
      <3>2. client[c].tries \in 0 .. RETRIES /\ client[c].wait \in Nat
        BY <3>1 DEF Clients
      <3> QED
        BY <3>2, FlowsAssumption DEF SinceSyn
    <2>2. ASSUME NEW k \in DOMAIN wire PROVE TIMEOUT - LAG + wire[k].age \in Int /\ TIMEOUT - LAG + wire[k].age <= TIMEOUT
      <3>1. wire[k].age \in 0 .. LAG /\ LAG \in Nat /\ TIMEOUT \in Nat
        BY WireFacts, FlowFacts DEF FlowInv
      <3> QED
        BY <3>1
    <2> QED
      BY <1>3, <2>1, <2>2 DEF FlowInv, Seen
  <1> QED
    BY <1>1, <1>2, <1>4, FlowTickKeeps, FlowTickFailures DEF FlowInv

Aged(e, f) == e.conn = f.conn /\ e.refail = f.refail /\ e.age = f.age + 1

\* What a unit of time changes.
LEMMA ElapseKeeps ==
  ASSUME WireTypes, FlowInv, InTime, FlowsInTime, wire' = Travelled, FlowsElapse
  PROVE  /\ UNCHANGED <<open, counts, crowdedOut, answered, cutOff>> /\ Older(wire, wire')
         /\ FlowTypes' /\ Unique'
         /\ \A e \in Pend' : \E f \in Pend : Aged(e, f) /\ f.age <= TIMEOUT /\ f.age \in Nat
         /\ \A f \in Pend : \E e \in Pend' : Aged(e, f)
         /\ \A c \in Conns : /\ recentFail[c] \in Nat /\ recentFail'[c] \in Nat /\ recentFail'[c] <= recentFail[c] + 1
                             /\ client'[c].phase = client[c].phase /\ client'[c].tries = client[c].tries
                             /\ client[c].wait \in Nat
                             /\ client[c].phase = "connecting" => client'[c].wait = client[c].wait - 1
  <1>1. /\ UNCHANGED <<open, counts, crowdedOut, answered, cutOff>>
        /\ pending' = [i \in DOMAIN pending |-> [pending[i] EXCEPT !.age = @ + 1]]
        /\ recentFail' = [c \in Conns |-> IF recentFail[c] < STALE THEN recentFail[c] + 1 ELSE recentFail[c]]
        /\ client' = [c \in Conns |-> IF client[c].phase = "connecting"
                                      THEN [client[c] EXCEPT !.wait = @ - 1] ELSE client[c]]
    BY DEF FlowsElapse, historyVars
  <1>2. Older(wire, wire')
    BY WireAges, WireFacts DEF Older
  <1>3. /\ pending \in Seq(Entries) /\ DOMAIN pending = 1 .. Len(pending) /\ Len(pending) \in Nat
        /\ TIMEOUT \in Nat /\ STALE \in Nat /\ FORGOTTEN = STALE + 1
        /\ recentFail \in [Conns -> 0 .. FORGOTTEN] /\ client \in [Conns -> Clients]
    BY FlowFacts DEF FlowInv, FlowTypes, FORGOTTEN, STALE
  <1>4. ASSUME NEW i \in DOMAIN pending
        PROVE  pending'[i] \in Entries /\ Aged(pending'[i], pending[i]) /\ pending[i].age <= TIMEOUT /\ pending[i].age \in Nat
    <2>1. pending[i] \in Entries /\ pending'[i] = [pending[i] EXCEPT !.age = @ + 1]
      BY <1>1, <1>3
    <2>2. ~(pending[i].age > TIMEOUT)
      BY DEF FlowsInTime, OverdueConns, Overdue
    <2>3. pending[i].age \in Nat /\ pending[i].age <= TIMEOUT /\ pending[i].age + 1 \in Nat
      BY <1>3, <2>1, <2>2 DEF Entries
    <2>4. pending'[i] \in Entries /\ Aged(pending'[i], pending[i])
      BY <2>1, <2>3 DEF Entries, Aged
    <2> QED
      BY <2>3, <2>4
  <1>5. DOMAIN pending' = DOMAIN pending /\ pending' \in Seq(Entries)
    <2>1. pending' \in [1 .. Len(pending) -> Entries]
      BY <1>1, <1>3, <1>4
    <2> QED
      BY <1>1, <1>3, <2>1
  <1>6. ASSUME NEW c \in Conns
        PROVE  /\ recentFail[c] \in Nat /\ recentFail'[c] \in 0 .. FORGOTTEN /\ recentFail'[c] <= recentFail[c] + 1
               /\ client'[c] \in Clients
               /\ client'[c].phase = client[c].phase /\ client'[c].tries = client[c].tries /\ client[c].wait \in Nat
               /\ client[c].phase = "connecting" => client'[c].wait = client[c].wait - 1
    <2>1. recentFail[c] \in 0 .. FORGOTTEN /\ client[c] \in Clients
      BY <1>3
    <2>2. recentFail'[c] = IF recentFail[c] < STALE THEN recentFail[c] + 1 ELSE recentFail[c]
      BY <1>1
    <2>3. recentFail[c] \in Nat /\ recentFail'[c] \in 0 .. FORGOTTEN /\ recentFail'[c] <= recentFail[c] + 1
      BY <1>3, <2>1, <2>2
    <2>4. CASE client[c].phase = "connecting"
      <3>1. client'[c] = [client[c] EXCEPT !.wait = @ - 1]
        BY <1>1, <2>4
      <3>2. client[c].wait > 0 /\ client[c].wait \in Nat
        BY <2>1, <2>4 DEF FlowsInTime, Clients
      <3>3. client[c].wait - 1 \in Nat
        BY <3>2
      <3> QED
        BY <2>1, <2>3, <3>1, <3>2, <3>3 DEF Clients
    <2>5. CASE client[c].phase # "connecting"
      <3>1. client'[c] = client[c]
        BY <1>1, <2>5
      <3> QED
        BY <2>1, <2>3, <2>5, <3>1 DEF Clients
    <2> QED
      BY <2>4, <2>5
  <1>7. FlowTypes'
    <2>1. recentFail' \in [Conns -> 0 .. FORGOTTEN] /\ client' \in [Conns -> Clients]
      BY <1>1, <1>6
    <2>2. open \in Seq(Conns) /\ counts \in [Counters -> Nat]
          /\ crowdedOut \subseteq Conns /\ answered \subseteq Conns /\ cutOff \subseteq Conns
      BY DEF FlowInv, FlowTypes
    <2> QED
      BY <1>1, <1>5, <2>1, <2>2 DEF FlowTypes
  <1>8. Unique'
    <2>1. Unique
      BY DEF FlowInv
    <2>2. \A i \in DOMAIN pending : pending'[i].conn = pending[i].conn
      BY <1>4 DEF Aged
    <2> QED
      BY <1>1, <1>5, <2>1, <2>2 DEF Unique
  <1>9. \A e \in Pend' : \E f \in Pend : Aged(e, f) /\ f.age <= TIMEOUT /\ f.age \in Nat
    <2> SUFFICES ASSUME NEW i \in DOMAIN pending
                 PROVE  \E f \in Pend : Aged(pending'[i], f) /\ f.age <= TIMEOUT /\ f.age \in Nat
      BY <1>5 DEF Pend
    <2>1. pending[i] \in Pend
      BY DEF Pend
    <2> QED
      BY <1>4, <2>1
  <1>10. \A f \in Pend : \E e \in Pend' : Aged(e, f)
    <2> SUFFICES ASSUME NEW i \in DOMAIN pending PROVE \E e \in Pend' : Aged(e, pending[i])
      BY DEF Pend
    <2>1. pending'[i] \in Pend'
      BY <1>5 DEF Pend
    <2> QED
      BY <1>4, <2>1
  <1>11. \A c \in Conns : recentFail'[c] \in Nat
    BY <1>3, <1>6
  <1>12. UNCHANGED <<open, counts, crowdedOut, answered, cutOff>>
    BY <1>1
  <1> QED
    BY <1>2, <1>6, <1>7, <1>8, <1>9, <1>10, <1>11, <1>12

LEMMA ElapseRecent ==
  ASSUME WireTypes, FlowInv, InTime, FlowsInTime, wire' = Travelled, FlowsElapse,
         NEW c, NEW a \in Int, NEW b \in Int, b = a + 1, NEW k, Recent(Pend, wire, c, a, k)
  PROVE  Recent(Pend', wire', c, b, k)
  <1>1. CASE \E e \in Pend : e.conn = c /\ e.age <= a
    <2>1. PICK f \in Pend : f.conn = c /\ f.age <= a
      BY <1>1
    <2>2. PICK e \in Pend' : Aged(e, f)
      BY ElapseKeeps
    <2>3. f.age \in Nat
      BY FlowFacts DEF FlowInv
    <2>4. e.conn = c /\ e.age <= b
      BY <2>1, <2>2, <2>3 DEF Aged
    <2> QED
      BY <2>4 DEF Recent
  <1>2. CASE \E j \in DOMAIN wire : j < k /\ IsSyn(wire[j], c) /\ wire[j].age <= a
    <2>1. PICK j \in DOMAIN wire : j < k /\ IsSyn(wire[j], c) /\ wire[j].age <= a
      BY <1>2
    <2>2. j \in DOMAIN wire' /\ IsSyn(wire'[j], c) /\ wire'[j].age <= b
      BY <2>1, ElapseKeeps DEF Older, IsSyn, Is
    <2> QED
      BY <2>1, <2>2 DEF Recent
  <1> QED
    BY <1>1, <1>2 DEF Recent

LEMMA ElapseFollowed ==
  ASSUME WireTypes, FlowInv, InTime, FlowsInTime, wire' = Travelled, FlowsElapse,
         NEW c \in Conns, NEW i, NEW a \in Nat, NEW b \in Nat, b <= a + 1, NEW d \in Int, Followed(wire, client[c], c, i, a, d)
  PROVE  Followed(wire', client'[c], c, i, b, d)
  <1>1. /\ Older(wire, wire') /\ client[c].wait \in Nat
        /\ client'[c].phase = client[c].phase /\ client'[c].tries = client[c].tries
        /\ client[c].phase = "connecting" => client'[c].wait = client[c].wait - 1
    BY ElapseKeeps
  <1> QED
    BY <1>1, FollowedAges

LEMMA FlowsElapseStep ==
  ASSUME WireTypes, FlowInv, InTime, FlowsInTime, wire' = Travelled, FlowsElapse
  PROVE  FlowInv'
  <1>0. /\ UNCHANGED <<open, counts, crowdedOut, answered, cutOff>> /\ Shown' = Shown /\ Failed' = Failed
        /\ DOMAIN wire' = DOMAIN wire /\ Len(wire') = Len(wire)
        /\ \A i \in DOMAIN wire : /\ wire'[i].kind = wire[i].kind /\ wire'[i].of = wire[i].of
                                  /\ wire[i].age \in Nat /\ wire'[i].age = wire[i].age + 1
        /\ \A c \in Conns : client'[c].phase = client[c].phase
        /\ Tried' = Tried /\ TIMEOUT \in Nat /\ LAG \in Int /\ Apart \in Int /\ REFAIL_WINDOW - 1 \in Int
    BY ElapseKeeps, FlowFacts DEF Shown, Failed, Older, Tried, FlowInv, Apart
  <1>1. \A e \in Pend' : \E f \in Pend : Aged(e, f) /\ f.age <= TIMEOUT /\ f.age \in Nat /\ f.conn \in Conns
    BY ElapseKeeps, FlowFacts DEF FlowInv
  <1>2. \A i \in DOMAIN wire : \A c : (IsSyn(wire'[i], c) <=> IsSyn(wire[i], c)) /\ (Is(wire'[i], Closing, c) <=> Is(wire[i], Closing, c))
    BY <1>0 DEF IsSyn, Is
  <1>3. \A i \in DOMAIN wire : wire[i].kind \in FlowPackets => wire[i].of \in Conns
    BY WireFacts
  <1>4. InSequence'
    <2>1. \A i, j \in DOMAIN wire' : i <= j => wire'[j].age <= wire'[i].age
      BY <1>0 DEF FlowInv, InSequence
    <2>2. ASSUME NEW e \in Pend', NEW j \in DOMAIN wire', IsSyn(wire'[j], e.conn) PROVE wire'[j].age <= e.age
      <3>1. PICK f \in Pend : Aged(e, f) /\ f.age \in Nat
        BY <1>1
      <3>2. j \in DOMAIN wire /\ IsSyn(wire[j], f.conn)
        BY <1>0, <1>2, <2>2, <3>1 DEF Aged
      <3>3. wire[j].age <= f.age
        BY <3>2 DEF FlowInv, InSequence
      <3> QED
        BY <1>0, <3>1, <3>2, <3>3 DEF Aged
    <2>3. \A e \in Pend' : e.age <= TIMEOUT + 1
      BY <1>0, <1>1 DEF Aged
    <2> QED
      BY <2>1, <2>2, <2>3 DEF InSequence
  <1>5. Known'
    <2>1. \A e \in Pend' : client'[e.conn].phase # "idle"
      BY <1>0, <1>1 DEF Aged, FlowInv, Known
    <2>2. \A i \in DOMAIN wire' : wire'[i].kind \in FlowPackets => client'[wire'[i].of].phase # "idle"
      BY <1>0, <1>3 DEF FlowInv, Known
    <2>3. \A c \in answered' : client'[c].phase \in {"open", "gone"}
      BY <1>0 DEF FlowInv, Known, FlowTypes
    <2> QED
      BY <2>1, <2>2, <2>3 DEF Known
  <1>6. Ended'
    <2>1. \A i \in DOMAIN wire : wire[i].kind \in {"synack"} \cup Closing => wire[i].kind \in FlowPackets
      BY DEF Closing, FlowPackets
    <2>2. ASSUME NEW i \in DOMAIN wire', wire'[i].kind \in {"synack"} \cup Closing
          PROVE  /\ client'[wire'[i].of].phase \in {"open", "gone"}
                 /\ \A j \in DOMAIN wire' : j > i => ~IsSyn(wire'[j], wire'[i].of)
                 /\ wire'[i].kind \in Closing => client'[wire'[i].of].phase = "gone"
      <3>1. i \in DOMAIN wire /\ wire[i].kind \in {"synack"} \cup Closing /\ wire[i].of \in Conns /\ wire'[i].of = wire[i].of
        BY <1>0, <1>3, <2>1, <2>2
      <3>2. /\ client[wire[i].of].phase \in {"open", "gone"}
            /\ \A j \in DOMAIN wire : j > i => ~IsSyn(wire[j], wire[i].of)
            /\ wire[i].kind \in Closing => client[wire[i].of].phase = "gone"
        BY <3>1 DEF FlowInv, Ended
      <3> QED
        BY <1>0, <1>2, <3>1, <3>2
    <2> QED
      BY <2>2 DEF Ended
  <1>7. Chained'
    <2>1. ASSUME NEW e \in Pend' PROVE Followed(wire', client'[e.conn], e.conn, 0, e.age, Apart)
      <3>1. PICK f \in Pend : Aged(e, f) /\ f.age \in Nat /\ f.conn \in Conns
        BY <1>1
      <3>2. Followed(wire, client[f.conn], f.conn, 0, f.age, Apart)
        BY DEF FlowInv, Chained
      <3>3. e.age \in Nat /\ e.age <= f.age + 1 /\ e.conn = f.conn
        BY <3>1 DEF Aged
      <3> QED
        BY <1>0, <3>1, <3>2, <3>3, ElapseFollowed
    <2>2. ASSUME NEW i \in DOMAIN wire', wire'[i].kind = "syn"
          PROVE  Followed(wire', client'[wire'[i].of], wire'[i].of, i, wire'[i].age, Apart)
      <3>1. i \in DOMAIN wire /\ wire[i].kind = "syn" /\ wire[i].of \in Conns /\ wire'[i].of = wire[i].of
            /\ wire[i].age \in Nat /\ wire'[i].age \in Nat /\ wire'[i].age <= wire[i].age + 1
        BY <1>0, <1>3, <2>2 DEF FlowPackets
      <3>2. Followed(wire, client[wire[i].of], wire[i].of, i, wire[i].age, Apart)
        BY <3>1 DEF FlowInv, Chained
      <3> QED
        BY <1>0, <3>1, <3>2, ElapseFollowed
    <2> QED
      BY <2>1, <2>2 DEF Chained
  <1>8. Failures'
    <2> SUFFICES ASSUME crowdedOut = {} PROVE \E F \in SUBSET Tried' : FailedSet(F)'
      BY <1>0 DEF Failures, FlowInv
    <2>1. PICK F \in SUBSET Tried : FailedSet(F)
      BY DEF FlowInv, Failures
    <2>2. /\ Failed <= Cardinality(F)
          /\ \A c \in F, e \in Pend : e.conn = c => e.refail
          /\ \A c \in F : \/ \E e \in Pend : e.conn = c
                          \/ Followed(wire, client[c], c, 0, recentFail[c], REFAIL_WINDOW - 1)
      BY <2>1 DEF FailedSet
    <2>3. \A c \in F, e \in Pend' : e.conn = c => e.refail
      BY <1>1, <2>2 DEF Aged
    <2>4. ASSUME NEW c \in F
          PROVE  \/ \E e \in Pend' : e.conn = c
                 \/ Followed(wire', client'[c], c, 0, recentFail'[c], REFAIL_WINDOW - 1)
      <3>1. c \in Conns
        BY DEF Tried
      <3>2. CASE \E e \in Pend : e.conn = c
        BY <3>2, ElapseKeeps DEF Aged
      <3>3. CASE Followed(wire, client[c], c, 0, recentFail[c], REFAIL_WINDOW - 1)
        <4>1. recentFail[c] \in Nat /\ recentFail'[c] \in Nat /\ recentFail'[c] <= recentFail[c] + 1
          BY <3>1, ElapseKeeps
        <4> QED
          BY <1>0, <3>1, <3>3, <4>1, ElapseFollowed
      <3> QED
        BY <2>2, <3>2, <3>3
    <2>5. FailedSet(F)'
      BY <1>0, <2>2, <2>3, <2>4 DEF FailedSet
    <2> QED
      BY <1>0, <2>5
  <1>9. Balance'
    <2>1. FlowTypes /\ FlowTypes' /\ Balance
      BY ElapseKeeps DEF FlowInv
    <2>2. /\ Attempts = {e.conn : e \in {f \in Pend : ~f.refail}}
          /\ Attempts' = {e.conn : e \in {f \in Pend' : ~f.refail}}
      BY DEF Attempts, Pend
    <2>3. Attempts' \subseteq Attempts
      BY <1>1, <2>2 DEF Aged
    <2>4. counts' \in [Counters -> Nat]
      BY <2>1 DEF FlowTypes
    <2> QED
      BY <1>0, <2>1, <2>3, <2>4, BalanceStays
  <1>10. Established'
    <2>1. PICK E \in SUBSET Tried : EstablishedSet(E)
      BY DEF FlowInv, Established
    <2>2. E \subseteq Conns
      BY DEF Tried
    <2>3. /\ \A c \in E : client'[c].phase \in {"open", "gone"}
          /\ \A c \in E, e \in Pend' : e.conn # c
          /\ \A c \in E, j \in DOMAIN wire' : ~IsSyn(wire'[j], c)
      BY <1>0, <1>1, <1>2, <2>1, <2>2 DEF EstablishedSet, Aged
    <2>4. EstablishedSet(E)'
      BY <1>0, <2>1, <2>3 DEF EstablishedSet
    <2> QED
      BY <1>0, <2>4 DEF Established
  <1>11. OpenTrue'
    <2>1. \A c \in Shown' : client'[c].phase = "open" \/ \E j \in DOMAIN wire' : Is(wire'[j], Closing, c)
      BY <1>0, <1>2, FlowFacts DEF FlowInv, OpenTrue
    <2>2. ASSUME NEW i \in DOMAIN wire', wire'[i].kind = "synack"
          PROVE  client'[wire'[i].of].phase = "open" \/ \E j \in DOMAIN wire' : j > i /\ Is(wire'[j], Closing, wire'[i].of)
      <3>1. i \in DOMAIN wire /\ wire[i].kind = "synack" /\ wire'[i].of = wire[i].of /\ wire[i].of \in Conns
        BY <1>0, <1>3, <2>2 DEF FlowPackets
      <3>2. client[wire[i].of].phase = "open" \/ \E j \in DOMAIN wire : j > i /\ Is(wire[j], Closing, wire[i].of)
        BY <3>1 DEF FlowInv, OpenTrue
      <3> QED
        BY <1>0, <1>2, <3>1, <3>2
    <2> QED
      BY <2>1, <2>2 DEF OpenTrue
  <1>12. Seen'
    <2> SUFFICES ASSUME NEW c \in Conns \ (cutOff \cup crowdedOut)
                 PROVE  /\ client'[c].phase = "connecting" /\ SinceSyn(c)' <= TIMEOUT =>
                             Recent(Pend', wire', c, SinceSyn(c)', Len(wire) + 1)
                        /\ client[c].phase = "open" /\ c \in answered /\ c \notin Shown =>
                             \E k \in DOMAIN wire : /\ Is(wire'[k], {"synack"}, c)
                                                    /\ Recent(Pend', wire', c, TIMEOUT - LAG + wire'[k].age, k)
      BY <1>0 DEF Seen
    <2>1. ASSUME client'[c].phase = "connecting", SinceSyn(c)' <= TIMEOUT
          PROVE  Recent(Pend', wire', c, SinceSyn(c)', Len(wire) + 1)
      <3>1. /\ client[c].phase = "connecting" /\ client[c].wait \in Nat
            /\ client'[c].tries = client[c].tries /\ client'[c].wait = client[c].wait - 1
        BY <1>0, <2>1, ElapseKeeps
      <3>2. Interval[client[c].tries] \in Nat
        <4>1. client[c] \in Clients
          BY DEF FlowInv, FlowTypes
        <4> QED
          BY <4>1, FlowsAssumption DEF Clients
      <3>3. SinceSyn(c)' = SinceSyn(c) + 1 /\ SinceSyn(c) \in Int /\ SinceSyn(c)' \in Int
        BY <3>1, <3>2 DEF SinceSyn
      <3>4. SinceSyn(c) <= TIMEOUT
        BY <1>0, <2>1, <3>3
      <3>5. Recent(Pend, wire, c, SinceSyn(c), Len(wire) + 1)
        BY <3>1, <3>4 DEF FlowInv, Seen
      <3> QED
        BY <3>3, <3>5, ElapseRecent
    <2>2. ASSUME client[c].phase = "open", c \in answered, c \notin Shown
          PROVE  \E k \in DOMAIN wire : /\ Is(wire'[k], {"synack"}, c)
                                        /\ Recent(Pend', wire', c, TIMEOUT - LAG + wire'[k].age, k)
      <3>1. PICK k \in DOMAIN wire : /\ Is(wire[k], {"synack"}, c)
                                     /\ Recent(Pend, wire, c, TIMEOUT - LAG + wire[k].age, k)
        BY <2>2 DEF FlowInv, Seen
      <3>2. /\ TIMEOUT - LAG + wire[k].age \in Int /\ TIMEOUT - LAG + wire'[k].age \in Int
            /\ TIMEOUT - LAG + wire'[k].age = (TIMEOUT - LAG + wire[k].age) + 1
        BY <1>0
      <3>3. Is(wire'[k], {"synack"}, c)
        BY <1>0, <3>1 DEF Is
      <3> QED
        BY <3>1, <3>2, <3>3, ElapseRecent
    <2> QED
      BY <2>1, <2>2
  <1>13. FlowTypes' /\ Unique'
    BY ElapseKeeps
  <1> QED
    BY <1>4, <1>5, <1>6, <1>7, <1>8, <1>9, <1>10, <1>11, <1>12, <1>13 DEF FlowInv
-----------------------------------------------------------------------------
(* The handshake tracker: the hosts.                                        *)

\* What a host does leaves the tracker alone; p is what is captured, if anything.
Hosted(c, p) ==
  /\ Longer(wire, wire', p) \/ (UNCHANGED wire /\ p.kind \notin FlowPackets)
  /\ p.age = 0 /\ (p.kind \in FlowPackets => p.of = c)
  /\ UNCHANGED <<trackerVars, cutOff>>
  /\ client' \in [Conns -> Clients] /\ \A d \in Conns \ {c} : client'[d] = client[d]

LEMMA HostedFacts ==
  ASSUME WireTypes, WireTypes', FlowInv, NEW c, NEW p, Hosted(c, p), answered' \subseteq Conns
  PROVE  /\ UNCHANGED <<pending, recentFail, open, counts, crowdedOut, cutOff>>
         /\ Pend' = Pend /\ Shown' = Shown /\ Failed' = Failed /\ Attempts' = Attempts
         /\ FlowTypes' /\ Unique' /\ Balance'
         /\ Extends(wire, wire', p)
         /\ \A i \in DOMAIN wire : i \in Nat /\ wire[i].age \in Nat /\ i < Len(wire) + 1 /\ i < Len(wire') + 1
                                   /\ i \in DOMAIN wire' /\ wire'[i] = wire[i]
         /\ \A i \in DOMAIN wire' : i \in DOMAIN wire \/ (i = Len(wire) + 1 /\ wire'[i] = p)
         /\ p.kind \in FlowPackets => Longer(wire, wire', p)
         /\ \A d \in Conns : client[d].wait \in Nat /\ recentFail[d] \in Nat
         /\ \A e \in Pend : e.conn \in Conns /\ e.age \in Nat
         /\ Apart \in Int /\ REFAIL_WINDOW - 1 \in Int /\ TIMEOUT \in Nat /\ LAG \in Nat
         /\ Len(wire) + 1 \in Nat
  <1>1. UNCHANGED <<pending, recentFail, open, counts, crowdedOut, cutOff>>
    BY DEF Hosted, trackerVars
  <1>2. Pend' = Pend /\ Shown' = Shown /\ Failed' = Failed /\ Attempts' = Attempts
    BY <1>1 DEF Pend, Shown, Failed, Attempts
  <1>3. FlowTypes' /\ Unique' /\ Balance'
    BY <1>1, <1>2 DEF Hosted, FlowInv, FlowTypes, Unique, Balance
  <1>4. /\ \A i \in DOMAIN wire : i \in DOMAIN wire' /\ wire'[i] = wire[i]
        /\ \A i \in DOMAIN wire' : i \in DOMAIN wire \/ (i = Len(wire) + 1 /\ wire'[i] = p)
    BY DEF Hosted, Longer
  <1>5. /\ \A i \in DOMAIN wire : i \in Nat /\ wire[i].age \in Nat /\ i < Len(wire) + 1
        /\ \A i \in DOMAIN wire' : i \in Nat /\ i < Len(wire') + 1
        /\ Len(wire) + 1 \in Nat
    <2>1. /\ DOMAIN wire = 1 .. Len(wire) /\ Len(wire) \in Nat /\ \A i \in DOMAIN wire : wire[i].age \in 0 .. LAG
          /\ LAG \in Nat
      BY WireFacts
    <2>2. DOMAIN wire' = 1 .. Len(wire') /\ Len(wire') \in Nat
      BY DEF WireTypes
    <2> QED
      BY <2>1, <2>2
  <1>6. \A d \in Conns : client[d].wait \in Nat /\ recentFail[d] \in Nat
    <2>1. FORGOTTEN \in Nat /\ recentFail \in [Conns -> 0 .. FORGOTTEN] /\ client \in [Conns -> Clients]
      BY FlowFacts DEF FlowInv, FlowTypes, FORGOTTEN, STALE
    <2> QED
      BY <2>1 DEF Clients
  <1>7. p.kind \in FlowPackets => Longer(wire, wire', p)
    BY DEF Hosted
  <1>8. /\ \A e \in Pend : e.conn \in Conns /\ e.age \in Nat
        /\ Apart \in Int /\ REFAIL_WINDOW - 1 \in Int /\ TIMEOUT \in Nat /\ LAG \in Nat
    BY FlowFacts DEF FlowInv, Apart
  <1>9. Extends(wire, wire', p)
    BY <1>4 DEF Extends
  <1> QED
    BY <1>1, <1>2, <1>3, <1>4, <1>5, <1>6, <1>7, <1>8, <1>9

\* The order of the wire, whatever is captured.
LEMMA HostedOrder ==
  ASSUME WireTypes, WireTypes', FlowInv, NEW c, NEW p, Hosted(c, p), answered' \subseteq Conns
  PROVE  InSequence'
  <1>1. ASSUME NEW i \in DOMAIN wire', NEW j \in DOMAIN wire', i <= j PROVE wire'[j].age <= wire'[i].age
    <2>1. CASE j \in DOMAIN wire
      <3>1. i \in DOMAIN wire
        BY <1>1, <2>1, HostedFacts
      <3> QED
        BY <1>1, <2>1, <3>1, HostedFacts DEF FlowInv, InSequence
    <2>2. CASE wire'[j].age = 0
      <3>1. wire'[i].age \in Nat
        <4>1. i \in DOMAIN wire \/ wire'[i] = p
          BY HostedFacts
        <4>2. \A k \in DOMAIN wire : wire'[k].age \in Nat
          BY HostedFacts
        <4> QED
          BY <4>1, <4>2 DEF Hosted
      <3> QED
        BY <2>2, <3>1
    <2> QED
      BY <2>1, <2>2, HostedFacts DEF Hosted
  <1>2. ASSUME NEW e \in Pend, NEW j \in DOMAIN wire', IsSyn(wire'[j], e.conn) PROVE wire'[j].age <= e.age
    <2>1. CASE j \in DOMAIN wire
      BY <1>2, <2>1, HostedFacts DEF FlowInv, InSequence
    <2>2. CASE wire'[j].age = 0
      <3>1. e.age \in Nat
        BY HostedFacts
      <3> QED
        BY <2>2, <3>1
    <2> QED
      BY <2>1, <2>2, HostedFacts DEF Hosted
  <1>3. \A e \in Pend : e.age <= TIMEOUT + 1
    BY DEF FlowInv, InSequence
  <1> QED
    BY <1>1, <1>2, <1>3, HostedFacts DEF InSequence

\* A host's client c sends a SYN, its first or its next.
Starts(c, p) ==
  /\ Hosted(c, p) /\ answered' = answered
  /\ IsSyn(p, c)
  /\ \/ client[c].phase = "idle" /\ client'[c].tries = 0
     \/ Retries(client[c]) /\ client[c].wait = 0
  /\ client'[c].phase = "connecting" /\ client'[c].wait = Interval[client'[c].tries]

LEMMA StartsFacts ==
  ASSUME WireTypes, WireTypes', FlowInv, NEW c \in Conns, NEW p, Starts(c, p)
  PROVE  /\ Hosted(c, p) /\ answered' \subseteq Conns /\ answered' = answered
         /\ Longer(wire, wire', p) /\ p.age = 0 /\ p.kind = "syn" /\ p.of = c
         /\ client[c].phase \in {"idle", "connecting"}
         /\ \A i \in DOMAIN wire : wire[i].kind \in {"synack"} \cup Closing => wire[i].of # c
         /\ client[c].phase = "idle" => /\ \A i \in DOMAIN wire : wire[i].kind \in FlowPackets => wire[i].of # c
                                        /\ \A e \in Pend : e.conn # c
         /\ Retries(client'[c]) => 0 + client'[c].wait <= Apart
         /\ Tried' = Tried \cup {c} /\ SinceSyn(c)' = 0
  <1>1. Hosted(c, p) /\ answered' = answered /\ p.kind = "syn" /\ p.of = c /\ client[c].phase \in {"idle", "connecting"}
    BY DEF Starts, IsSyn, Is, Retries
  <1>2. answered' \subseteq Conns /\ client \in [Conns -> Clients] /\ client' \in [Conns -> Clients]
    BY <1>1 DEF FlowInv, FlowTypes, Hosted
  <1>3. Longer(wire, wire', p) /\ p.age = 0
    BY <1>1, <1>2, HostedFacts DEF Hosted, FlowPackets
  <1>4. \A i \in DOMAIN wire : wire[i].kind \in {"synack"} \cup Closing => wire[i].of # c
    BY <1>1 DEF FlowInv, Ended
  <1>5. client[c].phase = "idle" => /\ \A i \in DOMAIN wire : wire[i].kind \in FlowPackets => wire[i].of # c
                                    /\ \A e \in Pend : e.conn # c
    BY DEF FlowInv, Known
  <1>6. client'[c].tries \in 0 .. RETRIES /\ RETRIES \in Nat /\ Interval[client'[c].tries] \in Nat
    <2>1. client'[c] \in Clients
      BY <1>2
    <2>2. client'[c].tries \in 0 .. RETRIES
      BY <2>1 DEF Clients
    <2> QED
      BY <2>2, FlowsAssumption
  <1>7. ASSUME Retries(client'[c]) PROVE 0 + client'[c].wait <= Apart
    <2>1. client'[c].tries \in 0 .. RETRIES - 1 /\ client'[c].wait = Interval[client'[c].tries]
      BY <1>6, <1>7 DEF Retries, Starts
    <2>2. Interval[client'[c].tries] - TIMEOUT - 1 < REFAIL_WINDOW
      BY <2>1, FlowsAssumption
    <2> QED
      BY <1>6, <2>1, <2>2, FlowsAssumption DEF Apart
  <1>8. Tried' = Tried \cup {c}
    BY <1>1 DEF Tried, Hosted, Starts
  <1>9. SinceSyn(c)' = 0
    BY <1>6 DEF SinceSyn, Starts
  <1> QED
    BY <1>1, <1>2, <1>3, <1>4, <1>5, <1>7, <1>8, <1>9

LEMMA StartsFollowed ==
  ASSUME WireTypes, WireTypes', FlowInv, NEW c \in Conns, NEW p, Starts(c, p),
         NEW d \in Conns, d # c \/ client[c].phase # "idle", NEW i, i < Len(wire) + 1,
         NEW a \in Nat, NEW b, Followed(wire, client[d], d, i, a, b)
  PROVE  Followed(wire', client'[d], d, i, a, b)
  <1>1. CASE d # c
    <2>1. client'[d] = client[d] /\ Extends(wire, wire', p) /\ ~IsSyn(p, d)
      BY <1>1, StartsFacts, HostedFacts DEF Hosted, IsSyn, Is
    <2> QED
      BY <2>1, FollowedStill
  <1>2. CASE d = c
    <2>1. Retries(client[c]) /\ client[c].wait = 0 /\ Longer(wire, wire', p) /\ p.age = 0 /\ IsSyn(p, c)
      BY <1>2, StartsFacts DEF Starts
    <2> QED
      BY <1>2, <2>1, FollowedBySyn
  <1> QED
    BY <1>1, <1>2

LEMMA StartsOrder ==
  ASSUME WireTypes, WireTypes', FlowInv, NEW c \in Conns, NEW p, Starts(c, p)
  PROVE  Known' /\ Ended' /\ Chained'
  <1>0. /\ Pend' = Pend /\ answered' = answered /\ client'[c].phase = "connecting"
        /\ \A d \in Conns \ {c} : client'[d] = client[d]
        /\ \A d \in Conns : client[d].phase # "idle" => client'[d].phase # "idle"
        /\ \A i \in DOMAIN wire : wire'[i] = wire[i] /\ i \in DOMAIN wire' /\ i < Len(wire) + 1 /\ i \in Nat
        /\ \A i \in DOMAIN wire' : i \in DOMAIN wire \/ (i = Len(wire) + 1 /\ wire'[i] = p)
        /\ \A e \in Pend : e.conn \in Conns /\ e.age \in Nat
        /\ \A i \in DOMAIN wire : wire[i].kind \in FlowPackets => wire[i].of \in Conns
        /\ \A i \in DOMAIN wire : wire[i].age \in Nat
    <2>1. Hosted(c, p) /\ answered' \subseteq Conns
      BY StartsFacts
    <2>2. /\ Pend' = Pend /\ \A e \in Pend : e.conn \in Conns /\ e.age \in Nat
          /\ \A i \in DOMAIN wire : wire'[i] = wire[i] /\ i \in DOMAIN wire' /\ i < Len(wire) + 1 /\ i \in Nat /\ wire[i].age \in Nat
          /\ \A i \in DOMAIN wire' : i \in DOMAIN wire \/ (i = Len(wire) + 1 /\ wire'[i] = p)
      BY <2>1, HostedFacts
    <2>3. \A i \in DOMAIN wire : wire[i].kind \in FlowPackets => wire[i].of \in Conns
      BY WireFacts
    <2>4. answered' = answered /\ client'[c].phase = "connecting" /\ \A d \in Conns \ {c} : client'[d] = client[d]
      BY <2>1 DEF Hosted, Starts
    <2> QED
      BY <2>2, <2>3, <2>4
  <1>1. Known'
    <2>1. \A e \in Pend' : client'[e.conn].phase # "idle"
      BY <1>0 DEF FlowInv, Known
    <2>2. \A i \in DOMAIN wire' : wire'[i].kind \in FlowPackets => client'[wire'[i].of].phase # "idle"
      BY <1>0, StartsFacts DEF FlowInv, Known
    <2>3. \A d \in answered' : client'[d].phase \in {"open", "gone"}
      <3>1. \A d \in answered : d \in Conns /\ client[d].phase \in {"open", "gone"}
        BY DEF FlowInv, Known, FlowTypes
      <3> QED
        BY <1>0, <3>1, StartsFacts
    <2> QED
      BY <2>1, <2>2, <2>3 DEF Known
  <1>2. Ended'
    <2> SUFFICES ASSUME NEW i \in DOMAIN wire', wire'[i].kind \in {"synack"} \cup Closing
                 PROVE  /\ client'[wire'[i].of].phase \in {"open", "gone"}
                        /\ \A j \in DOMAIN wire' : j > i => ~IsSyn(wire'[j], wire'[i].of)
                        /\ wire'[i].kind \in Closing => client'[wire'[i].of].phase = "gone"
      BY DEF Ended
    <2>1. i \in DOMAIN wire /\ wire'[i] = wire[i]
      BY <1>0, StartsFacts DEF Closing
    <2>2. wire[i].of \in Conns \ {c}
      BY <1>0, <2>1, StartsFacts DEF Closing, FlowPackets
    <2>3. /\ client[wire[i].of].phase \in {"open", "gone"}
          /\ \A j \in DOMAIN wire : j > i => ~IsSyn(wire[j], wire[i].of)
          /\ wire[i].kind \in Closing => client[wire[i].of].phase = "gone"
      BY <2>1 DEF FlowInv, Ended
    <2>4. ~IsSyn(p, wire[i].of)
      BY <2>2, StartsFacts DEF IsSyn, Is
    <2>5. \A j \in DOMAIN wire' : j > i => ~IsSyn(wire'[j], wire'[i].of)
      BY <1>0, <2>1, <2>3, <2>4
    <2> QED
      BY <1>0, <2>1, <2>2, <2>3, <2>5
  <1>3. Chained'
    <2>1. ASSUME NEW e \in Pend PROVE Followed(wire', client'[e.conn], e.conn, 0, e.age, Apart)
      <3>1. e.conn # c \/ client[c].phase # "idle"
        BY StartsFacts
      <3>2. 0 < Len(wire) + 1
        BY WireFacts
      <3>3. Followed(wire, client[e.conn], e.conn, 0, e.age, Apart)
        BY DEF FlowInv, Chained
      <3> QED
        BY <1>0, <3>1, <3>2, <3>3, StartsFollowed
    <2>2. ASSUME NEW i \in DOMAIN wire, wire[i].kind = "syn" PROVE Followed(wire', client'[wire[i].of], wire[i].of, i, wire[i].age, Apart)
      <3>1. wire[i].of \in Conns /\ wire[i].age \in Nat /\ (wire[i].of # c \/ client[c].phase # "idle")
        BY <1>0, <2>2, StartsFacts DEF FlowPackets
      <3>2. Followed(wire, client[wire[i].of], wire[i].of, i, wire[i].age, Apart)
        BY <2>2 DEF FlowInv, Chained
      <3> QED
        BY <1>0, <3>1, <3>2, StartsFollowed
    <2>3. Followed(wire', client'[c], c, Len(wire) + 1, 0, Apart)
      <3>1. CASE Retries(client'[c])
        BY <3>1, StartsFacts DEF Followed
      <3>2. CASE ~Retries(client'[c])
        <4>1. \A j \in DOMAIN wire' : ~(j > Len(wire) + 1)
          BY <1>0, WireFacts
        <4> QED
          BY <3>2, <4>1 DEF Followed
      <3> QED
        BY <3>1, <3>2
    <2>4. \A i \in DOMAIN wire' : wire'[i].kind = "syn" =>
            Followed(wire', client'[wire'[i].of], wire'[i].of, i, wire'[i].age, Apart)
      BY <1>0, <2>2, <2>3, StartsFacts
    <2> QED
      BY <1>0, <2>1, <2>4 DEF Chained
  <1> QED
    BY <1>1, <1>2, <1>3

LEMMA StartsCounts ==
  ASSUME WireTypes, WireTypes', FlowInv, NEW c \in Conns, NEW p, Starts(c, p)
  PROVE  Failures' /\ Established'
  <1>0. /\ Pend' = Pend /\ Failed' = Failed /\ UNCHANGED <<recentFail, counts, crowdedOut>>
        /\ Tried' = Tried \cup {c} /\ IsFiniteSet(Tried)
        /\ \A d \in Conns \ {c} : client'[d] = client[d]
        /\ \A i \in DOMAIN wire' : (i \in DOMAIN wire /\ wire'[i] = wire[i]) \/ wire'[i] = p
        /\ \A d \in Conns : recentFail[d] \in Nat
    <2>1. Hosted(c, p) /\ answered' \subseteq Conns
      BY StartsFacts
    <2>2. /\ Pend' = Pend /\ Failed' = Failed /\ UNCHANGED <<recentFail, counts, crowdedOut>>
          /\ \A i \in DOMAIN wire' : i \in DOMAIN wire \/ wire'[i] = p
          /\ \A i \in DOMAIN wire : wire'[i] = wire[i]
          /\ \A d \in Conns : recentFail[d] \in Nat
      BY <2>1, HostedFacts
    <2>3. Tried' = Tried \cup {c} /\ IsFiniteSet(Tried)
      BY StartsFacts DEF FlowInv, Failures
    <2>4. \A d \in Conns \ {c} : client'[d] = client[d]
      BY <2>1 DEF Hosted
    <2> QED
      BY <2>2, <2>3, <2>4
  <1>1. IsFiniteSet(Tried')
    BY <1>0, FS_AddElement
  <1>2. ASSUME crowdedOut = {} PROVE \E F \in SUBSET Tried' : FailedSet(F)'
    <2>1. PICK F \in SUBSET Tried : FailedSet(F)
      BY <1>2 DEF FlowInv, Failures
    <2>2. ASSUME NEW d \in F, Followed(wire, client[d], d, 0, recentFail[d], REFAIL_WINDOW - 1)
          PROVE  Followed(wire', client'[d], d, 0, recentFail[d], REFAIL_WINDOW - 1)
      <3>1. d \in Conns /\ client[d].phase # "idle" /\ 0 < Len(wire) + 1
        BY WireFacts DEF Tried
      <3> QED
        BY <1>0, <2>2, <3>1, StartsFollowed
    <2>3. FailedSet(F)'
      BY <1>0, <2>1, <2>2 DEF FailedSet
    <2> QED
      BY <1>0, <2>3
  <1>3. PICK E \in SUBSET Tried : EstablishedSet(E)
    BY DEF FlowInv, Established
  <1>4. c \notin E /\ E \subseteq Conns
    BY <1>3, StartsFacts DEF EstablishedSet, Tried
  <1>5. \A d \in E, j \in DOMAIN wire' : ~IsSyn(wire'[j], d)
    <2>1. \A d \in E : ~IsSyn(p, d)
      BY <1>4, StartsFacts DEF IsSyn, Is
    <2> QED
      BY <1>0, <1>3, <2>1 DEF EstablishedSet
  <1>6. EstablishedSet(E)'
    BY <1>0, <1>3, <1>4, <1>5 DEF EstablishedSet
  <1> QED
    BY <1>0, <1>1, <1>2, <1>6 DEF Failures, Established

LEMMA StartsSeen ==
  ASSUME WireTypes, WireTypes', FlowInv, NEW c \in Conns, NEW p, Starts(c, p)
  PROVE  OpenTrue' /\ Seen'
  <1>0. /\ Pend' = Pend /\ Shown' = Shown /\ UNCHANGED <<answered, cutOff, crowdedOut>>
        /\ client'[c].phase = "connecting"
        /\ \A d \in Conns \ {c} : client'[d] = client[d]
        /\ \A i \in DOMAIN wire : wire'[i] = wire[i] /\ i \in DOMAIN wire' /\ i < Len(wire') + 1 /\ i \in Nat /\ wire[i].age \in Nat
        /\ \A i \in DOMAIN wire' : (i \in DOMAIN wire /\ wire'[i] = wire[i]) \/ wire'[i] = p
        /\ \A i \in DOMAIN wire : wire[i].kind \in FlowPackets => wire[i].of \in Conns
        /\ \A e \in Pend : e.age \in Nat
        /\ Shown \subseteq Conns /\ Extends(wire, wire', p) /\ TIMEOUT \in Nat /\ LAG \in Nat
    <2>1. Hosted(c, p) /\ answered' \subseteq Conns
      BY StartsFacts
    <2>2. /\ Pend' = Pend /\ Shown' = Shown /\ UNCHANGED <<cutOff, crowdedOut>>
          /\ \A i \in DOMAIN wire : wire'[i] = wire[i] /\ i \in DOMAIN wire' /\ i < Len(wire') + 1 /\ i \in Nat /\ wire[i].age \in Nat
          /\ \A i \in DOMAIN wire' : i \in DOMAIN wire \/ wire'[i] = p
          /\ \A e \in Pend : e.age \in Nat
          /\ Extends(wire, wire', p) /\ TIMEOUT \in Nat /\ LAG \in Nat
      BY <2>1, HostedFacts
    <2>3. \A i \in DOMAIN wire : wire[i].kind \in FlowPackets => wire[i].of \in Conns
      BY WireFacts
    <2>4. answered' = answered /\ client'[c].phase = "connecting" /\ \A d \in Conns \ {c} : client'[d] = client[d]
      BY <2>1 DEF Hosted, Starts
    <2>5. Shown \subseteq Conns
      BY FlowFacts DEF FlowInv
    <2> QED
      BY <2>2, <2>3, <2>4, <2>5
  <1>1. ASSUME NEW d \in Shown PROVE client'[d].phase = "open" \/ \E j \in DOMAIN wire' : Is(wire'[j], Closing, d)
    <2>1. client[d].phase = "open" \/ \E j \in DOMAIN wire : Is(wire[j], Closing, d)
      BY DEF FlowInv, OpenTrue
    <2>2. client[d].phase = "open" => d # c
      BY StartsFacts
    <2> QED
      BY <1>0, <2>1, <2>2
  <1>2. ASSUME NEW i \in DOMAIN wire', wire'[i].kind = "synack"
        PROVE  client'[wire'[i].of].phase = "open" \/ \E j \in DOMAIN wire' : j > i /\ Is(wire'[j], Closing, wire'[i].of)
    <2>1. i \in DOMAIN wire /\ wire'[i] = wire[i]
      BY <1>0, <1>2, StartsFacts
    <2>2. wire[i].of \in Conns \ {c}
      BY <1>0, <1>2, <2>1, StartsFacts DEF FlowPackets
    <2>3. client[wire[i].of].phase = "open" \/ \E j \in DOMAIN wire : j > i /\ Is(wire[j], Closing, wire[i].of)
      BY <1>2, <2>1 DEF FlowInv, OpenTrue
    <2> QED
      BY <1>0, <2>1, <2>2, <2>3
  <1>3. ASSUME NEW d \in Conns, client'[d].phase = "connecting", SinceSyn(d)' <= TIMEOUT, d \notin cutOff \cup crowdedOut
        PROVE  Recent(Pend, wire', d, SinceSyn(d)', Len(wire') + 1)
    <2>1. CASE d = c
      <3>1. Len(wire) + 1 \in DOMAIN wire' /\ wire'[Len(wire) + 1] = p /\ Len(wire') = Len(wire) + 1 /\ Len(wire) \in Nat
        BY StartsFacts, WireFacts DEF Longer
      <3>2. Len(wire) + 1 < Len(wire') + 1 /\ IsSyn(p, d) /\ p.age <= SinceSyn(d)'
        BY <2>1, <3>1, StartsFacts DEF IsSyn, Is
      <3> QED
        BY <3>1, <3>2 DEF Recent
    <2>2. CASE d # c
      <3>1. client'[d] = client[d] /\ SinceSyn(d)' = SinceSyn(d)
        BY <1>0, <2>2 DEF SinceSyn
      <3>2. Recent(Pend, wire, d, SinceSyn(d), Len(wire) + 1)
        BY <1>3, <3>1 DEF FlowInv, Seen
      <3>3. SinceSyn(d) \in Int
        <4>1. client[d] \in Clients
          BY DEF FlowInv, FlowTypes
        <4>2. client[d].tries \in 0 .. RETRIES /\ client[d].wait \in Nat
          BY <4>1 DEF Clients
        <4> QED
          BY <4>2, FlowsAssumption DEF SinceSyn
      <3> QED
        BY <1>0, <3>1, <3>2, <3>3, RecentStill
    <2> QED
      BY <2>1, <2>2
  <1>4. ASSUME NEW d \in Conns, client'[d].phase = "open", d \in answered, d \notin Shown, d \notin cutOff \cup crowdedOut
        PROVE  \E k \in DOMAIN wire' : /\ Is(wire'[k], {"synack"}, d)
                                       /\ Recent(Pend, wire', d, TIMEOUT - LAG + wire'[k].age, k)
    <2>1. client[d].phase = "open"
      BY <1>0, <1>4
    <2>2. PICK k \in DOMAIN wire : /\ Is(wire[k], {"synack"}, d)
                                   /\ Recent(Pend, wire, d, TIMEOUT - LAG + wire[k].age, k)
      BY <1>4, <2>1 DEF FlowInv, Seen
    <2>3. TIMEOUT - LAG + wire[k].age \in Int
      BY <1>0
    <2>4. Recent(Pend, wire', d, TIMEOUT - LAG + wire[k].age, k)
      BY <1>0, <2>2, <2>3, RecentStill
    <2> QED
      BY <1>0, <2>2, <2>4
  <1> QED
    BY <1>0, <1>1, <1>2, <1>3, <1>4 DEF OpenTrue, Seen

LEMMA StartsStep ==
  ASSUME WireTypes, WireTypes', FlowInv, NEW c \in Conns, NEW p, Starts(c, p)
  PROVE  FlowInv'
  <1>1. FlowTypes' /\ Unique' /\ Balance' /\ InSequence'
    BY StartsFacts, HostedFacts, HostedOrder
  <1> QED
    BY <1>1, StartsOrder, StartsCounts, StartsSeen DEF FlowInv

\* Anything else: an answer, an end, a packet that concerns no connection.
Ends(c, p) ==
  /\ Hosted(c, p) /\ p.kind # "syn"
  /\ \/ p.kind \notin FlowPackets /\ client' = client /\ answered' = answered
     \/ /\ c \in Conns
        /\ client[c].phase \in {"connecting", "open"} /\ client'[c].phase \in {"open", "gone"}
        /\ client'[c].phase = "open" => p.kind = "synack"
        /\ p.kind = "synack" => client'[c].phase = "open"
        /\ client[c].phase = "open" /\ client'[c].phase = "gone" => p.kind \in Closing
        /\ \/ answered' = answered
           \/ /\ answered' = answered \cup {c} /\ p.kind = "synack"
              /\ client[c].phase = "connecting" /\ SinceSyn(c) + LAG <= TIMEOUT

LEMMA EndsFacts ==
  ASSUME WireTypes, WireTypes', FlowInv, NEW c, NEW p, Ends(c, p)
  PROVE  /\ Hosted(c, p) /\ answered' \subseteq Conns
         /\ \A d : ~IsSyn(p, d)
         /\ \A d \in Conns : \/ client'[d] = client[d]
                             \/ d = c /\ client[d].phase \in {"connecting", "open"} /\ client'[d].phase \in {"open", "gone"}
         /\ \A d \in Conns : /\ client[d].phase # "idle" <=> client'[d].phase # "idle"
                             /\ client[d].phase \in {"open", "gone"} => client'[d].phase \in {"open", "gone"}
                             /\ client[d].phase = "gone" => client'[d].phase = "gone"
                             /\ client'[d].phase = "connecting" => client'[d] = client[d]
                             /\ client'[d] = client[d] \/ ~Retries(client'[d])
         /\ p.kind \in {"synack"} \cup Closing => p.of \in Conns /\ p.of = c /\ client'[p.of].phase \in {"open", "gone"}
         /\ p.kind = "synack" => client'[p.of].phase = "open"
         /\ p.kind \in Closing => client'[p.of].phase = "gone"
         /\ \A d \in Conns : client[d].phase = "open" => client'[d].phase = "open" \/ Is(p, Closing, d)
         /\ Tried' = Tried
         /\ \A d \in answered' : client'[d].phase \in {"open", "gone"}
  <1>1. /\ Hosted(c, p) /\ p.kind # "syn" /\ \A d \in Conns \ {c} : client'[d] = client[d]
        /\ p.kind \in FlowPackets => p.of = c
    BY DEF Ends, Hosted
  <1>2. \A d : ~IsSyn(p, d)
    BY <1>1 DEF IsSyn, Is
  <1>3. answered \subseteq Conns /\ \A d \in answered : client[d].phase \in {"open", "gone"}
    BY DEF FlowInv, FlowTypes, Known
  <1>4. {"synack"} \cup Closing \subseteq FlowPackets /\ "synack" \notin Closing
    BY DEF Closing, FlowPackets
  <1>5. CASE p.kind \notin FlowPackets /\ client' = client /\ answered' = answered
    <2>1. Tried' = Tried
      BY <1>5 DEF Tried
    <2> QED
      BY <1>1, <1>2, <1>3, <1>4, <1>5, <2>1
  <1>6. CASE /\ c \in Conns
             /\ client[c].phase \in {"connecting", "open"} /\ client'[c].phase \in {"open", "gone"}
             /\ client'[c].phase = "open" => p.kind = "synack"
             /\ p.kind = "synack" => client'[c].phase = "open"
             /\ client[c].phase = "open" /\ client'[c].phase = "gone" => p.kind \in Closing
             /\ answered' = answered \/ answered' = answered \cup {c}
    <2>1. answered' \subseteq Conns /\ \A d \in answered' : client'[d].phase \in {"open", "gone"}
      BY <1>1, <1>3, <1>6
    <2>2. Tried' = Tried
      BY <1>1, <1>6 DEF Tried
    <2>3. ASSUME NEW d \in Conns
          PROVE  /\ \/ client'[d] = client[d]
                    \/ d = c /\ client[d].phase \in {"connecting", "open"} /\ client'[d].phase \in {"open", "gone"}
                 /\ client[d].phase # "idle" <=> client'[d].phase # "idle"
                 /\ client[d].phase \in {"open", "gone"} => client'[d].phase \in {"open", "gone"}
                 /\ client[d].phase = "gone" => client'[d].phase = "gone"
                 /\ client'[d].phase = "connecting" => client'[d] = client[d]
                 /\ client'[d] = client[d] \/ ~Retries(client'[d])
      BY <1>1, <1>6 DEF Retries
    <2>4. p.kind \in Closing => client'[c].phase = "gone"
      BY <1>4, <1>6
    <2>5. ASSUME NEW d \in Conns, client[d].phase = "open" PROVE client'[d].phase = "open" \/ Is(p, Closing, d)
      BY <1>1, <1>4, <1>6, <2>5 DEF Is
    <2> QED
      BY <1>1, <1>2, <1>4, <1>6, <2>1, <2>2, <2>3, <2>4, <2>5
  <1> QED
    BY <1>5, <1>6 DEF Ends

LEMMA EndsFollowed ==
  ASSUME WireTypes, WireTypes', FlowInv, NEW c, NEW p, Ends(c, p),
         NEW d \in Conns, NEW i, NEW a \in Nat, NEW b \in Int, Followed(wire, client[d], d, i, a, b)
  PROVE  Followed(wire', client'[d], d, i, a, b)
  <1>1. /\ Extends(wire, wire', p) /\ ~IsSyn(p, d) /\ client[d].wait \in Nat
        /\ client'[d] = client[d] \/ ~Retries(client'[d])
        /\ \A j \in DOMAIN wire : wire[j].age \in Nat
    BY EndsFacts, HostedFacts
  <1> QED
    BY <1>1, FollowedStill, FollowedEnds

LEMMA EndsOrder ==
  ASSUME WireTypes, WireTypes', FlowInv, NEW c, NEW p, Ends(c, p)
  PROVE  Known' /\ Ended' /\ Chained'
  <1>0. /\ Pend' = Pend
        /\ \A i \in DOMAIN wire : wire'[i] = wire[i] /\ i \in DOMAIN wire' /\ i < Len(wire) + 1 /\ i \in Nat
        /\ \A i \in DOMAIN wire' : i \in DOMAIN wire \/ (i = Len(wire) + 1 /\ wire'[i] = p)
        /\ \A e \in Pend : e.conn \in Conns /\ e.age \in Nat
        /\ \A i \in DOMAIN wire : wire[i].kind \in FlowPackets => wire[i].of \in Conns
        /\ \A i \in DOMAIN wire : wire[i].age \in Nat
        /\ {"syn", "synack"} \cup Closing \subseteq FlowPackets
        /\ Apart \in Int /\ Len(wire) + 1 \in Nat
    BY EndsFacts, HostedFacts, WireFacts DEF Closing, FlowPackets
  <1>1. Known'
    <2>1. \A e \in Pend' : client'[e.conn].phase # "idle"
      BY <1>0, EndsFacts DEF FlowInv, Known
    <2>2. ASSUME NEW i \in DOMAIN wire', wire'[i].kind \in FlowPackets PROVE client'[wire'[i].of].phase # "idle"
      <3>1. CASE i \in DOMAIN wire
        BY <1>0, <2>2, <3>1, EndsFacts DEF FlowInv, Known
      <3>2. CASE wire'[i] = p
        <4>1. p.kind \in {"synack"} \cup Closing
          BY <2>2, <3>2, EndsFacts DEF FlowPackets, Closing, Ends
        <4> QED
          BY <3>2, <4>1, EndsFacts
      <3> QED
        BY <1>0, <3>1, <3>2
    <2> QED
      BY <2>1, <2>2, EndsFacts DEF Known
  <1>2. Ended'
    <2> SUFFICES ASSUME NEW i \in DOMAIN wire', wire'[i].kind \in {"synack"} \cup Closing
                 PROVE  /\ client'[wire'[i].of].phase \in {"open", "gone"}
                        /\ \A j \in DOMAIN wire' : j > i => ~IsSyn(wire'[j], wire'[i].of)
                        /\ wire'[i].kind \in Closing => client'[wire'[i].of].phase = "gone"
      BY DEF Ended
    <2>1. CASE i \in DOMAIN wire
      <3>1. wire'[i] = wire[i] /\ wire[i].of \in Conns
        BY <1>0, <2>1
      <3>2. /\ client[wire[i].of].phase \in {"open", "gone"}
            /\ \A j \in DOMAIN wire : j > i => ~IsSyn(wire[j], wire[i].of)
            /\ wire[i].kind \in Closing => client[wire[i].of].phase = "gone"
        BY <2>1, <3>1 DEF FlowInv, Ended
      <3>3. \A j \in DOMAIN wire' : j > i => ~IsSyn(wire'[j], wire[i].of)
        BY <1>0, <3>2, EndsFacts
      <3> QED
        BY <3>1, <3>2, <3>3, EndsFacts
    <2>2. CASE i = Len(wire) + 1 /\ wire'[i] = p
      <3>1. \A j \in DOMAIN wire' : ~(j > i)
        BY <1>0, <2>2
      <3> QED
        BY <2>2, <3>1, EndsFacts
    <2> QED
      BY <1>0, <2>1, <2>2
  <1>3. Chained'
    <2>1. ASSUME NEW e \in Pend' PROVE Followed(wire', client'[e.conn], e.conn, 0, e.age, Apart)
      <3>1. e \in Pend /\ Followed(wire, client[e.conn], e.conn, 0, e.age, Apart)
        BY <1>0 DEF FlowInv, Chained
      <3> QED
        BY <1>0, <3>1, EndsFollowed
    <2>2. ASSUME NEW i \in DOMAIN wire', wire'[i].kind = "syn"
          PROVE  Followed(wire', client'[wire'[i].of], wire'[i].of, i, wire'[i].age, Apart)
      <3>1. i \in DOMAIN wire /\ wire'[i] = wire[i]
        BY <1>0, <2>2, EndsFacts DEF Ends
      <3>2. wire[i].of \in Conns /\ wire[i].age \in Nat
        BY <1>0, <2>2, <3>1
      <3>3. Followed(wire, client[wire[i].of], wire[i].of, i, wire[i].age, Apart)
        BY <2>2, <3>1 DEF FlowInv, Chained
      <3> QED
        BY <1>0, <3>1, <3>2, <3>3, EndsFollowed
    <2> QED
      BY <2>1, <2>2 DEF Chained
  <1> QED
    BY <1>1, <1>2, <1>3

LEMMA EndsCounts ==
  ASSUME WireTypes, WireTypes', FlowInv, NEW c, NEW p, Ends(c, p)
  PROVE  Failures' /\ Established'
  <1>0. /\ Pend' = Pend /\ Failed' = Failed /\ UNCHANGED <<recentFail, counts, crowdedOut>>
        /\ Tried' = Tried /\ IsFiniteSet(Tried) /\ Tried \subseteq Conns
        /\ \A i \in DOMAIN wire' : (i \in DOMAIN wire /\ wire'[i] = wire[i]) \/ wire'[i] = p
        /\ \A d \in Conns : recentFail[d] \in Nat
        /\ REFAIL_WINDOW - 1 \in Int
    BY EndsFacts, HostedFacts DEF FlowInv, Failures, Tried
  <1>1. ASSUME crowdedOut = {} PROVE \E F \in SUBSET Tried' : FailedSet(F)'
    <2>1. PICK F \in SUBSET Tried : FailedSet(F)
      BY <1>1 DEF FlowInv, Failures
    <2>2. ASSUME NEW d \in F, Followed(wire, client[d], d, 0, recentFail[d], REFAIL_WINDOW - 1)
          PROVE  Followed(wire', client'[d], d, 0, recentFail[d], REFAIL_WINDOW - 1)
      <3>1. d \in Conns /\ recentFail[d] \in Nat
        BY <1>0
      <3> QED
        BY <1>0, <2>2, <3>1, EndsFollowed
    <2>3. FailedSet(F)'
      BY <1>0, <2>1, <2>2 DEF FailedSet
    <2> QED
      BY <1>0, <2>3
  <1>2. PICK E \in SUBSET Tried : EstablishedSet(E)
    BY DEF FlowInv, Established
  <1>3. \A d \in E, j \in DOMAIN wire' : ~IsSyn(wire'[j], d)
    BY <1>0, <1>2, EndsFacts DEF EstablishedSet
  <1>4. \A d \in E : client'[d].phase \in {"open", "gone"}
    BY <1>0, <1>2, EndsFacts DEF EstablishedSet
  <1>5. EstablishedSet(E)'
    BY <1>0, <1>2, <1>3, <1>4 DEF EstablishedSet
  <1> QED
    BY <1>0, <1>1, <1>5 DEF Failures, Established

LEMMA EndsSeen ==
  ASSUME WireTypes, WireTypes', FlowInv, NEW c, NEW p, Ends(c, p)
  PROVE  OpenTrue' /\ Seen'
  <1>0. /\ Pend' = Pend /\ Shown' = Shown /\ UNCHANGED <<cutOff, crowdedOut>>
        /\ \A i \in DOMAIN wire : /\ wire'[i] = wire[i] /\ i \in DOMAIN wire' /\ i < Len(wire) + 1 /\ i < Len(wire') + 1
                                  /\ i \in Nat /\ wire[i].age \in Nat
        /\ \A i \in DOMAIN wire' : i \in DOMAIN wire \/ (i = Len(wire) + 1 /\ wire'[i] = p)
        /\ \A i \in DOMAIN wire : wire[i].kind \in FlowPackets => wire[i].of \in Conns
        /\ \A e \in Pend : e.age \in Nat
        /\ Shown \subseteq Conns /\ Extends(wire, wire', p) /\ TIMEOUT \in Nat /\ LAG \in Nat
        /\ p.age = 0 /\ Len(wire) + 1 \in Nat
    <2>1. Hosted(c, p) /\ answered' \subseteq Conns
      BY EndsFacts
    <2>2. /\ Pend' = Pend /\ Shown' = Shown /\ UNCHANGED <<cutOff, crowdedOut>>
          /\ \A i \in DOMAIN wire : /\ wire'[i] = wire[i] /\ i \in DOMAIN wire' /\ i < Len(wire) + 1 /\ i < Len(wire') + 1
                                    /\ i \in Nat /\ wire[i].age \in Nat
          /\ \A i \in DOMAIN wire' : i \in DOMAIN wire \/ (i = Len(wire) + 1 /\ wire'[i] = p)
          /\ \A e \in Pend : e.age \in Nat
          /\ Extends(wire, wire', p) /\ TIMEOUT \in Nat /\ LAG \in Nat /\ Len(wire) + 1 \in Nat
      BY <2>1, HostedFacts
    <2>3. \A i \in DOMAIN wire : wire[i].kind \in FlowPackets => wire[i].of \in Conns
      BY WireFacts
    <2>4. p.age = 0
      BY <2>1 DEF Hosted
    <2>5. Shown \subseteq Conns
      BY FlowFacts DEF FlowInv
    <2> QED
      BY <2>2, <2>3, <2>4, <2>5
  <1>1. ASSUME NEW d, Is(p, Closing, d)
        PROVE  Len(wire) + 1 \in DOMAIN wire' /\ wire'[Len(wire) + 1] = p
    <2>1. p.kind \in FlowPackets
      BY <1>1 DEF Is, Closing, FlowPackets
    <2> QED
      BY <2>1, EndsFacts, HostedFacts DEF Longer
  <1>2. ASSUME NEW d \in Shown PROVE client'[d].phase = "open" \/ \E j \in DOMAIN wire' : Is(wire'[j], Closing, d)
    <2>1. CASE client[d].phase = "open"
      BY <1>0, <1>1, <2>1, EndsFacts
    <2>2. CASE \E j \in DOMAIN wire : Is(wire[j], Closing, d)
      BY <1>0, <2>2
    <2> QED
      BY <2>1, <2>2 DEF FlowInv, OpenTrue
  <1>3. ASSUME NEW i \in DOMAIN wire', wire'[i].kind = "synack"
        PROVE  client'[wire'[i].of].phase = "open" \/ \E j \in DOMAIN wire' : j > i /\ Is(wire'[j], Closing, wire'[i].of)
    <2>1. CASE i \in DOMAIN wire
      <3>1. wire'[i] = wire[i] /\ wire[i].kind = "synack" /\ wire[i].of \in Conns /\ i < Len(wire) + 1
        BY <1>0, <1>3, <2>1 DEF FlowPackets
      <3>2. CASE client[wire[i].of].phase = "open"
        <4>1. client'[wire[i].of].phase = "open" \/ Is(p, Closing, wire[i].of)
          BY <3>1, <3>2, EndsFacts
        <4>2. Len(wire) + 1 > i
          BY <1>0, <3>1, <2>1
        <4> QED
          BY <1>1, <3>1, <4>1, <4>2
      <3>3. CASE \E j \in DOMAIN wire : j > i /\ Is(wire[j], Closing, wire[i].of)
        BY <1>0, <3>1, <3>3
      <3> QED
        BY <2>1, <3>1, <3>2, <3>3 DEF FlowInv, OpenTrue
    <2>2. CASE wire'[i] = p
      BY <1>3, <2>2, EndsFacts
    <2> QED
      BY <1>0, <2>1, <2>2
  <1>4. ASSUME NEW d \in Conns PROVE SinceSyn(d) \in Int
    <2>1. client[d] \in Clients
      BY DEF FlowInv, FlowTypes
    <2>2. client[d].tries \in 0 .. RETRIES /\ client[d].wait \in Nat
      BY <2>1 DEF Clients
    <2> QED
      BY <2>2, FlowsAssumption DEF SinceSyn
  <1>5. ASSUME NEW d \in Conns, client'[d].phase = "connecting", SinceSyn(d)' <= TIMEOUT, d \notin cutOff \cup crowdedOut
        PROVE  Recent(Pend, wire', d, SinceSyn(d)', Len(wire') + 1)
    <2>1. client'[d] = client[d] /\ client[d].phase = "connecting"
      BY <1>5, EndsFacts
    <2>2. SinceSyn(d)' = SinceSyn(d) /\ SinceSyn(d) \in Int
      BY <1>4, <2>1 DEF SinceSyn
    <2>3. Recent(Pend, wire, d, SinceSyn(d), Len(wire) + 1)
      BY <1>5, <2>1, <2>2 DEF FlowInv, Seen
    <2> QED
      BY <1>0, <2>2, <2>3, RecentStill
  <1>6. ASSUME NEW d \in Conns, client'[d].phase = "open", d \in answered', d \notin Shown, d \notin cutOff \cup crowdedOut
        PROVE  \E k \in DOMAIN wire' : /\ Is(wire'[k], {"synack"}, d)
                                       /\ Recent(Pend, wire', d, TIMEOUT - LAG + wire'[k].age, k)
    <2>1. CASE d \in answered
      <3>1. client[d].phase = "open"
        <4>1. client[d].phase \in {"open", "gone"}
          BY <2>1 DEF FlowInv, Known
        <4> QED
          BY <1>6, <4>1, EndsFacts
      <3>2. PICK k \in DOMAIN wire : /\ Is(wire[k], {"synack"}, d)
                                     /\ Recent(Pend, wire, d, TIMEOUT - LAG + wire[k].age, k)
        BY <1>6, <2>1, <3>1 DEF FlowInv, Seen
      <3>3. TIMEOUT - LAG + wire[k].age \in Int
        BY <1>0
      <3>4. Recent(Pend, wire', d, TIMEOUT - LAG + wire[k].age, k)
        BY <1>0, <3>2, <3>3, RecentStill
      <3> QED
        BY <1>0, <3>2, <3>4
    <2>2. CASE d \notin answered
      <3>1. d = c /\ p.kind = "synack" /\ p.of = c /\ client[c].phase = "connecting" /\ SinceSyn(c) + LAG <= TIMEOUT
        <4>1. d = c /\ p.kind = "synack" /\ client[c].phase = "connecting" /\ SinceSyn(c) + LAG <= TIMEOUT
          BY <1>6, <2>2 DEF Ends
        <4> QED
          BY <4>1, EndsFacts
      <3>2. SinceSyn(d) \in Int /\ SinceSyn(d) <= TIMEOUT /\ SinceSyn(d) <= TIMEOUT - LAG + p.age /\ TIMEOUT - LAG + p.age \in Int
        BY <1>0, <1>4, <3>1
      <3>3. Recent(Pend, wire, d, SinceSyn(d), Len(wire) + 1)
        BY <1>6, <3>1, <3>2 DEF FlowInv, Seen
      <3>4. Recent(Pend, wire', d, TIMEOUT - LAG + p.age, Len(wire) + 1)
        BY <1>0, <3>2, <3>3, RecentStill
      <3>5. Len(wire) + 1 \in DOMAIN wire' /\ wire'[Len(wire) + 1] = p /\ Is(p, {"synack"}, d)
        BY <3>1, EndsFacts, HostedFacts DEF Longer, Is, FlowPackets
      <3> QED
        BY <3>4, <3>5
    <2> QED
      BY <2>1, <2>2
  <1>7. OpenTrue'
    BY <1>0, <1>2, <1>3 DEF OpenTrue
  <1>8. Seen'
    BY <1>0, <1>5, <1>6 DEF Seen
  <1> QED
    BY <1>7, <1>8

LEMMA EndsStep ==
  ASSUME WireTypes, WireTypes', FlowInv, NEW c, NEW p, Ends(c, p)
  PROVE  FlowInv'
  <1>1. FlowTypes' /\ Unique' /\ Balance' /\ InSequence'
    BY EndsFacts, HostedFacts, HostedOrder
  <1> QED
    BY <1>1, EndsOrder, EndsCounts, EndsSeen DEF FlowInv
-----------------------------------------------------------------------------
(* Both trackers.                                                           *)

LEMMA EmptyTracker ==
  ASSUME pending = << >>, open = << >>
  PROVE  Pend = {} /\ Shown = {} /\ Attempts = {}
  BY DEF Pend, Shown, Attempts

LEMMA EmptyWire ==
  ASSUME wire = << >>
  PROVE  DOMAIN wire = {} /\ WireTypes
  BY DEF WireTypes

\* Nothing is waiting, and who was seen before does not count.
Fresh ==
  /\ pending = << >> /\ open = << >> /\ recentFail = [c \in Conns |-> FORGOTTEN]
  /\ counts \in [Counters -> Nat] /\ counts.halfOpen = 0 /\ counts.refused = 0 /\ counts.established = 0
  /\ client \in [Conns -> Clients] /\ crowdedOut = {} /\ answered \subseteq Conns /\ IsFiniteSet(Tried)
  /\ cutOff \subseteq Conns /\ \A c \in Conns : c \in cutOff \/ client[c].phase = "idle"

\* What the hosts owe the wire.
WireRight == InSequence /\ Known /\ Ended /\ Chained /\ OpenTrue

LEMMA FreshIsRight ==
  Fresh /\ WireRight => FlowInv
  <1> SUFFICES ASSUME Fresh, WireRight PROVE FlowInv
    OBVIOUS
  <1>1. Pend = {} /\ Shown = {} /\ Attempts = {}
    BY EmptyTracker DEF Fresh
  <1>2. FlowTypes /\ Unique
    <2>1. FORGOTTEN \in 0 .. FORGOTTEN /\ OPEN_CAP \in Nat
      BY FlowsAssumption, CaptureAssumption DEF FORGOTTEN, STALE
    <2> QED
      BY <2>1 DEF FlowTypes, Unique, Fresh
  <1>3. Seen
    BY DEF Seen, Fresh
  <1>4. Failed = 0 /\ Cardinality({}) = 0 /\ IsFiniteSet({})
    BY FS_EmptySet DEF Failed, Fresh
  <1>5. Failures /\ Established
    <2>1. FailedSet({}) /\ EstablishedSet({})
      BY <1>4 DEF FailedSet, EstablishedSet, Fresh
    <2> QED
      BY <2>1 DEF Failures, Established, Fresh
  <1>6. Balance
    <2>1. counts.synSent \in Nat
      BY DEF Counters, Fresh
    <2> QED
      BY <1>1, <1>4, <2>1 DEF Balance
  <1> QED
    BY <1>2, <1>3, <1>5, <1>6 DEF FlowInv, WireRight

LEMMA InitIInv ==
  ASSUME Init
  PROVE  IInv
  <1>1. wire = << >> /\ FlowInit /\ DnsInit
    BY DEF Init
  <1>2. FlowInv
    <2>1. /\ pending = << >> /\ open = << >> /\ recentFail = [c \in Conns |-> FORGOTTEN]
          /\ counts = [k \in Counters |-> 0] /\ client = [c \in Conns |-> Idle]
          /\ crowdedOut = {} /\ answered = {} /\ cutOff = {}
      BY <1>1 DEF FlowInit, Counters
    <2>2. Idle \in Clients /\ Idle.phase = "idle"
      BY FlowsAssumption DEF Idle, Clients
    <2>3. client \in [Conns -> Clients] /\ Tried = {}
      BY <2>1, <2>2 DEF Tried
    <2>4. IsFiniteSet(Tried)
      BY <2>3, FS_EmptySet
    <2>5. counts \in [Counters -> Nat] /\ counts.halfOpen = 0 /\ counts.refused = 0 /\ counts.established = 0
      BY <2>1 DEF Counters
    <2>6. Fresh
      BY <2>1, <2>2, <2>3, <2>4, <2>5 DEF Fresh
    <2>7. WireRight
      BY <1>1, <2>1, EmptyTracker, EmptyWire DEF WireRight, InSequence, Known, Ended, Chained, OpenTrue
    <2> QED
      BY <2>6, <2>7, FreshIsRight
  <1>3. DnsInv
    <2>1. /\ waiting = << >> /\ dnsCounts = [k \in {"queries"} \cup Outcomes |-> 0] /\ slow = FALSE
          /\ resolver = [q \in Lookups |-> [asked |-> 0, answers |-> 0, since |-> RESEND]]
      BY <1>1 DEF DnsInit
    <2>2. [asked |-> 0, answers |-> 0, since |-> RESEND] \in Clerks
      BY DnsAssumption DEF Clerks
    <2>3. \A q \in Lookups : resolver[q] \in Clerks /\ ~Unanswered(resolver[q])
      BY <2>1, <2>2 DEF Unanswered
    <2>4. dnsCounts \in [{"queries"} \cup Outcomes -> Nat] /\ dnsCounts.timeouts = 0 /\ dnsCounts.queries = 0
      BY <2>1 DEF Outcomes
    <2>5. DnsTypes
      <3>1. resolver \in [Lookups -> Clerks]
        BY <2>1, <2>2
      <3>2. waiting \in Seq(Queries)
        BY <2>1
      <3> QED
        BY <2>1, <2>4, <3>1, <3>2 DEF DnsTypes
    <2>6. DnsUnique /\ DnsBalance
      BY <2>1, <2>4, DnsAssumption DEF DnsUnique, DnsBalance
    <2>7. Timely
      BY <1>1, <2>1, <2>3, <2>4 DEF Timely
    <2> QED
      BY <2>5, <2>6, <2>7 DEF DnsInv
  <1> QED
    BY <1>1, <1>2, <1>3, EmptyWire DEF IInv

LEMMA FlowResetStep ==
  ASSUME WireTypes, FlowInv, wire' \in {<< >>, wire}, FlowReset
  PROVE  WireTypes' /\ FlowInv'
  <1>1. /\ pending' = << >> /\ open' = << >> /\ recentFail' = [c \in Conns |-> FORGOTTEN]
        /\ counts' = [k \in DOMAIN counts |-> 0] /\ crowdedOut' = {} /\ cutOff' = Tried
        /\ client' = client /\ answered' = answered
    BY DEF FlowReset
  <1>2. counts' \in [Counters -> Nat] /\ counts'.halfOpen = 0 /\ counts'.refused = 0 /\ counts'.established = 0
    <2>1. DOMAIN counts = Counters
      BY DEF FlowInv, FlowTypes
    <2> QED
      BY <1>1, <2>1 DEF Counters
  <1>3. client' \in [Conns -> Clients] /\ answered' \subseteq Conns /\ IsFiniteSet(Tried')
    BY <1>1 DEF FlowInv, FlowTypes, Failures, Tried
  <1>4. cutOff' \subseteq Conns /\ \A c \in Conns : c \in cutOff' \/ client'[c].phase = "idle"
    BY <1>1 DEF Tried
  <1>5. WireTypes'
    <2>1. << >> \in Seq(Packets)
      OBVIOUS
    <2> QED
      BY <2>1 DEF WireTypes
  <1>6. Fresh'
    BY <1>1, <1>2, <1>3, <1>4 DEF Fresh
  <1>7. Pend' = {} /\ Shown' = {}
    BY <1>1 DEF Pend, Shown
  <1>8. WireRight'
    <2>1. CASE wire' = << >>
      <3>1. DOMAIN wire' = {}
        BY <2>1
      <3>2. InSequence' /\ Known' /\ Ended'
        BY <1>1, <1>7, <3>1 DEF FlowInv, InSequence, Known, Ended
      <3>3. Chained' /\ OpenTrue'
        BY <1>7, <3>1 DEF Chained, OpenTrue
      <3> QED
        BY <3>2, <3>3 DEF WireRight
    <2>2. CASE wire' = wire
      <3>1. InSequence' /\ Known'
        BY <1>1, <1>7, <2>2 DEF FlowInv, InSequence, Known
      <3>2. Ended' /\ OpenTrue'
        BY <1>1, <1>7, <2>2 DEF FlowInv, Ended, OpenTrue
      <3>3. Chained'
        BY <1>1, <1>7, <2>2 DEF FlowInv, Chained
      <3> QED
        BY <3>1, <3>2, <3>3 DEF WireRight
    <2> QED
      BY <2>1, <2>2
  <1>9. FlowInv'
    BY <1>6, <1>8, FreshIsRight, PTL
  <1> QED
    BY <1>5, <1>9

\* A host's step is one of the two kinds.
LEMMA HostsStep ==
  ASSUME WireTypes, FlowInv, Hosts
  PROVE  /\ WireTypes' /\ FlowInv'
         /\ UNCHANGED wire \/ \E p : Longer(wire, wire', p) /\ p.kind \in FlowPackets
  <1>0. PICK c \in Conns : \/ Connect(c) \/ Retransmit(c)
                           \/ HangUp(c) \/ Answer(c) \/ AnswerAgain(c) \/ Refuse(c) \/ Close(c)
    BY DEF Hosts
  <1>1. client \in [Conns -> Clients] /\ client[c] \in Clients /\ RETRIES \in Nat /\ Interval \in [0 .. RETRIES -> Nat \ {0}]
        /\ answered \subseteq Conns
    BY FlowsAssumption DEF FlowInv, FlowTypes
  <1> DEFINE pk(kind) == [kind |-> kind, of |-> c, age |-> 0]
  <1>2. ASSUME NEW kind \in FlowPackets, Captured(kind, c)
        PROVE  WireTypes' /\ Longer(wire, wire', pk(kind))
    BY <1>2, WireGrows
  <1>3. ASSUME NEW y \in Clients, client' = [client EXCEPT ![c] = y]
        PROVE  client' \in [Conns -> Clients] /\ client'[c] = y /\ \A d \in Conns \ {c} : client'[d] = client[d]
    BY <1>1, <1>3
  <1>4. ASSUME NEW y \in Clients, client' = [client EXCEPT ![c] = y], Captured("syn", c), UNCHANGED <<trackerVars, historyVars>>,
               y.phase = "connecting", y.wait = Interval[y.tries],
               (client[c].phase = "idle" /\ y.tries = 0) \/ (Retries(client[c]) /\ client[c].wait = 0)
        PROVE  /\ WireTypes' /\ FlowInv'
               /\ \E p : Longer(wire, wire', p) /\ p.kind \in FlowPackets
    <2>1. WireTypes' /\ Longer(wire, wire', pk("syn"))
      BY <1>2, <1>4 DEF FlowPackets
    <2>2. Starts(c, pk("syn"))
      BY <1>3, <1>4, <2>1 DEF Starts, Hosted, IsSyn, Is, historyVars
    <2>3. FlowInv'
      BY <2>1, <2>2, StartsStep
    <2>4. pk("syn").kind \in FlowPackets
      BY DEF FlowPackets
    <2> QED
      BY <2>1, <2>3, <2>4
  <1>5. ASSUME NEW kind \in {"synack", "fin", "refusal", "abort"}, Captured(kind, c),
               NEW y \in Clients, client' = [client EXCEPT ![c] = y], UNCHANGED <<trackerVars, cutOff>>,
               client[c].phase \in {"connecting", "open"}, y.phase = IF kind = "synack" THEN "open" ELSE "gone",
               \/ answered' = answered
               \/ /\ answered' = answered \cup {c} /\ kind = "synack"
                  /\ client[c].phase = "connecting" /\ SinceSyn(c) + LAG <= TIMEOUT
        PROVE  /\ WireTypes' /\ FlowInv'
               /\ \E p : Longer(wire, wire', p) /\ p.kind \in FlowPackets
    <2>1. WireTypes' /\ Longer(wire, wire', pk(kind)) /\ kind \in FlowPackets
      BY <1>2, <1>5 DEF FlowPackets
    <2>2. Hosted(c, pk(kind))
      BY <1>3, <1>5, <2>1 DEF Hosted
    <2>3. client'[c].phase = IF kind = "synack" THEN "open" ELSE "gone"
      BY <1>3, <1>5
    <2>4. Ends(c, pk(kind))
      BY <1>5, <2>2, <2>3 DEF Ends, Closing
    <2>5. FlowInv'
      BY <2>1, <2>4, EndsStep
    <2>6. pk(kind).kind \in FlowPackets
      BY <2>1
    <2> QED
      BY <2>1, <2>5, <2>6
  <1>6. ASSUME client[c].phase = "connecting", UNCHANGED wire, UNCHANGED <<trackerVars, historyVars>>,
               NEW y \in Clients, client' = [client EXCEPT ![c] = y], y.phase = "gone"
        PROVE  WireTypes' /\ FlowInv'
    <2>1. WireTypes'
      BY <1>6 DEF WireTypes
    <2>2. pk("none").kind \notin FlowPackets /\ pk("none").kind \notin {"syn", "synack"}
      BY DEF FlowPackets
    <2>3. Hosted(c, pk("none"))
      BY <1>3, <1>6, <2>2 DEF Hosted, historyVars
    <2>4. Ends(c, pk("none"))
      BY <1>3, <1>6, <2>2, <2>3 DEF Ends, historyVars
    <2> QED
      BY <2>1, <2>4, EndsStep
  <1>7. ASSUME NEW phase \in {"open", "gone"} PROVE [Idle EXCEPT !.phase = phase] \in Clients /\ [Idle EXCEPT !.phase = phase].phase = phase
    BY <1>1 DEF Idle, Clients
  <1> HIDE DEF pk
  <1>8. CASE Connect(c)
    <2> DEFINE y == [phase |-> "connecting", tries |-> 0, wait |-> Interval[0]]
    <2>1. 0 \in 0 .. RETRIES
      BY <1>1
    <2>2. y \in Clients /\ y.phase = "connecting" /\ y.tries = 0 /\ y.wait = Interval[y.tries]
      BY <1>1, <2>1 DEF Clients
    <2>3. /\ client[c].phase = "idle" /\ Captured("syn", c) /\ client' = [client EXCEPT ![c] = y]
          /\ UNCHANGED <<trackerVars, historyVars>>
      BY <1>8 DEF Connect
    <2> HIDE DEF y
    <2>4. (client[c].phase = "idle" /\ y.tries = 0) \/ (Retries(client[c]) /\ client[c].wait = 0)
      BY <2>2, <2>3
    <2>5. WireTypes' /\ FlowInv' /\ \E p : Longer(wire, wire', p) /\ p.kind \in FlowPackets
      BY <1>4, <2>2, <2>3, <2>4
    <2> QED
      BY <2>5
  <1>9. CASE Retransmit(c)
    <2> DEFINE y == [client[c] EXCEPT !.tries = @ + 1, !.wait = Interval[client[c].tries + 1]]
    <2>1. /\ client[c].phase = "connecting" /\ client[c].wait = 0 /\ client[c].tries < RETRIES /\ Captured("syn", c)
          /\ UNCHANGED <<trackerVars, historyVars>>
          /\ client' = [client EXCEPT ![c].tries = @ + 1, ![c].wait = Interval[client[c].tries + 1]]
      BY <1>9 DEF Retransmit
    <2>2. client[c].tries + 1 \in 0 .. RETRIES
      BY <1>1, <2>1 DEF Clients
    <2>3. y \in Clients /\ y.phase = "connecting" /\ y.tries = client[c].tries + 1 /\ y.wait = Interval[y.tries]
      BY <1>1, <2>1, <2>2 DEF Clients
    <2>4. client' = [client EXCEPT ![c] = y]
      BY <1>1, <2>1 DEF Clients
    <2>5. Retries(client[c])
      BY <2>1 DEF Retries
    <2> HIDE DEF y
    <2> QED
      BY <1>4, <2>1, <2>3, <2>4, <2>5
  <1>10. CASE HangUp(c)
    <2>1. /\ client[c].phase = "connecting"
          /\ UNCHANGED wire \/ Captured("abort", c)
          /\ client' = [client EXCEPT ![c] = [Idle EXCEPT !.phase = "gone"]] /\ UNCHANGED <<trackerVars, historyVars>>
      BY <1>10 DEF HangUp
    <2> DEFINE y == [Idle EXCEPT !.phase = "gone"]
    <2>2. y \in Clients /\ y.phase = "gone" /\ client' = [client EXCEPT ![c] = y]
      BY <1>7, <2>1
    <2> HIDE DEF y
    <2>3. CASE UNCHANGED wire
      BY <1>6, <2>1, <2>2, <2>3
    <2>4. CASE Captured("abort", c)
      <3>1. UNCHANGED <<trackerVars, cutOff>> /\ answered' = answered
        BY <2>1 DEF historyVars
      <3> QED
        BY <1>5, <2>1, <2>2, <2>4, <3>1
    <2> QED
      BY <2>1, <2>3, <2>4
  <1>11. CASE Answer(c)
    <2>1. /\ client[c].phase = "connecting" /\ Captured("synack", c) /\ UNCHANGED <<trackerVars, cutOff>>
          /\ client' = [client EXCEPT ![c] = [Idle EXCEPT !.phase = "open"]]
          /\ answered' = answered \cup IF SinceSyn(c) + LAG <= TIMEOUT THEN {c} ELSE {}
      BY <1>11 DEF Answer
    <2>2. \/ answered' = answered
          \/ answered' = answered \cup {c} /\ SinceSyn(c) + LAG <= TIMEOUT
      BY <2>1
    <2> QED
      BY <1>5, <1>7, <2>1, <2>2
  <1>12. CASE AnswerAgain(c)
    <2>1. /\ client[c].phase = "open" /\ Captured("synack", c) /\ UNCHANGED <<trackerVars, historyVars>>
          /\ client' = [client EXCEPT ![c].tries = 1]
      BY <1>12 DEF AnswerAgain
    <2> DEFINE y == [client[c] EXCEPT !.tries = 1]
    <2>2. 1 \in 0 .. RETRIES
      BY FlowsAssumption
    <2>3. y \in Clients /\ y.phase = "open" /\ client' = [client EXCEPT ![c] = y]
      BY <1>1, <2>1, <2>2 DEF Clients
    <2> HIDE DEF y
    <2> QED
      BY <1>5, <2>1, <2>3 DEF historyVars
  <1>13. CASE Refuse(c)
    <2>1. /\ client[c].phase = "connecting" /\ Captured("refusal", c) /\ UNCHANGED <<trackerVars, historyVars>>
          /\ client' = [client EXCEPT ![c] = [Idle EXCEPT !.phase = "gone"]]
      BY <1>13 DEF Refuse
    <2> QED
      BY <1>5, <1>7, <2>1 DEF historyVars
  <1>14. CASE Close(c)
    <2>1. /\ client[c].phase = "open" /\ UNCHANGED <<trackerVars, historyVars>>
          /\ client' = [client EXCEPT ![c] = [Idle EXCEPT !.phase = "gone"]]
      BY <1>14 DEF Close
    <2>2. PICK kind \in {"fin", "refusal", "abort"} : Captured(kind, c)
      BY <1>14 DEF Close
    <2> QED
      BY <1>5, <1>7, <2>1, <2>2 DEF historyVars
  <1> QED
    BY <1>0, <1>8, <1>9, <1>10, <1>11, <1>12, <1>13, <1>14
-----------------------------------------------------------------------------
(* The steps of both trackers and of the world.                             *)

LEMMA KindsApart == \A k : k \in FlowPackets => k \notin DnsPackets
  BY DEF FlowPackets, DnsPackets, Rcodes

LEMMA FlowPart ==
  ASSUME IInv, FlowStep
  PROVE  IInv'
  <1>1. WireTypes /\ FlowInv /\ DnsInv /\ UNCHANGED dnsVars
    BY DEF IInv, FlowStep
  <1>2. CASE FlowDeliver
    <2>1. /\ wire # << >> /\ wire[1].kind \in FlowPackets /\ Head(wire) = wire[1] /\ Analysed
          /\ FlowAdd(wire[1]) /\ UNCHANGED <<client, historyVars>> /\ 1 \in DOMAIN wire
      <3>1. wire # << >> /\ Head(wire).kind \in FlowPackets /\ FlowAdd(Head(wire)) /\ Analysed
            /\ UNCHANGED <<client, historyVars>>
        BY <1>2 DEF FlowDeliver
      <3>2. Head(wire) = wire[1] /\ 1 \in DOMAIN wire
        BY <1>1, <3>1, WireShrinks DEF Shorter
      <3> QED
        BY <3>1, <3>2
    <2>2. WireTypes' /\ Shorter(wire, wire')
      BY <1>1, <2>1, WireShrinks
    <2>3. wire[1].of \in Conns /\ wire[1].age \in 0 .. LAG
      BY <1>1, <2>1, WireFacts
    <2>4. FlowTypes' /\ Unique' /\ Balance' /\ Handled(wire[1])
      BY <1>1, <2>1, <2>3, FlowAddHandled DEF FlowInv
    <2>5. Takes
      BY <2>1, <2>2, <2>4 DEF Takes, historyVars
    <2>6. FlowInv'
      BY <1>1, <2>5, TakesStep
    <2>7. DnsInv'
      <3>1. wire[1].kind \notin DnsPackets
        BY <2>1, KindsApart
      <3> QED
        BY <1>1, <2>2, <3>1, DnsUntouched
    <2> QED
      BY <2>2, <2>6, <2>7 DEF IInv
  <1>3. CASE FlowTick
    <2>1. UNCHANGED wire
      BY <1>3 DEF FlowTick
    <2>2. FlowInv'
      BY <1>1, <1>3, FlowTickStep
    <2>3. DnsInv'
      BY <1>1, <2>1, DnsUntouched
    <2>4. WireTypes'
      BY <1>1, <2>1 DEF WireTypes
    <2> QED
      BY <2>2, <2>3, <2>4 DEF IInv
  <1> QED
    BY <1>2, <1>3 DEF FlowStep

\* What the resolvers and the tick of the other tracker leave of the flows.
LEMMA FlowsUntouched ==
  ASSUME WireTypes, WireTypes', FlowInv, UNCHANGED flowVars, NEW p, p.kind \notin FlowPackets, p.age = 0,
         Longer(wire, wire', p) \/ UNCHANGED wire
  PROVE  FlowInv'
  <1>1. UNCHANGED <<trackerVars, cutOff, client, answered>> /\ client \in [Conns -> Clients]
    BY DEF flowVars, historyVars, FlowInv, FlowTypes
  <1>2. p.kind # "syn"
    BY DEF FlowPackets
  <1>3. Hosted(0, p)
    BY <1>1 DEF Hosted
  <1>4. Ends(0, p)
    BY <1>1, <1>2, <1>3 DEF Ends
  <1> QED
    BY <1>4, EndsStep

LEMMA DnsPart ==
  ASSUME IInv, DnsStep
  PROVE  IInv'
  <1>1. WireTypes /\ FlowInv /\ DnsInv /\ UNCHANGED flowVars
    BY DEF IInv, DnsStep
  <1>2. CASE DnsDeliver
    <2>1. /\ wire # << >> /\ Head(wire).kind \in DnsPackets /\ DnsAdd(Head(wire)) /\ Analysed
          /\ UNCHANGED <<resolver, slow>>
      BY <1>2 DEF DnsDeliver, DnsPackets
    <2>2. WireTypes' /\ Shorter(wire, wire') /\ Head(wire) = wire[1]
      BY <1>1, <2>1, WireShrinks DEF Shorter
    <2>3. wire[1].kind \notin FlowPackets
      BY <2>1, <2>2, KindsApart
    <2>4. FlowTypes' /\ Unique' /\ Balance' /\ Handled(wire[1])
      BY <1>1, <2>3, OtherHandled DEF FlowInv
    <2>5. Takes
      BY <1>1, <2>1, <2>2, <2>4 DEF Takes, flowVars, historyVars
    <2>6. FlowInv'
      BY <1>1, <2>5, TakesStep
    <2>7. CASE Head(wire).kind = "query" /\ (DiscoveryQuery(Head(wire)) \/ Query(Head(wire)))
      BY <1>1, <2>1, <2>2, <2>6, <2>7, QueryStep DEF IInv
    <2>8. CASE Head(wire).kind \in Rcodes /\ Response(Head(wire))
      BY <1>1, <2>1, <2>2, <2>6, <2>8, ResponseStep DEF IInv
    <2> QED
      BY <2>1, <2>7, <2>8 DEF DnsAdd
  <1>3. CASE DnsTick
    <2>1. UNCHANGED wire
      BY <1>3 DEF DnsTick
    <2>2. WireTypes'
      BY <1>1, <2>1 DEF WireTypes
    <2>3. DnsInv'
      BY <1>1, <1>3, DnsTickStep
    <2> DEFINE p == [kind |-> "none", of |-> 0, age |-> 0]
    <2>4. p.kind \notin FlowPackets /\ p.age = 0
      BY DEF FlowPackets
    <2> HIDE DEF p
    <2>5. FlowInv'
      BY <1>1, <2>1, <2>2, <2>4, FlowsUntouched
    <2> QED
      BY <2>2, <2>3, <2>5 DEF IInv
  <1> QED
    BY <1>2, <1>3 DEF DnsStep

LEMMA ResolversPart ==
  ASSUME IInv, Resolvers, UNCHANGED flowVars
  PROVE  IInv'
  <1>1. WireTypes /\ FlowInv /\ DnsInv
    BY DEF IInv
  <1>2. PICK q \in Lookups : Ask(q) \/ Respond(q)
    BY DEF Resolvers
  <1>3. WireTypes' /\ DnsInv'
    BY <1>1, <1>2, AskStep, RespondStep
  <1>4. PICK kind \in DnsPackets : Captured(kind, q)
    BY <1>2 DEF Ask, Respond, DnsPackets
  <1> DEFINE p == [kind |-> kind, of |-> q, age |-> 0]
  <1>5. Longer(wire, wire', p)
    BY <1>1, <1>4, WireGrows DEF DnsPackets
  <1>6. p.kind \notin FlowPackets /\ p.age = 0
    BY KindsApart
  <1> HIDE DEF p
  <1>7. FlowInv'
    BY <1>1, <1>3, <1>5, <1>6, FlowsUntouched
  <1> QED
    BY <1>3, <1>7 DEF IInv

LEMMA HostPart ==
  ASSUME IInv, HostStep
  PROVE  IInv'
  <1>1. WireTypes /\ FlowInv /\ DnsInv
    BY DEF IInv
  <1>2. CASE Hosts /\ UNCHANGED dnsVars
    <2>1. /\ WireTypes' /\ FlowInv'
          /\ UNCHANGED wire \/ \E p : Longer(wire, wire', p) /\ p.kind \in FlowPackets
      BY <1>1, <1>2, HostsStep
    <2>2. UNCHANGED wire \/ \E p : Longer(wire, wire', p) /\ p.kind \notin DnsPackets
      BY <2>1, KindsApart
    <2>3. DnsInv'
      BY <1>1, <1>2, <2>2, DnsUntouched
    <2> QED
      BY <2>1, <2>3 DEF IInv
  <1> QED
    BY <1>2, ResolversPart DEF HostStep

LEMMA Inductive ==
  IInv /\ [Next]_vars => IInv'
  <1> SUFFICES ASSUME IInv, [Next]_vars PROVE IInv'
    OBVIOUS
  <1>1. WireTypes /\ FlowInv /\ DnsInv
    BY DEF IInv
  <1>2. CASE ResetWorld
    <2>1. wire' \in {<< >>, wire} /\ FlowReset /\ DnsReset
      BY <1>2 DEF ResetWorld
    <2> QED
      BY <1>1, <2>1, FlowResetStep, DnsResetStep DEF IInv
  <1>3. CASE Clock
    <2>1. InTime /\ FlowsInTime /\ DnsInTime /\ wire' = Travelled /\ FlowsElapse /\ DnsElapse
      BY <1>3 DEF Clock
    <2> QED
      BY <1>1, <2>1, WireAges, FlowsElapseStep, DnsElapseStep DEF IInv
  <1>4. CASE UNCHANGED vars
    <2>1. UNCHANGED wire /\ UNCHANGED flowVars /\ UNCHANGED dnsVars
      BY <1>4 DEF vars
    <2>2. WireTypes'
      BY <1>1, <2>1 DEF WireTypes
    <2> DEFINE p == [kind |-> "none", of |-> 0, age |-> 0]
    <2>3. p.kind \notin FlowPackets /\ p.age = 0
      BY DEF FlowPackets
    <2> HIDE DEF p
    <2> QED
      BY <1>1, <2>1, <2>2, <2>3, FlowsUntouched, DnsUntouched DEF IInv
  <1> QED
    BY <1>2, <1>3, <1>4, FlowPart, DnsPart, HostPart DEF Next
-----------------------------------------------------------------------------
(* The theorems.                                                            *)

\* Whatever the network does and whenever the clock ticks: a SYN on the wire or
\* in the tracker is followed by the next of its client inside the window of one
\* failure; each failure, establishment and timeout on display stands for a
\* connection or query of its own; what is shown as open is open or its end is on
\* the wire; and a query waits for no longer than its client does.
THEOREM TrackerInvariant == Spec => []IInv
  <1>1. Init => IInv
    BY InitIInv
  <1> QED
    BY <1>1, Inductive, PTL DEF Spec

\* Three bounds: one failure for a connection that fails, however often its client
\* tries again; attempts counted before their ends; one establishment for a
\* connection.
THEOREM OneFailureEach == Spec => []CountedOnce
  <1>1. IInv => CountedOnce
    <2> SUFFICES ASSUME IInv PROVE CountedOnce
      OBVIOUS
    <2>1. counts \in [Counters -> Nat] /\ client \in [Conns -> Clients] /\ IsFiniteSet(Tried)
      BY DEF IInv, FlowInv, FlowTypes, Failures
    <2>2. counts.halfOpen \in Nat /\ counts.refused \in Nat /\ counts.established \in Nat /\ counts.synSent \in Nat
      BY <2>1 DEF Counters
    <2>3. crowdedOut = {} => counts.halfOpen + counts.refused <= Cardinality(Tried)
      <3> SUFFICES ASSUME crowdedOut = {} PROVE counts.halfOpen + counts.refused <= Cardinality(Tried)
        OBVIOUS
      <3>1. PICK F \in SUBSET Tried : FailedSet(F)
        BY DEF IInv, FlowInv, Failures
      <3>2. Cardinality(F) <= Cardinality(Tried) /\ Cardinality(F) \in Nat /\ Cardinality(Tried) \in Nat
        BY <2>1, FS_Subset, FS_CardinalityType
      <3> QED
        BY <2>2, <3>1, <3>2 DEF FailedSet, Failed
    <2>4. counts.halfOpen + counts.refused + Cardinality(Attempts) <= counts.synSent
      BY DEF IInv, FlowInv, Balance, Failed
    <2>5. counts.established <= Cardinality({c \in Conns : client[c].phase \in {"open", "gone"}})
      <3> DEFINE S == {c \in Conns : client[c].phase \in {"open", "gone"}}
      <3>1. PICK E \in SUBSET Tried : EstablishedSet(E)
        BY DEF IInv, FlowInv, Established
      <3>2. E \subseteq S /\ S \subseteq Tried
        BY <3>1 DEF EstablishedSet, Tried
      <3> HIDE DEF S
      <3>3. IsFiniteSet(S) /\ Cardinality(E) <= Cardinality(S)
        BY <2>1, <3>2, FS_Subset
      <3>4. IsFiniteSet(E) /\ Cardinality(E) \in Nat /\ Cardinality(S) \in Nat
        BY <3>2, <3>3, FS_Subset, FS_CardinalityType
      <3>5. counts.established <= Cardinality(S)
        BY <2>2, <3>1, <3>3, <3>4 DEF EstablishedSet
      <3> QED
        BY <3>5 DEF S
    <2> QED
      BY <2>3, <2>4, <2>5 DEF CountedOnce
  <1> QED
    BY <1>1, TrackerInvariant, PTL

\* No connection is shown as open after its end was analysed, and none that was
\* answered in time is missing.
THEOREM ShownIsOpen == Spec => []OpenIsExact
  <1>1. IInv => OpenIsExact
    <2> SUFFICES ASSUME IInv PROVE OpenIsExact
      OBVIOUS
    <2>1. FlowTypes /\ Unique /\ InSequence /\ OpenTrue /\ Seen
      BY DEF IInv, FlowInv
    <2>2. FlowTypeOK
      <3>1. \A i \in DOMAIN pending : pending[i] \in Entries /\ pending[i].age <= TIMEOUT + 1
        BY <2>1 DEF FlowTypes, InSequence, Pend
      <3>2. \A i \in DOMAIN pending : pending[i].conn \in Conns /\ pending[i].age \in 0 .. TIMEOUT + 1 /\ pending[i].refail \in BOOLEAN
        <4>1. TIMEOUT \in Nat
          BY FlowsAssumption
        <4> QED
          BY <3>1, <4>1 DEF Entries
      <3>3. \A c \in Conns : client[c].tries \in 0 .. RETRIES
        BY <2>1 DEF FlowTypes, Clients
      <3>4. \A k \in DOMAIN counts : counts[k] \in Nat
        BY <2>1 DEF FlowTypes
      <3> QED
        BY <2>1, <3>2, <3>3, <3>4 DEF FlowTypeOK, FlowTypes, Unique
    <2>3. ASSUME NEW i \in DOMAIN open PROVE open[i] \in Reached \/ OnItsWay(open[i])
      <3>1. open[i] \in Conns /\ open[i] \in Shown
        BY <2>1 DEF FlowTypes, Shown
      <3>2. client[open[i]].phase = "open" \/ \E j \in DOMAIN wire : Is(wire[j], Closing, open[i])
        BY <2>1, <3>1 DEF OpenTrue
      <3> QED
        BY <3>1, <3>2 DEF Reached, OnItsWay, Is
    <2>4. ASSUME NEW c \in (Reached \cap answered) \ cutOff
          PROVE  OnItsWay(c) \/ c \in crowdedOut \/ \E i \in DOMAIN open : open[i] = c
      <3>1. CASE c \in crowdedOut
        BY <3>1
      <3>2. CASE c \in Shown
        BY <3>2 DEF Shown
      <3>3. CASE c \notin crowdedOut /\ c \notin Shown
        <4>1. c \in Conns \ (cutOff \cup crowdedOut) /\ client[c].phase = "open" /\ c \in answered
          BY <3>3 DEF Reached
        <4>2. \E k \in DOMAIN wire : Is(wire[k], {"synack"}, c)
          BY <2>1, <3>3, <4>1 DEF Seen
        <4> QED
          BY <4>2 DEF OnItsWay, Is
      <3> QED
        BY <3>1, <3>2, <3>3
    <2> QED
      BY <2>2, <2>3, <2>4 DEF OpenIsExact
  <1> QED
    BY <1>1, TrackerInvariant, PTL

\* No query lapses that was answered in time, and no more of them lapse than were
\* asked.
THEOREM TimeoutsAreReal == Spec => []TimeoutsHonest
  <1>1. IInv => TimeoutsHonest
    <2> SUFFICES ASSUME IInv PROVE TimeoutsHonest
      OBVIOUS
    <2>1. DnsTypes /\ DnsUnique /\ DnsBalance /\ Timely
      BY DEF IInv, DnsInv
    <2>2. \A i \in DOMAIN waiting : waiting[i].lookup \in Lookups /\ waiting[i].age \in 0 .. DNS_TIMEOUT + 1
      <3>1. \A i \in DOMAIN waiting : waiting[i] \in Queries /\ waiting[i].age <= DNS_TIMEOUT + 1
        BY <2>1 DEF DnsTypes, DnsUnique
      <3>2. DNS_TIMEOUT \in Nat
        BY DnsAssumption
      <3> QED
        BY <3>1, <3>2 DEF Queries
    <2>3. \A k \in DOMAIN dnsCounts : dnsCounts[k] \in Nat
      BY <2>1 DEF DnsTypes
    <2>4. \A q \in Lookups : resolver[q].asked \in 0 .. ASKS /\ resolver[q].answers \in 0 .. ASKS
      BY <2>1 DEF DnsTypes, Clerks
    <2>5. DnsTypeOK
      BY <2>1, <2>2, <2>3, <2>4 DEF DnsTypeOK, DnsTypes, DnsUnique
    <2> QED
      BY <2>1, <2>5 DEF TimeoutsHonest, Timely, DnsBalance
  <1> QED
    BY <1>1, TrackerInvariant, PTL

-----------------------------------------------------------------------------
(***************************************************************************)
(* What a live capture guarantees for any queue, any batch, any number of   *)
(* captures and of packets: every packet is on its way, shown or counted,   *)
(* in its order, and nothing of a capture is shown once it stopped.         *)
(*                                                                          *)
(* The order is kept stage by stage: what is shown comes before what is in  *)
(* messages, that before the queue, and that before the callbacks (InOrder, *)
(* Honest).  The count needs that these four have no packet in common,      *)
(* which the order gives, and that only the capture that runs is connected  *)
(* and shown (OneRuns), which also gives the second.                        *)
(***************************************************************************)
(* The live capture: the invariant.                                         *)

Message == [type : {"hello", "error", "packets"}, items : Seq(Nat), dropped : Nat]

LiveTypes ==
  /\ queue \in [Sessions -> Seq(Nat)] /\ callbacks \in [Sessions -> Seq(Nat)]
  /\ down \in [Sessions -> Seq(Message)]
  /\ shown \in Seq(Sessions \X Nat)

\* Only the capture that runs is connected, and only to it something is on its
\* way, and of it something is shown.
OneRuns ==
  /\ \A s \in Sessions : Connected(s) => s = ws
  /\ \A s \in Sessions : ~Connected(s) => down[s] = << >>
  /\ Running => mode = "live" /\ \A i \in DOMAIN shown : shown[i][1] = ws

\* The captures to come are untouched.
Untouched ==
  \A s \in Sessions : s > started =>
    /\ run[s] = "none" /\ pump[s] = "none" /\ sniffer[s] = "none" /\ socket[s] = "none"
    /\ captured[s] = 0 /\ dropped[s] = 0 /\ queue[s] = << >> /\ callbacks[s] = << >>

\* What is told of s was so.
Honest(s) ==
  /\ OnTheWay(s) \subseteq 1 .. captured[s]
  /\ \A m \in DOMAIN down[s] : /\ down[s][m].dropped <= dropped[s]
                               /\ down[s][m].type # "packets" => down[s][m].items = << >>

Lines == \A s \in Sessions : InOrder(s) /\ Honest(s)

Counts == Running => /\ captured[ws] = Cardinality(OnTheWay(ws)) + dropped[ws]
                     /\ liveDropped <= dropped[ws]

LiveInv == LiveTypes /\ TypeOK /\ Lines /\ Counts /\ OneRuns /\ Untouched

-----------------------------------------------------------------------------
(* Sequences that rise.                                                     *)

LEMMA RisingAppend ==
  ASSUME NEW a \in Seq(Nat), NEW n \in Nat
  PROVE  /\ Range(Append(a, n)) = Range(a) \cup {n}
         /\ Rising(a) /\ Before(Range(a), {n}) => Rising(Append(a, n))
  <1>1. /\ DOMAIN Append(a, n) = 1 .. Len(a) + 1 /\ DOMAIN a = 1 .. Len(a) /\ Len(a) \in Nat
        /\ Append(a, n)[Len(a) + 1] = n
        /\ \A i \in DOMAIN a : Append(a, n)[i] = a[i]
    BY AppendIs
  <1>2. \A i \in 1 .. Len(a) + 1 : i \in 1 .. Len(a) \/ i = Len(a) + 1
    BY <1>1
  <1>3. \A i \in 1 .. Len(a) : i \in 1 .. Len(a) + 1
    BY <1>1
  <1>4. Len(a) + 1 \in 1 .. Len(a) + 1
    BY <1>1
  <1>5. Range(Append(a, n)) = Range(a) \cup {n}
    BY <1>1, <1>2, <1>3, <1>4 DEF Range
  <1>6. ASSUME Rising(a), Before(Range(a), {n}), NEW i \in 1 .. Len(a) + 1, NEW j \in 1 .. Len(a) + 1, i < j
        PROVE  Append(a, n)[i] < Append(a, n)[j]
    <2>1. i \in 1 .. Len(a)
      BY <1>1, <1>6
    <2>2. CASE j \in 1 .. Len(a)
      BY <1>1, <1>6, <2>1, <2>2 DEF Rising
    <2>3. CASE j = Len(a) + 1
      BY <1>1, <1>6, <2>1, <2>3 DEF Before, Range
    <2> QED
      BY <1>2, <2>2, <2>3
  <1> QED
    BY <1>1, <1>5, <1>6 DEF Rising

LEMMA RisingTail ==
  ASSUME NEW a \in Seq(Nat), a # << >>
  PROVE  /\ Head(a) \in Nat /\ Tail(a) \in Seq(Nat)
         /\ Range(a) = {Head(a)} \cup Range(Tail(a))
         /\ Rising(a) => Rising(Tail(a)) /\ Before({Head(a)}, Range(Tail(a)))
  <1>1. /\ Tail(a) \in Seq(Nat) /\ DOMAIN Tail(a) = 1 .. Len(a) - 1
        /\ DOMAIN a = 1 .. Len(a) /\ Len(a) \in Nat \ {0}
        /\ Head(a) = a[1] /\ 1 \in DOMAIN a /\ a[1] \in Nat
        /\ \A i \in DOMAIN Tail(a) : i + 1 \in DOMAIN a /\ Tail(a)[i] = a[i + 1]
        /\ \A i \in DOMAIN a : i # 1 => i - 1 \in DOMAIN Tail(a) /\ Tail(a)[i - 1] = a[i]
    BY TailIs
  <1>2. Range(a) = {Head(a)} \cup Range(Tail(a))
    <2>1. ASSUME NEW i \in DOMAIN a PROVE a[i] \in {Head(a)} \cup Range(Tail(a))
      <3>1. CASE i = 1
        BY <1>1, <3>1
      <3>2. CASE i # 1
        <4>1. i - 1 \in DOMAIN Tail(a) /\ Tail(a)[i - 1] = a[i]
          BY <1>1, <3>2
        <4> QED
          BY <4>1 DEF Range
      <3> QED
        BY <3>1, <3>2
    <2>2. ASSUME NEW x \in Range(Tail(a)) PROVE x \in Range(a)
      BY <1>1, <2>2 DEF Range
    <2>3. Head(a) \in Range(a)
      BY <1>1 DEF Range
    <2>4. Range(a) \subseteq {Head(a)} \cup Range(Tail(a))
      BY <2>1 DEF Range
    <2> QED
      BY <2>2, <2>3, <2>4
  <1>3. ASSUME Rising(a), NEW i \in DOMAIN Tail(a), NEW j \in DOMAIN Tail(a), i < j PROVE Tail(a)[i] < Tail(a)[j]
    <2>1. i + 1 < j + 1
      BY <1>1, <1>3
    <2> QED
      BY <1>1, <1>3, <2>1 DEF Rising
  <1>4. ASSUME Rising(a), NEW i \in DOMAIN Tail(a) PROVE a[1] < Tail(a)[i]
    <2>1. 1 < i + 1
      BY <1>1
    <2> QED
      BY <1>1, <1>4, <2>1 DEF Rising
  <1>5. Rising(a) => Rising(Tail(a))
    BY <1>3 DEF Rising
  <1>6. Rising(a) => Before({Head(a)}, Range(Tail(a)))
    BY <1>1, <1>4 DEF Before, Range
  <1> QED
    BY <1>1, <1>2, <1>5, <1>6

LEMMA RisingSplit ==
  ASSUME NEW a \in Seq(Nat), NEW n \in 0 .. Len(a)
  PROVE  LET first == SubSeq(a, 1, n)
             rest == SubSeq(a, n + 1, Len(a))
         IN  /\ first \in Seq(Nat) /\ rest \in Seq(Nat) /\ Len(rest) = Len(a) - n
             /\ Range(a) = Range(first) \cup Range(rest)
             /\ Rising(a) => Rising(first) /\ Rising(rest) /\ Before(Range(first), Range(rest))
  <1> DEFINE first == SubSeq(a, 1, n)
             rest == SubSeq(a, n + 1, Len(a))
  <1>0. Len(a) \in Nat /\ n \in Nat /\ n <= Len(a) /\ DOMAIN a = 1 .. Len(a)
    OBVIOUS
  <1>1. /\ first \in Seq(Nat) /\ DOMAIN first = 1 .. n
        /\ \A i \in 1 .. n : first[i] = a[i]
    OBVIOUS
  <1>2. /\ rest \in Seq(Nat) /\ DOMAIN rest = 1 .. Len(a) - n /\ Len(rest) = Len(a) - n
        /\ \A i \in 1 .. Len(a) - n : rest[i] = a[n + i]
    OBVIOUS
  <1> HIDE DEF first, rest
  <1>3. \A i \in 1 .. n : i \in 1 .. Len(a)
    BY <1>0
  <1>4. \A i \in 1 .. Len(a) - n : n + i \in 1 .. Len(a) /\ n + i > n
    BY <1>0
  <1>5. \A i \in 1 .. Len(a) : i \in 1 .. n \/ (i - n \in 1 .. Len(a) - n /\ n + (i - n) = i)
    BY <1>0
  <1>6. Range(a) = Range(first) \cup Range(rest)
    <2>1. ASSUME NEW i \in 1 .. Len(a) PROVE a[i] \in Range(first) \cup Range(rest)
      <3>1. CASE i \in 1 .. n
        BY <1>1, <3>1 DEF Range
      <3>2. CASE i - n \in 1 .. Len(a) - n /\ n + (i - n) = i
        <4>1. rest[i - n] = a[i]
          BY <1>2, <3>2
        <4> QED
          BY <1>2, <3>2, <4>1 DEF Range
      <3> QED
        BY <1>5, <3>1, <3>2
    <2>2. \A i \in 1 .. n : first[i] \in Range(a)
      BY <1>0, <1>1, <1>3 DEF Range
    <2>3. \A i \in 1 .. Len(a) - n : rest[i] \in Range(a)
      BY <1>0, <1>2, <1>4 DEF Range
    <2> QED
      BY <1>0, <1>1, <1>2, <2>1, <2>2, <2>3 DEF Range
  <1>7. ASSUME Rising(a) PROVE Rising(first)
    BY <1>0, <1>1, <1>3, <1>7 DEF Rising
  <1>8. ASSUME Rising(a), NEW i \in 1 .. Len(a) - n, NEW j \in 1 .. Len(a) - n, i < j PROVE rest[i] < rest[j]
    <2>1. n + i < n + j
      BY <1>0, <1>8
    <2> QED
      BY <1>0, <1>2, <1>4, <1>8, <2>1 DEF Rising
  <1>9. ASSUME Rising(a), NEW i \in 1 .. n, NEW j \in 1 .. Len(a) - n PROVE first[i] < rest[j]
    <2>1. i < n + j
      BY <1>0
    <2> QED
      BY <1>0, <1>1, <1>2, <1>3, <1>4, <1>9, <2>1 DEF Rising
  <1>10. Rising(a) => Rising(rest)
    BY <1>2, <1>8 DEF Rising
  <1>11. Rising(a) => Before(Range(first), Range(rest))
    BY <1>1, <1>2, <1>9 DEF Before, Range
  <1> QED
    BY <1>1, <1>2, <1>6, <1>7, <1>10, <1>11 DEF first, rest

(* Messages on their way.                                                   *)

ItemsOf(d) == UNION {Range(d[m].items) : m \in DOMAIN d}

InTurn(d) ==
  /\ \A m \in DOMAIN d : Rising(d[m].items)
  /\ \A m, n \in DOMAIN d : m < n => Before(Range(d[m].items), Range(d[n].items))

LEMMA OneMoreMessage ==
  ASSUME NEW d \in Seq(Message), NEW x \in Message
  PROVE  /\ Append(d, x) \in Seq(Message)
         /\ ItemsOf(Append(d, x)) = ItemsOf(d) \cup Range(x.items)
         /\ InTurn(d) /\ Rising(x.items) /\ Before(ItemsOf(d), Range(x.items)) => InTurn(Append(d, x))
         /\ \A m \in DOMAIN Append(d, x) : Append(d, x)[m] = x \/ \E n \in DOMAIN d : Append(d, x)[m] = d[n]
  <1> DEFINE e == Append(d, x)
             l == Len(d)
  <1>1. /\ e \in Seq(Message) /\ DOMAIN e = 1 .. l + 1 /\ DOMAIN d = 1 .. l /\ l \in Nat
        /\ e[l + 1] = x /\ l + 1 \in DOMAIN e
        /\ \A m \in 1 .. l : m \in 1 .. l + 1 /\ e[m] = d[m]
        /\ \A m \in 1 .. l + 1 : m \in 1 .. l \/ m = l + 1
    OBVIOUS
  <1> HIDE DEF e, l
  <1>2. ItemsOf(e) = ItemsOf(d) \cup Range(x.items)
    <2>1. ASSUME NEW y \in ItemsOf(e) PROVE y \in ItemsOf(d) \cup Range(x.items)
      BY <1>1, <2>1 DEF ItemsOf
    <2>2. ASSUME NEW y \in ItemsOf(d) PROVE y \in ItemsOf(e)
      BY <1>1, <2>2 DEF ItemsOf
    <2>3. ASSUME NEW y \in Range(x.items) PROVE y \in ItemsOf(e)
      BY <1>1, <2>3 DEF ItemsOf
    <2> QED
      BY <2>1, <2>2, <2>3
  <1>3. ASSUME InTurn(d), Rising(x.items), Before(ItemsOf(d), Range(x.items)) PROVE InTurn(e)
    <2>1. ASSUME NEW m \in 1 .. l + 1 PROVE Rising(e[m].items)
      BY <1>1, <1>3 DEF InTurn
    <2>2. ASSUME NEW m \in 1 .. l + 1, NEW n \in 1 .. l + 1, m < n PROVE Before(Range(e[m].items), Range(e[n].items))
      <3>1. m \in 1 .. l
        BY <1>1, <2>2
      <3>2. CASE n \in 1 .. l
        BY <1>1, <1>3, <2>2, <3>1, <3>2 DEF InTurn
      <3>3. CASE n = l + 1
        <4>1. Range(e[m].items) \subseteq ItemsOf(d)
          BY <1>1, <3>1 DEF ItemsOf
        <4>2. e[n] = x
          BY <1>1, <3>3
        <4> QED
          BY <1>3, <4>1, <4>2 DEF Before
      <3> QED
        BY <1>1, <3>2, <3>3
    <2> QED
      BY <1>1, <2>1, <2>2 DEF InTurn
  <1> QED
    BY <1>1, <1>2, <1>3 DEF e

LEMMA OneMessageLess ==
  ASSUME NEW d \in Seq(Message), d # << >>
  PROVE  /\ Tail(d) \in Seq(Message) /\ Head(d) \in Message
         /\ Head(d) = d[1] /\ 1 \in DOMAIN d
         /\ ItemsOf(d) = Range(Head(d).items) \cup ItemsOf(Tail(d))
         /\ InTurn(d) => InTurn(Tail(d)) /\ Rising(Head(d).items) /\ Before(Range(Head(d).items), ItemsOf(Tail(d)))
         /\ \A m \in DOMAIN Tail(d) : \E n \in DOMAIN d : Tail(d)[m] = d[n]
  <1> DEFINE e == Tail(d)
  <1>1. /\ e \in Seq(Message) /\ DOMAIN e = 1 .. Len(d) - 1
        /\ DOMAIN d = 1 .. Len(d) /\ Len(d) \in Nat \ {0}
        /\ Head(d) = d[1] /\ 1 \in DOMAIN d /\ d[1] \in Message
        /\ \A m \in DOMAIN e : m + 1 \in DOMAIN d /\ e[m] = d[m + 1]
        /\ \A m \in DOMAIN d : m # 1 => m - 1 \in DOMAIN e /\ e[m - 1] = d[m]
    BY TailIs
  <1> HIDE DEF e
  <1>2. ItemsOf(d) = Range(d[1].items) \cup ItemsOf(e)
    <2>1. ASSUME NEW m \in DOMAIN d, NEW y \in Range(d[m].items) PROVE y \in Range(d[1].items) \cup ItemsOf(e)
      <3>1. CASE m = 1
        BY <2>1, <3>1
      <3>2. CASE m # 1
        <4>1. m - 1 \in DOMAIN e /\ e[m - 1] = d[m]
          BY <1>1, <3>2
        <4> QED
          BY <2>1, <4>1 DEF ItemsOf
      <3> QED
        BY <3>1, <3>2
    <2>2. ASSUME NEW m \in DOMAIN e, NEW y \in Range(e[m].items) PROVE y \in ItemsOf(d)
      <3>1. m + 1 \in DOMAIN d /\ e[m] = d[m + 1]
        BY <1>1
      <3> QED
        BY <2>2, <3>1 DEF ItemsOf
    <2>3. ASSUME NEW y \in Range(d[1].items) PROVE y \in ItemsOf(d)
      BY <1>1, <2>3 DEF ItemsOf
    <2>4. ItemsOf(d) \subseteq Range(d[1].items) \cup ItemsOf(e)
      BY <2>1 DEF ItemsOf
    <2>5. ItemsOf(e) \subseteq ItemsOf(d)
      BY <2>2 DEF ItemsOf
    <2> QED
      BY <2>3, <2>4, <2>5
  <1>3. ASSUME InTurn(d) PROVE InTurn(e) /\ Rising(d[1].items) /\ Before(Range(d[1].items), ItemsOf(e))
    <2>1. ASSUME NEW m \in DOMAIN e PROVE Rising(e[m].items) /\ Before(Range(d[1].items), Range(e[m].items))
      <3>1. m + 1 \in DOMAIN d /\ e[m] = d[m + 1] /\ 1 < m + 1
        BY <1>1
      <3> QED
        BY <1>1, <1>3, <3>1 DEF InTurn
    <2>2. ASSUME NEW m \in DOMAIN e, NEW n \in DOMAIN e, m < n PROVE Before(Range(e[m].items), Range(e[n].items))
      <3>1. m + 1 \in DOMAIN d /\ e[m] = d[m + 1] /\ n + 1 \in DOMAIN d /\ e[n] = d[n + 1] /\ m + 1 < n + 1
        BY <1>1, <2>2
      <3> QED
        BY <1>3, <3>1 DEF InTurn
    <2>3. Rising(d[1].items)
      BY <1>1, <1>3 DEF InTurn
    <2>4. Before(Range(d[1].items), ItemsOf(e))
      BY <2>1 DEF Before, ItemsOf
    <2> QED
      BY <2>1, <2>2, <2>3, <2>4 DEF InTurn
  <1> QED
    BY <1>1, <1>2, <1>3 DEF e
-----------------------------------------------------------------------------
(* The steps.                                                               *)

LEMMA WsIsSession ==
  ASSUME LiveInv
  PROVE  ws # Nobody => ws \in Sessions
  BY LiveAssumption DEF LiveInv, TypeOK, Nobody, Sessions

LEMMA Unmoved ==
  ASSUME NEW t \in Sessions, queue'[t] = queue[t], callbacks'[t] = callbacks[t], down'[t] = down[t],
         shown' = shown
  PROVE  OnTheWay(t)' = OnTheWay(t) /\ (InOrder(t) => InOrder(t)')
  <1>1. ShownOf(t)' = ShownOf(t) /\ Sent(t)' = Sent(t)
    BY DEF ShownOf, Sent
  <1> QED
    BY <1>1 DEF OnTheWay, InOrder

LEMMA StillHonest ==
  ASSUME NEW t \in Sessions, queue'[t] = queue[t], callbacks'[t] = callbacks[t], down'[t] = down[t],
         shown' = shown, captured'[t] = captured[t], dropped'[t] = dropped[t], InOrder(t) /\ Honest(t)
  PROVE  InOrder(t)' /\ Honest(t)'
  BY Unmoved DEF Honest

\* A step that moves no packet: at most a word is sent to the page that is
\* connected.
LEMMA QuietStep ==
  ASSUME LiveInv, NEW s \in Sessions, NEW x \in {Hello, Error},
         UNCHANGED <<captured, callbacks, queue, dropped, socket, started, ws, attached, mode, shown, liveDropped>>,
         down' = down \/ (Connected(s) /\ Send(s, x))
  PROVE  LiveTypes' /\ Lines' /\ Counts' /\ OneRuns'
  <1>0. /\ x \in Message /\ x.items = << >> /\ x.dropped = 0
    <2>1. << >> \in Seq(Nat)
      OBVIOUS
    <2>2. Error = [type |-> "error", items |-> << >>, dropped |-> 0]
      BY DEF Error, Hello
    <2>3. Hello = [type |-> "hello", items |-> << >>, dropped |-> 0]
      BY DEF Hello
    <2>4. CASE x = Hello
      BY <2>1, <2>3, <2>4 DEF Message
    <2>5. CASE x = Error
      BY <2>1, <2>2, <2>5 DEF Message
    <2> QED
      BY <2>4, <2>5
  <1>1. CASE down' = down
    <2>1. \A t \in Sessions : OnTheWay(t)' = OnTheWay(t) /\ InOrder(t)' /\ Honest(t)'
      BY <1>1, Unmoved, StillHonest DEF LiveInv, Lines
    <2>2. Running' = Running
      BY DEF Running, Connected
    <2>3. Counts'
      BY <2>1, <2>2, WsIsSession DEF Counts, LiveInv, Running
    <2>4. OneRuns'
      BY <1>1, <2>2 DEF OneRuns, LiveInv, Connected
    <2> QED
      BY <1>1, <2>1, <2>3, <2>4 DEF Lines, LiveInv, LiveTypes
  <1>2. CASE Connected(s) /\ Send(s, x)
    <2>1. /\ down[s] \in Seq(Message) /\ down'[s] = Append(down[s], x) /\ down' \in [Sessions -> Seq(Message)]
          /\ \A t \in Sessions : t # s => down'[t] = down[t]
      <3>1. down \in [Sessions -> Seq(Message)] /\ down' = [down EXCEPT ![s] = Append(@, x)]
        BY <1>2 DEF LiveInv, LiveTypes, Send
      <3>2. down[s] \in Seq(Message) /\ Append(down[s], x) \in Seq(Message)
        BY <1>0, <3>1
      <3> QED
        BY <3>1, <3>2
    <2>2. Range(x.items) = {} /\ Rising(x.items)
      BY <1>0 DEF Range, Rising
    <2>3. /\ ItemsOf(down'[s]) = ItemsOf(down[s])
          /\ InTurn(down[s]) => InTurn(down'[s])
          /\ \A m \in DOMAIN down'[s] : down'[s][m] = x \/ \E n \in DOMAIN down[s] : down'[s][m] = down[s][n]
      <3>1. Before(ItemsOf(down[s]), Range(x.items))
        BY <2>2 DEF Before
      <3> DEFINE d == down[s]
      <3>2. d \in Seq(Message)
        BY <2>1
      <3> HIDE DEF d
      <3>3. /\ ItemsOf(Append(d, x)) = ItemsOf(d) \cup Range(x.items)
            /\ InTurn(d) /\ Rising(x.items) /\ Before(ItemsOf(d), Range(x.items)) => InTurn(Append(d, x))
            /\ \A m \in DOMAIN Append(d, x) : Append(d, x)[m] = x \/ \E n \in DOMAIN d : Append(d, x)[m] = d[n]
        BY <1>0, <3>2, OneMoreMessage
      <3> QED
        BY <2>1, <2>2, <3>1, <3>3 DEF d
    <2>4. Sent(s)' = Sent(s) /\ ShownOf(s)' = ShownOf(s)
      BY <2>3 DEF Sent, ItemsOf, ShownOf
    <2>5. OnTheWay(s)' = OnTheWay(s) /\ InOrder(s)'
      BY <2>3, <2>4 DEF OnTheWay, InOrder, InTurn, LiveInv, Lines
    <2>6. Honest(s)'
      <3>1. dropped[s] \in Nat
        BY DEF LiveInv, TypeOK
      <3> QED
        BY <1>0, <2>3, <2>5, <3>1 DEF Honest, LiveInv, Lines
    <2>7. \A t \in Sessions : OnTheWay(t)' = OnTheWay(t) /\ InOrder(t)' /\ Honest(t)'
      <3>1. ASSUME NEW t \in Sessions, t # s PROVE OnTheWay(t)' = OnTheWay(t) /\ InOrder(t)' /\ Honest(t)'
        BY <2>1, <3>1, Unmoved, StillHonest DEF LiveInv, Lines
      <3> QED
        BY <2>5, <2>6, <3>1
    <2>8. Running' = Running
      BY DEF Running, Connected
    <2>9. Counts'
      BY <2>7, <2>8, WsIsSession DEF Counts, LiveInv, Running
    <2>10. OneRuns'
      BY <1>2, <2>1, <2>8 DEF OneRuns, LiveInv, Connected
    <2> QED
      BY <2>1, <2>7, <2>9, <2>10 DEF Lines, LiveInv, LiveTypes
  <1> QED
    BY <1>1, <1>2

\* Where a packet is taken into account: one session's queue, callbacks and
\* messages change.
Others(s) ==
  \A t \in Sessions \ {s} :
    /\ queue'[t] = queue[t] /\ callbacks'[t] = callbacks[t] /\ down'[t] = down[t]
    /\ captured'[t] = captured[t] /\ dropped'[t] = dropped[t]

LEMMA StepOf ==
  ASSUME LiveInv, NEW s \in Sessions, Others(s), LiveTypes',
         UNCHANGED <<socket, started, ws, attached, mode, shown, liveDropped>>,
         InOrder(s)', Honest(s)',
         Connected(s) /\ captured[s] = Cardinality(OnTheWay(s)) + dropped[s]
           => captured'[s] = Cardinality(OnTheWay(s)') + dropped'[s],
         dropped[s] <= dropped'[s], dropped'[s] \in Nat,
         Connected(s) \/ down'[s] = << >>
  PROVE  Lines' /\ Counts' /\ OneRuns'
  <1>1. ASSUME NEW t \in Sessions, t # s PROVE OnTheWay(t)' = OnTheWay(t) /\ InOrder(t)' /\ Honest(t)'
    BY <1>1, Unmoved, StillHonest DEF LiveInv, Lines, Others
  <1>2. Running' = Running
    BY DEF Running, Connected
  <1>3. Counts'
    <2>1. ASSUME Running
          PROVE  captured'[ws] = Cardinality(OnTheWay(ws)') + dropped'[ws] /\ liveDropped <= dropped'[ws]
      <3>0. ws \in Sessions /\ captured[ws] = Cardinality(OnTheWay(ws)) + dropped[ws] /\ liveDropped <= dropped[ws]
        BY <2>1, WsIsSession DEF Running, LiveInv, Counts
      <3>1. CASE ws = s
        <4>1. dropped[s] \in Nat /\ liveDropped \in Nat
          BY DEF LiveInv, TypeOK
        <4> QED
          BY <2>1, <3>0, <3>1, <4>1 DEF Running
      <3>2. CASE ws # s
        BY <1>1, <3>0, <3>2 DEF Others
      <3> QED
        BY <3>1, <3>2
    <2>2. (Running => captured[ws] = Cardinality(OnTheWay(ws)) + dropped[ws] /\ liveDropped <= dropped[ws])'
      <3>1. CASE Running
        <4>1. ws' = ws /\ liveDropped' = liveDropped
          OBVIOUS
        <4> QED
          BY <2>1, <3>1, <4>1
      <3>2. CASE ~Running
        BY <1>2, <3>2
      <3> QED
        BY <3>1, <3>2
    <2> QED
      BY <2>2 DEF Counts
  <1>4. OneRuns'
    BY <1>2 DEF OneRuns, LiveInv, Connected, Others
  <1> QED
    BY <1>1, <1>3, <1>4 DEF Lines

\* A packet comes from the network.
LEMMA OnPacketInv ==
  ASSUME LiveInv, NEW s \in Sessions, OnPacket(s)
  PROVE  LiveInv'
  <1> DEFINE n == captured[s] + 1
  <1>0. /\ UNCHANGED <<run, pump, sniffer, queue, dropped, socket, down, pageVars>>
        /\ captured' = [captured EXCEPT ![s] = n] /\ captured[s] \in Nat /\ n \in Nat
        /\ callbacks' = [callbacks EXCEPT ![s] = Append(@, n)] /\ callbacks[s] \in Seq(Nat)
        /\ ~(s > started)
    <2>1. captured[s] \in Nat /\ callbacks[s] \in Seq(Nat)
      BY DEF LiveInv, LiveTypes, TypeOK
    <2>2. ~(s > started)
      BY DEF OnPacket, LiveInv, Untouched
    <2> QED
      BY <2>1, <2>2 DEF OnPacket
  <1> HIDE DEF n
  <1>1. LiveTypes' /\ TypeOK' /\ Untouched' /\ Others(s) /\ callbacks'[s] = Append(callbacks[s], n) /\ captured'[s] = n
    <2>1. Append(callbacks[s], n) \in Seq(Nat)
      BY <1>0
    <2>2. callbacks \in [Sessions -> Seq(Nat)] /\ captured \in [Sessions -> Nat]
      BY DEF LiveInv, LiveTypes, TypeOK
    <2>3. callbacks' \in [Sessions -> Seq(Nat)] /\ captured' \in [Sessions -> Nat]
      BY <1>0, <2>1, <2>2
    <2>4. callbacks'[s] = Append(callbacks[s], n) /\ captured'[s] = n
      BY <1>0, <2>2
    <2>5. Others(s)
      BY <1>0, <2>2 DEF Others
    <2>6. LiveTypes' /\ TypeOK'
      BY <1>0, <2>3 DEF LiveInv, LiveTypes, TypeOK, pageVars
    <2>7. Untouched'
      BY <1>0, <2>5 DEF LiveInv, Untouched, Others, Sessions, pageVars
    <2> QED
      BY <2>4, <2>5, <2>6, <2>7
  <1>2. /\ Range(callbacks'[s]) = Range(callbacks[s]) \cup {n}
        /\ Rising(callbacks[s]) /\ Before(Range(callbacks[s]), {n}) => Rising(callbacks'[s])
    BY <1>0, <1>1, RisingAppend
  <1>3. /\ OnTheWay(s) \subseteq 1 .. captured[s] /\ \A x \in OnTheWay(s) : x < n
    BY <1>0 DEF LiveInv, Lines, Honest, n
  <1>4. ShownOf(s)' = ShownOf(s) /\ Sent(s)' = Sent(s) /\ queue'[s] = queue[s] /\ down'[s] = down[s]
    BY <1>0 DEF ShownOf, Sent, pageVars
  <1>5. OnTheWay(s)' = OnTheWay(s) \cup {n}
    BY <1>2, <1>4 DEF OnTheWay
  <1>6. InOrder(s)'
    <2>1. /\ Before(ShownOf(s), {n}) /\ Before(Sent(s), {n}) /\ Before(Range(queue[s]), {n})
          /\ Before(Range(callbacks[s]), {n})
      BY <1>3 DEF OnTheWay, Before
    <2>2. InOrder(s)
      BY DEF LiveInv, Lines
    <2>3. shown' = shown
      BY <1>0 DEF pageVars
    <2>4. Before(ShownOf(s), Sent(s) \cup Range(queue[s]) \cup Range(callbacks'[s]))
      BY <1>2, <2>1, <2>2 DEF InOrder, Before
    <2>5. Before(Sent(s), Range(queue[s]) \cup Range(callbacks'[s])) /\ Before(Range(queue[s]), Range(callbacks'[s]))
      BY <1>2, <2>1, <2>2 DEF InOrder, Before
    <2>6. Rising(callbacks'[s])
      BY <1>2, <2>1, <2>2 DEF InOrder
    <2> QED
      BY <1>4, <2>2, <2>3, <2>4, <2>5, <2>6 DEF InOrder
  <1>7. Honest(s)'
    <2>1. OnTheWay(s)' \subseteq 1 .. captured'[s]
      BY <1>0, <1>1, <1>3, <1>5 DEF n
    <2>2. dropped' = dropped
      BY <1>0
    <2> QED
      BY <1>4, <2>1, <2>2 DEF Honest, LiveInv, Lines
  <1>8. captured[s] = Cardinality(OnTheWay(s)) + dropped[s]
          => captured'[s] = Cardinality(OnTheWay(s)') + dropped'[s]
    <2>1. IsFiniteSet(OnTheWay(s))
      BY <1>0, <1>3, UpTo, FS_Subset
    <2>2. Cardinality(OnTheWay(s) \cup {n}) = Cardinality(OnTheWay(s)) + 1 /\ Cardinality(OnTheWay(s)) \in Nat
      <3>1. n \notin OnTheWay(s)
        BY <1>0, <1>3
      <3> QED
        BY <2>1, <3>1, FS_AddElement, FS_CardinalityType
    <2>3. dropped' = dropped /\ dropped[s] \in Nat
      BY <1>0 DEF LiveInv, TypeOK
    <2>4. n = captured[s] + 1
      BY DEF n
    <2>5. Cardinality(OnTheWay(s)') = Cardinality(OnTheWay(s)) + 1
      BY <1>5, <2>2
    <2>6. captured[s] \in Nat /\ captured'[s] = captured[s] + 1 /\ dropped'[s] = dropped[s]
      BY <1>0, <1>1, <2>3, <2>4
    <2> DEFINE c == Cardinality(OnTheWay(s))
               d == Cardinality(OnTheWay(s)')
    <2>7. c \in Nat /\ d = c + 1
      BY <2>2, <2>5
    <2> HIDE DEF c, d
    <2>8. captured[s] = c + dropped[s] => captured'[s] = d + dropped'[s]
      BY <2>3, <2>6, <2>7
    <2> QED
      BY <2>8 DEF c, d
  <1>9. dropped[s] <= dropped'[s] /\ dropped'[s] \in Nat
    BY <1>0 DEF LiveInv, TypeOK
  <1>10. Connected(s) \/ down'[s] = << >>
    BY <1>4 DEF LiveInv, OneRuns
  <1>11. UNCHANGED <<socket, started, ws, attached, mode, shown, liveDropped>>
    BY <1>0 DEF pageVars
  <1>12. Lines' /\ Counts' /\ OneRuns'
    BY <1>1, <1>6, <1>7, <1>8, <1>9, <1>10, <1>11, StepOf
  <1> QED
    BY <1>1, <1>12 DEF LiveInv

\* The loop takes a packet into the queue, or drops it.
LEMMA EnqueueInv ==
  ASSUME LiveInv, NEW s \in Sessions, Enqueue(s)
  PROVE  LiveInv'
  <1> DEFINE h == Head(callbacks[s])
  <1>0. /\ UNCHANGED <<run, pump, sniffer, captured, socket, down, pageVars>>
        /\ callbacks' = [callbacks EXCEPT ![s] = Tail(@)] /\ callbacks[s] # << >>
    BY DEF Enqueue
  <1>1. /\ callbacks[s] \in Seq(Nat) /\ queue[s] \in Seq(Nat) /\ captured[s] \in Nat /\ dropped[s] \in Nat
        /\ callbacks \in [Sessions -> Seq(Nat)] /\ queue \in [Sessions -> Seq(Nat)]
        /\ dropped \in [Sessions -> Nat] /\ QUEUE_CAP \in Nat /\ Len(queue[s]) \in Nat
    BY LiveAssumption DEF LiveInv, LiveTypes, TypeOK
  <1>2. /\ h \in Nat /\ Tail(callbacks[s]) \in Seq(Nat)
        /\ Range(callbacks[s]) = {h} \cup Range(Tail(callbacks[s]))
        /\ Rising(callbacks[s]) => Rising(Tail(callbacks[s])) /\ Before({h}, Range(Tail(callbacks[s])))
    BY <1>0, <1>1, RisingTail
  <1> HIDE DEF h
  <1>3. callbacks' \in [Sessions -> Seq(Nat)] /\ callbacks'[s] = Tail(callbacks[s]) /\ ~(s > started)
        /\ \A t \in Sessions : t # s => callbacks'[t] = callbacks[t]
    <2>1. ~(s > started)
      BY <1>0 DEF LiveInv, Untouched
    <2> QED
      BY <1>0, <1>1, <1>2, <2>1
  <1>4. ShownOf(s)' = ShownOf(s) /\ Sent(s)' = Sent(s) /\ down'[s] = down[s] /\ shown' = shown
    BY <1>0 DEF ShownOf, Sent, pageVars
  <1>5. InOrder(s) /\ Honest(s)
    BY DEF LiveInv, Lines
  <1>6. Connected(s) \/ down'[s] = << >>
    BY <1>4 DEF LiveInv, OneRuns
  <1>7. UNCHANGED <<socket, started, ws, attached, mode, shown, liveDropped>>
    BY <1>0 DEF pageVars
  <1>8. CASE Len(queue[s]) >= QUEUE_CAP
    <2>0. dropped' = [dropped EXCEPT ![s] = @ + 1] /\ queue' = queue
      BY <1>8 DEF Enqueue
    <2>1. LiveTypes' /\ TypeOK' /\ Untouched' /\ Others(s) /\ dropped'[s] = dropped[s] + 1
      <3>1. dropped' \in [Sessions -> Nat] /\ dropped'[s] = dropped[s] + 1
            /\ \A t \in Sessions : t # s => dropped'[t] = dropped[t]
        BY <1>1, <2>0
      <3>2. Others(s)
        BY <1>0, <1>3, <2>0, <3>1 DEF Others
      <3>3. LiveTypes' /\ TypeOK'
        BY <1>0, <1>3, <2>0, <3>1 DEF LiveInv, LiveTypes, TypeOK, pageVars
      <3>4. Untouched'
        BY <1>0, <1>3, <3>2 DEF LiveInv, Untouched, Others, pageVars
      <3> QED
        BY <3>1, <3>2, <3>3, <3>4
    <2>2. Range(queue'[s]) = Range(queue[s]) /\ queue'[s] = queue[s]
      BY <2>0
    <2>3. /\ \A x \in ShownOf(s) : x < h
          /\ \A x \in Sent(s) : x < h
          /\ \A x \in Range(queue[s]) : x < h
          /\ \A x \in Range(Tail(callbacks[s])) : h < x
      BY <1>2, <1>5 DEF InOrder, Before
    <2>4. OnTheWay(s)' = OnTheWay(s) \ {h} /\ h \in OnTheWay(s)
      <3>1. h \notin ShownOf(s) /\ h \notin Sent(s) /\ h \notin Range(queue[s]) /\ h \notin Range(Tail(callbacks[s]))
        BY <1>2, <2>3
      <3> QED
        BY <1>2, <1>3, <1>4, <2>2, <3>1 DEF OnTheWay
    <2>5. InOrder(s)'
      <3>1. Range(callbacks'[s]) \subseteq Range(callbacks[s]) /\ Rising(callbacks'[s])
        BY <1>2, <1>3, <1>5 DEF InOrder
      <3> QED
        BY <1>4, <1>5, <2>2, <3>1 DEF InOrder, Before
    <2>6. Honest(s)'
      <3>1. \A m \in DOMAIN down[s] : down[s][m].dropped \in Nat
        <4>1. down[s] \in Seq(Message)
          BY DEF LiveInv, LiveTypes
        <4>2. \A m \in DOMAIN down[s] : down[s][m] \in Message
          BY <4>1
        <4> QED
          BY <4>2 DEF Message
      <3>2. \A m \in DOMAIN down[s] : down[s][m].dropped <= dropped'[s]
        BY <1>1, <1>5, <2>1, <3>1 DEF Honest
      <3>3. OnTheWay(s)' \subseteq 1 .. captured'[s]
        BY <1>0, <1>5, <2>4 DEF Honest
      <3> QED
        BY <1>4, <1>5, <3>2, <3>3 DEF Honest
    <2>7. captured[s] = Cardinality(OnTheWay(s)) + dropped[s]
            => captured'[s] = Cardinality(OnTheWay(s)') + dropped'[s]
      <3> DEFINE c == Cardinality(OnTheWay(s))
                 d == Cardinality(OnTheWay(s)')
      <3>1. IsFiniteSet(OnTheWay(s))
        BY <1>1, <1>5, UpTo, FS_Subset DEF Honest
      <3>2. c \in Nat /\ d = c - 1
        <4>1. Cardinality(OnTheWay(s) \ {h}) = Cardinality(OnTheWay(s)) - 1
          BY <2>4, <3>1, FS_RemoveElement
        <4>2. Cardinality(OnTheWay(s)) \in Nat
          BY <3>1, FS_CardinalityType
        <4> QED
          BY <2>4, <4>1, <4>2
      <3>3. captured'[s] = captured[s]
        BY <1>0
      <3> HIDE DEF c, d
      <3>4. captured[s] = c + dropped[s] => captured'[s] = d + dropped'[s]
        BY <1>1, <2>1, <3>2, <3>3
      <3> QED
        BY <3>4 DEF c, d
    <2>8. dropped[s] <= dropped'[s] /\ dropped'[s] \in Nat
      BY <1>1, <2>1
    <2>9. Lines' /\ Counts' /\ OneRuns'
      BY <1>6, <1>7, <2>1, <2>5, <2>6, <2>7, <2>8, StepOf
    <2> QED
      BY <2>1, <2>9 DEF LiveInv
  <1>9. CASE ~(Len(queue[s]) >= QUEUE_CAP)
    <2>0. queue' = [queue EXCEPT ![s] = Append(@, h)] /\ dropped' = dropped
      BY <1>9 DEF Enqueue, h
    <2>1. LiveTypes' /\ TypeOK' /\ Untouched' /\ Others(s) /\ queue'[s] = Append(queue[s], h)
      <3>1. Append(queue[s], h) \in Seq(Nat) /\ Len(Append(queue[s], h)) = Len(queue[s]) + 1
        BY <1>1, <1>2
      <3>2. queue' \in [Sessions -> Seq(Nat)] /\ queue'[s] = Append(queue[s], h)
            /\ \A t \in Sessions : t # s => queue'[t] = queue[t]
        BY <1>1, <2>0, <3>1
      <3>3. Len(queue'[s]) <= QUEUE_CAP
        BY <1>1, <1>9, <3>1, <3>2
      <3>4. Others(s)
        BY <1>0, <1>3, <2>0, <3>2 DEF Others
      <3>5. \A t \in Sessions : Len(queue'[t]) <= QUEUE_CAP
        BY <3>2, <3>3 DEF LiveInv, TypeOK
      <3>6. LiveTypes' /\ TypeOK'
        BY <1>0, <1>3, <2>0, <3>2, <3>5 DEF LiveInv, LiveTypes, TypeOK, pageVars
      <3>7. Untouched'
        BY <1>0, <1>3, <3>4 DEF LiveInv, Untouched, Others, pageVars
      <3> QED
        BY <3>2, <3>4, <3>6, <3>7
    <2>2. /\ Range(queue'[s]) = Range(queue[s]) \cup {h}
          /\ Rising(queue[s]) /\ Before(Range(queue[s]), {h}) => Rising(queue'[s])
      BY <1>1, <1>2, <2>1, RisingAppend
    <2>3. OnTheWay(s)' = OnTheWay(s)
      BY <1>2, <1>3, <1>4, <2>2 DEF OnTheWay
    <2>4. InOrder(s)'
      <3>1. Before(Range(queue[s]), {h}) /\ Before({h}, Range(callbacks'[s])) /\ Rising(callbacks'[s])
        BY <1>2, <1>3, <1>5 DEF InOrder, Before
      <3>2. Before(Range(queue'[s]), Range(callbacks'[s])) /\ Rising(queue'[s])
        BY <1>2, <1>3, <1>5, <2>2, <3>1 DEF InOrder, Before
      <3>3. Range(queue'[s]) \cup Range(callbacks'[s]) = Range(queue[s]) \cup Range(callbacks[s])
        BY <1>2, <1>3, <2>2
      <3>4. Before(Sent(s), Range(queue'[s]) \cup Range(callbacks'[s]))
        BY <1>5, <3>3 DEF InOrder
      <3>5. Before(ShownOf(s), Sent(s) \cup Range(queue'[s]) \cup Range(callbacks'[s]))
        BY <1>5, <3>3 DEF InOrder, Before
      <3> QED
        BY <1>4, <1>5, <3>1, <3>2, <3>4, <3>5 DEF InOrder
    <2>5. Honest(s)'
      BY <1>0, <1>4, <1>5, <2>0, <2>3 DEF Honest
    <2>6. captured[s] = Cardinality(OnTheWay(s)) + dropped[s]
            => captured'[s] = Cardinality(OnTheWay(s)') + dropped'[s]
      BY <1>0, <2>0, <2>3
    <2>7. dropped[s] <= dropped'[s] /\ dropped'[s] \in Nat
      BY <1>1, <2>0
    <2>8. Lines' /\ Counts' /\ OneRuns'
      BY <1>6, <1>7, <2>1, <2>4, <2>5, <2>6, <2>7, StepOf
    <2> QED
      BY <2>1, <2>8 DEF LiveInv
  <1> QED
    BY <1>8, <1>9

\* The pump sends what is queued, or fails.
LEMMA SendBatchInv ==
  ASSUME LiveInv, NEW s \in Sessions, SendBatch(s)
  PROVE  LiveInv'
  <1> DEFINE n == BatchSize(s)
             first == SubSeq(queue[s], 1, n)
             rest == SubSeq(queue[s], n + 1, Len(queue[s]))
             x == PacketsMsg(first, dropped[s])
  <1>0. /\ UNCHANGED <<run, sniffer, captured, callbacks, dropped, socket, pageVars>>
        /\ pump[s] = "streaming"
        /\ queue' = [queue EXCEPT ![s] = rest]
        /\ pump' = pump \/ pump' = [pump EXCEPT ![s] = "failed"]
        /\ IF Connected(s) THEN down' = [down EXCEPT ![s] = Append(@, x)] ELSE down' = down
    BY DEF SendBatch, Send, Batch, Told
  <1>1. /\ queue[s] \in Seq(Nat) /\ down[s] \in Seq(Message) /\ captured[s] \in Nat /\ dropped[s] \in Nat
        /\ queue \in [Sessions -> Seq(Nat)] /\ down \in [Sessions -> Seq(Message)]
        /\ QUEUE_CAP \in Nat /\ Len(queue[s]) \in Nat /\ n \in 0 .. Len(queue[s])
        /\ Len(queue[s]) <= QUEUE_CAP
    BY LiveAssumption DEF LiveInv, LiveTypes, TypeOK, BatchSize
  <1> HIDE DEF n
  <1>2. /\ first \in Seq(Nat) /\ rest \in Seq(Nat) /\ Len(rest) = Len(queue[s]) - n
        /\ Range(queue[s]) = Range(first) \cup Range(rest)
        /\ Rising(queue[s]) => Rising(first) /\ Rising(rest) /\ Before(Range(first), Range(rest))
    BY <1>1, RisingSplit
  <1> HIDE DEF first, rest
  <1>3. x \in Message /\ x.items = first /\ x.dropped = dropped[s] /\ x.type = "packets"
    BY <1>1, <1>2 DEF PacketsMsg, Message
  <1> HIDE DEF x
  <1>4. /\ queue' \in [Sessions -> Seq(Nat)] /\ queue'[s] = rest
        /\ \A t \in Sessions : t # s => queue'[t] = queue[t]
    BY <1>0, <1>1, <1>2
  <1>5. /\ down' \in [Sessions -> Seq(Message)]
        /\ \A t \in Sessions : t # s => down'[t] = down[t]
        /\ Connected(s) => down'[s] = Append(down[s], x)
        /\ ~Connected(s) => down'[s] = down[s]
    <2>1. Append(down[s], x) \in Seq(Message)
      BY <1>1, <1>3
    <2> QED
      BY <1>0, <1>1, <2>1
  <1>6. Others(s)
    BY <1>0, <1>4, <1>5 DEF Others
  <1>7. LiveTypes' /\ TypeOK' /\ Untouched'
    <2>1. Len(queue'[s]) <= QUEUE_CAP
      BY <1>1, <1>2, <1>4
    <2>2. \A t \in Sessions : Len(queue'[t]) <= QUEUE_CAP
      BY <1>4, <2>1 DEF LiveInv, TypeOK
    <2>3. LiveTypes'
      BY <1>0, <1>4, <1>5 DEF LiveInv, LiveTypes, pageVars
    <2>4. TypeOK'
      BY <1>0, <2>2 DEF LiveInv, TypeOK, pageVars
    <2>5. Untouched'
      <3>1. ~(s > started) /\ started' = started
        BY <1>0 DEF LiveInv, Untouched, pageVars
      <3>2. pump \in [Sessions -> {"none", "created", "starting", "streaming", "returned", "failed", "cancelled"}]
        BY DEF LiveInv, TypeOK
      <3>3. \A t \in Sessions : t # s => pump'[t] = pump[t]
        BY <1>0, <3>2
      <3> QED
        BY <1>0, <1>6, <3>1, <3>3 DEF LiveInv, Untouched, Others
    <2> QED
      BY <2>3, <2>4, <2>5
  <1>8. ShownOf(s)' = ShownOf(s) /\ shown' = shown /\ callbacks'[s] = callbacks[s]
        /\ captured'[s] = captured[s] /\ dropped'[s] = dropped[s]
    BY <1>0 DEF ShownOf, pageVars
  <1>9. InOrder(s) /\ Honest(s)
    BY DEF LiveInv, Lines
  <1>10. UNCHANGED <<socket, started, ws, attached, mode, shown, liveDropped>>
    BY <1>0 DEF pageVars
  <1>11. InOrder(s)' /\ Honest(s)' /\ (Connected(s) => OnTheWay(s)' = OnTheWay(s))
    <2>1. CASE Connected(s)
      <3> DEFINE d == down[s]
      <3>0. d \in Seq(Message)
        BY <1>1
      <3> HIDE DEF d
      <3>1. /\ ItemsOf(Append(d, x)) = ItemsOf(d) \cup Range(x.items)
            /\ InTurn(d) /\ Rising(x.items) /\ Before(ItemsOf(d), Range(x.items)) => InTurn(Append(d, x))
            /\ \A m \in DOMAIN Append(d, x) : Append(d, x)[m] = x \/ \E k \in DOMAIN d : Append(d, x)[m] = d[k]
        BY <1>3, <3>0, OneMoreMessage
      <3>2. /\ ItemsOf(down'[s]) = ItemsOf(down[s]) \cup Range(first)
            /\ InTurn(down[s]) /\ Rising(first) /\ Before(ItemsOf(down[s]), Range(first)) => InTurn(down'[s])
            /\ \A m \in DOMAIN down'[s] : down'[s][m] = x \/ \E k \in DOMAIN down[s] : down'[s][m] = down[s][k]
        BY <1>3, <1>5, <2>1, <3>1 DEF d
      <3>3. Sent(s) = ItemsOf(down[s]) /\ Sent(s)' = ItemsOf(down'[s])
        BY DEF Sent, ItemsOf
      <3>4. Sent(s)' \cup Range(queue'[s]) = Sent(s) \cup Range(queue[s])
        BY <1>2, <1>4, <3>2, <3>3
      <3>5. OnTheWay(s)' = OnTheWay(s)
        BY <1>8, <3>4 DEF OnTheWay
      <3>6. InTurn(down'[s])
        <4>1. Before(ItemsOf(down[s]), Range(first)) /\ InTurn(down[s]) /\ Rising(first)
          BY <1>2, <1>9, <3>3 DEF InOrder, InTurn, Before
        <4> QED
          BY <3>2, <4>1
      <3>7. Before(ShownOf(s), Sent(s)' \cup Range(queue'[s]) \cup Range(callbacks[s]))
        BY <1>9, <3>4 DEF InOrder
      <3>8. Before(Sent(s)', Range(queue'[s]) \cup Range(callbacks[s]))
        BY <1>2, <1>4, <1>9, <3>2, <3>3 DEF InOrder, Before
      <3>9. Before(Range(queue'[s]), Range(callbacks[s])) /\ Rising(queue'[s])
        BY <1>2, <1>4, <1>9 DEF InOrder, Before
      <3>10. InOrder(s)'
        BY <1>8, <1>9, <3>6, <3>7, <3>8, <3>9 DEF InOrder, InTurn
      <3>11. Honest(s)'
        <4>1. ASSUME NEW m \in DOMAIN down'[s]
              PROVE  /\ down'[s][m].dropped <= dropped[s]
                     /\ down'[s][m].type # "packets" => down'[s][m].items = << >>
          <5>1. CASE down'[s][m] = x
            BY <1>1, <1>3, <5>1
          <5>2. CASE \E k \in DOMAIN down[s] : down'[s][m] = down[s][k]
            BY <1>9, <5>2 DEF Honest
          <5> QED
            BY <3>2, <5>1, <5>2
        <4>2. OnTheWay(s)' \subseteq 1 .. captured[s]
          BY <1>9, <3>5 DEF Honest
        <4> QED
          BY <1>8, <4>1, <4>2 DEF Honest
      <3> QED
        BY <3>5, <3>10, <3>11
    <2>2. CASE ~Connected(s)
      <3>1. Sent(s)' = Sent(s) /\ down'[s] = down[s]
        BY <1>5, <2>2 DEF Sent
      <3>2. Range(queue'[s]) \subseteq Range(queue[s]) /\ Rising(queue'[s])
        BY <1>2, <1>4, <1>9 DEF InOrder
      <3>3. InOrder(s)'
        BY <1>8, <1>9, <3>1, <3>2 DEF InOrder, Before
      <3>4. OnTheWay(s)' \subseteq OnTheWay(s)
        BY <1>8, <3>1, <3>2 DEF OnTheWay
      <3>5. Honest(s)'
        BY <1>8, <1>9, <3>1, <3>4 DEF Honest
      <3> QED
        BY <2>2, <3>3, <3>5
    <2> QED
      BY <2>1, <2>2
  <1>12. Connected(s) /\ captured[s] = Cardinality(OnTheWay(s)) + dropped[s]
          => captured'[s] = Cardinality(OnTheWay(s)') + dropped'[s]
    BY <1>8, <1>11
  <1>13. Connected(s) \/ down'[s] = << >>
    BY <1>5 DEF LiveInv, OneRuns
  <1>14. dropped[s] <= dropped'[s] /\ dropped'[s] \in Nat
    BY <1>1, <1>8
  <1>15. Lines' /\ Counts' /\ OneRuns'
    BY <1>6, <1>7, <1>10, <1>11, <1>12, <1>13, <1>14, StepOf
  <1> QED
    BY <1>7, <1>15 DEF LiveInv

\* A message arrives.
LEMMA ShownLine ==
  ASSUME LiveInv, NEW s \in Sessions, NEW a \in Seq(Nat), Rising(a), Before(ShownOf(s), Range(a)),
         shown' = shown \o [i \in DOMAIN a |-> <<s, a[i]>>]
  PROVE  /\ shown' \in Seq(Sessions \X Nat)
         /\ ShownOf(s)' = ShownOf(s) \cup Range(a)
         /\ \A t \in Sessions : t # s => ShownOf(t)' = ShownOf(t)
         /\ (\A i \in DOMAIN shown : shown[i][1] = s) => (\A i \in DOMAIN shown' : shown'[i][1] = s)
         /\ \A t \in Sessions : \A i, j \in DOMAIN shown' :
              i < j /\ shown'[i][1] = t /\ shown'[j][1] = t => shown'[i][2] < shown'[j][2]
  <1> DEFINE b == [i \in DOMAIN a |-> <<s, a[i]>>]
             l == Len(shown)
             k == Len(a)
  <1>1. shown \in Seq(Sessions \X Nat) /\ l \in Nat /\ DOMAIN shown = 1 .. l /\ k \in Nat /\ DOMAIN a = 1 .. k
    BY DEF LiveInv, LiveTypes
  <1>2. b \in Seq(Sessions \X Nat) /\ Len(b) = k /\ \A i \in 1 .. k : b[i][1] = s /\ b[i][2] = a[i]
    <2>1. b \in [1 .. k -> Sessions \X Nat]
      BY <1>1
    <2>2. \A i \in 1 .. k : b[i] = <<s, a[i]>>
      BY <1>1
    <2> QED
      BY <1>1, <2>1, <2>2
  <1>3. shown' = shown \o b
    OBVIOUS
  <1> HIDE DEF b
  <1>4. /\ shown' \in Seq(Sessions \X Nat) /\ DOMAIN shown' = 1 .. l + k
        /\ \A i \in 1 .. l : shown'[i] = shown[i]
        /\ \A i \in 1 .. l + k : i \notin 1 .. l => shown'[i] = b[i - l]
    <2>1. /\ shown \o b \in Seq(Sessions \X Nat) /\ Len(shown \o b) = Len(shown) + Len(b)
          /\ \A i \in 1 .. Len(shown) + Len(b) :
               (shown \o b)[i] = IF i <= Len(shown) THEN shown[i] ELSE b[i - Len(shown)]
      <3> DEFINE S == Sessions \X Nat
      <3>1. shown \in Seq(S) /\ b \in Seq(S)
        BY <1>1, <1>2
      <3> HIDE DEF S
      <3> QED
        BY <3>1, ConcatProperties DEF S
    <2>2. DOMAIN shown' = 1 .. l + k
      BY <1>1, <1>2, <1>3, <2>1
    <2>3. \A i \in 1 .. l + k : shown'[i] = IF i <= l THEN shown[i] ELSE b[i - l]
      BY <1>1, <1>2, <1>3, <2>1
    <2>4. \A i \in 1 .. l : i \in 1 .. l + k /\ i <= l
      BY <1>1
    <2>5. \A i \in 1 .. l + k : i \notin 1 .. l => ~(i <= l)
      BY <1>1
    <2>6. shown' \in Seq(Sessions \X Nat)
      BY <1>3, <2>1
    <2> HIDE DEF l, k
    <2>7. \A i \in 1 .. l : shown'[i] = shown[i]
      BY <2>3, <2>4
    <2>8. \A i \in 1 .. l + k : i \notin 1 .. l => shown'[i] = b[i - l]
      BY <2>3, <2>5
    <2> QED
      BY <2>2, <2>6, <2>7, <2>8
  <1> HIDE DEF l, k
  <1>5. /\ \A i \in 1 .. l + k : i \in 1 .. l \/ (i > l /\ i - l \in 1 .. k /\ shown'[i][1] = s /\ shown'[i][2] = a[i - l])
        /\ \A i \in 1 .. l : i \in 1 .. l + k
        /\ \A i \in 1 .. k : i + l \in 1 .. l + k /\ shown'[i + l][1] = s /\ shown'[i + l][2] = a[i]
    <2>1. ASSUME NEW i \in 1 .. l + k, i \notin 1 .. l PROVE i > l /\ i - l \in 1 .. k /\ shown'[i][1] = s /\ shown'[i][2] = a[i - l]
      <3>1. i > l /\ i - l \in 1 .. k
        BY <1>1, <2>1
      <3> QED
        BY <1>2, <1>4, <2>1, <3>1
    <2>2. \A i \in 1 .. l : i \in 1 .. l + k
      BY <1>1
    <2>3. ASSUME NEW i \in 1 .. k PROVE i + l \in 1 .. l + k /\ shown'[i + l][1] = s /\ shown'[i + l][2] = a[i]
      <3>1. i + l \in 1 .. l + k /\ i + l \notin 1 .. l /\ (i + l) - l = i
        BY <1>1
      <3> QED
        BY <1>2, <1>4, <3>1
    <2> QED
      BY <2>1, <2>2, <2>3
  <1>6. ShownOf(s)' = ShownOf(s) \cup Range(a)
    <2>1. ASSUME NEW i \in 1 .. l + k, shown'[i][1] = s PROVE shown'[i][2] \in ShownOf(s) \cup Range(a)
      <3>1. CASE i \in 1 .. l
        BY <1>1, <1>4, <2>1, <3>1 DEF ShownOf
      <3>2. CASE i - l \in 1 .. k /\ shown'[i][2] = a[i - l]
        BY <1>1, <3>2 DEF Range
      <3> QED
        BY <1>5, <3>1, <3>2
    <2>2. ASSUME NEW i \in 1 .. l, shown[i][1] = s PROVE shown[i][2] \in ShownOf(s)'
      BY <1>4, <1>5, <2>2 DEF ShownOf
    <2>3. ASSUME NEW i \in 1 .. k PROVE a[i] \in ShownOf(s)'
      <3>1. shown'[i + l][1] = s /\ shown'[i + l][2] = a[i] /\ i + l \in DOMAIN shown'
        BY <1>4, <1>5
      <3> QED
        BY <3>1 DEF ShownOf
    <2>4. ShownOf(s)' \subseteq ShownOf(s) \cup Range(a)
      <3>1. \A y \in ShownOf(s)' : \E i \in 1 .. l + k : shown'[i][1] = s /\ y = shown'[i][2]
        BY <1>4 DEF ShownOf
      <3> QED
        BY <2>1, <3>1
    <2>5. ShownOf(s) \subseteq ShownOf(s)'
      BY <1>1, <2>2 DEF ShownOf
    <2>6. Range(a) \subseteq ShownOf(s)'
      BY <1>1, <2>3 DEF Range
    <2> QED
      BY <2>4, <2>5, <2>6
  <1>7. ASSUME NEW t \in Sessions, t # s PROVE ShownOf(t)' = ShownOf(t)
    <2>1. ASSUME NEW i \in 1 .. l + k, shown'[i][1] = t PROVE i \in 1 .. l /\ shown[i] = shown'[i]
      BY <1>4, <1>5, <1>7, <2>1
    <2>2. ShownOf(t)' \subseteq ShownOf(t)
      <3>1. \A y \in ShownOf(t)' : \E i \in 1 .. l + k : shown'[i][1] = t /\ y = shown'[i][2]
        BY <1>4 DEF ShownOf
      <3>2. ASSUME NEW i \in 1 .. l + k, shown'[i][1] = t PROVE shown'[i][2] \in ShownOf(t)
        BY <1>1, <2>1, <3>2 DEF ShownOf
      <3> QED
        BY <3>1, <3>2
    <2>3. ShownOf(t) \subseteq ShownOf(t)'
      BY <1>1, <1>4, <1>5 DEF ShownOf
    <2> QED
      BY <2>2, <2>3
  <1>8. ASSUME \A i \in DOMAIN shown : shown[i][1] = s, NEW i \in DOMAIN shown' PROVE shown'[i][1] = s
    BY <1>1, <1>4, <1>5, <1>8
  <1>9. ASSUME NEW t \in Sessions, NEW i \in 1 .. l + k, NEW j \in 1 .. l + k, i < j,
               shown'[i][1] = t, shown'[j][1] = t
        PROVE  shown'[i][2] < shown'[j][2]
    <2>0. InOrder(t)
      BY DEF LiveInv, Lines
    <2>1. CASE j \in 1 .. l
      <3>1. i \in 1 .. l
        BY <1>1, <1>9, <2>1
      <3> QED
        BY <1>1, <1>4, <1>9, <2>0, <2>1, <3>1 DEF InOrder
    <2>2. CASE j \notin 1 .. l
      <3>1. j > l /\ j - l \in 1 .. k /\ shown'[j][1] = s /\ shown'[j][2] = a[j - l] /\ t = s
        BY <1>5, <1>9, <2>2
      <3>2. CASE i \in 1 .. l
        <4>1. shown'[i] = shown[i] /\ shown[i][2] \in ShownOf(s)
          BY <1>1, <1>4, <1>9, <3>1, <3>2 DEF ShownOf
        <4>2. a[j - l] \in Range(a)
          BY <1>1, <3>1 DEF Range
        <4> QED
          BY <3>1, <4>1, <4>2 DEF Before
      <3>3. CASE i \notin 1 .. l
        <4>1. i > l /\ i - l \in 1 .. k /\ shown'[i][1] = s /\ shown'[i][2] = a[i - l]
          BY <1>5, <3>3
        <4>2. i - l < j - l
          BY <1>1, <1>9
        <4> QED
          BY <1>1, <3>1, <4>1, <4>2 DEF Rising
      <3> QED
        BY <3>2, <3>3
    <2> QED
      BY <2>1, <2>2
  <1> QED
    BY <1>4, <1>6, <1>7, <1>8, <1>9

LEMMA OnMessageInv ==
  ASSUME LiveInv, NEW s \in Sessions, OnMessage(s)
  PROVE  LiveInv' /\ Running /\ mode = "live" /\ \A i \in DOMAIN shown' : shown'[i][1] = ws
  <1> DEFINE x == Head(down[s])
             rest == Tail(down[s])
  <1>0. /\ UNCHANGED <<serverVars, socket, started, ws, attached, mode>>
        /\ down[s] # << >> /\ down' = [down EXCEPT ![s] = rest]
        /\ \/ /\ x.type = "packets" /\ mode = "live"
              /\ shown' = shown \o [i \in DOMAIN x.items |-> <<s, x.items[i]>>]
              /\ liveDropped' = x.dropped /\ UNCHANGED warned
           \/ /\ ~(x.type = "packets" /\ mode = "live")
              /\ warned' = IF x.type = "error" THEN warned \cup {s} ELSE warned
              /\ UNCHANGED <<shown, liveDropped>>
    BY DEF OnMessage
  <1>1. Connected(s) /\ ws = s /\ Running /\ mode = "live" /\ \A i \in DOMAIN shown : shown[i][1] = s
    BY <1>0 DEF LiveInv, OneRuns, Running, Sessions, Nobody
  <1>2. down \in [Sessions -> Seq(Message)] /\ down[s] \in Seq(Message)
        /\ captured[s] \in Nat /\ dropped[s] \in Nat
    BY DEF LiveInv, LiveTypes, TypeOK
  <1>3. /\ rest \in Seq(Message) /\ x \in Message /\ 1 \in DOMAIN down[s] /\ x = down[s][1]
        /\ ItemsOf(down[s]) = Range(x.items) \cup ItemsOf(rest)
        /\ InTurn(down[s]) => InTurn(rest) /\ Rising(x.items) /\ Before(Range(x.items), ItemsOf(rest))
        /\ \A m \in DOMAIN rest : \E n \in DOMAIN down[s] : rest[m] = down[s][n]
    <2> DEFINE d == down[s]
    <2>1. d \in Seq(Message) /\ d # << >>
      BY <1>0, <1>2
    <2> HIDE DEF d
    <2>2. /\ Tail(d) \in Seq(Message) /\ Head(d) \in Message /\ Head(d) = d[1] /\ 1 \in DOMAIN d
          /\ ItemsOf(d) = Range(Head(d).items) \cup ItemsOf(Tail(d))
          /\ InTurn(d) => InTurn(Tail(d)) /\ Rising(Head(d).items) /\ Before(Range(Head(d).items), ItemsOf(Tail(d)))
          /\ \A m \in DOMAIN Tail(d) : \E n \in DOMAIN d : Tail(d)[m] = d[n]
      BY <2>1, OneMessageLess
    <2> QED
      BY <2>2 DEF d
  <1> HIDE DEF x, rest
  <1>4. /\ down' \in [Sessions -> Seq(Message)] /\ down'[s] = rest
        /\ \A t \in Sessions : t # s => down'[t] = down[t]
    BY <1>0, <1>2, <1>3
  <1>5. InOrder(s) /\ Honest(s)
    BY DEF LiveInv, Lines
  <1>6. InTurn(rest) /\ Rising(x.items) /\ Before(Range(x.items), ItemsOf(rest)) /\ x.items \in Seq(Nat)
        /\ x.dropped \in Nat /\ x.dropped <= dropped[s] /\ (x.type # "packets" => x.items = << >>)
    <2>1. InTurn(down[s])
      BY <1>5 DEF InOrder, InTurn
    <2> QED
      BY <1>3, <1>5, <2>1 DEF Honest, Message
  <1>7. Sent(s) = Range(x.items) \cup ItemsOf(rest) /\ Sent(s)' = ItemsOf(rest)
    BY <1>3, <1>4 DEF Sent, ItemsOf
  <1>8. /\ shown' \in Seq(Sessions \X Nat)
        /\ ShownOf(s)' = ShownOf(s) \cup Range(x.items)
        /\ \A t \in Sessions : t # s => ShownOf(t)' = ShownOf(t)
        /\ \A i \in DOMAIN shown' : shown'[i][1] = s
        /\ \A t \in Sessions : \A i, j \in DOMAIN shown' :
             i < j /\ shown'[i][1] = t /\ shown'[j][1] = t => shown'[i][2] < shown'[j][2]
    <2>1. CASE shown' = shown \o [i \in DOMAIN x.items |-> <<s, x.items[i]>>]
      <3>1. Before(ShownOf(s), Range(x.items))
        BY <1>5, <1>7 DEF InOrder, Before
      <3> DEFINE a == x.items
      <3>2. a \in Seq(Nat) /\ Rising(a) /\ Before(ShownOf(s), Range(a)) /\ shown' = shown \o [i \in DOMAIN a |-> <<s, a[i]>>]
        BY <1>6, <2>1, <3>1
      <3> HIDE DEF a
      <3>3. /\ shown' \in Seq(Sessions \X Nat)
            /\ ShownOf(s)' = ShownOf(s) \cup Range(a)
            /\ \A t \in Sessions : t # s => ShownOf(t)' = ShownOf(t)
            /\ (\A i \in DOMAIN shown : shown[i][1] = s) => (\A i \in DOMAIN shown' : shown'[i][1] = s)
            /\ \A t \in Sessions : \A i, j \in DOMAIN shown' :
                 i < j /\ shown'[i][1] = t /\ shown'[j][1] = t => shown'[i][2] < shown'[j][2]
        BY <3>2, ShownLine
      <3> QED
        BY <1>1, <3>3 DEF a
    <2>2. CASE shown' = shown /\ x.type # "packets"
      <3>1. Range(x.items) = {}
        BY <1>6, <2>2 DEF Range
      <3>2. \A t \in Sessions : ShownOf(t)' = ShownOf(t)
        BY <2>2 DEF ShownOf
      <3>3. \A t \in Sessions : InOrder(t)
        BY DEF LiveInv, Lines
      <3>4. shown \in Seq(Sessions \X Nat)
        BY DEF LiveInv, LiveTypes
      <3> QED
        BY <1>1, <2>2, <3>1, <3>2, <3>3, <3>4 DEF InOrder
    <2> QED
      BY <1>0, <1>1, <2>1, <2>2
  <1>9. queue' = queue /\ callbacks' = callbacks /\ captured' = captured /\ dropped' = dropped
    BY <1>0 DEF serverVars
  <1>10. OnTheWay(s)' = OnTheWay(s)
    BY <1>7, <1>8, <1>9 DEF OnTheWay
  <1>11. InOrder(s)' /\ Honest(s)'
    <2>1. Before(ShownOf(s)', Sent(s)' \cup Range(queue[s]) \cup Range(callbacks[s]))
      <3>1. Before(Range(x.items), ItemsOf(rest)) /\ Before(Range(x.items), Range(queue[s]) \cup Range(callbacks[s]))
        BY <1>5, <1>6, <1>7 DEF InOrder, Before
      <3> QED
        BY <1>5, <1>7, <1>8, <3>1 DEF InOrder, Before
    <2>2. Before(Sent(s)', Range(queue[s]) \cup Range(callbacks[s]))
      BY <1>5, <1>7 DEF InOrder, Before
    <2>3. InOrder(s)'
      BY <1>4, <1>5, <1>6, <1>8, <1>9, <2>1, <2>2 DEF InOrder, InTurn
    <2>4. Honest(s)'
      BY <1>3, <1>4, <1>5, <1>9, <1>10 DEF Honest
    <2> QED
      BY <2>3, <2>4
  <1>12. ASSUME NEW t \in Sessions, t # s PROVE OnTheWay(t)' = OnTheWay(t) /\ InOrder(t)' /\ Honest(t)'
    <2>1. InOrder(t) /\ Honest(t)
      BY DEF LiveInv, Lines
    <2>2. Sent(t)' = Sent(t) /\ down'[t] = down[t] /\ ShownOf(t)' = ShownOf(t)
      BY <1>4, <1>8, <1>12 DEF Sent
    <2>3. OnTheWay(t)' = OnTheWay(t)
      BY <1>9, <2>2 DEF OnTheWay
    <2>4. InOrder(t)'
      BY <1>8, <1>9, <2>1, <2>2 DEF InOrder
    <2>5. Honest(t)'
      BY <1>9, <2>1, <2>2, <2>3 DEF Honest
    <2> QED
      BY <2>3, <2>4, <2>5
  <1>13. Counts'
    <2>1. captured'[s] = Cardinality(OnTheWay(s)') + dropped'[s]
      BY <1>1, <1>9, <1>10 DEF LiveInv, Counts
    <2>2. liveDropped' <= dropped'[s]
      BY <1>0, <1>1, <1>6, <1>9 DEF LiveInv, Counts
    <2>3. ws' = s
      BY <1>0, <1>1
    <2> QED
      BY <2>1, <2>2, <2>3 DEF Counts
  <1>14. OneRuns'
    <2>1. socket' = socket /\ ws' = ws /\ mode' = mode
      BY <1>0
    <2> QED
      BY <1>1, <1>4, <1>8, <2>1 DEF OneRuns, LiveInv, Connected, Running
  <1>15. LiveTypes' /\ TypeOK' /\ Untouched'
    <2>1. liveDropped' \in Nat /\ warned' \subseteq Sessions
      BY <1>0, <1>6 DEF LiveInv, TypeOK
    <2>2. LiveTypes'
      BY <1>4, <1>8, <1>9 DEF LiveInv, LiveTypes
    <2>3. TypeOK'
      BY <1>0, <2>1 DEF LiveInv, TypeOK, serverVars
    <2>4. Untouched'
      BY <1>0 DEF LiveInv, Untouched, serverVars
    <2> QED
      BY <2>2, <2>3, <2>4
  <1> QED
    BY <1>1, <1>8, <1>11, <1>12, <1>13, <1>14, <1>15 DEF LiveInv, Lines

\* What is thrown away disturbs nobody else.
LEMMA ThrownAway ==
  ASSUME LiveInv, UNCHANGED <<queue, callbacks, captured, dropped>>, down' \in [Sessions -> Seq(Message)],
         \A t \in Sessions : down'[t] \in {down[t], << >>}, shown' \in {shown, << >>}
  PROVE  LiveTypes' /\ Lines'
  <1>1. shown' \in Seq(Sessions \X Nat)
    <2>1. << >> \in Seq(Sessions \X Nat) /\ shown \in Seq(Sessions \X Nat)
      BY DEF LiveInv, LiveTypes
    <2> QED
      BY <2>1
  <1>2. LiveTypes'
    BY <1>1 DEF LiveInv, LiveTypes
  <1>3. ASSUME NEW t \in Sessions PROVE InOrder(t)' /\ Honest(t)'
    <2>1. InOrder(t) /\ Honest(t)
      BY DEF LiveInv, Lines
    <2>2. Sent(t)' \subseteq Sent(t)
      <3>1. down'[t] = down[t] \/ DOMAIN down'[t] = {}
        OBVIOUS
      <3> QED
        BY <3>1 DEF Sent
    <2>3. ShownOf(t)' \subseteq ShownOf(t)
      <3>1. shown' = shown \/ DOMAIN shown' = {}
        OBVIOUS
      <3> QED
        BY <3>1 DEF ShownOf
    <2>4. OnTheWay(t)' \subseteq OnTheWay(t)
      BY <2>2, <2>3 DEF OnTheWay
    <2>5. down'[t] = down[t] \/ DOMAIN down'[t] = {}
      OBVIOUS
    <2>6. shown' = shown \/ DOMAIN shown' = {}
      OBVIOUS
    <2>7. \A i, j \in DOMAIN shown' : i < j /\ shown'[i][1] = t /\ shown'[j][1] = t => shown'[i][2] < shown'[j][2]
      BY <2>1, <2>6 DEF InOrder
    <2>8. InTurn(down'[t])
      BY <2>1, <2>5 DEF InOrder, InTurn
    <2>9. /\ Before(ShownOf(t)', Sent(t)' \cup Range(queue[t]) \cup Range(callbacks[t]))
          /\ Before(Sent(t)', Range(queue[t]) \cup Range(callbacks[t]))
      BY <2>1, <2>2, <2>3 DEF InOrder, Before
    <2>10. InOrder(t)'
      BY <2>1, <2>7, <2>8, <2>9 DEF InOrder, InTurn
    <2>11. Honest(t)'
      BY <2>1, <2>4, <2>5 DEF Honest
    <2> QED
      BY <2>10, <2>11
  <1> QED
    BY <1>2, <1>3 DEF Lines

\* The connection of the capture that runs ends.
LEMMA EndsInv ==
  ASSUME LiveInv, NEW end \in {"closed", "broken"}, Running,
         socket' = [socket EXCEPT ![ws] = end], down' = [down EXCEPT ![ws] = << >>],
         UNCHANGED <<serverVars, started>>, ws' \in {ws, Nobody},
         attached' = attached \/ (ws' = Nobody /\ attached' = attached \ {ws}),
         mode' \in {"live", "pcap"}, shown' \in {shown, << >>}, liveDropped' \in Nat, warned' = warned
  PROVE  LiveInv'
  <1>1. ws \in Sessions /\ Connected(ws)
    BY WsIsSession DEF Running
  <1>2. /\ down \in [Sessions -> Seq(Message)] /\ << >> \in Seq(Message)
        /\ socket \in [Sessions -> {"none", "open", "closed", "broken"}]
    <2> DEFINE M == Message
    <2> HIDE DEF M
    <2>1. << >> \in Seq(M)
      OBVIOUS
    <2>2. down \in [Sessions -> Seq(Message)]
      BY DEF LiveInv, LiveTypes
    <2>3. socket \in [Sessions -> {"none", "open", "closed", "broken"}]
      BY DEF LiveInv, TypeOK
    <2> QED
      BY <2>1, <2>2, <2>3 DEF M
  <1>3. /\ down' \in [Sessions -> Seq(Message)] /\ socket' \in [Sessions -> {"none", "open", "closed", "broken"}]
        /\ \A t \in Sessions : down'[t] \in {down[t], << >>}
        /\ \A t \in Sessions : t # ws => socket'[t] = socket[t] /\ down'[t] = down[t]
        /\ socket'[ws] = end /\ down'[ws] = << >>
    BY <1>1, <1>2
  <1>4. LiveTypes' /\ Lines'
    BY <1>3, ThrownAway DEF serverVars
  <1>5. TypeOK'
    BY <1>3 DEF LiveInv, TypeOK, serverVars
  <1>6. \A t \in Sessions : ~Connected(t)'
    BY <1>3 DEF LiveInv, OneRuns, Connected
  <1>7. ~Running'
    <2>1. ws' = Nobody \/ ws' \in Sessions
      BY <1>1
    <2> QED
      BY <1>6, <2>1 DEF Running, Connected
  <1>8. Counts'
    BY <1>7 DEF Counts
  <1>9. OneRuns'
    <2>1. \A t \in Sessions : down'[t] = << >>
      BY <1>1, <1>3 DEF LiveInv, OneRuns
    <2> QED
      BY <1>6, <1>7, <2>1 DEF OneRuns
  <1>10. Untouched'
    <2>1. ~(ws > started)
      BY <1>1 DEF LiveInv, Untouched, Connected
    <2> QED
      BY <1>3, <2>1 DEF LiveInv, Untouched, serverVars
  <1> QED
    BY <1>4, <1>5, <1>8, <1>9, <1>10 DEF LiveInv

LEMMA StopInv == ASSUME LiveInv, Stop PROVE LiveInv'
  <1>1. /\ Running /\ socket' = [socket EXCEPT ![ws] = "closed"] /\ down' = [down EXCEPT ![ws] = << >>]
        /\ UNCHANGED <<serverVars, started, mode, shown, liveDropped, warned>>
        /\ ws' = Nobody /\ attached' = attached \ {ws}
    BY DEF Stop, Detach
  <1>2. mode \in {"live", "pcap"} /\ liveDropped \in Nat
    BY DEF LiveInv, TypeOK
  <1> QED
    BY <1>1, <1>2, EndsInv

LEMMA BreakInv == ASSUME LiveInv, NEW s \in Sessions, Break(s) PROVE LiveInv'
  <1>1. s = ws /\ Running
    BY DEF Break, LiveInv, OneRuns, Running, Sessions, Nobody
  <1>2. /\ socket' = [socket EXCEPT ![ws] = "broken"] /\ down' = [down EXCEPT ![ws] = << >>]
        /\ UNCHANGED <<serverVars, started, ws, attached, mode, shown, liveDropped, warned>>
    BY <1>1 DEF Break, pageVars
  <1>3. mode \in {"live", "pcap"} /\ liveDropped \in Nat
    BY DEF LiveInv, TypeOK
  <1> QED
    BY <1>1, <1>2, <1>3, EndsInv

LEMMA SwitchModeInv == ASSUME LiveInv, SwitchMode PROVE LiveInv'
  <1>0. /\ mode' \in {"live", "pcap"} /\ shown' = << >> /\ liveDropped' = 0
        /\ UNCHANGED <<serverVars, started, warned>>
    BY DEF SwitchMode, Reset
  <1>1. CASE Running
    <2>1. /\ socket' = [socket EXCEPT ![ws] = "closed"] /\ down' = [down EXCEPT ![ws] = << >>]
          /\ ws' = Nobody /\ attached' = attached \ {ws}
      BY <1>1 DEF SwitchMode, Detach
    <2> QED
      BY <1>0, <1>1, <2>1, EndsInv
  <1>2. CASE ~Running
    <2>1. UNCHANGED <<socket, ws, attached, down>>
      BY <1>2 DEF SwitchMode
    <2>2. down \in [Sessions -> Seq(Message)]
      BY DEF LiveInv, LiveTypes
    <2>3. LiveTypes' /\ Lines'
      BY <1>0, <2>1, <2>2, ThrownAway DEF serverVars
    <2>4. ~Running'
      BY <1>2, <2>1 DEF Running, Connected
    <2>5. TypeOK' /\ Untouched'
      BY <1>0, <2>1 DEF LiveInv, TypeOK, Untouched, serverVars
    <2>6. Counts' /\ OneRuns'
      BY <2>1, <2>4 DEF LiveInv, Counts, OneRuns, Connected
    <2> QED
      BY <2>3, <2>5, <2>6 DEF LiveInv
  <1> QED
    BY <1>1, <1>2

LEMMA StartInv == ASSUME LiveInv, Start, NEW s, s = started + 1 PROVE LiveInv'
  <1>0. /\ ~Running /\ mode = "live" /\ started' = s /\ ws' = s /\ attached' = attached \cup {s}
        /\ socket' = [socket EXCEPT ![s] = "open"] /\ run' = [run EXCEPT ![s] = "hello"]
        /\ shown' = << >> /\ liveDropped' = 0
        /\ UNCHANGED <<pump, sniffer, captured, callbacks, queue, dropped, down, mode, warned>>
    BY DEF Start, Reset
  <1>1. s \in Sessions /\ started \in Nat /\ s = started + 1 /\ s # Nobody /\ s \in 0 .. MaxSessions
    BY LiveAssumption DEF Start, LiveInv, TypeOK, Sessions, Nobody
  <1>2. \A t \in Sessions : ~Connected(t)
    BY <1>0, WsIsSession DEF LiveInv, OneRuns, Running, Sessions, Nobody
  <1>3. down \in [Sessions -> Seq(Message)]
        /\ socket \in [Sessions -> {"none", "open", "closed", "broken"}]
        /\ run \in [Sessions -> {"none", "hello", "serving", "leaving", "done"}]
    BY DEF LiveInv, LiveTypes, TypeOK
  <1>4. /\ socket' \in [Sessions -> {"none", "open", "closed", "broken"}] /\ socket'[s] = "open"
        /\ run' \in [Sessions -> {"none", "hello", "serving", "leaving", "done"}]
        /\ \A t \in Sessions : t # s => socket'[t] = socket[t] /\ run'[t] = run[t]
    BY <1>0, <1>1, <1>3
  <1>5. \A t \in Sessions : down[t] = << >>
    BY <1>2 DEF LiveInv, OneRuns
  <1>6. LiveTypes' /\ Lines'
    BY <1>0, <1>3, ThrownAway
  <1>7. TypeOK'
    BY <1>0, <1>1, <1>4 DEF LiveInv, TypeOK
  <1>8. captured[s] = 0 /\ dropped[s] = 0 /\ queue[s] = << >> /\ callbacks[s] = << >>
    BY <1>1 DEF LiveInv, Untouched
  <1>9. OnTheWay(s)' = {}
    <2>1. ShownOf(s)' = {}
      BY <1>0 DEF ShownOf
    <2>2. Sent(s)' = {}
      BY <1>0, <1>1, <1>5 DEF Sent
    <2>3. Range(queue[s]) = {} /\ Range(callbacks[s]) = {}
      BY <1>8 DEF Range
    <2> QED
      BY <1>0, <2>1, <2>2, <2>3 DEF OnTheWay
  <1>10. Counts'
    <2>1. captured'[s] = Cardinality(OnTheWay(s)') + dropped'[s] /\ liveDropped' <= dropped'[s]
      <3>1. Cardinality(OnTheWay(s)') = 0
        BY <1>9, FS_EmptySet
      <3>2. captured'[s] = 0 /\ dropped'[s] = 0 /\ liveDropped' = 0
        BY <1>0, <1>8
      <3> QED
        BY <3>1, <3>2
    <2> QED
      BY <1>0, <2>1 DEF Counts
  <1>11. OneRuns'
    BY <1>0, <1>2, <1>4, <1>5 DEF OneRuns, Connected
  <1>12. Untouched'
    <2>1. ASSUME NEW t \in Sessions, t > s PROVE t > started /\ t # s
      BY <1>1, <2>1 DEF Sessions
    <2> QED
      BY <1>0, <1>4, <2>1 DEF LiveInv, Untouched
  <1> QED
    BY <1>6, <1>7, <1>10, <1>11, <1>12 DEF LiveInv

\* The steps of run, of the pump without a batch, and the end of the thread.
LEMMA ControlInv ==
  ASSUME LiveInv, NEW s \in Sessions,
         \/ SayHello(s) \/ StartSniffer(s) \/ CheckSniffer(s) \/ SnifferGone(s)
         \/ NoticeDisconnect(s) \/ StopSniffer(s) \/ ThreadDies(s)
  PROVE  LiveInv'
  <1>1. /\ UNCHANGED <<captured, callbacks, queue, dropped, socket, pageVars>>
        /\ \E x \in {Hello, Error} : down' = down \/ (Connected(s) /\ Send(s, x))
    BY DEF SayHello, StartSniffer, CheckSniffer, SnifferGone, NoticeDisconnect, StopSniffer, ThreadDies, TellAndReturn
  <1>2. LiveTypes' /\ Lines' /\ Counts' /\ OneRuns'
    BY <1>1, QuietStep DEF pageVars
  <1>3. run[s] # "none" \/ pump[s] # "none" \/ sniffer[s] # "none"
    BY DEF SayHello, StartSniffer, CheckSniffer, SnifferGone, NoticeDisconnect, StopSniffer, ThreadDies
  <1>4. ~(s > started)
    BY <1>3 DEF LiveInv, Untouched
  <1>5. /\ run' \in [Sessions -> {"none", "hello", "serving", "leaving", "done"}]
        /\ pump' \in [Sessions -> {"none", "created", "starting", "streaming", "returned", "failed", "cancelled"}]
        /\ sniffer' \in [Sessions -> {"none", "running", "dead", "stopped"}]
        /\ \A t \in Sessions : t # s => run'[t] = run[t] /\ pump'[t] = pump[t] /\ sniffer'[t] = sniffer[t]
    <2>0. /\ run \in [Sessions -> {"none", "hello", "serving", "leaving", "done"}]
          /\ pump \in [Sessions -> {"none", "created", "starting", "streaming", "returned", "failed", "cancelled"}]
          /\ sniffer \in [Sessions -> {"none", "running", "dead", "stopped"}]
      BY DEF LiveInv, TypeOK
    <2>1. /\ run' = run \/ \E v \in {"serving", "leaving", "done"} : run' = [run EXCEPT ![s] = v]
          /\ pump' = pump \/ \E v \in {"created", "starting", "streaming", "returned", "cancelled"} : pump' = [pump EXCEPT ![s] = v]
          /\ sniffer' = sniffer \/ \E v \in {"running", "dead", "stopped", sniffer[s]} : sniffer' = [sniffer EXCEPT ![s] = v]
      BY DEF SayHello, StartSniffer, CheckSniffer, SnifferGone, NoticeDisconnect, StopSniffer, ThreadDies, TellAndReturn
    <2> QED
      BY <2>0, <2>1
  <1>6. TypeOK'
    BY <1>1, <1>5 DEF LiveInv, TypeOK, pageVars
  <1>7. Untouched'
    BY <1>1, <1>4, <1>5 DEF LiveInv, Untouched, pageVars
  <1> QED
    BY <1>2, <1>6, <1>7 DEF LiveInv

LEMMA LiveInitInv == LiveInit => LiveInv
  <1> SUFFICES ASSUME LiveInit PROVE LiveInv
    OBVIOUS
  <1>0. /\ \A s \in Sessions : /\ queue[s] = << >> /\ callbacks[s] = << >> /\ down[s] = << >>
                               /\ captured[s] = 0 /\ dropped[s] = 0 /\ socket[s] = "none"
                               /\ run[s] = "none" /\ pump[s] = "none" /\ sniffer[s] = "none"
        /\ shown = << >> /\ ws = Nobody /\ started = 0 /\ mode = "live"
    BY DEF LiveInit
  <1>1. LiveTypes
    <2>1. << >> \in Seq(Nat) /\ << >> \in Seq(Message) /\ << >> \in Seq(Sessions \X Nat)
      OBVIOUS
    <2> QED
      BY <2>1 DEF LiveInit, LiveTypes
  <1>2. TypeOK
    <2>1. \A s \in Sessions : Len(queue[s]) <= QUEUE_CAP
      BY <1>0, LiveAssumption
    <2> QED
      BY <2>1, LiveAssumption DEF LiveInit, TypeOK
  <1>3. ASSUME NEW s \in Sessions PROVE InOrder(s) /\ Honest(s)
    <2>1. ShownOf(s) = {} /\ Sent(s) = {} /\ Range(queue[s]) = {} /\ Range(callbacks[s]) = {}
      BY <1>0 DEF ShownOf, Sent, Range
    <2>2. OnTheWay(s) = {}
      BY <2>1 DEF OnTheWay
    <2> QED
      BY <1>0, <2>1, <2>2 DEF InOrder, Honest, Before, Rising
  <1>4. Counts /\ OneRuns /\ Untouched
    BY <1>0 DEF Counts, OneRuns, Untouched, Running, Connected
  <1> QED
    BY <1>1, <1>2, <1>3, <1>4 DEF LiveInv, Lines

\* A step that at most forgets the drops on display.
LEMMA StillLive ==
  ASSUME LiveInv, liveDropped' \in {0, liveDropped},
         UNCHANGED <<run, pump, sniffer, captured, callbacks, queue, dropped, socket, down,
                     started, ws, attached, mode, shown, warned>>
  PROVE  LiveInv'
  <1>1. Running' = Running
    BY DEF Running, Connected
  <1>2. \A t \in Sessions : OnTheWay(t)' = OnTheWay(t) /\ InOrder(t)' /\ Honest(t)'
    BY Unmoved, StillHonest DEF LiveInv, Lines
  <1>3. liveDropped' \in Nat
    BY DEF LiveInv, TypeOK
  <1>4. ASSUME Running PROVE liveDropped' <= dropped[ws]
    <2>1. ws \in Sessions /\ dropped \in [Sessions -> Nat] /\ liveDropped <= dropped[ws]
      BY <1>4, WsIsSession DEF LiveInv, TypeOK, Running, Counts
    <2>2. dropped[ws] \in Nat
      BY <2>1
    <2> QED
      BY <2>1, <2>2
  <1>5. Counts'
    BY <1>1, <1>2, <1>4, WsIsSession DEF Counts, LiveInv, Running
  <1>6. TypeOK'
    BY <1>3 DEF LiveInv, TypeOK
  <1>7. LiveTypes' /\ Untouched' /\ OneRuns'
    BY <1>1 DEF LiveInv, LiveTypes, Untouched, OneRuns, Connected
  <1> QED
    BY <1>2, <1>5, <1>6, <1>7 DEF LiveInv, Lines

LEMMA LiveNextInv == LiveInv /\ [LiveNext]_liveVars => LiveInv'
  <1> SUFFICES ASSUME LiveInv, [LiveNext]_liveVars PROVE LiveInv'
    OBVIOUS
  <1>1. ASSUME NEW s \in Sessions, Server(s) PROVE LiveInv'
    BY <1>1, ControlInv, SendBatchInv, EnqueueInv DEF Server
  <1>2. ASSUME NEW s \in Sessions, OnPacket(s) \/ ThreadDies(s) \/ OnMessage(s) \/ Break(s) PROVE LiveInv'
    BY <1>2, OnPacketInv, ControlInv, OnMessageInv, BreakInv
  <1>3. CASE Start \/ Stop \/ SwitchMode
    BY <1>3, StartInv, StopInv, SwitchModeInv
  <1>4. CASE StartOver \/ UNCHANGED liveVars
    <2>1. /\ liveDropped' \in {0, liveDropped}
          /\ UNCHANGED <<run, pump, sniffer, captured, callbacks, queue, dropped, socket, down,
                         started, ws, attached, mode, shown, warned>>
      BY <1>4 DEF StartOver, liveVars, serverVars, pageVars
    <2> QED
      BY <2>1, StillLive
  <1> QED
    BY <1>1, <1>2, <1>3, <1>4 DEF LiveNext

-----------------------------------------------------------------------------
\* The invariant of a live capture, for any number of captures and packets and
\* any sizes of queue and batch.
THEOREM LiveInvariant == LiveSpec => []LiveInv
  BY LiveInitInv, LiveNextInv, PTL DEF LiveSpec

\* No packet overtakes another or comes twice, each is on its way, shown or
\* counted as dropped, and the page displays no drop that was not (live.py,
\* _on_packet and _pump_sniffer; sources.js).
THEOREM PacketsAccounted == LiveSpec => []Accounted
  <1>1. LiveInv => Accounted
    BY DEF LiveInv, Lines, Counts, Accounted
  <1> QED
    BY <1>1, LiveInvariant, PTL

\* Only packets of the capture that runs come to be shown, whatever was on its
\* way when it was stopped or the mode switched (sources.js, stop).
THEOREM NothingAfterStop == LiveSpec => ShownWhileRunning
  <1> DEFINE Of == \/ shown' \in {shown, << >>}
                   \/ Running /\ mode = "live" /\ \A i \in DOMAIN shown' : shown'[i][1] = ws
  <1>1. LiveInv /\ [LiveNext]_liveVars => [Of]_liveVars
    <2> SUFFICES ASSUME LiveInv, LiveNext PROVE Of
      OBVIOUS
    <2>1. ASSUME NEW s \in Sessions, OnMessage(s) PROVE Of
      BY <2>1, OnMessageInv
    <2>2. ASSUME NEW s \in Sessions, Server(s) \/ OnPacket(s) \/ ThreadDies(s) \/ Break(s) PROVE Of
      BY <2>2 DEF Server, SayHello, StartSniffer, CheckSniffer, SnifferGone, SendBatch, NoticeDisconnect,
                  StopSniffer, Enqueue, OnPacket, ThreadDies, Break, pageVars
    <2>3. CASE Start \/ Stop \/ SwitchMode \/ StartOver
      BY <2>3 DEF Start, Stop, SwitchMode, StartOver, Reset
    <2> QED
      BY <2>1, <2>2, <2>3 DEF LiveNext
  <1> QED
    BY <1>1, LiveInvariant, PTL DEF LiveSpec, ShownWhileRunning
=============================================================================
