--------------------------------- MODULE Dns ---------------------------------
(***************************************************************************)
(* The DNS tracker of the visualizer (frontend/src/dns.js, DnsTracker):     *)
(* queries that wait for a response, and what became of them.               *)
(*                                                                          *)
(* The hosts are the environment: a resolver library that asks again under  *)
(* the same id, and servers that answer each query once, late or never.     *)
(* Round-trip times and the log are left out.                               *)
(***************************************************************************)
EXTENDS Capture, FiniteSets

CONSTANTS
  Lookups,      \* transactions: an id, a client's address and port, a server
  Discovery,    \* those sent to a multicast address (mDNS, LLMNR)
  DNS_TIMEOUT,  \* timeoutSec
  DNS_CAP,      \* PENDING_CAP: queries waiting at a time
  RESEND,       \* the client asks again after this long
  ASKS          \* queries a client sends for one lookup

\* What is analysed late is less late than the timeout.
ASSUME DnsAssumption ==
  /\ Discovery \subseteq Lookups
  /\ DNS_TIMEOUT \in Nat \ {0} /\ DNS_CAP \in Nat \ {0}
  /\ RESEND \in Nat \ {0} /\ ASKS \in Nat \ {0}
  /\ LAG <= DNS_TIMEOUT

VARIABLES
  waiting,     \* queries waiting for a response, in the order of insertion
  dnsCounts,   \* the counters on display
  resolver,    \* environment: lookup -> queries, responses, time since the last query
  slow         \* history: some query was left unanswered for too long

dnsTrackerVars == <<waiting, dnsCounts>>
dnsVars == <<dnsTrackerVars, resolver, slow>>

Rcodes == {"ok", "nxdomain", "servfail"}
Outcomes == Rcodes \cup {"timeouts"}

-----------------------------------------------------------------------------
(* add: one packet.                                                         *)

DnsCounted(kind) == [dnsCounts EXCEPT ![kind] = @ + 1]

\* The oldest goes when the map is full, even if the lookup is there already.
Room == IF Len(waiting) >= DNS_CAP THEN Tail(waiting) ELSE waiting

\* Map.set: a lookup that is there keeps its place.
Asked(p) ==
  LET entry == [lookup |-> p.of, age |-> p.age] IN
  IF \E i \in DOMAIN Room : Room[i].lookup = p.of
  THEN [i \in DOMAIN Room |-> IF Room[i].lookup = p.of THEN entry ELSE Room[i]]
  ELSE Append(Room, entry)

\* Discovery is counted, no answer is expected.
DiscoveryQuery(p) ==
  /\ p.of \in Discovery
  /\ dnsCounts' = DnsCounted("queries")
  /\ UNCHANGED waiting

Query(p) ==
  /\ p.of \notin Discovery
  /\ dnsCounts' = DnsCounted("queries")
  /\ waiting' = Asked(p)

\* A response is counted whether or not a query waits for it.
Response(p) ==
  /\ waiting' = Retained(waiting, {i \in DOMAIN waiting : waiting[i].lookup # p.of})
  /\ dnsCounts' = DnsCounted(p.kind)

DnsAdd(p) ==
  \/ p.kind = "query" /\ (DiscoveryQuery(p) \/ Query(p))
  \/ p.kind \in Rcodes /\ Response(p)

DnsDeliver ==
  /\ wire # << >> /\ Head(wire).kind \in {"query"} \cup Rcodes
  /\ DnsAdd(Head(wire)) /\ Analysed
  /\ UNCHANGED <<resolver, slow>>

(* tick: unanswered queries expire.                                         *)

Lapsed == {i \in DOMAIN waiting : waiting[i].age > DNS_TIMEOUT}

\* Mutant: a lapsed query is counted again at every tick.
StillWaitingAll == waiting

StillWaiting == Retained(waiting, DOMAIN waiting \ Lapsed)

DnsTick ==
  /\ Lapsed # {}
  /\ waiting' = StillWaiting
  /\ dnsCounts' = [dnsCounts EXCEPT !.timeouts = @ + Cardinality(Lapsed)]
  /\ UNCHANGED <<wire, resolver, slow>>

-----------------------------------------------------------------------------
DnsReset ==
  /\ waiting' = << >>
  /\ dnsCounts' = [k \in DOMAIN dnsCounts |-> 0]
  /\ UNCHANGED <<resolver, slow>>

-----------------------------------------------------------------------------
(* The hosts.                                                               *)

DnsInit ==
  /\ waiting = << >>
  /\ dnsCounts = [k \in {"queries"} \cup Outcomes |-> 0]
  /\ resolver = [q \in Lookups |-> [asked |-> 0, answers |-> 0, since |-> RESEND]]
  /\ slow = FALSE

\* The client asks, and asks again while it has no answer.
Ask(q) ==
  /\ resolver[q].asked < ASKS /\ resolver[q].answers = 0 /\ resolver[q].since >= RESEND
  /\ Captured("query", q)
  /\ resolver' = [resolver EXCEPT ![q].asked = @ + 1, ![q].since = 0]
  /\ UNCHANGED <<dnsTrackerVars, slow>>

\* The server answers one of the queries it got.
Respond(q) ==
  /\ resolver[q].answers < resolver[q].asked
  /\ \E rcode \in Rcodes : Captured(rcode, q)
  /\ resolver' = [resolver EXCEPT ![q].answers = @ + 1]
  /\ UNCHANGED <<dnsTrackerVars, slow>>

Resolvers == \E q \in Lookups : Ask(q) \/ Respond(q)

DnsInTime == Lapsed = {}

\* The last query of q is unanswered, and so old that it may lapse before its
\* response is analysed.
Overlong(q) ==
  /\ q \notin Discovery
  /\ resolver[q].asked > 0 /\ resolver[q].answers = 0
  /\ resolver[q].since + LAG >= DNS_TIMEOUT

Longest == IF RESEND > DNS_TIMEOUT THEN RESEND ELSE DNS_TIMEOUT

DnsElapse ==
  /\ waiting' = [i \in DOMAIN waiting |-> [waiting[i] EXCEPT !.age = @ + 1]]
  /\ resolver' = [q \in Lookups |-> [resolver[q] EXCEPT !.since = IF @ < Longest THEN @ + 1 ELSE @]]
  /\ slow' = (slow \/ \E q \in Lookups : Overlong(q))
  /\ UNCHANGED dnsCounts

-----------------------------------------------------------------------------
(* Properties.                                                              *)

DnsTypeOK ==
  /\ Len(waiting) <= DNS_CAP
  /\ \A i \in DOMAIN waiting :
       waiting[i].lookup \in Lookups /\ waiting[i].age \in 0 .. DNS_TIMEOUT + 1
  /\ \A i, j \in DOMAIN waiting : waiting[i].lookup = waiting[j].lookup => i = j
  /\ \A k \in DOMAIN dnsCounts : dnsCounts[k] \in Nat
  /\ \A q \in Lookups : resolver[q].asked \in 0 .. ASKS /\ resolver[q].answers \in 0 .. ASKS
  /\ slow \in BOOLEAN

\* Nothing times out that was answered in time, and discovery never does
\* (dns.js, "would flood the timeout counter with false alarms"); every timeout,
\* and every query that may still become one, stands for a query of its own.
\* (Types and the cap go with it.)
TimeoutsHonest ==
  /\ DnsTypeOK
  /\ ~slow => dnsCounts.timeouts = 0
  /\ dnsCounts.timeouts + Len(waiting) <= dnsCounts.queries
=============================================================================
