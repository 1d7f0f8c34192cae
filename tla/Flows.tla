-------------------------------- MODULE Flows --------------------------------
(***************************************************************************)
(* The TCP handshake tracker of the visualizer (frontend/src/flows.js,      *)
(* FlowTracker): SYNs that wait for an answer, what became of them, and the *)
(* connections that are open.                                               *)
(*                                                                          *)
(* The hosts whose packets it sees are the environment: a client that       *)
(* sends its SYN again, later each time, until it is answered, and a        *)
(* server that answers, refuses or is silent.  The capture is complete, at  *)
(* the client.  Timestamps are kept as ages.                                *)
(*                                                                          *)
(* Left out: sequence numbers (trackSeq), server names, round-trip times    *)
(* and the log, which nothing here reads.                                   *)
(***************************************************************************)
EXTENDS Capture, FiniteSets

CONSTANTS
  Conns,          \* connections: a client's address and port, a server's
  TIMEOUT,        \* timeoutSec: a SYN this old is half-open
  REFAIL_WINDOW,  \* a retry this soon after a failure belongs to it
  PENDING_CAP,    \* SYNs waiting at a time
  OPEN_CAP,       \* open connections remembered
  FAIL_CAP,       \* failures remembered before tick prunes them
  RETRIES,        \* SYNs a client sends after its first
  Interval        \* the time a client waits after its first SYN, its second, ...

\* The schedule of the retries and the window fit (flows.js, "OS retry
\* schedules (1,2,4,8,16 s) outlive our timeout").  A SYN fails once it is
\* older than TIMEOUT, so the next is at most Interval - TIMEOUT - 1 later.
\* What is analysed late is less late than the timeout.
ASSUME FlowsAssumption ==
  /\ TIMEOUT \in Nat \ {0}
  /\ REFAIL_WINDOW \in Nat \ {0}
  /\ PENDING_CAP \in Nat \ {0}
  /\ OPEN_CAP \in Nat \ {0}
  /\ FAIL_CAP \in Nat \ {0}
  /\ RETRIES \in Nat \ {0}
  /\ Interval \in [0 .. RETRIES -> Nat \ {0}]
  /\ \A n \in 0 .. RETRIES - 1 : Interval[n] - TIMEOUT - 1 < REFAIL_WINDOW
  /\ LAG <= TIMEOUT

VARIABLES
  pending,     \* SYNs waiting for an answer, in the order of insertion
  recentFail,  \* connection -> time since its last failure, or FORGOTTEN
  open,        \* connections established, in the order of insertion
  counts,      \* the counters on display
  client,      \* environment: connection -> what its client is doing
  crowdedOut,  \* history: connections that a cap removed from pending or open, or
               \* whose failure tick pruned while a late SYN could still belong to it
  answered,    \* history: connections answered while their SYN was fresh
  cutOff       \* history: connections begun before the last reset

trackerVars == <<pending, recentFail, open, counts, crowdedOut>>
historyVars == <<answered, cutOff>>
flowVars == <<trackerVars, client, historyVars>>

\* The time since a failure is capped where it is out of the window of every
\* packet.  FORGOTTEN is no time but says that recentFail has no entry.
STALE == REFAIL_WINDOW + LAG
FORGOTTEN == STALE + 1

-----------------------------------------------------------------------------
(* The two maps, which keep the order of insertion.                         *)

PendingOf(c) == {i \in DOMAIN pending : pending[i].conn = c}

IsPending(c) == PendingOf(c) # {}

\* The attempts that may still be counted as failed.
Attempts == {pending[i].conn : i \in {j \in DOMAIN pending : ~pending[j].refail}}

\* Map.delete
PendingWithout(c) == Retained(pending, {i \in DOMAIN pending : pending[i].conn # c})

OpenWithout(c) == Retained(open, {i \in DOMAIN open : open[i] # c})

Entry(p, refail) == [conn |-> p.of, age |-> p.age, refail |-> refail]

Full == Len(pending) >= PENDING_CAP

\* `open': a connection that is there keeps its place, else the oldest goes
\* when the map is full (even if the connection is there).
OpenedRoom == IF Len(open) >= OPEN_CAP THEN Tail(open) ELSE open

Opened(c) ==
  IF \E i \in DOMAIN OpenedRoom : OpenedRoom[i] = c
  THEN OpenedRoom ELSE Append(OpenedRoom, c)

CrowdedOutOfOpen == IF Len(open) >= OPEN_CAP THEN {Head(open)} ELSE {}

Counted(kind) == [counts EXCEPT ![kind] = @ + 1]

-----------------------------------------------------------------------------
(* add: one packet.                                                         *)

\* A SYN while one is waiting: the same attempt, with a fresh timer.
SynAgain(p) ==
  /\ IsPending(p.of)
  /\ counts' = Counted("synRetries")
  /\ pending' = [i \in DOMAIN pending |->
                   IF i \in PendingOf(p.of) THEN [pending[i] EXCEPT !.age = p.age] ELSE pending[i]]
  /\ UNCHANGED <<recentFail, open, crowdedOut>>

FailedJustNow(p) == recentFail[p.of] - p.age < REFAIL_WINDOW

\* Mutant: what failed before is a new attempt.
SynRefailFresh(p) ==
  /\ ~IsPending(p.of) /\ FailedJustNow(p)
  /\ counts' = Counted("synRetries")
  /\ pending' = Append(pending, Entry(p, FALSE))
  /\ UNCHANGED <<recentFail, open, crowdedOut>>

\* A SYN soon after a failure: it belongs to the attempt that failed.
SynRefail(p) ==
  /\ ~IsPending(p.of) /\ FailedJustNow(p)
  /\ counts' = Counted("synRetries")
  /\ pending' = Append(pending, Entry(p, TRUE))
  /\ UNCHANGED <<recentFail, open, crowdedOut>>

\* The first SYN of an attempt.
SynFirst(p) ==
  /\ ~IsPending(p.of) /\ ~FailedJustNow(p)
  /\ counts' = Counted("synSent")
  /\ pending' = Append(IF Full THEN Tail(pending) ELSE pending, Entry(p, FALSE))
  /\ crowdedOut' = crowdedOut \cup IF Full THEN {Head(pending).conn} ELSE {}
  /\ UNCHANGED <<recentFail, open>>

\* A SYN-ACK that answers a waiting SYN; any other changes nothing.
SynAck(p) ==
  IF IsPending(p.of)
  THEN /\ pending' = PendingWithout(p.of)
       /\ recentFail' = [recentFail EXCEPT ![p.of] = FORGOTTEN]
       /\ counts' = Counted("established")
       /\ open' = Opened(p.of)
       /\ crowdedOut' = crowdedOut \cup CrowdedOutOfOpen
  ELSE UNCHANGED trackerVars

\* Mutant: only the client's FIN, not the server's, closes.
FinHalf(p) == UNCHANGED trackerVars

Fin(p) ==
  /\ open' = OpenWithout(p.of)
  /\ UNCHANGED <<pending, recentFail, counts, crowdedOut>>

\* A RST of the server: it refuses the SYN that waits, if one does.
Refusal(p) ==
  /\ open' = OpenWithout(p.of)
  /\ pending' = PendingWithout(p.of)
  /\ recentFail' = [recentFail EXCEPT ![p.of] = IF IsPending(p.of) THEN p.age ELSE @]
  /\ counts' =
       IF p.of \in Attempts
       THEN [Counted("resets") EXCEPT !.refused = @ + 1] ELSE Counted("resets")
  /\ UNCHANGED crowdedOut

\* A RST of the client, which aborts its own attempt.
Abort(p) ==
  /\ open' = OpenWithout(p.of)
  /\ pending' = PendingWithout(p.of)
  /\ counts' = Counted("resets")
  /\ UNCHANGED <<recentFail, crowdedOut>>

FlowAdd(p) ==
  \/ p.kind = "syn" /\ (SynAgain(p) \/ SynRefail(p) \/ SynFirst(p))
  \/ p.kind = "synack" /\ SynAck(p)
  \/ p.kind = "fin" /\ Fin(p)
  \/ p.kind = "refusal" /\ Refusal(p)
  \/ p.kind = "abort" /\ Abort(p)

FlowPackets == {"syn", "synack", "fin", "refusal", "abort"}

FlowDeliver ==
  /\ wire # << >> /\ Head(wire).kind \in FlowPackets
  /\ FlowAdd(Head(wire)) /\ Analysed
  /\ UNCHANGED <<client, historyVars>>

(* tick: unanswered SYNs expire.                                            *)

Overdue(e) == e.age > TIMEOUT

OverdueConns == {pending[i].conn : i \in {j \in DOMAIN pending : Overdue(pending[j])}}

NewlyHalfOpen ==
  {pending[i].conn : i \in {j \in DOMAIN pending : Overdue(pending[j]) /\ ~pending[j].refail}}

Remembered == {c \in Conns : recentFail[c] # FORGOTTEN} \cup OverdueConns

\* Mutant: when there are too many, all go.
OutdatedAll ==
  IF Cardinality(Remembered) > FAIL_CAP THEN Remembered \ OverdueConns ELSE {}

\* The failures that are pruned: when there are too many, those older than the
\* window.
Outdated ==
  IF Cardinality(Remembered) > FAIL_CAP
  THEN {c \in Remembered \ OverdueConns : recentFail[c] > REFAIL_WINDOW} ELSE {}

FlowTick ==
  /\ OverdueConns \cup Outdated # {}
  /\ pending' = Retained(pending, {i \in DOMAIN pending : ~Overdue(pending[i])})
  /\ recentFail' = [c \in Conns |-> IF c \in OverdueConns THEN 0
                                    ELSE IF c \in Outdated THEN FORGOTTEN ELSE recentFail[c]]
  /\ counts' = [counts EXCEPT !.halfOpen = @ + Cardinality(NewlyHalfOpen)]
  /\ crowdedOut' = crowdedOut \cup {c \in Outdated : recentFail[c] \in REFAIL_WINDOW + 1 .. STALE - 1}
  /\ UNCHANGED <<open, wire, client, historyVars>>

Tried == {c \in Conns : client[c].phase # "idle"}

FlowReset ==
  /\ pending' = << >>
  /\ recentFail' = [c \in Conns |-> FORGOTTEN]
  /\ open' = << >>
  /\ counts' = [k \in DOMAIN counts |-> 0]
  /\ crowdedOut' = {}
  /\ cutOff' = Tried
  /\ UNCHANGED <<client, answered>>

-----------------------------------------------------------------------------
(* The hosts.                                                               *)

Idle == [phase |-> "idle", tries |-> 0, wait |-> 0]

FlowInit ==
  /\ pending = << >>
  /\ recentFail = [c \in Conns |-> FORGOTTEN]
  /\ open = << >>
  /\ counts = [k \in {"synSent", "synRetries", "established", "halfOpen", "refused", "resets"} |-> 0]
  /\ client = [c \in Conns |-> Idle]
  /\ crowdedOut = {}
  /\ answered = {}
  /\ cutOff = {}

Connect(c) ==
  /\ client[c].phase = "idle"
  /\ Captured("syn", c)
  /\ client' = [client EXCEPT ![c] = [phase |-> "connecting", tries |-> 0, wait |-> Interval[0]]]
  /\ UNCHANGED <<trackerVars, historyVars>>

Retransmit(c) ==
  /\ client[c].phase = "connecting" /\ client[c].wait = 0 /\ client[c].tries < RETRIES
  /\ Captured("syn", c)
  /\ client' = [client EXCEPT ![c].tries = @ + 1, ![c].wait = Interval[client[c].tries + 1]]
  /\ UNCHANGED <<trackerVars, historyVars>>

\* The client ends: it gives up after its last SYN, or its user does.
HangUp(c) ==
  /\ client[c].phase = "connecting"
  /\ \/ client[c].wait = 0 /\ client[c].tries = RETRIES /\ UNCHANGED wire
     \/ Captured("abort", c)
  /\ client' = [client EXCEPT ![c] = [Idle EXCEPT !.phase = "gone"]]
  /\ UNCHANGED <<trackerVars, historyVars>>

SinceSyn(c) == Interval[client[c].tries] - client[c].wait

Answer(c) ==
  /\ client[c].phase = "connecting"
  /\ Captured("synack", c)
  /\ client' = [client EXCEPT ![c] = [Idle EXCEPT !.phase = "open"]]
  /\ answered' = answered \cup IF SinceSyn(c) + LAG <= TIMEOUT THEN {c} ELSE {}
  /\ UNCHANGED <<trackerVars, cutOff>>

\* The server did not get the client's ACK and repeats its answer.
AnswerAgain(c) ==
  /\ client[c].phase = "open" /\ client[c].tries = 0
  /\ Captured("synack", c)
  /\ client' = [client EXCEPT ![c].tries = 1]
  /\ UNCHANGED <<trackerVars, historyVars>>

Refuse(c) ==
  /\ client[c].phase = "connecting"
  /\ Captured("refusal", c)
  /\ client' = [client EXCEPT ![c] = [Idle EXCEPT !.phase = "gone"]]
  /\ UNCHANGED <<trackerVars, historyVars>>

Close(c) ==
  /\ client[c].phase = "open"
  /\ \E kind \in {"fin", "refusal", "abort"} : Captured(kind, c)
  /\ client' = [client EXCEPT ![c] = [Idle EXCEPT !.phase = "gone"]]
  /\ UNCHANGED <<trackerVars, historyVars>>

Hosts ==
  \E c \in Conns :
    Connect(c) \/ Retransmit(c) \/ HangUp(c) \/ Answer(c) \/ AnswerAgain(c) \/ Refuse(c) \/ Close(c)

\* A client whose timer is due acts before time passes, and tick runs several
\* times in a unit of time.
FlowsInTime ==
  /\ \A c \in Conns : client[c].phase = "connecting" => client[c].wait > 0
  /\ OverdueConns \cup Outdated = {}

FlowsElapse ==
  /\ pending' = [i \in DOMAIN pending |-> [pending[i] EXCEPT !.age = @ + 1]]
  /\ recentFail' = [c \in Conns |-> IF recentFail[c] < STALE THEN recentFail[c] + 1 ELSE recentFail[c]]
  /\ client' = [c \in Conns |-> IF client[c].phase = "connecting"
                                THEN [client[c] EXCEPT !.wait = @ - 1] ELSE client[c]]
  /\ UNCHANGED <<open, counts, crowdedOut, historyVars>>

-----------------------------------------------------------------------------
(* Properties.                                                              *)

FlowTypeOK ==
  /\ \A i \in DOMAIN pending :
       /\ pending[i].conn \in Conns
       /\ pending[i].age \in 0 .. TIMEOUT + 1
       /\ pending[i].refail \in BOOLEAN
  /\ \A i, j \in DOMAIN pending : pending[i].conn = pending[j].conn => i = j
  /\ recentFail \in [Conns -> 0 .. FORGOTTEN]
  /\ Len(open) <= OPEN_CAP
  /\ \A i, j \in DOMAIN open : open[i] = open[j] => i = j
  /\ \A k \in DOMAIN counts : counts[k] \in Nat
  /\ \A c \in Conns : client[c].tries \in 0 .. RETRIES

Reached == {c \in Conns : client[c].phase = "open"}

\* However often its client retries, a connection that fails is counted as one
\* failure (flows.js, "don't count one dead connect() as several failures"), as
\* long as no cap made the tracker forget an attempt or a failure; always, each SYN that may
\* still fail has an attempt of its own; and a connection is established once,
\* whatever is repeated.
CountedOnce ==
  /\ crowdedOut = {} => counts.halfOpen + counts.refused <= Cardinality(Tried)
  /\ counts.halfOpen + counts.refused + Cardinality(Attempts) <= counts.synSent
  /\ counts.established <= Cardinality({c \in Conns : client[c].phase \in {"open", "gone"}})

\* What is shown as open is open, or its end is on its way to the analysis; and
\* a connection that was answered in time is shown, unless a cap crowded it out
\* or the world was reset since it began.  (Types and caps go with it.)
OpenIsExact ==
  /\ FlowTypeOK
  /\ \A i \in DOMAIN open : open[i] \in Reached \/ OnItsWay(open[i])
  /\ \A c \in (Reached \cap answered) \ cutOff :
       OnItsWay(c) \/ c \in crowdedOut \/ \E i \in DOMAIN open : open[i] = c
=============================================================================
