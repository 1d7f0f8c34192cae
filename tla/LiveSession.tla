----------------------------- MODULE LiveSession -----------------------------
(***************************************************************************)
(* A live capture of the visualizer, from the sniffer to the page:          *)
(* LiveSession in backend/live.py, LiveSource in frontend/src/sources.js    *)
(* and its handlers in main.js.                                             *)
(*                                                                          *)
(* Four parties interleave: the sniffer's thread, which hands packets to    *)
(* the event loop; the loop with its callbacks and two tasks per session,   *)
(* run() and the pump, each atomic between awaits; the socket, which may    *)
(* break; and the page, whose user starts and stops captures.  Every start  *)
(* opens a socket and a session of its own, so an old session may still be  *)
(* ending while the next one runs.                                          *)
(*                                                                          *)
(* A packet is its id.  Left out: the demo stream, which sends packets of   *)
(* its own without queue or thread, and the freeze of the road.             *)
(***************************************************************************)
EXTENDS Integers, Sequences, FiniteSets, Functions, Folds

CONSTANTS
  QUEUE_CAP,    \* packets queued at a time; more are dropped and counted
  MAX_BATCH,    \* packets in one message
  MaxSessions,  \* bound: captures started
  MaxPackets    \* bound: packets of all captures

ASSUME LiveAssumption ==
  /\ QUEUE_CAP \in Nat \ {0} /\ MAX_BATCH \in Nat \ {0}
  /\ MaxSessions \in Nat /\ MaxPackets \in Nat

Sessions == 1 .. MaxSessions
Nobody == 0

VARIABLES
  run,        \* session -> where run() is
  pump,       \* session -> where the pump task is
  sniffer,    \* session -> the capture thread
  captured,   \* session -> packets captured
  callbacks,  \* session -> packets on their way to the loop
  queue,      \* session -> packets waiting for the pump
  dropped,    \* session -> packets the full queue refused
  socket,     \* session -> the connection
  down,       \* session -> messages on their way to the page
  started,    \* page: captures started so far; the last one is the latest
  ws,         \* page: the session of the source's socket, or Nobody
  attached,   \* page: the sessions whose messages have a handler
  mode,       \* page: live or pcap
  shown,      \* page: packets analysed since the last start or mode switch
  liveDropped,\* page: the drops on display
  warned      \* page: sessions whose error was shown

serverVars == <<run, pump, sniffer, captured, callbacks, queue, dropped>>
pageVars == <<started, ws, attached, mode, shown, liveDropped, warned>>
liveVars == <<serverVars, socket, down, pageVars>>

-----------------------------------------------------------------------------
(* The session.                                                             *)

Send(s, message) == down' = [down EXCEPT ![s] = Append(@, message)]

Hello == [type |-> "hello", items |-> << >>, dropped |-> 0]
Error == [Hello EXCEPT !.type = "error"]
PacketsMsg(items, n) == [type |-> "packets", items |-> items, dropped |-> n]

\* A send fails once the connection is gone.
Connected(s) == socket[s] = "open"

\* run says hello and creates the pump; without a connection it fails there.
SayHello(s) ==
  /\ run[s] = "hello"
  /\ IF Connected(s)
     THEN /\ Send(s, Hello)
          /\ run' = [run EXCEPT ![s] = "serving"]
          /\ pump' = [pump EXCEPT ![s] = "created"]
     ELSE /\ run' = [run EXCEPT ![s] = "done"]
          /\ UNCHANGED <<pump, down>>
  /\ UNCHANGED <<sniffer, captured, callbacks, queue, dropped, socket, pageVars>>

\* The pump tells the page that there is no capture (any more), and returns.
TellAndReturn(s) ==
  /\ pump' = [pump EXCEPT ![s] = "returned"]
  /\ IF Connected(s) THEN Send(s, Error) ELSE UNCHANGED down

StartSniffer(s) ==
  /\ pump[s] = "created"
  /\ \/ /\ sniffer' = [sniffer EXCEPT ![s] = "running"]
        /\ pump' = [pump EXCEPT ![s] = "starting"]
        /\ UNCHANGED down
     \/ TellAndReturn(s) /\ UNCHANGED sniffer
  /\ UNCHANGED <<run, captured, callbacks, queue, dropped, socket, pageVars>>

\* After 0.8 seconds the pump looks whether the thread lives.
CheckSniffer(s) ==
  /\ pump[s] = "starting"
  /\ IF sniffer[s] = "dead" THEN TellAndReturn(s)
     ELSE pump' = [pump EXCEPT ![s] = "streaming"] /\ UNCHANGED down
  /\ UNCHANGED <<run, sniffer, captured, callbacks, queue, dropped, socket, pageVars>>

BatchSize(s) == IF Len(queue[s]) < MAX_BATCH THEN Len(queue[s]) ELSE MAX_BATCH
Batch(s) == SubSeq(queue[s], 1, BatchSize(s))

\* The drops a message tells.
Told(s) == dropped[s]

\* Mutant: the pump returns without a word.
SnifferGoneSilent(s) ==
  /\ pump[s] = "streaming" /\ sniffer[s] = "dead"
  /\ pump' = [pump EXCEPT ![s] = "returned"]
  /\ UNCHANGED <<run, sniffer, captured, callbacks, queue, dropped, socket, down, pageVars>>

\* Every 100 ms: a thread that died ends the pump, else what is queued is sent,
\* and if that fails, the pump ends.
SnifferGone(s) ==
  /\ pump[s] = "streaming" /\ sniffer[s] = "dead"
  /\ TellAndReturn(s)
  /\ UNCHANGED <<run, sniffer, captured, callbacks, queue, dropped, socket, pageVars>>

SendBatch(s) ==
  /\ pump[s] = "streaming" /\ sniffer[s] # "dead" /\ queue[s] # << >>
  /\ queue' = [queue EXCEPT ![s] = SubSeq(@, BatchSize(s) + 1, Len(@))]
  /\ IF Connected(s) THEN Send(s, PacketsMsg(Batch(s), Told(s))) /\ UNCHANGED pump
     ELSE pump' = [pump EXCEPT ![s] = "failed"] /\ UNCHANGED down
  /\ UNCHANGED <<run, sniffer, captured, callbacks, dropped, socket, pageVars>>

\* Mutant: the pump is not cancelled.
NoticeDisconnectOnly(s) ==
  /\ run[s] = "serving" /\ ~Connected(s)
  /\ run' = [run EXCEPT ![s] = "leaving"]
  /\ UNCHANGED <<pump, sniffer, captured, callbacks, queue, dropped, socket, down, pageVars>>

\* receive_text raises: run cancels the pump, which ends at its await.
NoticeDisconnect(s) ==
  /\ run[s] = "serving" /\ ~Connected(s)
  /\ run' = [run EXCEPT ![s] = "leaving"]
  /\ pump' = [pump EXCEPT ![s] = "cancelled"]
  /\ UNCHANGED <<sniffer, captured, callbacks, queue, dropped, socket, down, pageVars>>

\* The pump has ended: run stops the sniffer.
StopSniffer(s) ==
  /\ run[s] = "leaving"
  /\ run' = [run EXCEPT ![s] = "done"]
  /\ sniffer' = [sniffer EXCEPT ![s] = IF @ = "running" THEN "stopped" ELSE @]
  /\ UNCHANGED <<pump, captured, callbacks, queue, dropped, socket, down, pageVars>>

(* The sniffer's thread, and the callbacks it leaves for the loop.          *)

CapturedInAll == FoldFunction(LAMBDA x, y : x + y, 0, captured)

OnPacket(s) ==
  /\ sniffer[s] = "running" /\ CapturedInAll < MaxPackets
  /\ captured' = [captured EXCEPT ![s] = @ + 1]
  /\ callbacks' = [callbacks EXCEPT ![s] = Append(@, captured[s] + 1)]
  /\ UNCHANGED <<run, pump, sniffer, queue, dropped, socket, down, pageVars>>

ThreadDies(s) ==
  /\ sniffer[s] = "running"
  /\ sniffer' = [sniffer EXCEPT ![s] = "dead"]
  /\ UNCHANGED <<run, pump, captured, callbacks, queue, dropped, socket, down, pageVars>>

\* Mutant: the oldest makes room, and nobody counts it.
EnqueueOldestOut(s) ==
  /\ callbacks[s] # << >>
  /\ callbacks' = [callbacks EXCEPT ![s] = Tail(@)]
  /\ queue' = [queue EXCEPT ![s] =
                 Append(IF Len(@) >= QUEUE_CAP THEN Tail(@) ELSE @, Head(callbacks[s]))]
  /\ UNCHANGED <<run, pump, sniffer, captured, dropped, socket, down, pageVars>>

Enqueue(s) ==
  /\ callbacks[s] # << >>
  /\ callbacks' = [callbacks EXCEPT ![s] = Tail(@)]
  /\ IF Len(queue[s]) >= QUEUE_CAP
     THEN dropped' = [dropped EXCEPT ![s] = @ + 1] /\ UNCHANGED queue
     ELSE queue' = [queue EXCEPT ![s] = Append(@, Head(callbacks[s]))] /\ UNCHANGED dropped
  /\ UNCHANGED <<run, pump, sniffer, captured, socket, down, pageVars>>

-----------------------------------------------------------------------------
(* The page.                                                                *)

LiveInit ==
  /\ run = [s \in Sessions |-> "none"]
  /\ pump = [s \in Sessions |-> "none"]
  /\ sniffer = [s \in Sessions |-> "none"]
  /\ captured = [s \in Sessions |-> 0]
  /\ callbacks = [s \in Sessions |-> << >>]
  /\ queue = [s \in Sessions |-> << >>]
  /\ dropped = [s \in Sessions |-> 0]
  /\ socket = [s \in Sessions |-> "none"]
  /\ down = [s \in Sessions |-> << >>]
  /\ started = 0
  /\ ws = Nobody
  /\ attached = {}
  /\ mode = "live"
  /\ shown = << >>
  /\ liveDropped = 0
  /\ warned = {}

Running == ws # Nobody /\ Connected(ws)

\* resetWorld
Reset == shown' = << >> /\ liveDropped' = 0

\* onCaptureToggle while nothing runs: a new socket, a new session.  The
\* handlers of a socket that broke stay, and get nothing any more.
Start ==
  /\ ~Running /\ mode = "live" /\ started < MaxSessions
  /\ started' = started + 1
  /\ ws' = started + 1
  /\ attached' = attached \cup {started + 1}
  /\ socket' = [socket EXCEPT ![started + 1] = "open"]
  /\ run' = [run EXCEPT ![started + 1] = "hello"]
  /\ Reset
  /\ UNCHANGED <<pump, sniffer, captured, callbacks, queue, dropped, down, mode, warned>>

\* Mutant: the socket closes, and its handlers stay.
DetachLate == ws' = Nobody /\ UNCHANGED <<attached, down>>

\* stop detaches the handlers: what is on its way is not delivered.
Detach ==
  /\ ws' = Nobody
  /\ attached' = attached \ {ws}
  /\ down' = [down EXCEPT ![ws] = << >>]

\* onCaptureToggle while a capture runs.
Stop ==
  /\ Running
  /\ socket' = [socket EXCEPT ![ws] = "closed"]
  /\ Detach
  /\ UNCHANGED <<serverVars, started, mode, shown, liveDropped, warned>>

\* onModeSwitch
SwitchMode ==
  /\ mode' = IF mode = "live" THEN "pcap" ELSE "live"
  /\ IF Running THEN socket' = [socket EXCEPT ![ws] = "closed"] /\ Detach
     ELSE UNCHANGED <<socket, ws, attached, down>>
  /\ Reset
  /\ UNCHANGED <<serverVars, started, warned>>

\* loadTimeline and seekTo, while a capture may run: the world starts over, and so
\* do the drops on display.  (shown goes on, to tell what came twice.)
StartOver ==
  /\ liveDropped' = 0
  /\ UNCHANGED <<serverVars, socket, down, started, ws, attached, mode, shown, warned>>

\* A message arrives.
OnMessage(s) ==
  /\ s \in attached /\ down[s] # << >>
  /\ down' = [down EXCEPT ![s] = Tail(@)]
  /\ LET message == Head(down[s]) IN
       IF message.type = "packets" /\ mode = "live"
       THEN /\ shown' = shown \o [i \in DOMAIN message.items |-> <<s, message.items[i]>>]
            /\ liveDropped' = message.dropped
            /\ UNCHANGED warned
       ELSE /\ warned' = IF message.type = "error" THEN warned \cup {s} ELSE warned
            /\ UNCHANGED <<shown, liveDropped>>
  /\ UNCHANGED <<serverVars, socket, started, ws, attached, mode>>

\* The connection breaks: what is on its way is lost, and both ends notice.
Break(s) ==
  /\ Connected(s)
  /\ socket' = [socket EXCEPT ![s] = "broken"]
  /\ down' = [down EXCEPT ![s] = << >>]
  /\ UNCHANGED <<serverVars, pageVars>>

Server(s) ==
  \/ SayHello(s) \/ StartSniffer(s) \/ CheckSniffer(s) \/ SnifferGone(s) \/ SendBatch(s)
  \/ NoticeDisconnect(s) \/ StopSniffer(s) \/ Enqueue(s)

LiveNext ==
  \/ \E s \in Sessions : Server(s) \/ OnPacket(s) \/ ThreadDies(s) \/ OnMessage(s) \/ Break(s)
  \/ Start \/ Stop \/ SwitchMode \/ StartOver

LiveSpec == LiveInit /\ [][LiveNext]_liveVars

\* The event loop runs what is ready, and so does the page.  Nobody has to
\* start or stop a capture, and the network owes no packets.
Fairness ==
  \A s \in Sessions :
    /\ WF_liveVars(SayHello(s)) /\ WF_liveVars(StartSniffer(s)) /\ WF_liveVars(CheckSniffer(s))
    /\ WF_liveVars(SnifferGone(s)) /\ WF_liveVars(SendBatch(s)) /\ WF_liveVars(Enqueue(s))
    /\ WF_liveVars(NoticeDisconnect(s)) /\ WF_liveVars(StopSniffer(s)) /\ WF_liveVars(OnMessage(s))

FairSpec == LiveSpec /\ Fairness

-----------------------------------------------------------------------------
(* Properties.                                                              *)

TypeOK ==
  /\ run \in [Sessions -> {"none", "hello", "serving", "leaving", "done"}]
  /\ pump \in [Sessions -> {"none", "created", "starting", "streaming", "returned", "failed", "cancelled"}]
  /\ sniffer \in [Sessions -> {"none", "running", "dead", "stopped"}]
  /\ captured \in [Sessions -> Nat] /\ dropped \in [Sessions -> Nat]
  /\ socket \in [Sessions -> {"none", "open", "closed", "broken"}]
  /\ \A s \in Sessions : Len(queue[s]) <= QUEUE_CAP
  /\ ws \in {Nobody, started} /\ started \in 0 .. MaxSessions
  /\ attached \subseteq Sessions /\ (ws = Nobody \/ ws \in attached)
  /\ mode \in {"live", "pcap"}
  /\ liveDropped \in Nat
  /\ warned \subseteq Sessions

\* The packets of s that were not refused: shown, in messages, in the queue, and
\* in callbacks.
ShownOf(s) == {shown[i][2] : i \in {j \in DOMAIN shown : shown[j][1] = s}}
Sent(s) == UNION {Range(down[s][m].items) : m \in DOMAIN down[s]}
OnTheWay(s) == ShownOf(s) \cup Sent(s) \cup Range(queue[s]) \cup Range(callbacks[s])

Rising(a) == \A i, j \in DOMAIN a : i < j => a[i] < a[j]
Before(A, B) == \A a \in A, b \in B : a < b

InOrder(s) ==
  /\ \A i, j \in DOMAIN shown : i < j /\ shown[i][1] = s /\ shown[j][1] = s => shown[i][2] < shown[j][2]
  /\ \A m \in DOMAIN down[s] : Rising(down[s][m].items)
  /\ \A m, n \in DOMAIN down[s] : m < n => Before(Range(down[s][m].items), Range(down[s][n].items))
  /\ Rising(queue[s]) /\ Rising(callbacks[s])
  /\ Before(ShownOf(s), Sent(s) \cup Range(queue[s]) \cup Range(callbacks[s]))
  /\ Before(Sent(s), Range(queue[s]) \cup Range(callbacks[s]))
  /\ Before(Range(queue[s]), Range(callbacks[s]))

\* No packet overtakes another or comes twice, through thread, loop, batches and
\* socket; as long as the page is connected every captured packet is on its way,
\* shown, or counted as dropped (live.py, "drop (but count) packets beyond this
\* backlog"), and the page never displays more drops than there were.  (Types and
\* the bound of the queue go with it.)
Accounted ==
  /\ TypeOK
  /\ \A s \in Sessions : InOrder(s)
  /\ Running => /\ captured[ws] = Cardinality(OnTheWay(ws)) + dropped[ws]
                /\ liveDropped <= dropped[ws]

\* What is shown is of the capture that runs: what was on its way when its
\* capture stopped or the mode was switched never arrives (sources.js, "queued
\* messages must not spawn vehicles after STOP").
ShownWhileRunning ==
  [][\/ shown' \in {shown, << >>}
     \/ Running /\ mode = "live" /\ \A i \in DOMAIN shown' : shown'[i][1] = ws]_liveVars

Watched(s) == ws = s /\ Connected(s)

\* The page learns of trouble: of every drop while the capture goes on, though
\* only with the next packets, and those that filled the queue do come (a reset of
\* the world hides the drops until then); and of a capture that died, at the start
\* or later (live.py, "tell the client instead of streaming silence forever").
TroubleTold ==
  \A s \in Sessions :
    /\ Watched(s) /\ liveDropped < dropped[s] /\ queue[s] # << >>
         ~> liveDropped = dropped[s] \/ ~Watched(s) \/ sniffer[s] = "dead"
    /\ Watched(s) /\ sniffer[s] = "dead" ~> s \in warned \/ ~Watched(s)

\* Once the page is gone the sniffer is stopped, or never starts.
SnifferStopped ==
  \A s \in Sessions : socket[s] \in {"closed", "broken"} ~> [](sniffer[s] # "running")
=============================================================================
