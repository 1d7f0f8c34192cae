---------------------------- MODULE EventDelivery ----------------------------
(***************************************************************************)
(* How events get from a core to JavaScript, and how the binding between    *)
(* them is taken down: the worker thread with push_inbox and emit (lib.rs,  *)
(* c_api.rs), the JS thread with the host object and its listener           *)
(* (MeshCoreHostObject.cpp, index.ts), and the thread on which the platform *)
(* module is invalidated (MeshCoreModule.mm and .kt, OnLoad.cpp).           *)
(*                                                                          *)
(* A core serves one host object after the other: each new JS runtime       *)
(* installs its own and takes the old one down.  Host h is the h-th.  An    *)
(* event is known by its number in the order the worker makes them.         *)
(*                                                                          *)
(* Tasks of the JS thread run to completion, so the listener is set before  *)
(* the first posted event runs.  To reach JavaScript is to reach the        *)
(* fan-out of index.ts, whatever handlers the app has.  Of the host         *)
(* functions only receive is here; the others treat the handle the same.    *)
(* Installing and invalidating exclude each other (g_hostMutex).            *)
(***************************************************************************)
EXTENDS Integers, Sequences, FiniteSets, SequencesExt

CONSTANTS
  INBOX_CAPACITY,  \* bound on the events kept for JavaScript to pull
  MaxEvents,       \* bound: the worker makes this many events
  MaxHosts         \* bound: this many runtimes install a host object

ASSUME EventDeliveryAssumption ==
  /\ INBOX_CAPACITY \in Nat \ {0}
  /\ MaxEvents \in Nat
  /\ MaxHosts \in Nat

NoHost == 0
Hosts == 1 .. MaxHosts
Events == 1 .. MaxEvents

\* Received messages are kept in the inbox; a notice (a receipt, a peer, a
\* state, an error) is only emitted.
Kinds == {"message", "notice"}

VARIABLES
  log,      \* kinds of the events made so far
  worker,   \* where the worker is, with the event it emits and the host it calls
  inbox,    \* MeshCore.inbox
  sink,     \* the host registered in SwappableSink, or NoHost
  hosts,    \* number of hosts installed: the last one is bound to this runtime
  valid,    \* hosts whose valid_ flag is set
  handles,  \* hosts whose handle_ is not null
  js,       \* where the JS thread is
  queue,    \* what was posted to it: <<host, event>>
  reached,  \* the events that reached JavaScript, in order (history)
  dropped,  \* droppedEvents, summed over the hosts
  cut,      \* a handler that threw has ended a drain (history)
  module    \* where the module's invalidate() is

workerVars == <<log, worker, inbox>>
bindVars == <<sink, hosts, valid, handles>>
jsVars == <<js, queue, reached, dropped, cut>>
eventVars == <<workerVars, bindVars, jsVars, module>>

Idle == [pc |-> "idle", event |-> 0, host |-> NoHost]

-----------------------------------------------------------------------------
EventInit ==
  /\ log = << >>
  /\ worker = Idle
  /\ inbox = << >>
  /\ sink = NoHost
  /\ hosts = 0
  /\ valid = {}
  /\ handles = {}
  /\ js = "free"
  /\ queue = << >>
  /\ reached = << >>
  /\ dropped = 0
  /\ cut = FALSE
  /\ module = "live"

(* The worker.                                                              *)

\* Mutant: the inbox is full one event early.
PushInboxTight(box, n) == Append(IF Len(box) >= INBOX_CAPACITY - 1 THEN Tail(box) ELSE box, n)

\* push_inbox: the oldest event makes room.
PushInbox(box, n) == Append(IF Len(box) >= INBOX_CAPACITY THEN Tail(box) ELSE box, n)

\* The worker has an event to report.  A message goes to the inbox first.
Make(kind) ==
  /\ worker.pc = "idle"
  /\ Len(log) < MaxEvents
  /\ log' = Append(log, kind)
  /\ inbox' = IF kind = "message" THEN PushInbox(inbox, Len(log')) ELSE inbox
  /\ worker' = [pc |-> "emit", event |-> Len(log'), host |-> NoHost]
  /\ UNCHANGED <<bindVars, jsVars, module>>

\* emit finds no sink.
EmitUnheard ==
  /\ worker.pc = "emit"
  /\ sink = NoHost
  /\ worker' = Idle
  /\ UNCHANGED <<log, inbox, bindVars, jsVars, module>>

\* emit calls the host, and holds its read guard until the call returns.
EmitTo ==
  /\ worker.pc = "emit"
  /\ sink # NoHost
  /\ worker' = [worker EXCEPT !.pc = "called", !.host = sink]
  /\ UNCHANGED <<log, inbox, bindVars, jsVars, module>>

\* onEvent, on a host that is being taken down: the event is dropped.
OnEventDropped ==
  /\ worker.pc = "called"
  /\ worker.host \notin valid
  /\ dropped' = dropped + 1
  /\ worker' = Idle
  /\ UNCHANGED <<cut, log, inbox, bindVars, js, queue, reached, module>>

OnEvent ==
  /\ worker.pc = "called"
  /\ worker.host \in valid
  /\ worker' = [worker EXCEPT !.pc = "posting"]
  /\ UNCHANGED <<log, inbox, bindVars, jsVars, module>>

\* Mutant: the call waits until the JS thread has run what was posted before.
PostWaits ==
  /\ worker.pc = "posting"
  /\ queue = << >>
  /\ queue' = Append(queue, <<worker.host, worker.event>>)
  /\ worker' = Idle
  /\ UNCHANGED <<cut, log, inbox, bindVars, js, reached, dropped, module>>

\* invokeAsync, and the call returns.
Post ==
  /\ worker.pc = "posting"
  /\ queue' = Append(queue, <<worker.host, worker.event>>)
  /\ worker' = Idle
  /\ UNCHANGED <<cut, log, inbox, bindVars, js, reached, dropped, module>>

\* Shutdown is received, after what was in the channel before it.
StopWorker ==
  /\ worker.pc = "idle"
  /\ module = "joining"
  /\ worker' = [Idle EXCEPT !.pc = "stopped"]
  /\ UNCHANGED <<log, inbox, bindVars, jsVars, module>>

(* The binding.                                                             *)

\* Mutant: emit has let go of its guard before it calls.
SinkWritableAlways == TRUE

\* The write lock of SwappableSink can be taken: no callback is in flight.
SinkWritable == worker.pc \notin {"called", "posting"}

\* mesh_core_set_event_sink(handle, NULL, NULL).
Unregister ==
  /\ SinkWritable
  /\ sink' = NoHost
  /\ UNCHANGED <<hosts, valid, handles>>

\* handle_ = nullptr.
Forget ==
  /\ handles' = handles \ {hosts}
  /\ UNCHANGED <<sink, hosts, valid>>

\* The flag of the last host goes down.
Revoke ==
  /\ valid' = valid \ {hosts}
  /\ UNCHANGED <<sink, hosts, handles>>

(* The JS thread.                                                           *)

Installing == js \in {"unregister", "forget", "register"}

\* initialize() in a new runtime: installJSI takes the old host down.
Initialize ==
  /\ js = "free"
  /\ module = "live"
  /\ hosts < MaxHosts
  /\ IF hosts = 0
     THEN js' = "register" /\ UNCHANGED bindVars
     ELSE js' = "unregister" /\ Revoke
  /\ UNCHANGED <<cut, workerVars, queue, reached, dropped, module>>

JsUnregister ==
  /\ js = "unregister"
  /\ js' = "forget"
  /\ Unregister
  /\ UNCHANGED <<cut, workerVars, queue, reached, dropped, module>>

JsForget ==
  /\ js = "forget"
  /\ js' = "register"
  /\ Forget
  /\ UNCHANGED <<cut, workerVars, queue, reached, dropped, module>>

\* Mutant: initialize() does not drain.
RegisterOnly ==
  /\ js = "register"
  /\ SinkWritable
  /\ js' = "free"
  /\ hosts' = hosts + 1
  /\ sink' = hosts'
  /\ valid' = valid \cup {hosts'}
  /\ handles' = handles \cup {hosts'}
  /\ UNCHANGED <<cut, workerVars, queue, reached, dropped, module>>

\* The new host is registered; initialize() goes on to drain the inbox.
Register ==
  /\ js = "register"
  /\ SinkWritable
  /\ js' = "drain"
  /\ hosts' = hosts + 1
  /\ sink' = hosts'
  /\ valid' = valid \cup {hosts'}
  /\ handles' = handles \cup {hosts'}
  /\ UNCHANGED <<cut, workerVars, queue, reached, dropped, module>>

\* The app calls drain(), on foreground.
Drain ==
  /\ js = "free"
  /\ hosts > 0
  /\ js' = "drain"
  /\ UNCHANGED <<cut, workerVars, bindVars, queue, reached, dropped, module>>

\* receive() reads the handle: a null handle is an error that ends the drain.
Receive ==
  /\ js = "drain"
  /\ js' = IF hosts \in handles THEN "inCore" ELSE "free"
  /\ UNCHANGED <<cut, workerVars, bindVars, queue, reached, dropped, module>>

TakeNothing ==
  /\ js = "inCore"
  /\ module # "done"
  /\ inbox = << >>
  /\ js' = "free"
  /\ UNCHANGED <<cut, workerVars, bindVars, queue, reached, dropped, module>>

\* One event is pulled.  A handler that throws ends the drain.
Take ==
  /\ js = "inCore"
  /\ module # "done"
  /\ inbox # << >>
  /\ reached' = Append(reached, Head(inbox))
  /\ inbox' = Tail(inbox)
  /\ \/ js' = "drain" /\ cut' = cut
     \/ js' = "free" /\ cut' = TRUE
  /\ UNCHANGED <<log, worker, bindVars, queue, dropped, module>>

\* A posted event runs.
RunPosted ==
  /\ js = "free"
  /\ queue # << >>
  /\ Head(queue)[1] \in valid
  /\ reached' = Append(reached, Head(queue)[2])
  /\ queue' = Tail(queue)
  /\ UNCHANGED <<cut, workerVars, bindVars, js, dropped, module>>

\* A posted event whose host was taken down meanwhile.
RunStale ==
  /\ js = "free"
  /\ queue # << >>
  /\ Head(queue)[1] \notin valid
  /\ queue' = Tail(queue)
  /\ UNCHANGED <<cut, workerVars, bindVars, js, reached, dropped, module>>

(* The platform module.                                                     *)

Invalidate ==
  /\ module = "live"
  /\ ~Installing
  /\ IF hosts = 0
     THEN module' = "free" /\ UNCHANGED bindVars
     ELSE module' = "unregister" /\ Revoke
  /\ UNCHANGED <<workerVars, jsVars>>

ModuleUnregister ==
  /\ module = "unregister"
  /\ module' = "forget"
  /\ Unregister
  /\ UNCHANGED <<workerVars, jsVars>>

ModuleForget ==
  /\ module = "forget"
  /\ module' = "free"
  /\ Forget
  /\ UNCHANGED <<workerVars, jsVars>>

\* mesh_core_free: Shutdown is sent, the worker joined, the core freed.
Free ==
  /\ module = "free"
  /\ module' = "joining"
  /\ UNCHANGED <<workerVars, bindVars, jsVars>>

Join ==
  /\ module = "joining"
  /\ worker.pc = "stopped"
  /\ module' = "done"
  /\ UNCHANGED <<workerVars, bindVars, jsVars>>

Emit == EmitUnheard \/ EmitTo \/ OnEventDropped \/ OnEvent \/ Post
Install == JsUnregister \/ JsForget \/ Register
Teardown == ModuleUnregister \/ ModuleForget \/ Free \/ Join

EventNext ==
  \/ \E kind \in Kinds : Make(kind)
  \/ Emit \/ StopWorker
  \/ Initialize \/ Install
  \/ Drain \/ Receive \/ TakeNothing \/ Take
  \/ RunPosted \/ RunStale
  \/ Invalidate \/ Teardown

EventSpec == EventInit /\ [][EventNext]_eventVars

\* No thread stops for good between two steps of a call.
EventFairSpec ==
  /\ EventSpec
  /\ WF_eventVars(Emit)
  /\ WF_eventVars(StopWorker)
  /\ WF_eventVars(Install)
  /\ WF_eventVars(Teardown)

-----------------------------------------------------------------------------
(* Properties.                                                              *)

EventTypeOK ==
  /\ log \in Seq(Kinds) /\ Len(log) <= MaxEvents
  /\ worker \in [pc : {"idle", "emit", "called", "posting", "stopped"},
                 event : Events \cup {0}, host : Hosts \cup {NoHost}]
  /\ inbox \in Seq(Events) /\ Len(inbox) <= INBOX_CAPACITY
  /\ sink \in Hosts \cup {NoHost}
  /\ hosts \in 0 .. MaxHosts
  /\ valid \subseteq Hosts /\ handles \subseteq Hosts
  /\ js \in {"free", "unregister", "forget", "register", "drain", "inCore"}
  /\ queue \in Seq(Hosts \X Events)
  /\ reached \in Seq(Events)
  /\ dropped \in Nat
  /\ cut \in BOOLEAN
  /\ module \in {"live", "unregister", "forget", "free", "joining", "done"}

Messages == {n \in DOMAIN log : log[n] = "message"}

\* So many messages came after n that the inbox may have dropped it.
Crowded(n) == Cardinality({k \in Messages : k > n}) >= INBOX_CAPACITY

Pos(n) == CHOOSE i \in DOMAIN reached : reached[i] = n /\ \A j \in 1 .. i - 1 : reached[j] # n

\* Once a host was told to forget its core no callback runs in it: clearing the
\* sink waits for the one in flight (c_api.rs, emit; ARCHITECTURE.md,
\* "Teardown is ordered").  (Types and the bound of the inbox go with it.)
NoLateCallback == EventTypeOK /\ (worker.pc \in {"called", "posting"} => worker.host \in handles)

\* A message JavaScript has not got is there to be pulled, unless the inbox was
\* full: no reload and no race of push and pull loses it (c_api.rs, emit).
MessagesKept ==
  \A n \in Messages :
    \/ n \in ToSet(reached)
    \/ n \in ToSet(inbox)
    \/ Crowded(n)

\* Messages reach JavaScript in the order they were received, each for the
\* first time and unless the inbox was full: those that waited in it go before
\* those that are pushed, if no drain was cut off (index.ts, initialize).
FirstSightInOrder ==
  ~cut => \A m, n \in Messages \cap ToSet(reached) : m < n => Pos(m) < Pos(n) \/ Crowded(m)

\* A call that installs a host comes back to JavaScript, and invalidate() of the
\* module comes to its end: taking a host down never waits for the thread that
\* waits.
CallsReturn ==
  /\ Installing ~> ~Installing
  /\ module # "live" ~> module = "done"
=============================================================================
