------------------------------- MODULE Bridge -------------------------------
(***************************************************************************)
(* The life of a core under its native module: created and freed through   *)
(* the C ABI (mesh/rust/meshcore-ffi/src/c_api.rs, iOS) or through JNI     *)
(* (android.rs), called by the JavaScript thread through the host object   *)
(* and by the radio's scan thread, worked by its own thread (lib.rs).       *)
(*                                                                          *)
(* A handle is the number of its core.  A call reads its handle in one      *)
(* step and uses it in another.  The module's own methods do not overlap:   *)
(* nothing in the code orders installJSI against invalidate, and that race  *)
(* is left out.  How events and listeners meet is in EventDelivery.tla.     *)
(***************************************************************************)
EXTENDS EventWire

CONSTANTS
  EventsOf,     \* what the worker reports when it serves a command, or ticks
  PeerTables,   \* peer tables
  Lengths,      \* lengths of the bodies and advertisements
  MAX_BODY,
  MAX_FRAME,
  MaxCores,     \* bound: cores that were asked for
  MaxCommands   \* bound: calls a core accepts

NULL == 0
Threads == {"js", "scan"}
\* What each thread asks for, of which lengths.
Arguments == [js |-> ({"Start", "Stop"} \X {0}) \cup ({"Send"} \X Lengths),
              scan |-> {"Ingest"} \X Lengths]

ASSUME BridgeAssumption ==
  /\ \A command \in {"Start", "Stop", "Send", "Ingest", "Tick"} : command \in DOMAIN EventsOf
  /\ \A command \in DOMAIN EventsOf : EventsOf[command] \subseteq Events
  /\ PeerTables \subseteq Seq(PeerInfos)
  /\ Lengths \subseteq Nat
  /\ {MAX_BODY, MAX_FRAME, MaxCores, MaxCommands} \subseteq Nat

VARIABLES
  platform,   \* "ios" or "android"
  module,     \* the native module: where it stands, and the handle it owns
  hostHandle, \* handle_ of the host object
  scanHandle, \* coreHandle of the radio
  cores,      \* the cores, each with its worker and the radio that was given to it
  calls,      \* the calls in progress, by thread
  up          \* the buffer that went up last, who decodes it, and what it was made from

vars == <<platform, module, hostHandle, scanHandle, cores, calls, up>>

NoCall == [command |-> "none"]
Up(decoder, sent, wire) == [decoder |-> decoder, sent |-> sent, wire |-> wire]
Nothing == Up("none", <<>>, <<>>)

NewCore == [worker |-> "running", running |-> FALSE, queue |-> <<>>, released |-> 0,
            accepted |-> <<>>, handled |-> <<>>]

Init ==
  /\ platform \in {"ios", "android"}
  /\ module = [step |-> "idle", handle |-> NULL]
  /\ hostHandle = NULL
  /\ scanHandle = NULL
  /\ cores = <<>>
  /\ calls = [t \in Threads |-> NoCall]
  /\ up = Nothing

-----------------------------------------------------------------------------
(* The module.                                                              *)

\* mesh_core_new and nativeCreate take the radio first, and give it to the worker.
Initialize ==
  /\ module.step = "idle"
  /\ Len(cores) < MaxCores
  /\ cores' = Append(cores, NewCore)
  /\ module' = [step |-> "up", handle |-> Len(cores')]
  /\ scanHandle' = module'.handle
  /\ UNCHANGED <<platform, hostHandle, calls, up>>

\* No identity, no keys, no thread: the radio is dropped on the way out.  (Without
\* a reference to the radio, on Android, nothing has happened.)
InitializeFails ==
  /\ module.step = "idle"
  /\ Len(cores) < MaxCores
  /\ cores' = Append(cores, [NewCore EXCEPT !.worker = "none", !.released = 1])
  /\ UNCHANGED <<platform, module, hostHandle, scanHandle, calls, up>>

\* installJSI: a new host object; an old one is invalidated first.
Install ==
  /\ module.step = "up"
  /\ hostHandle' = module.handle
  /\ UNCHANGED <<platform, module, scanHandle, cores, calls, up>>

\* Mutant: the host object is marked, and keeps its handle.
ForgetHostMarked ==
  /\ module.step = "up"
  /\ module' = [module EXCEPT !.step = "host forgotten"]
  /\ UNCHANGED <<platform, hostHandle, scanHandle, cores, calls, up>>

\* invalidate of the host object: its sink is cleared, then its handle.
ForgetHost ==
  /\ module.step = "up"
  /\ module' = [module EXCEPT !.step = "host forgotten"]
  /\ hostHandle' = NULL
  /\ UNCHANGED <<platform, scanHandle, cores, calls, up>>

ForgetRadio ==
  /\ module.step = "host forgotten"
  /\ module' = [module EXCEPT !.step = "forgotten"]
  /\ scanHandle' = NULL
  /\ UNCHANGED <<platform, hostHandle, cores, calls, up>>

\* Mutant: Shutdown overtakes the commands that wait.
FreeAtOnce ==
  /\ module.step = "forgotten"
  /\ module' = [module EXCEPT !.step = "joining"]
  /\ cores' = [cores EXCEPT ![module.handle].queue = <<"Shutdown">> \o @,
                            ![module.handle].accepted = Append(@, "Shutdown")]
  /\ UNCHANGED <<platform, hostHandle, scanHandle, calls, up>>

\* The core is dropped: Shutdown goes to the end of the queue.
Free ==
  /\ module.step = "forgotten"
  /\ module' = [module EXCEPT !.step = "joining"]
  /\ cores' = [cores EXCEPT ![module.handle].queue = Append(@, "Shutdown"),
                            ![module.handle].accepted = Append(@, "Shutdown")]
  /\ UNCHANGED <<platform, hostHandle, scanHandle, calls, up>>

\* Mutant: the worker is detached, not joined.
FreedDetached ==
  /\ module.step = "joining"
  /\ module' = [step |-> "idle", handle |-> NULL]
  /\ UNCHANGED <<platform, hostHandle, scanHandle, cores, calls, up>>

\* mesh_core_free and nativeDestroy return when the worker has ended; the memory
\* of the core is gone.
Freed ==
  /\ module.step = "joining"
  /\ cores[module.handle].worker = "done"
  /\ module' = [step |-> "idle", handle |-> NULL]
  /\ cores' = [cores EXCEPT ![module.handle].queue = <<>>, ![module.handle].accepted = <<>>,
                            ![module.handle].handled = <<>>]
  /\ UNCHANGED <<platform, hostHandle, scanHandle, calls, up>>

-----------------------------------------------------------------------------
(* Calls.                                                                   *)

Handle(t) == IF t = "js" THEN hostHandle ELSE scanHandle

\* A host function reads handle_, or the scan callback coreHandle; Kotlin drops
\* an advertisement longer than its buffer, and iOS cuts it.
Begin(t, command, length) ==
  /\ calls[t] = NoCall
  /\ t = "scan" => scanHandle # NULL
  /\ t = "scan" => IF platform = "ios" THEN length > 0 ELSE length <= MAX_FRAME
  /\ calls' = [calls EXCEPT ![t] =
       [command |-> command, handle |-> Handle(t),
        length |-> IF t = "scan" /\ length > MAX_FRAME THEN MAX_FRAME ELSE length]]
  /\ UNCHANGED <<platform, module, hostHandle, scanHandle, cores, up>>

\* send_message and ingest have limits.
Legal(call) ==
  CASE call.command = "Send" -> call.length \in 1 .. MAX_BODY
    [] call.command = "Ingest" -> call.length \in 1 .. MAX_FRAME
    [] OTHER -> TRUE

\* The status a call returns.  With a core that was freed under it anything may
\* happen; here nothing does.
Status(call) ==
  CASE call.handle = NULL -> "NullHandle"
    [] call.handle # module.handle -> "undefined"
    [] ~Legal(call) -> "InvalidArgument"
    [] cores[call.handle].worker = "done" -> "NotRunning"
    [] OTHER -> "Ok"

\* tx.send: a call that is not refused is queued for the worker.
Sent(t) ==
  LET call == calls[t] IN
  /\ call # NoCall
  /\ IF Status(call) = "Ok"
     THEN /\ Len(cores[call.handle].accepted) < MaxCommands
          /\ cores' = [cores EXCEPT ![call.handle].queue = Append(@, call.command),
                                    ![call.handle].accepted = Append(@, call.command)]
     ELSE UNCHANGED cores
  /\ calls' = [calls EXCEPT ![t] = NoCall]
  /\ UNCHANGED <<platform, module, hostHandle, scanHandle, up>>

\* mesh_start_broadcasting, mesh_stop_broadcasting, mesh_send_message.
HostCall == Sent("js")
\* nativeIngestDirect, mesh_ingest.
ScanCall == Sent("scan")

\* mesh_peers: read by the JavaScript thread, and not by the worker.
Peers(table) ==
  /\ module.handle # NULL
  /\ hostHandle = module.handle
  /\ up' = Up("decodePeers", table, peers_wire(table))
  /\ UNCHANGED <<platform, module, hostHandle, scanHandle, cores, calls>>

-----------------------------------------------------------------------------
(* The worker.                                                              *)

\* What a call of the radio comes to.  iOS: a function of the table that may be
\* absent, and returns zero for success.
CRadio(method, answer) ==
  CASE answer = "absent" -> IF method = "send_direct" THEN "UnknownPeer" ELSE "Radio"
    [] answer = "zero" -> "Ok"
    [] answer = "nonzero" -> "Radio"
\* Android: a method that returns a truth value, or throws.
AndroidRadio(method, answer) ==
  CASE answer = "throws" -> "Radio"
    [] answer = "true" -> "Ok"
    [] answer = "false" -> IF method = "send_direct" THEN "UnknownPeer" ELSE "Radio"
Radio(method) ==
  IF platform = "ios"
  THEN {CRadio(method, answer) : answer \in {"absent", "zero", "nonzero"}}
  ELSE {AndroidRadio(method, answer) : answer \in {"throws", "true", "false"}}

\* The worker of core c takes what its queue has at the head.
Take(c, command) ==
  /\ cores[c].worker = "running"
  /\ cores[c].queue # <<>>
  /\ Head(cores[c].queue) = command

\* It has served it, and ticked.
Served(c, running) ==
  cores' = [cores EXCEPT ![c].queue = Tail(@), ![c].running = running,
                         ![c].handled = Append(@, Head(cores[c].queue))]

\* The last event of a command, or of the tick after it, goes up if the core has
\* a sink.
Emit(c, reports) ==
  up' \in IF hostHandle = c
          THEN {Up("decodeEvent", e, to_wire(e)) : e \in reports \cup EventsOf["Tick"]}
          ELSE {up}

Reports(command, kinds) == {e \in EventsOf[command] : e.kind \in kinds}

\* do_start: scanning first, then the beacon.
do_start(c) ==
  /\ Take(c, "Start")
  /\ \E scanning \in Radio("start_scanning"), beacon \in Radio("start_advertising") :
       LET started == scanning = "Ok" /\ beacon = "Ok" IN
       /\ Served(c, cores[c].running \/ scanning = "Ok")
       /\ Emit(c, Reports("Start", IF started THEN {"TransportState"} ELSE {"Error"}))
  /\ UNCHANGED <<platform, module, hostHandle, scanHandle, calls>>

do_stop(c) ==
  /\ Take(c, "Stop")
  /\ \E advertising \in Radio("stop_advertising"), scanning \in Radio("stop_scanning") :
       LET stopped == advertising = "Ok" /\ scanning = "Ok" IN
       /\ Served(c, cores[c].running /\ ~stopped)
       /\ Emit(c, Reports("Stop", IF stopped THEN {"TransportState"} ELSE {"Error"}))
  /\ UNCHANGED <<platform, module, hostHandle, scanHandle, calls>>

\* do_send and do_ingest, as far as they report; a core that does not run sends
\* nothing.
do_send_or_ingest(c, command) ==
  /\ Take(c, command)
  /\ Served(c, cores[c].running)
  /\ \/ Emit(c, IF command = "Send" /\ ~cores[c].running THEN Reports(command, {"Error"})
                ELSE EventsOf[command])
     \/ UNCHANGED up
  /\ UNCHANGED <<platform, module, hostHandle, scanHandle, calls>>

\* recv_timeout has waited a TICK.
Timeout(c) ==
  /\ cores[c].worker = "running"
  /\ Emit(c, {})
  /\ UNCHANGED <<platform, module, hostHandle, scanHandle, cores, calls>>

\* run ends, whatever the radio answers, and drops the radio.
End(c) ==
  /\ Take(c, "Shutdown")
  /\ cores' = [cores EXCEPT ![c].queue = Tail(@), ![c].worker = "done",
                            ![c].running = FALSE, ![c].released = @ + 1]
  /\ UNCHANGED <<platform, module, hostHandle, scanHandle, calls, up>>

Work(c) ==
  \/ do_start(c) \/ do_stop(c)
  \/ do_send_or_ingest(c, "Send") \/ do_send_or_ingest(c, "Ingest")
  \/ Timeout(c) \/ End(c)

-----------------------------------------------------------------------------
Next ==
  \/ Initialize \/ InitializeFails \/ Install
  \/ ForgetHost \/ ForgetRadio \/ Free \/ Freed
  \/ HostCall \/ ScanCall
  \/ \E t \in Threads : \E a \in Arguments[t] : Begin(t, a[1], a[2])
  \/ \E table \in PeerTables : Peers(table)
  \/ \E c \in DOMAIN cores : Work(c)

Spec == Init /\ [][Next]_vars

-----------------------------------------------------------------------------
(* Properties.                                                              *)

\* A radio that was handed over is released exactly once, not before its worker
\* has ended, and before the module may forget it (mesh_core_new: "consumes radio
\* unconditionally"; Drop: "Join, don't detach").
RadioReleasedOnce ==
  /\ \A c \in DOMAIN cores :
       cores[c].released = IF cores[c].worker = "running" THEN 0 ELSE 1
  /\ module.handle = NULL => \A c \in DOMAIN cores : cores[c].worker # "running"

\* Nobody finds the handle of a core that is gone, or is being freed, whatever
\* JavaScript and the radio still do (HostObject.cpp: "MUST null the handle, not
\* merely flip valid_").
HandlesLive ==
  /\ {hostHandle, scanHandle} \subseteq {NULL, module.handle}
  /\ module.step = "joining" => hostHandle = NULL /\ scanHandle = NULL

\* Every command that was accepted before the core was freed is served before
\* free returns, in the order of the calls; those accepted while it joins are not.
AcceptedServed ==
  module.step = "joining" =>
    LET core == cores[module.handle] IN
    core.worker = "done" =>
      \E n \in DOMAIN core.accepted :
        /\ core.accepted[n] = "Shutdown"
        /\ core.handled = SubSeq(core.accepted, 1, n - 1)

\* JavaScript reads what Rust wrote (event.rs: "Keep these in lockstep with
\* js/src/events.ts"; events.ts: "Mirrors the layout documented on mesh_peers").
DecodedAsSent ==
  /\ up.decoder = "decodeEvent" => decodeEvent(up.wire) = up.sent
  /\ up.decoder = "decodePeers" => decodePeers(up.wire) = up.sent
=============================================================================
