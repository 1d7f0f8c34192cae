---------------------------- MODULE BridgeProofs ----------------------------
(***************************************************************************)
(* What Bridge guarantees for any number of cores and calls, any lengths    *)
(* and any events: every radio is released once, nobody finds the handle of *)
(* a core that is gone, what a core accepted is served before it goes, and  *)
(* JavaScript reads of an event or a peer table what Rust wrote.            *)
(*                                                                          *)
(* The first three are not inductive.  A radio is released once because     *)
(* only the core the module owns is at work (Owned), and it is at work      *)
(* until Shutdown reaches the head of its queue, which only Free puts there *)
(* (Ledger); a handle is gone before its core because the module forgets    *)
(* it in steps that come in that order (Forgotten).  The last is about the  *)
(* codec alone: in a buffer that only grows at its end no two fields of one *)
(* width begin at one offset (InOrder), so a decoder that comes to the      *)
(* offset of a field reads that field.                                      *)
(***************************************************************************)
EXTENDS Bridge, NaturalsInduction, WellFoundedInduction, TLAPS

Requests == {"Start", "Stop", "Send", "Ingest"}
Commands == Requests \cup {"Shutdown"}

Core == [worker : {"running", "done", "none"}, running : BOOLEAN, released : Nat,
         queue : Seq(Commands), accepted : Seq(Commands), handled : Seq(Commands)]
Call == [command : Requests, handle : Nat, length : Int]

Types ==
  /\ module \in [step : {"idle", "up", "host forgotten", "forgotten", "joining"},
                 handle : Nat]
  /\ hostHandle \in Nat
  /\ scanHandle \in Nat
  /\ cores \in Seq(Core)
  /\ calls \in [Threads -> Call \cup {NoCall}]

\* The module owns a core unless it is idle, and no other core is at work.
Owned ==
  /\ module.step = "idle" <=> module.handle = NULL
  /\ module.handle # NULL => module.handle \in 1 .. Len(cores)
  /\ \A c \in 1 .. Len(cores) : cores[c].worker = "running" => c = module.handle

\* The handles the others hold are the module's, and go one after the other.
Forgotten ==
  /\ hostHandle \in {NULL, module.handle}
  /\ scanHandle \in {NULL, module.handle}
  /\ module.step \in {"host forgotten", "forgotten", "joining"} => hostHandle = NULL
  /\ module.step \in {"forgotten", "joining"} => scanHandle = NULL

\* The radio is with the worker until the worker has ended.
Radios ==
  \A c \in 1 .. Len(cores) :
    cores[c].released = IF cores[c].worker = "running" THEN 0 ELSE 1

\* What was accepted is served or waits; the worker has ended at a Shutdown, and
\* there is none before the module is joining.
ServedUpTo(core, n) ==
  core.accepted[n] = "Shutdown" /\ core.handled = SubSeq(core.accepted, 1, n - 1)
Ledger ==
  module.handle # NULL =>
    LET core == cores[module.handle] IN
    /\ core.worker = "running" => core.accepted = core.handled \o core.queue
    /\ module.step # "joining" => core.worker = "running" /\ core.queue \in Seq(Requests)
    /\ core.worker = "done" =>
         \E n \in 1 .. Len(core.accepted) : ServedUpTo(core, n)

IInv == Types /\ Owned /\ Forgotten /\ Radios /\ Ledger

\* The types, one by one.
LEMMA TypeFacts ==
  ASSUME IInv
  PROVE  /\ cores \in Seq(Core)
         /\ Len(cores) \in Nat
         /\ module.handle \in Nat
         /\ module = [step |-> module.step, handle |-> module.handle]
         /\ calls \in [Threads -> Call \cup {NoCall}]
  <1>1. cores \in Seq(Core)
    BY DEF IInv, Types
  <1>2. Len(cores) \in Nat
    BY <1>1
  <1> QED
    BY <1>1, <1>2 DEF IInv, Types

\* A core, field by field.
LEMMA CoreFacts ==
  ASSUME IInv, NEW c \in 1 .. Len(cores)
  PROVE  /\ cores[c] \in Core
         /\ cores[c].running \in BOOLEAN
         /\ cores[c].queue \in Seq(Commands)
         /\ cores[c].accepted \in Seq(Commands)
         /\ cores[c].handled \in Seq(Commands)
  <1>1. cores[c] \in Core
    BY TypeFacts
  <1> QED
    BY <1>1 DEF Core

\* A core at work is the module's own.
LEMMA AtWork ==
  ASSUME IInv, NEW c \in 1 .. Len(cores), cores[c].worker = "running"
  PROVE  /\ c = module.handle
         /\ cores[c].released = 0
         /\ cores[c].accepted = cores[c].handled \o cores[c].queue
         /\ module.step # "joining" => cores[c].queue \in Seq(Requests)
  <1>1. c = module.handle /\ c # NULL
    BY DEF IInv, Owned, NULL
  <1> QED
    BY <1>1 DEF IInv, Radios, Ledger

-----------------------------------------------------------------------------
(* Steps of the module.                                                     *)

\* Nobody has a core yet.
LEMMA InitIInv == Init => IInv
  <1> SUFFICES ASSUME Init PROVE IInv
    OBVIOUS
  <1>1. cores \in Seq(Core) /\ Len(cores) = 0
    BY DEF Init
  <1> QED
    BY <1>1 DEF Init, IInv, Types, Owned, Forgotten, Radios, Ledger, NULL

\* One core more: the others stand where they stood.
LEMMA Appended ==
  ASSUME Types, NEW core \in Core, cores' = Append(cores, core)
  PROVE  /\ cores' \in Seq(Core)
         /\ Len(cores') = Len(cores) + 1
         /\ cores'[Len(cores')] = core
         /\ \A c \in 1 .. Len(cores) : cores'[c] = cores[c]
  <1>1. cores \in Seq(Core)
    BY DEF Types
  <1>2. /\ Append(cores, core) \in Seq(Core)
        /\ Len(Append(cores, core)) = Len(cores) + 1
        /\ \A c \in 1 .. Len(cores) : Append(cores, core)[c] = cores[c]
        /\ Append(cores, core)[Len(cores) + 1] = core
    BY <1>1
  <1> QED
    BY <1>2, Zenon

\* One core changed: the others stand where they stood.
LEMMA Changed ==
  ASSUME Types, NEW c \in 1 .. Len(cores), NEW core \in Core,
         cores' = [cores EXCEPT ![c] = core]
  PROVE  /\ cores' \in Seq(Core)
         /\ Len(cores') = Len(cores)
         /\ cores'[c] = core
         /\ \A d \in 1 .. Len(cores) : d # c => cores'[d] = cores[d]
  <1>1. cores \in Seq(Core)
    BY DEF Types
  <1>2. /\ [cores EXCEPT ![c] = core] \in Seq(Core)
        /\ Len([cores EXCEPT ![c] = core]) = Len(cores)
        /\ \A d \in 1 .. Len(cores) :
             [cores EXCEPT ![c] = core][d] = IF d = c THEN core ELSE cores[d]
    BY <1>1
  <1> QED
    BY <1>2, Zenon

\* A new core belongs to the module, which had none.
LEMMA InitializeIInv == IInv /\ Initialize => IInv'
  <1> SUFFICES ASSUME IInv, Initialize PROVE IInv'
    OBVIOUS
  <1> USE DEF NULL
  <1>1. <<>> \in Seq(Commands) /\ <<>> \in Seq(Requests)
    OBVIOUS
  <1>2. NewCore \in Core
    BY <1>1 DEF NewCore, Core
  <1>3. /\ cores' \in Seq(Core)
        /\ Len(cores') = Len(cores) + 1
        /\ cores'[Len(cores')] = NewCore
        /\ \A c \in 1 .. Len(cores) : cores'[c] = cores[c]
    BY <1>2, Appended DEF Initialize, IInv
  <1>4. Len(cores) \in Nat
    BY TypeFacts
  <1>5. Types'
    <2>1. Len(cores') \in Nat
      BY <1>3, <1>4
    <2>2. UNCHANGED <<hostHandle, calls>> /\ hostHandle \in Nat
      BY DEF IInv, Types, Initialize
    <2> QED
      BY <1>3, <2>1, <2>2, TypeFacts DEF Types, Initialize
  <1>6. Owned'
    <2>1. \A c \in 1 .. Len(cores) : cores[c].worker # "running"
      BY TypeFacts DEF IInv, Owned, Initialize
    <2>2. module'.step = "up" /\ module'.handle = Len(cores')
      BY DEF Initialize
    <2> QED
      BY <1>3, <1>4, <2>1, <2>2 DEF Owned
  <1>7. Forgotten'
    BY <1>3, <1>4 DEF IInv, Owned, Forgotten, Initialize
  <1>8. Radios'
    BY <1>3, <1>4 DEF IInv, Radios, Initialize, NewCore
  <1>9. Ledger'
    <2>1. cores'[module'.handle] = NewCore
      BY <1>3 DEF Initialize
    <2>2. <<>> = <<>> \o <<>>
      OBVIOUS
    <2> QED
      BY <1>1, <2>1, <2>2 DEF Ledger, NewCore
  <1> QED
    BY <1>5, <1>6, <1>7, <1>8, <1>9 DEF IInv

\* A core that fails to start gives its radio back and belongs to nobody.
LEMMA InitializeFailsIInv == IInv /\ InitializeFails => IInv'
  <1> SUFFICES ASSUME IInv, InitializeFails PROVE IInv'
    OBVIOUS
  <1> USE DEF NULL
  <1> DEFINE failed == [NewCore EXCEPT !.worker = "none", !.released = 1]
  <1>1. <<>> \in Seq(Commands)
    OBVIOUS
  <1>2. failed \in Core /\ failed.worker = "none" /\ failed.released = 1
    BY <1>1 DEF NewCore, Core
  <1>3. /\ cores' \in Seq(Core)
        /\ Len(cores') = Len(cores) + 1
        /\ cores'[Len(cores')] = failed
        /\ \A c \in 1 .. Len(cores) : cores'[c] = cores[c]
    BY <1>2, Appended DEF InitializeFails, IInv
  <1>4. Len(cores) \in Nat
    BY TypeFacts
  <1> HIDE DEF failed
  <1>5. Types'
    BY <1>3, <1>4 DEF IInv, Types, InitializeFails
  <1>6. Owned'
    <2>1. UNCHANGED module
      BY DEF InitializeFails
    <2> QED
      BY <1>2, <1>3, <1>4, <2>1, TypeFacts DEF IInv, Owned
  <1>7. Forgotten'
    BY DEF IInv, Owned, Forgotten, InitializeFails
  <1>8. Radios'
    BY <1>2, <1>3, <1>4 DEF IInv, Radios, InitializeFails
  <1>9. Ledger'
    BY <1>3, <1>4 DEF IInv, Owned, Ledger, InitializeFails
  <1> QED
    BY <1>5, <1>6, <1>7, <1>8, <1>9 DEF IInv

\* The host object and the radio take the module's handle, and lose it before
\* the core is freed.
LEMMA HandlesIInv == IInv /\ (Install \/ ForgetHost \/ ForgetRadio) => IInv'
  <1> SUFFICES ASSUME IInv, Install \/ ForgetHost \/ ForgetRadio PROVE IInv'
    OBVIOUS
  <1> USE DEF NULL
  <1>1. CASE Install
    BY <1>1 DEF Install, IInv, Types, Owned, Forgotten, Radios, Ledger, ServedUpTo
  <1>2. CASE ForgetHost
    BY <1>2 DEF ForgetHost, IInv, Types, Owned, Forgotten, Radios, Ledger, ServedUpTo
  <1>3. CASE ForgetRadio
    BY <1>3 DEF ForgetRadio, IInv, Types, Owned, Forgotten, Radios, Ledger, ServedUpTo
  <1> QED
    BY <1>1, <1>2, <1>3

-----------------------------------------------------------------------------
(* Steps on the queue.                                                      *)

\* What is queued last was accepted last, and what is served was queued first.
LEMMA Ledgers ==
  ASSUME NEW S, NEW s \in Seq(S), NEW t \in Seq(S)
  PROVE  /\ \A e \in S : Append(s \o t, e) = s \o Append(t, e)
         /\ t # <<>> => /\ Append(s, Head(t)) \o Tail(t) = s \o t
                        /\ (s \o t)[Len(s) + 1] = Head(t)
                        /\ SubSeq(s \o t, 1, Len(s)) = s
                        /\ Len(s) + 1 \in 1 .. Len(s \o t)
                        /\ Head(t) \in S /\ Tail(t) \in Seq(S)
                        /\ Append(s, Head(t)) \in Seq(S)
  <1>1. \A e \in S : Append(s \o t, e) = s \o Append(t, e)
    OBVIOUS
  <1>2. ASSUME t # <<>> PROVE Append(s, Head(t)) \o Tail(t) = s \o t
    BY <1>2
  <1>3. ASSUME t # <<>>
        PROVE (s \o t)[Len(s) + 1] = Head(t) /\ SubSeq(s \o t, 1, Len(s)) = s
    BY <1>3
  <1>4. ASSUME t # <<>>
        PROVE /\ Len(s) + 1 \in 1 .. Len(s \o t)
              /\ Head(t) \in S /\ Tail(t) \in Seq(S)
    BY <1>4
  <1>5. ASSUME t # <<>> PROVE Append(s, Head(t)) \in Seq(S)
    BY <1>4, <1>5
  <1> QED
    BY <1>1, <1>2, <1>3, <1>4, <1>5

\* A call, or Shutdown, is appended to a queue and to what was accepted.
Queued(c, command) ==
  cores' = [cores EXCEPT ![c].queue = Append(@, command),
                         ![c].accepted = Append(@, command)]

LEMMA QueuedCore ==
  ASSUME IInv, NEW c \in 1 .. Len(cores), NEW command \in Commands, Queued(c, command)
  PROVE  /\ cores' \in Seq(Core)
         /\ Len(cores') = Len(cores)
         /\ cores'[c] = [cores[c] EXCEPT !.queue = Append(@, command),
                                         !.accepted = Append(@, command)]
         /\ cores'[c].worker = cores[c].worker
         /\ cores'[c].released = cores[c].released
         /\ cores'[c].handled = cores[c].handled
         /\ cores'[c].queue = Append(cores[c].queue, command)
         /\ cores'[c].accepted = Append(cores[c].accepted, command)
         /\ \A d \in 1 .. Len(cores) : d # c => cores'[d] = cores[d]
         /\ cores[c].worker = "running" /\ cores[c].accepted = cores[c].handled \o cores[c].queue
              => cores'[c].accepted = cores'[c].handled \o cores'[c].queue
  <1> DEFINE core == [cores[c] EXCEPT !.queue = Append(@, command),
                                      !.accepted = Append(@, command)]
  <1>1. cores \in Seq(Core) /\ cores[c] \in Core
    BY TypeFacts
  <1>2. /\ Append(cores[c].queue, command) \in Seq(Commands)
        /\ Append(cores[c].accepted, command) \in Seq(Commands)
    BY <1>1 DEF Core
  <1>3. core \in Core
    BY <1>1, <1>2 DEF Core
  <1>4. /\ core.worker = cores[c].worker
        /\ core.released = cores[c].released
        /\ core.handled = cores[c].handled
        /\ core.queue = Append(cores[c].queue, command)
        /\ core.accepted = Append(cores[c].accepted, command)
    BY <1>1 DEF Core
  <1>5. cores' = [cores EXCEPT ![c] = core]
    BY <1>1 DEF Queued
  <1>6. cores[c].handled \in Seq(Commands) /\ cores[c].queue \in Seq(Commands)
    BY <1>1 DEF Core
  <1>7. Append(cores[c].handled \o cores[c].queue, command)
          = cores[c].handled \o Append(cores[c].queue, command)
    <2> DEFINE s == cores[c].handled
               t == cores[c].queue
    <2> HIDE DEF s, t
    <2>1. s \in Seq(Commands) /\ t \in Seq(Commands)
      BY <1>6 DEF s, t
    <2>2. Append(s \o t, command) = s \o Append(t, command)
      BY <2>1, Ledgers
    <2> QED
      BY <2>2 DEF s, t
  <1> HIDE DEF core
  <1>8. /\ cores' \in Seq(Core)
        /\ Len(cores') = Len(cores)
        /\ cores'[c] = core
        /\ \A d \in 1 .. Len(cores) : d # c => cores'[d] = cores[d]
    BY <1>3, <1>5, Changed DEF IInv
  <1> QED
    BY <1>4, <1>7, <1>8 DEF core

\* Shutdown is queued behind what was accepted, by the only one who queues it.
LEMMA FreeIInv == IInv /\ Free => IInv'
  <1> SUFFICES ASSUME IInv, Free PROVE IInv'
    OBVIOUS
  <1> USE DEF NULL
  <1> DEFINE h == module.handle
  <1>1. h \in 1 .. Len(cores)
    BY TypeFacts DEF IInv, Owned, Free
  <1>2. Queued(h, "Shutdown") /\ "Shutdown" \in Commands
    BY DEF Free, Queued, Commands
  <1>q. /\ cores' \in Seq(Core)
        /\ Len(cores') = Len(cores)
        /\ cores'[h].worker = cores[h].worker
        /\ cores'[h].released = cores[h].released
        /\ \A d \in 1 .. Len(cores) : d # h => cores'[d] = cores[d]
        /\ cores[h].worker = "running" /\ cores[h].accepted = cores[h].handled \o cores[h].queue
             => cores'[h].accepted = cores'[h].handled \o cores'[h].queue
    BY <1>1, <1>2, QueuedCore
  <1>3. /\ module'.step = "joining" /\ module'.handle = h
        /\ UNCHANGED <<hostHandle, scanHandle, calls>>
    BY TypeFacts DEF Free
  <1>4. module' \in [step : {"idle", "up", "host forgotten", "forgotten", "joining"},
                     handle : Nat]
    BY DEF Free, IInv, Types
  <1>5. Types'
    BY <1>3, <1>4, <1>q DEF IInv, Types
  <1>6. Owned'
    BY <1>1, <1>3, <1>q DEF IInv, Owned
  <1>7. Forgotten'
    BY <1>3 DEF IInv, Forgotten, Free
  <1>8. Radios'
    BY <1>q DEF IInv, Radios
  <1>9. Ledger'
    <2>1. h # NULL
      BY <1>1
    <2>2. /\ cores[h].worker = "running"
          /\ cores[h].accepted = cores[h].handled \o cores[h].queue
      BY <2>1 DEF IInv, Ledger, Free
    <2> QED
      BY <1>3, <1>q, <2>2 DEF Ledger
  <1> QED
    BY <1>5, <1>6, <1>7, <1>8, <1>9 DEF IInv

\* The core is gone: its worker has ended, and no other core is at work.
LEMMA FreedIInv == IInv /\ Freed => IInv'
  <1> SUFFICES ASSUME IInv, Freed PROVE IInv'
    OBVIOUS
  <1> USE DEF NULL
  <1> DEFINE h == module.handle
             core == [cores[h] EXCEPT !.queue = <<>>, !.accepted = <<>>, !.handled = <<>>]
  <1>1. /\ h \in 1 .. Len(cores)
        /\ cores[h] \in Core
        /\ cores[h].worker = "done"
        /\ module'.step = "idle" /\ module'.handle = NULL
        /\ UNCHANGED <<hostHandle, scanHandle, calls>>
    BY TypeFacts DEF IInv, Owned, Freed
  <1>2. core \in Core /\ core.worker = "done" /\ core.released = cores[h].released
    <2>1. <<>> \in Seq(Commands)
      OBVIOUS
    <2> QED
      BY <1>1, <2>1 DEF Core
  <1>3. cores' = [cores EXCEPT ![h] = core]
    BY <1>1, TypeFacts DEF Freed
  <1> HIDE DEF core
  <1>4. /\ cores' \in Seq(Core)
        /\ Len(cores') = Len(cores)
        /\ cores'[h] = core
        /\ \A d \in 1 .. Len(cores) : d # h => cores'[d] = cores[d]
    BY <1>1, <1>2, <1>3, Changed DEF IInv
  <1>5. Types'
    <2>1. module' \in [step : {"idle", "up", "host forgotten", "forgotten", "joining"},
                       handle : Nat]
      BY DEF Freed
    <2> QED
      BY <1>1, <1>4, <2>1 DEF IInv, Types
  <1>6. Owned'
    BY <1>1, <1>2, <1>4 DEF IInv, Owned
  <1>7. Forgotten'
    BY <1>1 DEF IInv, Forgotten, Freed
  <1>8. Radios'
    BY <1>1, <1>2, <1>4 DEF IInv, Radios
  <1>9. Ledger'
    BY <1>1 DEF Ledger
  <1> QED
    BY <1>5, <1>6, <1>7, <1>8, <1>9 DEF IInv

-----------------------------------------------------------------------------
(* Calls.                                                                   *)

\* A call carries the handle it read, and reads no other.
LEMMA BeginIInv ==
  ASSUME NEW t \in Threads, NEW a \in Arguments[t], IInv, Begin(t, a[1], a[2])
  PROVE  IInv'
  <1> DEFINE length == IF t = "scan" /\ a[2] > MAX_FRAME THEN MAX_FRAME ELSE a[2]
             call == [command |-> a[1], handle |-> Handle(t), length |-> length]
  <1>1. a[1] \in Requests /\ a[2] \in Int
    <2>1. Lengths \subseteq Int
      BY BridgeAssumption
    <2>2. CASE t = "js"
      <3>1. a \in ({"Start", "Stop"} \X {0}) \cup ({"Send"} \X Lengths)
        BY <2>2 DEF Arguments
      <3>2. CASE a \in {"Start", "Stop"} \X {0}
        BY <3>2 DEF Requests
      <3>3. CASE a \in {"Send"} \X Lengths
        BY <2>1, <3>3 DEF Requests
      <3> QED
        BY <3>1, <3>2, <3>3
    <2>3. CASE t = "scan"
      <3>1. a \in {"Ingest"} \X Lengths
        BY <2>3 DEF Arguments
      <3> QED
        BY <2>1, <3>1 DEF Requests
    <2> QED
      BY <2>2, <2>3 DEF Threads
  <1>2. length \in Int
    BY <1>1, BridgeAssumption
  <1>3. Handle(t) \in Nat
    BY DEF IInv, Types, Handle
  <1>4. call \in Call
    BY <1>1, <1>2, <1>3 DEF Call
  <1>5. calls' = [calls EXCEPT ![t] = call]
    BY DEF Begin
  <1>6. Types'
    BY <1>4, <1>5 DEF IInv, Types, Begin
  <1>7. UNCHANGED <<module, hostHandle, scanHandle, cores>>
    BY DEF Begin
  <1> QED
    BY <1>6, <1>7 DEF IInv, Owned, Forgotten, Radios, Ledger, ServedUpTo

\* A call that is not refused goes to the queue of the module's own core.
LEMMA SentIInv == ASSUME NEW t \in Threads, IInv, Sent(t) PROVE IInv'
  <1> USE DEF NULL
  <1> DEFINE call == calls[t]
             h == module.handle
  <1>1. call \in Call /\ call.command \in Requests
    BY TypeFacts DEF Sent, Call
  <1>2. calls' \in [Threads -> Call \cup {NoCall}]
    BY TypeFacts DEF Sent
  <1>3. UNCHANGED <<module, hostHandle, scanHandle>>
    BY DEF Sent
  <1>4. CASE UNCHANGED cores
    BY <1>2, <1>3, <1>4 DEF IInv, Types, Owned, Forgotten, Radios, Ledger, ServedUpTo
  <1>5. CASE Status(call) = "Ok" /\ Queued(call.handle, call.command)
    <2>1. call.handle = h /\ h # NULL /\ cores[h].worker # "done"
      BY <1>5 DEF Status
    <2>2. h \in 1 .. Len(cores)
      BY <2>1, TypeFacts DEF IInv, Owned
    <2>3. Queued(h, call.command) /\ call.command \in Commands
      BY <1>1, <1>5, <2>1 DEF Commands
    <2>4. /\ cores' \in Seq(Core)
          /\ Len(cores') = Len(cores)
          /\ cores'[h].worker = cores[h].worker
          /\ cores'[h].released = cores[h].released
          /\ cores'[h].queue = Append(cores[h].queue, call.command)
          /\ \A d \in 1 .. Len(cores) : d # h => cores'[d] = cores[d]
          /\ cores[h].worker = "running" /\ cores[h].accepted = cores[h].handled \o cores[h].queue
               => cores'[h].accepted = cores'[h].handled \o cores'[h].queue
      BY <2>2, <2>3, QueuedCore
    <2>5. Types'
      BY <1>2, <1>3, <2>4 DEF IInv, Types
    <2>6. Owned'
      BY <1>3, <2>2, <2>4 DEF IInv, Owned
    <2>7. Forgotten'
      BY <1>3 DEF IInv, Forgotten
    <2>8. Radios'
      BY <2>4 DEF IInv, Radios
    <2>9. Ledger'
      <3>1. ASSUME module.step # "joining" PROVE cores'[h].queue \in Seq(Requests)
        <4>1. cores[h].queue \in Seq(Requests)
          BY <2>1, <3>1 DEF IInv, Ledger
        <4>2. cores'[h].queue = Append(cores[h].queue, call.command)
          BY <2>4
        <4>3. Append(cores[h].queue, call.command) \in Seq(Requests)
          BY <1>1, <4>1
        <4> QED
          BY <4>2, <4>3
      <3> QED
        BY <1>3, <2>1, <2>4, <3>1 DEF IInv, Ledger
    <2> QED
      BY <2>5, <2>6, <2>7, <2>8, <2>9 DEF IInv
  <1> QED
    BY <1>4, <1>5 DEF Sent, Queued

-----------------------------------------------------------------------------
(* The worker.                                                              *)

\* A core at work is the module's; what it serves was accepted next.
LEMMA ServedIInv ==
  ASSUME IInv, NEW c \in 1 .. Len(cores), NEW running \in BOOLEAN, NEW command,
         Take(c, command), command # "Shutdown", Served(c, running),
         UNCHANGED <<module, hostHandle, scanHandle, calls>>
  PROVE  IInv'
  <1> USE DEF NULL
  <1> DEFINE q == cores[c].queue
             done == cores[c].handled
             core == [cores[c] EXCEPT !.queue = Tail(q), !.running = running,
                                      !.handled = Append(@, Head(q))]
  <1>1. /\ cores[c] \in Core
        /\ cores[c].worker = "running"
        /\ c = module.handle
        /\ q # <<>> /\ q \in Seq(Commands) /\ done \in Seq(Commands)
        /\ cores[c].accepted = done \o q
    BY CoreFacts, AtWork DEF Take
  <1> HIDE DEF q, done
  <1>2. /\ Append(done, Head(q)) \o Tail(q) = done \o q
        /\ Head(q) \in Commands /\ Tail(q) \in Seq(Commands)
        /\ Append(done, Head(q)) \in Seq(Commands)
    <2>1. done \in Seq(Commands) /\ q \in Seq(Commands) /\ q # <<>>
      BY <1>1
    <2>2. Append(done, Head(q)) \o Tail(q) = done \o q
      BY <2>1
    <2>3. Head(q) \in Commands /\ Tail(q) \in Seq(Commands)
      BY <2>1
    <2> QED
      BY <2>1, <2>2, <2>3
  <1>3. /\ core \in Core
        /\ core.worker = "running"
        /\ core.released = cores[c].released
        /\ core.queue = Tail(q)
        /\ core.accepted = core.handled \o core.queue
    BY <1>1, <1>2 DEF Core, done
  <1>4. cores' = [cores EXCEPT ![c] = core]
    BY <1>1, TypeFacts DEF Served, q, done
  <1> HIDE DEF core
  <1>5. /\ cores' \in Seq(Core)
        /\ Len(cores') = Len(cores)
        /\ cores'[c] = core
        /\ \A d \in 1 .. Len(cores) : d # c => cores'[d] = cores[d]
    BY <1>3, <1>4, Changed DEF IInv
  <1>6. Types'
    BY <1>5 DEF IInv, Types
  <1>7. Owned'
    BY <1>1, <1>5 DEF IInv, Owned
  <1>8. Forgotten'
    BY DEF IInv, Forgotten
  <1>9. Radios'
    BY <1>1, <1>3, <1>5 DEF IInv, Radios
  <1>10. Ledger'
    <2>1. ASSUME module.step # "joining" PROVE Tail(q) \in Seq(Requests)
      <3>1. q \in Seq(Requests)
        BY <1>1, <2>1, AtWork DEF q
      <3> QED
        BY <1>1, <3>1
    <2> QED
      BY <1>1, <1>3, <1>5, <2>1 DEF Ledger
  <1> QED
    BY <1>6, <1>7, <1>8, <1>9, <1>10 DEF IInv

\* Shutdown ends the worker and drops the radio: what was accepted before it has
\* been served.
LEMMA EndIInv == ASSUME NEW c \in 1 .. Len(cores), IInv, End(c) PROVE IInv'
  <1> USE DEF NULL
  <1> DEFINE q == cores[c].queue
             done == cores[c].handled
             core == [cores[c] EXCEPT !.queue = Tail(q), !.worker = "done",
                                      !.running = FALSE, !.released = @ + 1]
  <1>1. /\ cores[c] \in Core
        /\ cores[c].worker = "running"
        /\ cores[c].released = 0
        /\ c = module.handle
        /\ q # <<>> /\ q \in Seq(Commands) /\ done \in Seq(Commands)
        /\ Head(q) = "Shutdown"
        /\ cores[c].accepted = done \o q
    <2>1. Take(c, "Shutdown")
      BY DEF End
    <2> QED
      BY <2>1, CoreFacts, AtWork DEF Take
  <1>2. UNCHANGED <<module, hostHandle, scanHandle, calls>>
    BY DEF End
  <1> HIDE DEF q, done
  <1>3. module.step = "joining"
    <2> SUFFICES ASSUME module.step # "joining" PROVE FALSE
      OBVIOUS
    <2>1. q \in Seq(Requests)
      BY <1>1, AtWork DEF q
    <2>2. Head(q) \in Requests
      BY <1>1, <2>1
    <2> QED
      BY <1>1, <2>2 DEF Requests
  <1>4. /\ (done \o q)[Len(done) + 1] = "Shutdown"
        /\ SubSeq(done \o q, 1, Len(done)) = done
        /\ Len(done) + 1 \in 1 .. Len(done \o q)
        /\ Tail(q) \in Seq(Commands)
    BY <1>1, Ledgers
  <1>5. /\ core \in Core
        /\ core.worker = "done"
        /\ core.released = 1
        /\ core.accepted = done \o q
        /\ core.handled = done
    <2> DEFINE r == cores[c]
    <2>1. r \in Core /\ r.released + 1 = 1 /\ r.handled = done /\ r.accepted = done \o q
      BY <1>1 DEF done
    <2> HIDE DEF r
    <2>2. [r EXCEPT !.queue = Tail(q), !.worker = "done", !.running = FALSE,
                    !.released = 1] \in Core
      BY <1>4, <2>1 DEF Core
    <2>3. core = [r EXCEPT !.queue = Tail(q), !.worker = "done", !.running = FALSE,
                           !.released = 1]
      BY <2>1 DEF r
    <2> QED
      BY <2>1, <2>2, <2>3 DEF Core
  <1>6. cores' = [cores EXCEPT ![c] = core]
    BY <1>1, TypeFacts DEF End, q
  <1> HIDE DEF core
  <1>7. /\ cores' \in Seq(Core)
        /\ Len(cores') = Len(cores)
        /\ cores'[c] = core
        /\ \A d \in 1 .. Len(cores) : d # c => cores'[d] = cores[d]
    BY <1>5, <1>6, Changed DEF IInv
  <1>8. Types'
    BY <1>2, <1>7 DEF IInv, Types
  <1>9. Owned'
    BY <1>1, <1>2, <1>5, <1>7 DEF IInv, Owned
  <1>10. Forgotten'
    BY <1>2 DEF IInv, Forgotten
  <1>11. Radios'
    BY <1>1, <1>5, <1>7 DEF IInv, Radios
  <1>12. Ledger'
    <2>1. Len(done) \in Nat /\ Len(done) + 1 - 1 = Len(done)
      BY <1>1
    <2>2. ServedUpTo(core, Len(done) + 1)
      BY <1>4, <1>5, <2>1 DEF ServedUpTo
    <2>3. Len(done) + 1 \in 1 .. Len(core.accepted)
      BY <1>4, <1>5
    <2> QED
      BY <1>1, <1>2, <1>3, <1>5, <1>7, <2>2, <2>3 DEF Ledger
  <1> QED
    BY <1>8, <1>9, <1>10, <1>11, <1>12 DEF IInv

\* Every step of the worker is one of the two, or only reports.
LEMMA WorkIInv == ASSUME NEW c \in 1 .. Len(cores), IInv, Work(c) PROVE IInv'
  <1>1. cores[c].running \in BOOLEAN
    BY CoreFacts
  <1>2. CASE do_start(c)
    <2>1. PICK scanning \in Radio("start_scanning") :
            Served(c, cores[c].running \/ scanning = "Ok")
      BY <1>2 DEF do_start
    <2> QED
      BY <1>2, <2>1, ServedIInv DEF do_start
  <1>3. CASE do_stop(c)
    <2>1. PICK advertising \in Radio("stop_advertising"), scanning \in Radio("stop_scanning") :
            Served(c, cores[c].running /\ ~(advertising = "Ok" /\ scanning = "Ok"))
      BY <1>3 DEF do_stop
    <2> QED
      BY <1>3, <2>1, ServedIInv DEF do_stop
  <1>4. ASSUME NEW command \in {"Send", "Ingest"}, do_send_or_ingest(c, command)
        PROVE  IInv'
    BY <1>1, <1>4, ServedIInv DEF do_send_or_ingest
  <1>5. CASE Timeout(c)
    BY <1>5 DEF Timeout, IInv, Types, Owned, Forgotten, Radios, Ledger, ServedUpTo
  <1>6. CASE End(c)
    BY <1>6, EndIInv
  <1> QED
    BY <1>2, <1>3, <1>4, <1>5, <1>6 DEF Work

-----------------------------------------------------------------------------
(* Buffers.  Two fields of one width, if it is not zero, do not begin at    *)
(* the same offset: what is read there is what was put there.               *)

Placed(o, field) == [at |-> o, width |-> field.width, num |-> field.num, raw |-> field.raw]

InOrder(w) ==
  /\ w.length \in Nat
  /\ \A f \in w.fields : f.at \in Nat /\ f.width \in Nat /\ f.at + f.width <= w.length
  /\ \A f, g \in w.fields : f.at = g.at /\ f.width = g.width /\ f.width > 0 => f = g

\* Buffer w with n bytes more.
Grown(w, v, n) ==
  /\ InOrder(v)
  /\ v.length = w.length + n
  /\ w.fields \subseteq v.fields

HasNum(w, o, width, n) == Placed(o, Num(width, n)) \in w.fields
HasRaw(w, o, bytes) == Placed(o, Raw(bytes)) \in w.fields
HasCounted(w, o, bytes) == HasNum(w, o, 4, bytes.length) /\ HasRaw(w, o + 4, bytes)

LEMMA EmptyInOrder == InOrder(Empty) /\ Empty.length = 0
  BY DEF InOrder, Empty

\* A field comes to the end, and moves no other.
LEMMA PutInOrder ==
  ASSUME NEW w, InOrder(w), NEW field, field.width \in Nat
  PROVE  Grown(w, w & field, field.width) /\ Placed(w.length, field) \in (w & field).fields
  <1> DEFINE new == Placed(w.length, field)
             fields == w.fields \cup {new}
             length == w.length + field.width
  <1>1. w & field = [length |-> length, fields |-> fields]
    BY DEF &, Put, Placed
  <1>2. (w & field).length = length /\ (w & field).fields = fields
    BY <1>1
  <1>3. new.at = w.length /\ new.width = field.width
    BY DEF Placed
  <1> HIDE DEF new
  <1>4. length \in Nat /\ w.length \in Nat /\ w.length <= length
    BY DEF InOrder
  <1>5. ASSUME NEW f \in fields PROVE f.at \in Nat /\ f.width \in Nat /\ f.at + f.width <= length
    BY <1>3, <1>4 DEF InOrder
  <1>6. ASSUME NEW f \in fields, NEW g \in fields,
               f.at = g.at, f.width = g.width, f.width > 0
        PROVE  f = g
    <2>1. \A h \in w.fields : h.width > 0 => h.at # w.length
      BY DEF InOrder
    <2>2. CASE f = new
      BY <1>3, <1>6, <2>1, <2>2
    <2>3. CASE g = new
      BY <1>3, <1>6, <2>1, <2>3
    <2>4. CASE f \in w.fields /\ g \in w.fields
      BY <1>6, <2>4 DEF InOrder
    <2> QED
      BY <2>2, <2>3, <2>4
  <1> HIDE DEF length
  <1> QED
    BY <1>2, <1>4, <1>5, <1>6 DEF Grown, InOrder, length, new

LEMMA PutNum ==
  ASSUME NEW w, InOrder(w), NEW width \in Nat, NEW n
  PROVE  Grown(w, w & Num(width, n), width) /\ HasNum(w & Num(width, n), w.length, width, n)
  <1>1. Num(width, n).width = width
    BY DEF Num
  <1> QED
    BY <1>1, PutInOrder DEF HasNum

LEMMA PutRaw ==
  ASSUME NEW w, InOrder(w), NEW bytes, bytes.length \in Nat
  PROVE  /\ Grown(w, w & Raw(bytes), bytes.length)
         /\ HasRaw(w & Raw(bytes), w.length, bytes)
  <1>1. Raw(bytes).width = bytes.length
    BY DEF Raw
  <1> QED
    BY <1>1, PutInOrder DEF HasRaw

\* What was in a buffer is in a longer one.
LEMMA NumStays ==
  ASSUME NEW w, NEW v, w.fields \subseteq v.fields, NEW o, NEW width, NEW n, HasNum(w, o, width, n)
  PROVE  HasNum(v, o, width, n)
  BY DEF HasNum

LEMMA RawStays ==
  ASSUME NEW w, NEW v, w.fields \subseteq v.fields, NEW o, NEW bytes, HasRaw(w, o, bytes)
  PROVE  HasRaw(v, o, bytes)
  BY DEF HasRaw

LEMMA PutCounted ==
  ASSUME NEW w, InOrder(w), NEW bytes \in Texts
  PROVE  /\ Grown(w, put_bytes(w, bytes), 4 + bytes.length)
         /\ HasCounted(put_bytes(w, bytes), w.length, bytes)
  <1> DEFINE v == w & Num(4, bytes.length)
             u == v & Raw(bytes)
  <1>1. put_bytes(w, bytes) = u
    BY DEF put_bytes
  <1>2. bytes.length \in Nat
    BY DEF Texts
  <1>3. Grown(w, v, 4) /\ HasNum(v, w.length, 4, bytes.length)
    BY PutNum
  <1> HIDE DEF v
  <1>4. Grown(v, u, bytes.length) /\ HasRaw(u, v.length, bytes)
    BY <1>2, <1>3, PutRaw DEF Grown
  <1> HIDE DEF u
  <1>5. w.length \in Nat /\ v.length = w.length + 4
    BY <1>3 DEF InOrder, Grown
  <1>6. HasCounted(u, w.length, bytes)
    BY <1>3, <1>4, <1>5, NumStays DEF HasCounted, Grown
  <1>7. u.length = w.length + (4 + bytes.length)
    BY <1>2, <1>4, <1>5 DEF Grown
  <1> QED
    BY <1>1, <1>3, <1>4, <1>6, <1>7 DEF Grown

\* What is read at the offset and the width of a field is what was put there.
LEMMA ReadNum ==
  ASSUME NEW w, InOrder(w), NEW o, NEW width \in Nat \ {0}, NEW n, HasNum(w, o, width, n)
  PROVE  GetUint(w, o, width) = n
  <1> DEFINE f == Placed(o, Num(width, n))
  <1>1. f \in w.fields /\ f.at = o /\ f.width = width /\ f.num = {n}
    BY DEF HasNum, Placed, Num
  <1> HIDE DEF f
  <1>2. FieldsAt(w, o, width) = {f}
    BY <1>1 DEF FieldsAt, InOrder
  <1>3. UNION {g.num : g \in FieldsAt(w, o, width)} = {n}
    BY <1>1, <1>2
  <1> QED
    BY <1>3 DEF GetUint

LEMMA ReadRaw ==
  ASSUME NEW w, InOrder(w), NEW o, NEW bytes \in Texts, HasRaw(w, o, bytes)
  PROVE  View(w, o, bytes.length) = bytes
  <1> DEFINE f == Placed(o, Raw(bytes))
             width == bytes.length
  <1>1. f \in w.fields /\ f.at = o /\ f.width = width /\ f.raw = {bytes}
    BY DEF HasRaw, Placed, Raw
  <1>2. width \in Nat
    BY DEF Texts
  <1>3. CASE width = 0
    BY <1>3 DEF View, Texts, Bytes
  <1> HIDE DEF f, width
  <1>4. CASE width # 0
    <2>1. FieldsAt(w, o, width) = {f}
      BY <1>1, <1>2, <1>4 DEF FieldsAt, InOrder
    <2>2. UNION {g.raw : g \in FieldsAt(w, o, width)} = {bytes}
      BY <1>1, <2>1
    <2>3. View(w, o, width) = bytes
      BY <1>4, <2>2 DEF View
    <2> QED
      BY <2>3 DEF width
  <1> QED
    BY <1>3, <1>4

LEMMA ReadCounted ==
  ASSUME NEW w, InOrder(w), NEW o, NEW bytes \in Texts, HasCounted(w, o, bytes)
  PROVE  Counted(w, o) = bytes
  <1>1. GetUint(w, o, 4) = bytes.length
    BY ReadNum DEF HasCounted
  <1>2. View(w, o + 4, bytes.length) = bytes
    BY ReadRaw DEF HasCounted
  <1> QED
    BY <1>1, <1>2 DEF Counted

\* A signed byte travels as an unsigned one.
LEMMA ReadSigned ==
  ASSUME NEW w, InOrder(w), NEW o, NEW n \in I8, HasNum(w, o, 1, AsU8(n))
  PROVE  GetInt8(w, o) = n
  <1>1. AsU8(n) = IF n < 0 THEN n + 256 ELSE n
    BY DEF AsU8, I8
  <1>2. GetUint(w, o, 1) = AsU8(n)
    BY ReadNum
  <1> QED
    BY <1>1, <1>2 DEF GetInt8, I8

-----------------------------------------------------------------------------
(* Events.                                                                  *)

Marked(e) == Flag(e.kind = "MessageReceived" /\ e.forwardSecret)

LEMMA HeaderFields ==
  ASSUME NEW e
  PROVE  /\ InOrder(Header(e))
         /\ Header(e).length = HEADER_LEN
         /\ HasNum(Header(e), 0, 1, ABI_VERSION)
         /\ HasNum(Header(e), 1, 1, KindTag[e.kind])
         /\ HasNum(Header(e), 2, 2, Marked(e))
         /\ HasNum(Header(e), 4, 4, e.seq)
         /\ HasNum(Header(e), 8, 8, e.timestamp)
  <1> DEFINE a == Empty & Num(1, ABI_VERSION)
             b == a & Num(1, KindTag[e.kind])
             c == b & Num(2, Marked(e))
             d == c & Num(4, e.seq)
             h == d & Num(8, e.timestamp)
  <1>1. Header(e) = h
    BY DEF Header, Marked
  <1>2. Grown(Empty, a, 1) /\ HasNum(a, 0, 1, ABI_VERSION)
    BY EmptyInOrder, PutNum
  <1>3. InOrder(a) /\ a.length = 1
    BY <1>2, EmptyInOrder DEF Grown
  <1> HIDE DEF a
  <1>4. Grown(a, b, 1) /\ HasNum(b, 1, 1, KindTag[e.kind])
    BY <1>3, PutNum
  <1>5. InOrder(b) /\ b.length = 2
    BY <1>3, <1>4 DEF Grown
  <1> HIDE DEF b
  <1>6. Grown(b, c, 2) /\ HasNum(c, 2, 2, Marked(e))
    BY <1>5, PutNum
  <1>7. InOrder(c) /\ c.length = 4
    BY <1>5, <1>6 DEF Grown
  <1> HIDE DEF c
  <1>8. Grown(c, d, 4) /\ HasNum(d, 4, 4, e.seq)
    BY <1>7, PutNum
  <1>9. InOrder(d) /\ d.length = 8
    BY <1>7, <1>8 DEF Grown
  <1> HIDE DEF d
  <1>10. Grown(d, h, 8) /\ HasNum(h, 8, 8, e.timestamp)
    BY <1>9, PutNum
  <1>11. InOrder(h) /\ h.length = 16
    BY <1>9, <1>10 DEF Grown
  <1> HIDE DEF h
  <1>12. a.fields \subseteq h.fields /\ b.fields \subseteq h.fields /\ c.fields \subseteq h.fields
           /\ d.fields \subseteq h.fields
    BY <1>4, <1>6, <1>8, <1>10 DEF Grown
  <1> QED
    BY <1>1, <1>2, <1>4, <1>6, <1>8, <1>10, <1>11, <1>12, NumStays DEF HEADER_LEN

\* A buffer that begins with the header of e.
Begun(v, e) == InOrder(v) /\ Header(e).fields \subseteq v.fields

LEMMA HeaderRead ==
  ASSUME NEW e, NEW v, Begun(v, e)
  PROVE  /\ GetUint(v, 0, 1) = MESH_ABI_VERSION
         /\ GetUint(v, 1, 1) = KindTag[e.kind]
         /\ GetUint(v, 2, 2) = Marked(e)
         /\ GetUint(v, 4, 4) = e.seq
         /\ GetUint(v, 8, 8) = e.timestamp
  <1>1. /\ HasNum(v, 0, 1, ABI_VERSION)
        /\ HasNum(v, 1, 1, KindTag[e.kind])
        /\ HasNum(v, 2, 2, Marked(e))
        /\ HasNum(v, 4, 4, e.seq)
        /\ HasNum(v, 8, 8, e.timestamp)
    BY HeaderFields, NumStays DEF Begun
  <1> QED
    BY <1>1, ReadNum DEF Begun, ABI_VERSION, MESH_ABI_VERSION

LEMMA Start ==
  ASSUME NEW e
  PROVE  Begun(Header(e), e) /\ Header(e).length = 16
  BY HeaderFields DEF Begun, HEADER_LEN

\* What was begun goes on.
LEMMA Continued ==
  ASSUME NEW e, NEW w, Begun(w, e), NEW v, NEW n, Grown(w, v, n)
  PROVE  Begun(v, e) /\ v.length = w.length + n /\ w.fields \subseteq v.fields
  BY DEF Begun, Grown

LEMMA BegunNum ==
  ASSUME NEW e, NEW w, Begun(w, e), NEW width \in Nat, NEW n
  PROVE  /\ Begun(w & Num(width, n), e)
         /\ (w & Num(width, n)).length = w.length + width
         /\ w.fields \subseteq (w & Num(width, n)).fields
         /\ HasNum(w & Num(width, n), w.length, width, n)
  <1>1. Grown(w, w & Num(width, n), width) /\ HasNum(w & Num(width, n), w.length, width, n)
    BY PutNum DEF Begun
  <1> QED
    BY <1>1, Continued

LEMMA BegunArray ==
  ASSUME NEW e, NEW w, Begun(w, e), NEW length \in Nat, NEW bytes \in Array(length)
  PROVE  /\ Begun(w & Raw(bytes), e)
         /\ (w & Raw(bytes)).length = w.length + length
         /\ w.fields \subseteq (w & Raw(bytes)).fields
         /\ HasRaw(w & Raw(bytes), w.length, bytes)
  <1>1. bytes.length = length
    BY DEF Array
  <1>2. /\ Grown(w, w & Raw(bytes), bytes.length)
        /\ HasRaw(w & Raw(bytes), w.length, bytes)
    BY <1>1, PutRaw DEF Begun
  <1> QED
    BY <1>1, <1>2, Continued

LEMMA BegunCounted ==
  ASSUME NEW e, NEW w, Begun(w, e), NEW bytes \in Texts
  PROVE  /\ Begun(put_bytes(w, bytes), e)
         /\ w.fields \subseteq put_bytes(w, bytes).fields
         /\ HasCounted(put_bytes(w, bytes), w.length, bytes)
  <1>1. /\ Grown(w, put_bytes(w, bytes), 4 + bytes.length)
        /\ HasCounted(put_bytes(w, bytes), w.length, bytes)
    BY PutCounted DEF Begun
  <1> QED
    BY <1>1, Continued

LEMMA ReadArray ==
  ASSUME NEW w, InOrder(w), NEW o, NEW length \in Nat, NEW bytes \in Array(length),
         HasRaw(w, o, bytes)
  PROVE  View(w, o, length) = bytes
  <1>1. bytes \in Texts /\ bytes.length = length
    BY DEF Array
  <1> QED
    BY <1>1, ReadRaw

LEMMA DiscoveryRead ==
  ASSUME NEW e \in Discoveries
  PROVE  decodeEvent(to_wire(e)) = e
  <1> DEFINE w == Header(e)
             a == w & Raw(e.peer)
             b == a & Num(1, AsU8(e.rssi))
             c == b & Num(1, e.hops)
             v == put_bytes(c, e.nickname)
  <1>1. /\ e.kind = "PeerDiscovered" /\ e.peer \in Array(32) /\ e.nickname \in Texts
        /\ e.rssi \in I8 /\ e.hops \in U8
        /\ e = [kind |-> e.kind, seq |-> e.seq, timestamp |-> e.timestamp, peer |-> e.peer,
                nickname |-> e.nickname, rssi |-> e.rssi, hops |-> e.hops]
    BY DEF Discoveries
  <1>2. to_wire(e) = v
    BY <1>1 DEF to_wire, Discovery
  <1>3. Begun(w, e) /\ w.length = 16
    BY Start
  <1> HIDE DEF w
  <1>4. Begun(a, e) /\ a.length = 48 /\ HasRaw(a, 16, e.peer)
    BY <1>1, <1>3, BegunArray
  <1> HIDE DEF a
  <1>5. Begun(b, e) /\ b.length = 49 /\ a.fields \subseteq b.fields /\ HasNum(b, 48, 1, AsU8(e.rssi))
    BY <1>4, BegunNum
  <1> HIDE DEF b
  <1>6. Begun(c, e) /\ c.length = 50 /\ b.fields \subseteq c.fields /\ HasNum(c, 49, 1, e.hops)
    BY <1>5, BegunNum
  <1> HIDE DEF c
  <1>7. Begun(v, e) /\ c.fields \subseteq v.fields /\ HasCounted(v, 50, e.nickname)
    BY <1>1, <1>6, BegunCounted
  <1> HIDE DEF v
  <1>8. InOrder(v) /\ a.fields \subseteq v.fields /\ b.fields \subseteq v.fields
    BY <1>5, <1>6, <1>7 DEF Begun
  <1>9. View(v, 16, 32) = e.peer
    BY <1>1, <1>4, <1>8, RawStays, ReadArray
  <1>10. GetInt8(v, 48) = e.rssi
    BY <1>1, <1>5, <1>8, NumStays, ReadSigned
  <1>11. GetUint(v, 49, 1) = e.hops
    BY <1>6, <1>7, <1>8, NumStays, ReadNum
  <1>12. Counted(v, 50) = e.nickname
    BY <1>1, <1>7, <1>8, ReadCounted
  <1>13. GetUint(v, 1, 1) = 1
    BY <1>1, <1>7, HeaderRead DEF KindTag
  <1>14. decodeEvent(v) = [kind |-> "PeerDiscovered", seq |-> e.seq, timestamp |-> e.timestamp,
                           peer |-> e.peer, rssi |-> e.rssi, hops |-> e.hops,
                           nickname |-> e.nickname]
    BY <1>7, <1>9, <1>10, <1>11, <1>12, <1>13, HeaderRead DEF decodeEvent, HEADER_LEN
  <1> QED
    BY <1>1, <1>2, <1>14

LEMMA LossRead ==
  ASSUME NEW e \in Losses
  PROVE  decodeEvent(to_wire(e)) = e
  <1> DEFINE w == Header(e)
             v == w & Raw(e.peer)
  <1>1. /\ e.kind = "PeerLost" /\ e.peer \in Array(32)
        /\ e = [kind |-> e.kind, seq |-> e.seq, timestamp |-> e.timestamp, peer |-> e.peer]
    BY DEF Losses
  <1>2. to_wire(e) = v
    BY <1>1 DEF to_wire
  <1>3. Begun(w, e) /\ w.length = 16
    BY Start
  <1> HIDE DEF w
  <1>4. Begun(v, e) /\ HasRaw(v, 16, e.peer)
    BY <1>1, <1>3, BegunArray
  <1> HIDE DEF v
  <1>5. View(v, 16, 32) = e.peer
    BY <1>1, <1>4, ReadArray DEF Begun
  <1>6. GetUint(v, 1, 1) = 2
    BY <1>1, <1>4, HeaderRead DEF KindTag
  <1>7. decodeEvent(v) = [kind |-> "PeerLost", seq |-> e.seq, timestamp |-> e.timestamp,
                          peer |-> e.peer]
    BY <1>4, <1>5, <1>6, HeaderRead DEF decodeEvent, HEADER_LEN
  <1> QED
    BY <1>1, <1>2, <1>7

LEMMA ReceptionRead ==
  ASSUME NEW e \in Receptions
  PROVE  decodeEvent(to_wire(e)) = e
  <1> DEFINE w == Header(e)
             a == w & Raw(e.sender)
             b == a & Raw(e.messageId)
             c == b & Num(1, e.ttl)
             d == c & Num(1, e.hops)
             g == d & Num(1, AsU8(e.rssi))
             h == g & Num(1, 0)
             v == put_bytes(h, e.body)
  <1>1. /\ e.kind = "MessageReceived" /\ e.sender \in Array(32) /\ e.messageId \in Array(16)
        /\ e.ttl \in U8 /\ e.hops \in U8 /\ e.rssi \in I8 /\ e.body \in Texts
    BY DEF Receptions
  <1>2. /\ e.forwardSecret \in BOOLEAN
        /\ e = [kind |-> e.kind, seq |-> e.seq, timestamp |-> e.timestamp, sender |-> e.sender,
                messageId |-> e.messageId, ttl |-> e.ttl, hops |-> e.hops, rssi |-> e.rssi,
                forwardSecret |-> e.forwardSecret, body |-> e.body]
    BY DEF Receptions
  <1>3. to_wire(e) = v
    BY <1>1 DEF to_wire, Reception
  <1>4. Begun(w, e) /\ w.length = 16
    BY Start
  <1> HIDE DEF w
  <1>5. Begun(a, e) /\ a.length = 48 /\ HasRaw(a, 16, e.sender)
    BY <1>1, <1>4, BegunArray
  <1> HIDE DEF a
  <1>6. Begun(b, e) /\ b.length = 64 /\ a.fields \subseteq b.fields /\ HasRaw(b, 48, e.messageId)
    BY <1>1, <1>5, BegunArray
  <1> HIDE DEF b
  <1>7. Begun(c, e) /\ c.length = 65 /\ b.fields \subseteq c.fields /\ HasNum(c, 64, 1, e.ttl)
    BY <1>6, BegunNum
  <1> HIDE DEF c
  <1>8. Begun(d, e) /\ d.length = 66 /\ c.fields \subseteq d.fields /\ HasNum(d, 65, 1, e.hops)
    BY <1>7, BegunNum
  <1> HIDE DEF d
  <1>9. Begun(g, e) /\ g.length = 67 /\ d.fields \subseteq g.fields /\ HasNum(g, 66, 1, AsU8(e.rssi))
    BY <1>8, BegunNum
  <1> HIDE DEF g
  <1>10. Begun(h, e) /\ h.length = 68 /\ g.fields \subseteq h.fields
    BY <1>9, BegunNum
  <1> HIDE DEF h
  <1>11. Begun(v, e) /\ h.fields \subseteq v.fields /\ HasCounted(v, 68, e.body)
    BY <1>1, <1>10, BegunCounted
  <1> HIDE DEF v
  <1>12. /\ InOrder(v) /\ a.fields \subseteq v.fields /\ b.fields \subseteq v.fields
         /\ c.fields \subseteq v.fields /\ d.fields \subseteq v.fields /\ g.fields \subseteq v.fields
    BY <1>6, <1>7, <1>8, <1>9, <1>10, <1>11 DEF Begun
  <1>13. View(v, 16, 32) = e.sender
    BY <1>1, <1>5, <1>12, RawStays, ReadArray
  <1>14. View(v, 48, 16) = e.messageId
    BY <1>1, <1>6, <1>12, RawStays, ReadArray
  <1>15. GetUint(v, 64, 1) = e.ttl
    BY <1>7, <1>12, NumStays, ReadNum
  <1>16. GetUint(v, 65, 1) = e.hops
    BY <1>8, <1>12, NumStays, ReadNum
  <1>17. GetInt8(v, 66) = e.rssi
    BY <1>1, <1>9, <1>12, NumStays, ReadSigned
  <1>18. Counted(v, 68) = e.body
    BY <1>1, <1>11, <1>12, ReadCounted
  <1>19. GetUint(v, 1, 1) = 3
    BY <1>1, <1>11, HeaderRead DEF KindTag
  <1>20. (GetUint(v, 2, 2) = 1) = e.forwardSecret
    <2>1. GetUint(v, 2, 2) = Marked(e)
      BY <1>11, HeaderRead
    <2>2. e.forwardSecret => Marked(e) = 1
      BY <1>1 DEF Marked, Flag
    <2>3. ~e.forwardSecret => Marked(e) = 0
      BY <1>1 DEF Marked, Flag
    <2>4. e.forwardSecret <=> GetUint(v, 2, 2) = 1
      BY <2>1, <2>2, <2>3
    <2> QED
      BY <1>2, <2>4
  <1>21. decodeEvent(v) = [kind |-> "MessageReceived", seq |-> e.seq, timestamp |-> e.timestamp,
                           sender |-> e.sender, messageId |-> e.messageId, ttl |-> e.ttl,
                           hops |-> e.hops, rssi |-> e.rssi, body |-> e.body,
                           forwardSecret |-> GetUint(v, 2, 2) = 1]
    BY <1>11, <1>13, <1>14, <1>15, <1>16, <1>17, <1>18, <1>19, HeaderRead
    DEF decodeEvent, HEADER_LEN
  <1> QED
    BY <1>1, <1>2, <1>3, <1>20, <1>21

LEMMA DeliveryRead ==
  ASSUME NEW e \in Deliveries
  PROVE  decodeEvent(to_wire(e)) = e
  <1> DEFINE w == Header(e)
             a == w & Raw(e.messageId)
             b == a & Num(1, Flag(e.direct))
             v == b & Num(3, 0)
  <1>1. /\ e.kind = "MessageDelivered" /\ e.messageId \in Array(16) /\ e.direct \in BOOLEAN
        /\ e = [kind |-> e.kind, seq |-> e.seq, timestamp |-> e.timestamp,
                messageId |-> e.messageId, direct |-> e.direct]
    BY DEF Deliveries
  <1>2. to_wire(e) = v
    BY <1>1 DEF to_wire
  <1>3. Begun(w, e) /\ w.length = 16
    BY Start
  <1> HIDE DEF w
  <1>4. Begun(a, e) /\ a.length = 32 /\ HasRaw(a, 16, e.messageId)
    BY <1>1, <1>3, BegunArray
  <1> HIDE DEF a
  <1>5. Begun(b, e) /\ b.length = 33 /\ a.fields \subseteq b.fields
          /\ HasNum(b, 32, 1, Flag(e.direct))
    BY <1>4, BegunNum
  <1> HIDE DEF b
  <1>6. Begun(v, e) /\ b.fields \subseteq v.fields
    BY <1>5, BegunNum
  <1> HIDE DEF v
  <1>7. InOrder(v) /\ a.fields \subseteq v.fields
    BY <1>5, <1>6 DEF Begun
  <1>8. View(v, 16, 16) = e.messageId
    BY <1>1, <1>4, <1>7, RawStays, ReadArray
  <1>9. GetUint(v, 32, 1) = Flag(e.direct)
    BY <1>5, <1>6, <1>7, NumStays, ReadNum
  <1>10. (GetUint(v, 32, 1) # 0) = e.direct
    BY <1>1, <1>9 DEF Flag
  <1>11. GetUint(v, 1, 1) = 4
    BY <1>1, <1>6, HeaderRead DEF KindTag
  <1>12. decodeEvent(v) = [kind |-> "MessageDelivered", seq |-> e.seq, timestamp |-> e.timestamp,
                           messageId |-> e.messageId, direct |-> GetUint(v, 32, 1) # 0]
    BY <1>6, <1>8, <1>11, HeaderRead DEF decodeEvent, HEADER_LEN
  <1> QED
    BY <1>1, <1>2, <1>10, <1>12

LEMMA ExpiryRead ==
  ASSUME NEW e \in Expiries
  PROVE  decodeEvent(to_wire(e)) = e
  <1> DEFINE w == Header(e)
             a == w & Raw(e.messageId)
             v == put_bytes(a, e.reason)
  <1>1. /\ e.kind = "MessageExpired" /\ e.messageId \in Array(16) /\ e.reason \in Texts
        /\ e = [kind |-> e.kind, seq |-> e.seq, timestamp |-> e.timestamp,
                messageId |-> e.messageId, reason |-> e.reason]
    BY DEF Expiries
  <1>2. to_wire(e) = v
    BY <1>1 DEF to_wire
  <1>3. Begun(w, e) /\ w.length = 16
    BY Start
  <1> HIDE DEF w
  <1>4. Begun(a, e) /\ a.length = 32 /\ HasRaw(a, 16, e.messageId)
    BY <1>1, <1>3, BegunArray
  <1> HIDE DEF a
  <1>5. Begun(v, e) /\ a.fields \subseteq v.fields /\ HasCounted(v, 32, e.reason)
    BY <1>1, <1>4, BegunCounted
  <1> HIDE DEF v
  <1>6. InOrder(v)
    BY <1>5 DEF Begun
  <1>7. View(v, 16, 16) = e.messageId
    BY <1>1, <1>4, <1>5, <1>6, RawStays, ReadArray
  <1>8. Counted(v, 32) = e.reason
    BY <1>1, <1>5, <1>6, ReadCounted
  <1>9. GetUint(v, 1, 1) = 7
    BY <1>1, <1>5, HeaderRead DEF KindTag
  <1>10. decodeEvent(v) = [kind |-> "MessageExpired", seq |-> e.seq, timestamp |-> e.timestamp,
                           messageId |-> e.messageId, reason |-> e.reason]
    BY <1>5, <1>7, <1>8, <1>9, HeaderRead DEF decodeEvent, HEADER_LEN
  <1> QED
    BY <1>1, <1>2, <1>10

LEMMA StateRead ==
  ASSUME NEW e \in States
  PROVE  decodeEvent(to_wire(e)) = e
  <1> DEFINE w == Header(e)
             a == w & Num(1, Flag(e.running))
             v == a & Num(3, 0)
  <1>1. /\ e.kind = "TransportState" /\ e.running \in BOOLEAN
        /\ e = [kind |-> e.kind, seq |-> e.seq, timestamp |-> e.timestamp,
                running |-> e.running]
    BY DEF States
  <1>2. to_wire(e) = v
    BY <1>1 DEF to_wire
  <1>3. Begun(w, e) /\ w.length = 16
    BY Start
  <1> HIDE DEF w
  <1>4. Begun(a, e) /\ HasNum(a, 16, 1, Flag(e.running))
    BY <1>3, BegunNum
  <1> HIDE DEF a
  <1>5. Begun(v, e) /\ a.fields \subseteq v.fields
    BY <1>4, BegunNum
  <1> HIDE DEF v
  <1>6. GetUint(v, 16, 1) = Flag(e.running)
    BY <1>4, <1>5, NumStays, ReadNum DEF Begun
  <1>7. (GetUint(v, 16, 1) # 0) = e.running
    BY <1>1, <1>6 DEF Flag
  <1>8. GetUint(v, 1, 1) = 5
    BY <1>1, <1>5, HeaderRead DEF KindTag
  <1>9. decodeEvent(v) = [kind |-> "TransportState", seq |-> e.seq, timestamp |-> e.timestamp,
                          running |-> GetUint(v, 16, 1) # 0]
    BY <1>5, <1>8, HeaderRead DEF decodeEvent, HEADER_LEN
  <1> QED
    BY <1>1, <1>2, <1>7, <1>9

LEMMA ErrorRead ==
  ASSUME NEW e \in Errors
  PROVE  decodeEvent(to_wire(e)) = e
  <1> DEFINE w == Header(e)
             v == put_bytes(w, e.message)
  <1>1. /\ e.kind = "Error" /\ e.message \in Texts
        /\ e = [kind |-> e.kind, seq |-> e.seq, timestamp |-> e.timestamp,
                message |-> e.message]
    BY DEF Errors
  <1>2. to_wire(e) = v
    BY <1>1 DEF to_wire
  <1>3. Begun(w, e) /\ w.length = 16
    BY Start
  <1> HIDE DEF w
  <1>4. Begun(v, e) /\ HasCounted(v, 16, e.message)
    BY <1>1, <1>3, BegunCounted
  <1> HIDE DEF v
  <1>5. Counted(v, 16) = e.message
    BY <1>1, <1>4, ReadCounted DEF Begun
  <1>6. GetUint(v, 1, 1) = 6
    BY <1>1, <1>4, HeaderRead DEF KindTag
  <1>7. decodeEvent(v) = [kind |-> "Error", seq |-> e.seq, timestamp |-> e.timestamp,
                          message |-> e.message]
    BY <1>4, <1>5, <1>6, HeaderRead DEF decodeEvent, HEADER_LEN
  <1> QED
    BY <1>1, <1>2, <1>7

\* What Rust wrote of an event is what JavaScript reads.
LEMMA EventRead ==
  ASSUME NEW e \in Events
  PROVE  decodeEvent(to_wire(e)) = e
  BY DiscoveryRead, LossRead, ReceptionRead, DeliveryRead, ExpiryRead, StateRead, ErrorRead
  DEF Events
-----------------------------------------------------------------------------
(* The peer table.  Both loops are followed from a smallest turn at which   *)
(* they would go wrong.                                                     *)

\* A row in a buffer, and what the loop of decodePeers makes of it.
HasRow(w, o, p) ==
  /\ HasRaw(w, o, p.id)
  /\ HasNum(w, o + 32, 1, AsU8(p.rssi))
  /\ HasNum(w, o + 33, 1, p.hops)
  /\ HasNum(w, o + 36, 8, p.lastSeen)
  /\ HasCounted(w, o + 44, p.nickname)

LEMMA RowPut ==
  ASSUME NEW w, InOrder(w), NEW p \in PeerInfos
  PROVE  Grown(w, Row(w, p), 48 + p.nickname.length) /\ HasRow(Row(w, p), w.length, p)
  <1> DEFINE o == w.length
             a == w & Raw(p.id)
             b == a & Num(1, AsU8(p.rssi))
             c == b & Num(1, p.hops)
             d == c & Num(2, 0)
             g == d & Num(8, p.lastSeen)
             v == put_bytes(g, p.nickname)
  <1>1. p.id.length = 32 /\ p.nickname \in Texts /\ p.nickname.length \in Nat
    <2>1. p.id \in Array(32) /\ p.nickname \in Texts
      BY DEF PeerInfos
    <2> QED
      BY <2>1 DEF Array, Texts
  <1>2. Row(w, p) = v
    BY DEF Row
  <1>3. o \in Nat
    BY DEF InOrder
  <1>4. Grown(w, a, 32) /\ HasRaw(a, o, p.id)
    BY <1>1, PutRaw
  <1>5. InOrder(a) /\ a.length = o + 32
    BY <1>4 DEF Grown
  <1> HIDE DEF a
  <1>6. Grown(a, b, 1) /\ HasNum(b, o + 32, 1, AsU8(p.rssi))
    BY <1>5, PutNum
  <1>7. InOrder(b) /\ b.length = o + 33
    BY <1>3, <1>5, <1>6 DEF Grown
  <1> HIDE DEF b
  <1>8. Grown(b, c, 1) /\ HasNum(c, o + 33, 1, p.hops)
    BY <1>7, PutNum
  <1>9. InOrder(c) /\ c.length = o + 34
    BY <1>3, <1>7, <1>8 DEF Grown
  <1> HIDE DEF c
  <1>10. Grown(c, d, 2)
    BY <1>9, PutNum
  <1>11. InOrder(d) /\ d.length = o + 36
    BY <1>3, <1>9, <1>10 DEF Grown
  <1> HIDE DEF d
  <1>12. Grown(d, g, 8) /\ HasNum(g, o + 36, 8, p.lastSeen)
    BY <1>11, PutNum
  <1>13. InOrder(g) /\ g.length = o + 44
    BY <1>3, <1>11, <1>12 DEF Grown
  <1> HIDE DEF g
  <1>14. Grown(g, v, 4 + p.nickname.length) /\ HasCounted(v, o + 44, p.nickname)
    BY <1>1, <1>13, PutCounted
  <1>15. InOrder(v) /\ v.length = o + (48 + p.nickname.length)
    BY <1>1, <1>3, <1>13, <1>14 DEF Grown
  <1> HIDE DEF v
  <1>16. /\ w.fields \subseteq v.fields /\ a.fields \subseteq v.fields /\ b.fields \subseteq v.fields
         /\ c.fields \subseteq v.fields /\ g.fields \subseteq v.fields
    BY <1>4, <1>6, <1>8, <1>10, <1>12, <1>14 DEF Grown
  <1>17. HasRaw(v, o, p.id)
    BY <1>4, <1>16, RawStays
  <1>18. HasNum(v, o + 32, 1, AsU8(p.rssi)) /\ HasNum(v, o + 33, 1, p.hops)
    BY <1>6, <1>8, <1>16, NumStays
  <1>19. HasNum(v, o + 36, 8, p.lastSeen)
    BY <1>12, <1>16, NumStays
  <1>20. HasRow(v, o, p)
    BY <1>14, <1>17, <1>18, <1>19 DEF HasRow
  <1>21. Grown(w, v, 48 + p.nickname.length)
    BY <1>15, <1>16 DEF Grown
  <1> QED
    BY <1>2, <1>20, <1>21

LEMMA RowStays ==
  ASSUME NEW w, NEW v, w.fields \subseteq v.fields, NEW o, NEW p, HasRow(w, o, p)
  PROVE  HasRow(v, o, p)
  BY NumStays, RawStays DEF HasRow, HasCounted

LEMMA RowRead ==
  ASSUME NEW w, InOrder(w), NEW rows, rows.o \in Nat, NEW p \in PeerInfos, HasRow(w, rows.o, p)
  PROVE  ReadRow(w, rows) = [o |-> rows.o + 48 + p.nickname.length,
                             peers |-> Append(rows.peers, p)]
  <1> DEFINE o == rows.o
  <1>1. /\ p.id \in Array(32) /\ p.rssi \in I8 /\ p.hops \in U8 /\ p.nickname \in Texts
        /\ p = [id |-> p.id, rssi |-> p.rssi, hops |-> p.hops, lastSeen |-> p.lastSeen,
                nickname |-> p.nickname]
    BY DEF PeerInfos
  <1>2. View(w, o, 32) = p.id
    BY <1>1, ReadArray DEF HasRow
  <1>3. GetInt8(w, o + 32) = p.rssi
    BY <1>1, ReadSigned DEF HasRow
  <1>4. GetUint(w, o + 33, 1) = p.hops
    BY ReadNum DEF HasRow
  <1>5. GetUint(w, o + 36, 8) = p.lastSeen
    BY ReadNum DEF HasRow
  <1>6. Counted(w, o + 44) = p.nickname
    BY <1>1, ReadCounted DEF HasRow
  <1> QED
    BY <1>1, <1>2, <1>3, <1>4, <1>5, <1>6 DEF ReadRow

\* The turns of both loops.
Writes(rows, peers, n) ==
  rows = [i \in 0 .. n |-> IF i = 0 THEN Empty & Num(4, Len(peers)) ELSE Row(rows[i - 1], peers[i])]
Reads(rows, w, n) ==
  rows = [i \in 0 .. n |-> IF i = 0 THEN [o |-> 4, peers |-> <<>>] ELSE ReadRow(w, rows[i - 1])]

\* The order of the natural numbers, as a set of pairs.
LEMMA NaturalOrder ==
  \E less : less = {ss \in Nat \X Nat : ss[1] < ss[2]} /\ IsWellFoundedOn(less, Nat)
  BY NatLessThanWellFounded, Zenon DEF OpToRel

\* A set of numbers that is not empty has a smallest.
LEMMA Smallest ==
  ASSUME NEW T \in SUBSET Nat, T # {}
  PROVE  \E n \in T : \A k \in T : n <= k
  <1>1. PICK less : less = {ss \in Nat \X Nat : ss[1] < ss[2]} /\ IsWellFoundedOn(less, Nat)
    BY NaturalOrder
  <1>2. PICK n \in T : \A k \in T : ~(<<k, n>> \in less)
    BY <1>1, WFMin
  <1>3. ASSUME NEW k \in T PROVE n <= k
    <2>1. <<k, n>> \in Nat \X Nat /\ <<k, n>>[1] = k /\ <<k, n>>[2] = n
      OBVIOUS
    <2>2. ~(k < n)
      BY <1>1, <1>2, <2>1
    <2> QED
      BY <2>2
  <1> QED
    BY <1>3

LEMMA WritesExists ==
  ASSUME NEW peers, NEW n \in Nat
  PROVE  \E rows : Writes(rows, peers, n)
  <1> DEFINE Fails == {k \in Nat : ~ \E rows : Writes(rows, peers, k)}
             first == Empty & Num(4, Len(peers))
  <1> SUFFICES ASSUME Fails # {} PROVE FALSE
    OBVIOUS
  <1>1. PICK k \in Fails : \A j \in Fails : k <= j
    BY Smallest
  <1>2. k # 0
    <2>1. Writes([i \in 0 .. 0 |-> first], peers, 0)
      BY DEF Writes
    <2> QED
      BY <2>1
  <1>3. k - 1 \in Nat /\ k - 1 \notin Fails
    BY <1>1, <1>2
  <1>4. PICK f : Writes(f, peers, k - 1)
    BY <1>3
  <1> DEFINE last == Row(f[k - 1], peers[k])
             rows == [i \in 0 .. k |-> IF i = k THEN last ELSE f[i]]
  <1> HIDE DEF first, last
  <1>5. Writes(rows, peers, k)
    <2>1. rows[0] = first /\ rows[k] = last /\ rows[k - 1] = f[k - 1]
      BY <1>2, <1>3, <1>4 DEF Writes, first
    <2>2. ASSUME NEW i \in 0 .. k, i # 0, i # k
          PROVE  rows[i] = Row(rows[i - 1], peers[i])
      <3>1. i \in 0 .. k - 1 /\ i - 1 \in 0 .. k - 1 /\ i - 1 \in 0 .. k /\ i - 1 # k
        BY <1>3, <2>2
      <3>2. f[i] = Row(f[i - 1], peers[i])
        BY <1>4, <2>2, <3>1 DEF Writes
      <3> QED
        BY <2>2, <3>1, <3>2
    <2>3. rows = [i \in 0 .. k |-> rows[i]]
      OBVIOUS
    <2>4. rows[k] = Row(rows[k - 1], peers[k])
      BY <2>1 DEF last
    <2> HIDE DEF rows
    <2>5. ASSUME NEW i \in 0 .. k
          PROVE  rows[i] = IF i = 0 THEN first ELSE Row(rows[i - 1], peers[i])
      BY <1>2, <2>1, <2>2, <2>4
    <2> QED
      BY <2>3, <2>5 DEF Writes, first
  <1> QED
    BY <1>1, <1>5

LEMMA ReadsExists ==
  ASSUME NEW w, NEW n \in Nat
  PROVE  \E rows : Reads(rows, w, n)
  <1> DEFINE Fails == {k \in Nat : ~ \E rows : Reads(rows, w, k)}
             first == [o |-> 4, peers |-> <<>>]
  <1> SUFFICES ASSUME Fails # {} PROVE FALSE
    OBVIOUS
  <1>1. PICK k \in Fails : \A j \in Fails : k <= j
    BY Smallest
  <1>2. k # 0
    <2>1. Reads([i \in 0 .. 0 |-> first], w, 0)
      BY DEF Reads
    <2> QED
      BY <2>1
  <1>3. k - 1 \in Nat /\ k - 1 \notin Fails
    BY <1>1, <1>2
  <1>4. PICK f : Reads(f, w, k - 1)
    BY <1>3
  <1> DEFINE last == ReadRow(w, f[k - 1])
             rows == [i \in 0 .. k |-> IF i = k THEN last ELSE f[i]]
  <1> HIDE DEF first, last
  <1>5. Reads(rows, w, k)
    <2>1. rows[0] = first /\ rows[k] = last /\ rows[k - 1] = f[k - 1]
      BY <1>2, <1>3, <1>4 DEF Reads, first
    <2>2. ASSUME NEW i \in 0 .. k, i # 0, i # k
          PROVE  rows[i] = ReadRow(w, rows[i - 1])
      <3>1. i \in 0 .. k - 1 /\ i - 1 \in 0 .. k - 1 /\ i - 1 \in 0 .. k /\ i - 1 # k
        BY <1>3, <2>2
      <3>2. f[i] = ReadRow(w, f[i - 1])
        BY <1>4, <2>2, <3>1 DEF Reads
      <3> QED
        BY <2>2, <3>1, <3>2
    <2>3. rows = [i \in 0 .. k |-> rows[i]]
      OBVIOUS
    <2>4. rows[k] = ReadRow(w, rows[k - 1])
      BY <2>1 DEF last
    <2> HIDE DEF rows
    <2>5. ASSUME NEW i \in 0 .. k
          PROVE  rows[i] = IF i = 0 THEN first ELSE ReadRow(w, rows[i - 1])
      BY <1>2, <2>1, <2>2, <2>4
    <2> QED
      BY <2>3, <2>5 DEF Reads, first
  <1> QED
    BY <1>1, <1>5

\* A table that was written up to row n: the rows stand one behind the other.
Written(rows, peers, n) ==
  /\ InOrder(rows[n])
  /\ HasNum(rows[n], 0, 4, Len(peers))
  /\ \A i \in 1 .. n :
       /\ HasRow(rows[n], rows[i - 1].length, peers[i])
       /\ rows[i].length = rows[i - 1].length + 48 + peers[i].nickname.length

LEMMA TableWritten ==
  ASSUME NEW peers \in Seq(PeerInfos), NEW rows, Writes(rows, peers, Len(peers))
  PROVE  /\ Written(rows, peers, Len(peers))
         /\ rows[0].length = 4
         /\ \A n \in 0 .. Len(peers) : rows[n].length \in Nat
  <1> DEFINE len == Len(peers)
             Fails == {n \in 0 .. len : ~Written(rows, peers, n)}
  <1>1. len \in Nat /\ \A i \in 1 .. len : peers[i] \in PeerInfos
    OBVIOUS
  <1> HIDE DEF len
  <1>2. rows[0] = Empty & Num(4, len)
    BY <1>1 DEF Writes, len
  <1>3. Grown(Empty, rows[0], 4) /\ HasNum(rows[0], 0, 4, len)
    BY <1>2, EmptyInOrder, PutNum
  <1>4. InOrder(rows[0]) /\ rows[0].length = 4
    BY <1>3, EmptyInOrder DEF Grown
  <1>5. ASSUME Fails # {} PROVE FALSE
    <2>0. Fails \in SUBSET Nat
      BY <1>1
    <2>1. PICK n \in Fails : \A k \in Fails : n <= k
      BY <1>5, <2>0, Smallest
    <2>2. n # 0
      <3>1. Written(rows, peers, 0)
        BY <1>3, <1>4 DEF Written, len
      <3> QED
        BY <3>1
    <2>3. n \in 1 .. len /\ n - 1 \in 0 .. len /\ n - 1 \notin Fails
      BY <1>1, <2>1, <2>2
    <2>4. Written(rows, peers, n - 1)
      BY <2>3
    <2> DEFINE before == rows[n - 1]
    <2>5. rows[n] = Row(before, peers[n])
      BY <2>2, <2>3 DEF Writes, len
    <2>6. InOrder(before) /\ peers[n] \in PeerInfos
      BY <1>1, <2>3, <2>4 DEF Written
    <2>7. Grown(before, rows[n], 48 + peers[n].nickname.length) /\ HasRow(rows[n], before.length, peers[n])
      BY <2>5, <2>6, RowPut
    <2>8. rows[n].length = before.length + 48 + peers[n].nickname.length
      <3>1. before.length \in Nat
        BY <2>6 DEF InOrder
      <3>2. peers[n].nickname \in Texts
        BY <2>6 DEF PeerInfos
      <3>3. peers[n].nickname.length \in Nat
        BY <3>2 DEF Texts
      <3> QED
        BY <2>7, <3>1, <3>3 DEF Grown
    <2>9. ASSUME NEW i \in 1 .. n
          PROVE  /\ HasRow(rows[n], rows[i - 1].length, peers[i])
                 /\ rows[i].length = rows[i - 1].length + 48 + peers[i].nickname.length
      <3>1. CASE i = n
        BY <2>7, <2>8, <3>1
      <3>2. CASE i # n
        <4>1. i \in 1 .. n - 1
          BY <2>3, <3>2
        <4>2. /\ HasRow(before, rows[i - 1].length, peers[i])
              /\ rows[i].length = rows[i - 1].length + 48 + peers[i].nickname.length
          BY <2>4, <4>1 DEF Written
        <4> QED
          BY <2>7, <4>2, RowStays DEF Grown
      <3> QED
        BY <3>1, <3>2
    <2>10. InOrder(rows[n]) /\ HasNum(rows[n], 0, 4, Len(peers))
      BY <2>4, <2>7, NumStays DEF Grown, Written
    <2>11. Written(rows, peers, n)
      BY <2>9, <2>10 DEF Written
    <2> QED
      BY <2>1, <2>11
  <1>6. \A n \in 0 .. len : Written(rows, peers, n)
    BY <1>5
  <1>7. \A n \in 0 .. len : rows[n].length \in Nat
    BY <1>6 DEF Written, InOrder
  <1> QED
    BY <1>1, <1>4, <1>6, <1>7 DEF len

\* What mesh_peers wrote of a table is what JavaScript reads.
LEMMA TableRead ==
  ASSUME NEW peers \in Seq(PeerInfos)
  PROVE  decodePeers(peers_wire(peers)) = peers
  <1> DEFINE len == Len(peers)
  <1>1. len \in Nat /\ (\A i \in 1 .. len : peers[i] \in PeerInfos) /\ DOMAIN peers = 1 .. len
    OBVIOUS
  <1> DEFINE rows == CHOOSE f : Writes(f, peers, len)
             w == rows[len]
  <1>2. Writes(rows, peers, len) /\ peers_wire(peers) = w
    <2>1. Writes(rows, peers, len)
      BY <1>1, WritesExists
    <2>2. peers_wire(peers) = w
      BY DEF peers_wire, Writes
    <2> QED
      BY <2>1, <2>2
  <1> HIDE DEF rows
  <1>3. /\ Written(rows, peers, len) /\ rows[0].length = 4
        /\ \A n \in 0 .. len : rows[n].length \in Nat
    BY <1>2, TableWritten
  <1>4. InOrder(w) /\ HasNum(w, 0, 4, len)
    BY <1>3 DEF Written
  <1>5. GetUint(w, 0, 4) = len
    BY <1>4, ReadNum
  <1> DEFINE read == CHOOSE f : Reads(f, w, len)
  <1>6. Reads(read, w, len) /\ decodePeers(w) = read[len].peers
    <2>1. Reads(read, w, len)
      BY <1>1, ReadsExists
    <2>2. decodePeers(w) = read[len].peers
      BY <1>5 DEF decodePeers, Reads
    <2> QED
      BY <2>1, <2>2
  <1> HIDE DEF read, len, w
  <1> DEFINE Right(n) == /\ read[n].o = rows[n].length
                         /\ read[n].peers \in Seq(PeerInfos)
                         /\ Len(read[n].peers) = n
                         /\ \A i \in 1 .. n : read[n].peers[i] = peers[i]
             Fails == {n \in 0 .. len : ~Right(n)}
  <1>7. ASSUME Fails # {} PROVE FALSE
    <2>0. Fails \in SUBSET Nat
      BY <1>1
    <2>1. PICK n \in Fails : \A k \in Fails : n <= k
      BY <1>7, <2>0, Smallest
    <2>2. n # 0
      <3>1. read[0] = [o |-> 4, peers |-> <<>>]
        BY <1>1, <1>6 DEF Reads
      <3>2. Right(0)
        BY <1>3, <3>1
      <3> QED
        BY <3>2
    <2>3. n \in 1 .. len /\ n - 1 \in 0 .. len /\ n - 1 \notin Fails /\ n \in Nat
      BY <1>1, <2>1, <2>2
    <2>4. Right(n - 1)
      BY <2>3
    <2> DEFINE before == read[n - 1]
               list == before.peers
               p == peers[n]
    <2>5. read[n] = ReadRow(w, before)
      BY <1>6, <2>2, <2>3 DEF Reads
    <2>6. p \in PeerInfos /\ before.o = rows[n - 1].length /\ before.o \in Nat
      BY <1>1, <1>3, <2>3, <2>4 DEF len
    <2>7. HasRow(w, before.o, p) /\ rows[n].length = before.o + 48 + p.nickname.length
      BY <1>3, <2>3, <2>6 DEF Written, w
    <2>8. read[n] = [o |-> before.o + 48 + p.nickname.length, peers |-> Append(list, p)]
      BY <1>4, <2>5, <2>6, <2>7, RowRead
    <2>9. list \in Seq(PeerInfos) /\ Len(list) = n - 1 /\ \A i \in 1 .. n - 1 : list[i] = peers[i]
      BY <2>4
    <2>10. read[n].o = rows[n].length /\ read[n].peers = Append(list, p)
      BY <2>7, <2>8
    <2> HIDE DEF before, list
    <2>11. /\ Append(list, p) \in Seq(PeerInfos) /\ Len(Append(list, p)) = n
           /\ \A i \in 1 .. n - 1 : Append(list, p)[i] = list[i]
           /\ Append(list, p)[n] = p
      BY <2>3, <2>6, <2>9
    <2>12. ASSUME NEW i \in 1 .. n PROVE Append(list, p)[i] = peers[i]
      BY <2>3, <2>9, <2>11
    <2>13. Right(n)
      BY <2>10, <2>11, <2>12
    <2> QED
      BY <2>1, <2>13
  <1>8. Right(len)
    BY <1>1, <1>7
  <1>9. read[len].peers = peers
    <2> DEFINE list == read[len].peers
    <2>1. /\ list \in Seq(PeerInfos) /\ Len(list) = len /\ \A i \in 1 .. len : list[i] = peers[i]
      BY <1>8
    <2> HIDE DEF list
    <2>2. list = peers
      BY <1>1, <2>1 DEF len
    <2> QED
      BY <2>2 DEF list
  <1> QED
    BY <1>2, <1>6, <1>9
-----------------------------------------------------------------------------
(* The buffers that go up.                                                  *)

\* What the worker reports is an event, and goes up as to_wire has written it.
LEMMA EmitRead ==
  ASSUME DecodedAsSent, NEW c, NEW reports \in SUBSET Events, Emit(c, reports)
  PROVE  DecodedAsSent'
  <1>1. EventsOf["Tick"] \subseteq Events
    BY BridgeAssumption
  <1>2. CASE up' = up
    BY <1>2 DEF DecodedAsSent
  <1>3. CASE up' # up
    <2>1. PICK e \in reports \cup EventsOf["Tick"] : up' = Up("decodeEvent", e, to_wire(e))
      BY <1>3 DEF Emit
    <2>2. up'.decoder = "decodeEvent" /\ up'.sent = e /\ up'.wire = to_wire(e)
      BY <2>1 DEF Up
    <2>3. decodeEvent(to_wire(e)) = e
      BY <1>1, EventRead
    <2> QED
      BY <2>2, <2>3 DEF DecodedAsSent
  <1> QED
    BY <1>2, <1>3

LEMMA WorkRead == ASSUME NEW c, DecodedAsSent, Work(c) PROVE DecodedAsSent'
  <1>1. \A command \in {"Start", "Stop", "Send", "Ingest"} : EventsOf[command] \subseteq Events
    BY BridgeAssumption
  <1>2. \A command \in {"Start", "Stop", "Send", "Ingest"} : \A kinds :
          Reports(command, kinds) \in SUBSET Events
    BY <1>1 DEF Reports
  <1>3. CASE do_start(c)
    <2>1. PICK kinds : Emit(c, Reports("Start", kinds))
      BY <1>3 DEF do_start
    <2> QED
      BY <1>2, <2>1, EmitRead
  <1>4. CASE do_stop(c)
    <2>1. PICK kinds : Emit(c, Reports("Stop", kinds))
      BY <1>4 DEF do_stop
    <2> QED
      BY <1>2, <2>1, EmitRead
  <1>5. ASSUME NEW command \in {"Send", "Ingest"}, do_send_or_ingest(c, command)
        PROVE  DecodedAsSent'
    <2> DEFINE reports == IF command = "Send" /\ ~cores[c].running
                          THEN Reports(command, {"Error"}) ELSE EventsOf[command]
    <2>1. reports \in SUBSET Events
      BY <1>1, <1>2
    <2>2. Emit(c, reports) \/ UNCHANGED up
      BY <1>5 DEF do_send_or_ingest
    <2> HIDE DEF reports
    <2>3. CASE UNCHANGED up
      BY <2>3 DEF DecodedAsSent
    <2> QED
      BY <2>1, <2>2, <2>3, EmitRead
  <1>6. CASE Timeout(c)
    <2>1. {} \in SUBSET Events
      OBVIOUS
    <2> QED
      BY <1>6, <2>1, EmitRead DEF Timeout
  <1>7. CASE End(c)
    BY <1>7 DEF End, DecodedAsSent
  <1> QED
    BY <1>3, <1>4, <1>5, <1>6, <1>7 DEF Work

LEMMA NextRead == DecodedAsSent /\ [Next]_vars => DecodedAsSent'
  <1> SUFFICES ASSUME DecodedAsSent, [Next]_vars PROVE DecodedAsSent'
    OBVIOUS
  <1>1. ASSUME NEW table \in PeerTables, Peers(table) PROVE DecodedAsSent'
    <2>1. up'.decoder = "decodePeers" /\ up'.sent = table /\ up'.wire = peers_wire(table)
      BY <1>1 DEF Peers, Up
    <2>2. decodePeers(peers_wire(table)) = table
      BY BridgeAssumption, TableRead
    <2> QED
      BY <2>1, <2>2 DEF DecodedAsSent
  <1>2. ASSUME NEW c \in DOMAIN cores, Work(c) PROVE DecodedAsSent'
    BY <1>2, WorkRead
  <1>3. CASE UNCHANGED up
    BY <1>3 DEF DecodedAsSent
  <1>4. ASSUME ~ \E table \in PeerTables : Peers(table),
               ~ \E c \in DOMAIN cores : Work(c)
        PROVE  UNCHANGED up
    BY <1>4 DEF Next, vars, Initialize, InitializeFails, Install, ForgetHost, ForgetRadio, Free,
                Freed, HostCall, ScanCall, Sent, Begin
  <1> QED
    BY <1>1, <1>2, <1>3, <1>4

-----------------------------------------------------------------------------
(* The theorems.                                                            *)

\* IInv is inductive.
LEMMA NextIInv == IInv /\ [Next]_vars => IInv'
  <1> SUFFICES ASSUME IInv, [Next]_vars PROVE IInv'
    OBVIOUS
  <1>1. CASE Initialize
    BY <1>1, InitializeIInv
  <1>2. CASE InitializeFails
    BY <1>2, InitializeFailsIInv
  <1>3. CASE Install \/ ForgetHost \/ ForgetRadio
    BY <1>3, HandlesIInv
  <1>4. CASE Free
    BY <1>4, FreeIInv
  <1>5. CASE Freed
    BY <1>5, FreedIInv
  <1>6. CASE HostCall \/ ScanCall
    BY <1>6, SentIInv DEF HostCall, ScanCall, Threads
  <1>7. ASSUME NEW t \in Threads, NEW a \in Arguments[t], Begin(t, a[1], a[2]) PROVE IInv'
    BY <1>7, BeginIInv
  <1>8. ASSUME NEW table \in PeerTables, Peers(table) PROVE IInv'
    BY <1>8 DEF Peers, IInv, Types, Owned, Forgotten, Radios, Ledger, ServedUpTo
  <1>9. ASSUME NEW c \in DOMAIN cores, Work(c) PROVE IInv'
    <2>1. c \in 1 .. Len(cores)
      BY TypeFacts
    <2> QED
      BY <1>9, <2>1, WorkIInv
  <1>10. CASE UNCHANGED vars
    BY <1>10 DEF vars, IInv, Types, Owned, Forgotten, Radios, Ledger, ServedUpTo
  <1> QED
    BY <1>1, <1>2, <1>3, <1>4, <1>5, <1>6, <1>7, <1>8, <1>9, <1>10 DEF Next

\* The handles, the radios and the queues are as IInv says, in every behaviour.
THEOREM BridgeInvariant == Spec => []IInv
  <1>1. Init => IInv
    BY InitIInv
  <1>2. IInv /\ [Next]_vars => IInv'
    BY NextIInv
  <1> QED
    BY <1>1, <1>2, PTL DEF Spec

\* A radio handed to mesh_core_new or nativeCreate is released exactly once, by
\* the worker's end or the failed start, and before the module forgets the core.
THEOREM RadiosReleasedOnce == Spec => []RadioReleasedOnce
  <1>1. IInv => RadioReleasedOnce
    <2> SUFFICES ASSUME IInv PROVE RadioReleasedOnce
      OBVIOUS
    <2>1. DOMAIN cores = 1 .. Len(cores)
      BY TypeFacts
    <2>2. \A c \in 1 .. Len(cores) : cores[c].worker = "running" => module.handle # NULL
      BY TypeFacts DEF IInv, Owned, NULL
    <2> QED
      BY <2>1, <2>2 DEF IInv, Radios, RadioReleasedOnce
  <1> QED
    BY <1>1, BridgeInvariant, PTL

\* Neither the host object nor the radio keeps the handle of a core that is
\* being freed or is gone.
THEOREM HandlesNeverDangle == Spec => []HandlesLive
  <1>1. IInv => HandlesLive
    BY DEF IInv, Forgotten, HandlesLive
  <1> QED
    BY <1>1, BridgeInvariant, PTL

\* What a core accepted before Shutdown is served, in order, before free returns.
THEOREM CommandsServed == Spec => []AcceptedServed
  <1>1. IInv => AcceptedServed
    <2> SUFFICES ASSUME IInv, module.step = "joining", cores[module.handle].worker = "done"
                 PROVE  \E n \in DOMAIN cores[module.handle].accepted :
                          ServedUpTo(cores[module.handle], n)
      BY DEF AcceptedServed, ServedUpTo
    <2>1. module.handle # NULL /\ module.handle \in 1 .. Len(cores)
      BY DEF IInv, Owned
    <2>2. cores[module.handle].accepted \in Seq(Commands)
      BY <2>1, CoreFacts
    <2>3. PICK n \in 1 .. Len(cores[module.handle].accepted) :
            ServedUpTo(cores[module.handle], n)
      BY <2>1 DEF IInv, Ledger
    <2> QED
      BY <2>2, <2>3
  <1> QED
    BY <1>1, BridgeInvariant, PTL

\* JavaScript reads what Rust wrote: every event, and every peer table, comes out of
\* decodeEvent or decodePeers as it went into to_wire or mesh_peers.
THEOREM ReadAsWritten == Spec => []DecodedAsSent
  <1>1. Init => DecodedAsSent
    BY DEF Init, Nothing, Up, DecodedAsSent
  <1>2. DecodedAsSent /\ [Next]_vars => DecodedAsSent'
    BY NextRead
  <1> QED
    BY <1>1, <1>2, PTL DEF Spec
=============================================================================
