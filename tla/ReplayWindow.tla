---------------------------- MODULE ReplayWindow ----------------------------
(***************************************************************************)
(* The anti-replay window of meshcore (mesh/rust/meshcore/src/replay.rs)    *)
(* as one node runs it: senders stamp every frame they seal with the next   *)
(* counter of their session epoch, the air loses, duplicates, delays and    *)
(* reorders frames, and the node hands each authenticated frame to          *)
(* ReplayWindow::admit, which answers with a verdict.                       *)
(*                                                                          *)
(* The 64-bit bitmap is the set of its bit positions: i \in bitmap says     *)
(* that counter highest - i has been seen.  A shift of the word drops the   *)
(* positions it pushes past WINDOW - 1.                                     *)
(***************************************************************************)
EXTENDS Integers

CONSTANTS
  Senders,     \* the peers this node hears
  NoWindow,    \* the replay map holds no window for a sender
  WINDOW,      \* width of the reorder tolerance (64 in the code)
  MaxEpoch,    \* bound: session epochs are 0 .. MaxEpoch
  MaxCounter   \* bound: a session seals counters 0 .. MaxCounter

Epochs == 0 .. MaxEpoch
Counters == 0 .. MaxCounter
Offsets == 0 .. WINDOW - 1

Frames == [sender : Senders, epoch : Epochs, counter : Counters]
WindowState == [epoch : Epochs, highest : Counters, bitmap : SUBSET Offsets]
Verdicts == {"Fresh", "StaleEpoch", "TooOld", "Duplicate"}

ASSUME WindowAssumption == WINDOW \in Nat \ {0}
ASSUME BoundsAssumption == MaxEpoch \in Nat /\ MaxCounter \in Nat
ASSUME NoWindowAssumption == NoWindow \notin WindowState

VARIABLES
  session,   \* sender -> epoch of its running session
  counter,   \* sender -> next counter of that session (Worker.counter)
  sent,      \* every frame ever put on the air: any of them may arrive, again
  replay,    \* sender -> its window at this node, or NoWindow
  accepted,  \* frame -> how often admit let it through (history)
  verdict    \* what the last call of admit returned

windowVars == <<session, counter, sent, replay, accepted, verdict>>
senderVars == <<session, counter, sent>>

-----------------------------------------------------------------------------
(* ReplayWindow, the data type.                                             *)

\* A window opened on the first frame of a session.
Opened(f) == [epoch |-> f.epoch, highest |-> f.counter, bitmap |-> {0}]

\* Mutant: the machine shift alone, which takes the shift modulo the width.
ShiftedMasked(bitmap, shift) ==
  {i + (shift % WINDOW) : i \in bitmap} \cap Offsets

\* bitmap << shift, with the guard that keeps a shift of WINDOW or more from
\* reaching the machine instruction.
Shifted(bitmap, shift) ==
  IF shift >= WINDOW THEN {} ELSE {i + shift : i \in bitmap} \cap Offsets

Advanced(w, f) ==
  [epoch   |-> w.epoch,
   highest |-> f.counter,
   bitmap  |-> Shifted(w.bitmap, f.counter - w.highest) \cup {0}]

Age(w, f) == w.highest - f.counter

\* Mutant: age > WINDOW in place of age >= WINDOW.
VouchesOffByOne(w, f) == Age(w, f) <= WINDOW

\* The window can still vouch for a frame of this age.
Vouches(w, f) == Age(w, f) < WINDOW

Filled(w, f) == [w EXCEPT !.bitmap = w.bitmap \cup {Age(w, f)}]

-----------------------------------------------------------------------------
WindowInit ==
  /\ session \in [Senders -> Epochs]
  /\ counter = [s \in Senders |-> 0]
  /\ sent = {}
  /\ replay = [s \in Senders |-> NoWindow]
  /\ accepted = [f \in Frames |-> 0]
  /\ verdict = "Fresh"

\* A sender consumes its next counter and puts the frame on the air.
Seal(s) ==
  /\ counter[s] < MaxCounter
  /\ counter' = [counter EXCEPT ![s] = @ + 1]
  /\ sent' = sent \cup {[sender |-> s, epoch |-> session[s], counter |-> counter[s]]}
  /\ UNCHANGED <<session, replay, accepted, verdict>>

\* A sender restarts: counters begin again at zero, under the epoch its clock
\* gives it, which is lower than the last one when the clock was set back.
Restart(s, e) ==
  /\ session' = [session EXCEPT ![s] = e]
  /\ counter' = [counter EXCEPT ![s] = 0]
  /\ UNCHANGED <<sent, replay, accepted, verdict>>

\* The frame goes through: the window becomes w and the frame is handed on.
Pass(f, w) ==
  /\ replay' = [replay EXCEPT ![f.sender] = w]
  /\ accepted' = [accepted EXCEPT ![f] = @ + 1]
  /\ verdict' = "Fresh"
  /\ UNCHANGED senderVars

Refuse(why) ==
  /\ verdict' = why
  /\ UNCHANGED <<session, counter, sent, replay, accepted>>

\* The first frame ever heard from a sender is accepted without a check.
FirstFrame(f) ==
  /\ replay[f.sender] = NoWindow
  /\ Pass(f, Opened(f))

HasWindow(f) == replay[f.sender] # NoWindow
SameSession(f) == HasWindow(f) /\ f.epoch = replay[f.sender].epoch

StaleEpoch(f) ==
  /\ HasWindow(f)
  /\ f.epoch < replay[f.sender].epoch
  /\ Refuse("StaleEpoch")

\* Mutant: any change of epoch counts as a restart of the sender.
NewSessionAnyEpoch(f) ==
  /\ HasWindow(f)
  /\ f.epoch # replay[f.sender].epoch
  /\ Pass(f, Opened(f))

NewSession(f) ==
  /\ HasWindow(f)
  /\ f.epoch > replay[f.sender].epoch
  /\ Pass(f, Opened(f))

Advance(f) ==
  /\ SameSession(f)
  /\ f.counter > replay[f.sender].highest
  /\ Pass(f, Advanced(replay[f.sender], f))

Behind(f) == SameSession(f) /\ f.counter <= replay[f.sender].highest

TooOld(f) ==
  /\ Behind(f)
  /\ ~Vouches(replay[f.sender], f)
  /\ Refuse("TooOld")

Duplicate(f) ==
  /\ Behind(f)
  /\ Vouches(replay[f.sender], f)
  /\ Age(replay[f.sender], f) \in replay[f.sender].bitmap
  /\ Refuse("Duplicate")

FillGap(f) ==
  /\ Behind(f)
  /\ Vouches(replay[f.sender], f)
  /\ Age(replay[f.sender], f) \notin replay[f.sender].bitmap
  /\ Pass(f, Filled(replay[f.sender], f))

\* One call of Worker::accept's replay check on a frame that arrived.
Admit(f) ==
  \/ FirstFrame(f)
  \/ StaleEpoch(f)
  \/ NewSession(f)
  \/ Advance(f)
  \/ TooOld(f)
  \/ Duplicate(f)
  \/ FillGap(f)

WindowNext ==
  \/ \E s \in Senders : Seal(s)
  \/ \E s \in Senders, e \in Epochs : Restart(s, e)
  \/ \E f \in sent : Admit(f)

WindowSpec == WindowInit /\ [][WindowNext]_windowVars

-----------------------------------------------------------------------------
(* Properties.                                                              *)

\* Every variable has its type.
WindowTypeOK ==
  /\ session \in [Senders -> Epochs]
  /\ counter \in [Senders -> Counters]
  /\ sent \subseteq Frames
  /\ replay \in [Senders -> WindowState \cup {NoWindow}]
  /\ accepted \in [Frames -> Nat]
  /\ verdict \in Verdicts

\* No frame is handed on twice, whatever the air duplicates or delays: this is
\* what replay.rs promises beyond the bounded msg_id cache.
AtMostOnce == \A f \in Frames : accepted[f] <= 1

\* A frame of the running window's session that was never handed on and is not
\* older than the window is never refused: reordering by fewer than WINDOW
\* frames loses nothing (replay.rs, "Epochs, and the caveat").
NeverRefuseInWindow ==
  [][\A f \in sent :
       /\ Admit(f)
       /\ accepted[f] = 0
       /\ SameSession(f)
       /\ Age(replay[f.sender], f) < WINDOW
       => accepted'[f] = 1]_windowVars

\* Once a frame of a session was handed on, no frame of an older session of
\* the same sender ever is: sessions are never interleaved.
SessionsInOrder ==
  [][\A f, g \in Frames :
       /\ accepted'[f] > accepted[f]
       /\ g.sender = f.sender
       /\ accepted[g] > 0
       => g.epoch <= f.epoch]_windowVars

-----------------------------------------------------------------------------
(* The inductive invariant.                                                 *)

\* What the number of times a frame was let through says of its sender's
\* window w, and back: nothing ahead of the window was handed on, and inside
\* it the bitmap is exact.
Agrees(f, times, w) ==
  /\ f.epoch > w.epoch => times = 0
  /\ f.epoch = w.epoch /\ f.counter > w.highest => times = 0
  /\ f.epoch = w.epoch /\ f.counter <= w.highest /\ Vouches(w, f)
       => (times = 0 <=> Age(w, f) \notin w.bitmap)

WindowExact ==
  \A f \in Frames :
    IF replay[f.sender] = NoWindow
    THEN accepted[f] = 0
    ELSE Agrees(f, accepted[f], replay[f.sender])

\* Types, no frame twice, and the bitmap exact: what every step keeps.
WindowInv == WindowTypeOK /\ AtMostOnce /\ WindowExact
=============================================================================
