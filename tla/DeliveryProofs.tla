--------------------------- MODULE DeliveryProofs ---------------------------
(***************************************************************************)
(* What the replay window guarantees for every set of senders, every width  *)
(* and every bound on epochs and counters; and what Delivery guarantees for *)
(* any messages, relays, hops, deadlines and capacities, whatever is lost,  *)
(* repeated, forgotten or carried on the way.                               *)
(***************************************************************************)
EXTENDS ReplayWindow, Delivery, FilterProofs
-----------------------------------------------------------------------------
(* The replay window.  Its inductive invariant is WindowInv: types,         *)
(* AtMostOnce and WindowExact, which relates the bitmap to the history of   *)
(* deliveries.  AtMostOnce alone is not inductive: a frame that was let     *)
(* through once is refused the second time only because the bitmap still    *)
(* records it, or because the window has moved past it.                     *)

\* A window opened on a frame is a window.
LEMMA OpenedType == \A f \in Frames : Opened(f) \in WindowState
  <1> SUFFICES ASSUME NEW f \in Frames PROVE Opened(f) \in WindowState
    OBVIOUS
  <1>1. 0 \in Offsets
    BY WindowAssumption DEF Offsets
  <1>2. f.epoch \in Epochs /\ f.counter \in Counters
    BY DEF Frames
  <1> QED
    BY <1>1, <1>2 DEF Opened, WindowState

\* Shifting keeps exactly the positions that stay inside the word: position i
\* is set afterwards iff position i - shift was set before.
LEMMA ShiftedExact ==
  ASSUME NEW bitmap \in SUBSET Offsets, NEW shift \in Nat \ {0}, NEW i \in Offsets
  PROVE  i \in Shifted(bitmap, shift) <=> (i - shift) \in bitmap
  BY WindowAssumption DEF Shifted, Offsets

\* Advancing the window to a newer frame yields a window.
LEMMA AdvancedType ==
  ASSUME NEW w \in WindowState, NEW f \in Frames
  PROVE  Advanced(w, f) \in WindowState
  <1>1. Shifted(w.bitmap, f.counter - w.highest) \in SUBSET Offsets
    BY DEF Shifted
  <1>2. 0 \in Offsets
    BY WindowAssumption DEF Offsets
  <1>3. f.counter \in Counters /\ w.epoch \in Epochs
    BY DEF Frames, WindowState
  <1> QED
    BY <1>1, <1>2, <1>3 DEF Advanced, WindowState

\* Recording a frame the window still vouches for yields a window.
LEMMA FilledType ==
  ASSUME NEW w \in WindowState, NEW f \in Frames,
         f.counter <= w.highest, Vouches(w, f)
  PROVE  Filled(w, f) \in WindowState
  <1>1. f.counter \in Counters /\ w.highest \in Counters
    BY DEF Frames, WindowState
  <1>2. Age(w, f) \in Offsets
    BY <1>1, BoundsAssumption, WindowAssumption DEF Age, Vouches, Offsets, Counters
  <1> QED
    BY <1>2 DEF Filled, WindowState

-----------------------------------------------------------------------------
(* Each way a frame goes through keeps the bitmap exact.                    *)

\* WindowInv holds initially: nothing was let through and there is no window.
LEMMA InitWindowInv == WindowInit => WindowInv
  <1> SUFFICES ASSUME WindowInit PROVE WindowInv
    OBVIOUS
  <1>1. WindowTypeOK
    BY BoundsAssumption DEF WindowInit, WindowTypeOK, Counters, Verdicts
  <1>2. AtMostOnce
    BY DEF WindowInit, AtMostOnce
  <1>3. WindowExact
    BY DEF WindowInit, WindowExact, Frames
  <1> QED
    BY <1>1, <1>2, <1>3 DEF WindowInv

\* The common step: a frame let through for the first time into a window that
\* agrees with the new history for every frame of that sender.
LEMMA PassWindowInv ==
  ASSUME WindowInv,
         NEW f \in Frames,
         NEW w \in WindowState,
         accepted[f] = 0,
         Pass(f, w),
         \A g \in Frames : g.sender = f.sender => Agrees(g, accepted'[g], w)
  PROVE  WindowInv'
  <1>1. WindowTypeOK'
    BY DEF WindowInv, WindowTypeOK, Pass, senderVars, Verdicts, Frames
  <1>2. AtMostOnce'
    BY DEF WindowInv, WindowTypeOK, AtMostOnce, Pass
  <1>3. WindowExact'
    <2> SUFFICES ASSUME NEW g \in Frames
                 PROVE  IF replay'[g.sender] = NoWindow
                        THEN accepted'[g] = 0
                        ELSE Agrees(g, accepted'[g], replay'[g.sender])
      BY DEF WindowExact
    <2>0. f.sender \in Senders /\ g.sender \in Senders
      BY DEF Frames
    <2>1. CASE g.sender = f.sender
      <3>1. replay'[g.sender] = w
        BY <2>0, <2>1 DEF Pass, WindowInv, WindowTypeOK
      <3>2. w # NoWindow
        BY NoWindowAssumption
      <3> QED
        BY <2>1, <3>1, <3>2
    <2>2. CASE g.sender # f.sender
      <3>1. replay'[g.sender] = replay[g.sender] /\ accepted'[g] = accepted[g]
        BY <2>0, <2>2 DEF Pass, WindowInv, WindowTypeOK
      <3> QED
        BY <3>1 DEF WindowInv, WindowExact
    <2> QED
      BY <2>1, <2>2
  <1> QED
    BY <1>1, <1>2, <1>3 DEF WindowInv

\* The first frame of a sender, or of a newer session: nothing of that session
\* was let through before.
LEMMA OpenWindowInv ==
  ASSUME WindowInv,
         NEW f \in Frames,
         FirstFrame(f) \/ NewSession(f)
  PROVE  WindowInv'
  <1>0. f.sender \in Senders /\ f.epoch \in Epochs /\ f.counter \in Counters
    BY DEF Frames
  <1>1. Opened(f) \in WindowState
    BY OpenedType
  <1>2. Pass(f, Opened(f))
    BY DEF FirstFrame, NewSession
  <1>3. ASSUME NEW g \in Frames, g.sender = f.sender, g.epoch >= f.epoch
        PROVE  accepted[g] = 0
    <2>1. g.epoch \in Int /\ f.epoch \in Int
      BY BoundsAssumption DEF Frames, Epochs
    <2>2. CASE FirstFrame(f)
      BY <1>3, <2>2 DEF FirstFrame, WindowInv, WindowExact
    <2>3. CASE NewSession(f)
      <3>1. replay[f.sender] \in WindowState
        BY <1>0, <2>3 DEF NewSession, HasWindow, WindowInv, WindowTypeOK
      <3>2. replay[f.sender].epoch \in Int
        BY <3>1, BoundsAssumption DEF WindowState, Epochs
      <3>3. g.epoch > replay[g.sender].epoch
        BY <1>3, <2>1, <2>3, <3>2 DEF NewSession
      <3>4. Agrees(g, accepted[g], replay[g.sender])
        BY <1>3, <2>3 DEF NewSession, HasWindow, WindowInv, WindowExact
      <3> QED
        BY <3>3, <3>4 DEF Agrees
    <2> QED
      BY <2>2, <2>3
  <1>4. accepted[f] = 0
    BY <1>0, <1>3, BoundsAssumption DEF Epochs
  <1>5. ASSUME NEW g \in Frames, g.sender = f.sender
        PROVE  Agrees(g, accepted'[g], Opened(f))
    <2> DEFINE w == Opened(f)
    <2>1. w.epoch = f.epoch /\ w.highest = f.counter /\ w.bitmap = {0}
      BY DEF Opened
    <2>2. g.epoch \in Int /\ f.epoch \in Int /\ g.counter \in Int /\ f.counter \in Int
      BY BoundsAssumption DEF Frames, Epochs, Counters
    <2>3. accepted \in [Frames -> Nat] /\ accepted' = [accepted EXCEPT ![f] = @ + 1]
      BY <1>2 DEF Pass, WindowInv, WindowTypeOK
    <2>4. CASE g = f
      <3>1. accepted'[g] = 1
        BY <1>4, <2>3, <2>4
      <3>2. Age(w, g) = 0
        BY <2>1, <2>2, <2>4 DEF Age
      <3> QED
        BY <2>1, <2>2, <2>4, <3>1, <3>2 DEF Agrees
    <2>5. CASE g # f
      <3>1. g.epoch >= f.epoch => accepted'[g] = 0
        BY <1>3, <1>5, <2>3, <2>5
      <3>2. g.epoch = f.epoch => g.counter # f.counter
        BY <1>5, <2>5 DEF Frames
      <3>3. g.epoch = f.epoch => Age(w, g) # 0
        BY <2>1, <2>2, <3>2 DEF Age
      <3> QED
        BY <2>1, <2>2, <3>1, <3>3 DEF Agrees
    <2> QED
      BY <2>4, <2>5
  <1> QED
    BY <1>1, <1>2, <1>4, <1>5, PassWindowInv

\* A frame ahead of the window: the shifted bitmap speaks of the same counters.
LEMMA AdvanceWindowInv ==
  ASSUME WindowInv, NEW f \in Frames, Advance(f)
  PROVE  WindowInv'
  <1> DEFINE v == replay[f.sender]
             w == Advanced(v, f)
  <1>0. f.sender \in Senders /\ f.epoch \in Epochs /\ f.counter \in Counters
    BY DEF Frames
  <1>1. v \in WindowState
    BY <1>0 DEF Advance, SameSession, HasWindow, WindowInv, WindowTypeOK
  <1>2. w \in WindowState
    BY <1>1, AdvancedType
  <1>3. Pass(f, w) /\ f.epoch = v.epoch /\ f.counter > v.highest /\ v # NoWindow
    BY DEF Advance, SameSession, HasWindow
  <1>4. Agrees(f, accepted[f], v)
    BY <1>3 DEF WindowInv, WindowExact
  <1>5. accepted[f] = 0
    BY <1>3, <1>4 DEF Agrees
  <1>6. ASSUME NEW g \in Frames, g.sender = f.sender
        PROVE  Agrees(g, accepted'[g], w)
    <2>1. /\ w.epoch = v.epoch
          /\ w.highest = f.counter
          /\ w.bitmap = Shifted(v.bitmap, f.counter - v.highest) \cup {0}
      BY DEF Advanced
    <2>2. /\ g.epoch \in Int /\ f.epoch \in Int
          /\ g.counter \in Int /\ f.counter \in Int
          /\ v.epoch \in Int /\ v.highest \in Int
          /\ v.bitmap \in SUBSET Offsets
      BY <1>1, BoundsAssumption DEF Frames, WindowState, Epochs, Counters
    <2>3. accepted \in [Frames -> Nat] /\ accepted' = [accepted EXCEPT ![f] = @ + 1]
      BY <1>3 DEF Pass, WindowInv, WindowTypeOK
    <2>4. Agrees(g, accepted[g], v)
      BY <1>3, <1>6 DEF WindowInv, WindowExact
    <2> HIDE DEF v, w
    <2>5. CASE g = f
      <3>1. accepted'[g] = 1
        BY <1>5, <2>3, <2>5
      <3>2. Age(w, g) = 0
        BY <2>1, <2>2, <2>5 DEF Age
      <3> QED
        BY <1>3, <2>1, <2>2, <2>5, <3>1, <3>2 DEF Agrees
    <2>6. CASE g # f
      <3>1. accepted'[g] = accepted[g]
        BY <2>3, <2>6
      <3>2. g.epoch > w.epoch => accepted'[g] = 0
        BY <2>1, <2>4, <3>1 DEF Agrees
      <3>3. g.epoch = w.epoch /\ g.counter > w.highest => accepted'[g] = 0
        BY <1>3, <2>1, <2>2, <2>4, <3>1 DEF Agrees
      <3>4. ASSUME g.epoch = w.epoch, g.counter <= w.highest, Vouches(w, g)
            PROVE  accepted'[g] = 0 <=> Age(w, g) \notin w.bitmap
        <4>1. Age(w, g) \in Offsets
          BY <2>1, <2>2, <3>4, WindowAssumption DEF Age, Vouches, Offsets
        <4>2. g.counter # f.counter
          BY <1>3, <1>6, <2>1, <2>6, <3>4 DEF Frames
        <4>3. Age(w, g) # 0
          BY <2>1, <2>2, <4>2 DEF Age
        <4> DEFINE shift == f.counter - v.highest
        <4>4. shift \in Nat \ {0}
          BY <1>3, <2>2
        <4>5. Age(w, g) - shift = Age(v, g)
          BY <2>1, <2>2 DEF Age
        <4>6. Age(w, g) \in Shifted(v.bitmap, shift) <=> Age(v, g) \in v.bitmap
          BY <2>2, <4>1, <4>4, <4>5, ShiftedExact
        <4>7. Age(w, g) \in w.bitmap <=> Age(v, g) \in v.bitmap
          BY <2>1, <4>3, <4>6
        <4>8. CASE g.counter > v.highest
          <5>1. accepted[g] = 0
            BY <1>3, <2>1, <2>4, <3>4, <4>8 DEF Agrees
          <5>2. Age(v, g) \notin v.bitmap
            BY <2>2, <4>8 DEF Age, Offsets
          <5> QED
            BY <3>1, <4>7, <5>1, <5>2
        <4>9. CASE g.counter <= v.highest
          <5>1. Vouches(v, g)
            BY <1>3, <2>1, <2>2, <3>4, WindowAssumption DEF Vouches, Age
          <5> QED
            BY <2>1, <2>4, <3>1, <3>4, <4>7, <4>9, <5>1 DEF Agrees
        <4> QED
          BY <2>2, <4>8, <4>9
      <3> QED
        BY <3>2, <3>3, <3>4 DEF Agrees
    <2> QED
      BY <2>5, <2>6
  <1> QED
    BY <1>2, <1>3, <1>5, <1>6, PassWindowInv

\* A late frame the window still vouches for: one more bit, for this frame.
LEMMA FillGapWindowInv ==
  ASSUME WindowInv, NEW f \in Frames, FillGap(f)
  PROVE  WindowInv'
  <1> DEFINE v == replay[f.sender]
             w == Filled(v, f)
  <1>0. f.sender \in Senders /\ f.epoch \in Epochs /\ f.counter \in Counters
    BY DEF Frames
  <1>1. v \in WindowState
    BY <1>0 DEF FillGap, Behind, SameSession, HasWindow, WindowInv, WindowTypeOK
  <1>2. /\ Pass(f, w) /\ v # NoWindow
        /\ f.epoch = v.epoch /\ f.counter <= v.highest
        /\ Vouches(v, f) /\ Age(v, f) \notin v.bitmap
    BY DEF FillGap, Behind, SameSession, HasWindow
  <1>3. w \in WindowState
    BY <1>1, <1>2, FilledType
  <1>4. accepted[f] = 0
    <2>1. Agrees(f, accepted[f], v)
      BY <1>2 DEF WindowInv, WindowExact
    <2> QED
      BY <1>2, <2>1 DEF Agrees
  <1>5. ASSUME NEW g \in Frames, g.sender = f.sender
        PROVE  Agrees(g, accepted'[g], w)
    <2>1. /\ w.epoch = v.epoch
          /\ w.highest = v.highest
          /\ w.bitmap = v.bitmap \cup {Age(v, f)}
      BY <1>1 DEF Filled, WindowState
    <2>2. /\ g.counter \in Int /\ f.counter \in Int /\ v.highest \in Int
          /\ g.epoch \in Int /\ v.epoch \in Int
      BY <1>1, BoundsAssumption DEF Frames, WindowState, Epochs, Counters
    <2>3. accepted \in [Frames -> Nat] /\ accepted' = [accepted EXCEPT ![f] = @ + 1]
      BY <1>2 DEF Pass, WindowInv, WindowTypeOK
    <2>4. Agrees(g, accepted[g], v)
      BY <1>2, <1>5 DEF WindowInv, WindowExact
    <2> HIDE DEF v, w
    <2>5. Age(w, g) = Age(v, g) /\ (Vouches(w, g) <=> Vouches(v, g))
      BY <2>1 DEF Age, Vouches
    <2>6. CASE g = f
      <3>1. accepted'[g] = 1
        BY <1>4, <2>3, <2>6
      <3> QED
        BY <1>2, <2>1, <2>2, <2>5, <2>6, <3>1 DEF Agrees
    <2>7. CASE g # f
      <3>1. accepted'[g] = accepted[g]
        BY <2>3, <2>7
      <3>2. g.epoch = w.epoch => g.counter # f.counter
        BY <1>2, <1>5, <2>1, <2>7 DEF Frames
      <3>3. g.epoch = w.epoch => Age(v, g) # Age(v, f)
        BY <2>2, <3>2 DEF Age
      <3> QED
        BY <2>1, <2>4, <2>5, <3>1, <3>3 DEF Agrees
    <2> QED
      BY <2>6, <2>7
  <1> QED
    BY <1>2, <1>3, <1>4, <1>5, PassWindowInv

-----------------------------------------------------------------------------
(* The theorems.                                                            *)

\* Sealing and restarting touch neither the window nor the history.
LEMMA SenderWindowInv ==
  ASSUME WindowInv,
         NEW s \in Senders,
         Seal(s) \/ \E e \in Epochs : Restart(s, e)
  PROVE  WindowInv'
  <1>1. WindowTypeOK'
    <2>1. CASE Seal(s)
      <3>1. counter[s] \in Counters /\ counter[s] + 1 \in Counters
        BY <2>1, BoundsAssumption DEF Seal, WindowInv, WindowTypeOK, Counters
      <3>2. [sender |-> s, epoch |-> session[s], counter |-> counter[s]] \in Frames
        BY <3>1 DEF Frames, WindowInv, WindowTypeOK
      <3>3. sent' \subseteq Frames
        BY <2>1, <3>2 DEF Seal, WindowInv, WindowTypeOK
      <3>4. counter' \in [Senders -> Counters]
        BY <2>1, <3>1 DEF Seal, WindowInv, WindowTypeOK
      <3> QED
        BY <2>1, <3>3, <3>4 DEF Seal, WindowInv, WindowTypeOK
    <2>2. CASE \E e \in Epochs : Restart(s, e)
      BY <2>2, BoundsAssumption DEF Restart, WindowInv, WindowTypeOK, Counters
    <2> QED
      BY <2>1, <2>2
  <1>2. accepted' = accepted /\ replay' = replay
    BY DEF Seal, Restart
  <1> QED
    BY <1>1, <1>2 DEF WindowInv, AtMostOnce, WindowExact

\* Every step keeps the inductive invariant.
LEMMA NextWindowInv == WindowInv /\ [WindowNext]_windowVars => WindowInv'
  <1> SUFFICES ASSUME WindowInv, [WindowNext]_windowVars PROVE WindowInv'
    OBVIOUS
  <1>1. CASE \E s \in Senders : Seal(s)
    BY <1>1, SenderWindowInv
  <1>2. CASE \E s \in Senders, e \in Epochs : Restart(s, e)
    BY <1>2, SenderWindowInv
  <1>3. ASSUME NEW f \in sent, Admit(f)
        PROVE  WindowInv'
    <2>0. f \in Frames
      BY DEF WindowInv, WindowTypeOK
    <2>1. CASE FirstFrame(f) \/ NewSession(f)
      BY <2>0, <2>1, OpenWindowInv
    <2>2. CASE Advance(f)
      BY <2>0, <2>2, AdvanceWindowInv
    <2>3. CASE FillGap(f)
      BY <2>0, <2>3, FillGapWindowInv
    <2>4. CASE StaleEpoch(f) \/ TooOld(f) \/ Duplicate(f)
      BY <2>4 DEF StaleEpoch, TooOld, Duplicate, Refuse, Verdicts,
                  WindowInv, WindowTypeOK, AtMostOnce, WindowExact
    <2> QED
      BY <1>3, <2>1, <2>2, <2>3, <2>4 DEF Admit
  <1>4. CASE UNCHANGED windowVars
    BY <1>4 DEF windowVars, WindowInv, WindowTypeOK, AtMostOnce, WindowExact
  <1> QED
    BY <1>1, <1>2, <1>3, <1>4 DEF WindowNext

\* The variables keep their types and the bitmap stays exact: inside the
\* window a bit is set exactly for the frames that were handed on.
THEOREM WindowInvariant == WindowSpec => []WindowInv
  BY InitWindowInv, NextWindowInv, PTL DEF WindowSpec

\* The variables of the window and of its senders keep their types.
THEOREM WindowTypeCorrect == WindowSpec => []WindowTypeOK
  <1>1. WindowInv => WindowTypeOK
    BY DEF WindowInv
  <1> QED
    BY <1>1, WindowInvariant, PTL

\* No frame is handed on twice, however often and in whatever order the air
\* delivers it, for every width of the window.
THEOREM DeliveredAtMostOnce == WindowSpec => []AtMostOnce
  <1>1. WindowInv => AtMostOnce
    BY DEF WindowInv
  <1> QED
    BY <1>1, WindowInvariant, PTL

\* Reordering within the window loses nothing: admit lets through every frame
\* of the running session that is new and not older than the window.
THEOREM InWindowAccepted == WindowSpec => NeverRefuseInWindow
  <1> DEFINE Step == \A f \in sent :
                       /\ Admit(f)
                       /\ accepted[f] = 0
                       /\ SameSession(f)
                       /\ Age(replay[f.sender], f) < WINDOW
                       => accepted'[f] = 1
  <1>1. WindowInv /\ [WindowNext]_windowVars => [Step]_windowVars
    <2> SUFFICES ASSUME WindowInv,
                        NEW f \in sent,
                        Admit(f),
                        accepted[f] = 0,
                        SameSession(f),
                        Age(replay[f.sender], f) < WINDOW
                 PROVE  accepted'[f] = 1
      OBVIOUS
    <2>0. f \in Frames /\ f.sender \in Senders
      BY DEF WindowInv, WindowTypeOK, Frames
    <2>1. /\ replay[f.sender] \in WindowState
          /\ replay[f.sender] # NoWindow
          /\ f.epoch = replay[f.sender].epoch
      BY <2>0 DEF SameSession, HasWindow, WindowInv, WindowTypeOK
    <2>2. /\ f.epoch \in Int /\ f.counter \in Int
          /\ replay[f.sender].highest \in Int
      BY <2>0, <2>1, BoundsAssumption DEF Frames, WindowState, Epochs, Counters
    <2>3. Vouches(replay[f.sender], f)
      BY DEF Vouches
    <2>4. Agrees(f, accepted[f], replay[f.sender])
      BY <2>0, <2>1 DEF WindowInv, WindowExact
    <2>5. ~FirstFrame(f) /\ ~StaleEpoch(f) /\ ~NewSession(f)
      BY <2>1, <2>2 DEF FirstFrame, StaleEpoch, NewSession
    <2>6. ~TooOld(f)
      BY <2>3 DEF TooOld
    <2>7. ~Duplicate(f)
      BY <2>1, <2>3, <2>4 DEF Duplicate, Behind, Agrees
    <2>8. \E w \in {Advanced(replay[f.sender], f), Filled(replay[f.sender], f)} : Pass(f, w)
      BY <2>5, <2>6, <2>7 DEF Admit, Advance, FillGap
    <2> QED
      BY <2>0, <2>8 DEF Pass, WindowInv, WindowTypeOK
  <1>2. WindowSpec => [][Step]_windowVars
    BY <1>1, WindowInvariant, PTL DEF WindowSpec
  <1> QED
    BY <1>2 DEF NeverRefuseInWindow

\* Sessions of one sender are handed on in order: after a frame of a session
\* went through, a frame of an older session never does.
THEOREM SessionsDeliveredInOrder == WindowSpec => SessionsInOrder
  <1> DEFINE Step == \A f, g \in Frames :
                       /\ accepted'[f] > accepted[f]
                       /\ g.sender = f.sender
                       /\ accepted[g] > 0
                       => g.epoch <= f.epoch
  <1>1. WindowInv /\ [WindowNext]_windowVars => [Step]_windowVars
    <2> SUFFICES ASSUME WindowInv, WindowNext,
                        NEW f \in Frames, NEW g \in Frames,
                        accepted'[f] > accepted[f],
                        g.sender = f.sender,
                        accepted[g] > 0
                 PROVE  g.epoch <= f.epoch
      BY DEF windowVars
    <2>0. /\ f.epoch \in Int /\ g.epoch \in Int
          /\ f.sender \in Senders
          /\ accepted[f] \in Nat /\ accepted[g] \in Nat
      <3>1. f.epoch \in Epochs /\ g.epoch \in Epochs /\ f.sender \in Senders
        BY DEF Frames
      <3>2. accepted[f] \in Nat /\ accepted[g] \in Nat
        BY DEF WindowInv, WindowTypeOK
      <3> QED
        BY <3>1, <3>2, BoundsAssumption DEF Epochs
    <2>1. accepted' # accepted
      BY <2>0
    <2>2. PICK h \in sent : \E w \in {Opened(h), Advanced(replay[h.sender], h),
                                      Filled(replay[h.sender], h)} :
                              /\ Admit(h)
                              /\ Pass(h, w)
      BY <2>1 DEF WindowNext, Seal, Restart, Admit, StaleEpoch, TooOld, Duplicate, Refuse,
                  FirstFrame, NewSession, Advance, FillGap
    <2>3. h \in Frames
      BY DEF WindowInv, WindowTypeOK
    <2>4. h = f
      BY <2>0, <2>2, <2>3 DEF Pass, WindowInv, WindowTypeOK
    <2>5. replay[f.sender] # NoWindow
      BY <2>0 DEF WindowInv, WindowExact
    <2>6. replay[f.sender].epoch \in Int
      BY <2>0, <2>5, BoundsAssumption DEF WindowInv, WindowTypeOK, WindowState, Epochs
    <2>7. g.epoch <= replay[f.sender].epoch
      BY <2>0, <2>5, <2>6 DEF WindowInv, WindowExact, Agrees
    <2>8. f.epoch >= replay[f.sender].epoch
      BY <2>0, <2>2, <2>4, <2>5, <2>6
      DEF Admit, Pass, FirstFrame, StaleEpoch, NewSession, Advance, TooOld, Duplicate, FillGap,
          Behind, SameSession, Refuse, WindowInv, WindowTypeOK
    <2> QED
      BY <2>0, <2>6, <2>7, <2>8
  <1>2. WindowSpec => [][Step]_windowVars
    BY <1>1, WindowInvariant, PTL DEF WindowSpec
  <1> QED
    BY <1>2 DEF SessionsInOrder
-----------------------------------------------------------------------------
(* Delivery.  The inductive invariant: a frame that is heard or carried was *)
(* sent, and the inbox has what the recipient's window let through.         *)

\* The frame of a message exists once the message is sent, that of its ack once
\* it is in the inbox.
Sent(f) ==
  /\ f.kind = "Message" => status[f.msg] # "new"
  /\ f.kind = "Ack" => inbox[f.msg] > 0

Sealed ==
  /\ \A c \in air : Sent(c.frame)
  /\ \A r \in Relays : \A i \in DOMAIN cache[r] : Sent(cache[r][i].frame)

Once ==
  \A m \in Msgs :
    /\ MessageOf(m) \in admitted => inbox[m] = 1
    /\ MessageOf(m) \notin admitted => inbox[m] = 0
    /\ status[m] = "new" => inbox[m] = 0 /\ age[m] = 0

Absent == \A r \in Relays : \A i \in DOMAIN cache[r] : To(cache[r][i].frame) \notin table[r]

IInv == TypeOK /\ Absent /\ Sealed /\ Once

\* The relays that remember the message, and the age at which the last of them
\* lets go of it.
Knows(m) == {r \in Relays : MessageOf(m) \in seen[r]}
Reach(m) == DEADLINE + Cardinality(Knows(m)) * TTL

InTime ==
  /\ \A c \in air, m \in Msgs : c.frame = MessageOf(m) => age[m] <= Reach(m)
  /\ \A r \in Relays : \A i \in DOMAIN cache[r], m \in Msgs :
       cache[r][i].frame = MessageOf(m) =>
         r \in Knows(m) /\ age[m] + TTL <= Reach(m) + cache[r][i].age
-----------------------------------------------------------------------------
(* Frames, and what the operations of the relay cache return.               *)

LEMMA FrameFacts ==
  /\ \A m \in Msgs : MessageOf(m) \in Frame /\ AckOf(m) \in Frame
  /\ \A m \in Msgs : MessageOf(m).msg = m /\ MessageOf(m).kind = "Message"
  /\ \A m \in Msgs : AckOf(m).msg = m /\ AckOf(m).kind = "Ack"
  /\ \A f \in Frame : f.msg \in Msgs /\ f.kind \in {"Message", "Ack"}
  /\ \A f \in Frame : f.kind = "Message" => f = MessageOf(f.msg)
  /\ \A f \in Frame : f.kind = "Ack" => f = AckOf(f.msg)
  BY DEF Frame, MessageOf, AckOf

LEMMA StoredIs ==
  ASSUME NEW entries \in Seq(Cached), Len(entries) <= CAPACITY,
         NEW f \in Frame, NEW ttl \in 1 .. HOPS
  PROVE  LET stored == Stored(entries, f, ttl)
         IN  /\ stored \in Seq(Cached)
             /\ Len(stored) <= CAPACITY
             /\ \A j \in DOMAIN stored :
                  \/ stored[j].frame = f /\ stored[j].age = 0
                  \/ \E i \in DOMAIN entries : stored[j] = entries[i]
  <1> DEFINE e == [frame |-> f, ttl |-> ttl, age |-> 0]
             room == IF Len(entries) >= CAPACITY THEN Tail(entries) ELSE entries
             stored == Append(room, e)
  <1>1. CAPACITY \in Nat \ {0} /\ TTL \in Nat
    BY DeliveryAssumption
  <1>2. e \in Cached /\ e.frame = f /\ e.age = 0
    BY <1>1 DEF Cached
  <1>3. /\ room \in Seq(Cached) /\ Len(room) < CAPACITY
        /\ \A j \in 1 .. Len(room) : \E i \in DOMAIN entries : room[j] = entries[i]
    <2>1. CASE Len(entries) >= CAPACITY
      <3>1. entries # << >> /\ room = Tail(entries)
        BY <1>1, <2>1
      <3>2. Tail(entries) \in Seq(Cached) /\ Len(Tail(entries)) = Len(entries) - 1
        BY <3>1
      <3>3. ASSUME NEW j \in 1 .. Len(Tail(entries))
            PROVE  j + 1 \in DOMAIN entries /\ Tail(entries)[j] = entries[j + 1]
        <4>1. j + 1 \in 1 .. Len(entries)
          BY <3>2
        <4>2. \A i \in 1 .. Len(Tail(entries)) : Tail(entries)[i] = entries[i + 1]
          BY <3>1, HeadTailProperties
        <4> QED
          BY <4>1, <4>2
      <3> HIDE DEF room
      <3>4. Len(room) < CAPACITY
        BY <1>1, <3>1, <3>2
      <3> QED
        BY <3>1, <3>2, <3>3, <3>4
    <2>2. CASE Len(entries) < CAPACITY
      BY <1>1, <2>2
    <2> QED
      BY <1>1, <2>1, <2>2
  <1> HIDE DEF e, room
  <1>4. /\ stored \in Seq(Cached) /\ Len(stored) = Len(room) + 1
        /\ DOMAIN stored = 1 .. Len(room) + 1 /\ Len(room) \in Nat
        /\ \A j \in 1 .. Len(room) : stored[j] = room[j]
        /\ stored[Len(room) + 1] = e
    BY <1>2, <1>3
  <1>5. Stored(entries, f, ttl) = stored
    BY DEF Stored, e, room
  <1> HIDE DEF stored
  <1>6. ASSUME NEW j \in DOMAIN stored
        PROVE  \/ stored[j].frame = f /\ stored[j].age = 0
               \/ \E i \in DOMAIN entries : stored[j] = entries[i]
    <2>1. j \in 1 .. Len(room) \/ j = Len(room) + 1
      BY <1>4
    <2> QED
      BY <1>2, <1>3, <1>4, <2>1
  <1> QED
    BY <1>1, <1>3, <1>4, <1>5, <1>6

LEMMA LeftForIs ==
  ASSUME NEW entries \in Seq(Cached), NEW p
  PROVE  LET left == LeftFor(entries, p)
         IN  /\ left \in Seq(Cached)
             /\ Len(left) <= Len(entries)
             /\ \A j \in DOMAIN left :
                  \E i \in DOMAIN entries : To(entries[i].frame) # p /\ left[j] = entries[i]
  <1> DEFINE keep == {i \in DOMAIN entries : To(entries[i].frame) # p}
             left == Retained(entries, keep)
  <1>1. left \in Seq(Cached) /\ Len(left) <= Len(entries)
    BY RetainedIs, RetainedLength
  <1>2. \A i \in keep : To(entries[i].frame) # p
    OBVIOUS
  <1>3. LeftFor(entries, p) = left
    BY DEF LeftFor
  <1> HIDE DEF keep
  <1>4. \A j \in DOMAIN left : \E i \in DOMAIN entries : i \in keep /\ left[j] = entries[i]
    BY RetainedIs
  <1> HIDE DEF left
  <1> QED
    BY <1>1, <1>2, <1>3, <1>4

\* Nothing is dropped only if nothing was too old.
LEMMA UnexpiredIs ==
  ASSUME NEW entries \in Seq(Cached)
  PROVE  LET left == Unexpired(entries)
         IN  /\ left \in Seq(Cached)
             /\ Len(left) <= Len(entries)
             /\ \A j \in DOMAIN left : \E i \in DOMAIN entries : left[j] = entries[i]
             /\ left = entries => \A i \in DOMAIN entries : entries[i].age < TTL
  <1> DEFINE keep == {i \in DOMAIN entries : entries[i].age < TTL}
             left == Retained(entries, keep)
  <1>1. left \in Seq(Cached) /\ Len(left) <= Len(entries)
    BY RetainedIs, RetainedLength
  <1>2. \A i \in keep : entries[i].age < TTL
    OBVIOUS
  <1>3. Unexpired(entries) = left
    BY DEF Unexpired
  <1> HIDE DEF keep
  <1>4. \A j \in DOMAIN left : \E i \in DOMAIN entries : i \in keep /\ left[j] = entries[i]
    BY RetainedIs
  <1>5. left = entries => \A i \in DOMAIN entries : i \in keep
    BY RetainedLength
  <1> HIDE DEF left
  <1> QED
    BY <1>1, <1>2, <1>3, <1>4, <1>5
-----------------------------------------------------------------------------
(* What a step does to the caches and to the air.                           *)

\* An entry that is carried after a step was carried before, and its age goes with
\* that of its message, or is of a frame just heard.
Came(r, e) ==
  \/ /\ age' = age
     /\ \E i \in DOMAIN cache[r] : e = cache[r][i]
  \/ /\ Clock
     /\ \E i \in DOMAIN cache[r] :
          e.frame = cache[r][i].frame /\ cache[r][i].age < TTL /\ e.age = cache[r][i].age + 1
  \/ \E c \in air : Relay(r, c) /\ Keeps(r, c) /\ e.frame = c.frame /\ e.age = 0

Entries(r) ==
  /\ cache'[r] \in Seq(Cached) /\ Len(cache'[r]) <= CAPACITY
  /\ \A j \in DOMAIN cache'[r] : Came(r, cache'[r][j])

LEMMA Unmoved ==
  ASSUME TypeOK, NEW r \in Relays, cache'[r] = cache[r], age' = age
  PROVE  Entries(r)
  BY DEF TypeOK, Entries, Came

LEMMA AgedIs ==
  ASSUME TypeOK, Clock, NEW r \in Relays
  PROVE  Entries(r)
  <1>1. TTL \in Nat
    BY DeliveryAssumption
  <1>2. cache[r] \in Seq(Cached) /\ Len(cache[r]) <= CAPACITY
    BY DEF TypeOK
  <1>3. \A i \in DOMAIN cache[r] : cache[r][i].age < TTL
    BY <1>2, UnexpiredIs DEF Clock
  <1>4. cache'[r] = [i \in DOMAIN cache[r] |->
                       [cache[r][i] EXCEPT !.age = IF @ < TTL THEN @ + 1 ELSE TTL]]
    BY DEF Clock
  <1>5. ASSUME NEW i \in DOMAIN cache[r]
        PROVE  /\ cache'[r][i] \in Cached
               /\ cache'[r][i].frame = cache[r][i].frame
               /\ cache'[r][i].age = cache[r][i].age + 1
    <2>1. cache[r][i] \in Cached /\ cache[r][i].age < TTL
      BY <1>2, <1>3
    <2>2. cache'[r][i] = [frame |-> cache[r][i].frame, ttl |-> cache[r][i].ttl,
                          age |-> cache[r][i].age + 1]
      BY <1>4, <2>1 DEF Cached
    <2> QED
      BY <1>1, <2>1, <2>2 DEF Cached
  <1>6. cache'[r] \in Seq(Cached) /\ Len(cache'[r]) = Len(cache[r]) /\ DOMAIN cache'[r] = DOMAIN cache[r]
    <2>1. DOMAIN cache[r] = 1 .. Len(cache[r]) /\ Len(cache[r]) \in Nat
      BY <1>2
    <2>2. cache'[r] = [i \in 1 .. Len(cache[r]) |-> cache'[r][i]]
      BY <1>4, <2>1
    <2>3. cache'[r] \in [1 .. Len(cache[r]) -> Cached]
      BY <1>5, <2>1, <2>2
    <2> QED
      BY <2>1, <2>3
  <1> QED
    BY <1>2, <1>3, <1>5, <1>6 DEF Entries, Came

LEMMA RelayEntries ==
  ASSUME TypeOK, NEW c \in air, NEW r \in Relays, Relay(r, c), NEW q \in Relays
  PROVE  Entries(q)
  <1>1. age' = age
    BY DEF Relay
  <1>2. CASE Keeps(r, c) /\ q = r
    <2>1. cache'[r] = Stored(cache[r], c.frame, c.ttl - 1)
      BY <1>2 DEF Relay, TypeOK
    <2>2. cache[r] \in Seq(Cached) /\ Len(cache[r]) <= CAPACITY
      BY DEF TypeOK
    <2>3. c.frame \in Frame /\ c.ttl - 1 \in 1 .. HOPS
      BY DeliveryAssumption DEF TypeOK, Copy, Relay
    <2>4. /\ cache'[r] \in Seq(Cached) /\ Len(cache'[r]) <= CAPACITY
          /\ \A j \in DOMAIN cache'[r] :
               \/ cache'[r][j].frame = c.frame /\ cache'[r][j].age = 0
               \/ \E i \in DOMAIN cache[r] : cache'[r][j] = cache[r][i]
      BY <2>1, <2>2, <2>3, StoredIs
    <2>5. ASSUME NEW j \in DOMAIN cache'[r] PROVE Came(r, cache'[r][j])
      BY <1>1, <1>2, <2>4 DEF Came
    <2> QED
      BY <1>2, <2>4, <2>5 DEF Entries
  <1>3. CASE ~(Keeps(r, c) /\ q = r)
    <2>1. cache'[q] = cache[q]
      BY <1>3 DEF Relay, TypeOK
    <2> QED
      BY <1>1, <2>1, Unmoved
  <1> QED
    BY <1>2, <1>3
LEMMA DiscoverEntries ==
  ASSUME TypeOK, NEW r \in Relays, NEW p \in {Sender, Recipient}, Discover(r, p), NEW q \in Relays
  PROVE  Entries(q)
  <1>1. age' = age
    BY DEF Discover
  <1>2. CASE q = r
    <2>1. cache'[r] = LeftFor(cache[r], p)
      BY DEF Discover, TypeOK
    <2>2. cache[r] \in Seq(Cached) /\ Len(cache[r]) <= CAPACITY
      BY DEF TypeOK
    <2>3. CAPACITY \in Nat
      BY DeliveryAssumption
    <2>4. /\ cache'[r] \in Seq(Cached) /\ Len(cache'[r]) <= Len(cache[r])
          /\ \A j \in DOMAIN cache'[r] : \E i \in DOMAIN cache[r] : cache'[r][j] = cache[r][i]
      BY <2>1, <2>2, LeftForIs
    <2>5. Len(cache'[r]) <= CAPACITY
      BY <2>2, <2>3, <2>4
    <2> QED
      BY <1>1, <1>2, <2>4, <2>5 DEF Entries, Came
  <1>3. CASE q # r
    <2>1. cache'[q] = cache[q]
      BY <1>3 DEF Discover, TypeOK
    <2> QED
      BY <1>1, <2>1, Unmoved
  <1> QED
    BY <1>2, <1>3

LEMMA ExpireEntries ==
  ASSUME TypeOK, NEW r \in Relays, ExpireCarried(r), NEW q \in Relays
  PROVE  Entries(q)
  <1>1. age' = age
    BY DEF ExpireCarried
  <1>2. CASE q = r
    <2>1. cache'[r] = Unexpired(cache[r])
      BY DEF ExpireCarried, TypeOK
    <2>2. cache[r] \in Seq(Cached) /\ Len(cache[r]) <= CAPACITY
      BY DEF TypeOK
    <2>3. CAPACITY \in Nat
      BY DeliveryAssumption
    <2>4. /\ cache'[r] \in Seq(Cached) /\ Len(cache'[r]) <= Len(cache[r])
          /\ \A j \in DOMAIN cache'[r] : \E i \in DOMAIN cache[r] : cache'[r][j] = cache[r][i]
      BY <2>1, <2>2, UnexpiredIs
    <2>5. Len(cache'[r]) <= CAPACITY
      BY <2>2, <2>3, <2>4
    <2> QED
      BY <1>1, <1>2, <2>4, <2>5 DEF Entries, Came
  <1>3. CASE q # r
    <2>1. cache'[q] = cache[q]
      BY <1>3 DEF ExpireCarried, TypeOK
    <2> QED
      BY <1>1, <2>1, Unmoved
  <1> QED
    BY <1>2, <1>3

\* Every other step leaves the caches as they are.
LEMMA EntriesComeFrom ==
  ASSUME TypeOK, [Next]_vars, NEW q \in Relays
  PROVE  Entries(q)
  <1>1. ASSUME NEW m \in Msgs, Send(m) \/ Retry(m) \/ Expire(m) \/ Evict(m) PROVE Entries(q)
    BY <1>1, Unmoved DEF Send, Retry, Expire, Evict
  <1>2. ASSUME NEW c \in air, HearNothingNew(c) \/ Receive(c) \/ ReceiveAck(c) PROVE Entries(q)
    BY <1>2, Unmoved DEF HearNothingNew, Receive, ReceiveAck
  <1>3. ASSUME NEW c \in air, NEW r \in Relays, Relay(r, c) PROVE Entries(q)
    BY <1>3, RelayEntries
  <1>4. ASSUME NEW c \in air, NEW r \in Relays, RelayEnds(r, c) PROVE Entries(q)
    BY <1>4, Unmoved DEF RelayEnds
  <1>5. ASSUME NEW r \in Relays, NEW p \in {Sender, Recipient}, Discover(r, p) PROVE Entries(q)
    BY <1>5, DiscoverEntries
  <1>6. ASSUME NEW r \in Relays, NEW p \in {Sender, Recipient}, PeerLost(r, p) PROVE Entries(q)
    BY <1>6, Unmoved DEF PeerLost
  <1>7. ASSUME NEW r \in Relays, ExpireCarried(r) PROVE Entries(q)
    BY <1>7, ExpireEntries
  <1>8. ASSUME NEW n \in Forgetful, NEW f \in seen[n], Forget(n, f) PROVE Entries(q)
    BY <1>8, Unmoved DEF Forget
  <1>9. CASE Clock
    BY <1>9, AgedIs
  <1>10. CASE UNCHANGED vars
    BY <1>10, Unmoved DEF vars
  <1> QED
    BY <1>1, <1>2, <1>3, <1>4, <1>5, <1>6, <1>7, <1>8, <1>9, <1>10 DEF Next

\* A copy on the air after a step is a copy of what was there, or of what was
\* carried, or of a message that may still be sent, or of the ack of one that is
\* in the inbox.
Aired(c) ==
  /\ c \in Copy
  /\ age' = age
  /\ \/ \E d \in air : c.frame = d.frame
     \/ \E r \in Relays : \E i \in DOMAIN cache[r] : c.frame = cache[r][i].frame
     \/ \E m \in Msgs : /\ c.frame = MessageOf(m)
                       /\ status'[m] = "waiting"
                       /\ \/ age[m] < DEADLINE
                          \/ status[m] = "new"
     \/ \E m \in Msgs : c.frame = AckOf(m) /\ inbox'[m] > 0

LEMMA CopiesComeFrom ==
  ASSUME TypeOK, [Next]_vars, NEW c \in air'
  PROVE  Aired(c)
  <1>0. HOPS \in Nat \ {0} /\ air \subseteq Copy
    BY DeliveryAssumption DEF TypeOK
  <1>u. ASSUME air' = air, age' = age PROVE Aired(c)
    BY <1>0, <1>u DEF Aired
  <1>m. ASSUME NEW m \in Msgs, air' = air \cup {[frame |-> MessageOf(m), ttl |-> HOPS]}, age' = age,
               status'[m] = "waiting", age[m] < DEADLINE \/ status[m] = "new"
        PROVE  Aired(c)
    <2>1. CASE c = [frame |-> MessageOf(m), ttl |-> HOPS]
      BY <1>0, <1>m, <2>1, FrameFacts DEF Aired, Copy
    <2> QED
      BY <1>0, <1>m, <2>1 DEF Aired
  <1>1. ASSUME NEW m \in Msgs, Send(m) PROVE Aired(c)
    BY <1>1, <1>m DEF Send, TypeOK
  <1>2. ASSUME NEW m \in Msgs, Retry(m) PROVE Aired(c)
    BY <1>2, <1>m DEF Retry
  <1>3. ASSUME NEW m \in Msgs, Expire(m) \/ Evict(m) PROVE Aired(c)
    BY <1>3, <1>u DEF Expire, Evict
  <1>4. ASSUME NEW d \in air, HearNothingNew(d) \/ ReceiveAck(d) PROVE Aired(c)
    BY <1>4, <1>u DEF HearNothingNew, ReceiveAck
  <1>5. ASSUME NEW d \in air, Receive(d) PROVE Aired(c)
    <2>1. d.frame.msg \in Msgs /\ age' = age
      BY <1>0, <1>5, FrameFacts DEF Copy, Receive
    <2>2. inbox'[d.frame.msg] > 0
      BY <1>5, <2>1 DEF Receive, TypeOK
    <2>3. CASE c = [frame |-> AckOf(d.frame.msg), ttl |-> HOPS]
      BY <1>0, <2>1, <2>2, <2>3, FrameFacts DEF Aired, Copy
    <2>4. CASE c \in air
      BY <1>0, <2>1, <2>4 DEF Aired
    <2> QED
      BY <1>5, <2>3, <2>4 DEF Receive
  <1>6. ASSUME NEW d \in air, NEW r \in Relays, Relay(r, d) PROVE Aired(c)
    <2>1. d \in Copy /\ age' = age /\ d.ttl > 1
      BY <1>0, <1>6 DEF Relay
    <2>2. CASE c = [d EXCEPT !.ttl = @ - 1]
      <3>1. c = [frame |-> d.frame, ttl |-> d.ttl - 1]
        BY <2>1, <2>2 DEF Copy
      <3> QED
        BY <1>0, <2>1, <3>1 DEF Aired, Copy
    <2>3. CASE c \in air
      BY <1>0, <2>1, <2>3 DEF Aired
    <2> QED
      BY <1>6, <2>2, <2>3 DEF Relay
  <1>7. ASSUME NEW d \in air, NEW r \in Relays, RelayEnds(r, d) PROVE Aired(c)
    BY <1>7, <1>u DEF RelayEnds
  <1>8. ASSUME NEW r \in Relays, NEW p \in {Sender, Recipient}, Discover(r, p) PROVE Aired(c)
    <2>1. age' = age /\ cache[r] \in Seq(Cached)
      BY <1>8 DEF Discover, TypeOK
    <2>2. CASE c \in TakenFor(cache[r], p)
      <3>1. PICK i \in DOMAIN cache[r] : c = [frame |-> cache[r][i].frame, ttl |-> cache[r][i].ttl]
        BY <2>2 DEF TakenFor
      <3>2. cache[r][i] \in Cached
        BY <2>1
      <3> QED
        BY <2>1, <3>1, <3>2 DEF Aired, Copy, Cached
    <2>3. CASE c \in air
      BY <1>0, <2>1, <2>3 DEF Aired
    <2> QED
      BY <1>8, <2>2, <2>3 DEF Discover
  <1>9. ASSUME NEW r \in Relays, NEW p \in {Sender, Recipient}, PeerLost(r, p) PROVE Aired(c)
    BY <1>9, <1>u DEF PeerLost
  <1>10. ASSUME NEW r \in Relays, ExpireCarried(r) PROVE Aired(c)
    BY <1>10, <1>u DEF ExpireCarried
  <1>11. ASSUME NEW n \in Forgetful, NEW f \in seen[n], Forget(n, f) PROVE Aired(c)
    BY <1>11, <1>u DEF Forget
  <1>12. CASE Clock
    BY <1>12 DEF Clock
  <1>13. CASE UNCHANGED vars
    BY <1>13, <1>u DEF vars
  <1> QED
    BY <1>1, <1>2, <1>3, <1>4, <1>5, <1>6, <1>7, <1>8, <1>9, <1>10, <1>11, <1>12, <1>13 DEF Next
-----------------------------------------------------------------------------
(* The invariant is inductive.                                              *)

LEMMA CachesStay ==
  ASSUME TypeOK, [Next]_vars
  PROVE  cache' \in [Relays -> Seq(Cached)] /\ \A r \in Relays : Len(cache'[r]) <= CAPACITY
  <1> DEFINE Total == cache' = [r \in Relays |-> cache'[r]]
  <1>1. cache = [r \in Relays |-> cache[r]]
    BY DEF TypeOK
  <1>2. ASSUME NEW m \in Msgs, Send(m) \/ Retry(m) \/ Expire(m) \/ Evict(m) PROVE Total
    BY <1>1, <1>2 DEF Send, Retry, Expire, Evict
  <1>3. ASSUME NEW c \in air, HearNothingNew(c) \/ Receive(c) \/ ReceiveAck(c) PROVE Total
    BY <1>1, <1>3 DEF HearNothingNew, Receive, ReceiveAck
  <1>4. ASSUME NEW c \in air, NEW r \in Relays, Relay(r, c) PROVE Total
    <2>1. CASE Keeps(r, c)
      BY <1>1, <1>4, <2>1 DEF Relay
    <2>2. CASE ~Keeps(r, c)
      BY <1>1, <1>4, <2>2 DEF Relay
    <2> QED
      BY <2>1, <2>2
  <1>5. ASSUME NEW c \in air, NEW r \in Relays, RelayEnds(r, c) PROVE Total
    BY <1>1, <1>5 DEF RelayEnds
  <1>6. ASSUME NEW r \in Relays, NEW p \in {Sender, Recipient}, Discover(r, p) \/ PeerLost(r, p)
        PROVE  Total
    BY <1>1, <1>6 DEF Discover, PeerLost
  <1>7. ASSUME NEW r \in Relays, ExpireCarried(r) PROVE Total
    BY <1>1, <1>7 DEF ExpireCarried
  <1>8. ASSUME NEW n \in Forgetful, NEW f \in seen[n], Forget(n, f) PROVE Total
    BY <1>1, <1>8 DEF Forget
  <1>9. ASSUME Clock PROVE Total
    <2> DEFINE aged(r) == [i \in DOMAIN cache[r] |->
                             [cache[r][i] EXCEPT !.age = IF @ < TTL THEN @ + 1 ELSE TTL]]
    <2>1. cache' = [r \in Relays |-> aged(r)]
      BY <1>9 DEF Clock
    <2> HIDE DEF aged
    <2> QED
      BY <2>1
  <1>10. ASSUME UNCHANGED vars PROVE Total
    <2>1. cache' = cache
      BY <1>10 DEF vars
    <2> QED
      BY <1>1, <2>1
  <1>11. Total
    BY <1>2, <1>3, <1>4, <1>5, <1>6, <1>7, <1>8, <1>9, <1>10 DEF Next
  <1>12. \A r \in Relays : cache'[r] \in Seq(Cached) /\ Len(cache'[r]) <= CAPACITY
    BY EntriesComeFrom DEF Entries
  <1> QED
    BY <1>11, <1>12

LEMMA TypesStay ==
  ASSUME TypeOK, [Next]_vars
  PROVE  TypeOK'
  <1>0. /\ air' \subseteq Copy
        /\ cache' \in [Relays -> Seq(Cached)]
        /\ \A r \in Relays : Len(cache'[r]) <= CAPACITY
    BY CopiesComeFrom, CachesStay DEF Aired
  <1> DEFINE Rest ==
               /\ status' \in [Msgs -> {"new", "waiting", "delivered", "expired", "lost"}]
               /\ age' \in [Msgs -> 0 .. MaxAge]
               /\ seen' \in [Nodes -> SUBSET Frame]
               /\ admitted' \subseteq Frame
               /\ inbox' \in [Msgs -> Nat]
               /\ table' \in [Relays -> SUBSET {Sender, Recipient}]
  <1>1. ASSUME NEW m \in Msgs, Send(m) PROVE Rest
    BY <1>1, FrameFacts DEF Send, TypeOK, Nodes
  <1>2. ASSUME NEW m \in Msgs, Retry(m) \/ Expire(m) \/ Evict(m) PROVE Rest
    BY <1>2 DEF Retry, Expire, Evict, TypeOK
  <1>3. ASSUME NEW c \in air PROVE c.frame \in Frame /\ c.frame.msg \in Msgs
    BY FrameFacts DEF TypeOK, Copy
  <1>4. ASSUME NEW n, NEW c \in air, Hears(n, c) PROVE seen' \in [Nodes -> SUBSET Frame]
    BY <1>3, <1>4 DEF Hears, TypeOK
  <1>5. ASSUME NEW c \in air, HearNothingNew(c) PROVE Rest
    BY <1>4, <1>5 DEF HearNothingNew, TypeOK
  <1>6. ASSUME NEW c \in air, Receive(c) PROVE Rest
    BY <1>3, <1>4, <1>6 DEF Receive, TypeOK
  <1>7. ASSUME NEW c \in air, ReceiveAck(c) PROVE Rest
    BY <1>3, <1>4, <1>7 DEF ReceiveAck, TypeOK
  <1>8. ASSUME NEW c \in air, NEW r \in Relays, Relay(r, c) \/ RelayEnds(r, c) PROVE Rest
    BY <1>4, <1>8 DEF Relay, RelayEnds, TypeOK
  <1>9. ASSUME NEW r \in Relays, NEW p \in {Sender, Recipient}, Discover(r, p) \/ PeerLost(r, p)
        PROVE  Rest
    BY <1>9 DEF Discover, PeerLost, TypeOK
  <1>10. ASSUME NEW r \in Relays, ExpireCarried(r) PROVE Rest
    BY <1>10 DEF ExpireCarried, TypeOK
  <1>11. ASSUME NEW n \in Forgetful, NEW f \in seen[n], Forget(n, f) PROVE Rest
    BY <1>11 DEF Forget, TypeOK
  <1>12. ASSUME Clock PROVE Rest
    <2>1. MaxAge \in Nat
      BY DeliveryAssumption, FS_CardinalityType DEF MaxAge
    <2>2. ASSUME NEW m \in Msgs PROVE age'[m] \in 0 .. MaxAge
      BY <1>12, <2>1 DEF Clock, TypeOK
    <2>3. age' = [m \in Msgs |-> age'[m]]
      BY <1>12 DEF Clock
    <2>4. age' \in [Msgs -> 0 .. MaxAge]
      BY <2>2, <2>3
    <2> QED
      BY <1>12, <2>4 DEF Clock, TypeOK
  <1>13. ASSUME UNCHANGED vars PROVE Rest
    BY <1>13 DEF vars, TypeOK
  <1> HIDE DEF Rest
  <1>14. Rest
    BY <1>1, <1>2, <1>5, <1>6, <1>7, <1>8, <1>9, <1>10, <1>11, <1>12, <1>13 DEF Next
  <1> QED
    BY <1>0, <1>14 DEF Rest, TypeOK

\* What was sent stays sent, and what is in the inbox stays there.
LEMMA NothingUndone ==
  ASSUME TypeOK, [Next]_vars, NEW m \in Msgs
  PROVE  /\ status[m] # "new" => status'[m] # "new"
         /\ inbox[m] > 0 => inbox'[m] > 0
  <1>1. inbox[m] \in Nat
    BY DEF TypeOK
  <1> DEFINE Goal == /\ status[m] # "new" => status'[m] # "new"
                     /\ inbox[m] > 0 => inbox'[m] > 0
  <1>2. ASSUME NEW k \in Msgs, Send(k) \/ Retry(k) \/ Expire(k) \/ Evict(k) PROVE Goal
    BY <1>1, <1>2 DEF Send, Retry, Expire, Evict, TypeOK
  <1>3. ASSUME NEW c \in air, Receive(c) PROVE Goal
    BY <1>1, <1>3 DEF Receive, TypeOK
  <1>4. ASSUME NEW c \in air, HearNothingNew(c) \/ ReceiveAck(c) PROVE Goal
    BY <1>1, <1>4 DEF HearNothingNew, ReceiveAck, TypeOK
  <1>5. ASSUME NEW c \in air, NEW r \in Relays, Relay(r, c) \/ RelayEnds(r, c) PROVE Goal
    BY <1>5 DEF Relay, RelayEnds
  <1>6. ASSUME NEW r \in Relays, NEW p \in {Sender, Recipient}, Discover(r, p) \/ PeerLost(r, p)
        PROVE  Goal
    BY <1>6 DEF Discover, PeerLost
  <1>7. CASE \/ \E r \in Relays : ExpireCarried(r)
             \/ \E n \in Forgetful : \E f \in seen[n] : Forget(n, f)
             \/ Clock \/ UNCHANGED vars
    BY <1>7 DEF ExpireCarried, Forget, Clock, vars
  <1> QED
    BY <1>2, <1>3, <1>4, <1>5, <1>6, <1>7 DEF Next

LEMMA SealedStays ==
  ASSUME TypeOK, Sealed, [Next]_vars
  PROVE  Sealed'
  <1>1. TypeOK'
    BY TypesStay
  <1>2. ASSUME NEW f \in Frame, Sent(f) PROVE Sent(f)'
    BY <1>2, NothingUndone, FrameFacts DEF Sent
  <1>3. ASSUME NEW c \in air PROVE c.frame \in Frame /\ Sent(c.frame)
    BY DEF TypeOK, Copy, Sealed
  <1>4. ASSUME NEW r \in Relays, NEW i \in DOMAIN cache[r]
        PROVE  cache[r][i].frame \in Frame /\ Sent(cache[r][i].frame)
    <2>1. cache[r] \in Seq(Cached)
      BY DEF TypeOK
    <2>2. cache[r][i] \in Cached
      BY <2>1
    <2> QED
      BY <2>2 DEF Cached, Sealed
  <1>5. ASSUME NEW c \in air' PROVE Sent(c.frame)'
    <2>1. Aired(c)
      BY CopiesComeFrom
    <2>2. ASSUME NEW m \in Msgs, c.frame = MessageOf(m), status'[m] = "waiting" PROVE Sent(c.frame)'
      BY <2>2, FrameFacts DEF Sent
    <2>3. ASSUME NEW m \in Msgs, c.frame = AckOf(m), inbox'[m] > 0 PROVE Sent(c.frame)'
      BY <2>3, FrameFacts DEF Sent
    <2> QED
      BY <1>2, <1>3, <1>4, <2>1, <2>2, <2>3 DEF Aired
  <1>6. ASSUME NEW r \in Relays, NEW j \in DOMAIN cache'[r] PROVE Sent(cache[r][j].frame)'
    <2>1. Came(r, cache'[r][j])
      BY EntriesComeFrom DEF Entries
    <2>2. \E f \in Frame : Sent(f) /\ cache'[r][j].frame = f
      BY <1>3, <1>4, <2>1 DEF Came
    <2> QED
      BY <1>2, <2>2
  <1> QED
    BY <1>5, <1>6 DEF Sealed

LEMMA OnceStays ==
  ASSUME TypeOK, Once, [Next]_vars, Sealed
  PROVE  Once'
  <1>0. ASSUME NEW m \in Msgs
        PROVE  /\ MessageOf(m) \in admitted => inbox[m] = 1
               /\ MessageOf(m) \notin admitted => inbox[m] = 0
               /\ status[m] = "new" => inbox[m] = 0 /\ age[m] = 0
    BY DEF Once
  <1> DEFINE Good(m) ==
               /\ MessageOf(m) \in admitted' => inbox'[m] = 1
               /\ MessageOf(m) \notin admitted' => inbox'[m] = 0
               /\ status'[m] = "new" => inbox'[m] = 0 /\ age'[m] = 0
  <1> SUFFICES ASSUME NEW m \in Msgs PROVE Good(m)
    BY DEF Once, MessageOf
  <1>1. ASSUME NEW k \in Msgs, Send(k) \/ Retry(k) \/ Expire(k) \/ Evict(k) PROVE Good(m)
    BY <1>0, <1>1 DEF Send, Retry, Expire, Evict, TypeOK
  <1>2. ASSUME NEW c \in air, Receive(c) PROVE Good(m)
    <2>1. c.frame = MessageOf(c.frame.msg) /\ c.frame.msg \in Msgs
      BY <1>2, FrameFacts DEF Receive, TypeOK, Copy
    <2>2. status[c.frame.msg] # "new"
      BY <1>2 DEF Sealed, Sent, Receive
    <2>3. CASE m = c.frame.msg
      BY <1>0, <1>2, <2>1, <2>2, <2>3 DEF Receive, TypeOK
    <2>4. CASE m # c.frame.msg
      <3>1. MessageOf(m) # c.frame
        BY <2>1, <2>4, FrameFacts
      <3> QED
        BY <1>0, <1>2, <2>4, <3>1 DEF Receive, TypeOK
    <2> QED
      BY <2>3, <2>4
  <1>3. ASSUME NEW c \in air, ReceiveAck(c) PROVE Good(m)
    <2>1. MessageOf(m) # c.frame
      BY <1>3, FrameFacts DEF ReceiveAck
    <2>2. status'[m] = "new" => status[m] = "new"
      BY <1>3 DEF ReceiveAck, TypeOK
    <2> QED
      BY <1>0, <1>3, <2>1, <2>2 DEF ReceiveAck
  <1>4. ASSUME NEW c \in air, HearNothingNew(c) PROVE Good(m)
    BY <1>0, <1>4 DEF HearNothingNew
  <1>5. ASSUME NEW c \in air, NEW r \in Relays, Relay(r, c) \/ RelayEnds(r, c) PROVE Good(m)
    BY <1>0, <1>5 DEF Relay, RelayEnds
  <1>6. ASSUME NEW r \in Relays, NEW p \in {Sender, Recipient}, Discover(r, p) \/ PeerLost(r, p)
        PROVE  Good(m)
    BY <1>0, <1>6 DEF Discover, PeerLost
  <1>7. CASE \/ \E r \in Relays : ExpireCarried(r)
             \/ \E n \in Forgetful : \E f \in seen[n] : Forget(n, f)
             \/ UNCHANGED vars
    BY <1>0, <1>7 DEF ExpireCarried, Forget, vars
  <1>8. CASE Clock
    BY <1>0, <1>8 DEF Clock
  <1> QED
    BY <1>1, <1>2, <1>3, <1>4, <1>5, <1>6, <1>7, <1>8 DEF Next

LEMMA AbsentStays ==
  ASSUME TypeOK, Absent, [Next]_vars
  PROVE  Absent'
  <1>1. ASSUME \A r \in Relays : table'[r] \subseteq table[r] PROVE Absent'
    <2>1. ASSUME NEW r \in Relays, NEW j \in DOMAIN cache'[r]
          PROVE  To(cache'[r][j].frame) \notin table[r]
      <3>1. Came(r, cache'[r][j])
        BY EntriesComeFrom DEF Entries
      <3>2. \A i \in DOMAIN cache[r] : To(cache[r][i].frame) \notin table[r]
        BY DEF Absent
      <3> QED
        BY <3>1, <3>2 DEF Came, Keeps
    <2> QED
      BY <1>1, <2>1 DEF Absent
  <1>2. ASSUME NEW r \in Relays, NEW p \in {Sender, Recipient}, Discover(r, p) PROVE Absent'
    <2>1. cache[r] \in Seq(Cached) /\ cache'[r] = LeftFor(cache[r], p) /\ table'[r] = table[r] \cup {p}
      BY <1>2 DEF Discover, TypeOK
    <2>2. ASSUME NEW j \in DOMAIN cache'[r] PROVE To(cache'[r][j].frame) \notin table'[r]
      <3>1. PICK i \in DOMAIN cache[r] : To(cache[r][i].frame) # p /\ cache'[r][j] = cache[r][i]
        <4> DEFINE entries == cache[r]
                   left == cache'[r]
        <4>1. entries \in Seq(Cached) /\ left = LeftFor(entries, p)
          BY <2>1
        <4> HIDE DEF entries, left
        <4>2. \A k \in DOMAIN left :
                \E i \in DOMAIN entries : To(entries[i].frame) # p /\ left[k] = entries[i]
          BY <4>1, LeftForIs
        <4> QED
          BY <4>2 DEF entries, left
      <3> QED
        BY <2>1, <3>1 DEF Absent
    <2>3. ASSUME NEW q \in Relays, q # r PROVE cache'[q] = cache[q] /\ table'[q] = table[q]
      BY <1>2, <2>3 DEF Discover, TypeOK
    <2> QED
      BY <2>2, <2>3 DEF Absent
  <1>3. ASSUME NEW r \in Relays, NEW p \in {Sender, Recipient}, PeerLost(r, p) PROVE Absent'
    BY <1>1, <1>3 DEF PeerLost, TypeOK
  <1>4. ASSUME NEW m \in Msgs, Send(m) \/ Retry(m) \/ Expire(m) \/ Evict(m) PROVE Absent'
    BY <1>1, <1>4 DEF Send, Retry, Expire, Evict
  <1>5. ASSUME NEW c \in air, HearNothingNew(c) \/ Receive(c) \/ ReceiveAck(c) PROVE Absent'
    BY <1>1, <1>5 DEF HearNothingNew, Receive, ReceiveAck
  <1>6. ASSUME NEW c \in air, NEW r \in Relays, Relay(r, c) \/ RelayEnds(r, c) PROVE Absent'
    BY <1>1, <1>6 DEF Relay, RelayEnds
  <1>7. CASE \/ \E r \in Relays : ExpireCarried(r)
             \/ \E n \in Forgetful : \E f \in seen[n] : Forget(n, f)
             \/ Clock \/ UNCHANGED vars
    BY <1>1, <1>7 DEF ExpireCarried, Forget, Clock, vars
  <1> QED
    BY <1>2, <1>3, <1>4, <1>5, <1>6, <1>7 DEF Next
\* The inductive invariant holds in every reachable state.
THEOREM DeliveryInvariant == Spec => []IInv
  <1>1. Init => IInv
    <2>1. MaxAge \in Nat
      BY DeliveryAssumption, FS_CardinalityType DEF MaxAge
    <2> SUFFICES ASSUME Init PROVE IInv
      OBVIOUS
    <2>2. TypeOK
      BY <2>1, DeliveryAssumption DEF Init, TypeOK
    <2>3. Absent /\ Sealed
      BY DEF Init, Absent, Sealed
    <2>4. Once
      BY DEF Init, Once
    <2> QED
      BY <2>2, <2>3, <2>4 DEF IInv
  <1>2. IInv /\ [Next]_vars => IInv'
    BY TypesStay, AbsentStays, SealedStays, OnceStays DEF IInv
  <1> QED
    BY <1>1, <1>2, PTL DEF Spec

\* A relay carries nothing for a peer it can see, and never more than CAPACITY
\* frames, whatever it hears, finds and loses (relaycache.rs, "What is held, and what
\* is not").
THEOREM RelaysCarryForAbsentPeers == Spec => []CarriesOnlyForAbsent
  <1>1. IInv => CarriesOnlyForAbsent
    BY DEF IInv, Absent, CarriesOnlyForAbsent
  <1> QED
    BY <1>1, DeliveryInvariant, PTL

-----------------------------------------------------------------------------
(* What the two users see is a Mailbox.                                     *)

Receipts == [m \in Msgs |-> IF status[m] \in {"delivered", "expired"} THEN status[m] ELSE "none"]
SentMsgs == {m \in Msgs : status[m] # "new"}

\* Steps that change neither what is sent nor the inbox nor a receipt.
LEMMA Unseen ==
  ASSUME status' = status, inbox' = inbox
  PROVE  UNCHANGED <<SentMsgs, inbox, Receipts>>
  BY DEF SentMsgs, Receipts

LEMMA MailboxStep ==
  ASSUME IInv, [Next]_vars
  PROVE  \/ UNCHANGED <<SentMsgs, inbox, Receipts>>
         \/ \E m \in Msgs :
              \/ /\ m \notin SentMsgs /\ SentMsgs' = SentMsgs \cup {m}
                 /\ UNCHANGED <<inbox, Receipts>>
              \/ /\ m \in SentMsgs /\ inbox[m] = 0
                 /\ inbox' = [inbox EXCEPT ![m] = 1]
                 /\ UNCHANGED <<SentMsgs, Receipts>>
              \/ /\ inbox[m] > 0 /\ Receipts[m] = "none"
                 /\ Receipts' = [Receipts EXCEPT ![m] = "delivered"]
                 /\ UNCHANGED <<SentMsgs, inbox>>
              \/ /\ m \in SentMsgs /\ Receipts[m] = "none"
                 /\ Receipts' = [Receipts EXCEPT ![m] = "expired"]
                 /\ UNCHANGED <<SentMsgs, inbox>>
  <1>0. TypeOK /\ Sealed /\ Once
    BY DEF IInv
  <1>1. ASSUME NEW m \in Msgs, Send(m)
        PROVE  /\ m \notin SentMsgs /\ SentMsgs' = SentMsgs \cup {m}
               /\ UNCHANGED <<inbox, Receipts>>
    <2>1. /\ status[m] = "new" /\ status'[m] = "waiting" /\ inbox' = inbox
          /\ \A k \in Msgs : k # m => status'[k] = status[k]
      BY <1>0, <1>1 DEF Send, TypeOK
    <2> QED
      BY <2>1 DEF SentMsgs, Receipts
  <1>2. ASSUME NEW m \in Msgs, Expire(m)
        PROVE  /\ m \in SentMsgs /\ Receipts[m] = "none"
               /\ Receipts' = [Receipts EXCEPT ![m] = "expired"]
               /\ UNCHANGED <<SentMsgs, inbox>>
    <2>1. /\ status[m] = "waiting" /\ status'[m] = "expired" /\ inbox' = inbox
          /\ \A k \in Msgs : k # m => status'[k] = status[k]
      BY <1>0, <1>2 DEF Expire, TypeOK
    <2> QED
      BY <2>1 DEF SentMsgs, Receipts
  <1>7. ASSUME NEW m \in Msgs, Evict(m)
        PROVE  \/ UNCHANGED <<SentMsgs, inbox, Receipts>>
               \/ /\ m \in SentMsgs /\ Receipts[m] = "none"
                  /\ Receipts' = [Receipts EXCEPT ![m] = "expired"]
                  /\ UNCHANGED <<SentMsgs, inbox>>
    <2>1. PICK outcome \in {"expired", "lost"} : status' = [status EXCEPT ![m] = outcome]
      BY <1>7 DEF Evict
    <2>2. /\ status[m] = "waiting" /\ status'[m] = outcome /\ inbox' = inbox
          /\ \A k \in Msgs : k # m => status'[k] = status[k]
      BY <1>0, <1>7, <2>1 DEF Evict, TypeOK
    <2>3. SentMsgs' = SentMsgs
      BY <2>2 DEF SentMsgs
    <2>4. CASE outcome = "lost"
      BY <2>2, <2>3, <2>4 DEF Receipts
    <2>5. CASE outcome = "expired"
      BY <2>2, <2>3, <2>5 DEF SentMsgs, Receipts
    <2> QED
      BY <2>4, <2>5
  <1>3. ASSUME NEW c \in air, Receive(c)
        PROVE  /\ c.frame.msg \in Msgs
               /\ c.frame.msg \in SentMsgs /\ inbox[c.frame.msg] = 0
               /\ inbox' = [inbox EXCEPT ![c.frame.msg] = 1]
               /\ UNCHANGED <<SentMsgs, Receipts>>
    <2>1. c.frame.msg \in Msgs /\ c.frame = MessageOf(c.frame.msg)
      BY <1>0, <1>3, FrameFacts DEF TypeOK, Copy, Receive
    <2>2. status[c.frame.msg] # "new" /\ inbox[c.frame.msg] = 0
      BY <1>0, <1>3, <2>1 DEF Sealed, Sent, Once, Receive
    <2>3. status' = status /\ inbox' = [inbox EXCEPT ![c.frame.msg] = 1]
      BY <1>0, <1>3, <2>1, <2>2 DEF Receive, TypeOK
    <2> QED
      BY <2>1, <2>2, <2>3 DEF SentMsgs, Receipts
  <1>4. ASSUME NEW c \in air, ReceiveAck(c), status[c.frame.msg] = "waiting"
        PROVE  /\ c.frame.msg \in Msgs
               /\ inbox[c.frame.msg] > 0 /\ Receipts[c.frame.msg] = "none"
               /\ Receipts' = [Receipts EXCEPT ![c.frame.msg] = "delivered"]
               /\ UNCHANGED <<SentMsgs, inbox>>
    <2>1. c.frame.msg \in Msgs
      BY <1>0, FrameFacts DEF TypeOK, Copy
    <2>2. inbox[c.frame.msg] > 0
      BY <1>0, <1>4 DEF Sealed, Sent, ReceiveAck
    <2>3. /\ status'[c.frame.msg] = "delivered" /\ inbox' = inbox
          /\ \A k \in Msgs : k # c.frame.msg => status'[k] = status[k]
      BY <1>0, <1>4, <2>1 DEF ReceiveAck, TypeOK
    <2> QED
      BY <1>4, <2>1, <2>2, <2>3 DEF SentMsgs, Receipts
  <1>5. ASSUME NEW c \in air, ReceiveAck(c), status[c.frame.msg] # "waiting"
        PROVE  UNCHANGED <<SentMsgs, inbox, Receipts>>
    <2>1. status' = status /\ inbox' = inbox
      BY <1>0, <1>5 DEF ReceiveAck, TypeOK
    <2> QED
      BY <2>1, Unseen
  <1>6. ASSUME \/ \E m \in Msgs : Retry(m)
               \/ \E c \in air : HearNothingNew(c)
               \/ \E c \in air, r \in Relays : Relay(r, c) \/ RelayEnds(r, c)
               \/ \E r \in Relays, p \in {Sender, Recipient} : Discover(r, p) \/ PeerLost(r, p)
               \/ \E r \in Relays : ExpireCarried(r)
               \/ \E n \in Forgetful : \E f \in seen[n] : Forget(n, f)
               \/ Clock \/ UNCHANGED vars
        PROVE  UNCHANGED <<SentMsgs, inbox, Receipts>>
    <2>1. status' = status /\ inbox' = inbox
      BY <1>6 DEF Retry, HearNothingNew, Relay, RelayEnds, Discover, PeerLost, ExpireCarried,
                  Forget, Clock, vars
    <2> QED
      BY <2>1, Unseen
  <1> QED
    BY <1>1, <1>2, <1>7, <1>3, <1>4, <1>5, <1>6 DEF Next

\* Whatever relays do and the air loses or repeats, no message is in the inbox twice,
\* and a receipt is honest and final: what the two users see of do_send, do_ingest,
\* accept and take_due is a behaviour of Mailbox.
THEOREM TwoUsersSeeAMailbox == Spec => ImplementsMailbox
  <1>1. Init => M!Init
    BY DEF Init, M!Init
  <1>2. IInv /\ [Next]_vars => [M!Next]_(M!mailboxVars)
    BY MailboxStep DEF SentMsgs, Receipts, M!Next, M!Send, M!Receive, M!Confirm, M!GiveUp,
                       M!mailboxVars
  <1> QED
    BY <1>1, <1>2, DeliveryInvariant, PTL DEF Spec, ImplementsMailbox, M!Spec
-----------------------------------------------------------------------------
(* No message comes later than its relays could have carried it, one after  *)
(* the other: each takes it once, for it remembers the id, and holds it for *)
(* less than TTL.  Every relay that knows the message pays for one TTL.      *)

LEMMA Multiples ==
  ASSUME NEW a \in Nat, NEW b \in Nat, a <= b, NEW t \in Nat
  PROVE  a * t \in Nat /\ a * t <= b * t /\ (a + 1) * t = a * t + t
  OBVIOUS

LEMMA ReachIs ==
  ASSUME NEW m \in Msgs
  PROVE  /\ IsFiniteSet(Knows(m)) /\ Cardinality(Knows(m)) \in Nat
         /\ Cardinality(Knows(m)) <= Cardinality(Relays)
         /\ Reach(m) \in Nat /\ DEADLINE <= Reach(m)
         /\ Reach(m) <= DEADLINE + Cardinality(Relays) * TTL
  <1>1. IsFiniteSet(Relays) /\ TTL \in Nat /\ DEADLINE \in Nat
    BY DeliveryAssumption
  <1>2. Knows(m) \in SUBSET Relays
    BY DEF Knows
  <1>3. /\ IsFiniteSet(Knows(m)) /\ Cardinality(Knows(m)) \in Nat
        /\ Cardinality(Relays) \in Nat
        /\ Cardinality(Knows(m)) <= Cardinality(Relays)
    BY <1>1, <1>2, FS_Subset, FS_CardinalityType
  <1>4. /\ Cardinality(Knows(m)) * TTL \in Nat
        /\ Cardinality(Knows(m)) * TTL <= Cardinality(Relays) * TTL
        /\ Cardinality(Relays) * TTL \in Nat
    BY <1>1, <1>3, Multiples
  <1> QED
    BY <1>1, <1>3, <1>4 DEF Reach

\* A relay that remembers goes on knowing the message.
LEMMA KnowsGrows ==
  ASSUME TypeOK, [Next]_vars, Forgetful \cap Relays = {}, NEW m \in Msgs
  PROVE  Knows(m) \subseteq Knows(m)'
  <1> DEFINE Grows == \A r \in Relays : seen[r] \subseteq seen'[r]
  <1>0. Relays \subseteq Nodes
    BY DEF Nodes
  <1>h. ASSUME NEW n, NEW c \in air, Hears(n, c) PROVE Grows
    BY <1>0, <1>h DEF Hears, TypeOK
  <1>1. ASSUME NEW k \in Msgs, Send(k) PROVE Grows
    BY <1>0, <1>1 DEF Send, TypeOK
  <1>2. ASSUME NEW k \in Msgs, Retry(k) \/ Expire(k) \/ Evict(k) PROVE Grows
    BY <1>2 DEF Retry, Expire, Evict
  <1>3. ASSUME NEW c \in air, HearNothingNew(c) \/ Receive(c) \/ ReceiveAck(c) PROVE Grows
    BY <1>h, <1>3 DEF HearNothingNew, Receive, ReceiveAck
  <1>4. ASSUME NEW c \in air, NEW r \in Relays, Relay(r, c) \/ RelayEnds(r, c) PROVE Grows
    BY <1>h, <1>4 DEF Relay, RelayEnds
  <1>5. ASSUME NEW r \in Relays, NEW p \in {Sender, Recipient}, Discover(r, p) \/ PeerLost(r, p)
        PROVE  Grows
    BY <1>5 DEF Discover, PeerLost
  <1>6. ASSUME NEW n \in Forgetful, NEW f \in seen[n], Forget(n, f) PROVE Grows
    BY <1>0, <1>6 DEF Forget, TypeOK
  <1>7. ASSUME (\E r \in Relays : ExpireCarried(r)) \/ Clock \/ UNCHANGED vars PROVE Grows
    BY <1>7 DEF ExpireCarried, Clock, vars
  <1>8. Grows
    BY <1>1, <1>2, <1>3, <1>4, <1>5, <1>6, <1>7 DEF Next
  <1> QED
    BY <1>8 DEF Knows, MessageOf

LEMMA ReachGrows ==
  ASSUME TypeOK, [Next]_vars, Forgetful \cap Relays = {}, NEW m \in Msgs
  PROVE  /\ Reach(m)' \in Nat
         /\ Reach(m) <= Reach(m)'
         /\ \A r \in Relays : r \notin Knows(m) /\ r \in Knows(m)' => Reach(m) + TTL <= Reach(m)'
  <1> DEFINE old == Knows(m)
             new == Knows(m)'
  <1>0. IsFiniteSet(Relays) /\ TTL \in Nat /\ DEADLINE \in Nat
    BY DeliveryAssumption
  <1>1. old \subseteq new /\ new \in SUBSET Relays
    BY KnowsGrows DEF Knows
  <1>2. IsFiniteSet(new)
    BY <1>0, <1>1, FS_Subset
  <1>3. Reach(m) = DEADLINE + Cardinality(old) * TTL /\ Reach(m)' = DEADLINE + Cardinality(new) * TTL
    BY DEF Reach
  <1> HIDE DEF old, new
  <1>4. /\ IsFiniteSet(old) /\ Cardinality(old) \in Nat /\ Cardinality(new) \in Nat
        /\ Cardinality(old) <= Cardinality(new)
    BY <1>1, <1>2, FS_Subset, FS_CardinalityType
  <1>5. /\ Cardinality(old) * TTL \in Nat /\ Cardinality(new) * TTL \in Nat
        /\ Cardinality(old) * TTL <= Cardinality(new) * TTL
    BY <1>0, <1>4, Multiples
  <1>6. ASSUME NEW r \in Relays, r \notin old, r \in new
        PROVE  Cardinality(old) * TTL + TTL <= Cardinality(new) * TTL
    <2>1. Cardinality(old \cup {r}) = Cardinality(old) + 1 /\ IsFiniteSet(old \cup {r})
      BY <1>4, <1>6, FS_AddElement
    <2>2. old \cup {r} \in SUBSET new
      BY <1>1, <1>6
    <2>3. Cardinality(old) + 1 <= Cardinality(new)
      BY <1>2, <2>1, <2>2, FS_Subset
    <2>4. (Cardinality(old) + 1) * TTL <= Cardinality(new) * TTL
      BY <1>0, <1>4, <2>3, Multiples
    <2>5. (Cardinality(old) + 1) * TTL = Cardinality(old) * TTL + TTL
      BY <1>0, <1>4, Multiples
    <2> QED
      BY <2>4, <2>5
  <1> QED
    BY <1>0, <1>3, <1>5, <1>6 DEF old, new

LEMMA InTimeStays ==
  ASSUME IInv, InTime, [Next]_vars, Forgetful \cap Relays = {}
  PROVE  InTime'
  <1>0. TypeOK /\ Once /\ TTL \in Nat /\ DEADLINE \in Nat
    BY DeliveryAssumption DEF IInv
  <1>1. ASSUME NEW m \in Msgs
        PROVE  /\ age[m] \in Nat
               /\ Reach(m) \in Nat /\ DEADLINE <= Reach(m)
               /\ Reach(m)' \in Nat /\ Reach(m) <= Reach(m)'
    BY <1>0, ReachIs, ReachGrows DEF TypeOK
  <1>2. ASSUME NEW m \in Msgs, NEW c \in air, c.frame = MessageOf(m) PROVE age[m] <= Reach(m)
    BY <1>2 DEF InTime
  <1>3. ASSUME NEW m \in Msgs, NEW r \in Relays, NEW i \in DOMAIN cache[r],
               cache[r][i].frame = MessageOf(m)
        PROVE  /\ cache[r][i].age \in 0 .. TTL
               /\ r \in Knows(m) /\ age[m] + TTL <= Reach(m) + cache[r][i].age
    <2>1. cache[r] \in Seq(Cached)
      BY <1>0 DEF TypeOK
    <2>2. cache[r][i] \in Cached
      BY <2>1
    <2> QED
      BY <1>3, <2>2 DEF InTime, Cached
  <1>4. ASSUME NEW c \in air', NEW m \in Msgs, c.frame = MessageOf(m) PROVE age'[m] <= Reach(m)'
    <2>1. Aired(c)
      BY <1>0, CopiesComeFrom
    <2>2. age' = age
      BY <2>1 DEF Aired
    <2>3. ASSUME NEW d \in air, c.frame = d.frame PROVE age[m] <= Reach(m)
      BY <1>2, <1>4, <2>3
    <2>4. ASSUME NEW r \in Relays, NEW i \in DOMAIN cache[r], c.frame = cache[r][i].frame
          PROVE  age[m] <= Reach(m)
      <3>1. cache[r][i].frame = MessageOf(m)
        BY <1>4, <2>4
      <3>2. cache[r][i].age \in 0 .. TTL /\ age[m] + TTL <= Reach(m) + cache[r][i].age
        BY <1>3, <3>1
      <3> QED
        BY <1>0, <1>1, <3>2
    <2>5. ASSUME NEW k \in Msgs, c.frame = MessageOf(k), age[k] < DEADLINE \/ status[k] = "new"
          PROVE  age[m] <= Reach(m)
      <3>1. k = m
        BY <1>4, <2>5 DEF MessageOf
      <3>2. age[m] <= DEADLINE
        BY <1>0, <1>1, <2>5, <3>1 DEF Once
      <3> QED
        BY <1>0, <1>1, <3>2
    <2>6. ASSUME NEW k \in Msgs, c.frame = AckOf(k) PROVE FALSE
      BY <1>4, <2>6, FrameFacts
    <2>7. age[m] <= Reach(m)
      BY <2>1, <2>3, <2>4, <2>5, <2>6 DEF Aired
    <2> QED
      BY <1>1, <2>2, <2>7
  <1>5. ASSUME NEW r \in Relays, NEW j \in DOMAIN cache'[r], NEW m \in Msgs,
               cache'[r][j].frame = MessageOf(m)
        PROVE  r \in Knows(m)' /\ age'[m] + TTL <= Reach(m)' + cache'[r][j].age
    <2>1. Came(r, cache'[r][j])
      BY <1>0, EntriesComeFrom DEF Entries
    <2>2. Knows(m) \subseteq Knows(m)'
      BY <1>0, KnowsGrows
    <2> DEFINE e == cache'[r][j]
               Goal == r \in Knows(m)' /\ age'[m] + TTL <= Reach(m)' + e.age
    <2>3. ASSUME age' = age, NEW i \in DOMAIN cache[r], e = cache[r][i] PROVE Goal
      <3>1. /\ cache[r][i].age \in 0 .. TTL
            /\ r \in Knows(m) /\ age[m] + TTL <= Reach(m) + cache[r][i].age
        BY <1>3, <1>5, <2>3
      <3> QED
        BY <1>0, <1>1, <2>2, <2>3, <3>1
    <2>4. ASSUME Clock, NEW i \in DOMAIN cache[r], e.frame = cache[r][i].frame,
                 cache[r][i].age < TTL, e.age = cache[r][i].age + 1
          PROVE  Goal
      <3>1. /\ cache[r][i].age \in 0 .. TTL
            /\ r \in Knows(m) /\ age[m] + TTL <= Reach(m) + cache[r][i].age
        BY <1>3, <1>5, <2>4
      <3>2. age'[m] = age[m] \/ age'[m] = age[m] + 1
        BY <2>4 DEF Clock
      <3> QED
        BY <1>0, <1>1, <2>2, <2>4, <3>1, <3>2
    <2>5. ASSUME NEW c \in air, Relay(r, c), e.frame = c.frame, e.age = 0 PROVE Goal
      <3>1. c.frame = MessageOf(m) /\ age' = age
        BY <1>5, <2>5 DEF Relay
      <3>2. age[m] <= Reach(m)
        BY <1>2, <3>1
      <3>3. r \notin Knows(m) /\ r \in Knows(m)'
        BY <1>0, <2>5, <3>1 DEF Relay, Hears, Knows, MessageOf, TypeOK, Nodes
      <3>4. Reach(m) + TTL <= Reach(m)'
        BY <1>0, <3>3, ReachGrows
      <3> QED
        BY <1>0, <1>1, <2>5, <3>1, <3>2, <3>3, <3>4
    <2> HIDE DEF Goal, e
    <2>6. Came(r, e)
      BY <2>1 DEF e
    <2>7. Goal
      BY <2>3, <2>4, <2>5, <2>6 DEF Came
    <2> QED
      BY <2>7 DEF Goal, e
  <1> QED
    BY <1>4, <1>5 DEF InTime, MessageOf

\* Where relays remember the ids they heard, a message reaches the inbox no later than
\* DEADLINE and one TTL for each relay, through any chain of relays that carry it and
\* meet nobody for as long as they may (accept, RelayCache::expire, take_for_peer).
THEOREM NothingComesTooLate ==
  ASSUME Forgetful \cap Relays = {}
  PROVE  Spec => LateBound
  <1>1. Init => InTime
    BY DEF Init, InTime
  <1>2. IInv /\ InTime /\ [Next]_vars => InTime'
    BY InTimeStays
  <1>3. IInv /\ InTime /\ [Next]_vars =>
          [\A m \in Msgs : inbox'[m] > inbox[m] => age[m] <= DEADLINE + Cardinality(Relays) * TTL]_vars
    <2> SUFFICES ASSUME IInv, InTime, Next, NEW m \in Msgs, inbox'[m] > inbox[m]
                 PROVE  age[m] <= DEADLINE + Cardinality(Relays) * TTL
      BY DEF vars
    <2>0. TypeOK
      BY DEF IInv
    <2>1. inbox' # inbox
      BY <2>0 DEF TypeOK
    <2>2. PICK c \in air : Receive(c)
      BY <2>1 DEF Next, Send, Retry, Expire, Evict, HearNothingNew, ReceiveAck, Relay, RelayEnds, Discover,
                  PeerLost, ExpireCarried, Forget, Clock
    <2>3. c.frame = MessageOf(c.frame.msg) /\ c.frame.msg \in Msgs
      BY <2>0, <2>2, FrameFacts DEF TypeOK, Copy, Receive
    <2>4. m = c.frame.msg
      BY <2>0, <2>2 DEF Receive, TypeOK
    <2>5. age[m] <= Reach(m)
      BY <2>3, <2>4 DEF InTime
    <2>6. age[m] \in Nat /\ TTL \in Nat /\ DEADLINE \in Nat
      BY <2>0, DeliveryAssumption DEF TypeOK
    <2> QED
      BY <2>5, <2>6, ReachIs, Multiples, FS_CardinalityType, DeliveryAssumption
  <1> QED
    BY <1>1, <1>2, <1>3, DeliveryInvariant, PTL DEF Spec, LateBound
=============================================================================
