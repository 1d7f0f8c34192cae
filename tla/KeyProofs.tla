------------------------------ MODULE KeyProofs ------------------------------
(***************************************************************************)
(* What the two key schedules of the mesh guarantee: the prekeys that       *)
(* directed messages are sealed to, and the chains of broadcasts.           *)
(*                                                                          *)
(* Prekeys, for any interval, any retention that outlives the outbox and    *)
(* any number of sessions: a retry can be opened, and a secret does not     *)
(* outlive its documented life.  Neither is inductive.  The first needs     *)
(* that the ring is the last generations without a gap (RingExact), and     *)
(* that a message sealed to the current prekey n rotations ago is as old as *)
(* n - 1 intervals and the time since the last rotation (Aged): to outlive  *)
(* the ring it has to outlive the outbox.  The second counts the same       *)
(* intervals from the other side (Awake).                                   *)
(*                                                                          *)
(* Chains, for any skip, any caps and any number of rotations, whatever the *)
(* air does to broadcasts and distributions: both ends stay in step, the    *)
(* past stays shut, and no frame costs the peer a broadcast that is on its  *)
(* way.  The argument is about what a chain can open (Openable).  A commit  *)
(* takes away the key it spent and, if the cache is full, older ones, and   *)
(* never adds any (CommitSound); a distribution is installed over a held    *)
(* chain only if it is ahead of all it has spent.                           *)
(***************************************************************************)
EXTENDS PrekeyLifetime, SenderKey, FiniteSetTheorems, WellFoundedInduction, TLAPS

-----------------------------------------------------------------------------
(* Prekeys.                                                                 *)


RingExact ==
  /\ Len(retired) = IF current < RETAINED THEN current ELSE RETAINED
  /\ \A i \in 1 .. Len(retired) : retired[i] = current - i

\* A message whose prekey was replaced is as old as the rotations since.
OldAs(m) ==
  LET behind == current - mail[m].prekey.generation
  IN  behind >= 1 => \/ mail[m].age = DEADLINE
                     \/ mail[m].age >= (behind - 1) * ROTATE_INTERVAL + sinceRotate

Aged ==
  \A m \in Msgs : mail[m].toCurrent =>
    /\ mail[m].prekey \in PeerPrekey /\ mail[m].prekey.epoch <= epoch
    /\ mail[m].state = "waiting" /\ mail[m].prekey.epoch = epoch =>
         mail[m].prekey.generation <= current /\ OldAs(m)

IInv == TypeOK /\ RingExact /\ Aged

Awake ==
  \A g \in Generations :
    /\ g > current => awake[g] = 0
    /\ g <= current => awake[g] <= (current - g) * ROTATE_INTERVAL + sinceRotate

LifeInv == IInv /\ LifeTypeOK /\ Awake

-----------------------------------------------------------------------------
(* Arithmetic.                                                              *)

\* One interval more.
LEMMA Interval == ASSUME NEW n \in Int, NEW r \in Int PROVE (n + 1) * r = n * r + r /\ n * r \in Int
  OBVIOUS

\* More intervals last longer.
LEMMA Longer == ASSUME NEW a \in Int, NEW b \in Int, NEW r \in Nat, a <= b PROVE a * r <= b * r
  OBVIOUS

-----------------------------------------------------------------------------
(* The ring and the mail.                                                   *)

\* A node starts with an empty ring and no mail.
LEMMA InitIInv == Init => IInv
  <1> SUFFICES ASSUME Init PROVE IInv
    OBVIOUS
  <1>1. TypeOK
    <2>1. New \in Mail
      BY PrekeyAssumption DEF New, Mail
    <2>2. mail \in [Msgs -> Mail]
      BY <2>1 DEF Init
    <2>3. 0 \in Epochs /\ 0 \in Generations /\ 0 \in 0 .. ROTATE_INTERVAL
      BY PrekeyAssumption DEF Epochs, Generations
    <2>4. << >> \in Seq(Generations) /\ Len(<< >>) <= RETAINED
      BY PrekeyAssumption
    <2> QED
      BY <2>2, <2>3, <2>4 DEF Init, TypeOK
  <1>2. RingExact /\ Aged
    BY PrekeyAssumption DEF Init, RingExact, Aged, New
  <1> QED
    BY <1>1, <1>2 DEF IInv

\* What leaves the ring and the mail alone.
LEMMA QuietIInv ==
  ASSUME IInv, SendBeacon \/ Stop \/ HearBeacon \/ UNCHANGED vars
  PROVE  IInv'
  <1>1. UNCHANGED <<epoch, current, retired, sinceRotate, mail>>
    BY DEF SendBeacon, Stop, HearBeacon, Install, vars, ringVars
  <1>2. Published \in PeerPrekey
    BY DEF IInv, TypeOK, Published, PeerPrekey
  <1>3. /\ running' \in BOOLEAN
        /\ beacons' \subseteq PeerPrekey
        /\ held' \in PeerPrekey \cup {NoPrekey}
    BY <1>2 DEF IInv, TypeOK, SendBeacon, Stop, HearBeacon, Install, vars, ringVars
  <1>4. TypeOK'
    BY <1>1, <1>3 DEF IInv, TypeOK
  <1>5. RingExact' /\ Aged'
    BY <1>1 DEF IInv, RingExact, Aged, OldAs
  <1> QED
    BY <1>4, <1>5 DEF IInv

\* The ring turns: every message to a prekey of this session is one behind more.
LEMMA RotateIInv == ASSUME IInv, Rotate PROVE IInv'
  <1>1. /\ current \in Nat /\ current + 1 \in Generations /\ current' = current + 1
        /\ retired' = Retired(retired, current)
        /\ sinceRotate = ROTATE_INTERVAL /\ sinceRotate' = 0
        /\ UNCHANGED <<running, epoch, held, mail>>
        /\ ROTATE_INTERVAL \in Nat \ {0} /\ RETAINED \in Nat /\ DEADLINE \in Nat
    BY PrekeyAssumption DEF Rotate, RotateDue, IInv, TypeOK, Generations
  <1>2. retired \in Seq(Generations) /\ Len(retired) <= RETAINED /\ Len(retired) \in Nat
    BY DEF IInv, TypeOK
  <1> DEFINE n == IF Len(retired) < RETAINED THEN Len(retired) + 1 ELSE RETAINED
  <1>3. /\ retired' = [i \in 1 .. n |-> IF i = 1 THEN current ELSE retired[i - 1]]
        /\ n \in Nat
    BY <1>1, <1>2 DEF Retired
  <1>4. retired' \in Seq(Generations) /\ Len(retired') = n
    <2>1. ASSUME NEW i \in 1 .. n PROVE (IF i = 1 THEN current ELSE retired[i - 1]) \in Generations
      <3>1. i # 1 => i - 1 \in 1 .. Len(retired)
        BY <1>1, <1>2
      <3>2. current \in Generations
        BY DEF IInv, TypeOK
      <3> QED
        BY <1>2, <3>1, <3>2
    <2> QED
      BY <1>3, <2>1
  <1>5. TypeOK'
    <2>1. Published' \in PeerPrekey
      BY <1>1 DEF IInv, TypeOK, Published, PeerPrekey
    <2>2. beacons' \subseteq PeerPrekey
      BY <2>1 DEF Rotate, IInv, TypeOK
    <2>3. n <= RETAINED
      BY <1>1, <1>2
    <2> QED
      BY <1>1, <1>4, <2>2, <2>3 DEF IInv, TypeOK
  <1>6. RingExact'
    <2>1. ASSUME NEW i \in 1 .. n PROVE retired'[i] = current' - i
      BY <1>1, <1>2, <1>3, <2>1 DEF IInv, RingExact
    <2>2. n = IF current' < RETAINED THEN current' ELSE RETAINED
      BY <1>1, <1>2 DEF IInv, RingExact
    <2> QED
      BY <1>4, <2>1, <2>2 DEF RingExact
  <1>7. Aged'
    <2> SUFFICES ASSUME NEW m \in Msgs, mail[m].toCurrent
                 PROVE  /\ mail[m].prekey \in PeerPrekey /\ mail[m].prekey.epoch <= epoch
                        /\ mail[m].state = "waiting" /\ mail[m].prekey.epoch = epoch =>
                             mail[m].prekey.generation <= current' /\ OldAs(m)'
      BY <1>1 DEF Aged
    <2>1. mail[m].prekey \in PeerPrekey /\ mail[m].prekey.epoch <= epoch
      BY DEF IInv, Aged
    <2>2. ASSUME mail[m].state = "waiting", mail[m].prekey.epoch = epoch
          PROVE  mail[m].prekey.generation <= current' /\ OldAs(m)'
      <3> DEFINE g == mail[m].prekey.generation
                 behind == current - g
      <3>1. g \in Nat /\ g <= current /\ OldAs(m) /\ mail[m].age \in Nat
        BY <2>1, <2>2 DEF IInv, Aged, PeerPrekey, Generations, TypeOK, Mail
      <3>2. behind \in Nat /\ current' - g = behind + 1 /\ (behind + 1) - 1 = behind
        BY <1>1, <3>1
      <3>3. CASE behind = 0
        <4>1. (current' - g - 1) * ROTATE_INTERVAL = 0
          BY <1>1, <3>2, <3>3
        <4>2. mail'[m].age >= (current' - mail'[m].prekey.generation - 1) * ROTATE_INTERVAL + sinceRotate'
          BY <1>1, <3>1, <4>1
        <4>3. OldAs(m)'
          BY <4>2 DEF OldAs
        <4> QED
          BY <1>1, <3>1, <4>3
      <3>4. CASE behind >= 1
        <4>1. mail[m].age = DEADLINE \/ mail[m].age >= (behind - 1) * ROTATE_INTERVAL + ROTATE_INTERVAL
          BY <1>1, <3>1, <3>4 DEF OldAs
        <4>2. (behind - 1) * ROTATE_INTERVAL + ROTATE_INTERVAL = behind * ROTATE_INTERVAL
          <5>1. behind - 1 \in Int /\ (behind - 1) + 1 = behind
            BY <3>2
          <5> HIDE DEF behind
          <5> QED
            BY <1>1, <5>1, Interval
        <4>3. mail[m].age = DEADLINE \/ mail[m].age >= (current' - g - 1) * ROTATE_INTERVAL + sinceRotate'
          <5>1. current' - g - 1 = behind
            BY <1>1, <3>1
          <5>2. behind * ROTATE_INTERVAL \in Int
            BY <1>1, <3>2, Interval
          <5> HIDE DEF behind
          <5> QED
            BY <1>1, <4>1, <4>2, <5>1, <5>2
        <4> QED
          BY <1>1, <3>1, <4>3 DEF OldAs
      <3> QED
        BY <3>2, <3>3, <3>4
    <2> QED
      BY <2>1, <2>2
  <1> QED
    BY <1>5, <1>6, <1>7 DEF IInv

\* A later session has an empty ring, and no message is to a prekey of it.
LEMMA RestartIInv == ASSUME IInv, Restart PROVE IInv'
  <1>1. /\ epoch \in Nat /\ epoch' = epoch + 1 /\ epoch' \in Epochs
        /\ current' = 0 /\ retired' = << >> /\ sinceRotate' = 0 /\ running' = FALSE
        /\ UNCHANGED <<beacons, held, mail>>
        /\ RETAINED \in Nat /\ ROTATE_INTERVAL \in Nat /\ MaxGeneration \in Nat
    BY PrekeyAssumption DEF Restart, IInv, TypeOK, Epochs
  <1>2. TypeOK'
    <2>1. 0 \in Generations /\ 0 \in 0 .. ROTATE_INTERVAL
      BY <1>1 DEF Generations
    <2>2. << >> \in Seq(Generations) /\ Len(<< >>) <= RETAINED
      BY <1>1
    <2> QED
      BY <1>1, <2>1, <2>2 DEF IInv, TypeOK
  <1>3. RingExact'
    BY <1>1 DEF RingExact
  <1>4. Aged'
    BY <1>1 DEF IInv, Aged, PeerPrekey, Epochs
  <1> QED
    BY <1>2, <1>3, <1>4 DEF IInv

\* A message is sealed, and none is behind yet.
LEMMA SealIInv == ASSUME IInv, NEW m \in Msgs, Seal(m) PROVE IInv'
  <1>1. /\ mail' = [mail EXCEPT ![m] = Sealed]
        /\ UNCHANGED <<running, epoch, current, retired, sinceRotate, beacons, held>>
        /\ mail \in [Msgs -> Mail]
    BY DEF Seal, ringVars, IInv, TypeOK
  <1>2. Sealed \in Mail
    BY PrekeyAssumption DEF Sealed, Mail, IInv, TypeOK
  <1>3. TypeOK'
    BY <1>1, <1>2 DEF IInv, TypeOK
  <1>4. RingExact'
    BY <1>1 DEF IInv, RingExact
  <1>5. Aged'
    <2>1. ASSUME Sealed.toCurrent
          PROVE  /\ Sealed.prekey \in PeerPrekey /\ Sealed.prekey.epoch = epoch
                 /\ Sealed.prekey.generation = current
      <3>1. Sealed.prekey = held /\ (Sealed.toCurrent <=> held = Published)
        BY DEF Sealed
      <3>2. Published \in PeerPrekey /\ Published.epoch = epoch /\ Published.generation = current
        BY DEF Published, PeerPrekey, IInv, TypeOK
      <3> QED
        BY <2>1, <3>1, <3>2
    <2>2. epoch \in Nat /\ current \in Nat
      BY DEF IInv, TypeOK, Epochs, Generations
    <2>3. mail'[m] = Sealed /\ \A o \in Msgs : o # m => mail'[o] = mail[o]
      BY <1>1
    <2> SUFFICES ASSUME NEW o \in Msgs, mail'[o].toCurrent
                 PROVE  /\ mail'[o].prekey \in PeerPrekey /\ mail'[o].prekey.epoch <= epoch'
                        /\ mail'[o].state = "waiting" /\ mail'[o].prekey.epoch = epoch' =>
                             mail'[o].prekey.generation <= current' /\ OldAs(o)'
      BY DEF Aged
    <2>4. CASE o = m
      BY <1>1, <2>1, <2>2, <2>3, <2>4 DEF OldAs
    <2>5. CASE o # m
      BY <1>1, <2>3, <2>5 DEF IInv, Aged, OldAs
    <2> QED
      BY <2>4, <2>5
  <1> QED
    BY <1>3, <1>4, <1>5 DEF IInv

\* A message stops waiting.
LEMMA EndIInv == ASSUME IInv, NEW m \in Msgs, Arrive(m) \/ GiveUp(m) PROVE IInv'
  <1>1. PICK s \in {"opened", "refused", "expired"} : mail' = [mail EXCEPT ![m].state = s]
    BY DEF Arrive, GiveUp
  <1>2. /\ UNCHANGED <<running, epoch, current, retired, sinceRotate, beacons, held>>
        /\ mail \in [Msgs -> Mail]
    BY DEF Arrive, GiveUp, ringVars, IInv, TypeOK
  <1>3. /\ mail' \in [Msgs -> Mail]
        /\ mail'[m] = [mail[m] EXCEPT !.state = s]
        /\ \A o \in Msgs : o # m => mail'[o] = mail[o]
    BY <1>1, <1>2 DEF Mail
  <1>4. /\ mail'[m].state # "waiting" /\ mail'[m].toCurrent = mail[m].toCurrent
        /\ mail'[m].prekey = mail[m].prekey
    BY <1>2, <1>3 DEF Mail
  <1>5. TypeOK' /\ RingExact'
    BY <1>2, <1>3 DEF IInv, TypeOK, RingExact
  <1>6. Aged'
    BY <1>2, <1>3, <1>4 DEF IInv, Aged, OldAs
  <1> QED
    BY <1>5, <1>6 DEF IInv

\* Time passes: a message ages as the current prekey does.
LEMMA ClockIInv == ASSUME IInv, Clock PROVE IInv'
  <1>1. /\ UNCHANGED <<running, epoch, current, retired, beacons, held>>
        /\ mail \in [Msgs -> Mail]
        /\ sinceRotate \in 0 .. ROTATE_INTERVAL
        /\ sinceRotate' \in 0 .. ROTATE_INTERVAL /\ sinceRotate' <= sinceRotate + 1
        /\ ROTATE_INTERVAL \in Nat /\ DEADLINE \in Nat /\ current \in Nat
    BY PrekeyAssumption DEF Clock, IInv, TypeOK, Generations
  <1>2. ASSUME NEW m \in Msgs
        PROVE  /\ mail'[m] \in Mail
               /\ mail'[m].toCurrent = mail[m].toCurrent /\ mail'[m].prekey = mail[m].prekey
               /\ mail'[m].state = mail[m].state
               /\ mail[m].state = "waiting" =>
                    mail'[m].age = IF mail[m].age < DEADLINE THEN mail[m].age + 1 ELSE mail[m].age
    <2>1. mail[m] \in Mail
      BY <1>1
    <2>2. mail'[m] = IF m \in Waiting /\ mail[m].age < DEADLINE
                     THEN [mail[m] EXCEPT !.age = @ + 1] ELSE mail[m]
      BY DEF Clock
    <2>3. m \in Waiting <=> mail[m].state = "waiting"
      BY DEF Waiting
    <2> QED
      BY <1>1, <2>1, <2>2, <2>3 DEF Mail
  <1>3. mail' \in [Msgs -> Mail]
    <2>1. mail' = [m \in Msgs |-> mail'[m]]
      BY DEF Clock
    <2> QED
      BY <1>2, <2>1
  <1>4. TypeOK' /\ RingExact'
    BY <1>1, <1>3 DEF IInv, TypeOK, RingExact
  <1>5. Aged'
    <2> SUFFICES ASSUME NEW m \in Msgs, mail[m].toCurrent,
                        mail[m].state = "waiting", mail[m].prekey.epoch = epoch
                 PROVE  mail[m].prekey.generation <= current /\ OldAs(m)'
      BY <1>1, <1>2 DEF IInv, Aged
    <2> DEFINE w == (current - mail[m].prekey.generation - 1) * ROTATE_INTERVAL
    <2>1. /\ mail[m].prekey.generation \in Nat /\ mail[m].prekey.generation <= current
          /\ OldAs(m) /\ mail[m].age \in 0 .. DEADLINE
      BY <1>1 DEF IInv, Aged, PeerPrekey, Generations, Mail
    <2>2. w \in Int
      BY <1>1, <2>1, Interval
    <2>3. current - mail[m].prekey.generation >= 1 => mail[m].age = DEADLINE \/ mail[m].age >= w + sinceRotate
      BY <2>1 DEF OldAs
    <2> HIDE DEF w
    <2>4. current - mail[m].prekey.generation >= 1 => mail'[m].age = DEADLINE \/ mail'[m].age >= w + sinceRotate'
      BY <1>1, <1>2, <2>1, <2>2, <2>3
    <2> QED
      BY <1>1, <1>2, <2>1, <2>4 DEF OldAs, w
  <1> QED
    BY <1>4, <1>5 DEF IInv

\* Every step of the specification.
LEMMA NextIInv == IInv /\ [Next]_vars => IInv'
  BY QuietIInv, RotateIInv, RestartIInv, SealIInv, EndIInv, ClockIInv DEF Next

\* The inductive invariant of the ring and the mail (prekey.rs, rotate and
\* find; outbox.rs, expire).
THEOREM PrekeyInvariant == Spec => []IInv
  BY InitIInv, NextIInv, PTL DEF Spec

-----------------------------------------------------------------------------
(* What follows.                                                            *)

\* A message young enough to be retried is to a prekey that is in the ring.
LEMMA InRing == ASSUME IInv PROVE RetriesOpen
  <1> SUFFICES ASSUME NEW m \in Waiting, ToCurrent(m), mail[m].age < DEADLINE
               PROVE  CanOpen(mail[m].prekey)
    BY DEF RetriesOpen
  <1> DEFINE g == mail[m].prekey.generation
             behind == current - g
  <1>1. /\ m \in Msgs /\ mail[m].prekey \in PeerPrekey /\ mail[m].prekey.epoch = epoch
        /\ g <= current /\ OldAs(m)
    BY DEF IInv, Aged, ToCurrent, Waiting
  <1>2. /\ g \in Nat /\ current \in Nat /\ mail[m].age \in 0 .. DEADLINE
        /\ sinceRotate \in Nat /\ retired \in Seq(Generations)
        /\ ROTATE_INTERVAL \in Nat /\ RETAINED \in Nat /\ DEADLINE \in Nat
    BY <1>1, PrekeyAssumption DEF IInv, TypeOK, Mail, PeerPrekey, Generations
  <1>3. behind <= RETAINED
    <2>1. SUFFICES ASSUME behind >= RETAINED + 1 PROVE FALSE
      BY <1>1, <1>2
    <2>2. behind - 1 \in Int /\ RETAINED <= behind - 1
      BY <1>1, <1>2, <2>1
    <2>3. RETAINED * ROTATE_INTERVAL <= (behind - 1) * ROTATE_INTERVAL
      <3> HIDE DEF behind
      <3> QED
        BY <1>2, <2>2, Longer
    <2>4. mail[m].age >= (behind - 1) * ROTATE_INTERVAL + sinceRotate
      BY <1>1, <1>2, <2>1 DEF OldAs
    <2>5. (behind - 1) * ROTATE_INTERVAL \in Int /\ RETAINED * ROTATE_INTERVAL \in Int
      BY <1>2, <2>2, Interval
    <2> HIDE DEF behind
    <2> QED
      BY <1>2, <2>3, <2>4, <2>5, RetentionAssumption
  <1>4. g \in Ring
    <2>1. CASE behind = 0
      BY <1>1, <1>2, <2>1 DEF Ring
    <2>2. CASE behind # 0
      <3>1. behind \in 1 .. Len(retired)
        BY <1>1, <1>2, <1>3, <2>2 DEF IInv, RingExact
      <3>2. retired[behind] = g
        BY <1>1, <1>2, <3>1 DEF IInv, RingExact
      <3> QED
        BY <1>2, <3>1, <3>2 DEF Ring
    <2> QED
      BY <2>1, <2>2
  <1> QED
    BY <1>1, <1>4 DEF CanOpen

\* Retention outlives the outbox: for as long as a message that was sealed to
\* the current prekey is retried, its secret is in the ring (prekey.rs,
\* "retention has to exceed it").  The owner need not be timely.
THEOREM RetriesCanBeOpened == Spec => []RetriesOpen
  BY PrekeyInvariant, InRing, PTL

-----------------------------------------------------------------------------
(* The life of a secret.                                                    *)

\* The steps of LifeSpec are those of Spec.
LEMMA LifeStep == LifeClock \/ LifeRestart \/ LifeOther \/ UNCHANGED lifeVars => [Next]_vars
  BY DEF LifeClock, LifeRestart, LifeOther, lifeVars, Next

\* No time has passed at first.
LEMMA InitLife == LifeInit => LifeInv
  <1> SUFFICES ASSUME LifeInit PROVE LifeInv
    OBVIOUS
  <1>1. IInv
    BY InitIInv DEF LifeInit
  <1>2. EXPOSURE \in Nat
    BY PrekeyAssumption, Interval DEF EXPOSURE
  <1>3. awake = Zero /\ current = 0 /\ sinceRotate = 0 /\ ROTATE_INTERVAL \in Nat
    BY PrekeyAssumption DEF LifeInit, Init
  <1>4. LifeTypeOK
    BY <1>1, <1>2, <1>3 DEF LifeTypeOK, IInv, Zero
  <1>5. Awake
    BY <1>3 DEF Awake, Zero, Generations
  <1> QED
    BY <1>1, <1>4, <1>5 DEF LifeInv

\* A step that leaves the clock and the ring alone.
LEMMA OtherLife == ASSUME LifeInv, IInv', LifeOther \/ UNCHANGED lifeVars PROVE LifeInv'
  <1>1. awake' = awake
    BY DEF LifeOther, lifeVars
  <1>2. LifeTypeOK'
    BY <1>1 DEF LifeInv, LifeTypeOK, IInv
  <1>3. CASE Rotate
    <2>1. /\ current \in Nat /\ current' = current + 1
          /\ sinceRotate = ROTATE_INTERVAL /\ sinceRotate' = 0
          /\ ROTATE_INTERVAL \in Nat
      BY <1>3, PrekeyAssumption DEF Rotate, RotateDue, LifeInv, IInv, TypeOK, Generations
    <2> SUFFICES ASSUME NEW g \in Generations
                 PROVE  /\ g > current' => awake[g] = 0
                        /\ g <= current' => awake[g] <= (current' - g) * ROTATE_INTERVAL + sinceRotate'
      BY <1>1, <1>2 DEF LifeInv, Awake
    <2>2. g \in Nat
      BY DEF Generations
    <2>3. CASE g > current
      <3>1. g <= current' => (current' - g) * ROTATE_INTERVAL = 0
        BY <2>1, <2>2, <2>3
      <3> QED
        BY <2>1, <2>2, <2>3, <3>1 DEF LifeInv, Awake
    <2>4. CASE g <= current
      <3>1. (current' - g) * ROTATE_INTERVAL = (current - g) * ROTATE_INTERVAL + ROTATE_INTERVAL
        <4>1. current' - g = (current - g) + 1 /\ current - g \in Int
          BY <2>1, <2>2
        <4> QED
          BY <2>1, <4>1, Interval
      <3>2. awake[g] <= (current - g) * ROTATE_INTERVAL + ROTATE_INTERVAL
        BY <2>1, <2>4 DEF LifeInv, Awake
      <3>3. awake[g] \in Int /\ (current - g) * ROTATE_INTERVAL \in Int
        BY <2>1, <2>2, Interval DEF LifeInv, LifeTypeOK
      <3> QED
        BY <2>1, <2>2, <2>4, <3>1, <3>2, <3>3
    <2> QED
      BY <2>1, <2>2, <2>3, <2>4
  <1>4. CASE ~Rotate
    <2>1. UNCHANGED <<current, sinceRotate>>
      BY <1>4 DEF LifeOther, lifeVars, vars, ringVars, SendBeacon, Stop, HearBeacon,
                  Install, Seal, Arrive, GiveUp
    <2> QED
      BY <1>1, <1>2, <2>1 DEF LifeInv, Awake
  <1> QED
    BY <1>3, <1>4

\* A new session has made new secrets.
LEMMA RestartLife == ASSUME LifeInv, IInv', LifeRestart PROVE LifeInv'
  <1>1. awake' = Zero /\ current' = 0 /\ sinceRotate' = 0 /\ ROTATE_INTERVAL \in Nat
    BY PrekeyAssumption DEF LifeRestart, Restart
  <1>2. EXPOSURE \in Nat
    BY PrekeyAssumption, Interval DEF EXPOSURE
  <1>3. LifeTypeOK'
    BY <1>1, <1>2 DEF LifeTypeOK, IInv, Zero
  <1>4. Awake'
    BY <1>1 DEF Awake, Zero, Generations
  <1> QED
    BY <1>3, <1>4 DEF LifeInv

\* Time passes: what makes a secret older brings its rotation nearer, since a
\* timely owner does not let time pass while a rotation is due.
LEMMA ClockLife == ASSUME Timely, LifeInv, IInv', LifeClock PROVE LifeInv'
  <1>1. /\ UNCHANGED <<running, epoch, current, retired, beacons>>
        /\ current \in Nat /\ sinceRotate \in Nat /\ ROTATE_INTERVAL \in Nat /\ EXPOSURE \in Nat
        /\ sinceRotate' = IF sinceRotate < ROTATE_INTERVAL THEN sinceRotate + 1 ELSE ROTATE_INTERVAL
        /\ sinceRotate <= ROTATE_INTERVAL
        /\ running => sinceRotate # ROTATE_INTERVAL
        /\ awake' = IF running THEN Older ELSE awake
        /\ awake \in [Generations -> 0 .. EXPOSURE + 1]
    <2>1. EXPOSURE \in Nat
      BY PrekeyAssumption, Interval DEF EXPOSURE
    <2> QED
      BY <2>1, PrekeyAssumption DEF LifeClock, Clock, RotateDue, LifeInv, LifeTypeOK, IInv, TypeOK, Generations
  <1>2. sinceRotate <= sinceRotate' /\ sinceRotate' \in Nat /\ (running => sinceRotate' = sinceRotate + 1)
    BY <1>1
  <1>3. ASSUME NEW g \in Generations
        PROVE  /\ awake'[g] \in 0 .. EXPOSURE + 1
               /\ awake'[g] = awake[g] \/ (running /\ g \in Ring /\ awake'[g] = awake[g] + 1)
    BY <1>1 DEF Older
  <1>4. LifeTypeOK'
    <2>1. awake' = [g \in Generations |-> awake'[g]]
      BY <1>1 DEF Older
    <2>2. awake' \in [Generations -> 0 .. EXPOSURE + 1]
      BY <1>3, <2>1
    <2> QED
      BY <2>2 DEF LifeTypeOK, IInv
  <1>5. Awake'
    <2> SUFFICES ASSUME NEW g \in Generations
                 PROVE  /\ g > current => awake'[g] = 0
                        /\ g <= current => awake'[g] <= (current - g) * ROTATE_INTERVAL + sinceRotate'
      BY <1>1 DEF Awake
    <2>1. g \in Nat /\ awake[g] \in Nat
      BY <1>1 DEF Generations
    <2>2. g \in Ring => g <= current
      <3>1. ASSUME NEW i \in 1 .. Len(retired) PROVE retired[i] <= current
        <4>1. retired[i] = current - i /\ i \in Nat
          BY DEF LifeInv, IInv, RingExact, TypeOK
        <4> QED
          BY <1>1, <4>1
      <3>2. DOMAIN retired = 1 .. Len(retired)
        BY DEF LifeInv, IInv, TypeOK
      <3> QED
        BY <1>1, <3>1, <3>2 DEF Ring
    <2>3. (current - g) * ROTATE_INTERVAL \in Int
      BY <1>1, <2>1, Interval
    <2>4. /\ g > current => awake[g] = 0
          /\ g <= current => awake[g] <= (current - g) * ROTATE_INTERVAL + sinceRotate
      BY DEF LifeInv, Awake
    <2> QED
      BY <1>1, <1>2, <1>3, <2>1, <2>2, <2>3, <2>4
  <1> QED
    BY <1>4, <1>5 DEF LifeInv

\* Who is in the ring has seen at most RETAINED rotations and an interval more.
LEMMA RingIsYoung == ASSUME LifeInv PROVE ExposureWhileRunning
  <1> SUFFICES ASSUME NEW g \in Ring PROVE awake[g] <= EXPOSURE
    BY DEF ExposureWhileRunning, LifeInv
  <1>1. /\ current \in Nat /\ sinceRotate \in Nat /\ sinceRotate <= ROTATE_INTERVAL
        /\ ROTATE_INTERVAL \in Nat /\ RETAINED \in Nat
        /\ DOMAIN retired = 1 .. Len(retired) /\ Len(retired) <= RETAINED
        /\ Len(retired) <= current /\ Len(retired) \in Nat
    BY PrekeyAssumption DEF LifeInv, IInv, TypeOK, Generations, RingExact
  <1>2. PICK n \in 0 .. RETAINED : g = current - n
    BY <1>1 DEF Ring, LifeInv, IInv, RingExact
  <1>3. g \in Generations
    BY DEF Ring, LifeInv, IInv, TypeOK
  <1>4. awake[g] <= n * ROTATE_INTERVAL + sinceRotate
    <2>1. g <= current /\ current - g = n
      BY <1>1, <1>2
    <2> QED
      BY <1>3, <2>1 DEF LifeInv, Awake
  <1>5. /\ n * ROTATE_INTERVAL <= RETAINED * ROTATE_INTERVAL
        /\ n * ROTATE_INTERVAL \in Int /\ RETAINED * ROTATE_INTERVAL \in Int
    BY <1>1, Longer, Interval
  <1>6. EXPOSURE = RETAINED * ROTATE_INTERVAL + ROTATE_INTERVAL
    <2>1. EXPOSURE = (RETAINED + 1) * ROTATE_INTERVAL
      BY <1>1 DEF EXPOSURE
    <2> QED
      BY <1>1, <2>1, Interval
  <1>7. awake[g] \in Int
    BY <1>3 DEF LifeInv, LifeTypeOK
  <1> QED
    BY <1>1, <1>4, <1>5, <1>6, <1>7

\* No secret of an owner that never misses a rotation is kept for longer than
\* its documented life, counted in running time (prekey.rs, "Dropping is the
\* feature").
THEOREM SecretsForgotten == ASSUME Timely PROVE LifeSpec => []ExposureWhileRunning
  <1>1. LifeInv /\ [LifeClock \/ LifeRestart \/ LifeOther]_lifeVars => LifeInv'
    <2> SUFFICES ASSUME LifeInv, [LifeClock \/ LifeRestart \/ LifeOther]_lifeVars PROVE LifeInv'
      OBVIOUS
    <2>1. IInv'
      BY LifeStep, NextIInv DEF LifeInv
    <2> QED
      BY <2>1, ClockLife, RestartLife, OtherLife
  <1> QED
    BY <1>1, InitLife, RingIsYoung, PTL DEF LifeSpec

-----------------------------------------------------------------------------
(* Chains.                                                                  *)


Inbounds ==
  [id : ChainIds, index : Indices, key : Indices,
   skipped : UNION {[D -> Indices] : D \in SUBSET Indices}]

\* The indices a chain can still open, now or after ratcheting on.
Openable(c) == DOMAIN c.skipped \cup c.index .. MAX_INDEX - 1

\* A chain in step with its sender's ratchet, within its cap.
Sound(c) ==
  /\ c \in Inbounds
  /\ c.key = c.index
  /\ \A i \in DOMAIN c.skipped : c.skipped[i] = i /\ i < c.index
  /\ Cardinality(DOMAIN c.skipped) <= SKIPPED_CAP

Store ==
  /\ chains \in Seq(Inbounds)
  /\ Len(chains) <= CHAINS_PER_PEER
  /\ \A n \in 1 .. Len(chains) : Sound(chains[n])
  /\ \A m, n \in 1 .. Len(chains) : chains[m].id = chains[n].id => m = n

\* Nothing from before the peer was given the chain.
NoRetroactiveAccess ==
  \A n \in 1 .. Len(chains) : \A i \in Openable(chains[n]) : i >= given[chains[n].id]

\* What opened a broadcast is behind the chain and not kept.
SpentIsBehind ==
  \A k \in spent :
    \/ k[1] \in evicted
    \/ \E n \in 1 .. Len(chains) :
         /\ chains[n].id = k[1]
         /\ k[2] < chains[n].index /\ k[2] \notin DOMAIN chains[n].skipped

\* The sender is ahead of all it broadcast under its chain.
Ahead ==
  /\ own.key = own.index
  /\ \A f \in air : f.id <= own.id /\ (f.id = own.id => f.key < own.key)

\* A distribution tells the place of its key.
Distributions == \A d \in DOMAIN inFlight : d.key = d.index /\ d.index >= given[d.id]

Types ==
  /\ own \in Chain
  /\ shared \subseteq Correspondents
  /\ air \subseteq Chain
  /\ IsABag(inFlight) /\ DOMAIN inFlight \subseteq Chain
  /\ spent \subseteq ChainIds \X Indices
  /\ given \in [ChainIds -> Indices]
  /\ evicted \subseteq ChainIds

ChainInv == Types /\ Ahead /\ Distributions /\ Store /\ NoRetroactiveAccess /\ SpentIsBehind

-----------------------------------------------------------------------------
(* Finite sets of numbers.                                                  *)

Above(S, i) == {j \in S : j > i}
Below(S, i) == {j \in S : j < i}

\* A finite set of numbers has a largest.
LEMMA Largest ==
  ASSUME NEW S \in SUBSET Nat, IsFiniteSet(S), S # {}
  PROVE  \E m \in S : Above(S, m) = {}
  <1>0. \A x \in S : x \in Nat
    OBVIOUS
  <1> DEFINE T == {Above(S, i) : i \in S}
  <1>1. T \subseteq FiniteSubsetsOf(S) /\ T # {}
    <2>1. ASSUME NEW i \in S PROVE Above(S, i) \in SUBSET S /\ IsFiniteSet(Above(S, i))
      <3>1. Above(S, i) \in SUBSET S
        BY DEF Above
      <3> QED
        BY <3>1, FS_Subset
    <2> QED
      BY <2>1 DEF FiniteSubsetsOf
  <1>2. IsWellFoundedOn(StrictSubsetOrdering(S), FiniteSubsetsOf(S))
    BY FS_StrictSubsetOrderingWellFounded
  <1> HIDE DEF T
  <1>3. PICK A \in T : \A B \in T : ~(<<B, A>> \in StrictSubsetOrdering(S))
    BY <1>1, <1>2, WFMin
  <1>4. PICK m \in S : A = Above(S, m)
    BY <1>3 DEF T
  <1>5. ASSUME NEW j \in Above(S, m) PROVE FALSE
    <2>1. j \in S /\ j > m /\ j \in Nat /\ m \in Nat
      BY <1>5 DEF Above
    <2>2. Above(S, j) \subseteq Above(S, m) /\ j \notin Above(S, j)
      <3>1. ASSUME NEW x \in S, x > j PROVE x > m
        BY <1>0, <2>1, <3>1
      <3>2. ~(j > j)
        BY <2>1
      <3> QED
        BY <3>1, <3>2 DEF Above
    <2>3. Above(S, j) \in T /\ Above(S, j) \in SUBSET S /\ Above(S, m) \in SUBSET S
      BY <2>1 DEF T, Above
    <2>4. <<Above(S, j), Above(S, m)>> \in StrictSubsetOrdering(S)
      BY <1>5, <2>2, <2>3 DEF StrictSubsetOrdering
    <2> QED
      BY <1>3, <1>4, <2>3, <2>4
  <1> QED
    BY <1>5

\* And a smallest.
LEMMA Smallest ==
  ASSUME NEW S \in SUBSET Nat, IsFiniteSet(S), S # {}
  PROVE  \E m \in S : Below(S, m) = {}
  <1>0. \A x \in S : x \in Nat
    OBVIOUS
  <1> DEFINE T == {Below(S, i) : i \in S}
  <1>1. T \subseteq FiniteSubsetsOf(S) /\ T # {}
    <2>1. ASSUME NEW i \in S PROVE Below(S, i) \in SUBSET S /\ IsFiniteSet(Below(S, i))
      <3>1. Below(S, i) \in SUBSET S
        BY DEF Below
      <3> QED
        BY <3>1, FS_Subset
    <2> QED
      BY <2>1 DEF FiniteSubsetsOf
  <1>2. IsWellFoundedOn(StrictSubsetOrdering(S), FiniteSubsetsOf(S))
    BY FS_StrictSubsetOrderingWellFounded
  <1> HIDE DEF T
  <1>3. PICK A \in T : \A B \in T : ~(<<B, A>> \in StrictSubsetOrdering(S))
    BY <1>1, <1>2, WFMin
  <1>4. PICK m \in S : A = Below(S, m)
    BY <1>3 DEF T
  <1>5. ASSUME NEW j \in Below(S, m) PROVE FALSE
    <2>1. j \in S /\ j < m /\ j \in Nat /\ m \in Nat
      BY <1>5 DEF Below
    <2>2. Below(S, j) \subseteq Below(S, m) /\ j \notin Below(S, j)
      <3>1. ASSUME NEW x \in S, x < j PROVE x < m
        BY <1>0, <2>1, <3>1
      <3>2. ~(j < j)
        BY <2>1
      <3> QED
        BY <3>1, <3>2 DEF Below
    <2>3. Below(S, j) \in T /\ Below(S, j) \in SUBSET S /\ Below(S, m) \in SUBSET S
      BY <2>1 DEF T, Below
    <2>4. <<Below(S, j), Below(S, m)>> \in StrictSubsetOrdering(S)
      BY <1>5, <2>2, <2>3 DEF StrictSubsetOrdering
    <2> QED
      BY <1>3, <1>4, <2>3, <2>4
  <1> QED
    BY <1>5

\* Those with fewer than cap above them are at most cap, and if any is left out
\* they are cap, and it is below them all.
LEMMA TopOf ==
  ASSUME NEW S \in SUBSET Nat, IsFiniteSet(S), NEW cap \in Nat
  PROVE  LET T == {i \in S : Cardinality(Above(S, i)) < cap}
         IN  /\ Cardinality(T) <= cap
             /\ \A k \in S \ T : Cardinality(T) = cap /\ \A i \in T : k < i
  <1>0. \A x \in S : x \in Nat
    OBVIOUS
  <1> DEFINE T == {i \in S : Cardinality(Above(S, i)) < cap}
  <1>1. IsFiniteSet(T) /\ Cardinality(T) \in Nat /\ T \in SUBSET S
    BY FS_Subset, FS_CardinalityType
  <1>2. ASSUME NEW i \in S
        PROVE  IsFiniteSet(Above(S, i)) /\ Cardinality(Above(S, i)) \in Nat
    <2>1. Above(S, i) \in SUBSET S
      BY DEF Above
    <2> QED
      BY <2>1, FS_Subset, FS_CardinalityType
  <1>3. Cardinality(T) <= cap
    <2>1. CASE T = {}
      <3>1. Cardinality(T) = 0
        BY <2>1, FS_EmptySet
      <3> HIDE DEF T
      <3> QED
        BY <3>1
    <2>2. CASE T # {}
      <3>1. PICK m \in T : Below(T, m) = {}
        BY <1>1, <2>2, Smallest
      <3>2. T \subseteq Above(S, m) \cup {m}
        <4>1. ASSUME NEW x \in T, x # m PROVE x > m
        <5>1. ~(x < m)
          BY <3>1 DEF Below
        <5> QED
          BY <1>0, <4>1, <5>1
      <4> QED
        BY <4>1 DEF Above
      <3>3. Cardinality(Above(S, m)) < cap
        BY <3>1
      <3>4. m \notin Above(S, m) /\ m \in S
        BY <3>1 DEF Above
      <3> HIDE DEF T
      <3>5. /\ IsFiniteSet(Above(S, m) \cup {m})
            /\ Cardinality(Above(S, m) \cup {m}) = Cardinality(Above(S, m)) + 1
        BY <1>2, <3>4, FS_AddElement
      <3>6. Cardinality(T) <= Cardinality(Above(S, m) \cup {m})
        BY <3>2, <3>5, FS_Subset
      <3> QED
        BY <1>1, <1>2, <3>3, <3>4, <3>5, <3>6
    <2> QED
      BY <2>1, <2>2
  <1>4. ASSUME NEW k \in S \ T, NEW i \in T PROVE k < i
    <2>1. SUFFICES ASSUME i <= k PROVE FALSE
      BY <1>1
    <2>2. Above(S, k) \in SUBSET Above(S, i) /\ i \in S
      <3>1. ASSUME NEW x \in S, x > k PROVE x > i
        BY <1>0, <2>1, <3>1
      <3> QED
        BY <3>1 DEF Above
    <2>3. Cardinality(Above(S, k)) <= Cardinality(Above(S, i))
      BY <1>2, <2>2, FS_Subset
    <2>4. Cardinality(Above(S, i)) < cap /\ ~(Cardinality(Above(S, k)) < cap)
      BY <1>4
    <2>5. Cardinality(Above(S, i)) \in Nat /\ Cardinality(Above(S, k)) \in Nat
      BY <1>2, <2>2
    <2> QED
      BY <2>3, <2>4, <2>5
  <1>5. ASSUME NEW k \in S \ T PROVE Cardinality(T) = cap
    <2>1. SUFFICES ASSUME Cardinality(T) < cap PROVE FALSE
      <3> HIDE DEF T
      <3> QED
        BY <1>1, <1>3
    <2>2. S \ T \in SUBSET S /\ S \ T # {} /\ S \ T \in SUBSET Nat
      OBVIOUS
    <2>3. IsFiniteSet(S \ T)
      BY <2>2, FS_Subset
    <2>4. PICK m \in S \ T : Above(S \ T, m) = {}
      BY <2>2, <2>3, Largest
    <2>5. Above(S, m) \in SUBSET T
      BY <2>4 DEF Above
    <2>6. Cardinality(Above(S, m)) <= Cardinality(T)
      BY <1>1, <2>5, FS_Subset
    <2>7. ~(Cardinality(Above(S, m)) < cap) /\ Cardinality(Above(S, m)) \in Nat
      BY <1>2, <2>4
    <2> HIDE DEF T
    <2> QED
      BY <1>1, <2>1, <2>6, <2>7
  <1> QED
    BY <1>3, <1>4, <1>5

-----------------------------------------------------------------------------
(* The chain.                                                               *)

\* The indices among which a commit at or past the chain's place chooses.
Merged(c, i) == DOMAIN c.skipped \cup c.index .. i - 1

LEMMA CommitKept ==
  ASSUME NEW c, Sound(c), NEW i \in Indices, Derivable(c, i), Behind(c, i)
  PROVE  /\ Sound(Committed(c, i))
         /\ Committed(c, i).id = c.id /\ Committed(c, i).index = c.index
         /\ DOMAIN Committed(c, i).skipped = DOMAIN c.skipped \ {i}
  <1> DEFINE D == DOMAIN c.skipped \ {i}
             s == Restrict(c.skipped, D)
  <1>1. Committed(c, i) = [c EXCEPT !.skipped = s]
    BY DEF Committed
  <1>2. c \in Inbounds /\ c.skipped \in [DOMAIN c.skipped -> Indices] /\ DOMAIN c.skipped \subseteq Indices
    BY DEF Sound, Inbounds
  <1>3. DOMAIN s = D /\ \A j \in D : s[j] = c.skipped[j]
    BY DEF Restrict
  <1>4. s \in [D -> Indices] /\ D \in SUBSET Indices
    BY <1>2 DEF Restrict
  <1>5. s \in UNION {[E -> Indices] : E \in SUBSET Indices}
    BY <1>4
  <1>6. Cardinality(D) <= SKIPPED_CAP
    <2>1. IsFiniteSet(DOMAIN c.skipped)
      <3>1. IsFiniteSet(Indices)
        BY FS_Interval, SenderKeyAssumption DEF Indices
      <3> QED
        BY <1>2, <3>1, FS_Subset
    <2>2. Cardinality(D) <= Cardinality(DOMAIN c.skipped) /\ IsFiniteSet(D)
      BY <2>1, FS_Subset
    <2>3. Cardinality(D) \in Nat /\ Cardinality(DOMAIN c.skipped) \in Nat
      BY <2>1, <2>2, FS_CardinalityType
    <2>4. Cardinality(DOMAIN c.skipped) <= SKIPPED_CAP
      BY DEF Sound
    <2> HIDE DEF D
    <2> QED
      BY <2>2, <2>3, <2>4, SenderKeyAssumption
  <1> HIDE DEF s
  <1>7. /\ Committed(c, i) \in Inbounds
        /\ Committed(c, i).id = c.id /\ Committed(c, i).index = c.index
        /\ Committed(c, i).key = c.key /\ Committed(c, i).skipped = s
    BY <1>1, <1>2, <1>5 DEF Inbounds
  <1> QED
    BY <1>3, <1>6, <1>7 DEF Sound

LEMMA CommitForward ==
  ASSUME NEW c, Sound(c), NEW i \in Indices, Derivable(c, i), ~Behind(c, i)
  PROVE  /\ Sound(Committed(c, i))
         /\ Committed(c, i).id = c.id /\ Committed(c, i).index = i + 1
         /\ c.index <= i /\ i < MAX_INDEX
         /\ DOMAIN Committed(c, i).skipped \subseteq Merged(c, i)
         /\ \A k \in Merged(c, i) \ DOMAIN Committed(c, i).skipped :
              /\ Cardinality(DOMAIN Committed(c, i).skipped) = SKIPPED_CAP
              /\ \A j \in DOMAIN Committed(c, i).skipped : k < j
  <1> DEFINE M == Merged(c, i)
             f == [j \in M |-> IF j \in DOMAIN c.skipped THEN c.skipped[j] ELSE NewlySkipped(c, i)[j]]
             T == {j \in M : Cardinality(Above(M, j)) < SKIPPED_CAP}
             s == Trimmed(f)
  <1>1. Committed(c, i) = [c EXCEPT !.index = i + 1, !.key = Derived(c, i) + 1, !.skipped = s]
    BY DEF Committed, Merged
  <1>2. /\ c \in Inbounds /\ c.index \in Nat /\ c.key = c.index
        /\ c.skipped \in [DOMAIN c.skipped -> Indices] /\ DOMAIN c.skipped \subseteq Indices
        /\ \A j \in DOMAIN c.skipped : c.skipped[j] = j /\ j < c.index
    BY DEF Sound, Inbounds, Indices
  <1>3. i \in Nat /\ c.index <= i /\ i < MAX_INDEX /\ MAX_INDEX \in Nat /\ SKIPPED_CAP \in Nat
    BY <1>2, SenderKeyAssumption DEF Derivable, Behind, Indices
  <1>4. M \in SUBSET Indices /\ M \in SUBSET Nat /\ \A j \in M : j < i + 1
    BY <1>2, <1>3 DEF Merged, Indices
  <1>5. \A j \in M : f[j] = j
    <2>1. ASSUME NEW j \in M, j \notin DOMAIN c.skipped PROVE NewlySkipped(c, i)[j] = j
      <3>1. j \in c.index .. i - 1
        BY <2>1 DEF Merged
      <3> QED
        BY <1>2, <1>3, <3>1 DEF NewlySkipped
    <2> QED
      BY <1>2, <2>1
  <1>6. IsFiniteSet(M)
    <2>1. IsFiniteSet(Indices)
      BY FS_Interval, <1>3 DEF Indices
    <2> QED
      BY <1>4, <2>1, FS_Subset
  <1>7. DOMAIN f = M
    OBVIOUS
  <1> HIDE DEF f, M
  <1>8. DOMAIN s = T /\ \A j \in T : s[j] = j
    BY <1>5, <1>7 DEF Trimmed, Restrict, Above
  <1>9. /\ Cardinality(T) <= SKIPPED_CAP
        /\ \A k \in M \ T : Cardinality(T) = SKIPPED_CAP /\ \A j \in T : k < j
    BY <1>3, <1>4, <1>6, TopOf
  <1>10. T \subseteq M
    OBVIOUS
  <1> HIDE DEF T
  <1>11. s \in UNION {[E -> Indices] : E \in SUBSET Indices}
    <2>1. T \in SUBSET Indices /\ \A j \in T : s[j] \in Indices
      BY <1>4, <1>8, <1>10
    <2>2. s = [j \in T |-> s[j]]
      BY <1>8, <1>7 DEF Trimmed, Restrict
    <2> QED
      BY <2>1, <2>2
  <1> HIDE DEF s
  <1>12. Derived(c, i) = i
    BY <1>2, <1>3 DEF Derived, Behind
  <1>13. i + 1 \in Indices
    BY <1>3 DEF Indices
  <1>14. /\ Committed(c, i) \in Inbounds
         /\ Committed(c, i).id = c.id /\ Committed(c, i).index = i + 1
         /\ Committed(c, i).key = i + 1 /\ Committed(c, i).skipped = s
    <2>1. c = [id |-> c.id, index |-> c.index, key |-> c.key, skipped |-> c.skipped] /\ c.id \in ChainIds
      BY <1>2 DEF Inbounds
    <2>2. Committed(c, i) = [id |-> c.id, index |-> i + 1, key |-> i + 1, skipped |-> s]
      BY <1>1, <1>12, <2>1
    <2> QED
      BY <1>11, <1>13, <2>1, <2>2 DEF Inbounds
  <1>15. Sound(Committed(c, i))
    BY <1>4, <1>8, <1>9, <1>10, <1>14 DEF Sound
  <1> QED
    BY <1>3, <1>8, <1>9, <1>10, <1>14, <1>15 DEF M

\* A commit keeps a chain sound; it can open nothing new and not the frame
\* again; what else it can no longer open is older than a full cache.
LEMMA CommitSound ==
  ASSUME NEW c, Sound(c), NEW i \in Indices, Derivable(c, i)
  PROVE  LET d == Committed(c, i)
         IN  /\ Sound(d) /\ d.id = c.id /\ d.index >= c.index
             /\ i < d.index /\ i \notin DOMAIN d.skipped
             /\ Openable(d) \subseteq Openable(c)
             /\ \A k \in Openable(c) \ Openable(d) :
                  \/ k = i
                  \/ /\ Cardinality(DOMAIN d.skipped) = SKIPPED_CAP
                     /\ \A j \in DOMAIN d.skipped : k < j
  <1> DEFINE d == Committed(c, i)
  <1>1. c.index \in Nat /\ i \in Nat /\ MAX_INDEX \in Nat /\ \A j \in DOMAIN c.skipped : j \in Nat /\ j < c.index
    BY SenderKeyAssumption DEF Sound, Inbounds, Indices
  <1>2. CASE Behind(c, i)
    <2>1. Sound(d) /\ d.id = c.id /\ d.index = c.index /\ DOMAIN d.skipped = DOMAIN c.skipped \ {i}
      BY <1>2, CommitKept
    <2>2. i < c.index
      BY <1>2 DEF Behind
    <2> HIDE DEF d
    <2>3. Openable(d) = Openable(c) \ {i}
      BY <1>1, <2>1, <2>2 DEF Openable
    <2> QED
      BY <1>1, <2>1, <2>2, <2>3 DEF d
  <1>3. CASE ~Behind(c, i)
    <2>1. /\ Sound(d) /\ d.id = c.id /\ d.index = i + 1 /\ c.index <= i /\ i < MAX_INDEX
          /\ DOMAIN d.skipped \subseteq Merged(c, i)
          /\ \A k \in Merged(c, i) \ DOMAIN d.skipped :
               /\ Cardinality(DOMAIN d.skipped) = SKIPPED_CAP
               /\ \A j \in DOMAIN d.skipped : k < j
      BY <1>3, CommitForward
    <2> HIDE DEF d
    <2>2. i \notin Merged(c, i)
      BY <1>1, <2>1 DEF Merged
    <2>3. Openable(c) = Merged(c, i) \cup {i} \cup (i + 1 .. MAX_INDEX - 1)
      BY <1>1, <2>1 DEF Openable, Merged
    <2>4. Openable(d) = DOMAIN d.skipped \cup (i + 1 .. MAX_INDEX - 1)
      BY <2>1 DEF Openable
    <2>5. d.index >= c.index /\ i < d.index
      BY <1>1, <2>1
    <2> QED
      BY <2>1, <2>2, <2>3, <2>4, <2>5 DEF d
  <1> QED
    BY <1>2, <1>3

\* A chain just distributed is sound, and opens from its index on.
LEMMA InboundSound ==
  ASSUME NEW d \in Chain, d.key = d.index
  PROVE  /\ Sound(Inbound(d)) /\ Inbound(d).id = d.id /\ Inbound(d).index = d.index
         /\ DOMAIN Inbound(d).skipped = {}
         /\ Openable(Inbound(d)) = d.index .. MAX_INDEX - 1
  <1> DEFINE e == [i \in {} |-> 0]
  <1>1. e \in UNION {[D -> Indices] : D \in SUBSET Indices} /\ DOMAIN e = {}
    <2>1. e \in [{} -> Indices] /\ {} \in SUBSET Indices
      OBVIOUS
    <2> QED
      BY <2>1
  <1>2. Inbound(d) = [id |-> d.id, index |-> d.index, key |-> d.key, skipped |-> e]
    BY DEF Inbound
  <1> HIDE DEF e
  <1>3. /\ Inbound(d) \in Inbounds /\ Inbound(d).id = d.id /\ Inbound(d).index = d.index
        /\ Inbound(d).key = d.index /\ Inbound(d).skipped = e
    <2>1. d.id \in ChainIds /\ d.index \in Indices /\ d.key \in Indices
      BY DEF Chain
    <2>2. /\ Inbound(d).id = d.id /\ Inbound(d).index = d.index
          /\ Inbound(d).key = d.index /\ Inbound(d).skipped = e
      BY <1>2
    <2>3. Inbound(d) \in Inbounds
      <3> DEFINE Caches == UNION {[D -> Indices] : D \in SUBSET Indices}
      <3>1. Inbounds = [id : ChainIds, index : Indices, key : Indices, skipped : Caches]
        BY DEF Inbounds
      <3>2. e \in Caches
        BY <1>1
      <3> HIDE DEF Caches
      <3> QED
        BY <1>2, <2>1, <3>1, <3>2
    <2> QED
      BY <2>2, <2>3
  <1>4. Cardinality({}) <= SKIPPED_CAP
    BY FS_EmptySet, SenderKeyAssumption
  <1> QED
    BY <1>1, <1>3, <1>4 DEF Sound, Openable

-----------------------------------------------------------------------------
(* The air and the store.                                                   *)

\* Handing out a chain only lowers what was given.
LEMMA ShareFlight ==
  ASSUME Types, Distributions, NEW c \in Chain, c.key = c.index, Share(c)
  PROVE  /\ IsABag(inFlight') /\ DOMAIN inFlight' \subseteq Chain
         /\ Distributions'
         /\ given' \in [ChainIds -> Indices]
         /\ \A id \in ChainIds : given'[id] <= given[id]
  <1>1. /\ DOMAIN inFlight' = DOMAIN inFlight \cup {c}
        /\ IsABag(inFlight')
    <2>1. inFlight' = inFlight (+) SetToBag({c}) /\ IsABag(inFlight)
      BY DEF Share, Distribution, Types
    <2>2. DOMAIN inFlight' = DOMAIN inFlight \cup {c}
      BY <2>1 DEF SetToBag, (+)
    <2>3. \A e \in DOMAIN inFlight' : inFlight'[e] \in {n \in Nat : n > 0}
      BY <2>1 DEF SetToBag, (+), IsABag
    <2>4. inFlight' = [e \in DOMAIN inFlight' |-> inFlight'[e]]
      BY <2>1 DEF SetToBag, (+)
    <2> QED
      BY <2>2, <2>3, <2>4 DEF IsABag
  <1>2. c.id \in ChainIds /\ c.index \in Indices /\ Indices \subseteq Nat
    BY SenderKeyAssumption DEF Chain, Indices
  <1>3. given \in [ChainIds -> Indices]
    BY DEF Types
  <1>4. given' = [given EXCEPT ![c.id] = IF c.index < given[c.id] THEN c.index ELSE given[c.id]]
    BY DEF Share
  <1>5. given' \in [ChainIds -> Indices]
    BY <1>2, <1>3, <1>4
  <1>6. ASSUME NEW id \in ChainIds PROVE given'[id] <= given[id]
    <2>1. given[id] \in Nat /\ c.index \in Nat
      BY <1>2, <1>3
    <2>2. CASE id = c.id
      <3>1. given'[id] = IF c.index < given[id] THEN c.index ELSE given[id]
        BY <1>2, <1>3, <1>4, <2>2
      <3> QED
        BY <2>1, <3>1
    <2>3. CASE id # c.id
      BY <1>3, <1>4, <2>1, <2>3
    <2> QED
      BY <2>2, <2>3
  <1>7. given'[c.id] <= c.index
    <2>1. given[c.id] \in Nat /\ c.index \in Nat
      BY <1>2, <1>3
    <2>2. given'[c.id] = IF c.index < given[c.id] THEN c.index ELSE given[c.id]
      BY <1>2, <1>3, <1>4
    <2> QED
      BY <2>1, <2>2
  <1>8. Distributions'
    <2> SUFFICES ASSUME NEW d \in DOMAIN inFlight' PROVE d.key = d.index /\ d.index >= given'[d.id]
      BY DEF Distributions
    <2>1. CASE d = c
      BY <1>2, <1>5, <1>7, <2>1
    <2>2. CASE d \in DOMAIN inFlight
      <3>1. d.id \in ChainIds /\ d.index \in Indices /\ d.key = d.index /\ d.index >= given[d.id]
        BY <2>2 DEF Types, Chain, Distributions
      <3>2. given'[d.id] \in Nat /\ given[d.id] \in Nat /\ d.index \in Nat
        BY <1>2, <1>3, <1>5, <3>1
      <3> QED
        BY <1>6, <3>1, <3>2
    <2> QED
      BY <1>1, <2>1, <2>2
  <1> QED
    BY <1>1, <1>5, <1>6, <1>8 DEF Types

\* A distribution that was admitted or lost is gone.
LEMMA RemoveFlight ==
  ASSUME Types, Distributions, NEW d \in DOMAIN inFlight,
         inFlight' = inFlight (-) SetToBag({d}), given' = given
  PROVE  /\ IsABag(inFlight') /\ DOMAIN inFlight' \subseteq Chain
         /\ Distributions'
         /\ inFlight' # inFlight
  <1> DEFINE B == [e \in DOMAIN inFlight |-> IF e \in {d} THEN inFlight[e] - 1 ELSE inFlight[e]]
  <1>1. inFlight' = [e \in {x \in DOMAIN B : B[x] > 0} |-> B[e]]
    BY DEF (-), SetToBag
  <1>2. \A e \in DOMAIN inFlight : inFlight[e] \in Nat /\ inFlight[e] > 0
    BY DEF Types, IsABag
  <1>3. DOMAIN B = DOMAIN inFlight /\ \A e \in DOMAIN inFlight : B[e] \in Int
    BY <1>2
  <1>4. B[d] = inFlight[d] - 1
    OBVIOUS
  <1> HIDE DEF B
  <1>5. DOMAIN inFlight' \subseteq DOMAIN inFlight
    BY <1>1, <1>3
  <1>6. IsABag(inFlight')
    BY <1>1, <1>3 DEF IsABag
  <1>7. inFlight' # inFlight
    <2>1. SUFFICES ASSUME inFlight' = inFlight PROVE FALSE
      OBVIOUS
    <2>2. inFlight[d] = B[d]
      BY <1>1, <2>1
    <2> QED
      BY <1>2, <1>4, <2>2
  <1>8. Distributions'
    BY <1>5 DEF Distributions
  <1> QED
    BY <1>5, <1>6, <1>7, <1>8 DEF Types

\* A held chain has its place.
LEMMA HeldPlace ==
  ASSUME Store, NEW id \in Held
  PROVE  Place(id) \in 1 .. Len(chains) /\ chains[Place(id)].id = id
  <1>1. DOMAIN chains = 1 .. Len(chains)
    BY DEF Store
  <1>2. \E n \in DOMAIN chains : chains[n].id = id
    BY DEF Held
  <1> QED
    BY <1>1, <1>2 DEF Place

\* One chain is replaced by another of its id that opens nothing more.
LEMMA Replaced ==
  ASSUME Store, NoRetroactiveAccess, SpentIsBehind,
         NEW p \in 1 .. Len(chains), NEW d, Sound(d), d.id = chains[p].id,
         chains' = [chains EXCEPT ![p] = d], given' = given, evicted' = evicted,
         \A i \in Openable(d) : i >= given[d.id],
         \A k \in spent' \ spent : k[1] = d.id /\ k[2] < d.index /\ k[2] \notin DOMAIN d.skipped,
         \A i \in Indices : i < chains[p].index /\ i \notin DOMAIN chains[p].skipped =>
                            i < d.index /\ i \notin DOMAIN d.skipped,
         spent \subseteq ChainIds \X Indices
  PROVE  Store' /\ NoRetroactiveAccess' /\ SpentIsBehind'
  <1>1. d \in Inbounds
    BY DEF Sound
  <1>2. /\ chains' \in Seq(Inbounds) /\ Len(chains') = Len(chains)
        /\ chains'[p] = d
        /\ \A n \in 1 .. Len(chains) : n # p => chains'[n] = chains[n]
    BY <1>1 DEF Store
  <1>3. Store'
    BY <1>2 DEF Store, Sound, Inbounds
  <1>4. NoRetroactiveAccess'
    BY <1>2 DEF NoRetroactiveAccess, Openable
  <1>5. SpentIsBehind'
    <2> SUFFICES ASSUME NEW k \in spent', k[1] \notin evicted
                 PROVE  \E n \in 1 .. Len(chains') :
                          /\ chains'[n].id = k[1]
                          /\ k[2] < chains'[n].index /\ k[2] \notin DOMAIN chains'[n].skipped
      BY DEF SpentIsBehind
    <2>1. CASE k \notin spent
      BY <1>2, <2>1
    <2>2. CASE k \in spent
      <3>1. PICK n \in 1 .. Len(chains) :
              /\ chains[n].id = k[1]
              /\ k[2] < chains[n].index /\ k[2] \notin DOMAIN chains[n].skipped
        BY <2>2 DEF SpentIsBehind
      <3> QED
        BY <1>2, <3>1
    <2> QED
      BY <2>1, <2>2
  <1> QED
    BY <1>3, <1>4, <1>5

-----------------------------------------------------------------------------
(* Steps.                                                                   *)

\* The sender has no chain but its own, and the peer nothing.
LEMMA ChainInvInit == ChainInit => ChainInv
  <1> SUFFICES ASSUME ChainInit PROVE ChainInv
    OBVIOUS
  <1>1. 0 \in ChainIds /\ 0 \in Indices /\ MAX_INDEX \in Indices
    BY SenderKeyAssumption DEF ChainIds, Indices
  <1>2. own \in Chain /\ own.key = own.index
    BY <1>1 DEF ChainInit, Fresh, Chain
  <1>3. IsABag(EmptyBag) /\ DOMAIN EmptyBag = {}
    BY DEF IsABag, EmptyBag, SetToBag
  <1>4. Types
    BY <1>1, <1>2, <1>3 DEF ChainInit, Types
  <1>5. Ahead /\ Distributions
    BY <1>2, <1>3 DEF ChainInit, Ahead, Distributions
  <1>6. Store
    BY SenderKeyAssumption DEF ChainInit, Store
  <1>7. NoRetroactiveAccess /\ SpentIsBehind
    BY DEF ChainInit, NoRetroactiveAccess, SpentIsBehind
  <1> QED
    BY <1>4, <1>5, <1>6, <1>7 DEF ChainInv

\* What the sender does leaves the store alone, and lowers what was given.
LEMMA StoreStays ==
  ASSUME ChainInv, UNCHANGED <<chains, spent, evicted>>,
         given' \in [ChainIds -> Indices], \A id \in ChainIds : given'[id] <= given[id]
  PROVE  Store' /\ NoRetroactiveAccess' /\ SpentIsBehind'
  <1>1. Store' /\ SpentIsBehind'
    BY DEF ChainInv, Store, SpentIsBehind, Sound, Inbounds
  <1>2. NoRetroactiveAccess'
    <2> SUFFICES ASSUME NEW n \in 1 .. Len(chains), NEW i \in Openable(chains[n])
                 PROVE  i >= given'[chains[n].id]
      BY DEF NoRetroactiveAccess, Openable
    <2>1. chains[n] \in Inbounds /\ i >= given[chains[n].id]
      BY DEF ChainInv, Store, Sound, NoRetroactiveAccess
    <2>2. chains[n].id \in ChainIds /\ Indices \subseteq Nat /\ i \in Int
      BY <2>1, SenderKeyAssumption DEF Inbounds, Indices, Openable
    <2>3. given[chains[n].id] \in Nat /\ given'[chains[n].id] \in Nat
      BY <2>2 DEF ChainInv, Types
    <2> QED
      BY <2>1, <2>2, <2>3
  <1> QED
    BY <1>1, <1>2

LEMMA SenderIInv ==
  ASSUME ChainInv, Broadcast \/ Redistribute \/ RedistributeOther \/ RotateChain
  PROVE  ChainInv'
  <1>0. /\ own \in Chain /\ own.id \in ChainIds /\ own.index \in Indices /\ own.key = own.index
        /\ given \in [ChainIds -> Indices] /\ Indices \subseteq Nat /\ ChainIds \subseteq Nat
        /\ own.id \in Nat /\ own.index \in Nat /\ own.key \in Nat
        /\ MAX_INDEX \in Nat /\ MaxChain \in Nat
        /\ \A id \in ChainIds : given[id] <= given[id]
    <2>1. Indices \subseteq Nat /\ ChainIds \subseteq Nat
      BY SenderKeyAssumption DEF Indices, ChainIds
    <2>2. /\ own \in Chain /\ own.id \in ChainIds /\ own.index \in Indices /\ own.key = own.index
          /\ given \in [ChainIds -> Indices]
      BY DEF ChainInv, Types, Ahead, Chain
    <2>3. ASSUME NEW id \in ChainIds PROVE given[id] <= given[id]
      <3>1. given[id] \in Nat
        BY <2>1, <2>2
      <3> QED
        BY <3>1
    <2> QED
      BY <2>1, <2>2, <2>3, SenderKeyAssumption
  <1>1. CASE Broadcast
    <2>1. /\ own.index < MAX_INDEX /\ air' = air \cup {own} /\ own' = Step(own)
          /\ UNCHANGED <<shared, inFlight, chains, spent, given, evicted>>
      BY <1>1 DEF Broadcast
    <2>2. own.index + 1 \in Indices
      BY <1>0, <2>1 DEF Indices
    <2>3. /\ own' \in Chain /\ own'.id = own.id
          /\ own'.index = own.index + 1 /\ own'.key = own.key + 1
      BY <1>0, <2>1, <2>2 DEF Step, Chain
    <2>4. Types'
      BY <1>0, <2>1, <2>3 DEF ChainInv, Types
    <2>5. Ahead'
      <3>1. ASSUME NEW f \in air' PROVE f.id <= own'.id /\ (f.id = own'.id => f.key < own'.key)
        <4>1. f \in Chain
          BY <2>4 DEF Types
        <4>2. f.key \in Nat /\ f.id \in Nat
          BY <1>0, <4>1 DEF Chain
        <4>3. CASE f = own
          BY <1>0, <2>3, <4>3
        <4>4. CASE f \in air
          BY <1>0, <2>3, <4>2, <4>4 DEF ChainInv, Ahead
        <4> QED
          BY <2>1, <4>3, <4>4
      <3> QED
        BY <1>0, <2>3, <3>1 DEF Ahead
    <2>6. Distributions'
      BY <2>1 DEF ChainInv, Distributions
    <2> QED
      BY <1>0, <2>1, <2>4, <2>5, <2>6, StoreStays DEF ChainInv
  <1>2. CASE Redistribute
    <2>1. /\ Share(own) /\ shared' = shared \cup {"peer"}
          /\ UNCHANGED <<own, air, chains, spent, evicted>>
      BY <1>2 DEF Redistribute
    <2>2. /\ IsABag(inFlight') /\ DOMAIN inFlight' \subseteq Chain /\ Distributions'
          /\ given' \in [ChainIds -> Indices] /\ \A id \in ChainIds : given'[id] <= given[id]
      BY <1>0, <2>1, ShareFlight DEF ChainInv
    <2>3. Types' /\ Ahead'
      BY <2>1, <2>2 DEF ChainInv, Types, Ahead, Correspondents
    <2> QED
      BY <2>1, <2>2, <2>3, StoreStays DEF ChainInv
  <1>3. CASE RedistributeOther
    <2>1. /\ shared' = shared \cup {"other"}
          /\ UNCHANGED <<own, air, inFlight, chains, spent, given, evicted>>
      BY <1>3 DEF RedistributeOther
    <2>2. Types' /\ Ahead' /\ Distributions'
      BY <2>1 DEF ChainInv, Types, Ahead, Distributions, Correspondents
    <2> QED
      BY <1>0, <2>1, <2>2, StoreStays DEF ChainInv
  <1>4. CASE RotateChain
    <2>1. /\ own.id < MaxChain /\ own' = Fresh(own.id + 1)
          /\ UNCHANGED <<shared, air, chains, spent, evicted>>
      BY <1>4 DEF RotateChain
    <2>2. own.id + 1 \in ChainIds /\ 0 \in Indices
      BY <1>0, <2>1 DEF ChainIds, Indices
    <2>3. own' \in Chain /\ own'.id = own.id + 1 /\ own'.key = own'.index
      BY <2>1, <2>2 DEF Fresh, Chain
    <2>4. /\ IsABag(inFlight') /\ DOMAIN inFlight' \subseteq Chain /\ Distributions'
          /\ given' \in [ChainIds -> Indices] /\ \A id \in ChainIds : given'[id] <= given[id]
      <3>1. CASE "peer" \in shared
        <4>1. Share(own')
          BY <1>4, <3>1 DEF RotateChain
        <4> QED
          BY <2>3, <4>1, ShareFlight DEF ChainInv
      <3>2. CASE "peer" \notin shared
        <4>1. UNCHANGED <<inFlight, given>>
          BY <1>4, <3>2 DEF RotateChain
        <4> QED
          BY <1>0, <4>1 DEF ChainInv, Types, Distributions
      <3> QED
        BY <3>1, <3>2
    <2>5. Types'
      BY <2>1, <2>3, <2>4 DEF ChainInv, Types
    <2>6. Ahead'
      <3>1. ASSUME NEW f \in air PROVE f.id <= own'.id /\ f.id # own'.id
        <4>1. f.id \in Nat /\ f.id <= own.id
          BY <1>0 DEF ChainInv, Types, Chain, Ahead
        <4> QED
          BY <1>0, <2>3, <4>1
      <3> QED
        BY <2>1, <2>3, <3>1 DEF Ahead
    <2> QED
      BY <2>1, <2>4, <2>5, <2>6, StoreStays DEF ChainInv
  <1> QED
    BY <1>1, <1>2, <1>3, <1>4

\* A distribution arrives, or is lost.
LEMMA FlightIInv ==
  ASSUME ChainInv, NEW d \in DOMAIN inFlight, Lose(d) \/ InstallChain(d)
  PROVE  ChainInv' /\ inFlight' # inFlight
  <1>1. /\ inFlight' = inFlight (-) SetToBag({d})
        /\ UNCHANGED <<own, shared, air, spent, given>>
    BY DEF Lose, InstallChain, InstallForward, InstallRefused, InstallNew, senderVars
  <1>2. /\ IsABag(inFlight') /\ DOMAIN inFlight' \subseteq Chain /\ Distributions'
        /\ inFlight' # inFlight
    BY <1>1, RemoveFlight DEF ChainInv
  <1>3. Ahead'
    BY <1>1 DEF ChainInv, Ahead
  <1>4. evicted' \subseteq ChainIds => Types'
    BY <1>1, <1>2 DEF ChainInv, Types
  <1>5. /\ d \in Chain /\ d.key = d.index /\ d.index >= given[d.id]
        /\ d.id \in ChainIds /\ d.index \in Nat /\ given[d.id] \in Nat /\ MAX_INDEX \in Nat
    <2>1. Indices \subseteq Nat
      BY SenderKeyAssumption DEF Indices
    <2> QED
      BY <2>1, SenderKeyAssumption DEF ChainInv, Types, Chain, Distributions
  <1> DEFINE e == Inbound(d)
  <1>6. /\ Sound(e) /\ e.id = d.id /\ e.index = d.index /\ DOMAIN e.skipped = {}
        /\ Openable(e) = d.index .. MAX_INDEX - 1
    BY <1>5, InboundSound
  <1>7. \A i \in Openable(e) : i >= given[e.id]
    BY <1>5, <1>6
  <1>8. \A n \in 1 .. Len(chains) : chains[n] \in Inbounds /\ chains[n].index \in Nat /\ chains[n].id \in ChainIds
    <2>1. Indices \subseteq Nat
      BY SenderKeyAssumption DEF Indices
    <2> QED
      BY <2>1 DEF ChainInv, Store, Sound, Inbounds
  <1>9. CASE Lose(d) \/ InstallRefused(d)
    <2>1. UNCHANGED <<chains, evicted>>
      BY <1>9 DEF Lose, InstallRefused
    <2>2. Store' /\ NoRetroactiveAccess' /\ SpentIsBehind'
      BY <1>1, <2>1 DEF ChainInv, Store, Sound, Inbounds, NoRetroactiveAccess, Openable, SpentIsBehind
    <2> QED
      BY <1>2, <1>3, <1>4, <2>1, <2>2 DEF ChainInv, Types
  <1>10. CASE InstallForward(d)
    <2> DEFINE p == Place(d.id)
    <2>1. p \in 1 .. Len(chains) /\ chains[p].id = d.id
      BY <1>10, HeldPlace DEF InstallForward, ChainInv
    <2>2. chains' = [chains EXCEPT ![p] = e] /\ evicted' = evicted /\ d.index > chains[p].index
      BY <1>10 DEF InstallForward, MovesForward
    <2> HIDE DEF p, e
    <2>3. ASSUME NEW i \in spent, i[1] \notin evicted, i[1] = d.id PROVE i[2] < chains[p].index
      <3>1. PICK n \in 1 .. Len(chains) : chains[n].id = i[1] /\ i[2] < chains[n].index
        BY <2>3 DEF ChainInv, SpentIsBehind
      <3>2. n = p
        BY <2>1, <2>3, <3>1 DEF ChainInv, Store
      <3> QED
        BY <3>1, <3>2
    <2>4. /\ chains' \in Seq(Inbounds) /\ Len(chains') = Len(chains) /\ chains'[p] = e
          /\ \A n \in 1 .. Len(chains) : n # p => chains'[n] = chains[n]
      BY <1>6, <2>1, <2>2 DEF ChainInv, Store, Sound
    <2>5. Store'
      <3>1. \A n \in 1 .. Len(chains') : Sound(chains'[n]) /\ chains'[n].id = chains[n].id
        BY <1>6, <2>1, <2>4 DEF ChainInv, Store
      <3> QED
        BY <2>4, <3>1 DEF ChainInv, Store, Sound, Inbounds
    <2>6. NoRetroactiveAccess'
      BY <1>1, <1>7, <2>4 DEF ChainInv, NoRetroactiveAccess, Openable
    <2>7. SpentIsBehind'
      <3> SUFFICES ASSUME NEW k \in spent, k[1] \notin evicted
                   PROVE  \E n \in 1 .. Len(chains') :
                            /\ chains'[n].id = k[1]
                            /\ k[2] < chains'[n].index /\ k[2] \notin DOMAIN chains'[n].skipped
        BY <1>1, <2>2 DEF SpentIsBehind
      <3>1. PICK n \in 1 .. Len(chains) :
              /\ chains[n].id = k[1]
              /\ k[2] < chains[n].index /\ k[2] \notin DOMAIN chains[n].skipped
        BY DEF ChainInv, SpentIsBehind
      <3>2. k[2] \in Nat
        BY SenderKeyAssumption DEF ChainInv, Types, Indices
      <3>3. CASE n = p
        BY <1>5, <1>6, <1>8, <2>1, <2>2, <2>4, <3>1, <3>2, <3>3
      <3>4. CASE n # p
        BY <2>4, <3>1, <3>4
      <3> QED
        BY <3>3, <3>4
    <2> QED
      BY <1>2, <1>3, <1>4, <2>2, <2>5, <2>6, <2>7 DEF ChainInv, Types
  <1>11. CASE InstallNew(d)
    <2>1. /\ d.id \notin Held
          /\ chains' = <<e>> \o SubSeq(chains, 1, Kept)
          /\ evicted' = evicted \cup {chains[n].id : n \in Kept + 1 .. Len(chains)}
      BY <1>11 DEF InstallNew
    <2>2. chains \in Seq(Inbounds) /\ Len(chains) \in Nat /\ CHAINS_PER_PEER \in Nat \ {0}
      BY SenderKeyAssumption DEF ChainInv, Store
    <2>3. Kept \in Nat /\ Kept <= Len(chains) /\ Kept + 1 <= CHAINS_PER_PEER
      BY <2>2 DEF Kept, ChainInv, Store
    <2>4. e \in Inbounds
      BY <1>6 DEF Sound
    <2> HIDE DEF e
    <2>5. /\ SubSeq(chains, 1, Kept) \in Seq(Inbounds) /\ Len(SubSeq(chains, 1, Kept)) = Kept
          /\ \A n \in 1 .. Kept : SubSeq(chains, 1, Kept)[n] = chains[n]
      BY <2>2, <2>3
    <2>6. /\ chains' \in Seq(Inbounds) /\ Len(chains') = Kept + 1 /\ chains'[1] = e
          /\ \A n \in 2 .. Kept + 1 : chains'[n] = chains[n - 1] /\ n - 1 \in 1 .. Len(chains)
      BY <2>1, <2>3, <2>4, <2>5
    <2>7. \A n \in 1 .. Kept + 1 : n = 1 \/ n \in 2 .. Kept + 1
      BY <2>3
    <2>8. \A n \in 1 .. Len(chains) : chains[n].id # d.id
      BY <2>1, <2>2 DEF Held
    <2>9. Store'
      <3>1. \A n \in 1 .. Len(chains') : Sound(chains'[n])
        BY <1>6, <2>6, <2>7 DEF ChainInv, Store
      <3>2. ASSUME NEW m \in 1 .. Len(chains'), NEW n \in 1 .. Len(chains'), chains'[m].id = chains'[n].id
            PROVE  m = n
        <4>0. \A l \in 2 .. Kept + 1 : chains'[l].id # d.id
          BY <2>6, <2>8
        <4>1. CASE m = 1 \/ n = 1
          BY <1>6, <2>6, <2>7, <3>2, <4>0, <4>1
        <4>2. CASE m # 1 /\ n # 1
          <5>1. m \in 2 .. Kept + 1 /\ n \in 2 .. Kept + 1
            BY <2>6, <2>7, <4>2
          <5>2. /\ m - 1 \in 1 .. Len(chains) /\ n - 1 \in 1 .. Len(chains)
                /\ chains[m - 1].id = chains[n - 1].id
            BY <2>6, <3>2, <5>1
          <5>3. m - 1 = n - 1
            BY <5>2 DEF ChainInv, Store
          <5> QED
            BY <5>1, <5>3
        <4> QED
          BY <4>1, <4>2
      <3> QED
        BY <2>3, <2>6, <3>1, <3>2 DEF Store, Sound, Inbounds
    <2>10. NoRetroactiveAccess'
      BY <1>1, <1>7, <2>6, <2>7 DEF ChainInv, NoRetroactiveAccess, Openable
    <2>11. SpentIsBehind'
      <3> SUFFICES ASSUME NEW k \in spent, k[1] \notin evicted'
                   PROVE  \E n \in 1 .. Len(chains') :
                            /\ chains'[n].id = k[1]
                            /\ k[2] < chains'[n].index /\ k[2] \notin DOMAIN chains'[n].skipped
        BY <1>1 DEF SpentIsBehind
      <3>1. PICK n \in 1 .. Len(chains) :
              /\ chains[n].id = k[1]
              /\ k[2] < chains[n].index /\ k[2] \notin DOMAIN chains[n].skipped
        BY <2>1 DEF ChainInv, SpentIsBehind
      <3>2. n <= Kept
        BY <2>1, <2>2, <2>3, <3>1
      <3>3. n + 1 \in 2 .. Kept + 1 /\ chains'[n + 1] = chains[n] /\ n + 1 \in 1 .. Len(chains')
        BY <2>3, <2>6, <3>2
      <3> QED
        BY <3>1, <3>3
    <2>12. evicted' \subseteq ChainIds
      <3>1. \A n \in Kept + 1 .. Len(chains) : chains[n].id \in ChainIds
        BY <1>8, <2>2, <2>3
      <3> QED
        BY <2>1, <3>1 DEF ChainInv, Types
    <2> QED
      BY <1>2, <1>3, <1>4, <2>9, <2>10, <2>11, <2>12 DEF ChainInv
  <1> QED
    BY <1>2, <1>9, <1>10, <1>11 DEF InstallChain

\* What a commit does to the chain a broadcast belongs to.
LEMMA OpenCommits ==
  ASSUME ChainInv, NEW f \in air, Open(f)
  PROVE  LET p == Place(f.id)
             d == Committed(chains[p], f.index)
         IN  /\ p \in 1 .. Len(chains) /\ chains[p].id = f.id /\ Sound(chains[p])
             /\ Sound(d) /\ d.id = f.id /\ d.index >= chains[p].index
             /\ f.index < d.index /\ f.index \notin DOMAIN d.skipped
             /\ Openable(d) \subseteq Openable(chains[p])
             /\ \A k \in Openable(chains[p]) \ Openable(d) :
                  \/ k = f.index
                  \/ /\ Cardinality(DOMAIN d.skipped) = SKIPPED_CAP
                     /\ \A j \in DOMAIN d.skipped : k < j
             /\ chains' = [chains EXCEPT ![p] = d]
             /\ spent' = spent \cup {<<f.id, f.index>>}
             /\ UNCHANGED <<own, shared, air, inFlight, given, evicted>>
  <1>1. f \in Chain /\ f.index \in Indices
    BY DEF ChainInv, Types, Chain
  <1>2. Place(f.id) \in 1 .. Len(chains) /\ chains[Place(f.id)].id = f.id
    BY HeldPlace DEF Open, Opens, ChainInv
  <1>3. Sound(chains[Place(f.id)]) /\ Derivable(chains[Place(f.id)], f.index)
    BY <1>2 DEF Open, Opens, ChainInv, Store
  <1>4. /\ chains' = [chains EXCEPT ![Place(f.id)] = Committed(chains[Place(f.id)], f.index)]
        /\ spent' = spent \cup {<<f.id, f.index>>}
        /\ UNCHANGED <<own, shared, air, inFlight, given, evicted>>
    BY DEF Open, senderVars
  <1> QED
    BY <1>1, <1>2, <1>3, <1>4, CommitSound

LEMMA OpenIInv == ASSUME ChainInv, NEW f \in air, Open(f) PROVE ChainInv'
  <1> DEFINE p == Place(f.id)
             c == chains[p]
             d == Committed(c, f.index)
  <1>1. /\ p \in 1 .. Len(chains) /\ c.id = f.id /\ Sound(c)
        /\ Sound(d) /\ d.id = f.id /\ d.index >= c.index
        /\ f.index < d.index /\ f.index \notin DOMAIN d.skipped
        /\ Openable(d) \subseteq Openable(c)
        /\ chains' = [chains EXCEPT ![p] = d]
        /\ spent' = spent \cup {<<f.id, f.index>>}
        /\ UNCHANGED <<own, shared, air, inFlight, given, evicted>>
    BY OpenCommits
  <1>2. c = chains[p]
    OBVIOUS
  <1> HIDE DEF p, c, d
  <1>3. /\ c.index \in Nat /\ d.index \in Nat /\ MAX_INDEX \in Nat
        /\ \A i \in DOMAIN d.skipped : i \in Nat /\ i < d.index
    <2>1. Indices \subseteq Nat
      BY SenderKeyAssumption DEF Indices
    <2>2. /\ c.index \in Indices /\ d.index \in Indices
          /\ d.skipped \in UNION {[D -> Indices] : D \in SUBSET Indices}
          /\ \A i \in DOMAIN d.skipped : i < d.index
      BY <1>1 DEF Sound, Inbounds
    <2>3. DOMAIN d.skipped \subseteq Indices
      BY <2>2
    <2> QED
      BY <2>1, <2>2, <2>3, SenderKeyAssumption
  <1>4. f.id \in ChainIds /\ f.index \in Indices
    BY DEF ChainInv, Types, Chain
  <1>5. Types'
    BY <1>1, <1>4 DEF ChainInv, Types
  <1>6. Ahead' /\ Distributions'
    BY <1>1 DEF ChainInv, Ahead, Distributions
  <1>7. \A i \in Openable(d) : i >= given[d.id]
    BY <1>1, <1>2 DEF ChainInv, NoRetroactiveAccess
  <1>8. ASSUME NEW i \in Indices, i < c.index, i \notin DOMAIN c.skipped
        PROVE  i < d.index /\ i \notin DOMAIN d.skipped
    <2>1. i \in Nat
      BY SenderKeyAssumption DEF Indices
    <2>2. i \notin Openable(c)
      BY <1>3, <1>8, <2>1 DEF Openable
    <2>3. i \notin Openable(d)
      BY <1>1, <2>2
    <2> QED
      BY <1>1, <1>3, <1>8, <2>1, <2>3 DEF Openable
  <1>9. Store' /\ NoRetroactiveAccess' /\ SpentIsBehind'
    <2>1. \A k \in spent' \ spent : k[1] = d.id /\ k[2] < d.index /\ k[2] \notin DOMAIN d.skipped
      BY <1>1
    <2>2. /\ Store /\ NoRetroactiveAccess /\ SpentIsBehind /\ spent \subseteq ChainIds \X Indices
          /\ given' = given /\ evicted' = evicted
          /\ d.id = chains[p].id /\ chains' = [chains EXCEPT ![p] = d]
      BY <1>1, <1>2 DEF ChainInv, Types
    <2>3. \A i \in Indices : i < chains[p].index /\ i \notin DOMAIN chains[p].skipped =>
                              i < d.index /\ i \notin DOMAIN d.skipped
      BY <1>2, <1>8
    <2> QED
      BY <1>1, <1>7, <2>1, <2>2, <2>3, Replaced
  <1> QED
    BY <1>5, <1>6, <1>9 DEF ChainInv

LEMMA ChainInvNext == ChainInv /\ [ChainNext]_chainVars => ChainInv'
  <1> SUFFICES ASSUME ChainInv, [ChainNext]_chainVars PROVE ChainInv'
    OBVIOUS
  <1>1. CASE UNCHANGED chainVars \/ \E id \in ChainIds, i \in Indices : Reject(id, i)
    BY <1>1 DEF Reject, chainVars, ChainInv, Types, Ahead, Distributions, Store, Sound, Inbounds,
                NoRetroactiveAccess, Openable, SpentIsBehind
  <1> QED
    BY <1>1, SenderIInv, FlightIInv, OpenIInv DEF ChainNext

\* The inductive invariant of the broadcast chains (senderkey.rs).
THEOREM ChainInvariant == ChainSpec => []ChainInv
  BY ChainInvInit, ChainInvNext, PTL DEF ChainSpec

-----------------------------------------------------------------------------
(* What follows.                                                            *)

\* The peer derives just the keys the sender used, within its caps, and the
\* sender cannot go back (senderkey.rs, derive and commit).
THEOREM BothInStep == ChainSpec => []InStep
  <1>1. ChainInv => InStep
    <2> SUFFICES ASSUME ChainInv PROVE InStep
      OBVIOUS
    <2>1. DOMAIN chains = 1 .. Len(chains)
      BY DEF ChainInv, Store
    <2>2. ASSUME NEW n \in 1 .. Len(chains) PROVE InboundChain(chains[n])
      <3>1. Sound(chains[n])
        BY DEF ChainInv, Store
      <3>2. /\ chains[n].id \in ChainIds /\ chains[n].index \in Indices /\ chains[n].key \in Indices
            /\ chains[n].skipped \in UNION {[D -> Indices] : D \in SUBSET Indices}
        BY <3>1 DEF Sound, Inbounds
      <3>3. /\ DOMAIN chains[n].skipped \subseteq Indices
            /\ chains[n].skipped \in [DOMAIN chains[n].skipped -> Indices]
        BY <3>2
      <3> QED
        BY <3>1, <3>2, <3>3 DEF Sound, InboundChain, Chain
    <2>3. ChainTypeOK
      BY <2>1, <2>2 DEF ChainInv, Types, Store, ChainTypeOK
    <2> QED
      BY <2>1, <2>3 DEF ChainInv, Ahead, Store, Sound, InStep
  <1> QED
    BY <1>1, ChainInvariant, PTL

\* What was broadcast before the peer was given a chain stays closed to it, and
\* no key opens its broadcast again while the store never lost the chain
\* (ARCHITECTURE.md, "No retroactive access").
THEOREM PastClosed == ChainSpec => []PastStaysShut
  <1>1. ChainInv => PastStaysShut
    <2> SUFFICES ASSUME ChainInv, NEW k \in Reachable
                 PROVE  k[2] >= given[k[1]] /\ (k \in spent => k[1] \in evicted)
      BY DEF PastStaysShut
    <2>1. DOMAIN chains = 1 .. Len(chains)
      BY DEF ChainInv, Store
    <2>2. PICK n \in 1 .. Len(chains) : k \in Reach(chains[n])
      BY <2>1 DEF Reachable
    <2>3. PICK i \in Openable(chains[n]) : k = <<chains[n].id, i>>
      BY <2>2 DEF Reach, Openable
    <2>4. i >= given[chains[n].id]
      BY DEF ChainInv, NoRetroactiveAccess
    <2>5. ASSUME k \in spent, k[1] \notin evicted PROVE FALSE
      <3>1. PICK m \in 1 .. Len(chains) :
              /\ chains[m].id = k[1]
              /\ k[2] < chains[m].index /\ k[2] \notin DOMAIN chains[m].skipped
        BY <2>5 DEF ChainInv, SpentIsBehind
      <3>2. m = n
        BY <2>3, <3>1 DEF ChainInv, Store
      <3>3. chains[n].index \in Nat /\ MAX_INDEX \in Nat
        <4>1. chains[n] \in Inbounds
          BY DEF ChainInv, Store, Sound
        <4> QED
          BY <4>1, SenderKeyAssumption DEF Inbounds, Indices
      <3> QED
        BY <2>3, <3>1, <3>2, <3>3 DEF Openable
    <2> QED
      BY <2>3, <2>4, <2>5
  <1> QED
    BY <1>1, ChainInvariant, PTL

\* No frame but its own costs the peer a broadcast that is on its way, unless
\* the cache is full of newer ones or a distribution arrives (senderkey.rs,
\* derive "without mutating anything").
THEOREM OnlyNamedLosses == ChainSpec => KeysLost
  <1> DEFINE NamedOnly == \A k \in Reachable \ Reachable' :
               \/ k \in spent'
               \/ inFlight' # inFlight
               \/ \E n \in DOMAIN chains' :
                    /\ chains'[n].id = k[1]
                    /\ Cardinality(DOMAIN chains'[n].skipped) = SKIPPED_CAP
                    /\ \A i \in DOMAIN chains'[n].skipped : k[2] < i
  <1>1. ASSUME ChainInv, ChainNext PROVE NamedOnly
    <2>1. CASE \E d \in DOMAIN inFlight : Lose(d) \/ InstallChain(d)
      BY <1>1, <2>1, FlightIInv
    <2>2. CASE UNCHANGED chains
      BY <2>2 DEF Reachable, Reach
    <2>3. CASE \E f \in air : Open(f)
      <3> PICK f \in air : Open(f)
        BY <2>3
      <3> DEFINE p == Place(f.id)
                 c == chains[p]
                 d == Committed(c, f.index)
      <3>1. /\ p \in 1 .. Len(chains) /\ c.id = f.id /\ Sound(d) /\ d.id = f.id
            /\ \A k \in Openable(c) \ Openable(d) :
                 \/ k = f.index
                 \/ /\ Cardinality(DOMAIN d.skipped) = SKIPPED_CAP
                    /\ \A j \in DOMAIN d.skipped : k < j
            /\ chains' = [chains EXCEPT ![p] = d]
            /\ spent' = spent \cup {<<f.id, f.index>>}
        BY <1>1, OpenCommits
      <3>2. c = chains[p]
        OBVIOUS
      <3> HIDE DEF p, c, d
      <3>3. /\ DOMAIN chains = 1 .. Len(chains) /\ DOMAIN chains' = DOMAIN chains
            /\ chains'[p] = d /\ \A n \in DOMAIN chains : n # p => chains'[n] = chains[n]
        BY <1>1, <3>1 DEF ChainInv, Store
      <3> SUFFICES ASSUME NEW k \in Reachable \ Reachable', k \notin spent'
                   PROVE  \E n \in DOMAIN chains' :
                            /\ chains'[n].id = k[1]
                            /\ Cardinality(DOMAIN chains'[n].skipped) = SKIPPED_CAP
                            /\ \A i \in DOMAIN chains'[n].skipped : k[2] < i
        OBVIOUS
      <3>4. PICK n \in DOMAIN chains : k \in Reach(chains[n])
        BY DEF Reachable
      <3>5. n = p
        <4>1. SUFFICES ASSUME n # p PROVE FALSE
          OBVIOUS
        <4>2. chains'[n] = chains[n] /\ n \in DOMAIN chains'
          BY <3>3, <4>1
        <4>3. k \in Reachable'
          BY <3>4, <4>2 DEF Reachable, Reach
        <4> QED
          BY <4>3
      <3>6. PICK i \in Openable(c) : k = <<c.id, i>>
        BY <3>2, <3>4, <3>5 DEF Reach, Openable
      <3>7. i \notin Openable(d)
        <4>1. SUFFICES ASSUME i \in Openable(d) PROVE FALSE
          OBVIOUS
        <4>2. k \in Reach(d)
          BY <3>1, <3>6, <4>1 DEF Reach, Openable
        <4>3. p \in DOMAIN chains' /\ chains'[p] = d
          BY <3>1, <3>3
        <4>4. k \in Reachable'
          BY <4>2, <4>3 DEF Reachable, Reach
        <4> QED
          BY <4>4
      <3>8. i # f.index
        BY <3>1, <3>6
      <3> QED
        BY <3>1, <3>3, <3>6, <3>7, <3>8
    <2>4. CASE Broadcast \/ Redistribute \/ RedistributeOther \/ RotateChain
      BY <2>2, <2>4 DEF Broadcast, Redistribute, RedistributeOther, RotateChain
    <2>5. CASE \E id \in ChainIds, i \in Indices : Reject(id, i)
      BY <2>2, <2>5 DEF Reject, chainVars
    <2> QED
      BY <1>1, <2>1, <2>3, <2>4, <2>5 DEF ChainNext
  <1>2. ChainInv /\ [ChainNext]_chainVars => [NamedOnly]_chainVars
    BY <1>1
  <1> HIDE DEF NamedOnly
  <1>3. ChainSpec => [][NamedOnly]_chainVars
    BY <1>2, ChainInvariant, PTL DEF ChainSpec
  <1> QED
    BY <1>3 DEF NamedOnly, KeysLost
=============================================================================
