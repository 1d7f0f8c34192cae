--------------------------- MODULE SealingProofs ---------------------------
(***************************************************************************)
(* What Sealing guarantees for any nodes, nicknames and lengths, and any    *)
(* number of frames, rotations and faults: what is accepted was built, the  *)
(* padlock is honest, chains travel under prekeys only, frames fit, and no  *)
(* broadcast falls back to the group key.                                   *)
(*                                                                          *)
(* The inductive invariant says it of every frame there is, accepted or     *)
(* not: a frame on the air either holds the ciphertext of one that was      *)
(* built, or holds none, or does not parse; and what was built is bound to  *)
(* its header.                                                              *)
(***************************************************************************)
EXTENDS Sealing, FiniteSetTheorems, TLAPS

(* What the frames of Wire guarantee, whatever is in them: a frame that is  *)
(* built is read back as what it is and fits, flags that parse are those of *)
(* the preamble that is there, and associated data that agree make two      *)
(* frames of one ciphertext the same but for ttl and hops.                  *)

\* f has the fields of a frame, and no others.
Fields ==
  {"magic", "version", "flags", "ttl", "hops", "nickLen", "bodyLen", "counter",
   "sender", "recipient", "msgId", "nonce", "preamble", "nickname", "ct"}
IsFrame(f) == f = [field \in Fields |-> f[field]]

\* Nicknames of whole characters.
IsName(name) ==
  /\ DOMAIN name = {"text", "width", "count", "rest"}
  /\ name = [field \in DOMAIN name |-> name[field]]
  /\ name.width \in 1 .. 4 /\ name.count \in Nat /\ name.rest = 0

\* The lengths the header gives are those of what is there.
Sized(f) ==
  /\ IsName(f.nickname)
  /\ f.nickLen = NameLen(f.nickname)
  /\ f.ct.length \in Nat
  /\ f.bodyLen = f.ct.length

\* What stands between the header and the nickname is a preamble, or nothing.
Announced(f) == f.preamble = NoPreamble \/ f.preamble.preamble \in {"FS", "SK"}

-----------------------------------------------------------------------------
\* A cut nickname is one, and short enough.
LEMMA TruncatedFits ==
  ASSUME NEW name, IsName(name)
  PROVE  /\ IsName(Truncated(name))
         /\ NameLen(Truncated(name)) \in 0 .. MAX_NICKNAME
  <1> DEFINE limit == MAX_NICKNAME \div name.width
             cut == Smaller(name.count, limit)
  <1>1. name.width \in 1 .. 4 /\ name.count \in Nat
    BY DEF IsName
  <1>2. limit \in Nat /\ name.width * limit <= MAX_NICKNAME
    <2>1. CASE name.width = 1
      BY <2>1 DEF MAX_NICKNAME
    <2>2. CASE name.width = 2
      BY <2>2 DEF MAX_NICKNAME
    <2>3. CASE name.width = 3
      BY <2>3 DEF MAX_NICKNAME
    <2>4. CASE name.width = 4
      BY <2>4 DEF MAX_NICKNAME
    <2> QED
      BY <1>1, <2>1, <2>2, <2>3, <2>4
  <1> HIDE DEF limit
  <1>3. cut \in Nat /\ cut <= limit
    BY <1>1, <1>2 DEF Smaller
  <1> HIDE DEF cut
  <1>4. name.width * cut \in Nat /\ name.width * cut <= MAX_NICKNAME
    <2>1. CASE name.width = 1
      BY <1>2, <1>3, <2>1 DEF MAX_NICKNAME
    <2>2. CASE name.width = 2
      BY <1>2, <1>3, <2>2 DEF MAX_NICKNAME
    <2>3. CASE name.width = 3
      BY <1>2, <1>3, <2>3 DEF MAX_NICKNAME
    <2>4. CASE name.width = 4
      BY <1>2, <1>3, <2>4 DEF MAX_NICKNAME
    <2> QED
      BY <1>1, <2>1, <2>2, <2>3, <2>4
  <1>5. Truncated(name) = [name EXCEPT !.count = cut, !.rest = 0]
    BY DEF Truncated, cut, limit
  <1>6. IsName(Truncated(name)) /\ NameLen(Truncated(name)) = name.width * cut + 0
    BY <1>3, <1>5 DEF IsName, NameLen
  <1> QED
    BY <1>4, <1>6 DEF MAX_NICKNAME

\* When two frames of the same ciphertext have the same associated data, only
\* ttl and hops can differ.
LEMMA AadBinds ==
  ASSUME NEW f, NEW g, IsFrame(f), IsFrame(g), Aad(f) = Aad(g), f.ct = g.ct
  PROVE  [f EXCEPT !.ttl = g.ttl, !.hops = g.hops] = g
  <1>1. ASSUME NEW field \in Fields \ {"ttl", "hops", "ct"}
        PROVE  f[field] = g[field]
    <2>1. Aad(f)[field] = f[field]
      BY DEF Aad, IsFrame
    <2>2. Aad(g)[field] = g[field]
      BY DEF Aad, IsFrame
    <2> QED
      BY <2>1, <2>2
  <1> DEFINE h == [f EXCEPT !.ttl = g.ttl, !.hops = g.hops]
  <1>2. h = [field \in Fields |-> h[field]]
    BY DEF IsFrame
  <1>3. h.ttl = g.ttl /\ h.hops = g.hops
    BY DEF IsFrame, Fields
  <1>4. \A field \in Fields \ {"ttl", "hops"} : h[field] = f[field]
    BY DEF IsFrame
  <1>5. \A field \in Fields \ {"ttl", "hops"} : f[field] = g[field]
    BY <1>1
  <1>6. \A field \in Fields : h[field] = g[field]
    BY <1>3, <1>4, <1>5
  <1> QED
    BY <1>2, <1>6 DEF IsFrame

\* The flags of a frame that parses announce the preamble that is there.
LEMMA FlagsAnnounce ==
  ASSUME NEW f, Sized(f), Announced(f), Parses(f)
  PROVE  /\ "FS" \in f.flags <=> f.preamble.preamble = "FS"
         /\ "SK" \in f.flags <=> f.preamble.preamble = "SK"
  <1>1. NoPreamble.preamble = "none"
    BY DEF NoPreamble
  <1>2. PreambleLen(f.flags) \in Nat /\ PreambleLen({f.preamble.preamble}) \in Nat
    BY DEF PreambleLen, FS_PREAMBLE_LEN, SK_PREAMBLE_LEN
  <1>3. NameLen(f.nickname) \in Int
    BY DEF Sized, IsName, NameLen
  <1>4. PreambleLen(f.flags) = PreambleLen({f.preamble.preamble})
    BY <1>2, <1>3 DEF Sized, Parses, FrameLen, HEADER_LEN
  <1> QED
    BY <1>1, <1>4 DEF Announced, Parses, PreambleLen, FS_PREAMBLE_LEN, SK_PREAMBLE_LEN

-----------------------------------------------------------------------------
\* The bytes a built frame has around its body.
Overhead(preamble, nickname) ==
  HEADER_LEN + PreambleLen({preamble.preamble}) + NameLen(Truncated(nickname)) + TAG_LEN

\* The preambles that go with a recipient.
Paired(preamble, recipient) ==
  \/ preamble = NoPreamble
  \/ preamble.preamble = "FS" /\ recipient # BROADCAST_ID
  \/ preamble.preamble = "SK" /\ recipient = BROADCAST_ID

\* What build returns, field by field.
LEMMA BuildFields ==
  ASSUME NEW me, NEW recipient, NEW msgId, NEW nonce, NEW number, NEW ttl, NEW body,
         NEW nickname, NEW kind, NEW key, NEW preamble, NEW f,
         f = Build(me, recipient, msgId, nonce, number, ttl, body, nickname, kind,
                   Sealing(key, preamble))
  PROVE  /\ IsFrame(f)
         /\ f.magic = MAGIC /\ f.version = VERSION
         /\ f.flags = KindFlags(kind) \cup ({preamble.preamble} \ {"none"})
         /\ f.sender = me /\ f.recipient = recipient
         /\ f.preamble = preamble
         /\ f.nickname = Truncated(nickname)
         /\ f.nickLen = NameLen(f.nickname)
         /\ f.bodyLen = body.length + TAG_LEN
         /\ "key" \in DOMAIN f.ct
         /\ f.ct.length = body.length + TAG_LEN
         /\ f.ct.key = key /\ f.ct.body = body
         /\ f.ct.aad = Aad(f)
  <1> DEFINE name == Truncated(nickname)
             header ==
               [magic |-> MAGIC, version |-> VERSION,
                flags |-> KindFlags(kind) \cup ({preamble.preamble} \ {"none"}),
                ttl |-> ttl, hops |-> 0, nickLen |-> NameLen(name),
                bodyLen |-> body.length + TAG_LEN, counter |-> number, sender |-> me,
                recipient |-> recipient, msgId |-> msgId, nonce |-> nonce,
                preamble |-> preamble, nickname |-> name, ct |-> NoCiphertext]
             ct == SealAead(key, nonce, Aad(header), body)
  <1>1. f = [header EXCEPT !.ct = ct]
    BY DEF Build, Sealing
  <1>2. IsFrame(header)
    BY DEF IsFrame, Fields
  <1>3. /\ ct.length = body.length + TAG_LEN
        /\ "key" \in DOMAIN ct
        /\ ct.key = key /\ ct.body = body
        /\ ct.aad = Aad(header)
    BY DEF SealAead
  <1> HIDE DEF ct
  <1>4. /\ header.magic = MAGIC /\ header.version = VERSION
        /\ header.flags = KindFlags(kind) \cup ({preamble.preamble} \ {"none"})
        /\ header.sender = me /\ header.recipient = recipient
        /\ header.preamble = preamble
        /\ header.nickname = name
        /\ header.nickLen = NameLen(name)
        /\ header.bodyLen = body.length + TAG_LEN
    OBVIOUS
  <1> HIDE DEF header
  <1>5. IsFrame(f) /\ f.ct = ct
    BY <1>1, <1>2 DEF IsFrame, Fields
  <1>6. \A field \in Fields \ {"ct"} : f[field] = header[field]
    BY <1>1, <1>2 DEF IsFrame
  <1>7. Aad(f) = Aad(header)
    <2>1. IsFrame(Aad(f)) /\ IsFrame(Aad(header))
      BY <1>2, <1>5 DEF Aad, IsFrame
    <2>2. ASSUME NEW field \in Fields PROVE Aad(f)[field] = Aad(header)[field]
      <3>1. CASE field \in {"ttl", "hops", "ct"}
        BY <1>2, <1>5, <3>1 DEF Aad, IsFrame, Fields
      <3>2. CASE field \notin {"ttl", "hops", "ct"}
        <4>1. Aad(f)[field] = f[field]
          BY <1>5, <3>2 DEF Aad, IsFrame
        <4>2. Aad(header)[field] = header[field]
          BY <1>2, <3>2 DEF Aad, IsFrame
        <4> QED
          BY <1>6, <3>2, <4>1, <4>2
      <3> QED
        BY <3>1, <3>2
    <2> QED
      BY <2>1, <2>2 DEF IsFrame
  <1>8. /\ f.magic = header.magic /\ f.version = header.version
        /\ f.flags = header.flags /\ f.sender = header.sender
        /\ f.recipient = header.recipient /\ f.preamble = header.preamble
        /\ f.nickname = header.nickname /\ f.nickLen = header.nickLen
        /\ f.bodyLen = header.bodyLen
    BY <1>6 DEF Fields
  <1> QED
    BY <1>3, <1>4, <1>5, <1>7, <1>8

\* What build returns is read back as what it is, by anyone, and fits.
THEOREM BuildParses ==
  ASSUME NEW me, NEW recipient, NEW msgId, NEW nonce, NEW number, NEW ttl, NEW body,
         NEW nickname, NEW kind \in FrameKind, NEW key, NEW preamble, NEW f,
         IsName(nickname),
         body.length \in 0 .. MAX_BODY,
         Paired(preamble, recipient),
         f = Build(me, recipient, msgId, nonce, number, ttl, body, nickname, kind,
                   Sealing(key, preamble))
  PROVE  /\ Sized(f) /\ Announced(f) /\ Parses(f)
         /\ Kind(f) = kind
         /\ FrameLen(f) = Overhead(preamble, nickname) + body.length
         /\ FrameLen(f) \in Nat /\ FrameLen(f) <= MAX_FRAME
  <1> DEFINE name == Truncated(nickname)
             mark == preamble.preamble
  <1>1. /\ f.magic = MAGIC /\ f.version = VERSION
        /\ f.flags = KindFlags(kind) \cup ({mark} \ {"none"})
        /\ f.recipient = recipient /\ f.preamble = preamble
        /\ f.nickname = name /\ f.nickLen = NameLen(name)
        /\ f.bodyLen = body.length + TAG_LEN /\ f.ct.length = body.length + TAG_LEN
    BY BuildFields
  <1>2. IsName(name) /\ NameLen(name) \in 0 .. MAX_NICKNAME
    BY TruncatedFits
  <1>3. mark \in {"none", "FS", "SK"} /\ (mark = "none" <=> preamble = NoPreamble)
    BY DEF Paired, NoPreamble
  <1>4. /\ Paired(preamble, recipient)
        /\ kind \in {"Beacon", "Ack", "SenderKey", "Message"}
        /\ body.length \in Nat /\ body.length <= MAX_BODY
    BY DEF FrameKind, MAX_BODY, MAX_FRAME, HEADER_LEN, FS_PREAMBLE_LEN, MAX_NICKNAME, TAG_LEN
  <1> HIDE DEF name, mark
  <1>5. /\ "FS" \in f.flags <=> mark = "FS"
        /\ "SK" \in f.flags <=> mark = "SK"
        /\ "BEACON" \in f.flags <=> kind = "Beacon"
        /\ "ACK" \in f.flags <=> kind = "Ack"
        /\ "SKDM" \in f.flags <=> kind = "SenderKey"
    BY <1>1, <1>3, <1>4 DEF KindFlags
  <1>6. Kind(f) = kind
    BY <1>4, <1>5 DEF Kind
  <1>7. PreambleLen(f.flags) = PreambleLen({mark}) /\ PreambleLen({mark}) \in 0 .. 36
    BY <1>5 DEF PreambleLen, FS_PREAMBLE_LEN, SK_PREAMBLE_LEN
  <1>8. Sized(f) /\ Announced(f)
    BY <1>1, <1>2, <1>3, <1>4 DEF Sized, Announced, TAG_LEN, mark
  <1>9. FrameLen(f) = HEADER_LEN + PreambleLen({mark}) + NameLen(name) + (body.length + TAG_LEN)
    BY <1>1 DEF FrameLen, mark
  <1>10. /\ FrameLen(f) = Overhead(preamble, nickname) + body.length
         /\ FrameLen(f) \in Nat /\ FrameLen(f) <= MAX_FRAME
    <2>1. Overhead(preamble, nickname) = HEADER_LEN + PreambleLen({mark}) + NameLen(name) + TAG_LEN
      BY DEF Overhead, mark, name
    <2> QED
      BY <1>2, <1>4, <1>7, <1>9, <2>1
         DEF MAX_BODY, MAX_FRAME, HEADER_LEN, FS_PREAMBLE_LEN, MAX_NICKNAME, TAG_LEN
  <1>11. f.nickname.rest = 0
    BY <1>1, <1>2 DEF IsName
  <1>12. Parses(f)
    <2>1. ~({"FS", "SK"} \subseteq f.flags)
      BY <1>5
    <2>2. "FS" \in f.flags => ~IsBroadcast(f)
      BY <1>1, <1>4, <1>5 DEF Paired, IsBroadcast, mark, NoPreamble
    <2>3. "SK" \in f.flags => IsBroadcast(f)
      BY <1>1, <1>4, <1>5 DEF Paired, IsBroadcast, mark, NoPreamble
    <2>4. HEADER_LEN + PreambleLen(f.flags) + f.nickLen + f.bodyLen = FrameLen(f)
      BY <1>1, <1>7, <1>9
    <2> QED
      BY <1>1, <1>2, <1>11, <2>1, <2>2, <2>3, <2>4 DEF Parses, MAX_NICKNAME
  <1> QED
    BY <1>6, <1>8, <1>10, <1>12

-----------------------------------------------------------------------------
(* The inductive invariant of Sealing.                                      *)


Generations == 0 .. MaxRotations
Chains == [number : [owner : Nodes, rotation : Nat], index : Nat]

Types ==
  /\ running \in [Nodes -> BOOLEAN]
  /\ counter \in [Nodes -> Nat]
  /\ generation \in [Nodes -> Generations]
  /\ known \in [Nodes -> [Nodes -> {None} \cup Generations]]
  /\ sharedWith \in [Nodes -> SUBSET Nodes]
  /\ chain \in [Nodes -> Chains]
  /\ \A n \in Nodes : chain[n].number.owner = n
  /\ DOMAIN chains = Nodes
  /\ built \subseteq air

\* A frame that was built: bound to its header, fit to be read, and a chain in it
\* is the sender's and sealed under a prekey.
Genuine(f) ==
  /\ IsFrame(f) /\ Sized(f) /\ Announced(f) /\ Parses(f)
  /\ f.sender \in Nodes
  /\ "key" \in DOMAIN f.ct /\ f.ct.aad = Aad(f)
  /\ FrameLen(f) <= IF Kind(f) = "Beacon" THEN 254 ELSE MAX_FRAME
  /\ Kind(f) = "Beacon" => f.ct.body.generation \in Generations
  /\ Kind(f) = "SenderKey" =>
       /\ f.recipient \in Nodes
       /\ f.ct.key.kind = "fs" /\ f.ct.key.to = f.recipient
       /\ f.ct.body.chain.number.owner = f.sender

\* A frame that may be on the air when `frames' have been built.
Heard(frames, f) ==
  /\ IsFrame(f) /\ Sized(f) /\ Announced(f)
  /\ Parses(f) /\ "key" \in DOMAIN f.ct => \E g \in frames : f.ct = g.ct

Honest(frames, a) ==
  /\ \E g \in frames : [a.frame EXCEPT !.ttl = g.ttl, !.hops = g.hops] = g
  /\ IsForwardSecret(a.frame) <=> a.key.kind \in {"fs", "message"}

\* `f' hands the chain of that number from n to p.
Hands(f, n, p, number) ==
  /\ f.sender = n /\ f.recipient = p /\ Kind(f) = "SenderKey"
  /\ f.ct.body.chain.number = number

Frames ==
  /\ \A f \in built : Genuine(f)
  /\ \A f \in air : Heard(built, f)
  /\ \A a \in accepted : Honest(built, a)

Handed ==
  /\ \A n \in Nodes, p \in Nodes :
       p \in sharedWith[n] => \E f \in built : Hands(f, n, p, chain[n].number)
  /\ \A n \in Nodes : \A c \in chains[n] :
       \E f \in built : Hands(f, c.number.owner, n, c.number) /\ f.ct.body.chain = c

\* A node that broadcast with its chain has correspondents, and shares its chain
\* with one of them unless a rotation failed.
Ratcheted(n) == \E f \in built : f.sender = n /\ f.ct.key.kind = "message"
Kept ==
  \A n \in Nodes :
    /\ sharedWith[n] \subseteq Correspondents(n)
    /\ Ratcheted(n) => Correspondents(n) # {}
    /\ Ratcheted(n) /\ n \notin lapsed => sharedWith[n] # {}

IInv == Types /\ Frames /\ Handed /\ Kept

-----------------------------------------------------------------------------
(* What nodes build.                                                        *)

\* A beacon is genuine, and fits one advertisement.
LEMMA BeaconGenuine ==
  ASSUME NEW n \in Nodes, NEW k, NEW gen \in Generations
  PROVE  /\ Genuine(Beacon(n, k, gen))
         /\ Beacon(n, k, gen).sender = n
         /\ Kind(Beacon(n, k, gen)) = "Beacon"
         /\ Beacon(n, k, gen).ct.key.kind = "network"
  <1> DEFINE f == Beacon(n, k, gen)
             key == NetworkKey(Channel[n])
             body == Bundle(n, gen)
  <1>1. f = Build(n, BROADCAST_ID, Drawn(n, k), Drawn(n, k), k, 1, body, Nickname[n],
                  "Beacon", Sealing(key, NoPreamble))
    BY DEF Beacon
  <1>2. body.length = 100 /\ body.generation = gen /\ key.kind = "network"
    BY DEF Bundle, BUNDLE_LEN, NetworkKey
  <1>3. IsName(Nickname[n])
    BY SealingAssumption DEF IsName
  <1> HIDE DEF f, key, body
  <1>4. /\ IsFrame(f) /\ f.sender = n /\ "key" \in DOMAIN f.ct
        /\ f.ct.key = key /\ f.ct.body = body /\ f.ct.aad = Aad(f)
    BY <1>1, BuildFields
  <1>5. /\ body.length \in 0 .. MAX_BODY
        /\ Paired(NoPreamble, BROADCAST_ID)
        /\ "Beacon" \in FrameKind
    BY <1>2 DEF MAX_BODY, MAX_FRAME, HEADER_LEN, FS_PREAMBLE_LEN, MAX_NICKNAME, TAG_LEN,
                Paired, FrameKind
  <1>6. /\ Sized(f) /\ Announced(f) /\ Parses(f) /\ Kind(f) = "Beacon"
        /\ FrameLen(f) = Overhead(NoPreamble, Nickname[n]) + body.length
    BY <1>1, <1>3, <1>5, BuildParses
  <1>7. FrameLen(f) <= 254
    <2>1. PreambleLen({NoPreamble.preamble}) = 0
      BY DEF PreambleLen, NoPreamble
    <2>2. NameLen(Truncated(Nickname[n])) \in 0 .. MAX_NICKNAME
      BY <1>3, TruncatedFits
    <2> QED
      BY <1>2, <1>6, <2>1, <2>2 DEF Overhead, HEADER_LEN, TAG_LEN, MAX_NICKNAME
  <1>8. Genuine(f) /\ f.ct.key.kind = "network"
    BY <1>2, <1>4, <1>6, <1>7 DEF Genuine
  <1> QED
    BY <1>4, <1>6, <1>8 DEF f

\* No nickname is one.
LEMMA NoNameIsName == IsName(NoName)
  <1> DEFINE name(text) == [text |-> text, width |-> 1, count |-> 0, rest |-> 0]
  <1>1. ASSUME NEW text PROVE IsName(name(text))
    BY DEF IsName
  <1> QED
    BY <1>1 DEF NoName, Name

\* Any other frame is, if its preamble goes with its recipient.
LEMMA OutgoingGenuine ==
  ASSUME NEW n \in Nodes, NEW k, NEW recipient, NEW body, NEW kind \in FrameKind \ {"Beacon"},
         NEW key, NEW preamble, NEW f,
         f = Outgoing(n, k, recipient, body, kind, Sealing(key, preamble)),
         body.length \in 0 .. MAX_BODY,
         Paired(preamble, recipient),
         kind = "SenderKey" => /\ recipient \in Nodes
                               /\ key.kind = "fs" /\ key.to = recipient
                               /\ body.chain.number.owner = n
  PROVE  /\ Genuine(f) /\ Kind(f) = kind
         /\ f.sender = n /\ f.recipient = recipient /\ f.ct.key = key /\ f.ct.body = body
  <1>1. f = Build(n, recipient, Drawn(n, k), Drawn(n, k), k, Ttl, body, NoName, kind,
                  Sealing(key, preamble))
    BY DEF Outgoing
  <1>2. IsName(NoName) /\ kind \in FrameKind /\ kind # "Beacon"
    BY NoNameIsName
  <1>3. /\ IsFrame(f) /\ f.sender = n /\ f.recipient = recipient
        /\ "key" \in DOMAIN f.ct
        /\ f.ct.key = key /\ f.ct.body = body /\ f.ct.aad = Aad(f)
    BY <1>1, BuildFields
  <1>4. /\ Sized(f) /\ Announced(f) /\ Parses(f) /\ Kind(f) = kind
        /\ FrameLen(f) <= MAX_FRAME
    BY <1>1, <1>2, BuildParses
  <1> QED
    BY <1>2, <1>3, <1>4 DEF Genuine

\* The keys of directed frames: neither the group's nor a chain's, and that of
\* the prekey if there is one.
LEMMA DirectedGenuine ==
  ASSUME NEW n \in Nodes, NEW k, NEW peer \in Nodes, NEW gen, NEW body,
         NEW kind \in FrameKind \ {"Beacon"}, NEW f,
         f = Directed(n, k, peer, gen, body, kind),
         body.length \in 0 .. MAX_BODY,
         kind = "SenderKey" => gen # None /\ body.chain.number.owner = n
  PROVE  /\ Genuine(f) /\ Kind(f) = kind
         /\ f.sender = n /\ f.recipient = peer /\ f.ct.body = body
         /\ f.ct.key.kind \in {"static", "fs"}
  <1>1. peer # BROADCAST_ID
    BY SealingAssumption
  <1>2. CASE gen = None
    <2> DEFINE key == StaticKey(n, peer)
    <2>1. f = Outgoing(n, k, peer, body, kind, Sealing(key, NoPreamble))
      BY <1>2 DEF Directed, DirectedSealing
    <2>2. key.kind = "static" /\ Paired(NoPreamble, peer)
      BY DEF StaticKey, Paired
    <2> HIDE DEF key
    <2> QED
      BY <1>2, <2>1, <2>2, OutgoingGenuine
  <1>3. CASE gen # None
    <2> DEFINE key == SealKeyFs(n, Ephemeral(n, k), peer, gen)
               preamble == FsPreamble(Ephemeral(n, k), gen)
    <2>1. f = Outgoing(n, k, peer, body, kind, Sealing(key, preamble))
      BY <1>3 DEF Directed, DirectedSealing
    <2>2. key.kind = "fs" /\ key.to = peer
      BY DEF SealKeyFs, FsKey
    <2>3. Paired(preamble, peer)
      BY <1>1 DEF FsPreamble, Paired
    <2> HIDE DEF key, preamble
    <2> QED
      BY <2>1, <2>2, <2>3, OutgoingGenuine
  <1> QED
    BY <1>2, <1>3

\* A chain is handed over to one peer, under its prekey.
LEMMA HandoverGenuine ==
  ASSUME NEW n \in Nodes, NEW k, NEW peer \in Nodes, NEW gen, gen # None,
         NEW c, c.number.owner = n, NEW f, f = Handover(n, k, peer, gen, c)
  PROVE  /\ Genuine(f) /\ Hands(f, n, peer, c.number) /\ f.ct.body.chain = c
         /\ f.ct.key.kind \in {"static", "fs"}
  <1> DEFINE body == Distribution(c)
  <1>1. /\ body.length \in 0 .. MAX_BODY
        /\ body.chain = c
    BY DEF Distribution, DISTRIBUTION_LEN, MAX_BODY, MAX_FRAME, HEADER_LEN, FS_PREAMBLE_LEN,
           MAX_NICKNAME, TAG_LEN
  <1>2. f = Directed(n, k, peer, gen, body, "SenderKey") /\ "SenderKey" \in FrameKind \ {"Beacon"}
    BY DEF Handover, FrameKind
  <1> HIDE DEF body
  <1>3. /\ Genuine(f) /\ Kind(f) = "SenderKey"
        /\ f.sender = n /\ f.recipient = peer /\ f.ct.body = body
        /\ f.ct.key.kind \in {"static", "fs"}
    BY <1>1, <1>2, DirectedGenuine
  <1> QED
    BY <1>1, <1>3 DEF Hands

\* An acknowledgement is built for any sender.
LEMMA AckGenuine ==
  ASSUME NEW n \in Nodes, NEW peer \in Nodes, NEW k, NEW gen, NEW msgId, NEW f,
         f = Directed(n, k, peer, gen, Receipt(msgId), "Ack")
  PROVE  /\ Genuine(f) /\ f.sender = n /\ Kind(f) = "Ack"
         /\ f.ct.key.kind \in {"static", "fs"}
  <1> DEFINE body == Receipt(msgId)
  <1>1. body.length \in 0 .. MAX_BODY
    BY DEF Receipt, MAX_BODY, MAX_FRAME, HEADER_LEN, FS_PREAMBLE_LEN, MAX_NICKNAME, TAG_LEN
  <1>2. "Ack" \in FrameKind \ {"Beacon"} /\ "Ack" # "SenderKey"
    BY DEF FrameKind
  <1> HIDE DEF body
  <1> QED
    BY <1>1, <1>2, DirectedGenuine DEF body

\* A broadcast: under the group key only if the chain is shared with nobody.
LEMMA BroadcastGenuine ==
  ASSUME NEW n \in Nodes, NEW length \in 1 .. MAX_BODY, NEW f,
         f = Outgoing(n, counter[n], BROADCAST_ID, Text(length), "Message", BroadcastSealing(n))
  PROVE  /\ Genuine(f) /\ f.sender = n /\ Kind(f) = "Message"
         /\ f.ct.key.kind = IF sharedWith[n] = {} THEN "network" ELSE "message"
  <1> DEFINE body == Text(length)
  <1>1. body.length \in 0 .. MAX_BODY
    BY DEF Text, MAX_BODY, MAX_FRAME, HEADER_LEN, FS_PREAMBLE_LEN, MAX_NICKNAME, TAG_LEN
  <1>2. "Message" \in FrameKind \ {"Beacon"} /\ "Message" # "SenderKey"
    BY DEF FrameKind
  <1> HIDE DEF body
  <1>3. CASE sharedWith[n] = {}
    <2> DEFINE key == NetworkKey(Channel[n])
    <2>1. f = Outgoing(n, counter[n], BROADCAST_ID, body, "Message", Sealing(key, NoPreamble))
      BY <1>3 DEF BroadcastSealing, body
    <2>2. key.kind = "network" /\ Paired(NoPreamble, BROADCAST_ID)
      BY DEF NetworkKey, Paired
    <2> HIDE DEF key
    <2> QED
      BY <1>1, <1>2, <1>3, <2>1, <2>2, OutgoingGenuine
  <1>4. CASE sharedWith[n] # {}
    <2> DEFINE key == MessageKey(chain[n])
               preamble == SkPreamble(chain[n])
    <2>1. f = Outgoing(n, counter[n], BROADCAST_ID, body, "Message", Sealing(key, preamble))
      BY <1>4 DEF BroadcastSealing, body
    <2>2. key.kind = "message" /\ Paired(preamble, BROADCAST_ID)
      BY DEF MessageKey, SkPreamble, Paired
    <2> HIDE DEF key, preamble
    <2> QED
      BY <1>1, <1>2, <1>4, <2>1, <2>2, OutgoingGenuine
  <1> QED
    BY <1>3, <1>4

-----------------------------------------------------------------------------
(* What is heard.                                                           *)

\* A frame that parses may be relayed: it says what it said.
LEMMA RelayedHeard ==
  ASSUME NEW frames, NEW f, Heard(frames, f), Parses(f)
  PROVE  Heard(frames, Relayed(f))
  <1> DEFINE g == Relayed(f)
  <1>1. g = [f EXCEPT !.ttl = g.ttl, !.hops = g.hops]
    BY DEF Heard, IsFrame, Fields, Relayed
  <1> HIDE DEF g
  <1>2. /\ IsFrame(g)
        /\ g.ct = f.ct /\ g.nickname = f.nickname /\ g.nickLen = f.nickLen
        /\ g.bodyLen = f.bodyLen /\ g.preamble = f.preamble
    BY <1>1 DEF Heard, IsFrame, Fields
  <1> QED
    BY <1>2 DEF Heard, Sized, Announced, g

\* What a node opens was built: by its sender, for its recipient, as it is but for
\* ttl and hops.
LEMMA OpenedWasBuilt ==
  ASSUME Frames, NEW n, NEW f \in air, Parses(f), Unseals(n, f)
  PROVE  \E g \in built :
           /\ [f EXCEPT !.ttl = g.ttl, !.hops = g.hops] = g
           /\ f.ct = g.ct /\ f.sender = g.sender /\ f.recipient = g.recipient
           /\ Kind(f) = Kind(g)
  <1>1. Heard(built, f) /\ "key" \in DOMAIN f.ct /\ f.ct.aad = Aad(f)
    BY DEF Frames, Unseals, Opens, OpensAead
  <1>2. PICK g \in built : f.ct = g.ct
    BY <1>1 DEF Heard
  <1>3. Genuine(g)
    BY DEF Frames
  <1>4. [f EXCEPT !.ttl = g.ttl, !.hops = g.hops] = g
    BY <1>1, <1>2, <1>3, AadBinds DEF Heard, Genuine
  <1>5. f.flags = g.flags /\ f.sender = g.sender /\ f.recipient = g.recipient
    BY <1>1, <1>4 DEF Heard, IsFrame, Fields
  <1> QED
    BY <1>2, <1>4, <1>5 DEF Kind

\* The key that opens a frame is as good as its preamble claims.
LEMMA OpeningHonest ==
  ASSUME NEW frames, NEW n, NEW f, Heard(frames, f), Parses(f)
  PROVE  IsForwardSecret(f) <=> OpeningKey(n, f).kind \in {"fs", "message"}
  <1>1. /\ "FS" \in f.flags <=> f.preamble.preamble = "FS"
        /\ "SK" \in f.flags <=> f.preamble.preamble = "SK"
    BY FlagsAnnounce DEF Heard
  <1>2. /\ f.preamble.preamble = "FS" => ~IsBroadcast(f)
        /\ f.preamble.preamble = "SK" => IsBroadcast(f)
    BY <1>1 DEF Parses
  <1>3. IsForwardSecret(f) <=> f.preamble.preamble \in {"FS", "SK"}
    BY DEF Heard, Announced, IsForwardSecret, NoPreamble
  <1>4. CASE IsBroadcast(f)
    BY <1>2, <1>3, <1>4 DEF OpeningKey, MessageKey, NetworkKey
  <1>5. CASE ~IsBroadcast(f)
    BY <1>2, <1>3, <1>5 DEF OpeningKey, OpenKeyFs, FsKey, StaticKey
  <1> QED
    BY <1>4, <1>5

\* Damage to a built frame leaves its lengths, and its ciphertext or none.
LEMMA DamagedHeard ==
  ASSUME Frames, NEW f \in built, NEW g \in Damaged(f)
  PROVE  Heard(built, g)
  <1>1. Genuine(f)
    BY DEF Frames
  <1>2. CASE g \in {[f EXCEPT !.flags = IF flag \in @ THEN @ \ {flag} ELSE @ \cup {flag}] :
                     flag \in Flags}
    <2>1. PICK flags : g = [f EXCEPT !.flags = flags]
      BY <1>2
    <2> QED
      BY <1>1, <2>1 DEF Genuine, Heard, IsFrame, Fields, Sized, Announced
  <1>3. CASE g \in {[f EXCEPT !.sender = n] : n \in Nodes}
    <2>1. PICK n : g = [f EXCEPT !.sender = n]
      BY <1>3
    <2> QED
      BY <1>1, <2>1 DEF Genuine, Heard, IsFrame, Fields, Sized, Announced
  <1>4. CASE g \in {[f EXCEPT !.recipient = n] : n \in Nodes \cup {BROADCAST_ID}}
    <2>1. PICK n : g = [f EXCEPT !.recipient = n]
      BY <1>4
    <2> QED
      BY <1>1, <2>1 DEF Genuine, Heard, IsFrame, Fields, Sized, Announced
  <1>5. CASE g = [f EXCEPT !.nonce.draw = @ + 1]
    <2>1. PICK nonce : g = [f EXCEPT !.nonce = nonce]
      BY <1>5
    <2> QED
      BY <1>1, <2>1 DEF Genuine, Heard, IsFrame, Fields, Sized, Announced
  <1>6. CASE g = [f EXCEPT !.msgId.draw = @ + 1]
    <2>1. PICK msgId : g = [f EXCEPT !.msgId = msgId]
      BY <1>6
    <2> QED
      BY <1>1, <2>1 DEF Genuine, Heard, IsFrame, Fields, Sized, Announced
  <1>7. CASE g = [f EXCEPT !.nickname.text = "damaged"]
    <2> DEFINE name == [f.nickname EXCEPT !.text = "damaged"]
    <2>1. g = [f EXCEPT !.nickname = name]
      BY <1>7
    <2>2. IsName(name) /\ NameLen(name) = NameLen(f.nickname)
      BY <1>1 DEF Genuine, Sized, IsName, NameLen
    <2> HIDE DEF name
    <2> QED
      BY <1>1, <2>1, <2>2 DEF Genuine, Heard, IsFrame, Fields, Sized, Announced
  <1>8. CASE g = [f EXCEPT !.ct = [length |-> f.ct.length]]
    <2> DEFINE ct == [length |-> f.ct.length]
    <2>1. ct.length = f.ct.length /\ "key" \notin DOMAIN ct
      OBVIOUS
    <2> HIDE DEF ct
    <2>2. g = [f EXCEPT !.ct = ct]
      BY <1>8 DEF ct
    <2> QED
      BY <1>1, <2>1, <2>2 DEF Genuine, Heard, IsFrame, Fields, Sized, Announced
  <1> QED
    BY <1>2, <1>3, <1>4, <1>5, <1>6, <1>7, <1>8 DEF Damaged

\* A frame of the other build does not parse.
LEMMA UnpairedHeard ==
  ASSUME NEW m \in Nodes, NEW f \in Unpaired(m)
  PROVE  Heard(built, f)
  <1> DEFINE body == Text(1)
  <1>1. body.length = 1
    BY DEF Text
  <1>2. ASSUME NEW recipient, NEW key, NEW preamble, preamble.preamble \in {"FS", "SK"},
               preamble.preamble = "FS" <=> recipient = BROADCAST_ID,
               f = Outgoing(m, counter[m], recipient, body, "Message", Sealing(key, preamble))
        PROVE  Heard(built, f)
    <2>1. f = Build(m, recipient, Drawn(m, counter[m]), Drawn(m, counter[m]), counter[m], Ttl,
                    body, NoName, "Message", Sealing(key, preamble))
      BY <1>2 DEF Outgoing
    <2> HIDE DEF body
    <2>2. /\ IsFrame(f)
          /\ f.flags = KindFlags("Message") \cup ({preamble.preamble} \ {"none"})
          /\ f.recipient = recipient /\ f.preamble = preamble
          /\ f.nickname = Truncated(NoName) /\ f.nickLen = NameLen(f.nickname)
          /\ f.bodyLen = body.length + TAG_LEN /\ f.ct.length = body.length + TAG_LEN
      BY <2>1, BuildFields
    <2>3. IsName(Truncated(NoName))
      BY NoNameIsName, TruncatedFits
    <2>4. Sized(f) /\ Announced(f)
      BY <1>1, <1>2, <2>2, <2>3 DEF Sized, Announced, TAG_LEN
    <2>5. ~Parses(f)
      BY <1>2, <2>2 DEF Parses, IsBroadcast
    <2> QED
      BY <2>2, <2>4, <2>5 DEF Heard
  <1>3. CASE f = Outgoing(m, counter[m], BROADCAST_ID, body, "Message",
                   Sealing(NetworkKey(Channel[m]), FsPreamble(Ephemeral(m, counter[m]), 0)))
    <2> DEFINE key == NetworkKey(Channel[m])
               preamble == FsPreamble(Ephemeral(m, counter[m]), 0)
    <2>1. preamble.preamble = "FS"
      BY DEF FsPreamble
    <2> HIDE DEF key, preamble
    <2> QED
      BY <1>2, <1>3, <2>1 DEF key, preamble
  <1>4. ASSUME NEW p \in Nodes,
               f = Outgoing(m, counter[m], p, body, "Message",
                            Sealing(StaticKey(m, p), SkPreamble(chain[m])))
        PROVE  Heard(built, f)
    <2> DEFINE key == StaticKey(m, p)
               preamble == SkPreamble(chain[m])
    <2>1. preamble.preamble = "SK" /\ p # BROADCAST_ID
      BY SealingAssumption DEF SkPreamble
    <2> HIDE DEF key, preamble
    <2> QED
      BY <1>2, <1>4, <2>1 DEF key, preamble
  <1> QED
    BY <1>3, <1>4 DEF Unpaired

-----------------------------------------------------------------------------
(* How the parts of the invariant survive a step.                           *)

\* Sending genuine frames, and copies of what was heard.
LEMMA TransmitFrames ==
  ASSUME IInv, NEW n \in Nodes, NEW frames, NEW copies, Transmit(n, frames, copies),
         IsFiniteSet(frames),
         \A f \in frames : Genuine(f),
         \A f \in copies : Heard(built, f),
         \A a \in accepted' : Honest(built, a)
  PROVE  /\ Frames'
         /\ counter' \in [Nodes -> Nat]
         /\ built' = built \cup frames
         /\ built' \subseteq air'
  <1>1. /\ counter' = [counter EXCEPT ![n] = @ + Cardinality(frames)]
        /\ built' = built \cup frames
        /\ air' = air \cup frames \cup copies
    BY DEF Transmit
  <1>2. counter' \in [Nodes -> Nat]
    <2>1. Cardinality(frames) \in Nat
      BY FS_CardinalityType
    <2> QED
      BY <1>1, <2>1 DEF IInv, Types
  <1>3. built' \subseteq air'
    BY <1>1 DEF IInv, Types
  <1>4. \A f \in built' : Genuine(f)
    BY <1>1 DEF IInv, Frames
  <1>5. ASSUME NEW f \in air' PROVE Heard(built', f)
    <2>1. CASE f \in frames
      BY <1>1, <2>1 DEF Genuine, Heard
    <2>2. CASE f \in air \cup copies
      BY <1>1, <2>2 DEF IInv, Frames, Heard
    <2> QED
      BY <1>1, <2>1, <2>2
  <1>6. ASSUME NEW a \in accepted' PROVE Honest(built', a)
    BY <1>1 DEF Honest
  <1> QED
    BY <1>1, <1>2, <1>3, <1>4, <1>5, <1>6 DEF Frames

\* Who holds which chain stays true while no other chain is used.
LEMMA HandedStays ==
  ASSUME Handed, built \subseteq built', UNCHANGED <<sharedWith, chains>>,
         \A n \in Nodes : chain'[n].number = chain[n].number
  PROVE  Handed'
  <1>1. ASSUME NEW n \in Nodes, NEW p \in Nodes, p \in sharedWith'[n]
        PROVE  \E f \in built' : Hands(f, n, p, chain'[n].number)
    BY <1>1 DEF Handed
  <1>2. ASSUME NEW n \in Nodes, NEW c \in chains'[n]
        PROVE  \E f \in built' : Hands(f, c.number.owner, n, c.number) /\ f.ct.body.chain = c
    BY <1>2 DEF Handed
  <1> QED
    BY <1>1, <1>2 DEF Handed

\* Correspondents are not forgotten, and only who shares its chain seals with it.
LEMMA KeptStays ==
  ASSUME Kept, UNCHANGED <<sharedWith, lapsed>>,
         \A n \in Nodes : Correspondents(n) \subseteq Correspondents(n)',
         \A f \in built' : f \in built \/ f.ct.key.kind # "message" \/ sharedWith[f.sender] # {}
  PROVE  Kept'
  <1> SUFFICES ASSUME NEW n \in Nodes
               PROVE  /\ sharedWith'[n] \subseteq Correspondents(n)'
                      /\ Ratcheted(n)' => Correspondents(n)' # {}
                      /\ Ratcheted(n)' /\ n \notin lapsed' => sharedWith'[n] # {}
    BY DEF Kept
  <1>1. sharedWith[n] \subseteq Correspondents(n)
    BY DEF Kept
  <1>2. Ratcheted(n)' => Ratcheted(n) \/ sharedWith[n] # {}
    BY DEF Ratcheted
  <1> QED
    BY <1>1, <1>2 DEF Kept

\* A step that hears and sends, but learns no key and hands over no chain.
LEMMA QuietStep ==
  ASSUME IInv, NEW n \in Nodes, NEW frames, NEW copies, Transmit(n, frames, copies),
         IsFiniteSet(frames),
         \A f \in frames : Genuine(f) /\ f.ct.key.kind # "message",
         \A f \in copies : Heard(built, f),
         \A a \in accepted' : Honest(built, a),
         running' \in [Nodes -> BOOLEAN], generation' \in [Nodes -> Generations],
         UNCHANGED <<known, chain, sharedWith, chains, lapsed>>
  PROVE  IInv'
  <1>1. /\ Frames' /\ counter' \in [Nodes -> Nat]
        /\ built' = built \cup frames /\ built' \subseteq air'
    BY TransmitFrames
  <1>2. Types'
    BY <1>1 DEF IInv, Types
  <1>3. Handed'
    BY <1>1, HandedStays DEF IInv
  <1>4. Kept'
    <2>1. \A m \in Nodes : Correspondents(m)' = Correspondents(m)
      BY DEF Correspondents
    <2> QED
      BY <1>1, <2>1, KeptStays DEF IInv
  <1> QED
    BY <1>1, <1>2, <1>3, <1>4 DEF IInv

\* A step that only adds a frame to the air, or changes nothing the invariant reads.
LEMMA AirStep ==
  ASSUME IInv, air \subseteq air', \A f \in air' : f \in air \/ Heard(built, f),
         running' \in [Nodes -> BOOLEAN], counter' \in [Nodes -> Nat],
         UNCHANGED <<generation, known, chain, sharedWith, chains, built, accepted, lapsed>>
  PROVE  IInv'
  <1>1. Types'
    BY DEF IInv, Types
  <1>2. Frames'
    BY DEF IInv, Frames
  <1>3. Handed'
    BY HandedStays DEF IInv
  <1>4. Kept'
    <2>1. \A m \in Nodes : Correspondents(m)' = Correspondents(m)
      BY DEF Correspondents
    <2> QED
      BY <2>1, KeptStays DEF IInv
  <1> QED
    BY <1>1, <1>2, <1>3, <1>4 DEF IInv

-----------------------------------------------------------------------------
(* Steps.                                                                   *)

\* No node has done anything.
LEMMA InitIInv == Init => IInv
  <1> SUFFICES ASSUME Init PROVE IInv
    OBVIOUS
  <1>1. 0 \in Generations
    BY SealingAssumption DEF Generations
  <1>2. \A n \in Nodes : /\ FreshChain(n, 0) \in Chains
                         /\ FreshChain(n, 0).number.owner = n
    BY DEF FreshChain, Chains
  <1>3. Types
    BY <1>1, <1>2 DEF Init, Types
  <1> QED
    BY <1>3 DEF Init, IInv, Frames, Handed, Kept, Ratcheted

\* Beacons.
LEMMA StartIInv == ASSUME IInv, NEW n \in Nodes, Start(n) PROVE IInv'
  <1> DEFINE f == Beacon(n, counter[n], generation[n])
  <1>1. generation[n] \in Generations
    BY DEF IInv, Types
  <1>2. Genuine(f) /\ f.ct.key.kind # "message"
    BY <1>1, BeaconGenuine
  <1> HIDE DEF f
  <1>3. Transmit(n, {f}, {}) /\ IsFiniteSet({f})
    BY FS_Singleton DEF Start, f
  <1>4. /\ running' \in [Nodes -> BOOLEAN] /\ generation' \in [Nodes -> Generations]
        /\ UNCHANGED <<known, chain, sharedWith, chains, accepted, lapsed>>
    BY DEF Start, keyVars, IInv, Types
  <1>5. \A a \in accepted' : Honest(built, a)
    BY <1>4 DEF IInv, Frames
  <1> QED
    BY <1>2, <1>3, <1>4, <1>5, QuietStep

LEMMA RotatePrekeyIInv == ASSUME IInv, NEW n \in Nodes, RotatePrekey(n) PROVE IInv'
  <1> DEFINE f == Beacon(n, counter[n], generation'[n])
  <1>1. generation' \in [Nodes -> Generations]
    BY SealingAssumption DEF IInv, Types, RotatePrekey, Generations
  <1>2. Genuine(f) /\ f.ct.key.kind # "message"
    BY <1>1, BeaconGenuine
  <1> HIDE DEF f
  <1>3. Transmit(n, {f}, {}) /\ IsFiniteSet({f})
    BY FS_Singleton DEF RotatePrekey, f
  <1>4. /\ running' \in [Nodes -> BOOLEAN]
        /\ UNCHANGED <<known, chain, sharedWith, chains, accepted, lapsed>>
    BY DEF RotatePrekey, IInv, Types
  <1>5. \A a \in accepted' : Honest(built, a)
    BY <1>4 DEF IInv, Frames
  <1> QED
    BY <1>1, <1>2, <1>3, <1>4, <1>5, QuietStep

\* Messages: a broadcast is sealed with the chain if the chain is shared.
LEMMA SendToIInv ==
  ASSUME IInv, NEW n \in Nodes, NEW peer \in Nodes, NEW length, SendTo(n, peer, length)
  PROVE  IInv'
  <1> DEFINE body == Text(length)
             f == Directed(n, counter[n], peer, known[n][peer], body, "Message")
  <1>1. body.length \in 0 .. MAX_BODY
    BY DEF SendTo, Text, MAX_BODY, MAX_FRAME, HEADER_LEN, FS_PREAMBLE_LEN, MAX_NICKNAME, TAG_LEN
  <1>2. "Message" \in FrameKind \ {"Beacon"} /\ "Message" # "SenderKey"
    BY DEF FrameKind
  <1>3. Transmit(n, {f}, {}) /\ IsFiniteSet({f})
    BY FS_Singleton DEF SendTo
  <1> HIDE DEF body
  <1>4. Genuine(f) /\ f.ct.key.kind # "message"
    BY <1>1, <1>2, DirectedGenuine
  <1> HIDE DEF f
  <1>5. /\ running' \in [Nodes -> BOOLEAN] /\ generation' \in [Nodes -> Generations]
        /\ UNCHANGED <<known, chain, sharedWith, chains, accepted, lapsed>>
    BY DEF SendTo, keyVars, IInv, Types
  <1>6. \A a \in accepted' : Honest(built, a)
    BY <1>5 DEF IInv, Frames
  <1> QED
    BY <1>3, <1>4, <1>5, <1>6, QuietStep

LEMMA BroadcastIInv ==
  ASSUME IInv, NEW n \in Nodes, NEW length, Broadcast(n, length)
  PROVE  IInv'
  <1> DEFINE f == Outgoing(n, counter[n], BROADCAST_ID, Text(length), "Message",
                           BroadcastSealing(n))
  <1>1. length \in 1 .. MAX_BODY
    BY DEF Broadcast
  <1>2. Transmit(n, {f}, {}) /\ IsFiniteSet({f})
    BY FS_Singleton DEF Broadcast
  <1>3. /\ Genuine(f) /\ f.sender = n
        /\ f.ct.key.kind = "message" => sharedWith[n] # {}
    BY <1>1, BroadcastGenuine
  <1> HIDE DEF f
  <1>4. /\ UNCHANGED <<running, generation, known, sharedWith, chains, accepted, lapsed>>
        /\ \/ UNCHANGED chain
           \/ chain' = [chain EXCEPT ![n] = NextChain(@)]
    BY DEF Broadcast
  <1>5. \A a \in accepted' : Honest(built, a)
    BY <1>4 DEF IInv, Frames
  <1>6. /\ Frames' /\ counter' \in [Nodes -> Nat]
        /\ built' = built \cup {f} /\ built' \subseteq air'
    BY <1>2, <1>3, <1>5, TransmitFrames
  <1>7. /\ chain' \in [Nodes -> Chains]
        /\ \A m \in Nodes : chain'[m].number = chain[m].number
    <2>1. CASE UNCHANGED chain
      BY <2>1 DEF IInv, Types
    <2>2. CASE chain' = [chain EXCEPT ![n] = NextChain(@)]
      <3>1. chain[n] \in Chains
        BY DEF IInv, Types
      <3>2. NextChain(chain[n]) \in Chains /\ NextChain(chain[n]).number = chain[n].number
        BY <3>1 DEF NextChain, Chains
      <3> QED
        BY <2>2, <3>2 DEF IInv, Types
    <2> QED
      BY <1>4, <2>1, <2>2
  <1>8. Types'
    BY <1>4, <1>6, <1>7 DEF IInv, Types
  <1>9. Handed'
    BY <1>4, <1>6, <1>7, HandedStays DEF IInv
  <1>10. Kept'
    <2>1. \A m \in Nodes : Correspondents(m)' = Correspondents(m)
      BY <1>4 DEF Correspondents
    <2> QED
      BY <1>3, <1>4, <1>6, <2>1, KeptStays DEF IInv
  <1> QED
    BY <1>6, <1>8, <1>9, <1>10 DEF IInv

\* Steps that build nothing.
LEMMA StopIInv == ASSUME IInv, NEW n \in Nodes, Stop(n) PROVE IInv'
  <1>1. running' \in [Nodes -> BOOLEAN] /\ counter' \in [Nodes -> Nat]
    BY DEF Stop, IInv, Types
  <1> QED
    BY <1>1, AirStep DEF Stop, keyVars

LEMMA HearOwnIInv == ASSUME IInv, NEW n \in Nodes, NEW f, HearOwn(n, f) PROVE IInv'
  <1>1. running' \in [Nodes -> BOOLEAN] /\ counter' \in [Nodes -> Nat]
    BY DEF HearOwn, IInv, Types
  <1> QED
    BY <1>1, AirStep DEF HearOwn, keyVars

LEMMA DamageIInv == ASSUME IInv, Damage PROVE IInv'
  <1>1. PICK f \in built : \E g \in Damaged(f) : air' = air \cup {g}
    BY DEF Damage
  <1>2. PICK g \in Damaged(f) : air' = air \cup {g}
    BY <1>1
  <1>3. Heard(built, g)
    BY DamagedHeard DEF IInv
  <1>4. running' \in [Nodes -> BOOLEAN] /\ counter' \in [Nodes -> Nat]
    BY DEF Damage, IInv, Types
  <1> QED
    BY <1>2, <1>3, <1>4, AirStep DEF Damage, keyVars

LEMMA OtherBuildIInv == ASSUME IInv, NEW m \in Nodes, OtherBuild(m) PROVE IInv'
  <1>1. PICK f \in Unpaired(m) : air' = air \cup {f}
    BY DEF OtherBuild
  <1>2. Heard(built, f)
    BY UnpairedHeard
  <1>3. running' \in [Nodes -> BOOLEAN] /\ counter' \in [Nodes -> Nat]
    BY DEF OtherBuild, IInv, Types
  <1> QED
    BY <1>1, <1>2, <1>3, AirStep DEF OtherBuild, keyVars

\* A rotation: the new chain is shared with those it was handed to.
LEMMA RotateChainIInv ==
  ASSUME IInv, NEW n \in Nodes, NEW served \in SUBSET Nodes, RotateChain(n, served)
  PROVE  IInv'
  <1> DEFINE c == FreshChain(n, chain[n].number.rotation + 1)
             handover(turn, p) == Handover(n, turn[p], p, known[n][p], c)
  <1>1. c \in Chains /\ c.number.owner = n
    BY DEF IInv, Types, Chains, FreshChain
  <1>2. chain' = [chain EXCEPT ![n] = c] /\ chain'[n] = c
    BY DEF RotateChain, IInv, Types
  <1>3. PICK turn \in Turns(served, counter[n]) :
          Transmit(n, {handover(turn, p) : p \in served}, {})
    BY <1>2 DEF RotateChain
  <1>4. \A p \in served : p \in Nodes /\ known[n][p] # None
    BY DEF RotateChain, Correspondents
  <1> HIDE DEF c
  <1> DEFINE frames == {handover(turn, p) : p \in served}
  <1>5. ASSUME NEW p \in served
        PROVE  /\ Genuine(handover(turn, p)) /\ Hands(handover(turn, p), n, p, c.number)
               /\ handover(turn, p).ct.key.kind # "message"
    BY <1>1, <1>4, HandoverGenuine
  <1>6. IsFiniteSet(frames)
    <2>1. IsFiniteSet(served)
      BY SealingAssumption, FS_Subset
    <2> DEFINE image == [p \in served |-> handover(turn, p)]
    <2>2. image \in Surjection(served, frames)
      BY DEF Surjection
    <2> QED
      BY <2>1, <2>2, FS_Surjection
  <1> HIDE DEF handover
  <1>7. \A f \in frames : Genuine(f) /\ f.ct.key.kind # "message"
    BY <1>5
  <1>8. \A p \in served : \E f \in frames : Hands(f, n, p, c.number)
    BY <1>5
  <1> HIDE DEF frames
  <1>9. Transmit(n, frames, {})
    BY <1>3 DEF frames
  <1>10. /\ UNCHANGED <<running, generation, known, chains, accepted>>
         /\ sharedWith' = [sharedWith EXCEPT ![n] = served]
         /\ lapsed' = IF served = Correspondents(n) THEN lapsed \ {n} ELSE lapsed \cup {n}
         /\ served \subseteq Correspondents(n)
    BY DEF RotateChain
  <1>11. /\ Frames' /\ counter' \in [Nodes -> Nat]
         /\ built' = built \cup frames /\ built' \subseteq air'
    <2>1. \A a \in accepted' : Honest(built, a)
      BY <1>10 DEF IInv, Frames
    <2> QED
      BY <1>6, <1>7, <1>9, <2>1, TransmitFrames
  <1>12. Types'
    BY <1>1, <1>2, <1>10, <1>11 DEF IInv, Types
  <1>13. Handed'
    <2>1. ASSUME NEW m \in Nodes, NEW p \in Nodes, p \in sharedWith'[m]
          PROVE  \E f \in built' : Hands(f, m, p, chain'[m].number)
      <3>1. CASE m = n
        <4>1. p \in served
          BY <1>10, <2>1, <3>1 DEF IInv, Types
        <4> QED
          BY <1>2, <1>8, <1>11, <3>1, <4>1
      <3>2. CASE m # n
        <4>1. p \in sharedWith[m] /\ chain'[m] = chain[m]
          BY <1>2, <1>10, <2>1, <3>2 DEF IInv, Types
        <4> QED
          BY <1>11, <4>1 DEF IInv, Handed
      <3> QED
        BY <3>1, <3>2
    <2>2. ASSUME NEW m \in Nodes, NEW d \in chains'[m]
          PROVE  \E f \in built' : Hands(f, d.number.owner, m, d.number) /\ f.ct.body.chain = d
      BY <1>10, <1>11, <2>2 DEF IInv, Handed
    <2> QED
      BY <2>1, <2>2 DEF Handed
  <1>14. Kept'
    <2> SUFFICES ASSUME NEW m \in Nodes
                 PROVE  /\ sharedWith'[m] \subseteq Correspondents(m)'
                        /\ Ratcheted(m)' => Correspondents(m)' # {}
                        /\ Ratcheted(m)' /\ m \notin lapsed' => sharedWith'[m] # {}
      BY DEF Kept
    <2>1. Correspondents(m)' = Correspondents(m)
      BY <1>10 DEF Correspondents
    <2>2. Ratcheted(m)' <=> Ratcheted(m)
      BY <1>7, <1>11 DEF Ratcheted
    <2>3. /\ sharedWith[m] \subseteq Correspondents(m)
          /\ Ratcheted(m) => Correspondents(m) # {}
          /\ Ratcheted(m) /\ m \notin lapsed => sharedWith[m] # {}
      BY DEF IInv, Kept
    <2>4. CASE m = n
      <3>1. sharedWith'[m] = served
        BY <1>10, <2>4 DEF IInv, Types
      <3> QED
        BY <1>10, <2>1, <2>2, <2>3, <2>4, <3>1
    <2>5. CASE m # n
      <3>1. sharedWith'[m] = sharedWith[m] /\ (m \in lapsed' <=> m \in lapsed)
        BY <1>10, <2>5 DEF IInv, Types
      <3> QED
        BY <2>1, <2>2, <2>3, <3>1
    <2> QED
      BY <2>4, <2>5
  <1> QED
    BY <1>11, <1>12, <1>13, <1>14 DEF IInv

-----------------------------------------------------------------------------
(* Steps of do_ingest.                                                      *)

\* The copy that is flooded on.
LEMMA RefloodHeard ==
  ASSUME IInv, NEW n, NEW f \in air, Hear(n, f)
  PROVE  \A g \in Reflood(n, f) : Heard(built, g)
  <1>1. Heard(built, f) /\ Parses(f)
    BY DEF IInv, Frames, Hear
  <1>2. Heard(built, Relayed(f))
    BY <1>1, RelayedHeard
  <1> QED
    BY <1>2 DEF Reflood

\* What is accepted is honest, and has the contents of a genuine frame.
LEMMA AcceptGenuine ==
  ASSUME IInv, NEW n \in Nodes, NEW f \in air, Accept(n, f)
  PROVE  /\ \A a \in accepted' : Honest(built, a)
         /\ f.sender \in Nodes
         /\ \E g \in built : /\ Genuine(g) /\ f.ct = g.ct /\ f.sender = g.sender
                             /\ f.recipient = g.recipient /\ Kind(f) = Kind(g)
  <1>1. Parses(f) /\ Unseals(n, f) /\ Heard(built, f) /\ Frames
    BY DEF Accept, Hear, IInv, Frames
  <1>2. PICK g \in built : /\ [f EXCEPT !.ttl = g.ttl, !.hops = g.hops] = g
                           /\ f.ct = g.ct /\ f.sender = g.sender /\ f.recipient = g.recipient
                           /\ Kind(f) = Kind(g)
    BY <1>1, OpenedWasBuilt
  <1>3. Genuine(g)
    BY <1>1 DEF Frames
  <1>4. IsForwardSecret(f) <=> OpeningKey(n, f).kind \in {"fs", "message"}
    BY <1>1, OpeningHonest
  <1> DEFINE new == [by |-> n, frame |-> f, key |-> OpeningKey(n, f)]
  <1>5. new.frame = f /\ new.key = OpeningKey(n, f)
    OBVIOUS
  <1>6. accepted' = accepted \cup {new}
    BY DEF Accept
  <1> HIDE DEF new
  <1>7. Honest(built, new)
    BY <1>2, <1>4, <1>5 DEF Honest
  <1>8. \A a \in accepted' : Honest(built, a)
    BY <1>1, <1>6, <1>7 DEF Frames
  <1>9. f.sender \in Nodes
    BY <1>2, <1>3 DEF Genuine
  <1> QED
    BY <1>2, <1>3, <1>8, <1>9

\* Frames that are passed on only.
LEMMA OverhearIInv ==
  ASSUME IInv, NEW n \in Nodes, NEW f \in air, Overhear(n, f)
  PROVE  IInv'
  <1>1. Transmit(n, {}, Reflood(n, f)) /\ IsFiniteSet({})
    BY FS_EmptySet DEF Overhear
  <1>2. \A g \in Reflood(n, f) : Heard(built, g)
    BY RefloodHeard DEF Overhear
  <1>3. /\ running' \in [Nodes -> BOOLEAN] /\ generation' \in [Nodes -> Generations]
        /\ UNCHANGED <<known, chain, sharedWith, chains, accepted, lapsed>>
    BY DEF Overhear, keyVars, IInv, Types
  <1>4. \A a \in accepted' : Honest(built, a)
    BY <1>3 DEF IInv, Frames
  <1> QED
    BY <1>1, <1>2, <1>3, <1>4, QuietStep

\* Frames that are accepted, and answered at most with an acknowledgement.
LEMMA AcceptQuietIInv ==
  ASSUME IInv, NEW n \in Nodes, NEW f \in air, Accept(n, f), UNCHANGED keyVars,
         NEW frames \in {{}, {Ack(n, f)}}, Transmit(n, frames, Reflood(n, f))
  PROVE  IInv'
  <1>1. /\ \A a \in accepted' : Honest(built, a)
        /\ f.sender \in Nodes
    BY AcceptGenuine
  <1>2. \A g \in Reflood(n, f) : Heard(built, g)
    BY RefloodHeard DEF Accept
  <1>3. Genuine(Ack(n, f)) /\ Ack(n, f).ct.key.kind \in {"static", "fs"}
    BY <1>1, AckGenuine DEF Ack
  <1>4. IsFiniteSet(frames) /\ \A g \in frames : Genuine(g) /\ g.ct.key.kind # "message"
    <2>1. CASE frames = {}
      BY <2>1, FS_EmptySet
    <2>2. CASE frames = {Ack(n, f)}
      <3> DEFINE a == Ack(n, f)
      <3>1. IsFiniteSet({a})
        BY FS_Singleton
      <3>2. Genuine(a) /\ a.ct.key.kind # "message"
        BY <1>3
      <3> HIDE DEF a
      <3>3. frames = {a}
        BY <2>2 DEF a
      <3> QED
        BY <3>1, <3>2, <3>3
    <2> QED
      BY <2>1, <2>2
  <1>5. /\ running' \in [Nodes -> BOOLEAN] /\ generation' \in [Nodes -> Generations]
        /\ UNCHANGED <<known, chain, sharedWith, chains, lapsed>>
    BY DEF Accept, keyVars, IInv, Types
  <1> QED
    BY <1>1, <1>2, <1>4, <1>5, QuietStep

\* A newer prekey is held.
LEMMA BundleHeld ==
  ASSUME IInv, NEW n \in Nodes, NEW f \in air, Accept(n, f), Kind(f) = "Beacon",
         known' = [known EXCEPT ![n][f.sender] = f.ct.body.generation]
  PROVE  /\ f.sender \in Nodes
         /\ known' \in [Nodes -> [Nodes -> {None} \cup Generations]]
         /\ known'[n][f.sender] # None
         /\ Correspondents(n)' = Correspondents(n) \cup {f.sender}
         /\ \A m \in Nodes \ {n} : Correspondents(m)' = Correspondents(m)
  <1>1. f.sender \in Nodes
    BY AcceptGenuine
  <1>2. f.ct.body.generation \in Generations
    <2>1. PICK g \in built : Genuine(g) /\ f.ct = g.ct /\ Kind(f) = Kind(g)
      BY AcceptGenuine
    <2> QED
      BY <2>1 DEF Genuine
  <1>3. f.ct.body.generation # None
    BY <1>2, SealingAssumption DEF Generations, None
  <1>4. known \in [Nodes -> [Nodes -> {None} \cup Generations]]
    BY DEF IInv, Types
  <1> DEFINE gen == f.ct.body.generation
             peer == f.sender
  <1>5. known' = [known EXCEPT ![n][peer] = gen]
    OBVIOUS
  <1> HIDE DEF gen, peer
  <1>6. peer \in Nodes /\ gen \in Generations /\ gen # None
    BY <1>1, <1>2, <1>3 DEF gen, peer
  <1>7. /\ known' \in [Nodes -> [Nodes -> {None} \cup Generations]]
        /\ known'[n][peer] = gen
        /\ \A m \in Nodes, p \in Nodes : m # n \/ p # peer => known'[m][p] = known[m][p]
    <2>1. known' = [known EXCEPT ![n] = [known[n] EXCEPT ![peer] = gen]]
      BY <1>5
    <2>2. known[n] \in [Nodes -> {None} \cup Generations]
      BY <1>4
    <2> DEFINE row == [known[n] EXCEPT ![peer] = gen]
    <2>3. /\ row \in [Nodes -> {None} \cup Generations] /\ row[peer] = gen
          /\ \A p \in Nodes : p # peer => row[p] = known[n][p]
      BY <1>6, <2>2
    <2> HIDE DEF row
    <2>4. known' = [known EXCEPT ![n] = row]
      BY <2>1 DEF row
    <2>5. known'[n] = row /\ \A m \in Nodes : m # n => known'[m] = known[m]
      BY <1>4, <2>4
    <2>6. known' \in [Nodes -> [Nodes -> {None} \cup Generations]]
      BY <1>4, <2>3, <2>4
    <2> QED
      BY <2>3, <2>5, <2>6
  <1>8. Correspondents(n)' = Correspondents(n) \cup {peer}
    BY <1>6, <1>7 DEF Correspondents
  <1>9. \A m \in Nodes \ {n} : Correspondents(m)' = Correspondents(m)
    BY <1>7 DEF Correspondents
  <1> QED
    BY <1>6, <1>7, <1>8, <1>9 DEF peer

LEMMA AcceptBeaconOnlyIInv ==
  ASSUME IInv, NEW n \in Nodes, NEW f \in air, AcceptBeaconOnly(n, f)
  PROVE  IInv'
  <1>1. /\ Accept(n, f) /\ Kind(f) = "Beacon"
        /\ known' = [known EXCEPT ![n][f.sender] = f.ct.body.generation]
        /\ Transmit(n, {}, IF running[n] THEN {} ELSE Reflood(n, f)) /\ IsFiniteSet({})
        /\ UNCHANGED <<running, generation, chain, sharedWith, chains, lapsed>>
    BY FS_EmptySet DEF AcceptBeaconOnly, Accept
  <1>2. /\ known' \in [Nodes -> [Nodes -> {None} \cup Generations]]
        /\ \A m \in Nodes : Correspondents(m) \subseteq Correspondents(m)'
    BY <1>1, BundleHeld
  <1>3. \A a \in accepted' : Honest(built, a)
    BY <1>1, AcceptGenuine
  <1>4. \A g \in Reflood(n, f) : Heard(built, g)
    BY <1>1, RefloodHeard DEF Accept
  <1>5. /\ Frames' /\ counter' \in [Nodes -> Nat]
        /\ built' = built /\ built' \subseteq air'
    <2> DEFINE none == {}
               flood == IF running[n] THEN {} ELSE Reflood(n, f)
    <2>1. /\ Transmit(n, none, flood) /\ IsFiniteSet(none)
          /\ \A g \in none : Genuine(g)
      BY <1>1
    <2>2. \A g \in flood : Heard(built, g)
      BY <1>4
    <2> HIDE DEF none, flood
    <2>3. Frames' /\ counter' \in [Nodes -> Nat] /\ built' = built \cup none /\ built' \subseteq air'
      BY <1>3, <2>1, <2>2, TransmitFrames
    <2> QED
      BY <2>3 DEF none
  <1>6. Types'
    BY <1>1, <1>2, <1>5 DEF IInv, Types
  <1>7. Handed'
    BY <1>1, <1>5, HandedStays DEF IInv
  <1>8. Kept'
    BY <1>1, <1>2, <1>5, KeptStays DEF IInv
  <1> QED
    BY <1>5, <1>6, <1>7, <1>8 DEF IInv

LEMMA AcceptBeaconIInv ==
  ASSUME IInv, NEW n \in Nodes, NEW f \in air, AcceptBeacon(n, f)
  PROVE  IInv'
  <1> DEFINE peer == f.sender
             h == Handover(n, counter[n], peer, known'[n][peer], chain[n])
  <1>1. /\ Accept(n, f) /\ Kind(f) = "Beacon"
        /\ known' = [known EXCEPT ![n][f.sender] = f.ct.body.generation]
        /\ Transmit(n, {h}, Reflood(n, f)) /\ IsFiniteSet({h})
        /\ sharedWith' = [sharedWith EXCEPT ![n] = @ \cup {peer}]
        /\ UNCHANGED <<running, generation, chain, chains, lapsed>>
    BY FS_Singleton DEF AcceptBeacon, Accept
  <1>2. /\ peer \in Nodes
        /\ known' \in [Nodes -> [Nodes -> {None} \cup Generations]]
        /\ known'[n][peer] # None
        /\ Correspondents(n)' = Correspondents(n) \cup {peer}
        /\ \A m \in Nodes \ {n} : Correspondents(m)' = Correspondents(m)
    BY <1>1, BundleHeld
  <1>3. chain[n].number.owner = n
    BY DEF IInv, Types
  <1>4. /\ Genuine(h) /\ Hands(h, n, peer, chain[n].number)
        /\ h.ct.key.kind # "message"
    BY <1>2, <1>3, HandoverGenuine
  <1> HIDE DEF h, peer
  <1>5. \A a \in accepted' : Honest(built, a)
    BY <1>1, AcceptGenuine
  <1>6. \A g \in Reflood(n, f) : Heard(built, g)
    BY <1>1, RefloodHeard DEF Accept
  <1>7. /\ Frames' /\ counter' \in [Nodes -> Nat]
        /\ built' = built \cup {h} /\ built' \subseteq air'
    BY <1>1, <1>4, <1>5, <1>6, TransmitFrames
  <1>8. /\ sharedWith'[n] = sharedWith[n] \cup {peer}
        /\ \A m \in Nodes \ {n} : sharedWith'[m] = sharedWith[m]
    BY <1>1 DEF IInv, Types
  <1>9. Types'
    BY <1>1, <1>2, <1>7 DEF IInv, Types
  <1>10. Handed'
    <2>1. ASSUME NEW m \in Nodes, NEW p \in Nodes, p \in sharedWith'[m]
          PROVE  \E g \in built' : Hands(g, m, p, chain'[m].number)
      <3>1. CASE m = n /\ p = peer
        BY <1>1, <1>4, <1>7, <3>1
      <3>2. CASE m # n \/ p # peer
        <4>1. p \in sharedWith[m]
          BY <1>8, <2>1, <3>2
        <4> QED
          BY <1>1, <1>7, <4>1 DEF IInv, Handed
      <3> QED
        BY <3>1, <3>2
    <2>2. ASSUME NEW m \in Nodes, NEW d \in chains'[m]
          PROVE  \E g \in built' : Hands(g, d.number.owner, m, d.number) /\ g.ct.body.chain = d
      BY <1>1, <1>7, <2>2 DEF IInv, Handed
    <2> QED
      BY <2>1, <2>2 DEF Handed
  <1>11. Kept'
    <2> SUFFICES ASSUME NEW m \in Nodes
                 PROVE  /\ sharedWith'[m] \subseteq Correspondents(m)'
                        /\ Ratcheted(m)' => Correspondents(m)' # {}
                        /\ Ratcheted(m)' /\ m \notin lapsed' => sharedWith'[m] # {}
      BY DEF Kept
    <2>1. Ratcheted(m)' <=> Ratcheted(m)
      BY <1>4, <1>7 DEF Ratcheted
    <2>2. /\ sharedWith[m] \subseteq Correspondents(m)
          /\ Ratcheted(m) => Correspondents(m) # {}
          /\ Ratcheted(m) /\ m \notin lapsed => sharedWith[m] # {}
      BY DEF IInv, Kept
    <2>3. CASE m = n
      BY <1>1, <1>2, <1>8, <2>1, <2>2, <2>3
    <2>4. CASE m # n
      BY <1>1, <1>2, <1>8, <2>1, <2>2, <2>4
    <2> QED
      BY <2>3, <2>4
  <1> QED
    BY <1>7, <1>9, <1>10, <1>11 DEF IInv

LEMMA AcceptSenderKeyIInv ==
  ASSUME IInv, NEW n \in Nodes, NEW f \in air, AcceptSenderKey(n, f)
  PROVE  IInv'
  <1> DEFINE c == f.ct.body.chain
             a == Ack(n, f)
  <1>1. /\ Accept(n, f) /\ Kind(f) = "SenderKey"
        /\ chains' = [chains EXCEPT ![n] = Installed(@, c)]
        /\ Transmit(n, {a}, Reflood(n, f)) /\ IsFiniteSet({a})
        /\ UNCHANGED <<running, generation, known, chain, sharedWith, lapsed>>
    BY FS_Singleton DEF AcceptSenderKey, Accept
  <1>2. PICK g \in built : /\ Genuine(g) /\ f.ct = g.ct /\ f.sender = g.sender
                           /\ f.recipient = g.recipient /\ Kind(f) = Kind(g)
    BY <1>1, AcceptGenuine
  <1>3. Hands(g, c.number.owner, n, c.number) /\ g.ct.body.chain = c
    <2>1. f.recipient = n
      BY <1>1, <1>2, SealingAssumption DEF Accept, ForUs, IsBroadcast, Genuine
    <2> QED
      BY <1>1, <1>2, <2>1 DEF Genuine, Hands
  <1>4. Genuine(a) /\ a.ct.key.kind # "message"
    <2>1. f.sender \in Nodes
      BY <1>1, AcceptGenuine
    <2> QED
      BY <2>1, AckGenuine DEF Ack
  <1> HIDE DEF a, c
  <1>5. \A x \in accepted' : Honest(built, x)
    BY <1>1, AcceptGenuine
  <1>6. \A x \in Reflood(n, f) : Heard(built, x)
    BY <1>1, RefloodHeard DEF Accept
  <1>7. /\ Frames' /\ counter' \in [Nodes -> Nat]
        /\ built' = built \cup {a} /\ built' \subseteq air'
    BY <1>1, <1>4, <1>5, <1>6, TransmitFrames
  <1>8. Types'
    BY <1>1, <1>7 DEF IInv, Types
  <1>9. Handed'
    <2>1. ASSUME NEW m \in Nodes, NEW p \in Nodes, p \in sharedWith'[m]
          PROVE  \E x \in built' : Hands(x, m, p, chain'[m].number)
      BY <1>1, <1>7, <2>1 DEF IInv, Handed
    <2>2. ASSUME NEW m \in Nodes, NEW d \in chains'[m]
          PROVE  \E x \in built' : Hands(x, d.number.owner, m, d.number) /\ x.ct.body.chain = d
      <3>1. d \in chains[m] \/ (m = n /\ d = c)
        BY <1>1, <2>2 DEF Installed, IInv, Types
      <3>2. CASE d \in chains[m]
        BY <1>7, <3>2 DEF IInv, Handed
      <3>3. CASE m = n /\ d = c
        BY <1>3, <1>7, <3>3
      <3> QED
        BY <3>1, <3>2, <3>3
    <2> QED
      BY <2>1, <2>2 DEF Handed
  <1>10. Kept'
    <2>1. \A m \in Nodes : Correspondents(m)' = Correspondents(m)
      BY <1>1 DEF Correspondents
    <2> QED
      BY <1>1, <1>4, <1>7, <2>1, KeptStays DEF IInv
  <1> QED
    BY <1>7, <1>8, <1>9, <1>10 DEF IInv

LEMMA IngestIInv ==
  ASSUME IInv, NEW n \in Nodes, NEW f \in air, Ingest(n, f)
  PROVE  IInv'
  <1>1. CASE AcceptOldBeacon(n, f)
    BY <1>1, AcceptQuietIInv DEF AcceptOldBeacon
  <1>2. CASE AcceptMessage(n, f)
    BY <1>2, AcceptQuietIInv DEF AcceptMessage
  <1>3. CASE AcceptAck(n, f)
    BY <1>3, AcceptQuietIInv DEF AcceptAck
  <1> QED
    BY <1>1, <1>2, <1>3, HearOwnIInv, OverhearIInv, AcceptBeaconIInv, AcceptBeaconOnlyIInv,
       AcceptSenderKeyIInv DEF Ingest

\* Every step keeps the invariant.
LEMMA NextIInv == ASSUME IInv, [Next]_vars PROVE IInv'
  <1>1. CASE UNCHANGED vars
    <2>1. running' \in [Nodes -> BOOLEAN] /\ counter' \in [Nodes -> Nat]
      BY <1>1 DEF vars, IInv, Types
    <2> QED
      BY <1>1, <2>1, AirStep DEF vars, keyVars
  <1>2. CASE \E n \in Users, length \in Lengths :
               Broadcast(n, length) \/ \E peer \in Nodes \ {n} : SendTo(n, peer, length)
    BY <1>2, SealingAssumption, BroadcastIInv, SendToIInv
  <1>3. CASE \E n \in Users : Stop(n) \/ \E served \in SUBSET Nodes : RotateChain(n, served)
    BY <1>3, SealingAssumption, StopIInv, RotateChainIInv
  <1>4. CASE \E n \in Rotators : RotatePrekey(n)
    BY <1>4, SealingAssumption, RotatePrekeyIInv
  <1>5. CASE \E n \in Nodes : Start(n) \/ OtherBuild(n) \/ \E f \in air : Ingest(n, f)
    BY <1>5, StartIInv, OtherBuildIInv, IngestIInv
  <1>6. CASE Damage
    BY <1>6, DamageIInv
  <1> QED
    BY <1>1, <1>2, <1>3, <1>4, <1>5, <1>6 DEF Next

-----------------------------------------------------------------------------
(* Theorems.                                                                *)

\* The invariant holds whatever nodes do and the air delivers.
THEOREM SealingInvariant == Spec => []IInv
  BY InitIInv, NextIInv, PTL DEF Spec

\* do_ingest accepts only what the sender in the header built, unchanged but for
\* ttl and hops, whatever is on the air.
THEOREM OnlyBuiltAccepted == Spec => []Authentic
  <1>1. IInv => Authentic
    BY DEF IInv, Types, Frames, Honest, Authentic, TypeOK, Generations
  <1> QED
    BY <1>1, SealingInvariant, PTL

\* What parse calls forward secret was opened with an ephemeral or a message key,
\* and nothing else was.
THEOREM PadlockTrue == Spec => []PadlockHonest
  <1>1. IInv => PadlockHonest
    BY DEF IInv, Frames, Honest, PadlockHonest
  <1> QED
    BY <1>1, SealingInvariant, PTL

\* Chains travel to one peer under its prekey, chain_shared_with names only peers
\* the chain was sent to, and nobody else holds it.
THEOREM ChainsNeverBroadcast == Spec => []ChainsHandedOver
  <1>1. ASSUME IInv PROVE ChainsHandedOver
    <2>1. \A f \in built : Kind(f) = "SenderKey" =>
            f.ct.key.kind = "fs" /\ f.ct.key.to = f.recipient
      BY <1>1 DEF IInv, Frames, Genuine
    <2>2. \A n \in Nodes, p \in Nodes : p \in sharedWith[n] =>
            \E f \in built : /\ f.sender = n /\ f.recipient = p /\ Kind(f) = "SenderKey"
                             /\ f.ct.body.chain.number = chain[n].number
      BY <1>1 DEF IInv, Handed, Hands
    <2>3. \A n \in Nodes : \A c \in chains[n] :
            \E f \in built : /\ f.sender = c.number.owner /\ f.recipient = n
                             /\ Kind(f) = "SenderKey" /\ f.ct.body.chain = c
      BY <1>1 DEF IInv, Handed, Hands
    <2> QED
      BY <2>1, <2>2, <2>3 DEF ChainsHandedOver
  <1> QED
    BY <1>1, SealingInvariant, PTL

\* Whatever the nickname and the body, what build returns can be parsed and sent.
THEOREM FramesFit == Spec => []Fits
  <1>1. IInv => Fits
    BY DEF IInv, Frames, Genuine, Fits
  <1> QED
    BY <1>1, SealingInvariant, PTL

\* A message under the group key is a broadcast of a node that shares its chain
\* with nobody.
LEMMA GroupKeyUnshared ==
  ASSUME IInv, Next, NEW g \in built' \ built, Kind(g) = "Message", g.ct.key.kind = "network"
  PROVE  g.sender \in Nodes /\ sharedWith[g.sender] = {}
  <1>1. ASSUME NEW n \in Nodes, NEW length, Broadcast(n, length)
        PROVE  g.sender = n /\ sharedWith[n] = {}
    <2> DEFINE f == Outgoing(n, counter[n], BROADCAST_ID, Text(length), "Message",
                             BroadcastSealing(n))
    <2>1. f.sender = n /\ f.ct.key.kind = IF sharedWith[n] = {} THEN "network" ELSE "message"
      BY <1>1, BroadcastGenuine DEF Broadcast
    <2>2. built' = built \cup {f}
      BY <1>1 DEF Broadcast, Transmit
    <2> HIDE DEF f
    <2> QED
      BY <2>1, <2>2
  <1>2. ASSUME NEW n \in Nodes, NEW peer \in Nodes, NEW length, SendTo(n, peer, length)
        PROVE  FALSE
    <2> DEFINE body == Text(length)
               f == Directed(n, counter[n], peer, known[n][peer], body, "Message")
    <2>1. body.length \in 0 .. MAX_BODY
      BY <1>2 DEF SendTo, Text, MAX_BODY, MAX_FRAME, HEADER_LEN, FS_PREAMBLE_LEN, MAX_NICKNAME,
                  TAG_LEN
    <2>2. "Message" \in FrameKind \ {"Beacon"} /\ "Message" # "SenderKey"
      BY DEF FrameKind
    <2>3. built' = built \cup {f}
      BY <1>2 DEF SendTo, Transmit
    <2> HIDE DEF body
    <2>4. f.ct.key.kind \in {"static", "fs"}
      BY <2>1, <2>2, DirectedGenuine
    <2> HIDE DEF f
    <2> QED
      BY <2>3, <2>4
  <1>3. ASSUME NEW n \in Nodes, NEW served \in SUBSET Nodes, RotateChain(n, served)
        PROVE  FALSE
    <2> DEFINE c == FreshChain(n, chain[n].number.rotation + 1)
               handover(turn, p) == Handover(n, turn[p], p, known[n][p], c)
    <2>1. c.number.owner = n
      BY DEF FreshChain
    <2>2. chain'[n] = c
      BY <1>3 DEF RotateChain, IInv, Types
    <2>3. PICK turn \in Turns(served, counter[n]) :
            built' = built \cup {handover(turn, p) : p \in served}
      BY <1>3, <2>2 DEF RotateChain, Transmit
    <2> HIDE DEF c
    <2>4. \A p \in served : p \in Nodes /\ known[n][p] # None
      BY <1>3 DEF RotateChain, Correspondents
    <2>5. \A p \in served : handover(turn, p).ct.key.kind \in {"static", "fs"}
      BY <2>1, <2>4, HandoverGenuine
    <2> HIDE DEF handover
    <2> QED
      BY <2>3, <2>5
  <1>4. ASSUME NEW n \in Nodes, Start(n) \/ RotatePrekey(n)
        PROVE  FALSE
    <2>1. PICK gen \in Generations : built' = built \cup {Beacon(n, counter[n], gen)}
      <3>1. CASE Start(n)
        BY <3>1 DEF Start, Transmit, IInv, Types
      <3>2. CASE RotatePrekey(n)
        <4>1. generation'[n] \in Generations
          BY <3>2, SealingAssumption DEF RotatePrekey, IInv, Types, Generations
        <4> QED
          BY <3>2, <4>1 DEF RotatePrekey, Transmit
      <3> QED
        BY <1>4, <3>1, <3>2
    <2> DEFINE f == Beacon(n, counter[n], gen)
    <2>2. Kind(f) = "Beacon"
      BY BeaconGenuine
    <2>3. built' = built \cup {f}
      BY <2>1
    <2> HIDE DEF f
    <2> QED
      BY <2>2, <2>3
  <1>5. ASSUME NEW n \in Nodes, NEW f \in air, Ingest(n, f)
        PROVE  FALSE
    <2>1. CASE AcceptBeacon(n, f)
      <3> DEFINE h == Handover(n, counter[n], f.sender, known'[n][f.sender], chain[n])
      <3>1. f.sender \in Nodes /\ known'[n][f.sender] # None
        BY <2>1, BundleHeld DEF AcceptBeacon
      <3>2. h.ct.key.kind \in {"static", "fs"}
        BY <3>1, HandoverGenuine DEF IInv, Types
      <3>3. built' = built \cup {h}
        BY <2>1 DEF AcceptBeacon, Transmit
      <3> HIDE DEF h
      <3> QED
        BY <3>2, <3>3
    <2>2. CASE AcceptSenderKey(n, f) \/ AcceptMessage(n, f)
      <3> DEFINE a == Ack(n, f)
      <3>1. f.sender \in Nodes
        BY <2>2, AcceptGenuine DEF AcceptSenderKey, AcceptMessage
      <3>2. a.ct.key.kind \in {"static", "fs"}
        BY <3>1, AckGenuine DEF Ack
      <3>3. built' = built \cup {a} \/ built' = built \cup {}
        BY <2>2 DEF AcceptSenderKey, AcceptMessage, Transmit
      <3> HIDE DEF a
      <3> QED
        BY <3>2, <3>3
    <2>3. CASE \/ HearOwn(n, f) \/ Overhear(n, f) \/ AcceptOldBeacon(n, f)
               \/ AcceptBeaconOnly(n, f) \/ AcceptAck(n, f)
      <3>1. built' = built \cup {}
        BY <2>3 DEF HearOwn, Overhear, AcceptOldBeacon, AcceptBeaconOnly, AcceptAck, Transmit
      <3> QED
        BY <3>1
    <2> QED
      BY <1>5, <2>1, <2>2, <2>3 DEF Ingest
  <1>6. ASSUME NEW n \in Nodes, Stop(n) \/ OtherBuild(n)
        PROVE  FALSE
    BY <1>6 DEF Stop, OtherBuild
  <1>7. Users \subseteq Nodes /\ Rotators \subseteq Nodes
    BY SealingAssumption
  <1> QED
    BY <1>1, <1>2, <1>3, <1>4, <1>5, <1>6, <1>7 DEF Next, Damage

\* Once a node has sealed a broadcast with its chain, it falls back to the group
\* key only after a rotation of the chain failed.
THEOREM BroadcastsKeepTheRatchet == Spec => NoDowngrade
  <1> DEFINE Safe == \A g \in built' \ built :
       (Kind(g) = "Message" /\ g.ct.key.kind = "network")
         => \/ g.sender \in lapsed
            \/ \A f \in built : f.sender = g.sender => f.ct.key.kind # "message"
  <1>1. ASSUME IInv, Next PROVE Safe
    <2> SUFFICES ASSUME NEW g \in built' \ built, Kind(g) = "Message",
                        g.ct.key.kind = "network", g.sender \notin lapsed,
                        NEW f \in built, f.sender = g.sender, f.ct.key.kind = "message"
                 PROVE  FALSE
      OBVIOUS
    <2>1. g.sender \in Nodes /\ sharedWith[g.sender] = {}
      BY <1>1, GroupKeyUnshared
    <2>2. Ratcheted(g.sender)
      BY DEF Ratcheted
    <2> QED
      BY <1>1, <2>1, <2>2 DEF IInv, Kept
  <1>2. IInv /\ [Next]_vars => [Safe]_vars
    BY <1>1
  <1> HIDE DEF Safe
  <1>3. Spec => [][Safe]_vars
    BY <1>2, SealingInvariant, PTL DEF Spec
  <1> QED
    BY <1>3 DEF Safe, NoDowngrade
=============================================================================
