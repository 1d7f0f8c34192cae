-------------------------------- MODULE Wire --------------------------------
(***************************************************************************)
(* Frames of meshcore and the keys that seal them: wire format v5           *)
(* (mesh/rust/meshcore/src/frame.rs), key agreement and AEAD (crypto.rs),   *)
(* and the two bodies the core writes itself, the prekey bundle (prekey.rs) *)
(* and the sender-key distribution (senderkey.rs).                          *)
(*                                                                          *)
(* A frame is the record of its fields as they stand in the buffer, and its *)
(* sizes are those of the code.  Hashes, signatures and AEAD are ideal: a   *)
(* derived key is the record of what it is derived from, and a ciphertext   *)
(* opens to its body under the key, nonce and associated data it was made   *)
(* with and no others.  What the system draws at random is never drawn      *)
(* twice.  A buffer shorter than a header is no frame here.                 *)
(***************************************************************************)
EXTENDS Integers

CONSTANT BROADCAST_ID  \* the recipient "everyone"

MAGIC == 77
VERSION == 5
HEADER_LEN == 116
MAX_NICKNAME == 20
FS_PREAMBLE_LEN == 32 + 4
SK_PREAMBLE_LEN == 8
TAG_LEN == 16
BUNDLE_LEN == 4 + 32 + 64
DISTRIBUTION_LEN == 4 + 4 + 32
MAX_FRAME == 512

MAX_BODY == MAX_FRAME - HEADER_LEN - FS_PREAMBLE_LEN - MAX_NICKNAME - TAG_LEN

Flags == {"BEACON", "ACK", "FS", "SK", "SKDM"}
FrameKind == {"Beacon", "Ack", "SenderKey", "Message"}

-----------------------------------------------------------------------------
(* Keys (crypto.rs).                                                        *)

\* A key pair of X25519, by its owner and its use; both halves have its name.
IdentityKey(id) == [owner |-> id, use |-> "identity", n |-> 0]
Ephemeral(id, n) == [owner |-> id, use |-> "ephemeral", n |-> n]
Prekey(id, generation) == [owner |-> id, use |-> "prekey", n |-> generation]

\* Diffie-Hellman: the same from either side.
Dh(secret, public) == {secret, public}

NetworkKey(channelSecret) == [kind |-> "network", secret |-> channelSecret]

\* Bound to both identities, in an order both sides agree on.
StaticKey(me, peer) ==
  [kind |-> "static", shared |-> Dh(IdentityKey(me), IdentityKey(peer)),
   between |-> {me, peer}]

FsKey(dh1, dh2, sender, recipient, generation) ==
  [kind |-> "fs", dh1 |-> dh1, dh2 |-> dh2, from |-> sender, to |-> recipient,
   prekey |-> generation]

SealKeyFs(me, ephemeral, recipient, generation) ==
  LET prekey == Prekey(recipient, generation) IN
  FsKey(Dh(ephemeral, prekey), Dh(IdentityKey(me), prekey), me, recipient, generation)

OpenKeyFs(prekey, ephemeral, sender, recipient, generation) ==
  FsKey(Dh(prekey, ephemeral), Dh(prekey, IdentityKey(sender)), sender, recipient,
        generation)

\* One click of a sender chain that was clicked `index` times: the message key,
\* and the chain that replaces it.
MessageKey(chain) == [kind |-> "message", chain |-> chain.number, index |-> chain.index]
NextChain(chain) == [chain EXCEPT !.index = @ + 1]

Signature(id, generation, public) ==
  [by |-> id, generation |-> generation, public |-> public]
VerifyPrekey(peer, generation, public, signature) ==
  signature = Signature(peer, generation, public)

-----------------------------------------------------------------------------
(* Bodies: what is sealed, with its length in bytes.                        *)

Text(length) == [carries |-> "text", length |-> length]
Receipt(msgId) == [carries |-> "receipt", length |-> 16, acked |-> msgId]

\* PrekeyRing::bundle and parse_bundle.
Bundle(id, generation) ==
  LET public == Prekey(id, generation) IN
  [carries |-> "bundle", length |-> BUNDLE_LEN, generation |-> generation,
   public |-> public, signature |-> Signature(id, generation, public)]
BundleParses(peer, body) ==
  /\ body.length = BUNDLE_LEN
  /\ VerifyPrekey(peer, body.generation, body.public, body.signature)

\* SenderChain::distribution: the chain as it stands.
Distribution(chain) ==
  [carries |-> "distribution", length |-> DISTRIBUTION_LEN, chain |-> chain]

-----------------------------------------------------------------------------
(* Frames (frame.rs).                                                       *)

\* A nickname: some text of `count` characters, `width` bytes each in UTF-8, and
\* the `rest` of a character that was cut in the middle.
Name(text, width, count) == [text |-> text, width |-> width, count |-> count, rest |-> 0]
NameLen(name) == name.width * name.count + name.rest
NoName == Name("", 1, 0)

Smaller(a, b) == IF a < b THEN a ELSE b

\* Mutant: cut at the byte, wherever that falls.
TruncatedAtByte(name) ==
  IF NameLen(name) <= MAX_NICKNAME THEN name
  ELSE [name EXCEPT !.count = MAX_NICKNAME \div name.width,
                    !.rest = MAX_NICKNAME % name.width]

\* Cut to MAX_NICKNAME bytes, then back to whole characters.
Truncated(name) ==
  [name EXCEPT !.count = Smaller(@, MAX_NICKNAME \div name.width), !.rest = 0]

NoPreamble == [preamble |-> "none"]
FsPreamble(ephemeral, generation) ==
  [preamble |-> "FS", ephemeral |-> ephemeral, generation |-> generation]
SkPreamble(chain) == [preamble |-> "SK", chain |-> chain.number, index |-> chain.index]

\* Bytes a preamble takes: what the flags announce, and what there is.
PreambleLen(kinds) ==
  IF "FS" \in kinds THEN FS_PREAMBLE_LEN
  ELSE IF "SK" \in kinds THEN SK_PREAMBLE_LEN ELSE 0

\* The length of the buffer.
FrameLen(f) ==
  HEADER_LEN + PreambleLen({f.preamble.preamble}) + NameLen(f.nickname) + f.ct.length

IsBroadcast(f) == f.recipient = BROADCAST_ID
IsForwardSecret(f) == f.preamble # NoPreamble

\* Mutant: any preamble goes with any recipient.
ParsesUnpaired(f) ==
  /\ f.magic = MAGIC /\ f.version = VERSION
  /\ f.nickLen <= MAX_NICKNAME
  /\ ~({"FS", "SK"} \subseteq f.flags)
  /\ HEADER_LEN + PreambleLen(f.flags) + f.nickLen + f.bodyLen = FrameLen(f)
  /\ f.nickname.rest = 0

\* parse accepts the buffer.  Flags that announce another preamble than the
\* buffer has do not fit its length.
Parses(f) ==
  /\ f.magic = MAGIC /\ f.version = VERSION
  /\ f.nickLen <= MAX_NICKNAME
  /\ ~({"FS", "SK"} \subseteq f.flags)
  /\ "FS" \in f.flags => ~IsBroadcast(f)
  /\ "SK" \in f.flags => IsBroadcast(f)
  /\ HEADER_LEN + PreambleLen(f.flags) + f.nickLen + f.bodyLen = FrameLen(f)
  /\ f.nickname.rest = 0

Kind(f) ==
  IF "BEACON" \in f.flags THEN "Beacon"
  ELSE IF "ACK" \in f.flags THEN "Ack"
  ELSE IF "SKDM" \in f.flags THEN "SenderKey" ELSE "Message"

KindFlags(kind) ==
  CASE kind = "Beacon" -> {"BEACON"} [] kind = "Ack" -> {"ACK"}
    [] kind = "SenderKey" -> {"SKDM"} [] kind = "Message" -> {}

NoCiphertext == [length |-> 0]

\* Mutant: the nickname is left out, as before v5.
AadWithoutName(f) ==
  [f EXCEPT !.ttl = 0, !.hops = 0, !.nickname = NoName, !.ct = NoCiphertext]

\* make_aad: all that precedes the ciphertext, without what a relay rewrites.
Aad(f) == [f EXCEPT !.ttl = 0, !.hops = 0, !.ct = NoCiphertext]

\* seal_aead and open_aead.
SealAead(key, nonce, aad, body) ==
  [length |-> body.length + TAG_LEN, key |-> key, nonce |-> nonce, aad |-> aad,
   body |-> body]
OpensAead(key, nonce, aad, ct) ==
  /\ ct.length >= TAG_LEN
  /\ "key" \in DOMAIN ct
  /\ ct.key = key /\ ct.nonce = nonce /\ ct.aad = aad

\* How a frame is sealed: its key and the preamble that lets the recipient
\* find it.
Sealing(key, preamble) == [key |-> key, preamble |-> preamble]

\* build, for a body of at most MAX_BODY bytes.
Build(me, recipient, msgId, nonce, counter, ttl, body, nickname, kind, sealing) ==
  LET name == Truncated(nickname)
      header ==
        [magic |-> MAGIC, version |-> VERSION,
         flags |-> KindFlags(kind) \cup ({sealing.preamble.preamble} \ {"none"}),
         ttl |-> ttl, hops |-> 0, nickLen |-> NameLen(name),
         bodyLen |-> body.length + TAG_LEN, counter |-> counter, sender |-> me,
         recipient |-> recipient, msgId |-> msgId, nonce |-> nonce,
         preamble |-> sealing.preamble, nickname |-> name, ct |-> NoCiphertext]
  IN [header EXCEPT !.ct = SealAead(sealing.key, nonce, Aad(header), body)]

\* open, with the key the recipient chose.
Opens(f, key) == OpensAead(key, f.nonce, Aad(f), f.ct)

\* relay: one less to live (saturating), one more hop (saturating).
Relayed(f) ==
  [f EXCEPT !.ttl = IF @ > 0 THEN @ - 1 ELSE 0, !.hops = Smaller(@ + 1, 255)]
=============================================================================
