------------------------------ MODULE EventWire ------------------------------
(***************************************************************************)
(* The buffers that go up to JavaScript: an event (Event::to_wire,          *)
(* mesh/rust/meshcore/src/event.rs) and the peer table (mesh_peers,         *)
(* mesh/rust/meshcore-ffi/src/c_api.rs), and their decoders (decodeEvent    *)
(* and decodePeers, mesh/js/src/events.ts).                                 *)
(*                                                                          *)
(* A buffer is its length and the fields Rust has appended, each with the   *)
(* offset and the width in bytes it came to.  JavaScript knows no fields:   *)
(* it reads at offsets, and finds garbage where no field of the width it    *)
(* reads begins.                                                            *)
(***************************************************************************)
EXTENDS Integers, Sequences

ABI_VERSION == 4
MESH_ABI_VERSION == 4
HEADER_LEN == 16

\* KIND_* of event.rs; EventKind of events.ts has the same numbers.
KindTag == [PeerDiscovered |-> 1, PeerLost |-> 2, MessageReceived |-> 3,
            MessageDelivered |-> 4, TransportState |-> 5, Error |-> 6, MessageExpired |-> 7]

\* A string, an id or a body of `length` bytes.
Bytes(length, text) == [length |-> length, text |-> text]
Texts == {bytes \in [length : Nat, text : STRING] : bytes.length = 0 => bytes.text = ""}
Array(length) == {bytes \in Texts : bytes.length = length}
U8 == 0 .. 255
I8 == -128 .. 127

-----------------------------------------------------------------------------
(* Events, each made at the same moment.  A sequence number or a timestamp  *)
(* is of the width it is written with.                                      *)

Now == 1000

peer_discovered(seq, peer, nickname, rssi, hops) ==
  [kind |-> "PeerDiscovered", seq |-> seq, timestamp |-> Now,
   peer |-> peer, nickname |-> nickname, rssi |-> rssi, hops |-> hops]
peer_lost(seq, peer) ==
  [kind |-> "PeerLost", seq |-> seq, timestamp |-> Now, peer |-> peer]
message_received(seq, m) ==
  [kind |-> "MessageReceived", seq |-> seq, timestamp |-> Now,
   sender |-> m.sender, messageId |-> m.messageId, ttl |-> m.ttl, hops |-> m.hops,
   rssi |-> m.rssi, forwardSecret |-> m.forwardSecret, body |-> m.body]
message_delivered(seq, msgId, direct) ==
  [kind |-> "MessageDelivered", seq |-> seq, timestamp |-> Now,
   messageId |-> msgId, direct |-> direct]
message_expired(seq, msgId, reason) ==
  [kind |-> "MessageExpired", seq |-> seq, timestamp |-> Now,
   messageId |-> msgId, reason |-> reason]
transport_state(seq, running) ==
  [kind |-> "TransportState", seq |-> seq, timestamp |-> Now, running |-> running]
error(seq, message) ==
  [kind |-> "Error", seq |-> seq, timestamp |-> Now, message |-> message]

\* EventKind, with what every event has.
Discoveries ==
  [kind : {"PeerDiscovered"}, seq : Nat, timestamp : Nat,
   peer : Array(32), nickname : Texts, rssi : I8, hops : U8]
Losses == [kind : {"PeerLost"}, seq : Nat, timestamp : Nat, peer : Array(32)]
Receptions ==
  [kind : {"MessageReceived"}, seq : Nat, timestamp : Nat,
   sender : Array(32), messageId : Array(16), ttl : U8, hops : U8, rssi : I8,
   forwardSecret : BOOLEAN, body : Texts]
Deliveries ==
  [kind : {"MessageDelivered"}, seq : Nat, timestamp : Nat,
   messageId : Array(16), direct : BOOLEAN]
Expiries ==
  [kind : {"MessageExpired"}, seq : Nat, timestamp : Nat,
   messageId : Array(16), reason : Texts]
States == [kind : {"TransportState"}, seq : Nat, timestamp : Nat, running : BOOLEAN]
Errors == [kind : {"Error"}, seq : Nat, timestamp : Nat, message : Texts]

Events ==
  Discoveries \cup Losses \cup Receptions \cup Deliveries \cup Expiries
    \cup States \cup Errors

\* PeerInfo: a row of the peer table.
PeerInfos == [id : Array(32), rssi : I8, hops : U8, lastSeen : Nat, nickname : Texts]

-----------------------------------------------------------------------------
(* Event::to_wire.                                                          *)

\* A field is a number or bytes.
Num(width, n) == [width |-> width, num |-> {n}, raw |-> {}]
Raw(bytes) == [width |-> bytes.length, num |-> {}, raw |-> {bytes}]

Empty == [length |-> 0, fields |-> {}]
\* push and extend_from_slice: the field comes to the end of the buffer.
Put(w, field) ==
  [length |-> w.length + field.width,
   fields |-> w.fields \cup {[at |-> w.length, width |-> field.width,
                              num |-> field.num, raw |-> field.raw]}]
w & field == Put(w, field)

put_bytes(w, bytes) == w & Num(4, bytes.length) & Raw(bytes)

Flag(condition) == IF condition THEN 1 ELSE 0
AsU8(n) == n % 256

Header(e) ==
  Empty & Num(1, ABI_VERSION) & Num(1, KindTag[e.kind])
        & Num(2, Flag(e.kind = "MessageReceived" /\ e.forwardSecret))
        & Num(4, e.seq) & Num(8, e.timestamp)

Discovery(w, e) ==
  put_bytes(w & Raw(e.peer) & Num(1, AsU8(e.rssi)) & Num(1, e.hops), e.nickname)

\* Mutant: no pad before the length of a message.
ReceptionUnpadded(w, e) ==
  put_bytes(w & Raw(e.sender) & Raw(e.messageId) & Num(1, e.ttl) & Num(1, e.hops)
              & Num(1, AsU8(e.rssi)), e.body)

Reception(w, e) ==
  put_bytes(w & Raw(e.sender) & Raw(e.messageId) & Num(1, e.ttl) & Num(1, e.hops)
              & Num(1, AsU8(e.rssi)) & Num(1, 0), e.body)

to_wire(e) ==
  LET w == Header(e)
  IN CASE e.kind = "PeerDiscovered" -> Discovery(w, e)
       [] e.kind = "PeerLost" -> w & Raw(e.peer)
       [] e.kind = "MessageReceived" -> Reception(w, e)
       [] e.kind = "MessageDelivered" -> w & Raw(e.messageId) & Num(1, Flag(e.direct)) & Num(3, 0)
       [] e.kind = "MessageExpired" -> put_bytes(w & Raw(e.messageId), e.reason)
       [] e.kind = "TransportState" -> w & Num(1, Flag(e.running)) & Num(3, 0)
       [] e.kind = "Error" -> put_bytes(w, e.message)

\* mesh_peers.
Row(w, p) ==
  put_bytes(w & Raw(p.id) & Num(1, AsU8(p.rssi)) & Num(1, p.hops) & Num(2, 0)
              & Num(8, p.lastSeen), p.nickname)

peers_wire(peers) ==
  LET rows[i \in 0 .. Len(peers)] ==
        IF i = 0 THEN Empty & Num(4, Len(peers)) ELSE Row(rows[i - 1], peers[i])
  IN rows[Len(peers)]

-----------------------------------------------------------------------------
(* decodeEvent.                                                             *)

FieldsAt(buffer, o, width) == {f \in buffer.fields : f.at = o /\ f.width = width}

GetUint(buffer, o, width) ==
  LET found == UNION {f.num : f \in FieldsAt(buffer, o, width)}
  IN IF found = {} THEN -1 ELSE CHOOSE n \in found : TRUE
GetInt8(buffer, o) ==
  LET n == GetUint(buffer, o, 1) IN IF n > 127 THEN n - 256 ELSE n

\* A view of `length` bytes at o.
View(buffer, o, length) ==
  LET found == UNION {f.raw : f \in FieldsAt(buffer, o, length)}
  IN IF length = 0 THEN Bytes(0, "")
     ELSE IF found = {} THEN Bytes(length, "garbage") ELSE CHOOSE bytes \in found : TRUE
\* Bytes behind their length.
Counted(buffer, o) == View(buffer, o + 4, GetUint(buffer, o, 4))

Thrown == [kind |-> "thrown"]

decodeEvent(buffer) ==
  LET tag == GetUint(buffer, 1, 1)
      seq == GetUint(buffer, 4, 4)
      timestamp == GetUint(buffer, 8, 8)
      o == HEADER_LEN
  IN CASE GetUint(buffer, 0, 1) # MESH_ABI_VERSION -> Thrown
       [] tag = 1 -> [kind |-> "PeerDiscovered", seq |-> seq, timestamp |-> timestamp,
                      peer |-> View(buffer, o, 32), rssi |-> GetInt8(buffer, o + 32),
                      hops |-> GetUint(buffer, o + 33, 1), nickname |-> Counted(buffer, o + 34)]
       [] tag = 2 -> [kind |-> "PeerLost", seq |-> seq, timestamp |-> timestamp,
                      peer |-> View(buffer, o, 32)]
       [] tag = 3 -> [kind |-> "MessageReceived", seq |-> seq, timestamp |-> timestamp,
                      sender |-> View(buffer, o, 32), messageId |-> View(buffer, o + 32, 16),
                      ttl |-> GetUint(buffer, o + 48, 1), hops |-> GetUint(buffer, o + 49, 1),
                      rssi |-> GetInt8(buffer, o + 50), body |-> Counted(buffer, o + 52),
                      forwardSecret |-> GetUint(buffer, 2, 2) = 1]
       [] tag = 4 -> [kind |-> "MessageDelivered", seq |-> seq, timestamp |-> timestamp,
                      messageId |-> View(buffer, o, 16),
                      direct |-> GetUint(buffer, o + 16, 1) # 0]
       [] tag = 5 -> [kind |-> "TransportState", seq |-> seq, timestamp |-> timestamp,
                      running |-> GetUint(buffer, o, 1) # 0]
       [] tag = 6 -> [kind |-> "Error", seq |-> seq, timestamp |-> timestamp,
                      message |-> Counted(buffer, o)]
       [] tag = 7 -> [kind |-> "MessageExpired", seq |-> seq, timestamp |-> timestamp,
                      messageId |-> View(buffer, o, 16), reason |-> Counted(buffer, o + 16)]
       [] OTHER -> Thrown

\* One turn of the loop of decodePeers, which has come to offset rows.o.
ReadRow(buffer, rows) ==
  LET o == rows.o
      nickname == Counted(buffer, o + 44)
  IN [o |-> o + 48 + nickname.length,
      peers |-> Append(rows.peers,
                  [id |-> View(buffer, o, 32), rssi |-> GetInt8(buffer, o + 32),
                   hops |-> GetUint(buffer, o + 33, 1),
                   lastSeen |-> GetUint(buffer, o + 36, 8), nickname |-> nickname])]

decodePeers(buffer) ==
  LET count == GetUint(buffer, 0, 4)
      rows[i \in 0 .. count] ==
        IF i = 0 THEN [o |-> 4, peers |-> <<>>] ELSE ReadRow(buffer, rows[i - 1])
  IN rows[count].peers
=============================================================================
