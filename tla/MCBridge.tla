------------------------------ MODULE MCBridge ------------------------------
(***************************************************************************)
(* Values for Bridge: what the worker reports, at the limits of its fields. *)
(***************************************************************************)
EXTENDS Bridge

Id(name) == Bytes(32, name)
MessageId == Bytes(16, "message")

Trouble == {error(7, Bytes(12, "what failed"))}
Expired(reason) == {message_expired(7, MessageId, reason)}
Delivered(direct) == {message_delivered(7, MessageId, direct)}
Found ==
  {peer_discovered(7, Id("peer"), nickname, rssi, 255) :
     rssi \in {-128, 127}, nickname \in {Bytes(0, ""), Bytes(20, "name")}}
Received ==
  {message_received(7, [sender |-> Id("peer"), messageId |-> MessageId, ttl |-> 255,
                        hops |-> 0, rssi |-> -1, forwardSecret |-> secret, body |-> body]) :
     secret \in BOOLEAN, body \in {Bytes(1, "body"), Bytes(MAX_BODY, "body")}}

MCEventsOf ==
  [Start |-> {transport_state(7, TRUE)} \cup Trouble,
   Stop |-> {transport_state(7, FALSE)} \cup Trouble,
   Send |-> Delivered(FALSE) \cup Expired(Bytes(11, "outbox full")) \cup Trouble,
   Ingest |-> Found \cup Received \cup Delivered(TRUE) \cup Trouble,
   Tick |-> {peer_lost(7, Id("peer"))} \cup Expired(Bytes(6, "no ack")) \cup Trouble]

Known(name, nickname) ==
  [id |-> Id(name), nickname |-> nickname, rssi |-> -128, hops |-> 1, lastSeen |-> 1000]
MCPeerTables ==
  {<<>>,
   <<Known("a", Bytes(20, "name")), Known("b", Bytes(0, "")), Known("c", Bytes(5, "other"))>>}

MCLengths == {1, MAX_FRAME + 1}
=============================================================================
