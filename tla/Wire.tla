-------------------------------- MODULE Wire --------------------------------
(***************************************************************************)
(* Packets as bytes (packet.hpp, network.cpp). send_packet passes the      *)
(* struct to a raw socket as it is: what goes on the air begins with the   *)
(* version byte. receive_packet takes the first 14 bytes of every frame    *)
(* for an Ethernet header. The sequence id is kept as its four bytes.      *)
(***************************************************************************)
EXTENDS Integers, Sequences

CONSTANT MaxPayload   \* MAX_PAYLOAD_SIZE (512)

HeaderLen == 21       \* sizeof(PacketHeader)
EthernetHeader == 14

(* Packet::init: everything else is zero.                                  *)
Packet(type, src, dst, seq, ttl, payload) ==
  [version |-> 1, type |-> type, ttl |-> ttl, source |-> src, dest |-> dst,
   sequence_id |-> seq, payload_len |-> Len(payload),
   payload |-> payload \o [j \in 1 .. MaxPayload - Len(payload) |-> 0]]

(* The packed struct in memory; payload_len is little-endian.              *)
Serialized(p) ==
  <<p.version, p.type, p.ttl>> \o p.source \o p.dest \o p.sequence_id
    \o <<p.payload_len % 256, p.payload_len \div 256>> \o p.payload

(* The header that receive_packet reads from a frame.                      *)
Header(frame) ==
  LET b == SubSeq(frame, EthernetHeader + 1, EthernetHeader + HeaderLen)
  IN  [version |-> b[1], type |-> b[2], ttl |-> b[3], source |-> SubSeq(b, 4, 9),
       dest |-> SubSeq(b, 10, 15), sequence_id |-> SubSeq(b, 16, 19),
       payload_len |-> b[20] + 256 * b[21]]
=============================================================================
