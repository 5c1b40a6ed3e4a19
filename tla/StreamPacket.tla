----------------------------- MODULE StreamPacket -----------------------------
(***************************************************************************)
(* StreamPacket (MemStream/inc/StreamPacket.h, MemStream/src/              *)
(* StreamPacket.cpp): the frame that carries a payload on a connection,    *)
(*                                                                         *)
(*     MID | length of the payload | payload | CRC of the payload          *)
(*                                                                         *)
(* Create makes the bytes that are sent.  Check and Payload look at all of *)
(* _buff, however much of it is in use.  Bytes are natural numbers.  The   *)
(* lengths of the fields are those of MID, lenPLen and lenCRC; the         *)
(* checksum itself is a parameter.                                         *)
(***************************************************************************)
EXTENDS Integers, Sequences

CONSTANTS
  MID,         (* s_mid: the bytes a frame begins with                    *)
  Base,        (* the number of values of a byte of the length field      *)
  MaxPayload,  (* g_lenMaxPayload: the longest payload a frame may carry  *)
  lenCRC,      (* g_lenCRC: the bytes of a checksum                       *)
  Crc(_)       (* the checksum of a payload, as memcpy leaves it          *)

ASSUME FrameAssumption ==
  /\ MID \in Seq(Nat) /\ MID # <<>>
  /\ Base \in Nat \ {0, 1}
  /\ MaxPayload \in Nat
  /\ lenCRC \in Nat \ {0}

lenMID  == Len(MID)   \* g_lenMID
lenPLen == 2          \* g_lenPLen

lenOverhead  == lenMID + lenPLen + lenCRC    \* g_lenOverhead
lenMaxBuffer == MaxPayload + lenOverhead     \* g_lenMaxBuffer

posPLen    == lenMID                         \* g_posPLen
posPayload == posPLen + lenPLen              \* g_posPayload

(* The length field: little-endian, as memcpy of a uint32_t leaves it. *)
EncodeLen(n) == <<n % Base, n \div Base>>
DecodeLen(f) == f[1] + Base * f[2]

(* Create(payload, len): a payload that is too long leaves a packet of
   length 0, which nothing can be sent of. *)
Create(payload) ==
  IF Len(payload) > MaxPayload THEN <<>>
  ELSE MID \o EncodeLen(Len(payload)) \o payload \o Crc(payload)

(* The length a packet says its payload has, PayloadLen(). *)
PayloadLen(packet) ==
  DecodeLen(SubSeq(packet, posPLen + 1, posPLen + lenPLen))

(* Mutant: the checksum is not compared. *)
CheckNoCrc(packet) ==
  /\ SubSeq(packet, 1, lenMID) = MID
  /\ PayloadLen(packet) <= MaxPayload

(* Mutant: that the frame was begun with MID is taken for granted. *)
CheckNoMID(packet) ==
  /\ PayloadLen(packet) <= MaxPayload
  /\ LET end == posPayload + PayloadLen(packet)
     IN  SubSeq(packet, end + 1, end + lenCRC)
           = Crc(SubSeq(packet, posPayload + 1, end))

(* Check() of a _buff: it starts with MID, the length in it is admissible, and
   behind as many bytes comes their checksum.  How many bytes were received is
   not looked at. *)
Check(packet) ==
  /\ SubSeq(packet, 1, lenMID) = MID
  /\ PayloadLen(packet) <= MaxPayload
  /\ LET end == posPayload + PayloadLen(packet)
     IN  SubSeq(packet, end + 1, end + lenCRC)
           = Crc(SubSeq(packet, posPayload + 1, end))

(* Payload(): what a packet carries; nothing if it does not check. *)
Payload(packet) ==
  IF Check(packet)
  THEN SubSeq(packet, posPayload + 1, posPayload + PayloadLen(packet))
  ELSE <<>>
=============================================================================
