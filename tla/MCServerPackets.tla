---------------------------- MODULE MCServerPackets ----------------------------
(* ServerPackets with two entries, and the bytes of MCPacketParser. *)
EXTENDS ServerPackets, TLC

MCMID == <<100, 101>>

(* A checksum of two bytes.  No two payloads share both, but the last byte of a
   frame is also that of every frame as long, and that of the empty frame is
   the byte at its place in the frame of <<10>>. *)
MCCrc(p) == <<IF p = <<>> THEN 0 ELSE p[1] - 3, 7 - Len(p)>>

Entries == Permutations(Keys)

MCPayloads == {<<>>, <<10>>, <<11>>}

(* Frames of one length. *)
MCSameLength == {<<10>>, <<11>>}

(* How the connection cuts a packet: not at all, or in front of its last byte. *)
LastByteApart == pc = "idle" => posPacket \in {0, lenMaxBuffer - 1}
=============================================================================
