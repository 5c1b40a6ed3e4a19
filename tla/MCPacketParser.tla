---------------------------- MODULE MCPacketParser ----------------------------
(* PacketParser with a two-byte MID, payloads of up to two bytes and windows
   of a few bytes. *)
EXTENDS PacketParser, SequencesExt

M == 100   \* the bytes of the MID
Y == 101
A == 10    \* a byte of a payload
X == 11    \* a byte of noise

MCMID == <<M, Y>>

(* A checksum of two bytes: no two payloads share the first, all the second. *)
MCCrc(p) == <<FoldLeft(LAMBDA acc, b : 1000 * acc + b + 1, 500, p), 7>>

MCPayloads == {<<>>, <<A>>}

(* Noise: strays, the first byte of a MID, a frame whose payload was changed
   on the way, lengths no frame has. *)
MCNoise == {<<X>>, <<M>>, <<M, Y, 1, 0, X>> \o MCCrc(<<A>>),
            <<M, Y, 6, 0>>, <<M, Y, 9, 9>>}

(* The byte a MID begins with, on its own. *)
MCStray == {<<M>>}
=============================================================================
