---------------------------- MODULE MCSocketClient ----------------------------
(* SocketClient with the bytes of MCPacketParser; a read may take more than a
   window, as those of the servers do. *)
EXTENDS SocketClient, SequencesExt

MCMID == <<100, 101>>

(* A checksum of two bytes: no two payloads share the first, all the second. *)
MCCrc(p) == <<FoldLeft(LAMBDA acc, b : 1000 * acc + b + 1, 500, p), 7>>

(* Nothing, a byte, and the byte a frame begins with. *)
MCPayloads == {<<>>, <<10>>, <<100>>}
=============================================================================
