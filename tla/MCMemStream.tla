----------------------------- MODULE MCMemStream -----------------------------
(* MemStream on chunks of two bytes and streams of up to five. *)
EXTENDS MemStream

MCBytes       == {0, 1}
MCWriteArgs   == SeqOf(MCBytes, 2) \cup {<<1, 0, 0>>, <<0, 1, 1, 0, 1>>}

(* Reads of nothing, inside a chunk and over borders, from the beginning and
   the middle of a chunk, from the end of the stream and from behind it. *)
MCReadLens    == {0, 1, 3, 5}
MCReadOffsets == {0, 1, 4, 6}
=============================================================================
