------------------------------ MODULE MemStream ------------------------------
(***************************************************************************)
(* MemStream<U> (MemStream/inc/MemStream.h): a byte stream kept in a deque *)
(* of chunks of g_defBufferSize bytes.  A chunk is the sequence of bytes   *)
(* written to it (Buffer::_ptr[0 .. _idx-1]); _listSize, which the code    *)
(* keeps beside the deque, is Len(listBuffer).                             *)
(*                                                                         *)
(* Write and Read are loops over chunks; one iteration is one action, so   *)
(* that what the loop keeps true is stated and not only its outcome.  The  *)
(* class has no lock and no caller shares an instance between threads:     *)
(* calls do not overlap.                                                   *)
(***************************************************************************)
EXTENDS Integers, SequencesExt

CONSTANTS
  B,            (* g_defBufferSize: the capacity of a chunk       *)
  Bytes,        (* the values of a byte                           *)
  WriteArgs,    (* the byte sequences a caller may write          *)
  ReadLens,     (* the lengths a caller may ask for               *)
  ReadOffsets,  (* the offsets a caller may read from             *)
  MaxLen        (* bound: no write takes the stream past it       *)

ASSUME ChunkAssumption == B \in Nat \ {0}
ASSUME ArgsAssumption ==
  /\ WriteArgs \subseteq Seq(Bytes)
  /\ ReadLens \subseteq Nat
  /\ ReadOffsets \subseteq Nat
  /\ MaxLen \in Nat

VARIABLES
  listBuffer,  (* _listBuffer: the chunks, oldest first                    *)
  op,          (* the call in progress: "idle", "write" or "read"          *)
  pbuff,       (* Write: the bytes of the argument not yet copied          *)
  req,         (* Read: the arguments of the call, [offset, length]        *)
  idx, pos,    (* Read: the chunk to copy from next and the place in it    *)
  out,         (* Read: the bytes copied to the caller's buffer so far     *)
  ret          (* the last finished Read: its arguments and its bytes      *)

vars == <<listBuffer, op, pbuff, req, idx, pos, out, ret>>
readVars == <<req, idx, pos, out, ret>>

Least(a, b) == IF a <= b THEN a ELSE b

-----------------------------------------------------------------------------
(* Cnt(), Len() and the address of a byte, as Read computes it. *)

Cnt(list) == Len(list)

(* Mutant: the bytes of the last chunk are not counted. *)
StreamLenOfFullChunks(list) == IF list = <<>> THEN 0 ELSE (Cnt(list) - 1) * B

StreamLen(list) ==
  IF list = <<>> THEN 0
  ELSE (Cnt(list) - 1) * B + Len(list[Cnt(list)])

ChunkOf(offset) == offset \div B
PosOf(offset)   == offset % B

(* The bytes of the stream in order. *)
Flat(list) ==
  [i \in 1 .. StreamLen(list) |-> list[ChunkOf(i - 1) + 1][PosOf(i - 1) + 1]]

(* Mutant: the last chunk is not compared. *)
EqualButLastChunk(left, right) ==
  /\ StreamLen(left) = StreamLen(right)
  /\ \A k \in 1 .. Cnt(left) - 1 : left[k] = right[k]

(* operator == : same length, then chunk by chunk over the longer list. *)
Equal(left, right) ==
  /\ StreamLen(left) = StreamLen(right)
  /\ \A k \in (1 .. Cnt(left)) \cup (1 .. Cnt(right)) : left[k] = right[k]

-----------------------------------------------------------------------------
AddNewBuffer(list) == Append(list, <<>>)

Init ==
  /\ listBuffer = AddNewBuffer(<<>>)
  /\ op = "idle"
  /\ pbuff = <<>>
  /\ req = [offset |-> 0, length |-> 0]
  /\ idx = 0
  /\ pos = 0
  /\ out = <<>>
  /\ ret = [offset |-> 0, length |-> 0, bytes |-> <<>>]

(* Write(buf, length) is called; a closed stream has no last chunk to write
   to and must be reset first. *)
Write(data) ==
  /\ op = "idle"
  /\ listBuffer # <<>>
  /\ StreamLen(listBuffer) + Len(data) <= MaxLen
  /\ op' = IF data = <<>> THEN "idle" ELSE "write"
  /\ pbuff' = data
  /\ UNCHANGED <<listBuffer, readVars>>

(* Buffer::Appand without resize: what fits of data after chunk. *)
Amount(chunk, data) == Least(Len(data), B - Len(chunk))
Appand(chunk, data) == chunk \o SubSeq(data, 1, Amount(chunk, data))

(* Mutant: a chunk that is exactly full is taken to have room. *)
WriteChunkOverfull ==
  LET n == Cnt(listBuffer)
      chunk == Appand(listBuffer[n], pbuff)
      rest  == SubSeq(pbuff, Amount(listBuffer[n], pbuff) + 1, Len(pbuff))
      list  == [listBuffer EXCEPT ![n] = chunk]
  IN  /\ op = "write"
      /\ listBuffer' = IF B < Len(chunk) THEN AddNewBuffer(list) ELSE list
      /\ pbuff' = rest
      /\ op' = IF rest = <<>> THEN "idle" ELSE "write"
      /\ UNCHANGED readVars

(* One iteration of Write's loop: fill the last chunk, open a new one when it
   is full. *)
WriteChunk ==
  LET n     == Cnt(listBuffer)
      chunk == Appand(listBuffer[n], pbuff)
      rest  == SubSeq(pbuff, Amount(listBuffer[n], pbuff) + 1, Len(pbuff))
      list  == [listBuffer EXCEPT ![n] = chunk]
  IN  /\ op = "write"
      /\ listBuffer' = IF B <= Len(chunk) THEN AddNewBuffer(list) ELSE list
      /\ pbuff' = rest
      /\ op' = IF rest = <<>> THEN "idle" ELSE "write"
      /\ UNCHANGED readVars

(* Mutant: the offset is taken to count from one. *)
ReadFromOne(length, offset) ==
  /\ op = "idle"
  /\ op' = "read"
  /\ req' = [offset |-> offset, length |-> length]
  /\ idx' = ChunkOf(offset - 1)
  /\ pos' = PosOf(offset - 1)
  /\ out' = <<>>
  /\ UNCHANGED <<listBuffer, pbuff, ret>>

(* Mutant: the read starts at the beginning of the chunk. *)
ReadFromChunkStart(length, offset) ==
  /\ op = "idle"
  /\ op' = "read"
  /\ req' = [offset |-> offset, length |-> length]
  /\ idx' = ChunkOf(offset)
  /\ pos' = 0
  /\ out' = <<>>
  /\ UNCHANGED <<listBuffer, pbuff, ret>>

(* Read(buf, length, offset) is called. *)
Read(length, offset) ==
  /\ op = "idle"
  /\ op' = "read"
  /\ req' = [offset |-> offset, length |-> length]
  /\ idx' = ChunkOf(offset)
  /\ pos' = PosOf(offset)
  /\ out' = <<>>
  /\ UNCHANGED <<listBuffer, pbuff, ret>>

(* How many bytes Read takes from a chunk of size sze. *)
ReadAmount(sze, from, length) ==
  IF from + length > sze THEN (IF from > sze THEN 0 ELSE sze - from)
  ELSE length

Remaining == req.length - Len(out)

(* Mutant: the place in the chunk is kept for the next chunk. *)
ReadChunkKeepsPlace ==
  LET chunk == listBuffer[idx + 1]
      len   == ReadAmount(Len(chunk), pos, Remaining)
  IN  /\ op = "read"
      /\ Remaining > 0
      /\ idx < Cnt(listBuffer)
      /\ out' = out \o SubSeq(chunk, pos + 1, pos + len)
      /\ idx' = idx + 1
      /\ UNCHANGED <<listBuffer, op, pbuff, pos, req, ret>>

(* One iteration of Read's loop. *)
ReadChunk ==
  LET chunk == listBuffer[idx + 1]
      len   == ReadAmount(Len(chunk), pos, Remaining)
  IN  /\ op = "read"
      /\ Remaining > 0
      /\ idx < Cnt(listBuffer)
      /\ out' = out \o SubSeq(chunk, pos + 1, pos + len)
      /\ pos' = 0
      /\ idx' = idx + 1
      /\ UNCHANGED <<listBuffer, op, pbuff, req, ret>>

(* The loop's condition fails: Read returns, its locals are gone. *)
ReadReturn ==
  /\ op = "read"
  /\ Remaining = 0 \/ idx >= Cnt(listBuffer)
  /\ op' = "idle"
  /\ ret' = [offset |-> req.offset, length |-> req.length, bytes |-> out]
  /\ req' = [offset |-> 0, length |-> 0]
  /\ idx' = 0
  /\ pos' = 0
  /\ out' = <<>>
  /\ UNCHANGED <<listBuffer, pbuff>>

(* close() drops every chunk; reset() is close() and AddNewBuffer(). *)
Close ==
  /\ op = "idle"
  /\ listBuffer' = <<>>
  /\ UNCHANGED <<op, pbuff, readVars>>

Reset ==
  /\ op = "idle"
  /\ listBuffer' = AddNewBuffer(<<>>)
  /\ UNCHANGED <<op, pbuff, readVars>>

Next ==
  \/ \E data \in WriteArgs : Write(data)
  \/ WriteChunk
  \/ \E length \in ReadLens, offset \in ReadOffsets : Read(length, offset)
  \/ ReadChunk
  \/ ReadReturn
  \/ Close
  \/ Reset

Spec == Init /\ [][Next]_vars

-----------------------------------------------------------------------------
TypeOK ==
  /\ listBuffer \in Seq(Seq(Bytes))
  /\ op \in {"idle", "write", "read"}
  /\ pbuff \in Seq(Bytes)
  /\ req \in [offset : Nat, length : Nat]
  /\ idx \in Nat
  /\ pos \in Nat
  /\ out \in Seq(Bytes)
  /\ ret \in [offset : Nat, length : Nat, bytes : Seq(Bytes)]

(* Every chunk but the last is full and the last has room.  Len(), Read's
   division of an offset into chunk and place, and the index of the chunk a
   Write continues at all rely on it, and none of them tests it. *)
ChunkShape ==
  \A k \in 1 .. Cnt(listBuffer) :
    IF k < Cnt(listBuffer) THEN Len(listBuffer[k]) = B
    ELSE Len(listBuffer[k]) < B

(* While a Read runs, what it has copied is the start of the range it was
   asked for, and the chunk and place it goes on from are where the next byte
   of that range is kept; when it runs out of chunks it has all there is of the
   range. *)
ReadCopiesRange ==
  op = "read" =>
    /\ \A j \in 1 .. Len(out) :
         /\ req.offset + j <= StreamLen(listBuffer)
         /\ out[j] = Flat(listBuffer)[req.offset + j]
    /\ Remaining > 0 =>
         IF idx < Cnt(listBuffer)
         THEN idx * B + pos = req.offset + Len(out)
         ELSE req.offset + Len(out) >= StreamLen(listBuffer)

(* The positional reading of the chunk list, on which Len() and Read rely, is
   the concatenation of the chunks. *)
FlatIsConcatenation == Flat(listBuffer) = FlattenSeq(listBuffer)

(* Two streams that hold the same bytes are == however their writes were split
   into calls: the chunk lists of equal contents are equal. *)
EqualityIsContent ==
  \A data \in WriteArgs :
    LET chunks == [k \in 1 .. ChunkOf(Len(data)) + 1 |->
                     SubSeq(data, (k - 1) * B + 1, Least(k * B, Len(data)))]
    IN  listBuffer # <<>> =>
          (Equal(listBuffer, chunks) <=> Flat(listBuffer) = data)

-----------------------------------------------------------------------------
(* The abstract stream: a Write takes effect when it is called, a Read when it
   returns; the bytes in transit count as written. *)
Abstract == INSTANCE FlatStream WITH content <- Flat(listBuffer) \o pbuff

(* The chunked stream behaves as the flat one: no Write loses, duplicates or
   reorders a byte, no Read returns anything but the range it was asked for. *)
ImplementsFlatStream == Abstract!Spec
=============================================================================
