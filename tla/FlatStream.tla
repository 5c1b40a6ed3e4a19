------------------------------ MODULE FlatStream ------------------------------
(***************************************************************************)
(* What MemStream promises its users (ORC's OutputStream / InputStream     *)
(* adapters, the packet parser, the remote store): one flat sequence of    *)
(* bytes that only grows at its end, that a Read copies a range out of and *)
(* that reset or close empties.  Nothing of the chunking is visible.       *)
(***************************************************************************)
EXTENDS Integers, Sequences

CONSTANTS
  WriteArgs,    (* the byte sequences a caller may write     *)
  ReadLens,     (* the lengths a caller may ask for          *)
  ReadOffsets,  (* the offsets a caller may read from        *)
  MaxLen        (* bound: no write takes the stream past it  *)

VARIABLES
  content,  (* the bytes of the stream *)
  ret       (* the last Read: what range it was asked for and its bytes *)

vars == <<content, ret>>

(* The bytes of s in the range [offset, offset + length), as far as s goes. *)
Slice(s, offset, length) ==
  [i \in 1 .. (IF offset >= Len(s) THEN 0
               ELSE IF offset + length > Len(s) THEN Len(s) - offset
               ELSE length) |-> s[offset + i]]

Init ==
  /\ content = <<>>
  /\ ret = [offset |-> 0, length |-> 0, bytes |-> <<>>]

Write(data) ==
  /\ Len(content) + Len(data) <= MaxLen
  /\ content' = content \o data
  /\ UNCHANGED ret

Read(length, offset) ==
  /\ ret' = [offset |-> offset, length |-> length,
              bytes |-> Slice(content, offset, length)]
  /\ UNCHANGED content

Clear ==
  /\ content' = <<>>
  /\ UNCHANGED ret

Next ==
  \/ \E data \in WriteArgs : Write(data)
  \/ \E length \in ReadLens, offset \in ReadOffsets : Read(length, offset)
  \/ Clear

Spec == Init /\ [][Next]_vars
=============================================================================
