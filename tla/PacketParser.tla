----------------------------- MODULE PacketParser -----------------------------
(***************************************************************************)
(* SocketClientPacket::OnRecv and recvPacket (MemStreamServer/inc/         *)
(* SocketClientPacket.h): how a connection's bytes become packets.         *)
(*                                                                         *)
(* The socket loop hands OnRecv whatever has arrived as one stream.        *)
(* recvPacket copies the stream into a window of _maxBuffLen bytes at a    *)
(* time and runs a three-state parser over it, one byte per iteration.  A  *)
(* byte that does not fit, or a frame that does not check, makes the       *)
(* parser go back to the byte after the one the frame began with.          *)
(*                                                                         *)
(* What survives from one OnRecv to the next: the parser's state and the   *)
(* length bytes, members of the client.  What does not: the StreamPacket   *)
(* the frame is assembled in.  It is a local of OnRecv that no constructor *)
(* initialises, so a frame that is continued in a later OnRecv finds its   *)
(* first bytes there only if the stack still holds them (StackOutcomes),   *)
(* and behind its last byte whatever the stack held before (residue).      *)
(*                                                                         *)
(* The other side is a sender whose packets, and noise between them, the   *)
(* network hands over in pieces of any size.                               *)
(***************************************************************************)
EXTENDS StreamPacket, FiniteSets

CONSTANTS
  Payloads,       (* the payloads sent                                     *)
  Noise,          (* byte sequences that reach the socket between packets  *)
  MaxBuffLen,     (* _maxBuffLen: the size of the window                   *)
  StackOutcomes,  (* is the local packet of the last OnRecv still intact?  *)
  Garbage,        (* what an overwritten byte of it holds                  *)
  MaxSends,       (* bound: packets sent                                   *)
  MaxNoise        (* bound: pieces of noise sent                           *)

ASSUME ParserAssumption ==
  /\ Payloads \subseteq Seq(Nat)
  /\ Noise \subseteq Seq(Nat)
  /\ MaxBuffLen \in Nat \ {0}
  /\ StackOutcomes \subseteq BOOLEAN
  /\ Garbage \in Nat
  /\ MaxSends \in Nat /\ MaxNoise \in Nat

VARIABLES
  net,              (* bytes written by the sender and not yet read        *)
  pc,               (* "idle", or "parse" while OnRecv runs                *)
  stream,           (* the stream OnRecv was called with                   *)
  buff,             (* _buff[0 .. _lenBuff-1]: the window                  *)
  posBuff,          (* _posBuff: the next byte of the window               *)
  offsetBuff,       (* _offsetBuff: how much of the stream was windowed    *)
  parsFunc,         (* _parsFunc: the parser's state                       *)
  packetData,       (* packet._buff[0 .. _posPacket-1]: the frame so far   *)
  residue,          (* the bytes of packet._buff behind it                 *)
  posBuffBeginPack, (* _posBuffBeginPack: where in a window it began       *)
  lenghtBuff,       (* _lenghtBuff[0 .. _lenghtBuffPos-1]                  *)
  lenPayload,       (* _lenPayload                                         *)
  delivered,        (* the payloads given to OnRecvPacket, in order        *)
  (* history, for the properties *)
  sent,             (* the packets sent: payload, first and last byte      *)
  wire,             (* all bytes written by the sender                     *)
  noises,           (* how many pieces of noise, or cut short, are in them *)
  call,             (* of the last OnRecv: its first byte, how many        *)
                    (* packets were delivered and whether the parser was   *)
                    (* between frames when it began                        *)
  clobbered         (* a frame in progress has lost its first bytes        *)

parserVars == <<buff, posBuff, parsFunc, packetData, residue,
                posBuffBeginPack, lenghtBuff, lenPayload>>
senderVars == <<sent, wire, noises>>
vars == <<net, pc, stream, offsetBuff, parserVars, delivered, senderVars,
          call, clobbered>>

posPacket == Len(packetData)   \* _posPacket
written == Len(wire)

(* The bytes of a packet, those included that the longest frame the parser
   accepts has beyond g_lenMaxBuffer. *)
BuffSize == posPayload + lenMaxBuffer + lenCRC

Init ==
  /\ net = <<>>
  /\ pc = "idle"
  /\ stream = <<>>
  /\ buff = <<>>
  /\ posBuff = 0
  /\ offsetBuff = 0
  /\ parsFunc = "ScanMID"
  /\ packetData = <<>>
  /\ residue = [i \in 1 .. BuffSize |-> Garbage]
  /\ posBuffBeginPack = 0
  /\ lenghtBuff = <<>>
  /\ lenPayload = 0
  /\ delivered = <<>>
  /\ sent = <<>>
  /\ wire = <<>>
  /\ noises = 0
  /\ call = [first |-> 1, delivered |-> 0, between |-> TRUE]
  /\ clobbered = FALSE

-----------------------------------------------------------------------------
(* The sender. *)

Transmit(bytes) ==
  /\ net' = net \o bytes
  /\ wire' = wire \o bytes
  /\ UNCHANGED <<pc, stream, offsetBuff, parserVars, delivered, call,
                 clobbered>>

(* Send() refuses a packet of length 0, what Create leaves of a payload that is
   too long. *)
SendPacket(p) ==
  /\ Len(sent) < MaxSends
  /\ Create(p) # <<>>
  /\ Transmit(Create(p))
  /\ sent' = Append(sent, [payload |-> p, first |-> written + 1,
                           last |-> written + Len(Create(p))])
  /\ UNCHANGED noises

(* A write that takes only a part of the frame: Send() reports SUCCESS. *)
SendShort(p) ==
  /\ noises < MaxNoise
  /\ \E k \in 1 .. Len(Create(p)) - 1 : Transmit(SubSeq(Create(p), 1, k))
  /\ noises' = noises + 1
  /\ UNCHANGED sent

SendNoise(bytes) ==
  /\ noises < MaxNoise
  /\ Transmit(bytes)
  /\ noises' = noises + 1
  /\ UNCHANGED sent

-----------------------------------------------------------------------------
(* OnRecv is called with the first n bytes that have arrived.  Its local
   packet is where the last call's was, or what is left of it. *)
Recv(n) ==
  /\ pc = "idle"
  /\ pc' = "parse"
  /\ stream' = SubSeq(net, 1, n)
  /\ net' = SubSeq(net, n + 1, Len(net))
  /\ call' = [first     |-> written - Len(net) + 1,
              delivered |-> Len(delivered),
              between   |-> packetData = <<>>]
  /\ \E intact \in StackOutcomes :
       IF intact \/ packetData = <<>>
       THEN UNCHANGED <<packetData, residue, clobbered>>
       ELSE /\ packetData' = [i \in DOMAIN packetData |-> Garbage]
            /\ residue' = [i \in DOMAIN residue |-> Garbage]
            /\ clobbered' = TRUE
  /\ UNCHANGED <<buff, posBuff, offsetBuff, parsFunc, posBuffBeginPack,
                 lenghtBuff, lenPayload, delivered, senderVars>>

(* The window is used up and the stream has more: take the next window. *)
ReadWindow ==
  /\ pc = "parse" /\ buff = <<>>
  /\ offsetBuff < Len(stream)
  /\ LET end == IF offsetBuff + MaxBuffLen < Len(stream)
                THEN offsetBuff + MaxBuffLen ELSE Len(stream)
     IN  /\ buff' = SubSeq(stream, offsetBuff + 1, end)
         /\ offsetBuff' = end
  /\ UNCHANGED <<net, pc, stream, posBuff, parsFunc, packetData, residue,
                 posBuffBeginPack, lenghtBuff, lenPayload, delivered,
                 senderVars, call, clobbered>>

(* Mutant: the next stream is read from where this one ended. *)
OnRecvEndKeepsOffset ==
  /\ pc = "parse" /\ buff = <<>>
  /\ offsetBuff = Len(stream)
  /\ pc' = "idle"
  /\ stream' = <<>>
  /\ UNCHANGED <<net, offsetBuff, parserVars, delivered, senderVars, call,
                 clobbered>>

(* The stream has no more: recvPacket returns SR_EMPTY and OnRecv ends. *)
OnRecvEnd ==
  /\ pc = "parse" /\ buff = <<>>
  /\ offsetBuff = Len(stream)
  /\ pc' = "idle"
  /\ offsetBuff' = 0
  /\ stream' = <<>>
  /\ UNCHANGED <<net, parserVars, delivered, senderVars, call, clobbered>>

-----------------------------------------------------------------------------
(* One iteration of the parsing loop. *)

by == buff[posBuff + 1]               \* the byte looked at
assembled == Append(packetData, by)   \* the frame with it
behind == SubSeq(residue, 2, Len(residue))
packet == assembled \o behind         \* all of packet._buff

HasByte == pc = "parse" /\ posBuff < Len(buff)

(* Mutant: the window is not given up at its end. *)
StepToPastEnd(p) == posBuff' = p /\ UNCHANGED buff

(* The loop goes on at position p; a window that ends there is given up. *)
StepTo(p) ==
  IF p = Len(buff) THEN posBuff' = 0 /\ buff' = <<>>
  ELSE posBuff' = p /\ UNCHANGED buff

(* The next byte begins a frame; packet._buff stays as it is. *)
Restart ==
  /\ packetData' = <<>>
  /\ residue' = packet
  /\ parsFunc' = "ScanMID"

(* CONTINUE and NEXT: the byte belongs to the frame. *)
Accept(state) ==
  /\ packetData' = assembled
  /\ residue' = behind
  /\ parsFunc' = state
  /\ StepTo(posBuff + 1)

(* Mutant: go on behind the byte that did not fit. *)
StartOverHere ==
  /\ Restart
  /\ StepTo(posBuff + 1)

(* ERROR and a frame that does not check: start over one byte after the one
   the frame began with. *)
StartOver ==
  /\ Restart
  /\ StepTo(posBuffBeginPack' + 1)

Elsewhere == UNCHANGED <<net, pc, stream, offsetBuff, senderVars, call,
                         clobbered>>

(* Mutant: the byte before the frame is remembered as its beginning. *)
ScanMIDBeginsEarly ==
  /\ HasByte /\ parsFunc = "ScanMID"
  /\ posBuffBeginPack' = IF posPacket = 0 THEN posBuff - 1 ELSE posBuffBeginPack
  /\ IF by = MID[posPacket + 1]
     THEN Accept(IF posPacket + 1 = lenMID THEN "DataLength" ELSE "ScanMID")
     ELSE StartOver
  /\ UNCHANGED <<lenghtBuff, lenPayload, delivered>>
  /\ Elsewhere

(* recvScanMID *)
ScanMID ==
  /\ HasByte /\ parsFunc = "ScanMID"
  /\ posBuffBeginPack' = IF posPacket = 0 THEN posBuff ELSE posBuffBeginPack
  /\ IF by = MID[posPacket + 1]
     THEN Accept(IF posPacket + 1 = lenMID THEN "DataLength" ELSE "ScanMID")
     ELSE StartOver
  /\ UNCHANGED <<lenghtBuff, lenPayload, delivered>>
  /\ Elsewhere

(* recvParseDataLength, before the last byte of the field *)
LengthByte ==
  /\ HasByte /\ parsFunc = "DataLength"
  /\ posPacket < posPayload - 1
  /\ lenghtBuff' = Append(lenghtBuff, by)
  /\ Accept("DataLength")
  /\ UNCHANGED <<posBuffBeginPack, lenPayload, delivered>>
  /\ Elsewhere

(* Mutant: the length field is not reset when it is complete. *)
LengthDoneKeepsField ==
  /\ HasByte /\ parsFunc = "DataLength"
  /\ posPacket = posPayload - 1
  /\ lenPayload' = DecodeLen(Append(lenghtBuff, by))
  /\ lenghtBuff' = Append(lenghtBuff, by)
  /\ UNCHANGED <<posBuffBeginPack, delivered>>
  /\ IF lenPayload' > lenMaxBuffer THEN StartOver ELSE Accept("Payload")
  /\ Elsewhere

(* recvParseDataLength, at the last byte of the field *)
LengthDone ==
  /\ HasByte /\ parsFunc = "DataLength"
  /\ posPacket = posPayload - 1
  /\ lenPayload' = DecodeLen(Append(lenghtBuff, by))
  /\ lenghtBuff' = <<>>
  /\ UNCHANGED <<posBuffBeginPack, delivered>>
  /\ IF lenPayload' > lenMaxBuffer THEN StartOver ELSE Accept("Payload")
  /\ Elsewhere

(* recvPayload, before the last byte of the frame *)
PayloadByte ==
  /\ HasByte /\ parsFunc = "Payload"
  /\ posPacket < posPayload + lenPayload + lenCRC - 1
  /\ Accept("Payload")
  /\ UNCHANGED <<posBuffBeginPack, lenghtBuff, lenPayload, delivered>>
  /\ Elsewhere

FrameComplete ==
  /\ HasByte /\ parsFunc = "Payload"
  /\ posPacket = posPayload + lenPayload + lenCRC - 1

(* recvPayload, at the last byte of a frame: if the packet checks recvPacket
   returns, OnRecv passes it on and calls recvPacket again. *)
PacketDone ==
  /\ FrameComplete /\ Check(packet)
  /\ delivered' = Append(delivered, Payload(packet))
  /\ Restart
  /\ StepTo(posBuff + 1)
  /\ UNCHANGED <<posBuffBeginPack, lenghtBuff, lenPayload>>
  /\ Elsewhere

PacketCorrupt ==
  /\ FrameComplete /\ ~Check(packet)
  /\ UNCHANGED <<posBuffBeginPack, lenghtBuff, lenPayload, delivered>>
  /\ StartOver
  /\ Elsewhere

ParseByte ==
  \/ ScanMID \/ LengthByte \/ LengthDone \/ PayloadByte
  \/ PacketDone \/ PacketCorrupt

(* Behind the end of the window neither the parsing loop nor the window is
   left: recvPacket's outer loop runs on for ever, without effect. *)
Hangs == pc = "parse" /\ posBuff > Len(buff)
Spin == Hangs /\ UNCHANGED vars

OnRecvStep == ReadWindow \/ ParseByte \/ OnRecvEnd \/ Spin

Next ==
  \/ \E p \in Payloads : SendPacket(p) \/ SendShort(p)
  \/ \E bytes \in Noise : SendNoise(bytes)
  \/ \E n \in 1 .. Len(net) : Recv(n)
  \/ OnRecvStep

Spec == Init /\ [][Next]_vars

-----------------------------------------------------------------------------
TypeOK ==
  /\ net \in Seq(Nat)
  /\ pc \in {"idle", "parse"}
  /\ stream \in Seq(Nat)
  /\ buff \in Seq(Nat)
  /\ posBuff \in Nat /\ offsetBuff \in Nat
  /\ parsFunc \in {"ScanMID", "DataLength", "Payload"}
  /\ packetData \in Seq(Nat) /\ residue \in Seq(Nat)
  /\ posBuffBeginPack \in Nat
  /\ lenghtBuff \in Seq(Nat)
  /\ lenPayload \in Nat
  /\ delivered \in Seq(Seq(Nat))
  /\ sent \in Seq([payload : Seq(Nat), first : Nat, last : Nat])
  /\ wire \in Seq(Nat) /\ noises \in Nat
  /\ call \in [first : Nat, delivered : Nat, between : BOOLEAN]
  /\ clobbered \in BOOLEAN

(* The parser's state, the length field it has buffered and the place it has
   reached in the frame agree, across windows and calls: a frame resumed in
   the next window or the next OnRecv goes on in the field it stopped in. *)
ParserConsistent ==
  /\ parsFunc = "ScanMID"    => posPacket < lenMID /\ lenghtBuff = <<>>
  /\ parsFunc = "DataLength" => /\ posPacket - posPLen \in 0 .. lenPLen - 1
                                /\ Len(lenghtBuff) = posPacket - posPLen
  /\ parsFunc = "Payload"    => /\ lenPayload <= lenMaxBuffer
                                /\ posPacket >= posPayload
                                /\ posPacket < posPayload + lenPayload + lenCRC
                                /\ lenghtBuff = <<>>

(* How many bytes have been read, put into a window, and looked at. *)
Taken == written - Len(net)
Windowed == Taken - Len(stream) + offsetBuff
Seen == Windowed - Len(buff) + posBuff

(* The place on the connection where the frame in progress began, or the next
   one will. *)
FrameStart == Seen - posPacket + 1

(* The bytes of the connection from a place to another, if it has them. *)
OnWire(first, last) ==
  IF first >= 1 /\ last <= written THEN SubSeq(wire, first, last) ELSE <<>>

PayloadsOf(s) == [i \in 1 .. Len(s) |-> s[i].payload]

(* The parser's place in the connection, whatever arrives: the frame in progress
   never moves back, a byte that is looked at either lengthens it or moves it
   on, and behind a packet that was delivered the next one begins.  So the
   return to the byte behind a false beginning neither delivers a byte in two
   packets nor goes round in a circle, also when that beginning was in an
   earlier window. *)
FrameAdvances ==
  [][ /\ FrameStart' >= FrameStart
      /\ ParseByte => FrameStart' > FrameStart \/ posPacket' > posPacket
      /\ delivered' # delivered => FrameStart' > FrameStart + posPacket ]_vars

(* The checksum tells the packets from what else is on the connection: what of
   it checks, length and all, is a packet that was sent. *)
OnlyPacketsCheck ==
  \A a \in 1 .. written - lenOverhead + 1 :
    LET b == a + lenOverhead - 1 + PayloadLen(OnWire(a, written))
    IN  b <= written /\ Check(OnWire(a, b))
        => \E i \in DOMAIN sent : sent[i].first = a /\ sent[i].last = b

(* The checksum tells a frame whose first bytes were overwritten, or were those
   of somebody else: a frame that checks is what the connection carries. *)
OverwrittenFails ==
  FrameComplete /\ Check(packet)
    => assembled = OnWire(FrameStart, FrameStart + posPacket)

(* The checksum tells the packets from all else that can come before Check: what
   noise and packets make up between them, what a short write left of a frame,
   and what the stack put in its place. *)
ChecksumTells == OnlyPacketsCheck /\ OverwrittenFails

(* Whatever noise, fragmentation and stack contents: a packet given to the
   application was sent, whole, and none comes twice or before an earlier
   one. *)
DeliveredWereSent ==
  \E f \in [1 .. Len(delivered) -> 1 .. Len(sent)] :
    \A i \in DOMAIN f :
      /\ delivered[i] = sent[f[i]].payload
      /\ sent[f[i]].last <= Taken
      /\ i > 1 => f[i - 1] < f[i]

(* Without noise, and as long as no frame in progress is overwritten on the
   stack: between two calls of OnRecv exactly the packets whose last byte has
   been read are delivered, however the bytes were cut into calls and windows. *)
DeliversReceived ==
  (pc = "idle" /\ noises = 0 /\ ~clobbered) =>
    /\ Len(delivered) <= Len(sent)
    /\ \A i \in DOMAIN sent :
         /\ i \in DOMAIN delivered <=> sent[i].last <= Taken
         /\ i \in DOMAIN delivered => delivered[i] = sent[i].payload

(* The packet m came whole in the last OnRecv, in front of the frame that is
   still in progress. *)
InThisCall(m) ==
  /\ m.first >= call.first /\ m.last <= Taken
  /\ packetData # <<>> => m.last < call.first + posBuffBeginPack

(* OnRecv of a stream of one window, begun between frames, delivers every
   packet that is whole in it whatever surrounds them; only what follows the
   beginning of a frame that is not complete yet has to wait. *)
DeliversAmongNoise ==
  LET new == Len(delivered) - call.delivered
  IN  (pc = "parse" /\ buff = <<>> /\ offsetBuff = Len(stream)
         /\ call.between /\ Len(stream) <= MaxBuffLen)
      => \E before \in 0 .. Len(sent) :
           /\ \A i \in DOMAIN sent :
                InThisCall(sent[i]) <=> i - before \in 1 .. new
           /\ \A j \in 1 .. new :
                /\ before + j \in DOMAIN sent
                /\ delivered[call.delivered + j] = sent[before + j].payload

(* What the tests of fragmented packets say (MemStreamServer/gtest/tcp.cpp):
   a packet that arrives in two parts is received. *)
FragmentsDelivered ==
  (pc = "idle" /\ net = <<>> /\ noises = 0) => delivered = PayloadsOf(sent)

(* What the tests of dirt say: the packets in it are received.  All that was
   received is known when OnRecv has come to its end with everything read, or
   when it never will. *)
DirtSkipped ==
  (Hangs \/ (pc = "idle" /\ net = <<>>)) /\ ~clobbered
    => delivered = PayloadsOf(sent)

(* OnRecv ends. *)
OnRecvReturns == pc = "parse" ~> pc = "idle"
=============================================================================
