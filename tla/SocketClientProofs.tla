-------------------------- MODULE SocketClientProofs --------------------------
(***************************************************************************)
(* SocketClient's loop, for every connection, parser and number of tries.  *)
(* LoopStart decides on its result when it returns, from what the last     *)
(* read left in a local variable; what makes that right is that an error   *)
(* leaves the loop at once, and that nothing but LoopStop makes it leave   *)
(* otherwise.                                                              *)
(*                                                                         *)
(* Each step of the client is one of the connection's parser, or none, so  *)
(* that what holds of the parser holds here.  No other OnRecv writes over  *)
(* a frame in progress (OneClient), and the other side sends nothing but   *)
(* packets: the client's packets are those of a reliable channel.          *)
(***************************************************************************)
EXTENDS SocketClient, PacketParserProofs, SequenceTheorems, TLAPS

(* The program has no other client whose OnRecv uses the same stack. *)
OneClient == StackOutcomes = {TRUE}

(* Before it is left the loop has met no error; when it is left, it was told
   to, or knows why. *)
LeftForReason ==
  /\ phase \notin {"end", "ended"} => result \in {"SR_ERROR", "SR_ERROR_AGAIN"}
  /\ phase = "end" =>
       \/ exit /\ result \in {"SR_ERROR", "SR_ERROR_AGAIN"}
       \/ closed = "fin" /\ result = "SR_ERROR_CONNECT"
       \/ closed = "reset" /\ result = "SR_ERROR_READ"

ReasonInv == LeftForReason /\ ResultSaysWhy

LEMMA LoopKeeps == ASSUME ReasonInv, LoopStep PROVE ReasonInv'
<1>. USE DEF ReasonInv, LeftForReason, ResultSaysWhy
<1>1. CASE LoopStart
  BY <1>1 DEF LoopStart
<1>2. CASE LoopTest
  BY <1>2 DEF LoopTest
<1>3. CASE ReadData
  BY <1>3 DEF ReadData
<1>4. CASE RunOnRecv
  <2>1. /\ phase = "recv" /\ phase' \in {"recv", "test"}
        /\ result' \in {result, "SR_ERROR_AGAIN"}
    BY <1>4 DEF RunOnRecv
  <2>. QED
    BY <2>1
<1>5. CASE ReadTimeout
  BY <1>5 DEF ReadTimeout
<1>6. CASE ReadZero
  BY <1>6 DEF ReadZero
<1>7. CASE ReadFails
  BY <1>7 DEF ReadFails
<1>8. CASE LoopEnd
  BY <1>8 DEF LoopEnd
<1>. QED
  BY <1>1, <1>2, <1>3, <1>4, <1>5, <1>6, <1>7, <1>8 DEF LoopStep

(* Connecting, LoopStop, and the other side, which ends the connection once. *)
LEMMA OthersKeep ==
  ASSUME ReasonInv,
         \/ ServerSend \/ ServerEnd("fin") \/ ServerEnd("reset")
         \/ \E success \in BOOLEAN : Connect(success)
         \/ LoopStop
  PROVE  ReasonInv'
<1>. USE DEF ReasonInv, LeftForReason, ResultSaysWhy
<1>1. CASE ServerSend
  BY <1>1 DEF ServerSend, clientVars
<1>2. ASSUME NEW how \in {"fin", "reset"}, ServerEnd(how) PROVE ReasonInv'
  BY <1>2 DEF ServerEnd
<1>3. ASSUME NEW success \in BOOLEAN, Connect(success) PROVE ReasonInv'
  <2>1. /\ phase = "connect" /\ phase' \notin {"end", "ended"}
        /\ UNCHANGED <<exit, result, closed>>
    BY <1>3 DEF Connect
  <2>. QED
    BY <2>1
<1>4. CASE LoopStop
  BY <1>4 DEF LoopStop
<1>. QED
  BY <1>1, <1>2, <1>3, <1>4

(* LoopStart's result says why it returned: success only after LoopStop, an
   error only of a connection the other side has ended in that way. *)
THEOREM ReasonKnown == ClientSpec => []ResultSaysWhy
<1>1. ClientInit => ReasonInv
  BY DEF ClientInit, ReasonInv, LeftForReason, ResultSaysWhy
<1>2. ReasonInv /\ [ClientNext]_socketVars => ReasonInv'
  <2>. SUFFICES ASSUME ReasonInv, [ClientNext]_socketVars PROVE ReasonInv'
    OBVIOUS
  <2>1. CASE ClientNext
    BY <2>1, LoopKeeps, OthersKeep DEF ClientNext
  <2>2. CASE UNCHANGED socketVars
    BY <2>2 DEF socketVars, clientVars, ReasonInv, LeftForReason, ResultSaysWhy
  <2>. QED
    BY <2>1, <2>2
<1>3. ReasonInv => ResultSaysWhy
  BY DEF ReasonInv
<1>. QED
  BY <1>1, <1>2, <1>3, PTL DEF ClientSpec

-----------------------------------------------------------------------------
(* The parser of a client. *)

LEMMA ClientParses == ClientNext => [Next]_vars
<1>. SUFFICES ASSUME ClientNext PROVE [Next]_vars
  OBVIOUS
<1>1. CASE ServerSend
  BY <1>1 DEF ServerSend, Next
<1>2. CASE ServerEnd("fin") \/ ServerEnd("reset") \/ LoopStop
  BY <1>2 DEF ServerEnd, LoopStop
<1>3. CASE \E success \in BOOLEAN : Connect(success)
  BY <1>3 DEF Connect
<1>4. CASE ReadData
  BY <1>4 DEF ReadData, Next
<1>5. CASE RunOnRecv
  BY <1>5 DEF RunOnRecv, Next
<1>6. CASE LoopStart \/ LoopTest \/ ReadTimeout \/ ReadZero \/ ReadFails \/ LoopEnd
  BY <1>6 DEF LoopStart, LoopTest, ReadTimeout, ReadZero, ReadFails, LoopEnd
<1>. QED
  BY <1>1, <1>2, <1>3, <1>4, <1>5, <1>6 DEF ClientNext, LoopStep

(* A client's packets are those whose last byte has been read, as long as the
   frame in progress is intact: however its reads and windows cut them. *)
THEOREM ClientReceives == CrcIsBytes => (ClientSpec => []DeliversReceived)
<1>. SUFFICES ASSUME CrcIsBytes PROVE ClientSpec => []DeliversReceived
  OBVIOUS
<1>1. ClientInit => DInv
  BY SyncAtFirst DEF ClientInit
<1>2. DInv /\ [ClientNext]_socketVars => DInv'
  <2>. SUFFICES ASSUME DInv, [ClientNext]_socketVars PROVE DInv'
    OBVIOUS
  <2>1. [Next]_vars
    BY ClientParses DEF socketVars
  <2>. QED
    BY <2>1, SyncStep
<1>3. DInv => DeliversReceived
  BY ReceivedInSync DEF DInv, DeliversReceived
<1>. QED
  BY <1>1, <1>2, <1>3, PTL DEF ClientSpec

-----------------------------------------------------------------------------
(* What holds of a client whose frames nobody overwrites. *)

LoopState ==
  /\ phase \in {"connect", "connected", "failed", "test", "read", "recv",
                "end", "ended"}
  /\ tries \in 0 .. MaxTries /\ (phase = "connect" => tries < MaxTries)
  /\ exit \in BOOLEAN
  /\ result \in {"SR_ERROR", "SR_ERROR_AGAIN", "SR_ERROR_CONNECT",
                 "SR_ERROR_READ", "SR_SUCCESS"}
  /\ closed \in {"no", "fin", "reset"}
  /\ pc \in {"idle", "parse"} /\ (phase = "recv" <=> pc = "parse")
  /\ phase = "end" /\ result = "SR_ERROR_CONNECT" => net = <<>> /\ closed = "fin"

CleanInv ==
  /\ DInv /\ noises = 0 /\ clobbered = FALSE
  /\ call \in [first : Nat, delivered : Nat, between : BOOLEAN]
  /\ LoopState /\ ReasonInv

LEMMA CleanTypes == ASSUME CleanInv PROVE ClientTypeOK
<1>1. IInv /\ Windows /\ InSync
  BY DEF CleanInv, DInv
<1>2. delivered \in Seq(Seq(Nat))
  BY <1>1 DEF InSync, InFrame
<1>3. sent \in Seq([payload : Seq(Nat), first : Nat, last : Nat])
  BY <1>1 DEF InSync, Numbered
<1>4. written \in Nat
  BY <1>1, Counts
<1>5. TypeOK
  BY <1>1, <1>2, <1>3, <1>4 DEF TypeOK, CleanInv, LoopState, IInv, ParserTypes
<1>. QED
  BY <1>5 DEF ClientTypeOK, CleanInv, LoopState

LEMMA CleanAtFirst == ASSUME ClientInit PROVE CleanInv
<1>1. /\ Init /\ phase = "connect" /\ tries = 0 /\ exit = FALSE
      /\ result = "SR_ERROR" /\ closed = "no"
  BY DEF ClientInit
<1>2. /\ pc = "idle" /\ noises = 0 /\ clobbered = FALSE
      /\ call = [first |-> 1, delivered |-> 0, between |-> TRUE]
  BY <1>1 DEF Init
<1>3. LoopState
  <2>1. tries \in 0 .. MaxTries /\ tries < MaxTries
    BY <1>1, ClientAssumption
  <2>. QED
    BY <1>1, <1>2, <2>1 DEF LoopState
<1>4. ReasonInv
  BY <1>1 DEF ReasonInv, LeftForReason, ResultSaysWhy
<1>. QED
  BY <1>1, <1>2, <1>3, <1>4, SyncAtFirst DEF CleanInv

(* OnRecv's parser, seen by the loop. *)
LEMMA OnRecvRuns ==
  ASSUME pc = "parse", OnRecvStep
  PROVE  /\ pc' \in {"idle", "parse"} /\ UNCHANGED <<net, sent, noises, call>>
         /\ clobbered' = clobbered
  BY DEF OnRecvStep, ReadWindow, OnRecvEnd, Spin, ParseByte, ScanMID, LengthByte,
     LengthDone, PayloadByte, PacketDone, PacketCorrupt, Elsewhere, senderVars, vars

LEMMA LoopStateKept ==
  ASSUME LoopState, ReasonInv, [ClientNext]_socketVars PROVE LoopState'
<1>. USE DEF LoopState
<1>1. CASE ServerSend
  BY <1>1 DEF ServerSend, clientVars, SendPacket, Transmit
<1>2. ASSUME NEW how \in {"fin", "reset"}, ServerEnd(how) PROVE LoopState'
  BY <1>2 DEF ServerEnd, vars
<1>3. ASSUME NEW success \in BOOLEAN, Connect(success) PROVE LoopState'
  <2>1. /\ phase = "connect" /\ tries' = tries + 1
        /\ UNCHANGED <<exit, result, closed, pc, net>>
        /\ phase' = IF success THEN "connected"
                    ELSE IF tries' < MaxTries THEN "connect" ELSE "failed"
    BY <1>3 DEF Connect, vars
  <2>2. tries' \in 0 .. MaxTries /\ (phase' = "connect" => tries' < MaxTries)
    BY <2>1, ClientAssumption
  <2>3. phase' \in {"connected", "connect", "failed"}
    BY <2>1
  <2>. QED
    BY <2>1, <2>2, <2>3
<1>4. CASE LoopStop
  BY <1>4 DEF LoopStop, vars
<1>5. CASE LoopStart \/ LoopTest
  <2>1. /\ phase \in {"connected", "test"} /\ phase' \in {"test", "end", "read"}
        /\ UNCHANGED <<tries, exit, result, closed, pc, net>>
    BY <1>5 DEF LoopStart, LoopTest, vars
  <2>2. phase' = "end" => phase = "test"
    BY <1>5 DEF LoopStart, LoopTest
  <2>3. phase' = "end" => result # "SR_ERROR_CONNECT"
    BY <2>2 DEF ReasonInv, LeftForReason
  <2>. QED
    BY <2>1, <2>3
<1>6. CASE ReadData
  BY <1>6 DEF ReadData, Recv
<1>7. CASE RunOnRecv
  <2>1. pc' \in {"idle", "parse"} /\ phase = "recv" /\ UNCHANGED <<tries, exit, closed>>
    BY <1>7, OnRecvRuns DEF RunOnRecv
  <2>2. CASE pc' = "idle"
    BY <1>7, <2>1, <2>2 DEF RunOnRecv
  <2>3. CASE pc' # "idle"
    BY <1>7, <2>1, <2>3 DEF RunOnRecv
  <2>. QED
    BY <2>2, <2>3
<1>8. CASE ReadTimeout
  BY <1>8 DEF ReadTimeout, vars
<1>9. CASE ReadZero \/ ReadFails
  BY <1>9 DEF ReadZero, ReadFails, vars
<1>10. CASE LoopEnd
  <2>1. /\ phase = "end" /\ phase' = "ended"
        /\ result' \in {"SR_SUCCESS", result}
        /\ UNCHANGED <<tries, exit, closed, pc, net>>
    BY <1>10 DEF LoopEnd, vars
  <2>. QED
    BY <2>1
<1>11. CASE UNCHANGED socketVars
  BY <1>11 DEF socketVars, clientVars, vars
<1>. QED
  BY <1>1, <1>2, <1>3, <1>4, <1>5, <1>6, <1>7, <1>8, <1>9, <1>10, <1>11
  DEF ClientNext, LoopStep

LEMMA CleanKept ==
  CrcIsBytes /\ OneClient /\ CleanInv /\ [ClientNext]_socketVars => CleanInv'
<1>. SUFFICES ASSUME CrcIsBytes, OneClient, CleanInv, [ClientNext]_socketVars
              PROVE  CleanInv'
  OBVIOUS
<1>1. [Next]_vars
  BY ClientParses DEF socketVars
<1>2. DInv'
  BY <1>1, SyncStep DEF CleanInv
<1>3. LoopState'
  BY LoopStateKept DEF CleanInv
<1>4. ReasonInv'
  <2>1. CASE ClientNext
    BY <2>1, LoopKeeps, OthersKeep DEF ClientNext, CleanInv
  <2>2. CASE UNCHANGED socketVars
    BY <2>2 DEF socketVars, clientVars, ReasonInv, LeftForReason, ResultSaysWhy,
       CleanInv
  <2>. QED
    BY <2>1, <2>2
<1>5. /\ noises' = noises /\ clobbered' = clobbered
      /\ call' \in [first : Nat, delivered : Nat, between : BOOLEAN]
  <2>1. noises = 0 /\ clobbered = FALSE /\ IInv /\ Windows /\ InSync
    BY DEF CleanInv, DInv
  <2>2. call \in [first : Nat, delivered : Nat, between : BOOLEAN]
    BY DEF CleanInv
  <2>3. CASE ServerSend
    BY <2>2, <2>3 DEF ServerSend, SendPacket, Transmit
  <2>4. CASE ReadData
    <3>1. PICK n \in 1 .. Len(net) : Recv(n)
      BY <2>4 DEF ReadData
    <3>2. noises' = noises /\ clobbered' = clobbered
      BY <3>1 DEF Recv, OneClient, senderVars
    <3>3. call' = [first     |-> written - Len(net) + 1,
                   delivered |-> Len(delivered),
                   between   |-> packetData = <<>>]
      BY <3>1 DEF Recv
    <3>4. written - Len(net) + 1 \in Nat
      <4>1. /\ posPacket \in Nat /\ LastByte(sent, Len(delivered)) \in Nat
            /\ Len(net) \in Nat /\ written \in Nat
        BY <2>1, Counts
      <4>2. /\ stream = <<>> /\ buff = <<>> /\ offsetBuff = 0 /\ posBuff = 0
            /\ Len(<<>>) = 0
        BY <2>1, <3>1, EmptySeq DEF Windows, Recv
      <4>3. written - Len(net) = LastByte(sent, Len(delivered)) + posPacket
        BY <2>1, <4>1, <4>2 DEF InSync, Seen, Windowed, Taken
      <4>. QED
        BY <4>1, <4>3
    <3>5. Len(delivered) \in Nat
      BY <2>1, Counts
    <3>. QED
      BY <3>2, <3>3, <3>4, <3>5
  <2>5. CASE RunOnRecv
    <3>1. pc = "parse"
      BY <2>5 DEF RunOnRecv, CleanInv, LoopState
    <3>. QED
      BY <2>2, <2>5, <3>1, OnRecvRuns DEF RunOnRecv
  <2>6. CASE UNCHANGED vars
    BY <2>2, <2>6 DEF vars, senderVars
  <2>7. \/ ServerSend \/ ReadData \/ RunOnRecv \/ UNCHANGED vars
    BY DEF ClientNext, LoopStep, ServerEnd, LoopStop, Connect, LoopStart, LoopTest,
       ReadTimeout, ReadZero, ReadFails, LoopEnd, socketVars
  <2>. QED
    BY <2>3, <2>4, <2>5, <2>6, <2>7
<1>. QED
  BY <1>2, <1>3, <1>4, <1>5 DEF CleanInv

LEMMA AlwaysClean == CrcIsBytes /\ OneClient => (ClientSpec => []CleanInv)
<1>. SUFFICES ASSUME CrcIsBytes, OneClient PROVE ClientSpec => []CleanInv
  OBVIOUS
<1>1. ClientInit => CleanInv
  BY CleanAtFirst
<1>2. CleanInv /\ [ClientNext]_socketVars => CleanInv'
  BY CleanKept
<1>. QED
  BY <1>1, <1>2, PTL DEF ClientSpec

(* The client's state keeps its types, those of the packets it delivers among
   them. *)
THEOREM ClientTypes == CrcIsBytes /\ OneClient => (ClientSpec => []ClientTypeOK)
<1>. SUFFICES ASSUME CrcIsBytes, OneClient PROVE ClientSpec => []ClientTypeOK
  OBVIOUS
<1>1. CleanInv => ClientTypeOK
  BY CleanTypes
<1>2. ClientSpec => []CleanInv
  BY AlwaysClean
<1>. QED
  BY <1>1, <1>2, PTL

-----------------------------------------------------------------------------
(* The channel the program is promised. *)

ChannelSteps == Channel!Init /\ [][Channel!Next]_(Channel!vars)

LEMMA PayloadsAppend ==
  ASSUME NEW s, s \in Seq([payload : Seq(Nat), first : Nat, last : Nat]),
         NEW m \in [payload : Seq(Nat), first : Nat, last : Nat]
  PROVE  /\ PayloadsOf(Append(s, m)) = Append(PayloadsOf(s), m.payload)
         /\ Len(PayloadsOf(s)) = Len(s)
<1>. DEFINE R == [payload : Seq(Nat), first : Nat, last : Nat]
            a == PayloadsOf(Append(s, m))
            b == Append(PayloadsOf(s), m.payload)
<1>1. Len(s) \in Nat /\ \A i \in 1 .. Len(s) : s[i] \in R
  BY ElementOfSeq, LenProperties
<1>2. /\ Len(Append(s, m)) = Len(s) + 1 /\ Append(s, m)[Len(s) + 1] = m
      /\ \A i \in 1 .. Len(s) : Append(s, m)[i] = s[i]
  BY AppendProperties
<1>3. PayloadsOf(s) \in Seq(Seq(Nat)) /\ Len(PayloadsOf(s)) = Len(s)
  BY <1>1 DEF PayloadsOf
<1>4. \A i \in 1 .. Len(s) : PayloadsOf(s)[i] = s[i].payload
  BY DEF PayloadsOf
<1>5. /\ a \in Seq(Seq(Nat)) /\ Len(a) = Len(s) + 1
      /\ \A i \in 1 .. Len(s) + 1 : a[i] = Append(s, m)[i].payload
  <2>1. \A i \in 1 .. Len(s) + 1 : Append(s, m)[i].payload \in Seq(Nat)
    <3>1. ASSUME NEW i \in 1 .. Len(s) + 1 PROVE Append(s, m)[i] \in R
      <4>1. CASE i = Len(s) + 1
        BY <1>2, <4>1
      <4>2. CASE i # Len(s) + 1
        <5>1. i \in 1 .. Len(s)
          BY <1>1, <4>2
        <5>. QED
          BY <1>1, <1>2, <5>1
      <4>. QED
        BY <4>1, <4>2
    <3>. QED
      BY <3>1
  <2>. QED
    BY <1>1, <1>2, <2>1 DEF PayloadsOf
<1>6. /\ b \in Seq(Seq(Nat)) /\ Len(b) = Len(s) + 1 /\ b[Len(s) + 1] = m.payload
      /\ \A i \in 1 .. Len(s) : b[i] = PayloadsOf(s)[i]
  BY <1>3, AppendProperties
<1>. HIDE DEF a, b
<1>7. ASSUME NEW i \in 1 .. Len(s) + 1 PROVE a[i] = b[i]
  <2>1. CASE i = Len(s) + 1
    BY <1>2, <1>5, <1>6, <2>1
  <2>2. CASE i # Len(s) + 1
    <3>1. i \in 1 .. Len(s)
      BY <1>1, <2>2
    <3>. QED
      BY <1>2, <1>4, <1>5, <1>6, <3>1
  <2>. QED
    BY <2>1, <2>2
<1>8. a = b
  BY <1>5, <1>6, <1>7, SeqEqual
<1>. QED
  BY <1>3, <1>8 DEF a, b

(* Nothing changes for the program of a channel. *)
LEMMA SameChannel ==
  ASSUME UNCHANGED <<sent, delivered>>, Ended' = Ended
  PROVE  [Channel!Next]_(Channel!vars)
  BY DEF Channel!vars

(* The other side sends. *)
LEMMA SendIsSend ==
  ASSUME CrcIsBytes, CleanInv, ServerSend PROVE Channel!Next
<1>1. PICK p \in Payloads : SendPacket(p)
  BY DEF ServerSend
<1>2. /\ Len(sent) < MaxSends /\ delivered' = delivered
      /\ sent' = Append(sent, Packet(p, written))
  BY <1>1 DEF SendPacket, Transmit, Packet
<1>3. /\ sent \in Seq([payload : Seq(Nat), first : Nat, last : Nat])
      /\ written \in Nat
  BY Counts DEF CleanInv, DInv, InSync, Numbered
<1>4. /\ Packet(p, written) \in [payload : Seq(Nat), first : Nat, last : Nat]
      /\ Packet(p, written).payload = p
  <2>1. p \in Seq(Nat)
    BY ParserAssumption
  <2>2. Create(p) # <<>>
    BY <1>1 DEF SendPacket
  <2>3. Len(Create(p)) \in Nat
    <3>1. Len(p) <= MaxPayload
      BY <2>1, <2>2, LenProperties, Lengths DEF Create
    <3>. QED
      BY <2>1, <3>1, FrameShape, LenProperties
  <2>. QED
    BY <1>3, <2>1, <2>3 DEF Packet
<1>5. /\ PayloadsOf(sent') = Append(PayloadsOf(sent), p)
      /\ Len(PayloadsOf(sent)) = Len(sent)
  BY <1>2, <1>3, <1>4, PayloadsAppend
<1>6. Ended' = Ended /\ Ended # "closed"
  BY DEF ServerSend, clientVars, Ended, CleanInv, ReasonInv, ResultSaysWhy
<1>. QED
  BY <1>2, <1>5, <1>6 DEF Channel!Next, Channel!Send

(* OnRecv hands the packet that is due to the program, or nothing. *)
LEMMA RunDelivers ==
  ASSUME CrcIsBytes, CleanInv, RunOnRecv PROVE [Channel!Next]_(Channel!vars)
<1>1. /\ IInv /\ Windows /\ InSync /\ pc = "parse" /\ phase = "recv"
  BY DEF RunOnRecv, CleanInv, DInv, LoopState
<1>2. Ended = "no" /\ Ended' = "no" /\ sent' = sent
  <2>1. phase' \in {"recv", "test"}
    BY <1>1 DEF RunOnRecv
  <2>. QED
    BY <1>1, <2>1, OnRecvRuns DEF RunOnRecv, Ended
<1>3. CASE PacketDone
  <2>1. /\ HasByte /\ FrameComplete
        /\ delivered' = Append(delivered, Payload(packet))
    BY <1>3 DEF PacketDone, FrameComplete
  <2>2. Payload(packet) = due /\ Len(delivered) + 1 \in DOMAIN sent
    BY <1>1, <2>1, FrameWhole, NextByte
  <2>3. /\ Len(delivered) \in Nat /\ DOMAIN sent = 1 .. Len(sent)
        /\ Len(sent) \in Nat
    BY <1>1, Counts
  <2>4. /\ Len(delivered) < Len(sent)
        /\ Len(PayloadsOf(sent)) = Len(sent)
        /\ PayloadsOf(sent)[Len(delivered) + 1] = due
    BY <2>2, <2>3 DEF PayloadsOf, due
  <2>5. Channel!Deliver
    BY <1>2, <2>1, <2>2, <2>4 DEF Channel!Deliver
  <2>. QED
    BY <2>5 DEF Channel!Next
<1>4. CASE ~PacketDone
  <2>1. delivered' = delivered
    BY <1>4 DEF RunOnRecv, OnRecvStep, ReadWindow, OnRecvEnd, Spin, ParseByte,
       ScanMID, LengthByte, LengthDone, PayloadByte, PacketCorrupt, vars
  <2>. QED
    BY <1>2, <2>1, SameChannel
<1>. QED
  BY <1>3, <1>4

(* The program is told that the connection has ended: everything that was sent
   has been delivered. *)
LEMMA EndIsEnd ==
  ASSUME CrcIsBytes, CleanInv, LoopEnd PROVE Channel!Next
<1>1. /\ phase = "end" /\ phase' = "ended" /\ UNCHANGED <<sent, delivered>>
      /\ Ended = "no"
      /\ result' = IF exit \/ result = "SR_ERROR_AGAIN" THEN "SR_SUCCESS" ELSE result
  BY DEF LoopEnd, vars, senderVars, Ended
<1>2. CASE result' = "SR_ERROR_CONNECT"
  <2>1. net = <<>> /\ pc = "idle" /\ Len(net) = 0
    BY <1>1, <1>2, EmptySeq DEF CleanInv, LoopState
  <2>2. DeliversReceived /\ noises = 0 /\ ~clobbered /\ IInv /\ InSync
    BY <2>1, ReceivedInSync DEF CleanInv, DInv
  <2>3. /\ Len(sent) \in Nat /\ DOMAIN sent = 1 .. Len(sent) /\ written \in Nat
        /\ Len(delivered) \in Nat /\ DOMAIN delivered = 1 .. Len(delivered)
    BY <2>2, Counts
  <2>4. Taken = written
    BY <2>1, <2>3 DEF Taken
  <2>5. \A i \in DOMAIN sent : i \in DOMAIN delivered /\ delivered[i] = sent[i].payload
    BY <2>1, <2>2, <2>4 DEF DeliversReceived, InSync, Numbered
  <2>6. Len(delivered) = Len(sent)
    <3>1. Len(delivered) <= Len(sent)
      BY <2>1, <2>2 DEF DeliversReceived
    <3>2. CASE Len(sent) = 0
      BY <2>3, <3>1, <3>2
    <3>3. CASE Len(sent) # 0
      <4>1. Len(sent) \in DOMAIN sent
        BY <2>3, <3>3
      <4>2. Len(sent) \in 1 .. Len(delivered)
        BY <2>3, <2>5, <4>1
      <4>3. Len(sent) \in Nat /\ Len(delivered) \in Nat
        BY <2>3
      <4>. QED
        BY <3>1, <4>2, <4>3
    <3>. QED
      BY <3>2, <3>3
  <2>7. delivered = PayloadsOf(sent)
    <3>1. delivered \in Seq(Seq(Nat))
      BY <2>2 DEF InSync, InFrame
    <3>2. /\ PayloadsOf(sent) \in Seq(Seq(Nat)) /\ Len(PayloadsOf(sent)) = Len(sent)
          /\ \A i \in 1 .. Len(sent) : PayloadsOf(sent)[i] = sent[i].payload
      <4>1. \A i \in 1 .. Len(sent) : sent[i].payload \in Seq(Nat)
        <5>1. Numbered(sent, written)
          BY <2>2 DEF InSync
        <5>. QED
          BY <2>3, <5>1, Packets
      <4>. QED
        BY <2>3, <4>1 DEF PayloadsOf
    <3>3. \A i \in 1 .. Len(delivered) : delivered[i] = PayloadsOf(sent)[i]
      BY <2>3, <2>5, <2>6, <3>2
    <3>. QED
      BY <2>6, <3>1, <3>2, <3>3, SeqEqual
  <2>8. Ended' = "closed"
    BY <1>1, <1>2 DEF Ended
  <2>9. Channel!Closed
    BY <1>1, <2>7, <2>8 DEF Channel!Closed
  <2>. QED
    BY <2>9 DEF Channel!Next
<1>3. CASE result' # "SR_ERROR_CONNECT"
  <2>1. Ended' = "left"
    BY <1>1, <1>3 DEF Ended
  <2>2. Channel!Leave
    BY <1>1, <2>1 DEF Channel!Leave
  <2>. QED
    BY <2>2 DEF Channel!Next
<1>. QED
  BY <1>2, <1>3

LEMMA ChannelStep ==
  CrcIsBytes /\ OneClient /\ CleanInv /\ [ClientNext]_socketVars
    => [Channel!Next]_(Channel!vars)
<1>. SUFFICES ASSUME CrcIsBytes, OneClient, CleanInv, [ClientNext]_socketVars
              PROVE  [Channel!Next]_(Channel!vars)
  OBVIOUS
<1>1. CASE ServerSend
  BY <1>1, SendIsSend
<1>2. CASE RunOnRecv
  BY <1>2, RunDelivers
<1>3. CASE LoopEnd
  BY <1>3, EndIsEnd
<1>4. CASE ReadData
  <2>1. UNCHANGED <<sent, delivered>> /\ Ended' = Ended
    BY <1>4 DEF ReadData, Recv, senderVars, Ended
  <2>. QED
    BY <2>1, SameChannel
<1>5. ASSUME UNCHANGED vars, phase' = phase \/ {phase, phase'} \cap {"ended"} = {},
             result' = result \/ phase # "ended"
      PROVE  [Channel!Next]_(Channel!vars)
  <2>1. UNCHANGED <<sent, delivered>> /\ Ended' = Ended
    BY <1>5 DEF vars, senderVars, Ended
  <2>. QED
    BY <2>1, SameChannel
<1>6. CASE \/ ServerEnd("fin") \/ ServerEnd("reset") \/ LoopStop
           \/ UNCHANGED socketVars
  BY <1>5, <1>6 DEF ServerEnd, LoopStop, socketVars, clientVars
<1>7. CASE \E success \in BOOLEAN : Connect(success)
  <2>1. /\ UNCHANGED vars /\ phase = "connect" /\ result' = result
        /\ phase' \in {"connected", "connect", "failed"}
    BY <1>7 DEF Connect
  <2>. QED
    BY <1>5, <2>1
<1>8. CASE LoopStart \/ LoopTest \/ ReadTimeout \/ ReadZero \/ ReadFails
  <2>1. /\ UNCHANGED vars /\ phase \in {"connected", "test", "read"}
        /\ phase' \in {"test", "end", "read"}
    BY <1>8 DEF LoopStart, LoopTest, ReadTimeout, ReadZero, ReadFails
  <2>. QED
    BY <1>5, <2>1
<1>. QED
  BY <1>1, <1>2, <1>3, <1>4, <1>6, <1>7, <1>8 DEF ClientNext, LoopStep

(* The steps of ImplementsChannel: the packets of the other side are handed to
   the program whole, once and in order, and when it is told that the connection
   was closed it has got all of them.  (That each does arrive needs fairness.) *)
THEOREM ClientIsChannel ==
  CrcIsBytes /\ OneClient => (ClientSpec => ChannelSteps)
<1>. SUFFICES ASSUME CrcIsBytes, OneClient PROVE ClientSpec => ChannelSteps
  OBVIOUS
<1>1. ClientInit => Channel!Init
  <2>. SUFFICES ASSUME ClientInit PROVE Channel!Init
    OBVIOUS
  <2>1. sent = <<>> /\ delivered = <<>> /\ phase = "connect"
    BY DEF ClientInit, Init
  <2>2. PayloadsOf(sent) = <<>>
    BY <2>1 DEF PayloadsOf
  <2>. QED
    BY <2>1, <2>2 DEF Channel!Init, Ended
<1>2. CleanInv /\ [ClientNext]_socketVars => [Channel!Next]_(Channel!vars)
  BY ChannelStep
<1>3. ClientSpec => []CleanInv
  BY AlwaysClean
<1>. QED
  BY <1>1, <1>2, <1>3, PTL DEF ClientSpec, ChannelSteps
===============================================================================
