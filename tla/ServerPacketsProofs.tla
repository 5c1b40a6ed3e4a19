-------------------------- MODULE ServerPacketsProofs --------------------------
(***************************************************************************)
(* Proofs about ServerPackets, for any number of clients, payloads, faults *)
(* and windows.  A client whose turn ends is parked with what it knows of  *)
(* its connection, and finds it again: what PacketParserProofs shows of    *)
(* the steps of one parser holds through the turns of the others, unless   *)
(* its frame was written over meanwhile or it began with somebody else's.  *)
(* Until then it has all that was sent to it in full, and is handed        *)
(* nothing but packets of its own connection also if some of it was cut    *)
(* short, as far as the checksum tells the packets on it (ServerWireInv).  *)
(***************************************************************************)
EXTENDS ServerPackets, PacketParserProofs, SequenceTheorems, TLAPS

(* What is kept of a client between its turns: IInv and InSync of a connection
   nothing of which is in a window. *)
ClientTypes(c) ==
  /\ c.wire \in Seq(Nat)
  /\ c.net \in Seq(Nat)
  /\ c.parsFunc \in {"ScanMID", "DataLength", "Payload"}
  /\ c.packetData \in Seq(Nat)
  /\ c.posBuffBeginPack \in Nat
  /\ c.lenghtBuff \in Seq(Nat)
  /\ c.lenPayload \in Nat /\ c.noises \in Nat

ClientConsistent(c) ==
  LET n == Len(c.packetData)
  IN  /\ c.parsFunc = "ScanMID" => n < lenMID /\ c.lenghtBuff = <<>>
      /\ c.parsFunc = "DataLength" => /\ n - posPLen \in 0 .. lenPLen - 1
                                      /\ Len(c.lenghtBuff) = n - posPLen
      /\ c.parsFunc = "Payload" => /\ c.lenPayload <= lenMaxBuffer
                                   /\ n >= posPayload
                                   /\ n < posPayload + c.lenPayload + lenCRC
                                   /\ c.lenghtBuff = <<>>

ClientInSync(c) ==
  LET read == Len(c.wire) - Len(c.net)
  IN  /\ Numbered(c.sent, Len(c.wire))
      /\ Carries(c.sent, c.net, read)
      /\ InFrame(c.sent, c.delivered, c.packetData, c.parsFunc, c.lenghtBuff,
                 c.lenPayload)
      /\ read = LastByte(c.sent, Len(c.delivered)) + Len(c.packetData)

Fresh(c) == c.noises = 0 /\ ~c.clobbered /\ ~c.stale

ParkedWell(c) ==
  ClientTypes(c) /\ ClientConsistent(c) /\ (Fresh(c) => ClientInSync(c))

(* What was assembled of a frame and what lies behind it make up a packet. *)
WholeBuff == Len(packetData) + Len(residue) = BuffSize

CurrentWell ==
  /\ IInv /\ Windows /\ noises \in Nat
  /\ noises = 0 /\ ~clobbered /\ ~stale => InSync

ServerInv ==
  /\ CurrentWell
  /\ key \in Keys /\ DOMAIN parked = Keys
  /\ \A k \in Keys : ParkedWell(parked[k])
  /\ WholeBuff

-----------------------------------------------------------------------------
LEMMA SizeOfBuff == BuffSize \in Nat /\ BuffSize = posPayload + lenMaxBuffer + lenCRC
  BY Lengths DEF BuffSize

LEMMA MemType ==
  ASSUME IInv, WholeBuff
  PROVE  /\ mem \in Seq(Nat) /\ Len(mem) = BuffSize
         /\ Len(packetData) \in Nat /\ Len(residue) \in Nat
<1>1. packetData \in Seq(Nat) /\ residue \in Seq(Nat)
  BY DEF IInv, ParserTypes
<1>. QED
  BY <1>1, Joined, LenProperties, Zenon DEF mem, WholeBuff

(* A frame that is not complete leaves room in the packet. *)
LEMMA RoomLeft == ASSUME IInv PROVE posPacket \in Nat /\ posPacket < BuffSize
<1>1. /\ posPacket \in Nat /\ lenPayload \in Nat /\ ParserConsistent
      /\ parsFunc \in {"ScanMID", "DataLength", "Payload"}
  BY Places DEF IInv, ParserTypes
<1>2. CASE parsFunc = "Payload"
  BY <1>1, <1>2, SizeOfBuff, Lengths DEF ParserConsistent
<1>3. CASE parsFunc = "DataLength"
  BY <1>1, <1>3, SizeOfBuff, Lengths DEF ParserConsistent
<1>4. CASE parsFunc = "ScanMID"
  BY <1>1, <1>4, SizeOfBuff, Lengths DEF ParserConsistent
<1>. QED
  BY <1>1, <1>2, <1>3, <1>4

(* The packet keeps its size in every step of a parser. *)
LEMMA WholeBuffStep ==
  ASSUME IInv, WholeBuff, [Next]_vars PROVE WholeBuff'
<1>1. /\ packetData \in Seq(Nat) /\ residue \in Seq(Nat)
      /\ Len(packetData) = posPacket /\ posPacket \in Nat
      /\ Len(residue) \in Nat /\ posPacket + Len(residue) = BuffSize
      /\ posPacket < BuffSize /\ BuffSize \in Nat
  BY MemType, RoomLeft, SizeOfBuff DEF IInv, ParserTypes, WholeBuff, posPacket
<1>2. ASSUME UNCHANGED <<packetData, residue>> PROVE WholeBuff'
  BY <1>2 DEF WholeBuff
<1>3. CASE ParseByte
  <2>1. HasByte
    BY <1>3 DEF ParseByte, ScanMID, LengthByte, LengthDone, PayloadByte,
       PacketDone, PacketCorrupt, FrameComplete
  <2>2. /\ assembled \in Seq(Nat) /\ Len(assembled) = posPacket + 1
        /\ behind \in Seq(Nat)
    BY <2>1, Looking
  <2>3. Len(behind) = Len(residue) - 1
    <3>. DEFINE e == Len(residue)
    <3>1. /\ 1 \in Nat /\ e \in Nat /\ 1 <= e /\ e <= Len(residue)
          /\ residue \in Seq(Nat)
      BY <1>1
    <3>2. Len(SubSeq(residue, 1 + 1, e)) = e - 1
      BY <3>1, CutOut, Zenon
    <3>3. 1 + 1 = 2
      OBVIOUS
    <3>. QED
      BY <3>2, <3>3, Zenon DEF behind
  <2>4. Len(packet) = BuffSize /\ Len(assembled) + Len(behind) = BuffSize
    <3>1. Len(packet) = Len(assembled) + Len(behind)
      BY <2>2, Joined, Zenon DEF packet
    <3>2. Len(assembled) + Len(behind) = (posPacket + 1) + (Len(residue) - 1)
      BY <2>2, <2>3
    <3>3. (posPacket + 1) + (Len(residue) - 1) = posPacket + Len(residue)
      <4>. DEFINE x == posPacket
                  y == Len(residue)
      <4>1. x \in Nat /\ y \in Nat
        BY <1>1
      <4>. HIDE DEF x, y
      <4>2. (x + 1) + (y - 1) = x + y
        BY <4>1
      <4>. QED
        BY <4>2 DEF x, y
    <3>. QED
      BY <1>1, <3>1, <3>2, <3>3, Zenon
  <2>5. \/ packetData' = assembled /\ residue' = behind
        \/ packetData' = <<>> /\ residue' = packet
    BY <1>3 DEF ParseByte, ScanMID, LengthByte, LengthDone, PayloadByte,
       PacketDone, PacketCorrupt, Accept, StartOver, Restart
  <2>6. Len(<<>>) + Len(packet) = BuffSize
    BY <1>1, <2>4, EmptySeq
  <2>. QED
    BY <2>4, <2>5, <2>6 DEF WholeBuff
<1>4. ASSUME NEW n \in 1 .. Len(net), Recv(n) PROVE WholeBuff'
  <2>1. CASE UNCHANGED <<packetData, residue>>
    BY <1>2, <2>1
  <2>2. CASE /\ packetData' = [i \in DOMAIN packetData |-> Garbage]
             /\ residue' = [i \in DOMAIN residue |-> Garbage]
    <3>1. DOMAIN packetData = 1 .. Len(packetData) /\ DOMAIN residue = 1 .. Len(residue)
      BY <1>1, LenProperties
    <3>2. Len(packetData') = Len(packetData)
      BY <1>1, <2>2, <3>1
    <3>3. Len(residue') = Len(residue)
      BY <1>1, <2>2, <3>1
    <3>. QED
      BY <3>2, <3>3 DEF WholeBuff
  <2>. QED
    BY <1>4, <2>1, <2>2 DEF Recv
<1>5. CASE \/ \E p \in Payloads : SendPacket(p) \/ SendShort(p)
           \/ \E bytes \in Noise : SendNoise(bytes)
  BY <1>2, <1>5 DEF SendPacket, SendShort, SendNoise, Transmit, parserVars
<1>6. CASE ReadWindow \/ OnRecvEnd \/ Spin \/ UNCHANGED vars
  BY <1>2, <1>6 DEF ReadWindow, OnRecvEnd, Spin, vars, parserVars
<1>. QED
  BY <1>3, <1>4, <1>5, <1>6 DEF Next, OnRecvStep

LEMMA NewClientWell == ParkedWell(NewClient)
<1>. DEFINE c == NewClient
<1>1. /\ c.net = <<>> /\ c.parsFunc = "ScanMID" /\ c.packetData = <<>>
      /\ c.posBuffBeginPack = 0 /\ c.lenghtBuff = <<>> /\ c.lenPayload = 0
      /\ c.delivered = <<>> /\ c.sent = <<>> /\ c.wire = <<>> /\ c.noises = 0
      /\ Len(<<>>) = 0
  BY EmptySeq DEF NewClient
<1>. HIDE DEF c
<1>2. ClientTypes(c)
  BY <1>1, EmptySeq DEF ClientTypes
<1>3. ClientConsistent(c)
  BY <1>1, Lengths DEF ClientConsistent
<1>4. ClientInSync(c)
  <2>1. Numbered(c.sent, Len(c.wire))
    BY <1>1, EmptySeq DEF Numbered, LastByte
  <2>2. InFrame(c.sent, c.delivered, c.packetData, c.parsFunc, c.lenghtBuff,
                c.lenPayload)
    BY <1>1, EmptySeq DEF InFrame
  <2>3. Carries(c.sent, c.net, Len(c.wire) - Len(c.net))
    BY <1>1 DEF Carries
  <2>4. Len(c.wire) - Len(c.net) = LastByte(c.sent, Len(c.delivered)) + Len(c.packetData)
    <3>1. LastByte(c.sent, Len(c.delivered)) = 0
      BY <1>1 DEF LastByte
    <3>. QED
      BY <1>1, <3>1
  <2>. QED
    BY <2>1, <2>2, <2>3, <2>4 DEF ClientInSync
<1>. QED
  BY <1>2, <1>3, <1>4 DEF ParkedWell, c

(* The client whose turn it was. *)
LEMMA ClientWell == ASSUME CurrentWell, pc = "idle" PROVE ParkedWell(Client)
<1>. DEFINE c == Client
<1>1. /\ c.net = net /\ c.parsFunc = parsFunc /\ c.packetData = packetData
      /\ c.posBuffBeginPack = posBuffBeginPack /\ c.lenghtBuff = lenghtBuff
      /\ c.lenPayload = lenPayload /\ c.delivered = delivered /\ c.sent = sent
      /\ c.wire = wire /\ Len(c.wire) = written /\ c.noises = noises
      /\ c.clobbered = clobbered /\ c.stale = stale
  BY DEF Client, written
<1>. HIDE DEF c
<1>2. ParserTypes /\ ParserConsistent /\ noises \in Nat /\ IInv /\ Windows
  BY DEF CurrentWell, IInv
<1>3. ClientTypes(c)
  BY <1>1, <1>2 DEF ClientTypes, ParserTypes
<1>4. ClientConsistent(c)
  BY <1>1, <1>2 DEF ClientConsistent, ParserConsistent, posPacket
<1>5. ASSUME Fresh(c) PROVE ClientInSync(c)
  <2>1. InSync
    BY <1>1, <1>5 DEF Fresh, CurrentWell
  <2>2. /\ stream = <<>> /\ buff = <<>> /\ offsetBuff = 0 /\ posBuff = 0
        /\ Len(<<>>) = 0
    BY <1>2, EmptySeq DEF Windows
  <2>3. Len(net) \in Nat /\ written \in Nat
    BY <1>2, <2>1, Counts
  <2>4. Seen = written - Len(net)
    BY <2>2, <2>3 DEF Seen, Windowed, Taken
  <2>. QED
    BY <1>1, <2>1, <2>4 DEF InSync, ClientInSync, Taken, posPacket
<1>. QED
  BY <1>3, <1>4, <1>5 DEF ParkedWell, c

(* What a client finds in the packet of the last OnRecv has the length of what
   it left there. *)
LEMMA FoundLength ==
  ASSUME NEW c, ClientTypes(c), ClientConsistent(c), IInv, WholeBuff
  PROVE  LET n == Len(c.packetData)
         IN  /\ SubSeq(mem, 1, n) \in Seq(Nat) /\ Len(SubSeq(mem, 1, n)) = n
             /\ SubSeq(mem, n + 1, Len(mem)) \in Seq(Nat)
             /\ n + Len(SubSeq(mem, n + 1, Len(mem))) = BuffSize
<1>. DEFINE n == Len(c.packetData)
            e == Len(mem)
<1>1. n \in Nat /\ c.lenPayload \in Nat
  BY LenProperties DEF ClientTypes
<1>2. n <= BuffSize
  <2>1. CASE c.parsFunc = "Payload"
    BY <1>1, <2>1, SizeOfBuff, Lengths DEF ClientConsistent
  <2>2. CASE c.parsFunc = "DataLength"
    BY <1>1, <2>2, SizeOfBuff, Lengths DEF ClientConsistent
  <2>3. CASE c.parsFunc = "ScanMID"
    BY <1>1, <2>3, SizeOfBuff, Lengths DEF ClientConsistent
  <2>. QED
    BY <2>1, <2>2, <2>3 DEF ClientTypes
<1>3. mem \in Seq(Nat) /\ e = BuffSize /\ e \in Nat /\ Len(mem) = e
  BY MemType, SizeOfBuff
<1>. HIDE DEF n, e
<1>4. /\ SubSeq(mem, 0 + 1, n) \in Seq(Nat) /\ Len(SubSeq(mem, 0 + 1, n)) = n - 0
  BY <1>1, <1>2, <1>3, CutOut
<1>5. /\ SubSeq(mem, n + 1, e) \in Seq(Nat) /\ Len(SubSeq(mem, n + 1, e)) = e - n
  BY <1>1, <1>2, <1>3, CutOut
<1>6. 0 + 1 = 1 /\ n - 0 = n /\ n + (e - n) = e
  BY <1>1, <1>3
<1>. QED
  BY <1>3, <1>4, <1>5, <1>6 DEF n, e

(* The client c goes on. *)
LEMMA BecomeWell ==
  ASSUME NEW c, ParkedWell(c), IInv, WholeBuff, Windows, pc = "idle",
         Become(c), UNCHANGED <<pc, stream, offsetBuff>>
  PROVE  CurrentWell' /\ WholeBuff'
<1>1. ClientTypes(c) /\ ClientConsistent(c)
  BY DEF ParkedWell
<1>2. /\ net' = c.net /\ parsFunc' = c.parsFunc
      /\ packetData' = SubSeq(mem, 1, Len(c.packetData))
      /\ residue' = SubSeq(mem, Len(c.packetData) + 1, Len(mem))
      /\ posBuffBeginPack' = c.posBuffBeginPack
      /\ lenghtBuff' = c.lenghtBuff /\ lenPayload' = c.lenPayload
      /\ delivered' = c.delivered /\ sent' = c.sent
      /\ wire' = c.wire /\ written' = Len(c.wire) /\ noises' = c.noises
      /\ clobbered' = (c.clobbered \/ packetData' # c.packetData)
      /\ stale' = c.stale
  BY DEF Become, Connection, written
<1>3. /\ stream = <<>> /\ buff = <<>> /\ offsetBuff = 0 /\ posBuff = 0
      /\ UNCHANGED <<stream, buff, offsetBuff, posBuff>>
      /\ Len(<<>>) = 0
  BY EmptySeq DEF Windows, Become
<1>4. /\ packetData' \in Seq(Nat) /\ posPacket' = Len(c.packetData)
      /\ residue' \in Seq(Nat) /\ WholeBuff'
  BY <1>1, <1>2, FoundLength DEF posPacket, WholeBuff
<1>5. ParserTypes'
  BY <1>1, <1>2, <1>3, <1>4, EmptySeq DEF ParserTypes, ClientTypes
<1>6. ParserConsistent'
  BY <1>1, <1>2, <1>4 DEF ParserConsistent, ClientConsistent
<1>7. Windows'
  BY <1>3 DEF Windows
<1>8. noises' \in Nat
  BY <1>1, <1>2 DEF ClientTypes
<1>9. ASSUME noises' = 0, ~clobbered', ~stale' PROVE InSync'
  <2>1. packetData' = c.packetData /\ ClientInSync(c)
    BY <1>2, <1>9 DEF ParkedWell, Fresh
  <2>. DEFINE read == Len(c.wire) - Len(c.net)
  <2>2. Len(c.net) \in Nat /\ Len(c.wire) \in Nat
    <3>1. Numbered(c.sent, Len(c.wire))
      BY <2>1 DEF ClientInSync
    <3>2. Len(c.sent) \in 0 .. Len(c.sent)
      BY <3>1, LenProperties DEF Numbered
    <3>. QED
      BY <1>1, <3>1, <3>2, LastBytes, LenProperties DEF ClientTypes
  <2>3. Taken' = read /\ Windowed' = read /\ Seen' = read
    BY <1>2, <1>3, <2>2 DEF Taken, Windowed, Seen
  <2>4. /\ Carries(sent, stream, Taken - Len(stream))'
        /\ Carries(sent, buff, Windowed - Len(buff))'
        /\ (posBuff <= Len(buff))'
    BY <1>3 DEF Carries
  <2>5. /\ Numbered(sent, written)' /\ Carries(sent, net, Taken)'
        /\ InFrame(sent, delivered, packetData, parsFunc, lenghtBuff, lenPayload)'
        /\ Seen' = LastByte(sent, Len(delivered))' + posPacket'
    BY <1>2, <1>4, <2>1, <2>3 DEF ClientInSync
  <2>. QED
    BY <2>4, <2>5 DEF InSync
<1>. QED
  BY <1>4, <1>5, <1>6, <1>7, <1>8, <1>9 DEF CurrentWell, IInv

LEMMA TurnKeeps == ASSUME ServerInv, NEW k \in Keys, Turn(k) PROVE ServerInv'
<1>1. /\ pc = "idle" /\ key' = k /\ Become(parked[k])
      /\ parked' = [parked EXCEPT ![key] = Client, ![k] = NewClient]
      /\ UNCHANGED <<pc, stream, offsetBuff, faults>>
  BY DEF Turn
<1>2. CurrentWell' /\ WholeBuff'
  BY <1>1, BecomeWell DEF ServerInv, CurrentWell
<1>3. DOMAIN parked' = Keys /\ key' \in Keys
  BY <1>1 DEF ServerInv
<1>4. ASSUME NEW j \in Keys PROVE ParkedWell(parked'[j])
  <2>1. parked'[j] \in {Client, NewClient, parked[j]}
    BY <1>1 DEF ServerInv
  <2>2. ParkedWell(Client) /\ ParkedWell(NewClient) /\ ParkedWell(parked[j])
    BY <1>1, ClientWell, NewClientWell DEF ServerInv
  <2>. QED
    BY <2>1, <2>2, Zenon
<1>. QED
  BY <1>2, <1>3, <1>4 DEF ServerInv

(* A client is replaced by a new one: by one with a parser of its own, or by one
   that goes on with the parser of the old. *)
LEMMA ReplacedKeeps ==
  ASSUME ServerInv, NEW left \in BOOLEAN, Replaced(left) PROVE ServerInv'
<1>0. IInv /\ WholeBuff
  BY DEF ServerInv, CurrentWell
<1>1. /\ pc = "idle" /\ Connection(NewClient)
      /\ clobbered' = FALSE /\ stale' = (left /\ packetData # <<>>)
      /\ UNCHANGED <<pc, stream, offsetBuff, key, parked, buff, posBuff>>
  BY DEF Replaced, parserVars
<1>2. /\ net' = <<>> /\ delivered' = <<>> /\ sent' = <<>>
      /\ wire' = <<>> /\ written' = 0 /\ noises' = 0
  BY <1>1, EmptySeq DEF Connection, NewClient, written
<1>3. /\ ParserTypes /\ ParserConsistent /\ Windows
  BY DEF ServerInv, CurrentWell, IInv
<1>4. /\ stream' = <<>> /\ buff' = <<>> /\ offsetBuff' = 0 /\ posBuff' = 0
      /\ Len(<<>>) = 0
  BY <1>1, <1>3, EmptySeq DEF Windows
<1>5. Windows'
  BY <1>4 DEF Windows
<1>6. ASSUME left
      PROVE  /\ ParserTypes' /\ ParserConsistent'
             /\ ~stale' => /\ packetData' = <<>> /\ parsFunc' = "ScanMID"
                           /\ lenghtBuff' = <<>>
  <2>1. UNCHANGED parserVars
    BY <1>6 DEF Replaced
  <2>2. ParserTypes'
    BY <1>1, <1>2, <1>3, <2>1, EmptySeq DEF ParserTypes, parserVars
  <2>3. ParserConsistent'
    BY <1>3, <2>1 DEF ParserConsistent, parserVars, posPacket
  <2>4. ASSUME packetData = <<>> PROVE parsFunc = "ScanMID" /\ lenghtBuff = <<>>
    <3>1. posPacket = 0 /\ lenPayload \in Nat
      BY <1>3, <2>4, EmptySeq DEF posPacket, ParserTypes
    <3>2. parsFunc # "DataLength" /\ parsFunc # "Payload"
      BY <1>3, <3>1, Lengths DEF ParserConsistent
    <3>. QED
      BY <1>3, <3>2 DEF ParserConsistent, ParserTypes
  <2>5. ASSUME ~stale'
        PROVE  packetData' = <<>> /\ parsFunc' = "ScanMID" /\ lenghtBuff' = <<>>
    BY <1>1, <1>6, <2>1, <2>4, <2>5 DEF parserVars
  <2>. QED
    BY <2>2, <2>3, <2>5
<1>7. ASSUME ~left
      PROVE  /\ ParserTypes' /\ ParserConsistent'
             /\ ~stale' => /\ packetData' = <<>> /\ parsFunc' = "ScanMID"
                           /\ lenghtBuff' = <<>>
  <2>1. /\ parsFunc' = "ScanMID" /\ packetData' = <<>> /\ lenghtBuff' = <<>>
        /\ posBuffBeginPack' = 0 /\ lenPayload' = 0 /\ residue' = mem
    BY <1>7 DEF Replaced
  <2>2. ParserTypes'
    BY <1>0, <1>2, <1>4, <2>1, EmptySeq, MemType DEF ParserTypes
  <2>3. ParserConsistent'
    BY <1>4, <2>1, Lengths DEF ParserConsistent, posPacket
  <2>. QED
    BY <2>1, <2>2, <2>3
<1>8. /\ ParserTypes' /\ ParserConsistent'
      /\ ~stale' => /\ packetData' = <<>> /\ parsFunc' = "ScanMID"
                    /\ lenghtBuff' = <<>>
  BY <1>6, <1>7
<1>9. ASSUME ~stale' PROVE InSync'
  <2>1. packetData' = <<>> /\ parsFunc' = "ScanMID" /\ lenghtBuff' = <<>>
    BY <1>8, <1>9
  <2>2. Numbered(sent, written)'
    BY <1>2, <1>4, EmptySeq DEF Numbered, LastByte
  <2>3. InFrame(sent, delivered, packetData, parsFunc, lenghtBuff, lenPayload)'
    BY <1>2, <1>4, <2>1, EmptySeq DEF InFrame
  <2>. QED
    BY <1>2, <1>4, <2>1, <2>2, <2>3
    DEF InSync, Carries, Taken, Windowed, Seen, LastByte, posPacket
<1>10. CurrentWell'
  BY <1>2, <1>5, <1>8, <1>9 DEF CurrentWell, IInv
<1>11. WholeBuff'
  <2>1. CASE left
    BY <1>0, <2>1 DEF Replaced, parserVars, WholeBuff
  <2>2. CASE ~left
    <3>1. packetData' = <<>> /\ residue' = mem
      BY <2>2 DEF Replaced
    <3>. QED
      BY <1>0, <3>1, MemType, SizeOfBuff, EmptySeq DEF WholeBuff
  <2>. QED
    BY <2>1, <2>2
<1>. QED
  BY <1>1, <1>10, <1>11 DEF ServerInv

(* The steps of the client whose turn it is are those of its parser. *)
LEMMA CurrentKeeps ==
  ASSUME CrcIsBytes, CurrentWell, [Next]_vars, stale' = stale PROVE CurrentWell'
<1>1. IInv' /\ Windows' /\ noises' \in Nat
  BY StepKeeps, WindowsKept, HistoryKept DEF CurrentWell
<1>2. ASSUME noises' = 0, ~clobbered', ~stale' PROVE InSync'
  BY <1>2, HistoryKept, SyncKept DEF CurrentWell
<1>. QED
  BY <1>1, <1>2 DEF CurrentWell

LEMMA ServerStep == CrcIsBytes /\ ServerInv /\ [ServerNext]_allVars => ServerInv'
<1>. SUFFICES ASSUME CrcIsBytes, ServerInv, [ServerNext]_allVars PROVE ServerInv'
  OBVIOUS
<1>1. ASSUME NEW k \in Keys, Turn(k) PROVE ServerInv'
  BY <1>1, TurnKeeps
<1>2. ASSUME NEW left \in BOOLEAN, Replaced(left) PROVE ServerInv'
  BY <1>2, ReplacedKeeps
<1>3. CASE ShortWrite \/ ClientStep
  <2>1. [Next]_vars
    BY <1>3 DEF ShortWrite, ClientStep, Next, OnRecvStep
  <2>2. UNCHANGED <<key, parked, stale>>
    BY <1>3 DEF ShortWrite, ClientStep, serverPacketVars
  <2>. QED
    BY <2>1, <2>2, CurrentKeeps, WholeBuffStep DEF ServerInv, CurrentWell
<1>4. CASE UNCHANGED allVars
  <2>1. [Next]_vars /\ UNCHANGED <<key, parked, stale>>
    BY <1>4 DEF allVars, serverPacketVars
  <2>. QED
    BY <2>1, CurrentKeeps, WholeBuffStep DEF ServerInv, CurrentWell
<1>. QED
  BY <1>1, <1>2, <1>3, <1>4 DEF ServerNext

LEMMA ServerAtFirst == ASSUME ServerInit PROVE ServerInv
<1>1. DInv
  BY SyncAtFirst DEF ServerInit
<1>2. CurrentWell
  BY <1>1 DEF DInv, CurrentWell
<1>3. WholeBuff
  <2>1. packetData = <<>> /\ residue = [i \in 1 .. BuffSize |-> Garbage]
    BY DEF ServerInit, Init
  <2>2. Len(residue) = BuffSize
    BY <2>1, SizeOfBuff
  <2>. QED
    BY <2>1, <2>2, SizeOfBuff, EmptySeq DEF WholeBuff
<1>4. \A k \in Keys : ParkedWell(parked[k])
  BY NewClientWell DEF ServerInit
<1>. QED
  BY <1>2, <1>3, <1>4 DEF ServerInv, ServerInit

(* However many clients a server has and however their turns and the pieces of
   their frames interleave: a client that did not begin with another's frame,
   and whose own frames were neither cut short nor written over, has been handed
   exactly the packets whose last byte was read. *)
THEOREM FreshServed == CrcIsBytes => (ServerSpec => []FreshClientServed)
<1>. SUFFICES ASSUME CrcIsBytes PROVE ServerSpec => []FreshClientServed
  OBVIOUS
<1>1. ServerInv => FreshClientServed
  BY ReceivedInSync DEF ServerInv, CurrentWell, FreshClientServed, DeliversReceived
<1>2. ServerInit => ServerInv
  BY ServerAtFirst
<1>3. ServerInv /\ [ServerNext]_allVars => ServerInv'
  BY ServerStep
<1>. QED
  BY <1>1, <1>2, <1>3, PTL DEF ServerSpec

-----------------------------------------------------------------------------
(* What is kept of a client about its own connection, whoever's bytes its frame
   is assembled from; and as long as they are its own, also what it was handed. *)
ClientInPlace(c) ==
  LET read  == Len(c.wire) - Len(c.net)
      start == read - Len(c.packetData) + 1
  IN  /\ Stands(c.wire, c.net, read)
      /\ SentOnWire(c.sent, c.wire)
      /\ LengthRead(c.wire, start, c.parsFunc, c.lenghtBuff, c.lenPayload)
      /\ ~c.stale /\ ~c.clobbered =>
           /\ Stands(c.wire, c.packetData, start - 1)
           /\ DeliveredInOrder(c.sent, c.delivered, read, start)

CurrentInPlace ==
  /\ PlaceInv /\ InPlace
  /\ ~stale /\ ~clobbered =>
       FrameIntact /\ DeliveredInOrder(sent, delivered, Taken, FrameStart)

ServerWireInv ==
  /\ ServerInv /\ CurrentInPlace
  /\ \A k \in Keys : ClientInPlace(parked[k])

LEMMA NewClientInPlace == ClientInPlace(NewClient)
<1>. DEFINE c == NewClient
<1>1. /\ c.net = <<>> /\ c.parsFunc = "ScanMID" /\ c.lenghtBuff = <<>>
      /\ c.packetData = <<>> /\ c.delivered = <<>> /\ c.sent = <<>> /\ c.wire = <<>>
  BY DEF NewClient
<1>. HIDE DEF c
<1>2. /\ SentOnWire(<<>>, <<>>) /\ \A q, x : DeliveredInOrder(<<>>, <<>>, q, x)
  BY NothingSent
<1>. QED
  BY <1>1, <1>2, NothingStands, NoLengthYet DEF ClientInPlace, c

LEMMA ClientKept ==
  ASSUME CurrentWell, CurrentInPlace, pc = "idle" PROVE ClientInPlace(Client)
<1>. DEFINE c == Client
<1>1. /\ c.net = net /\ c.parsFunc = parsFunc /\ c.packetData = packetData
      /\ c.lenghtBuff = lenghtBuff /\ c.lenPayload = lenPayload
      /\ c.delivered = delivered /\ c.sent = sent
      /\ c.wire = wire /\ Len(c.wire) = written
      /\ c.clobbered = clobbered /\ c.stale = stale
  BY DEF Client, written
<1>. HIDE DEF c
<1>2. /\ stream = <<>> /\ buff = <<>> /\ offsetBuff = 0 /\ posBuff = 0
      /\ Len(<<>>) = 0 /\ IInv
  BY EmptySeq DEF Windows, CurrentWell
<1>3. Len(net) \in Nat /\ written \in Nat /\ posPacket \in Nat
  BY <1>2, Places
<1>4. Taken = written - Len(net) /\ FrameStart = (written - Len(net)) - posPacket + 1
  <2>1. Taken = written - Len(net) /\ FrameStart = (((Taken - 0 + 0) - 0) + 0) - posPacket + 1
    BY <1>2 DEF FrameStart, Seen, Windowed, Taken
  <2>. QED
    BY <1>3, <2>1
<1>5. ClientInPlace(c)
  BY <1>1, <1>4 DEF CurrentInPlace, InPlace, ClientInPlace, FrameIntact, posPacket
<1>. QED
  BY <1>5 DEF c

(* Nothing is in a window: the place of the frame is known from the counts. *)
LEMMA BetweenCalls ==
  ASSUME stream' = <<>>, buff' = <<>>, offsetBuff' = 0, posBuff' = 0, IInv'
  PROVE  /\ Taken' = written' - Len(net') /\ BeginKnown'
         /\ FrameStart' = (written' - Len(net')) - posPacket' + 1
<1>. DEFINE a == written'
            b == Len(net')
            c == posPacket'
<1>1. a \in Nat /\ b \in Nat /\ c \in Nat /\ Len(<<>>) = 0
  BY LenProperties, EmptySeq DEF IInv, ParserTypes, written, posPacket
<1>2. Taken' = a - b /\ FrameStart' = (((((a - b) - 0) + 0) - 0) + 0) - c + 1
  BY <1>1 DEF FrameStart, Seen, Windowed, Taken
<1>3. BeginKnown'
  <2>1. packetData' # <<>> => c # 0
    BY EmptySeq DEF IInv, ParserTypes, posPacket
  <2>. HIDE DEF c
  <2>2. packetData' # <<>> => ~(c <= 0)
    BY <1>1, <2>1
  <2>. QED
    BY <2>2 DEF BeginKnown, c
<1>. HIDE DEF a, b, c
<1>4. FrameStart' = (a - b) - c + 1
  BY <1>1, <1>2
<1>. QED
  BY <1>2, <1>3, <1>4 DEF a, b, c

LEMMA BecomeInPlace ==
  ASSUME NEW c, ParkedWell(c), ClientInPlace(c), IInv, WholeBuff, Windows,
         pc = "idle", Become(c), UNCHANGED <<pc, stream, offsetBuff>>
  PROVE  CurrentInPlace'
<1>1. CurrentWell' /\ ClientTypes(c) /\ ClientConsistent(c)
  BY BecomeWell DEF ParkedWell
<1>2. /\ net' = c.net /\ parsFunc' = c.parsFunc
      /\ packetData' = SubSeq(mem, 1, Len(c.packetData))
      /\ lenghtBuff' = c.lenghtBuff /\ lenPayload' = c.lenPayload
      /\ delivered' = c.delivered /\ sent' = c.sent
      /\ wire' = c.wire /\ written' = Len(c.wire)
      /\ clobbered' = (c.clobbered \/ packetData' # c.packetData)
      /\ stale' = c.stale
  BY DEF Become, Connection, written
<1>3. /\ stream' = <<>> /\ buff' = <<>> /\ offsetBuff' = 0 /\ posBuff' = 0
  BY DEF Windows, Become
<1>4. posPacket' = Len(c.packetData)
  BY <1>1, <1>2, FoundLength DEF posPacket
<1>5. /\ Taken' = Len(c.wire) - Len(c.net) /\ BeginKnown'
      /\ FrameStart' = (Len(c.wire) - Len(c.net)) - Len(c.packetData) + 1
  BY <1>1, <1>2, <1>3, <1>4, BetweenCalls DEF CurrentWell
<1>6. PlaceInv'
  BY <1>1, <1>5 DEF CurrentWell, PlaceInv
<1>7. /\ Stands(wire', stream', Taken' - Len(stream'))
      /\ Stands(wire', buff', Windowed' - Len(buff'))
  BY <1>3, NothingStands
<1>8. InPlace'
  BY <1>2, <1>5, <1>7 DEF ClientInPlace, InPlace
<1>9. ASSUME ~stale', ~clobbered'
      PROVE  FrameIntact' /\ DeliveredInOrder(sent, delivered, Taken, FrameStart)'
  BY <1>2, <1>5, <1>9 DEF ClientInPlace, FrameIntact
<1>. QED
  BY <1>6, <1>8, <1>9 DEF CurrentInPlace

LEMMA TurnInPlace == ASSUME ServerWireInv, NEW k \in Keys, Turn(k) PROVE ServerWireInv'
<1>1. /\ pc = "idle" /\ key' = k /\ Become(parked[k])
      /\ parked' = [parked EXCEPT ![key] = Client, ![k] = NewClient]
      /\ UNCHANGED <<pc, stream, offsetBuff, faults>>
  BY DEF Turn
<1>2. /\ ServerInv' /\ ServerInv /\ CurrentInPlace /\ CurrentWell /\ Windows
      /\ IInv /\ WholeBuff
  BY TurnKeeps DEF ServerWireInv, ServerInv, CurrentWell
<1>3. CurrentInPlace'
  BY <1>1, <1>2, BecomeInPlace DEF ServerWireInv, ServerInv
<1>4. ASSUME NEW j \in Keys PROVE ClientInPlace(parked'[j])
  <2>1. parked'[j] \in {Client, NewClient, parked[j]}
    BY <1>1, <1>2 DEF ServerInv
  <2>2. ClientInPlace(Client) /\ ClientInPlace(NewClient) /\ ClientInPlace(parked[j])
    BY <1>1, <1>2, ClientKept, NewClientInPlace DEF ServerWireInv
  <2>. QED
    BY <2>1, <2>2, Zenon
<1>. QED
  BY <1>2, <1>3, <1>4 DEF ServerWireInv

(* A new client has sent nothing: what it may have inherited of a frame began in
   front of its own connection. *)
LEMMA ReplacedInPlace ==
  ASSUME ServerWireInv, NEW left \in BOOLEAN, Replaced(left) PROVE ServerWireInv'
<1>0. ServerInv' /\ ServerInv /\ CurrentWell' /\ Windows /\ IInv'
  BY ReplacedKeeps DEF ServerWireInv, ServerInv, CurrentWell
<1>1. /\ pc = "idle" /\ Connection(NewClient)
      /\ UNCHANGED <<pc, stream, offsetBuff, key, parked, buff, posBuff>>
  BY DEF Replaced, parserVars
<1>2. /\ net' = <<>> /\ delivered' = <<>> /\ sent' = <<>>
      /\ wire' = <<>> /\ written' = 0 /\ Len(<<>>) = 0
  BY <1>1, EmptySeq DEF Connection, NewClient, written
<1>3. /\ stream' = <<>> /\ buff' = <<>> /\ offsetBuff' = 0 /\ posBuff' = 0
  BY <1>0, <1>1 DEF Windows
<1>4. /\ BeginKnown' /\ FrameStart' = (0 - 0) - posPacket' + 1
  BY <1>0, <1>2, <1>3, BetweenCalls
<1>5. LengthRead(wire, FrameStart, parsFunc, lenghtBuff, lenPayload)'
  <2>. DEFINE n == posPacket'
  <2>1. n \in Nat /\ FrameStart' = (0 - 0) - n + 1
    BY <1>0, <1>4, LenProperties DEF IInv, ParserTypes, posPacket
  <2>. HIDE DEF n
  <2>2. CASE n # 0
    <3>1. ~(FrameStart' >= 1)
      BY <2>1, <2>2
    <3>. QED
      BY <3>1 DEF LengthRead
  <2>3. CASE n = 0
    <3>1. /\ ParserConsistent' /\ posPacket' = 0 /\ lenPayload' \in Nat
          /\ parsFunc' \in {"ScanMID", "DataLength", "Payload"}
      BY <1>0, <2>3 DEF IInv, ParserTypes, n
    <3>2. parsFunc' # "DataLength" /\ parsFunc' # "Payload"
      <4>1. /\ parsFunc' = "DataLength" => n - posPLen \in 0 .. lenPLen - 1
            /\ parsFunc' = "Payload" => n >= posPayload
        BY <3>1 DEF ParserConsistent, n
      <4>. QED
        BY <2>3, <4>1, Lengths
    <3>3. lenghtBuff' = <<>>
      BY <3>1, <3>2 DEF ParserConsistent
    <3>. QED
      BY <3>2, <3>3, NoLengthYet
  <2>. QED
    BY <2>2, <2>3
<1>6. /\ Stands(wire', net', Taken')
      /\ Stands(wire', stream', Taken' - Len(stream'))
      /\ Stands(wire', buff', Windowed' - Len(buff'))
      /\ SentOnWire(sent', wire')
      /\ DeliveredInOrder(sent', delivered', Taken', FrameStart')
  BY <1>2, <1>3, NothingStands, NothingSent
<1>7. ~stale' => FrameIntact'
  <2>1. ~stale' => packetData' = <<>>
    BY DEF Replaced, parserVars
  <2>. QED
    BY <2>1, NothingStands DEF FrameIntact
<1>8. CurrentInPlace'
  BY <1>0, <1>4, <1>5, <1>6, <1>7 DEF CurrentInPlace, InPlace, PlaceInv, CurrentWell
<1>. QED
  BY <1>0, <1>1, <1>8 DEF ServerWireInv

(* The parser of the client whose turn it is goes on: its frame stays intact, or
   it is known to be overwritten. *)
LEMMA CurrentStepInPlace ==
  ASSUME CrcIsBytes, CurrentWell, CurrentInPlace, OnlyPacketsCheck, [Next]_vars,
         stale' = stale
  PROVE  CurrentInPlace'
<1>1. PlaceInv' /\ InPlace'
  BY PlaceStep, StepInPlace DEF CurrentInPlace
<1>2. ASSUME ~stale', ~clobbered'
      PROVE  FrameIntact' /\ DeliveredInOrder(sent, delivered, Taken, FrameStart)'
  <2>1. FrameIntact /\ WireInv
    BY <1>2, HistoryKept DEF CurrentInPlace, CurrentWell, WireInv
  <2>2. DoneIsOnWire
    BY <2>1, IntactOnWire DEF DoneIsOnWire, PacketDone, WireInv
  <2>3. DeliveredInOrder(sent, delivered, Taken, FrameStart)'
    BY <2>1, <2>2, StepInOrder
  <2>4. \A n \in 1 .. Len(net) : Recv(n) => packetData' = packetData
    BY <1>2 DEF Recv
  <2>5. FrameIntact'
    BY <2>1, <2>4, FrameIntactStep DEF WireInv
  <2>. QED
    BY <2>3, <2>5
<1>. QED
  BY <1>1, <1>2 DEF CurrentInPlace

LEMMA ServerWireStep ==
  ASSUME CrcIsBytes, ServerWireInv, OnlyPacketsCheck, [ServerNext]_allVars
  PROVE  ServerWireInv'
<1>0. ServerInv'
  BY ServerStep DEF ServerWireInv
<1>1. CASE ShortWrite \/ ClientStep \/ UNCHANGED allVars
  <2>1. [Next]_vars
    BY <1>1 DEF ShortWrite, ClientStep, Next, OnRecvStep, allVars
  <2>2. UNCHANGED <<key, parked, stale>>
    BY <1>1 DEF ShortWrite, ClientStep, serverPacketVars, allVars
  <2>3. CurrentInPlace'
    BY <2>1, <2>2, CurrentStepInPlace DEF ServerWireInv, ServerInv
  <2>. QED
    BY <1>0, <2>2, <2>3 DEF ServerWireInv
<1>. QED
  BY <1>1, TurnInPlace, ReplacedInPlace DEF ServerNext

(* However many clients a server has, however their turns alternate and whatever
   the others leave in the packet behind, or in the place of, a client's frame: if
   the checksum tells the packets from what else is on a connection, a client that
   did not begin with another's frame is handed only packets sent on its own
   connection, whole, each once and in order, as long as it finds its frames as
   it left them.  Nothing is assumed of what the others' bytes look like. *)
THEOREM OwnPackets ==
  CrcIsBytes => (ServerSpec /\ []OnlyPacketsCheck => []OwnPacketsOnly)
<1>. SUFFICES ASSUME CrcIsBytes
              PROVE  ServerSpec /\ []OnlyPacketsCheck => []OwnPacketsOnly
  OBVIOUS
<1>1. ServerInit => ServerWireInv
  <2>1. Init => FrameIntact
    BY NothingStands DEF Init, FrameIntact
  <2>. QED
    BY <2>1, ServerAtFirst, WireAtFirst, NewClientInPlace
    DEF ServerInit, ServerWireInv, CurrentInPlace, WireInv
<1>2. ServerWireInv /\ OnlyPacketsCheck /\ [ServerNext]_allVars => ServerWireInv'
  BY ServerWireStep
<1>3. ServerWireInv => OwnPacketsOnly
  BY DEF ServerWireInv, CurrentInPlace, OwnPacketsOnly, DeliveredInOrder,
     DeliveredWereSent
<1>. QED
  BY <1>1, <1>2, <1>3, PTL DEF ServerSpec
=============================================================================
