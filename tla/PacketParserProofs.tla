-------------------------- MODULE PacketParserProofs --------------------------
(***************************************************************************)
(* Proofs about PacketParser, for any marker, length of payloads, window,  *)
(* noise and contents of the stack: whatever arrives and however it is cut *)
(* into calls and windows, the members the parser keeps its place in agree *)
(* (IInv).  Without noise, and as long as the frame in progress is intact, *)
(* it is in step with the sender (InSync), and the packets sent are those  *)
(* delivered.  With noise, short writes and overwritten frames, it goes    *)
(* forward on the connection (PlaceInv); it delivers packets of it and     *)
(* nothing else (WireInv), and of a single window all (CallInv), as far as *)
(* the checksum tells packets from what is none.                           *)
(***************************************************************************)
EXTENDS PacketParser, SequenceTheorems, WellFoundedInduction, TLAPS

(* The checksum of bytes is lenCRC bytes. *)
CrcIsBytes == \A p \in Seq(Nat) : Crc(p) \in Seq(Nat) /\ Len(Crc(p)) = lenCRC

(* The types of what the parser works on.  What it delivers is left out: of a
   frame whose first bytes were overwritten it cannot be said what it is. *)
ParserTypes ==
  /\ wire \in Seq(Nat) /\ net \in Seq(Nat)
  /\ stream \in Seq(Nat) /\ buff \in Seq(Nat)
  /\ posBuff \in Nat /\ offsetBuff \in Nat
  /\ parsFunc \in {"ScanMID", "DataLength", "Payload"}
  /\ packetData \in Seq(Nat) /\ residue \in Seq(Nat)
  /\ posBuffBeginPack \in Nat
  /\ lenghtBuff \in Seq(Nat)
  /\ lenPayload \in Nat

IInv == ParserTypes /\ ParserConsistent

-----------------------------------------------------------------------------
(* The window, in every state. *)
Windows ==
  /\ buff = <<>> => posBuff = 0
  /\ offsetBuff <= Len(stream)
  /\ pc = "idle" => stream = <<>> /\ buff = <<>> /\ offsetBuff = 0

(* The packets s, which make w bytes, follow each other without a gap. *)
LastByte(s, i) == IF i = 0 THEN 0 ELSE s[i].last

Numbered(s, w) ==
  /\ s \in Seq([payload : Seq(Nat), first : Nat, last : Nat])
  /\ w = LastByte(s, Len(s))
  /\ \A i \in DOMAIN s :
       /\ Len(s[i].payload) <= MaxPayload
       /\ s[i].first = LastByte(s, i - 1) + 1
       /\ s[i].last = LastByte(s, i - 1) + Len(Create(s[i].payload))
       /\ s[i].last <= w
  /\ \A i, j \in DOMAIN s : i < j => s[i].last < s[j].first

(* The byte of the connection that is the k-th, of the packet m. *)
ByteOf(m, k) == Create(m.payload)[k - m.first + 1]

(* The bytes are those behind the first q of the packets s. *)
Carries(s, bytes, q) ==
  \A j \in DOMAIN bytes : \A i \in DOMAIN s :
    q + j \in s[i].first .. s[i].last
      => bytes[j] = ByteOf(s[i], q + j)

(* Of the packets s those in d have been delivered, and the frame of the next
   one is in progress: its bytes so far, the parser's state and what it knows
   of the length. *)
InFrame(s, d, frame, state, length, len) ==
  LET due == s[Len(d) + 1].payload
  IN  /\ d \in Seq(Seq(Nat)) /\ Len(d) <= Len(s)
      /\ \A i \in DOMAIN d : d[i] = s[i].payload
      /\ \A j \in DOMAIN frame : Len(d) < Len(s) /\ frame[j] = Create(due)[j]
      /\ state = "DataLength" =>
           \A j \in DOMAIN length : length[j] = frame[posPLen + j]
      /\ state = "Payload" => len = Len(due)

(* Without noise, and with the frame in progress intact: the parser has
   delivered the packets it has seen the end of and is in the frame of the next
   one, and what is still to be looked at goes on from there. *)
InSync ==
  /\ Numbered(sent, written)
  /\ Carries(sent, net, Taken)
  /\ Carries(sent, stream, Taken - Len(stream))
  /\ Carries(sent, buff, Windowed - Len(buff))
  /\ posBuff <= Len(buff)
  /\ InFrame(sent, delivered, packetData, parsFunc, lenghtBuff, lenPayload)
  /\ Seen = LastByte(sent, Len(delivered)) + posPacket

DInv ==
  /\ IInv /\ Windows /\ noises \in Nat
  /\ noises = 0 /\ ~clobbered => InSync

-----------------------------------------------------------------------------
(* Lengths. *)

LEMMA Lengths ==
  /\ lenMID \in Nat \ {0} /\ MaxPayload \in Nat
  /\ posPLen = lenMID /\ posPayload = lenMID + 2
  /\ lenPLen = 2 /\ lenCRC \in Nat \ {0}
  /\ lenMaxBuffer \in Nat
<1>1. Len(MID) \in Nat \ {0}
  BY FrameAssumption, EmptySeq
<1>. QED
  BY <1>1, FrameAssumption
     DEF lenMID, lenPLen, posPLen, posPayload, lenMaxBuffer, lenOverhead

LEMMA ProductInNat == ASSUME NEW x \in Nat, NEW y \in Nat PROVE x * y \in Nat
  OBVIOUS

LEMMA Digits ==
  ASSUME NEW n \in Nat
  PROVE  n % Base \in Nat /\ n \div Base \in Nat
<1>1. Base \in Nat /\ Base > 0
  BY FrameAssumption
<1>. QED
  BY <1>1

LEMMA Decoded ==
  ASSUME NEW f \in Seq(Nat), Len(f) = 2 PROVE DecodeLen(f) \in Nat
<1>1. f[1] \in Nat /\ f[2] \in Nat
  <2>1. 1 \in 1 .. Len(f) /\ 2 \in 1 .. Len(f)
    OBVIOUS
  <2>. QED
    BY <2>1, ElementOfSeq, Zenon
<1>2. Base * f[2] \in Nat
  BY <1>1, ProductInNat, FrameAssumption
<1>. QED
  BY <1>1, <1>2 DEF DecodeLen

LEMMA Slice ==
  ASSUME NEW S, NEW s \in Seq(S), NEW a \in Nat \ {0}, NEW b \in Nat, b =< Len(s)
  PROVE  SubSeq(s, a, b) \in Seq(S)
<1>1. \A i \in a .. b : s[i] \in S
  BY ElementOfSeq
<1>. QED
  BY <1>1, SubSeqProperties

(* A frame is a sequence of bytes. *)
LEMMA FrameType ==
  ASSUME CrcIsBytes, NEW p \in Seq(Nat) PROVE Create(p) \in Seq(Nat)
<1>1. Len(p) \in Nat
  BY LenProperties
<1>2. EncodeLen(Len(p)) \in Seq(Nat)
  BY <1>1, Digits DEF EncodeLen
<1>3. Crc(p) \in Seq(Nat)
  BY DEF CrcIsBytes
<1>4. MID \o EncodeLen(Len(p)) \in Seq(Nat)
  BY <1>2, FrameAssumption, ConcatProperties
<1>5. MID \o EncodeLen(Len(p)) \o p \in Seq(Nat)
  BY <1>4, ConcatProperties
<1>6. MID \o EncodeLen(Len(p)) \o p \o Crc(p) \in Seq(Nat)
  BY <1>3, <1>5, ConcatProperties
<1>. QED
  BY <1>6 DEF Create

-----------------------------------------------------------------------------
(* Frames. *)

LEMMA Joined ==
  ASSUME NEW s \in Seq(Nat), NEW t \in Seq(Nat)
  PROVE  /\ s \o t \in Seq(Nat) /\ Len(s \o t) = Len(s) + Len(t)
         /\ \A i \in 1 .. Len(s) : (s \o t)[i] = s[i]
         /\ \A i \in 1 .. Len(t) : (s \o t)[Len(s) + i] = t[i]
<1>1. Len(s) \in Nat /\ Len(t) \in Nat
  BY LenProperties
<1>2. /\ s \o t \in Seq(Nat) /\ Len(s \o t) = Len(s) + Len(t)
      /\ \A i \in 1 .. Len(s) + Len(t) :
           (s \o t)[i] = IF i <= Len(s) THEN s[i] ELSE t[i - Len(s)]
  BY ConcatProperties, Zenon
<1>. QED
  BY <1>1, <1>2

LEMMA CutOut ==
  ASSUME NEW s \in Seq(Nat), NEW a \in Nat, NEW b \in Nat, a <= b, b <= Len(s)
  PROVE  /\ SubSeq(s, a + 1, b) \in Seq(Nat) /\ Len(SubSeq(s, a + 1, b)) = b - a
         /\ \A i \in 1 .. b - a : SubSeq(s, a + 1, b)[i] = s[a + i]
<1>1. Len(s) \in Nat
  BY LenProperties
<1>2. \A i \in a + 1 .. b : s[i] \in Nat
  BY <1>1, ElementOfSeq
<1>3. /\ SubSeq(s, a + 1, b) \in Seq(Nat)
      /\ Len(SubSeq(s, a + 1, b)) = IF a + 1 <= b THEN b - (a + 1) + 1 ELSE 0
      /\ \A i \in 1 .. b - (a + 1) + 1 : SubSeq(s, a + 1, b)[i] = s[a + 1 + i - 1]
  <2>1. a + 1 \in Int /\ b \in Int
    OBVIOUS
  <2>. QED
    BY <1>2, <2>1, SubSeqProperties
<1>. QED
  BY <1>1, <1>3

LEMMA FrameShape ==
  ASSUME CrcIsBytes, NEW p \in Seq(Nat), Len(p) <= MaxPayload
  PROVE  /\ Create(p) \in Seq(Nat) /\ Len(p) \in Nat
         /\ Len(Create(p)) = posPayload + Len(p) + lenCRC
         /\ \A j \in 1 .. lenMID : Create(p)[j] = MID[j]
         /\ Create(p)[posPLen + 1] = Len(p) % Base
         /\ Create(p)[posPLen + 2] = Len(p) \div Base
         /\ \A j \in 1 .. Len(p) : Create(p)[posPayload + j] = p[j]
         /\ \A j \in 1 .. lenCRC : Create(p)[posPayload + Len(p) + j] = Crc(p)[j]
         /\ Crc(p) \in Seq(Nat) /\ Len(Crc(p)) = lenCRC
<1>. DEFINE l == EncodeLen(Len(p))
            c == Crc(p)
            h == MID \o l
            b == h \o p
            f == b \o c
<1>1. /\ Len(p) \in Nat /\ MID \in Seq(Nat) /\ Len(MID) \in Nat
      /\ lenMID = Len(MID) /\ posPLen = Len(MID)
      /\ posPayload = Len(MID) + 2 /\ lenCRC \in Nat \ {0}
  BY Lengths, FrameAssumption, LenProperties DEF lenMID
<1>2. /\ l \in Seq(Nat) /\ Len(l) = 2
      /\ l[1] = Len(p) % Base /\ l[2] = Len(p) \div Base
  BY <1>1, Digits DEF EncodeLen
<1>3. c \in Seq(Nat) /\ Len(c) = lenCRC /\ c = Crc(p)
  BY DEF CrcIsBytes
<1>4. Create(p) = f
  BY <1>1, Lengths DEF Create
<1>. HIDE DEF l, c
<1>5. /\ h \in Seq(Nat) /\ Len(h) = Len(MID) + 2
      /\ \A j \in 1 .. Len(MID) : h[j] = MID[j]
      /\ h[Len(MID) + 1] = l[1] /\ h[Len(MID) + 2] = l[2]
  <2>1. /\ h \in Seq(Nat) /\ Len(h) = Len(MID) + Len(l)
        /\ \A j \in 1 .. Len(MID) : h[j] = MID[j]
        /\ \A j \in 1 .. Len(l) : h[Len(MID) + j] = l[j]
    BY <1>1, <1>2, Joined, Zenon
  <2>. QED
    BY <1>2, <2>1
<1>. HIDE DEF h
<1>6. /\ b \in Seq(Nat) /\ Len(b) = Len(h) + Len(p)
      /\ \A j \in 1 .. Len(h) : b[j] = h[j]
      /\ \A j \in 1 .. Len(p) : b[Len(h) + j] = p[j]
  BY <1>5, Joined, Zenon
<1>. HIDE DEF b
<1>7. /\ f \in Seq(Nat) /\ Len(f) = Len(b) + Len(c)
      /\ \A j \in 1 .. Len(b) : f[j] = b[j]
      /\ \A j \in 1 .. Len(c) : f[Len(b) + j] = c[j]
  BY <1>3, <1>6, Joined, Zenon
<1>. HIDE DEF f
<1>8. Len(f) = Len(MID) + 2 + Len(p) + lenCRC
  BY <1>1, <1>3, <1>5, <1>6, <1>7
<1>9. ASSUME NEW j \in 1 .. Len(MID) + 2 PROVE f[j] = h[j]
  <2>1. j \in 1 .. Len(h) /\ j \in 1 .. Len(b)
    BY <1>1, <1>5, <1>6
  <2>. QED
    BY <1>6, <1>7, <2>1, Zenon
<1>10. /\ \A j \in 1 .. Len(MID) : f[j] = MID[j]
       /\ f[Len(MID) + 1] = l[1] /\ f[Len(MID) + 2] = l[2]
  <2>1. ASSUME NEW j \in 1 .. Len(MID) PROVE f[j] = MID[j]
    <3>1. j \in 1 .. Len(MID) + 2
      BY <1>1
    <3>. QED
      BY <1>5, <1>9, <3>1, Zenon
  <2>2. Len(MID) + 1 \in 1 .. Len(MID) + 2 /\ Len(MID) + 2 \in 1 .. Len(MID) + 2
    BY <1>1
  <2>. QED
    BY <1>5, <1>9, <2>1, <2>2, Zenon
<1>11. \A j \in 1 .. Len(p) : f[Len(MID) + 2 + j] = p[j]
  <2>1. ASSUME NEW j \in 1 .. Len(p) PROVE f[Len(h) + j] = p[j]
    <3>1. Len(h) + j \in 1 .. Len(b)
      <4>1. /\ Len(h) \in Nat /\ Len(p) \in Nat /\ Len(b) = Len(h) + Len(p)
        BY <1>1, <1>5, <1>6, LenProperties, Zenon
      <4>. QED
        BY <4>1
    <3>. QED
      BY <1>6, <1>7, <3>1, Zenon
  <2>. QED
    BY <1>5, <2>1
<1>12. \A j \in 1 .. lenCRC : f[Len(MID) + 2 + Len(p) + j] = c[j]
  <2>1. Len(b) = Len(MID) + 2 + Len(p)
    BY <1>1, <1>5, <1>6
  <2>. QED
    BY <1>3, <1>7, <2>1
<1>. QED
  BY <1>1, <1>2, <1>3, <1>4, <1>7, <1>8, <1>10, <1>11, <1>12

(* The length field says what was put into it. *)
LEMMA DecodeEncode ==
  ASSUME NEW n \in Nat PROVE (n % Base) + Base * (n \div Base) = n
  BY FrameAssumption

(* The part of a sequence whose bytes are those of another. *)
LEMMA SliceIs ==
  ASSUME NEW s \in Seq(Nat), NEW a \in Nat, NEW b \in Nat, a <= b, b <= Len(s),
         NEW t \in Seq(Nat), Len(t) = b - a, \A j \in 1 .. Len(t) : s[a + j] = t[j]
  PROVE  SubSeq(s, a + 1, b) = t
<1>. DEFINE c == SubSeq(s, a + 1, b)
<1>1. /\ c \in Seq(Nat) /\ Len(c) = b - a
      /\ \A j \in 1 .. b - a : c[j] = s[a + j]
  BY CutOut
<1>. HIDE DEF c
<1>2. Len(c) = Len(t) /\ \A j \in 1 .. Len(c) : c[j] = t[j]
  BY <1>1
<1>. QED
  BY <1>1, <1>2, SeqEqual, Zenon DEF c

(* Create and Check agree: a frame checks, and carries what was put into it. *)
THEOREM FrameChecks ==
  ASSUME CrcIsBytes, NEW p \in Seq(Nat), Len(p) <= MaxPayload
  PROVE  /\ Check(Create(p)) /\ Payload(Create(p)) = p
         /\ PayloadLen(Create(p)) = Len(p)
<1>. DEFINE f == Create(p)
            e == posPayload + Len(p)
<1>1. /\ f \in Seq(Nat) /\ Len(p) \in Nat
      /\ Len(f) = posPayload + Len(p) + lenCRC
      /\ \A j \in 1 .. lenMID : f[j] = MID[j]
      /\ f[posPLen + 1] = Len(p) % Base
      /\ f[posPLen + 2] = Len(p) \div Base
      /\ \A j \in 1 .. Len(p) : f[posPayload + j] = p[j]
      /\ \A j \in 1 .. lenCRC : f[posPayload + Len(p) + j] = Crc(p)[j]
      /\ Crc(p) \in Seq(Nat) /\ Len(Crc(p)) = lenCRC
  BY FrameShape
<1>2. /\ MID \in Seq(Nat) /\ Len(MID) = lenMID /\ lenMID \in Nat
      /\ posPLen \in Nat /\ posPayload \in Nat /\ lenCRC \in Nat
      /\ posPayload = posPLen + 2 /\ lenPLen = 2 /\ posPLen = lenMID
  BY Lengths, FrameAssumption DEF lenMID
<1>. HIDE DEF f
<1>3. SubSeq(f, 1, lenMID) = MID
  <2>1. SubSeq(f, 0 + 1, lenMID) = MID
    BY <1>1, <1>2, SliceIs
  <2>2. 0 + 1 = 1
    OBVIOUS
  <2>. QED
    BY <2>1, <2>2, Zenon
<1>4. PayloadLen(f) = Len(p)
  <2>. DEFINE l == SubSeq(f, posPLen + 1, posPLen + 2)
  <2>1. Len(l) = 2 /\ l[1] = f[posPLen + 1] /\ l[2] = f[posPLen + 2]
    BY <1>1, <1>2, SubSeqProperties, ElementOfSeq
  <2>2. PayloadLen(f) = DecodeLen(l)
    BY <1>2 DEF PayloadLen
  <2>3. DecodeLen(l) = l[1] + Base * l[2]
    BY DEF DecodeLen
  <2>. HIDE DEF l
  <2>. QED
    BY <1>1, <2>1, <2>2, <2>3, DecodeEncode
<1>5. /\ e \in Nat /\ e + lenCRC \in Nat /\ e + lenCRC = Len(f)
      /\ posPayload <= e /\ e <= Len(f) /\ e - posPayload = Len(p)
      /\ e + lenCRC - e = lenCRC /\ e <= e + lenCRC
  BY <1>1, <1>2
<1>6. SubSeq(f, posPayload + 1, e) = p
  <2>1. /\ f \in Seq(Nat) /\ posPayload \in Nat /\ e \in Nat
        /\ posPayload <= e /\ e <= Len(f) /\ Len(p) = e - posPayload
        /\ \A j \in 1 .. Len(p) : f[posPayload + j] = p[j]
    BY <1>1, <1>2, <1>5
  <2>. HIDE DEF e
  <2>. QED
    BY <2>1, SliceIs, Zenon
<1>7. SubSeq(f, e + 1, e + lenCRC) = Crc(p)
  <2>. DEFINE c == Crc(p)
  <2>1. \A j \in 1 .. Len(c) : f[e + j] = c[j]
    BY <1>1
  <2>2. c \in Seq(Nat) /\ Len(c) = e + lenCRC - e /\ f \in Seq(Nat)
    BY <1>1, <1>5
  <2>. HIDE DEF c, e
  <2>3. SubSeq(f, e + 1, e + lenCRC) = c
    BY <1>5, <2>1, <2>2, SliceIs
  <2>. QED
    BY <2>3 DEF c
<1>8. Check(f)
  BY <1>3, <1>4, <1>6, <1>7 DEF Check
<1>. QED
  BY <1>4, <1>6, <1>8 DEF f, Payload

(* Of a packet, the length, the checksum and what it carries are known from the
   frame it begins with, however much lies behind it. *)
LEMMA FrontOf ==
  ASSUME NEW p \in Seq(Nat), NEW q \in Seq(Nat), NEW a \in Nat, NEW b \in Nat,
         a <= b, b <= Len(p)
  PROVE  SubSeq(p \o q, a + 1, b) = SubSeq(p, a + 1, b)
<1>. DEFINE t == SubSeq(p, a + 1, b)
<1>1. /\ t \in Seq(Nat) /\ Len(t) = b - a
      /\ \A j \in 1 .. b - a : t[j] = p[a + j]
  BY CutOut
<1>2. /\ p \o q \in Seq(Nat) /\ Len(p \o q) = Len(p) + Len(q)
      /\ \A j \in 1 .. Len(p) : (p \o q)[j] = p[j]
  BY Joined, Zenon
<1>3. Len(p) \in Nat /\ Len(q) \in Nat
  BY LenProperties
<1>. HIDE DEF t
<1>4. \A j \in 1 .. Len(t) : (p \o q)[a + j] = t[j]
  BY <1>1, <1>2, <1>3
<1>5. b <= Len(p \o q)
  BY <1>2, <1>3
<1>6. SubSeq(p \o q, a + 1, b) = t
  BY <1>1, <1>2, <1>4, <1>5, SliceIs
<1>. QED
  BY <1>6 DEF t

LEMMA SaidLength ==
  ASSUME NEW p \in Seq(Nat), NEW q \in Seq(Nat), posPayload <= Len(p)
  PROVE  PayloadLen(p \o q) = PayloadLen(p) /\ PayloadLen(p) \in Nat
<1>1. /\ posPLen \in Nat /\ posPayload \in Nat
      /\ posPayload = posPLen + 2 /\ lenPLen = 2
  BY Lengths
<1>2. SubSeq(p \o q, posPLen + 1, posPayload) = SubSeq(p, posPLen + 1, posPayload)
  BY <1>1, FrontOf
<1>3. /\ SubSeq(p, posPLen + 1, posPayload) \in Seq(Nat)
      /\ Len(SubSeq(p, posPLen + 1, posPayload)) = 2
  BY <1>1, CutOut
<1>. QED
  BY <1>1, <1>2, <1>3, Decoded DEF PayloadLen

LEMMA CheckFront ==
  ASSUME NEW p \in Seq(Nat), NEW q \in Seq(Nat), posPayload <= Len(p),
         Len(p) = posPayload + PayloadLen(p) + lenCRC
  PROVE  Check(p \o q) = Check(p) /\ Payload(p \o q) = Payload(p)
<1>. DEFINE n == PayloadLen(p)
            e == posPayload + n
<1>1. PayloadLen(p \o q) = n /\ n \in Nat
  BY SaidLength
<1>. HIDE DEF n
<1>2. /\ lenMID \in Nat /\ posPayload \in Nat /\ e \in Nat /\ e + lenCRC \in Nat
      /\ lenMID <= Len(p) /\ posPayload <= e /\ e <= Len(p)
      /\ e <= e + lenCRC /\ e + lenCRC <= Len(p)
  BY <1>1, Lengths DEF n
<1>. HIDE DEF e
<1>3. SubSeq(p \o q, 1, lenMID) = SubSeq(p, 1, lenMID)
  <2>1. SubSeq(p \o q, 0 + 1, lenMID) = SubSeq(p, 0 + 1, lenMID)
    BY <1>2, FrontOf
  <2>2. 0 + 1 = 1
    OBVIOUS
  <2>. QED
    BY <2>1, <2>2, Zenon
<1>4. SubSeq(p \o q, posPayload + 1, e) = SubSeq(p, posPayload + 1, e)
  BY <1>2, FrontOf
<1>5. SubSeq(p \o q, e + 1, e + lenCRC) = SubSeq(p, e + 1, e + lenCRC)
  BY <1>2, FrontOf
<1>6. Check(p \o q) = Check(p)
  BY <1>1, <1>3, <1>4, <1>5, Zenon DEF Check, e, n
<1>. QED
  BY <1>1, <1>4, <1>6, Zenon DEF Payload, e, n

-----------------------------------------------------------------------------
LEMMA InitHolds == Init => IInv
<1>. SUFFICES ASSUME Init PROVE IInv
  OBVIOUS
<1>. USE DEF Init
<1>1. <<>> \in Seq(Nat) /\ Len(<<>>) = 0
  BY EmptySeq
<1>2. residue \in Seq(Nat)
  <2>1. BuffSize \in Nat
    BY Lengths, FrameAssumption DEF BuffSize
  <2>. QED
    BY <2>1, ParserAssumption
<1>3. ParserTypes
  BY <1>1, <1>2 DEF ParserTypes
<1>4. ParserConsistent
  BY Lengths DEF ParserConsistent, posPacket
<1>. QED
  BY <1>3, <1>4 DEF IInv

(* The sender: only the network and the history change. *)
LEMMA TransmitKeeps ==
  ASSUME IInv, NEW bytes \in Seq(Nat), Transmit(bytes) PROVE IInv'
<1>1. ParserTypes /\ ParserConsistent
  BY DEF IInv
<1>2. net \o bytes \in Seq(Nat)
  BY <1>1, ConcatProperties DEF ParserTypes
<1>3. ParserTypes'
  BY <1>1, <1>2 DEF ParserTypes, Transmit, parserVars
<1>4. ParserConsistent'
  BY <1>1 DEF ParserConsistent, Transmit, parserVars, posPacket
<1>. QED
  BY <1>3, <1>4 DEF IInv

LEMMA SenderKeeps ==
  ASSUME IInv, CrcIsBytes,
         \/ \E p \in Payloads : SendPacket(p) \/ SendShort(p)
         \/ \E bytes \in Noise : SendNoise(bytes)
  PROVE  IInv'
<1>1. ASSUME NEW p \in Payloads PROVE p \in Seq(Nat) /\ Create(p) \in Seq(Nat)
  BY FrameType, ParserAssumption
<1>2. ASSUME NEW p \in Payloads, SendPacket(p) PROVE IInv'
  BY <1>1, <1>2, TransmitKeeps DEF SendPacket
<1>3. ASSUME NEW p \in Payloads, SendShort(p) PROVE IInv'
  <2>1. Create(p) \in Seq(Nat) /\ Len(Create(p)) \in Nat
    BY <1>1, LenProperties
  <2>2. PICK k \in 1 .. Len(Create(p)) - 1 : Transmit(SubSeq(Create(p), 1, k))
    BY <1>3 DEF SendShort
  <2>3. SubSeq(Create(p), 1, k) \in Seq(Nat)
    BY <2>1, Slice
  <2>. QED
    BY <2>2, <2>3, TransmitKeeps
<1>4. ASSUME NEW bytes \in Noise, SendNoise(bytes) PROVE IInv'
  BY <1>4, ParserAssumption, TransmitKeeps DEF SendNoise
<1>. QED
  BY <1>2, <1>3, <1>4

-----------------------------------------------------------------------------
(* OnRecv begins: the frame in progress keeps its length, if nothing else. *)
LEMMA RecvKeeps == ASSUME IInv, NEW n \in 1 .. Len(net), Recv(n) PROVE IInv'
<1>1. ParserTypes /\ ParserConsistent
  BY DEF IInv
<1>2. Len(net) \in Nat /\ net \in Seq(Nat)
  BY <1>1, LenProperties DEF ParserTypes
<1>3. stream' \in Seq(Nat) /\ net' \in Seq(Nat)
  <2>1. /\ 1 \in Nat \ {0} /\ n + 1 \in Nat \ {0}
        /\ n \in Nat /\ n =< Len(net) /\ Len(net) =< Len(net)
    BY <1>2
  <2>2. SubSeq(net, 1, n) \in Seq(Nat) /\ SubSeq(net, n + 1, Len(net)) \in Seq(Nat)
    BY <1>2, <2>1, Slice, Zenon
  <2>. QED
    BY <2>2 DEF Recv
<1>4. packetData' \in Seq(Nat) /\ Len(packetData') = Len(packetData)
  <2>1. packetData \in Seq(Nat)
    BY <1>1 DEF ParserTypes
  <2>2. Len(packetData) \in Nat /\ DOMAIN packetData = 1 .. Len(packetData)
    BY <2>1, LenProperties
  <2>3. [i \in 1 .. Len(packetData) |-> Garbage] \in Seq(Nat)
    BY <2>2, ParserAssumption
  <2>4. Len([i \in 1 .. Len(packetData) |-> Garbage]) = Len(packetData)
    BY <2>2
  <2>. QED
    BY <2>1, <2>2, <2>3, <2>4 DEF Recv
<1>5. residue' \in Seq(Nat)
  <2>1. residue \in Seq(Nat) /\ DOMAIN residue = 1 .. Len(residue) /\ Len(residue) \in Nat
    BY <1>1, LenProperties DEF ParserTypes
  <2>2. [i \in 1 .. Len(residue) |-> Garbage] \in Seq(Nat)
    BY <2>1, ParserAssumption
  <2>. QED
    BY <2>1, <2>2 DEF Recv
<1>6. ParserTypes'
  BY <1>1, <1>3, <1>4, <1>5 DEF ParserTypes, Recv, senderVars
<1>7. ParserConsistent'
  BY <1>1, <1>4 DEF ParserConsistent, posPacket, Recv
<1>. QED
  BY <1>6, <1>7 DEF IInv

-----------------------------------------------------------------------------
(* The window, and the end of OnRecv. *)
LEMMA WindowKeeps == ASSUME IInv, ReadWindow \/ OnRecvEnd PROVE IInv'
<1>. USE DEF ReadWindow, OnRecvEnd, parserVars, senderVars
<1>1. ParserTypes /\ ParserConsistent
  BY DEF IInv
<1>2. stream \in Seq(Nat) /\ Len(stream) \in Nat
  BY <1>1, LenProperties DEF ParserTypes
<1>3. ParserConsistent'
  BY <1>1 DEF ParserConsistent, posPacket
<1>4. CASE ReadWindow
  <2>. USE <1>4
  <2>1. buff' \in Seq(Nat) /\ offsetBuff' \in Nat
    <3>. DEFINE end == IF offsetBuff + MaxBuffLen < Len(stream)
                       THEN offsetBuff + MaxBuffLen ELSE Len(stream)
    <3>1. offsetBuff \in Nat /\ end \in Nat /\ end =< Len(stream)
      BY <1>1, <1>2, ParserAssumption DEF ParserTypes
    <3>2. SubSeq(stream, offsetBuff + 1, end) \in Seq(Nat)
      BY <1>2, <3>1, Slice, SMTT(30)
    <3>. QED
      BY <3>1, <3>2
  <2>2. ParserTypes'
    BY <1>1, <2>1 DEF ParserTypes
  <2>. QED
    BY <1>3, <2>2 DEF IInv
<1>5. CASE OnRecvEnd
  <2>1. ParserTypes'
    BY <1>1, <1>5, EmptySeq DEF ParserTypes
  <2>. QED
    BY <1>3, <2>1 DEF IInv
<1>. QED
  BY <1>4, <1>5

-----------------------------------------------------------------------------
(* One iteration of the parsing loop. *)

(* What is common to all of them. *)
LEMMA Looking ==
  ASSUME IInv, HasByte
  PROVE  /\ by \in Nat /\ packetData \in Seq(Nat) /\ posPacket \in Nat
         /\ assembled \in Seq(Nat) /\ Len(assembled) = posPacket + 1
         /\ buff \in Seq(Nat) /\ posBuff \in Nat
         /\ behind \in Seq(Nat) /\ packet \in Seq(Nat)
<1>1. /\ buff \in Seq(Nat) /\ Len(buff) \in Nat /\ posBuff \in Nat
      /\ packetData \in Seq(Nat) /\ posPacket \in Nat
      /\ residue \in Seq(Nat) /\ Len(residue) \in Nat
  BY LenProperties DEF IInv, ParserTypes, posPacket
<1>2. by \in Nat
  BY <1>1, ElementOfSeq DEF HasByte, by
<1>3. behind \in Seq(Nat)
  BY <1>1, Slice DEF behind
<1>4. assembled \in Seq(Nat) /\ Len(assembled) = posPacket + 1
  BY <1>1, <1>2, AppendProperties DEF assembled, posPacket
<1>5. packet \in Seq(Nat)
  BY <1>3, <1>4, ConcatProperties, Zenon DEF packet
<1>. QED
  BY <1>1, <1>2, <1>3, <1>4, <1>5

LEMMA StepToType ==
  ASSUME buff \in Seq(Nat), NEW p \in Nat, StepTo(p)
  PROVE  buff' \in Seq(Nat) /\ posBuff' \in Nat
<1>1. CASE p = Len(buff)
  <2>1. posBuff' = 0 /\ buff' = <<>>
    BY <1>1 DEF StepTo
  <2>2. <<>> \in Seq(Nat)
    BY EmptySeq
  <2>. QED
    BY <2>1, <2>2
<1>2. CASE p # Len(buff)
  BY <1>2 DEF StepTo
<1>. QED
  BY <1>1, <1>2

(* The byte belongs to the frame, or the parser starts over: the types of what
   changes, and the length of the frame. *)
LEMMA Accepted ==
  ASSUME IInv, HasByte, NEW state \in {"ScanMID", "DataLength", "Payload"},
         Accept(state)
  PROVE  /\ packetData' \in Seq(Nat) /\ posPacket' = posPacket + 1
         /\ parsFunc' = state /\ buff' \in Seq(Nat) /\ posBuff' \in Nat
         /\ residue' \in Seq(Nat)
  BY Looking, StepToType DEF Accept, posPacket

LEMMA StartedOver ==
  ASSUME IInv, HasByte, posBuffBeginPack' \in Nat, StartOver
  PROVE  /\ packetData' \in Seq(Nat) /\ posPacket' = 0
         /\ parsFunc' = "ScanMID" /\ buff' \in Seq(Nat) /\ posBuff' \in Nat
         /\ residue' \in Seq(Nat)
  BY Looking, StepToType, EmptySeq DEF StartOver, Restart, posPacket

(* A step of the parser keeps the types if it keeps those of what it changes. *)
LEMMA ByteTypes ==
  ASSUME IInv, Elsewhere,
         packetData' \in Seq(Nat), residue' \in Seq(Nat),
         buff' \in Seq(Nat), posBuff' \in Nat,
         parsFunc' \in {"ScanMID", "DataLength", "Payload"},
         posBuffBeginPack' \in Nat, lenghtBuff' \in Seq(Nat),
         lenPayload' \in Nat,
         ParserConsistent'
  PROVE  IInv'
<1>1. ParserTypes'
  BY DEF IInv, ParserTypes, Elsewhere, senderVars
<1>. QED
  BY <1>1 DEF IInv

LEMMA ScanMIDKeeps == ASSUME IInv, ScanMID PROVE IInv'
<1>1. ParserTypes /\ ParserConsistent
  BY DEF IInv
<1>2. /\ HasByte /\ Elsewhere /\ lenghtBuff' = lenghtBuff
      /\ lenPayload' = lenPayload
      /\ posPacket < lenMID /\ lenghtBuff = <<>> /\ posPacket \in Nat
  BY <1>1, Looking DEF ScanMID, ParserConsistent
<1>3. posBuffBeginPack' \in Nat
  BY <1>1 DEF ScanMID, ParserTypes
<1>4. CASE Accept(IF posPacket + 1 = lenMID THEN "DataLength" ELSE "ScanMID")
  <2>1. /\ packetData' \in Seq(Nat) /\ posPacket' = posPacket + 1
        /\ parsFunc' = (IF posPacket + 1 = lenMID THEN "DataLength" ELSE "ScanMID")
        /\ buff' \in Seq(Nat) /\ posBuff' \in Nat
        /\ residue' \in Seq(Nat)
    BY <1>2, <1>4, Accepted
  <2>2. ParserConsistent'
    BY <1>2, <2>1, Lengths, EmptySeq DEF ParserConsistent
  <2>. QED
    BY <1>1, <1>2, <1>3, <2>1, <2>2, ByteTypes DEF ParserTypes
<1>5. CASE StartOver
  <2>1. /\ packetData' \in Seq(Nat) /\ posPacket' = 0
        /\ parsFunc' = "ScanMID" /\ buff' \in Seq(Nat) /\ posBuff' \in Nat
        /\ residue' \in Seq(Nat)
    BY <1>2, <1>3, <1>5, StartedOver
  <2>2. ParserConsistent'
    BY <1>2, <2>1, Lengths DEF ParserConsistent
  <2>. QED
    BY <1>1, <1>2, <1>3, <2>1, <2>2, ByteTypes DEF ParserTypes
<1>. QED
  BY <1>4, <1>5 DEF ScanMID

LEMMA LengthByteKeeps == ASSUME IInv, LengthByte PROVE IInv'
<1>1. ParserTypes /\ ParserConsistent
  BY DEF IInv
<1>2. /\ HasByte /\ Elsewhere /\ lenghtBuff' = Append(lenghtBuff, by)
      /\ lenPayload' = lenPayload
      /\ posBuffBeginPack' = posBuffBeginPack
      /\ posPacket < posPayload - 1 /\ posPacket \in Nat /\ by \in Nat
      /\ posPacket - posPLen \in 0 .. lenPLen - 1
      /\ Len(lenghtBuff) = posPacket - posPLen
  BY <1>1, Looking DEF LengthByte, ParserConsistent
<1>3. /\ packetData' \in Seq(Nat) /\ posPacket' = posPacket + 1
      /\ parsFunc' = "DataLength" /\ buff' \in Seq(Nat) /\ posBuff' \in Nat
      /\ residue' \in Seq(Nat)
  BY <1>2, Accepted DEF LengthByte
<1>4. lenghtBuff' \in Seq(Nat) /\ Len(lenghtBuff') = Len(lenghtBuff) + 1
  BY <1>1, <1>2, AppendProperties DEF ParserTypes
<1>5. ParserConsistent'
  BY <1>2, <1>3, <1>4, Lengths DEF ParserConsistent, posPLen, posPayload, lenPLen,
     lenMaxBuffer, lenOverhead
<1>. QED
  BY <1>1, <1>2, <1>3, <1>4, <1>5, ByteTypes DEF ParserTypes

LEMMA LengthDoneKeeps == ASSUME IInv, LengthDone PROVE IInv'
<1>1. ParserTypes /\ ParserConsistent
  BY DEF IInv
<1>2. /\ HasByte /\ Elsewhere /\ lenghtBuff' = <<>>
      /\ lenPayload' = DecodeLen(Append(lenghtBuff, by))
      /\ posBuffBeginPack' = posBuffBeginPack
      /\ posPacket = posPayload - 1 /\ posPacket \in Nat /\ by \in Nat
      /\ posBuffBeginPack \in Nat
  BY <1>1, Looking DEF LengthDone, ParserTypes
<1>3. Len(lenghtBuff) = posPacket - posPLen
  BY <1>1 DEF LengthDone, ParserConsistent
<1>4. Append(lenghtBuff, by) \in Seq(Nat) /\ Len(Append(lenghtBuff, by)) = 2
  <2>1. lenghtBuff \in Seq(Nat) /\ by \in Nat
    BY <1>1, <1>2 DEF ParserTypes
  <2>2. /\ Append(lenghtBuff, by) \in Seq(Nat)
        /\ Len(Append(lenghtBuff, by)) = Len(lenghtBuff) + 1
    BY <2>1, AppendProperties
  <2>3. Len(lenghtBuff) = 1
    BY <1>2, <1>3, Lengths
  <2>. QED
    BY <2>2, <2>3
<1>5. lenPayload' \in Nat
  BY <1>2, <1>4, Decoded
<1>6. lenghtBuff' \in Seq(Nat)
  BY <1>2, EmptySeq
<1>7. CASE lenPayload' > lenMaxBuffer
  <2>1. /\ packetData' \in Seq(Nat) /\ posPacket' = 0
        /\ parsFunc' = "ScanMID" /\ buff' \in Seq(Nat) /\ posBuff' \in Nat
        /\ residue' \in Seq(Nat)
    BY <1>2, <1>7, StartedOver DEF LengthDone
  <2>2. ParserConsistent'
    BY <1>2, <2>1, Lengths DEF ParserConsistent
  <2>. QED
    BY <1>1, <1>2, <1>5, <1>6, <2>1, <2>2, ByteTypes DEF ParserTypes
<1>8. CASE ~(lenPayload' > lenMaxBuffer)
  <2>1. /\ packetData' \in Seq(Nat) /\ posPacket' = posPacket + 1
        /\ parsFunc' = "Payload" /\ buff' \in Seq(Nat) /\ posBuff' \in Nat
        /\ residue' \in Seq(Nat)
    BY <1>2, <1>8, Accepted DEF LengthDone
  <2>2. ParserConsistent'
    BY <1>2, <1>5, <1>8, <2>1, Lengths DEF ParserConsistent, posPayload, posPLen,
       lenPLen, lenMaxBuffer, lenOverhead
  <2>. QED
    BY <1>1, <1>2, <1>5, <1>6, <2>1, <2>2, ByteTypes DEF ParserTypes
<1>. QED
  BY <1>7, <1>8

LEMMA PayloadByteKeeps == ASSUME IInv, PayloadByte PROVE IInv'
<1>1. ParserTypes /\ ParserConsistent
  BY DEF IInv
<1>2. /\ HasByte /\ Elsewhere /\ lenghtBuff' = lenghtBuff
      /\ lenPayload' = lenPayload
      /\ posBuffBeginPack' = posBuffBeginPack
      /\ posPacket < posPayload + lenPayload + lenCRC - 1
      /\ posPacket \in Nat /\ lenPayload \in Nat
      /\ lenPayload <= lenMaxBuffer /\ posPacket >= posPayload
      /\ lenghtBuff = <<>>
  BY <1>1, Looking DEF PayloadByte, ParserConsistent, ParserTypes
<1>3. /\ packetData' \in Seq(Nat) /\ posPacket' = posPacket + 1
      /\ parsFunc' = "Payload" /\ buff' \in Seq(Nat) /\ posBuff' \in Nat
      /\ residue' \in Seq(Nat)
  BY <1>2, Accepted DEF PayloadByte
<1>4. ParserConsistent'
  BY <1>2, <1>3, Lengths DEF ParserConsistent, posPayload, posPLen, lenPLen,
     lenMaxBuffer, lenOverhead
<1>. QED
  BY <1>1, <1>2, <1>3, <1>4, ByteTypes DEF ParserTypes

LEMMA FrameEndKeeps == ASSUME IInv, PacketDone \/ PacketCorrupt PROVE IInv'
<1>1. ParserTypes /\ ParserConsistent
  BY DEF IInv
<1>2. /\ HasByte /\ Elsewhere /\ lenghtBuff' = lenghtBuff
      /\ lenPayload' = lenPayload /\ posBuffBeginPack' = posBuffBeginPack
      /\ lenghtBuff = <<>> /\ posBuff \in Nat /\ buff \in Seq(Nat)
  BY <1>1 DEF PacketDone, PacketCorrupt, FrameComplete, ParserConsistent, ParserTypes
<1>3. /\ packetData' \in Seq(Nat) /\ posPacket' = 0
      /\ parsFunc' = "ScanMID" /\ buff' \in Seq(Nat) /\ posBuff' \in Nat
      /\ residue' \in Seq(Nat)
  <2>1. CASE PacketDone
    BY <1>2, <2>1, Looking, StepToType, EmptySeq DEF PacketDone, Restart, posPacket
  <2>2. CASE PacketCorrupt
    BY <1>1, <1>2, <2>2, StartedOver DEF PacketCorrupt, ParserTypes
  <2>. QED
    BY <2>1, <2>2
<1>4. ParserConsistent'
  BY <1>2, <1>3, Lengths DEF ParserConsistent
<1>. QED
  BY <1>1, <1>2, <1>3, <1>4, ByteTypes DEF ParserTypes

-----------------------------------------------------------------------------
(* Where the parser is. *)

LEMMA LastBytes ==
  ASSUME NEW s, NEW w, Numbered(s, w), NEW i \in 0 .. Len(s)
  PROVE  /\ Len(s) \in Nat /\ DOMAIN s = 1 .. Len(s)
         /\ w \in Nat /\ LastByte(s, i) \in Nat /\ LastByte(s, i) <= w
<1>1. /\ s \in Seq([payload : Seq(Nat), first : Nat, last : Nat])
      /\ Len(s) \in Nat /\ DOMAIN s = 1 .. Len(s)
  BY LenProperties DEF Numbered
<1>2. ASSUME NEW j \in 1 .. Len(s) PROVE s[j].last \in Nat /\ s[j].last <= w
  <2>1. s[j] \in [payload : Seq(Nat), first : Nat, last : Nat]
    BY <1>1, ElementOfSeq, Zenon
  <2>2. s[j].last <= w
    BY <1>1 DEF Numbered
  <2>. QED
    BY <2>1, <2>2
<1>3. w = LastByte(s, Len(s))
  BY DEF Numbered
<1>4. w \in Nat
  <2>1. CASE Len(s) = 0
    BY <1>3, <2>1 DEF LastByte
  <2>2. CASE Len(s) # 0
    BY <1>1, <1>2, <1>3, <2>2 DEF LastByte
  <2>. QED
    BY <2>1, <2>2
<1>5. LastByte(s, i) \in Nat /\ LastByte(s, i) <= w
  BY <1>1, <1>2, <1>4 DEF LastByte
<1>. QED
  BY <1>1, <1>4, <1>5

(* The payload of the frame in progress. *)
due == sent[Len(delivered) + 1].payload

LEMMA Counts ==
  ASSUME IInv, InSync
  PROVE  /\ Len(net) \in Nat /\ Len(stream) \in Nat /\ Len(buff) \in Nat
         /\ posBuff \in Nat /\ offsetBuff \in Nat /\ posPacket \in Nat
         /\ Len(delivered) \in Nat /\ Len(sent) \in Nat /\ written \in Nat
         /\ DOMAIN sent = 1 .. Len(sent) /\ DOMAIN delivered = 1 .. Len(delivered)
         /\ LastByte(sent, Len(delivered)) \in Nat
         /\ Len(delivered) <= Len(sent)
<1>1. /\ Len(net) \in Nat /\ Len(stream) \in Nat /\ Len(buff) \in Nat
      /\ posBuff \in Nat /\ offsetBuff \in Nat /\ posPacket \in Nat
  BY LenProperties DEF IInv, ParserTypes, posPacket
<1>2. /\ Len(delivered) \in Nat /\ DOMAIN delivered = 1 .. Len(delivered)
      /\ Len(delivered) <= Len(sent)
  BY LenProperties DEF InSync, InFrame
<1>3. Numbered(sent, written)
  BY DEF InSync
<1>4. Len(sent) \in Nat
  BY <1>3, LenProperties DEF Numbered
<1>. QED
  BY <1>1, <1>2, <1>3, <1>4, LastBytes

LEMMA Packets ==
  ASSUME CrcIsBytes, NEW s, NEW w, Numbered(s, w), NEW i \in DOMAIN s
  PROVE  /\ s[i].payload \in Seq(Nat) /\ Len(s[i].payload) \in Nat
         /\ Len(s[i].payload) <= MaxPayload
         /\ s[i].first \in Nat /\ s[i].last \in Nat
         /\ s[i].first <= s[i].last
         /\ s[i].first = LastByte(s, i - 1) + 1
         /\ s[i].last = LastByte(s, i - 1) + Len(Create(s[i].payload))
<1>1. Len(s) \in Nat /\ DOMAIN s = 1 .. Len(s)
  BY LenProperties DEF Numbered
<1>2. s[i] \in [payload : Seq(Nat), first : Nat, last : Nat]
  BY <1>1, ElementOfSeq DEF Numbered
<1>3. /\ s[i].payload \in Seq(Nat) /\ Len(s[i].payload) \in Nat
      /\ s[i].first \in Nat /\ s[i].last \in Nat
  BY <1>2, LenProperties
<1>4. /\ Len(s[i].payload) <= MaxPayload
      /\ s[i].first = LastByte(s, i - 1) + 1
      /\ s[i].last = LastByte(s, i - 1) + Len(Create(s[i].payload))
  BY DEF Numbered
<1>5. LastByte(s, i - 1) \in Nat
  <2>1. i - 1 \in 0 .. Len(s)
    BY <1>1
  <2>. QED
    BY <2>1, LastBytes
<1>6. Len(Create(s[i].payload)) \in Nat /\ Len(Create(s[i].payload)) >= 1
  <2>. DEFINE q == s[i].payload
              c == Create(q)
  <2>1. Len(c) = posPayload + Len(q) + lenCRC
    BY <1>3, <1>4, FrameShape, Zenon
  <2>2. Len(q) \in Nat
    BY <1>3
  <2>. HIDE DEF c, q
  <2>3. Len(c) \in Nat /\ Len(c) >= 1
    BY <2>1, <2>2, Lengths
  <2>. QED
    BY <2>3 DEF c, q
<1>7. s[i].first <= s[i].last
  BY <1>4, <1>5, <1>6
<1>. QED
  BY <1>3, <1>4, <1>7

(* The frame in progress is not complete. *)
LEMMA FramePart ==
  ASSUME CrcIsBytes, IInv, InSync,
         due \in Seq(Nat), Len(due) \in Nat, Len(due) <= MaxPayload
  PROVE  Len(Create(due)) \in Nat /\ posPacket < Len(Create(due))
<1>1. posPacket \in Nat
  BY Counts
<1>2. Len(Create(due)) = posPayload + Len(due) + lenCRC
  BY FrameShape
<1>3. parsFunc = "Payload" => lenPayload = Len(due)
  BY DEF InSync, InFrame, due
<1>4. parsFunc \in {"ScanMID", "DataLength", "Payload"} /\ ParserConsistent
  BY DEF IInv, ParserTypes
<1>5. CASE parsFunc = "Payload"
  BY <1>1, <1>2, <1>3, <1>4, <1>5, Lengths DEF ParserConsistent
<1>6. CASE parsFunc = "DataLength"
  BY <1>1, <1>2, <1>4, <1>6, Lengths DEF ParserConsistent
<1>7. CASE parsFunc = "ScanMID"
  BY <1>1, <1>2, <1>4, <1>7, Lengths DEF ParserConsistent
<1>. QED
  BY <1>4, <1>5, <1>6, <1>7

LEMMA ByteAt ==
  ASSUME NEW m, NEW k, NEW n, k - m.first + 1 = n
  PROVE  ByteOf(m, k) = Create(m.payload)[n]
  BY DEF ByteOf

(* There is a byte to look at: it is the next one of the frame that is due. *)
LEMMA NextByte ==
  ASSUME CrcIsBytes, IInv, Windows, InSync, HasByte
  PROVE  /\ Len(delivered) + 1 \in DOMAIN sent
         /\ due \in Seq(Nat) /\ Len(due) \in Nat /\ Len(due) <= MaxPayload
         /\ posPacket < Len(Create(due))
         /\ by = Create(due)[posPacket + 1]
         /\ \A j \in 1 .. posPacket + 1 : assembled[j] = Create(due)[j]
<1>. DEFINE D == Len(delivered)
<1>1. /\ Len(net) \in Nat /\ Len(stream) \in Nat /\ Len(buff) \in Nat
      /\ posBuff \in Nat /\ offsetBuff \in Nat /\ posPacket \in Nat
      /\ D \in Nat /\ Len(sent) \in Nat /\ written \in Nat
      /\ DOMAIN sent = 1 .. Len(sent)
      /\ LastByte(sent, D) \in Nat /\ D <= Len(sent)
  BY Counts
<1>2. /\ Numbered(sent, written)
      /\ Seen = LastByte(sent, D) + posPacket
      /\ Carries(sent, buff, Windowed - Len(buff))
      /\ InFrame(sent, delivered, packetData, parsFunc, lenghtBuff, lenPayload)
  BY DEF InSync
<1>3. posBuff < Len(buff) /\ offsetBuff <= Len(stream)
  BY DEF HasByte, Windows
<1>4. D + 1 \in DOMAIN sent
  <2>1. Seen < written
    BY <1>1, <1>3 DEF Seen, Windowed, Taken
  <2>2. D # Len(sent)
    BY <1>1, <1>2, <2>1, SMTT(30) DEF Numbered
  <2>. QED
    BY <1>1, <2>2
<1>5. /\ due \in Seq(Nat) /\ Len(due) \in Nat /\ Len(due) <= MaxPayload
      /\ sent[D + 1].first = LastByte(sent, D) + 1
      /\ sent[D + 1].last = LastByte(sent, D) + Len(Create(due))
  <2>1. D + 1 - 1 = D
    BY <1>1
  <2>. QED
    BY <1>2, <1>4, <2>1, Packets DEF due
<1>7. Len(Create(due)) \in Nat /\ posPacket < Len(Create(due))
  BY <1>5, FramePart
<1>8. by = Create(due)[posPacket + 1]
  <2>. DEFINE q == Windowed - Len(buff)
              j == posBuff + 1
  <2>1. j \in DOMAIN buff
    <3>1. buff \in Seq(Nat)
      BY DEF IInv, ParserTypes
    <3>. QED
      BY <1>1, <1>3, <3>1
  <2>2. q + j = LastByte(sent, D) + posPacket + 1
    BY <1>1, <1>2 DEF Seen, Windowed, Taken
  <2>3. Len(Create(due)) \in Nat
    BY <1>5, FrameShape, LenProperties
  <2>4. q + j \in sent[D + 1].first .. sent[D + 1].last
    BY <1>1, <1>5, <1>7, <2>2, <2>3, SMTT(30)
  <2>5. (q + j) - sent[D + 1].first + 1 = posPacket + 1
    <3>1. LastByte(sent, D) \in Nat /\ sent[D + 1].first = LastByte(sent, D) + 1
      BY <1>1, <1>5
    <3>2. q \in Int /\ j \in Int
      BY <1>1 DEF Windowed, Taken
    <3>. HIDE DEF q, j, D
    <3>. QED
      BY <1>1, <2>2, <3>1, <3>2
  <2>6. buff[j] = ByteOf(sent[D + 1], q + j)
    BY <1>2, <1>4, <2>1, <2>4 DEF Carries
  <2>. QED
    <3>1. ByteOf(sent[D + 1], q + j) = Create(sent[D + 1].payload)[posPacket + 1]
      <4>. HIDE DEF q, j, D
      <4>. QED
        BY <2>5, ByteAt, Zenon
    <3>2. Create(sent[D + 1].payload) = Create(due)
      BY DEF due
    <3>. QED
      BY <2>6, <3>1, <3>2 DEF by
<1>9. ASSUME NEW j \in 1 .. posPacket + 1 PROVE assembled[j] = Create(due)[j]
  <2>1. packetData \in Seq(Nat) /\ by \in Nat
    BY Looking
  <2>2. CASE j = posPacket + 1
    BY <1>8, <2>1, <2>2, AppendProperties DEF assembled, posPacket
  <2>3. CASE j # posPacket + 1
    <3>1. j \in 1 .. Len(packetData)
      BY <1>1, <2>3 DEF posPacket
    <3>2. j \in DOMAIN packetData
      BY <2>1, <3>1
    <3>3. packetData[j] = Create(due)[j]
      BY <1>2, <3>2 DEF InFrame, due
    <3>. QED
      BY <2>1, <3>1, <3>3, AppendProperties DEF assembled
  <2>. QED
    BY <2>2, <2>3
<1>. QED
  BY <1>4, <1>5, <1>7, <1>8, <1>9

(* The parser goes on to the next byte: what is behind it stays. *)
LEMMA NextPlace ==
  ASSUME IInv, InSync, HasByte, Elsewhere, StepTo(posBuff + 1)
  PROVE  /\ Numbered(sent, written)'
         /\ Carries(sent, net, Taken)'
         /\ Carries(sent, stream, Taken - Len(stream))'
         /\ Carries(sent, buff, Windowed - Len(buff))'
         /\ (posBuff <= Len(buff))'
         /\ Seen' = Seen + 1
<1>1. /\ Len(net) \in Nat /\ Len(stream) \in Nat /\ Len(buff) \in Nat
      /\ posBuff \in Nat /\ offsetBuff \in Nat /\ written \in Nat
  BY Counts
<1>2. UNCHANGED <<net, pc, stream, offsetBuff, sent, written>>
  BY DEF Elsewhere, senderVars, written
<1>3. /\ Numbered(sent, written)' /\ Carries(sent, net, Taken)'
      /\ Carries(sent, stream, Taken - Len(stream))'
  BY <1>2 DEF InSync, Taken
<1>4. Windowed' = Windowed /\ Windowed \in Int
  BY <1>1, <1>2 DEF Windowed, Taken
<1>5. posBuff < Len(buff)
  BY DEF HasByte
<1>6. CASE posBuff + 1 = Len(buff)
  <2>1. posBuff' = 0 /\ buff' = <<>> /\ Len(buff') = 0
    BY <1>6, EmptySeq DEF StepTo
  <2>2. Carries(sent, buff, Windowed - Len(buff))'
    BY <2>1 DEF Carries
  <2>3. Seen' = Seen + 1
    BY <1>1, <1>4, <1>6, <2>1 DEF Seen
  <2>. QED
    BY <1>3, <2>1, <2>2, <2>3
<1>7. CASE posBuff + 1 # Len(buff)
  <2>1. posBuff' = posBuff + 1 /\ buff' = buff
    BY <1>7 DEF StepTo
  <2>2. Carries(sent, buff, Windowed - Len(buff))'
    BY <1>2, <1>4, <2>1 DEF InSync, Carries
  <2>3. Seen' = Seen + 1
    BY <1>1, <1>4, <2>1 DEF Seen
  <2>. QED
    BY <1>1, <1>3, <1>5, <2>1, <2>2, <2>3
<1>. QED
  BY <1>6, <1>7

(* The byte belongs to the frame, and what is known of the length is right. *)
LEMMA FrameGrows ==
  ASSUME CrcIsBytes, IInv, Windows, InSync, HasByte, Elsewhere,
         NEW state \in {"ScanMID", "DataLength", "Payload"}, Accept(state),
         delivered' = delivered,
         state = "DataLength" =>
           \A j \in DOMAIN lenghtBuff' : lenghtBuff'[j] = Create(due)[posPLen + j],
         state = "DataLength" => Len(lenghtBuff') <= posPacket + 1 - posPLen,
         lenghtBuff' \in Seq(Nat),
         state = "Payload" => lenPayload' = Len(due)
  PROVE  InSync'
<1>1. /\ sent' = sent /\ parsFunc' = state /\ packetData' = assembled
      /\ StepTo(posBuff + 1)
  BY DEF Elsewhere, senderVars, Accept
<1>2. /\ Numbered(sent, written)' /\ Carries(sent, net, Taken)'
      /\ Carries(sent, stream, Taken - Len(stream))'
      /\ Carries(sent, buff, Windowed - Len(buff))'
      /\ (posBuff <= Len(buff))'
      /\ Seen' = Seen + 1
  BY <1>1, NextPlace
<1>3. /\ Len(delivered) + 1 \in DOMAIN sent
      /\ \A j \in 1 .. posPacket + 1 : assembled[j] = Create(due)[j]
  BY NextByte
<1>4. /\ assembled \in Seq(Nat) /\ Len(assembled) = posPacket + 1
      /\ posPacket \in Nat
  BY Looking
<1>5. /\ DOMAIN assembled = 1 .. posPacket + 1 /\ posPacket' = posPacket + 1
  BY <1>1, <1>4, LenProperties DEF posPacket
<1>6. /\ Len(delivered) \in Nat /\ Len(sent) \in Nat
      /\ DOMAIN sent = 1 .. Len(sent)
      /\ LastByte(sent, Len(delivered)) \in Nat
  BY Counts
<1>7. /\ Len(delivered) < Len(sent) /\ due' = due
  BY <1>1, <1>3, <1>6 DEF due
<1>8. InFrame(sent, delivered, packetData, parsFunc, lenghtBuff, lenPayload)'
  <2>1. /\ delivered \in Seq(Seq(Nat)) /\ Len(delivered) <= Len(sent)
        /\ \A i \in DOMAIN delivered : delivered[i] = sent[i].payload
    BY DEF InSync, InFrame
  <2>2. \A j \in DOMAIN packetData' : packetData'[j] = Create(due)[j]
    BY <1>1, <1>3, <1>5
  <2>3. ASSUME state = "DataLength", NEW j \in DOMAIN lenghtBuff'
        PROVE  lenghtBuff'[j] = packetData'[posPLen + j]
    <3>1. lenghtBuff'[j] = Create(due)[posPLen + j]
      BY <2>3
    <3>2. posPLen + j \in 1 .. posPacket + 1
      <4>1. j \in Nat /\ j >= 1 /\ j <= Len(lenghtBuff') /\ Len(lenghtBuff') \in Nat
        BY <2>3, LenProperties
      <4>. QED
        BY <1>4, <2>3, <4>1, Lengths, SMTT(30)
    <3>. QED
      BY <1>1, <1>3, <3>1, <3>2
  <2>4. state = "Payload" => lenPayload' = Len(due')
    BY <1>7
  <2>. QED
    BY <1>1, <1>7, <2>1, <2>2, <2>3, <2>4 DEF InFrame, due
<1>9. Seen' = LastByte(sent, Len(delivered))' + posPacket'
  <2>1. Seen = LastByte(sent, Len(delivered)) + posPacket
    BY DEF InSync
  <2>2. LastByte(sent, Len(delivered))' = LastByte(sent, Len(delivered))
    BY <1>1
  <2>. QED
    BY <1>2, <1>4, <1>5, <1>6, <2>1, <2>2
<1>. QED
  BY <1>2, <1>8, <1>9 DEF InSync

LEMMA ScanMIDInSync ==
  ASSUME CrcIsBytes, IInv, Windows, InSync, ScanMID PROVE InSync'
<1>1. /\ HasByte /\ Elsewhere /\ delivered' = delivered
      /\ lenghtBuff' = lenghtBuff /\ lenPayload' = lenPayload
      /\ posPacket < lenMID /\ lenghtBuff = <<>>
  BY DEF ScanMID, IInv, ParserConsistent
<1>2. posPacket \in Nat
  BY <1>1, Looking
<1>3. by = MID[posPacket + 1]
  <2>1. by = Create(due)[posPacket + 1] /\ due \in Seq(Nat) /\ Len(due) <= MaxPayload
    BY <1>1, NextByte
  <2>2. posPacket + 1 \in 1 .. lenMID
    BY <1>1, <1>2, Lengths
  <2>. QED
    BY <2>1, <2>2, FrameShape
<1>. DEFINE state == IF posPacket + 1 = lenMID THEN "DataLength" ELSE "ScanMID"
<1>4. Accept(state)
  BY <1>3 DEF ScanMID
<1>5. state \in {"ScanMID", "DataLength", "Payload"} /\ state # "Payload"
  OBVIOUS
<1>6. state = "DataLength" => Len(lenghtBuff') <= posPacket + 1 - posPLen
  BY <1>1, <1>2, Lengths, EmptySeq
<1>7. DOMAIN lenghtBuff' = {} /\ lenghtBuff' \in Seq(Nat)
  BY <1>1, EmptySeq
<1>. HIDE DEF state
<1>. QED
  BY <1>1, <1>4, <1>5, <1>6, <1>7, FrameGrows

(* A byte of the length field. *)
LEMMA LengthSoFar ==
  ASSUME CrcIsBytes, IInv, Windows, InSync, HasByte, parsFunc = "DataLength"
  PROVE  LET l == Append(lenghtBuff, by)
         IN  /\ l \in Seq(Nat) /\ Len(l) = posPacket + 1 - posPLen
             /\ \A j \in DOMAIN l : l[j] = Create(due)[posPLen + j]
<1>. DEFINE l == Append(lenghtBuff, by)
<1>1. /\ lenghtBuff \in Seq(Nat) /\ Len(lenghtBuff) \in Nat /\ by \in Nat
      /\ posPacket \in Nat /\ Len(lenghtBuff) = posPacket - posPLen
      /\ packetData \in Seq(Nat)
  BY Looking, LenProperties DEF IInv, ParserTypes, ParserConsistent
<1>2. /\ l \in Seq(Nat) /\ Len(l) = Len(lenghtBuff) + 1
      /\ l[Len(lenghtBuff) + 1] = by
      /\ \A j \in 1 .. Len(lenghtBuff) : l[j] = lenghtBuff[j]
  BY <1>1, AppendProperties
<1>3. /\ by = Create(due)[posPacket + 1]
      /\ \A j \in 1 .. posPacket + 1 : assembled[j] = Create(due)[j]
  BY NextByte
<1>4. posPLen \in Nat /\ posPLen + Len(lenghtBuff) + 1 = posPacket + 1
  BY <1>1, Lengths
<1>5. ASSUME NEW j \in DOMAIN l PROVE l[j] = Create(due)[posPLen + j]
  <2>0. j \in 1 .. Len(lenghtBuff) + 1
    BY <1>2, LenProperties
  <2>1. CASE j = Len(lenghtBuff) + 1
    <3>1. posPLen + j = posPacket + 1
      BY <1>1, <1>4, <2>1
    <3>. QED
      BY <1>2, <1>3, <2>1, <3>1, Zenon
  <2>2. CASE j # Len(lenghtBuff) + 1
    <3>1. /\ j \in 1 .. Len(lenghtBuff) /\ posPLen + j \in 1 .. posPacket
          /\ posPLen + j \in 1 .. posPacket + 1
      <4>1. j \in 1 .. Len(lenghtBuff)
        BY <1>1, <2>0, <2>2
      <4>2. posPLen + j \in 1 .. posPacket
        BY <1>1, <1>4, <4>1
      <4>. QED
        BY <1>1, <4>1, <4>2
    <3>2. l[j] = packetData[posPLen + j]
      <4>1. j \in DOMAIN lenghtBuff
        BY <1>1, <3>1
      <4>2. lenghtBuff[j] = packetData[posPLen + j]
        BY <4>1 DEF InSync, InFrame
      <4>. QED
        BY <1>2, <3>1, <4>2, Zenon
    <3>3. assembled[posPLen + j] = packetData[posPLen + j]
      BY <1>1, <3>1, AppendProperties DEF assembled, posPacket
    <3>. QED
      BY <1>3, <3>1, <3>2, <3>3, Zenon
  <2>. QED
    BY <2>1, <2>2
<1>6. Len(l) = posPacket + 1 - posPLen
  BY <1>1, <1>2, <1>4
<1>. QED
  BY <1>2, <1>5, <1>6

LEMMA LengthByteInSync ==
  ASSUME CrcIsBytes, IInv, Windows, InSync, LengthByte PROVE InSync'
<1>1. /\ HasByte /\ Elsewhere /\ delivered' = delivered
      /\ lenghtBuff' = Append(lenghtBuff, by)
      /\ parsFunc = "DataLength" /\ Accept("DataLength")
      /\ "DataLength" \in {"ScanMID", "DataLength", "Payload"}
  BY DEF LengthByte
<1>2. /\ lenghtBuff' \in Seq(Nat) /\ Len(lenghtBuff') = posPacket + 1 - posPLen
      /\ \A j \in DOMAIN lenghtBuff' : lenghtBuff'[j] = Create(due)[posPLen + j]
  BY <1>1, LengthSoFar
<1>3. Len(lenghtBuff') <= posPacket + 1 - posPLen
  BY <1>1, <1>2, Looking, Lengths
<1>. QED
  BY <1>1, <1>2, <1>3, FrameGrows

LEMMA LengthDoneInSync ==
  ASSUME CrcIsBytes, IInv, Windows, InSync, LengthDone PROVE InSync'
<1>. DEFINE l == Append(lenghtBuff, by)
<1>1. /\ HasByte /\ Elsewhere /\ delivered' = delivered
      /\ parsFunc = "DataLength" /\ lenPayload' = DecodeLen(l)
      /\ lenghtBuff' = <<>> /\ posPacket = posPayload - 1
  BY DEF LengthDone
<1>2. /\ due \in Seq(Nat) /\ Len(due) \in Nat /\ Len(due) <= MaxPayload
  BY <1>1, NextByte
<1>3. lenPayload' = Len(due)
  <2>1. /\ l \in Seq(Nat) /\ Len(l) = posPacket + 1 - posPLen
        /\ \A j \in DOMAIN l : l[j] = Create(due)[posPLen + j]
    BY <1>1, LengthSoFar
  <2>2. Len(l) = 2
    BY <1>1, <2>1, Lengths
  <2>3. 1 \in DOMAIN l /\ 2 \in DOMAIN l
    BY <2>1, <2>2, LenProperties
  <2>4. l[1] = Len(due) % Base /\ l[2] = Len(due) \div Base
    BY <1>2, <2>1, <2>3, FrameShape
  <2>5. DecodeLen(l) = l[1] + Base * l[2]
    BY DEF DecodeLen
  <2>. HIDE DEF l
  <2>. QED
    BY <1>1, <1>2, <2>4, <2>5, DecodeEncode
<1>4. ~(lenPayload' > lenMaxBuffer)
  BY <1>2, <1>3, Lengths DEF lenMaxBuffer, lenOverhead
<1>5. Accept("Payload")
  BY <1>4 DEF LengthDone
<1>6. lenghtBuff' \in Seq(Nat)
  BY <1>1, EmptySeq
<1>7. "Payload" \in {"ScanMID", "DataLength", "Payload"} /\ "Payload" # "DataLength"
  OBVIOUS
<1>. QED
  BY <1>1, <1>3, <1>5, <1>6, <1>7, FrameGrows

LEMMA PayloadByteInSync ==
  ASSUME CrcIsBytes, IInv, Windows, InSync, PayloadByte PROVE InSync'
<1>1. /\ HasByte /\ Elsewhere /\ delivered' = delivered /\ Accept("Payload")
      /\ lenPayload' = Len(due) /\ lenghtBuff' \in Seq(Nat)
  BY DEF PayloadByte, InSync, InFrame, due, IInv, ParserTypes
<1>2. "Payload" \in {"ScanMID", "DataLength", "Payload"} /\ "Payload" # "DataLength"
  OBVIOUS
<1>. QED
  BY <1>1, <1>2, FrameGrows

(* The last byte of the frame: it is the frame that was sent. *)
LEMMA FrameWhole ==
  ASSUME CrcIsBytes, IInv, Windows, InSync, FrameComplete
  PROVE  /\ assembled = Create(due) /\ Check(packet) /\ Payload(packet) = due
         /\ posPacket + 1 = Len(Create(due))
<1>1. /\ HasByte /\ posPacket = posPayload + lenPayload + lenCRC - 1
      /\ parsFunc = "Payload"
  BY DEF FrameComplete
<1>2. /\ due \in Seq(Nat) /\ Len(due) \in Nat /\ Len(due) <= MaxPayload
      /\ \A j \in 1 .. posPacket + 1 : assembled[j] = Create(due)[j]
  BY <1>1, NextByte
<1>3. lenPayload = Len(due)
  BY <1>1 DEF InSync, InFrame, due
<1>4. /\ Create(due) \in Seq(Nat)
      /\ Len(Create(due)) = posPayload + Len(due) + lenCRC
  BY <1>2, FrameShape
<1>5. posPacket + 1 = Len(Create(due))
  BY <1>1, <1>2, <1>3, <1>4, Lengths
<1>6. assembled \in Seq(Nat) /\ Len(assembled) = posPacket + 1
  BY <1>1, Looking
<1>7. assembled = Create(due)
  BY <1>2, <1>4, <1>5, <1>6, SeqEqual
<1>8. /\ Check(assembled) /\ Payload(assembled) = due
      /\ PayloadLen(assembled) = Len(due)
  BY <1>2, <1>7, FrameChecks
<1>9. /\ posPayload <= Len(assembled)
      /\ Len(assembled) = posPayload + PayloadLen(assembled) + lenCRC
  BY <1>2, <1>4, <1>7, <1>8, Lengths
<1>10. behind \in Seq(Nat)
  BY <1>1, Looking
<1>11. Check(packet) /\ Payload(packet) = due
  BY <1>6, <1>8, <1>9, <1>10, CheckFront DEF packet
<1>. QED
  BY <1>5, <1>7, <1>11

LEMMA PacketDoneInSync ==
  ASSUME CrcIsBytes, IInv, Windows, InSync, PacketDone PROVE InSync'
<1>. DEFINE D == Len(delivered)
<1>1. /\ HasByte /\ Elsewhere /\ FrameComplete
      /\ delivered' = Append(delivered, Payload(packet))
      /\ packetData' = <<>> /\ parsFunc' = "ScanMID" /\ StepTo(posBuff + 1)
  BY DEF PacketDone, Restart, FrameComplete
<1>2. sent' = sent
  BY <1>1 DEF Elsewhere, senderVars
<1>3. /\ Numbered(sent, written)' /\ Carries(sent, net, Taken)'
      /\ Carries(sent, stream, Taken - Len(stream))'
      /\ Carries(sent, buff, Windowed - Len(buff))'
      /\ (posBuff <= Len(buff))'
      /\ Seen' = Seen + 1
  BY <1>1, NextPlace
<1>4. /\ Payload(packet) = due /\ posPacket + 1 = Len(Create(due))
  BY <1>1, FrameWhole
<1>5. D + 1 \in DOMAIN sent /\ due \in Seq(Nat)
  BY <1>1, NextByte
<1>6. /\ D \in Nat /\ Len(sent) \in Nat /\ DOMAIN sent = 1 .. Len(sent)
      /\ LastByte(sent, D) \in Nat /\ posPacket \in Nat
      /\ DOMAIN delivered = 1 .. D
  BY Counts
<1>7. /\ delivered \in Seq(Seq(Nat))
      /\ \A i \in DOMAIN delivered : delivered[i] = sent[i].payload
  BY DEF InSync, InFrame
<1>8. /\ delivered' \in Seq(Seq(Nat)) /\ Len(delivered') = D + 1
      /\ DOMAIN delivered' = 1 .. D + 1
      /\ delivered'[D + 1] = due
      /\ \A i \in 1 .. D : delivered'[i] = delivered[i]
  <2>1. delivered' = Append(delivered, due)
    BY <1>1, <1>4
  <2>2. /\ delivered' \in Seq(Seq(Nat)) /\ Len(delivered') = D + 1
        /\ delivered'[D + 1] = due
        /\ \A i \in 1 .. D : delivered'[i] = delivered[i]
    BY <1>5, <1>7, <2>1, AppendProperties
  <2>. QED
    BY <2>2, LenProperties
<1>9. InFrame(sent, delivered, packetData, parsFunc, lenghtBuff, lenPayload)'
  <2>1. ASSUME NEW i \in DOMAIN delivered' PROVE delivered'[i] = sent[i].payload
    <3>1. CASE i = D + 1
      BY <1>8, <3>1 DEF due
    <3>2. CASE i # D + 1
      <4>1. i \in 1 .. D
        BY <1>6, <1>8, <3>2
      <4>. QED
        BY <1>6, <1>7, <1>8, <4>1
    <3>. QED
      BY <3>1, <3>2
  <2>2. Len(delivered') <= Len(sent)
    BY <1>5, <1>6, <1>8
  <2>3. DOMAIN packetData' = {}
    BY <1>1
  <2>. QED
    BY <1>1, <1>2, <1>8, <2>1, <2>2, <2>3 DEF InFrame
<1>10. Seen' = LastByte(sent, Len(delivered))' + posPacket'
  <2>1. Seen = LastByte(sent, D) + posPacket
    BY DEF InSync
  <2>2. LastByte(sent, Len(delivered))' = sent[D + 1].last
    BY <1>2, <1>6, <1>8 DEF LastByte
  <2>3. sent[D + 1].last = LastByte(sent, D) + Len(Create(due))
    <3>1. sent[D + 1].last
            = LastByte(sent, D + 1 - 1) + Len(Create(sent[D + 1].payload))
      BY <1>5 DEF InSync, Numbered
    <3>2. D + 1 - 1 = D
      BY <1>6
    <3>. QED
      BY <3>1, <3>2 DEF due
  <2>4. posPacket' = 0
    BY <1>1, EmptySeq DEF posPacket
  <2>. QED
    BY <1>3, <1>4, <1>6, <2>1, <2>2, <2>3, <2>4, SMTT(20)
<1>. QED
  BY <1>3, <1>9, <1>10 DEF InSync

LEMMA ParseByteInSync ==
  ASSUME CrcIsBytes, IInv, Windows, InSync, ParseByte PROVE InSync'
<1>1. ~PacketCorrupt
  BY FrameWhole DEF PacketCorrupt
<1>. QED
  BY <1>1, ScanMIDInSync, LengthByteInSync, LengthDoneInSync, PayloadByteInSync,
     PacketDoneInSync DEF ParseByte

(* The next window of the stream. *)
LEMMA ReadWindowInSync ==
  ASSUME IInv, Windows, InSync, ReadWindow PROVE InSync'
<1>. DEFINE end == IF offsetBuff + MaxBuffLen < Len(stream)
                   THEN offsetBuff + MaxBuffLen ELSE Len(stream)
<1>1. /\ Len(net) \in Nat /\ Len(stream) \in Nat /\ stream \in Seq(Nat)
      /\ posBuff = 0 /\ offsetBuff \in Nat /\ written \in Nat
      /\ offsetBuff < Len(stream) /\ buff = <<>> /\ Len(buff) = 0
  BY Counts, EmptySeq DEF ReadWindow, Windows, IInv, ParserTypes
<1>2. /\ end \in Nat /\ offsetBuff <= end /\ end <= Len(stream)
  BY <1>1, ParserAssumption
<1>3. /\ buff' = SubSeq(stream, offsetBuff + 1, end) /\ offsetBuff' = end
      /\ UNCHANGED <<net, stream, posBuff, parsFunc, packetData, lenghtBuff,
                     lenPayload, delivered, sent, written>>
  BY DEF ReadWindow, senderVars, written
<1>. HIDE DEF end
<1>4. /\ buff' \in Seq(Nat) /\ Len(buff') = end - offsetBuff
      /\ \A j \in 1 .. end - offsetBuff : buff'[j] = stream[offsetBuff + j]
  BY <1>1, <1>2, <1>3, CutOut, SMTT(20)
<1>5. /\ Windowed = Taken - Len(stream) + offsetBuff /\ Taken \in Int
      /\ Windowed' = Taken - Len(stream) + end /\ Taken' = Taken
  BY <1>1, <1>3 DEF Windowed, Taken
<1>6. Carries(sent, buff, Windowed - Len(buff))'
  <2>. SUFFICES ASSUME NEW j \in DOMAIN buff', NEW i \in DOMAIN sent',
                       Windowed' - Len(buff') + j \in sent'[i].first .. sent'[i].last
                PROVE  buff'[j] = ByteOf(sent'[i], Windowed' - Len(buff') + j)
    BY DEF Carries
  <2>1. j \in 1 .. end - offsetBuff
    BY <1>4, LenProperties
  <2>2. Windowed' - Len(buff') + j = Taken - Len(stream) + (offsetBuff + j)
    BY <1>1, <1>2, <1>4, <1>5, <2>1
  <2>3. offsetBuff + j \in DOMAIN stream
    <3>1. offsetBuff + j \in 1 .. Len(stream)
      BY <1>1, <1>2, <2>1
    <3>. QED
      BY <1>1, <3>1, LenProperties
  <2>4. stream[offsetBuff + j] = ByteOf(sent[i], Taken - Len(stream) + (offsetBuff + j))
    <3>1. Carries(sent, stream, Taken - Len(stream))
      BY DEF InSync
    <3>2. /\ i \in DOMAIN sent
          /\ Taken - Len(stream) + (offsetBuff + j) \in sent[i].first .. sent[i].last
      BY <1>3, <2>2
    <3>. QED
      BY <2>3, <3>1, <3>2 DEF Carries
  <2>5. buff'[j] = stream[offsetBuff + j] /\ sent' = sent
    BY <1>3, <1>4, <2>1
  <2>. QED
    BY <2>2, <2>4, <2>5, Zenon
<1>7. /\ Seen' = Seen /\ posBuff' <= Len(buff')
  BY <1>1, <1>2, <1>3, <1>4, <1>5 DEF Seen
<1>8. posPacket' = posPacket
  BY <1>3 DEF posPacket
<1>. QED
  BY <1>3, <1>5, <1>6, <1>7, <1>8 DEF InSync, InFrame

LEMMA OnRecvEndInSync ==
  ASSUME IInv, Windows, InSync, OnRecvEnd PROVE InSync'
<1>1. /\ Len(net) \in Nat /\ Len(stream) \in Nat /\ written \in Nat
      /\ offsetBuff = Len(stream) /\ buff = <<>> /\ posBuff = 0
      /\ offsetBuff' = 0 /\ stream' = <<>> /\ Len(stream') = 0
      /\ UNCHANGED <<net, buff, posBuff, parsFunc, packetData, lenghtBuff,
                     lenPayload, delivered, sent, written>>
  BY Counts, EmptySeq DEF OnRecvEnd, Windows, senderVars, parserVars, written
<1>2. Taken' = Taken /\ Windowed' = Windowed /\ Seen' = Seen
  BY <1>1 DEF Taken, Windowed, Seen
<1>3. /\ Carries(sent, stream, Taken - Len(stream))'
      /\ Carries(sent, buff, Windowed - Len(buff))'
      /\ (posBuff <= Len(buff))'
  BY <1>1, EmptySeq DEF Carries
<1>4. posPacket' = posPacket
  BY <1>1 DEF posPacket
<1>. QED
  BY <1>1, <1>2, <1>3, <1>4 DEF InSync, InFrame

(* OnRecv begins, and the frame in progress is where it was. *)
LEMMA RecvInSync ==
  ASSUME IInv, Windows, InSync, NEW n \in 1 .. Len(net), Recv(n),
         packetData' = packetData
  PROVE  InSync'
<1>1. /\ Len(net) \in Nat /\ net \in Seq(Nat) /\ written \in Nat
      /\ Len(buff) \in Nat /\ posBuff \in Nat
      /\ stream = <<>> /\ Len(stream) = 0 /\ offsetBuff = 0
      /\ buff = <<>> /\ Len(buff) = 0
      /\ n \in Nat /\ n <= Len(net)
  BY Counts, EmptySeq DEF Recv, Windows, IInv, ParserTypes
<1>2. /\ stream' = SubSeq(net, 1, n) /\ net' = SubSeq(net, n + 1, Len(net))
      /\ UNCHANGED <<buff, posBuff, offsetBuff, parsFunc, packetData, lenghtBuff,
                     lenPayload, delivered, sent, written>>
  BY DEF Recv, senderVars, written
<1>3. /\ stream' \in Seq(Nat) /\ Len(stream') = n
      /\ \A j \in 1 .. n : stream'[j] = net[j]
  <2>1. /\ SubSeq(net, 0 + 1, n) \in Seq(Nat)
        /\ Len(SubSeq(net, 0 + 1, n)) = n - 0
        /\ \A j \in 1 .. n - 0 : SubSeq(net, 0 + 1, n)[j] = net[0 + j]
    BY <1>1, CutOut
  <2>2. 0 + 1 = 1 /\ n - 0 = n /\ \A j \in 1 .. n : 0 + j = j
    BY <1>1
  <2>. QED
    BY <1>2, <2>1, <2>2
<1>4. /\ net' \in Seq(Nat) /\ Len(net') = Len(net) - n
      /\ \A j \in 1 .. Len(net) - n : net'[j] = net[n + j]
  <2>. DEFINE rest == SubSeq(net, n + 1, Len(net))
  <2>1. Len(net) \in Nat /\ n \in Nat /\ n <= Len(net) /\ Len(net) <= Len(net)
    BY <1>1
  <2>2. /\ rest \in Seq(Nat) /\ Len(rest) = Len(net) - n
        /\ \A j \in 1 .. Len(net) - n : rest[j] = net[n + j]
    BY <1>1, <2>1, CutOut, SMTT(30)
  <2>. HIDE DEF rest
  <2>3. net' = rest
    BY <1>2 DEF rest
  <2>. QED
    BY <2>2, <2>3
<1>5. /\ Taken \in Int /\ Taken' = Taken + n /\ Taken' - Len(stream') = Taken
      /\ Windowed' = Windowed /\ Seen' = Seen
  <2>1. /\ Len(net) \in Nat /\ written \in Nat /\ written' = written
        /\ Len(stream') = n /\ Len(net') = Len(net) - n /\ n \in Nat
        /\ Len(stream) = 0 /\ offsetBuff = 0 /\ offsetBuff' = 0
        /\ Len(buff) \in Nat /\ Len(buff') = Len(buff)
        /\ posBuff \in Nat /\ posBuff' = posBuff
    BY <1>1, <1>2, <1>3, <1>4
  <2>2. Taken \in Int /\ Taken' = Taken + n
    BY <2>1 DEF Taken
  <2>3. Taken' - Len(stream') = Taken
    BY <2>1, <2>2
  <2>4. Windowed' = Windowed /\ Windowed \in Int
    BY <2>1, <2>2 DEF Windowed
  <2>5. Seen' = Seen
    BY <2>1, <2>4 DEF Seen
  <2>. QED
    BY <2>2, <2>3, <2>4, <2>5
<1>6. Carries(sent, net, Taken)
  BY DEF InSync
<1>7. ASSUME NEW j \in 1 .. Len(net), NEW i \in DOMAIN sent,
             Taken + j \in sent[i].first .. sent[i].last
      PROVE  net[j] = ByteOf(sent[i], Taken + j)
  <2>1. j \in DOMAIN net
    BY <1>1, LenProperties
  <2>. QED
    BY <1>6, <1>7, <2>1 DEF Carries
<1>8. Carries(sent, stream, Taken - Len(stream))'
  <2>. SUFFICES ASSUME NEW j \in DOMAIN stream', NEW i \in DOMAIN sent',
                       Taken' - Len(stream') + j \in sent'[i].first .. sent'[i].last
                PROVE  stream'[j] = ByteOf(sent'[i], Taken' - Len(stream') + j)
    BY DEF Carries
  <2>1. j \in 1 .. n /\ j \in 1 .. Len(net) /\ sent' = sent
    BY <1>1, <1>2, <1>3, LenProperties
  <2>2. Taken + j \in sent[i].first .. sent[i].last
    BY <1>5, <2>1
  <2>3. net[j] = ByteOf(sent[i], Taken + j)
    BY <1>7, <2>1, <2>2
  <2>4. stream'[j] = net[j]
    BY <1>3, <2>1
  <2>. QED
    BY <1>5, <2>1, <2>3, <2>4, Zenon
<1>9. Carries(sent, net, Taken)'
  <2>. SUFFICES ASSUME NEW j \in DOMAIN net', NEW i \in DOMAIN sent',
                       Taken' + j \in sent'[i].first .. sent'[i].last
                PROVE  net'[j] = ByteOf(sent'[i], Taken' + j)
    BY DEF Carries
  <2>1. j \in 1 .. Len(net) - n /\ sent' = sent
    BY <1>1, <1>2, <1>4, LenProperties
  <2>2. n + j \in 1 .. Len(net) /\ Taken' + j = Taken + (n + j)
    BY <1>1, <1>5, <2>1, SMTT(30)
  <2>3. Taken + (n + j) \in sent[i].first .. sent[i].last
    BY <2>1, <2>2
  <2>4. net[n + j] = ByteOf(sent[i], Taken + (n + j))
    BY <1>7, <2>1, <2>2, <2>3
  <2>5. net'[j] = net[n + j]
    BY <1>4, <2>1
  <2>. QED
    BY <2>1, <2>2, <2>4, <2>5, Zenon
<1>10. Carries(sent, buff, Windowed - Len(buff))' /\ (posBuff <= Len(buff))'
  BY <1>1, <1>2, EmptySeq DEF Carries, InSync
<1>11. posPacket' = posPacket
  BY <1>2 DEF posPacket
<1>. QED
  BY <1>2, <1>5, <1>8, <1>9, <1>10, <1>11 DEF InSync, InFrame

-----------------------------------------------------------------------------
(* Another packet is sent. *)

Packet(p, w) == [payload |-> p, first |-> w + 1, last |-> w + Len(Create(p))]

LEMMA NumberedMore ==
  ASSUME CrcIsBytes, NEW s, NEW w, Numbered(s, w),
         NEW p \in Seq(Nat), Len(p) <= MaxPayload
  PROVE  Numbered(Append(s, Packet(p, w)), w + Len(Create(p)))
<1>. DEFINE m == Packet(p, w)
            t == Append(s, m)
            n == Len(s)
            f == Len(Create(p))
            R == [payload : Seq(Nat), first : Nat, last : Nat]
<1>0. n \in Nat
  BY LenProperties DEF Numbered
<1>1. s \in Seq(R) /\ n \in Nat /\ DOMAIN s = 1 .. n /\ w \in Nat
  <2>1. n \in 0 .. n
    BY <1>0
  <2>. QED
    BY <1>0, <2>1, LastBytes DEF Numbered
<1>2. f \in Nat /\ f > 0
  BY FrameShape, Lengths
<1>3. m \in R /\ m.payload = p /\ m.first = w + 1 /\ m.last = w + f
  BY <1>1, <1>2 DEF Packet
<1>. HIDE DEF m, f, R
<1>4. /\ t \in Seq(R) /\ Len(t) = n + 1 /\ t[n + 1] = m
      /\ \A i \in 1 .. n : t[i] = s[i]
  BY <1>1, <1>3, AppendProperties
<1>5. DOMAIN t = 1 .. n + 1
  BY <1>4, LenProperties
<1>6. ASSUME NEW i \in 1 .. n
      PROVE  /\ s[i] \in R
             /\ Len(s[i].payload) <= MaxPayload
             /\ s[i].first = LastByte(s, i - 1) + 1
             /\ s[i].last = LastByte(s, i - 1) + Len(Create(s[i].payload))
             /\ s[i].last <= w
  BY <1>1, ElementOfSeq DEF Numbered
<1>. HIDE DEF t
<1>7. ASSUME NEW i \in 0 .. n PROVE LastByte(t, i) = LastByte(s, i)
  <2>1. CASE i = 0
    BY <2>1 DEF LastByte
  <2>2. CASE i # 0
    <3>1. i \in 1 .. n
      BY <1>0, <2>2
    <3>. QED
      BY <1>4, <2>2, <3>1 DEF LastByte
  <2>. QED
    BY <2>1, <2>2
<1>8. LastByte(t, n) = w /\ LastByte(t, n + 1) = w + f
  <2>1. n \in 0 .. n /\ n + 1 # 0
    BY <1>0
  <2>2. LastByte(t, n) = w
    BY <1>7, <2>1 DEF Numbered
  <2>. QED
    BY <1>3, <1>4, <2>1, <2>2 DEF LastByte
<1>9. ASSUME NEW i \in DOMAIN t
      PROVE  /\ Len(t[i].payload) <= MaxPayload
             /\ t[i].first = LastByte(t, i - 1) + 1
             /\ t[i].last = LastByte(t, i - 1) + Len(Create(t[i].payload))
             /\ t[i].last <= w + f
  <2>1. CASE i = n + 1
    <3>1. i - 1 = n
      BY <1>1, <2>1
    <3>2. t[i] = m /\ LastByte(t, i - 1) = w
      BY <1>4, <1>8, <2>1, <3>1
    <3>. QED
      BY <1>1, <1>2, <1>3, <3>2 DEF f
  <2>2. CASE i # n + 1
    <3>1. i \in 1 .. n /\ i - 1 \in 0 .. n
      BY <1>0, <1>5, <2>2
    <3>2. t[i] = s[i] /\ LastByte(t, i - 1) = LastByte(s, i - 1)
      BY <1>4, <1>7, <3>1
    <3>3. s[i].last <= w + f
      <4>1. s[i].last \in Nat /\ s[i].last <= w
        BY <1>6, <3>1 DEF R
      <4>. QED
        BY <1>1, <1>2, <4>1
    <3>. QED
      BY <1>6, <3>1, <3>2, <3>3
  <2>. QED
    BY <2>1, <2>2
<1>10. ASSUME NEW i \in DOMAIN t, NEW j \in DOMAIN t, i < j
       PROVE  t[i].last < t[j].first
  <2>1. i \in 1 .. n /\ t[i] = s[i]
    <3>1. i \in 1 .. n
      BY <1>0, <1>5, <1>10
    <3>. QED
      BY <1>4, <3>1
  <2>2. CASE j = n + 1
    <3>1. s[i].last \in Nat /\ s[i].last <= w
      BY <1>6, <2>1 DEF R
    <3>2. t[j].first = w + 1
      BY <1>3, <1>4, <2>2
    <3>. QED
      BY <1>1, <2>1, <3>1, <3>2
  <2>3. CASE j # n + 1
    <3>1. j \in 1 .. n /\ t[j] = s[j]
      <4>1. j \in 1 .. n
        BY <1>0, <1>5, <2>3
      <4>. QED
        BY <1>4, <4>1
    <3>. QED
      BY <1>1, <1>10, <2>1, <3>1 DEF Numbered
  <2>. QED
    BY <2>2, <2>3
<1>11. w + f = LastByte(t, Len(t))
  BY <1>4, <1>8
<1>12. Numbered(t, w + f)
  BY <1>4, <1>9, <1>10, <1>11 DEF Numbered, R
<1>. QED
  BY <1>12 DEF t, f, m

(* What has been written already does not change. *)
LEMMA CarriesMore ==
  ASSUME NEW s, NEW w, Numbered(s, w), NEW p,
         NEW bytes \in Seq(Nat), NEW q \in Int, q + Len(bytes) <= w,
         Carries(s, bytes, q)
  PROVE  Carries(Append(s, Packet(p, w)), bytes, q)
<1>. DEFINE t == Append(s, Packet(p, w))
<1>0. Len(s) \in Nat
  BY LenProperties DEF Numbered
<1>1. /\ Len(s) \in Nat /\ DOMAIN s = 1 .. Len(s) /\ w \in Nat
  <2>1. Len(s) \in 0 .. Len(s)
    BY <1>0
  <2>. QED
    BY <2>1, LastBytes
<1>2. /\ DOMAIN t = 1 .. Len(s) + 1 /\ t[Len(s) + 1] = Packet(p, w)
      /\ \A i \in 1 .. Len(s) : t[i] = s[i]
  BY <1>1, AppendProperties DEF Numbered
<1>3. /\ DOMAIN bytes = 1 .. Len(bytes) /\ Len(bytes) \in Nat
  BY LenProperties
<1>. HIDE DEF t
<1>4. ASSUME NEW j \in DOMAIN bytes, NEW i \in DOMAIN t,
             q + j \in t[i].first .. t[i].last
      PROVE  bytes[j] = ByteOf(t[i], q + j)
  <2>1. i # Len(s) + 1
    <3>1. q + j <= w
      BY <1>1, <1>3
    <3>2. ASSUME i = Len(s) + 1 PROVE FALSE
      <4>1. t[i].first = w + 1
        BY <1>2, <3>2 DEF Packet
      <4>2. q + j >= w + 1
        BY <1>1, <1>3, <1>4, <4>1
      <4>. QED
        BY <1>1, <1>3, <3>1, <4>2
    <3>. QED
      BY <3>2
  <2>2. i \in DOMAIN s /\ t[i] = s[i]
    BY <1>1, <1>2, <2>1
  <2>. QED
    BY <1>4, <2>2 DEF Carries
<1>. QED
  BY <1>4 DEF Carries, t

LEMMA SendPacketInSync ==
  ASSUME CrcIsBytes, IInv, Windows, InSync, NEW p \in Payloads, SendPacket(p)
  PROVE  InSync'
<1>. DEFINE f == Create(p)
<1>1. p \in Seq(Nat) /\ Len(p) \in Nat /\ Len(p) <= MaxPayload
  <2>1. p \in Seq(Nat) /\ Len(p) \in Nat
    BY ParserAssumption, LenProperties
  <2>2. f # <<>>
    BY DEF SendPacket
  <2>. QED
    BY <2>1, <2>2, Lengths DEF Create
<1>2. f \in Seq(Nat) /\ Len(f) \in Nat
  BY <1>1, FrameShape, LenProperties
<1>3. /\ net' = net \o f /\ written' = written + Len(f)
      /\ sent' = Append(sent, Packet(p, written))
      /\ UNCHANGED <<stream, offsetBuff, buff, posBuff, parsFunc, packetData,
                     lenghtBuff, lenPayload, delivered>>
  <2>1. wire' = wire \o f /\ wire \in Seq(Nat)
    BY DEF SendPacket, Transmit, DInv, IInv, ParserTypes
  <2>2. written' = written + Len(f)
    BY <1>2, <2>1, Joined DEF written
  <2>. QED
    BY <2>2 DEF SendPacket, Transmit, Packet, parserVars
<1>. HIDE DEF f
<1>4. /\ Len(net) \in Nat /\ Len(stream) \in Nat /\ Len(buff) \in Nat
      /\ posBuff \in Nat /\ offsetBuff \in Nat /\ written \in Nat
      /\ Len(delivered) \in Nat /\ Len(sent) \in Nat
      /\ DOMAIN sent = 1 .. Len(sent) /\ Len(delivered) <= Len(sent)
      /\ DOMAIN delivered = 1 .. Len(delivered)
  BY Counts
<1>5. net \in Seq(Nat) /\ stream \in Seq(Nat) /\ buff \in Seq(Nat)
  BY DEF IInv, ParserTypes
<1>6. offsetBuff <= Len(stream)
  BY DEF Windows
<1>7. /\ Numbered(sent, written) /\ Carries(sent, net, Taken)
      /\ Carries(sent, stream, Taken - Len(stream))
      /\ Carries(sent, buff, Windowed - Len(buff))
      /\ InFrame(sent, delivered, packetData, parsFunc, lenghtBuff, lenPayload)
  BY DEF InSync
<1>8. /\ net' \in Seq(Nat) /\ Len(net') = Len(net) + Len(f)
      /\ \A j \in 1 .. Len(net) : net'[j] = net[j]
      /\ \A j \in 1 .. Len(f) : net'[Len(net) + j] = f[j]
  BY <1>2, <1>3, <1>5, Joined
<1>9. /\ Taken = written - Len(net) /\ Taken \in Int /\ Taken' = Taken
      /\ Windowed \in Int /\ Windowed' = Windowed /\ Seen' = Seen
      /\ Windowed = Taken - Len(stream) + offsetBuff
  <2>1. Taken' = Taken /\ Taken \in Int /\ Taken = written - Len(net)
    BY <1>2, <1>3, <1>4, <1>8 DEF Taken
  <2>. QED
    BY <1>3, <1>4, <2>1 DEF Windowed, Seen
<1>10. Numbered(sent, written)'
  BY <1>1, <1>3, <1>7, NumberedMore DEF f
<1>11. Carries(sent, stream, Taken - Len(stream))'
  <2>1. Taken - Len(stream) \in Int /\ Taken - Len(stream) + Len(stream) <= written
    BY <1>4, <1>9
  <2>2. Carries(sent', stream, Taken - Len(stream))
    BY <1>3, <1>5, <1>7, <2>1, CarriesMore
  <2>. QED
    BY <1>3, <1>9, <2>2
<1>12. Carries(sent, buff, Windowed - Len(buff))'
  <2>1. Windowed - Len(buff) \in Int /\ Windowed - Len(buff) + Len(buff) <= written
    BY <1>4, <1>6, <1>9
  <2>2. Carries(sent', buff, Windowed - Len(buff))
    BY <1>3, <1>5, <1>7, <2>1, CarriesMore
  <2>. QED
    BY <1>3, <1>9, <2>2
<1>13. Carries(sent, net, Taken)'
  <2>. SUFFICES ASSUME NEW j \in DOMAIN net', NEW i \in DOMAIN sent',
                       Taken + j \in sent'[i].first .. sent'[i].last
                PROVE  net'[j] = ByteOf(sent'[i], Taken + j)
    BY <1>9 DEF Carries
  <2>1. j \in 1 .. Len(net) + Len(f)
    BY <1>8, LenProperties
  <2>2. Carries(sent', net, Taken)
    <3>1. Taken + Len(net) <= written
      BY <1>4, <1>9
    <3>. QED
      BY <1>3, <1>5, <1>7, <1>9, <3>1, CarriesMore
  <2>3. CASE j <= Len(net)
    <3>1. j \in 1 .. Len(net) /\ j \in DOMAIN net
      BY <1>2, <1>4, <1>5, <2>1, <2>3, LenProperties
    <3>2. net[j] = ByteOf(sent'[i], Taken + j)
      BY <2>2, <3>1 DEF Carries
    <3>. QED
      BY <1>8, <3>1, <3>2
  <2>4. CASE j > Len(net)
    <3>. DEFINE k == j - Len(net)
    <3>1. k \in 1 .. Len(f) /\ j = Len(net) + k /\ Taken + j = written + k
      <4>1. /\ Len(net) \in Nat /\ Len(f) \in Nat /\ written \in Nat
            /\ Taken = written - Len(net)
            /\ j \in 1 .. Len(net) + Len(f) /\ j > Len(net)
        BY <1>2, <1>4, <1>9, <2>1, <2>4
      <4>2. k \in 1 .. Len(f) /\ j = Len(net) + k
        BY <4>1
      <4>. QED
        BY <4>1, <4>2
    <3>. HIDE DEF k
    <3>2. /\ DOMAIN sent' = 1 .. Len(sent) + 1
          /\ sent'[Len(sent) + 1] = Packet(p, written)
          /\ \A x \in 1 .. Len(sent) : sent'[x] = sent[x]
      BY <1>3, <1>4, <1>7, AppendProperties DEF Numbered
    <3>3. i = Len(sent) + 1
      <4>1. ASSUME i # Len(sent) + 1 PROVE FALSE
        <5>1. i \in 1 .. Len(sent) /\ i \in DOMAIN sent
          BY <1>4, <3>2, <4>1
        <5>2. sent'[i].last <= written
          BY <1>7, <3>2, <5>1 DEF Numbered
        <5>3. sent[i] \in [payload : Seq(Nat), first : Nat, last : Nat]
          BY <1>7, <5>1, ElementOfSeq DEF Numbered
        <5>4. sent'[i].last \in Nat /\ written + k <= sent'[i].last
          BY <1>4, <3>1, <3>2, <5>1, <5>3, SMTT(20)
        <5>. QED
          BY <1>4, <3>1, <5>2, <5>4
      <4>. QED
        BY <4>1
    <3>4. ByteOf(sent'[i], Taken + j) = f[k]
      <4>1. sent'[i].payload = p /\ sent'[i].first = written + 1
        BY <3>2, <3>3 DEF Packet
      <4>2. k \in Nat
        BY <1>2, <3>1
      <4>3. (written + k) - (written + 1) + 1 = k
        BY <1>4, <4>2
      <4>4. (Taken + j) - sent'[i].first + 1 = k
        BY <3>1, <4>1, <4>3, Zenon
      <4>5. ByteOf(sent'[i], Taken + j) = Create(sent'[i].payload)[k]
        BY <4>4, ByteAt, Zenon
      <4>. QED
        BY <4>1, <4>5 DEF f
    <3>. QED
      BY <1>8, <3>1, <3>4, Zenon
  <2>. QED
    BY <1>2, <1>4, <2>1, <2>3, <2>4
<1>14. /\ Len(sent') = Len(sent) + 1
       /\ \A i \in 1 .. Len(sent) : sent'[i] = sent[i]
  BY <1>3, <1>7, AppendProperties DEF Numbered
<1>15. InFrame(sent, delivered, packetData, parsFunc, lenghtBuff, lenPayload)'
  <2>1. \A i \in DOMAIN delivered : delivered[i] = sent'[i].payload
    <3>1. \A i \in DOMAIN delivered : i \in 1 .. Len(sent)
      BY <1>4
    <3>. QED
      BY <1>7, <1>14, <3>1 DEF InFrame
  <2>2. Len(delivered) < Len(sent) => sent'[Len(delivered) + 1] = sent[Len(delivered) + 1]
    <3>1. Len(delivered) < Len(sent) => Len(delivered) + 1 \in 1 .. Len(sent)
      BY <1>4
    <3>. QED
      BY <1>14, <3>1
  <2>3. ASSUME NEW j \in DOMAIN packetData
        PROVE  /\ Len(delivered) < Len(sent')
               /\ packetData[j] = Create(sent'[Len(delivered) + 1].payload)[j]
    <3>1. /\ Len(delivered) < Len(sent)
          /\ packetData[j] = Create(sent[Len(delivered) + 1].payload)[j]
      BY <1>7 DEF InFrame
    <3>2. Len(delivered) < Len(sent')
      BY <1>4, <1>14, <3>1
    <3>. QED
      BY <2>2, <3>1, <3>2
  <2>4. ASSUME parsFunc = "Payload"
        PROVE  lenPayload = Len(sent'[Len(delivered) + 1].payload)
    <3>1. lenPayload = Len(sent[Len(delivered) + 1].payload)
      BY <1>7, <2>4 DEF InFrame
    <3>2. Len(delivered) < Len(sent)
      <4>1. 1 \in DOMAIN packetData
        <5>1. packetData \in Seq(Nat) /\ posPacket >= posPayload
          BY <2>4 DEF IInv, ParserTypes, ParserConsistent
        <5>2. Len(packetData) \in Nat /\ Len(packetData) >= 1
          BY <5>1, Lengths, LenProperties DEF posPacket
        <5>. QED
          BY <5>1, <5>2, LenProperties
      <4>. QED
        BY <1>7, <4>1 DEF InFrame
    <3>. QED
      BY <2>2, <3>1, <3>2
  <2>5. Len(delivered) <= Len(sent')
    BY <1>4, <1>14
  <2>. QED
    BY <1>3, <1>7, <2>1, <2>3, <2>4, <2>5 DEF InFrame
<1>16. Seen' = LastByte(sent, Len(delivered))' + posPacket'
  <2>1. LastByte(sent', Len(delivered)) = LastByte(sent, Len(delivered))
    <3>1. Len(delivered) # 0 => Len(delivered) \in 1 .. Len(sent)
      BY <1>4
    <3>. QED
      BY <1>14, <3>1 DEF LastByte
  <2>2. posPacket' = posPacket
    BY <1>3 DEF posPacket
  <2>. QED
    BY <1>3, <1>9, <2>1, <2>2 DEF InSync
<1>17. posBuff' <= Len(buff')
  BY <1>3 DEF InSync
<1>. QED
  BY <1>10, <1>11, <1>12, <1>13, <1>15, <1>16, <1>17 DEF InSync

-----------------------------------------------------------------------------
(* A window in use is never empty, and OnRecv leaves none. *)
LEMMA StepToWindow ==
  ASSUME IInv, Windows, HasByte, Elsewhere, NEW p \in Nat, StepTo(p)
  PROVE  Windows'
<1>1. /\ buff # <<>> /\ pc = "parse"
  <2>1. Len(buff) # 0
    BY LenProperties DEF HasByte, IInv, ParserTypes
  <2>. QED
    BY <2>1, EmptySeq DEF HasByte
<1>2. UNCHANGED <<pc, stream, offsetBuff>>
  BY DEF Elsewhere
<1>3. buff' = <<>> => posBuff' = 0
  BY <1>1 DEF StepTo
<1>. QED
  BY <1>1, <1>2, <1>3 DEF Windows

LEMMA ParseByteWindow ==
  ASSUME IInv, Windows, ParseByte PROVE Windows'
<1>1. HasByte /\ Elsewhere
  BY DEF ParseByte, ScanMID, LengthByte, LengthDone, PayloadByte, PacketDone,
         PacketCorrupt, FrameComplete
<1>2. posBuff + 1 \in Nat
  BY <1>1, Looking
<1>3. posBuffBeginPack' \in Nat
  BY <1>1, Looking
  DEF ParseByte, ScanMID, LengthByte, LengthDone, PayloadByte, PacketDone,
      PacketCorrupt, IInv, ParserTypes
<1>4. StepTo(posBuff + 1) \/ StepTo(posBuffBeginPack' + 1)
  BY DEF ParseByte, ScanMID, LengthByte, LengthDone, PayloadByte, PacketDone,
         PacketCorrupt, Accept, StartOver
<1>. DEFINE b == posBuffBeginPack'
<1>5. b \in Nat => b + 1 \in Nat
  <2>. HIDE DEF b
  <2>. QED
    OBVIOUS
<1>. QED
  BY <1>1, <1>2, <1>3, <1>4, <1>5, StepToWindow

LEMMA WindowsKept == ASSUME IInv, Windows, [Next]_vars PROVE Windows'
<1>1. ASSUME UNCHANGED <<buff, posBuff, stream, offsetBuff, pc>> PROVE Windows'
  BY <1>1 DEF Windows
<1>2. CASE \/ \E p \in Payloads : SendPacket(p) \/ SendShort(p)
           \/ \E bytes \in Noise : SendNoise(bytes)
  BY <1>1, <1>2 DEF SendPacket, SendShort, SendNoise, Transmit, parserVars
<1>3. ASSUME NEW n \in 1 .. Len(net), Recv(n) PROVE Windows'
  <2>1. /\ pc' = "parse" /\ UNCHANGED <<buff, posBuff, offsetBuff>>
        /\ offsetBuff = 0
    BY <1>3 DEF Recv, Windows
  <2>2. stream' \in Seq(Nat)
    BY <1>3, RecvKeeps DEF IInv, ParserTypes
  <2>3. offsetBuff <= Len(stream')
    BY <2>1, <2>2, LenProperties
  <2>. QED
    BY <2>1, <2>3 DEF Windows
<1>4. CASE ReadWindow
  <2>. DEFINE end == IF offsetBuff + MaxBuffLen < Len(stream)
                     THEN offsetBuff + MaxBuffLen ELSE Len(stream)
  <2>1. /\ posBuff = 0 /\ posBuff' = posBuff /\ stream' = stream
        /\ pc = "parse" /\ pc' = pc
        /\ buff' = SubSeq(stream, offsetBuff + 1, end) /\ offsetBuff' = end
    BY <1>4 DEF ReadWindow, Windows
  <2>2. end <= Len(stream)
    BY LenProperties, ParserAssumption DEF IInv, ParserTypes
  <2>. HIDE DEF end
  <2>. QED
    BY <2>1, <2>2 DEF Windows
<1>5. CASE OnRecvEnd
  BY <1>5, EmptySeq DEF OnRecvEnd, Windows, parserVars
<1>6. CASE ParseByte
  BY <1>6, ParseByteWindow
<1>7. CASE Spin \/ UNCHANGED vars
  BY <1>1, <1>7 DEF Spin, vars, parserVars
<1>. QED
  BY <1>2, <1>3, <1>4, <1>5, <1>6, <1>7 DEF Next, OnRecvStep

LEMMA SyncKept ==
  ASSUME CrcIsBytes, IInv, Windows, InSync, [Next]_vars,
         noises = 0, noises' = 0, ~clobbered, ~clobbered'
  PROVE  InSync'
<1>1. ASSUME NEW p \in Payloads, SendPacket(p) PROVE InSync'
  BY <1>1, SendPacketInSync
<1>2. ASSUME NEW p \in Payloads PROVE ~SendShort(p)
  BY DEF SendShort
<1>3. ASSUME NEW bytes \in Noise PROVE ~SendNoise(bytes)
  BY DEF SendNoise
<1>4. ASSUME NEW n \in 1 .. Len(net), Recv(n) PROVE InSync'
  <2>1. packetData' = packetData
    BY <1>4 DEF Recv
  <2>. QED
    BY <1>4, <2>1, RecvInSync
<1>5. CASE OnRecvStep
  <2>1. CASE ReadWindow
    BY <2>1, ReadWindowInSync
  <2>2. CASE ParseByte
    BY <2>2, ParseByteInSync
  <2>3. CASE OnRecvEnd
    BY <2>3, OnRecvEndInSync
  <2>4. CASE Spin
    <3>1. ~Hangs
      <4>1. posBuff \in Nat /\ Len(buff) \in Nat /\ posBuff <= Len(buff)
        BY Counts DEF InSync
      <4>. QED
        BY <4>1 DEF Hangs
    <3>. QED
      BY <2>4, <3>1 DEF Spin
  <2>. QED
    BY <1>5, <2>1, <2>2, <2>3, <2>4 DEF OnRecvStep
<1>6. CASE UNCHANGED vars
  BY <1>6 DEF vars, parserVars, senderVars, InSync, InFrame, Taken, Windowed, Seen,
     posPacket, written
<1>. QED
  BY <1>1, <1>2, <1>3, <1>4, <1>5, <1>6 DEF Next

(* The noise and the overwritten frames of a connection are never undone. *)
LEMMA HistoryKept ==
  ASSUME noises \in Nat, [Next]_vars
  PROVE  /\ noises' \in Nat
         /\ noises' = 0 => noises = 0
         /\ ~clobbered' => ~clobbered
<1>1. noises' \in {noises, noises + 1} /\ (clobbered' = clobbered \/ clobbered')
  <2>1. ASSUME NEW p \in Payloads, SendPacket(p) \/ SendShort(p)
        PROVE  noises' \in {noises, noises + 1} /\ clobbered' = clobbered
    BY <2>1 DEF SendPacket, SendShort, Transmit
  <2>2. ASSUME NEW bytes \in Noise, SendNoise(bytes)
        PROVE  noises' \in {noises, noises + 1} /\ clobbered' = clobbered
    BY <2>2 DEF SendNoise, Transmit
  <2>3. ASSUME NEW n \in 1 .. Len(net), Recv(n)
        PROVE  noises' = noises /\ (clobbered' = clobbered \/ clobbered')
    BY <2>3 DEF Recv, senderVars
  <2>4. CASE OnRecvStep \/ UNCHANGED vars
    BY <2>4 DEF OnRecvStep, ReadWindow, OnRecvEnd, Spin, ParseByte, ScanMID,
       LengthByte, LengthDone, PayloadByte, PacketDone, PacketCorrupt, Elsewhere,
       senderVars, vars
  <2>. QED
    BY <2>1, <2>2, <2>3, <2>4 DEF Next
<1>. QED
  BY <1>1

-----------------------------------------------------------------------------
LEMMA StepKeeps == CrcIsBytes /\ IInv /\ [Next]_vars => IInv'
<1>. SUFFICES ASSUME CrcIsBytes, IInv, [Next]_vars PROVE IInv'
  OBVIOUS
<1>1. CASE \/ \E p \in Payloads : SendPacket(p) \/ SendShort(p)
           \/ \E bytes \in Noise : SendNoise(bytes)
  BY <1>1, SenderKeeps
<1>2. CASE \E n \in 1 .. Len(net) : Recv(n)
  BY <1>2, RecvKeeps
<1>3. CASE ReadWindow \/ OnRecvEnd
  BY <1>3, WindowKeeps
<1>4. CASE ParseByte
  BY <1>4, ScanMIDKeeps, LengthByteKeeps, LengthDoneKeeps, PayloadByteKeeps,
     FrameEndKeeps DEF ParseByte
<1>5. CASE UNCHANGED vars
  BY <1>5 DEF IInv, ParserTypes, ParserConsistent, posPacket, vars, parserVars, senderVars
<1>6. CASE Spin
  BY <1>5, <1>6 DEF Spin
<1>. QED
  BY <1>1, <1>2, <1>3, <1>4, <1>5, <1>6 DEF Next, OnRecvStep

(* Across windows and calls, through any noise, the parser's state, the length
   field it has buffered and the place it has reached in the frame agree. *)
THEOREM ConsistentParser == CrcIsBytes => (Spec => []ParserConsistent)
<1>1. IInv => ParserConsistent
  BY DEF IInv
<1>2. CrcIsBytes => (Spec => []IInv)
  <2>. SUFFICES ASSUME CrcIsBytes PROVE Spec => []IInv
    OBVIOUS
  <2>1. IInv /\ [Next]_vars => IInv'
    BY StepKeeps
  <2>. QED
    BY InitHolds, <2>1, PTL DEF Spec
<1>. QED
  BY <1>1, <1>2, PTL

LEMMA SyncAtFirst == Init => DInv
<1>. SUFFICES ASSUME Init PROVE DInv
  OBVIOUS
<1>1. /\ net = <<>> /\ stream = <<>> /\ buff = <<>> /\ packetData = <<>>
      /\ delivered = <<>> /\ sent = <<>> /\ lenghtBuff = <<>>
      /\ posBuff = 0 /\ offsetBuff = 0 /\ written = 0 /\ noises = 0
      /\ parsFunc = "ScanMID" /\ Len(<<>>) = 0
  BY EmptySeq DEF Init, written
<1>2. Windows
  BY <1>1 DEF Windows
<1>3. Numbered(sent, written)
  BY <1>1, EmptySeq DEF Numbered, LastByte
<1>4. InFrame(sent, delivered, packetData, parsFunc, lenghtBuff, lenPayload)
  BY <1>1, EmptySeq DEF InFrame
<1>5. InSync
  BY <1>1, <1>3, <1>4
  DEF InSync, Carries, Taken, Windowed, Seen, LastByte, posPacket
<1>. QED
  BY <1>1, <1>2, <1>5, InitHolds DEF DInv

LEMMA SyncStep == CrcIsBytes /\ DInv /\ [Next]_vars => DInv'
<1>. SUFFICES ASSUME CrcIsBytes, DInv, [Next]_vars PROVE DInv'
  OBVIOUS
<1>1. IInv' /\ Windows' /\ noises' \in Nat
  BY StepKeeps, WindowsKept, HistoryKept DEF DInv
<1>2. ASSUME noises' = 0, ~clobbered' PROVE InSync'
  BY <1>2, HistoryKept, SyncKept DEF DInv
<1>. QED
  BY <1>1, <1>2 DEF DInv

LEMMA DeliveredEarlier ==
  ASSUME CrcIsBytes, IInv, InSync, NEW i \in DOMAIN sent, i <= Len(delivered)
  PROVE  sent[i].last <= LastByte(sent, Len(delivered))
<1>. DEFINE D == Len(delivered)
<1>1. D \in DOMAIN sent /\ LastByte(sent, D) = sent[D].last /\ i \in Nat
  BY Counts DEF LastByte
<1>2. /\ Numbered(sent, written)
      /\ \A k \in DOMAIN sent : /\ sent[k].first \in Nat /\ sent[k].last \in Nat
                               /\ sent[k].first <= sent[k].last
  BY Packets DEF InSync
<1>3. CASE i = D
  BY <1>1, <1>2, <1>3
<1>4. CASE i # D
  <2>1. i < D
    BY <1>1, <1>4, Counts
  <2>2. sent[i].last < sent[D].first
    BY <1>1, <1>2, <2>1 DEF Numbered
  <2>. QED
    BY <1>1, <1>2, <2>2
<1>. QED
  BY <1>3, <1>4

(* What the parser knows between two calls: it has delivered the packets it has
   read the end of, and no other. *)
LEMMA ReceivedInSync ==
  ASSUME CrcIsBytes, IInv, Windows, InSync, pc = "idle"
  PROVE  DeliversReceived
<1>. DEFINE D == Len(delivered)
<1>1. /\ Len(net) \in Nat /\ written \in Nat /\ posPacket \in Nat
      /\ D \in Nat /\ Len(sent) \in Nat /\ D <= Len(sent)
      /\ DOMAIN sent = 1 .. Len(sent) /\ DOMAIN delivered = 1 .. D
      /\ LastByte(sent, D) \in Nat
  BY Counts
<1>2. Taken = LastByte(sent, D) + posPacket
  <2>1. stream = <<>> /\ buff = <<>> /\ offsetBuff = 0 /\ posBuff = 0
    BY DEF Windows
  <2>2. Len(<<>>) = 0
    BY EmptySeq
  <2>3. Taken \in Int /\ Seen = Taken
    BY <1>1, <2>1, <2>2 DEF Taken, Windowed, Seen
  <2>. QED
    BY <2>3 DEF InSync
<1>3. /\ Numbered(sent, written)
      /\ InFrame(sent, delivered, packetData, parsFunc, lenghtBuff, lenPayload)
  BY DEF InSync
<1>4. ASSUME NEW i \in DOMAIN sent
      PROVE  /\ sent[i].first \in Nat /\ sent[i].last \in Nat
             /\ sent[i].first <= sent[i].last
  BY <1>3, Packets
<1>5. ASSUME NEW i \in DOMAIN sent, i <= D PROVE sent[i].last <= Taken
  <2>1. sent[i].last <= LastByte(sent, D)
    BY <1>5, DeliveredEarlier
  <2>. QED
    BY <1>1, <1>2, <1>4, <2>1
<1>6. ASSUME NEW i \in DOMAIN sent, ~(i <= D) PROVE ~(sent[i].last <= Taken)
  <2>1. D + 1 \in DOMAIN sent /\ i \in Nat
    BY <1>1, <1>6
  <2>2. /\ sent[D + 1].last = LastByte(sent, D) + Len(Create(due))
        /\ due \in Seq(Nat) /\ Len(due) \in Nat /\ Len(due) <= MaxPayload
    <3>1. D + 1 - 1 = D
      BY <1>1
    <3>. QED
      BY <1>3, <2>1, <3>1, Packets DEF due
  <2>3. Len(Create(due)) \in Nat /\ posPacket < Len(Create(due))
    BY <2>2, FramePart
  <2>4. Taken < sent[D + 1].last
    BY <1>1, <1>2, <2>2, <2>3
  <2>5. sent[D + 1].last <= sent[i].last
    <3>1. CASE i = D + 1
      BY <1>4, <3>1
    <3>2. CASE i # D + 1
      <4>1. D + 1 < i
        BY <1>1, <1>6, <2>1, <3>2
      <4>2. sent[D + 1].last < sent[i].first
        BY <1>3, <2>1, <4>1 DEF Numbered
      <4>. QED
        BY <1>4, <2>1, <4>2
    <3>. QED
      BY <3>1, <3>2
  <2>6. sent[D + 1].last \in Nat /\ sent[i].last \in Nat
    BY <1>4, <2>1
  <2>. QED
    BY <1>1, <1>2, <2>4, <2>5, <2>6
<1>7. \A i \in DOMAIN sent : i \in DOMAIN delivered <=> i <= D
  BY <1>1
<1>8. \A i \in DOMAIN delivered : delivered[i] = sent[i].payload
  BY <1>3 DEF InFrame
<1>. QED
  BY <1>1, <1>5, <1>6, <1>7, <1>8 DEF DeliversReceived

(* The parser is in step with the sender: without noise, and with the frame in
   progress intact, what it has delivered, what of the next frame it holds and
   what it has still to look at are together what was sent. *)
THEOREM SyncInvariant == CrcIsBytes => (Spec => []DInv)
<1>. SUFFICES ASSUME CrcIsBytes PROVE Spec => []DInv
  OBVIOUS
<1>1. DInv /\ [Next]_vars => DInv'
  BY SyncStep
<1>. QED
  BY SyncAtFirst, <1>1, PTL DEF Spec

(* Without noise, and as long as no frame in progress is overwritten, exactly
   the packets whose last byte has been read are delivered between two calls,
   however the connection cut the bytes and however large the window is. *)
THEOREM PacketsDelivered == CrcIsBytes => (Spec => []DeliversReceived)
<1>. SUFFICES ASSUME CrcIsBytes PROVE Spec => []DeliversReceived
  OBVIOUS
<1>1. DInv => DeliversReceived
  BY ReceivedInSync DEF DInv, DeliversReceived
<1>2. Spec => []DInv
  BY SyncInvariant
<1>. QED
  BY <1>1, <1>2, PTL

LEMMA MatchedInOrder ==
  ASSUME NEW f \in [1 .. Len(delivered) -> 1 .. Len(sent)],
         \A i \in DOMAIN f : /\ delivered[i] = sent[f[i]].payload
                             /\ sent[f[i]].last <= Taken
                             /\ i > 1 => f[i - 1] < f[i]
  PROVE  DeliveredWereSent
  BY DEF DeliveredWereSent

LEMMA SentInSync ==
  ASSUME CrcIsBytes, IInv, Windows, InSync PROVE DeliveredWereSent /\ ~Hangs
<1>. DEFINE D == Len(delivered)
<1>1. /\ Len(net) \in Nat /\ written \in Nat /\ posPacket \in Nat
      /\ D \in Nat /\ Len(sent) \in Nat /\ D <= Len(sent)
      /\ DOMAIN sent = 1 .. Len(sent) /\ DOMAIN delivered = 1 .. D
      /\ LastByte(sent, D) \in Nat
  BY Counts
<1>2. LastByte(sent, D) <= Taken
  <2>1. /\ offsetBuff <= Len(stream) /\ posBuff <= Len(buff)
        /\ Seen = LastByte(sent, D) + posPacket
    BY DEF Windows, InSync
  <2>2. /\ Len(stream) \in Nat /\ Len(buff) \in Nat
        /\ offsetBuff \in Nat /\ posBuff \in Nat
    BY LenProperties DEF IInv, ParserTypes
  <2>. QED
    BY <1>1, <2>1, <2>2 DEF Seen, Windowed, Taken
<1>3. ASSUME NEW i \in 1 .. D
      PROVE  /\ i \in 1 .. Len(sent) /\ delivered[i] = sent[i].payload
             /\ sent[i].last <= Taken
  <2>1. i \in DOMAIN sent /\ i <= D /\ i \in DOMAIN delivered
    BY <1>1
  <2>2. sent[i].last <= LastByte(sent, D)
    BY <2>1, DeliveredEarlier
  <2>3. Numbered(sent, written) /\ Taken \in Int
    BY <1>1 DEF InSync, Taken
  <2>4. sent[i].last \in Nat
    BY <2>1, <2>3, Packets
  <2>. QED
    BY <1>1, <1>2, <2>1, <2>2, <2>3, <2>4, SMTT(30) DEF InSync, InFrame
<1>4. DeliveredWereSent
  <2>. DEFINE same == [i \in 1 .. D |-> i]
  <2>1. same \in [1 .. D -> 1 .. Len(sent)]
    BY <1>1
  <2>2. \A i \in DOMAIN same : /\ delivered[i] = sent[same[i]].payload
                               /\ sent[same[i]].last <= Taken
                               /\ i > 1 => same[i - 1] < same[i]
    BY <1>1, <1>3
  <2>. HIDE DEF same
  <2>. QED
    BY <2>1, <2>2, MatchedInOrder
<1>5. ~Hangs
  <2>1. posBuff <= Len(buff) /\ posBuff \in Nat /\ Len(buff) \in Nat
    BY LenProperties DEF InSync, IInv, ParserTypes
  <2>. QED
    BY <2>1 DEF Hangs
<1>. QED
  BY <1>4, <1>5

(* Without noise, and as long as no frame in progress is overwritten, nothing is
   delivered at any time that was not sent, whole and in this order, and the loop
   of recvPacket never goes back behind its window, from where it does not
   return. *)
THEOREM CleanParser ==
  CrcIsBytes =>
    (Spec => [](noises = 0 /\ ~clobbered => DeliveredWereSent /\ ~Hangs))
<1>. SUFFICES ASSUME CrcIsBytes
              PROVE  Spec => [](noises = 0 /\ ~clobbered
                                  => DeliveredWereSent /\ ~Hangs)
  OBVIOUS
<1>1. DInv => (noises = 0 /\ ~clobbered => DeliveredWereSent /\ ~Hangs)
  BY SentInSync DEF DInv
<1>2. Spec => []DInv
  BY SyncInvariant
<1>. QED
  BY <1>1, <1>2, PTL

-----------------------------------------------------------------------------
(* Where the frame in progress began, whatever is on the connection. *)

(* A frame that began in this window began where the parser remembers. *)
BeginKnown ==
  packetData # <<>> /\ posPacket <= posBuff
    => posBuffBeginPack = posBuff - posPacket

PlaceInv == IInv /\ Windows /\ BeginKnown

LEMMA Places ==
  ASSUME IInv
  PROVE  /\ Len(net) \in Nat /\ Len(stream) \in Nat /\ Len(buff) \in Nat
         /\ posBuff \in Nat /\ offsetBuff \in Nat /\ posPacket \in Nat
         /\ written \in Nat /\ posBuffBeginPack \in Nat
         /\ Taken \in Int /\ Windowed \in Int /\ Seen \in Int /\ FrameStart \in Int
<1>1. /\ Len(net) \in Nat /\ Len(stream) \in Nat /\ Len(buff) \in Nat
      /\ posBuff \in Nat /\ offsetBuff \in Nat /\ posPacket \in Nat
      /\ written \in Nat /\ posBuffBeginPack \in Nat
  BY LenProperties DEF IInv, ParserTypes, posPacket, written
<1>. QED
  BY <1>1 DEF Taken, Windowed, Seen, FrameStart

LEMMA SeenIs == Seen = Windowed - Len(buff) + posBuff
  BY DEF Seen

LEMMA FrameStartIs == FrameStart = Seen - posPacket + 1
  BY DEF FrameStart

LEMMA NoFrame ==
  ASSUME IInv PROVE packetData = <<>> <=> posPacket = 0
  BY EmptySeq DEF IInv, ParserTypes, posPacket

(* The loop goes on at position p, or gives the window up there. *)
LEMMA StepToPlace ==
  ASSUME IInv, Elsewhere, NEW p \in Nat, StepTo(p)
  PROVE  /\ Taken' = Taken /\ Windowed' = Windowed /\ Seen' = Seen - posBuff + p
         /\ \/ posBuff' = p /\ buff' = buff
            \/ posBuff' = 0 /\ buff' = <<>> /\ p = Len(buff)
<1>1. Taken' = Taken /\ Windowed' = Windowed
  BY DEF Elsewhere, senderVars, written, Taken, Windowed
<1>0. /\ Windowed \in Int /\ Len(buff) \in Nat /\ posBuff \in Nat
      /\ Seen = Windowed - Len(buff) + posBuff
  BY Places, SeenIs
<1>2. CASE p = Len(buff)
  <2>1. posBuff' = 0 /\ buff' = <<>> /\ Len(buff') = 0
    BY <1>2, EmptySeq DEF StepTo
  <2>2. Seen' = Windowed - 0 + 0
    BY <1>1, <2>1 DEF Seen
  <2>. QED
    BY <1>0, <1>1, <1>2, <2>1, <2>2
<1>3. CASE p # Len(buff)
  <2>1. posBuff' = p /\ buff' = buff
    BY <1>3 DEF StepTo
  <2>2. Seen' = Windowed - Len(buff) + p
    BY <1>1, <2>1 DEF Seen
  <2>. QED
    BY <1>0, <1>1, <2>1, <2>2
<1>. QED
  BY <1>2, <1>3

(* The three things a byte does: it lengthens the frame, it makes the parser
   start over, or it ends a packet. *)
FrameGoesOn ==
  /\ \E state \in {"ScanMID", "DataLength", "Payload"} : Accept(state)
  /\ posBuffBeginPack' = IF posPacket = 0 THEN posBuff ELSE posBuffBeginPack
  /\ delivered' = delivered

FrameGivenUp ==
  /\ StartOver
  /\ posBuffBeginPack' = IF posPacket = 0 THEN posBuff ELSE posBuffBeginPack
  /\ delivered' = delivered

LEMMA ByteOutcomes ==
  ASSUME IInv, ParseByte
  PROVE  /\ HasByte /\ Elsewhere
         /\ FrameGoesOn \/ FrameGivenUp \/ PacketDone
<1>1. HasByte /\ Elsewhere
  BY DEF ParseByte, ScanMID, LengthByte, LengthDone, PayloadByte, PacketDone,
         PacketCorrupt, FrameComplete
<1>2. ParserConsistent /\ posPacket \in Nat /\ lenPayload \in Nat
  BY Places DEF IInv, ParserTypes
<1>3. ~ScanMID => posPacket # 0
  BY <1>2, Lengths
  DEF ParseByte, LengthByte, LengthDone, PayloadByte, PacketDone, PacketCorrupt,
      FrameComplete, ParserConsistent
<1>4. CASE ScanMID
  BY <1>1, <1>4 DEF ScanMID, FrameGoesOn, FrameGivenUp
<1>5. CASE LengthByte \/ LengthDone \/ PayloadByte \/ PacketCorrupt
  <2>1. CASE ScanMID
    BY <1>4, <2>1
  <2>2. CASE ~ScanMID
    BY <1>1, <1>3, <1>5, <2>2
    DEF LengthByte, LengthDone, PayloadByte, PacketCorrupt, FrameGoesOn, FrameGivenUp
  <2>. QED
    BY <2>1, <2>2
<1>6. CASE PacketDone
  BY <1>1, <1>6
<1>. QED
  BY <1>4, <1>5, <1>6 DEF ParseByte

LEMMA FrameGrowsHere ==
  ASSUME PlaceInv, HasByte, Elsewhere, FrameGoesOn
  PROVE  /\ FrameStart' = FrameStart /\ posPacket' = posPacket + 1 /\ BeginKnown'
         /\ packetData' = assembled /\ Seen' = Seen + 1
<1>1. PICK state \in {"ScanMID", "DataLength", "Payload"} : Accept(state)
  BY DEF FrameGoesOn
<1>2. IInv /\ BeginKnown
  BY DEF PlaceInv
<1>3. /\ packetData' = assembled /\ StepTo(posBuff + 1) /\ posPacket' = posPacket + 1
  BY <1>1, <1>2, Accepted DEF Accept
<1>0. /\ posBuff \in Nat /\ posPacket \in Nat
      /\ Seen \in Int /\ FrameStart \in Int
  BY <1>2, Places
<1>4. /\ Seen' = Seen + 1
      /\ \/ posBuff' = posBuff + 1 /\ buff' = buff
         \/ posBuff' = 0 /\ buff' = <<>>
  <2>1. posBuff \in Nat /\ posBuff + 1 \in Nat /\ Seen \in Int
    BY <1>2, Places
  <2>2. /\ Seen' = Seen - posBuff + (posBuff + 1)
        /\ \/ posBuff' = posBuff + 1 /\ buff' = buff
           \/ posBuff' = 0 /\ buff' = <<>>
    BY <1>2, <1>3, <2>1, StepToPlace
  <2>. QED
    BY <2>1, <2>2
<1>5. FrameStart' = FrameStart
  <2>1. FrameStart' = Seen' - posPacket' + 1
    BY DEF FrameStart
  <2>. QED
    BY <1>0, <1>3, <1>4, <2>1, FrameStartIs
<1>6. BeginKnown'
  <2>1. SUFFICES ASSUME posPacket' <= posBuff'
                 PROVE  posBuffBeginPack' = posBuff' - posPacket'
    BY DEF BeginKnown
  <2>2. posBuff' = posBuff + 1 /\ posPacket <= posBuff
    BY <1>2, <1>3, <1>4, <2>1, Places, SMTT(20)
  <2>3. CASE posPacket = 0
    BY <1>2, <1>3, <2>2, <2>3, Places DEF FrameGoesOn
  <2>4. CASE posPacket # 0
    <3>1. posBuffBeginPack' = posBuff - posPacket
      BY <1>2, <2>2, <2>4, NoFrame DEF FrameGoesOn, BeginKnown
    <3>2. posBuff \in Nat /\ posPacket \in Nat
      BY <1>2, Places
    <3>. QED
      BY <1>3, <2>2, <3>1, <3>2
  <2>. QED
    BY <2>3, <2>4
<1>. QED
  BY <1>3, <1>4, <1>5, <1>6

LEMMA FrameGivenUpHere ==
  ASSUME PlaceInv, HasByte, Elsewhere, FrameGivenUp
  PROVE  /\ FrameStart' > FrameStart /\ FrameStart' \in Int
         /\ packetData' = <<>> /\ posPacket' = 0
         /\ posPacket <= posBuff => FrameStart' = FrameStart + 1
         /\ parsFunc' = "ScanMID" /\ BeginKnown'
<1>1. IInv /\ BeginKnown
  BY DEF PlaceInv
<1>2. /\ packetData' = <<>> /\ parsFunc' = "ScanMID"
      /\ StepTo(posBuffBeginPack' + 1)
      /\ posBuffBeginPack' = IF posPacket = 0 THEN posBuff ELSE posBuffBeginPack
  BY DEF FrameGivenUp, StartOver, Restart
<1>3. posPacket' = 0
  BY <1>2, EmptySeq DEF posPacket
<1>0. /\ posBuff \in Nat /\ posPacket \in Nat
      /\ Seen \in Int /\ FrameStart \in Int
  BY <1>1, Places
<1>4. posBuffBeginPack' \in Nat /\ posBuffBeginPack' + 1 \in Nat
  <2>1. posBuffBeginPack' \in Nat
    BY <1>1, <1>2, Places
  <2>. DEFINE b == posBuffBeginPack'
  <2>2. b \in Nat => b + 1 \in Nat
    <3>. HIDE DEF b
    <3>. QED
      OBVIOUS
  <2>. QED
    BY <2>1, <2>2
<1>5. Seen' = Seen - posBuff + (posBuffBeginPack' + 1)
  BY <1>1, <1>2, <1>4, StepToPlace
<1>6. FrameStart' = FrameStart + posPacket - posBuff + posBuffBeginPack' + 1
  <2>1. FrameStart' = Seen' - posPacket' + 1
    BY DEF FrameStart
  <2>. QED
    BY <1>0, <1>3, <1>4, <1>5, <2>1, FrameStartIs
<1>7. posPacket <= posBuff => posBuffBeginPack' = posBuff - posPacket
  <2>1. CASE posPacket = 0
    BY <1>1, <1>2, <2>1, Places
  <2>2. CASE posPacket # 0
    BY <1>1, <1>2, <2>2, NoFrame DEF BeginKnown
  <2>. QED
    BY <2>1, <2>2
<1>8. posPacket <= posBuff => FrameStart' = FrameStart + 1
  BY <1>0, <1>4, <1>6, <1>7
<1>9. /\ FrameStart' \in Int
      /\ posPacket > posBuff => FrameStart' > FrameStart
  <2>. DEFINE b == posBuffBeginPack'
              s == FrameStart'
  <2>1. b \in Nat /\ s = FrameStart + posPacket - posBuff + b + 1
    BY <1>4, <1>6
  <2>. HIDE DEF b, s
  <2>2. s \in Int /\ (posPacket > posBuff => s > FrameStart)
    BY <1>0, <2>1
  <2>. QED
    BY <2>2 DEF s
<1>10. FrameStart' > FrameStart
  BY <1>0, <1>8, <1>9
<1>11. BeginKnown'
  BY <1>2 DEF BeginKnown
<1>. QED
  BY <1>2, <1>3, <1>8, <1>9, <1>10, <1>11

LEMMA PacketDoneHere ==
  ASSUME PlaceInv, PacketDone
  PROVE  /\ FrameStart' = FrameStart + posPacket + 1
         /\ packetData' = <<>> /\ posPacket' = 0 /\ BeginKnown'
         /\ parsFunc' = "ScanMID" /\ Taken' = Taken /\ Seen' = Seen + 1
<1>1. IInv /\ HasByte /\ Elsewhere
  BY DEF PlaceInv, PacketDone, FrameComplete
<1>2. packetData' = <<>> /\ parsFunc' = "ScanMID" /\ StepTo(posBuff + 1)
  BY DEF PacketDone, Restart
<1>3. posPacket' = 0
  BY <1>2, EmptySeq DEF posPacket
<1>0. /\ posBuff \in Nat /\ posPacket \in Nat
      /\ Seen \in Int /\ FrameStart \in Int
  BY <1>1, Places
<1>4. Seen' = Seen + 1 /\ Taken' = Taken
  <2>1. posBuff \in Nat /\ posBuff + 1 \in Nat /\ Seen \in Int
    BY <1>1, Places
  <2>2. Seen' = Seen - posBuff + (posBuff + 1) /\ Taken' = Taken
    BY <1>1, <1>2, <2>1, StepToPlace
  <2>. QED
    BY <2>1, <2>2
<1>5. FrameStart' = FrameStart + posPacket + 1
  <2>1. FrameStart' = Seen' - posPacket' + 1
    BY DEF FrameStart
  <2>. QED
    BY <1>0, <1>3, <1>4, <2>1, FrameStartIs
<1>. QED
  BY <1>2, <1>3, <1>4, <1>5 DEF BeginKnown

(* The other steps of OnRecv, and the sender's, leave the frame in its place. *)
LEMMA Untouched ==
  ASSUME UNCHANGED <<buff, posBuff, packetData, posBuffBeginPack>>, Windowed' = Windowed
  PROVE  FrameStart' = FrameStart /\ Seen' = Seen /\ (BeginKnown => BeginKnown')
  BY DEF FrameStart, Seen, posPacket, BeginKnown

LEMMA TransmitPlace ==
  ASSUME IInv, NEW bytes \in Seq(Nat), Transmit(bytes)
  PROVE  /\ Taken' = Taken /\ Windowed' = Windowed
         /\ written' = written + Len(bytes) /\ Len(net') = Len(net) + Len(bytes)
<1>1. /\ wire \in Seq(Nat) /\ net \in Seq(Nat) /\ Len(bytes) \in Nat
      /\ written \in Nat /\ Len(net) \in Nat
  BY Places, LenProperties DEF IInv, ParserTypes
<1>2. /\ wire' = wire \o bytes /\ net' = net \o bytes
      /\ stream' = stream /\ offsetBuff' = offsetBuff
  BY DEF Transmit
<1>3. written' = written + Len(bytes) /\ Len(net') = Len(net) + Len(bytes)
  BY <1>1, <1>2, Joined DEF written
<1>4. Taken' = Taken
  <2>1. Taken' = written' - Len(net') /\ Taken = written - Len(net)
    BY DEF Taken
  <2>. QED
    BY <1>1, <1>3, <2>1
<1>. QED
  BY <1>2, <1>3, <1>4 DEF Windowed

(* What the sender writes. *)
LEMMA SenderWrites ==
  ASSUME CrcIsBytes,
         \/ \E p \in Payloads : SendPacket(p) \/ SendShort(p)
         \/ \E bytes \in Noise : SendNoise(bytes)
  PROVE  \E bytes \in Seq(Nat) : Transmit(bytes)
<1>1. ASSUME NEW p \in Payloads PROVE p \in Seq(Nat) /\ Create(p) \in Seq(Nat)
  BY FrameType, ParserAssumption
<1>2. ASSUME NEW p \in Payloads, SendPacket(p)
      PROVE  \E bytes \in Seq(Nat) : Transmit(bytes)
  BY <1>1, <1>2 DEF SendPacket
<1>3. ASSUME NEW p \in Payloads, SendShort(p)
      PROVE  \E bytes \in Seq(Nat) : Transmit(bytes)
  <2>1. Create(p) \in Seq(Nat) /\ Len(Create(p)) \in Nat
    BY <1>1, LenProperties
  <2>2. PICK k \in 1 .. Len(Create(p)) - 1 : Transmit(SubSeq(Create(p), 1, k))
    BY <1>3 DEF SendShort
  <2>3. SubSeq(Create(p), 1, k) \in Seq(Nat)
    BY <2>1, Slice
  <2>. QED
    BY <2>2, <2>3
<1>4. ASSUME NEW bytes \in Noise, SendNoise(bytes)
      PROVE  \E b \in Seq(Nat) : Transmit(b)
  BY <1>4, ParserAssumption DEF SendNoise
<1>. QED
  BY <1>2, <1>3, <1>4

LEMMA RecvPlace ==
  ASSUME IInv, Windows, NEW n \in 1 .. Len(net), Recv(n)
  PROVE  /\ Taken' = Taken + n /\ Windowed' = Windowed /\ Seen' = Seen
         /\ Windowed = Taken /\ Seen = Taken
         /\ posPacket' = posPacket /\ FrameStart' = FrameStart
         /\ stream' = SubSeq(net, 1, n) /\ net' = SubSeq(net, n + 1, Len(net))
         /\ Len(stream') = n /\ Len(net') = Len(net) - n
         /\ stream' \in Seq(Nat) /\ net' \in Seq(Nat)
         /\ \A j \in 1 .. n : stream'[j] = net[j]
         /\ \A j \in 1 .. Len(net) - n : net'[j] = net[n + j]
         /\ UNCHANGED <<buff, posBuff, offsetBuff, posBuffBeginPack>>
         /\ buff = <<>> /\ posBuff = 0 /\ offsetBuff = 0
<1>1. /\ net \in Seq(Nat) /\ Len(net) \in Nat /\ n \in Nat /\ n <= Len(net)
      /\ packetData \in Seq(Nat) /\ written \in Nat
  BY Places DEF IInv, ParserTypes
<1>2. /\ stream = <<>> /\ buff = <<>> /\ offsetBuff = 0 /\ posBuff = 0
      /\ Len(<<>>) = 0
  BY EmptySeq DEF Windows, Recv
<1>3. /\ stream' = SubSeq(net, 1, n) /\ net' = SubSeq(net, n + 1, Len(net))
      /\ UNCHANGED <<buff, posBuff, offsetBuff, posBuffBeginPack, wire>>
      /\ written' = written
  BY DEF Recv, senderVars, written
<1>4. /\ stream' \in Seq(Nat) /\ Len(stream') = n
      /\ \A j \in 1 .. n : stream'[j] = net[j]
  <2>1. /\ SubSeq(net, 0 + 1, n) \in Seq(Nat)
        /\ Len(SubSeq(net, 0 + 1, n)) = n - 0
        /\ \A j \in 1 .. n - 0 : SubSeq(net, 0 + 1, n)[j] = net[0 + j]
    BY <1>1, CutOut
  <2>. QED
    BY <1>1, <1>3, <2>1
<1>5. /\ net' \in Seq(Nat) /\ Len(net') = Len(net) - n
      /\ \A j \in 1 .. Len(net) - n : net'[j] = net[n + j]
  <2>1. n <= Len(net) /\ Len(net) <= Len(net)
    BY <1>1
  <2>. QED
    BY <1>1, <1>3, <2>1, CutOut, Zenon
<1>6. posPacket' = posPacket
  <2>1. \/ packetData' = packetData
        \/ packetData' = [i \in DOMAIN packetData |-> Garbage]
    BY DEF Recv
  <2>2. Len([i \in 1 .. Len(packetData) |-> Garbage]) = Len(packetData)
    BY <1>1, LenProperties
  <2>3. DOMAIN packetData = 1 .. Len(packetData)
    BY <1>1, LenProperties
  <2>. QED
    BY <2>1, <2>2, <2>3 DEF posPacket
<1>7. /\ Taken' = Taken + n /\ Windowed' = Taken /\ Seen' = Taken
      /\ Windowed = Taken /\ Seen = Taken
  <2>1. /\ Taken' = written - (Len(net) - n) /\ Taken = written - Len(net)
        /\ Windowed' = Taken' - n + 0 /\ Windowed = Taken - 0 + 0
        /\ Seen' = Windowed' - 0 + 0 /\ Seen = Windowed - 0 + 0
    BY <1>2, <1>3, <1>4, <1>5 DEF Taken, Windowed, Seen
  <2>. QED
    BY <1>1, <2>1
<1>8. FrameStart' = FrameStart
  BY <1>6, <1>7 DEF FrameStart
<1>. QED
  BY <1>2, <1>3, <1>4, <1>5, <1>6, <1>7, <1>8

LEMMA ReadWindowPlace ==
  ASSUME IInv, Windows, ReadWindow
  PROVE  LET end == IF offsetBuff + MaxBuffLen < Len(stream)
                    THEN offsetBuff + MaxBuffLen ELSE Len(stream)
         IN  /\ end \in Nat /\ offsetBuff < end /\ end <= Len(stream)
             /\ buff' \in Seq(Nat) /\ Len(buff') = end - offsetBuff
             /\ \A j \in 1 .. end - offsetBuff : buff'[j] = stream[offsetBuff + j]
             /\ offsetBuff' = end /\ posBuff' = 0 /\ posBuff = 0 /\ buff = <<>>
             /\ Taken' = Taken /\ Windowed' = Windowed + Len(buff')
             /\ Seen' = Seen /\ Seen = Windowed /\ FrameStart' = FrameStart
             /\ Windowed' = Taken - Len(stream) + end
             /\ Windowed = Taken - Len(stream) + offsetBuff
<1>. DEFINE end == IF offsetBuff + MaxBuffLen < Len(stream)
                   THEN offsetBuff + MaxBuffLen ELSE Len(stream)
<1>1. /\ stream \in Seq(Nat) /\ Len(stream) \in Nat /\ offsetBuff \in Nat
      /\ offsetBuff < Len(stream) /\ Taken \in Int
  BY Places DEF ReadWindow, IInv, ParserTypes
<1>2. end \in Nat /\ offsetBuff < end /\ offsetBuff <= end /\ end <= Len(stream)
  BY <1>1, ParserAssumption
<1>3. /\ buff' = SubSeq(stream, offsetBuff + 1, end) /\ offsetBuff' = end
      /\ buff = <<>> /\ posBuff = 0 /\ posBuff' = 0 /\ Len(<<>>) = 0
      /\ UNCHANGED <<net, stream, wire, packetData>> /\ written' = written
  BY EmptySeq DEF ReadWindow, senderVars, Windows, written
<1>. HIDE DEF end
<1>4. /\ buff' \in Seq(Nat) /\ Len(buff') = end - offsetBuff
      /\ \A j \in 1 .. end - offsetBuff : buff'[j] = stream[offsetBuff + j]
  BY <1>1, <1>2, <1>3, CutOut
<1>5. /\ Taken' = Taken /\ Windowed' = Taken - Len(stream) + end
      /\ Windowed = Taken - Len(stream) + offsetBuff
      /\ Seen = Windowed - 0 + 0 /\ Seen' = Windowed' - Len(buff') + 0
      /\ posPacket' = posPacket
  BY <1>3 DEF Taken, Windowed, Seen, posPacket
<1>6. Seen' = Seen /\ Seen = Windowed /\ Windowed' = Windowed + Len(buff')
  BY <1>1, <1>2, <1>4, <1>5
<1>7. FrameStart' = FrameStart
  BY <1>5, <1>6 DEF FrameStart
<1>. QED
  BY <1>2, <1>3, <1>4, <1>5, <1>6, <1>7 DEF end

LEMMA OnRecvEndPlace ==
  ASSUME IInv, Windows, OnRecvEnd
  PROVE  /\ Taken' = Taken /\ Windowed' = Windowed /\ Windowed = Taken
         /\ UNCHANGED <<buff, posBuff, packetData, posBuffBeginPack>>
<1>1. /\ offsetBuff = Len(stream) /\ offsetBuff' = 0 /\ stream' = <<>>
      /\ Len(<<>>) = 0 /\ written' = written /\ net' = net
      /\ UNCHANGED <<buff, posBuff, packetData, posBuffBeginPack>>
  BY EmptySeq DEF OnRecvEnd, parserVars, senderVars, written
<1>2. /\ Taken' = Taken /\ Windowed' = Taken' - 0 + 0
      /\ Windowed = Taken - Len(stream) + Len(stream)
  BY <1>1 DEF Taken, Windowed
<1>3. Taken \in Int /\ Len(stream) \in Nat
  BY Places
<1>. QED
  BY <1>1, <1>2, <1>3

LEMMA UnchangedPlace ==
  ASSUME UNCHANGED vars
  PROVE  /\ Taken' = Taken /\ Windowed' = Windowed
         /\ Seen' = Seen /\ FrameStart' = FrameStart /\ posPacket' = posPacket
  BY DEF vars, parserVars, senderVars, written, Taken, Windowed, Seen, FrameStart,
         posPacket

(* The step of FrameAdvances, and that the place of a frame stays known. *)
Advances ==
  /\ FrameStart' >= FrameStart
  /\ ParseByte => FrameStart' > FrameStart \/ posPacket' > posPacket
  /\ delivered' # delivered => FrameStart' > FrameStart + posPacket

LEMMA StepAdvances ==
  ASSUME CrcIsBytes, PlaceInv, [Next]_vars PROVE Advances /\ BeginKnown'
<1>0. IInv /\ Windows /\ BeginKnown
  BY DEF PlaceInv
<1>1. FrameStart \in Int /\ posPacket \in Nat
  BY <1>0, Places
<1>2. ASSUME ~ParseByte, delivered' = delivered, FrameStart' = FrameStart PROVE Advances
  BY <1>1, <1>2 DEF Advances
<1>3. CASE ParseByte
  <2>1. /\ HasByte /\ Elsewhere
        /\ FrameGoesOn \/ FrameGivenUp \/ PacketDone
    BY <1>0, <1>3, ByteOutcomes
  <2>2. CASE FrameGoesOn
    BY <1>1, <2>1, <2>2, FrameGrowsHere DEF Advances, FrameGoesOn
  <2>3. CASE FrameGivenUp
    <3>1. /\ FrameStart' > FrameStart /\ FrameStart' \in Int
          /\ delivered' = delivered /\ BeginKnown'
      BY <2>1, <2>3, FrameGivenUpHere DEF FrameGivenUp
    <3>2. FrameStart' >= FrameStart
      BY <1>1, <3>1
    <3>. QED
      BY <3>1, <3>2 DEF Advances
  <2>4. CASE PacketDone
    <3>1. FrameStart' = FrameStart + posPacket + 1 /\ BeginKnown'
      BY <2>4, PacketDoneHere
    <3>. QED
      BY <1>1, <3>1 DEF Advances
  <2>. QED
    BY <2>1, <2>2, <2>3, <2>4
<1>4. CASE ~ParseByte
  <2>1. CASE \/ \E p \in Payloads : SendPacket(p) \/ SendShort(p)
             \/ \E bytes \in Noise : SendNoise(bytes)
    <3>1. PICK bytes \in Seq(Nat) : Transmit(bytes)
      BY <2>1, SenderWrites
    <3>2. /\ UNCHANGED <<buff, posBuff, packetData, posBuffBeginPack, delivered>>
          /\ Windowed' = Windowed
      BY <1>0, <3>1, TransmitPlace DEF Transmit, parserVars
    <3>. QED
      BY <1>0, <1>2, <1>4, <3>2, Untouched
  <2>2. ASSUME NEW n \in 1 .. Len(net), Recv(n) PROVE Advances /\ BeginKnown'
    <3>1. /\ FrameStart' = FrameStart /\ posPacket' = posPacket
          /\ posBuff' = 0
      BY <1>0, <2>2, RecvPlace
    <3>2. delivered' = delivered
      BY <2>2 DEF Recv
    <3>3. BeginKnown'
      <4>1. posPacket = 0 => packetData' = <<>>
        BY <1>0, <2>2, NoFrame DEF Recv
      <4>. QED
        BY <1>1, <3>1, <4>1 DEF BeginKnown
    <3>. QED
      BY <1>2, <1>4, <3>1, <3>2, <3>3
  <2>3. CASE ReadWindow
    <3>1. FrameStart' = FrameStart /\ posBuff' = 0
      BY <1>0, <2>3, ReadWindowPlace
    <3>2. UNCHANGED <<packetData, delivered>> /\ posPacket' = posPacket
      BY <2>3 DEF ReadWindow, posPacket
    <3>3. BeginKnown'
      <4>1. posPacket = 0 => packetData = <<>>
        BY <1>0, NoFrame
      <4>. QED
        BY <1>1, <3>1, <3>2, <4>1 DEF BeginKnown
    <3>. QED
      BY <1>2, <1>4, <3>1, <3>2, <3>3
  <2>4. CASE OnRecvEnd
    <3>1. delivered' = delivered
      BY <2>4 DEF OnRecvEnd
    <3>. QED
      BY <1>0, <1>2, <1>4, <2>4, <3>1, OnRecvEndPlace, Untouched
  <2>5. CASE Spin \/ UNCHANGED vars
    <3>1. UNCHANGED vars
      BY <2>5 DEF Spin
    <3>2. delivered' = delivered /\ FrameStart' = FrameStart
      BY <3>1, UnchangedPlace DEF vars
    <3>3. BeginKnown'
      BY <1>0, <3>1, UnchangedPlace DEF BeginKnown, vars, parserVars
    <3>. QED
      BY <1>2, <1>4, <3>2, <3>3
  <2>. QED
    BY <1>4, <2>1, <2>2, <2>3, <2>4, <2>5 DEF Next, OnRecvStep
<1>. QED
  BY <1>3, <1>4

LEMMA PlaceStep == CrcIsBytes /\ PlaceInv /\ [Next]_vars => PlaceInv'
  BY StepKeeps, WindowsKept, StepAdvances DEF PlaceInv

LEMMA PlaceAtFirst == Init => PlaceInv
  BY InitHolds DEF Init, PlaceInv, Windows, BeginKnown

(* Whatever arrives, however it is cut, and whatever has become of the frame in
   progress: a frame never moves back, so that no byte is delivered in two
   packets, and every byte looked at takes the parser on. *)
THEOREM FramesAdvance == CrcIsBytes => (Spec => FrameAdvances)
<1>. SUFFICES ASSUME CrcIsBytes PROVE Spec => FrameAdvances
  OBVIOUS
<1>1. Init => PlaceInv
  BY PlaceAtFirst
<1>2. PlaceInv /\ [Next]_vars => PlaceInv'
  BY PlaceStep
<1>3. PlaceInv /\ [Next]_vars => [Advances]_vars
  BY StepAdvances
<1>. QED
  BY <1>1, <1>2, <1>3, PTL DEF Spec, FrameAdvances, Advances

-----------------------------------------------------------------------------
(* What stands where on the connection, whatever else is on it. *)

(* The bytes are those of w behind its first q. *)
Stands(w, bytes, q) ==
  \A j \in DOMAIN bytes : q + j \in DOMAIN w /\ bytes[j] = w[q + j]

(* The packets s stand on w, one behind the other. *)
SentOnWire(s, w) ==
  /\ s \in Seq([payload : Seq(Nat), first : Nat, last : Nat])
  /\ \A i \in DOMAIN s :
       LET frame == Create(s[i].payload)
       IN  /\ Len(s[i].payload) <= MaxPayload
           /\ s[i].first >= 1 /\ s[i].last <= Len(w)
           /\ s[i].last = s[i].first + Len(frame) - 1
           /\ \A j \in 1 .. Len(frame) : w[s[i].first + j - 1] = frame[j]
  /\ \A i, j \in DOMAIN s : i < j => s[i].last < s[j].first

(* What the parser knows of a frame's length is what w says, also if the frame
   itself was overwritten; of a frame that began before w nothing is said. *)
LengthRead(w, start, state, length, len) ==
  start >= 1 =>
    /\ \A j \in DOMAIN length : /\ start + posPLen + j - 1 \in DOMAIN w
                                /\ length[j] = w[start + posPLen + j - 1]
    /\ state = "Payload" =>
         /\ start + posPLen \in DOMAIN w /\ start + posPLen + 1 \in DOMAIN w
         /\ len = DecodeLen(<<w[start + posPLen], w[start + posPLen + 1]>>)

(* The payloads d are those of packets of s, each once and in order, that stand
   in what was taken and in front of the frame in progress. *)
DeliveredInOrder(s, d, taken, start) ==
  /\ d \in Seq(Seq(Nat))
  /\ \E f \in [1 .. Len(d) -> 1 .. Len(s)] :
       \A i \in DOMAIN f :
         /\ d[i] = s[f[i]].payload
         /\ s[f[i]].last <= taken /\ s[f[i]].last < start
         /\ i > 1 => f[i - 1] < f[i]

InPlace ==
  /\ Stands(wire, net, Taken)
  /\ Stands(wire, stream, Taken - Len(stream))
  /\ Stands(wire, buff, Windowed - Len(buff))
  /\ SentOnWire(sent, wire)
  /\ LengthRead(wire, FrameStart, parsFunc, lenghtBuff, lenPayload)

WireInv ==
  /\ PlaceInv /\ InPlace
  /\ DeliveredInOrder(sent, delivered, Taken, FrameStart)

-----------------------------------------------------------------------------
LEMMA OnWireTypes ==
  ASSUME NEW s, NEW w \in Seq(Nat), SentOnWire(s, w)
  PROVE  /\ Len(s) \in Nat /\ DOMAIN s = 1 .. Len(s) /\ Len(w) \in Nat
         /\ DOMAIN w = 1 .. Len(w)
         /\ \A i \in DOMAIN s :
              /\ s[i].payload \in Seq(Nat) /\ s[i].first \in Nat /\ s[i].last \in Nat
              /\ Create(s[i].payload) \in Seq(Nat) => Len(Create(s[i].payload)) \in Nat
<1>1. /\ s \in Seq([payload : Seq(Nat), first : Nat, last : Nat])
  BY DEF SentOnWire
<1>2. Len(s) \in Nat /\ DOMAIN s = 1 .. Len(s)
  BY <1>1, LenProperties
<1>3. ASSUME NEW i \in DOMAIN s
      PROVE  s[i] \in [payload : Seq(Nat), first : Nat, last : Nat]
  BY <1>1, <1>2, ElementOfSeq, Zenon
<1>4. Len(w) \in Nat /\ DOMAIN w = 1 .. Len(w)
  BY LenProperties
<1>5. \A i \in DOMAIN s :
        /\ s[i].payload \in Seq(Nat) /\ s[i].first \in Nat /\ s[i].last \in Nat
  BY <1>3
<1>. QED
  BY <1>2, <1>4, <1>5, LenProperties, Zenon

(* The sender goes on: what stood there stands there. *)
LEMMA StandsMore ==
  ASSUME NEW w \in Seq(Nat), NEW more \in Seq(Nat), NEW bytes, NEW q, Stands(w, bytes, q)
  PROVE  Stands(w \o more, bytes, q)
<1>1. /\ Len(w) \in Nat /\ Len(more) \in Nat /\ DOMAIN w = 1 .. Len(w)
      /\ w \o more \in Seq(Nat) /\ Len(w \o more) = Len(w) + Len(more)
      /\ \A i \in 1 .. Len(w) : (w \o more)[i] = w[i]
  BY Joined, LenProperties
<1>2. DOMAIN (w \o more) = 1 .. Len(w) + Len(more)
  BY <1>1, LenProperties
<1>3. \A i \in DOMAIN w : i \in DOMAIN (w \o more) /\ (w \o more)[i] = w[i]
  BY <1>1, <1>2
<1>. QED
  BY <1>3, Zenon DEF Stands

LEMMA SentMore ==
  ASSUME CrcIsBytes, NEW s, NEW w \in Seq(Nat), NEW more \in Seq(Nat), SentOnWire(s, w)
  PROVE  SentOnWire(s, w \o more)
<1>1. /\ Len(w) \in Nat /\ Len(more) \in Nat
      /\ Len(w \o more) = Len(w) + Len(more)
      /\ \A i \in 1 .. Len(w) : (w \o more)[i] = w[i]
  BY Joined, LenProperties
<1>2. ASSUME NEW i \in DOMAIN s
      PROVE  LET frame == Create(s[i].payload)
             IN  /\ s[i].last <= Len(w \o more)
                 /\ \A j \in 1 .. Len(frame) : (w \o more)[s[i].first + j - 1] = frame[j]
  <2>. DEFINE frame == Create(s[i].payload)
  <2>1. /\ s[i].payload \in Seq(Nat) /\ s[i].first \in Nat /\ s[i].last \in Nat
    BY <1>2, OnWireTypes
  <2>2. frame \in Seq(Nat) /\ Len(frame) \in Nat
    BY <2>1, FrameType, LenProperties
  <2>3. /\ s[i].first >= 1 /\ s[i].last <= Len(w)
        /\ s[i].last = s[i].first + Len(frame) - 1
        /\ \A j \in 1 .. Len(frame) : w[s[i].first + j - 1] = frame[j]
    BY <1>2 DEF SentOnWire
  <2>. HIDE DEF frame
  <2>4. s[i].last <= Len(w \o more)
    BY <1>1, <2>1, <2>3
  <2>5. ASSUME NEW j \in 1 .. Len(frame) PROVE (w \o more)[s[i].first + j - 1] = frame[j]
    <3>1. s[i].first + j - 1 \in 1 .. Len(w)
      <4>. DEFINE a == s[i].first
                  b == s[i].last
      <4>1. a \in Nat /\ b \in Nat /\ a >= 1 /\ b <= Len(w) /\ b = a + Len(frame) - 1
        BY <2>1, <2>3
      <4>. HIDE DEF a, b
      <4>2. a + j - 1 \in 1 .. Len(w)
        BY <1>1, <2>2, <4>1
      <4>. QED
        BY <4>2 DEF a
    <3>. QED
      BY <1>1, <2>3, <3>1
  <2>. QED
    BY <2>4, <2>5 DEF frame
<1>. QED
  BY <1>2 DEF SentOnWire

LEMMA LengthMore ==
  ASSUME NEW w \in Seq(Nat), NEW more \in Seq(Nat), NEW start, NEW state,
         NEW length, NEW len, LengthRead(w, start, state, length, len)
  PROVE  LengthRead(w \o more, start, state, length, len)
<1>1. /\ Len(w) \in Nat /\ Len(more) \in Nat /\ DOMAIN w = 1 .. Len(w)
      /\ w \o more \in Seq(Nat) /\ Len(w \o more) = Len(w) + Len(more)
      /\ \A i \in 1 .. Len(w) : (w \o more)[i] = w[i]
  BY Joined, LenProperties
<1>2. DOMAIN (w \o more) = 1 .. Len(w) + Len(more)
  BY <1>1, LenProperties
<1>3. \A i \in DOMAIN w : i \in DOMAIN (w \o more) /\ (w \o more)[i] = w[i]
  BY <1>1, <1>2
<1>. QED
  BY <1>3, Zenon DEF LengthRead

(* A packet more, of which the last bytes of w are the frame. *)
LEMMA SentOneMore ==
  ASSUME CrcIsBytes, NEW s, NEW w \in Seq(Nat), NEW p \in Seq(Nat), Len(p) <= MaxPayload,
         SentOnWire(s, w)
  PROVE  SentOnWire(Append(s, Packet(p, Len(w))), w \o Create(p))
<1>. DEFINE f == Create(p)
            m == Packet(p, Len(w))
            t == Append(s, m)
            n == Len(s)
            v == w \o f
            R == [payload : Seq(Nat), first : Nat, last : Nat]
<1>1. f \in Seq(Nat) /\ Len(f) \in Nat /\ Len(w) \in Nat
  BY FrameType, LenProperties
<1>2. m.payload = p /\ m.first = Len(w) + 1 /\ m.last = Len(w) + Len(f) /\ m \in R
  BY <1>1 DEF Packet
<1>3. s \in Seq(R) /\ n \in Nat /\ DOMAIN s = 1 .. n
  BY OnWireTypes DEF SentOnWire
<1>. HIDE DEF f, m, v
<1>4. t \in Seq(R) /\ Len(t) = n + 1 /\ t[n + 1] = m /\ \A i \in 1 .. n : t[i] = s[i]
  BY <1>2, <1>3, AppendProperties
<1>5. DOMAIN t = 1 .. n + 1
  BY <1>4, LenProperties
<1>6. SentOnWire(s, v)
  BY <1>1, SentMore DEF v
<1>7. /\ Len(v) = Len(w) + Len(f)
      /\ \A j \in 1 .. Len(f) : v[Len(w) + j] = f[j]
  BY <1>1, Joined DEF v
<1>. HIDE DEF t, n
<1>8. ASSUME NEW i \in DOMAIN t
      PROVE  LET frame == Create(t[i].payload)
             IN  /\ Len(t[i].payload) <= MaxPayload
                 /\ t[i].first >= 1 /\ t[i].last <= Len(v)
                 /\ t[i].last = t[i].first + Len(frame) - 1
                 /\ \A j \in 1 .. Len(frame) : v[t[i].first + j - 1] = frame[j]
  <2>1. CASE i \in 1 .. n
    <3>1. i \in DOMAIN s /\ t[i] = s[i]
      BY <1>3, <1>4, <2>1
    <3>. QED
      BY <1>6, <3>1 DEF SentOnWire
  <2>2. CASE i = n + 1
    <3>1. t[i] = m /\ Create(t[i].payload) = f
      BY <1>2, <1>4, <2>2 DEF f
    <3>2. m.last = m.first + Len(f) - 1 /\ m.first >= 1 /\ m.last <= Len(v)
      BY <1>1, <1>2, <1>7
    <3>3. ASSUME NEW j \in 1 .. Len(f) PROVE v[m.first + j - 1] = f[j]
      <4>1. m.first + j - 1 = Len(w) + j
        BY <1>1, <1>2
      <4>. QED
        BY <1>7, <4>1
    <3>. QED
      BY <1>2, <3>1, <3>2, <3>3
  <2>. QED
    BY <1>3, <1>5, <2>1, <2>2
<1>9. ASSUME NEW i \in DOMAIN t, NEW j \in DOMAIN t, i < j PROVE t[i].last < t[j].first
  <2>1. i \in 1 .. n /\ i \in DOMAIN s /\ t[i] = s[i]
    BY <1>3, <1>4, <1>5, <1>9
  <2>2. CASE j \in 1 .. n
    <3>1. j \in DOMAIN s /\ t[j] = s[j]
      BY <1>3, <1>4, <2>2
    <3>. QED
      BY <1>9, <2>1, <3>1 DEF SentOnWire
  <2>3. CASE j = n + 1
    <3>1. t[j].first = Len(w) + 1
      BY <1>2, <1>4, <2>3
    <3>2. s[i].last <= Len(w) /\ s[i].last \in Nat
      BY <2>1, OnWireTypes DEF SentOnWire
    <3>. QED
      BY <1>1, <2>1, <3>1, <3>2
  <2>4. j \in 1 .. n \/ j = n + 1
    <3>1. n \in Nat /\ j \in 1 .. n + 1
      BY <1>3, <1>5, <1>9
    <3>. QED
      BY <3>1
  <2>. QED
    BY <2>2, <2>3, <2>4, Zenon
<1>10. SentOnWire(t, v)
  BY <1>4, <1>8, <1>9 DEF SentOnWire
<1>. QED
  BY <1>10 DEF t, m, v, f

LEMMA DeliveredLater ==
  ASSUME NEW s, NEW d, NEW taken \in Int, NEW start \in Int, NEW t, NEW w \in Seq(Nat),
         SentOnWire(s, w), DeliveredInOrder(s, d, taken, start),
         NEW taken2 \in Int, NEW start2 \in Int, taken <= taken2, start <= start2,
         Len(t) \in Nat, Len(s) <= Len(t), \A i \in 1 .. Len(s) : t[i] = s[i]
  PROVE  DeliveredInOrder(t, d, taken2, start2)
<1>1. PICK f \in [1 .. Len(d) -> 1 .. Len(s)] :
        \A i \in DOMAIN f :
          /\ d[i] = s[f[i]].payload
          /\ s[f[i]].last <= taken /\ s[f[i]].last < start
          /\ i > 1 => f[i - 1] < f[i]
  BY DEF DeliveredInOrder
<1>2. Len(s) \in Nat /\ DOMAIN s = 1 .. Len(s) /\ \A i \in DOMAIN s : s[i].last \in Nat
  BY OnWireTypes
<1>3. f \in [1 .. Len(d) -> 1 .. Len(t)]
  BY <1>1, <1>2
<1>4. ASSUME NEW i \in DOMAIN f
      PROVE  /\ d[i] = t[f[i]].payload
             /\ t[f[i]].last <= taken2 /\ t[f[i]].last < start2
             /\ i > 1 => f[i - 1] < f[i]
  <2>1. f[i] \in 1 .. Len(s) /\ t[f[i]] = s[f[i]] /\ s[f[i]].last \in Nat
    BY <1>1, <1>2
  <2>2. s[f[i]].last <= taken2 /\ s[f[i]].last < start2
    BY <1>1, <1>4, <2>1
  <2>. QED
    BY <1>1, <1>4, <2>1, <2>2
<1>. QED
  BY <1>3, <1>4 DEF DeliveredInOrder

-----------------------------------------------------------------------------
(* There is a byte to look at: it is the one behind the frame so far. *)
LEMMA ByteRead ==
  ASSUME IInv, Windows, InPlace, HasByte
  PROVE  /\ Seen + 1 \in DOMAIN wire /\ by = wire[Seen + 1]
         /\ Seen + 1 = FrameStart + posPacket /\ Seen + 1 <= Taken
<1>1. /\ Len(net) \in Nat /\ Len(stream) \in Nat /\ Len(buff) \in Nat
      /\ posBuff \in Nat /\ offsetBuff \in Nat /\ posPacket \in Nat
      /\ Taken \in Int /\ Windowed \in Int /\ Seen \in Int
  BY Places
<1>2. posBuff < Len(buff) /\ offsetBuff <= Len(stream)
  BY DEF HasByte, Windows
<1>3. posBuff + 1 \in DOMAIN buff
  <2>1. DOMAIN buff = 1 .. Len(buff)
    BY LenProperties DEF IInv, ParserTypes
  <2>. QED
    BY <1>1, <1>2, <2>1
<1>4. /\ Windowed - Len(buff) + (posBuff + 1) \in DOMAIN wire
      /\ by = wire[Windowed - Len(buff) + (posBuff + 1)]
  BY <1>3 DEF InPlace, Stands, by
<1>5. Windowed - Len(buff) + (posBuff + 1) = Seen + 1
  BY <1>1, SeenIs
<1>6. Seen + 1 = FrameStart + posPacket
  BY <1>1, FrameStartIs
<1>7. Windowed = Taken - Len(stream) + offsetBuff
  BY DEF Windowed
<1>8. Seen + 1 <= Taken
  BY <1>1, <1>2, <1>7, SeenIs
<1>. QED
  BY <1>4, <1>5, <1>6, <1>8

(* The parser reads on: what is in front of it stays where it is. *)
LEMMA ReadsOn ==
  ASSUME IInv, InPlace, Elsewhere, NEW p \in Nat, StepTo(p)
  PROVE  /\ Stands(wire, net, Taken)'
         /\ Stands(wire, stream, Taken - Len(stream))'
         /\ Stands(wire, buff, Windowed - Len(buff))'
         /\ SentOnWire(sent, wire)'
<1>1. /\ Taken' = Taken /\ Windowed' = Windowed
      /\ buff' = buff \/ buff' = <<>>
  BY StepToPlace
<1>2. UNCHANGED <<net, stream, wire, sent>>
  BY DEF Elsewhere, senderVars
<1>3. CASE buff' = buff
  BY <1>1, <1>2, <1>3 DEF InPlace
<1>4. CASE buff' = <<>>
  BY <1>1, <1>2, <1>4 DEF InPlace, Stands
<1>. QED
  BY <1>1, <1>3, <1>4

(* One more byte of the length, and the last one. *)
LEMMA LengthLonger ==
  ASSUME NEW w, NEW start \in Int, NEW state, NEW length \in Seq(Nat), NEW len,
         LengthRead(w, start, state, length, len), NEW b \in Nat,
         start + posPLen + Len(length) \in DOMAIN w,
         b = w[start + posPLen + Len(length)],
         NEW state2, state2 # "Payload", NEW len2
  PROVE  LengthRead(w, start, state2, Append(length, b), len2)
<1>. DEFINE l == Append(length, b)
            n == Len(length)
            q == start + posPLen
<1>1. /\ n \in Nat /\ DOMAIN length = 1 .. n
      /\ Len(l) = n + 1 /\ l \in Seq(Nat)
      /\ \A j \in 1 .. n : l[j] = length[j]
      /\ l[n + 1] = b
  BY LenProperties, AppendProperties
<1>2. DOMAIN l = 1 .. n + 1 /\ q \in Int
  BY <1>1, Lengths, LenProperties
<1>3. q + n \in DOMAIN w /\ b = w[q + n]
  OBVIOUS
<1>. HIDE DEF l, n, q
<1>4. ASSUME start >= 1, NEW j \in DOMAIN l
      PROVE  q + j - 1 \in DOMAIN w /\ l[j] = w[q + j - 1]
  <2>1. CASE j \in 1 .. n
    <3>1. q + j - 1 \in DOMAIN w /\ length[j] = w[q + j - 1]
      BY <1>1, <1>4, <2>1 DEF LengthRead, q
    <3>. QED
      BY <1>1, <2>1, <3>1
  <2>2. CASE j = n + 1
    <3>1. q + j - 1 = q + n
      BY <1>1, <1>2, <2>2
    <3>. QED
      BY <1>1, <1>3, <2>2, <3>1
  <2>3. j \in 1 .. n \/ j = n + 1
    <3>1. j \in 1 .. n + 1
      BY <1>2, <1>4
    <3>. QED
      BY <1>1, <3>1
  <2>. QED
    BY <2>1, <2>2, <2>3
<1>. QED
  BY <1>4 DEF LengthRead, l, q

LEMMA LengthKnown ==
  ASSUME NEW w, NEW start \in Int, NEW l \in Seq(Nat), Len(l) = 2, NEW len,
         LengthRead(w, start, "DataLength", l, len)
  PROVE  LengthRead(w, start, "Payload", <<>>, DecodeLen(l))
<1>. DEFINE q == start + posPLen
<1>1. q \in Int /\ DOMAIN l = 1 .. 2
  BY Lengths, LenProperties
<1>2. ASSUME start >= 1
      PROVE  /\ q \in DOMAIN w /\ q + 1 \in DOMAIN w
             /\ DecodeLen(l) = DecodeLen(<<w[q], w[q + 1]>>)
  <2>. HIDE DEF q
  <2>1. 1 \in DOMAIN l /\ 2 \in DOMAIN l
    BY <1>1
  <2>2. /\ q + 1 - 1 \in DOMAIN w /\ l[1] = w[q + 1 - 1]
        /\ q + 2 - 1 \in DOMAIN w /\ l[2] = w[q + 2 - 1]
    BY <1>2, <2>1 DEF LengthRead, q
  <2>3. q + 1 - 1 = q /\ q + 2 - 1 = q + 1
    BY <1>1
  <2>4. q \in DOMAIN w /\ q + 1 \in DOMAIN w /\ l[1] = w[q] /\ l[2] = w[q + 1]
    BY <2>2, <2>3
  <2>. DEFINE x == w[q]
              y == w[q + 1]
  <2>5. <<x, y>>[1] = x /\ <<x, y>>[2] = y
    OBVIOUS
  <2>. HIDE DEF x, y
  <2>6. DecodeLen(l) = DecodeLen(<<x, y>>)
    <3>1. l[1] = x /\ l[2] = y
      BY <2>4 DEF x, y
    <3>. QED
      BY <2>5, <3>1, Zenon DEF DecodeLen
  <2>. QED
    BY <2>4, <2>6 DEF x, y
<1>3. DOMAIN <<>> = {}
  OBVIOUS
<1>. QED
  BY <1>2, <1>3 DEF LengthRead, q

LEMMA NoLengthYet ==
  ASSUME NEW w, NEW start, NEW len, NEW state, state # "Payload"
  PROVE  LengthRead(w, start, state, <<>>, len)
<1>1. DOMAIN <<>> = {}
  OBVIOUS
<1>. QED
  BY <1>1 DEF LengthRead

(* A byte that belongs to the frame tells the length what it says. *)
LEMMA LengthGoesOn ==
  ASSUME PlaceInv, InPlace, ParseByte, FrameGoesOn
  PROVE  LengthRead(wire, FrameStart, parsFunc, lenghtBuff, lenPayload)'
<1>0. /\ IInv /\ Windows /\ ParserConsistent /\ HasByte /\ Elsewhere
      /\ lenghtBuff \in Seq(Nat)
  BY ByteOutcomes DEF PlaceInv, IInv, ParserTypes
<1>1. /\ FrameStart' = FrameStart /\ wire' = wire /\ posPacket' = posPacket + 1
      /\ FrameStart \in Int /\ posPacket \in Nat
  BY <1>0, FrameGrowsHere, Places DEF Elsewhere, senderVars
<1>2. /\ FrameStart + posPacket \in DOMAIN wire
      /\ by = wire[FrameStart + posPacket] /\ by \in Nat
  BY <1>0, ByteRead, Looking
<1>3. LengthRead(wire, FrameStart, parsFunc, lenghtBuff, lenPayload)
  BY DEF InPlace
<1>4. posPacket' # 0
  BY <1>1
<1>5. ~StartOver
  BY <1>4, EmptySeq DEF StartOver, Restart, posPacket
<1>6. ASSUME parsFunc = "DataLength", NEW state2, state2 # "Payload", NEW len2
      PROVE  LengthRead(wire, FrameStart, state2, Append(lenghtBuff, by), len2)
  <2>1. Len(lenghtBuff) = posPacket - posPLen
    BY <1>0, <1>6 DEF ParserConsistent
  <2>2. FrameStart + posPLen + Len(lenghtBuff) = FrameStart + posPacket
    BY <1>1, <2>1, Lengths
  <2>3. /\ FrameStart + posPLen + Len(lenghtBuff) \in DOMAIN wire
        /\ by = wire[FrameStart + posPLen + Len(lenghtBuff)]
    BY <1>2, <2>2
  <2>. QED
    BY <1>0, <1>1, <1>2, <1>3, <1>6, <2>3, LengthLonger
<1>7. CASE ScanMID
  <2>1. lenghtBuff' = <<>> /\ parsFunc' # "Payload"
    BY <1>0, <1>5, <1>7 DEF ScanMID, ParserConsistent, Accept
  <2>. QED
    BY <2>1, NoLengthYet
<1>8. CASE LengthByte
  <2>1. lenghtBuff' = Append(lenghtBuff, by) /\ parsFunc' = "DataLength"
        /\ parsFunc = "DataLength"
    BY <1>8 DEF LengthByte, Accept
  <2>. QED
    BY <1>1, <1>6, <2>1
<1>9. CASE LengthDone
  <2>1. /\ lenghtBuff' = <<>> /\ parsFunc' = "Payload" /\ parsFunc = "DataLength"
        /\ lenPayload' = DecodeLen(Append(lenghtBuff, by)) /\ posPacket = posPayload - 1
    BY <1>5, <1>9 DEF LengthDone, Accept
  <2>2. LengthRead(wire, FrameStart, "DataLength", Append(lenghtBuff, by), lenPayload)
    BY <1>6, <2>1
  <2>3. Append(lenghtBuff, by) \in Seq(Nat) /\ Len(Append(lenghtBuff, by)) = 2
    <3>1. Len(lenghtBuff) = posPacket - posPLen
      BY <1>0, <2>1 DEF ParserConsistent
    <3>2. Len(lenghtBuff) = 1
      BY <1>1, <2>1, <3>1, Lengths
    <3>3. /\ Append(lenghtBuff, by) \in Seq(Nat)
          /\ Len(Append(lenghtBuff, by)) = Len(lenghtBuff) + 1
      BY <1>0, <1>2, AppendProperties
    <3>. QED
      BY <3>2, <3>3
  <2>4. LengthRead(wire, FrameStart, "Payload", <<>>, DecodeLen(Append(lenghtBuff, by)))
    BY <1>1, <2>2, <2>3, LengthKnown
  <2>. QED
    BY <1>1, <2>1, <2>4
<1>10. CASE PayloadByte
  <2>1. /\ parsFunc' = "Payload" /\ parsFunc = "Payload" /\ lenPayload' = lenPayload
        /\ lenghtBuff' = lenghtBuff
    BY <1>10 DEF PayloadByte, Accept
  <2>. QED
    BY <1>1, <1>3, <2>1
<1>11. ~PacketDone /\ ~PacketCorrupt
  <2>1. PacketDone => packetData' = <<>>
    BY Zenon DEF PacketDone, Restart
  <2>2. packetData' # <<>>
    BY <1>4, EmptySeq DEF posPacket
  <2>3. PacketCorrupt => StartOver
    BY Zenon DEF PacketCorrupt
  <2>. QED
    BY <1>5, <2>1, <2>2, <2>3, Zenon
<1>. QED
  BY <1>7, <1>8, <1>9, <1>10, <1>11 DEF ParseByte

LEMMA ParseByteInPlace ==
  ASSUME CrcIsBytes, PlaceInv, InPlace, ParseByte PROVE InPlace'
<1>1. /\ IInv /\ Windows /\ HasByte /\ Elsewhere /\ IInv'
      /\ FrameGoesOn \/ FrameGivenUp \/ PacketDone
  <2>1. [Next]_vars
    BY DEF Next, OnRecvStep
  <2>. QED
    BY <2>1, ByteOutcomes, StepKeeps DEF PlaceInv
<1>2. \E p \in Nat : StepTo(p)
  <2>1. posBuff + 1 \in Nat /\ posBuffBeginPack' + 1 \in Nat
    <3>. DEFINE a == posBuff
                b == posBuffBeginPack'
    <3>1. a \in Nat /\ b \in Nat
      BY <1>1 DEF IInv, ParserTypes
    <3>. HIDE DEF a, b
    <3>2. a + 1 \in Nat /\ b + 1 \in Nat
      BY <3>1
    <3>. QED
      BY <3>2 DEF a, b
  <2>. QED
    BY <1>1, <2>1 DEF FrameGoesOn, FrameGivenUp, PacketDone, Accept, StartOver, Restart
<1>3. /\ Stands(wire, net, Taken)'
      /\ Stands(wire, stream, Taken - Len(stream))'
      /\ Stands(wire, buff, Windowed - Len(buff))'
      /\ SentOnWire(sent, wire)'
  BY <1>1, <1>2, ReadsOn
<1>4. ASSUME parsFunc' = "ScanMID"
      PROVE  LengthRead(wire, FrameStart, parsFunc, lenghtBuff, lenPayload)'
  <2>1. lenghtBuff' = <<>>
    BY <1>1, <1>4 DEF IInv, ParserConsistent
  <2>. QED
    BY <1>4, <2>1, NoLengthYet
<1>5. LengthRead(wire, FrameStart, parsFunc, lenghtBuff, lenPayload)'
  BY <1>1, <1>4, LengthGoesOn DEF FrameGivenUp, StartOver, Restart, PacketDone
<1>. QED
  BY <1>3, <1>5 DEF InPlace

-----------------------------------------------------------------------------
(* A part of what stands somewhere stands further on. *)
LEMMA StandsPart ==
  ASSUME NEW w, NEW bytes \in Seq(Nat), NEW q \in Int, Stands(w, bytes, q),
         NEW part \in Seq(Nat), NEW k \in Nat, k + Len(part) <= Len(bytes),
         \A j \in 1 .. Len(part) : part[j] = bytes[k + j],
         NEW q2 \in Int, q2 = q + k
  PROVE  Stands(w, part, q2)
<1>1. /\ Len(part) \in Nat /\ DOMAIN part = 1 .. Len(part)
      /\ Len(bytes) \in Nat /\ DOMAIN bytes = 1 .. Len(bytes)
  BY LenProperties
<1>2. ASSUME NEW j \in DOMAIN part PROVE q2 + j \in DOMAIN w /\ part[j] = w[q2 + j]
  <2>1. k + j \in DOMAIN bytes /\ part[j] = bytes[k + j]
    <3>1. j \in 1 .. Len(part) /\ k + j \in 1 .. Len(bytes)
      <4>1. j \in 1 .. Len(part)
        BY <1>1, <1>2
      <4>. QED
        BY <1>1, <4>1, SMTT(20)
    <3>. QED
      BY <1>1, <3>1
  <2>2. q + (k + j) \in DOMAIN w /\ bytes[k + j] = w[q + (k + j)]
    BY <2>1 DEF Stands
  <2>3. q + (k + j) = q2 + j
    BY <1>1
  <2>. QED
    BY <2>1, <2>2, <2>3
<1>. QED
  BY <1>2 DEF Stands

LEMMA NothingStands == ASSUME NEW w, NEW q PROVE Stands(w, <<>>, q)
<1>1. DOMAIN <<>> = {}
  OBVIOUS
<1>. QED
  BY <1>1 DEF Stands

(* What is written stands behind what was. *)
LEMMA StandsWritten ==
  ASSUME NEW w \in Seq(Nat), NEW more \in Seq(Nat), NEW bytes \in Seq(Nat),
         Stands(w, bytes, Len(w) - Len(bytes))
  PROVE  Stands(w \o more, bytes \o more, Len(w) - Len(bytes))
<1>. DEFINE v == w \o more
            t == bytes \o more
            q == Len(w) - Len(bytes)
<1>1. /\ Len(w) \in Nat /\ Len(more) \in Nat /\ Len(bytes) \in Nat /\ q \in Int
      /\ v \in Seq(Nat) /\ Len(v) = Len(w) + Len(more)
      /\ \A i \in 1 .. Len(more) : v[Len(w) + i] = more[i]
      /\ t \in Seq(Nat) /\ Len(t) = Len(bytes) + Len(more)
      /\ \A i \in 1 .. Len(bytes) : t[i] = bytes[i]
      /\ \A i \in 1 .. Len(more) : t[Len(bytes) + i] = more[i]
  BY Joined, LenProperties
<1>2. DOMAIN v = 1 .. Len(w) + Len(more) /\ DOMAIN t = 1 .. Len(bytes) + Len(more)
      /\ DOMAIN bytes = 1 .. Len(bytes)
  BY <1>1, LenProperties
<1>3. Stands(v, bytes, q)
  BY <1>1, StandsMore DEF q
<1>4. q + Len(bytes) = Len(w)
  BY <1>1
<1>. HIDE DEF v, t, q
<1>5. ASSUME NEW j \in DOMAIN t PROVE q + j \in DOMAIN v /\ t[j] = v[q + j]
  <2>1. CASE j \in 1 .. Len(bytes)
    BY <1>1, <1>2, <1>3, <2>1 DEF Stands
  <2>2. CASE j \notin 1 .. Len(bytes)
    <3>1. j \in 1 .. Len(bytes) + Len(more)
      BY <1>2, <1>5
    <3>2. PICK i \in 1 .. Len(more) : j = Len(bytes) + i
      <4>1. Len(bytes) \in Nat /\ Len(more) \in Nat
        BY <1>1
      <4>2. j - Len(bytes) \in 1 .. Len(more) /\ j = Len(bytes) + (j - Len(bytes))
        BY <2>2, <3>1, <4>1
      <4>. QED
        BY <4>2
    <3>0. q + j = Len(w) + i
      <4>1. Len(bytes) \in Nat /\ Len(more) \in Nat /\ Len(w) \in Nat /\ q \in Int
        BY <1>1
      <4>. QED
        <5>1. q = Len(w) - Len(bytes)
          BY DEF q
        <5>. DEFINE a == Len(w)
                    b == Len(bytes)
        <5>2. a \in Nat /\ b \in Nat /\ q = a - b /\ j = b + i /\ i \in Nat
          BY <3>2, <4>1, <5>1
        <5>. HIDE DEF a, b
        <5>3. q + j = a + i
          BY <5>2
        <5>. QED
          BY <5>3 DEF a
    <3>3. t[j] = more[i] /\ v[Len(w) + i] = more[i]
      BY <1>1, <3>2
    <3>4. Len(w) + i \in 1 .. Len(w) + Len(more)
      BY <1>1, <3>2
    <3>. QED
      BY <1>2, <3>0, <3>2, <3>3, <3>4
  <2>. QED
    BY <2>1, <2>2
<1>. QED
  BY <1>5 DEF Stands, v, t, q

LEMMA TransmitInPlace ==
  ASSUME IInv, InPlace, NEW bytes \in Seq(Nat), Transmit(bytes), SentOnWire(sent', wire')
  PROVE  InPlace'
<1>1. /\ Taken' = Taken /\ Windowed' = Windowed /\ wire' = wire \o bytes
      /\ net' = net \o bytes
      /\ UNCHANGED <<stream, buff, posBuff, packetData, posBuffBeginPack,
                     parsFunc, lenghtBuff, lenPayload>>
  BY TransmitPlace DEF Transmit, parserVars
<1>2. FrameStart' = FrameStart
  BY <1>1, Untouched
<1>3. wire \in Seq(Nat) /\ net \in Seq(Nat)
  BY DEF IInv, ParserTypes
<1>4. /\ Stands(wire, net, Taken)
      /\ Stands(wire, stream, Taken - Len(stream))
      /\ Stands(wire, buff, Windowed - Len(buff))
      /\ LengthRead(wire, FrameStart, parsFunc, lenghtBuff, lenPayload)
  BY DEF InPlace
<1>5. Taken = Len(wire) - Len(net)
  BY DEF Taken, written
<1>6. Stands(wire', net', Taken')
  BY <1>1, <1>3, <1>4, <1>5, StandsWritten
<1>7. /\ Stands(wire', stream, Taken - Len(stream))
      /\ Stands(wire', buff, Windowed - Len(buff))
      /\ LengthRead(wire', FrameStart, parsFunc, lenghtBuff, lenPayload)
  BY <1>1, <1>3, <1>4, StandsMore, LengthMore
<1>. QED
  BY <1>1, <1>2, <1>6, <1>7 DEF InPlace

LEMMA SenderInPlace ==
  ASSUME CrcIsBytes, IInv, InPlace,
         \/ \E p \in Payloads : SendPacket(p) \/ SendShort(p)
         \/ \E bytes \in Noise : SendNoise(bytes)
  PROVE  /\ InPlace' /\ Len(sent') \in Nat /\ Len(sent) <= Len(sent')
         /\ \A i \in 1 .. Len(sent) : sent'[i] = sent[i]
<1>1. wire \in Seq(Nat) /\ SentOnWire(sent, wire) /\ Len(sent) \in Nat
      /\ sent \in Seq([payload : Seq(Nat), first : Nat, last : Nat])
  BY OnWireTypes DEF IInv, ParserTypes, InPlace, SentOnWire
<1>2. ASSUME NEW p \in Payloads, SendPacket(p)
      PROVE  /\ InPlace' /\ Len(sent') \in Nat /\ Len(sent) <= Len(sent')
             /\ \A i \in 1 .. Len(sent) : sent'[i] = sent[i]
  <2>1. p \in Seq(Nat) /\ Len(p) <= MaxPayload /\ Create(p) \in Seq(Nat)
    <3>1. p \in Seq(Nat)
      BY ParserAssumption
    <3>2. Len(p) <= MaxPayload
      BY <1>2, <3>1, Lengths, LenProperties DEF SendPacket, Create
    <3>. QED
      BY <3>1, <3>2, FrameType
  <2>2. /\ Transmit(Create(p)) /\ wire' = wire \o Create(p)
        /\ sent' = Append(sent, Packet(p, Len(wire)))
    BY <1>2 DEF SendPacket, Transmit, Packet, written
  <2>3. SentOnWire(sent', wire')
    BY <1>1, <2>1, <2>2, SentOneMore
  <2>4. Packet(p, Len(wire)) \in [payload : Seq(Nat), first : Nat, last : Nat]
    <3>1. Len(wire) \in Nat /\ Len(Create(p)) \in Nat
      BY <1>1, <2>1, LenProperties
    <3>. QED
      BY <2>1, <3>1 DEF Packet
  <2>5. /\ Len(sent') = Len(sent) + 1
        /\ \A i \in 1 .. Len(sent) : sent'[i] = sent[i]
    BY <1>1, <2>2, <2>4, AppendProperties
  <2>. QED
    BY <1>1, <2>1, <2>2, <2>3, <2>5, TransmitInPlace
<1>3. CASE \/ \E p \in Payloads : SendShort(p)
           \/ \E bytes \in Noise : SendNoise(bytes)
  <2>1. PICK bytes \in Seq(Nat) : Transmit(bytes)
    BY <1>3, SenderWrites
  <2>2. sent' = sent /\ wire' = wire \o bytes
    BY <1>3, <2>1 DEF SendShort, SendNoise, Transmit
  <2>3. SentOnWire(sent', wire')
    BY <1>1, <2>2, SentMore
  <2>. QED
    BY <1>1, <2>1, <2>2, <2>3, TransmitInPlace
<1>. QED
  BY <1>2, <1>3

LEMMA RecvInPlace ==
  ASSUME IInv, Windows, InPlace, NEW n \in 1 .. Len(net), Recv(n) PROVE InPlace'
<1>1. /\ Taken' = Taken + n /\ Windowed' = Windowed /\ FrameStart' = FrameStart
      /\ Len(stream') = n /\ Len(net') = Len(net) - n
      /\ stream' \in Seq(Nat) /\ net' \in Seq(Nat)
      /\ \A j \in 1 .. n : stream'[j] = net[j]
      /\ \A j \in 1 .. Len(net) - n : net'[j] = net[n + j]
      /\ buff' = <<>>
  BY RecvPlace
<1>2. /\ net \in Seq(Nat) /\ Len(net) \in Nat /\ Taken \in Int /\ n \in Nat /\ n <= Len(net)
  BY Places DEF IInv, ParserTypes
<1>3. UNCHANGED <<wire, sent, parsFunc, lenghtBuff, lenPayload>>
  BY DEF Recv, senderVars
<1>4. /\ Stands(wire, net, Taken) /\ SentOnWire(sent, wire)
      /\ LengthRead(wire, FrameStart, parsFunc, lenghtBuff, lenPayload)
  BY DEF InPlace
<1>5. Stands(wire, net', Taken')
  <2>1. Taken' \in Int /\ n + Len(net') <= Len(net)
    BY <1>1, <1>2
  <2>2. \A j \in 1 .. Len(net') : net'[j] = net[n + j]
    BY <1>1
  <2>. QED
    BY <1>1, <1>2, <1>4, <2>1, <2>2, StandsPart
<1>6. Stands(wire, stream', Taken' - Len(stream'))
  <2>1. /\ Taken' - Len(stream') \in Int /\ 0 + Len(stream') <= Len(net) /\ 0 \in Nat
        /\ Taken' - Len(stream') = Taken + 0
    BY <1>1, <1>2
  <2>2. \A j \in 1 .. Len(stream') : stream'[j] = net[0 + j]
    BY <1>1, <1>2
  <2>3. net \in Seq(Nat) /\ stream' \in Seq(Nat) /\ Stands(wire, net, Taken)
        /\ Taken \in Int
    BY <1>1, <1>2, <1>4
  <2>4. Stands(wire, stream', Taken' - Len(stream'))
    BY <2>1, <2>2, <2>3, StandsPart
  <2>. QED
    BY <1>3, <2>4
<1>7. Stands(wire, buff', Windowed' - Len(buff'))
  BY <1>1, NothingStands
<1>. QED
  BY <1>1, <1>3, <1>4, <1>5, <1>6, <1>7 DEF InPlace

LEMMA ReadWindowInPlace ==
  ASSUME IInv, Windows, InPlace, ReadWindow PROVE InPlace'
<1>. DEFINE end == IF offsetBuff + MaxBuffLen < Len(stream)
                   THEN offsetBuff + MaxBuffLen ELSE Len(stream)
<1>1. /\ end \in Nat /\ offsetBuff < end /\ end <= Len(stream)
      /\ buff' \in Seq(Nat) /\ Len(buff') = end - offsetBuff
      /\ \A j \in 1 .. end - offsetBuff : buff'[j] = stream[offsetBuff + j]
      /\ Taken' = Taken /\ Windowed' = Windowed + Len(buff')
      /\ FrameStart' = FrameStart
      /\ Windowed' = Taken - Len(stream) + end
  BY ReadWindowPlace
<1>. HIDE DEF end
<1>2. /\ stream \in Seq(Nat) /\ Len(stream) \in Nat /\ Taken \in Int /\ offsetBuff \in Nat
  BY Places DEF IInv, ParserTypes
<1>3. UNCHANGED <<net, stream, wire, sent, parsFunc, lenghtBuff, lenPayload>>
  BY DEF ReadWindow, senderVars
<1>4. Stands(wire, buff', Windowed' - Len(buff'))
  <2>. DEFINE q == Taken - Len(stream)
  <2>1. /\ q \in Int /\ Windowed' - Len(buff') \in Int
        /\ Windowed' - Len(buff') = q + offsetBuff
        /\ offsetBuff + Len(buff') <= Len(stream)
    <3>. DEFINE b == Len(buff')
                v == Windowed'
    <3>1. /\ b = end - offsetBuff /\ v = Taken - Len(stream) + end
          /\ end \in Nat /\ offsetBuff \in Nat
      BY <1>1, <1>2
    <3>. HIDE DEF b, v
    <3>2. q \in Int /\ v - b \in Int /\ v - b = q + offsetBuff /\ offsetBuff + b <= Len(stream)
      <4>1. Len(stream) \in Nat /\ Taken \in Int /\ end <= Len(stream)
        BY <1>1, <1>2
      <4>. QED
        BY <3>1, <4>1
    <3>. QED
      BY <3>2 DEF b, v
  <2>2. Stands(wire, stream, q) /\ \A j \in 1 .. Len(buff') : buff'[j] = stream[offsetBuff + j]
    BY <1>1 DEF InPlace
  <2>. HIDE DEF q
  <2>. QED
    BY <1>1, <1>2, <2>1, <2>2, StandsPart
<1>. QED
  BY <1>1, <1>3, <1>4 DEF InPlace

LEMMA OnRecvEndInPlace ==
  ASSUME IInv, Windows, InPlace, OnRecvEnd PROVE InPlace'
<1>1. /\ Taken' = Taken /\ Windowed' = Windowed
      /\ UNCHANGED <<buff, posBuff, packetData, posBuffBeginPack>>
  BY OnRecvEndPlace
<1>2. FrameStart' = FrameStart
  BY <1>1, Untouched
<1>3. /\ UNCHANGED <<net, wire, sent, parsFunc, lenghtBuff, lenPayload>> /\ stream' = <<>>
  BY DEF OnRecvEnd, senderVars, parserVars
<1>4. Stands(wire, stream', Taken' - Len(stream'))
  BY <1>3, NothingStands
<1>. QED
  BY <1>1, <1>2, <1>3, <1>4 DEF InPlace

-----------------------------------------------------------------------------
LEMMA WirePart ==
  ASSUME NEW w \in Seq(Nat), NEW a \in Nat \ {0}, NEW b \in Nat, a <= b, b <= Len(w)
  PROVE  LET part == SubSeq(w, a, b)
         IN  /\ part \in Seq(Nat) /\ Len(part) = b - a + 1
             /\ \A j \in 1 .. b - a + 1 : part[j] = w[a + j - 1]
<1>. DEFINE q == a - 1
            part == SubSeq(w, a, b)
<1>1. q \in Nat /\ q + 1 = a /\ q <= b /\ b - q = b - a + 1
  OBVIOUS
<1>2. /\ part \in Seq(Nat) /\ Len(part) = b - q
      /\ \A i \in 1 .. b - q : part[i] = w[q + i]
  <2>. HIDE DEF q
  <2>1. /\ SubSeq(w, q + 1, b) \in Seq(Nat) /\ Len(SubSeq(w, q + 1, b)) = b - q
        /\ \A i \in 1 .. b - q : SubSeq(w, q + 1, b)[i] = w[q + i]
    BY <1>1, CutOut
  <2>. QED
    BY <1>1, <2>1
<1>3. ASSUME NEW j \in 1 .. b - a + 1 PROVE q + j = a + j - 1 /\ j \in 1 .. b - q
  BY <1>1
<1>. HIDE DEF part, q
<1>4. /\ part \in Seq(Nat) /\ Len(part) = b - a + 1
      /\ \A j \in 1 .. b - a + 1 : part[j] = w[a + j - 1]
  BY <1>1, <1>2, <1>3
<1>. QED
  BY <1>4 DEF part

(* The length a frame says is in its two bytes behind the marker. *)
LEMMA LengthSaid ==
  ASSUME NEW f \in Seq(Nat), Len(f) >= posPLen + 2
  PROVE  PayloadLen(f) = DecodeLen(<<f[posPLen + 1], f[posPLen + 2]>>)
<1>. DEFINE a == posPLen
            l == SubSeq(f, a + 1, a + 2)
            x == f[a + 1]
            y == f[a + 2]
<1>1. a \in Nat /\ a + 2 \in Nat /\ a <= a + 2 /\ a + 2 <= Len(f) /\ lenPLen = 2
  BY Lengths, LenProperties
<1>2. PayloadLen(f) = DecodeLen(l)
  BY <1>1 DEF PayloadLen
<1>. HIDE DEF a
<1>3. l[1] = x /\ l[2] = y
  <2>1. \A i \in 1 .. (a + 2) - a : SubSeq(f, a + 1, a + 2)[i] = f[a + i]
    BY <1>1, CutOut
  <2>2. 1 \in 1 .. (a + 2) - a /\ 2 \in 1 .. (a + 2) - a
    BY <1>1
  <2>. QED
    BY <2>1, <2>2
<1>. HIDE DEF l, x, y
<1>4. <<x, y>>[1] = x /\ <<x, y>>[2] = y
  OBVIOUS
<1>5. DecodeLen(l) = DecodeLen(<<x, y>>)
  BY <1>3, <1>4, Zenon DEF DecodeLen
<1>. QED
  BY <1>2, <1>5 DEF a, x, y

(* The stretch of the connection that a frame which is complete occupies, if
   the frame is what the connection carries. *)
LEMMA WholeFrame ==
  ASSUME PlaceInv, InPlace, FrameComplete,
         assembled = OnWire(FrameStart, FrameStart + posPacket)
  PROVE  LET a == FrameStart
             b == FrameStart + posPacket
         IN  /\ a \in 1 .. written /\ b \in 1 .. written /\ a <= b /\ b <= Taken
             /\ b - a + 1 = lenOverhead + lenPayload /\ b - a + 1 >= lenOverhead
             /\ PayloadLen(assembled) = lenPayload
             /\ PayloadLen(OnWire(a, written)) = lenPayload
             /\ Len(assembled) = b - a + 1
             /\ \A j \in 1 .. b - a + 1 : assembled[j] = wire[a + j - 1]
<1>. DEFINE a == FrameStart
            b == FrameStart + posPacket
<1>0. IInv /\ Windows /\ HasByte
  BY DEF PlaceInv, FrameComplete
<1>1. /\ assembled \in Seq(Nat) /\ Len(assembled) = posPacket + 1
      /\ posPacket \in Nat /\ wire \in Seq(Nat) /\ written \in Nat
      /\ written = Len(wire) /\ a \in Int /\ b \in Int /\ b = a + posPacket
      /\ lenPayload \in Nat
  <2>1. /\ assembled \in Seq(Nat) /\ Len(assembled) = posPacket + 1
        /\ posPacket \in Nat
    BY <1>0, Looking
  <2>2. written \in Nat /\ FrameStart \in Int
    BY <1>0, Places
  <2>3. wire \in Seq(Nat) /\ lenPayload \in Nat /\ written = Len(wire)
    BY <1>0 DEF IInv, ParserTypes, written
  <2>. QED
    BY <2>1, <2>2, <2>3
<1>2. posPacket = posPayload + lenPayload + lenCRC - 1
  BY DEF FrameComplete
<1>3. b <= Taken
  BY <1>0, ByteRead
<1>. HIDE DEF a, b
<1>4. assembled # <<>>
  BY <1>1, EmptySeq
<1>5. a >= 1 /\ b <= written /\ assembled = SubSeq(wire, a, b)
  BY <1>4 DEF OnWire, a, b
<1>6. a \in Nat \ {0} /\ b \in Nat /\ a <= b /\ b <= Len(wire)
  BY <1>1, <1>5
<1>7. \A j \in 1 .. b - a + 1 : assembled[j] = wire[a + j - 1]
  <2>1. \A j \in 1 .. b - a + 1 : SubSeq(wire, a, b)[j] = wire[a + j - 1]
    BY <1>1, <1>6, WirePart, Zenon
  <2>. QED
    BY <1>5, <2>1, Zenon
<1>8. /\ b - a + 1 = posPacket + 1
      /\ b - a + 1 = lenOverhead + lenPayload /\ b - a + 1 >= lenOverhead
  BY <1>1, <1>2, <1>6, Lengths DEF lenOverhead
<1>9. PayloadLen(assembled) = lenPayload
  <2>. DEFINE p == posPLen
              x == wire[a + p]
              y == wire[a + p + 1]
              u == assembled[p + 1]
              v == assembled[p + 2]
  <2>1. p \in Nat /\ Len(assembled) >= p + 2 /\ p + 2 <= b - a + 1
    BY <1>1, <1>2, <1>8, Lengths
  <2>2. PayloadLen(assembled) = DecodeLen(<<u, v>>)
    BY <1>1, <2>1, LengthSaid
  <2>3. lenPayload = DecodeLen(<<x, y>>)
    BY <1>5 DEF InPlace, LengthRead, FrameComplete, a
  <2>. HIDE DEF p
  <2>4. u = x /\ v = y
    <3>1. /\ p + 1 \in 1 .. b - a + 1 /\ p + 2 \in 1 .. b - a + 1
          /\ a + (p + 1) - 1 = a + p /\ a + (p + 2) - 1 = a + p + 1
      BY <1>6, <2>1
    <3>. QED
      BY <1>7, <3>1
  <2>. HIDE DEF x, y, u, v
  <2>. QED
    BY <2>2, <2>3, <2>4
<1>10. PayloadLen(OnWire(a, written)) = lenPayload
  <2>. DEFINE p == posPLen
              t == SubSeq(wire, a, written)
              x == wire[a + p]
              y == wire[a + p + 1]
              u == t[p + 1]
              v == t[p + 2]
  <2>1. p \in Nat /\ p + 2 <= b - a + 1
    BY <1>1, <1>2, <1>8, Lengths
  <2>2. OnWire(a, written) = t
    BY <1>1, <1>5 DEF OnWire
  <2>3. lenPayload = DecodeLen(<<x, y>>)
    BY <1>5 DEF InPlace, LengthRead, FrameComplete, a
  <2>. HIDE DEF p
  <2>4. /\ t \in Seq(Nat) /\ Len(t) = written - a + 1
        /\ \A j \in 1 .. written - a + 1 : t[j] = wire[a + j - 1]
    <3>1. /\ wire \in Seq(Nat) /\ a \in Nat \ {0} /\ written \in Nat
          /\ a <= written /\ written <= Len(wire)
      BY <1>1, <1>5, <1>6
    <3>. QED
      BY <3>1, WirePart, Zenon
  <2>. HIDE DEF t
  <2>5. /\ p + 1 \in 1 .. written - a + 1 /\ p + 2 \in 1 .. written - a + 1
        /\ a + (p + 1) - 1 = a + p /\ a + (p + 2) - 1 = a + p + 1
        /\ Len(t) >= p + 2
    <3>1. /\ a \in Nat \ {0} /\ b \in Nat /\ written \in Nat /\ b <= written
          /\ Len(t) = written - a + 1
      BY <1>1, <1>5, <1>6, <2>4
    <3>2. p + 2 <= written - a + 1
      BY <2>1, <3>1
    <3>. QED
      BY <2>1, <3>1, <3>2
  <2>6. PayloadLen(t) = DecodeLen(<<u, v>>)
    BY <2>4, <2>5, LengthSaid DEF p
  <2>7. u = x /\ v = y
    BY <2>4, <2>5
  <2>. HIDE DEF x, y, u, v
  <2>. QED
    BY <2>2, <2>3, <2>6, <2>7
<1>11. a \in 1 .. written /\ b \in 1 .. written
  BY <1>1, <1>6
<1>12. Len(assembled) = b - a + 1
  BY <1>1, <1>8
<1>. QED
  BY <1>3, <1>6, <1>7, <1>8, <1>9, <1>10, <1>11, <1>12 DEF a, b

(* A packet that is done is what the connection carries. *)
DoneIsOnWire ==
  PacketDone => assembled = OnWire(FrameStart, FrameStart + posPacket)

LEMMA OverwrittenNotDone == OverwrittenFails => DoneIsOnWire
  BY DEF DoneIsOnWire, OverwrittenFails, PacketDone

(* Such a frame is one that was sent, where the checksum tells it. *)
LEMMA DoneWasSent ==
  ASSUME CrcIsBytes, PlaceInv, InPlace, OnlyPacketsCheck, DoneIsOnWire, PacketDone
  PROVE  \E i \in DOMAIN sent :
           /\ sent[i].first = FrameStart /\ sent[i].last = FrameStart + posPacket
           /\ sent[i].last <= Taken /\ Payload(packet) = sent[i].payload
<1>. DEFINE a == FrameStart
            b == FrameStart + posPacket
<1>1. FrameComplete /\ Check(packet) /\ assembled = OnWire(a, b)
  BY DEF PacketDone, DoneIsOnWire
<1>2. /\ a \in 1 .. written /\ b \in 1 .. written /\ a <= b /\ b <= Taken
      /\ b - a + 1 = lenOverhead + lenPayload /\ b - a + 1 >= lenOverhead
      /\ PayloadLen(assembled) = lenPayload
      /\ PayloadLen(OnWire(a, written)) = lenPayload
      /\ Len(assembled) = b - a + 1
      /\ \A j \in 1 .. b - a + 1 : assembled[j] = wire[a + j - 1]
  BY <1>1, WholeFrame
<1>3. /\ assembled \in Seq(Nat) /\ behind \in Seq(Nat)
      /\ lenPayload \in Nat /\ written \in Nat
  BY Looking, Places DEF PlaceInv, PacketDone, FrameComplete, IInv, ParserTypes
<1>. HIDE DEF a, b
<1>4. Check(OnWire(a, b)) /\ Payload(packet) = Payload(assembled)
  <2>1. /\ posPayload <= Len(assembled)
        /\ Len(assembled) = posPayload + PayloadLen(assembled) + lenCRC
    BY <1>2, <1>3, Lengths DEF lenOverhead
  <2>2. Check(packet) = Check(assembled) /\ Payload(packet) = Payload(assembled)
    BY <1>3, <2>1, CheckFront DEF packet
  <2>. QED
    BY <1>1, <2>2
<1>5. PICK i \in DOMAIN sent : sent[i].first = a /\ sent[i].last = b
  <2>1. /\ a \in 1 .. written - lenOverhead + 1
        /\ b = a + lenOverhead - 1 + PayloadLen(OnWire(a, written))
        /\ b <= written
    BY <1>2, <1>3, Lengths DEF lenOverhead
  <2>. QED
    BY <1>4, <2>1 DEF OnlyPacketsCheck
<1>. DEFINE p == sent[i].payload
            f == Create(p)
<1>6. wire \in Seq(Nat) /\ SentOnWire(sent, wire)
  BY DEF PlaceInv, IInv, ParserTypes, InPlace
<1>7. /\ p \in Seq(Nat) /\ Len(p) <= MaxPayload
      /\ b = a + Len(f) - 1
      /\ \A j \in 1 .. Len(f) : wire[a + j - 1] = f[j]
  <2>1. p \in Seq(Nat)
    BY <1>5, <1>6, OnWireTypes
  <2>. QED
    BY <1>5, <1>6, <2>1 DEF SentOnWire
<1>8. f \in Seq(Nat) /\ Len(f) \in Nat
  BY <1>7, FrameType, LenProperties
<1>. HIDE DEF f
<1>9. Len(f) = b - a + 1
  BY <1>2, <1>7, <1>8
<1>10. assembled = f
  <2>1. Len(assembled) = Len(f) /\ \A j \in 1 .. Len(assembled) : assembled[j] = f[j]
    BY <1>2, <1>7, <1>9
  <2>. QED
    BY <1>3, <1>8, <2>1, SeqEqual, Zenon
<1>11. Payload(f) = p
  BY <1>7, FrameChecks DEF f
<1>. QED
  BY <1>2, <1>4, <1>5, <1>10, <1>11 DEF a, b

LEMMA PacketNotEmpty ==
  ASSUME CrcIsBytes, NEW s, NEW w \in Seq(Nat), SentOnWire(s, w), NEW i \in DOMAIN s
  PROVE  s[i].first <= s[i].last /\ s[i].first >= 1
<1>. DEFINE p == s[i].payload
<1>1. /\ p \in Seq(Nat) /\ s[i].first \in Nat /\ s[i].last \in Nat
  BY OnWireTypes
<1>2. /\ Len(p) <= MaxPayload /\ s[i].first >= 1
      /\ s[i].last = s[i].first + Len(Create(p)) - 1
  BY DEF SentOnWire
<1>. HIDE DEF p
<1>3. Len(Create(p)) \in Nat /\ Len(Create(p)) >= 1
  <2>1. Len(p) \in Nat /\ Len(Create(p)) = posPayload + Len(p) + lenCRC
    BY <1>1, <1>2, FrameShape, Zenon
  <2>. QED
    BY <2>1, Lengths
<1>. QED
  BY <1>1, <1>2, <1>3

(* The payload of one more packet, that stands behind the others. *)
LEMMA DeliveredOneMore ==
  ASSUME CrcIsBytes, NEW s, NEW w \in Seq(Nat), SentOnWire(s, w),
         NEW d, NEW taken \in Int, NEW start \in Int,
         DeliveredInOrder(s, d, taken, start),
         NEW k \in DOMAIN s, s[k].first = start, s[k].last <= taken,
         NEW start2 \in Int, s[k].last < start2
  PROVE  DeliveredInOrder(s, Append(d, s[k].payload), taken, start2)
<1>. DEFINE n == Len(d)
            e == Append(d, s[k].payload)
<1>1. PICK f \in [1 .. n -> 1 .. Len(s)] :
        \A i \in DOMAIN f :
          /\ d[i] = s[f[i]].payload
          /\ s[f[i]].last <= taken /\ s[f[i]].last < start
          /\ i > 1 => f[i - 1] < f[i]
  BY DEF DeliveredInOrder
<1>2. /\ Len(s) \in Nat /\ DOMAIN s = 1 .. Len(s)
      /\ \A i \in DOMAIN s : /\ s[i].payload \in Seq(Nat)
                             /\ s[i].first \in Nat /\ s[i].last \in Nat
  BY OnWireTypes
<1>3. d \in Seq(Seq(Nat)) /\ n \in Nat
  BY LenProperties DEF DeliveredInOrder
<1>4. /\ e \in Seq(Seq(Nat)) /\ Len(e) = n + 1
      /\ \A i \in 1 .. n : e[i] = d[i]
      /\ e[n + 1] = s[k].payload
  BY <1>2, <1>3, AppendProperties
<1>. HIDE DEF n, e
<1>5. start <= s[k].last
  BY PacketNotEmpty
<1>6. ASSUME NEW i \in 1 .. n PROVE f[i] < k /\ f[i] \in Nat
  <2>1. f[i] \in 1 .. Len(s) /\ f[i] \in DOMAIN s /\ s[f[i]].last < start
    BY <1>1, <1>2
  <2>2. s[f[i]].last \in Nat /\ s[k].last \in Nat
    BY <1>2, <2>1
  <2>3. ~(k < f[i])
    <3>1. k < f[i] => s[k].last < s[f[i]].first
      BY <2>1 DEF SentOnWire
    <3>2. s[f[i]].first <= s[f[i]].last
      BY <2>1, PacketNotEmpty
    <3>3. s[f[i]].first \in Nat
      BY <1>2, <2>1
    <3>. QED
      BY <1>5, <2>1, <2>2, <3>1, <3>2, <3>3
  <2>4. f[i] # k
    BY <1>5, <2>1, <2>2
  <2>. QED
    BY <1>2, <2>1, <2>3, <2>4
<1>. DEFINE g == [i \in 1 .. n + 1 |-> IF i = n + 1 THEN k ELSE f[i]]
<1>7. g \in [1 .. Len(e) -> 1 .. Len(s)]
  <2>1. ASSUME NEW i \in 1 .. n + 1 PROVE g[i] \in 1 .. Len(s)
    <3>1. CASE i = n + 1
      BY <1>2, <3>1
    <3>2. CASE i # n + 1
      <4>1. i \in 1 .. n
        BY <1>3, <3>2
      <4>. QED
        BY <1>1, <3>2, <4>1
    <3>. QED
      BY <3>1, <3>2
  <2>. QED
    BY <1>4, <2>1
<1>8. ASSUME NEW i \in DOMAIN g
      PROVE  /\ e[i] = s[g[i]].payload
             /\ s[g[i]].last <= taken /\ s[g[i]].last < start2
             /\ i > 1 => g[i - 1] < g[i]
  <2>1. i \in 1 .. n + 1
    OBVIOUS
  <2>2. CASE i \in 1 .. n
    <3>1. i # n + 1 /\ g[i] = f[i] /\ i \in DOMAIN f
      BY <1>1, <1>3, <2>2
    <3>2. i > 1 => i - 1 \in 1 .. n + 1 /\ i - 1 # n + 1 /\ g[i - 1] = f[i - 1]
      BY <1>3, <2>2
    <3>3. s[f[i]].last < start2
      <4>1. s[f[i]].last < start /\ s[f[i]].last \in Nat /\ s[k].last \in Nat
        BY <1>1, <1>2, <3>1
      <4>. QED
        BY <1>5, <4>1
    <3>. HIDE DEF g
    <3>. QED
      BY <1>1, <1>4, <2>2, <3>1, <3>2, <3>3
  <2>3. CASE i = n + 1
    <3>1. g[i] = k /\ e[i] = s[k].payload
      BY <1>4, <2>1, <2>3
    <3>2. ASSUME i > 1 PROVE g[i - 1] < k
      <4>1. i - 1 \in 1 .. n /\ i - 1 \in 1 .. n + 1 /\ i - 1 # n + 1
        BY <1>3, <2>3, <3>2
      <4>2. g[i - 1] = f[i - 1]
        BY <4>1
      <4>. QED
        BY <1>6, <4>1, <4>2
    <3>. QED
      BY <3>1, <3>2
  <2>. QED
    BY <1>3, <2>1, <2>2, <2>3
<1>9. DeliveredInOrder(s, e, taken, start2)
  <2>. HIDE DEF g
  <2>. QED
    BY <1>4, <1>7, <1>8 DEF DeliveredInOrder
<1>. QED
  BY <1>9 DEF e

-----------------------------------------------------------------------------
LEMMA StepInPlace ==
  ASSUME CrcIsBytes, PlaceInv, InPlace, [Next]_vars PROVE InPlace'
<1>0. IInv /\ Windows
  BY DEF PlaceInv
<1>1. CASE UNCHANGED vars
  <2>1. UNCHANGED <<net, stream, buff, wire, sent, parsFunc, lenghtBuff, lenPayload>>
    BY <1>1 DEF vars, parserVars, senderVars
  <2>. QED
    BY <1>1, <2>1, UnchangedPlace DEF InPlace
<1>. QED
  BY <1>0, <1>1, SenderInPlace, RecvInPlace, ReadWindowInPlace, OnRecvEndInPlace,
     ParseByteInPlace DEF Next, OnRecvStep, Spin

LEMMA PlacesNext ==
  ASSUME IInv' PROVE Taken' \in Int /\ FrameStart' \in Int
<1>. DEFINE a == Len(net')
            b == Len(stream')
            c == Len(buff')
            d == posBuff'
            e == offsetBuff'
            f == posPacket'
            g == written'
<1>1. /\ a \in Nat /\ b \in Nat /\ c \in Nat /\ d \in Nat /\ e \in Nat
      /\ f \in Nat /\ g \in Nat
  BY LenProperties DEF IInv, ParserTypes, posPacket, written
<1>2. /\ Taken' = g - a /\ Windowed' = Taken' - b + e /\ Seen' = Windowed' - c + d
      /\ FrameStart' = Seen' - f + 1
  BY DEF Taken, Windowed, Seen, FrameStart
<1>. HIDE DEF a, b, c, d, e, f, g
<1>3. Taken' \in Int
  BY <1>1, <1>2
<1>4. Windowed' \in Int
  BY <1>1, <1>2, <1>3
<1>5. Seen' \in Int
  BY <1>1, <1>2, <1>4
<1>6. FrameStart' \in Int
  BY <1>1, <1>2, <1>5
<1>. QED
  BY <1>3, <1>6

(* What was delivered stays in front of the parser, and a packet joins it. *)
LEMMA StepInOrder ==
  ASSUME CrcIsBytes, WireInv, OnlyPacketsCheck, DoneIsOnWire, [Next]_vars
  PROVE  DeliveredInOrder(sent, delivered, Taken, FrameStart)'
<1>0. /\ PlaceInv /\ IInv /\ Windows /\ InPlace
      /\ DeliveredInOrder(sent, delivered, Taken, FrameStart)
      /\ wire \in Seq(Nat) /\ SentOnWire(sent, wire) /\ Len(sent) \in Nat
      /\ Taken \in Int /\ FrameStart \in Int
  BY OnWireTypes, Places DEF WireInv, PlaceInv, InPlace, IInv, ParserTypes
<1>1. Taken' \in Int /\ FrameStart' \in Int /\ FrameStart' >= FrameStart
  <2>1. IInv' /\ FrameStart' >= FrameStart
    BY <1>0, StepKeeps, StepAdvances DEF Advances
  <2>. QED
    BY <2>1, PlacesNext
<1>2. ASSUME delivered' = delivered, Taken <= Taken',
             Len(sent') \in Nat, Len(sent) <= Len(sent'),
             \A i \in 1 .. Len(sent) : sent'[i] = sent[i]
      PROVE  DeliveredInOrder(sent, delivered, Taken, FrameStart)'
  BY <1>0, <1>1, <1>2, DeliveredLater
<1>3. ASSUME delivered' = delivered, Taken <= Taken', sent' = sent
      PROVE  DeliveredInOrder(sent, delivered, Taken, FrameStart)'
  BY <1>0, <1>2, <1>3
<1>4. CASE \/ \E p \in Payloads : SendPacket(p) \/ SendShort(p)
           \/ \E bytes \in Noise : SendNoise(bytes)
  <2>1. PICK bytes \in Seq(Nat) : Transmit(bytes)
    BY <1>4, SenderWrites
  <2>2. delivered' = delivered /\ Taken <= Taken'
    <3>1. Taken' = Taken
      BY <1>0, <2>1, TransmitPlace
    <3>. QED
      BY <1>0, <2>1, <3>1 DEF Transmit
  <2>. QED
    BY <1>0, <1>2, <1>4, <2>2, SenderInPlace
<1>5. ASSUME NEW n \in 1 .. Len(net), Recv(n)
      PROVE  DeliveredInOrder(sent, delivered, Taken, FrameStart)'
  <2>1. Taken' = Taken + n /\ n \in Nat
    BY <1>0, <1>5, RecvPlace
  <2>2. delivered' = delivered /\ sent' = sent
    BY <1>5 DEF Recv, senderVars
  <2>3. Taken <= Taken'
    BY <1>0, <2>1
  <2>. QED
    BY <1>3, <2>2, <2>3
<1>6. CASE ReadWindow \/ OnRecvEnd \/ Spin \/ UNCHANGED vars
  <2>1. Taken' = Taken
    BY <1>0, <1>6, ReadWindowPlace, OnRecvEndPlace, UnchangedPlace DEF Spin
  <2>2. delivered' = delivered /\ sent' = sent
    BY <1>6 DEF ReadWindow, OnRecvEnd, Spin, vars, senderVars
  <2>3. Taken <= Taken'
    BY <1>0, <2>1
  <2>. QED
    BY <1>3, <2>2, <2>3
<1>7. CASE ParseByte /\ ~PacketDone
  <2>1. Elsewhere /\ (FrameGoesOn \/ FrameGivenUp)
    BY <1>0, <1>7, ByteOutcomes
  <2>2. delivered' = delivered /\ sent' = sent /\ Taken' = Taken
    BY <1>0, <1>7, <2>1 DEF FrameGoesOn, FrameGivenUp, Elsewhere, senderVars, Taken, written
  <2>3. Taken <= Taken'
    BY <1>0, <2>2
  <2>. QED
    BY <1>3, <2>2, <2>3
<1>8. CASE PacketDone
  <2>1. PICK k \in DOMAIN sent :
          /\ sent[k].first = FrameStart /\ sent[k].last = FrameStart + posPacket
          /\ sent[k].last <= Taken /\ Payload(packet) = sent[k].payload
    BY <1>0, <1>8, DoneWasSent
  <2>2. FrameStart' = FrameStart + posPacket + 1 /\ Taken' = Taken /\ posPacket \in Nat
    BY <1>0, <1>8, PacketDoneHere, Places
  <2>3. delivered' = Append(delivered, sent[k].payload) /\ sent' = sent
    BY <1>8, <2>1 DEF PacketDone, Elsewhere, senderVars
  <2>4. sent[k].last < FrameStart'
    BY <1>0, <2>1, <2>2
  <2>. QED
    BY <1>0, <1>1, <2>1, <2>2, <2>3, <2>4, DeliveredOneMore
<1>. QED
  BY <1>4, <1>5, <1>6, <1>7, <1>8 DEF Next, OnRecvStep

LEMMA NothingSent ==
  SentOnWire(<<>>, <<>>) /\ \A q, x : DeliveredInOrder(<<>>, <<>>, q, x)
<1>1. SentOnWire(<<>>, <<>>)
  BY EmptySeq DEF SentOnWire
<1>2. \E f \in [1 .. 0 -> 1 .. 0] : DOMAIN f = {}
  <2>1. 1 .. 0 = {}
    OBVIOUS
  <2>2. [i \in {} |-> 0] \in [{} -> {}]
    OBVIOUS
  <2>. QED
    BY <2>1, <2>2
<1>. QED
  BY <1>1, <1>2, EmptySeq DEF DeliveredInOrder

LEMMA WireAtFirst == Init => WireInv
<1>. SUFFICES ASSUME Init PROVE WireInv
  OBVIOUS
<1>1. /\ wire = <<>> /\ net = <<>> /\ stream = <<>> /\ buff = <<>> /\ sent = <<>>
      /\ delivered = <<>> /\ parsFunc = "ScanMID" /\ lenghtBuff = <<>>
  BY DEF Init
<1>2. PlaceInv
  BY PlaceAtFirst
<1>3. SentOnWire(sent, wire) /\ DeliveredInOrder(sent, delivered, Taken, FrameStart)
  BY <1>1, NothingSent
<1>4. InPlace
  BY <1>1, <1>3, NothingStands, NoLengthYet DEF InPlace
<1>. QED
  BY <1>2, <1>3, <1>4 DEF WireInv

LEMMA WireStep ==
  CrcIsBytes /\ WireInv /\ OnlyPacketsCheck /\ OverwrittenFails /\ [Next]_vars => WireInv'
  BY PlaceStep, StepInPlace, StepInOrder, OverwrittenNotDone DEF WireInv

LEMMA WireSent == WireInv => DeliveredWereSent
  BY DEF WireInv, DeliveredInOrder, DeliveredWereSent

(* Whatever noise, however cut and whatever the stack held: if the checksum lets
   nothing pass that is not a packet, neither of what the connection carries nor
   of a frame that was overwritten, what is given to the application are packets
   that were sent, whole, each once and in order. *)
THEOREM OnlyPackets ==
  CrcIsBytes => (Spec /\ []OnlyPacketsCheck /\ []OverwrittenFails => []DeliveredWereSent)
<1>. SUFFICES ASSUME CrcIsBytes
              PROVE  Spec /\ []OnlyPacketsCheck /\ []OverwrittenFails => []DeliveredWereSent
  OBVIOUS
<1>1. Init => WireInv
  BY WireAtFirst
<1>2. WireInv /\ OnlyPacketsCheck /\ OverwrittenFails /\ [Next]_vars => WireInv'
  BY WireStep
<1>3. WireInv => DeliveredWereSent
  BY WireSent
<1>. QED
  BY <1>1, <1>2, <1>3, PTL DEF Spec

-----------------------------------------------------------------------------
(* The frame in progress is what the connection carries. *)
FrameIntact == Stands(wire, packetData, FrameStart - 1)

LEMMA StandsByte ==
  ASSUME NEW w, NEW bytes \in Seq(Nat), NEW q \in Int, Stands(w, bytes, q),
         NEW b \in Nat, NEW k, k = q + Len(bytes) + 1, k \in DOMAIN w, b = w[k]
  PROVE  Stands(w, Append(bytes, b), q)
<1>. DEFINE t == Append(bytes, b)
            n == Len(bytes)
<1>1. /\ n \in Nat /\ DOMAIN bytes = 1 .. n /\ Len(t) = n + 1 /\ t \in Seq(Nat)
      /\ \A j \in 1 .. n : t[j] = bytes[j]
      /\ t[n + 1] = b
  BY LenProperties, AppendProperties
<1>2. DOMAIN t = 1 .. n + 1
  BY <1>1, LenProperties
<1>3. k = q + (n + 1)
  BY <1>1
<1>. HIDE DEF t, n
<1>4. ASSUME NEW j \in 1 .. n + 1 PROVE q + j \in DOMAIN w /\ t[j] = w[q + j]
  <2>1. CASE j \in 1 .. n
    BY <1>1, <2>1 DEF Stands
  <2>2. CASE j = n + 1
    BY <1>1, <1>3, <2>2
  <2>. QED
    BY <1>1, <2>1, <2>2
<1>5. Stands(w, t, q)
  BY <1>2, <1>4 DEF Stands
<1>. QED
  BY <1>5 DEF t

(* It stays that as long as no OnRecv finds it overwritten. *)
LEMMA FrameIntactStep ==
  ASSUME CrcIsBytes, PlaceInv, InPlace, FrameIntact, [Next]_vars,
         \A n \in 1 .. Len(net) : Recv(n) => packetData' = packetData
  PROVE  FrameIntact'
<1>0. /\ IInv /\ Windows /\ FrameStart \in Int /\ posPacket \in Nat
      /\ packetData \in Seq(Nat)
  BY Places DEF PlaceInv, IInv, ParserTypes
<1>1. ASSUME packetData' = <<>> PROVE FrameIntact'
  BY <1>1, NothingStands DEF FrameIntact
<1>2. ASSUME packetData' = packetData, wire' = wire, FrameStart' = FrameStart
      PROVE  FrameIntact'
  BY <1>2 DEF FrameIntact
<1>3. CASE \/ \E p \in Payloads : SendPacket(p) \/ SendShort(p)
           \/ \E bytes \in Noise : SendNoise(bytes)
  <2>1. PICK bytes \in Seq(Nat) : Transmit(bytes)
    BY <1>3, SenderWrites
  <2>2. /\ UNCHANGED <<buff, posBuff, packetData, posBuffBeginPack>>
        /\ Windowed' = Windowed /\ wire' = wire \o bytes
    BY <1>0, <2>1, TransmitPlace DEF Transmit, parserVars
  <2>3. FrameStart' = FrameStart
    BY <2>2, Untouched
  <2>4. Stands(wire', packetData, FrameStart - 1)
    BY <2>2, StandsMore DEF FrameIntact, PlaceInv, IInv, ParserTypes
  <2>. QED
    BY <2>2, <2>3, <2>4 DEF FrameIntact
<1>4. ASSUME NEW n \in 1 .. Len(net), Recv(n) PROVE FrameIntact'
  <2>1. FrameStart' = FrameStart /\ wire' = wire
    BY <1>0, <1>4, RecvPlace DEF Recv, senderVars
  <2>. QED
    BY <1>2, <1>4, <2>1
<1>5. CASE ReadWindow \/ OnRecvEnd \/ Spin \/ UNCHANGED vars
  <2>1. FrameStart' = FrameStart
    BY <1>0, <1>5, ReadWindowPlace, OnRecvEndPlace, Untouched, UnchangedPlace DEF Spin
  <2>2. packetData' = packetData /\ wire' = wire
    BY <1>5 DEF ReadWindow, OnRecvEnd, Spin, vars, senderVars, parserVars
  <2>. QED
    BY <1>2, <2>1, <2>2
<1>6. CASE ParseByte
  <2>1. /\ HasByte /\ Elsewhere
        /\ FrameGoesOn \/ FrameGivenUp \/ PacketDone
    BY <1>0, <1>6, ByteOutcomes
  <2>2. CASE FrameGivenUp \/ PacketDone
    BY <1>1, <2>2 DEF FrameGivenUp, StartOver, Restart, PacketDone
  <2>3. CASE FrameGoesOn
    <3>1. FrameStart' = FrameStart /\ packetData' = assembled /\ wire' = wire
      BY <1>0, <2>1, <2>3, FrameGrowsHere DEF Elsewhere, senderVars, PlaceInv
    <3>2. /\ FrameStart + posPacket \in DOMAIN wire /\ by = wire[FrameStart + posPacket]
          /\ by \in Nat
      BY <1>0, <2>1, ByteRead, Looking
    <3>3. Stands(wire, assembled, FrameStart - 1)
      <4>1. FrameStart - 1 \in Int /\ FrameStart + posPacket = (FrameStart - 1) + Len(packetData) + 1
        BY <1>0 DEF posPacket
      <4>. QED
        BY <1>0, <3>2, <4>1, StandsByte DEF assembled, FrameIntact
    <3>. QED
      BY <3>1, <3>3 DEF FrameIntact
  <2>. QED
    BY <2>1, <2>2, <2>3
<1>. QED
  BY <1>3, <1>4, <1>5, <1>6 DEF Next, OnRecvStep

(* A frame that is intact when it is complete is a stretch of the connection. *)
LEMMA IntactOnWire ==
  ASSUME PlaceInv, InPlace, FrameIntact, FrameComplete
  PROVE  assembled = OnWire(FrameStart, FrameStart + posPacket)
<1>. DEFINE a == FrameStart
            n == posPacket
<1>0. IInv /\ Windows /\ HasByte
  BY DEF PlaceInv, FrameComplete
<1>1. /\ assembled \in Seq(Nat) /\ Len(assembled) = n + 1 /\ n \in Nat
      /\ packetData \in Seq(Nat) /\ wire \in Seq(Nat) /\ by \in Nat
      /\ a \in Int /\ written \in Nat /\ Len(wire) = written
      /\ \A j \in 1 .. n : assembled[j] = packetData[j]
      /\ assembled[n + 1] = by
  BY <1>0, Looking, Places, AppendProperties
  DEF IInv, ParserTypes, posPacket, assembled, written
<1>2. /\ a + n \in DOMAIN wire /\ by = wire[a + n]
  BY <1>0, ByteRead
<1>3. a + n <= written /\ DOMAIN wire = 1 .. written
  BY <1>1, <1>2, LenProperties
<1>4. ASSUME NEW j \in 1 .. n
      PROVE  a + j - 1 \in DOMAIN wire /\ assembled[j] = wire[a + j - 1]
  <2>1. j \in DOMAIN packetData /\ (a - 1) + j = a + j - 1
    BY <1>1, <1>4, LenProperties DEF posPacket
  <2>2. (a - 1) + j \in DOMAIN wire /\ packetData[j] = wire[(a - 1) + j]
    BY <2>1 DEF FrameIntact, Stands
  <2>. QED
    BY <1>1, <1>4, <2>1, <2>2
<1>5. a >= 1
  <2>1. n >= 1
    BY <1>0, <1>1, Lengths DEF FrameComplete, IInv, ParserTypes
  <2>2. a + 1 - 1 \in DOMAIN wire
    BY <1>1, <1>4, <2>1
  <2>. QED
    BY <1>1, <1>3, <2>2
<1>. HIDE DEF a, n
<1>6. /\ SubSeq(wire, a, a + n) \in Seq(Nat) /\ Len(SubSeq(wire, a, a + n)) = n + 1
      /\ \A j \in 1 .. n + 1 : SubSeq(wire, a, a + n)[j] = wire[a + j - 1]
  <2>1. a \in Nat \ {0} /\ a + n \in Nat /\ a <= a + n /\ a + n <= Len(wire)
        /\ (a + n) - a + 1 = n + 1
    BY <1>1, <1>3, <1>5
  <2>. DEFINE b == a + n
  <2>2. /\ SubSeq(wire, a, b) \in Seq(Nat) /\ Len(SubSeq(wire, a, b)) = b - a + 1
        /\ \A j \in 1 .. b - a + 1 : SubSeq(wire, a, b)[j] = wire[a + j - 1]
    BY <1>1, <2>1, WirePart, Zenon
  <2>. QED
    BY <2>1, <2>2, Zenon
<1>7. ASSUME NEW j \in 1 .. n + 1 PROVE assembled[j] = SubSeq(wire, a, a + n)[j]
  <2>1. CASE j \in 1 .. n
    BY <1>4, <1>6, <2>1
  <2>2. CASE j = n + 1
    <3>1. a + j - 1 = a + n
      BY <1>1, <2>2
    <3>. QED
      BY <1>1, <1>2, <1>6, <2>2, <3>1
  <2>. QED
    BY <1>1, <2>1, <2>2
<1>8. assembled = SubSeq(wire, a, a + n)
  BY <1>1, <1>6, <1>7, SeqEqual
<1>. QED
  BY <1>3, <1>5, <1>8 DEF OnWire, a, n

(* A frame whose first byte was overwritten does not check, if what it was
   overwritten with is no beginning of a frame. *)
IntactOrNoMarker == packetData # <<>> /\ packetData[1] # Garbage => FrameIntact

LEMMA AtMarker ==
  ASSUME IInv, FrameComplete, Check(packet)
  PROVE  packetData # <<>> /\ packetData[1] = MID[1]
<1>1. /\ SubSeq(packet, 1, lenMID) = MID /\ packet \in Seq(Nat)
      /\ lenMID \in Nat \ {0} /\ Len(MID) = lenMID
  BY Looking, Lengths DEF Check, FrameComplete, lenMID
<1>2. SubSeq(packet, 1, lenMID)[1] = packet[1]
  BY <1>1, SMT
<1>3. /\ assembled \in Seq(Nat) /\ behind \in Seq(Nat) /\ packetData \in Seq(Nat)
      /\ by \in Nat /\ Len(assembled) = posPacket + 1 /\ posPacket \in Nat
      /\ posPacket >= 1
  BY Looking, Lengths DEF FrameComplete, IInv, ParserTypes
<1>4. packet[1] = assembled[1]
  <2>1. \A i \in 1 .. Len(assembled) : packet[i] = assembled[i]
    BY <1>3, Joined, Zenon DEF packet
  <2>. QED
    BY <1>3, <2>1
<1>5. assembled[1] = packetData[1] /\ packetData # <<>>
  BY <1>3, AppendProperties, EmptySeq DEF assembled, posPacket
<1>. QED
  BY <1>1, <1>2, <1>4, <1>5

LEMMA OverwrittenDoesFail ==
  ASSUME Garbage # MID[1], PlaceInv, InPlace, IntactOrNoMarker PROVE OverwrittenFails
<1>. SUFFICES ASSUME FrameComplete, Check(packet)
              PROVE  assembled = OnWire(FrameStart, FrameStart + posPacket)
  BY DEF OverwrittenFails
<1>1. FrameIntact
  BY AtMarker DEF PlaceInv, IntactOrNoMarker
<1>. QED
  BY <1>1, IntactOnWire

LEMMA IntactStep ==
  ASSUME CrcIsBytes, PlaceInv, InPlace, IntactOrNoMarker, [Next]_vars
  PROVE  IntactOrNoMarker'
<1>0. IInv /\ packetData \in Seq(Nat)
  BY DEF PlaceInv, IInv, ParserTypes
<1>1. ASSUME NEW n \in 1 .. Len(net), Recv(n), packetData' # packetData
      PROVE  IntactOrNoMarker'
  <2>1. packetData' = [i \in DOMAIN packetData |-> Garbage] /\ packetData # <<>>
    BY <1>1 DEF Recv
  <2>2. 1 \in DOMAIN packetData
    BY <1>0, <2>1, EmptySeq, LenProperties
  <2>. QED
    BY <2>1, <2>2 DEF IntactOrNoMarker
<1>2. CASE FrameIntact
  <2>1. CASE \A n \in 1 .. Len(net) : Recv(n) => packetData' = packetData
    BY <1>2, <2>1, FrameIntactStep DEF IntactOrNoMarker
  <2>. QED
    BY <1>1, <2>1
<1>3. CASE packetData # <<>> /\ packetData[1] = Garbage
  <2>1. CASE packetData' = packetData
    BY <1>3, <2>1 DEF IntactOrNoMarker
  <2>2. CASE ParseByte
    <3>1. HasByte /\ (FrameGoesOn \/ FrameGivenUp \/ PacketDone)
      BY <1>0, <2>2, ByteOutcomes
    <3>2. CASE FrameGivenUp \/ PacketDone
      BY <3>2 DEF FrameGivenUp, StartOver, Restart, PacketDone, IntactOrNoMarker
    <3>3. CASE FrameGoesOn
      <4>1. assembled[1] = packetData[1]
        <5>1. 1 \in 1 .. Len(packetData) /\ by \in Nat
          BY <1>0, <1>3, <3>1, EmptySeq, LenProperties, Looking
        <5>. QED
          BY <1>0, <5>1, AppendProperties DEF assembled
      <4>. QED
        BY <1>3, <3>3, <4>1 DEF FrameGoesOn, Accept, IntactOrNoMarker
    <3>. QED
      BY <3>1, <3>2, <3>3
  <2>3. ASSUME ~ParseByte, \A n \in 1 .. Len(net) : ~Recv(n)
        PROVE  packetData' = packetData
    BY <2>3 DEF Next, OnRecvStep, SendPacket, SendShort, SendNoise, Transmit,
       ReadWindow, OnRecvEnd, Spin, vars, parserVars
  <2>. QED
    BY <1>1, <2>1, <2>2, <2>3
<1>4. CASE packetData = <<>>
  <2>1. FrameIntact
    BY <1>4, NothingStands DEF FrameIntact
  <2>. QED
    BY <1>2, <2>1
<1>. QED
  BY <1>2, <1>3, <1>4 DEF IntactOrNoMarker

LEMMA IntactAtFirst == Init => IntactOrNoMarker
  BY DEF Init, IntactOrNoMarker

(* With one connection, and with what overwrites a frame being no beginning of
   one: a frame that lost its first bytes is never taken for a packet. *)
THEOREM OverwrittenNoticed ==
  CrcIsBytes /\ Garbage # MID[1] => (Spec => []OverwrittenFails)
<1>. SUFFICES ASSUME CrcIsBytes, Garbage # MID[1] PROVE Spec => []OverwrittenFails
  OBVIOUS
<1>. DEFINE Inv == PlaceInv /\ InPlace /\ IntactOrNoMarker
<1>1. Init => Inv
  BY WireAtFirst, IntactAtFirst DEF WireInv
<1>2. Inv /\ [Next]_vars => Inv'
  BY PlaceStep, StepInPlace, IntactStep
<1>3. Inv => OverwrittenFails
  BY OverwrittenDoesFail
<1>. QED
  BY <1>1, <1>2, <1>3, PTL DEF Spec

-----------------------------------------------------------------------------
(* One call of OnRecv. *)

(* OnRecv of one window, begun between frames. *)
OneWindow == pc = "parse" /\ call.between /\ Len(stream) <= MaxBuffLen

(* Of the packets s those are delivered since there were first so many that
   begin at the byte first or behind it and in front of the byte start, where
   they also end. *)
DeliveredSince(s, d, first, since, start) ==
  \E before \in 0 .. Len(s) :
    LET new == Len(d) - since
    IN  /\ before + new <= Len(s)
        /\ \A i \in DOMAIN s : /\ i <= before <=> s[i].first < first
                               /\ i <= before + new <=> s[i].first < start
        /\ \A j \in 1 .. new : /\ d[since + j] = s[before + j].payload
                               /\ s[before + j].last < start

(* The stream is still to be put into the window, or it is the window. *)
StreamIsWindow ==
  \/ offsetBuff = 0 /\ buff = <<>> /\ packetData = <<>>
  \/ offsetBuff = Len(stream) /\ (buff # <<>> => Len(buff) = Len(stream))

CallInv ==
  OneWindow =>
    /\ call.first = Taken - Len(stream) + 1
    /\ call.delivered \in Nat /\ call.delivered <= Len(delivered)
    /\ StreamIsWindow
    /\ posBuff <= Len(buff)
    /\ FrameStart >= call.first
    /\ packetData # <<>> => posBuffBeginPack = FrameStart - call.first
    /\ Stands(wire, packetData, FrameStart - 1)
    /\ DeliveredSince(sent, delivered, call.first, call.delivered, FrameStart)

-----------------------------------------------------------------------------
(* The length in the frame of a packet that begins at start. *)
LEMMA SaidByPacket ==
  ASSUME CrcIsBytes, NEW s, NEW w \in Seq(Nat), SentOnWire(s, w), NEW k \in DOMAIN s
  PROVE  /\ s[k].payload \in Seq(Nat) /\ Len(s[k].payload) \in Nat
         /\ Len(s[k].payload) <= MaxPayload
         /\ Len(Create(s[k].payload)) = posPayload + Len(s[k].payload) + lenCRC
         /\ Create(s[k].payload) \in Seq(Nat)
         /\ \A j \in 1 .. Len(Create(s[k].payload)) :
              w[s[k].first + j - 1] = Create(s[k].payload)[j]
         /\ \A j \in 1 .. lenMID : w[s[k].first + j - 1] = MID[j]
         /\ DecodeLen(<<w[s[k].first + posPLen], w[s[k].first + posPLen + 1]>>)
              = Len(s[k].payload)
<1>. DEFINE a == s[k].first
            p == s[k].payload
            f == Create(p)
<1>1. /\ p \in Seq(Nat) /\ Len(p) <= MaxPayload /\ a \in Nat
      /\ \A j \in 1 .. Len(f) : w[a + j - 1] = f[j]
  <2>1. p \in Seq(Nat) /\ a \in Nat
    BY OnWireTypes
  <2>. QED
    BY <2>1 DEF SentOnWire
<1>. HIDE DEF a, p
<1>2. /\ f \in Seq(Nat) /\ Len(p) \in Nat
      /\ Len(f) = posPayload + Len(p) + lenCRC
      /\ \A j \in 1 .. lenMID : f[j] = MID[j]
      /\ f[posPLen + 1] = Len(p) % Base
      /\ f[posPLen + 2] = Len(p) \div Base
  BY <1>1, FrameShape
<1>. HIDE DEF f
<1>3. \A j \in 1 .. lenMID : w[a + j - 1] = MID[j]
  <2>1. \A j \in 1 .. lenMID : j \in 1 .. Len(f)
    BY <1>2, Lengths
  <2>. QED
    BY <1>1, <1>2, <2>1
<1>4. DecodeLen(<<w[a + posPLen], w[a + posPLen + 1]>>) = Len(p)
  <2>. DEFINE q == posPLen
              x == w[a + q]
              y == w[a + q + 1]
  <2>1. q \in Nat /\ Len(f) >= q + 2
    BY <1>2, Lengths
  <2>. HIDE DEF q
  <2>2. /\ q + 1 \in 1 .. Len(f) /\ q + 2 \in 1 .. Len(f)
        /\ a + (q + 1) - 1 = a + q /\ a + (q + 2) - 1 = a + q + 1
    <3>1. Len(f) \in Nat
      BY <1>2, LenProperties
    <3>. QED
      BY <1>1, <2>1, <3>1
  <2>3. x = f[q + 1] /\ y = f[q + 2]
    BY <1>1, <2>2
  <2>4. x = Len(p) % Base /\ y = Len(p) \div Base
    BY <1>2, <2>3 DEF q
  <2>. HIDE DEF x, y
  <2>5. <<x, y>>[1] = x /\ <<x, y>>[2] = y
    OBVIOUS
  <2>6. DecodeLen(<<x, y>>) = x + Base * y
    BY <2>5, Zenon DEF DecodeLen
  <2>7. DecodeLen(<<x, y>>) = Len(p)
    BY <1>2, <2>4, <2>6, DecodeEncode
  <2>. QED
    BY <2>7 DEF x, y, q
<1>. QED
  BY <1>1, <1>2, <1>3, <1>4 DEF a, p, f

(* The length so far, and the byte looked at, are what the connection says. *)
LEMMA LengthTypes ==
  ASSUME IInv, HasByte, parsFunc = "DataLength"
  PROVE  LET l == Append(lenghtBuff, by)
         IN  l \in Seq(Nat) /\ Len(l) = posPacket - posPLen + 1
<1>0. /\ ParserConsistent /\ lenghtBuff \in Seq(Nat) /\ by \in Nat
  BY Looking DEF IInv, ParserTypes
<1>1. Len(lenghtBuff) = posPacket - posPLen
  BY <1>0 DEF ParserConsistent
<1>. QED
  BY <1>0, <1>1, AppendProperties

LEMMA LengthByteRead ==
  ASSUME IInv, Windows, InPlace, HasByte, parsFunc = "DataLength",
         NEW state2, state2 # "Payload", NEW len2
  PROVE  LengthRead(wire, FrameStart, state2, Append(lenghtBuff, by), len2)
<1>0. /\ ParserConsistent /\ lenghtBuff \in Seq(Nat) /\ FrameStart \in Int
      /\ posPacket \in Nat
  BY Places DEF IInv, ParserTypes
<1>1. /\ FrameStart + posPacket \in DOMAIN wire
      /\ by = wire[FrameStart + posPacket] /\ by \in Nat
  BY ByteRead, Looking
<1>2. LengthRead(wire, FrameStart, parsFunc, lenghtBuff, lenPayload)
  BY DEF InPlace
<1>3. Len(lenghtBuff) = posPacket - posPLen
  BY <1>0 DEF ParserConsistent
<1>4. FrameStart + posPLen + Len(lenghtBuff) = FrameStart + posPacket
  BY <1>0, <1>3, Lengths
<1>. QED
  BY <1>0, <1>1, <1>2, <1>4, LengthLonger

(* The parser does not give up a frame that is a packet's, if it is intact. *)
LEMMA PacketKept ==
  ASSUME CrcIsBytes, PlaceInv, InPlace, ParseByte, ~PacketDone, packetData' = <<>>,
         Stands(wire, packetData, FrameStart - 1),
         NEW k \in DOMAIN sent, sent[k].first = FrameStart
  PROVE  FALSE
<1>. DEFINE a == FrameStart
            n == posPacket
            p == sent[k].payload
            f == Create(p)
<1>0. /\ IInv /\ Windows /\ ParserConsistent /\ HasByte
      /\ wire \in Seq(Nat) /\ SentOnWire(sent, wire)
      /\ a \in Int /\ n \in Nat /\ a >= 1
      /\ packetData \in Seq(Nat) /\ posPacket = n
  BY ByteOutcomes, Places, PacketNotEmpty DEF PlaceInv, InPlace, IInv, ParserTypes
<1>1. /\ p \in Seq(Nat) /\ Len(p) \in Nat /\ Len(p) <= MaxPayload
      /\ f \in Seq(Nat) /\ Len(f) = posPayload + Len(p) + lenCRC
      /\ \A j \in 1 .. Len(f) : wire[a + j - 1] = f[j]
      /\ \A j \in 1 .. lenMID : wire[a + j - 1] = MID[j]
      /\ DecodeLen(<<wire[a + posPLen], wire[a + posPLen + 1]>>) = Len(p)
  <2>. DEFINE b == sent[k].first
  <2>1. b = a
    OBVIOUS
  <2>2. /\ p \in Seq(Nat) /\ Len(p) \in Nat /\ Len(p) <= MaxPayload
        /\ f \in Seq(Nat) /\ Len(f) = posPayload + Len(p) + lenCRC
        /\ \A j \in 1 .. Len(f) : wire[b + j - 1] = f[j]
        /\ \A j \in 1 .. lenMID : wire[b + j - 1] = MID[j]
        /\ DecodeLen(<<wire[b + posPLen], wire[b + posPLen + 1]>>) = Len(p)
    <3>1. wire \in Seq(Nat) /\ SentOnWire(sent, wire)
      BY <1>0
    <3>2. /\ p \in Seq(Nat) /\ Len(p) \in Nat /\ Len(p) <= MaxPayload
      BY <3>1, SaidByPacket
    <3>3. f \in Seq(Nat) /\ Len(f) = posPayload + Len(p) + lenCRC
      BY <3>1, SaidByPacket
    <3>4. \A j \in 1 .. Len(f) : wire[b + j - 1] = f[j]
      BY <3>1 DEF SentOnWire
    <3>5. \A j \in 1 .. lenMID : wire[b + j - 1] = MID[j]
      BY <3>1, SaidByPacket
    <3>6. DecodeLen(<<wire[b + posPLen], wire[b + posPLen + 1]>>) = Len(p)
      BY <3>1, SaidByPacket
    <3>. QED
      BY <3>2, <3>3, <3>4, <3>5, <3>6
  <2>. HIDE DEF a, b, p, f
  <2>. QED
    BY <2>1, <2>2, Zenon
<1>2. by = wire[a + n] /\ by \in Nat
  BY <1>0, ByteRead, Looking
<1>3. packetData' # assembled
  <2>1. Len(assembled) = n + 1
    BY <1>0, Looking
  <2>. QED
    BY <1>0, <2>1, EmptySeq
<1>. HIDE DEF a, n, f, p
<1>4. CASE ScanMID
  <2>1. n + 1 \in 1 .. lenMID
    <3>1. posPacket < lenMID
      BY <1>0, <1>4 DEF ScanMID, ParserConsistent
    <3>. QED
      BY <1>0, <3>1, Lengths
  <2>2. wire[a + (n + 1) - 1] = MID[n + 1] /\ a + (n + 1) - 1 = a + n
    <3>1. \A j \in 1 .. lenMID : wire[a + j - 1] = MID[j]
      BY <1>1
    <3>2. wire[a + (n + 1) - 1] = MID[n + 1]
      BY <2>1, <3>1, Zenon
    <3>. QED
      BY <1>0, <3>2
  <2>3. by = MID[posPacket + 1]
    BY <1>0, <1>2, <2>2
  <2>. QED
    BY <1>3, <1>4, <2>3 DEF ScanMID, Accept
<1>5. CASE LengthByte \/ PayloadByte
  BY <1>3, <1>5 DEF LengthByte, PayloadByte, Accept
<1>6. CASE LengthDone
  <2>. DEFINE l == Append(lenghtBuff, by)
  <2>1. /\ LengthRead(wire, FrameStart, "DataLength", l, lenPayload)
        /\ l \in Seq(Nat) /\ Len(l) = posPacket - posPLen + 1
        /\ posPacket = posPayload - 1 /\ lenPayload' = DecodeLen(l)
    <3>1. /\ parsFunc = "DataLength" /\ posPacket = posPayload - 1
          /\ lenPayload' = DecodeLen(l)
      BY <1>6 DEF LengthDone
    <3>2. "DataLength" # "Payload"
      OBVIOUS
    <3>3. LengthRead(wire, FrameStart, "DataLength", l, lenPayload)
      BY <1>0, <3>1, <3>2, LengthByteRead
    <3>4. l \in Seq(Nat) /\ Len(l) = posPacket - posPLen + 1
      BY <1>0, <3>1, LengthTypes
    <3>. QED
      BY <3>1, <3>3, <3>4
  <2>. HIDE DEF l
  <2>2. Len(l) = 2
    BY <2>1, Lengths
  <2>3. LengthRead(wire, FrameStart, "Payload", <<>>, DecodeLen(l)) /\ FrameStart \in Int
    BY <1>0, <2>1, <2>2, LengthKnown DEF a
  <2>4. DecodeLen(l) = Len(p)
    BY <1>0, <1>1, <2>3 DEF LengthRead, a
  <2>5. ~(lenPayload' > lenMaxBuffer)
    <3>1. lenMaxBuffer >= MaxPayload /\ lenMaxBuffer \in Nat /\ MaxPayload \in Nat
      BY Lengths DEF lenMaxBuffer, lenOverhead
    <3>2. lenPayload' = Len(p)
      BY <2>1, <2>4
    <3>. QED
      BY <1>1, <3>1, <3>2
  <2>. QED
    BY <1>3, <1>6, <2>5 DEF LengthDone, Accept
<1>7. CASE PacketCorrupt
  <2>1. /\ parsFunc = "Payload" /\ posPacket = posPayload + lenPayload + lenCRC - 1
        /\ ~Check(packet)
    BY <1>7 DEF PacketCorrupt, FrameComplete
  <2>2. lenPayload = Len(p)
    BY <1>0, <1>1, <2>1 DEF InPlace, LengthRead, a
  <2>3. n + 1 = Len(f)
    BY <1>0, <1>1, <2>1, <2>2, Lengths
  <2>4. ASSUME NEW j \in 1 .. n + 1 PROVE assembled[j] = f[j]
    <3>1. wire[a + j - 1] = f[j]
      BY <1>1, <2>3
    <3>2. /\ packetData \in Seq(Nat) /\ Len(packetData) = n
          /\ \A i \in 1 .. n : assembled[i] = packetData[i]
          /\ assembled[n + 1] = by
      BY <1>0, <1>2, AppendProperties DEF assembled, posPacket
    <3>3. CASE j = n + 1
      <4>1. a + j - 1 = a + n
        BY <1>0, <3>3
      <4>. QED
        BY <1>2, <3>1, <3>2, <3>3, <4>1
    <3>4. CASE j \in 1 .. n
      <4>1. j \in DOMAIN packetData /\ (a - 1) + j = a + j - 1
        BY <1>0, <3>2, <3>4, LenProperties
      <4>2. packetData[j] = wire[(a - 1) + j]
        BY <4>1 DEF Stands, a
      <4>. QED
        BY <3>1, <3>2, <3>4, <4>1, <4>2
    <3>5. j = n + 1 \/ j \in 1 .. n
      BY <1>0
    <3>. QED
      BY <3>3, <3>4, <3>5, Zenon
  <2>5. assembled = f
    <3>1. assembled \in Seq(Nat) /\ Len(assembled) = n + 1
      BY <1>0, Looking
    <3>. QED
      BY <1>1, <2>3, <2>4, <3>1, SeqEqual
  <2>6. Check(f) /\ PayloadLen(f) = Len(p)
    BY <1>1, FrameChecks DEF f
  <2>7. behind \in Seq(Nat)
    BY <1>0, Looking
  <2>8. /\ posPayload <= Len(f) /\ Len(f) = posPayload + PayloadLen(f) + lenCRC
    BY <1>1, <2>6, Lengths
  <2>9. Check(f \o behind)
    BY <1>1, <2>6, <2>7, <2>8, CheckFront
  <2>. QED
    BY <2>1, <2>5, <2>9 DEF packet
<1>. QED
  BY <1>4, <1>5, <1>6, <1>7 DEF ParseByte

-----------------------------------------------------------------------------
(* The packets in front of a place are the first so many. *)
LEMMA FirstSoMany ==
  ASSUME CrcIsBytes, NEW s, NEW w \in Seq(Nat), SentOnWire(s, w), NEW x \in Int
  PROVE  \E before \in 0 .. Len(s) : \A i \in DOMAIN s : i <= before <=> s[i].first < x
<1>. DEFINE I == {i \in DOMAIN s : s[i].first >= x}
<1>1. /\ Len(s) \in Nat /\ DOMAIN s = 1 .. Len(s)
      /\ \A i \in DOMAIN s : s[i].first \in Nat /\ s[i].last \in Nat
  BY OnWireTypes
<1>2. CASE I = {}
  <2>1. \A i \in DOMAIN s : i <= Len(s) /\ s[i].first < x
    BY <1>1, <1>2
  <2>2. Len(s) \in 0 .. Len(s)
    BY <1>1
  <2>. QED
    BY <2>1, <2>2, Zenon
<1>3. CASE I # {}
  <2>1. I \in SUBSET Nat
    BY <1>1
  <2>2. PICK m \in I : \A y \in I : <<y, m>> \notin OpToRel(<, Nat)
    BY <1>3, <2>1, NatLessThanWellFounded, WFMin, Zenon
  <2>3. m \in 1 .. Len(s) /\ m \in DOMAIN s /\ s[m].first >= x
    BY <1>1, <2>2
  <2>4. \A y \in I : ~ (y < m)
    <3>. SUFFICES ASSUME NEW y \in I, y < m PROVE FALSE
      OBVIOUS
    <3>1. <<y, m>> \in Nat \X Nat /\ <<y, m>>[1] = y /\ <<y, m>>[2] = m
      BY <2>1
    <3>2. <<y, m>> \in OpToRel(<, Nat)
      BY <3>1, Zenon DEF OpToRel
    <3>. QED
      BY <2>2, <3>2
  <2>5. ASSUME NEW i \in DOMAIN s PROVE i <= m - 1 <=> s[i].first < x
    <3>1. i \in 1 .. Len(s) /\ s[i].first \in Nat
      BY <1>1
    <3>2. CASE i < m
      <4>1. i \notin I
        BY <2>4, <3>2
      <4>. QED
        BY <2>3, <3>1, <3>2, <4>1
    <3>3. CASE i = m
      BY <2>3, <3>1, <3>3
    <3>4. CASE i > m
      <4>1. s[m].last < s[i].first
        BY <2>3, <3>1, <3>4 DEF SentOnWire
      <4>2. s[m].first <= s[m].last /\ s[m].first \in Nat /\ s[m].last \in Nat
        BY <1>1, <2>3, PacketNotEmpty
      <4>. QED
        BY <2>3, <3>1, <3>4, <4>1, <4>2
    <3>. QED
      BY <2>3, <3>1, <3>2, <3>3, <3>4
  <2>6. m - 1 \in 0 .. Len(s)
    BY <1>1, <2>3
  <2>. QED
    BY <2>5, <2>6
<1>. QED
  BY <1>2, <1>3

LEMMA SinceNothing ==
  ASSUME CrcIsBytes, NEW s, NEW w \in Seq(Nat), SentOnWire(s, w), NEW x \in Int,
         NEW d, NEW since \in Nat, since = Len(d)
  PROVE  DeliveredSince(s, d, x, since, x)
<1>1. PICK before \in 0 .. Len(s) : \A i \in DOMAIN s : i <= before <=> s[i].first < x
  BY FirstSoMany
<1>2. Len(s) \in Nat /\ Len(d) - since = 0
  BY OnWireTypes
<1>3. before + 0 = before /\ before <= Len(s) /\ 1 .. 0 = {}
  BY <1>1, <1>2
<1>. QED
  BY <1>1, <1>2, <1>3 DEF DeliveredSince

(* A packet more is sent, behind the parser. *)
LEMMA SinceSent ==
  ASSUME NEW s, NEW w \in Seq(Nat), SentOnWire(s, w), NEW d, NEW x \in Int,
         NEW since \in Nat, NEW start \in Int, Len(d) \in Nat, since <= Len(d),
         DeliveredSince(s, d, x, since, start),
         NEW m \in [payload : Seq(Nat), first : Nat, last : Nat],
         m.first >= x, m.first >= start
  PROVE  DeliveredSince(Append(s, m), d, x, since, start)
<1>. DEFINE t == Append(s, m)
            n == Len(s)
            new == Len(d) - since
<1>1. PICK before \in 0 .. n :
        /\ before + new <= n
        /\ \A i \in DOMAIN s : /\ i <= before <=> s[i].first < x
                               /\ i <= before + new <=> s[i].first < start
        /\ \A j \in 1 .. new : /\ d[since + j] = s[before + j].payload
                               /\ s[before + j].last < start
  BY DEF DeliveredSince
<1>2. n \in Nat /\ DOMAIN s = 1 .. n /\ new \in Nat
      /\ s \in Seq([payload : Seq(Nat), first : Nat, last : Nat])
  BY OnWireTypes DEF SentOnWire
<1>3. Len(t) = n + 1 /\ t[n + 1] = m /\ \A i \in 1 .. n : t[i] = s[i]
      /\ t \in Seq([payload : Seq(Nat), first : Nat, last : Nat])
  BY <1>2, AppendProperties
<1>4. DOMAIN t = 1 .. n + 1
  BY <1>3, LenProperties
<1>. HIDE DEF t, n, new
<1>5. m.first \in Nat
  OBVIOUS
<1>6. ASSUME NEW i \in 1 .. n + 1
      PROVE  /\ i <= before <=> t[i].first < x
             /\ i <= before + new <=> t[i].first < start
  <2>1. CASE i \in 1 .. n
    BY <1>1, <1>2, <1>3, <2>1
  <2>2. CASE i = n + 1
    <3>1. t[i].first = m.first /\ ~(i <= before) /\ ~(i <= before + new)
      BY <1>1, <1>2, <1>3, <2>2
    <3>. QED
      BY <1>5, <3>1
  <2>3. i \in 1 .. n \/ i = n + 1
    BY <1>2
  <2>. QED
    BY <2>1, <2>2, <2>3
<1>7. ASSUME NEW j \in 1 .. new
      PROVE  d[since + j] = t[before + j].payload /\ t[before + j].last < start
  <2>1. before + j \in 1 .. n
    BY <1>1, <1>2
  <2>. QED
    BY <1>1, <1>3, <2>1
<1>8. before \in 0 .. Len(t) /\ before + new <= Len(t)
  BY <1>1, <1>2, <1>3
<1>. QED
  BY <1>4, <1>6, <1>7, <1>8 DEF DeliveredSince, t, new

(* The parser moves on by a byte, where no packet begins. *)
LEMMA SinceGivenUp ==
  ASSUME NEW s, NEW w \in Seq(Nat), SentOnWire(s, w), NEW d, NEW x \in Int,
         NEW since \in Nat, NEW start \in Int, Len(d) \in Nat, since <= Len(d),
         DeliveredSince(s, d, x, since, start),
         \A k \in DOMAIN s : s[k].first # start
  PROVE  DeliveredSince(s, d, x, since, start + 1)
<1>. DEFINE n == Len(s)
            new == Len(d) - since
<1>1. PICK before \in 0 .. n :
        /\ before + new <= n
        /\ \A i \in DOMAIN s : /\ i <= before <=> s[i].first < x
                               /\ i <= before + new <=> s[i].first < start
        /\ \A j \in 1 .. new : /\ d[since + j] = s[before + j].payload
                               /\ s[before + j].last < start
  BY DEF DeliveredSince
<1>2. /\ n \in Nat /\ DOMAIN s = 1 .. n /\ new \in Nat
      /\ \A i \in DOMAIN s : s[i].first \in Nat /\ s[i].last \in Nat
  BY OnWireTypes
<1>. HIDE DEF n, new
<1>3. ASSUME NEW i \in DOMAIN s PROVE s[i].first < start <=> s[i].first < start + 1
  <2>1. s[i].first \in Nat /\ s[i].first # start
    BY <1>2
  <2>. QED
    BY <2>1
<1>4. ASSUME NEW j \in 1 .. new PROVE s[before + j].last < start + 1
  <2>1. before + j \in DOMAIN s
    BY <1>1, <1>2
  <2>2. s[before + j].last \in Nat /\ s[before + j].last < start
    BY <1>1, <1>2, <2>1
  <2>. QED
    BY <2>2
<1>5. \A i \in DOMAIN s : /\ i <= before <=> s[i].first < x
                          /\ i <= before + new <=> s[i].first < start + 1
  BY <1>1, <1>3
<1>6. \A j \in 1 .. new : /\ d[since + j] = s[before + j].payload
                          /\ s[before + j].last < start + 1
  BY <1>1, <1>4
<1>. QED
  BY <1>1, <1>5, <1>6 DEF DeliveredSince, n, new

LEMMA NextNumber ==
  ASSUME NEW a \in Nat, NEW b \in Nat, b > a, ~(b > a + 1) PROVE b = a + 1
  OBVIOUS

(* The packet that begins where the parser is has been delivered. *)
LEMMA SinceOneMore ==
  ASSUME CrcIsBytes, NEW s, NEW w \in Seq(Nat), SentOnWire(s, w),
         NEW d \in Seq(Seq(Nat)), NEW x \in Int,
         NEW since \in Nat, NEW start \in Int, since <= Len(d), x <= start,
         DeliveredSince(s, d, x, since, start),
         NEW k \in DOMAIN s, s[k].first = start
  PROVE  DeliveredSince(s, Append(d, s[k].payload), x, since, s[k].last + 1)
<1>. DEFINE n == Len(s)
            new == Len(d) - since
            e == Append(d, s[k].payload)
            end == s[k].last
<1>1. PICK before \in 0 .. n :
        /\ before + new <= n
        /\ \A i \in DOMAIN s : /\ i <= before <=> s[i].first < x
                               /\ i <= before + new <=> s[i].first < start
        /\ \A j \in 1 .. new : /\ d[since + j] = s[before + j].payload
                               /\ s[before + j].last < start
  BY DEF DeliveredSince
<1>2. /\ n \in Nat /\ DOMAIN s = 1 .. n /\ new \in Nat
      /\ \A i \in DOMAIN s : s[i].first \in Nat /\ s[i].last \in Nat
      /\ s[k].payload \in Seq(Nat) /\ Len(d) \in Nat /\ since + new = Len(d)
  <2>1. Len(d) \in Nat
    BY LenProperties
  <2>. QED
    BY <2>1, OnWireTypes
<1>3. /\ Len(e) = Len(d) + 1 /\ e[Len(d) + 1] = s[k].payload
      /\ \A i \in 1 .. Len(d) : e[i] = d[i]
  BY <1>2, AppendProperties
<1>. HIDE DEF n, new, e
<1>4. k = before + new + 1
  <2>1. k \in 1 .. n /\ ~(k <= before + new)
    BY <1>1, <1>2
  <2>2. ASSUME k > before + new + 1 PROVE FALSE
    <3>. DEFINE m == before + new + 1
    <3>1. m \in 1 .. n /\ m < k /\ ~(m <= before + new)
      BY <1>1, <1>2, <2>1, <2>2
    <3>. HIDE DEF m
    <3>2. m \in DOMAIN s /\ s[m].last < s[k].first
      BY <1>2, <3>1 DEF SentOnWire
    <3>3. /\ s[m].first <= s[m].last
          /\ s[m].first \in Nat /\ s[m].last \in Nat
      BY <1>2, <3>2, PacketNotEmpty
    <3>4. s[m].first < start
      BY <3>2, <3>3
    <3>. QED
      BY <1>1, <3>1, <3>2, <3>4
  <2>3. k \in Nat /\ before \in Nat /\ new \in Nat
    BY <1>1, <1>2, <2>1
  <2>4. k > before + new
    BY <2>1, <2>3
  <2>5. ~(k > before + new + 1)
    BY <2>2
  <2>6. before + new \in Nat /\ k \in Nat
    BY <2>3
  <2>. QED
    BY <2>4, <2>5, <2>6, NextNumber
<1>5. end \in Nat /\ start <= end
  BY <1>2, PacketNotEmpty
<1>6. ASSUME NEW i \in DOMAIN s PROVE i <= before + (new + 1) <=> s[i].first < end + 1
  <2>1. i \in 1 .. n /\ s[i].first \in Nat /\ s[i].last \in Nat /\ before \in Nat
    BY <1>1, <1>2
  <2>2. CASE i <= before + new
    <3>1. s[i].first < start
      BY <1>1, <2>2
    <3>2. start \in Nat /\ end \in Nat /\ start <= end /\ s[i].first \in Nat
      BY <1>2, <1>5, <2>1
    <3>3. s[i].first < end + 1
      BY <3>1, <3>2
    <3>4. new \in Nat /\ before \in Nat /\ i \in Nat
      BY <1>1, <1>2, <2>1
    <3>5. i <= before + (new + 1)
      BY <2>2, <3>4
    <3>. QED
      BY <3>3, <3>5
  <2>3. CASE i = k
    BY <1>2, <1>4, <1>5, <2>1, <2>3, SMTT(20)
  <2>4. CASE i > k
    <3>1. end < s[i].first
      BY <2>1, <2>4 DEF SentOnWire
    <3>. QED
      BY <1>2, <1>4, <1>5, <2>1, <2>4, <3>1
  <2>. QED
    BY <1>2, <1>4, <2>1, <2>2, <2>3, <2>4
<1>7. ASSUME NEW j \in 1 .. new + 1
      PROVE  e[since + j] = s[before + j].payload /\ s[before + j].last < end + 1
  <2>1. CASE j \in 1 .. new
    <3>1. since + j \in 1 .. Len(d) /\ before + j \in DOMAIN s
      <4>1. /\ before \in Nat /\ new \in Nat /\ n \in Nat /\ j \in 1 .. new
            /\ since + new = Len(d)
        BY <1>1, <1>2, <2>1
      <4>2. before + new <= n
        BY <1>1
      <4>3. since + j \in 1 .. Len(d)
        BY <4>1, SMTT(20)
      <4>4. before + j \in 1 .. n
        BY <4>1, <4>2, SMTT(20)
      <4>. QED
        BY <1>2, <4>3, <4>4
    <3>2. s[before + j].last < start /\ s[before + j].last \in Nat
      BY <1>1, <1>2, <2>1, <3>1
    <3>3. s[before + j].last < end + 1
      BY <1>5, <3>2
    <3>. QED
      BY <1>1, <1>3, <2>1, <3>1, <3>3
  <2>2. CASE j = new + 1
    <3>1. since + j = Len(d) + 1 /\ before + j = k
      BY <1>1, <1>2, <1>4, <2>2
    <3>2. s[before + j].last < end + 1
      BY <1>5, <3>1 DEF end
    <3>. QED
      BY <1>3, <3>1, <3>2
  <2>3. j \in 1 .. new \/ j = new + 1
    BY <1>2
  <2>. QED
    BY <2>1, <2>2, <2>3
<1>8. Len(e) - since = new + 1 /\ before + (new + 1) <= n
  <2>1. /\ before \in Nat /\ new \in Nat /\ n \in Nat /\ k \in 1 .. n
        /\ Len(d) \in Nat /\ since + new = Len(d) /\ Len(e) = Len(d) + 1
    BY <1>1, <1>2, <1>3
  <2>. QED
    BY <1>4, <2>1
<1>9. DeliveredSince(s, e, x, since, end + 1)
  <2>. HIDE DEF end
  <2>. QED
    BY <1>1, <1>6, <1>7, <1>8 DEF DeliveredSince, n
<1>. QED
  BY <1>9 DEF e, end

-----------------------------------------------------------------------------
(* Where the parser is in the one window of such a call. *)
LEMMA CallPlaces ==
  ASSUME IInv, Windows, CallInv, OneWindow
  PROVE  /\ call.first \in Int /\ call.first = Taken - Len(stream) + 1
         /\ FrameStart \in Int /\ call.first <= FrameStart /\ FrameStart <= Taken + 1
         /\ buff # <<>> => /\ offsetBuff = Len(stream) /\ Len(buff) = Len(stream)
                           /\ FrameStart = call.first + posBuff - posPacket
                           /\ posPacket <= posBuff
         /\ buff = <<>> /\ offsetBuff = Len(stream) => FrameStart = Taken - posPacket + 1
<1>1. /\ Len(stream) \in Nat /\ Len(buff) \in Nat
      /\ posBuff \in Nat /\ offsetBuff \in Nat /\ posPacket \in Nat
      /\ Taken \in Int /\ FrameStart \in Int
  BY Places
<1>2. FrameStart = Taken - Len(stream) + offsetBuff - Len(buff) + posBuff - posPacket + 1
  BY <1>1 DEF FrameStart, Seen, Windowed
<1>3. /\ call.first = Taken - Len(stream) + 1 /\ StreamIsWindow
      /\ posBuff <= Len(buff) /\ FrameStart >= call.first
  BY DEF CallInv
<1>4. buff = <<>> => posBuff = 0 /\ Len(buff) = 0
  BY EmptySeq DEF Windows
<1>5. CASE offsetBuff = 0 /\ buff = <<>> /\ packetData = <<>>
  <2>1. posPacket = 0
    BY <1>5, EmptySeq DEF posPacket
  <2>. QED
    BY <1>1, <1>2, <1>3, <1>4, <1>5, <2>1
<1>6. CASE offsetBuff = Len(stream) /\ (buff # <<>> => Len(buff) = Len(stream))
  <2>1. CASE buff = <<>>
    BY <1>1, <1>2, <1>3, <1>4, <1>6, <2>1
  <2>2. CASE buff # <<>>
    BY <1>1, <1>2, <1>3, <1>6, <2>2
  <2>. QED
    BY <2>1, <2>2
<1>. QED
  BY <1>3, <1>5, <1>6 DEF StreamIsWindow

(* Neither the stream, nor the window, nor the frame is touched. *)
LEMMA CallKept ==
  ASSUME CallInv, OneWindow' => OneWindow,
         UNCHANGED <<stream, offsetBuff, buff, posBuff, packetData, posBuffBeginPack,
                     delivered, call>>,
         Taken' = Taken, FrameStart' = FrameStart,
         OneWindow => Stands(wire', packetData, FrameStart - 1),
         OneWindow => DeliveredSince(sent', delivered, call.first, call.delivered,
                                     FrameStart)
  PROVE  CallInv'
<1>. SUFFICES ASSUME OneWindow'
              PROVE  /\ (call.first = Taken - Len(stream) + 1)'
                     /\ (call.delivered \in Nat /\ call.delivered <= Len(delivered))'
                     /\ StreamIsWindow'
                     /\ (posBuff <= Len(buff))'
                     /\ (FrameStart >= call.first)'
                     /\ (packetData # <<>> => posBuffBeginPack = FrameStart - call.first)'
                     /\ Stands(wire, packetData, FrameStart - 1)'
                     /\ DeliveredSince(sent, delivered, call.first, call.delivered,
                                       FrameStart)'
  BY DEF CallInv
<1>1. /\ call.first = Taken - Len(stream) + 1
      /\ call.delivered \in Nat /\ call.delivered <= Len(delivered)
      /\ StreamIsWindow
      /\ posBuff <= Len(buff)
      /\ FrameStart >= call.first
      /\ packetData # <<>> => posBuffBeginPack = FrameStart - call.first
  BY DEF CallInv
<1>2. StreamIsWindow'
  BY <1>1 DEF StreamIsWindow
<1>3. Stands(wire, packetData, FrameStart - 1)'
  OBVIOUS
<1>4. DeliveredSince(sent, delivered, call.first, call.delivered, FrameStart)'
  OBVIOUS
<1>. QED
  BY <1>1, <1>2, <1>3, <1>4

LEMMA SenderInCall ==
  ASSUME CrcIsBytes, IInv, Windows, InPlace, CallInv, delivered \in Seq(Seq(Nat)),
         \/ \E p \in Payloads : SendPacket(p) \/ SendShort(p)
         \/ \E bytes \in Noise : SendNoise(bytes)
  PROVE  CallInv'
<1>1. PICK bytes \in Seq(Nat) : Transmit(bytes)
  BY SenderWrites
<1>2. /\ Taken' = Taken /\ Windowed' = Windowed /\ wire' = wire \o bytes
      /\ UNCHANGED <<pc, stream, offsetBuff, buff, posBuff, packetData,
                     posBuffBeginPack, delivered, call>>
  BY <1>1, TransmitPlace DEF Transmit, parserVars
<1>3. FrameStart' = FrameStart
  BY <1>2, Untouched
<1>4. OneWindow' => OneWindow
  BY <1>2 DEF OneWindow
<1>5. /\ wire \in Seq(Nat) /\ SentOnWire(sent, wire) /\ Len(delivered) \in Nat
      /\ Len(net) \in Nat /\ Len(wire) \in Nat /\ Taken = Len(wire) - Len(net)
  <2>1. /\ wire \in Seq(Nat) /\ SentOnWire(sent, wire) /\ net \in Seq(Nat)
    BY DEF IInv, ParserTypes, InPlace
  <2>2. Taken = Len(wire) - Len(net)
    BY DEF Taken, written
  <2>. QED
    BY <2>1, <2>2, LenProperties
<1>6. OneWindow => Stands(wire', packetData, FrameStart - 1)
  BY <1>2, <1>5, StandsMore DEF CallInv
<1>7. ASSUME OneWindow
      PROVE  DeliveredSince(sent', delivered, call.first, call.delivered, FrameStart)
  <2>1. /\ DeliveredSince(sent, delivered, call.first, call.delivered, FrameStart)
        /\ call.delivered \in Nat /\ call.delivered <= Len(delivered)
    BY <1>7 DEF CallInv
  <2>2. CASE sent' = sent
    BY <2>1, <2>2
  <2>3. ASSUME NEW p \in Payloads, SendPacket(p)
        PROVE  DeliveredSince(sent', delivered, call.first, call.delivered, FrameStart)
    <3>. DEFINE m == Packet(p, Len(wire))
    <3>1. p \in Seq(Nat) /\ Create(p) \in Seq(Nat) /\ Len(Create(p)) \in Nat
      BY FrameType, ParserAssumption, LenProperties
    <3>2. sent' = Append(sent, m)
      BY <2>3 DEF SendPacket, Packet, written
    <3>3. /\ m \in [payload : Seq(Nat), first : Nat, last : Nat]
          /\ m.first = Len(wire) + 1
      BY <1>5, <3>1 DEF Packet
    <3>4. /\ call.first \in Int /\ FrameStart \in Int
          /\ call.first <= FrameStart /\ FrameStart <= Taken + 1
      BY <1>7, CallPlaces
    <3>. HIDE DEF m
    <3>5. m.first >= call.first /\ m.first >= FrameStart
      BY <1>5, <3>3, <3>4
    <3>. QED
      BY <1>5, <2>1, <3>2, <3>3, <3>4, <3>5, SinceSent
  <2>. QED
    BY <2>2, <2>3 DEF SendShort, SendNoise
<1>. QED
  BY <1>2, <1>3, <1>4, <1>6, <1>7, CallKept

LEMMA RecvInCall ==
  ASSUME CrcIsBytes, IInv, Windows, InPlace, delivered \in Seq(Seq(Nat)),
         NEW n \in 1 .. Len(net), Recv(n)
  PROVE  CallInv'
<1>. SUFFICES ASSUME OneWindow'
              PROVE  /\ (call.first = Taken - Len(stream) + 1)'
                     /\ (call.delivered \in Nat /\ call.delivered <= Len(delivered))'
                     /\ StreamIsWindow'
                     /\ (posBuff <= Len(buff))'
                     /\ (FrameStart >= call.first)'
                     /\ (packetData # <<>> => posBuffBeginPack = FrameStart - call.first)'
                     /\ Stands(wire, packetData, FrameStart - 1)'
                     /\ DeliveredSince(sent, delivered, call.first, call.delivered,
                                       FrameStart)'
  BY DEF CallInv
<1>1. /\ call' = [first |-> Taken + 1, delivered |-> Len(delivered),
                  between |-> packetData = <<>>]
      /\ delivered' = delivered /\ sent' = sent /\ wire' = wire
  BY DEF Recv, Taken, senderVars
<1>2. packetData = <<>>
  BY <1>1 DEF OneWindow
<1>3. packetData' = <<>>
  BY <1>2 DEF Recv
<1>4. /\ Taken' = Taken + n /\ Len(stream') = n /\ FrameStart' = FrameStart
      /\ Seen = Taken /\ buff' = <<>> /\ posBuff' = 0 /\ offsetBuff' = 0
  BY RecvPlace
<1>5. /\ Taken \in Int /\ n \in Nat /\ Len(delivered) \in Nat
      /\ wire \in Seq(Nat) /\ SentOnWire(sent, wire)
  BY Places, LenProperties DEF IInv, ParserTypes, InPlace
<1>6. FrameStart = Taken + 1
  <2>1. posPacket = 0
    BY <1>2, EmptySeq DEF posPacket
  <2>. QED
    BY <1>4, <1>5, <2>1 DEF FrameStart
<1>7. (call.first = Taken - Len(stream) + 1)'
  BY <1>1, <1>4, <1>5
<1>8. (call.delivered \in Nat /\ call.delivered <= Len(delivered))'
  BY <1>1, <1>5
<1>9. StreamIsWindow'
  BY <1>3, <1>4 DEF StreamIsWindow
<1>10. (posBuff <= Len(buff))' /\ (FrameStart >= call.first)'
  BY <1>1, <1>4, <1>5, <1>6, EmptySeq
<1>11. Stands(wire, packetData, FrameStart - 1)'
  BY <1>3, NothingStands
<1>12. DeliveredSince(sent, delivered, Taken + 1, Len(delivered), Taken + 1)
  BY <1>5, SinceNothing
<1>13. DeliveredSince(sent, delivered, call.first, call.delivered, FrameStart)'
  BY <1>1, <1>4, <1>6, <1>12
<1>. QED
  BY <1>3, <1>7, <1>8, <1>9, <1>10, <1>11, <1>13

LEMMA ReadWindowInCall ==
  ASSUME IInv, Windows, CallInv, ReadWindow PROVE CallInv'
<1>. SUFFICES ASSUME OneWindow'
              PROVE  /\ (call.first = Taken - Len(stream) + 1)'
                     /\ (call.delivered \in Nat /\ call.delivered <= Len(delivered))'
                     /\ StreamIsWindow'
                     /\ (posBuff <= Len(buff))'
                     /\ (FrameStart >= call.first)'
                     /\ (packetData # <<>> => posBuffBeginPack = FrameStart - call.first)'
                     /\ Stands(wire, packetData, FrameStart - 1)'
                     /\ DeliveredSince(sent, delivered, call.first, call.delivered,
                                       FrameStart)'
  BY DEF CallInv
<1>1. /\ pc' = pc
      /\ UNCHANGED <<stream, packetData, posBuffBeginPack, delivered, call, wire, sent>>
      /\ offsetBuff < Len(stream)
  BY DEF ReadWindow, senderVars
<1>2. OneWindow /\ Len(stream) <= MaxBuffLen
  BY <1>1 DEF OneWindow
<1>3. /\ call.first = Taken - Len(stream) + 1
      /\ call.delivered \in Nat /\ call.delivered <= Len(delivered)
      /\ StreamIsWindow
      /\ FrameStart >= call.first
      /\ packetData # <<>> => posBuffBeginPack = FrameStart - call.first
      /\ Stands(wire, packetData, FrameStart - 1)
      /\ DeliveredSince(sent, delivered, call.first, call.delivered, FrameStart)
  BY <1>2 DEF CallInv
<1>4. Len(stream) \in Nat /\ offsetBuff \in Nat /\ MaxBuffLen \in Nat
  BY Places, ParserAssumption
<1>5. offsetBuff = 0 /\ packetData = <<>>
  BY <1>1, <1>3, <1>4 DEF StreamIsWindow
<1>. DEFINE end == IF offsetBuff + MaxBuffLen < Len(stream)
                   THEN offsetBuff + MaxBuffLen ELSE Len(stream)
<1>6. end = Len(stream)
  BY <1>2, <1>4, <1>5
<1>7. /\ Len(buff') = end - offsetBuff /\ offsetBuff' = end /\ posBuff' = 0
      /\ Taken' = Taken /\ FrameStart' = FrameStart
  BY ReadWindowPlace
<1>. HIDE DEF end
<1>8. /\ Len(buff') = Len(stream') /\ offsetBuff' = Len(stream')
      /\ posBuff' <= Len(buff')
  <2>. DEFINE b == Len(buff')
  <2>1. b = Len(stream)
    BY <1>4, <1>5, <1>6, <1>7
  <2>. HIDE DEF b
  <2>2. 0 <= b
    BY <1>4, <2>1
  <2>. QED
    BY <1>1, <1>6, <1>7, <2>1, <2>2 DEF b
<1>9. StreamIsWindow'
  BY <1>8 DEF StreamIsWindow
<1>10. Stands(wire, packetData, FrameStart - 1)'
  BY <1>1, <1>3, <1>7
<1>11. DeliveredSince(sent, delivered, call.first, call.delivered, FrameStart)'
  BY <1>1, <1>3, <1>7
<1>. QED
  BY <1>1, <1>3, <1>7, <1>8, <1>9, <1>10, <1>11

(* The parsing loop goes on in the window. *)
LEMMA StepInWindow ==
  ASSUME IInv, HasByte, Elsewhere, StreamIsWindow, NEW p \in Nat, p <= Len(buff),
         StepTo(p)
  PROVE  StreamIsWindow' /\ (posBuff <= Len(buff))'
<1>1. buff # <<>>
  <2>1. posBuff \in Nat /\ posBuff < Len(buff)
    BY Places DEF HasByte
  <2>. QED
    BY <2>1, EmptySeq
<1>2. offsetBuff = Len(stream) /\ Len(buff) = Len(stream)
  BY <1>1 DEF StreamIsWindow
<1>3. offsetBuff' = Len(stream')
  BY <1>2 DEF Elsewhere
<1>4. CASE p = Len(buff)
  <2>1. posBuff' = 0 /\ buff' = <<>> /\ Len(<<>>) = 0
    BY <1>4, EmptySeq DEF StepTo
  <2>. QED
    BY <1>3, <2>1 DEF StreamIsWindow
<1>5. CASE p # Len(buff)
  <2>1. posBuff' = p /\ buff' = buff /\ stream' = stream
    BY <1>5 DEF StepTo, Elsewhere
  <2>. QED
    BY <1>2, <1>3, <2>1 DEF StreamIsWindow
<1>. QED
  BY <1>4, <1>5

(* What a byte leaves of a call, and what is then still to be shown. *)
LEMMA ByteInCall ==
  ASSUME IInv, Windows, CallInv, HasByte, Elsewhere, delivered \in Seq(Seq(Nat)),
         NEW p \in Nat, OneWindow => p <= Len(buff), StepTo(p),
         FrameStart' \in Int, FrameStart' >= FrameStart,
         OneWindow =>
           /\ packetData' # <<>> => posBuffBeginPack' = FrameStart' - call.first
           /\ Len(delivered) <= Len(delivered') /\ Len(delivered') \in Nat
           /\ Stands(wire, packetData', FrameStart' - 1)
           /\ DeliveredSince(sent, delivered', call.first, call.delivered, FrameStart')
  PROVE  CallInv'
<1>. SUFFICES ASSUME OneWindow'
              PROVE  /\ (call.first = Taken - Len(stream) + 1)'
                     /\ (call.delivered \in Nat /\ call.delivered <= Len(delivered))'
                     /\ StreamIsWindow'
                     /\ (posBuff <= Len(buff))'
                     /\ (FrameStart >= call.first)'
                     /\ (packetData # <<>> => posBuffBeginPack = FrameStart - call.first)'
                     /\ Stands(wire, packetData, FrameStart - 1)'
                     /\ DeliveredSince(sent, delivered, call.first, call.delivered,
                                       FrameStart)'
  BY DEF CallInv
<1>1. UNCHANGED <<pc, stream, wire, sent, call>> /\ Taken' = Taken
  BY DEF Elsewhere, senderVars, Taken, written
<1>2. OneWindow
  BY <1>1 DEF OneWindow
<1>3. /\ call.first = Taken - Len(stream) + 1
      /\ call.delivered \in Nat /\ call.delivered <= Len(delivered)
      /\ StreamIsWindow /\ FrameStart >= call.first
      /\ call.first \in Int /\ FrameStart \in Int /\ Len(delivered) \in Nat
  BY <1>2, CallPlaces, LenProperties DEF CallInv, IInv, ParserTypes
<1>4. StreamIsWindow' /\ (posBuff <= Len(buff))'
  BY <1>2, <1>3, StepInWindow
<1>5. (call.delivered \in Nat /\ call.delivered <= Len(delivered))'
  <2>. DEFINE n == Len(delivered')
  <2>1. n \in Nat /\ Len(delivered) <= n /\ call' = call
    BY <1>1, <1>2
  <2>. HIDE DEF n
  <2>2. call.delivered <= n
    BY <1>3, <2>1
  <2>. QED
    BY <1>3, <2>1, <2>2 DEF n
<1>6. (FrameStart >= call.first)'
  <2>. DEFINE b == FrameStart'
  <2>1. b \in Int /\ b >= FrameStart
    OBVIOUS
  <2>. HIDE DEF b
  <2>2. b >= call.first
    BY <1>3, <2>1
  <2>. QED
    BY <1>1, <2>2 DEF b
<1>7. (call.first = Taken - Len(stream) + 1)'
  BY <1>1, <1>3
<1>8. (packetData # <<>> => posBuffBeginPack = FrameStart - call.first)'
  BY <1>1, <1>2
<1>9. Stands(wire, packetData, FrameStart - 1)'
  BY <1>1, <1>2
<1>10. DeliveredSince(sent, delivered, call.first, call.delivered, FrameStart)'
  BY <1>1, <1>2
<1>. QED
  BY <1>4, <1>5, <1>6, <1>7, <1>8, <1>9, <1>10

LEMMA FrameGoesOnInCall ==
  ASSUME PlaceInv, InPlace, CallInv, HasByte, Elsewhere, FrameGoesOn,
         delivered \in Seq(Seq(Nat))
  PROVE  CallInv'
<1>0. IInv /\ Windows /\ posPacket \in Nat /\ posBuff \in Nat /\ Len(buff) \in Nat
      /\ FrameStart \in Int /\ Len(delivered) \in Nat
  BY Places, LenProperties DEF PlaceInv, IInv, ParserTypes
<1>1. /\ FrameStart' = FrameStart /\ packetData' = assembled
  BY FrameGrowsHere
<1>2. /\ posBuffBeginPack' = IF posPacket = 0 THEN posBuff ELSE posBuffBeginPack
      /\ delivered' = delivered /\ StepTo(posBuff + 1)
  BY DEF FrameGoesOn, Accept
<1>3. posBuff + 1 <= Len(buff) /\ posBuff + 1 \in Nat /\ buff # <<>>
  BY <1>0, EmptySeq DEF HasByte
<1>4. ASSUME OneWindow
      PROVE  /\ posBuffBeginPack' = FrameStart' - call.first
             /\ Stands(wire, packetData', FrameStart' - 1)
             /\ DeliveredSince(sent, delivered', call.first, call.delivered, FrameStart')
  <2>1. /\ packetData # <<>> => posBuffBeginPack = FrameStart - call.first
        /\ Stands(wire, packetData, FrameStart - 1)
        /\ DeliveredSince(sent, delivered, call.first, call.delivered, FrameStart)
    BY <1>4 DEF CallInv
  <2>2. FrameStart = call.first + posBuff - posPacket /\ call.first \in Int
    BY <1>0, <1>3, <1>4, CallPlaces
  <2>3. posBuffBeginPack' = FrameStart' - call.first
    <3>1. CASE posPacket = 0
      <4>1. posBuff = FrameStart - call.first
        BY <1>0, <2>2, <3>1
      <4>. QED
        BY <1>1, <1>2, <3>1, <4>1
    <3>2. CASE posPacket # 0
      <4>1. packetData # <<>>
        BY <3>2, EmptySeq DEF posPacket
      <4>. QED
        BY <1>1, <1>2, <2>1, <3>2, <4>1
    <3>. QED
      BY <3>1, <3>2
  <2>4. Stands(wire, assembled, FrameStart - 1)
    <3>1. packetData \in Seq(Nat) /\ by \in Nat /\ FrameStart - 1 \in Int
      BY <1>0, Looking
    <3>2. /\ FrameStart + posPacket \in DOMAIN wire
          /\ by = wire[FrameStart + posPacket]
      BY <1>0, ByteRead
    <3>3. FrameStart + posPacket = (FrameStart - 1) + Len(packetData) + 1
      BY <1>0 DEF posPacket
    <3>. QED
      BY <2>1, <3>1, <3>2, <3>3, StandsByte DEF assembled
  <2>. QED
    BY <1>1, <1>2, <2>1, <2>3, <2>4
<1>5. FrameStart' \in Int /\ FrameStart' >= FrameStart
  BY <1>0, <1>1
<1>6. Len(delivered) <= Len(delivered') /\ Len(delivered') \in Nat
  BY <1>0, <1>2
<1>. QED
  BY <1>0, <1>2, <1>3, <1>4, <1>5, <1>6, ByteInCall

(* A frame is given up only where no packet begins, and the parser goes back
   into the window. *)
LEMMA FrameGivenUpInCall ==
  ASSUME CrcIsBytes, PlaceInv, InPlace, CallInv, ParseByte, ~PacketDone, Elsewhere,
         HasByte, FrameGivenUp, delivered \in Seq(Seq(Nat))
  PROVE  CallInv'
<1>0. IInv /\ Windows /\ posPacket \in Nat /\ posBuff \in Nat /\ Len(buff) \in Nat
      /\ FrameStart \in Int /\ Len(delivered) \in Nat /\ posBuffBeginPack \in Nat
      /\ wire \in Seq(Nat) /\ SentOnWire(sent, wire)
  BY Places, LenProperties DEF PlaceInv, InPlace, IInv, ParserTypes
<1>1. /\ packetData' = <<>> /\ StepTo(posBuffBeginPack' + 1) /\ delivered' = delivered
      /\ posBuffBeginPack' = IF posPacket = 0 THEN posBuff ELSE posBuffBeginPack
  BY DEF FrameGivenUp, StartOver, Restart
<1>2. posBuffBeginPack' + 1 \in Nat
  BY <1>0, <1>1
<1>3. buff # <<>> /\ posBuff < Len(buff)
  BY <1>0, EmptySeq DEF HasByte
<1>4. FrameStart' > FrameStart /\ FrameStart' \in Int
  BY FrameGivenUpHere
<1>5. ASSUME OneWindow
      PROVE  /\ posBuffBeginPack' + 1 <= Len(buff)
             /\ DeliveredSince(sent, delivered', call.first, call.delivered, FrameStart')
  <2>1. /\ packetData # <<>> => posBuffBeginPack = FrameStart - call.first
        /\ Stands(wire, packetData, FrameStart - 1)
        /\ DeliveredSince(sent, delivered, call.first, call.delivered, FrameStart)
        /\ call.delivered \in Nat /\ call.delivered <= Len(delivered)
    BY <1>5 DEF CallInv
  <2>2. /\ FrameStart = call.first + posBuff - posPacket /\ call.first \in Int
        /\ posPacket <= posBuff
    BY <1>0, <1>3, <1>5, CallPlaces
  <2>3. FrameStart' = FrameStart + 1
    BY <2>2, FrameGivenUpHere
  <2>4. posBuffBeginPack' + 1 <= Len(buff)
    <3>1. CASE posPacket = 0
      <4>1. posBuff + 1 <= Len(buff)
        BY <1>0, <1>3
      <4>. QED
        BY <1>1, <3>1, <4>1
    <3>2. CASE posPacket # 0
      <4>1. packetData # <<>>
        BY <3>2, EmptySeq DEF posPacket
      <4>2. posBuffBeginPack = FrameStart - call.first
        BY <2>1, <4>1
      <4>3. posBuffBeginPack + 1 <= Len(buff)
        BY <1>0, <1>3, <2>2, <4>2
      <4>. QED
        BY <1>1, <3>2, <4>3
    <3>. QED
      BY <3>1, <3>2
  <2>5. \A k \in DOMAIN sent : sent[k].first # FrameStart
    BY <1>1, <2>1, PacketKept
  <2>6. DeliveredSince(sent, delivered, call.first, call.delivered, FrameStart + 1)
    BY <1>0, <2>1, <2>2, <2>5, SinceGivenUp
  <2>. QED
    BY <1>1, <2>3, <2>4, <2>6
<1>6. FrameStart' >= FrameStart
  <2>. DEFINE b == FrameStart'
  <2>1. b \in Int /\ b > FrameStart
    BY <1>4
  <2>. HIDE DEF b
  <2>2. b >= FrameStart
    BY <1>0, <2>1
  <2>. QED
    BY <2>2 DEF b
<1>7. Len(delivered) <= Len(delivered') /\ Len(delivered') \in Nat
  BY <1>0, <1>1
<1>8. Stands(wire, packetData', FrameStart' - 1)
  BY <1>1, NothingStands
<1>. QED
  BY <1>0, <1>1, <1>2, <1>4, <1>5, <1>6, <1>7, <1>8, ByteInCall

LEMMA PacketDoneInCall ==
  ASSUME CrcIsBytes, PlaceInv, InPlace, CallInv, OnlyPacketsCheck, OverwrittenFails,
         PacketDone, delivered \in Seq(Seq(Nat))
  PROVE  CallInv'
<1>0. IInv /\ Windows /\ posPacket \in Nat /\ posBuff \in Nat /\ Len(buff) \in Nat
      /\ FrameStart \in Int /\ wire \in Seq(Nat) /\ SentOnWire(sent, wire)
      /\ Len(delivered) \in Nat
  BY Places, LenProperties DEF PlaceInv, InPlace, IInv, ParserTypes
<1>1. /\ HasByte /\ Elsewhere /\ packetData' = <<>> /\ StepTo(posBuff + 1)
      /\ delivered' = Append(delivered, Payload(packet))
  BY DEF PacketDone, Restart, FrameComplete
<1>2. PICK k \in DOMAIN sent :
        /\ sent[k].first = FrameStart /\ sent[k].last = FrameStart + posPacket
        /\ Payload(packet) = sent[k].payload
  BY DoneWasSent, OverwrittenNotDone
<1>3. posBuff + 1 <= Len(buff) /\ posBuff + 1 \in Nat
  BY <1>0, <1>1 DEF HasByte
<1>4. FrameStart' = FrameStart + posPacket + 1
  BY PacketDoneHere
<1>5. FrameStart' \in Int /\ FrameStart' >= FrameStart /\ FrameStart' = sent[k].last + 1
  BY <1>0, <1>2, <1>4
<1>6. Len(delivered') = Len(delivered) + 1
  <2>1. sent[k].payload \in Seq(Nat)
    BY <1>0, OnWireTypes
  <2>. QED
    BY <1>0, <1>1, <1>2, <2>1, AppendProperties
<1>7. Len(delivered) <= Len(delivered') /\ Len(delivered') \in Nat
  BY <1>0, <1>6
<1>8. ASSUME OneWindow
      PROVE  DeliveredSince(sent, delivered', call.first, call.delivered, FrameStart')
  <2>1. /\ DeliveredSince(sent, delivered, call.first, call.delivered, FrameStart)
        /\ call.delivered \in Nat /\ call.delivered <= Len(delivered)
    BY <1>8 DEF CallInv
  <2>2. call.first \in Int /\ call.first <= FrameStart
    BY <1>0, <1>8, CallPlaces
  <2>3. DeliveredSince(sent, Append(delivered, sent[k].payload), call.first,
                       call.delivered, sent[k].last + 1)
    BY <1>0, <1>2, <2>1, <2>2, SinceOneMore
  <2>. QED
    BY <1>1, <1>2, <1>5, <2>3
<1>9. Stands(wire, packetData', FrameStart' - 1)
  BY <1>1, NothingStands
<1>. QED
  BY <1>0, <1>1, <1>3, <1>5, <1>7, <1>8, <1>9, ByteInCall

LEMMA CallStep ==
  CrcIsBytes /\ WireInv /\ CallInv /\ OnlyPacketsCheck /\ OverwrittenFails /\ [Next]_vars
    => CallInv'
<1>. SUFFICES ASSUME CrcIsBytes, WireInv, CallInv, OnlyPacketsCheck, OverwrittenFails,
                     [Next]_vars
              PROVE  CallInv'
  OBVIOUS
<1>0. /\ PlaceInv /\ IInv /\ Windows /\ InPlace
      /\ delivered \in Seq(Seq(Nat))
  BY DEF WireInv, PlaceInv, DeliveredInOrder
<1>1. CASE \/ \E p \in Payloads : SendPacket(p) \/ SendShort(p)
           \/ \E bytes \in Noise : SendNoise(bytes)
  BY <1>0, <1>1, SenderInCall
<1>2. ASSUME NEW n \in 1 .. Len(net), Recv(n) PROVE CallInv'
  BY <1>0, <1>2, RecvInCall
<1>3. CASE ReadWindow
  BY <1>0, <1>3, ReadWindowInCall
<1>4. CASE OnRecvEnd
  BY <1>4 DEF OnRecvEnd, CallInv, OneWindow
<1>5. CASE Spin \/ UNCHANGED vars
  <2>1. UNCHANGED vars
    BY <1>5 DEF Spin
  <2>2. /\ UNCHANGED <<pc, stream, offsetBuff, buff, posBuff, packetData,
                       posBuffBeginPack, delivered, call, wire, sent>>
        /\ Taken' = Taken /\ FrameStart' = FrameStart
    BY <2>1, UnchangedPlace DEF vars, parserVars, senderVars
  <2>3. OneWindow' => OneWindow
    BY <2>2 DEF OneWindow
  <2>4. OneWindow => /\ Stands(wire', packetData, FrameStart - 1)
                     /\ DeliveredSince(sent', delivered, call.first, call.delivered,
                                       FrameStart)
    BY <2>2 DEF CallInv
  <2>. QED
    BY <2>2, <2>3, <2>4, CallKept
<1>6. CASE PacketDone
  BY <1>0, <1>6, PacketDoneInCall
<1>7. CASE ParseByte /\ ~PacketDone
  <2>1. HasByte /\ Elsewhere /\ (FrameGoesOn \/ FrameGivenUp)
    BY <1>0, <1>7, ByteOutcomes
  <2>. QED
    BY <1>0, <1>7, <2>1, FrameGoesOnInCall, FrameGivenUpInCall
<1>. QED
  BY <1>1, <1>2, <1>3, <1>4, <1>5, <1>6, <1>7 DEF Next, OnRecvStep

(* At the end of the window the packets delivered since the call began are those
   that are whole in it, in front of the frame in progress. *)
LEMMA CallDelivers ==
  CrcIsBytes /\ WireInv /\ CallInv => DeliversAmongNoise
<1>. DEFINE new == Len(delivered) - call.delivered
<1>. SUFFICES ASSUME CrcIsBytes, WireInv, CallInv,
                     pc = "parse", buff = <<>>, offsetBuff = Len(stream),
                     call.between, Len(stream) <= MaxBuffLen
              PROVE  \E before \in 0 .. Len(sent) :
                       /\ \A i \in DOMAIN sent :
                            InThisCall(sent[i]) <=> i - before \in 1 .. new
                       /\ \A j \in 1 .. new :
                            /\ before + j \in DOMAIN sent
                            /\ delivered[call.delivered + j] = sent[before + j].payload
  BY DEF DeliversAmongNoise
<1>1. OneWindow
  BY DEF OneWindow
<1>2. /\ IInv /\ Windows /\ wire \in Seq(Nat) /\ SentOnWire(sent, wire)
      /\ Taken \in Int /\ posPacket \in Nat /\ Len(delivered) \in Nat
  <2>1. /\ IInv /\ Windows /\ wire \in Seq(Nat) /\ SentOnWire(sent, wire)
        /\ delivered \in Seq(Seq(Nat))
    BY DEF WireInv, PlaceInv, InPlace, IInv, ParserTypes, DeliveredInOrder
  <2>. QED
    BY <2>1, Places, LenProperties
<1>3. /\ call.first \in Int /\ FrameStart \in Int /\ FrameStart <= Taken + 1
      /\ FrameStart = Taken - posPacket + 1 /\ call.first <= FrameStart
  BY <1>1, <1>2, CallPlaces
<1>4. /\ packetData # <<>> => posBuffBeginPack = FrameStart - call.first
      /\ call.delivered \in Nat /\ call.delivered <= Len(delivered)
      /\ DeliveredSince(sent, delivered, call.first, call.delivered, FrameStart)
  BY <1>1 DEF CallInv
<1>5. PICK before \in 0 .. Len(sent) :
        /\ before + new <= Len(sent)
        /\ \A i \in DOMAIN sent : /\ i <= before <=> sent[i].first < call.first
                                  /\ i <= before + new <=> sent[i].first < FrameStart
        /\ \A j \in 1 .. new :
             /\ delivered[call.delivered + j] = sent[before + j].payload
             /\ sent[before + j].last < FrameStart
  BY <1>4 DEF DeliveredSince
<1>6. /\ Len(sent) \in Nat /\ DOMAIN sent = 1 .. Len(sent)
      /\ new \in Nat /\ before \in Nat
      /\ \A i \in DOMAIN sent : sent[i].first \in Nat /\ sent[i].last \in Nat
  <2>1. new \in Nat
    BY <1>2, <1>4
  <2>2. Len(sent) \in Nat
    BY <1>2, OnWireTypes
  <2>. QED
    BY <1>2, <1>5, <2>1, <2>2, OnWireTypes
<1>. HIDE DEF new
<1>7. packetData # <<>> => call.first + posBuffBeginPack = FrameStart
  BY <1>3, <1>4
<1>8. packetData = <<>> => FrameStart = Taken + 1
  BY <1>2, <1>3, EmptySeq DEF posPacket
<1>9. ASSUME NEW i \in DOMAIN sent PROVE InThisCall(sent[i]) <=> i - before \in 1 .. new
  <2>. DEFINE a == sent[i].first
              b == sent[i].last
  <2>1. a \in Nat /\ b \in Nat /\ a <= b /\ i \in 1 .. Len(sent)
    BY <1>2, <1>6, PacketNotEmpty
  <2>2. /\ i <= before <=> a < call.first
        /\ i <= before + new <=> a < FrameStart
    BY <1>5
  <2>3. InThisCall(sent[i]) <=>
          a >= call.first /\ b <= Taken
            /\ (packetData # <<>> => b < call.first + posBuffBeginPack)
    BY DEF InThisCall
  <2>. HIDE DEF a, b
  <2>4. InThisCall(sent[i]) <=> a >= call.first /\ b < FrameStart
    BY <1>2, <1>3, <1>7, <1>8, <2>1, <2>3
  <2>5. ASSUME i - before \in 1 .. new PROVE a >= call.first /\ b < FrameStart
    <3>1. ~(i <= before) /\ before + (i - before) = i
      BY <1>6, <2>1, <2>5
    <3>2. b < FrameStart
      BY <1>5, <2>5, <3>1 DEF b
    <3>. QED
      BY <1>3, <2>1, <2>2, <3>1, <3>2
  <2>6. ASSUME a >= call.first, b < FrameStart PROVE i - before \in 1 .. new
    <3>1. ~(a < call.first) /\ a < FrameStart
      BY <1>3, <2>1, <2>6
    <3>2. ~(i <= before) /\ i <= before + new
      BY <2>2, <3>1
    <3>. QED
      BY <1>6, <2>1, <3>2
  <2>. QED
    BY <2>4, <2>5, <2>6
<1>10. ASSUME NEW j \in 1 .. new PROVE before + j \in DOMAIN sent
  BY <1>5, <1>6
<1>. QED
  BY <1>5, <1>9, <1>10 DEF new

(* Under what OnlyPackets assumes, an OnRecv of one window that begins between
   two frames also misses none: it delivers every packet that is whole in the
   window and in front of the frame left in progress, whatever surrounds it. *)
THEOREM AmongNoise ==
  CrcIsBytes => (Spec /\ []OnlyPacketsCheck /\ []OverwrittenFails => []DeliversAmongNoise)
<1>. SUFFICES ASSUME CrcIsBytes
              PROVE  Spec /\ []OnlyPacketsCheck /\ []OverwrittenFails => []DeliversAmongNoise
  OBVIOUS
<1>1. Init => WireInv /\ CallInv
  BY WireAtFirst DEF Init, CallInv, OneWindow
<1>2. WireInv /\ CallInv /\ OnlyPacketsCheck /\ OverwrittenFails /\ [Next]_vars
        => WireInv' /\ CallInv'
  BY WireStep, CallStep
<1>3. WireInv /\ CallInv => DeliversAmongNoise
  BY CallDelivers
<1>. QED
  BY <1>1, <1>2, <1>3, PTL DEF Spec

(* Where no local packet is ever overwritten with a beginning of a frame, the
   checksum's telling the packets on the connection from what else is on it is
   all that has to be assumed: nothing but packets is delivered, and of one
   window's all. *)
THEOREM AgainstNoise ==
  CrcIsBytes /\ Garbage # MID[1]
    => (Spec /\ []OnlyPacketsCheck => []DeliveredWereSent /\ []DeliversAmongNoise)
<1>. SUFFICES ASSUME CrcIsBytes, Garbage # MID[1]
              PROVE  Spec /\ []OnlyPacketsCheck
                       => []DeliveredWereSent /\ []DeliversAmongNoise
  OBVIOUS
<1>1. Spec => []OverwrittenFails
  BY OverwrittenNoticed
<1>2. Spec /\ []OnlyPacketsCheck /\ []OverwrittenFails => []DeliveredWereSent
  BY OnlyPackets
<1>3. Spec /\ []OnlyPacketsCheck /\ []OverwrittenFails => []DeliversAmongNoise
  BY AmongNoise
<1>. QED
  BY <1>1, <1>2, <1>3, PTL
=============================================================================
