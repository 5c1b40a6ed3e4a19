------------------------ MODULE OrcRemoteServerProofs ------------------------
(***************************************************************************)
(* Proofs about OrcRemoteServer, for any clients, sources, packets and     *)
(* room in a packet: its types, the order of a writer's bytes in a source, *)
(* that parts of a source read at different times fit together, and, where *)
(* what is read fits a packet, the order and completeness of the answers   *)
(* and that the server is a CommandLog.                                    *)
(*                                                                         *)
(* All rest on the RefIDs.  What a client has under way is in the order    *)
(* it was sent, and everything that was handled, stored or answered was    *)
(* sent before it.  So a write puts bytes behind all earlier ones of its   *)
(* client, an answer belongs to one command of the log only, and what the  *)
(* server handles next is what its client sent first.  The store and the   *)
(* log agree because each handler changes what is held of a source as the  *)
(* log reads its command.                                                  *)
(***************************************************************************)
EXTENDS OrcRemoteServer, SequenceTheorems, WellFoundedInduction, TLAPS

(* A packet of c, who has sent n commands, or the rest of one. *)
Sound(c, n, p) ==
  \A a \in DOMAIN p :
    /\ p[a].refid[1] = c /\ p[a].refid[2] =< n
    /\ \A i \in DOMAIN p[a].data : p[a].data[i] = <<c, p[a].refid[2], i>>
    /\ \A b \in DOMAIN p : a < b => p[a].refid[2] < p[b].refid[2]

Follows(p, q) ==
  \A a \in DOMAIN p, b \in DOMAIN q : p[a].refid[2] < q[b].refid[2]

Waiting ==
  /\ \A c \in Clients : \A i \in DOMAIN toServer[c] :
       /\ Sound(c, nsent[c], toServer[c][i])
       /\ \A j \in DOMAIN toServer[c] :
            i < j => Follows(toServer[c][i], toServer[c][j])
  /\ Sound(handler, nsent[handler], cmds)
  /\ \A i \in DOMAIN toServer[handler] : Follows(cmds, toServer[handler][i])

(* The command id was sent before those of p. *)
Before(id, p) == \A a \in DOMAIN p : id[2] < p[a].refid[2]

Past(id) ==
  /\ id[2] =< nsent[id[1]]
  /\ id[1] = handler => Before(id, cmds)
  /\ \A i \in DOMAIN toServer[id[1]] : Before(id, toServer[id[1]][i])

HandledPast == \A j \in DOMAIN log : Past(log[j].refid)

Known(id) == \E j \in DOMAIN log : log[j].refid = id

StoreKnown ==
  \A s \in DOMAIN store : \A i \in DOMAIN store[s] :
    Known(<<store[s][i][1], store[s][i][2]>>)

AnswersKnown ==
  \A c \in Clients : \A i \in DOMAIN answers[c] : Known(answers[c][i].refid)

OrderInv == Waiting /\ HandledPast /\ StoreKnown /\ AnswersKnown

IInv == TypeOK /\ OrderInv /\ WritersInOrder /\ PartsFit

-----------------------------------------------------------------------------
(* Sequences. *)

LEMMA AppendNew ==
  ASSUME NEW S, NEW s \in Seq(S), NEW e \in S PROVE Append(s, e) # s
<1>1. Len(Append(s, e)) = Len(s) + 1 /\ Len(s) \in Nat
  BY AppendProperties, LenProperties
<1>. QED
  BY <1>1

LEMMA PrefixOf ==
  ASSUME NEW S, NEW s \in Seq(S), NEW p \in Prefixes(s)
  PROVE  /\ p \in Seq(S) /\ Len(p) =< Len(s)
         /\ \A i \in 1 .. Len(p) : p[i] = s[i]
<1>1. PICK l \in 0 .. Len(s) : p = SubSeq(s, 1, l)
  BY DEF Prefixes
<1>2. l \in Nat /\ l =< Len(s) /\ \A i \in 1 .. l : s[i] \in S
  BY ElementOfSeq, LenProperties
<1>. QED
  BY <1>1, <1>2, SubSeqProperties

LEMMA MinIn ==
  ASSUME NEW I \in SUBSET Nat, I # {}
  PROVE  Min(I) \in I
<1>1. PICK x \in I : \A y \in I : <<y, x>> \notin OpToRel(<, Nat)
  BY NatLessThanWellFounded, WFMin, Zenon
<1>2. \A y \in I : ~ (y < x)
  <2>. SUFFICES ASSUME NEW y \in I, y < x PROVE FALSE
    OBVIOUS
  <2>1. <<y, x>> \in Nat \X Nat /\ <<y, x>>[1] = y /\ <<y, x>>[2] = x
    OBVIOUS
  <2>2. <<y, x>> \in OpToRel(<, Nat)
    BY <2>1, Zenon DEF OpToRel
  <2>. QED
    BY <1>1, <2>2
<1>3. x \in Nat /\ \A y \in I : y \in Nat /\ x =< y
  BY <1>2
<1>. QED
  BY <1>3 DEF Min

(* What DecodePacket makes of a packet is the beginning of it. *)
LEMMA DecodePrefix ==
  ASSUME NEW S, NEW p \in Seq(S)
  PROVE  /\ Decode(p) \in Seq(S) /\ Len(Decode(p)) =< Len(p)
         /\ \A i \in 1 .. Len(Decode(p)) : Decode(p)[i] = p[i]
<1>. DEFINE I == {i \in 1 .. Len(p) : p[i].cmdid = "invalid"}
            n == IF I # {} THEN Min(I) ELSE 0
<1>1. Len(p) \in Nat
  BY LenProperties
<1>2. n \in 0 .. Len(p)
  <2>1. I \in SUBSET Nat /\ I \subseteq 1 .. Len(p)
    BY <1>1
  <2>. HIDE DEF I
  <2>2. I # {} => Min(I) \in I
    BY <2>1, MinIn
  <2>3. I # {} => Min(I) \in 1 .. Len(p)
    BY <2>1, <2>2
  <2>. QED
    BY <1>1, <2>3
<1>3. Decode(p) = IF n = 0 THEN p ELSE SubSeq(p, 1, n - 1)
  BY DEF Decode, SelectInSeq
<1>. HIDE DEF n
<1>4. CASE n = 0
  BY <1>1, <1>3, <1>4
<1>5. CASE n # 0
  <2>1. n - 1 \in Nat /\ n - 1 =< Len(p)
    BY <1>1, <1>2, <1>5
  <2>2. \A i \in 1 .. n - 1 : p[i] \in S
    BY <1>1, <2>1, ElementOfSeq
  <2>. QED
    BY <1>3, <1>5, <2>1, <2>2, SubSeqProperties
<1>. QED
  BY <1>4, <1>5

-----------------------------------------------------------------------------
(* The order of what is under way. *)

LEMMA InitHolds == Init => IInv
<1>. SUFFICES ASSUME Init PROVE IInv
  OBVIOUS
<1>1. \A S : <<>> \in Seq(S) /\ DOMAIN <<>> = {}
  OBVIOUS
<1>2. 0 \in 0 .. MaxCmds
  BY RemoteAssumption
<1>3. TypeOK
  BY <1>1, <1>2 DEF Init, TypeOK
<1>4. OrderInv
  BY <1>1 DEF Init, OrderInv, Waiting, Sound, HandledPast, StoreKnown,
     AnswersKnown
<1>5. WritersInOrder /\ PartsFit
  BY <1>1 DEF Init, WritersInOrder, PartsFit
<1>. QED
  BY <1>3, <1>4, <1>5 DEF IInv

(* What is under way may only get less. *)
Shrunk ==
  /\ toServer' \in [Clients -> Seq(Seq(Cmds))]
  /\ \A c \in Clients :
       /\ Len(toServer'[c]) =< Len(toServer[c])
       /\ \A i \in 1 .. Len(toServer'[c]) : toServer'[c][i] = toServer[c][i]

LEMMA ShrunkDomain ==
  ASSUME TypeOK, Shrunk, NEW c \in Clients, NEW i \in DOMAIN toServer'[c]
  PROVE  i \in DOMAIN toServer[c] /\ toServer'[c][i] = toServer[c][i]
<1>1. /\ toServer[c] \in Seq(Seq(Cmds)) /\ toServer'[c] \in Seq(Seq(Cmds))
      /\ Len(toServer'[c]) =< Len(toServer[c])
  BY DEF TypeOK, Shrunk
<1>2. i \in 1 .. Len(toServer'[c]) /\ i \in 1 .. Len(toServer[c])
  BY <1>1, LenProperties
<1>. QED
  BY <1>1, <1>2, LenProperties DEF Shrunk

LEMMA PrefixShrinks ==
  ASSUME TypeOK, NEW c \in Clients, NEW kept \in Prefixes(toServer[c]),
         toServer' = [toServer EXCEPT ![c] = kept]
  PROVE  Shrunk
<1>1. toServer \in [Clients -> Seq(Seq(Cmds))]
  BY DEF TypeOK
<1>2. /\ kept \in Seq(Seq(Cmds)) /\ Len(kept) =< Len(toServer[c])
      /\ \A i \in 1 .. Len(kept) : kept[i] = toServer[c][i]
  BY <1>1, PrefixOf
<1>3. \A d \in Clients : Len(toServer[d]) \in Nat
  BY <1>1, LenProperties
<1>. QED
  BY <1>1, <1>2, <1>3 DEF Shrunk

LEMMA LogIds ==
  ASSUME TypeOK, NEW j \in DOMAIN log
  PROVE  log[j] \in Cmds /\ log[j].refid[1] \in Clients
         /\ log[j].refid[2] \in 1 .. MaxCmds
<1>1. log[j] \in Cmds
  BY LenProperties DEF TypeOK
<1>2. log[j].refid \in Clients \X (1 .. MaxCmds)
  BY <1>1 DEF Cmds, Ids
<1>. QED
  BY <1>1, <1>2

(* The invariant needs of cmds only that it is in order and in front of what
   has not been read. *)
LEMMA OrderShrinks ==
  ASSUME TypeOK, OrderInv, Shrunk,
         UNCHANGED <<handler, cmds, nsent, log, store, answers>>
  PROVE  OrderInv'
<1>0. Waiting
  BY DEF OrderInv
<1>1. Waiting'
  <2>1. ASSUME NEW c \in Clients, NEW i \in DOMAIN toServer'[c]
        PROVE  /\ Sound(c, nsent[c], toServer[c][i])'
               /\ \A j \in DOMAIN toServer'[c] :
                    i < j => Follows(toServer[c][i], toServer[c][j])'
    <3>1. i \in DOMAIN toServer[c] /\ toServer'[c][i] = toServer[c][i]
      BY <2>1, ShrunkDomain
    <3>2. ASSUME NEW j \in DOMAIN toServer'[c]
          PROVE  j \in DOMAIN toServer[c] /\ toServer'[c][j] = toServer[c][j]
      BY <3>2, ShrunkDomain
    <3>3. Sound(c, nsent[c], toServer[c][i])'
      BY <1>0, <3>1 DEF Waiting, Sound
    <3>. QED
      BY <1>0, <3>1, <3>2, <3>3 DEF Waiting, Follows
  <2>2. Sound(handler, nsent[handler], cmds)'
    BY <1>0 DEF Waiting, Sound
  <2>3. ASSUME NEW i \in DOMAIN toServer'[handler']
        PROVE  Follows(cmds, toServer[handler][i])'
    <3>1. i \in DOMAIN toServer[handler]
          /\ toServer'[handler][i] = toServer[handler][i]
      BY <2>3, ShrunkDomain DEF TypeOK
    <3>. QED
      BY <1>0, <3>1 DEF Waiting, Follows
  <2>. QED
    BY <2>1, <2>2, <2>3 DEF Waiting
<1>2. HandledPast'
  <2>. SUFFICES ASSUME NEW j \in DOMAIN log' PROVE Past(log[j].refid)'
    BY DEF HandledPast
  <2>1. log[j].refid[1] \in Clients
    BY LogIds
  <2>2. Past(log[j].refid)
    BY DEF OrderInv, HandledPast
  <2>. QED
    BY <2>1, <2>2, ShrunkDomain DEF Past, Before
<1>3. StoreKnown' /\ AnswersKnown'
  BY DEF OrderInv, StoreKnown, AnswersKnown, Known
<1>. QED
  BY <1>1, <1>2, <1>3 DEF OrderInv

-----------------------------------------------------------------------------
(* The clients. *)

LEMMA LeaveKeeps == ASSUME IInv, NEW c \in Clients, Leave(c) PROVE IInv'
<1>1. /\ UNCHANGED <<store, handler, cmds, good, nsent, log, answers>>
      /\ left' = left \cup {c}
  BY DEF Leave
<1>2. Shrunk
  BY PrefixShrinks DEF IInv, Leave
<1>3. TypeOK'
  BY <1>1, <1>2 DEF IInv, TypeOK, Shrunk
<1>4. OrderInv'
  BY <1>1, <1>2, OrderShrinks DEF IInv
<1>5. WritersInOrder' /\ PartsFit'
  BY <1>1 DEF IInv, WritersInOrder, PartsFit
<1>. QED
  BY <1>3, <1>4, <1>5 DEF IInv

LEMMA ReadGoneKeeps == ASSUME IInv, NEW c \in Clients, ReadGone(c) PROVE IInv'
<1>1. /\ UNCHANGED <<store, toServer, handler, cmds, clientVars, log, answers>>
      /\ good' = [good EXCEPT ![c] = FALSE]
  BY DEF ReadGone
<1>2. TypeOK'
  BY <1>1 DEF IInv, TypeOK, clientVars
<1>3. OrderInv'
  BY <1>1, OrderShrinks DEF IInv, TypeOK, Shrunk, clientVars
<1>4. WritersInOrder' /\ PartsFit'
  BY <1>1 DEF IInv, WritersInOrder, PartsFit
<1>. QED
  BY <1>2, <1>3, <1>4 DEF IInv

(* A command, the n-th of its client. *)
LEMMA NewCommand ==
  ASSUME NEW c \in Clients, NEW n \in 1 .. MaxCmds,
         NEW k \in [cmdid : CmdIDs, source : Sources, length : Nat, offset : Nat],
         k.cmdid = "WRITE" => k.length =< MaxPart
  PROVE  /\ Cmd(c, n, k) \in Cmds
         /\ Cmd(c, n, k).refid = <<c, n>>
         /\ \A l \in DOMAIN Cmd(c, n, k).data : Cmd(c, n, k).data[l] = <<c, n, l>>
<1>. DEFINE m == IF k.cmdid = "WRITE" THEN k.length ELSE 0
            d == [l \in 1 .. m |-> <<c, n, l>>]
<1>1. /\ k.cmdid \in CmdIDs /\ k.source \in Sources /\ k.length \in Nat
      /\ k.offset \in Nat
  OBVIOUS
<1>2. m \in Nat /\ m =< MaxPart /\ MaxPart \in Nat
  BY <1>1, RemoteAssumption
<1>3. Cmd(c, n, k) = [refid |-> <<c, n>>, cmdid |-> k.cmdid,
                      source |-> k.source, length |-> k.length,
                      offset |-> k.offset, data |-> d]
  BY DEF Cmd
<1>. HIDE DEF m
<1>4. \A l \in 1 .. m : <<c, n, l>> \in Bytes
  BY <1>2 DEF Bytes
<1>5. d \in Seq(Bytes) /\ \A l \in DOMAIN d : d[l] = <<c, n, l>>
  BY <1>2, <1>4
<1>6. <<c, n>> \in Ids
  BY DEF Ids
<1>. HIDE DEF d
<1>. QED
  BY <1>1, <1>3, <1>5, <1>6 DEF Cmds

(* The commands of a new packet come behind everything their client has sent. *)
Sent(c, packet) == [i \in DOMAIN packet |-> Cmd(c, nsent[c] + i, packet[i])]

LEMMA NewPacket ==
  ASSUME IInv, NEW c \in Clients, NEW packet \in Packets, SendPacket(c, packet)
  PROVE  /\ Sent(c, packet) \in Seq(Cmds)
         /\ Len(Sent(c, packet)) = Len(packet)
         /\ Len(packet) \in Nat
         /\ nsent'[c] = nsent[c] + Len(packet) /\ nsent'[c] \in 0 .. MaxCmds
         /\ \A i \in DOMAIN Sent(c, packet) :
              LET k == Sent(c, packet)[i] IN
              /\ k.refid[1] = c /\ k.refid[2] = nsent[c] + i
              /\ \A l \in DOMAIN k.data : k.data[l] = <<c, k.refid[2], l>>
<1>1. packet \in Seq([cmdid : CmdIDs, source : Sources, length : Nat,
                      offset : Nat])
  BY RemoteAssumption
<1>2. /\ Len(packet) \in Nat /\ DOMAIN packet = 1 .. Len(packet)
      /\ nsent[c] \in 0 .. MaxCmds /\ nsent[c] + Len(packet) =< MaxCmds
      /\ MaxCmds \in Nat
  BY <1>1, LenProperties, RemoteAssumption DEF IInv, TypeOK, SendPacket
<1>3. nsent'[c] = nsent[c] + Len(packet)
  BY DEF SendPacket, IInv, TypeOK
<1>4. ASSUME NEW i \in 1 .. Len(packet)
      PROVE  LET k == Cmd(c, nsent[c] + i, packet[i]) IN
             /\ k \in Cmds /\ k.refid = <<c, nsent[c] + i>>
             /\ \A l \in DOMAIN k.data : k.data[l] = <<c, nsent[c] + i, l>>
  <2>1. packet[i] \in [cmdid : CmdIDs, source : Sources, length : Nat,
                       offset : Nat]
    BY <1>1, ElementOfSeq
  <2>2. nsent[c] + i \in 1 .. MaxCmds
    BY <1>2
  <2>3. packet[i].cmdid = "WRITE" => packet[i].length =< MaxPart
    BY <1>2 DEF SendPacket
  <2>. QED
    BY <2>1, <2>2, <2>3, NewCommand
<1>5. Sent(c, packet) \in Seq(Cmds) /\ Len(Sent(c, packet)) = Len(packet)
  BY <1>2, <1>4 DEF Sent
<1>6. /\ DOMAIN Sent(c, packet) = 1 .. Len(packet)
      /\ \A i \in 1 .. Len(packet) :
           Sent(c, packet)[i] = Cmd(c, nsent[c] + i, packet[i])
  BY <1>2 DEF Sent
<1>7. ASSUME NEW i \in DOMAIN Sent(c, packet)
      PROVE  LET k == Sent(c, packet)[i] IN
             /\ k.refid[1] = c /\ k.refid[2] = nsent[c] + i
             /\ \A l \in DOMAIN k.data : k.data[l] = <<c, k.refid[2], l>>
  <2>. DEFINE k == Sent(c, packet)[i]
  <2>1. /\ k.refid = <<c, nsent[c] + i>>
        /\ \A l \in DOMAIN k.data : k.data[l] = <<c, nsent[c] + i, l>>
    BY <1>4, <1>6
  <2>. HIDE DEF k
  <2>. QED
    BY <2>1 DEF k
<1>8. nsent'[c] \in 0 .. MaxCmds
  BY <1>2, <1>3
<1>. QED
  BY <1>2, <1>3, <1>5, <1>7, <1>8

LEMMA SendPacketKeeps ==
  ASSUME IInv, NEW c \in Clients, NEW packet \in Packets, SendPacket(c, packet)
  PROVE  IInv'
<1>. DEFINE p == Sent(c, packet)
            old == toServer[c]
<1>1. /\ p \in Seq(Cmds) /\ Len(p) \in Nat
      /\ nsent'[c] = nsent[c] + Len(p) /\ nsent'[c] \in 0 .. MaxCmds
      /\ \A i \in DOMAIN p :
           /\ p[i].refid[1] = c /\ p[i].refid[2] = nsent[c] + i
           /\ \A l \in DOMAIN p[i].data : p[i].data[l] = <<c, p[i].refid[2], l>>
  BY NewPacket
<1>2. /\ toServer' = [toServer EXCEPT ![c] = Append(@, p)]
      /\ UNCHANGED <<store, handler, cmds, good, left, log, answers>>
      /\ nsent' = [nsent EXCEPT ![c] = @ + Len(packet)]
  BY DEF SendPacket, Sent
<1>. HIDE DEF p
<1>3. /\ old \in Seq(Seq(Cmds)) /\ Len(old) \in Nat
      /\ DOMAIN old = 1 .. Len(old) /\ DOMAIN p = 1 .. Len(p)
      /\ toServer'[c] = Append(old, p)
      /\ nsent[c] \in Nat
  BY <1>1, <1>2, LenProperties DEF IInv, TypeOK
<1>4. /\ toServer'[c] \in Seq(Seq(Cmds))
      /\ DOMAIN toServer'[c] = 1 .. Len(old) + 1
      /\ \A i \in 1 .. Len(old) : toServer'[c][i] = old[i]
      /\ toServer'[c][Len(old) + 1] = p
  BY <1>1, <1>3, AppendProperties, LenProperties
<1>5. \A d \in Clients \ {c} : toServer'[d] = toServer[d] /\ nsent'[d] = nsent[d]
  BY <1>2 DEF IInv, TypeOK
<1>6. nsent[c] =< nsent'[c]
  BY <1>1, <1>3
<1>7. TypeOK'
  BY <1>1, <1>2, <1>4 DEF IInv, TypeOK
<1>8. ASSUME NEW d \in Clients, NEW q \in Seq(Cmds), Sound(d, nsent[d], q)
      PROVE  Sound(d, nsent'[d], q) /\ (d = c => Follows(q, p))
  <2>1. ASSUME NEW a \in DOMAIN q
        PROVE  q[a].refid[2] \in Nat
    <3>1. q[a] \in Cmds
      BY LenProperties
    <3>2. q[a].refid \in Clients \X (1 .. MaxCmds)
      BY <3>1 DEF Cmds, Ids
    <3>. QED
      BY <3>2
  <2>2. nsent[d] \in Nat /\ nsent'[d] \in Nat /\ nsent[d] =< nsent'[d]
    <3>1. nsent[d] \in Nat
      BY DEF IInv, TypeOK
    <3>. QED
      BY <1>1, <1>3, <1>5, <1>6, <3>1, SMTT(30)
  <2>3. Sound(d, nsent'[d], q)
    BY <1>8, <2>1, <2>2 DEF Sound
  <2>4. d = c => Follows(q, p)
    <3>. SUFFICES ASSUME d = c, NEW a \in DOMAIN q, NEW b \in DOMAIN p
                  PROVE  q[a].refid[2] < p[b].refid[2]
      BY DEF Follows
    <3>1. q[a].refid[2] =< nsent[c] /\ q[a].refid[2] \in Nat
      BY <1>8, <2>1 DEF Sound
    <3>2. p[b].refid[2] = nsent[c] + b /\ b \in Nat \ {0}
      BY <1>1, <1>3
    <3>. QED
      BY <1>3, <3>1, <3>2
  <2>. QED
    BY <2>3, <2>4
<1>9. Sound(c, nsent'[c], p)
  <2>. SUFFICES ASSUME NEW a \in DOMAIN p, NEW b \in DOMAIN p
                PROVE  /\ p[a].refid[2] =< nsent'[c]
                       /\ a < b => p[a].refid[2] < p[b].refid[2]
    BY <1>1 DEF Sound
  <2>1. a \in 1 .. Len(p) /\ b \in 1 .. Len(p)
    BY <1>3
  <2>2. p[a].refid[2] = nsent[c] + a /\ p[b].refid[2] = nsent[c] + b
    BY <1>1
  <2>. QED
    BY <1>1, <1>3, <2>1, <2>2
<1>10. Waiting'
  <2>1. Waiting
    BY DEF IInv, OrderInv
  <2>2. ASSUME NEW d \in Clients, NEW i \in DOMAIN toServer'[d]
        PROVE  /\ Sound(d, nsent[d], toServer[d][i])'
               /\ \A j \in DOMAIN toServer'[d] :
                    i < j => Follows(toServer[d][i], toServer[d][j])'
    <3>1. ASSUME NEW l \in DOMAIN toServer[d]
          PROVE  toServer[d][l] \in Seq(Cmds)
      BY LenProperties DEF IInv, TypeOK
    <3>2. CASE d # c
      <4>1. toServer'[d] = toServer[d] /\ i \in DOMAIN toServer[d]
        BY <1>5, <2>2, <3>2
      <4>2. Sound(d, nsent[d], toServer[d][i])
        BY <2>1, <4>1 DEF Waiting
      <4>3. Sound(d, nsent'[d], toServer[d][i])
        BY <1>8, <3>1, <4>1, <4>2
      <4>. QED
        BY <2>1, <4>1, <4>3 DEF Waiting
    <3>3. CASE d = c
      <4>1. CASE i = Len(old) + 1
        <5>1. \A j \in DOMAIN toServer'[c] : ~(i < j)
          BY <1>3, <1>4, <4>1
        <5>. QED
          BY <1>3, <1>4, <1>9, <3>3, <4>1, <5>1
      <4>2. CASE i # Len(old) + 1
        <5>1. i \in 1 .. Len(old) /\ i \in DOMAIN old
          BY <1>3, <1>4, <2>2, <3>3, <4>2, SMTT(30)
        <5>2. Sound(c, nsent[c], old[i])
          BY <2>1, <5>1 DEF Waiting
        <5>3. Sound(c, nsent'[c], old[i]) /\ Follows(old[i], p)
          BY <1>8, <3>1, <3>3, <5>1, <5>2
        <5>4. \A j \in DOMAIN old : i < j => Follows(old[i], old[j])
          BY <2>1, <5>1 DEF Waiting
        <5>5. ASSUME NEW j \in DOMAIN toServer'[c], i < j
              PROVE  Follows(old[i], toServer'[c][j])
          BY <1>3, <1>4, <5>3, <5>4, <5>5
        <5>. QED
          BY <1>4, <3>3, <5>1, <5>3, <5>5
      <4>. QED
        BY <4>1, <4>2
    <3>. QED
      BY <3>2, <3>3
  <2>3. /\ handler \in Clients /\ cmds \in Seq(Cmds)
        /\ Sound(handler, nsent[handler], cmds)
    BY <2>1 DEF Waiting, IInv, TypeOK
  <2>4. /\ Sound(handler, nsent'[handler], cmds)
        /\ handler = c => Follows(cmds, p)
    BY <1>8, <2>3
  <2>5. ASSUME NEW i \in DOMAIN toServer'[handler]
        PROVE  Follows(cmds, toServer'[handler][i])
    <3>1. CASE handler # c
      <4>1. toServer'[handler] = toServer[handler]
        BY <1>5, <2>3, <3>1
      <4>. QED
        BY <2>1, <2>5, <4>1 DEF Waiting
    <3>2. CASE handler = c
      <4>1. i \in DOMAIN old => Follows(cmds, old[i])
        BY <2>1, <3>2 DEF Waiting
      <4>. QED
        BY <1>3, <1>4, <2>4, <2>5, <3>2, <4>1
    <3>. QED
      BY <3>1, <3>2
  <2>. QED
    BY <1>2, <2>2, <2>4, <2>5 DEF Waiting
<1>11. HandledPast'
  <2>. SUFFICES ASSUME NEW j \in DOMAIN log PROVE Past(log[j].refid)'
    BY <1>2 DEF HandledPast
  <2>. DEFINE id == log[j].refid
              d == id[1]
  <2>1. d \in Clients /\ id[2] \in Nat
    BY LogIds DEF IInv
  <2>2. Past(id)
    BY DEF IInv, OrderInv, HandledPast
  <2>3. nsent[d] \in Nat /\ nsent'[d] \in Nat /\ nsent[d] =< nsent'[d]
    <3>1. nsent[d] \in Nat
      BY <2>1 DEF IInv, TypeOK
    <3>. HIDE DEF d
    <3>. QED
      BY <1>1, <1>3, <1>5, <1>6, <2>1, <3>1, SMTT(30)
  <2>4. id[2] =< nsent[d]
    BY <2>2 DEF Past
  <2>5. ASSUME NEW i \in DOMAIN toServer'[d]
        PROVE  Before(id, toServer'[d][i])
    <3>1. \A l \in DOMAIN toServer[d] : Before(id, toServer[d][l])
      BY <2>2 DEF Past
    <3>2. CASE d # c
      <4>1. toServer'[d] = toServer[d]
        BY <1>5, <2>1, <3>2
      <4>. QED
        BY <2>5, <3>1, <4>1
    <3>3. CASE d = c /\ i # Len(old) + 1
      <4>. HIDE DEF id, d
      <4>1. i \in 1 .. Len(old)
        BY <1>3, <1>4, <2>5, <3>3
      <4>. QED
        BY <1>3, <1>4, <3>1, <3>3, <4>1
    <3>4. CASE d = c /\ i = Len(old) + 1
      <4>1. \A a \in DOMAIN p : id[2] < p[a].refid[2]
        BY <1>1, <1>3, <2>1, <2>4, <3>4
      <4>. QED
        BY <1>4, <3>4, <4>1 DEF Before
    <3>. QED
      BY <3>2, <3>3, <3>4
  <2>6. id[2] =< nsent'[d]
    BY <2>1, <2>3, <2>4
  <2>7. UNCHANGED <<log, handler, cmds>>
    BY <1>2
  <2>. QED
    BY <2>2, <2>5, <2>6, <2>7 DEF Past, Before
<1>12. StoreKnown' /\ AnswersKnown'
  BY <1>2 DEF IInv, OrderInv, StoreKnown, AnswersKnown, Known
<1>13. WritersInOrder' /\ PartsFit'
  BY <1>2 DEF IInv, WritersInOrder, PartsFit
<1>. QED
  BY <1>7, <1>10, <1>11, <1>12, <1>13 DEF IInv, OrderInv

-----------------------------------------------------------------------------
(* The server takes a packet: its commands come before those not read. *)
LEMMA OnRecvPacketKeeps ==
  ASSUME IInv, NEW c \in Clients, OnRecvPacket(c) PROVE IInv'
<1>. DEFINE old == toServer[c]
            p == Head(old)
<1>1. /\ cmds = <<>> /\ old # <<>> /\ handler' = c /\ cmds' = Decode(p)
      /\ toServer' = [toServer EXCEPT ![c] = Tail(@)]
      /\ UNCHANGED <<store, good, nsent, left, log, answers>>
  BY DEF OnRecvPacket, clientVars
<1>2. /\ old \in Seq(Seq(Cmds)) /\ Len(old) \in Nat \ {0}
      /\ DOMAIN old = 1 .. Len(old) /\ p = old[1] /\ p \in Seq(Cmds)
  BY <1>1, LenProperties, HeadTailProperties, EmptySeq DEF IInv, TypeOK
<1>3. /\ Tail(old) \in Seq(Seq(Cmds))
      /\ DOMAIN Tail(old) = 1 .. Len(old) - 1
      /\ \A i \in 1 .. Len(old) - 1 : Tail(old)[i] = old[i + 1]
  BY <1>1, <1>2, HeadTailProperties, LenProperties
<1>4. toServer'[c] = Tail(old) /\ \A d \in Clients \ {c} : toServer'[d] = toServer[d]
  BY <1>1 DEF IInv, TypeOK
<1>5. /\ cmds' \in Seq(Cmds) /\ DOMAIN cmds' \subseteq DOMAIN p
      /\ \A a \in DOMAIN cmds' : cmds'[a] = p[a]
  <2>1. /\ cmds' \in Seq(Cmds) /\ Len(cmds') =< Len(p)
        /\ \A a \in 1 .. Len(cmds') : cmds'[a] = p[a]
    BY <1>1, <1>2, DecodePrefix
  <2>2. /\ DOMAIN cmds' = 1 .. Len(cmds') /\ DOMAIN p = 1 .. Len(p)
        /\ Len(cmds') \in Nat /\ Len(p) \in Nat
    BY <1>2, <2>1, LenProperties
  <2>. QED
    BY <2>1, <2>2
<1>. HIDE DEF p
<1>6. TypeOK'
  BY <1>1, <1>3, <1>5 DEF IInv, TypeOK
<1>7. Waiting
  BY DEF IInv, OrderInv
<1>8. Waiting'
  <2>1. ASSUME NEW d \in Clients, NEW i \in DOMAIN toServer'[d]
        PROVE  /\ Sound(d, nsent[d], toServer[d][i])'
               /\ \A j \in DOMAIN toServer'[d] :
                    i < j => Follows(toServer[d][i], toServer[d][j])'
    <3>1. CASE d # c
      <4>1. toServer'[d] = toServer[d] /\ nsent'[d] = nsent[d]
        BY <1>1, <1>4, <3>1
      <4>. QED
        BY <1>7, <2>1, <4>1 DEF Waiting
    <3>2. CASE d = c
      <4>1. ASSUME NEW j \in DOMAIN toServer'[c]
            PROVE  /\ toServer'[c][j] = old[j + 1] /\ j + 1 \in DOMAIN old
                   /\ j \in Int
        BY <1>2, <1>3, <1>4, <4>1
      <4>2. Sound(c, nsent[c], old[i + 1])
        BY <1>7, <2>1, <3>2, <4>1 DEF Waiting
      <4>3. ASSUME NEW j \in DOMAIN toServer'[c], i < j
            PROVE  Follows(old[i + 1], old[j + 1])
        <5>1. i + 1 < j + 1
          BY <2>1, <3>2, <4>1, <4>3
        <5>. QED
          BY <1>7, <2>1, <3>2, <4>1, <4>3, <5>1 DEF Waiting
      <4>. QED
        BY <1>1, <2>1, <3>2, <4>1, <4>2, <4>3
    <3>. QED
      BY <3>1, <3>2
  <2>2. Sound(c, nsent[c], p)
    BY <1>2, <1>7 DEF Waiting
  <2>3. Sound(c, nsent[c], cmds')
    BY <1>5, <2>2 DEF Sound
  <2>4. ASSUME NEW i \in DOMAIN toServer'[c]
        PROVE  Follows(cmds', toServer'[c][i])
    <3>1. /\ toServer'[c][i] = old[i + 1] /\ i + 1 \in DOMAIN old /\ 1 < i + 1
          /\ 1 \in DOMAIN old
      BY <1>2, <1>3, <1>4, <2>4
    <3>2. Follows(p, old[i + 1])
      BY <1>2, <1>7, <3>1 DEF Waiting
    <3>. QED
      BY <1>5, <3>1, <3>2 DEF Follows
  <2>. QED
    BY <1>1, <2>1, <2>3, <2>4 DEF Waiting
<1>9. HandledPast'
  <2>. SUFFICES ASSUME NEW j \in DOMAIN log PROVE Past(log[j].refid)'
    BY <1>1 DEF HandledPast
  <2>. DEFINE id == log[j].refid
              d == id[1]
  <2>1. d \in Clients
    BY LogIds DEF IInv
  <2>2. id[2] =< nsent[d] /\ \A i \in DOMAIN toServer[d] : Before(id, toServer[d][i])
    BY DEF IInv, OrderInv, HandledPast, Past
  <2>. HIDE DEF id, d
  <2>3. d = c => Before(id, cmds')
    <3>1. d = c => Before(id, p)
      BY <1>2, <2>2
    <3>. QED
      BY <1>5, <3>1 DEF Before
  <2>4. ASSUME NEW i \in DOMAIN toServer'[d] PROVE Before(id, toServer'[d][i])
    <3>1. CASE d # c
      <4>1. toServer'[d] = toServer[d]
        BY <1>4, <2>1, <3>1
      <4>. QED
        BY <2>2, <2>4, <4>1
    <3>2. CASE d = c
      <4>1. toServer'[c][i] = old[i + 1] /\ i + 1 \in DOMAIN old
        <5>1. i \in DOMAIN toServer'[c]
          BY <2>4, <3>2
        <5>. QED
          BY <1>2, <1>3, <1>4, <5>1
      <4>. QED
        BY <2>2, <3>2, <4>1
    <3>. QED
      BY <3>1, <3>2
  <2>. QED
    BY <1>1, <2>2, <2>3, <2>4 DEF Past, id, d
<1>10. StoreKnown' /\ AnswersKnown'
  BY <1>1 DEF IInv, OrderInv, StoreKnown, AnswersKnown, Known
<1>11. WritersInOrder' /\ PartsFit'
  BY <1>1 DEF IInv, WritersInOrder, PartsFit
<1>. QED
  BY <1>6, <1>8, <1>9, <1>10, <1>11 DEF IInv, OrderInv

-----------------------------------------------------------------------------
(* The handlers.  What they have in common: a command is done with. *)

LEMMA CmdFacts ==
  ASSUME IInv, cmds # <<>>
  PROVE  /\ cmd \in Cmds /\ cmd = cmds[1] /\ 1 \in DOMAIN cmds
         /\ cmd.refid[1] = handler /\ handler \in Clients
         /\ cmd.refid[2] \in Nat /\ cmd.refid = <<handler, cmd.refid[2]>>
         /\ cmd.refid[2] =< nsent[handler]
         /\ \A l \in DOMAIN cmd.data : cmd.data[l] = <<handler, cmd.refid[2], l>>
<1>1. /\ cmds \in Seq(Cmds) /\ Len(cmds) \in Nat \ {0}
      /\ DOMAIN cmds = 1 .. Len(cmds) /\ handler \in Clients
  BY LenProperties, EmptySeq DEF IInv, TypeOK
<1>2. 1 \in DOMAIN cmds /\ cmd = cmds[1] /\ cmd \in Cmds
  BY <1>1, HeadTailProperties DEF cmd
<1>. HIDE DEF cmd
<1>3. cmd.refid \in Clients \X (1 .. MaxCmds)
  BY <1>2 DEF Cmds, Ids
<1>4. /\ cmd.refid[1] = handler /\ cmd.refid[2] =< nsent[handler]
      /\ \A l \in DOMAIN cmd.data : cmd.data[l] = <<handler, cmd.refid[2], l>>
  BY <1>2 DEF IInv, OrderInv, Waiting, Sound
<1>. QED
  BY <1>1, <1>2, <1>3, <1>4

(* Nothing that was handled has the RefID of a command that is not. *)
LEMMA CmdNew ==
  ASSUME IInv, cmds # <<>>, NEW j \in DOMAIN log
  PROVE  /\ log[j].refid # cmd.refid
         /\ log[j].refid[1] = handler => log[j].refid[2] < cmd.refid[2]
<1>1. Past(log[j].refid)
  BY DEF IInv, OrderInv, HandledPast
<1>2. log[j].refid[1] = handler => log[j].refid[2] < cmd.refid[2]
  BY <1>1, CmdFacts DEF Past, Before
<1>3. log[j].refid[2] \in Nat
  BY LogIds DEF IInv
<1>. QED
  BY <1>2, <1>3, CmdFacts

LEMMA RestOfCmds ==
  ASSUME IInv, cmds # <<>>, cmds' = Tail(cmds)
  PROVE  /\ cmds' \in Seq(Cmds)
         /\ \A a \in DOMAIN cmds' :
              a + 1 \in DOMAIN cmds /\ cmds'[a] = cmds[a + 1] /\ a \in Nat \ {0}
<1>1. cmds \in Seq(Cmds) /\ Len(cmds) \in Nat /\ DOMAIN cmds = 1 .. Len(cmds)
  BY LenProperties DEF IInv, TypeOK
<1>2. /\ cmds' \in Seq(Cmds) /\ DOMAIN cmds' = 1 .. Len(cmds) - 1
      /\ \A i \in 1 .. Len(cmds) - 1 : cmds'[i] = cmds[i + 1]
  BY <1>1, HeadTailProperties, LenProperties
<1>. QED
  BY <1>1, <1>2

LEMMA LogGrows ==
  ASSUME IInv, cmds # <<>>, log' = log \/ log' = Append(log, cmd)
  PROVE  /\ log' \in Seq(Cmds)
         /\ \A j \in DOMAIN log : j \in DOMAIN log' /\ log'[j] = log[j]
         /\ \A j \in DOMAIN log' :
              \/ j \in DOMAIN log /\ log'[j] = log[j]
              \/ /\ log' = Append(log, cmd) /\ log'[j] = cmd
                 /\ j = Len(log) + 1
<1>1. log \in Seq(Cmds) /\ DOMAIN log = 1 .. Len(log) /\ Len(log) \in Nat
  BY LenProperties DEF IInv, TypeOK
<1>2. cmd \in Cmds
  BY CmdFacts
<1>3. CASE log' = Append(log, cmd)
  <2>1. /\ log' \in Seq(Cmds) /\ DOMAIN log' = 1 .. Len(log) + 1
        /\ \A j \in 1 .. Len(log) : log'[j] = log[j]
        /\ log'[Len(log) + 1] = cmd
    BY <1>1, <1>2, <1>3, AppendProperties, LenProperties
  <2>. QED
    BY <1>1, <1>3, <2>1
<1>. QED
  BY <1>1, <1>3

LEMMA DoneOrder ==
  ASSUME IInv, cmds # <<>>, Shrunk, cmds' = Tail(cmds),
         UNCHANGED <<handler, nsent>>,
         log' = log \/ log' = Append(log, cmd)
  PROVE  Waiting' /\ HandledPast'
<1>1. Waiting /\ HandledPast /\ TypeOK
  BY DEF IInv, OrderInv
<1>2. Waiting'
  <2>1. ASSUME NEW c \in Clients, NEW i \in DOMAIN toServer'[c]
        PROVE  /\ Sound(c, nsent[c], toServer[c][i])'
               /\ \A j \in DOMAIN toServer'[c] :
                    i < j => Follows(toServer[c][i], toServer[c][j])'
    <3>1. ASSUME NEW j \in DOMAIN toServer'[c]
          PROVE  j \in DOMAIN toServer[c] /\ toServer'[c][j] = toServer[c][j]
      BY <1>1, <3>1, ShrunkDomain
    <3>. QED
      BY <1>1, <2>1, <3>1 DEF Waiting
  <2>2. Sound(handler, nsent[handler], cmds')
    <3>1. Sound(handler, nsent[handler], cmds)
      BY <1>1 DEF Waiting
    <3>2. ASSUME NEW a \in DOMAIN cmds', NEW b \in DOMAIN cmds', a < b
          PROVE  cmds'[a].refid[2] < cmds'[b].refid[2]
      <4>1. /\ a + 1 \in DOMAIN cmds /\ cmds'[a] = cmds[a + 1]
            /\ b + 1 \in DOMAIN cmds /\ cmds'[b] = cmds[b + 1]
            /\ a + 1 < b + 1
        BY <3>2, RestOfCmds
      <4>. QED
        BY <3>1, <4>1 DEF Sound
    <3>. QED
      BY <3>1, <3>2, RestOfCmds DEF Sound
  <2>3. ASSUME NEW i \in DOMAIN toServer'[handler]
        PROVE  Follows(cmds', toServer'[handler][i])
    <3>1. /\ i \in DOMAIN toServer[handler]
          /\ toServer'[handler][i] = toServer[handler][i]
      BY <1>1, <2>3, ShrunkDomain DEF TypeOK
    <3>. QED
      BY <1>1, <3>1, RestOfCmds DEF Waiting, Follows
  <2>. QED
    BY <2>1, <2>2, <2>3 DEF Waiting
<1>3. ASSUME NEW id, id[1] \in Clients, id[2] =< nsent[id[1]],
             id[1] = handler => Before(id, cmds'),
             \A i \in DOMAIN toServer[id[1]] : Before(id, toServer[id[1]][i])
      PROVE  Past(id)'
  BY <1>1, <1>3, ShrunkDomain DEF Past
<1>4. ASSUME NEW id, id = cmd.refid PROVE Past(id)'
  <2>1. id[1] = handler /\ handler \in Clients /\ id[2] =< nsent[handler]
    BY <1>4, CmdFacts
  <2>2. Before(id, cmds')
    <3>. SUFFICES ASSUME NEW a \in DOMAIN cmds' PROVE id[2] < cmds'[a].refid[2]
      BY DEF Before
    <3>1. a + 1 \in DOMAIN cmds /\ cmds'[a] = cmds[a + 1] /\ 1 < a + 1
      BY RestOfCmds
    <3>2. 1 \in DOMAIN cmds /\ cmds[1].refid[2] = id[2]
      BY <1>4, CmdFacts
    <3>. QED
      BY <1>1, <3>1, <3>2 DEF Waiting, Sound
  <2>3. \A i \in DOMAIN toServer[handler] : Before(id, toServer[handler][i])
    BY <1>1, <1>4, CmdFacts DEF Waiting, Follows, Before
  <2>. QED
    BY <1>3, <2>1, <2>2, <2>3
<1>5. ASSUME NEW j \in DOMAIN log, NEW id, id = log[j].refid PROVE Past(id)'
  <2>1. Past(id) /\ id[1] \in Clients
    BY <1>1, <1>5, LogIds DEF HandledPast
  <2>2. id[1] = handler => Before(id, cmds')
    BY <2>1, RestOfCmds DEF Past, Before
  <2>. QED
    BY <1>3, <2>1, <2>2 DEF Past
<1>6. HandledPast'
  <2>. SUFFICES ASSUME NEW j \in DOMAIN log', NEW id, id = log'[j].refid
                PROVE  Past(id)'
    BY DEF HandledPast, Past
  <2>1. \/ j \in DOMAIN log /\ log'[j] = log[j]
       \/ log'[j] = cmd
    BY LogGrows
  <2>. QED
    BY <1>4, <1>5, <2>1
<1>. QED
  BY <1>2, <1>6

(* An answer is written behind the earlier ones of its client, or is not. *)
LEMMA RespondEffect ==
  ASSUME IInv, cmds # <<>>, NEW r \in Responses, Respond(r)
  PROVE  /\ Shrunk /\ good' \in [Clients -> BOOLEAN]
         /\ answers' \in [Clients -> Seq(Responses)]
         /\ \A c \in Clients : \A i \in DOMAIN answers'[c] :
              \/ i \in DOMAIN answers[c] /\ answers'[c][i] = answers[c][i]
              \/ answers'[c][i] = r
<1>1. TypeOK /\ handler \in Clients
  BY DEF IInv, TypeOK
<1>2. CASE UNCHANGED <<good, answers, toServer>>
  BY <1>1, <1>2 DEF TypeOK, Shrunk
<1>3. CASE /\ good' = [good EXCEPT ![handler] = FALSE]
           /\ \E kept \in Prefixes(toServer[handler]) :
                toServer' = [toServer EXCEPT ![handler] = kept]
           /\ UNCHANGED answers
  <2>1. Shrunk
    BY <1>1, <1>3, PrefixShrinks
  <2>. QED
    BY <1>1, <1>3, <2>1 DEF TypeOK
<1>4. CASE /\ answers' = [answers EXCEPT ![handler] = Append(@, r)]
           /\ UNCHANGED <<good, toServer>>
  <2>1. /\ answers[handler] \in Seq(Responses)
        /\ DOMAIN answers[handler] = 1 .. Len(answers[handler])
        /\ Len(answers[handler]) \in Nat
    BY <1>1, LenProperties DEF TypeOK
  <2>2. LET s == answers[handler] IN
        /\ Append(s, r) \in Seq(Responses)
        /\ DOMAIN Append(s, r) = 1 .. Len(s) + 1
        /\ \A i \in 1 .. Len(s) : Append(s, r)[i] = s[i]
        /\ Append(s, r)[Len(s) + 1] = r
    BY <2>1, AppendProperties, LenProperties
  <2>3. answers'[handler] = Append(answers[handler], r)
    BY <1>1, <1>4 DEF TypeOK
  <2>4. \A c \in Clients \ {handler} : answers'[c] = answers[c]
    BY <1>1, <1>4 DEF TypeOK
  <2>5. answers' \in [Clients -> Seq(Responses)]
    BY <1>1, <1>4, <2>2 DEF TypeOK
  <2>6. ASSUME NEW i \in DOMAIN answers'[handler]
        PROVE  \/ /\ i \in DOMAIN answers[handler]
                  /\ answers'[handler][i] = answers[handler][i]
               \/ answers'[handler][i] = r
    BY <2>1, <2>2, <2>3, <2>6
  <2>7. Shrunk /\ good' \in [Clients -> BOOLEAN]
    BY <1>1, <1>4 DEF TypeOK, Shrunk
  <2>. QED
    BY <2>4, <2>5, <2>6, <2>7
<1>. QED
  BY <1>2, <1>3, <1>4 DEF Respond

(* What a handler does to the store: each byte it finds there afterwards was
   there before, or is one of its command. *)
Stamped(s) ==
  \A i \in DOMAIN store'[s] :
    \/ /\ s \in DOMAIN store /\ i \in DOMAIN store[s]
       /\ store'[s][i] = store[s][i]
    \/ <<store'[s][i][1], store'[s][i][2]>> = cmd.refid

(* Sources only grow, but for one that is deleted. *)
Grows(s) ==
  \/ /\ cmd.cmdid = "DELETE"
     /\ s = cmd.source
  \/ /\ s \in DOMAIN store'
     /\ Len(store[s]) =< Len(store'[s])
     /\ \A i \in 1 .. Len(store[s]) : store'[s][i] = store[s][i]

(* The bytes d are those of source s at the offset o. *)
Holds(st, s, o, d) ==
  /\ s \in DOMAIN st
  /\ \A n \in DOMAIN d : o + n =< Len(st[s]) /\ st[s][o + n] = d[n]

LEMMA HandlerOrder ==
  ASSUME IInv, cmds # <<>>, NEW r \in Responses, r.refid = cmd.refid,
         Respond(r), Done, UNCHANGED <<handler, clientVars>>,
         DOMAIN store' \subseteq Sources,
         \A s \in DOMAIN store' : store'[s] \in Seq(Bytes) /\ Stamped(s)
  PROVE  TypeOK' /\ OrderInv'
<1>1. /\ Shrunk /\ good' \in [Clients -> BOOLEAN]
      /\ answers' \in [Clients -> Seq(Responses)]
      /\ \A c \in Clients : \A i \in DOMAIN answers'[c] :
           \/ i \in DOMAIN answers[c] /\ answers'[c][i] = answers[c][i]
           \/ answers'[c][i] = r
  BY RespondEffect
<1>2. /\ cmds' = Tail(cmds) /\ log' = Append(log, cmd)
      /\ UNCHANGED <<handler, nsent, left>>
  BY DEF Done, clientVars
<1>3. cmds' \in Seq(Cmds)
  BY <1>2, RestOfCmds
<1>4. TypeOK'
  BY <1>1, <1>2, <1>3, LogGrows DEF IInv, TypeOK, Shrunk
<1>5. Waiting' /\ HandledPast'
  BY <1>1, <1>2, DoneOrder
<1>6. ASSUME NEW id, Known(id) \/ id = cmd.refid PROVE Known(id)'
  <2>1. CASE Known(id)
    BY <1>2, <2>1, LogGrows DEF Known
  <2>2. CASE id = cmd.refid
    <3>1. /\ log \in Seq(Cmds) /\ cmd \in Cmds
      BY CmdFacts DEF IInv, TypeOK
    <3>2. /\ Len(log) + 1 \in DOMAIN log' /\ log'[Len(log) + 1] = cmd
      BY <1>2, <3>1, AppendProperties, LenProperties
    <3>. QED
      BY <2>2, <3>2 DEF Known
  <2>. QED
    BY <1>6, <2>1, <2>2
<1>7. StoreKnown'
  <2>. SUFFICES ASSUME NEW s \in DOMAIN store', NEW i \in DOMAIN store'[s],
                       NEW id, id = <<store'[s][i][1], store'[s][i][2]>>
                PROVE  Known(id)'
    BY DEF StoreKnown, Known
  <2>1. Known(id) \/ id = cmd.refid
    BY DEF Stamped, IInv, OrderInv, StoreKnown
  <2>. QED
    BY <1>6, <2>1
<1>8. AnswersKnown'
  <2>. SUFFICES ASSUME NEW c \in Clients, NEW i \in DOMAIN answers'[c],
                       NEW id, id = answers'[c][i].refid
                PROVE  Known(id)'
    BY DEF AnswersKnown, Known
  <2>1. Known(id) \/ id = cmd.refid
    BY <1>1 DEF IInv, OrderInv, AnswersKnown
  <2>. QED
    BY <1>6, <2>1
<1>. QED
  BY <1>4, <1>5, <1>7, <1>8 DEF OrderInv

LEMMA HandlerParts ==
  ASSUME IInv, cmds # <<>>, NEW r \in Responses, r.refid = cmd.refid,
         Respond(r), Done,
         \A s \in DOMAIN store : Grows(s),
         \A s \in DOMAIN store' : store'[s] \in Seq(Bytes),
         cmd.cmdid = "READ" /\ r.result = "SUCCESS"
           => Holds(store', cmd.source, cmd.offset, r.data)
  PROVE  PartsFit'
<1>1. \A c \in Clients : \A i \in DOMAIN answers'[c] :
        \/ i \in DOMAIN answers[c] /\ answers'[c][i] = answers[c][i]
        \/ answers'[c][i] = r
  BY RespondEffect
<1>2. log' = Append(log, cmd)
  BY DEF Done
<1>3. /\ log \in Seq(Cmds) /\ DOMAIN log = 1 .. Len(log) /\ Len(log) \in Nat
      /\ log' \in Seq(Cmds) /\ Len(log') = Len(log) + 1
      /\ DOMAIN log' = 1 .. Len(log) + 1
      /\ log'[Len(log) + 1] = cmd
      /\ \A j \in 1 .. Len(log) : log'[j] = log[j]
  <2>1. log \in Seq(Cmds) /\ cmd \in Cmds
    BY CmdFacts DEF IInv, TypeOK
  <2>. QED
    BY <1>2, <2>1, AppendProperties, LenProperties
<1>. SUFFICES ASSUME NEW c \in Clients, NEW i \in DOMAIN answers'[c],
                     NEW j \in DOMAIN log',
                     NEW a, a = answers'[c][i], NEW k, k = log'[j],
                     k.refid = a.refid, k.cmdid = "READ", a.result = "SUCCESS",
                     \A l \in j + 1 .. Len(log') :
                       ~(log'[l].cmdid = "DELETE" /\ log'[l].source = k.source)
              PROVE  Holds(store', k.source, k.offset, a.data)
  BY DEF PartsFit, Holds
<1>4. CASE a = r
  <2>1. ~(j \in DOMAIN log)
    BY <1>3, <1>4, CmdNew
  <2>2. k = cmd
    BY <1>3, <2>1
  <2>. QED
    BY <1>4, <2>2
<1>5. CASE i \in DOMAIN answers[c] /\ a = answers[c][i]
  <2>1. a.refid # cmd.refid
    <3>1. Known(a.refid)
      BY <1>5 DEF IInv, OrderInv, AnswersKnown
    <3>. QED
      BY <3>1, CmdNew DEF Known
  <2>2. j \in DOMAIN log /\ k = log[j]
    BY <1>3, <2>1
  <2>3. ~(cmd.cmdid = "DELETE" /\ cmd.source = k.source)
    BY <1>3, <2>2
  <2>4. \A l \in j + 1 .. Len(log) :
          ~(log[l].cmdid = "DELETE" /\ log[l].source = k.source)
    BY <1>3, <2>2
  <2>5. Holds(store, k.source, k.offset, a.data)
    BY <1>5, <2>2, <2>4 DEF IInv, PartsFit, Holds
  <2>6. Grows(k.source)
    BY <2>5 DEF Holds
  <2>7. /\ k.source \in DOMAIN store'
        /\ Len(store[k.source]) =< Len(store'[k.source])
        /\ \A l \in 1 .. Len(store[k.source]) :
             store'[k.source][l] = store[k.source][l]
    BY <2>3, <2>6 DEF Grows
  <2>8. /\ Len(store[k.source]) \in Nat /\ Len(store'[k.source]) \in Nat
    BY <2>5, <2>7, LenProperties DEF Holds, IInv, TypeOK
  <2>9. k.offset \in Nat /\ \A n \in DOMAIN a.data : n \in Nat \ {0}
    <3>1. k \in Cmds /\ a \in Responses
      BY <1>3, <1>5, <2>2, ElementOfSeq, LenProperties DEF IInv, TypeOK
    <3>2. k.offset \in Nat /\ a.data \in Seq(Bytes)
      BY <3>1 DEF Cmds, Responses
    <3>. QED
      BY <3>2, LenProperties
  <2>10. ASSUME NEW n \in DOMAIN a.data
         PROVE  /\ k.offset + n =< Len(store'[k.source])
                /\ store'[k.source][k.offset + n] = a.data[n]
    <3>1. /\ k.offset + n =< Len(store[k.source])
          /\ store[k.source][k.offset + n] = a.data[n]
      BY <2>5, <2>10 DEF Holds
    <3>2. k.offset + n \in 1 .. Len(store[k.source])
      BY <2>8, <2>9, <2>10, <3>1
    <3>. QED
      BY <2>7, <2>8, <3>1, <3>2
  <2>. QED
    BY <2>7, <2>10 DEF Holds
<1>. QED
  BY <1>1, <1>4, <1>5

-----------------------------------------------------------------------------
(* Each handler. *)

LEMMA NoBytes == <<>> \in Seq(Bytes) /\ DOMAIN <<>> = {}
  OBVIOUS

LEMMA AResponse ==
  ASSUME IInv, cmds # <<>>, NEW result \in {"SUCCESS", "ERROR"},
         NEW d \in Seq(Bytes), NEW n \in Nat
  PROVE  /\ Response(result, d, n) \in Responses
         /\ Response(result, d, n).refid = cmd.refid
         /\ Response(result, d, n).result = result
         /\ Response(result, d, n).data = d
<1>1. cmd.refid \in Ids
  BY CmdFacts DEF Cmds
<1>. QED
  BY <1>1 DEF Response, Responses

LEMMA ABareResponse ==
  ASSUME IInv, cmds # <<>>, NEW result \in {"SUCCESS", "ERROR"}, NEW n \in Nat
  PROVE  /\ Response(result, <<>>, n) \in Responses
         /\ Response(result, <<>>, n).refid = cmd.refid
         /\ Response(result, <<>>, n).result = result
<1>1. \A d \in Seq(Bytes) :
        /\ Response(result, d, n) \in Responses
        /\ Response(result, d, n).refid = cmd.refid
        /\ Response(result, d, n).result = result
  BY AResponse
<1>2. <<>> \in Seq(Bytes)
  BY NoBytes
<1>. QED
  BY <1>1, <1>2, Zenon

LEMMA OldBytes ==
  ASSUME TypeOK
  PROVE  Old \in Seq(Bytes) /\ Len(Old) \in Nat /\ DOMAIN Old = 1 .. Len(Old)
<1>1. Old \in Seq(Bytes)
  BY NoBytes DEF Old, Stored, TypeOK
<1>. QED
  BY <1>1, LenProperties

(* A handler that leaves the store alone. *)
LEMMA ReadOnly ==
  ASSUME IInv, cmds # <<>>, NEW r \in Responses, r.refid = cmd.refid,
         Respond(r), Done, UNCHANGED <<store, handler, clientVars>>,
         cmd.cmdid = "READ" /\ r.result = "SUCCESS"
           => Holds(store, cmd.source, cmd.offset, r.data)
  PROVE  IInv'
<1>1. /\ DOMAIN store' \subseteq Sources
      /\ \A s \in DOMAIN store' : store'[s] \in Seq(Bytes) /\ Stamped(s)
  BY DEF IInv, TypeOK, Stamped
<1>2. \A s \in DOMAIN store : Grows(s)
  <2>1. \A s \in DOMAIN store : Len(store[s]) \in Nat
    BY LenProperties DEF IInv, TypeOK
  <2>. QED
    BY <2>1 DEF Grows
<1>3. WritersInOrder'
  BY DEF IInv, WritersInOrder
<1>. QED
  BY <1>1, <1>2, <1>3, HandlerOrder, HandlerParts DEF IInv

LEMMA ReadKeeps == ASSUME IInv, OnRecvCmdRead PROVE IInv'
<1>. DEFINE o == cmd.offset
            m == IF o + cmd.length < Len(Old) THEN o + cmd.length ELSE Len(Old)
<1>1. /\ cmds # <<>> /\ Done /\ UNCHANGED <<store, handler, clientVars>>
      /\ Respond(IF Stored THEN Response("SUCCESS", Part(Old), 0)
                 ELSE Response("ERROR", <<>>, 0))
  BY DEF OnRecvCmdRead
<1>2. o \in Nat /\ cmd.length \in Nat
  BY <1>1, CmdFacts DEF Cmds
<1>3. Old \in Seq(Bytes) /\ Len(Old) \in Nat
  BY OldBytes DEF IInv
<1>4. m \in Nat /\ m =< Len(Old)
  BY <1>2, <1>3
<1>5. Part(Old) = SubSeq(Old, o + 1, m)
  BY DEF Part
<1>. HIDE DEF o, m
<1>6. \A i \in o + 1 .. m : Old[i] \in Bytes
  BY <1>2, <1>3, <1>4, ElementOfSeq
<1>7. /\ Part(Old) \in Seq(Bytes)
      /\ Len(Part(Old)) = (IF o + 1 =< m THEN m - (o + 1) + 1 ELSE 0)
      /\ \A i \in 1 .. m - (o + 1) + 1 : Part(Old)[i] = Old[o + 1 + i - 1]
  BY <1>2, <1>4, <1>5, <1>6, SubSeqProperties
<1>8. ASSUME NEW n \in DOMAIN Part(Old)
      PROVE  o + n =< Len(Old) /\ Old[o + n] = Part(Old)[n]
  <2>1. n \in 1 .. Len(Part(Old))
    BY <1>7, LenProperties
  <2>2. o + 1 =< m /\ n \in 1 .. m - (o + 1) + 1
    BY <1>2, <1>4, <1>7, <2>1
  <2>3. o + n = o + 1 + n - 1 /\ o + n =< Len(Old)
    BY <1>2, <1>3, <1>4, <2>2
  <2>. QED
    BY <1>7, <2>2, <2>3
<1>9. CASE Stored
  <2>. DEFINE r == Response("SUCCESS", Part(Old), 0)
  <2>1. /\ r \in Responses /\ r.refid = cmd.refid /\ r.data = Part(Old)
    BY <1>1, <1>7, AResponse
  <2>2. Respond(r)
    BY <1>1, <1>9
  <2>. HIDE DEF r
  <2>3. Holds(store, cmd.source, cmd.offset, r.data)
    BY <1>8, <1>9, <2>1 DEF Holds, Stored, Old, o
  <2>. QED
    BY <1>1, <2>1, <2>2, <2>3, ReadOnly
<1>10. CASE ~Stored
  <2>. DEFINE r == Response("ERROR", <<>>, 0)
  <2>1. /\ r \in Responses /\ r.refid = cmd.refid /\ r.result = "ERROR"
    BY <1>1, ABareResponse
  <2>2. Respond(r)
    BY <1>1, <1>10
  <2>. HIDE DEF r
  <2>. QED
    BY <1>1, <2>1, <2>2, ReadOnly
<1>. QED
  BY <1>9, <1>10

LEMMA LengthKeeps == ASSUME IInv, OnRecvCmdLength PROVE IInv'
<1>1. /\ cmds # <<>> /\ Done /\ UNCHANGED <<store, handler, clientVars>>
      /\ cmd.cmdid # "READ"
  BY DEF OnRecvCmdLength
<1>2. PICK result \in {"SUCCESS", "ERROR"}, n \in Nat :
        Respond(Response(result, <<>>, n))
  BY OldBytes DEF OnRecvCmdLength, IInv
<1>3. /\ Response(result, <<>>, n) \in Responses
      /\ Response(result, <<>>, n).refid = cmd.refid
  BY <1>1, ABareResponse
<1>. QED
  BY <1>1, <1>2, <1>3, ReadOnly

(* The new bytes come behind those of the source, and of its writer's. *)
LEMMA WriteKeeps == ASSUME IInv, OnRecvCmdWrite PROVE IInv'
<1>1. /\ cmds # <<>> /\ Done /\ UNCHANGED <<handler, clientVars>>
      /\ Respond(Response("SUCCESS", <<>>, 0)) /\ cmd.cmdid = "WRITE"
      /\ store' = [s \in DOMAIN store \cup {cmd.source} |->
                     IF s = cmd.source THEN Old \o cmd.data ELSE store[s]]
  BY DEF OnRecvCmdWrite
<1>. DEFINE src == cmd.source
            d == cmd.data
            num == cmd.refid[2]
<1>2. /\ src \in Sources /\ d \in Seq(Bytes) /\ num \in Nat
      /\ cmd.refid = <<handler, num>>
      /\ \A l \in DOMAIN d : d[l] = <<handler, num, l>>
  BY <1>1, CmdFacts DEF Cmds
<1>3. Old \in Seq(Bytes) /\ Len(Old) \in Nat /\ DOMAIN Old = 1 .. Len(Old)
  BY OldBytes DEF IInv
<1>4. Len(d) \in Nat /\ DOMAIN d = 1 .. Len(d)
  BY <1>2, LenProperties
<1>. HIDE DEF d, num
<1>5. /\ store'[src] = Old \o d /\ src \in DOMAIN store'
      /\ \A s \in DOMAIN store \ {src} : s \in DOMAIN store' /\ store'[s] = store[s]
      /\ DOMAIN store' = DOMAIN store \cup {src}
  BY <1>1 DEF d
<1>. DEFINE new == store'[src]
<1>6. /\ new \in Seq(Bytes) /\ Len(new) = Len(Old) + Len(d)
      /\ DOMAIN new = 1 .. Len(Old) + Len(d)
      /\ \A i \in 1 .. Len(Old) : new[i] = Old[i]
      /\ \A i \in DOMAIN new \ 1 .. Len(Old) :
           /\ i - Len(Old) \in DOMAIN d
           /\ new[i] = <<handler, num, i - Len(Old)>>
  <2>1. /\ new \in Seq(Bytes) /\ Len(new) = Len(Old) + Len(d)
        /\ \A i \in 1 .. Len(Old) + Len(d) :
             new[i] = IF i =< Len(Old) THEN Old[i] ELSE d[i - Len(Old)]
    BY <1>2, <1>3, <1>5, ConcatProperties
  <2>2. DOMAIN new = 1 .. Len(Old) + Len(d)
    BY <2>1, LenProperties
  <2>3. \A i \in 1 .. Len(Old) : new[i] = Old[i]
    BY <1>3, <1>4, <2>1
  <2>4. ASSUME NEW i \in DOMAIN new \ 1 .. Len(Old)
        PROVE  i - Len(Old) \in DOMAIN d /\ new[i] = d[i - Len(Old)]
    BY <1>3, <1>4, <2>1, <2>2, <2>4
  <2>. QED
    BY <1>2, <2>1, <2>2, <2>3, <2>4
<1>. HIDE DEF new
<1>7. ASSUME NEW i \in 1 .. Len(Old)
      PROVE  src \in DOMAIN store /\ Old = store[src] /\ i \in DOMAIN store[src]
  <2>1. Stored
    BY <1>3, <1>7, NoBytes DEF Old
  <2>. QED
    BY <1>3, <2>1 DEF Old, Stored
<1>8. ASSUME NEW s \in DOMAIN store' PROVE store'[s] \in Seq(Bytes) /\ Stamped(s)
  <2>1. CASE s = src
    <3>1. ASSUME NEW i \in DOMAIN new
          PROVE  \/ /\ src \in DOMAIN store /\ i \in DOMAIN store[src]
                    /\ new[i] = store[src][i]
                 \/ <<new[i][1], new[i][2]>> = cmd.refid
      <4>1. CASE i \in 1 .. Len(Old)
        BY <1>6, <1>7, <4>1
      <4>2. CASE i \notin 1 .. Len(Old)
        BY <1>2, <1>6, <3>1, <4>2
      <4>. QED
        BY <4>1, <4>2
    <3>. QED
      BY <1>6, <2>1, <3>1 DEF Stamped, new
  <2>2. CASE s # src
    BY <1>5, <2>2 DEF IInv, TypeOK, Stamped
  <2>. QED
    BY <2>1, <2>2
<1>9. ASSUME NEW s \in DOMAIN store PROVE Grows(s)
  <2>1. Len(store[s]) \in Nat
    BY LenProperties DEF IInv, TypeOK
  <2>2. CASE s = src
    <3>1. Old = store[src]
      BY <2>2 DEF Old, Stored
    <3>. QED
      BY <1>3, <1>4, <1>5, <1>6, <2>2, <3>1 DEF Grows, new
  <2>3. CASE s # src
    BY <1>5, <2>1, <2>3 DEF Grows
  <2>. QED
    BY <2>2, <2>3
<1>10. /\ Response("SUCCESS", <<>>, 0) \in Responses
       /\ Response("SUCCESS", <<>>, 0).refid = cmd.refid
  BY <1>1, ABareResponse
<1>11. DOMAIN store' \subseteq Sources
  BY <1>2, <1>5 DEF IInv, TypeOK
<1>12. TypeOK' /\ OrderInv'
  BY <1>1, <1>8, <1>10, <1>11, HandlerOrder
<1>13. PartsFit'
  BY <1>1, <1>8, <1>9, <1>10, HandlerParts
<1>14. WritersInOrder'
  <2>. SUFFICES ASSUME NEW s \in DOMAIN store',
                       NEW i \in DOMAIN store'[s], NEW j \in DOMAIN store'[s],
                       i < j, store'[s][i][1] = store'[s][j][1]
                PROVE  \/ store'[s][i][2] < store'[s][j][2]
                       \/ /\ store'[s][i][2] = store'[s][j][2]
                          /\ store'[s][i][3] < store'[s][j][3]
    BY DEF WritersInOrder
  <2>1. CASE s # src
    BY <1>5, <2>1 DEF IInv, WritersInOrder
  <2>2. CASE s = src
    <3>1. /\ i \in DOMAIN new /\ j \in DOMAIN new
          /\ new[i][1] = new[j][1]
      BY <2>2 DEF new
    <3>2. CASE j \in 1 .. Len(Old)
      <4>1. i \in 1 .. Len(Old)
        BY <1>3, <1>6, <3>1, <3>2
      <4>2. new[i] = store[src][i] /\ new[j] = store[src][j]
        BY <1>6, <1>7, <3>2, <4>1
      <4>. QED
        BY <1>7, <2>2, <3>1, <3>2, <4>1, <4>2 DEF IInv, WritersInOrder, new
    <3>3. CASE j \notin 1 .. Len(Old) /\ i \in 1 .. Len(Old)
      <4>1. new[j] = <<handler, num, j - Len(Old)>>
        BY <1>6, <3>1, <3>3
      <4>2. /\ src \in DOMAIN store /\ i \in DOMAIN store[src]
            /\ new[i] = store[src][i]
        BY <1>6, <1>7, <3>3
      <4>3. Known(<<new[i][1], new[i][2]>>)
        BY <4>2 DEF IInv, OrderInv, StoreKnown
      <4>4. new[i][1] = handler
        BY <3>1, <4>1
      <4>5. new[i][2] < num
        BY <1>1, <4>3, <4>4, CmdNew DEF Known, num
      <4>. QED
        BY <2>2, <4>1, <4>5 DEF new
    <3>4. CASE j \notin 1 .. Len(Old) /\ i \notin 1 .. Len(Old)
      <4>1. /\ new[i] = <<handler, num, i - Len(Old)>>
            /\ new[j] = <<handler, num, j - Len(Old)>>
        BY <1>6, <3>1, <3>4
      <4>2. i - Len(Old) < j - Len(Old)
        BY <1>3, <1>6, <3>1
      <4>. QED
        BY <2>2, <4>1, <4>2 DEF new
    <3>. QED
      BY <3>2, <3>3, <3>4
  <2>. QED
    BY <2>1, <2>2
<1>. QED
  BY <1>12, <1>13, <1>14 DEF IInv

LEMMA DeleteKeeps == ASSUME IInv, OnRecvCmdDelete PROVE IInv'
<1>1. /\ cmds # <<>> /\ Done /\ UNCHANGED <<handler, clientVars>>
      /\ cmd.cmdid = "DELETE"
      /\ store' = [s \in DOMAIN store \ {cmd.source} |-> store[s]]
  BY DEF OnRecvCmdDelete
<1>2. PICK result \in {"SUCCESS", "ERROR"} : Respond(Response(result, <<>>, 0))
  BY DEF OnRecvCmdDelete
<1>3. /\ Response(result, <<>>, 0) \in Responses
      /\ Response(result, <<>>, 0).refid = cmd.refid
  BY <1>1, ABareResponse
<1>4. /\ DOMAIN store' \subseteq Sources
      /\ \A s \in DOMAIN store' : store'[s] \in Seq(Bytes) /\ Stamped(s)
  BY <1>1 DEF IInv, TypeOK, Stamped
<1>5. \A s \in DOMAIN store : Grows(s)
  <2>1. \A s \in DOMAIN store : Len(store[s]) \in Nat
    BY LenProperties DEF IInv, TypeOK
  <2>. QED
    BY <1>1, <2>1 DEF Grows
<1>6. TypeOK' /\ OrderInv'
  BY <1>1, <1>2, <1>3, <1>4, HandlerOrder
<1>7. PartsFit'
  BY <1>1, <1>2, <1>3, <1>4, <1>5, HandlerParts
<1>8. WritersInOrder'
  BY <1>1 DEF IInv, WritersInOrder
<1>. QED
  BY <1>6, <1>7, <1>8 DEF IInv

LEMMA OtherKeeps == ASSUME IInv, OnRecvCmdOther PROVE IInv'
<1>1. /\ cmds # <<>> /\ cmds' = Tail(cmds)
      /\ UNCHANGED <<store, toServer, handler, good, nsent, left, log, answers>>
  BY DEF OnRecvCmdOther, clientVars
<1>2. Shrunk
  <2>1. \A c \in Clients : Len(toServer[c]) \in Nat
    BY LenProperties DEF IInv, TypeOK
  <2>. QED
    BY <1>1, <2>1 DEF IInv, TypeOK, Shrunk
<1>3. Waiting' /\ HandledPast'
  BY <1>1, <1>2, DoneOrder
<1>4. TypeOK'
  BY <1>1, RestOfCmds DEF IInv, TypeOK
<1>5. StoreKnown' /\ AnswersKnown'
  BY <1>1 DEF IInv, OrderInv, StoreKnown, AnswersKnown, Known
<1>6. WritersInOrder' /\ PartsFit'
  BY <1>1 DEF IInv, WritersInOrder, PartsFit
<1>. QED
  BY <1>3, <1>4, <1>5, <1>6 DEF IInv, OrderInv

-----------------------------------------------------------------------------
LEMMA StutterKeeps == ASSUME IInv, UNCHANGED vars PROVE IInv'
<1>1. UNCHANGED <<store, toServer, handler, cmds, good, nsent, left, log, answers>>
  BY DEF vars, clientVars
<1>2. TypeOK' /\ Shrunk
  <2>1. \A c \in Clients : Len(toServer[c]) \in Nat
    BY LenProperties DEF IInv, TypeOK
  <2>. QED
    BY <1>1, <2>1 DEF IInv, TypeOK, Shrunk
<1>3. OrderInv'
  BY <1>1, <1>2, OrderShrinks DEF IInv
<1>4. WritersInOrder' /\ PartsFit'
  BY <1>1 DEF IInv, WritersInOrder, PartsFit
<1>. QED
  BY <1>2, <1>3, <1>4 DEF IInv

LEMMA StepKeeps == IInv /\ [Next]_vars => IInv'
<1>. SUFFICES ASSUME IInv, [Next]_vars PROVE IInv'
  OBVIOUS
<1>1. CASE ClientStep
  BY <1>1, LeaveKeeps, SendPacketKeeps DEF ClientStep
<1>2. CASE ServerStep
  BY <1>2, OnRecvPacketKeeps, ReadGoneKeeps, WriteKeeps, ReadKeeps,
     DeleteKeeps, LengthKeeps, OtherKeeps DEF ServerStep
<1>3. CASE UNCHANGED vars
  BY <1>3, StutterKeeps
<1>. QED
  BY <1>1, <1>2, <1>3 DEF Next

LEMMA Invariant == Spec => []IInv
  BY InitHolds, StepKeeps, PTL DEF Spec

(* Whatever clients send, and whatever is lost, every variable of the remote
   store has its type. *)
THEOREM RemoteTypes == Spec => []TypeOK
<1>1. IInv => TypeOK
  BY DEF IInv
<1>. QED
  BY Invariant, <1>1, PTL

(* A writer finds its bytes in a source in the order it sent them and each
   once, for any clients, packets, deletions and lost connections. *)
THEOREM WritersOrdered == Spec => []WritersInOrder
<1>1. IInv => WritersInOrder
  BY DEF IInv
<1>. QED
  BY Invariant, <1>1, PTL

(* What was read of a source that has not been deleted is what it holds. *)
THEOREM PartsStillFit == Spec => []PartsFit
<1>1. IInv => PartsFit
  BY DEF IInv
<1>. QED
  BY Invariant, <1>1, PTL

-----------------------------------------------------------------------------
(* Answers, where what is read fits a packet.  While its connection stands a  *)
(* client has the answers to all its commands that were handled; an answer    *)
(* that is not sent ends the connection.                                      *)

Fits(p) == \A a \in DOMAIN p : p[a].cmdid = "READ" => p[a].length =< MaxPart

FitInv ==
  /\ \A c \in Clients : \A i \in DOMAIN toServer[c] : Fits(toServer[c][i])
  /\ Fits(cmds)

LEMMA FitInit == Init => FitInv
  BY DEF Init, FitInv, Fits

(* A packet that is new fits because ReadsFit says so; all others were there. *)
LEMMA FitStep ==
  ASSUME ReadsFit, IInv, IInv', FitInv, [Next]_vars PROVE FitInv'
<1>1. TypeOK /\ TypeOK'
  BY DEF IInv
<1>2. CASE Shrunk /\ Fits(cmds')
  <2>1. ASSUME NEW c \in Clients, NEW i \in DOMAIN toServer'[c]
        PROVE  Fits(toServer'[c][i])
    <3>1. i \in DOMAIN toServer[c] /\ toServer'[c][i] = toServer[c][i]
      BY <1>1, <1>2, <2>1, ShrunkDomain
    <3>. QED
      BY <3>1 DEF FitInv
  <2>. QED
    BY <1>2, <2>1 DEF FitInv, Fits
<1>3. CASE UNCHANGED toServer /\ Fits(cmds')
  BY <1>3 DEF FitInv, Fits
<1>4. ASSUME NEW c \in Clients, NEW packet \in Packets, SendPacket(c, packet)
      PROVE  FitInv'
  <2>1. /\ toServer[c] \in Seq(Seq(Cmds)) /\ Sent(c, packet) \in Seq(Cmds)
        /\ toServer' = [toServer EXCEPT ![c] = Append(toServer[c], Sent(c, packet))]
        /\ UNCHANGED cmds
    BY <1>1, <1>4, NewPacket DEF TypeOK, SendPacket, Sent
  <2>2. /\ DOMAIN Sent(c, packet) = DOMAIN packet
        /\ \A i \in DOMAIN packet :
             /\ Sent(c, packet)[i].cmdid = packet[i].cmdid
             /\ Sent(c, packet)[i].length = packet[i].length
    BY DEF Sent, Cmd
  <2>3. Fits(Sent(c, packet))
    BY <2>2 DEF Fits, ReadsFit
  <2>4. ASSUME NEW d \in Clients, NEW i \in DOMAIN toServer'[d]
        PROVE  Fits(toServer'[d][i])
    <3>1. CASE d # c
      <4>1. toServer'[d] = toServer[d]
        BY <1>1, <2>1, <3>1 DEF TypeOK
      <4>. QED
        BY <2>4, <4>1 DEF FitInv
    <3>2. CASE d = c
      <4>. DEFINE old == toServer[c]
                  p == Sent(c, packet)
      <4>1. toServer'[c] = Append(old, p)
        BY <1>1, <2>1 DEF TypeOK
      <4>2. \/ i \in DOMAIN old /\ Append(old, p)[i] = old[i]
           \/ Append(old, p)[i] = p
        <5>1. /\ DOMAIN Append(old, p) = 1 .. Len(old) + 1 /\ Len(old) \in Nat
              /\ DOMAIN old = 1 .. Len(old)
              /\ \A j \in 1 .. Len(old) : Append(old, p)[j] = old[j]
              /\ Append(old, p)[Len(old) + 1] = p
          BY <2>1, AppendProperties, LenProperties
        <5>. HIDE DEF old, p
        <5>. QED
          BY <2>4, <3>2, <4>1, <5>1
      <4>3. \A j \in DOMAIN old : Fits(old[j])
        BY DEF FitInv
      <4>. HIDE DEF old, p
      <4>4. Fits(p)
        BY <2>3 DEF p
      <4>. QED
        BY <3>2, <4>1, <4>2, <4>3, <4>4
    <3>. QED
      BY <3>1, <3>2
  <2>. QED
    BY <2>1, <2>4 DEF FitInv, Fits
<1>5. ASSUME NEW c \in Clients, Leave(c) PROVE FitInv'
  <2>1. Shrunk /\ UNCHANGED cmds
    BY <1>1, <1>5, PrefixShrinks DEF Leave
  <2>. QED
    BY <1>2, <2>1 DEF FitInv, Fits
<1>6. ASSUME NEW c \in Clients, OnRecvPacket(c) PROVE FitInv'
  <2>. DEFINE old == toServer[c]
  <2>1. /\ old # <<>> /\ cmds' = Decode(Head(old)) /\ old \in Seq(Seq(Cmds))
        /\ toServer' = [toServer EXCEPT ![c] = Tail(old)]
    BY <1>1, <1>6 DEF OnRecvPacket, TypeOK
  <2>2. /\ Len(old) \in Nat /\ DOMAIN old = 1 .. Len(old)
        /\ DOMAIN Tail(old) = 1 .. Len(old) - 1
        /\ \A i \in 1 .. Len(old) - 1 : Tail(old)[i] = old[i + 1]
        /\ 1 \in DOMAIN old /\ Head(old) = old[1] /\ Head(old) \in Seq(Cmds)
    BY <2>1, HeadTailProperties, LenProperties, EmptySeq
  <2>3. Fits(Head(old))
    BY <2>2 DEF FitInv
  <2>4. Fits(cmds')
    <3>. DEFINE p == Head(old)
    <3>1. /\ Len(Decode(p)) =< Len(p) /\ Decode(p) \in Seq(Cmds)
          /\ \A a \in 1 .. Len(Decode(p)) : Decode(p)[a] = p[a]
      BY <2>2, DecodePrefix
    <3>2. /\ DOMAIN Decode(p) = 1 .. Len(Decode(p)) /\ Len(Decode(p)) \in Nat
          /\ DOMAIN p = 1 .. Len(p) /\ Len(p) \in Nat
      BY <2>2, <3>1, LenProperties
    <3>3. \A a \in DOMAIN Decode(p) : a \in DOMAIN p
      BY <3>1, <3>2
    <3>. QED
      BY <2>1, <2>3, <3>1, <3>2, <3>3 DEF Fits
  <2>5. ASSUME NEW d \in Clients, NEW i \in DOMAIN toServer'[d]
        PROVE  Fits(toServer'[d][i])
    <3>1. CASE d # c
      <4>1. toServer'[d] = toServer[d]
        BY <1>1, <2>1, <3>1 DEF TypeOK
      <4>. QED
        BY <2>5, <4>1 DEF FitInv
    <3>2. CASE d = c
      <4>1. toServer'[c] = Tail(old)
        BY <1>1, <2>1 DEF TypeOK
      <4>2. i + 1 \in DOMAIN old /\ toServer'[c][i] = old[i + 1]
        BY <2>2, <2>5, <3>2, <4>1
      <4>. QED
        BY <3>2, <4>2 DEF FitInv
    <3>. QED
      BY <3>1, <3>2
  <2>. QED
    BY <2>4, <2>5 DEF FitInv, Fits
<1>7. ASSUME cmds # <<>>, cmds' = Tail(cmds) PROVE Fits(cmds')
  BY <1>7, RestOfCmds DEF FitInv, Fits
<1>8. CASE OnRecvCmdWrite \/ OnRecvCmdRead \/ OnRecvCmdDelete \/ OnRecvCmdLength
  <2>1. /\ cmds # <<>> /\ cmds' = Tail(cmds)
        /\ \/ UNCHANGED toServer
           \/ \E kept \in Prefixes(toServer[handler]) :
                toServer' = [toServer EXCEPT ![handler] = kept]
    BY <1>8 DEF OnRecvCmdWrite, OnRecvCmdRead, OnRecvCmdDelete, OnRecvCmdLength,
       Done, Respond
  <2>2. handler \in Clients
    BY <1>1 DEF TypeOK
  <2>. QED
    BY <1>1, <1>2, <1>3, <1>7, <2>1, <2>2, PrefixShrinks
<1>9. CASE OnRecvCmdOther
  BY <1>3, <1>7, <1>9 DEF OnRecvCmdOther
<1>10. ASSUME NEW c \in Clients, ReadGone(c) PROVE FitInv'
  BY <1>10 DEF ReadGone, FitInv, Fits
<1>11. CASE UNCHANGED vars
  BY <1>11 DEF vars, FitInv, Fits
<1>. QED
  BY <1>4, <1>5, <1>6, <1>8, <1>9, <1>10, <1>11
     DEF Next, ClientStep, ServerStep

Handles ==
  OnRecvCmdWrite \/ OnRecvCmdRead \/ OnRecvCmdDelete \/ OnRecvCmdLength

(* What the handler of a command answers. *)
Reply ==
  CASE cmd.cmdid = "WRITE"  -> Response("SUCCESS", <<>>, 0)
    [] cmd.cmdid = "READ"   -> IF Stored THEN Response("SUCCESS", Part(Old), 0)
                               ELSE Response("ERROR", <<>>, 0)
    [] cmd.cmdid = "DELETE" ->
         Response(IF Stored THEN "SUCCESS" ELSE "ERROR", <<>>, 0)
    [] cmd.cmdid = "LENGTH" -> IF Stored THEN Response("SUCCESS", <<>>, Len(Old))
                               ELSE Response("ERROR", <<>>, 0)

LEMMA ReplyOf ==
  ASSUME Handles
  PROVE  /\ cmds # <<>> /\ Done /\ UNCHANGED <<handler, clientVars>>
         /\ Respond(Reply)
         /\ cmd.cmdid \in {"WRITE", "READ", "DELETE", "LENGTH"}
<1>. USE DEF Handles
<1>1. CASE OnRecvCmdWrite
  <2>1. cmd.cmdid = "WRITE"
    BY <1>1 DEF OnRecvCmdWrite
  <2>2. Reply = Response("SUCCESS", <<>>, 0)
    BY <2>1 DEF Reply
  <2>. QED
    BY <1>1, <2>1, <2>2 DEF OnRecvCmdWrite
<1>2. CASE OnRecvCmdRead
  <2>1. cmd.cmdid = "READ"
    BY <1>2 DEF OnRecvCmdRead
  <2>2. Reply = IF Stored THEN Response("SUCCESS", Part(Old), 0)
                ELSE Response("ERROR", <<>>, 0)
    BY <2>1 DEF Reply
  <2>. QED
    BY <1>2, <2>1, <2>2 DEF OnRecvCmdRead
<1>3. CASE OnRecvCmdDelete
  <2>1. cmd.cmdid = "DELETE"
    BY <1>3 DEF OnRecvCmdDelete
  <2>2. Reply = Response(IF Stored THEN "SUCCESS" ELSE "ERROR", <<>>, 0)
    BY <2>1 DEF Reply
  <2>. QED
    BY <1>3, <2>1, <2>2 DEF OnRecvCmdDelete
<1>4. CASE OnRecvCmdLength
  <2>1. cmd.cmdid = "LENGTH"
    BY <1>4 DEF OnRecvCmdLength
  <2>2. Reply = IF Stored THEN Response("SUCCESS", <<>>, Len(Old))
                ELSE Response("ERROR", <<>>, 0)
    BY <2>1 DEF Reply
  <2>. QED
    BY <1>4, <2>1, <2>2 DEF OnRecvCmdLength
<1>. QED
  BY <1>1, <1>2, <1>3, <1>4

(* A READ gives no more bytes than it asks for, and the source has. *)
LEMMA PartLength ==
  ASSUME IInv, cmds # <<>>
  PROVE  /\ Part(Old) \in Seq(Bytes) /\ Len(Part(Old)) =< cmd.length
         /\ Len(Part(Old)) \in Nat /\ cmd.length \in Nat /\ cmd.offset \in Nat
         /\ \A i \in Nat : i \in DOMAIN Part(Old)
              <=> i \in 1 .. cmd.length /\ cmd.offset + i =< Len(Old)
         /\ \A i \in DOMAIN Part(Old) : Part(Old)[i] = Old[cmd.offset + i]
<1>. DEFINE o == cmd.offset
            l == cmd.length
            m == IF o + l < Len(Old) THEN o + l ELSE Len(Old)
<1>1. o \in Nat /\ l \in Nat
  BY CmdFacts DEF Cmds
<1>2. Old \in Seq(Bytes) /\ Len(Old) \in Nat
  BY OldBytes DEF IInv
<1>3. m \in Nat /\ m =< Len(Old) /\ m =< o + l /\ m \in {o + l, Len(Old)}
  BY <1>1, <1>2
<1>4. Part(Old) = SubSeq(Old, o + 1, m)
  BY DEF Part
<1>. HIDE DEF o, l, m
<1>5. \A i \in o + 1 .. m : Old[i] \in Bytes
  BY <1>1, <1>2, <1>3, ElementOfSeq
<1>6. /\ Part(Old) \in Seq(Bytes)
      /\ Len(Part(Old)) = (IF o + 1 =< m THEN m - (o + 1) + 1 ELSE 0)
      /\ \A i \in 1 .. m - (o + 1) + 1 : Part(Old)[i] = Old[o + 1 + i - 1]
  BY <1>1, <1>3, <1>4, <1>5, SubSeqProperties, SMTT(30)
<1>7. DOMAIN Part(Old) = 1 .. Len(Part(Old))
  BY <1>6, LenProperties
<1>8. Len(Part(Old)) \in Nat /\ Len(Part(Old)) =< l
  BY <1>1, <1>2, <1>3, <1>6
<1>9. \A i \in Nat : i \in DOMAIN Part(Old) <=> i \in 1 .. l /\ o + i =< Len(Old)
  BY <1>1, <1>2, <1>3, <1>6, <1>7
<1>10. ASSUME NEW i \in DOMAIN Part(Old) PROVE Part(Old)[i] = Old[o + i]
  <2>1. i \in 1 .. m - (o + 1) + 1 /\ o + 1 + i - 1 = o + i
    BY <1>1, <1>3, <1>6, <1>7
  <2>. QED
    BY <1>6, <2>1
<1>. QED
  BY <1>1, <1>6, <1>8, <1>9, <1>10 DEF o, l

LEMMA ReplyFits ==
  ASSUME IInv, FitInv, Handles
  PROVE  /\ Reply \in Responses /\ Reply.refid = cmd.refid
         /\ Len(Reply.data) =< MaxPart
<1>1. /\ cmds # <<>>
      /\ cmd.cmdid \in {"WRITE", "READ", "DELETE", "LENGTH"}
  BY ReplyOf
<1>2. ASSUME NEW result \in {"SUCCESS", "ERROR"}, NEW n \in Nat
      PROVE  LET r == Response(result, <<>>, n) IN
             r \in Responses /\ r.refid = cmd.refid /\ Len(r.data) =< MaxPart
  <2>1. Response(result, <<>>, n).data = <<>>
    BY DEF Response
  <2>2. Len(<<>>) = 0 /\ 0 =< MaxPart
    BY RemoteAssumption
  <2>. QED
    BY <1>1, <2>1, <2>2, ABareResponse
<1>3. CASE cmd.cmdid = "READ" /\ Stored
  <2>1. Reply = Response("SUCCESS", Part(Old), 0)
    BY <1>3 DEF Reply
  <2>2. cmd.length =< MaxPart
    BY <1>1, <1>3, CmdFacts DEF FitInv, Fits
  <2>3. Len(Part(Old)) =< MaxPart
    BY <1>1, <2>2, PartLength, RemoteAssumption
  <2>. QED
    BY <1>1, <2>1, <2>3, PartLength, AResponse
<1>4. CASE ~(cmd.cmdid = "READ" /\ Stored)
  <2>1. \E result \in {"SUCCESS", "ERROR"}, n \in Nat :
          Reply = Response(result, <<>>, n)
    <3>1. Len(Old) \in Nat
      BY OldBytes DEF IInv
    <3>. QED
      BY <1>1, <1>4, <3>1 DEF Reply
  <2>. QED
    BY <1>2, <2>1
<1>. QED
  BY <1>3, <1>4

(* An answer that fits is sent, unless there is no connection, or is no more. *)
LEMMA RespondSends ==
  ASSUME IInv, NEW r, Respond(r), Len(r.data) =< MaxPart, r \in Responses
  PROVE  \/ /\ ~good[handler] /\ UNCHANGED <<good, answers, toServer>>
         \/ /\ good[handler] /\ good' = [good EXCEPT ![handler] = FALSE]
            /\ UNCHANGED answers
         \/ /\ good[handler] /\ UNCHANGED <<good, toServer>>
            /\ answers' = [answers EXCEPT ![handler] = Append(@, r)]
<1>1. ~(Len(r.data) > MaxPart)
  <2>1. Len(r.data) \in Nat
    BY LenProperties DEF Responses
  <2>. QED
    BY <2>1, RemoteAssumption
<1>. QED
  BY <1>1 DEF Respond

Answered(c) == {answers[c][i].refid : i \in DOMAIN answers[c]}
HandledOf(c) == {id \in {log[j].refid : j \in DOMAIN log} : id[1] = c}

LEMMA HandlerAnswers ==
  ASSUME IInv, IInv', FitInv, AnsweredInOrder, Handles
  PROVE  AnsweredInOrder'
<1>0. PICK h \in Clients : h = handler
  BY DEF IInv, TypeOK
<1>. DEFINE r == Reply
            n == Len(log)
            s == answers[h]
<1>1. /\ cmds # <<>> /\ log' = Append(log, cmd)
      /\ r \in Responses /\ r.refid = cmd.refid /\ Len(r.data) =< MaxPart
      /\ Respond(r)
  BY ReplyOf, ReplyFits DEF Done
<1>2. \/ /\ ~good[h] /\ UNCHANGED <<good, answers, toServer>>
      \/ /\ good[h] /\ good' = [good EXCEPT ![h] = FALSE]
         /\ UNCHANGED answers
      \/ /\ good[h] /\ UNCHANGED <<good, toServer>>
         /\ answers' = [answers EXCEPT ![h] = Append(@, r)]
  BY <1>0, <1>1, RespondSends
<1>. HIDE DEF r
<1>3. /\ n \in Nat /\ DOMAIN log = 1 .. n /\ DOMAIN log' = 1 .. n + 1
      /\ log'[n + 1] = cmd
      /\ \A j \in 1 .. n : log'[j] = log[j]
  <2>1. log \in Seq(Cmds) /\ cmd \in Cmds
    BY <1>1, CmdFacts DEF IInv, TypeOK
  <2>. QED
    BY <1>1, <2>1, AppendProperties, LenProperties
<1>4. /\ cmd.refid[1] = h /\ cmd.refid[2] \in Nat
      /\ \A j \in DOMAIN log :
           log[j].refid[1] = h => log[j].refid[2] < cmd.refid[2]
  BY <1>0, <1>1, CmdFacts, CmdNew
<1>5. \A i, j \in DOMAIN log' :
        i < j /\ log'[i].refid[1] = log'[j].refid[1]
          => log'[i].refid[2] < log'[j].refid[2]
  <2>. SUFFICES ASSUME NEW i \in DOMAIN log', NEW j \in DOMAIN log', i < j,
                       log'[i].refid[1] = log'[j].refid[1]
                PROVE  log'[i].refid[2] < log'[j].refid[2]
    OBVIOUS
  <2>1. i \in 1 .. n
    BY <1>3
  <2>2. CASE j \in 1 .. n
    BY <1>3, <2>1, <2>2 DEF AnsweredInOrder
  <2>3. CASE j = n + 1
    BY <1>3, <1>4, <2>1, <2>3
  <2>. QED
    BY <1>3, <2>2, <2>3
<1>6. ASSUME NEW c \in Clients
      PROVE  HandledOf(c)' = HandledOf(c) \cup (IF c = h THEN {cmd.refid} ELSE {})
  <2>1. {log'[j].refid : j \in DOMAIN log'}
          = {log[j].refid : j \in DOMAIN log} \cup {cmd.refid}
    BY <1>3
  <2>. QED
    BY <1>4, <2>1 DEF HandledOf
<1>7. ASSUME NEW c \in Clients
      PROVE  /\ \A i, j \in DOMAIN answers[c] :
                  i < j => answers[c][i].refid[2] < answers[c][j].refid[2]
             /\ Answered(c) \subseteq HandledOf(c)
             /\ \A a \in Answered(c), b \in HandledOf(c) :
                  b[2] < a[2] => b \in Answered(c)
             /\ good[c] => Answered(c) = HandledOf(c)
  BY DEF AnsweredInOrder, Answered, HandledOf
<1>8. \A b \in HandledOf(h) : b[2] < cmd.refid[2] /\ b[2] \in Nat
  BY <1>4, LogIds DEF HandledOf, IInv
<1>9. ASSUME NEW c \in Clients
      PROVE  /\ \A i, j \in DOMAIN answers'[c] :
                  i < j => answers'[c][i].refid[2] < answers'[c][j].refid[2]
             /\ Answered(c)' \subseteq HandledOf(c)'
             /\ \A a \in Answered(c)', b \in HandledOf(c)' :
                  b[2] < a[2] => b \in Answered(c)'
             /\ good'[c] => Answered(c)' = HandledOf(c)'
  <2>1. CASE c # h
    <3>1. answers'[c] = answers[c] /\ good'[c] = good[c]
      BY <1>1, <1>2, <2>1 DEF IInv, TypeOK
    <3>2. Answered(c)' = Answered(c) /\ HandledOf(c)' = HandledOf(c)
      BY <1>6, <2>1, <3>1 DEF Answered
    <3>. QED
      BY <1>7, <3>1, <3>2
  <2>2. CASE c = h /\ UNCHANGED answers
    <3>1. ~good'[h]
      <4>1. good \in [Clients -> BOOLEAN]
        BY DEF IInv, TypeOK
      <4>2. CASE ~good[h] /\ UNCHANGED good
        BY <4>2
      <4>3. CASE good' = [good EXCEPT ![h] = FALSE]
        BY <1>1, <4>1, <4>3
      <4>4. CASE answers' = [answers EXCEPT ![h] = Append(@, r)]
        <5>1. answers'[h] = Append(s, r) /\ answers'[h] = s /\ s \in Seq(Responses)
          BY <1>1, <2>2, <4>4 DEF IInv, TypeOK
        <5>2. Append(s, r) = s
          BY <5>1
        <5>. QED
          BY <1>1, <5>1, <5>2, AppendNew
      <4>. QED
        BY <1>2, <4>2, <4>3, <4>4
    <3>2. Answered(h)' = Answered(h)
      BY <2>2 DEF Answered
    <3>3. ASSUME NEW a \in Answered(h), NEW b \in HandledOf(h)', b[2] < a[2]
          PROVE  b \in Answered(h)
      <4>1. a \in HandledOf(h) /\ a[2] < cmd.refid[2] /\ a[2] \in Nat
        BY <1>1, <1>7, <1>8, <3>3
      <4>2. b # cmd.refid
        BY <1>4, <3>3, <4>1
      <4>3. b \in HandledOf(h)
        BY <1>1, <1>6, <3>3, <4>2
      <4>. QED
        BY <1>1, <1>7, <3>3, <4>3
    <3>4. HandledOf(h) \subseteq HandledOf(h)'
      BY <1>1, <1>6
    <3>. QED
      BY <1>1, <1>7, <2>2, <3>1, <3>2, <3>3, <3>4
  <2>3. CASE /\ c = h /\ good[h]
             /\ answers' = [answers EXCEPT ![h] = Append(@, r)]
    <3>1. /\ answers'[h] = Append(s, r) /\ s \in Seq(Responses)
          /\ Len(s) \in Nat /\ DOMAIN s = 1 .. Len(s)
      BY <1>1, <2>3, LenProperties DEF IInv, TypeOK
    <3>2. /\ DOMAIN answers'[h] = 1 .. Len(s) + 1
          /\ \A i \in 1 .. Len(s) : answers'[h][i] = s[i]
          /\ answers'[h][Len(s) + 1] = r
      BY <1>1, <3>1, AppendProperties, LenProperties
    <3>. HIDE DEF s
    <3>3. Answered(h)' = {s[i].refid : i \in DOMAIN s} \cup {cmd.refid}
      BY <1>1, <3>1, <3>2 DEF Answered
    <3>4. {s[i].refid : i \in DOMAIN s} = HandledOf(h)
      BY <1>1, <1>7, <2>3 DEF Answered, s
    <3>5. Answered(h)' = HandledOf(h)'
      BY <1>1, <1>6, <3>3, <3>4
    <3>6. ASSUME NEW i \in DOMAIN answers'[h], NEW j \in DOMAIN answers'[h],
                 i < j
          PROVE  answers'[h][i].refid[2] < answers'[h][j].refid[2]
      <4>1. i \in 1 .. Len(s)
        BY <3>1, <3>2, <3>6
      <4>2. CASE j \in 1 .. Len(s)
        BY <1>1, <1>7, <3>1, <3>2, <3>6, <4>1, <4>2 DEF s
      <4>3. CASE j = Len(s) + 1
        <5>1. s[i].refid \in HandledOf(h)
          BY <3>1, <3>4, <4>1
        <5>. QED
          BY <1>1, <1>8, <3>2, <4>1, <4>3, <5>1
      <4>. QED
        BY <3>1, <3>2, <4>2, <4>3
    <3>. QED
      BY <2>3, <3>5, <3>6
  <2>. QED
    BY <1>2, <2>1, <2>2, <2>3
<1>. QED
  BY <1>5, <1>9 DEF AnsweredInOrder, Answered, HandledOf

LEMMA AnswersStep ==
  ASSUME ReadsFit, IInv, IInv', FitInv, AnsweredInOrder,
         [Next]_vars
  PROVE  AnsweredInOrder'
<1>1. CASE Handles
  BY <1>1, HandlerAnswers
<1>2. CASE ~Handles
  <2>1. UNCHANGED <<log, answers>> /\ \A c \in Clients : good'[c] => good[c]
    <3>1. CASE \E c \in Clients : ReadGone(c)
      BY <3>1 DEF ReadGone, IInv, TypeOK
    <3>2. CASE ~ \E c \in Clients : ReadGone(c)
      BY <1>2, <3>2 DEF Handles, Next, ClientStep, ServerStep, Leave, SendPacket,
         OnRecvPacket, OnRecvCmdOther, vars
    <3>. QED
      BY <3>1, <3>2
  <2>2. ASSUME NEW c \in Clients
        PROVE  /\ Answered(c)' = Answered(c) /\ HandledOf(c)' = HandledOf(c)
               /\ good'[c] => good[c] /\ answers'[c] = answers[c]
    BY <2>1 DEF Answered, HandledOf
  <2>3. ASSUME NEW c \in Clients
        PROVE  /\ \A i, j \in DOMAIN answers[c] :
                    i < j => answers[c][i].refid[2] < answers[c][j].refid[2]
               /\ Answered(c) \subseteq HandledOf(c)
               /\ \A a \in Answered(c), b \in HandledOf(c) :
                    b[2] < a[2] => b \in Answered(c)
               /\ good[c] => Answered(c) = HandledOf(c)
    BY DEF AnsweredInOrder, Answered, HandledOf
  <2>4. ASSUME NEW c \in Clients
        PROVE  /\ \A i, j \in DOMAIN answers'[c] :
                    i < j => answers'[c][i].refid[2] < answers'[c][j].refid[2]
               /\ Answered(c)' \subseteq HandledOf(c)'
               /\ \A a \in Answered(c)', b \in HandledOf(c)' :
                    b[2] < a[2] => b \in Answered(c)'
               /\ good'[c] => Answered(c)' = HandledOf(c)'
    <3>1. \A i, j \in DOMAIN answers'[c] :
            i < j => answers'[c][i].refid[2] < answers'[c][j].refid[2]
      <4>1. answers'[c] = answers[c]
        BY <2>1
      <4>. QED
        BY <2>3, <4>1
    <3>2. Answered(c)' = Answered(c) /\ HandledOf(c)' = HandledOf(c)
      BY <2>2
    <3>3. /\ Answered(c)' \subseteq HandledOf(c)'
          /\ good'[c] => Answered(c)' = HandledOf(c)'
      BY <2>2, <2>3, <3>2
    <3>4. \A a \in Answered(c)', b \in HandledOf(c)' :
            b[2] < a[2] => b \in Answered(c)'
      BY <2>3, <3>2
    <3>. QED
      BY <3>1, <3>3, <3>4
  <2>. QED
    BY <2>1, <2>4 DEF AnsweredInOrder, Answered, HandledOf
<1>. QED
  BY <1>1, <1>2

(* Where what clients ask to read fits a packet, and for any clients, sources,
   packets and losses: the answers of a client come in the order of its
   commands, without a gap, and none is missing while its connection stands. *)
THEOREM AnswersInOrder == ReadsFit => (Spec => []AnsweredInOrder)
<1>. SUFFICES ASSUME ReadsFit PROVE Spec => []AnsweredInOrder
  OBVIOUS
<1>. DEFINE AInv == FitInv /\ AnsweredInOrder
<1>1. Init => AInv
  <2>1. Init => AnsweredInOrder
    BY DEF Init, AnsweredInOrder
  <2>. QED
    BY <2>1, FitInit
<1>2. IInv /\ IInv' /\ AInv /\ [Next]_vars => AInv'
  BY RemoteAssumption, FitStep, AnswersStep
<1>. QED
  BY Invariant, <1>1, <1>2, PTL DEF Spec

-----------------------------------------------------------------------------
(* The store and the log: a source is there, and holds what it holds, because *)
(* of the commands handled.                                                   *)

(* What a command makes of the bytes b of source. *)
Then(b, k, source) ==
  IF Log!Changes(k, source, "DELETE") THEN <<>>
  ELSE IF Log!Changes(k, source, "WRITE") THEN b \o k.data ELSE b

(* f is what source holds after each of the commands L. *)
HeldBy(f, L, source) ==
  f = [n \in 0 .. Len(L) |->
         IF n = 0 \/ Log!Changes(L[n], source, "DELETE") THEN <<>>
         ELSE IF Log!Changes(L[n], source, "WRITE") THEN f[n - 1] \o L[n].data
         ELSE f[n - 1]]

Holding(source) == IF source \in DOMAIN store THEN store[source] ELSE <<>>

StoreIsLog ==
  \A source \in Sources :
    /\ source \in DOMAIN store <=> Log!Exists(source)
    /\ \E f : HeldBy(f, log, source)
    /\ \A f : HeldBy(f, log, source) => f[Len(log)] = Holding(source)

LEMMA HeldAt ==
  ASSUME NEW L, Len(L) \in Nat, NEW source, NEW f, HeldBy(f, L, source)
  PROVE  /\ DOMAIN f = 0 .. Len(L) /\ f[0] = <<>>
         /\ \A n \in 1 .. Len(L) : f[n] = Then(f[n - 1], L[n], source)
<1>1. DOMAIN f = 0 .. Len(L)
  BY DEF HeldBy
<1>2. \A n \in 0 .. Len(L) :
        f[n] = (IF n = 0 \/ Log!Changes(L[n], source, "DELETE") THEN <<>>
                ELSE IF Log!Changes(L[n], source, "WRITE")
                     THEN f[n - 1] \o L[n].data
                     ELSE f[n - 1])
  BY DEF HeldBy
<1>. QED
  BY <1>1, <1>2 DEF Then

LEMMA HeldIf ==
  ASSUME NEW L, Len(L) \in Nat, NEW source, NEW f,
         f = [n \in 0 .. Len(L) |-> f[n]], f[0] = <<>>,
         \A n \in 1 .. Len(L) : f[n] = Then(f[n - 1], L[n], source)
  PROVE  HeldBy(f, L, source)
<1>1. ASSUME NEW n \in 0 .. Len(L)
      PROVE  f[n] = (IF n = 0 \/ Log!Changes(L[n], source, "DELETE") THEN <<>>
                     ELSE IF Log!Changes(L[n], source, "WRITE")
                          THEN f[n - 1] \o L[n].data
                          ELSE f[n - 1])
  <2>1. CASE n = 0
    BY <2>1
  <2>2. CASE n # 0
    <3>1. n \in 1 .. Len(L)
      BY <2>2
    <3>. QED
      BY <2>2, <3>1 DEF Then
  <2>. QED
    BY <2>1, <2>2
<1>. QED
  BY <1>1 DEF HeldBy

LEMMA HeldContent ==
  ASSUME StoreIsLog, NEW source \in Sources
  PROVE  Log!Content(source) = Holding(source)
<1>. DEFINE f == CHOOSE f : HeldBy(f, log, source)
<1>1. HeldBy(f, log, source)
  BY DEF StoreIsLog
<1>2. Log!Content(source) = f[Len(log)]
  BY DEF Log!Content, HeldBy
<1>. QED
  BY <1>1, <1>2 DEF StoreIsLog

LEMMA StoreInit == Init => StoreIsLog
<1>. SUFFICES ASSUME Init, NEW source \in Sources
              PROVE  /\ source \in DOMAIN store <=> Log!Exists(source)
                     /\ \E f : HeldBy(f, log, source)
                     /\ \A f : HeldBy(f, log, source)
                                 => f[Len(log)] = Holding(source)
  BY DEF StoreIsLog
<1>1. log = <<>> /\ Len(log) = 0 /\ DOMAIN log = {} /\ DOMAIN store = {}
  BY DEF Init
<1>2. HeldBy([n \in 0 .. 0 |-> <<>>], log, source)
  BY <1>1 DEF HeldBy
<1>3. \A f : HeldBy(f, log, source) => f[Len(log)] = <<>>
  BY <1>1, HeldAt
<1>. QED
  BY <1>1, <1>2, <1>3 DEF Log!Exists, Holding

(* A command more, or less. *)
LEMMA HeldLonger ==
  ASSUME NEW L \in Seq(Cmds), NEW k \in Cmds, NEW source,
         NEW M, M = Append(L, k), NEW g, HeldBy(g, L, source)
  PROVE  \E f : HeldBy(f, M, source)
<1>1. /\ Len(L) \in Nat /\ Len(M) = Len(L) + 1 /\ M[Len(L) + 1] = k
      /\ \A n \in 1 .. Len(L) : M[n] = L[n]
      /\ Len(M) \in Nat
  BY AppendProperties, LenProperties
<1>2. \E f : HeldBy(f, M, source)
  <2>. DEFINE f == [n \in 0 .. Len(M) |->
                      IF n = Len(M) THEN Then(g[Len(L)], k, source) ELSE g[n]]
  <2>1. /\ g[0] = <<>>
        /\ \A n \in 1 .. Len(L) : g[n] = Then(g[n - 1], L[n], source)
    BY <1>1, HeldAt
  <2>2. \A n \in 0 .. Len(L) : f[n] = g[n]
    BY <1>1
  <2>3. f[Len(M)] = Then(g[Len(L)], k, source)
    BY <1>1
  <2>4. f = [n \in 0 .. Len(M) |-> f[n]]
    OBVIOUS
  <2>. HIDE DEF f
  <2>5. f[0] = <<>>
    BY <1>1, <2>1, <2>2
  <2>6. ASSUME NEW n \in 1 .. Len(M) PROVE f[n] = Then(f[n - 1], M[n], source)
    <3>1. CASE n \in 1 .. Len(L)
      <4>1. f[n] = g[n] /\ f[n - 1] = g[n - 1] /\ M[n] = L[n]
        BY <1>1, <2>2, <3>1
      <4>. QED
        BY <2>1, <3>1, <4>1
    <3>2. CASE n = Len(M)
      <4>1. f[n - 1] = g[Len(L)] /\ M[n] = k
        BY <1>1, <2>2, <3>2
      <4>. QED
        BY <2>3, <3>2, <4>1
    <3>. QED
      BY <1>1, <3>1, <3>2
  <2>7. HeldBy(f, M, source)
    BY <1>1, <2>4, <2>5, <2>6, HeldIf, Zenon
  <2>. QED
    BY <2>7
<1>. QED
  BY <1>2

(* What f ends with comes of the commands L by one that is k. *)
Comes(f, L, M, k, source) ==
  \E g : HeldBy(g, L, source) /\ f[Len(M)] = Then(g[Len(L)], k, source)

LEMMA HeldShorter ==
  ASSUME NEW L \in Seq(Cmds), NEW k \in Cmds, NEW source,
         NEW M, M = Append(L, k), NEW f, HeldBy(f, M, source)
  PROVE  Comes(f, L, M, k, source)
<1>1. /\ Len(L) \in Nat /\ Len(M) = Len(L) + 1 /\ M[Len(L) + 1] = k
      /\ \A n \in 1 .. Len(L) : M[n] = L[n]
      /\ Len(M) \in Nat
  BY AppendProperties, LenProperties
<1>2. \E g : HeldBy(g, L, source) /\ f[Len(M)] = Then(g[Len(L)], k, source)
  <2>. DEFINE g == [n \in 0 .. Len(L) |-> f[n]]
  <2>1. /\ f[0] = <<>>
        /\ \A n \in 1 .. Len(M) : f[n] = Then(f[n - 1], M[n], source)
    BY <1>1, HeldAt, ZenonT(40)
  <2>2. \A n \in 0 .. Len(L) : g[n] = f[n]
    OBVIOUS
  <2>3. g = [n \in 0 .. Len(L) |-> g[n]]
    OBVIOUS
  <2>. HIDE DEF g
  <2>4. g[0] = <<>>
    BY <1>1, <2>1, <2>2
  <2>5. ASSUME NEW n \in 1 .. Len(L) PROVE g[n] = Then(g[n - 1], L[n], source)
    <3>1. n \in 1 .. Len(M) /\ g[n] = f[n] /\ g[n - 1] = f[n - 1] /\ M[n] = L[n]
      BY <1>1, <2>2
    <3>. QED
      BY <2>1, <3>1
  <2>6. HeldBy(g, L, source)
    BY <1>1, <2>3, <2>4, <2>5, HeldIf
  <2>7. f[Len(M)] = Then(g[Len(L)], k, source)
    <3>1. /\ Len(M) \in 1 .. Len(M) /\ M[Len(M)] = k /\ Len(M) - 1 = Len(L)
          /\ g[Len(L)] = f[Len(L)]
      BY <1>1, <2>2
    <3>. QED
      BY <2>1, <3>1
  <2>. QED
    BY <2>6, <2>7
<1>. QED
  BY <1>2, Zenon DEF Comes

LEMMA ExistsGrows ==
  ASSUME log \in Seq(Cmds), cmd \in Cmds, log' = Append(log, cmd), NEW source
  PROVE  Log!Exists(source)' <=>
           /\ ~Log!Changes(cmd, source, "DELETE")
           /\ Log!Changes(cmd, source, "WRITE") \/ Log!Exists(source)
<1>. DEFINE n == Len(log)
<1>1. /\ n \in Nat /\ DOMAIN log = 1 .. n /\ DOMAIN log' = 1 .. n + 1
      /\ Len(log') = n + 1 /\ log'[n + 1] = cmd
      /\ \A j \in 1 .. n : log'[j] = log[j]
  BY AppendProperties, LenProperties
<1>. HIDE DEF n
<1>2. Log!Exists(source)' <=>
        \E i \in 1 .. n + 1 :
          /\ Log!Changes(log'[i], source, "WRITE")
          /\ \A j \in i + 1 .. n + 1 : ~Log!Changes(log'[j], source, "DELETE")
  BY <1>1 DEF Log!Exists, Log!Changes
<1>3. Log!Exists(source) <=>
        \E i \in 1 .. n :
          /\ Log!Changes(log[i], source, "WRITE")
          /\ \A j \in i + 1 .. n : ~Log!Changes(log[j], source, "DELETE")
  BY <1>1 DEF Log!Exists, n
<1>4. ASSUME Log!Exists(source)'
      PROVE  /\ ~Log!Changes(cmd, source, "DELETE")
             /\ Log!Changes(cmd, source, "WRITE") \/ Log!Exists(source)
  <2>1. PICK i \in 1 .. n + 1 :
          /\ Log!Changes(log'[i], source, "WRITE")
          /\ \A j \in i + 1 .. n + 1 : ~Log!Changes(log'[j], source, "DELETE")
    BY <1>2, <1>4
  <2>2. CASE i = n + 1
    <3>1. Log!Changes(cmd, source, "WRITE")
      BY <1>1, <2>1, <2>2
    <3>. QED
      BY <3>1 DEF Log!Changes
  <2>3. CASE i \in 1 .. n
    <3>1. n + 1 \in i + 1 .. n + 1 /\ log'[i] = log[i]
      BY <1>1, <2>3
    <3>2. \A j \in i + 1 .. n : j \in i + 1 .. n + 1 /\ log'[j] = log[j]
      BY <1>1, <2>3
    <3>3. ~Log!Changes(cmd, source, "DELETE")
      BY <1>1, <2>1, <3>1
    <3>4. \A j \in i + 1 .. n : ~Log!Changes(log[j], source, "DELETE")
      BY <2>1, <3>2
    <3>. QED
      BY <1>3, <2>1, <2>3, <3>1, <3>3, <3>4
  <2>. QED
    BY <1>1, <2>2, <2>3
<1>5. ASSUME ~Log!Changes(cmd, source, "DELETE"),
             Log!Changes(cmd, source, "WRITE") \/ Log!Exists(source)
      PROVE  Log!Exists(source)'
  <2>1. CASE Log!Changes(cmd, source, "WRITE")
    <3>1. /\ n + 1 \in 1 .. n + 1
          /\ \A j \in n + 1 + 1 .. n + 1 : FALSE
      BY <1>1
    <3>. QED
      BY <1>1, <1>2, <2>1, <3>1
  <2>2. CASE Log!Exists(source)
    <3>1. PICK i \in 1 .. n :
            /\ Log!Changes(log[i], source, "WRITE")
            /\ \A j \in i + 1 .. n : ~Log!Changes(log[j], source, "DELETE")
      BY <1>3, <2>2
    <3>2. i \in 1 .. n + 1 /\ log'[i] = log[i]
      BY <1>1
    <3>3. ASSUME NEW j \in i + 1 .. n + 1
          PROVE  ~Log!Changes(log'[j], source, "DELETE")
      <4>1. CASE j = n + 1
        BY <1>1, <1>5, <4>1
      <4>2. CASE j # n + 1
        <5>1. j \in i + 1 .. n /\ log'[j] = log[j]
          BY <1>1, <3>3, <4>2
        <5>. QED
          BY <3>1, <5>1
      <4>. QED
        BY <4>1, <4>2
    <3>. QED
      BY <1>2, <3>1, <3>2, <3>3
  <2>. QED
    BY <1>5, <2>1, <2>2
<1>. QED
  BY <1>4, <1>5

(* Each handler does to the store what its command does to the sources. *)
LEMMA HandlerStore ==
  ASSUME IInv, Handles, NEW source \in Sources
  PROVE  /\ source \in DOMAIN store' <=>
              /\ ~Log!Changes(cmd, source, "DELETE")
              /\ Log!Changes(cmd, source, "WRITE") \/ source \in DOMAIN store
         /\ Holding(source)' = Then(Holding(source), cmd, source)
<1>. USE DEF Handles, Holding, Then, Log!Changes
<1>1. CASE OnRecvCmdWrite
  <2>1. /\ cmd.cmdid = "WRITE"
        /\ store' = [s \in DOMAIN store \cup {cmd.source} |->
                       IF s = cmd.source THEN Old \o cmd.data ELSE store[s]]
    BY <1>1 DEF OnRecvCmdWrite
  <2>2. Old = Holding(cmd.source)
    BY DEF Old, Stored
  <2>. QED
    BY <2>1, <2>2
<1>2. CASE OnRecvCmdDelete
  <2>1. /\ cmd.cmdid = "DELETE"
        /\ store' = [s \in DOMAIN store \ {cmd.source} |-> store[s]]
    BY <1>2 DEF OnRecvCmdDelete
  <2>. QED
    BY <2>1
<1>3. CASE OnRecvCmdRead \/ OnRecvCmdLength
  <2>1. cmd.cmdid \in {"READ", "LENGTH"} /\ store' = store
    BY <1>3 DEF OnRecvCmdRead, OnRecvCmdLength
  <2>. QED
    BY <2>1
<1>. QED
  BY <1>1, <1>2, <1>3

LEMMA StoreStep ==
  ASSUME IInv, StoreIsLog, [Next]_vars PROVE StoreIsLog'
<1>1. CASE Handles
  <2>1. /\ log \in Seq(Cmds) /\ cmd \in Cmds /\ log' = Append(log, cmd)
    BY <1>1, ReplyOf, CmdFacts DEF Done, IInv, TypeOK
  <2>2. ASSUME NEW source \in Sources
        PROVE  /\ source \in DOMAIN store' <=> Log!Exists(source)'
               /\ \E f : HeldBy(f, log', source)
               /\ \A f : HeldBy(f, log', source)
                           => f[Len(log')] = Holding(source)'
    <3>1. /\ source \in DOMAIN store <=> Log!Exists(source)
          /\ \E f : HeldBy(f, log, source)
          /\ \A f : HeldBy(f, log, source) => f[Len(log)] = Holding(source)
      BY DEF StoreIsLog
    <3>2. source \in DOMAIN store' <=> Log!Exists(source)'
      BY <1>1, <2>1, <3>1, ExistsGrows, HandlerStore
    <3>3. \E f : HeldBy(f, log', source)
      BY <2>1, <3>1, HeldLonger
    <3>4. ASSUME NEW f, HeldBy(f, log', source)
          PROVE  f[Len(log')] = Holding(source)'
      <4>1. PICK g : /\ HeldBy(g, log, source)
                     /\ f[Len(log')] = Then(g[Len(log)], cmd, source)
        <5>1. Comes(f, log, log', cmd, source)
          BY <2>1, <3>4, HeldShorter
        <5>. QED
          BY <5>1, Zenon DEF Comes
      <4>. QED
        BY <1>1, <3>1, <4>1, HandlerStore
    <3>. QED
      BY <3>2, <3>3, <3>4
  <2>. QED
    BY <2>2 DEF StoreIsLog, HeldBy
<1>2. CASE ~Handles
  <2>1. UNCHANGED <<log, store>>
    BY <1>2 DEF Handles, Next, ClientStep, ServerStep, Leave, SendPacket,
       OnRecvPacket, ReadGone, OnRecvCmdOther, vars
  <2>2. ASSUME NEW source \in Sources
        PROVE  /\ source \in DOMAIN store' <=> Log!Exists(source)'
               /\ \E f : HeldBy(f, log', source)
               /\ \A f : HeldBy(f, log', source)
                           => f[Len(log')] = Holding(source)'
    <3>1. /\ source \in DOMAIN store <=> Log!Exists(source)
          /\ \E f : HeldBy(f, log, source)
          /\ \A f : HeldBy(f, log, source) => f[Len(log)] = Holding(source)
      BY DEF StoreIsLog
    <3>2. Holding(source)' = Holding(source)
      BY <2>1 DEF Holding
    <3>3. Log!Exists(source)' <=> Log!Exists(source)
      BY <2>1 DEF Log!Exists, Log!Changes
    <3>. QED
      BY <2>1, <3>1, <3>2, <3>3
  <2>. QED
    BY <2>2 DEF StoreIsLog, HeldBy
<1>. QED
  BY <1>1, <1>2

(* What the handlers answer is what the log answers. *)
LEMMA ReplyIsAnswer ==
  ASSUME IInv, StoreIsLog, Handles PROVE Reply = Log!Answer(cmd)
<1>1. cmds # <<>> /\ cmd.cmdid \in {"WRITE", "READ", "DELETE", "LENGTH"}
  BY ReplyOf
<1>2. cmd.source \in Sources
  BY <1>1, CmdFacts DEF Cmds
<1>3. Log!Content(cmd.source) = Old
  BY <1>2, HeldContent DEF Holding, Old, Stored
<1>4. Log!Exists(cmd.source) <=> Stored
  BY <1>2 DEF StoreIsLog, Stored
<1>5. Part(Old) = [i \in Log!Asked(cmd) |-> Old[cmd.offset + i]]
  <2>1. Log!Asked(cmd) = {i \in 1 .. cmd.length : cmd.offset + i =< Len(Old)}
    BY <1>3 DEF Log!Asked
  <2>2. DOMAIN Part(Old) = 1 .. Len(Part(Old)) /\ Len(Part(Old)) \in Nat
    BY <1>1, PartLength, LenProperties
  <2>3. cmd.length \in Nat
    BY <1>1, PartLength
  <2>4. DOMAIN Part(Old) = Log!Asked(cmd)
    <3>1. \A i \in DOMAIN Part(Old) : i \in Nat
      BY <2>2
    <3>2. \A i \in Log!Asked(cmd) : i \in Nat
      BY <2>1, <2>3
    <3>3. \A i \in Nat : i \in DOMAIN Part(Old) <=> i \in Log!Asked(cmd)
      BY <1>1, <2>1, PartLength
    <3>. QED
      BY <3>1, <3>2, <3>3
  <2>5. Part(Old) = [i \in DOMAIN Part(Old) |-> Part(Old)[i]]
    <3>1. Part(Old) \in [1 .. Len(Part(Old)) -> Bytes]
      BY <1>1, PartLength, LenProperties
    <3>. QED
      BY <3>1
  <2>6. \A i \in DOMAIN Part(Old) : Part(Old)[i] = Old[cmd.offset + i]
    BY <1>1, PartLength
  <2>. QED
    BY <2>4, <2>5, <2>6
<1>. DEFINE R(result, data, length) ==
       [refid |-> cmd.refid, result |-> result, data |-> data, length |-> length]
<1>6. Log!Answer(cmd) =
        R(IF cmd.cmdid = "WRITE" \/ Stored THEN "SUCCESS" ELSE "ERROR",
          IF cmd.cmdid = "READ" /\ Stored THEN Part(Old) ELSE <<>>,
          IF cmd.cmdid = "LENGTH" /\ Stored THEN Len(Old) ELSE 0)
  BY <1>3, <1>4, <1>5 DEF Log!Answer
<1>7. CASE cmd.cmdid = "WRITE"
  BY <1>6, <1>7 DEF Reply, Response
<1>8. CASE cmd.cmdid = "READ"
  BY <1>6, <1>8 DEF Reply, Response
<1>9. CASE cmd.cmdid = "DELETE"
  BY <1>6, <1>9 DEF Reply, Response
<1>10. CASE cmd.cmdid = "LENGTH"
  BY <1>6, <1>10 DEF Reply, Response
<1>. QED
  BY <1>1, <1>7, <1>8, <1>9, <1>10

-----------------------------------------------------------------------------
(* The requests of a client: what it has under way and is not executed. *)

Under(c, k) ==
  \/ handler = c /\ \E a \in DOMAIN cmds : k = cmds[a]
  \/ \E i \in DOMAIN toServer[c] : \E a \in DOMAIN Decode(toServer[c][i]) :
       k = Decode(toServer[c][i])[a]

LEMMA RequestsAre ==
  ASSUME NEW c \in Clients, NEW k
  PROVE  /\ k \in Requests(c) <=> k.cmdid # "NA" /\ Under(c, k)
         /\ k \in Requests(c)' <=> k.cmdid # "NA" /\ Under(c, k)'
<1>1. k \in Requests(c) <=> k.cmdid # "NA" /\ Under(c, k)
  BY DEF Requests, Under, Commands
<1>2. k \in Requests(c)' <=> k.cmdid # "NA" /\ Under(c, k)'
  BY DEF Requests, Under, Commands
<1>. QED
  BY <1>1, <1>2

LEMMA DecodeDomain ==
  ASSUME NEW S, NEW p \in Seq(S)
  PROVE  \A a \in DOMAIN Decode(p) : a \in DOMAIN p /\ Decode(p)[a] = p[a]
<1>1. /\ Decode(p) \in Seq(S) /\ Len(Decode(p)) =< Len(p)
      /\ \A i \in 1 .. Len(Decode(p)) : Decode(p)[i] = p[i]
  BY DecodePrefix
<1>2. /\ DOMAIN Decode(p) = 1 .. Len(Decode(p)) /\ Len(Decode(p)) \in Nat
      /\ DOMAIN p = 1 .. Len(p) /\ Len(p) \in Nat
  BY <1>1, LenProperties
<1>. QED
  BY <1>1, <1>2

LEMMA PacketsUnder ==
  ASSUME IInv, NEW c \in Clients, NEW i \in DOMAIN toServer[c]
  PROVE  /\ toServer[c][i] \in Seq(Cmds)
         /\ \A a \in DOMAIN Decode(toServer[c][i]) :
              /\ a \in DOMAIN toServer[c][i]
              /\ Decode(toServer[c][i])[a] = toServer[c][i][a]
<1>1. toServer[c][i] \in Seq(Cmds)
  BY LenProperties DEF IInv, TypeOK
<1>. QED
  BY <1>1, DecodeDomain

(* They come after all that c has had executed. *)
LEMMA UnderIs ==
  ASSUME IInv, NEW c \in Clients, NEW k, Under(c, k)
  PROVE  /\ k \in Cmds /\ k.refid[1] = c /\ k.refid[2] \in Nat
         /\ k.refid[2] =< nsent[c]
         /\ \A j \in DOMAIN log :
              log[j].refid[1] = c => log[j].refid[2] < k.refid[2]
<1>1. /\ \A d \in Clients : \A i \in DOMAIN toServer[d] :
           Sound(d, nsent[d], toServer[d][i])
      /\ Sound(handler, nsent[handler], cmds)
      /\ \A j \in DOMAIN log : Past(log[j].refid)
      /\ cmds \in Seq(Cmds)
  BY DEF IInv, OrderInv, Waiting, HandledPast, TypeOK
<1>2. PICK p \in Seq(Cmds) :
        /\ Sound(c, nsent[c], p) /\ \E a \in DOMAIN p : k = p[a]
        /\ \A j \in DOMAIN log : log[j].refid[1] = c => Before(log[j].refid, p)
  <2>1. CASE handler = c /\ \E a \in DOMAIN cmds : k = cmds[a]
    BY <1>1, <2>1 DEF Past
  <2>2. CASE \E i \in DOMAIN toServer[c] :
               \E a \in DOMAIN Decode(toServer[c][i]) :
                 k = Decode(toServer[c][i])[a]
    <3>0. PICK i \in DOMAIN toServer[c] :
            \E a \in DOMAIN Decode(toServer[c][i]) : k = Decode(toServer[c][i])[a]
      BY <2>2
    <3>1. PICK a \in DOMAIN Decode(toServer[c][i]) : k = Decode(toServer[c][i])[a]
      BY <3>0
    <3>2. /\ a \in DOMAIN toServer[c][i] /\ k = toServer[c][i][a]
          /\ toServer[c][i] \in Seq(Cmds)
      BY <3>1, PacketsUnder
    <3>3. /\ Sound(c, nsent[c], toServer[c][i])
          /\ \E b \in DOMAIN toServer[c][i] : k = toServer[c][i][b]
      BY <1>1, <3>2
    <3>4. \A j \in DOMAIN log :
            log[j].refid[1] = c => Before(log[j].refid, toServer[c][i])
      BY <1>1 DEF Past
    <3>. QED
      BY <3>2, <3>3, <3>4
  <2>. QED
    BY <2>1, <2>2 DEF Under
<1>3. PICK a \in DOMAIN p : k = p[a]
  BY <1>2
<1>4. k \in Cmds
  BY <1>3, LenProperties
<1>5. k.refid \in Clients \X (1 .. MaxCmds)
  BY <1>4 DEF Cmds, Ids
<1>6. k.refid[2] \in Nat
  BY <1>5
<1>. QED
  BY <1>2, <1>3, <1>4, <1>6 DEF Sound, Before

(* What of c is not under way any more was sent last, but for the commands G
   that were taken out. *)
LEMMA Shortened ==
  ASSUME IInv, IInv', Shrunk, UNCHANGED handler, NEW c \in Clients, NEW G,
         \A a \in DOMAIN cmds' : \E b \in DOMAIN cmds : cmds'[a] = cmds[b],
         \A b \in DOMAIN cmds :
           cmds[b] \in G \/ \E a \in DOMAIN cmds' : cmds'[a] = cmds[b],
         \A k \in G : ~ Under(c, k)'
  PROVE  Log!Beginning(Requests(c)', Requests(c) \ G)
<1>1. \A i \in DOMAIN toServer'[c] :
        i \in DOMAIN toServer[c] /\ toServer'[c][i] = toServer[c][i]
  BY ShrunkDomain DEF IInv
<1>2. ASSUME NEW k, Under(c, k)' PROVE Under(c, k)
  BY <1>1, <1>2 DEF Under
<1>3. ASSUME NEW k, NEW l, Under(c, k), Under(c, l)', k \notin G,
             k.refid[2] =< l.refid[2]
      PROVE  Under(c, k)'
  <2>1. CASE handler = c /\ \E a \in DOMAIN cmds : k = cmds[a]
    BY <1>3, <2>1 DEF Under
  <2>2. CASE \E i \in DOMAIN toServer[c] :
               \E a \in DOMAIN Decode(toServer[c][i]) :
                 k = Decode(toServer[c][i])[a]
    <3>0. PICK i \in DOMAIN toServer[c] :
            \E a \in DOMAIN Decode(toServer[c][i]) : k = Decode(toServer[c][i])[a]
      BY <2>2
    <3>1. PICK a \in DOMAIN Decode(toServer[c][i]) : k = Decode(toServer[c][i])[a]
      BY <3>0
    <3>2. a \in DOMAIN toServer[c][i] /\ k = toServer[c][i][a]
      BY <3>1, PacketsUnder
    <3>3. k.refid[2] \in Nat /\ l.refid[2] \in Nat
      BY <1>2, <1>3, UnderIs
    <3>4. Waiting
      BY DEF IInv, OrderInv
    <3>5. CASE i \in DOMAIN toServer'[c]
      BY <1>1, <3>1, <3>5 DEF Under
    <3>6. CASE i \notin DOMAIN toServer'[c]
      <4>1. CASE handler = c /\ \E b \in DOMAIN cmds' : l = cmds'[b]
        <5>1. PICK b \in DOMAIN cmds : l = cmds[b]
          BY <4>1
        <5>2. l.refid[2] < k.refid[2]
          BY <3>2, <3>4, <4>1, <5>1 DEF Waiting, Follows
        <5>. QED
          BY <1>3, <3>3, <5>2
      <4>2. CASE \E j \in DOMAIN toServer'[c] :
                   \E b \in DOMAIN Decode(toServer'[c][j]) :
                     l = Decode(toServer'[c][j])[b]
        <5>0. PICK j \in DOMAIN toServer'[c] :
                \E b \in DOMAIN Decode(toServer'[c][j]) :
                  l = Decode(toServer'[c][j])[b]
          BY <4>2
        <5>1. PICK b \in DOMAIN Decode(toServer'[c][j]) :
                l = Decode(toServer'[c][j])[b]
          BY <5>0
        <5>2. /\ j \in DOMAIN toServer[c] /\ b \in DOMAIN toServer[c][j]
              /\ l = toServer[c][j][b]
          BY <1>1, <5>1, PacketsUnder
        <5>3. j < i
          <6>1. /\ toServer[c] \in Seq(Seq(Cmds)) /\ toServer'[c] \in Seq(Seq(Cmds))
            BY DEF IInv, TypeOK
          <6>2. /\ DOMAIN toServer[c] = 1 .. Len(toServer[c])
                /\ DOMAIN toServer'[c] = 1 .. Len(toServer'[c])
                /\ Len(toServer[c]) \in Nat /\ Len(toServer'[c]) \in Nat
            BY <6>1, LenProperties
          <6>. QED
            BY <3>6, <5>1, <6>2
        <5>4. l.refid[2] < k.refid[2]
          BY <3>2, <3>4, <5>2, <5>3 DEF Waiting, Follows
        <5>. QED
          BY <1>3, <3>3, <5>4
      <4>. QED
        BY <1>3, <4>1, <4>2 DEF Under
    <3>. QED
      BY <3>5, <3>6
  <2>. QED
    BY <1>3, <2>1, <2>2 DEF Under
<1>4. ASSUME NEW k \in Requests(c)' PROVE k \in Requests(c) \ G
  BY <1>2, <1>4, RequestsAre
<1>5. ASSUME NEW k \in Requests(c) \ G, NEW l \in Requests(c)',
             k.refid[2] =< l.refid[2]
      PROVE  k \in Requests(c)'
  BY <1>3, <1>5, RequestsAre
<1>. QED
  BY <1>4, <1>5 DEF Log!Beginning, Log!Number

-----------------------------------------------------------------------------
(* Each step of the server and its clients is one of the log, or none. *)

Same(c) == Requests(c)' = Requests(c)

LEMMA SameIf ==
  ASSUME NEW c \in Clients,
         \A k : k.cmdid # "NA" => (Under(c, k)' <=> Under(c, k))
  PROVE  Same(c)
<1>1. \A k : k \in Requests(c)' <=> k \in Requests(c)
  BY RequestsAre
<1>. QED
  BY <1>1 DEF Same

LEMMA Stutters ==
  ASSUME UNCHANGED <<log, answers, Lost>>, \A c \in Clients : Same(c)
  PROVE  UNCHANGED Log!vars
<1>1. [c \in Clients |-> Requests(c)'] = [c \in Clients |-> Requests(c)]
  BY DEF Same
<1>. QED
  BY <1>1 DEF Log!vars

LEMMA OthersSame ==
  ASSUME NEW c \in Clients, \A d \in Clients \ {c} : Same(d)
  PROVE  Log!Others(c)
  BY DEF Log!Others, Same

(* What a client sends comes after all it has sent before. *)
LEMMA SendIsRequest ==
  ASSUME IInv, NEW c \in Clients, NEW packet \in Packets, SendPacket(c, packet)
  PROVE  Log!Request(c)
<1>. DEFINE p == Sent(c, packet)
            old == toServer[c]
<1>1. /\ p \in Seq(Cmds)
      /\ \A i \in DOMAIN p : p[i].refid[1] = c /\ p[i].refid[2] = nsent[c] + i
  BY NewPacket
<1>2. /\ toServer' = [toServer EXCEPT ![c] = Append(old, p)]
      /\ UNCHANGED <<handler, cmds, good, left, log, answers>>
      /\ c \notin left /\ good[c]
  BY DEF SendPacket, Sent
<1>. HIDE DEF p
<1>3. /\ toServer \in [Clients -> Seq(Seq(Cmds))] /\ old \in Seq(Seq(Cmds))
      /\ nsent[c] \in Nat
  BY DEF IInv, TypeOK
<1>4. /\ DOMAIN Append(old, p) = 1 .. Len(old) + 1 /\ Len(old) \in Nat
      /\ DOMAIN old = 1 .. Len(old)
      /\ \A j \in 1 .. Len(old) : Append(old, p)[j] = old[j]
      /\ Append(old, p)[Len(old) + 1] = p
  BY <1>1, <1>3, AppendProperties, LenProperties
<1>5. toServer'[c] = Append(old, p)
  BY <1>2, <1>3
<1>6. \A d \in Clients \ {c} : Same(d)
  <2>1. \A d \in Clients \ {c} : toServer'[d] = toServer[d]
    BY <1>2, <1>3
  <2>2. \A d \in Clients \ {c} : \A k : Under(d, k)' <=> Under(d, k)
    BY <1>2, <2>1 DEF Under
  <2>. QED
    BY <2>2, SameIf
<1>7. ASSUME NEW k
      PROVE  Under(c, k)' <=>
               Under(c, k) \/ \E a \in DOMAIN Decode(p) : k = Decode(p)[a]
  <2>. DEFINE In(q) == \E a \in DOMAIN Decode(q) : k = Decode(q)[a]
  <2>1. (\E i \in DOMAIN toServer'[c] : In(toServer'[c][i]))
          <=> (\E i \in DOMAIN old : In(old[i])) \/ In(p)
    <3>. HIDE DEF In, old
    <3>1. ASSUME NEW i \in DOMAIN toServer'[c], In(toServer'[c][i])
          PROVE  (\E j \in DOMAIN old : In(old[j])) \/ In(p)
      <4>1. CASE i = Len(old) + 1
        BY <1>4, <1>5, <3>1, <4>1
      <4>2. CASE i # Len(old) + 1
        <5>1. i \in DOMAIN old /\ toServer'[c][i] = old[i]
          BY <1>4, <1>5, <3>1, <4>2
        <5>. QED
          BY <3>1, <5>1
      <4>. QED
        BY <4>1, <4>2
    <3>2. ASSUME NEW j \in DOMAIN old, In(old[j])
          PROVE  \E i \in DOMAIN toServer'[c] : In(toServer'[c][i])
      <4>1. j \in DOMAIN toServer'[c] /\ toServer'[c][j] = old[j]
        BY <1>4, <1>5, <3>2
      <4>. QED
        BY <3>2, <4>1
    <3>3. ASSUME In(p) PROVE \E i \in DOMAIN toServer'[c] : In(toServer'[c][i])
      <4>1. /\ Len(old) + 1 \in DOMAIN toServer'[c]
            /\ toServer'[c][Len(old) + 1] = p
        BY <1>4, <1>5
      <4>. QED
        BY <3>3, <4>1
    <3>. QED
      BY <3>1, <3>2, <3>3
  <2>. QED
    BY <1>2, <2>1 DEF Under
<1>8. Requests(c) \subseteq Requests(c)'
  BY <1>7, RequestsAre
<1>9. ASSUME NEW k \in Requests(c)' \ Requests(c)
      PROVE  k.refid[1] = c /\ \E a \in Nat \ {0} : k.refid[2] = nsent[c] + a
  <2>1. PICK a \in DOMAIN Decode(p) : k = Decode(p)[a]
    BY <1>7, <1>9, RequestsAre
  <2>2. a \in DOMAIN p /\ k = p[a]
    BY <1>1, <2>1, DecodeDomain
  <2>3. a \in Nat \ {0}
    BY <1>1, <2>2, LenProperties
  <2>. QED
    BY <1>1, <2>2, <2>3
<1>10. ASSUME NEW k \in Requests(c)' \ Requests(c), NEW l \in Requests(c)
       PROVE  l.refid[2] < k.refid[2]
  <2>1. l.refid[2] \in Nat /\ l.refid[2] =< nsent[c]
    BY RequestsAre, UnderIs
  <2>. QED
    BY <1>3, <1>9, <2>1
<1>11. ASSUME NEW k \in Requests(c)' \ Requests(c), NEW j \in DOMAIN log,
              log[j].refid[1] = c
       PROVE  log[j].refid[2] < k.refid[2]
  <2>1. log[j].refid[2] =< nsent[c] /\ log[j].refid[2] \in Nat
    BY <1>11, LogIds DEF IInv, OrderInv, HandledPast, Past
  <2>. QED
    BY <1>3, <1>9, <2>1
<1>12. UNCHANGED Lost /\ c \notin Lost
  BY <1>2 DEF Lost
<1>13. Log!Others(c)
  BY <1>6, OthersSame
<1>. QED
  BY <1>2, <1>8, <1>9, <1>10, <1>11, <1>12, <1>13 DEF Log!Request, Log!Number

LEMMA LeaveIsLose ==
  ASSUME IInv, IInv', NEW c \in Clients, Leave(c) PROVE Log!Lose(c)
<1>1. /\ UNCHANGED <<handler, cmds, good, log, answers>> /\ left' = left \cup {c}
      /\ \E kept \in Prefixes(toServer[c]) :
           toServer' = [toServer EXCEPT ![c] = kept]
  BY DEF Leave
<1>2. Lost' = Lost \cup {c}
  BY <1>1 DEF Lost
<1>3. Shrunk
  BY <1>1, PrefixShrinks DEF IInv
<1>4. Log!Beginning(Requests(c)', Requests(c) \ {})
  BY <1>1, <1>3, Shortened
<1>5. \A d \in Clients \ {c} : Same(d)
  <2>1. \A d \in Clients \ {c} : toServer'[d] = toServer[d]
    BY <1>1 DEF IInv, TypeOK
  <2>2. \A d \in Clients \ {c} : \A k : Under(d, k)' <=> Under(d, k)
    BY <1>1, <2>1 DEF Under
  <2>. QED
    BY <2>2, SameIf
<1>6. Log!Others(c)
  BY <1>5, OthersSame
<1>7. Log!Beginning(Requests(c)', Requests(c))
  <2>1. Requests(c) \ {} = Requests(c)
    OBVIOUS
  <2>. QED
    BY <1>4, <2>1
<1>. QED
  BY <1>1, <1>2, <1>6, <1>7 DEF Log!Lose

(* A packet taken, a connection found to be gone, or a command passed over. *)
LEMMA RecvStutters ==
  ASSUME IInv, NEW c \in Clients, OnRecvPacket(c) PROVE UNCHANGED Log!vars
<1>. DEFINE old == toServer[c]
<1>1. /\ cmds = <<>> /\ old # <<>> /\ handler' = c /\ cmds' = Decode(Head(old))
      /\ toServer' = [toServer EXCEPT ![c] = Tail(old)]
      /\ UNCHANGED <<good, left, log, answers>>
  BY DEF OnRecvPacket, clientVars
<1>2. /\ toServer \in [Clients -> Seq(Seq(Cmds))] /\ old \in Seq(Seq(Cmds))
      /\ toServer'[c] = Tail(old)
      /\ \A d \in Clients \ {c} : toServer'[d] = toServer[d]
      /\ DOMAIN cmds = {}
  BY <1>1 DEF IInv, TypeOK
<1>3. /\ Len(old) \in Nat \ {0} /\ DOMAIN old = 1 .. Len(old) /\ Head(old) = old[1]
      /\ DOMAIN Tail(old) = 1 .. Len(old) - 1
      /\ \A i \in 1 .. Len(old) - 1 : Tail(old)[i] = old[i + 1]
  BY <1>1, <1>2, HeadTailProperties, LenProperties, EmptySeq
<1>4. ASSUME NEW d \in Clients \ {c} PROVE Same(d)
  <2>1. \A k : Under(d, k)' <=> Under(d, k)
    BY <1>1, <1>2, ZenonT(40) DEF Under
  <2>. QED
    BY <2>1, SameIf
<1>5. Same(c)
  <2>1. ASSUME NEW k PROVE Under(c, k)' <=> Under(c, k)
    <3>. DEFINE In(q) == \E a \in DOMAIN Decode(q) : k = Decode(q)[a]
    <3>1. Under(c, k) <=> \E i \in DOMAIN old : In(old[i])
      BY <1>2 DEF Under
    <3>2. Under(c, k)' <=> In(old[1]) \/ \E i \in DOMAIN Tail(old) : In(Tail(old)[i])
      BY <1>1, <1>2, <1>3, ZenonT(40) DEF Under
    <3>. HIDE DEF In, old
    <3>3. ASSUME NEW i \in DOMAIN old, In(old[i])
          PROVE  In(old[1]) \/ \E j \in DOMAIN Tail(old) : In(Tail(old)[j])
      <4>1. CASE i = 1
        BY <3>3, <4>1
      <4>2. CASE i # 1
        <5>1. i - 1 \in DOMAIN Tail(old) /\ Tail(old)[i - 1] = old[i]
          <6>1. i - 1 \in 1 .. Len(old) - 1 /\ i - 1 + 1 = i
            BY <1>3, <4>2
          <6>. QED
            BY <1>3, <6>1
        <5>. QED
          BY <3>3, <5>1
      <4>. QED
        BY <4>1, <4>2
    <3>4. ASSUME NEW j \in DOMAIN Tail(old), In(Tail(old)[j])
          PROVE  \E i \in DOMAIN old : In(old[i])
      <4>1. j + 1 \in DOMAIN old /\ Tail(old)[j] = old[j + 1]
        BY <1>3
      <4>. QED
        BY <3>4, <4>1
    <3>5. 1 \in DOMAIN old
      BY <1>3
    <3>. QED
      BY <3>1, <3>2, <3>3, <3>4, <3>5
  <2>. QED
    BY <2>1, SameIf
<1>6. UNCHANGED Lost
  BY <1>1 DEF Lost
<1>. QED
  BY <1>1, <1>4, <1>5, <1>6, Stutters

LEMMA GoneStutters ==
  ASSUME IInv, NEW c \in Clients, ReadGone(c) PROVE UNCHANGED Log!vars
<1>1. /\ UNCHANGED <<toServer, handler, cmds, left, log, answers>>
      /\ good' = [good EXCEPT ![c] = FALSE] /\ c \in left
  BY DEF ReadGone, clientVars
<1>2. UNCHANGED Lost
  BY <1>1 DEF Lost, IInv, TypeOK
<1>3. \A d \in Clients : \A k : Under(d, k)' <=> Under(d, k)
  BY <1>1 DEF Under
<1>. QED
  BY <1>1, <1>2, <1>3, SameIf, Stutters

LEMMA OtherStutters ==
  ASSUME IInv, OnRecvCmdOther PROVE UNCHANGED Log!vars
<1>1. /\ cmds # <<>> /\ cmd.cmdid = "NA" /\ cmds' = Tail(cmds)
      /\ UNCHANGED <<toServer, handler, good, left, log, answers>>
  BY DEF OnRecvCmdOther, clientVars
<1>2. UNCHANGED Lost
  BY <1>1 DEF Lost
<1>3. /\ cmds \in Seq(Cmds) /\ Len(cmds) \in Nat /\ DOMAIN cmds = 1 .. Len(cmds)
      /\ DOMAIN Tail(cmds) = 1 .. Len(cmds) - 1
      /\ \A i \in 1 .. Len(cmds) - 1 : Tail(cmds)[i] = cmds[i + 1]
      /\ cmd = cmds[1]
  BY <1>1, HeadTailProperties, LenProperties, CmdFacts DEF IInv, TypeOK
<1>4. ASSUME NEW k, k.cmdid # "NA"
      PROVE  (\E a \in DOMAIN cmds' : k = cmds'[a])
               <=> (\E a \in DOMAIN cmds : k = cmds[a])
  <2>1. ASSUME NEW a \in DOMAIN cmds, k = cmds[a]
        PROVE  \E b \in DOMAIN cmds' : k = cmds'[b]
    <3>1. a # 1
      BY <1>1, <1>3, <1>4, <2>1
    <3>2. a - 1 \in 1 .. Len(cmds) - 1 /\ a - 1 + 1 = a
      BY <1>3, <3>1
    <3>. QED
      BY <1>1, <1>3, <2>1, <3>2
  <2>2. ASSUME NEW a \in DOMAIN cmds', k = cmds'[a]
        PROVE  \E b \in DOMAIN cmds : k = cmds[b]
    <3>1. a + 1 \in DOMAIN cmds /\ k = cmds[a + 1]
      BY <1>1, <1>3, <2>2
    <3>. QED
      BY <3>1
  <2>. QED
    BY <2>1, <2>2
<1>5. \A d \in Clients : \A k : k.cmdid # "NA" => (Under(d, k)' <=> Under(d, k))
  BY <1>1, <1>4 DEF Under
<1>6. \A d \in Clients : Same(d)
  BY <1>5, SameIf
<1>. QED
  BY <1>1, <1>2, <1>6, Stutters

(* The command handled is what its client sent first. *)
LEMMA FirstIsCmd ==
  ASSUME IInv, cmds # <<>>, cmd.cmdid # "NA"
  PROVE  /\ cmd \in Requests(handler)
         /\ \A l \in Requests(handler) \ {cmd} : cmd.refid[2] < l.refid[2]
<1>0. PICK h \in Clients : h = handler
  BY DEF IInv, TypeOK
<1>1. /\ cmd = cmds[1] /\ 1 \in DOMAIN cmds /\ DOMAIN cmds = 1 .. Len(cmds)
      /\ Len(cmds) \in Nat
  BY CmdFacts, LenProperties DEF IInv, TypeOK
<1>2. Under(h, cmd)
  BY <1>0, <1>1 DEF Under
<1>3. cmd \in Requests(h)
  BY <1>2, RequestsAre
<1>4. ASSUME NEW l \in Requests(h) \ {cmd} PROVE cmd.refid[2] < l.refid[2]
  <2>1. Under(h, l) /\ Waiting
    BY <1>4, RequestsAre DEF IInv, OrderInv
  <2>2. CASE \E a \in DOMAIN cmds : l = cmds[a]
    <3>1. PICK a \in DOMAIN cmds : l = cmds[a]
      BY <2>2
    <3>2. a # 1
      BY <1>1, <1>4, <3>1
    <3>3. 1 < a
      BY <1>1, <3>2
    <3>. QED
      BY <1>1, <2>1, <3>1, <3>3 DEF Waiting, Sound
  <2>3. CASE \E i \in DOMAIN toServer[h] :
               \E a \in DOMAIN Decode(toServer[h][i]) :
                 l = Decode(toServer[h][i])[a]
    <3>1. PICK i \in DOMAIN toServer[h] :
            \E a \in DOMAIN Decode(toServer[h][i]) : l = Decode(toServer[h][i])[a]
      BY <2>3
    <3>2. \E a \in DOMAIN toServer[h][i] : l = toServer[h][i][a]
      BY <3>1, PacketsUnder
    <3>3. Follows(cmds, toServer[h][i])
      BY <1>0, <2>1 DEF Waiting
    <3>. QED
      BY <1>1, <3>2, <3>3 DEF Follows
  <2>. QED
    BY <2>1, <2>2, <2>3 DEF Under
<1>. QED
  BY <1>0, <1>3, <1>4

(* Once handled it is not under way any more; nothing else of what the server
   has taken is gone. *)
LEMMA CmdTaken ==
  ASSUME IInv, IInv', Shrunk, cmds # <<>>, Done, UNCHANGED handler, NEW k, k = cmd
  PROVE  /\ ~ Under(handler, k)'
         /\ \A a \in DOMAIN cmds' : \E b \in DOMAIN cmds : cmds'[a] = cmds[b]
         /\ \A b \in DOMAIN cmds :
              cmds[b] \in {k} \/ \E a \in DOMAIN cmds' : cmds'[a] = cmds[b]
<1>0. PICK h \in Clients : h = handler
  BY DEF IInv, TypeOK
<1>1. /\ cmds \in Seq(Cmds) /\ Len(cmds) \in Nat \ {0}
      /\ DOMAIN cmds = 1 .. Len(cmds) /\ k = cmds[1] /\ 1 \in DOMAIN cmds
      /\ cmds' = Tail(cmds)
      /\ DOMAIN Tail(cmds) = 1 .. Len(cmds) - 1
      /\ \A i \in 1 .. Len(cmds) - 1 : Tail(cmds)[i] = cmds[i + 1]
  BY HeadTailProperties, LenProperties, EmptySeq, CmdFacts
  DEF IInv, TypeOK, Done
<1>2. /\ k.refid[2] \in Nat /\ Waiting
  BY CmdFacts DEF IInv, OrderInv
<1>3. \A a \in DOMAIN cmds' : a + 1 \in DOMAIN cmds /\ cmds'[a] = cmds[a + 1]
  BY <1>1
<1>4. \A b \in DOMAIN cmds :
        b # 1 => b - 1 \in DOMAIN cmds' /\ cmds'[b - 1] = cmds[b]
  <2>1. ASSUME NEW b \in DOMAIN cmds, b # 1
        PROVE  b - 1 \in 1 .. Len(cmds) - 1 /\ b - 1 + 1 = b
    BY <1>1, <2>1
  <2>. QED
    BY <1>1, <2>1
<1>5. ASSUME NEW a \in DOMAIN cmds', k = cmds'[a] PROVE FALSE
  <2>1. a + 1 \in DOMAIN cmds /\ k = cmds[a + 1] /\ 1 < a + 1
    BY <1>1, <1>3, <1>5
  <2>2. k.refid[2] < k.refid[2]
    BY <1>1, <1>2, <2>1 DEF Waiting, Sound
  <2>. QED
    BY <1>2, <2>2
<1>6. ASSUME NEW i \in DOMAIN toServer'[h],
             \E a \in DOMAIN Decode(toServer'[h][i]) :
               k = Decode(toServer'[h][i])[a]
      PROVE  FALSE
  <2>1. i \in DOMAIN toServer[h] /\ toServer'[h][i] = toServer[h][i]
    BY ShrunkDomain DEF IInv
  <2>2. \E a \in DOMAIN toServer[h][i] : k = toServer[h][i][a]
    BY <1>6, <2>1, PacketsUnder, ZenonT(40)
  <2>3. k.refid[2] < k.refid[2]
    BY <1>0, <1>1, <1>2, <2>1, <2>2 DEF Waiting, Follows
  <2>. QED
    BY <1>2, <2>3
<1>7. ASSUME Under(h, k)' PROVE FALSE
  BY <1>5, <1>6, <1>7 DEF Under
<1>. QED
  BY <1>0, <1>1, <1>3, <1>4, <1>7

(* An answer goes to the client whose command it answers, and so does what is
   lost when it fails. *)
LEMMA RespondOthers ==
  ASSUME IInv, NEW r, Respond(r), NEW d \in Clients, d # handler
  PROVE  toServer'[d] = toServer[d]
<1>1. CASE UNCHANGED toServer
  BY <1>1
<1>2. CASE \E kept \in Prefixes(toServer[handler]) :
             toServer' = [toServer EXCEPT ![handler] = kept]
  BY <1>2 DEF IInv, TypeOK
<1>. QED
  BY <1>1, <1>2 DEF Respond

LEMMA HandlerIsExecute ==
  ASSUME IInv, IInv', FitInv, StoreIsLog, Handles
  PROVE  \E c \in Clients : Log!Execute(c) \/ Log!ExecuteUnanswered(c)
<1>0. PICK h \in Clients : h = handler
  BY DEF IInv, TypeOK
<1>. PICK k : k = cmd
  OBVIOUS
<1>. DEFINE r == Log!Answer(k)
<1>1. /\ cmds # <<>> /\ k.cmdid # "NA" /\ Done /\ UNCHANGED <<handler, left>>
      /\ r \in Responses /\ Len(r.data) =< MaxPart /\ Respond(r)
  <2>1. /\ cmds # <<>> /\ Done /\ Respond(Reply)
        /\ cmd.cmdid \in {"WRITE", "READ", "DELETE", "LENGTH"}
    BY ReplyOf
  <2>2. UNCHANGED <<handler, left>>
    BY DEF Handles, OnRecvCmdWrite, OnRecvCmdRead, OnRecvCmdDelete,
       OnRecvCmdLength, clientVars
  <2>. QED
    BY <2>1, <2>2, ReplyFits, ReplyIsAnswer
<1>2. log' = Append(log, k)
  BY <1>1 DEF Done
<1>3. /\ k \in Requests(h)
      /\ \A l \in Requests(h) \ {k} : k.refid[2] < l.refid[2]
  BY <1>0, <1>1, FirstIsCmd
<1>4. Shrunk
  BY <1>1, RespondEffect
<1>5. Log!Beginning(Requests(h)', Requests(h) \ {k})
  <2>1. /\ ~ Under(h, k)'
        /\ \A a \in DOMAIN cmds' : \E b \in DOMAIN cmds : cmds'[a] = cmds[b]
        /\ \A b \in DOMAIN cmds :
             cmds[b] \in {k} \/ \E a \in DOMAIN cmds' : cmds'[a] = cmds[b]
    BY <1>0, <1>1, <1>4, CmdTaken
  <2>. QED
    BY <1>1, <1>4, <2>1, Shortened
<1>6. Log!Others(h)
  <2>1. ASSUME NEW d \in Clients \ {h} PROVE Same(d)
    <3>1. toServer'[d] = toServer[d]
      BY <1>0, <1>1, RespondOthers
    <3>2. \A l : Under(d, l)' <=> Under(d, l)
      BY <1>0, <1>1, <3>1 DEF Under
    <3>. QED
      BY <3>2, SameIf
  <2>. QED
    BY <2>1, OthersSame
<1>7. \/ ~good[h] /\ UNCHANGED <<good, answers>>
      \/ good' = [good EXCEPT ![h] = FALSE] /\ UNCHANGED answers
      \/ /\ UNCHANGED <<good, toServer>>
         /\ answers' = [answers EXCEPT ![h] = Append(@, r)]
  BY <1>0, <1>1, RespondSends
<1>8. CASE UNCHANGED answers
  <2>1. Lost' = Lost \cup {h}
    <3>1. /\ good \in [Clients -> BOOLEAN] /\ UNCHANGED left
          /\ \A d \in Clients \ {h} : good'[d] = good[d]
          /\ ~ good'[h]
      <4>1. CASE ~good[h] /\ UNCHANGED good
        BY <1>1, <4>1 DEF IInv, TypeOK
      <4>2. CASE good' = [good EXCEPT ![h] = FALSE]
        BY <1>1, <4>2 DEF IInv, TypeOK
      <4>3. CASE answers' = [answers EXCEPT ![h] = Append(@, r)]
        <5>1. answers \in [Clients -> Seq(Responses)]
          BY DEF IInv, TypeOK
        <5>2. answers[h] \in Seq(Responses) /\ answers[h] = Append(answers[h], r)
          BY <1>8, <4>3, <5>1
        <5>. QED
          BY <1>1, <5>2, AppendNew
      <4>. QED
        BY <1>7, <4>1, <4>2, <4>3
    <3>2. \A d \in Clients : ~good'[d] <=> ~good[d] \/ d = h
      BY <3>1
    <3>. QED
      BY <3>1, <3>2 DEF Lost
  <2>. QED
    BY <1>2, <1>3, <1>5, <1>6, <1>8, <2>1
    DEF Log!ExecuteUnanswered, Log!IsFirst, Log!Number
<1>9. CASE /\ UNCHANGED <<good, toServer>>
           /\ answers' = [answers EXCEPT ![h] = Append(@, r)]
  <2>1. UNCHANGED Lost
    BY <1>1, <1>9 DEF Lost
  <2>2. ASSUME NEW l PROVE Under(h, l)' \/ l = k <=> Under(h, l)
    <3>1. (\E a \in DOMAIN cmds : l = cmds[a])
            <=> l = k \/ \E a \in DOMAIN cmds' : l = cmds'[a]
      BY <1>0, <1>1, <1>4, CmdTaken, CmdFacts
    <3>. QED
      BY <1>0, <1>1, <1>9, <3>1 DEF Under
  <2>3. Requests(h)' = Requests(h) \ {k}
    <3>1. ~ Under(h, k)'
      BY <1>0, <1>1, <1>4, CmdTaken
    <3>2. \A l : l \in Requests(h)' <=> l \in Requests(h) \ {k}
      BY <2>2, <3>1, RequestsAre
    <3>. QED
      BY <3>2
  <2>. QED
    BY <1>2, <1>3, <1>6, <1>9, <2>1, <2>3
    DEF Log!Execute, Log!IsFirst, Log!Number
<1>. QED
  BY <1>7, <1>8, <1>9

LEMMA LogStep ==
  ASSUME IInv, IInv', FitInv, StoreIsLog, [Next]_vars
  PROVE  [Log!Next]_(Log!vars)
<1>1. CASE \E c \in Clients : \E packet \in Packets : SendPacket(c, packet)
  BY <1>1, SendIsRequest DEF Log!Next
<1>2. CASE \E c \in Clients : Leave(c)
  BY <1>2, LeaveIsLose DEF Log!Next
<1>3. CASE \E c \in Clients : OnRecvPacket(c)
  BY <1>3, RecvStutters
<1>4. CASE \E c \in Clients : ReadGone(c)
  BY <1>4, GoneStutters
<1>5. CASE Handles
  BY <1>5, HandlerIsExecute DEF Log!Next
<1>6. CASE OnRecvCmdOther
  BY <1>6, OtherStutters
<1>7. CASE UNCHANGED vars
  <2>1. UNCHANGED Lost /\ \A c \in Clients : Same(c)
    <3>1. /\ UNCHANGED <<left, good, handler, cmds, toServer>>
      BY <1>7 DEF vars, clientVars
    <3>2. ASSUME NEW c \in Clients, NEW k PROVE Under(c, k)' <=> Under(c, k)
      BY <3>1 DEF Under
    <3>. QED
      BY <3>1, <3>2, SameIf DEF Lost
  <2>. QED
    BY <1>7, <2>1, Stutters DEF vars
<1>. QED
  BY <1>1, <1>2, <1>3, <1>4, <1>5, <1>6, <1>7
  DEF Next, ClientStep, ServerStep, Handles

(* Where what clients ask to read fits a packet: the handlers and their map do
   what the log of commands says, for any interleaving of clients and any loss
   of connections.  Every step is one of CommandLog, or none. *)
THEOREM StoreIsACommandLog == ReadsFit => (Spec => ImplementsCommandLog)
<1>. SUFFICES ASSUME ReadsFit PROVE Spec => ImplementsCommandLog
  OBVIOUS
<1>. DEFINE LInv == FitInv /\ StoreIsLog
<1>1. Init => LInv
  BY FitInit, StoreInit
<1>2. IInv /\ IInv' /\ LInv /\ [Next]_vars => LInv'
  BY FitStep, StoreStep
<1>3. Init => Log!Init
  <2>1. ASSUME Init, NEW c \in Clients PROVE Requests(c) = {}
    <3>1. DOMAIN cmds = {} /\ DOMAIN toServer[c] = {}
      BY <2>1 DEF Init
    <3>2. \A k : ~ Under(c, k)
      BY <3>1 DEF Under
    <3>. QED
      BY <3>2, RequestsAre
  <2>. QED
    BY <2>1 DEF Init, Log!Init, Lost
<1>4. IInv /\ IInv' /\ LInv /\ [Next]_vars => [Log!Next]_(Log!vars)
  BY LogStep
<1>. QED
  BY Invariant, <1>1, <1>2, <1>3, <1>4, PTL DEF Spec, ImplementsCommandLog, Log!Spec
===============================================================================
