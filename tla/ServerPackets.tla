---------------------------- MODULE ServerPackets ----------------------------
(***************************************************************************)
(* The packet layer inside a SocketServer: one SocketClientPacket for each *)
(* entry of _clientList, whose OnRecv calls the one thread of LoopListen   *)
(* makes in turn (SockLib/inc/SocketServer.h, MemStreamServer/inc/         *)
(* SocketClientPacket.h).                                                  *)
(*                                                                         *)
(* The variables of PacketParser are those of the client whose turn it is; *)
(* what the others keep between their turns is parked.  Two things are not *)
(* kept apart.  The StreamPacket a frame is assembled in is at the same    *)
(* place of the stack in every OnRecv, whoever's it is, so that a frame is *)
(* continued in, and followed by, the bytes the last OnRecv left there;    *)
(* Check and Payload look at all of them.  And a client that               *)
(* is accepted on the number of an entry that was left behind is assigned  *)
(* over it, which moves the socket and leaves the parser as it was.        *)
(***************************************************************************)
EXTENDS PacketParser

CONSTANTS
  Keys,         (* descriptor numbers: the entries of _clientList          *)
  MaxFaults     (* bound: clients replaced and writes cut short, together  *)

ASSUME ServerPacketsAssumption == MaxFaults \in Nat

VARIABLES
  key,          (* the entry whose turn it is                              *)
  parked,       (* the clients of the others                               *)
  faults,
  stale         (* history: did the client inherit a frame in progress?    *)

serverPacketVars == <<key, parked, faults, stale>>
allVars == <<vars, serverPacketVars>>

(* A client nobody was before, and the one whose turn it is. *)
NewClient ==
  [net |-> <<>>, parsFunc |-> "ScanMID", packetData |-> <<>>,
   posBuffBeginPack |-> 0, lenghtBuff |-> <<>>, lenPayload |-> 0,
   delivered |-> <<>>, sent |-> <<>>, wire |-> <<>>, noises |-> 0,
   clobbered |-> FALSE, stale |-> FALSE]

Client ==
  [net |-> net, parsFunc |-> parsFunc, packetData |-> packetData,
   posBuffBeginPack |-> posBuffBeginPack, lenghtBuff |-> lenghtBuff,
   lenPayload |-> lenPayload, delivered |-> delivered, sent |-> sent,
   wire |-> wire, noises |-> noises,
   clobbered |-> clobbered, stale |-> stale]

ServerInit ==
  /\ Init
  /\ key \in Keys
  /\ parked = [k \in Keys |-> NewClient]
  /\ faults = 0
  /\ stale = FALSE

-----------------------------------------------------------------------------
(* What does not depend on the parser. *)
Connection(c) ==
  /\ net' = c.net
  /\ delivered' = c.delivered /\ sent' = c.sent
  /\ wire' = c.wire /\ noises' = c.noises
  /\ call' = [first |-> 1, delivered |-> 0, between |-> TRUE]

(* Mutant: one parser for all. *)
BecomeShared(c) ==
  /\ Connection(c)
  /\ clobbered' = c.clobbered /\ stale' = c.stale
  /\ UNCHANGED parserVars

(* packet._buff of the last OnRecv. *)
mem == packetData \o residue

(* The client c goes on: what it finds of its frame is what mem holds. *)
Become(c) ==
  /\ Connection(c)
  /\ parsFunc' = c.parsFunc
  /\ packetData' = SubSeq(mem, 1, Len(c.packetData))
  /\ residue' = SubSeq(mem, Len(c.packetData) + 1, Len(mem))
  /\ posBuffBeginPack' = c.posBuffBeginPack
  /\ lenghtBuff' = c.lenghtBuff /\ lenPayload' = c.lenPayload
  /\ clobbered' = (c.clobbered \/ packetData' # c.packetData)
  /\ stale' = c.stale
  /\ UNCHANGED <<buff, posBuff>>

(* The next event is about another entry. *)
Turn(k) ==
  /\ pc = "idle" /\ k # key
  /\ key' = k
  /\ parked' = [parked EXCEPT ![key] = Client, ![k] = NewClient]
  /\ Become(parked[k])
  /\ UNCHANGED <<pc, stream, offsetBuff, faults>>

(* The client has gone and its number is given to a new connection.  Its entry
   was erased, or it was left behind: then FdMap::set assigns over it. *)
Replaced(left) ==
  /\ pc = "idle" /\ faults < MaxFaults
  /\ faults' = faults + 1
  /\ Connection(NewClient)
  /\ clobbered' = FALSE
  /\ stale' = (left /\ packetData # <<>>)
  /\ IF left
     THEN UNCHANGED parserVars
     ELSE /\ packetData' = <<>> /\ residue' = mem
          /\ parsFunc' = "ScanMID" /\ lenghtBuff' = <<>>
          /\ posBuffBeginPack' = 0 /\ lenPayload' = 0
          /\ UNCHANGED <<buff, posBuff>>
  /\ UNCHANGED <<pc, stream, offsetBuff, key, parked>>

ShortWrite ==
  /\ pc = "idle" /\ faults < MaxFaults
  /\ \E p \in Payloads : SendShort(p)
  /\ faults' = faults + 1
  /\ UNCHANGED <<key, parked, stale>>

(* Sending, and a call of OnRecv. *)
ClientStep ==
  /\ \/ pc = "idle" /\ \E p \in Payloads : SendPacket(p)
     \/ \E n \in 1 .. Len(net) : Recv(n)
     \/ OnRecvStep
  /\ UNCHANGED serverPacketVars

ServerNext ==
  \/ \E k \in Keys : Turn(k)
  \/ \E left \in BOOLEAN : Replaced(left)
  \/ ShortWrite \/ ClientStep

ServerSpec == ServerInit /\ [][ServerNext]_allVars

-----------------------------------------------------------------------------
(* A client that did not inherit a frame in progress, and none of whose frames
   was written over while others had their turn, is handed only packets sent on
   its own connection, whole, each once and in order: also when writes to it
   were cut short, and whatever the others' frames left behind its own. *)
OwnPacketsOnly == ~stale /\ ~clobbered => DeliveredWereSent

(* A client that did not inherit a frame in progress, and whose own frames were
   not written over while others had their turn, gets every packet that was
   sent to it, if they were sent in full. *)
FreshClientServed == ~stale => DeliversReceived
=============================================================================
