--------------------------- MODULE OrcRemoteServer ---------------------------
(***************************************************************************)
(* The remote store: clients write, read and delete sources that the       *)
(* server keeps in memory (MemStreamPacketMap), one store for all of them, *)
(* by command packets (MemStreamPacket); OrcRemoteServerClient handles     *)
(* what a client sends and answers over the same connection.               *)
(*                                                                         *)
(* The server has one thread: OnRecvPacket of one client runs to its end   *)
(* before another's begins, while clients send more packets, several       *)
(* before the first is answered, and leave.  Packets arrive as             *)
(* PacketChannel promises; a source is the sequence of bytes a MemStream   *)
(* was shown to be (FlatStream).                                           *)
(***************************************************************************)
EXTENDS Integers, Sequences, FiniteSets, SequencesExt

CONSTANTS
  Clients,     (* one for every connection                                  *)
  Sources,     (* the names of sources                                      *)
  Packets,     (* what a client may put in a packet: sequences of commands  *)
               (* [cmdid, source, length, offset]                           *)
  MaxCmds,     (* bound: commands sent over a connection                    *)
  MaxPart,     (* the bytes of a source for which a packet has room         *)
  WriteFails   (* may an answer to a client that is there fail (its buffer  *)
               (* is full)? a subset of BOOLEAN                             *)

(* A command that DecodePacket does not take ("invalid": it lacks a member),
   and one no handler is for ("NA"). *)
CmdIDs == {"WRITE", "READ", "DELETE", "LENGTH", "NA", "invalid"}

ASSUME RemoteAssumption ==
  /\ Packets \subseteq Seq([cmdid : CmdIDs, source : Sources, length : Nat,
                            offset : Nat])
  /\ MaxCmds \in Nat /\ MaxPart \in Nat
  /\ WriteFails \subseteq BOOLEAN

VARIABLES
  store,      (* _sourceMap                                                 *)
  toServer,   (* the packets on their way from a client to its handler      *)
  handler,    (* the client whose OnRecvPacket ran last                     *)
  cmds,       (* its local: the commands still to be handled                *)
  good,       (* IsGood() of the server's socket to each client             *)
  (* the clients *)
  nsent,      (* how many commands a client has sent                        *)
  left,       (* the clients that have left                                 *)
  (* history *)
  log,        (* the commands handled                                       *)
  answers     (* the answers written to each client                         *)

clientVars == <<nsent, left>>
vars == <<store, toServer, handler, cmds, good, clientVars, log, answers>>

Init ==
  /\ store = <<>>
  /\ toServer = [c \in Clients |-> <<>>]
  /\ handler \in Clients
  /\ cmds = <<>>
  /\ good = [c \in Clients |-> TRUE]
  /\ nsent = [c \in Clients |-> 0]
  /\ left = {}
  /\ log = <<>>
  /\ answers = [c \in Clients |-> <<>>]

-----------------------------------------------------------------------------
(* The clients. *)

(* The n-th command of c.  Its RefID is its own, and so are the bytes it
   writes. *)
Cmd(c, n, k) ==
  [refid  |-> <<c, n>>,
   cmdid  |-> k.cmdid, source |-> k.source,
   length |-> k.length, offset |-> k.offset,
   data   |-> [i \in 1 .. (IF k.cmdid = "WRITE" THEN k.length ELSE 0)
                 |-> <<c, n, i>>]]

(* CreatePacketWrite, Read, Delete, Length and SendPacket.  A write that does
   not fit a packet gives none. *)
SendPacket(c, packet) ==
  /\ c \notin left /\ good[c]
  /\ nsent[c] + Len(packet) <= MaxCmds
  /\ \A i \in DOMAIN packet :
       packet[i].cmdid = "WRITE" => packet[i].length <= MaxPart
  /\ toServer' = [toServer EXCEPT ![c] =
       Append(@, [i \in DOMAIN packet |-> Cmd(c, nsent[c] + i, packet[i])])]
  /\ nsent' = [nsent EXCEPT ![c] = @ + Len(packet)]
  /\ UNCHANGED <<store, handler, cmds, good, left, log, answers>>

(* c closes its socket or is gone: what it sent last may be lost. *)
Leave(c) ==
  /\ c \notin left
  /\ left' = left \cup {c}
  /\ \E kept \in Prefixes(toServer[c]) :
       toServer' = [toServer EXCEPT ![c] = kept]
  /\ UNCHANGED <<store, handler, cmds, good, nsent, log, answers>>

-----------------------------------------------------------------------------
(* DecodePacket: the commands up to the first that is not valid; none if the
   payload is no command packet. *)
Decode(packet) ==
  LET invalid == SelectInSeq(packet, LAMBDA k : k.cmdid = "invalid")
  IN  IF invalid = 0 THEN packet ELSE SubSeq(packet, 1, invalid - 1)

(* Mutant: the packet may be handed over twice. *)
OnRecvPacketAgain(c) ==
  /\ cmds = <<>> /\ toServer[c] # <<>>
  /\ handler' = c
  /\ cmds' = Decode(Head(toServer[c]))
  /\ toServer' \in {toServer, [toServer EXCEPT ![c] = Tail(@)]}
  /\ UNCHANGED <<store, good, clientVars, log, answers>>

OnRecvPacket(c) ==
  /\ cmds = <<>> /\ toServer[c] # <<>>
  /\ handler' = c
  /\ cmds' = Decode(Head(toServer[c]))
  /\ toServer' = [toServer EXCEPT ![c] = Tail(@)]
  /\ UNCHANGED <<store, good, clientVars, log, answers>>

(* Read finds that the client has left, and releases the server's socket;
   what had been read before is handled still. *)
ReadGone(c) ==
  /\ cmds = <<>>
  /\ c \in left /\ good[c]
  /\ good' = [good EXCEPT ![c] = FALSE]
  /\ UNCHANGED <<store, toServer, handler, cmds, clientVars, log, answers>>

-----------------------------------------------------------------------------
cmd == Head(cmds)

Done == cmds' = Tail(cmds) /\ log' = Append(log, cmd)

Response(result, data, length) ==
  [refid |-> cmd.refid, result |-> result, data |-> data, length |-> length]

(* Mutant: a Write that fails does not release the socket. *)
RespondKeepsSock(r) ==
  IF ~good[handler] \/ Len(r.data) > MaxPart
  THEN UNCHANGED <<good, answers, toServer>>
  ELSE /\ \E fails \in (IF handler \in left THEN BOOLEAN ELSE WriteFails) :
            answers' = IF fails THEN answers
                       ELSE [answers EXCEPT ![handler] = Append(@, r)]
       /\ UNCHANGED <<good, toServer>>

(* SendPacket(pckResponse): nothing is sent over a socket that was released
   or when CreatePacketResponse finds that the answer does not fit a packet;
   a Write that fails releases the socket, and what was not read is lost. *)
Respond(r) ==
  IF ~good[handler] \/ Len(r.data) > MaxPart
  THEN UNCHANGED <<good, answers, toServer>>
  ELSE \E fails \in (IF handler \in left THEN BOOLEAN ELSE WriteFails) :
         IF fails
         THEN /\ good' = [good EXCEPT ![handler] = FALSE]
              /\ \E kept \in Prefixes(toServer[handler]) :
                   toServer' = [toServer EXCEPT ![handler] = kept]
              /\ UNCHANGED answers
         ELSE /\ answers' = [answers EXCEPT ![handler] = Append(@, r)]
              /\ UNCHANGED <<good, toServer>>

Stored == cmd.source \in DOMAIN store
Old    == IF Stored THEN store[cmd.source] ELSE <<>>

(* Mutant: the new bytes replace the old. *)
OnRecvCmdWriteOver ==
  /\ cmds # <<>> /\ cmd.cmdid = "WRITE"
  /\ store' = [s \in DOMAIN store \cup {cmd.source} |->
                 IF s = cmd.source THEN cmd.data ELSE store[s]]
  /\ Respond(Response("SUCCESS", <<>>, 0))
  /\ Done
  /\ UNCHANGED <<handler, clientVars>>

(* MemStreamPacketMap::Write makes the source if it is not there. *)
OnRecvCmdWrite ==
  /\ cmds # <<>> /\ cmd.cmdid = "WRITE"
  /\ store' = [s \in DOMAIN store \cup {cmd.source} |->
                 IF s = cmd.source THEN Old \o cmd.data ELSE store[s]]
  /\ Respond(Response("SUCCESS", <<>>, 0))
  /\ Done
  /\ UNCHANGED <<handler, clientVars>>

(* MemStream::Read: the bytes from offset on, as many as asked for or there. *)
Part(s) ==
  SubSeq(s, cmd.offset + 1,
         IF cmd.offset + cmd.length < Len(s) THEN cmd.offset + cmd.length
         ELSE Len(s))

(* Mutant: _sourceMap[source], which makes the source if it is not there. *)
OnRecvCmdReadMakes ==
  /\ cmds # <<>> /\ cmd.cmdid = "READ"
  /\ Respond(IF Stored THEN Response("SUCCESS", Part(Old), 0)
             ELSE Response("ERROR", <<>>, 0))
  /\ Done
  /\ store' = [s \in DOMAIN store \cup {cmd.source} |->
                 IF s = cmd.source THEN Old ELSE store[s]]
  /\ UNCHANGED <<handler, clientVars>>

OnRecvCmdRead ==
  /\ cmds # <<>> /\ cmd.cmdid = "READ"
  /\ Respond(IF Stored THEN Response("SUCCESS", Part(Old), 0)
             ELSE Response("ERROR", <<>>, 0))
  /\ Done
  /\ UNCHANGED <<store, handler, clientVars>>

OnRecvCmdDelete ==
  /\ cmds # <<>> /\ cmd.cmdid = "DELETE"
  /\ store' = [s \in DOMAIN store \ {cmd.source} |-> store[s]]
  /\ Respond(Response(IF Stored THEN "SUCCESS" ELSE "ERROR", <<>>, 0))
  /\ Done
  /\ UNCHANGED <<handler, clientVars>>

OnRecvCmdLength ==
  /\ cmds # <<>> /\ cmd.cmdid = "LENGTH"
  /\ Respond(IF Stored THEN Response("SUCCESS", <<>>, Len(Old))
             ELSE Response("ERROR", <<>>, 0))
  /\ Done
  /\ UNCHANGED <<store, handler, clientVars>>

(* Mutant: the rest of the packet is passed over with it. *)
OnRecvCmdOtherEnds ==
  /\ cmds # <<>> /\ cmd.cmdid = "NA"
  /\ cmds' = <<>>
  /\ UNCHANGED <<store, toServer, handler, good, clientVars, log, answers>>

(* No handler: the command is passed over. *)
OnRecvCmdOther ==
  /\ cmds # <<>> /\ cmd.cmdid = "NA"
  /\ cmds' = Tail(cmds)
  /\ UNCHANGED <<store, toServer, handler, good, clientVars, log, answers>>

-----------------------------------------------------------------------------
ClientStep ==
  \E c \in Clients : Leave(c) \/ \E packet \in Packets : SendPacket(c, packet)

ServerStep ==
  \/ \E c \in Clients : OnRecvPacket(c) \/ ReadGone(c)
  \/ OnRecvCmdWrite \/ OnRecvCmdRead \/ OnRecvCmdDelete \/ OnRecvCmdLength
  \/ OnRecvCmdOther

Next == ClientStep \/ ServerStep

Spec == Init /\ [][Next]_vars

(* The server's thread runs. *)
FairSpec == Spec /\ WF_vars(ServerStep)

-----------------------------------------------------------------------------
(* What a client waits for: its commands on their way that have a handler. *)
Commands(packet) == {packet[i] : i \in DOMAIN packet}

Requests(c) ==
  {k \in (IF handler = c THEN Commands(cmds) ELSE {})
           \cup UNION {Commands(Decode(toServer[c][i])) : i \in DOMAIN toServer[c]} :
     k.cmdid # "NA"}

Lost == left \cup {c \in Clients : ~good[c]}

(* Types of what is sent and stored. *)
Ids   == Clients \X (1 .. MaxCmds)
Bytes == Clients \X (1 .. MaxCmds) \X (1 .. MaxPart)
Cmds  == [refid : Ids, cmdid : CmdIDs, source : Sources, length : Nat,
          offset : Nat, data : Seq(Bytes)]
Responses == [refid : Ids, result : {"SUCCESS", "ERROR"}, data : Seq(Bytes),
              length : Nat]

(* Every variable has its type: all commands on their way, handled or answered
   bear the RefID of a client, and stored bytes are those of commands. *)
TypeOK ==
  /\ DOMAIN store \subseteq Sources
  /\ \A s \in DOMAIN store : store[s] \in Seq(Bytes)
  /\ toServer \in [Clients -> Seq(Seq(Cmds))]
  /\ handler \in Clients
  /\ cmds \in Seq(Cmds)
  /\ good \in [Clients -> BOOLEAN]
  /\ nsent \in [Clients -> 0 .. MaxCmds]
  /\ left \subseteq Clients
  /\ log \in Seq(Cmds)
  /\ answers \in [Clients -> Seq(Responses)]

(* What a client asks to read at once fits a packet.  The server does not
   look after that: an answer that does not fit is never sent. *)
ReadsFit ==
  \A packet \in Packets : \A i \in DOMAIN packet :
    packet[i].cmdid = "READ" => packet[i].length <= MaxPart

(* The commands of a client are handled, and answered, in the order it sent
   them.  The answers it gets are those to its own commands, without a gap;
   while its connection stands none is missing.  The clients match answers to
   requests by RefID, and read files back by writing the answers out in the
   order they come.  True only where ReadsFit. *)
AnsweredInOrder ==
  /\ \A i, j \in DOMAIN log :
       i < j /\ log[i].refid[1] = log[j].refid[1]
         => log[i].refid[2] < log[j].refid[2]
  /\ \A c \in Clients :
       LET answered == {answers[c][i].refid : i \in DOMAIN answers[c]}
           handled  == {id \in {log[j].refid : j \in DOMAIN log} : id[1] = c}
       IN  /\ \A i, j \in DOMAIN answers[c] :
                i < j => answers[c][i].refid[2] < answers[c][j].refid[2]
           /\ answered \subseteq handled
           /\ \A a \in answered, h \in handled : h[2] < a[2] => h \in answered
           /\ good[c] => answered = handled

(* A client that writes a source in parts finds them in it in the order it
   sent them and each once, whoever else writes to it in between, and after
   deletions as well. *)
WritersInOrder ==
  \A s \in DOMAIN store : \A i, j \in DOMAIN store[s] :
    LET a == store[s][i]
        b == store[s][j]
    IN  (i < j /\ a[1] = b[1]) =>
          a[2] < b[2] \/ (a[2] = b[2] /\ a[3] < b[3])

(* Parts of a source that were read at different times fit together: as long
   as the source is not deleted, what any client has read of it at an offset
   is what it holds there now. *)
PartsFit ==
  \A c \in Clients : \A i \in DOMAIN answers[c] : \A j \in DOMAIN log :
    LET a == answers[c][i]
        k == log[j]
    IN  ( /\ k.refid = a.refid /\ k.cmdid = "READ" /\ a.result = "SUCCESS"
          /\ \A l \in j + 1 .. Len(log) :
               ~(log[l].cmdid = "DELETE" /\ log[l].source = k.source) )
        => /\ k.source \in DOMAIN store
           /\ \A n \in DOMAIN a.data :
                /\ k.offset + n <= Len(store[k.source])
                /\ store[k.source][k.offset + n] = a.data[n]

(* The handlers and their map do what the log of commands says, one command
   at a time, for any interleaving of clients and any loss of connections.
   True only where ReadsFit. *)
Log == INSTANCE CommandLog
         WITH requests <- [c \in Clients |-> Requests(c)], lost <- Lost
ImplementsCommandLog == Log!Spec

(* A client that stays gets an answer to every command it sent that has a
   handler, unless the server loses the connection.  True only where what a
   client asks to read fits a packet. *)
RequestsAnswered ==
  \A id \in Clients \X (1 .. MaxCmds) :
    (\E k \in Requests(id[1]) : k.refid = id)
      ~> \/ id[1] \in Lost
         \/ \E i \in DOMAIN answers[id[1]] : answers[id[1]][i].refid = id
=============================================================================
