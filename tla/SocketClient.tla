----------------------------- MODULE SocketClient -----------------------------
(***************************************************************************)
(* SocketClient (SockLib/inc/SocketClient.h, Util/inc/Loop.h): a program   *)
(* that talks to one of the servers.  ConnectServer tries to connect,      *)
(* LoopStart, on a thread of its own, reads with a timeout of a second and *)
(* gives what it reads to OnRecv until the connection ends or LoopStop     *)
(* tells it to stop.  OnRecv is that of SocketClientPacket (PacketParser), *)
(* and the other side, which sends the packets, may close the connection,  *)
(* or reset it, at any time.                                               *)
(***************************************************************************)
EXTENDS PacketParser

CONSTANTS
  ReadLen,      (* buffLen: the most one read takes                        *)
  MaxTries      (* how often ConnectServer tries                           *)

ASSUME ClientAssumption == ReadLen \in Nat \ {0} /\ MaxTries \in Nat \ {0}

VARIABLES
  phase,        (* "connect"; "connected" or "failed"; in LoopStart        *)
                (* "test" of _exit, "read", "recv", "end"; "ended"         *)
  tries,        (* ntry                                                    *)
  exit,         (* _loop._exit                                             *)
  result,       (* LoopStart's result                                      *)
  closed        (* what the other side did: "no", "fin" or "reset"         *)

clientVars == <<phase, tries, exit, result, closed>>
socketVars == <<vars, clientVars>>

ClientInit ==
  /\ Init
  /\ phase = "connect" /\ tries = 0
  /\ exit = FALSE
  /\ result = "SR_ERROR"
  /\ closed = "no"

Connected == phase \notin {"connect", "failed"}

-----------------------------------------------------------------------------
(* The other side. *)

ServerSend ==
  /\ Connected /\ closed = "no"
  /\ \E p \in Payloads : SendPacket(p)
  /\ UNCHANGED clientVars

ServerEnd(how) ==
  /\ Connected /\ closed = "no"
  /\ closed' = how
  /\ UNCHANGED <<vars, phase, tries, exit, result>>

-----------------------------------------------------------------------------
(* ConnectServer: one call of Connect. *)
Connect(success) ==
  /\ phase = "connect"
  /\ tries' = tries + 1
  /\ phase' = IF success THEN "connected"
              ELSE IF tries' < MaxTries THEN "connect" ELSE "failed"
  /\ UNCHANGED <<vars, exit, result, closed>>

LoopStart ==
  /\ phase = "connected"
  /\ phase' = "test"
  /\ UNCHANGED <<vars, tries, exit, result, closed>>

(* Any thread. *)
LoopStop ==
  /\ ~exit
  /\ exit' = TRUE
  /\ UNCHANGED <<vars, phase, tries, result, closed>>

(* Mutant: the loop is not told. *)
LoopTestForgotten ==
  /\ phase = "test"
  /\ phase' = "read"
  /\ UNCHANGED <<vars, tries, exit, result, closed>>

(* Loop::Start: before each turn. *)
LoopTest ==
  /\ phase = "test"
  /\ phase' = IF exit THEN "end" ELSE "read"
  /\ UNCHANGED <<vars, tries, exit, result, closed>>

(* Read returns data, and OnRecv is called; after a reset what has not been
   read may still be, or be lost (ReadFails). *)
ReadData ==
  /\ phase = "read"
  /\ \E n \in 1 .. Len(net) : n <= ReadLen /\ Recv(n)
  /\ phase' = "recv"
  /\ UNCHANGED <<tries, exit, result, closed>>

(* OnRecv runs, and returns. *)
RunOnRecv ==
  /\ phase = "recv" /\ OnRecvStep
  /\ IF pc' = "idle" THEN phase' = "test" /\ result' = "SR_ERROR_AGAIN"
                     ELSE UNCHANGED <<phase, result>>
  /\ UNCHANGED <<tries, exit, closed>>

(* Mutant: a timeout ends the loop. *)
ReadTimeoutEnds ==
  /\ phase = "read" /\ net = <<>> /\ closed = "no"
  /\ phase' = "end" /\ result' = "SR_ERROR_AGAIN"
  /\ UNCHANGED <<vars, tries, exit, closed>>

(* Read fails with EAGAIN after a second. *)
ReadTimeout ==
  /\ phase = "read" /\ net = <<>> /\ closed = "no"
  /\ phase' = "test" /\ result' = "SR_ERROR_AGAIN"
  /\ UNCHANGED <<vars, tries, exit, closed>>

(* Mutant: the loop ends as soon as the other side has closed. *)
ReadZeroEarly ==
  /\ phase = "read" /\ closed = "fin"
  /\ phase' = "end" /\ result' = "SR_ERROR_CONNECT"
  /\ UNCHANGED <<vars, tries, exit, closed>>

(* Read returns 0 and has released the socket. *)
ReadZero ==
  /\ phase = "read" /\ net = <<>> /\ closed = "fin"
  /\ phase' = "end" /\ result' = "SR_ERROR_CONNECT"
  /\ UNCHANGED <<vars, tries, exit, closed>>

ReadFails ==
  /\ phase = "read" /\ closed = "reset"
  /\ phase' = "end" /\ result' = "SR_ERROR_READ"
  /\ UNCHANGED <<vars, tries, exit, closed>>

(* LoopStart returns: SR_SUCCESS if it was told to stop. *)
LoopEnd ==
  /\ phase = "end"
  /\ phase' = "ended"
  /\ result' = IF exit \/ result = "SR_ERROR_AGAIN" THEN "SR_SUCCESS" ELSE result
  /\ UNCHANGED <<vars, tries, exit, closed>>

-----------------------------------------------------------------------------
LoopStep ==
  \/ LoopStart \/ LoopTest
  \/ ReadData \/ RunOnRecv \/ ReadTimeout \/ ReadZero \/ ReadFails
  \/ LoopEnd

ClientNext ==
  \/ ServerSend \/ ServerEnd("fin") \/ ServerEnd("reset")
  \/ \E success \in BOOLEAN : Connect(success)
  \/ LoopStop \/ LoopStep

ClientSpec == ClientInit /\ [][ClientNext]_socketVars

(* A connected client calls LoopStart, and its thread runs. *)
FairSpec == ClientSpec /\ WF_socketVars(LoopStep)

-----------------------------------------------------------------------------
ClientTypeOK ==
  /\ TypeOK
  /\ phase \in {"connect", "connected", "failed", "test", "read", "recv",
                "end", "ended"}
  /\ tries \in 0 .. MaxTries
  /\ exit \in BOOLEAN
  /\ result \in {"SR_ERROR", "SR_ERROR_AGAIN", "SR_ERROR_CONNECT",
                 "SR_ERROR_READ", "SR_SUCCESS"}
  /\ closed \in {"no", "fin", "reset"}

(* LoopStart returns SR_SUCCESS only when it was told to stop: no pause of the
   other side, however long, and no end of the connection passes for that; and
   an error only when the other side has ended the connection. *)
ResultSaysWhy ==
  phase = "ended" =>
    /\ result = "SR_SUCCESS" => exit
    /\ result = "SR_ERROR_CONNECT" => closed = "fin"
    /\ result = "SR_ERROR_READ" => closed = "reset"

(* LoopStart returns after LoopStop, also when nothing arrives any more or more
   and more does, and when the connection ends. *)
LoopEnds ==
  (phase \in {"test", "read", "recv"} /\ (exit \/ closed # "no")) ~> phase = "ended"

-----------------------------------------------------------------------------
Ended ==
  IF phase # "ended" THEN "no"
  ELSE IF result = "SR_ERROR_CONNECT" THEN "closed" ELSE "left"

Channel == INSTANCE PacketChannel WITH sent <- PayloadsOf(sent), ended <- Ended

(* As long as no frame in progress is written over, the client's packets are
   those of the channel its program is promised. *)
ImplementsChannel == Channel!Spec
=============================================================================
