-------------------------------- MODULE Logger --------------------------------
(***************************************************************************)
(* The logging client (Logger/inc/LoggerGlobal.h, Logger/inc/Logger.h,     *)
(* Logger/src/Logger.cpp): every thread of a program formats its lines     *)
(* into the one stream of the one LSockLog and sends them, each as a       *)
(* packet, over its connection to the log server.  No lock protects the    *)
(* stream or the socket.                                                   *)
(*                                                                         *)
(* The log server goes and comes back, reads when it gets to it, and the   *)
(* rest of the program opens and closes descriptors of its own.  A write   *)
(* blocks while the server's buffer is full.                               *)
(***************************************************************************)
EXTENDS Integers, Sequences, FiniteSets, FiniteSetsExt

CONSTANTS
  Threads,
  Fds,         (* descriptors the process may have: numbers               *)
  MaxLines,    (* bound: lines a thread logs                              *)
  Pieces,      (* arguments of a line, each one an insertion              *)
  TooLong,     (* the lines whose text no packet can carry                *)
  Capacity,    (* packets the connection holds                            *)
  MaxRestarts  (* bound: how often the log server comes back              *)

ASSUME LoggerAssumption ==
  /\ IsFiniteSet(Threads) /\ IsFiniteSet(Fds) /\ Fds \subseteq Nat /\ Fds # {}
  /\ MaxLines \in Nat /\ Pieces \in Nat /\ MaxRestarts \in Nat
  /\ TooLong \subseteq Threads \X Nat
  /\ Capacity \in Nat \ {0}

NoFd == -1

VARIABLES
  (* the process *)
  os,           (* _os: the pieces inserted into the stream                *)
  sock,         (* _sock of the one LSockLog                               *)
  pc,           (* where each thread is in LogLineGlobalFormatPacket       *)
  inserted,     (* pieces of its line a thread has inserted                *)
  text,         (* SendPacket's local s: what the thread is going to send  *)
  fd,           (* the descriptor a thread has passed to write or close    *)
  owner,        (* of every open descriptor: "log" or "other"              *)
  (* the log server *)
  up, restarts,
  connected,    (* is the logger's connection to a server that runs?       *)
  queue,        (* packets written to it and not read                      *)
  log,          (* what log servers have displayed                         *)
  (* history *)
  line,         (* how many lines each thread has begun                    *)
  mixed,        (* threads whose line others may have disturbed            *)
  raced,        (* have two threads been in SendRaw at once?               *)
  before,       (* of every line a thread began: how many of each thread's *)
                (* calls had returned by then                              *)
  spoilt,       (* lines no packet was made of, or whose text others       *)
                (* disturbed                                               *)
  foreign       (* has the logger used a descriptor of others?             *)

serverVars == <<up, restarts, connected, queue, log>>
threadVars == <<inserted, text, fd>>
vars == <<os, sock, pc, threadVars, owner, serverVars, line, mixed,
          raced, before, spoilt, foreign>>

Formatting == {t \in Threads : pc[t] = "format"}
Sending    == {t \in Threads : pc[t] \in {"send", "write", "close", "clear"}}
Free       == Fds \ DOMAIN owner

(* The text of the n-th line of t: its prefix and its pieces. *)
Text(t, n) == [i \in 1 .. Pieces + 1 |-> <<t, n, i>>]
Garbled    == <<>>

Goto(t, l)    == pc' = [pc EXCEPT ![t] = l]
With(f, x, v) == [y \in DOMAIN f \cup {x} |-> IF y = x THEN v ELSE f[y]]
Without(f, x) == [y \in DOMAIN f \ {x} |-> f[y]]

(* The first line that is logged constructs the LSockLog, which tries to
   connect and gives its socket up if it cannot. *)
Construct ==
  /\ up \in BOOLEAN
  /\ connected = up
  /\ IF up THEN sock = Min(Fds) /\ owner = [d \in {sock} |-> "log"]
           ELSE sock = NoFd /\ owner = <<>>

Init ==
  /\ Construct
  /\ os = <<>>
  /\ pc = [t \in Threads |-> "idle"]
  /\ inserted = [t \in Threads |-> 0]
  /\ text = [t \in Threads |-> <<>>]
  /\ fd = [t \in Threads |-> NoFd]
  /\ restarts = 0
  /\ queue = <<>>
  /\ log = <<>>
  /\ line = [t \in Threads |-> 0]
  /\ mixed = {}
  /\ raced = FALSE
  /\ before = [t \in Threads |-> <<>>]
  /\ spoilt = {}
  /\ foreign = FALSE

-----------------------------------------------------------------------------
(* The lines that may come out disturbed when t changes the stream now. *)
Disturbs(t) == Formatting \ {t}

(* Is another thread changing the stream when t begins its line? *)
Disturbed(t) == \E u \in Threads \ {t} : pc[u] \in {"format", "reset"}

(* How many calls of t have returned. *)
Returned(t) == IF pc[t] = "idle" THEN line[t] ELSE line[t] - 1

Begin(t, stream) ==
  /\ pc[t] = "idle" /\ line[t] < MaxLines
  /\ Goto(t, "format")
  /\ line' = [line EXCEPT ![t] = @ + 1]
  /\ before' = [before EXCEPT ![t] = Append(@, [u \in Threads |-> Returned(u)])]
  /\ os' = Append(stream, <<t, line'[t], 1>>)
  /\ inserted' = [inserted EXCEPT ![t] = 1]
  /\ mixed' = mixed \cup Disturbs(t) \cup {u \in {t} : Disturbed(u)}
  /\ UNCHANGED <<sock, text, fd, owner, serverVars, raced, spoilt, foreign>>

(* Mutant: Get leaves what is in the stream. *)
GetKeeps(t) == Begin(t, os)

(* Get: the stream is emptied and the prefix of the line put into it. *)
Get(t) == Begin(t, <<>>)

(* LogLineGlobalFormat: the next argument. *)
Format(t) ==
  /\ pc[t] = "format" /\ inserted[t] <= Pieces
  /\ inserted' = [inserted EXCEPT ![t] = @ + 1]
  /\ os' = Append(os, <<t, line[t], inserted'[t]>>)
  /\ mixed' = mixed \cup Disturbs(t)
  /\ UNCHANGED <<sock, pc, text, fd, owner, serverVars, line, raced, before,
                 spoilt, foreign>>

(* SendPacket: takes the text.  If no packet can be made of it SendRaw returns
   at once, and the stream keeps it.  A disturbed text may be anything. *)
SendPacket(t) ==
  /\ pc[t] = "format" /\ inserted[t] = Pieces + 1
  /\ LET clean == t \notin mixed
         size  == IF clean THEN {<<t, line[t]>> \notin TooLong} ELSE BOOLEAN
     IN  \E fits \in size :
           /\ text' = [text EXCEPT ![t] = IF clean /\ fits THEN os ELSE Garbled]
           /\ Goto(t, IF fits THEN "send" ELSE "idle")
           /\ raced' = (raced \/ (fits /\ Sending # {}))
           /\ spoilt' = spoilt \cup {l \in {<<t, line[t]>>} : ~(clean /\ fits)}
  /\ mixed' = mixed \ {t}
  /\ inserted' = [inserted EXCEPT ![t] = 0]
  /\ UNCHANGED <<os, sock, fd, owner, serverVars, line, before, foreign>>

-----------------------------------------------------------------------------
(* SendRaw.  The rest of the stream's and the threads' state: *)
Unsent == <<os, inserted, text, line, mixed, raced, before, spoilt>>

(* Without a socket Connect() is tried on the descriptor -1, and fails. *)
Connect(t) ==
  /\ pc[t] = "send"
  /\ fd' = [fd EXCEPT ![t] = sock]
  /\ Goto(t, IF sock = NoFd THEN "reset" ELSE "write")
  /\ UNCHANGED <<Unsent, sock, owner, serverVars, foreign>>

IsOwn(d)   == d \in DOMAIN owner /\ owner[d] = "log"
IsOther(d) == d \in DOMAIN owner /\ owner[d] = "other"

(* Mutant: a write that fails is tried again. *)
WriteRetries(t) ==
  /\ pc[t] = "write"
  /\ IsOwn(fd[t]) /\ connected /\ Len(queue) < Capacity
  /\ queue' = Append(queue, [by |-> t, no |-> line[t], text |-> text[t]])
  /\ Goto(t, "reset")
  /\ UNCHANGED <<Unsent, sock, fd, owner, up, restarts, connected, log, foreign>>

(* Mutant: a write that finds the server's buffer full gives the line up. *)
WriteDropsWhenFull(t) ==
  /\ pc[t] = "write"
  /\ IF IsOwn(fd[t]) /\ connected
     THEN /\ IF Len(queue) < Capacity
             THEN queue' = Append(queue, [by |-> t, no |-> line[t], text |-> text[t]])
             ELSE UNCHANGED queue
          /\ Goto(t, "reset")
     ELSE /\ UNCHANGED queue
          /\ Goto(t, IF IsOther(fd[t]) THEN "reset" ELSE "close")
  /\ foreign' = (foreign \/ IsOther(fd[t]))
  /\ UNCHANGED <<Unsent, sock, fd, owner, up, restarts, connected, log>>

(* write(fd(), ..): fd() was read before the call. *)
Write(t) ==
  /\ pc[t] = "write"
  /\ IF IsOwn(fd[t]) /\ connected
     THEN /\ Len(queue) < Capacity
          /\ queue' = Append(queue, [by |-> t, no |-> line[t], text |-> text[t]])
          /\ Goto(t, "reset")
     ELSE /\ UNCHANGED queue
          /\ Goto(t, IF IsOther(fd[t]) THEN "reset" ELSE "close")
  /\ foreign' = (foreign \/ IsOther(fd[t]))
  /\ UNCHANGED <<Unsent, sock, fd, owner, up, restarts, connected, log>>

(* Write failed: Release() closes the socket, unless that was done ... *)
Close(t) ==
  /\ pc[t] = "close"
  /\ IF sock = NoFd
     THEN /\ Goto(t, "reset")
          /\ UNCHANGED <<owner, foreign>>
     ELSE /\ Goto(t, "clear")
          /\ owner' = Without(owner, sock)
          /\ foreign' = (foreign \/ IsOther(sock))
  /\ UNCHANGED <<Unsent, sock, fd, serverVars>>

(* Mutant: _sock keeps its value. *)
ClearNothing(t) ==
  /\ pc[t] = "clear"
  /\ Goto(t, "reset")
  /\ UNCHANGED <<Unsent, sock, fd, owner, serverVars, foreign>>

(* ... and notes that it is closed. *)
Clear(t) ==
  /\ pc[t] = "clear"
  /\ sock' = NoFd
  /\ Goto(t, "reset")
  /\ UNCHANGED <<Unsent, fd, owner, serverVars, foreign>>

(* Reset(); SendRaw returns, its locals are gone. *)
Reset(t) ==
  /\ pc[t] = "reset"
  /\ os' = <<>>
  /\ mixed' = mixed \cup Disturbs(t)
  /\ text' = [text EXCEPT ![t] = <<>>]
  /\ fd' = [fd EXCEPT ![t] = NoFd]
  /\ Goto(t, "idle")
  /\ UNCHANGED <<sock, inserted, owner, serverVars, line, raced, before, spoilt,
                 foreign>>

-----------------------------------------------------------------------------
(* The log server, and the rest of the process. *)

Elsewhere == UNCHANGED <<Unsent, sock, pc, fd, foreign>>

ServerRead ==
  /\ up /\ queue # <<>>
  /\ log' = Append(log, Head(queue))
  /\ queue' = Tail(queue)
  /\ UNCHANGED <<owner, up, restarts, connected>> /\ Elsewhere

(* What it has not read is lost. *)
ServerDown ==
  /\ up
  /\ up' = FALSE /\ connected' = FALSE /\ queue' = <<>>
  /\ UNCHANGED <<owner, restarts, log>> /\ Elsewhere

ServerUp ==
  /\ ~up /\ restarts < MaxRestarts
  /\ up' = TRUE /\ restarts' = restarts + 1
  /\ UNCHANGED <<owner, connected, queue, log>> /\ Elsewhere

OpenOther ==
  /\ Free # {}
  /\ owner' = With(owner, Min(Free), "other")
  /\ UNCHANGED serverVars /\ Elsewhere

CloseOther ==
  /\ \E d \in DOMAIN owner : owner[d] = "other" /\ owner' = Without(owner, d)
  /\ UNCHANGED serverVars /\ Elsewhere

-----------------------------------------------------------------------------
LogStep(t) ==
  \/ Get(t) \/ Format(t) \/ SendPacket(t)
  \/ Connect(t) \/ Write(t) \/ Close(t) \/ Clear(t) \/ Reset(t)

(* A call that has begun. *)
CallStep(t) == pc[t] # "idle" /\ LogStep(t)

Next ==
  \/ \E t \in Threads : LogStep(t)
  \/ ServerRead \/ ServerDown \/ ServerUp \/ OpenOther \/ CloseOther

Spec == Init /\ [][Next]_vars

(* Threads run, and a log server that runs reads what it was sent. *)
FairSpec ==
  /\ Spec
  /\ \A t \in Threads : WF_vars(CallStep(t))
  /\ WF_vars(ServerRead)

-----------------------------------------------------------------------------
(* A line on its way to the log server, or logged. *)
Record == [by : Threads, no : Nat, text : Seq(Threads \X Nat \X Nat)]

(* Every variable has its type. *)
TypeOK ==
  /\ os \in Seq(Threads \X Nat \X Nat)
  /\ sock \in Fds \cup {NoFd}
  /\ pc \in [Threads -> {"idle", "format", "send", "write", "close", "clear",
                         "reset"}]
  /\ inserted \in [Threads -> 0 .. Pieces + 1]
  /\ text \in [Threads -> Seq(Threads \X Nat \X Nat)]
  /\ fd \in [Threads -> Fds \cup {NoFd}]
  /\ \E D \in SUBSET Fds : owner \in [D -> {"log", "other"}]
  /\ up \in BOOLEAN /\ restarts \in Nat /\ connected \in BOOLEAN
  /\ queue \in Seq(Record) /\ log \in Seq(Record)
  /\ line \in [Threads -> Nat]
  /\ mixed \subseteq Formatting
  /\ before \in [Threads -> Seq([Threads -> Int])]
  /\ spoilt \subseteq Threads \X Nat
  /\ raced \in BOOLEAN /\ foreign \in BOOLEAN

(* A line whose thread had the stream to itself from Get to SendPacket is
   logged as it was formatted, with nothing of another line in it: not of one
   that was too long to be sent, nor of one that others disturbed. *)
IntactIfAlone ==
  \A i \in DOMAIN log :
    log[i].text # Garbled => log[i].text = Text(log[i].by, log[i].no)

(* The descriptor of a socket that is lost may be given to another part of the
   program: as long as no two threads are in SendRaw at once, the logger
   neither writes to it nor closes it. *)
OwnDescriptor == foreign => raced

(* A line is logged behind every line, of whatever thread, whose call had
   returned when its own began, and none twice: the log is the beginning of what
   the program logged, without a gap.  Lines are told by their text; those no
   packet was made of, or whose text others disturbed, are excepted.  After a
   write that failed this rests on the logger never having a connection again,
   as Connect() does not make it a socket. *)
NoGaps ==
  /\ \A i, j \in DOMAIN log :
       log[i].text = log[j].text /\ log[j].text # Garbled => i = j
  /\ \A j \in DOMAIN log, t \in Threads : \A n \in 1 .. line[t] :
       log[j].text = Text(t, n) =>
         \A u \in Threads : \A k \in 1 .. before[t][n][u] :
           \/ <<u, k>> \in spoilt
           \/ \E i \in 1 .. j - 1 : log[i].text = Text(u, k)

(* A call returns, also when the log server stops and when its buffer was full. *)
CallReturns == \A t \in Threads : pc[t] # "idle" ~> pc[t] = "idle"
=============================================================================
