----------------------------- MODULE SocketServer -----------------------------
(***************************************************************************)
(* SocketServer (SockLib/inc/SocketServer.h): the epoll loop that accepts  *)
(* clients, reads what they send, hands it to OnRecv and drops the clients *)
(* that hang up; with the sockets below it (Socket.cpp, SocketTCP.cpp),    *)
(* the descriptors and the edge-triggered epoll of the kernel, and the     *)
(* peers.                                                                  *)
(*                                                                         *)
(* The server runs on one thread; what interleaves with it are the peers,  *)
(* who send and leave between any two of its system calls, and the main    *)
(* thread, which tells it to stop and then calls Release().                *)
(*                                                                         *)
(* A descriptor is a number the kernel uses again as soon as it is closed, *)
(* and the server keeps its clients under it (_clientList).  A client      *)
(* whose Read or Write finds the connection gone closes its descriptor     *)
(* itself (Socket::Release), without the list or the epoll loop knowing.   *)
(***************************************************************************)
EXTENDS Integers, Sequences, FiniteSets, FiniteSetsExt

CONSTANTS
  Conns,       (* connections a peer may open                              *)
  Fds,         (* descriptors the process has for them: numbers            *)
  MaxSend,     (* bound: pieces of data sent on a connection               *)
  WriteFails,  (* may a handler's answer find the peer's buffer full or    *)
               (* the peer gone? a subset of BOOLEAN                       *)
  Resets       (* the connections the peer may reset                       *)

ASSUME ServerAssumption ==
  /\ Fds \subseteq Nat /\ IsFiniteSet(Fds) /\ IsFiniteSet(Conns)
  /\ MaxSend \in Nat
  /\ WriteFails \subseteq BOOLEAN /\ Resets \subseteq Conns

Listener == -2   \* the server's own socket
NoFd     == -1   \* _sock of a socket that was released
NoEvent  == [fd |-> NoFd, hup |-> FALSE, conn |-> {}]

VARIABLES
  (* the peers and the kernel *)
  peer,         (* "none", "open", "closed" (FIN sent) or "reset"           *)
  inbox,        (* pieces of data that have arrived and were not read       *)
  nsent,        (* pieces of data the peer has sent                         *)
  backlog,      (* connections waiting for accept                           *)
  fdConn,       (* the connection of every open descriptor                  *)
  ready,        (* the epoll ready list; its order is left open            *)
  (* the server *)
  pc,           (* "loop" at the test of _exit, "wait" in epoll_wait,       *)
                (* "event", "accept", "recv", "answer", "hangup" in the     *)
                (* handling of an event, "release", "released"              *)
  events,       (* of the last epoll_wait, those still to be handled        *)
  event,        (* the one that is being handled                            *)
  stream,       (* Recv's local: the pieces read so far                     *)
  clientList,   (* _clientList._map: the _sock of the client of every key   *)
  size,         (* _clientList._size                                        *)
  exit,         (* _exit of the loop                                        *)
  (* history *)
  client,       (* the connection every entry of _clientList stands for     *)
  handed,       (* pieces of each connection that were given to OnRecv      *)
  reported,     (* how often OnDisconnect was called for each connection    *)
  failed        (* the connections an answer to which has failed            *)

kernelVars == <<peer, inbox, nsent, backlog>>
listVars   == <<clientList, size, client>>
batchVars  == <<events, event, stream>>
vars == <<kernelVars, fdConn, ready, pc, batchVars, listVars, exit, handed,
          reported, failed>>

Open == DOMAIN fdConn
Free == Fds \ Open

Init ==
  /\ peer = [c \in Conns |-> "none"]
  /\ inbox = [c \in Conns |-> 0]
  /\ nsent = [c \in Conns |-> 0]
  /\ backlog = <<>>
  /\ fdConn = <<>>
  /\ ready = {}
  /\ pc = "loop"
  /\ events = {}
  /\ event = NoEvent
  /\ stream = 0
  /\ clientList = <<>>
  /\ size = 0
  /\ exit = FALSE
  /\ client = <<>>
  /\ handed = [c \in Conns |-> 0]
  /\ reported = [c \in Conns |-> 0]
  /\ failed = {}

-----------------------------------------------------------------------------
(* Finite maps. *)
With(f, x, v) == [y \in DOMAIN f \cup {x} |-> IF y = x THEN v ELSE f[y]]
Without(f, x) == [y \in DOMAIN f \ {x} |-> f[y]]

(* The edge on the descriptor of c, if it has one. *)
EdgeOf(c) == ready' = ready \cup {fd \in Open : fdConn[fd] = c}

Gone(c) == peer[c] \in {"closed", "reset"}

(* Is c accepted and closed on the server's side? *)
Dropped(c) ==
  /\ peer[c] # "none"
  /\ \A i \in DOMAIN backlog : backlog[i] # c
  /\ \A fd \in Open : fdConn[fd] # c

-----------------------------------------------------------------------------
(* The peers. *)

serverVars == <<fdConn, pc, batchVars, listVars, exit, handed, reported,
                failed>>

Connect(c) ==
  /\ peer[c] = "none" /\ pc # "released"
  /\ peer' = [peer EXCEPT ![c] = "open"]
  /\ backlog' = Append(backlog, c)
  /\ ready' = ready \cup {Listener}
  /\ UNCHANGED <<inbox, nsent, serverVars>>

PeerSend(c) ==
  /\ peer[c] = "open" /\ ~Dropped(c)
  /\ nsent[c] < MaxSend
  /\ nsent' = [nsent EXCEPT ![c] = @ + 1]
  /\ inbox' = [inbox EXCEPT ![c] = @ + 1]
  /\ EdgeOf(c)
  /\ UNCHANGED <<peer, backlog, serverVars>>

PeerClose(c) ==
  /\ peer[c] = "open"
  /\ peer' = [peer EXCEPT ![c] = "closed"]
  /\ EdgeOf(c)
  /\ UNCHANGED <<inbox, nsent, backlog, serverVars>>

(* What had not been read may be lost. *)
PeerReset(c) ==
  /\ c \in Resets
  /\ peer[c] = "open"
  /\ peer' = [peer EXCEPT ![c] = "reset"]
  /\ \E kept \in {0, inbox[c]} : inbox' = [inbox EXCEPT ![c] = kept]
  /\ EdgeOf(c)
  /\ UNCHANGED <<nsent, backlog, serverVars>>

-----------------------------------------------------------------------------
(* LoopListen and LoopListenSingleShot *)

Loop ==
  /\ pc = "loop"
  /\ pc' = IF exit THEN "release" ELSE "wait"
  /\ UNCHANGED <<kernelVars, fdConn, ready, batchVars, listVars, exit, handed,
                 reported, failed>>

(* What epoll_wait reports of a descriptor on the ready list: what is true of
   it now.  A FIN or a reset makes it readable too. *)
In(fd) ==
  IF fd = Listener THEN backlog # <<>>
  ELSE inbox[fdConn[fd]] > 0 \/ Gone(fdConn[fd])

Event(fd) ==
  [fd |-> fd, hup |-> fd # Listener /\ Gone(fdConn[fd]),
   conn |-> IF fd = Listener THEN {} ELSE {fdConn[fd]}]

(* epoll_wait returns what there is, nothing after a second. *)
EpollWait ==
  /\ pc = "wait"
  /\ events' = {Event(fd) : fd \in {x \in ready : In(x)}}
  /\ ready' = {}
  /\ pc' = IF events' = {} THEN "loop" ELSE "event"
  /\ UNCHANGED <<kernelVars, fdConn, event, stream, listVars, exit, handed,
                 reported, failed>>

(* The next event of the batch.  EPOLLIN, which every event has: Accept() or
   Recv(fd). *)
HandleIn ==
  /\ pc = "event"
  /\ \E e \in events :
       /\ event' = e /\ events' = events \ {e}
       /\ pc' = IF e.fd = Listener THEN "accept"
                ELSE IF e.fd \in DOMAIN clientList THEN "recv" ELSE "hangup"
  /\ stream' = 0
  /\ UNCHANGED <<kernelVars, fdConn, ready, listVars, exit, handed, reported,
                 failed>>

(* Mutant: the client is not counted. *)
AcceptUncounted ==
  /\ pc = "accept"
  /\ backlog # <<>> /\ Free # {}
  /\ LET fd == Min(Free)
         c  == Head(backlog)
     IN  /\ fdConn' = With(fdConn, fd, c)
         /\ ready' = IF inbox[c] > 0 \/ Gone(c) THEN ready \cup {fd} ELSE ready
         /\ clientList' = With(clientList, fd, fd)
         /\ client' = With(client, fd, c)
  /\ backlog' = Tail(backlog)
  /\ UNCHANGED <<peer, inbox, nsent, pc, batchVars, exit, handed, reported,
                 size, failed>>

(* Accept(): one accept of its loop.  _clientList.set assigns over an entry
   that is still there and counts one more in any case. *)
Accept ==
  /\ pc = "accept"
  /\ backlog # <<>> /\ Free # {}
  /\ LET fd == Min(Free)
         c  == Head(backlog)
     IN  /\ fdConn' = With(fdConn, fd, c)
         /\ ready' = IF inbox[c] > 0 \/ Gone(c) THEN ready \cup {fd} ELSE ready
         /\ clientList' = With(clientList, fd, fd)
         /\ client' = With(client, fd, c)
  /\ backlog' = Tail(backlog)
  /\ size' = size + 1
  /\ UNCHANGED <<peer, inbox, nsent, pc, batchVars, exit, handed, reported,
                 failed>>

(* accept fails: EAGAIN, or no descriptor is left (OnErrorServer). *)
AcceptEnd ==
  /\ pc = "accept"
  /\ backlog = <<>> \/ Free = {}
  /\ pc' = "hangup"
  /\ UNCHANGED <<kernelVars, fdConn, ready, batchVars, listVars, exit, handed,
                 reported, failed>>

-----------------------------------------------------------------------------
(* Recv(fd) *)

sock == clientList[event.fd]   \* clt->_sock
conn == fdConn[sock]

(* Socket::Release by the client under key fd: close takes the descriptor off
   the epoll set. *)
CloseSock(fd) ==
  /\ fdConn' = Without(fdConn, clientList[fd])
  /\ ready' = ready \ {clientList[fd]}

(* clt->Read returns data. *)
ReadData ==
  /\ pc = "recv"
  /\ inbox[conn] > 0
  /\ inbox' = [inbox EXCEPT ![conn] = @ - 1]
  /\ stream' = stream + 1
  /\ UNCHANGED <<peer, nsent, backlog, fdConn, ready, pc, events, event,
                 listVars, exit, handed, reported, failed>>

(* clt->OnRecv(stream) *)
OnRecv(next) ==
  /\ handed' = [handed EXCEPT ![conn] = @ + stream]
  /\ pc' = next

(* clt->Read fails with EAGAIN: OnRecv in any case. *)
ReadAgain ==
  /\ pc = "recv"
  /\ peer[conn] = "open" /\ inbox[conn] = 0
  /\ OnRecv("answer")
  /\ UNCHANGED <<kernelVars, fdConn, ready, batchVars, listVars, exit,
                 reported, failed>>

(* Mutant: the answer goes to any client. *)
AnswerAny ==
  /\ pc = "answer"
  /\ pc' = "hangup"
  /\ \/ \E fd \in Open : /\ CloseSock(fd)
                         /\ clientList' = [clientList EXCEPT ![fd] = NoFd]
     \/ UNCHANGED <<fdConn, ready, clientList>>
  /\ UNCHANGED <<kernelVars, batchVars, size, client, exit, handed, reported,
                 failed>>

(* The handler may answer, and a Write that fails, for want of room in the
   peer's buffer as well, releases the socket.  (When Read has released it
   Write does nothing.) *)
Answer ==
  /\ pc = "answer"
  /\ pc' = "hangup"
  /\ \E fails \in WriteFails :
       IF fails
       THEN /\ CloseSock(event.fd)
            /\ clientList' = [clientList EXCEPT ![event.fd] = NoFd]
            /\ failed' = failed \cup {conn}
       ELSE UNCHANGED <<fdConn, ready, clientList, failed>>
  /\ UNCHANGED <<kernelVars, batchVars, size, client, exit, handed, reported>>

(* Mutants: the socket does not note that it is closed; the client is reported
   gone but kept; what had been read is dropped. *)
ReadGoneKeepsSock ==
  /\ pc = "recv"
  /\ Gone(conn) /\ inbox[conn] = 0
  /\ OnRecv("hangup")
  /\ CloseSock(event.fd)
  /\ UNCHANGED <<kernelVars, batchVars, listVars, exit, reported, failed>>

ReadGoneReports ==
  /\ pc = "recv"
  /\ Gone(conn) /\ inbox[conn] = 0
  /\ OnRecv("hangup")
  /\ CloseSock(event.fd)
  /\ clientList' = [clientList EXCEPT ![event.fd] = NoFd]
  /\ reported' = [reported EXCEPT ![conn] = @ + 1]
  /\ UNCHANGED <<kernelVars, batchVars, size, client, exit, failed>>

ReadGoneForgets ==
  /\ pc = "recv"
  /\ Gone(conn) /\ inbox[conn] = 0
  /\ pc' = "hangup"
  /\ CloseSock(event.fd)
  /\ clientList' = [clientList EXCEPT ![event.fd] = NoFd]
  /\ UNCHANGED <<kernelVars, batchVars, size, client, exit, handed, reported,
                 failed>>

(* clt->Read returns 0, or fails because the peer reset the connection: it
   releases the socket, and OnRecv gets what had been read. *)
ReadGone ==
  /\ pc = "recv"
  /\ Gone(conn) /\ inbox[conn] = 0
  /\ OnRecv("hangup")
  /\ CloseSock(event.fd)
  /\ clientList' = [clientList EXCEPT ![event.fd] = NoFd]
  /\ UNCHANGED <<kernelVars, batchVars, size, client, exit, reported, failed>>

-----------------------------------------------------------------------------
(* Mutant: a client that Release() disconnects is not counted off. *)
DisconnectUncounted(fd) ==
  /\ clientList' = Without(clientList, fd)
  /\ client' = Without(client, fd)
  /\ size' = IF pc = "release" THEN size ELSE size - 1
  /\ reported' = [reported EXCEPT ![client[fd]] = @ + 1]
  /\ IF clientList[fd] = NoFd THEN UNCHANGED <<fdConn, ready>>
     ELSE CloseSock(fd)

(* Disconnect(fd): the entry is taken off the list, OnDisconnect is called and
   the socket, if it is still open, closed. *)
Disconnect(fd) ==
  /\ clientList' = Without(clientList, fd)
  /\ client' = Without(client, fd)
  /\ size' = size - 1
  /\ reported' = [reported EXCEPT ![client[fd]] = @ + 1]
  /\ IF clientList[fd] = NoFd THEN UNCHANGED <<fdConn, ready>>
     ELSE CloseSock(fd)

(* Mutant: a hang-up ends the handling of the batch. *)
HangUpReturns ==
  /\ pc = "hangup"
  /\ IF event.hup /\ event.fd \in DOMAIN clientList
     THEN Disconnect(event.fd) /\ events' = {}
     ELSE UNCHANGED <<listVars, reported, fdConn, ready, events>>
  /\ pc' = IF events' = {} THEN "loop" ELSE "event"
  /\ event' = NoEvent
  /\ UNCHANGED <<kernelVars, stream, exit, handed, failed>>

(* EPOLLERR, EPOLLRDHUP, EPOLLHUP of the event; then the next event. *)
HangUp ==
  /\ pc = "hangup"
  /\ IF event.hup /\ event.fd \in DOMAIN clientList
     THEN Disconnect(event.fd)
     ELSE UNCHANGED <<listVars, reported, fdConn, ready>>
  /\ pc' = IF events = {} THEN "loop" ELSE "event"
  /\ event' = NoEvent
  /\ UNCHANGED <<kernelVars, events, stream, exit, handed, failed>>

-----------------------------------------------------------------------------
(* The main thread: LoopListenStop(), join, Release(). *)

LoopListenStop ==
  /\ ~exit
  /\ exit' = TRUE
  /\ UNCHANGED <<kernelVars, fdConn, ready, pc, batchVars, listVars, handed,
                 reported, failed>>

(* Disconnect(): while _size says there are clients, Disconnect(fd()) of the
   first one there is.  The fd() of a client that was released is no key. *)
ReleaseClient ==
  /\ pc = "release" /\ size > 0
  /\ \/ \E fd \in DOMAIN clientList :
          IF clientList[fd] \in DOMAIN clientList THEN Disconnect(clientList[fd])
          ELSE UNCHANGED <<listVars, reported, fdConn, ready>>
     \/ /\ clientList = <<>>
        /\ UNCHANGED <<listVars, reported, fdConn, ready>>
  /\ UNCHANGED <<kernelVars, pc, batchVars, exit, handed, failed>>

(* Mutant: Release() does not wait for Disconnect() to drop every client. *)
ReleasedEarly ==
  /\ pc = "release"
  /\ pc' = "released"
  /\ ready' = {}
  /\ UNCHANGED <<kernelVars, fdConn, batchVars, listVars, exit, handed,
                 reported, failed>>

(* The epoll set and the listening socket are closed. *)
Released ==
  /\ pc = "release" /\ size = 0
  /\ pc' = "released"
  /\ ready' = {}
  /\ UNCHANGED <<kernelVars, fdConn, batchVars, listVars, exit, handed,
                 reported, failed>>

-----------------------------------------------------------------------------
PeerStep ==
  \E c \in Conns : Connect(c) \/ PeerSend(c) \/ PeerClose(c) \/ PeerReset(c)

LoopStep ==
  \/ Loop \/ EpollWait \/ HandleIn \/ Accept \/ AcceptEnd
  \/ ReadData \/ ReadAgain \/ Answer \/ ReadGone \/ HangUp

ReleaseStep == ReleaseClient \/ Released

Next == PeerStep \/ LoopStep \/ LoopListenStop \/ ReleaseStep

Spec == Init /\ [][Next]_vars

(* The server's thread, and after it the main thread, run. *)
FairSpec == Spec /\ WF_vars(LoopStep) /\ WF_vars(ReleaseStep)

-----------------------------------------------------------------------------
Events == [fd : Fds \cup {Listener}, hup : BOOLEAN, conn : SUBSET Conns]

Maps(S, T) == UNION {[D -> T] : D \in SUBSET S}

TypeOK ==
  /\ peer \in [Conns -> {"none", "open", "closed", "reset"}]
  /\ inbox \in [Conns -> Nat]
  /\ nsent \in [Conns -> Nat]
  /\ backlog \in Seq(Conns)
  /\ fdConn \in Maps(Fds, Conns)
  /\ ready \subseteq Fds \cup {Listener}
  /\ pc \in {"loop", "wait", "event", "accept", "recv", "answer", "hangup",
             "release", "released"}
  /\ events \subseteq Events
  /\ event \in Events \cup {NoEvent}
  /\ stream \in Nat
  /\ clientList \in Maps(Fds, Fds \cup {NoFd})
  /\ size \in Nat
  /\ exit \in BOOLEAN
  /\ client \in Maps(Fds, Conns)
  /\ handed \in [Conns -> Nat]
  /\ reported \in [Conns -> Nat]
  /\ failed \subseteq Conns

(* Every open descriptor of a connection belongs to the entry under its own
   number, which stands for that connection: when a number is used again the
   entry that is assigned over has closed it, and no descriptor leaks. *)
OpenOwned ==
  /\ \A fd \in Open : /\ fd \in DOMAIN clientList
                      /\ clientList[fd] = fd
                      /\ client[fd] = fdConn[fd]
  /\ \A fd \in DOMAIN clientList : clientList[fd] \in {fd, NoFd}
  /\ \A fd \in DOMAIN clientList : clientList[fd] # NoFd => fd \in Open

(* An event that waits for its turn is about the connection its descriptor
   still stands for, though events before it close descriptors and accept new
   connections on their numbers. *)
EventsCurrent ==
  pc \in {"event", "accept"} =>
    \A e \in events :
      e.fd # Listener => e.fd \in Open /\ e.conn = {fdConn[e.fd]}

(* Edge-triggered: between two events, a client with something unread, or that
   is gone, is on the ready list or among the events to be handled; if not,
   nobody would look at it again. *)
NoEdgeLost ==
  pc \in {"loop", "wait", "event"} =>
    \A fd \in Open :
      In(fd) => fd \in ready \/ \E e \in events : e.fd = fd

(* ClientCount() never says fewer clients than there are, so Release() does
   not end while one is left. *)
CountCovers == size >= Cardinality(DOMAIN clientList)

(* After Release() no connection is open. *)
ReleaseClosesAll == pc = "released" => Open = {}

(* OnDisconnect is called for a connection at most once, and then it is closed. *)
ReportedOnce ==
  \A c \in Conns : reported[c] > 0 => reported[c] = 1 /\ Dropped(c)

(* What a peer that does not reset has sent is given to OnRecv, all of it and
   once, also when it leaves right after: unless the loop is stopped, an
   answer to it fails, or it waits in the backlog because there was no
   descriptor for it (nothing makes the server look there again when one is
   free). *)
AllHanded ==
  \A c \in Conns :
    (peer[c] \in {"open", "closed"} /\ handed[c] < nsent[c])
      ~> \/ handed[c] = nsent[c]
         \/ peer[c] = "reset" \/ exit \/ c \in failed
         \/ \E i \in DOMAIN backlog : backlog[i] = c

(* What the test of lost clients says (SockLib/gtest/tcp.cpp): when all clients
   have gone the server counts none. *)
ClientsLeft ==
  (\A c \in Conns : Gone(c)) ~> (size = 0 \/ exit)

(* Release() returns, if it begins with a client list whose entries are all
   connected and counted once.  With an entry that was left behind, or counted
   twice when its number was used again, its loop never ends. *)
ReleaseReturns ==
  (/\ pc = "release"
   /\ size = Cardinality(DOMAIN clientList)
   /\ \A fd \in DOMAIN clientList : clientList[fd] # NoFd)
    ~> pc = "released"
=============================================================================
