--------------------------- MODULE SocketServerProofs ---------------------------
(***************************************************************************)
(* Proofs about SocketServer, for any number of connections and            *)
(* descriptors: however peers come, send, leave and reset, and however the *)
(* kernel uses descriptors again, the client list, the descriptors, the    *)
(* batch of events and the epoll set stay in step.                         *)
(***************************************************************************)
EXTENDS SocketServer, FiniteSetTheorems, WellFoundedInduction, TLAPS

-----------------------------------------------------------------------------
(* The inductive invariant.  The properties of the runs are about the moments
   between two events; what follows says how they are kept inside one. *)

(* Entries, descriptors and history are about the same clients. *)
Listed == DOMAIN client = DOMAIN clientList /\ OpenOwned

(* A connection that was made and not yet reported gone. *)
Current(c) == peer[c] # "none" /\ reported[c] = 0

(* A connection is in the backlog once, or in one entry, never in both. *)
InOnePlace ==
  /\ \A fd, gd \in DOMAIN client : client[fd] = client[gd] => fd = gd
  /\ \A i, j \in DOMAIN backlog : backlog[i] = backlog[j] => i = j
  /\ \A fd \in DOMAIN client, i \in DOMAIN backlog : backlog[i] # client[fd]
  /\ \A fd \in DOMAIN client : Current(client[fd])
  /\ \A i \in DOMAIN backlog : Current(backlog[i])

(* The events that wait are about open descriptors, each about its own, and
   none about that of the event being handled. *)
Batch ==
  /\ pc \in {"loop", "wait", "release", "released"} => events = {}
  /\ \A e \in events :
       e.fd # Listener => e.fd \in Open /\ e.conn = {fdConn[e.fd]}
  /\ \A e, f \in events : e.fd = f.fd => e = f
  /\ pc \in {"accept", "recv", "answer", "hangup"} =>
       event \in Events /\ \A e \in events : e.fd # event.fd
  /\ pc = "accept" => event.fd = Listener
  /\ pc \in {"recv", "answer"} => event.fd \in Open

(* The client that is being read needs no edge: it is read to the end. *)
Seen(fd) ==
  fd \in ready \/ (\E e \in events : e.fd = fd) \/ (pc = "recv" /\ event.fd = fd)

Edges ==
  /\ ready \subseteq Open \cup {Listener}
  /\ \A fd \in Open : In(fd) => Seen(fd)

IInv ==
  /\ TypeOK /\ Listed /\ InOnePlace /\ Batch /\ Edges
  /\ CountCovers /\ ReleaseClosesAll /\ ReportedOnce

-----------------------------------------------------------------------------
(* Finite maps. *)

LEMMA MapType ==
  ASSUME NEW S, NEW T, NEW f
  PROVE  f \in Maps(S, T) <=> f \in [DOMAIN f -> T] /\ DOMAIN f \subseteq S
  BY DEF Maps

LEMMA EmptyMap ==
  ASSUME NEW S, NEW T
  PROVE  <<>> \in Maps(S, T) /\ DOMAIN <<>> = {}
<1>1. DOMAIN <<>> = {} /\ <<>> \in [{} -> T]
  OBVIOUS
<1>. QED
  BY <1>1 DEF Maps

(* accept takes the least free descriptor: there is one. *)
LEMMA MinFree ==
  ASSUME Free # {}
  PROVE  Min(Free) \in Free
<1>1. Free \in SUBSET Nat
  BY ServerAssumption DEF Free
<1>2. PICK x \in Free : \A y \in Free : <<y, x>> \notin OpToRel(<, Nat)
  BY <1>1, NatLessThanWellFounded, WFMin, Zenon
<1>3. \A y \in Free : ~ (y < x)
  <2>. SUFFICES ASSUME NEW y \in Free, y < x PROVE FALSE
    OBVIOUS
  <2>1. <<y, x>> \notin OpToRel(<, Nat)
    BY <1>2
  <2>2. <<y, x>> \in Nat \X Nat /\ <<y, x>>[1] = y /\ <<y, x>>[2] = x
    BY <1>1
  <2>3. <<y, x>> \in OpToRel(<, Nat)
    BY <2>2, Zenon DEF OpToRel
  <2>. QED
    BY <2>1, <2>3
<1>4. x \in Nat /\ \A y \in Free : y \in Nat /\ x =< y
  BY <1>1, <1>3
<1>. QED
  BY <1>4 DEF Min

(* What the type invariant says of the maps and the constants. *)
LEMMA Shapes ==
  ASSUME TypeOK
  PROVE  /\ fdConn \in [Open -> Conns] /\ Open \subseteq Fds
         /\ clientList \in [DOMAIN clientList -> Fds \cup {NoFd}]
         /\ DOMAIN clientList \subseteq Fds
         /\ client \in [DOMAIN client -> Conns] /\ DOMAIN client \subseteq Fds
         /\ Fds \subseteq Nat /\ Listener \notin Fds /\ NoFd \notin Fds
         /\ NoFd # Listener
  BY ServerAssumption, MapType DEF TypeOK, Open, Listener, NoFd

(* Counting the entries. *)
LEMMA Entries ==
  ASSUME TypeOK
  PROVE  IsFiniteSet(DOMAIN clientList) /\ Cardinality(DOMAIN clientList) \in Nat
  BY Shapes, ServerAssumption, FS_Subset, FS_CardinalityType

-----------------------------------------------------------------------------
LEMMA InitHolds == Init => IInv
<1>. SUFFICES ASSUME Init PROVE IInv
  OBVIOUS
<1>. USE DEF Init
<1>1. TypeOK
  <2>1. /\ fdConn \in Maps(Fds, Conns) /\ client \in Maps(Fds, Conns)
        /\ clientList \in Maps(Fds, Fds \cup {NoFd})
    BY EmptyMap
  <2>2. backlog \in Seq(Conns)
    OBVIOUS
  <2>3. /\ peer \in [Conns -> {"none", "open", "closed", "reset"}]
        /\ inbox \in [Conns -> Nat] /\ nsent \in [Conns -> Nat]
        /\ handed \in [Conns -> Nat] /\ reported \in [Conns -> Nat]
    OBVIOUS
  <2>4. event \in Events \cup {NoEvent}
    OBVIOUS
  <2>. QED
    BY <2>1, <2>2, <2>3, <2>4 DEF TypeOK
<1>2. Open = {} /\ DOMAIN clientList = {} /\ DOMAIN client = {}
  BY EmptyMap DEF Open
<1>3. Listed /\ InOnePlace
  BY <1>2 DEF Listed, OpenOwned, InOnePlace
<1>4. Batch /\ Edges
  BY <1>2 DEF Batch, Edges
<1>5. CountCovers
  BY <1>2, FS_EmptySet DEF CountCovers
<1>6. ReleaseClosesAll /\ ReportedOnce
  BY <1>2 DEF ReleaseClosesAll, ReportedOnce
<1>. QED
  BY <1>1, <1>3, <1>4, <1>5, <1>6 DEF IInv

-----------------------------------------------------------------------------
(* What a step leaves alone keeps what is said of it. *)

LEMMA KeepsClients ==
  ASSUME IInv, UNCHANGED <<peer, backlog, fdConn, listVars, reported>>
  PROVE  Listed' /\ InOnePlace' /\ CountCovers' /\ ReportedOnce' /\ Open' = Open
<1>. USE DEF IInv, listVars, Open
<1>1. Listed'
  BY DEF Listed, OpenOwned
<1>2. InOnePlace'
  BY DEF InOnePlace, Current
<1>3. CountCovers'
  BY DEF CountCovers
<1>4. ReportedOnce'
  BY DEF ReportedOnce, Dropped
<1>. QED
  BY <1>1, <1>2, <1>3, <1>4

-----------------------------------------------------------------------------
(* The peers. *)

LEMMA ConnectKeeps == ASSUME IInv, NEW c \in Conns, Connect(c) PROVE IInv'
<1>. USE DEF Connect, kernelVars, serverVars, batchVars, listVars
<1>1. /\ TypeOK /\ Listed /\ InOnePlace /\ Batch /\ Edges
      /\ CountCovers /\ ReleaseClosesAll /\ ReportedOnce
  BY DEF IInv
<1>2. backlog \in Seq(Conns) /\ peer[c] = "none" /\ reported \in [Conns -> Nat]
  BY <1>1 DEF TypeOK
<1>3. /\ backlog' \in Seq(Conns) /\ Len(backlog') = Len(backlog) + 1
      /\ DOMAIN backlog' = 1 .. (Len(backlog) + 1)
      /\ DOMAIN backlog = 1 .. Len(backlog) /\ Len(backlog) \in Nat
      /\ \A i \in DOMAIN backlog : backlog'[i] = backlog[i]
      /\ backlog'[Len(backlog) + 1] = c
  BY <1>2
<1>4. TypeOK'
  BY <1>1, <1>3 DEF TypeOK
<1>5. Listed'
  BY <1>1 DEF Listed, OpenOwned, Open
<1>6. \A d \in Conns : Current(d) => d # c /\ peer'[d] = peer[d]
  BY <1>1 DEF Current, TypeOK
<1>7. reported[c] = 0
  BY <1>1, <1>2 DEF ReportedOnce, Dropped
<1>8. Current(c)'
  BY <1>1, <1>7 DEF Current, TypeOK
<1>9. \A i \in DOMAIN backlog : backlog[i] \in Conns /\ Current(backlog[i])
  BY <1>1, <1>2 DEF InOnePlace
<1>10. \A fd \in DOMAIN client : client[fd] \in Conns /\ Current(client[fd])
  BY <1>1, Shapes DEF InOnePlace
<1>11. InOnePlace'
  <2>1. \A i, j \in DOMAIN backlog' : backlog'[i] = backlog'[j] => i = j
    BY <1>1, <1>3, <1>6, <1>9 DEF InOnePlace
  <2>2. \A fd \in DOMAIN client, i \in DOMAIN backlog' : backlog'[i] # client[fd]
    BY <1>1, <1>3, <1>6, <1>10 DEF InOnePlace
  <2>3. \A fd \in DOMAIN client : Current(client[fd])'
    BY <1>6, <1>10 DEF Current
  <2>4. \A i \in DOMAIN backlog' : Current(backlog[i])'
    BY <1>3, <1>6, <1>8, <1>9 DEF Current
  <2>. QED
    BY <1>1, <2>1, <2>2, <2>3, <2>4 DEF InOnePlace
<1>12. Batch'
  BY <1>1 DEF Batch, Open
<1>13. \A fd \in Open : fdConn[fd] \in Conns /\ fdConn[fd] # c /\ fd # Listener
  <2>. TAKE fd \in Open
  <2>1. fdConn[fd] = client[fd] /\ fd \in DOMAIN client
    BY <1>1 DEF Listed, OpenOwned
  <2>. QED
    BY <1>1, <1>6, <1>10, <2>1, Shapes
<1>14. \A fd \in Open : In(fd)' => In(fd)
  BY <1>1, <1>13 DEF In, Gone, TypeOK
<1>15. Edges'
  BY <1>1, <1>14 DEF Edges, Seen, Open
<1>16. CountCovers' /\ ReleaseClosesAll'
  BY <1>1 DEF CountCovers, ReleaseClosesAll, Open
<1>17. ReportedOnce'
  <2>. SUFFICES ASSUME NEW d \in Conns, reported[d] > 0
                PROVE  reported[d] = 1 /\ Dropped(d)'
    BY DEF ReportedOnce
  <2>1. reported[d] = 1 /\ Dropped(d) /\ d # c
    BY <1>1, <1>7 DEF ReportedOnce
  <2>2. \A i \in DOMAIN backlog' : backlog'[i] # d
    BY <1>3, <2>1 DEF Dropped
  <2>. QED
    BY <1>1, <2>1, <2>2 DEF Dropped, Open, TypeOK
<1>. QED
  BY <1>4, <1>5, <1>11, <1>12, <1>15, <1>16, <1>17 DEF IInv

(* What PeerSend, PeerClose and PeerReset have in common: something happens on
   a connection that was made, and its descriptor, if it has one, gets an
   edge. *)
LEMMA ArrivalKeeps ==
  ASSUME IInv, NEW c \in Conns, peer[c] = "open",
         peer' = peer \/ peer' = [peer EXCEPT ![c] = "closed"]
           \/ peer' = [peer EXCEPT ![c] = "reset"],
         inbox' \in [Conns -> Nat], nsent' \in [Conns -> Nat],
         \A d \in Conns \ {c} : inbox'[d] = inbox[d],
         EdgeOf(c), UNCHANGED <<backlog, serverVars>>
  PROVE  IInv'
<1>. USE DEF serverVars, batchVars, listVars
<1>1. /\ TypeOK /\ Listed /\ InOnePlace /\ Batch /\ Edges
      /\ CountCovers /\ ReleaseClosesAll /\ ReportedOnce
  BY DEF IInv
<1>2. /\ peer' \in [Conns -> {"none", "open", "closed", "reset"}]
      /\ \A d \in Conns : d # c => peer'[d] = peer[d]
      /\ peer'[c] # "none"
  BY <1>1 DEF TypeOK
<1>3. \A d \in Conns : Current(d) => Current(d)'
  BY <1>2 DEF Current
<1>4. \A fd \in Open : fdConn[fd] \in Conns /\ fd \in Fds /\ fd # Listener
  BY <1>1, Shapes
<1>5. TypeOK'
  BY <1>1, <1>2, <1>4 DEF TypeOK, EdgeOf
<1>6. Listed'
  BY <1>1 DEF Listed, OpenOwned, Open
<1>7. InOnePlace'
  <2>1. /\ \A fd \in DOMAIN client : client[fd] \in Conns
        /\ \A i \in DOMAIN backlog : backlog[i] \in Conns
    BY <1>1, Shapes DEF TypeOK
  <2>. QED
    BY <1>1, <1>3, <2>1 DEF InOnePlace
<1>8. Batch' /\ CountCovers' /\ ReleaseClosesAll'
  BY <1>1 DEF Batch, CountCovers, ReleaseClosesAll, Open
<1>9. Edges'
  <2>. SUFFICES ASSUME NEW fd \in Open, In(fd)' PROVE Seen(fd)'
    BY <1>1 DEF Edges, EdgeOf, Open
  <2>1. CASE fdConn[fd] = c
    BY <2>1 DEF EdgeOf, Seen
  <2>2. CASE fdConn[fd] # c
    <3>1. In(fd)
      BY <1>2, <1>4, <2>2 DEF In, Gone
    <3>. QED
      BY <1>1, <3>1 DEF Edges, EdgeOf, Seen
  <2>. QED
    BY <2>1, <2>2
<1>10. ReportedOnce'
  BY <1>1, <1>2 DEF ReportedOnce, Dropped, Open
<1>. QED
  BY <1>5, <1>6, <1>7, <1>8, <1>9, <1>10 DEF IInv

LEMMA PeerKeeps ==
  ASSUME IInv, NEW c \in Conns,
         Connect(c) \/ PeerSend(c) \/ PeerClose(c) \/ PeerReset(c)
  PROVE  IInv'
<1>1. inbox \in [Conns -> Nat] /\ nsent \in [Conns -> Nat]
  BY DEF IInv, TypeOK
<1>2. CASE Connect(c)
  BY <1>2, ConnectKeeps
<1>3. CASE PeerSend(c)
  <2>1. inbox' \in [Conns -> Nat] /\ nsent' \in [Conns -> Nat]
    BY <1>1, <1>3 DEF PeerSend
  <2>. QED
    BY <1>1, <1>3, <2>1, ArrivalKeeps DEF PeerSend
<1>4. CASE PeerClose(c)
  BY <1>1, <1>4, ArrivalKeeps DEF PeerClose
<1>5. CASE PeerReset(c)
  <2>1. inbox' \in [Conns -> Nat] /\ \A d \in Conns \ {c} : inbox'[d] = inbox[d]
    BY <1>1, <1>5 DEF PeerReset
  <2>. QED
    BY <1>1, <1>5, <2>1, ArrivalKeeps DEF PeerReset
<1>. QED
  BY <1>2, <1>3, <1>4, <1>5

-----------------------------------------------------------------------------
(* The loop, as long as no descriptor is opened or closed. *)

LEMMA LoopKeeps ==
  ASSUME IInv, Loop \/ LoopListenStop \/ AcceptEnd PROVE IInv'
<1>. USE DEF kernelVars, batchVars, Loop, LoopListenStop, AcceptEnd
<1>1. TypeOK /\ Batch /\ Edges /\ ReleaseClosesAll
  BY DEF IInv
<1>2. TypeOK'
  BY <1>1 DEF TypeOK, listVars
<1>3. Listed' /\ InOnePlace' /\ CountCovers' /\ ReportedOnce' /\ Open' = Open
  BY KeepsClients
<1>4. Batch' /\ ReleaseClosesAll'
  BY <1>1, <1>3 DEF Batch, ReleaseClosesAll
<1>5. Edges'
  BY <1>1, <1>3 DEF Edges, Seen, In, Gone
<1>. QED
  BY <1>2, <1>3, <1>4, <1>5 DEF IInv

LEMMA EpollWaitKeeps == ASSUME IInv, EpollWait PROVE IInv'
<1>. USE DEF kernelVars, EpollWait
<1>1. TypeOK /\ Batch /\ Edges
  BY DEF IInv
<1>2. Open \subseteq Fds /\ \A fd \in Open : fdConn[fd] \in Conns /\ fd # Listener
  BY <1>1, Shapes
<1>3. \A fd \in ready : Event(fd) \in Events /\ Event(fd).fd = fd
  BY <1>1, <1>2 DEF Event, Events, Gone, Edges
<1>4. events' \subseteq Events
  BY <1>3
<1>5. TypeOK'
  BY <1>1, <1>4 DEF TypeOK, listVars
<1>6. Listed' /\ InOnePlace' /\ CountCovers' /\ ReportedOnce' /\ Open' = Open
  BY KeepsClients
<1>7. \A e \in events' : \E fd \in ready : e = Event(fd) /\ e.fd = fd
  BY <1>3
<1>8. Batch'
  <2>1. pc' \in {"loop", "event"} /\ (pc' = "loop" => events' = {})
    OBVIOUS
  <2>2. \A e \in events' : e.fd # Listener => e.fd \in Open /\ e.conn = {fdConn[e.fd]}
    BY <1>1, <1>7 DEF Edges, Event
  <2>3. \A e, f \in events' : e.fd = f.fd => e = f
    BY <1>7
  <2>. QED
    BY <1>6, <2>1, <2>2, <2>3 DEF Batch
<1>9. Edges'
  <2>. SUFFICES ASSUME NEW fd \in Open, In(fd)' PROVE Seen(fd)'
    BY <1>6 DEF Edges
  <2>1. In(fd)
    BY DEF In, Gone
  <2>2. fd \in ready
    BY <1>1, <2>1 DEF Edges, Seen, Batch
  <2>3. Event(fd) \in events' /\ Event(fd).fd = fd
    BY <1>3, <2>1, <2>2
  <2>. QED
    BY <2>3 DEF Seen
<1>. QED
  BY <1>5, <1>6, <1>8, <1>9 DEF IInv, ReleaseClosesAll

LEMMA HandleInKeeps == ASSUME IInv, HandleIn PROVE IInv'
<1>. USE DEF kernelVars, HandleIn
<1>1. TypeOK /\ Listed /\ Batch /\ Edges
  BY DEF IInv
<1>2. PICK e \in events :
        /\ event' = e /\ events' = events \ {e}
        /\ pc' = IF e.fd = Listener THEN "accept"
                 ELSE IF e.fd \in DOMAIN clientList THEN "recv" ELSE "hangup"
  OBVIOUS
<1>3. e \in Events
  BY <1>1 DEF TypeOK
<1>4. TypeOK'
  BY <1>1, <1>2, <1>3 DEF TypeOK, listVars
<1>5. Listed' /\ InOnePlace' /\ CountCovers' /\ ReportedOnce' /\ Open' = Open
  BY KeepsClients
<1>6. e.fd # Listener => e.fd \in Open /\ e.fd \in DOMAIN clientList
  BY <1>1 DEF Batch, Listed, OpenOwned
<1>7. Batch'
  <2>1. \A f \in events' : f.fd # e.fd
    BY <1>1, <1>2 DEF Batch
  <2>2. pc' \in {"accept", "recv"}
    BY <1>2, <1>6
  <2>. QED
    BY <1>1, <1>2, <1>3, <1>5, <1>6, <2>1, <2>2 DEF Batch
<1>8. Edges'
  <2>. SUFFICES ASSUME NEW fd \in Open, In(fd)' PROVE Seen(fd)'
    BY <1>1, <1>5 DEF Edges
  <2>1. Seen(fd)
    BY <1>1 DEF Edges, In, Gone
  <2>2. fd # Listener
    BY <1>1, Shapes
  <2>3. CASE fd = e.fd
    BY <1>2, <1>6, <2>2, <2>3 DEF Seen
  <2>4. CASE fd # e.fd
    BY <1>2, <2>1, <2>4 DEF Seen
  <2>. QED
    BY <2>3, <2>4
<1>. QED
  BY <1>2, <1>4, <1>5, <1>7, <1>8 DEF IInv, ReleaseClosesAll

(* Reading a client: its descriptor is open, and it is its own. *)
LEMMA Reading ==
  ASSUME IInv, pc \in {"recv", "answer"}
  PROVE  /\ event \in Events /\ event.fd \in Open /\ event.fd \in DOMAIN clientList
         /\ sock = event.fd /\ conn = fdConn[event.fd] /\ conn \in Conns
         /\ client[event.fd] = conn
<1>1. TypeOK /\ Listed /\ Batch
  BY DEF IInv
<1>2. event \in Events /\ event.fd \in Open
  BY <1>1 DEF Batch
<1>. QED
  BY <1>1, <1>2, Shapes DEF Listed, OpenOwned, sock, conn

LEMMA ReadKeeps == ASSUME IInv, ReadData \/ ReadAgain PROVE IInv'
<1>1. TypeOK /\ Listed /\ Batch /\ Edges
  BY DEF IInv
<1>2. /\ event.fd \in Open /\ conn = fdConn[event.fd] /\ conn \in Conns
      /\ client[event.fd] = conn /\ event \in Events
  BY Reading DEF ReadData, ReadAgain
<1>3. Listed' /\ InOnePlace' /\ CountCovers' /\ ReportedOnce' /\ Open' = Open
  BY KeepsClients DEF ReadData, ReadAgain, kernelVars
<1>4. Batch'
  BY <1>1, <1>3, <1>2 DEF Batch, ReadData, ReadAgain, OnRecv, batchVars
<1>5. CASE ReadData
  <2>. USE <1>5 DEF ReadData
  <2>1. TypeOK'
    BY <1>1, <1>2 DEF TypeOK, listVars
  <2>2. Edges'
    <3>. SUFFICES ASSUME NEW fd \in Open, In(fd)' PROVE Seen(fd)'
      BY <1>1, <1>3 DEF Edges
    <3>1. CASE fd = event.fd
      BY <3>1 DEF Seen
    <3>2. CASE fd # event.fd
      <4>1. fdConn[fd] \in Conns /\ fd # Listener /\ fdConn[fd] # conn
        BY <1>1, <1>2, <3>2, Shapes DEF Listed, OpenOwned, IInv, InOnePlace
      <4>2. In(fd)
        BY <1>1, <1>2, <4>1 DEF In, Gone, TypeOK
      <4>. QED
        BY <1>1, <4>2 DEF Edges, Seen
    <3>. QED
      BY <3>1, <3>2
  <2>. QED
    BY <1>3, <1>4, <2>1, <2>2 DEF IInv, ReleaseClosesAll
<1>6. CASE ReadAgain
  <2>. USE <1>6 DEF ReadAgain, OnRecv, kernelVars, batchVars
  <2>1. TypeOK'
    BY <1>1, <1>2 DEF TypeOK, listVars
  <2>2. Edges'
    <3>. SUFFICES ASSUME NEW fd \in Open, In(fd)' PROVE Seen(fd)'
      BY <1>1, <1>3 DEF Edges
    <3>1. Seen(fd)
      BY <1>1 DEF Edges, In, Gone
    <3>2. fd # event.fd
      BY <1>1, <1>2, Shapes DEF In, Gone
    <3>. QED
      BY <3>1, <3>2 DEF Seen
  <2>. QED
    BY <1>3, <1>4, <2>1, <2>2 DEF IInv, ReleaseClosesAll
<1>. QED
  BY <1>5, <1>6

-----------------------------------------------------------------------------
(* A descriptor is opened. *)

LEMMA AcceptKeeps == ASSUME IInv, Accept PROVE IInv'
<1>. DEFINE fd == Min(Free)
            c  == Head(backlog)
<1>1. /\ TypeOK /\ Listed /\ InOnePlace /\ Batch /\ Edges
      /\ CountCovers /\ ReleaseClosesAll /\ ReportedOnce
  BY DEF IInv
<1>2. /\ pc = "accept" /\ backlog # <<>> /\ Free # {} /\ pc' = pc
      /\ events' = events /\ event' = event /\ stream' = stream
      /\ fdConn' = With(fdConn, fd, c)
      /\ ready' = IF inbox[c] > 0 \/ Gone(c) THEN ready \cup {fd} ELSE ready
      /\ clientList' = With(clientList, fd, fd)
      /\ client' = With(client, fd, c)
      /\ backlog' = Tail(backlog) /\ size' = size + 1
      /\ peer' = peer /\ inbox' = inbox /\ nsent' = nsent
      /\ exit' = exit /\ handed' = handed /\ reported' = reported
      /\ failed' = failed
  BY DEF Accept, batchVars
<1>3. fd \in Fds /\ fd \notin Open /\ fd # Listener /\ fd # NoFd
  BY <1>1, <1>2, MinFree, Shapes DEF Free
<1>. HIDE DEF fd
<1>4. /\ backlog \in Seq(Conns) /\ Len(backlog) \in Nat \ {0}
      /\ backlog' \in Seq(Conns) /\ Len(backlog') = Len(backlog) - 1
      /\ DOMAIN backlog = 1 .. Len(backlog)
      /\ DOMAIN backlog' = 1 .. (Len(backlog) - 1)
      /\ \A i \in DOMAIN backlog' : backlog'[i] = backlog[i + 1]
      /\ c = backlog[1] /\ c \in Conns
  BY <1>1, <1>2 DEF TypeOK
<1>. HIDE DEF c
<1>5. /\ fdConn' \in Maps(Fds, Conns) /\ Open' = Open \cup {fd}
      /\ fdConn'[fd] = c /\ \A gd \in Open : fdConn'[gd] = fdConn[gd]
  <2>1. fdConn' = [y \in DOMAIN fdConn \cup {fd} |-> IF y = fd THEN c ELSE fdConn[y]]
    BY <1>2 DEF With
  <2>2. fdConn \in [DOMAIN fdConn -> Conns] /\ DOMAIN fdConn \subseteq Fds
    BY <1>1, Shapes DEF Open
  <2>3. fdConn' \in [DOMAIN fdConn \cup {fd} -> Conns]
    BY <1>3, <1>4, <2>1, <2>2
  <2>4. DOMAIN fdConn \cup {fd} \in SUBSET Fds
    BY <1>3, <2>2
  <2>5. fdConn' \in Maps(Fds, Conns)
    BY <2>3, <2>4 DEF Maps
  <2>. QED
    BY <1>3, <2>1, <2>5 DEF Open
<1>6. /\ clientList' \in Maps(Fds, Fds \cup {NoFd})
      /\ DOMAIN clientList' = DOMAIN clientList \cup {fd}
      /\ clientList'[fd] = fd
      /\ \A gd \in DOMAIN clientList : gd # fd => clientList'[gd] = clientList[gd]
  <2>1. clientList' = [y \in DOMAIN clientList \cup {fd} |-> IF y = fd THEN fd ELSE clientList[y]]
    BY <1>2 DEF With
  <2>2. clientList \in [DOMAIN clientList -> Fds \cup {NoFd}] /\ DOMAIN clientList \subseteq Fds
    BY <1>1, Shapes DEF Open
  <2>3. clientList' \in [DOMAIN clientList \cup {fd} -> Fds \cup {NoFd}]
    BY <1>3, <1>4, <2>1, <2>2
  <2>4. DOMAIN clientList \cup {fd} \in SUBSET Fds
    BY <1>3, <2>2
  <2>5. clientList' \in Maps(Fds, Fds \cup {NoFd})
    BY <2>3, <2>4 DEF Maps
  <2>. QED
    BY <1>3, <2>1, <2>5
<1>7. /\ client' \in Maps(Fds, Conns) /\ DOMAIN client' = DOMAIN client \cup {fd}
      /\ client'[fd] = c
      /\ \A gd \in DOMAIN client : gd # fd => client'[gd] = client[gd]
  <2>1. client' = [y \in DOMAIN client \cup {fd} |-> IF y = fd THEN c ELSE client[y]]
    BY <1>2 DEF With
  <2>2. client \in [DOMAIN client -> Conns] /\ DOMAIN client \subseteq Fds
    BY <1>1, Shapes DEF Open
  <2>3. client' \in [DOMAIN client \cup {fd} -> Conns]
    BY <1>3, <1>4, <2>1, <2>2
  <2>4. DOMAIN client \cup {fd} \in SUBSET Fds
    BY <1>3, <2>2
  <2>5. client' \in Maps(Fds, Conns)
    BY <2>3, <2>4 DEF Maps
  <2>. QED
    BY <1>3, <2>1, <2>5
<1>8. ready' \subseteq ready \cup {fd} /\ ready \subseteq ready'
  BY <1>2
<1>9. TypeOK'
  BY <1>1, <1>2, <1>3, <1>4, <1>5, <1>6, <1>7, <1>8 DEF TypeOK
<1>10. Listed'
  BY <1>1, <1>3, <1>5, <1>6, <1>7 DEF Listed, OpenOwned
<1>11. \A d \in Conns : Current(d)' = Current(d)
  BY <1>2 DEF Current
<1>12. \A gd \in DOMAIN client : client[gd] # c
  BY <1>1, <1>4 DEF InOnePlace
<1>13. InOnePlace'
  <2>1. \A i \in DOMAIN backlog' : i \in Nat /\ i + 1 \in DOMAIN backlog /\ i + 1 # 1
    BY <1>4
  <2>2. \A i \in DOMAIN backlog' : backlog'[i] # c /\ Current(backlog'[i])
    BY <1>1, <1>4, <2>1 DEF InOnePlace
  <2>3. \A i, j \in DOMAIN backlog' : backlog'[i] = backlog'[j] => i = j
    BY <1>1, <1>4, <2>1 DEF InOnePlace
  <2>4. \A gd, hd \in DOMAIN client' : client'[gd] = client'[hd] => gd = hd
    BY <1>1, <1>7, <1>12 DEF InOnePlace
  <2>5. \A gd \in DOMAIN client', i \in DOMAIN backlog' : backlog'[i] # client'[gd]
    BY <1>1, <1>4, <1>7, <2>1, <2>2 DEF InOnePlace
  <2>6. \A gd \in DOMAIN client' : client'[gd] \in Conns /\ Current(client'[gd])
    BY <1>1, <1>4, <1>7, Shapes DEF InOnePlace
  <2>7. /\ \A gd \in DOMAIN client' : Current(client[gd])'
        /\ \A i \in DOMAIN backlog' : Current(backlog[i])'
    BY <1>2, <2>2, <2>6 DEF Current
  <2>. QED
    BY <2>3, <2>4, <2>5, <2>7 DEF InOnePlace
<1>14. Batch'
  BY <1>1, <1>2, <1>5 DEF Batch
<1>15. Edges'
  <2>1. ready' \subseteq Open' \cup {Listener}
    BY <1>1, <1>5, <1>8 DEF Edges
  <2>2. ASSUME NEW gd \in Open', In(gd)' PROVE Seen(gd)'
    <3>1. CASE gd = fd
      BY <1>2, <1>3, <1>5, <2>2, <3>1 DEF In, Gone, Seen
    <3>2. CASE gd # fd
      <4>1. gd \in Open /\ gd # Listener
        BY <1>1, <1>5, <3>2, Shapes
      <4>2. In(gd)
        BY <1>2, <1>5, <2>2, <4>1 DEF In, Gone
      <4>. QED
        BY <1>1, <1>2, <1>8, <4>1, <4>2 DEF Edges, Seen
    <3>. QED
      BY <3>1, <3>2
  <2>. QED
    BY <2>1, <2>2 DEF Edges
<1>16. CountCovers'
  <2>1. /\ IsFiniteSet(DOMAIN clientList) /\ size \in Nat
        /\ Cardinality(DOMAIN clientList) \in Nat
    BY <1>1, Entries DEF TypeOK
  <2>2. Cardinality(DOMAIN clientList \cup {fd}) =
          IF fd \in DOMAIN clientList THEN Cardinality(DOMAIN clientList)
          ELSE Cardinality(DOMAIN clientList) + 1
    BY <2>1, FS_AddElement, Zenon
  <2>. QED
    BY <1>1, <1>2, <1>6, <2>1, <2>2 DEF CountCovers
<1>17. ReportedOnce'
  <2>. SUFFICES ASSUME NEW d \in Conns, reported[d] > 0
                PROVE  reported[d] = 1 /\ Dropped(d)'
    BY <1>2 DEF ReportedOnce
  <2>1. reported[d] = 1 /\ Dropped(d)
    BY <1>1 DEF ReportedOnce
  <2>2. d # c /\ \A i \in DOMAIN backlog' : backlog'[i] # d
    BY <1>4, <2>1 DEF Dropped
  <2>. QED
    BY <1>2, <1>5, <2>1, <2>2 DEF Dropped
<1>. QED
  BY <1>2, <1>9, <1>10, <1>13, <1>14, <1>15, <1>16, <1>17
     DEF IInv, ReleaseClosesAll

-----------------------------------------------------------------------------
(* A descriptor is closed. *)

(* What closing leaves of the kernel's side, whoever closes. *)
Closed(fd) ==
  /\ fdConn' \in Maps(Fds, Conns)
  /\ Open' = Open \ {fd}
  /\ \A gd \in Open' : fdConn'[gd] = fdConn[gd]
  /\ ready' = ready \ {fd} \/ (fd \notin Open /\ ready' = ready)

LEMMA CloseCloses ==
  ASSUME TypeOK, NEW fd, clientList[fd] = fd, CloseSock(fd)
  PROVE  Closed(fd)
<1>1. /\ fdConn' = [y \in DOMAIN fdConn \ {fd} |-> fdConn[y]]
      /\ ready' = ready \ {fd}
  BY DEF CloseSock, Without
<1>2. fdConn \in [DOMAIN fdConn -> Conns] /\ DOMAIN fdConn \subseteq Fds
  BY Shapes DEF Open
<1>3. fdConn' \in [DOMAIN fdConn \ {fd} -> Conns]
  BY <1>1, <1>2
<1>4. DOMAIN fdConn \ {fd} \in SUBSET Fds
  BY <1>2
<1>5. fdConn' \in Maps(Fds, Conns)
  BY <1>3, <1>4 DEF Maps
<1>. QED
  BY <1>1, <1>5 DEF Closed, Open

(* Nothing else had its edge there. *)
LEMMA ClosedKeepsEdges ==
  ASSUME IInv, NEW fd, Closed(fd), UNCHANGED <<peer, inbox, backlog, events>>,
         pc = "recv" => event.fd = fd,
         \A e \in events : e.fd # fd
  PROVE  Edges'
<1>1. TypeOK /\ Edges
  BY DEF IInv
<1>2. ready' \subseteq Open' \cup {Listener}
  BY <1>1, Shapes DEF Closed, Edges
<1>3. ASSUME NEW gd \in Open', In(gd)' PROVE Seen(gd)'
  <2>1. gd \in Open /\ gd # fd /\ gd # Listener /\ fdConn'[gd] = fdConn[gd]
    BY <1>1, Shapes DEF Closed
  <2>2. In(gd)
    BY <1>3, <2>1 DEF In, Gone
  <2>. QED
    BY <1>1, <2>1, <2>2 DEF Edges, Seen, Closed
<1>. QED
  BY <1>2, <1>3 DEF Edges

(* A client whose socket was released keeps its entry. *)
LEMMA SockClosedKeepsClients ==
  ASSUME IInv, NEW fd \in Open, CloseSock(fd),
         clientList' = [clientList EXCEPT ![fd] = NoFd],
         UNCHANGED <<peer, backlog, size, client, reported>>
  PROVE  /\ Closed(fd) /\ clientList' \in Maps(Fds, Fds \cup {NoFd})
         /\ Listed' /\ InOnePlace' /\ CountCovers' /\ ReportedOnce'
<1>1. TypeOK /\ Listed /\ InOnePlace /\ CountCovers /\ ReportedOnce
  BY DEF IInv
<1>2. Closed(fd)
  BY <1>1, CloseCloses DEF Listed, OpenOwned
<1>3. clientList' \in Maps(Fds, Fds \cup {NoFd})
  <2>1. clientList \in [DOMAIN clientList -> Fds \cup {NoFd}]
        /\ DOMAIN clientList \subseteq Fds
    BY <1>1, Shapes
  <2>2. clientList' \in [DOMAIN clientList -> Fds \cup {NoFd}]
    BY <2>1
  <2>. QED
    BY <2>1, <2>2 DEF Maps
<1>4. /\ DOMAIN clientList' = DOMAIN clientList
      /\ \A gd \in DOMAIN clientList :
           clientList'[gd] = IF gd = fd THEN NoFd ELSE clientList[gd]
  BY <1>1, Shapes
<1>5. Listed'
  BY <1>1, <1>2, <1>4 DEF Listed, OpenOwned, Closed
<1>6. InOnePlace'
  BY <1>1 DEF InOnePlace, Current
<1>7. CountCovers'
  BY <1>1, <1>4 DEF CountCovers
<1>8. ReportedOnce'
  BY <1>1, <1>2 DEF ReportedOnce, Dropped, Closed
<1>. QED
  BY <1>2, <1>3, <1>5, <1>6, <1>7, <1>8

LEMMA AnswerKeeps == ASSUME IInv, Answer PROVE IInv'
<1>1. TypeOK /\ Batch /\ Edges
  BY DEF IInv
<1>2. /\ event.fd \in Open /\ conn \in Conns /\ event \in Events
      /\ sock = event.fd
  BY Reading DEF Answer
<1>3. PICK fails \in WriteFails :
        IF fails
        THEN /\ CloseSock(event.fd)
             /\ clientList' = [clientList EXCEPT ![event.fd] = NoFd]
             /\ failed' = failed \cup {conn}
        ELSE UNCHANGED <<fdConn, ready, clientList, failed>>
  BY DEF Answer
<1>4. /\ pc = "answer" /\ pc' = "hangup"
      /\ UNCHANGED <<peer, inbox, nsent, backlog, events, event, stream, size,
                     client, exit, handed, reported>>
  BY DEF Answer, kernelVars, batchVars
<1>5. CASE fails
  <2>1. /\ Closed(event.fd) /\ clientList' \in Maps(Fds, Fds \cup {NoFd})
        /\ Listed' /\ InOnePlace' /\ CountCovers' /\ ReportedOnce'
    BY <1>2, <1>3, <1>4, <1>5, SockClosedKeepsClients
  <2>2. TypeOK'
    BY <1>1, <1>2, <1>3, <1>4, <1>5, <2>1 DEF TypeOK, Closed
  <2>3. \A e \in events : e.fd # event.fd
    BY <1>1, <1>4 DEF Batch
  <2>4. Edges'
    BY <1>4, <2>1, <2>3, ClosedKeepsEdges
  <2>5. Batch'
    BY <1>1, <1>2, <1>4, <2>1, <2>3 DEF Batch, Closed
  <2>. QED
    BY <1>4, <2>1, <2>2, <2>4, <2>5 DEF IInv, ReleaseClosesAll
<1>6. CASE ~fails
  <2>1. Listed' /\ InOnePlace' /\ CountCovers' /\ ReportedOnce' /\ Open' = Open
    BY <1>3, <1>4, <1>6, KeepsClients DEF listVars
  <2>2. TypeOK'
    BY <1>1, <1>3, <1>4, <1>6 DEF TypeOK
  <2>3. Edges' /\ Batch'
    BY <1>1, <1>2, <1>3, <1>4, <1>6, <2>1 DEF Edges, Seen, Batch, In, Gone
  <2>. QED
    BY <1>4, <2>1, <2>2, <2>3 DEF IInv, ReleaseClosesAll
<1>. QED
  BY <1>5, <1>6

LEMMA ReadGoneKeeps == ASSUME IInv, ReadGone PROVE IInv'
<1>1. TypeOK /\ Batch /\ Edges
  BY DEF IInv
<1>2. event.fd \in Open /\ conn \in Conns /\ event \in Events
  BY Reading DEF ReadGone
<1>3. /\ pc = "recv" /\ pc' = "hangup"
      /\ handed' = [handed EXCEPT ![conn] = @ + stream]
      /\ CloseSock(event.fd)
      /\ clientList' = [clientList EXCEPT ![event.fd] = NoFd]
      /\ UNCHANGED <<peer, inbox, nsent, backlog, events, event, stream, size,
                     client, exit, reported, failed>>
  BY DEF ReadGone, OnRecv, kernelVars, batchVars
<1>4. /\ Closed(event.fd) /\ clientList' \in Maps(Fds, Fds \cup {NoFd})
      /\ Listed' /\ InOnePlace' /\ CountCovers' /\ ReportedOnce'
  BY <1>2, <1>3, SockClosedKeepsClients
<1>5. TypeOK'
  BY <1>1, <1>2, <1>3, <1>4 DEF TypeOK, Closed
<1>6. \A e \in events : e.fd # event.fd
  BY <1>1, <1>3 DEF Batch
<1>7. Edges'
  BY <1>3, <1>4, <1>6, ClosedKeepsEdges
<1>8. Batch'
  BY <1>1, <1>2, <1>3, <1>4, <1>6 DEF Batch, Closed
<1>. QED
  BY <1>3, <1>4, <1>5, <1>7, <1>8 DEF IInv, ReleaseClosesAll

(* Disconnect takes a client off the list and reports it, for the first and
   only time. *)
LEMMA DisconnectKeeps ==
  ASSUME IInv, NEW fd \in DOMAIN clientList, Disconnect(fd),
         UNCHANGED <<peer, backlog>>
  PROVE  /\ Closed(fd) /\ ready' \subseteq ready
         /\ clientList' \in Maps(Fds, Fds \cup {NoFd})
         /\ client' \in Maps(Fds, Conns) /\ size' \in Nat
         /\ reported' \in [Conns -> Nat]
         /\ Listed' /\ InOnePlace' /\ CountCovers' /\ ReportedOnce'
<1>1. TypeOK /\ Listed /\ InOnePlace /\ CountCovers /\ ReportedOnce
  BY DEF IInv
<1>2. /\ clientList' = [y \in DOMAIN clientList \ {fd} |-> clientList[y]]
      /\ client' = [y \in DOMAIN client \ {fd} |-> client[y]]
      /\ size' = size - 1
      /\ reported' = [reported EXCEPT ![client[fd]] = @ + 1]
  BY DEF Disconnect, Without
<1>3. /\ clientList \in [DOMAIN clientList -> Fds \cup {NoFd}]
      /\ DOMAIN clientList \subseteq Fds
      /\ client \in [DOMAIN client -> Conns] /\ DOMAIN client = DOMAIN clientList
      /\ client[fd] \in Conns
  BY <1>1, Shapes DEF Listed
<1>4. Closed(fd) /\ ready' \subseteq ready
  <2>1. CASE clientList[fd] = NoFd
    <3>1. fd \notin Open
      BY <1>1, <2>1, Shapes DEF Listed, OpenOwned
    <3>. QED
      BY <1>1, <2>1, <3>1 DEF Disconnect, Closed, Open, TypeOK
  <2>2. CASE clientList[fd] # NoFd
    <3>1. clientList[fd] = fd /\ CloseSock(fd)
      BY <1>1, <2>2 DEF Listed, OpenOwned, Disconnect
    <3>. QED
      BY <1>1, <3>1, CloseCloses DEF CloseSock
  <2>. QED
    BY <2>1, <2>2
<1>5. clientList' \in Maps(Fds, Fds \cup {NoFd}) /\ client' \in Maps(Fds, Conns)
  <2>1. /\ clientList' \in [DOMAIN clientList \ {fd} -> Fds \cup {NoFd}]
        /\ client' \in [DOMAIN clientList \ {fd} -> Conns]
        /\ DOMAIN clientList \ {fd} \in SUBSET Fds
    BY <1>2, <1>3
  <2>. QED
    BY <2>1 DEF Maps
<1>6. /\ DOMAIN clientList' = DOMAIN clientList \ {fd}
      /\ DOMAIN client' = DOMAIN clientList \ {fd}
      /\ \A gd \in DOMAIN clientList \ {fd} :
           clientList'[gd] = clientList[gd] /\ client'[gd] = client[gd]
  BY <1>2, <1>3
<1>7. Listed'
  BY <1>1, <1>4, <1>6 DEF Listed, OpenOwned, Closed
<1>8. /\ Current(client[fd]) /\ reported' \in [Conns -> Nat]
      /\ reported'[client[fd]] = 1
      /\ \A d \in Conns : d # client[fd] => reported'[d] = reported[d]
  BY <1>1, <1>2, <1>3 DEF InOnePlace, Current, TypeOK
<1>9. InOnePlace'
  <2>1. \A gd \in DOMAIN client' :
          /\ client'[gd] \in Conns /\ client'[gd] # client[fd]
          /\ Current(client'[gd])
    BY <1>1, <1>3, <1>6 DEF InOnePlace
  <2>2. \A gd \in DOMAIN client' : Current(client[gd])'
    BY <1>8, <2>1 DEF Current
  <2>3. \A i \in DOMAIN backlog :
          backlog[i] \in Conns /\ backlog[i] # client[fd] /\ Current(backlog[i])
    BY <1>1, <1>3 DEF InOnePlace, TypeOK
  <2>4. \A i \in DOMAIN backlog' : Current(backlog[i])'
    BY <1>8, <2>3 DEF Current
  <2>. QED
    BY <1>1, <1>3, <1>6, <2>2, <2>4 DEF InOnePlace
<1>10. CountCovers' /\ size' \in Nat
  <2>1. /\ IsFiniteSet(DOMAIN clientList) /\ size \in Nat
        /\ Cardinality(DOMAIN clientList) \in Nat
    BY <1>1, Entries DEF TypeOK
  <2>2. /\ Cardinality(DOMAIN clientList \ {fd}) = Cardinality(DOMAIN clientList) - 1
        /\ IsFiniteSet(DOMAIN clientList \ {fd})
    BY <2>1, FS_RemoveElement, Zenon
  <2>3. Cardinality(DOMAIN clientList \ {fd}) \in Nat
    BY <2>2, FS_CardinalityType, Zenon
  <2>. QED
    BY <1>1, <1>2, <1>6, <2>1, <2>2, <2>3 DEF CountCovers
<1>11. ReportedOnce'
  <2>. SUFFICES ASSUME NEW d \in Conns, reported'[d] > 0
                PROVE  reported'[d] = 1 /\ Dropped(d)'
    BY DEF ReportedOnce
  <2>1. CASE d = client[fd]
    <3>1. peer[d] # "none" /\ \A i \in DOMAIN backlog : backlog[i] # d
      BY <1>1, <1>3, <1>8, <2>1 DEF InOnePlace, Current
    <3>2. \A gd \in Open' : fdConn'[gd] # d
      BY <1>1, <1>3, <1>4, <2>1 DEF InOnePlace, Listed, OpenOwned, Closed
    <3>. QED
      BY <1>8, <2>1, <3>1, <3>2 DEF Dropped
  <2>2. CASE d # client[fd]
    BY <1>1, <1>4, <1>8, <2>2 DEF ReportedOnce, Dropped, Closed
  <2>. QED
    BY <2>1, <2>2
<1>. QED
  BY <1>4, <1>5, <1>7, <1>8, <1>9, <1>10, <1>11

LEMMA HangUpKeeps == ASSUME IInv, HangUp PROVE IInv'
<1>1. TypeOK /\ Batch /\ Edges
  BY DEF IInv
<1>2. /\ pc = "hangup" /\ pc' = (IF events = {} THEN "loop" ELSE "event")
      /\ event' = NoEvent
      /\ UNCHANGED <<peer, inbox, nsent, backlog, events, stream, exit, handed,
                     failed>>
  BY DEF HangUp, kernelVars
<1>3. \A e \in events : e.fd # event.fd
  BY <1>1, <1>2 DEF Batch
<1>4. CASE event.hup /\ event.fd \in DOMAIN clientList
  <2>1. Disconnect(event.fd)
    BY <1>4 DEF HangUp
  <2>2. /\ Closed(event.fd) /\ ready' \subseteq ready
        /\ clientList' \in Maps(Fds, Fds \cup {NoFd})
        /\ client' \in Maps(Fds, Conns) /\ size' \in Nat
        /\ reported' \in [Conns -> Nat]
        /\ Listed' /\ InOnePlace' /\ CountCovers' /\ ReportedOnce'
    BY <1>2, <1>4, <2>1, DisconnectKeeps
  <2>3. TypeOK'
    BY <1>1, <1>2, <2>2 DEF TypeOK, Closed
  <2>4. Edges'
    BY <1>2, <1>3, <2>2, ClosedKeepsEdges
  <2>5. Batch'
    BY <1>1, <1>2, <1>3, <2>2 DEF Batch, Closed
  <2>. QED
    BY <1>2, <2>2, <2>3, <2>4, <2>5 DEF IInv, ReleaseClosesAll
<1>5. CASE ~(event.hup /\ event.fd \in DOMAIN clientList)
  <2>1. UNCHANGED <<listVars, reported, fdConn, ready>>
    BY <1>5 DEF HangUp
  <2>2. Listed' /\ InOnePlace' /\ CountCovers' /\ ReportedOnce' /\ Open' = Open
    BY <1>2, <2>1, KeepsClients
  <2>3. TypeOK'
    BY <1>1, <1>2, <2>1 DEF TypeOK, listVars
  <2>4. Edges' /\ Batch'
    BY <1>1, <1>2, <2>1, <2>2 DEF Edges, Seen, Batch, In, Gone
  <2>. QED
    BY <1>2, <2>2, <2>3, <2>4 DEF IInv, ReleaseClosesAll
<1>. QED
  BY <1>4, <1>5

-----------------------------------------------------------------------------
(* Release() *)

LEMMA ReleaseClientKeeps == ASSUME IInv, ReleaseClient PROVE IInv'
<1>1. TypeOK /\ Listed /\ Batch /\ Edges
  BY DEF IInv
<1>2. /\ pc = "release" /\ pc' = pc
      /\ UNCHANGED <<peer, inbox, nsent, backlog, events, event, stream, exit,
                     handed, failed>>
  BY DEF ReleaseClient, kernelVars, batchVars
<1>3. events = {}
  BY <1>1, <1>2 DEF Batch
<1>4. ASSUME NEW fd \in DOMAIN clientList, Disconnect(fd)
      PROVE  IInv'
  <2>1. /\ Closed(fd) /\ ready' \subseteq ready
        /\ clientList' \in Maps(Fds, Fds \cup {NoFd})
        /\ client' \in Maps(Fds, Conns) /\ size' \in Nat
        /\ reported' \in [Conns -> Nat]
        /\ Listed' /\ InOnePlace' /\ CountCovers' /\ ReportedOnce'
    BY <1>2, <1>4, DisconnectKeeps
  <2>2. TypeOK'
    BY <1>1, <1>2, <2>1 DEF TypeOK, Closed
  <2>3. Edges'
    BY <1>2, <1>3, <2>1, ClosedKeepsEdges
  <2>4. Batch'
    BY <1>1, <1>2, <1>3 DEF Batch
  <2>. QED
    BY <1>2, <2>1, <2>2, <2>3, <2>4 DEF IInv, ReleaseClosesAll
<1>5. CASE UNCHANGED <<listVars, reported, fdConn, ready>>
  <2>1. Listed' /\ InOnePlace' /\ CountCovers' /\ ReportedOnce' /\ Open' = Open
    BY <1>2, <1>5, KeepsClients
  <2>2. TypeOK'
    BY <1>1, <1>2, <1>5 DEF TypeOK, listVars
  <2>3. Edges' /\ Batch'
    BY <1>1, <1>2, <1>5, <2>1 DEF Edges, Seen, Batch, In, Gone
  <2>. QED
    BY <1>2, <2>1, <2>2, <2>3 DEF IInv, ReleaseClosesAll
<1>. QED
  BY <1>4, <1>5 DEF ReleaseClient

LEMMA ReleasedKeeps == ASSUME IInv, Released PROVE IInv'
<1>. USE DEF Released, kernelVars, batchVars
<1>1. TypeOK /\ Listed /\ Batch /\ Edges /\ CountCovers
  BY DEF IInv
<1>2. Listed' /\ InOnePlace' /\ CountCovers' /\ ReportedOnce' /\ Open' = Open
  BY KeepsClients
<1>3. DOMAIN clientList = {}
  <2>1. /\ IsFiniteSet(DOMAIN clientList)
        /\ Cardinality(DOMAIN clientList) \in Nat /\ size = 0
    BY <1>1, Entries
  <2>2. Cardinality(DOMAIN clientList) = 0
    BY <1>1, <2>1 DEF CountCovers
  <2>. QED
    BY <2>1, <2>2, FS_EmptySet, Zenon
<1>4. Open = {}
  BY <1>1, <1>3 DEF Listed, OpenOwned
<1>5. TypeOK'
  BY <1>1 DEF TypeOK, listVars
<1>6. Batch' /\ Edges' /\ ReleaseClosesAll'
  BY <1>1, <1>2, <1>4 DEF Batch, Edges, ReleaseClosesAll
<1>. QED
  BY <1>2, <1>5, <1>6 DEF IInv

-----------------------------------------------------------------------------
LEMMA StepKeeps == IInv /\ [Next]_vars => IInv'
<1>. SUFFICES ASSUME IInv, [Next]_vars PROVE IInv'
  OBVIOUS
<1>1. CASE PeerStep
  BY <1>1, PeerKeeps DEF PeerStep
<1>2. CASE LoopStep
  BY <1>2, LoopKeeps, EpollWaitKeeps, HandleInKeeps, AcceptKeeps, ReadKeeps,
     AnswerKeeps, ReadGoneKeeps, HangUpKeeps DEF LoopStep
<1>3. CASE LoopListenStop
  BY <1>3, LoopKeeps
<1>4. CASE ReleaseStep
  BY <1>4, ReleaseClientKeeps, ReleasedKeeps DEF ReleaseStep
<1>5. CASE UNCHANGED vars
  <2>. USE <1>5 DEF vars, kernelVars, batchVars
  <2>1. TypeOK /\ Batch /\ Edges /\ ReleaseClosesAll
    BY DEF IInv
  <2>2. Listed' /\ InOnePlace' /\ CountCovers' /\ ReportedOnce' /\ Open' = Open
    BY KeepsClients
  <2>3. TypeOK'
    BY <2>1 DEF TypeOK, listVars
  <2>4. Batch' /\ Edges' /\ ReleaseClosesAll'
    BY <2>1, <2>2 DEF Batch, Edges, Seen, In, Gone, ReleaseClosesAll
  <2>. QED
    BY <2>2, <2>3, <2>4 DEF IInv
<1>. QED
  BY <1>1, <1>2, <1>3, <1>4, <1>5 DEF Next

LEMMA Inductive == Spec => []IInv
  BY InitHolds, StepKeeps, PTL DEF Spec

-----------------------------------------------------------------------------
(* Type correctness of the server, its sockets and its peers. *)
THEOREM ServerTypes == Spec => []TypeOK
<1>1. IInv => TypeOK
  BY DEF IInv
<1>. QED
  BY Inductive, <1>1, PTL

(* Every open descriptor belongs to the entry under its own number, however
   often the kernel gives numbers out again. *)
THEOREM DescriptorsOwned == Spec => []OpenOwned
<1>1. IInv => OpenOwned
  BY DEF IInv, Listed
<1>. QED
  BY Inductive, <1>1, PTL

(* An event that waits for its turn is about the connection its descriptor
   still stands for. *)
THEOREM BatchCurrent == Spec => []EventsCurrent
<1>1. IInv => EventsCurrent
  BY DEF IInv, Batch, EventsCurrent
<1>. QED
  BY Inductive, <1>1, PTL

(* Between two events every client with something to read is on the ready list
   or in the batch. *)
THEOREM EdgesKept == Spec => []NoEdgeLost
<1>1. IInv => NoEdgeLost
  BY DEF IInv, Edges, Seen, NoEdgeLost
<1>. QED
  BY Inductive, <1>1, PTL

(* The count of clients never falls short. *)
THEOREM CountEnough == Spec => []CountCovers
<1>1. IInv => CountCovers
  BY DEF IInv
<1>. QED
  BY Inductive, <1>1, PTL

(* When Release() has returned no connection is open. *)
THEOREM ReleaseComplete == Spec => []ReleaseClosesAll
<1>1. IInv => ReleaseClosesAll
  BY DEF IInv
<1>. QED
  BY Inductive, <1>1, PTL

(* No client is reported gone twice, nor while it is connected. *)
THEOREM ReportsOnce == Spec => []ReportedOnce
<1>1. IInv => ReportedOnce
  BY DEF IInv
<1>. QED
  BY Inductive, <1>1, PTL
=============================================================================
