----------------------------- MODULE LoggerProofs -----------------------------
(***************************************************************************)
(* Proofs about Logger, for any number of threads, lines and descriptors:  *)
(* the logger keeps to its own descriptor until two threads send at once,  *)
(* a line nobody disturbed is logged as it was formatted, and the log is a *)
(* beginning of what the program logged.                                   *)
(*                                                                         *)
(* SendRaw reads the socket, writes, and on a failure closes the socket    *)
(* and then notes that it is closed.  A single thread there always knows   *)
(* of the socket what the process's descriptors say of it, but for the     *)
(* moment between the two.  And a connection that is lost is not made      *)
(* again, whatever the threads do, so that nothing follows what it lost.   *)
(***************************************************************************)
EXTENDS Logger, WellFoundedInduction, TLAPS

(* At most one thread is in SendRaw. *)
Alone == \A t, u \in Sending : t = u

(* The socket is open and the logger's own, or it is noted to be closed, or
   somebody is about to note it. *)
SockKnown ==
  (\A t \in Threads : pc[t] # "clear") => sock = NoFd \/ IsOwn(sock)

(* What a thread is going to write to is the socket. *)
FdCurrent ==
  \A t \in Threads : pc[t] = "write" => sock # NoFd /\ fd[t] = sock

Maps == DOMAIN pc = Threads /\ DOMAIN fd = Threads

OneSender == Alone /\ SockKnown /\ FdCurrent /\ ~foreign

IInv == Maps /\ (~raced => OneSender)

-----------------------------------------------------------------------------
(* A descriptor that is given out was free. *)
LEMMA MinIn ==
  ASSUME NEW D, D \subseteq Fds, D # {}
  PROVE  Min(D) \in D
<1>1. D \in SUBSET Nat
  BY LoggerAssumption
<1>2. PICK x \in D : \A y \in D : <<y, x>> \notin OpToRel(<, Nat)
  BY <1>1, NatLessThanWellFounded, WFMin, Zenon
<1>3. \A y \in D : ~ (y < x)
  <2>. SUFFICES ASSUME NEW y \in D, y < x PROVE FALSE
    OBVIOUS
  <2>1. <<y, x>> \notin OpToRel(<, Nat)
    BY <1>2
  <2>2. <<y, x>> \in Nat \X Nat /\ <<y, x>>[1] = y /\ <<y, x>>[2] = x
    BY <1>1
  <2>3. <<y, x>> \in OpToRel(<, Nat)
    BY <2>2, Zenon DEF OpToRel
  <2>. QED
    BY <2>1, <2>3
<1>4. x \in Nat /\ \A y \in D : y \in Nat /\ x =< y
  BY <1>1, <1>3
<1>. QED
  BY <1>4 DEF Min

LEMMA MinFree == Free # {} => Min(Free) \in Free
  BY MinIn DEF Free

LEMMA InitHolds == Init => IInv
<1>. SUFFICES ASSUME Init PROVE IInv
  OBVIOUS
<1>1. Maps /\ Alone /\ FdCurrent /\ ~foreign
  BY DEF Init, Maps, Alone, Sending, FdCurrent
<1>2. SockKnown
  BY DEF Init, Construct, SockKnown, IsOwn
<1>. QED
  BY <1>1, <1>2 DEF IInv, OneSender

-----------------------------------------------------------------------------
(* One thread's steps. *)

(* Where the other threads are does not change. *)
LEMMA Moves ==
  ASSUME Maps, NEW t \in Threads, NEW l, Goto(t, l)
  PROVE  /\ DOMAIN pc' = Threads
         /\ pc'[t] = l
         /\ \A u \in Threads \ {t} : pc'[u] = pc[u]
  BY DEF Maps, Goto

(* A step between two places before SendRaw touches the socket. *)
LEMMA FormatKeeps ==
  ASSUME IInv, NEW t \in Threads, Get(t) \/ Format(t) PROVE IInv'
<1>1. /\ UNCHANGED <<sock, fd, owner, raced, foreign>>
      /\ Goto(t, "format") \/ UNCHANGED pc
  BY DEF Get, Begin, Format
<1>2. pc[t] \in {"idle", "format"}
  BY DEF Get, Begin, Format
<1>3. /\ DOMAIN pc' = Threads
      /\ \A u \in Threads \ {t} : pc'[u] = pc[u]
      /\ pc'[t] = "format" \/ pc'[t] = pc[t]
  BY <1>1, Moves DEF IInv, Maps
<1>4. Sending' = Sending
  BY <1>2, <1>3 DEF Sending
<1>5. Maps'
  BY <1>1, <1>3 DEF IInv, Maps
<1>6. ASSUME OneSender PROVE OneSender'
  BY <1>1, <1>2, <1>3, <1>4, <1>6
     DEF OneSender, Alone, SockKnown, FdCurrent, IsOwn
<1>. QED
  BY <1>1, <1>5, <1>6 DEF IInv

(* The thread that enters SendRaw is alone there, or the race is noted. *)
LEMMA SendPacketKeeps ==
  ASSUME IInv, NEW t \in Threads, SendPacket(t) PROVE IInv'
<1>1. PICK fits \in BOOLEAN :
        /\ Goto(t, IF fits THEN "send" ELSE "idle")
        /\ raced' = (raced \/ (fits /\ Sending # {}))
  BY DEF SendPacket
<1>2. /\ UNCHANGED <<sock, fd, owner, foreign>> /\ pc[t] = "format"
  BY DEF SendPacket
<1>3. /\ DOMAIN pc' = Threads
      /\ \A u \in Threads \ {t} : pc'[u] = pc[u]
      /\ pc'[t] = (IF fits THEN "send" ELSE "idle")
  BY <1>1, Moves DEF IInv
<1>4. Maps'
  BY <1>2, <1>3 DEF IInv, Maps
<1>5. ASSUME ~raced', OneSender PROVE OneSender'
  <2>1. Alone'
    BY <1>1, <1>2, <1>3, <1>5 DEF OneSender, Alone, Sending
  <2>2. SockKnown' /\ FdCurrent' /\ ~foreign'
    BY <1>2, <1>3, <1>5 DEF OneSender, SockKnown, FdCurrent, IsOwn
  <2>. QED
    BY <2>1, <2>2 DEF OneSender
<1>6. ~raced' => ~raced
  BY <1>1
<1>. QED
  BY <1>4, <1>5, <1>6 DEF IInv

(* A thread in SendRaw goes on: nobody else is there, before or after. *)
LEMMA StaysAlone ==
  ASSUME Maps, Alone, NEW t \in Sending, NEW l, Goto(t, l)
  PROVE  /\ Alone' /\ DOMAIN pc' = Threads /\ pc'[t] = l
         /\ \A u \in Threads \ {t} :
              pc'[u] = pc[u] /\ pc[u] \notin {"send", "write", "close", "clear"}
<1>1. t \in Threads
  BY DEF Sending
<1>2. \A u \in Threads \ {t} : u \notin Sending
  BY DEF Alone
<1>. QED
  BY <1>1, <1>2, Moves DEF Sending, Alone

LEMMA SendRawKeeps ==
  ASSUME IInv, NEW t \in Threads,
         Connect(t) \/ Write(t) \/ Close(t) \/ Clear(t)
  PROVE  IInv'
<1>1. raced' = raced
  BY DEF Connect, Write, Close, Clear, Unsent
<1>2. t \in Sending
  BY DEF Connect, Write, Close, Clear, Sending
<1>3. PICK l : Goto(t, l)
  BY DEF Connect, Write, Close, Clear
<1>4. Maps'
  BY <1>3, Moves DEF IInv, Maps, Connect, Write, Close, Clear
<1>5. ASSUME OneSender PROVE OneSender'
  <2>. USE <1>2, <1>5, StaysAlone DEF IInv, OneSender
  <2>1. CASE Connect(t)
    <3>1. /\ Goto(t, IF sock = NoFd THEN "reset" ELSE "write")
          /\ fd' = [fd EXCEPT ![t] = sock] /\ pc[t] = "send"
          /\ UNCHANGED <<sock, owner, foreign>>
      BY <2>1 DEF Connect
    <3>. QED
      BY <3>1 DEF SockKnown, FdCurrent, IsOwn, Maps
  <2>2. CASE Write(t)
    <3>1. IsOwn(fd[t]) /\ fd[t] = sock /\ sock # NoFd /\ pc[t] = "write"
      BY <2>2, Moves DEF SockKnown, FdCurrent, Write, Alone, Sending
    <3>2. ~IsOther(fd[t])
      BY <3>1 DEF IsOwn, IsOther
    <3>3. /\ Goto(t, "reset") \/ Goto(t, "close")
          /\ UNCHANGED <<sock, fd, owner>> /\ ~foreign'
      BY <2>2, <3>2 DEF Write
    <3>. QED
      BY <3>1, <3>3 DEF SockKnown, FdCurrent, IsOwn
  <2>3. CASE Close(t)
    <3>1. sock = NoFd \/ IsOwn(sock)
      BY <2>3 DEF SockKnown, Close, Alone, Sending
    <3>2. CASE sock = NoFd
      <4>1. Goto(t, "reset") /\ UNCHANGED <<sock, fd, owner, foreign>>
        BY <2>3, <3>2 DEF Close
      <4>. QED
        BY <3>2, <4>1 DEF SockKnown, FdCurrent, IsOwn
    <3>3. CASE sock # NoFd
      <4>1. /\ Goto(t, "clear") /\ UNCHANGED <<sock, fd>>
            /\ foreign' = (foreign \/ IsOther(sock))
        BY <2>3, <3>3 DEF Close
      <4>2. ~foreign'
        BY <3>1, <3>3, <4>1 DEF IsOwn, IsOther
      <4>. QED
        BY <4>1, <4>2 DEF SockKnown, FdCurrent
    <3>. QED
      BY <3>2, <3>3
  <2>4. CASE Clear(t)
    <3>1. Goto(t, "reset") /\ sock' = NoFd /\ UNCHANGED <<fd, foreign>>
      BY <2>4 DEF Clear
    <3>. QED
      BY <3>1 DEF SockKnown, FdCurrent
  <2>. QED
    BY <2>1, <2>2, <2>3, <2>4
<1>. QED
  BY <1>1, <1>4, <1>5 DEF IInv

LEMMA ResetKeeps == ASSUME IInv, NEW t \in Threads, Reset(t) PROVE IInv'
<1>1. /\ pc[t] = "reset" /\ Goto(t, "idle") /\ fd' = [fd EXCEPT ![t] = NoFd]
      /\ UNCHANGED <<sock, owner, raced, foreign>>
  BY DEF Reset
<1>2. /\ DOMAIN pc' = Threads /\ pc'[t] = "idle"
      /\ \A u \in Threads \ {t} : pc'[u] = pc[u] /\ fd'[u] = fd[u]
  BY <1>1, Moves DEF IInv, Maps
<1>3. Maps'
  BY <1>1, <1>2 DEF IInv, Maps
<1>4. ASSUME OneSender PROVE OneSender'
  <2>1. Sending' = Sending
    BY <1>1, <1>2 DEF Sending
  <2>. QED
    BY <1>1, <1>2, <1>4, <2>1
       DEF OneSender, Alone, SockKnown, FdCurrent, IsOwn
<1>. QED
  BY <1>1, <1>3, <1>4 DEF IInv

-----------------------------------------------------------------------------
(* The server and the rest of the process leave the socket the logger's. *)
LEMMA OthersKeep ==
  ASSUME IInv, ServerRead \/ ServerDown \/ ServerUp \/ OpenOther \/ CloseOther
  PROVE  IInv'
<1>1. UNCHANGED <<sock, pc, fd, raced, foreign>>
  BY DEF ServerRead, ServerDown, ServerUp, OpenOther, CloseOther, Elsewhere,
     Unsent
<1>2. IsOwn(sock) => IsOwn(sock)'
  <2>1. CASE ServerRead \/ ServerDown \/ ServerUp
    BY <1>1, <2>1 DEF ServerRead, ServerDown, ServerUp, IsOwn
  <2>2. CASE OpenOther
    BY <1>1, <2>2, MinFree DEF OpenOther, IsOwn, With, Free
  <2>3. CASE CloseOther
    BY <1>1, <2>3 DEF CloseOther, IsOwn, Without
  <2>. QED
    BY <2>1, <2>2, <2>3
<1>. QED
  BY <1>1, <1>2
     DEF IInv, Maps, OneSender, Alone, Sending, SockKnown, FdCurrent

-----------------------------------------------------------------------------
LEMMA StepKeeps == IInv /\ [Next]_vars => IInv'
<1>. SUFFICES ASSUME IInv, [Next]_vars PROVE IInv'
  OBVIOUS
<1>1. CASE \E t \in Threads : LogStep(t)
  BY <1>1, FormatKeeps, SendPacketKeeps, SendRawKeeps, ResetKeeps DEF LogStep
<1>2. CASE ServerRead \/ ServerDown \/ ServerUp \/ OpenOther \/ CloseOther
  BY <1>2, OthersKeep
<1>3. CASE UNCHANGED vars
  BY <1>3 DEF IInv, Maps, OneSender, Alone, Sending, SockKnown, FdCurrent,
     IsOwn, vars, threadVars
<1>. QED
  BY <1>1, <1>2, <1>3 DEF Next

(* However threads, descriptors and the log server go on: until two threads
   have been in SendRaw at once the logger neither writes to a descriptor of
   another part of the program nor closes one. *)
THEOREM DescriptorKept == Spec => []OwnDescriptor
<1>1. IInv => OwnDescriptor
  BY DEF IInv, OneSender, OwnDescriptor
<1>. QED
  BY InitHolds, StepKeeps, <1>1, PTL DEF Spec

-----------------------------------------------------------------------------
(* What is logged.  A thread that nobody has disturbed since its Get finds in *)
(* the stream what it has inserted; no text is sent that is neither a line    *)
(* as it was formatted nor one that is known to be disturbed.                 *)

Part(t) == [i \in 1 .. inserted[t] |-> <<t, line[t], i>>]

Whole(t, n) == {Garbled, Text(t, n)}

Records ==
  UNION {{[by |-> l[1], no |-> l[2], text |-> x] : x \in Whole(l[1], l[2])} :
           l \in Threads \X Nat}

Lines ==
  /\ line \in [Threads -> Nat] /\ inserted \in [Threads -> Nat]
  /\ DOMAIN text = Threads

StreamKnown ==
  \A t \in Threads : pc[t] = "format" /\ t \notin mixed => os = Part(t)

TextKnown ==
  \A t \in Threads : pc[t] \in {"send", "write"} => text[t] \in Whole(t, line[t])

TextInv ==
  /\ Maps /\ Lines /\ StreamKnown /\ TextKnown
  /\ queue \in Seq(Records) /\ log \in Seq(Records)

LEMMA ARecord ==
  ASSUME NEW t \in Threads, NEW n \in Nat, NEW x \in Whole(t, n)
  PROVE  [by |-> t, no |-> n, text |-> x] \in Records
<1>1. <<t, n>> \in Threads \X Nat /\ <<t, n>>[1] = t /\ <<t, n>>[2] = n
  OBVIOUS
<1>. QED
  BY <1>1 DEF Records

LEMMA RecordsWhole ==
  ASSUME NEW r \in Records
  PROVE  r.text # Garbled => r.text = Text(r.by, r.no)
<1>1. PICK l \in Threads \X Nat : \E x \in Whole(l[1], l[2]) :
        r = [by |-> l[1], no |-> l[2], text |-> x]
  BY DEF Records
<1>. QED
  BY <1>1 DEF Whole

LEMMA TextInit == Init => TextInv
<1>. SUFFICES ASSUME Init PROVE TextInv
  OBVIOUS
<1>1. <<>> \in Seq(Records)
  OBVIOUS
<1>. QED
  BY <1>1 DEF Init, TextInv, Maps, Lines, StreamKnown, TextKnown

(* The stream starts over: the others' lines are lost, and this one's begins. *)
LEMMA GetText == ASSUME TextInv, NEW t \in Threads, Get(t) PROVE TextInv'
<1>1. /\ pc[t] = "idle" /\ Goto(t, "format")
      /\ line' = [line EXCEPT ![t] = @ + 1]
      /\ inserted' = [inserted EXCEPT ![t] = 1]
      /\ os' = <<<<t, line'[t], 1>>>>
      /\ mixed' = mixed \cup Disturbs(t) \cup {u \in {t} : Disturbed(u)}
      /\ UNCHANGED <<text, fd, queue, log>>
  BY DEF Get, Begin, serverVars
<1>2. /\ DOMAIN pc' = Threads /\ pc'[t] = "format"
      /\ \A u \in Threads \ {t} : pc'[u] = pc[u]
  BY <1>1, Moves DEF TextInv
<1>3. Maps' /\ Lines'
  BY <1>1, <1>2 DEF TextInv, Maps, Lines
<1>4. StreamKnown'
  <2>1. Part(t)' = os'
    BY <1>1 DEF Part, TextInv, Lines
  <2>2. \A u \in Threads \ {t} : pc'[u] = "format" => u \in mixed'
    BY <1>1, <1>2 DEF Disturbs, Formatting
  <2>. QED
    BY <2>1, <2>2 DEF StreamKnown
<1>5. TextKnown'
  BY <1>1, <1>2 DEF TextInv, Lines, TextKnown
<1>. QED
  BY <1>1, <1>3, <1>4, <1>5 DEF TextInv

LEMMA FormatText == ASSUME TextInv, NEW t \in Threads, Format(t) PROVE TextInv'
<1>1. /\ pc[t] = "format"
      /\ inserted' = [inserted EXCEPT ![t] = @ + 1]
      /\ os' = Append(os, <<t, line[t], inserted'[t]>>)
      /\ mixed' = mixed \cup Disturbs(t)
      /\ UNCHANGED <<pc, text, fd, line, queue, log>>
  BY DEF Format, serverVars
<1>2. StreamKnown'
  <2>1. ASSUME t \notin mixed PROVE os' = Part(t)'
    <3>1. os = Part(t) /\ inserted[t] \in Nat
      BY <1>1, <2>1 DEF TextInv, StreamKnown, Lines
    <3>2. inserted'[t] = inserted[t] + 1
      BY <1>1 DEF TextInv, Lines
    <3>3. Part(t)' = Append(Part(t), <<t, line[t], inserted[t] + 1>>)
      BY <1>1, <3>1, <3>2 DEF Part
    <3>. QED
      BY <1>1, <3>1, <3>2, <3>3
  <2>2. \A u \in Threads \ {t} : pc'[u] = "format" => u \in mixed'
    BY <1>1 DEF Disturbs, Formatting
  <2>. QED
    BY <1>1, <2>1, <2>2 DEF StreamKnown
<1>. QED
  BY <1>1, <1>2 DEF TextInv, Maps, Lines, TextKnown

LEMMA SendPacketText ==
  ASSUME TextInv, NEW t \in Threads, SendPacket(t) PROVE TextInv'
<1>1. PICK fits \in BOOLEAN :
        /\ text' = [text EXCEPT ![t] =
                      IF t \notin mixed /\ fits THEN os ELSE Garbled]
        /\ Goto(t, IF fits THEN "send" ELSE "idle")
  BY DEF SendPacket
<1>2. /\ pc[t] = "format" /\ inserted[t] = Pieces + 1
      /\ mixed' = mixed \ {t} /\ inserted' = [inserted EXCEPT ![t] = 0]
      /\ UNCHANGED <<os, fd, line, queue, log>>
  BY DEF SendPacket, serverVars
<1>3. /\ DOMAIN pc' = Threads /\ pc'[t] = (IF fits THEN "send" ELSE "idle")
      /\ \A u \in Threads \ {t} : pc'[u] = pc[u]
  BY <1>1, Moves DEF TextInv
<1>4. Maps' /\ Lines'
  BY <1>1, <1>2, <1>3 DEF TextInv, Maps, Lines
<1>5. StreamKnown'
  BY <1>2, <1>3 DEF TextInv, StreamKnown, Part, Lines
<1>6. text'[t] \in Whole(t, line[t])
  <2>1. t \notin mixed => os = Text(t, line[t])
    BY <1>2 DEF TextInv, StreamKnown, Part, Text
  <2>. QED
    BY <1>1, <2>1 DEF TextInv, Lines, Whole
<1>7. TextKnown'
  BY <1>1, <1>2, <1>3, <1>6 DEF TextInv, Lines, TextKnown
<1>. QED
  BY <1>2, <1>4, <1>5, <1>7 DEF TextInv

(* SendRaw: the text goes to the server as it is. *)
LEMMA SendRawText ==
  ASSUME TextInv, NEW t \in Threads,
         Connect(t) \/ Write(t) \/ Close(t) \/ Clear(t)
  PROVE  TextInv'
<1>1. /\ UNCHANGED <<os, inserted, text, line, mixed, log>>
      /\ pc[t] \notin {"idle", "format"}
  BY DEF Connect, Write, Close, Clear, Unsent, serverVars
<1>2. PICK l \in {"write", "reset", "close", "clear"} :
        Goto(t, l) /\ (l = "write" => pc[t] = "send")
  BY DEF Connect, Write, Close, Clear
<1>3. /\ DOMAIN pc' = Threads /\ pc'[t] = l
      /\ \A u \in Threads \ {t} : pc'[u] = pc[u]
  BY <1>2, Moves DEF TextInv
<1>4. Maps' /\ Lines'
  BY <1>1, <1>3 DEF TextInv, Maps, Lines, Connect, Write, Close, Clear
<1>5. StreamKnown' /\ TextKnown'
  BY <1>1, <1>2, <1>3 DEF TextInv, StreamKnown, TextKnown, Part
<1>6. queue' \in Seq(Records)
  <2>1. CASE Connect(t) \/ Close(t) \/ Clear(t)
    BY <2>1 DEF TextInv, Connect, Close, Clear, serverVars
  <2>2. CASE Write(t)
    <3>1. [by |-> t, no |-> line[t], text |-> text[t]] \in Records
      BY <2>2, ARecord DEF TextInv, TextKnown, Lines, Write
    <3>2. \/ UNCHANGED queue
          \/ queue' = Append(queue, [by |-> t, no |-> line[t], text |-> text[t]])
      BY <2>2 DEF Write
    <3>. QED
      BY <3>1, <3>2 DEF TextInv
  <2>. QED
    BY <2>1, <2>2
<1>. QED
  BY <1>1, <1>4, <1>5, <1>6 DEF TextInv

LEMMA ResetText == ASSUME TextInv, NEW t \in Threads, Reset(t) PROVE TextInv'
<1>1. /\ pc[t] = "reset" /\ Goto(t, "idle")
      /\ fd' = [fd EXCEPT ![t] = NoFd] /\ text' = [text EXCEPT ![t] = <<>>]
      /\ mixed' = mixed \cup Disturbs(t)
      /\ UNCHANGED <<inserted, line, queue, log>>
  BY DEF Reset, serverVars
<1>2. /\ DOMAIN pc' = Threads /\ pc'[t] = "idle"
      /\ \A u \in Threads \ {t} : pc'[u] = pc[u]
  BY <1>1, Moves DEF TextInv
<1>3. Maps' /\ Lines'
  BY <1>1, <1>2 DEF TextInv, Maps, Lines
<1>4. StreamKnown'
  BY <1>1, <1>2 DEF StreamKnown, Disturbs, Formatting
<1>5. TextKnown'
  BY <1>1, <1>2 DEF TextInv, Lines, TextKnown
<1>. QED
  BY <1>1, <1>3, <1>4, <1>5 DEF TextInv

LEMMA OthersText ==
  ASSUME TextInv, ServerRead \/ ServerDown \/ ServerUp \/ OpenOther \/ CloseOther
  PROVE  TextInv'
<1>1. UNCHANGED <<os, inserted, text, line, mixed, pc, fd>>
  BY DEF ServerRead, ServerDown, ServerUp, OpenOther, CloseOther, Elsewhere,
     Unsent
<1>2. queue' \in Seq(Records) /\ log' \in Seq(Records)
  <2>1. CASE ServerRead
    <3>1. /\ queue # <<>> /\ queue \in Seq(Records) /\ log \in Seq(Records)
          /\ log' = Append(log, Head(queue)) /\ queue' = Tail(queue)
      BY <2>1 DEF ServerRead, TextInv
    <3>2. Head(queue) \in Records /\ Tail(queue) \in Seq(Records)
      BY <3>1
    <3>. QED
      BY <3>1, <3>2
  <2>2. CASE ServerDown
    <3>1. <<>> \in Seq(Records)
      OBVIOUS
    <3>. QED
      BY <2>2, <3>1 DEF ServerDown, TextInv
  <2>3. CASE ServerUp \/ OpenOther \/ CloseOther
    BY <2>3 DEF ServerUp, OpenOther, CloseOther, serverVars, TextInv
  <2>. QED
    BY <2>1, <2>2, <2>3
<1>. QED
  BY <1>1, <1>2 DEF TextInv, Maps, Lines, StreamKnown, TextKnown, Part

LEMMA TextStep == TextInv /\ [Next]_vars => TextInv'
<1>. SUFFICES ASSUME TextInv, [Next]_vars PROVE TextInv'
  OBVIOUS
<1>1. CASE \E t \in Threads : LogStep(t)
  BY <1>1, GetText, FormatText, SendPacketText, SendRawText, ResetText
     DEF LogStep
<1>2. CASE ServerRead \/ ServerDown \/ ServerUp \/ OpenOther \/ CloseOther
  BY <1>2, OthersText
<1>3. CASE UNCHANGED vars
  BY <1>3 DEF TextInv, Maps, Lines, StreamKnown, TextKnown, Part, vars,
     threadVars, serverVars
<1>. QED
  BY <1>1, <1>2, <1>3 DEF Next

(* A line whose thread had the stream to itself is logged as it was
   formatted, with nothing of any other line in it. *)
THEOREM LinesIntact == Spec => []IntactIfAlone
<1>1. TextInv => IntactIfAlone
  <2>. SUFFICES ASSUME TextInv, NEW i \in DOMAIN log
                PROVE  log[i].text # Garbled
                         => log[i].text = Text(log[i].by, log[i].no)
    BY DEF IntactIfAlone
  <2>1. log[i] \in Records
    BY DEF TextInv
  <2>. QED
    BY <2>1, RecordsWhole
<1>. QED
  BY TextInit, TextStep, <1>1, PTL DEF Spec

-----------------------------------------------------------------------------
(* Types. *)

LEMMA TypesInit == Init => TypeOK
<1>. SUFFICES ASSUME Init PROVE TypeOK
  OBVIOUS
<1>1. Min(Fds) \in Fds
  BY MinIn, LoggerAssumption
<1>2. \E D \in SUBSET Fds : owner \in [D -> {"log", "other"}]
  <2>1. CASE up
    <3>1. owner \in [{Min(Fds)} -> {"log", "other"}]
      BY <2>1 DEF Init, Construct
    <3>. QED
      BY <1>1, <3>1
  <2>2. CASE ~up
    <3>1. owner \in [{} -> {"log", "other"}]
      BY <2>2 DEF Init, Construct
    <3>. QED
      BY <3>1
  <2>. QED
    BY <2>1, <2>2
<1>3. sock \in Fds \cup {NoFd} /\ connected \in BOOLEAN
  BY <1>1 DEF Init, Construct
<1>4. /\ 0 \in 0 .. Pieces + 1
      /\ <<>> \in Seq(Threads \X Nat \X Nat) /\ <<>> \in Seq(Record)
      /\ <<>> \in Seq([Threads -> Int])
  BY LoggerAssumption
<1>. QED
  BY <1>2, <1>3, <1>4 DEF Init, Construct, TypeOK, Formatting

LEMMA OwnerTypes ==
  ASSUME TypeOK, NEW d
  PROVE  /\ \A o \in {"log", "other"} : d \in Fds =>
              \E D \in SUBSET Fds : With(owner, d, o) \in [D -> {"log", "other"}]
         /\ \E D \in SUBSET Fds : Without(owner, d) \in [D -> {"log", "other"}]
<1>1. PICK D \in SUBSET Fds : owner \in [D -> {"log", "other"}]
  BY DEF TypeOK
<1>2. ASSUME NEW o \in {"log", "other"}, d \in Fds
      PROVE  \E E \in SUBSET Fds : With(owner, d, o) \in [E -> {"log", "other"}]
  <2>1. With(owner, d, o) \in [D \cup {d} -> {"log", "other"}]
    BY <1>1 DEF With
  <2>. QED
    BY <1>2, <2>1
<1>3. Without(owner, d) \in [D \ {d} -> {"log", "other"}]
  BY <1>1 DEF Without
<1>. QED
  BY <1>2, <1>3

LEMMA ReturnedTypes ==
  ASSUME TypeOK, NEW t \in Threads
  PROVE  Append(before[t], [u \in Threads |-> Returned(u)]) \in Seq([Threads -> Int])
<1>1. \A u \in Threads : Returned(u) \in Int
  BY DEF TypeOK, Returned
<1>2. [u \in Threads |-> Returned(u)] \in [Threads -> Int]
  BY <1>1
<1>3. before[t] \in Seq([Threads -> Int])
  BY DEF TypeOK
<1>. QED
  BY <1>2, <1>3

LEMMA TypesStream ==
  ASSUME TypeOK, NEW t \in Threads, Get(t) \/ Format(t) \/ SendPacket(t)
  PROVE  TypeOK'
<1>. USE DEF serverVars, threadVars, Goto
<1>1. CASE Get(t)
  <2>1. /\ pc' = [pc EXCEPT ![t] = "format"]
        /\ line' = [line EXCEPT ![t] = line[t] + 1]
        /\ os' = Append(<<>>, <<t, line'[t], 1>>)
        /\ inserted' = [inserted EXCEPT ![t] = 1]
        /\ mixed' = mixed \cup Disturbs(t) \cup {u \in {t} : Disturbed(u)}
        /\ before' = [before EXCEPT ![t] =
                        Append(before[t], [u \in Threads |-> Returned(u)])]
        /\ UNCHANGED <<sock, text, fd, owner, up, restarts, connected, queue, log,
                       raced, spoilt, foreign>>
    BY <1>1 DEF Get, Begin
  <2>2. line' \in [Threads -> Nat] /\ line'[t] \in Nat
    BY <2>1 DEF TypeOK
  <2>3. os' \in Seq(Threads \X Nat \X Nat)
    <3>1. <<>> \in Seq(Threads \X Nat \X Nat)
      OBVIOUS
    <3>2. <<t, line'[t], 1>> \in Threads \X Nat \X Nat
      BY <2>2
    <3>. QED
      BY <2>1, <3>1, <3>2
  <2>4. inserted' \in [Threads -> 0 .. Pieces + 1]
    BY <2>1, LoggerAssumption DEF TypeOK
  <2>5. /\ pc' \in [Threads -> {"idle", "format", "send", "write", "close",
                                "clear", "reset"}]
        /\ mixed' \subseteq Formatting'
    BY <2>1 DEF TypeOK, Formatting, Disturbs
  <2>6. before' \in [Threads -> Seq([Threads -> Int])]
    BY <2>1, ReturnedTypes DEF TypeOK
  <2>. QED
    BY <2>1, <2>2, <2>3, <2>4, <2>5, <2>6 DEF TypeOK
<1>2. CASE Format(t)
  <2>1. inserted[t] \in 0 .. Pieces + 1 /\ inserted[t] =< Pieces
    BY <1>2 DEF Format, TypeOK
  <2>2. inserted[t] + 1 \in 0 .. Pieces + 1
    BY <2>1, LoggerAssumption
  <2>3. inserted' = [inserted EXCEPT ![t] = inserted[t] + 1]
    BY <1>2 DEF Format
  <2>4. inserted' \in [Threads -> 0 .. Pieces + 1]
    BY <2>2, <2>3 DEF TypeOK
  <2>5. <<t, line[t], inserted'[t]>> \in Threads \X Nat \X Nat
    BY <2>1, <2>2, <2>3 DEF TypeOK
  <2>6. os' \in Seq(Threads \X Nat \X Nat)
    BY <1>2, <2>5 DEF Format, TypeOK
  <2>7. mixed' \subseteq Formatting'
    BY <1>2 DEF Format, TypeOK, Formatting, Disturbs
  <2>8. UNCHANGED <<sock, pc, text, fd, owner, up, restarts, connected, queue,
                    log, line, raced, before, spoilt, foreign>>
    BY <1>2 DEF Format
  <2>. QED
    BY <2>4, <2>6, <2>7, <2>8 DEF TypeOK
<1>3. CASE SendPacket(t)
  <2>1. PICK fits \in BOOLEAN :
          /\ text' = [text EXCEPT ![t] =
                        IF t \notin mixed /\ fits THEN os ELSE Garbled]
          /\ Goto(t, IF fits THEN "send" ELSE "idle")
          /\ raced' = (raced \/ (fits /\ Sending # {}))
          /\ spoilt' = spoilt \cup
                         {l \in {<<t, line[t]>>} : ~(t \notin mixed /\ fits)}
    BY <1>3 DEF SendPacket
  <2>2. /\ UNCHANGED <<os, sock, fd, owner, up, restarts, connected, queue, log,
                       line, before, foreign>>
        /\ mixed' = mixed \ {t} /\ inserted' = [inserted EXCEPT ![t] = 0]
    BY <1>3 DEF SendPacket
  <2>3. text' \in [Threads -> Seq(Threads \X Nat \X Nat)]
    <3>1. <<>> \in Seq(Threads \X Nat \X Nat)
      OBVIOUS
    <3>. QED
      BY <2>1, <3>1 DEF TypeOK, Garbled
  <2>4. /\ pc' \in [Threads -> {"idle", "format", "send", "write", "close",
                                "clear", "reset"}]
        /\ mixed' \subseteq Formatting'
    BY <2>1, <2>2 DEF TypeOK, Formatting
  <2>5. inserted' \in [Threads -> 0 .. Pieces + 1]
    BY <2>2, LoggerAssumption DEF TypeOK
  <2>6. spoilt' \subseteq Threads \X Nat
    <3>1. <<t, line[t]>> \in Threads \X Nat
      BY DEF TypeOK
    <3>. QED
      BY <2>1, <3>1 DEF TypeOK
  <2>. QED
    BY <2>1, <2>2, <2>3, <2>4, <2>5, <2>6 DEF TypeOK
<1>. QED
  BY <1>1, <1>2, <1>3

LEMMA TypesSend ==
  ASSUME TypeOK, NEW t \in Threads,
         Connect(t) \/ Write(t) \/ Close(t) \/ Clear(t) \/ Reset(t)
  PROVE  TypeOK'
<1>. USE DEF serverVars, threadVars, Goto, Unsent, TypeOK, Formatting
<1>1. CASE Connect(t)
  BY <1>1 DEF Connect
<1>2. CASE Write(t)
  <2>1. [by |-> t, no |-> line[t], text |-> text[t]] \in Record
    BY DEF Record
  <2>2. /\ \/ UNCHANGED queue
           \/ queue' = Append(queue, [by |-> t, no |-> line[t], text |-> text[t]])
        /\ \E l \in {"reset", "close"} : pc' = [pc EXCEPT ![t] = l]
        /\ pc[t] = "write" /\ foreign' \in BOOLEAN
        /\ UNCHANGED <<os, inserted, text, line, mixed, raced, before, spoilt, sock, fd,
                       owner, up, restarts, connected, log>>
    BY <1>2 DEF Write
  <2>3. queue' \in Seq(Record)
    <3>1. queue \in Seq(Record)
      OBVIOUS
    <3>2. \A r \in Record : Append(queue, r) \in Seq(Record)
      BY <3>1
    <3>. HIDE DEF TypeOK
    <3>. QED
      BY <2>1, <2>2, <3>1, <3>2, Zenon
  <2>. QED
    BY <2>2, <2>3
<1>3. CASE Close(t)
  <2>1. \E D \in SUBSET Fds : owner' \in [D -> {"log", "other"}]
    <3>1. UNCHANGED owner \/ owner' = Without(owner, sock)
      BY <1>3 DEF Close
    <3>2. \E D \in SUBSET Fds : owner \in [D -> {"log", "other"}]
      OBVIOUS
    <3>. HIDE DEF TypeOK
    <3>3. \E D \in SUBSET Fds : Without(owner, sock) \in [D -> {"log", "other"}]
      BY OwnerTypes, Zenon
    <3>. QED
      BY <3>1, <3>2, <3>3, Zenon
  <2>2. /\ \E l \in {"reset", "clear"} : pc' = [pc EXCEPT ![t] = l]
        /\ pc[t] = "close" /\ foreign' \in BOOLEAN
        /\ UNCHANGED <<os, inserted, text, line, mixed, raced, before, spoilt, sock, fd,
                       up, restarts, connected, queue, log>>
    BY <1>3 DEF Close
  <2>. QED
    BY <2>1, <2>2
<1>4. CASE Clear(t)
  BY <1>4 DEF Clear
<1>5. CASE Reset(t)
  BY <1>5 DEF Reset, Disturbs
<1>. QED
  BY <1>1, <1>2, <1>3, <1>4, <1>5

LEMMA TypesOthers ==
  ASSUME TypeOK, ServerRead \/ ServerDown \/ ServerUp \/ OpenOther \/ CloseOther
  PROVE  TypeOK'
<1>1. UNCHANGED <<os, sock, pc, inserted, text, fd, line, mixed, raced, before,
                  spoilt, foreign>>
  BY DEF ServerRead, ServerDown, ServerUp, OpenOther, CloseOther, Elsewhere,
     Unsent
<1>2. \E D \in SUBSET Fds : owner' \in [D -> {"log", "other"}]
  <2>1. CASE ServerRead \/ ServerDown \/ ServerUp
    BY <2>1 DEF ServerRead, ServerDown, ServerUp, TypeOK
  <2>2. CASE OpenOther
    BY <2>2, MinFree, OwnerTypes DEF OpenOther, Free
  <2>3. CASE CloseOther
    BY <2>3, OwnerTypes DEF CloseOther
  <2>. QED
    BY <2>1, <2>2, <2>3
<1>3. /\ up' \in BOOLEAN /\ restarts' \in Nat /\ connected' \in BOOLEAN
      /\ queue' \in Seq(Record) /\ log' \in Seq(Record)
  <2>1. CASE ServerRead
    <3>1. /\ queue # <<>> /\ queue \in Seq(Record) /\ log \in Seq(Record)
          /\ log' = Append(log, Head(queue)) /\ queue' = Tail(queue)
      BY <2>1 DEF ServerRead, TypeOK
    <3>2. Head(queue) \in Record /\ Tail(queue) \in Seq(Record)
      BY <3>1
    <3>3. UNCHANGED <<up, restarts, connected>>
      BY <2>1 DEF ServerRead
    <3>. QED
      BY <3>1, <3>2, <3>3 DEF TypeOK
  <2>2. CASE ServerDown
    <3>1. <<>> \in Seq(Record)
      OBVIOUS
    <3>. QED
      BY <2>2, <3>1 DEF ServerDown, TypeOK
  <2>3. CASE ServerUp
    BY <2>3 DEF ServerUp, TypeOK
  <2>4. CASE OpenOther \/ CloseOther
    BY <2>4 DEF OpenOther, CloseOther, serverVars, TypeOK
  <2>. QED
    BY <2>1, <2>2, <2>3, <2>4
<1>. QED
  BY <1>1, <1>2, <1>3 DEF TypeOK, Formatting

(* Every variable of the logger has its type. *)
THEOREM LoggerTypes == Spec => []TypeOK
<1>1. TypeOK /\ [Next]_vars => TypeOK'
  <2>. SUFFICES ASSUME TypeOK, [Next]_vars PROVE TypeOK'
    OBVIOUS
  <2>1. CASE Next
    BY <2>1, TypesStream, TypesSend, TypesOthers DEF Next, LogStep
  <2>2. CASE UNCHANGED vars
    BY <2>2 DEF TypeOK, Formatting, vars, threadVars, serverVars
  <2>. QED
    BY <2>1, <2>2
<1>. QED
  BY TypesInit, <1>1, PTL DEF Spec

-----------------------------------------------------------------------------
(* No gaps.  The logger has one connection in its life: nothing that is lost  *)
(* is followed by anything.                                                   *)

(* No line can be written any more. *)
Dead == ~connected \/ \A d \in DOMAIN owner : owner[d] # "log"

(* The one descriptor that may be the logger's is the socket. *)
OneSocket ==
  \A d \in DOMAIN owner : owner[d] = "log" =>
    /\ d = sock /\ d \in Fds
    /\ \A t \in Threads : pc[t] # "clear"
    /\ \A t \in Threads : pc[t] = "write" => fd[t] = d

(* What was written and not lost, in the order of the writes. *)
Written == log \o queue

(* The lines a thread is done with. *)
Done(t) == IF pc[t] \in {"format", "send", "write"} THEN line[t] - 1 ELSE line[t]

Stands(S, t, k) == \E i \in DOMAIN S : S[i].by = t /\ S[i].no = k

InOrder(S) ==
  \A i, j \in DOMAIN S : i < j /\ S[i].by = S[j].by => S[i].no < S[j].no

(* Only lines a thread is done with are written, and, as long as the connection
   lives, all those a packet was made of. *)
WrittenDone ==
  /\ \A t \in Threads : \A i \in DOMAIN Written :
       Written[i].by = t => Written[i].no =< Done(t)
  /\ ~Dead => \A t \in Threads : \A k \in 1 .. Done(t) :
                <<t, k>> \in spoilt \/ Stands(Written, t, k)

GapInv ==
  /\ OneSocket
  /\ InOrder(Written) /\ WrittenDone
  /\ \A t \in Threads : Done(t) \in Nat

LEMMA GapInit == Init => GapInv
<1>. SUFFICES ASSUME Init PROVE GapInv
  OBVIOUS
<1>1. Written = <<>> /\ DOMAIN Written = {}
  BY DEF Init, Written
<1>2. \A t \in Threads : Done(t) = 0
  BY DEF Init, Done
<1>3. OneSocket
  <2>1. Min(Fds) \in Fds
    BY MinIn, LoggerAssumption
  <2>. QED
    BY <2>1 DEF Init, Construct, OneSocket
<1>. QED
  BY <1>1, <1>2, <1>3 DEF GapInv, InOrder, WrittenDone

LEMMA WrittenTypes ==
  ASSUME TypeOK
  PROVE  /\ Written \in Seq(Record)
         /\ \A i \in DOMAIN Written :
              Written[i].by \in Threads /\ Written[i].no \in Nat
<1>1. Written \in Seq(Record)
  BY DEF TypeOK, Written
<1>2. \A i \in DOMAIN Written : Written[i] \in Record
  BY <1>1
<1>. QED
  BY <1>1, <1>2 DEF Record

(* Nothing is written or lost: a thread may be done with a line if no packet
   was made of it or the connection is dead. *)
LEMMA NothingWritten ==
  ASSUME TypeOK, GapInv, OneSocket', UNCHANGED Written,
         spoilt \subseteq spoilt', Dead => Dead',
         \A t \in Threads :
           /\ Done(t)' \in Nat /\ Done(t) =< Done(t)'
           /\ \A k \in 1 .. Done(t)' :
                k =< Done(t) \/ Dead' \/ <<t, k>> \in spoilt'
  PROVE  GapInv'
<1>1. InOrder(Written)'
  BY DEF GapInv, InOrder
<1>3. ASSUME NEW t \in Threads, NEW i \in DOMAIN Written, Written[i].by = t
      PROVE  Written[i].no =< Done(t)'
  <2>1. Written[i].no \in Nat
    BY WrittenTypes
  <2>2. Written[i].no =< Done(t) /\ Done(t) \in Nat
    BY <1>3 DEF GapInv, WrittenDone
  <2>3. Done(t) =< Done(t)' /\ Done(t)' \in Nat
    OBVIOUS
  <2>. QED
    BY <2>1, <2>2, <2>3
<1>4. ASSUME ~Dead', NEW t \in Threads, NEW k \in 1 .. Done(t)'
      PROVE  <<t, k>> \in spoilt' \/ Stands(Written, t, k)'
  <2>1. k =< Done(t) \/ <<t, k>> \in spoilt'
    BY <1>4
  <2>2. ASSUME k =< Done(t) PROVE k \in 1 .. Done(t)
    BY <1>4, <2>2 DEF GapInv
  <2>3. k =< Done(t) => <<t, k>> \in spoilt \/ Stands(Written, t, k)
    BY <1>4, <2>2 DEF GapInv, WrittenDone
  <2>. QED
    BY <2>1, <2>3 DEF Stands
<1>. QED
  BY <1>1, <1>3, <1>4 DEF GapInv, WrittenDone

(* A thread between Get and SendPacket: it is done with a line of which no
   packet can be made. *)
LEMMA FormatGaps ==
  ASSUME TypeOK, TypeOK', GapInv, NEW t \in Threads,
         Get(t) \/ Format(t) \/ SendPacket(t)
  PROVE  GapInv'
<1>1. /\ UNCHANGED <<sock, fd, owner, connected, queue, log>>
      /\ spoilt \subseteq spoilt'
  BY DEF Get, Begin, Format, SendPacket, serverVars
<1>2. Written' = Written /\ Dead' = Dead
  BY <1>1 DEF Written, Dead
<1>3. \E l \in {"format", "send", "idle"} : pc' = [pc EXCEPT ![t] = l]
  <2>1. CASE Get(t)
    BY <2>1 DEF Get, Begin, Goto
  <2>2. CASE Format(t)
    BY <2>2 DEF Format, TypeOK
  <2>3. CASE SendPacket(t)
    BY <2>3 DEF SendPacket, Goto
  <2>. QED
    BY <2>1, <2>2, <2>3
<1>4. OneSocket'
  BY <1>1, <1>3 DEF GapInv, OneSocket, TypeOK
<1>5. ASSUME NEW u \in Threads
      PROVE  /\ Done(u)' \in Nat /\ Done(u) =< Done(u)'
             /\ \A k \in 1 .. Done(u)' :
                  k =< Done(u) \/ <<u, k>> \in spoilt'
  <2>1. Done(u) \in Nat /\ line[u] \in Nat
    BY DEF GapInv, TypeOK
  <2>2. CASE Get(t)
    <3>1. /\ pc[t] = "idle" /\ pc' = [pc EXCEPT ![t] = "format"]
          /\ line' = [line EXCEPT ![t] = line[t] + 1]
      BY <2>2 DEF Get, Begin, Goto
    <3>2. CASE u = t
      <4>1. /\ Done(u) = line[u] /\ Done(u)' = line'[u] - 1
            /\ line'[u] = line[u] + 1
        <5>1. pc[u] = "idle" /\ pc'[u] = "format" /\ line'[u] = line[u] + 1
          BY <3>1, <3>2 DEF TypeOK
        <5>2. Done(u) = line[u]
          BY <5>1 DEF Done
        <5>3. Done(u)' = line'[u] - 1
          BY <5>1 DEF Done
        <5>. QED
          BY <5>1, <5>2, <5>3, Zenon
      <4>. QED
        BY <2>1, <4>1
    <3>3. CASE u # t
      <4>1. Done(u)' = Done(u)
        BY <3>1, <3>3 DEF Done, TypeOK
      <4>. QED
        BY <2>1, <4>1
    <3>. QED
      BY <3>2, <3>3
  <2>3. CASE Format(t)
    <3>1. Done(u)' = Done(u)
      BY <2>3 DEF Done, Format
    <3>. QED
      BY <2>1, <3>1
  <2>4. CASE SendPacket(t)
    <3>1. PICK fits \in BOOLEAN :
            /\ pc' = [pc EXCEPT ![t] = IF fits THEN "send" ELSE "idle"]
            /\ spoilt' = spoilt \cup
                           {l \in {<<t, line[t]>>} : ~(t \notin mixed /\ fits)}
      BY <2>4 DEF SendPacket, Goto
    <3>2. pc[t] = "format" /\ UNCHANGED line
      BY <2>4 DEF SendPacket
    <3>3. CASE fits \/ u # t
      <4>1. Done(u)' = Done(u)
        BY <3>1, <3>2, <3>3 DEF Done, TypeOK
      <4>. QED
        BY <2>1, <4>1
    <3>4. CASE ~fits /\ u = t
      <4>1. Done(u)' = line[u] /\ Done(u) = line[u] - 1
        BY <3>1, <3>2, <3>4 DEF Done, TypeOK
      <4>2. <<u, line[u]>> \in spoilt'
        BY <3>1, <3>4
      <4>3. ASSUME NEW k \in 1 .. line[u], ~(k =< line[u] - 1) PROVE k = line[u]
        BY <2>1, <4>3
      <4>. QED
        BY <2>1, <4>1, <4>2, <4>3
    <3>. QED
      BY <3>3, <3>4
  <2>. QED
    BY <2>2, <2>3, <2>4
<1>. QED
  BY <1>1, <1>2, <1>4, <1>5, NothingWritten

(* The threads elsewhere keep their place, and what they are done with. *)
LEMMA OthersDone ==
  ASSUME TypeOK, GapInv, UNCHANGED line,
         NEW t \in Threads, NEW l, pc' = [pc EXCEPT ![t] = l]
  PROVE  /\ pc'[t] = l /\ \A u \in Threads \ {t} : pc'[u] = pc[u]
         /\ \A u \in Threads \ {t} : Done(u)' = Done(u) /\ Done(u) \in Nat
         /\ Done(t)' = (IF l \in {"format", "send", "write"} THEN line[t] - 1
                        ELSE line[t])
         /\ line[t] \in Nat /\ Done(t) \in {line[t] - 1, line[t]}
  BY DEF TypeOK, GapInv, Done

(* A thread on its way through SendRaw that writes nothing: it goes past its
   write only if the connection is dead. *)
LEMMA PassesWrite ==
  ASSUME TypeOK, GapInv, OneSocket', UNCHANGED <<line, spoilt, queue, log>>,
         Dead => Dead',
         NEW t \in Threads, NEW l, pc' = [pc EXCEPT ![t] = l],
         \/ Dead' /\ l \notin {"format", "send", "write"}
         \/ /\ l \in {"format", "send", "write"}
            /\ pc[t] \in {"format", "send", "write"}
         \/ /\ l \notin {"format", "send", "write"}
            /\ pc[t] \notin {"format", "send", "write"}
  PROVE  GapInv'
<1>1. UNCHANGED Written
  BY DEF Written
<1>2. ASSUME NEW u \in Threads
      PROVE  /\ Done(u)' \in Nat /\ Done(u) =< Done(u)'
             /\ \A k \in 1 .. Done(u)' : k =< Done(u) \/ Dead'
  <2>1. Done(u) \in Nat
    BY DEF GapInv
  <2>2. CASE Done(u)' = Done(u)
    BY <2>1, <2>2
  <2>3. CASE Done(u)' # Done(u)
    <3>1. u = t
      BY <2>3, OthersDone
    <3>2. Dead' /\ Done(t)' = line[t]
      BY <2>3, <3>1, OthersDone DEF Done
    <3>3. line[t] \in Nat /\ Done(t) \in {line[t] - 1, line[t]}
      BY OthersDone
    <3>4. Done(t)' \in Nat /\ Done(t) =< Done(t)'
      BY <3>2, <3>3
    <3>. QED
      BY <3>1, <3>2, <3>4
  <2>. QED
    BY <2>2, <2>3
<1>. QED
  BY <1>1, <1>2, NothingWritten

(* The connection lives: the record is written behind all others. *)
LEMMA WriteGaps ==
  ASSUME TypeOK, TypeOK', GapInv, NEW t \in Threads, Write(t) PROVE GapInv'
<1>. DEFINE r == [by |-> t, no |-> line[t], text |-> text[t]]
<1>1. /\ pc[t] = "write"
      /\ UNCHANGED <<sock, fd, owner, connected, log, line, spoilt>>
  BY DEF Write, Unsent
<1>2. Dead' = Dead
  BY <1>1 DEF Dead
<1>3. PICK l \in {"reset", "close"} : pc' = [pc EXCEPT ![t] = l]
  BY DEF Write, Goto
<1>4. OneSocket'
  BY <1>1, <1>3 DEF GapInv, OneSocket, TypeOK
<1>5. CASE ~(IsOwn(fd[t]) /\ connected)
  <2>1. Dead
    BY <1>1, <1>5 DEF GapInv, OneSocket, Dead, IsOwn
  <2>2. UNCHANGED queue
    BY <1>5 DEF Write
  <2>. QED
    BY <1>1, <1>2, <1>3, <1>4, <2>1, <2>2, PassesWrite
<1>6. CASE IsOwn(fd[t]) /\ connected
  <2>1. ~Dead
    BY <1>6 DEF Dead, IsOwn
  <2>2. queue' = Append(queue, r)
    BY <1>6 DEF Write
  <2>3. /\ Written \in Seq(Record) /\ Len(Written) \in Nat
        /\ DOMAIN Written = 1 .. Len(Written)
    BY WrittenTypes
  <2>4. Written' = Append(Written, r)
    <3>1. log \in Seq(Record) /\ queue \in Seq(Record)
      BY DEF TypeOK
    <3>. HIDE DEF r
    <3>. QED
      BY <1>1, <2>2, <3>1 DEF Written
  <2>5. /\ DOMAIN Written' = 1 .. (Len(Written) + 1)
        /\ \A i \in DOMAIN Written : Written'[i] = Written[i]
        /\ Written'[Len(Written) + 1] = r
    BY <2>3, <2>4
  <2>6. r.by = t /\ r.no = line[t]
    OBVIOUS
  <2>. HIDE DEF r
  <2>7. /\ Done(t) = line[t] - 1 /\ Done(t)' = line[t] /\ line[t] \in Nat
        /\ \A u \in Threads \ {t} : Done(u)' = Done(u) /\ Done(u) \in Nat
    BY <1>1, <1>3, OthersDone DEF Done
  <2>8. \A i \in DOMAIN Written :
          /\ Written[i].by \in Threads /\ Written[i].no \in Nat
          /\ Written[i].no =< Done(Written[i].by)
          /\ Written[i].by = t => Written[i].no < line[t]
    <3>. SUFFICES ASSUME NEW i \in DOMAIN Written
                  PROVE  /\ Written[i].by \in Threads /\ Written[i].no \in Nat
                         /\ Written[i].no =< Done(Written[i].by)
                         /\ Written[i].by = t => Written[i].no < line[t]
      OBVIOUS
    <3>1. Written[i].by \in Threads /\ Written[i].no \in Nat
      BY WrittenTypes
    <3>2. Written[i].no =< Done(Written[i].by)
      BY <3>1 DEF GapInv, WrittenDone
    <3>. QED
      BY <2>7, <3>1, <3>2
  <2>9. InOrder(Written)'
    <3>. SUFFICES ASSUME NEW i \in DOMAIN Written', NEW j \in DOMAIN Written',
                         i < j, Written'[i].by = Written'[j].by
                  PROVE  Written'[i].no < Written'[j].no
      BY DEF InOrder
    <3>1. i \in DOMAIN Written
      BY <2>3, <2>5
    <3>2. CASE j \in DOMAIN Written
      BY <2>5, <3>1, <3>2 DEF GapInv, InOrder
    <3>3. CASE j = Len(Written) + 1
      BY <2>5, <2>6, <2>8, <3>1, <3>3
    <3>. QED
      BY <2>3, <2>5, <3>2, <3>3
  <2>10. \A k \in 1 .. line[t] - 1 :
           <<t, k>> \in spoilt \/ Stands(Written, t, k)
    BY <2>1, <2>7 DEF GapInv, WrittenDone
  <2>12. ASSUME NEW u \in Threads, NEW i \in DOMAIN Written', Written'[i].by = u
         PROVE  Written'[i].no =< Done(u)'
    <3>1. CASE i \in DOMAIN Written
      <4>1. Written[i].by = u /\ Written[i].no = Written'[i].no
        BY <2>5, <2>12, <3>1
      <4>2. CASE u = t
        BY <2>7, <2>8, <3>1, <4>1, <4>2
      <4>3. CASE u # t
        BY <2>7, <2>8, <3>1, <4>1, <4>3
      <4>. QED
        BY <4>2, <4>3
    <3>2. CASE i = Len(Written) + 1
      BY <2>5, <2>6, <2>7, <2>12, <3>2
    <3>. QED
      BY <2>3, <2>5, <3>1, <3>2
  <2>13. ASSUME NEW u \in Threads, NEW k \in 1 .. Done(u)'
         PROVE  <<u, k>> \in spoilt' \/ Stands(Written, u, k)'
    <3>1. Stands(Written, u, k) => Stands(Written, u, k)'
      BY <2>3, <2>5 DEF Stands
    <3>2. CASE u # t
      BY <1>1, <2>1, <2>7, <3>1, <3>2 DEF GapInv, WrittenDone
    <3>3. CASE u = t /\ k # line[t]
      <4>1. k \in 1 .. line[t] - 1
        BY <2>7, <3>3
      <4>. QED
        BY <1>1, <2>10, <3>1, <3>3, <4>1
    <3>4. CASE u = t /\ k = line[t]
      <4>1. Len(Written) + 1 \in DOMAIN Written'
        BY <2>3, <2>5
      <4>. QED
        BY <2>5, <2>6, <3>4, <4>1 DEF Stands
    <3>. QED
      BY <3>2, <3>3, <3>4
  <2>14. \A u \in Threads : Done(u)' \in Nat
    BY <2>7
  <2>. QED
    BY <1>4, <2>9, <2>12, <2>13, <2>14 DEF GapInv, WrittenDone
<1>. QED
  BY <1>5, <1>6

(* The rest of SendRaw.  A thread that finds no socket finds no connection. *)
LEMMA SendRawGaps ==
  ASSUME TypeOK, TypeOK', GapInv, NEW t \in Threads,
         Connect(t) \/ Close(t) \/ Clear(t) \/ Reset(t)
  PROVE  GapInv'
<1>1. UNCHANGED <<connected, queue, log, line, spoilt>>
  BY DEF Connect, Close, Clear, Reset, Unsent, serverVars
<1>2. CASE Connect(t)
  <2>1. /\ pc[t] = "send" /\ UNCHANGED <<sock, owner>>
        /\ fd' = [fd EXCEPT ![t] = sock]
        /\ pc' = [pc EXCEPT ![t] = IF sock = NoFd THEN "reset" ELSE "write"]
    BY <1>2 DEF Connect, Goto
  <2>2. Dead' = Dead
    BY <1>1, <2>1 DEF Dead
  <2>3. sock = NoFd => Dead
    BY LoggerAssumption DEF GapInv, OneSocket, Dead, NoFd
  <2>4. OneSocket'
    <3>. SUFFICES ASSUME NEW d \in DOMAIN owner, owner[d] = "log"
                  PROVE  /\ d = sock /\ d \in Fds
                         /\ \A u \in Threads : pc'[u] # "clear"
                         /\ \A u \in Threads : pc'[u] = "write" => fd'[u] = d
      BY <2>1 DEF OneSocket
    <3>1. /\ d = sock /\ d \in Fds
          /\ \A u \in Threads : pc[u] # "clear"
          /\ \A u \in Threads : pc[u] = "write" => fd[u] = d
      BY DEF GapInv, OneSocket
    <3>2. ASSUME NEW u \in Threads
          PROVE  pc'[u] # "clear" /\ (pc'[u] = "write" => fd'[u] = d)
      <4>1. CASE u = t
        BY <2>1, <3>1, <4>1 DEF TypeOK
      <4>2. CASE u # t
        BY <2>1, <3>1, <4>2 DEF TypeOK
      <4>. QED
        BY <4>1, <4>2
    <3>. QED
      BY <3>1, <3>2
  <2>5. CASE sock = NoFd
    <3>1. pc' = [pc EXCEPT ![t] = "reset"]
      BY <2>1, <2>5
    <3>. QED
      BY <1>1, <2>2, <2>3, <2>4, <2>5, <3>1, PassesWrite
  <2>6. CASE sock # NoFd
    <3>1. pc' = [pc EXCEPT ![t] = "write"]
      BY <2>1, <2>6
    <3>. QED
      BY <1>1, <2>1, <2>2, <2>4, <3>1, PassesWrite
  <2>. QED
    BY <2>5, <2>6
<1>3. CASE Close(t)
  <2>1. /\ pc[t] = "close" /\ UNCHANGED <<sock, fd>>
        /\ \/ UNCHANGED owner /\ pc' = [pc EXCEPT ![t] = "reset"]
           \/ /\ owner' = Without(owner, sock)
              /\ pc' = [pc EXCEPT ![t] = "clear"]
    BY <1>3 DEF Close, Goto
  <2>2. Dead => Dead'
    BY <1>1, <2>1 DEF Dead, Without
  <2>3. OneSocket'
    <3>1. CASE UNCHANGED owner /\ pc' = [pc EXCEPT ![t] = "reset"]
      <4>1. UNCHANGED <<owner, sock, fd>>
        BY <2>1, <3>1
      <4>2. OneSocket
        BY DEF GapInv
      <4>. SUFFICES ASSUME NEW d \in DOMAIN owner, owner[d] = "log"
                    PROVE  /\ d = sock /\ d \in Fds
                           /\ \A u \in Threads : pc'[u] # "clear"
                           /\ \A u \in Threads : pc'[u] = "write" => fd[u] = d
        BY <4>1, Zenon DEF OneSocket
      <4>3. /\ d = sock /\ d \in Fds
            /\ \A u \in Threads : pc[u] # "clear"
            /\ \A u \in Threads : pc[u] = "write" => fd[u] = d
        BY <4>2 DEF OneSocket
      <4>4. ASSUME NEW u \in Threads
            PROVE  pc'[u] # "clear" /\ (pc'[u] = "write" => fd[u] = d)
        <5>1. pc[u] # "clear" /\ (pc[u] = "write" => fd[u] = d)
          BY <4>3, Zenon
        <5>2. pc'[u] = pc[u] \/ pc'[u] = "reset"
          BY <3>1 DEF TypeOK
        <5>. QED
          BY <5>1, <5>2
      <4>. QED
        BY <4>3, <4>4, Zenon
    <3>2. CASE owner' = Without(owner, sock)
      <4>1. \A d \in DOMAIN owner' : owner'[d] # "log"
        BY <3>2 DEF Without, GapInv, OneSocket
      <4>. QED
        BY <4>1 DEF OneSocket
    <3>. QED
      BY <2>1, <3>1, <3>2
  <2>4. PICK l \in {"reset", "clear"} : pc' = [pc EXCEPT ![t] = l]
    BY <2>1
  <2>. QED
    BY <1>1, <2>1, <2>2, <2>3, <2>4, PassesWrite
<1>4. CASE Clear(t)
  <2>1. /\ pc[t] = "clear" /\ UNCHANGED <<fd, owner>>
        /\ pc' = [pc EXCEPT ![t] = "reset"]
    BY <1>4 DEF Clear, Goto
  <2>2. Dead' = Dead
    BY <1>1, <2>1 DEF Dead
  <2>3. \A d \in DOMAIN owner : owner[d] # "log"
    BY <2>1 DEF GapInv, OneSocket
  <2>4. OneSocket'
    BY <2>1, <2>3 DEF OneSocket
  <2>. QED
    BY <1>1, <2>1, <2>2, <2>4, PassesWrite
<1>5. CASE Reset(t)
  <2>1. /\ pc[t] = "reset" /\ UNCHANGED <<sock, owner>>
        /\ fd' = [fd EXCEPT ![t] = NoFd]
        /\ pc' = [pc EXCEPT ![t] = "idle"]
    BY <1>5 DEF Reset, Goto
  <2>2. Dead' = Dead
    BY <1>1, <2>1 DEF Dead
  <2>3. OneSocket'
    BY <2>1 DEF GapInv, OneSocket, TypeOK
  <2>. QED
    BY <1>1, <2>1, <2>2, <2>3, PassesWrite
<1>. QED
  BY <1>2, <1>3, <1>4, <1>5

(* The log server takes the first of what was written, or all of it is lost and
   the connection with it. *)
LEMMA OthersGaps ==
  ASSUME TypeOK, TypeOK', GapInv,
         ServerRead \/ ServerDown \/ ServerUp \/ OpenOther \/ CloseOther
  PROVE  GapInv'
<1>1. UNCHANGED <<sock, pc, fd, line, spoilt>>
  BY DEF ServerRead, ServerDown, ServerUp, OpenOther, CloseOther, Elsewhere,
     Unsent
<1>2. \A t \in Threads : Done(t)' = Done(t) /\ Done(t) \in Nat
  BY <1>1 DEF GapInv, Done
<1>3. \A d \in DOMAIN owner' :
        owner'[d] = "log" => d \in DOMAIN owner /\ owner[d] = "log"
  BY DEF ServerRead, ServerDown, ServerUp, OpenOther, CloseOther, With, Without
<1>4. OneSocket'
  BY <1>1, <1>3 DEF GapInv, OneSocket
<1>5. connected' => connected
  BY DEF ServerRead, ServerDown, ServerUp, OpenOther, CloseOther, serverVars
<1>6. Dead => Dead'
  BY <1>3, <1>5 DEF Dead
<1>7. CASE ~ServerDown
  <2>1. UNCHANGED Written
    <3>1. CASE ServerRead
      <4>1. /\ log \in Seq(Record) /\ queue \in Seq(Record) /\ queue # <<>>
            /\ log' = Append(log, Head(queue)) /\ queue' = Tail(queue)
        BY <3>1 DEF ServerRead, TypeOK
      <4>. QED
        BY <4>1 DEF Written
    <3>2. CASE ServerUp \/ OpenOther \/ CloseOther
      BY <3>2 DEF ServerUp, OpenOther, CloseOther, serverVars, Written
    <3>. QED
      BY <1>7, <3>1, <3>2
  <2>2. \A t \in Threads :
          /\ Done(t)' \in Nat /\ Done(t) =< Done(t)'
          /\ \A k \in 1 .. Done(t)' : k =< Done(t)
    BY <1>2
  <2>. QED
    BY <1>1, <1>4, <1>6, <2>1, <2>2, NothingWritten
<1>8. CASE ServerDown
  <2>1. Dead' /\ log' = log /\ queue' = <<>>
    BY <1>8 DEF ServerDown, Dead
  <2>2. Written' = log
    BY <2>1 DEF TypeOK, Written
  <2>3. /\ log \in Seq(Record) /\ queue \in Seq(Record)
        /\ Written \in Seq(Record)
    BY WrittenTypes DEF TypeOK
  <2>4. /\ Len(log) \in Nat /\ DOMAIN log = 1 .. Len(log)
        /\ DOMAIN Written = 1 .. Len(Written) /\ Len(Written) \in Nat
        /\ Len(log) =< Len(Written)
        /\ \A i \in DOMAIN log : Written[i] = log[i]
    BY <2>3 DEF Written
  <2>5. /\ \A i \in DOMAIN log : i \in DOMAIN Written /\ Written[i] = log[i]
        /\ \A j \in DOMAIN log : \A i \in 1 .. j : i \in DOMAIN log
    BY <2>4
  <2>6. InOrder(log)
    BY <2>5 DEF GapInv, InOrder
  <2>8. ASSUME NEW t \in Threads, NEW i \in DOMAIN log, log[i].by = t
        PROVE  log[i].no =< Done(t)'
    BY <1>2, <2>5, <2>8 DEF GapInv, WrittenDone
  <2>. QED
    BY <1>1, <1>2, <1>4, <2>1, <2>2, <2>6, <2>8
       DEF GapInv, InOrder, WrittenDone
<1>. QED
  BY <1>7, <1>8

LEMMA GapStep == TypeOK /\ TypeOK' /\ GapInv /\ [Next]_vars => GapInv'
<1>. SUFFICES ASSUME TypeOK, TypeOK', GapInv, [Next]_vars PROVE GapInv'
  OBVIOUS
<1>1. CASE \E t \in Threads : LogStep(t)
  BY <1>1, FormatGaps, WriteGaps, SendRawGaps DEF LogStep
<1>2. CASE ServerRead \/ ServerDown \/ ServerUp \/ OpenOther \/ CloseOther
  BY <1>2, OthersGaps
<1>3. CASE UNCHANGED vars
  BY <1>3 DEF GapInv, OneSocket, InOrder, WrittenDone, Written, Dead,
     Done, Stands, vars, threadVars, serverVars
<1>. QED
  BY <1>1, <1>2, <1>3 DEF Next

-----------------------------------------------------------------------------
(* Before each line stand those that had been logged when it began.           *)

Busy == {"format", "send", "write"}

(* A record in place j stands behind those of all lines whose calls had returned
   when its line began. *)
Preceded(S, j) ==
  \A u \in Threads : \A k \in 1 .. before[S[j].by][S[j].no][u] :
    \/ <<u, k>> \in spoilt
    \/ \E i \in 1 .. j - 1 : S[i].by = u /\ S[i].no = k

BegunInv ==
  \A t \in Threads :
    /\ Len(before[t]) = line[t]
    /\ pc[t] \in Busy =>
         line[t] >= 1 /\ \A u \in Threads : before[t][line[t]][u] =< Done(u)

(* A text that is not the line's is that of one known to be spoilt. *)
SpoiltInv ==
  /\ \A t \in Threads :
       pc[t] \in {"send", "write"} /\ text[t] = Garbled => <<t, line[t]>> \in spoilt
  /\ \A i \in DOMAIN Written :
       Written[i].text = Garbled => <<Written[i].by, Written[i].no>> \in spoilt

BehindInv ==
  \A j \in DOMAIN Written : Written[j].no >= 1 /\ Preceded(Written, j)

LineInv == BegunInv /\ SpoiltInv /\ BehindInv

LEMMA LineInit == Init => LineInv
<1>. SUFFICES ASSUME Init PROVE LineInv
  OBVIOUS
<1>1. Written = <<>> /\ DOMAIN Written = {}
  BY DEF Init, Written
<1>. QED
  BY <1>1 DEF Init, LineInv, BegunInv, SpoiltInv, BehindInv, Busy

(* What a thread is done with stays done; a line that has begun is not begun
   again. *)
LEMMA DoneGrows ==
  ASSUME TypeOK, NEW t \in Threads, LogStep(t), NEW u \in Threads
  PROVE  /\ Done(u) \in Int /\ Done(u)' \in Int /\ Done(u) =< Done(u)'
         /\ line[u] \in Nat
         /\ ~Get(t) => line' = line /\ (pc'[u] \in Busy => pc[u] \in Busy)
<1>1. line[u] \in Nat /\ Done(u) \in Int
  BY DEF TypeOK, Done
<1>2. CASE Get(t)
  <2>1. /\ pc[t] = "idle" /\ pc' = [pc EXCEPT ![t] = "format"]
        /\ line' = [line EXCEPT ![t] = line[t] + 1]
    BY <1>2 DEF Get, Begin, Goto
  <2>2. Done(u)' = Done(u)
    <3>1. CASE u = t
      BY <1>1, <2>1, <3>1 DEF Done, TypeOK
    <3>2. CASE u # t
      BY <2>1, <3>2 DEF Done, TypeOK
    <3>. QED
      BY <3>1, <3>2
  <2>. QED
    BY <1>1, <1>2, <2>2
<1>3. CASE ~Get(t)
  <2>1. UNCHANGED line
    BY <1>3 DEF LogStep, Format, SendPacket, Connect, Write, Close, Clear, Reset,
       Unsent
  <2>2. \/ UNCHANGED pc
        \/ \E l \in {"send", "write", "idle", "reset", "close", "clear"} :
             /\ pc' = [pc EXCEPT ![t] = l]
             /\ l \in Busy => pc[t] \in Busy
    BY <1>3 DEF LogStep, Format, SendPacket, Connect, Write, Close, Clear, Reset,
       Goto, Busy
  <2>3. pc'[u] \in Busy => pc[u] \in Busy
    BY <2>2 DEF TypeOK
  <2>. QED
    BY <1>1, <2>1, <2>3 DEF Done, Busy
<1>. QED
  BY <1>2, <1>3

(* A line that has begun: what it is behind is settled. *)
LEMMA BegunKeeps ==
  ASSUME TypeOK, TypeOK', BegunInv, NEW t \in Threads, LogStep(t)
  PROVE  /\ BegunInv'
         /\ \A u \in Threads : \A n \in 1 .. line[u] : before'[u][n] = before[u][n]
<1>1. CASE Get(t)
  <2>1. /\ pc[t] = "idle" /\ pc' = [pc EXCEPT ![t] = "format"]
        /\ line' = [line EXCEPT ![t] = line[t] + 1]
        /\ before' = [before EXCEPT ![t] =
                        Append(before[t], [u \in Threads |-> Returned(u)])]
    BY <1>1 DEF Get, Begin, Goto
  <2>2. /\ before[t] \in Seq([Threads -> Int]) /\ Len(before[t]) = line[t]
        /\ line[t] \in Nat
    BY DEF TypeOK, BegunInv
  <2>3. before'[t] = Append(before[t], [u \in Threads |-> Returned(u)])
    BY <2>1 DEF TypeOK
  <2>4. /\ Len(before'[t]) = line[t] + 1
        /\ before'[t][line[t] + 1] = [u \in Threads |-> Returned(u)]
        /\ \A n \in 1 .. line[t] : before'[t][n] = before[t][n]
    BY <2>2, <2>3
  <2>5. ASSUME NEW u \in Threads PROVE Returned(u) =< Done(u)
    <3>1. line[u] \in Nat
      BY DEF TypeOK
    <3>. QED
      BY <3>1 DEF Returned, Done
  <2>6. ASSUME NEW u \in Threads
        PROVE  /\ Returned(u) \in Int /\ Done(u) =< Done(u)'
               /\ Done(u) \in Int /\ Done(u)' \in Int
    <3>1. /\ Done(u) \in Int /\ Done(u)' \in Int /\ Done(u) =< Done(u)'
          /\ line[u] \in Nat
      BY DoneGrows
    <3>. QED
      BY <3>1 DEF Returned
  <2>7. line'[t] = line[t] + 1
    BY <2>1 DEF TypeOK
  <2>8. \A u \in Threads : before'[t][line'[t]][u] =< Done(u)'
    BY <2>4, <2>5, <2>6, <2>7
  <2>9. ASSUME NEW u \in Threads \ {t}
        PROVE  before'[u] = before[u] /\ line'[u] = line[u] /\ pc'[u] = pc[u]
    BY <2>1 DEF TypeOK
  <2>10. ASSUME NEW u \in Threads \ {t}, pc'[u] \in Busy
         PROVE  /\ line'[u] >= 1
                /\ \A v \in Threads : before'[u][line'[u]][v] =< Done(v)'
    <3>1. line[u] >= 1 /\ \A v \in Threads : before[u][line[u]][v] =< Done(v)
      BY <2>9, <2>10 DEF BegunInv
    <3>2. \A v \in Threads : before[u][line[u]][v] \in Int
      <4>1. /\ before[u] \in Seq([Threads -> Int])
            /\ line[u] \in Nat /\ Len(before[u]) = line[u]
        BY DEF TypeOK, BegunInv
      <4>2. before[u][line[u]] \in [Threads -> Int]
        BY <3>1, <4>1
      <4>. QED
        BY <4>2
    <3>. QED
      BY <2>6, <2>9, <3>1, <3>2
  <2>11. BegunInv'
    <3>. SUFFICES ASSUME NEW u \in Threads
                  PROVE  /\ Len(before'[u]) = line'[u]
                         /\ pc'[u] \in Busy =>
                              /\ line'[u] >= 1
                              /\ \A v \in Threads :
                                   before'[u][line'[u]][v] =< Done(v)'
      BY DEF BegunInv
    <3>1. CASE u = t
      BY <2>2, <2>4, <2>7, <2>8, <3>1
    <3>2. CASE u # t
      BY <2>9, <2>10, <3>2 DEF BegunInv
    <3>. QED
      BY <3>1, <3>2
  <2>. QED
    BY <2>4, <2>9, <2>11
<1>2. CASE ~Get(t)
  <2>1. UNCHANGED before
    BY <1>2 DEF LogStep, Format, SendPacket, Connect, Write, Close, Clear, Reset,
       Unsent
  <2>2. /\ UNCHANGED line
        /\ \A u \in Threads :
             /\ pc'[u] \in Busy => pc[u] \in Busy
             /\ Done(u) \in Int /\ Done(u)' \in Int /\ Done(u) =< Done(u)'
    BY <1>2, DoneGrows
  <2>3. ASSUME NEW u \in Threads, pc'[u] \in Busy
        PROVE  line[u] >= 1 /\ \A v \in Threads : before[u][line[u]][v] =< Done(v)'
    <3>1. line[u] >= 1 /\ \A v \in Threads : before[u][line[u]][v] =< Done(v)
      BY <2>2, <2>3 DEF BegunInv
    <3>2. \A v \in Threads : before[u][line[u]][v] \in Int
      <4>1. /\ before[u] \in Seq([Threads -> Int])
            /\ line[u] \in Nat /\ Len(before[u]) = line[u]
        BY DEF TypeOK, BegunInv
      <4>2. before[u][line[u]] \in [Threads -> Int]
        BY <3>1, <4>1
      <4>. QED
        BY <4>2
    <3>. QED
      BY <2>2, <3>1, <3>2
  <2>. QED
    BY <2>1, <2>2, <2>3 DEF BegunInv
<1>. QED
  BY <1>1, <1>2

(* A record that was in its place is still behind what it was behind. *)
LEMMA StillPreceded ==
  ASSUME GapInv, BehindInv, NEW j \in DOMAIN Written,
         Written[j].by \in Threads, Written[j].no \in Nat,
         line[Written[j].by] \in Nat, Done(Written[j].by) =< line[Written[j].by],
         \A u \in Threads : \A n \in 1 .. line[u] : before'[u][n] = before[u][n],
         spoilt \subseteq spoilt',
         j \in Nat \ {0}, \A i \in 1 .. j : Written'[i] = Written[i]
  PROVE  Written'[j].no >= 1 /\ Preceded(Written, j)'
<1>1. Written'[j] = Written[j]
  <2>1. j \in 1 .. j
    OBVIOUS
  <2>. QED
    BY <2>1
<1>2. Written[j].no \in 1 .. line[Written[j].by]
  BY DEF GapInv, WrittenDone, BehindInv
<1>3. before'[Written[j].by][Written[j].no] = before[Written[j].by][Written[j].no]
  BY <1>2
<1>4. Preceded(Written, j) /\ Written[j].no >= 1
  BY DEF BehindInv
<1>5. \A i \in 1 .. j - 1 : Written'[i] = Written[i]
  OBVIOUS
<1>. QED
  BY <1>1, <1>3, <1>4, <1>5 DEF Preceded
LEMMA TextNotGarbled ==
  ASSUME NEW t, NEW n
  PROVE  Text(t, n) # Garbled /\ 1 \in DOMAIN Text(t, n) /\ Text(t, n)[1] = <<t, n, 1>>
<1>1. 1 \in 1 .. Pieces + 1
  BY LoggerAssumption
<1>2. DOMAIN Text(t, n) = 1 .. Pieces + 1
  BY DEF Text
<1>3. DOMAIN Garbled = {}
  BY DEF Garbled
<1>4. Text(t, n)[1] = <<t, n, 1>>
  BY <1>1 DEF Text
<1>. QED
  BY <1>1, <1>2, <1>3, <1>4

(* A thread sends its line as it was formatted, or the line is spoilt. *)
LEMMA SpoiltKeeps ==
  ASSUME TypeOK, TextInv, SpoiltInv, NEW t \in Threads, LogStep(t)
  PROVE  /\ spoilt \subseteq spoilt'
         /\ \A u \in Threads : pc'[u] \in {"send", "write"} /\ text'[u] = Garbled
              => <<u, line'[u]>> \in spoilt'
<1>1. CASE SendPacket(t)
  <2>1. PICK fits \in BOOLEAN :
          /\ text' = [text EXCEPT ![t] =
                        IF t \notin mixed /\ fits THEN os ELSE Garbled]
          /\ pc' = [pc EXCEPT ![t] = IF fits THEN "send" ELSE "idle"]
          /\ spoilt' = spoilt \cup
                         {l \in {<<t, line[t]>>} : ~(t \notin mixed /\ fits)}
    BY <1>1 DEF SendPacket, Goto
  <2>2. UNCHANGED line /\ pc[t] = "format" /\ inserted[t] = Pieces + 1
    BY <1>1 DEF SendPacket
  <2>3. t \notin mixed => os = Text(t, line[t])
    BY <2>2 DEF TextInv, StreamKnown, Part, Text
  <2>4. CASE t \notin mixed /\ fits
    <3>1. text'[t] # Garbled
      BY <2>1, <2>3, <2>4, TextNotGarbled DEF TypeOK
    <3>2. \A u \in Threads \ {t} : text'[u] = text[u] /\ pc'[u] = pc[u]
      BY <2>1 DEF TypeOK
    <3>. QED
      BY <2>1, <2>2, <3>1, <3>2 DEF SpoiltInv
  <2>5. CASE ~(t \notin mixed /\ fits)
    <3>1. <<t, line[t]>> \in spoilt'
      BY <2>1, <2>5
    <3>2. \A u \in Threads \ {t} : text'[u] = text[u] /\ pc'[u] = pc[u]
      BY <2>1 DEF TypeOK
    <3>. QED
      BY <2>1, <2>2, <3>1, <3>2 DEF SpoiltInv
  <2>. QED
    BY <2>4, <2>5
<1>2. CASE ~SendPacket(t)
  <2>1. UNCHANGED spoilt
    BY <1>2 DEF LogStep, Get, Begin, Format, Connect, Write, Close, Clear, Reset,
       Unsent
  <2>2. \/ UNCHANGED pc
        \/ \E l \in {"format", "write", "idle", "reset", "close", "clear"} :
             /\ pc' = [pc EXCEPT ![t] = l]
             /\ l = "write" => pc[t] = "send"
    BY <1>2 DEF LogStep, Get, Begin, Format, Connect, Write, Close, Clear, Reset,
       Goto
  <2>3. \A u \in Threads :
          pc'[u] \in {"send", "write"} => pc[u] \in {"send", "write"}
    BY <2>2 DEF TypeOK
  <2>4. \A u \in Threads : pc[u] \in {"send", "write"}
                             => text'[u] = text[u] /\ line'[u] = line[u]
    <3>1. CASE Get(t)
      BY <3>1 DEF Get, Begin, TypeOK
    <3>2. CASE Reset(t)
      BY <3>2 DEF Reset, TypeOK
    <3>3. CASE Format(t) \/ Connect(t) \/ Write(t) \/ Close(t) \/ Clear(t)
      BY <3>3 DEF Format, Connect, Write, Close, Clear, Unsent
    <3>. QED
      BY <1>2, <3>1, <3>2, <3>3 DEF LogStep
  <2>. QED
    BY <2>1, <2>3, <2>4 DEF SpoiltInv
<1>. QED
  BY <1>1, <1>2

LEMMA RecordPlaces ==
  ASSUME TypeOK, GapInv
  PROVE  /\ Written \in Seq(Record)
         /\ DOMAIN Written = 1 .. Len(Written) /\ Len(Written) \in Nat
         /\ \A j \in DOMAIN Written :
              /\ Written[j].by \in Threads /\ Written[j].no \in Nat
              /\ line[Written[j].by] \in Nat
              /\ Done(Written[j].by) =< line[Written[j].by]
              /\ Written[j].no =< Done(Written[j].by)
              /\ Done(Written[j].by) \in Nat
<1>1. /\ Written \in Seq(Record)
      /\ \A j \in DOMAIN Written : Written[j].by \in Threads /\ Written[j].no \in Nat
  BY WrittenTypes
<1>2. \A t \in Threads :
        line[t] \in Nat /\ Done(t) =< line[t] /\ Done(t) \in Nat
  BY DEF TypeOK, Done, GapInv
<1>. QED
  BY <1>1, <1>2 DEF GapInv, WrittenDone

(* A line goes to the log server behind all that were there when it began. *)
LEMMA WriteBehind ==
  ASSUME TypeOK, GapInv, LineInv, NEW t \in Threads, Write(t), ~UNCHANGED Written
  PROVE  LET r == [by |-> t, no |-> line[t], text |-> text[t]]
             n == Len(Written) + 1
         IN  /\ DOMAIN Written' = 1 .. n /\ Written'[n] = r
             /\ \A i \in DOMAIN Written : Written'[i] = Written[i]
             /\ r.no >= 1 /\ \A j \in {n} : Preceded(Written, j)'
             /\ r.text = Garbled => <<r.by, r.no>> \in spoilt
<1>. DEFINE r == [by |-> t, no |-> line[t], text |-> text[t]]
            n == Len(Written) + 1
<1>1. /\ pc[t] = "write" /\ UNCHANGED <<log, line, before, spoilt>>
      /\ IsOwn(fd[t]) /\ connected /\ queue' = Append(queue, r)
  BY DEF Write, Unsent, Written
<1>2. r.by = t /\ r.no = line[t] /\ r.text = text[t]
  OBVIOUS
<1>. HIDE DEF r
<1>3. log \in Seq(Record) /\ queue \in Seq(Record) /\ Written \in Seq(Record)
  BY WrittenTypes DEF TypeOK
<1>4. Written' = Append(Written, r)
  BY <1>1, <1>3 DEF Written
<1>5. /\ DOMAIN Written' = 1 .. n /\ Written'[n] = r
      /\ \A i \in DOMAIN Written : Written'[i] = Written[i]
  BY <1>3, <1>4
<1>6. /\ line[t] >= 1 /\ \A u \in Threads : before[t][line[t]][u] =< Done(u)
      /\ text[t] = Garbled => <<t, line[t]>> \in spoilt
  BY <1>1 DEF LineInv, BegunInv, SpoiltInv, Busy
<1>7. ~Dead
  BY <1>1 DEF Dead, IsOwn
<1>8. ASSUME NEW u \in Threads, NEW k \in 1 .. before[t][line[t]][u],
             <<u, k>> \notin spoilt
      PROVE  \E i \in 1 .. n - 1 : Written'[i].by = u /\ Written'[i].no = k
  <2>1. /\ before[t] \in Seq([Threads -> Int]) /\ line[t] \in 1 .. Len(before[t])
    <3>1. before[t] \in Seq([Threads -> Int]) /\ line[t] \in Nat
      BY DEF TypeOK
    <3>2. Len(before[t]) = line[t]
      BY DEF LineInv, BegunInv
    <3>. QED
      BY <1>6, <3>1, <3>2
  <2>2. before[t][line[t]][u] \in Int
    <3>1. before[t][line[t]] \in [Threads -> Int]
      BY <2>1
    <3>. QED
      BY <3>1
  <2>3. before[t][line[t]][u] =< Done(u) /\ Done(u) \in Nat
    BY <1>6 DEF GapInv
  <2>4. k \in 1 .. Done(u)
    BY <2>2, <2>3
  <2>5. PICK i \in DOMAIN Written : Written[i].by = u /\ Written[i].no = k
    BY <1>7, <1>8, <2>4 DEF GapInv, WrittenDone, Stands
  <2>6. i \in 1 .. n - 1
    BY <1>3, <2>5
  <2>. QED
    BY <1>5, <2>5, <2>6
<1>9. ASSUME NEW j \in {n} PROVE Preceded(Written, j)'
  <2>1. /\ Written'[j].by = t /\ Written'[j].no = line[t]
        /\ UNCHANGED <<before, spoilt>>
    BY <1>1, <1>2, <1>5
  <2>2. ASSUME NEW u \in Threads, NEW k \in 1 .. before[t][line[t]][u],
               <<u, k>> \notin spoilt
        PROVE  \E i \in 1 .. j - 1 : Written'[i].by = u /\ Written'[i].no = k
    BY <1>8, <2>2
  <2>3. before'[Written'[j].by][Written'[j].no] = before[t][line[t]]
    BY <2>1
  <2>4. spoilt' = spoilt
    BY <2>1
  <2>. HIDE DEF n
  <2>. QED
    <3>. SUFFICES ASSUME NEW u \in Threads,
                         NEW k \in 1 .. before'[Written'[j].by][Written'[j].no][u]
                  PROVE  \/ <<u, k>> \in spoilt'
                         \/ \E i \in 1 .. j - 1 :
                              Written'[i].by = u /\ Written'[i].no = k
      BY Zenon DEF Preceded
    <3>1. k \in 1 .. before[t][line[t]][u]
      BY <2>3, Zenon
    <3>. QED
      BY <2>2, <2>4, <3>1, Zenon
<1>. QED
  BY <1>2, <1>5, <1>6, <1>9 DEF r

(* A step of a thread. *)
LEMMA LogStepBehind ==
  ASSUME TypeOK, TypeOK', GapInv, TextInv, LineInv, NEW t \in Threads, LogStep(t)
  PROVE  LineInv'
<1>1. /\ BegunInv'
      /\ \A u \in Threads : \A n \in 1 .. line[u] : before'[u][n] = before[u][n]
  BY BegunKeeps DEF LineInv
<1>2. /\ spoilt \subseteq spoilt'
      /\ \A u \in Threads : pc'[u] \in {"send", "write"} /\ text'[u] = Garbled
           => <<u, line'[u]>> \in spoilt'
  BY SpoiltKeeps DEF LineInv
<1>3. ASSUME NEW j \in DOMAIN Written, \A i \in DOMAIN Written : Written'[i] = Written[i]
      PROVE  /\ Written'[j].no >= 1 /\ Preceded(Written, j)'
             /\ Written'[j].text = Garbled
                  => <<Written'[j].by, Written'[j].no>> \in spoilt'
  <2>1. j \in Nat \ {0} /\ \A i \in 1 .. j : i \in DOMAIN Written
    BY RecordPlaces
  <2>2. \A i \in 1 .. j : Written'[i] = Written[i]
    BY <1>3, <2>1
  <2>3. Written'[j].no >= 1 /\ Preceded(Written, j)'
    BY <1>1, <1>2, <2>1, <2>2, RecordPlaces, StillPreceded DEF LineInv
  <2>. QED
    BY <1>2, <1>3, <2>3 DEF LineInv, SpoiltInv
<1>4. CASE UNCHANGED Written
  <2>1. BehindInv'
    BY <1>3, <1>4 DEF BehindInv
  <2>2. SpoiltInv'
    BY <1>2, <1>3, <1>4 DEF SpoiltInv
  <2>. QED
    BY <1>1, <2>1, <2>2 DEF LineInv
<1>5. CASE ~UNCHANGED Written
  <2>1. Write(t)
    BY <1>5 DEF LogStep, Get, Begin, Format, SendPacket, Connect, Close, Clear,
       Reset, serverVars, Written
  <2>2. /\ DOMAIN Written' = 1 .. Len(Written) + 1
        /\ \A i \in DOMAIN Written : Written'[i] = Written[i]
        /\ Written'[Len(Written) + 1].no >= 1
        /\ \A j \in {Len(Written) + 1} : Preceded(Written, j)'
        /\ Written'[Len(Written) + 1].text = Garbled
             => <<Written'[Len(Written) + 1].by, Written'[Len(Written) + 1].no>>
                  \in spoilt
    BY <1>5, <2>1, WriteBehind
  <2>3. \A j \in DOMAIN Written' : j \in DOMAIN Written \/ j = Len(Written) + 1
    BY <2>2, RecordPlaces
  <2>4. BehindInv'
    BY <1>3, <2>2, <2>3 DEF BehindInv
  <2>5. SpoiltInv'
    BY <1>2, <1>3, <2>2, <2>3 DEF SpoiltInv
  <2>. QED
    BY <1>1, <2>4, <2>5 DEF LineInv
<1>. QED
  BY <1>4, <1>5

(* What the log server lost was behind what it had read. *)
LEMMA OthersBehind ==
  ASSUME TypeOK, GapInv, LineInv,
         ServerRead \/ ServerDown \/ ServerUp \/ OpenOther \/ CloseOther
  PROVE  LineInv'
<1>1. UNCHANGED <<pc, text, line, before, spoilt>>
  BY DEF ServerRead, ServerDown, ServerUp, OpenOther, CloseOther, Elsewhere,
     Unsent
<1>2. BegunInv'
  BY <1>1 DEF LineInv, BegunInv, Done
<1>3. \A j \in DOMAIN Written' : j \in DOMAIN Written /\ Written'[j] = Written[j]
  <2>1. log \in Seq(Record) /\ queue \in Seq(Record)
    BY DEF TypeOK
  <2>2. CASE ServerRead
    <3>1. /\ queue # <<>> /\ log' = Append(log, Head(queue))
          /\ queue' = Tail(queue)
      BY <2>2 DEF ServerRead
    <3>2. Written' = Written
      BY <2>1, <3>1 DEF Written
    <3>. QED
      BY <3>2
  <2>3. CASE ServerDown
    <3>1. Written' = log
      BY <2>1, <2>3 DEF ServerDown, Written
    <3>2. \A j \in DOMAIN log : j \in DOMAIN Written /\ Written[j] = log[j]
      BY <2>1 DEF Written
    <3>. QED
      BY <3>1, <3>2
  <2>4. CASE ServerUp \/ OpenOther \/ CloseOther
    BY <2>4 DEF ServerUp, OpenOther, CloseOther, serverVars, Written
  <2>. QED
    BY <2>2, <2>3, <2>4
<1>4. Written' \in Seq(Record)
  <2>1. CASE ServerRead
    BY <2>1 DEF ServerRead, TypeOK, Written
  <2>2. CASE ServerDown
    BY <2>2 DEF ServerDown, TypeOK, Written
  <2>3. CASE ServerUp \/ OpenOther \/ CloseOther
    BY <2>3 DEF ServerUp, OpenOther, CloseOther, serverVars, TypeOK, Written
  <2>. QED
    BY <2>1, <2>2, <2>3
<1>5. BehindInv'
  <2>. SUFFICES ASSUME NEW j \in DOMAIN Written'
                PROVE  Written'[j].no >= 1 /\ Preceded(Written, j)'
    BY DEF BehindInv
  <2>1. j \in Nat \ {0} /\ \A i \in 1 .. j : i \in DOMAIN Written'
    BY <1>4
  <2>2. \A i \in 1 .. j : Written'[i] = Written[i]
    BY <1>3, <2>1
  <2>3. j \in DOMAIN Written
    BY <1>3
  <2>. QED
    BY <1>1, <2>1, <2>2, <2>3, RecordPlaces, StillPreceded DEF LineInv
<1>6. SpoiltInv'
  BY <1>1, <1>3 DEF LineInv, SpoiltInv
<1>. QED
  BY <1>2, <1>5, <1>6 DEF LineInv

LEMMA LineStep ==
  TypeOK /\ TypeOK' /\ GapInv /\ TextInv /\ LineInv /\ [Next]_vars => LineInv'
<1>. SUFFICES ASSUME TypeOK, TypeOK', GapInv, TextInv, LineInv, [Next]_vars
              PROVE  LineInv'
  OBVIOUS
<1>1. CASE \E t \in Threads : LogStep(t)
  BY <1>1, LogStepBehind
<1>2. CASE ServerRead \/ ServerDown \/ ServerUp \/ OpenOther \/ CloseOther
  BY <1>2, OthersBehind
<1>3. CASE UNCHANGED vars
  BY <1>3 DEF LineInv, BegunInv, SpoiltInv, BehindInv, Preceded, Written, Done,
     vars, threadVars, serverVars
<1>. QED
  BY <1>1, <1>2, <1>3 DEF Next

(* What is read of a log: a text tells its record. *)
LEMMA TextsTell ==
  ASSUME TextInv, NEW i \in DOMAIN log, log[i].text # Garbled
  PROVE  /\ log[i].text = Text(log[i].by, log[i].no)
         /\ \A t, n : log[i].text = Text(t, n) => log[i].by = t /\ log[i].no = n
<1>1. log[i] \in Records
  BY DEF TextInv
<1>2. log[i].text = Text(log[i].by, log[i].no)
  BY <1>1, RecordsWhole
<1>3. ASSUME NEW t, NEW n, log[i].text = Text(t, n)
      PROVE  log[i].by = t /\ log[i].no = n
  <2>1. <<t, n, 1>> = <<log[i].by, log[i].no, 1>>
    <3>1. Text(t, n)[1] = <<t, n, 1>>
      BY TextNotGarbled, Zenon
    <3>2. Text(log[i].by, log[i].no)[1] = <<log[i].by, log[i].no, 1>>
      BY TextNotGarbled, Zenon
    <3>. QED
      BY <1>2, <1>3, <3>1, <3>2, Zenon
  <2>. QED
    BY <2>1
<1>. QED
  BY <1>2, <1>3

(* However threads, descriptors and the log server go on, and with any number of
   lines: the log is a beginning of what the program logged, in the order in
   which one call returned before another began, with no line twice and without
   a gap but for the lines no packet was made of or others disturbed. *)
THEOREM LogHasNoGaps == Spec => []NoGaps
<1>1. TypeOK /\ TextInv /\ GapInv /\ LineInv => NoGaps
  <2>. SUFFICES ASSUME TypeOK, TextInv, GapInv, LineInv PROVE NoGaps
    OBVIOUS
  <2>1. log \in Seq(Record) /\ queue \in Seq(Record)
    BY DEF TypeOK
  <2>2. /\ DOMAIN log = 1 .. Len(log) /\ Len(log) \in Nat
        /\ \A i \in DOMAIN log : i \in DOMAIN Written /\ Written[i] = log[i]
    BY <2>1 DEF Written
  <2>3. ASSUME NEW i \in DOMAIN log, NEW j \in DOMAIN log,
               log[i].text = log[j].text, log[j].text # Garbled
        PROVE  i = j
    <3>1. log[i].by = log[j].by /\ log[i].no = log[j].no
      BY <2>3, TextsTell
    <3>2. log[j].no \in Nat
      BY <2>2, WrittenTypes
    <3>3. ~(i < j) /\ ~(j < i)
      BY <2>2, <3>1, <3>2 DEF GapInv, InOrder
    <3>. QED
      BY <2>2, <3>3
  <2>4. ASSUME NEW j \in DOMAIN log, NEW t \in Threads, NEW n \in 1 .. line[t],
               log[j].text = Text(t, n), NEW u \in Threads,
               NEW k \in 1 .. before[t][n][u], <<u, k>> \notin spoilt
        PROVE  \E i \in 1 .. j - 1 : log[i].text = Text(u, k)
    <3>1. log[j].by = t /\ log[j].no = n
      BY <2>4, TextsTell, TextNotGarbled
    <3>2. PICK i \in 1 .. j - 1 : Written[i].by = u /\ Written[i].no = k
      BY <2>2, <2>4, <3>1 DEF LineInv, BehindInv, Preceded
    <3>3. i \in DOMAIN log /\ log[i].by = u /\ log[i].no = k
      BY <2>2, <3>2
    <3>4. log[i].text # Garbled
      BY <2>2, <2>4, <3>3 DEF LineInv, SpoiltInv
    <3>. QED
      BY <3>2, <3>3, <3>4, TextsTell
  <2>. QED
    BY <2>3, <2>4 DEF NoGaps
<1>. QED
  BY LoggerTypes, TextInit, TextStep, GapInit, GapStep, LineInit, LineStep, <1>1,
     PTL DEF Spec
===============================================================================
