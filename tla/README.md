# FilikaDB in TLA+

Specifications, model-checking configurations and machine-checked proofs for
the code under `src/research/OrcInMem`: a PostgreSQL extension that keeps ORC
files in memory, and the in-memory stream, packet protocol, socket servers and
logger it is built from. Paths below are relative to `src/research/OrcInMem`.

## The system

| Component | State | Operations | Works with |
|---|---|---|---|
| `MemStream` (`MemStream/inc/MemStream.h`) | list of chunks of a fixed size, their fill | Write, Read, ==, reset, close, Len, Cnt | everything: received data, stored sources |
| `StreamPacket` (`MemStream/*/StreamPacket.*`) | one frame: marker, length, payload, CRC | Create, Check, Payload, PayloadLen | parser, senders |
| `SocketClientPacket` (`MemStreamServer/inc`) | parser state, window, buffered length bytes | OnRecv, SendPacket | called by the socket loops, calls OnRecvPacket |
| `Queue`, `PacketConsumer` (`Util/inc/Queue.h`, `ServerDomain/main.cpp`) | item queue, mutex, condition variable, `_exit` | push, pop, ListenLoop, ListenLoopStop | producer and consumer threads |
| `SocketServer` (`SockLib/inc/SocketServer.h`), `Loop` | client list and count, epoll set, `_exit` | Init, Accept, Recv, Disconnect, LoopListen, Release | kernel, clients' OnRecv, main thread |
| `Socket`, `SocketTCP`, `SocketDomain` | a descriptor or -1 | Init, Read, Write, Connect, Release | server and client loops |
| `SocketClient` (`SockLib/inc/SocketClient.h`) | `_exit`, the result of its loop | ConnectServer, Send, LoopStart, LoopStop | parser, server |
| `MemStreamPacket`, `MemStreamPacketMap` | JSON commands; a map of MemStreams | CreatePacket*, DecodePacket; Write, Read, Delete, Len | remote server |
| `OrcRemoteServer` | the store, shared by all its clients | one handler per command | server, parser, store |
| `Logger` (`Logger/inc`, `Logger/src`) | one socket and one text stream for all threads | Get, format, SendPacket, SendRaw | all threads, the log server |
| `pgext` | PostgreSQL's | foreign-data-wrapper callbacks | ORC library, MemStream, remote server |

How they interact: a socket server runs on one thread. It reads what a client
has sent into a `MemStream` and hands it to that client's `OnRecv`, which cuts
it into packets and calls `OnRecvPacket`; the handler answers over the same
socket. The main thread stops the loop, joins it and releases the server.
Peers send, close and reset at any time; the kernel reuses descriptor numbers
at once. `Queue` hands packets to a consumer thread.

What is hard in it, and where the properties aim: the parser's state outlives
windows and calls while part of what it refers to does not; `pop()` trusts a
wakeup without looking at the queue; a client closes its own descriptor while
the server's list still holds it and the kernel gives the number out again;
epoll is edge-triggered, so what is missed once is missed for good; chunk
borders in `MemStream`; frames of several clients are assembled at one place of
the stack, and a new client may inherit a parser; threads log over one stream
and one socket without a lock; clients of the remote store send ahead, several
to one source, and may be gone before their answers. `PROJECT.json` lists each
at its line.

What makes each component correct: `MemStream` is a plain sequence of bytes to
its users; the parser delivers what was sent, in order, and nothing else; a
`pop()` that is woken finds an item and a stopped consumer ends; the server
leaks no descriptor, confuses no client, loses no data and can be released;
the remote store executes the commands of its clients one at a time, in each
client's order, and answers each; a client program's loop ends when it should
and says why; a log line nobody disturbed arrives as it was formatted, and the
logger touches nobody else's descriptor.

## Modules

| Module | Models |
|---|---|
| `FlatStream` | what a `MemStream` promises: a sequence of bytes |
| `MemStream` | the chunk list, with the loops of Write and Read step by step; `Flat(listBuffer)` is the refinement mapping |
| `StreamPacket` | the frame format as operators; the CRC is a parameter |
| `PacketChannel` | what the packet layer promises a client program: packets arrive in order, once, all of them before the end |
| `PacketParser` | `OnRecv`/`recvPacket`, one byte per step, with a sender, short writes, noise and fragmentation |
| `ServerPackets` | one `PacketParser` per client of a server: the shared stack, the inherited parser |
| `SocketClient` | a client program: connecting, its loop with timeouts, `PacketParser` below it |
| `Queue` | the queue between threads and the consumer's loop |
| `SocketServer` | the epoll loop, its client list, the kernel's descriptors and epoll, the peers, the stop |
| `CommandLog` | what the remote store promises: a log of commands, each answered from those before it |
| `OrcRemoteServer` | the command packets, their handlers, the shared store, clients that send ahead and leave |
| `Logger` | threads that log over one stream and one socket, the log server, the process's descriptors |
| `*Proofs` | theorems about the module of that name, checked by TLAPS |
| `MC*` | model values and small constants for TLC |

`ServerPackets` and `SocketClient` extend `PacketParser` and add to its actions
what calls them; `OrcRemoteServer` takes packets as whole, which is what
`PacketChannel` promises, and `SocketServer` takes data in pieces of one `Read`.

Correspondence with the code, per module:

* `MemStream`: `listBuffer` is `_listBuffer` with each chunk as the sequence of
  the items written to it (`_listSize` is its length, `Idx()` a chunk's length);
  `Write`/`WriteChunk` and `Read`/`ReadChunk`/`ReadReturn` are the calls and the
  iterations of their loops. Chunk size `B` stands for `g_defBufferSize`.
* `StreamPacket`: a frame is a sequence of bytes; field lengths are parameters
  for the small instances, the length of the checksum too. `Create`, `Check`,
  `Payload` follow `StreamPacket.cpp`; the last two are given all of `_buff`, as
  there, and go by the length they find in it, not by what was received.
* `PacketParser`: variables have the names of the members (`posBuff`,
  `offsetBuff`, `parsFunc`, `posBuffBeginPack`, `lenghtBuff`, `lenPayload`);
  `buff` is the window (`_lenBuff` its length), `packetData` the first
  `_posPacket` bytes of the packet being assembled and `residue` what its `_buff`
  holds behind them: bytes of earlier frames, or the stack's. There is an action
  per parser function and outcome. `Recv` chooses whether the uninitialised local
  packet still holds the frame in progress (`StackOutcomes`). `wire` is all that
  was written to the connection, a history variable: `FrameStart` is the place on
  it where the frame in progress began. `SendShort` is a
  `Send` whose write was short: a part of the frame is on the connection, and
  the caller believes it sent. `Spin` is the loop that never ends because the
  place it went back to lies behind the window.
* `ServerPackets`: `PacketParser`'s variables are those of the client whose turn
  it is (`key`), the others' are in `parked`; `mem` (`packetData` and
  `residue`) is the stack's memory under `StreamPacket packet`, the same for
  every client: the next one to have a turn finds its frame in progress to be
  what the last one left there, and nothing has to be chosen.
  `Replaced(TRUE)` is a client accepted over an entry that was left behind, whose
  move assignment leaves the parser as it was. A turn is a call of `OnRecv`;
  bytes of a client that does not have the turn arrive when it gets it.
* `SocketClient`: `phase` is the place in `ConnectServer` and `LoopStart`,
  `result` its local of that name. The read has three ends: data, a timeout
  (EAGAIN), and the other side's close or reset.
* `Queue`: a critical section is one action, and the gap between `unlock` and
  `notify_one` is visible (`producer = "notify"`). A wait ends by notification,
  timeout or on its own (`spurious` remembers that); a thread that was notified
  may still find its second over.
* `SocketServer`: `pc` is the place of the server's thread between system
  calls. `clientList[fd]` is the `_sock` of the entry under `fd`, `NoFd` when
  the client released it; `size` is `_size`. The kernel: `fdConn` (open
  descriptors), `ready` (epoll's ready list), `backlog`, `inbox`. `epoll_wait`
  returns a set of events, of which the loop takes any next: the order the
  kernel puts them in the array is left open. History variables (`client`,
  `handed`, `reported`, `failed`) are only read by properties, `client` also to
  know which connection OnDisconnect is about.
* `OrcRemoteServer`: `store` is `_sourceMap`; `cmds` is the local vector of
  `OnRecvPacket`, and there is an action per handler that includes its answer.
  Commands and answers are records; the bytes a command writes carry its RefID,
  so that a stored byte tells who wrote it. `MaxPart` stands for what fits a
  packet.
* `Logger`: `os` is the global `_os`, `sock` the `_sock` of the one `LSockLog`,
  `pc[t]` the place of a thread in `LogLineGlobalFormatPacket` and `SendRaw`, with
  a step between any two accesses of shared data; `fd[t]` is the descriptor it
  has read and is about to use. `owner` says whose a number of the process is. A
  text that was disturbed may become anything (`Garbled`): writing to a
  `std::ostringstream` from two threads is undefined.

Parts marked *Mutant* in a module are variants of the definition that follows
with a plausible mistake in it; no specification uses them. They show that each
property can tell such a mistake.

## Runs

| Run | Question | Result |
|---|---|---|
| `memstream` | shape, reads, equality, refinement of `FlatStream` | holds |
| `packet_noise` | noise between packets, any stack contents | only sent packets are delivered; one-window calls deliver all; the parser's place on the connection never goes back; only packets check |
| `socket_client` | a client program, any fragmentation, the end of the connection | refines `PacketChannel`; OnRecv and the loop return, the result says why |
| `server_packets` | two clients of one server, shared memory, short writes, inherited parsers | a client whose frames were not written over is handed only its own packets, and all of them if they were sent in full |
| `packet_fragments_lost` | two clients, one of whose packets comes in two parts | **violated**: it is lost, and its client handed the other's packet |
| `packet_dirt_lost` | a stray first byte of the marker | **violated**: the next packet is lost |
| `queue` | wakeups, items, the stop | every wakeup has an item; the consumer ends |
| `server` | descriptor reuse, batches, edges, delivery, counting, release | holds |
| `server_clients_left` | a client that sends and leaves | **violated**: its entry stays |
| `remote_store` | several clients, one store | refines `CommandLog`; answers in order, to every command; parts fit |
| `remote_oversize` | a read longer than a packet | **violated**: never answered |
| `logger` | two threads, one stream, one socket, a log server that goes and returns | undisturbed lines are intact; no foreign descriptor unless two send at once; no line is logged with an earlier one missing; calls return |

The four violated properties state what the repository's tests say; the
counterexamples are the findings in `PROJECT.json`.

* *Fragments.* The parser's state survives a call, the packet it fills does not:
  `StreamPacket packet` in `OnRecv` is an uninitialised local. The test passes as
  long as the second call finds the first call's stack untouched; another
  client's turn in between is enough to write over it.
  As a rule the packet then does not check and is lost; the run shows the rarer
  and worse case. Where the other client's whole frame was written over the
  beginning of one's own, and what is still to come of one's own is what that
  frame ends with, e.g. the last byte of the CRC, everything `Check` looks at is
  the other client's, and right: one is handed the other's packet. The checksums
  of the two payloads differ; no collision is needed.
* *Dirt.* `_posBuffBeginPack` belongs to the window the frame began in. If that
  was an earlier window the parser resumes at an unrelated place of this one,
  and skips bytes. If this window is so short that the place lies behind its
  end, the loop in `recvPacket` never ends, and the server's thread with it. The
  tests' stray bytes are not the marker's first byte.
* *Clients left.* `Read` returning 0 closes the descriptor inside
  `Recv`. If the FIN arrived after `epoll_wait` no hang-up event is pending, and
  none can come: the entry stays, with `fd()` -1, `ClientCount()` never falls to
  0, and `Disconnect()` asks for the key -1 for ever.
* *Oversize.* `CreatePacketResponse` says by its result that the answer did not
  fit; no handler looks at it.

`CommandLog` has no store: existence, content and length of a source are read
off the log. That the map of the code agrees with it says that a deletion, a
read of what is not there, a failed answer or a client that goes leaves nothing
behind. What it does not promise: a client that asks for the length and then
reads part by part is not protected from a deletion in between, and may put together a mixture. `PartsFit`
excepts that and says what it can rely on.

What the properties of the logger do not promise is as telling: after one failed
write no line is logged again, since `Connect` is called on a socket that was
released and never made anew (`NoGaps` says that at least no line is logged with
an earlier one missing: earlier is one whose call had returned when the line's
own began, and lines are told by their text), and two threads that send at once may write to or close
a descriptor of somebody else (`OwnDescriptor` has to except them).

### Bounds, and why they are enough

* `memstream`: chunks of 2 items, total length up to 3 chunks: writes and reads
  that end before, at and after a border, and that span a whole chunk.
* Packets: a marker of two bytes, two length bytes, payloads of none or one byte
  where two are allowed, so that a length field can be too long or only wrong. The checksum is two bytes,
  so that a frame can lack, or be written over but for, a part of it.
  `packet_noise`: a window longer than any frame, so that several frames and
  noise share one, and calls that end inside it. `socket_client`: a window of 4,
  shorter than a frame, and reads of up to 6 bytes, so that a call has one or
  two windows and a frame can begin in one and end in the next or the one
  after. `MaxSends`, `MaxNoise`: two packets, or two and one piece of noise; a
  further one adds no new parser state at a border. `MaxTries` is the code's 5.
* `server_packets`: two entries, a packet on each, and one fault (`MaxFaults`): a
  write cut short, or a client replaced, before, between or after any turns.
  Frames of two lengths, so that a longer one can stand behind a shorter one;
  the last byte of the checksum is the same for all payloads of a length, so that
  a frame written over can be completed. More faults or clients only add to what
  may stand in the shared memory, of which `OwnPackets` below shows that it
  does not matter. `packet_fragments_lost`: two payloads of one length, no
  fault, and a packet that is cut is cut in front of its last byte
  (`LastByteApart`): wherever it is cut, it may be lost, and this cut shows both.
* `queue`: more consumers than producers and a second item for each producer,
  so that waiters, late waiters, pending notifications and left-over items coexist.
* `server`: three connections on two numbers, so that a number is used a second
  time while an entry or an event for its first use may be left, and one of the
  three may be reset. Data is counted in pieces of one `Read`.
* `remote_store`: two clients with two commands each, in packets of one and two,
  on two sources: one client's commands on both sides of the other's, two of one
  under way when it goes, a write before and after a deletion. Reads end at and
  after the end, or begin after it; a write of nothing makes an empty source.
* `logger`: two threads of two lines, the first line of one too long for a
  packet; two descriptors, so that the one the logger gave up can be given to
  somebody else; a connection that holds one packet, so that a write blocks; a
  log server that comes back once, which is when a reconnect could succeed.

Symmetry is used over the entries in `server_packets`, a run of safety properties
whose model compares keys only for equality; numbers that are ordered
(descriptors of `SocketServer` and `Logger`) are never symmetric.

### Fairness

* `SocketClient!FairSpec`: a client that is connected runs its loop, and its
  thread is scheduled; `OnRecv` is part of it. Nothing is assumed of the other
  side, of LoopStop, or of Connect.
* `Queue!FairSpec`: a consumer thread is scheduled and `wait_for` ends after a
  second. Nothing is assumed of the producers.
* `SocketServer!FairSpec`: the server's thread runs, and the main thread once it
  has entered Release(). Nothing is assumed of the peers or of the stop.
* `OrcRemoteServer!FairSpec`: the server's thread runs. Nothing is assumed of the
  clients.
* `Logger!FairSpec`: a thread that has begun a line is scheduled, and a log
  server that runs reads. Nothing makes a thread log or a log server start.

`PacketParser` and `ServerPackets` are checked for safety only.

`CHECK_DEADLOCK FALSE` is set where the system may stop: peers are done, the
bound on items is reached, or a thread has ended.

## Proofs

Checked by TLAPS for every value of the constants that the modules' assumptions
allow, with no limit on the number of connections, threads, clients or packets
but the bounds named above, which are themselves arbitrary.

* `MemStreamProofs`. The inductive invariant `ShapeInv` is type correctness with
  `ChunkShape` (all chunks but the last are full, the last is not) and
  `CallShape`. It carries `TypeCorrect` and `ChunksFilledInOrder`. Lemmas give
  every position of the flat stream one place (chunk, offset) and back, by
  division with remainder; from them, that appending to the last chunk appends
  to the flat stream and that a chunk's part is a slice of it. `ReadsExact` adds
  to `ShapeInv` what has been copied so far; `ChunkedImplementsFlat` maps
  initial state and steps. `EqualByContent`: the length of a stream determines
  how many chunks there are and how long each is, so lists of equal content are
  equal chunk by chunk. `FlatConcatenates`: the positional reading is the chunks'
  concatenation, `FlattenSeq` of the community modules. That is a recursive
  function: it is shown that the flat readings of the first 1, 2, ... chunks obey
  its equation, and that two functions that obey it have no least place to differ
  at.
* `QueueProofs`. `EveryWakeupCovered` is inductive together with the types: a
  push adds an item and a pending notification, `notify_one` turns one
  notification into at most one woken consumer, a woken consumer takes one item
  or gives up. `NoEmptyPop` follows: the consumer that takes is one of those
  counted. The proof needs the finiteness of the sets of threads and nothing
  about their number.
* `SocketServerProofs`. The safety properties are stated for the moments between
  two events; the inductive invariant says what holds inside one. Its parts: the
  list, the descriptors and the history are about the same clients (`Listed`); a
  connection is in the backlog or in one entry, never both (`InOnePlace`); events
  waiting in a batch are about descriptors open since it was taken (`Batch`);
  every client with something unread is on the ready list, in the batch or being
  handled (`Edges`); the count covers the entries, a closed server has none, a
  connection is reported once. From it `DescriptorsOwned`, `BatchCurrent`,
  `EdgesKept`, `CountEnough`, `ReleaseComplete`, `ReportsOnce` and the types. The
  descriptor that a new connection gets is the least free one; that there is a
  least one is a lemma from the well-foundedness of the numbers.
* `PacketParserProofs`. `FrameChecks`: what `Create` makes of a payload checks,
  and `Payload` gives it back; it uses division with remainder for the length
  field and asks of the checksum only that it is `lenCRC` bytes (`CrcIsBytes`), which
  TLC cannot evaluate over all sequences and which is therefore a hypothesis
  here and below. `ConsistentParser`: `ParserConsistent` with the types of what
  the parser works on is inductive, through any noise. What is delivered is left
  out of the types: Payload reads the length out of the frame, and of a frame
  whose first bytes were overwritten that may point anywhere.

  `SyncInvariant` is the inductive invariant behind delivery. Without noise, and
  as long as no frame in progress was overwritten, the bytes on the connection,
  in the stream and in the window are those of the packets sent, each from the
  place it stands at; the parser has seen exactly the packets it has delivered
  and a beginning of the next one's frame; and its state, length field and
  payload length are what that beginning says. The cases are the parser's
  steps; that the frame is never complete before its last byte, and checks then,
  is `FrameChecks`. It gives `PacketsDelivered` (`DeliversReceived`) and
  `CleanParser`: in every state, inside a call too, nothing was delivered that
  was not sent, and the loop cannot get behind its window.

  Of a connection that carries anything, short writes, noise and frames that were
  overwritten included, three things are proved. `FramesAdvance`
  (`FrameAdvances`), with `CrcIsBytes` alone: the frame in progress began at a
  place of the connection that never goes back, and every byte looked at
  lengthens the frame or moves that place on. It needs where the frame began in
  the window, if it began in this one (`BeginKnown`); if it began in an earlier
  one, the place the parser returns to is wrong but still ahead, which is why
  packets can be lost that way (`packet_dirt_lost`) and none delivered twice.

  `OnlyPackets` (`DeliveredWereSent`) assumes that the checksum does what it is
  there for. `OnlyPacketsCheck`: of the stretches of the connection, only those of
  packets check. `OverwrittenFails`: a frame that checks is what the connection
  carries, and not what the stack had left. Neither holds for every checksum and
  every noise; TLC checks both (`ChecksumTells`) in `packet_noise`, where the
  checksum tells the bytes in play apart and the stack, if it does not hold the
  frame any more, holds no frame at all. Where it may hold another client's frame
  the second is false, whatever the checksum (`packet_fragments_lost`): nothing
  about several clients assumes it. That `Check` reads all of the buffer is
  harmless as long as the frame in it is what was received (`FrameIntact`): then
  it finds the length the parser counted, and does not look behind it
  (`CheckFront`). The inductive invariant `WireInv` says of the stream, the window and what is
  unread where on the connection they stand, of the packets sent where they
  stand, of the length field that it is the one on the connection even if the
  frame was overwritten, and of the payloads delivered that they belong to
  packets in front of the frame in progress, in order. `OverwrittenNoticed` does
  away with the second hypothesis where the stack's bytes are no first byte of
  the marker.

  `AmongNoise` (`DeliversAmongNoise`): with the same hypotheses a call of one
  window, begun between frames, also misses no packet that is whole in it. `CallInv`
  says that the packets that begin in the call in front of the frame in progress
  are those delivered since it began; the case with content is a frame that is
  given up: its place must not be that of a packet, since all of a packet's bytes
  would have fitted (`PacketKept`), and the parser goes on one byte further.
  `AgainstNoise` puts the three together.
* `SocketClientProofs`. `ReasonKnown`: until the loop is left its result is no
  error; when it is left, either it was told to stop or the result names what
  the other side did, which it did once and for good. Each step of the client is
  a step of `PacketParser` or leaves its variables, which carries the parser's
  invariants over: `ClientReceives`. A program with one client has its stack to
  itself (`OneClient`) and the other side sends packets only; so its parser is
  always in step, which gives the types of what is delivered (`ClientTypes`) and
  that every step is one of `PacketChannel` (`ClientIsChannel`: all of
  `ImplementsChannel` but its fairness).
* `ServerPacketsProofs`. `FreshServed`: for any number of clients of a server, a
  client that did not begin with another's frame, and whose own frames were
  neither cut short nor written over, is handed exactly the packets whose last
  byte was read. The invariant is `PacketParser`'s for the client whose turn it
  is and the same of the record each other client is parked in; the case with
  content is the end of a turn, when the memory of the frame in progress is left
  to the others and the next call finds it intact or clobbered.

  `OwnPackets` (`OwnPacketsOnly`): also with writes cut short, a client that
  began with a parser of its own, and whose frames were not written over, is
  handed only packets its own peer sent, whatever others' turns left in the
  packet behind its frame. Next to `CrcIsBytes` it assumes `OnlyPacketsCheck` of the
  client's own connection; `packet_fragments_lost` shows that the condition on the
  frames cannot be dropped. `ServerWireInv` says of every client where on its
  connection it is (`WireInv`) and, as long as the condition holds, that its
  frame in progress is what its connection carries there; a turn either finds it
  so or sets `clobbered`.
* `OrcRemoteServerProofs`. `WritersOrdered` and `PartsStillFit` rest on the
  RefIDs: what a client has under way is in the order it was sent, and all that
  was handled, stored or answered was sent before that. So a write puts its bytes
  behind all earlier ones of its client, and an answer belongs to one command of
  the log; that what it read still stands follows because a source is only
  appended to until it is deleted. `RemoteTypes` is part of the invariant.

  Where what clients ask to read fits a packet (`ReadsFit`, a statement about
  the packets clients send; `remote_oversize` shows that it is needed),
  `AnswersInOrder`: every command handled is answered or the connection is
  given up, so that a client's answers have no gap. `StoreIsACommandLog`, the
  refinement of `CommandLog`: the invariant `StoreIsLog` says that a source is
  in the map exactly if the log has a write of it that no deletion follows, and
  holds what the log's recursion over its commands gives. The recursion is taken
  as any function that satisfies its equations, and a handler's step lengthens it
  by one; from that, the answer a handler makes is `CommandLog`'s. What is under
  way of a client is its set of requests: the command in hand is the first of
  them, and a connection that is lost takes away the last. Of the steps, taking a
  packet, noticing that a client is gone and passing over a command are none of
  `CommandLog`'s.
* `LoggerProofs`. `DescriptorKept`: as long as no two threads have been in
  `SendRaw` at once, the one that is there knows of the socket what the process's
  descriptors say, except between `close` and the assignment behind it.
  `LinesIntact`: the text of a thread that was not disturbed is what the stream
  has held since its `Get`. `LoggerTypes`. `LogHasNoGaps` (`NoGaps`) holds also
  when threads race: the logger has at most one descriptor to the log server, a
  connection that was lost is never made again, and until then a call that has
  returned has written its line, unless no packet was made of it; a text that is
  not garbled is that of the line whose call wrote it, as in `LinesIntact`.

Only model-checked, and why:

* All liveness (`StopEnds`, `AllHanded`, `ReleaseReturns`,
  `RequestsAnswered`, `OnRecvReturns`, `LoopEnds`, `CallReturns`), and what uses
  `ENABLED`: outside the reach of the prover used here.
* The fairness of `ImplementsChannel`, for the same reason; its steps are proved.
* `OnlyPacketsCheck`, and `OverwrittenFails` where the stack may hold a beginning
  of a frame: that is up to the checksum and the bytes in play. They are
  hypotheses of `OnlyPackets` and `AmongNoise`, the first of them also of
  `OwnPackets`, next to what `CleanParser`, `PacketsDelivered` and `FreshServed`
  show without them.

## Not modelled

* The CRC-32 polynomial: a parameter that the small instances make collision-free
  on the bytes in play.
* Memory behind a buffer: an overlong length field makes the real parser write
  past `StreamPacket`'s buffer; the model's packet has room for the longest frame
  the parser accepts (`BuffSize`), and nothing stands behind it. The consumer
  and the echo handler read past a buffer when they log a long payload.
* SIGPIPE. Nothing under `src` ignores it, and a program that has its default
  ends when it writes to a connection that was reset. What `SocketServer` and
  `Logger` do when a write fails is modelled, and is what a host that ignores the
  signal sees.
* Failures of `listen`, `epoll_ctl`, `fcntl` and `setsockopt`; addresses.
* Calls of `Disconnect()` from another thread while the loop runs, as one test
  does: a data race on the client list, with no outcome to rule out. LoopStart
  called twice.
* Spurious wakeups beyond the first that takes from an empty queue, and items
  nobody is woken for: `Queue` has both; the code promises nothing about them.
* The JSON text of a command and its base64: a command is a record. An answer is
  taken to need as much room as the bytes it carries.
* `pgext`: callbacks that PostgreSQL makes one at a time within a query, over the
  vendored ORC library; its state is theirs, and it waits for no answer of the
  remote store.
* `LoggerServer`, `SocketServerPacket` and the domain echo server: servers whose
  handlers print or echo, on the loop modelled in `SocketServer`; `Utilities`,
  the manual test programs and the prototypes under `src/doc`: pure I/O.
* Vendored code (gtest, rapidjson, base64, crc32, ORC), which makes up nearly all
  of the repository's lines; the definitions of these modules map to the code
  the repository's authors wrote.

What could be added next: the write past the frame buffer with memory as an
array; calls of more than one window in `DeliversAmongNoise`, with the packets
that a wrong return to an earlier window costs left out of what is promised.
