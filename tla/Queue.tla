-------------------------------- MODULE Queue --------------------------------
(***************************************************************************)
(* Queue<T> (Util/inc/Queue.h) between producer threads and the consumer   *)
(* threads that run PacketConsumer::ListenLoop (MemStreamServer/           *)
(* ServerDomain/main.cpp).                                                 *)
(*                                                                         *)
(* pop() does not look at the queue before it waits, and it waits without  *)
(* a predicate: a wait that does not time out is taken to mean that there  *)
(* is an item.  push() notifies after it has unlocked.                     *)
(*                                                                         *)
(* _queue is only touched with _mutex held, and nothing blocks while       *)
(* holding it: a critical section is one action.                           *)
(***************************************************************************)
EXTENDS Integers, Sequences, FiniteSets

CONSTANTS
  Producers,  (* threads that call push()                                    *)
  Consumers,  (* threads that call pop()                                     *)
  MaxPushes   (* bound: items pushed                                         *)

ASSUME ThreadsAssumption == IsFiniteSet(Producers) /\ IsFiniteSet(Consumers)
ASSUME BoundsAssumption  == MaxPushes \in Nat

VARIABLES
  queue,     (* _queue: the items by their numbers                           *)
  pushed,    (* how many items were pushed                                   *)
  producer,  (* "idle", or "notify" between the unlock and notify_one        *)
  consumer,  (* "loop"    at the test of _exit                               *)
             (* "waiting" in _cond.wait_for                                  *)
             (* "woken"   notified, to take the mutex and look at the clock  *)
             (* "late"    timed out, to take the mutex and return            *)
             (* "ended"   ListenLoop has returned                            *)
  exit,      (* _exit of the consumers                                       *)
  corrupt,   (* front() and pop() of an empty queue: undefined from here on  *)
  spurious   (* history: has a wait ended neither notified nor timed out?    *)

vars == <<queue, pushed, producer, consumer, exit, corrupt, spurious>>

Waiting   == {c \in Consumers : consumer[c] = "waiting"}
Woken     == {c \in Consumers : consumer[c] = "woken"}
Notifying == {p \in Producers : producer[p] = "notify"}

Init ==
  /\ queue = <<>>
  /\ pushed = 0
  /\ producer = [p \in Producers |-> "idle"]
  /\ consumer = [c \in Consumers |-> "loop"]
  /\ exit = FALSE
  /\ corrupt = FALSE
  /\ spurious = FALSE

ConsumerGoes(c, state) == consumer' = [consumer EXCEPT ![c] = state]

-----------------------------------------------------------------------------
(* push(): lock, _queue.push, unlock. *)
Push(p) ==
  /\ producer[p] = "idle"
  /\ pushed < MaxPushes
  /\ pushed' = pushed + 1
  /\ queue' = Append(queue, pushed + 1)
  /\ producer' = [producer EXCEPT ![p] = "notify"]
  /\ UNCHANGED <<consumer, exit, corrupt, spurious>>

(* Mutant: every waiting thread is woken. *)
NotifyAll(p) ==
  /\ producer[p] = "notify"
  /\ producer' = [producer EXCEPT ![p] = "idle"]
  /\ consumer' = [c \in Consumers |->
                    IF c \in Waiting THEN "woken" ELSE consumer[c]]
  /\ UNCHANGED <<queue, pushed, exit, corrupt, spurious>>

(* push(): _cond.notify_one; nobody hears it if nobody waits. *)
Notify(p) ==
  /\ producer[p] = "notify"
  /\ producer' = [producer EXCEPT ![p] = "idle"]
  /\ IF Waiting = {} THEN UNCHANGED consumer
     ELSE \E c \in Waiting : ConsumerGoes(c, "woken")
  /\ UNCHANGED <<queue, pushed, exit, corrupt, spurious>>

-----------------------------------------------------------------------------
(* ListenLoop: while (_exit == false) pop(...).  The lock that pop() takes is
   given back by wait_for at once. *)
Loop(c) ==
  /\ consumer[c] = "loop"
  /\ ConsumerGoes(c, IF exit THEN "ended" ELSE "waiting")
  /\ UNCHANGED <<queue, pushed, producer, exit, corrupt, spurious>>

(* The second is over. *)
Timeout(c) ==
  /\ consumer[c] = "waiting"
  /\ ConsumerGoes(c, "late")
  /\ UNCHANGED <<queue, pushed, producer, exit, corrupt, spurious>>

SpuriousWakeup(c) ==
  /\ consumer[c] = "waiting"
  /\ ConsumerGoes(c, "woken")
  /\ spurious' = TRUE
  /\ UNCHANGED <<queue, pushed, producer, exit, corrupt>>

(* wait_for returns no_timeout: pop() takes the front item. *)
Take(c) ==
  /\ consumer[c] = "woken"
  /\ ConsumerGoes(c, "loop")
  /\ IF queue = <<>> THEN corrupt' = TRUE /\ UNCHANGED queue
     ELSE queue' = Tail(queue) /\ UNCHANGED corrupt
  /\ UNCHANGED <<pushed, producer, exit, spurious>>

(* Mutants: a consumer that timed out goes where producers go; after a timeout
   the wait is begun again. *)
GiveUpIdle(c) ==
  /\ consumer[c] \in {"late", "woken"}
  /\ ConsumerGoes(c, "idle")
  /\ UNCHANGED <<queue, pushed, producer, exit, corrupt, spurious>>

GiveUpNever(c) ==
  /\ consumer[c] \in {"late", "woken"}
  /\ ConsumerGoes(c, "waiting")
  /\ UNCHANGED <<queue, pushed, producer, exit, corrupt, spurious>>

(* wait_for returns timeout: it timed out, or it was notified and got the
   mutex back only after the second was over. *)
GiveUp(c) ==
  /\ consumer[c] \in {"late", "woken"}
  /\ ConsumerGoes(c, "loop")
  /\ UNCHANGED <<queue, pushed, producer, exit, corrupt, spurious>>

(* ListenLoopStop() *)
Stop ==
  /\ exit' = TRUE
  /\ UNCHANGED <<queue, pushed, producer, consumer, corrupt, spurious>>

ConsumerStep(c) == Loop(c) \/ Timeout(c) \/ Take(c) \/ GiveUp(c)

Next ==
  /\ ~corrupt
  /\ \/ \E p \in Producers : Push(p) \/ Notify(p)
     \/ \E c \in Consumers : ConsumerStep(c) \/ SpuriousWakeup(c)
     \/ Stop

Spec == Init /\ [][Next]_vars

(* A consumer thread runs; its wait ends after a second at the latest. *)
FairSpec == Spec /\ \A c \in Consumers : WF_vars(~corrupt /\ ConsumerStep(c))

-----------------------------------------------------------------------------
TypeOK ==
  /\ queue \in Seq(Nat)
  /\ pushed \in Nat
  /\ producer \in [Producers -> {"idle", "notify"}]
  /\ consumer \in [Consumers -> {"loop", "waiting", "woken", "late", "ended"}]
  /\ exit \in BOOLEAN
  /\ corrupt \in BOOLEAN
  /\ spurious \in BOOLEAN

(* Every notification on its way, and every consumer one has reached, has an
   item of its own in the queue.  No line of the code says so: it is why a pop()
   without a look at the queue finds something. *)
WakeupsCovered ==
  ~spurious => Cardinality(Woken) + Cardinality(Notifying) <= Len(queue)

(* pop() never takes from an empty queue (as long as no wait ended spuriously). *)
NeverPopsEmpty == ~spurious => ~corrupt

(* A consumer that is told to stop ends, whether or not anything is pushed
   again and whatever ends its waits, as long as behaviour is defined. *)
StopEnds == \A c \in Consumers : exit ~> (consumer[c] = "ended" \/ corrupt)
=============================================================================
