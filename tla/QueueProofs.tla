----------------------------- MODULE QueueProofs -----------------------------
(***************************************************************************)
(* Proofs about Queue, for any finite sets of threads and any bound: as    *)
(* long as no wait has ended spuriously, pop() never takes from an empty   *)
(* queue.                                                                  *)
(***************************************************************************)
EXTENDS Queue, FiniteSetTheorems, TLAPS

IInv == TypeOK /\ WakeupsCovered /\ NeverPopsEmpty

-----------------------------------------------------------------------------
(* The threads in a state are finitely many, so they can be counted. *)
LEMMA Counts ==
  /\ IsFiniteSet(Woken) /\ Cardinality(Woken) \in Nat
  /\ IsFiniteSet(Notifying) /\ Cardinality(Notifying) \in Nat
  /\ (\E c \in Consumers : consumer[c] = "woken") => Cardinality(Woken) > 0
  /\ (\E p \in Producers : producer[p] = "notify") => Cardinality(Notifying) > 0
<1>1. IsFiniteSet(Woken)
  BY ThreadsAssumption, FS_Subset DEF Woken
<1>2. IsFiniteSet(Notifying)
  BY ThreadsAssumption, FS_Subset DEF Notifying
<1>3. Cardinality(Woken) \in Nat /\ Cardinality(Notifying) \in Nat
  BY <1>1, <1>2, FS_CardinalityType
<1>4. (\E c \in Consumers : consumer[c] = "woken") => Cardinality(Woken) # 0
  BY <1>1, FS_EmptySet DEF Woken
<1>5. (\E p \in Producers : producer[p] = "notify") => Cardinality(Notifying) # 0
  BY <1>2, FS_EmptySet DEF Notifying
<1>. QED
  BY <1>1, <1>2, <1>3, <1>4, <1>5

(* A consumer that goes from one state to another: the number of the woken
   ones changes with it alone. *)
LEMMA ConsumerMoves ==
  ASSUME TypeOK, NEW c \in Consumers,
         NEW state \in {"loop", "waiting", "woken", "late", "ended"},
         ConsumerGoes(c, state)
  PROVE  /\ consumer' \in [Consumers -> {"loop", "waiting", "woken", "late", "ended"}]
         /\ Cardinality(Woken') =
              Cardinality(Woken) + (IF state = "woken" THEN 1 ELSE 0)
                                 - (IF consumer[c] = "woken" THEN 1 ELSE 0)
<1>1. consumer' \in [Consumers -> {"loop", "waiting", "woken", "late", "ended"}]
  BY DEF TypeOK, ConsumerGoes
<1>2. Woken' = IF state = "woken" THEN Woken \cup {c} ELSE Woken \ {c}
  BY DEF TypeOK, ConsumerGoes, Woken
<1>3. c \in Woken <=> consumer[c] = "woken"
  BY DEF Woken
<1>4. CASE state = "woken"
  <2>1. Cardinality(Woken') =
          IF c \in Woken THEN Cardinality(Woken) ELSE Cardinality(Woken) + 1
    BY <1>2, <1>4, Counts, FS_AddElement
  <2>. QED
    BY <1>1, <1>3, <1>4, <2>1, Counts
<1>5. CASE state # "woken"
  <2>1. Cardinality(Woken') =
          IF c \in Woken THEN Cardinality(Woken) - 1 ELSE Cardinality(Woken)
    BY <1>2, <1>5, Counts, FS_RemoveElement
  <2>. QED
    BY <1>1, <1>3, <1>5, <2>1, Counts
<1>. QED
  BY <1>4, <1>5

(* push() adds an item and a notification to come. *)
LEMMA PushCovers ==
  ASSUME IInv, NEW p \in Producers, Push(p)
  PROVE  IInv'
<1>. USE DEF IInv
<1>1. TypeOK'
  BY DEF TypeOK, Push
<1>2. Len(queue') = Len(queue) + 1
  BY DEF TypeOK, Push
<1>3. Woken' = Woken
  BY DEF Push, Woken
<1>4. Notifying' = Notifying \cup {p} /\ p \notin Notifying
  BY DEF TypeOK, Push, Notifying
<1>5. Cardinality(Notifying') = Cardinality(Notifying) + 1
  BY <1>4, Counts, FS_AddElement
<1>6. WakeupsCovered'
  BY <1>2, <1>3, <1>5, Counts DEF WakeupsCovered, TypeOK, Push
<1>7. NeverPopsEmpty'
  BY DEF NeverPopsEmpty, Push
<1>. QED
  BY <1>1, <1>6, <1>7

(* notify_one turns the notification into at most one woken consumer. *)
LEMMA NotifyCovers ==
  ASSUME IInv, NEW p \in Producers, Notify(p)
  PROVE  IInv'
<1>. USE DEF IInv
<1>1. Notifying' = Notifying \ {p} /\ p \in Notifying
  BY DEF TypeOK, Notify, Notifying
<1>2. Cardinality(Notifying') = Cardinality(Notifying) - 1
  BY <1>1, Counts, FS_RemoveElement
<1>3. /\ consumer' \in [Consumers -> {"loop", "waiting", "woken", "late", "ended"}]
      /\ \/ Cardinality(Woken') = Cardinality(Woken)
         \/ Cardinality(Woken') = Cardinality(Woken) + 1
  <2>1. CASE Waiting = {}
    BY <2>1 DEF Notify, TypeOK, Woken
  <2>2. CASE Waiting # {}
    <3>1. PICK c \in Waiting : ConsumerGoes(c, "woken")
      BY <2>2 DEF Notify
    <3>2. c \in Consumers /\ consumer[c] = "waiting"
      BY <3>1 DEF Waiting
    <3>. QED
      BY <3>1, <3>2, ConsumerMoves, Counts
  <2>. QED
    BY <2>1, <2>2
<1>4. TypeOK'
  BY <1>3 DEF TypeOK, Notify
<1>5. WakeupsCovered'
  BY <1>2, <1>3, Counts DEF WakeupsCovered, Notify, TypeOK
<1>6. NeverPopsEmpty'
  BY DEF NeverPopsEmpty, Notify
<1>. QED
  BY <1>4, <1>5, <1>6

(* A woken consumer leaves with an item, and there is one: it is covered. *)
LEMMA TakeCovers ==
  ASSUME IInv, NEW c \in Consumers, Take(c)
  PROVE  IInv'
<1>. USE DEF IInv
<1>1. /\ consumer' \in [Consumers -> {"loop", "waiting", "woken", "late", "ended"}]
      /\ Cardinality(Woken') = Cardinality(Woken) - 1
      /\ Cardinality(Woken) > 0
  BY ConsumerMoves, Counts DEF Take
<1>2. Notifying' = Notifying
  BY DEF Take, Notifying
<1>3. TypeOK'
  <2>1. queue' \in Seq(Nat)
    BY SMTT(30) DEF TypeOK, Take
  <2>2. corrupt' \in BOOLEAN
    BY DEF TypeOK, Take
  <2>3. UNCHANGED <<pushed, producer, exit, spurious>>
    BY DEF Take
  <2>. QED
    BY <1>1, <2>1, <2>2, <2>3 DEF TypeOK
<1>4. ~spurious => queue # <<>>
  BY <1>1, Counts DEF WakeupsCovered, TypeOK
<1>5. /\ ~spurious => Len(queue') = Len(queue) - 1 /\ UNCHANGED corrupt
      /\ UNCHANGED spurious
  BY <1>4 DEF Take, TypeOK
<1>6. WakeupsCovered'
  BY <1>1, <1>2, <1>5, Counts DEF WakeupsCovered, TypeOK
<1>7. NeverPopsEmpty'
  BY <1>5 DEF NeverPopsEmpty
<1>. QED
  BY <1>3, <1>6, <1>7

(* The other steps of a consumer wake nobody and leave the queue alone. *)
LEMMA ConsumerCovers ==
  ASSUME IInv, NEW c \in Consumers,
         Loop(c) \/ Timeout(c) \/ GiveUp(c) \/ SpuriousWakeup(c)
  PROVE  IInv'
<1>. USE DEF IInv
<1>1. PICK state \in {"loop", "waiting", "woken", "late", "ended"} :
        /\ ConsumerGoes(c, state)
        /\ state = "woken" => spurious'
  BY DEF Loop, Timeout, GiveUp, SpuriousWakeup
<1>2. /\ UNCHANGED <<queue, pushed, producer, corrupt>> /\ exit' = exit
      /\ spurious' \in BOOLEAN /\ (spurious => spurious')
  BY DEF Loop, Timeout, GiveUp, SpuriousWakeup, TypeOK
<1>3. /\ consumer' \in [Consumers -> {"loop", "waiting", "woken", "late", "ended"}]
      /\ ~spurious' => Cardinality(Woken') <= Cardinality(Woken)
      /\ Cardinality(Woken') \in Int
  BY <1>1, ConsumerMoves, Counts
<1>4. TypeOK'
  BY <1>2, <1>3 DEF TypeOK
<1>5. Notifying' = Notifying
  BY <1>2 DEF Notifying
<1>6. WakeupsCovered'
  BY <1>2, <1>3, <1>5, Counts DEF WakeupsCovered, TypeOK
<1>7. NeverPopsEmpty'
  BY <1>2 DEF NeverPopsEmpty
<1>. QED
  BY <1>4, <1>6, <1>7

-----------------------------------------------------------------------------
LEMMA InitCovers == Init => IInv
<1>. SUFFICES ASSUME Init PROVE IInv
  OBVIOUS
<1>1. TypeOK
  <2>1. queue \in Seq(Nat) /\ pushed \in Nat
    BY DEF Init
  <2>2. producer \in [Producers -> {"idle", "notify"}]
    BY DEF Init
  <2>3. consumer \in [Consumers -> {"loop", "waiting", "woken", "late", "ended"}]
    BY DEF Init
  <2>. QED
    BY <2>1, <2>2, <2>3 DEF Init, TypeOK
<1>2. Woken = {} /\ Notifying = {} /\ Len(queue) = 0
  BY DEF Init, Woken, Notifying
<1>3. WakeupsCovered
  BY <1>2, FS_EmptySet DEF WakeupsCovered
<1>4. NeverPopsEmpty
  BY DEF Init, NeverPopsEmpty
<1>. QED
  BY <1>1, <1>3, <1>4 DEF IInv

LEMMA NextCovers == IInv /\ [Next]_vars => IInv'
<1>. SUFFICES ASSUME IInv, [Next]_vars PROVE IInv'
  OBVIOUS
<1>1. ASSUME NEW p \in Producers, Push(p) PROVE IInv'
  BY <1>1, PushCovers
<1>2. ASSUME NEW p \in Producers, Notify(p) PROVE IInv'
  BY <1>2, NotifyCovers
<1>3. ASSUME NEW c \in Consumers, Take(c) PROVE IInv'
  BY <1>3, TakeCovers
<1>4. ASSUME NEW c \in Consumers,
             Loop(c) \/ Timeout(c) \/ GiveUp(c) \/ SpuriousWakeup(c)
      PROVE  IInv'
  BY <1>4, ConsumerCovers
<1>5. CASE Stop
  BY <1>5 DEF Stop, IInv, TypeOK, WakeupsCovered, NeverPopsEmpty, Woken, Notifying
<1>6. CASE UNCHANGED vars
  BY <1>6 DEF vars, IInv, TypeOK, WakeupsCovered, NeverPopsEmpty, Woken, Notifying
<1>. QED
  BY <1>1, <1>2, <1>3, <1>4, <1>5, <1>6 DEF Next, ConsumerStep

(* The invariant from which the theorems follow. *)
LEMMA Covered == Spec => []IInv
BY InitCovers, NextCovers, PTL DEF Spec

(* The variables always have their types. *)
THEOREM TypeCorrect == Spec => []TypeOK
BY Covered, PTL DEF IInv

(* Every notification, on its way or arrived, has an item of its own. *)
THEOREM EveryWakeupCovered == Spec => []WakeupsCovered
BY Covered, PTL DEF IInv

(* pop() never takes from an empty queue, as long as no wait ended spuriously. *)
THEOREM NoEmptyPop == Spec => []NeverPopsEmpty
BY Covered, PTL DEF IInv
=============================================================================
