------------------------- MODULE IngestQueueProofs -------------------------
(***************************************************************************)
(* Proofs about IngestQueue for any items, any number of workers, any      *)
(* batch size, lease time and number of attempts.                          *)
(***************************************************************************)
EXTENDS IngestQueue, FiniteSetTheorems, TLAPS

(* Some item is the newest, so that the next submission has a created_at.  *)
HasNewest == \A i \in Item : \E n \in Item : \A j \in Item : item[j].created <= item[n].created

(* A worker in the middle of an item has that item in hand; it buries only *)
(* what is exhausted; and no lease has a number the row has not reached.   *)
WorkerShape ==
  \A w \in Worker :
    /\ worker[w].pc # "next" => worker[w].at \in InHand(w)
    /\ worker[w].pc = "bury" => Exhausted(w)
    /\ \A i \in Item : worker[w].batch[i] <= item[i].attempts

(* The layer the other invariants rest on. *)
Shape == TypeOK /\ HasNewest /\ WorkerShape

----------------------------------------------------------------------------
(* What the pieces of an action do to the tables. *)

(* GoTo moves one worker and leaves what it has in hand.                   *)
LEMMA GoToEffect ==
  ASSUME TypeOK, NEW w \in Worker, NEW i \in Item,
         NEW pc \in {"complete", "fail", "bury"}, GoTo(w, pc, i)
  PROVE  /\ worker' \in [Worker -> WorkerState]
         /\ worker'[w].pc = pc /\ worker'[w].at = i
         /\ worker'[w].batch = worker[w].batch
         /\ \A v \in Worker : v # w => worker'[v] = worker[v]
BY DEF TypeOK, WorkerState, GoTo

(* Drop takes one item out of a worker's hands.                            *)
LEMMA DropEffect ==
  ASSUME TypeOK, NEW w \in Worker, worker[w].at \in Item, Drop(w)
  PROVE  /\ worker' \in [Worker -> WorkerState]
         /\ worker'[w].pc = "next"
         /\ worker'[w].batch = [worker[w].batch EXCEPT ![worker[w].at] = 0]
         /\ \A v \in Worker : v # w => worker'[v] = worker[v]
<1> DEFINE b == [worker[w].batch EXCEPT ![worker[w].at] = 0]
<1> DEFINE r == [worker[w] EXCEPT !.pc = "next", !.at = NoItem, !.batch = b]
<1>1. b \in [Item -> Nat] /\ worker[w] \in WorkerState
  BY DEF TypeOK, WorkerState
<1>2. worker' = [worker EXCEPT ![w] = r]
  BY <1>1 DEF Drop, TypeOK, WorkerState
<1> HIDE DEF b
<1>3. r \in WorkerState /\ r.pc = "next" /\ r.batch = b
  BY <1>1 DEF WorkerState
<1> HIDE DEF r
<1>4. QED
  BY <1>2, <1>3 DEF TypeOK, b

(* LeaseBatch gives the leased items the next number, in the row as in the *)
(* worker's copy.                                                           *)
LEMMA LeaseEffect ==
  ASSUME TypeOK, NEW w \in Worker, LeaseBatch(w)
  PROVE  \E T \in SUBSET Item :
           /\ item' \in [Item -> ItemRow] /\ worker' \in [Worker -> WorkerState]
           /\ \A i \in T : /\ Eligible(i)
                           /\ item'[i].status = "leased"
                           /\ item'[i].attempts = item[i].attempts + 1
                           /\ item'[i].created = item[i].created
                           /\ worker'[w].batch[i] = item[i].attempts + 1
           /\ \A i \in Item \ T : item'[i] = item[i] /\ worker'[w].batch[i] = 0
           /\ worker'[w].pc = "next"
           /\ \A v \in Worker : v # w => worker'[v] = worker[v]
<1>1. PICK T \in SUBSET {i \in Item : Eligible(i)} :
        /\ item' = [i \in Item |->
                      IF i \notin T THEN item[i]
                      ELSE [item[i] EXCEPT !.status = "leased", !.left = TTL,
                                           !.attempts = @ + 1]]
        /\ worker' = [worker EXCEPT ![w].batch =
                        [i \in Item |-> IF i \in T THEN item[i].attempts + 1 ELSE 0]]
  BY DEF LeaseBatch, Oldest
<1>2. item' \in [Item -> ItemRow]
  <2>1. SUFFICES ASSUME NEW i \in Item
                 PROVE  [item[i] EXCEPT !.status = "leased", !.left = TTL, !.attempts = @ + 1]
                          \in ItemRow
    BY <1>1 DEF TypeOK
  <2>2. item[i] \in ItemRow /\ TTL \in -1..TTL /\ "leased" \in Status
    BY PolicyAssumption DEF TypeOK, Status
  <2>3. item[i].attempts + 1 \in Nat
    BY <2>2 DEF ItemRow
  <2>4. QED
    BY <2>2, <2>3, Zenon DEF ItemRow
<1>3. worker' \in [Worker -> WorkerState]
  <2> DEFINE b == [i \in Item |-> IF i \in T THEN item[i].attempts + 1 ELSE 0]
  <2>1. b \in [Item -> Nat]
    BY DEF TypeOK, ItemRow
  <2>2. worker' = [worker EXCEPT ![w].batch = b]
    BY <1>1
  <2> HIDE DEF b
  <2>3. QED
    BY <2>1, <2>2 DEF TypeOK, WorkerState
<1>4. \A i \in T : /\ Eligible(i)
                   /\ item'[i].status = "leased"
                   /\ item'[i].attempts = item[i].attempts + 1
                   /\ item'[i].created = item[i].created
  BY <1>1 DEF TypeOK, ItemRow
<1>5. worker'[w].batch = [i \in Item |-> IF i \in T THEN item[i].attempts + 1 ELSE 0]
      /\ worker'[w].pc = worker[w].pc
      /\ \A v \in Worker : v # w => worker'[v] = worker[v]
  BY <1>1 DEF TypeOK, WorkerState
<1>6. worker[w].pc = "next"
  BY DEF LeaseBatch, Idle
<1>7. /\ \A i \in T : worker'[w].batch[i] = item[i].attempts + 1
      /\ \A i \in Item \ T : item'[i] = item[i] /\ worker'[w].batch[i] = 0
  BY <1>1, <1>5
<1>8. WITNESS T \in SUBSET Item
<1>9. QED
  BY <1>2, <1>3, <1>4, <1>5, <1>6, <1>7

----------------------------------------------------------------------------
(* Shape: one lemma per action. *)

LEMMA InitShape == Init => Shape
BY PolicyAssumption
DEF Init, Shape, TypeOK, HasNewest, WorkerShape, NoRow, IdleWorker, ItemRow, WorkerState, Status

LEMMA EnqueueShape ==
  ASSUME Shape, NEW i \in Item, Enqueue(i)
  PROVE  Shape'
<1>1. PICK n \in Item : \A j \in Item : item[j].created <= item[n].created
  BY DEF Shape, HasNewest
<1>2. Newest \in Nat /\ \A j \in Item : item[j].created <= Newest
  <2>1. \E m \in {item[j].created : j \in Item} : \A j \in Item : item[j].created <= m
    BY <1>1
  <2>2. Newest \in {item[j].created : j \in Item} /\ \A j \in Item : item[j].created <= Newest
    BY <2>1 DEF Newest
  <2>3. QED
    BY <2>2 DEF Shape, TypeOK, ItemRow
<1>3. PICK t \in {Newest, Newest + 1} :
        item' = [item EXCEPT ![i].status = "pending", ![i].created = t]
  BY DEF Enqueue
<1>4. t \in Nat /\ \A j \in Item : item[j].created <= t
  BY <1>2 DEF Shape, TypeOK, ItemRow
<1>5. /\ item' \in [Item -> ItemRow]
      /\ item'[i].created = t
      /\ item'[i].attempts = item[i].attempts
      /\ \A j \in Item : j # i => item'[j] = item[j]
  BY <1>3, <1>4 DEF Shape, TypeOK, ItemRow, Status
<1>6. TypeOK'
  BY <1>5 DEF Enqueue, Shape, TypeOK
<1>7. HasNewest'
  BY <1>4, <1>5 DEF HasNewest
<1>8. WorkerShape'
  BY <1>5 DEF Enqueue, Shape, WorkerShape, InHand, Exhausted
<1>9. QED
  BY <1>6, <1>7, <1>8 DEF Shape

LEMMA LeaseShape ==
  ASSUME Shape, NEW w \in Worker, LeaseBatch(w)
  PROVE  Shape'
<1>1. PICK T \in SUBSET Item :
           /\ item' \in [Item -> ItemRow] /\ worker' \in [Worker -> WorkerState]
           /\ \A i \in T : /\ item'[i].attempts = item[i].attempts + 1
                           /\ item'[i].created = item[i].created
                           /\ worker'[w].batch[i] = item[i].attempts + 1
           /\ \A i \in Item \ T : item'[i] = item[i] /\ worker'[w].batch[i] = 0
           /\ worker'[w].pc = "next"
           /\ \A v \in Worker : v # w => worker'[v] = worker[v]
  BY LeaseEffect DEF Shape
<1>2. \A i \in Item : /\ item'[i].created = item[i].created
                      /\ item[i].attempts \in Nat /\ item'[i].attempts \in Nat
                      /\ item[i].attempts <= item'[i].attempts
                      /\ worker'[w].batch[i] <= item'[i].attempts
  <2>1. \A i \in Item : item[i].attempts \in Nat
    BY DEF Shape, TypeOK, ItemRow
  <2>2. QED
    BY <1>1, <2>1
<1>3. TypeOK'
  BY <1>1 DEF LeaseBatch, Shape, TypeOK
<1>4. HasNewest'
  BY <1>2 DEF Shape, HasNewest
<1>5. WorkerShape'
  <2>1. ASSUME NEW v \in Worker, v # w
        PROVE  \A i \in Item : worker'[v].batch[i] <= item'[i].attempts
    BY <1>1, <1>2, <2>1 DEF Shape, WorkerShape, TypeOK, WorkerState
  <2>2. QED
    BY <1>1, <1>2, <2>1 DEF Shape, WorkerShape, InHand, Exhausted
<1>6. QED
  BY <1>3, <1>4, <1>5 DEF Shape

(* A worker goes from its next item to the step that is due for it.        *)
LEMMA GoToShape ==
  ASSUME Shape, NEW w \in Worker, NEW i \in InHand(w),
         NEW pc \in {"complete", "fail", "bury"}, GoTo(w, pc, i), TypeOK',
         \A j \in Item : /\ item'[j].created = item[j].created
                         /\ item'[j].attempts = item[j].attempts,
         pc = "bury" => worker[w].at = i /\ Exhausted(w)
  PROVE  Shape'
<1>1. i \in Item
  BY DEF InHand
<1>2. /\ worker'[w].pc = pc /\ worker'[w].at = i
      /\ worker'[w].batch = worker[w].batch
      /\ \A v \in Worker : v # w => worker'[v] = worker[v]
  BY <1>1, GoToEffect DEF Shape
<1>3. HasNewest'
  BY DEF Shape, HasNewest
<1>4. WorkerShape'
  BY <1>2 DEF Shape, WorkerShape, InHand, Exhausted
<1>5. QED
  BY <1>3, <1>4 DEF Shape

LEMMA DropShape ==
  ASSUME Shape, NEW w \in Worker, worker[w].pc # "next", Drop(w), TypeOK',
         \A j \in Item : /\ item'[j].created = item[j].created
                         /\ item'[j].attempts = item[j].attempts
  PROVE  Shape'
<1>1. worker[w].at \in Item
  BY DEF Shape, WorkerShape, InHand
<1>2. /\ worker'[w].pc = "next"
      /\ worker'[w].batch = [worker[w].batch EXCEPT ![worker[w].at] = 0]
      /\ \A v \in Worker : v # w => worker'[v] = worker[v]
  BY <1>1, DropEffect DEF Shape
<1>3. HasNewest'
  BY DEF Shape, HasNewest
<1>4. WorkerShape'
  <2>1. \A i \in Item : worker'[w].batch[i] <= item'[i].attempts
    <3>1. \A i \in Item : item[i].attempts \in Nat /\ worker[w].batch[i] <= item[i].attempts
      BY DEF Shape, TypeOK, ItemRow, WorkerShape
    <3>2. worker[w].batch \in [Item -> Nat]
      BY DEF Shape, TypeOK, WorkerState
    <3>3. QED
      BY <1>2, <3>1, <3>2
  <2>2. QED
    BY <1>2, <2>1 DEF Shape, WorkerShape, InHand, Exhausted
<1>5. QED
  BY <1>3, <1>4 DEF Shape

LEMMA AppendShape ==
  ASSUME Shape, NEW w \in Worker, Append(w)
  PROVE  Shape'
<1>1. PICK i \in InHand(w) :
        readings' = [readings EXCEPT ![i] = @ + 1] /\ GoTo(w, "complete", i)
  BY DEF Append, NextInHand
<1>2. i \in Item
  BY DEF InHand
<1>3. TypeOK'
  BY <1>1, <1>2, GoToEffect DEF Append, Shape, TypeOK
<1>4. QED
  BY <1>1, <1>3, GoToShape DEF Append

LEMMA AppendFailsShape ==
  ASSUME Shape, NEW w \in Worker, AppendFails(w)
  PROVE  Shape'
<1>1. PICK i \in InHand(w) : GoTo(w, "fail", i)
  BY DEF AppendFails, NextInHand
<1>2. i \in Item
  BY DEF InHand
<1>3. TypeOK'
  BY <1>1, <1>2, GoToEffect DEF AppendFails, Shape, TypeOK
<1>4. QED
  BY <1>1, <1>3, GoToShape DEF AppendFails

LEMMA CompleteShape ==
  ASSUME Shape, NEW w \in Worker, Complete(w)
  PROVE  Shape'
<1>1. worker[w].pc # "next" /\ worker[w].at \in Item
  BY DEF Complete, Shape, WorkerShape, InHand
<1>2. /\ item' \in [Item -> ItemRow]
      /\ \A j \in Item : /\ item'[j].created = item[j].created
                         /\ item'[j].attempts = item[j].attempts
  BY <1>1 DEF Complete, Shape, TypeOK, ItemRow, Status
<1>3. Drop(w) /\ UNCHANGED <<readings, filed, open, trouble>>
  BY DEF Complete
<1>4. worker' \in [Worker -> WorkerState]
  BY <1>1, <1>3, DropEffect DEF Shape
<1>5. TypeOK'
  BY <1>2, <1>3, <1>4 DEF Shape, TypeOK
<1>6. QED
  BY <1>1, <1>2, <1>3, <1>5, DropShape

LEMMA CompleteErrsShape ==
  ASSUME Shape, NEW w \in Worker, CompleteErrs(w)
  PROVE  Shape'
<1>1. worker[w].pc # "next" /\ worker[w].at \in Item
  BY DEF CompleteErrs, Shape, WorkerShape, InHand
<1>2. Drop(w) /\ trouble' \in Nat /\ UNCHANGED <<item, readings, filed, open>>
  BY DEF CompleteErrs, Trouble, Shape, TypeOK
<1>3. worker' \in [Worker -> WorkerState]
  BY <1>1, <1>2, DropEffect DEF Shape
<1>4. TypeOK'
  BY <1>2, <1>3 DEF Shape, TypeOK
<1>5. QED
  BY <1>1, <1>2, <1>4, DropShape

LEMMA FailShape ==
  ASSUME Shape, NEW w \in Worker, Fail(w)
  PROVE  Shape'
<1>1. worker[w].pc = "fail" /\ worker[w].at \in InHand(w) /\ worker[w].at \in Item
  BY DEF Fail, Shape, WorkerShape, InHand
<1>2. /\ item' \in [Item -> ItemRow]
      /\ \A j \in Item : /\ item'[j].created = item[j].created
                         /\ item'[j].attempts = item[j].attempts
  BY <1>1 DEF Fail, Shape, TypeOK, ItemRow, Status
<1>3. trouble' \in Nat /\ UNCHANGED <<readings, filed, open>>
  BY DEF Fail, Trouble, Shape, TypeOK
<1>4. CASE Exhausted(w)
  <2>1. GoTo(w, "bury", worker[w].at)
    BY <1>4 DEF Fail
  <2>2. TypeOK'
    BY <1>1, <1>2, <1>3, <2>1, GoToEffect DEF Shape, TypeOK
  <2>3. QED
    BY <1>1, <1>2, <1>4, <2>1, <2>2, GoToShape
<1>5. CASE ~Exhausted(w)
  <2>1. Drop(w)
    BY <1>5 DEF Fail
  <2>2. TypeOK'
    BY <1>1, <1>2, <1>3, <2>1, DropEffect DEF Shape, TypeOK
  <2>3. QED
    BY <1>1, <1>2, <2>1, <2>2, DropShape
<1>6. QED
  BY <1>4, <1>5

LEMMA BuryShape ==
  ASSUME Shape, NEW w \in Worker, Bury(w)
  PROVE  Shape'
<1>1. worker[w].pc # "next" /\ worker[w].at \in Item
  BY DEF Bury, Shape, WorkerShape, InHand
<1>2. filed' \in [Item -> Nat] /\ open' \in [Item -> Nat] /\ trouble' \in Nat
  BY <1>1 DEF Bury, Trouble, Shape, TypeOK
<1>3. Drop(w) /\ TypeOK'
  BY <1>1, <1>2, DropEffect DEF Bury, Shape, TypeOK
<1>4. QED
  BY <1>1, <1>3, DropShape DEF Bury

LEMMA CrashShape ==
  ASSUME Shape, NEW w \in Worker, Crash(w)
  PROVE  Shape'
<1>1. IdleWorker \in WorkerState
  BY DEF IdleWorker, WorkerState
<1>2. worker' = [worker EXCEPT ![w] = IdleWorker] /\ UNCHANGED <<item, readings, filed, open>>
  BY DEF Crash
<1>3. TypeOK'
  BY <1>1, <1>2 DEF Crash, Trouble, Shape, TypeOK
<1>4. HasNewest'
  BY <1>2 DEF Shape, HasNewest
<1>5. WorkerShape'
  BY <1>2 DEF IdleWorker, Shape, TypeOK, ItemRow, WorkerShape, InHand, Exhausted
<1>6. QED
  BY <1>3, <1>4, <1>5 DEF Shape

(* The reaper, the operator and the clock leave the workers, the numbers   *)
(* of the leases and the order of the items alone.                          *)
LEMMA OutsideShape ==
  ASSUME Shape, UNCHANGED worker, TypeOK',
         \A j \in Item : /\ item'[j].created = item[j].created
                         /\ item'[j].attempts = item[j].attempts
  PROVE  Shape'
BY DEF Shape, HasNewest, WorkerShape, InHand, Exhausted

LEMMA ReclaimShape ==
  ASSUME Shape, ReclaimExpired
  PROVE  Shape'
<1>1. /\ item' \in [Item -> ItemRow]
      /\ \A j \in Item : /\ item'[j].created = item[j].created
                         /\ item'[j].attempts = item[j].attempts
  <2>1. item' = [j \in Item |->
                   IF item[j].status = "leased" /\ Expired(j)
                   THEN [item[j] EXCEPT !.status = "pending", !.left = -1] ELSE item[j]]
    BY DEF ReclaimExpired
  <2>2. ASSUME NEW j \in Item
        PROVE  /\ item'[j] \in ItemRow
               /\ item'[j].created = item[j].created
               /\ item'[j].attempts = item[j].attempts
    <3>1. item[j] \in ItemRow /\ -1 \in -1..TTL /\ "pending" \in Status
      BY PolicyAssumption DEF Shape, TypeOK, Status
    <3>2. item'[j] \in {item[j], [item[j] EXCEPT !.status = "pending", !.left = -1]}
      BY <2>1
    <3>3. [item[j] EXCEPT !.status = "pending", !.left = -1] \in ItemRow
      BY <3>1, Zenon DEF ItemRow
    <3>4. QED
      BY <3>1, <3>2, <3>3 DEF ItemRow
  <2>3. QED
    BY <2>1, <2>2
<1>2. TypeOK'
  BY <1>1 DEF ReclaimExpired, Shape, TypeOK
<1>3. QED
  BY <1>1, <1>2, OutsideShape DEF ReclaimExpired

LEMMA RequeueShape ==
  ASSUME Shape, NEW i \in Item, Requeue(i)
  PROVE  Shape'
<1>1. /\ item' \in [Item -> ItemRow]
      /\ \A j \in Item : /\ item'[j].created = item[j].created
                         /\ item'[j].attempts = item[j].attempts
  <2>1. -1 \in -1..TTL
    BY PolicyAssumption
  <2>2. item[i] \in ItemRow /\ "pending" \in Status
    BY DEF Shape, TypeOK, Status
  <2>3. [item[i] EXCEPT !.status = "pending", !.left = -1] \in ItemRow
    BY <2>1, <2>2, Zenon DEF ItemRow
  <2>4. item' = [item EXCEPT ![i] = [item[i] EXCEPT !.status = "pending", !.left = -1]]
    BY DEF Requeue, Shape, TypeOK
  <2>5. QED
    BY <2>2, <2>3, <2>4 DEF Shape, TypeOK, ItemRow
<1>2. TypeOK'
  BY <1>1 DEF Requeue, Trouble, Shape, TypeOK
<1>3. QED
  BY <1>1, <1>2, OutsideShape DEF Requeue

LEMMA ResolveShape ==
  ASSUME Shape, NEW i \in Item, ResolveFailure(i)
  PROVE  Shape'
<1>1. TypeOK'
  BY DEF ResolveFailure, Shape, TypeOK
<1>2. QED
  BY <1>1, OutsideShape DEF ResolveFailure

LEMMA TickShape ==
  ASSUME Shape, Tick
  PROVE  Shape'
<1>1. /\ item' \in [Item -> ItemRow]
      /\ \A j \in Item : /\ item'[j].created = item[j].created
                         /\ item'[j].attempts = item[j].attempts
  <2>1. item' = [j \in Item |->
                   IF Expired(j) THEN item[j] ELSE [item[j] EXCEPT !.left = @ - 1]]
    BY DEF Tick
  <2>2. ASSUME NEW j \in Item
        PROVE  /\ item'[j] \in ItemRow
               /\ item'[j].created = item[j].created
               /\ item'[j].attempts = item[j].attempts
    <3>1. item[j] \in ItemRow
      BY DEF Shape, TypeOK
    <3>2. CASE Expired(j)
      BY <2>1, <3>1, <3>2
    <3>3. CASE ~Expired(j)
      <4>1. item'[j] = [item[j] EXCEPT !.left = item[j].left - 1]
        BY <2>1, <3>3
      <4>2. item[j].left - 1 \in -1..TTL
        BY <3>1, <3>3, PolicyAssumption DEF ItemRow, Expired
      <4>3. QED
        BY <3>1, <4>1, <4>2, Zenon DEF ItemRow
    <3>4. QED
      BY <3>2, <3>3
  <2>3. QED
    BY <2>1, <2>2
<1>2. TypeOK'
  BY <1>1 DEF Tick, Trouble, Shape, TypeOK
<1>3. QED
  BY <1>1, <1>2, OutsideShape DEF Tick

LEMMA NextShape ==
  ASSUME Shape, [Next]_vars
  PROVE  Shape'
<1>1. CASE UNCHANGED vars
  BY <1>1 DEF vars, Shape, TypeOK, HasNewest, WorkerShape, InHand, Exhausted
<1>2. CASE Next
  BY <1>2, EnqueueShape, RequeueShape, ResolveShape, LeaseShape, AppendShape,
     AppendFailsShape, CompleteShape, CompleteErrsShape, FailShape, BuryShape,
     CrashShape, ReclaimShape, TickShape
  DEF Next, Process
<1>3. QED
  BY <1>1, <1>2

(* The rows keep their types: no counter goes below zero and no lease      *)
(* beyond its time, in whatever order workers, reaper and operators act.    *)
THEOREM QueueTypeCorrect == Spec => []TypeOK
<1>1. Shape => TypeOK
  BY DEF Shape
<1>2. QED
  BY InitShape, NextShape, <1>1, PTL DEF Spec

----------------------------------------------------------------------------
(* Done means read. *)

(* A worker about to close an item has appended its reading.               *)
ClosesWhatIsRead ==
  \A w \in Worker : worker[w].pc = "complete" => readings[worker[w].at] > 0

ReadInv == DoneHasReading /\ ClosesWhatIsRead

(* Readings are never taken away, and an item becomes done only in the     *)
(* hands of a worker that has appended one.                                 *)
LEMMA NextRead ==
  ASSUME Shape, ReadInv, [Next]_vars
  PROVE  ReadInv'
<1>0. /\ readings \in [Item -> Nat]
      /\ \A i \in Item : item[i].status = "done" => readings[i] > 0
      /\ \A w \in Worker : worker[w].pc = "complete" =>
                             worker[w].at \in Item /\ readings[worker[w].at] > 0
  BY DEF ReadInv, DoneHasReading, ClosesWhatIsRead, Shape, TypeOK, WorkerShape, InHand
<1>1. CASE UNCHANGED vars
  BY <1>1 DEF vars, ReadInv, DoneHasReading, ClosesWhatIsRead
<1>2. ASSUME NEW i \in Item, Enqueue(i) \/ Requeue(i) \/ ResolveFailure(i)
      PROVE  ReadInv'
  <2>1. \A j \in Item : item'[j].status = "done" => item[j].status = "done"
    BY <1>2 DEF Enqueue, Requeue, ResolveFailure, Shape, TypeOK, ItemRow
  <2>2. UNCHANGED <<readings, worker>>
    BY <1>2 DEF Enqueue, Requeue, ResolveFailure
  <2>3. QED
    BY <1>0, <2>1, <2>2 DEF ReadInv, DoneHasReading, ClosesWhatIsRead
<1>3. ASSUME NEW w \in Worker, LeaseBatch(w)
      PROVE  ReadInv'
  <2>1. /\ \A j \in Item : item'[j].status = "done" => item[j].status = "done"
        /\ worker'[w].pc = "next"
        /\ \A v \in Worker : v # w => worker'[v] = worker[v]
    BY <1>3, LeaseEffect DEF Shape
  <2>2. UNCHANGED readings
    BY <1>3 DEF LeaseBatch
  <2>3. QED
    BY <1>0, <2>1, <2>2 DEF ReadInv, DoneHasReading, ClosesWhatIsRead
<1>4. ASSUME NEW w \in Worker, Append(w)
      PROVE  ReadInv'
  <2>1. PICK i \in Item : /\ readings' = [readings EXCEPT ![i] = @ + 1]
                          /\ GoTo(w, "complete", i)
    BY <1>4 DEF Append, NextInHand, InHand
  <2>2. readings'[i] > 0 /\ \A j \in Item : readings[j] > 0 => readings'[j] > 0
    BY <1>0, <2>1
  <2>3. /\ worker'[w].at = i
        /\ \A v \in Worker : v # w => worker'[v] = worker[v]
    BY <2>1, GoToEffect DEF Shape
  <2>4. UNCHANGED item
    BY <1>4 DEF Append
  <2>5. QED
    BY <1>0, <2>2, <2>3, <2>4 DEF ReadInv, DoneHasReading, ClosesWhatIsRead
<1>5. ASSUME NEW w \in Worker, AppendFails(w)
      PROVE  ReadInv'
  <2>1. PICK i \in Item : GoTo(w, "fail", i)
    BY <1>5 DEF AppendFails, NextInHand, InHand
  <2>2. /\ worker'[w].pc = "fail"
        /\ \A v \in Worker : v # w => worker'[v] = worker[v]
    BY <2>1, GoToEffect DEF Shape
  <2>3. QED
    BY <1>0, <1>5, <2>2 DEF AppendFails, ReadInv, DoneHasReading, ClosesWhatIsRead
<1>6. ASSUME NEW w \in Worker, Complete(w)
      PROVE  ReadInv'
  <2>1. worker[w].at \in Item /\ readings[worker[w].at] > 0
    BY <1>0, <1>6 DEF Complete
  <2>2. \A j \in Item : item'[j].status = "done" =>
          item[j].status = "done" \/ j = worker[w].at
    BY <1>6 DEF Complete
  <2>3. /\ worker'[w].pc = "next"
        /\ \A v \in Worker : v # w => worker'[v] = worker[v]
    BY <1>6, <2>1, DropEffect DEF Complete, Shape
  <2>4. QED
    BY <1>0, <1>6, <2>1, <2>2, <2>3 DEF Complete, ReadInv, DoneHasReading, ClosesWhatIsRead
<1>7. ASSUME NEW w \in Worker, CompleteErrs(w)
      PROVE  ReadInv'
  <2>1. /\ worker'[w].pc = "next"
        /\ \A v \in Worker : v # w => worker'[v] = worker[v]
    BY <1>0, <1>7, DropEffect DEF CompleteErrs, Shape
  <2>2. QED
    BY <1>0, <1>7, <2>1 DEF CompleteErrs, ReadInv, DoneHasReading, ClosesWhatIsRead
<1>8. ASSUME NEW w \in Worker, Fail(w) \/ Bury(w)
      PROVE  ReadInv'
  <2>1. worker[w].at \in Item
    BY <1>8 DEF Fail, Bury, Shape, WorkerShape, InHand
  <2>2. \A j \in Item : item'[j].status = "done" => item[j].status = "done"
    BY <1>8, <2>1 DEF Fail, Bury, Shape, TypeOK, ItemRow
  <2>3. /\ worker'[w].pc \in {"next", "bury"}
        /\ \A v \in Worker : v # w => worker'[v] = worker[v]
    BY <1>8, <2>1, GoToEffect, DropEffect DEF Fail, Bury, Shape
  <2>4. UNCHANGED readings
    BY <1>8 DEF Fail, Bury
  <2>5. QED
    BY <1>0, <2>2, <2>3, <2>4 DEF ReadInv, DoneHasReading, ClosesWhatIsRead
<1>9. ASSUME NEW w \in Worker, Crash(w)
      PROVE  ReadInv'
  <2>1. /\ worker'[w].pc = "next"
        /\ \A v \in Worker : v # w => worker'[v] = worker[v]
    BY <1>9 DEF Crash, IdleWorker, Shape, TypeOK
  <2>2. QED
    BY <1>0, <1>9, <2>1 DEF Crash, ReadInv, DoneHasReading, ClosesWhatIsRead
<1>10. CASE ReclaimExpired \/ Tick
  <2>1. \A j \in Item : item'[j].status = "done" => item[j].status = "done"
    <3>1. CASE ReclaimExpired
      BY <3>1 DEF ReclaimExpired, Shape, TypeOK, ItemRow
    <3>2. CASE Tick
      BY <3>2 DEF Tick, Shape, TypeOK, ItemRow
    <3>3. QED
      BY <1>10, <3>1, <3>2
  <2>2. UNCHANGED <<readings, worker>>
    BY <1>10 DEF ReclaimExpired, Tick
  <2>3. QED
    BY <1>0, <2>1, <2>2 DEF ReadInv, DoneHasReading, ClosesWhatIsRead
<1>11. QED
  BY <1>1, <1>2, <1>3, <1>4, <1>5, <1>6, <1>7, <1>8, <1>9, <1>10 DEF Next, Process

(* Whatever is marked done has its reading, with any number of workers     *)
(* whose leases run out at any moment.                                      *)
THEOREM DoneMeansRead == Spec => []DoneHasReading
<1>1. Init => ReadInv
  BY DEF Init, NoRow, IdleWorker, ReadInv, DoneHasReading, ClosesWhatIsRead
<1>2. ReadInv => DoneHasReading
  BY DEF ReadInv
<1>3. QED
  BY InitShape, NextShape, <1>1, NextRead, <1>2, PTL DEF Spec

----------------------------------------------------------------------------
(* What a step does to one item and to the workers that hold it.           *)

SameBatch(i, W) == \A v \in W : worker'[v].batch[i] = worker[v].batch[i]

Reopens(i) == item[i].status = "done" /\ item'[i].status # "done"
Closes(i)  == item[i].status # "done" /\ item'[i].status = "done"

(* Nobody takes it or lets go of it.                                        *)
HandsSame(i) ==
  /\ item'[i].attempts = item[i].attempts
  /\ filed'[i] = filed[i]
  /\ SameBatch(i, Worker)
  /\ ~Closes(i)
  /\ Reopens(i) => Requeue(i) \/ \E w \in Worker : Fail(w) /\ worker[w].at = i

(* Worker w lets go of it, and has perhaps closed or failed it.             *)
LetGo(w, i) ==
  /\ item'[i].attempts = item[i].attempts
  /\ filed'[i] = filed[i]
  /\ worker'[w].batch[i] = 0
  /\ SameBatch(i, Worker \ {w})
  /\ Closes(i) => worker[w].batch[i] # 0
  /\ Reopens(i) => Fail(w) /\ worker[w].at = i

(* Worker w files a letter for it and lets go.                              *)
LetterFiled(w, i) ==
  /\ item'[i] = item[i]
  /\ filed'[i] = filed[i] + 1
  /\ worker[w].at = i /\ Exhausted(w) /\ worker[w].batch[i] # 0
  /\ worker'[w].batch[i] = 0
  /\ SameBatch(i, Worker \ {w})

(* Worker w leases it under the next number.                                *)
Leased(w, i) ==
  /\ item[i].status # "done" /\ item'[i].status = "leased"
  /\ item'[i].attempts = item[i].attempts + 1
  /\ filed'[i] = filed[i]
  /\ worker[w].batch[i] = 0
  /\ worker'[w].batch[i] = item'[i].attempts
  /\ SameBatch(i, Worker \ {w})

OneItemStep(i) ==
  HandsSame(i) \/ \E w \in Worker : LetGo(w, i) \/ LetterFiled(w, i) \/ Leased(w, i)

LEMMA WorkerSteps ==
  ASSUME Shape, NEW w \in Worker, Process(w) \/ Crash(w), NEW i \in Item
  PROVE  OneItemStep(i)
<1> USE DEF SameBatch, Closes, Reopens
<1>1. CASE LeaseBatch(w)
  <2>1. PICK T \in SUBSET Item :
           /\ \A j \in T : /\ Eligible(j)
                           /\ item'[j].status = "leased"
                           /\ item'[j].attempts = item[j].attempts + 1
                           /\ worker'[w].batch[j] = item[j].attempts + 1
           /\ \A j \in Item \ T : item'[j] = item[j] /\ worker'[w].batch[j] = 0
           /\ \A v \in Worker : v # w => worker'[v] = worker[v]
    BY <1>1, LeaseEffect DEF Shape
  <2>2. worker[w].batch[i] = 0
    BY <1>1 DEF LeaseBatch, Idle, InHand
  <2>3. UNCHANGED filed
    BY <1>1 DEF LeaseBatch
  <2>4. CASE i \in T
    BY <2>1, <2>2, <2>3, <2>4 DEF OneItemStep, Leased, Eligible
  <2>5. CASE i \notin T
    BY <2>1, <2>2, <2>3, <2>5 DEF OneItemStep, HandsSame
  <2>6. QED
    BY <2>4, <2>5
<1>2. CASE Append(w) \/ AppendFails(w)
  <2>1. worker'[w].batch = worker[w].batch /\ \A v \in Worker : v # w => worker'[v] = worker[v]
    BY <1>2, GoToEffect DEF Append, AppendFails, NextInHand, InHand, Shape
  <2>2. UNCHANGED <<item, filed>>
    BY <1>2 DEF Append, AppendFails
  <2>3. HandsSame(i)
    BY <2>1, <2>2 DEF HandsSame
  <2>4. QED
    BY <2>3 DEF OneItemStep
<1>3. ASSUME worker[w].pc # "next", Drop(w)
      PROVE  /\ worker[w].at \in Item /\ worker[w].batch[worker[w].at] # 0
             /\ worker'[w].batch[worker[w].at] = 0
             /\ worker[w].at # i => worker'[w].batch[i] = worker[w].batch[i]
             /\ \A v \in Worker : v # w => worker'[v] = worker[v]
  <2>1. worker[w].at \in Item /\ worker[w].batch[worker[w].at] # 0
    BY <1>3 DEF Shape, WorkerShape, InHand
  <2>2. worker[w].batch \in [Item -> Nat]
    BY DEF Shape, TypeOK, WorkerState
  <2>3. QED
    BY <1>3, <2>1, <2>2, DropEffect DEF Shape
<1>4. CASE Complete(w) \/ CompleteErrs(w)
  <2>1. worker[w].pc # "next" /\ Drop(w) /\ UNCHANGED filed
    BY <1>4 DEF Complete, CompleteErrs
  <2>2. /\ item'[i].attempts = item[i].attempts
        /\ i # worker[w].at => item'[i] = item[i]
        /\ item[i].status = "done" => item'[i].status = "done"
    BY <1>4 DEF Complete, CompleteErrs, Shape, TypeOK, ItemRow
  <2>3. CASE i = worker[w].at
    BY <1>3, <2>1, <2>2, <2>3 DEF OneItemStep, LetGo
  <2>4. CASE i # worker[w].at
    BY <1>3, <2>1, <2>2, <2>4 DEF OneItemStep, HandsSame
  <2>5. QED
    BY <2>3, <2>4
<1>5. CASE Fail(w)
  <2>0. worker[w].pc # "next" /\ worker[w].at \in Item /\ UNCHANGED filed
    BY <1>5 DEF Fail, Shape, WorkerShape, InHand
  <2>1. /\ item'[i].attempts = item[i].attempts
        /\ i # worker[w].at => item'[i] = item[i]
        /\ item'[i].status = "done" => item[i].status = "done"
    BY <1>5, <2>0 DEF Fail, Shape, TypeOK, ItemRow
  <2>2. CASE Exhausted(w)
    <3>1. GoTo(w, "bury", worker[w].at)
      BY <1>5, <2>2 DEF Fail
    <3>2. worker'[w].batch = worker[w].batch /\ \A v \in Worker : v # w => worker'[v] = worker[v]
      BY <2>0, <3>1, GoToEffect DEF Shape
    <3>3. HandsSame(i)
      BY <1>5, <2>0, <2>1, <3>2 DEF HandsSame
    <3>4. QED
      BY <3>3 DEF OneItemStep
  <2>3. CASE ~Exhausted(w)
    <3>1. Drop(w)
      BY <1>5, <2>3 DEF Fail
    <3>2. CASE i = worker[w].at
      BY <1>3, <1>5, <2>0, <2>1, <3>1, <3>2 DEF OneItemStep, LetGo
    <3>3. CASE i # worker[w].at
      BY <1>3, <2>0, <2>1, <3>1, <3>3 DEF OneItemStep, HandsSame
    <3>4. QED
      BY <3>2, <3>3
  <2>4. QED
    BY <2>2, <2>3
<1>6. CASE Bury(w)
  <2>1. worker[w].pc = "bury" /\ worker[w].at \in Item /\ Exhausted(w)
        /\ Drop(w) /\ UNCHANGED item
    BY <1>6 DEF Bury, Shape, WorkerShape, InHand
  <2>2. i # worker[w].at => filed'[i] = filed[i]
    BY <1>6, <2>1 DEF Bury, Shape, TypeOK
  <2>3. filed'[worker[w].at] \in {filed[worker[w].at], filed[worker[w].at] + 1}
    BY <1>6, <2>1 DEF Bury, Shape, TypeOK
  <2>4. CASE i # worker[w].at
    BY <1>3, <2>1, <2>2, <2>4 DEF OneItemStep, HandsSame
  <2>5. CASE i = worker[w].at /\ filed'[i] = filed[i]
    BY <1>3, <2>1, <2>5 DEF OneItemStep, LetGo
  <2>6. CASE i = worker[w].at /\ filed'[i] = filed[i] + 1
    BY <1>3, <2>1, <2>6 DEF OneItemStep, LetterFiled
  <2>7. QED
    BY <2>3, <2>4, <2>5, <2>6
<1>7. CASE Crash(w)
  <2>1. /\ worker'[w].batch[i] = 0
        /\ \A v \in Worker : v # w => worker'[v] = worker[v]
    BY <1>7 DEF Crash, IdleWorker, Shape, TypeOK
  <2>2. QED
    BY <1>7, <2>1 DEF Crash, OneItemStep, LetGo
<1>8. QED
  BY <1>1, <1>2, <1>4, <1>5, <1>6, <1>7 DEF Process

LEMMA StepByItem ==
  ASSUME Shape, [Next]_vars, NEW i \in Item
  PROVE  OneItemStep(i)
<1> USE DEF SameBatch, Closes, Reopens
<1>1. CASE UNCHANGED vars
  BY <1>1 DEF vars, OneItemStep, HandsSame
<1>2. ASSUME NEW j \in Item, Enqueue(j) \/ ResolveFailure(j)
      PROVE  OneItemStep(i)
  <2>1. /\ item'[i].attempts = item[i].attempts
        /\ item'[i].status = "done" <=> item[i].status = "done"
    <3>1. CASE ResolveFailure(j)
      BY <3>1 DEF ResolveFailure
    <3>2. CASE Enqueue(j)
      BY <3>2 DEF Enqueue, Shape, TypeOK, ItemRow
    <3>3. QED
      BY <1>2, <3>1, <3>2
  <2>2. QED
    BY <1>2, <2>1 DEF Enqueue, ResolveFailure, OneItemStep, HandsSame
<1>3. ASSUME NEW j \in Item, Requeue(j)
      PROVE  OneItemStep(i)
  <2>1. /\ item'[i].attempts = item[i].attempts
        /\ item'[i].status = "done" => item[i].status = "done"
        /\ i # j => item'[i] = item[i]
    BY <1>3 DEF Requeue, Shape, TypeOK, ItemRow
  <2>2. UNCHANGED <<filed, worker>>
    BY <1>3 DEF Requeue
  <2>3. QED
    BY <1>3, <2>1, <2>2 DEF OneItemStep, HandsSame
<1>4. CASE ReclaimExpired \/ Tick
  <2>1. /\ item'[i].attempts = item[i].attempts
        /\ item'[i].status = "done" <=> item[i].status = "done"
    <3>1. CASE ReclaimExpired
      BY <3>1 DEF ReclaimExpired, Shape, TypeOK, ItemRow
    <3>2. CASE Tick
      <4>1. item'[i] \in {item[i], [item[i] EXCEPT !.left = @ - 1]}
        BY <3>2 DEF Tick
      <4>2. item[i] \in ItemRow
        BY DEF Shape, TypeOK
      <4>3. QED
        BY <4>1, <4>2 DEF ItemRow
    <3>3. QED
      BY <1>4, <3>1, <3>2
  <2>2. UNCHANGED <<filed, worker>>
    BY <1>4 DEF ReclaimExpired, Tick
  <2>3. QED
    BY <2>1, <2>2 DEF OneItemStep, HandsSame
<1>5. QED
  BY <1>1, <1>2, <1>3, <1>4, WorkerSteps DEF Next

----------------------------------------------------------------------------
(* Letters. *)

(* The first lease whose failure is worth a letter.                        *)
Threshold(i) == IF i \in Malformed THEN 1 ELSE MaxAttempts

(* How many leases of an item have been worth a letter, and who holds one. *)
Earned(i)   == IF item[i].attempts < Threshold(i) THEN 0 ELSE item[i].attempts - Threshold(i) + 1
Claimant(i) == {w \in Worker : worker[w].batch[i] >= Threshold(i)}

(* Each lease that is worth a letter is in somebody's hands, spent on a    *)
(* letter, or lost; LettersEarned alone forgets those in hand.             *)
LettersCounted ==
  \A i \in Item :
    IsFiniteSet(Claimant(i)) /\ filed[i] + Cardinality(Claimant(i)) <= Earned(i)

LEMMA NextLetters ==
  ASSUME Shape, LettersCounted, [Next]_vars
  PROVE  LettersCounted'
<1> SUFFICES ASSUME NEW i \in Item
             PROVE  /\ IsFiniteSet(Claimant(i)')
                    /\ filed'[i] + Cardinality(Claimant(i)') <= Earned(i)'
  BY DEF LettersCounted
<1>1. /\ filed[i] \in Nat /\ item[i].attempts \in Nat
      /\ Threshold(i) \in Nat \ {0}
      /\ \A w \in Worker : worker[w].batch[i] \in Nat
  BY PolicyAssumption DEF Shape, TypeOK, ItemRow, WorkerState, Threshold
<1>2. /\ IsFiniteSet(Claimant(i)) /\ Cardinality(Claimant(i)) \in Nat
      /\ filed[i] + Cardinality(Claimant(i)) <= Earned(i)
  BY FS_CardinalityType DEF LettersCounted
<1>3. CASE HandsSame(i)
  <2>1. Claimant(i)' = Claimant(i)
    BY <1>3 DEF HandsSame, SameBatch, Claimant, Threshold
  <2>2. QED
    BY <1>2, <1>3, <2>1 DEF HandsSame, Earned, Threshold
<1>4. ASSUME NEW w \in Worker, LetGo(w, i)
      PROVE  /\ IsFiniteSet(Claimant(i)')
             /\ filed'[i] + Cardinality(Claimant(i)') <= Earned(i)'
  <2>1. Claimant(i)' = Claimant(i) \ {w}
    BY <1>1, <1>4 DEF LetGo, SameBatch, Claimant, Threshold
  <2>2. IsFiniteSet(Claimant(i)') /\ Cardinality(Claimant(i)') \in Nat
        /\ Cardinality(Claimant(i)') <= Cardinality(Claimant(i))
    <3>1. /\ IsFiniteSet(Claimant(i) \ {w})
          /\ Cardinality(Claimant(i) \ {w}) \in
               {Cardinality(Claimant(i)) - 1, Cardinality(Claimant(i))}
      BY <1>2, FS_RemoveElement
    <3>2. Cardinality(Claimant(i)') \in Nat
      BY <2>1, <3>1, FS_CardinalityType
    <3>3. QED
      BY <1>2, <2>1, <3>1, <3>2
  <2>3. filed'[i] = filed[i] /\ Earned(i)' = Earned(i)
    BY <1>4 DEF LetGo, Earned, Threshold
  <2>4. Earned(i) \in Nat
    BY <1>1 DEF Earned
  <2>5. QED
    BY <1>1, <1>2, <2>2, <2>3, <2>4
<1>5. ASSUME NEW w \in Worker, LetterFiled(w, i)
      PROVE  /\ IsFiniteSet(Claimant(i)')
             /\ filed'[i] + Cardinality(Claimant(i)') <= Earned(i)'
  <2>1. w \in Claimant(i)
    BY <1>1, <1>5 DEF LetterFiled, Exhausted, Claimant, Threshold
  <2>2. Claimant(i)' = Claimant(i) \ {w}
    BY <1>1, <1>5 DEF LetterFiled, SameBatch, Claimant, Threshold
  <2>3. IsFiniteSet(Claimant(i)') /\ Cardinality(Claimant(i)') = Cardinality(Claimant(i)) - 1
    BY <1>2, <2>1, <2>2, FS_RemoveElement
  <2>4. filed'[i] = filed[i] + 1 /\ Earned(i)' = Earned(i)
    BY <1>5 DEF LetterFiled, Earned, Threshold
  <2>5. QED
    BY <1>1, <1>2, <2>3, <2>4
<1>6. ASSUME NEW w \in Worker, Leased(w, i)
      PROVE  /\ IsFiniteSet(Claimant(i)')
             /\ filed'[i] + Cardinality(Claimant(i)') <= Earned(i)'
  <2>1. /\ item'[i].attempts = item[i].attempts + 1
        /\ worker'[w].batch[i] = item[i].attempts + 1
        /\ filed'[i] = filed[i]
    BY <1>6 DEF Leased
  <2>2. w \notin Claimant(i)
    BY <1>1, <1>6 DEF Leased, Claimant
  <2>3. CASE item[i].attempts + 1 >= Threshold(i)
    <3>1. Claimant(i)' = Claimant(i) \cup {w}
      BY <1>1, <1>6, <2>1, <2>3 DEF Leased, SameBatch, Claimant, Threshold
    <3>2. IsFiniteSet(Claimant(i)') /\ Cardinality(Claimant(i)') = Cardinality(Claimant(i)) + 1
      BY <1>2, <2>2, <3>1, FS_AddElement
    <3>3. Earned(i)' = Earned(i) + 1
      BY <1>1, <2>1, <2>3 DEF Earned, Threshold
    <3>4. QED
      BY <1>1, <1>2, <2>1, <3>2, <3>3 DEF Earned
  <2>4. CASE item[i].attempts + 1 < Threshold(i)
    <3>1. Claimant(i)' = Claimant(i)
      BY <1>1, <1>6, <2>1, <2>2, <2>4 DEF Leased, SameBatch, Claimant, Threshold
    <3>2. Earned(i)' = 0 /\ Earned(i) = 0
      BY <1>1, <2>1, <2>4 DEF Earned, Threshold
    <3>3. QED
      BY <1>2, <2>1, <3>1, <3>2
  <2>5. QED
    BY <1>1, <2>3, <2>4
<1>7. QED
  BY <1>3, <1>4, <1>5, <1>6, StepByItem DEF OneItemStep

(* A letter is filed only for a lease that has used up the attempts, one   *)
(* for each at most, though leases overlap and workers die.                *)
THEOREM LettersAreEarned == Spec => []LettersEarned
<1>1. ASSUME Init
      PROVE  LettersCounted
  <2>1. ASSUME NEW i \in Item
        PROVE  Claimant(i) = {} /\ filed[i] = 0 /\ Earned(i) = 0
    BY <1>1, PolicyAssumption
    DEF Init, NoRow, IdleWorker, Claimant, Threshold, Earned
  <2>2. QED
    BY <2>1, FS_EmptySet DEF LettersCounted
<1>2. ASSUME Shape, LettersCounted
      PROVE  LettersEarned
  <2>1. ASSUME NEW i \in Item
        PROVE  filed[i] <= Earned(i)
    <3>1. filed[i] \in Nat /\ Cardinality(Claimant(i)) \in Nat /\ Earned(i) \in Int
          /\ filed[i] + Cardinality(Claimant(i)) <= Earned(i)
      BY <1>2, FS_CardinalityType, PolicyAssumption
      DEF Shape, TypeOK, ItemRow, LettersCounted, Earned, Threshold
    <3>2. QED
      BY <3>1
  <2>2. ASSUME NEW i \in Item
        PROVE  Earned(i) = IF i \in Malformed THEN item[i].attempts
                           ELSE IF item[i].attempts < MaxAttempts THEN 0
                           ELSE item[i].attempts - MaxAttempts + 1
    <3>1. item[i].attempts \in Nat
      BY <1>2 DEF Shape, TypeOK, ItemRow
    <3>2. QED
      BY <3>1 DEF Earned, Threshold
  <2>3. QED
    BY <2>1, <2>2 DEF LettersEarned
<1>3. QED
  BY InitShape, NextShape, <1>1, NextLetters, <1>2, PTL DEF Spec

----------------------------------------------------------------------------
(* Done is final. *)

(* No two workers hold an item under the same number.                      *)
LeasesDistinct ==
  \A i \in Item, v, w \in Worker :
    v # w /\ worker[v].batch[i] # 0 => worker[v].batch[i] # worker[w].batch[i]

(* An item that was leased once is in nobody's hands when it is done.      *)
DoneAtOnceIsFree ==
  \A i \in Item :
    item[i].status = "done" /\ item[i].attempts <= 1 =>
      \A w \in Worker : worker[w].batch[i] = 0

LeaseInv == LeasesDistinct /\ DoneAtOnceIsFree

LEMMA NextLeases ==
  ASSUME Shape, LeaseInv, [Next]_vars
  PROVE  LeaseInv'
<1> SUFFICES ASSUME NEW i \in Item
             PROVE  /\ \A v, w \in Worker : v # w /\ worker'[v].batch[i] # 0 =>
                                              worker'[v].batch[i] # worker'[w].batch[i]
                    /\ item'[i].status = "done" /\ item'[i].attempts <= 1 =>
                         \A w \in Worker : worker'[w].batch[i] = 0
  BY DEF LeaseInv, LeasesDistinct, DoneAtOnceIsFree
<1>1. /\ item[i].attempts \in Nat
      /\ \A w \in Worker : worker[w].batch[i] \in Nat /\ worker[w].batch[i] <= item[i].attempts
  BY DEF Shape, TypeOK, ItemRow, WorkerState, WorkerShape
<1>2. /\ \A v, w \in Worker : v # w /\ worker[v].batch[i] # 0 =>
                                worker[v].batch[i] # worker[w].batch[i]
      /\ item[i].status = "done" /\ item[i].attempts <= 1 =>
           \A w \in Worker : worker[w].batch[i] = 0
  BY DEF LeaseInv, LeasesDistinct, DoneAtOnceIsFree
<1>3. CASE HandsSame(i)
  BY <1>2, <1>3 DEF HandsSame, SameBatch, Closes
<1>4. ASSUME NEW u \in Worker, LetGo(u, i)
      PROVE  /\ \A v, w \in Worker : v # w /\ worker'[v].batch[i] # 0 =>
                                       worker'[v].batch[i] # worker'[w].batch[i]
             /\ item'[i].status = "done" /\ item'[i].attempts <= 1 =>
                  \A w \in Worker : worker'[w].batch[i] = 0
  BY <1>1, <1>2, <1>4 DEF LetGo, SameBatch, Closes
<1>5. ASSUME NEW u \in Worker, LetterFiled(u, i)
      PROVE  /\ \A v, w \in Worker : v # w /\ worker'[v].batch[i] # 0 =>
                                       worker'[v].batch[i] # worker'[w].batch[i]
             /\ item'[i].status = "done" /\ item'[i].attempts <= 1 =>
                  \A w \in Worker : worker'[w].batch[i] = 0
  BY <1>2, <1>5 DEF LetterFiled, SameBatch
<1>6. ASSUME NEW u \in Worker, Leased(u, i)
      PROVE  /\ \A v, w \in Worker : v # w /\ worker'[v].batch[i] # 0 =>
                                       worker'[v].batch[i] # worker'[w].batch[i]
             /\ item'[i].status = "done" /\ item'[i].attempts <= 1 =>
                  \A w \in Worker : worker'[w].batch[i] = 0
  BY <1>1, <1>2, <1>6 DEF Leased, SameBatch
<1>7. QED
  BY <1>3, <1>4, <1>5, <1>6, StepByItem DEF OneItemStep

(* A done item is reopened by an operator, or by the late failure of a     *)
(* worker after a second lease: nothing else can.                           *)
THEOREM DoneStaysDone == Spec => DoneIsFinal
<1>1. ASSUME Init
      PROVE  LeaseInv
  BY <1>1 DEF Init, NoRow, IdleWorker, LeaseInv, LeasesDistinct, DoneAtOnceIsFree
<1>2. ASSUME Shape, LeaseInv, [Next]_vars, NEW i \in Item, Reopens(i)
      PROVE  Requeue(i) \/ \E w \in Worker : Fail(w) /\ LateFail(w, i)
  <2>1. ASSUME NEW w \in Worker, Fail(w), worker[w].at = i
        PROVE  LateFail(w, i)
    <3>1. worker[w].pc = "fail" /\ worker[w].batch[i] # 0 /\ item[i].attempts \in Nat
      BY <1>2, <2>1 DEF Fail, Shape, TypeOK, ItemRow, WorkerShape, InHand
    <3>2. item[i].attempts > 1
      BY <1>2, <3>1 DEF Reopens, LeaseInv, DoneAtOnceIsFree
    <3>3. QED
      BY <2>1, <3>1, <3>2 DEF LateFail
  <2>2. OneItemStep(i)
    BY <1>2, StepByItem
  <2>3. QED
    BY <1>2, <2>1, <2>2 DEF OneItemStep, HandsSame, LetGo, LetterFiled, Leased, Reopens
<1>3. ASSUME Shape, LeaseInv, [Next]_vars
      PROVE  [\A i \in Item :
                item[i].status = "done" /\ item'[i].status # "done" =>
                  Requeue(i) \/ \E w \in Worker : Fail(w) /\ LateFail(w, i)]_vars
  BY <1>2, <1>3 DEF Reopens
<1>4. QED
  BY InitShape, NextShape, <1>1, NextLeases, <1>3, PTL DEF Spec, DoneIsFinal

============================================================================
