-------------------------- MODULE IngestPathProofs --------------------------
(***************************************************************************)
(* Proofs about IngestPath for any items, any batch size, lease time and   *)
(* number of attempts, and for any number of troubles on either side.      *)
(***************************************************************************)
EXTENDS IngestPath, FiniteSetTheorems, SequenceTheorems, TLAPS

(* The queue. *)

(* Some item is the newest, so that the next submission has a created_at.  *)
HasNewest == \A i \in Item : \E n \in Item : \A j \in Item : item[j].created <= item[n].created

(* A worker in the middle of an item has that item in hand, and no lease   *)
(* has a number the row has not reached.                                    *)
HandsRight ==
  \A w \in Worker :
    /\ worker[w].pc # "next" => worker[w].at \in Q!InHand(w)
    /\ \A i \in Item : worker[w].batch[i] <= item[i].attempts

(* The lease of an item that still runs is in good hands when its worker   *)
(* may yet close the row.                                                   *)
Running(i) ==
  /\ ~Q!Expired(i)
  /\ \E w \in Worker : /\ worker[w].batch[i] = item[i].attempts
                       /\ ~(worker[w].pc = "bury" /\ worker[w].at = i)

(* A lease after the first takes a trouble: an item that can be leased has *)
(* had one for each lease, another one has had all but one.                 *)
LeaseCounted ==
  \A i \in Item :
    /\ item[i].attempts <= trouble + 1
    /\ item[i].status = "absent" => item[i].attempts = 0
    /\ item[i].status = "pending" => item[i].attempts <= trouble
    /\ item[i].status = "leased" => item[i].attempts <= trouble \/ Running(i)

QueueInv == Q!TypeOK /\ HasNewest /\ HandsRight /\ LeaseCounted /\ trouble <= MaxTrouble

----------------------------------------------------------------------------
(* The store. *)

Active(w) == app[w].pc # "idle"

(* The append under way holds the shard lock, and nobody else. *)
Holding ==
  \A w \in Worker : /\ Active(w) <=> mu = w
                    /\ Active(w) <=> app[w].id # None

(* Where an append is: the file ended after its first size lines, and has  *)
(* at most the append's own line more.                                      *)
OwnLine(w) == IF app[w].torn = None THEN app[w].id ELSE Corrupt
Placed(w) ==
  /\ Len(file) \in {app[w].size, app[w].size + 1}
  /\ Len(file) = app[w].size + 1 => file[Len(file)] = OwnLine(w)
  /\ app[w].pc = "begun" => Len(file) = app[w].size /\ torn = app[w].torn
  /\ app[w].pc = "written" => Len(file) = app[w].size + 1 /\ torn = None

(* The cached count is that of the file, or there is none; a process that  *)
(* is about to stop may have left it wrong, but writes no more.             *)
CountRight ==
  intact /\ mode # "stopping" =>
    /\ mu = None => counts \in {-1, Len(file)}
    /\ \A w \in Worker : Active(w) =>
         /\ app[w].lineNo = app[w].size
         /\ app[w].pc = "written" => counts = Len(file)

(* Before the first trouble nothing is torn off and the index is right. *)
Untroubled ==
  faults = 0 =>
    /\ mode = "server"
    /\ mu = None => torn = None
    /\ \A w \in Worker : Active(w) => app[w].torn = None

StoreInv ==
  /\ S!TypeOK /\ Holding /\ CountRight /\ Untroubled
  /\ \A w \in Worker : Active(w) => Placed(w)

----------------------------------------------------------------------------
(* The two together. *)

(* The append under way is that of the worker's next item, under the       *)
(* number of its lease; an ops command finds nobody with an item in hand.   *)
SameItem ==
  \A w \in Worker :
    /\ Active(w) => /\ worker[w].pc = "next"
                    /\ \E i \in Q!NextInHand(w) : app[w].id = ReadingOf(w, i)
    /\ mode = "ops" => Q!Idle(w)

(* A line number of an item: the line is there to stay, and holds a        *)
(* reading of the item or nothing that decodes.                             *)
Names(i, n) == n \in 0..(Base - 1) /\ file[n + 1] \in ({i} \X Lease) \cup {Corrupt}

(* The worker has the line number of what it has appended, and the row of  *)
(* a done item has it.                                                      *)
LinesNamed ==
  sound =>
    /\ intact
    /\ \A w \in Worker : worker[w].pc = "complete" => Names(worker[w].at, place[w])
    /\ \A i \in Item : item[i].status = "done" => Names(i, line[i])

(* The readings of an item among the lines that stay. *)
KeptLines(i) == {n \in 1..Base : file[n] \in {i} \X Lease}

(* An item still to be appended under its present lease. *)
Ahead(i) == \E w \in Worker : i \in Q!InHand(w) /\ (worker[w].pc = "next" \/ worker[w].at # i)

(* Each lease appends its item once. *)
OncePerLease ==
  \A i \in Item :
    /\ readings[i] <= item[i].attempts
    /\ Ahead(i) => readings[i] < item[i].attempts

FileCounted ==
  faults = 0 =>
    \A i \in Item : IsFiniteSet(KeptLines(i)) /\ Cardinality(KeptLines(i)) = readings[i]

PathInv ==
  /\ QueueInv /\ StoreInv
  /\ place \in [Worker -> Nat] /\ line \in [Item -> Nat] /\ sound \in BOOLEAN
  /\ SameItem /\ LinesNamed /\ OncePerLease /\ FileCounted

----------------------------------------------------------------------------
(* The queue: what the pieces of an action do. *)

LEMMA GoToEffect ==
  ASSUME Q!TypeOK, NEW w \in Worker, NEW i \in Item,
         NEW pc \in {"complete", "fail", "bury"}, Q!GoTo(w, pc, i)
  PROVE  /\ worker' \in [Worker -> Q!WorkerState]
         /\ worker'[w].pc = pc /\ worker'[w].at = i
         /\ worker'[w].batch = worker[w].batch
         /\ \A v \in Worker : v # w => worker'[v] = worker[v]
BY DEF Q!TypeOK, Q!WorkerState, Q!GoTo

LEMMA DropEffect ==
  ASSUME Q!TypeOK, NEW w \in Worker, worker[w].at \in Item, Q!Drop(w)
  PROVE  /\ worker' \in [Worker -> Q!WorkerState]
         /\ worker'[w].pc = "next"
         /\ worker'[w].batch = [worker[w].batch EXCEPT ![worker[w].at] = 0]
         /\ \A v \in Worker : v # w => worker'[v] = worker[v]
<1> DEFINE b == [worker[w].batch EXCEPT ![worker[w].at] = 0]
<1> DEFINE r == [worker[w] EXCEPT !.pc = "next", !.at = NoItem, !.batch = b]
<1>1. b \in [Item -> Nat] /\ worker[w] \in Q!WorkerState
  BY DEF Q!TypeOK, Q!WorkerState
<1>2. worker' = [worker EXCEPT ![w] = r]
  BY <1>1 DEF Q!Drop, Q!TypeOK, Q!WorkerState
<1> HIDE DEF b
<1>3. r \in Q!WorkerState /\ r.pc = "next" /\ r.batch = b
  BY <1>1 DEF Q!WorkerState
<1> HIDE DEF r
<1>4. QED
  BY <1>2, <1>3 DEF Q!TypeOK, b

(* The rows keep their types, their order and the numbers of their leases. *)
RowsKeep ==
  /\ item' \in [Item -> Q!ItemRow]
  /\ \A j \in Item : item'[j].created = item[j].created /\ item'[j].attempts = item[j].attempts

(* A statement closes no row but one, and reopens none. *)
OnlyCloses(i) ==
  \A j \in Item :
    /\ item'[j].left = item[j].left
    /\ item'[j].status # item[j].status => j = i /\ item'[j].status \in {"done", "failed"}

(* A worker goes from its next item to the step that is due for it. *)
LEMMA GoToKeeps ==
  ASSUME QueueInv, NEW w \in Worker, NEW i \in Q!InHand(w),
         NEW pc \in {"complete", "fail", "bury"}, Q!GoTo(w, pc, i), Q!TypeOK', RowsKeep,
         OnlyCloses(i), trouble' \in {trouble, trouble + 1}, trouble' <= MaxTrouble,
         pc = "bury" => item'[i].status # "leased" \/ trouble' = trouble + 1
  PROVE  QueueInv'
<1>1. i \in Item
  BY DEF Q!InHand
<1>2. /\ worker'[w].pc = pc /\ worker'[w].at = i
      /\ worker'[w].batch = worker[w].batch
      /\ \A v \in Worker : v # w => worker'[v] = worker[v]
  BY <1>1, GoToEffect DEF QueueInv
<1>3. HasNewest'
  BY DEF QueueInv, HasNewest, RowsKeep
<1>4. HandsRight'
  BY <1>2 DEF QueueInv, HandsRight, Q!InHand, RowsKeep
<1>5. ASSUME NEW j \in Item
      PROVE  /\ item'[j].attempts <= trouble' + 1
             /\ item'[j].status = "absent" => item'[j].attempts = 0
             /\ item'[j].status = "pending" => item'[j].attempts <= trouble'
             /\ item'[j].status = "leased" => item'[j].attempts <= trouble' \/ Running(j)'
  <2>1. /\ item[j].attempts \in Nat /\ trouble \in Nat
        /\ item[j].attempts <= trouble + 1
        /\ item[j].status = "absent" => item[j].attempts = 0
        /\ item[j].status = "pending" => item[j].attempts <= trouble
        /\ item[j].status = "leased" => item[j].attempts <= trouble \/ Running(j)
    BY DEF QueueInv, LeaseCounted, Q!TypeOK, Q!ItemRow
  <2>2. Running(j) => Running(j)' \/ (pc = "bury" /\ j = i)
    BY <1>2 DEF Running, Q!Expired, OnlyCloses, RowsKeep
  <2>3. QED
    BY <2>1, <2>2 DEF OnlyCloses, RowsKeep
<1>6. LeaseCounted'
  BY <1>5 DEF LeaseCounted
<1>7. QED
  BY <1>3, <1>4, <1>6 DEF QueueInv

(* A worker lets its item go. *)
LEMMA DropKeeps ==
  ASSUME QueueInv, NEW w \in Worker, worker[w].pc # "next", Q!Drop(w), Q!TypeOK', RowsKeep,
         OnlyCloses(worker[w].at), trouble' \in {trouble, trouble + 1}, trouble' <= MaxTrouble,
         \/ worker[w].pc = "bury" \/ trouble' = trouble + 1
         \/ item'[worker[w].at].status # "leased"
  PROVE  QueueInv'
<1>1. worker[w].at \in Item
  BY DEF QueueInv, HandsRight, Q!InHand
<1>2. /\ worker'[w].pc = "next"
      /\ worker'[w].batch = [worker[w].batch EXCEPT ![worker[w].at] = 0]
      /\ \A v \in Worker : v # w => worker'[v] = worker[v]
  BY <1>1, DropEffect DEF QueueInv
<1>3. /\ worker[w].batch \in [Item -> Nat]
      /\ \A j \in Item : item[j].attempts \in Nat /\ worker[w].batch[j] <= item[j].attempts
  BY DEF QueueInv, Q!TypeOK, Q!WorkerState, Q!ItemRow, HandsRight
<1>4. HasNewest'
  BY DEF QueueInv, HasNewest, RowsKeep
<1>5. HandsRight'
  <2>1. \A j \in Item : worker'[w].batch[j] <= item'[j].attempts
    BY <1>2, <1>3 DEF RowsKeep
  <2>2. QED
    BY <1>2, <2>1 DEF QueueInv, HandsRight, Q!InHand, RowsKeep
<1>6. ASSUME NEW j \in Item
      PROVE  /\ item'[j].attempts <= trouble' + 1
             /\ item'[j].status = "absent" => item'[j].attempts = 0
             /\ item'[j].status = "pending" => item'[j].attempts <= trouble'
             /\ item'[j].status = "leased" => item'[j].attempts <= trouble' \/ Running(j)'
  <2>1. /\ item[j].attempts \in Nat /\ trouble \in Nat
        /\ item[j].attempts <= trouble + 1
        /\ item[j].status = "absent" => item[j].attempts = 0
        /\ item[j].status = "pending" => item[j].attempts <= trouble
        /\ item[j].status = "leased" => item[j].attempts <= trouble \/ Running(j)
    BY DEF QueueInv, LeaseCounted, Q!TypeOK, Q!ItemRow
  <2>2. CASE j # worker[w].at
    <3>1. worker'[w].batch[j] = worker[w].batch[j]
      BY <1>2, <1>3, <2>2
    <3>2. ASSUME Running(j) PROVE Running(j)'
      <4>1. PICK v \in Worker : /\ worker[v].batch[j] = item[j].attempts
                               /\ ~(worker[v].pc = "bury" /\ worker[v].at = j)
        BY <3>2 DEF Running
      <4>2. /\ worker'[v].batch[j] = worker[v].batch[j]
            /\ ~(worker'[v].pc = "bury" /\ worker'[v].at = j)
        BY <1>2, <3>1, <4>1
      <4>3. item'[j].left = item[j].left /\ item'[j].attempts = item[j].attempts
        BY DEF OnlyCloses, RowsKeep
      <4>4. QED
        BY <3>2, <4>1, <4>2, <4>3 DEF Running, Q!Expired
    <3>3. QED
      BY <2>1, <2>2, <3>2 DEF OnlyCloses, RowsKeep
  <2>3. CASE j = worker[w].at /\ worker[w].pc = "bury"
    <3>1. ASSUME Running(j) PROVE Running(j)'
      <4>1. PICK v \in Worker : /\ worker[v].batch[j] = item[j].attempts
                               /\ ~(worker[v].pc = "bury" /\ worker[v].at = j)
        BY <3>1 DEF Running
      <4>2. worker'[v] = worker[v]
        BY <1>2, <2>3, <4>1
      <4>3. QED
        BY <3>1, <4>1, <4>2 DEF Running, Q!Expired, OnlyCloses, RowsKeep
    <3>2. QED
      BY <2>1, <3>1 DEF OnlyCloses, RowsKeep
  <2>4. CASE j = worker[w].at /\ worker[w].pc # "bury"
    BY <2>1, <2>4 DEF OnlyCloses, RowsKeep
  <2>5. QED
    BY <2>2, <2>3, <2>4
<1>7. LeaseCounted'
  BY <1>6 DEF LeaseCounted
<1>8. QED
  BY <1>4, <1>5, <1>7 DEF QueueInv

----------------------------------------------------------------------------
(* The queue: its actions. *)

LEMMA InitQueueInv == Q!Init => QueueInv
<1>1. Q!Init => Q!TypeOK /\ HasNewest /\ HandsRight
  BY QueueAssumption
  DEF Q!Init, Q!TypeOK, HasNewest, HandsRight, Q!NoRow, Q!IdleWorker, Q!ItemRow,
      Q!WorkerState, Q!Status
<1>2. Q!Init => LeaseCounted /\ trouble <= MaxTrouble
  BY QueueAssumption DEF Q!Init, Q!NoRow, LeaseCounted
<1>3. QED
  BY <1>1, <1>2 DEF QueueInv

LEMMA AppendKeeps ==
  ASSUME QueueInv, NEW w \in Worker, Q!Append(w)
  PROVE  QueueInv'
<1>1. PICK i \in Q!InHand(w) :
        readings' = [readings EXCEPT ![i] = @ + 1] /\ Q!GoTo(w, "complete", i)
  BY DEF Q!Append, Q!NextInHand
<1>2. i \in Item /\ UNCHANGED <<item, filed, open, trouble>>
  BY DEF Q!InHand, Q!Append
<1>3. Q!TypeOK'
  BY <1>1, <1>2, GoToEffect DEF QueueInv, Q!TypeOK
<1>4. RowsKeep /\ OnlyCloses(i)
  BY <1>2 DEF RowsKeep, OnlyCloses, QueueInv, Q!TypeOK
<1>5. trouble' \in {trouble, trouble + 1} /\ trouble' <= MaxTrouble
  BY <1>2 DEF QueueInv
<1>6. QED
  BY <1>1, <1>3, <1>4, <1>5, GoToKeeps

LEMMA AppendFailsKeeps ==
  ASSUME QueueInv, NEW w \in Worker, Q!AppendFails(w)
  PROVE  QueueInv'
<1>1. PICK i \in Q!InHand(w) : Q!GoTo(w, "fail", i)
  BY DEF Q!AppendFails, Q!NextInHand
<1>2. i \in Item /\ UNCHANGED <<item, readings, filed, open, trouble>>
  BY DEF Q!InHand, Q!AppendFails
<1>3. Q!TypeOK'
  BY <1>1, <1>2, GoToEffect DEF QueueInv, Q!TypeOK
<1>4. RowsKeep /\ OnlyCloses(i)
  BY <1>2 DEF RowsKeep, OnlyCloses, QueueInv, Q!TypeOK
<1>5. trouble' \in {trouble, trouble + 1} /\ trouble' <= MaxTrouble
  BY <1>2 DEF QueueInv
<1>6. QED
  BY <1>1, <1>3, <1>4, <1>5, GoToKeeps

(* What a worker's UPDATE of one row leaves. *)
LEMMA CloseRow ==
  ASSUME QueueInv, NEW i \in Item, NEW s \in {"done", "failed"},
         item' = [item EXCEPT ![i].status = s] \/ item' = item
  PROVE  RowsKeep /\ OnlyCloses(i)
<1>1. item \in [Item -> Q!ItemRow]
  BY DEF QueueInv, Q!TypeOK
<1>2. CASE item' = item
  BY <1>1, <1>2 DEF RowsKeep, OnlyCloses
<1>3. CASE item' = [item EXCEPT ![i].status = s]
  <2> DEFINE r == [item[i] EXCEPT !.status = s]
  <2>1. item' = [item EXCEPT ![i] = r]
    BY <1>3
  <2>2. /\ r \in Q!ItemRow /\ r.status = s /\ r.created = item[i].created
        /\ r.attempts = item[i].attempts /\ r.left = item[i].left
    BY <1>1 DEF Q!ItemRow, Q!Status
  <2> HIDE DEF r
  <2>3. item' \in [Item -> Q!ItemRow] /\ item'[i] = r /\ \A j \in Item : j # i => item'[j] = item[j]
    BY <1>1, <2>1, <2>2
  <2>4. QED
    BY <2>2, <2>3 DEF RowsKeep, OnlyCloses
<1>4. QED
  BY <1>2, <1>3

LEMMA CompleteKeeps ==
  ASSUME QueueInv, NEW w \in Worker, Q!Complete(w) \/ Q!CompleteErrs(w)
  PROVE  QueueInv'
<1>1. worker[w].pc # "next" /\ worker[w].at \in Item /\ Q!Drop(w)
      /\ UNCHANGED <<readings, filed, open>>
  BY DEF Q!Complete, Q!CompleteErrs, QueueInv, HandsRight, Q!InHand
<1>2. item' = [item EXCEPT ![worker[w].at].status = "done"] \/ item' = item
  BY DEF Q!Complete, Q!CompleteErrs
<1>3. RowsKeep /\ OnlyCloses(worker[w].at)
  BY <1>1, <1>2, CloseRow
<1>4. trouble' \in {trouble, trouble + 1} /\ trouble' <= MaxTrouble /\ trouble' \in Nat
  BY QueueAssumption DEF Q!Complete, Q!CompleteErrs, Q!Trouble, QueueInv, Q!TypeOK
<1>5. trouble' = trouble + 1 \/ item'[worker[w].at].status # "leased"
  <2>1. CASE Q!Complete(w)
    BY <1>1, <2>1 DEF Q!Complete, QueueInv, Q!TypeOK, Q!ItemRow
  <2>2. CASE Q!CompleteErrs(w)
    BY <2>2 DEF Q!CompleteErrs, Q!Trouble
  <2>3. QED
    BY <2>1, <2>2
<1>6. worker' \in [Worker -> Q!WorkerState]
  BY <1>1, DropEffect DEF QueueInv
<1>7. Q!TypeOK'
  BY <1>1, <1>3, <1>4, <1>6 DEF QueueInv, Q!TypeOK, RowsKeep
<1>8. QED
  BY <1>1, <1>3, <1>4, <1>5, <1>7, DropKeeps

LEMMA FailKeeps ==
  ASSUME QueueInv, NEW w \in Worker, Q!Fail(w)
  PROVE  QueueInv'
<1>1. worker[w].pc = "fail" /\ worker[w].at \in Q!InHand(w) /\ worker[w].at \in Item
      /\ UNCHANGED <<readings, filed, open>>
  BY DEF Q!Fail, QueueInv, HandsRight, Q!InHand
<1>2. item' = [item EXCEPT ![worker[w].at].status = "failed"] \/ item' = item
  BY DEF Q!Fail
<1>3. RowsKeep /\ OnlyCloses(worker[w].at)
  BY <1>1, <1>2, CloseRow
<1>4. trouble' \in {trouble, trouble + 1} /\ trouble' <= MaxTrouble /\ trouble' \in Nat
  BY QueueAssumption DEF Q!Fail, Q!Trouble, QueueInv, Q!TypeOK
<1>5. trouble' = trouble + 1 \/ item'[worker[w].at].status # "leased"
  BY <1>1 DEF Q!Fail, Q!Trouble, QueueInv, Q!TypeOK, Q!ItemRow
<1>6. CASE Q!Exhausted(w)
  <2>1. Q!GoTo(w, "bury", worker[w].at)
    BY <1>6 DEF Q!Fail
  <2>2. Q!TypeOK'
    BY <1>1, <1>3, <1>4, <2>1, GoToEffect DEF QueueInv, Q!TypeOK, RowsKeep
  <2>3. QED
    BY <1>1, <1>3, <1>4, <1>5, <2>1, <2>2, GoToKeeps
<1>7. CASE ~Q!Exhausted(w)
  <2>1. Q!Drop(w)
    BY <1>7 DEF Q!Fail
  <2>2. Q!TypeOK'
    BY <1>1, <1>3, <1>4, <2>1, DropEffect DEF QueueInv, Q!TypeOK, RowsKeep
  <2>3. QED
    BY <1>1, <1>3, <1>4, <1>5, <2>1, <2>2, DropKeeps
<1>8. QED
  BY <1>6, <1>7

LEMMA BuryKeeps ==
  ASSUME QueueInv, NEW w \in Worker, Q!Bury(w)
  PROVE  QueueInv'
<1>1. worker[w].pc = "bury" /\ worker[w].at \in Item /\ Q!Drop(w) /\ UNCHANGED <<item, readings>>
  BY DEF Q!Bury, QueueInv, HandsRight, Q!InHand
<1>2. /\ filed' \in [Item -> Nat] /\ open' \in [Item -> Nat] /\ trouble' \in Nat
      /\ trouble' \in {trouble, trouble + 1} /\ trouble' <= MaxTrouble
  BY <1>1, QueueAssumption DEF Q!Bury, Q!Trouble, QueueInv, Q!TypeOK
<1>3. Q!TypeOK'
  BY <1>1, <1>2, DropEffect DEF QueueInv, Q!TypeOK
<1>4. RowsKeep /\ OnlyCloses(worker[w].at)
  BY <1>1, <1>3 DEF RowsKeep, OnlyCloses, Q!TypeOK
<1>5. QED
  BY <1>1, <1>2, <1>3, <1>4, DropKeeps

LEMMA CrashKeepsQueue ==
  ASSUME QueueInv, NEW w \in Worker, Q!Crash(w)
  PROVE  QueueInv'
<1>1. Q!IdleWorker \in Q!WorkerState
  BY DEF Q!IdleWorker, Q!WorkerState
<1>2. worker' = [worker EXCEPT ![w] = Q!IdleWorker] /\ UNCHANGED <<item, readings, filed, open>>
      /\ trouble' = trouble + 1 /\ trouble < MaxTrouble
  BY DEF Q!Crash, Q!Trouble
<1>3. Q!TypeOK'
  BY <1>1, <1>2 DEF QueueInv, Q!TypeOK
<1>4. HasNewest'
  BY <1>2 DEF QueueInv, HasNewest
<1>5. HandsRight'
  BY <1>2 DEF Q!IdleWorker, QueueInv, Q!TypeOK, Q!ItemRow, HandsRight, Q!InHand
<1>6. LeaseCounted' /\ trouble' <= MaxTrouble
  BY <1>2, QueueAssumption DEF QueueInv, LeaseCounted, Q!TypeOK, Q!ItemRow
<1>7. QED
  BY <1>3, <1>4, <1>5, <1>6 DEF QueueInv

LEMMA EnqueueKeeps ==
  ASSUME QueueInv, NEW i \in Item, Q!Enqueue(i)
  PROVE  QueueInv'
<1>1. PICK n \in Item : \A j \in Item : item[j].created <= item[n].created
  BY DEF QueueInv, HasNewest
<1>2. Q!Newest \in Nat /\ \A j \in Item : item[j].created <= Q!Newest
  <2>1. \E m \in {item[j].created : j \in Item} : \A j \in Item : item[j].created <= m
    BY <1>1
  <2>2. Q!Newest \in {item[j].created : j \in Item} /\ \A j \in Item : item[j].created <= Q!Newest
    BY <2>1 DEF Q!Newest
  <2>3. QED
    BY <2>2 DEF QueueInv, Q!TypeOK, Q!ItemRow
<1>3. PICK t \in {Q!Newest, Q!Newest + 1} :
        item' = [item EXCEPT ![i].status = "pending", ![i].created = t]
  BY DEF Q!Enqueue
<1>4. t \in Nat /\ \A j \in Item : item[j].created <= t
  BY <1>2 DEF QueueInv, Q!TypeOK, Q!ItemRow
<1>5. /\ item' \in [Item -> Q!ItemRow]
      /\ item'[i].created = t
      /\ item'[i].attempts = item[i].attempts
      /\ \A j \in Item : j # i => item'[j] = item[j]
  BY <1>3, <1>4 DEF QueueInv, Q!TypeOK, Q!ItemRow, Q!Status
<1>6. Q!TypeOK'
  BY <1>5 DEF Q!Enqueue, QueueInv, Q!TypeOK
<1>7. HasNewest'
  BY <1>4, <1>5 DEF HasNewest
<1>8. HandsRight'
  BY <1>5 DEF Q!Enqueue, QueueInv, HandsRight, Q!InHand
<1>9. LeaseCounted' /\ trouble' <= MaxTrouble
  <2>1. item[i].status = "absent" /\ item'[i].status = "pending" /\ UNCHANGED <<worker, trouble>>
    BY <1>3 DEF Q!Enqueue, QueueInv, Q!TypeOK, Q!ItemRow
  <2>2. item[i].attempts = 0 /\ trouble \in Nat
    BY <2>1 DEF QueueInv, LeaseCounted, Q!TypeOK
  <2>3. QED
    BY <1>5, <2>1, <2>2 DEF QueueInv, LeaseCounted, Running, Q!Expired
<1>10. QED
  BY <1>6, <1>7, <1>8, <1>9 DEF QueueInv

(* A lease has the next number, in the row as in the worker's copy. *)
LEMMA LeaseEffect ==
  ASSUME Q!TypeOK, NEW w \in Worker, Q!LeaseBatch(w)
  PROVE  \E T \in SUBSET Item :
           /\ item' \in [Item -> Q!ItemRow] /\ worker' \in [Worker -> Q!WorkerState]
           /\ \A i \in T : /\ Q!Eligible(i)
                           /\ item'[i].status = "leased" /\ item'[i].left = TTL
                           /\ item'[i].attempts = item[i].attempts + 1
                           /\ item'[i].created = item[i].created
                           /\ worker'[w].batch[i] = item[i].attempts + 1
           /\ \A i \in Item \ T : item'[i] = item[i] /\ worker'[w].batch[i] = 0
           /\ worker'[w].pc = "next"
           /\ \A v \in Worker : v # w => worker'[v] = worker[v]
<1>1. PICK T \in SUBSET {i \in Item : Q!Eligible(i)} :
        /\ item' = [i \in Item |->
                      IF i \notin T THEN item[i]
                      ELSE [item[i] EXCEPT !.status = "leased", !.left = TTL,
                                           !.attempts = @ + 1]]
        /\ worker' = [worker EXCEPT ![w].batch =
                        [i \in Item |-> IF i \in T THEN item[i].attempts + 1 ELSE 0]]
  BY DEF Q!LeaseBatch, Q!Oldest
<1>2. item' \in [Item -> Q!ItemRow]
  <2>1. SUFFICES ASSUME NEW i \in Item
                 PROVE  [item[i] EXCEPT !.status = "leased", !.left = TTL, !.attempts = @ + 1]
                          \in Q!ItemRow
    BY <1>1 DEF Q!TypeOK
  <2>2. item[i] \in Q!ItemRow /\ TTL \in -1..TTL /\ "leased" \in Q!Status
    BY QueueAssumption DEF Q!TypeOK, Q!Status
  <2>3. item[i].attempts + 1 \in Nat
    BY <2>2 DEF Q!ItemRow
  <2>4. QED
    BY <2>2, <2>3, Zenon DEF Q!ItemRow
<1>3. worker' \in [Worker -> Q!WorkerState]
  <2> DEFINE b == [i \in Item |-> IF i \in T THEN item[i].attempts + 1 ELSE 0]
  <2>1. b \in [Item -> Nat]
    BY DEF Q!TypeOK, Q!ItemRow
  <2>2. worker' = [worker EXCEPT ![w].batch = b]
    BY <1>1
  <2> HIDE DEF b
  <2>3. QED
    BY <2>1, <2>2 DEF Q!TypeOK, Q!WorkerState
<1>4. \A i \in T : /\ Q!Eligible(i)
                   /\ item'[i].status = "leased" /\ item'[i].left = TTL
                   /\ item'[i].attempts = item[i].attempts + 1
                   /\ item'[i].created = item[i].created
  BY <1>1 DEF Q!TypeOK, Q!ItemRow
<1>5. worker'[w].batch = [i \in Item |-> IF i \in T THEN item[i].attempts + 1 ELSE 0]
      /\ worker'[w].pc = worker[w].pc
      /\ \A v \in Worker : v # w => worker'[v] = worker[v]
  BY <1>1 DEF Q!TypeOK, Q!WorkerState
<1>6. worker[w].pc = "next"
  BY DEF Q!LeaseBatch, Q!Idle
<1>7. /\ \A i \in T : worker'[w].batch[i] = item[i].attempts + 1
      /\ \A i \in Item \ T : item'[i] = item[i] /\ worker'[w].batch[i] = 0
  BY <1>1, <1>5
<1>8. WITNESS T \in SUBSET Item
<1>9. QED
  BY <1>2, <1>3, <1>4, <1>5, <1>6, <1>7

(* The lease that is given out has been troubled for, or is the first. *)
LEMMA LeaseKeeps ==
  ASSUME QueueInv, NEW w \in Worker, Q!LeaseBatch(w)
  PROVE  QueueInv'
<1>1. PICK T \in SUBSET Item :
        /\ item' \in [Item -> Q!ItemRow] /\ worker' \in [Worker -> Q!WorkerState]
        /\ \A i \in T : /\ Q!Eligible(i)
                        /\ item'[i].status = "leased" /\ item'[i].left = TTL
                        /\ item'[i].attempts = item[i].attempts + 1
                        /\ item'[i].created = item[i].created
                        /\ worker'[w].batch[i] = item[i].attempts + 1
        /\ \A i \in Item \ T : item'[i] = item[i] /\ worker'[w].batch[i] = 0
        /\ worker'[w].pc = "next"
        /\ \A v \in Worker : v # w => worker'[v] = worker[v]
  BY LeaseEffect DEF QueueInv
<1>2. /\ \A i \in Item : item[i].attempts \in Nat /\ worker[w].batch[i] = 0
      /\ trouble \in Nat /\ UNCHANGED <<readings, filed, open, trouble>>
  BY DEF QueueInv, Q!TypeOK, Q!ItemRow, Q!LeaseBatch, Q!Idle, Q!InHand
<1>3. \A i \in Item : /\ item'[i].created = item[i].created
                      /\ item'[i].attempts \in Nat
                      /\ item[i].attempts <= item'[i].attempts
                      /\ worker'[w].batch[i] <= item'[i].attempts
  BY <1>1, <1>2
<1>4. Q!TypeOK'
  BY <1>1, <1>2 DEF QueueInv, Q!TypeOK
<1>5. HasNewest'
  BY <1>3 DEF QueueInv, HasNewest
<1>6. HandsRight'
  <2>1. ASSUME NEW v \in Worker, v # w
        PROVE  \A i \in Item : worker'[v].batch[i] <= item'[i].attempts
    BY <1>1, <1>2, <1>3, <2>1 DEF QueueInv, HandsRight, Q!TypeOK, Q!WorkerState
  <2>2. QED
    BY <1>1, <1>3, <2>1 DEF QueueInv, HandsRight, Q!InHand
<1>7. ASSUME NEW i \in Item
      PROVE  /\ item'[i].attempts <= trouble + 1
             /\ item'[i].status = "absent" => item'[i].attempts = 0
             /\ item'[i].status = "pending" => item'[i].attempts <= trouble
             /\ item'[i].status = "leased" => item'[i].attempts <= trouble \/ Running(i)'
  <2>1. /\ item[i].attempts <= trouble + 1
        /\ item[i].status = "absent" => item[i].attempts = 0
        /\ item[i].status = "pending" => item[i].attempts <= trouble
        /\ item[i].status = "leased" => item[i].attempts <= trouble \/ Running(i)
    BY DEF QueueInv, LeaseCounted
  <2>2. CASE i \in T
    <3>1. item[i].attempts <= trouble
      BY <1>1, <2>1, <2>2 DEF Q!Eligible, Running
    <3>2. Running(i)'
      BY <1>1, <2>2, QueueAssumption DEF Running, Q!Expired
    <3>3. QED
      BY <1>1, <1>2, <2>2, <3>1, <3>2
  <2>3. CASE i \notin T
    <3>1. item'[i] = item[i]
      BY <1>1, <2>3
    <3>2. ASSUME Running(i), item[i].attempts # 0 PROVE Running(i)'
      <4>1. PICK v \in Worker : /\ worker[v].batch[i] = item[i].attempts
                               /\ ~(worker[v].pc = "bury" /\ worker[v].at = i)
        BY <3>2 DEF Running
      <4>2. v # w
        BY <1>2, <3>2, <4>1
      <4>3. QED
        BY <1>1, <3>1, <3>2, <4>1, <4>2 DEF Running, Q!Expired
    <3>3. QED
      BY <1>2, <2>1, <3>1, <3>2
  <2>4. QED
    BY <2>2, <2>3
<1>8. LeaseCounted' /\ trouble' <= MaxTrouble
  BY <1>2, <1>7 DEF QueueInv, LeaseCounted
<1>9. QED
  BY <1>4, <1>5, <1>6, <1>8 DEF QueueInv

(* The reaper, the operator and the clock leave the workers alone. *)
LEMMA OutsideKeeps ==
  ASSUME QueueInv, UNCHANGED worker, Q!TypeOK', RowsKeep
  PROVE  HasNewest' /\ HandsRight'
BY DEF QueueInv, HasNewest, HandsRight, Q!InHand, RowsKeep

LEMMA ReclaimKeeps ==
  ASSUME QueueInv, Q!ReclaimExpired
  PROVE  QueueInv'
<1>1. item' = [j \in Item |->
                 IF item[j].status = "leased" /\ Q!Expired(j)
                 THEN [item[j] EXCEPT !.status = "pending", !.left = -1] ELSE item[j]]
  BY DEF Q!ReclaimExpired
<1>2. ASSUME NEW j \in Item
      PROVE  /\ item'[j] \in Q!ItemRow
             /\ item'[j].created = item[j].created
             /\ item'[j].attempts = item[j].attempts
             /\ \/ item'[j] = item[j]
                \/ item[j].status = "leased" /\ Q!Expired(j) /\ item'[j].status = "pending"
  <2>1. item[j] \in Q!ItemRow /\ -1 \in -1..TTL /\ "pending" \in Q!Status
    BY QueueAssumption DEF QueueInv, Q!TypeOK, Q!Status
  <2>2. [item[j] EXCEPT !.status = "pending", !.left = -1] \in Q!ItemRow
    BY <2>1, Zenon DEF Q!ItemRow
  <2>3. QED
    BY <1>1, <2>1, <2>2 DEF Q!ItemRow
<1>3. RowsKeep
  BY <1>1, <1>2 DEF RowsKeep
<1>4. Q!TypeOK'
  BY <1>3 DEF Q!ReclaimExpired, QueueInv, Q!TypeOK, RowsKeep
<1>5. LeaseCounted' /\ trouble' <= MaxTrouble
  <2>1. UNCHANGED <<worker, trouble>>
    BY DEF Q!ReclaimExpired
  <2>2. \A j \in Item : Running(j) /\ item'[j] = item[j] => Running(j)'
    BY <2>1 DEF Running, Q!Expired
  <2>3. QED
    BY <1>2, <2>1, <2>2 DEF QueueInv, LeaseCounted, Running
<1>6. QED
  BY <1>3, <1>4, <1>5, OutsideKeeps DEF Q!ReclaimExpired, QueueInv

LEMMA RequeueKeeps ==
  ASSUME QueueInv, NEW i \in Item, Q!Requeue(i)
  PROVE  QueueInv'
<1>1. RowsKeep
  <2>1. item[i] \in Q!ItemRow /\ "pending" \in Q!Status /\ -1 \in -1..TTL
    BY QueueAssumption DEF QueueInv, Q!TypeOK, Q!Status
  <2>2. [item[i] EXCEPT !.status = "pending", !.left = -1] \in Q!ItemRow
    BY <2>1, Zenon DEF Q!ItemRow
  <2>3. item' = [item EXCEPT ![i] = [item[i] EXCEPT !.status = "pending", !.left = -1]]
    BY DEF Q!Requeue, QueueInv, Q!TypeOK
  <2>4. QED
    BY <2>1, <2>2, <2>3 DEF QueueInv, Q!TypeOK, Q!ItemRow, RowsKeep
<1>2. Q!TypeOK'
  BY <1>1 DEF Q!Requeue, Q!Trouble, QueueInv, Q!TypeOK, RowsKeep
<1>3. LeaseCounted' /\ trouble' <= MaxTrouble
  <2>1. trouble' = trouble + 1 /\ trouble < MaxTrouble /\ trouble \in Nat /\ MaxTrouble \in Nat
    BY QueueAssumption DEF Q!Requeue, Q!Trouble, QueueInv, Q!TypeOK
  <2>2. \A j \in Item : item[j].attempts \in Nat /\ item'[j].attempts = item[j].attempts
                        /\ item[j].attempts <= trouble + 1
                        /\ (item'[j].status = "absent" => item[j].attempts = 0)
    BY DEF Q!Requeue, QueueInv, LeaseCounted, Q!TypeOK, Q!ItemRow
  <2>3. QED
    BY <2>1, <2>2 DEF LeaseCounted
<1>4. QED
  BY <1>1, <1>2, <1>3, OutsideKeeps DEF Q!Requeue, QueueInv

LEMMA ResolveKeeps ==
  ASSUME QueueInv, NEW i \in Item, Q!ResolveFailure(i)
  PROVE  QueueInv'
<1>1. Q!TypeOK' /\ UNCHANGED <<item, worker, trouble>>
  BY DEF Q!ResolveFailure, QueueInv, Q!TypeOK
<1>2. QED
  BY <1>1 DEF QueueInv, HasNewest, HandsRight, Q!InHand, LeaseCounted, Running, Q!Expired

LEMMA TickKeeps ==
  ASSUME QueueInv, Q!Tick
  PROVE  QueueInv'
<1>1. item' = [j \in Item |->
                 IF Q!Expired(j) THEN item[j] ELSE [item[j] EXCEPT !.left = @ - 1]]
  BY DEF Q!Tick
<1>2. ASSUME NEW j \in Item
      PROVE  /\ item'[j] \in Q!ItemRow
             /\ item'[j].created = item[j].created
             /\ item'[j].attempts = item[j].attempts
             /\ item'[j].status = item[j].status
             /\ Q!Expired(j)' => item[j].left <= 0
  <2>1. item[j] \in Q!ItemRow
    BY DEF QueueInv, Q!TypeOK
  <2>2. CASE Q!Expired(j)
    BY <1>1, <2>1, <2>2 DEF Q!Expired, Q!ItemRow
  <2>3. CASE ~Q!Expired(j)
    <3>1. item'[j] = [item[j] EXCEPT !.left = item[j].left - 1]
      BY <1>1, <2>3
    <3>2. item[j].left \in Int /\ item[j].left - 1 \in -1..TTL
      BY <2>1, <2>3, QueueAssumption DEF Q!ItemRow, Q!Expired
    <3>3. item'[j] \in Q!ItemRow
      BY <2>1, <3>1, <3>2, Zenon DEF Q!ItemRow
    <3>4. QED
      BY <2>1, <3>1, <3>2, <3>3 DEF Q!ItemRow, Q!Expired
  <2>4. QED
    BY <2>2, <2>3
<1>3. RowsKeep
  BY <1>1, <1>2 DEF RowsKeep
<1>4. Q!TypeOK'
  BY <1>3 DEF Q!Tick, Q!Trouble, QueueInv, Q!TypeOK, RowsKeep
<1>5. LeaseCounted' /\ trouble' <= MaxTrouble
  <2>1. \A j \in Item : item[j].attempts \in Nat /\ item[j].left \in Int
    BY DEF QueueInv, Q!TypeOK, Q!ItemRow
  <2>2. trouble \in Nat /\ MaxTrouble \in Nat /\ UNCHANGED worker
    BY QueueAssumption DEF QueueInv, Q!TypeOK, Q!Tick
  <2>3. CASE trouble' = trouble + 1 /\ trouble < MaxTrouble
    BY <1>2, <2>1, <2>2, <2>3 DEF QueueInv, LeaseCounted
  <2>4. CASE trouble' = trouble /\ \A w \in Worker : ~Q!Stalled(w)
    <3>1. ASSUME NEW j \in Item, Running(j), item[j].status = "leased", item[j].attempts # 0
          PROVE  Running(j)'
      <4>1. PICK v \in Worker : /\ worker[v].batch[j] = item[j].attempts
                               /\ ~(worker[v].pc = "bury" /\ worker[v].at = j)
        BY <3>1 DEF Running
      <4>2. item[j].left # 0
        BY <2>4, <3>1, <4>1 DEF Q!Stalled, Q!InHand
      <4>3. ~Q!Expired(j)'
        BY <1>2, <2>1, <3>1, <4>2 DEF Running, Q!Expired
      <4>4. QED
        BY <1>2, <2>2, <4>1, <4>3 DEF Running
    <3>2. QED
      BY <1>2, <2>1, <2>2, <2>4, <3>1 DEF QueueInv, LeaseCounted
  <2>5. QED
    BY <2>3, <2>4 DEF Q!Tick, Q!Trouble
<1>6. QED
  BY <1>3, <1>4, <1>5, OutsideKeeps DEF Q!Tick, QueueInv

LEMMA NextQueueInv ==
  ASSUME QueueInv, [Q!Next]_(Q!vars)
  PROVE  QueueInv'
<1>1. CASE UNCHANGED Q!vars
  BY <1>1 DEF Q!vars, QueueInv, Q!TypeOK, HasNewest, HandsRight, Q!InHand, LeaseCounted,
              Running, Q!Expired
<1>2. CASE Q!Next
  BY <1>2, EnqueueKeeps, RequeueKeeps, ResolveKeeps, LeaseKeeps, AppendKeeps, AppendFailsKeeps,
     CompleteKeeps, FailKeeps, BuryKeeps, CrashKeepsQueue, ReclaimKeeps, TickKeeps
  DEF Q!Next, Q!Process
<1>3. QED
  BY <1>1, <1>2

----------------------------------------------------------------------------
(* The store: files and the append under way. *)

LEMMA Grown ==
  ASSUME NEW f \in Seq(S!Line), NEW l \in S!Line
  PROVE  /\ Append(f, l) \in Seq(S!Line) /\ Len(Append(f, l)) = Len(f) + 1
         /\ Append(f, l)[Len(f) + 1] = l
         /\ \A n \in 1..Len(f) : Append(f, l)[n] = f[n]
OBVIOUS

LEMMA Cut ==
  ASSUME NEW f \in Seq(S!Line), NEW k \in 0..Len(f)
  PROVE  /\ SubSeq(f, 1, k) \in Seq(S!Line) /\ Len(SubSeq(f, 1, k)) = k
         /\ \A n \in 1..k : SubSeq(f, 1, k)[n] = f[n]
OBVIOUS

(* The lines that stay do, and before the first trouble they stay as many. *)
Steady ==
  /\ Base' >= Base /\ \A n \in 1..Base : file'[n] = file[n]
  /\ faults' = 0 => faults = 0 /\ Base' = Base

LEMMA HolderFacts ==
  ASSUME StoreInv, NEW w \in Worker, Active(w)
  PROVE  /\ mu = w /\ mu # None /\ \A v \in Worker : v # w => ~Active(v)
         /\ Placed(w)
         /\ app[w] \in S!AppState /\ app[w].size \in Nat /\ app[w].lineNo \in Nat
         /\ app[w].id \in Reading /\ app[w].torn \in S!Line \cup {None}
         /\ file \in Seq(S!Line) /\ Len(file) \in Nat /\ app[w].size \in 0..Len(file)
         /\ OwnLine(w) \in S!Line /\ Base = app[w].size
         /\ intact /\ mode # "stopping" => app[w].lineNo = app[w].size
<1>1. mu = w /\ mu # None /\ (\A v \in Worker : v # w => ~Active(v)) /\ app[w].id # None
  BY StoreAssumption DEF StoreInv, Holding
<1>2. /\ app[w] \in S!AppState /\ app[w].size \in Nat /\ app[w].lineNo \in Nat
      /\ app[w].torn \in S!Line \cup {None} /\ file \in Seq(S!Line) /\ Len(file) \in Nat
      /\ app[w].id \in Reading \cup {None}
  BY DEF StoreInv, S!TypeOK, S!AppState
<1>3. Placed(w) /\ Len(file) \in {app[w].size, app[w].size + 1}
  BY DEF StoreInv, Placed
<1>4. app[w].size \in 0..Len(file)
  BY <1>2, <1>3
<1>5. OwnLine(w) \in S!Line
  BY <1>1, <1>2 DEF OwnLine, S!Line
<1>6. intact /\ mode # "stopping" => app[w].lineNo = app[w].size
  BY DEF StoreInv, CountRight
<1>7. Base = app[w].size
  BY <1>1 DEF Base
<1>8. QED
  BY <1>1, <1>2, <1>3, <1>4, <1>5, <1>6, <1>7

(* The append goes on, holding the lock. *)
GoesOn(w, pc) ==
  /\ mu' = mu /\ app' = [app EXCEPT ![w].pc = pc]
  /\ UNCHANGED <<mode, index, manifest, conn, req, intact, faults>>

LEMMA GoesOnFacts ==
  ASSUME StoreInv, NEW w \in Worker, Active(w), NEW pc \in {"begun", "written", "rollback"},
         GoesOn(w, pc)
  PROVE  /\ app' \in [Worker -> S!AppState] /\ Holding'
         /\ app'[w].pc = pc /\ app'[w].id = app[w].id /\ app'[w].lineNo = app[w].lineNo
         /\ app'[w].size = app[w].size /\ app'[w].torn = app[w].torn
         /\ OwnLine(w)' = OwnLine(w)
         /\ \A v \in Worker : (Active(v)' <=> v = w) /\ (v # w => app'[v] = app[v])
<1> DEFINE k == [app[w] EXCEPT !.pc = pc]
<1>1. app[w] \in S!AppState /\ app \in [Worker -> S!AppState] /\ mu = w
      /\ app[w].id \in Reading /\ \A v \in Worker : v # w => ~Active(v)
  BY HolderFacts DEF StoreInv, S!TypeOK
<1>2. k \in S!AppState
  BY <1>1, Zenon DEF S!AppState
<1>3. /\ k.pc = pc /\ k.id = app[w].id /\ k.lineNo = app[w].lineNo
      /\ k.size = app[w].size /\ k.torn = app[w].torn
  BY <1>1 DEF S!AppState
<1>4. app' = [app EXCEPT ![w] = k]
  BY <1>1 DEF GoesOn
<1> HIDE DEF k
<1>5. /\ app' \in [Worker -> S!AppState] /\ app'[w] = k
      /\ \A v \in Worker : v # w => app'[v] = app[v]
  BY <1>1, <1>2, <1>4
<1>6. \A v \in Worker : Active(v)' <=> v = w
  BY <1>1, <1>3, <1>5 DEF Active
<1>7. app[w].id # None
  BY <1>1, StoreAssumption
<1>8. Holding'
  BY <1>1, <1>3, <1>5, <1>6, <1>7 DEF StoreInv, Holding, GoesOn
<1>9. QED
  BY <1>3, <1>5, <1>6, <1>8 DEF OwnLine

(* The append has ended and leaves the lock. *)
Leaves(w) == mu' = None /\ app' = [app EXCEPT ![w] = S!NoAppend]

LEMMA LeavesFacts ==
  ASSUME StoreInv, NEW w \in Worker, Active(w), Leaves(w)
  PROVE  /\ app' \in [Worker -> S!AppState] /\ Holding'
         /\ (\A v \in Worker : ~Active(v)') /\ Base' = Len(file')
<1>1. app \in [Worker -> S!AppState] /\ \A v \in Worker : v # w => ~Active(v)
  BY HolderFacts DEF StoreInv, S!TypeOK
<1>2. S!NoAppend \in S!AppState /\ S!NoAppend.pc = "idle" /\ S!NoAppend.id = None
  BY DEF S!NoAppend, S!AppState
<1>3. app' \in [Worker -> S!AppState] /\ \A v \in Worker : ~Active(v)'
  BY <1>1, <1>2 DEF Leaves, Active
<1>4. Holding'
  BY <1>1, <1>2, <1>3, StoreAssumption DEF StoreInv, Holding, Leaves
<1>5. QED
  BY <1>3, <1>4 DEF Leaves, Base

(* Its own line has been written, after what was torn. *)
Writes(w) ==
  /\ app[w].pc = "begun"
  /\ file' = Append(file, S!Merged(app[w].id)) /\ torn' = None

LEMMA WritesFacts ==
  ASSUME StoreInv, NEW w \in Worker, Active(w), Writes(w)
  PROVE  /\ file' \in Seq(S!Line) /\ Len(file') = app[w].size + 1
         /\ file'[Len(file')] = OwnLine(w) /\ torn' = None
         /\ \A n \in 1..app[w].size : file'[n] = file[n]
         /\ Len(file) = app[w].size /\ torn = app[w].torn
<1>1. /\ file \in Seq(S!Line) /\ Len(file) \in Nat /\ OwnLine(w) \in S!Line
      /\ torn = app[w].torn /\ Len(file) = app[w].size
  BY HolderFacts DEF Placed, Writes
<1>2. file' = Append(file, OwnLine(w)) /\ torn' = None
  BY <1>1 DEF Writes, S!Merged, OwnLine
<1>3. QED
  BY <1>1, <1>2, Grown

(* What is left to show when an append goes on. *)
LEMMA AfterGoing ==
  ASSUME StoreInv, NEW w \in Worker, Active(w), NEW pc \in {"begun", "written", "rollback"},
         GoesOn(w, pc), file' \in Seq(S!Line), torn' \in S!Line \cup {None},
         counts' \in Nat \cup {-1},
         \A n \in 1..app[w].size : file'[n] = file[n],
         Placed(w)', pc = "written" /\ intact /\ mode # "stopping" => counts' = Len(file')
  PROVE  StoreInv' /\ Steady
<1>1. /\ app' \in [Worker -> S!AppState] /\ Holding'
      /\ app'[w].pc = pc /\ app'[w].lineNo = app[w].lineNo
      /\ app'[w].size = app[w].size /\ app'[w].torn = app[w].torn
      /\ \A v \in Worker : Active(v)' <=> v = w
  BY GoesOnFacts
<1>2. /\ mu = w /\ mu # None /\ app[w].size \in Nat /\ Base = app[w].size
      /\ intact /\ mode # "stopping" => app[w].lineNo = app[w].size
  BY HolderFacts
<1>3. S!TypeOK'
  BY <1>1 DEF StoreInv, S!TypeOK, GoesOn
<1>4. CountRight'
  BY <1>1, <1>2 DEF CountRight, GoesOn
<1>5. Untroubled'
  BY <1>1, <1>2 DEF StoreInv, Untroubled, GoesOn
<1>6. \A v \in Worker : Active(v)' => Placed(v)'
  BY <1>1
<1>7. Base' = Base
  BY <1>1, <1>2 DEF Base, GoesOn
<1>8. Steady
  BY <1>2, <1>7 DEF Steady, GoesOn
<1>9. QED
  BY <1>1, <1>3, <1>4, <1>5, <1>6, <1>8 DEF StoreInv

----------------------------------------------------------------------------
(* The store: its actions. *)

LEMMA AppendLineKeeps ==
  ASSUME StoreInv, NEW w \in Worker, S!AppendLine(w)
  PROVE  StoreInv' /\ Steady
<1>1. /\ Active(w) /\ Writes(w) /\ GoesOn(w, "written")
      /\ mode # "stopping" /\ counts' = app[w].lineNo + 1
  BY DEF S!AppendLine, Active, Writes, GoesOn, S!table, S!locks, S!bound
<1>2. /\ file' \in Seq(S!Line) /\ Len(file') = app[w].size + 1
      /\ file'[Len(file')] = OwnLine(w) /\ torn' = None
      /\ \A n \in 1..app[w].size : file'[n] = file[n]
  BY <1>1, WritesFacts
<1>3. app[w].lineNo \in Nat /\ (intact => app[w].lineNo = app[w].size)
  BY <1>1, HolderFacts
<1>4. app'[w].pc = "written" /\ app'[w].size = app[w].size /\ OwnLine(w)' = OwnLine(w)
  BY <1>1, GoesOnFacts
<1>5. Placed(w)'
  BY <1>2, <1>4 DEF Placed
<1>6. torn' \in S!Line \cup {None} /\ counts' \in Nat \cup {-1}
      /\ (intact => counts' = Len(file'))
  BY <1>2, <1>3, <1>1
<1>7. QED
  BY <1>1, <1>2, <1>5, <1>6, AfterGoing

LEMMA AppendLineErrsKeeps ==
  ASSUME StoreInv, NEW w \in Worker, S!AppendLineErrs(w)
  PROVE  StoreInv' /\ Steady
<1>1. Active(w) /\ GoesOn(w, "rollback") /\ counts' = counts /\ app[w].pc = "begun"
  BY DEF S!AppendLineErrs, Active, GoesOn, S!table, S!locks, S!bound
<1>2. /\ app'[w].pc = "rollback" /\ app'[w].size = app[w].size /\ OwnLine(w)' = OwnLine(w)
  BY <1>1, GoesOnFacts
<1>3. /\ app[w].id \in Reading /\ app[w].size \in Nat
      /\ Len(file) = app[w].size /\ file \in Seq(S!Line) /\ torn \in S!Line \cup {None}
  BY <1>1, HolderFacts DEF Placed, StoreInv, S!TypeOK
<1>4. counts' \in Nat \cup {-1}
  BY <1>1 DEF StoreInv, S!TypeOK
<1>5. CASE Writes(w)
  <2>1. /\ file' \in Seq(S!Line) /\ Len(file') = app[w].size + 1
        /\ file'[Len(file')] = OwnLine(w) /\ torn' = None
        /\ \A n \in 1..app[w].size : file'[n] = file[n]
    BY <1>1, <1>5, WritesFacts
  <2>2. Placed(w)'
    BY <1>2, <2>1 DEF Placed
  <2>3. torn' \in S!Line \cup {None}
    BY <2>1
  <2>4. QED
    BY <1>1, <1>4, <2>1, <2>2, <2>3, AfterGoing
<1>6. CASE ~Writes(w)
  <2>1. file' = file /\ torn' \in S!Line \cup {None}
    BY <1>1, <1>3, <1>6 DEF S!AppendLineErrs, Writes, S!Merged, S!Line, S!disk
  <2>2. Placed(w)'
    BY <1>2, <1>3, <2>1 DEF Placed
  <2>3. QED
    BY <1>1, <1>3, <1>4, <2>1, <2>2, AfterGoing
<1>7. QED
  BY <1>5, <1>6

LEMMA CommitIndexErrsKeeps ==
  ASSUME StoreInv, NEW w \in Worker, S!CommitIndexErrs(w)
  PROVE  StoreInv' /\ Steady
<1>1. /\ Active(w) /\ GoesOn(w, "rollback") /\ UNCHANGED <<file, torn, counts>>
      /\ app[w].pc = "written"
  BY DEF S!CommitIndexErrs, Active, GoesOn, S!disk, S!table, S!locks, S!bound
<1>2. /\ app'[w].pc = "rollback" /\ app'[w].size = app[w].size /\ OwnLine(w)' = OwnLine(w)
  BY <1>1, GoesOnFacts
<1>3. Placed(w)'
  BY <1>1, <1>2, HolderFacts DEF Placed
<1>4. /\ file' \in Seq(S!Line) /\ torn' \in S!Line \cup {None} /\ counts' \in Nat \cup {-1}
      /\ \A n \in 1..app[w].size : file'[n] = file[n]
  BY <1>1 DEF StoreInv, S!TypeOK
<1>5. QED
  BY <1>1, <1>3, <1>4, AfterGoing

(* The commit makes one line more stay: the append's own. *)
LEMMA CommitIndexKeeps ==
  ASSUME StoreInv, NEW w \in Worker, S!CommitIndex(w)
  PROVE  /\ StoreInv' /\ Active(w) /\ UNCHANGED <<file, faults, intact>>
         /\ Base \in Nat /\ Base' = Base + 1 /\ file[Base + 1] = OwnLine(w)
         /\ intact => app[w].lineNo = Base
         /\ faults = 0 => app[w].torn = None
<1> DEFINE id == app[w].id
<1>1. /\ Active(w) /\ Leaves(w)
      /\ UNCHANGED <<mode, file, torn, counts, conn, req, intact, faults>>
      /\ app[w].pc = "written" /\ mode # "stopping"
      /\ index' = [index EXCEPT ![id] = app[w].lineNo]
      /\ manifest' = [count |-> manifest.count + 1, sum |-> manifest.sum \o <<id>>]
  BY DEF S!CommitIndex, Active, Leaves, S!disk, S!bound, S!FoldChecksum
<1>2. /\ app' \in [Worker -> S!AppState] /\ Holding' /\ (\A v \in Worker : ~Active(v)')
      /\ Base' = Len(file)
  BY <1>1, LeavesFacts
<1>3. /\ id \in Reading /\ app[w].lineNo \in Nat /\ app[w].size \in Nat /\ Base = app[w].size
      /\ mu # None /\ mu' = None /\ file \in Seq(S!Line)
      /\ Len(file) = app[w].size + 1 /\ torn = None /\ file[Len(file)] = OwnLine(w)
      /\ intact => app[w].lineNo = app[w].size
  BY <1>1, HolderFacts DEF Placed, Leaves
<1>4. manifest.count \in Nat /\ manifest.sum \in Seq(S!Line) /\ <<id>> \in Seq(S!Line)
      /\ index \in [Reading -> Nat \cup {-1}]
  BY <1>3 DEF StoreInv, S!TypeOK, S!Line
<1>5. manifest.sum \o <<id>> \in Seq(S!Line)
  BY <1>4
<1>6. index' \in [Reading -> Nat \cup {-1}] /\ manifest' \in [count : Nat, sum : Seq(S!Line)]
  BY <1>1, <1>3, <1>4, <1>5
<1> HIDE DEF id
<1>7. S!TypeOK'
  BY <1>1, <1>2, <1>3, <1>6 DEF StoreInv, S!TypeOK
<1>8. CountRight'
  BY <1>1, <1>2 DEF StoreInv, CountRight
<1>9. Untroubled'
  BY <1>1, <1>2, <1>3 DEF StoreInv, Untroubled
<1>10. faults = 0 => app[w].torn = None
  BY <1>1 DEF StoreInv, Untroubled
<1>11. QED
  BY <1>1, <1>2, <1>3, <1>7, <1>8, <1>9, <1>10 DEF StoreInv

LEMMA RollbackKeeps ==
  ASSUME StoreInv, NEW w \in Worker, S!Rollback(w) \/ S!RollbackErrs(w)
  PROVE  StoreInv' /\ Steady /\ Active(w)
<1>1. Active(w) /\ Leaves(w) /\ UNCHANGED <<mode, index, manifest, conn, req>>
  BY DEF S!Rollback, S!RollbackErrs, Active, Leaves, S!table
<1>2. /\ app' \in [Worker -> S!AppState] /\ Holding' /\ (\A v \in Worker : ~Active(v)')
      /\ Base' = Len(file')
  BY <1>1, LeavesFacts
<1>3. /\ app[w].size \in 0..Len(file) /\ app[w].size \in Nat /\ app[w].lineNo \in Nat
      /\ app[w].torn \in S!Line \cup {None} /\ Base = app[w].size
      /\ file \in Seq(S!Line) /\ Len(file) \in Nat
      /\ intact /\ mode # "stopping" => app[w].lineNo = app[w].size
      /\ counts \in Nat \cup {-1} /\ faults \in Nat /\ intact \in BOOLEAN
      /\ torn \in S!Line \cup {None}
      /\ faults = 0 => mode = "server" /\ app[w].torn = None
  BY <1>1, HolderFacts DEF StoreInv, S!TypeOK, Untroubled
<1>4. ASSUME file' = SubSeq(file, 1, app[w].size), torn' = app[w].torn
      PROVE  /\ file' \in Seq(S!Line) /\ Len(file') = app[w].size
             /\ \A n \in 1..app[w].size : file'[n] = file[n]
  BY <1>3, <1>4, Cut
<1>5. CASE S!Rollback(w)
  <2>1. UNCHANGED <<intact, faults>>
    BY <1>5 DEF S!Rollback, S!bound
  <2>2. CASE mode = "stopping"
    <3>1. UNCHANGED <<file, torn, counts>> /\ faults # 0
      BY <1>3, <1>5, <2>2 DEF S!Rollback, S!disk
    <3>2. S!TypeOK'
      BY <1>1, <1>2, <2>1, <3>1 DEF StoreInv, S!TypeOK, Leaves
    <3>3. CountRight' /\ Untroubled'
      BY <1>1, <2>1, <2>2, <3>1 DEF CountRight, Untroubled
    <3>4. Steady
      BY <1>2, <1>3, <2>1, <3>1 DEF Steady
    <3>5. QED
      BY <1>1, <1>2, <3>2, <3>3, <3>4 DEF StoreInv
  <2>3. CASE mode # "stopping"
    <3>1. file' = SubSeq(file, 1, app[w].size) /\ torn' = app[w].torn /\ counts' = app[w].lineNo
      BY <1>5, <2>3 DEF S!Rollback
    <3>2. /\ file' \in Seq(S!Line) /\ Len(file') = app[w].size
          /\ \A n \in 1..app[w].size : file'[n] = file[n]
      BY <1>4, <3>1
    <3>3. S!TypeOK'
      BY <1>1, <1>2, <1>3, <2>1, <3>1, <3>2 DEF StoreInv, S!TypeOK, Leaves
    <3>4. CountRight'
      BY <1>1, <1>2, <1>3, <2>1, <2>3, <3>1, <3>2 DEF CountRight
    <3>5. Untroubled'
      BY <1>1, <1>2, <1>3, <2>1, <3>1 DEF Untroubled
    <3>6. Steady
      BY <1>2, <1>3, <2>1, <3>2 DEF Steady
    <3>7. QED
      BY <1>1, <1>2, <3>3, <3>4, <3>5, <3>6 DEF StoreInv
  <2>4. QED
    BY <2>2, <2>3
<1>6. CASE S!RollbackErrs(w)
  <2>1. /\ faults' = faults + 1 /\ counts' = counts
        /\ \/ UNCHANGED <<file, torn>>
           \/ file' = SubSeq(file, 1, app[w].size) /\ torn' = app[w].torn
    BY <1>6 DEF S!RollbackErrs, S!disk
  <2>2. intact' \in BOOLEAN /\ (intact' => intact /\ counts = Len(file'))
    <3>1. intact' = (intact /\ counts = Len(file'))
      BY <1>6 DEF S!RollbackErrs
    <3>2. QED
      BY <3>1, Zenon
  <2>3. /\ file' \in Seq(S!Line) /\ torn' \in S!Line \cup {None} /\ Len(file') >= app[w].size
        /\ \A n \in 1..app[w].size : file'[n] = file[n]
    <3>1. CASE UNCHANGED <<file, torn>>
      BY <1>3, <3>1
    <3>2. CASE file' = SubSeq(file, 1, app[w].size) /\ torn' = app[w].torn
      BY <1>3, <1>4, <3>2
    <3>3. QED
      BY <2>1, <3>1, <3>2
  <2>4. faults' \in Nat /\ faults' # 0
    BY <1>3, <2>1
  <2>5. S!TypeOK'
    BY <1>1, <1>2, <2>1, <2>2, <2>3, <2>4 DEF StoreInv, S!TypeOK, Leaves
  <2>6. CountRight'
    BY <1>2, <2>1, <2>2 DEF CountRight
  <2>7. Untroubled' /\ Steady
    BY <1>2, <1>3, <2>3, <2>4 DEF Untroubled, Steady
  <2>8. QED
    BY <1>1, <1>2, <2>5, <2>6, <2>7 DEF StoreInv
<1>7. QED
  BY <1>5, <1>6

LEMMA BeginKeeps ==
  ASSUME StoreInv, NEW w \in Worker, NEW r \in Reading, S!Begin(w, r)
  PROVE  /\ StoreInv' /\ Steady /\ UNCHANGED intact
         /\ (\A v \in Worker : Active(v)' <=> v = w) /\ app'[w].id = r
<1> DEFINE n == IF counts >= 0 THEN counts ELSE Len(file)
<1> DEFINE k == [pc |-> "begun", id |-> r, lineNo |-> n, size |-> Len(file), torn |-> torn]
<1>1. /\ mu = None /\ mu' = w /\ counts' = n /\ app' = [app EXCEPT ![w] = k]
      /\ UNCHANGED <<mode, file, torn, index, manifest, conn, req, intact, faults>>
  BY DEF S!Begin, S!disk, S!table, S!bound
<1>2. /\ n \in Nat /\ Len(file) \in Nat /\ file \in Seq(S!Line) /\ torn \in S!Line \cup {None}
      /\ app \in [Worker -> S!AppState] /\ counts \in Nat \cup {-1}
  BY DEF StoreInv, S!TypeOK
<1>3. /\ k \in S!AppState /\ k.pc = "begun" /\ k.id = r /\ k.lineNo = n
      /\ k.size = Len(file) /\ k.torn = torn
  BY <1>2 DEF S!AppState
<1>4. intact /\ mode # "stopping" => n = Len(file)
  BY <1>1, <1>2 DEF StoreInv, CountRight
<1> HIDE DEF n, k
<1>5. app' \in [Worker -> S!AppState] /\ app'[w] = k /\ \A v \in Worker : v # w => app'[v] = app[v]
  BY <1>1, <1>2, <1>3
<1>6. (\A v \in Worker : ~Active(v)) /\ w # None /\ r # None
  BY <1>1, StoreAssumption DEF StoreInv, Holding
<1>7. \A v \in Worker : Active(v)' <=> v = w
  BY <1>3, <1>5, <1>6 DEF Active
<1>8. Holding'
  BY <1>1, <1>3, <1>5, <1>6, <1>7 DEF StoreInv, Holding
<1>9. S!TypeOK'
  BY <1>1, <1>2, <1>5 DEF StoreInv, S!TypeOK
<1>10. Placed(w)'
  BY <1>1, <1>2, <1>3, <1>5 DEF Placed
<1>11. CountRight'
  BY <1>1, <1>3, <1>4, <1>5, <1>6, <1>7 DEF CountRight
<1>12. Untroubled'
  BY <1>1, <1>3, <1>5, <1>6, <1>7 DEF StoreInv, Untroubled
<1>13. Steady
  <2>1. Base = Len(file) /\ Base' = Len(file)
    BY <1>1, <1>3, <1>5, <1>6 DEF Base
  <2>2. QED
    BY <1>1, <1>2, <2>1 DEF Steady
<1>14. QED
  BY <1>1, <1>3, <1>5, <1>7, <1>8, <1>9, <1>10, <1>11, <1>12, <1>13 DEF StoreInv

(* A count that failed starts an append with a wrong line number. *)
LEMMA BeginMiscountsKeeps ==
  ASSUME StoreInv, NEW w \in Worker, NEW r \in Reading, S!BeginMiscounts(w, r)
  PROVE  /\ StoreInv' /\ Steady /\ Base' = Base /\ UNCHANGED file
         /\ (\A v \in Worker : Active(v)' <=> v = w) /\ app'[w].id = r
<1> DEFINE k == [pc |-> "begun", id |-> r, lineNo |-> 0, size |-> Len(file), torn |-> torn]
<1>1. /\ mu = None /\ mu' = w /\ counts' = 0 /\ app' = [app EXCEPT ![w] = k]
      /\ intact' = FALSE /\ faults' = faults + 1
      /\ UNCHANGED <<mode, file, torn, index, manifest, conn, req>>
  BY DEF S!BeginMiscounts, S!disk, S!table
<1>2. /\ Len(file) \in Nat /\ file \in Seq(S!Line) /\ torn \in S!Line \cup {None}
      /\ app \in [Worker -> S!AppState] /\ faults \in Nat
  BY DEF StoreInv, S!TypeOK
<1>3. /\ k \in S!AppState /\ k.pc = "begun" /\ k.id = r
      /\ k.size = Len(file) /\ k.torn = torn
  BY <1>2 DEF S!AppState
<1> HIDE DEF k
<1>4. /\ app' \in [Worker -> S!AppState] /\ app'[w] = k
      /\ \A v \in Worker : v # w => app'[v] = app[v]
  BY <1>1, <1>2, <1>3
<1>5. (\A v \in Worker : ~Active(v)) /\ w # None /\ r # None
  BY <1>1, StoreAssumption DEF StoreInv, Holding
<1>6. \A v \in Worker : Active(v)' <=> v = w
  BY <1>3, <1>4, <1>5 DEF Active
<1>7. Holding'
  BY <1>1, <1>3, <1>4, <1>5, <1>6 DEF StoreInv, Holding
<1>8. S!TypeOK' /\ faults' # 0
  <2>1. faults' \in Nat /\ faults' # 0
    BY <1>1, <1>2
  <2>2. intact' \in BOOLEAN /\ counts' \in Nat \cup {-1} /\ mu' \in Worker \cup {None}
    BY <1>1
  <2>3. QED
    BY <1>1, <1>4, <2>1, <2>2 DEF StoreInv, S!TypeOK
<1>9. Placed(w)'
  BY <1>1, <1>2, <1>3, <1>4 DEF Placed
<1>10. CountRight' /\ Untroubled'
  BY <1>1, <1>8 DEF CountRight, Untroubled
<1>11. Base = Len(file) /\ Base' = Len(file)
  BY <1>1, <1>3, <1>4, <1>5 DEF Base
<1>12. Steady
  BY <1>1, <1>2, <1>8, <1>11 DEF Steady
<1>13. QED
  BY <1>1, <1>3, <1>4, <1>6, <1>7, <1>8, <1>9, <1>10, <1>11, <1>12 DEF StoreInv

LEMMA ShutdownKeeps == ASSUME StoreInv, S!Shutdown PROVE StoreInv' /\ Steady
<1>1. /\ UNCHANGED <<file, torn, index, manifest, counts, mu, conn, app, req, intact>>
      /\ mode' = "stopping" /\ faults' = faults + 1
  BY DEF S!Shutdown, S!disk, S!table, S!locks
<1>2. faults' \in Nat /\ faults' # 0
  BY <1>1 DEF StoreInv, S!TypeOK
<1>3. S!TypeOK'
  BY <1>1, <1>2 DEF StoreInv, S!TypeOK
<1>4. (\A w \in Worker : (Active(w)' <=> Active(w)) /\ (Placed(w)' <=> Placed(w))) /\ Holding'
  BY <1>1 DEF StoreInv, Active, Placed, OwnLine, Holding
<1>5. CountRight' /\ Untroubled'
  BY <1>1, <1>2 DEF CountRight, Untroubled
<1>6. Base' = Base /\ Base \in Int
  <2>1. Base' = Base
    BY <1>1 DEF Base
  <2>2. Len(file) \in Nat /\ \A w \in Worker : app[w].size \in Nat
    BY DEF StoreInv, S!TypeOK, S!AppState
  <2>3. QED
    BY <2>1, <2>2 DEF Base, StoreInv, S!TypeOK
<1>7. Steady
  BY <1>1, <1>2, <1>6 DEF Steady
<1>8. QED
  BY <1>3, <1>4, <1>5, <1>7 DEF StoreInv

(* Between appends nobody has the lock. *)
LEMMA IdleFacts ==
  ASSUME StoreInv, S!AllIdle
  PROVE  mu = None /\ (\A w \in Worker : ~Active(w)) /\ Base = Len(file) /\ Base \in Nat
<1>1. \A w \in Worker : ~Active(w)
  BY DEF S!AllIdle, Active
<1>2. mu = None
  BY <1>1 DEF StoreInv, S!TypeOK, Holding
<1>3. QED
  BY <1>1, <1>2 DEF Base, StoreInv, S!TypeOK

(* The next process starts with no cached count; the same holds of a server *)
(* that dies between appends and is started again.                          *)
LEMMA StartKeeps ==
  ASSUME StoreInv, S!AllIdle, counts' = -1, mode' \in {"server", "ops"},
         UNCHANGED <<file, torn, index, manifest, mu, conn, app, req, intact, faults>>,
         mode = "server" => mode' = "server"
  PROVE  StoreInv' /\ Steady
<1>1. mu = None /\ (\A w \in Worker : ~Active(w)) /\ Base = Len(file) /\ Base \in Nat
  BY IdleFacts
<1>2. S!TypeOK'
  BY DEF StoreInv, S!TypeOK
<1>3. (\A w \in Worker : ~Active(w)') /\ Holding'
  BY <1>1 DEF StoreInv, Holding, Active
<1>4. CountRight' /\ Untroubled'
  BY <1>1, <1>3 DEF StoreInv, CountRight, Untroubled
<1>5. Base' = Base
  BY DEF Base
<1>6. Steady
  BY <1>1, <1>5 DEF Steady
<1>7. QED
  BY <1>2, <1>3, <1>4, <1>6 DEF StoreInv

LEMMA CrashKeepsStore ==
  ASSUME StoreInv, S!Crash("server")
  PROVE  StoreInv' /\ Steady /\ UNCHANGED intact /\ (\A w \in Worker : ~Active(w)')
<1>1. /\ UNCHANGED <<file, index, manifest, intact>> /\ faults' = faults + 1
      /\ mode' = "server" /\ counts' = -1 /\ mu' = None /\ conn' = None
      /\ app' = [w \in Worker |-> S!NoAppend] /\ req' = [c \in S!Client |-> S!NoRequest]
  BY DEF S!Crash, S!table
<1>2. torn' \in S!Line \cup {None}
  <2>1. CASE UNCHANGED torn
    BY <2>1 DEF StoreInv, S!TypeOK
  <2>2. CASE \E w \in Worker : app[w].pc = "begun" /\ torn' \in {Corrupt, S!Merged(app[w].id)}
    <3>1. PICK w \in Worker : app[w].pc = "begun" /\ torn' \in {Corrupt, S!Merged(app[w].id)}
      BY <2>2
    <3>2. app[w].id \in Reading
      BY <3>1, HolderFacts DEF Active
    <3>3. QED
      BY <3>1, <3>2 DEF S!Merged, S!Line
  <2>3. QED
    BY <2>1, <2>2 DEF S!Crash
<1>3. /\ S!NoAppend \in S!AppState /\ S!NoRequest \in S!ReqState
      /\ S!NoAppend.pc = "idle" /\ S!NoAppend.id = None
  BY DEF S!NoAppend, S!NoRequest, S!AppState, S!ReqState
<1>4. faults' \in Nat /\ faults' # 0
  BY <1>1 DEF StoreInv, S!TypeOK
<1>5. S!TypeOK'
  BY <1>1, <1>2, <1>3, <1>4 DEF StoreInv, S!TypeOK
<1>6. (\A w \in Worker : ~Active(w)') /\ Holding'
  BY <1>1, <1>3, StoreAssumption DEF Active, Holding
<1>7. CountRight' /\ Untroubled'
  BY <1>1, <1>4, <1>6 DEF CountRight, Untroubled
<1>8. Steady
  <2>1. Base' = Len(file)
    BY <1>1 DEF Base
  <2>2. Base <= Len(file) /\ Len(file) \in Nat /\ Base \in Nat
    <3>1. CASE mu = None
      BY <3>1 DEF Base, StoreInv, S!TypeOK
    <3>2. CASE mu # None
      <4>1. mu \in Worker /\ Active(mu)
        BY <3>2 DEF StoreInv, S!TypeOK, Holding
      <4>2. QED
        BY <4>1, HolderFacts
    <3>3. QED
      BY <3>1, <3>2
  <2>3. QED
    BY <1>1, <1>4, <2>1, <2>2 DEF Steady
<1>9. QED
  BY <1>1, <1>5, <1>6, <1>7, <1>8 DEF StoreInv

LEMMA RebuildKeeps ==
  ASSUME StoreInv, S!RebuildIndex
  PROVE  StoreInv' /\ Steady
<1>1. /\ mode = "ops" /\ S!AllIdle /\ counts' = -1 /\ intact' = TRUE
      /\ UNCHANGED <<mode, file, torn, mu, conn, app, req>>
      /\ S!RowsFromFile \/ S!ShardUnreadable
  BY DEF S!RebuildIndex, S!disk, S!locks
<1>2. mu = None /\ (\A w \in Worker : ~Active(w)) /\ Base = Len(file) /\ Base \in Nat
  BY <1>1, IdleFacts
<1>3. S!Lines \in Seq(S!Line) /\ Len(S!Lines) \in Nat
  <2>1. file \in Seq(S!Line) /\ (torn # None => torn \in S!Line)
    BY DEF StoreInv, S!TypeOK
  <2>2. QED
    BY <2>1, Grown DEF S!Lines
<1>4. /\ index' \in [Reading -> Nat \cup {-1}]
      /\ manifest' \in [count : Nat, sum : Seq(S!Line)]
      /\ faults' \in Nat /\ (faults' = 0 => faults = 0)
  <2>1. CASE S!RowsFromFile
    <3>1. ASSUME NEW r \in Reading, S!InFile(r)
          PROVE  (CHOOSE n \in 1..Len(S!Lines) : S!Lines[n] = r) - 1 \in Nat
      <4>1. (CHOOSE n \in 1..Len(S!Lines) : S!Lines[n] = r) \in 1..Len(S!Lines)
        BY <3>1 DEF S!InFile
      <4>2. QED
        BY <1>3, <4>1
    <3>2. faults' = faults /\ faults \in Nat
      BY <2>1 DEF S!RowsFromFile, StoreInv, S!TypeOK
    <3>3. QED
      BY <1>3, <2>1, <3>1, <3>2 DEF S!RowsFromFile
  <2>2. CASE S!ShardUnreadable
    <3>1. faults \in Nat /\ <<>> \in Seq(S!Line) /\ 0 \in Nat
      BY DEF StoreInv, S!TypeOK
    <3>2. QED
      BY <2>2, <3>1 DEF S!ShardUnreadable
  <2>3. QED
    BY <1>1, <2>1, <2>2
<1>5. S!TypeOK'
  BY <1>1, <1>4 DEF StoreInv, S!TypeOK
<1>6. (\A w \in Worker : ~Active(w)') /\ Holding'
  BY <1>1, <1>2 DEF StoreInv, Holding, Active
<1>7. CountRight' /\ Untroubled'
  BY <1>1, <1>2, <1>4, <1>6 DEF StoreInv, CountRight, Untroubled
<1>8. Base' = Base
  BY <1>1 DEF Base
<1>9. Steady
  BY <1>1, <1>2, <1>4, <1>8 DEF Steady
<1>10. QED
  BY <1>5, <1>6, <1>7, <1>9 DEF StoreInv

(* An export moves nothing but itself and the connection. *)
ExportMoves(c) == S!ReadLine(c) \/ S!ExportEnds(c) \/ S!Export(c) \/ S!Disconnect(c)

LEMMA ExportKeeps ==
  ASSUME StoreInv, NEW c \in Exporter, ExportMoves(c)
  PROVE  /\ StoreInv' /\ Steady /\ Base' = Base
         /\ UNCHANGED <<mode, file, mu, app, intact>>
<1>1. UNCHANGED <<mode, file, torn, index, manifest, counts, mu, app, intact, faults>>
  BY DEF ExportMoves, S!ReadLine, S!ExportEnds, S!Export, S!Disconnect, S!disk, S!table,
         S!locks, S!bound
<1>2. /\ req \in [S!Client -> S!ReqState] /\ conn \in Exporter \cup {None}
      /\ c \in S!Client /\ req[c] \in S!ReqState
  BY DEF StoreInv, S!TypeOK, S!Client
<1>3. S!NoRequest \in S!ReqState
  BY DEF S!NoRequest, S!ReqState
<1>4. req' \in [S!Client -> S!ReqState] /\ conn' \in Exporter \cup {None}
  <2>1. CASE S!ReadLine(c)
    <3>1. PICK r \in req[c].rows :
            req' = [req EXCEPT ![c] = IF req[c].pc = "get" THEN S!NoRequest
                                      ELSE [req[c] EXCEPT !.rows = req[c].rows \ {r}]]
      BY <1>2, <2>1 DEF S!ReadLine, S!ReqState
    <3>2. [req[c] EXCEPT !.rows = req[c].rows \ {r}] \in S!ReqState
      BY <1>2 DEF S!ReqState
    <3>3. conn' = conn
      BY <2>1 DEF S!ReadLine, S!locks
    <3>4. QED
      BY <1>2, <1>3, <3>1, <3>2, <3>3
  <2>2. CASE S!ExportEnds(c) \/ S!Disconnect(c)
    BY <1>2, <1>3, <2>2 DEF S!ExportEnds, S!Disconnect
  <2>3. CASE S!Export(c)
    <3>1. [pc |-> "export", rows |-> {r \in Reading : index[r] # -1}] \in S!ReqState
      BY DEF S!ReqState
    <3>2. QED
      BY <1>2, <2>3, <3>1 DEF S!Export
  <2>4. QED
    BY <2>1, <2>2, <2>3 DEF ExportMoves
<1>5. S!TypeOK'
  BY <1>1, <1>4 DEF StoreInv, S!TypeOK
<1>6. (\A w \in Worker : (Active(w)' <=> Active(w)) /\ (Placed(w)' <=> Placed(w))) /\ Holding'
      /\ CountRight' /\ Untroubled' /\ Base' = Base
  BY <1>1 DEF StoreInv, Active, Placed, OwnLine, Holding, CountRight, Untroubled, Base
<1>7. Base \in Nat
  BY DEF StoreInv, S!TypeOK, S!AppState, Base
<1>8. QED
  BY <1>1, <1>5, <1>6, <1>7 DEF StoreInv, Steady

----------------------------------------------------------------------------
(* What a step of the path is to the queue: nothing, or one of its actions. *)
LEMMA StepImplementsQueue ==
  ASSUME [Next]_vars PROVE [Q!Next]_(Q!vars)
<1> USE DEF queue, Q!vars
<1>1. CASE UNCHANGED vars
  BY <1>1 DEF vars
<1>2. CASE HttpRequest \/ ReclaimExpired
  BY <1>2 DEF HttpRequest, ReclaimExpired, Q!Next
<1>3. CASE Tick
  BY <1>3 DEF Tick, Q!Next
<1>4. ASSUME NEW w \in Worker, LeaseBatch(w) \/ Complete(w) \/ Close(w)
      PROVE  Q!Next
  BY <1>4 DEF LeaseBatch, Complete, Close, Q!Next, Q!Process
<1>5. ASSUME NEW w \in Worker, Begin(w) \/ BeginMiscounts(w) \/ InAppend(w)
      PROVE  UNCHANGED Q!vars
  BY <1>5 DEF Begin, BeginMiscounts, InAppend
<1>6. ASSUME NEW w \in Worker, NotBegun(w) \/ AppendFailed(w)
      PROVE  Q!Next
  BY <1>6 DEF NotBegun, AppendFailed, Q!Next, Q!Process
<1>7. ASSUME NEW w \in Worker, Appended(w)
      PROVE  Q!Next
  BY <1>7 DEF Appended, Q!Next, Q!Process
<1>8. ASSUME NEW w \in Worker, TickEnds(w) \/ Crash(w)
      PROVE  Q!Next
  BY <1>8 DEF TickEnds, Crash, Q!Next
<1>9. CASE Shutdown \/ RebuildIndex \/ \E m \in {"server", "ops"} : Start(m)
  BY <1>9 DEF Shutdown, RebuildIndex, Start
<1>10. ASSUME NEW c \in Exporter, ExportRequest(c)
       PROVE  UNCHANGED Q!vars
  BY <1>10 DEF ExportRequest, ReadLine, ExportEnds
<1>11. QED
  BY <1>1, <1>2, <1>3, <1>4, <1>5, <1>6, <1>7, <1>8, <1>9, <1>10 DEF Next, Process, AppendStep

----------------------------------------------------------------------------
(* The two together: what stays, stays named and counted. *)

LEMMA BaseType ==
  ASSUME StoreInv PROVE Base \in Nat
BY DEF StoreInv, S!TypeOK, S!AppState, Base

LEMMA BaseTypeNext ==
  ASSUME StoreInv' PROVE Base' \in Nat
BY DEF StoreInv, S!TypeOK, S!AppState, Base

(* No line that stays is taken away. *)
KeptFile == Base' >= Base /\ \A n \in 1..Base : file'[n] = file[n]

LEMMA NamesKept ==
  ASSUME StoreInv, StoreInv', KeptFile, NEW i, NEW n, Names(i, n)
  PROVE  Names(i, n)'
<1>1. Base \in Nat /\ Base' \in Nat
  BY BaseType, BaseTypeNext
<1>2. n \in 0..(Base - 1) /\ Base' >= Base
  BY DEF Names, KeptFile
<1>3. n \in 0..(Base' - 1) /\ n + 1 \in 1..Base
  <2>1. \A a, b \in Nat : a <= b /\ n \in 0..(a - 1) => n \in 0..(b - 1) /\ n + 1 \in 1..a
    OBVIOUS
  <2>2. QED
    BY <1>1, <1>2, <2>1
<1>4. file'[n + 1] = file[n + 1]
  BY <1>3 DEF KeptFile
<1>5. QED
  BY <1>3, <1>4 DEF Names

LEMMA CountKept ==
  ASSUME Steady, FileCounted, UNCHANGED readings
  PROVE  FileCounted'
<1>1. ASSUME faults' = 0, NEW i \in Item
      PROVE  KeptLines(i)' = KeptLines(i)
  BY <1>1 DEF Steady, KeptLines
<1>2. QED
  BY <1>1 DEF FileCounted, Steady

(* Nothing happens to the store. *)
LEMMA StoreRests ==
  ASSUME StoreInv, UNCHANGED store
  PROVE  /\ StoreInv' /\ Steady /\ KeptFile /\ UNCHANGED <<mode, intact, app>>
         /\ \A w \in Worker : Active(w)' <=> Active(w)
<1>1. UNCHANGED <<mode, file, torn, index, manifest, counts, mu, conn, app, req, intact, faults>>
  BY DEF store
<1>2. (\A w \in Worker : (Active(w)' <=> Active(w)) /\ (Placed(w)' <=> Placed(w))) /\ Holding'
      /\ CountRight' /\ Untroubled' /\ Base' = Base
  BY <1>1 DEF StoreInv, Active, Placed, OwnLine, Holding, CountRight, Untroubled, Base
<1>3. S!TypeOK'
  BY <1>1 DEF StoreInv, S!TypeOK
<1>4. Base \in Nat
  BY BaseType
<1>5. QED
  BY <1>1, <1>2, <1>3, <1>4 DEF StoreInv, Steady, KeptFile

(* A worker under way in the store is between two items of its batch, and  *)
(* the server is not an ops command.                                        *)
LEMMA ActiveFacts ==
  ASSUME PathInv, NEW w \in Worker, Active(w)
  PROVE  /\ worker[w].pc = "next" /\ mode # "ops"
         /\ app[w].id \in Reading /\ app[w].id[1] \in Q!NextInHand(w)
         /\ app[w].id = ReadingOf(w, app[w].id[1])
<1>1. PICK i \in Q!NextInHand(w) : app[w].id = ReadingOf(w, i)
  BY DEF PathInv, SameItem
<1>2. app[w].id[1] = i
  BY <1>1 DEF ReadingOf
<1>3. mode # "ops"
  BY <1>1 DEF PathInv, SameItem, Q!Idle, Q!NextInHand
<1>4. worker[w].pc = "next" /\ app[w].id \in Reading
  BY HolderFacts DEF PathInv, SameItem
<1>5. QED
  BY <1>1, <1>2, <1>3, <1>4

(* What is in hand has been leased, and at most once more than there was   *)
(* trouble.                                                                 *)
LEMMA HandFacts ==
  ASSUME QueueInv, NEW w \in Worker, NEW i \in Q!InHand(w)
  PROVE  /\ i \in Item /\ ReadingOf(w, i) \in Reading
         /\ item[i].status # "absent" /\ item[i].attempts # 0
<1>1. i \in Item /\ worker[w].batch[i] # 0
  BY DEF Q!InHand
<1>2. /\ worker[w].batch[i] \in Nat /\ worker[w].batch[i] <= item[i].attempts
      /\ item[i].attempts \in Nat /\ item[i].attempts <= trouble + 1
      /\ item[i].status = "absent" => item[i].attempts = 0
      /\ trouble \in Nat /\ trouble <= MaxTrouble /\ MaxTrouble \in Nat
  BY <1>1, QueueAssumption
  DEF QueueInv, Q!TypeOK, Q!WorkerState, Q!ItemRow, HandsRight, LeaseCounted
<1>3. worker[w].batch[i] \in Lease
  BY <1>1, <1>2 DEF Lease
<1>4. QED
  BY <1>1, <1>2, <1>3 DEF ReadingOf, Reading

----------------------------------------------------------------------------
(* One process: each lease appends once. *)

(* The attempts only grow, and the worker only comes closer to the end of   *)
(* its batch.                                                                *)
LEMMA OnceKept ==
  ASSUME QueueInv, OncePerLease, UNCHANGED readings,
         \A i \in Item : item'[i].attempts = item[i].attempts,
         \A i \in Item : Ahead(i)' => Ahead(i)
  PROVE  OncePerLease'
BY DEF OncePerLease

LEMMA OnceDrop ==
  ASSUME QueueInv, OncePerLease, NEW w \in Worker, Worker = {w}, worker[w].pc # "next",
         Q!Drop(w), UNCHANGED readings, \A i \in Item : item'[i].attempts = item[i].attempts
  PROVE  OncePerLease'
<1>1. worker[w].at \in Item /\ worker[w].batch \in [Item -> Nat]
  BY DEF QueueInv, HandsRight, Q!InHand, Q!TypeOK, Q!WorkerState
<1>2. worker'[w].pc = "next" /\ worker'[w].batch = [worker[w].batch EXCEPT ![worker[w].at] = 0]
  BY <1>1, DropEffect DEF QueueInv
<1>3. \A i \in Item : Ahead(i)' => Ahead(i)
  BY <1>1, <1>2 DEF Ahead, Q!InHand
<1>4. QED
  BY <1>3, OnceKept

LEMMA OnceGoTo ==
  ASSUME QueueInv, OncePerLease, NEW w \in Worker, Worker = {w}, NEW i \in Item,
         NEW pc \in {"complete", "fail", "bury"}, Q!GoTo(w, pc, i),
         worker[w].pc = "next" \/ worker[w].at = i
  PROVE  \A j \in Item : Ahead(j)' <=> Ahead(j) /\ j # i
<1>1. worker'[w].pc = pc /\ worker'[w].at = i /\ worker'[w].batch = worker[w].batch
  BY GoToEffect DEF QueueInv
<1>2. QED
  BY <1>1 DEF Ahead, Q!InHand

LEMMA OnceLease ==
  ASSUME QueueInv, OncePerLease, NEW w \in Worker, Worker = {w}, Q!LeaseBatch(w)
  PROVE  OncePerLease'
<1>1. PICK T \in SUBSET Item :
        /\ \A i \in T : item'[i].attempts = item[i].attempts + 1
        /\ \A i \in Item \ T : item'[i] = item[i] /\ worker'[w].batch[i] = 0
  BY LeaseEffect DEF QueueInv
<1>2. /\ UNCHANGED readings
      /\ \A i \in Item : readings[i] \in Nat /\ item[i].attempts \in Nat
  BY DEF Q!LeaseBatch, QueueInv, Q!TypeOK, Q!ItemRow
<1>3. \A i \in Item : Ahead(i)' => i \in T
  BY <1>1 DEF Ahead, Q!InHand
<1>4. ASSUME NEW i \in Item
      PROVE  readings'[i] <= item'[i].attempts /\ (Ahead(i)' => readings'[i] < item'[i].attempts)
  <2>1. readings[i] <= item[i].attempts
    BY DEF OncePerLease
  <2>2. QED
    BY <1>1, <1>2, <1>3, <2>1
<1>5. QED
  BY <1>4 DEF OncePerLease

LEMMA OnceAppend ==
  ASSUME QueueInv, OncePerLease, NEW w \in Worker, Worker = {w}, Q!Append(w)
  PROVE  OncePerLease'
<1>1. PICK i \in Q!InHand(w) : /\ readings' = [readings EXCEPT ![i] = @ + 1]
                               /\ Q!GoTo(w, "complete", i)
  BY DEF Q!Append, Q!NextInHand
<1>2. i \in Item /\ worker[w].pc = "next" /\ item' = item /\ Ahead(i)
  BY DEF Q!Append, Q!InHand, Ahead
<1>3. \A j \in Item : Ahead(j)' <=> Ahead(j) /\ j # i
  BY <1>1, <1>2, OnceGoTo
<1>4. /\ \A j \in Item : readings[j] \in Nat /\ item[j].attempts \in Nat
      /\ readings'[i] = readings[i] + 1 /\ \A j \in Item : j # i => readings'[j] = readings[j]
  BY <1>1, <1>2 DEF QueueInv, Q!TypeOK, Q!ItemRow
<1>5. readings[i] < item[i].attempts
  BY <1>2 DEF OncePerLease
<1>6. QED
  BY <1>2, <1>3, <1>4, <1>5 DEF OncePerLease

(* The reaper, the operator and the clock. *)
Outside ==
  Q!ReclaimExpired \/ Q!Tick \/ \E i \in Item : Q!Enqueue(i) \/ Q!Requeue(i) \/ Q!ResolveFailure(i)

LEMMA OutsideFacts ==
  ASSUME QueueInv, Outside
  PROVE  /\ UNCHANGED <<worker, readings>>
         /\ \A i \in Item : /\ item'[i].attempts = item[i].attempts
                            /\ item'[i].status = "done" => item[i].status = "done"
                            /\ item[i].status = "absent" \/ item'[i].created = item[i].created
<1>1. UNCHANGED <<worker, readings>>
  BY DEF Outside, Q!ReclaimExpired, Q!Tick, Q!Enqueue, Q!Requeue, Q!ResolveFailure
<1>2. item \in [Item -> Q!ItemRow]
  BY DEF QueueInv, Q!TypeOK
<1>3. ASSUME NEW j \in Item
      PROVE  /\ item'[j].attempts = item[j].attempts
             /\ item'[j].status = "done" => item[j].status = "done"
             /\ item[j].status = "absent" \/ item'[j].created = item[j].created
  <2>1. CASE Q!ReclaimExpired
    BY <1>2, <2>1 DEF Q!ReclaimExpired, Q!ItemRow
  <2>2. CASE Q!Tick
    BY <1>2, <2>2 DEF Q!Tick, Q!ItemRow
  <2>3. ASSUME NEW i \in Item, Q!Enqueue(i)
        PROVE  /\ item'[j].attempts = item[j].attempts
               /\ item'[j].status = "done" => item[j].status = "done"
               /\ item[j].status = "absent" \/ item'[j].created = item[j].created
    BY <1>2, <2>3 DEF Q!Enqueue, Q!ItemRow
  <2>4. ASSUME NEW i \in Item, Q!Requeue(i) \/ Q!ResolveFailure(i)
        PROVE  /\ item'[j].attempts = item[j].attempts
               /\ item'[j].status = "done" => item[j].status = "done"
               /\ item[j].status = "absent" \/ item'[j].created = item[j].created
    BY <1>2, <2>4 DEF Q!Requeue, Q!ResolveFailure, Q!ItemRow
  <2>5. QED
    BY <2>1, <2>2, <2>3, <2>4 DEF Outside
<1>4. QED
  BY <1>1, <1>3

(* No step of the queue but the start of a lease lets a worker append more, *)
(* and that lease has a number of its own.                                   *)
LEMMA NextOnce ==
  ASSUME QueueInv, OncePerLease, [Q!Next]_(Q!vars)
  PROVE  OncePerLease'
<1>1. PICK w \in Worker : Worker = {w}
  BY OneProcess
<1>2. CASE UNCHANGED Q!vars
  BY <1>2 DEF Q!vars, OncePerLease, Ahead, Q!InHand
<1>3. CASE Outside
  <2>1. \A i \in Item : Ahead(i)' => Ahead(i)
    BY <1>3, OutsideFacts DEF Ahead, Q!InHand
  <2>2. QED
    BY <1>3, <2>1, OutsideFacts, OnceKept
<1>4. CASE Q!AppendFails(w)
  <2>1. PICK i \in Item : worker[w].pc = "next" /\ Q!GoTo(w, "fail", i) /\ item' = item
                          /\ readings' = readings
    BY <1>4 DEF Q!AppendFails, Q!NextInHand, Q!InHand
  <2>2. \A j \in Item : Ahead(j)' => Ahead(j)
    BY <1>1, <2>1, OnceGoTo
  <2>3. QED
    BY <2>1, <2>2, OnceKept
<1>5. ASSUME worker[w].pc # "next", UNCHANGED readings, NEW s \in {"done", "failed"},
             item' = [item EXCEPT ![worker[w].at].status = s] \/ item' = item,
             Q!Drop(w) \/ Q!GoTo(w, "bury", worker[w].at)
      PROVE  OncePerLease'
  <2>1. worker[w].at \in Item
    BY <1>5 DEF QueueInv, HandsRight, Q!InHand
  <2>2. \A j \in Item : item'[j].attempts = item[j].attempts
    BY <1>5, <2>1, CloseRow DEF RowsKeep
  <2>3. CASE Q!Drop(w)
    BY <1>1, <1>5, <2>2, <2>3, OnceDrop
  <2>4. CASE Q!GoTo(w, "bury", worker[w].at)
    <3>1. \A j \in Item : Ahead(j)' => Ahead(j)
      BY <1>1, <2>1, <2>4, OnceGoTo
    <3>2. QED
      BY <1>5, <2>2, <3>1, OnceKept
  <2>5. QED
    BY <1>5, <2>3, <2>4
<1>6. CASE Q!Complete(w) \/ Q!CompleteErrs(w)
  <2>1. /\ worker[w].pc # "next" /\ UNCHANGED readings /\ Q!Drop(w)
        /\ item' = [item EXCEPT ![worker[w].at].status = "done"] \/ item' = item
    BY <1>6 DEF Q!Complete, Q!CompleteErrs
  <2>2. QED
    BY <1>5, <2>1
<1>7. CASE Q!Fail(w) \/ Q!Bury(w)
  <2>1. /\ worker[w].pc # "next" /\ UNCHANGED readings
        /\ Q!Drop(w) \/ Q!GoTo(w, "bury", worker[w].at)
        /\ item' = [item EXCEPT ![worker[w].at].status = "failed"] \/ item' = item
    BY <1>7 DEF Q!Fail, Q!Bury
  <2>2. QED
    BY <1>5, <2>1
<1>8. CASE Q!Crash(w)
  <2>1. worker' = [worker EXCEPT ![w] = Q!IdleWorker] /\ UNCHANGED <<item, readings>>
    BY <1>8 DEF Q!Crash
  <2>2. \A i \in Item : Ahead(i)' => Ahead(i)
    BY <1>1, <2>1 DEF QueueInv, Q!TypeOK, Ahead, Q!InHand, Q!IdleWorker
  <2>3. QED
    BY <2>1, <2>2, OnceKept
<1>9. QED
  BY <1>1, <1>2, <1>3, <1>4, <1>6, <1>7, <1>8, OnceLease, OnceAppend
  DEF Q!Next, Q!Process, Outside

----------------------------------------------------------------------------
(* Both sides in one step. *)

(* What a step has to keep besides the queue's own invariants. *)
Joint ==
  /\ StoreInv /\ SameItem /\ LinesNamed /\ FileCounted
  /\ place \in [Worker -> Nat] /\ line \in [Item -> Nat] /\ sound \in BOOLEAN

(* A step that appends no reading and completes no item: only the items    *)
(* under way are left to look at.                                           *)
LEMMA JointKept ==
  ASSUME PathInv, StoreInv', Steady, SameItem',
         UNCHANGED <<place, line, readings>>, sound' \in BOOLEAN, sound' => sound /\ intact',
         \A w \in Worker : worker'[w].pc = "complete" => worker'[w] = worker[w],
         \A i \in Item : item'[i].status = "done" => item[i].status = "done"
  PROVE  Joint'
<1>1. StoreInv /\ KeptFile /\ FileCounted /\ LinesNamed
  BY DEF PathInv, Steady, KeptFile
<1>2. \A i, n : Names(i, n) => Names(i, n)'
  BY <1>1, NamesKept
<1>3. LinesNamed'
  BY <1>1, <1>2 DEF LinesNamed
<1>4. FileCounted'
  BY <1>1, CountKept
<1>5. QED
  BY <1>3, <1>4 DEF PathInv, Joint

(* Nobody is under way in the store before the step, nor after it. *)
LEMMA QuietKept ==
  ASSUME PathInv, NEW w \in Worker, Worker = {w}, ~Active(w), mode # "ops",
         worker'[w].pc # "complete", UNCHANGED <<store, names, readings>>,
         \A i \in Item : item'[i].status = "done" => item[i].status = "done"
  PROVE  Joint'
<1>1. /\ StoreInv' /\ Steady /\ UNCHANGED <<mode, intact>> /\ (Active(w)' <=> Active(w))
  BY StoreRests DEF PathInv
<1>2. SameItem'
  BY <1>1 DEF SameItem
<1>3. sound' \in BOOLEAN /\ (sound' => sound /\ intact') /\ UNCHANGED <<place, line>>
  BY <1>1 DEF PathInv, LinesNamed, names
<1>4. QED
  BY <1>1, <1>2, <1>3, JointKept

LEMMA OutsideJoint ==
  ASSUME PathInv, Outside, UNCHANGED <<store, names>>
  PROVE  Joint'
<1>1. StoreInv' /\ Steady /\ UNCHANGED <<mode, intact, app>>
      /\ \A w \in Worker : Active(w)' <=> Active(w)
  BY StoreRests DEF PathInv
<1>2. /\ UNCHANGED <<worker, readings>>
      /\ \A i \in Item : /\ item'[i].status = "done" => item[i].status = "done"
                         /\ item[i].status = "absent" \/ item'[i].created = item[i].created
  BY OutsideFacts DEF PathInv
<1>3. ASSUME NEW w \in Worker
      PROVE  Q!NextInHand(w)' = Q!NextInHand(w)
  <2>1. \A i \in Q!InHand(w) : i \in Item /\ item'[i].created = item[i].created
    BY <1>2, HandFacts DEF PathInv
  <2>2. Q!InHand(w)' = Q!InHand(w)
    BY <1>2 DEF Q!InHand
  <2>3. QED
    BY <2>1, <2>2 DEF Q!NextInHand
<1>4. SameItem'
  BY <1>1, <1>2, <1>3 DEF PathInv, SameItem, ReadingOf, Q!Idle, Q!InHand
<1>5. sound' \in BOOLEAN /\ (sound' => sound /\ intact') /\ UNCHANGED <<place, line>>
  BY <1>1 DEF PathInv, LinesNamed, names
<1>6. QED
  BY <1>1, <1>2, <1>4, <1>5, JointKept

LEMMA LeaseJoint ==
  ASSUME PathInv, NEW w \in Worker, Worker = {w}, LeaseBatch(w)
  PROVE  Joint'
<1>1. Q!LeaseBatch(w) /\ mode = "server" /\ UNCHANGED <<store, names, readings>>
  BY DEF LeaseBatch, Q!LeaseBatch
<1>2. ~Active(w)
  BY <1>1 DEF Q!LeaseBatch, Q!Idle, Q!NextInHand, PathInv, SameItem
<1>3. worker'[w].pc = "next" /\ \A i \in Item : item'[i].status = "done" => item[i].status = "done"
  BY <1>1, LeaseEffect DEF PathInv, QueueInv
<1>4. QED
  BY <1>1, <1>2, <1>3, QuietKept

LEMMA CloseJoint ==
  ASSUME PathInv, NEW w \in Worker, Worker = {w}, Close(w)
  PROVE  Joint'
<1>1. /\ worker[w].pc # "next" /\ mode = "server" /\ UNCHANGED <<store, names, readings>>
      /\ Q!Drop(w) \/ Q!GoTo(w, "bury", worker[w].at)
      /\ item' = [item EXCEPT ![worker[w].at].status = "failed"] \/ item' = item
  BY DEF Close, Q!Fail, Q!Bury, Q!CompleteErrs
<1>2. worker[w].at \in Item
  BY <1>1 DEF PathInv, QueueInv, HandsRight, Q!InHand
<1>3. worker'[w].pc # "complete"
  BY <1>1, <1>2, DropEffect, GoToEffect DEF PathInv, QueueInv
<1>4. \A i \in Item : item'[i].status = "done" => item[i].status = "done"
  BY <1>1, <1>2 DEF PathInv, QueueInv, Q!TypeOK, Q!ItemRow
<1>5. ~Active(w)
  BY <1>1 DEF PathInv, SameItem
<1>6. QED
  BY <1>1, <1>3, <1>4, <1>5, QuietKept

LEMMA NotBegunJoint ==
  ASSUME PathInv, NEW w \in Worker, Worker = {w}, NotBegun(w)
  PROVE  Joint'
<1>1. /\ ~Active(w) /\ mode = "server" /\ UNCHANGED <<store, names, readings, item>>
      /\ \E i \in Item : Q!GoTo(w, "fail", i)
  BY DEF NotBegun, Active, Q!AppendFails, Q!NextInHand, Q!InHand
<1>2. worker'[w].pc = "fail"
  BY <1>1, GoToEffect DEF PathInv, QueueInv
<1>3. QED
  BY <1>1, <1>2, QuietKept

LEMMA TickEndsJoint ==
  ASSUME PathInv, NEW w \in Worker, Worker = {w}, TickEnds(w)
  PROVE  Joint'
<1>1. /\ ~Active(w) /\ mode = "stopping" /\ UNCHANGED <<store, names, readings, item>>
      /\ worker' = [worker EXCEPT ![w] = Q!IdleWorker]
  BY DEF TickEnds, Active, Q!Crash
<1>2. worker'[w].pc = "next"
  BY <1>1 DEF PathInv, QueueInv, Q!TypeOK, Q!IdleWorker
<1>3. QED
  BY <1>1, <1>2, QuietKept

(* The append of the worker's next item starts. *)
LEMMA BeginJoint ==
  ASSUME PathInv, NEW w \in Worker, Worker = {w}, Begin(w)
  PROVE  Joint'
<1>1. PICK i \in Q!NextInHand(w) : S!Begin(w, ReadingOf(w, i))
  BY DEF Begin
<1>2. /\ i \in Q!InHand(w) /\ worker[w].pc = "next"
      /\ UNCHANGED <<item, readings, worker, mode, place, line, sound>>
  BY <1>1 DEF Begin, Q!NextInHand, queue, names, S!Begin
<1>3. ReadingOf(w, i) \in Reading
  BY <1>2, HandFacts DEF PathInv
<1>4. /\ StoreInv' /\ Steady /\ UNCHANGED intact
      /\ (Active(w)' <=> TRUE) /\ app'[w].id = ReadingOf(w, i)
  BY <1>1, <1>3, BeginKeeps DEF PathInv
<1>5. mode # "ops"
  BY <1>2 DEF PathInv, SameItem, Q!Idle
<1>6. i \in Q!NextInHand(w)' /\ ReadingOf(w, i)' = ReadingOf(w, i)
  BY <1>2 DEF Q!NextInHand, Q!InHand, ReadingOf
<1>7. SameItem'
  BY <1>2, <1>4, <1>5, <1>6 DEF SameItem
<1>8. sound' \in BOOLEAN /\ (sound' => sound /\ intact')
  BY <1>2, <1>4 DEF PathInv, LinesNamed
<1>9. QED
  BY <1>2, <1>4, <1>7, <1>8, JointKept

(* It starts with a wrong count, and nothing is promised any more. *)
LEMMA BeginMiscountsJoint ==
  ASSUME PathInv, NEW w \in Worker, Worker = {w}, BeginMiscounts(w)
  PROVE  Joint'
<1>1. PICK i \in Q!NextInHand(w) : S!BeginMiscounts(w, ReadingOf(w, i))
  BY DEF BeginMiscounts
<1>2. /\ i \in Q!InHand(w) /\ worker[w].pc = "next" /\ sound' = FALSE
      /\ UNCHANGED <<item, readings, worker, mode, place, line>>
  BY <1>1 DEF BeginMiscounts, Q!NextInHand, queue, S!BeginMiscounts
<1>3. ReadingOf(w, i) \in Reading
  BY <1>2, HandFacts DEF PathInv
<1>4. StoreInv' /\ Steady /\ (Active(w)' <=> TRUE) /\ app'[w].id = ReadingOf(w, i)
  BY <1>1, <1>3, BeginMiscountsKeeps DEF PathInv
<1>5. mode # "ops"
  BY <1>2 DEF PathInv, SameItem, Q!Idle
<1>6. i \in Q!NextInHand(w)' /\ ReadingOf(w, i)' = ReadingOf(w, i)
  BY <1>2 DEF Q!NextInHand, Q!InHand, ReadingOf
<1>7. SameItem'
  BY <1>2, <1>4, <1>5, <1>6 DEF SameItem
<1>8. QED
  BY <1>2, <1>4, <1>7, JointKept

LEMMA InAppendJoint ==
  ASSUME PathInv, NEW w \in Worker, Worker = {w}, InAppend(w)
  PROVE  Joint'
<1>1. /\ Active(w)
      /\ GoesOn(w, "written") \/ GoesOn(w, "rollback")
      /\ UNCHANGED <<item, readings, worker, place, line, sound>>
  BY DEF InAppend, S!AppendLine, S!AppendLineErrs, S!CommitIndexErrs, Active, GoesOn,
         S!disk, S!table, S!locks, S!bound, queue, names
<1>2. UNCHANGED <<mode, intact>> /\ app'[w].id = app[w].id
  BY <1>1, GoesOnFacts DEF GoesOn, PathInv
<1>3. StoreInv' /\ Steady
  BY AppendLineKeeps, AppendLineErrsKeeps, CommitIndexErrsKeeps DEF InAppend, PathInv
<1>4. SameItem'
  <2>1. mode' # "ops" /\ worker'[w].pc = "next"
    BY <1>1, <1>2, ActiveFacts
  <2>2. \E i \in Q!NextInHand(w) : app[w].id = ReadingOf(w, i)
    BY <1>1 DEF PathInv, SameItem
  <2>3. Q!NextInHand(w)' = Q!NextInHand(w) /\ \A i : ReadingOf(w, i)' = ReadingOf(w, i)
    BY <1>1 DEF Q!NextInHand, Q!InHand, ReadingOf
  <2>4. \E i \in Q!NextInHand(w)' : app'[w].id = ReadingOf(w, i)'
    BY <1>2, <2>2, <2>3
  <2>5. QED
    BY <2>1, <2>4 DEF SameItem
<1>5. sound' \in BOOLEAN /\ (sound' => sound /\ intact')
  BY <1>1, <1>2 DEF PathInv, LinesNamed
<1>6. QED
  BY <1>1, <1>3, <1>4, <1>5, JointKept

(* An append that has failed leaves nothing in anybody's way: where its    *)
(* rollback leaves the count wrong, the path is no longer sound.            *)
LEMMA AppendFailedJoint ==
  ASSUME PathInv, NEW w \in Worker, Worker = {w}, AppendFailed(w)
  PROVE  Joint'
<1>1. /\ StoreInv' /\ Steady /\ Active(w)
  BY RollbackKeeps DEF AppendFailed, PathInv
<1>2. /\ Leaves(w) /\ UNCHANGED <<mode, item, readings, place, line>>
      /\ sound' = (sound /\ intact') /\ \E i \in Item : Q!GoTo(w, "fail", i)
  BY DEF AppendFailed, Leaves, S!Rollback, S!RollbackErrs, Q!AppendFails, Q!NextInHand, Q!InHand
<1>3. worker'[w].pc = "fail"
  BY <1>2, GoToEffect DEF PathInv, QueueInv
<1>4. mode' # "ops" /\ ~Active(w)'
  BY <1>1, <1>2, ActiveFacts, LeavesFacts DEF PathInv
<1>5. SameItem'
  BY <1>4 DEF SameItem
<1>6. sound' \in BOOLEAN /\ (sound' => sound /\ intact')
  <2>1. intact' \in BOOLEAN
    BY <1>1 DEF StoreInv, S!TypeOK
  <2>2. QED
    BY <1>2, <2>1, Zenon DEF PathInv
<1>7. QED
  BY <1>1, <1>2, <1>3, <1>5, <1>6, JointKept

(* The append is committed: the worker has the number of the line that has *)
(* just come to stay, and that line holds the reading of its item.          *)
LEMMA AppendedJoint ==
  ASSUME PathInv, NEW w \in Worker, Worker = {w}, Appended(w)
  PROVE  Joint'
<1> DEFINE at == app[w].id[1]
<1>1. S!CommitIndex(w) /\ Q!Append(w) /\ worker'[w].at = at
      /\ place' = [place EXCEPT ![w] = app[w].lineNo] /\ UNCHANGED <<line, sound>>
  BY DEF Appended
<1>2. /\ StoreInv' /\ Active(w) /\ UNCHANGED <<file, faults, intact>>
      /\ Base \in Nat /\ Base' = Base + 1 /\ file[Base + 1] = OwnLine(w)
      /\ intact => app[w].lineNo = Base
      /\ faults = 0 => app[w].torn = None
  BY <1>1, CommitIndexKeeps DEF PathInv
<1>3. /\ app[w].id \in Reading /\ at \in Item /\ mode # "ops" /\ app[w].lineNo \in Nat
      /\ app[w].id \in {at} \X Lease
  BY <1>2, ActiveFacts, HolderFacts DEF PathInv, Reading
<1>4. /\ worker'[w].pc = "complete" /\ item' = item
      /\ readings' = [readings EXCEPT ![at] = @ + 1] /\ readings \in [Item -> Nat]
  <2>1. PICK i \in Item : /\ readings' = [readings EXCEPT ![i] = @ + 1]
                          /\ Q!GoTo(w, "complete", i) /\ item' = item
    BY <1>1 DEF Q!Append, Q!NextInHand, Q!InHand
  <2>2. worker'[w].pc = "complete" /\ worker'[w].at = i
    BY <2>1, GoToEffect DEF PathInv, QueueInv
  <2>3. QED
    BY <1>1, <2>1, <2>2 DEF PathInv, QueueInv, Q!TypeOK
<1>5. ~Active(w)' /\ mode' = mode
  BY <1>1, <1>2, LeavesFacts DEF S!CommitIndex, Leaves, PathInv
<1> HIDE DEF at
<1>6. SameItem'
  BY <1>3, <1>5 DEF SameItem
<1>7. place' \in [Worker -> Nat] /\ place'[w] = app[w].lineNo
  BY <1>1, <1>3 DEF PathInv
<1>8. LinesNamed'
  <2>1. SUFFICES ASSUME sound'
                 PROVE  /\ intact' /\ Names(worker[w].at, place[w])'
                        /\ \A i \in Item : item'[i].status = "done" => Names(i, line[i])'
    BY DEF LinesNamed
  <2>2. sound /\ intact /\ \A i \in Item : item[i].status = "done" => Names(i, line[i])
    BY <1>1, <2>1 DEF PathInv, LinesNamed
  <2>3. KeptFile
    BY <1>2 DEF KeptFile
  <2>4. \A i \in Item : item'[i].status = "done" => Names(i, line[i])'
    <3>1. \A i, n : Names(i, n) => Names(i, n)'
      BY <1>2, <2>3, NamesKept DEF PathInv
    <3>2. QED
      BY <1>1, <1>4, <2>2, <3>1
  <2>5. place'[w] = Base /\ place'[w] \in 0..(Base' - 1) /\ file'[place'[w] + 1] = OwnLine(w)
    BY <1>2, <1>7, <2>2
  <2>6. OwnLine(w) \in ({at} \X Lease) \cup {Corrupt}
    BY <1>3 DEF OwnLine
  <2>7. Names(worker[w].at, place[w])'
    BY <1>1, <2>5, <2>6 DEF Names
  <2>8. QED
    BY <1>2, <2>2, <2>4, <2>7
<1>9. FileCounted'
  <2>1. SUFFICES ASSUME faults' = 0, NEW i \in Item
                 PROVE  IsFiniteSet(KeptLines(i)') /\ Cardinality(KeptLines(i)') = readings'[i]
    BY DEF FileCounted
  <2>2. IsFiniteSet(KeptLines(i)) /\ Cardinality(KeptLines(i)) = readings[i]
    BY <1>2, <2>1 DEF PathInv, FileCounted
  <2>3. file[Base + 1] = app[w].id /\ file' = file
    BY <1>2, <2>1 DEF OwnLine
  <2>4. CASE i = at
    <3>1. KeptLines(i)' = KeptLines(i) \cup {Base + 1} /\ Base + 1 \notin KeptLines(i)
      BY <1>2, <1>3, <2>3, <2>4 DEF KeptLines
    <3>2. /\ IsFiniteSet(KeptLines(i)')
          /\ Cardinality(KeptLines(i)') = Cardinality(KeptLines(i)) + 1
      BY <2>2, <3>1, FS_AddElement
    <3>3. QED
      BY <1>3, <1>4, <2>2, <2>4, <3>2
  <2>5. CASE i # at
    <3>1. app[w].id \notin {i} \X Lease
      BY <1>3, <2>5
    <3>2. KeptLines(i)' = KeptLines(i)
      BY <1>2, <2>3, <3>1 DEF KeptLines
    <3>3. QED
      BY <1>3, <1>4, <2>2, <2>5, <3>2
  <2>6. QED
    BY <2>4, <2>5
<1>10. QED
  BY <1>1, <1>2, <1>6, <1>7, <1>8, <1>9 DEF PathInv, Joint

(* The row gets the number that the worker has. *)
LEMMA CompleteJoint ==
  ASSUME PathInv, NEW w \in Worker, Worker = {w}, Complete(w)
  PROVE  Joint'
<1> DEFINE at == worker[w].at
<1>1. /\ worker[w].pc = "complete" /\ mode = "server" /\ Q!Drop(w)
      /\ UNCHANGED <<store, place, sound, readings>>
      /\ item' = IF item[at].status = "leased" THEN [item EXCEPT ![at].status = "done"] ELSE item
      /\ line' = IF item[at].status = "leased" THEN [line EXCEPT ![at] = place[w]] ELSE line
  BY DEF Complete, Q!Complete
<1>2. at \in Item
  BY <1>1 DEF PathInv, QueueInv, HandsRight, Q!InHand
<1>3. worker'[w].pc = "next"
  BY <1>1, <1>2, DropEffect DEF PathInv, QueueInv
<1>4. /\ StoreInv' /\ Steady /\ KeptFile /\ UNCHANGED <<mode, intact>>
      /\ (Active(w)' <=> Active(w)) /\ ~Active(w)
  BY <1>1, StoreRests DEF PathInv, SameItem
<1> HIDE DEF at
<1>5. SameItem'
  BY <1>1, <1>4 DEF SameItem
<1>6. line' \in [Item -> Nat] /\ place[w] \in Nat
  BY <1>1, <1>2 DEF PathInv
<1>7. LinesNamed'
  <2>1. SUFFICES ASSUME sound, NEW i \in Item, item'[i].status = "done"
                 PROVE  Names(i, line[i])'
    BY <1>1, <1>3, <1>4 DEF PathInv, LinesNamed
  <2>2. /\ Names(at, place[w])
        /\ \A j \in Item : item[j].status = "done" => Names(j, line[j])
    BY <1>1, <2>1 DEF PathInv, LinesNamed, at
  <2>3. Names(i, line'[i])
    BY <1>1, <1>2, <1>6, <2>1, <2>2 DEF PathInv, QueueInv, Q!TypeOK, Q!ItemRow
  <2>4. Names(i, line[i])'
    <3>1. \A n : Names(i, n) => Names(i, n)'
      BY <1>4, NamesKept DEF PathInv
    <3>2. QED
      BY <2>3, <3>1
  <2>5. QED
    BY <2>4
<1>8. FileCounted'
  BY <1>1, <1>4, CountKept DEF PathInv
<1>9. QED
  BY <1>1, <1>4, <1>5, <1>6, <1>7, <1>8 DEF PathInv, Joint

LEMMA ExportJoint ==
  ASSUME PathInv, NEW c \in Exporter, ExportRequest(c)
  PROVE  Joint'
<1>1. ExportMoves(c) /\ UNCHANGED <<item, readings, worker, place, line, sound>>
  BY DEF ExportRequest, ReadLine, ExportEnds, ExportMoves, queue, names
<1>2. StoreInv' /\ Steady /\ UNCHANGED <<mode, app, intact>>
  BY <1>1, ExportKeeps DEF PathInv
<1>3. SameItem'
  BY <1>1, <1>2 DEF PathInv, SameItem, Active, Q!Idle, Q!NextInHand, Q!InHand, ReadingOf
<1>4. sound' \in BOOLEAN /\ (sound' => sound /\ intact')
  BY <1>1, <1>2 DEF PathInv, LinesNamed
<1>5. QED
  BY <1>1, <1>2, <1>3, <1>4, JointKept

(* Processes. *)

LEMMA ShutdownJoint ==
  ASSUME PathInv, NEW w \in Worker, Worker = {w}, Shutdown
  PROVE  Joint'
<1>1. /\ StoreInv' /\ Steady /\ UNCHANGED <<item, readings, worker, place, line, sound>>
      /\ mode' = "stopping" /\ UNCHANGED <<app, intact>>
  BY ShutdownKeeps DEF Shutdown, S!Shutdown, queue, names, PathInv
<1>2. SameItem'
  BY <1>1 DEF PathInv, SameItem, Active, Q!NextInHand, Q!InHand, ReadingOf
<1>3. sound' \in BOOLEAN /\ (sound' => sound /\ intact')
  BY <1>1 DEF PathInv, LinesNamed
<1>4. QED
  BY <1>1, <1>2, <1>3, JointKept

LEMMA CrashJoint ==
  ASSUME PathInv, NEW w \in Worker, Worker = {w}, Crash(w)
  PROVE  Joint'
<1>1. /\ worker' = [worker EXCEPT ![w] = Q!IdleWorker]
      /\ UNCHANGED <<item, readings, place, line, sound>>
  BY DEF Crash, Q!Crash, names
<1>2. worker'[w].pc = "next"
  BY <1>1 DEF PathInv, QueueInv, Q!TypeOK, Q!IdleWorker
<1>3. StoreInv' /\ Steady /\ UNCHANGED intact /\ mode' = "server" /\ ~Active(w)'
  <2>1. CASE S!Crash("server")
    BY <2>1, CrashKeepsStore DEF PathInv, S!Crash
  <2>2. CASE ~S!Crash("server")
    <3>1. /\ S!AllIdle /\ mode = "server" /\ counts' = -1
          /\ UNCHANGED <<mode, file, torn, index, manifest, mu, conn, app, req, intact, faults>>
      BY <2>2 DEF Crash
    <3>2. QED
      BY <3>1, StartKeeps DEF PathInv, S!AllIdle, Active
  <2>3. QED
    BY <2>1, <2>2
<1>4. SameItem'
  BY <1>3 DEF SameItem
<1>5. sound' \in BOOLEAN /\ (sound' => sound /\ intact')
  BY <1>1, <1>3 DEF PathInv, LinesNamed
<1>6. QED
  BY <1>1, <1>2, <1>3, <1>4, <1>5, JointKept

LEMMA StartJoint ==
  ASSUME PathInv, NEW m \in {"server", "ops"}, Start(m)
  PROVE  Joint'
<1>1. /\ \A w \in Worker : Q!Idle(w)
      /\ S!AllIdle /\ mode # "server" /\ mode' = m /\ counts' = -1
      /\ UNCHANGED <<file, torn, index, manifest, mu, conn, app, req, intact, faults>>
      /\ UNCHANGED <<item, readings, worker, place, line, sound>>
  BY DEF Start, S!Start, S!disk, S!table, S!locks, S!bound, queue, names
<1>2. StoreInv' /\ Steady
  BY <1>1, StartKeeps DEF PathInv
<1>3. SameItem'
  BY <1>1 DEF SameItem, Active, S!AllIdle, Q!Idle, Q!InHand
<1>4. sound' \in BOOLEAN /\ (sound' => sound /\ intact')
  BY <1>1 DEF PathInv, LinesNamed
<1>5. QED
  BY <1>1, <1>2, <1>3, <1>4, JointKept

LEMMA RebuildJoint ==
  ASSUME PathInv, RebuildIndex
  PROVE  Joint'
<1>1. /\ S!RebuildIndex /\ S!AllIdle /\ intact' = TRUE /\ UNCHANGED <<mode, app>>
      /\ UNCHANGED <<item, readings, worker, place, line, sound>>
  BY DEF RebuildIndex, S!RebuildIndex, queue, names
<1>2. StoreInv' /\ Steady
  BY <1>1, RebuildKeeps DEF PathInv
<1>3. SameItem'
  BY <1>1 DEF PathInv, SameItem, Active, S!AllIdle, Q!Idle, Q!InHand
<1>4. sound' \in BOOLEAN /\ (sound' => sound /\ intact')
  BY <1>1 DEF PathInv, LinesNamed
<1>5. QED
  BY <1>1, <1>2, <1>3, <1>4, JointKept

----------------------------------------------------------------------------
(* The invariant and what follows from it. *)

LEMMA InitPathInv == Init => PathInv
<1> SUFFICES ASSUME Init PROVE PathInv
  OBVIOUS
<1>1. QueueInv
  BY InitQueueInv DEF Init
<1>2. /\ mode = "server" /\ file = <<>> /\ torn = None /\ counts = -1 /\ mu = None /\ faults = 0
      /\ app = [w \in Worker |-> S!NoAppend] /\ intact = TRUE /\ conn = None
      /\ index = [r \in Reading |-> -1] /\ manifest = [count |-> 0, sum |-> <<>>]
      /\ req = [c \in S!Client |-> S!NoRequest]
  BY DEF Init, S!Init
<1>3. /\ S!NoAppend \in S!AppState /\ S!NoRequest \in S!ReqState
      /\ S!NoAppend.pc = "idle" /\ S!NoAppend.id = None
  BY DEF S!NoAppend, S!NoRequest, S!AppState, S!ReqState
<1>4. <<>> \in Seq(S!Line) /\ Len(file) = 0
  BY <1>2
<1>5. S!TypeOK
  BY <1>2, <1>3, <1>4 DEF S!TypeOK
<1>6. (\A w \in Worker : ~Active(w)) /\ Holding
  BY <1>2, <1>3, StoreAssumption DEF Active, Holding
<1>7. StoreInv
  BY <1>2, <1>4, <1>5, <1>6 DEF StoreInv, CountRight, Untroubled
<1>8. /\ \A w \in Worker : worker[w].pc = "next"
      /\ \A i \in Item : item[i].status = "absent" /\ item[i].attempts = 0 /\ readings[i] = 0
      /\ \A w \in Worker, i \in Item : worker[w].batch[i] = 0
  BY DEF Init, Q!Init, Q!IdleWorker, Q!NoRow
<1>9. place \in [Worker -> Nat] /\ line \in [Item -> Nat] /\ sound \in BOOLEAN
  BY DEF Init
<1>10. SameItem /\ LinesNamed
  BY <1>2, <1>6, <1>8 DEF SameItem, LinesNamed
<1>11. OncePerLease
  BY <1>8 DEF OncePerLease, Ahead, Q!InHand
<1>12. FileCounted
  <2>1. \A i \in Item : KeptLines(i) = {}
    BY <1>2, <1>4 DEF KeptLines, Base
  <2>2. QED
    BY <1>8, <2>1, FS_EmptySet DEF FileCounted
<1>13. QED
  BY <1>1, <1>7, <1>9, <1>10, <1>11, <1>12 DEF PathInv

LEMMA NextPathInv == PathInv /\ [Next]_vars => PathInv'
<1> SUFFICES ASSUME PathInv, [Next]_vars PROVE PathInv'
  OBVIOUS
<1>1. [Q!Next]_(Q!vars)
  BY StepImplementsQueue
<1>2. QueueInv' /\ OncePerLease'
  BY <1>1, NextQueueInv, NextOnce DEF PathInv
<1>3. PICK w \in Worker : Worker = {w}
  BY OneProcess
<1>4. CASE UNCHANGED vars
  <2>1. UNCHANGED <<store, item, readings, worker, place, line, sound>>
    BY <1>4 DEF vars, queue, names
  <2>2. StoreInv' /\ Steady /\ UNCHANGED <<mode, intact, app>>
        /\ \A v \in Worker : Active(v)' <=> Active(v)
    BY <2>1, StoreRests DEF PathInv
  <2>3. SameItem'
    BY <2>1, <2>2 DEF PathInv, SameItem, Q!Idle, Q!NextInHand, Q!InHand, ReadingOf
  <2>4. sound' \in BOOLEAN /\ (sound' => sound /\ intact')
    BY <2>1, <2>2 DEF PathInv, LinesNamed
  <2>5. Joint'
    BY <2>1, <2>2, <2>3, <2>4, JointKept
  <2>6. QED
    BY <1>2, <2>5 DEF PathInv, Joint
<1>5. CASE HttpRequest \/ ReclaimExpired \/ Tick
  <2>1. Outside /\ UNCHANGED <<store, names>>
    BY <1>5 DEF HttpRequest, ReclaimExpired, Tick, Outside
  <2>2. QED
    BY <1>2, <2>1, OutsideJoint DEF PathInv, Joint
<1>6. CASE Process(w) \/ TickEnds(w) \/ Crash(w)
  <2>1. Joint'
    BY <1>3, <1>6, LeaseJoint, BeginJoint, BeginMiscountsJoint, NotBegunJoint, InAppendJoint, AppendedJoint,
       AppendFailedJoint, CompleteJoint, CloseJoint, TickEndsJoint, CrashJoint
    DEF Process, AppendStep
  <2>2. QED
    BY <1>2, <2>1 DEF PathInv, Joint
<1>7. CASE Shutdown \/ RebuildIndex \/ \E m \in {"server", "ops"} : Start(m)
  <2>1. Joint'
    BY <1>3, <1>7, ShutdownJoint, RebuildJoint, StartJoint
  <2>2. QED
    BY <1>2, <2>1 DEF PathInv, Joint
<1>8. ASSUME NEW c \in Exporter, ExportRequest(c)
      PROVE  PathInv'
  <2>1. Joint'
    BY <1>8, ExportJoint
  <2>2. QED
    BY <1>2, <2>1 DEF PathInv, Joint
<1>9. QED
  BY <1>3, <1>4, <1>5, <1>6, <1>7, <1>8 DEF Next

LEMMA PathInvariant == Spec => []PathInv
<1>1. QED
  BY InitPathInv, NextPathInv, PTL DEF Spec

(* Every variable keeps to its type, and an append under way is that of     *)
(* the item its worker has next.                                             *)
THEOREM PathTypeCorrect == Spec => []TypeOK
<1>1. PathInv => TypeOK
  <2> SUFFICES ASSUME PathInv PROVE TypeOK
    OBVIOUS
  <2>1. ASSUME NEW w \in Worker, app[w].id # None
        PROVE  worker[w].pc = "next" /\ app[w].id[1] \in Q!NextInHand(w)
    <3>1. Active(w)
      BY <2>1 DEF PathInv, StoreInv, Holding
    <3>2. QED
      BY <3>1, ActiveFacts
  <2>2. QED
    BY <2>1 DEF PathInv, QueueInv, StoreInv, TypeOK
<1>2. QED
  BY <1>1, PathInvariant, PTL

(* The lines as a reader sees them begin with those of the file. *)
LEMMA SeenLines ==
  ASSUME StoreInv
  PROVE  /\ Len(S!Lines) \in Nat /\ Len(S!Lines) >= Base /\ Base \in Nat
         /\ \A n \in 1..Base : S!Lines[n] = file[n]
<1>1. file \in Seq(S!Line) /\ (torn # None => torn \in S!Line) /\ Len(file) \in Nat
  BY DEF StoreInv, S!TypeOK
<1>2. Base \in Nat /\ Base <= Len(file)
  <2>1. CASE mu = None
    BY <1>1, <2>1 DEF Base
  <2>2. CASE mu # None
    <3>1. mu \in Worker /\ Active(mu)
      BY <2>2 DEF StoreInv, S!TypeOK, Holding
    <3>2. QED
      BY <3>1, HolderFacts
  <2>3. QED
    BY <2>1, <2>2
<1>3. CASE torn = None
  BY <1>1, <1>2, <1>3 DEF S!Lines
<1>4. CASE torn # None
  <2>1. /\ Len(S!Lines) = Len(file) + 1
        /\ \A n \in 1..Len(file) : S!Lines[n] = file[n]
    BY <1>1, <1>4, Grown DEF S!Lines
  <2>2. QED
    BY <1>1, <1>2, <2>1
<1>5. QED
  BY <1>3, <1>4

(* A done item leads to its reading, through cancelled appends, crashes,    *)
(* lost leases, repeated appends and rebuilds, as long as no rollback has   *)
(* left the count wrong.                                                     *)
THEOREM DoneLeadsHome == Spec => []DoneNamesItsLine
<1>1. PathInv => DoneNamesItsLine
  <2> SUFFICES ASSUME PathInv, sound, NEW i \in Item, item[i].status = "done"
               PROVE  /\ line[i] < Len(S!Lines)
                      /\ S!Lines[line[i] + 1] \in ({i} \X Lease) \cup {Corrupt}
    BY DEF DoneNamesItsLine
  <2>1. line[i] \in 0..(Base - 1) /\ file[line[i] + 1] \in ({i} \X Lease) \cup {Corrupt}
    BY DEF PathInv, LinesNamed, Names
  <2>2. /\ Len(S!Lines) \in Nat /\ Len(S!Lines) >= Base /\ Base \in Nat
        /\ \A n \in 1..Base : S!Lines[n] = file[n]
    BY SeenLines DEF PathInv
  <2>3. line[i] < Len(S!Lines) /\ line[i] + 1 \in 1..Base
    BY <2>1, <2>2
  <2>4. QED
    BY <2>1, <2>2, <2>3
<1>2. QED
  BY <1>1, PathInvariant, PTL

(* Before the first trouble of the store the file holds, between appends,  *)
(* the readings the queue was told of, one for each lease at most.          *)
THEOREM FileTellsQueue == Spec => []FileFollowsQueue
<1>1. PathInv => FileFollowsQueue
  <2> SUFFICES ASSUME PathInv, faults = 0, mu = None, NEW i \in Item
               PROVE  Cardinality(LinesOf(i)) = readings[i] /\ readings[i] <= item[i].attempts
    BY DEF FileFollowsQueue
  <2>1. S!Lines = file /\ Base = Len(file)
    BY DEF PathInv, StoreInv, Untroubled, S!Lines, Base
  <2>2. LinesOf(i) = KeptLines(i)
    BY <2>1 DEF LinesOf, KeptLines
  <2>3. QED
    BY <2>2 DEF PathInv, FileCounted, OncePerLease
<1>2. QED
  BY <1>1, PathInvariant, PTL

----------------------------------------------------------------------------
(* Refinement.  What the queue holds open and what it closes. *)

Open(i) == item[i].status \in {"pending", "leased"}

(* What a worker has in hand is open, but for the item it has just given   *)
(* up and is about to file.                                                 *)
HandsOpen ==
  \A w \in Worker : \A i \in Q!InHand(w) :
    ~(worker[w].pc = "bury" /\ worker[w].at = i) => Open(i)

(* No two done items name one line, nor does the worker hold the name of a *)
(* done item.                                                               *)
OwnNames ==
  sound =>
    /\ \A i, j \in Item :
         item[i].status = "done" /\ item[j].status = "done" /\ line[i] = line[j] => i = j
    /\ \A w \in Worker, i \in Item :
         worker[w].pc = "complete" /\ item[i].status = "done" => line[i] # place[w]

LogInv == PathInv /\ HandsOpen /\ OwnNames

(* The worker drops the item it is at, or gives it up and goes on to file  *)
(* it; no other row changes its status.                                     *)
LEMMA CloseOpens ==
  ASSUME QueueInv, HandsOpen, NEW w \in Worker, Worker = {w}, worker[w].pc # "next",
         \A j \in Item : j # worker[w].at => item'[j].status = item[j].status,
         Q!Drop(w) \/ Q!GoTo(w, "bury", worker[w].at)
  PROVE  HandsOpen'
<1>1. worker[w].at \in Item /\ worker[w].batch \in [Item -> Nat]
  BY DEF QueueInv, HandsRight, Q!InHand, Q!TypeOK, Q!WorkerState
<1>2. CASE Q!Drop(w)
  <2>1. worker'[w].batch = [worker[w].batch EXCEPT ![worker[w].at] = 0]
    BY <1>1, <1>2, DropEffect DEF QueueInv
  <2>2. \A j \in Item : worker'[w].batch[j] # 0 => j # worker[w].at /\ worker[w].batch[j] # 0
    BY <1>1, <2>1
  <2>3. QED
    BY <2>2 DEF HandsOpen, Q!InHand, Open
<1>3. CASE Q!GoTo(w, "bury", worker[w].at)
  <2>1. /\ worker'[w].pc = "bury" /\ worker'[w].at = worker[w].at
        /\ worker'[w].batch = worker[w].batch
    BY <1>1, <1>3, GoToEffect DEF QueueInv
  <2>2. QED
    BY <2>1 DEF HandsOpen, Q!InHand, Open
<1>4. QED
  BY <1>2, <1>3

(* The steps of the queue and what they are to the phases of the items.    *)
Closes(w, s) ==
  /\ worker[w].at \in Item /\ worker[w].pc # "next"
  /\ item' = [item EXCEPT ![worker[w].at].status = s]

LEMMA ClosesRow ==
  ASSUME QueueInv, NEW w \in Worker, NEW s \in {"done", "failed"}, Closes(w, s)
  PROVE  /\ \A j \in Item : j # worker[w].at => item'[j].status = item[j].status
         /\ item'[worker[w].at].status = s
BY DEF Closes, QueueInv, Q!TypeOK, Q!ItemRow

LEMMA OutsideOpen ==
  ASSUME QueueInv, Outside
  PROVE  \A i \in Item : Open(i) => Open(i)'
<1>1. item \in [Item -> Q!ItemRow]
  BY DEF QueueInv, Q!TypeOK
<1>2. SUFFICES ASSUME NEW j \in Item, Open(j)
               PROVE  Open(j)'
  OBVIOUS
<1>3. CASE Q!ReclaimExpired
  BY <1>1, <1>2, <1>3 DEF Q!ReclaimExpired, Q!ItemRow, Open
<1>4. CASE Q!Tick
  BY <1>1, <1>2, <1>4 DEF Q!Tick, Q!ItemRow, Open
<1>5. ASSUME NEW i \in Item, Q!Enqueue(i) \/ Q!Requeue(i) \/ Q!ResolveFailure(i)
      PROVE  Open(j)'
  BY <1>1, <1>2, <1>5 DEF Q!Enqueue, Q!Requeue, Q!ResolveFailure, Q!ItemRow, Open
<1>6. QED
  BY <1>3, <1>4, <1>5 DEF Outside

LEMMA LeaseOpen ==
  ASSUME QueueInv, NEW w \in Worker, Q!LeaseBatch(w)
  PROVE  /\ \A i \in Item : item'[i].status = item[i].status \/ (Open(i) /\ Open(i)')
         /\ \A i \in Q!InHand(w)' : Open(i)' /\ worker'[w].pc = "next"
<1>1. item \in [Item -> Q!ItemRow] /\ worker \in [Worker -> Q!WorkerState]
      /\ worker[w].pc = "next"
  BY DEF QueueInv, Q!TypeOK, Q!LeaseBatch, Q!Idle
<1>2. PICK T \in SUBSET {i \in Item : Q!Eligible(i)} :
        /\ item' = [i \in Item |->
                      IF i \notin T THEN item[i]
                      ELSE [item[i] EXCEPT !.status = "leased", !.left = TTL,
                                           !.attempts = item[i].attempts + 1]]
        /\ worker' = [worker EXCEPT ![w].batch =
                        [i \in Item |-> IF i \in T THEN item[i].attempts + 1 ELSE 0]]
  BY DEF Q!LeaseBatch, Q!Oldest
<1>3. \A i \in T : Open(i) /\ item'[i].status = "leased"
  BY <1>1, <1>2 DEF Q!Eligible, Open, Q!ItemRow
<1>4. \A i \in Item \ T : item'[i] = item[i]
  BY <1>2
<1>5. worker'[w].pc = "next" /\ worker'[w].batch = [i \in Item |->
                                  IF i \in T THEN item[i].attempts + 1 ELSE 0]
  BY <1>1, <1>2 DEF Q!WorkerState
<1>6. QED
  BY <1>3, <1>4, <1>5 DEF Open, Q!InHand

LEMMA NextHandsOpen ==
  ASSUME QueueInv, HandsOpen, [Q!Next]_(Q!vars)
  PROVE  HandsOpen'
<1>1. PICK w \in Worker : Worker = {w}
  BY OneProcess
<1>2. CASE UNCHANGED Q!vars
  BY <1>2 DEF Q!vars, HandsOpen, Open, Q!InHand
<1>3. CASE Outside
  BY <1>3, OutsideFacts, OutsideOpen DEF HandsOpen, Q!InHand
<1>4. CASE Q!LeaseBatch(w)
  BY <1>1, <1>4, LeaseOpen DEF HandsOpen
<1>5. CASE Q!Append(w) \/ Q!AppendFails(w)
  <2>1. /\ item' = item /\ worker[w].pc = "next"
        /\ \E i \in Item : Q!GoTo(w, "complete", i) \/ Q!GoTo(w, "fail", i)
    BY <1>5 DEF Q!Append, Q!AppendFails, Q!NextInHand, Q!InHand
  <2>2. worker'[w].pc # "bury" /\ worker'[w].batch = worker[w].batch
    BY <2>1, GoToEffect DEF QueueInv
  <2>3. QED
    BY <1>1, <2>1, <2>2 DEF HandsOpen, Open, Q!InHand
<1>6. CASE Q!Complete(w) \/ Q!CompleteErrs(w) \/ Q!Fail(w) \/ Q!Bury(w)
  <2>1. /\ worker[w].pc # "next"
        /\ Q!Drop(w) \/ Q!GoTo(w, "bury", worker[w].at)
        /\ \/ item' = [item EXCEPT ![worker[w].at].status = "done"]
           \/ item' = [item EXCEPT ![worker[w].at].status = "failed"]
           \/ item' = item
    BY <1>6 DEF Q!Complete, Q!CompleteErrs, Q!Fail, Q!Bury
  <2>2. worker[w].at \in Item
    BY <2>1 DEF QueueInv, HandsRight, Q!InHand
  <2>3. \A j \in Item : j # worker[w].at => item'[j].status = item[j].status
    BY <2>1, <2>2, ClosesRow DEF Closes
  <2>4. QED
    BY <1>1, <2>1, <2>3, CloseOpens
<1>7. CASE Q!Crash(w)
  <2>1. worker'[w] = Q!IdleWorker
    BY <1>7 DEF Q!Crash, QueueInv, Q!TypeOK
  <2>2. QED
    BY <1>1, <2>1 DEF HandsOpen, Q!InHand, Q!IdleWorker
<1>8. QED
  BY <1>1, <1>2, <1>3, <1>4, <1>5, <1>6, <1>7 DEF Q!Next, Q!Process, Outside

(* What a step is to the names of the lines. *)
Silent ==
  /\ UNCHANGED <<place, line>> /\ sound' \in {sound, FALSE}
  /\ \A w \in Worker : worker'[w].pc = "complete" => worker[w].pc = "complete"
  /\ \A i \in Item : item'[i].status = "done" => item[i].status = "done"

LEMMA SilentNames ==
  ASSUME OwnNames, Silent, sound \in BOOLEAN
  PROVE  OwnNames'
BY DEF OwnNames, Silent

LEMMA ClosesSilent ==
  ASSUME PathInv, NEW w \in Worker, Worker = {w}, Close(w)
  PROVE  Silent
<1>1. /\ worker[w].pc # "next" /\ UNCHANGED <<place, line, sound>>
      /\ Q!Drop(w) \/ Q!GoTo(w, "bury", worker[w].at)
      /\ item' = [item EXCEPT ![worker[w].at].status = "failed"] \/ item' = item
  BY DEF Close, Q!Fail, Q!Bury, Q!CompleteErrs, names
<1>2. worker[w].at \in Item
  BY <1>1 DEF PathInv, QueueInv, HandsRight, Q!InHand
<1>3. worker'[w].pc # "complete"
  BY <1>1, <1>2, DropEffect, GoToEffect DEF PathInv, QueueInv
<1>4. \A i \in Item : item'[i].status = "done" => item[i].status = "done"
  BY <1>1, <1>2 DEF PathInv, QueueInv, Q!TypeOK, Q!ItemRow
<1>5. QED
  BY <1>1, <1>3, <1>4 DEF Silent

(* Every step but the end of an append and Complete is silent. *)
LEMMA MostlySilent ==
  ASSUME PathInv, NEW w \in Worker, Worker = {w}, [Next]_vars, ~Appended(w), ~Complete(w)
  PROVE  Silent
<1>1. sound \in BOOLEAN /\ QueueInv
  BY DEF PathInv
<1>2. CASE UNCHANGED <<worker, item, place, line>> /\ sound' \in {sound, FALSE}
  BY <1>2 DEF Silent
<1>3. CASE Outside /\ UNCHANGED <<place, line, sound>>
  BY <1>1, <1>3, OutsideFacts DEF Silent
<1>4. CASE LeaseBatch(w)
  BY <1>1, <1>4, LeaseEffect DEF LeaseBatch, names, Silent, QueueInv
<1>5. CASE NotBegun(w) \/ AppendFailed(w)
  <2>1. /\ UNCHANGED <<item, place, line>> /\ sound' \in {sound, FALSE}
        /\ \E i \in Item : Q!GoTo(w, "fail", i)
    BY <1>1, <1>5 DEF NotBegun, AppendFailed, Q!AppendFails, Q!NextInHand, Q!InHand, names
  <2>2. worker'[w].pc = "fail"
    BY <1>1, <2>1, GoToEffect DEF QueueInv
  <2>3. QED
    BY <2>1, <2>2 DEF Silent
<1>6. CASE TickEnds(w) \/ Crash(w)
  <2>1. worker' = [worker EXCEPT ![w] = Q!IdleWorker] /\ UNCHANGED <<item, place, line, sound>>
    BY <1>6 DEF TickEnds, Crash, Q!Crash, names
  <2>2. worker'[w].pc = "next"
    BY <1>1, <2>1 DEF QueueInv, Q!TypeOK, Q!IdleWorker
  <2>3. QED
    BY <2>1, <2>2 DEF Silent
<1>7. CASE Begin(w) \/ BeginMiscounts(w) \/ InAppend(w)
  BY <1>2, <1>7 DEF Begin, BeginMiscounts, InAppend, queue, names
<1>8. CASE Shutdown \/ RebuildIndex \/ \E m \in {"server", "ops"} : Start(m)
  BY <1>2, <1>8 DEF Shutdown, RebuildIndex, Start, queue, names
<1>9. CASE \E c \in Exporter : ExportRequest(c)
  BY <1>2, <1>9 DEF ExportRequest, ReadLine, ExportEnds, queue, names
<1>10. CASE HttpRequest \/ ReclaimExpired \/ Tick
  BY <1>3, <1>10 DEF HttpRequest, ReclaimExpired, Tick, Outside, names
<1>11. CASE UNCHANGED vars
  BY <1>2, <1>11 DEF vars, queue, names
<1>12. QED
  BY <1>4, <1>5, <1>6, <1>7, <1>8, <1>9, <1>10, <1>11, ClosesSilent
  DEF Next, Process, AppendStep

LEMMA AppendedNames ==
  ASSUME PathInv, OwnNames, NEW w \in Worker, Worker = {w}, Appended(w)
  PROVE  OwnNames'
<1>1. /\ S!CommitIndex(w) /\ Q!Append(w)
      /\ place' = [place EXCEPT ![w] = app[w].lineNo] /\ UNCHANGED <<line, sound, item>>
  BY DEF Appended, Q!Append
<1>2. Base \in Nat /\ (intact => app[w].lineNo = Base)
  BY <1>1, CommitIndexKeeps DEF PathInv
<1>3. place'[w] = app[w].lineNo
  BY <1>1 DEF PathInv
<1>4. sound => intact /\ \A i \in Item : item[i].status = "done" => line[i] \in 0..(Base - 1)
  BY DEF PathInv, LinesNamed, Names
<1>5. QED
  BY <1>1, <1>2, <1>3, <1>4 DEF OwnNames

LEMMA CompleteNames ==
  ASSUME PathInv, OwnNames, NEW w \in Worker, Worker = {w}, Complete(w)
  PROVE  OwnNames'
<1> DEFINE at == worker[w].at
<1>1. /\ worker[w].pc = "complete" /\ Q!Drop(w) /\ UNCHANGED <<place, sound>>
      /\ item' = IF item[at].status = "leased" THEN [item EXCEPT ![at].status = "done"] ELSE item
      /\ line' = IF item[at].status = "leased" THEN [line EXCEPT ![at] = place[w]] ELSE line
  BY DEF Complete, Q!Complete
<1>2. at \in Item
  BY <1>1 DEF PathInv, QueueInv, HandsRight, Q!InHand
<1>3. worker'[w].pc = "next"
  BY <1>1, <1>2, DropEffect DEF PathInv, QueueInv
<1> HIDE DEF at
<1>4. /\ \A i \in Item \ {at} : item'[i].status = item[i].status /\ line'[i] = line[i]
      /\ item[at].status # "leased" => item'[at].status = item[at].status /\ line'[at] = line[at]
      /\ item[at].status = "leased" => line'[at] = place[w]
  BY <1>1, <1>2 DEF PathInv, QueueInv, Q!TypeOK, Q!ItemRow
<1>5. QED
  BY <1>1, <1>2, <1>3, <1>4 DEF OwnNames

LEMMA NextLogInv == LogInv /\ [Next]_vars => LogInv'
<1> SUFFICES ASSUME LogInv, [Next]_vars PROVE LogInv'
  OBVIOUS
<1>1. PathInv'
  BY NextPathInv DEF LogInv
<1>2. HandsOpen'
  BY NextHandsOpen, StepImplementsQueue DEF LogInv, PathInv
<1>3. PICK w \in Worker : Worker = {w}
  BY OneProcess
<1>4. OwnNames'
  BY <1>3, MostlySilent, SilentNames, AppendedNames, CompleteNames DEF LogInv, PathInv
<1>5. QED
  BY <1>1, <1>2, <1>4 DEF LogInv

LEMMA InitLogInv == Init => LogInv
<1> SUFFICES ASSUME Init PROVE LogInv
  OBVIOUS
<1>1. /\ \A w \in Worker : worker[w].pc = "next" /\ \A i \in Item : worker[w].batch[i] = 0
      /\ \A i \in Item : item[i].status = "absent"
  BY DEF Init, Q!Init, Q!IdleWorker, Q!NoRow
<1>2. HandsOpen /\ OwnNames
  BY <1>1 DEF HandsOpen, OwnNames, Q!InHand
<1>3. QED
  BY <1>2, InitPathInv DEF LogInv

(* The lines that stay, as a log: it stays as it is, or gets the line of an *)
(* append under way.                                                        *)
GrowsBy(w) == Active(w) /\ Base' = Base + 1 /\ file'[Base + 1] = OwnLine(w)
LogSteps   == KeptFile /\ (Base' = Base \/ \E w \in Worker : GrowsBy(w))

LEMMA BaseBounds ==
  ASSUME StoreInv
  PROVE  /\ Base \in Nat /\ Len(file) \in Nat /\ file \in Seq(S!Line)
         /\ Len(file) \in {Base, Base + 1}
         /\ Len(file) = Base + 1 =>
              \E w \in Worker : Active(w) /\ file[Base + 1] = OwnLine(w)
<1>1. Len(file) \in Nat /\ file \in Seq(S!Line) /\ mu \in Worker \cup {None}
  BY DEF StoreInv, S!TypeOK
<1>2. CASE mu = None
  BY <1>1, <1>2 DEF Base
<1>3. CASE mu # None
  <2>1. mu \in Worker /\ Active(mu) /\ Base = app[mu].size
    BY <1>1, <1>3 DEF StoreInv, Holding, Base
  <2>2. Placed(mu) /\ Base \in Nat
    BY <2>1, HolderFacts
  <2>3. QED
    BY <1>1, <2>1, <2>2 DEF Placed
<1>4. QED
  BY <1>2, <1>3

(* The lock is left with the file as it is, or nobody has had it. *)
LEMMA LogLeft ==
  ASSUME StoreInv, mu' = None, UNCHANGED file
  PROVE  LogSteps
<1>1. Base' = Len(file)
  BY DEF Base
<1>2. QED
  BY <1>1, BaseBounds DEF LogSteps, GrowsBy, KeptFile

(* The append goes on. *)
LEMMA LogGoesOn ==
  ASSUME PathInv, NEW w \in Worker, InAppend(w)
  PROVE  LogSteps
<1>1. Active(w) /\ (GoesOn(w, "written") \/ GoesOn(w, "rollback"))
  BY DEF InAppend, S!AppendLine, S!AppendLineErrs, S!CommitIndexErrs, Active, GoesOn,
         S!disk, S!table, S!locks, S!bound
<1>2. Steady
  BY AppendLineKeeps, AppendLineErrsKeeps, CommitIndexErrsKeeps DEF InAppend, PathInv
<1>3. mu = w /\ mu # None /\ mu' = mu /\ app'[w].size = app[w].size
  BY <1>1, HolderFacts, GoesOnFacts DEF PathInv, GoesOn
<1>4. Base' = Base
  BY <1>3 DEF Base
<1>5. QED
  BY <1>2, <1>4 DEF LogSteps, Steady, KeptFile

(* The append has failed, and its line was cut off, or it was not. *)
LEMMA LogRolledBack ==
  ASSUME PathInv, NEW w \in Worker, AppendFailed(w)
  PROVE  LogSteps
<1>1. Active(w) /\ Steady /\ mu' = None
  BY RollbackKeeps DEF AppendFailed, PathInv, S!Rollback, S!RollbackErrs
<1>2. file' = file \/ file' = SubSeq(file, 1, app[w].size)
  BY DEF AppendFailed, S!Rollback, S!RollbackErrs, S!disk
<1>3. CASE file' = file
  BY <1>1, <1>3, LogLeft DEF PathInv
<1>4. CASE file' = SubSeq(file, 1, app[w].size)
  <2>1. app[w].size \in 0..Len(file) /\ file \in Seq(S!Line) /\ Base = app[w].size
    BY <1>1, HolderFacts DEF PathInv
  <2>2. Len(file') = app[w].size
    BY <1>4, <2>1, Cut
  <2>3. Base' = Base
    BY <1>1, <2>1, <2>2 DEF Base
  <2>4. QED
    BY <1>1, <2>3 DEF LogSteps, Steady, KeptFile
<1>5. QED
  BY <1>2, <1>3, <1>4

LEMMA LogOtherwise ==
  ASSUME PathInv, NEW w \in Worker, Worker = {w}, [Next]_vars
  PROVE  LogSteps
<1>1. StoreInv /\ Base \in Nat
  BY BaseType DEF PathInv
<1>2. CASE UNCHANGED <<file, mu, app>>
  <2>1. Base' = Base
    BY <1>2 DEF Base
  <2>2. QED
    BY <1>1, <1>2, <2>1 DEF LogSteps, KeptFile
<1>3. CASE Begin(w) \/ BeginMiscounts(w)
  <2>1. /\ mu = None /\ mu' = w /\ file' = file /\ app'[w].size = Len(file)
    BY <1>1, <1>3 DEF Begin, BeginMiscounts, S!Begin, S!BeginMiscounts, S!disk, StoreInv, S!TypeOK
  <2>2. Base' = Base
    BY <2>1, StoreAssumption DEF Base
  <2>3. QED
    BY <1>1, <2>1, <2>2 DEF LogSteps, KeptFile
<1>4. CASE Appended(w)
  BY <1>1, <1>4, LogLeft DEF Appended, S!CommitIndex, S!disk
<1>5. CASE Crash(w)
  <2>1. CASE S!Crash("server")
    BY <1>1, <2>1, LogLeft DEF S!Crash
  <2>2. CASE ~S!Crash("server")
    BY <1>2, <1>5, <2>2 DEF Crash
  <2>3. QED
    BY <2>1, <2>2
<1>6. CASE LeaseBatch(w) \/ Complete(w) \/ Close(w) \/ NotBegun(w) \/ TickEnds(w)
  BY <1>2, <1>6 DEF LeaseBatch, Complete, Close, NotBegun, TickEnds, store
<1>7. CASE HttpRequest \/ ReclaimExpired \/ Tick
  BY <1>2, <1>7 DEF HttpRequest, ReclaimExpired, Tick, store
<1>8. CASE Shutdown \/ RebuildIndex \/ \E m \in {"server", "ops"} : Start(m)
  BY <1>2, <1>8 DEF Shutdown, RebuildIndex, Start, S!Shutdown, S!RebuildIndex, S!Start,
                    S!disk, S!locks
<1>9. ASSUME NEW c \in Exporter, ExportRequest(c)
      PROVE  LogSteps
  <2>1. ExportMoves(c)
    BY <1>9 DEF ExportRequest, ReadLine, ExportEnds, ExportMoves
  <2>2. QED
    BY <1>1, <1>2, <2>1, ExportKeeps
<1>10. CASE UNCHANGED vars
  BY <1>2, <1>10 DEF vars, store
<1>11. QED
  BY <1>3, <1>4, <1>5, <1>6, <1>7, <1>8, <1>9, <1>10, LogGoesOn, LogRolledBack
  DEF Next, Process, AppendStep

(* What that is to the log. *)
LEMMA Owners ==
  ASSUME NEW f \in Seq(S!Line), NEW m \in 0..Len(f), NEW g,
         g = [n \in 1..m |-> IF f[n] = Corrupt THEN Corrupt ELSE f[n][1]]
  PROVE  /\ g \in Seq(Item \cup {Corrupt}) /\ Len(g) = m
         /\ \A n \in 1..m : g[n] = IF f[n] = Corrupt THEN Corrupt ELSE f[n][1]
<1>1. ASSUME NEW n \in 1..m
      PROVE  (IF f[n] = Corrupt THEN Corrupt ELSE f[n][1]) \in Item \cup {Corrupt}
  <2>1. f[n] \in S!Line
    OBVIOUS
  <2>2. QED
    BY <2>1 DEF S!Line, Reading
<1>2. m \in Nat
  OBVIOUS
<1>3. QED
  BY <1>1, <1>2

LEMMA LogIs ==
  ASSUME StoreInv
  PROVE  /\ Log \in Seq(Item \cup {Corrupt}) /\ Len(Log) = Base
         /\ \A n \in 1..Base : Log[n] = IF file[n] = Corrupt THEN Corrupt ELSE file[n][1]
<1>1. Base \in 0..Len(file) /\ file \in Seq(S!Line)
  BY BaseBounds
<1>2. Log = [n \in 1..Base |-> IF file[n] = Corrupt THEN Corrupt ELSE file[n][1]]
  BY DEF Log
<1>3. QED
  BY <1>1, <1>2, Owners

LEMMA SameLog ==
  ASSUME StoreInv, KeptFile, Base' = Base
  PROVE  Log' = Log
<1>1. \A n \in 1..Base : file'[n] = file[n]
  BY DEF KeptFile
<1>2. QED
  BY <1>1 DEF Log

LEMMA GrownLog ==
  ASSUME PathInv, StoreInv', KeptFile, NEW w \in Worker, GrowsBy(w)
  PROVE  \E x \in {app[w].id[1], Corrupt} : Log' = Append(Log, x)
<1> DEFINE x == IF OwnLine(w) = Corrupt THEN Corrupt ELSE app[w].id[1]
<1>1. /\ Log \in Seq(Item \cup {Corrupt}) /\ Len(Log) = Base /\ Base \in Nat
      /\ \A n \in 1..Base : Log[n] = IF file[n] = Corrupt THEN Corrupt ELSE file[n][1]
  BY LogIs, BaseType DEF PathInv
<1>2. Base' = Base + 1 /\ file'[Base + 1] = OwnLine(w) /\ \A n \in 1..Base : file'[n] = file[n]
  BY DEF GrowsBy, KeptFile
<1>3. OwnLine(w) # Corrupt => OwnLine(w) = app[w].id
  BY DEF OwnLine
<1>4. x \in {app[w].id[1], Corrupt} /\ app[w].id[1] \in Item
  BY ActiveFacts DEF GrowsBy, Reading
<1>5. /\ Log' \in Seq(Item \cup {Corrupt}) /\ Len(Log') = Base + 1
      /\ \A n \in 1..(Base + 1) : Log'[n] = IF file'[n] = Corrupt THEN Corrupt ELSE file'[n][1]
  <2>1. Base' \in 0..Len(file') /\ file' \in Seq(S!Line)
    <3>1. file' \in Seq(S!Line) /\ Len(file') \in Nat /\ mu' \in Worker \cup {None}
      BY DEF StoreInv, S!TypeOK
    <3>2. CASE mu' = None
      BY <3>1, <3>2 DEF Base
    <3>3. CASE mu' # None
      <4>1. PICK v \in Worker : mu' = v
        BY <3>1, <3>3
      <4>2. Active(v)' /\ Base' = app'[v].size
        BY <3>3, <4>1 DEF StoreInv, Holding, Base
      <4>3. Placed(v)' /\ app'[v].size \in Nat
        BY <4>2 DEF StoreInv, S!TypeOK, S!AppState
      <4>4. QED
        BY <3>1, <4>2, <4>3 DEF Placed
    <3>4. QED
      BY <3>2, <3>3
  <2>2. QED
    BY <1>2, <2>1, Owners DEF Log
<1>6. Log' = Append(Log, x)
  <2>1. x \in Item \cup {Corrupt}
    BY <1>4
  <2>2. /\ Append(Log, x) \in Seq(Item \cup {Corrupt})
        /\ Len(Append(Log, x)) = Base + 1
        /\ \A n \in 1..Base : Append(Log, x)[n] = Log[n]
        /\ Append(Log, x)[Base + 1] = x
    BY <1>1, <2>1, AppendProperties
  <2>3. ASSUME NEW n \in 1..(Base + 1)
        PROVE  Log'[n] = Append(Log, x)[n]
    <3>1. CASE n = Base + 1
      <4>1. Log'[n] = x
        BY <1>1, <1>2, <1>3, <1>5, <3>1
      <4>2. QED
        BY <2>2, <3>1, <4>1
    <3>2. CASE n # Base + 1
      <4>1. n \in 1..Base
        BY <1>1, <3>2
      <4>2. QED
        BY <1>1, <1>2, <1>5, <2>2, <4>1
    <3>3. QED
      BY <3>1, <3>2
  <2>4. QED
    BY <1>5, <2>2, <2>3, SeqEqual
<1>7. QED
  BY <1>4, <1>6

----------------------------------------------------------------------------
(* Every step is one of the log's, or none. *)

LEMMA PhaseIs ==
  ASSUME NEW i \in Item
  PROVE  Phase[i] = IF Open(i) THEN "open" ELSE item[i].status
BY DEF Phase, Open

LEMMA SamePhase ==
  ASSUME \A i \in Item : item'[i].status = item[i].status \/ (Open(i) /\ Open(i)')
  PROVE  Phase' = Phase
BY DEF Phase, Open

(* The status of one row is set. *)
LEMMA PhaseSet ==
  ASSUME QueueInv, NEW i \in Item, NEW s \in {"open", "done", "failed"},
         \A j \in Item : j # i => item'[j].status = item[j].status,
         IF s = "open" THEN Open(i)' ELSE item'[i].status = s
  PROVE  Phase' = [Phase EXCEPT ![i] = s]
BY DEF Phase, Open

(* A step on which no item changes its phase. *)
LEMMA LogAlone ==
  ASSUME LogInv, LogInv', LogSteps, UNCHANGED <<Phase, line>>, sound' \in {sound, FALSE}
  PROVE  L!Next \/ UNCHANGED L!vars
<1>1. KeptFile /\ PathInv /\ StoreInv /\ StoreInv'
  BY DEF LogInv, PathInv, LogSteps
<1>2. CASE Base' = Base
  BY <1>1, <1>2, SameLog DEF L!Next, L!Unsound, L!vars
<1>3. CASE \E w \in Worker : GrowsBy(w)
  <2>1. PICK w \in Worker : GrowsBy(w)
    BY <1>3
  <2>2. \E x \in {app[w].id[1], Corrupt} : Log' = Append(Log, x)
    BY <1>1, <2>1, GrownLog
  <2>3. /\ app[w].id[1] \in Q!InHand(w) /\ app[w].id[1] \in Item /\ worker[w].pc = "next"
    BY <1>1, <2>1, ActiveFacts DEF GrowsBy, Q!NextInHand, Q!InHand
  <2>4. Phase[app[w].id[1]] = "open"
    BY <2>3, PhaseIs DEF LogInv, HandsOpen
  <2>5. QED
    BY <2>2, <2>3, <2>4 DEF L!Next, L!Grow
<1>4. QED
  BY <1>2, <1>3 DEF LogSteps

(* The row of the item that the worker is at is closed. *)
LEMMA LogFinish ==
  ASSUME LogInv, NEW w \in Worker, Worker = {w}, Complete(w), UNCHANGED Log
  PROVE  L!Next \/ UNCHANGED L!vars
<1> DEFINE at == worker[w].at
<1>1. /\ worker[w].pc = "complete" /\ UNCHANGED sound
      /\ item' = IF item[at].status = "leased" THEN [item EXCEPT ![at].status = "done"] ELSE item
      /\ line' = IF item[at].status = "leased" THEN [line EXCEPT ![at] = place[w]] ELSE line
  BY DEF Complete, Q!Complete
<1>2. at \in Item /\ QueueInv /\ StoreInv /\ line \in [Item -> Nat] /\ place[w] \in Nat
  BY <1>1 DEF LogInv, PathInv, QueueInv, HandsRight, Q!InHand
<1>3. CASE item[at].status # "leased"
  <2>1. UNCHANGED <<Phase, line>>
    BY <1>1, <1>3 DEF Phase
  <2>2. QED
    BY <1>1, <2>1 DEF L!vars
<1>4. CASE item[at].status = "leased"
  <2>1. Closes(w, "done")
    BY <1>1, <1>2, <1>4 DEF Closes
  <2>2. Phase' = [Phase EXCEPT ![at] = "done"] /\ Phase[at] = "open"
    BY <1>2, <1>4, <2>1, ClosesRow, PhaseSet, PhaseIs DEF Open
  <2>3. /\ line' \in [Item -> Nat] /\ line'[at] = place[w]
        /\ \A j \in Item \ {at} : line'[j] = line[j]
    BY <1>1, <1>2, <1>4
  <2>4. ASSUME sound
        PROVE  L!Nameable(at, place[w])
    <3>1. Names(at, place[w])
      BY <1>1, <2>4 DEF LogInv, PathInv, LinesNamed
    <3>2. /\ Len(Log) = Base /\ Base \in Nat
          /\ \A n \in 1..Base : Log[n] = IF file[n] = Corrupt THEN Corrupt ELSE file[n][1]
      BY <1>2, LogIs, BaseType
    <3>3. place[w] \in 0..(Len(Log) - 1) /\ place[w] + 1 \in 1..Base
          /\ file[place[w] + 1] \in ({at} \X Lease) \cup {Corrupt}
      BY <3>1, <3>2 DEF Names
    <3>4. Log[place[w] + 1] \in {at, Corrupt}
      BY <3>2, <3>3
    <3>5. ASSUME NEW j \in Item \ {at}, Phase[j] = "done"
          PROVE  line[j] # place[w]
      <4>1. item[j].status = "done"
        BY <3>5, PhaseIs
      <4>2. QED
        BY <1>1, <2>4, <4>1 DEF LogInv, OwnNames
    <3>6. QED
      BY <3>3, <3>4, <3>5 DEF L!Nameable
  <2>5. L!Finish(at)
    BY <1>1, <2>2, <2>3, <2>4 DEF L!Finish
  <2>6. QED
    BY <1>2, <2>5 DEF L!Next
<1>5. QED
  BY <1>3, <1>4

LEMMA LogGivesUp ==
  ASSUME LogInv, NEW w \in Worker, Worker = {w}, Close(w), UNCHANGED Log
  PROVE  L!Next \/ UNCHANGED L!vars
<1>1. UNCHANGED <<line, sound>> /\ QueueInv
  BY DEF Close, names, LogInv, PathInv
<1>2. CASE item' = item
  BY <1>1, <1>2 DEF Phase, L!vars
<1>3. CASE item' # item
  <2>1. /\ worker[w].pc = "fail" /\ worker[w].at \in Q!InHand(w) /\ worker[w].at \in Item
        /\ item' = [item EXCEPT ![worker[w].at].status = "failed"]
    BY <1>1, <1>3 DEF Close, Q!Fail, Q!Bury, Q!CompleteErrs, QueueInv, HandsRight, Q!InHand
  <2>2. Closes(w, "failed")
    BY <2>1 DEF Closes
  <2>3. Phase' = [Phase EXCEPT ![worker[w].at] = "failed"]
    BY <1>1, <2>1, <2>2, ClosesRow, PhaseSet
  <2>4. Phase[worker[w].at] = "open"
    BY <2>1, PhaseIs DEF LogInv, HandsOpen
  <2>5. QED
    BY <1>1, <2>1, <2>3, <2>4 DEF L!Next, L!GiveUp
<1>4. QED
  BY <1>2, <1>3

(* Submissions and re-injections, the reaper and the clock. *)
LEMMA LogOutside ==
  ASSUME LogInv, Outside, UNCHANGED <<Log, line, sound>>
  PROVE  L!Next \/ UNCHANGED L!vars
<1>1. item \in [Item -> Q!ItemRow] /\ QueueInv
  BY DEF LogInv, PathInv, QueueInv, Q!TypeOK
<1>2. CASE UNCHANGED Phase
  BY <1>2 DEF L!vars
<1>3. CASE Q!ReclaimExpired \/ Q!Tick
  <2>1. \A i \in Item : item'[i].status = item[i].status \/ (Open(i) /\ Open(i)')
    BY <1>1, <1>3 DEF Q!ReclaimExpired, Q!Tick, Q!ItemRow, Open
  <2>2. QED
    BY <1>2, <2>1, SamePhase
<1>4. ASSUME NEW i \in Item, Q!ResolveFailure(i)
      PROVE  UNCHANGED Phase
  BY <1>4 DEF Q!ResolveFailure, Phase
<1>5. ASSUME NEW i \in Item, Q!Enqueue(i) \/ Q!Requeue(i)
      PROVE  L!Next \/ UNCHANGED L!vars
  <2>1. Open(i)' /\ \A j \in Item : j # i => item'[j].status = item[j].status
    BY <1>1, <1>5 DEF Q!Enqueue, Q!Requeue, Q!ItemRow, Open
  <2>2. Phase' = [Phase EXCEPT ![i] = "open"]
    BY <1>1, <2>1, PhaseSet
  <2>3. Phase[i] \in {"absent", "open", "done", "failed"}
    BY <1>1, PhaseIs DEF Q!ItemRow, Q!Status, Open
  <2>4. Phase[i] = "open" => Phase' = Phase
    BY <2>2 DEF Phase
  <2>5. QED
    BY <1>2, <2>2, <2>3, <2>4 DEF L!Next, L!Submit, L!Reopen
<1>6. QED
  BY <1>2, <1>3, <1>4, <1>5 DEF Outside

LEMMA StepImplementsLog ==
  ASSUME LogInv, LogInv', [Next]_vars
  PROVE  L!Next \/ UNCHANGED L!vars
<1>1. PICK w \in Worker : Worker = {w}
  BY OneProcess
<1>2. LogSteps /\ PathInv /\ StoreInv /\ sound \in BOOLEAN /\ QueueInv
  BY <1>1, LogOtherwise DEF LogInv, PathInv
<1>3. CASE \/ HttpRequest \/ ReclaimExpired \/ Tick \/ LeaseBatch(w) \/ NotBegun(w)
           \/ TickEnds(w) \/ Complete(w) \/ Close(w)
  <2>1. UNCHANGED Log
    BY <1>3 DEF HttpRequest, ReclaimExpired, Tick, LeaseBatch, NotBegun, TickEnds, Complete,
                Close, store, Log, Base
  <2>2. CASE Outside /\ UNCHANGED names
    BY <2>1, <2>2, LogOutside DEF names
  <2>3. CASE LeaseBatch(w)
    <3>1. UNCHANGED Phase
      BY <1>2, <2>3, LeaseOpen, SamePhase DEF LeaseBatch
    <3>2. QED
      BY <2>1, <2>3, <3>1 DEF LeaseBatch, names, L!vars
  <2>4. CASE UNCHANGED <<item, line, sound>>
    BY <2>1, <2>4 DEF Phase, L!vars
  <2>5. CASE HttpRequest \/ ReclaimExpired \/ Tick
    BY <2>2, <2>5 DEF HttpRequest, ReclaimExpired, Tick, Outside
  <2>6. CASE NotBegun(w) \/ TickEnds(w)
    BY <2>4, <2>6 DEF NotBegun, TickEnds, Q!AppendFails, Q!Crash, names
  <2>7. CASE Complete(w) \/ Close(w)
    BY <1>1, <2>1, <2>7, LogFinish, LogGivesUp
  <2>8. QED
    BY <1>3, <2>3, <2>5, <2>6, <2>7
<1>4. CASE UNCHANGED <<item, line>> /\ sound' \in {sound, FALSE}
  <2>1. UNCHANGED Phase
    BY <1>4 DEF Phase
  <2>2. QED
    BY <1>2, <1>4, <2>1, LogAlone
<1>5. CASE Begin(w) \/ BeginMiscounts(w) \/ InAppend(w) \/ Appended(w) \/ AppendFailed(w)
  BY <1>2, <1>4, <1>5 DEF Begin, BeginMiscounts, InAppend, Appended, AppendFailed,
                          Q!Append, Q!AppendFails, queue, names
<1>6. CASE \/ Crash(w) \/ Shutdown \/ RebuildIndex \/ UNCHANGED vars
           \/ \E m \in {"server", "ops"} : Start(m)
           \/ \E c \in Exporter : ExportRequest(c)
  BY <1>4, <1>6 DEF Crash, Q!Crash, Shutdown, RebuildIndex, Start, ExportRequest, ReadLine,
                    ExportEnds, vars, queue, names
<1>7. QED
  BY <1>1, <1>3, <1>5, <1>6 DEF Next, Process, AppendStep

LEMMA InitImplementsLog == Init => L!Init
<1> SUFFICES ASSUME Init PROVE L!Init
  OBVIOUS
<1>1. mu = None /\ file = <<>> /\ sound = TRUE /\ line = [i \in Item |-> 0]
  BY DEF Init, S!Init
<1>2. Log = <<>>
  <2>1. Base = 0
    BY <1>1 DEF Base
  <2>2. QED
    BY <2>1 DEF Log
<1>3. \A i \in Item : item[i].status = "absent"
  BY DEF Init, Q!Init, Q!NoRow
<1>4. Phase = [i \in Item |-> "absent"]
  BY <1>3 DEF Phase
<1>5. QED
  BY <1>1, <1>2, <1>4 DEF L!Init

(* The path implements the log: whatever fails, is cancelled, crashes or is *)
(* re-injected, no line that stays is taken back, only open items add one,  *)
(* and a done item names a line of its own, as long as the counts are       *)
(* right.                                                                   *)
THEOREM PathImplementsLog == Spec => ImplementsLog
<1>1. LogInv /\ LogInv' /\ [Next]_vars => [L!Next]_(L!vars)
  BY StepImplementsLog
<1>2. QED
  BY <1>1, InitImplementsLog, InitLogInv, NextLogInv, PTL DEF Spec, ImplementsLog, L!Spec

============================================================================
