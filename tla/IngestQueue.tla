---------------------------- MODULE IngestQueue ----------------------------
(***************************************************************************)
(* The ingest queue: readings wait in ingest_queue, workers lease them in  *)
(* batches, append each to the reading store and close it, or fail it and, *)
(* once its attempts are used up, file a dead letter that an operator can  *)
(* re-inject.  A reaper returns expired leases.                            *)
(*                                                                         *)
(* Every database statement or transaction below is one step; a worker can *)
(* crash, and its lease can run out, between any two of them.  Time is     *)
(* relative: a lease carries the ticks it has left.                        *)
(***************************************************************************)
EXTENDS Integers, FiniteSets

CONSTANTS
  Item,         \* submissions
  Malformed,    \* those whose payload does not decode
  Worker,       \* processes that run the collector task on one database
  BatchSize,    \* IngestBatchSize
  MaxAttempts,  \* RetryPolicy.MaxAttempts
  TTL,          \* LeaseTTL in ticks of the clock
  NoItem,
  MaxTrouble    \* bound: crashes, stalls, database errors and re-injections

ASSUME ItemAssumption == Malformed \subseteq Item /\ NoItem \notin Item
ASSUME PolicyAssumption ==
  BatchSize \in Nat \ {0} /\ MaxAttempts \in Nat \ {0} /\ TTL \in Nat /\ MaxTrouble \in Nat

VARIABLES
  item,      \* ingest_queue
  readings,  \* readings[i]: how many readings were appended for item i
  filed,     \* filed[i]: dead letters ever recorded for item i
  open,      \* open[i]: those not marked resolved
  worker,    \* where each worker is in ProcessBatch
  trouble    \* how much of MaxTrouble is used

vars == <<item, readings, filed, open, worker, trouble>>

Status == {"absent", "pending", "leased", "done", "failed"}

(* left: ticks until lease_expires_at, -1 once it has passed.  created: the *)
(* place of created_at among the others'.                                   *)
ItemRow == [status : Status, left : -1..TTL, attempts : Nat, created : Nat]

(* batch[i]: the attempt number under which the worker leased i, 0 when i is *)
(* not, or no longer, in its hands.                                          *)
WorkerState == [pc    : {"next", "complete", "fail", "bury"},
                at    : Item \cup {NoItem},
                batch : [Item -> Nat]]

NoRow      == [status |-> "absent", left |-> -1, attempts |-> 0, created |-> 0]
IdleWorker == [pc |-> "next", at |-> NoItem, batch |-> [i \in Item |-> 0]]

TypeOK ==
  /\ item     \in [Item -> ItemRow]
  /\ readings \in [Item -> Nat]
  /\ filed    \in [Item -> Nat]
  /\ open     \in [Item -> Nat]
  /\ worker   \in [Worker -> WorkerState]
  /\ trouble  \in Nat

Init ==
  /\ item     = [i \in Item |-> NoRow]
  /\ readings = [i \in Item |-> 0]
  /\ filed    = [i \in Item |-> 0]
  /\ open     = [i \in Item |-> 0]
  /\ worker   = [w \in Worker |-> IdleWorker]
  /\ trouble  = 0

InHand(w) == {i \in Item : worker[w].batch[i] # 0}
Idle(w)   == worker[w].pc = "next" /\ InHand(w) = {}

(* Something goes wrong, or an operator intervenes, within the bound. *)
Trouble == trouble < MaxTrouble /\ trouble' = trouble + 1

----------------------------------------------------------------------------
(* A submission of a collecting collector is queued: after all others or    *)
(* with the same created_at as the last.                                    *)
Newest == CHOOSE n \in {item[i].created : i \in Item} :
            \A i \in Item : item[i].created <= n

Enqueue(i) ==
  /\ item[i].status = "absent"
  /\ \E t \in {Newest, Newest + 1} \ {0} :
       item' = [item EXCEPT ![i].status = "pending", ![i].created = t]
  /\ UNCHANGED <<readings, filed, open, worker, trouble>>

----------------------------------------------------------------------------
(* LeaseBatch: one transaction. *)

Expired(i) == item[i].left < 0

(* The query also asks for attempts that are left. *)
EligibleUnderLimit(i) ==
  /\ item[i].status = "pending" \/ (item[i].status = "leased" /\ Expired(i))
  /\ item[i].attempts < MaxAttempts

Eligible(i) == item[i].status = "pending" \/ (item[i].status = "leased" /\ Expired(i))

(* ORDER BY created_at LIMIT n; the order of equal times is open. *)
Oldest(S, n) ==
  {T \in SUBSET S :
     /\ Cardinality(T) = IF Cardinality(S) < n THEN Cardinality(S) ELSE n
     /\ \A i \in T, j \in S \ T : item[i].created <= item[j].created}

LeaseBatch(w) ==
  /\ Idle(w)
  /\ \E T \in Oldest({i \in Item : Eligible(i)}, BatchSize) :
       /\ T # {}
       /\ item' = [i \in Item |->
                     IF i \notin T THEN item[i]
                     ELSE [item[i] EXCEPT !.status = "leased", !.left = TTL,
                                          !.attempts = @ + 1]]
       /\ worker' = [worker EXCEPT ![w].batch =
                       [i \in Item |-> IF i \in T THEN item[i].attempts + 1 ELSE 0]]
  /\ UNCHANGED <<readings, filed, open, trouble>>

----------------------------------------------------------------------------
(* processOne: the items of a batch in the order they were selected. *)

NextInHand(w) == {i \in InHand(w) : \A j \in InHand(w) : item[i].created <= item[j].created}

GoTo(w, pc, i) == worker' = [worker EXCEPT ![w].pc = pc, ![w].at = i]
Drop(w)        == worker' = [worker EXCEPT ![w].pc = "next", ![w].at = NoItem,
                                           ![w].batch[worker[w].at] = 0]

(* The reading is on its shard and in the index; it gets a new id, so an    *)
(* earlier reading of the same item does not stand in its way.              *)
Append(w) ==
  /\ worker[w].pc = "next"
  /\ \E i \in NextInHand(w) \ Malformed :
       /\ readings' = [readings EXCEPT ![i] = @ + 1]
       /\ GoTo(w, "complete", i)
  /\ UNCHANGED <<item, filed, open, trouble>>

(* The error of Append is not looked at. *)
AppendFailsSilently(w) ==
  /\ worker[w].pc = "next"
  /\ \E i \in NextInHand(w) : GoTo(w, "complete", i)
  /\ UNCHANGED <<item, readings, filed, open, trouble>>

(* The payload does not decode, or nothing could be appended. *)
AppendFails(w) ==
  /\ worker[w].pc = "next"
  /\ \E i \in NextInHand(w) : GoTo(w, "fail", i)
  /\ UNCHANGED <<item, readings, filed, open, trouble>>

(* UPDATE ... WHERE status = 'leased', whoever leased it; the conflict that  *)
(* it reports otherwise goes to the summary.                                 *)
Complete(w) ==
  /\ worker[w].pc = "complete"
  /\ LET i == worker[w].at
     IN  item' = IF item[i].status = "leased" THEN [item EXCEPT ![i].status = "done"] ELSE item
  /\ Drop(w)
  /\ UNCHANGED <<readings, filed, open, trouble>>

CompleteErrs(w) ==
  /\ worker[w].pc = "complete"
  /\ Trouble
  /\ Drop(w)
  /\ UNCHANGED <<item, readings, filed, open>>

(* Dead letters from the last attempt but one. *)
ExhaustedEarly(w) ==
  worker[w].at \in Malformed \/ worker[w].batch[worker[w].at] + 1 >= MaxAttempts

(* Dead letters are due for a payload that does not decode and for the last *)
(* attempt, by the number the lease was given.                              *)
Exhausted(w) ==
  worker[w].at \in Malformed \/ worker[w].batch[worker[w].at] >= MaxAttempts

(* Fail updates the row whatever its status is; its own error is ignored.   *)
Fail(w) ==
  /\ worker[w].pc = "fail"
  /\ \/ item' = [item EXCEPT ![worker[w].at].status = "failed"] /\ UNCHANGED trouble
     \/ Trouble /\ UNCHANGED item
  /\ IF Exhausted(w) THEN GoTo(w, "bury", worker[w].at) ELSE Drop(w)
  /\ UNCHANGED <<readings, filed, open>>

(* deadLetter: Record inserts a letter, or its error is logged. *)
Bury(w) ==
  /\ worker[w].pc = "bury"
  /\ LET i == worker[w].at
     IN  \/ /\ filed' = [filed EXCEPT ![i] = @ + 1]
            /\ open'  = [open EXCEPT ![i] = @ + 1]
            /\ UNCHANGED trouble
         \/ Trouble /\ UNCHANGED <<filed, open>>
  /\ Drop(w)
  /\ UNCHANGED <<item, readings>>

(* The process dies, or its context is cancelled and every further          *)
(* statement fails; it starts again with nothing in hand.                   *)
Crash(w) ==
  /\ ~Idle(w)
  /\ Trouble
  /\ worker' = [worker EXCEPT ![w] = IdleWorker]
  /\ UNCHANGED <<item, readings, filed, open>>

----------------------------------------------------------------------------
(* The reaper, the operator and the clock. *)

(* UPDATE ... WHERE lease_expires_at < now, without the status. *)
ReclaimAny ==
  /\ \E i \in Item : item[i].status # "absent" /\ Expired(i)
  /\ item' = [i \in Item |->
                IF item[i].status \notin {"absent", "pending"} /\ Expired(i)
                THEN [item[i] EXCEPT !.status = "pending"] ELSE item[i]]
  /\ UNCHANGED <<readings, filed, open, worker, trouble>>

ReclaimExpired ==
  /\ \E i \in Item : item[i].status = "leased" /\ Expired(i)
  /\ item' = [i \in Item |->
                IF item[i].status = "leased" /\ Expired(i)
                THEN [item[i] EXCEPT !.status = "pending", !.left = -1] ELSE item[i]]
  /\ UNCHANGED <<readings, filed, open, worker, trouble>>

(* Re-injecting any letter on file, resolved or not, returns its item to    *)
(* pending, whatever the item's status is.                                  *)
Requeue(i) ==
  /\ filed[i] > 0
  /\ Trouble
  /\ item' = [item EXCEPT ![i].status = "pending", ![i].left = -1]
  /\ \/ open[i] > 0 /\ open' = [open EXCEPT ![i] = @ - 1]
     \/ open[i] < filed[i] /\ UNCHANGED open
  /\ UNCHANGED <<readings, filed, worker>>

(* A letter that is already resolved is counted off again. *)
ResolveAnyFailure(i) ==
  /\ filed[i] > 0
  /\ open' = [open EXCEPT ![i] = @ - 1]
  /\ UNCHANGED <<item, readings, filed, worker, trouble>>

(* Resolving a letter that is already resolved changes nothing. *)
ResolveFailure(i) ==
  /\ open[i] > 0
  /\ open' = [open EXCEPT ![i] = @ - 1]
  /\ UNCHANGED <<item, readings, filed, worker, trouble>>

(* Time passes.  It counts as a stall when it takes the lease of an item    *)
(* from the worker that still has it in hand.                               *)
Stalled(w) ==
  \E i \in InHand(w) : /\ item[i].status = "leased" /\ item[i].left = 0
                       /\ item[i].attempts = worker[w].batch[i]

Tick ==
  /\ \E i \in Item : ~Expired(i)
  /\ item' = [i \in Item |-> IF Expired(i) THEN item[i] ELSE [item[i] EXCEPT !.left = @ - 1]]
  /\ IF \E w \in Worker : Stalled(w) THEN Trouble ELSE UNCHANGED trouble
  /\ UNCHANGED <<readings, filed, open, worker>>

----------------------------------------------------------------------------
Process(w) ==
  \/ LeaseBatch(w)
  \/ Append(w)
  \/ AppendFails(w)
  \/ Complete(w)
  \/ CompleteErrs(w)
  \/ Fail(w)
  \/ Bury(w)

Next ==
  \/ \E i \in Item : Enqueue(i) \/ Requeue(i) \/ ResolveFailure(i)
  \/ \E w \in Worker : Process(w) \/ Crash(w)
  \/ ReclaimExpired
  \/ Tick

Spec == Init /\ [][Next]_vars

(* The scheduler ticks the collector and the reaper for ever, whatever the  *)
(* last tick returned, and time passes.  Nobody has to submit anything, to  *)
(* re-inject a letter, or to crash.                                          *)
Fairness ==
  /\ \A w \in Worker : WF_vars(Process(w))
  /\ WF_vars(ReclaimExpired)
  /\ WF_vars(Tick)

FairSpec == Spec /\ Fairness

----------------------------------------------------------------------------
(* Safety. *)

(* A queue row that says "done" has its reading, whichever of the workers   *)
(* that held it closed it.                                                   *)
DoneHasReading == \A i \in Item : item[i].status = "done" => readings[i] > 0

(* One letter for each exhausted lease at most: an item that has attempts   *)
(* left is not among the dead letters, not even after lost leases.          *)
LettersEarned ==
  \A i \in Item :
    filed[i] <= IF i \in Malformed THEN item[i].attempts
                ELSE IF item[i].attempts < MaxAttempts THEN 0
                ELSE item[i].attempts - MaxAttempts + 1

(* A completed item is reopened by an operator only, or by the late failure *)
(* of a worker that shared it with another: never by the reaper, by a new   *)
(* lease, or when the item was leased once.                                 *)
LateFail(w, i) == worker[w].pc = "fail" /\ worker[w].at = i /\ item[i].attempts > 1

DoneIsFinal ==
  [][\A i \in Item :
       item[i].status = "done" /\ item'[i].status # "done" =>
         Requeue(i) \/ \E w \in Worker : Fail(w) /\ LateFail(w, i)]_vars

----------------------------------------------------------------------------
(* Liveness: "a crashed worker's lease expires so the next tick reclaims    *)
(* the item" (orchestration/ingest.go:16): whatever is accepted is done or  *)
(* failed in the end.                                                        *)
EveryItemSettles ==
  \A i \in Item :
    item[i].status \in {"pending", "leased"} ~> item[i].status \in {"done", "failed"}

----------------------------------------------------------------------------
(* A statement of the sources that the code does not keep. *)

(* "a bounded number of attempts ..., after which work is dead-lettered"    *)
(* (orchestration/services.go:61): an item that was given up, and that no   *)
(* worker is about to file, has a dead letter.                               *)
FailedIsDeadLettered ==
  \A i \in Item :
    item[i].status = "failed" /\ (\A w \in Worker : i \notin InHand(w)) => filed[i] > 0

============================================================================
