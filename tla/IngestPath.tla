----------------------------- MODULE IngestPath -----------------------------
(***************************************************************************)
(* The way of a reading, from its submission to its line: IngestQueue and  *)
(* ReadingStore put together, as IngestService.processOne and one server   *)
(* process do.  What IngestQueue takes for one step, Append, is here the   *)
(* store's sequence of them; a crash or a shutdown hits both, the lease    *)
(* runs out in the middle of an append, and rebuild-index runs while the   *)
(* queue holds whatever the dead server left in it.  Every statement of    *)
(* the queue and every commit of the store needs the one connection, which *)
(* an export keeps while it waits for the shard lock.                      *)
(*                                                                         *)
(* A reading is named by its item and the lease under which it was         *)
(* appended: each append gives it a new id.                                *)
(***************************************************************************)
EXTENDS Integers, Sequences, FiniteSets

CONSTANTS
  Item, Malformed, Worker, BatchSize, MaxAttempts, TTL, NoItem,
  MaxTrouble,    \* bound: troubles of the queue
  Exporter,      \* requests for an export
  None, Corrupt,
  MaxFaults      \* bound: troubles of the store

ASSUME OneProcess == \E w \in Worker : Worker = {w}
ASSUME QueueAssumption ==
  /\ Malformed \subseteq Item /\ NoItem \notin Item
  /\ BatchSize \in Nat \ {0} /\ MaxAttempts \in Nat \ {0} /\ TTL \in Nat /\ MaxTrouble \in Nat

VARIABLES
  item, readings, filed, open, worker, trouble,        \* of IngestQueue
  mode, file, torn, index, manifest, counts, mu, conn, \* of ReadingStore
  app, req, intact, faults,
  place,  \* the line number that Append returned to the worker
  line,   \* ingest_queue.line_no
  sound   \* history: intact has always held

queue == <<item, readings, filed, open, worker, trouble>>
store == <<mode, file, torn, index, manifest, counts, mu, conn, app, req, intact, faults>>
names == <<place, line, sound>>
vars  == <<queue, store, names>>

(* An item is leased again only after a trouble. *)
Lease   == 1..(MaxTrouble + 1)
Reading == Item \X Lease

ASSUME StoreAssumption ==
  /\ Corrupt \notin Reading /\ None \notin Reading \cup {Corrupt} \cup Worker \cup Exporter
  /\ Worker \cap Exporter = {}
  /\ MaxFaults \in Nat

Q == INSTANCE IngestQueue
S == INSTANCE ReadingStore WITH
       Appender <- Worker, Getter <- {},
       trouble <- faults, MaxTrouble <- MaxFaults

ReadingOf(w, i) == <<i, worker[w].batch[i]>>

TypeOK ==
  /\ Q!TypeOK
  /\ S!TypeOK
  /\ place \in [Worker -> Nat]
  /\ line  \in [Item -> Nat]
  /\ sound \in BOOLEAN
  /\ \A w \in Worker :
       app[w].id # None => worker[w].pc = "next" /\ app[w].id[1] \in Q!NextInHand(w)

Init ==
  /\ Q!Init
  /\ S!Init
  /\ place = [w \in Worker |-> 0]
  /\ line  = [i \in Item |-> 0]
  /\ sound = TRUE

----------------------------------------------------------------------------
(* Steps of one side alone. *)

(* HTTP requests reach the queue, those still in flight after SIGTERM too;  *)
(* they do not take the last trouble from the tick of a stopping server,    *)
(* TickEnds.                                                                 *)
HttpRequest ==
  /\ mode # "ops" /\ conn = None
  /\ \E i \in Item : Q!Enqueue(i) \/ Q!Requeue(i) \/ Q!ResolveFailure(i)
  /\ mode = "stopping" => trouble' = trouble \/ \A w \in Worker : Q!Idle(w)
  /\ UNCHANGED <<store, names>>

(* The scheduler's reaper. *)
ReclaimExpired ==
  /\ mode = "server" /\ conn = None
  /\ Q!ReclaimExpired
  /\ UNCHANGED <<store, names>>

(* Nor does a stall take the last trouble. *)
Tick ==
  /\ Q!Tick
  /\ mode = "stopping" => trouble' = trouble
  /\ UNCHANGED <<store, names>>

LeaseBatch(w) ==
  /\ mode = "server" /\ conn = None
  /\ Q!LeaseBatch(w)
  /\ UNCHANGED <<store, names>>

(* After the append: Fail, the dead letter, and Complete's error. *)
Close(w) ==
  /\ mode = "server" /\ conn = None
  /\ Q!Fail(w) \/ Q!Bury(w) \/ Q!CompleteErrs(w)
  /\ UNCHANGED <<store, names>>

(* Requests for an export, and those who gave up waiting for one. *)
ReadLine(c)   == S!ReadLine(c)   /\ UNCHANGED <<queue, names>>
ExportEnds(c) == S!ExportEnds(c) /\ UNCHANGED <<queue, names>>

ExportRequest(c) ==
  \/ ReadLine(c)
  \/ ExportEnds(c)
  \/ (S!Export(c) \/ S!Disconnect(c)) /\ UNCHANGED <<queue, names>>

----------------------------------------------------------------------------
(* processOne. *)

(* Any item of the batch is next. *)
BeginAny(w) ==
  /\ worker[w].pc = "next"
  /\ \E i \in Q!InHand(w) \ Malformed : S!Begin(w, ReadingOf(w, i))
  /\ UNCHANGED <<queue, names>>

Begin(w) ==
  /\ worker[w].pc = "next"
  /\ \E i \in Q!NextInHand(w) \ Malformed : S!Begin(w, ReadingOf(w, i))
  /\ UNCHANGED <<queue, names>>

(* The file that is to be counted cannot be read, and counts as empty. *)
BeginMiscounts(w) ==
  /\ worker[w].pc = "next"
  /\ \E i \in Q!NextInHand(w) \ Malformed : S!BeginMiscounts(w, ReadingOf(w, i))
  /\ sound' = FALSE
  /\ UNCHANGED <<queue, place, line>>

(* The payload does not decode, or the shard cannot be opened or sized. *)
NotBegun(w) ==
  /\ mode = "server" /\ app[w].pc = "idle"
  /\ Q!AppendFails(w)
  /\ UNCHANGED <<store, names>>

InAppend(w) ==
  /\ S!AppendLine(w) \/ S!AppendLineErrs(w) \/ S!CommitIndexErrs(w)
  /\ UNCHANGED <<queue, names>>

(* Append returns after the commit, with the line number of its lease. *)
Appended(w) ==
  /\ S!CommitIndex(w)
  /\ Q!Append(w) /\ worker'[w].at = app[w].id[1]
  /\ place' = [place EXCEPT ![w] = app[w].lineNo]
  /\ UNCHANGED <<line, sound>>

(* The commit's error is taken for a success. *)
AppendFailedSilently(w) ==
  /\ S!Rollback(w) \/ S!RollbackErrs(w)
  /\ Q!Append(w) /\ worker'[w].at = app[w].id[1]
  /\ place' = [place EXCEPT ![w] = app[w].lineNo]
  /\ UNCHANGED <<line, sound>>

(* The append is tried again, at once and for ever. *)
AppendFailedRetries(w) ==
  /\ S!Rollback(w) \/ S!RollbackErrs(w)
  /\ sound' = (sound /\ intact')
  /\ UNCHANGED <<queue, place, line>>

(* Append returns the error of the write or the commit. *)
AppendFailed(w) ==
  /\ S!Rollback(w) \/ S!RollbackErrs(w)
  /\ Q!AppendFails(w) /\ worker'[w].at = app[w].id[1]
  /\ sound' = (sound /\ intact')
  /\ UNCHANGED <<place, line>>

(* Complete writes the line number into the row it closes. *)
Complete(w) ==
  /\ mode = "server" /\ conn = None
  /\ Q!Complete(w)
  /\ line' = LET i == worker[w].at
             IN  IF item[i].status = "leased" THEN [line EXCEPT ![i] = place[w]] ELSE line
  /\ UNCHANGED <<store, place, sound>>

----------------------------------------------------------------------------
(* Processes. *)

(* The context of the scheduler's tasks is cancelled: the append under way  *)
(* gets its error, and every statement after it too.                        *)
Shutdown == S!Shutdown /\ trouble < MaxTrouble /\ UNCHANGED <<queue, names>>

(* What the cancelled tick had in hand stays leased. *)
TickEnds(w) ==
  /\ mode = "stopping" /\ app[w].pc = "idle"
  /\ Q!Crash(w)
  /\ UNCHANGED <<store, names>>

Crash(w) ==
  /\ \/ S!Crash("server")
     \/ S!AllIdle /\ mode = "server" /\ counts' = -1
        /\ UNCHANGED <<mode, file, torn, index, manifest, mu, conn, app, req, intact, faults>>
  /\ Q!Crash(w)
  /\ UNCHANGED names

(* The next server, or an ops command when nothing is in anybody's hands. *)
Start(m) ==
  /\ \A w \in Worker : Q!Idle(w)
  /\ S!Start(m)
  /\ UNCHANGED <<queue, names>>

RebuildIndex == S!RebuildIndex /\ UNCHANGED <<queue, names>>

----------------------------------------------------------------------------
AppendStep(w) ==
  \/ Begin(w)
  \/ BeginMiscounts(w)
  \/ NotBegun(w)
  \/ InAppend(w)
  \/ Appended(w)
  \/ AppendFailed(w)

Process(w) == LeaseBatch(w) \/ AppendStep(w) \/ Complete(w) \/ Close(w)

Next ==
  \/ HttpRequest
  \/ ReclaimExpired
  \/ Tick
  \/ \E c \in Exporter : ExportRequest(c)
  \/ \E w \in Worker : Process(w) \/ TickEnds(w) \/ Crash(w)
  \/ Shutdown
  \/ \E m \in {"server", "ops"} : Start(m)
  \/ RebuildIndex

Spec == Init /\ [][Next]_vars

(* As in IngestQueue and ReadingStore: database/sql hands the connection to *)
(* those who wait for it in turn, so that a task or an export that can go   *)
(* on again and again does.  A server that was stopped, or that makes room  *)
(* for an ops command, is started again.  Nobody has to submit, to export,  *)
(* to disconnect, or to crash.                                               *)
Fairness ==
  /\ \A w \in Worker : SF_vars(Process(w)) /\ WF_vars(TickEnds(w))
  /\ SF_vars(ReclaimExpired)
  /\ \A c \in Exporter : SF_vars(ReadLine(c)) /\ WF_vars(ExportEnds(c))
  /\ WF_vars(Tick)
  /\ SF_vars(Start("server"))

FairSpec == Spec /\ Fairness

----------------------------------------------------------------------------
(* Safety. *)

LinesOf(i) == {n \in 1..Len(S!Lines) : S!Lines[n] \in {i} \X Lease}

(* A done item leads to its reading: the line number that Complete stored,  *)
(* on the word of a cached count, names a line that holds a reading of this *)
(* item or, where a crash tore a line, nothing that decodes.  This through  *)
(* cancelled appends, crashes in the middle of one, leases that run out     *)
(* while it is under way, repeated appends and rebuilds; only a rollback    *)
(* that fails half-way may break it, and then for good: a rebuild puts the  *)
(* index right, but not the rows of the queue.                              *)
DoneNamesItsLine ==
  sound => \A i \in Item :
    item[i].status = "done" =>
      /\ line[i] < Len(S!Lines)
      /\ S!Lines[line[i] + 1] \in ({i} \X Lease) \cup {Corrupt}

(* Without a crash or a cancelled append, the file holds between two        *)
(* appends exactly the readings the queue was told of: none for a failed    *)
(* attempt, and at most one for each lease, however often an item was       *)
(* leased.                                                                  *)
FileFollowsQueue ==
  faults = 0 /\ mu = None =>
    \A i \in Item :
      /\ Cardinality(LinesOf(i)) = readings[i]
      /\ readings[i] <= item[i].attempts

----------------------------------------------------------------------------
(* Refinement: the lines that no append under way can take back are a log   *)
(* that only grows, by open items; and each done item names a line of its   *)
(* own, as ReadingLog promises, also when appends fail or are cancelled and *)
(* their rollbacks fail, when a crash leaves a line that was never          *)
(* committed, and when an item is done twice.                               *)
Base == IF mu = None THEN Len(file) ELSE app[mu].size

Log   == [n \in 1..Base |-> IF file[n] = Corrupt THEN Corrupt ELSE file[n][1]]
Phase == [i \in Item |-> IF item[i].status \in {"pending", "leased"} THEN "open"
                         ELSE item[i].status]

L == INSTANCE ReadingLog WITH log <- Log, status <- Phase, where <- line

ImplementsLog == L!Spec

(* Liveness: also when appends fail, are cancelled or cut off by a crash,   *)
(* and when the process is stopped for an ops command, every accepted item  *)
(* is done or failed in the end, as long as exports give the connection     *)
(* back again and again.  Beside an export that waits for the lock of an    *)
(* append that waits for its connection, nothing settles: that is what      *)
(* LockComesFreeAnyway of ReadingStore is about.                            *)
EveryItemSettles == []<>(conn = None) => Q!EveryItemSettles

============================================================================
