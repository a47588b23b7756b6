# termduty: a TLA+ verification project

termduty collects readings from queue terminals, raises alert tickets when a
rule is breached, lets duty staff and handlers work on them, and keeps the
readings in append-only shard files beside a SQLite database. This directory
holds TLA+ modules translated from the Go sources under `src/`, TLC
configurations that check them on small instances, and TLAPS proofs of the
safety properties for every value of the constants.

To check a run: `tlc -workers 2 -config <Run>.cfg <MC module>`; to check the
proofs: `tlapm <module>.tla` for each module whose name ends in `Proofs`.
`PROJECT.json` lists the runs, the lines each definition models, the hazards,
the findings and the theorems.

## 1. Inventory

| component | state | operations | talks to |
|---|---|---|---|
| Alert tickets (`store/alerts.go`, `store/assignments.go`, `domain/state.go`, `orchestration/alert.go`) | tables `alerts`, `assignments` | accept, start, resolve, release, revoke, close; the evaluator's find, create and suppress | HTTP handlers, the evaluator task, the audit trail, the one database connection |
| Alert evaluator (`orchestration/alert.go`, `domain/rule.go`) | none of its own | one sweep over collectors and rules per tick | collectors, rules, readings, alert tickets |
| Ingest queue (`store/ingest.go`, `store/failures.go`, `orchestration/ingest.go`) | tables `ingest_queue`, `failures` | enqueue, lease a batch, append, complete, fail, dead-letter, reclaim, re-inject, resolve | HTTP handlers, the collector and reaper tasks, the reading store |
| Reading store (`store/readings.go`, `store/shard/shard.go`) | shard files, tables `reading_index`, `reading_shards`, the cached line counts, the shard mutex | append, get, list, export, verify, rebuild the index | the ingest queue, HTTP handlers, the ops commands |
| Batch operations (`orchestration/batch.go`) | none of its own | disable collectors, update rules, each with compensations | collectors, rules |
| Collectors and rules (`store/collectors.go`, `store/rules.go`, `orchestration/admin.go`) | tables `collectors`, `rules` | create, versioned update, delete | HTTP handlers, batches, evaluator, enqueue |
| Scheduler (`scheduler/scheduler.go`) | per task: streak of failures, next attempt, dead-letter count; the mutex | Start, the task loops, Stop, RunOnce, Started, Health | services, `failures` table, the server |
| Server process (`cmd/server/main.go`, `httpapi/server.go`) | the readiness flag, the root context | signal, drain, stop, close; healthz and readyz | scheduler, store |
| Database and migrations (`store/sqlite.go`, `store/store.go`, `migrations/`) | the connection pool of one, `schema_migrations` | open, migrate, close | everything in `store/` |
| Audit trail (`store/audit.go`, `orchestration/services.go`) | table `audit_log` | best-effort record, list | every service |
| HTTP routing, paging, roles, errors, configuration, web client | none | translation of requests | services |
| Operator commands (`cmd/ops/main.go`) | none | init, import, export, verify, rebuild-index, status | the store, in a process of their own |

What is hard in each, and what makes it correct:

* **Tickets.** Every request is a sequence of statements over one connection: a
  transaction, a read of the reply after the commit, an audit entry. Other
  requests and the evaluator's two-statement writes fall in between. Correct
  means: one holder, known to both tables; one receipt for a resolved ticket;
  moves by the state table only; one live ticket per problem; every request is
  answered; the audit trail does not contradict the database.
* **Evaluator.** A sweep is a series of queries with changes between them, over
  one page of collectors, and it orders times by their text. Correct means: no
  ticket without a breach, and a breach that lasts has a ticket again and again.
* **Queue.** Leases run out under slow or dead workers, so an item can be in two
  hands. Correct means: nothing accepted is lost, `done` implies a reading and
  leads to it, letters are filed only for work that is given up.
* **Reading store.** A file and a database that no transaction spans, a cached
  line count, a mutex and a connection taken in two orders. Correct means: an
  index row leads to its own reading, a committed line stays, a failed append
  leaves nothing, index, manifest and file agree, appends end.
* **Batches.** Read-then-versioned-write steps with compensations, interrupted
  by other writers, disconnects and failing statements. Correct means: a failed
  batch leaves the rows as they were, a successful one has done all of it, no
  write overwrites what it has not read.
* **Scheduler and shutdown.** A mutex held across a database call, a flag that
  outlives what it describes, a timeout over several waits. Correct means: the
  retry policy is followed, the store outlives the tasks, a signal ends the
  process, no task is starved.

`PROJECT.json` lists the concrete hazards at their lines, with the property that
would catch each and, for those not covered yet, the reason.

## 2. Modules

| module | models | checked by | proved in |
|---|---|---|---|
| `TicketLifecycle` | what the service promises about a ticket, with no database | implemented by `AlertTicket` (run TicketDuty) | `TicketPromisesProofs` |
| `AlertTicket` | both ticket tables, the requests, the evaluator, the connection, the audit entry | `MCAlertTicket` | `AlertTicketProofs`, `TicketPromisesProofs` |
| `Evaluation` | the evaluator's sweep beside changing collectors, rules and readings | `MCEvaluation` | `EvaluationProofs` |
| `IngestQueue` | queue, dead letters, workers, reaper, operator | `MCIngestQueue` | `IngestQueueProofs` |
| `ReadingStore` | a shard file, its index and manifest, appenders, readers, processes | `MCReadingStore` | `ReadingStoreProofs` |
| `ReadingLog` | what the way of a reading promises: one log, and a line of its own for each done item | implemented by `IngestPath` (run IngestPath) | `IngestPathProofs` |
| `IngestPath` | queue and store composed, beside exports | `MCIngestPath` | `IngestPathProofs` |
| `BatchSaga` | batches and single updates of collectors and rules | `MCBatchSaga` | `BatchSagaProofs` |
| `Scheduler` | background tasks, readyz, the end of the server | `MCScheduler` | `SchedulerProofs` |

Each component module keeps its state as VARIABLES and has one action per
statement, transaction or locked section, which is where the program can be
interrupted. The MC modules only add model values, symmetry sets and the values
of constants that are functions or sequences.

A few operators stand directly before the definition they vary and belong to no
`Next`: `BeginUnlocked` before `Begin`, `StepFailedOneOff` before `StepFailed`,
`EarliestWithin` before `LatestWithin`, and the like. Each is a plausible
mistake in that code, described by its comment. Put in the place of the
definition after it, it makes TLC report the property that `PROJECT.json` pairs
it with under `mutants`; this is how each property is known to depend on the
code.

### AlertTicket

`alert` and `dispatch` are the tables `alerts` and `assignments`; a row carries
the columns the control depends on (state, problem, assignee, version; state,
alert, handler). `conn` is the single connection of `SetMaxOpenConns(1)`:
`Begin` takes it, a commit or rollback gives it back, single statements need it
free. `call[c]` is a request: it waits for its transaction, is in it, reads its
reply, writes its audit entry, is answered. The row a transaction has read is a
local variable (`row`), so that the code's decisions are taken on what was read
and not on the table. Any statement may fail (`Fail`), also the one that reads
the reply after the commit: its error is returned and audited like any other,
although the move stands, and `outcome` is then "unread". `ClientGone` cancels a
request's context; from there each statement fails, also one that still waits
for the connection, and the audit entry, which uses the same context, is not
written. `Other` stands for whoever else uses the connection, for as long as it
likes. The evaluator is one goroutine: it looks for a live ticket
(`EvalFinds`, `EvalMisses`) and writes in a second statement (`EvalSuppress`
with its version check, `EvalCreate`). Whether a rule is breached is a free
choice here; `Evaluation` decides it.

### Evaluation

The evaluator's other half: which tickets are due. `sweep` is where `Evaluate`
is: `List` takes the time and the page of active collectors; for the `Head` of
`todo`, `LoadRules` and `LoadReadings` are its two queries, and the second one
also decides over each rule, as the code does without a further query. `Find`
and `Create` are the two ticket statements; a ticket is live or not here. The
errors go where the code's `continue` goes: `LoadErrs` to the next collector,
`TicketErrs` to the next rule; `Cancel` ends the sweep. Rules, readings,
collectors' statuses and tickets change between any two steps.

The clock ticks in half seconds (`phase` says which half) and a reading carries
its age, so that the state space is finite: a reading older than every window,
plus the longest sweep, is forgotten (`Horizon`, which `HorizonAssumption` keeps
that far away). Times are stored as RFC 3339
text without trailing zeros, and `ORDER BY ts DESC` puts a whole second after
its fractions: `TextBefore` compares that way, and `LatestWithin` walks the
readings in that order, as `Recent` and `latestWithin` do. A rule accepts a set
of values; the three metrics of `Rule.Evaluate` are one choice of such a set.
`Recent` returns at most 200 readings, more than the model ever holds; as the
first of them that is in the window decides, those beyond it do not matter
unless all 200 are in one second.

### IngestQueue

`item` is `ingest_queue`; times are relative: a lease carries the ticks left, so
that `Tick` is the clock. `worker[w].batch[i]` is the attempt number under which
worker `w` holds item `i`, the value `it.Attempts` of its copy of the row.
`LeaseBatch`, `Append`, `Complete`, `Fail` and `Bury` are the statements of
`ProcessBatch` and `processOne`; the append is one step here and is taken apart
in `ReadingStore`, and in `IngestPath` put in this place. The service rejects what it cannot encode, so a malformed
payload enters only through the repository's own `Enqueue`, as the tests do it.
`Requeue` takes any letter on file, resolved or not, because the code does.

### ReadingStore

`file` is the sequence of complete lines and `torn` what stands after the last
newline. `counts` is the cached line count of one process, `mu` the shard mutex,
`conn` an export that keeps the connection for its result rows. An append is
`Begin`, `AppendLine`, `CommitIndex` or, after an error, `Rollback`. `mode` says
which program runs: the server, the server after SIGTERM (its context is
cancelled, every context check fails), or the ops commands. `Crash` ends any of
them between two steps and may leave part of a line. `RollbackErrs` is a
rollback that gives up half-way, which leaves the cached count wrong, and
`BeginMiscounts` an append that cannot read the file it has to count; `intact`
remembers both, and what the index says of line numbers is claimed only until
then. `RebuildIndex` fills both tables from the file (`RowsFromFile`), or skips
the shard it cannot read and commits the empty tables (`ShardUnreadable`). A
checksum is modelled as the sequence it is folded from.

### IngestPath

One server process: `IngestQueue` and `ReadingStore` instantiated over the same
state, exports included, with a reading named by its item and the attempt under which it was
appended. `Begin`, `InAppend` and `Appended` or `AppendFailed` take the place of
the queue's one step `Append` or `AppendFails`; the last of them is a step of
both modules. `place` is the line number that `Append` returns and `line` is
`ingest_queue.line_no`, which `Complete` writes. Every statement of the queue and every commit of an append
needs the connection, which an export keeps while it waits for the shard lock;
point reads (`Get`) hold nothing across a step and are left to `ReadingStore`.
HTTP requests reach the queue until the process is gone. `Shutdown` cancels what
is under way, `TickEnds` is the end of the cancelled tick, which leaves its items
leased; `Crash` hits queue and store at once, in the middle of an append or
between two. The next process is a server or `rebuild-index`, which finds in the
queue and in the file what the dead one left. `sound` remembers whether a
rollback has ever failed half-way, or a count of the file.

### ReadingLog

What all this is to look like to somebody who knows the items and the file only.
There is one log; a line is added by an item that is still open and never taken
back; an item is finished with the number of a line that is there, that is its
own or does not decode, and that no other done item names. Leases, the lock, the
connection, processes and crashes do not appear. `IngestPath` maps the log to
the lines below `Base`, where the append under way began, so that a line appears
in the log when its append returns, with an error or without, or when a crash
ends it.

### BatchSaga

`row` is both tables. A request is a list of steps: `Get` reads, `Write` is the
versioned UPDATE, `Reread` is the second read `SetStatus` makes for its result,
`UndoGet` and `UndoWrite` are a compensation. `prev` is what the closure of a
step has remembered, None when it remembered nothing. A single update is a list
of one step without compensation. After a disconnect whatever is left fails, the
compensations too, because they run under the request's context. `before`,
`alone` (nobody else has written) and `stuck` (the rows an error has kept
changed: a compensation that failed, or a second read after a write) are
history.

### Scheduler

A task goes through `select`, the backoff check, its tick, and `runOnce`'s
bookkeeping; `mu` is only held across a step when a dead letter is inserted,
which the code does under the mutex (`record`). `busy` says whether the rest of
the program has the connection. `main` is the main function after the signal:
drain, `Stop`, close, exit; `expired` is the timeout they share. `probe` is one
request to readyz, which asks for the flag under the mutex whether its ping has
failed or not. `wait` and `since` are relative times. Each task has its own
policy and beat, as in `New`.

## 3. What is checked

Runs that pass:

| run | instance | shows |
|---|---|---|
| TicketContention | 1 ticket, 2 handlers, 2 assignments, 2 requests | the two tables, the replies and the audit trail agree at every step (`OneHolder`, `OneReceipt`, `WinnersHaveDispatch`, `LoserToldAWinner`, `ReplyNotBeforeMove`, `TrailTellsTruth`) |
| TicketDuty | 2 tickets for 1 problem, 1 handler, 1 assignment, 1 request at a time, suppression up to version 4, another user of the connection | the evaluator and the other user between a request's steps: `OneTicketPerProblem`, `OnlyTableMoves`; `TicketLifecycle` is implemented (`ImplementsLifecycle`); every request is answered, however often the connection is taken before it (`EveryCallAnswered`) |
| EvaluatorSweep | 3 collectors on a page of 2, the oldest reporting, the other two possibly broken for ever; 1 rule for all collectors or another one; 2 readings, 1 second of window | a ticket is raised only for a breach (`NoFalseAlarm`); a collector on the page whose newest readings stay out of range has a live ticket again and again (`BreachGetsTicket`) |
| QueueWorkers | 2 items, one malformed, 2 processes, batch of 2, 2 attempts, 2 troubles | done means a reading and stays (`DoneHasReading`, `DoneIsFinal`), letters are earned (`LettersEarned`), every accepted item is done or failed in the end (`EveryItemSettles`) |
| StoreCrash | 2 readings, 2 appenders, 1 get, 1 export, 3 crashes, shutdowns, failed rollbacks, miscounts or skipped shards | rows name their line, committed lines stay and lose their rows only with the whole shard, index, manifest and file agree when there was no crash, the lock comes free |
| IngestPath | 2 items, 1 process, 1 export, batch of 2, 1 attempt, 1 trouble of the queue, 1 of the store | a done item names its line (`DoneNamesItsLine`), the file holds what the queue was told and nothing of failed attempts (`FileFollowsQueue`), `ReadingLog` is implemented (`ImplementsLog`), every accepted item settles through shutdowns and rebuilds, unless an export keeps the connection (`EveryItemSettles`) |
| BatchRace | 2 collectors, 1 rule, 2 requests, 3 steps in all, 1 error or disconnect | no versioned write overwrites what it has not read; a batch beside no other writer puts back, when it fails, every row that no error has kept changed, and has done everything when it succeeds |
| SchedulerTasks | 2 tasks: 3 attempts with delays 2 and 3, and 1 attempt with none, which files a letter at each failure | retries keep their delay, letters are earned, skipped beats do not stop a task; a signal ends the process, the store is closed after the tasks unless the timeout elapsed, the mutex starves no task and no probe |

Runs that end in a violation show where the program does something else than its
sources say; each quotes the sentence in `PROJECT.json` under `findings`:

| run | what TLC shows |
|---|---|
| TicketStart | a handler who is not the assignee starts the work, which `store/start_assignment_test.go` expects to be refused |
| QueueStranded | the first failed append leaves the item failed with neither retry nor letter |
| StoreExport | an export with the connection waits for the mutex of an append that waits for the connection, for ever |
| BatchRollback | a failing batch enables a collector that was disabled before it. (`AllOrNothing` fails in a second way, with a disconnect: the compensations run under the request's cancelled context, `orchestration/batch.go:36`, and nothing is put back) |

Other places where code and text differ, met while modelling. The models behave
as the code does there; the properties are worded for what does hold:

* `domain/state.go:27` has no revoke out of resolved, while
  `orchestration/alert.go:143` promises one from any non-terminal state.
  `OnlyTableMoves` follows the table.
* `store/assignments.go:110` names no winner once a ticket is resolved, closed
  or revoked, while line 87 promises a name to every later caller.
  `LoserToldAWinner` states when there is one.
* `store/alerts.go:231` reads the reply after the commit, so that it can show a
  later move, or fail after a move that stands; `orchestration/alert.go:155` then
  audits a failure. `ReplyNotBeforeMove` bounds what it can show, and
  `TrailTellsTruth` lets this one entry through and no other.
* `orchestration/ingest.go:87` gives a reading a new id at each attempt, so an
  item whose worker dies before `Complete` is appended again, while line 14 says
  that processing is idempotent. At most one line for each lease is what holds
  (`FileFollowsQueue`).
* `store/shard/shard.go:156` does not truncate when the context is cancelled,
  while `store/readings.go:93` says the file and the index never disagree. The
  line left behind has no row; a rebuild gives it one.
* `store/readings.go:316` aborts the rebuild of all shards when an id comes
  twice, while line 260 says that a bad file never blocks the rest; and a shard
  it cannot read (286-291) is reported, but its rows are gone, as both tables
  were emptied before. `CommittedStays` says that rows go only in that way, and
  that the file keeps its lines.
* `store/shard/shard.go:98-101` takes a file that cannot be read for empty, and
  keeps that count: every later row of the process is off. `RowsNameTheirLine`
  and `DoneNamesItsLine` hold until then.
* `store/collectors.go:111` can fail after its write; the batch then counts the
  step as not done, and the reply says `rolled_back`
  (`httpapi/handlers_collectors.go:99`). `FailedBatchRestores` leaves out that
  row and claims all others.
* `orchestration/batch.go:36` compensates under the request's context: after a
  disconnect nothing is put back, while lines 13-15 say all-or-nothing. The rows
  are `stuck`, which `FailedBatchRestores` leaves out; `AllOrNothing` does not.
* `orchestration/batch.go:152` stores a rule without the check that
  `orchestration/admin.go:117` makes of its bounds.
* `httpapi/server.go:119` says ready until `Stop` clears the flag, although a
  signal has ended the tasks before.
* `store/shard/shard.go:168-177` returns from a failed truncation or sync before
  line 181 corrects the cached count; every later row of that process is off by
  a line. `RowsNameTheirLine` holds until then.
* `orchestration/alert.go:28` asks for 500 collectors, `store/store.go:149`
  grants 200: the older ones are never evaluated, while line 23 says that recent
  readings are scanned. `BreachGetsTicket` is claimed for the page.
* `orchestration/alert.go:47-56` looks at the newest reading in the window only.
  A breach that a later reading supersedes before the next sweep raises nothing,
  while `domain/rule.go:42` says that a reading outside the range raises an
  alert. Readings dated ahead count as the newest until their time has come.
* `scheduler/scheduler.go:201` counts a streak as dead-lettered when the insert
  has failed.

### Bounds, and why they are enough

* Two requests, workers or appenders are what an interleaving needs; the third
  party in each module is the evaluator, the reaper or an exporter. The proofs
  hold for any number.
* `Dispatch` bounds how often a ticket is taken: two assignments give an accept,
  a release and a second accept (TicketContention). TicketDuty is about the
  evaluator and the connection and has one. `MaxVersion` keeps the evaluator from
  suppressing for ever; a version of 4 lets it write between accept and resolve,
  and after them.
* `Other` is one user of the connection: the waits of a request do not depend on
  who makes it wait. A second request beside the evaluator is in the proofs and,
  without the evaluator's suppressions, in TicketContention.
* `MaxAttempts` is 2 in the queue runs (3 in the default configuration): the
  first attempt, one in between and the last differ only by being the last or
  not. `TTL` is one tick: leased, about to expire, expired.
* `MaxTrouble` counts crashes, stalls, failing statements and interventions: two
  in the queue put an overlap of leases before or after a crash or a
  re-injection, three in the store allow a crash during the recovery from a
  crash. Troubles that the code treats as normal (an append that fails, a client
  that disconnects from a request) are not counted where the state stays finite.
* `MaxSteps` bounds the steps of all requests together. Three are a batch whose
  third step fails and whose first two, on the same row, are undone in reverse,
  or a batch of two beside an update or a deletion. A step of `tune` sets one
  bound of a rule; setting two is two steps that are read and written together.
* Failing ticks of a task are not bounded. The policies of SchedulerTasks are the
  two ends: one with a doubling that is cut by its cap, and one whose every
  failure is its last. The default configuration has delays of 1 and 2 seconds
  under a beat of 5, so the backoff then never skips a beat.
* In EvaluatorSweep, two readings of two values are what it takes for a text
  order that is not the order of time; a window of one second, in half seconds,
  has readings in it, on its edge and out of it; a sweep may last half a second
  (`MaxLag`) and one may be cut short (`MaxStops`). A page of two out of three
  is the store's 200 (`PageMax`, below the 500 of `PageAsked`). `Ahead` is 0:
  what a reading dated ahead does is told above. Two of the three collectors are
  `Broken`: nothing is assumed of their queries, which covers those that answer.
* In IngestPath an item is leased twice at most (one trouble of the queue), and
  the trouble of the store is a crash, a failed rollback, a miscount or a skipped
  shard, with appends, rebuilds and the next process after it. One trouble of
  the queue is kept back for the end of a cancelled tick. `MaxAttempts` of 1
  files a letter at the first failure, so that `Requeue` happens; `TTL` of 0 lets
  a lease run out at the next tick. What more attempts and a longer lease add is
  the queue's own, in QueueWorkers.
* `MaxTrouble` of 1 in BatchRace is one error or one disconnect; after a
  disconnect all that is left fails without being counted. Two collectors are a
  batch of which one row is stuck and the other is put back.

`CHECK_DEADLOCK FALSE` is set where the system may stop: the server process ends
(Scheduler), or the budgets above are used up and nothing is left to do (queue,
store, path, batch). The ticket runs and EvaluatorSweep check deadlock.

### Fairness, and what justifies it

* Tickets: strong fairness of each request's own steps. A request has its own
  goroutine and database/sql serves waiters for the connection first come, first
  served, so one that needs it again and again gets it. Nothing is assumed of
  clients, of the evaluator or of the other users of the connection;
  `EveryCallAnswered` has the premise that these give it back again and again,
  which an export whose client stops reading does not.
* Evaluator: the scheduler ticks it for ever, and a sweep goes on (weak fairness
  of `List` and of each collector's steps). A query that is made again and again
  succeeds again and again (strong fairness), except those of `Broken`
  collectors. Nobody has to close a ticket, send a reading or change a rule.
* Path: as for the queue, but strong fairness of the worker and the reaper,
  which now wait for a connection that exports take again and again; exports go
  on as in the store; and a server that was stopped, or makes room for an ops
  command, is started again. `EveryItemSettles` has the premise that exports
  give the connection back again and again: without it, the circle of
  StoreExport stops the worker too, and nothing settles.
* Queue: weak fairness of the worker, the reaper and the clock. The scheduler
  runs a task again whatever its last tick returned. Nobody has to submit or
  re-inject; trouble is bounded.
* Store: strong fairness of an append's steps and of reading a line (the mutex
  is starvation-free, the connection is queued), weak fairness of ending an
  export. Nobody has to disconnect: a client that does breaks the circle of
  StoreExport. `LockComesFree` has the premise that exports give the connection
  back again and again; without it that is StoreExport.
* Scheduler: strong fairness of each task, of main and of a probe, weak fairness
  of tickers, the clock and the timeout. Nothing is assumed of the connection;
  `SteadyBeat` and `ProbeAnswered` have the premise that it is free again and
  again, `ShutdownEnds` needs none, because a cancelled context ends every wait
  for it.

## 4. What is proved

Every safety invariant and every action property of the passing runs, and both
refinements, are theorems: they hold for all values of the constants, where TLC
has looked at one instance. Each component has a module of proofs; liveness is
left to TLC.

### How the proofs are built

None of the invariants is inductive as it stands. Each module of proofs first
defines what has to be added, then has one lemma for each action (over lemmas
for the pieces that several actions share), and derives the properties of the
runs from the result. Each strengthened invariant was checked with TLC on the
run's instance before it was proved.

| module | inductive invariant | why the properties alone do not do |
|---|---|---|
| `AlertTicketProofs` | `IInv`: types, shapes, `TxIsolated`, `VersionStandsForRow`, `OneHolder`, `OneReceipt`; over it `EvalInv` | a commit writes what was computed from the row read earlier, which is right only while that row is the table's; the evaluator writes a whole row back, which is right only if an equal version means an equal row; what the evaluator found stays true until it writes because no request brings a dead ticket back (`NoRevival`) |
| `TicketPromisesProofs` | over `IInv`: `CallPlaces`, `LosersInformed`, `RepliesDue`, `WinnersCounted`, `TablesAgree` | a reply is about a past state: what a request was told must be tied to assignments, which are never taken back (`DispatchKept`), and a version above the one of its own move shows a later write, because versions only grow |
| `IngestQueueProofs` | `Shape`; over it `LettersCounted` and `LeasesDistinct` | `LettersEarned` forgets the leases that are still in somebody's hands and worth a letter; they have to be counted too. A late failure reopens an item only if another worker holds a later number, so numbers must differ |
| `ReadingStoreProofs` | `SInv`: types, `Holding`, `Placed`, `CountRight`, `RowsLead`, `Untroubled` | the line number of a row comes from a cached count, so the count must be right whenever the lock is free, and an append must know where the file ended when it began: rows must lead home in the file as it is and as a rollback would make it |
| `IngestPathProofs` | `PathInv`: the queue's and the store's invariants, `SameItem`, `LinesNamed`, `OncePerLease`, `FileCounted` | what `Append` returned must stay true until `Complete` writes it, with a crash, a rebuild or another append in between: only the lines before `Base` are safe, and a line number must be one of theirs. `LeaseCounted` shows that a lease number never outruns the troubles, so that a reading has its id |
| `BatchSagaProofs` | `TInv`; over it `BInv`, which follows a request that is alone: `Tracks`, `Advances` | a compensation restores what its step remembered; when two steps name one row, only the first remembers the original, so the invariant must say which steps are still to be undone |
| `SchedulerProofs` | `SInv`: per task, `Good` ties counter, history, wait and mutex together | the counter reaches `MaxAttempts` only inside the locked section, and the wait noted plus the time that has passed make up the delay; between the steps neither says so |
| `EvaluationProofs` | `EInv`: `Types`, `LoadedStand`, `DueStand` | what a sweep decided was read several queries before the ticket is raised; while nothing changed, what it loaded must still be the table's and what it found due must still be a breach |

The refinement of `TicketLifecycle` (`TablesImplementLifecycle`) reads the
abstract ticket off both tables; `TablesAgree` shows that the row of `alerts`
alone gives the same, and then each step of `AlertTicket` is one abstract move
or none. That of `ReadingLog` (`PathImplementsLog`) reads the log off the file
and the append under way, and rests on `LogInv`: `PathInv`, `HandsOpen` (an item
in a worker's hands is open, but for one it has just given up, so that what a
failed or crashed append leaves is a line of an open item) and `OwnNames` (two done items, or a done item and the line
`Append` has just returned, never have one line number).

`IngestPathProofs` states again, over its own variables, those lemmas about the
queue and the store which it needs. The prover cannot use a theorem of a module
that is instantiated, and the store's invariants are needed in a weaker form
(the rows of the index play no part).

### Theorems

| module | theorem | property |
|---|---|---|
| `AlertTicketProofs` | `TypeCorrect` | `TypeOK` |
| | `TicketHasOneHolder` | `OneHolder` |
| | `ResolvedHasReceipt` | `OneReceipt` |
| | `TransactionsIsolated` | `TxIsolated`, which no run checks on its own |
| | `VersionIsEnough` | `VersionStandsForRow`, likewise |
| | `OneLiveTicket` | `OneTicketPerProblem` |
| | `TicketsMoveByTheTable` | `OnlyTableMoves` |
| | `EveryWriteCounts` | `VersionsCount`, likewise |
| `TicketPromisesProofs` | `TrailIsTrue` | `TrailTellsTruth` |
| | `LoserLearnsWinner` | `LoserToldAWinner` |
| | `RepliesAreNotStale` | `ReplyNotBeforeMove` |
| | `WinnersAreReal` | `WinnersHaveDispatch` |
| | `TablesImplementLifecycle` | `ImplementsLifecycle` |
| `IngestQueueProofs` | `QueueTypeCorrect` | `TypeOK` |
| | `DoneMeansRead` | `DoneHasReading` |
| | `LettersAreEarned` | `LettersEarned` |
| | `DoneStaysDone` | `DoneIsFinal` |
| `ReadingStoreProofs` | `StoreTypeCorrect` | `TypeOK` |
| | `RowsLeadHome` | `RowsNameTheirLine` |
| | `StoreAgrees` | `AgreeWithoutTrouble` |
| | `CommittedLinesStay` | `CommittedStays` |
| `IngestPathProofs` | `PathTypeCorrect` | `TypeOK` |
| | `DoneLeadsHome` | `DoneNamesItsLine` |
| | `FileTellsQueue` | `FileFollowsQueue` |
| | `PathImplementsLog` | `ImplementsLog` |
| `BatchSagaProofs` | `BatchTypeCorrect` | `TypeOK` |
| | `NoLostUpdate` | `ReadStandsForRow` |
| | `FailureRestores` | `FailedBatchRestores` |
| | `SuccessCompletes` | `SuccessIsComplete` |
| `SchedulerProofs` | `NextBackoffIsDelay` | the loop of `NextBackoff` and the policy's doubling with a cap give the same delay, for every policy and number of failures |
| | `SchedulerTypeCorrect` | `TypeOK` |
| | `TaskLettersEarned` | `LettersEarned` |
| | `StoreClosesLast` | `StoreOutlivesTasks` |
| | `BackoffIsKept` | `BackoffHonoured` |
| `EvaluationProofs` | `EvaluationTypeCorrect` | `TypeOK` |
| | `AlarmsAreTrue` | `NoFalseAlarm` |

### What the theorems assume

Only the named assumptions of the modules, all evaluated by TLC in a passing
run:

* The empty values are no ids and no rows (`NoneAssumption` of `AlertTicket` and
  of `BatchSaga`, `LineAssumption`, `ActorAssumption`, `RowAssumption`,
  `ItemAssumption`, `TaskAssumption`): in the code, an empty string or NULL
  beside generated ids.
* Limits and bounds are numbers (`BoundAssumption`, `NumberAssumption`,
  `PolicyAssumption`). The bounds on troubles, versions and steps are arbitrary
  natural numbers, so that they cut no finite run short. A policy has at least
  one attempt; the only one the program makes, `DefaultRetryPolicy`, has three.
* `HorizonAssumption`: a reading is forgotten only when it is out of every
  window, whatever the sweep's lag. `CollectorAssumption` says that the order of
  the page lists each collector once.
* `OneProcess`, `QueueAssumption` and `StoreAssumption` of `IngestPath`: one
  server process on the database, as `cmd/server` runs it, and what the two
  modules it instantiates assume.

### What is only model-checked

All liveness, which is out of the proof system's reach together with the
fairness it rests on: `EveryCallAnswered`, `BreachGetsTicket`,
`EveryItemSettles` (queue and path), `LockComesFree`, `SteadyBeat`,
`ProbeAnswered`, `ShutdownEnds`; and the findings, which TLC shows by
counterexamples. Two theorems say what the code keeps of a promise it does not
keep as written: `FailureRestores` leaves out `stuck` rows and batches over
collectors that were not all collecting (`AllOrNothing` is violated), and
`TrailIsTrue` leaves out the entry of a reply that could not be read.

The library's induction theorems take an operator as a parameter and cannot be
used here. Where a definition is recursive (`NextBackoff`, `Delay`,
`ActivePage`, `Outcome`), the proofs go by the least number for which the claim
would fail (`LeastNumber`), which needs no such theorem; these definitions are
recursive functions for that reason.

## 5. What is not modelled

* Listings, statistics and `verify`, which read without deciding anything. A
  client that walks the pages of a listing (`httpapi/dto.go:28`,
  `store/store.go:148`) gets a count and a page from two statements in each
  request: it can miss a row for each one that leaves the listing meanwhile and
  for each one that is added between the last count and its page, and sees rows
  twice when others are added before. With a configured page size above 200 the
  store's own limit cuts each page while `page_size`, `has_more` and the next
  offset go by the configured one.
* The creation of a collector, beside its coming to be active.
* HTTP routing, roles, error mapping, configuration, the web client: stateless.
* The choice of a shard by the day. One shard is modelled; the mutex and the
  connection are shared by all.
* The ops commands beside a running server. They are modelled before and after
  it; beside it, each process would have its own mutex and cached count.
* `Health` (no caller in the program; it reads a field outside the mutex),
  `RunOnce` and `SetTick` (tests only), a listener that fails at the start.
* The check of a collector's status before a submission is queued: no source
  says what is due to one that slips in before the collector is disabled.
* Lease times within a second: they too are compared as text, so that a lease
  may end up to a second too early or too late.
* Migrations: they run once before anything else does. Each file's statements
  and its version are one transaction.
* In the store several appenders are modelled although a server runs a single
  collector task, because `Append` is written to be called concurrently.

Observations the models led to and that no property states: with two server
processes on one database a late `Fail` can overwrite `done` (`DoneIsFinal` lets
it through, for an item that was leased twice); once a torn line has been
counted by a rebuild and merged with the next append, the manifest counts a line
more than the file has; a reading appended after a torn line cannot be read,
although its item is done (`DoneNamesItsLine` allows `Corrupt`); and after a
rollback that failed half-way, or a count of a file that could not be read, `rebuild-index` puts the index right but not the
line numbers in `ingest_queue`, which is why `DoneNamesItsLine` asks for `sound`
where `RowsNameTheirLine` asks for `intact`.

## 6. Plan

Done: tickets with their abstract life cycle; the evaluator; the queue; the
store; the two composed; the batches; the scheduler and the shutdown; theorems
for all safety properties and both refinements.

Next, in this order:

1. The ops commands beside a server, each with its own mutex and cached count.
2. The queue composed with the collectors, once it is settled what the status
   check before an insert promises.
3. Theorems for what those two add, `IngestPath` with several processes, each
   with its own cached count, among them.
