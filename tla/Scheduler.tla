------------------------------ MODULE Scheduler ------------------------------
(***************************************************************************)
(* The background tasks (scheduler/scheduler.go), the readiness probe that *)
(* asks about them and the end of the server (cmd/server/main.go).         *)
(*                                                                         *)
(* Each task is a goroutine that waits for its ticker, skips the beats of  *)
(* a backoff, runs its tick and notes the outcome under the scheduler's    *)
(* mutex; the last failure of a streak is filed in the database while the  *)
(* mutex is held.  A signal cancels the tasks' context; main then drains   *)
(* the HTTP server, stops the scheduler and closes the store, all within   *)
(* one timeout.  Time is relative: a task carries the time it has to wait. *)
(***************************************************************************)
EXTENDS Integers, FiniteSets

CONSTANTS
  Task,         \* collector, evaluator, reaper
  Policy,       \* the RetryPolicy of each task
  Interval,     \* the time between two beats of its ticker
  None

ASSUME TaskAssumption == IsFiniteSet(Task) /\ None \notin Task
ASSUME PolicyAssumption ==
  /\ Policy \in [Task -> [MaxAttempts : Nat \ {0}, BaseDelay : Nat, MaxDelay : Nat]]
  /\ Interval \in [Task -> Nat]

VARIABLES
  task,       \* the tasks
  runWG,      \* goroutines that Stop has to wait for
  mu,         \* the task that holds s.mu while it files a letter
  started,    \* s.started
  cancelled,  \* a signal has cancelled the root context
  main,       \* where the main function is
  expired,    \* the shutdown timeout has elapsed
  busy,       \* the database's connection is in use elsewhere
  probe,      \* one request to /readyz
  history     \* per task: failures since its last success or letter, time since
              \* the last of them

vars == <<task, runWG, mu, started, cancelled, main, expired, busy, probe, history>>

system == <<runWG, started, cancelled, main, expired>>
world  == <<busy, probe>>

(* The last doubling is not cut. *)
NextBackoffUncapped(p, attempt) ==
  LET d[i \in 1..attempt] ==
        IF i = 1 THEN p.BaseDelay
        ELSE IF d[i - 1] < p.MaxDelay THEN 2 * d[i - 1] ELSE d[i - 1]
  IN  d[attempt]

(* NextBackoff doubles the delay until it reaches the greatest one; the     *)
(* default jitter of 0.5 leaves it as it is.                                *)
NextBackoff(p, attempt) ==
  LET d[i \in 1..attempt] ==
        IF i = 1 THEN p.BaseDelay
        ELSE IF d[i - 1] < p.MaxDelay THEN 2 * d[i - 1] ELSE d[i - 1]
  IN  IF d[attempt] > p.MaxDelay THEN p.MaxDelay ELSE d[attempt]

TaskState(t) ==
  [pc       : {"select", "backoff", "tick", "ok", "err", "record", "returned"},
   beat     : BOOLEAN,                     \* what ticker.C holds
   failures : 0..Policy[t].MaxAttempts,
   wait     : 0..Policy[t].MaxDelay \cup 0..Interval[t]]   \* until nextAttempt

NewTask == [pc |-> "select", beat |-> FALSE, failures |-> 0, wait |-> 0]

TypeOK ==
  /\ DOMAIN task = Task /\ \A t \in Task : task[t] \in TaskState(t)
  /\ runWG   \in 0..Cardinality(Task)
  /\ mu      \in Task \cup {None}
  /\ {started, cancelled, expired, busy} \subseteq BOOLEAN
  /\ main    \in {"serving", "draining", "stopping", "waiting", "closed", "exited"}
  /\ probe   \in {"idle", "ping", "pinged", "failed", "ready", "unready"}
  /\ DOMAIN history = Task
  /\ \A t \in Task : history[t] \in [streak : 0..Policy[t].MaxAttempts,
                                     since  : 0..Policy[t].MaxDelay]

(* main has opened the store, started the scheduler and the HTTP server. *)
Init ==
  /\ task      = [t \in Task |-> NewTask]
  /\ runWG     = Cardinality(Task)
  /\ mu        = None
  /\ started   = TRUE
  /\ cancelled = FALSE
  /\ main      = "serving"
  /\ expired   = FALSE
  /\ busy      = FALSE
  /\ probe     = "idle"
  /\ history   = [t \in Task |-> [streak |-> 0, since |-> Policy[t].MaxDelay]]

At(t, pc) == task[t].pc = pc /\ main # "exited"
Goto(t, pc) == task' = [task EXCEPT ![t].pc = pc]

----------------------------------------------------------------------------
(* runTask *)

(* The ticker's channel holds one beat; more are dropped. *)
Beat(t) ==
  /\ main # "exited"
  /\ task[t].pc # "returned" /\ ~task[t].beat
  /\ task' = [task EXCEPT ![t].beat = TRUE]
  /\ UNCHANGED <<system, mu, world, history>>

(* select: the cancelled context, or a beat, whichever Go picks. *)
Leave(t) ==
  /\ At(t, "select")
  /\ cancelled
  /\ Goto(t, "returned")
  /\ runWG' = runWG - 1
  /\ UNCHANGED <<mu, started, cancelled, main, expired, world, history>>

TakeBeat(t) ==
  /\ At(t, "select")
  /\ task[t].beat
  /\ task' = [task EXCEPT ![t].beat = FALSE, ![t].pc = "backoff"]
  /\ UNCHANGED <<system, mu, world, history>>

(* The first failure of a streak is retried at once. *)
InBackoffLater(t) == task[t].failures > 1 /\ task[t].wait > 0

(* The window has no end. *)
InBackoffForEver(t) == task[t].failures > 0

InBackoff(t) == task[t].failures > 0 /\ task[t].wait > 0

SkipOrRun(t) ==
  /\ At(t, "backoff")
  /\ mu = None
  /\ Goto(t, IF InBackoff(t) THEN "select" ELSE "tick")
  /\ UNCHANGED <<system, mu, world, history>>

----------------------------------------------------------------------------
(* runOnce *)

(* A statement is over when it had the connection or when its context is    *)
(* cancelled.                                                               *)
Answered == ~busy \/ cancelled

TickOK(t) ==
  /\ At(t, "tick")
  /\ ~busy /\ main # "closed"
  /\ Goto(t, "ok")
  /\ UNCHANGED <<system, mu, world, history>>

TickErrs(t) ==
  /\ At(t, "tick")
  /\ Answered
  /\ Goto(t, "err")
  /\ UNCHANGED <<system, mu, world, history>>

NoteSuccess(t) ==
  /\ At(t, "ok")
  /\ mu = None
  /\ task' = [task EXCEPT ![t].pc = "select", ![t].failures = 0, ![t].wait = Interval[t]]
  /\ history' = [history EXCEPT ![t].streak = 0]
  /\ UNCHANGED <<system, mu, world>>

(* An error that comes of the cancelled context is not a failure. *)
NoteCancelled(t) ==
  /\ At(t, "err")
  /\ mu = None
  /\ cancelled
  /\ Goto(t, "select")
  /\ UNCHANGED <<system, mu, world, history>>

(* A failure starts the backoff; the last one of a streak keeps the mutex   *)
(* until it is filed.                                                       *)
NoteFailure(t) ==
  /\ At(t, "err")
  /\ mu = None
  /\ ~cancelled
  /\ LET n == task[t].failures + 1
     IN  IF n >= Policy[t].MaxAttempts
         THEN /\ task' = [task EXCEPT ![t].pc = "record", ![t].failures = n]
              /\ mu' = t
         ELSE /\ task' = [task EXCEPT ![t].pc = "select", ![t].failures = n,
                                      ![t].wait = NextBackoff(Policy[t], n)]
              /\ UNCHANGED mu
  /\ history' = [history EXCEPT ![t].since = 0,
                     ![t].streak = IF @ < Policy[t].MaxAttempts THEN @ + 1 ELSE @]
  /\ UNCHANGED <<system, world>>

(* The streak is not reset. *)
FiledKeepsStreak(t) ==
  /\ task' = [task EXCEPT ![t].pc = "select"]
  /\ mu' = None

(* The mutex is not left. *)
FiledLocked(t) ==
  /\ task' = [task EXCEPT ![t].pc = "select", ![t].failures = 0]
  /\ UNCHANGED mu

(* What runOnce does after recordDeadLetter, whether or not the insert       *)
(* succeeded.                                                               *)
Filed(t) ==
  /\ task' = [task EXCEPT ![t].pc = "select", ![t].failures = 0]
  /\ mu' = None

Record(t) ==
  /\ At(t, "record")
  /\ ~busy /\ ~cancelled
  /\ Filed(t)
  /\ history' = [history EXCEPT ![t].streak = 0]
  /\ UNCHANGED <<system, world>>

(* The insert runs under a context of its own, which no signal cancels. *)
RecordErrsDetached(t) ==
  /\ At(t, "record")
  /\ ~busy
  /\ Filed(t)
  /\ history' = [history EXCEPT ![t].streak = 0]
  /\ UNCHANGED <<system, world>>

(* The insert fails, as it does when the context is cancelled; logged.      *)
RecordErrs(t) ==
  /\ At(t, "record")
  /\ Answered
  /\ Filed(t)
  /\ history' = [history EXCEPT ![t].streak = 0]
  /\ UNCHANGED <<system, world>>

----------------------------------------------------------------------------
(* The process. *)

Signal ==
  /\ main = "serving" /\ ~cancelled
  /\ cancelled' = TRUE
  /\ UNCHANGED <<task, runWG, mu, started, main, expired, world, history>>

(* server.Shutdown: no new requests, and a wait for those under way. *)
Shutdown ==
  /\ main = "serving" /\ cancelled
  /\ main' = "draining"
  /\ UNCHANGED <<task, runWG, mu, started, cancelled, expired, world, history>>

Drained ==
  /\ main = "draining"
  /\ probe = "idle" \/ expired
  /\ main' = "stopping"
  /\ UNCHANGED <<task, runWG, mu, started, cancelled, expired, world, history>>

(* The timeout covers the HTTP server and the scheduler together. *)
Timeout ==
  /\ main \in {"draining", "stopping", "waiting"} /\ ~expired
  /\ expired' = TRUE
  /\ UNCHANGED <<task, runWG, mu, started, cancelled, main, world, history>>

(* Stop takes the mutex, whatever the timeout says, ... *)
Stop ==
  /\ main = "stopping"
  /\ mu = None
  /\ started' = FALSE
  /\ main' = "waiting"
  /\ UNCHANGED <<task, runWG, mu, cancelled, expired, world, history>>

(* The wait is left out. *)
StopReturnsAtOnce ==
  /\ main = "waiting"
  /\ main' = "closed"
  /\ UNCHANGED <<task, runWG, mu, started, cancelled, expired, world, history>>

(* ... and waits for the tasks or the timeout; main closes the store. *)
StopReturns ==
  /\ main = "waiting"
  /\ runWG = 0 \/ expired
  /\ main' = "closed"
  /\ UNCHANGED <<task, runWG, mu, started, cancelled, expired, world, history>>

Exit ==
  /\ main = "closed"
  /\ main' = "exited"
  /\ UNCHANGED <<task, runWG, mu, started, cancelled, expired, world, history>>

----------------------------------------------------------------------------
(* readyz: a ping of the database and a look at the shard directory, then   *)
(* Started; the readiness flag is set before the server listens and stays   *)
(* set.                                                                      *)
ProbeArrives ==
  /\ main = "serving" /\ probe = "idle"
  /\ probe' = "ping"
  /\ UNCHANGED <<task, system, mu, busy, history>>

Ping ==
  /\ probe = "ping" /\ ~busy /\ main \notin {"closed", "exited"}
  /\ probe' = "pinged"
  /\ UNCHANGED <<task, system, mu, busy, history>>

PingErrs ==
  /\ probe = "ping" /\ main # "exited"
  /\ probe' = "failed"
  /\ UNCHANGED <<task, system, mu, busy, history>>

(* Started takes the mutex, also when the ping has failed. *)
Started ==
  /\ probe \in {"pinged", "failed"} /\ main # "exited"
  /\ mu = None
  /\ probe' = IF probe = "pinged" /\ started THEN "ready" ELSE "unready"
  /\ UNCHANGED <<task, system, mu, busy, history>>

ProbeEnds ==
  /\ probe \in {"ready", "unready"} /\ main # "exited"
  /\ probe' = "idle"
  /\ UNCHANGED <<task, system, mu, busy, history>>

(* The rest of the program takes and frees the connection; time passes.     *)
Busy ==
  /\ main # "exited"
  /\ busy' = ~busy
  /\ UNCHANGED <<task, system, mu, probe, history>>

Clock ==
  /\ main # "exited"
  /\ \E t \in Task : task[t].wait > 0 \/ history[t].since < Policy[t].MaxDelay
  /\ task' = [t \in Task |-> [task[t] EXCEPT !.wait = IF @ > 0 THEN @ - 1 ELSE 0]]
  /\ history' = [t \in Task |->
                  [history[t] EXCEPT !.since = IF @ < Policy[t].MaxDelay THEN @ + 1 ELSE @]]
  /\ UNCHANGED <<system, mu, world>>

----------------------------------------------------------------------------
Run(t) ==
  \/ Leave(t)
  \/ TakeBeat(t)
  \/ SkipOrRun(t)
  \/ TickOK(t)
  \/ TickErrs(t)
  \/ NoteSuccess(t)
  \/ NoteCancelled(t)
  \/ NoteFailure(t)
  \/ Record(t)
  \/ RecordErrs(t)

Main == Shutdown \/ Drained \/ Stop \/ StopReturns \/ Exit

Readyz == Ping \/ PingErrs \/ Started \/ ProbeEnds

Next ==
  \/ \E t \in Task : Beat(t) \/ Run(t)
  \/ Signal
  \/ Main
  \/ Timeout
  \/ ProbeArrives
  \/ Readyz
  \/ Busy
  \/ Clock

Spec == Init /\ [][Next]_vars

(* Goroutines run, a lock that is free again and again is obtained, tickers *)
(* beat and time passes, also that of the shutdown timeout.  Nothing is     *)
(* assumed of the connection, or of the arrival of a probe or the signal.   *)
Fairness ==
  /\ \A t \in Task : SF_vars(Run(t)) /\ WF_vars(Beat(t))
  /\ SF_vars(Main)
  /\ SF_vars(Readyz)
  /\ WF_vars(Timeout)
  /\ WF_vars(Clock)

FairSpec == Spec /\ Fairness

----------------------------------------------------------------------------
(* Safety. *)

(* A letter is due after MaxAttempts failures of that task in a row, and    *)
(* never sooner: a success or a letter in between starts the count again,   *)
(* and a failure that a shutdown has caused does not count.                 *)
LettersEarned ==
  \A t \in Task :
    /\ task[t].pc = "record" => history[t].streak = Policy[t].MaxAttempts
    /\ task[t].pc = "select" => history[t].streak < Policy[t].MaxAttempts

(* "transient failures throttle" (scheduler.go:148): the attempt after the  *)
(* k-th failure of a streak starts no earlier than the policy's delay of    *)
(* BaseDelay doubled k - 1 times, at most MaxDelay, after that failure was  *)
(* noted.                                                                   *)
Doubled(b, k) ==
  LET u[i \in 1..k] == IF i = 1 THEN b ELSE 2 * u[i - 1] IN u[k]

Delay(p, k) ==
  IF Doubled(p.BaseDelay, k) > p.MaxDelay THEN p.MaxDelay ELSE Doubled(p.BaseDelay, k)

BackoffHonoured ==
  [][\A t \in Task :
       task[t].pc # "tick" /\ task'[t].pc = "tick" /\ task[t].failures > 0 =>
         history[t].since >= Delay(Policy[t], task[t].failures)]_vars

(* The store is closed under a running task only when the timeout has       *)
(* elapsed.                                                                 *)
StoreOutlivesTasks ==
  main \in {"closed", "exited"} /\ ~expired => \A t \in Task : task[t].pc = "returned"

----------------------------------------------------------------------------
(* Liveness. *)

(* A signal ends the process: although Stop waits for a mutex that a task   *)
(* holds while it waits for the connection, no timeout bounds that wait,    *)
(* and nobody has to free the connection.                                   *)
ShutdownEnds == cancelled ~> main = "exited"

(* "without abandoning the steady ticker beat" (scheduler.go:148): a task   *)
(* that waits for its ticker runs again or returns, as long as the          *)
(* connection is free again and again.                                      *)
SteadyBeat ==
  []<>~busy => \A t \in Task : task[t].pc = "select" ~> \/ task[t].pc \in {"tick", "returned"}
                                                         \/ main = "exited"

(* A probe is answered, whatever its ping says, although readyz then looks  *)
(* at a flag under the mutex that a task holds while it waits for the       *)
(* connection.                                                              *)
ProbeAnswered ==
  []<>~busy => (probe = "ping" ~> probe \in {"ready", "unready"} \/ main = "exited")

============================================================================
