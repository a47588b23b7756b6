--------------------------- MODULE SchedulerProofs ---------------------------
(***************************************************************************)
(* Proofs about Scheduler for any set of tasks and any retry policies.     *)
(***************************************************************************)
EXTENDS Scheduler, FiniteSetTheorems, WellFoundedInduction, TLAPS

----------------------------------------------------------------------------
(* NextBackoff computes the policy's delay.  Both are defined by recursion  *)
(* on the number of the failure; what holds of every number is shown by     *)
(* looking at the smallest one for which it would fail.                     *)

LEMMA LeastNumber ==
  ASSUME NEW T \in SUBSET Nat, NEW n \in T
  PROVE  \E m \in T : \A k \in T : m <= k
<1> DEFINE R == {ss \in Nat \X Nat : ss[1] < ss[2]}
<1>1. IsWellFoundedOn(R, Nat)
  BY NatLessThanWellFounded DEF OpToRel
<1>2. PICK m \in T : \A k \in T : <<k, m>> \notin R
  BY <1>1, WFMin, Zenon
<1>3. m \in Nat /\ \A k \in T : k \in Nat /\ ~(k < m)
  BY <1>2
<1>4. QED
  BY <1>3

IsDoubling(u, b, n) == u = [i \in 1..n |-> IF i = 1 THEN b ELSE 2 * u[i - 1]]
IsBackoff(d, p, n) ==
  d = [i \in 1..n |-> IF i = 1 THEN p.BaseDelay
                      ELSE IF d[i - 1] < p.MaxDelay THEN 2 * d[i - 1] ELSE d[i - 1]]

(* The recursion of Doubled defines a function on 1..n.                     *)
LEMMA DoublingExists ==
  ASSUME NEW b, NEW n \in Nat
  PROVE  \E u : IsDoubling(u, b, n)
<1> DEFINE Bad == {k \in Nat : ~\E u : IsDoubling(u, b, k)}
<1>1. SUFFICES ASSUME n \in Bad PROVE FALSE
  OBVIOUS
<1>2. PICK m \in Bad : \A k \in Bad : m <= k
  BY <1>1, LeastNumber
<1>3. CASE m = 0
  <2> DEFINE u == [i \in 1..0 |-> b]
  <2>1. IsDoubling(u, b, 0)
    BY DEF IsDoubling
  <2>2. QED
    BY <1>2, <1>3, <2>1
<1>4. CASE m # 0
  <2>1. m \in Nat /\ m - 1 \in Nat /\ m - 1 \notin Bad
    BY <1>2, <1>4
  <2>2. PICK v : IsDoubling(v, b, m - 1)
    BY <2>1
  <2> DEFINE e(i) == IF i = 1 THEN b ELSE 2 * v[i - 1]
  <2> DEFINE u == [i \in 1..m |-> e(i)]
  <2>3. \A i \in 1..(m - 1) : v[i] = e(i)
    BY <2>2 DEF IsDoubling
  <2>4. \A i \in 1..m : i # 1 => u[i - 1] = v[i - 1]
    BY <2>1, <2>3
  <2>5. IsDoubling(u, b, m)
    BY <2>4 DEF IsDoubling
  <2>6. QED
    BY <1>2, <2>5
<1>5. QED
  BY <1>3, <1>4

(* The recursion of NextBackoff defines a function on 1..n.                 *)
LEMMA BackoffExists ==
  ASSUME NEW p, NEW n \in Nat
  PROVE  \E d : IsBackoff(d, p, n)
<1> DEFINE Bad == {k \in Nat : ~\E d : IsBackoff(d, p, k)}
<1>1. SUFFICES ASSUME n \in Bad PROVE FALSE
  OBVIOUS
<1>2. PICK m \in Bad : \A k \in Bad : m <= k
  BY <1>1, LeastNumber
<1>3. CASE m = 0
  <2> DEFINE u == [i \in 1..0 |-> p]
  <2>1. IsBackoff(u, p, 0)
    BY DEF IsBackoff
  <2>2. QED
    BY <1>2, <1>3, <2>1
<1>4. CASE m # 0
  <2>1. m \in Nat /\ m - 1 \in Nat /\ m - 1 \notin Bad
    BY <1>2, <1>4
  <2>2. PICK v : IsBackoff(v, p, m - 1)
    BY <2>1
  <2> DEFINE e(i) == IF i = 1 THEN p.BaseDelay
                     ELSE IF v[i - 1] < p.MaxDelay THEN 2 * v[i - 1] ELSE v[i - 1]
  <2> DEFINE u == [i \in 1..m |-> e(i)]
  <2>3. \A i \in 1..(m - 1) : v[i] = e(i)
    BY <2>2 DEF IsBackoff
  <2>4. \A i \in 1..m : i # 1 => u[i - 1] = v[i - 1]
    BY <2>1, <2>3
  <2>5. IsBackoff(u, p, m)
    BY <2>4 DEF IsBackoff
  <2>6. QED
    BY <1>2, <2>5
<1>5. QED
  BY <1>3, <1>4

(* Cutting while doubling comes to the same as doubling first and cutting   *)
(* then.                                                                    *)
LEMMA CutsAgree ==
  ASSUME NEW p, p.BaseDelay \in Nat, p.MaxDelay \in Nat, NEW n \in Nat \ {0},
         NEW u, IsDoubling(u, p.BaseDelay, n), NEW d, IsBackoff(d, p, n)
  PROVE  /\ u[n] \in Nat /\ d[n] \in Nat
         /\ u[n] = d[n] \/ (u[n] >= p.MaxDelay /\ d[n] >= p.MaxDelay)
<1> DEFINE Agree(i) == /\ u[i] \in Nat /\ d[i] \in Nat
                       /\ u[i] = d[i] \/ (u[i] >= p.MaxDelay /\ d[i] >= p.MaxDelay)
<1> DEFINE Bad == {k \in 1..n : ~Agree(k)}
<1>1. SUFFICES ASSUME n \in Bad PROVE FALSE
  OBVIOUS
<1>2. Bad \in SUBSET Nat
  OBVIOUS
<1> HIDE DEF Bad
<1>3. PICK m \in Bad : \A k \in Bad : m <= k
  BY <1>1, <1>2, LeastNumber
<1>4. m \in 1..n /\ ~Agree(m)
  BY <1>3 DEF Bad
<1>5. /\ u[m] = IF m = 1 THEN p.BaseDelay ELSE 2 * u[m - 1]
      /\ d[m] = IF m = 1 THEN p.BaseDelay
                ELSE IF d[m - 1] < p.MaxDelay THEN 2 * d[m - 1] ELSE d[m - 1]
  BY <1>4 DEF IsDoubling, IsBackoff
<1>6. CASE m = 1
  BY <1>4, <1>5, <1>6
<1>7. CASE m # 1
  <2>1. m - 1 \in 1..n /\ m - 1 \notin Bad
    BY <1>2, <1>3, <1>4, <1>7
  <2>2. Agree(m - 1)
    BY <2>1 DEF Bad
  <2>3. QED
    BY <1>4, <1>5, <1>7, <2>2
<1>8. QED
  BY <1>6, <1>7

(* NextBackoff is BaseDelay doubled once per further failure, cut at        *)
(* MaxDelay, whatever the two delays and the number of the failure.         *)
THEOREM NextBackoffIsDelay ==
  ASSUME NEW p, p.BaseDelay \in Nat, p.MaxDelay \in Nat, NEW n \in Nat \ {0}
  PROVE  NextBackoff(p, n) = Delay(p, n) /\ NextBackoff(p, n) \in 0..p.MaxDelay
<1> DEFINE u == CHOOSE v : IsDoubling(v, p.BaseDelay, n)
<1> DEFINE d == CHOOSE v : IsBackoff(v, p, n)
<1>1. IsDoubling(u, p.BaseDelay, n)
  BY DoublingExists
<1>2. IsBackoff(d, p, n)
  BY BackoffExists
<1>3. /\ Doubled(p.BaseDelay, n) = u[n]
      /\ NextBackoff(p, n) = IF d[n] > p.MaxDelay THEN p.MaxDelay ELSE d[n]
  BY DEF Doubled, NextBackoff, IsDoubling, IsBackoff
<1> HIDE DEF u, d
<1>4. /\ u[n] \in Nat /\ d[n] \in Nat
      /\ u[n] = d[n] \/ (u[n] >= p.MaxDelay /\ d[n] >= p.MaxDelay)
  BY <1>1, <1>2, CutsAgree
<1>5. QED
  BY <1>3, <1>4 DEF Delay

----------------------------------------------------------------------------
(* The inductive invariant. *)

(* What holds of one task, given its record k, its history h and the       *)
(* holder m of the mutex: the counter is the streak, it stands at the       *)
(* policy's number exactly while the letter is filed under the mutex, and   *)
(* the wait noted and the time that has passed make up the policy's delay.  *)
Good(t, k, h, m) ==
  /\ k \in TaskState(t)
  /\ h \in [streak : 0..Policy[t].MaxAttempts, since : 0..Policy[t].MaxDelay]
  /\ h.streak = k.failures
  /\ k.pc = "record" <=> k.failures = Policy[t].MaxAttempts
  /\ k.pc = "record" <=> m = t
  /\ k.pc # "record" /\ k.failures > 0 =>
       h.since + k.wait >= NextBackoff(Policy[t], k.failures)

Running == {t \in Task : task[t].pc # "returned"}

Process ==
  /\ DOMAIN task = Task /\ DOMAIN history = Task
  /\ runWG = Cardinality(Running)
  /\ mu \in Task \cup {None}
  /\ {started, cancelled, expired, busy} \subseteq BOOLEAN
  /\ main  \in {"serving", "draining", "stopping", "waiting", "closed", "exited"}
  /\ probe \in {"idle", "ping", "pinged", "failed", "ready", "unready"}
  /\ main \in {"closed", "exited"} => expired \/ Running = {}

SInv == Process /\ \A t \in Task : Good(t, task[t], history[t], mu)

LEMMA PolicyFacts ==
  ASSUME NEW t \in Task
  PROVE  /\ Policy[t].MaxAttempts \in Nat \ {0}
         /\ Policy[t].BaseDelay \in Nat /\ Policy[t].MaxDelay \in Nat
         /\ Interval[t] \in Nat
BY PolicyAssumption

LEMMA TaskFields ==
  ASSUME NEW t \in Task, NEW k \in TaskState(t)
  PROVE  /\ k.pc \in {"select", "backoff", "tick", "ok", "err", "record", "returned"}
         /\ k.beat \in BOOLEAN
         /\ k.failures \in 0..Policy[t].MaxAttempts
         /\ k.wait \in 0..Policy[t].MaxDelay \cup 0..Interval[t]
BY DEF TaskState

LEMMA RunningIsFinite == IsFiniteSet(Running) /\ Cardinality(Running) \in Nat
<1>1. Running \in SUBSET Task
  BY DEF Running
<1>2. QED
  BY <1>1, TaskAssumption, FS_Subset, FS_CardinalityType

(* A step of one task, seen at that task, leaves the others as they are.    *)
OtherTasksSame(t) ==
  /\ DOMAIN task' = Task /\ DOMAIN history' = Task
  /\ \A s \in Task : s # t => task'[s] = task[s] /\ history'[s] = history[s]
  /\ mu' \in Task \cup {None}
  /\ \A s \in Task : s # t => (mu' = s <=> mu = s)
  /\ UNCHANGED <<system, world>>

LEMMA OneTaskKeeps ==
  ASSUME SInv, NEW t \in Task, OtherTasksSame(t),
         Good(t, task'[t], history'[t], mu'),
         task[t].pc # "returned" /\ task'[t].pc # "returned"
  PROVE  SInv'
<1>1. Running' = Running
  BY DEF OtherTasksSame, Running
<1>2. Process'
  BY <1>1 DEF SInv, Process, OtherTasksSame, system, world
<1>3. ASSUME NEW s \in Task, s # t
      PROVE  Good(s, task'[s], history'[s], mu')
  BY <1>3 DEF SInv, OtherTasksSame, Good
<1>4. (\A s \in Task : Good(s, task[s], history[s], mu))'
  BY <1>3
<1>5. QED
  BY <1>2, <1>4 DEF SInv

(* The steps that only move a task on. *)
LEMMA MovesOnKeeps ==
  ASSUME SInv, NEW t \in Task, NEW pc \in {"select", "backoff", "tick", "ok", "err"},
         NEW b \in BOOLEAN,
         task' = [task EXCEPT ![t].beat = b, ![t].pc = pc],
         task[t].pc \notin {"record", "returned"},
         UNCHANGED <<system, mu, world, history>>
  PROVE  SInv'
<1> DEFINE r == [task[t] EXCEPT !.beat = b, !.pc = pc]
<1>1. task[t] \in TaskState(t) /\ Good(t, task[t], history[t], mu)
  BY DEF SInv, Good
<1>2. r \in TaskState(t) /\ r.pc = pc /\ r.failures = task[t].failures /\ r.wait = task[t].wait
  BY <1>1, TaskFields DEF TaskState
<1>3. task' = [task EXCEPT ![t] = r] /\ DOMAIN task = Task
  BY DEF SInv, Process
<1> HIDE DEF r
<1>4. task'[t] = r /\ OtherTasksSame(t)
  BY <1>3 DEF OtherTasksSame, SInv, Process
<1>5. Good(t, r, history[t], mu)
  BY <1>1, <1>2 DEF Good
<1>6. QED
  BY <1>2, <1>4, <1>5, OneTaskKeeps

LEMMA GotoKeeps ==
  ASSUME SInv, NEW t \in Task, NEW pc \in {"select", "backoff", "tick", "ok", "err"},
         Goto(t, pc), task[t].pc \notin {"record", "returned"},
         UNCHANGED <<system, mu, world, history>>
  PROVE  SInv'
<1>1. task[t].beat \in BOOLEAN
  BY TaskFields DEF SInv, Good
<1>2. [task[t] EXCEPT !.pc = pc] = [task[t] EXCEPT !.beat = task[t].beat, !.pc = pc]
  BY DEF SInv, Good, TaskState
<1>3. task' = [task EXCEPT ![t].beat = task[t].beat, ![t].pc = pc]
  BY <1>2 DEF Goto, SInv, Process
<1>4. QED
  BY <1>1, <1>3, MovesOnKeeps

LEMMA BeatKeeps ==
  ASSUME SInv, NEW t \in Task, Beat(t)
  PROVE  SInv'
<1> DEFINE r == [task[t] EXCEPT !.beat = TRUE]
<1>1. task[t] \in TaskState(t) /\ Good(t, task[t], history[t], mu)
  BY DEF SInv, Good
<1>2. /\ r \in TaskState(t) /\ r.pc = task[t].pc
      /\ r.failures = task[t].failures /\ r.wait = task[t].wait
  BY <1>1, TaskFields DEF TaskState
<1>3. /\ task' = [task EXCEPT ![t] = r] /\ DOMAIN task = Task /\ task[t].pc # "returned"
      /\ UNCHANGED <<system, mu, world, history>>
  BY DEF Beat, SInv, Process
<1> HIDE DEF r
<1>4. task'[t] = r /\ OtherTasksSame(t)
  BY <1>3 DEF OtherTasksSame, SInv, Process
<1>5. Good(t, r, history[t], mu)
  BY <1>1, <1>2 DEF Good
<1>6. QED
  BY <1>2, <1>3, <1>4, <1>5, OneTaskKeeps

(* The task that returns is one fewer that Stop waits for. *)
LEMMA LeaveKeeps ==
  ASSUME SInv, NEW t \in Task, Leave(t)
  PROVE  SInv'
<1> DEFINE r == [task[t] EXCEPT !.pc = "returned"]
<1>1. task[t] \in TaskState(t) /\ Good(t, task[t], history[t], mu) /\ task[t].pc = "select"
  BY DEF SInv, Good, Leave, At
<1>2. /\ r \in TaskState(t) /\ r.pc = "returned"
      /\ r.failures = task[t].failures /\ r.wait = task[t].wait
  BY <1>1, TaskFields DEF TaskState
<1>3. /\ task' = [task EXCEPT ![t] = r] /\ DOMAIN task = Task /\ runWG' = runWG - 1
      /\ UNCHANGED <<mu, started, cancelled, main, expired, busy, probe, history>>
  BY DEF Leave, Goto, SInv, Process, world
<1> HIDE DEF r
<1>4. task'[t] = r /\ DOMAIN task' = Task /\ \A s \in Task : s # t => task'[s] = task[s]
  BY <1>3
<1>5. Good(t, r, history[t], mu)
  BY <1>1, <1>2 DEF Good
<1>6. \A s \in Task : Good(s, task'[s], history[s], mu)
  BY <1>4, <1>5 DEF SInv
<1>7. Running' = Running \ {t} /\ t \in Running
  BY <1>1, <1>2, <1>4 DEF Running
<1>8. runWG' = Cardinality(Running)'
  BY <1>3, <1>7, RunningIsFinite, FS_RemoveElement DEF SInv, Process
<1>9. main \in {"closed", "exited"} => expired \/ Running' = {}
  BY <1>7 DEF SInv, Process
<1>10. Process'
  BY <1>3, <1>4, <1>8, <1>9 DEF SInv, Process
<1>11. (\A s \in Task : Good(s, task[s], history[s], mu))'
  BY <1>3, <1>6
<1>12. QED
  BY <1>10, <1>11 DEF SInv

LEMMA NoteSuccessKeeps ==
  ASSUME SInv, NEW t \in Task, NoteSuccess(t)
  PROVE  SInv'
<1> DEFINE r == [task[t] EXCEPT !.pc = "select", !.failures = 0, !.wait = Interval[t]]
<1> DEFINE h == [history[t] EXCEPT !.streak = 0]
<1>1. /\ task[t] \in TaskState(t) /\ Good(t, task[t], history[t], mu)
      /\ task[t].pc = "ok" /\ mu = None
      /\ history[t] \in [streak : 0..Policy[t].MaxAttempts, since : 0..Policy[t].MaxDelay]
  BY DEF SInv, Good, NoteSuccess, At
<1>2. /\ r \in TaskState(t) /\ r.pc = "select" /\ r.failures = 0
      /\ h \in [streak : 0..Policy[t].MaxAttempts, since : 0..Policy[t].MaxDelay]
      /\ h.streak = 0
  <2>1. Interval[t] \in 0..Policy[t].MaxDelay \cup 0..Interval[t] /\ 0 \in 0..Policy[t].MaxAttempts
    BY PolicyFacts
  <2>2. /\ r \in TaskState(t) /\ r.pc = "select" /\ r.failures = 0
    BY <1>1, <2>1, TaskFields DEF TaskState
  <2>3. /\ h \in [streak : 0..Policy[t].MaxAttempts, since : 0..Policy[t].MaxDelay]
        /\ h.streak = 0
    BY <1>1, <2>1
  <2>4. QED
    BY <2>2, <2>3
<1>3. /\ task' = [task EXCEPT ![t] = r] /\ history' = [history EXCEPT ![t] = h]
      /\ DOMAIN task = Task /\ DOMAIN history = Task /\ UNCHANGED <<system, mu, world>>
  BY DEF NoteSuccess, SInv, Process
<1> HIDE DEF r, h
<1>4. task'[t] = r /\ history'[t] = h /\ OtherTasksSame(t)
  BY <1>3 DEF OtherTasksSame, SInv, Process
<1>5. Good(t, r, h, mu)
  BY <1>1, <1>2, PolicyFacts, TaskAssumption DEF Good
<1>6. QED
  BY <1>1, <1>2, <1>3, <1>4, <1>5, OneTaskKeeps

(* A failure that is not the last of its streak starts the policy's delay; *)
(* the last one takes the mutex.                                            *)
LEMMA NoteFailureKeeps ==
  ASSUME SInv, NEW t \in Task, NoteFailure(t)
  PROVE  SInv'
<1> DEFINE n == task[t].failures + 1
<1> DEFINE last == n >= Policy[t].MaxAttempts
<1> DEFINE w == IF last THEN task[t].wait ELSE NextBackoff(Policy[t], n)
<1> DEFINE pc == IF last THEN "record" ELSE "select"
<1> DEFINE r == [task[t] EXCEPT !.pc = pc, !.failures = n, !.wait = w]
<1> DEFINE st == IF history[t].streak < Policy[t].MaxAttempts
                 THEN history[t].streak + 1 ELSE history[t].streak
<1> DEFINE h == [history[t] EXCEPT !.since = 0, !.streak = st]
<1>1. /\ task[t] \in TaskState(t) /\ Good(t, task[t], history[t], mu)
      /\ task[t].pc = "err" /\ mu = None
      /\ history[t] \in [streak : 0..Policy[t].MaxAttempts, since : 0..Policy[t].MaxDelay]
  BY DEF SInv, Good, NoteFailure, At
<1>2. /\ task[t].failures \in 0..Policy[t].MaxAttempts
      /\ task[t].failures # Policy[t].MaxAttempts
      /\ history[t].streak = task[t].failures
      /\ task[t].wait \in 0..Policy[t].MaxDelay \cup 0..Interval[t]
      /\ task[t].beat \in BOOLEAN
  BY <1>1, TaskFields DEF Good
<1>3. /\ n \in 1..Policy[t].MaxAttempts /\ st = n
      /\ last <=> n = Policy[t].MaxAttempts
  BY <1>2, PolicyFacts
<1>4. NextBackoff(Policy[t], n) \in 0..Policy[t].MaxDelay
  BY <1>3, PolicyFacts, NextBackoffIsDelay
<1>5. w \in 0..Policy[t].MaxDelay \cup 0..Interval[t]
  BY <1>2, <1>4
<1>6. pc \in {"record", "select"} /\ (pc = "record" <=> last)
  OBVIOUS
<1>7. ~last => w = NextBackoff(Policy[t], n)
  OBVIOUS
<1>8. /\ task' = [task EXCEPT ![t] = r] /\ history' = [history EXCEPT ![t] = h]
      /\ DOMAIN task = Task /\ DOMAIN history = Task /\ UNCHANGED <<system, world>>
      /\ mu' = IF last THEN t ELSE None
  <2>1. history' = [history EXCEPT ![t] = h] /\ UNCHANGED <<system, world>>
        /\ DOMAIN task = Task /\ DOMAIN history = Task
    BY DEF NoteFailure, SInv, Process
  <2>2. task' = [task EXCEPT ![t] = r] /\ mu' = IF last THEN t ELSE None
    <3>1. CASE last
      <4>1. [task[t] EXCEPT !.pc = "record", !.failures = n] = r
        BY <1>1, <3>1 DEF TaskState
      <4>2. QED
        BY <2>1, <3>1, <4>1 DEF NoteFailure
    <3>2. CASE ~last
      <4>1. [task[t] EXCEPT !.pc = "select", !.failures = n,
                            !.wait = NextBackoff(Policy[t], n)] = r
        BY <3>2
      <4>2. QED
        BY <1>1, <2>1, <3>2, <4>1 DEF NoteFailure
    <3>3. QED
      BY <3>1, <3>2
  <2>3. QED
    BY <2>1, <2>2
<1> HIDE DEF pc, w, st
<1>9. r \in TaskState(t) /\ r.pc = pc /\ r.failures = n /\ r.wait = w
  <2>1. /\ n \in 0..Policy[t].MaxAttempts
        /\ pc \in {"select", "backoff", "tick", "ok", "err", "record", "returned"}
    BY <1>3, <1>6
  <2> HIDE DEF n
  <2>2. r \in TaskState(t)
    BY <1>1, <1>5, <2>1, Zenon DEF TaskState
  <2>3. QED
    BY <1>1, <2>2 DEF TaskState
<1>10. /\ h \in [streak : 0..Policy[t].MaxAttempts, since : 0..Policy[t].MaxDelay]
       /\ h.streak = n /\ h.since = 0
  <2>1. 0 \in 0..Policy[t].MaxDelay /\ st \in 0..Policy[t].MaxAttempts
    BY <1>3, PolicyFacts
  <2>2. QED
    BY <1>1, <1>3, <2>1
<1> HIDE DEF r, h
<1>11. task'[t] = r /\ history'[t] = h /\ OtherTasksSame(t)
  BY <1>1, <1>8, TaskAssumption DEF OtherTasksSame, SInv, Process
<1>12. Good(t, r, h, mu')
  BY <1>3, <1>4, <1>6, <1>7, <1>8, <1>9, <1>10, TaskAssumption DEF Good
<1>13. QED
  BY <1>1, <1>6, <1>9, <1>11, <1>12, OneTaskKeeps

(* The letter is filed or its insert has failed: a new streak. *)
LEMMA FiledKeeps ==
  ASSUME SInv, NEW t \in Task, task[t].pc = "record", Filed(t),
         history' = [history EXCEPT ![t].streak = 0], UNCHANGED <<system, world>>
  PROVE  SInv'
<1> DEFINE r == [task[t] EXCEPT !.pc = "select", !.failures = 0]
<1> DEFINE h == [history[t] EXCEPT !.streak = 0]
<1>1. /\ task[t] \in TaskState(t) /\ Good(t, task[t], history[t], mu)
      /\ history[t] \in [streak : 0..Policy[t].MaxAttempts, since : 0..Policy[t].MaxDelay]
  BY DEF SInv, Good
<1>2. 0 \in 0..Policy[t].MaxAttempts /\ Policy[t].MaxAttempts # 0
  BY PolicyFacts
<1>3. r \in TaskState(t) /\ r.pc = "select" /\ r.failures = 0
  BY <1>1, <1>2, TaskFields DEF TaskState
<1>4. /\ h \in [streak : 0..Policy[t].MaxAttempts, since : 0..Policy[t].MaxDelay]
      /\ h.streak = 0
  BY <1>1, <1>2
<1>5. /\ task' = [task EXCEPT ![t] = r] /\ history' = [history EXCEPT ![t] = h]
      /\ DOMAIN task = Task /\ DOMAIN history = Task /\ UNCHANGED <<system, world>>
      /\ mu = t /\ mu' = None
  BY <1>1 DEF Filed, SInv, Process, Good
<1> HIDE DEF r, h
<1>6. task'[t] = r /\ history'[t] = h /\ OtherTasksSame(t)
  BY <1>5, TaskAssumption DEF OtherTasksSame
<1>7. Good(t, r, h, mu')
  BY <1>2, <1>3, <1>4, <1>5, TaskAssumption DEF Good
<1>8. QED
  BY <1>3, <1>6, <1>7, OneTaskKeeps

LEMMA RunKeeps ==
  ASSUME SInv, NEW t \in Task, Run(t)
  PROVE  SInv'
<1>1. CASE Leave(t)
  BY <1>1, LeaveKeeps
<1>2. CASE TakeBeat(t)
  BY <1>2, MovesOnKeeps DEF TakeBeat, At
<1>3. CASE SkipOrRun(t)
  <2>1. (IF InBackoff(t) THEN "select" ELSE "tick") \in {"select", "tick"}
    OBVIOUS
  <2>2. QED
    BY <1>3, <2>1, GotoKeeps DEF SkipOrRun, At
<1>4. CASE TickOK(t) \/ TickErrs(t) \/ NoteCancelled(t)
  BY <1>4, GotoKeeps DEF TickOK, TickErrs, NoteCancelled, At
<1>5. CASE NoteSuccess(t)
  BY <1>5, NoteSuccessKeeps
<1>6. CASE NoteFailure(t)
  BY <1>6, NoteFailureKeeps
<1>7. CASE Record(t) \/ RecordErrs(t)
  BY <1>7, FiledKeeps DEF Record, RecordErrs, At
<1>8. QED
  BY <1>1, <1>2, <1>3, <1>4, <1>5, <1>6, <1>7 DEF Run

(* Time that passes shortens the wait by what it adds to the time since    *)
(* the failure.                                                             *)
LEMMA ClockKeeps ==
  ASSUME SInv, Clock
  PROVE  SInv'
<1>1. /\ DOMAIN task' = Task /\ DOMAIN history' = Task
      /\ UNCHANGED <<system, mu, world>>
  BY DEF Clock
<1>2. ASSUME NEW t \in Task
      PROVE  Good(t, task'[t], history'[t], mu) /\ task'[t].pc = task[t].pc
  <2> DEFINE w == IF task[t].wait > 0 THEN task[t].wait - 1 ELSE 0
  <2> DEFINE r == [task[t] EXCEPT !.wait = w]
  <2> DEFINE s == IF history[t].since < Policy[t].MaxDelay
                  THEN history[t].since + 1 ELSE history[t].since
  <2> DEFINE h == [history[t] EXCEPT !.since = s]
  <2>1. /\ task[t] \in TaskState(t) /\ Good(t, task[t], history[t], mu)
        /\ history[t] \in [streak : 0..Policy[t].MaxAttempts, since : 0..Policy[t].MaxDelay]
    BY DEF SInv, Good
  <2>2. task'[t] = r /\ history'[t] = h
    BY DEF Clock
  <2>3. /\ task[t].wait \in Nat /\ history[t].since \in 0..Policy[t].MaxDelay
        /\ history[t].streak \in 0..Policy[t].MaxAttempts
        /\ task[t].failures \in 0..Policy[t].MaxAttempts
    BY <2>1, TaskFields, PolicyFacts
  <2>4. /\ w \in 0..Policy[t].MaxDelay \cup 0..Interval[t]
        /\ s \in 0..Policy[t].MaxDelay
        /\ s = Policy[t].MaxDelay \/ s + w >= history[t].since + task[t].wait
    BY <2>1, <2>3, TaskFields, PolicyFacts
  <2> HIDE DEF w, s
  <2>5. r \in TaskState(t) /\ r.pc = task[t].pc /\ r.failures = task[t].failures /\ r.wait = w
    BY <2>1, <2>4, TaskFields DEF TaskState
  <2>6. /\ h \in [streak : 0..Policy[t].MaxAttempts, since : 0..Policy[t].MaxDelay]
        /\ h.streak = history[t].streak /\ h.since = s
    BY <2>1, <2>4
  <2> HIDE DEF r, h
  <2>7. task[t].failures > 0 => NextBackoff(Policy[t], task[t].failures) \in 0..Policy[t].MaxDelay
    BY <2>3, PolicyFacts, NextBackoffIsDelay
  <2>8. w \in Nat
    BY <2>4, PolicyFacts
  <2>9. r.pc # "record" /\ r.failures > 0 =>
          h.since + r.wait >= NextBackoff(Policy[t], r.failures)
    BY <2>1, <2>3, <2>4, <2>5, <2>6, <2>7, <2>8, PolicyFacts DEF Good
  <2>10. Good(t, r, h, mu)
    BY <2>1, <2>5, <2>6, <2>9 DEF Good
  <2>11. QED
    BY <2>2, <2>5, <2>10
<1>3. Running' = Running
  BY <1>2 DEF Running
<1>4. Process'
  BY <1>1, <1>3 DEF SInv, Process, system, world
<1>5. (\A t \in Task : Good(t, task[t], history[t], mu))'
  BY <1>1, <1>2
<1>6. QED
  BY <1>4, <1>5 DEF SInv

(* The signal, the main function, the probes and the connection leave the  *)
(* tasks alone; main closes the store when the tasks have returned or the   *)
(* timeout has elapsed.                                                     *)
LEMMA RestKeeps ==
  ASSUME SInv,
         Signal \/ Main \/ Timeout \/ ProbeArrives \/ Readyz \/ Busy \/ UNCHANGED vars
  PROVE  SInv'
<1>1. UNCHANGED <<task, history, mu, runWG>>
  BY DEF Signal, Main, Timeout, ProbeArrives, Readyz, Busy, vars, Shutdown, Drained, Stop,
         StopReturns, Exit, Ping, PingErrs, Started, ProbeEnds, system
<1>2. Running' = Running
  BY <1>1 DEF Running
<1>3. runWG = 0 => Running = {}
  BY RunningIsFinite, FS_EmptySet DEF SInv, Process
<1>4. {started', cancelled', expired', busy'} \subseteq BOOLEAN
  BY DEF SInv, Process, Signal, Main, Timeout, ProbeArrives, Readyz, Busy, vars, Shutdown,
         Drained, Stop, StopReturns, Exit, Ping, PingErrs, Started, ProbeEnds, system, world
<1>5. /\ main' \in {"serving", "draining", "stopping", "waiting", "closed", "exited"}
      /\ probe' \in {"idle", "ping", "pinged", "failed", "ready", "unready"}
      /\ main' \in {"closed", "exited"} => expired' \/ Running = {}
  BY <1>3 DEF SInv, Process, Signal, Main, Timeout, ProbeArrives, Readyz, Busy, vars, Shutdown,
         Drained, Stop, StopReturns, Exit, Ping, PingErrs, Started, ProbeEnds, system, world
<1>6. Process'
  BY <1>1, <1>2, <1>4, <1>5 DEF SInv, Process
<1>7. (\A t \in Task : Good(t, task[t], history[t], mu))'
  BY <1>1 DEF SInv
<1>8. QED
  BY <1>6, <1>7 DEF SInv

LEMMA InitSInv == Init => SInv
<1> SUFFICES ASSUME Init PROVE SInv
  OBVIOUS
<1>1. ASSUME NEW t \in Task
      PROVE  Good(t, task[t], history[t], mu) /\ task[t].pc # "returned"
  <2>1. task[t] = NewTask /\ history[t] = [streak |-> 0, since |-> Policy[t].MaxDelay]
    BY DEF Init
  <2>2. NewTask \in TaskState(t) /\ NewTask.pc = "select" /\ NewTask.failures = 0
    BY PolicyFacts DEF NewTask, TaskState
  <2>3. QED
    BY <2>1, <2>2, PolicyFacts, TaskAssumption DEF Good, Init
<1>2. Running = Task
  BY <1>1 DEF Running
<1>3. Process
  BY <1>2 DEF Init, Process
<1>4. QED
  BY <1>1, <1>3 DEF SInv

LEMMA NextSInv == SInv /\ [Next]_vars => SInv'
BY RestKeeps, ClockKeeps, RunKeeps, BeatKeeps DEF Next

LEMMA SpecSInv == Spec => []SInv
BY InitSInv, NextSInv, PTL DEF Spec

----------------------------------------------------------------------------
(* What the scheduler promises. *)

(* No counter runs past its policy, and no wait past its delay.             *)
THEOREM SchedulerTypeCorrect == Spec => []TypeOK
<1>1. SInv => TypeOK
  <2> SUFFICES ASSUME SInv PROVE TypeOK
    OBVIOUS
  <2>1. Running \in SUBSET Task
    BY DEF Running
  <2>2. Cardinality(Running) <= Cardinality(Task) /\ Cardinality(Task) \in Nat
    BY <2>1, TaskAssumption, FS_Subset, FS_CardinalityType
  <2>3. runWG \in 0..Cardinality(Task)
    BY <2>2, RunningIsFinite DEF SInv, Process
  <2>4. QED
    BY <2>3 DEF SInv, Process, Good, TypeOK
<1>2. QED
  BY <1>1, SpecSInv, PTL

(* A dead letter is filed after MaxAttempts failures of the same task in a *)
(* row and never sooner (runOnce, noteFailure).                             *)
THEOREM TaskLettersEarned == Spec => []LettersEarned
<1>1. SInv => LettersEarned
  <2> SUFFICES ASSUME SInv, NEW t \in Task
               PROVE  /\ task[t].pc = "record" => history[t].streak = Policy[t].MaxAttempts
                      /\ task[t].pc = "select" => history[t].streak < Policy[t].MaxAttempts
    BY DEF LettersEarned
  <2>1. /\ task[t].failures \in 0..Policy[t].MaxAttempts
        /\ history[t].streak = task[t].failures
        /\ task[t].pc = "record" <=> task[t].failures = Policy[t].MaxAttempts
    BY TaskFields DEF SInv, Good
  <2>2. QED
    BY <2>1, PolicyFacts
<1>2. QED
  BY <1>1, SpecSInv, PTL

(* The store is not closed under a task that still runs, unless the         *)
(* shutdown timeout has elapsed (Stop, main).                               *)
THEOREM StoreClosesLast == Spec => []StoreOutlivesTasks
<1>1. SInv => StoreOutlivesTasks
  BY DEF SInv, Process, Running, StoreOutlivesTasks
<1>2. QED
  BY <1>1, SpecSInv, PTL

(* No attempt starts before the policy's delay after the failure before it *)
(* has passed (inBackoff, NextBackoff).                                     *)
THEOREM BackoffIsKept == Spec => BackoffHonoured
<1>1. ASSUME SInv, [Next]_vars, NEW t \in Task,
             task[t].pc # "tick", task'[t].pc = "tick", task[t].failures > 0
      PROVE  history[t].since >= Delay(Policy[t], task[t].failures)
  <2>1. Good(t, task[t], history[t], mu) /\ DOMAIN task = Task
    BY <1>1 DEF SInv, Process
  <2>2. ASSUME NEW s \in Task, Beat(s) \/ Run(s)
        PROVE  s = t /\ SkipOrRun(t)
    <3>1. s = t
      BY <1>1, <2>1, <2>2 DEF Beat, Run, Leave, TakeBeat, SkipOrRun, TickOK, TickErrs,
            NoteSuccess, NoteCancelled, NoteFailure, Record, RecordErrs, Filed, Goto
    <3>2. QED
      BY <1>1, <2>1, <2>2, <3>1 DEF Beat, Run, Leave, TakeBeat, TickOK, TickErrs,
            NoteSuccess, NoteCancelled, NoteFailure, Record, RecordErrs, Filed, Goto,
            Good, TaskState
  <2>c. ~Clock
    <3>1. Clock => task'[t].pc = task[t].pc
      <4>1. Clock => task'[t] = [task[t] EXCEPT !.wait = IF @ > 0 THEN @ - 1 ELSE 0]
        BY DEF Clock
      <4>2. QED
        BY <2>1, <4>1 DEF Good, TaskState
    <3>2. QED
      BY <1>1, <3>1
  <2>3. SkipOrRun(t)
    BY <1>1, <2>2, <2>c DEF Next, Signal, Main, Timeout, ProbeArrives, Readyz, Busy, vars, Shutdown,
       Drained, Stop, StopReturns, Exit, Ping, PingErrs, Started, ProbeEnds
  <2>4. task[t].wait \in Nat /\ ~(task[t].wait > 0) /\ task[t].pc # "record"
    <3>1. ~InBackoff(t)
      BY <1>1, <2>1, <2>3 DEF SkipOrRun, Goto, Good, TaskState
    <3>2. QED
      BY <1>1, <2>1, <2>3, <3>1, TaskFields, PolicyFacts DEF InBackoff, SkipOrRun, At, Good
  <2>5. /\ history[t].since \in Nat
        /\ task[t].failures \in Nat \ {0}
        /\ history[t].since + task[t].wait >= NextBackoff(Policy[t], task[t].failures)
    BY <1>1, <2>1, <2>4, TaskFields, PolicyFacts DEF Good
  <2>6. NextBackoff(Policy[t], task[t].failures) = Delay(Policy[t], task[t].failures)
        /\ NextBackoff(Policy[t], task[t].failures) \in Nat
    BY <2>5, PolicyFacts, NextBackoffIsDelay
  <2>7. QED
    BY <2>4, <2>5, <2>6
<1>2. SInv /\ [Next]_vars =>
        [\A t \in Task :
           task[t].pc # "tick" /\ task'[t].pc = "tick" /\ task[t].failures > 0 =>
             history[t].since >= Delay(Policy[t], task[t].failures)]_vars
  BY <1>1
<1>3. QED
  BY <1>2, SpecSInv, PTL DEF Spec, BackoffHonoured

============================================================================
