---------------------------- MODULE MCScheduler ----------------------------
(* Scheduler with two tasks: one whose failures double its delay until the  *)
(* policy cuts it, and one that files a letter at its first failure and     *)
(* otherwise waits for what the first one holds.                            *)
EXTENDS Scheduler

CONSTANTS t1, t2

MCPolicy ==
  [t \in Task |-> IF t = t1
                  THEN [MaxAttempts |-> 3, BaseDelay |-> 2, MaxDelay |-> 3]
                  ELSE [MaxAttempts |-> 1, BaseDelay |-> 0, MaxDelay |-> 0]]

(* The wait noted after a success is not looked at as long as nothing fails. *)
MCInterval == [t \in Task |-> 0]

============================================================================
