----------------------------- MODULE ReadingLog -----------------------------
(***************************************************************************)
(* What the way of a reading promises, with no leases, no lock, no         *)
(* connection and no process in sight: there is one log, which only grows, *)
(* a line at a time and only by items that somebody still works on; an     *)
(* item is finished with the number of a line of its own.  IngestPath is   *)
(* shown to implement this.                                                *)
(***************************************************************************)
EXTENDS Integers, Sequences

CONSTANTS
  Item,      \* submissions
  Corrupt    \* a line that does not decode

VARIABLES
  log,       \* the lines that nobody will take back, each with its item
  status,    \* status[i]: absent, open, done or failed
  where,     \* where[i]: the line that the row of i names, counted from 0
  sound      \* whether every cached count has been right so far

vars == <<log, status, where, sound>>

Init ==
  /\ log    = <<>>
  /\ status = [i \in Item |-> "absent"]
  /\ where  = [i \in Item |-> 0]
  /\ sound  = TRUE

Submit(i) ==
  /\ status[i] = "absent"
  /\ status' = [status EXCEPT ![i] = "open"]
  /\ UNCHANGED <<log, where, sound>>

(* A line that stays: a reading of an open item, or what is left of it. *)
Grow(i) ==
  /\ status[i] = "open"
  /\ \E x \in {i, Corrupt} : log' = Append(log, x)
  /\ sound' \in {sound, FALSE}
  /\ UNCHANGED <<status, where>>

(* A count goes wrong, and with it perhaps the names given from then on. *)
Unsound == sound' = FALSE /\ UNCHANGED <<log, status, where>>

(* Line n may be named by item i: it is there, it is not another item's,    *)
(* and no other done item has that name.                                    *)
Nameable(i, n) ==
  /\ n \in 0..(Len(log) - 1)
  /\ log[n + 1] \in {i, Corrupt}
  /\ \A j \in Item \ {i} : status[j] = "done" => where[j] # n

Finish(i) ==
  /\ status[i] = "open"
  /\ where' \in [Item -> Nat]
  /\ \A j \in Item \ {i} : where'[j] = where[j]
  /\ sound => Nameable(i, where'[i])
  /\ status' = [status EXCEPT ![i] = "done"]
  /\ UNCHANGED <<log, sound>>

GiveUp(i) ==
  /\ status[i] = "open"
  /\ status' = [status EXCEPT ![i] = "failed"]
  /\ UNCHANGED <<log, where, sound>>

(* An operator re-injects the item. *)
Reopen(i) ==
  /\ status[i] \in {"done", "failed"}
  /\ status' = [status EXCEPT ![i] = "open"]
  /\ UNCHANGED <<log, where, sound>>

Next ==
  \/ \E i \in Item : Submit(i) \/ Grow(i) \/ Finish(i) \/ GiveUp(i) \/ Reopen(i)
  \/ Unsound

Spec == Init /\ [][Next]_vars

=============================================================================
