-------------------------- MODULE TicketLifecycle --------------------------
(***************************************************************************)
(* What the alert service promises about a ticket, with no database, no   *)
(* transaction and no client in sight: a ticket has a phase, at most one   *)
(* holder while somebody is responsible for it, and a receipt that names   *)
(* the holder who resolved it.  One problem (a collector and a rule) has   *)
(* at most one live ticket.  AlertTicket is shown to implement this.       *)
(***************************************************************************)
CONSTANTS
  Ticket,    \* alert ids
  Problem,   \* (collector, rule) pairs that a ticket can be about
  Handler,   \* people who may be responsible for a ticket
  None       \* nobody, nothing

VARIABLES
  phase,     \* phase[t]: where ticket t is in its life
  problem,   \* problem[t]: what ticket t is about
  holder,    \* holder[t]: who is responsible for t now, None when nobody is
  receipt    \* receipt[t]: who resolved t, None until somebody has

vars == <<phase, problem, holder, receipt>>

Live == {"open", "assigned", "handling"}

Init ==
  /\ phase   = [t \in Ticket |-> "absent"]
  /\ problem = [t \in Ticket |-> None]
  /\ holder  = [t \in Ticket |-> None]
  /\ receipt = [t \in Ticket |-> None]

(* A ticket is raised for a problem that has no live ticket. *)
Raise(t, p) ==
  /\ phase[t] = "absent"
  /\ \A u \in Ticket : problem[u] = p => phase[u] \notin Live
  /\ phase'   = [phase EXCEPT ![t] = "open"]
  /\ problem' = [problem EXCEPT ![t] = p]
  /\ UNCHANGED <<holder, receipt>>

(* One handler becomes responsible for an open ticket. *)
Take(t, h) ==
  /\ phase[t] = "open"
  /\ phase'  = [phase EXCEPT ![t] = "assigned"]
  /\ holder' = [holder EXCEPT ![t] = h]
  /\ UNCHANGED <<problem, receipt>>

(* Work on a taken ticket begins; its holder stays the same. *)
Start(t) ==
  /\ phase[t] = "assigned"
  /\ phase' = [phase EXCEPT ![t] = "handling"]
  /\ UNCHANGED <<problem, holder, receipt>>

(* The holder, and nobody else, is named on the receipt. *)
Resolve(t) ==
  /\ phase[t] = "handling"
  /\ phase'   = [phase EXCEPT ![t] = "resolved"]
  /\ receipt' = [receipt EXCEPT ![t] = holder[t]]
  /\ holder'  = [holder EXCEPT ![t] = None]
  /\ UNCHANGED problem

Close(t) ==
  /\ phase[t] = "resolved"
  /\ phase' = [phase EXCEPT ![t] = "closed"]
  /\ UNCHANGED <<problem, holder, receipt>>

(* Nobody is responsible any more, and the ticket is open again. *)
Release(t) ==
  /\ phase[t] \in {"assigned", "handling"}
  /\ phase'  = [phase EXCEPT ![t] = "open"]
  /\ holder' = [holder EXCEPT ![t] = None]
  /\ UNCHANGED <<problem, receipt>>

Revoke(t) ==
  /\ phase[t] \in Live
  /\ phase'  = [phase EXCEPT ![t] = "revoked"]
  /\ holder' = [holder EXCEPT ![t] = None]
  /\ UNCHANGED <<problem, receipt>>

Next ==
  \E t \in Ticket :
    \/ \E p \in Problem : Raise(t, p)
    \/ \E h \in Handler : Take(t, h)
    \/ Start(t)
    \/ Resolve(t)
    \/ Close(t)
    \/ Release(t)
    \/ Revoke(t)

Spec == Init /\ [][Next]_vars

============================================================================
