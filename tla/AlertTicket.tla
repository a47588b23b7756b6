---------------------------- MODULE AlertTicket ----------------------------
(***************************************************************************)
(* Alert tickets: the alerts and assignments tables, the calls that move a *)
(* ticket (accept, start, resolve, release, revoke, close) and the         *)
(* evaluator that raises tickets and keeps duplicates quiet.               *)
(*                                                                         *)
(* The database has one connection (sqlite.go, SetMaxOpenConns(1)): a      *)
(* transaction holds it from BeginTx to Commit or Rollback, a single       *)
(* statement needs it free.  A call reads its reply in a statement of its  *)
(* own after the commit, so the steps of other calls and of the evaluator  *)
(* fall between any two steps of a call.                                   *)
(***************************************************************************)
EXTENDS Naturals, FiniteSets

CONSTANTS
  Alert,       \* alert ids
  Problem,     \* (collector id, rule id) pairs
  Handler,     \* handler ids
  Dispatch,    \* assignment ids; their number bounds how often tickets are taken
  Client,      \* HTTP requests served concurrently
  Other,       \* other users of the connection: exports, queue and index writes
  None,        \* the empty string, SQL NULL, no process
  MaxVersion   \* bound: the evaluator suppresses only below this row version

ASSUME NoneAssumption ==
  None \notin Alert \cup Problem \cup Handler \cup Dispatch \cup Client \cup Other
ASSUME OtherAssumption == Client \cap Other = {}
ASSUME BoundAssumption == MaxVersion \in Nat

VARIABLES
  alert,       \* the alerts table, by id
  dispatch,    \* the assignments table, by id
  conn,        \* who holds the connection in a transaction, None when pooled
  call,        \* the request each client has in flight
  eval         \* the evaluator's place in its sweep

vars == <<alert, dispatch, conn, call, eval>>

----------------------------------------------------------------------------
(* The explicit state table. *)

Move(from, event, to) == [from |-> from, event |-> event, to |-> to]

alertTable == {
  Move("open",     "accept",  "assigned"),
  Move("assigned", "start",   "handling"),
  Move("assigned", "release", "open"),
  Move("handling", "resolve", "resolved"),
  Move("handling", "release", "open"),
  Move("resolved", "close",   "closed"),
  Move("open",     "revoke",  "revoked"),
  Move("assigned", "revoke",  "revoked"),
  Move("handling", "revoke",  "revoked") }

AlertState   == {"open", "assigned", "handling", "resolved", "closed", "revoked"}
Terminal     == {"closed", "revoked"}
HandlerEvent == {"accept", "start", "resolve", "release"}
DutyEvent    == {"revoke", "close"}
AlertEvent   == HandlerEvent \cup DutyEvent

(* NextState: the states an event may lead to; none when it is illegal. *)
NextState(from, event) ==
  {m.to : m \in {n \in alertTable : n.from = from /\ n.event = event}}

(* The states in which FindActive still sees a ticket for the problem. *)
LiveState == {"open", "assigned", "handling"}

----------------------------------------------------------------------------
(* Rows, requests and the evaluator. *)

AlertRow == [state    : AlertState \cup {"absent"},
             problem  : Problem \cup {None},
             assignee : Handler \cup {None},
             version  : Nat]

DispatchRow == [state   : {"unused", "active", "completed", "cancelled"},
                alert   : Alert \cup {None},
                handler : Handler \cup {None}]

Call == [pc      : {"idle", "waiting", "tx", "readback", "audit", "answered"},
         event   : AlertEvent \cup {None},
         alert   : Alert \cup {None},
         handler : Handler \cup {None},
         row     : AlertRow,                \* the row the transaction read
         moved   : BOOLEAN,                 \* the transaction committed
         outcome : {"none", "ok", "lost", "rejected", "error", "unread"},
         winner  : Handler \cup {None},     \* AlreadyAssignedError.AssigneeID
         shown   : AlertRow,                \* the alert in the reply
         gone    : BOOLEAN,                 \* the request's context is cancelled
         audited : BOOLEAN]                 \* the audit entry was written

Eval == [pc      : {"idle", "suppress", "create"},
         problem : Problem \cup {None},
         alert   : Alert \cup {None},
         row     : AlertRow]

NoAlert    == [state |-> "absent", problem |-> None, assignee |-> None, version |-> 0]
NoDispatch == [state |-> "unused", alert |-> None, handler |-> None]
NoCall     == [pc |-> "idle", event |-> None, alert |-> None, handler |-> None,
               row |-> NoAlert, moved |-> FALSE, outcome |-> "none", winner |-> None,
               shown |-> NoAlert, gone |-> FALSE, audited |-> FALSE]
NoEval     == [pc |-> "idle", problem |-> None, alert |-> None, row |-> NoAlert]

TypeOK ==
  /\ alert    \in [Alert -> AlertRow]
  /\ dispatch \in [Dispatch -> DispatchRow]
  /\ conn     \in Client \cup Other \cup {None}
  /\ call     \in [Client -> Call]
  /\ eval     \in Eval

Init ==
  /\ alert    = [a \in Alert |-> NoAlert]
  /\ dispatch = [d \in Dispatch |-> NoDispatch]
  /\ conn     = None
  /\ call     = [c \in Client |-> NoCall]
  /\ eval     = NoEval

ActiveFor(a)    == {d \in Dispatch : dispatch[d].alert = a /\ dispatch[d].state = "active"}
CompletedFor(a) == {d \in Dispatch : dispatch[d].alert = a /\ dispatch[d].state = "completed"}

----------------------------------------------------------------------------
(* A request arrives.  Handlers act under their own name or the one in the *)
(* body, duty staff act without one.  Bound: an accept is only requested   *)
(* while an assignment id is left for it.                                  *)
DispatchLeft ==
  Cardinality({c \in Client : call[c].event = "accept" /\ call[c].pc \in {"waiting", "tx"}})
    < Cardinality({d \in Dispatch : dispatch[d].state = "unused"})

Request(c, e, a, h) ==
  /\ call[c].pc = "idle"
  /\ h = None <=> e \in DutyEvent
  /\ e = "accept" => DispatchLeft
  /\ call' = [call EXCEPT ![c] = [NoCall EXCEPT !.pc = "waiting", !.event = e,
                                                !.alert = a, !.handler = h]]
  /\ UNCHANGED <<alert, dispatch, conn, eval>>

(* BeginTx takes the connection; the SELECT that follows reads the row. *)
Begin(c) ==
  /\ call[c].pc = "waiting"
  /\ ~call[c].gone
  /\ conn = None
  /\ conn' = c
  /\ call' = [call EXCEPT ![c].pc = "tx", ![c].row = alert[call[c].alert]]
  /\ UNCHANGED <<alert, dispatch, eval>>

InTx(c, e) == call[c].pc = "tx" /\ call[c].event = e /\ ~call[c].gone

(* The transaction ends and the connection goes back to the pool.           *)
Committed(c) ==
  /\ conn' = None
  /\ call' = [call EXCEPT ![c].pc = "readback", ![c].moved = TRUE]

RolledBack(c, outcome, winner, next) ==
  /\ conn' = None
  /\ call' = [call EXCEPT ![c].pc = next, ![c].outcome = outcome, ![c].winner = winner]
  /\ UNCHANGED <<alert, dispatch>>

----------------------------------------------------------------------------
(* Writes of a transaction. *)

SetAlert(a, state, who) ==
  alert' = [alert EXCEPT ![a].state = state, ![a].assignee = who, ![a].version = @ + 1]

(* A state string outside the schema's vocabulary. *)
EndDispatchMisspelt(a, state) ==
  dispatch' = [d \in Dispatch |-> IF d \in ActiveFor(a)
                                  THEN [dispatch[d] EXCEPT !.state = "canceled"]
                                  ELSE dispatch[d]]

EndDispatch(a, state) ==
  dispatch' = [d \in Dispatch |-> IF d \in ActiveFor(a)
                                  THEN [dispatch[d] EXCEPT !.state = state]
                                  ELSE dispatch[d]]

(* AcceptAlert, first caller: an assignment is inserted (the partial unique *)
(* index allows one active per alert) and the row is updated by version.    *)
Free(c) ==
  /\ call[c].row.state = "open"
  /\ ActiveFor(call[c].alert) = {}
  /\ alert[call[c].alert].version = call[c].row.version

(* The ticket is marked assigned but the assignment row is not inserted. *)
AcceptWinsRowOnly(c, d) ==
  /\ InTx(c, "accept")
  /\ Free(c)
  /\ dispatch[d].state = "unused"
  /\ SetAlert(call[c].alert, "assigned", call[c].handler)
  /\ Committed(c)
  /\ UNCHANGED <<dispatch, eval>>

AcceptWins(c, d) ==
  /\ InTx(c, "accept")
  /\ Free(c)
  /\ dispatch[d].state = "unused"
  /\ dispatch' = [dispatch EXCEPT ![d] = [state |-> "active", alert |-> call[c].alert,
                                          handler |-> call[c].handler]]
  /\ SetAlert(call[c].alert, "assigned", call[c].handler)
  /\ Committed(c)
  /\ UNCHANGED eval

(* AcceptAlert, later callers: AlreadyAssignedError with the assignee read, *)
(* or without a name once the ticket is resolved, closed or revoked.        *)
Winner(row) ==
  IF row.state \in {"resolved", "closed", "revoked"} THEN None ELSE row.assignee

Taken(c) ==
  IF call[c].row.state = "open" THEN ActiveFor(call[c].alert) # {}
                                ELSE call[c].row.state # "absent"

(* The error names the caller instead of the assignee that was read. *)
AcceptLosesToItself(c) ==
  /\ InTx(c, "accept")
  /\ Taken(c)
  /\ RolledBack(c, "lost", call[c].handler, "audit")
  /\ UNCHANGED eval

AcceptLoses(c) ==
  /\ InTx(c, "accept")
  /\ Taken(c)
  /\ RolledBack(c, "lost", Winner(call[c].row), "audit")
  /\ UNCHANGED eval

(* Transition: start and close only change the row. *)
StartOrClose(c, e) ==
  /\ InTx(c, e)
  /\ \E to \in NextState(call[c].row.state, e) :
       SetAlert(call[c].alert, to, call[c].row.assignee)
  /\ Committed(c)
  /\ UNCHANGED <<dispatch, eval>>

(* Transition: resolve needs an active assignment of the named handler,     *)
(* which becomes the receipt.                                               *)
OwnDispatch(c) ==
  \E d \in ActiveFor(call[c].alert) : dispatch[d].handler = call[c].handler

Resolve(c) ==
  /\ InTx(c, "resolve")
  /\ OwnDispatch(c)
  /\ \E to \in NextState(call[c].row.state, "resolve") :
       SetAlert(call[c].alert, to, call[c].row.assignee)
  /\ EndDispatch(call[c].alert, "completed")
  /\ Committed(c)
  /\ UNCHANGED eval

(* Releasing only moves the ticket; the assignment stays active. *)
ReleaseWithoutCancel(c, e) ==
  /\ InTx(c, e)
  /\ \E to \in NextState(call[c].row.state, e) : SetAlert(call[c].alert, to, None)
  /\ Committed(c)
  /\ UNCHANGED <<dispatch, eval>>

(* Releasing completes the assignment, as resolving does. *)
ReleaseAsCompleted(c, e) ==
  /\ InTx(c, e)
  /\ \E to \in NextState(call[c].row.state, e) : SetAlert(call[c].alert, to, None)
  /\ EndDispatch(call[c].alert, "completed")
  /\ Committed(c)
  /\ UNCHANGED eval

(* Transition: release and revoke cancel the active assignment. *)
ReleaseOrRevoke(c, e) ==
  /\ InTx(c, e)
  /\ \E to \in NextState(call[c].row.state, e) : SetAlert(call[c].alert, to, None)
  /\ EndDispatch(call[c].alert, "cancelled")
  /\ Committed(c)
  /\ UNCHANGED eval

(* No row, an illegal move, a resolver who is not the assignee, or a row    *)
(* that changed under an accept: rolled back, and audited except an accept. *)
Refused(c) ==
  LET r == call[c]
  IN  CASE r.event = "accept"  -> ~Taken(c) /\ ~Free(c)
        [] r.event = "resolve" -> NextState(r.row.state, r.event) = {} \/ ~OwnDispatch(c)
        [] OTHER               -> NextState(r.row.state, r.event) = {}

Refuse(c) ==
  /\ call[c].pc = "tx"
  /\ ~call[c].gone
  /\ Refused(c)
  /\ RolledBack(c, "rejected", None, IF call[c].event = "accept" THEN "answered" ELSE "audit")
  /\ UNCHANGED eval

(* The reply is made from the row that the transaction had read. *)
ReadBackOld(c) ==
  /\ call[c].pc = "readback"
  /\ ~call[c].gone
  /\ conn = None
  /\ call' = [call EXCEPT ![c].pc = "audit", ![c].outcome = "ok", ![c].shown = call[c].row]
  /\ UNCHANGED <<alert, dispatch, conn, eval>>

(* After the commit the reply is read in a statement of its own. *)
ReadBack(c) ==
  /\ call[c].pc = "readback"
  /\ ~call[c].gone
  /\ conn = None
  /\ call' = [call EXCEPT ![c].pc = "audit", ![c].outcome = "ok",
                          ![c].shown = alert[call[c].alert]]
  /\ UNCHANGED <<alert, dispatch, conn, eval>>

----------------------------------------------------------------------------
(* The request's context is cancelled.                                      *)
ClientGone(c) ==
  /\ call[c].pc \in {"waiting", "tx", "readback", "audit"}
  /\ ~call[c].gone
  /\ call' = [call EXCEPT ![c].gone = TRUE]
  /\ UNCHANGED <<alert, dispatch, conn, eval>>

(* A statement of the call returns an error: any may, and each does once    *)
(* the context is cancelled, also one still waiting for the connection.  An *)
(* open transaction is rolled back.  "unread" marks the error of the        *)
(* statement after the commit; the code returns it like any other.  An      *)
(* accept that fails leaves no audit entry, a transition tries to.          *)
Failed(c) ==
  call' = [call EXCEPT ![c].outcome = IF call[c].pc = "readback" THEN "unread" ELSE "error",
                       ![c].row = NoAlert,
                       ![c].pc = IF call[c].event = "accept" THEN "answered" ELSE "audit"]

(* The error path forgets tx.Rollback. *)
FailKeepsConnection(c) ==
  /\ call[c].pc \in {"waiting", "tx", "readback"}
  /\ call[c].gone \/ conn \in {None, c}
  /\ Failed(c)
  /\ UNCHANGED <<alert, dispatch, conn, eval>>

(* The error of the transaction is dropped, and the row read back. *)
FailUnnoticed(c) ==
  /\ call[c].pc \in {"waiting", "tx", "readback"}
  /\ call[c].gone \/ conn \in {None, c}
  /\ conn' = IF call[c].pc = "tx" THEN None ELSE conn
  /\ IF call[c].pc = "tx" THEN call' = [call EXCEPT ![c].pc = "readback"] ELSE Failed(c)
  /\ UNCHANGED <<alert, dispatch, eval>>

Fail(c) ==
  /\ call[c].pc \in {"waiting", "tx", "readback"}
  /\ call[c].gone \/ conn \in {None, c}
  /\ conn' = IF call[c].pc = "tx" THEN None ELSE conn
  /\ Failed(c)
  /\ UNCHANGED <<alert, dispatch, eval>>

(* bestEffort: one INSERT under the request's context; a failure is only    *)
(* logged.                                                                  *)
Audit(c) ==
  /\ call[c].pc = "audit"
  /\ call[c].gone \/ conn = None
  /\ \E written \in BOOLEAN :
       /\ written => ~call[c].gone
       /\ call' = [call EXCEPT ![c].pc = "answered", ![c].audited = written]
  /\ UNCHANGED <<alert, dispatch, conn, eval>>

Return(c) ==
  /\ call[c].pc = "answered"
  /\ call' = [call EXCEPT ![c] = NoCall]
  /\ UNCHANGED <<alert, dispatch, conn, eval>>

----------------------------------------------------------------------------
(* The evaluator: one goroutine, a rule breached for problem p.  FindActive *)
(* and the write that follows are separate statements.                      *)

(* The query forgets tickets that are being handled. *)
FindUnstarted(p) == {a \in Alert : alert[a].problem = p /\ alert[a].state \in {"open", "assigned"}}

FindActive(p) == {a \in Alert : alert[a].problem = p /\ alert[a].state \in LiveState}

EvalFinds(p) ==
  /\ eval.pc = "idle"
  /\ conn = None
  /\ \E a \in FindActive(p) :
       /\ alert[a].version < MaxVersion
       /\ eval' = [pc |-> "suppress", problem |-> p, alert |-> a, row |-> alert[a]]
  /\ UNCHANGED <<alert, dispatch, conn, call>>

EvalMisses(p) ==
  /\ eval.pc = "idle"
  /\ conn = None
  /\ FindActive(p) = {}
  /\ eval' = [NoEval EXCEPT !.pc = "create", !.problem = p]
  /\ UNCHANGED <<alert, dispatch, conn, call>>

(* UPDATE ... WHERE id = ?, without the version. *)
UpdateUnchecked(a, row) ==
  alert' = [alert EXCEPT ![a].state = row.state, ![a].assignee = row.assignee,
                         ![a].version = @ + 1]

(* Update writes the whole row it read back, if the version still matches;  *)
(* otherwise the conflict is logged and the sweep goes on.                  *)
Update(a, row) ==
  alert' = IF alert[a].version = row.version
           THEN [alert EXCEPT ![a].state = row.state, ![a].assignee = row.assignee,
                              ![a].version = @ + 1]
           ELSE alert

EvalSuppress ==
  /\ eval.pc = "suppress"
  /\ conn = None
  /\ Update(eval.alert, eval.row)
  /\ eval' = NoEval
  /\ UNCHANGED <<dispatch, conn, call>>

EvalCreate(a) ==
  /\ eval.pc = "create"
  /\ conn = None
  /\ alert[a].state = "absent"
  /\ alert' = [alert EXCEPT ![a] = [state |-> "open", problem |-> eval.problem,
                                    assignee |-> None, version |-> 1]]
  /\ eval' = NoEval
  /\ UNCHANGED <<dispatch, conn, call>>

(* The write fails and is logged, or the sweep's context is cancelled. *)
EvalSkip ==
  /\ eval.pc # "idle"
  /\ eval' = NoEval
  /\ UNCHANGED <<alert, dispatch, conn, call>>

----------------------------------------------------------------------------
(* The rest of the process holds the connection too, for a transaction of   *)
(* its own or, as an export does, for as long as its client reads.          *)
OtherTakes(o) ==
  /\ conn = None
  /\ conn' = o
  /\ UNCHANGED <<alert, dispatch, call, eval>>

OtherEnds(o) ==
  /\ conn = o
  /\ conn' = None
  /\ UNCHANGED <<alert, dispatch, call, eval>>

----------------------------------------------------------------------------
TxStep(c) ==
  \/ \E d \in Dispatch : AcceptWins(c, d)
  \/ AcceptLoses(c)
  \/ \E e \in {"start", "close"} : StartOrClose(c, e)
  \/ Resolve(c)
  \/ \E e \in {"release", "revoke"} : ReleaseOrRevoke(c, e)
  \/ Refuse(c)

(* What the server does for a request between its arrival and its answer. *)
Serve(c) ==
  \/ Begin(c)
  \/ TxStep(c)
  \/ ReadBack(c)
  \/ Fail(c)
  \/ Audit(c)

ClientStep(c) ==
  \/ \E e \in AlertEvent, a \in Alert, h \in Handler \cup {None} : Request(c, e, a, h)
  \/ ClientGone(c)
  \/ Serve(c)
  \/ Return(c)

EvalStep ==
  \/ \E p \in Problem : EvalFinds(p) \/ EvalMisses(p)
  \/ EvalSuppress
  \/ \E a \in Alert : EvalCreate(a)
  \/ EvalSkip

OtherStep == \E o \in Other : OtherTakes(o) \/ OtherEnds(o)

Next == (\E c \in Client : ClientStep(c)) \/ EvalStep \/ OtherStep

Spec == Init /\ [][Next]_vars

(* Each request has a goroutine of its own.  database/sql hands the         *)
(* connection to those that wait in turn, so a call that needs it again and *)
(* again gets it: strong fairness.  Nothing is assumed of the clients, of   *)
(* the evaluator or of the others that use the connection.                  *)
Fairness == \A c \in Client : SF_vars(Serve(c))

FairSpec == Spec /\ Fairness

----------------------------------------------------------------------------
(* Safety. *)

Claimed(a) == alert[a].state \in {"assigned", "handling"}

(* The two tables agree: a ticket that is assigned or being handled has     *)
(* exactly one active assignment, of the handler the ticket names; any      *)
(* other ticket has none ("a single active assignment is the only one that  *)
(* can take effect", domain/alert.go:96).                                   *)
OneHolder ==
  \A a \in Alert :
    IF Claimed(a)
    THEN \E d \in Dispatch : ActiveFor(a) = {d} /\ dispatch[d].handler = alert[a].assignee
    ELSE ActiveFor(a) = {}

(* The receipt loop: a resolved or closed ticket has exactly one completed  *)
(* assignment, of the handler it names, and no other ticket has any.        *)
OneReceipt ==
  \A a \in Alert :
    IF alert[a].state \in {"resolved", "closed"}
    THEN \E d \in Dispatch : CompletedFor(a) = {d} /\ dispatch[d].handler = alert[a].assignee
    ELSE CompletedFor(a) = {}

(* Suppression: the same problem never has two live tickets, although the   *)
(* evaluator looks for one and inserts in two statements.                   *)
OneTicketPerProblem == \A p \in Problem : Cardinality(FindActive(p)) <= 1

(* Every caller who is told it won an accept has an assignment of its own,  *)
(* in its name; two winners never rest on the same one.                     *)
Winners(a, h) == {c \in Client : /\ call[c].event = "accept" /\ call[c].moved
                                 /\ call[c].alert = a /\ call[c].handler = h}
WinnersHaveDispatch ==
  \A a \in Alert, h \in Handler :
    Cardinality(Winners(a, h)) <=
      Cardinality({d \in Dispatch : dispatch[d].alert = a /\ dispatch[d].handler = h})

(* An accept's loser is told a winner who did take the ticket; only when    *)
(* the ticket was over by then (resolved, closed or revoked) is nobody      *)
(* named, although the source says "naming the handler that took the       *)
(* ticket" (store/assignments.go:87) of every later caller.                *)
LoserToldAWinner ==
  \A c \in Client :
    call[c].outcome = "lost" =>
      IF call[c].row.state \in {"resolved", "closed", "revoked"}
      THEN call[c].winner = None
      ELSE \E d \in Dispatch : /\ dispatch[d].alert = call[c].alert
                               /\ dispatch[d].handler = call[c].winner

(* The alert in a reply is read in a statement after the commit.  It is the *)
(* row as the call's own move wrote it, or one that somebody wrote later;   *)
(* it is never from before the move, not even when the ticket is back in a  *)
(* state it was in then.                                                    *)
AssigneeAfter(r) ==
  CASE r.event = "accept"               -> r.handler
    [] r.event \in {"release", "revoke"} -> None
    [] OTHER                             -> r.row.assignee

Written(r) ==
  {[r.row EXCEPT !.state = to, !.assignee = AssigneeAfter(r), !.version = @ + 1] :
     to \in NextState(r.row.state, r.event)}

ReplyNotBeforeMove ==
  \A c \in Client :
    call[c].outcome = "ok" =>
      \/ call[c].shown \in Written(call[c])
      \/ call[c].shown.version > call[c].row.version + 1

(* What the audit trail says against what the database did, although the    *)
(* entry is written after the transaction and a reply can fail after the    *)
(* commit: an entry that says "done" is of a move that committed, and one   *)
(* that says "failed" or "lost" of a call that moved nothing, except when   *)
(* the failure was the read of the reply.  Then the entry says "failed" of  *)
(* a move that stands, and the trail alone does not tell the two apart.     *)
TrailTellsTruth ==
  \A c \in Client :
    call[c].audited => (call[c].moved <=> call[c].outcome \in {"ok", "unread"})

(* The connection is never left with a call that has finished with it, and  *)
(* what a transaction read is still what the table holds.                   *)
TxIsolated ==
  \A c \in Client :
    IF call[c].pc = "tx"
    THEN conn = c /\ call[c].row = alert[call[c].alert]
    ELSE conn # c

(* The evaluator's row is the table's row whenever the versions agree: the  *)
(* version number stands for the content.                                   *)
VersionStandsForRow ==
  eval.pc = "suppress" =>
    /\ eval.row.version <= alert[eval.alert].version
    /\ eval.row.version = alert[eval.alert].version => eval.row = alert[eval.alert]

(* A ticket's state and assignee change together, along one entry of the    *)
(* state table, so neither a stale evaluator write nor a late call puts a   *)
(* ticket "back into a state it already left" (domain/state.go:24).         *)
OnlyTableMoves ==
  [][\A a \in Alert :
       <<alert'[a].state, alert'[a].assignee>> # <<alert[a].state, alert[a].assignee>> =>
         \/ alert[a].state = "absent" /\ alert'[a].state = "open"
         \/ \E e \in AlertEvent : alert'[a].state \in NextState(alert[a].state, e)]_vars

(* Each write of a ticket raises its version by one: without that the       *)
(* optimistic check of the evaluator's write would miss a change.           *)
VersionsCount ==
  [][\A a \in Alert : alert'[a] # alert[a] => alert'[a].version = alert[a].version + 1]_vars

----------------------------------------------------------------------------
(* AlertTicket implements TicketLifecycle: the holder and the receipt are   *)
(* read off the assignments table, the phase off the alerts table.          *)

HandlerOf(D) == IF D = {} THEN None ELSE dispatch[CHOOSE d \in D : TRUE].handler

Lifecycle == INSTANCE TicketLifecycle WITH
  Ticket  <- Alert,
  phase   <- [a \in Alert |-> alert[a].state],
  problem <- [a \in Alert |-> alert[a].problem],
  holder  <- [a \in Alert |-> HandlerOf(ActiveFor(a))],
  receipt <- [a \in Alert |-> HandlerOf(CompletedFor(a))]

(* Seen through that mapping every step is a step of the abstract ticket    *)
(* life cycle, or none.                                                     *)
ImplementsLifecycle == Lifecycle!Spec

----------------------------------------------------------------------------
(* Liveness: every request is answered, whatever fails in it and however    *)
(* often the one connection is taken before it gets there, as long as no    *)
(* other user keeps it for good (an export whose client stops reading       *)
(* does).  A request must not keep it from the next one either.             *)
EveryCallAnswered ==
  []<>(conn \notin Other) =>
    \A c \in Client : call[c].pc = "waiting" ~> call[c].pc = "answered"

----------------------------------------------------------------------------
(* A statement of the sources that the code does not keep. *)

(* "Start moves an accepted alert into handling by its assignee"            *)
(* (orchestration/alert.go:128).                                            *)
StartedByAssignee ==
  [][\A a \in Alert :
       alert[a].state = "assigned" /\ alert'[a].state = "handling" =>
         \E c \in Client : /\ call[c].pc = "tx" /\ call'[c].moved
                           /\ call[c].handler = alert[a].assignee]_vars

============================================================================
