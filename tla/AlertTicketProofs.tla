------------------------- MODULE AlertTicketProofs -------------------------
(***************************************************************************)
(* Proofs about AlertTicket for any number of alerts, handlers, assignment *)
(* ids and clients.                                                        *)
(***************************************************************************)
EXTENDS AlertTicket, FiniteSetTheorems, TLAPS

(* A request in flight names an existing event and an alert id, and the    *)
(* evaluator's pending suppression names the alert it found.               *)
CallShape ==
  /\ \A c \in Client : call[c].pc # "idle" =>
       call[c].event \in AlertEvent /\ call[c].alert \in Alert
  /\ eval.pc = "suppress" => eval.alert \in Alert

(* The inductive invariant.  OneHolder alone is not inductive: a commit    *)
(* relies on the row its transaction read (TxIsolated), and the            *)
(* evaluator's late write on the version it read (VersionStandsForRow).    *)
IInv ==
  /\ TypeOK
  /\ CallShape
  /\ TxIsolated
  /\ VersionStandsForRow
  /\ OneHolder
  /\ OneReceipt

----------------------------------------------------------------------------
(* What the writes of a transaction do to the tables. *)

(* SetAlert changes one row's state and assignee and raises its version.   *)
LEMMA SetAlertEffect ==
  ASSUME alert \in [Alert -> AlertRow],
         NEW a \in Alert, NEW s \in AlertState, NEW w \in Handler \cup {None},
         SetAlert(a, s, w)
  PROVE  /\ alert' \in [Alert -> AlertRow]
         /\ alert'[a].state = s
         /\ alert'[a].assignee = w
         /\ alert'[a].problem = alert[a].problem
         /\ alert'[a].version = alert[a].version + 1
         /\ \A b \in Alert : b # a => alert'[b] = alert[b]
BY DEF SetAlert, AlertRow

(* EndDispatch leaves the alert without an active assignment, turns the    *)
(* ones it had into completed ones when it is told to, and touches nothing *)
(* else.                                                                    *)
LEMMA EndDispatchEffect ==
  ASSUME dispatch \in [Dispatch -> DispatchRow],
         NEW a \in Alert, NEW s \in {"completed", "cancelled"},
         EndDispatch(a, s)
  PROVE  /\ dispatch' \in [Dispatch -> DispatchRow]
         /\ \A d \in Dispatch : dispatch'[d].handler = dispatch[d].handler
         /\ ActiveFor(a)' = {}
         /\ CompletedFor(a)' = IF s = "completed" THEN CompletedFor(a) \cup ActiveFor(a)
                                                  ELSE CompletedFor(a)
         /\ \A b \in Alert : b # a => /\ ActiveFor(b)' = ActiveFor(b)
                                      /\ CompletedFor(b)' = CompletedFor(b)
BY DEF EndDispatch, DispatchRow, ActiveFor, CompletedFor

(* Every target of the state table is a ticket state. *)
LEMMA NextStateIsState ==
  ASSUME NEW from, NEW e, NEW to \in NextState(from, e)
  PROVE  to \in AlertState
BY DEF NextState, alertTable, Move, AlertState

----------------------------------------------------------------------------
(* Steps that leave both tables alone leave the claims on them alone. *)
LEMMA TablesSame ==
  ASSUME OneHolder, OneReceipt, UNCHANGED <<alert, dispatch>>
  PROVE  OneHolder' /\ OneReceipt'
BY DEF OneHolder, OneReceipt, Claimed, ActiveFor, CompletedFor

(* The call record and the connection after a commit: only the committing  *)
(* client was in a transaction, so none is afterwards; and since every     *)
(* changed row has a higher version, the evaluator's copy is still either  *)
(* the row itself or recognisably old.                                      *)
LEMMA CommitFrame ==
  ASSUME IInv, NEW c \in Client, call[c].pc = "tx", Committed(c), UNCHANGED eval,
         alert' \in [Alert -> AlertRow],
         \A b \in Alert : alert'[b] = alert[b] \/ alert'[b].version = alert[b].version + 1
  PROVE  /\ call' \in [Client -> Call] /\ conn' \in Client \cup Other \cup {None} /\ eval' \in Eval
         /\ CallShape' /\ TxIsolated' /\ VersionStandsForRow'
<1> DEFINE r == [call[c] EXCEPT !.pc = "readback", !.moved = TRUE]
<1>a. call[c] \in Call
  BY DEF IInv, TypeOK
<1>b. r \in Call /\ r.pc = "readback" /\ r.event = call[c].event /\ r.alert = call[c].alert
  BY <1>a DEF Call
<1>1. call' = [call EXCEPT ![c] = r] /\ conn' = None
  BY DEF IInv, TypeOK, Committed
<1> HIDE DEF r
<1>2. call' \in [Client -> Call] /\ conn' \in Client \cup Other \cup {None} /\ eval' \in Eval
  BY <1>b, <1>1 DEF IInv, TypeOK
<1>3. CallShape'
  BY <1>b, <1>1 DEF IInv, TypeOK, CallShape
<1>4. TxIsolated'
  BY <1>b, <1>1, NoneAssumption DEF IInv, TypeOK, TxIsolated
<1>5. VersionStandsForRow'
  <2>1. SUFFICES ASSUME eval.pc = "suppress"
                 PROVE  /\ eval.row.version <= alert'[eval.alert].version
                        /\ eval.row.version = alert'[eval.alert].version =>
                             eval.row = alert'[eval.alert]
    BY DEF VersionStandsForRow
  <2>2. eval.alert \in Alert /\ eval.row.version \in Nat
        /\ alert[eval.alert].version \in Nat
    BY <2>1 DEF IInv, CallShape, TypeOK, Eval, AlertRow
  <2>3. QED
    BY <2>1, <2>2 DEF IInv, VersionStandsForRow
<1>6. QED
  BY <1>2, <1>3, <1>4, <1>5

(* The same after a step that ends a transaction without a write, or moves *)
(* one call on outside a transaction.                                       *)
LEMMA QuietFrame ==
  ASSUME IInv, NEW c \in Client, UNCHANGED <<alert, dispatch, eval>>,
         NEW r \in Call, call' = [call EXCEPT ![c] = r],
         r.pc # "tx", conn' = IF call[c].pc = "tx" THEN None ELSE conn,
         r.pc # "idle" => r.event \in AlertEvent /\ r.alert \in Alert
  PROVE  IInv'
<1>1. TypeOK'
  BY DEF IInv, TypeOK
<1>2. CallShape'
  BY DEF IInv, TypeOK, CallShape
<1>3. TxIsolated'
  BY NoneAssumption DEF IInv, TypeOK, TxIsolated
<1>4. VersionStandsForRow'
  BY DEF IInv, VersionStandsForRow
<1>5. OneHolder' /\ OneReceipt'
  BY TablesSame DEF IInv
<1>6. QED
  BY <1>1, <1>2, <1>3, <1>4, <1>5 DEF IInv

----------------------------------------------------------------------------
(* One lemma per step that writes a ticket. *)

(* Inside a transaction the row read is the row in the table. *)
LEMMA InTxFacts ==
  ASSUME IInv, NEW c \in Client, call[c].pc = "tx"
  PROVE  /\ call[c].alert \in Alert
         /\ call[c].handler \in Handler \cup {None}
         /\ call[c].row = alert[call[c].alert]
         /\ alert[call[c].alert].assignee \in Handler \cup {None}
         /\ alert[call[c].alert].version \in Nat
BY DEF IInv, TypeOK, CallShape, TxIsolated, Call, AlertRow

(* An accept adds the one active assignment of a ticket that had none. *)
LEMMA AcceptWinsKeeps ==
  ASSUME IInv, NEW c \in Client, NEW d \in Dispatch, AcceptWins(c, d)
  PROVE  IInv'
<1>1. call[c].pc = "tx"
  BY DEF AcceptWins, InTx
<1>a. PICK a \in Alert : a = call[c].alert
  BY <1>1, InTxFacts
<1>h. PICK h \in Handler \cup {None} : h = call[c].handler
  BY <1>1, InTxFacts
<1>2. alert[a].state = "open"
  BY <1>1, <1>a, InTxFacts DEF AcceptWins, Free
<1>3. SetAlert(a, "assigned", h) /\ Committed(c) /\ UNCHANGED eval
  BY <1>a, <1>h DEF AcceptWins
<1>4. /\ alert' \in [Alert -> AlertRow]
      /\ alert'[a].state = "assigned" /\ alert'[a].assignee = h
      /\ alert'[a].version = alert[a].version + 1
      /\ \A b \in Alert : b # a => alert'[b] = alert[b]
  BY <1>2, <1>3, SetAlertEffect DEF IInv, TypeOK, AlertState
<1>5. /\ call' \in [Client -> Call] /\ conn' \in Client \cup Other \cup {None} /\ eval' \in Eval
      /\ CallShape' /\ TxIsolated' /\ VersionStandsForRow'
  BY <1>1, <1>3, <1>4, CommitFrame
<1>6. /\ dispatch' \in [Dispatch -> DispatchRow]
      /\ dispatch'[d] = [state |-> "active", alert |-> a, handler |-> h]
      /\ dispatch[d].state = "unused"
      /\ \A e \in Dispatch : e # d => dispatch'[e] = dispatch[e]
  BY <1>a, <1>h DEF AcceptWins, IInv, TypeOK, DispatchRow
<1>7. ActiveFor(a) = {} /\ CompletedFor(a) = {}
  BY <1>2 DEF IInv, OneHolder, OneReceipt, Claimed
<1>8. ActiveFor(a)' = {d} /\ CompletedFor(a)' = {}
  BY <1>6, <1>7 DEF ActiveFor, CompletedFor
<1>9. ASSUME NEW b \in Alert, b # a
      PROVE  /\ ActiveFor(b)' = ActiveFor(b) /\ CompletedFor(b)' = CompletedFor(b)
             /\ d \notin ActiveFor(b) /\ d \notin CompletedFor(b)
  BY <1>6, <1>9 DEF ActiveFor, CompletedFor
<1>10. OneHolder'
  <2>1. ASSUME NEW b \in Alert, b # a, Claimed(b)'
        PROVE  \E e \in Dispatch : ActiveFor(b)' = {e}
                                   /\ dispatch'[e].handler = alert'[b].assignee
    <3>1. PICK e \in Dispatch : ActiveFor(b) = {e} /\ dispatch[e].handler = alert[b].assignee
      BY <1>4, <2>1 DEF IInv, OneHolder, Claimed
    <3>2. e # d
      BY <1>9, <2>1, <3>1
    <3>3. QED
      BY <1>4, <1>6, <1>9, <2>1, <3>1, <3>2
  <2>2. ASSUME NEW b \in Alert, b # a, ~Claimed(b)'
        PROVE  ActiveFor(b)' = {}
    BY <1>4, <1>9, <2>2 DEF IInv, OneHolder, Claimed
  <2>3. Claimed(a)' /\ dispatch'[d].handler = alert'[a].assignee
    BY <1>2, <1>4, <1>6 DEF Claimed
  <2>4. QED
    BY <1>2, <1>8, <2>1, <2>2, <2>3 DEF OneHolder
<1>11. OneReceipt'
  <2>1. ASSUME NEW b \in Alert, b # a, alert'[b].state \in {"resolved", "closed"}
        PROVE  \E e \in Dispatch : CompletedFor(b)' = {e}
                                   /\ dispatch'[e].handler = alert'[b].assignee
    <3>1. PICK e \in Dispatch : CompletedFor(b) = {e} /\ dispatch[e].handler = alert[b].assignee
      BY <1>4, <2>1 DEF IInv, OneReceipt
    <3>2. e # d
      BY <1>9, <2>1, <3>1
    <3>3. QED
      BY <1>4, <1>6, <1>9, <2>1, <3>1, <3>2
  <2>2. ASSUME NEW b \in Alert, b # a, alert'[b].state \notin {"resolved", "closed"}
        PROVE  CompletedFor(b)' = {}
    BY <1>4, <1>9, <2>2 DEF IInv, OneReceipt
  <2>3. QED
    BY <1>4, <1>8, <2>1, <2>2 DEF OneReceipt
<1>12. QED
  BY <1>4, <1>5, <1>6, <1>10, <1>11 DEF IInv, TypeOK

(* A move that only rewrites the row, between two claimed states or two    *)
(* resolved ones, and keeps the assignee. *)
LEMMA StartOrCloseKeeps ==
  ASSUME IInv, NEW c \in Client, NEW e \in {"start", "close"}, StartOrClose(c, e)
  PROVE  IInv'
<1>1. call[c].pc = "tx"
  BY DEF StartOrClose, InTx
<1>a. PICK a \in Alert : a = call[c].alert
  BY <1>1, InTxFacts
<1>2. call[c].row = alert[a] /\ alert[a].assignee \in Handler \cup {None}
  BY <1>1, <1>a, InTxFacts
<1>3. PICK to \in NextState(alert[a].state, e) : SetAlert(a, to, alert[a].assignee)
  BY <1>a, <1>2 DEF StartOrClose
<1>4. \/ alert[a].state = "assigned" /\ to = "handling"
      \/ alert[a].state = "resolved" /\ to = "closed"
  BY <1>3 DEF NextState, alertTable, Move
<1>5. /\ alert' \in [Alert -> AlertRow]
      /\ alert'[a].state = to /\ alert'[a].assignee = alert[a].assignee
      /\ alert'[a].version = alert[a].version + 1
      /\ \A b \in Alert : b # a => alert'[b] = alert[b]
  BY <1>2, <1>3, NextStateIsState, SetAlertEffect DEF IInv, TypeOK
<1>6. Committed(c) /\ UNCHANGED <<dispatch, eval>>
  BY DEF StartOrClose
<1>7. /\ call' \in [Client -> Call] /\ conn' \in Client \cup Other \cup {None} /\ eval' \in Eval
      /\ CallShape' /\ TxIsolated' /\ VersionStandsForRow'
  BY <1>1, <1>5, <1>6, CommitFrame
<1>8. /\ dispatch' = dispatch
      /\ \A b \in Alert : ActiveFor(b)' = ActiveFor(b) /\ CompletedFor(b)' = CompletedFor(b)
  BY <1>6 DEF ActiveFor, CompletedFor
<1>9. OneHolder'
  <2>1. ASSUME NEW b \in Alert
        PROVE  Claimed(b)' = Claimed(b) /\ alert'[b].assignee = alert[b].assignee
    BY <1>4, <1>5 DEF Claimed
  <2>2. QED
    BY <1>8, <2>1 DEF IInv, OneHolder
<1>10. OneReceipt'
  <2>1. ASSUME NEW b \in Alert
        PROVE  /\ (alert'[b].state \in {"resolved", "closed"})
                    = (alert[b].state \in {"resolved", "closed"})
               /\ alert'[b].assignee = alert[b].assignee
    BY <1>4, <1>5
  <2>2. QED
    BY <1>8, <2>1 DEF IInv, OneReceipt
<1>11. QED
  BY <1>5, <1>7, <1>8, <1>9, <1>10 DEF IInv, TypeOK

(* Ending an active assignment keeps the agreement of the two tables when  *)
(* the ticket goes where the assignment went: to "resolved" with the       *)
(* receipt, or to "open" or "revoked" without one. *)
LEMMA EndDispatchKeeps ==
  ASSUME IInv, NEW a \in Alert, NEW s \in {"completed", "cancelled"}, EndDispatch(a, s),
         IF s = "completed" THEN Claimed(a) /\ alert'[a].state = "resolved"
                                 /\ alert'[a].assignee = alert[a].assignee
                            ELSE alert[a].state \in LiveState
                                 /\ alert'[a].state \in {"open", "revoked"},
         \A b \in Alert : b # a => alert'[b] = alert[b]
  PROVE  dispatch' \in [Dispatch -> DispatchRow] /\ OneHolder' /\ OneReceipt'
<1>1. /\ dispatch' \in [Dispatch -> DispatchRow]
      /\ \A d \in Dispatch : dispatch'[d].handler = dispatch[d].handler
      /\ ActiveFor(a)' = {}
      /\ CompletedFor(a)' = IF s = "completed" THEN CompletedFor(a) \cup ActiveFor(a)
                                               ELSE CompletedFor(a)
      /\ \A b \in Alert : b # a => /\ ActiveFor(b)' = ActiveFor(b)
                                   /\ CompletedFor(b)' = CompletedFor(b)
  BY EndDispatchEffect DEF IInv, TypeOK
<1>2. OneHolder'
  <2>1. ~Claimed(a)'
    BY DEF Claimed
  <2>2. ASSUME NEW b \in Alert, b # a, Claimed(b)'
        PROVE  \E e \in Dispatch : ActiveFor(b)' = {e}
                                   /\ dispatch'[e].handler = alert'[b].assignee
    BY <1>1, <2>2 DEF IInv, OneHolder, Claimed
  <2>3. ASSUME NEW b \in Alert, b # a, ~Claimed(b)'
        PROVE  ActiveFor(b)' = {}
    BY <1>1, <2>3 DEF IInv, OneHolder, Claimed
  <2>4. QED
    BY <1>1, <2>1, <2>2, <2>3 DEF OneHolder
<1>3. OneReceipt'
  <2>1. ASSUME NEW b \in Alert, b # a, alert'[b].state \in {"resolved", "closed"}
        PROVE  \E e \in Dispatch : CompletedFor(b)' = {e}
                                   /\ dispatch'[e].handler = alert'[b].assignee
    BY <1>1, <2>1 DEF IInv, OneReceipt
  <2>2. ASSUME NEW b \in Alert, b # a, alert'[b].state \notin {"resolved", "closed"}
        PROVE  CompletedFor(b)' = {}
    BY <1>1, <2>2 DEF IInv, OneReceipt
  <2>3. CompletedFor(a) = {}
    BY DEF IInv, OneReceipt, Claimed, LiveState
  <2>4. CASE s = "completed"
    <3>1. PICK e \in Dispatch : ActiveFor(a) = {e} /\ dispatch[e].handler = alert[a].assignee
      BY <2>4 DEF IInv, OneHolder
    <3>2. CompletedFor(a)' = {e} /\ dispatch'[e].handler = alert'[a].assignee
      BY <1>1, <2>3, <2>4, <3>1
    <3>3. QED
      BY <2>1, <2>2, <2>4, <3>2 DEF OneReceipt
  <2>5. CASE s = "cancelled"
    BY <1>1, <2>1, <2>2, <2>3, <2>5 DEF OneReceipt
  <2>6. QED
    BY <2>4, <2>5
<1>4. QED
  BY <1>1, <1>2, <1>3

(* Resolving turns the active assignment into the receipt. *)
LEMMA ResolveKeeps ==
  ASSUME IInv, NEW c \in Client, Resolve(c)
  PROVE  IInv'
<1>1. call[c].pc = "tx"
  BY DEF Resolve, InTx
<1>a. PICK a \in Alert : a = call[c].alert
  BY <1>1, InTxFacts
<1>2. call[c].row = alert[a] /\ alert[a].assignee \in Handler \cup {None}
  BY <1>1, <1>a, InTxFacts
<1>3. PICK to \in NextState(alert[a].state, "resolve") : SetAlert(a, to, alert[a].assignee)
  BY <1>a, <1>2 DEF Resolve
<1>4. alert[a].state = "handling" /\ to = "resolved"
  BY <1>3 DEF NextState, alertTable, Move
<1>5. /\ alert' \in [Alert -> AlertRow]
      /\ alert'[a].state = to /\ alert'[a].assignee = alert[a].assignee
      /\ alert'[a].version = alert[a].version + 1
      /\ \A b \in Alert : b # a => alert'[b] = alert[b]
  BY <1>2, <1>3, NextStateIsState, SetAlertEffect DEF IInv, TypeOK
<1>6. EndDispatch(a, "completed") /\ Committed(c) /\ UNCHANGED eval
  BY <1>a DEF Resolve
<1>7. /\ call' \in [Client -> Call] /\ conn' \in Client \cup Other \cup {None} /\ eval' \in Eval
      /\ CallShape' /\ TxIsolated' /\ VersionStandsForRow'
  BY <1>1, <1>5, <1>6, CommitFrame
<1>8. dispatch' \in [Dispatch -> DispatchRow] /\ OneHolder' /\ OneReceipt'
  BY <1>4, <1>5, <1>6, EndDispatchKeeps DEF Claimed
<1>9. QED
  BY <1>5, <1>7, <1>8 DEF IInv, TypeOK

(* Releasing and revoking cancel the active assignment, if there is one. *)
LEMMA ReleaseOrRevokeKeeps ==
  ASSUME IInv, NEW c \in Client, NEW e \in {"release", "revoke"}, ReleaseOrRevoke(c, e)
  PROVE  IInv'
<1>1. call[c].pc = "tx"
  BY DEF ReleaseOrRevoke, InTx
<1>a. PICK a \in Alert : a = call[c].alert
  BY <1>1, InTxFacts
<1>2. call[c].row = alert[a]
  BY <1>1, <1>a, InTxFacts
<1>3. PICK to \in NextState(alert[a].state, e) : SetAlert(a, to, None)
  BY <1>a, <1>2 DEF ReleaseOrRevoke
<1>4. alert[a].state \in LiveState /\ to \in {"open", "revoked"}
  BY <1>3 DEF NextState, alertTable, Move, LiveState
<1>5. /\ alert' \in [Alert -> AlertRow]
      /\ alert'[a].state = to
      /\ alert'[a].version = alert[a].version + 1
      /\ \A b \in Alert : b # a => alert'[b] = alert[b]
  BY <1>3, NextStateIsState, SetAlertEffect DEF IInv, TypeOK
<1>6. EndDispatch(a, "cancelled") /\ Committed(c) /\ UNCHANGED eval
  BY <1>a DEF ReleaseOrRevoke
<1>7. /\ call' \in [Client -> Call] /\ conn' \in Client \cup Other \cup {None} /\ eval' \in Eval
      /\ CallShape' /\ TxIsolated' /\ VersionStandsForRow'
  BY <1>1, <1>5, <1>6, CommitFrame
<1>8. dispatch' \in [Dispatch -> DispatchRow] /\ OneHolder' /\ OneReceipt'
  BY <1>4, <1>5, <1>6, EndDispatchKeeps
<1>9. QED
  BY <1>5, <1>7, <1>8 DEF IInv, TypeOK

----------------------------------------------------------------------------
(* The steps of a call that write no ticket. *)

LEMMA RequestKeeps ==
  ASSUME IInv, NEW c \in Client, NEW e \in AlertEvent, NEW a \in Alert,
         NEW h \in Handler \cup {None}, Request(c, e, a, h)
  PROVE  IInv'
<1> DEFINE r == [NoCall EXCEPT !.pc = "waiting", !.event = e, !.alert = a, !.handler = h]
<1>1. NoAlert \in AlertRow
  BY DEF NoAlert, AlertRow
<1>2. r \in Call /\ r.pc = "waiting" /\ r.event = e /\ r.alert = a
  BY <1>1 DEF Call, NoCall
<1>3. call' = [call EXCEPT ![c] = r] /\ UNCHANGED <<alert, dispatch, conn, eval>>
      /\ call[c].pc = "idle"
  BY DEF Request
<1> HIDE DEF r
<1>4. QED
  BY <1>2, <1>3, QuietFrame

(* A transaction that ends without a commit. *)
LEMMA RolledBackKeeps ==
  ASSUME IInv, NEW c \in Client, call[c].pc = "tx", UNCHANGED eval,
         NEW outcome \in {"lost", "rejected"}, NEW w \in Handler \cup {None},
         NEW next \in {"audit", "answered"}, RolledBack(c, outcome, w, next)
  PROVE  IInv'
<1> DEFINE r == [call[c] EXCEPT !.pc = next, !.outcome = outcome, !.winner = w]
<1>1. call[c] \in Call
  BY DEF IInv, TypeOK
<1>2. r \in Call /\ r.pc = next /\ r.event = call[c].event /\ r.alert = call[c].alert
  <2>1. /\ next \in {"idle", "waiting", "tx", "readback", "audit", "answered"}
        /\ outcome \in {"none", "ok", "lost", "rejected", "error", "unread"}
    OBVIOUS
  <2>2. r \in Call
    BY <1>1, <2>1, ZenonT(40) DEF Call
  <2>3. r.pc = next /\ r.event = call[c].event /\ r.alert = call[c].alert
    BY <1>1 DEF Call
  <2>4. QED
    BY <2>2, <2>3
<1>3. call' = [call EXCEPT ![c] = r] /\ conn' = None /\ UNCHANGED <<alert, dispatch>>
  BY DEF IInv, TypeOK, RolledBack
<1>4. call[c].event \in AlertEvent /\ call[c].alert \in Alert
  BY DEF IInv, CallShape
<1> HIDE DEF r
<1>5. QED
  BY <1>2, <1>3, <1>4, QuietFrame

LEMMA AcceptLosesKeeps ==
  ASSUME IInv, NEW c \in Client, AcceptLoses(c)
  PROVE  IInv'
<1>1. call[c].pc = "tx" /\ UNCHANGED eval
      /\ RolledBack(c, "lost", Winner(call[c].row), "audit")
  BY DEF AcceptLoses, InTx
<1>2. Winner(call[c].row) \in Handler \cup {None}
  BY <1>1, InTxFacts DEF Winner
<1>3. QED
  BY <1>1, <1>2, RolledBackKeeps

LEMMA RefuseKeeps ==
  ASSUME IInv, NEW c \in Client, Refuse(c)
  PROVE  IInv'
<1> DEFINE next == IF call[c].event = "accept" THEN "answered" ELSE "audit"
<1>1. call[c].pc = "tx" /\ UNCHANGED eval /\ RolledBack(c, "rejected", None, next)
  BY DEF Refuse
<1>2. next \in {"audit", "answered"}
  OBVIOUS
<1> HIDE DEF next
<1>3. QED
  BY <1>1, <1>2, RolledBackKeeps

LEMMA ReadBackKeeps ==
  ASSUME IInv, NEW c \in Client, ReadBack(c)
  PROVE  IInv'
<1>0. call[c].event \in AlertEvent /\ call[c].alert \in Alert
  BY DEF ReadBack, IInv, CallShape
<1> DEFINE r == [call[c] EXCEPT !.pc = "audit", !.outcome = "ok",
                                !.shown = alert[call[c].alert]]
<1>1. call[c] \in Call /\ alert[call[c].alert] \in AlertRow
  BY <1>0 DEF IInv, TypeOK
<1>2. r \in Call /\ r.pc = "audit" /\ r.event = call[c].event /\ r.alert = call[c].alert
  BY <1>1 DEF Call
<1>3. call' = [call EXCEPT ![c] = r] /\ UNCHANGED <<alert, dispatch, conn, eval>>
      /\ call[c].pc # "tx"
  BY DEF ReadBack, IInv, TypeOK
<1> HIDE DEF r
<1>4. QED
  BY <1>0, <1>2, <1>3, QuietFrame

LEMMA FailKeeps ==
  ASSUME IInv, NEW c \in Client, Fail(c)
  PROVE  IInv'
<1>0. call[c].event \in AlertEvent /\ call[c].alert \in Alert
  BY DEF Fail, IInv, CallShape
<1> DEFINE next == IF call[c].event = "accept" THEN "answered" ELSE "audit"
<1> DEFINE how == IF call[c].pc = "readback" THEN "unread" ELSE "error"
<1> DEFINE r == [call[c] EXCEPT !.outcome = how, !.row = NoAlert, !.pc = next]
<1>1. /\ call[c] \in Call /\ NoAlert \in AlertRow /\ next \in {"audit", "answered"}
      /\ how \in {"error", "unread"}
  BY DEF IInv, TypeOK, NoAlert, AlertRow
<1>3. call' = [call EXCEPT ![c] = r] /\ UNCHANGED <<alert, dispatch, eval>>
      /\ conn' = IF call[c].pc = "tx" THEN None ELSE conn
  BY DEF Fail, Failed, IInv, TypeOK
<1> HIDE DEF next, how
<1>2. r \in Call /\ r.pc = next /\ r.event = call[c].event /\ r.alert = call[c].alert
  <2>1. /\ next \in {"idle", "waiting", "tx", "readback", "audit", "answered"}
        /\ how \in {"none", "ok", "lost", "rejected", "error", "unread"}
    BY <1>1
  <2>2. r \in Call
    BY <1>1, <2>1, ZenonT(40) DEF Call
  <2>3. r.pc = next /\ r.event = call[c].event /\ r.alert = call[c].alert
    BY <1>1 DEF Call
  <2>4. QED
    BY <2>2, <2>3
<1> HIDE DEF r
<1>4. QED
  BY <1>0, <1>1, <1>2, <1>3, QuietFrame

LEMMA AuditKeeps ==
  ASSUME IInv, NEW c \in Client, Audit(c)
  PROVE  IInv'
<1>0. call[c].event \in AlertEvent /\ call[c].alert \in Alert
  BY DEF Audit, IInv, CallShape
<1>1. PICK w \in BOOLEAN :
        call' = [call EXCEPT ![c].pc = "answered", ![c].audited = w]
  BY DEF Audit
<1> DEFINE r == [call[c] EXCEPT !.pc = "answered", !.audited = w]
<1>a. call[c] \in Call
  BY DEF IInv, TypeOK
<1>3. call' = [call EXCEPT ![c] = r] /\ UNCHANGED <<alert, dispatch, conn, eval>>
      /\ call[c].pc # "tx"
  BY <1>1 DEF Audit, IInv, TypeOK
<1>2. r \in Call /\ r.pc = "answered" /\ r.event = call[c].event /\ r.alert = call[c].alert
  <2>1. "answered" \in {"idle", "waiting", "tx", "readback", "audit", "answered"}
    OBVIOUS
  <2>2. r \in Call
    BY <1>a, <2>1, ZenonT(40) DEF Call
  <2>3. r.pc = "answered" /\ r.event = call[c].event /\ r.alert = call[c].alert
    BY <1>a DEF Call
  <2>4. QED
    BY <2>2, <2>3
<1> HIDE DEF r
<1>4. QED
  BY <1>0, <1>2, <1>3, QuietFrame

LEMMA ReturnKeeps ==
  ASSUME IInv, NEW c \in Client, Return(c)
  PROVE  IInv'
<1>1. NoCall \in Call /\ NoCall.pc = "idle"
  BY DEF NoCall, Call, NoAlert, AlertRow
<1>2. call' = [call EXCEPT ![c] = NoCall] /\ UNCHANGED <<alert, dispatch, conn, eval>>
      /\ call[c].pc # "tx"
  BY DEF Return
<1>3. QED
  BY <1>1, <1>2, QuietFrame

(* The transaction that begins is the only one, and its row is fresh. *)
LEMMA BeginKeeps ==
  ASSUME IInv, NEW c \in Client, Begin(c)
  PROVE  IInv'
<1>0. call[c].event \in AlertEvent /\ call[c].alert \in Alert
  BY DEF Begin, IInv, CallShape
<1> DEFINE row == alert[call[c].alert]
<1> DEFINE r == [call[c] EXCEPT !.pc = "tx", !.row = row]
<1>1. call[c] \in Call /\ row \in AlertRow
  BY <1>0 DEF IInv, TypeOK
<1>2. r \in Call /\ r.pc = "tx" /\ r.event = call[c].event /\ r.alert = call[c].alert
      /\ r.row = alert[call[c].alert]
  <2>1. "tx" \in {"idle", "waiting", "tx", "readback", "audit", "answered"}
    OBVIOUS
  <2>2. r \in Call
    BY <1>1, <2>1, ZenonT(40) DEF Call
  <2>3. r.pc = "tx" /\ r.event = call[c].event /\ r.alert = call[c].alert /\ r.row = row
    BY <1>1 DEF Call
  <2>4. QED
    BY <2>2, <2>3
<1>3. call' = [call EXCEPT ![c] = r] /\ UNCHANGED <<alert, dispatch, eval>>
      /\ conn = None /\ conn' = c
  BY DEF Begin, IInv, TypeOK
<1> HIDE DEF r, row
<1>4. TypeOK'
  BY <1>2, <1>3 DEF IInv, TypeOK
<1>5. CallShape'
  BY <1>0, <1>2, <1>3 DEF IInv, TypeOK, CallShape
<1>6. TxIsolated'
  <2>1. \A d \in Client : call[d].pc # "tx"
    BY <1>3, NoneAssumption DEF IInv, TxIsolated
  <2>2. QED
    BY <1>2, <1>3, <2>1 DEF IInv, TypeOK, TxIsolated
<1>7. VersionStandsForRow'
  BY <1>3 DEF IInv, VersionStandsForRow
<1>8. OneHolder' /\ OneReceipt'
  BY <1>3, TablesSame DEF IInv
<1>9. QED
  BY <1>4, <1>5, <1>6, <1>7, <1>8 DEF IInv

(* A cancelled context changes nothing until the next statement. *)
LEMMA ClientGoneKeeps ==
  ASSUME IInv, NEW c \in Client, ClientGone(c)
  PROVE  IInv'
<1> DEFINE r == [call[c] EXCEPT !.gone = TRUE]
<1>1. call[c] \in Call
  BY DEF IInv, TypeOK
<1>2. r \in Call /\ r.pc = call[c].pc /\ r.event = call[c].event
      /\ r.alert = call[c].alert /\ r.row = call[c].row
  BY <1>1 DEF Call
<1>3. call' = [call EXCEPT ![c] = r] /\ UNCHANGED <<alert, dispatch, conn, eval>>
  BY DEF ClientGone, IInv, TypeOK
<1> HIDE DEF r
<1>4. TypeOK'
  BY <1>2, <1>3 DEF IInv, TypeOK
<1>5. CallShape'
  BY <1>2, <1>3 DEF IInv, TypeOK, CallShape
<1>6. TxIsolated'
  BY <1>2, <1>3 DEF IInv, TypeOK, TxIsolated
<1>7. VersionStandsForRow'
  BY <1>3 DEF IInv, VersionStandsForRow
<1>8. OneHolder' /\ OneReceipt'
  BY <1>3, TablesSame DEF IInv
<1>9. QED
  BY <1>4, <1>5, <1>6, <1>7, <1>8 DEF IInv

----------------------------------------------------------------------------
(* The evaluator's steps. *)

(* A step between the evaluator's statements leaves everything else alone. *)
LEMMA EvalFrame ==
  ASSUME IInv, UNCHANGED <<alert, dispatch, conn, call>>, eval' \in Eval,
         eval'.pc = "suppress" =>
           eval'.alert \in Alert /\ eval'.row = alert[eval'.alert]
  PROVE  IInv'
<1>1. TypeOK'
  BY DEF IInv, TypeOK
<1>2. CallShape'
  BY DEF IInv, CallShape
<1>3. TxIsolated'
  BY DEF IInv, TxIsolated
<1>4. VersionStandsForRow'
  <2>1. ASSUME NEW a \in Alert
        PROVE  alert[a].version \in Nat /\ alert'[a] = alert[a]
    BY DEF IInv, TypeOK, AlertRow
  <2>2. QED
    BY <2>1 DEF VersionStandsForRow
<1>5. OneHolder' /\ OneReceipt'
  BY TablesSame DEF IInv
<1>6. QED
  BY <1>1, <1>2, <1>3, <1>4, <1>5 DEF IInv

(* Others take the connection when no transaction has it, and give it back. *)
LEMMA OtherKeeps ==
  ASSUME IInv, OtherStep
  PROVE  IInv'
<1>1. /\ UNCHANGED <<alert, dispatch, call, eval>>
      /\ conn \in Other \cup {None} /\ conn' \in Other \cup {None}
  BY DEF OtherStep, OtherTakes, OtherEnds
<1>2. conn \notin Client /\ conn' \notin Client
  BY <1>1, NoneAssumption, OtherAssumption
<1>3. TypeOK'
  BY <1>1 DEF IInv, TypeOK
<1>4. CallShape' /\ VersionStandsForRow'
  BY <1>1 DEF IInv, CallShape, VersionStandsForRow
<1>5. TxIsolated'
  BY <1>1, <1>2 DEF IInv, TxIsolated
<1>6. OneHolder' /\ OneReceipt'
  BY <1>1, TablesSame DEF IInv
<1>7. QED
  BY <1>3, <1>4, <1>5, <1>6 DEF IInv

LEMMA NoEvalIsEval == NoEval \in Eval /\ NoEval.pc = "idle"
BY DEF NoEval, Eval, NoAlert, AlertRow

LEMMA EvalFindsKeeps ==
  ASSUME IInv, NEW p \in Problem, EvalFinds(p)
  PROVE  IInv'
<1>1. PICK a \in Alert :
        eval' = [pc |-> "suppress", problem |-> p, alert |-> a, row |-> alert[a]]
  BY DEF EvalFinds, FindActive
<1>2. alert[a] \in AlertRow
  BY DEF IInv, TypeOK
<1>3. eval' \in Eval /\ eval'.alert = a /\ eval'.row = alert[a]
  BY <1>1, <1>2 DEF Eval
<1>4. UNCHANGED <<alert, dispatch, conn, call>>
  BY DEF EvalFinds
<1>5. QED
  BY <1>3, <1>4, EvalFrame

LEMMA EvalMissesKeeps ==
  ASSUME IInv, NEW p \in Problem, EvalMisses(p)
  PROVE  IInv'
<1>1. eval' \in Eval /\ eval'.pc = "create"
  BY NoEvalIsEval DEF EvalMisses, NoEval, Eval
<1>2. UNCHANGED <<alert, dispatch, conn, call>>
  BY DEF EvalMisses
<1>3. QED
  BY <1>1, <1>2, EvalFrame

LEMMA EvalSkipKeeps ==
  ASSUME IInv, EvalSkip
  PROVE  IInv'
BY NoEvalIsEval, EvalFrame DEF EvalSkip

(* A write of the evaluator meets no open transaction. *)
LEMMA EvalWriteFrame ==
  ASSUME IInv, conn = None, UNCHANGED <<dispatch, conn, call>>, eval' = NoEval,
         alert' \in [Alert -> AlertRow]
  PROVE  TypeOK' /\ CallShape' /\ TxIsolated' /\ VersionStandsForRow'
<1>1. TypeOK'
  BY NoEvalIsEval DEF IInv, TypeOK
<1>2. CallShape' /\ VersionStandsForRow'
  BY NoEvalIsEval DEF IInv, CallShape, VersionStandsForRow
<1>3. TxIsolated'
  BY NoneAssumption DEF IInv, TxIsolated
<1>4. QED
  BY <1>1, <1>2, <1>3

(* The suppression write either finds another version and changes nothing, *)
(* or writes back the state and the assignee that the row has anyway: this *)
(* is where the invariant needs VersionStandsForRow.                        *)
LEMMA SuppressEffect ==
  ASSUME IInv, EvalSuppress
  PROVE  /\ alert' \in [Alert -> AlertRow]
         /\ \A b \in Alert :
              \/ alert'[b] = alert[b]
              \/ /\ alert'[b].state = alert[b].state
                 /\ alert'[b].assignee = alert[b].assignee
                 /\ alert'[b].problem = alert[b].problem
                 /\ alert'[b].version = alert[b].version + 1
<1>1. PICK a \in Alert : a = eval.alert
  BY DEF EvalSuppress, IInv, CallShape
<1>2. Update(a, eval.row) /\ eval.pc = "suppress"
  BY <1>1 DEF EvalSuppress
<1>3. CASE alert[a].version = eval.row.version
  <2>1. eval.row = alert[a]
    BY <1>1, <1>2, <1>3 DEF IInv, VersionStandsForRow
  <2>2. SetAlert(a, alert[a].state, alert[a].assignee)
    BY <1>2, <1>3, <2>1 DEF Update, SetAlert
  <2>3. alert \in [Alert -> AlertRow]
    BY DEF IInv, TypeOK
  <2>4. QED
    BY <2>2, <2>3 DEF SetAlert, AlertRow
<1>4. CASE alert[a].version # eval.row.version
  BY <1>2, <1>4 DEF Update, IInv, TypeOK
<1>5. QED
  BY <1>3, <1>4

LEMMA EvalSuppressKeeps ==
  ASSUME IInv, EvalSuppress
  PROVE  IInv'
<1>1. /\ conn = None /\ UNCHANGED <<dispatch, conn, call>> /\ eval' = NoEval
  BY DEF EvalSuppress
<1>2. TypeOK' /\ CallShape' /\ TxIsolated' /\ VersionStandsForRow'
  BY <1>1, SuppressEffect, EvalWriteFrame
<1>3. \A b \in Alert : /\ alert'[b].state = alert[b].state
                       /\ alert'[b].assignee = alert[b].assignee
                       /\ Claimed(b)' = Claimed(b)
  BY SuppressEffect DEF Claimed
<1>4. /\ dispatch' = dispatch
      /\ \A b \in Alert : ActiveFor(b)' = ActiveFor(b) /\ CompletedFor(b)' = CompletedFor(b)
  BY <1>1 DEF ActiveFor, CompletedFor
<1>5. OneHolder' /\ OneReceipt'
  BY <1>3, <1>4 DEF IInv, OneHolder, OneReceipt
<1>6. QED
  BY <1>2, <1>5 DEF IInv

LEMMA EvalCreateKeeps ==
  ASSUME IInv, NEW a \in Alert, EvalCreate(a)
  PROVE  IInv'
<1> DEFINE row == [state |-> "open", problem |-> eval.problem,
                   assignee |-> None, version |-> 1]
<1>1. row \in AlertRow /\ row.state = "open"
  BY DEF IInv, TypeOK, Eval, AlertRow, AlertState
<1>2. conn = None /\ UNCHANGED <<dispatch, conn, call>> /\ eval' = NoEval
      /\ alert[a].state = "absent" /\ alert' = [alert EXCEPT ![a] = row]
  BY DEF EvalCreate
<1> HIDE DEF row
<1>3. /\ alert' \in [Alert -> AlertRow] /\ alert'[a].state = "open"
      /\ \A b \in Alert : b # a => alert'[b] = alert[b]
  BY <1>1, <1>2 DEF IInv, TypeOK
<1>4. TypeOK' /\ CallShape' /\ TxIsolated' /\ VersionStandsForRow'
  BY <1>2, <1>3, EvalWriteFrame
<1>5. /\ dispatch' = dispatch
      /\ \A b \in Alert : ActiveFor(b)' = ActiveFor(b) /\ CompletedFor(b)' = CompletedFor(b)
  BY <1>2 DEF ActiveFor, CompletedFor
<1>6. ActiveFor(a) = {} /\ CompletedFor(a) = {}
  BY <1>2 DEF IInv, OneHolder, OneReceipt, Claimed
<1>7. \A b \in Alert : Claimed(b)' = Claimed(b)
  BY <1>2, <1>3 DEF Claimed
<1>8. OneHolder'
  BY <1>2, <1>3, <1>5, <1>6, <1>7 DEF IInv, OneHolder, Claimed
<1>9. OneReceipt'
  BY <1>2, <1>3, <1>5, <1>6 DEF IInv, OneReceipt
<1>10. QED
  BY <1>4, <1>8, <1>9 DEF IInv

----------------------------------------------------------------------------
(* The invariant holds. *)

LEMMA InitIInv == Init => IInv
<1> SUFFICES ASSUME Init PROVE IInv
  OBVIOUS
<1>1. NoAlert \in AlertRow /\ NoDispatch \in DispatchRow /\ NoCall \in Call
  BY DEF NoAlert, AlertRow, NoDispatch, DispatchRow, NoCall, Call
<1>2. TypeOK
  BY <1>1, NoEvalIsEval DEF Init, TypeOK
<1>3. \A a \in Alert : alert[a].state = "absent" /\ ActiveFor(a) = {} /\ CompletedFor(a) = {}
  BY DEF Init, NoAlert, NoDispatch, ActiveFor, CompletedFor
<1>4. \A c \in Client : call[c].pc = "idle"
  BY DEF Init, NoCall
<1>5. CallShape /\ VersionStandsForRow
  BY <1>4, NoEvalIsEval DEF Init, CallShape, VersionStandsForRow
<1>6. TxIsolated
  BY <1>4, NoneAssumption DEF Init, TxIsolated
<1>7. OneHolder /\ OneReceipt
  BY <1>3 DEF OneHolder, OneReceipt, Claimed
<1>8. QED
  BY <1>2, <1>5, <1>6, <1>7 DEF IInv

LEMMA NextIInv == IInv /\ [Next]_vars => IInv'
<1> SUFFICES ASSUME IInv, [Next]_vars PROVE IInv'
  OBVIOUS
<1>1. ASSUME NEW c \in Client, NEW e \in AlertEvent, NEW a \in Alert,
             NEW h \in Handler \cup {None}, Request(c, e, a, h)
      PROVE  IInv'
  BY <1>1, RequestKeeps
<1>2. ASSUME NEW c \in Client, ClientGone(c)
      PROVE  IInv'
  BY <1>2, ClientGoneKeeps
<1>3. ASSUME NEW c \in Client, Begin(c)
      PROVE  IInv'
  BY <1>3, BeginKeeps
<1>4. ASSUME NEW c \in Client, NEW d \in Dispatch, AcceptWins(c, d)
      PROVE  IInv'
  BY <1>4, AcceptWinsKeeps
<1>5. ASSUME NEW c \in Client, AcceptLoses(c)
      PROVE  IInv'
  BY <1>5, AcceptLosesKeeps
<1>6. ASSUME NEW c \in Client, NEW e \in {"start", "close"}, StartOrClose(c, e)
      PROVE  IInv'
  BY <1>6, StartOrCloseKeeps
<1>7. ASSUME NEW c \in Client, Resolve(c)
      PROVE  IInv'
  BY <1>7, ResolveKeeps
<1>8. ASSUME NEW c \in Client, NEW e \in {"release", "revoke"}, ReleaseOrRevoke(c, e)
      PROVE  IInv'
  BY <1>8, ReleaseOrRevokeKeeps
<1>9. ASSUME NEW c \in Client, Refuse(c)
      PROVE  IInv'
  BY <1>9, RefuseKeeps
<1>10. ASSUME NEW c \in Client, ReadBack(c)
       PROVE  IInv'
  BY <1>10, ReadBackKeeps
<1>11. ASSUME NEW c \in Client, Fail(c)
       PROVE  IInv'
  BY <1>11, FailKeeps
<1>12. ASSUME NEW c \in Client, Audit(c)
       PROVE  IInv'
  BY <1>12, AuditKeeps
<1>13. ASSUME NEW c \in Client, Return(c)
       PROVE  IInv'
  BY <1>13, ReturnKeeps
<1>14. CASE EvalStep
  BY <1>14, EvalFindsKeeps, EvalMissesKeeps, EvalSuppressKeeps, EvalCreateKeeps, EvalSkipKeeps
     DEF EvalStep
<1>15. CASE UNCHANGED vars
  BY <1>15 DEF vars, IInv, TypeOK, CallShape, TxIsolated, VersionStandsForRow,
               OneHolder, OneReceipt, Claimed, ActiveFor, CompletedFor
<1>16. CASE OtherStep
  BY <1>16, OtherKeeps
<1>17. QED
  BY <1>1, <1>2, <1>3, <1>4, <1>5, <1>6, <1>7, <1>8, <1>9, <1>10, <1>11, <1>12,
     <1>13, <1>14, <1>15, <1>16 DEF Next, ClientStep, Serve, TxStep

LEMMA SpecIInv == Spec => []IInv
BY InitIInv, NextIInv, PTL DEF Spec

(* Every variable keeps its shape, for any number of tickets and callers.  *)
THEOREM TypeCorrect == Spec => []TypeOK
<1>1. IInv => TypeOK
  BY DEF IInv
<1>2. QED
  BY <1>1, SpecIInv, PTL

(* However accepts, releases, revocations and the evaluator's writes        *)
(* interleave, the assignments table never holds two active assignments of *)
(* one ticket and never disagrees with the ticket about who has it         *)
(* (AcceptAlert, Transition and AlertRepo.Update together).                 *)
THEOREM TicketHasOneHolder == Spec => []OneHolder
<1>1. IInv => OneHolder
  BY DEF IInv
<1>2. QED
  BY <1>1, SpecIInv, PTL

(* A resolved or closed ticket always carries exactly one completed         *)
(* assignment, of the handler it names: the receipt is neither lost nor     *)
(* doubled by a release, a revocation or a second round of accepts.         *)
THEOREM ResolvedHasReceipt == Spec => []OneReceipt
<1>1. IInv => OneReceipt
  BY DEF IInv
<1>2. QED
  BY <1>1, SpecIInv, PTL

(* Transactions do not see each other, and no call that is through keeps   *)
(* the database's only connection (the deferred Rollback of AcceptAlert     *)
(* and Transition on every path).                                           *)
THEOREM TransactionsIsolated == Spec => []TxIsolated
<1>1. IInv => TxIsolated
  BY DEF IInv
<1>2. QED
  BY <1>1, SpecIInv, PTL

(* The version check of the evaluator's write is enough: a row whose        *)
(* version has not changed has not changed.                                 *)
THEOREM VersionIsEnough == Spec => []VersionStandsForRow
<1>1. IInv => VersionStandsForRow
  BY DEF IInv
<1>2. QED
  BY <1>1, SpecIInv, PTL

----------------------------------------------------------------------------
(* How one step may change a ticket's row. *)

(* A row that changes gets the next version, is about the same problem,    *)
(* and its state and assignee move along an entry of the state table or    *)
(* not at all. *)
RowMoves(a) ==
  /\ alert[a].state # "absent"
  /\ alert'[a].problem = alert[a].problem
  /\ alert'[a].version = alert[a].version + 1
  /\ \/ alert'[a].state = alert[a].state /\ alert'[a].assignee = alert[a].assignee
     \/ \E e \in AlertEvent : alert'[a].state \in NextState(alert[a].state, e)

(* What the evaluator knows between its two statements: the ticket it found *)
(* exists, or the problem it looked up has no live ticket.  The other calls *)
(* never raise a ticket and never bring one back to life, so it still knows *)
(* it when it writes. *)
EvalInv ==
  /\ \A a \in Alert : alert[a].state = "absent" => alert[a].version = 0
  /\ eval.pc = "suppress" => alert[eval.alert].state # "absent"
  /\ eval.pc = "create" => eval.problem \in Problem /\ FindActive(eval.problem) = {}
  /\ \A p \in Problem : \A a, b \in FindActive(p) : a = b

LEMMA WriteMoves ==
  ASSUME IInv, NEW a \in Alert, NEW e \in AlertEvent,
         NEW to \in NextState(alert[a].state, e), NEW w \in Handler \cup {None},
         SetAlert(a, to, w)
  PROVE  \A b \in Alert : alert'[b] = alert[b] \/ RowMoves(b)
<1>1. to \in AlertState
  BY NextStateIsState
<1>2. /\ alert'[a].state = to
      /\ alert'[a].problem = alert[a].problem
      /\ alert'[a].version = alert[a].version + 1
      /\ \A b \in Alert : b # a => alert'[b] = alert[b]
  BY <1>1, SetAlertEffect DEF IInv, TypeOK
<1>3. alert[a].state # "absent"
  BY DEF NextState, alertTable, Move
<1>4. QED
  BY <1>2, <1>3 DEF RowMoves

(* A transaction step writes nothing, or moves one row along the table.    *)
LEMMA TxMoves ==
  ASSUME IInv, NEW c \in Client, TxStep(c)
  PROVE  \A b \in Alert : alert'[b] = alert[b] \/ RowMoves(b)
<1>1. CASE UNCHANGED alert
  BY <1>1
<1>2. SUFFICES ASSUME call[c].pc = "tx",
                      NEW a \in Alert, a = call[c].alert, call[c].row = alert[a],
                      NEW h \in Handler \cup {None}, h = call[c].handler,
                      alert[a].assignee \in Handler \cup {None}
               PROVE  \A b \in Alert : alert'[b] = alert[b] \/ RowMoves(b)
  BY InTxFacts DEF TxStep, InTx, AcceptWins, AcceptLoses, StartOrClose, Resolve,
                   ReleaseOrRevoke, Refuse
<1>3. ASSUME NEW d \in Dispatch, AcceptWins(c, d)
      PROVE  \A b \in Alert : alert'[b] = alert[b] \/ RowMoves(b)
  <2>1. alert[a].state = "open" /\ SetAlert(a, "assigned", h)
    BY <1>2, <1>3 DEF AcceptWins, Free
  <2>2. "assigned" \in NextState(alert[a].state, "accept") /\ "accept" \in AlertEvent
    <3> DEFINE m == Move("open", "accept", "assigned")
    <3>1. m \in alertTable
      BY DEF alertTable
    <3>2. m.from = alert[a].state /\ m.event = "accept" /\ m.to = "assigned"
      BY <2>1 DEF Move
    <3> HIDE DEF m
    <3>3. QED
      BY <3>1, <3>2 DEF NextState, AlertEvent, HandlerEvent
  <2>3. QED
    BY <2>1, <2>2, WriteMoves
<1>4. ASSUME NEW e \in {"start", "close"}, StartOrClose(c, e)
      PROVE  \A b \in Alert : alert'[b] = alert[b] \/ RowMoves(b)
  <2>1. PICK to \in NextState(alert[a].state, e) : SetAlert(a, to, alert[a].assignee)
    BY <1>2, <1>4 DEF StartOrClose
  <2>2. e \in AlertEvent
    BY DEF AlertEvent, HandlerEvent, DutyEvent
  <2>3. QED
    BY <1>2, <2>1, <2>2, WriteMoves
<1>5. ASSUME Resolve(c)
      PROVE  \A b \in Alert : alert'[b] = alert[b] \/ RowMoves(b)
  <2>1. PICK to \in NextState(alert[a].state, "resolve") : SetAlert(a, to, alert[a].assignee)
    BY <1>2, <1>5 DEF Resolve
  <2>2. "resolve" \in AlertEvent
    BY DEF AlertEvent, HandlerEvent
  <2>3. QED
    BY <1>2, <2>1, <2>2, WriteMoves
<1>6. ASSUME NEW e \in {"release", "revoke"}, ReleaseOrRevoke(c, e)
      PROVE  \A b \in Alert : alert'[b] = alert[b] \/ RowMoves(b)
  <2>1. PICK to \in NextState(alert[a].state, e) : SetAlert(a, to, None)
    BY <1>2, <1>6 DEF ReleaseOrRevoke
  <2>2. e \in AlertEvent /\ None \in Handler \cup {None}
    BY DEF AlertEvent, HandlerEvent, DutyEvent
  <2>3. QED
    BY <2>1, <2>2, WriteMoves
<1>7. ASSUME AcceptLoses(c) \/ Refuse(c)
      PROVE  UNCHANGED alert
  BY <1>7 DEF AcceptLoses, Refuse, RolledBack
<1>8. QED
  BY <1>1, <1>3, <1>4, <1>5, <1>6, <1>7 DEF TxStep

(* So does every other step, except that the evaluator raises a ticket     *)
(* where there was none. *)
Raised(a) ==
  /\ eval.pc = "create" /\ eval'.pc = "idle"
  /\ alert[a].state = "absent"
  /\ alert'[a].state = "open" /\ alert'[a].version = 1 /\ alert'[a].problem = eval.problem
  /\ \A b \in Alert : b # a => alert'[b] = alert[b]

(* The evaluator raises a ticket about the problem that it looked up.      *)
LEMMA EvalCreateRaises ==
  ASSUME IInv, NEW a \in Alert, EvalCreate(a)
  PROVE  Raised(a)
<1> DEFINE row == [state |-> "open", problem |-> eval.problem,
                   assignee |-> None, version |-> 1]
<1>1. row.state = "open" /\ row.version = 1 /\ row.problem = eval.problem
  OBVIOUS
<1>2. /\ eval.pc = "create" /\ eval' = NoEval /\ alert[a].state = "absent"
      /\ alert' = [alert EXCEPT ![a] = row]
  BY DEF EvalCreate
<1> HIDE DEF row
<1>3. QED
  BY <1>1, <1>2, NoEvalIsEval DEF Raised, IInv, TypeOK

LEMMA NextMoves ==
  ASSUME IInv, EvalInv, [Next]_vars
  PROVE  \/ \A b \in Alert : alert'[b] = alert[b] \/ RowMoves(b)
         \/ \E a \in Alert : Raised(a)
<1>1. ASSUME NEW c \in Client, TxStep(c)
      PROVE  \A b \in Alert : alert'[b] = alert[b] \/ RowMoves(b)
  BY <1>1, TxMoves
<1>2. ASSUME EvalSuppress
      PROVE  \A b \in Alert : alert'[b] = alert[b] \/ RowMoves(b)
  <2>1. \A b \in Alert :
              \/ alert'[b] = alert[b]
              \/ /\ alert'[b].state = alert[b].state
                 /\ alert'[b].assignee = alert[b].assignee
                 /\ alert'[b].problem = alert[b].problem
                 /\ alert'[b].version = alert[b].version + 1
    BY <1>2, SuppressEffect
  <2>2. \A b \in Alert : b # eval.alert => alert'[b] = alert[b]
    BY <1>2 DEF EvalSuppress, Update, IInv, TypeOK
  <2>3. alert[eval.alert].state # "absent"
    BY <1>2 DEF EvalSuppress, EvalInv
  <2>4. QED
    BY <2>1, <2>2, <2>3 DEF RowMoves
<1>3. ASSUME NEW a \in Alert, EvalCreate(a)
      PROVE  Raised(a)
  BY <1>3, EvalCreateRaises
<1>4. CASE UNCHANGED alert
  BY <1>4
<1>5. QED
  BY <1>1, <1>2, <1>3, <1>4
     DEF Next, ClientStep, Serve, EvalStep, vars, Request, ClientGone, Begin, ReadBack,
         Fail, Audit, Return, EvalFinds, EvalMisses, EvalSkip, OtherStep, OtherTakes,
         OtherEnds

(* Nothing but the evaluator comes back to life. *)
LEMMA NoRevival ==
  ASSUME IInv, NEW p \in Problem, \A b \in Alert : alert'[b] = alert[b] \/ RowMoves(b)
  PROVE  FindActive(p)' \subseteq FindActive(p)
<1>1. ASSUME NEW b \in Alert, RowMoves(b), alert'[b].state \in LiveState
      PROVE  alert[b].state \in LiveState
  BY <1>1 DEF RowMoves, NextState, alertTable, Move, LiveState
<1>2. \A b \in Alert : RowMoves(b) => alert'[b].problem = alert[b].problem
  BY DEF RowMoves
<1>3. QED
  BY <1>1, <1>2 DEF FindActive

(* The evaluator's own places in its sweep. *)
LEMMA EvalPlaces ==
  ASSUME IInv, [Next]_vars
  PROVE  \/ eval' = eval
         \/ eval'.pc = "idle"
         \/ /\ eval'.pc = "create" /\ UNCHANGED alert
            /\ eval'.problem \in Problem /\ FindActive(eval'.problem) = {}
         \/ /\ eval'.pc = "suppress" /\ UNCHANGED alert
            /\ alert[eval'.alert].state # "absent"
<1>1. ASSUME NEW p \in Problem, EvalFinds(p)
      PROVE  /\ eval'.pc = "suppress" /\ UNCHANGED alert
             /\ alert[eval'.alert].state # "absent"
  BY <1>1 DEF EvalFinds, FindActive, LiveState
<1>2. ASSUME NEW p \in Problem, EvalMisses(p)
      PROVE  /\ eval'.pc = "create" /\ UNCHANGED alert
             /\ eval'.problem = p /\ FindActive(p) = {}
  BY <1>2 DEF EvalMisses, NoEval
<1>3. ASSUME EvalSuppress \/ EvalSkip \/ \E a \in Alert : EvalCreate(a)
      PROVE  eval'.pc = "idle"
  BY <1>3, NoEvalIsEval DEF EvalSuppress, EvalSkip, EvalCreate
<1>4. CASE UNCHANGED eval
  BY <1>4
<1>5. QED
  BY <1>1, <1>2, <1>3, <1>4
     DEF Next, ClientStep, Serve, TxStep, EvalStep, vars, Request, ClientGone, Begin,
         AcceptWins, AcceptLoses, StartOrClose, Resolve, ReleaseOrRevoke, Refuse, ReadBack,
         Fail, Audit, Return, OtherStep, OtherTakes, OtherEnds

LEMMA InitEvalInv == Init => EvalInv
BY NoEvalIsEval DEF Init, EvalInv, NoAlert, FindActive, LiveState

LEMMA NextEvalInv == IInv /\ EvalInv /\ [Next]_vars => EvalInv'
<1> SUFFICES ASSUME IInv, EvalInv, [Next]_vars PROVE EvalInv'
  OBVIOUS
<1>1. IInv'
  BY NextIInv
<1>2. CASE \A b \in Alert : alert'[b] = alert[b] \/ RowMoves(b)
  <2>1. \A p \in Problem : FindActive(p)' \subseteq FindActive(p)
    BY <1>2, NoRevival
  <2>2. ASSUME NEW b \in Alert, alert[b].state # "absent"
        PROVE  alert'[b].state # "absent"
    BY <1>2, <2>2 DEF RowMoves, NextState, alertTable, Move
  <2>3. \A b \in Alert : alert'[b].state = "absent" => alert'[b].version = 0
    BY <1>2, <2>2 DEF EvalInv, RowMoves
  <2>4. eval'.pc = "suppress" => alert'[eval'.alert].state # "absent"
    <3>1. ASSUME eval' = eval, eval.pc = "suppress"
          PROVE  eval.alert \in Alert /\ alert[eval.alert].state # "absent"
      BY <3>1 DEF EvalInv, IInv, CallShape
    <3>2. QED
      BY <2>2, <3>1, EvalPlaces
  <2>5. (eval.pc = "create" => eval.problem \in Problem /\ FindActive(eval.problem) = {})'
    <3>1. ASSUME eval' = eval, eval.pc = "create"
          PROVE  eval'.problem \in Problem /\ FindActive(eval'.problem) = {}
      BY <3>1 DEF EvalInv
    <3>2. ASSUME eval'.pc = "create"
          PROVE  eval'.problem \in Problem /\ FindActive(eval'.problem) = {}
      BY <3>1, <3>2, EvalPlaces
    <3>3. SUFFICES ASSUME NEW p \in Problem, eval'.problem = p, FindActive(p) = {}
                   PROVE  FindActive(eval.problem)' = {}
      BY <3>2
    <3>4. FindActive(p)' = {}
      BY <2>1, <3>3
    <3>5. QED
      BY <3>3, <3>4 DEF FindActive
  <2>6. \A p \in Problem : \A a, b \in FindActive(p)' : a = b
    BY <2>1 DEF EvalInv
  <2>7. QED
    BY <2>3, <2>4, <2>5, <2>6 DEF EvalInv
<1>3. ASSUME NEW a \in Alert, Raised(a)
      PROVE  EvalInv'
  <2>1. /\ alert'[a].state = "open" /\ alert'[a].problem = eval.problem
        /\ \A b \in Alert : b # a => alert'[b] = alert[b]
        /\ eval'.pc = "idle"
    BY <1>3 DEF Raised
  <2>2. eval.problem \in Problem /\ FindActive(eval.problem) = {}
    BY <1>3 DEF Raised, EvalInv
  <2>3. \A b \in Alert : alert'[b].state = "absent" => alert'[b].version = 0
    BY <2>1 DEF EvalInv
  <2>4. ASSUME NEW p \in Problem, NEW b \in FindActive(p)', NEW d \in FindActive(p)'
        PROVE  b = d
    <3>1. CASE p = eval.problem
      <4>1. FindActive(p)' \subseteq {a}
        BY <2>1, <2>2, <3>1 DEF FindActive
      <4>2. QED
        BY <4>1
    <3>2. CASE p # eval.problem
      <4>1. FindActive(p)' \subseteq FindActive(p)
        BY <2>1, <3>2 DEF FindActive
      <4>2. QED
        BY <4>1 DEF EvalInv
    <3>3. QED
      BY <3>1, <3>2
  <2>5. QED
    BY <2>1, <2>3, <2>4 DEF EvalInv
<1>4. QED
  BY <1>2, <1>3, NextMoves

LEMMA SpecEvalInv == Spec => [](IInv /\ EvalInv)
BY SpecIInv, InitEvalInv, NextEvalInv, PTL DEF Spec

(* One problem never has two live tickets, although Evaluate looks for a   *)
(* live ticket in one statement and inserts in another (FindActive, then   *)
(* Create): there is one evaluator, and no call raises or revives a ticket. *)
THEOREM OneLiveTicket == Spec => []OneTicketPerProblem
<1>1. ASSUME EvalInv
      PROVE  OneTicketPerProblem
  <2>1. ASSUME NEW p \in Problem
        PROVE  Cardinality(FindActive(p)) <= 1
    <3>1. CASE FindActive(p) = {}
      BY <3>1, FS_EmptySet
    <3>2. ASSUME NEW a \in FindActive(p)
          PROVE  Cardinality(FindActive(p)) <= 1
      <4>1. FindActive(p) = {a}
        BY <1>1, <3>2 DEF EvalInv
      <4>2. QED
        BY <4>1, FS_Singleton
    <3>3. QED
      BY <3>1, <3>2
  <2>2. QED
    BY <2>1 DEF OneTicketPerProblem
<1>2. QED
  BY <1>1, SpecEvalInv, PTL

(* No write, stale or not, takes a ticket where the state table has no      *)
(* entry for it (Transition, AcceptAlert and AlertRepo.Update).             *)
THEOREM TicketsMoveByTheTable == Spec => OnlyTableMoves
<1>1. ASSUME IInv, EvalInv, [Next]_vars
      PROVE  [\A a \in Alert :
               <<alert'[a].state, alert'[a].assignee>> # <<alert[a].state, alert[a].assignee>> =>
                 \/ alert[a].state = "absent" /\ alert'[a].state = "open"
                 \/ \E e \in AlertEvent : alert'[a].state \in NextState(alert[a].state, e)]_vars
  BY <1>1, NextMoves DEF RowMoves, Raised
<1>2. QED
  BY <1>1, SpecEvalInv, PTL DEF Spec, OnlyTableMoves

(* Every change of a ticket's row raises its version by one, which is what  *)
(* the "AND version = ?" of AlertRepo.Update relies on.                     *)
THEOREM EveryWriteCounts == Spec => VersionsCount
<1>1. ASSUME IInv, EvalInv, [Next]_vars
      PROVE  [\A a \in Alert :
               alert'[a] # alert[a] => alert'[a].version = alert[a].version + 1]_vars
  BY <1>1, NextMoves DEF RowMoves, Raised, EvalInv
<1>2. QED
  BY <1>1, SpecEvalInv, PTL DEF Spec, VersionsCount

============================================================================
