------------------------ MODULE TicketPromisesProofs ------------------------
(***************************************************************************)
(* Proofs about what AlertTicket promises outwards: what the callers are   *)
(* told and the audit trail records, and that the two tables together      *)
(* implement the life cycle of TicketLifecycle.                             *)
(***************************************************************************)
EXTENDS AlertTicketProofs

----------------------------------------------------------------------------
(* What one step does to one request. *)

OthersSame(c) == \A b \in Client : b # c => call'[b] = call[b]
NamesSame(c) ==
  /\ call'[c].event = call[c].event
  /\ call'[c].alert = call[c].alert
  /\ call'[c].handler = call[c].handler

Arrives(c) ==
  /\ UNCHANGED <<alert, dispatch>>
  /\ call[c].pc = "idle" /\ call'[c].pc = "waiting"
  /\ ~call'[c].moved /\ call'[c].outcome = "none" /\ ~call'[c].audited
  /\ call'[c].event \in HandlerEvent => call'[c].handler \in Handler

Reads(c) ==
  /\ UNCHANGED <<alert, dispatch>> /\ NamesSame(c)
  /\ call[c].pc = "waiting" /\ call'[c].pc = "tx"
  /\ call'[c].moved = call[c].moved /\ call'[c].outcome = call[c].outcome
  /\ call'[c].audited = call[c].audited

(* The ticket moves along the table; accepting makes the caller its        *)
(* assignee, releasing and revoking leave it without one.                   *)
TicketMoves(c, a) ==
  /\ alert'[a].state \in NextState(alert[a].state, call[c].event)
  /\ alert'[a].problem = alert[a].problem
  /\ alert'[a].version = alert[a].version + 1
  /\ alert'[a].assignee = IF call[c].event = "accept" THEN call[c].handler
                          ELSE IF call[c].event \in {"release", "revoke"} THEN None
                          ELSE alert[a].assignee
  /\ \A b \in Alert : b # a => alert'[b] = alert[b]

(* An accept fills an unused assignment; no other move changes whose an    *)
(* assignment is, or frees one.                                             *)
DispatchMoves(c) ==
  IF call[c].event = "accept"
  THEN \E d \in Dispatch :
         /\ dispatch[d].state = "unused"
         /\ dispatch' = [dispatch EXCEPT ![d] = [state |-> "active", alert |-> call[c].alert,
                                                 handler |-> call[c].handler]]
  ELSE \A d \in Dispatch :
         /\ dispatch'[d].alert = dispatch[d].alert
         /\ dispatch'[d].handler = dispatch[d].handler
         /\ dispatch'[d].state = "unused" => dispatch[d].state = "unused"

Commits(c) ==
  /\ call[c].pc = "tx" /\ call'[c].pc = "readback" /\ NamesSame(c)
  /\ call'[c].moved /\ call'[c].row = call[c].row
  /\ call'[c].outcome = call[c].outcome /\ call'[c].audited = call[c].audited
  /\ TicketMoves(c, call[c].alert)
  /\ DispatchMoves(c)

Loses(c) ==
  /\ UNCHANGED <<alert, dispatch>> /\ NamesSame(c)
  /\ call[c].pc = "tx" /\ call'[c].pc = "audit"
  /\ Taken(c) /\ call'[c].outcome = "lost" /\ call'[c].winner = Winner(call[c].row)
  /\ call'[c].row = call[c].row
  /\ call'[c].moved = call[c].moved /\ call'[c].audited = call[c].audited

(* Refused, or failed in one of its statements.                             *)
Stops(c) ==
  /\ UNCHANGED <<alert, dispatch>> /\ NamesSame(c)
  /\ call[c].pc \in {"waiting", "tx", "readback"} /\ call'[c].pc \in {"audit", "answered"}
  /\ \/ call[c].pc = "tx" /\ call'[c].outcome = "rejected"
     \/ call[c].pc \in {"waiting", "tx"} /\ call'[c].outcome = "error"
     \/ call[c].pc = "readback" /\ call'[c].outcome = "unread"
  /\ call'[c].moved = call[c].moved /\ call'[c].audited = call[c].audited

Replies(c) ==
  /\ UNCHANGED <<alert, dispatch>> /\ NamesSame(c)
  /\ call[c].pc = "readback" /\ call'[c].pc = "audit"
  /\ call'[c].outcome = "ok" /\ call'[c].shown = alert[call[c].alert]
  /\ call'[c].row = call[c].row
  /\ call'[c].moved = call[c].moved /\ call'[c].audited = call[c].audited

(* Its client goes, or its audit entry is written or lost.                 *)
MovesOn(c) ==
  /\ UNCHANGED <<alert, dispatch>> /\ NamesSame(c)
  /\ \/ call'[c].pc = call[c].pc /\ call'[c].audited = call[c].audited
     \/ call[c].pc = "audit" /\ call'[c].pc = "answered"
  /\ call[c].pc # "idle"
  /\ call'[c].outcome = call[c].outcome /\ call'[c].winner = call[c].winner
  /\ call'[c].shown = call[c].shown /\ call'[c].row = call[c].row
  /\ call'[c].moved = call[c].moved

Returns(c) == UNCHANGED <<alert, dispatch>> /\ call'[c] = NoCall

CallStep(c) ==
  /\ OthersSame(c)
  /\ \/ Arrives(c) \/ Reads(c) \/ Commits(c) \/ Loses(c) \/ Stops(c)
     \/ Replies(c) \/ MovesOn(c) \/ Returns(c)

----------------------------------------------------------------------------
LEMMA RequestCall ==
  ASSUME IInv, NEW c \in Client, NEW e \in AlertEvent, NEW a \in Alert,
         NEW h \in Handler \cup {None}, Request(c, e, a, h)
  PROVE  CallStep(c)
<1> DEFINE r == [NoCall EXCEPT !.pc = "waiting", !.event = e, !.alert = a, !.handler = h]
<1>1. /\ r.pc = "waiting" /\ ~r.moved /\ r.outcome = "none" /\ ~r.audited
      /\ r.event = e /\ r.handler = h
  BY DEF NoCall
<1>2. e \in HandlerEvent => h \in Handler
  BY DEF Request, HandlerEvent, DutyEvent
<1>3. call' = [call EXCEPT ![c] = r] /\ UNCHANGED <<alert, dispatch>> /\ call[c].pc = "idle"
  BY DEF Request
<1> HIDE DEF r
<1>4. call'[c] = r /\ OthersSame(c)
  BY <1>3 DEF IInv, TypeOK, OthersSame
<1>5. QED
  BY <1>1, <1>2, <1>3, <1>4 DEF CallStep, Arrives

LEMMA BeginCall ==
  ASSUME IInv, NEW c \in Client, Begin(c)
  PROVE  CallStep(c)
<1> DEFINE row == alert[call[c].alert]
<1> DEFINE r == [call[c] EXCEPT !.pc = "tx", !.row = row]
<1>1. call[c] \in Call
  BY DEF IInv, TypeOK
<1>2. /\ r.pc = "tx" /\ r.event = call[c].event
      /\ r.alert = call[c].alert /\ r.handler = call[c].handler /\ r.moved = call[c].moved
      /\ r.outcome = call[c].outcome /\ r.audited = call[c].audited
  BY <1>1 DEF Call
<1>3. call' = [call EXCEPT ![c] = r] /\ UNCHANGED <<alert, dispatch>> /\ call[c].pc = "waiting"
  BY DEF Begin, IInv, TypeOK
<1> HIDE DEF r
<1>4. call'[c] = r /\ OthersSame(c)
  BY <1>3 DEF IInv, TypeOK, OthersSame
<1>5. QED
  BY <1>2, <1>3, <1>4 DEF CallStep, Reads, NamesSame

(* The request of a transaction that commits.                               *)
LEMMA CommittedCall ==
  ASSUME IInv, NEW c \in Client, call[c].pc = "tx", Committed(c),
         TicketMoves(c, call[c].alert), DispatchMoves(c)
  PROVE  CallStep(c)
<1> DEFINE r == [call[c] EXCEPT !.pc = "readback", !.moved = TRUE]
<1>1. call[c] \in Call
  BY DEF IInv, TypeOK
<1>2. /\ r.pc = "readback" /\ r.event = call[c].event
      /\ r.alert = call[c].alert /\ r.handler = call[c].handler /\ r.moved
      /\ r.row = call[c].row /\ r.outcome = call[c].outcome /\ r.audited = call[c].audited
  BY <1>1 DEF Call
<1>3. call' = [call EXCEPT ![c] = r]
  BY DEF Committed, IInv, TypeOK
<1> HIDE DEF r
<1>4. call'[c] = r /\ OthersSame(c)
  BY <1>3 DEF IInv, TypeOK, OthersSame
<1>5. QED
  BY <1>2, <1>4 DEF CallStep, Commits, NamesSame

LEMMA AcceptWinsCall ==
  ASSUME IInv, NEW c \in Client, NEW d \in Dispatch, AcceptWins(c, d)
  PROVE  CallStep(c)
<1>1. PICK a \in Alert : a = call[c].alert
  BY InTxFacts DEF AcceptWins, InTx
<1>2. /\ call[c].event = "accept" /\ call[c].pc = "tx" /\ Committed(c)
      /\ alert[a].state = "open" /\ call[c].handler \in Handler \cup {None}
      /\ SetAlert(a, "assigned", call[c].handler)
  BY <1>1, InTxFacts DEF AcceptWins, InTx, Free
<1>3. "assigned" \in NextState("open", "accept")
  <2> DEFINE m == Move("open", "accept", "assigned")
  <2>1. m \in alertTable
    BY DEF alertTable
  <2>2. m.from = "open" /\ m.event = "accept" /\ m.to = "assigned"
    BY DEF Move
  <2> HIDE DEF m
  <2>3. QED
    BY <2>1, <2>2 DEF NextState
<1>4. TicketMoves(c, a)
  BY <1>2, <1>3, SetAlertEffect DEF TicketMoves, IInv, TypeOK, AlertState
<1>5. DispatchMoves(c)
  BY <1>2 DEF DispatchMoves, AcceptWins
<1>6. QED
  BY <1>1, <1>2, <1>4, <1>5, CommittedCall

LEMMA StartOrCloseCall ==
  ASSUME IInv, NEW c \in Client, NEW e \in {"start", "close"}, StartOrClose(c, e)
  PROVE  CallStep(c)
<1>1. PICK a \in Alert : a = call[c].alert
  BY InTxFacts DEF StartOrClose, InTx
<1>2. /\ call[c].event = e /\ call[c].pc = "tx" /\ Committed(c) /\ UNCHANGED dispatch
      /\ call[c].row = alert[a] /\ alert[a] \in AlertRow
  BY <1>1, InTxFacts DEF StartOrClose, InTx, IInv, TypeOK
<1>3. PICK to \in NextState(alert[a].state, e) : SetAlert(a, to, alert[a].assignee)
  BY <1>1, <1>2 DEF StartOrClose
<1>4. to \in AlertState /\ alert[a].assignee \in Handler \cup {None}
  BY <1>2, NextStateIsState DEF AlertRow
<1>5. TicketMoves(c, a)
  BY <1>2, <1>3, <1>4, SetAlertEffect DEF TicketMoves, IInv, TypeOK
<1>6. DispatchMoves(c)
  BY <1>2 DEF DispatchMoves
<1>7. QED
  BY <1>1, <1>2, <1>5, <1>6, CommittedCall

LEMMA EndDispatchMoves ==
  ASSUME IInv, NEW c \in Client, NEW a \in Alert, call[c].event # "accept",
         NEW s \in {"completed", "cancelled"}, EndDispatch(a, s)
  PROVE  DispatchMoves(c)
BY DEF EndDispatch, DispatchMoves, ActiveFor, IInv, TypeOK, DispatchRow

LEMMA ResolveCall ==
  ASSUME IInv, NEW c \in Client, Resolve(c)
  PROVE  CallStep(c)
<1>1. PICK a \in Alert : a = call[c].alert
  BY InTxFacts DEF Resolve, InTx
<1>2. /\ call[c].event = "resolve" /\ call[c].pc = "tx" /\ Committed(c)
      /\ EndDispatch(a, "completed")
      /\ call[c].row = alert[a] /\ alert[a] \in AlertRow
  BY <1>1, InTxFacts DEF Resolve, InTx, IInv, TypeOK
<1>3. PICK to \in NextState(alert[a].state, "resolve") : SetAlert(a, to, alert[a].assignee)
  BY <1>1, <1>2 DEF Resolve
<1>4. to \in AlertState /\ alert[a].assignee \in Handler \cup {None}
  BY <1>2, NextStateIsState DEF AlertRow
<1>5. TicketMoves(c, a)
  BY <1>2, <1>3, <1>4, SetAlertEffect DEF TicketMoves, IInv, TypeOK
<1>6. DispatchMoves(c)
  BY <1>2, EndDispatchMoves
<1>7. QED
  BY <1>1, <1>2, <1>5, <1>6, CommittedCall

LEMMA ReleaseOrRevokeCall ==
  ASSUME IInv, NEW c \in Client, NEW e \in {"release", "revoke"}, ReleaseOrRevoke(c, e)
  PROVE  CallStep(c)
<1>1. PICK a \in Alert : a = call[c].alert
  BY InTxFacts DEF ReleaseOrRevoke, InTx
<1>2. /\ call[c].event = e /\ call[c].pc = "tx" /\ Committed(c)
      /\ EndDispatch(a, "cancelled") /\ call[c].row = alert[a]
  BY <1>1, InTxFacts DEF ReleaseOrRevoke, InTx
<1>3. PICK to \in NextState(alert[a].state, e) : SetAlert(a, to, None)
  BY <1>1, <1>2 DEF ReleaseOrRevoke
<1>4. to \in AlertState
  BY NextStateIsState
<1>5. TicketMoves(c, a)
  BY <1>2, <1>3, <1>4, SetAlertEffect DEF TicketMoves, IInv, TypeOK
<1>6. DispatchMoves(c)
  BY <1>2, EndDispatchMoves
<1>7. QED
  BY <1>1, <1>2, <1>5, <1>6, CommittedCall

LEMMA RolledBackCall ==
  ASSUME IInv, NEW c \in Client, call[c].pc = "tx",
         NEW outcome, NEW w, NEW next, RolledBack(c, outcome, w, next)
  PROVE  /\ OthersSame(c) /\ NamesSame(c) /\ UNCHANGED <<alert, dispatch>>
         /\ call'[c].pc = next /\ call'[c].outcome = outcome /\ call'[c].winner = w
         /\ call'[c].row = call[c].row
         /\ call'[c].moved = call[c].moved /\ call'[c].audited = call[c].audited
<1> DEFINE r == [call[c] EXCEPT !.pc = next, !.outcome = outcome, !.winner = w]
<1>1. call[c] \in Call
  BY DEF IInv, TypeOK
<1>2. /\ r.pc = next /\ r.event = call[c].event /\ r.winner = w
      /\ r.alert = call[c].alert /\ r.handler = call[c].handler /\ r.moved = call[c].moved
      /\ r.row = call[c].row /\ r.outcome = outcome /\ r.audited = call[c].audited
  BY <1>1 DEF Call
<1>3. call' = [call EXCEPT ![c] = r] /\ UNCHANGED <<alert, dispatch>>
  BY DEF RolledBack, IInv, TypeOK
<1> HIDE DEF r
<1>4. call'[c] = r /\ OthersSame(c)
  BY <1>3 DEF IInv, TypeOK, OthersSame
<1>5. QED
  BY <1>2, <1>3, <1>4 DEF NamesSame

LEMMA AcceptLosesCall ==
  ASSUME IInv, NEW c \in Client, AcceptLoses(c)
  PROVE  CallStep(c)
<1>1. call[c].pc = "tx" /\ Taken(c) /\ RolledBack(c, "lost", Winner(call[c].row), "audit")
  BY DEF AcceptLoses, InTx
<1>2. QED
  BY <1>1, RolledBackCall DEF CallStep, Loses

LEMMA RefuseCall ==
  ASSUME IInv, NEW c \in Client, Refuse(c)
  PROVE  CallStep(c)
<1> DEFINE next == IF call[c].event = "accept" THEN "answered" ELSE "audit"
<1>1. call[c].pc = "tx" /\ RolledBack(c, "rejected", None, next)
  BY DEF Refuse
<1>2. next \in {"audit", "answered"}
  OBVIOUS
<1> HIDE DEF next
<1>3. QED
  BY <1>1, <1>2, RolledBackCall DEF CallStep, Stops

LEMMA ReadBackCall ==
  ASSUME IInv, NEW c \in Client, ReadBack(c)
  PROVE  CallStep(c)
<1> DEFINE s == alert[call[c].alert]
<1> DEFINE r == [call[c] EXCEPT !.pc = "audit", !.outcome = "ok", !.shown = s]
<1>1. call[c] \in Call
  BY DEF IInv, TypeOK
<1>2. /\ r.pc = "audit" /\ r.event = call[c].event /\ r.shown = s
      /\ r.alert = call[c].alert /\ r.handler = call[c].handler /\ r.moved = call[c].moved
      /\ r.row = call[c].row /\ r.outcome = "ok" /\ r.audited = call[c].audited
  BY <1>1 DEF Call
<1>3. call' = [call EXCEPT ![c] = r] /\ UNCHANGED <<alert, dispatch>> /\ call[c].pc = "readback"
  BY DEF ReadBack, IInv, TypeOK
<1> HIDE DEF r
<1>4. call'[c] = r /\ OthersSame(c)
  BY <1>3 DEF IInv, TypeOK, OthersSame
<1>5. QED
  BY <1>2, <1>3, <1>4 DEF CallStep, Replies, NamesSame

LEMMA FailCall ==
  ASSUME IInv, NEW c \in Client, Fail(c)
  PROVE  CallStep(c)
<1> DEFINE next == IF call[c].event = "accept" THEN "answered" ELSE "audit"
<1> DEFINE how == IF call[c].pc = "readback" THEN "unread" ELSE "error"
<1> DEFINE r == [call[c] EXCEPT !.outcome = how, !.row = NoAlert, !.pc = next]
<1>1. call[c] \in Call /\ next \in {"audit", "answered"}
  BY DEF IInv, TypeOK
<1>3. call' = [call EXCEPT ![c] = r] /\ UNCHANGED <<alert, dispatch>>
      /\ call[c].pc \in {"waiting", "tx", "readback"}
  BY DEF Fail, Failed, IInv, TypeOK
<1>a. \/ call[c].pc \in {"waiting", "tx"} /\ how = "error"
      \/ call[c].pc = "readback" /\ how = "unread"
  BY <1>3
<1> HIDE DEF next, how
<1>2. /\ r.pc = next /\ r.event = call[c].event
      /\ r.alert = call[c].alert /\ r.handler = call[c].handler /\ r.moved = call[c].moved
      /\ r.outcome = how /\ r.audited = call[c].audited
  BY <1>1 DEF Call
<1> HIDE DEF r
<1>4. call'[c] = r /\ OthersSame(c)
  BY <1>3 DEF IInv, TypeOK, OthersSame
<1>5. QED
  BY <1>a, <1>1, <1>2, <1>3, <1>4 DEF CallStep, Stops, NamesSame

LEMMA ClientGoneCall ==
  ASSUME IInv, NEW c \in Client, ClientGone(c)
  PROVE  CallStep(c)
<1> DEFINE r == [call[c] EXCEPT !.gone = TRUE]
<1>1. call[c] \in Call
  BY DEF IInv, TypeOK
<1>2. /\ r.pc = call[c].pc /\ r.event = call[c].event /\ r.gone
      /\ r.alert = call[c].alert /\ r.handler = call[c].handler /\ r.moved = call[c].moved
      /\ r.outcome = call[c].outcome /\ r.audited = call[c].audited
      /\ r.winner = call[c].winner /\ r.shown = call[c].shown
      /\ r.row = call[c].row
  BY <1>1 DEF Call
<1>3. call' = [call EXCEPT ![c] = r] /\ UNCHANGED <<alert, dispatch>> /\ call[c].pc # "idle"
  BY DEF ClientGone, IInv, TypeOK
<1> HIDE DEF r
<1>4. call'[c] = r /\ OthersSame(c)
  BY <1>3 DEF IInv, TypeOK, OthersSame
<1>5. QED
  BY <1>2, <1>3, <1>4 DEF CallStep, MovesOn, NamesSame

LEMMA AuditCall ==
  ASSUME IInv, NEW c \in Client, Audit(c)
  PROVE  CallStep(c)
<1>1. PICK w \in BOOLEAN :
        call' = [call EXCEPT ![c].pc = "answered", ![c].audited = w]
  BY DEF Audit
<1> DEFINE r == [call[c] EXCEPT !.pc = "answered", !.audited = w]
<1>2. call' = [call EXCEPT ![c] = r] /\ UNCHANGED <<alert, dispatch>> /\ call[c].pc = "audit"
  BY <1>1 DEF Audit, IInv, TypeOK
<1>3. call[c] \in Call
  BY DEF IInv, TypeOK
<1>4. /\ r.pc = "answered" /\ r.event = call[c].event
      /\ r.alert = call[c].alert /\ r.handler = call[c].handler /\ r.moved = call[c].moved
      /\ r.outcome = call[c].outcome
      /\ r.winner = call[c].winner /\ r.shown = call[c].shown
      /\ r.row = call[c].row
  BY <1>3 DEF Call
<1> HIDE DEF r
<1>5. call'[c] = r /\ OthersSame(c)
  BY <1>2 DEF IInv, TypeOK, OthersSame
<1>6. QED
  BY <1>2, <1>4, <1>5 DEF CallStep, MovesOn, NamesSame

LEMMA ReturnCall ==
  ASSUME IInv, NEW c \in Client, Return(c)
  PROVE  CallStep(c)
BY DEF Return, IInv, TypeOK, CallStep, Returns, OthersSame

(* Every step is a step of one request, or leaves requests and assignments *)
(* alone.                                                                   *)
LEMMA StepByCall ==
  ASSUME IInv, [Next]_vars
  PROVE  UNCHANGED <<call, dispatch>> \/ \E c \in Client : CallStep(c)
<1>1. CASE EvalStep \/ OtherStep \/ UNCHANGED vars
  BY <1>1 DEF EvalStep, vars, EvalFinds, EvalMisses, EvalSuppress, EvalCreate, EvalSkip,
              OtherStep, OtherTakes, OtherEnds
<1>2. ASSUME NEW c \in Client, TxStep(c)
      PROVE  CallStep(c)
  BY <1>2, AcceptWinsCall, AcceptLosesCall, StartOrCloseCall, ResolveCall,
     ReleaseOrRevokeCall, RefuseCall DEF TxStep
<1>3. ASSUME NEW c \in Client, ClientStep(c)
      PROVE  CallStep(c)
  BY <1>2, <1>3, RequestCall, ClientGoneCall, BeginCall, ReadBackCall, FailCall,
     AuditCall, ReturnCall DEF ClientStep, Serve
<1>4. QED
  BY <1>1, <1>3 DEF Next

----------------------------------------------------------------------------
(* Where a request is, and what that says about its record. *)

CallPlaces ==
  \A c \in Client :
    /\ call[c].pc = "idle" => call[c] = NoCall
    /\ call[c].pc # "idle" /\ call[c].event \in HandlerEvent => call[c].handler \in Handler
    /\ call[c].pc \in {"waiting", "tx"} =>
         ~call[c].moved /\ call[c].outcome = "none" /\ ~call[c].audited
    /\ call[c].pc = "readback" =>
         call[c].moved /\ call[c].outcome = "none" /\ ~call[c].audited
    /\ call[c].pc = "audit" =>
         ~call[c].audited /\ (call[c].moved <=> call[c].outcome \in {"ok", "unread"})
    /\ call[c].audited => (call[c].moved <=> call[c].outcome \in {"ok", "unread"})

LEMMA NextCallPlaces ==
  ASSUME IInv, CallPlaces, [Next]_vars
  PROVE  CallPlaces'
<1>1. CASE UNCHANGED <<call, dispatch>>
  BY <1>1 DEF CallPlaces
<1>2. ASSUME NEW c \in Client, OthersSame(c)
      PROVE  \A b \in Client : b # c => call'[b] = call[b]
  BY <1>2 DEF OthersSame
<1>3. ASSUME NEW c \in Client, CallStep(c)
      PROVE  CallPlaces'
  <2>1. CASE Arrives(c)
    BY <1>2, <1>3, <2>1 DEF CallStep, Arrives, CallPlaces
  <2>2. CASE Reads(c)
    BY <1>2, <1>3, <2>2 DEF CallStep, Reads, NamesSame, CallPlaces
  <2>3. CASE Commits(c)
    BY <1>2, <1>3, <2>3 DEF CallStep, Commits, NamesSame, CallPlaces
  <2>4. CASE Loses(c)
    BY <1>2, <1>3, <2>4 DEF CallStep, Loses, NamesSame, CallPlaces
  <2>5. CASE Stops(c)
    BY <1>2, <1>3, <2>5 DEF CallStep, Stops, NamesSame, CallPlaces
  <2>6. CASE Replies(c)
    BY <1>2, <1>3, <2>6 DEF CallStep, Replies, NamesSame, CallPlaces
  <2>7. CASE MovesOn(c)
    BY <1>2, <1>3, <2>7 DEF CallStep, MovesOn, NamesSame, CallPlaces
  <2>8. CASE Returns(c)
    <3>1. NoCall.pc = "idle" /\ ~NoCall.audited
      BY DEF NoCall
    <3>2. QED
      BY <1>2, <1>3, <2>8, <3>1 DEF CallStep, Returns, CallPlaces
  <2>9. QED
    BY <1>3, <2>1, <2>2, <2>3, <2>4, <2>5, <2>6, <2>7, <2>8 DEF CallStep
<1>4. QED
  BY <1>1, <1>3, StepByCall

LEMMA InitCallPlaces == Init => CallPlaces
BY DEF Init, NoCall, CallPlaces

LEMMA SpecCallPlaces == Spec => [](IInv /\ EvalInv /\ CallPlaces)
BY SpecEvalInv, InitCallPlaces, NextCallPlaces, PTL DEF Spec

(* An audit entry says "done" only of a move that committed and "failed"   *)
(* or "lost" only of a call that moved nothing, although it is written      *)
(* after the transaction; the one exception is named: a call whose reply    *)
(* could not be read after the commit.                                      *)
THEOREM TrailIsTrue == Spec => []TrailTellsTruth
<1>1. CallPlaces => TrailTellsTruth
  BY DEF CallPlaces, TrailTellsTruth
<1>2. QED
  BY <1>1, SpecCallPlaces, PTL

----------------------------------------------------------------------------
(* Assignments are never taken back. *)

(* A used assignment stays that handler's for that ticket.                 *)
DispatchKept ==
  \A d \in Dispatch :
    dispatch[d].state # "unused" =>
      /\ dispatch'[d].state # "unused"
      /\ dispatch'[d].alert = dispatch[d].alert
      /\ dispatch'[d].handler = dispatch[d].handler

LEMMA NextDispatchKept ==
  ASSUME IInv, [Next]_vars
  PROVE  DispatchKept
<1>1. CASE UNCHANGED dispatch
  BY <1>1 DEF DispatchKept
<1>2. ASSUME NEW c \in Client, DispatchMoves(c)
      PROVE  DispatchKept
  <2>1. CASE call[c].event = "accept"
    <3>1. PICK d \in Dispatch :
            /\ dispatch[d].state = "unused"
            /\ dispatch' = [dispatch EXCEPT ![d] = [state |-> "active", alert |-> call[c].alert,
                                                    handler |-> call[c].handler]]
      BY <1>2, <2>1 DEF DispatchMoves
    <3>2. \A e \in Dispatch : e # d => dispatch'[e] = dispatch[e]
      BY <3>1 DEF IInv, TypeOK
    <3>3. QED
      BY <3>1, <3>2 DEF DispatchKept
  <2>2. CASE call[c].event # "accept"
    BY <1>2, <2>2 DEF DispatchMoves, DispatchKept
  <2>3. QED
    BY <2>1, <2>2
<1>3. QED
  BY <1>1, <1>2, StepByCall
     DEF CallStep, Arrives, Reads, Commits, Loses, Stops, Replies, MovesOn, Returns

(* LoserToldAWinner as it is kept: the assignment that gives the winner is *)
(* a used one, so that it cannot become another's.                          *)
LosersInformed ==
  \A c \in Client :
    call[c].outcome = "lost" =>
      IF call[c].row.state \in {"resolved", "closed", "revoked"}
      THEN call[c].winner = None
      ELSE \E d \in Dispatch : /\ dispatch[d].alert = call[c].alert
                               /\ dispatch[d].handler = call[c].winner
                               /\ dispatch[d].state # "unused"

LEMMA LosesInformed ==
  ASSUME IInv, CallPlaces, NEW c \in Client, Loses(c)
  PROVE  IF call[c].row.state \in {"resolved", "closed", "revoked"}
         THEN Winner(call[c].row) = None
         ELSE \E d \in Dispatch : /\ dispatch[d].alert = call[c].alert
                                  /\ dispatch[d].handler = Winner(call[c].row)
                                  /\ dispatch[d].state # "unused"
<1>1. call[c].pc = "tx"
  BY DEF Loses
<1>2. PICK a \in Alert : a = call[c].alert /\ call[c].row = alert[a]
  BY <1>1, InTxFacts
<1>3. CASE call[c].row.state \in {"resolved", "closed", "revoked"}
  BY <1>1, <1>3 DEF Winner
<1>4. CASE call[c].row.state \notin {"resolved", "closed", "revoked"}
  <2>1. alert[a].state \in {"open", "assigned", "handling", "absent"}
    BY <1>1, <1>2, <1>4 DEF IInv, TypeOK, AlertRow, AlertState
  <2>2. alert[a].state # "open"
    <3>1. alert[a].state = "open" => ActiveFor(a) = {}
      BY DEF IInv, OneHolder, Claimed
    <3>2. QED
      BY <1>2, <3>1 DEF Loses, Taken
  <2>3. Claimed(a)
    BY <1>2, <2>1, <2>2 DEF Loses, Taken, Claimed
  <2>4. PICK d \in Dispatch : d \in ActiveFor(a) /\ dispatch[d].handler = alert[a].assignee
    BY <2>3 DEF IInv, OneHolder
  <2>5. Winner(call[c].row) = alert[a].assignee
    BY <1>2, <2>3 DEF Winner, Claimed
  <2>6. QED
    BY <1>2, <1>4, <2>4, <2>5 DEF ActiveFor
<1>5. QED
  BY <1>3, <1>4

LEMMA NextLosersInformed ==
  ASSUME IInv, CallPlaces, LosersInformed, [Next]_vars
  PROVE  LosersInformed'
<1> DEFINE Told(o, from, a, w) ==
      o = "lost" =>
        IF from \in {"resolved", "closed", "revoked"} THEN w = None
        ELSE \E d \in Dispatch : /\ dispatch'[d].alert = a
                                 /\ dispatch'[d].handler = w
                                 /\ dispatch'[d].state # "unused"
<1>0. DispatchKept
  BY NextDispatchKept
<1>1. \A c \in Client :
        Told(call[c].outcome, call[c].row.state, call[c].alert, call[c].winner)
  BY <1>0 DEF LosersInformed, DispatchKept
<1>2. ASSUME NEW c \in Client, Loses(c)
      PROVE  Told(call'[c].outcome, call'[c].row.state, call'[c].alert, call'[c].winner)
  <2>1. /\ call'[c].row = call[c].row /\ call'[c].alert = call[c].alert
        /\ call'[c].winner = Winner(call[c].row) /\ UNCHANGED dispatch
    BY <1>2 DEF Loses, NamesSame
  <2>2. QED
    BY <1>2, <2>1, LosesInformed
<1>3. ASSUME NEW c \in Client, CallStep(c)
      PROVE  \A b \in Client :
               Told(call'[b].outcome, call'[b].row.state, call'[b].alert, call'[b].winner)
  <2>1. \A b \in Client : b # c => call'[b] = call[b]
    BY <1>3 DEF CallStep, OthersSame
  <2>2. CASE Loses(c)
    BY <1>1, <1>2, <2>1, <2>2
  <2>3. CASE MovesOn(c)
    <3>1. /\ call'[c].outcome = call[c].outcome /\ call'[c].row = call[c].row
          /\ call'[c].alert = call[c].alert /\ call'[c].winner = call[c].winner
      BY <2>3 DEF MovesOn, NamesSame
    <3>2. QED
      BY <1>1, <2>1, <3>1
  <2>4. CASE ~Loses(c) /\ ~MovesOn(c)
    <3>1. call'[c].outcome # "lost"
      BY <1>3, <2>4 DEF CallStep, Arrives, Reads, Commits, Stops, Replies, Returns,
                        CallPlaces, NoCall
    <3>2. QED
      BY <1>1, <2>1, <3>1
  <2>5. QED
    BY <2>2, <2>3, <2>4
<1>4. \A c \in Client : Told(call'[c].outcome, call'[c].row.state, call'[c].alert, call'[c].winner)
  BY <1>1, <1>3, StepByCall
<1>5. QED
  BY <1>4 DEF LosersInformed

(* Whoever loses an accept is told a handler who has, or had, the ticket;   *)
(* AcceptAlert names nobody only once the ticket was over when it read it.  *)
THEOREM LoserLearnsWinner == Spec => []LoserToldAWinner
<1>1. Init => LosersInformed
  BY DEF Init, NoCall, LosersInformed
<1>2. LosersInformed => LoserToldAWinner
  BY DEF LosersInformed, LoserToldAWinner
<1>3. QED
  BY <1>1, NextLosersInformed, <1>2, SpecCallPlaces, PTL DEF Spec

----------------------------------------------------------------------------
(* Replies. *)

(* A row is the one the move of request r wrote, or a later one.           *)
Since(row, r) == row \in Written(r) \/ row.version > r.row.version + 1

(* Between its commit and its reply a ticket is only written again.        *)
RepliesDue ==
  \A c \in Client :
    /\ call[c].pc = "readback" => Since(alert[call[c].alert], call[c])
    /\ call[c].outcome = "ok" => Since(call[c].shown, call[c])

(* The row a commit leaves is the one its move writes.                     *)
LEMMA CommitWrites ==
  ASSUME IInv, IInv', NEW c \in Client, Commits(c)
  PROVE  alert'[call[c].alert] \in Written(call[c])
<1>1. PICK a \in Alert : a = call[c].alert /\ call[c].row = alert[a]
  BY InTxFacts DEF Commits
<1>2. alert[a] \in AlertRow /\ alert'[a] \in AlertRow
  BY DEF IInv, TypeOK
<1>3. TicketMoves(c, a)
  BY <1>1 DEF Commits
<1>4. PICK to \in NextState(alert[a].state, call[c].event) : to = alert'[a].state
  BY <1>3 DEF TicketMoves
<1>5. alert'[a].assignee = AssigneeAfter(call[c])
  BY <1>1, <1>3 DEF TicketMoves, AssigneeAfter
<1>6. alert'[a] = [alert[a] EXCEPT !.state = to, !.assignee = AssigneeAfter(call[c]),
                                   !.version = @ + 1]
  <2>1. alert'[a].problem = alert[a].problem /\ alert'[a].version = alert[a].version + 1
    BY <1>3 DEF TicketMoves
  <2> DEFINE who == AssigneeAfter(call[c])
  <2>2. alert'[a].assignee = who
    BY <1>5
  <2> HIDE DEF who
  <2>3. alert'[a] = [alert[a] EXCEPT !.state = to, !.assignee = who, !.version = @ + 1]
    BY <1>2, <1>4, <2>1, <2>2 DEF AlertRow
  <2>4. QED
    BY <2>3 DEF who
<1>7. QED
  BY <1>1, <1>4, <1>6 DEF Written

(* Every later write raises the version.                                   *)
LEMMA SinceKept ==
  ASSUME IInv, EvalInv, [Next]_vars, NEW a \in Alert, NEW r \in Call, Since(alert[a], r)
  PROVE  Since(alert'[a], r)
<1>1. alert'[a] = alert[a] \/ alert'[a].version = alert[a].version + 1
  BY NextMoves DEF RowMoves, Raised, EvalInv
<1>2. alert[a].version \in Nat /\ r.row \in AlertRow /\ r.row.version \in Nat
  BY DEF IInv, TypeOK, Call, AlertRow
<1>3. alert[a] \in Written(r) => alert[a].version = r.row.version + 1
  BY <1>2 DEF Written, AlertRow
<1>4. QED
  BY <1>1, <1>2, <1>3 DEF Since

(* Only these parts of a request say what its move wrote.                  *)
LEMMA SinceNames ==
  ASSUME NEW r, NEW q, NEW row, q.row = r.row, q.event = r.event, q.handler = r.handler,
         Since(row, r)
  PROVE  Since(row, q)
BY DEF Since, Written, AssigneeAfter

LEMMA NextRepliesDue ==
  ASSUME IInv, EvalInv, CallPlaces, RepliesDue, [Next]_vars
  PROVE  RepliesDue'
<1>0. /\ \A c \in Client : call[c].pc # "idle" => call[c].alert \in Alert
      /\ \A c \in Client : call[c] \in Call /\ call'[c] \in Call
      /\ IInv'
  BY NextIInv DEF IInv, CallShape, TypeOK
<1>1. ASSUME NEW c \in Client, call[c].pc = "readback"
      PROVE  Since(alert'[call[c].alert], call[c])
  BY <1>0, <1>1, SinceKept DEF RepliesDue
<1>2. ASSUME NEW c \in Client, CallStep(c)
      PROVE  /\ call'[c].pc = "readback" => Since(alert'[call'[c].alert], call'[c])
             /\ call'[c].outcome = "ok" => Since(call'[c].shown, call'[c])
  <2>1. CASE Commits(c)
    <3>1. /\ call'[c].event = call[c].event /\ call'[c].handler = call[c].handler
          /\ call'[c].alert = call[c].alert /\ call'[c].row = call[c].row
          /\ call'[c].outcome # "ok"
      BY <2>1 DEF Commits, NamesSame, CallPlaces
    <3>2. Since(alert'[call[c].alert], call[c])
      BY <1>0, <2>1, CommitWrites DEF Since
    <3>3. QED
      BY <3>1, <3>2, SinceNames
  <2>2. CASE Replies(c)
    <3>1. /\ call'[c].event = call[c].event /\ call'[c].handler = call[c].handler
          /\ call'[c].row = call[c].row /\ call'[c].pc = "audit"
          /\ call'[c].shown = alert[call[c].alert]
      BY <2>2 DEF Replies, NamesSame
    <3>2. Since(alert[call[c].alert], call[c])
      BY <2>2 DEF Replies, RepliesDue
    <3>3. QED
      BY <3>1, <3>2, SinceNames
  <2>3. CASE MovesOn(c)
    <3>1. /\ call'[c].event = call[c].event /\ call'[c].handler = call[c].handler
          /\ call'[c].alert = call[c].alert /\ call'[c].row = call[c].row
          /\ call'[c].outcome = call[c].outcome /\ call'[c].shown = call[c].shown
          /\ call'[c].pc = "readback" => call[c].pc = "readback"
      BY <2>3 DEF MovesOn, NamesSame
    <3>2. QED
      BY <1>1, <3>1, SinceNames DEF RepliesDue
  <2>4. CASE ~Commits(c) /\ ~Replies(c) /\ ~MovesOn(c)
    <3>1. NoCall.pc = "idle" /\ NoCall.outcome = "none"
      BY DEF NoCall
    <3>2. call'[c].outcome # "ok" /\ call'[c].pc # "readback"
      BY <1>2, <2>4, <3>1 DEF CallStep, Arrives, Reads, Loses, Stops, Returns, CallPlaces
    <3>3. QED
      BY <3>2
  <2>5. QED
    BY <2>1, <2>2, <2>3, <2>4
<1>3. ASSUME NEW c \in Client, call'[c] = call[c]
      PROVE  /\ call'[c].pc = "readback" => Since(alert'[call'[c].alert], call'[c])
             /\ call'[c].outcome = "ok" => Since(call'[c].shown, call'[c])
  BY <1>1, <1>3 DEF RepliesDue
<1>4. UNCHANGED call \/ \E c \in Client : CallStep(c) /\ \A b \in Client : b # c => call'[b] = call[b]
  BY StepByCall DEF CallStep, OthersSame
<1>5. QED
  BY <1>2, <1>3, <1>4 DEF RepliesDue

(* The alert in a reply is read after the commit: it is the row as the      *)
(* call's move left it, or a version that somebody wrote on top of it, and *)
(* never the row as it was before, in whatever state it was.                *)
THEOREM RepliesAreNotStale == Spec => []ReplyNotBeforeMove
<1>1. Init => RepliesDue
  BY DEF Init, NoCall, RepliesDue
<1>2. RepliesDue => ReplyNotBeforeMove
  BY DEF RepliesDue, Since, ReplyNotBeforeMove
<1>3. QED
  BY <1>1, NextRepliesDue, <1>2, SpecCallPlaces, PTL DEF Spec

----------------------------------------------------------------------------
(* Winners. *)

Owned(a, h) == {d \in Dispatch : dispatch[d].alert = a /\ dispatch[d].handler = h}

WinnersCounted ==
  /\ \A d \in Dispatch : dispatch[d].state = "unused" => dispatch[d].alert = None
  /\ \A a \in Alert, h \in Handler :
       /\ IsFiniteSet(Winners(a, h)) /\ IsFiniteSet(Owned(a, h))
       /\ Cardinality(Winners(a, h)) <= Cardinality(Owned(a, h))

(* A winner who gets its assignment in the same step.                      *)
LEMMA OneMoreWinner ==
  ASSUME IInv, CallPlaces, WinnersCounted, NEW c \in Client, OthersSame(c), Commits(c),
         call[c].event = "accept", NEW a \in Alert, NEW h \in Handler
  PROVE  /\ IsFiniteSet(Winners(a, h)') /\ IsFiniteSet(Owned(a, h)')
         /\ Cardinality(Winners(a, h)') <= Cardinality(Owned(a, h)')
<1>1. PICK d \in Dispatch :
        /\ dispatch[d].state = "unused"
        /\ dispatch' = [dispatch EXCEPT ![d] = [state |-> "active", alert |-> call[c].alert,
                                                handler |-> call[c].handler]]
  BY DEF Commits, DispatchMoves
<1>2. /\ dispatch'[d].alert = call[c].alert /\ dispatch'[d].handler = call[c].handler
      /\ \A e \in Dispatch : e # d => dispatch'[e] = dispatch[e]
      /\ d \notin Owned(a, h)
  BY <1>1, NoneAssumption DEF IInv, TypeOK, WinnersCounted, Owned
<1>3. /\ call'[c].event = "accept" /\ call'[c].moved /\ call'[c].alert = call[c].alert
      /\ call'[c].handler = call[c].handler /\ ~call[c].moved
      /\ \A b \in Client : b # c => call'[b] = call[b]
  BY DEF Commits, NamesSame, CallPlaces, OthersSame
<1>4. /\ IsFiniteSet(Winners(a, h)) /\ IsFiniteSet(Owned(a, h))
      /\ Cardinality(Winners(a, h)) <= Cardinality(Owned(a, h))
      /\ Cardinality(Winners(a, h)) \in Nat /\ Cardinality(Owned(a, h)) \in Nat
  BY FS_CardinalityType DEF WinnersCounted
<1>5. CASE call[c].alert = a /\ call[c].handler = h
  <2>1. Winners(a, h)' = Winners(a, h) \cup {c} /\ c \notin Winners(a, h)
    BY <1>3, <1>5 DEF Winners
  <2>2. Owned(a, h)' = Owned(a, h) \cup {d}
    BY <1>2, <1>5 DEF Owned
  <2>3. /\ IsFiniteSet(Winners(a, h)')
        /\ Cardinality(Winners(a, h)') = Cardinality(Winners(a, h)) + 1
    BY <1>4, <2>1, FS_AddElement
  <2>4. /\ IsFiniteSet(Owned(a, h)')
        /\ Cardinality(Owned(a, h)') = Cardinality(Owned(a, h)) + 1
    BY <1>2, <1>4, <2>2, FS_AddElement
  <2>5. QED
    BY <1>4, <2>3, <2>4
<1>6. CASE ~(call[c].alert = a /\ call[c].handler = h)
  <2>1. Winners(a, h)' = Winners(a, h)
    BY <1>3, <1>6 DEF Winners
  <2>2. Owned(a, h)' = Owned(a, h)
    BY <1>2, <1>6 DEF Owned
  <2>3. QED
    BY <1>4, <2>1, <2>2
<1>7. QED
  BY <1>5, <1>6

(* Every other step leaves the assignments and wins nobody.                *)
LEMMA NoMoreWinners ==
  ASSUME IInv, CallPlaces, WinnersCounted, NEW c \in Client, CallStep(c),
         ~(Commits(c) /\ call[c].event = "accept"), NEW a \in Alert, NEW h \in Handler
  PROVE  /\ IsFiniteSet(Winners(a, h)') /\ IsFiniteSet(Owned(a, h)')
         /\ Cardinality(Winners(a, h)') <= Cardinality(Owned(a, h)')
<1>1. \A b \in Client : b # c => call'[b] = call[b]
  BY DEF CallStep, OthersSame
<1>2. Owned(a, h)' = Owned(a, h)
  <2>1. \A d \in Dispatch : /\ dispatch'[d].alert = dispatch[d].alert
                            /\ dispatch'[d].handler = dispatch[d].handler
    BY DEF CallStep, Arrives, Reads, Commits, DispatchMoves, Loses, Stops, Replies,
           MovesOn, Returns
  <2>2. QED
    BY <2>1 DEF Owned
<1>3. c \in Winners(a, h)' => c \in Winners(a, h)
  <2>1. ~NoCall.moved
    BY DEF NoCall
  <2>2. QED
    BY <2>1 DEF CallStep, Arrives, Reads, Commits, Loses, Stops, Replies, MovesOn, Returns,
                NamesSame, Winners
<1>4. Winners(a, h)' \in SUBSET Winners(a, h)
  BY <1>1, <1>3 DEF Winners
<1>5. /\ IsFiniteSet(Winners(a, h)) /\ IsFiniteSet(Owned(a, h))
      /\ Cardinality(Winners(a, h)) <= Cardinality(Owned(a, h))
      /\ Cardinality(Winners(a, h)) \in Nat /\ Cardinality(Owned(a, h)) \in Nat
  BY FS_CardinalityType DEF WinnersCounted
<1>6. IsFiniteSet(Winners(a, h)') /\ Cardinality(Winners(a, h)') <= Cardinality(Winners(a, h))
  BY <1>4, <1>5, FS_Subset
<1>7. Cardinality(Winners(a, h)') \in Nat
  BY <1>6, FS_CardinalityType
<1>8. QED
  BY <1>2, <1>5, <1>6, <1>7

LEMMA NextWinnersCounted ==
  ASSUME IInv, CallPlaces, WinnersCounted, [Next]_vars
  PROVE  WinnersCounted'
<1>1. CASE UNCHANGED <<call, dispatch>>
  BY <1>1 DEF WinnersCounted, Winners, Owned
<1>2. ASSUME NEW c \in Client, CallStep(c)
      PROVE  WinnersCounted'
  <2>1. \A d \in Dispatch : dispatch'[d].state = "unused" => dispatch'[d].alert = None
    <3>1. CASE Commits(c) /\ call[c].event = "accept"
      <4>1. PICK d \in Dispatch :
              dispatch' = [dispatch EXCEPT ![d] = [state |-> "active", alert |-> call[c].alert,
                                                   handler |-> call[c].handler]]
        BY <3>1 DEF Commits, DispatchMoves
      <4>2. dispatch'[d].state = "active" /\ \A e \in Dispatch : e # d => dispatch'[e] = dispatch[e]
        BY <4>1 DEF IInv, TypeOK
      <4>3. QED
        BY <4>2 DEF WinnersCounted
    <3>2. CASE ~(Commits(c) /\ call[c].event = "accept")
      BY <1>2, <3>2 DEF CallStep, Arrives, Reads, Commits, DispatchMoves, Loses, Stops,
                        Replies, MovesOn, Returns, WinnersCounted
    <3>3. QED
      BY <3>1, <3>2
  <2>2. ASSUME NEW a \in Alert, NEW h \in Handler
        PROVE  /\ IsFiniteSet(Winners(a, h)') /\ IsFiniteSet(Owned(a, h)')
               /\ Cardinality(Winners(a, h)') <= Cardinality(Owned(a, h)')
    BY <1>2, OneMoreWinner, NoMoreWinners DEF CallStep
  <2>3. QED
    BY <2>1, <2>2 DEF WinnersCounted
<1>3. QED
  BY <1>1, <1>2, StepByCall

(* Whoever is told that it took a ticket has an assignment of its own: an  *)
(* accept is never confirmed twice on the same assignment.                  *)
THEOREM WinnersAreReal == Spec => []WinnersHaveDispatch
<1>1. ASSUME Init
      PROVE  WinnersCounted
  <2>1. ASSUME NEW a \in Alert, NEW h \in Handler
        PROVE  Winners(a, h) = {} /\ Owned(a, h) = {}
    BY <1>1, NoneAssumption DEF Init, NoCall, NoDispatch, Winners, Owned
  <2>2. QED
    BY <1>1, <2>1, FS_EmptySet DEF Init, NoDispatch, WinnersCounted
<1>2. WinnersCounted => WinnersHaveDispatch
  BY DEF WinnersCounted, WinnersHaveDispatch, Owned
<1>3. QED
  BY <1>1, NextWinnersCounted, <1>2, SpecCallPlaces, PTL DEF Spec

----------------------------------------------------------------------------
(* AlertTicket implements TicketLifecycle.                                  *)

(* Who the ticket's own row names as responsible, and as the resolver.     *)
NamedHolder(a)   == IF Claimed(a) THEN alert[a].assignee ELSE None
NamedResolver(a) == IF alert[a].state \in {"resolved", "closed"}
                    THEN alert[a].assignee ELSE None

(* The assignments table names the same handlers, so that the abstract     *)
(* ticket can be read off the alerts table alone.                           *)
TablesAgree ==
  \A a \in Alert : /\ HandlerOf(ActiveFor(a)) = NamedHolder(a)
                   /\ HandlerOf(CompletedFor(a)) = NamedResolver(a)

LEMMA TablesDoAgree == IInv => TablesAgree
<1> SUFFICES ASSUME IInv, NEW a \in Alert
             PROVE  /\ HandlerOf(ActiveFor(a)) = NamedHolder(a)
                    /\ HandlerOf(CompletedFor(a)) = NamedResolver(a)
  BY DEF TablesAgree
<1>1. HandlerOf({}) = None
  BY DEF HandlerOf
<1>2. \A d \in Dispatch : HandlerOf({d}) = dispatch[d].handler
  BY DEF HandlerOf
<1>3. HandlerOf(ActiveFor(a)) = NamedHolder(a)
  BY <1>1, <1>2 DEF IInv, OneHolder, NamedHolder
<1>4. HandlerOf(CompletedFor(a)) = NamedResolver(a)
  BY <1>1, <1>2 DEF IInv, OneReceipt, NamedResolver
<1>5. QED
  BY <1>3, <1>4

(* A step keeps what every ticket is about and says, or raises one ticket, *)
(* or commits one call's move.                                              *)
SaysTheSame(a) ==
  /\ alert'[a].state = alert[a].state
  /\ alert'[a].problem = alert[a].problem
  /\ alert'[a].assignee = alert[a].assignee

LEMMA StepByTicket ==
  ASSUME IInv, EvalInv, [Next]_vars
  PROVE  \/ \A a \in Alert : SaysTheSame(a)
         \/ \E a \in Alert : Raised(a)
         \/ \E c \in Client : OthersSame(c) /\ Commits(c)
<1>1. CASE UNCHANGED alert
  BY <1>1 DEF SaysTheSame
<1>2. CASE EvalSuppress
  BY <1>2, SuppressEffect DEF SaysTheSame
<1>3. ASSUME NEW c \in Client, CallStep(c)
      PROVE  UNCHANGED alert \/ (OthersSame(c) /\ Commits(c))
  BY <1>3 DEF CallStep, Arrives, Reads, Loses, Stops, Replies, MovesOn, Returns
<1>4. ASSUME NEW c \in Client, ClientStep(c)
      PROVE  CallStep(c)
  BY <1>4, AcceptWinsCall, AcceptLosesCall, StartOrCloseCall, ResolveCall,
     ReleaseOrRevokeCall, RefuseCall, RequestCall, ClientGoneCall, BeginCall, ReadBackCall,
     FailCall, AuditCall, ReturnCall DEF ClientStep, Serve, TxStep
<1>5. ASSUME NEW a \in Alert, EvalCreate(a)
      PROVE  Raised(a)
  BY <1>5, EvalCreateRaises
<1>6. CASE UNCHANGED vars \/ \E p \in Problem : EvalFinds(p) \/ EvalMisses(p)
  BY <1>1, <1>6 DEF vars, EvalFinds, EvalMisses
<1>7. CASE EvalSkip \/ OtherStep
  BY <1>1, <1>7 DEF EvalSkip, OtherStep, OtherTakes, OtherEnds
<1>8. QED
  BY <1>1, <1>2, <1>3, <1>4, <1>5, <1>6, <1>7 DEF Next, EvalStep

(* The state table, entry by entry.                                         *)
LEMMA TableEntries ==
  ASSUME NEW from, NEW e, NEW to \in NextState(from, e)
  PROVE  \/ from = "open" /\ e = "accept" /\ to = "assigned"
         \/ from = "assigned" /\ e = "start" /\ to = "handling"
         \/ from \in {"assigned", "handling"} /\ e = "release" /\ to = "open"
         \/ from = "handling" /\ e = "resolve" /\ to = "resolved"
         \/ from = "resolved" /\ e = "close" /\ to = "closed"
         \/ from \in {"open", "assigned", "handling"} /\ e = "revoke" /\ to = "revoked"
BY DEF NextState, alertTable, Move

LEMMA RaiseIsAbstract ==
  ASSUME EvalInv, TablesAgree, TablesAgree', NEW a \in Alert, Raised(a)
  PROVE  Lifecycle!Next
<1>1. PICK p \in Problem : p = eval.problem /\ FindActive(p) = {}
  BY DEF Raised, EvalInv
<1>2. /\ alert[a].state = "absent" /\ alert'[a].state = "open" /\ alert'[a].problem = p
      /\ \A b \in Alert : b # a => alert'[b] = alert[b]
  BY <1>1 DEF Raised
<1>3. \A b \in Alert : /\ NamedHolder(b)' = NamedHolder(b)
                       /\ NamedResolver(b)' = NamedResolver(b)
  BY <1>2 DEF NamedHolder, NamedResolver, Claimed
<1>4. \A b \in Alert : /\ HandlerOf(ActiveFor(b))' = HandlerOf(ActiveFor(b))
                       /\ HandlerOf(CompletedFor(b))' = HandlerOf(CompletedFor(b))
  BY <1>3 DEF TablesAgree
<1>5. \A b \in Alert : alert[b].problem = p => alert[b].state \notin {"open", "assigned", "handling"}
  BY <1>1 DEF FindActive, LiveState
<1>6. Lifecycle!Raise(a, p)
  BY <1>2, <1>4, <1>5 DEF Lifecycle!Raise, Lifecycle!Live
<1>7. QED
  BY <1>6 DEF Lifecycle!Next

LEMMA CommitIsAbstract ==
  ASSUME IInv, CallPlaces, TablesAgree, TablesAgree', NEW c \in Client, Commits(c)
  PROVE  Lifecycle!Next
<1> DEFINE e == call[c].event
<1>1. PICK a \in Alert : a = call[c].alert
  BY InTxFacts DEF Commits
<1>2. /\ alert'[a].state \in NextState(alert[a].state, e)
      /\ alert'[a].problem = alert[a].problem
      /\ alert'[a].assignee = IF e = "accept" THEN call[c].handler
                              ELSE IF e \in {"release", "revoke"} THEN None
                              ELSE alert[a].assignee
      /\ \A b \in Alert : b # a => alert'[b] = alert[b]
  BY <1>1 DEF Commits, TicketMoves
<1>3. e = "accept" => call[c].handler \in Handler
  BY DEF Commits, CallPlaces, HandlerEvent
<1> HIDE DEF e
<1>4. \A b \in Alert : b # a => /\ NamedHolder(b)' = NamedHolder(b)
                                /\ NamedResolver(b)' = NamedResolver(b)
  BY <1>2 DEF NamedHolder, NamedResolver, Claimed
<1>5. \A b \in Alert : b # a => /\ HandlerOf(ActiveFor(b))' = HandlerOf(ActiveFor(b))
                                /\ HandlerOf(CompletedFor(b))' = HandlerOf(CompletedFor(b))
  BY <1>4 DEF TablesAgree
<1>6. /\ HandlerOf(ActiveFor(a)) = NamedHolder(a)
      /\ HandlerOf(CompletedFor(a)) = NamedResolver(a)
      /\ HandlerOf(ActiveFor(a))' = NamedHolder(a)'
      /\ HandlerOf(CompletedFor(a))' = NamedResolver(a)'
  BY DEF TablesAgree
<1>7. CASE alert[a].state = "open" /\ e = "accept" /\ alert'[a].state = "assigned"
  <2>1. PICK h \in Handler : h = call[c].handler
    BY <1>3, <1>7
  <2>2. NamedHolder(a)' = h /\ NamedResolver(a)' = NamedResolver(a)
    BY <1>2, <1>7, <2>1 DEF NamedHolder, NamedResolver, Claimed
  <2>3. Lifecycle!Take(a, h)
    BY <1>2, <1>5, <1>6, <1>7, <2>2 DEF Lifecycle!Take
  <2>4. QED
    BY <2>3 DEF Lifecycle!Next
<1>8. CASE alert[a].state = "assigned" /\ e = "start" /\ alert'[a].state = "handling"
  <2>1. NamedHolder(a)' = NamedHolder(a) /\ NamedResolver(a)' = NamedResolver(a)
    BY <1>2, <1>8 DEF NamedHolder, NamedResolver, Claimed
  <2>2. Lifecycle!Start(a)
    BY <1>2, <1>5, <1>6, <1>8, <2>1 DEF Lifecycle!Start
  <2>3. QED
    BY <2>2 DEF Lifecycle!Next
<1>9. CASE /\ alert[a].state \in {"assigned", "handling"} /\ e = "release"
           /\ alert'[a].state = "open"
  <2>1. NamedHolder(a)' = None /\ NamedResolver(a)' = NamedResolver(a)
    BY <1>2, <1>9 DEF NamedHolder, NamedResolver, Claimed
  <2>2. Lifecycle!Release(a)
    BY <1>2, <1>5, <1>6, <1>9, <2>1 DEF Lifecycle!Release
  <2>3. QED
    BY <2>2 DEF Lifecycle!Next
<1>10. CASE alert[a].state = "handling" /\ e = "resolve" /\ alert'[a].state = "resolved"
  <2>1. NamedHolder(a)' = None /\ NamedResolver(a)' = NamedHolder(a)
    BY <1>2, <1>10 DEF NamedHolder, NamedResolver, Claimed
  <2>2. Lifecycle!Resolve(a)
    BY <1>2, <1>5, <1>6, <1>10, <2>1 DEF Lifecycle!Resolve
  <2>3. QED
    BY <2>2 DEF Lifecycle!Next
<1>11. CASE alert[a].state = "resolved" /\ e = "close" /\ alert'[a].state = "closed"
  <2>1. NamedHolder(a)' = NamedHolder(a) /\ NamedResolver(a)' = NamedResolver(a)
    BY <1>2, <1>11 DEF NamedHolder, NamedResolver, Claimed
  <2>2. Lifecycle!Close(a)
    BY <1>2, <1>5, <1>6, <1>11, <2>1 DEF Lifecycle!Close
  <2>3. QED
    BY <2>2 DEF Lifecycle!Next
<1>12. CASE /\ alert[a].state \in {"open", "assigned", "handling"} /\ e = "revoke"
            /\ alert'[a].state = "revoked"
  <2>1. NamedHolder(a)' = None /\ NamedResolver(a)' = NamedResolver(a)
    BY <1>2, <1>12 DEF NamedHolder, NamedResolver, Claimed
  <2>2. Lifecycle!Revoke(a)
    BY <1>2, <1>5, <1>6, <1>12, <2>1 DEF Lifecycle!Revoke, Lifecycle!Live
  <2>3. QED
    BY <2>2 DEF Lifecycle!Next
<1>13. QED
  BY <1>2, <1>7, <1>8, <1>9, <1>10, <1>11, <1>12, TableEntries

(* Every step of the tables, seen through the mapping, is a step of the    *)
(* abstract ticket or none.                                                 *)
LEMMA NextIsAbstract ==
  ASSUME IInv, EvalInv, CallPlaces, TablesAgree, TablesAgree', [Next]_vars
  PROVE  [Lifecycle!Next]_(Lifecycle!vars)
<1>1. CASE \A a \in Alert : SaysTheSame(a)
  <2>1. \A a \in Alert : /\ NamedHolder(a)' = NamedHolder(a)
                         /\ NamedResolver(a)' = NamedResolver(a)
    BY <1>1 DEF SaysTheSame, NamedHolder, NamedResolver, Claimed
  <2>2. \A a \in Alert : /\ HandlerOf(ActiveFor(a))' = HandlerOf(ActiveFor(a))
                         /\ HandlerOf(CompletedFor(a))' = HandlerOf(CompletedFor(a))
    BY <2>1 DEF TablesAgree
  <2>3. UNCHANGED Lifecycle!vars
    BY <1>1, <2>2 DEF SaysTheSame, Lifecycle!vars
  <2>4. QED
    BY <2>3
<1>2. QED
  BY <1>1, StepByTicket, RaiseIsAbstract, CommitIsAbstract

LEMMA InitIsAbstract == Init => Lifecycle!Init
<1> SUFFICES ASSUME Init PROVE Lifecycle!Init
  OBVIOUS
<1>1. \A a \in Alert : alert[a].state = "absent" /\ alert[a].problem = None
  BY DEF Init, NoAlert
<1>2. \A a \in Alert : /\ HandlerOf(ActiveFor(a)) = None
                       /\ HandlerOf(CompletedFor(a)) = None
  BY <1>1, InitIInv, TablesDoAgree DEF TablesAgree, NamedHolder, NamedResolver, Claimed
<1>3. QED
  BY <1>1, <1>2 DEF Lifecycle!Init

(* The two tables, the transactions and the evaluator together implement   *)
(* the ticket of TicketLifecycle, which knows nothing of them.              *)
THEOREM TablesImplementLifecycle == Spec => ImplementsLifecycle
<1>1. Init => Lifecycle!Init
  BY InitIsAbstract
<1>2. (IInv /\ EvalInv /\ CallPlaces) /\ (IInv /\ EvalInv /\ CallPlaces)' /\ [Next]_vars
        => [Lifecycle!Next]_(Lifecycle!vars)
  <2>1. IInv /\ IInv' => TablesAgree /\ TablesAgree'
    BY TablesDoAgree, PTL
  <2>2. QED
    BY <2>1, NextIsAbstract
<1>3. QED
  BY <1>1, <1>2, SpecCallPlaces, PTL DEF Spec, ImplementsLifecycle, Lifecycle!Spec

============================================================================
