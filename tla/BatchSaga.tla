------------------------------ MODULE BatchSaga ------------------------------
(***************************************************************************)
(* Batch operations as sagas (orchestration/batch.go) beside the single    *)
(* updates of the same rows (orchestration/admin.go).                      *)
(*                                                                         *)
(* DisableCollectors and UpdateRules run a list of steps; each step reads  *)
(* a row and writes it back under its version, and the first step that     *)
(* fails has the completed ones compensated in reverse order, each again   *)
(* by a read and a versioned write.  No transaction spans two statements,  *)
(* so that other requests come in between any two of them; a client may    *)
(* disconnect, which cancels the context of all statements still to come,  *)
(* and a single statement may fail.                                        *)
(***************************************************************************)
EXTENDS Integers, SequencesExt

CONSTANTS
  Collector,   \* collector ids, with a row or without
  Rule,        \* rule ids, likewise
  Limit,       \* values of min_value and max_value
  Request,     \* requests that run side by side
  None,
  MaxSteps,    \* bound: steps of all requests together
  MaxTrouble   \* bound: disconnects and failing statements

ASSUME RowAssumption    == Collector \cap Rule = {} /\ None \notin Limit \cup Request
ASSUME NumberAssumption == Limit \subseteq Int /\ {MaxSteps, MaxTrouble} \subseteq Nat

VARIABLES
  row,      \* the tables collectors and rules
  req,      \* the requests
  asked,    \* steps submitted so far
  trouble   \* disconnects and failing statements so far

vars == <<row, req, asked, trouble>>

Row == Collector \cup Rule

(* What a row holds besides its version; an update may empty a status.      *)
Status     == [status : {"active", "disabled", ""}]
Bounds     == [min : Limit, max : Limit]
Content(x) == IF x \in Collector THEN Status ELSE Bounds

Active   == [status |-> "active"]
Disabled == [status |-> "disabled"]

(* No value of a row is the missing one. *)
ASSUME NoneAssumption == None \notin Status \cup Bounds

(* validateRule: the agreed range is not empty. *)
Agreed(bounds) == bounds.min <= bounds.max

Missing == [content |-> None, version |-> 0]
Stored  == [content : Status \cup Bounds, version : Nat \ {0}] \cup {Missing}

(* A step names a row and what to set in it: a batch disables a collector   *)
(* or sets one bound of a rule (a step may set more than one; here that is  *)
(* two steps), the update of one row sets all of it.                        *)
DisableSteps == [id : Collector, set : {Disabled}]
TuneSteps    == [id : Rule, set : [min : Limit, max : {None}] \cup [min : {None}, max : Limit]]
UpdateSteps  == [id : Collector, set : Status] \cup [id : Rule, set : {b \in Bounds : Agreed(b)}]

Batches == [kind : {"disable"}, steps : SeqOf(DisableSteps, MaxSteps) \ {<<>>}]
             \cup [kind : {"tune"}, steps : SeqOf(TuneSteps, MaxSteps) \ {<<>>}]
Updates == [kind : {"update"}, steps : [1..1 -> UpdateSteps]]

Idle == [phase |-> "idle"]

Running == [what   : Batches \cup Updates,
            i      : 0..MaxSteps,   \* the step under way, or being compensated
            phase  : {"get", "write", "reread", "undo", "unwrite", "done", "failed"},
            seen   : Stored,        \* the row as last read
            prev   : [1..MaxSteps -> Status \cup Bounds \cup {None}],
            live   : BOOLEAN,       \* the client is connected
            before : [Row -> Stored],  \* history: the tables at the start
            alone  : BOOLEAN,       \* history: nobody else has written
            stuck  : SUBSET Row]    \* history: rows that an error has kept changed

(* A request that is over has none of its locals. *)
Over == [phase : {"done", "failed"}, alone : BOOLEAN, stuck : SUBSET Row]

Busy(r) == req[r].phase \notin {"idle", "done", "failed"}

TypeOK ==
  /\ \A x \in Row : row[x] \in Stored /\ (row[x] # Missing => row[x].content \in Content(x))
  /\ req \in [Request -> Running \cup Over \cup {Idle}]
  /\ \A r \in Request : Busy(r) => req[r] \in Running
  /\ asked \in 0..MaxSteps
  /\ trouble \in 0..MaxTrouble

Init ==
  /\ \E c \in [Collector -> {Active, Disabled, None}], d \in [Rule -> Bounds \cup {None}] :
       row = [x \in Row |->
                LET content == IF x \in Collector THEN c[x] ELSE d[x]
                IN  IF content = None THEN Missing ELSE [content |-> content, version |-> 1]]
  /\ \A x \in Rule : row[x] # Missing => Agreed(row[x].content)
  /\ req = [r \in Request |-> Idle]
  /\ asked = 0
  /\ trouble = 0

StepOf(r) == req[r].what.steps[req[r].i]

(* Only collectors in the state active feed readings. *)
IsCollecting(content) == content = Active

(* The write of one request disturbs all others. *)
Disturbed(r) == [q \in Request |-> IF q # r /\ Busy(q) THEN [req[q] EXCEPT !.alone = FALSE]
                                   ELSE req[q]]

----------------------------------------------------------------------------
(* Steps. *)

Submit(r, what) ==
  /\ ~Busy(r)
  /\ asked + Len(what.steps) <= MaxSteps
  /\ asked' = asked + Len(what.steps)
  /\ req' = [req EXCEPT ![r] =
       [what |-> what, i |-> 1, phase |-> "get", seen |-> Missing,
        prev |-> [i \in 1..MaxSteps |-> None], live |-> TRUE, before |-> row, alone |-> \A q \in Request : ~Busy(q),
        stuck |-> {}]]
  /\ UNCHANGED <<row, trouble>>

(* What is left of a request by its step. *)
Returned(me) ==
  IF me.phase \in {"done", "failed"}
  THEN [phase |-> me.phase, alone |-> me.alone, stuck |-> me.stuck]
  ELSE me

(* The request after its step is done: the next one, or the end. *)
StepDoneEarly(me) ==
  IF me.i + 1 >= Len(me.what.steps)
  THEN [me EXCEPT !.phase = "done"]
  ELSE [me EXCEPT !.phase = "get", !.i = @ + 1]

StepDone(me) ==
  IF me.i = Len(me.what.steps)
  THEN [me EXCEPT !.phase = "done"]
  ELSE [me EXCEPT !.phase = "get", !.i = @ + 1]

(* RunBatch after a step that failed: the steps before it are compensated, *)
(* the last one first.  A single update just fails.                        *)
StepFailedOneOff(me) ==
  IF me.i <= 2 \/ me.what.kind = "update"
  THEN [me EXCEPT !.phase = "failed"]
  ELSE [me EXCEPT !.phase = "undo", !.i = @ - 2]

StepFailed(me) ==
  IF me.i = 1 \/ me.what.kind = "update"
  THEN [me EXCEPT !.phase = "failed"]
  ELSE [me EXCEPT !.phase = "undo", !.i = @ - 1]

StepUndone(me) ==
  IF me.i = 1
  THEN [me EXCEPT !.phase = "failed"]
  ELSE [me EXCEPT !.phase = "undo", !.i = @ - 1]

(* The read of a step.  A collector that is not collecting is left alone    *)
(* by a batch, and nothing is remembered for it.                            *)
Get(r) ==
  LET me == req[r]
      x  == StepOf(r).id
  IN  /\ me.phase = "get" /\ me.live
      /\ req' = [req EXCEPT ![r] = Returned(
           IF row[x] = Missing THEN StepFailed(me)
           ELSE IF me.what.kind = "disable" /\ ~IsCollecting(row[x].content) THEN StepDone(me)
           ELSE [me EXCEPT !.phase = "write", !.seen = row[x], !.prev[me.i] = row[x].content])]
      /\ UNCHANGED <<row, asked, trouble>>

(* applyRuleUpdate *)
Applied(content, what, set) ==
  IF what.kind = "tune"
  THEN [min |-> IF set.min = None THEN content.min ELSE set.min,
        max |-> IF set.max = None THEN content.max ELSE set.max]
  ELSE set

(* A versioned write: WHERE id = ? AND version = ?, version = version + 1.  *)
Matches(r)              == row[StepOf(r).id] # Missing
                             /\ row[StepOf(r).id].version = req[r].seen.version
NewRowUnversioned(r, content) == [content |-> content, version |-> req[r].seen.version]
NewRow(r, content)            == [content |-> content, version |-> req[r].seen.version + 1]

(* The write of a step.  SetStatus reads the row once more for its result.  *)
Write(r) ==
  LET me == req[r]
      x  == StepOf(r).id
  IN  /\ me.phase = "write" /\ me.live
      /\ IF Matches(r)
         THEN /\ row' = [row EXCEPT ![x] =
                           NewRow(r, Applied(me.seen.content, me.what, StepOf(r).set))]
              /\ req' = [Disturbed(r) EXCEPT ![r] = Returned(
                           IF me.what.kind = "disable" THEN [me EXCEPT !.phase = "reread"]
                           ELSE StepDone(me))]
         ELSE /\ req' = [req EXCEPT ![r] = Returned(StepFailed(me))]
              /\ UNCHANGED row
      /\ UNCHANGED <<asked, trouble>>

Reread(r) ==
  /\ req[r].phase = "reread" /\ req[r].live
  /\ req' = [req EXCEPT ![r] = Returned(StepDone(req[r]))]
  /\ UNCHANGED <<row, asked, trouble>>

(* The read of a compensation: a row that is gone, and a collector that is  *)
(* collecting again, are left alone.                                        *)
UndoGet(r) ==
  LET me == req[r]
      x  == StepOf(r).id
  IN  /\ me.phase = "undo" /\ me.live
      /\ req' = [req EXCEPT ![r] = Returned(
           IF row[x] = Missing \/ IsCollecting(row[x].content)
           THEN StepUndone(me)
           ELSE [me EXCEPT !.phase = "unwrite", !.seen = row[x]])]
      /\ UNCHANGED <<row, asked, trouble>>

(* What a compensation restores: a collector of which nothing is remembered *)
(* becomes active.                                                          *)
RememberedOnly(me) == me.prev[me.i]
Restored(me)       == IF me.prev[me.i] = None THEN Active ELSE me.prev[me.i]

(* The write of a compensation.  If it fails, the error is kept for the log *)
(* and the next compensation runs.                                          *)
UndoWrite(r) ==
  LET me == req[r]
      x  == StepOf(r).id
  IN  /\ me.phase = "unwrite" /\ me.live
      /\ IF Matches(r)
         THEN /\ row' = [row EXCEPT ![x] = NewRow(r, Restored(me))]
              /\ req' = [Disturbed(r) EXCEPT ![r] = Returned(StepUndone(me))]
         ELSE /\ req' = [req EXCEPT ![r] = Returned(StepUndone(me))]
              /\ UNCHANGED row
      /\ UNCHANGED <<asked, trouble>>

(* A statement fails: by an error of its own, or as the client is gone and  *)
(* all that is left fails, the compensations too.  A compensation that      *)
(* cannot read says nothing.  The row of a failed compensation stays        *)
(* changed, and so does that of a write whose second read fails.            *)
Errs(r) ==
  LET me == [req[r] EXCEPT !.stuck = IF req[r].phase \in {"get", "write"} THEN @
                                     ELSE @ \cup {StepOf(r).id}]
  IN  /\ req' = [req EXCEPT ![r] = Returned(
            IF me.phase \in {"undo", "unwrite"} THEN StepUndone(me) ELSE StepFailed(me))]
      /\ UNCHANGED <<row, asked>>

StatementErrs(r) ==
  /\ Busy(r) /\ req[r].live
  /\ trouble < MaxTrouble
  /\ trouble' = trouble + 1
  /\ Errs(r)

CancelledErrs(r) ==
  /\ Busy(r) /\ ~req[r].live
  /\ Errs(r)
  /\ UNCHANGED trouble

Disconnect(r) ==
  /\ Busy(r)
  /\ req[r].live
  /\ trouble < MaxTrouble
  /\ trouble' = trouble + 1
  /\ req' = [req EXCEPT ![r].live = FALSE]
  /\ UNCHANGED <<row, asked>>

(* DELETE of a rule, under the version the client has seen.                 *)
DeleteRule(x) ==
  /\ row[x] # Missing
  /\ asked < MaxSteps
  /\ asked' = asked + 1
  /\ row' = [row EXCEPT ![x] = Missing]
  /\ req' = Disturbed(None)
  /\ UNCHANGED trouble

----------------------------------------------------------------------------
RequestStep(r) ==
  \/ Get(r)
  \/ Write(r)
  \/ Reread(r)
  \/ UndoGet(r)
  \/ UndoWrite(r)
  \/ StatementErrs(r)
  \/ CancelledErrs(r)

Next ==
  \/ \E r \in Request : RequestStep(r) \/ Disconnect(r)
  \/ \E r \in Request : \E what \in Batches \cup Updates : Submit(r, what)
  \/ \E x \in Rule : DeleteRule(x)

Spec == Init /\ [][Next]_vars

----------------------------------------------------------------------------
(* Safety. *)

(* A version stands for the whole row: when the WHERE clause of a write     *)
(* matches, the row is still the one the request has read, whoever wrote or *)
(* compensated in between, so that no update of another request is lost.    *)
ReadStandsForRow ==
  \A r \in Request :
    req[r].phase \in {"write", "unwrite"} /\ Matches(r) => row[StepOf(r).id] = req[r].seen

Ends(r, phase) == Busy(r) /\ req'[r].phase = phase /\ req'[r].alone

Restores(r, rows) == \A x \in rows : row'[x].content = req[r].before[x].content

(* A batch that fails while nobody else writes, connected or not, puts back *)
(* every row, also a rule that several of its steps have changed; but for   *)
(* the rows whose own compensation, or whose second read, failed.  This is  *)
(* for batches whose collectors were all collecting.                        *)
FailedBatchRestores ==
  [][\A r \in Request :
       /\ Ends(r, "failed")
       /\ \A i \in DOMAIN req[r].what.steps :
            req[r].what.kind = "disable" =>
              req[r].before[req[r].what.steps[i].id].content \in {Active, None}
       => Restores(r, Row \ req'[r].stuck)]_vars

(* What the steps of a batch, one after another, make of a row. *)
AfterStep(x, content, what, step) ==
  IF step.id # x \/ content = None \/ (what.kind = "disable" /\ ~IsCollecting(content))
  THEN content
  ELSE Applied(content, what, step.set)

Outcome(x, content, what) ==
  LET made[n \in 0..Len(what.steps)] ==
        IF n = 0 THEN content ELSE AfterStep(x, made[n - 1], what, what.steps[n])
  IN  made[Len(what.steps)]

(* A batch that succeeds while nobody else writes has done all its steps,   *)
(* and nothing else.                                                        *)
SuccessIsComplete ==
  [][\A r \in Request :
       Ends(r, "done") =>
         \A x \in Row : row'[x].content = Outcome(x, req[r].before[x].content, req[r].what)]_vars

----------------------------------------------------------------------------
(* A statement of the sources that the code does not keep. *)

(* "the completed steps are rolled back in reverse so the batch is          *)
(* all-or-nothing" (orchestration/batch.go:14), whatever the collectors     *)
(* were before.  The code does not keep it when a collector was disabled    *)
(* before, nor when the client disconnects: the compensations run under the *)
(* request's context and fail with it.                                      *)
AllOrNothing ==
  [][\A r \in Request : Ends(r, "failed") => Restores(r, Row)]_vars

============================================================================
