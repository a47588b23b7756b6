--------------------------- MODULE BatchSagaProofs ---------------------------
(***************************************************************************)
(* Proofs about BatchSaga for any collectors, rules, limits and requests,  *)
(* and for batches of any length.                                           *)
(***************************************************************************)
EXTENDS BatchSaga, WellFoundedInduction, TLAPS

IdOf(me) == me.what.steps[me.i].id

(* The steps that have been begun, and those that have been done and not   *)
(* been compensated.                                                        *)
Begun(me) == IF me.phase = "get" THEN me.i - 1 ELSE me.i
Done(me)  == IF me.phase = "failed" THEN 0
             ELSE IF me.phase \in {"get", "write"} THEN me.i - 1 ELSE me.i

(* A request under way: what it remembers fits the rows that its steps     *)
(* name, and only a batch compensates.                                      *)
Shape(me) ==
  /\ me \in Running
  /\ me.i \in 1..Len(me.what.steps) /\ Len(me.what.steps) <= MaxSteps
  /\ me.phase \in {"undo", "unwrite", "reread"} => me.what.kind # "update"
  /\ me.phase \in {"write", "unwrite"} =>
       me.seen # Missing /\ me.seen.content \in Content(IdOf(me))
  /\ me.what.kind = "tune" => \A j \in 1..Begun(me) : me.prev[j] \in Bounds
  /\ me.what.kind = "disable" => \A j \in 1..MaxSteps : me.prev[j] \in Status \cup {None}

(* The row that a request has read, if it is still there, is the same or   *)
(* has a later version.                                                     *)
Fresh(me, w) ==
  me.phase \in {"write", "unwrite"} =>
    \/ w[IdOf(me)] = Missing
    \/ w[IdOf(me)] = me.seen
    \/ w[IdOf(me)].version > me.seen.version

Rows(w) == w \in [Row -> Stored] /\ \A x \in Row : w[x] # Missing => w[x].content \in Content(x)

(* The inductive invariant of types and versions. *)
TInv ==
  /\ Rows(row)
  /\ req \in [Request -> Running \cup Over \cup {Idle}]
  /\ asked \in 0..MaxSteps
  /\ trouble \in 0..MaxTrouble
  /\ \A r \in Request : Busy(r) => Shape(req[r]) /\ Fresh(req[r], row)

----------------------------------------------------------------------------
(* The inputs. *)

(* A request has at least one step; a step of a batch names a row of the   *)
(* batch's kind, the step of an update sets what the row can hold.          *)
LEMMA StepTypes ==
  ASSUME NEW what \in Batches \cup Updates
  PROVE  /\ what.kind \in {"disable", "tune", "update"}
         /\ Len(what.steps) \in Nat \ {0}
         /\ DOMAIN what.steps = 1..Len(what.steps)
         /\ what.kind = "update" => Len(what.steps) = 1
         /\ \A j \in 1..Len(what.steps) :
              LET s == what.steps[j]
              IN  /\ s.id \in Row
                  /\ what.kind = "disable" => s.id \in Collector /\ s.set = Disabled
                  /\ what.kind = "tune" =>
                       s.id \in Rule /\ s.set.min \in Limit \cup {None}
                                     /\ s.set.max \in Limit \cup {None}
                  /\ what.kind = "update" => s.set \in Content(s.id)
<1>1. CASE what \in [kind : {"disable"}, steps : SeqOf(DisableSteps, MaxSteps) \ {<<>>}]
  <2>1. PICK n \in 0..MaxSteps : what.steps \in [1..n -> DisableSteps]
    BY <1>1 DEF SeqOf
  <2>2. n # 0
    <3>1. ASSUME n = 0 PROVE what.steps = <<>>
      BY <2>1, <3>1
    <3>2. QED
      BY <1>1, <3>1
  <2>3. Len(what.steps) = n /\ DOMAIN what.steps = 1..n
    BY <2>1
  <2>4. \A j \in 1..n : what.steps[j].id \in Collector /\ what.steps[j].set = Disabled
    BY <2>1 DEF DisableSteps
  <2>5. QED
    BY <1>1, <2>2, <2>3, <2>4, NumberAssumption DEF Row
<1>2. CASE what \in [kind : {"tune"}, steps : SeqOf(TuneSteps, MaxSteps) \ {<<>>}]
  <2>1. PICK n \in 0..MaxSteps : what.steps \in [1..n -> TuneSteps]
    BY <1>2 DEF SeqOf
  <2>2. n # 0
    <3>1. ASSUME n = 0 PROVE what.steps = <<>>
      BY <2>1, <3>1
    <3>2. QED
      BY <1>2, <3>1
  <2>3. Len(what.steps) = n /\ DOMAIN what.steps = 1..n
    BY <2>1
  <2>4. \A j \in 1..n : /\ what.steps[j].id \in Rule
                        /\ what.steps[j].set.min \in Limit \cup {None}
                        /\ what.steps[j].set.max \in Limit \cup {None}
    BY <2>1 DEF TuneSteps
  <2>5. QED
    BY <1>2, <2>2, <2>3, <2>4, NumberAssumption DEF Row
<1>3. CASE what \in Updates
  <2>1. what.steps \in [1..1 -> UpdateSteps] /\ what.kind = "update"
    BY <1>3 DEF Updates
  <2>2. Len(what.steps) = 1 /\ DOMAIN what.steps = 1..1
    BY <2>1
  <2>3. what.steps[1] \in UpdateSteps
    BY <2>1
  <2>4. what.steps[1].id \in Row /\ what.steps[1].set \in Content(what.steps[1].id)
    BY <2>3, RowAssumption DEF UpdateSteps, Row, Content
  <2>5. QED
    BY <2>1, <2>2, <2>4
<1>4. QED
  BY <1>1, <1>2, <1>3 DEF Batches

(* The two kinds of rows never hold the same. *)
LEMMA BoundsNotActive == ASSUME NEW b \in Bounds PROVE ~IsCollecting(b)
<1>1. DOMAIN b = {"min", "max"} /\ DOMAIN Active = {"status"}
  BY DEF Bounds, Active
<1>2. QED
  BY <1>1 DEF IsCollecting

LEMMA StoredFacts ==
  ASSUME NEW s \in Stored, s # Missing
  PROVE  s.version \in Nat \ {0} /\ s.content \in Status \cup Bounds
BY DEF Stored

LEMMA NewRowStored ==
  ASSUME NEW x \in Row, NEW c \in Content(x), NEW v \in Nat
  PROVE  /\ [content |-> c, version |-> v + 1] \in Stored
         /\ [content |-> c, version |-> v + 1] # Missing
BY DEF Stored, Missing, Content

----------------------------------------------------------------------------
(* What one step does to its request: me becomes k, before k returns if it *)
(* is over; the rows w become v.                                            *)

Goes(k, me, phase, i) == k.phase = phase /\ k.i = i
SameNotes(k, me) == k.prev = me.prev /\ k.stuck = me.stuck
AfterDone(k, me) ==
  IF me.i = Len(me.what.steps) THEN Goes(k, me, "done", me.i) ELSE Goes(k, me, "get", me.i + 1)
AfterFailed(k, me) ==
  IF me.i = 1 \/ me.what.kind = "update" THEN Goes(k, me, "failed", me.i)
                                         ELSE Goes(k, me, "undo", me.i - 1)
AfterUndone(k, me) ==
  IF me.i = 1 THEN Goes(k, me, "failed", me.i) ELSE Goes(k, me, "undo", me.i - 1)

WriteMatches(me, w) == w[IdOf(me)] # Missing /\ w[IdOf(me)].version = me.seen.version
Puts(me, w, v, c) ==
  /\ WriteMatches(me, w)
  /\ v = [w EXCEPT ![IdOf(me)] = [content |-> c, version |-> me.seen.version + 1]]

Skips(k, me, w) ==
  /\ me.phase = "get" /\ SameNotes(k, me) /\ AfterDone(k, me)
  /\ w[IdOf(me)] # Missing /\ me.what.kind = "disable" /\ ~IsCollecting(w[IdOf(me)].content)
Finds(k, me, w) ==
  /\ me.phase = "get" /\ Goes(k, me, "write", me.i)
  /\ w[IdOf(me)] # Missing /\ k.seen = w[IdOf(me)]
  /\ me.what.kind = "disable" => IsCollecting(w[IdOf(me)].content)
  /\ k.prev = [me.prev EXCEPT ![me.i] = w[IdOf(me)].content] /\ k.stuck = me.stuck
Writes(k, me, w, v) ==
  /\ me.phase = "write" /\ SameNotes(k, me)
  /\ Puts(me, w, v, Applied(me.seen.content, me.what, me.what.steps[me.i].set))
  /\ IF me.what.kind = "disable" THEN Goes(k, me, "reread", me.i) ELSE AfterDone(k, me)
Rereads(k, me) == me.phase = "reread" /\ SameNotes(k, me) /\ AfterDone(k, me)
Fails(k, me) ==
  /\ me.phase \in {"get", "write", "reread"} /\ k.prev = me.prev /\ AfterFailed(k, me)
  /\ k.stuck = IF me.phase = "reread" THEN me.stuck \cup {IdOf(me)} ELSE me.stuck
UndoSkips(k, me, w) ==
  /\ me.phase = "undo" /\ SameNotes(k, me) /\ AfterUndone(k, me)
  /\ w[IdOf(me)] = Missing \/ IsCollecting(w[IdOf(me)].content)
UndoFinds(k, me, w) ==
  /\ me.phase = "undo" /\ SameNotes(k, me) /\ Goes(k, me, "unwrite", me.i)
  /\ w[IdOf(me)] # Missing /\ k.seen = w[IdOf(me)]
UndoWrites(k, me, w, v) ==
  /\ me.phase = "unwrite" /\ SameNotes(k, me) /\ AfterUndone(k, me)
  /\ Puts(me, w, v, Restored(me))
UndoFails(k, me, w) ==
  /\ me.phase \in {"undo", "unwrite"} /\ k.prev = me.prev /\ AfterUndone(k, me)
  /\ \/ k.stuck = me.stuck \cup {IdOf(me)}
     \/ k.stuck = me.stuck /\ me.phase = "unwrite" /\ ~WriteMatches(me, w)

Step(k, me, w, v) ==
  \/ v = w /\ Skips(k, me, w)
  \/ v = w /\ Finds(k, me, w)
  \/ Writes(k, me, w, v)
  \/ v = w /\ Rereads(k, me)
  \/ v = w /\ Fails(k, me)
  \/ v = w /\ UndoSkips(k, me, w)
  \/ v = w /\ UndoFinds(k, me, w)
  \/ UndoWrites(k, me, w, v)
  \/ v = w /\ UndoFails(k, me, w)

(* The request stays the same request. *)
Continues(k, me) ==
  /\ k \in Running
  /\ k.what = me.what /\ k.before = me.before
  /\ k.alone => me.alone

(* The other requests stay as they are, or lose their claim to have been    *)
(* alone; they lose it when a row has changed.                              *)
OthersSee(r) ==
  \A q \in Request : q # r =>
    \/ req'[q] = req[q] /\ (row' = row \/ ~Busy(q))
    \/ Busy(q) /\ req'[q] = [req[q] EXCEPT !.alone = FALSE]

RequestMoves(r) ==
  /\ UNCHANGED asked /\ trouble' \in 0..MaxTrouble
  /\ OthersSee(r)
  /\ \E k : /\ Continues(k, req[r]) /\ Step(k, req[r], row, row')
            /\ req'[r] = Returned(k)

LEMMA ReturnedIs ==
  ASSUME NEW k \in Running
  PROVE  /\ Returned(k).phase = k.phase /\ Returned(k).alone = k.alone
         /\ Returned(k).stuck = k.stuck
         /\ IF k.phase \in {"done", "failed"} THEN Returned(k) \in Over ELSE Returned(k) = k
BY DEF Returned, Over, Running

LEMMA BusyFacts ==
  ASSUME TInv, NEW r \in Request, Busy(r)
  PROVE  /\ Shape(req[r]) /\ Fresh(req[r], row) /\ req[r] \in Running
         /\ req[r].what \in Batches \cup Updates
         /\ req[r].i \in 1..Len(req[r].what.steps) /\ req[r].i \in 1..MaxSteps
         /\ Len(req[r].what.steps) \in 1..MaxSteps
         /\ IdOf(req[r]) \in Row
         /\ req[r].prev \in [1..MaxSteps -> Status \cup Bounds \cup {None}]
         /\ req[r].before \in [Row -> Stored]
<1>1. Shape(req[r]) /\ Fresh(req[r], row)
  BY DEF TInv
<1>2. /\ req[r] \in Running /\ req[r].i \in 1..Len(req[r].what.steps)
      /\ req[r].what \in Batches \cup Updates /\ req[r].i \in 0..MaxSteps
      /\ req[r].prev \in [1..MaxSteps -> Status \cup Bounds \cup {None}]
      /\ req[r].before \in [Row -> Stored]
  BY <1>1 DEF Shape, Running
<1>3. /\ IdOf(req[r]) \in Row /\ req[r].i \in 1..MaxSteps
      /\ Len(req[r].what.steps) \in 1..MaxSteps
  BY <1>1, <1>2, StepTypes, NumberAssumption DEF IdOf, Shape
<1>4. QED
  BY <1>1, <1>2, <1>3

(* A request that moves to another phase or step, and nothing else. *)
Ended(k, me) ==
  /\ k \in Running /\ k.prev = me.prev /\ k.what = me.what
  /\ k.before = me.before /\ k.alone = me.alone /\ k.stuck = me.stuck

LEMMA MovedRequest ==
  ASSUME NEW me \in Running, NEW i \in 0..MaxSteps,
         NEW p \in {"get", "write", "reread", "undo", "unwrite", "done", "failed"}
  PROVE  /\ Ended([me EXCEPT !.phase = p, !.i = i], me)
         /\ Goes([me EXCEPT !.phase = p, !.i = i], me, p, i)
<1> DEFINE k == [me EXCEPT !.phase = p, !.i = i]
<1>1. k \in Running
  BY Zenon DEF Running
<1>2. /\ k.phase = p /\ k.i = i /\ k.prev = me.prev
      /\ k.what = me.what /\ k.before = me.before /\ k.alone = me.alone /\ k.stuck = me.stuck
  BY DEF Running
<1> HIDE DEF k
<1>3. Ended(k, me) /\ Goes(k, me, p, i)
  BY <1>1, <1>2 DEF Ended, Goes
<1>4. QED
  BY <1>3 DEF k

LEMMA RephasedRequest ==
  ASSUME NEW me \in Running,
         NEW p \in {"get", "write", "reread", "undo", "unwrite", "done", "failed"}
  PROVE  /\ Ended([me EXCEPT !.phase = p], me)
         /\ Goes([me EXCEPT !.phase = p], me, p, me.i)
<1> DEFINE k == [me EXCEPT !.phase = p]
<1>1. k \in Running
  BY Zenon DEF Running
<1>2. /\ k.phase = p /\ k.i = me.i /\ k.prev = me.prev
      /\ k.what = me.what /\ k.before = me.before /\ k.alone = me.alone /\ k.stuck = me.stuck
  BY DEF Running
<1> HIDE DEF k
<1>3. Ended(k, me) /\ Goes(k, me, p, me.i)
  BY <1>1, <1>2 DEF Ended, Goes
<1>4. QED
  BY <1>3 DEF k

(* StepDone, StepFailed and StepUndone. *)
LEMMA EndOfStep ==
  ASSUME NEW me \in Running, me.i \in 1..Len(me.what.steps),
         Len(me.what.steps) \in 1..MaxSteps
  PROVE  /\ Ended(StepDone(me), me) /\ AfterDone(StepDone(me), me)
         /\ Ended(StepFailed(me), me) /\ AfterFailed(StepFailed(me), me)
         /\ Ended(StepUndone(me), me) /\ AfterUndone(StepUndone(me), me)
<1>1. ASSUME NEW p \in {"done", "failed"}
      PROVE  Ended([me EXCEPT !.phase = p], me) /\ Goes([me EXCEPT !.phase = p], me, p, me.i)
  BY RephasedRequest
<1>2. ASSUME NEW p \in {"get", "undo"}, NEW i \in 0..MaxSteps
      PROVE  /\ Ended([me EXCEPT !.phase = p, !.i = i], me)
             /\ Goes([me EXCEPT !.phase = p, !.i = i], me, p, i)
  BY MovedRequest
<1>3. Ended(StepDone(me), me) /\ AfterDone(StepDone(me), me)
  <2>1. CASE me.i = Len(me.what.steps)
    BY <1>1, <2>1 DEF StepDone, AfterDone
  <2>2. CASE me.i # Len(me.what.steps)
    <3>1. me.i + 1 \in 0..MaxSteps
      BY <2>2, NumberAssumption
    <3>2. QED
      BY <1>2, <2>2, <3>1 DEF StepDone, AfterDone
  <2>3. QED
    BY <2>1, <2>2
<1>4. me.i # 1 => me.i - 1 \in 0..MaxSteps
  BY NumberAssumption
<1>5. Ended(StepFailed(me), me) /\ AfterFailed(StepFailed(me), me)
  BY <1>1, <1>2, <1>4 DEF StepFailed, AfterFailed
<1>6. Ended(StepUndone(me), me) /\ AfterUndone(StepUndone(me), me)
  BY <1>1, <1>2, <1>4 DEF StepUndone, AfterUndone
<1>7. QED
  BY <1>3, <1>5, <1>6

(* The steps that concern one request only. *)
LEMMA OnlyThisOne ==
  ASSUME TInv, NEW r \in Request, Busy(r), NEW k, req' = [req EXCEPT ![r] = Returned(k)],
         UNCHANGED <<row, asked>>, trouble' \in 0..MaxTrouble,
         Continues(k, req[r]), Step(k, req[r], row, row)
  PROVE  RequestMoves(r)
<1>1. req'[r] = Returned(k) /\ \A q \in Request : q # r => req'[q] = req[q]
  BY DEF TInv
<1>2. QED
  BY <1>1 DEF RequestMoves, OthersSee

LEMMA GetMoves ==
  ASSUME TInv, NEW r \in Request, Get(r)
  PROVE  RequestMoves(r)
<1> DEFINE me == req[r]
<1> DEFINE x == IdOf(me)
<1> DEFINE k == IF row[x] = Missing THEN StepFailed(me)
                ELSE IF me.what.kind = "disable" /\ ~IsCollecting(row[x].content) THEN StepDone(me)
                ELSE [me EXCEPT !.phase = "write", !.seen = row[x],
                                !.prev[me.i] = row[x].content]
<1>1. Busy(r) /\ me.phase = "get"
  BY DEF Get, Busy
<1>2. /\ me \in Running /\ me.i \in 1..Len(me.what.steps) /\ me.i \in 1..MaxSteps
      /\ Len(me.what.steps) \in 1..MaxSteps /\ x \in Row
      /\ me.prev \in [1..MaxSteps -> Status \cup Bounds \cup {None}]
  BY <1>1, BusyFacts
<1>3. /\ req' = [req EXCEPT ![r] = Returned(k)] /\ UNCHANGED <<row, asked, trouble>>
      /\ trouble' \in 0..MaxTrouble
  BY DEF Get, StepOf, IdOf, TInv
<1>4. CASE row[x] = Missing
  <2>1. k = StepFailed(me)
    BY <1>4
  <2>2. Ended(k, me) /\ AfterFailed(k, me)
    BY <1>2, <2>1, EndOfStep
  <2> HIDE DEF k, x
  <2>3. Continues(k, me) /\ Fails(k, me)
    BY <1>1, <2>2 DEF Continues, Fails, Ended
  <2>4. QED
    BY <1>1, <1>3, <2>3, OnlyThisOne DEF Step
<1>5. CASE /\ row[x] # Missing
           /\ me.what.kind = "disable" /\ ~IsCollecting(row[x].content)
  <2>1. k = StepDone(me)
    BY <1>5
  <2>2. Continues(k, me) /\ Skips(k, me, row)
    BY <1>1, <1>2, <1>5, <2>1, EndOfStep DEF Continues, Skips, SameNotes, Ended
  <2> HIDE DEF k, x
  <2>3. QED
    BY <1>1, <1>3, <2>2, OnlyThisOne DEF Step
<1>6. CASE /\ row[x] # Missing
           /\ ~(me.what.kind = "disable" /\ ~IsCollecting(row[x].content))
  <2> DEFINE prev == [me.prev EXCEPT ![me.i] = row[x].content]
  <2>1. row[x] \in Stored /\ row[x].content \in Status \cup Bounds
    BY <1>2, <1>6, StoredFacts DEF TInv, Rows
  <2>2. prev \in [1..MaxSteps -> Status \cup Bounds \cup {None}]
    BY <1>2, <2>1
  <2>3. k = [me EXCEPT !.phase = "write", !.seen = row[x], !.prev = prev]
    BY <1>2, <1>6 DEF Running
  <2>4. /\ k.phase = "write" /\ k.seen = row[x] /\ k.prev = prev /\ k.i = me.i
        /\ k.what = me.what /\ k.before = me.before /\ k.alone = me.alone
        /\ k.stuck = me.stuck
    BY <1>2, <2>3 DEF Running
  <2> HIDE DEF prev, k
  <2>5. k \in Running
    BY <1>2, <2>1, <2>2, <2>3, Zenon DEF Running
  <2>6. Continues(k, me) /\ Finds(k, me, row)
    BY <1>1, <1>6, <2>4, <2>5 DEF Continues, Finds, SameNotes, Goes, prev
  <2> HIDE DEF x
  <2>7. QED
    BY <1>1, <1>3, <2>6, OnlyThisOne DEF Step
<1>7. QED
  BY <1>4, <1>5, <1>6

(* A write of a request disturbs the others that are under way. *)
LEMMA WritingOne ==
  ASSUME TInv, NEW r \in Request, Busy(r), NEW k,
         req' = [Disturbed(r) EXCEPT ![r] = Returned(k)],
         UNCHANGED asked, trouble' \in 0..MaxTrouble,
         Continues(k, req[r]), Step(k, req[r], row, row')
  PROVE  RequestMoves(r)
<1>1. req'[r] = Returned(k)
  BY DEF TInv, Disturbed
<1>2. \A q \in Request : q # r =>
        req'[q] = IF Busy(q) THEN [req[q] EXCEPT !.alone = FALSE] ELSE req[q]
  BY DEF TInv, Disturbed
<1>3. OthersSee(r)
  BY <1>2 DEF OthersSee
<1>4. QED
  BY <1>1, <1>3 DEF RequestMoves

LEMMA MatchesIs ==
  ASSUME NEW r \in Request
  PROVE  Matches(r) <=> WriteMatches(req[r], row)
BY DEF Matches, WriteMatches, StepOf, IdOf

LEMMA WriteMoves ==
  ASSUME TInv, NEW r \in Request, Write(r)
  PROVE  RequestMoves(r)
<1> DEFINE me == req[r]
<1> DEFINE c == Applied(me.seen.content, me.what, me.what.steps[me.i].set)
<1>1. Busy(r) /\ me.phase = "write"
  BY DEF Write, Busy
<1>2. /\ me \in Running /\ me.i \in 1..Len(me.what.steps)
      /\ Len(me.what.steps) \in 1..MaxSteps
  BY <1>1, BusyFacts
<1>3. UNCHANGED <<asked, trouble>> /\ trouble' \in 0..MaxTrouble
  BY DEF Write, TInv
<1>4. CASE Matches(r)
  <2> DEFINE k == IF me.what.kind = "disable" THEN [me EXCEPT !.phase = "reread"]
                  ELSE StepDone(me)
  <2>1. /\ req' = [Disturbed(r) EXCEPT ![r] = Returned(k)]
        /\ Puts(me, row, row', c)
    BY <1>4, MatchesIs DEF Write, NewRow, StepOf, IdOf, Puts
  <2>2. CASE me.what.kind = "disable"
    <3>1. Ended(k, me) /\ Goes(k, me, "reread", me.i)
      BY <1>2, <2>2, RephasedRequest
    <3> HIDE DEF k
    <3>2. Continues(k, me) /\ Writes(k, me, row, row')
      BY <1>1, <2>1, <2>2, <3>1 DEF Continues, Writes, SameNotes, Ended
    <3>3. QED
      BY <1>1, <1>3, <2>1, <3>2, WritingOne DEF Step
  <2>3. CASE me.what.kind # "disable"
    <3>1. Ended(k, me) /\ AfterDone(k, me)
      BY <1>2, <2>3, EndOfStep
    <3> HIDE DEF k
    <3>2. Continues(k, me) /\ Writes(k, me, row, row')
      BY <1>1, <2>1, <2>3, <3>1 DEF Continues, Writes, SameNotes, Ended
    <3>3. QED
      BY <1>1, <1>3, <2>1, <3>2, WritingOne DEF Step
  <2>4. QED
    BY <2>2, <2>3
<1>5. CASE ~Matches(r)
  <2>1. req' = [req EXCEPT ![r] = Returned(StepFailed(me))] /\ UNCHANGED row
    BY <1>5 DEF Write
  <2>2. Continues(StepFailed(me), me) /\ Fails(StepFailed(me), me)
    BY <1>1, <1>2, EndOfStep DEF Continues, Fails, Ended
  <2>3. QED
    BY <1>1, <1>3, <2>1, <2>2, OnlyThisOne DEF Step
<1>6. QED
  BY <1>4, <1>5

LEMMA RereadMoves ==
  ASSUME TInv, NEW r \in Request, Reread(r)
  PROVE  RequestMoves(r)
<1> DEFINE me == req[r]
<1>1. Busy(r) /\ me.phase = "reread"
  BY DEF Reread, Busy
<1>2. /\ me \in Running /\ me.i \in 1..Len(me.what.steps)
      /\ Len(me.what.steps) \in 1..MaxSteps
  BY <1>1, BusyFacts
<1>3. /\ req' = [req EXCEPT ![r] = Returned(StepDone(me))] /\ UNCHANGED <<row, asked, trouble>>
      /\ trouble' \in 0..MaxTrouble
  BY DEF Reread, TInv
<1>4. Continues(StepDone(me), me) /\ Rereads(StepDone(me), me)
  BY <1>1, <1>2, EndOfStep DEF Continues, Rereads, SameNotes, Ended
<1>5. QED
  BY <1>1, <1>3, <1>4, OnlyThisOne DEF Step

LEMMA UndoGetMoves ==
  ASSUME TInv, NEW r \in Request, UndoGet(r)
  PROVE  RequestMoves(r)
<1> DEFINE me == req[r]
<1> DEFINE x == IdOf(me)
<1> DEFINE k == IF row[x] = Missing \/ IsCollecting(row[x].content)
                THEN StepUndone(me)
                ELSE [me EXCEPT !.phase = "unwrite", !.seen = row[x]]
<1>1. Busy(r) /\ me.phase = "undo"
  BY DEF UndoGet, Busy
<1>2. /\ me \in Running /\ me.i \in 1..Len(me.what.steps)
      /\ Len(me.what.steps) \in 1..MaxSteps /\ x \in Row
  BY <1>1, BusyFacts
<1>3. /\ req' = [req EXCEPT ![r] = Returned(k)] /\ UNCHANGED <<row, asked, trouble>>
      /\ trouble' \in 0..MaxTrouble
  BY DEF UndoGet, StepOf, IdOf, TInv
<1>4. CASE row[x] = Missing \/ IsCollecting(row[x].content)
  <2>1. k = StepUndone(me)
    BY <1>4
  <2>2. Continues(k, me) /\ UndoSkips(k, me, row)
    BY <1>1, <1>2, <1>4, <2>1, EndOfStep DEF Continues, UndoSkips, SameNotes, Ended
  <2> HIDE DEF k, x
  <2>3. QED
    BY <1>1, <1>3, <2>2, OnlyThisOne DEF Step
<1>5. CASE ~(row[x] = Missing \/ IsCollecting(row[x].content))
  <2>1. row[x] \in Stored
    BY <1>2 DEF TInv, Rows
  <2>2. k = [me EXCEPT !.phase = "unwrite", !.seen = row[x]]
    BY <1>5
  <2>3. /\ k.phase = "unwrite" /\ k.seen = row[x] /\ k.prev = me.prev /\ k.i = me.i
        /\ k.what = me.what /\ k.before = me.before /\ k.alone = me.alone
        /\ k.stuck = me.stuck
    BY <1>2, <2>2 DEF Running
  <2> HIDE DEF k
  <2>4. k \in Running
    BY <1>2, <2>1, <2>2, Zenon DEF Running
  <2>5. Continues(k, me) /\ UndoFinds(k, me, row)
    BY <1>1, <1>5, <2>3, <2>4 DEF Continues, UndoFinds, SameNotes, Goes
  <2> HIDE DEF x
  <2>6. QED
    BY <1>1, <1>3, <2>5, OnlyThisOne DEF Step
<1>6. QED
  BY <1>4, <1>5

LEMMA UndoWriteMoves ==
  ASSUME TInv, NEW r \in Request, UndoWrite(r)
  PROVE  RequestMoves(r)
<1> DEFINE me == req[r]
<1>1. Busy(r) /\ me.phase = "unwrite"
  BY DEF UndoWrite, Busy
<1>2. /\ me \in Running /\ me.i \in 1..Len(me.what.steps)
      /\ Len(me.what.steps) \in 1..MaxSteps
  BY <1>1, BusyFacts
<1>3. UNCHANGED <<asked, trouble>> /\ trouble' \in 0..MaxTrouble
  BY DEF UndoWrite, TInv
<1>4. CASE Matches(r)
  <2>1. /\ req' = [Disturbed(r) EXCEPT ![r] = Returned(StepUndone(me))]
        /\ Puts(me, row, row', Restored(me))
    BY <1>4, MatchesIs DEF UndoWrite, NewRow, StepOf, IdOf, Puts
  <2>2. Continues(StepUndone(me), me) /\ UndoWrites(StepUndone(me), me, row, row')
    BY <1>1, <1>2, <2>1, EndOfStep DEF Continues, UndoWrites, SameNotes, Ended
  <2>3. QED
    BY <1>1, <1>3, <2>1, <2>2, WritingOne DEF Step
<1>5. CASE ~Matches(r)
  <2>1. req' = [req EXCEPT ![r] = Returned(StepUndone(me))] /\ UNCHANGED row
    BY <1>5 DEF UndoWrite
  <2>2. Continues(StepUndone(me), me) /\ UndoFails(StepUndone(me), me, row)
    BY <1>1, <1>2, <1>5, MatchesIs, EndOfStep DEF Continues, UndoFails, Ended
  <2>3. QED
    BY <1>1, <1>3, <2>1, <2>2, OnlyThisOne DEF Step
<1>6. QED
  BY <1>4, <1>5

LEMMA ErrsMoves ==
  ASSUME TInv, NEW r \in Request, Busy(r), Errs(r), trouble' \in 0..MaxTrouble
  PROVE  RequestMoves(r)
<1> DEFINE b == IF req[r].phase \in {"get", "write"} THEN req[r].stuck
                ELSE req[r].stuck \cup {IdOf(req[r])}
<1> DEFINE me == [req[r] EXCEPT !.stuck = b]
<1> DEFINE k == IF me.phase \in {"undo", "unwrite"} THEN StepUndone(me) ELSE StepFailed(me)
<1>1. /\ req[r] \in Running /\ req[r].i \in 1..Len(req[r].what.steps)
      /\ Len(req[r].what.steps) \in 1..MaxSteps
      /\ req[r].phase \in {"get", "write", "reread", "undo", "unwrite"} /\ IdOf(req[r]) \in Row
  BY BusyFacts DEF Running, Busy
<1>2. req' = [req EXCEPT ![r] = Returned(k)] /\ UNCHANGED <<row, asked>>
  BY DEF Errs, TInv, StepOf, IdOf
<1>3. /\ b \in SUBSET Row
      /\ b = IF req[r].phase \in {"get", "write"} THEN req[r].stuck
             ELSE req[r].stuck \cup {IdOf(req[r])}
  BY <1>1 DEF Running
<1> HIDE DEF b
<1>4. /\ me.phase = req[r].phase /\ me.i = req[r].i /\ me.prev = req[r].prev
      /\ me.what = req[r].what /\ me.before = req[r].before /\ me.stuck = b
      /\ me.seen = req[r].seen /\ me.alone = req[r].alone
  BY <1>1 DEF Running
<1>5. me \in Running
  BY <1>1, <1>3, Zenon DEF Running
<1> HIDE DEF me
<1>6. /\ Ended(StepFailed(me), me) /\ AfterFailed(StepFailed(me), me)
      /\ Ended(StepUndone(me), me) /\ AfterUndone(StepUndone(me), me)
  BY <1>1, <1>4, <1>5, EndOfStep
<1>7. CASE req[r].phase \in {"undo", "unwrite"}
  <2>1. Continues(k, req[r]) /\ UndoFails(k, req[r], row)
    BY <1>3, <1>4, <1>6, <1>7 DEF Continues, UndoFails, Ended, AfterUndone, Goes
  <2> HIDE DEF k
  <2>2. QED
    BY <1>2, <2>1, OnlyThisOne DEF Step
<1>8. CASE req[r].phase \in {"get", "write", "reread"}
  <2>1. Continues(k, req[r]) /\ Fails(k, req[r])
    BY <1>3, <1>4, <1>6, <1>8 DEF Continues, Fails, Ended, AfterFailed, Goes
  <2> HIDE DEF k
  <2>2. QED
    BY <1>2, <2>1, OnlyThisOne DEF Step
<1>9. QED
  BY <1>1, <1>7, <1>8

LEMMA EveryRequestMoves ==
  ASSUME TInv, NEW r \in Request, RequestStep(r)
  PROVE  Busy(r) /\ RequestMoves(r)
<1>1. Busy(r)
  BY DEF RequestStep, Get, Write, Reread, UndoGet, UndoWrite, StatementErrs, CancelledErrs, Busy
<1>2. CASE StatementErrs(r) \/ CancelledErrs(r)
  <2>1. Errs(r) /\ trouble' \in 0..MaxTrouble
    BY <1>2, NumberAssumption DEF StatementErrs, CancelledErrs, TInv
  <2>2. QED
    BY <1>1, <2>1, ErrsMoves
<1>3. QED
  BY <1>1, <1>2, GetMoves, WriteMoves, RereadMoves, UndoGetMoves, UndoWriteMoves DEF RequestStep

----------------------------------------------------------------------------
(* The invariant of types and versions is kept. *)

(* A request whose company or connection alone has changed. *)
SameWork(k, me) ==
  /\ k \in Running /\ k.what = me.what /\ k.i = me.i /\ k.phase = me.phase
  /\ k.seen = me.seen /\ k.prev = me.prev /\ k.before = me.before /\ k.stuck = me.stuck

LEMMA NotAlone ==
  ASSUME NEW me \in Running
  PROVE  LET k == [me EXCEPT !.alone = FALSE] IN SameWork(k, me) /\ ~k.alone
<1> DEFINE k == [me EXCEPT !.alone = FALSE]
<1>1. k \in Running
  BY Zenon DEF Running
<1>2. /\ k.what = me.what /\ k.i = me.i /\ k.phase = me.phase
      /\ k.seen = me.seen /\ k.prev = me.prev /\ k.before = me.before /\ k.stuck = me.stuck
      /\ ~k.alone
  BY DEF Running
<1>3. QED
  BY <1>1, <1>2 DEF SameWork

LEMMA SameWorkShape ==
  ASSUME NEW me, NEW k, SameWork(k, me), Shape(me)
  PROVE  Shape(k) /\ IdOf(k) = IdOf(me) /\ \A w : Fresh(me, w) => Fresh(k, w)
<1>1. IdOf(k) = IdOf(me) /\ Begun(k) = Begun(me)
  BY DEF SameWork, IdOf, Begun
<1>2. Shape(k)
  BY <1>1 DEF SameWork, Shape
<1>3. QED
  BY <1>1, <1>2 DEF SameWork, Fresh

(* What a write puts into a row is something the row can hold. *)
LEMMA AppliedFits ==
  ASSUME NEW me, Shape(me), me.phase = "write"
  PROVE  Applied(me.seen.content, me.what, me.what.steps[me.i].set) \in Content(IdOf(me))
<1>1. /\ me.what \in Batches \cup Updates /\ me.i \in 1..Len(me.what.steps)
      /\ me.seen.content \in Content(IdOf(me))
  BY DEF Shape, Running
<1>2. CASE me.what.kind = "tune"
  <2>1. /\ IdOf(me) \in Rule /\ IdOf(me) \notin Collector
        /\ me.what.steps[me.i].set.min \in Limit \cup {None}
        /\ me.what.steps[me.i].set.max \in Limit \cup {None}
    BY <1>1, <1>2, StepTypes, RowAssumption DEF IdOf
  <2>2. QED
    BY <1>1, <1>2, <2>1 DEF Applied, Content, Bounds
<1>3. CASE me.what.kind = "disable"
  <2>1. IdOf(me) \in Collector /\ me.what.steps[me.i].set = Disabled
    BY <1>1, <1>3, StepTypes DEF IdOf
  <2>2. QED
    BY <1>3, <2>1 DEF Applied, Content, Status, Disabled
<1>4. CASE me.what.kind = "update"
  BY <1>1, <1>4, StepTypes DEF Applied, IdOf
<1>5. QED
  BY <1>1, <1>2, <1>3, <1>4, StepTypes

LEMMA RestoredFits ==
  ASSUME NEW me, Shape(me), me.phase = "unwrite"
  PROVE  Restored(me) \in Content(IdOf(me))
<1>1. /\ me.what \in Batches \cup Updates /\ me.i \in 1..Len(me.what.steps)
      /\ me.what.kind # "update" /\ me.i \in 1..Begun(me) /\ me.i \in 1..MaxSteps
  BY NumberAssumption DEF Shape, Running, Begun
<1>2. CASE me.what.kind = "tune"
  <2>1. IdOf(me) \notin Collector /\ me.prev[me.i] \in Bounds
    BY <1>1, <1>2, StepTypes, RowAssumption DEF IdOf, Shape
  <2>2. QED
    BY <2>1, NoneAssumption DEF Restored, Content
<1>3. CASE me.what.kind = "disable"
  <2>1. IdOf(me) \in Collector /\ me.prev[me.i] \in Status \cup {None}
    BY <1>1, <1>3, StepTypes DEF IdOf, Shape
  <2>2. QED
    BY <2>1 DEF Restored, Content, Active, Status
<1>4. QED
  BY <1>1, <1>2, <1>3, StepTypes

LEMMA PutsKeepsRows ==
  ASSUME NEW me, Shape(me), me.phase \in {"write", "unwrite"},
         NEW w, Rows(w), NEW v, NEW c \in Content(IdOf(me)), Puts(me, w, v, c)
  PROVE  /\ Rows(v) /\ IdOf(me) \in Row
         /\ v[IdOf(me)] # Missing /\ v[IdOf(me)].content = c
         /\ v[IdOf(me)].version > w[IdOf(me)].version
         /\ \A x \in Row : x # IdOf(me) => v[x] = w[x]
<1> DEFINE x == IdOf(me)
<1> DEFINE new == [content |-> c, version |-> me.seen.version + 1]
<1>1. x \in Row
  BY StepTypes DEF Shape, Running, IdOf
<1>2. me.seen.version \in Nat \ {0}
  BY StoredFacts DEF Shape, Running
<1>3. new \in Stored /\ new # Missing /\ new.content = c /\ new.version = me.seen.version + 1
  BY <1>1, <1>2, NewRowStored
<1>4. v = [w EXCEPT ![x] = new] /\ w[x].version = me.seen.version
  BY DEF Puts, WriteMatches
<1> HIDE DEF new
<1>5. v[x] = new /\ \A y \in Row : y # x => v[y] = w[y]
  BY <1>1, <1>4 DEF Rows
<1>6. v \in [Row -> Stored]
  BY <1>3, <1>4 DEF Rows
<1>7. Rows(v)
  BY <1>3, <1>5, <1>6 DEF Rows
<1>8. QED
  BY <1>1, <1>2, <1>3, <1>4, <1>5, <1>7

(* The rows stay as they are, or one of them gets the next version. *)
LEMMA StepRows ==
  ASSUME NEW me, Shape(me), NEW w, Rows(w), NEW k, NEW v, Step(k, me, w, v)
  PROVE  \/ v = w
         \/ /\ Rows(v) /\ IdOf(me) \in Row /\ v[IdOf(me)] # Missing
            /\ v[IdOf(me)].version > w[IdOf(me)].version
            /\ \A x \in Row : x # IdOf(me) => v[x] = w[x]
<1>1. CASE Writes(k, me, w, v)
  BY <1>1, AppliedFits, PutsKeepsRows DEF Writes
<1>2. CASE UndoWrites(k, me, w, v)
  BY <1>2, RestoredFits, PutsKeepsRows DEF UndoWrites
<1>3. QED
  BY <1>1, <1>2 DEF Step

(* A later version does not become an earlier one. *)
LEMMA FreshKept ==
  ASSUME NEW q, Shape(q), NEW w, Rows(w), Fresh(q, w), NEW v, Rows(v), NEW x \in Row,
         v[x] = Missing \/ (w[x] # Missing /\ v[x].version > w[x].version),
         \A y \in Row : y # x => v[y] = w[y]
  PROVE  Fresh(q, v)
<1> SUFFICES ASSUME q.phase \in {"write", "unwrite"}
             PROVE  \/ v[IdOf(q)] = Missing
                    \/ v[IdOf(q)] = q.seen
                    \/ v[IdOf(q)].version > q.seen.version
  BY DEF Fresh
<1>1. IdOf(q) \in Row /\ q.seen.version \in Nat
  BY StepTypes, StoredFacts DEF Shape, Running, IdOf
<1>2. CASE IdOf(q) # x
  BY <1>1, <1>2 DEF Fresh
<1>3. CASE IdOf(q) = x /\ v[x] # Missing
  <2>1. /\ v[x].version \in Nat /\ w[x].version \in Nat /\ v[x].version > w[x].version
    BY <1>3, StoredFacts DEF Rows
  <2>2. w[x] = q.seen \/ w[x].version > q.seen.version
    BY <1>3 DEF Fresh
  <2>3. QED
    BY <1>1, <1>3, <2>1, <2>2
<1>4. QED
  BY <1>2, <1>3

(* The request itself, after its step. *)
LEMMA StepShape ==
  ASSUME NEW me, Shape(me), NEW w, Rows(w), NEW k, NEW v, Step(k, me, w, v),
         Continues(k, me), k.phase \notin {"idle", "done", "failed"}
  PROVE  Shape(k) /\ Fresh(k, v)
<1>1. /\ me.what \in Batches \cup Updates /\ me.i \in 1..Len(me.what.steps)
      /\ Len(me.what.steps) \in Nat /\ k.what = me.what /\ k \in Running
      /\ me.phase \in {"get", "write", "reread", "undo", "unwrite", "done", "failed"}
      /\ me.i \in 1..MaxSteps
      /\ me.what.kind \in {"disable", "tune", "update"}
      /\ me.what.kind = "update" => Len(me.what.steps) = 1
  BY StepTypes, NumberAssumption DEF Shape, Running, Continues
<1>2. IdOf(me) \in Row /\ (me.what.kind = "tune" => IdOf(me) \in Rule)
      /\ (me.what.kind = "disable" => IdOf(me) \in Collector)
  BY <1>1, StepTypes DEF IdOf
<1>3. ASSUME NEW i \in 1..Len(me.what.steps), NEW p \in {"get", "reread", "undo"},
             Goes(k, me, p, i), k.prev = me.prev,
             p \in {"reread", "undo"} => me.what.kind # "update",
             (IF p = "get" THEN i - 1 ELSE i) <= Begun(me) \/ me.what.kind = "disable"
      PROVE  Shape(k) /\ Fresh(k, v)
  <2>1. Begun(k) = IF p = "get" THEN i - 1 ELSE i
    BY <1>3 DEF Goes, Begun
  <2>2. me.what.kind = "tune" => \A j \in 1..Begun(k) : k.prev[j] \in Bounds
    BY <1>1, <1>3, <2>1 DEF Shape, Begun
  <2>3. Shape(k)
    BY <1>1, <1>3, <2>2 DEF Shape, Goes
  <2>4. QED
    BY <1>3, <2>3 DEF Fresh, Goes
<1>4. ASSUME Goes(k, me, "write", me.i) \/ Goes(k, me, "unwrite", me.i), v = w,
             w[IdOf(me)] # Missing, k.seen = w[IdOf(me)],
             Goes(k, me, "unwrite", me.i) => me.what.kind # "update",
             me.what.kind = "tune" => \A j \in 1..me.i : k.prev[j] \in Bounds,
             me.what.kind = "disable" => \A j \in 1..MaxSteps : k.prev[j] \in Status \cup {None}
      PROVE  Shape(k) /\ Fresh(k, v)
  <2>1. IdOf(k) = IdOf(me) /\ Begun(k) = me.i
    BY <1>1, <1>4 DEF Goes, IdOf, Begun
  <2>2. k.seen # Missing /\ k.seen.content \in Content(IdOf(k))
    BY <1>2, <1>4, <2>1 DEF Rows
  <2>3. Shape(k)
    BY <1>1, <1>4, <2>1, <2>2 DEF Shape, Goes
  <2>4. QED
    BY <1>4, <2>1, <2>3 DEF Fresh
<1>5. CASE Finds(k, me, w) /\ v = w
  <2>1. /\ w[IdOf(me)].content \in Content(IdOf(me))
        /\ me.prev \in [1..MaxSteps -> Status \cup Bounds \cup {None}]
    BY <1>2, <1>5 DEF Finds, Rows, Shape, Running
  <2>2. /\ me.what.kind = "tune" => w[IdOf(me)].content \in Bounds
        /\ me.what.kind = "disable" => w[IdOf(me)].content \in Status
    BY <1>2, <2>1, RowAssumption DEF Content
  <2>3. /\ k.prev[me.i] = w[IdOf(me)].content
        /\ \A j \in 1..MaxSteps : j # me.i => k.prev[j] = me.prev[j]
    BY <1>1, <1>5, <2>1 DEF Finds
  <2>4. me.what.kind = "tune" => \A j \in 1..me.i : k.prev[j] \in Bounds
    <3>1. ASSUME me.what.kind = "tune", NEW j \in 1..me.i PROVE k.prev[j] \in Bounds
      <4>1. CASE j = me.i
        BY <2>2, <2>3, <3>1, <4>1
      <4>2. CASE j # me.i
        <5>1. j \in 1..Begun(me) /\ j \in 1..MaxSteps
          BY <1>1, <1>5, <3>1, <4>2, NumberAssumption DEF Begun, Finds
        <5>2. QED
          BY <2>3, <3>1, <4>2, <5>1 DEF Shape
      <4>3. QED
        BY <4>1, <4>2
    <3>2. QED
      BY <3>1
  <2>5. me.what.kind = "disable" => \A j \in 1..MaxSteps : k.prev[j] \in Status \cup {None}
    BY <2>2, <2>3 DEF Shape
  <2>6. QED
    BY <1>4, <1>5, <2>4, <2>5 DEF Finds, Goes
<1>6. CASE UndoFinds(k, me, w) /\ v = w
  BY <1>4, <1>6 DEF SameNotes, UndoFinds, Goes, Shape, Begun
<1>7. CASE Skips(k, me, w) \/ Rereads(k, me)
  <2>1. me.what.kind = "disable" \/ me.phase = "reread"
    BY <1>7 DEF Skips, Rereads
  <2>2. Goes(k, me, "get", me.i + 1) /\ me.i # Len(me.what.steps) /\ k.prev = me.prev
    BY <1>7 DEF SameNotes, Skips, Rereads, AfterDone, Goes
  <2>3. me.i + 1 \in 1..Len(me.what.steps)
    BY <1>1, <2>2
  <2>4. me.i <= Begun(me) \/ me.what.kind = "disable"
    BY <1>1, <2>1 DEF Begun
  <2>5. QED
    BY <1>1, <1>3, <2>2, <2>3, <2>4
<1>8. CASE Writes(k, me, w, v)
  <2>1. CASE me.what.kind = "disable"
    BY <1>1, <1>3, <1>8, <2>1 DEF SameNotes, Writes
  <2>2. CASE me.what.kind # "disable"
    <3>1. Goes(k, me, "get", me.i + 1) /\ me.i # Len(me.what.steps) /\ k.prev = me.prev
      BY <1>8, <2>2 DEF SameNotes, Writes, AfterDone, Goes
    <3>2. me.i + 1 \in 1..Len(me.what.steps) /\ me.i <= Begun(me)
      BY <1>1, <1>8, <3>1 DEF Writes, Begun
    <3>3. QED
      BY <1>1, <1>3, <3>1, <3>2
  <2>3. QED
    BY <2>1, <2>2
<1>9. CASE Fails(k, me)
  <2>1. /\ Goes(k, me, "undo", me.i - 1) /\ me.i # 1 /\ me.what.kind # "update"
        /\ k.prev = me.prev
    BY <1>9 DEF Fails, AfterFailed, Goes
  <2>2. me.i - 1 \in 1..Len(me.what.steps) /\ me.i - 1 <= Begun(me)
    BY <1>1, <2>1 DEF Begun
  <2>3. QED
    BY <1>3, <2>1, <2>2
<1>10. CASE UndoSkips(k, me, w) \/ UndoWrites(k, me, w, v) \/ UndoFails(k, me, w)
  <2>1. /\ Goes(k, me, "undo", me.i - 1) /\ me.i # 1 /\ me.what.kind # "update"
        /\ k.prev = me.prev
    BY <1>10 DEF SameNotes, UndoSkips, UndoWrites, UndoFails, AfterUndone, Goes, Shape
  <2>2. me.i - 1 \in 1..Len(me.what.steps) /\ me.i - 1 <= Begun(me)
    BY <1>1, <2>1 DEF Begun
  <2>3. QED
    BY <1>3, <2>1, <2>2
<1>11. QED
  BY <1>5, <1>6, <1>7, <1>8, <1>9, <1>10 DEF Step

(* What a step leaves of the other requests. *)
LEMMA StepOthers ==
  ASSUME TInv, NEW r \in Request, RequestMoves(r), Busy(r),
         NEW q \in Request, q # r
  PROVE  /\ req'[q] \in Running \cup Over \cup {Idle}
         /\ Busy(q)' <=> Busy(q)
         /\ Busy(q) => Shape(req'[q]) /\ Fresh(req'[q], row')
<1>1. CASE req'[q] = req[q] /\ (row' = row \/ ~Busy(q))
  BY <1>1 DEF TInv, Busy
<1>2. CASE Busy(q) /\ req'[q] = [req[q] EXCEPT !.alone = FALSE]
  <2>1. Shape(req[q]) /\ Fresh(req[q], row) /\ req[q] \in Running
    BY <1>2, BusyFacts
  <2>2. SameWork(req'[q], req[q])
    BY <1>2, <2>1, NotAlone
  <2>3. Shape(req'[q]) /\ Fresh(req'[q], row)
    BY <2>1, <2>2, SameWorkShape
  <2>4. Fresh(req'[q], row')
    <3>1. Shape(req[r]) /\ Rows(row) /\ \E k : Step(k, req[r], row, row')
      BY BusyFacts DEF RequestMoves, TInv
    <3>2. CASE row' = row
      BY <2>3, <3>2
    <3>3. CASE row' # row
      <4>1. PICK x \in Row : /\ Rows(row') /\ row'[x] # Missing
                             /\ row'[x].version > row[x].version
                             /\ \A y \in Row : y # x => row'[y] = row[y]
        BY <3>1, <3>3, StepRows
      <4>2. row[x] # Missing
        BY <3>1, <3>3, <4>1 DEF Step, Writes, UndoWrites, Puts, WriteMatches, Rows
      <4>3. QED
        BY <2>3, <3>1, <4>1, <4>2, FreshKept
    <3>4. QED
      BY <3>2, <3>3
  <2>5. QED
    BY <1>2, <2>2, <2>3, <2>4 DEF SameWork, Busy
<1>3. QED
  BY <1>1, <1>2 DEF RequestMoves, OthersSee

LEMMA RequestKeepsTInv ==
  ASSUME TInv, NEW r \in Request, RequestStep(r)
  PROVE  TInv'
<1>1. Busy(r) /\ RequestMoves(r)
  BY EveryRequestMoves
<1> PICK k : /\ Continues(k, req[r]) /\ Step(k, req[r], row, row')
             /\ req'[r] = Returned(k)
  BY <1>1 DEF RequestMoves
<1>2. Shape(req[r]) /\ Rows(row) /\ k \in Running
  BY <1>1, BusyFacts DEF TInv, Continues
<1>3. Rows(row')
  BY <1>2, StepRows
<1>4. /\ req'[r] \in Running \cup Over
      /\ (Busy(r))' => Shape(req'[r]) /\ Fresh(req'[r], row')
  BY <1>2, ReturnedIs, StepShape DEF Busy
<1>5. \A q \in Request : /\ req'[q] \in Running \cup Over \cup {Idle}
                         /\ (Busy(q))' => Shape(req'[q]) /\ Fresh(req'[q], row')
  BY <1>1, <1>4, StepOthers
<1>6. DOMAIN req' = Request /\ req' = [q \in Request |-> req'[q]]
  BY DEF RequestStep, Get, Write, Reread, UndoGet, UndoWrite, StatementErrs, CancelledErrs,
         Errs, Disturbed, TInv
<1>7. req' \in [Request -> Running \cup Over \cup {Idle}]
  BY <1>5, <1>6
<1>8. asked' \in 0..MaxSteps /\ trouble' \in 0..MaxTrouble
  BY <1>1 DEF RequestMoves, TInv
<1>9. QED
  BY <1>3, <1>5, <1>7, <1>8 DEF TInv, Busy

LEMMA DisconnectKeepsTInv ==
  ASSUME TInv, NEW r \in Request, Disconnect(r)
  PROVE  /\ TInv'
         /\ UNCHANGED row /\ Busy(r) /\ SameWork(req'[r], req[r])
         /\ req'[r].alone = req[r].alone
         /\ \A q \in Request : q # r => req'[q] = req[q]
<1> DEFINE me == req[r]
<1> DEFINE k == [me EXCEPT !.live = FALSE]
<1>1. Busy(r) /\ me \in Running /\ Shape(me) /\ Fresh(me, row)
  BY BusyFacts DEF Disconnect
<1>2. k \in Running
  BY <1>1, Zenon DEF Running
<1>3. SameWork(k, me) /\ k.alone = me.alone
  BY <1>1, <1>2 DEF SameWork, Running
<1>4. /\ req' = [req EXCEPT ![r] = k] /\ UNCHANGED <<row, asked>> /\ trouble' \in 0..MaxTrouble
  <2>1. req' = [req EXCEPT ![r] = k]
    BY DEF Disconnect, TInv
  <2>2. UNCHANGED <<row, asked>> /\ trouble' \in 0..MaxTrouble
    BY NumberAssumption DEF Disconnect, TInv
  <2>3. QED
    BY <2>1, <2>2
<1> HIDE DEF k
<1>5. Shape(k) /\ Fresh(k, row)
  BY <1>1, <1>3, SameWorkShape
<1>6. req'[r] = k /\ \A q \in Request : q # r => req'[q] = req[q]
  BY <1>4 DEF TInv
<1>7. req' \in [Request -> Running \cup Over \cup {Idle}]
  BY <1>2, <1>4 DEF TInv
<1>8. TInv'
  BY <1>4, <1>5, <1>6, <1>7 DEF TInv, Busy
<1>9. QED
  BY <1>1, <1>3, <1>4, <1>6, <1>8

(* A new request has read nothing yet. *)
LEMMA SubmitKeepsTInv ==
  ASSUME TInv, NEW r \in Request, NEW what \in Batches \cup Updates, Submit(r, what)
  PROVE  /\ TInv' /\ UNCHANGED row
         /\ req'[r].phase = "get" /\ req'[r].i = 1 /\ req'[r].before = row
         /\ req'[r].stuck = {}
         /\ req'[r].alone => \A q \in Request : ~Busy(q)
         /\ \A q \in Request : q # r => req'[q] = req[q]
<1> DEFINE b == \A q \in Request : ~Busy(q)
<1> DEFINE p == [i \in 1..MaxSteps |-> None]
<1> DEFINE k == [what |-> what, i |-> 1, phase |-> "get", seen |-> Missing, prev |-> p,
                 live |-> TRUE, before |-> row, alone |-> b, stuck |-> {}]
<1>1. Len(what.steps) \in 1..MaxSteps /\ asked' \in 0..MaxSteps
  BY StepTypes, NumberAssumption DEF Submit, TInv
<1>2. /\ req' = [req EXCEPT ![r] = k] /\ UNCHANGED <<row, trouble>>
  BY DEF Submit
<1>3. b \in BOOLEAN /\ (b => \A q \in Request : ~Busy(q))
  OBVIOUS
<1>4. p \in [1..MaxSteps -> Status \cup Bounds \cup {None}]
      /\ \A j \in 1..MaxSteps : p[j] = None
  OBVIOUS
<1>5. row \in [Row -> Stored] /\ Missing \in Stored /\ 1 \in 0..MaxSteps
  BY <1>1, NumberAssumption DEF TInv, Rows, Stored
<1> HIDE DEF b, p
<1>6. /\ k.what = what /\ k.i = 1 /\ k.phase = "get" /\ k.prev = p
      /\ k.before = row /\ k.alone = b /\ k.stuck = {}
  OBVIOUS
<1>7. k \in Running
  BY <1>3, <1>4, <1>5, Zenon DEF Running
<1> HIDE DEF k
<1>8. Shape(k) /\ Fresh(k, row)
  BY <1>1, <1>4, <1>6, <1>7 DEF Shape, Fresh, Begun
<1>9. req'[r] = k /\ \A q \in Request : q # r => req'[q] = req[q]
  BY <1>2 DEF TInv
<1>10. req' \in [Request -> Running \cup Over \cup {Idle}]
  BY <1>2, <1>7 DEF TInv
<1>11. TInv'
  BY <1>1, <1>2, <1>8, <1>9, <1>10 DEF TInv, Busy
<1>12. QED
  BY <1>2, <1>3, <1>6, <1>9, <1>11

LEMMA DeleteKeepsTInv ==
  ASSUME TInv, NEW x \in Rule, DeleteRule(x)
  PROVE  /\ TInv'
         /\ \A q \in Request :
              IF Busy(q) THEN SameWork(req'[q], req[q]) /\ ~req'[q].alone
                         ELSE req'[q] = req[q]
<1>1. /\ row' = [row EXCEPT ![x] = Missing] /\ x \in Row /\ row[x] # Missing
      /\ UNCHANGED trouble /\ asked' \in 0..MaxSteps
  BY NumberAssumption DEF DeleteRule, Row, TInv
<1>2. req' = [q \in Request |-> IF Busy(q) THEN [req[q] EXCEPT !.alone = FALSE] ELSE req[q]]
  BY RowAssumption DEF DeleteRule, Disturbed
<1>3. Rows(row') /\ row'[x] = Missing /\ \A y \in Row : y # x => row'[y] = row[y]
  BY <1>1 DEF TInv, Rows, Stored
<1>4. ASSUME NEW q \in Request
      PROVE  /\ req'[q] \in Running \cup Over \cup {Idle}
             /\ Busy(q) => /\ SameWork(req'[q], req[q]) /\ ~req'[q].alone
                           /\ Shape(req'[q]) /\ Fresh(req'[q], row')
             /\ ~Busy(q) => req'[q] = req[q]
  <2>1. CASE ~Busy(q)
    BY <1>2, <2>1 DEF TInv
  <2>2. CASE Busy(q)
    <3>1. Shape(req[q]) /\ Fresh(req[q], row) /\ req[q] \in Running
      BY <2>2, BusyFacts
    <3>2. SameWork(req'[q], req[q]) /\ ~req'[q].alone
      BY <1>2, <2>2, <3>1, NotAlone
    <3>3. Shape(req'[q]) /\ Fresh(req'[q], row)
      BY <3>1, <3>2, SameWorkShape
    <3>6. Rows(row) /\ x \in Row
      BY <1>1 DEF TInv
    <3>4. Fresh(req'[q], row')
      BY <1>3, <3>3, <3>6, FreshKept
    <3>5. QED
      BY <2>2, <3>2, <3>3, <3>4 DEF SameWork
  <2>3. QED
    BY <2>1, <2>2
<1>5. req' \in [Request -> Running \cup Over \cup {Idle}]
  BY <1>2, <1>4
<1>6. \A q \in Request : Busy(q)' <=> Busy(q)
  BY <1>4 DEF SameWork, Busy
<1>7. TInv'
  BY <1>1, <1>3, <1>4, <1>5, <1>6 DEF TInv
<1>8. QED
  BY <1>4, <1>7

LEMMA InitTInv == Init => TInv
<1> SUFFICES ASSUME Init PROVE TInv
  OBVIOUS
<1>1. PICK c \in [Collector -> {Active, Disabled, None}], d \in [Rule -> Bounds \cup {None}] :
        row = [x \in Row |->
                 LET content == IF x \in Collector THEN c[x] ELSE d[x]
                 IN  IF content = None THEN Missing ELSE [content |-> content, version |-> 1]]
  BY DEF Init
<1>2. ASSUME NEW x \in Row
      PROVE  row[x] \in Stored /\ (row[x] # Missing => row[x].content \in Content(x))
  <2> DEFINE content == IF x \in Collector THEN c[x] ELSE d[x]
  <2>1. content \in Content(x) \cup {None}
    <3>1. Active \in Status /\ Disabled \in Status
      BY DEF Active, Disabled, Status
    <3>2. CASE x \in Collector
      <4>1. c[x] \in {Active, Disabled, None}
        BY <3>2
      <4>2. QED
        BY <3>1, <3>2, <4>1 DEF Content
    <3>3. CASE x \notin Collector
      <4>1. x \in Rule
        BY <3>3 DEF Row
      <4>2. QED
        BY <3>3, <4>1 DEF Content
    <3>4. QED
      BY <3>2, <3>3
  <2>2. row[x] = IF content = None THEN Missing ELSE [content |-> content, version |-> 1]
    BY <1>1
  <2> HIDE DEF content
  <2>3. QED
    BY <2>1, <2>2 DEF Stored, Content
<1>3. Rows(row)
  BY <1>1, <1>2 DEF Rows
<1>4. req \in [Request -> Running \cup Over \cup {Idle}] /\ \A r \in Request : ~Busy(r)
  BY DEF Init, Idle, Busy
<1>5. QED
  BY <1>3, <1>4, NumberAssumption DEF Init, TInv

LEMMA NextTInv == TInv /\ [Next]_vars => TInv'
<1> SUFFICES ASSUME TInv, [Next]_vars PROVE TInv'
  OBVIOUS
<1>1. CASE UNCHANGED vars
  BY <1>1 DEF vars, TInv, Busy
<1>2. QED
  BY <1>1, RequestKeepsTInv, DisconnectKeepsTInv, SubmitKeepsTInv, DeleteKeepsTInv DEF Next

LEMMA SpecTInv == Spec => []TInv
BY InitTInv, NextTInv, PTL DEF Spec

(* Every row holds what its table can hold, and every request what the     *)
(* code's locals can.                                                       *)
THEOREM BatchTypeCorrect == Spec => []TypeOK
<1>1. TInv => TypeOK
  BY DEF TInv, Rows, Shape, TypeOK
<1>2. QED
  BY <1>1, SpecTInv, PTL

(* The version stands for the whole row: when the WHERE clause of a write  *)
(* or of a compensation matches, nothing has come between it and the read.  *)
THEOREM NoLostUpdate == Spec => []ReadStandsForRow
<1>1. ASSUME TInv, NEW r \in Request, req[r].phase \in {"write", "unwrite"}, Matches(r)
      PROVE  row[StepOf(r).id] = req[r].seen
  <2>1. Busy(r) /\ StepOf(r).id = IdOf(req[r])
    BY <1>1 DEF Busy, StepOf, IdOf
  <2>2. Fresh(req[r], row) /\ req[r].seen \in Stored /\ req[r].seen # Missing
    BY <1>1, <2>1, BusyFacts DEF Running, Shape
  <2>3. req[r].seen.version \in Nat
    BY <2>2, StoredFacts
  <2>4. QED
    BY <1>1, <2>1, <2>2, <2>3 DEF Fresh, Matches
<1>2. TInv => ReadStandsForRow
  BY <1>1 DEF ReadStandsForRow
<1>3. QED
  BY <1>2, SpecTInv, PTL

----------------------------------------------------------------------------
(* What a batch that is alone does to the rows. *)

IdAt(me, j) == me.what.steps[j].id

(* The collectors of a disable batch were all collecting, or had no row. *)
AllCollecting(me) ==
  me.what.kind = "disable" =>
    \A j \in DOMAIN me.what.steps : me.before[IdAt(me, j)].content \in {Active, None}

(* The phases before any step has failed. *)
Forward == {"get", "write", "reread"}

(* Only the rows of steps that are done, and after an error the stuck ones, *)
(* differ from the start; a step that is the first of its row remembers     *)
(* what the row held at the start; a step's row is there, and is still the  *)
(* one it has read.                                                         *)
OnlyDoneDiffer(me, w) ==
  \A x \in Row : \/ w[x].content = me.before[x].content
                 \/ x \in me.stuck
                 \/ \E j \in 1..Done(me) : IdAt(me, j) = x
Repeats(me, j)   == \E l \in 1..(j - 1) : IdAt(me, l) = IdAt(me, j)
Remembers(me, j) == me.prev[j] # None /\ me.prev[j] = me.before[IdAt(me, j)].content
Tracks(me, w) ==
  /\ OnlyDoneDiffer(me, w)
  /\ me.phase \in Forward => me.stuck = {}
  /\ \A j \in 1..Begun(me) : w[IdAt(me, j)] # Missing /\ (Repeats(me, j) \/ Remembers(me, j))
  /\ me.phase \in {"write", "unwrite"} => w[IdAt(me, me.i)] = me.seen

(* What the first steps of a list make of a row. *)
IsCourse(f, x, content, what) ==
  f = [n \in 0..Len(what.steps) |->
         IF n = 0 THEN content ELSE AfterStep(x, f[n - 1], what, what.steps[n])]
Course(me, x) == CHOOSE f : IsCourse(f, x, me.before[x].content, me.what)

(* As long as no step has failed, every row is what the steps done so far  *)
(* make of it, and what is about to be written is made from the row itself. *)
Advances(me, w) ==
  /\ \A x \in Row : w[x].content = Course(me, x)[Done(me)]
  /\ me.phase = "write" =>
       /\ w[IdAt(me, me.i)] = me.seen
       /\ me.what.kind = "disable" => IsCollecting(me.seen.content)

Follows(me, w) ==
  /\ AllCollecting(me) => Tracks(me, w)
  /\ me.phase \in Forward => Advances(me, w)

(* The inductive invariant of the batches. *)
BInv ==
  /\ TInv
  /\ \A r \in Request : Busy(r) /\ req[r].alone => Follows(req[r], row)

LEMMA Remembered ==
  ASSUME NEW me, NEW k, k.what = me.what, k.before = me.before, NEW j,
         k.prev[j] = me.prev[j]
  PROVE  /\ IdAt(k, j) = IdAt(me, j) /\ (Repeats(k, j) <=> Repeats(me, j))
         /\ Remembers(k, j) <=> Remembers(me, j)
BY DEF IdAt, Repeats, Remembers

(* A batch of its own: after its step the rows are again where its list of *)
(* done steps says.                                                         *)
LEMMA StepTracks ==
  ASSUME NEW me, Shape(me), NEW w, Rows(w), NEW k, NEW v, Step(k, me, w, v),
         Continues(k, me), k.alone, AllCollecting(me), Tracks(me, w)
  PROVE  /\ OnlyDoneDiffer(k, v)
         /\ k.phase \notin {"idle", "done", "failed"} => Tracks(k, v)
<1> DEFINE x == IdOf(me)
<1>1. /\ me.what \in Batches \cup Updates /\ me.i \in 1..Len(me.what.steps)
      /\ Len(me.what.steps) \in Nat /\ DOMAIN me.what.steps = 1..Len(me.what.steps)
      /\ me.i \in 1..MaxSteps /\ me.i \in Nat \ {0}
      /\ me.what.kind \in {"disable", "tune", "update"}
      /\ me.what.kind = "update" => Len(me.what.steps) = 1
  BY StepTypes, NumberAssumption DEF Shape, Running
<1>2. /\ x = IdAt(me, me.i) /\ x \in Row
      /\ me.what.kind = "disable" => me.before[x].content \in {Active, None}
  BY <1>1, StepTypes DEF IdAt, IdOf, AllCollecting
<1>3. k.what = me.what /\ k.before = me.before /\ \A j : IdAt(k, j) = IdAt(me, j)
  BY DEF Continues, IdAt
<1>4. me.prev \in [1..MaxSteps -> Status \cup Bounds \cup {None}]
  BY DEF Shape, Running
<1> HIDE DEF x
(* The row of a first step is as at the start. *)
<1>5. ASSUME Done(me) = me.i - 1, ~Repeats(me, me.i), me.stuck = {}
      PROVE  w[x].content = me.before[x].content
  BY <1>2, <1>5 DEF Tracks, OnlyDoneDiffer, Repeats
<1>6. w[x] # Missing => w[x].content # None /\ w[x].content \in Content(x)
  BY <1>2, NoneAssumption, StoredFacts DEF Rows
<1>7. CASE Skips(k, me, w) /\ v = w
  <2>1. /\ Done(me) = me.i - 1 /\ Begun(me) = me.i - 1 /\ Done(k) = me.i
        /\ k.phase = "get" => Begun(k) = me.i
        /\ k.phase \in {"get", "done"} /\ k.prev = me.prev /\ k.stuck = me.stuck
        /\ me.stuck = {}
    BY <1>1, <1>7 DEF Skips, SameNotes, AfterDone, Goes, Done, Begun, Tracks, Forward
  <2>2. w[x] # Missing /\ Repeats(me, me.i)
    BY <1>2, <1>5, <1>6, <1>7, <2>1 DEF Skips, IsCollecting, x
  <2>3. OnlyDoneDiffer(k, v)
    BY <1>1, <1>3, <1>7, <2>1 DEF Tracks, OnlyDoneDiffer
  <2>4. \A j \in 1..me.i : w[IdAt(me, j)] # Missing /\ (Repeats(me, j) \/ Remembers(me, j))
    BY <1>1, <1>2, <2>1, <2>2 DEF Tracks
  <2>5. QED
    BY <1>3, <1>7, <2>1, <2>3, <2>4, Remembered DEF Tracks
<1>8. CASE Finds(k, me, w) /\ v = w
  <2>1. /\ Done(me) = me.i - 1 /\ Begun(me) = me.i - 1 /\ Done(k) = me.i - 1
        /\ Begun(k) = me.i /\ k.phase = "write" /\ k.i = me.i
        /\ w[x] # Missing /\ k.seen = w[x]
        /\ k.prev = [me.prev EXCEPT ![me.i] = w[x].content]
        /\ k.stuck = me.stuck /\ me.stuck = {}
    BY <1>1, <1>8 DEF Finds, Goes, Done, Begun, x, Tracks, Forward
  <2>2. OnlyDoneDiffer(k, v)
    BY <1>3, <1>8, <2>1 DEF Tracks, OnlyDoneDiffer
  <2>3. ASSUME NEW j \in 1..me.i
        PROVE  w[IdAt(k, j)] # Missing /\ (Repeats(k, j) \/ Remembers(k, j))
    <3>1. CASE j = me.i
      <4>1. k.prev[j] = w[x].content /\ IdAt(k, j) = x
        <5>1. k.prev[me.i] = w[x].content
          BY <1>1, <1>4, <2>1
        <5>2. IdAt(k, me.i) = x
          BY <1>2, <1>3
        <5>3. QED
          BY <3>1, <5>1, <5>2
      <4>2. Repeats(me, me.i) \/ w[x].content = me.before[x].content
        BY <1>5, <2>1
      <4>3. Repeats(k, j) <=> Repeats(me, me.i)
        BY <1>3, <3>1 DEF Repeats
      <4>4. QED
        BY <1>3, <1>6, <2>1, <4>1, <4>2, <4>3 DEF Remembers
    <3>2. CASE j # me.i
      <4>1. k.prev[j] = me.prev[j] /\ j \in 1..Begun(me)
        BY <1>1, <1>4, <2>1, <3>2, NumberAssumption
      <4>2. QED
        BY <1>3, <4>1, Remembered DEF Tracks
    <3>3. QED
      BY <3>1, <3>2
  <2>4. QED
    BY <1>2, <1>3, <1>8, <2>1, <2>2, <2>3 DEF Tracks
<1>9. CASE Writes(k, me, w, v)
  <2>1. /\ Done(me) = me.i - 1 /\ Begun(me) = me.i /\ Done(k) = me.i
        /\ k.phase \in {"get", "reread"} => Begun(k) = me.i
        /\ k.phase \in {"get", "reread", "done"} /\ k.prev = me.prev
        /\ k.stuck = me.stuck /\ me.stuck = {}
    BY <1>1, <1>9 DEF Writes, SameNotes, Tracks, Forward, AfterDone, Goes, Done, Begun
  <2>2. v[x] # Missing /\ \A y \in Row : y # x => v[y] = w[y]
    BY <1>9, AppliedFits, PutsKeepsRows DEF Writes, x
  <2>3. OnlyDoneDiffer(k, v)
    <3>1. ASSUME NEW y \in Row
          PROVE  \/ v[y].content = k.before[y].content
                 \/ y \in k.stuck
                 \/ \E j \in 1..Done(k) : IdAt(k, j) = y
      <4>1. CASE y = x
        BY <1>1, <1>2, <1>3, <2>1, <4>1
      <4>2. CASE y # x
        BY <1>1, <1>3, <2>1, <2>2, <4>2 DEF Tracks, OnlyDoneDiffer
      <4>3. QED
        BY <4>1, <4>2
    <3>2. QED
      BY <3>1 DEF OnlyDoneDiffer
  <2>4. \A j \in 1..me.i : IdAt(me, j) \in Row
    BY <1>1, StepTypes DEF IdAt
  <2>5. \A j \in 1..me.i : v[IdAt(me, j)] # Missing /\ (Repeats(me, j) \/ Remembers(me, j))
    BY <2>1, <2>2, <2>4 DEF Tracks
  <2>6. QED
    BY <1>3, <2>1, <2>3, <2>5, Remembered DEF Tracks
<1>10. CASE Rereads(k, me) /\ v = w
  <2>1. /\ Done(me) = me.i /\ Begun(me) = me.i /\ Done(k) = me.i
        /\ k.phase = "get" => Begun(k) = me.i
        /\ k.phase \in {"get", "done"} /\ k.prev = me.prev /\ k.stuck = me.stuck
        /\ me.stuck = {}
    BY <1>1, <1>10 DEF Rereads, SameNotes, Tracks, Forward, AfterDone, Goes, Done, Begun
  <2>2. OnlyDoneDiffer(k, v)
    BY <1>3, <1>10, <2>1 DEF Tracks, OnlyDoneDiffer
  <2>3. QED
    BY <1>3, <1>10, <2>1, <2>2, Remembered DEF Tracks
<1>11. CASE Fails(k, me) /\ v = w
  <2>1. /\ Done(k) = me.i - 1
        /\ \/ Done(me) = me.i - 1 /\ k.stuck = me.stuck
           \/ Done(me) = me.i /\ k.stuck = me.stuck \cup {x}
        /\ k.phase = "undo" => Begun(k) = me.i - 1
        /\ Begun(me) \in {me.i - 1, me.i}
        /\ k.phase \in {"undo", "failed"} /\ k.prev = me.prev
    <3>1. ASSUME me.what.kind = "update" PROVE me.i = 1
      <4>1. me.i \in 1..Len(me.what.steps) /\ Len(me.what.steps) = 1
        BY <1>1, <3>1
      <4>2. QED
        BY <4>1
    <3>2. \/ k.phase = "failed" /\ me.i = 1
          \/ k.phase = "undo" /\ k.i = me.i - 1
      BY <3>1, <1>11 DEF Fails, AfterFailed, Goes
    <3>3. QED
      BY <1>1, <1>11, <3>2 DEF Fails, Done, Begun, x
  <2>2. OnlyDoneDiffer(k, v)
    <3>1. CASE Done(me) = me.i - 1 /\ k.stuck = me.stuck
      BY <1>3, <1>11, <2>1, <3>1 DEF Tracks, OnlyDoneDiffer
    <3>2. CASE Done(me) = me.i /\ k.stuck = me.stuck \cup {x}
      <4>1. \A j \in 1..me.i : j \in 1..(me.i - 1) \/ IdAt(me, j) = x
        BY <1>1, <1>2
      <4>2. QED
        BY <1>3, <1>11, <2>1, <3>2, <4>1 DEF Tracks, OnlyDoneDiffer
    <3>3. QED
      BY <2>1, <3>1, <3>2
  <2>3. \A j \in 1..(me.i - 1) : j \in 1..Begun(me)
    BY <1>1, <2>1
  <2>4. QED
    BY <1>3, <1>11, <2>1, <2>2, <2>3, Remembered DEF Tracks, Forward
(* A compensation that leaves its row as it was at the start. *)
<1>12. ASSUME me.phase \in {"undo", "unwrite"}, AfterUndone(k, me), k.prev = me.prev,
              \A y \in Row : y # x => v[y] = w[y], v[x] # Missing,
              me.stuck \subseteq k.stuck,
              x \in k.stuck \/ Repeats(me, me.i) \/ v[x].content = me.before[x].content
       PROVE  OnlyDoneDiffer(k, v) /\ (k.phase \notin {"idle", "done", "failed"} => Tracks(k, v))
  <2>1. /\ Done(me) = me.i /\ Begun(me) = me.i /\ Done(k) = me.i - 1
        /\ k.phase = "undo" => Begun(k) = me.i - 1
        /\ k.phase \in {"undo", "failed"}
    BY <1>1, <1>12 DEF AfterUndone, Goes, Done, Begun
  <2>2. ASSUME NEW y \in Row
        PROVE  \/ v[y].content = k.before[y].content
               \/ y \in k.stuck
               \/ \E j \in 1..Done(k) : IdAt(k, j) = y
    <3>1. CASE y = x
      BY <1>2, <1>3, <1>12, <2>1, <3>1 DEF Repeats
    <3>2. CASE y # x
      <4>1. \/ w[y].content = me.before[y].content
            \/ y \in me.stuck
            \/ \E j \in 1..me.i : IdAt(me, j) = y
        BY <2>1 DEF Tracks, OnlyDoneDiffer
      <4>2. \A j \in 1..me.i : IdAt(me, j) = y => j \in 1..(me.i - 1)
        BY <1>1, <1>2, <3>2
      <4>3. QED
        BY <1>3, <1>12, <2>1, <3>2, <4>1, <4>2
    <3>3. QED
      BY <3>1, <3>2
  <2>3. OnlyDoneDiffer(k, v)
    BY <2>2 DEF OnlyDoneDiffer
  <2>4. \A j \in 1..(me.i - 1) : j \in 1..Begun(me) /\ IdAt(me, j) \in Row
    BY <1>1, <2>1, StepTypes DEF IdAt
  <2>5. \A j \in 1..(me.i - 1) : /\ v[IdAt(me, j)] # Missing
                                 /\ Repeats(me, j) \/ Remembers(me, j)
    BY <1>12, <2>4 DEF Tracks
  <2>6. QED
    BY <1>3, <1>12, <2>1, <2>3, <2>5, Remembered DEF Tracks, Forward
<1>13. ASSUME me.phase \in {"undo", "unwrite"}
       PROVE  /\ w[x] # Missing /\ me.what.kind \in {"disable", "tune"}
              /\ Repeats(me, me.i) \/ Remembers(me, me.i)
  BY <1>1, <1>2, <1>13 DEF Tracks, Begun, Shape
<1>14. CASE UndoSkips(k, me, w) /\ v = w
  <2>1. /\ me.phase = "undo" /\ AfterUndone(k, me) /\ k.prev = me.prev
        /\ me.stuck \subseteq k.stuck
    BY <1>14 DEF UndoSkips, SameNotes
  <2>2. w[x].content = Active
    BY <1>13, <1>14, <2>1 DEF UndoSkips, IsCollecting, x
  <2>3. Repeats(me, me.i) \/ w[x].content = me.before[x].content
    <3>1. CASE me.what.kind = "disable"
      BY <1>2, <1>13, <2>1, <2>2, <3>1 DEF Remembers
    <3>2. CASE me.what.kind = "tune"
      <4>1. x \in Rule /\ x \notin Collector
        BY <1>1, <1>2, <3>2, StepTypes, RowAssumption DEF IdAt
      <4>2. w[x].content \in Bounds
        BY <1>6, <1>13, <2>1, <4>1 DEF Content
      <4>3. QED
        BY <2>2, <4>2, BoundsNotActive DEF IsCollecting
    <3>3. QED
      BY <1>13, <2>1, <3>1, <3>2
  <2>4. QED
    BY <1>12, <1>13, <1>14, <2>1, <2>3
<1>15. CASE UndoFinds(k, me, w) /\ v = w
  <2>1. /\ Done(me) = me.i /\ Begun(me) = me.i /\ Done(k) = me.i /\ Begun(k) = me.i
        /\ k.phase = "unwrite" /\ k.i = me.i /\ k.seen = w[x] /\ k.prev = me.prev
        /\ k.stuck = me.stuck
    BY <1>15 DEF UndoFinds, SameNotes, Goes, Done, Begun, x
  <2>2. OnlyDoneDiffer(k, v)
    BY <1>3, <1>15, <2>1 DEF Tracks, OnlyDoneDiffer
  <2>3. QED
    BY <1>2, <1>3, <1>15, <2>1, <2>2, Remembered DEF Tracks, Forward
<1>16. CASE UndoWrites(k, me, w, v)
  <2>1. /\ me.phase = "unwrite" /\ AfterUndone(k, me) /\ k.prev = me.prev
        /\ me.stuck \subseteq k.stuck
    BY <1>16 DEF UndoWrites, SameNotes
  <2>2. /\ v[x] # Missing /\ v[x].content = Restored(me)
        /\ \A y \in Row : y # x => v[y] = w[y]
    BY <1>16, RestoredFits, PutsKeepsRows DEF UndoWrites, x
  <2>3. Repeats(me, me.i) \/ v[x].content = me.before[x].content
    BY <1>2, <1>13, <2>1, <2>2 DEF Remembers, Restored
  <2>4. QED
    BY <1>12, <2>1, <2>2, <2>3
<1>17. CASE UndoFails(k, me, w) /\ v = w
  <2>1. /\ me.phase \in {"undo", "unwrite"} /\ AfterUndone(k, me) /\ k.prev = me.prev
        /\ \/ k.stuck = me.stuck \cup {x}
           \/ me.phase = "unwrite" /\ ~WriteMatches(me, w)
    BY <1>17 DEF UndoFails, x
  <2>2. CASE k.stuck = me.stuck \cup {x}
    BY <1>12, <1>13, <1>17, <2>1, <2>2
  <2>3. CASE me.phase = "unwrite" /\ ~WriteMatches(me, w)
    <3>1. w[x] # Missing /\ w[x] = me.seen
      BY <1>2, <1>13, <2>3 DEF Tracks
    <3>2. QED
      BY <2>3, <3>1 DEF WriteMatches, x
  <2>4. QED
    BY <2>1, <2>2, <2>3
<1>18. QED
  BY <1>7, <1>8, <1>9, <1>10, <1>11, <1>14, <1>15, <1>16, <1>17 DEF Step

LEMMA LeastNumber ==
  ASSUME NEW T \in SUBSET Nat, NEW n \in T
  PROVE  \E m \in T : \A k \in T : m <= k
<1> DEFINE R == {ss \in Nat \X Nat : ss[1] < ss[2]}
<1>1. IsWellFoundedOn(R, Nat)
  BY NatLessThanWellFounded DEF OpToRel
<1>2. PICK m \in T : \A k \in T : <<k, m>> \notin R
  BY <1>1, WFMin, Zenon
<1>3. m \in Nat /\ \A k \in T : k \in Nat /\ ~(k < m)
  BY <1>2
<1>4. QED
  BY <1>3

(* The recursion of Outcome defines a function on the numbers of steps.     *)
LEMMA CourseExists ==
  ASSUME NEW x, NEW content, NEW what, Len(what.steps) \in Nat
  PROVE  \E f : IsCourse(f, x, content, what)
<1> DEFINE Upto(f, n) ==
      f = [j \in 0..n |-> IF j = 0 THEN content ELSE AfterStep(x, f[j - 1], what, what.steps[j])]
<1> DEFINE Bad == {k \in Nat : ~\E f : Upto(f, k)}
<1>1. SUFFICES ASSUME Len(what.steps) \in Bad PROVE FALSE
  BY DEF IsCourse
<1>2. PICK m \in Bad : \A k \in Bad : m <= k
  BY <1>1, LeastNumber
<1>3. CASE m = 0
  <2> DEFINE f == [j \in 0..0 |-> content]
  <2>1. Upto(f, 0)
    OBVIOUS
  <2>2. QED
    BY <1>2, <1>3, <2>1
<1>4. CASE m # 0
  <2>1. m \in Nat /\ m - 1 \in Nat /\ m - 1 \notin Bad
    BY <1>2, <1>4
  <2>2. PICK g : Upto(g, m - 1)
    BY <2>1
  <2> DEFINE e(j) == IF j = 0 THEN content ELSE AfterStep(x, g[j - 1], what, what.steps[j])
  <2> DEFINE f == [j \in 0..m |-> e(j)]
  <2>3. \A j \in 0..(m - 1) : g[j] = e(j)
    BY <2>2
  <2>4. \A j \in 0..m : j # 0 => f[j - 1] = g[j - 1]
    BY <2>1, <2>3
  <2>5. Upto(f, m)
    BY <2>4
  <2>6. QED
    BY <1>2, <2>5
<1>5. QED
  BY <1>3, <1>4

LEMMA CourseFacts ==
  ASSUME NEW me, me.what \in Batches \cup Updates, NEW x
  PROVE  /\ Course(me, x)[0] = me.before[x].content
         /\ \A n \in 1..Len(me.what.steps) :
              Course(me, x)[n] = AfterStep(x, Course(me, x)[n - 1], me.what, me.what.steps[n])
         /\ Course(me, x)[Len(me.what.steps)] = Outcome(x, me.before[x].content, me.what)
<1> DEFINE f == Course(me, x)
<1>1. Len(me.what.steps) \in Nat
  BY StepTypes
<1>2. IsCourse(f, x, me.before[x].content, me.what)
  BY <1>1, CourseExists DEF Course
<1>3. f[Len(me.what.steps)] = Outcome(x, me.before[x].content, me.what)
  BY DEF Course, IsCourse, Outcome
<1> HIDE DEF f
<1>4. /\ f[0] = me.before[x].content
      /\ \A n \in 1..Len(me.what.steps) :
           f[n] = AfterStep(x, f[n - 1], me.what, me.what.steps[n])
  BY <1>1, <1>2 DEF IsCourse
<1>5. QED
  BY <1>3, <1>4 DEF f

(* A batch of its own, as long as it goes forward. *)
LEMMA StepAdvances ==
  ASSUME NEW me, Shape(me), NEW w, Rows(w), NEW k, NEW v, Step(k, me, w, v),
         Continues(k, me), me.phase \in Forward => Advances(me, w)
  PROVE  /\ k.phase \in Forward => Advances(k, v)
         /\ k.phase = "done" =>
              \A x \in Row : v[x].content = Outcome(x, me.before[x].content, me.what)
<1> DEFINE x == IdOf(me)
<1> DEFINE step == me.what.steps[me.i]
<1>1. /\ me.what \in Batches \cup Updates /\ me.i \in 1..Len(me.what.steps)
      /\ Len(me.what.steps) \in Nat /\ me.i \in Nat \ {0}
  BY StepTypes, NumberAssumption DEF Shape, Running
<1>2. x = IdAt(me, me.i) /\ x \in Row /\ step.id = x
  BY <1>1, StepTypes DEF IdAt, IdOf
<1>3. /\ k.what = me.what /\ k.before = me.before /\ \A j : IdAt(k, j) = IdAt(me, j)
      /\ \A y : Course(k, y) = Course(me, y)
  BY DEF Continues, IdAt, Course
<1>4. \A y : Course(me, y)[me.i] = AfterStep(y, Course(me, y)[me.i - 1], me.what, step)
  BY <1>1, CourseFacts
<1>5. \A y : Course(me, y)[Len(me.what.steps)] = Outcome(y, me.before[y].content, me.what)
  BY <1>1, CourseFacts
<1>6. w[x] # Missing => w[x].content # None
  BY <1>2, NoneAssumption, StoredFacts DEF Rows
<1> HIDE DEF x, step
<1>7. ASSUME k.phase \in {"get", "done", "reread"}, AfterDone(k, me) \/ Goes(k, me, "reread", me.i),
             \A y \in Row : v[y].content = Course(me, y)[me.i]
      PROVE  /\ k.phase \in Forward => Advances(k, v)
             /\ k.phase = "done" =>
                  \A y \in Row : v[y].content = Outcome(y, me.before[y].content, me.what)
  <2>1. /\ Done(k) = me.i /\ k.phase # "write"
        /\ k.phase = "done" => me.i = Len(me.what.steps)
    BY <1>1, <1>7 DEF AfterDone, Goes, Done
  <2>2. QED
    BY <1>3, <1>5, <1>7, <2>1 DEF Advances
<1>8. CASE Skips(k, me, w) /\ v = w
  <2>1. /\ \A y \in Row : w[y].content = Course(me, y)[me.i - 1]
        /\ k.phase \in {"get", "done"} /\ AfterDone(k, me)
    BY <1>8 DEF Skips, Forward, Advances, Done, AfterDone, Goes
  <2>2. me.what.kind = "disable" /\ ~IsCollecting(w[x].content)
    BY <1>8 DEF Skips, x
  <2>3. \A y \in Row : w[y].content = Course(me, y)[me.i]
    BY <1>2, <1>4, <2>1, <2>2 DEF AfterStep
  <2>4. QED
    BY <1>7, <1>8, <2>1, <2>3
<1>9. CASE Finds(k, me, w) /\ v = w
  <2>1. /\ \A y \in Row : w[y].content = Course(me, y)[me.i - 1]
        /\ k.phase = "write" /\ k.i = me.i /\ k.seen = w[x]
        /\ me.what.kind = "disable" => IsCollecting(k.seen.content)
    BY <1>9 DEF Finds, Forward, Advances, Done, Goes, x
  <2>2. QED
    BY <1>2, <1>3, <1>9, <2>1 DEF Advances, Done
<1>10. CASE Writes(k, me, w, v)
  <2>1. /\ \A y \in Row : w[y].content = Course(me, y)[me.i - 1]
        /\ w[x] = me.seen /\ (me.what.kind = "disable" => IsCollecting(me.seen.content))
    BY <1>2, <1>10 DEF Writes, Forward, Advances, Done
  <2>2. /\ v[x].content = Applied(me.seen.content, me.what, step.set)
        /\ \A y \in Row : y # x => v[y] = w[y]
    BY <1>10, AppliedFits, PutsKeepsRows DEF Writes, x, step
  <2>3. w[x] # Missing
    BY <1>10 DEF Writes, Puts, WriteMatches, x
  <2>4. ASSUME NEW y \in Row PROVE v[y].content = Course(me, y)[me.i]
    <3>1. CASE y = x
      BY <1>2, <1>4, <1>6, <2>1, <2>2, <2>3, <3>1 DEF AfterStep
    <3>2. CASE y # x
      BY <1>2, <1>4, <2>1, <2>2, <3>2 DEF AfterStep
    <3>3. QED
      BY <3>1, <3>2
  <2>5. /\ k.phase \in {"get", "done", "reread"}
        /\ AfterDone(k, me) \/ Goes(k, me, "reread", me.i)
    BY <1>10 DEF Writes, AfterDone, Goes
  <2>6. QED
    BY <1>7, <2>4, <2>5
<1>11. CASE Rereads(k, me) /\ v = w
  <2>1. /\ \A y \in Row : w[y].content = Course(me, y)[me.i]
        /\ k.phase \in {"get", "done"} /\ AfterDone(k, me)
    BY <1>11 DEF Rereads, Forward, Advances, Done, AfterDone, Goes
  <2>2. QED
    BY <1>7, <1>11, <2>1
<1>12. CASE \/ Fails(k, me) \/ UndoSkips(k, me, w) \/ UndoFinds(k, me, w)
            \/ UndoWrites(k, me, w, v) \/ UndoFails(k, me, w)
  <2>1. k.phase \in {"undo", "unwrite", "failed"}
    BY <1>12 DEF Fails, UndoSkips, UndoFinds, UndoWrites, UndoFails,
                 AfterFailed, AfterUndone, Goes
  <2>2. QED
    BY <2>1 DEF Forward
<1>13. QED
  BY <1>8, <1>9, <1>10, <1>11, <1>12 DEF Step

LEMMA RequestTracks ==
  ASSUME BInv, NEW r \in Request, RequestStep(r)
  PROVE  /\ BInv'
         /\ \A q \in Request : q # r /\ Busy(q) => (Busy(q))'
         /\ req'[r].alone /\ req'[r].phase = "failed" /\ AllCollecting(req[r]) =>
              Restores(r, Row \ req'[r].stuck)
         /\ req'[r].alone /\ req'[r].phase = "done" =>
              \A x \in Row : row'[x].content = Outcome(x, req[r].before[x].content, req[r].what)
<1>1. TInv /\ Busy(r) /\ RequestMoves(r) /\ TInv'
  BY EveryRequestMoves, RequestKeepsTInv DEF BInv
<1> PICK k : /\ Continues(k, req[r]) /\ Step(k, req[r], row, row')
             /\ req'[r] = Returned(k)
  BY <1>1 DEF RequestMoves
<1>2. /\ Shape(req[r]) /\ Rows(row) /\ k \in Running
      /\ req'[r].phase = k.phase /\ req'[r].alone = k.alone /\ req'[r].stuck = k.stuck
      /\ (Busy(r))' => req'[r] = k
  BY <1>1, BusyFacts, ReturnedIs DEF TInv, Continues, Busy
<1>3. k.alone => Follows(req[r], row)
  BY <1>1 DEF BInv, Continues
<1>4. ASSUME k.alone, AllCollecting(req[r])
      PROVE  /\ k.phase = "failed" => Restores(r, Row \ k.stuck)
             /\ (Busy(r))' => Tracks(k, row')
  <2>1. /\ OnlyDoneDiffer(k, row')
        /\ k.phase \notin {"idle", "done", "failed"} => Tracks(k, row')
    BY <1>2, <1>3, <1>4, StepTracks DEF Follows
  <2>2. k.phase = "failed" => Done(k) = 0
    BY DEF Done
  <2>3. QED
    BY <1>2, <2>1, <2>2 DEF OnlyDoneDiffer, Restores, Continues, Busy
<1>5. ASSUME k.alone
      PROVE  /\ k.phase \in Forward => Advances(k, row')
             /\ k.phase = "done" => \A x \in Row :
                  row'[x].content = Outcome(x, req[r].before[x].content, req[r].what)
  BY <1>2, <1>3, <1>5, StepAdvances DEF Follows
<1>6. AllCollecting(k) <=> AllCollecting(req[r])
  BY DEF Continues, AllCollecting, IdAt
<1>7. (Busy(r))' /\ req'[r].alone => Follows(req'[r], row')
  BY <1>2, <1>4, <1>5, <1>6 DEF Follows
<1>8. ASSUME NEW q \in Request, q # r, (Busy(q))', req'[q].alone
      PROVE  Follows(req'[q], row')
  <2>1. ASSUME Busy(q), req'[q] = [req[q] EXCEPT !.alone = FALSE] PROVE FALSE
    BY <1>1, <1>8, <2>1, BusyFacts, NotAlone
  <2>2. req'[q] = req[q] /\ row' = row
    BY <1>1, <1>8, <2>1 DEF RequestMoves, OthersSee, Busy
  <2>3. QED
    BY <1>8, <2>2 DEF BInv, Busy
<1>9. \A q \in Request : (Busy(q))' /\ req'[q].alone => Follows(req'[q], row')
  BY <1>7, <1>8
<1>10. ASSUME NEW q \in Request, q # r, Busy(q) PROVE (Busy(q))'
  BY <1>1, <1>10, StepOthers
<1>11. QED
  BY <1>1, <1>2, <1>4, <1>5, <1>9, <1>10 DEF BInv

LEMMA InitBInv == Init => BInv
<1>1. Init => \A r \in Request : ~Busy(r)
  BY DEF Init, Idle, Busy
<1>2. QED
  BY <1>1, InitTInv DEF BInv

LEMMA SubmitTracks ==
  ASSUME BInv, NEW r \in Request, NEW what \in Batches \cup Updates, Submit(r, what)
  PROVE  BInv'
<1>1. /\ TInv' /\ UNCHANGED row
      /\ req'[r].phase = "get" /\ req'[r].i = 1 /\ req'[r].before = row
      /\ req'[r].stuck = {}
      /\ \A q \in Request : q # r => req'[q] = req[q]
  BY SubmitKeepsTInv DEF BInv
<1>2. Tracks(req'[r], row')
  <2>1. Begun(req'[r]) = 0 /\ OnlyDoneDiffer(req'[r], row')
    BY <1>1 DEF Begun, OnlyDoneDiffer
  <2>2. QED
    BY <1>1, <2>1 DEF Tracks
<1>3. Advances(req'[r], row')
  <2>1. req'[r].what \in Batches \cup Updates /\ Done(req'[r]) = 0
    BY <1>1, BusyFacts DEF TInv, Busy, Shape, Running, Done
  <2>2. \A x : Course(req'[r], x)[0] = row[x].content
    BY <1>1, <2>1, CourseFacts
  <2>3. QED
    BY <1>1, <2>1, <2>2 DEF Advances
<1>4. \A q \in Request : (Busy(q))' /\ req'[q].alone => Follows(req'[q], row')
  BY <1>1, <1>2, <1>3 DEF BInv, Busy, Follows
<1>5. QED
  BY <1>1, <1>4 DEF BInv

(* What a batch does to the rows does not depend on its client. *)
LEMMA SameWorkFollows ==
  ASSUME NEW me, NEW k, NEW w, SameWork(k, me), Follows(me, w)
  PROVE  Follows(k, w)
<1>1. /\ Done(k) = Done(me) /\ Begun(k) = Begun(me) /\ \A j : IdAt(k, j) = IdAt(me, j)
      /\ \A x : Course(k, x) = Course(me, x)
  BY DEF SameWork, Done, Begun, IdAt, Course
<1>2. /\ AllCollecting(k) <=> AllCollecting(me)
      /\ OnlyDoneDiffer(k, w) <=> OnlyDoneDiffer(me, w)
  BY <1>1 DEF SameWork, AllCollecting, OnlyDoneDiffer
<1>3. \A j : /\ Repeats(k, j) <=> Repeats(me, j)
             /\ Remembers(k, j) <=> Remembers(me, j)
  BY <1>1 DEF SameWork, Repeats, Remembers
<1>4. ASSUME Tracks(me, w) PROVE Tracks(k, w)
  <2>1. \A j \in 1..Begun(k) :
          w[IdAt(k, j)] # Missing /\ (Repeats(k, j) \/ Remembers(k, j))
    BY <1>1, <1>3, <1>4 DEF Tracks
  <2>2. /\ k.phase \in Forward => k.stuck = {}
        /\ k.phase \in {"write", "unwrite"} => w[IdAt(k, k.i)] = k.seen
    BY <1>1, <1>4 DEF SameWork, Tracks
  <2>3. QED
    BY <1>2, <1>4, <2>1, <2>2 DEF Tracks
<1>5. Advances(me, w) => Advances(k, w)
  BY <1>1 DEF SameWork, Advances
<1>6. QED
  BY <1>2, <1>4, <1>5 DEF SameWork, Follows

LEMMA DisconnectTracks ==
  ASSUME BInv, NEW r \in Request, Disconnect(r)
  PROVE  BInv' /\ \A q \in Request : req'[q].phase = req[q].phase
<1>1. /\ TInv' /\ UNCHANGED row /\ Busy(r) /\ SameWork(req'[r], req[r])
      /\ req'[r].alone = req[r].alone
      /\ \A q \in Request : q # r => req'[q] = req[q]
  BY DisconnectKeepsTInv DEF BInv
<1>2. req'[r].alone => Follows(req'[r], row')
  BY <1>1, SameWorkFollows DEF BInv
<1>3. \A q \in Request : (Busy(q))' /\ req'[q].alone => Follows(req'[q], row')
  BY <1>1, <1>2 DEF BInv, Busy
<1>4. QED
  BY <1>1, <1>3 DEF BInv, SameWork

LEMMA DeleteTracks ==
  ASSUME BInv, NEW x \in Rule, DeleteRule(x)
  PROVE  BInv' /\ \A q \in Request : req'[q].phase = req[q].phase
<1>1. /\ TInv'
      /\ \A q \in Request : IF Busy(q) THEN SameWork(req'[q], req[q]) /\ ~req'[q].alone
                                       ELSE req'[q] = req[q]
  BY DeleteKeepsTInv DEF BInv
<1>2. \A q \in Request : ~((Busy(q))' /\ req'[q].alone)
  BY <1>1 DEF Busy, SameWork
<1>3. QED
  BY <1>1, <1>2 DEF BInv, SameWork

LEMMA NextBInv == BInv /\ [Next]_vars => BInv'
<1> SUFFICES ASSUME BInv, [Next]_vars PROVE BInv'
  OBVIOUS
<1>1. CASE UNCHANGED vars
  BY <1>1 DEF vars, BInv, TInv, Busy
<1>2. QED
  BY <1>1, RequestTracks, DisconnectTracks, SubmitTracks, DeleteTracks DEF Next

(* A request ends by a step of its own. *)
LEMMA EndsByItself ==
  ASSUME BInv, [Next]_vars, NEW r \in Request, NEW p \in {"done", "failed"}, Ends(r, p)
  PROVE  RequestStep(r)
<1>1. Busy(r) /\ req'[r].phase = p /\ req'[r].phase # req[r].phase
  BY DEF Ends, Busy
<1>2. ASSUME NEW q \in Request, q # r, RequestStep(q) PROVE FALSE
  <2>1. (Busy(r))'
    BY <1>1, <1>2, RequestTracks
  <2>2. QED
    BY <1>1, <2>1 DEF Busy
<1>3. ASSUME NEW q \in Request, NEW what \in Batches \cup Updates, Submit(q, what)
      PROVE  FALSE
  <2>1. q # r /\ req'[r].phase = req[r].phase
    BY <1>1, <1>3, SubmitKeepsTInv DEF Submit, BInv
  <2>2. QED
    BY <1>1, <2>1
<1>4. ~UNCHANGED vars
  BY <1>1 DEF vars
<1>5. QED
  BY <1>1, <1>2, <1>3, <1>4, DisconnectTracks, DeleteTracks DEF Next

(* A batch whose collectors were all collecting, or a rule batch, or an    *)
(* update, that fails while nobody else writes leaves every row with what   *)
(* it held before, but for the rows that an error of their own compensation *)
(* or of their second read has kept changed.                                *)
THEOREM FailureRestores == Spec => FailedBatchRestores
<1>1. ASSUME BInv, [Next]_vars, NEW r \in Request, Ends(r, "failed"), AllCollecting(req[r])
      PROVE  Restores(r, Row \ req'[r].stuck)
  <2>1. RequestStep(r) /\ req'[r].phase = "failed" /\ req'[r].alone
    BY <1>1, EndsByItself DEF Ends
  <2>2. QED
    BY <1>1, <2>1, RequestTracks
<1>2. BInv /\ [Next]_vars =>
        [\A r \in Request :
           /\ Ends(r, "failed")
           /\ \A i \in DOMAIN req[r].what.steps :
                req[r].what.kind = "disable" =>
                  req[r].before[req[r].what.steps[i].id].content \in {Active, None}
           => Restores(r, Row \ req'[r].stuck)]_vars
  BY <1>1 DEF AllCollecting, IdAt
<1>3. QED
  BY <1>2, InitBInv, NextBInv, PTL DEF Spec, FailedBatchRestores

(* A batch that succeeds while nothing else writes leaves every row with   *)
(* what its steps, one after another, make of it.                           *)
THEOREM SuccessCompletes == Spec => SuccessIsComplete
<1>1. ASSUME BInv, [Next]_vars, NEW r \in Request, Ends(r, "done")
      PROVE  \A x \in Row : row'[x].content = Outcome(x, req[r].before[x].content, req[r].what)
  <2>1. RequestStep(r) /\ req'[r].phase = "done" /\ req'[r].alone
    BY <1>1, EndsByItself DEF Ends
  <2>2. QED
    BY <1>1, <2>1, RequestTracks
<1>2. BInv /\ [Next]_vars =>
        [\A r \in Request :
           Ends(r, "done") =>
             \A x \in Row :
               row'[x].content = Outcome(x, req[r].before[x].content, req[r].what)]_vars
  BY <1>1
<1>3. QED
  BY <1>2, InitBInv, NextBInv, PTL DEF Spec, SuccessIsComplete

============================================================================
