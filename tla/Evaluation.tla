----------------------------- MODULE Evaluation -----------------------------
(***************************************************************************)
(* The evaluator's sweep (AlertService.Evaluate): one page of the active   *)
(* collectors, then for each of them its enabled rules, its recent         *)
(* readings and, where the latest reading within a rule's window is out of *)
(* the rule's range, a ticket.  Each query is a step of its own: rules,    *)
(* readings and collectors change between any two of them.  What becomes   *)
(* of a ticket is AlertTicket's subject; here it is live or not.           *)
(*                                                                         *)
(* The clock ticks in half seconds and times are relative: a reading       *)
(* carries its age, negative for one dated ahead by its client.            *)
(***************************************************************************)
EXTENDS Integers, Sequences, FiniteSets

CONSTANTS
  Collector,      \* collectors, ...
  Order,          \* ... in the order ORDER BY created_at DESC
  Reporting,      \* those that send readings
  Broken,         \* those whose queries may fail for ever
  Rule,
  Off,            \* a rule that is disabled, deleted or not created yet
  All,            \* the scope of a rule without a collector
  Scope,          \* scopes a rule may get
  Value,          \* what a rule looks at in a reading
  Accepting,      \* ranges a rule may get: sets of the values it accepts
  Window,         \* values of window_seconds
  DefaultWindow,  \* taken for a window that is not positive
  PageAsked,      \* the page size Evaluate asks for
  PageMax,        \* and the one paginatedQuery grants at most
  Horizon,        \* bound: half seconds until a reading is out of every window
  Ahead,          \* bound: half seconds a reading is dated ahead
  MaxLag,         \* bound: half seconds a sweep takes
  MaxReadings,    \* bound: readings of a collector young enough to count
  MaxStops        \* bound: sweeps cut short

ASSUME CollectorAssumption ==
  /\ Reporting \cup Broken \subseteq Collector /\ Scope \subseteq Collector \cup {All}
  /\ Order \in Seq(Collector) /\ {Order[n] : n \in 1..Len(Order)} = Collector
  /\ \A n, m \in 1..Len(Order) : Order[n] = Order[m] => n = m
ASSUME RuleAssumption ==
  /\ Accepting \subseteq SUBSET Value /\ Window \subseteq Int /\ DefaultWindow \in Nat \ {0}
  /\ Off \notin [scope : Scope, range : Accepting, window : Window]
ASSUME BoundAssumption ==
  /\ PageAsked \in Int /\ PageMax \in Nat \ {0}
  /\ {Horizon, Ahead, MaxLag, MaxReadings, MaxStops} \subseteq Nat

VARIABLES
  active,  \* collectors with status active
  rule,    \* rules
  recent,  \* per collector, the readings of reading_index young enough to count
  phase,   \* 0 when the clock stands at a whole second, 1 half a second later
  live,    \* live[c][r]: alerts holds a live ticket for the collector and rule
  sweep,   \* where Evaluate is
  stops,   \* sweeps cut short so far
  steady   \* history: since the sweep took up its collector neither a rule nor
           \* a reading has changed

vars == <<active, rule, recent, phase, live, sweep, stops, steady>>

Setting == [scope : Scope, range : Accepting, window : Window]

(* The window of a rule in half seconds. *)
Span(s) == 2 * (IF s.window <= 0 THEN DefaultWindow ELSE s.window)

(* A reading beyond the horizon is out of every window, however long the    *)
(* sweep.                                                                   *)
ASSUME HorizonAssumption == \A s \in Setting : Span(s) + MaxLag <= Horizon

Reading == [age : -Ahead..Horizon, value : Value]

SweepState == [pc    : {"idle", "rules", "readings", "find", "create"},
               todo  : Seq(Collector),              \* the current one first
               lag   : 0..MaxLag,                   \* since the time in now
               rules : [Rule -> Setting \cup {Off}],  \* as loaded
               due   : SUBSET Rule]                 \* found breached, not seen to yet

NoRules == [r \in Rule |-> Off]
NoSweep == [pc |-> "idle", todo |-> <<>>, lag |-> 0, rules |-> NoRules, due |-> {}]

TypeOK ==
  /\ active \subseteq Collector
  /\ rule   \in [Rule -> Setting \cup {Off}]
  /\ DOMAIN recent = Collector
  /\ \A c \in Collector : /\ recent[c] \subseteq Reading
                          /\ Cardinality(recent[c]) <= MaxReadings
  /\ phase  \in {0, 1}
  /\ live   \in [Collector -> [Rule -> BOOLEAN]]
  /\ sweep  \in SweepState
  /\ stops  \in 0..MaxStops
  /\ steady \in BOOLEAN
  /\ (sweep.pc = "idle") <=> (sweep.todo = <<>>)

Init ==
  /\ active = {}
  /\ rule   = NoRules
  /\ recent = [c \in Collector |-> {}]
  /\ phase  = 0
  /\ live   = [c \in Collector |-> [r \in Rule |-> FALSE]]
  /\ sweep  = NoSweep
  /\ stops  = 0
  /\ steady = TRUE

----------------------------------------------------------------------------
(* Queries. *)

(* Page.Normalize. *)
Clamp(size, max) == IF size <= 0 \/ size > max THEN max ELSE size

(* The first page of the active collectors, the newest first. *)
ActivePage ==
  LET size == Clamp(PageAsked, PageMax)
      page[n \in 0..Len(Order)] ==
        IF n = 0 THEN <<>>
        ELSE IF Order[n] \in active /\ Len(page[n - 1]) < size
             THEN Append(page[n - 1], Order[n])
             ELSE page[n - 1]
  IN  page[Len(Order)]

(* EnabledFor. *)
AppliesTo(s, c) == s # Off /\ s.scope \in {All, c}

(* Times are stored and ordered as text, RFC 3339 with trailing zeros cut:  *)
(* within a second, the whole second sorts after its fractions.             *)
Second(rd)   == (phase - rd.age) \div 2
Fraction(rd) == (phase - rd.age) % 2
TextBefore(x, y) ==
  \/ Second(x) < Second(y)
  \/ Second(x) = Second(y) /\ Fraction(x) > Fraction(y)

(* The first reading of ORDER BY ts ASC that is in the window decides. *)
EarliestWithin(c, s) ==
  LET within == {rd \in recent[c] : rd.age - sweep.lag <= Span(s)}
  IN  {rd \in within : \A other \in within : ~TextBefore(other, rd)}

(* latestWithin: the first reading of ORDER BY ts DESC that is not before   *)
(* now - window decides; the order of equal times is open.                  *)
LatestWithin(c, s) ==
  LET within == {rd \in recent[c] : rd.age - sweep.lag <= Span(s)}
  IN  {rd \in within : \A other \in within : ~TextBefore(rd, other)}

(* Rule.Evaluate, for any metric: the value is above the maximum, below the *)
(* minimum, or the fault code that triggers.                                *)
Breaches(rd, s) == rd.value \notin s.range

----------------------------------------------------------------------------
(* The sweep. *)

Current == Head(sweep.todo)

(* There is always a next collector. *)
TurnToMore(todo) ==
  /\ sweep' = [sweep EXCEPT !.pc = "rules", !.todo = todo, !.rules = NoRules, !.due = {}]
  /\ steady' = TRUE

(* On to the next collector, or the end. *)
TurnTo(todo) ==
  /\ sweep' = IF todo = <<>> THEN NoSweep
              ELSE [sweep EXCEPT !.pc = "rules", !.todo = todo, !.rules = NoRules, !.due = {}]
  /\ steady' = TRUE

Seen(due) ==
  IF due = {} THEN TurnTo(Tail(sweep.todo))
  ELSE sweep' = [sweep EXCEPT !.pc = "find", !.due = due] /\ UNCHANGED steady

(* The evaluator's tick: the time is taken and the collectors are listed.   *)
List ==
  /\ sweep.pc = "idle"
  /\ TurnTo(ActivePage)
  /\ UNCHANGED <<active, rule, recent, phase, live, stops>>

LoadRules(c) ==
  /\ sweep.pc = "rules" /\ Current = c
  /\ sweep' = [sweep EXCEPT !.pc = "readings",
                 !.rules = [r \in Rule |-> IF AppliesTo(rule[r], c) THEN rule[r] ELSE Off]]
  /\ UNCHANGED <<active, rule, recent, phase, live, steady, stops>>

(* Recent, and the decision over each rule. *)
LoadReadings(c) ==
  /\ sweep.pc = "readings" /\ Current = c
  /\ LET loaded    == {r \in Rule : sweep.rules[r] # Off}
         latest(r) == LatestWithin(c, sweep.rules[r])
     IN  \E due \in SUBSET loaded :
           /\ \A r \in due : \E rd \in latest(r) : Breaches(rd, sweep.rules[r])
           /\ \A r \in loaded \ due :
                \/ latest(r) = {}
                \/ \E rd \in latest(r) : ~Breaches(rd, sweep.rules[r])
           /\ IF due = {} THEN TurnTo(Tail(sweep.todo))
              ELSE /\ sweep' = [sweep EXCEPT !.pc = "find", !.rules = NoRules, !.due = due]
                   /\ UNCHANGED steady
  /\ UNCHANGED <<active, rule, recent, phase, live, stops>>

(* The sweep gives up. *)
LoadErrsAndReturns(c) ==
  /\ sweep.pc \in {"rules", "readings"} /\ Current = c
  /\ TurnTo(<<>>)
  /\ UNCHANGED <<active, rule, recent, phase, live, stops>>

(* The rules or the readings cannot be loaded: the next collector. *)
LoadErrs(c) ==
  /\ sweep.pc \in {"rules", "readings"} /\ Current = c
  /\ TurnTo(Tail(sweep.todo))
  /\ UNCHANGED <<active, rule, recent, phase, live, stops>>

(* FindActive; a live ticket is only touched. *)
Find(c) ==
  /\ sweep.pc = "find" /\ Current = c
  /\ \E r \in sweep.due :
       IF live[c][r] THEN Seen(sweep.due \ {r})
       ELSE sweep' = [sweep EXCEPT !.pc = "create"] /\ UNCHANGED steady
  /\ UNCHANGED <<active, rule, recent, phase, live, stops>>

Create(c) ==
  /\ sweep.pc = "create" /\ Current = c
  /\ \E r \in {r \in sweep.due : ~live[c][r]} :
       /\ live' = [live EXCEPT ![c][r] = TRUE]
       /\ Seen(sweep.due \ {r})
  /\ UNCHANGED <<active, rule, recent, phase, stops>>

(* The next rule. *)
TicketErrs(c) ==
  /\ sweep.pc \in {"find", "create"} /\ Current = c
  /\ \E r \in sweep.due : Seen(sweep.due \ {r})
  /\ UNCHANGED <<active, rule, recent, phase, live, stops>>

(* The context is cancelled, or the process dies and starts again. *)
Cancel ==
  /\ sweep.pc # "idle" /\ stops < MaxStops
  /\ stops' = stops + 1
  /\ TurnTo(<<>>)
  /\ UNCHANGED <<active, rule, recent, phase, live>>

----------------------------------------------------------------------------
(* Everybody else. *)

SetStatus(c) ==
  /\ active' = IF c \in active THEN active \ {c} ELSE active \cup {c}
  /\ UNCHANGED <<rule, recent, phase, live, sweep, steady, stops>>

Unsteady == steady' = (sweep.pc = "idle")

ChangeRule(r) ==
  /\ \E s \in (Setting \cup {Off}) \ {rule[r]} : rule' = [rule EXCEPT ![r] = s]
  /\ Unsteady
  /\ UNCHANGED <<active, recent, phase, live, sweep, stops>>

(* A reading is indexed, under the time its client gave or that of its lease. *)
AppendReading(c) ==
  /\ Cardinality(recent[c]) < MaxReadings
  /\ \E rd \in Reading \ recent[c] : recent' = [recent EXCEPT ![c] = @ \cup {rd}]
  /\ Unsteady
  /\ UNCHANGED <<active, rule, phase, live, sweep, stops>>

(* The ticket is resolved or revoked. *)
Close(c, r) ==
  /\ live[c][r]
  /\ live' = [live EXCEPT ![c][r] = FALSE]
  /\ UNCHANGED <<active, rule, recent, phase, sweep, steady, stops>>

Older(rd) == [rd EXCEPT !.age = @ + 1]

Tick ==
  /\ sweep.pc = "idle" \/ sweep.lag < MaxLag
  /\ phase' = 1 - phase
  /\ recent' = [c \in Collector |->
                  {Older(rd) : rd \in {x \in recent[c] : x.age < Horizon}}]
  /\ sweep' = IF sweep.pc = "idle" THEN sweep ELSE [sweep EXCEPT !.lag = @ + 1]
  /\ UNCHANGED <<active, rule, live, steady, stops>>

----------------------------------------------------------------------------
Evaluate(c) == LoadRules(c) \/ LoadReadings(c) \/ LoadErrs(c)
                 \/ Find(c) \/ Create(c) \/ TicketErrs(c)

Next ==
  \/ List
  \/ \E c \in Collector : Evaluate(c) \/ SetStatus(c)
  \/ \E c \in Reporting : AppendReading(c)
  \/ \E r \in Rule : ChangeRule(r)
  \/ \E c \in Collector, r \in Rule : Close(c, r)
  \/ Cancel
  \/ Tick

Spec == Init /\ [][Next]_vars

(* The scheduler ticks the evaluator for ever, and a sweep goes on.  A      *)
(* query that is made again and again succeeds again and again, except the  *)
(* broken collectors' ones.                                                 *)
Fairness ==
  /\ WF_vars(List)
  /\ \A c \in Collector : WF_vars(Evaluate(c))
  /\ \A c \in Collector \ Broken :
       SF_vars(LoadRules(c)) /\ SF_vars(LoadReadings(c)) /\ SF_vars(Find(c)) /\ SF_vars(Create(c))

FairSpec == Spec /\ Fairness

----------------------------------------------------------------------------
(* What ought to decide: the readings of the newest second. *)

Newest(c) == {rd \in recent[c] : \A other \in recent[c] : Second(other) <= Second(rd)}

(* No false alarm: when a ticket is raised for a collector and a rule, and  *)
(* neither rules nor readings changed since the sweep took up the           *)
(* collector, the rule governs this collector and a reading of its newest   *)
(* second, young enough at the time of the sweep, is out of its range.      *)
(* This although the latest reading is found by comparing texts, which      *)
(* puts times of one second in the wrong order.                             *)
NoFalseAlarm ==
  [][\A c \in Collector, r \in Rule :
       ~live[c][r] /\ live'[c][r] /\ steady =>
         /\ AppliesTo(rule[r], c)
         /\ \E rd \in Newest(c) : /\ rd.age - sweep.lag <= Span(rule[r])
                                  /\ rd.value \notin rule[r].range]_vars

(* The sweep reaches an active collector only on its one page, the newest   *)
(* PageMax.                                                                 *)
Watched(c) ==
  c \in active /\ Cardinality({n \in 1..Len(Order) :
                    /\ Order[n] \in active
                    /\ \E m \in (n + 1)..Len(Order) : Order[m] = c}) < Clamp(PageAsked, PageMax)

Breached(c, r) ==
  /\ AppliesTo(rule[r], c)
  /\ Newest(c) # {}
  /\ \A rd \in Newest(c) : rd.age <= Span(rule[r]) /\ rd.value \notin rule[r].range

----------------------------------------------------------------------------
(* Liveness: "scans recent readings against enabled rules and raises ...    *)
(* alerts" (orchestration/alert.go:23).  A collector whose newest readings  *)
(* stay out of range has a live ticket again and again, however often its   *)
(* tickets are closed and other collectors of the page fail, if sweeps are  *)
(* not cut short for ever; it has to stay on that page.                     *)
BreachGetsTicket ==
  \A c \in Collector \ Broken, r \in Rule :
    <>[](Watched(c) /\ Breached(c, r)) => []<>live[c][r]

============================================================================
