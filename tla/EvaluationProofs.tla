-------------------------- MODULE EvaluationProofs --------------------------
(***************************************************************************)
(* Proofs about Evaluation for any collectors, rules, ranges, windows and  *)
(* page sizes.                                                              *)
(***************************************************************************)
EXTENDS Evaluation, FiniteSetTheorems, WellFoundedInduction, TLAPS

Types ==
  /\ active \subseteq Collector
  /\ rule   \in [Rule -> Setting \cup {Off}]
  /\ recent \in [Collector -> SUBSET Reading]
  /\ \A c \in Collector : IsFiniteSet(recent[c]) /\ Cardinality(recent[c]) <= MaxReadings
  /\ phase  \in {0, 1}
  /\ live   \in [Collector -> [Rule -> BOOLEAN]]
  /\ sweep  \in SweepState
  /\ stops  \in 0..MaxStops
  /\ steady \in BOOLEAN
  /\ (sweep.pc = "idle") <=> (sweep.todo = <<>>)

(* What a breach is at the time of the sweep. *)
Alarm(c, s) ==
  /\ AppliesTo(s, c)
  /\ \E rd \in Newest(c) : rd.age - sweep.lag <= Span(s) /\ rd.value \notin s.range

(* While nothing has changed since the sweep took up its collector: the    *)
(* rules it has loaded are those of the table, and those it has found       *)
(* breached still are.                                                      *)
LoadedStand ==
  sweep.pc = "readings" /\ steady =>
    \A r \in Rule : sweep.rules[r] # Off =>
      sweep.rules[r] = rule[r] /\ AppliesTo(rule[r], Current)
DueStand ==
  sweep.pc \in {"find", "create"} /\ steady => \A r \in sweep.due : Alarm(Current, rule[r])

(* The inductive invariant. *)
EInv == Types /\ LoadedStand /\ DueStand

----------------------------------------------------------------------------
(* The page. *)

LEMMA LeastNumber ==
  ASSUME NEW T \in SUBSET Nat, NEW n \in T
  PROVE  \E m \in T : \A k \in T : m <= k
<1> DEFINE R == {ss \in Nat \X Nat : ss[1] < ss[2]}
<1>1. IsWellFoundedOn(R, Nat)
  BY NatLessThanWellFounded DEF OpToRel
<1>2. PICK m \in T : \A k \in T : <<k, m>> \notin R
  BY <1>1, WFMin, Zenon
<1>3. m \in Nat /\ \A k \in T : k \in Nat /\ ~(k < m)
  BY <1>2
<1>4. QED
  BY <1>3

NextPage(page, n, size) ==
  IF Order[n] \in active /\ Len(page) < size THEN Append(page, Order[n]) ELSE page
IsPaging(f, n, size) ==
  f = [j \in 0..n |-> IF j = 0 THEN <<>> ELSE NextPage(f[j - 1], j, size)]

LEMMA PagingExists ==
  ASSUME NEW n \in Nat, NEW size
  PROVE  \E f : IsPaging(f, n, size)
<1> DEFINE Bad == {k \in Nat : ~\E f : IsPaging(f, k, size)}
<1>1. SUFFICES ASSUME n \in Bad PROVE FALSE
  OBVIOUS
<1>2. PICK m \in Bad : \A k \in Bad : m <= k
  BY <1>1, LeastNumber
<1>3. CASE m = 0
  <2> DEFINE f == [j \in 0..0 |-> <<>>]
  <2>1. IsPaging(f, 0, size)
    BY DEF IsPaging
  <2>2. QED
    BY <1>2, <1>3, <2>1
<1>4. CASE m # 0
  <2>1. m \in Nat /\ m - 1 \in Nat /\ m - 1 \notin Bad
    BY <1>2, <1>4
  <2>2. PICK g : IsPaging(g, m - 1, size)
    BY <2>1
  <2> DEFINE e(j) == IF j = 0 THEN <<>> ELSE NextPage(g[j - 1], j, size)
  <2> DEFINE f == [j \in 0..m |-> e(j)]
  <2>3. \A j \in 0..(m - 1) : g[j] = e(j)
    BY <2>2 DEF IsPaging
  <2>4. \A j \in 0..m : j # 0 => f[j - 1] = g[j - 1]
    BY <2>1, <2>3
  <2>5. IsPaging(f, m, size)
    BY <2>4 DEF IsPaging
  <2>6. QED
    BY <1>2, <2>5
<1>5. QED
  BY <1>3, <1>4

(* The page lists active collectors, and no more than a page holds. *)
LEMMA PageOfActive ==
  /\ ActivePage \in Seq(Collector)
  /\ \A j \in 1..Len(ActivePage) : ActivePage[j] \in active
  /\ Len(ActivePage) <= Clamp(PageAsked, PageMax)
<1> DEFINE size == Clamp(PageAsked, PageMax)
<1> DEFINE f == CHOOSE g : IsPaging(g, Len(Order), size)
<1> DEFINE Good(p) == /\ p \in Seq(Collector) /\ Len(p) <= size
                      /\ \A j \in 1..Len(p) : p[j] \in active
<1>1. size \in Nat
  BY BoundAssumption DEF Clamp
<1>2. Len(Order) \in Nat /\ \A j \in 1..Len(Order) : Order[j] \in Collector
  BY CollectorAssumption
<1>3. IsPaging(f, Len(Order), size)
  BY <1>2, PagingExists
<1>4. ActivePage = f[Len(Order)]
  BY DEF ActivePage, IsPaging, NextPage
<1> HIDE DEF f, size
<1>5. /\ f[0] = <<>>
      /\ \A j \in 1..Len(Order) : f[j] = NextPage(f[j - 1], j, size)
  BY <1>2, <1>3 DEF IsPaging
<1>6. Good(<<>>)
  BY <1>1
<1>7. ASSUME NEW j \in 1..Len(Order), NEW p, Good(p) PROVE Good(NextPage(p, j, size))
  BY <1>1, <1>2, <1>7 DEF NextPage
<1> HIDE DEF Good
<1>8. Good(f[Len(Order)])
  <2> DEFINE Bad == {k \in 0..Len(Order) : ~Good(f[k])}
  <2>1. SUFFICES ASSUME Len(Order) \in Bad PROVE FALSE
    BY <1>2
  <2>2. Bad \in SUBSET Nat
    BY <1>2
  <2> HIDE DEF Bad
  <2>3. PICK m \in Bad : \A k \in Bad : m <= k
    BY <2>1, <2>2, LeastNumber
  <2>4. m \in 0..Len(Order) /\ ~Good(f[m])
    BY <2>3 DEF Bad
  <2>5. m # 0 /\ m \in 1..Len(Order)
    BY <1>2, <1>5, <1>6, <2>4
  <2>6. m - 1 \in 0..Len(Order) /\ m - 1 \notin Bad
    BY <1>2, <2>2, <2>3, <2>5
  <2>7. Good(f[m - 1])
    BY <2>6 DEF Bad
  <2>8. QED
    BY <1>5, <1>7, <2>4, <2>5, <2>7
<1>9. QED
  BY <1>4, <1>8 DEF Good, size

----------------------------------------------------------------------------
(* Readings and time. *)

LEMMA Spans ==
  ASSUME NEW s \in Setting
  PROVE  Span(s) \in Nat /\ Span(s) + MaxLag <= Horizon /\ s # Off
<1>1. Span(s) \in Nat
  <2>1. s.window \in Int /\ DefaultWindow \in Nat
    BY RuleAssumption DEF Setting
  <2>2. CASE s.window <= 0
    BY <2>1, <2>2 DEF Span
  <2>3. CASE ~(s.window <= 0)
    BY <2>1, <2>3 DEF Span
  <2>4. QED
    BY <2>2, <2>3
<1>2. QED
  BY <1>1, HorizonAssumption, RuleAssumption DEF Setting

LEMMA ReadingFacts ==
  ASSUME NEW rd \in Reading
  PROVE  rd.age \in Int /\ rd.age <= Horizon /\ rd.value \in Value
BY BoundAssumption DEF Reading

LEMMA SecondsOrdered ==
  ASSUME phase \in {0, 1}, NEW x \in Reading, NEW y \in Reading
  PROVE  /\ Second(x) \in Int /\ Second(y) \in Int
         /\ x.age <= y.age => Second(y) <= Second(x)
<1>1. x.age \in Int /\ y.age \in Int /\ phase \in Int
  BY ReadingFacts
<1>2. QED
  BY <1>1 DEF Second

(* The order of the texts is wrong within a second only, and what is out   *)
(* of the window is older than what is in it: the latest reading of the     *)
(* window is of the collector's newest second.                              *)
LEMMA LatestIsNewest ==
  ASSUME Types, NEW c \in Collector, NEW s \in Setting, NEW rd \in LatestWithin(c, s)
  PROVE  rd \in Newest(c) /\ rd.age - sweep.lag <= Span(s)
<1>1. /\ rd \in recent[c] /\ rd.age - sweep.lag <= Span(s)
      /\ \A other \in recent[c] : other.age - sweep.lag <= Span(s) => ~TextBefore(rd, other)
  BY DEF LatestWithin
<1>2. ASSUME NEW other \in recent[c] PROVE Second(other) <= Second(rd)
  <2>1. other \in Reading /\ rd \in Reading /\ phase \in {0, 1}
    BY <1>1 DEF Types
  <2>2. Second(other) \in Int /\ Second(rd) \in Int
    BY <2>1, SecondsOrdered
  <2>3. CASE other.age - sweep.lag <= Span(s)
    BY <1>1, <2>2, <2>3 DEF TextBefore
  <2>4. CASE ~(other.age - sweep.lag <= Span(s))
    <3>1. sweep.lag \in Int /\ Span(s) \in Int /\ rd.age \in Int /\ other.age \in Int
      BY <2>1, Spans, ReadingFacts, BoundAssumption DEF Types, SweepState
    <3>2. rd.age <= other.age
      BY <1>1, <2>4, <3>1
    <3>3. QED
      BY <2>1, <3>2, SecondsOrdered
  <2>5. QED
    BY <2>3, <2>4
<1>3. QED
  BY <1>1, <1>2 DEF Newest

LEMMA OlderFacts ==
  ASSUME NEW rd \in Reading
  PROVE  /\ Older(rd).age = rd.age + 1 /\ Older(rd).value = rd.value
         /\ rd.age < Horizon => Older(rd) \in Reading
<1> DEFINE o == Older(rd)
<1>1. o.age = rd.age + 1 /\ o.value = rd.value
  BY DEF Older, Reading
<1>2. ASSUME rd.age < Horizon PROVE o \in Reading
  <2>1. rd.age + 1 \in -Ahead..Horizon
    BY <1>2, BoundAssumption DEF Reading
  <2>2. QED
    BY <2>1, Zenon DEF Older, Reading
<1>3. QED
  BY <1>1, <1>2

(* Half a second later. *)
LEMMA Ages ==
  ASSUME Types, Tick, NEW c \in Collector
  PROVE  /\ recent'[c] = {Older(rd) : rd \in {x \in recent[c] : x.age < Horizon}}
         /\ recent'[c] \subseteq Reading
         /\ IsFiniteSet(recent'[c]) /\ Cardinality(recent'[c]) <= MaxReadings
<1> DEFINE young == {x \in recent[c] : x.age < Horizon}
<1>1. recent'[c] = {Older(rd) : rd \in young}
  BY DEF Tick
<1>2. recent[c] \subseteq Reading /\ IsFiniteSet(recent[c])
      /\ Cardinality(recent[c]) <= MaxReadings
  BY DEF Types
<1>3. recent'[c] \subseteq Reading
  BY <1>1, <1>2, OlderFacts
<1>4. IsFiniteSet(young) /\ Cardinality(young) <= Cardinality(recent[c])
  BY <1>2, FS_Subset
<1>5. [rd \in young |-> Older(rd)] \in Surjection(young, recent'[c])
  BY <1>1 DEF Surjection
<1>6. IsFiniteSet(recent'[c]) /\ Cardinality(recent'[c]) <= Cardinality(young)
  BY <1>4, <1>5, FS_Surjection
<1>7. /\ Cardinality(young) \in Nat /\ Cardinality(recent[c]) \in Nat
      /\ Cardinality(recent'[c]) \in Nat /\ MaxReadings \in Nat
  BY <1>2, <1>4, <1>6, FS_CardinalityType, BoundAssumption
<1>8. Cardinality(recent'[c]) <= MaxReadings
  BY <1>2, <1>4, <1>6, <1>7
<1>9. QED
  BY <1>1, <1>3, <1>6, <1>8

(* A breach that the sweep has found ages with its sweep. *)
LEMMA AlarmAges ==
  ASSUME Types, Tick, sweep.pc # "idle", NEW c \in Collector, NEW s \in Setting, Alarm(c, s)
  PROVE  Alarm(c, s)'
<1>1. PICK rd \in Newest(c) : rd.age - sweep.lag <= Span(s) /\ rd.value \notin s.range
  BY DEF Alarm
<1>2. sweep.lag \in Nat /\ sweep.lag < MaxLag /\ sweep'.lag = sweep.lag + 1
  BY BoundAssumption DEF Tick, Types, SweepState
<1>3. /\ rd \in recent[c] /\ rd \in Reading /\ rd.age \in Int
      /\ \A other \in recent[c] : other \in Reading /\ Second(other) <= Second(rd)
  BY <1>1, ReadingFacts DEF Newest, Types
<1>4. rd.age < Horizon
  BY <1>1, <1>2, <1>3, Spans, BoundAssumption
<1>5. Older(rd) \in recent'[c]
  BY <1>3, <1>4, Ages
<1>6. /\ Older(rd).age - sweep'.lag <= Span(s) /\ Older(rd).value \notin s.range
  BY <1>1, <1>2, <1>3, OlderFacts
<1>7. ASSUME NEW y \in recent'[c] PROVE Second(y)' <= Second(Older(rd))'
  <2>1. PICK x \in recent[c] : y = Older(x)
    BY Ages
  <2>2. /\ x.age \in Int /\ phase \in {0, 1} /\ phase' = 1 - phase
        /\ y.age = x.age + 1 /\ Older(rd).age = rd.age + 1
    BY <1>3, <2>1, ReadingFacts, OlderFacts DEF Types, Tick
  <2>3. (phase - x.age) \div 2 <= (phase - rd.age) \div 2
    BY <1>3, <2>1 DEF Second
  <2>4. (phase' - y.age) \div 2 <= (phase' - (rd.age + 1)) \div 2
    BY <1>3, <2>2, <2>3
  <2>5. QED
    BY <2>2, <2>4 DEF Second
<1>8. AppliesTo(s, c)
  BY DEF Alarm
<1>9. QED
  BY <1>5, <1>6, <1>7, <1>8 DEF Alarm, Newest

----------------------------------------------------------------------------
(* The steps of the sweep. *)

(* The sweep stays a sweep. *)
Sweeps ==
  /\ sweep' \in SweepState
  /\ steady' \in BOOLEAN
  /\ (sweep'.pc = "idle") <=> (sweep'.todo = <<>>)

LEMMA TodoFacts ==
  ASSUME Types, sweep.pc # "idle"
  PROVE  /\ sweep.todo \in Seq(Collector) /\ sweep.todo # <<>>
         /\ Current \in Collector /\ Tail(sweep.todo) \in Seq(Collector)
         /\ <<>> \in Seq(Collector)
<1>1. sweep.todo \in Seq(Collector) /\ sweep.todo # <<>>
  BY DEF Types, SweepState
<1>2. QED
  BY <1>1 DEF Current

LEMMA NoSweepFacts == NoSweep \in SweepState /\ NoRules \in [Rule -> Setting \cup {Off}]
<1>1. NoRules \in [Rule -> Setting \cup {Off}]
  BY DEF NoRules
<1>2. /\ <<>> \in Seq(Collector) /\ 0 \in 0..MaxLag /\ {} \in SUBSET Rule
      /\ "idle" \in {"idle", "rules", "readings", "find", "create"}
  BY BoundAssumption
<1>3. NoSweep \in SweepState
  BY <1>1, <1>2, Zenon DEF NoSweep, SweepState
<1>4. QED
  BY <1>1, <1>3

LEMMA TurnToFacts ==
  ASSUME Types, NEW todo \in Seq(Collector), TurnTo(todo)
  PROVE  Sweeps /\ sweep'.pc \in {"idle", "rules"}
<1>1. CASE todo = <<>>
  <2>1. sweep' = NoSweep /\ steady' = TRUE
    BY <1>1 DEF TurnTo
  <2>2. QED
    BY <2>1, NoSweepFacts DEF Sweeps, NoSweep
<1>2. CASE todo # <<>>
  <2>1. /\ sweep' = [sweep EXCEPT !.pc = "rules", !.todo = todo, !.rules = NoRules, !.due = {}]
        /\ steady' = TRUE
    BY <1>2 DEF TurnTo
  <2>2. sweep' \in SweepState
    <3>1. /\ sweep \in SweepState /\ {} \in SUBSET Rule /\ NoRules \in [Rule -> Setting \cup {Off}]
          /\ "rules" \in {"idle", "rules", "readings", "find", "create"}
      BY NoSweepFacts DEF Types
    <3>2. QED
      BY <2>1, <3>1, Zenon DEF SweepState
  <2>3. sweep'.pc = "rules" /\ sweep'.todo = todo
    BY <2>1 DEF Types, SweepState
  <2>4. QED
    BY <1>2, <2>1, <2>2, <2>3 DEF Sweeps
<1>3. QED
  BY <1>1, <1>2

(* The sweep stays with its collector. *)
Stays(pc, due) ==
  /\ sweep'.pc = pc /\ sweep'.due = due
  /\ sweep'.todo = sweep.todo /\ sweep'.lag = sweep.lag /\ steady' = steady

LEMMA StaysFacts ==
  ASSUME Types, sweep.pc # "idle", NEW due \in SUBSET Rule,
         NEW rules \in [Rule -> Setting \cup {Off}],
         NEW pc \in {"rules", "readings", "find", "create"},
         sweep' = [sweep EXCEPT !.pc = pc, !.rules = rules, !.due = due], steady' = steady
  PROVE  Sweeps /\ Stays(pc, due) /\ sweep'.rules = rules
<1>1. sweep \in SweepState /\ pc \in {"idle", "rules", "readings", "find", "create"}
  BY DEF Types
<1>2. sweep' \in SweepState
  BY <1>1, Zenon DEF SweepState
<1>3. /\ sweep'.pc = pc /\ sweep'.todo = sweep.todo /\ sweep'.lag = sweep.lag
      /\ sweep'.rules = rules /\ sweep'.due = due
  BY <1>1 DEF SweepState
<1>4. QED
  BY <1>2, <1>3 DEF Sweeps, Stays, Types

LEMMA SeenFacts ==
  ASSUME Types, sweep.pc # "idle", NEW due \in SUBSET sweep.due, Seen(due)
  PROVE  Sweeps /\ (sweep'.pc \in {"idle", "rules"} \/ Stays("find", due))
<1>1. CASE due = {}
  <2>1. TurnTo(Tail(sweep.todo))
    BY <1>1 DEF Seen
  <2>2. QED
    BY <2>1, TodoFacts, TurnToFacts
<1>2. CASE due # {}
  <2>1. sweep.rules \in [Rule -> Setting \cup {Off}] /\ due \in SUBSET Rule
    BY DEF Types, SweepState
  <2>2. sweep' = [sweep EXCEPT !.pc = "find", !.rules = sweep.rules, !.due = due]
        /\ steady' = steady
    BY <1>2 DEF Seen, Types, SweepState
  <2>3. QED
    BY <2>1, <2>2, StaysFacts
<1>3. QED
  BY <1>1, <1>2

LEMMA SweepKeepsTypes ==
  ASSUME Types, Sweeps, UNCHANGED <<active, rule, recent, phase>>,
         live' \in [Collector -> [Rule -> BOOLEAN]], stops' \in 0..MaxStops
  PROVE  Types'
BY DEF Types, Sweeps

(* A breach that has been found is not touched by a query. *)
LEMMA AlarmStays ==
  ASSUME UNCHANGED <<rule, recent, phase>>, sweep'.lag = sweep.lag,
         sweep'.todo = sweep.todo, NEW r, Alarm(Current, rule[r])
  PROVE  Alarm(Current, rule[r])'
BY DEF Alarm, Newest, Second, Current, AppliesTo

(* Queries about the tickets of those rules. *)
LEMMA TicketStep ==
  ASSUME EInv, sweep.pc \in {"find", "create"}, NEW due \in SUBSET sweep.due,
         NEW pc \in {"find", "create"}, Sweeps, Stays(pc, due),
         UNCHANGED <<rule, recent, phase>>
  PROVE  LoadedStand' /\ DueStand'
<1>1. LoadedStand'
  BY DEF LoadedStand, Stays
<1>2. ASSUME steady', NEW r \in sweep'.due PROVE Alarm(Current, rule[r])'
  <2>1. Alarm(Current, rule[r])
    BY <1>2 DEF EInv, DueStand, Stays
  <2>2. QED
    BY <2>1, AlarmStays DEF Stays
<1>3. QED
  BY <1>1, <1>2 DEF DueStand

LEMMA OffTheTickets ==
  ASSUME sweep'.pc \in {"idle", "rules"}
  PROVE  LoadedStand' /\ DueStand'
BY DEF LoadedStand, DueStand

LEMMA ListKeeps == ASSUME EInv, List PROVE EInv'
<1>1. Sweeps /\ sweep'.pc \in {"idle", "rules"}
  BY PageOfActive, TurnToFacts DEF List, EInv
<1>2. Types'
  BY <1>1, SweepKeepsTypes DEF List, EInv, Types
<1>3. QED
  BY <1>1, <1>2, OffTheTickets DEF EInv

LEMMA LoadRulesKeeps ==
  ASSUME EInv, NEW c \in Collector, LoadRules(c) PROVE EInv'
<1> DEFINE rules == [r \in Rule |-> IF AppliesTo(rule[r], c) THEN rule[r] ELSE Off]
<1>1. /\ sweep.pc = "rules" /\ Current = c
      /\ UNCHANGED <<active, rule, recent, phase, live, steady, stops>>
  BY DEF LoadRules
<1>2. rules \in [Rule -> Setting \cup {Off}] /\ sweep.due \in SUBSET Rule
  BY DEF EInv, Types, SweepState
<1>3. sweep' = [sweep EXCEPT !.pc = "readings", !.rules = rules, !.due = sweep.due]
  BY DEF LoadRules, EInv, Types, SweepState
<1>4. \A r \in Rule : rules[r] # Off => rules[r] = rule[r] /\ AppliesTo(rule[r], c)
  OBVIOUS
<1> HIDE DEF rules
<1>5. Sweeps /\ Stays("readings", sweep.due) /\ sweep'.rules = rules
  BY <1>1, <1>2, <1>3, StaysFacts DEF EInv
<1>6. Types'
  BY <1>1, <1>5, SweepKeepsTypes DEF EInv, Types
<1>7. LoadedStand' /\ DueStand'
  BY <1>1, <1>4, <1>5 DEF LoadedStand, DueStand, Stays, Current, AppliesTo
<1>8. QED
  BY <1>6, <1>7 DEF EInv

LEMMA LoadReadingsKeeps ==
  ASSUME EInv, NEW c \in Collector, LoadReadings(c) PROVE EInv'
<1>1. /\ sweep.pc = "readings" /\ Current = c /\ Types
      /\ UNCHANGED <<active, rule, recent, phase, live, stops>>
  BY DEF LoadReadings, EInv
<1>2. PICK due \in SUBSET {r \in Rule : sweep.rules[r] # Off} :
        /\ \A r \in due : \E rd \in LatestWithin(c, sweep.rules[r]) : Breaches(rd, sweep.rules[r])
        /\ IF due = {} THEN TurnTo(Tail(sweep.todo))
           ELSE /\ sweep' = [sweep EXCEPT !.pc = "find", !.rules = NoRules, !.due = due]
                /\ UNCHANGED steady
  BY DEF LoadReadings
<1>3. CASE due = {}
  <2>1. Sweeps /\ sweep'.pc \in {"idle", "rules"}
    BY <1>1, <1>2, <1>3, TodoFacts, TurnToFacts
  <2>2. QED
    BY <1>1, <2>1, SweepKeepsTypes, OffTheTickets DEF EInv, Types
<1>4. CASE due # {}
  <2>1. Sweeps /\ Stays("find", due)
    BY <1>1, <1>2, <1>4, StaysFacts, NoSweepFacts
  <2>2. ASSUME steady', NEW r \in due PROVE Alarm(Current, rule[r])'
    <3>1. /\ sweep.rules[r] = rule[r] /\ AppliesTo(rule[r], c) /\ sweep.rules[r] \in Setting
          /\ r \in Rule
      BY <1>1, <1>2, <2>1, <2>2 DEF EInv, LoadedStand, Types, SweepState, Stays
    <3>2. PICK rd \in LatestWithin(c, rule[r]) : Breaches(rd, rule[r])
      BY <1>2, <2>2, <3>1
    <3>3. rd \in Newest(c) /\ rd.age - sweep.lag <= Span(rule[r])
      BY <1>1, <3>1, <3>2, LatestIsNewest
    <3>4. Alarm(Current, rule[r])
      BY <1>1, <3>1, <3>2, <3>3 DEF Alarm, Breaches
    <3>5. QED
      BY <1>1, <2>1, <3>4, AlarmStays DEF Stays
  <2>3. LoadedStand' /\ DueStand'
    BY <2>1, <2>2 DEF LoadedStand, DueStand, Stays
  <2>4. QED
    BY <1>1, <2>1, <2>3, SweepKeepsTypes DEF EInv, Types
<1>5. QED
  BY <1>3, <1>4

(* The sweep goes on, or is over. *)
LEMMA LeavesKeep ==
  ASSUME EInv, NEW todo \in {Tail(sweep.todo), <<>>}, sweep.pc # "idle", TurnTo(todo),
         UNCHANGED <<active, rule, recent, phase, live>>, stops' \in 0..MaxStops
  PROVE  EInv'
<1>1. Sweeps /\ sweep'.pc \in {"idle", "rules"}
  BY TodoFacts, TurnToFacts DEF EInv
<1>2. QED
  BY <1>1, SweepKeepsTypes, OffTheTickets DEF EInv, Types

LEMMA SeenKeeps ==
  ASSUME EInv, sweep.pc \in {"find", "create"}, NEW due \in SUBSET sweep.due, Seen(due),
         UNCHANGED <<active, rule, recent, phase, stops>>,
         live' \in [Collector -> [Rule -> BOOLEAN]]
  PROVE  EInv'
<1>1. Sweeps /\ (sweep'.pc \in {"idle", "rules"} \/ Stays("find", due))
  BY SeenFacts DEF EInv
<1>2. Types'
  BY <1>1, SweepKeepsTypes DEF EInv, Types
<1>3. LoadedStand' /\ DueStand'
  BY <1>1, OffTheTickets, TicketStep
<1>4. QED
  BY <1>2, <1>3 DEF EInv

LEMMA FindKeeps ==
  ASSUME EInv, NEW c \in Collector, Find(c) PROVE EInv'
<1>1. /\ sweep.pc = "find" /\ UNCHANGED <<active, rule, recent, phase, live, stops>>
      /\ live' \in [Collector -> [Rule -> BOOLEAN]]
  BY DEF Find, EInv, Types
<1>2. PICK r \in sweep.due :
        IF live[c][r] THEN Seen(sweep.due \ {r})
        ELSE sweep' = [sweep EXCEPT !.pc = "create"] /\ UNCHANGED steady
  BY DEF Find
<1>3. CASE live[c][r]
  BY <1>1, <1>2, <1>3, SeenKeeps
<1>4. CASE ~live[c][r]
  <2>1. /\ sweep' = [sweep EXCEPT !.pc = "create", !.rules = sweep.rules, !.due = sweep.due]
        /\ steady' = steady
        /\ sweep.due \in SUBSET Rule /\ sweep.rules \in [Rule -> Setting \cup {Off}]
    BY <1>2, <1>4 DEF EInv, Types, SweepState
  <2>2. Sweeps /\ Stays("create", sweep.due)
    BY <1>1, <2>1, StaysFacts DEF EInv
  <2>3. QED
    BY <1>1, <2>2, TicketStep, SweepKeepsTypes DEF EInv, Types
<1>5. QED
  BY <1>3, <1>4

LEMMA CreateKeeps ==
  ASSUME EInv, NEW c \in Collector, Create(c) PROVE EInv'
<1>1. /\ sweep.pc = "create" /\ UNCHANGED <<active, rule, recent, phase, stops>>
  BY DEF Create
<1>2. PICK r \in sweep.due : live' = [live EXCEPT ![c][r] = TRUE] /\ Seen(sweep.due \ {r})
  BY DEF Create
<1>3. live' \in [Collector -> [Rule -> BOOLEAN]]
  BY <1>2 DEF EInv, Types
<1>4. QED
  BY <1>1, <1>2, <1>3, SeenKeeps

LEMMA TicketErrsKeeps ==
  ASSUME EInv, NEW c \in Collector, TicketErrs(c) PROVE EInv'
<1>1. PICK r \in sweep.due : Seen(sweep.due \ {r})
  BY DEF TicketErrs
<1>2. QED
  BY <1>1, SeenKeeps DEF TicketErrs, EInv, Types

----------------------------------------------------------------------------
(* Everybody else. *)

LEMMA ChangeRuleKeeps ==
  ASSUME EInv, NEW r \in Rule, ChangeRule(r) PROVE EInv'
<1>1. PICK s \in Setting \cup {Off} : rule' = [rule EXCEPT ![r] = s]
  BY DEF ChangeRule
<1>2. /\ UNCHANGED <<active, recent, phase, live, sweep, stops>>
      /\ steady' = (sweep.pc = "idle")
  BY DEF ChangeRule, Unsteady
<1>3. rule' \in [Rule -> Setting \cup {Off}]
  BY <1>1 DEF EInv, Types
<1>4. steady' \in BOOLEAN /\ (steady' => sweep'.pc = "idle")
  BY <1>2
<1>5. Types'
  BY <1>2, <1>3, <1>4 DEF EInv, Types
<1>6. LoadedStand' /\ DueStand'
  BY <1>4 DEF LoadedStand, DueStand
<1>7. QED
  BY <1>5, <1>6 DEF EInv

LEMMA AppendReadingKeeps ==
  ASSUME EInv, NEW c \in Collector, AppendReading(c) PROVE EInv'
<1>1. PICK rd \in Reading : recent' = [recent EXCEPT ![c] = @ \cup {rd}]
  BY DEF AppendReading
<1>2. /\ UNCHANGED <<active, rule, phase, live, sweep, stops>>
      /\ steady' = (sweep.pc = "idle") /\ Cardinality(recent[c]) < MaxReadings
  BY DEF AppendReading, Unsteady
<1>3. /\ recent \in [Collector -> SUBSET Reading] /\ MaxReadings \in Nat
      /\ IsFiniteSet(recent[c]) /\ Cardinality(recent[c]) \in Nat
  BY FS_CardinalityType, BoundAssumption DEF EInv, Types
<1>4. recent' \in [Collector -> SUBSET Reading] /\ recent'[c] = recent[c] \cup {rd}
      /\ \A d \in Collector : d # c => recent'[d] = recent[d]
  BY <1>1, <1>3
<1>5. IsFiniteSet(recent'[c]) /\ Cardinality(recent'[c]) <= MaxReadings
  <2>1. /\ IsFiniteSet(recent[c] \cup {rd})
        /\ Cardinality(recent[c] \cup {rd}) =
             IF rd \in recent[c] THEN Cardinality(recent[c]) ELSE Cardinality(recent[c]) + 1
    BY <1>3, FS_AddElement
  <2>2. Cardinality(recent[c] \cup {rd}) <= MaxReadings
    BY <1>2, <1>3, <2>1
  <2>3. QED
    BY <1>4, <2>1, <2>2
<1>6. \A d \in Collector : IsFiniteSet(recent'[d]) /\ Cardinality(recent'[d]) <= MaxReadings
  BY <1>4, <1>5 DEF EInv, Types
<1>7. steady' \in BOOLEAN /\ (steady' => sweep'.pc = "idle")
  BY <1>2
<1>8. Types'
  BY <1>2, <1>4, <1>6, <1>7 DEF EInv, Types
<1>9. LoadedStand' /\ DueStand'
  BY <1>7 DEF LoadedStand, DueStand
<1>10. QED
  BY <1>8, <1>9 DEF EInv

LEMMA TickKeeps == ASSUME EInv, Tick PROVE EInv'
<1>1. /\ UNCHANGED <<active, rule, live, steady, stops>> /\ Types
      /\ phase' \in {0, 1}
      /\ recent' = [c \in Collector |-> recent'[c]]
  BY DEF Tick, EInv, Types
<1>2. recent' \in [Collector -> SUBSET Reading]
      /\ \A c \in Collector : IsFiniteSet(recent'[c]) /\ Cardinality(recent'[c]) <= MaxReadings
  BY <1>1, Ages
<1>3. CASE sweep.pc = "idle"
  <2>1. sweep' = sweep
    BY <1>3 DEF Tick
  <2>2. QED
    BY <1>1, <1>2, <1>3, <2>1 DEF EInv, Types, LoadedStand, DueStand
<1>4. CASE sweep.pc # "idle"
  <2>1. sweep.lag + 1 \in 0..MaxLag /\ sweep' = [sweep EXCEPT !.lag = sweep.lag + 1]
    BY <1>1, <1>4, BoundAssumption DEF Tick, Types, SweepState
  <2>2. sweep' \in SweepState
    BY <1>1, <2>1, Zenon DEF Types, SweepState
  <2>3. /\ sweep'.pc = sweep.pc /\ sweep'.todo = sweep.todo
        /\ sweep'.rules = sweep.rules /\ sweep'.due = sweep.due
    BY <1>1, <2>1 DEF Types, SweepState
  <2>4. Types'
    BY <1>1, <1>2, <2>2, <2>3 DEF Types
  <2>5. LoadedStand'
    BY <1>1, <2>3 DEF EInv, LoadedStand, Current, AppliesTo
  <2>6. ASSUME sweep.pc \in {"find", "create"}, steady, NEW r \in sweep.due
        PROVE  Alarm(Current, rule[r])'
    <3>1. Alarm(Current, rule[r]) /\ Current \in Collector /\ rule[r] \in Setting
      BY <1>1, <1>4, <2>6, TodoFacts DEF EInv, DueStand, Alarm, AppliesTo, Types, SweepState
    <3>2. PICK c \in Collector : c = Current
      BY <3>1
    <3>3. PICK s \in Setting : s = rule[r]
      BY <3>1
    <3>4. Alarm(c, s)'
      BY <1>1, <1>4, <3>1, <3>2, <3>3, AlarmAges
    <3>5. Current' = c /\ rule'[r] = s
      BY <1>1, <2>3, <3>2, <3>3 DEF Current
    <3>6. QED
      BY <3>4, <3>5 DEF Alarm
  <2>7. DueStand'
    BY <1>1, <2>3, <2>6 DEF DueStand
  <2>8. QED
    BY <2>4, <2>5, <2>7 DEF EInv
<1>5. QED
  BY <1>3, <1>4

LEMMA InitEInv == Init => EInv
<1> SUFFICES ASSUME Init PROVE EInv
  OBVIOUS
<1>1. \A c \in Collector : IsFiniteSet(recent[c]) /\ Cardinality(recent[c]) <= MaxReadings
  BY FS_EmptySet, BoundAssumption DEF Init
<1>2. Types
  BY <1>1, NoSweepFacts, BoundAssumption DEF Init, Types, NoSweep
<1>3. sweep.pc = "idle"
  BY DEF Init, NoSweep
<1>4. QED
  BY <1>2, <1>3 DEF EInv, LoadedStand, DueStand

LEMMA NextEInv == EInv /\ [Next]_vars => EInv'
<1> SUFFICES ASSUME EInv, [Next]_vars PROVE EInv'
  OBVIOUS
<1>1. CASE UNCHANGED vars
  BY <1>1 DEF vars, EInv, Types, LoadedStand, DueStand, Alarm, Newest, Second, Current, AppliesTo
<1>2. ASSUME NEW c \in Collector, LoadErrs(c) PROVE EInv'
  BY <1>2, LeavesKeep DEF LoadErrs, EInv, Types
<1>3. CASE Cancel
  <2>1. stops' \in 0..MaxStops
    BY <1>3, BoundAssumption DEF Cancel, EInv, Types
  <2>2. QED
    BY <1>3, <2>1, LeavesKeep DEF Cancel
<1>4. ASSUME NEW c \in Collector, SetStatus(c) PROVE EInv'
  BY <1>4 DEF SetStatus, EInv, Types, LoadedStand, DueStand, Alarm, Newest, Second, Current,
              AppliesTo
<1>5. ASSUME NEW c \in Collector, NEW r \in Rule, Close(c, r) PROVE EInv'
  BY <1>5 DEF Close, EInv, Types, LoadedStand, DueStand, Alarm, Newest, Second, Current,
              AppliesTo
<1>6. ASSUME NEW c \in Collector, Evaluate(c) PROVE EInv'
  BY <1>2, <1>6, LoadRulesKeeps, LoadReadingsKeeps, FindKeeps, CreateKeeps, TicketErrsKeeps
  DEF Evaluate
<1>7. ASSUME NEW c \in Reporting, AppendReading(c) PROVE EInv'
  BY <1>7, AppendReadingKeeps, CollectorAssumption
<1>8. QED
  BY <1>1, <1>3, <1>4, <1>5, <1>6, <1>7, ListKeeps, ChangeRuleKeeps, TickKeeps DEF Next

LEMMA SpecEInv == Spec => []EInv
BY InitEInv, NextEInv, PTL DEF Spec

(* A sweep is at a collector exactly when it has some left, and all that   *)
(* is kept has its type.                                                    *)
THEOREM EvaluationTypeCorrect == Spec => []TypeOK
<1>1. EInv => TypeOK
  BY DEF EInv, Types, TypeOK
<1>2. QED
  BY <1>1, SpecEInv, PTL

(* No false alarm: the steps that raise a ticket are those of a sweep that *)
(* has found the newest reading out of the rule's range.                    *)
THEOREM AlarmsAreTrue == Spec => NoFalseAlarm
<1>1. ASSUME EInv, [Next]_vars, NEW c \in Collector, NEW r \in Rule,
             ~live[c][r], live'[c][r], steady
      PROVE  Alarm(c, rule[r])
  <2>1. live \in [Collector -> [Rule -> BOOLEAN]] /\ live' # live
    BY <1>1 DEF EInv, Types
  <2>2. ASSUME NEW d \in Collector, NEW q \in Rule, Close(d, q) PROVE FALSE
    BY <1>1, <2>1, <2>2 DEF Close
  <2>3. \E d \in Collector : Create(d)
    BY <1>1, <2>1, <2>2 DEF Next, Evaluate, List, LoadRules, LoadReadings, LoadErrs, Find,
         TicketErrs, SetStatus, AppendReading, ChangeRule, Cancel, Tick, vars
  <2>4. PICK d \in Collector : Create(d)
    BY <2>3
  <2>5. PICK q \in sweep.due : live' = [live EXCEPT ![d][q] = TRUE]
    BY <2>4 DEF Create
  <2>6. d = c /\ q = r /\ Current = d /\ sweep.pc = "create"
    BY <1>1, <2>1, <2>4, <2>5 DEF Create
  <2>7. QED
    BY <1>1, <2>5, <2>6 DEF EInv, DueStand
<1>2. EInv /\ [Next]_vars =>
        [\A c \in Collector, r \in Rule :
           ~live[c][r] /\ live'[c][r] /\ steady =>
             /\ AppliesTo(rule[r], c)
             /\ \E rd \in Newest(c) : /\ rd.age - sweep.lag <= Span(rule[r])
                                      /\ rd.value \notin rule[r].range]_vars
  BY <1>1 DEF Alarm
<1>3. QED
  BY <1>2, InitEInv, NextEInv, PTL DEF Spec, NoFalseAlarm

=============================================================================
