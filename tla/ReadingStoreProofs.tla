------------------------- MODULE ReadingStoreProofs -------------------------
(***************************************************************************)
(* Proofs about ReadingStore for any readings, appenders and requests, and *)
(* for any number of crashes, shutdowns and failed rollbacks.               *)
(***************************************************************************)
EXTENDS ReadingStore, TLAPS

Active(a) == app[a].pc # "idle"

(* The appender that is under way holds the shard lock, and nobody else.    *)
Holding == \A a \in Appender : Active(a) <=> mu = a

(* Where an appender is: the file ended after its first size lines, with   *)
(* what was torn there, and has at most the appender's own line more.       *)
OwnLine(a) == IF app[a].torn = None THEN app[a].id ELSE Corrupt
Placed(a) ==
  /\ app[a].id \in Reading
  /\ Len(file) \in {app[a].size, app[a].size + 1}
  /\ Len(file) = app[a].size + 1 => torn = None /\ file[Len(file)] = OwnLine(a)
  /\ app[a].pc = "begun" => Len(file) = app[a].size /\ torn = app[a].torn
  /\ app[a].pc = "written" => Len(file) = app[a].size + 1

(* The cached count is that of the file, or there is none; a process that  *)
(* is about to stop may have left it wrong, but writes no more.             *)
CountRight ==
  intact /\ mode # "stopping" =>
    /\ mu = None => counts \in {-1, Len(file)}
    /\ \A a \in Appender : Active(a) =>
         /\ app[a].lineNo = app[a].size
         /\ app[a].pc = "written" => counts = Len(file)

(* A row leads to its reading or to nothing that decodes, in the first k   *)
(* lines of the file or in what follows them.                               *)
LeadsIn(f, k, t, i, r) ==
  \/ i \in 0..(k - 1) /\ f[i + 1] \in {r, Corrupt}
  \/ i = k /\ t \in {r, Corrupt}

(* It does so in the file as it is, and as it was when the append began.    *)
RowsLead ==
  intact =>
    \A r \in Reading : index[r] # -1 =>
      /\ LeadsIn(file, Len(file), torn, index[r], r)
      /\ \A a \in Appender : Active(a) => LeadsIn(file, app[a].size, app[a].torn, index[r], r)

(* The index and the manifest agree with the first k lines. *)
CleanIn(f, k, ix, sum) ==
  /\ Len(sum) = k
  /\ \A n \in 1..k : sum[n] = f[n] /\ f[n] \in Reading /\ ix[f[n]] = n - 1

Untroubled ==
  trouble = 0 =>
    /\ mode = "server" /\ intact
    /\ mu = None => torn = None /\ CleanIn(file, Len(file), index, manifest.sum)
    /\ \A a \in Appender : Active(a) =>
         app[a].torn = None /\ CleanIn(file, app[a].size, index, manifest.sum)

(* The inductive invariant. *)
SInv ==
  /\ TypeOK
  /\ Holding
  /\ \A a \in Appender : Active(a) => Placed(a)
  /\ CountRight
  /\ RowsLead
  /\ Untroubled

----------------------------------------------------------------------------
(* Files. *)

LEMMA Grown ==
  ASSUME NEW f \in Seq(Line), NEW l \in Line
  PROVE  /\ Append(f, l) \in Seq(Line) /\ Len(Append(f, l)) = Len(f) + 1
         /\ Append(f, l)[Len(f) + 1] = l
         /\ \A n \in 1..Len(f) : Append(f, l)[n] = f[n]
OBVIOUS

LEMMA Cut ==
  ASSUME NEW f \in Seq(Line), NEW k \in 0..Len(f)
  PROVE  /\ SubSeq(f, 1, k) \in Seq(Line) /\ Len(SubSeq(f, 1, k)) = k
         /\ \A n \in 1..k : SubSeq(f, 1, k)[n] = f[n]
OBVIOUS

LEMMA LinesFacts ==
  ASSUME TypeOK
  PROVE  /\ Lines \in Seq(Line) /\ Len(file) \in Nat
         /\ Len(Lines) = IF torn = None THEN Len(file) ELSE Len(file) + 1
         /\ \A n \in 1..Len(file) : Lines[n] = file[n]
         /\ torn # None => Lines[Len(file) + 1] = torn
<1>1. file \in Seq(Line) /\ (torn # None => torn \in Line)
  BY DEF TypeOK
<1>2. QED
  BY <1>1, Grown DEF Lines

(* What was there stays there: a row that led somewhere still does. *)
LEMMA LeadsKept ==
  ASSUME NEW f, NEW g, NEW k \in Nat, NEW t, NEW i, NEW r,
         \A n \in 1..k : g[n] = f[n], LeadsIn(f, k, t, i, r)
  PROVE  LeadsIn(g, k, t, i, r)
BY DEF LeadsIn

(* The line that ends a torn one does not decode. *)
LEMMA LeadsGrown ==
  ASSUME NEW f \in Seq(Line), NEW g \in Seq(Line), NEW t, NEW u, NEW i, NEW r \in Reading,
         Len(g) = Len(f) + 1, \A n \in 1..Len(f) : g[n] = f[n],
         t # None => g[Len(f) + 1] = Corrupt,
         LeadsIn(f, Len(f), t, i, r)
  PROVE  LeadsIn(g, Len(g), u, i, r)
<1>1. CASE i = Len(f) /\ t \in {r, Corrupt}
  <2>1. t # None
    BY <1>1, LineAssumption
  <2>2. g[i + 1] = Corrupt /\ i \in 0..(Len(g) - 1)
    BY <1>1, <2>1
  <2>3. QED
    BY <2>2 DEF LeadsIn
<1>2. CASE i \in 0..(Len(f) - 1) /\ f[i + 1] \in {r, Corrupt}
  <2>1. g[i + 1] = f[i + 1] /\ i \in 0..(Len(g) - 1)
    BY <1>2
  <2>2. QED
    BY <1>2, <2>1 DEF LeadsIn
<1>3. QED
  BY <1>1, <1>2 DEF LeadsIn

LEMMA CleanKept ==
  ASSUME NEW f, NEW g, NEW k \in Nat, NEW ix, NEW sum,
         \A n \in 1..k : g[n] = f[n], CleanIn(f, k, ix, sum)
  PROVE  CleanIn(g, k, ix, sum)
BY DEF CleanIn

----------------------------------------------------------------------------
(* The appender under way. *)

LEMMA HolderFacts ==
  ASSUME SInv, NEW a \in Appender, Active(a)
  PROVE  /\ mu = a /\ mu # None /\ \A b \in Appender : b # a => ~Active(b)
         /\ Placed(a)
         /\ app[a] \in AppState /\ app[a].size \in Nat /\ app[a].lineNo \in Nat
         /\ app[a].id \in Reading /\ app[a].torn \in Line \cup {None}
         /\ file \in Seq(Line) /\ Len(file) \in Nat /\ app[a].size \in 0..Len(file)
         /\ OwnLine(a) \in Line
         /\ intact /\ mode # "stopping" => app[a].lineNo = app[a].size
<1>1. mu = a /\ mu # None /\ \A b \in Appender : b # a => ~Active(b)
  BY ActorAssumption DEF SInv, Holding
<1>2. /\ app[a] \in AppState /\ app[a].size \in Nat /\ app[a].lineNo \in Nat
      /\ app[a].torn \in Line \cup {None} /\ file \in Seq(Line) /\ Len(file) \in Nat
  BY DEF SInv, TypeOK, AppState
<1>3. Placed(a) /\ app[a].id \in Reading /\ Len(file) \in {app[a].size, app[a].size + 1}
  BY DEF SInv, Placed
<1>4. app[a].size \in 0..Len(file)
  BY <1>2, <1>3
<1>5. OwnLine(a) \in Line
  BY <1>3 DEF OwnLine, Line
<1>6. intact /\ mode # "stopping" => app[a].lineNo = app[a].size
  BY DEF SInv, CountRight
<1>7. QED
  BY <1>1, <1>2, <1>3, <1>4, <1>5, <1>6

(* The appender goes on, holding the lock. *)
GoesOn(a, pc) ==
  /\ mu' = mu /\ app' = [app EXCEPT ![a].pc = pc]
  /\ UNCHANGED <<mode, index, manifest, conn, req, intact, trouble>>

LEMMA GoesOnFacts ==
  ASSUME SInv, NEW a \in Appender, Active(a), NEW pc \in {"begun", "written", "rollback"},
         GoesOn(a, pc)
  PROVE  /\ app' \in [Appender -> AppState] /\ Holding'
         /\ app'[a].pc = pc /\ app'[a].id = app[a].id /\ app'[a].lineNo = app[a].lineNo
         /\ app'[a].size = app[a].size /\ app'[a].torn = app[a].torn
         /\ OwnLine(a)' = OwnLine(a)
         /\ \A b \in Appender : Active(b)' <=> b = a
<1> DEFINE k == [app[a] EXCEPT !.pc = pc]
<1>1. app[a] \in AppState /\ app \in [Appender -> AppState] /\ mu = a
      /\ \A b \in Appender : b # a => ~Active(b)
  BY HolderFacts DEF SInv, TypeOK
<1>2. k \in AppState
  BY <1>1, Zenon DEF AppState
<1>3. /\ k.pc = pc /\ k.id = app[a].id /\ k.lineNo = app[a].lineNo
      /\ k.size = app[a].size /\ k.torn = app[a].torn
  BY <1>1 DEF AppState
<1>4. app' = [app EXCEPT ![a] = k]
  BY <1>1 DEF GoesOn
<1> HIDE DEF k
<1>5. /\ app' \in [Appender -> AppState] /\ app'[a] = k
      /\ \A b \in Appender : b # a => app'[b] = app[b]
  BY <1>1, <1>2, <1>4
<1>6. \A b \in Appender : Active(b)' <=> b = a
  BY <1>1, <1>3, <1>5 DEF Active
<1>7. Holding'
  BY <1>1, <1>6 DEF Holding, GoesOn
<1>8. QED
  BY <1>3, <1>5, <1>6, <1>7 DEF OwnLine

(* The appender is done and leaves the lock. *)
Leaves(a) == mu' = None /\ app' = [app EXCEPT ![a] = NoAppend]

LEMMA LeavesFacts ==
  ASSUME SInv, NEW a \in Appender, Active(a), Leaves(a)
  PROVE  /\ app' \in [Appender -> AppState] /\ Holding'
         /\ \A b \in Appender : ~Active(b)'
<1>1. app \in [Appender -> AppState] /\ \A b \in Appender : b # a => ~Active(b)
  BY HolderFacts DEF SInv, TypeOK
<1>2. NoAppend \in AppState /\ NoAppend.pc = "idle"
  BY DEF NoAppend, AppState
<1>3. app' \in [Appender -> AppState] /\ \A b \in Appender : ~Active(b)'
  BY <1>1, <1>2 DEF Leaves, Active
<1>4. Holding'
  BY <1>3, ActorAssumption DEF Holding, Leaves
<1>5. QED
  BY <1>3, <1>4

(* The appender's own line has been written, after what was torn. *)
Writes(a) ==
  /\ app[a].pc = "begun"
  /\ file' = Append(file, Merged(app[a].id)) /\ torn' = None

LEMMA WritesFacts ==
  ASSUME SInv, NEW a \in Appender, Active(a), Writes(a)
  PROVE  /\ file' \in Seq(Line) /\ Len(file') = app[a].size + 1
         /\ file'[Len(file')] = OwnLine(a) /\ torn' = None
         /\ \A n \in 1..app[a].size : file'[n] = file[n]
         /\ Len(file) = app[a].size /\ torn = app[a].torn
<1>1. /\ Placed(a) /\ file \in Seq(Line) /\ Len(file) \in Nat /\ OwnLine(a) \in Line
      /\ torn = app[a].torn /\ Len(file) = app[a].size
  BY HolderFacts DEF Placed, Writes
<1>2. file' = Append(file, OwnLine(a)) /\ torn' = None
  BY <1>1 DEF Writes, Merged, OwnLine
<1>3. QED
  BY <1>1, <1>2, Grown

(* The parts of the invariant while the appender goes on. *)
LEMMA AfterWrite ==
  ASSUME SInv, NEW a \in Appender, Active(a), Writes(a),
         NEW pc \in {"written", "rollback"}, GoesOn(a, pc)
  PROVE  (\A b \in Appender : Active(b)' => Placed(b)') /\ RowsLead' /\ Untroubled'
<1>1. /\ file' \in Seq(Line) /\ Len(file') = app[a].size + 1
      /\ file'[Len(file')] = OwnLine(a) /\ torn' = None
      /\ \A n \in 1..app[a].size : file'[n] = file[n]
      /\ Len(file) = app[a].size /\ torn = app[a].torn
  BY WritesFacts
<1>2. /\ app'[a].pc = pc /\ app'[a].id = app[a].id
      /\ app'[a].size = app[a].size /\ app'[a].torn = app[a].torn
      /\ OwnLine(a)' = OwnLine(a) /\ \A b \in Appender : Active(b)' <=> b = a
  BY GoesOnFacts
<1>3. /\ app[a].id \in Reading /\ app[a].size \in Nat /\ file \in Seq(Line)
      /\ mu = a /\ mu # None
  BY HolderFacts
<1>4. Placed(a)'
  BY <1>1, <1>2, <1>3 DEF Placed
<1>5. RowsLead'
  <2>1. ASSUME intact, NEW r \in Reading, index[r] # -1
        PROVE  /\ LeadsIn(file', Len(file'), torn', index[r], r)
               /\ LeadsIn(file', app[a].size, app[a].torn, index[r], r)
    <3>1. /\ LeadsIn(file, Len(file), torn, index[r], r)
          /\ LeadsIn(file, app[a].size, app[a].torn, index[r], r)
      BY <2>1 DEF SInv, RowsLead
    <3>2. torn # None => file'[Len(file) + 1] = Corrupt
      BY <1>1 DEF OwnLine
    <3>3. QED
      BY <1>1, <1>3, <3>1, <3>2, LeadsGrown, LeadsKept
  <2>2. QED
    BY <1>2, <2>1 DEF RowsLead, GoesOn
<1>6. Untroubled'
  <2>1. ASSUME trouble = 0
        PROVE  /\ mode = "server" /\ intact /\ app[a].torn = None
               /\ CleanIn(file', app[a].size, index, manifest.sum)
    BY <1>1, <1>3, <2>1, CleanKept DEF SInv, Untroubled
  <2>2. QED
    BY <1>2, <1>3, <2>1 DEF Untroubled, GoesOn
<1>7. QED
  BY <1>2, <1>4, <1>5, <1>6

(* Part of the line is written, or all of it but the newline. *)
LEMMA TornLeads ==
  ASSUME NEW f, NEW k \in Nat, NEW t, NEW u, NEW i, NEW r \in Reading,
         t # None => u = Corrupt, LeadsIn(f, k, t, i, r)
  PROVE  LeadsIn(f, k, u, i, r)
BY LineAssumption DEF LeadsIn

LEMMA AppendLineKeeps ==
  ASSUME SInv, NEW a \in Appender, AppendLine(a)
  PROVE  SInv' /\ index' = index /\ \A n \in 1..Len(file) : n <= Len(file') /\ file'[n] = file[n]
<1>1. /\ Active(a) /\ Writes(a) /\ GoesOn(a, "written") /\ mode # "stopping"
      /\ counts' = app[a].lineNo + 1
  BY DEF AppendLine, Active, Writes, GoesOn, table, locks, bound
<1>2. /\ file' \in Seq(Line) /\ Len(file') = app[a].size + 1 /\ torn' = None
      /\ \A n \in 1..app[a].size : file'[n] = file[n]
      /\ Len(file) = app[a].size
  BY <1>1, WritesFacts
<1>3. /\ app' \in [Appender -> AppState] /\ Holding'
      /\ app'[a].lineNo = app[a].lineNo /\ app'[a].size = app[a].size
      /\ \A b \in Appender : Active(b)' <=> b = a
  BY <1>1, GoesOnFacts
<1>4. /\ app[a].lineNo \in Nat /\ app[a].size \in Nat /\ mu # None
      /\ intact => app[a].lineNo = app[a].size
  BY <1>1, HolderFacts
<1>5. TypeOK'
  BY <1>1, <1>2, <1>3, <1>4 DEF SInv, TypeOK, GoesOn
<1>6. CountRight'
  BY <1>1, <1>2, <1>3, <1>4 DEF CountRight, GoesOn
<1>7. (\A b \in Appender : Active(b)' => Placed(b)') /\ RowsLead' /\ Untroubled'
  BY <1>1, AfterWrite
<1>8. SInv'
  BY <1>3, <1>5, <1>6, <1>7 DEF SInv
<1>9. QED
  BY <1>1, <1>2, <1>4, <1>8 DEF GoesOn

LEMMA AppendLineErrsKeeps ==
  ASSUME SInv, NEW a \in Appender, AppendLineErrs(a)
  PROVE  SInv' /\ index' = index /\ \A n \in 1..Len(file) : n <= Len(file') /\ file'[n] = file[n]
<1>1. /\ Active(a) /\ GoesOn(a, "rollback") /\ counts' = counts /\ app[a].pc = "begun"
  BY DEF AppendLineErrs, Active, GoesOn, table, locks, bound
<1>2. /\ app' \in [Appender -> AppState] /\ Holding'
      /\ app'[a].pc = "rollback" /\ app'[a].id = app[a].id
      /\ app'[a].lineNo = app[a].lineNo /\ app'[a].size = app[a].size
      /\ app'[a].torn = app[a].torn /\ OwnLine(a)' = OwnLine(a)
      /\ \A b \in Appender : Active(b)' <=> b = a
  BY <1>1, GoesOnFacts
<1>3. /\ Placed(a) /\ app[a].id \in Reading /\ app[a].size \in Nat /\ mu # None
      /\ Len(file) = app[a].size /\ torn = app[a].torn /\ file \in Seq(Line)
      /\ intact /\ mode # "stopping" => app[a].lineNo = app[a].size
  BY <1>1, HolderFacts DEF Placed
<1>4. CountRight'
  BY <1>1, <1>2, <1>3 DEF CountRight, GoesOn
<1>5. CASE Writes(a)
  <2>1. /\ file' \in Seq(Line) /\ Len(file') = app[a].size + 1 /\ torn' = None
        /\ \A n \in 1..app[a].size : file'[n] = file[n]
    BY <1>1, <1>5, WritesFacts
  <2>2. TypeOK'
    BY <1>1, <1>2, <2>1 DEF SInv, TypeOK, GoesOn
  <2>3. (\A b \in Appender : Active(b)' => Placed(b)') /\ RowsLead' /\ Untroubled'
    BY <1>1, <1>5, AfterWrite
  <2>4. SInv'
    BY <1>2, <1>4, <2>2, <2>3 DEF SInv
  <2>5. QED
    BY <1>1, <1>3, <2>1, <2>4 DEF GoesOn
<1>6. CASE ~Writes(a)
  <2>1. file' = file /\ torn' \in Line \cup {None} /\ (torn' # torn => torn' \in {Corrupt, Merged(app[a].id)})
    BY <1>1, <1>3, <1>6 DEF AppendLineErrs, Writes, Merged, Line, SInv, TypeOK, disk
  <2>2. torn' # torn => (torn # None => torn' = Corrupt)
    BY <2>1 DEF Merged
  <2>3. TypeOK'
    BY <1>1, <1>2, <2>1 DEF SInv, TypeOK, GoesOn
  <2>4. Placed(a)'
    BY <1>2, <1>3, <2>1 DEF Placed
  <2>5. RowsLead'
    <3>1. ASSUME intact, NEW r \in Reading, index[r] # -1
          PROVE  /\ LeadsIn(file, Len(file), torn', index[r], r)
                 /\ LeadsIn(file, app[a].size, app[a].torn, index[r], r)
      <4>1. /\ LeadsIn(file, Len(file), torn, index[r], r)
            /\ LeadsIn(file, app[a].size, app[a].torn, index[r], r)
        BY <1>1, <3>1 DEF SInv, RowsLead
      <4>2. Len(file) \in Nat
        BY <1>3
      <4>3. CASE torn' = torn
        BY <4>1, <4>3
      <4>4. CASE torn' # torn
        BY <2>2, <4>1, <4>2, <4>4, TornLeads
      <4>5. QED
        BY <4>1, <4>3, <4>4
    <3>2. QED
      BY <1>1, <1>2, <2>1, <3>1 DEF RowsLead, GoesOn
  <2>6. Untroubled'
    BY <1>1, <1>2, <1>3, <2>1 DEF SInv, Untroubled, GoesOn
  <2>7. SInv'
    BY <1>2, <1>4, <2>3, <2>4, <2>5, <2>6 DEF SInv
  <2>8. QED
    BY <1>1, <1>3, <2>1, <2>7 DEF GoesOn
<1>7. QED
  BY <1>5, <1>6

LEMMA CommitIndexErrsKeeps ==
  ASSUME SInv, NEW a \in Appender, CommitIndexErrs(a)
  PROVE  SInv' /\ UNCHANGED <<file, index>>
<1>1. /\ Active(a) /\ GoesOn(a, "rollback") /\ UNCHANGED <<file, torn, counts>>
      /\ app[a].pc = "written"
  BY DEF CommitIndexErrs, Active, GoesOn, disk, table, locks, bound
<1>2. /\ app' \in [Appender -> AppState] /\ Holding'
      /\ app'[a].pc = "rollback" /\ app'[a].id = app[a].id
      /\ app'[a].lineNo = app[a].lineNo /\ app'[a].size = app[a].size
      /\ app'[a].torn = app[a].torn /\ OwnLine(a)' = OwnLine(a)
      /\ \A b \in Appender : Active(b)' <=> b = a
  BY <1>1, GoesOnFacts
<1>3. TypeOK'
  BY <1>1, <1>2 DEF SInv, TypeOK, GoesOn
<1>4. Placed(a)'
  BY <1>1, <1>2, HolderFacts DEF Placed
<1>5. CountRight'
  BY <1>1, <1>2, HolderFacts DEF CountRight, GoesOn
<1>6. RowsLead'
  BY <1>1, <1>2 DEF SInv, RowsLead, GoesOn
<1>7. Untroubled'
  BY <1>1, <1>2, HolderFacts DEF SInv, Untroubled, GoesOn
<1>8. QED
  BY <1>1, <1>2, <1>3, <1>4, <1>5, <1>6, <1>7 DEF SInv, GoesOn

LEMMA CommitIndexKeeps ==
  ASSUME SInv, NEW a \in Appender, CommitIndex(a)
  PROVE  /\ SInv' /\ UNCHANGED file
         /\ \A r \in Reading : index[r] # -1 => index'[r] = index[r]
<1> DEFINE id == app[a].id
<1>1. /\ Active(a) /\ Leaves(a) /\ UNCHANGED <<mode, file, torn, counts, conn, req, intact, trouble>>
      /\ app[a].pc = "written" /\ mode # "stopping"
      /\ index[id] = -1 /\ index' = [index EXCEPT ![id] = app[a].lineNo]
      /\ manifest' = [count |-> manifest.count + 1, sum |-> Append(manifest.sum, id)]
  <2>1. Active(a) /\ app[a].pc = "written"
    BY DEF CommitIndex, Active
  <2>2. manifest.sum \in Seq(Line) /\ id \in Line
    BY <2>1, HolderFacts DEF SInv, TypeOK, Line
  <2>3. manifest.sum \o <<id>> = Append(manifest.sum, id)
    BY <2>2
  <2>4. QED
    BY <2>1, <2>3 DEF CommitIndex, Leaves, disk, bound, FoldChecksum
<1>2. /\ app' \in [Appender -> AppState] /\ Holding' /\ \A b \in Appender : ~Active(b)'
  BY <1>1, LeavesFacts
<1>3. /\ id \in Reading /\ app[a].lineNo \in Nat /\ app[a].size \in Nat
      /\ mu # None /\ mu' = None
      /\ Len(file) = app[a].size + 1 /\ torn = None /\ file[Len(file)] = OwnLine(a)
      /\ intact => app[a].lineNo = app[a].size
      /\ file \in Seq(Line)
  BY <1>1, HolderFacts DEF Placed, Leaves
<1>4. /\ manifest.count \in Nat /\ manifest.sum \in Seq(Line) /\ id \in Line
      /\ index \in [Reading -> Nat \cup {-1}]
  BY <1>3 DEF SInv, TypeOK, Line
<1>5. /\ manifest'.sum \in Seq(Line) /\ Len(manifest'.sum) = Len(manifest.sum) + 1
      /\ manifest'.sum[Len(manifest.sum) + 1] = id
      /\ \A n \in 1..Len(manifest.sum) : manifest'.sum[n] = manifest.sum[n]
  BY <1>1, <1>4, Grown
<1>6. manifest' \in [count : Nat, sum : Seq(Line)]
  BY <1>1, <1>4, <1>5
<1>7. /\ index' \in [Reading -> Nat \cup {-1}] /\ index'[id] = app[a].lineNo
      /\ \A r \in Reading : r # id => index'[r] = index[r]
  BY <1>1, <1>3, <1>4
<1> HIDE DEF id
<1>8. TypeOK'
  BY <1>1, <1>2, <1>3, <1>6, <1>7 DEF SInv, TypeOK
<1>9. CountRight'
  BY <1>1, <1>2, <1>3 DEF SInv, CountRight
<1>10. RowsLead'
  <2>1. ASSUME intact, NEW r \in Reading, index'[r] # -1
        PROVE  LeadsIn(file, Len(file), torn, index'[r], r)
    <3>1. CASE r = id
      <4>1. index'[r] = app[a].size /\ file[app[a].size + 1] \in {r, Corrupt}
        BY <1>3, <1>7, <2>1, <3>1 DEF OwnLine, id
      <4>2. app[a].size \in 0..(Len(file) - 1)
        BY <1>3
      <4>3. QED
        BY <4>1, <4>2 DEF LeadsIn
    <3>2. CASE r # id
      BY <1>7, <2>1, <3>2 DEF SInv, RowsLead
    <3>3. QED
      BY <3>1, <3>2
  <2>2. QED
    BY <1>1, <1>2, <2>1 DEF RowsLead
<1>11. Untroubled'
  <2>1. ASSUME trouble = 0
        PROVE  /\ mode = "server" /\ intact
               /\ CleanIn(file, Len(file), index', manifest'.sum)
    <3>1. /\ mode = "server" /\ intact /\ app[a].torn = None
          /\ CleanIn(file, app[a].size, index, manifest.sum)
      BY <1>1, <2>1 DEF SInv, Untroubled
    <3>2. /\ Len(manifest.sum) = app[a].size
          /\ \A n \in 1..app[a].size :
               manifest.sum[n] = file[n] /\ file[n] \in Reading /\ index[file[n]] = n - 1
      BY <3>1 DEF CleanIn
    <3>3. ASSUME NEW n \in 1..Len(file)
          PROVE  /\ manifest'.sum[n] = file[n] /\ file[n] \in Reading
                 /\ index'[file[n]] = n - 1
      <4>1. CASE n = Len(file)
        <5>1. file[n] = id
          BY <1>3, <3>1, <4>1 DEF OwnLine, id
        <5>2. n = app[a].size + 1
          BY <1>3, <4>1
        <5>3. index'[file[n]] = n - 1
          BY <1>3, <1>7, <3>1, <5>1, <5>2
        <5>4. manifest'.sum[n] = file[n]
          BY <1>5, <3>2, <5>1, <5>2
        <5>5. QED
          BY <1>3, <5>1, <5>3, <5>4
      <4>2. CASE n # Len(file)
        <5>1. n \in 1..app[a].size
          BY <1>3, <4>2
        <5>2. index[file[n]] = n - 1 /\ n - 1 # -1
          BY <3>2, <5>1
        <5>3. file[n] # id
          BY <1>1, <5>2 DEF id
        <5>4. QED
          BY <1>5, <1>7, <3>2, <5>1, <5>2, <5>3
      <4>3. QED
        BY <4>1, <4>2
    <3>4. Len(manifest'.sum) = Len(file)
      BY <1>3, <1>5, <3>2
    <3>5. QED
      BY <3>1, <3>3, <3>4 DEF CleanIn
  <2>2. QED
    BY <1>1, <1>2, <1>3, <2>1 DEF SInv, Untroubled
<1>12. \A r \in Reading : index[r] # -1 => index'[r] = index[r]
  BY <1>1, <1>7 DEF id
<1>13. QED
  BY <1>1, <1>2, <1>8, <1>9, <1>10, <1>11, <1>12 DEF SInv

(* The file is cut to what it was when the append began. *)
Cuts(a) == file' = SubSeq(file, 1, app[a].size) /\ torn' = app[a].torn

LEMMA CutsFacts ==
  ASSUME SInv, NEW a \in Appender, Active(a), Cuts(a)
  PROVE  /\ file' \in Seq(Line) /\ Len(file') = app[a].size
         /\ torn' \in Line \cup {None}
         /\ \A n \in 1..app[a].size : file'[n] = file[n]
BY HolderFacts, Cut DEF Cuts

(* What is indexed and in the file is in the part that stays. *)
LEMMA CutKeepsRows ==
  ASSUME SInv, NEW a \in Appender, Active(a), intact, NEW r \in Reading,
         index[r] \in 0..(Len(file) - 1), file[index[r] + 1] = r
  PROVE  index[r] \in 0..(app[a].size - 1)
<1>1. LeadsIn(file, app[a].size, app[a].torn, index[r], r)
  BY DEF SInv, RowsLead
<1>2. /\ Len(file) \in {app[a].size, app[a].size + 1} /\ app[a].size \in Nat
      /\ Len(file) = app[a].size + 1 => file[Len(file)] = OwnLine(a)
  BY HolderFacts DEF Placed
<1>3. CASE index[r] = app[a].size /\ app[a].torn \in {r, Corrupt}
  <2>1. file[index[r] + 1] = Corrupt
    BY <1>2, <1>3, LineAssumption DEF OwnLine
  <2>2. QED
    BY <2>1, LineAssumption
<1>4. QED
  BY <1>1, <1>3 DEF LeadsIn

(* The end of an append that has failed. *)
LEMMA AfterRollback ==
  ASSUME SInv, NEW a \in Appender, app[a].pc = "rollback", Leaves(a),
         Cuts(a) \/ UNCHANGED <<file, torn>>, trouble = 0 /\ trouble' = 0 => Cuts(a),
         UNCHANGED <<mode, index, manifest, conn, req>>,
         counts' \in Nat \cup {-1}, trouble' \in Nat,
         trouble' = 0 => trouble = 0 /\ intact' = intact,
         intact' \in BOOLEAN, intact' => intact,
         intact' /\ mode # "stopping" => counts' = Len(file')
  PROVE  /\ SInv'
         /\ intact => \A r \in Reading :
              index[r] \in 0..(Len(file) - 1) /\ file[index[r] + 1] = r =>
                index[r] < Len(file') /\ file'[index[r] + 1] = r
<1>1. Active(a) /\ mu' = None /\ app[a].size \in Nat /\ Len(file) \in Nat
      /\ app[a].size <= Len(file)
  BY HolderFacts DEF Active, Leaves
<1>2. /\ app' \in [Appender -> AppState] /\ Holding' /\ \A b \in Appender : ~Active(b)'
  BY <1>1, LeavesFacts
<1>3. file' \in Seq(Line) /\ torn' \in Line \cup {None}
  BY <1>1, CutsFacts DEF SInv, TypeOK
<1>4. TypeOK'
  BY <1>1, <1>2, <1>3 DEF SInv, TypeOK
<1>5. CountRight'
  BY <1>2 DEF CountRight
<1>6. RowsLead'
  <2>1. ASSUME intact, NEW r \in Reading, index[r] # -1
        PROVE  LeadsIn(file', Len(file'), torn', index[r], r)
    <3>1. /\ LeadsIn(file, Len(file), torn, index[r], r)
          /\ LeadsIn(file, app[a].size, app[a].torn, index[r], r)
      BY <1>1, <2>1 DEF SInv, RowsLead
    <3>2. CASE Cuts(a)
      <4>1. /\ Len(file') = app[a].size /\ torn' = app[a].torn
            /\ \A n \in 1..app[a].size : file'[n] = file[n]
        BY <1>1, <3>2, CutsFacts DEF Cuts
      <4>2. QED
        BY <1>1, <3>1, <4>1, LeadsKept
    <3>3. CASE UNCHANGED <<file, torn>>
      BY <3>1, <3>3
    <3>4. QED
      BY <3>2, <3>3
  <2>2. QED
    BY <1>2, <2>1 DEF RowsLead
<1>7. Untroubled'
  <2>1. ASSUME trouble' = 0
        PROVE  /\ mode = "server" /\ intact' /\ torn' = None
               /\ CleanIn(file', Len(file'), index, manifest.sum)
    <3>1. Cuts(a) /\ mode = "server" /\ intact' /\ app[a].torn = None
          /\ CleanIn(file, app[a].size, index, manifest.sum)
      BY <1>1, <2>1 DEF SInv, Untroubled
    <3>2. Len(file') = app[a].size /\ \A n \in 1..app[a].size : file'[n] = file[n]
      BY <1>1, <3>1, CutsFacts
    <3>3. CleanIn(file', Len(file'), index, manifest.sum)
      BY <1>1, <3>1, <3>2, CleanKept
    <3>4. QED
      BY <3>1, <3>3 DEF Cuts
  <2>2. QED
    BY <1>2, <2>1 DEF Untroubled
<1>8. ASSUME intact, NEW r \in Reading,
             index[r] \in 0..(Len(file) - 1), file[index[r] + 1] = r
      PROVE  index[r] < Len(file') /\ file'[index[r] + 1] = r
  <2>1. CASE Cuts(a)
    <3>1. /\ Len(file') = app[a].size /\ \A n \in 1..app[a].size : file'[n] = file[n]
      BY <1>1, <2>1, CutsFacts
    <3>2. index[r] \in 0..(app[a].size - 1)
      BY <1>1, <1>8, CutKeepsRows
    <3>3. QED
      BY <1>1, <1>8, <3>1, <3>2
  <2>2. CASE UNCHANGED <<file, torn>>
    BY <1>1, <1>8, <2>2
  <2>3. QED
    BY <2>1, <2>2
<1>9. QED
  BY <1>2, <1>4, <1>5, <1>6, <1>7, <1>8 DEF SInv

LEMMA RollbackKeeps ==
  ASSUME SInv, NEW a \in Appender, Rollback(a) \/ RollbackErrs(a)
  PROVE  /\ SInv' /\ UNCHANGED index
         /\ intact => \A r \in Reading :
              index[r] \in 0..(Len(file) - 1) /\ file[index[r] + 1] = r =>
                index[r] < Len(file') /\ file'[index[r] + 1] = r
<1>1. /\ app[a].pc = "rollback" /\ Active(a) /\ Leaves(a)
      /\ UNCHANGED <<mode, index, manifest, conn, req>>
  BY DEF Rollback, RollbackErrs, Active, Leaves, table
<1>2. /\ app[a].lineNo \in Nat /\ app[a].size \in Nat
      /\ intact /\ mode # "stopping" => app[a].lineNo = app[a].size
      /\ counts \in Nat \cup {-1} /\ trouble \in Nat /\ intact \in BOOLEAN
      /\ trouble = 0 => mode = "server"
  BY <1>1, HolderFacts DEF SInv, TypeOK, Untroubled
<1>3. CASE Rollback(a)
  <2>1. CASE mode = "stopping"
    <3>1. UNCHANGED <<file, torn, counts, intact, trouble>>
      BY <1>3, <2>1 DEF Rollback, disk, bound
    <3>2. QED
      BY <1>1, <1>2, <2>1, <3>1, AfterRollback
  <2>2. CASE mode # "stopping"
    <3>1. Cuts(a) /\ counts' = app[a].lineNo /\ UNCHANGED <<intact, trouble>>
      BY <1>3, <2>2 DEF Rollback, Cuts, bound
    <3>2. Len(file') = app[a].size
      BY <1>1, <3>1, CutsFacts
    <3>3. intact' => counts' = Len(file')
      BY <1>2, <2>2, <3>1, <3>2
    <3>4. counts' \in Nat \cup {-1} /\ trouble' \in Nat /\ intact' \in BOOLEAN
      BY <1>2, <3>1
    <3>5. QED
      BY <1>1, <3>1, <3>3, <3>4, AfterRollback
  <2>3. QED
    BY <2>1, <2>2
<1>4. CASE RollbackErrs(a)
  <2>1. /\ Cuts(a) \/ UNCHANGED <<file, torn>>
        /\ trouble' = trouble + 1 /\ counts' = counts
        /\ intact' = (intact /\ counts = Len(file'))
    BY <1>4 DEF RollbackErrs, Cuts, disk
  <2>2. trouble' \in Nat /\ trouble' # 0
    <3>1. trouble \in Nat /\ trouble' = trouble + 1
      BY <1>2, <2>1
    <3>2. QED
      BY <3>1
  <2>3. intact' \in BOOLEAN /\ (intact' => intact /\ counts = Len(file'))
    <3>1. intact' = (intact /\ counts = Len(file'))
      BY <2>1
    <3>2. QED
      BY <3>1, Zenon
  <2>4. QED
    BY <1>1, <1>2, <2>1, <2>2, <2>3, AfterRollback
<1>5. QED
  BY <1>1, <1>3, <1>4

----------------------------------------------------------------------------
(* The others. *)

LEMMA BeginKeeps ==
  ASSUME SInv, NEW a \in Appender, NEW r \in Reading, Begin(a, r)
  PROVE  SInv' /\ UNCHANGED <<file, index>>
<1> DEFINE n == IF counts >= 0 THEN counts ELSE Len(file)
<1> DEFINE k == [pc |-> "begun", id |-> r, lineNo |-> n, size |-> Len(file), torn |-> torn]
<1>1. /\ mu = None /\ mu' = a /\ counts' = n /\ app' = [app EXCEPT ![a] = k]
      /\ UNCHANGED <<mode, file, torn, index, manifest, conn, req, intact, trouble>>
  BY DEF Begin, disk, table, bound
<1>2. /\ n \in Nat /\ Len(file) \in Nat /\ file \in Seq(Line) /\ torn \in Line \cup {None}
      /\ (counts \in {-1, Len(file)} => n = Len(file))
  BY DEF SInv, TypeOK
<1> HIDE DEF n
<1>3. k \in AppState
  BY <1>2 DEF AppState
<1>4. /\ k.pc = "begun" /\ k.id = r /\ k.lineNo = n /\ k.size = Len(file) /\ k.torn = torn
  OBVIOUS
<1> HIDE DEF k
<1>5. \A b \in Appender : ~Active(b)
  BY <1>1, ActorAssumption DEF SInv, Holding
<1>6. /\ app' \in [Appender -> AppState] /\ app'[a] = k
      /\ \A b \in Appender : b # a => app'[b] = app[b]
  BY <1>1, <1>3 DEF SInv, TypeOK
<1>7. \A b \in Appender : Active(b)' <=> b = a
  BY <1>4, <1>5, <1>6 DEF Active
<1>8. Holding' /\ mu' # None
  BY <1>1, <1>7, ActorAssumption DEF Holding
<1>9. TypeOK'
  BY <1>1, <1>2, <1>6 DEF SInv, TypeOK
<1>10. Placed(a)'
  BY <1>1, <1>2, <1>4, <1>6 DEF Placed
<1>11. CountRight'
  BY <1>1, <1>2, <1>4, <1>6, <1>7, <1>8 DEF SInv, CountRight
<1>12. RowsLead'
  BY <1>1, <1>4, <1>6, <1>7 DEF SInv, RowsLead
<1>13. Untroubled'
  BY <1>1, <1>4, <1>6, <1>7, <1>8 DEF SInv, Untroubled
<1>14. QED
  BY <1>1, <1>7, <1>8, <1>9, <1>10, <1>11, <1>12, <1>13 DEF SInv

(* The count that failed leaves the line numbers wrong, and says so. *)
LEMMA BeginMiscountsKeeps ==
  ASSUME SInv, NEW a \in Appender, NEW r \in Reading, BeginMiscounts(a, r)
  PROVE  SInv' /\ UNCHANGED <<file, index>>
<1> DEFINE k == [pc |-> "begun", id |-> r, lineNo |-> 0, size |-> Len(file), torn |-> torn]
<1>1. /\ mu = None /\ mu' = a /\ counts' = 0 /\ app' = [app EXCEPT ![a] = k]
      /\ ~intact' /\ intact' \in BOOLEAN /\ trouble' = trouble + 1
      /\ UNCHANGED <<mode, file, torn, index, manifest, conn, req>>
  BY DEF BeginMiscounts, disk, table
<1>2. /\ Len(file) \in Nat /\ file \in Seq(Line) /\ torn \in Line \cup {None}
      /\ trouble' \in Nat /\ trouble' # 0
  BY <1>1 DEF SInv, TypeOK
<1>3. k \in AppState
  BY <1>2 DEF AppState
<1>4. /\ k.pc = "begun" /\ k.id = r /\ k.size = Len(file) /\ k.torn = torn
  OBVIOUS
<1> HIDE DEF k
<1>5. \A b \in Appender : ~Active(b)
  BY <1>1, ActorAssumption DEF SInv, Holding
<1>6. /\ app' \in [Appender -> AppState] /\ app'[a] = k
      /\ \A b \in Appender : b # a => app'[b] = app[b]
  BY <1>1, <1>3 DEF SInv, TypeOK
<1>7. \A b \in Appender : Active(b)' <=> b = a
  BY <1>4, <1>5, <1>6 DEF Active
<1>8. Holding'
  BY <1>1, <1>7, ActorAssumption DEF Holding
<1>9. TypeOK'
  BY <1>1, <1>2, <1>6 DEF SInv, TypeOK
<1>10. Placed(a)'
  BY <1>1, <1>2, <1>4, <1>6 DEF Placed
<1>11. CountRight' /\ RowsLead' /\ Untroubled'
  BY <1>1, <1>2 DEF CountRight, RowsLead, Untroubled
<1>12. QED
  BY <1>1, <1>7, <1>8, <1>9, <1>10, <1>11 DEF SInv

(* A request does not touch the store. *)
LEMMA RequestKeeps ==
  ASSUME SInv, NEW c \in Client,
         \/ ReadLine(c) \/ ExportEnds(c) \/ Disconnect(c)
         \/ (c \in Getter /\ Get(c)) \/ (c \in Exporter /\ Export(c))
  PROVE  SInv' /\ UNCHANGED <<file, index>>
<1>1. UNCHANGED <<mode, file, torn, index, manifest, counts, mu, app, intact, trouble>>
  BY DEF ReadLine, ExportEnds, Disconnect, Get, Export, disk, table, locks, bound
<1>2. NoRequest \in ReqState
  BY DEF NoRequest, ReqState
<1>3. req' \in [Client -> ReqState] /\ conn' \in Exporter \cup {None}
  <2>1. \E k \in ReqState : req' = [req EXCEPT ![c] = k]
    <3>1. CASE ReadLine(c)
      <4>1. PICK r \in req[c].rows :
              req' = [req EXCEPT ![c] = IF req[c].pc = "get" THEN NoRequest
                                        ELSE [req[c] EXCEPT !.rows = @ \ {r}]]
        BY <3>1 DEF ReadLine
      <4>2. req[c] \in ReqState /\ req \in [Client -> ReqState]
        BY DEF SInv, TypeOK
      <4>3. [req[c] EXCEPT !.rows = @ \ {r}] \in ReqState
        BY <4>2 DEF ReqState
      <4>4. CASE req[c].pc = "get"
        <5>1. req' = [req EXCEPT ![c] = NoRequest]
          BY <4>1, <4>4
        <5>2. QED
          BY <1>2, <5>1
      <4>5. CASE req[c].pc # "get"
        <5>1. req' = [req EXCEPT ![c] = [req[c] EXCEPT !.rows = @ \ {r}]]
          BY <4>1, <4>5
        <5>2. QED
          BY <4>3, <5>1
      <4>6. QED
        BY <4>4, <4>5
    <3>2. CASE ExportEnds(c) \/ Disconnect(c)
      BY <1>2, <3>2 DEF ExportEnds, Disconnect
    <3>3. CASE Get(c)
      <4>1. PICK r \in Reading : req' = [req EXCEPT ![c] = [pc |-> "get", rows |-> {r}]]
        BY <3>3 DEF Get
      <4>2. [pc |-> "get", rows |-> {r}] \in ReqState
        BY DEF ReqState
      <4>3. QED
        BY <4>1, <4>2
    <3>4. CASE Export(c)
      <4>1. [pc |-> "export", rows |-> {r \in Reading : index[r] # -1}] \in ReqState
        BY DEF ReqState
      <4>2. QED
        BY <3>4, <4>1 DEF Export
    <3>5. QED
      BY <3>1, <3>2, <3>3, <3>4
  <2>2. req' \in [Client -> ReqState]
    BY <2>1 DEF SInv, TypeOK
  <2>3. conn' \in Exporter \cup {None}
    BY DEF ReadLine, ExportEnds, Disconnect, Get, Export, locks, SInv, TypeOK
  <2>4. QED
    BY <2>2, <2>3
<1>4. TypeOK'
  BY <1>1, <1>3 DEF SInv, TypeOK
<1>5. (\A a \in Appender : (Active(a)' <=> Active(a)) /\ (Placed(a)' <=> Placed(a))) /\ Holding'
  BY <1>1 DEF SInv, Holding, Active, Placed, OwnLine
<1>6. CountRight' /\ RowsLead' /\ Untroubled'
  BY <1>1, <1>5 DEF SInv, CountRight, RowsLead, Untroubled
<1>7. QED
  BY <1>1, <1>4, <1>5, <1>6 DEF SInv

LEMMA ShutdownKeeps == ASSUME SInv, Shutdown PROVE SInv' /\ UNCHANGED <<file, index>>
<1>1. /\ UNCHANGED <<file, torn, index, manifest, counts, mu, conn, app, req, intact>>
      /\ mode' = "stopping" /\ trouble' = trouble + 1
  BY DEF Shutdown, disk, table, locks
<1>2. trouble' \in Nat /\ trouble' # 0
  BY <1>1 DEF SInv, TypeOK
<1>3. TypeOK'
  BY <1>1, <1>2 DEF SInv, TypeOK
<1>4. (\A a \in Appender : (Active(a)' <=> Active(a)) /\ (Placed(a)' <=> Placed(a))) /\ Holding'
  BY <1>1 DEF SInv, Holding, Active, Placed, OwnLine
<1>5. CountRight' /\ RowsLead' /\ Untroubled'
  BY <1>1, <1>2, <1>4 DEF SInv, CountRight, RowsLead, Untroubled
<1>6. QED
  BY <1>1, <1>3, <1>4, <1>5 DEF SInv

(* A process starts without a cached count. *)
LEMMA AllIdleFacts ==
  ASSUME SInv, AllIdle PROVE mu = None /\ \A a \in Appender : ~Active(a)
BY DEF SInv, AllIdle, Active, Holding, TypeOK

LEMMA StartKeeps ==
  ASSUME SInv, NEW m \in {"server", "ops"}, Start(m)
  PROVE  SInv' /\ UNCHANGED <<file, index>>
<1>1. /\ UNCHANGED <<file, torn, index, manifest, mu, conn, app, req, intact, trouble>>
      /\ mode' = m /\ counts' = -1 /\ mode # "server"
  BY DEF Start, disk, table, locks, bound
<1>2. mu = None /\ \A a \in Appender : ~Active(a)
  BY AllIdleFacts DEF Start
<1>3. trouble # 0
  BY <1>1 DEF SInv, Untroubled
<1>4. TypeOK'
  BY <1>1 DEF SInv, TypeOK
<1>5. (\A a \in Appender : ~Active(a)') /\ Holding'
  BY <1>1, <1>2 DEF SInv, Holding, Active
<1>6. CountRight' /\ RowsLead' /\ Untroubled'
  BY <1>1, <1>3, <1>5 DEF SInv, CountRight, RowsLead, Untroubled
<1>7. QED
  BY <1>1, <1>4, <1>5, <1>6 DEF SInv

LEMMA CrashKeeps ==
  ASSUME SInv, NEW m \in {"server", "ops"}, Crash(m)
  PROVE  SInv' /\ UNCHANGED <<file, index>>
<1>1. /\ UNCHANGED <<file, index, manifest, intact>> /\ trouble' = trouble + 1
      /\ mode' = m /\ counts' = -1 /\ mu' = None /\ conn' = None
      /\ app' = [a \in Appender |-> NoAppend] /\ req' = [c \in Client |-> NoRequest]
  BY DEF Crash, table
<1>2. /\ torn' \in Line \cup {None}
      /\ torn' # torn => (torn # None => torn' = Corrupt)
  <2>1. CASE torn' = torn
    BY <2>1 DEF SInv, TypeOK
  <2>2. CASE torn' # torn
    <3>1. PICK a \in Appender : app[a].pc = "begun" /\ torn' \in {Corrupt, Merged(app[a].id)}
      BY <2>2 DEF Crash
    <3>2. app[a].id \in Reading
      BY <3>1, HolderFacts DEF Active
    <3>3. QED
      BY <3>1, <3>2 DEF Merged, Line
  <2>3. QED
    BY <2>1, <2>2
<1>3. trouble' \in Nat /\ trouble' # 0 /\ Len(file) \in Nat
  BY <1>1 DEF SInv, TypeOK
<1>4. NoAppend \in AppState /\ NoAppend.pc = "idle" /\ NoRequest \in ReqState
  BY DEF NoAppend, NoRequest, AppState, ReqState
<1>5. TypeOK'
  BY <1>1, <1>2, <1>3, <1>4 DEF SInv, TypeOK
<1>6. (\A a \in Appender : ~Active(a)') /\ Holding'
  BY <1>1, <1>4, ActorAssumption DEF Holding, Active
<1>7. RowsLead'
  <2>1. ASSUME intact, NEW r \in Reading, index[r] # -1
        PROVE  LeadsIn(file, Len(file), torn', index[r], r)
    <3>1. LeadsIn(file, Len(file), torn, index[r], r)
      BY <2>1 DEF SInv, RowsLead
    <3>2. CASE torn' = torn
      BY <3>1, <3>2
    <3>3. CASE torn' # torn
      BY <1>2, <1>3, <3>1, <3>3, TornLeads
    <3>4. QED
      BY <3>2, <3>3
  <2>2. QED
    BY <1>1, <1>6, <2>1 DEF RowsLead
<1>8. CountRight' /\ Untroubled'
  BY <1>1, <1>3, <1>6 DEF CountRight, Untroubled
<1>9. QED
  BY <1>1, <1>5, <1>6, <1>7, <1>8 DEF SInv

LEMMA RefillKeeps ==
  ASSUME SInv, RebuildIndex, RowsFromFile
  PROVE  /\ SInv' /\ UNCHANGED file
         /\ \A r \in Reading :
              index[r] \in 0..(Len(file) - 1) /\ file[index[r] + 1] = r => index'[r] = index[r]
<1> DEFINE At(r) == CHOOSE n \in 1..Len(Lines) : Lines[n] = r
<1>1. /\ mode = "ops" /\ AllIdle /\ ~Duplicate
      /\ index' = [r \in Reading |-> IF InFile(r) THEN At(r) - 1 ELSE -1]
      /\ manifest' = [count |-> Len(Lines), sum |-> Lines] /\ counts' = -1 /\ intact' = TRUE
      /\ UNCHANGED <<mode, file, torn, mu, conn, app, req, trouble>>
  BY DEF RebuildIndex, RowsFromFile, disk, locks
<1>2. /\ Lines \in Seq(Line) /\ Len(file) \in Nat /\ Len(Lines) \in Nat
      /\ Len(Lines) = IF torn = None THEN Len(file) ELSE Len(file) + 1
      /\ \A n \in 1..Len(file) : Lines[n] = file[n]
      /\ torn # None => Lines[Len(file) + 1] = torn
  BY LinesFacts DEF SInv
<1>3. mu = None /\ (\A a \in Appender : ~Active(a)) /\ trouble # 0
  BY <1>1, AllIdleFacts DEF SInv, Untroubled
<1>4. ASSUME NEW r \in Reading, InFile(r)
      PROVE  At(r) \in 1..Len(Lines) /\ Lines[At(r)] = r
  BY <1>4 DEF InFile
<1> HIDE DEF At
<1>5. ASSUME NEW r \in Reading
      PROVE  /\ index'[r] \in Nat \cup {-1}
             /\ index'[r] # -1 => LeadsIn(file, Len(file), torn, index'[r], r)
  <2>1. CASE ~InFile(r)
    BY <1>1, <2>1
  <2>2. CASE InFile(r)
    <3>1. index'[r] = At(r) - 1 /\ At(r) \in 1..Len(Lines) /\ Lines[At(r)] = r
      BY <1>1, <1>4, <2>2
    <3>2. CASE At(r) \in 1..Len(file)
      BY <1>2, <3>1, <3>2 DEF LeadsIn
    <3>3. CASE At(r) \notin 1..Len(file)
      <4>1. At(r) = Len(file) + 1 /\ torn = r
        BY <1>2, <3>1, <3>3
      <4>2. index'[r] = Len(file)
        BY <1>2, <3>1, <4>1
      <4>3. QED
        BY <1>2, <4>1, <4>2 DEF LeadsIn
    <3>4. QED
      BY <3>2, <3>3
  <2>3. QED
    BY <2>1, <2>2
<1>6. index' \in [Reading -> Nat \cup {-1}] /\ manifest' \in [count : Nat, sum : Seq(Line)]
  BY <1>1, <1>2, <1>5
<1>7. TypeOK'
  BY <1>1, <1>6 DEF SInv, TypeOK
<1>8. (\A a \in Appender : ~Active(a)') /\ Holding'
  BY <1>1, <1>3 DEF SInv, Holding, Active
<1>9. CountRight' /\ RowsLead' /\ Untroubled'
  BY <1>1, <1>3, <1>5, <1>8 DEF CountRight, RowsLead, Untroubled
<1>10. ASSUME NEW r \in Reading, index[r] \in 0..(Len(file) - 1), file[index[r] + 1] = r
       PROVE  index'[r] = index[r]
  <2>1. index[r] + 1 \in 1..Len(Lines) /\ Lines[index[r] + 1] = r
    BY <1>2, <1>10
  <2>2. InFile(r)
    BY <2>1 DEF InFile
  <2>3. At(r) \in 1..Len(Lines) /\ Lines[At(r)] = r
    BY <1>4, <2>2
  <2>4. At(r) = index[r] + 1
    BY <1>1, <2>1, <2>3, LineAssumption DEF Duplicate
  <2>5. index'[r] = At(r) - 1
    BY <1>1, <2>2
  <2>6. QED
    BY <1>10, <2>4, <2>5
<1>11. QED
  BY <1>1, <1>7, <1>8, <1>9, <1>10 DEF SInv

(* Or it skips the shard: no row is left that could lead astray. *)
LEMMA SkipKeeps ==
  ASSUME SInv, RebuildIndex, ShardUnreadable
  PROVE  SInv' /\ UNCHANGED file /\ ShardSkipped
<1>1. /\ mode = "ops" /\ AllIdle
      /\ index' = [r \in Reading |-> -1] /\ manifest' = [count |-> 0, sum |-> <<>>]
      /\ counts' = -1 /\ intact' = TRUE /\ trouble' = trouble + 1
      /\ UNCHANGED <<mode, file, torn, mu, conn, app, req>>
  BY DEF RebuildIndex, ShardUnreadable, disk, locks
<1>2. mu = None /\ (\A a \in Appender : ~Active(a)) /\ trouble' \in Nat /\ trouble' # 0
  BY <1>1, AllIdleFacts DEF SInv, TypeOK
<1>3. <<>> \in Seq(Line)
  OBVIOUS
<1>4. TypeOK'
  BY <1>1, <1>2, <1>3 DEF SInv, TypeOK
<1>5. (\A a \in Appender : ~Active(a)') /\ Holding'
  BY <1>1, <1>2 DEF SInv, Holding, Active
<1>6. CountRight' /\ RowsLead' /\ Untroubled'
  BY <1>1, <1>2, <1>5 DEF CountRight, RowsLead, Untroubled
<1>7. QED
  BY <1>1, <1>4, <1>5, <1>6 DEF SInv, ShardSkipped

----------------------------------------------------------------------------
(* All steps. *)

(* A committed line stays, and its row unless the shard is skipped. *)
Stays(r) ==
  intact /\ Committed(r) =>
    /\ index[r] < Len(file') /\ file'[index[r] + 1] = r
    /\ index'[r] = index[r] \/ ShardSkipped

LEMMA InitSInv == Init => SInv
<1> SUFFICES ASSUME Init PROVE SInv
  OBVIOUS
<1>1. NoAppend \in AppState /\ NoAppend.pc = "idle" /\ NoRequest \in ReqState
  BY DEF NoAppend, NoRequest, AppState, ReqState
<1>2. <<>> \in Seq(Line) /\ Len(<<>>) = 0
  OBVIOUS
<1>3. TypeOK
  BY <1>1, <1>2 DEF Init, TypeOK
<1>4. (\A a \in Appender : ~Active(a)) /\ Holding
  BY <1>1, ActorAssumption DEF Init, Active, Holding
<1>5. CountRight /\ RowsLead /\ Untroubled
  BY <1>2, <1>4 DEF Init, CountRight, RowsLead, Untroubled, CleanIn
<1>6. QED
  BY <1>3, <1>4, <1>5 DEF SInv

LEMMA EveryStep ==
  ASSUME SInv, [Next]_vars PROVE SInv' /\ \A r \in Reading : Stays(r)
<1>1. UNCHANGED <<file, index>> => \A r \in Reading : Stays(r)
  <2>1. file \in Seq(Line) /\ Len(file) \in Nat
    BY DEF SInv, TypeOK
  <2>2. QED
    BY <2>1 DEF Stays, Committed
<1>2. ASSUME NEW a \in Appender, AppendStep(a)
      PROVE  SInv' /\ \A r \in Reading : Stays(r)
  <2>0. file \in Seq(Line) /\ Len(file) \in Nat
    BY DEF SInv, TypeOK
  <2>1. CASE AppendLine(a) \/ AppendLineErrs(a)
    <3>1. SInv' /\ index' = index /\ \A n \in 1..Len(file) : n <= Len(file') /\ file'[n] = file[n]
      BY <2>1, AppendLineKeeps, AppendLineErrsKeeps
    <3>2. Len(file') \in Nat
      BY <3>1 DEF SInv, TypeOK
    <3>3. ASSUME NEW r \in Reading, index[r] \in 0..(Len(file) - 1), file[index[r] + 1] = r
          PROVE  index[r] < Len(file') /\ file'[index[r] + 1] = r
      <4>1. index[r] + 1 \in 1..Len(file)
        BY <2>0, <3>3
      <4>2. QED
        BY <3>1, <3>2, <3>3, <4>1
    <3>4. QED
      BY <3>1, <3>3 DEF Stays, Committed
  <2>2. CASE CommitIndex(a)
    BY <2>0, <2>2, CommitIndexKeeps DEF Stays, Committed
  <2>3. CASE CommitIndexErrs(a)
    BY <1>1, <2>3, CommitIndexErrsKeeps
  <2>4. CASE Rollback(a) \/ RollbackErrs(a)
    BY <2>4, RollbackKeeps DEF Stays, Committed
  <2>5. QED
    BY <1>2, <2>1, <2>2, <2>3, <2>4 DEF AppendStep
<1>3. CASE UNCHANGED vars
  BY <1>1, <1>3 DEF vars, SInv, TypeOK, Holding, Active, Placed, OwnLine, CountRight, RowsLead,
                    Untroubled
<1>4. ASSUME NEW c \in Client, ReadLine(c) \/ ExportEnds(c) \/ Disconnect(c)
      PROVE  SInv' /\ \A r \in Reading : Stays(r)
  BY <1>1, <1>4, RequestKeeps
<1>5. ASSUME NEW c \in Getter, Get(c) PROVE SInv' /\ \A r \in Reading : Stays(r)
  <2>1. c \in Client
    BY DEF Client
  <2>2. SInv' /\ UNCHANGED <<file, index>>
    <3>1. c \in Getter /\ Get(c)
      BY <1>5
    <3>2. QED
      BY <2>1, <3>1, RequestKeeps, Zenon
  <2>3. QED
    BY <1>1, <2>2
<1>6. ASSUME NEW c \in Exporter, Export(c) PROVE SInv' /\ \A r \in Reading : Stays(r)
  <2>1. c \in Client
    BY DEF Client
  <2>2. SInv' /\ UNCHANGED <<file, index>>
    <3>1. c \in Exporter /\ Export(c)
      BY <1>6
    <3>2. QED
      BY <2>1, <3>1, RequestKeeps, Zenon
  <2>3. QED
    BY <1>1, <2>2
<1>7. CASE RebuildIndex
  <2>1. Len(file) \in Nat
    BY DEF SInv, TypeOK
  <2>2. CASE RowsFromFile
    BY <1>7, <2>1, <2>2, RefillKeeps DEF Stays, Committed
  <2>3. CASE ShardUnreadable
    BY <1>7, <2>1, <2>3, SkipKeeps DEF Stays, Committed
  <2>4. QED
    BY <1>7, <2>2, <2>3 DEF RebuildIndex
<1>8. ASSUME NEW a \in Appender, NEW r \in Reading, Begin(a, r) \/ BeginMiscounts(a, r)
      PROVE  SInv' /\ \A q \in Reading : Stays(q)
  <2>1. UNCHANGED <<file, index>> /\ SInv'
    BY <1>8, BeginKeeps, BeginMiscountsKeeps
  <2>2. QED
    BY <1>1, <2>1
<1>9. CASE Shutdown
  <2>1. UNCHANGED <<file, index>> /\ SInv'
    BY <1>9, ShutdownKeeps
  <2>2. QED
    BY <1>1, <2>1
<1>10. ASSUME NEW m \in {"server", "ops"}, Start(m) \/ Crash(m)
       PROVE  SInv' /\ \A r \in Reading : Stays(r)
  <2>1. UNCHANGED <<file, index>> /\ SInv'
    BY <1>10, StartKeeps, CrashKeeps
  <2>2. QED
    BY <1>1, <2>1
<1>11. QED
  BY <1>2, <1>3, <1>4, <1>5, <1>6, <1>7, <1>8, <1>9, <1>10 DEF Next

LEMMA SpecSInv == Spec => []SInv
<1>1. SInv /\ [Next]_vars => SInv'
  BY EveryStep
<1>2. QED
  BY <1>1, InitSInv, PTL DEF Spec

(* The file, the index, the manifest and the cached count have their types. *)
THEOREM StoreTypeCorrect == Spec => []TypeOK
<1>1. SInv => TypeOK
  BY DEF SInv
<1>2. QED
  BY <1>1, SpecSInv, PTL

(* A row of the index never leads to another reading. *)
THEOREM RowsLeadHome == Spec => []RowsNameTheirLine
<1>1. ASSUME SInv, intact, NEW r \in Reading, index[r] # -1
      PROVE  index[r] < Len(Lines) /\ Lines[index[r] + 1] \in {r, Corrupt}
  <2>1. LeadsIn(file, Len(file), torn, index[r], r)
    BY <1>1 DEF SInv, RowsLead
  <2>2. /\ Len(file) \in Nat
        /\ Len(Lines) = IF torn = None THEN Len(file) ELSE Len(file) + 1
        /\ \A n \in 1..Len(file) : Lines[n] = file[n]
        /\ torn # None => Lines[Len(file) + 1] = torn
    BY <1>1, LinesFacts DEF SInv
  <2>3. CASE index[r] \in 0..(Len(file) - 1) /\ file[index[r] + 1] \in {r, Corrupt}
    <3>1. index[r] + 1 \in 1..Len(file) /\ index[r] < Len(Lines)
      BY <2>2, <2>3
    <3>2. Lines[index[r] + 1] = file[index[r] + 1]
      BY <2>2, <3>1
    <3>3. QED
      BY <2>3, <3>1, <3>2
  <2>4. CASE index[r] = Len(file) /\ torn \in {r, Corrupt}
    BY <2>2, <2>4, LineAssumption
  <2>5. QED
    BY <2>1, <2>3, <2>4 DEF LeadsIn
<1>2. SInv => RowsNameTheirLine
  BY <1>1 DEF RowsNameTheirLine
<1>3. QED
  BY <1>2, SpecSInv, PTL

(* Without a crash, a shutdown or a rollback that fails, index, manifest   *)
(* and file agree whenever no append is under way.                          *)
THEOREM StoreAgrees == Spec => []AgreeWithoutTrouble
<1>1. ASSUME SInv, trouble = 0, mu = None
      PROVE  /\ manifest.sum = Lines
             /\ \A n \in 1..Len(file) : index[file[n]] = n - 1
  <2>1. torn = None /\ CleanIn(file, Len(file), index, manifest.sum)
    BY <1>1 DEF SInv, Untroubled
  <2>2. manifest.sum \in Seq(Line) /\ file \in Seq(Line)
    BY <1>1 DEF SInv, TypeOK
  <2>3. manifest.sum = file
    BY <2>1, <2>2 DEF CleanIn
  <2>4. QED
    BY <2>1, <2>3 DEF CleanIn, Lines
<1>2. SInv => AgreeWithoutTrouble
  BY <1>1 DEF AgreeWithoutTrouble
<1>3. QED
  BY <1>2, SpecSInv, PTL

(* While the index is right, no rollback, crash or rebuild takes the line   *)
(* of a committed reading away, and only an offline rebuild that skips the  *)
(* whole shard takes its row.                                               *)
THEOREM CommittedLinesStay == Spec => CommittedStays
<1>1. SInv /\ [Next]_vars =>
        [intact =>
           \A r \in Reading : Committed(r) =>
             /\ index[r] < Len(file') /\ file'[index[r] + 1] = r
             /\ index'[r] = index[r] \/ ShardSkipped]_vars
  BY EveryStep DEF Stays
<1>2. SInv /\ [Next]_vars => SInv'
  BY EveryStep
<1>3. QED
  BY <1>1, <1>2, InitSInv, PTL DEF Spec, CommittedStays

=============================================================================
