---------------------------- MODULE ReadingStore ----------------------------
(***************************************************************************)
(* The reading store: an append-only shard file that holds the readings,   *)
(* and in the database an index of where each reading is and a manifest    *)
(* with the shard's count and checksum.                                    *)
(*                                                                         *)
(* Append holds the shard lock (shards.mu) from Begin to Commit or         *)
(* Rollback and takes the database's only connection in between.  Export   *)
(* holds the connection while it takes the lock for each row.  The server  *)
(* and the ops commands (import, rebuild-index) run one after the other    *)
(* here: a process starts with no cached line count.  One shard is         *)
(* modelled: the lock and the connection are shared by all of them.        *)
(***************************************************************************)
EXTENDS Integers, Sequences, FiniteSets

CONSTANTS
  Reading,     \* reading ids
  Appender,    \* goroutines that append
  Getter,      \* requests for one reading
  Exporter,    \* requests for an export
  None,
  Corrupt,     \* a line that does not decode
  MaxTrouble   \* bound: crashes, shutdowns, failed rollbacks, and files not readable

ASSUME LineAssumption == Corrupt \notin Reading /\ None \notin Reading \cup {Corrupt}
ASSUME ActorAssumption ==
  None \notin Appender \cup Getter \cup Exporter /\ Appender \cap (Getter \cup Exporter) = {}
ASSUME BoundAssumption == MaxTrouble \in Nat

VARIABLES
  mode,      \* which program runs, and whether its context is cancelled
  file,      \* the complete lines of the shard file
  torn,      \* what the file has after its last newline: nothing, part of a
             \* line, or a line that lacks only its newline and still decodes
  index,     \* reading_index: the line number of a reading, -1 for no row
  manifest,  \* the shard's row in reading_shards
  counts,    \* shard.Store.counts: the cached number of lines, -1 for none
  mu,        \* who holds the shard lock
  conn,      \* who keeps the connection beyond one statement
  app,       \* the appenders
  req,       \* the requests
  intact,    \* history: no failed rollback or count has left a wrong cached count
  trouble    \* how much of MaxTrouble is used

vars == <<mode, file, torn, index, manifest, counts, mu, conn, app, req, intact, trouble>>

disk  == <<file, torn>>
table == <<index, manifest>>
locks == <<mu, conn>>
bound == <<intact, trouble>>

Client == Getter \cup Exporter
Line   == Reading \cup {Corrupt}

(* The checksum folds line after line and stands for their sequence. *)
FoldChecksum(prev, line) == prev \o <<line>>

AppState == [pc     : {"idle", "begun", "written", "rollback"},
             id     : Reading \cup {None},
             lineNo : Nat,       \* lease.lineNo
             size   : Nat,       \* lease.sizeBefore: so many lines
             torn   : Line \cup {None}]   \* and what came after them

ReqState == [pc   : {"idle", "get", "export"},
             rows : SUBSET Reading]   \* rows of the result still to be read

NoAppend  == [pc |-> "idle", id |-> None, lineNo |-> 0, size |-> 0, torn |-> None]
NoRequest == [pc |-> "idle", rows |-> {}]

TypeOK ==
  /\ mode     \in {"server", "stopping", "ops"}
  /\ file     \in Seq(Line)
  /\ torn     \in Line \cup {None}
  /\ index    \in [Reading -> Nat \cup {-1}]
  /\ manifest \in [count : Nat, sum : Seq(Line)]
  /\ counts   \in Nat \cup {-1}
  /\ mu       \in Appender \cup {None}
  /\ conn     \in Exporter \cup {None}
  /\ app      \in [Appender -> AppState]
  /\ req      \in [Client -> ReqState]
  /\ intact   \in BOOLEAN
  /\ trouble  \in Nat

Init ==
  /\ mode     = "server"
  /\ file     = <<>>
  /\ torn     = None
  /\ index    = [r \in Reading |-> -1]
  /\ manifest = [count |-> 0, sum |-> <<>>]
  /\ counts   = -1
  /\ mu       = None
  /\ conn     = None
  /\ app      = [a \in Appender |-> NoAppend]
  /\ req      = [c \in Client |-> NoRequest]
  /\ intact   = TRUE
  /\ trouble  = 0

AllIdle == /\ \A a \in Appender : app[a].pc = "idle"
           /\ \A c \in Client : req[c].pc = "idle"

(* The lines as Scan sees them: it takes what is torn for a line, which     *)
(* ReadLine does too.                                                       *)
Lines == IF torn = None THEN file ELSE Append(file, torn)

InFile(r) == \E n \in 1..Len(Lines) : Lines[n] = r

(* A reading from the queue gets a new id; an imported one brings its own,  *)
(* and import runs alone and appends line by line.                          *)
Fresh(r) == ~InFile(r) /\ index[r] = -1 /\ \A a \in Appender : app[a].id # r

MayAppend(r) == \/ mode # "ops" /\ Fresh(r)
                \/ mode = "ops" /\ AllIdle

(* What a write leaves: the new line goes on where the file ended. *)
Merged(r) == IF torn = None THEN r ELSE Corrupt

----------------------------------------------------------------------------
(* Append. *)

(* The lock is not waited for. *)
BeginUnlocked(a, r) ==
  /\ app[a].pc = "idle"
  /\ MayAppend(r)
  /\ mu' = a
  /\ LET n == IF counts >= 0 THEN counts ELSE Len(file)
     IN  /\ counts' = n
         /\ app' = [app EXCEPT ![a] = [pc |-> "begun", id |-> r, lineNo |-> n,
                                       size |-> Len(file), torn |-> torn]]
  /\ UNCHANGED <<mode, disk, table, conn, req, bound>>

(* Begin: the lock, the size to roll back to, and the line number, cached   *)
(* or counted.                                                              *)
Begin(a, r) ==
  /\ app[a].pc = "idle"
  /\ MayAppend(r)
  /\ mu = None
  /\ mu' = a
  /\ LET n == IF counts >= 0 THEN counts ELSE Len(file)
     IN  /\ counts' = n
         /\ app' = [app EXCEPT ![a] = [pc |-> "begun", id |-> r, lineNo |-> n,
                                       size |-> Len(file), torn |-> torn]]
  /\ UNCHANGED <<mode, disk, table, conn, req, bound>>

(* The file that is to be counted cannot be read: it counts as empty.       *)
BeginMiscounts(a, r) ==
  /\ app[a].pc = "idle"
  /\ MayAppend(r)
  /\ mu = None
  /\ counts < 0 /\ file # <<>>
  /\ trouble < MaxTrouble
  /\ trouble' = trouble + 1
  /\ mu' = a
  /\ counts' = 0
  /\ app' = [app EXCEPT ![a] = [pc |-> "begun", id |-> r, lineNo |-> 0,
                                size |-> Len(file), torn |-> torn]]
  /\ intact' = FALSE
  /\ UNCHANGED <<mode, disk, table, conn, req>>

(* AppendLine: the new line ends what was torn off before it. *)
AppendLine(a) ==
  /\ app[a].pc = "begun"
  /\ mode # "stopping"
  /\ file' = Append(file, Merged(app[a].id))
  /\ torn' = None
  /\ counts' = app[a].lineNo + 1
  /\ app' = [app EXCEPT ![a].pc = "written"]
  /\ UNCHANGED <<mode, table, locks, req, bound>>

(* The write or the sync fails, after part of the line or all of it. *)
AppendLineErrs(a) ==
  /\ app[a].pc = "begun"
  /\ \/ UNCHANGED disk
     \/ mode # "stopping" /\ torn' \in {Corrupt, Merged(app[a].id)} /\ UNCHANGED file
     \/ mode # "stopping" /\ torn' = None
        /\ file' = Append(file, Merged(app[a].id))
  /\ app' = [app EXCEPT ![a].pc = "rollback"]
  /\ UNCHANGED <<mode, table, counts, locks, req, bound>>

(* The manifest is not touched. *)
CommitIndexOnly(a) ==
  /\ app[a].pc = "written"
  /\ mode # "stopping"
  /\ conn = None
  /\ index[app[a].id] = -1
  /\ index' = [index EXCEPT ![app[a].id] = app[a].lineNo]
  /\ mu' = None
  /\ app' = [app EXCEPT ![a] = NoAppend]
  /\ UNCHANGED <<mode, disk, manifest, counts, conn, req, bound>>

(* commitIndex: one transaction over both tables, then the lock is left. *)
CommitIndex(a) ==
  /\ app[a].pc = "written"
  /\ mode # "stopping"
  /\ conn = None
  /\ index[app[a].id] = -1
  /\ index' = [index EXCEPT ![app[a].id] = app[a].lineNo]
  /\ manifest' = [count |-> manifest.count + 1,
                  sum   |-> FoldChecksum(manifest.sum, app[a].id)]
  /\ mu' = None
  /\ app' = [app EXCEPT ![a] = NoAppend]
  /\ UNCHANGED <<mode, disk, counts, conn, req, bound>>

(* The id is taken, a statement fails, or the context is cancelled, also    *)
(* while BeginTx waits for the connection.                                  *)
CommitIndexErrs(a) ==
  /\ app[a].pc = "written"
  /\ conn = None \/ mode = "stopping"
  /\ app' = [app EXCEPT ![a].pc = "rollback"]
  /\ UNCHANGED <<mode, disk, table, counts, locks, req, bound>>

(* The file is cut but the cached count stays. *)
RollbackKeepsCount(a) ==
  /\ app[a].pc = "rollback"
  /\ mu' = None
  /\ app' = [app EXCEPT ![a] = NoAppend]
  /\ IF mode = "stopping"
     THEN UNCHANGED disk
     ELSE /\ file' = SubSeq(file, 1, app[a].size)
          /\ torn' = app[a].torn
  /\ UNCHANGED <<mode, table, counts, conn, req, bound>>

(* The early return leaves the lock taken. *)
RollbackKeepsLock(a) ==
  /\ app[a].pc = "rollback"
  /\ app' = [app EXCEPT ![a] = NoAppend]
  /\ IF mode = "stopping"
     THEN UNCHANGED <<disk, counts, mu>>
     ELSE /\ file' = SubSeq(file, 1, app[a].size)
          /\ torn' = app[a].torn
          /\ counts' = app[a].lineNo
          /\ mu' = None
  /\ UNCHANGED <<mode, table, conn, req, bound>>

(* One line is cut off, whether or not the append has written one. *)
RollbackCutsLast(a) ==
  /\ app[a].pc = "rollback"
  /\ mu' = None
  /\ app' = [app EXCEPT ![a] = NoAppend]
  /\ IF mode = "stopping"
     THEN UNCHANGED <<disk, counts>>
     ELSE /\ file' = SubSeq(file, 1, Len(file) - 1)
          /\ torn' = app[a].torn
          /\ counts' = app[a].lineNo
  /\ UNCHANGED <<mode, table, conn, req, bound>>

(* Rollback: with a cancelled context only the lock is released. *)
Rollback(a) ==
  /\ app[a].pc = "rollback"
  /\ mu' = None
  /\ app' = [app EXCEPT ![a] = NoAppend]
  /\ IF mode = "stopping"
     THEN UNCHANGED <<disk, counts>>
     ELSE /\ file' = SubSeq(file, 1, app[a].size)
          /\ torn' = app[a].torn
          /\ counts' = app[a].lineNo
  /\ UNCHANGED <<mode, table, conn, req, bound>>

(* Rollback gives up: the file is not cut, or it is and the cut is not      *)
(* synced; either way the cached count is not put right.                    *)
RollbackErrs(a) ==
  /\ app[a].pc = "rollback"
  /\ mode # "stopping"
  /\ trouble < MaxTrouble
  /\ trouble' = trouble + 1
  /\ mu' = None
  /\ app' = [app EXCEPT ![a] = NoAppend]
  /\ \/ UNCHANGED disk
     \/ file' = SubSeq(file, 1, app[a].size) /\ torn' = app[a].torn
  /\ intact' = (intact /\ counts = Len(file'))
  /\ UNCHANGED <<mode, table, counts, conn, req>>

----------------------------------------------------------------------------
(* Requests. *)

(* The row is not closed before the line is read. *)
GetKeepsConnection(c) ==
  /\ req[c].pc = "idle"
  /\ mode # "ops"
  /\ conn = None
  /\ conn' = c
  /\ \E r \in Reading :
       /\ index[r] # -1
       /\ req' = [req EXCEPT ![c] = [pc |-> "get", rows |-> {r}]]
  /\ UNCHANGED <<mode, disk, table, counts, mu, app, bound>>

(* Get looks the row up, gives the connection back, and reads the line. *)
Get(c) ==
  /\ req[c].pc = "idle"
  /\ mode # "ops"
  /\ conn = None
  /\ \E r \in Reading :
       /\ index[r] # -1
       /\ req' = [req EXCEPT ![c] = [pc |-> "get", rows |-> {r}]]
  /\ UNCHANGED <<mode, disk, table, counts, locks, app, bound>>

(* Export keeps the connection for its rows. *)
Export(c) ==
  /\ req[c].pc = "idle"
  /\ mode # "ops"
  /\ conn = None
  /\ conn' = c
  /\ req' = [req EXCEPT ![c] = [pc |-> "export", rows |-> {r \in Reading : index[r] # -1}]]
  /\ UNCHANGED <<mode, disk, table, counts, mu, app, bound>>

(* ReadLine takes the lock for each line; an unreadable one is skipped. *)
ReadLine(c) ==
  /\ mu = None
  /\ \E r \in req[c].rows :
       req' = [req EXCEPT ![c] = IF req[c].pc = "get" THEN NoRequest
                                 ELSE [req[c] EXCEPT !.rows = @ \ {r}]]
  /\ UNCHANGED <<mode, disk, table, counts, locks, app, bound>>

ExportEnds(c) ==
  /\ req[c].pc = "export"
  /\ req[c].rows = {}
  /\ conn' = None
  /\ req' = [req EXCEPT ![c] = NoRequest]
  /\ UNCHANGED <<mode, disk, table, counts, mu, app, bound>>

(* The client disconnects; database/sql closes the rows of a cancelled      *)
(* context, and the goroutine that still waits for the lock holds nothing.  *)
Disconnect(c) ==
  /\ req[c].pc # "idle"
  /\ conn' = IF conn = c THEN None ELSE conn
  /\ req' = [req EXCEPT ![c] = NoRequest]
  /\ UNCHANGED <<mode, disk, table, counts, mu, app, bound>>

----------------------------------------------------------------------------
(* Processes. *)

(* SIGTERM cancels the scheduler's context, and with it every append. *)
Shutdown ==
  /\ mode = "server"
  /\ trouble < MaxTrouble
  /\ trouble' = trouble + 1
  /\ mode' = "stopping"
  /\ UNCHANGED <<disk, table, counts, locks, app, req, intact>>

(* A process that has ended in peace makes room for the next one. *)
Start(m) ==
  /\ AllIdle
  /\ mode # m /\ mode # "server"
  /\ mode' = m
  /\ counts' = -1
  /\ UNCHANGED <<disk, table, locks, app, req, bound>>

(* The machine or the process dies; a line being written may be torn. *)
Crash(m) ==
  /\ trouble < MaxTrouble
  /\ trouble' = trouble + 1
  /\ ~AllIdle
  /\ \/ UNCHANGED torn
     \/ \E a \in Appender : app[a].pc = "begun" /\ torn' \in {Corrupt, Merged(app[a].id)}
  /\ mode' = m
  /\ counts' = -1
  /\ mu' = None
  /\ conn' = None
  /\ app' = [a \in Appender |-> NoAppend]
  /\ req' = [c \in Client |-> NoRequest]
  /\ UNCHANGED <<file, table, intact>>

(* RebuildIndex: both tables are emptied and filled from the file in one    *)
(* transaction.  A line that does not decode is left out of the index but   *)
(* counted in the manifest.  An id that comes twice violates the primary    *)
(* key and rolls everything back: then the command changes nothing.  A      *)
(* shard that cannot be read is skipped: the transaction commits without    *)
(* its rows.  It is a process of its own.                                   *)
Duplicate ==
  \E n, m \in 1..Len(Lines) : n # m /\ Lines[n] = Lines[m] /\ Lines[n] # Corrupt

RowsFromFile ==
  /\ ~Duplicate
  /\ index' = [r \in Reading |-> IF InFile(r) THEN (CHOOSE n \in 1..Len(Lines) : Lines[n] = r) - 1
                                 ELSE -1]
  /\ manifest' = [count |-> Len(Lines), sum |-> Lines]
  /\ UNCHANGED trouble

ShardUnreadable ==
  /\ trouble < MaxTrouble
  /\ trouble' = trouble + 1
  /\ index' = [r \in Reading |-> -1]
  /\ manifest' = [count |-> 0, sum |-> <<>>]

RebuildIndex ==
  /\ mode = "ops" /\ AllIdle
  /\ RowsFromFile \/ ShardUnreadable
  /\ counts' = -1
  /\ intact' = TRUE
  /\ UNCHANGED <<mode, disk, locks, app, req>>

----------------------------------------------------------------------------
AppendStep(a) ==
  \/ AppendLine(a)
  \/ AppendLineErrs(a)
  \/ CommitIndex(a)
  \/ CommitIndexErrs(a)
  \/ Rollback(a)
  \/ RollbackErrs(a)

Next ==
  \/ \E a \in Appender : AppendStep(a) \/ \E r \in Reading : Begin(a, r) \/ BeginMiscounts(a, r)
  \/ \E c \in Client : ReadLine(c) \/ ExportEnds(c) \/ Disconnect(c)
  \/ \E c \in Getter : Get(c)
  \/ \E c \in Exporter : Export(c)
  \/ Shutdown
  \/ \E m \in {"server", "ops"} : Start(m) \/ Crash(m)
  \/ RebuildIndex

Spec == Init /\ [][Next]_vars

(* The lock and the connection are handed to those who wait in turn.        *)
(* Nobody has to send a request, disconnect, or stop the server.            *)
Fairness ==
  /\ \A a \in Appender : SF_vars(AppendStep(a))
  /\ \A c \in Client : SF_vars(ReadLine(c)) /\ WF_vars(ExportEnds(c))

FairSpec == Spec /\ Fairness

----------------------------------------------------------------------------
(* Safety. *)

(* A row of the index never leads to another reading: the line it names     *)
(* holds that reading or, after a torn write, nothing that decodes.  The    *)
(* line number comes from a cached count that rollbacks, cancelled          *)
(* rollbacks, crashes and rebuilds all have to leave right; only a rollback *)
(* that fails half-way, or a file that could not be counted, leaves it      *)
(* wrong, until the index is rebuilt.                                       *)
RowsNameTheirLine ==
  intact =>
    \A r \in Reading :
      index[r] # -1 => /\ index[r] < Len(Lines)
                       /\ Lines[index[r] + 1] \in {r, Corrupt}

(* As long as there was no crash and no shutdown, a failed append leaves no *)
(* trace: between appends the checksum is that of the file, and each line   *)
(* has its row.                                                              *)
AgreeWithoutTrouble ==
  trouble = 0 /\ mu = None =>
    /\ manifest.sum = Lines
    /\ \A n \in 1..Len(file) : index[file[n]] = n - 1

(* What is indexed and on disk stays there, while the index is right: no    *)
(* rollback of a later append, cancelled or not, no crash and no rebuild    *)
(* takes the line of a committed reading away.  Its row stays too, but for  *)
(* one case: the offline rebuild skips a shard it cannot read, and then all *)
(* rows of the shard go, and the manifest with them, never some of them.    *)
Committed(r) == index[r] \in 0..(Len(file) - 1) /\ file[index[r] + 1] = r

ShardSkipped == mode = "ops" /\ manifest'.count = 0 /\ \A r \in Reading : index'[r] = -1

CommittedStays ==
  [][intact =>
       \A r \in Reading : Committed(r) =>
         /\ index[r] < Len(file') /\ file'[index[r] + 1] = r
         /\ index'[r] = index[r] \/ ShardSkipped]_vars

----------------------------------------------------------------------------
(* Liveness: however appends fail, get cancelled or wait for the            *)
(* connection, the shard lock comes free again and again, as long as        *)
(* exports give the connection back again and again.                        *)
LockComesFree == []<>(conn = None) => []<>(mu = None)

----------------------------------------------------------------------------
(* A statement of the sources that the code does not keep. *)

(* "concurrent writers serialise cleanly under load" (store/sqlite.go:24):  *)
(* whatever exports do, the shard lock comes free again.                     *)
LockComesFreeAnyway == []<>(mu = None)

============================================================================
