------------------------------- MODULE Store -------------------------------
(***************************************************************************)
(* SQLStore: transactions of several goroutines in several server          *)
(* processes on one database, and the batched export of the audit log.     *)
(*                                                                         *)
(* Each process has a pool of one connection (SetMaxOpenConns(1)).  A      *)
(* transaction holds it from BeginTx to Commit or Rollback, and takes the  *)
(* write lock of the row ssm_mutex before the callback runs.  The callback *)
(* is represented by the pattern that needs isolation most: read the       *)
(* revision of a record, store its successor, add audit rows.  Audit ids   *)
(* are a time stamp and a random token, so a new id may sort anywhere.     *)
(***************************************************************************)
EXTENDS Naturals, Sequences, FiniteSets, FiniteSetsExt, Functions, Records

CONSTANTS
  Processes,    \* server processes, each with one connection
  Updaters,     \* goroutines that call Update
  Exporters,    \* goroutines that call Scan
  Home,         \* the process a goroutine belongs to
  Keys,         \* records with a revision
  MaxRevision,  \* bound on revisions, for model checking
  MaxId,        \* audit ids are 1..MaxId in text order; 0 is the empty string
  Batch,        \* rows of one Scan query (256 in the code)
  Free          \* no goroutine

Threads == Updaters \cup Exporters

ASSUME StoreAssumption ==
  /\ Home \in [Threads -> Processes]
  /\ Updaters \cap Exporters = {}
  /\ MaxRevision \in Nat /\ MaxId \in Nat
  /\ Batch \in Nat \ {0}
  /\ Free \notin Threads

VARIABLES
  revision,   \* committed: record -> revision
  audit,      \* committed: set of audit ids
  conn,       \* process -> goroutine that uses its connection, or Free
  mutex,      \* goroutine whose transaction holds the row ssm_mutex, or Free
  pc,         \* goroutine -> where it is
  tx,         \* updater -> what its transaction has read and written
  scan,       \* exporter -> its local variables
  advances    \* ghost: record -> number of commits that stored a successor

vars == <<revision, audit, conn, mutex, pc, tx, scan, advances>>
database == <<revision, audit, advances>>
locks == <<conn, mutex>>

Ids == 1..MaxId
NewTx == [read |-> NoRows, written |-> NoRows, rows |-> {}]

\* "present" is a ghost: the audit rows there were when the export started.
NewScan == [upper |-> 0, after |-> 0, batch |-> {}, out |-> <<>>, present |-> {}]

Init ==
  /\ revision = [k \in Keys |-> 0]
  /\ audit = {}
  /\ conn = [p \in Processes |-> Free]
  /\ mutex = Free
  /\ pc = [t \in Threads |-> "idle"]
  /\ tx = [t \in Updaters |-> NewTx]
  /\ scan = [t \in Exporters |-> NewScan]
  /\ advances = [k \in Keys |-> 0]

Goto(t, place) == pc' = [pc EXCEPT ![t] = place]

(***************************************************************************)
(* Update.                                                                 *)
(***************************************************************************)

\* A request arrives and calls Update: it queues for the connection.
Request(t) ==
  /\ pc[t] = "idle"
  /\ Goto(t, "queued")
  /\ UNCHANGED <<database, locks, tx, scan>>

\* BeginTx: the pool hands out its connection.
BeginTx(t) ==
  /\ pc[t] = "queued"
  /\ conn[Home[t]] = Free
  /\ conn' = [conn EXCEPT ![Home[t]] = t]
  /\ Goto(t, "begun")
  /\ UNCHANGED <<database, mutex, tx, scan>>

\* The caller goes away while it waits for the connection.
BeginFails(t) ==
  /\ pc[t] = "queued"
  /\ Goto(t, "idle")
  /\ UNCHANGED <<database, locks, tx, scan>>

\* Mutant: the transaction does not take the row lock.
TakeMutexNot(t) ==
  /\ pc[t] = "begun"
  /\ mutex' = t
  /\ Goto(t, "callback")
  /\ UNCHANGED <<database, conn, tx, scan>>

\* UPDATE ssm_mutex SET counter=counter: waits for the row's write lock.
TakeMutex(t) ==
  /\ pc[t] = "begun"
  /\ mutex = Free
  /\ mutex' = t
  /\ Goto(t, "callback")
  /\ UNCHANGED <<database, conn, tx, scan>>

\* Get sees the transaction's own writes and otherwise what is committed.
Get(t, k) ==
  /\ pc[t] = "callback"
  /\ ~Has(tx[t].read, k)
  /\ tx' = [tx EXCEPT ![t].read = Put(@, k, revision[k])]
  /\ UNCHANGED <<database, locks, pc, scan>>

\* Put of the successor of the revision that was read.
PutNext(t, k) ==
  /\ pc[t] = "callback"
  /\ Has(tx[t].read, k) /\ ~Has(tx[t].written, k)
  /\ tx[t].read[k] < MaxRevision
  /\ tx' = [tx EXCEPT ![t].written = Put(@, k, tx[t].read[k] + 1)]
  /\ UNCHANGED <<database, locks, pc, scan>>

\* Put of an audit row under a new id.
PutAudit(t, id) ==
  /\ pc[t] = "callback"
  /\ id \notin audit /\ \A u \in Updaters : id \notin tx[u].rows
  /\ tx' = [tx EXCEPT ![t].rows = @ \cup {id}]
  /\ UNCHANGED <<database, locks, pc, scan>>

\* The transaction ends: connection and row lock are released.
End(t) ==
  /\ Goto(t, "idle")
  /\ conn' = [conn EXCEPT ![Home[t]] = Free]
  /\ mutex' = IF mutex = t THEN Free ELSE mutex
  /\ tx' = [tx EXCEPT ![t] = NewTx]
  /\ UNCHANGED scan

Commit(t) ==
  /\ pc[t] = "callback"
  /\ revision' = [k \in Keys |-> IF Has(tx[t].written, k) THEN tx[t].written[k] ELSE revision[k]]
  /\ audit' = audit \cup tx[t].rows
  /\ advances' = [k \in Keys |-> IF Has(tx[t].written, k) THEN advances[k] + 1 ELSE advances[k]]
  /\ End(t)

\* The callback fails, the caller goes away, the wait for the row lock times
\* out, or the commit fails: the deferred Rollback discards every write.
Rollback(t) ==
  /\ pc[t] \in {"begun", "callback"}
  /\ End(t)
  /\ UNCHANGED database

(***************************************************************************)
(* Scan.  A query takes the connection, reads its rows and gives the       *)
(* connection back before the consumer sees them: one step that needs the  *)
(* connection to be free.                                                  *)
(***************************************************************************)

\* SELECT COALESCE(MAX(id),''): the upper bound is read once.
ScanUpper(t) ==
  /\ pc[t] = "idle"
  /\ conn[Home[t]] = Free
  /\ scan' = [scan EXCEPT ![t] = [NewScan EXCEPT !.upper = Max({0} \cup audit), !.present = audit]]
  /\ Goto(t, "scanning")
  /\ UNCHANGED <<database, locks, tx>>

\* The ids of (after, upper]: the first of them in ascending order, at most
\* Batch.
NextRows(after, upper) ==
  LET rows == {id \in audit : after < id /\ id <= upper}
  IN  {id \in rows : Cardinality({j \in rows : j < id}) < Batch}

\* Mutant: a batch ignores the upper bound.
ScanBatchUnbounded(t) ==
  /\ pc[t] = "scanning" /\ scan[t].batch = {}
  /\ scan[t].after < scan[t].upper
  /\ conn[Home[t]] = Free
  /\ LET rows == NextRows(scan[t].after, MaxId)
     IN  scan' = [scan EXCEPT ![t].batch = rows, ![t].after = Max(rows)]
  /\ UNCHANGED <<database, locks, pc, tx>>

\* Mutant: the rows stay open, and with them the connection, while the
\* consumer reads.
ScanBatchOpen(t) ==
  /\ pc[t] = "scanning" /\ scan[t].batch = {}
  /\ scan[t].after < scan[t].upper
  /\ conn[Home[t]] \in {Free, t}
  /\ conn' = [conn EXCEPT ![Home[t]] = t]
  /\ LET rows == NextRows(scan[t].after, scan[t].upper)
     IN  scan' = [scan EXCEPT ![t].batch = rows, ![t].after = Max(rows)]
  /\ UNCHANGED <<database, mutex, pc, tx>>

\* One query of the loop.  The row of the upper id is still there, because
\* audit rows are never deleted, so a batch is never empty.
ScanBatch(t) ==
  /\ pc[t] = "scanning" /\ scan[t].batch = {}
  /\ scan[t].after < scan[t].upper
  /\ conn[Home[t]] = Free
  /\ LET rows == NextRows(scan[t].after, scan[t].upper)
     IN  scan' = [scan EXCEPT ![t].batch = rows, ![t].after = Max(rows)]
  /\ UNCHANGED <<database, locks, pc, tx>>

\* The consumer takes the next row of the batch.
Visit(t) ==
  /\ pc[t] = "scanning" /\ scan[t].batch # {}
  /\ LET row == Min(scan[t].batch)
     IN  scan' = [scan EXCEPT ![t].out = Append(@, row), ![t].batch = @ \ {row}]
  /\ UNCHANGED <<database, locks, pc, tx>>

\* The loop ends: the export is complete.
ScanDone(t) ==
  /\ pc[t] = "scanning" /\ scan[t].batch = {}
  /\ scan[t].after >= scan[t].upper
  /\ Goto(t, "exported")
  /\ UNCHANGED <<database, locks, tx, scan>>

\* The handler returns; or a query or the consumer fails, the export is
\* aborted and the client is told so (downloadAudit panics with
\* ErrAbortHandler).
ScanEnds(t) ==
  /\ pc[t] \in {"scanning", "exported"}
  /\ Goto(t, "idle")
  /\ scan' = [scan EXCEPT ![t] = NewScan]
  /\ UNCHANGED <<database, locks, tx>>

(***************************************************************************)
(* A process dies; the database rolls its transaction back.                *)
(***************************************************************************)
Crash(p) ==
  LET dead == {t \in Threads : Home[t] = p}
  IN  /\ \E t \in dead : pc[t] # "idle"
      /\ pc' = [t \in Threads |-> IF t \in dead THEN "idle" ELSE pc[t]]
      /\ conn' = [conn EXCEPT ![p] = Free]
      /\ mutex' = IF mutex \in dead THEN Free ELSE mutex
      /\ tx' = [t \in Updaters |-> IF t \in dead THEN NewTx ELSE tx[t]]
      /\ scan' = [t \in Exporters |-> IF t \in dead THEN NewScan ELSE scan[t]]
      /\ UNCHANGED database

Next ==
  \/ \E t \in Updaters :
       \/ Request(t) \/ BeginTx(t) \/ BeginFails(t) \/ TakeMutex(t)
       \/ \E k \in Keys : Get(t, k) \/ PutNext(t, k)
       \/ \E id \in Ids : PutAudit(t, id)
       \/ Commit(t) \/ Rollback(t)
  \/ \E t \in Exporters :
       ScanUpper(t) \/ ScanBatch(t) \/ Visit(t) \/ ScanDone(t) \/ ScanEnds(t)
  \/ \E p \in Processes : Crash(p)

\* database/sql hands a free connection to one of the goroutines that wait, not
\* always the oldest; that nobody is passed over for ever is assumed.  A
\* transaction ends: BUSY and lock wait timeouts end the wait for the
\* row, and a callback does not wait for anything.  Nothing is assumed of the
\* consumer of an export.
Fairness ==
  \A t \in Updaters :
    SF_vars(BeginTx(t)) /\ WF_vars(Commit(t) \/ Rollback(t))

Spec == Init /\ [][Next]_vars /\ Fairness

(***************************************************************************)
(* Properties.                                                             *)
(***************************************************************************)

\* Types, and who holds what: the connection belongs to the one transaction
\* of its process that has begun, and the row lock to the one callback that
\* runs, whichever process it runs in.
TypeOK ==
  /\ revision \in [Keys -> 0..MaxRevision]
  /\ audit \subseteq Ids
  /\ pc \in [Threads -> {"idle", "queued", "begun", "callback", "scanning", "exported"}]
  /\ DOMAIN conn = Processes
  /\ \A p \in Processes : conn[p] \in {Free} \cup {t \in Threads : Home[t] = p}
  /\ \A t \in Updaters :
       /\ (conn[Home[t]] = t) <=> pc[t] \in {"begun", "callback"}
       /\ (mutex = t) <=> (pc[t] = "callback")
       /\ pc[t] # "callback" => tx[t] = NewTx

Abstract == INSTANCE AtomicRecords

\* Every commit is a transaction of its own: of two callbacks that advance the
\* same record, in one process or in two, both count, and a transaction that
\* advances two records does so at once (storage.go: "Taking this row's write
\* lock makes token redemption and revision updates atomic even if multiple
\* clients race for the same record").
ImplementsAtomicRecords == Abstract!Spec

\* An export that reaches its end has every row that was there when it
\* started, in ascending order and once, although rows were inserted before,
\* between and after its batches, and no row beyond the upper id it read
\* first (storage_test.go: "Scan must stop at its initial high-water mark").
ScanIsComplete ==
  \A t \in Exporters : pc[t] = "exported" =>
    /\ scan[t].present \subseteq Range(scan[t].out)
    /\ \A i \in DOMAIN scan[t].out : scan[t].out[i] <= scan[t].upper
    /\ \A i, j \in DOMAIN scan[t].out : i < j => scan[t].out[i] < scan[t].out[j]

\* A transaction that is waiting ends, although the consumer of an export may
\* stop reading for ever (storage.go: "a slow download cannot monopolize the
\* single connection used by this store") and other processes compete for the
\* row lock.
UpdatesEnd == \A t \in Updaters : pc[t] = "queued" ~> pc[t] = "idle"
=============================================================================
