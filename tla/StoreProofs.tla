---------------------------- MODULE StoreProofs ----------------------------
(***************************************************************************)
(* SQLStore for any number of processes, goroutines and records: the       *)
(* refinement of AtomicRecords, and the completeness of an export.         *)
(***************************************************************************)
EXTENDS Store, TLAPS, FiniteSetTheorems, NaturalsInduction, WellFoundedInduction

LEMMA LeastExists ==
  ASSUME NEW S \in SUBSET Nat, S # {}
  PROVE  \E x \in S : \A y \in S : x <= y
<1>1. \E x \in S : \A y \in S : ~(<<y, x>> \in OpToRel(<, Nat))
  BY NatLessThanWellFounded, WFMin
<1>2. \A x, y \in Nat : y < x => <<y, x>> \in OpToRel(<, Nat)
  BY DEF OpToRel
<1>3. \E x \in S : \A y \in S : ~(y < x)
  BY <1>1, <1>2, Zenon
<1>4. QED
  BY <1>3

LEMMA MinIsLeast ==
  ASSUME NEW S \in SUBSET Nat, S # {}
  PROVE  Min(S) \in S /\ \A y \in S : Min(S) <= y
BY LeastExists DEF Min

LEMMA MaxIsGreatest ==
  ASSUME NEW S \in SUBSET Nat, S # {}, NEW n \in Nat, \A y \in S : y <= n
  PROVE  Max(S) \in S /\ \A y \in S : y <= Max(S)
<1> DEFINE U == {b \in Nat : \A y \in S : y <= b}
<1>1. PICK b \in U : \A c \in U : b <= c
  BY LeastExists
<1>2. b \in S
  <2>1. CASE b = 0
    <3>1. PICK y \in S : TRUE
      OBVIOUS
    <3>2. y = 0
      BY <1>1, <2>1, <3>1
    <3>3. QED
      BY <2>1, <3>1, <3>2
  <2>2. CASE b # 0 /\ b \notin S
    <3>1. b - 1 \in U
      BY <1>1, <2>2
    <3>2. QED
      BY <1>1, <3>1
  <2>3. QED
    BY <2>1, <2>2
<1>3. b \in S /\ \A y \in S : b >= y
  BY <1>1, <1>2
<1>4. Max(S) \in S /\ \A y \in S : Max(S) >= y
  BY <1>3 DEF Max
<1>5. QED
  BY <1>4

(***************************************************************************)
(* Transactions.                                                           *)
(***************************************************************************)

\* What a callback has read is still so, and what it will write is new.
Isolated ==
  \A t \in Updaters :
    /\ tx[t] = [read |-> tx[t].read, written |-> tx[t].written, rows |-> tx[t].rows]
    /\ DOMAIN tx[t].written \subseteq DOMAIN tx[t].read
    /\ DOMAIN tx[t].read \subseteq Keys
    /\ \A k \in DOMAIN tx[t].read : tx[t].read[k] = revision[k]
    /\ \A k \in DOMAIN tx[t].written :
         tx[t].written[k] = revision[k] + 1 /\ revision[k] < MaxRevision
    /\ tx[t].rows \subseteq Ids /\ tx[t].rows \cap audit = {}

TxInv == TypeOK /\ DOMAIN tx = Updaters /\ Isolated

LEMMA TxInit == Init => TxInv
<1> SUFFICES ASSUME Init PROVE TxInv
  OBVIOUS
<1> USE StoreAssumption DEF Init
<1>1. TypeOK
  BY DEF TypeOK, Threads, NewTx
<1>2. Isolated
  BY DEF Isolated, NewTx, NoRows
<1>3. QED
  BY <1>1, <1>2 DEF TxInv

\* A transaction that ends leaves everything free that it held, and nothing
\* else.
LEMMA EndTypes ==
  ASSUME TxInv, NEW t \in Updaters, pc[t] \in {"begun", "callback"}, End(t)
  PROVE  /\ pc' \in [Threads -> {"idle", "queued", "begun", "callback", "scanning", "exported"}]
         /\ DOMAIN conn' = Processes
         /\ \A p \in Processes : conn'[p] \in {Free} \cup {u \in Threads : Home[u] = p}
         /\ \A u \in Updaters :
              /\ (conn'[Home[u]] = u) <=> pc'[u] \in {"begun", "callback"}
              /\ (mutex' = u) <=> (pc'[u] = "callback")
              /\ pc'[u] # "callback" => tx'[u] = NewTx
         /\ DOMAIN tx' = Updaters
<1> USE StoreAssumption DEF TxInv, TypeOK, Threads
<1>1. /\ pc' = [pc EXCEPT ![t] = "idle"]
      /\ conn' = [conn EXCEPT ![Home[t]] = Free]
      /\ mutex' = IF mutex = t THEN Free ELSE mutex
      /\ tx' = [tx EXCEPT ![t] = NewTx]
  BY DEF End, Goto
<1>2. ASSUME NEW u \in Updaters, u # t
      PROVE  /\ (conn'[Home[u]] = u) <=> pc'[u] \in {"begun", "callback"}
             /\ (mutex' = u) <=> (pc'[u] = "callback")
             /\ pc'[u] # "callback" => tx'[u] = NewTx
  BY <1>1, <1>2
<1>3. /\ ~(conn'[Home[t]] = t) /\ pc'[t] = "idle"
      /\ mutex' # t
      /\ tx'[t] = NewTx
  BY <1>1
<1>4. QED
  BY <1>1, <1>2, <1>3

\* No step but Commit touches the tables.
LEMMA TxStep ==
  ASSUME TxInv, [Next]_vars
  PROVE  TxInv'
<1> USE StoreAssumption DEF TxInv, TypeOK, Threads, Isolated, database, locks
<1>1. ASSUME NEW t \in Updaters, Request(t) \/ BeginFails(t)
      PROVE  TxInv'
  BY <1>1 DEF Request, BeginFails, Goto
<1>2. ASSUME NEW t \in Updaters, BeginTx(t)
      PROVE  TxInv'
  BY <1>2 DEF BeginTx, Goto
<1>3. ASSUME NEW t \in Updaters, TakeMutex(t)
      PROVE  TxInv'
  BY <1>3 DEF TakeMutex, Goto
<1>4. ASSUME NEW t \in Updaters, NEW k \in Keys, Get(t, k)
      PROVE  TxInv'
  <2>1. pc[t] = "callback" /\ UNCHANGED <<database, locks, pc, scan>>
    BY <1>4 DEF Get
  <2>2. /\ tx'[t] = [tx[t] EXCEPT !.read = Put(@, k, revision[k])]
        /\ \A u \in Updaters : u # t => tx'[u] = tx[u]
        /\ DOMAIN tx' = Updaters
    BY <1>4 DEF Get
  <2>3. /\ tx'[t].written = tx[t].written /\ tx'[t].rows = tx[t].rows
        /\ tx'[t].read = Put(tx[t].read, k, revision[k])
        /\ tx'[t] = [read |-> tx'[t].read, written |-> tx'[t].written, rows |-> tx'[t].rows]
    BY <2>2
  <2>4. /\ DOMAIN tx'[t].read = DOMAIN tx[t].read \cup {k}
        /\ \A j \in DOMAIN tx'[t].read : tx'[t].read[j] = revision[j]
    BY <2>3 DEF Put
  <2>5. TypeOK'
    BY <2>1, <2>2
  <2>6. Isolated'
    BY <2>1, <2>2, <2>3, <2>4
  <2>7. QED
    BY <2>2, <2>5, <2>6
<1>5. ASSUME NEW t \in Updaters, NEW k \in Keys, PutNext(t, k)
      PROVE  TxInv'
  <2>1. pc[t] = "callback" /\ UNCHANGED <<database, locks, pc, scan>>
    BY <1>5 DEF PutNext
  <2>2. /\ tx'[t] = [tx[t] EXCEPT !.written = Put(@, k, tx[t].read[k] + 1)]
        /\ \A u \in Updaters : u # t => tx'[u] = tx[u]
        /\ DOMAIN tx' = Updaters
    BY <1>5 DEF PutNext
  <2>3. /\ tx'[t].read = tx[t].read /\ tx'[t].rows = tx[t].rows
        /\ tx'[t].written = Put(tx[t].written, k, tx[t].read[k] + 1)
        /\ tx'[t] = [read |-> tx'[t].read, written |-> tx'[t].written, rows |-> tx'[t].rows]
    BY <2>2
  <2>4. k \in DOMAIN tx[t].read /\ tx[t].read[k] < MaxRevision
    BY <1>5 DEF PutNext, Has
  <2>5. /\ DOMAIN tx'[t].written = DOMAIN tx[t].written \cup {k}
        /\ \A j \in DOMAIN tx'[t].written :
             tx'[t].written[j] = revision[j] + 1 /\ revision[j] < MaxRevision
    BY <2>3, <2>4 DEF Put
  <2>6. TypeOK'
    BY <2>1, <2>2
  <2>7. Isolated'
    BY <2>1, <2>2, <2>3, <2>4, <2>5
  <2>8. QED
    BY <2>2, <2>6, <2>7
<1>6. ASSUME NEW t \in Updaters, NEW id \in Ids, PutAudit(t, id)
      PROVE  TxInv'
  <2>1. pc[t] = "callback" /\ id \notin audit /\ UNCHANGED <<database, locks, pc, scan>>
    BY <1>6 DEF PutAudit
  <2>2. /\ tx'[t] = [tx[t] EXCEPT !.rows = @ \cup {id}]
        /\ \A u \in Updaters : u # t => tx'[u] = tx[u]
        /\ DOMAIN tx' = Updaters
    BY <1>6 DEF PutAudit
  <2>3. /\ tx'[t].read = tx[t].read /\ tx'[t].written = tx[t].written
        /\ tx'[t].rows = tx[t].rows \cup {id}
        /\ tx'[t] = [read |-> tx'[t].read, written |-> tx'[t].written, rows |-> tx'[t].rows]
    <3> HIDE DEF TypeOK, TxInv, Isolated
    <3>1. tx[t] = [read |-> tx[t].read, written |-> tx[t].written, rows |-> tx[t].rows]
      BY DEF TxInv, Isolated
    <3>2. QED
      BY <2>2, <3>1
  <2>4. TypeOK'
    BY <2>1, <2>2
  <2>5. Isolated'
    BY <2>1, <2>2, <2>3
  <2>6. QED
    BY <2>2, <2>4, <2>5
<1>7. ASSUME NEW t \in Updaters, Commit(t)
      PROVE  TxInv'
  <2>1. pc[t] = "callback" /\ End(t)
    BY <1>7 DEF Commit
  <2>2. \A k \in Keys : revision'[k] = IF k \in DOMAIN tx[t].written THEN tx[t].written[k] ELSE revision[k]
    BY <1>7 DEF Commit, Has
  <2>3. revision' \in [Keys -> 0..MaxRevision]
    BY <1>7, <2>2 DEF Commit
  <2>4. audit' \subseteq Ids
    BY <1>7 DEF Commit
  <2>5. TypeOK' /\ DOMAIN tx' = Updaters
    BY <2>1, <2>3, <2>4, EndTypes
  <2>6. \A u \in Updaters : tx'[u] = NewTx
    BY <2>1 DEF End
  <2>7. Isolated'
    BY <2>6 DEF NewTx, NoRows
  <2>8. QED
    BY <2>5, <2>7
<1>8. ASSUME NEW t \in Updaters, Rollback(t)
      PROVE  TxInv'
  <2>1. pc[t] \in {"begun", "callback"} /\ End(t) /\ UNCHANGED database
    BY <1>8 DEF Rollback
  <2>2. TypeOK' /\ DOMAIN tx' = Updaters
    BY <2>1, EndTypes
  <2>3. tx'[t] = NewTx /\ \A u \in Updaters : u # t => tx'[u] = tx[u]
    BY <2>1 DEF End
  <2>4. Isolated'
    BY <2>1, <2>3 DEF NewTx, NoRows
  <2>5. QED
    BY <2>2, <2>4
<1>9. ASSUME NEW t \in Exporters,
             ScanUpper(t) \/ ScanBatch(t) \/ Visit(t) \/ ScanDone(t) \/ ScanEnds(t)
      PROVE  TxInv'
  <2>1. UNCHANGED <<database, locks, tx>>
    BY <1>9 DEF ScanUpper, ScanBatch, Visit, ScanDone, ScanEnds
  <2>2. /\ pc' \in [Threads -> {"idle", "queued", "begun", "callback", "scanning", "exported"}]
        /\ \A u \in Updaters : pc'[u] = pc[u]
    BY <1>9 DEF ScanUpper, ScanBatch, Visit, ScanDone, ScanEnds, Goto
  <2>3. QED
    BY <2>1, <2>2
<1>10. ASSUME NEW p \in Processes, Crash(p)
       PROVE  TxInv'
  <2> DEFINE dead == {t \in Threads : Home[t] = p}
  <2>1. /\ pc' = [t \in Threads |-> IF t \in dead THEN "idle" ELSE pc[t]]
        /\ conn' = [conn EXCEPT ![p] = Free]
        /\ mutex' = IF mutex \in dead THEN Free ELSE mutex
        /\ tx' = [t \in Updaters |-> IF t \in dead THEN NewTx ELSE tx[t]]
        /\ UNCHANGED database
    BY <1>10 DEF Crash
  <2>2. pc' \in [Threads -> {"idle", "queued", "begun", "callback", "scanning", "exported"}]
    BY <2>1
  <2>3. DOMAIN conn' = Processes /\ \A q \in Processes : conn'[q] \in {Free} \cup {t \in Threads : Home[t] = q}
    BY <2>1
  <2>4. ASSUME NEW u \in Updaters
        PROVE  /\ (conn'[Home[u]] = u) <=> pc'[u] \in {"begun", "callback"}
               /\ (mutex' = u) <=> (pc'[u] = "callback")
               /\ pc'[u] # "callback" => tx'[u] = NewTx
    <3>1. CASE Home[u] = p
      BY <2>1, <3>1
    <3>2. CASE Home[u] # p
      BY <2>1, <3>2
    <3>3. QED
      BY <3>1, <3>2
  <2>5. TypeOK'
    BY <2>1, <2>2, <2>3, <2>4
  <2>6. \A u \in Updaters : tx'[u] \in {NewTx, tx[u]}
    BY <2>1
  <2>7. revision' = revision /\ audit' = audit
    BY <2>1
  <2>8. Isolated'
    BY <2>6, <2>7 DEF NewTx, NoRows
  <2>9. QED
    BY <2>1, <2>5, <2>8
<1>11. CASE UNCHANGED vars
  BY <1>11 DEF vars
<1>12. QED
  BY <1>1, <1>2, <1>3, <1>4, <1>5, <1>6, <1>7, <1>8, <1>9, <1>10, <1>11 DEF Next

LEMMA TxInductive == Spec => []TxInv
BY TxInit, TxStep, PTL DEF Spec

\* The locks are held by the goroutines that use them, and the tables keep
\* their types.
THEOREM TypeCorrect == Spec => []TypeOK
<1>1. TxInv => TypeOK
  BY DEF TxInv
<1>2. QED
  BY TxInductive, <1>1, PTL

\* SQLStore.Update is atomic: each commit is one transaction on the tables as
\* they are at that moment, whatever other goroutines and processes do.
THEOREM Atomicity == Spec => ImplementsAtomicRecords
<1>1. Init => Abstract!Init
  BY DEF Init, Abstract!Init
<1>2. ASSUME TxInv, [Next]_vars
      PROVE  [Abstract!Next]_(Abstract!vars)
  <2>1. ASSUME NEW t \in Updaters, Commit(t)
        PROVE  Abstract!Next
    <3> DEFINE ks == DOMAIN tx[t].written
    <3>1. /\ ks \subseteq DOMAIN tx[t].read /\ ks \subseteq Keys
          /\ \A k \in ks : tx[t].written[k] = revision[k] + 1
          /\ tx[t].rows \subseteq Ids /\ tx[t].rows \cap audit = {}
      BY <1>2 DEF TxInv, Isolated
    <3>2. revision' = [k \in Keys |-> IF k \in ks THEN revision[k] + 1 ELSE revision[k]]
      BY <2>1, <3>1 DEF Commit, Has
    <3>3. advances' = [k \in Keys |-> IF k \in ks THEN advances[k] + 1 ELSE advances[k]]
      BY <2>1 DEF Commit, Has
    <3>4. audit' = audit \cup tx[t].rows
      BY <2>1 DEF Commit
    <3>5. Abstract!Transaction(ks, tx[t].rows)
      BY <3>1, <3>2, <3>3, <3>4 DEF Abstract!Transaction
    <3>6. ks \in SUBSET Keys /\ tx[t].rows \in SUBSET Abstract!Ids
      BY <3>1 DEF Ids, Abstract!Ids
    <3>7. QED
      BY <3>5, <3>6 DEF Abstract!Next
  <2>2. CASE \E t \in Updaters : Commit(t)
    BY <2>1, <2>2
  <2>3. CASE ~\E t \in Updaters : Commit(t)
    <3>1. UNCHANGED database
      BY <1>2, <2>3
      DEF Next, vars, Request, BeginTx, BeginFails, TakeMutex, Get, PutNext, PutAudit, Rollback,
          ScanUpper, ScanBatch, Visit, ScanDone, ScanEnds, Crash, database
    <3>2. QED
      BY <3>1 DEF database, Abstract!vars
  <2>4. QED
    BY <2>2, <2>3
<1>3. QED
  BY <1>1, <1>2, TxInductive, PTL DEF Spec, ImplementsAtomicRecords, Abstract!Spec

(***************************************************************************)
(* Exports.                                                                *)
(***************************************************************************)

\* A batch is not empty while the upper id is ahead, its ids lie beyond the
\* last batch, and it skips no row below its last one.
LEMMA BatchFacts ==
  ASSUME audit \subseteq Ids, NEW after \in Nat, NEW upper \in audit, after < upper
  PROVE  LET rows == NextRows(after, upper)
         IN  /\ rows \subseteq audit
             /\ Max(rows) \in rows
             /\ \A id \in rows : after < id /\ id <= Max(rows) /\ id <= upper
             /\ \A id \in audit : after < id /\ id <= Max(rows) => id \in rows
<1> USE StoreAssumption
<1> DEFINE all == {id \in audit : after < id /\ id <= upper}
           below(id) == {j \in all : j < id}
           rows == {id \in all : Cardinality(below(id)) < Batch}
<1>1. NextRows(after, upper) = rows
  BY DEF NextRows
<1>2. upper \in Nat /\ all \in SUBSET Nat /\ all # {} /\ \A id \in all : id <= upper
  <2>1. audit \subseteq Nat
    BY DEF Ids
  <2>2. upper \in all
    BY <2>1
  <2>3. QED
    BY <2>1, <2>2
<1>3. PICK least \in all : \A id \in all : least <= id
  BY <1>2, LeastExists
<1>4. least \in rows
  <2>1. below(least) = {}
    BY <1>2, <1>3
  <2>2. Cardinality({}) = 0 /\ 0 < Batch
    BY FS_EmptySet
  <2>3. QED
    BY <2>1, <2>2
<1>5. Max(rows) \in rows /\ \A id \in rows : id <= Max(rows)
  <2>1. rows \in SUBSET Nat /\ rows # {} /\ \A id \in rows : id <= upper
    BY <1>2, <1>4
  <2> HIDE DEF rows
  <2>2. QED
    BY <1>2, <2>1, MaxIsGreatest
<1>6. ASSUME NEW id \in audit, after < id, id <= Max(rows)
      PROVE  id \in rows
  <2>1. Max(rows) \in all /\ Cardinality(below(Max(rows))) < Batch
    BY <1>5
  <2>2. id \in all
    <3> HIDE DEF rows
    <3>1. Max(rows) <= upper /\ Max(rows) \in Nat /\ id \in Nat
      BY <2>1, <1>2 DEF Ids
    <3>2. QED
      BY <3>1, <1>2, <1>6
  <2>3. below(id) \subseteq below(Max(rows))
    <3> HIDE DEF rows
    <3>1. QED
      BY <1>2, <2>1, <2>2, <1>6
  <2>4. /\ IsFiniteSet(below(id)) /\ IsFiniteSet(below(Max(rows)))
        /\ Cardinality(below(id)) <= Cardinality(below(Max(rows)))
    <3> HIDE DEF rows
    <3>1. below(Max(rows)) \in SUBSET Nat /\ \A j \in below(Max(rows)) : j <= upper
      BY <1>2
    <3>2. IsFiniteSet(below(Max(rows)))
      BY <1>2, <3>1, FS_BoundedSetOfNaturals
    <3>3. QED
      BY <2>3, <3>2, FS_Subset
  <2>5. Cardinality(below(id)) \in Nat /\ Cardinality(below(Max(rows))) \in Nat
    BY <2>4, FS_CardinalityType
  <2>6. Cardinality(below(id)) < Batch
    BY <2>1, <2>4, <2>5
  <2>7. QED
    BY <2>2, <2>6
<1>7. QED
  BY <1>1, <1>2, <1>5, <1>6

\* How far an export is: everything up to "after" has been delivered or is in
\* the batch.
Sound(s) ==
  /\ s = [upper |-> s.upper, after |-> s.after, batch |-> s.batch, out |-> s.out,
          present |-> s.present]
  /\ s.upper \in Nat /\ s.upper \in {0} \cup audit /\ s.after \in 0..s.upper
  /\ s.present \subseteq audit /\ \A id \in s.present : id <= s.upper
  /\ s.batch \subseteq 1..s.after
  /\ s.out \in Seq(1..s.after)
  /\ \A i, j \in DOMAIN s.out : i < j => s.out[i] < s.out[j]
  /\ \A i \in DOMAIN s.out, id \in s.batch : s.out[i] < id
  /\ \A id \in s.present : id <= s.after => id \in s.batch \cup Range(s.out)

ScanInv ==
  /\ DOMAIN scan = Exporters
  /\ \A t \in Exporters :
       /\ Sound(scan[t])
       /\ pc[t] = "exported" => scan[t].batch = {} /\ scan[t].after >= scan[t].upper

\* Rows that are added do not disturb an export.
LEMMA SoundStays ==
  ASSUME NEW s, Sound(s), audit \subseteq audit', audit \subseteq Ids
  PROVE  Sound(s)'
BY DEF Sound

LEMMA NewScanSound == Sound(NewScan)
BY DEF Sound, NewScan

LEMMA UpperSound ==
  ASSUME audit \subseteq Ids
  PROVE  Sound([upper |-> Max({0} \cup audit), after |-> 0, batch |-> {}, out |-> <<>>,
                present |-> audit])
<1> USE StoreAssumption
<1> DEFINE m == Max({0} \cup audit)
           s == [upper |-> m, after |-> 0, batch |-> {}, out |-> <<>>, present |-> audit]
<1>2. m \in {0} \cup audit /\ \A id \in {0} \cup audit : id <= m
  <2>1. {0} \cup audit \in SUBSET Nat /\ \A id \in {0} \cup audit : id <= MaxId
    BY DEF Ids
  <2>2. QED
    BY <2>1, MaxIsGreatest
<1> HIDE DEF m
<1>3. m \in Nat /\ \A id \in audit : id \in Nat /\ ~(id <= 0)
  BY <1>2 DEF Ids
<1>4. Sound(s)
  BY <1>2, <1>3 DEF Sound
<1>5. QED
  BY <1>4 DEF m

LEMMA SeqOfMore ==
  ASSUME NEW S, NEW T, S \subseteq T, NEW q \in Seq(S)
  PROVE  q \in Seq(T) /\ \A i \in DOMAIN q : q[i] \in S
OBVIOUS

LEMMA BatchSound ==
  ASSUME audit \subseteq Ids, NEW s, Sound(s), s.batch = {}, s.after < s.upper
  PROVE  LET rows == NextRows(s.after, s.upper)
         IN  Sound([upper |-> s.upper, after |-> Max(rows), batch |-> rows, out |-> s.out,
                    present |-> s.present])
<1> DEFINE rows == NextRows(s.after, s.upper)
           m == Max(rows)
           n == [upper |-> s.upper, after |-> m, batch |-> rows, out |-> s.out, present |-> s.present]
<1>1. audit \subseteq Nat /\ s.after \in Nat /\ s.upper \in audit /\ s.upper \in Nat
  BY StoreAssumption DEF Sound, Ids
<1>2. /\ rows \subseteq audit
      /\ m \in rows
      /\ \A id \in rows : s.after < id /\ id <= m /\ id <= s.upper
      /\ \A id \in audit : s.after < id /\ id <= m => id \in rows
  BY <1>1, BatchFacts
<1> HIDE DEF rows, m
<1>4. m \in 0..s.upper /\ m \in Nat /\ s.after < m
  BY <1>1, <1>2
<1>5. rows \subseteq 1..m
  BY <1>1, <1>2, <1>4
<1>6. s.out \in Seq(1..m) /\ \A i \in DOMAIN s.out : s.out[i] \in 1..s.after
  <2>1. s.out \in Seq(1..s.after) /\ 1..s.after \subseteq 1..m
    BY <1>1, <1>4 DEF Sound
  <2> DEFINE q == s.out
             S == 1..s.after
             T == 1..m
  <2>2. q \in Seq(S) /\ S \subseteq T
    BY <2>1
  <2> HIDE DEF q, S, T
  <2>3. q \in Seq(T) /\ \A i \in DOMAIN q : q[i] \in S
    BY <2>2, SeqOfMore
  <2>4. QED
    BY <2>3 DEF q, S, T
<1>7. \A i \in DOMAIN s.out, id \in rows : s.out[i] < id
  <2> SUFFICES ASSUME NEW i \in DOMAIN s.out, NEW id \in rows
               PROVE  s.out[i] < id
    OBVIOUS
  <2>1. s.out[i] \in 1..s.after
    BY <1>6
  <2>2. id \in Nat /\ s.after < id
    BY <1>1, <1>2
  <2>3. QED
    BY <1>1, <2>1, <2>2
<1>8. \A id \in s.present : id <= m => id \in rows \cup Range(s.out)
  BY <1>1, <1>2 DEF Sound
<1>9. Sound(n)
  BY <1>1, <1>4, <1>5, <1>6, <1>7, <1>8 DEF Sound
<1>10. QED
  BY <1>9 DEF m, rows

LEMMA VisitSound ==
  ASSUME audit \subseteq Ids, NEW s, Sound(s), s.batch # {}
  PROVE  LET row == Min(s.batch)
         IN  Sound([upper |-> s.upper, after |-> s.after, batch |-> s.batch \ {row},
                    out |-> Append(s.out, row), present |-> s.present])
<1> DEFINE row == Min(s.batch)
           o == Append(s.out, row)
           n == [upper |-> s.upper, after |-> s.after, batch |-> s.batch \ {row}, out |-> o,
                 present |-> s.present]
<1>1. audit \subseteq Nat /\ s.after \in Nat /\ s.upper \in Nat
  BY StoreAssumption DEF Sound, Ids
<1>2. row \in s.batch /\ \A id \in s.batch : row <= id
  <2>1. s.batch \in SUBSET Nat
    BY <1>1 DEF Sound
  <2>2. QED
    BY <2>1, MinIsLeast
<1> HIDE DEF row
<1>4. row \in 1..s.after /\ s.out \in Seq(1..s.after) /\ s.batch \subseteq 1..s.after
  BY <1>2 DEF Sound
<1>5. /\ o \in Seq(1..s.after)
      /\ DOMAIN o = 1..(Len(s.out) + 1) /\ DOMAIN s.out = 1..Len(s.out)
      /\ o[Len(s.out) + 1] = row
      /\ \A i \in 1..Len(s.out) : o[i] = s.out[i]
      /\ Len(s.out) \in Nat
  BY <1>4
<1> HIDE DEF o
<1>6. \A i \in 1..Len(s.out) : s.out[i] < row
  BY <1>2, <1>5 DEF Sound
<1>7. \A i, j \in DOMAIN o : i < j => o[i] < o[j]
  <2> SUFFICES ASSUME NEW i \in DOMAIN o, NEW j \in DOMAIN o, i < j
               PROVE  o[i] < o[j]
    OBVIOUS
  <2>1. i \in 1..Len(s.out) /\ o[i] = s.out[i]
    BY <1>5
  <2>2. CASE j = Len(s.out) + 1
    BY <1>5, <1>6, <2>1, <2>2
  <2>3. CASE j \in 1..Len(s.out)
    BY <1>5, <2>1, <2>3 DEF Sound
  <2>4. QED
    BY <1>5, <2>2, <2>3
<1>8. \A i \in DOMAIN o, id \in s.batch \ {row} : o[i] < id
  <2>1. \A id \in s.batch \ {row} : row < id
    BY <1>2, <1>4
  <2>2. \A i \in 1..Len(s.out), id \in s.batch : s.out[i] < id
    BY <1>5 DEF Sound
  <2>3. QED
    BY <1>5, <2>1, <2>2
<1>9. s.batch \cup Range(s.out) \subseteq (s.batch \ {row}) \cup Range(o)
  BY <1>5 DEF Range
<1>10. Sound(n)
  <2>1. \A id \in s.present : id <= s.after => id \in (s.batch \ {row}) \cup Range(o)
    BY <1>9 DEF Sound
  <2>2. QED
    BY <1>5, <1>7, <1>8, <2>1 DEF Sound
<1>11. QED
  BY <1>10 DEF row, o

LEMMA ScanStep ==
  ASSUME TxInv, TxInv', ScanInv, [Next]_vars
  PROVE  ScanInv'
<1> USE StoreAssumption DEF ScanInv
<1>1. audit \subseteq Ids /\ audit \subseteq audit' /\ DOMAIN pc = Threads
  <2>1. audit \subseteq Ids /\ DOMAIN pc = Threads
    BY DEF TxInv, TypeOK
  <2>2. audit \subseteq audit'
    BY DEF Next, vars, database, Request, BeginTx, BeginFails, TakeMutex, Get, PutNext,
           PutAudit, Commit, Rollback, ScanUpper, ScanBatch, Visit, ScanDone, ScanEnds, Crash
  <2>3. QED
    BY <2>1, <2>2
<1>2. ASSUME UNCHANGED scan, \A u \in Exporters : pc'[u] = pc[u]
      PROVE  ScanInv'
  BY <1>1, <1>2, SoundStays
<1>3. ASSUME NEW t \in Updaters,
             \/ Request(t) \/ BeginTx(t) \/ BeginFails(t) \/ TakeMutex(t)
             \/ \E k \in Keys : Get(t, k) \/ PutNext(t, k)
             \/ \E id \in Ids : PutAudit(t, id)
             \/ Commit(t) \/ Rollback(t)
      PROVE  ScanInv'
  <2>1. UNCHANGED scan
    BY <1>3 DEF Request, BeginTx, BeginFails, TakeMutex, Get, PutNext, PutAudit, Commit, Rollback, End
  <2>2. \A u \in Exporters : pc'[u] = pc[u]
    BY <1>1, <1>3
    DEF Request, BeginTx, BeginFails, TakeMutex, Get, PutNext, PutAudit, Commit, Rollback, End, Goto,
        Threads
  <2>3. QED
    BY <1>2, <2>1, <2>2
<1>4. ASSUME NEW t \in Exporters, audit' = audit, Sound(scan'[t]),
             DOMAIN scan' = Exporters, \A u \in Exporters : u # t => scan'[u] = scan[u],
             \A u \in Exporters : u # t => pc'[u] = pc[u],
             pc'[t] = "exported" => scan'[t].batch = {} /\ scan'[t].after >= scan'[t].upper
      PROVE  ScanInv'
  <2>1. \A u \in Exporters : Sound(scan'[u])
    BY <1>4
  <2>2. \A u \in Exporters : Sound(scan[u])'
    BY <2>1, <1>4 DEF Sound
  <2>3. QED
    BY <1>4, <2>2
<1>5. ASSUME NEW t \in Exporters, ScanUpper(t)
      PROVE  ScanInv'
  <2>1. scan'[t] = [upper |-> Max({0} \cup audit), after |-> 0, batch |-> {}, out |-> <<>>,
                    present |-> audit]
    BY <1>5 DEF ScanUpper, NewScan
  <2>2. Sound(scan'[t])
    BY <1>1, <2>1, UpperSound
  <2>3. QED
    BY <1>1, <1>4, <1>5, <2>2 DEF ScanUpper, Goto, Threads, database
<1>6. ASSUME NEW t \in Exporters, ScanBatch(t)
      PROVE  ScanInv'
  <2> DEFINE rows == NextRows(scan[t].after, scan[t].upper)
  <2>1. /\ scan[t].batch = {} /\ scan[t].after < scan[t].upper /\ pc[t] = "scanning"
        /\ scan' = [scan EXCEPT ![t].batch = rows, ![t].after = Max(rows)]
        /\ UNCHANGED <<database, pc>>
    BY <1>6 DEF ScanBatch
  <2>2. scan'[t] = [upper |-> scan[t].upper, after |-> Max(rows), batch |-> rows, out |-> scan[t].out,
                    present |-> scan[t].present]
    <3> HIDE DEF rows
    <3>1. scan[t] = [upper |-> scan[t].upper, after |-> scan[t].after, batch |-> scan[t].batch,
                     out |-> scan[t].out, present |-> scan[t].present]
      BY DEF Sound
    <3> HIDE DEF ScanInv
    <3>2. t \in DOMAIN scan
      BY DEF ScanInv
    <3>3. QED
      BY <2>1, <3>1, <3>2
  <2>3. Sound(scan'[t])
    BY <1>1, <2>1, <2>2, BatchSound
  <2>4. DOMAIN scan' = Exporters /\ \A u \in Exporters : u # t => scan'[u] = scan[u]
    BY <2>1
  <2>5. QED
    BY <1>4, <2>1, <2>3, <2>4 DEF database
<1>7. ASSUME NEW t \in Exporters, Visit(t)
      PROVE  ScanInv'
  <2> DEFINE row == Min(scan[t].batch)
  <2>1. /\ scan[t].batch # {} /\ pc[t] = "scanning"
        /\ scan' = [scan EXCEPT ![t].out = Append(@, row), ![t].batch = @ \ {row}]
        /\ UNCHANGED <<database, pc>>
    BY <1>7 DEF Visit
  <2>2. scan'[t] = [upper |-> scan[t].upper, after |-> scan[t].after, batch |-> scan[t].batch \ {row},
                    out |-> Append(scan[t].out, row), present |-> scan[t].present]
    <3> HIDE DEF row
    <3>1. scan[t] = [upper |-> scan[t].upper, after |-> scan[t].after, batch |-> scan[t].batch,
                     out |-> scan[t].out, present |-> scan[t].present]
      BY DEF Sound
    <3> HIDE DEF ScanInv
    <3>2. t \in DOMAIN scan
      BY DEF ScanInv
    <3>3. QED
      BY <2>1, <3>1, <3>2
  <2>3. Sound(scan'[t])
    BY <1>1, <2>1, <2>2, VisitSound
  <2>4. DOMAIN scan' = Exporters /\ \A u \in Exporters : u # t => scan'[u] = scan[u]
    BY <2>1
  <2>5. QED
    BY <1>4, <2>1, <2>3, <2>4 DEF database
<1>8. ASSUME NEW t \in Exporters, ScanDone(t)
      PROVE  ScanInv'
  BY <1>1, <1>4, <1>8 DEF ScanDone, Goto, Threads, database
<1>9. ASSUME NEW t \in Exporters, ScanEnds(t)
      PROVE  ScanInv'
  BY <1>1, <1>4, <1>9, NewScanSound DEF ScanEnds, Goto, Threads, database
<1>10. ASSUME NEW p \in Processes, Crash(p)
       PROVE  ScanInv'
  <2>1. /\ audit' = audit /\ DOMAIN scan' = Exporters
        /\ \A u \in Exporters :
             \/ scan'[u] = NewScan /\ pc'[u] = "idle"
             \/ scan'[u] = scan[u] /\ pc'[u] = pc[u]
    <3>1. /\ pc' = [u \in Threads |-> IF Home[u] = p THEN "idle" ELSE pc[u]]
          /\ scan' = [u \in Exporters |-> IF Home[u] = p THEN NewScan ELSE scan[u]]
          /\ audit' = audit
      BY <1>10 DEF Crash, database, Threads
    <3>2. QED
      <4> HIDE DEF ScanInv
      <4>1. QED
        BY <3>1 DEF Threads
  <2>2. \A u \in Exporters : Sound(scan'[u])
    BY <2>1, NewScanSound
  <2>3. \A u \in Exporters : Sound(scan[u])'
    BY <2>1, <2>2 DEF Sound
  <2>4. QED
    BY <2>1, <2>3
<1>11. CASE UNCHANGED vars
  BY <1>2, <1>11 DEF vars
<1>12. QED
  BY <1>3, <1>5, <1>6, <1>7, <1>8, <1>9, <1>10, <1>11 DEF Next

\* An export that reaches its end has every row that was there when it began,
\* once and in order, whatever was inserted between its batches.
THEOREM ExportComplete == Spec => []ScanIsComplete
<1>1. Init => ScanInv
  BY NewScanSound DEF Init, ScanInv, Threads
<1>2. ASSUME TxInv, ScanInv
      PROVE  ScanIsComplete
  <2> SUFFICES ASSUME NEW t \in Exporters, pc[t] = "exported"
               PROVE  /\ scan[t].present \subseteq Range(scan[t].out)
                      /\ \A i \in DOMAIN scan[t].out : scan[t].out[i] <= scan[t].upper
                      /\ \A i, j \in DOMAIN scan[t].out : i < j => scan[t].out[i] < scan[t].out[j]
    BY DEF ScanIsComplete
  <2>1. Sound(scan[t]) /\ scan[t].batch = {} /\ scan[t].after >= scan[t].upper
    BY <1>2 DEF ScanInv
  <2>2. scan[t].upper \in Nat /\ scan[t].after = scan[t].upper
    BY <2>1 DEF Sound
  <2>3. scan[t].present \subseteq Range(scan[t].out)
    BY <2>1, <2>2 DEF Sound
  <2>4. \A i \in DOMAIN scan[t].out : scan[t].out[i] <= scan[t].upper
    BY <2>1, <2>2 DEF Sound
  <2>5. QED
    BY <2>1, <2>3, <2>4 DEF Sound
<1>3. QED
  BY <1>1, <1>2, ScanStep, TxInductive, PTL DEF Spec
=============================================================================
