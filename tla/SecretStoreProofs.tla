------------------------- MODULE SecretStoreProofs -------------------------
(***************************************************************************)
(* Proofs about SecretStore for every set of paths, values, masters and    *)
(* keys and every MaxRevision.  One inductive invariant carries all of     *)
(* them: the stored rows, the vault and the answers given are tied to the  *)
(* envelope's data key and to the history of each path.                    *)
(***************************************************************************)
EXTENDS SecretStore, TLAPS

Inv ==
  /\ TypeOK
  /\ VaultHoldsDataKey
  /\ SecretsRecoverable
  /\ RevisionCountsWrites
  /\ AnswersComeFromHistory

\* The empty store satisfies the invariant.
LEMMA InitInv == Init => Inv
  BY KeysAssumption DEF Init, Inv, TypeOK, VaultHoldsDataKey, SecretsRecoverable,
     RevisionCountsWrites, AnswersComeFromHistory, Initialized, Locked, Exists, Stored,
     ZeroSecret, Has, NoRows

\* Setup and master changes: only the envelope row changes, and a master
\* change keeps the data key it wraps.
LEMMA EnvelopeStep ==
  ASSUME Inv, NEW m \in StrongMasters, NEW k \in Keys,
         Initialized => k = DataKey,
         config' = Put(config, "envelope", Wrap(m, k)),
         UNCHANGED <<vault, secrets, history, seen, last>>
  PROVE  Inv'
<1>1. Initialized' /\ DataKey' = k
  BY DEF Initialized, DataKey, Envelope, Put, Has, Wrap, Seal
<1>2. TypeOK'
  BY <1>1 DEF Inv, TypeOK, Put, Wrap, Seal, Initialized, Envelope, Has, DekLabel
<1>3. VaultHoldsDataKey'
  BY <1>1 DEF Inv, VaultHoldsDataKey, Locked
<1>4. SecretsRecoverable'
  BY <1>1 DEF Inv, SecretsRecoverable, Exists, Has, Opens
<1>5. RevisionCountsWrites' /\ AnswersComeFromHistory'
  BY DEF Inv, RevisionCountsWrites, AnswersComeFromHistory, Stored, Has
<1> QED
  BY <1>2, <1>3, <1>4, <1>5 DEF Inv

\* Unlock, lock and restart: only the vault changes.
LEMMA VaultStep ==
  ASSUME Inv, vault' = NoKey \/ (Initialized /\ vault' = DataKey),
         UNCHANGED <<config, secrets, history, seen, last>>
  PROVE  Inv'
  BY DEF Inv, TypeOK, VaultHoldsDataKey, SecretsRecoverable, RevisionCountsWrites,
     AnswersComeFromHistory, Locked, Initialized, DataKey, Envelope, Exists, Stored, Has, Opens

\* A stored value: the row, the history and the revision advance together.
LEMMA StoreValueStep ==
  ASSUME Inv, NEW p \in Paths, NEW v \in Values, ~Locked, StoreValue(p, v)
  PROVE  Inv'
<1> DEFINE row == NextRow(p, v)
<1>0. /\ secrets' = Put(secrets, p, row)
      /\ history' = [history EXCEPT ![p] = Append(@, v)]
      /\ UNCHANGED <<config, vault, seen, last>>
  BY DEF StoreValue
<1>1. /\ Initialized /\ vault = DataKey /\ vault \in Keys
      /\ history \in [Paths -> Seq(Values)] /\ history[p] \in Seq(Values)
  BY DEF Inv, VaultHoldsDataKey, TypeOK, Locked
<1>2. /\ Stored(p).revision = Len(history[p])
      /\ Stored(p).revision \in Nat
  BY <1>1 DEF Inv, RevisionCountsWrites
<1>3. /\ row.revision = Len(history[p]) + 1
      /\ row.ciphertext = Seal(vault, v, p)
      /\ row.deleted = FALSE
      /\ row \in Secret
  BY <1>1, <1>2 DEF NextRow, Secret, Seal
<1>4. /\ Len(history'[p]) = Len(history[p]) + 1
      /\ history'[p][Len(history[p]) + 1] = v
      /\ \A i \in 1..Len(history[p]) : history'[p][i] = history[p][i]
      /\ \A q \in Paths \ {p} : history'[q] = history[q]
      /\ history' \in [Paths -> Seq(Values)]
  BY <1>0, <1>1
<1>5. /\ secrets'[p] = row
      /\ DOMAIN secrets' = DOMAIN secrets \cup {p}
      /\ \A q \in DOMAIN secrets \ {p} : secrets'[q] = secrets[q]
  BY <1>0 DEF Put
<1>6. UNCHANGED <<Initialized, DataKey, Locked, Envelope>>
  BY <1>0 DEF Initialized, DataKey, Envelope, Locked, Has
<1> HIDE DEF row
<1>7. TypeOK'
  BY <1>0, <1>3, <1>4, <1>5, <1>6 DEF Inv, TypeOK
<1>8. VaultHoldsDataKey'
  BY <1>0, <1>6 DEF Inv, VaultHoldsDataKey
<1>9. SecretsRecoverable'
  <2> SUFFICES ASSUME NEW q \in Paths, Exists(q)'
               PROVE  (/\ Initialized
                       /\ Opens(DataKey, secrets[q].ciphertext, q)
                       /\ history[q] # <<>>
                       /\ secrets[q].ciphertext.plain = history[q][Len(history[q])])'
    BY DEF SecretsRecoverable
  <2>1. CASE q = p
    BY <2>1, <1>1, <1>3, <1>4, <1>5, <1>6 DEF Opens, Seal
  <2>2. CASE q # p
    BY <2>2, <1>4, <1>5, <1>6 DEF Inv, SecretsRecoverable, Exists, Has, Opens
  <2> QED BY <2>1, <2>2
<1>10. RevisionCountsWrites'
  BY <1>3, <1>4, <1>5 DEF Inv, RevisionCountsWrites, Stored, Has
<1>11. AnswersComeFromHistory'
  <2>0. \A q \in Paths : last'[q] <= Len(history'[q])
    BY <1>0, <1>1, <1>4 DEF Inv, TypeOK, AnswersComeFromHistory
  <2> SUFFICES ASSUME NEW x \in seen
               PROVE  /\ x.revision \in 1..Len(history'[x.path])
                      /\ x.value = history'[x.path][x.revision]
    BY <1>0, <2>0 DEF AnswersComeFromHistory
  <2>1. /\ x.path \in Paths
        /\ x.revision \in 1..Len(history[x.path])
        /\ x.value = history[x.path][x.revision]
    BY DEF Inv, TypeOK, AnswersComeFromHistory
  <2>2. CASE x.path = p
    <3>1. Len(history[p]) \in Nat
      BY <1>1
    <3>2. x.revision \in 1..Len(history[p]) /\ x.value = history[p][x.revision]
      BY <2>1, <2>2
    <3>3. x.revision \in 1..(Len(history[p]) + 1) /\ history'[p][x.revision] = history[p][x.revision]
      BY <3>1, <3>2, <1>4
    <3> QED BY <2>2, <3>2, <3>3, <1>4
  <2>3. CASE x.path # p
    BY <2>1, <2>3, <1>4
  <2> QED BY <2>2, <2>3
<1> QED
  BY <1>7, <1>8, <1>9, <1>10, <1>11 DEF Inv

\* A deletion: the tombstone keeps the revision that history counts.
LEMMA SecretDeleteStep ==
  ASSUME Inv, NEW p \in Paths, SecretDelete(p)
  PROVE  Inv'
<1>1. /\ DOMAIN secrets' = DOMAIN secrets
      /\ p \in DOMAIN secrets
      /\ secrets'[p] = Tombstone(p)
      /\ \A q \in DOMAIN secrets \ {p} : secrets'[q] = secrets[q]
      /\ UNCHANGED <<config, vault, history, seen, last>>
  BY DEF SecretDelete, Put, Exists, Has, ghosts
<1>2. /\ secrets'[p] \in Secret
      /\ secrets'[p].revision = secrets[p].revision
      /\ secrets'[p].deleted = TRUE
  BY <1>1 DEF Inv, TypeOK, Secret, Tombstone
<1>3. UNCHANGED <<Initialized, DataKey, Locked, Envelope>>
  BY <1>1 DEF Initialized, DataKey, Envelope, Locked, Has
<1>4. TypeOK'
  BY <1>1, <1>2, <1>3 DEF Inv, TypeOK
<1>5. SecretsRecoverable'
  BY <1>1, <1>2, <1>3 DEF Inv, SecretsRecoverable, Exists, Has, Opens
<1>6. RevisionCountsWrites'
  BY <1>1, <1>2 DEF Inv, RevisionCountsWrites, Stored, Has
<1>7. VaultHoldsDataKey' /\ AnswersComeFromHistory'
  BY <1>1, <1>3 DEF Inv, VaultHoldsDataKey, AnswersComeFromHistory
<1> QED
  BY <1>4, <1>5, <1>6, <1>7 DEF Inv

\* What a GET adds to the answers: the last value of the path's history.
LEMMA SecretGetAnswer ==
  ASSUME Inv, NEW p \in Paths, SecretGet(p)
  PROVE  \E x : /\ seen' = seen \cup {x}
                /\ x \in [path : Paths, revision : Nat, value : Values]
                /\ x.path = p
                /\ last' = [last EXCEPT ![p] = x.revision]
                /\ x.revision = Len(history[p])
                /\ x.revision \in 1..Len(history[p])
                /\ x.value = history[p][x.revision]
<1> DEFINE x == [path |-> p, revision |-> secrets[p].revision,
                 value |-> secrets[p].ciphertext.plain]
<1>1. /\ Exists(p)
      /\ seen' = seen \cup {x}
      /\ last' = [last EXCEPT ![p] = x.revision]
  BY DEF SecretGet
<1>2. /\ history[p] \in Seq(Values)
      /\ history[p] # <<>>
      /\ secrets[p].ciphertext.plain = history[p][Len(history[p])]
      /\ secrets[p].revision = Len(history[p])
  BY <1>1 DEF Inv, TypeOK, SecretsRecoverable, RevisionCountsWrites, Stored, Exists
<1>3. Len(history[p]) \in 1..Len(history[p]) /\ history[p][Len(history[p])] \in Values
  BY <1>2
<1>4. x \in [path : Paths, revision : Nat, value : Values]
  BY <1>2, <1>3
<1> WITNESS x
<1> QED BY <1>1, <1>2, <1>3, <1>4

\* A GET: only the answers grow.
LEMMA SecretGetStep ==
  ASSUME Inv, NEW p \in Paths, SecretGet(p)
  PROVE  Inv'
<1>1. PICK x : /\ seen' = seen \cup {x}
               /\ x \in [path : Paths, revision : Nat, value : Values]
               /\ x.path = p
               /\ last' = [last EXCEPT ![p] = x.revision]
               /\ x.revision \in 1..Len(history[p])
               /\ x.value = history[p][x.revision]
  BY SecretGetAnswer
<1>2. UNCHANGED <<config, vault, secrets, history>>
  BY DEF SecretGet
<1>3. TypeOK' /\ VaultHoldsDataKey' /\ SecretsRecoverable' /\ RevisionCountsWrites'
  BY <1>1, <1>2 DEF Inv, TypeOK, VaultHoldsDataKey, SecretsRecoverable, RevisionCountsWrites,
     Initialized, DataKey, Envelope, Locked, Exists, Stored, Has, Opens
<1>4. AnswersComeFromHistory'
  <2>1. history[p] \in Seq(Values) /\ last \in [Paths -> Nat]
    BY DEF Inv, TypeOK
  <2>2. \A q \in Paths : last'[q] <= Len(history'[q])
    BY <1>1, <1>2, <2>1 DEF Inv, AnswersComeFromHistory
  <2>3. \A y \in seen' : /\ y.revision \in 1..Len(history'[y.path])
                        /\ y.value = history'[y.path][y.revision]
    BY <1>1, <1>2 DEF Inv, AnswersComeFromHistory
  <2> QED BY <2>2, <2>3 DEF AnswersComeFromHistory
<1> QED
  BY <1>3, <1>4 DEF Inv

\* Every step of the store preserves the invariant.
LEMMA NextInv == Inv /\ [Next]_vars => Inv'
<1> SUFFICES ASSUME Inv, [Next]_vars PROVE Inv'
  OBVIOUS
<1>1. ASSUME NEW m \in Masters, NEW k \in Keys, Setup(m, k) PROVE Inv'
  BY <1>1, EnvelopeStep DEF Setup, ghosts
<1>2. ASSUME NEW m \in Masters, Unlock(m) PROVE Inv'
  BY <1>2, VaultStep DEF Unlock, Unwraps, ghosts
<1>3. CASE Lock
  BY <1>3, VaultStep DEF Lock, ghosts
<1>4. CASE Restart
  BY <1>4, VaultStep DEF Restart, ghosts
<1>5. ASSUME NEW old \in Masters, NEW new \in Masters, ChangeMaster(old, new) PROVE Inv'
  <2>1. DataKey \in Keys
    BY <1>5 DEF ChangeMaster, Rewrap, Unwraps, Inv, TypeOK, DataKey
  <2> QED BY <1>5, <2>1, EnvelopeStep DEF ChangeMaster, Rewrap, ghosts
<1>6. ASSUME NEW p \in Paths, NEW v \in Values, SecretPost(p, v) PROVE Inv'
  BY <1>6, StoreValueStep DEF SecretPost
<1>7. ASSUME NEW p \in Paths, NEW v \in Values, SecretPut(p, v) PROVE Inv'
  BY <1>7, StoreValueStep DEF SecretPut
<1>8. ASSUME NEW p \in Paths, NEW v \in Values, NEW c \in BOOLEAN, WriteSecret(c, p, v)
      PROVE  Inv'
  BY <1>6, <1>7, <1>8 DEF WriteSecret
<1>9. ASSUME NEW p \in Paths, SecretDelete(p) PROVE Inv'
  BY <1>9, SecretDeleteStep
<1>10. ASSUME NEW p \in Paths, SecretGet(p) PROVE Inv'
  BY <1>10, SecretGetStep
<1>11. CASE UNCHANGED vars
  BY <1>11 DEF vars, Inv, TypeOK, VaultHoldsDataKey, SecretsRecoverable, RevisionCountsWrites,
     AnswersComeFromHistory, Initialized, DataKey, Envelope, Locked, Exists, Stored, Has, Opens
<1> QED
  BY <1>1, <1>2, <1>3, <1>4, <1>5, <1>6, <1>7, <1>8, <1>9, <1>10, <1>11 DEF Next

\* The inductive invariant holds in every reachable state.
THEOREM Invariance == Spec => []Inv
<1>1. Init => Inv BY InitInv
<1>2. Inv /\ [Next]_vars => Inv' BY NextInv
<1> QED BY <1>1, <1>2, PTL DEF Spec

\* The tables, the vault, the history and the answers keep their types.
THEOREM TypeCorrect == Spec => []TypeOK
<1>1. Inv => TypeOK BY DEF Inv
<1> QED BY <1>1, Invariance, PTL

\* Setup, unlock, lock, restart and master changes in any order never leave an
\* unlocked vault with a key the stored envelope does not wrap.
THEOREM VaultKeyCorrect == Spec => []VaultHoldsDataKey
<1>1. Inv => VaultHoldsDataKey BY DEF Inv
<1> QED BY <1>1, Invariance, PTL

\* No sequence of operations makes a visible secret undecryptable or stale.
THEOREM Recoverable == Spec => []SecretsRecoverable
<1>1. Inv => SecretsRecoverable BY DEF Inv
<1> QED BY <1>1, Invariance, PTL

\* A revision number is never used for two values, deletion included.
THEOREM RevisionCorrect == Spec => []RevisionCountsWrites
<1>1. Inv => RevisionCountsWrites BY DEF Inv
<1> QED BY <1>1, Invariance, PTL

\* Two answers with the same path and revision carry the same value.
THEOREM RevisionIsAName == Spec => []RevisionNamesValue
<1>1. Inv => RevisionNamesValue BY DEF Inv, AnswersComeFromHistory, RevisionNamesValue
<1> QED BY <1>1, Invariance, PTL

\* Each GET answers with at least the revision of the GET of that path before
\* it: the last answer is bounded by the history, whose length is the revision
\* of the row that the next one reads.
THEOREM ReadsMonotonic == Spec => ReadsNeverGoBack
<1> DEFINE Ordered == \A p \in Paths : last'[p] >= last[p]
<1>1. Inv /\ [Next]_vars => [Ordered]_vars
  <2> SUFFICES ASSUME Inv, Next PROVE Ordered
    OBVIOUS
  <2>0. last \in [Paths -> Nat] /\ \A q \in Paths : last[q] <= Len(history[q])
    BY DEF Inv, TypeOK, AnswersComeFromHistory
  <2>1. ASSUME NEW p \in Paths, SecretGet(p) PROVE Ordered
    <3>1. last' = [last EXCEPT ![p] = Len(history[p])]
      BY <2>1, SecretGetAnswer
    <3> QED BY <2>0, <3>1
  <2>2. ASSUME last' = last PROVE Ordered
    BY <2>0, <2>2
  <2> HIDE DEF Ordered
  <2> QED
    BY <2>1, <2>2 DEF Next, Setup, Unlock, Lock, Restart, ChangeMaster, SecretPost, SecretPut,
       WriteSecret, StoreValue, SecretDelete, ghosts
<1> QED BY <1>1, Invariance, PTL DEF Spec, ReadsNeverGoBack

(***************************************************************************)
(* Refinement.                                                             *)
(***************************************************************************)

\* A stored value is a Write of the abstract specification: the guard on the
\* plaintext of the row is the guard on the last value of the history.
LEMMA StoreValueWrites ==
  ASSUME Inv, NEW p \in Paths, NEW v \in Values, ~Locked, StoreValue(p, v)
  PROVE  Promise!Write(p, v)
<1>1. /\ Stored(p).revision = Len(history[p])
      /\ Exists(p) => secrets[p].ciphertext.plain = history[p][Len(history[p])]
  BY DEF Inv, RevisionCountsWrites, SecretsRecoverable
<1>2. /\ Len(history[p]) < MaxRevision
      /\ Exists(p) => v # history[p][Len(history[p])]
      /\ history' = [history EXCEPT ![p] = Append(@, v)]
  BY <1>1 DEF StoreValue, Changed
<1>3. /\ Exists(p)'
      /\ \A q \in Paths \ {p} : Exists(q)' = Exists(q)
  BY DEF StoreValue, Exists, Has, Put, NextRow
<1>4. [q \in Paths |-> Exists(q)]' = [[q \in Paths |-> Exists(q)] EXCEPT ![p] = TRUE]
  BY <1>3, Zenon
<1> QED
  BY <1>2, <1>4 DEF Promise!Write, Promise!Revision, Promise!Current

\* A deletion is a Remove of the abstract store.
LEMMA SecretDeleteRemoves ==
  ASSUME Inv, NEW p \in Paths, SecretDelete(p)
  PROVE  Promise!Remove(p)
<1>1. /\ Exists(p) /\ Exists(p)' = FALSE
      /\ \A q \in Paths \ {p} : Exists(q)' = Exists(q)
      /\ history' = history
  BY DEF SecretDelete, Tombstone, Exists, Has, Put, ghosts
<1>2. [q \in Paths |-> Exists(q)]' = [[q \in Paths |-> Exists(q)] EXCEPT ![p] = FALSE]
  BY <1>1, Zenon
<1> QED
  BY <1>1, <1>2 DEF Promise!Remove

\* The encrypted, tombstoned table with its vault and envelope implements the
\* plain list of versions that VersionedValues promises.
THEOREM Refinement == Spec => ImplementsVersionedValues
<1>1. Init => Promise!Init
  <2>1. Init => \A p \in Paths : Exists(p) = FALSE
    BY DEF Init, Exists, Has, NoRows
  <2> QED BY <2>1 DEF Init, Promise!Init
<1>2. Inv /\ [Next]_vars => [Promise!Next]_(Promise!vars)
  <2> SUFFICES ASSUME Inv, [Next]_vars PROVE Promise!Next \/ UNCHANGED Promise!vars
    OBVIOUS
  <2>1. ASSUME NEW p \in Paths, NEW v \in Values, ~Locked, StoreValue(p, v) PROVE Promise!Next
    BY <2>1, StoreValueWrites DEF Promise!Next
  <2>2. ASSUME NEW p \in Paths, SecretDelete(p) PROVE Promise!Next
    BY <2>2, SecretDeleteRemoves DEF Promise!Next
  <2>3. ASSUME UNCHANGED <<secrets, history>> PROVE UNCHANGED Promise!vars
    BY <2>3 DEF Promise!vars, Exists, Has
  <2> QED
    BY <2>1, <2>2, <2>3 DEF Next, vars, Setup, Unlock, Lock, Restart, ChangeMaster, SecretPost,
       SecretPut, WriteSecret, SecretGet, ghosts
<1> QED BY <1>1, <1>2, Invariance, PTL DEF Spec, ImplementsVersionedValues, Promise!Spec
=============================================================================
