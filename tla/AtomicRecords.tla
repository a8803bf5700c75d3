--------------------------- MODULE AtomicRecords ---------------------------
(***************************************************************************)
(* What SQLStore.Update promises its callbacks: a transaction happens at   *)
(* one moment, as if nobody else were using the database.  A callback that *)
(* reads a revision and stores its successor therefore counts, and the     *)
(* audit log only grows.                                                   *)
(***************************************************************************)
EXTENDS Naturals, FiniteSets

CONSTANTS Keys, MaxId

VARIABLES
  revision,   \* record -> revision
  audit,      \* audit ids
  advances    \* record -> number of transactions that stored its next revision

vars == <<revision, audit, advances>>

Ids == 1..MaxId

Init ==
  /\ revision = [k \in Keys |-> 0]
  /\ audit = {}
  /\ advances = [k \in Keys |-> 0]

\* One callback: it advances the records in ks and adds the audit rows new.
Transaction(ks, new) ==
  /\ revision' = [k \in Keys |-> IF k \in ks THEN revision[k] + 1 ELSE revision[k]]
  /\ advances' = [k \in Keys |-> IF k \in ks THEN advances[k] + 1 ELSE advances[k]]
  /\ audit \cap new = {}
  /\ audit' = audit \cup new

Next == \E ks \in SUBSET Keys, new \in SUBSET Ids : Transaction(ks, new)

Spec == Init /\ [][Next]_vars
=============================================================================
