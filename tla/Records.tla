------------------------------ MODULE Records ------------------------------
(***************************************************************************)
(* The record store as one transaction callback sees it (storage.Tx).      *)
(*                                                                         *)
(* A table, one "kind" of the records table, is a function whose domain is *)
(* the set of ids that have a row.  Get finds a row exactly when its id is *)
(* in that domain, and ErrNotFound is the other case.  The transaction     *)
(* itself, all of the callback's writes or none, is SQLStore.Update; the   *)
(* modules that use these operators take a whole callback as one step.     *)
(***************************************************************************)

\* A table without rows.
NoRows == [id \in {} |-> id]

\* Get returns no error.
Has(table, id) == id \in DOMAIN table

\* INSERT or UPDATE, whichever applies: one row per id.
Put(table, id, row) ==
  [i \in DOMAIN table \cup {id} |-> IF i = id THEN row ELSE table[i]]

\* DELETE; deleting a missing row is not an error.
Delete(table, id) == [i \in DOMAIN table \ {id} |-> table[i]]

\* DELETE of every listed row that satisfies a condition (a List and a loop).
DeleteAll(table, ids) == [i \in DOMAIN table \ ids |-> table[i]]
=============================================================================
