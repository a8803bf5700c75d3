-------------------------- MODULE VersionedValues --------------------------
(***************************************************************************)
(* What the secret store promises its clients, without keys, ciphertext or *)
(* tombstones.  Every path has the list of the values it ever held; the    *)
(* revision a client sees is the length of that list, so one revision      *)
(* names one value for good.  Deleting hides the value and keeps the list. *)
(***************************************************************************)
EXTENDS Naturals, Sequences

CONSTANTS Paths, Values, MaxRevision

VARIABLES history, live

vars == <<history, live>>

Revision(p) == Len(history[p])

Current(p) == history[p][Len(history[p])]

TypeOK ==
  /\ history \in [Paths -> Seq(Values)]
  /\ live \in [Paths -> BOOLEAN]

Init ==
  /\ history = [p \in Paths |-> <<>>]
  /\ live = [p \in Paths |-> FALSE]

\* A write adds a version unless it repeats the visible value.
Write(p, v) ==
  /\ Revision(p) < MaxRevision
  /\ live[p] => v # Current(p)
  /\ history' = [history EXCEPT ![p] = Append(@, v)]
  /\ live' = [live EXCEPT ![p] = TRUE]

Remove(p) ==
  /\ live[p]
  /\ live' = [live EXCEPT ![p] = FALSE]
  /\ UNCHANGED history

Next == \E p \in Paths : (\E v \in Values : Write(p, v)) \/ Remove(p)

Spec == Init /\ [][Next]_vars
=============================================================================
