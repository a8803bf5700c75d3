------------------------------ MODULE MCStore ------------------------------
\* Two processes: one with two updating goroutines and an export, one with an
\* updating goroutine.
EXTENDS Store

CONSTANTS p1, p2, u1, u2, u3, e1, k1

MCProcesses == {p1, p2}
MCUpdaters == {u1, u2, u3}
MCExporters == {e1}
MCHome == [t \in MCUpdaters \cup MCExporters |-> IF t = u3 THEN p2 ELSE p1]
MCKeys == {k1}
=============================================================================
