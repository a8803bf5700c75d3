---------------------------- MODULE MCDelivery ----------------------------
EXTENDS Delivery

CONSTANTS d1, d2, v1, v2, t1, t2

Quiet == [mode |-> 384, command |-> FALSE]
Hooked == [mode |-> 384, command |-> TRUE]
Open == [mode |-> 416, command |-> TRUE]

OneDef == {d1}
TwoDefs == {d1, d2}
MCValues == {v1, v2}
OneTemplate == {t1}
TwoTemplates == {t1, t2}
OnlyHooked == {Hooked}
QuietOrOpen == {Quiet, Open}
===========================================================================
