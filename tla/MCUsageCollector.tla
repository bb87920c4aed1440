--------------------------- MODULE MCUsageCollector ---------------------------
(* TLC instance of UsageCollector. *)
EXTENDS UsageCollector

CONSTANTS p1, p2, i1, i2, q1, t1

OneTarget == [c \in Client |-> t1]
=============================================================================
