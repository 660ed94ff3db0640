------------------------------ MODULE MCHeapQ ------------------------------
(* HeapQ with up to six timers and three due times.                          *)
EXTENDS HeapQ, TLC

CONSTANTS t1, t2, t3, t4, t5, t6

MCTimers == {t1, t2, t3, t4, t5, t6}
Symmetry == Permutations(MCTimers)
=============================================================================
