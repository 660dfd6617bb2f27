---------------------------- MODULE MCHeapGuard -----------------------------
(* Two threads.  Three addresses share slot 1, which saturates at Max = 2; *)
(* a fourth is freed once too often and shares slot 3 with one of them.    *)
EXTENDS HeapGuard, TLC

CONSTANTS p1, p2, p3, p4, t1, t2

MCPtr == {p1, p2, p3, p4}
MCThread == {t1, t2}
MCSlot == 1..4
MCHash == (p1 :> {1, 2}) @@ (p2 :> {1}) @@ (p3 :> {1, 3}) @@ (p4 :> {3})
MCFaulty == {p4}
=============================================================================
