--------------------------- MODULE MCClusterHeap ----------------------------
(* Two record types; the sizes of the second set leave one unit over when  *)
(* the small one is taken from a block of the large one.                   *)
EXTENDS ClusterHeap

EvenTypes == <<[units |-> 2, ptr |-> TRUE], [units |-> 4, ptr |-> TRUE]>>
OddTypes == <<[units |-> 2, ptr |-> TRUE], [units |-> 3, ptr |-> TRUE]>>
=============================================================================
