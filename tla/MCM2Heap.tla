------------------------------ MODULE MCM2Heap ------------------------------
(* A default chunk holds two blocks of the smallest size.  The memory has  *)
(* room for two default chunks, or for one and a larger chunk of 16 words  *)
(* that holds three blocks.  The requests: nothing, an odd size, one that  *)
(* needs the larger chunk, and the three sizes near the end of the range   *)
(* whose sums wrap: 58 in GrowHeap, 62 when Hdr is added, 63 in rounding.  *)
EXTENDS M2Heap

MCRequest == {0, 3, 8, 58, 62, 63}
=============================================================================
