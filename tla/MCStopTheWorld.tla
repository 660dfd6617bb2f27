--------------------------- MODULE MCStopTheWorld ---------------------------
(* The bootstrap thread and one that registers at any time, also in the    *)
(* middle of a collection; two blocks, so that allocation reaches the slow *)
(* path; two collections, which may follow each other or overlap.          *)
EXTENDS StopTheWorld

CONSTANTS t1, t2

MCThread == {t1, t2}
MCBootstrap == {t1}
=============================================================================
