--------------------------- MODULE MCSocketServer ---------------------------
(* Three clients, three calls of Stop by a thread or by handlers: some may *)
(* arrive in the drain that another one began.                             *)
EXTENDS SocketServer
=============================================================================
