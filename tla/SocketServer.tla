---------------------------- MODULE SocketServer ----------------------------
(***************************************************************************)
(* The asynchronous TCP server, src/library/winrtmod/SocketServer.mod: a   *)
(* dispatcher fiber and one fiber per connection on one thread, driven by  *)
(* a completion port, an acceptor thread that feeds the port, and Stop     *)
(* called from another thread or from a handler.                           *)
(*                                                                         *)
(* Fibers switch only at an overlapped operation, so what the dispatcher   *)
(* does between two of its waits, the handler it resumes included, is one  *)
(* step.  A handler is any sequence of Recv, Send and Stop that returns    *)
(* when an operation fails (the examples of SocketServer.def do).  Bytes   *)
(* are left out: RecvAll and Send are repeated operations.                 *)
(***************************************************************************)
EXTENDS Integers, Sequences, FiniteSets

CONSTANTS Client,    \* connections that may arrive
          MaxStops   \* bound: calls of Stop

ASSUME StopAssumption == MaxStops \in Nat

VARIABLES listener,  \* the listening socket is open
          gListener, \* the variable still holds its handle
          gRunning,
          iocp,      \* the completion port is open
          port,      \* its packets, first in first out
          sock,      \* [Client -> "none", "backlog", "open" or "closed"]
          live,      \* the connections of the list gHead, gLive many
          op,        \* connections with an overlapped operation in the kernel
          disp,      \* where the dispatcher is
          acc, cli,  \* where the acceptor is, and the socket it accepted
          stopper,   \* where a thread in Stop is
          stops      \* calls of Stop so far

vars == <<listener, gListener, gRunning, iocp, port, sock, live, op, disp, acc, cli,
          stopper, stops>>

KEY_STOP == [key |-> "stop"]
KEY_ACCEPT(c) == [key |-> "accept", conn |-> c]
Completion(c, ok) == [key |-> "conn", conn |-> c, ok |-> ok]

\* Run has set everything up and started the acceptor.
Init ==
    /\ listener = TRUE /\ gListener = TRUE /\ gRunning = TRUE /\ iocp = TRUE
    /\ port = << >>
    /\ sock = [c \in Client |-> "none"]
    /\ live = {} /\ op = {}
    /\ disp = "loop"
    /\ acc = "test" /\ cli = {}
    /\ stopper = "idle" /\ stops = 0

-----------------------------------------------------------------------------
(* External: clients, and the kernel that completes operations.            *)

Connect(c) ==
    /\ listener
    /\ sock[c] = "none"
    /\ sock' = [sock EXCEPT ![c] = "backlog"]
    /\ UNCHANGED <<listener, gListener, gRunning, iocp, port, live, op, disp, acc, cli, stopper, stops>>

\* Data arrives or the connection breaks; an operation on a socket that is
\* closed under it completes with an error.
Complete(c) ==
    /\ c \in op /\ iocp
    /\ \E ok \in BOOLEAN :
         /\ ok => sock[c] = "open"
         /\ port' = Append(port, Completion(c, ok))
    /\ op' = op \ {c}
    /\ UNCHANGED <<listener, gListener, gRunning, iocp, sock, live, disp, acc, cli, stopper, stops>>

\* Socket.Close(gListener): what waits in the backlog is refused.
CloseListener(s) == [c \in Client |-> IF s[c] = "backlog" THEN "closed" ELSE s[c]]

-----------------------------------------------------------------------------
(* The acceptor thread.                                                    *)

AcceptorTest ==
    /\ acc = "test"
    /\ acc' = IF gRunning THEN "accept" ELSE "ended"
    /\ UNCHANGED <<listener, gListener, gRunning, iocp, port, sock, live, op, disp, cli, stopper, stops>>

Accept(c) ==
    /\ acc = "accept"
    /\ listener
    /\ sock[c] = "backlog"
    /\ sock' = [sock EXCEPT ![c] = "open"]
    /\ cli' = {c}
    /\ acc' = "post"
    /\ UNCHANGED <<listener, gListener, gRunning, iocp, port, live, op, disp, stopper, stops>>

\* The listener is closed, or accept fails for another reason.
AcceptFails ==
    /\ acc = "accept"
    /\ gRunning' = FALSE
    /\ acc' = "test"
    /\ UNCHANGED <<listener, gListener, iocp, port, sock, live, op, disp, cli, stopper, stops>>

PostAccept ==
    /\ acc = "post"
    /\ port' = IF iocp THEN Append(port, KEY_ACCEPT(CHOOSE c \in cli : TRUE)) ELSE port
    /\ cli' = {}
    /\ acc' = "test"
    /\ UNCHANGED <<listener, gListener, gRunning, iocp, sock, live, op, disp, stopper, stops>>

-----------------------------------------------------------------------------
(* Stop, called by another thread.                                         *)

StopClears ==
    /\ stopper = "idle"
    /\ stops < MaxStops
    /\ gRunning' = FALSE
    /\ stopper' = "read"
    /\ stops' = stops + 1
    /\ UNCHANGED <<listener, gListener, iocp, port, sock, live, op, disp, acc, cli>>

\* Socket.Close(gListener) by that thread, in the three steps of its body:
\* Bad(s), closesocket(s) and s := INVALID_SOCK.  A handler's Stop may run
\* between them and close the same handle.
StopReads ==
    /\ stopper = "read"
    /\ stopper' = IF gListener THEN "close" ELSE "post"
    /\ UNCHANGED <<listener, gListener, gRunning, iocp, port, sock, live, op, disp, acc, cli, stops>>

\* Mutant: closing the listener is left to Run.
StopCloses_LeftToRun ==
    /\ stopper = "close"
    /\ stopper' = "clear"
    /\ UNCHANGED <<listener, gListener, gRunning, iocp, port, sock, live, op, disp, acc, cli, stops>>

StopCloses ==
    /\ stopper = "close"
    /\ listener' = FALSE
    /\ sock' = CloseListener(sock)
    /\ stopper' = "clear"
    /\ UNCHANGED <<gListener, gRunning, iocp, port, live, op, disp, acc, cli, stops>>

StopForgets ==
    /\ stopper = "clear"
    /\ gListener' = FALSE
    /\ stopper' = "post"
    /\ UNCHANGED <<listener, gRunning, iocp, port, sock, live, op, disp, acc, cli, stops>>

StopPosts ==
    /\ stopper = "post"
    /\ port' = IF iocp THEN Append(port, KEY_STOP) ELSE port
    /\ stopper' = "idle"
    /\ UNCHANGED <<listener, gListener, gRunning, iocp, sock, live, op, disp, acc, cli, stops>>

-----------------------------------------------------------------------------
(* The dispatcher and the fibers it resumes.                               *)

\* The handler of c runs until it waits or returns; rest is the port after
\* the packet that resumed it.  It may call Stop on the way: if gListener is
\* cleared the listener is closed, and closing it twice changes nothing.  An
\* operation on a closed socket fails at once, and so the handler returns.
HandlerCallsStop(rest, s) ==
    \/ /\ port' = rest /\ sock' = s
       /\ UNCHANGED <<listener, gListener, gRunning, stops>>
    \/ /\ stops < MaxStops
       /\ port' = Append(rest, KEY_STOP)
       /\ sock' = CloseListener(s)
       /\ listener' = FALSE /\ gListener' = FALSE /\ gRunning' = FALSE
       /\ stops' = stops + 1

HandlerWaits(c, ok, rest) ==
    /\ ok
    /\ sock[c] = "open"
    /\ HandlerCallsStop(rest, sock)
    /\ op' = op \cup {c}
    /\ live' = live \cup {c}

\* Mutant: the connection is cleaned up when its operation fails, though the
\* handler waits for another one.
HandlerReturns_EarlyCleanup(c, rest) ==
    /\ HandlerCallsStop(rest, [sock EXCEPT ![c] = "closed"])
    /\ live' = live \ {c}
    /\ op' = op \cup {c}

\* FiberEntry closes the socket and the dispatcher cleans up.
HandlerReturns(c, rest) ==
    /\ HandlerCallsStop(rest, [sock EXCEPT ![c] = "closed"])
    /\ live' = live \ {c}
    /\ UNCHANGED op

Dequeued(key) == iocp /\ port # << >> /\ Head(port).key = key

\* NewConn, the association with the port, the fiber and its first run; when
\* one of the first three fails the socket is closed and forgotten.
DispatchAccept ==
    /\ disp = "loop"
    /\ Dequeued("accept")
    /\ LET c == Head(port).conn IN
         \/ HandlerWaits(c, TRUE, Tail(port))
         \/ HandlerReturns(c, Tail(port))
         \/ /\ port' = Tail(port)
            /\ sock' = [sock EXCEPT ![c] = "closed"]
            /\ UNCHANGED <<listener, gListener, gRunning, live, op, stops>>
    /\ UNCHANGED <<iocp, disp, acc, cli, stopper>>

\* Resume, from the loop and from the drain.
DispatchCompletion ==
    /\ disp = "loop" \/ (disp = "drain" /\ live # {})
    /\ Dequeued("conn")
    /\ LET c == Head(port).conn IN
         \/ HandlerWaits(c, Head(port).ok, Tail(port))
         \/ HandlerReturns(c, Tail(port))
    /\ UNCHANGED <<iocp, disp, acc, cli, stopper>>

\* Mutant: the drain waits for the handlers without closing their sockets.
DispatchStop_NoClose ==
    /\ disp = "loop"
    /\ Dequeued("stop")
    /\ port' = Tail(port)
    /\ disp' = "drain"
    /\ UNCHANGED <<listener, gListener, gRunning, iocp, sock, live, op, acc, cli, stopper, stops>>

\* The drain begins: every live socket is closed.
DispatchStop ==
    /\ disp = "loop"
    /\ Dequeued("stop")
    /\ port' = Tail(port)
    /\ sock' = [c \in Client |-> IF c \in live THEN "closed" ELSE sock[c]]
    /\ disp' = "drain"
    /\ UNCHANGED <<listener, gListener, gRunning, iocp, live, op, acc, cli, stopper, stops>>

DrainAccept ==
    /\ disp = "drain" /\ live # {}
    /\ Dequeued("accept")
    /\ port' = Tail(port)
    /\ sock' = [sock EXCEPT ![Head(port).conn] = "closed"]
    /\ UNCHANGED <<listener, gListener, gRunning, iocp, live, op, disp, acc, cli, stopper, stops>>

DrainStop ==
    /\ disp = "drain" /\ live # {}
    /\ Dequeued("stop")
    /\ port' = Tail(port)
    /\ UNCHANGED <<listener, gListener, gRunning, iocp, sock, live, op, disp, acc, cli, stopper, stops>>

\* Mutant: Run does not wait for the connections that are still live.
Drained_AtOnce ==
    /\ disp = "drain"
    /\ disp' = "join"
    /\ listener' = (listener /\ ~ gListener)
    /\ sock' = IF gListener THEN CloseListener(sock) ELSE sock
    /\ gListener' = FALSE
    /\ UNCHANGED <<gRunning, iocp, port, live, op, acc, cli, stopper, stops>>

\* gLive = 0: EXIT, and Socket.Close(gListener).  Whoever posted KEY_STOP had
\* cleared gListener before, so Close finds nothing to do and needs no steps
\* of its own (Stopping, in the proofs).
Drained ==
    /\ disp = "drain"
    /\ live = {}
    /\ disp' = "join"
    /\ listener' = (listener /\ ~ gListener)
    /\ sock' = IF gListener THEN CloseListener(sock) ELSE sock
    /\ gListener' = FALSE
    /\ UNCHANGED <<gRunning, iocp, port, live, op, acc, cli, stopper, stops>>

\* Join returns because the acceptor ended or because two seconds passed;
\* closing the port discards the packets in it.
Return ==
    /\ disp = "join"
    /\ disp' = "returned"
    /\ iocp' = FALSE
    /\ port' = << >>
    /\ UNCHANGED <<listener, gListener, gRunning, sock, live, op, acc, cli, stopper, stops>>

Dispatcher ==
    \/ DispatchAccept \/ DispatchCompletion \/ DispatchStop
    \/ DrainAccept \/ DrainStop \/ Drained \/ Return

Acceptor ==
    \/ AcceptorTest \/ AcceptFails \/ PostAccept
    \/ \E c \in Client : Accept(c)

Stopper == StopClears \/ StopReads \/ StopCloses \/ StopForgets \/ StopPosts

Next ==
    \/ \E c \in Client : Connect(c) \/ Complete(c)
    \/ Acceptor
    \/ Stopper
    \/ Dispatcher

Spec == Init /\ [][Next]_vars

\* The system runs every thread that is not blocked and completes every
\* operation on a closed socket.  Nobody has to connect or to send anything,
\* and nobody has to call Stop.
FairSpec ==
    /\ Spec
    /\ WF_vars(Dispatcher)
    /\ WF_vars(AcceptorTest) /\ WF_vars(PostAccept) /\ WF_vars(~ listener /\ AcceptFails)
    /\ WF_vars(StopReads \/ StopCloses \/ StopForgets \/ StopPosts)
    /\ \A c \in Client : WF_vars(sock[c] = "closed" /\ Complete(c))

-----------------------------------------------------------------------------
(* Properties.                                                             *)

Packet ==
    {KEY_STOP} \cup {KEY_ACCEPT(c) : c \in Client}
    \cup {Completion(c, ok) : c \in Client, ok \in BOOLEAN}

TypeOK ==
    /\ {listener, gListener, gRunning, iocp} \subseteq BOOLEAN
    /\ port \in Seq(Packet)
    /\ sock \in [Client -> {"none", "backlog", "open", "closed"}]
    /\ live \subseteq Client /\ op \subseteq Client
    /\ disp \in {"loop", "drain", "join", "returned"}
    /\ acc \in {"test", "accept", "post", "ended"}
    /\ cli \subseteq Client
    /\ stopper \in {"idle", "read", "close", "clear", "post"}
    /\ stops \in 0..MaxStops

Completions(c) == {i \in DOMAIN port : port[i].key = "conn" /\ port[i].conn = c}

\* A connection is live exactly as long as one operation of it is under way
\* or its completion is in the port: the dispatcher never resumes a fiber
\* whose record was freed, never twice for one wait, and no fiber is left
\* that nothing will resume.  The port holds packets of live keys only (TypeOK).
OneWaitPerFiber ==
    /\ TypeOK
    /\ \A c \in Client :
        (IF c \in op THEN 1 ELSE 0) + Cardinality(Completions(c))
            = IF c \in live THEN 1 ELSE 0

\* A socket of a live connection is closed under its fiber only in the drain,
\* and by then the listener is closed: no socket accepted later can have got
\* the handle that FiberEntry closes a second time.
NoHandleReuse ==
    (\E c \in live : sock[c] = "closed") => disp = "drain" /\ ~ listener

\* When Run returns nothing of the server is under way: no live connection,
\* no operation that would write into freed memory, and every socket that a
\* handler was given is closed; only a socket that never reached the
\* dispatcher may be open.
QuietReturn ==
    [][disp' = "returned" /\ disp # "returned" =>
         /\ live = {} /\ op = {}
         /\ \A c \in Client : sock[c] = "open" =>
              c \in cli \/ \E i \in DOMAIN port : port[i] = KEY_ACCEPT(c)]_vars

\* After a call of Stop, from any thread or from a handler, Run returns,
\* though clients stay connected and silent, and the acceptor ends.
StopEndsRun ==
    stops > 0 ~> disp = "returned" /\ acc = "ended"

=============================================================================
