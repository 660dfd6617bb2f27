------------------------ MODULE SocketServer_proofs -------------------------
(***************************************************************************)
(* The server for any number of connections and any number of calls of     *)
(* Stop: no fiber is resumed after it ended or twice for one wait, no      *)
(* handle is closed while another connection may have it, and nothing is   *)
(* left when Run returns.                                                  *)
(***************************************************************************)
EXTENDS SocketServer, FiniteSetTheorems, TLAPS

Accepts(c) == {i \in DOMAIN port : port[i].key = "accept" /\ port[i].conn = c}

(* A live connection waits for one operation, in the kernel or completed.  *)
WaitsOnce(c) ==
    /\ c \in op => c \in live /\ Completions(c) = {}
    /\ Completions(c) # {} => c \in live
    /\ c \in live => c \in op \/ Completions(c) # {}
    /\ \A i, j \in Completions(c) : i = j

(* An open socket is in the hands of the acceptor, in the port, or of a live
   connection, until the port is closed.                                   *)
HasHolder(c) ==
    /\ c \in live => sock[c] = "open" \/ (sock[c] = "closed" /\ disp = "drain")
    /\ c \in cli => sock[c] = "open" /\ c \notin live /\ Accepts(c) = {}
    /\ Accepts(c) # {} => sock[c] = "open" /\ c \notin live
    /\ \A i, j \in Accepts(c) : i = j
    /\ sock[c] = "open" /\ disp # "returned" => c \in live \cup cli \/ Accepts(c) # {}

(* The listener is closed before its handle is forgotten, and that before
   anybody can see that the server stops.                                  *)
Stopping ==
    /\ stopper = "clear" \/ ~ gListener => ~ listener
    /\ stopper = "post" => ~ gListener
    /\ disp # "loop" => ~ gListener
    /\ \A i \in DOMAIN port : port[i].key = "stop" => ~ gListener
    /\ disp \in {"join", "returned"} => live = {}
    /\ disp # "returned" => iocp
    /\ acc = "post" <=> cli # {}
    /\ \A c, d \in cli : c = d

Waits == \A c \in Client : WaitsOnce(c)
Sockets == \A c \in Client : HasHolder(c)
IInv == TypeOK /\ Waits /\ Sockets /\ Stopping

-----------------------------------------------------------------------------
(* The packets of the port.                                                *)

LEMMA PacketCases ==
    ASSUME NEW p \in Packet
    PROVE  \/ p.key = "stop"
           \/ p.key = "accept" /\ p.conn \in Client /\ p = KEY_ACCEPT(p.conn)
           \/ p.key = "conn" /\ p.conn \in Client /\ p.ok \in BOOLEAN
BY DEF Packet, KEY_STOP, KEY_ACCEPT, Completion

LEMMA PacketType ==
    /\ KEY_STOP \in Packet /\ KEY_STOP.key = "stop"
    /\ \A c \in Client : KEY_ACCEPT(c) \in Packet /\ KEY_ACCEPT(c).key = "accept"
                         /\ KEY_ACCEPT(c).conn = c
    /\ \A c \in Client, ok \in BOOLEAN :
           Completion(c, ok) \in Packet /\ Completion(c, ok).key = "conn"
           /\ Completion(c, ok).conn = c
<1>1. KEY_STOP \in Packet /\ KEY_STOP.key = "stop"
  BY DEF Packet, KEY_STOP
<1>2. ASSUME NEW c \in Client
      PROVE  KEY_ACCEPT(c) \in Packet /\ KEY_ACCEPT(c).key = "accept" /\ KEY_ACCEPT(c).conn = c
  BY DEF Packet, KEY_ACCEPT
<1>3. ASSUME NEW c \in Client, NEW ok \in BOOLEAN
      PROVE  Completion(c, ok) \in Packet /\ Completion(c, ok).key = "conn"
             /\ Completion(c, ok).conn = c
  BY DEF Packet, Completion
<1> QED BY <1>1, <1>2, <1>3

(* What a packet at the end of the port adds.                              *)
LEMMA Appended ==
    ASSUME port \in Seq(Packet), NEW p \in Packet, port' = Append(port, p), NEW c
    PROVE  /\ Completions(c)' = Completions(c) \cup
                  (IF p.key = "conn" /\ p.conn = c THEN {Len(port) + 1} ELSE {})
           /\ Accepts(c)' = Accepts(c) \cup
                  (IF p.key = "accept" /\ p.conn = c THEN {Len(port) + 1} ELSE {})
<1>1. /\ DOMAIN port' = 1..(Len(port) + 1) /\ DOMAIN port = 1..Len(port) /\ Len(port) \in Nat
      /\ \A i \in 1..Len(port) : port'[i] = port[i]
      /\ port'[Len(port) + 1] = p
  OBVIOUS
<1> QED BY <1>1 DEF Completions, Accepts

(* Moving a set of at most one index down by one.                         *)
LEMMA Shift ==
    ASSUME NEW n \in Nat, NEW S, S \subseteq 1..n, \A i, j \in S : i = j,
           NEW T, \A i : i \in T <=> i \in 1..(n - 1) /\ i + 1 \in S
    PROVE  /\ \A i, j \in T : i = j
           /\ 1 \in S => S # {} /\ T = {}
           /\ 1 \notin S => (T = {} <=> S = {})
<1>1. \A i \in T : i \in 1..(n - 1) /\ i + 1 \in S
  OBVIOUS
<1>2. \A i, j \in T : i = j
  BY <1>1
<1>3. 1 \in S => T = {}
  BY <1>1
<1>4. ASSUME NEW i \in S, 1 \notin S PROVE i - 1 \in T
  <2>1. i \in 1..n /\ i # 1
    BY <1>4
  <2>2. i - 1 \in 1..(n - 1) /\ (i - 1) + 1 = i
    BY <2>1
  <2> QED BY <2>2
<1> QED BY <1>1, <1>2, <1>3, <1>4

(* What is left in the port when the packet at its head was taken, and the
   handler it resumed perhaps called Stop.                                 *)
LEMMA Taken ==
    ASSUME port \in Seq(Packet), port # << >>,
           port' = Tail(port) \/ port' = Append(Tail(port), KEY_STOP), NEW c
    PROVE  /\ (\A i, j \in Completions(c) : i = j) =>
                /\ \A i, j \in Completions(c)' : i = j
                /\ Head(port).key = "conn" /\ Head(port).conn = c =>
                       Completions(c) # {} /\ Completions(c)' = {}
                /\ ~ (Head(port).key = "conn" /\ Head(port).conn = c) =>
                       (Completions(c)' = {} <=> Completions(c) = {})
           /\ (\A i, j \in Accepts(c) : i = j) =>
                /\ \A i, j \in Accepts(c)' : i = j
                /\ Head(port).key = "accept" /\ Head(port).conn = c =>
                       Accepts(c) # {} /\ Accepts(c)' = {}
                /\ ~ (Head(port).key = "accept" /\ Head(port).conn = c) =>
                       (Accepts(c)' = {} <=> Accepts(c) = {})
           /\ port' = Tail(port) =>
                \A i \in DOMAIN port' : i + 1 \in DOMAIN port /\ port'[i] = port[i + 1]
<1> DEFINE n == Len(port)
           C == Completions(c)
           A == Accepts(c)
<1>1. /\ n \in Nat /\ n > 0 /\ DOMAIN port = 1..n /\ port[1] = Head(port)
      /\ DOMAIN Tail(port) = 1..(n - 1) /\ \A i \in 1..(n - 1) : Tail(port)[i] = port[i + 1]
      /\ Tail(port) \in Seq(Packet) /\ Len(Tail(port)) = n - 1
  OBVIOUS
<1>2. /\ 1..(n - 1) \subseteq DOMAIN port' /\ \A i \in 1..(n - 1) : port'[i] = port[i + 1]
      /\ \A i \in DOMAIN port' : i \in 1..(n - 1) \/ port'[i].key = "stop"
  <2>1. ASSUME port' = Append(Tail(port), KEY_STOP)
        PROVE  /\ DOMAIN port' = 1..n /\ port'[n].key = "stop"
               /\ \A i \in 1..(n - 1) : port'[i] = port[i + 1]
    <3>1. DOMAIN port' = 1..n /\ port'[n] = KEY_STOP
      BY <1>1, <2>1
    <3>2. \A i \in 1..(n - 1) : port'[i] = port[i + 1]
      BY <1>1, <2>1
    <3> QED BY <3>1, <3>2, PacketType
  <2>2. n \in Nat /\ n > 0
    BY <1>1
  <2>3. ASSUME port' = Tail(port)
        PROVE  DOMAIN port' = 1..(n - 1) /\ \A i \in 1..(n - 1) : port'[i] = port[i + 1]
    BY <1>1, <2>3
  <2> HIDE DEF n
  <2>4. 1..(n - 1) \subseteq 1..n /\ \A i \in 1..n : i \in 1..(n - 1) \/ i = n
    BY <2>2
  <2> QED BY <2>1, <2>3, <2>4
<1>3. \A i \in 1..(n - 1) : i + 1 \in DOMAIN port
  BY <1>1
<1>4. C' = {i \in 1..(n - 1) : i + 1 \in C} /\ A' = {i \in 1..(n - 1) : i + 1 \in A}
  BY <1>2, <1>3 DEF Completions, Accepts
<1>5. C \subseteq 1..n /\ A \subseteq 1..n
  BY <1>1 DEF Completions, Accepts
<1>6. /\ 1 \in C <=> Head(port).key = "conn" /\ Head(port).conn = c
      /\ 1 \in A <=> Head(port).key = "accept" /\ Head(port).conn = c
  BY <1>1 DEF Completions, Accepts
<1>7. port' = Tail(port) =>
        \A i \in DOMAIN port' : i + 1 \in DOMAIN port /\ port'[i] = port[i + 1]
  BY <1>1
<1>8. ASSUME \A i, j \in C : i = j
      PROVE
          /\ \A i, j \in C' : i = j
          /\ 1 \in C => C # {} /\ C' = {}
          /\ 1 \notin C => (C' = {} <=> C = {})
  <2>1. n \in Nat
    BY <1>1
  <2>2. \A i : i \in C' <=> i \in 1..(n - 1) /\ i + 1 \in C
    BY <1>4
  <2> HIDE DEF n, C
  <2> QED BY <1>5, <1>8, <2>1, <2>2, Shift, Zenon
<1>9. ASSUME \A i, j \in A : i = j
      PROVE
          /\ \A i, j \in A' : i = j
          /\ 1 \in A => A # {} /\ A' = {}
          /\ 1 \notin A => (A' = {} <=> A = {})
  <2>1. n \in Nat
    BY <1>1
  <2>2. \A i : i \in A' <=> i \in 1..(n - 1) /\ i + 1 \in A
    BY <1>4
  <2> HIDE DEF n, A
  <2> QED BY <1>5, <1>9, <2>1, <2>2, Shift, Zenon
<1> QED BY <1>6, <1>7, <1>8, <1>9

-----------------------------------------------------------------------------
(* Types.                                                                  *)

(* The flags of the server stay flags.                                     *)
LEMMA FlagsStep ==
    ASSUME TypeOK, [Next]_vars
    PROVE  {listener, gListener, gRunning, iocp}' \subseteq BOOLEAN
<1>1. /\ listener \in BOOLEAN /\ gListener \in BOOLEAN
      /\ gRunning \in BOOLEAN /\ iocp \in BOOLEAN
  BY DEF TypeOK
<1>2. /\ listener' = listener \/ listener' = FALSE \/ listener' = (listener /\ ~ gListener)
      /\ gListener' = gListener \/ gListener' = FALSE
  BY DEF Next, vars, Connect, Complete, Acceptor, AcceptorTest, Accept, AcceptFails, PostAccept,
         Stopper, StopClears, StopReads, StopCloses, StopForgets, StopPosts, Dispatcher, DispatchAccept,
         DispatchCompletion, DispatchStop, DrainAccept, DrainStop, Drained, Return,
         HandlerWaits, HandlerReturns, HandlerCallsStop
<1>3. gRunning' = gRunning \/ gRunning' = FALSE
  BY DEF Next, vars, Connect, Complete, Acceptor, AcceptorTest, Accept, AcceptFails, PostAccept,
         Stopper, StopClears, StopReads, StopCloses, StopForgets, StopPosts, Dispatcher, DispatchAccept,
         DispatchCompletion, DispatchStop, DrainAccept, DrainStop, Drained, Return,
         HandlerWaits, HandlerReturns, HandlerCallsStop
<1>4. iocp' = iocp \/ iocp' = FALSE
  BY DEF Next, vars, Connect, Complete, Acceptor, AcceptorTest, Accept, AcceptFails, PostAccept,
         Stopper, StopClears, StopReads, StopCloses, StopForgets, StopPosts, Dispatcher, DispatchAccept,
         DispatchCompletion, DispatchStop, DrainAccept, DrainStop, Drained, Return
<1>5. /\ listener' \in BOOLEAN /\ gListener' \in BOOLEAN
      /\ gRunning' \in BOOLEAN /\ iocp' \in BOOLEAN
  BY <1>1, <1>2, <1>3, <1>4
<1> QED BY <1>5

(* A step of the dispatcher that takes the head of the port.               *)
LEMMA HeadType ==
    ASSUME TypeOK, port # << >>
    PROVE  /\ Head(port) \in Packet /\ Tail(port) \in Seq(Packet)
           /\ Append(Tail(port), KEY_STOP) \in Seq(Packet)
BY PacketType DEF TypeOK

LEMMA HandlerType ==
    ASSUME TypeOK, port # << >>, NEW s \in [Client -> {"none", "backlog", "open", "closed"}],
           HandlerCallsStop(Tail(port), s)
    PROVE  /\ port' \in Seq(Packet)
           /\ sock' \in [Client -> {"none", "backlog", "open", "closed"}]
           /\ stops' \in 0..MaxStops
           /\ port' = Tail(port) \/ port' = Append(Tail(port), KEY_STOP)
           /\ \A c \in Client : sock'[c] = s[c] \/ (s[c] = "backlog" /\ sock'[c] = "closed")
<1>1. CASE port' = Tail(port) /\ sock' = s /\ UNCHANGED <<listener, gListener, gRunning, stops>>
  BY <1>1, HeadType DEF TypeOK
<1>2. CASE /\ stops < MaxStops
           /\ port' = Append(Tail(port), KEY_STOP)
           /\ sock' = CloseListener(s)
           /\ listener' = FALSE /\ gListener' = FALSE /\ gRunning' = FALSE
           /\ stops' = stops + 1
  BY <1>2, HeadType, StopAssumption DEF StopAssumption, TypeOK, CloseListener
<1> QED BY <1>1, <1>2 DEF HandlerCallsStop

LEMMA TypeStep ==
    ASSUME TypeOK, Stopping, [Next]_vars
    PROVE  TypeOK'
<1>1. {listener, gListener, gRunning, iocp}' \subseteq BOOLEAN
  BY FlagsStep
<1> DEFINE Rest ==
      /\ port \in Seq(Packet)
      /\ sock \in [Client -> {"none", "backlog", "open", "closed"}]
      /\ live \subseteq Client /\ op \subseteq Client
      /\ disp \in {"loop", "drain", "join", "returned"}
      /\ acc \in {"test", "accept", "post", "ended"}
      /\ cli \subseteq Client
      /\ stopper \in {"idle", "read", "close", "clear", "post"}
      /\ stops \in 0..MaxStops
<1>0. Rest
  BY DEF TypeOK
<1>2. ASSUME NEW c \in Client, Connect(c) PROVE Rest' BY <1>0, <1>2 DEF Connect
<1>3. ASSUME NEW c \in Client, Complete(c) PROVE Rest'
  <2>1. port' \in Seq(Packet)
    BY <1>0, <1>3, PacketType DEF Complete
  <2> QED BY <1>0, <1>3, <2>1 DEF Complete
<1>4. ASSUME Acceptor PROVE Rest'
  <2>1. CASE AcceptorTest BY <1>0, <2>1 DEF AcceptorTest
  <2>2. CASE AcceptFails BY <1>0, <2>2 DEF AcceptFails
  <2>3. CASE PostAccept
    <3>1. (CHOOSE c \in cli : TRUE) \in Client
      BY <1>0, <2>3 DEF PostAccept, Stopping
    <3>2. port' \in Seq(Packet)
      BY <1>0, <2>3, <3>1, PacketType DEF PostAccept
    <3> QED BY <1>0, <2>3, <3>2 DEF PostAccept
  <2>4. CASE \E c \in Client : Accept(c) BY <1>0, <2>4 DEF Accept
  <2> QED BY <1>4, <2>1, <2>2, <2>3, <2>4 DEF Acceptor
<1>5. ASSUME Stopper PROVE Rest'
  <2>1. CASE StopClears BY <1>0, <2>1, StopAssumption DEF StopClears, StopAssumption
  <2>2. CASE StopCloses BY <1>0, <2>2 DEF StopCloses, CloseListener
  <2>3. CASE StopPosts
    <3>1. port' \in Seq(Packet)
      BY <1>0, <2>3, PacketType DEF StopPosts
    <3> QED BY <1>0, <2>3, <3>1 DEF StopPosts
  <2>4. CASE StopReads BY <1>0, <2>4 DEF StopReads
  <2>5. CASE StopForgets BY <1>0, <2>5 DEF StopForgets
  <2> QED BY <1>5, <2>1, <2>2, <2>3, <2>4, <2>5 DEF Stopper
<1>6. ASSUME Dispatcher PROVE Rest'
  <2>0. ASSUME Dequeued("accept") \/ Dequeued("conn")
        PROVE  port # << >> /\ Head(port).conn \in Client
    <3>1. port # << >> /\ (Head(port).key = "accept" \/ Head(port).key = "conn")
      BY <2>0 DEF Dequeued
    <3> QED BY <3>1, HeadType, PacketCases
  <2>1. CASE DispatchAccept
    <3> DEFINE c == Head(port).conn
    <3>1. c \in Client /\ port # << >>
      BY <2>0, <2>1 DEF DispatchAccept
    <3>2. CASE HandlerWaits(c, TRUE, Tail(port))
      BY <1>0, <2>1, <3>1, <3>2, HandlerType DEF DispatchAccept, HandlerWaits
    <3>3. CASE HandlerReturns(c, Tail(port))
      BY <1>0, <2>1, <3>1, <3>3, HandlerType DEF DispatchAccept, HandlerReturns
    <3>4. CASE /\ port' = Tail(port)
               /\ sock' = [sock EXCEPT ![c] = "closed"]
               /\ UNCHANGED <<listener, gListener, gRunning, live, op, stops>>
      BY <1>0, <2>1, <3>1, <3>4, HeadType DEF DispatchAccept
    <3> QED BY <2>1, <3>2, <3>3, <3>4 DEF DispatchAccept
  <2>2. CASE DispatchCompletion
    <3> DEFINE c == Head(port).conn
    <3>1. c \in Client /\ port # << >>
      BY <2>0, <2>2 DEF DispatchCompletion
    <3>2. CASE HandlerWaits(c, Head(port).ok, Tail(port))
      BY <1>0, <2>2, <3>1, <3>2, HandlerType DEF DispatchCompletion, HandlerWaits
    <3>3. CASE HandlerReturns(c, Tail(port))
      BY <1>0, <2>2, <3>1, <3>3, HandlerType DEF DispatchCompletion, HandlerReturns
    <3> QED BY <2>2, <3>2, <3>3 DEF DispatchCompletion
  <2>3. CASE DispatchStop BY <1>0, <2>3, HeadType DEF DispatchStop, Dequeued
  <2>4. CASE DrainAccept BY <1>0, <2>0, <2>4, HeadType DEF DrainAccept, Dequeued
  <2>5. CASE DrainStop BY <1>0, <2>5, HeadType DEF DrainStop, Dequeued
  <2>6. CASE Drained BY <1>0, <2>6 DEF Drained, CloseListener
  <2>7. CASE Return BY <1>0, <2>7 DEF Return
  <2> QED BY <1>6, <2>1, <2>2, <2>3, <2>4, <2>5, <2>6, <2>7 DEF Dispatcher
<1>7. CASE UNCHANGED vars BY <1>0, <1>1, <1>7 DEF vars, TypeOK
<1>8. Next => Rest'
  BY <1>2, <1>3, <1>4, <1>5, <1>6 DEF Next
<1>9. Rest' => TypeOK'
  BY <1>1 DEF TypeOK
<1> HIDE DEF Rest
<1> QED BY <1>7, <1>8, <1>9

-----------------------------------------------------------------------------
(* Steps that leave the port alone.                                        *)
LEMMA PortSame ==
    ASSUME UNCHANGED port, NEW c
    PROVE  Completions(c)' = Completions(c) /\ Accepts(c)' = Accepts(c)
BY DEF Completions, Accepts

(* What a step of the dispatcher on the head of the port does, whichever
   packet it is: the connection of the head, the rest of the port, and the
   sockets of the others.                                                  *)
LEMMA Dispatched ==
    ASSUME TypeOK, DispatchAccept \/ DispatchCompletion
    PROVE  /\ port # << >> /\ Head(port).conn \in Client
           /\ DispatchAccept => Head(port).key = "accept" /\ disp = "loop"
           /\ DispatchCompletion => Head(port).key = "conn" /\ disp \in {"loop", "drain"}
           /\ port' = Tail(port) \/ (port' = Append(Tail(port), KEY_STOP) /\ ~ gListener')
           /\ \/ /\ op' = op \cup {Head(port).conn} /\ live' = live \cup {Head(port).conn}
                 /\ sock[Head(port).conn] = "open" /\ sock'[Head(port).conn] = "open"
              \/ /\ op' = op /\ live' = live \ {Head(port).conn}
                 /\ sock'[Head(port).conn] = "closed"
              \/ /\ DispatchAccept /\ op' = op /\ live' = live
                 /\ sock'[Head(port).conn] = "closed"
           /\ \A c \in Client \ {Head(port).conn} :
                 sock'[c] = sock[c] \/ (sock[c] = "backlog" /\ sock'[c] = "closed")
           /\ ~ listener => ~ listener'
           /\ gListener' = gListener \/ (~ gListener' /\ ~ listener')
           /\ UNCHANGED <<iocp, disp, acc, cli, stopper>>
<1> DEFINE c == Head(port).conn
<1>1. /\ port # << >>
      /\ DispatchAccept => Head(port).key = "accept" /\ disp = "loop"
      /\ DispatchCompletion => Head(port).key = "conn" /\ disp \in {"loop", "drain"}
      /\ UNCHANGED <<iocp, disp, acc, cli, stopper>>
  BY DEF DispatchAccept, DispatchCompletion, Dequeued
<1>2. c \in Client
  BY <1>1, HeadType, PacketCases
<1>3. \/ \E ok : HandlerWaits(c, ok, Tail(port))
      \/ HandlerReturns(c, Tail(port))
      \/ /\ DispatchAccept /\ port' = Tail(port)
         /\ sock' = [sock EXCEPT ![c] = "closed"]
         /\ UNCHANGED <<listener, gListener, gRunning, live, op, stops>>
  BY DEF DispatchAccept, DispatchCompletion
<1> USE DEF TypeOK
<1>4. CASE \E ok : HandlerWaits(c, ok, Tail(port))
  <2>1. /\ HandlerCallsStop(Tail(port), sock) /\ sock[c] = "open"
        /\ op' = op \cup {c} /\ live' = live \cup {c}
    BY <1>4 DEF HandlerWaits
  <2>2. port' = Tail(port) \/ (port' = Append(Tail(port), KEY_STOP) /\ ~ gListener')
    BY <2>1 DEF HandlerCallsStop
  <2>3. /\ ~ listener => ~ listener'
        /\ gListener' = gListener \/ (~ gListener' /\ ~ listener')
    BY <2>1 DEF HandlerCallsStop
  <2>4. \A d \in Client : sock'[d] = sock[d] \/ (sock[d] = "backlog" /\ sock'[d] = "closed")
    BY <1>1, <2>1, HandlerType
  <2>5. sock'[c] = "open"
    BY <1>2, <2>1, <2>4
  <2> HIDE DEF c
  <2> QED BY <1>1, <1>2, <2>1, <2>2, <2>3, <2>4, <2>5 DEF c
<1>5. CASE HandlerReturns(c, Tail(port))
  <2> DEFINE s == [sock EXCEPT ![c] = "closed"]
  <2>1. HandlerCallsStop(Tail(port), s) /\ op' = op /\ live' = live \ {c}
    BY <1>5 DEF HandlerReturns
  <2>2. port' = Tail(port) \/ (port' = Append(Tail(port), KEY_STOP) /\ ~ gListener')
    BY <2>1 DEF HandlerCallsStop
  <2>3. /\ ~ listener => ~ listener'
        /\ gListener' = gListener \/ (~ gListener' /\ ~ listener')
    BY <2>1 DEF HandlerCallsStop
  <2>4. s \in [Client -> {"none", "backlog", "open", "closed"}]
    BY <1>2
  <2>5. \A d \in Client : sock'[d] = s[d] \/ (s[d] = "backlog" /\ sock'[d] = "closed")
    BY <1>1, <2>1, <2>4, HandlerType
  <2>6. /\ sock'[c] = "closed"
        /\ \A d \in Client \ {c} : sock'[d] = sock[d] \/ (sock[d] = "backlog" /\ sock'[d] = "closed")
    BY <1>2, <2>5
  <2> HIDE DEF c, s
  <2> QED BY <1>1, <1>2, <2>1, <2>2, <2>3, <2>6 DEF c
<1>6. CASE /\ DispatchAccept /\ port' = Tail(port)
           /\ sock' = [sock EXCEPT ![c] = "closed"]
           /\ UNCHANGED <<listener, gListener, gRunning, live, op, stops>>
  <2>1. /\ sock'[c] = "closed"
        /\ \A d \in Client \ {c} : sock'[d] = sock[d]
    BY <1>2, <1>6
  <2>2. (~ listener => ~ listener') /\ gListener' = gListener
    BY <1>6
  <2> HIDE DEF c
  <2> QED BY <1>1, <1>2, <1>6, <2>1, <2>2 DEF c
<1> QED BY <1>3, <1>4, <1>5, <1>6

-----------------------------------------------------------------------------
(* A fiber waits once: the dispatcher takes the packet of a connection before
   it resumes the fiber, and the fiber waits again or ends.                *)
LEMMA WaitsStep ==
    ASSUME TypeOK, Waits, Sockets, Stopping, [Next]_vars
    PROVE  Waits'
<1> SUFFICES ASSUME NEW c \in Client PROVE WaitsOnce(c)'
  BY DEF Waits
<1>0. WaitsOnce(c) /\ HasHolder(c) /\ port \in Seq(Packet)
  BY DEF Waits, Sockets, TypeOK
<1>1. ASSUME UNCHANGED <<port, op, live>> PROVE WaitsOnce(c)'
  BY <1>0, <1>1, PortSame DEF WaitsOnce
<1>2. ASSUME NEW d \in Client, Complete(d) PROVE WaitsOnce(c)'
  <2>1. PICK ok \in BOOLEAN : port' = Append(port, Completion(d, ok))
    BY <1>2 DEF Complete
  <2>2. Completions(c)' = Completions(c) \cup (IF d = c THEN {Len(port) + 1} ELSE {})
    BY <1>0, <2>1, PacketType, Appended
  <2>3. d \in op /\ op' = op \ {d} /\ live' = live
    BY <1>2 DEF Complete
  <2> QED BY <1>0, <2>2, <2>3 DEF WaitsOnce
<1>3. ASSUME PostAccept \/ StopPosts PROVE WaitsOnce(c)'
  <2>1. op' = op /\ live' = live
    BY <1>3 DEF PostAccept, StopPosts
  <2>2. CASE port' = port
    BY <1>1, <2>1, <2>2
  <2>3. CASE \E p \in Packet : p.key # "conn" /\ port' = Append(port, p)
    <3>1. Completions(c)' = Completions(c)
      BY <1>0, <2>3, Appended
    <3> QED BY <1>0, <2>1, <3>1 DEF WaitsOnce
  <2>4. ASSUME PostAccept PROVE (CHOOSE d \in cli : TRUE) \in Client
    BY <2>4 DEF PostAccept, Stopping, TypeOK
  <2>5. port' = port \/ \E p \in Packet : p.key # "conn" /\ port' = Append(port, p)
    BY <1>3, <2>4, PacketType DEF PostAccept, StopPosts
  <2> QED BY <2>2, <2>3, <2>5
<1>4. ASSUME DispatchAccept \/ DispatchCompletion PROVE WaitsOnce(c)'
  <2> DEFINE h == Head(port).conn
  <2>1. /\ port # << >> /\ h \in Client
        /\ port' = Tail(port) \/ port' = Append(Tail(port), KEY_STOP)
        /\ \/ op' = op \cup {h} /\ live' = live \cup {h}
           \/ op' = op /\ live' = live \ {h}
           \/ DispatchAccept /\ op' = op /\ live' = live
        /\ DispatchAccept => Head(port).key = "accept"
        /\ DispatchCompletion => Head(port).key = "conn"
    BY <1>4, Dispatched
  <2>2. ASSUME DispatchAccept
        PROVE  /\ \A i, j \in Completions(c)' : i = j
               /\ Completions(c)' = {} <=> Completions(c) = {}
               /\ c = h => c \notin live
    <3>1. /\ \A i, j \in Completions(c)' : i = j
          /\ Completions(c)' = {} <=> Completions(c) = {}
      BY <1>0, <2>1, <2>2, Taken DEF WaitsOnce
    <3>2. c = h => Accepts(c) # {}
      BY <1>0, <2>1, <2>2, Taken DEF HasHolder
    <3> QED BY <1>0, <3>1, <3>2 DEF HasHolder
  <2>3. ASSUME DispatchCompletion
        PROVE  /\ \A i, j \in Completions(c)' : i = j
               /\ c = h => Completions(c)' = {} /\ Completions(c) # {}
               /\ c # h => (Completions(c)' = {} <=> Completions(c) = {})
    BY <1>0, <2>1, <2>3, Taken DEF WaitsOnce
  <2> HIDE DEF h
  <2> QED BY <1>0, <1>4, <2>1, <2>2, <2>3 DEF WaitsOnce
<1>5. ASSUME DispatchStop \/ DrainAccept \/ DrainStop PROVE WaitsOnce(c)'
  <2>1. /\ port # << >> /\ port' = Tail(port) /\ op' = op /\ live' = live
        /\ Head(port).key # "conn"
    BY <1>5 DEF DispatchStop, DrainAccept, DrainStop, Dequeued
  <2> QED BY <1>0, <2>1, Taken DEF WaitsOnce
<1>6. ASSUME Return PROVE WaitsOnce(c)'
  <2>1. Completions(c)' = {}
    BY <1>6 DEF Return, Completions
  <2>2. live = {} /\ live' = live /\ op' = op
    BY <1>6 DEF Return, Stopping
  <2> QED BY <1>0, <2>1, <2>2 DEF WaitsOnce
<1>7. \/ UNCHANGED <<port, op, live>>
      \/ \E d \in Client : Complete(d)
      \/ PostAccept \/ StopPosts
      \/ DispatchAccept \/ DispatchCompletion
      \/ DispatchStop \/ DrainAccept \/ DrainStop \/ Return
  BY DEF Next, vars, Connect, Acceptor, AcceptorTest, Accept, AcceptFails, Stopper, StopClears,
         StopReads, StopCloses, StopForgets, Dispatcher, Drained
<1> QED BY <1>1, <1>2, <1>3, <1>4, <1>5, <1>6, <1>7

(* A socket moves from the backlog to the acceptor, to the port, and to the
   fiber of a live connection, which closes it.                            *)
LEMMA SocketsStep ==
    ASSUME TypeOK, Waits, Sockets, Stopping, [Next]_vars
    PROVE  Sockets'
<1> SUFFICES ASSUME NEW c \in Client PROVE HasHolder(c)'
  BY DEF Sockets
<1>0. HasHolder(c) /\ port \in Seq(Packet) /\ WaitsOnce(c)
  BY DEF Sockets, TypeOK, Waits
<1>1. ASSUME UNCHANGED <<port, sock, live, disp, cli>> PROVE HasHolder(c)'
  BY <1>0, <1>1, PortSame DEF HasHolder
<1>2. ASSUME NEW d \in Client, Connect(d) PROVE HasHolder(c)'
  BY <1>0, <1>2, PortSame DEF Connect, HasHolder, TypeOK
<1>3. ASSUME NEW d \in Client, Complete(d) PROVE HasHolder(c)'
  <2>1. PICK ok \in BOOLEAN : port' = Append(port, Completion(d, ok))
    BY <1>3 DEF Complete
  <2>3. \E p \in Packet : p.key # "accept" /\ port' = Append(port, p)
    BY <2>1, PacketType
  <2>2. Accepts(c)' = Accepts(c)
    BY <1>0, <2>3, Appended
  <2> QED BY <1>0, <1>3, <2>2 DEF Complete, HasHolder
<1>4. ASSUME NEW d \in Client, Accept(d) PROVE HasHolder(c)'
  <2>1. cli = {}
    BY <1>4 DEF Accept, Stopping
  <2> QED BY <1>0, <1>4, <2>1, PortSame DEF Accept, HasHolder, TypeOK
<1>5. ASSUME PostAccept PROVE HasHolder(c)'
  <2> DEFINE a == CHOOSE d \in cli : TRUE
  <2>1. a \in Client /\ cli = {a}
    BY <1>5 DEF PostAccept, Stopping, TypeOK
  <2>2. cli' = {} /\ sock' = sock /\ live' = live /\ disp' = disp
    BY <1>5 DEF PostAccept
  <2>3. CASE iocp
    <3>1. port' = Append(port, KEY_ACCEPT(a))
      BY <1>5, <2>3 DEF PostAccept
    <3> HIDE DEF a
    <3>2. Accepts(c)' = Accepts(c) \cup (IF a = c THEN {Len(port) + 1} ELSE {})
      BY <1>0, <2>1, <3>1, PacketType, Appended
    <3> QED BY <1>0, <2>1, <2>2, <3>2 DEF HasHolder
  <2>4. CASE ~ iocp
    <3>1. port' = port /\ disp = "returned"
      BY <1>5, <2>4 DEF PostAccept, Stopping
    <3> QED BY <1>0, <2>2, <3>1, PortSame DEF HasHolder
  <2> QED BY <2>3, <2>4
<1>6. ASSUME StopPosts PROVE HasHolder(c)'
  <2>1. port' = port \/ port' = Append(port, KEY_STOP)
    BY <1>6 DEF StopPosts
  <2>3. port' = port \/ \E p \in Packet : p.key # "accept" /\ port' = Append(port, p)
    BY <2>1, PacketType
  <2>2. Accepts(c)' = Accepts(c)
    BY <1>0, <2>3, Appended, PortSame
  <2> QED BY <1>0, <1>6, <2>2 DEF StopPosts, HasHolder
<1>7. ASSUME StopCloses \/ Drained PROVE HasHolder(c)'
  <2>1. /\ port' = port /\ live' = live /\ cli' = cli
        /\ sock' = CloseListener(sock) \/ sock' = sock
    BY <1>7 DEF StopCloses, Drained
  <2>2. (disp' = disp \/ live = {}) /\ (disp' # "returned" => disp # "returned")
    BY <1>7 DEF StopCloses, Drained
  <2>3. sock'[c] = sock[c] \/ (sock[c] = "backlog" /\ sock'[c] = "closed")
    BY <2>1 DEF CloseListener
  <2> QED BY <1>0, <2>1, <2>2, <2>3, PortSame DEF HasHolder
<1>8. ASSUME DispatchAccept \/ DispatchCompletion PROVE HasHolder(c)'
  <2> DEFINE h == Head(port).conn
  <2>1. /\ port # << >> /\ h \in Client
        /\ port' = Tail(port) \/ port' = Append(Tail(port), KEY_STOP)
        /\ \/ /\ op' = op \cup {h} /\ live' = live \cup {h}
              /\ sock[h] = "open" /\ sock'[h] = "open"
           \/ /\ op' = op /\ live' = live \ {h}
              /\ sock'[h] = "closed"
           \/ /\ DispatchAccept /\ op' = op /\ live' = live
              /\ sock'[h] = "closed"
        /\ \A d \in Client \ {h} :
              sock'[d] = sock[d] \/ (sock[d] = "backlog" /\ sock'[d] = "closed")
        /\ disp' = disp /\ cli' = cli
        /\ DispatchAccept => Head(port).key = "accept"
        /\ DispatchCompletion => Head(port).key = "conn"
    BY <1>8, Dispatched
  <2>2. /\ \A i, j \in Accepts(c)' : i = j
        /\ c # h => (Accepts(c)' = {} <=> Accepts(c) = {})
    BY <1>0, <2>1, Taken DEF HasHolder
  <2>3. ASSUME DispatchAccept, c = h
        PROVE  Accepts(c)' = {} /\ c \notin live /\ c \notin cli
    BY <1>0, <2>1, <2>3, Taken DEF HasHolder
  <2>4. ASSUME DispatchCompletion, c = h
        PROVE  Accepts(c)' = {} /\ c \in live /\ c \notin cli
    <3>1. Completions(c) # {}
      BY <1>0, <2>1, <2>4, Taken DEF WaitsOnce
    <3>2. c \in live /\ Accepts(c) = {} /\ c \notin cli
      BY <1>0, <3>1 DEF WaitsOnce, HasHolder
    <3>3. Accepts(c)' = {} <=> Accepts(c) = {}
      BY <1>0, <2>1, <2>4, Taken DEF HasHolder
    <3> QED BY <3>2, <3>3
  <2> HIDE DEF h
  <2>5. CASE c = h
    BY <1>0, <1>8, <2>1, <2>3, <2>4, <2>5 DEF HasHolder
  <2>6. CASE c # h
    BY <1>0, <2>1, <2>2, <2>6 DEF HasHolder
  <2> QED BY <2>5, <2>6
<1>9. ASSUME DispatchStop PROVE HasHolder(c)'
  <2>1. port # << >> /\ port' = Tail(port) /\ Head(port).key # "accept"
    BY <1>9 DEF DispatchStop, Dequeued
  <2>2. (\A i, j \in Accepts(c)' : i = j) /\ (Accepts(c)' = {} <=> Accepts(c) = {})
    BY <1>0, <2>1, Taken DEF HasHolder
  <2> QED BY <1>0, <1>9, <2>2 DEF DispatchStop, HasHolder
<1>10. ASSUME DrainAccept PROVE HasHolder(c)'
  <2> DEFINE h == Head(port).conn
  <2>1. port # << >> /\ port' = Tail(port) /\ Head(port).key = "accept"
    BY <1>10 DEF DrainAccept, Dequeued
  <2>2. /\ \A i, j \in Accepts(c)' : i = j
        /\ c # h => (Accepts(c)' = {} <=> Accepts(c) = {})
        /\ c = h => Accepts(c)' = {} /\ Accepts(c) # {}
    BY <1>0, <2>1, Taken DEF HasHolder
  <2>3. sock' = [sock EXCEPT ![h] = "closed"] /\ UNCHANGED <<live, cli, disp>>
    BY <1>10 DEF DrainAccept
  <2> HIDE DEF h
  <2> QED BY <1>0, <2>2, <2>3 DEF HasHolder, TypeOK
<1>11. ASSUME DrainStop PROVE HasHolder(c)'
  <2>1. port # << >> /\ port' = Tail(port) /\ Head(port).key # "accept"
    BY <1>11 DEF DrainStop, Dequeued
  <2>2. (\A i, j \in Accepts(c)' : i = j) /\ (Accepts(c)' = {} <=> Accepts(c) = {})
    BY <1>0, <2>1, Taken DEF HasHolder
  <2> QED BY <1>0, <1>11, <2>2 DEF DrainStop, HasHolder
<1>12. ASSUME Return PROVE HasHolder(c)'
  <2>1. Accepts(c)' = {}
    BY <1>12 DEF Return, Accepts
  <2>2. live = {}
    BY <1>12 DEF Return, Stopping
  <2> QED BY <1>0, <1>12, <2>1, <2>2 DEF Return, HasHolder
<1>13. \/ UNCHANGED <<port, sock, live, disp, cli>>
       \/ \E d \in Client : Connect(d) \/ Complete(d) \/ Accept(d)
       \/ PostAccept \/ StopPosts \/ StopCloses \/ Drained
       \/ DispatchAccept \/ DispatchCompletion
       \/ DispatchStop \/ DrainAccept \/ DrainStop \/ Return
  BY DEF Next, vars, Acceptor, AcceptorTest, AcceptFails, Stopper, StopClears, StopReads,
         StopForgets, Dispatcher
<1> QED BY <1>1, <1>2, <1>3, <1>4, <1>5, <1>6, <1>7, <1>8, <1>9, <1>10, <1>11, <1>12, <1>13

(* Stop closes the listener before it posts, and whoever drains has read what
   was posted.                                                             *)
LEMMA StoppingStep ==
    ASSUME TypeOK, Waits, Stopping, [Next]_vars
    PROVE  Stopping'
<1> DEFINE Posted == \A i \in DOMAIN port : port[i].key = "stop" => ~ gListener
           Others ==
              /\ stopper = "clear" \/ ~ gListener => ~ listener
              /\ stopper = "post" => ~ gListener
              /\ disp # "loop" => ~ gListener
              /\ disp \in {"join", "returned"} => live = {}
              /\ disp # "returned" => iocp
              /\ acc = "post" <=> cli # {}
              /\ \A c, d \in cli : c = d
<1>0. Posted /\ Others /\ port \in Seq(Packet)
  BY DEF Stopping, TypeOK
<1>1. ASSUME ~ gListener' PROVE Posted'
  BY <1>1
<1>2. ASSUME gListener' => gListener, UNCHANGED port PROVE Posted'
  BY <1>0, <1>2
<1>3. ASSUME gListener' => gListener, port # << >>, port' = Tail(port) PROVE Posted'
  <2>1. \A i \in DOMAIN port' : i + 1 \in DOMAIN port /\ port'[i] = port[i + 1]
    BY <1>0, <1>3, Taken
  <2> QED BY <1>0, <1>3, <2>1
<1>4. ASSUME UNCHANGED gListener, NEW p \in Packet, port' = Append(port, p), p.key # "stop"
      PROVE  Posted'
  <2>1. /\ DOMAIN port' = 1..(Len(port) + 1) /\ DOMAIN port = 1..Len(port) /\ Len(port) \in Nat
        /\ \A i \in 1..Len(port) : port'[i] = port[i]
        /\ port'[Len(port) + 1] = p
    BY <1>0, <1>4
  <2> QED BY <1>0, <1>4, <2>1
<1>5. ASSUME NEW c \in Client, Connect(c) \/ Complete(c) PROVE Stopping'
  <2>1. Others'
    BY <1>0, <1>5 DEF Connect, Complete
  <2>2. CASE Connect(c)
    BY <1>2, <2>1, <2>2 DEF Connect, Stopping
  <2>3. CASE Complete(c)
    <3>1. \E p \in Packet : port' = Append(port, p) /\ p.key # "stop"
      BY <2>3, PacketType DEF Complete
    <3>2. Posted'
      BY <1>4, <2>3, <3>1 DEF Complete
    <3> QED BY <2>1, <3>2 DEF Stopping
  <2> QED BY <1>5, <2>2, <2>3
<1>6. ASSUME Acceptor PROVE Stopping'
  <2>1. Others'
    BY <1>0, <1>6 DEF Acceptor, AcceptorTest, Accept, AcceptFails, PostAccept
  <2>2. gListener' = gListener
    BY <1>6 DEF Acceptor, AcceptorTest, Accept, AcceptFails, PostAccept
  <2>3. port' = port \/ \E p \in Packet : port' = Append(port, p) /\ p.key # "stop"
    <3>1. ASSUME PostAccept PROVE (CHOOSE d \in cli : TRUE) \in Client
      BY <3>1 DEF PostAccept, Stopping, TypeOK
    <3> QED BY <1>6, <3>1, PacketType
            DEF Acceptor, AcceptorTest, Accept, AcceptFails, PostAccept
  <2>4. Posted'
    BY <1>2, <1>4, <2>2, <2>3
  <2> QED BY <2>1, <2>4 DEF Stopping
<1>7. ASSUME Stopper PROVE Stopping'
  <2>1. Others'
    BY <1>0, <1>7 DEF Stopper, StopClears, StopReads, StopCloses, StopForgets, StopPosts
  <2>2. Posted'
    BY <1>0, <1>1, <1>2, <1>7 DEF Stopper, StopClears, StopReads, StopCloses, StopForgets, StopPosts
  <2> QED BY <2>1, <2>2 DEF Stopping
<1>8. ASSUME DispatchAccept \/ DispatchCompletion PROVE Stopping'
  <2>1. /\ port # << >>
        /\ port' = Tail(port) \/ ~ gListener'
        /\ ~ listener => ~ listener'
        /\ gListener' = gListener \/ (~ gListener' /\ ~ listener')
        /\ UNCHANGED <<iocp, disp, acc, cli, stopper>>
        /\ disp \in {"loop", "drain"}
    BY <1>8, Dispatched
  <2>2. Others'
    BY <1>0, <2>1
  <2>3. Posted'
    BY <1>1, <1>3, <2>1
  <2> QED BY <2>2, <2>3 DEF Stopping
<1>9. ASSUME DispatchStop PROVE Stopping'
  <2>1. port # << >> /\ Head(port).key = "stop" /\ port' = Tail(port) /\ gListener' = gListener
    BY <1>9 DEF DispatchStop, Dequeued
  <2>2. 1 \in DOMAIN port /\ port[1] = Head(port)
    BY <1>0, <2>1
  <2>3. ~ gListener
    BY <1>0, <2>1, <2>2
  <2>4. Others'
    BY <1>0, <1>9, <2>3 DEF DispatchStop
  <2> QED BY <1>1, <2>1, <2>3, <2>4 DEF Stopping
<1>10. ASSUME DrainAccept \/ DrainStop PROVE Stopping'
  <2>1. port # << >> /\ port' = Tail(port) /\ gListener' = gListener
    BY <1>10 DEF DrainAccept, DrainStop, Dequeued
  <2>2. Others'
    BY <1>0, <1>10 DEF DrainAccept, DrainStop
  <2> QED BY <1>3, <2>1, <2>2 DEF Stopping
<1>11. ASSUME Drained \/ Return PROVE Stopping'
  <2>1. ~ gListener /\ ~ listener
    BY <1>0, <1>11 DEF Drained, Return
  <2>2. ~ gListener' /\ ~ listener'
    <3>1. CASE Drained BY <2>1, <3>1 DEF Drained
    <3>2. CASE Return BY <2>1, <3>2 DEF Return
    <3> QED BY <1>11, <3>1, <3>2
  <2>3. Others'
    BY <1>0, <1>11, <2>2 DEF Drained, Return
  <2> QED BY <1>1, <2>2, <2>3 DEF Stopping
<1>12. CASE UNCHANGED vars
  BY <1>0, <1>12 DEF vars, Stopping
<1> QED BY <1>5, <1>6, <1>7, <1>8, <1>9, <1>10, <1>11, <1>12 DEF Next, Dispatcher

-----------------------------------------------------------------------------
LEMMA InvInit == Init => IInv
<1> SUFFICES ASSUME Init PROVE IInv
  OBVIOUS
<1>1. /\ listener \in BOOLEAN /\ gListener \in BOOLEAN
      /\ gRunning \in BOOLEAN /\ iocp \in BOOLEAN
  BY DEF Init
<1>2. TypeOK
  BY <1>1, StopAssumption DEF StopAssumption, Init, TypeOK
<1>3. \A c \in Client : Completions(c) = {} /\ Accepts(c) = {}
  BY DEF Init, Completions, Accepts
<1>4. Waits /\ Sockets
  BY <1>3 DEF Init, Waits, WaitsOnce, Sockets, HasHolder
<1>5. Stopping
  BY DEF Init, Stopping
<1> QED BY <1>2, <1>4, <1>5 DEF IInv

(* The invariant of the server: every live connection waits for one thing,
   every open socket has a holder, and a stop is seen after the listener
   was closed.                                                             *)
THEOREM Invariance == Spec => []IInv
<1>1. IInv /\ [Next]_vars => IInv'
  BY TypeStep, WaitsStep, SocketsStep, StoppingStep DEF IInv
<1> QED BY <1>1, InvInit, PTL DEF Spec

(* Resume never gets the record of a connection that Cleanup freed, and never
   resumes a fiber twice for one wait, for any number of connections and
   calls of Stop.                                                          *)
THEOREM FibersWaitOnce == Spec => []OneWaitPerFiber
<1>1. ASSUME IInv, NEW c \in Client
      PROVE  (IF c \in op THEN 1 ELSE 0) + Cardinality(Completions(c))
                 = IF c \in live THEN 1 ELSE 0
  <2>1. WaitsOnce(c)
    BY <1>1 DEF IInv, Waits
  <2>2. CASE Completions(c) = {}
    BY <2>1, <2>2, FS_EmptySet DEF WaitsOnce
  <2>3. CASE Completions(c) # {}
    <3>1. \E i : Completions(c) = {i}
      BY <2>1, <2>3 DEF WaitsOnce
    <3>2. Cardinality(Completions(c)) = 1
      BY <3>1, FS_Singleton
    <3> QED BY <2>1, <2>3, <3>2 DEF WaitsOnce
  <2> QED BY <2>2, <2>3
<1>2. IInv => OneWaitPerFiber
  BY <1>1 DEF IInv, OneWaitPerFiber
<1> QED BY <1>2, Invariance, PTL

(* The handle that FiberEntry closes for the second time in a drain cannot
   belong to a connection accepted meanwhile: the listener is closed.      *)
THEOREM HandlesNotReused == Spec => []NoHandleReuse
<1>1. IInv => NoHandleReuse
  BY DEF IInv, TypeOK, Sockets, HasHolder, Stopping, NoHandleReuse
<1> QED BY <1>1, Invariance, PTL

(* Run returns with no fiber, no operation and no socket of a handler left. *)
THEOREM RunReturnsQuiet == Spec => QuietReturn
<1> DEFINE Quiet ==
       disp' = "returned" /\ disp # "returned" =>
         /\ live = {} /\ op = {}
         /\ \A c \in Client : sock[c] = "open" =>
              c \in cli \/ \E i \in DOMAIN port : port[i] = KEY_ACCEPT(c)
<1>1. ASSUME IInv, [Next]_vars PROVE Quiet
  <2> SUFFICES ASSUME disp' = "returned", disp # "returned"
               PROVE  /\ live = {} /\ op = {}
                      /\ \A c \in Client : sock[c] = "open" =>
                           c \in cli \/ \E i \in DOMAIN port : port[i] = KEY_ACCEPT(c)
    OBVIOUS
  <2>1. disp = "join"
    BY <1>1 DEF Next, vars, Connect, Complete, Acceptor, AcceptorTest, Accept, AcceptFails,
         PostAccept, Stopper, StopClears, StopReads, StopCloses, StopForgets, StopPosts, Dispatcher, DispatchAccept,
         DispatchCompletion, DispatchStop, DrainAccept, DrainStop, Drained, Return
  <2>2. live = {} /\ op = {}
    BY <1>1, <2>1 DEF IInv, Stopping, Waits, WaitsOnce, TypeOK
  <2>3. ASSUME NEW c \in Client, sock[c] = "open", c \notin cli
        PROVE  \E i \in DOMAIN port : port[i] = KEY_ACCEPT(c)
    <3>1. Accepts(c) # {}
      BY <1>1, <2>1, <2>2, <2>3 DEF IInv, Sockets, HasHolder
    <3>2. PICK i \in DOMAIN port : port[i].key = "accept" /\ port[i].conn = c
      BY <3>1 DEF Accepts
    <3>3. port[i] \in Packet
      BY <1>1 DEF IInv, TypeOK
    <3> QED BY <3>2, <3>3, PacketCases
  <2> QED BY <2>2, <2>3
<1> HIDE DEF Quiet
<1>2. IInv /\ [Next]_vars => [Quiet]_vars
  BY <1>1
<1>3. [][Quiet]_vars => QuietReturn
  BY DEF Quiet, QuietReturn
<1> QED BY <1>2, <1>3, Invariance, PTL DEF Spec

=============================================================================
