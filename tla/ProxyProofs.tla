---------------------------- MODULE ProxyProofs ----------------------------
(***************************************************************************)
(* Proofs about Proxy for all its constants: the process changes the       *)
(* tables by the operations of ConnTable alone, so that what is proved     *)
(* there holds in it, and it never loses hold of the client, the server    *)
(* and the conn it serves.                                                 *)
(*                                                                         *)
(* The second half is about the sessions: which sockets are open, and      *)
(* which answers are under way on them.                                    *)
(***************************************************************************)
EXTENDS Proxy, ConnTableProofs, SequenceTheorems

ClientPhase == {"req_line", "req_hdrs", "lookup", "forward"}
ServerPhase == {"res_hdrs", "res_body"}

-----------------------------------------------------------------------------
(* Steps that leave the tables alone *)

\* Nothing that HandsOn speaks of changes.
LEMMA SameHands == HandsOn /\ UNCHANGED <<tableVars, pc, cur, conn, ready>> => HandsOn'
BY DEF HandsOn, tableVars, clientVars, serverVars, connVars

\* Between two calls, and after the last one, there is nothing in hand.
LEMMA EmptyHands ==
    ASSUME cur' \in Idx, conn' \in Idx, ready' \subseteq Fd,
           pc' \in {"select", "clients", "servers", "hung", "crashed"}
    PROVE  HandsOn'
BY DEF HandsOn

\* Reading on keeps what is in hand.
LEMMA ReadingOn ==
    ASSUME HandsOn, UNCHANGED tableVars, cur' = cur, conn' = conn, ready' = ready,
           \/ pc \in ClientPhase /\ pc' \in ClientPhase \ {"forward"}
           \/ pc \in ServerPhase /\ pc' \in ServerPhase
    PROVE  HandsOn'
BY DEF HandsOn, tableVars, clientVars, serverVars, connVars, ClientPhase, ServerPhase

\* The slot that a return sets is one of the table.
LEMMA ZeroSlot == 0 \in Idx
BY SizeAssumption DEF Idx

LEMMA BackIsEmpty ==
    ASSUME HandsOn, NEW phase \in {"clients", "servers"}, BackTo(phase)
    PROVE  HandsOn'
<1>1. cur' \in Idx /\ conn' \in Idx /\ ready' \subseteq Fd /\ pc' = phase
  BY ZeroSlot DEF BackTo, HandsOn
<1> QED BY <1>1, EmptyHands

LEMMA StopIsEmpty ==
    ASSUME HandsOn, NEW how \in {"hung", "crashed"}, Stop(how)
    PROVE  HandsOn'
<1>1. cur' \in Idx /\ conn' \in Idx /\ ready' \subseteq Fd /\ pc' = how
  BY DEF Stop, HandsOn
<1> QED BY <1>1, EmptyHands

-----------------------------------------------------------------------------
(* Steps of the process *)

\* main accepts a connection or goes on to serve: add_client keeps the entries.
LEMMA SelectStep ==
    ASSUME TableInv, HandsOn, Select
    PROVE  [TableNext]_tableVars /\ HandsOn'
<1>1. HandsOn'
  BY EmptyHands DEF Select, HandsOn
<1>2. CASE UNCHANGED tableVars
  BY <1>1, <1>2
<1>3. CASE \E fd \in Fd, a \in ClitAddr : Accept(fd, a)
  BY <1>1, <1>3, ProxyAssumption DEF TableNext
<1> QED BY <1>2, <1>3 DEF Select

LEMMA AcceptErrorStep ==
    ASSUME TableInv, HandsOn, AcceptError
    PROVE  [TableNext]_tableVars /\ HandsOn'
<1>1. AcceptFails /\ UNCHANGED <<pc, cur, conn, ready>>
  BY DEF AcceptError, loopVars
<1>2. HandsOn'
  BY <1>1 DEF HandsOn, AcceptFails, clientVars, serverVars, connVars
<1> QED BY <1>1, <1>2 DEF TableNext

\* serve_clients comes to a slot in use.
LEMMA BeginClientStep ==
    ASSUME TableInv, HandsOn, NEW j \in Idx, BeginClient(j)
    PROVE  UNCHANGED tableVars /\ HandsOn'
<1>1. /\ UNCHANGED tableVars
      /\ pc' = "req_line" /\ cur' = j /\ conn' = conn /\ ready' = ready
      /\ client_l[j] # NULL
  BY DEF BeginClient, TurnTo, Found
<1>2. client_l' = client_l
  BY <1>1 DEF tableVars, clientVars
<1> QED BY <1>1, <1>2 DEF HandsOn

\* serve_servers comes to a slot in use, and the conn of that server is the one
\* with this slot: two servers do not have one descriptor.
LEMMA BeginServerStep ==
    ASSUME TableInv, HandsOn, NEW j \in Idx, BeginServer(j)
    PROVE  UNCHANGED tableVars /\ HandsOn'
<1>1. PICK k \in Idx : server_get_conn(server_l[j].fd, k) /\ conn' = k
  BY DEF BeginServer
<1>2. /\ UNCHANGED tableVars /\ server_l[j] # NULL /\ server_l[j].fd \in ready
      /\ pc' = "res_hdrs" /\ cur' = j /\ ready' = ready
  BY DEF BeginServer, TurnTo, Found
<1>3. conn_l[k] # NULL /\ server_l[conn_l[k].serv_idx].fd = server_l[j].fd
  BY <1>1 DEF server_get_conn
<1>4. conn_l[k].serv_idx \in Idx /\ server_l[conn_l[k].serv_idx] # NULL
  BY <1>3 DEF TableInv, TypeOK, NoDangling, Live, Conn
<1>5. conn_l[k].serv_idx = j
  <2>1. server_l[j].fd # -1
    BY <1>2 DEF HandsOn, Fd
  <2> QED BY <1>2, <1>3, <1>4, <2>1 DEF TableInv, FdOwnership, Live
<1>6. conn_l' = conn_l /\ server_l' = server_l
  BY <1>2 DEF tableVars, connVars, serverVars
<1> QED BY <1>1, <1>2, <1>3, <1>5, <1>6 DEF HandsOn

-----------------------------------------------------------------------------
(* Steps of client2server *)

RequestSteps ==
    \/ ReadRequestLine \/ RequestLineTimesOut \/ RequestLineAtEnd
    \/ ReadRequestHdr \/ RequestHdrTimesOut \/ RequestHdrAtEnd \/ BadUri

\* Reading a request line and its headers, or refusing it, moves no table.
LEMMA RequestStep ==
    ASSUME HandsOn, RequestSteps
    PROVE  UNCHANGED tableVars /\ HandsOn'
<1>1. ASSUME NEW r, StartRequest(r), pc = "req_line"
      PROVE  UNCHANGED tableVars /\ HandsOn'
  BY <1>1, ReadingOn DEF StartRequest, TurnTo, ClientPhase
<1>2. ASSUME NEW ok, HeadersRead(ok), pc = "req_hdrs"
      PROVE  UNCHANGED tableVars /\ HandsOn'
  BY <1>2, ReadingOn DEF HeadersRead, TurnTo, ClientPhase
<1>3. ASSUME NEW kind, Refuse(kind)
      PROVE  UNCHANGED tableVars /\ HandsOn'
  BY <1>3, BackIsEmpty DEF Refuse
<1>4. CASE ReadRequestLine
  BY <1>1, <1>3, <1>4 DEF ReadRequestLine, StartStale
<1>5. CASE RequestLineAtEnd
  BY <1>1, <1>3, <1>5, BackIsEmpty DEF RequestLineAtEnd, StartStale
<1>6. CASE ReadRequestHdr
  <2>1. CASE TurnTo("req_hdrs", cur) /\ UNCHANGED <<conn, res, nreq>>
    BY <1>6, <2>1, ReadingOn DEF ReadRequestHdr, TurnTo, ClientPhase
  <2> QED BY <1>2, <1>6, <2>1 DEF ReadRequestHdr
<1>7. CASE RequestHdrTimesOut
  BY <1>2, <1>7 DEF RequestHdrTimesOut
<1>8. CASE RequestHdrAtEnd
  BY <1>2, <1>8, StopIsEmpty DEF RequestHdrAtEnd
<1>9. CASE BadUri
  BY <1>3, <1>9 DEF BadUri
<1>10. CASE RequestLineTimesOut
  BY <1>1, <1>3, <1>10, BackIsEmpty DEF RequestLineTimesOut, StartStale
<1> QED BY <1>4, <1>5, <1>6, <1>7, <1>8, <1>9, <1>10 DEF RequestSteps

\* client_get_conn gives a conn of the client being served: no other client has
\* its descriptor.
LEMMA UseConnStep ==
    ASSUME TableInv, HandsOn, NEW a \in SrvAddr, UseConn(a)
    PROVE  UNCHANGED tableVars /\ HandsOn'
<1>1. PICK k \in Idx : client_get_conn(client_l[cur].fd, a, k) /\ conn' = k
  BY DEF UseConn, clit_fd
<1>2. /\ UNCHANGED tableVars /\ pc = "lookup"
      /\ pc' = "forward" /\ cur' = cur /\ ready' = ready
  BY DEF UseConn, TurnTo
<1>3. conn_l[k] # NULL /\ client_l[conn_l[k].clit_idx].fd = client_l[cur].fd
  BY <1>1 DEF client_get_conn
<1>4. conn_l[k].clit_idx \in Idx /\ client_l[conn_l[k].clit_idx] # NULL
  BY <1>3 DEF TableInv, TypeOK, NoDangling, Live, Conn
<1>5. cur \in Idx /\ client_l[cur] # NULL
  BY <1>2 DEF HandsOn
<1>6. conn_l[k].clit_idx = cur
  BY <1>3, <1>4, <1>5 DEF TableInv, FdOwnership, Live
<1>7. conn_l' = conn_l /\ client_l' = client_l
  BY <1>2 DEF tableVars, connVars, clientVars
<1> QED BY <1>1, <1>2, <1>3, <1>5, <1>6, <1>7 DEF HandsOn

\* A new conn joins the client it was made for.
LEMMA MakeConnStep ==
    ASSUME TableInv, HandsOn, NEW a \in SrvAddr, MakeConn(a)
    PROVE  TableNext /\ HandsOn'
<1>1. PICK r \in Fd \cup {-1}, k \in Idx : NewConn(cur, r, a, k) /\ conn' = k
  BY DEF MakeConn, Connect
<1>2. /\ pc = "lookup" /\ pc' = "forward" /\ cur' = cur /\ ready' = ready
      /\ cur \in Idx /\ client_l[cur] # NULL
  BY DEF MakeConn, HandsOn
<1>3. OpenConn(cur, r, a) /\ conn_l[k] = NULL /\ conn_l'[k] # NULL
  BY <1>1 DEF NewConn
<1>4. PICK s \in Idx, m \in Idx : Link(cur, s, m, r, a)
  BY <1>3 DEF OpenConn
<1>5. m = k
  BY <1>3, <1>4 DEF Link, TableInv, TypeOK
<1>6. conn_l'[k].clit_idx = cur
  BY <1>4, <1>5 DEF Link, TableInv, TypeOK
<1>7. client_l'[cur] # NULL
  <2>1. TableInv'
    BY <1>2, <1>3, OpenConnInv, ProxyAssumption
  <2> QED BY <1>3, <1>6, <2>1 DEF TableInv, NoDangling, Live
<1>8. HandsOn'
  BY <1>1, <1>2, <1>3, <1>6, <1>7 DEF HandsOn
<1>9. TableNext
  BY <1>2, <1>3, ProxyAssumption DEF TableNext
<1> QED BY <1>8, <1>9

\* add_server has no slot left.
LEMMA ServersFullStep ==
    ASSUME HandsOn, ServersFull
    PROVE  TableNext /\ HandsOn'
<1>1. PICK r \in Fd \cup {-1} : Overflow(cur, r)
  BY DEF ServersFull
<1>2. cur \in Idx /\ Stop("crashed")
  BY DEF ServersFull, HandsOn
<1> QED BY <1>1, <1>2, StopIsEmpty DEF TableNext

\* close_conn on the conn in hand.
LEMMA DropStep ==
    ASSUME HandsOn, NEW phase \in {"clients", "servers"}, NEW s, Drop(phase, s)
    PROVE  TableNext /\ HandsOn'
<1>1. CloseConn(conn) /\ BackTo(phase) /\ conn \in Idx
  BY DEF Drop, HandsOn
<1> QED BY <1>1, BackIsEmpty DEF TableNext

LEMMA ForwardStep ==
    ASSUME HandsOn, RejectRequest \/ Forward
    PROVE  [TableNext]_tableVars /\ HandsOn'
<1>1. CASE RejectRequest
  BY <1>1, DropStep DEF RejectRequest
<1>2. CASE Forward
  BY <1>2, BackIsEmpty DEF Forward
<1> QED BY <1>1, <1>2

-----------------------------------------------------------------------------
(* Steps of server2client *)

ResponseSteps ==
    \/ ReadResponseHdr \/ ResponseHdrsEnd \/ ResponseHdrTimesOut \/ ResponseHdrAtEnd
    \/ SkipHeaders \/ ReadBody \/ BodyAtEnd

\* Reading and passing on a response closes its own conn or moves no table.
LEMMA ResponseStep ==
    ASSUME HandsOn, ResponseSteps
    PROVE  [TableNext]_tableVars /\ HandsOn'
<1>1. ASSUME NEW phase \in ServerPhase, ReadOn(phase), pc \in ServerPhase
      PROVE  [TableNext]_tableVars /\ HandsOn'
  BY <1>1, ReadingOn DEF ReadOn, TurnTo
<1>2. ASSUME NEW s, Drop("servers", s)
      PROVE  [TableNext]_tableVars /\ HandsOn'
  BY <1>2, DropStep
<1>3. ASSUME NEW how \in {"hung", "crashed"}, Stop(how), UNCHANGED tableVars
      PROVE  [TableNext]_tableVars /\ HandsOn'
  BY <1>3, StopIsEmpty
<1>4. ASSUME NEW a, NEW s, Answer(a, s)
      PROVE  [TableNext]_tableVars /\ HandsOn'
  <2>1. CASE Drop("servers", s)
    BY <1>2, <2>1
  <2>2. CASE BackTo("servers") /\ UNCHANGED tableVars
    BY <2>2, BackIsEmpty
  <2> QED BY <1>4, <2>1, <2>2 DEF Answer
<1>5. CASE ReadResponseHdr
  BY <1>1, <1>5 DEF ReadResponseHdr, ServerPhase
<1>6. CASE ResponseHdrsEnd
  BY <1>1, <1>2, <1>6 DEF ResponseHdrsEnd, ServerPhase
<1>7. CASE ResponseHdrTimesOut
  <2>1. pc = "res_hdrs" /\ \E h, s : GiveUp(h, s)
    BY <1>7 DEF ResponseHdrTimesOut
  <2> QED BY <1>1, <1>2, <2>1 DEF GiveUp, ServerPhase
<1>8. CASE ResponseHdrAtEnd
  BY <1>2, <1>3, <1>8 DEF ResponseHdrAtEnd
<1>9. CASE ReadBody
  <2>1. CASE AskSame
    BY <2>1, BackIsEmpty DEF AskSame
  <2> QED BY <1>2, <1>3, <1>4, <1>9, <2>1 DEF ReadBody
<1>10. CASE BodyAtEnd
  BY <1>2, <1>3, <1>4, <1>10 DEF BodyAtEnd
<1>11. CASE SkipHeaders
  BY <1>1, <1>11 DEF SkipHeaders, ServerPhase
<1> QED BY <1>5, <1>6, <1>7, <1>8, <1>9, <1>10, <1>11 DEF ResponseSteps

\* ask_for_nolist makes the new conn for the client of the conn in hand.
LEMMA AskElsewhereStep ==
    ASSUME TableInv, HandsOn, (\E a \in SrvAddr : AskElsewhere(a)) \/ AskOverflows
    PROVE  TableNext /\ HandsOn'
<1>1. pc = "res_body"
  BY DEF AskElsewhere, AskOverflows
<1>2. conn_l[conn].clit_idx \in Idx
  BY <1>1 DEF HandsOn, TableInv, TypeOK, Conn
<1>3. CASE \E a \in SrvAddr : AskElsewhere(a)
  <2>1. PICK a \in SrvAddr, r \in Fd \cup {-1} : OpenConn(conn_l[conn].clit_idx, r, a)
    BY <1>3 DEF AskElsewhere, NewConn
  <2>2. BackTo("servers")
    BY <1>3 DEF AskElsewhere
  <2> QED BY <1>2, <2>1, <2>2, BackIsEmpty, ProxyAssumption DEF TableNext
<1>4. CASE AskOverflows
  <2>1. PICK r \in Fd \cup {-1} : Overflow(conn_l[conn].clit_idx, r)
    BY <1>4 DEF AskOverflows
  <2>2. Stop("crashed")
    BY <1>4 DEF AskOverflows
  <2> QED BY <1>2, <2>1, <2>2, StopIsEmpty DEF TableNext
<1> QED BY <1>3, <1>4

-----------------------------------------------------------------------------
(* The whole process *)

\* The end of a scan.
LEMMA PhaseEndsStep ==
    ASSUME HandsOn, PhaseEnds
    PROVE  UNCHANGED tableVars /\ HandsOn'
<1>1. /\ cur' \in Idx /\ conn' \in Idx /\ pc' \in {"select", "servers"}
      /\ ready' \subseteq Fd
  BY DEF PhaseEnds, HandsOn
<1> QED BY <1>1, EmptyHands DEF PhaseEnds

\* Peers and network touch neither the tables nor what is in hand.
LEMMA PeerStep ==
    ASSUME HandsOn,
           \/ \E fd \in Fd : Deliver(fd) \/ ServerAnswers(fd)
           \/ \E fd \in Fd, r \in Requests : Ask(fd, r)
           \/ \E fd \in Fd, how \in Fault : PeerStops(fd, how)
    PROVE  UNCHANGED tableVars /\ HandsOn'
<1>1. UNCHANGED envFrame
  BY DEF Deliver, ServerAnswers, Ask, PeerStops
<1>2. UNCHANGED <<tableVars, pc, cur, conn, ready>>
  BY <1>1 DEF envFrame, loopVars
<1> QED BY <1>2, SameHands

LEMMA ProxyStep ==
    ASSUME TableInv, HandsOn, [Next]_proxyVars
    PROVE  [TableNext]_tableVars /\ HandsOn'
<1>1. CASE Select
  BY <1>1, SelectStep
<1>2. CASE AcceptError
  BY <1>2, AcceptErrorStep
<1>3. CASE Serve
  <2>1. CASE \E j \in Idx : BeginClient(j) \/ BeginServer(j)
    BY <2>1, BeginClientStep, BeginServerStep
  <2>2. CASE RequestSteps
    BY <2>2, RequestStep
  <2>3. CASE ServersFull
    BY <2>3, ServersFullStep
  <2>4. CASE \E a \in SrvAddr : UseConn(a) \/ MakeConn(a)
    BY <2>4, UseConnStep, MakeConnStep
  <2>5. CASE (\E a \in SrvAddr : AskElsewhere(a)) \/ AskOverflows
    BY <2>5, AskElsewhereStep
  <2>6. CASE RejectRequest \/ Forward
    BY <2>6, ForwardStep
  <2>7. CASE ResponseSteps
    BY <2>7, ResponseStep
  <2>8. CASE PhaseEnds
    BY <2>8, PhaseEndsStep
  <2> QED BY <1>3, <2>1, <2>2, <2>3, <2>4, <2>5, <2>6, <2>7, <2>8
          DEF Serve, RequestSteps, ResponseSteps
<1>4. CASE \/ \E fd \in Fd : Deliver(fd) \/ ServerAnswers(fd)
           \/ \E fd \in Fd, r \in Requests : Ask(fd, r)
           \/ \E fd \in Fd, how \in Fault : PeerStops(fd, how)
  BY <1>4, PeerStep
<1>5. CASE UNCHANGED proxyVars
  <2>1. UNCHANGED <<tableVars, pc, cur, conn, ready>>
    BY <1>5 DEF proxyVars, loopVars
  <2> QED BY <2>1, SameHands
<1> QED BY <1>1, <1>2, <1>3, <1>4, <1>5 DEF Next

LEMMA ProxyInit == Init => TableInit /\ TableInv /\ HandsOn
BY ZeroSlot, InitInv DEF Init, HandsOn

\* The proxy keeps its tables correct: with every interleaving of clients and
\* servers, every fault of theirs and every content of unwritten memory, the
\* invariant of pool.c and conn.c holds.
THEOREM ProxyTablesCorrect == Spec => []TableInv
<1>1. TableInv /\ HandsOn /\ [Next]_proxyVars => TableInv' /\ HandsOn'
  BY ProxyStep, NextInv
<1> QED BY <1>1, ProxyInit, PTL DEF Spec

\* Whatever happens while the process waits in a read() or for the name server,
\* the client, the server and the conn it goes on with are in the tables and
\* belong together.
THEOREM HandsOnAlways == Spec => []HandsOn
<1>1. TableInv /\ HandsOn /\ [Next]_proxyVars => TableInv' /\ HandsOn'
  BY ProxyStep, NextInv
<1> QED BY <1>1, ProxyInit, PTL DEF Spec

-----------------------------------------------------------------------------
(* What a socket holds and carries *)

\* A request of which a socket carries an answer, or for which it owes one.
Carries(s, r) ==
    \/ \E i \in DOMAIN s.owed : s.owed[i] = r
    \/ \E i \in DOMAIN s.inb : s.inb[i].t = "hdr" /\ s.inb[i].r = r
    \/ \E i \in DOMAIN s.out : s.out[i].t = "hdr" /\ s.out[i].r = r

Idle(s) == \A r \in Request : ~Carries(s, r)

\* A socket that carries, or owes, no more than one answer.
NoHdr(q)  == \A i \in DOMAIN q : q[i].t # "hdr"
One(q)    == \A i, j \in DOMAIN q : q[i].t = "hdr" /\ q[j].t = "hdr" => i = j
Single(s) == /\ Len(s.owed) <= 1 /\ One(s.inb) /\ One(s.out)
             /\ s.owed # <<>> => NoHdr(s.inb) /\ NoHdr(s.out)
             /\ NoHdr(s.inb) \/ NoHdr(s.out)

\* t is a socket that carries nothing but what s does, and none of it twice if s
\* does not.
Keeps(t, s) == /\ t \in Socket
               /\ \A r \in Request : Carries(t, r) => Carries(s, r)
               /\ Single(s) => Single(t)

\* A socket is a record of three sequences and its state, and is not NULL.
LEMMA SocketParts ==
    ASSUME NEW s \in Socket
    PROVE  /\ s.inb \in Seq(Message) /\ s.out \in Seq(Message) /\ s.owed \in Seq(Request)
           /\ s.down \in {"up", "fin", "rst"} /\ s # NULL
BY NoValueAssumption DEF Socket

\* A new socket carries nothing.
LEMMA OpenSocket == Open \in Socket /\ (\A r \in Request : ~Carries(Open, r)) /\ Single(Open)
<1>1. DOMAIN <<>> = {} /\ Len(<<>>) = 0
  OBVIOUS
<1> QED BY <1>1 DEF Open, Socket, Carries, Single, One, NoHdr

\* A socket without an answer has no more than one.
LEMMA IdleSocket ==
    ASSUME NEW s \in Socket, Idle(s)
    PROVE  s.owed = <<>> /\ NoHdr(s.inb) /\ NoHdr(s.out) /\ Single(s)
<1>1. s.owed = <<>>
  <2> SUFFICES ASSUME s.owed # <<>> PROVE FALSE
    OBVIOUS
  <2>1. 1 \in DOMAIN s.owed /\ s.owed[1] \in Request
    BY SocketParts, EmptySeq, LenProperties, ElementOfSeq
  <2> QED BY <2>1 DEF Idle, Carries
<1>2. ASSUME NEW q \in Seq(Message), q = s.inb \/ q = s.out PROVE NoHdr(q)
  <2> SUFFICES ASSUME NEW i \in DOMAIN q, q[i].t = "hdr" PROVE FALSE
    BY DEF NoHdr
  <2>1. q[i] \in Message
    BY ElementOfSeq, LenProperties
  <2>2. q[i].r \in Request
    BY <2>1 DEF Message, IfLate, Header
  <2> QED BY <1>2, <2>2 DEF Idle, Carries
<1>3. NoHdr(s.inb) /\ NoHdr(s.out)
  BY <1>2, SocketParts
<1>4. One(s.inb) /\ One(s.out)
  BY <1>3 DEF One, NoHdr
<1> QED BY <1>1, <1>3, <1>4 DEF Single

\* Headers in the rest, in what is appended to, in two sequences joined, and in a
\* beginning of one.
LEMMA TailHdrs ==
    ASSUME NEW S, NEW q \in Seq(S), q # <<>>
    PROVE  /\ One(q) => One(Tail(q)) /\ (Head(q).t = "hdr" => NoHdr(Tail(q)))
           /\ NoHdr(q) => NoHdr(Tail(q)) /\ Head(q).t # "hdr"
<1>1. Len(q) \in Nat \ {0} /\ DOMAIN q = 1 .. Len(q)
  BY EmptySeq, LenProperties
<1>2. /\ Head(q) = q[1] /\ Len(Tail(q)) = Len(q) - 1
      /\ DOMAIN Tail(q) = 1 .. Len(Tail(q))
      /\ \A i \in 1 .. Len(Tail(q)) : Tail(q)[i] = q[i + 1]
  BY HeadTailProperties, LenProperties
<1>3. \A i \in DOMAIN Tail(q) : i \in Nat /\ i + 1 \in DOMAIN q /\ i + 1 # 1 /\ Tail(q)[i] = q[i + 1]
  BY <1>1, <1>2
<1>4. 1 \in DOMAIN q
  BY <1>1
<1>5. ASSUME One(q) PROVE One(Tail(q))
  <2> SUFFICES ASSUME NEW i \in DOMAIN Tail(q), NEW j \in DOMAIN Tail(q),
                      Tail(q)[i].t = "hdr", Tail(q)[j].t = "hdr"
               PROVE  i = j
    BY DEF One
  <2>1. i + 1 = j + 1
    BY <1>3, <1>5 DEF One
  <2> QED BY <1>3, <2>1
<1>6. ASSUME One(q), Head(q).t = "hdr" PROVE NoHdr(Tail(q))
  BY <1>2, <1>3, <1>4, <1>6 DEF One, NoHdr
<1> QED BY <1>2, <1>3, <1>4, <1>5, <1>6 DEF NoHdr

LEMMA AppendHdrs ==
    ASSUME NEW S, NEW q \in Seq(S), NEW e \in S
    PROVE  /\ NoHdr(q) => One(Append(q, e))
           /\ e.t # "hdr" /\ One(q) => One(Append(q, e))
           /\ e.t # "hdr" /\ NoHdr(q) => NoHdr(Append(q, e))
<1>1. /\ Len(Append(q, e)) = Len(q) + 1 /\ Len(q) \in Nat
      /\ \A i \in 1 .. Len(q) : Append(q, e)[i] = q[i]
      /\ Append(q, e)[Len(q) + 1] = e
  BY AppendProperties, LenProperties
<1>2. DOMAIN Append(q, e) = 1 .. Len(q) + 1 /\ DOMAIN q = 1 .. Len(q)
  BY <1>1, AppendProperties, LenProperties
<1>3. \A i \in DOMAIN Append(q, e) :
         (i \in DOMAIN q /\ Append(q, e)[i] = q[i]) \/ (i = Len(q) + 1 /\ Append(q, e)[i] = e)
  BY <1>1, <1>2
<1> QED BY <1>3 DEF NoHdr, One

LEMMA ConcatHdrs ==
    ASSUME NEW S, NEW q \in Seq(S), NEW u \in Seq(S)
    PROVE  /\ NoHdr(q) /\ One(u) => One(q \o u)
           /\ One(q) /\ NoHdr(u) => One(q \o u)
           /\ NoHdr(q) /\ NoHdr(u) => NoHdr(q \o u)
<1>1. /\ Len(q \o u) = Len(q) + Len(u)
      /\ Len(q) \in Nat /\ Len(u) \in Nat
      /\ \A i \in 1 .. Len(q) + Len(u) :
            (q \o u)[i] = IF i <= Len(q) THEN q[i] ELSE u[i - Len(q)]
  BY ConcatProperties, LenProperties
<1>2. /\ DOMAIN (q \o u) = 1 .. Len(q) + Len(u)
      /\ DOMAIN q = 1 .. Len(q) /\ DOMAIN u = 1 .. Len(u)
  BY <1>1, ConcatProperties, LenProperties
<1>3. \A i \in DOMAIN (q \o u) :
         /\ i \in Nat
         /\ \/ i \in DOMAIN q /\ (q \o u)[i] = q[i]
            \/ i - Len(q) \in DOMAIN u /\ (q \o u)[i] = u[i - Len(q)]
  BY <1>1, <1>2
<1>4. \A i, j \in Nat : i - Len(q) = j - Len(q) => i = j
  BY <1>1
<1> QED BY <1>3, <1>4 DEF NoHdr, One

LEMMA PrefixHdrs ==
    ASSUME NEW S, NEW q \in Seq(S), NEW p \in Prefixes(q) \cup {<<>>}
    PROVE  /\ p \in Seq(S) /\ \A i \in DOMAIN p : i \in DOMAIN q /\ p[i] = q[i]
           /\ (One(q) => One(p)) /\ (NoHdr(q) => NoHdr(p))
<1>1. p \in Seq(S) /\ \A i \in DOMAIN p : i \in DOMAIN q /\ p[i] = q[i]
  <2>1. CASE p = <<>>
    BY <2>1
  <2>2. CASE p \in Prefixes(q)
    <3>1. Len(q) \in Nat /\ DOMAIN q = 1 .. Len(q)
      BY LenProperties
    <3>2. PICK n \in 0 .. Len(q) : p = SubSeq(q, 1, n)
      BY <2>2 DEF Prefixes
    <3>3. \A i \in 1 .. n : q[i] \in S
      BY <3>1, ElementOfSeq
    <3>4. /\ p \in Seq(S) /\ Len(p) = (IF 1 <= n THEN n - 1 + 1 ELSE 0)
          /\ \A i \in 1 .. n - 1 + 1 : p[i] = q[1 + i - 1]
      BY <3>1, <3>2, <3>3, SubSeqProperties
    <3>5. DOMAIN p = 1 .. Len(p)
      BY <3>4, LenProperties
    <3> QED BY <3>1, <3>4, <3>5
  <2> QED BY <2>1, <2>2
<1> QED BY <1>1 DEF One, NoHdr

\* The empty sequence has no members.
LEMMA NoMembers == \A S : <<>> \in Seq(S) /\ DOMAIN <<>> = {}
OBVIOUS

\* Appending, and taking from the front, by the members of the result.
LEMMA AppendMembers ==
    ASSUME NEW S, NEW q \in Seq(S), NEW e \in S
    PROVE  /\ Append(q, e) \in Seq(S)
           /\ \A i \in DOMAIN Append(q, e) :
                 Append(q, e)[i] = e \/ \E j \in DOMAIN q : Append(q, e)[i] = q[j]
<1>1. /\ Append(q, e) \in Seq(S) /\ Len(Append(q, e)) = Len(q) + 1 /\ Len(q) \in Nat
      /\ \A i \in 1 .. Len(q) : Append(q, e)[i] = q[i]
      /\ Append(q, e)[Len(q) + 1] = e
  BY AppendProperties, LenProperties
<1>2. DOMAIN Append(q, e) = 1 .. Len(q) + 1 /\ DOMAIN q = 1 .. Len(q)
  BY <1>1, LenProperties
<1> QED BY <1>1, <1>2

LEMMA TailMembers ==
    ASSUME NEW S, NEW q \in Seq(S), q # <<>>
    PROVE  /\ Head(q) = q[1] /\ 1 \in DOMAIN q /\ q[1] \in S
           /\ Tail(q) \in Seq(S)
           /\ \A i \in DOMAIN Tail(q) : \E j \in DOMAIN q : Tail(q)[i] = q[j]
<1>1. Len(q) \in Nat \ {0} /\ DOMAIN q = 1 .. Len(q)
  BY EmptySeq, LenProperties
<1>2. /\ Tail(q) \in Seq(S) /\ Len(Tail(q)) = Len(q) - 1
      /\ \A i \in 1 .. Len(Tail(q)) : Tail(q)[i] = q[i + 1]
      /\ DOMAIN Tail(q) = 1 .. Len(Tail(q))
  BY HeadTailProperties, LenProperties
<1>3. q[1] \in S
  BY <1>1, ElementOfSeq
<1> QED BY <1>1, <1>2, <1>3

\* Joining two sequences.
LEMMA ConcatMembers ==
    ASSUME NEW S, NEW q \in Seq(S), NEW u \in Seq(S)
    PROVE  /\ q \o u \in Seq(S)
           /\ \A i \in DOMAIN (q \o u) :
                 \/ \E j \in DOMAIN q : (q \o u)[i] = q[j]
                 \/ \E j \in DOMAIN u : (q \o u)[i] = u[j]
<1>1. /\ q \o u \in Seq(S) /\ Len(q \o u) = Len(q) + Len(u)
      /\ Len(q) \in Nat /\ Len(u) \in Nat
      /\ \A i \in 1 .. Len(q) + Len(u) :
            (q \o u)[i] = IF i <= Len(q) THEN q[i] ELSE u[i - Len(q)]
  BY ConcatProperties, LenProperties
<1>2. /\ DOMAIN (q \o u) = 1 .. Len(q) + Len(u)
      /\ DOMAIN q = 1 .. Len(q) /\ DOMAIN u = 1 .. Len(u)
  BY <1>1, LenProperties
<1> QED BY <1>1, <1>2

\* Reading takes a line from a socket.
LEMMA TakenKeeps ==
    ASSUME NEW s \in Socket, s.inb # <<>>
    PROVE  /\ Keeps([s EXCEPT !.inb = Tail(@)], s)
           /\ Head(s.inb) \in Message
           /\ Head(s.inb).t = "hdr" => Carries(s, Head(s.inb).r)
           /\ Head(s.inb).t = "hdr" /\ Single(s) => Idle([s EXCEPT !.inb = Tail(@)])
<1>1. /\ Head(s.inb) = s.inb[1] /\ 1 \in DOMAIN s.inb /\ s.inb[1] \in Message
      /\ Tail(s.inb) \in Seq(Message)
      /\ \A i \in DOMAIN Tail(s.inb) : \E j \in DOMAIN s.inb : Tail(s.inb)[i] = s.inb[j]
  BY TailMembers, SocketParts
<1> DEFINE t == [s EXCEPT !.inb = Tail(@)]
<1>2. t \in Socket /\ t.inb = Tail(s.inb) /\ t.out = s.out /\ t.owed = s.owed
  BY <1>1 DEF Socket
<1> HIDE DEF t
<1>3. \A r \in Request : Carries(t, r) => Carries(s, r)
  BY <1>1, <1>2 DEF Carries
<1>4. Single(s) => Single(t)
  BY <1>2, TailHdrs, SocketParts DEF Single
<1>5. ASSUME Single(s), Head(s.inb).t = "hdr" PROVE Idle(t)
  <2>1. NoHdr(t.inb)
    BY <1>2, <1>5, TailHdrs, SocketParts DEF Single
  <2>2. ~NoHdr(s.inb)
    BY <1>1, <1>5 DEF NoHdr
  <2>3. s.owed = <<>> /\ NoHdr(s.out)
    BY <1>5, <2>2 DEF Single
  <2> QED BY <1>2, <2>1, <2>3, NoMembers DEF Idle, Carries, NoHdr
<1> QED BY <1>1, <1>2, <1>3, <1>4, <1>5 DEF Keeps, Carries, t

\* Of a line cut short the end stays in the socket.
LEMMA LeftKeeps ==
    ASSUME NEW s \in Socket, s.inb # <<>>, NEW m \in Message, m.t # "hdr"
    PROVE  /\ Keeps([s EXCEPT !.inb = [@ EXCEPT ![1] = m]], s)
           /\ Head(s.inb).t = "hdr" /\ Single(s) => Idle([s EXCEPT !.inb = [@ EXCEPT ![1] = m]])
<1> DEFINE q == [s.inb EXCEPT ![1] = m]
           t == [s EXCEPT !.inb = [@ EXCEPT ![1] = m]]
<1>1. /\ Head(s.inb) = s.inb[1] /\ 1 \in DOMAIN s.inb /\ s.inb \in Seq(Message)
  BY TailMembers, SocketParts
<1>2. /\ q \in Seq(Message) /\ DOMAIN q = DOMAIN s.inb /\ q[1] = m
      /\ \A i \in DOMAIN q : i # 1 => q[i] = s.inb[i]
  BY <1>1
<1>3. t \in Socket /\ t.inb = q /\ t.out = s.out /\ t.owed = s.owed
  BY <1>2 DEF Socket
<1> HIDE DEF q, t
<1>4. \A i \in DOMAIN q : q[i].t = "hdr" => i # 1 /\ i \in DOMAIN s.inb /\ q[i] = s.inb[i]
  BY <1>2
<1>5. \A r \in Request : Carries(t, r) => Carries(s, r)
  BY <1>3, <1>4 DEF Carries
<1>6. (One(s.inb) => One(q)) /\ (NoHdr(s.inb) => NoHdr(q))
  BY <1>4 DEF One, NoHdr
<1>7. Single(s) => Single(t)
  BY <1>3, <1>6 DEF Single
<1>8. ASSUME Single(s), Head(s.inb).t = "hdr" PROVE Idle(t)
  <2>1. ~NoHdr(s.inb) /\ One(s.inb)
    BY <1>1, <1>8 DEF NoHdr, Single
  <2>2. NoHdr(q)
    BY <1>1, <1>4, <1>8, <2>1 DEF NoHdr, One
  <2>3. s.owed = <<>> /\ NoHdr(s.out)
    BY <1>8, <2>1 DEF Single
  <2> QED BY <1>3, <2>2, <2>3, NoMembers DEF Idle, Carries, NoHdr
<1> QED BY <1>3, <1>5, <1>7, <1>8 DEF Keeps, t

\* The network carries a line on.
LEMMA DeliveredKeeps ==
    ASSUME NEW s \in Socket, s.out # <<>>
    PROVE  Keeps([s EXCEPT !.out = Tail(@), !.inb = Append(@, Head(s.out))], s)
<1> DEFINE e == Head(s.out)
           t == [s EXCEPT !.out = Tail(@), !.inb = Append(@, e)]
<1>1. /\ e = s.out[1] /\ 1 \in DOMAIN s.out /\ e \in Message
      /\ Tail(s.out) \in Seq(Message)
      /\ \A i \in DOMAIN Tail(s.out) : \E j \in DOMAIN s.out : Tail(s.out)[i] = s.out[j]
  BY TailMembers, SocketParts
<1> HIDE DEF e
<1>2. /\ Append(s.inb, e) \in Seq(Message)
      /\ \A i \in DOMAIN Append(s.inb, e) :
            \/ Append(s.inb, e)[i] = e
            \/ \E j \in DOMAIN s.inb : Append(s.inb, e)[i] = s.inb[j]
  BY <1>1, AppendMembers, SocketParts
<1>3. /\ t \in Socket /\ t.inb = Append(s.inb, e) /\ t.out = Tail(s.out)
      /\ t.owed = s.owed
  BY <1>1, <1>2 DEF Socket
<1> HIDE DEF t
<1>4. \A r \in Request : Carries(t, r) => Carries(s, r)
  <2> SUFFICES ASSUME NEW r \in Request, Carries(t, r) PROVE Carries(s, r)
    OBVIOUS
  <2>1. CASE \E i \in DOMAIN t.inb : t.inb[i].t = "hdr" /\ t.inb[i].r = r
    BY <1>1, <1>2, <1>3, <2>1 DEF Carries
  <2>2. CASE \E i \in DOMAIN t.out : t.out[i].t = "hdr" /\ t.out[i].r = r
    BY <1>1, <1>3, <2>2 DEF Carries
  <2>3. CASE \E i \in DOMAIN t.owed : t.owed[i] = r
    BY <1>3, <2>3 DEF Carries
  <2> QED BY <2>1, <2>2, <2>3 DEF Carries
<1>5. ASSUME Single(s) PROVE Single(t)
  <2>1. /\ One(s.inb) /\ One(s.out) /\ (NoHdr(s.inb) \/ NoHdr(s.out))
        /\ Len(s.owed) <= 1 /\ (s.owed # <<>> => NoHdr(s.inb) /\ NoHdr(s.out))
    BY <1>5 DEF Single
  <2>2. e = Head(s.out) /\ s.inb \in Seq(Message) /\ s.out \in Seq(Message)
    BY SocketParts DEF e
  <2>3. CASE e.t = "hdr"
    <3>1. NoHdr(t.out) /\ ~NoHdr(s.out)
      BY <1>3, <2>1, <2>2, <2>3, TailHdrs
    <3>2. One(t.inb)
      BY <1>1, <1>3, <2>1, <2>2, <3>1, AppendHdrs
    <3> QED BY <1>3, <2>1, <3>1, <3>2 DEF Single, NoHdr, One
  <2>4. CASE e.t # "hdr"
    <3>1. One(t.inb) /\ (NoHdr(s.inb) => NoHdr(t.inb))
      BY <1>1, <1>3, <2>1, <2>2, <2>4, AppendHdrs
    <3>2. One(t.out) /\ (NoHdr(s.out) => NoHdr(t.out))
      BY <1>3, <2>1, <2>2, TailHdrs
    <3> QED BY <1>3, <2>1, <3>1, <3>2 DEF Single
  <2> QED BY <2>3, <2>4
<1> QED BY <1>3, <1>4, <1>5 DEF Keeps, t, e

\* A server writes the response to the first request it owes one for, and may
\* close the connection with it.
LEMMA AnsweredKeeps ==
    ASSUME NEW s \in Socket, s.owed # <<>>, NEW cl \in BOOLEAN, cl => "close" \in Faults,
           NEW d \in {"up", "fin", "rst"}, NEW o \in {<<>>, Tail(s.owed)}
    PROVE  Keeps([s EXCEPT !.owed = o, !.down = d,
                           !.out = @ \o ResponseText(Head(s.owed), cl)], s)
<1> DEFINE q == Head(s.owed)
           u == ResponseText(q, cl)
           t == [s EXCEPT !.owed = o, !.down = d, !.out = @ \o u]
<1>1. /\ q = s.owed[1] /\ 1 \in DOMAIN s.owed /\ q \in Request
      /\ Tail(s.owed) \in Seq(Request)
      /\ \A i \in DOMAIN Tail(s.owed) : \E j \in DOMAIN s.owed : Tail(s.owed)[i] = s.owed[j]
  BY TailMembers, SocketParts
<1>2. o \in Seq(Request) /\ \A i \in DOMAIN o : \E j \in DOMAIN s.owed : o[i] = s.owed[j]
  <2>1. CASE o = <<>>
    BY <2>1, NoMembers
  <2>2. CASE o = Tail(s.owed)
    BY <1>1, <2>2
  <2> QED BY <2>1, <2>2
<1> HIDE DEF q
<1>3. /\ u \in Seq(Message)
      /\ \A i \in DOMAIN u : u[i].t = "hdr" => u[i].r = q
      /\ One(u)
  <2>1. u = <<[t |-> "hdr", r |-> q, close |-> cl], [t |-> "blank"], [t |-> "body"]>>
    BY DEF ResponseText
  <2>2. /\ [t |-> "hdr", r |-> q, close |-> cl] \in Message
        /\ [t |-> "blank"] \in Message /\ [t |-> "body"] \in Message
    BY <1>1 DEF Message, Header
  <2>3. u \in Seq(Message)
    BY <2>1, <2>2
  <2>4. /\ DOMAIN u = {1, 2, 3} /\ u[1].r = q
        /\ u[2].t = "blank" /\ u[3].t = "body"
    BY <2>1
  <2> HIDE DEF u
  <2> QED BY <2>3, <2>4 DEF One
<1> HIDE DEF u
<1>4. /\ s.out \o u \in Seq(Message)
      /\ \A i \in DOMAIN (s.out \o u) :
            \/ \E j \in DOMAIN s.out : (s.out \o u)[i] = s.out[j]
            \/ \E j \in DOMAIN u : (s.out \o u)[i] = u[j]
  BY <1>3, ConcatMembers, SocketParts
<1>5. /\ t \in Socket /\ t.inb = s.inb /\ t.out = s.out \o u /\ t.owed = o
  BY <1>2, <1>4 DEF Socket
<1> HIDE DEF t
<1>6. \A r \in Request : Carries(t, r) => Carries(s, r)
  <2> SUFFICES ASSUME NEW r \in Request, Carries(t, r) PROVE Carries(s, r)
    OBVIOUS
  <2>1. CASE \E i \in DOMAIN t.inb : t.inb[i].t = "hdr" /\ t.inb[i].r = r
    BY <1>5, <2>1 DEF Carries
  <2>2. CASE \E i \in DOMAIN t.out : t.out[i].t = "hdr" /\ t.out[i].r = r
    BY <1>1, <1>3, <1>4, <1>5, <2>2 DEF Carries
  <2>3. CASE \E i \in DOMAIN t.owed : t.owed[i] = r
    BY <1>2, <1>5, <2>3 DEF Carries
  <2> QED BY <2>1, <2>2, <2>3 DEF Carries
<1>7. ASSUME Single(s) PROVE Single(t)
  <2>1. NoHdr(s.inb) /\ NoHdr(s.out) /\ One(s.inb) /\ Len(s.owed) <= 1
    BY <1>7 DEF Single
  <2>2. One(t.out)
    BY <1>3, <1>5, <2>1, ConcatHdrs, SocketParts
  <2>3. o = <<>>
    <3>1. Len(s.owed) = 1 /\ Len(Tail(s.owed)) = 0 /\ Tail(s.owed) \in Seq(Request)
      <4>1. Len(s.owed) \in Nat /\ Len(s.owed) # 0
        BY SocketParts, EmptySeq, LenProperties
      <4>2. Tail(s.owed) \in Seq(Request) /\ Len(Tail(s.owed)) = Len(s.owed) - 1
        BY SocketParts, HeadTailProperties
      <4>3. \A n \in Nat : n # 0 /\ n <= 1 => n = 1 /\ n - 1 = 0
        OBVIOUS
      <4> QED BY <2>1, <4>1, <4>2, <4>3, Zenon
    <3> QED BY <3>1, EmptySeq
  <2>4. Len(o) <= 1
    BY <2>3
  <2> QED BY <1>5, <2>1, <2>2, <2>3, <2>4 DEF Single
<1> QED BY <1>5, <1>6, <1>7 DEF Keeps, t, u, q

\* A peer that stops leaves a part of what it has written under way.
LEMMA StoppedKeeps ==
    ASSUME NEW s \in Socket, NEW d \in {"up", "fin", "rst"},
           NEW p \in Prefixes(s.out) \cup {<<>>}, NEW o \in {s.owed, <<>>}
    PROVE  Keeps([s EXCEPT !.down = d, !.out = p, !.owed = o], s)
<1>1. /\ p \in Seq(Message) /\ (\A i \in DOMAIN p : \E j \in DOMAIN s.out : p[i] = s.out[j])
      /\ (One(s.out) => One(p)) /\ (NoHdr(s.out) => NoHdr(p))
  BY PrefixHdrs, SocketParts
<1>2. o \in Seq(Request) /\ \A i \in DOMAIN o : \E j \in DOMAIN s.owed : o[i] = s.owed[j]
  <2>1. CASE o = <<>>
    BY <2>1, NoMembers
  <2>2. CASE o = s.owed
    BY <2>2, SocketParts
  <2> QED BY <2>1, <2>2
<1> DEFINE t == [s EXCEPT !.down = d, !.out = p, !.owed = o]
<1>3. t \in Socket /\ t.inb = s.inb /\ t.out = p /\ t.owed = o
  BY <1>1, <1>2 DEF Socket
<1> HIDE DEF t
<1>4. \A r \in Request : Carries(t, r) => Carries(s, r)
  <2> SUFFICES ASSUME NEW r \in Request, Carries(t, r) PROVE Carries(s, r)
    OBVIOUS
  <2>1. CASE \E i \in DOMAIN t.inb : t.inb[i].t = "hdr" /\ t.inb[i].r = r
    BY <1>3, <2>1 DEF Carries
  <2>2. CASE \E i \in DOMAIN t.out : t.out[i].t = "hdr" /\ t.out[i].r = r
    BY <1>1, <1>3, <2>2 DEF Carries
  <2>3. CASE \E i \in DOMAIN t.owed : t.owed[i] = r
    BY <1>2, <1>3, <2>3 DEF Carries
  <2> QED BY <2>1, <2>2, <2>3 DEF Carries
<1>5. ASSUME Single(s) PROVE Single(t)
  <2>1. Len(o) <= 1 /\ (o # <<>> => s.owed # <<>>)
    <3>1. Len(<<>>) <= 1
      OBVIOUS
    <3> QED BY <1>5, <3>1 DEF Single
  <2> QED BY <1>1, <1>3, <1>5, <2>1 DEF Single
<1> QED BY <1>3, <1>4, <1>5 DEF Keeps, t

\* The lines of a request are no headers of a response.
LEMMA TextMessages ==
    ASSUME NEW q \in Requests
    PROVE  /\ RequestText(q) \in Seq(Message)
           /\ \A i \in DOMAIN RequestText(q) : RequestText(q)[i].t # "hdr"
<1> DEFINE u == RequestText(q)
<1>1. /\ [t |-> "line", r |-> q] \in Message
      /\ [t |-> "host"] \in Message /\ [t |-> "blank"] \in Message
  BY DEF Message
<1>2. CASE q.kind = "nohost"
  <2>0. <<[t |-> "line", r |-> q]>> \in Seq(Message)
    BY <1>1
  <2>1. u = <<[t |-> "line", r |-> q]>> \o <<[t |-> "blank"]>>
    <3>1. <<[t |-> "line", r |-> q]>> \o <<>> = <<[t |-> "line", r |-> q]>>
      BY <2>0, ConcatEmptySeq
    <3>2. u = <<[t |-> "line", r |-> q]>> \o <<>> \o <<[t |-> "blank"]>>
      BY <1>2 DEF RequestText
    <3> QED BY <3>1, <3>2
  <2>2. u \in Seq(Message) /\ DOMAIN u = {1, 2} /\ u[1].t = "line" /\ u[2].t = "blank"
    BY <1>1, <2>1
  <2> HIDE DEF u
  <2>3. u \in Seq(Message) /\ \A i \in DOMAIN u : u[i].t # "hdr"
    BY <2>2
  <2> QED BY <2>3 DEF u
<1>3. CASE q.kind # "nohost"
  <2>1. u = <<[t |-> "line", r |-> q]>> \o <<[t |-> "host"]>> \o <<[t |-> "blank"]>>
    BY <1>3 DEF RequestText
  <2>2. u \in Seq(Message) /\ DOMAIN u = {1, 2, 3}
        /\ u[1].t = "line" /\ u[2].t = "host" /\ u[3].t = "blank"
    BY <1>1, <2>1
  <2> HIDE DEF u
  <2>3. u \in Seq(Message) /\ \A i \in DOMAIN u : u[i].t # "hdr"
    BY <2>2
  <2> QED BY <2>3 DEF u
<1> QED BY <1>2, <1>3

\* A browser writes the lines of a request.
LEMMA AskedKeeps ==
    ASSUME NEW s \in Socket, NEW q \in Requests
    PROVE  Keeps([s EXCEPT !.out = @ \o RequestText(q)], s)
<1> DEFINE u == RequestText(q)
           t == [s EXCEPT !.out = @ \o u]
<1>1. u \in Seq(Message) /\ \A i \in DOMAIN u : u[i].t # "hdr"
  BY TextMessages
<1> HIDE DEF u
<1>2. /\ s.out \o u \in Seq(Message)
      /\ \A i \in DOMAIN (s.out \o u) :
            \/ \E j \in DOMAIN s.out : (s.out \o u)[i] = s.out[j]
            \/ \E j \in DOMAIN u : (s.out \o u)[i] = u[j]
  BY <1>1, ConcatMembers, SocketParts
<1>3. t \in Socket /\ t.inb = s.inb /\ t.out = s.out \o u /\ t.owed = s.owed
  BY <1>2 DEF Socket
<1> HIDE DEF t
<1>4. \A r \in Request : Carries(t, r) => Carries(s, r)
  BY <1>1, <1>2, <1>3 DEF Carries
<1>5. (One(s.out) => One(t.out)) /\ (NoHdr(s.out) => NoHdr(t.out))
  BY <1>1, <1>3, ConcatHdrs, SocketParts DEF NoHdr
<1>6. Single(s) => Single(t)
  BY <1>3, <1>5 DEF Single
<1> QED BY <1>3, <1>4, <1>6 DEF Keeps, t, u

\* The proxy writes a request.
LEMMA WrittenKeeps ==
    ASSUME NEW s \in Socket, NEW q \in Request
    PROVE  LET t == [s EXCEPT !.owed = Append(@, q)]
           IN  /\ t \in Socket /\ (Idle(s) => Single(t))
               /\ \A r \in Request : Carries(t, r) => r = q \/ Carries(s, r)
<1> DEFINE t == [s EXCEPT !.owed = Append(@, q)]
<1>1. /\ Append(s.owed, q) \in Seq(Request)
      /\ \A i \in DOMAIN Append(s.owed, q) :
            \/ Append(s.owed, q)[i] = q
            \/ \E j \in DOMAIN s.owed : Append(s.owed, q)[i] = s.owed[j]
  BY AppendMembers, SocketParts
<1>2. t \in Socket /\ t.inb = s.inb /\ t.out = s.out /\ t.owed = Append(s.owed, q)
  BY <1>1 DEF Socket
<1> HIDE DEF t
<1>3. \A r \in Request : Carries(t, r) => r = q \/ Carries(s, r)
  BY <1>1, <1>2 DEF Carries
<1>4. ASSUME Idle(s) PROVE Single(t)
  <2>1. s.owed = <<>> /\ NoHdr(s.inb) /\ NoHdr(s.out)
    BY <1>4, IdleSocket
  <2>2. Len(t.owed) = 1
    BY <1>2, <2>1
  <2> QED BY <1>2, <2>1, <2>2 DEF Single, One, NoHdr
<1> QED BY <1>2, <1>3, <1>4 DEF t

-----------------------------------------------------------------------------
(* The sockets and the variables of a session *)

ConnFd(k) == server_l[conn_l[k].serv_idx].fd
Sockets == [Fd -> Socket \cup {NULL}]

\* What the variables of a session hold, and when there is a request or a response
\* in hand.
SessionTypes ==
    /\ sock \in Sockets
    /\ req \in Reading \cup {NULL} /\ res \in Header \cup {NULL}
    /\ nolist \in [kind : {"nolist", "junk"}, video : Videos] \cup {NULL}
    /\ pc \in {"req_hdrs", "lookup", "forward"} => req # NULL
    /\ pc = "res_body" => res # NULL
    /\ pc \in {"select", "clients", "servers"} \cup ClientPhase => res = NULL

\* The socket served is one that select() has reported.
ServedReported ==
    /\ pc \in ClientPhase => client_l[cur].fd \in ready
    /\ pc \in ServerPhase => server_l[cur].fd \in ready

\* The sockets that are open are those of the clients and servers in the tables.
SocketsHeld == \A fd \in Fd : sock[fd] # NULL <=> fd \in ClientFds \cup ServerFds

SocketsInv == SessionTypes /\ ServedReported /\ SocketsHeld

\* A peer goes on as it was, or closes the connection in order.
Goes(t, s) == t.down \in {s.down, "fin"}

\* s has the sockets of u, which carry nothing else.
SameSockets(s, u) ==
    /\ s \in Sockets
    /\ \A fd \in Fd : /\ s[fd] # NULL <=> u[fd] # NULL
                      /\ u[fd] # NULL => Keeps(s[fd], u[fd]) /\ Goes(s[fd], u[fd])

\* The peer at fd resets the connection.
Resets(fd) == PeerStops(fd, "srv_rst") \/ PeerStops(fd, "clit_rst")

\* After the step the sockets carry what they did before, and those in F may carry q.
Adds(F, q) ==
    \A fd \in Fd : sock'[fd] # NULL =>
       /\ \A r \in Request : Carries(sock'[fd], r) =>
             (sock[fd] # NULL /\ Carries(sock[fd], r)) \/ (fd \in F /\ r = q)
       /\ (sock[fd] # NULL => Single(sock[fd]) /\ (fd \in F => Idle(sock[fd])))
             => Single(sock'[fd])
       /\ sock[fd] # NULL => Goes(sock'[fd], sock[fd]) \/ Resets(fd)
       /\ sock[fd] = NULL => sock'[fd].down = "up"

LEMMA KeptSockets ==
    ASSUME sock \in Sockets
    PROVE  SameSockets(sock, sock)
BY DEF SameSockets, Sockets, Keeps, Goes

LEMMA OneSocket ==
    ASSUME sock \in Sockets, NEW fd \in Fd, sock[fd] # NULL,
           NEW t, Keeps(t, sock[fd]), Goes(t, sock[fd])
    PROVE  SameSockets([sock EXCEPT ![fd] = t], sock)
<1>1. t \in Socket /\ t # NULL
  BY SocketParts DEF Keeps
<1> QED BY <1>1 DEF SameSockets, Sockets, Keeps, Goes

LEMMA SameAdds ==
    ASSUME sock \in Sockets, SameSockets(sock', sock)
    PROVE  sock' \in Sockets /\ Adds({}, NULL)
BY DEF SameSockets, Adds, Keeps, Idle

\* A line is read from a socket.
LEMMA TakeSockets ==
    ASSUME sock \in Sockets, NEW fd \in Fd, sock[fd] # NULL, CanTake(fd)
    PROVE  /\ SameSockets(Take(fd), sock) /\ Line(fd) \in Message
           /\ Line(fd).t = "hdr" => Carries(sock[fd], Line(fd).r)
           /\ Line(fd).t = "hdr" /\ Single(sock[fd]) => Idle(Take(fd)[fd])
           /\ Take(fd)[fd].down = sock[fd].down /\ \A f \in Fd \ {fd} : Take(fd)[f] = sock[f]
<1>1. sock[fd] \in Socket /\ sock[fd].inb # <<>>
  BY DEF Sockets, CanTake
<1>2. Take(fd) = [sock EXCEPT ![fd] = [sock[fd] EXCEPT !.inb = Tail(@)]]
  BY DEF Take
<1> DEFINE t == [sock[fd] EXCEPT !.inb = Tail(@)]
<1>3. /\ Keeps(t, sock[fd]) /\ Head(sock[fd].inb) \in Message
      /\ Head(sock[fd].inb).t = "hdr" => Carries(sock[fd], Head(sock[fd].inb).r)
      /\ Head(sock[fd].inb).t = "hdr" /\ Single(sock[fd]) => Idle(t)
  BY <1>1, TakenKeeps
<1>4. t.down = sock[fd].down
  BY <1>1 DEF Socket
<1> HIDE DEF t
<1>5. Take(fd) = [sock EXCEPT ![fd] = t]
  BY <1>2 DEF t
<1>6. SameSockets(Take(fd), sock)
  BY <1>3, <1>4, <1>5, OneSocket DEF Goes
<1>7. Take(fd)[fd] = t /\ \A f \in Fd \ {fd} : Take(fd)[f] = sock[f]
  BY <1>5 DEF Sockets
<1> QED BY <1>3, <1>4, <1>6, <1>7 DEF Line

\* A line is read in part.
LEMMA LeaveSockets ==
    ASSUME sock \in Sockets, NEW fd \in Fd, sock[fd] # NULL, CanTake(fd),
           NEW m \in Message, m.t # "hdr"
    PROVE  /\ SameSockets(Leave(fd, m), sock)
           /\ Line(fd).t = "hdr" /\ Single(sock[fd]) => Idle(Leave(fd, m)[fd])
           /\ Leave(fd, m)[fd].down = sock[fd].down
           /\ \A f \in Fd \ {fd} : Leave(fd, m)[f] = sock[f]
<1>1. sock[fd] \in Socket /\ sock[fd].inb # <<>>
  BY DEF Sockets, CanTake
<1> DEFINE t == [sock[fd] EXCEPT !.inb = [@ EXCEPT ![1] = m]]
<1>2. Leave(fd, m) = [sock EXCEPT ![fd] = t]
  BY DEF Leave
<1>3. Keeps(t, sock[fd]) /\ (Head(sock[fd].inb).t = "hdr" /\ Single(sock[fd]) => Idle(t))
  BY <1>1, LeftKeeps
<1>4. t.down = sock[fd].down
  BY <1>1 DEF Socket
<1> HIDE DEF t
<1>5. SameSockets(Leave(fd, m), sock)
  BY <1>2, <1>3, <1>4, OneSocket DEF Goes
<1>6. Leave(fd, m)[fd] = t /\ \A f \in Fd \ {fd} : Leave(fd, m)[f] = sock[f]
  BY <1>2 DEF Sockets
<1> QED BY <1>3, <1>4, <1>5, <1>6 DEF Line

\* What stays of a line is a line of the streams.
LEMMA RestMessage ==
    ASSUME NEW fd, IsCut(fd), NEW m \in Rest(fd)
    PROVE  m \in Message /\ m.t \in {"rest", "blank"} /\ m.t # "hdr"
BY DEF Rest, IsCut, Message, IfLate

\* A line cut short is there to be read.
LEMMA CutThere ==
    ASSUME NEW fd \in Fd, sock[fd] \in Socket, IsCut(fd)
    PROVE  CanTake(fd)
<1>1. Len(<<>>) # 1
  OBVIOUS
<1> QED BY <1>1 DEF IsCut, CanTake

\* As long as the tables stay, so do the sockets.
LEMMA SameHeld ==
    ASSUME SocketsHeld, SameSockets(sock', sock), ClientFds' = ClientFds, ServerFds' = ServerFds
    PROVE  SocketsHeld'
BY DEF SocketsHeld, SameSockets

LEMMA SameFds ==
    ASSUME UNCHANGED tableVars
    PROVE  ClientFds' = ClientFds /\ ServerFds' = ServerFds
BY DEF tableVars, clientVars, serverVars, ClientFds, ServerFds, Live

\* close_conn closes the sockets of the entries that it frees, and no others.
LEMMA DropSockets ==
    ASSUME TableInv, HandsOn, sock \in Sockets, SocketsHeld,
           NEW s, SameSockets(s, sock), CloseConn(conn), sock' = Surviving(s)
    PROVE  sock' \in Sockets /\ Adds({}, NULL) /\ SocketsHeld'
<1>1. \A fd \in Fd : sock'[fd] = IF fd \in open_fds' THEN s[fd] ELSE NULL
  BY DEF Surviving
<1>2. sock' \in Sockets
  BY DEF Surviving, SameSockets, Sockets
<1>3. Adds({}, NULL)
  BY <1>1 DEF Adds, SameSockets, Keeps, Goes
<1>4. PICK cfd, sfd :
         /\ cfd \in ClientFds /\ (sfd \in ServerFds \/ sfd = -1)
         /\ ServerFds' = ServerFds \ {sfd}
         /\ \/ ClientFds' = ClientFds \ {cfd} /\ open_fds' = open_fds \ {cfd, sfd}
            \/ ClientFds' = ClientFds /\ open_fds' = open_fds \ {sfd}
  <2>1. conn \in Idx
    BY DEF HandsOn
  <2> DEFINE c == conn_l[conn].clit_idx
             t == conn_l[conn].serv_idx
  <2>2. /\ c \in Live(client_l) /\ t \in Live(server_l)
        /\ ServerFds' = ServerFds \ {server_l[t].fd}
        /\ \/ /\ ClientFds' = ClientFds \ {client_l[c].fd}
              /\ open_fds' = open_fds \ {client_l[c].fd, server_l[t].fd}
           \/ ClientFds' = ClientFds /\ open_fds' = open_fds \ {server_l[t].fd}
    BY <2>1, CloseConnInv
  <2>3. client_l[c].fd \in ClientFds /\ (server_l[t].fd \in ServerFds \/ server_l[t].fd = -1)
    BY <2>2 DEF ClientFds, ServerFds
  <2> QED BY <2>2, <2>3
<1>5. /\ ClientFds \cup ServerFds \subseteq open_fds /\ ClientFds \cap ServerFds = {}
      /\ -1 \notin ClientFds \cup ServerFds
  <2>1. ClientFds \cup ServerFds \subseteq open_fds /\ ClientFds \cap ServerFds = {}
    BY DEF TableInv, FdOwnership
  <2>2. -1 \notin open_fds
    BY DEF TableInv, TypeOK, Fd
  <2> QED BY <2>1, <2>2
<1>6. \A fd \in Fd : fd \in open_fds' /\ fd \in ClientFds \cup ServerFds
                        <=> fd \in ClientFds' \cup ServerFds'
  BY <1>4, <1>5
<1>7. \A fd \in Fd : s[fd] # NULL <=> fd \in ClientFds \cup ServerFds
  BY DEF SameSockets, SocketsHeld
<1> QED BY <1>1, <1>2, <1>3, <1>6, <1>7 DEF SocketsHeld

\* A new connection gets the descriptor of no other socket.
LEMMA NewSocket ==
    ASSUME TableInv, sock \in Sockets, SocketsHeld, NEW s, SameSockets(s, sock),
           NEW r \in Fd, r \notin open_fds,
           sock' = [s EXCEPT ![r] = Open],
           ClientFds' \cup ServerFds' = ClientFds \cup ServerFds \cup {r}
    PROVE  sock' \in Sockets /\ Adds({}, NULL) /\ SocketsHeld' /\ sock[r] = NULL
<1>1. /\ Open \in Socket /\ Open # NULL /\ (\A q \in Request : ~Carries(Open, q))
      /\ Single(Open) /\ Open.down = "up"
  BY OpenSocket, SocketParts DEF Open
<1>2. sock' \in Sockets /\ sock'[r] = Open /\ \A fd \in Fd \ {r} : sock'[fd] = s[fd]
  BY <1>1 DEF SameSockets, Sockets
<1>4. sock[r] = NULL
  BY DEF SocketsHeld, TableInv, FdOwnership
<1>3. Adds({}, NULL)
  BY <1>1, <1>2, <1>4 DEF Adds, SameSockets, Keeps
<1> QED BY <1>1, <1>2, <1>3, <1>4 DEF SocketsHeld, SameSockets

-----------------------------------------------------------------------------
(* How the steps leave the sockets and the variables of a session *)

\* client2server or server2client returns.
LEMMA BackTypes ==
    ASSUME SessionTypes, NEW phase \in {"clients", "servers"}, BackTo(phase),
           sock' \in Sockets,
           nolist' \in [kind : {"nolist", "junk"}, video : Videos] \cup {NULL}
    PROVE  SessionTypes' /\ ServedReported'
<1>1. /\ pc' = phase /\ pc' \notin ClientPhase \cup ServerPhase
      /\ req' = NULL /\ res' = NULL
  BY DEF BackTo, ClientPhase, ServerPhase
<1> QED BY <1>1 DEF SessionTypes, ServedReported, ClientPhase

LEMMA StopTypes ==
    ASSUME SessionTypes, NEW how \in {"hung", "crashed"}, Stop(how)
    PROVE  SessionTypes' /\ ServedReported' /\ sock' = sock
BY DEF Stop, peerVars, SessionTypes, ServedReported, ClientPhase, ServerPhase

\* A step that stops the process leaves all that the sockets hold.
LEMMA StopSockets ==
    ASSUME SocketsInv, NEW how \in {"hung", "crashed"}, Stop(how),
           ClientFds' = ClientFds, ServerFds' = ServerFds
    PROVE  SocketsInv' /\ Adds({}, NULL)
BY StopTypes, KeptSockets, SameHeld, SameAdds DEF SocketsInv, SessionTypes

\* A return after reading at most one line.
LEMMA BackSockets ==
    ASSUME SocketsInv, NEW phase \in {"clients", "servers"}, BackTo(phase),
           SameSockets(sock', sock), UNCHANGED <<tableVars, nolist>>
    PROVE  SocketsInv' /\ Adds({}, NULL)
<1>1. sock \in Sockets /\ sock' \in Sockets /\ Adds({}, NULL)
  BY SameAdds DEF SocketsInv, SessionTypes
<1>2. SocketsHeld'
  BY SameHeld, SameFds DEF SocketsInv
<1>3. SessionTypes' /\ ServedReported'
  BY <1>1, BackTypes DEF SocketsInv, SessionTypes
<1> QED BY <1>1, <1>2, <1>3 DEF SocketsInv

\* Reading on in client2server, with the request req'.
LEMMA OnClientSockets ==
    ASSUME SocketsInv, UNCHANGED <<tableVars, cur, ready, nolist, res>>, pc \in ClientPhase,
           pc' \in ClientPhase, pc' # "req_line", req' \in Reading,
           SameSockets(sock', sock)
    PROVE  SocketsInv' /\ Adds({}, NULL)
<1>1. sock' \in Sockets /\ Adds({}, NULL) /\ SocketsHeld'
  BY SameHeld, SameFds, SameAdds DEF SocketsInv, SessionTypes
<1>2. client_l' = client_l /\ server_l' = server_l
  BY DEF tableVars, clientVars, serverVars
<1>3. SessionTypes'
  BY <1>1, NoValueAssumption DEF SocketsInv, SessionTypes, ClientPhase
<1>4. ServedReported'
  BY <1>2 DEF SocketsInv, ServedReported, ClientPhase, ServerPhase
<1> QED BY <1>1, <1>3, <1>4 DEF SocketsInv

\* Reading on in server2client, with the response res'.
LEMMA OnServerSockets ==
    ASSUME SocketsInv, UNCHANGED <<tableVars, cur, ready, nolist, req>>, pc \in ServerPhase,
           pc' \in ServerPhase, res' \in Header \/ (pc' = "res_hdrs" /\ res' = NULL),
           SameSockets(sock', sock)
    PROVE  SocketsInv' /\ Adds({}, NULL)
<1>1. sock' \in Sockets /\ Adds({}, NULL) /\ SocketsHeld'
  BY SameHeld, SameFds, SameAdds DEF SocketsInv, SessionTypes
<1>2. client_l' = client_l /\ server_l' = server_l
  BY DEF tableVars, clientVars, serverVars
<1>3. SessionTypes'
  BY <1>1, NoValueAssumption DEF SocketsInv, SessionTypes, ServerPhase, ClientPhase
<1>4. ServedReported'
  BY <1>2 DEF SocketsInv, ServedReported, ClientPhase, ServerPhase
<1> QED BY <1>1, <1>3, <1>4 DEF SocketsInv

\* close_conn after reading at most one line.
LEMMA DroppedSockets ==
    ASSUME TableInv, HandsOn, SocketsInv, NEW phase \in {"clients", "servers"},
           NEW s, SameSockets(s, sock), Drop(phase, s)
    PROVE  SocketsInv' /\ Adds({}, NULL)
<1>1. CloseConn(conn) /\ sock' = Surviving(s) /\ BackTo(phase) /\ nolist' = nolist
  BY DEF Drop
<1>2. sock' \in Sockets /\ Adds({}, NULL) /\ SocketsHeld'
  BY <1>1, DropSockets DEF SocketsInv, SessionTypes
<1>3. SessionTypes' /\ ServedReported'
  BY <1>1, <1>2, BackTypes DEF SocketsInv, SessionTypes
<1> QED BY <1>2, <1>3 DEF SocketsInv

\* The sockets that client2server and server2client read are there.
LEMMA ReadSocket ==
    ASSUME HandsOn, SocketsInv
    PROVE  /\ pc \in ClientPhase =>
                 /\ clit_fd \in Fd /\ sock[clit_fd] \in Socket /\ sock[clit_fd] # NULL
                 /\ client_l[cur] # NULL /\ cur \in Idx
           /\ pc \in ServerPhase =>
                 /\ serv_fd \in Fd /\ sock[serv_fd] \in Socket /\ sock[serv_fd] # NULL
                 /\ ConnFd(conn) = serv_fd /\ server_l[cur] # NULL
                 /\ conn_l[conn] # NULL /\ cur \in Idx /\ conn \in Idx
<1>1. ASSUME pc \in ClientPhase
      PROVE  /\ clit_fd \in Fd /\ sock[clit_fd] \in Socket /\ sock[clit_fd] # NULL
             /\ client_l[cur] # NULL /\ cur \in Idx
  <2>1. cur \in Idx /\ client_l[cur] # NULL /\ clit_fd \in ready /\ ready \subseteq Fd
    BY <1>1 DEF HandsOn, ClientPhase, SocketsInv, ServedReported, clit_fd
  <2>2. clit_fd \in ClientFds
    BY <2>1 DEF ClientFds, Live, clit_fd
  <2> QED BY <2>1, <2>2 DEF SocketsInv, SocketsHeld, SessionTypes, Sockets
<1>2. ASSUME pc \in ServerPhase
      PROVE  /\ serv_fd \in Fd /\ sock[serv_fd] \in Socket /\ sock[serv_fd] # NULL
             /\ ConnFd(conn) = serv_fd /\ server_l[cur] # NULL
             /\ conn_l[conn] # NULL /\ cur \in Idx /\ conn \in Idx
  <2>1. /\ cur \in Idx /\ server_l[cur] # NULL /\ serv_fd \in ready /\ ready \subseteq Fd
        /\ conn \in Idx /\ conn_l[conn] # NULL /\ conn_l[conn].serv_idx = cur
    BY <1>2 DEF HandsOn, ServerPhase, SocketsInv, ServedReported, serv_fd
  <2>2. serv_fd \in ServerFds
    BY <2>1 DEF ServerFds, Live, serv_fd, Fd
  <2> QED BY <2>1, <2>2 DEF SocketsInv, SocketsHeld, SessionTypes, Sockets, ConnFd, serv_fd
<1> QED BY <1>1, <1>2

-----------------------------------------------------------------------------
(* The steps one by one *)

\* select() returns, and main may accept a connection.
LEMMA SelectSockets ==
    ASSUME TableInv, HandsOn, SocketsInv, Select
    PROVE  SocketsInv' /\ Adds({}, NULL)
<1>1. pc' = "clients" /\ pc = "select" /\ UNCHANGED <<req, res, nolist>>
  BY DEF Select
<1>2. sock' \in Sockets /\ Adds({}, NULL) /\ SocketsHeld'
  <2>1. CASE UNCHANGED <<tableVars, sock>>
    BY <2>1, SameFds, KeptSockets, SameHeld, SameAdds DEF SocketsInv, SessionTypes
  <2>2. CASE \E fd \in Fd, a \in ClitAddr :
                Accept(fd, a) /\ sock' = [sock EXCEPT ![fd] = Open]
    <3>1. PICK fd \in Fd, a \in Addr : Accept(fd, a) /\ sock' = [sock EXCEPT ![fd] = Open]
      BY <2>2, ProxyAssumption
    <3>2. ClientFds' = ClientFds \cup {fd} /\ ServerFds' = ServerFds /\ fd \notin open_fds
      BY <3>1, AcceptInv DEF Accept, LowestFreeFd
    <3> QED BY <3>1, <3>2, KeptSockets, NewSocket DEF SocketsInv, SessionTypes
  <2> QED BY <2>1, <2>2 DEF Select
<1>3. SessionTypes' /\ ServedReported'
  BY <1>1, <1>2 DEF SocketsInv, SessionTypes, ServedReported, ClientPhase, ServerPhase
<1> QED BY <1>2, <1>3 DEF SocketsInv

\* accept() fails: only the listening socket is closed.
LEMMA AcceptErrorSockets ==
    ASSUME TableInv, HandsOn, SocketsInv, AcceptError
    PROVE  SocketsInv' /\ Adds({}, NULL)
<1>1. /\ UNCHANGED <<clientVars, serverVars, connVars, selectVars>>
      /\ UNCHANGED <<sock, pc, req, res, nolist, cur, ready>>
  BY DEF AcceptError, AcceptFails, loopVars, peerVars
<1>2. ClientFds' = ClientFds /\ ServerFds' = ServerFds
  BY <1>1, SameTables
<1>3. SocketsHeld' /\ Adds({}, NULL) /\ sock' \in Sockets
  BY <1>1, <1>2, KeptSockets, SameHeld, SameAdds DEF SocketsInv, SessionTypes
<1>4. SessionTypes' /\ ServedReported'
  BY <1>1, <1>3 DEF SocketsInv, SessionTypes, ServedReported, clientVars, serverVars
<1> QED BY <1>3, <1>4 DEF SocketsInv

\* serve_clients or serve_servers comes to a socket that was reported.
LEMMA BeginSockets ==
    ASSUME TableInv, HandsOn, SocketsInv, NEW j \in Idx, BeginClient(j) \/ BeginServer(j)
    PROVE  SocketsInv' /\ Adds({}, NULL)
<1>1. /\ UNCHANGED <<tableVars, sock, req, res, nolist, ready>> /\ cur' = j
      /\ pc \in {"clients", "servers"}
      /\ \/ pc' = "req_line" /\ client_l[j].fd \in ready
         \/ pc' = "res_hdrs" /\ server_l[j].fd \in ready
  BY DEF BeginClient, BeginServer, TurnTo, Found
<1>2. SocketsHeld' /\ Adds({}, NULL) /\ sock' \in Sockets
  BY <1>1, SameFds, KeptSockets, SameHeld, SameAdds DEF SocketsInv, SessionTypes
<1>3. SessionTypes'
  BY <1>1, <1>2 DEF SocketsInv, SessionTypes, ClientPhase
<1>4. ServedReported'
  BY <1>1 DEF ServedReported, ClientPhase, ServerPhase, tableVars, clientVars, serverVars
<1> QED BY <1>2, <1>3, <1>4 DEF SocketsInv

\* client2server reads a request.
LEMMA RequestSockets ==
    ASSUME HandsOn, SocketsInv, RequestSteps
    PROVE  SocketsInv' /\ Adds({}, NULL)
<1>1. /\ SameSockets(sock, sock) /\ sock \in Sockets
      /\ pc \in ClientPhase => clit_fd \in Fd /\ sock[clit_fd] # NULL
  BY ReadSocket, KeptSockets DEF SocketsInv, SessionTypes
<1>2. pc \in ClientPhase
  BY DEF RequestSteps, ReadRequestLine, RequestLineTimesOut, RequestLineAtEnd, ReadRequestHdr,
         RequestHdrTimesOut, RequestHdrAtEnd, BadUri, ClientPhase
<1>3. CanTake(clit_fd) => /\ SameSockets(Take(clit_fd), sock)
                          /\ Line(clit_fd) \in Message
  BY <1>1, <1>2, TakeSockets
<1>14. ASSUME IsCut(clit_fd), NEW m \in Rest(clit_fd), sock' = Leave(clit_fd, m)
       PROVE  SameSockets(sock', sock)
  <2>1. CanTake(clit_fd)
    BY <1>2, <1>14, CutThere, ReadSocket
  <2> QED BY <1>1, <1>2, <1>14, <2>1, RestMessage, LeaveSockets
<1>4. ASSUME NEW r \in Requests, StartRequest(r), SameSockets(sock', sock)
      PROVE  SocketsInv' /\ Adds({}, NULL)
  <2>1. req' \in Reading
    BY <1>4 DEF StartRequest, Reading
  <2> QED BY <1>2, <1>4, <2>1, OnClientSockets DEF StartRequest, TurnTo, ClientPhase
<1>5. ASSUME StartStale, SameSockets(sock', sock)
      PROVE  SocketsInv' /\ Adds({}, NULL)
  <2>1. Stale \subseteq Requests
    BY DEF Stale
  <2> QED BY <1>4, <1>5, <2>1 DEF StartStale
<1>6. ASSUME NEW ok \in BOOLEAN, HeadersRead(ok), SameSockets(sock', sock), pc = "req_hdrs"
      PROVE  SocketsInv' /\ Adds({}, NULL)
  <2>1. req' \in Reading
    BY <1>6 DEF HeadersRead, SocketsInv, SessionTypes, Reading
  <2> QED BY <1>2, <1>6, <2>1, OnClientSockets DEF HeadersRead, TurnTo, ClientPhase
<1>7. ASSUME NEW kind, Refuse(kind), SameSockets(sock', sock)
      PROVE  SocketsInv' /\ Adds({}, NULL)
  BY <1>7, BackSockets DEF Refuse
<1>8. CASE ReadRequestLine
  <2>1. SameSockets(sock', sock) /\ Line(clit_fd) \in Message
    BY <1>3, <1>8 DEF ReadRequestLine
  <2>2. IsGet(Line(clit_fd)) => Line(clit_fd).r \in Requests
    BY <2>1 DEF IsGet, Message, IfLate, Header
  <2> QED BY <1>4, <1>5, <1>7, <1>8, <2>1, <2>2 DEF ReadRequestLine
<1>9. CASE RequestLineAtEnd
  <2>1. SameSockets(sock', sock)
    BY <1>1, <1>9 DEF RequestLineAtEnd
  <2> QED BY <1>5, <1>7, <1>9, <2>1, BackSockets DEF RequestLineAtEnd
<1>10. CASE ReadRequestHdr
  <2>1. SameSockets(sock', sock) /\ pc = "req_hdrs" /\ req \in Reading
    BY <1>3, <1>10 DEF ReadRequestHdr, SocketsInv, SessionTypes
  <2>2. CASE HeadersRead(req.host)
    BY <1>6, <2>1, <2>2 DEF Reading
  <2>3. CASE /\ req' = [req EXCEPT !.host = @ \/ Line(clit_fd).t = "host", !.read = TRUE]
             /\ TurnTo("req_hdrs", cur)
             /\ UNCHANGED <<conn, res, nreq>>
    <3>1. req' \in Reading
      BY <2>1, <2>3 DEF Reading
    <3> QED BY <1>2, <2>1, <2>3, <3>1, OnClientSockets DEF TurnTo, ClientPhase
  <2> QED BY <1>10, <2>2, <2>3 DEF ReadRequestHdr
<1>11. CASE RequestHdrTimesOut
  <2>1. SameSockets(sock', sock)
    BY <1>1, <1>11, <1>14 DEF RequestHdrTimesOut
  <2> QED BY <1>6, <1>11, <2>1 DEF RequestHdrTimesOut
<1>12. CASE RequestHdrAtEnd
  <2>1. CASE Stop("hung") /\ UNCHANGED tableVars
    BY <2>1, StopSockets, SameFds
  <2> QED BY <1>1, <1>6, <1>12, <2>1 DEF RequestHdrAtEnd
<1>13. CASE BadUri
  BY <1>1, <1>7, <1>13 DEF BadUri
<1>15. CASE RequestLineTimesOut
  <2>1. Stale \subseteq Requests
    BY DEF Stale
  <2>2. SameSockets(sock', sock)
    BY <1>1, <1>14, <1>15 DEF RequestLineTimesOut, peerVars
  <2> QED BY <1>4, <1>5, <1>7, <1>15, <2>1, <2>2, BackSockets DEF RequestLineTimesOut
<1> QED BY <1>8, <1>9, <1>10, <1>11, <1>12, <1>13, <1>15 DEF RequestSteps

\* The proxy writes the request q to the socket fd.
LEMMA WriteSockets ==
    ASSUME NEW s \in Sockets, NEW fd \in Fd \cup {-1}, fd # -1 => s[fd] # NULL,
           NEW q \in Request
    PROVE  /\ Write(s, fd, q) \in Sockets
           /\ \A f \in Fd :
                 /\ Write(s, fd, q)[f] # NULL <=> s[f] # NULL
                 /\ s[f] # NULL =>
                       /\ \A r \in Request : Carries(Write(s, fd, q)[f], r)
                             => (f = fd /\ r = q) \/ Carries(s[f], r)
                       /\ Single(s[f]) /\ (f = fd => Idle(s[f])) => Single(Write(s, fd, q)[f])
                       /\ Write(s, fd, q)[f].down = s[f].down
<1>1. CASE fd # -1 /\ s[fd].down = "up"
  <2> DEFINE t == [s[fd] EXCEPT !.owed = Append(@, q)]
  <2>1. fd \in Fd /\ s[fd] \in Socket
    BY <1>1 DEF Sockets
  <2>2. /\ t \in Socket /\ (\A r \in Request : Carries(t, r) => r = q \/ Carries(s[fd], r))
        /\ Idle(s[fd]) => Single(t)
    BY <2>1, WrittenKeeps
  <2>7. t.down = s[fd].down
    BY <2>1 DEF Socket
  <2>3. t # NULL
    BY <2>2, SocketParts
  <2> DEFINE w == Write(s, fd, q)
  <2>4. w = [s EXCEPT ![fd] = t]
    BY <1>1 DEF Write
  <2> HIDE DEF t, w
  <2>5. w \in Sockets /\ w[fd] = t /\ \A f \in Fd \ {fd} : w[f] = s[f]
    BY <2>1, <2>2, <2>4 DEF Sockets
  <2>6. \A f \in Fd :
           /\ w[f] # NULL <=> s[f] # NULL
           /\ s[f] # NULL =>
                 /\ \A r \in Request : Carries(w[f], r) => (f = fd /\ r = q) \/ Carries(s[f], r)
                 /\ Single(s[f]) /\ (f = fd => Idle(s[f])) => Single(w[f])
                 /\ w[f].down = s[f].down
    BY <1>1, <2>1, <2>2, <2>3, <2>5, <2>7
  <2> QED BY <2>5, <2>6 DEF w
<1>2. CASE ~(fd # -1 /\ s[fd].down = "up")
  <2>1. Write(s, fd, q) = s
    BY <1>2 DEF Write
  <2> QED BY <2>1
<1> QED BY <1>1, <1>2

\* The descriptor of a conn is that of an open socket, if connect() gave one.
LEMMA ConnSocket ==
    ASSUME TableInv, SocketsHeld, NEW k \in Live(conn_l)
    PROVE  /\ ConnFd(k) \in Fd \cup {-1} /\ conn_l[k] \in Conn
           /\ ConnFd(k) # -1 => ConnFd(k) \in ServerFds /\ sock[ConnFd(k)] # NULL
<1>1. conn_l[k] \in Conn /\ conn_l[k].serv_idx \in Live(server_l)
  BY DEF TableInv, NoDangling, TypeOK, Live, Conn
<1>2. ConnFd(k) \in Fd \cup {-1}
  BY <1>1 DEF TableInv, TypeOK, Live, Server, ConnFd
<1>3. ConnFd(k) # -1 => ConnFd(k) \in ServerFds
  BY <1>1 DEF ServerFds, ConnFd
<1> QED BY <1>1, <1>2, <1>3 DEF SocketsHeld

\* A new server socket, after reading at most one line, and the request q that is
\* written to it.
LEMMA ConnectedSockets ==
    ASSUME TableInv, SocketsInv, NEW c \in Idx, NEW r \in Fd \cup {-1}, NEW a \in Addr,
           OpenConn(c, r, a), NEW s, SameSockets(s, sock)
    PROVE  /\ sock' = Connected(s, r) => sock' \in Sockets /\ SocketsHeld' /\ Adds({}, NULL)
           /\ \A q \in Request : sock' = Write(Connected(s, r), r, q) =>
                 sock' \in Sockets /\ SocketsHeld' /\ Adds({r}, q)
<1>1. /\ ClientFds' = ClientFds /\ ServerFds' = ServerFds \cup ({r} \ {-1})
      /\ r # -1 => r \in Fd \ open_fds
  BY OpenConnInv
<1>2. sock \in Sockets /\ SocketsHeld
  BY DEF SocketsInv, SessionTypes
<1> DEFINE u == Connected(s, r)
<1>3. /\ u \in Sockets /\ (r # -1 => u[r] # NULL)
      /\ \A fd \in Fd : u[fd] # NULL <=> fd \in ClientFds' \cup ServerFds'
      /\ \A fd \in Fd : u[fd] # NULL =>
            /\ \A q \in Request : Carries(u[fd], q) => sock[fd] # NULL /\ Carries(sock[fd], q)
            /\ (sock[fd] # NULL => Single(sock[fd])) => Single(u[fd])
            /\ sock[fd] # NULL => Goes(u[fd], sock[fd])
            /\ sock[fd] = NULL => u[fd].down = "up"
      /\ r # -1 => Idle(u[r]) /\ sock[r] = NULL
  <2>3. r # -1 => sock[r] = NULL
    BY <1>1, <1>2 DEF SocketsHeld, TableInv, FdOwnership
  <2>1. CASE r = -1
    <3>1. u = s
      BY <2>1 DEF Connected
    <3> QED BY <1>1, <1>2, <2>1, <3>1 DEF SameSockets, SocketsHeld, Keeps
  <2>2. CASE r # -1
    <3>1. u = [s EXCEPT ![r] = Open] /\ r \in Fd
      BY <1>1, <2>2 DEF Connected
    <3>2. Open \in Socket /\ Open # NULL /\ \A q \in Request : ~Carries(Open, q)
      BY OpenSocket, SocketParts
    <3>4. Single(Open) /\ Idle(Open) /\ Open.down = "up"
      BY OpenSocket DEF Idle, Open
    <3>3. u \in Sockets /\ u[r] = Open /\ \A fd \in Fd \ {r} : u[fd] = s[fd]
      BY <3>1, <3>2 DEF SameSockets, Sockets
    <3> HIDE DEF u
    <3> QED BY <1>1, <1>2, <2>2, <2>3, <3>1, <3>2, <3>3, <3>4 DEF SameSockets, SocketsHeld, Keeps
  <2> QED BY <2>1, <2>2
<1> HIDE DEF u
<1>4. ASSUME sock' = u PROVE sock' \in Sockets /\ SocketsHeld' /\ Adds({}, NULL)
  BY <1>3, <1>4 DEF SocketsHeld, Adds
<1>5. ASSUME NEW q \in Request, sock' = Write(u, r, q)
      PROVE  sock' \in Sockets /\ SocketsHeld' /\ Adds({r}, q)
  <2>1. /\ sock' \in Sockets
        /\ \A f \in Fd :
              /\ sock'[f] # NULL <=> u[f] # NULL
              /\ u[f] # NULL =>
                    /\ \A p \in Request : Carries(sock'[f], p) => (f = r /\ p = q) \/ Carries(u[f], p)
                    /\ Single(u[f]) /\ (f = r => Idle(u[f])) => Single(sock'[f])
                    /\ sock'[f].down = u[f].down
    BY <1>3, <1>5, WriteSockets
  <2>2. SocketsHeld'
    BY <1>3, <2>1 DEF SocketsHeld
  <2>3. ASSUME NEW f \in Fd, sock'[f] # NULL
        PROVE  /\ \A p \in Request : Carries(sock'[f], p) =>
                     (sock[f] # NULL /\ Carries(sock[f], p)) \/ (f \in {r} /\ p = q)
               /\ (sock[f] # NULL => Single(sock[f]) /\ (f \in {r} => Idle(sock[f])))
                     => Single(sock'[f])
               /\ sock[f] # NULL => Goes(sock'[f], sock[f])
               /\ sock[f] = NULL => sock'[f].down = "up"
    <3>1. u[f] # NULL
      BY <2>1, <2>3
    <3>2. \A p \in Request : Carries(sock'[f], p) =>
                     (sock[f] # NULL /\ Carries(sock[f], p)) \/ (f \in {r} /\ p = q)
      BY <1>3, <2>1, <3>1
    <3>3. ASSUME sock[f] # NULL => Single(sock[f]) /\ (f \in {r} => Idle(sock[f]))
          PROVE  Single(sock'[f])
      <4>1. Single(u[f])
        BY <1>3, <3>1, <3>3
      <4>2. f = r => Idle(u[f])
        <5>1. f # -1
          BY DEF Fd
        <5> QED BY <1>3, <5>1
      <4> QED BY <2>1, <3>1, <4>1, <4>2
    <3>4. /\ sock[f] # NULL => Goes(sock'[f], sock[f])
          /\ sock[f] = NULL => sock'[f].down = "up"
      BY <1>3, <2>1, <3>1 DEF Goes
    <3> QED BY <3>2, <3>3, <3>4
  <2> QED BY <2>1, <2>2, <2>3 DEF Adds
<1> QED BY <1>4, <1>5 DEF u

\* resolve() has returned: the conn found, or a new one.
LEMMA LookupSockets ==
    ASSUME TableInv, HandsOn, SocketsInv, NEW a \in SrvAddr, UseConn(a) \/ MakeConn(a)
    PROVE  SocketsInv' /\ Adds({}, NULL)
<1>1. CASE UseConn(a)
  <2>1. /\ UNCHANGED <<tableVars, cur, ready, nolist, req, res, sock>>
        /\ pc = "lookup" /\ pc' = "forward"
    BY <1>1 DEF UseConn, TurnTo
  <2>2. req' \in Reading /\ SameSockets(sock', sock)
    BY <2>1, KeptSockets DEF SocketsInv, SessionTypes
  <2> QED BY <2>1, <2>2, OnClientSockets DEF ClientPhase
<1>2. CASE MakeConn(a)
  <2>1. /\ UNCHANGED <<cur, ready, nolist, req, res>> /\ pc = "lookup" /\ pc' = "forward"
    BY <1>2 DEF MakeConn
  <2>2. PICK r \in Fd \cup {-1} : OpenConn(cur, r, a) /\ sock' = Connected(sock, r)
    BY <1>2 DEF MakeConn, Connect, NewConn
  <2>3. cur \in Idx /\ cur \in Live(client_l) /\ a \in Addr /\ SameSockets(sock, sock)
    BY <2>1, ProxyAssumption, KeptSockets DEF HandsOn, Live, SocketsInv, SessionTypes
  <2>4. sock' \in Sockets /\ SocketsHeld' /\ Adds({}, NULL)
    BY <2>2, <2>3, ConnectedSockets
  <2>5. client_l'[cur].fd = client_l[cur].fd
    BY <2>2, <2>3, OpenConnInv
  <2>6. SessionTypes'
    BY <2>1, <2>4 DEF SocketsInv, SessionTypes, ClientPhase
  <2>7. ServedReported'
    BY <2>1, <2>5 DEF SocketsInv, ServedReported, ClientPhase, ServerPhase
  <2> QED BY <2>4, <2>6, <2>7 DEF SocketsInv
<1> QED BY <1>1, <1>2

\* add_server has no slot left.
LEMMA OverflowSockets ==
    ASSUME TableInv, HandsOn, SocketsInv, ServersFull \/ AskOverflows
    PROVE  SocketsInv' /\ Adds({}, NULL)
<1>1. /\ UNCHANGED <<clientVars, serverVars, connVars, selectVars>> /\ Stop("crashed")
  BY DEF ServersFull, AskOverflows, Overflow
<1>2. ClientFds' = ClientFds /\ ServerFds' = ServerFds
  BY <1>1, SameTables
<1> QED BY <1>1, <1>2, StopSockets

\* The request goes to the server of the conn in hand.
LEMMA ForwardSockets ==
    ASSUME TableInv, HandsOn, SocketsInv, Forward
    PROVE  /\ SocketsInv' /\ Adds({ConnFd(conn)}, req.get) /\ req.get \in Request
           /\ nolist # NULL => nolist' # NULL
           /\ req.get.kind = "list" => nolist' # NULL
<1>1. pc = "forward" /\ conn \in Live(conn_l)
  BY DEF Forward, HandsOn, Live
<1>2. req \in Reading /\ req.get \in Request
  BY <1>1, ProxyAssumption DEF SocketsInv, SessionTypes, Reading, Request
<1>3. /\ sock' = Write(sock, ConnFd(conn), req.get) /\ UNCHANGED tableVars
      /\ BackTo("clients")
  BY DEF Forward, ConnFd
<1>4. /\ ConnFd(conn) \in Fd \cup {-1}
      /\ ConnFd(conn) # -1 => sock[ConnFd(conn)] # NULL
      /\ sock \in Sockets
  BY <1>1, ConnSocket DEF SocketsInv, SessionTypes
<1>5. /\ sock' \in Sockets
      /\ \A f \in Fd :
            /\ sock'[f] # NULL <=> sock[f] # NULL
            /\ sock[f] # NULL =>
                  /\ \A r \in Request : Carries(sock'[f], r)
                        => (f = ConnFd(conn) /\ r = req.get) \/ Carries(sock[f], r)
                  /\ Single(sock[f]) /\ (f = ConnFd(conn) => Idle(sock[f])) => Single(sock'[f])
                  /\ sock'[f].down = sock[f].down
  BY <1>2, <1>3, <1>4, WriteSockets
<1>6. Adds({ConnFd(conn)}, req.get)
  BY <1>5 DEF Adds, Goes
<1>7. SocketsHeld'
  BY <1>3, <1>5, SameFds DEF SocketsInv, SocketsHeld
<1>8. /\ nolist' \in [kind : {"nolist", "junk"}, video : Videos] \cup {NULL}
      /\ nolist # NULL => nolist' # NULL
      /\ req.get.kind = "list" => nolist' # NULL
  <2>1. /\ WithoutList(req.get) \in [kind : {"nolist", "junk"}, video : Videos]
        /\ [req.get EXCEPT !.kind = "junk"] \in [kind : {"nolist", "junk"}, video : Videos]
    BY <1>2 DEF Request, WithoutList
  <2>2. [kind : {"nolist", "junk"}, video : Videos] \subseteq Request
    BY DEF Request, Kind
  <2>3. NULL \notin Request
    BY NoValueAssumption
  <2> QED BY <2>1, <2>2, <2>3 DEF Forward, SocketsInv, SessionTypes
<1>9. SessionTypes' /\ ServedReported'
  BY <1>3, <1>5, <1>8, BackTypes DEF SocketsInv
<1> QED BY <1>2, <1>6, <1>7, <1>8, <1>9 DEF SocketsInv

-----------------------------------------------------------------------------
(* What comes back over a conn *)

\* The proxy has noted that it forwards r over the conn k: the pair of addresses,
\* and for a manifest the request it makes of it.
Noted(k, r) == r.kind \notin {"nolist", "junk"} =>
                  Pair(k) \in thru /\ (r.kind = "list" => nolist # NULL)

\* Whatever comes back over a conn was noted when it was forwarded.
Accounted ==
    /\ \A k \in Live(conn_l) : ConnFd(k) # -1 =>
          \A r \in Request : Carries(sock[ConnFd(k)], r) => Noted(k, r)
    /\ pc \in ServerPhase /\ res # NULL => Noted(conn, res.r)

SessionInv == SocketsInv /\ Accounted

\* What is asked for in place of a manifest is known once one is on its way.
LEMMA NolistKnown ==
    ASSUME SessionInv, pc = "res_body", res.r.kind = "list"
    PROVE  nolist \in Request /\ nolist.kind \in {"nolist", "junk"}
<1>1. nolist # NULL
  BY DEF SessionInv, SocketsInv, SessionTypes, Accounted, Noted, ServerPhase
<1>2. nolist \in [kind : {"nolist", "junk"}, video : Videos]
  BY <1>1 DEF SessionInv, SocketsInv, SessionTypes
<1> QED BY <1>2 DEF Request, Kind

\* The body is read, or a part of it.
LEMMA BodySockets ==
    ASSUME HandsOn, SocketsInv, pc = "res_body", BodyThere
    PROVE  /\ SameSockets(BodyTaken, sock) /\ serv_fd \in Fd
           /\ Line(serv_fd).t = "hdr" /\ Single(sock[serv_fd]) => Idle(BodyTaken[serv_fd])
           /\ BodyTaken[serv_fd].down = sock[serv_fd].down
           /\ \A f \in Fd \ {serv_fd} : BodyTaken[f] = sock[f]
<1>1. serv_fd \in Fd /\ sock[serv_fd] # NULL /\ sock \in Sockets /\ CanTake(serv_fd)
  BY ReadSocket DEF SocketsInv, SessionTypes, ServerPhase, BodyThere
<1>2. res.t = "cut" => [t |-> "rest"] \in Message /\ [t |-> "rest"].t # "hdr"
  BY DEF Message, Header, IfLate, SocketsInv, SessionTypes
<1>3. CASE res.t = "cut"
  <2>1. BodyTaken = Leave(serv_fd, [t |-> "rest"])
    BY <1>3 DEF BodyTaken
  <2> QED BY <1>1, <1>2, <1>3, <2>1, LeaveSockets
<1>4. CASE res.t # "cut"
  <2>1. BodyTaken = Take(serv_fd)
    BY <1>4 DEF BodyTaken
  <2> QED BY <1>1, <2>1, TakeSockets
<1> QED BY <1>3, <1>4

\* The manifest without bitrates is asked for on the same socket.
LEMMA AskSameSockets ==
    ASSUME TableInv, HandsOn, SessionInv, pc = "res_body", BodyThere,
           res.r.kind = "list", AskSame
    PROVE  SocketsInv' /\ Adds({serv_fd}, nolist)
<1>1. /\ serv_fd \in Fd /\ sock[serv_fd] # NULL /\ sock \in Sockets
      /\ SameSockets(BodyTaken, sock) /\ nolist \in Request
  BY ReadSocket, BodySockets, NolistKnown
     DEF SessionInv, SocketsInv, SessionTypes, ServerPhase
<1>2. /\ sock' = Write(BodyTaken, serv_fd, nolist)
      /\ UNCHANGED <<tableVars, nolist>> /\ BackTo("servers")
  BY DEF AskSame
<1> DEFINE s == BodyTaken
<1> HIDE DEF s
<1>3. /\ s \in Sockets /\ s[serv_fd] # NULL
      /\ \A fd \in Fd : /\ s[fd] # NULL <=> sock[fd] # NULL
                        /\ sock[fd] # NULL => Keeps(s[fd], sock[fd]) /\ Goes(s[fd], sock[fd])
  BY <1>1 DEF s, SameSockets
<1>4. /\ sock' \in Sockets
      /\ \A f \in Fd :
            /\ sock'[f] # NULL <=> s[f] # NULL
            /\ s[f] # NULL =>
                  /\ \A r \in Request :
                        Carries(sock'[f], r) => (f = serv_fd /\ r = nolist) \/ Carries(s[f], r)
                  /\ Single(s[f]) /\ (f = serv_fd => Idle(s[f])) => Single(sock'[f])
                  /\ sock'[f].down = s[f].down
  <2>1. sock' = Write(s, serv_fd, nolist)
    BY <1>2 DEF s
  <2> QED BY <1>1, <1>3, <2>1, WriteSockets
<1>5. Adds({serv_fd}, nolist)
  BY <1>3, <1>4 DEF Adds, Keeps, Goes, Idle
<1>6. SocketsHeld'
  BY <1>2, <1>3, <1>4, SameFds DEF SessionInv, SocketsInv, SocketsHeld
<1>7. SessionTypes' /\ ServedReported'
  BY <1>2, <1>4, BackTypes DEF SessionInv, SocketsInv, SessionTypes
<1> QED BY <1>5, <1>6, <1>7 DEF SocketsInv

\* server2client reads a response and passes it on.
LEMMA ResponseSockets ==
    ASSUME TableInv, HandsOn, SessionInv, ResponseSteps
    PROVE  /\ SocketsInv'
           /\ \/ Adds({}, NULL)
              \/ /\ Adds({ConnFd(conn)}, nolist) /\ UNCHANGED <<tableVars, nolist>>
                 /\ pc = "res_body" /\ res.r.kind = "list"
<1> USE DEF SessionInv
<1>1. /\ pc \in ServerPhase
      /\ SameSockets(sock, sock) /\ sock \in Sockets
      /\ serv_fd \in Fd /\ sock[serv_fd] # NULL /\ ConnFd(conn) = serv_fd
  BY ReadSocket, KeptSockets
     DEF SocketsInv, SessionTypes, ResponseSteps, ServerPhase, ReadResponseHdr,
         ResponseHdrsEnd, ResponseHdrTimesOut, ResponseHdrAtEnd, SkipHeaders, ReadBody, BodyAtEnd
<1>2. CanTake(serv_fd) => SameSockets(Take(serv_fd), sock) /\ Line(serv_fd) \in Message
  BY <1>1, TakeSockets
<1>3. ASSUME NEW s, SameSockets(s, sock), Drop("servers", s)
      PROVE  SocketsInv' /\ Adds({}, NULL)
  BY <1>3, DroppedSockets
<1>4. ASSUME NEW how \in {"hung", "crashed"}, Stop(how), UNCHANGED tableVars
      PROVE  SocketsInv' /\ Adds({}, NULL)
  BY <1>4, StopSockets, SameFds
<1>5. ASSUME NEW a, NEW s, SameSockets(s, sock), Answer(a, s)
      PROVE  SocketsInv' /\ Adds({}, NULL)
  <2>1. CASE Drop("servers", s)
    BY <1>3, <1>5, <2>1
  <2>2. CASE sock' = s /\ BackTo("servers") /\ UNCHANGED <<tableVars, nolist>>
    BY <1>5, <2>2, BackSockets
  <2> QED BY <1>5, <2>1, <2>2 DEF Answer
<1>6. CASE ReadResponseHdr
  <2>1. /\ SameSockets(sock', sock) /\ pc' = "res_hdrs" /\ res' \in Header \cup {NULL}
        /\ UNCHANGED <<tableVars, cur, ready, nolist, req>>
    <3>1. Line(serv_fd).t = "hdr" => Line(serv_fd) \in Header
      BY <1>2, <1>6 DEF ReadResponseHdr, Message, IfLate
    <3> QED BY <1>2, <1>6, <3>1
            DEF ReadResponseHdr, ReadOn, TurnTo, SocketsInv, SessionTypes
  <2>2. pc' \in ServerPhase
    BY <2>1 DEF ServerPhase
  <2> QED BY <1>1, <2>1, <2>2, OnServerSockets
<1>7. CASE ResponseHdrsEnd
  <2>1. CASE Drop("servers", Take(serv_fd))
    BY <1>2, <1>3, <1>7, <2>1 DEF ResponseHdrsEnd
  <2>2. CASE ResType # "msc" /\ sock' = Take(serv_fd) /\ UNCHANGED res /\ ReadOn("res_body")
    <3>1. res' \in Header
      BY <2>2 DEF ResType, SocketsInv, SessionTypes
    <3>2. /\ SameSockets(sock', sock) /\ pc' \in ServerPhase
          /\ UNCHANGED <<tableVars, cur, ready, nolist, req>>
      BY <1>2, <1>7, <2>2 DEF ResponseHdrsEnd, ReadOn, TurnTo, ServerPhase
    <3> QED BY <1>1, <3>1, <3>2, OnServerSockets
  <2> QED BY <1>7, <2>1, <2>2 DEF ResponseHdrsEnd
<1>8. CASE ResponseHdrTimesOut
  <2>1. PICK h, s : GiveUp(h, s) /\ h \in Header \cup {NULL} /\ SameSockets(s, sock)
                    /\ "slow" \in Faults
    <3>1. CASE TimesOut(serv_fd) /\ GiveUp(res, sock)
      BY <1>1, <3>1 DEF SocketsInv, SessionTypes, TimesOut
    <3>2. CASE \E m \in Rest(serv_fd) :
                  /\ IsCut(serv_fd)
                  /\ \/ GiveUp(res, Leave(serv_fd, m))
                     \/ Line(serv_fd).t = "hdr" /\ GiveUp(Line(serv_fd), Leave(serv_fd, m))
      <4>1. PICK m \in Rest(serv_fd) :
                  /\ IsCut(serv_fd)
                  /\ \/ GiveUp(res, Leave(serv_fd, m))
                     \/ Line(serv_fd).t = "hdr" /\ GiveUp(Line(serv_fd), Leave(serv_fd, m))
        BY <3>2
      <4>2. CanTake(serv_fd)
        BY <1>1, <4>1, CutThere, ReadSocket
      <4>3. SameSockets(Leave(serv_fd, m), sock)
        BY <1>1, <4>1, <4>2, RestMessage, LeaveSockets
      <4>4. Line(serv_fd).t = "hdr" => Line(serv_fd) \in Header
        BY <1>2, <4>2 DEF Message, IfLate
      <4> QED BY <4>1, <4>3, <4>4 DEF SocketsInv, SessionTypes, IsCut
    <3> QED BY <1>8, <3>1, <3>2 DEF ResponseHdrTimesOut
  <2>2. CASE Drop("servers", s)
    BY <1>3, <2>1, <2>2
  <2>3. CASE /\ h # NULL /\ sock' = s /\ res' = [h EXCEPT !.t = "cut"]
             /\ ReadOn("res_body")
    <3>1. res' \in Header
      BY <2>1, <2>3 DEF Header, IfLate
    <3>2. /\ SameSockets(sock', sock) /\ pc' \in ServerPhase
          /\ UNCHANGED <<tableVars, cur, ready, nolist, req>>
      BY <2>1, <2>3 DEF ReadOn, TurnTo, ServerPhase
    <3> QED BY <1>1, <3>1, <3>2, OnServerSockets
  <2> QED BY <2>1, <2>2, <2>3 DEF GiveUp
<1>9. CASE ResponseHdrAtEnd
  BY <1>1, <1>3, <1>4, <1>9 DEF ResponseHdrAtEnd
<1>10. CASE ReadBody
  <2>1. CASE res.r.kind = "list" /\ AskSame
    BY <1>1, <1>10, <2>1, AskSameSockets DEF ReadBody, AskSame
  <2>2. SameSockets(BodyTaken, sock)
    BY <1>10, BodySockets DEF ReadBody
  <2> QED BY <1>3, <1>4, <1>5, <1>10, <2>1, <2>2 DEF ReadBody
<1>11. CASE BodyAtEnd
  BY <1>1, <1>3, <1>4, <1>5, <1>11 DEF BodyAtEnd
<1>12. CASE SkipHeaders
  <2>1. /\ SameSockets(sock', sock) /\ pc' \in ServerPhase /\ res' \in Header
        /\ UNCHANGED <<tableVars, cur, ready, nolist, req>>
    BY <1>2, <1>12 DEF SkipHeaders, ReadOn, TurnTo, ServerPhase, SocketsInv, SessionTypes
  <2> QED BY <1>1, <2>1, OnServerSockets
<1> QED BY <1>6, <1>7, <1>8, <1>9, <1>10, <1>11, <1>12 DEF ResponseSteps

\* The manifest without bitrates is asked for on a new socket.
LEMMA AskElsewhereSockets ==
    ASSUME TableInv, HandsOn, SessionInv, NEW a \in SrvAddr, AskElsewhere(a)
    PROVE  /\ SocketsInv' /\ UNCHANGED nolist
           /\ nolist \in Request /\ nolist.kind \in {"nolist", "junk"}
           /\ \E r \in Fd \cup {-1} :
                 OpenConn(conn_l[conn].clit_idx, r, a) /\ Adds({r}, nolist)
<1>1. /\ pc = "res_body" /\ BodyThere /\ res.r.kind = "list"
      /\ BackTo("servers") /\ UNCHANGED nolist
  BY DEF AskElsewhere
<1>2. PICK r \in Fd \cup {-1} :
         /\ OpenConn(conn_l[conn].clit_idx, r, a)
         /\ sock' = Write(Connected(BodyTaken, r), r, nolist)
  BY DEF AskElsewhere, NewConn
<1>3. nolist \in Request /\ nolist.kind \in {"nolist", "junk"}
  BY <1>1, NolistKnown
<1>4. SameSockets(BodyTaken, sock)
  BY <1>1, BodySockets DEF SessionInv
<1>5. conn_l[conn].clit_idx \in Idx /\ a \in Addr
  <2>1. conn \in Idx /\ conn_l[conn] # NULL
    BY <1>1 DEF HandsOn
  <2> QED BY <2>1, ProxyAssumption DEF TableInv, TypeOK, Conn
<1>6. sock' \in Sockets /\ SocketsHeld' /\ Adds({r}, nolist)
  BY <1>2, <1>3, <1>4, <1>5, ConnectedSockets DEF SessionInv
<1>7. SessionTypes' /\ ServedReported'
  BY <1>1, <1>6, BackTypes DEF SessionInv, SocketsInv, SessionTypes
<1> QED BY <1>1, <1>2, <1>3, <1>6, <1>7 DEF SocketsInv

-----------------------------------------------------------------------------
(* The end of a scan, peers and the network *)

LEMMA PhaseEndsSockets ==
    ASSUME SocketsInv, PhaseEnds
    PROVE  SocketsInv' /\ Adds({}, NULL)
<1>1. /\ UNCHANGED <<tableVars, sock, req, res, nolist>>
      /\ pc \in {"clients", "servers"} /\ pc' \in {"select", "servers"}
  BY DEF PhaseEnds, peerVars
<1>2. SocketsHeld' /\ Adds({}, NULL) /\ sock' \in Sockets
  BY <1>1, SameFds, KeptSockets, SameHeld, SameAdds DEF SocketsInv, SessionTypes
<1>3. SessionTypes' /\ ServedReported'
  BY <1>1, <1>2 DEF SocketsInv, SessionTypes, ServedReported, ClientPhase, ServerPhase
<1> QED BY <1>2, <1>3 DEF SocketsInv

\* A peer or the network changes one socket.
LEMMA PeerSockets ==
    ASSUME SocketsInv, UNCHANGED envFrame,
           \/ SameSockets(sock', sock)
           \/ /\ sock' \in Sockets /\ \A fd \in Fd : sock'[fd] # NULL <=> sock[fd] # NULL
              /\ Adds({}, NULL)
    PROVE  SocketsInv' /\ Adds({}, NULL)
<1>1. UNCHANGED <<tableVars, pc, cur, ready, req, res, nolist>>
  BY DEF envFrame, loopVars
<1>2. SocketsHeld' /\ Adds({}, NULL) /\ sock' \in Sockets
  <2>1. CASE SameSockets(sock', sock)
    BY <1>1, <2>1, SameFds, SameHeld, SameAdds DEF SocketsInv, SessionTypes
  <2>2. CASE /\ sock' \in Sockets /\ \A fd \in Fd : sock'[fd] # NULL <=> sock[fd] # NULL
             /\ Adds({}, NULL)
    BY <1>1, <2>2, SameFds DEF SocketsInv, SocketsHeld
  <2> QED BY <2>1, <2>2
<1>3. SessionTypes' /\ ServedReported'
  BY <1>1, <1>2 DEF SocketsInv, SessionTypes, ServedReported, tableVars, clientVars, serverVars
<1> QED BY <1>2, <1>3 DEF SocketsInv

LEMMA DeliverSockets ==
    ASSUME SocketsInv, NEW fd \in Fd, Deliver(fd)
    PROVE  SocketsInv' /\ Adds({}, NULL)
<1> DEFINE s == sock[fd]
           t == [s EXCEPT !.out = Tail(@), !.inb = Append(@, Head(s.out))]
<1>1. s \in Socket /\ s # NULL /\ s.out # <<>> /\ sock \in Sockets
  BY DEF Deliver, SocketsInv, SessionTypes, Sockets
<1>2. Keeps(t, s) /\ Goes(t, s)
  BY <1>1, DeliveredKeeps DEF Goes, Socket
<1>3. sock' = [sock EXCEPT ![fd] = t]
  <2>1. sock' = [sock EXCEPT ![fd].out = Tail(@), ![fd].inb = Append(@, Head(sock[fd].out))]
    BY DEF Deliver
  <2> QED BY <1>1, <2>1 DEF Sockets
<1> HIDE DEF t
<1>4. SameSockets(sock', sock)
  BY <1>1, <1>2, <1>3, OneSocket
<1> QED BY <1>4, PeerSockets DEF Deliver

LEMMA AnswerSockets ==
    ASSUME SocketsInv, NEW fd \in Fd, ServerAnswers(fd)
    PROVE  SocketsInv' /\ Adds({}, NULL)
<1> DEFINE s == sock[fd]
           u(cl) == s.out \o ResponseText(Head(s.owed), cl)
           t == [s EXCEPT !.owed = Tail(s.owed), !.down = s.down, !.out = u(FALSE)]
           f == [s EXCEPT !.owed = <<>>, !.down = "fin", !.out = u(TRUE)]
<1>1. s \in Socket /\ s # NULL /\ s.owed # <<>> /\ sock \in Sockets
  <2>1. s # NULL
    BY DEF ServerAnswers, SocketsInv, SocketsHeld
  <2> QED BY <2>1 DEF ServerAnswers, SocketsInv, SessionTypes, Sockets
<1>2. Keeps(t, s) /\ ("close" \in Faults => Keeps(f, s)) /\ Goes(t, s) /\ Goes(f, s)
  <2>2. Goes(t, s) /\ Goes(f, s)
    BY <1>1 DEF Goes, Socket
  <2>1. s.down \in {"up", "fin", "rst"}
    BY <1>1, SocketParts
  <2> QED BY <1>1, <2>1, <2>2, AnsweredKeeps
<1>3. \/ sock' = [sock EXCEPT ![fd] = t]
      \/ sock' = [sock EXCEPT ![fd] = f] /\ "close" \in Faults
  <2>1. CASE sock' = [sock EXCEPT ![fd].owed = Tail(@),
                                  ![fd].out = @ \o ResponseText(Head(sock[fd].owed), FALSE)]
    <3>1. t = [s EXCEPT !.owed = Tail(@), !.out = u(FALSE)]
      BY <1>1 DEF Socket
    <3>2. sock' = [sock EXCEPT ![fd] = [s EXCEPT !.owed = Tail(@), !.out = u(FALSE)]]
      BY <1>1, <2>1 DEF Sockets
    <3> QED BY <3>1, <3>2
  <2>2. CASE /\ "close" \in Faults
             /\ sock' = [sock EXCEPT ![fd].owed = <<>>, ![fd].down = "fin",
                                     ![fd].out = @ \o ResponseText(Head(sock[fd].owed), TRUE)]
    BY <1>1, <2>2 DEF Sockets
  <2> QED BY <2>1, <2>2 DEF ServerAnswers
<1> HIDE DEF t, f
<1>4. SameSockets(sock', sock)
  BY <1>1, <1>2, <1>3, OneSocket
<1> QED BY <1>4, PeerSockets DEF ServerAnswers

LEMMA AskSockets ==
    ASSUME SocketsInv, NEW fd \in Fd, NEW r \in Requests, Ask(fd, r)
    PROVE  SocketsInv' /\ Adds({}, NULL)
<1> DEFINE s == sock[fd]
           t == [s EXCEPT !.out = @ \o RequestText(r)]
<1>1. s \in Socket /\ s # NULL /\ sock \in Sockets /\ r \in Request
  <2>1. s # NULL
    BY DEF Ask, SocketsInv, SocketsHeld
  <2> QED BY <2>1, ProxyAssumption DEF SocketsInv, SessionTypes, Sockets, Request
<1>2. Keeps(t, s) /\ Goes(t, s)
  BY <1>1, AskedKeeps DEF Goes, Socket
<1>3. sock' = [sock EXCEPT ![fd] = t]
  BY DEF Ask
<1> HIDE DEF t
<1>4. SameSockets(sock', sock)
  BY <1>1, <1>2, <1>3, OneSocket
<1> QED BY <1>4, PeerSockets DEF Ask

LEMMA PeerStopsSockets ==
    ASSUME SocketsInv, NEW fd \in Fd, NEW how \in Fault, PeerStops(fd, how)
    PROVE  SocketsInv' /\ Adds({}, NULL)
<1> DEFINE s == sock[fd]
           t(d, p, o) == [s EXCEPT !.down = d, !.out = p, !.owed = o]
<1>1. s \in Socket /\ s # NULL /\ sock \in Sockets
  BY DEF PeerStops, SocketsInv, SessionTypes, Sockets
<1>2. \A d \in {"up", "fin", "rst"}, p \in Prefixes(s.out) \cup {<<>>}, o \in {s.owed, <<>>} :
         Keeps(t(d, p, o), s)
  BY <1>1, StoppedKeeps
<1>3. \E d \in {"up", "fin", "rst"}, p \in Prefixes(s.out) \cup {<<>>}, o \in {s.owed, <<>>} :
         sock' = [sock EXCEPT ![fd] = t(d, p, o)]
  <2>1. CASE s.owed = <<>> /\ s.out = <<>> /\ sock' = [sock EXCEPT ![fd].down = "fin"]
    <3>1. t("fin", <<>>, s.owed) = [s EXCEPT !.down = "fin"]
      BY <1>1, <2>1 DEF Socket
    <3>2. sock' = [sock EXCEPT ![fd] = t("fin", <<>>, s.owed)]
      BY <2>1, <3>1
    <3> QED BY <3>2
  <2>2. CASE \E p \in Prefixes(s.out) :
                sock' = [sock EXCEPT ![fd].down = "fin", ![fd].out = p, ![fd].owed = <<>>]
    <3>1. PICK p \in Prefixes(s.out) :
                sock' = [sock EXCEPT ![fd].down = "fin", ![fd].out = p, ![fd].owed = <<>>]
      BY <2>2
    <3>2. sock' = [sock EXCEPT ![fd] = t("fin", p, <<>>)]
      BY <1>1, <3>1 DEF Sockets
    <3> QED BY <3>2
  <2>3. CASE sock' = [sock EXCEPT ![fd].down = "rst", ![fd].out = <<>>, ![fd].owed = <<>>]
    <3>1. sock' = [sock EXCEPT ![fd] = t("rst", <<>>, <<>>)]
      BY <1>1, <2>3 DEF Sockets
    <3> QED BY <3>1
  <2>4. how \in {"idle_close", "srv_fin", "clit_fin", "srv_rst", "clit_rst"}
    BY DEF PeerStops
  <2> QED BY <2>1, <2>2, <2>3, <2>4 DEF PeerStops
<1>4. PICK d \in {"up", "fin", "rst"}, p \in Prefixes(s.out) \cup {<<>>}, o \in {s.owed, <<>>} :
         sock' = [sock EXCEPT ![fd] = t(d, p, o)]
  BY <1>3
<1>5. Keeps(t(d, p, o), s) /\ t(d, p, o).down = d
  BY <1>1, <1>2 DEF Socket
<1>6. d = "fin" \/ Resets(fd)
  <2>1. how \in {"srv_rst", "clit_rst"} => Resets(fd)
    BY DEF Resets
  <2>2. how \in {"idle_close", "srv_fin", "clit_fin", "srv_rst", "clit_rst"}
    BY DEF PeerStops
  <2>3. ASSUME how \notin {"srv_rst", "clit_rst"} PROVE sock'[fd].down = "fin"
    <3>1. CASE sock' = [sock EXCEPT ![fd].down = "fin"]
      BY <1>1, <3>1 DEF Sockets, Socket
    <3>2. CASE \E p1 \in Prefixes(s.out) :
                  sock' = [sock EXCEPT ![fd].down = "fin", ![fd].out = p1, ![fd].owed = <<>>]
      <4>1. PICK p1 \in Prefixes(s.out) :
                  sock' = [sock EXCEPT ![fd].down = "fin", ![fd].out = p1, ![fd].owed = <<>>]
        BY <3>2
      <4>2. sock'[fd] = [s EXCEPT !.down = "fin", !.out = p1, !.owed = <<>>]
        BY <1>1, <4>1 DEF Sockets
      <4> QED BY <1>1, <4>2 DEF Socket
    <3> QED BY <2>2, <2>3, <3>1, <3>2 DEF PeerStops
  <2>4. sock'[fd] = t(d, p, o)
    BY <1>1, <1>4 DEF Sockets
  <2> QED BY <1>5, <2>1, <2>3, <2>4
<1>7. PICK w : w = t(d, p, o)
  OBVIOUS
<1> HIDE DEF t
<1>8. /\ sock' \in Sockets /\ (\A f \in Fd : sock'[f] # NULL <=> sock[f] # NULL)
      /\ sock'[fd] = w /\ \A f \in Fd \ {fd} : sock'[f] = sock[f]
  BY <1>1, <1>4, <1>5, <1>7, SocketParts DEF Sockets, Keeps
<1>9. Adds({}, NULL)
  BY <1>1, <1>5, <1>6, <1>7, <1>8 DEF Adds, Keeps, Goes
<1> QED BY <1>8, <1>9, PeerSockets DEF PeerStops

-----------------------------------------------------------------------------
(* Every answer comes over a pair of addresses that is in thru_l *)

\* A conn keeps its descriptor and its addresses; a new one has a descriptor that
\* nobody had.
LEMMA ConnKept ==
    ASSUME TableInv, [TableNext]_tableVars, NEW k \in Live(conn_l)'
    PROVE  \/ /\ k \in Live(conn_l) /\ ConnFd(k)' = ConnFd(k) /\ Pair(k)' = Pair(k)
              /\ conn_l'[k] = conn_l[k]
           \/ ConnFd(k)' = -1 \/ ConnFd(k)' \notin open_fds
<1>1. k \in Idx /\ conn_l'[k] # NULL
  BY DEF Live
<1>2. CASE k \in Live(conn_l)
  <2> DEFINE c == conn_l[k].clit_idx
             s == conn_l[k].serv_idx
  <2>1. /\ conn_l'[k] = conn_l[k] /\ server_l'[s] = server_l[s]
        /\ client_l'[c] = [client_l[c] EXCEPT !.num_serv = client_l'[c].num_serv]
    BY <1>1, <1>2, EndpointsKept
  <2>2. client_l[c] \in Client
    BY <1>2 DEF TableInv, NoDangling, TypeOK, Live, Conn
  <2>3. client_l'[c].addr = client_l[c].addr
    BY <2>1, <2>2 DEF Client
  <2>4. ConnFd(k)' = ConnFd(k)
    BY <2>1 DEF ConnFd
  <2>5. Pair(k)' = Pair(k)
    BY <2>1, <2>3 DEF Pair
  <2> QED BY <1>2, <2>1, <2>4, <2>5
<1>3. CASE k \notin Live(conn_l)
  <2>1. CASE \E c \in Idx, r \in Fd \cup {-1}, a \in Addr : OpenConn(c, r, a)
    <3>1. PICK c \in Idx, r \in Fd \cup {-1}, a \in Addr : OpenConn(c, r, a)
      BY <2>1
    <3>2. /\ r # -1 => r \notin open_fds
          /\ \E s, m \in Idx :
                /\ Live(conn_l)' = Live(conn_l) \cup {m}
                /\ conn_l'[m] = [clit_idx |-> c, serv_idx |-> s] /\ server_l'[s].fd = r
      BY <3>1, OpenConnInv
    <3> QED BY <1>3, <3>2 DEF ConnFd
  <2>2. (~\E c \in Idx, r \in Fd \cup {-1}, a \in Addr : OpenConn(c, r, a))
           => Live(conn_l)' \subseteq Live(conn_l)
    <3> SUFFICES ASSUME ~\E c \in Idx, r \in Fd \cup {-1}, a \in Addr : OpenConn(c, r, a)
                 PROVE  Live(conn_l)' \subseteq Live(conn_l)
      OBVIOUS
    <3>1. CASE \E m \in Idx : CloseConn(m)
      <4>1. PICK m \in Idx : CloseConn(m)
        BY <3>1
      <4>2. Live(conn_l)' = Live(conn_l) \ {m}
        BY <4>1, CloseConnInv
      <4> QED BY <4>2
    <3>2. CASE conn_l' = conn_l
      BY <3>2 DEF Live
    <3>3. (\E m \in Idx : CloseConn(m)) \/ conn_l' = conn_l
      BY DEF TableNext, Accept, AcceptFails, Overflow, connVars, tableVars
    <3> QED BY <3>1, <3>2, <3>3
  <2> QED BY <1>3, <2>1, <2>2
<1> QED BY <1>2, <1>3

\* The sockets carry nothing that was not noted, if the request that is written was.
LEMMA AccountedKept ==
    ASSUME TableInv, [TableNext]_tableVars, TableInv', SocketsHeld, SocketsHeld', Accounted,
           thru \subseteq thru', nolist # NULL => nolist' # NULL,
           NEW F, NEW q, Adds(F, q),
           \A k \in Live(conn_l)' : ConnFd(k)' \in F \ {-1} => Noted(k, q)'
    PROVE  \A k \in Live(conn_l)' : ConnFd(k)' # -1 =>
              \A r \in Request : Carries(sock'[ConnFd(k)'], r) => Noted(k, r)'
<1> SUFFICES ASSUME NEW k \in Live(conn_l)', ConnFd(k)' # -1,
                    NEW r \in Request, Carries(sock'[ConnFd(k)'], r)
             PROVE  Noted(k, r)'
  OBVIOUS
<1> DEFINE fd == ConnFd(k)'
<1>1. fd \in Fd /\ sock'[fd] # NULL
  <2>1. conn_l'[k] \in Conn /\ conn_l'[k].serv_idx \in Live(server_l)'
    BY DEF TableInv, NoDangling, TypeOK, Live, Conn
  <2>2. fd \in Fd
    BY <2>1 DEF TableInv, TypeOK, Live, Server, ConnFd
  <2>3. fd \in ServerFds'
    BY <2>1 DEF ServerFds, ConnFd
  <2> QED BY <2>2, <2>3 DEF SocketsHeld
<1>2. (sock[fd] # NULL /\ Carries(sock[fd], r)) \/ (fd \in F /\ r = q)
  BY <1>1 DEF Adds
<1>3. CASE fd \in F /\ r = q
  BY <1>3
<1>4. CASE sock[fd] # NULL /\ Carries(sock[fd], r)
  <2>1. fd \in open_fds
    BY <1>1, <1>4 DEF SocketsHeld, TableInv, FdOwnership
  <2>2. k \in Live(conn_l) /\ ConnFd(k) = fd /\ Pair(k)' = Pair(k)
    BY <2>1, ConnKept
  <2>3. Noted(k, r)
    BY <1>4, <2>2 DEF Accounted
  <2> QED BY <2>2, <2>3 DEF Noted
<1> QED BY <1>2, <1>3, <1>4

\* Two conns do not share a socket.
LEMMA OwnSocket ==
    ASSUME TableInv, NEW k \in Live(conn_l), NEW m \in Live(conn_l),
           ConnFd(k) = ConnFd(m), ConnFd(k) # -1
    PROVE  k = m
<1> DEFINE s == conn_l[k].serv_idx
<1>1. s \in Live(server_l) /\ conn_l[m].serv_idx \in Live(server_l)
  BY DEF TableInv, NoDangling, TypeOK, Live, Conn
<1>2. conn_l[m].serv_idx = s
  BY <1>1 DEF TableInv, FdOwnership, ConnFd
<1>3. PICK x \in Live(conn_l) : ConnsOfServer(s) = {x}
  BY <1>1 DEF TableInv, RefCounts
<1> QED BY <1>2, <1>3 DEF ConnsOfServer

\* What is noted stays noted.
LEMMA NotedStays ==
    ASSUME NEW k, NEW r, Noted(k, r), Pair(k)' = Pair(k), thru \subseteq thru',
           nolist # NULL => nolist' # NULL
    PROVE  Noted(k, r)'
BY DEF Noted

\* The steps that write no request on.
PlainSteps ==
    \/ Select \/ AcceptError \/ (\E j \in Idx : BeginClient(j) \/ BeginServer(j))
    \/ RequestSteps \/ ServersFull \/ (\E a \in SrvAddr : UseConn(a) \/ MakeConn(a))
    \/ RejectRequest \/ AskOverflows \/ PhaseEnds
    \/ (\E fd \in Fd : Deliver(fd) \/ ServerAnswers(fd))
    \/ (\E fd \in Fd, r \in Requests : Ask(fd, r))
    \/ (\E fd \in Fd, how \in Fault : PeerStops(fd, how))
    \/ UNCHANGED proxyVars

LEMMA PlainSockets ==
    ASSUME TableInv, HandsOn, SocketsInv, PlainSteps
    PROVE  SocketsInv' /\ Adds({}, NULL)
<1>1. CASE RejectRequest
  <2>1. Drop("clients", sock) /\ SameSockets(sock, sock)
    BY <1>1, KeptSockets DEF RejectRequest, SocketsInv, SessionTypes
  <2> QED BY <2>1, DroppedSockets
<1>2. CASE UNCHANGED proxyVars
  <2>1. UNCHANGED envFrame /\ SameSockets(sock', sock)
    BY <1>2, KeptSockets DEF proxyVars, envFrame, peerVars, SocketsInv, SessionTypes
  <2> QED BY <2>1, PeerSockets
<1> QED BY <1>1, <1>2, SelectSockets, AcceptErrorSockets, BeginSockets, RequestSockets,
           OverflowSockets, LookupSockets, PhaseEndsSockets, DeliverSockets, AnswerSockets,
           AskSockets, PeerStopsSockets DEF PlainSteps

\* Nothing but Forward writes thru, and nothing but it nolist.
LEMMA OtherNotes ==
    ASSUME PlainSteps \/ ResponseSteps \/ \E a \in SrvAddr : AskElsewhere(a)
    PROVE  UNCHANGED <<thru, nolist>>
<1>1. ASSUME PlainSteps PROVE UNCHANGED <<thru, nolist>>
  <2>1. CASE RequestSteps
    BY <2>1 DEF RequestSteps, ReadRequestLine, RequestLineTimesOut, RequestLineAtEnd,
                ReadRequestHdr, RequestHdrTimesOut, RequestHdrAtEnd, BadUri, StartRequest,
                StartStale, Refuse, HeadersRead, TurnTo, Stop
  <2> QED BY <1>1, <2>1
          DEF PlainSteps, Select, AcceptError, BeginClient, BeginServer, UseConn, MakeConn,
              ServersFull, RejectRequest, AskOverflows, PhaseEnds, Deliver, ServerAnswers,
              Ask, PeerStops, TurnTo, Stop, Drop, envFrame, proxyVars
<1>2. ASSUME ResponseSteps PROVE UNCHANGED <<thru, nolist>>
  BY <1>2 DEF ResponseSteps, ReadResponseHdr, ResponseHdrsEnd, ResponseHdrTimesOut, GiveUp,
              ResponseHdrAtEnd, SkipHeaders, ReadBody, BodyAtEnd, ReadOn, TurnTo, Stop, Drop,
              AskSame, Answer
<1> QED BY <1>1, <1>2 DEF AskElsewhere

\* The response in hand was noted: it has come over the conn in hand.
LEMMA ResponseNoted ==
    ASSUME TableInv, HandsOn, SessionInv, [Next]_proxyVars,
           thru \subseteq thru', nolist # NULL => nolist' # NULL
    PROVE  (pc \in ServerPhase /\ res # NULL => Noted(conn, res.r))'
<1> SUFFICES ASSUME pc' \in ServerPhase, res' # NULL
             PROVE  Noted(conn, res.r)'
  OBVIOUS
<1>1. /\ pc \in ServerPhase /\ UNCHANGED <<tableVars, conn>>
      /\ \/ res # NULL /\ res'.r = res.r
         \/ CanTake(serv_fd) /\ Line(serv_fd).t = "hdr" /\ res'.r = Line(serv_fd).r
  <2>1. CASE UNCHANGED envFrame
    BY <2>1 DEF envFrame, loopVars
  <2>2. CASE UNCHANGED proxyVars
    BY <2>2 DEF proxyVars, loopVars
  <2>3. CASE ReadResponseHdr
    BY <2>3 DEF ReadResponseHdr, ReadOn, TurnTo, ServerPhase
  <2>4. CASE ResponseHdrsEnd \/ SkipHeaders
    BY <2>4 DEF ResponseHdrsEnd, SkipHeaders, ReadOn, TurnTo, ServerPhase, Drop, BackTo
  <2>11. CASE ResponseHdrTimesOut
    <3>1. /\ pc = "res_hdrs"
          /\ \E h, s : /\ GiveUp(h, s)
                      /\ \/ h = res
                         \/ IsCut(serv_fd) /\ Line(serv_fd).t = "hdr" /\ h = Line(serv_fd)
      BY <2>11 DEF ResponseHdrTimesOut
    <3>2. PICK h, s : /\ GiveUp(h, s)
                      /\ \/ h = res
                         \/ IsCut(serv_fd) /\ Line(serv_fd).t = "hdr" /\ h = Line(serv_fd)
      BY <3>1
    <3>3. pc \in ServerPhase
      BY <3>1 DEF ServerPhase
    <3>4. CASE Drop("servers", s)
      BY <3>4 DEF Drop, BackTo, ServerPhase
    <3>5. CASE h # NULL /\ res' = [h EXCEPT !.t = "cut"] /\ ReadOn("res_body")
      <4>1. IsCut(serv_fd) => CanTake(serv_fd) /\ Line(serv_fd) \in Message
        BY <3>3, CutThere, ReadSocket, TakeSockets DEF SessionInv, SocketsInv, SessionTypes
      <4>2. h \in Header
        BY <3>2, <3>5, <4>1 DEF SessionInv, SocketsInv, SessionTypes, Message, IfLate
      <4>3. res'.r = h.r
        BY <3>5, <4>2 DEF Header
      <4> QED BY <3>2, <3>3, <3>5, <4>1, <4>3 DEF ReadOn, TurnTo
    <3> QED BY <3>2, <3>4, <3>5 DEF GiveUp
  <2>5. CASE ResponseHdrAtEnd \/ ReadBody \/ BodyAtEnd
    BY <2>5 DEF ResponseHdrAtEnd, ReadBody, BodyAtEnd, ServerPhase, Drop, BackTo, Stop,
                Answer, AskSame
  <2>6. CASE \E j \in Idx : BeginClient(j) \/ BeginServer(j)
    <3>1. res' = res /\ pc \in {"clients", "servers"}
      BY <2>6 DEF BeginClient, BeginServer
    <3> QED BY <3>1 DEF SessionInv, SocketsInv, SessionTypes
  <2>7. CASE RequestSteps
    BY <2>7 DEF RequestSteps, ReadRequestLine, RequestLineTimesOut, RequestLineAtEnd,
                ReadRequestHdr, RequestHdrTimesOut, RequestHdrAtEnd, BadUri, StartRequest,
                StartStale, Refuse, HeadersRead, TurnTo, Stop, BackTo, ServerPhase
  <2>8. CASE \E a \in SrvAddr : UseConn(a) \/ MakeConn(a) \/ AskElsewhere(a)
    BY <2>8 DEF UseConn, MakeConn, AskElsewhere, TurnTo, BackTo, ServerPhase
  <2>9. CASE ServersFull \/ RejectRequest \/ Forward \/ AskOverflows \/ PhaseEnds \/ Select
    BY <2>9 DEF ServersFull, RejectRequest, Forward, AskOverflows, PhaseEnds, Select, Stop,
                Drop, BackTo, ServerPhase
  <2>10. CASE AcceptError
    BY <2>10 DEF AcceptError, loopVars, ServerPhase
  <2> QED BY <2>1, <2>2, <2>3, <2>4, <2>5, <2>6, <2>7, <2>8, <2>9, <2>10, <2>11
          DEF Next, Serve, RequestSteps, Deliver, ServerAnswers, Ask, PeerStops
<1>2. PICK r, k : r = res'.r /\ k = conn
  OBVIOUS
<1>3. Pair(k)' = Pair(k)
  BY <1>1 DEF Pair, tableVars, clientVars, serverVars, connVars
<1>4. Noted(k, r)
  <2>1. CASE res # NULL /\ res'.r = res.r
    BY <1>1, <1>2, <2>1 DEF SessionInv, Accounted
  <2>2. CASE CanTake(serv_fd) /\ Line(serv_fd).t = "hdr" /\ res'.r = Line(serv_fd).r
    <3>1. /\ serv_fd \in Fd /\ sock[serv_fd] # NULL /\ ConnFd(conn) = serv_fd
          /\ conn \in Live(conn_l) /\ sock \in Sockets
      BY <1>1, ReadSocket DEF SessionInv, SocketsInv, SessionTypes, Live
    <3>2. r = Line(serv_fd).r
      BY <1>2, <2>2
    <3>3. Carries(sock[serv_fd], r) /\ Line(serv_fd) \in Message
      BY <2>2, <3>1, <3>2, TakeSockets
    <3>4. r \in Request
      BY <2>2, <3>2, <3>3 DEF Message, IfLate, Header
    <3>5. serv_fd # -1
      BY <3>1 DEF Fd
    <3> QED BY <1>2, <3>1, <3>3, <3>4, <3>5 DEF SessionInv, Accounted
  <2> QED BY <1>1, <2>1, <2>2
<1>5. Noted(k, r)'
  BY <1>3, <1>4, NotedStays
<1>6. conn' = k /\ res'.r = r
  BY <1>1, <1>2
<1> QED BY <1>5, <1>6 DEF Noted, Pair

\* One step of the process, a peer or the network.
LEMMA SessionStep ==
    ASSUME TableInv, HandsOn, SessionInv, [Next]_proxyVars
    PROVE  SessionInv'
<1>1. TableInv' /\ [TableNext]_tableVars
  BY ProxyStep, NextInv
<1>2. PlainSteps \/ Forward \/ ResponseSteps \/ \E a \in SrvAddr : AskElsewhere(a)
  BY DEF Next, Serve, PlainSteps, RequestSteps, ResponseSteps
<1>3. /\ SocketsInv' /\ thru \subseteq thru' /\ (nolist # NULL => nolist' # NULL)
      /\ \E F, q : /\ Adds(F, q)
                   /\ \A k \in Live(conn_l)' : ConnFd(k)' \in F \ {-1} => Noted(k, q)'
  <2>1. CASE PlainSteps
    <3>1. SocketsInv' /\ Adds({}, NULL) /\ UNCHANGED <<thru, nolist>>
      BY <2>1, PlainSockets, OtherNotes DEF SessionInv
    <3> QED BY <3>1
  <2>2. CASE Forward
    <3>1. /\ SocketsInv' /\ Adds({ConnFd(conn)}, req.get)
          /\ nolist # NULL => nolist' # NULL
          /\ req.get.kind = "list" => nolist' # NULL
      BY <2>2, ForwardSockets DEF SessionInv
    <3>2. UNCHANGED tableVars /\ thru' = thru \cup {Pair(conn)} /\ conn \in Live(conn_l)
      BY <2>2 DEF Forward, AddThru, HandsOn, Live
    <3>3. PICK F, q, m : F = {ConnFd(conn)} /\ q = req.get /\ m = conn
      OBVIOUS
    <3>4. ASSUME NEW k \in Live(conn_l)', ConnFd(k)' \in F \ {-1}
          PROVE  Noted(k, q)'
      <4>1. k \in Live(conn_l) /\ ConnFd(k)' = ConnFd(k) /\ Pair(k)' = Pair(k)
        BY <3>2 DEF Live, ConnFd, Pair, tableVars, clientVars, serverVars, connVars
      <4>2. k = conn
        BY <3>2, <3>3, <3>4, <4>1, OwnSocket
      <4>3. Pair(k)' \in thru'
        BY <3>2, <4>1, <4>2
      <4> QED BY <3>1, <3>3, <4>3 DEF Noted
    <3> QED BY <3>1, <3>2, <3>3, <3>4
  <2>3. CASE ResponseSteps
    <3>1. /\ SocketsInv' /\ UNCHANGED <<thru, nolist>>
          /\ \/ Adds({}, NULL)
             \/ /\ Adds({ConnFd(conn)}, nolist) /\ pc = "res_body" /\ res.r.kind = "list"
      BY <2>3, ResponseSockets, OtherNotes
    <3>2. CASE Adds({}, NULL)
      BY <3>1, <3>2
    <3>3. CASE Adds({ConnFd(conn)}, nolist) /\ pc = "res_body" /\ res.r.kind = "list"
      <4>1. PICK F, q : F = {ConnFd(conn)} /\ q = nolist
        OBVIOUS
      <4>2. q.kind \in {"nolist", "junk"}
        BY <3>3, <4>1, NolistKnown
      <4> QED BY <3>1, <3>3, <4>1, <4>2 DEF Noted
    <3> QED BY <3>1, <3>2, <3>3
  <2>4. CASE \E a \in SrvAddr : AskElsewhere(a)
    <3>1. /\ SocketsInv' /\ UNCHANGED <<thru, nolist>>
          /\ nolist.kind \in {"nolist", "junk"} /\ \E F : Adds(F, nolist)
      BY <2>4, AskElsewhereSockets, OtherNotes
    <3>2. PICK q : q = nolist
      OBVIOUS
    <3> QED BY <3>1, <3>2 DEF Noted
  <2> QED BY <1>2, <2>1, <2>2, <2>3, <2>4
<1>4. SocketsHeld /\ SocketsHeld' /\ Accounted
  BY <1>3 DEF SessionInv, SocketsInv
<1>5. \A k \in Live(conn_l)' : ConnFd(k)' # -1 =>
         \A r \in Request : Carries(sock'[ConnFd(k)'], r) => Noted(k, r)'
  BY <1>1, <1>3, <1>4, AccountedKept
<1>6. (pc \in ServerPhase /\ res # NULL => Noted(conn, res.r))'
  BY <1>3, ResponseNoted
<1>7. Accounted'
  BY <1>5, <1>6 DEF Accounted, Carries
<1> QED BY <1>3, <1>7 DEF SessionInv

LEMMA SessionInit == Init => SessionInv
<1> SUFFICES ASSUME Init PROVE SessionInv
  OBVIOUS
<1>1. Live(client_l) = {} /\ Live(server_l) = {} /\ Live(conn_l) = {}
  BY DEF Init, TableInit, Live
<1>2. SocketsHeld
  BY <1>1 DEF Init, SocketsHeld, ClientFds, ServerFds
<1>3. SessionTypes /\ ServedReported
  BY DEF Init, SessionTypes, ServedReported, Sockets, ClientPhase, ServerPhase
<1>4. Accounted
  BY <1>1 DEF Init, Accounted
<1> QED BY <1>2, <1>3, <1>4 DEF SessionInv, SocketsInv

\* Every socket holds lines, and the process has a request or a response in hand
\* where it uses one; what comes back over a conn was noted when it was forwarded,
\* with the addresses of the conn and, for a manifest, the request made of it.
THEOREM SessionAlways == Spec => []SessionInv
<1>1. TableInv /\ HandsOn /\ SessionInv /\ [Next]_proxyVars => SessionInv'
  BY SessionStep
<1> QED BY <1>1, SessionInit, ProxyTablesCorrect, HandsOnAlways, PTL DEF Spec

\* Whatever answer server2client accounts for, loggin and update_thruput find the
\* entry of its two addresses in thru_l.
THEOREM ThruAlwaysFound == Spec => []ThruFound
<1>1. SessionInv => ThruFound
  <2> SUFFICES ASSUME SessionInv, pc = "res_body",
                      Type(res.r) = "f4f" \/ res.r.kind = "list"
               PROVE  Pair(conn) \in thru
    BY DEF ThruFound
  <2>1. res # NULL /\ pc \in ServerPhase
    BY DEF SessionInv, SocketsInv, SessionTypes, ServerPhase
  <2>2. res.r.kind \notin {"nolist", "junk"}
    BY DEF Type
  <2> QED BY <2>1, <2>2 DEF SessionInv, Accounted, Noted
<1> QED BY <1>1, SessionAlways, PTL
=============================================================================
