---------------------------- MODULE RequestProofs ----------------------------
(***************************************************************************)
(* Proofs about Proxy that follow a request on its way, from the browser   *)
(* through client2server to a web server, and its answer back: the browser *)
(* gets the answer to what it has asked for, and no request is forgotten.  *)
(***************************************************************************)
EXTENDS ProxyProofs

-----------------------------------------------------------------------------
(* Where a request is *)

\* client2server has read the request line of the client in slot c.
InHand(c) == pc \in {"req_hdrs", "lookup", "forward"} /\ cur = c

\* What comes from the peer and is not read yet.
Ahead(fd) == sock[fd].inb \o sock[fd].out

\* A request of the client is on its way to a web server.
Asked(c) == InHand(c) \/ Ahead(client_l[c].fd) # <<>>

\* What a web server sends to a request that is not refused: for a manifest first
\* the manifest itself, then the one without bitrates.
Matches(ask, r) ==
    /\ ask # NULL /\ ask.kind # "bad"
    /\ r = ask \/ (ask.kind = "list" /\ r = [ask EXCEPT !.kind = "nolist"])

\* The socket of the conn k carries an answer to r.
Holds(k, r) == ConnFd(k) # -1 /\ Carries(sock[ConnFd(k)], r)

\* server2client has read a header of a response to the client.
InReply(c) == pc \in ServerPhase /\ res # NULL /\ conn_l[conn].clit_idx = c

Host  == [t |-> "host"]
Blank == [t |-> "blank"]

\* The client has not sent more than the request that it waits for.
Stream(c) ==
    /\ ~InHand(c) => \/ Ahead(client_l[c].fd) = <<>>
                     \/ /\ asks[client_l[c].fd] # NULL
                        /\ Ahead(client_l[c].fd) = RequestText(asks[client_l[c].fd])
    /\ InHand(c) => asks[client_l[c].fd] # NULL /\ req.get = asks[client_l[c].fd]
    /\ InHand(c) /\ pc = "req_hdrs" =>
          Ahead(client_l[c].fd) \in {<<Host, Blank>>, <<Blank>>}
    /\ InHand(c) /\ pc # "req_hdrs" => Ahead(client_l[c].fd) = <<>>
    /\ InHand(c) /\ pc = "forward" => req.get.kind # "bad"

\* Once, and in one place, an answer to that request is on its way back.
Answers(c) ==
    /\ \A k \in ConnsOfClient(c) : ConnFd(k) # -1 => Single(sock[ConnFd(k)])
    /\ \A k \in ConnsOfClient(c), r \in Request :
          Holds(k, r) => Matches(asks[client_l[c].fd], r) /\ ~Asked(c)
    /\ \A k, m \in ConnsOfClient(c), r, q \in Request : Holds(k, r) /\ Holds(m, q) => k = m
    /\ InReply(c) => /\ Matches(asks[client_l[c].fd], res.r) /\ ~Asked(c)
                     /\ \A k \in ConnsOfClient(c), r \in Request : ~Holds(k, r)

Up(fd) == sock[fd].down = "up"

ClientsProper ==
    Running => \A c \in Live(client_l) : Up(client_l[c].fd) => Stream(c) /\ Answers(c)

\* Only browsers that are there ask for something.
AsksProper ==
    /\ asks \in [Fd -> Requests \cup {NULL}]
    /\ \A fd \in Fd : asks[fd] # NULL => fd \in ClientFds /\ Up(fd)

\* nolist_buf asks for a manifest that somebody may have asked for.
NolistProper ==
    nolist # NULL => \E r \in Requests : r.kind = "list" /\ nolist = [r EXCEPT !.kind = "nolist"]

\* Web servers reset no connection.
NoResets == \A fd \in ServerFds : sock[fd].down # "rst"

RequestInv == AnswersOwn /\ AsksProper /\ NolistProper /\ NoResets /\ ClientsProper

\* What the answers depend on: a web server does not reset a connection in the
\* middle of a response, a line is not waited for longer than the polls, a flag is
\* not taken as it was left, all requests are GETs, and there is one manifest.
Orderly ==
    /\ Faults \cap {"srv_rst", "slow"} = {} /\ "flag" \notin Residue
    /\ \A r \in Requests : r.kind # "post"
    /\ \A r, q \in Requests : r.kind = "list" /\ q.kind = "list" => r = q

-----------------------------------------------------------------------------
(* Lines in front *)

\* Taking from the first of two sequences, and moving from the second to it.
LEMMA HeadOfConcat ==
    ASSUME NEW S, NEW q \in Seq(S), NEW u \in Seq(S), q # <<>>
    PROVE  Head(q \o u) = Head(q) /\ Tail(q \o u) = Tail(q) \o u /\ q \o u # <<>>
<1> DEFINE w == q \o u
<1>1. /\ w \in Seq(S) /\ Len(w) = Len(q) + Len(u) /\ Len(q) \in Nat \ {0} /\ Len(u) \in Nat
      /\ \A i \in 1 .. Len(q) + Len(u) : w[i] = IF i <= Len(q) THEN q[i] ELSE u[i - Len(q)]
  BY ConcatProperties, LenProperties, EmptySeq
<1>2. w # <<>>
  BY <1>1, EmptySeq
<1>3. /\ Tail(w) \in Seq(S) /\ Len(Tail(w)) = Len(w) - 1
      /\ \A i \in 1 .. Len(Tail(w)) : Tail(w)[i] = w[i + 1]
  BY <1>1, <1>2, HeadTailProperties
<1>4. /\ Tail(q) \in Seq(S) /\ Len(Tail(q)) = Len(q) - 1
      /\ \A i \in 1 .. Len(Tail(q)) : Tail(q)[i] = q[i + 1]
  BY HeadTailProperties
<1> DEFINE v == Tail(q) \o u
<1>5. /\ v \in Seq(S) /\ Len(v) = Len(Tail(q)) + Len(u)
      /\ \A i \in 1 .. Len(Tail(q)) + Len(u) :
            v[i] = IF i <= Len(Tail(q)) THEN Tail(q)[i] ELSE u[i - Len(Tail(q))]
  BY <1>4, ConcatProperties
<1> HIDE DEF v, w
<1>6. Len(v) = Len(Tail(w))
  BY <1>1, <1>3, <1>4, <1>5
<1>7. ASSUME NEW i \in 1 .. Len(Tail(w)) PROVE Tail(w)[i] = v[i]
  <2>1. Tail(w)[i] = w[i + 1] /\ i + 1 \in 1 .. Len(q) + Len(u)
    BY <1>1, <1>3, <1>7
  <2>2. CASE i <= Len(q) - 1
    BY <1>1, <1>3, <1>4, <1>5, <2>1, <2>2
  <2>3. CASE ~(i <= Len(q) - 1)
    BY <1>1, <1>3, <1>4, <1>5, <2>1, <2>3
  <2> QED BY <2>2, <2>3
<1>8. Tail(w) = v
  BY <1>3, <1>5, <1>6, <1>7, SeqEqual
<1>9. Head(w) = w[1] /\ Head(q) = q[1]
  OBVIOUS
<1>10. w[1] = q[1]
  BY <1>1
<1> QED BY <1>2, <1>8, <1>9, <1>10 DEF v, w

LEMMA MovedConcat ==
    ASSUME NEW S, NEW q \in Seq(S), NEW u \in Seq(S), u # <<>>
    PROVE  Append(q, Head(u)) \o Tail(u) = q \o u
<1>1. /\ Head(u) \in S /\ Tail(u) \in Seq(S) /\ <<Head(u)>> \in Seq(S)
  BY HeadTailProperties
<1>2. Append(q, Head(u)) = q \o <<Head(u)>>
  BY <1>1, AppendIsConcat
<1>3. <<Head(u)>> \o Tail(u) = u
  <2> DEFINE v == <<Head(u)>> \o Tail(u)
  <2>1. /\ Len(Tail(u)) = Len(u) - 1 /\ Len(u) \in Nat \ {0}
        /\ \A i \in 1 .. Len(Tail(u)) : Tail(u)[i] = u[i + 1]
        /\ Head(u) = u[1]
    BY HeadTailProperties, LenProperties, EmptySeq
  <2>2. /\ v \in Seq(S) /\ Len(v) = Len(<<Head(u)>>) + Len(Tail(u))
        /\ \A i \in 1 .. Len(<<Head(u)>>) + Len(Tail(u)) :
              v[i] = IF i <= Len(<<Head(u)>>) THEN <<Head(u)>>[i] ELSE Tail(u)[i - Len(<<Head(u)>>)]
    BY <1>1, ConcatProperties
  <2>3. Len(<<Head(u)>>) = 1 /\ <<Head(u)>>[1] = Head(u)
    OBVIOUS
  <2> HIDE DEF v
  <2>4. Len(v) = Len(u) /\ \A i \in 1 .. Len(v) : v[i] = u[i]
    BY <2>1, <2>2, <2>3
  <2>5. v = u
    BY <2>2, <2>4, SeqEqual
  <2> QED BY <2>5 DEF v
<1> QED BY <1>1, <1>2, <1>3, ConcatAssociative

LEMMA PairConcat ==
    ASSUME NEW x, NEW y, NEW z
    PROVE  <<x>> \o <<y>> = <<x, y>> /\ <<x, y>> \o <<z>> = <<x, y, z>>
<1> DEFINE S == {x, y, z}
<1>1. /\ <<x>> \in Seq(S) /\ <<y>> \in Seq(S) /\ <<x, y>> \in Seq(S)
      /\ <<z>> \in Seq(S) /\ <<x, y, z>> \in Seq(S)
      /\ Len(<<x>>) = 1 /\ Len(<<y>>) = 1 /\ Len(<<z>>) = 1
      /\ Len(<<x, y>>) = 2 /\ Len(<<x, y, z>>) = 3
  OBVIOUS
<1> HIDE DEF S
<1>2. ASSUME NEW q \in Seq(S), NEW e \in S, <<e>> \in Seq(S), Len(<<e>>) = 1
      PROVE  /\ q \o <<e>> \in Seq(S) /\ Len(q \o <<e>>) = Len(q) + 1 /\ Len(q) \in Nat
             /\ \A i \in 1 .. Len(q) : (q \o <<e>>)[i] = q[i]
             /\ (q \o <<e>>)[Len(q) + 1] = e
  <2>1. /\ q \o <<e>> \in Seq(S) /\ Len(q \o <<e>>) = Len(q) + 1 /\ Len(q) \in Nat
        /\ \A i \in 1 .. Len(q) + 1 :
              (q \o <<e>>)[i] = IF i <= Len(q) THEN q[i] ELSE <<e>>[i - Len(q)]
    BY <1>2, ConcatProperties, LenProperties
  <2>2. Len(q) + 1 - Len(q) = 1 /\ <<e>>[1] = e
    BY <2>1
  <2> QED BY <2>1, <2>2
<1>3. x \in S /\ y \in S /\ z \in S
  BY DEF S
<1>4. <<x>> \o <<y>> = <<x, y>>
  <2> DEFINE w == <<x>> \o <<y>>
  <2>1. w \in Seq(S) /\ Len(w) = 2 /\ w[1] = <<x>>[1] /\ w[2] = y
    BY <1>1, <1>2, <1>3
  <2> HIDE DEF w
  <2>2. \A i \in 1 .. 2 : w[i] = <<x, y>>[i]
    BY <2>1
  <2>3. w = <<x, y>>
    BY <1>1, <2>1, <2>2, SeqEqual
  <2> QED BY <2>3 DEF w
<1>5. <<x, y>> \o <<z>> = <<x, y, z>>
  <2> DEFINE w == <<x, y>> \o <<z>>
  <2>1. /\ w \in Seq(S) /\ Len(w) = 3 /\ w[1] = <<x, y>>[1] /\ w[2] = <<x, y>>[2]
        /\ w[3] = z
    BY <1>1, <1>2, <1>3
  <2> HIDE DEF w
  <2>2. \A i \in 1 .. 3 : w[i] = <<x, y, z>>[i]
    BY <2>1
  <2>3. w = <<x, y, z>>
    BY <1>1, <2>1, <2>2, SeqEqual
  <2> QED BY <2>3 DEF w
<1> QED BY <1>4, <1>5

\* The text of a request, line by line.
LEMMA TextLines ==
    ASSUME NEW r \in Requests
    PROVE  /\ Head(RequestText(r)) = [t |-> "line", r |-> r]
           /\ Tail(RequestText(r)) \in {<<Host, Blank>>, <<Blank>>}
           /\ RequestText(r) # <<>>
<1> DEFINE line == [t |-> "line", r |-> r]
<1>1. CASE r.kind = "nohost"
  <2>1. RequestText(r) = <<line>> \o <<>> \o <<Blank>>
    BY <1>1 DEF RequestText, Blank
  <2> HIDE DEF line
  <2>2. <<line>> \o <<>> \o <<Blank>> = <<line, Blank>>
    <3>1. <<line>> \in Seq({line})
      OBVIOUS
    <3>2. <<line>> \o <<>> = <<line>>
      BY <3>1, ConcatEmptySeq
    <3> QED BY <3>2, PairConcat
  <2>3. Head(<<line, Blank>>) = line /\ Tail(<<line, Blank>>) = <<Blank>> /\ <<line, Blank>> # <<>>
    OBVIOUS
  <2> QED BY <2>1, <2>2, <2>3 DEF line
<1>2. CASE r.kind # "nohost"
  <2>1. RequestText(r) = <<line>> \o <<Host>> \o <<Blank>>
    BY <1>2 DEF RequestText, Blank, Host
  <2> HIDE DEF line
  <2>2. <<line>> \o <<Host>> \o <<Blank>> = <<line, Host, Blank>>
    BY PairConcat
  <2>3. /\ Head(<<line, Host, Blank>>) = line
        /\ Tail(<<line, Host, Blank>>) = <<Host, Blank>> /\ <<line, Host, Blank>> # <<>>
    OBVIOUS
  <2> QED BY <2>1, <2>2, <2>3 DEF line
<1> QED BY <1>1, <1>2

LEMMA HeaderLines ==
    /\ Head(<<Host, Blank>>) = Host /\ Tail(<<Host, Blank>>) = <<Blank>>
    /\ Head(<<Blank>>) = Blank /\ Tail(<<Blank>>) = <<>>
    /\ <<Host, Blank>> # <<>> /\ <<Blank>> # <<>>
OBVIOUS

-----------------------------------------------------------------------------
(* Clients, their conns and sockets over a step *)

\* What holds of every step: the tables are changed by their operations, and what
\* is proved of tables and sessions holds before and after.
Stepping ==
    /\ TableInv /\ TableInv' /\ [TableNext]_tableVars /\ HandsOn
    /\ SessionInv /\ SessionInv'

\* The socket of a client is its own.
LEMMA ClientSocket ==
    ASSUME TableInv
    PROVE  \A c \in Live(client_l) :
              /\ c \in Idx /\ client_l[c] # NULL /\ client_l[c] \in Client
              /\ client_l[c].fd \in ClientFds /\ client_l[c].fd \in Fd
              /\ client_l[c].fd \notin ServerFds /\ client_l[c].fd \in open_fds
              /\ \A d \in Live(client_l) : client_l[d].fd = client_l[c].fd => d = c
<1> SUFFICES ASSUME NEW c \in Live(client_l)
             PROVE  /\ c \in Idx /\ client_l[c] # NULL /\ client_l[c] \in Client
                    /\ client_l[c].fd \in ClientFds /\ client_l[c].fd \in Fd
                    /\ client_l[c].fd \notin ServerFds /\ client_l[c].fd \in open_fds
                    /\ \A d \in Live(client_l) : client_l[d].fd = client_l[c].fd => d = c
  OBVIOUS
<1>1. c \in Idx /\ client_l[c] # NULL /\ client_l[c] \in Client
  BY DEF TableInv, TypeOK, Live
<1>2. client_l[c].fd \in ClientFds
  BY DEF ClientFds
<1> QED BY <1>1, <1>2 DEF TableInv, FdOwnership, TypeOK

\* So is the socket of a conn.
LEMMA ConnSockets ==
    ASSUME TableInv
    PROVE  /\ \A k \in Live(conn_l) : /\ conn_l[k].clit_idx \in Live(client_l)
                                      /\ ConnFd(k) \in ServerFds \/ ConnFd(k) = -1
                                      /\ ConnFd(k) # -1 => ConnFd(k) \in Fd
           /\ \A k, m \in Live(conn_l) : ConnFd(k) = ConnFd(m) /\ ConnFd(k) # -1 => k = m
<1>1. ASSUME NEW k \in Live(conn_l)
      PROVE  /\ conn_l[k].clit_idx \in Live(client_l)
             /\ ConnFd(k) \in ServerFds \/ ConnFd(k) = -1
             /\ ConnFd(k) # -1 => ConnFd(k) \in Fd
  <2>1. /\ conn_l[k] \in Conn /\ conn_l[k].serv_idx \in Live(server_l)
        /\ conn_l[k].clit_idx \in Live(client_l)
    BY <1>1 DEF TableInv, NoDangling, TypeOK, Live, Conn
  <2>2. ConnFd(k) \in ServerFds \/ ConnFd(k) = -1
    BY <2>1 DEF ServerFds, ConnFd
  <2> QED BY <2>1, <2>2 DEF TableInv, FdOwnership, TypeOK
<1>2. ASSUME NEW k \in Live(conn_l), NEW m \in Live(conn_l), ConnFd(k) = ConnFd(m), ConnFd(k) # -1
      PROVE  k = m
  BY <1>2, OwnSocket
<1> QED BY <1>1, <1>2

OwnSockets == \A k, m \in Live(conn_l) : ConnFd(k) = ConnFd(m) /\ ConnFd(k) # -1 => k = m

LEMMA OwnSocketsAfter == TableInv' => OwnSockets'
<1>1. TableInv => OwnSockets
  BY ConnSockets DEF OwnSockets
<1> QED BY <1>1, PTL

\* A client keeps its descriptor, and a new one has a descriptor that nobody had.
LEMMA ClientKept ==
    ASSUME TableInv, [TableNext]_tableVars, NEW c \in Live(client_l)'
    PROVE  \/ c \in Live(client_l) /\ client_l'[c].fd = client_l[c].fd
           \/ c \notin Live(client_l) /\ \E fd \in Fd, a \in Addr : Accept(fd, a)
<1>1. CASE \E fd \in Fd, a \in Addr : Accept(fd, a)
  <2>1. PICK fd \in Fd, a \in Addr : Accept(fd, a)
    BY <1>1
  <2>2. \A j \in Live(client_l) : client_l'[j] = client_l[j]
    BY <2>1, AcceptInv
  <2> QED BY <1>1, <2>2
<1>2. CASE \E d \in Idx, r \in Fd \cup {-1}, a \in Addr : OpenConn(d, r, a)
  BY <1>2, OpenConnInv
<1>3. CASE \E k \in Idx : CloseConn(k)
  <2>1. PICK k \in Idx : CloseConn(k)
    BY <1>3
  <2>2. /\ Live(client_l)' \subseteq Live(client_l)
        /\ \A j \in Live(client_l)' : client_l'[j].fd = client_l[j].fd
    BY <2>1, CloseConnInv
  <2> QED BY <2>2
<1>4. CASE UNCHANGED <<clientVars>>
  BY <1>4 DEF clientVars, Live
<1> QED BY <1>1, <1>2, <1>3, <1>4 DEF TableNext, tableVars, AcceptFails, Overflow

\* After the step the sockets of a client's conns carry what they did before, or q
\* on one of F.
LEMMA HeldAfter ==
    ASSUME Stepping, NEW F, NEW q, Adds(F, q), NEW c
    PROVE  /\ \A k \in ConnsOfClient(c)', r \in Request : Holds(k, r)' =>
                 \/ k \in ConnsOfClient(c) /\ Holds(k, r)
                 \/ ConnFd(k)' \in F \ {-1} /\ r = q
           /\ (\A k \in ConnsOfClient(c) : ConnFd(k) # -1 =>
                  /\ Single(sock[ConnFd(k)])
                  /\ ConnFd(k) \in F => \A r \in Request : ~Holds(k, r))
              => \A k \in ConnsOfClient(c)' : ConnFd(k)' # -1 => Single(sock'[ConnFd(k)'])
<1> USE DEF Stepping
<1>1. ASSUME NEW k \in ConnsOfClient(c)', ConnFd(k)' # -1
      PROVE  /\ ConnFd(k)' \in Fd /\ sock'[ConnFd(k)'] # NULL
             /\ sock[ConnFd(k)'] # NULL => k \in ConnsOfClient(c) /\ ConnFd(k) = ConnFd(k)'
  <2>1. k \in Live(conn_l)' /\ conn_l'[k].clit_idx = c
    BY DEF ConnsOfClient
  <2>2. ConnFd(k)' \in Fd /\ sock'[ConnFd(k)'] # NULL
    <3>1. conn_l'[k] \in Conn /\ conn_l'[k].serv_idx \in Live(server_l)'
      BY <2>1 DEF TableInv, NoDangling, TypeOK, Live, Conn
    <3>2. ConnFd(k)' \in Fd
      BY <1>1, <3>1 DEF TableInv, TypeOK, Live, Server, ConnFd
    <3>3. ConnFd(k)' \in ServerFds'
      BY <1>1, <3>1 DEF ServerFds, ConnFd
    <3> QED BY <3>2, <3>3 DEF SessionInv, SocketsInv, SocketsHeld
  <2>3. ASSUME sock[ConnFd(k)'] # NULL
        PROVE  k \in ConnsOfClient(c) /\ ConnFd(k) = ConnFd(k)'
    <3>1. ConnFd(k)' \in open_fds
      BY <2>2, <2>3 DEF SessionInv, SocketsInv, SocketsHeld, TableInv, FdOwnership
    <3>2. k \in Live(conn_l) /\ ConnFd(k)' = ConnFd(k) /\ conn_l'[k] = conn_l[k]
      BY <1>1, <2>1, <3>1, ConnKept
    <3> QED BY <2>1, <3>2 DEF ConnsOfClient
  <2> QED BY <2>2, <2>3
<1>2. ASSUME NEW k \in ConnsOfClient(c)', NEW r \in Request, Holds(k, r)'
      PROVE  \/ k \in ConnsOfClient(c) /\ Holds(k, r)
             \/ ConnFd(k)' \in F \ {-1} /\ r = q
  <2>1. ConnFd(k)' # -1 /\ Carries(sock'[ConnFd(k)'], r)
    BY <1>2 DEF Holds, Carries
  <2>2. \/ sock[ConnFd(k)'] # NULL /\ Carries(sock[ConnFd(k)'], r)
        \/ ConnFd(k)' \in F /\ r = q
    BY <1>1, <2>1 DEF Adds
  <2> QED BY <1>1, <2>1, <2>2 DEF Holds
<1>3. ASSUME \A k \in ConnsOfClient(c) : ConnFd(k) # -1 =>
                /\ Single(sock[ConnFd(k)])
                /\ ConnFd(k) \in F => \A r \in Request : ~Holds(k, r),
             NEW k \in ConnsOfClient(c)', ConnFd(k)' # -1
      PROVE  Single(sock'[ConnFd(k)'])
  <2>1. CASE sock[ConnFd(k)'] = NULL
    BY <1>1, <1>3, <2>1 DEF Adds
  <2>2. CASE sock[ConnFd(k)'] # NULL
    <3>1. k \in ConnsOfClient(c) /\ ConnFd(k) = ConnFd(k)'
      BY <1>1, <1>3, <2>2
    <3>2. Single(sock[ConnFd(k)']) /\ (ConnFd(k)' \in F => Idle(sock[ConnFd(k)']))
      BY <1>3, <3>1 DEF Holds, Idle
    <3> QED BY <1>1, <1>3, <3>2 DEF Adds
  <2> QED BY <2>1, <2>2
<1> QED BY <1>2, <1>3

\* Nothing comes to the client's conns, and the process takes up no answer to it.
LEMMA AnswersKept ==
    ASSUME Stepping, NEW F, NEW q, Adds(F, q), NEW c, Answers(c),
           client_l'[c].fd = client_l[c].fd,
           asks'[client_l[c].fd] = asks[client_l[c].fd],
           Asked(c)' => Asked(c), InReply(c)' => InReply(c) /\ res' = res,
           \A k \in ConnsOfClient(c) : ConnFd(k) \notin F \ {-1},
           \A k \in ConnsOfClient(c)' : ConnFd(k)' \notin F \ {-1}
    PROVE  Answers(c)'
<1>1. \A k \in ConnsOfClient(c)' : ConnFd(k)' # -1 => Single(sock'[ConnFd(k)'])
  BY HeldAfter DEF Answers
<1>2. \A k \in ConnsOfClient(c)', r \in Request :
         Holds(k, r)' => k \in ConnsOfClient(c) /\ Holds(k, r)
  BY HeldAfter
<1>3. \A k \in ConnsOfClient(c)', r \in Request :
         Holds(k, r)' => Matches(asks[client_l[c].fd], r)' /\ ~Asked(c)'
  BY <1>2 DEF Answers, Matches
<1>4. \A k, m \in ConnsOfClient(c)', r, p \in Request : Holds(k, r)' /\ Holds(m, p)' => k = m
  BY <1>2 DEF Answers
<1>5. InReply(c)' => /\ Matches(asks[client_l[c].fd], res.r)' /\ ~Asked(c)'
                     /\ \A k \in ConnsOfClient(c)', r \in Request : ~Holds(k, r)'
  BY <1>2 DEF Answers, Matches
<1> QED BY <1>1, <1>3, <1>4, <1>5 DEF Answers, Holds, Carries

\* Nothing was on its way to the client; q may be now, on one conn.
LEMMA AnswersOnly ==
    ASSUME Stepping, NEW F, NEW q, Adds(F, q), NEW c, Answers(c),
           \A k \in ConnsOfClient(c), r \in Request : ~Holds(k, r),
           ~InReply(c)',
           \A k \in ConnsOfClient(c)' :
              ConnFd(k)' \in F \ {-1} => Matches(asks[client_l[c].fd], q)' /\ ~Asked(c)',
           \A k, m \in ConnsOfClient(c)' :
              ConnFd(k)' \in F \ {-1} /\ ConnFd(m)' \in F \ {-1} => k = m
    PROVE  Answers(c)'
<1>1. \A k \in ConnsOfClient(c)' : ConnFd(k)' # -1 => Single(sock'[ConnFd(k)'])
  BY HeldAfter DEF Answers
<1>2. \A k \in ConnsOfClient(c)', r \in Request :
         Holds(k, r)' => ConnFd(k)' \in F \ {-1} /\ r = q
  BY HeldAfter
<1>3. \A k \in ConnsOfClient(c)', r \in Request :
         Holds(k, r)' => Matches(asks[client_l[c].fd], r)' /\ ~Asked(c)'
  BY <1>2 DEF Matches
<1>4. \A k, m \in ConnsOfClient(c)', r, p \in Request : Holds(k, r)' /\ Holds(m, p)' => k = m
  BY <1>2
<1> QED BY <1>1, <1>3, <1>4 DEF Answers, Holds, Carries

\* A client that is there after the step was there before it, and proper.
LEMMA Before ==
    ASSUME Stepping, RequestInv, Running, NEW F, NEW q, Adds(F, q),
           NEW c \in Live(client_l)', c \in Live(client_l), Up(client_l[c].fd)'
    PROVE  /\ client_l'[c].fd = client_l[c].fd /\ client_l[c].fd \in Fd
           /\ client_l[c].fd \in ClientFds \ ServerFds /\ client_l[c].fd \in ClientFds'
           /\ client_l[c].fd \in open_fds' /\ client_l[c].fd \in open_fds
           /\ Up(client_l[c].fd) /\ Stream(c) /\ Answers(c)
           /\ sock[client_l[c].fd] \in Socket
           /\ asks[client_l[c].fd] # NULL => asks[client_l[c].fd] \in Requests
<1> USE DEF Stepping
<1>1. client_l'[c].fd = client_l[c].fd
  BY ClientKept
<1>2. /\ client_l[c].fd \in Fd /\ client_l[c].fd \in ClientFds \ ServerFds
      /\ client_l[c].fd \in open_fds
  BY ClientSocket
<1>3. client_l[c].fd \in ClientFds'
  BY <1>1 DEF ClientFds
<1>4. /\ sock[client_l[c].fd] # NULL /\ sock[client_l[c].fd] \in Socket
      /\ sock'[client_l[c].fd] # NULL /\ client_l[c].fd \in open_fds'
  BY <1>2, <1>3 DEF SessionInv, SocketsInv, SessionTypes, SocketsHeld, Sockets, TableInv,
                    FdOwnership
<1>5. Up(client_l[c].fd)
  <2>1. sock'[client_l[c].fd].down = "up"
    BY <1>1 DEF Up
  <2>2. Goes(sock'[client_l[c].fd], sock[client_l[c].fd]) \/ Resets(client_l[c].fd)
    BY <1>2, <1>4 DEF Adds
  <2>3. ASSUME Resets(client_l[c].fd) PROVE FALSE
    <3>1. sock'[client_l[c].fd] =
             [sock[client_l[c].fd] EXCEPT !.down = "rst", !.out = <<>>, !.owed = <<>>]
      BY <1>2, <2>3 DEF Resets, PeerStops, SessionInv, SocketsInv, SessionTypes, Sockets
    <3>2. sock'[client_l[c].fd].down = "rst"
      BY <1>4, <3>1 DEF Socket
    <3> QED BY <2>1, <3>2
  <2> QED BY <2>1, <2>2, <2>3 DEF Goes, Up
<1> QED BY <1>1, <1>2, <1>3, <1>4, <1>5 DEF RequestInv, ClientsProper, AsksProper

\* A client that the step is not about.
LEMMA Bystander ==
    ASSUME Stepping, NEW F, NEW q, Adds(F, q), NEW c, Stream(c), Answers(c),
           client_l'[c].fd = client_l[c].fd, ~InHand(c), ~InHand(c)',
           Ahead(client_l[c].fd)' = Ahead(client_l[c].fd),
           asks'[client_l[c].fd] = asks[client_l[c].fd],
           InReply(c)' => InReply(c) /\ res' = res,
           \A k \in ConnsOfClient(c) : ConnFd(k) \notin F \ {-1},
           \A k \in ConnsOfClient(c)' : ConnFd(k)' \notin F \ {-1}
    PROVE  Stream(c)' /\ Answers(c)'
<1>1. Stream(c)'
  BY DEF Stream
<1>2. Asked(c)' => Asked(c)
  BY DEF Asked
<1> QED BY <1>1, <1>2, AnswersKept

-----------------------------------------------------------------------------
(* Lines that come in time *)

\* No line is cut short, and no response is read without its headers.
LEMMA InTime ==
    ASSUME Stepping, "slow" \notin Faults
    PROVE  /\ \A fd : ~TimesOut(fd) /\ ~IsCut(fd)
           /\ ~RequestLineTimesOut /\ ~RequestHdrTimesOut /\ ~ResponseHdrTimesOut /\ ~SkipHeaders
           /\ ReadResponseHdr => Line(serv_fd).t = "hdr"
           /\ pc = "res_body" => /\ res.t = "hdr" /\ BodyTaken = Take(serv_fd)
                                 /\ BodyThere <=> CanTake(serv_fd)
<1>1. \A fd : ~TimesOut(fd) /\ ~IsCut(fd)
  BY DEF TimesOut, IsCut
<1>2. pc = "res_body" => res.t = "hdr"
  BY DEF Stepping, SessionInv, SocketsInv, SessionTypes, Header, IfLate
<1>3. pc = "res_body" => BodyTaken = Take(serv_fd) /\ (BodyThere <=> CanTake(serv_fd))
  BY <1>2 DEF BodyTaken, BodyThere
<1>4. ~RequestLineTimesOut /\ ~RequestHdrTimesOut /\ ~ResponseHdrTimesOut /\ ~SkipHeaders
  BY <1>1, <1>2 DEF RequestLineTimesOut, RequestHdrTimesOut, ResponseHdrTimesOut, SkipHeaders
<1>5. ASSUME ReadResponseHdr PROVE Line(serv_fd).t = "hdr"
  <2>1. pc \in ServerPhase /\ CanTake(serv_fd) /\ Line(serv_fd).t \in {"hdr", "rest"}
    BY <1>5 DEF ReadResponseHdr, ServerPhase
  <2>2. serv_fd \in Fd /\ sock[serv_fd] # NULL /\ sock \in Sockets
    BY <2>1, ReadSocket DEF Stepping, SessionInv, SocketsInv, SessionTypes
  <2>3. Line(serv_fd) \in Message
    BY <2>1, <2>2, TakeSockets
  <2> QED BY <2>1, <2>3 DEF Message, Header, IfLate
<1> QED BY <1>1, <1>2, <1>3, <1>4, <1>5

-----------------------------------------------------------------------------
(* The turns of the loop *)

\* A new browser has not asked for anything; the others go on as they were.
LEMMA SelectProper ==
    ASSUME Stepping, RequestInv, Select, NEW c \in Live(client_l)', Up(client_l[c].fd)'
    PROVE  Stream(c)' /\ Answers(c)'
<1>1. /\ Adds({}, NULL) /\ Running /\ UNCHANGED asks
      /\ pc' = "clients" /\ pc = "select"
  BY SelectSockets DEF Select, Stepping, SessionInv, Running
<1>2. ~InHand(c) /\ ~InHand(c)' /\ ~InReply(c)'
  BY <1>1 DEF InHand, InReply, ServerPhase
<1>3. CASE c \in Live(client_l)
  <2>1. /\ client_l'[c].fd = client_l[c].fd /\ client_l[c].fd \in Fd
        /\ client_l[c].fd \in open_fds /\ Stream(c) /\ Answers(c)
    BY <1>1, <1>3, Before
  <2>2. sock'[client_l[c].fd] = sock[client_l[c].fd]
    <3>1. ASSUME NEW fd \in Fd, NEW a \in ClitAddr, Accept(fd, a), sock' = [sock EXCEPT ![fd] = Open]
          PROVE  sock'[client_l[c].fd] = sock[client_l[c].fd]
      <4>1. fd # client_l[c].fd
        BY <2>1, <3>1 DEF Accept, LowestFreeFd
      <4> QED BY <2>1, <3>1, <4>1 DEF Stepping, SessionInv, SocketsInv, SessionTypes, Sockets
    <3> QED BY <3>1 DEF Select
  <2>3. Ahead(client_l[c].fd)' = Ahead(client_l[c].fd)
    BY <2>1, <2>2 DEF Ahead
  <2> QED BY <1>1, <1>2, <2>1, <2>3, Bystander
<1>4. CASE c \notin Live(client_l)
  <2>1. PICK fd \in Fd, a \in Addr : Accept(fd, a) /\ sock' = [sock EXCEPT ![fd] = Open]
    <3>1. CASE UNCHANGED tableVars
      BY <1>4, <3>1 DEF tableVars, clientVars, Live
    <3> QED BY <3>1, ProxyAssumption DEF Select
  <2>2. client_l'[c].fd = fd
    BY <1>4, <2>1, AcceptInv DEF Stepping
  <2>3. sock'[fd] = Open
    BY <2>1 DEF Stepping, SessionInv, SocketsInv, SessionTypes, Sockets
  <2>4. Ahead(client_l[c].fd)' = <<>>
    <3>1. <<>> \o <<>> = <<>>
      OBVIOUS
    <3> QED BY <2>2, <2>3, <3>1 DEF Ahead, Open
  <2>5. ConnsOfClient(c)' = {}
    <3>1. conn_l' = conn_l
      BY <2>1 DEF Accept, connVars
    <3> QED BY <1>4, <3>1, ConnSockets DEF ConnsOfClient, Live, Stepping
  <2> QED BY <1>2, <2>4, <2>5 DEF Stream, Answers
<1> QED BY <1>3, <1>4

\* The scans, and a failure of accept().
LEMMA ScanProper ==
    ASSUME Stepping, RequestInv,
           AcceptError \/ PhaseEnds \/ \E j \in Idx : BeginClient(j) \/ BeginServer(j),
           NEW c \in Live(client_l)', Up(client_l[c].fd)'
    PROVE  Stream(c)' /\ Answers(c)'
<1>1. Adds({}, NULL)
  BY AcceptErrorSockets, PhaseEndsSockets, BeginSockets DEF Stepping, SessionInv
<1>2. /\ UNCHANGED <<sock, asks, res, client_l>>
      /\ pc \in {"select", "clients", "servers"}
      /\ pc' \in {"select", "clients", "servers", "req_line", "res_hdrs"}
  <2>1. CASE AcceptError
    BY <2>1 DEF AcceptError, AcceptFails, clientVars, peerVars, loopVars
  <2>2. CASE PhaseEnds
    BY <2>2 DEF PhaseEnds, tableVars, clientVars, peerVars
  <2>3. CASE \E j \in Idx : BeginClient(j) \/ BeginServer(j)
    BY <2>3 DEF BeginClient, BeginServer, TurnTo, tableVars, clientVars
  <2> QED BY <2>1, <2>2, <2>3
<1>3. res = NULL
  BY <1>2 DEF Stepping, SessionInv, SocketsInv, SessionTypes
<1>4. ~InHand(c) /\ ~InHand(c)' /\ ~InReply(c)' /\ Running /\ c \in Live(client_l)
  BY <1>2, <1>3 DEF InHand, InReply, Running, Live
<1>5. /\ client_l'[c].fd = client_l[c].fd /\ Stream(c) /\ Answers(c)
      /\ Ahead(client_l[c].fd)' = Ahead(client_l[c].fd)
  BY <1>1, <1>2, <1>4, Before DEF Ahead
<1> QED BY <1>1, <1>2, <1>4, <1>5, Bystander

-----------------------------------------------------------------------------
(* client2server *)

\* A line taken from the socket is the first one of those ahead.
LEMMA LineTaken ==
    ASSUME sock \in Sockets, NEW fd \in Fd, sock[fd] # NULL, CanTake(fd), sock' = Take(fd)
    PROVE  /\ Ahead(fd) # <<>> /\ Line(fd) = Head(Ahead(fd))
           /\ sock'[fd].inb \o sock'[fd].out = Tail(Ahead(fd))
           /\ \A f \in Fd \ {fd} : sock'[f] = sock[f]
<1>1. sock[fd] \in Socket /\ sock[fd].inb # <<>>
  BY DEF Sockets, CanTake
<1>2. sock'[fd] = [sock[fd] EXCEPT !.inb = Tail(@)] /\ \A f \in Fd \ {fd} : sock'[f] = sock[f]
  BY DEF Take, Sockets
<1>3. sock'[fd].inb = Tail(sock[fd].inb) /\ sock'[fd].out = sock[fd].out
  BY <1>1, <1>2 DEF Socket
<1>4. sock[fd].inb \in Seq(Message) /\ sock[fd].out \in Seq(Message)
  BY <1>1, SocketParts
<1>5. /\ Head(Ahead(fd)) = Head(sock[fd].inb) /\ Ahead(fd) # <<>>
      /\ Tail(Ahead(fd)) = Tail(sock[fd].inb) \o sock[fd].out
  BY <1>1, <1>4, HeadOfConcat DEF Ahead
<1> QED BY <1>2, <1>3, <1>5 DEF Line

\* The steps of client2server up to the lookup, on one socket.
LEMMA RequestOthers ==
    ASSUME Stepping, RequestInv, Orderly, RequestSteps, Running', NEW c \in Live(client_l)',
           c # cur, Up(client_l[c].fd)'
    PROVE  Stream(c)' /\ Answers(c)'
<1>1. Adds({}, NULL) /\ UNCHANGED tableVars
  BY RequestSockets, RequestStep DEF Stepping, SessionInv
<1>2. /\ pc \in ClientPhase /\ UNCHANGED client_l
      /\ sock' = sock \/ (sock' = Take(clit_fd) /\ CanTake(clit_fd))
      /\ asks' = asks \/ asks' = [asks EXCEPT ![clit_fd] = NULL]
      /\ (pc' \in ClientPhase /\ cur' = cur) \/ pc' = "clients"
  <2>1. client_l' = client_l
    BY <1>1 DEF tableVars, clientVars
  <2>2. CASE ReadRequestLine
    BY <2>1, <2>2 DEF ReadRequestLine, ClientPhase, StartRequest, StartStale, TurnTo, Refuse,
                      BackTo, Tell
  <2>3. CASE RequestLineAtEnd
    BY <2>1, <2>3 DEF RequestLineAtEnd, ClientPhase, StartRequest, StartStale, TurnTo, Refuse,
                      BackTo, Tell
  <2>4. CASE ReadRequestHdr
    BY <2>1, <2>4 DEF ReadRequestHdr, ClientPhase, HeadersRead, TurnTo
  <2>5. CASE RequestLineTimesOut \/ RequestHdrTimesOut
    BY <2>5, InTime DEF Orderly
  <2>6. CASE RequestHdrAtEnd
    BY <2>1, <2>6 DEF RequestHdrAtEnd, ClientPhase, HeadersRead, TurnTo, Stop, Running
  <2>7. CASE BadUri
    BY <2>1, <2>7 DEF BadUri, ClientPhase, Refuse, BackTo, Tell
  <2> QED BY <2>2, <2>3, <2>4, <2>5, <2>6, <2>7 DEF RequestSteps
<1>3. c \in Live(client_l) /\ Running
  BY <1>2 DEF Live, Running, ClientPhase
<1>4. /\ client_l'[c].fd = client_l[c].fd /\ Stream(c) /\ Answers(c)
      /\ client_l[c].fd \in Fd
  BY <1>1, <1>3, Before
<1>5. /\ clit_fd \in Fd /\ clit_fd # client_l[c].fd /\ sock[clit_fd] # NULL
      /\ sock \in Sockets /\ asks \in [Fd -> Requests \cup {NULL}]
  <2>1. cur \in Live(client_l) /\ clit_fd \in Fd /\ sock[clit_fd] # NULL
    BY <1>2, ReadSocket DEF Stepping, SessionInv, Live
  <2>2. clit_fd # client_l[c].fd
    BY <1>3, <2>1, ClientSocket DEF Stepping, clit_fd
  <2> QED BY <2>1, <2>2 DEF Stepping, SessionInv, SocketsInv, SessionTypes, RequestInv,
                            AsksProper
<1>6. sock'[client_l[c].fd] = sock[client_l[c].fd]
  BY <1>2, <1>4, <1>5, LineTaken
<1>7. /\ Ahead(client_l[c].fd)' = Ahead(client_l[c].fd)
      /\ asks'[client_l[c].fd] = asks[client_l[c].fd]
  BY <1>2, <1>4, <1>5, <1>6 DEF Ahead
<1>8. ~InHand(c) /\ ~InHand(c)' /\ ~InReply(c)'
  BY <1>2 DEF InHand, InReply, ClientPhase, ServerPhase
<1> QED BY <1>1, <1>4, <1>7, <1>8, Bystander

LEMMA RequestOwn ==
    ASSUME Stepping, RequestInv, Orderly, RequestSteps, Running', NEW c \in Live(client_l)',
           c = cur, Up(client_l[c].fd)'
    PROVE  Stream(c)' /\ Answers(c)'
<1>1. Adds({}, NULL) /\ UNCHANGED tableVars
  BY RequestSockets, RequestStep DEF Stepping, SessionInv
<1>2. /\ pc \in ClientPhase /\ client_l' = client_l /\ Running /\ c \in Live(client_l)
  BY <1>1 DEF RequestSteps, ReadRequestLine, RequestLineTimesOut, RequestLineAtEnd,
              ReadRequestHdr, RequestHdrTimesOut, RequestHdrAtEnd, BadUri, ClientPhase, Running, tableVars,
              clientVars, Live
<1> DEFINE fd == clit_fd
<1>3. /\ client_l[c].fd = fd /\ fd \in Fd /\ Up(fd) /\ Stream(c) /\ Answers(c)
      /\ asks[fd] # NULL => asks[fd] \in Requests
      /\ sock[fd] # NULL /\ sock[fd] \in Socket /\ sock \in Sockets
      /\ client_l'[c].fd = client_l[c].fd
  BY <1>1, <1>2, Before, SocketParts DEF clit_fd, Stepping, SessionInv, SocketsInv, SessionTypes
<1>4. ~AtEnd(fd) /\ ~RequestLineTimesOut /\ ~RequestHdrTimesOut
  BY <1>3, InTime DEF AtEnd, Up, Orderly
<1>5. PICK ask : ask = asks[fd]
  OBVIOUS
<1>6. PICK q : q = Ahead(fd)
  OBVIOUS
<1>7. CASE ReadRequestLine
  <2>1. /\ pc = "req_line" /\ CanTake(fd) /\ sock' = Take(fd)
    BY <1>7 DEF ReadRequestLine
  <2>2. /\ q # <<>> /\ Line(fd) = Head(q) /\ sock'[fd].inb \o sock'[fd].out = Tail(q)
    BY <1>3, <1>6, <2>1, LineTaken
  <2>3. ask \in Requests /\ q = RequestText(ask)
    BY <1>3, <1>5, <1>6, <2>1, <2>2 DEF Stream, InHand
  <2>4. /\ Line(fd) = [t |-> "line", r |-> ask] /\ Tail(q) \in {<<Host, Blank>>, <<Blank>>}
    BY <2>2, <2>3, TextLines
  <2>5. IsGet(Line(fd)) /\ Line(fd).r = ask /\ Line(fd).t = "line"
    BY <2>3, <2>4 DEF IsGet, Orderly
  <2>6. /\ StartRequest(ask) /\ asks' = asks
    BY <1>7, <2>5 DEF ReadRequestLine, StartRequest, TurnTo
  <2>7. pc' = "req_hdrs" /\ req'.get = ask /\ cur' = cur
    BY <2>6 DEF StartRequest, TurnTo
  <2>8. Stream(c)'
    <3>1. ask # NULL
      BY <2>3, ProxyAssumption, NoValueAssumption DEF Request
    <3> QED BY <1>2, <1>3, <1>5, <2>2, <2>4, <2>6, <2>7, <3>1 DEF Stream, InHand, Ahead
  <2>9. Asked(c) /\ ~InReply(c)'
    BY <1>3, <1>6, <2>2, <2>7 DEF Asked, InReply, ServerPhase
  <2> QED BY <1>1, <1>3, <2>6, <2>8, <2>9, AnswersKept
<1>8. CASE ReadRequestHdr
  <2>1. /\ pc = "req_hdrs" /\ CanTake(fd) /\ sock' = Take(fd)
    BY <1>8 DEF ReadRequestHdr
  <2>2. /\ Line(fd) = Head(q) /\ sock'[fd].inb \o sock'[fd].out = Tail(q)
    BY <1>3, <1>6, <2>1, LineTaken
  <2>3. /\ InHand(c) /\ q \in {<<Host, Blank>>, <<Blank>>}
        /\ ask # NULL /\ req.get = ask
    BY <1>3, <1>5, <1>6, <2>1 DEF Stream, InHand
  <2>4. \/ Line(fd) = Host /\ Tail(q) = <<Blank>>
        \/ Line(fd) = Blank /\ Tail(q) = <<>>
    BY <2>2, <2>3, HeaderLines
  <2>5. req # NULL /\ req \in Reading
    BY <2>1 DEF Stepping, SessionInv, SocketsInv, SessionTypes
  <2>6. /\ asks' = asks /\ cur' = cur /\ req'.get = req.get
        /\ \/ pc' = "req_hdrs" /\ Line(fd).t # "blank"
           \/ pc' = "lookup" /\ Line(fd).t = "blank"
    <3>1. CASE Line(fd).t = "blank"
      BY <1>8, <2>5, <3>1 DEF ReadRequestHdr, HeadersRead, TurnTo, Reading
    <3>2. CASE Line(fd).t # "blank"
      BY <1>8, <2>5, <3>2 DEF ReadRequestHdr, TurnTo, Reading
    <3> QED BY <3>1, <3>2
  <2>7. \/ pc' = "req_hdrs" /\ Tail(q) = <<Blank>>
        \/ pc' = "lookup" /\ Tail(q) = <<>>
    <3>1. Host.t # "blank" /\ Blank.t = "blank"
      BY DEF Host, Blank
    <3> QED BY <2>4, <2>6, <3>1
  <2>8. Stream(c)'
    BY <1>2, <1>3, <1>5, <2>2, <2>3, <2>6, <2>7 DEF Stream, InHand, Ahead
  <2>9. Asked(c) /\ ~InReply(c)'
    BY <2>3, <2>6 DEF Asked, InReply, ServerPhase
  <2> QED BY <1>1, <1>3, <2>6, <2>8, <2>9, AnswersKept
<1>9. CASE BadUri
  <2>1. /\ pc = "lookup" /\ sock' = sock /\ Refuse("404")
    BY <1>9 DEF BadUri
  <2>2. InHand(c) /\ Asked(c) /\ q = <<>>
    BY <1>3, <1>6, <2>1 DEF Stream, InHand, Asked
  <2>3. pc' = "clients" /\ asks' = [asks EXCEPT ![fd] = NULL]
    BY <1>3, <2>1 DEF Refuse, Tell, BackTo, Up
  <2>4. ~InHand(c)' /\ ~InReply(c)'
    BY <2>3 DEF InHand, InReply, ServerPhase
  <2>5. Stream(c)'
    BY <1>3, <1>6, <2>1, <2>2, <2>4 DEF Stream, Ahead
  <2>6. \A k \in ConnsOfClient(c), r \in Request : ~Holds(k, r)
    BY <1>3, <2>2 DEF Answers
  <2> QED BY <1>1, <1>3, <2>4, <2>5, <2>6, AnswersOnly
<1> QED BY <1>4, <1>7, <1>8, <1>9 DEF RequestSteps, RequestLineAtEnd, RequestHdrAtEnd

\* resolve() has returned, and the client has a conn for its request.
LEMMA LookupProper ==
    ASSUME Stepping, RequestInv, NEW a \in SrvAddr, UseConn(a) \/ MakeConn(a),
           NEW c \in Live(client_l)', Up(client_l[c].fd)'
    PROVE  Stream(c)' /\ Answers(c)'
<1>1. Adds({}, NULL)
  BY LookupSockets DEF Stepping, SessionInv
<1>2. /\ pc = "lookup" /\ pc' = "forward" /\ req.get.kind # "bad"
      /\ UNCHANGED <<cur, req, asks>>
      /\ sock' = sock \/ \E r \in Fd \cup {-1} : OpenConn(cur, r, a) /\ sock' = Connected(sock, r)
      /\ UNCHANGED tableVars \/ \E r \in Fd \cup {-1} : OpenConn(cur, r, a)
  <2>1. CASE UseConn(a)
    BY <2>1 DEF UseConn, TurnTo
  <2>2. CASE MakeConn(a)
    BY <2>2 DEF MakeConn, Connect, NewConn
  <2> QED BY <2>1, <2>2
<1>3. a \in Addr /\ cur \in Idx /\ Running
  BY <1>2, ProxyAssumption DEF Stepping, HandsOn, Running
<1>4. c \in Live(client_l)
  BY <1>2, <1>3, OpenConnInv DEF Stepping, tableVars, clientVars, Live
<1>5. /\ client_l'[c].fd = client_l[c].fd /\ Stream(c) /\ Answers(c)
      /\ client_l[c].fd \in open_fds /\ client_l[c].fd \in Fd
  BY <1>1, <1>3, <1>4, Before
<1>6. sock'[client_l[c].fd] = sock[client_l[c].fd]
  <2>1. ASSUME NEW r \in Fd \cup {-1}, OpenConn(cur, r, a), sock' = Connected(sock, r)
        PROVE  sock'[client_l[c].fd] = sock[client_l[c].fd]
    <3>1. r # client_l[c].fd \/ r = -1
      BY <1>3, <1>5, <2>1, OpenConnInv DEF Stepping
    <3> QED BY <1>5, <2>1, <3>1 DEF Connected, Stepping, SessionInv, SocketsInv, SessionTypes,
                                    Sockets
  <2> QED BY <1>2, <2>1
<1>7. InHand(c)' <=> InHand(c)
  BY <1>2 DEF InHand
<1>8. Stream(c)'
  BY <1>2, <1>5, <1>6, <1>7 DEF Stream, Ahead, InHand
<1>9. (Asked(c)' => Asked(c)) /\ ~InReply(c)'
  BY <1>2, <1>5, <1>6, <1>7 DEF Asked, Ahead, InReply, ServerPhase
<1> QED BY <1>1, <1>2, <1>5, <1>8, <1>9, AnswersKept

\* close_conn, called by client2server for the client it serves or by server2client;
\* s are the sockets after what was read from the server.
LEMMA DropProper ==
    ASSUME Stepping, RequestInv, NEW phase \in {"clients", "servers"}, NEW s, Drop(phase, s),
           pc \in {"forward"} \cup ServerPhase,
           SameSockets(s, sock), \A fd \in ClientFds : s[fd] = sock[fd],
           NEW c \in Live(client_l)', Up(client_l[c].fd)'
    PROVE  Stream(c)' /\ Answers(c)'
<1>1. /\ CloseConn(conn) /\ sock' = Surviving(s) /\ asks' = Surviving(asks)
      /\ pc' = phase
  BY DEF Drop, BackTo
<1>2. Adds({}, NULL) /\ Running /\ conn \in Idx /\ c \in Live(client_l)
  <2>1. conn \in Idx /\ Live(client_l)' \subseteq Live(client_l)
    BY <1>1, CloseConnInv DEF Stepping, HandsOn
  <2>2. Adds({}, NULL)
    BY DroppedSockets DEF Stepping, SessionInv
  <2> QED BY <2>1, <2>2 DEF Running, ServerPhase
<1>3. /\ client_l'[c].fd = client_l[c].fd /\ Stream(c) /\ Answers(c)
      /\ client_l[c].fd \in Fd /\ client_l[c].fd \in open_fds' /\ client_l[c].fd \in ClientFds
  BY <1>2, Before
<1>4. /\ Ahead(client_l[c].fd)' = Ahead(client_l[c].fd)
      /\ asks'[client_l[c].fd] = asks[client_l[c].fd]
  BY <1>1, <1>3 DEF Surviving, Ahead
<1>5. ~InHand(c)' /\ ~InReply(c)'
  BY <1>1 DEF InHand, InReply, ServerPhase
<1>6. InHand(c) => Ahead(client_l[c].fd) = <<>>
  BY <1>3 DEF Stream, InHand, ServerPhase
<1>7. Stream(c)'
  BY <1>3, <1>4, <1>5, <1>6 DEF Stream
<1>8. Asked(c)' => Asked(c)
  BY <1>3, <1>4, <1>5 DEF Asked
<1> QED BY <1>2, <1>3, <1>4, <1>5, <1>7, <1>8, AnswersKept

LEMMA RejectProper ==
    ASSUME Stepping, RequestInv, RejectRequest, NEW c \in Live(client_l)',
           Up(client_l[c].fd)'
    PROVE  Stream(c)' /\ Answers(c)'
<1>1. Drop("clients", sock) /\ pc = "forward"
  BY DEF RejectRequest
<1>2. SameSockets(sock, sock)
  BY KeptSockets DEF Stepping, SessionInv, SocketsInv, SessionTypes
<1> QED BY <1>1, <1>2, DropProper

\* The conn in hand is one of its client's, and no one else's.
LEMMA OthersConns ==
    ASSUME TableInv, conn \in Live(conn_l), NEW c, c # conn_l[conn].clit_idx
    PROVE  \A k \in ConnsOfClient(c) : ConnFd(k) # -1 => ConnFd(k) # ConnFd(conn)
BY OwnSocket DEF ConnsOfClient

\* The request goes on its way to the web server.
LEMMA ForwardProper ==
    ASSUME Stepping, RequestInv, Forward, NEW c \in Live(client_l)', Up(client_l[c].fd)'
    PROVE  Stream(c)' /\ Answers(c)'
<1>1. PICK F, q : F = {ConnFd(conn)} /\ q = req.get
  OBVIOUS
<1>2. /\ Adds(F, q) /\ pc = "forward" /\ pc' = "clients" /\ Running
      /\ UNCHANGED <<tableVars, asks>> /\ req.get \in Request
  BY <1>1, ForwardSockets DEF Stepping, SessionInv, Forward, BackTo, Running
<1>3. /\ conn \in Live(conn_l) /\ conn_l[conn].clit_idx = cur
      /\ sock' = Write(sock, ConnFd(conn), req.get)
      /\ ConnFd(conn) \in ServerFds \/ ConnFd(conn) = -1
      /\ \A k : ConnFd(k)' = ConnFd(k)
      /\ \A d : ConnsOfClient(d)' = ConnsOfClient(d)
      /\ c \in Live(client_l)
  <2>1. conn \in Live(conn_l) /\ conn_l[conn].clit_idx = cur
    BY <1>2 DEF Stepping, HandsOn, Live
  <2>2. ConnFd(conn) \in ServerFds \/ ConnFd(conn) = -1
    BY <2>1, ConnSockets DEF Stepping
  <2> QED BY <1>2, <2>1, <2>2 DEF Forward, ConnFd, ConnsOfClient, Live, tableVars, clientVars,
                                  serverVars, connVars
<1>4. /\ client_l'[c].fd = client_l[c].fd /\ Stream(c) /\ Answers(c)
      /\ client_l[c].fd \in Fd /\ client_l[c].fd \notin ServerFds
      /\ asks[client_l[c].fd] # NULL => asks[client_l[c].fd] \in Requests
  BY <1>2, <1>3, Before
<1>5. Ahead(client_l[c].fd)' = Ahead(client_l[c].fd)
  <2>1. sock'[client_l[c].fd] = sock[client_l[c].fd]
    <3>1. CASE ConnFd(conn) = -1
      BY <1>3, <3>1 DEF Write
    <3>2. CASE ConnFd(conn) # client_l[c].fd
      BY <1>3, <1>4, <3>2 DEF Write, Stepping, SessionInv, SocketsInv, SessionTypes, Sockets
    <3> QED BY <1>3, <1>4, <3>1, <3>2
  <2> QED BY <1>4, <2>1 DEF Ahead
<1>6. ~InHand(c)' /\ ~InReply(c)'
  BY <1>2 DEF InHand, InReply, ServerPhase
<1>7. CASE c # cur
  <2>1. \A k \in ConnsOfClient(c) : ConnFd(k) \notin F \ {-1}
    BY <1>1, <1>3, <1>7, OthersConns DEF Stepping
  <2>2. ~InHand(c)
    BY <1>7 DEF InHand
  <2> QED BY <1>2, <1>3, <1>4, <1>5, <1>6, <2>1, <2>2, Bystander
<1>8. CASE c = cur
  <2>1. /\ InHand(c) /\ Ahead(client_l[c].fd) = <<>>
        /\ asks[client_l[c].fd] # NULL /\ q = asks[client_l[c].fd] /\ q.kind # "bad"
    BY <1>1, <1>2, <1>4, <1>8 DEF InHand, Stream
  <2>2. Stream(c)'
    BY <1>5, <1>6, <2>1 DEF Stream
  <2>3. \A k \in ConnsOfClient(c), r \in Request : ~Holds(k, r)
    BY <1>4, <2>1 DEF Answers, Asked
  <2>4. \A k \in ConnsOfClient(c)' :
           ConnFd(k)' \in F \ {-1} => Matches(asks[client_l[c].fd], q)' /\ ~Asked(c)'
    <3>1. ~Asked(c)'
      BY <1>5, <1>6, <2>1 DEF Asked
    <3>2. Matches(asks[client_l[c].fd], q)'
      BY <1>2, <1>4, <2>1 DEF Matches
    <3> QED BY <3>1, <3>2
  <2>5. \A k, m \in ConnsOfClient(c)' :
           ConnFd(k)' \in F \ {-1} /\ ConnFd(m)' \in F \ {-1} => k = m
    BY <1>1, <1>3, ConnSockets DEF ConnsOfClient, Stepping
  <2> QED BY <1>2, <1>4, <1>6, <2>2, <2>3, <2>4, <2>5, AnswersOnly
<1> QED BY <1>7, <1>8

-----------------------------------------------------------------------------
(* server2client *)

\* The response in hand comes over a conn whose socket is the one that is read.
LEMMA ServedConn ==
    ASSUME Stepping, pc \in ServerPhase
    PROVE  /\ Running /\ conn \in Live(conn_l) /\ ConnFd(conn) = serv_fd
           /\ conn_l[conn].clit_idx \in Live(client_l)
           /\ client_fd = client_l[conn_l[conn].clit_idx].fd
           /\ serv_fd \in Fd /\ serv_fd \in ServerFds /\ serv_fd # -1
           /\ sock[serv_fd] # NULL /\ sock \in Sockets
           /\ \A c : ~InHand(c)
           /\ \A c : pc = "res_body" /\ conn_l[conn].clit_idx = c => InReply(c)
<1>1. /\ conn \in Live(conn_l) /\ ConnFd(conn) = serv_fd /\ serv_fd \in Fd
      /\ sock[serv_fd] # NULL /\ sock \in Sockets
  BY ReadSocket DEF Stepping, SessionInv, SocketsInv, SessionTypes, Live
<1>2. conn_l[conn].clit_idx \in Live(client_l) /\ serv_fd \in ServerFds /\ serv_fd # -1
  <2>1. -1 \notin Fd
    BY DEF Fd
  <2> QED BY <1>1, <2>1, ConnSockets DEF Stepping
<1>3. \A c : ~InHand(c)
  BY DEF InHand, ServerPhase
<1>4. pc = "res_body" => res # NULL
  BY DEF Stepping, SessionInv, SocketsInv, SessionTypes
<1> QED BY <1>1, <1>2, <1>3, <1>4 DEF Running, ServerPhase, InReply, client_fd

\* The sockets of clients are left alone.
LEMMA ServedAlone ==
    ASSUME Stepping, pc \in ServerPhase, CanTake(serv_fd)
    PROVE  /\ SameSockets(Take(serv_fd), sock)
           /\ \A fd \in ClientFds : Take(serv_fd)[fd] = sock[fd]
<1>1. /\ serv_fd \in Fd /\ serv_fd \in ServerFds /\ sock[serv_fd] # NULL /\ sock \in Sockets
  BY ServedConn
<1>2. \A fd \in ClientFds : fd \in Fd \ {serv_fd}
  BY <1>1 DEF Stepping, TableInv, FdOwnership, TypeOK
<1> QED BY <1>1, <1>2, TakeSockets

\* A header has come, and its answer is in hand from there on.
LEMMA HeaderProper ==
    ASSUME Stepping, RequestInv, Orderly, ReadResponseHdr, NEW c \in Live(client_l)',
           Up(client_l[c].fd)'
    PROVE  Stream(c)' /\ Answers(c)'
<1>1. PICK r : r = Line(serv_fd).r
  OBVIOUS
<1>2. /\ pc = "res_hdrs" /\ pc \in ServerPhase /\ CanTake(serv_fd) /\ Line(serv_fd).t = "hdr"
      /\ sock' = Take(serv_fd) /\ res' = Line(serv_fd) /\ pc' = "res_hdrs"
      /\ UNCHANGED <<tableVars, conn, asks>>
  BY InTime DEF Orderly, ReadResponseHdr, ReadOn, TurnTo, ServerPhase
<1>3. /\ \A k : ConnFd(k)' = ConnFd(k)
      /\ \A d : ConnsOfClient(d)' = ConnsOfClient(d)
      /\ client_l' = client_l /\ conn_l' = conn_l /\ Live(client_l)' = Live(client_l)
  BY <1>2 DEF ConnFd, ConnsOfClient, Live, tableVars, clientVars, serverVars, connVars
<1>4. /\ Running /\ conn \in Live(conn_l) /\ ConnFd(conn) = serv_fd /\ serv_fd # -1
      /\ serv_fd \in Fd /\ sock[serv_fd] # NULL /\ sock \in Sockets /\ ~InHand(c)
  BY <1>2, ServedConn
<1>5. Adds({}, NULL) /\ \A fd \in ClientFds : Take(serv_fd)[fd] = sock[fd]
  BY <1>2, <1>4, ServedAlone, SameAdds
<1>6. /\ client_l'[c].fd = client_l[c].fd /\ Stream(c) /\ Answers(c)
      /\ client_l[c].fd \in ClientFds
  BY <1>3, <1>4, <1>5, Before
<1>7. /\ Ahead(client_l[c].fd)' = Ahead(client_l[c].fd)
      /\ asks'[client_l[c].fd] = asks[client_l[c].fd] /\ ~InHand(c)'
  BY <1>2, <1>3, <1>5, <1>6 DEF Ahead, InHand
<1>8. CASE c # conn_l[conn].clit_idx
  <2>1. ~InReply(c)'
    BY <1>2, <1>3, <1>8 DEF InReply
  <2> QED BY <1>4, <1>5, <1>6, <1>7, <2>1, Bystander
<1>9. CASE c = conn_l[conn].clit_idx
  <2>1. /\ conn \in ConnsOfClient(c) /\ Carries(sock[serv_fd], r) /\ r \in Request
        /\ Single(sock[serv_fd]) /\ Idle(sock'[serv_fd])
    <3>1. conn \in ConnsOfClient(c)
      BY <1>4, <1>9 DEF ConnsOfClient
    <3>2. Single(sock[serv_fd])
      BY <1>4, <1>6, <3>1 DEF Answers
    <3>3. Carries(sock[serv_fd], r) /\ Idle(sock'[serv_fd]) /\ Line(serv_fd) \in Message
      BY <1>1, <1>2, <1>4, <3>2, TakeSockets
    <3>4. r \in Request
      BY <1>1, <1>2, <3>3 DEF Message, Header, IfLate
    <3> QED BY <3>1, <3>2, <3>3, <3>4
  <2>2. Holds(conn, r)
    BY <1>4, <2>1 DEF Holds
  <2>3. Matches(asks[client_l[c].fd], r) /\ ~Asked(c)
    BY <1>6, <2>1, <2>2 DEF Answers
  <2>4. Stream(c)'
    BY <1>6, <1>7, <1>4 DEF Stream
  <2>5. \A k \in ConnsOfClient(c)' : ConnFd(k)' # -1 => Single(sock'[ConnFd(k)'])
    BY <1>5, <1>6, HeldAfter DEF Answers
  <2>6. ASSUME NEW k \in ConnsOfClient(c)', NEW q \in Request, Holds(k, q)' PROVE FALSE
    <3>1. k \in ConnsOfClient(c) /\ Holds(k, q)
      BY <1>5, <2>6, HeldAfter
    <3>2. k = conn
      BY <1>6, <2>1, <2>2, <3>1 DEF Answers
    <3>3. Carries(sock'[serv_fd], q)
      BY <1>3, <1>4, <2>6, <3>2 DEF Holds, Carries
    <3> QED BY <2>1, <3>3 DEF Idle
  <2>7. Matches(asks[client_l[c].fd], res.r)' /\ ~Asked(c)'
    BY <1>1, <1>2, <1>6, <1>7, <2>3 DEF Matches, Asked
  <2> QED BY <2>4, <2>5, <2>6, <2>7 DEF Answers
<1> QED BY <1>8, <1>9

\* The response is read on, and its client waits as it did.
LEMMA ReadOnProper ==
    ASSUME Stepping, RequestInv, pc \in ServerPhase, pc' \in ServerPhase, CanTake(serv_fd),
           sock' = Take(serv_fd), UNCHANGED <<tableVars, conn, res, asks>>,
           NEW c \in Live(client_l)', Up(client_l[c].fd)'
    PROVE  Stream(c)' /\ Answers(c)'
<1>1. /\ \A k : ConnFd(k)' = ConnFd(k)
      /\ \A d : ConnsOfClient(d)' = ConnsOfClient(d)
      /\ client_l' = client_l /\ conn_l' = conn_l /\ Live(client_l)' = Live(client_l)
  BY DEF ConnFd, ConnsOfClient, Live, tableVars, clientVars, serverVars, connVars
<1>2. Running /\ ~InHand(c) /\ sock \in Sockets
  BY ServedConn
<1>3. Adds({}, NULL) /\ \A fd \in ClientFds : Take(serv_fd)[fd] = sock[fd]
  BY <1>2, ServedAlone, SameAdds
<1>4. /\ client_l'[c].fd = client_l[c].fd /\ Stream(c) /\ Answers(c)
      /\ client_l[c].fd \in ClientFds
  BY <1>1, <1>2, <1>3, Before
<1>5. /\ Ahead(client_l[c].fd)' = Ahead(client_l[c].fd)
      /\ asks'[client_l[c].fd] = asks[client_l[c].fd] /\ ~InHand(c)'
  BY <1>1, <1>3, <1>4 DEF Ahead, InHand, ServerPhase
<1>6. InReply(c)' => InReply(c) /\ res' = res
  BY <1>1 DEF InReply
<1> QED BY <1>2, <1>3, <1>4, <1>5, <1>6, Bystander

\* The answer reaches its client, which then waits for nothing.
LEMMA ToldProper ==
    ASSUME Stepping, RequestInv, pc = "res_body", CanTake(serv_fd), NEW a,
           Tell(client_fd, a), sock' = Take(serv_fd), BackTo("servers"), UNCHANGED tableVars,
           NEW c \in Live(client_l)', Up(client_l[c].fd)'
    PROVE  Stream(c)' /\ Answers(c)'
<1>1. /\ client_l' = client_l /\ Live(client_l)' = Live(client_l)
      /\ pc' = "servers" /\ pc \in ServerPhase
  BY DEF Live, tableVars, clientVars, BackTo, ServerPhase
<1>2. /\ Running /\ ~InHand(c) /\ sock \in Sockets
      /\ client_fd = client_l[conn_l[conn].clit_idx].fd
      /\ conn_l[conn].clit_idx \in Live(client_l)
  BY <1>1, ServedConn
<1>3. Adds({}, NULL) /\ \A fd \in ClientFds : Take(serv_fd)[fd] = sock[fd]
  BY <1>1, <1>2, ServedAlone, SameAdds
<1>4. /\ client_l'[c].fd = client_l[c].fd /\ Stream(c) /\ Answers(c)
      /\ client_l[c].fd \in ClientFds /\ client_l[c].fd \in Fd /\ Up(client_l[c].fd)
  BY <1>1, <1>2, <1>3, Before
<1>5. /\ Ahead(client_l[c].fd)' = Ahead(client_l[c].fd) /\ ~InHand(c)' /\ ~InReply(c)'
  BY <1>1, <1>3, <1>4 DEF Ahead, InHand, InReply, ServerPhase
<1>6. CASE c # conn_l[conn].clit_idx
  <2>1. client_l[c].fd # client_fd
    BY <1>1, <1>2, <1>6, ClientSocket DEF Stepping
  <2>2. asks'[client_l[c].fd] = asks[client_l[c].fd]
    BY <1>4, <2>1 DEF Tell, RequestInv, AsksProper
  <2> QED BY <1>2, <1>3, <1>4, <1>5, <2>2, Bystander
<1>7. CASE c = conn_l[conn].clit_idx
  <2>1. InReply(c)
    BY <1>1, <1>7, ServedConn
  <2>2. /\ Ahead(client_l[c].fd) = <<>>
        /\ \A k \in ConnsOfClient(c), r \in Request : ~Holds(k, r)
    BY <1>4, <2>1 DEF Answers, Asked
  <2>3. Stream(c)'
    BY <1>5, <2>2 DEF Stream
  <2> QED BY <1>3, <1>4, <1>5, <2>2, <2>3, AnswersOnly
<1> QED BY <1>6, <1>7

\* What nolist_buf asks for is the manifest that the client has asked for.
LEMMA NolistMatches ==
    ASSUME Stepping, RequestInv, Orderly, pc = "res_body", res.r.kind = "list",
           NEW c \in Live(client_l), c = conn_l[conn].clit_idx, Answers(c),
           asks[client_l[c].fd] # NULL => asks[client_l[c].fd] \in Requests
    PROVE  /\ Matches(asks[client_l[c].fd], nolist) /\ ~Asked(c)
           /\ \A k \in ConnsOfClient(c), r \in Request : ~Holds(k, r)
<1>1. /\ Matches(asks[client_l[c].fd], res.r) /\ ~Asked(c)
      /\ \A k \in ConnsOfClient(c), r \in Request : ~Holds(k, r)
  BY ServedConn DEF Answers, ServerPhase
<1>2. PICK ask \in Requests : ask = asks[client_l[c].fd] /\ ask # NULL
  BY <1>1 DEF Matches
<1>3. ask.kind = "list"
  <2>1. ask \in [kind : Kind, video : Videos]
    BY ProxyAssumption
  <2>2. res.r = ask \/ res.r = [ask EXCEPT !.kind = "nolist"]
    BY <1>1, <1>2 DEF Matches
  <2>3. [ask EXCEPT !.kind = "nolist"].kind = "nolist"
    BY <2>1
  <2> QED BY <2>2, <2>3
<1>4. nolist # NULL
  BY NolistKnown, NoValueAssumption DEF Stepping
<1>5. PICK r \in Requests : r.kind = "list" /\ nolist = [r EXCEPT !.kind = "nolist"]
  BY <1>4 DEF RequestInv, NolistProper
<1>6. r = ask
  BY <1>2, <1>3, <1>5 DEF Orderly
<1> QED BY <1>1, <1>2, <1>3, <1>5, <1>6 DEF Matches

\* It is asked for on a socket of the client's, the same or a new one.
LEMMA AskAgainProper ==
    ASSUME Stepping, RequestInv, Orderly, pc = "res_body", res.r.kind = "list",
           BackTo("servers"), UNCHANGED asks,
           NEW F, NEW q, q = nolist, Adds(F, q), NEW d, d = conn_l[conn].clit_idx,
           \A k \in Live(conn_l) : ConnFd(k) \in F \ {-1} => conn_l[k].clit_idx = d,
           \A k \in Live(conn_l)' : ConnFd(k)' \in F \ {-1} => conn_l'[k].clit_idx = d,
           \A k, m \in Live(conn_l)' : ConnFd(k)' \in F \ {-1} /\ ConnFd(m)' \in F \ {-1} => k = m,
           \A fd \in ClientFds : sock'[fd] = sock[fd],
           NEW c \in Live(client_l)', c \in Live(client_l), Up(client_l[c].fd)'
    PROVE  Stream(c)' /\ Answers(c)'
<1>1. Running /\ ~InHand(c) /\ pc \in ServerPhase /\ pc' = "servers"
  BY ServedConn DEF ServerPhase, BackTo
<1>2. /\ client_l'[c].fd = client_l[c].fd /\ Stream(c) /\ Answers(c)
      /\ client_l[c].fd \in ClientFds
      /\ asks[client_l[c].fd] # NULL => asks[client_l[c].fd] \in Requests
  BY <1>1, Before
<1>3. /\ Ahead(client_l[c].fd)' = Ahead(client_l[c].fd) /\ ~InHand(c)' /\ ~InReply(c)'
      /\ asks'[client_l[c].fd] = asks[client_l[c].fd]
  BY <1>1, <1>2 DEF Ahead, InHand, InReply, ServerPhase
<1>4. CASE c # d
  BY <1>1, <1>2, <1>3, <1>4, Bystander DEF ConnsOfClient
<1>5. CASE c = d
  <2>1. /\ Matches(asks[client_l[c].fd], q) /\ ~Asked(c)
        /\ \A k \in ConnsOfClient(c), r \in Request : ~Holds(k, r)
    BY <1>2, <1>5, NolistMatches
  <2>2. Stream(c)'
    BY <1>1, <1>2, <1>3 DEF Stream
  <2>3. Matches(asks[client_l[c].fd], q)' /\ ~Asked(c)'
    BY <1>2, <1>3, <2>1 DEF Matches, Asked
  <2>4. \A k, m \in ConnsOfClient(c)' :
           ConnFd(k)' \in F \ {-1} /\ ConnFd(m)' \in F \ {-1} => k = m
    BY DEF ConnsOfClient
  <2> QED BY <1>2, <1>3, <2>1, <2>2, <2>3, <2>4, AnswersOnly
<1> QED BY <1>4, <1>5

LEMMA AskSameProper ==
    ASSUME Stepping, RequestInv, Orderly, pc = "res_body", CanTake(serv_fd),
           res.r.kind = "list", AskSame,
           NEW c \in Live(client_l)', Up(client_l[c].fd)'
    PROVE  Stream(c)' /\ Answers(c)'
<1>1. PICK F, q, d : F = {serv_fd} /\ q = nolist /\ d = conn_l[conn].clit_idx
  OBVIOUS
<1>2. /\ Adds(F, q) /\ BackTo("servers") /\ UNCHANGED <<tableVars, asks>>
      /\ sock' = Write(Take(serv_fd), serv_fd, nolist) /\ pc \in ServerPhase
  BY <1>1, AskSameSockets, InTime DEF AskSame, Stepping, ServerPhase, Orderly
<1>3. /\ \A k : ConnFd(k)' = ConnFd(k)
      /\ client_l' = client_l /\ conn_l' = conn_l
      /\ Live(client_l)' = Live(client_l) /\ Live(conn_l)' = Live(conn_l)
  BY <1>2 DEF ConnFd, Live, tableVars, clientVars, serverVars, connVars
<1>4. /\ conn \in Live(conn_l) /\ ConnFd(conn) = serv_fd /\ serv_fd # -1
      /\ serv_fd \in ServerFds /\ serv_fd \in Fd /\ sock \in Sockets
  BY <1>2, ServedConn
<1>5. \A k \in Live(conn_l) : ConnFd(k) = serv_fd => k = conn
  BY <1>4, ConnSockets DEF Stepping
<1>6. \A fd \in ClientFds : sock'[fd] = sock[fd]
  <2>1. SameSockets(Take(serv_fd), sock) /\ \A fd \in ClientFds : Take(serv_fd)[fd] = sock[fd]
    BY <1>2, ServedAlone
  <2>2. \A fd \in ClientFds : fd # serv_fd /\ fd \in Fd
    BY <1>4 DEF Stepping, TableInv, FdOwnership, TypeOK
  <2> QED BY <1>2, <2>1, <2>2 DEF Write, SameSockets, Sockets
<1> QED BY <1>1, <1>2, <1>3, <1>5, <1>6, AskAgainProper

LEMMA AskElsewhereProper ==
    ASSUME Stepping, RequestInv, Orderly, NEW a \in SrvAddr, AskElsewhere(a),
           NEW c \in Live(client_l)', Up(client_l[c].fd)'
    PROVE  Stream(c)' /\ Answers(c)'
<1>1. /\ pc = "res_body" /\ CanTake(serv_fd) /\ res.r.kind = "list"
      /\ BackTo("servers") /\ UNCHANGED asks /\ pc \in ServerPhase
      /\ BodyTaken = Take(serv_fd)
  BY InTime DEF AskElsewhere, ServerPhase, Orderly
<1>2. PICK r \in Fd \cup {-1} :
         /\ OpenConn(conn_l[conn].clit_idx, r, a)
         /\ sock' = Write(Connected(Take(serv_fd), r), r, nolist)
  BY <1>1 DEF AskElsewhere, NewConn
<1>3. PICK q, d : q = nolist /\ d = conn_l[conn].clit_idx
  OBVIOUS
<1>4. /\ nolist \in Request /\ d \in Idx /\ a \in Addr
      /\ SameSockets(Take(serv_fd), sock) /\ \A fd \in ClientFds : Take(serv_fd)[fd] = sock[fd]
  <2>1. d \in Idx
    BY <1>1, <1>3, ServedConn DEF Live, Stepping, TableInv, TypeOK
  <2> QED BY <1>1, <2>1, NolistKnown, ServedAlone, ProxyAssumption DEF Stepping
<1>5. Adds({r}, q)
  BY <1>2, <1>3, <1>4, ConnectedSockets DEF Stepping, SessionInv
<1>6. /\ r # -1 => r \notin open_fds
      /\ Live(client_l)' = Live(client_l)
  BY <1>2, <1>3, <1>4, OpenConnInv DEF Stepping
<1>7. PICK s, k \in Idx :
         /\ Live(conn_l)' = Live(conn_l) \cup {k} /\ k \notin Live(conn_l)
         /\ conn_l'[k] = [clit_idx |-> d, serv_idx |-> s] /\ server_l'[s].fd = r
  <2>1. TableInv /\ OpenConn(d, r, a)
    BY <1>2, <1>3 DEF Stepping
  <2>2. \E s, k \in Idx :
           /\ Live(conn_l)' = Live(conn_l) \cup {k} /\ k \notin Live(conn_l)
           /\ conn_l'[k] = [clit_idx |-> d, serv_idx |-> s] /\ server_l'[s].fd = r
    BY <1>4, <2>1, OpenConnInv
  <2> QED BY <2>2
<1>8. \A m \in Live(conn_l) : ConnFd(m) # -1 => ConnFd(m) # r
  <2>1. \A m \in Live(conn_l) : ConnFd(m) # -1 => ConnFd(m) \in open_fds
    BY ConnSockets DEF Stepping, TableInv, FdOwnership
  <2> QED BY <1>6, <2>1
<1>9. ConnFd(k)' = r /\ conn_l'[k].clit_idx = d /\ k \in Live(conn_l)'
  BY <1>7 DEF ConnFd
<1>10. \A m \in Live(conn_l)' : ConnFd(m)' \in {r} \ {-1} => m = k
  <2>1. OwnSockets'
    BY OwnSocketsAfter DEF Stepping
  <2> QED BY <1>9, <2>1 DEF OwnSockets
<1>11. \A fd \in ClientFds : sock'[fd] = sock[fd]
  <2>1. \A fd \in ClientFds : fd \in open_fds /\ fd \in Fd
    BY DEF Stepping, TableInv, FdOwnership, TypeOK
  <2>2. \A fd \in ClientFds : fd # r \/ r = -1
    BY <1>6, <2>1
  <2>3. Take(serv_fd) \in Sockets
    BY <1>4 DEF SameSockets
  <2> QED BY <1>2, <1>4, <2>1, <2>2, <2>3 DEF Write, Connected, Sockets
<1> QED BY <1>1, <1>3, <1>5, <1>6, <1>8, <1>9, <1>10, <1>11, AskAgainProper

\* One step of server2client.
LEMMA ResponseProper ==
    ASSUME Stepping, RequestInv, Orderly, ResponseSteps, Running', NEW c \in Live(client_l)',
           Up(client_l[c].fd)'
    PROVE  Stream(c)' /\ Answers(c)'
<1>1. pc \in ServerPhase
  BY DEF ResponseSteps, ReadResponseHdr, ResponseHdrsEnd, ResponseHdrTimesOut,
         ResponseHdrAtEnd, SkipHeaders, ReadBody, BodyAtEnd, ServerPhase
<1>2. SameSockets(sock, sock)
  BY <1>1, ServedConn, KeptSockets
<1>3. CASE ReadResponseHdr
  BY <1>3, HeaderProper
<1>4. CASE ResponseHdrsEnd
  <2>1. CanTake(serv_fd)
    BY <1>4 DEF ResponseHdrsEnd
  <2>2. CASE Drop("servers", Take(serv_fd))
    BY <1>1, <2>1, <2>2, ServedAlone, DropProper
  <2>3. CASE ~Drop("servers", Take(serv_fd))
    <3>1. /\ sock' = Take(serv_fd) /\ UNCHANGED <<tableVars, conn, res, asks>>
          /\ pc' \in ServerPhase
      BY <1>4, <2>3 DEF ResponseHdrsEnd, ReadOn, TurnTo, ServerPhase
    <3> QED BY <1>1, <2>1, <3>1, ReadOnProper
  <2> QED BY <2>2, <2>3
<1>5. CASE ResponseHdrTimesOut \/ SkipHeaders
  BY <1>5, InTime DEF Orderly
<1>6. CASE ResponseHdrAtEnd
  <2>1. Drop("servers", sock)
    BY <1>6 DEF ResponseHdrAtEnd, Stop, Running
  <2> QED BY <1>1, <1>2, <2>1, DropProper
<1>7. CASE ReadBody
  <2>1. /\ pc = "res_body" /\ CanTake(serv_fd) /\ res.t = "hdr"
        /\ BodyTaken = Take(serv_fd)
    BY <1>7, InTime DEF ReadBody, Orderly
  <2>2. CASE res.r.kind = "list"
    <3>1. AskSame
      BY <1>7, <2>1, <2>2 DEF ReadBody
    <3> QED BY <2>1, <2>2, <3>1, AskSameProper
  <2>3. CASE res.r.kind # "list"
    <3>1. Answer(res.r, Take(serv_fd))
      BY <1>7, <2>1, <2>3 DEF ReadBody
    <3>2. CASE Drop("servers", Take(serv_fd))
      BY <1>1, <2>1, <3>2, ServedAlone, DropProper
    <3>3. CASE ~Drop("servers", Take(serv_fd))
      <4>1. /\ Tell(client_fd, res.r) /\ sock' = Take(serv_fd)
            /\ BackTo("servers") /\ UNCHANGED tableVars
        BY <3>1, <3>3 DEF Answer
      <4>2. PICK a : a = res.r
        OBVIOUS
      <4> QED BY <2>1, <4>1, <4>2, ToldProper
    <3> QED BY <3>2, <3>3
  <2> QED BY <2>2, <2>3
<1>8. CASE BodyAtEnd
  <2>1. sock[serv_fd].down # "rst"
    BY <1>1, ServedConn DEF RequestInv, NoResets
  <2> QED BY <1>8, <2>1 DEF BodyAtEnd, Stop, Running
<1> QED BY <1>3, <1>4, <1>5, <1>6, <1>7, <1>8 DEF ResponseSteps

-----------------------------------------------------------------------------
(* Browsers, web servers and the network *)

\* A step of a peer that does not touch the client's socket.
LEMMA ElsewhereProper ==
    ASSUME Stepping, RequestInv, Running, UNCHANGED envFrame, Adds({}, NULL),
           NEW c \in Live(client_l)', Up(client_l[c].fd)',
           Ahead(client_l[c].fd)' = Ahead(client_l[c].fd),
           asks'[client_l[c].fd] = asks[client_l[c].fd]
    PROVE  Stream(c)' /\ Answers(c)'
<1>1. UNCHANGED <<client_l, conn_l, server_l, pc, cur, conn, req, res>>
  BY DEF envFrame, tableVars, clientVars, serverVars, connVars, loopVars
<1>2. c \in Live(client_l)
  BY <1>1 DEF Live
<1>3. client_l'[c].fd = client_l[c].fd /\ Stream(c) /\ Answers(c)
  BY <1>2, Before
<1>4. (InHand(c)' <=> InHand(c)) /\ (InReply(c)' <=> InReply(c))
  BY <1>1 DEF InHand, InReply
<1>5. Stream(c)'
  BY <1>1, <1>3, <1>4 DEF Stream
<1>6. Asked(c)' => Asked(c)
  BY <1>3, <1>4 DEF Asked
<1> QED BY <1>1, <1>3, <1>4, <1>5, <1>6, AnswersKept

\* What is delivered is still ahead.
LEMMA DeliverProper ==
    ASSUME Stepping, RequestInv, Running, NEW fd \in Fd, Deliver(fd),
           NEW c \in Live(client_l)', Up(client_l[c].fd)'
    PROVE  Stream(c)' /\ Answers(c)'
<1>1. UNCHANGED envFrame /\ UNCHANGED asks /\ Adds({}, NULL)
  BY DeliverSockets DEF Deliver, Stepping, SessionInv
<1>2. UNCHANGED client_l /\ c \in Live(client_l)
  BY <1>1 DEF envFrame, tableVars, clientVars, Live
<1>3. /\ client_l[c].fd \in Fd /\ sock \in Sockets /\ sock[fd] \in Socket
      /\ sock[fd].out # <<>>
  BY <1>2, ClientSocket DEF Stepping, SessionInv, SocketsInv, SessionTypes, Sockets, Deliver
<1>4. Ahead(fd)' = Ahead(fd)
  <2>1. sock'[fd] = [sock[fd] EXCEPT !.out = Tail(@), !.inb = Append(@, Head(sock[fd].out))]
    BY <1>3 DEF Deliver, Sockets
  <2>2. /\ sock'[fd].out = Tail(sock[fd].out)
        /\ sock'[fd].inb = Append(sock[fd].inb, Head(sock[fd].out))
    BY <1>3, <2>1 DEF Socket
  <2>3. sock[fd].inb \in Seq(Message) /\ sock[fd].out \in Seq(Message)
    BY <1>3, SocketParts
  <2> QED BY <1>3, <2>2, <2>3, MovedConcat DEF Ahead
<1>5. \A f \in Fd \ {fd} : sock'[f] = sock[f]
  BY <1>3 DEF Deliver, Sockets
<1>6. Ahead(client_l[c].fd)' = Ahead(client_l[c].fd)
  BY <1>2, <1>3, <1>4, <1>5 DEF Ahead
<1> QED BY <1>1, <1>6, ElsewhereProper

\* A web server answers.
LEMMA ServerAnswersProper ==
    ASSUME Stepping, RequestInv, Running, NEW fd \in Fd, ServerAnswers(fd),
           NEW c \in Live(client_l)', Up(client_l[c].fd)'
    PROVE  Stream(c)' /\ Answers(c)'
<1>1. UNCHANGED envFrame /\ UNCHANGED asks /\ Adds({}, NULL) /\ fd \in ServerFds
  BY AnswerSockets DEF ServerAnswers, Stepping, SessionInv
<1>2. UNCHANGED client_l /\ c \in Live(client_l)
  BY <1>1 DEF envFrame, tableVars, clientVars, Live
<1>3. client_l[c].fd # fd /\ client_l[c].fd \in Fd /\ sock \in Sockets
  BY <1>1, <1>2, ClientSocket DEF Stepping, SessionInv, SocketsInv, SessionTypes
<1>4. sock'[client_l[c].fd] = sock[client_l[c].fd]
  BY <1>3 DEF ServerAnswers, Sockets
<1>5. Ahead(client_l[c].fd)' = Ahead(client_l[c].fd)
  BY <1>2, <1>4 DEF Ahead
<1> QED BY <1>1, <1>5, ElsewhereProper

\* A browser asks, and nothing that comes back is older than its request.
LEMMA AskProper ==
    ASSUME Stepping, RequestInv, Running, NEW fd \in Fd, NEW r \in Requests, Ask(fd, r),
           NEW c \in Live(client_l)', Up(client_l[c].fd)'
    PROVE  Stream(c)' /\ Answers(c)'
<1>1. UNCHANGED envFrame /\ Adds({}, NULL)
  BY AskSockets DEF Ask, Stepping, SessionInv
<1>2. /\ UNCHANGED <<client_l, conn_l, pc, cur, conn, res>> /\ c \in Live(client_l)
  BY <1>1 DEF envFrame, tableVars, clientVars, connVars, loopVars, Live
<1>3. /\ client_l'[c].fd = client_l[c].fd /\ Stream(c) /\ Answers(c)
      /\ client_l[c].fd \in Fd
  BY <1>1, <1>2, Before
<1>4. /\ sock \in Sockets /\ sock[fd] \in Socket /\ asks \in [Fd -> Requests \cup {NULL}]
      /\ asks[fd] = NULL /\ asks' = [asks EXCEPT ![fd] = r] /\ r # NULL
      /\ sock' = [sock EXCEPT ![fd].out = @ \o RequestText(r)]
  <2>1. r # NULL
    BY ProxyAssumption, NoValueAssumption DEF Request
  <2>2. sock[fd] # NULL
    BY DEF Ask, Stepping, SessionInv, SocketsInv, SocketsHeld
  <2> QED BY <2>1, <2>2 DEF Ask, Stepping, SessionInv, SocketsInv, SessionTypes, Sockets, RequestInv,
                     AsksProper
<1>5. CASE client_l[c].fd # fd
  <2>1. sock'[client_l[c].fd] = sock[client_l[c].fd]
    BY <1>3, <1>4, <1>5 DEF Sockets
  <2>2. /\ Ahead(client_l[c].fd)' = Ahead(client_l[c].fd)
        /\ asks'[client_l[c].fd] = asks[client_l[c].fd]
    BY <1>3, <1>4, <1>5, <2>1 DEF Ahead
  <2> QED BY <1>1, <2>2, ElsewhereProper
<1>6. CASE client_l[c].fd = fd
  <2>1. /\ ~InHand(c) /\ Ahead(fd) = <<>> /\ ~InReply(c)
        /\ \A k \in ConnsOfClient(c), q \in Request : ~Holds(k, q)
    BY <1>3, <1>4, <1>6 DEF Stream, Answers, Matches
  <2>2. ~InHand(c)' /\ ~InReply(c)'
    BY <1>2, <2>1 DEF InHand, InReply
  <2>3. sock[fd].inb \o (sock[fd].out \o RequestText(r)) = RequestText(r)
    <3>1. /\ sock[fd].inb \in Seq(Message) /\ sock[fd].out \in Seq(Message)
          /\ RequestText(r) \in Seq(Message)
      BY <1>4, SocketParts, TextMessages
    <3>2. PICK i, o, u : i = sock[fd].inb /\ o = sock[fd].out /\ u = RequestText(r)
      OBVIOUS
    <3>3. i \o o \o u = i \o (o \o u) /\ <<>> \o u = u
      <4>1. i \in Seq(Message) /\ o \in Seq(Message) /\ u \in Seq(Message)
        BY <3>1, <3>2
      <4>2. i \o o \o u = i \o (o \o u)
        BY <4>1, ConcatAssociative
      <4>3. <<>> \o u = u
        BY <4>1, ConcatEmptySeq
      <4> QED BY <4>2, <4>3
    <3>4. i \o o = <<>>
      BY <2>1, <3>2 DEF Ahead
    <3> QED BY <3>2, <3>3, <3>4
  <2>4. Ahead(client_l[c].fd)' = RequestText(r) /\ asks'[client_l'[c].fd] = r
    <3>1. sock'[fd] = [sock[fd] EXCEPT !.out = @ \o RequestText(r)]
      BY <1>4 DEF Sockets
    <3>2. sock'[fd].inb = sock[fd].inb /\ sock'[fd].out = sock[fd].out \o RequestText(r)
      BY <1>4, <3>1 DEF Socket
    <3> QED BY <1>3, <1>4, <1>6, <2>3, <3>2 DEF Ahead
  <2>5. Stream(c)'
    BY <1>4, <2>2, <2>4 DEF Stream
  <2> QED BY <1>1, <1>3, <2>1, <2>2, <2>5, AnswersOnly
<1> QED BY <1>5, <1>6

\* A peer that stops is no longer up.
LEMMA PeerStopsProper ==
    ASSUME Stepping, RequestInv, Running, NEW fd \in Fd, NEW how \in Fault,
           PeerStops(fd, how), NEW c \in Live(client_l)', Up(client_l[c].fd)'
    PROVE  Stream(c)' /\ Answers(c)'
<1>1. UNCHANGED envFrame /\ Adds({}, NULL)
  BY PeerStopsSockets DEF PeerStops, Stepping, SessionInv
<1>2. UNCHANGED client_l /\ c \in Live(client_l)
  BY <1>1 DEF envFrame, tableVars, clientVars, Live
<1>3. client_l[c].fd \in Fd /\ sock \in Sockets /\ asks \in [Fd -> Requests \cup {NULL}]
  BY <1>2, ClientSocket
     DEF Stepping, SessionInv, SocketsInv, SessionTypes, RequestInv, AsksProper
<1>4. sock'[fd].down # "up" /\ \A f \in Fd \ {fd} : sock'[f] = sock[f]
  <2>1. sock[fd] \in Socket
    BY <1>3 DEF PeerStops, Sockets
  <2>2. \E d \in {"fin", "rst"} : \E p, o :
           sock' = [sock EXCEPT ![fd] = [sock[fd] EXCEPT !.down = d, !.out = p, !.owed = o]]
    <3>1. CASE how = "idle_close"
      <4>1. sock' = [sock EXCEPT ![fd].down = "fin"]
        BY <3>1 DEF PeerStops
      <4>2. [sock[fd] EXCEPT !.down = "fin"] =
               [sock[fd] EXCEPT !.down = "fin", !.out = sock[fd].out, !.owed = sock[fd].owed]
        BY <2>1 DEF Socket
      <4>3. sock' = [sock EXCEPT ![fd] = [sock[fd] EXCEPT !.down = "fin",
                                              !.out = sock[fd].out, !.owed = sock[fd].owed]]
        BY <4>1, <4>2
      <4> QED BY <4>3
    <3>2. CASE how \in {"srv_fin", "clit_fin"}
      <4>1. PICK p : sock' = [sock EXCEPT ![fd].down = "fin", ![fd].out = p, ![fd].owed = <<>>]
        BY <3>2 DEF PeerStops
      <4>2. sock' = [sock EXCEPT ![fd] =
                        [sock[fd] EXCEPT !.down = "fin", !.out = p, !.owed = <<>>]]
        BY <4>1
      <4> QED BY <4>2
    <3>3. CASE how \in {"srv_rst", "clit_rst"}
      <4>1. sock' = [sock EXCEPT ![fd] =
                        [sock[fd] EXCEPT !.down = "rst", !.out = <<>>, !.owed = <<>>]]
        BY <3>3 DEF PeerStops
      <4> QED BY <4>1
    <3>4. CASE how \notin {"idle_close", "srv_fin", "clit_fin", "srv_rst", "clit_rst"}
      BY <3>4 DEF PeerStops
    <3> QED BY <3>1, <3>2, <3>3, <3>4
  <2> QED BY <1>3, <2>1, <2>2 DEF Socket, Sockets
<1>5. client_l[c].fd # fd
  BY <1>2, <1>4 DEF Up
<1>6. /\ Ahead(client_l[c].fd)' = Ahead(client_l[c].fd)
      /\ asks'[client_l[c].fd] = asks[client_l[c].fd]
  BY <1>2, <1>3, <1>4, <1>5 DEF Ahead, PeerStops
<1> QED BY <1>1, <1>6, ElsewhereProper

-----------------------------------------------------------------------------
(* What is delivered, and what is asked *)

\* The process answers a browser only out of a request or a response in hand.
LEMMA OwnProper ==
    ASSUME Stepping, RequestInv, Orderly, [Next]_proxyVars
    PROVE  AnswersOwn'
<1>1. CASE UNCHANGED delivered
  BY <1>1 DEF RequestInv, AnswersOwn
<1>2. CASE delivered' = NULL
  BY <1>2 DEF AnswersOwn
<1>3. CASE ReadRequestLine \/ RequestLineAtEnd
  <2>1. PICK fd : fd = clit_fd
    OBVIOUS
  <2>2. /\ pc = "req_line" /\ pc \in ClientPhase /\ Running /\ cur \in Live(client_l)
        /\ sock[fd] # NULL /\ sock \in Sockets /\ fd = client_l[cur].fd /\ fd \in Fd
    BY <1>3, <2>1, ReadSocket DEF ReadRequestLine, RequestLineAtEnd, ClientPhase, Running,
       Stepping, SessionInv, SocketsInv, SessionTypes, Live, clit_fd
  <2>3. CASE ~Up(fd)
    BY <1>1, <1>3, <2>1, <2>3 DEF ReadRequestLine, RequestLineAtEnd, StartStale, StartRequest, TurnTo,
                     Refuse, Tell, Up
  <2>4. CASE Up(fd)
    <3>1. CanTake(fd) /\ ReadRequestLine
      BY <1>3, <2>1, <2>4 DEF ReadRequestLine, RequestLineAtEnd, AtEnd, Up
    <3>2. Stream(cur)
      BY <2>2, <2>4 DEF RequestInv, ClientsProper
    <3>3. Ahead(fd) # <<>> /\ Line(fd) = Head(Ahead(fd))
      <4>1. sock[fd] \in Socket /\ sock[fd].inb # <<>>
        BY <2>2, <3>1 DEF Sockets, CanTake
      <4>2. Head(Ahead(fd)) = Head(sock[fd].inb) /\ Ahead(fd) # <<>>
        BY <4>1, SocketParts, HeadOfConcat DEF Ahead
      <4> QED BY <4>2 DEF Line
    <3>4. asks[fd] \in Requests /\ Ahead(fd) = RequestText(asks[fd])
      BY <2>2, <3>2, <3>3 DEF Stream, InHand, RequestInv, AsksProper
    <3>5. Line(fd) = [t |-> "line", r |-> asks[fd]]
      BY <3>3, <3>4, TextLines
    <3>6. IsGet(Line(fd)) /\ Line(fd).t = "line"
      BY <3>4, <3>5 DEF IsGet, Orderly
    <3>7. UNCHANGED delivered
      BY <2>1, <3>1, <3>6 DEF ReadRequestLine, StartRequest, TurnTo
    <3> QED BY <1>1, <3>7
  <2> QED BY <2>3, <2>4
<1>4. CASE BadUri
  <2>1. /\ pc = "lookup" /\ req.get.kind = "bad" /\ Tell(clit_fd, [kind |-> "404"])
    BY <1>4 DEF BadUri, Refuse
  <2>2. /\ pc \in ClientPhase /\ Running /\ cur \in Live(client_l) /\ clit_fd = client_l[cur].fd
    BY <2>1, ReadSocket DEF ClientPhase, Running, Stepping, SessionInv, Live, clit_fd
  <2>3. CASE Up(clit_fd)
    <3>1. asks[clit_fd] # NULL /\ asks[clit_fd].kind = "bad"
      BY <2>1, <2>2, <2>3 DEF RequestInv, ClientsProper, Stream, InHand
    <3>2. delivered' = [ask |-> asks[clit_fd], ans |-> [kind |-> "404"]]
      BY <2>1, <2>3 DEF Tell, Up
    <3> QED BY <3>1, <3>2 DEF AnswersOwn, Fits
  <2>4. CASE ~Up(clit_fd)
    BY <1>1, <2>1, <2>4 DEF Tell, Up
  <2> QED BY <2>3, <2>4
<1>5. CASE ReadBody \/ BodyAtEnd
  <2>1. pc = "res_body" /\ pc \in ServerPhase
    BY <1>5 DEF ReadBody, BodyAtEnd, ServerPhase
  <2>2. PICK d : d = conn_l[conn].clit_idx
    OBVIOUS
  <2>3. /\ Running /\ d \in Live(client_l) /\ client_fd = client_l[d].fd
        /\ InReply(d) /\ sock[serv_fd].down # "rst" /\ res.t = "hdr"
    BY <2>1, <2>2, ServedConn, InTime DEF RequestInv, NoResets, Orderly
  <2>4. CASE Tell(client_fd, res.r) /\ res.r.kind # "list"
    <3>1. CASE ~Up(client_fd)
      BY <1>1, <2>4, <3>1 DEF Tell, Up
    <3>2. CASE Up(client_fd)
      <4>1. Matches(asks[client_fd], res.r)
        BY <2>3, <3>2 DEF RequestInv, ClientsProper, Answers
      <4>2. delivered' = [ask |-> asks[client_fd], ans |-> res.r]
        BY <2>4, <3>2 DEF Tell, Up
      <4>3. asks[client_fd].kind # "post"
        <5>1. asks[client_fd] \in Requests
          BY <2>3, <4>1, ClientSocket DEF Matches, RequestInv, AsksProper, Stepping
        <5> QED BY <5>1 DEF Orderly
      <4>4. PICK ask, ans : ask = asks[client_fd] /\ ans = res.r
        OBVIOUS
      <4>5. Fits(ask, ans)
        BY <2>4, <4>1, <4>3, <4>4 DEF Fits, Matches
      <4>6. AnswersOwn' <=> Fits(ask, ans)
        BY <4>2, <4>4, <4>5 DEF AnswersOwn
      <4> QED BY <4>5, <4>6
    <3> QED BY <3>1, <3>2
  <2>5. CASE ~(Tell(client_fd, res.r) /\ res.r.kind # "list")
    <3>1. UNCHANGED delivered
      BY <1>5, <2>3, <2>5 DEF ReadBody, BodyAtEnd, Answer, AskSame, Drop, Stop, peerVars
    <3> QED BY <1>1, <3>1
  <2> QED BY <2>4, <2>5
<1>6. CASE \/ \E a \in SrvAddr : UseConn(a) \/ MakeConn(a) \/ AskElsewhere(a)
           \/ Forward \/ RejectRequest \/ ServersFull \/ AskOverflows \/ PhaseEnds \/ AcceptError
           \/ \E j \in Idx : BeginClient(j) \/ BeginServer(j)
  BY <1>1, <1>6 DEF UseConn, MakeConn, AskElsewhere, Forward, RejectRequest, ServersFull,
     AskOverflows, PhaseEnds, AcceptError, BeginClient, BeginServer, TurnTo, Drop, Stop, peerVars
<1>7. CASE \/ ReadRequestHdr \/ RequestHdrTimesOut \/ RequestHdrAtEnd \/ ReadResponseHdr
           \/ ResponseHdrsEnd \/ ResponseHdrTimesOut \/ ResponseHdrAtEnd
           \/ RequestLineTimesOut \/ SkipHeaders
  BY <1>1, <1>7, InTime DEF Orderly, ReadRequestHdr, RequestHdrAtEnd, HeadersRead, TurnTo,
     ReadResponseHdr, ResponseHdrsEnd, ResponseHdrAtEnd, ReadOn, Drop, Stop, peerVars
<1>8. CASE \/ \E fd \in Fd : Deliver(fd) \/ ServerAnswers(fd)
           \/ \E fd \in Fd, r \in Requests : Ask(fd, r)
           \/ \E fd \in Fd, how \in Fault : PeerStops(fd, how)
           \/ UNCHANGED proxyVars
  BY <1>1, <1>8 DEF Deliver, ServerAnswers, Ask, PeerStops, proxyVars, peerVars
<1>9. CASE Select
  BY <1>2, <1>9 DEF Select
<1> QED BY <1>3, <1>4, <1>5, <1>6, <1>7, <1>8, <1>9 DEF Next, Serve

\* A browser that waits stays what it is.
LEMMA AsksKept ==
    ASSUME AsksProper,
           asks' = asks \/ (\E f : asks' = [asks EXCEPT ![f] = NULL]) \/ asks' = Surviving(asks),
           \A fd \in ClientFds : asks'[fd] # NULL =>
              fd \in ClientFds' /\ sock'[fd].down = sock[fd].down
    PROVE  AsksProper'
<1>1. /\ asks' \in [Fd -> Requests \cup {NULL}]
      /\ \A fd \in Fd : asks'[fd] # NULL => asks[fd] # NULL
  BY DEF AsksProper, Surviving
<1> QED BY <1>1 DEF AsksProper, Up

\* Of the sockets of clients, none but that of the client served is read.
LEMMA ClientDowns ==
    ASSUME Stepping, NEW fd \in ClientFds
    PROVE  /\ fd \in Fd /\ fd \in open_fds /\ fd \notin ServerFds
           /\ pc \in ClientPhase /\ CanTake(clit_fd) => Take(clit_fd)[fd].down = sock[fd].down
           /\ pc \in ServerPhase /\ CanTake(serv_fd) => Take(serv_fd)[fd].down = sock[fd].down
           /\ pc \in ClientPhase /\ IsCut(clit_fd) =>
                 \A m \in Rest(clit_fd) : Leave(clit_fd, m)[fd].down = sock[fd].down
           /\ pc \in ServerPhase /\ IsCut(serv_fd) =>
                 \A m \in Rest(serv_fd) : Leave(serv_fd, m)[fd].down = sock[fd].down
           /\ pc = "res_body" /\ BodyThere => BodyTaken[fd].down = sock[fd].down
<1>1. fd \in Fd /\ fd \in open_fds /\ fd \notin ServerFds
  BY DEF Stepping, TableInv, FdOwnership, TypeOK
<1>2. ASSUME NEW f \in Fd, sock[f] # NULL, CanTake(f) PROVE Take(f)[fd].down = sock[fd].down
  <2>1. sock \in Sockets
    BY DEF Stepping, SessionInv, SocketsInv, SessionTypes
  <2> QED BY <1>1, <1>2, <2>1, TakeSockets
<1>3. ASSUME NEW f \in Fd, sock[f] # NULL, IsCut(f), NEW m \in Rest(f)
      PROVE  Leave(f, m)[fd].down = sock[fd].down
  <2>1. sock \in Sockets /\ sock[f] \in Socket
    BY <1>3 DEF Stepping, SessionInv, SocketsInv, SessionTypes, Sockets
  <2>2. CanTake(f)
    BY <1>3, <2>1, CutThere
  <2>3. m \in Message /\ m.t # "hdr"
    BY <1>3, RestMessage
  <2> QED BY <1>1, <1>3, <2>1, <2>2, <2>3, LeaveSockets
<1>4. ASSUME pc = "res_body", BodyThere PROVE BodyTaken[fd].down = sock[fd].down
  BY <1>1, <1>4, BodySockets DEF Stepping, SessionInv
<1> QED BY <1>1, <1>2, <1>3, <1>4, ReadSocket DEF Stepping, SessionInv

LEMMA DropAsks ==
    ASSUME Stepping, AsksProper, NEW phase, NEW s, Drop(phase, s),
           \A fd \in ClientFds : s[fd].down = sock[fd].down
    PROVE  AsksProper'
<1>1. CloseConn(conn) /\ sock' = Surviving(s) /\ asks' = Surviving(asks) /\ conn \in Idx
  BY DEF Drop, Stepping, HandsOn
<1>2. \A fd \in ClientFds : fd \in open_fds' => fd \in ClientFds'
  BY <1>1, CloseConnInv DEF Stepping
<1>3. ASSUME NEW fd \in ClientFds, asks'[fd] # NULL
      PROVE  fd \in ClientFds' /\ sock'[fd].down = sock[fd].down
  <2>1. fd \in Fd
    BY ClientDowns
  <2> QED BY <1>1, <1>2, <1>3, <2>1 DEF Surviving
<1> QED BY <1>1, <1>3, AsksKept

\* A new conn, and what is written to its socket.
LEMMA OpenAsks ==
    ASSUME Stepping, AsksProper, NEW c \in Idx, NEW r \in Fd \cup {-1}, NEW a \in SrvAddr,
           OpenConn(c, r, a), UNCHANGED asks,
           NEW s \in Sockets, \A fd \in ClientFds : s[fd].down = sock[fd].down,
           \/ sock' = Connected(s, r)
           \/ \E q \in Request : sock' = Write(Connected(s, r), r, q)
    PROVE  AsksProper'
<1>1. a \in Addr
  BY ProxyAssumption
<1>2. ClientFds' = ClientFds /\ (r # -1 => r \notin open_fds)
  BY <1>1, OpenConnInv DEF Stepping
<1>3. ASSUME NEW fd \in ClientFds PROVE sock'[fd].down = sock[fd].down
  <2>1. fd \in Fd /\ fd \in open_fds /\ (fd # r \/ r = -1)
    BY <1>2, ClientDowns
  <2>2. Connected(s, r)[fd] = s[fd] /\ Connected(s, r) \in [Fd -> Socket \cup {NULL}]
    BY <2>1, OpenSocket DEF Connected, Sockets
  <2>3. \A q : Write(Connected(s, r), r, q)[fd] = s[fd]
    BY <2>1, <2>2 DEF Write
  <2> QED BY <2>2, <2>3
<1> QED BY <1>2, <1>3, AsksKept

\* Whoever waits for an answer is there: what a browser has asked is forgotten
\* with its connection.
LEMMA AskedProper ==
    ASSUME Stepping, AsksProper, [Next]_proxyVars
    PROVE  AsksProper'
<1> USE DEF Stepping
<1>1. sock \in Sockets /\ asks \in [Fd -> Requests \cup {NULL}]
  BY DEF SessionInv, SocketsInv, SessionTypes, AsksProper
<1>2. CASE Select
  <2>1. UNCHANGED asks
    BY <1>2 DEF Select
  <2>2. CASE UNCHANGED <<tableVars, sock>>
    <3>1. ClientFds' = ClientFds
      BY <2>2, SameFds
    <3> QED BY <2>1, <2>2, <3>1, AsksKept
  <2>3. CASE ~UNCHANGED <<tableVars, sock>>
    <3>1. PICK fd \in Fd, a \in Addr : Accept(fd, a) /\ sock' = [sock EXCEPT ![fd] = Open]
      BY <1>2, <2>3, ProxyAssumption DEF Select
    <3>2. ClientFds' = ClientFds \cup {fd} /\ fd \notin open_fds
      BY <3>1, AcceptInv DEF Accept, LowestFreeFd
    <3>3. \A f \in ClientFds : sock'[f] = sock[f]
      BY <1>1, <3>1, <3>2, ClientDowns DEF Sockets
    <3> QED BY <2>1, <3>2, <3>3, AsksKept
  <2> QED BY <2>2, <2>3
<1>3. CASE \/ AcceptError \/ PhaseEnds \/ ServersFull \/ AskOverflows \/ UNCHANGED proxyVars
           \/ \E j \in Idx : BeginClient(j) \/ BeginServer(j)
  <2>1. UNCHANGED <<clientVars, sock, asks>>
    BY <1>3 DEF AcceptError, AcceptFails, PhaseEnds, ServersFull, AskOverflows, Overflow, Stop,
       BeginClient, BeginServer, TurnTo, proxyVars, tableVars, peerVars
  <2>2. ClientFds' = ClientFds
    BY <2>1 DEF clientVars, ClientFds, Live
  <2> QED BY <2>1, <2>2, AsksKept
<1>4. CASE RequestSteps
  <2>1. UNCHANGED tableVars /\ pc \in ClientPhase
    BY <1>4, RequestStep DEF RequestSteps, ReadRequestLine, RequestLineTimesOut, RequestLineAtEnd,
       ReadRequestHdr, RequestHdrTimesOut, RequestHdrAtEnd, BadUri, ClientPhase
  <2>2. /\ \/ sock' = sock \/ (sock' = Take(clit_fd) /\ CanTake(clit_fd))
           \/ IsCut(clit_fd) /\ \E m \in Rest(clit_fd) : sock' = Leave(clit_fd, m)
        /\ asks' = asks \/ \E f : asks' = [asks EXCEPT ![f] = NULL]
    BY <1>4 DEF RequestSteps, ReadRequestLine, RequestLineTimesOut, RequestLineAtEnd,
       ReadRequestHdr, RequestHdrTimesOut, RequestHdrAtEnd, BadUri, StartRequest, StartStale, HeadersRead, TurnTo,
       Refuse, Tell, Stop, peerVars
  <2>3. ClientFds' = ClientFds
    BY <2>1, SameFds
  <2>4. \A fd \in ClientFds : sock'[fd].down = sock[fd].down
    BY <2>1, <2>2, ClientDowns
  <2> QED BY <2>2, <2>3, <2>4, AsksKept
<1>5. CASE \E a \in SrvAddr : UseConn(a) \/ MakeConn(a)
  <2>1. PICK a \in SrvAddr : UseConn(a) \/ MakeConn(a)
    BY <1>5
  <2>2. CASE UseConn(a)
    <3>1. UNCHANGED <<tableVars, sock, asks>>
      BY <2>2 DEF UseConn, TurnTo
    <3> QED BY <3>1, SameFds, AsksKept
  <2>3. CASE MakeConn(a)
    <3>1. PICK r \in Fd \cup {-1} : OpenConn(cur, r, a) /\ sock' = Connected(sock, r)
      BY <2>3 DEF MakeConn, Connect, NewConn
    <3>2. UNCHANGED asks /\ cur \in Idx
      BY <2>3 DEF MakeConn, HandsOn
    <3> QED BY <1>1, <3>1, <3>2, OpenAsks
  <2> QED BY <2>1, <2>2, <2>3
<1>6. CASE RejectRequest
  BY <1>6, DropAsks DEF RejectRequest
<1>7. CASE Forward
  <2>1. /\ UNCHANGED <<tableVars, asks>> /\ sock' = Write(sock, ConnFd(conn), req.get)
        /\ pc = "forward" /\ conn \in Live(conn_l)
    BY <1>7 DEF Forward, ConnFd, HandsOn, Live
  <2>2. ConnFd(conn) \in ServerFds \/ ConnFd(conn) = -1
    BY <2>1, ConnSockets
  <2>3. \A fd \in ClientFds : sock'[fd] = sock[fd]
    BY <1>1, <2>1, <2>2, ClientDowns DEF Write, Sockets
  <2> QED BY <2>1, <2>3, SameFds, AsksKept
<1>8. CASE ResponseSteps
  <2>1. pc \in ServerPhase
    BY <1>8 DEF ResponseSteps, ReadResponseHdr, ResponseHdrsEnd, ResponseHdrTimesOut,
           ResponseHdrAtEnd, SkipHeaders, ReadBody, BodyAtEnd, ServerPhase
  <2>2. ASSUME NEW s, \A fd \in ClientFds : s[fd].down = sock[fd].down,
               \/ Drop("servers", s)
               \/ /\ sock' = s /\ UNCHANGED tableVars
                  /\ asks' = asks \/ \E f : asks' = [asks EXCEPT ![f] = NULL]
        PROVE  AsksProper'
    <3>1. CASE Drop("servers", s)
      BY <2>2, <3>1, DropAsks
    <3>2. CASE ~Drop("servers", s)
      BY <2>2, <3>2, SameFds, AsksKept
    <3> QED BY <3>1, <3>2
  <2>3. ASSUME NEW h, NEW s, GiveUp(h, s), \A fd \in ClientFds : s[fd].down = sock[fd].down
        PROVE  AsksProper'
    BY <2>2, <2>3 DEF GiveUp, ReadOn, TurnTo
  <2>4. ASSUME NEW a, NEW s, Answer(a, s), \A fd \in ClientFds : s[fd].down = sock[fd].down
        PROVE  AsksProper'
    BY <2>2, <2>4 DEF Answer, Tell
  <2>5. \A fd \in ClientFds : sock[fd].down = sock[fd].down
    OBVIOUS
  <2>6. CASE ReadResponseHdr \/ SkipHeaders \/ ResponseHdrsEnd
    <3>1. \A fd \in ClientFds : Take(serv_fd)[fd].down = sock[fd].down
      BY <2>1, <2>6, ClientDowns DEF ReadResponseHdr, SkipHeaders, ResponseHdrsEnd
    <3> QED BY <2>2, <2>6, <3>1 DEF ReadResponseHdr, SkipHeaders, ResponseHdrsEnd, ReadOn, TurnTo
  <2>7. CASE ResponseHdrTimesOut
    <3>1. CASE GiveUp(res, sock)
      BY <2>3, <2>5, <3>1
    <3>2. CASE ~GiveUp(res, sock)
      <4>1. IsCut(serv_fd)
        BY <2>7, <3>2 DEF ResponseHdrTimesOut
      <4>2. PICK m \in Rest(serv_fd) : \/ GiveUp(res, Leave(serv_fd, m))
                                      \/ GiveUp(Line(serv_fd), Leave(serv_fd, m))
        BY <2>7, <3>2 DEF ResponseHdrTimesOut
      <4>3. \A fd \in ClientFds : Leave(serv_fd, m)[fd].down = sock[fd].down
        BY <2>1, <4>1, ClientDowns
      <4> QED BY <2>3, <4>2, <4>3
    <3> QED BY <3>1, <3>2
  <2>8. CASE ResponseHdrAtEnd
    <3>1. \/ Drop("servers", sock)
          \/ sock' = sock /\ UNCHANGED tableVars /\ asks' = asks
      BY <2>8 DEF ResponseHdrAtEnd, Stop, peerVars
    <3> QED BY <2>2, <2>5, <3>1
  <2>9. CASE BodyAtEnd
    <3>1. \/ Drop("servers", sock) \/ Answer(Junk, sock)
          \/ sock' = sock /\ UNCHANGED tableVars /\ asks' = asks
      BY <2>9 DEF BodyAtEnd, Stop, peerVars
    <3> QED BY <2>2, <2>4, <2>5, <3>1
  <2>10. CASE ReadBody
    <3>1. pc = "res_body" /\ BodyThere
      BY <2>10 DEF ReadBody
    <3>2. \A fd \in ClientFds : BodyTaken[fd].down = sock[fd].down
      BY <3>1, ClientDowns
    <3>3. \/ AskSame \/ Drop("servers", BodyTaken)
          \/ Answer(res.r, BodyTaken) \/ Answer(Junk, BodyTaken)
          \/ sock' = sock /\ UNCHANGED tableVars /\ asks' = asks
      BY <2>10 DEF ReadBody, Stop, peerVars
    <3>4. CASE AskSame
      <4>1. /\ UNCHANGED <<tableVars, asks>> /\ sock' = Write(BodyTaken, serv_fd, nolist)
        BY <3>4 DEF AskSame
      <4>2. serv_fd \in ServerFds /\ BodyTaken \in Sockets
        BY <2>1, <3>1, ServedConn, BodySockets DEF SameSockets, SessionInv
      <4>3. ASSUME NEW fd \in ClientFds PROVE sock'[fd].down = sock[fd].down
        <5>1. fd \in Fd /\ fd # serv_fd
          BY <4>2, ClientDowns
        <5>2. Write(BodyTaken, serv_fd, nolist)[fd] = BodyTaken[fd]
          BY <4>2, <5>1 DEF Write, Sockets
        <5> QED BY <3>2, <4>1, <5>2
      <4> QED BY <4>1, <4>3, SameFds, AsksKept
    <3>5. CASE ~AskSame
      BY <2>2, <2>4, <2>5, <3>2, <3>3, <3>5
    <3> QED BY <3>4, <3>5
  <2> QED BY <1>8, <2>6, <2>7, <2>8, <2>9, <2>10 DEF ResponseSteps
<1>9. CASE \E a \in SrvAddr : AskElsewhere(a)
  <2>1. PICK a \in SrvAddr : AskElsewhere(a)
    BY <1>9
  <2>2. /\ pc = "res_body" /\ pc \in ServerPhase /\ BodyThere /\ UNCHANGED asks
        /\ res.r.kind = "list"
    BY <2>1 DEF AskElsewhere, ServerPhase
  <2>3. PICK r \in Fd \cup {-1} : /\ OpenConn(conn_l[conn].clit_idx, r, a)
                                  /\ sock' = Write(Connected(BodyTaken, r), r, nolist)
    BY <2>1 DEF AskElsewhere, NewConn
  <2>4. /\ nolist \in Request /\ BodyTaken \in Sockets
        /\ \A fd \in ClientFds : BodyTaken[fd].down = sock[fd].down
    BY <2>2, NolistKnown, BodySockets, ClientDowns DEF SameSockets, SessionInv
  <2>5. conn_l[conn].clit_idx \in Idx
    BY <2>2, ServedConn DEF Live, TableInv, TypeOK
  <2> QED BY <2>2, <2>3, <2>4, <2>5, OpenAsks
<1>10. CASE \E fd \in Fd : Deliver(fd) \/ ServerAnswers(fd)
  <2>1. PICK fd \in Fd : Deliver(fd) \/ ServerAnswers(fd)
    BY <1>10
  <2>2. UNCHANGED <<tableVars, asks>>
    BY <2>1 DEF Deliver, ServerAnswers, envFrame
  <2>3. \A f \in ClientFds : sock'[f].down = sock[f].down
    <3>1. CASE Deliver(fd)
      <4>1. sock[fd] \in Socket
        BY <1>1, <3>1 DEF Deliver, Sockets
      <4>2. sock'[fd].down = sock[fd].down /\ \A f \in Fd \ {fd} : sock'[f] = sock[f]
        BY <1>1, <3>1, <4>1 DEF Deliver, Sockets, Socket
      <4> QED BY <4>2, ClientDowns
    <3>2. CASE ServerAnswers(fd)
      <4>1. fd \in ServerFds /\ \A f \in Fd \ {fd} : sock'[f] = sock[f]
        BY <1>1, <3>2 DEF ServerAnswers, Sockets
      <4> QED BY <4>1, ClientDowns
    <3> QED BY <2>1, <3>1, <3>2
  <2> QED BY <2>2, <2>3, SameFds, AsksKept
<1>11. CASE \E fd \in Fd, r \in Requests : Ask(fd, r)
  <2>1. PICK fd \in Fd, r \in Requests : Ask(fd, r)
    BY <1>11
  <2>2. /\ UNCHANGED tableVars /\ fd \in ClientFds /\ Up(fd)
        /\ asks' = [asks EXCEPT ![fd] = r]
        /\ sock' = [sock EXCEPT ![fd].out = @ \o RequestText(r)]
    BY <2>1 DEF Ask, envFrame, Up
  <2>3. ClientFds' = ClientFds /\ asks' \in [Fd -> Requests \cup {NULL}]
    BY <1>1, <2>2, SameFds
  <2>4. Up(fd)' /\ \A f \in Fd \ {fd} : sock'[f] = sock[f] /\ asks'[f] = asks[f]
    <3>1. sock[fd] \in Socket
      BY <1>1, <2>2 DEF SessionInv, SocketsInv, SocketsHeld, Sockets
    <3> QED BY <1>1, <2>2, <3>1 DEF Up, Socket, Sockets
  <2> QED BY <2>2, <2>3, <2>4 DEF AsksProper, Up
<1>12. CASE \E fd \in Fd, how \in Fault : PeerStops(fd, how)
  <2>1. PICK fd \in Fd, how \in Fault : PeerStops(fd, how)
    BY <1>12
  <2>2. UNCHANGED tableVars /\ asks' = [asks EXCEPT ![fd] = NULL]
    BY <2>1 DEF PeerStops, envFrame
  <2>3. \A f \in Fd \ {fd} : sock'[f] = sock[f]
    BY <1>1, <2>1 DEF PeerStops, Sockets
  <2>4. \A f \in ClientFds : asks'[f] # NULL => f # fd
    BY <1>1, <2>2
  <2>5. \A f \in ClientFds : asks'[f] # NULL => sock'[f].down = sock[f].down
    BY <2>3, <2>4, ClientDowns
  <2> QED BY <2>2, <2>5, SameFds, AsksKept
<1> QED BY <1>2, <1>3, <1>4, <1>5, <1>6, <1>7, <1>8, <1>9, <1>10, <1>11, <1>12
        DEF Next, Serve, RequestSteps, ResponseSteps

\* nolist_buf holds the request of a manifest, rewritten.
LEMMA NolistStays ==
    ASSUME Stepping, RequestInv, Orderly, [Next]_proxyVars
    PROVE  NolistProper'
<1>1. CASE UNCHANGED nolist
  BY <1>1 DEF RequestInv, NolistProper
<1>2. CASE Forward /\ ~UNCHANGED nolist
  <2>1. req.get.kind = "list" /\ nolist' = [req.get EXCEPT !.kind = "nolist"] /\ pc = "forward"
    BY <1>2 DEF Forward, WithoutList, Orderly
  <2>2. req.get \in Requests
    BY <2>1 DEF Stepping, SessionInv, SocketsInv, SessionTypes, Reading
  <2> QED BY <2>1, <2>2 DEF NolistProper
<1>3. PlainSteps \/ Forward \/ ResponseSteps \/ \E a \in SrvAddr : AskElsewhere(a)
  BY DEF Next, Serve, PlainSteps, RequestSteps, ResponseSteps
<1>4. CASE PlainSteps \/ ResponseSteps \/ \E a \in SrvAddr : AskElsewhere(a)
  <2>1. UNCHANGED nolist
    BY <1>4, OtherNotes
  <2> QED BY <1>1, <2>1
<1> QED BY <1>1, <1>2, <1>3, <1>4

\* A web server that is not reset by a fault is not reset at all.
LEMMA ResetsNone ==
    ASSUME Stepping, RequestInv, Orderly, [Next]_proxyVars
    PROVE  NoResets'
<1> USE DEF Stepping
<1>1. PICK F, q : Adds(F, q)
  <2>1. CASE PlainSteps
    BY <2>1, PlainSockets DEF SessionInv
  <2>2. CASE Forward
    BY <2>2, ForwardSockets DEF SessionInv
  <2>3. CASE ResponseSteps
    BY <2>3, ResponseSockets
  <2>4. CASE \E a \in SrvAddr : AskElsewhere(a)
    BY <2>4, AskElsewhereSockets
  <2> QED BY <2>1, <2>2, <2>3, <2>4
          DEF Next, Serve, PlainSteps, RequestSteps, ResponseSteps
<1>2. ServerFds' \subseteq ServerFds \cup {-1} \cup (Fd \ open_fds)
  <2>1. CASE \E fd \in Fd, a \in Addr : Accept(fd, a)
    BY <2>1, AcceptInv
  <2>2. CASE \E d \in Idx, r \in Fd \cup {-1}, a \in Addr : OpenConn(d, r, a)
    BY <2>2, OpenConnInv
  <2>3. CASE \E k \in Idx : CloseConn(k)
    BY <2>3, CloseConnInv
  <2>4. CASE UNCHANGED serverVars
    BY <2>4 DEF serverVars, ServerFds, Live
  <2> QED BY <2>1, <2>2, <2>3, <2>4 DEF TableNext, tableVars, AcceptFails, Overflow
<1>3. ASSUME NEW fd \in ServerFds' PROVE sock'[fd].down # "rst"
  <2>1. fd \in Fd /\ sock'[fd] # NULL /\ fd # -1
    <3>1. fd \in Fd
      BY <1>3 DEF TableInv, FdOwnership, TypeOK
    <3>2. -1 \notin Fd
      BY DEF Fd
    <3> QED BY <1>3, <3>1, <3>2 DEF SessionInv, SocketsInv, SocketsHeld
  <2>2. CASE sock[fd] = NULL
    BY <1>1, <2>1, <2>2 DEF Adds
  <2>3. CASE sock[fd] # NULL
    <3>1. fd \in ServerFds /\ fd \notin ClientFds
      BY <1>2, <1>3, <2>1, <2>3 DEF SessionInv, SocketsInv, SocketsHeld, TableInv, FdOwnership
    <3>2. ~Resets(fd)
      BY <3>1 DEF Resets, PeerStops, Orderly
    <3> QED BY <1>1, <2>1, <2>3, <3>1, <3>2 DEF Adds, Goes, RequestInv, NoResets
  <2> QED BY <2>2, <2>3
<1> QED BY <1>3 DEF NoResets

-----------------------------------------------------------------------------
(* All steps *)

LEMMA RequestNext ==
    ASSUME Stepping, RequestInv, Orderly, [Next]_proxyVars
    PROVE  RequestInv'
<1>1. ASSUME Running', NEW c \in Live(client_l)', Up(client_l[c].fd)'
      PROVE  Stream(c)' /\ Answers(c)'
  <2>1. CASE Select
    BY <1>1, <2>1, SelectProper
  <2>2. CASE AcceptError \/ PhaseEnds \/ \E j \in Idx : BeginClient(j) \/ BeginServer(j)
    BY <1>1, <2>2, ScanProper
  <2>3. CASE RequestSteps
    BY <1>1, <2>3, RequestOthers, RequestOwn
  <2>4. CASE \E a \in SrvAddr : UseConn(a) \/ MakeConn(a) \/ AskElsewhere(a)
    BY <1>1, <2>4, LookupProper, AskElsewhereProper
  <2>5. CASE RejectRequest \/ Forward
    BY <1>1, <2>5, RejectProper, ForwardProper
  <2>6. CASE ResponseSteps
    BY <1>1, <2>6, ResponseProper
  <2>7. CASE ServersFull \/ AskOverflows
    BY <1>1, <2>7 DEF ServersFull, AskOverflows, Stop, Running
  <2>8. CASE \/ \E fd \in Fd : Deliver(fd) \/ ServerAnswers(fd)
             \/ \E fd \in Fd, r \in Requests : Ask(fd, r)
             \/ \E fd \in Fd, how \in Fault : PeerStops(fd, how)
    <3>1. Running
      BY <1>1, <2>8 DEF Deliver, ServerAnswers, Ask, PeerStops, envFrame, loopVars, Running
    <3> QED BY <1>1, <2>8, <3>1, DeliverProper, ServerAnswersProper, AskProper, PeerStopsProper
  <2>9. CASE UNCHANGED proxyVars
    <3>1. /\ Running /\ UNCHANGED <<client_l, sock, asks>> /\ UNCHANGED envFrame
      BY <1>1, <2>9 DEF proxyVars, envFrame, loopVars, tableVars, clientVars, peerVars, Running
    <3>2. Adds({}, NULL)
      <4>1. PlainSteps
        BY <2>9 DEF PlainSteps
      <4> QED BY <4>1, PlainSockets DEF Stepping, SessionInv
    <3> QED BY <1>1, <3>1, <3>2, ElsewhereProper DEF Ahead
  <2> QED BY <2>1, <2>2, <2>3, <2>4, <2>5, <2>6, <2>7, <2>8, <2>9
          DEF Next, Serve, RequestSteps, ResponseSteps
<1>2. ClientsProper'
  BY <1>1 DEF ClientsProper
<1> QED BY <1>2, OwnProper, AskedProper, NolistStays, ResetsNone DEF RequestInv

LEMMA RequestInit == Init => RequestInv
<1> SUFFICES ASSUME Init PROVE RequestInv
  OBVIOUS
<1>1. Live(client_l) = {} /\ Live(server_l) = {}
  BY DEF Init, TableInit, Live
<1>2. AnswersOwn /\ NolistProper /\ AsksProper
  BY DEF Init, AnswersOwn, NolistProper, AsksProper
<1>3. NoResets /\ ClientsProper
  BY <1>1 DEF NoResets, ServerFds, ClientsProper
<1> QED BY <1>2, <1>3 DEF RequestInv

\* A browser gets an answer only to a request that it has made and that nothing has
\* answered, and it is the answer to that one: the video it asked for, for a manifest
\* the one without bitrates that server2client asks for in its place, 404 for a URI
\* that parse_uri refuses.  No answer is passed to another browser, or twice, however
\* the slots and descriptors of the tables were reused meanwhile, as long as web
\* servers do not break off, lines come in time, requests are GETs and no second
\* manifest goes through nolist_buf.
THEOREM AnswersAlwaysOwn ==
    ASSUME Orderly
    PROVE  Spec => []AnswersOwn
<1>1. Init => RequestInv
  BY RequestInit
<1>2. ASSUME TableInv, HandsOn, SessionInv, RequestInv, [Next]_proxyVars
      PROVE  RequestInv'
  <2>1. TableInv' /\ [TableNext]_tableVars
    BY <1>2, ProxyStep, NextInv
  <2>2. SessionInv'
    BY <1>2, SessionStep
  <2>3. Stepping
    BY <1>2, <2>1, <2>2 DEF Stepping
  <2> QED BY <1>2, <2>3, RequestNext
<1>3. RequestInv => AnswersOwn
  BY DEF RequestInv
<1> QED BY <1>1, <1>2, <1>3, ProxyTablesCorrect, HandsOnAlways, SessionAlways, PTL DEF Spec

-----------------------------------------------------------------------------
(* Requests that wait *)

\* Something is still to be read from the peer at fd.
Waiting(fd) == sock[fd].inb # <<>> \/ sock[fd].out # <<>>

\* The server at fd is to answer, or has answered, or has gone.
OnItsWay(fd) == Waiting(fd) \/ sock[fd].owed # <<>> \/ sock[fd].down # "up"

\* The process serves the client in slot c, or a server for it.
InHands(c) ==
    \/ pc \in ClientPhase /\ cur = c
    \/ pc \in ServerPhase /\ conn_l[conn].clit_idx = c

\* It has read a request of it.
HasRead(c) == InHands(c) /\ pc # "req_line"

\* Where RequestTracked finds the request of a client.
Tracked(c) ==
    \/ Waiting(client_l[c].fd) \/ HasRead(c)
    \/ \E k \in ConnsOfClient(c) : OnItsWay(ConnFd(k))

WaitersTracked ==
    Running => \A c \in Live(client_l) : asks[client_l[c].fd] # NULL => Tracked(c)

\* A client has one conn, so that it goes with it.
OneConn == \A k, m \in Live(conn_l) : conn_l[k].clit_idx = conn_l[m].clit_idx => k = m

\* The servers are those that resolve() names, and a socket leads to each.
Placed == \A s \in Live(server_l) : server_l[s].fd # -1 /\ server_l[s].addr \in SrvAddr

TrackInv == WaitersTracked /\ AsksProper /\ OneConn /\ Placed

\* What RequestTracked depends on: servers announce no close and open_server_socket
\* does not fail, a flag is not taken as it was left, and resolve() has one answer.
Friendly ==
    /\ Faults \cap {"close", "refuse"} = {} /\ "flag" \notin Residue
    /\ \A a, b \in SrvAddr : a = b

\* A descriptor is left for the socket of a new conn.
Spare == pc = "lookup" /\ ~aborted /\ ConnsOfClient(cur) = {} => ~(Fd \subseteq open_fds)

LEMMA TrackedMeans == WaitersTracked => RequestTracked
BY DEF WaitersTracked, RequestTracked, Tracked, Waiting, OnItsWay, HasRead, InHands, ConnFd,
       ClientPhase, ServerPhase

\* The conn of a client that stays does so, too, and keeps its socket.
LEMMA ConnStays ==
    ASSUME Stepping, OneConn, NEW c \in Live(client_l), c \in Live(client_l)',
           NEW k \in ConnsOfClient(c)
    PROVE  k \in ConnsOfClient(c)' /\ ConnFd(k)' = ConnFd(k)
<1>1. k \in Live(conn_l) /\ conn_l[k].clit_idx = c /\ k \in Idx
  BY DEF ConnsOfClient, Live
<1>2. conn_l'[k] # NULL
  <2> SUFFICES ASSUME conn_l'[k] = NULL PROVE FALSE
    OBVIOUS
  <2>1. \A m \in ConnsOfClient(c) : m = k
    BY <1>1 DEF OneConn, ConnsOfClient
  <2>2. client_l'[c] = NULL
    BY <2>1, LastConnStep DEF LastConnCloses, Stepping
  <2> QED BY <2>2 DEF Live
<1>3. /\ conn_l'[k] = conn_l[k]
      /\ server_l'[conn_l[k].serv_idx] = server_l[conn_l[k].serv_idx]
  BY <1>1, <1>2, EndpointsKept DEF Stepping
<1> QED BY <1>1, <1>2, <1>3 DEF ConnsOfClient, ConnFd, Live

\* A client whose request was somewhere, of which the step takes nothing away.
LEMMA StillTracked ==
    ASSUME Stepping, OneConn, NEW c \in Live(client_l), c \in Live(client_l)', Tracked(c),
           HasRead(c) => HasRead(c)',
           Waiting(client_l[c].fd) => Waiting(client_l[c].fd)',
           \A k \in ConnsOfClient(c) : OnItsWay(ConnFd(k)) => OnItsWay(ConnFd(k))'
    PROVE  Tracked(c)'
<1>1. CASE HasRead(c)
  BY <1>1 DEF Tracked
<1>2. CASE Waiting(client_l[c].fd)
  BY <1>2 DEF Tracked
<1>3. CASE \E k \in ConnsOfClient(c) : OnItsWay(ConnFd(k))
  <2>1. PICK k \in ConnsOfClient(c) : OnItsWay(ConnFd(k))
    BY <1>3
  <2>2. k \in ConnsOfClient(c)' /\ OnItsWay(ConnFd(k))'
    BY <2>1, ConnStays
  <2> QED BY <2>2 DEF Tracked
<1> QED BY <1>1, <1>2, <1>3 DEF Tracked

\* Clients and servers have open sockets.
FdsOpen == /\ \A c \in Live(client_l) : client_l[c].fd \in open_fds
           /\ \A k \in Live(conn_l) : ConnFd(k) # -1 => ConnFd(k) \in open_fds

LEMMA FdsOpenBoth ==
    /\ TableInv => FdsOpen
    /\ TableInv' => FdsOpen'
<1>1. TableInv => FdsOpen
  <2> SUFFICES ASSUME TableInv PROVE FdsOpen
    OBVIOUS
  <2>1. ClientFds \cup ServerFds \subseteq open_fds
    BY DEF TableInv, FdOwnership
  <2> QED BY <2>1, ClientSocket, ConnSockets DEF FdsOpen
<1> QED BY <1>1, PTL

\* The step leaves something at fd if there was something.
Still(fd) ==
    /\ fd \in ClientFds /\ Waiting(fd) => sock'[fd].inb # <<>> \/ sock'[fd].out # <<>>
    /\ OnItsWay(fd) => \/ sock'[fd].inb # <<>> \/ sock'[fd].out # <<>>
                       \/ sock'[fd].owed # <<>> \/ sock'[fd].down # "up"

\* What the client in slot c has to do with.
Its(c, fd) == fd = client_l[c].fd \/ \E k \in ConnsOfClient(c) : fd = ConnFd(k)

\* A client that waits after the step and is not new has waited before; it is
\* where it was unless the step takes that away.
LEMMA WaitsOn ==
    ASSUME Stepping, TrackInv, Running, NEW c \in Live(client_l)', c \in Live(client_l),
           asks'[client_l[c].fd] # NULL => asks[client_l[c].fd] # NULL,
           asks'[client_l'[c].fd] # NULL, HasRead(c) => HasRead(c)',
           \A fd \in open_fds \cap open_fds' : Its(c, fd) => Still(fd)
    PROVE  Tracked(c)'
<1>1. /\ client_l'[c].fd = client_l[c].fd /\ client_l[c].fd \in open_fds
      /\ client_l[c].fd \in ClientFds
  BY ClientKept, ClientSocket DEF Stepping
<1>2. Tracked(c)
  BY <1>1 DEF TrackInv, WaitersTracked
<1>3. client_l[c].fd \in open_fds'
  BY <1>1, FdsOpenBoth DEF Stepping, FdsOpen
<1>4. Waiting(client_l[c].fd) => Waiting(client_l[c].fd)'
  BY <1>1, <1>3 DEF Its, Still, Waiting
<1>5. ASSUME NEW k \in ConnsOfClient(c), OnItsWay(ConnFd(k)) PROVE OnItsWay(ConnFd(k))'
  <2>1. k \in Live(conn_l) /\ k \in ConnsOfClient(c)' /\ ConnFd(k)' = ConnFd(k)
    BY ConnStays DEF ConnsOfClient, TrackInv
  <2>2. ConnFd(k) # -1
    BY <2>1 DEF TrackInv, Placed, Stepping, TableInv, NoDangling, TypeOK, ConnFd, Live, Conn
  <2>3. ConnFd(k) \in open_fds /\ ConnFd(k) \in open_fds'
    BY <2>1, <2>2, FdsOpenBoth DEF Stepping, FdsOpen, ConnsOfClient
  <2>4. Still(ConnFd(k))
    BY <2>3 DEF Its
  <2> QED BY <1>5, <2>1, <2>4 DEF Still, OnItsWay, Waiting
<1> QED BY <1>2, <1>4, <1>5, StillTracked DEF TrackInv

\* What the process has in hand for one client is not another one's.
LEMMA NotItsSocket ==
    ASSUME Stepping, Placed, NEW c \in Live(client_l), ~InHands(c)
    PROVE  /\ pc \in ClientPhase => ~Its(c, clit_fd)
           /\ pc = "forward" \/ pc \in ServerPhase => ~Its(c, ConnFd(conn))
<1> USE DEF Stepping
<1>1. /\ client_l[c].fd \notin ServerFds
      /\ \A k \in ConnsOfClient(c) : ConnFd(k) \in ServerFds
  <2>1. ASSUME NEW k \in ConnsOfClient(c) PROVE ConnFd(k) \in ServerFds
    <3>1. k \in Live(conn_l)
      BY DEF ConnsOfClient
    <3>2. ConnFd(k) # -1
      BY <3>1 DEF Placed, TableInv, NoDangling, TypeOK, ConnFd, Live, Conn
    <3> QED BY <3>1, <3>2, ConnSockets
  <2> QED BY <2>1, ClientSocket
<1>2. ASSUME pc \in ClientPhase PROVE ~Its(c, clit_fd)
  <2>1. cur \in Live(client_l) /\ cur # c
    BY <1>2 DEF HandsOn, Live, ClientPhase, InHands
  <2>2. clit_fd # client_l[c].fd /\ clit_fd \notin ServerFds
    BY <2>1, ClientSocket DEF clit_fd
  <2> QED BY <1>1, <2>2 DEF Its
<1>3. ASSUME pc = "forward" \/ pc \in ServerPhase PROVE ~Its(c, ConnFd(conn))
  <2>1. conn \in Live(conn_l) /\ c # conn_l[conn].clit_idx
    BY <1>3 DEF HandsOn, Live, ClientPhase, ServerPhase, InHands
  <2>2. conn \in ConnsOfClient(conn_l[conn].clit_idx)
    BY <2>1 DEF ConnsOfClient
  <2>3. ConnFd(conn) # -1 /\ ConnFd(conn) \in ServerFds
    <3>1. ConnFd(conn) # -1
      BY <2>1 DEF Placed, TableInv, NoDangling, TypeOK, ConnFd, Live, Conn
    <3> QED BY <2>1, <3>1, ConnSockets
  <2>4. \A k \in ConnsOfClient(c) : ConnFd(k) # ConnFd(conn)
    BY <2>1, <2>3, OthersConns
  <2> QED BY <1>1, <2>3, <2>4 DEF Its
<1> QED BY <1>2, <1>3

-----------------------------------------------------------------------------
(* Steps that take nothing away *)

SocksStay == \A fd \in open_fds \cap open_fds' : sock'[fd] = sock[fd]

LEMMA SameStill ==
    ASSUME NEW fd, sock'[fd] = sock[fd]
    PROVE  Still(fd)
BY DEF Still, Waiting, OnItsWay

\* No socket of a client that stays is touched.
LEMMA QuietTracks ==
    ASSUME Stepping, TrackInv, Running, SocksStay, UNCHANGED asks,
           \A c : HasRead(c) => HasRead(c)',
           NEW c \in Live(client_l)', c \in Live(client_l), asks'[client_l'[c].fd] # NULL
    PROVE  Tracked(c)'
<1>1. \A fd \in open_fds \cap open_fds' : Still(fd)
  BY SameStill DEF SocksStay
<1> QED BY <1>1, WaitsOn

LEMMA SelectTracks ==
    ASSUME Stepping, TrackInv, Select, NEW c \in Live(client_l)', asks'[client_l'[c].fd] # NULL
    PROVE  Tracked(c)'
<1> USE DEF Stepping
<1>1. Running /\ UNCHANGED asks /\ \A d : ~HasRead(d)
  BY DEF Select, Running, HasRead, InHands, ClientPhase, ServerPhase
<1>2. CASE UNCHANGED <<tableVars, sock>>
  <2>1. c \in Live(client_l) /\ SocksStay
    BY <1>2 DEF tableVars, clientVars, Live, SocksStay
  <2> QED BY <1>1, <2>1, QuietTracks
<1>3. CASE \E fd \in Fd, a \in ClitAddr : Accept(fd, a) /\ sock' = [sock EXCEPT ![fd] = Open]
  <2>1. PICK fd \in Fd, a \in ClitAddr : Accept(fd, a) /\ sock' = [sock EXCEPT ![fd] = Open]
    BY <1>3
  <2>2. fd \notin open_fds /\ a \in Addr
    BY <2>1, ProxyAssumption DEF Accept, LowestFreeFd
  <2>3. PICK i \in Idx : /\ Live(client_l)' = Live(client_l) \cup {i} /\ client_l'[i].fd = fd
                         /\ \A j \in Live(client_l) : client_l'[j] = client_l[j]
    BY <2>1, <2>2, AcceptInv
  <2>4. asks[fd] = NULL
    <3>1. fd \notin ClientFds
      BY <2>2 DEF TableInv, FdOwnership
    <3> QED BY <2>1, <3>1 DEF TrackInv, AsksProper
  <2>5. c \in Live(client_l)
    BY <1>1, <2>3, <2>4
  <2>6. SocksStay
    BY <2>1, <2>2 DEF SocksStay, SessionInv, SocketsInv, SessionTypes, Sockets
  <2> QED BY <1>1, <2>5, <2>6, QuietTracks
<1> QED BY <1>2, <1>3 DEF Select

\* The steps of the scans, and those of client2server between two reads.
LEMMA ScanTracks ==
    ASSUME Stepping, TrackInv, Running,
           \/ AcceptError \/ PhaseEnds \/ UNCHANGED proxyVars
           \/ (\E j \in Idx : BeginClient(j) \/ BeginServer(j))
           \/ (\E a \in SrvAddr : UseConn(a)),
           NEW c \in Live(client_l)', asks'[client_l'[c].fd] # NULL
    PROVE  Tracked(c)'
<1>1. UNCHANGED <<client_l, conn_l, sock, asks>>
  BY DEF AcceptError, AcceptFails, PhaseEnds, BeginClient, BeginServer, UseConn, TurnTo,
         proxyVars, tableVars, clientVars, connVars, peerVars
<1>2. c \in Live(client_l) /\ SocksStay
  BY <1>1 DEF Live, SocksStay
<1>3. \A d : HasRead(d) => HasRead(d)'
  BY <1>1 DEF AcceptError, PhaseEnds, BeginClient, BeginServer, UseConn, TurnTo, proxyVars,
         loopVars, HasRead, InHands, ClientPhase, ServerPhase
<1> QED BY <1>1, <1>2, <1>3, QuietTracks

LEMMA MakeConnTracks ==
    ASSUME Stepping, TrackInv, Running, NEW a \in SrvAddr, MakeConn(a),
           NEW c \in Live(client_l)', asks'[client_l'[c].fd] # NULL
    PROVE  Tracked(c)'
<1> USE DEF Stepping
<1>1. PICK r \in Fd \cup {-1} : OpenConn(cur, r, a) /\ sock' = Connected(sock, r)
  BY DEF MakeConn, Connect, NewConn
<1>2. cur \in Idx /\ a \in Addr
  BY ProxyAssumption DEF HandsOn
<1>3. Live(client_l)' = Live(client_l) /\ (r # -1 => r \notin open_fds)
  BY <1>1, <1>2, OpenConnInv
<1>4. SocksStay
  BY <1>1, <1>3 DEF Connected, SocksStay, SessionInv, SocketsInv, SessionTypes, Sockets
<1>5. UNCHANGED asks /\ \A d : HasRead(d) => HasRead(d)'
  BY DEF MakeConn, HasRead, InHands, ClientPhase, ServerPhase
<1> QED BY <1>3, <1>4, <1>5, QuietTracks

-----------------------------------------------------------------------------
(* Steps of client2server and server2client *)

\* The process goes on with the socket X of the client d.
LEMMA OthersWait ==
    ASSUME Stepping, TrackInv, Running, NEW X,
           \/ X = clit_fd /\ pc \in ClientPhase
           \/ X = ConnFd(conn) /\ pc \in {"forward"} \cup ServerPhase,
           \A fd \in open_fds \cap open_fds' : fd # X => sock'[fd] = sock[fd],
           asks' = asks \/ (\E f : asks' = [asks EXCEPT ![f] = NULL]) \/ asks' = Surviving(asks),
           NEW c \in Live(client_l)', c \in Live(client_l), ~InHands(c),
           asks'[client_l'[c].fd] # NULL
    PROVE  Tracked(c)'
<1>1. ~Its(c, X)
  BY NotItsSocket DEF TrackInv
<1>2. \A fd \in open_fds \cap open_fds' : Its(c, fd) => Still(fd)
  BY <1>1, SameStill
<1>3. client_l[c].fd \in Fd
  BY ClientSocket DEF Stepping
<1>4. asks'[client_l[c].fd] # NULL => asks[client_l[c].fd] # NULL
  BY <1>3 DEF TrackInv, AsksProper, Surviving
<1> QED BY <1>2, <1>4, WaitsOn DEF HasRead

\* Whoever is told has asked for nothing more.
LEMMA ToldWaitsNot ==
    ASSUME AsksProper, NEW fd \in Fd, NEW ans, Tell(fd, ans)
    PROVE  /\ asks'[fd] = NULL
           /\ asks' = asks \/ asks' = [asks EXCEPT ![fd] = NULL]
<1>1. CASE Up(fd)
  BY <1>1 DEF Tell, Up, AsksProper
<1>2. CASE ~Up(fd)
  BY <1>2 DEF Tell, Up, AsksProper
<1> QED BY <1>1, <1>2

LEMMA RequestTracks ==
    ASSUME Stepping, TrackInv, RequestSteps, Running', NEW c \in Live(client_l)',
           asks'[client_l'[c].fd] # NULL
    PROVE  Tracked(c)'
<1> USE DEF Stepping
<1>1. /\ pc \in ClientPhase /\ Running /\ UNCHANGED tableVars /\ c \in Live(client_l)
      /\ client_l'[c].fd = client_l[c].fd
  <2>1. UNCHANGED tableVars
    BY RequestStep
  <2>2. pc \in ClientPhase
    BY DEF RequestSteps, ReadRequestLine, RequestLineTimesOut, RequestLineAtEnd, ReadRequestHdr,
       RequestHdrTimesOut, RequestHdrAtEnd, BadUri, ClientPhase
  <2> QED BY <2>1, <2>2 DEF ClientPhase, Running, tableVars, clientVars, Live
<1>2. clit_fd \in Fd /\ sock \in Sockets /\ cur \in Live(client_l)
  BY <1>1, ReadSocket DEF SessionInv, SocketsInv, SessionTypes, Live
<1>3. sock' = sock \/ sock' = Take(clit_fd) \/ \E m : sock' = Leave(clit_fd, m)
  BY <1>1 DEF RequestSteps, ReadRequestLine, RequestLineTimesOut, RequestLineAtEnd, ReadRequestHdr,
     RequestHdrTimesOut, RequestHdrAtEnd, BadUri, Stop, Running, peerVars
<1>4. \/ pc' \in ClientPhase \ {"req_line"} /\ cur' = cur /\ asks' = asks
      \/ \E ans : Tell(clit_fd, ans)
      \/ AtEnd(clit_fd) /\ asks' = asks
      \/ pc = "req_line" /\ UNCHANGED <<sock, asks>>
  <2>1. CASE ReadRequestLine
    BY <2>1 DEF ReadRequestLine, StartRequest, StartStale, TurnTo, Refuse, ClientPhase
  <2>2. CASE RequestLineAtEnd
    BY <2>2 DEF RequestLineAtEnd, StartRequest, StartStale, TurnTo, Refuse, ClientPhase
  <2>3. CASE ReadRequestHdr \/ RequestHdrTimesOut
    BY <2>3 DEF ReadRequestHdr, RequestHdrTimesOut, HeadersRead, TurnTo, ClientPhase
  <2>4. CASE RequestHdrAtEnd
    BY <1>1, <2>4 DEF RequestHdrAtEnd, HeadersRead, TurnTo, ClientPhase, Stop, Running
  <2>5. CASE BadUri
    BY <2>5 DEF BadUri, Refuse
  <2>6. CASE RequestLineTimesOut
    BY <2>6 DEF RequestLineTimesOut, StartRequest, StartStale, TurnTo, Refuse, ClientPhase, peerVars
  <2> QED BY <2>1, <2>2, <2>3, <2>4, <2>5, <2>6 DEF RequestSteps
<1>5. asks' = asks \/ \E f : asks' = [asks EXCEPT ![f] = NULL]
  BY <1>2, <1>4, ToldWaitsNot DEF TrackInv
<1>6. CASE InHands(c)
  <2>1. cur = c
    BY <1>1, <1>6 DEF InHands, ClientPhase, ServerPhase
  <2>2. CASE pc' \in ClientPhase \ {"req_line"} /\ cur' = cur
    BY <2>1, <2>2 DEF HasRead, InHands, Tracked
  <2>3. CASE \E ans : Tell(clit_fd, ans)
    BY <1>1, <1>2, <2>1, <2>3, ToldWaitsNot DEF TrackInv, clit_fd
  <2>4. CASE AtEnd(clit_fd) /\ asks' = asks
    BY <1>1, <1>2, <2>1, <2>4 DEF TrackInv, AsksProper, AtEnd, Up, clit_fd
  <2>5. CASE pc = "req_line" /\ UNCHANGED <<sock, asks>>
    <3>1. SocksStay /\ ~HasRead(c)
      BY <2>5 DEF SocksStay, HasRead
    <3>2. \A fd \in open_fds \cap open_fds' : Still(fd)
      BY <3>1, SameStill DEF SocksStay
    <3> QED BY <1>1, <2>5, <3>1, <3>2, WaitsOn
  <2> QED BY <1>4, <2>2, <2>3, <2>4, <2>5
<1>7. CASE ~InHands(c)
  <2>1. \A fd \in open_fds \cap open_fds' : fd # clit_fd => sock'[fd] = sock[fd]
    BY <1>2, <1>3 DEF Take, Leave, Sockets, TableInv, TypeOK
  <2> QED BY <1>1, <1>5, <1>7, <2>1, OthersWait
<1> QED BY <1>6, <1>7

\* The conn that is dropped is the only one of its client, which goes with it.
LEMMA DropTracks ==
    ASSUME Stepping, TrackInv, NEW phase \in {"clients", "servers"}, NEW s, Drop(phase, s),
           pc \in {"forward"} \cup ServerPhase,
           \A fd \in Fd : fd # ConnFd(conn) => s[fd] = sock[fd],
           NEW c \in Live(client_l)', asks'[client_l'[c].fd] # NULL
    PROVE  Tracked(c)'
<1> USE DEF Stepping
<1>1. /\ CloseConn(conn) /\ sock' = Surviving(s) /\ asks' = Surviving(asks) /\ conn \in Idx
      /\ Running
  BY DEF Drop, HandsOn, Running, ServerPhase
<1>2. conn \in Live(conn_l) /\ Live(client_l)' \subseteq Live(client_l) /\ conn \notin Live(conn_l)'
  BY <1>1, CloseConnInv
<1>3. c \in Live(client_l)
  BY <1>2
<1>4. c # conn_l[conn].clit_idx
  <2> SUFFICES ASSUME c = conn_l[conn].clit_idx PROVE FALSE
    OBVIOUS
  <2>1. ConnsOfClient(c) = {conn}
    BY <1>2 DEF ConnsOfClient, TrackInv, OneConn
  <2>2. conn_l'[conn] = NULL
    BY <1>1, <1>2 DEF Live, CloseConn, TableInv, TypeOK
  <2>3. client_l'[c] = NULL
    BY <1>3, <2>1, <2>2, LastConnStep DEF LastConnCloses
  <2> QED BY <2>3 DEF Live
<1>5. ~InHands(c)
  <2>1. pc = "forward" => conn_l[conn].clit_idx = cur
    BY DEF HandsOn
  <2> QED BY <1>4, <2>1 DEF InHands, ClientPhase, ServerPhase
<1>6. \A fd \in open_fds \cap open_fds' : fd # ConnFd(conn) => sock'[fd] = sock[fd]
  BY <1>1 DEF Surviving, TableInv, TypeOK
<1> QED BY <1>1, <1>3, <1>5, <1>6, OthersWait

LEMMA RejectTracks ==
    ASSUME Stepping, TrackInv, RejectRequest, NEW c \in Live(client_l)',
           asks'[client_l'[c].fd] # NULL
    PROVE  Tracked(c)'
BY DropTracks DEF RejectRequest

\* A request that is written to a server is on its way there.
LEMMA WrittenOnItsWay ==
    ASSUME NEW s \in Sockets, NEW fd \in Fd, s[fd] # NULL, NEW q \in Request
    PROVE  /\ Write(s, fd, q)[fd].owed # <<>> \/ Write(s, fd, q)[fd].down # "up"
           /\ \A f \in Fd : f # fd => Write(s, fd, q)[f] = s[f]
<1>1. s[fd] \in Socket /\ s[fd].owed \in Seq(Request) /\ fd # -1
  BY SocketParts DEF Sockets, Fd
<1>2. CASE s[fd].down = "up"
  <2>1. Write(s, fd, q) = [s EXCEPT ![fd].owed = Append(@, q)]
    BY <1>1, <1>2 DEF Write
  <2>2. Append(s[fd].owed, q) # <<>>
    BY <1>1, AppendProperties, EmptySeq
  <2> QED BY <1>1, <2>1, <2>2 DEF Sockets, Socket
<1>3. CASE s[fd].down # "up"
  BY <1>3 DEF Write
<1> QED BY <1>2, <1>3

LEMMA ForwardTracks ==
    ASSUME Stepping, TrackInv, Forward, NEW c \in Live(client_l)', asks'[client_l'[c].fd] # NULL
    PROVE  Tracked(c)'
<1> USE DEF Stepping
<1>1. /\ pc = "forward" /\ pc \in ClientPhase /\ Running /\ UNCHANGED <<tableVars, asks>>
      /\ sock' = Write(sock, ConnFd(conn), req.get)
      /\ conn \in Live(conn_l) /\ conn_l[conn].clit_idx = cur
  BY DEF Forward, ClientPhase, Running, ConnFd, HandsOn, Live
<1>2. c \in Live(client_l) /\ UNCHANGED <<client_l, server_l, conn_l>>
  BY <1>1 DEF tableVars, clientVars, serverVars, connVars, Live
<1>3. req.get \in Request
  BY <1>1, ProxyAssumption DEF SessionInv, SocketsInv, SessionTypes, Reading, Request, Kind
<1>4. ConnFd(conn) \in Fd /\ sock[ConnFd(conn)] # NULL /\ sock \in Sockets
  <2>1. ConnFd(conn) # -1
    BY <1>1 DEF TrackInv, Placed, TableInv, NoDangling, TypeOK, ConnFd, Live, Conn
  <2>2. ConnFd(conn) \in Fd /\ ConnFd(conn) \in ServerFds
    BY <1>1, <2>1, ConnSockets
  <2> QED BY <2>2 DEF SessionInv, SocketsInv, SocketsHeld, SessionTypes
<1>5. /\ sock'[ConnFd(conn)].owed # <<>> \/ sock'[ConnFd(conn)].down # "up"
      /\ \A f \in Fd : f # ConnFd(conn) => sock'[f] = sock[f]
  BY <1>1, <1>3, <1>4, WrittenOnItsWay
<1>6. CASE InHands(c)
  <2>1. conn_l[conn].clit_idx = c
    BY <1>1, <1>6 DEF InHands, ClientPhase, ServerPhase
  <2>2. PICK k \in Live(conn_l) : k = conn
    BY <1>1
  <2>3. k \in ConnsOfClient(c)' /\ ConnFd(k)' = ConnFd(conn)
    BY <1>2, <2>1, <2>2 DEF ConnsOfClient, Live, ConnFd
  <2>4. OnItsWay(ConnFd(k))'
    BY <1>5, <2>3 DEF OnItsWay
  <2> QED BY <2>3, <2>4 DEF Tracked
<1>7. CASE ~InHands(c)
  <2>1. \A fd \in open_fds \cap open_fds' : fd # ConnFd(conn) => sock'[fd] = sock[fd]
    BY <1>5 DEF TableInv, TypeOK
  <2> QED BY <1>1, <1>2, <1>7, <2>1, OthersWait
<1> QED BY <1>6, <1>7

\* server2client goes on reading, has told the client, or has asked again.
LEMMA ServedTracks ==
    ASSUME Stepping, TrackInv, pc \in ServerPhase, UNCHANGED tableVars,
           \A fd \in Fd : fd # serv_fd => sock'[fd] = sock[fd],
           \/ pc' \in ServerPhase /\ conn' = conn /\ asks' = asks
           \/ \E ans : Tell(client_fd, ans)
           \/ asks' = asks /\ (sock'[serv_fd].owed # <<>> \/ sock'[serv_fd].down # "up"),
           NEW c \in Live(client_l)', asks'[client_l'[c].fd] # NULL
    PROVE  Tracked(c)'
<1> USE DEF Stepping
<1>1. c \in Live(client_l) /\ UNCHANGED <<client_l, server_l, conn_l>>
  BY DEF tableVars, clientVars, serverVars, connVars, Live
<1>2. /\ Running /\ conn \in Live(conn_l) /\ ConnFd(conn) = serv_fd
      /\ conn_l[conn].clit_idx \in Live(client_l)
      /\ client_fd = client_l[conn_l[conn].clit_idx].fd
  BY ServedConn
<1>3. client_fd \in Fd
  BY <1>2, ClientSocket
<1>4. CASE InHands(c)
  <2>1. conn_l[conn].clit_idx = c
    BY <1>4 DEF InHands, ClientPhase, ServerPhase
  <2>2. CASE pc' \in ServerPhase /\ conn' = conn
    BY <1>1, <2>1, <2>2 DEF HasRead, InHands, Tracked, ServerPhase
  <2>3. CASE \E ans : Tell(client_fd, ans)
    BY <1>1, <1>2, <1>3, <2>1, <2>3, ToldWaitsNot DEF TrackInv
  <2>4. CASE sock'[serv_fd].owed # <<>> \/ sock'[serv_fd].down # "up"
    <3>1. PICK k \in Live(conn_l) : k = conn
      BY <1>2
    <3>2. k \in ConnsOfClient(c)' /\ ConnFd(k)' = serv_fd
      BY <1>1, <1>2, <2>1, <3>1 DEF ConnsOfClient, Live, ConnFd
    <3>3. OnItsWay(ConnFd(k))'
      BY <2>4, <3>2 DEF OnItsWay
    <3> QED BY <3>2, <3>3 DEF Tracked
  <2> QED BY <2>2, <2>3, <2>4
<1>5. CASE ~InHands(c)
  <2>1. \A fd \in open_fds \cap open_fds' : fd # ConnFd(conn) => sock'[fd] = sock[fd]
    BY <1>2 DEF TableInv, TypeOK
  <2>2. asks' = asks \/ \E f : asks' = [asks EXCEPT ![f] = NULL]
    BY <1>3, ToldWaitsNot DEF TrackInv
  <2> QED BY <1>1, <1>2, <1>5, <2>1, <2>2, OthersWait
<1> QED BY <1>4, <1>5

LEMMA ResponseTracks ==
    ASSUME Stepping, TrackInv, ResponseSteps, Running', NEW c \in Live(client_l)',
           asks'[client_l'[c].fd] # NULL
    PROVE  Tracked(c)'
<1> USE DEF Stepping
<1>1. pc \in ServerPhase
  BY DEF ResponseSteps, ReadResponseHdr, ResponseHdrsEnd, ResponseHdrTimesOut,
     ResponseHdrAtEnd, SkipHeaders, ReadBody, BodyAtEnd, ServerPhase
<1>2. /\ serv_fd \in Fd /\ sock[serv_fd] # NULL /\ sock \in Sockets /\ ConnFd(conn) = serv_fd
  BY <1>1, ServedConn
<1>3. /\ \A fd \in Fd : fd # serv_fd => Take(serv_fd)[fd] = sock[fd]
      /\ \A m : \A fd \in Fd : fd # serv_fd => Leave(serv_fd, m)[fd] = sock[fd]
      /\ \A fd \in Fd : fd # serv_fd => BodyTaken[fd] = sock[fd]
  BY <1>2 DEF Take, Leave, BodyTaken, Sockets
<1>4. ASSUME NEW s, \A fd \in Fd : fd # serv_fd => s[fd] = sock[fd],
             \/ Drop("servers", s)
             \/ /\ sock' = s /\ UNCHANGED tableVars
                /\ \/ pc' \in ServerPhase /\ conn' = conn /\ asks' = asks
                   \/ \E ans : Tell(client_fd, ans)
      PROVE  Tracked(c)'
  <2>1. CASE Drop("servers", s)
    BY <1>1, <1>2, <1>4, <2>1, DropTracks
  <2>2. CASE ~Drop("servers", s)
    BY <1>1, <1>4, <2>2, ServedTracks
  <2> QED BY <2>1, <2>2
<1>5. \A fd \in Fd : fd # serv_fd => sock[fd] = sock[fd]
  OBVIOUS
<1>6. ASSUME NEW h, NEW s, GiveUp(h, s), \A fd \in Fd : fd # serv_fd => s[fd] = sock[fd]
      PROVE  Tracked(c)'
  BY <1>4, <1>6 DEF GiveUp, ReadOn, TurnTo, ServerPhase
<1>7. ASSUME NEW a, NEW s, Answer(a, s), \A fd \in Fd : fd # serv_fd => s[fd] = sock[fd]
      PROVE  Tracked(c)'
  BY <1>4, <1>7 DEF Answer
<1>8. CASE ReadResponseHdr \/ SkipHeaders \/ ResponseHdrsEnd
  BY <1>3, <1>4, <1>8 DEF ReadResponseHdr, SkipHeaders, ResponseHdrsEnd, ReadOn, TurnTo, ServerPhase
<1>9. CASE ResponseHdrTimesOut
  <2>1. \/ GiveUp(res, sock)
        \/ \E m : GiveUp(res, Leave(serv_fd, m)) \/ GiveUp(Line(serv_fd), Leave(serv_fd, m))
    BY <1>9 DEF ResponseHdrTimesOut
  <2> QED BY <1>3, <1>5, <1>6, <2>1
<1>10. CASE ResponseHdrAtEnd
  <2>1. Drop("servers", sock)
    BY <1>10 DEF ResponseHdrAtEnd, Stop, Running
  <2> QED BY <1>4, <1>5, <2>1
<1>11. CASE BodyAtEnd
  <2>1. Drop("servers", sock) \/ Answer(Junk, sock)
    BY <1>11 DEF BodyAtEnd, Stop, Running
  <2> QED BY <1>4, <1>5, <1>7, <2>1
<1>12. CASE ReadBody
  <2>1. /\ pc = "res_body" /\ BodyThere
        /\ \/ AskSame /\ res.r.kind = "list"
           \/ Drop("servers", BodyTaken)
           \/ Answer(res.r, BodyTaken) \/ Answer(Junk, BodyTaken)
    BY <1>12 DEF ReadBody, Stop, Running
  <2>2. CASE AskSame /\ res.r.kind = "list"
    <3>1. UNCHANGED <<tableVars, asks>> /\ sock' = Write(BodyTaken, serv_fd, nolist)
      BY <2>2 DEF AskSame
    <3>2. nolist \in Request
      BY <2>1, <2>2, NolistKnown
    <3>3. BodyTaken \in Sockets /\ BodyTaken[serv_fd] # NULL
      BY <1>2, <2>1, BodySockets DEF SameSockets, SessionInv
    <3>4. /\ sock'[serv_fd].owed # <<>> \/ sock'[serv_fd].down # "up"
          /\ \A fd \in Fd : fd # serv_fd => sock'[fd] = sock[fd]
      BY <1>2, <1>3, <3>1, <3>2, <3>3, WrittenOnItsWay
    <3> QED BY <1>1, <3>1, <3>4, ServedTracks
  <2>3. CASE ~AskSame
    BY <1>3, <1>4, <1>7, <2>1, <2>3
  <2>4. CASE res.r.kind # "list"
    BY <1>3, <1>4, <1>7, <2>1, <2>4
  <2> QED BY <2>2, <2>3, <2>4
<1> QED BY <1>8, <1>9, <1>10, <1>11, <1>12 DEF ResponseSteps

-----------------------------------------------------------------------------
(* Browsers, web servers and the network *)

\* What is taken from the network is there to be read; what is written to it is
\* not empty.
LEMMA NetworkStill ==
    ASSUME Stepping, NEW fd \in Fd, sock[fd] # NULL
    PROVE  /\ Deliver(fd) => Still(fd)
           /\ ServerAnswers(fd) => Still(fd)
           /\ \A r \in Requests : Ask(fd, r) => sock'[fd].out # <<>>
           /\ \A r \in Requests : Ask(fd, r) => Still(fd)
           /\ \A how : PeerStops(fd, how) => sock'[fd].down # "up"
<1> USE DEF Stepping
<1>1. sock \in Sockets /\ sock[fd] \in Socket
  BY DEF SessionInv, SocketsInv, SessionTypes, Sockets
<1>2. /\ sock[fd].inb \in Seq(Message) /\ sock[fd].out \in Seq(Message)
      /\ sock[fd].owed \in Seq(Request)
  BY <1>1, SocketParts
<1>3. ASSUME Deliver(fd) PROVE Still(fd)
  <2>1. sock'[fd].inb = Append(sock[fd].inb, Head(sock[fd].out)) /\ sock[fd].out # <<>>
    BY <1>1, <1>3 DEF Deliver, Sockets, Socket
  <2>2. Head(sock[fd].out) \in Message
    BY <1>2, <2>1, TailMembers
  <2>3. Append(sock[fd].inb, Head(sock[fd].out)) # <<>>
    BY <1>2, <2>2, AppendProperties, EmptySeq
  <2> QED BY <2>1, <2>3 DEF Still
<1>4. ASSUME NEW S, NEW q \in Seq(S), NEW u \in Seq(S), u # <<>> PROVE q \o u # <<>>
  BY <1>4, ConcatProperties, LenProperties, EmptySeq
<1>5. ASSUME ServerAnswers(fd) PROVE Still(fd)
  <2>1. PICK cl \in BOOLEAN : /\ sock'[fd].out = sock[fd].out \o ResponseText(Head(sock[fd].owed), cl)
                              /\ cl => "close" \in Faults
    <3>1. CASE sock' = [sock EXCEPT ![fd].owed = Tail(@),
                                    ![fd].out = @ \o ResponseText(Head(sock[fd].owed), FALSE)]
      <4>1. sock'[fd].out = sock[fd].out \o ResponseText(Head(sock[fd].owed), FALSE)
        BY <1>1, <3>1 DEF Sockets, Socket
      <4> QED BY <4>1
    <3>2. CASE /\ "close" \in Faults
               /\ sock' = [sock EXCEPT ![fd].owed = <<>>, ![fd].down = "fin",
                                       ![fd].out = @ \o ResponseText(Head(sock[fd].owed), TRUE)]
      <4>1. sock'[fd].out = sock[fd].out \o ResponseText(Head(sock[fd].owed), TRUE)
        BY <1>1, <3>2 DEF Sockets, Socket
      <4> QED BY <3>2, <4>1
    <3> QED BY <1>5, <3>1, <3>2 DEF ServerAnswers
  <2>2. Head(sock[fd].owed) \in Request
    BY <1>2, <1>5, TailMembers DEF ServerAnswers
  <2>3. /\ ResponseText(Head(sock[fd].owed), cl) \in Seq(Message)
        /\ ResponseText(Head(sock[fd].owed), cl) # <<>>
    BY <2>1, <2>2 DEF ResponseText, Message, Header, IfLate
  <2>4. sock'[fd].out # <<>>
    BY <1>2, <1>4, <2>1, <2>3
  <2> QED BY <2>4 DEF Still
<1>6. ASSUME NEW r \in Requests, Ask(fd, r) PROVE sock'[fd].out # <<>>
  <2>1. sock'[fd].out = sock[fd].out \o RequestText(r)
    BY <1>1, <1>6 DEF Ask, Sockets, Socket
  <2>2. RequestText(r) \in Seq(Message) /\ RequestText(r) # <<>>
    BY TextLines, TextMessages
  <2> QED BY <1>2, <1>4, <2>1, <2>2
<1>7. ASSUME NEW how, PeerStops(fd, how) PROVE sock'[fd].down # "up"
  <2>1. CASE how = "idle_close"
    BY <1>1, <1>7, <2>1 DEF PeerStops, Sockets, Socket
  <2>2. CASE how \in {"srv_fin", "clit_fin"}
    <3>1. PICK p : sock' = [sock EXCEPT ![fd].down = "fin", ![fd].out = p, ![fd].owed = <<>>]
      BY <1>7, <2>2 DEF PeerStops
    <3> QED BY <1>1, <3>1 DEF Sockets, Socket
  <2>3. CASE how \in {"srv_rst", "clit_rst"}
    BY <1>1, <1>7, <2>3 DEF PeerStops, Sockets, Socket
  <2>4. CASE how \notin {"idle_close", "srv_fin", "clit_fin", "srv_rst", "clit_rst"}
    BY <1>7, <2>4 DEF PeerStops
  <2> QED BY <2>1, <2>2, <2>3, <2>4
<1>8. ASSUME NEW r \in Requests, Ask(fd, r) PROVE Still(fd)
  BY <1>6, <1>8 DEF Still
<1> QED BY <1>3, <1>5, <1>6, <1>7, <1>8

LEMMA PeerTracks ==
    ASSUME Stepping, TrackInv, Running, NEW fd \in Fd,
           \/ Deliver(fd) \/ ServerAnswers(fd)
           \/ \E r \in Requests : Ask(fd, r)
           \/ \E how \in Fault : PeerStops(fd, how),
           NEW c \in Live(client_l)', asks'[client_l'[c].fd] # NULL
    PROVE  Tracked(c)'
<1> USE DEF Stepping
<1>1. /\ UNCHANGED envFrame /\ sock \in Sockets /\ \A f \in Fd : f # fd => sock'[f] = sock[f]
      /\ sock[fd] # NULL
  <2>1. sock \in Sockets /\ SocketsHeld
    BY DEF SessionInv, SocketsInv, SessionTypes
  <2>2. sock[fd] # NULL
    BY <2>1 DEF Deliver, ServerAnswers, Ask, PeerStops, SocketsHeld
  <2>3. UNCHANGED envFrame /\ \A f \in Fd : f # fd => sock'[f] = sock[f]
    BY <2>1 DEF Deliver, ServerAnswers, Ask, PeerStops, Sockets
  <2> QED BY <2>1, <2>2, <2>3
<1>2. /\ c \in Live(client_l) /\ client_l'[c].fd = client_l[c].fd /\ \A d : HasRead(d) => HasRead(d)'
      /\ client_l[c].fd \in Fd /\ client_l[c].fd \in ClientFds
  <2>1. UNCHANGED <<client_l, conn_l, pc, cur, conn>>
    BY <1>1 DEF envFrame, tableVars, clientVars, connVars, loopVars
  <2>2. c \in Live(client_l) /\ client_l'[c].fd = client_l[c].fd
    BY <2>1 DEF Live
  <2> QED BY <2>1, <2>2, ClientSocket DEF HasRead, InHands
<1>3. /\ Deliver(fd) => Still(fd)
      /\ ServerAnswers(fd) => Still(fd)
      /\ \A r \in Requests : Ask(fd, r) => sock'[fd].out # <<>>
      /\ \A r \in Requests : Ask(fd, r) => Still(fd)
      /\ \A how : PeerStops(fd, how) => sock'[fd].down # "up"
  BY <1>1, NetworkStill
<1>4. asks \in [Fd -> Requests \cup {NULL}]
  BY DEF TrackInv, AsksProper
<1>5. CASE Deliver(fd) \/ ServerAnswers(fd)
  <2>1. \A f \in Fd : Still(f)
    BY <1>1, <1>3, <1>5, SameStill
  <2>2. UNCHANGED asks
    BY <1>5 DEF Deliver, ServerAnswers
  <2> QED BY <1>2, <2>1, <2>2, WaitsOn DEF TableInv, TypeOK
<1>6. CASE \E r \in Requests : Ask(fd, r)
  <2>1. PICK r \in Requests : Ask(fd, r)
    BY <1>6
  <2>2. CASE client_l[c].fd = fd
    <3>1. Waiting(client_l[c].fd)'
      BY <1>2, <1>3, <2>1, <2>2 DEF Waiting
    <3> QED BY <3>1 DEF Tracked
  <2>3. CASE client_l[c].fd # fd
    <3>1. asks'[client_l[c].fd] = asks[client_l[c].fd]
      BY <1>2, <1>4, <2>1, <2>3 DEF Ask
    <3>2. \A f \in Fd : Still(f)
      BY <1>1, <1>3, <2>1, SameStill
    <3> QED BY <1>2, <3>1, <3>2, WaitsOn DEF TableInv, TypeOK
  <2> QED BY <2>2, <2>3
<1>7. CASE \E how \in Fault : PeerStops(fd, how)
  <2>1. PICK how \in Fault : PeerStops(fd, how)
    BY <1>7
  <2>2. asks' = [asks EXCEPT ![fd] = NULL]
    BY <2>1 DEF PeerStops
  <2>3. client_l[c].fd # fd /\ asks'[client_l[c].fd] = asks[client_l[c].fd]
    BY <1>2, <1>4, <2>2
  <2>4. ASSUME NEW f \in open_fds \cap open_fds', Its(c, f) PROVE Still(f)
    <3>1. f \in Fd
      BY DEF TableInv, TypeOK
    <3>2. CASE f # fd
      BY <1>1, <3>1, <3>2, SameStill
    <3>3. CASE f = fd
      <4>1. \E k \in ConnsOfClient(c) : f = ConnFd(k)
        BY <2>3, <2>4, <3>3 DEF Its
      <4>2. f \in ServerFds
        <5>1. -1 \notin Fd
          BY DEF Fd
        <5> QED BY <3>1, <4>1, <5>1, ConnSockets DEF ConnsOfClient
      <4>3. f \notin ClientFds
        BY <4>2 DEF TableInv, FdOwnership
      <4> QED BY <1>3, <2>1, <3>3, <4>3 DEF Still
    <3> QED BY <3>2, <3>3
  <2> QED BY <1>2, <2>3, <2>4, WaitsOn
<1> QED BY <1>5, <1>6, <1>7

-----------------------------------------------------------------------------
(* One conn for each client *)

\* All other steps leave servers and conns alone or close a conn.
LEMMA ConnsMade ==
    ASSUME HandsOn, [Next]_proxyVars
    PROVE  \/ UNCHANGED <<server_l, conn_l>> \/ CloseConn(conn)
           \/ \E a \in SrvAddr : MakeConn(a) \/ AskElsewhere(a)
<1>1. CASE Select \/ AcceptError \/ PhaseEnds \/ \E j \in Idx : BeginClient(j) \/ BeginServer(j)
  BY <1>1 DEF Select, Accept, AcceptError, AcceptFails, PhaseEnds, BeginClient, BeginServer,
     TurnTo, tableVars, serverVars, connVars
<1>2. CASE RequestSteps
  BY <1>2, RequestStep DEF tableVars, serverVars, connVars
<1>3. CASE (\E a \in SrvAddr : UseConn(a)) \/ ServersFull \/ AskOverflows
  BY <1>3 DEF UseConn, TurnTo, ServersFull, AskOverflows, Overflow, tableVars, serverVars, connVars
<1>4. CASE RejectRequest \/ Forward
  BY <1>4 DEF RejectRequest, Forward, Drop, tableVars, serverVars, connVars
<1>5. CASE ResponseSteps
  <2>1. UNCHANGED tableVars \/ CloseConn(conn)
    BY <1>5 DEF ResponseSteps, ReadResponseHdr, ResponseHdrsEnd, ResponseHdrTimesOut,
       ResponseHdrAtEnd, SkipHeaders, ReadBody, BodyAtEnd, GiveUp, AskSame, Answer, Drop,
       ReadOn, TurnTo, Stop
  <2> QED BY <2>1 DEF tableVars, serverVars, connVars
<1>6. CASE \/ \E fd \in Fd : Deliver(fd) \/ ServerAnswers(fd)
           \/ \E fd \in Fd, r \in Requests : Ask(fd, r)
           \/ \E fd \in Fd, how \in Fault : PeerStops(fd, how)
           \/ UNCHANGED proxyVars
  <2>1. UNCHANGED tableVars
    BY <1>6, PeerStep DEF proxyVars
  <2> QED BY <2>1 DEF tableVars, serverVars, connVars
<1> QED BY <1>1, <1>2, <1>3, <1>4, <1>5, <1>6 DEF Next, Serve, RequestSteps, ResponseSteps

\* A friendly server announces no close.
LEMMA NoneElsewhere ==
    ASSUME SessionInv, Friendly, NEW a \in SrvAddr
    PROVE  ~AskElsewhere(a)
<1> SUFFICES ASSUME AskElsewhere(a) PROVE FALSE
  OBVIOUS
<1>1. res \in Header /\ res.close
  BY DEF AskElsewhere, Closing, Friendly, SessionInv, SocketsInv, SessionTypes
<1>2. "close" \in Faults
  BY <1>1 DEF Header
<1> QED BY <1>2 DEF Friendly

\* A conn is made for a client that has none, with a socket.
LEMMA FirstConn ==
    ASSUME TableInv, HandsOn, Placed, Friendly, Spare, NEW a \in SrvAddr, MakeConn(a)
    PROVE  /\ ConnsOfClient(cur) = {} /\ cur \in Live(client_l)
           /\ \E r \in Fd : OpenConn(cur, r, a)
<1>1. /\ pc = "lookup" /\ ~aborted /\ cur \in Live(client_l)
      /\ \A k \in Idx : ~client_get_conn(clit_fd, a, k)
  BY DEF MakeConn, Connect, NewConn, OpenConn, Serving, HandsOn, Live
<1>2. ConnsOfClient(cur) = {}
  <2> SUFFICES ASSUME NEW k \in ConnsOfClient(cur) PROVE FALSE
    OBVIOUS
  <2>1. k \in Live(conn_l) /\ conn_l[k].clit_idx = cur
    BY DEF ConnsOfClient
  <2>2. PICK j \in ConnsOfClient(cur) :
           client_get_conn(client_l[cur].fd, server_l[conn_l[k].serv_idx].addr, j)
    BY <2>1, LookupFinds DEF ClientLookup
  <2>3. conn_l[k].serv_idx \in Live(server_l)
    BY <2>1 DEF TableInv, NoDangling, TypeOK, Live, Conn
  <2>4. server_l[conn_l[k].serv_idx].addr = a
    BY <2>3 DEF Placed, Friendly
  <2>5. j \in Idx
    BY DEF ConnsOfClient, Live
  <2> QED BY <1>1, <2>2, <2>4, <2>5 DEF clit_fd
<1>3. PICK r \in Fd \cup {-1} : /\ OpenConn(cur, r, a)
                                /\ r = -1 => "refuse" \in Faults \/ Fd \subseteq open_fds
  BY DEF MakeConn, Connect, NewConn
<1>4. r # -1
  BY <1>1, <1>2, <1>3 DEF Friendly, Spare
<1> QED BY <1>1, <1>2, <1>3, <1>4

LEMMA ConnsNext ==
    ASSUME Stepping, OneConn, Placed, Friendly, Spare, [Next]_proxyVars
    PROVE  OneConn' /\ Placed'
<1> USE DEF Stepping
<1>1. \A k \in Live(conn_l) : k \in Live(conn_l)' => conn_l'[k] = conn_l[k]
  BY EndpointsKept DEF Live
<1>2. CASE UNCHANGED <<server_l, conn_l>>
  BY <1>2 DEF OneConn, Placed, Live
<1>3. CASE CloseConn(conn)
  <2>1. /\ Live(conn_l)' \subseteq Live(conn_l) /\ Live(server_l)' \subseteq Live(server_l)
        /\ \A j \in Live(server_l)' : server_l'[j] = server_l[j]
    BY <1>3, CloseConnInv DEF HandsOn
  <2>2. OneConn'
    BY <1>1, <2>1 DEF OneConn
  <2>3. Placed'
    BY <2>1 DEF Placed
  <2> QED BY <2>2, <2>3
<1>4. CASE \E a \in SrvAddr : MakeConn(a)
  <2>1. PICK a \in SrvAddr, r \in Fd : MakeConn(a) /\ OpenConn(cur, r, a)
    BY <1>4, FirstConn
  <2>2. ConnsOfClient(cur) = {} /\ cur \in Idx /\ a \in Addr /\ r # -1
    BY <2>1, FirstConn, ProxyAssumption DEF HandsOn, Fd
  <2>3. PICK s \in Idx, k \in Idx : Link(cur, s, k, r, a)
    BY <2>1 DEF OpenConn
  <2>4. /\ server_l' = [server_l EXCEPT ![s] = [fd |-> r, addr |-> a, num_clit |-> 1]]
        /\ conn_l' = [conn_l EXCEPT ![k] = [clit_idx |-> cur, serv_idx |-> s]]
    BY <2>3 DEF Link
  <2>5. Placed'
    BY <2>2, <2>4 DEF Placed, Live, TableInv, TypeOK
  <2>6. /\ conn_l'[k].clit_idx = cur
        /\ \A m \in Live(conn_l)' : m = k \/ (m \in Live(conn_l) /\ conn_l'[m] = conn_l[m])
        /\ \A m \in Live(conn_l) : conn_l[m].clit_idx # cur
    BY <2>2, <2>4 DEF Live, TableInv, TypeOK, ConnsOfClient
  <2>7. OneConn'
    BY <2>6 DEF OneConn
  <2> QED BY <2>5, <2>7
<1> QED BY <1>2, <1>3, <1>4, ConnsMade, NoneElsewhere

-----------------------------------------------------------------------------
(* All steps *)

LEMMA TrackNext ==
    ASSUME Stepping, TrackInv, Friendly, Spare, [Next]_proxyVars
    PROVE  TrackInv'
<1> USE DEF Stepping
<1>1. ASSUME Running', NEW c \in Live(client_l)', asks'[client_l'[c].fd] # NULL
      PROVE  Tracked(c)'
  <2>1. CASE Select
    BY <1>1, <2>1, SelectTracks
  <2>2. CASE \/ AcceptError \/ PhaseEnds \/ UNCHANGED proxyVars
             \/ (\E j \in Idx : BeginClient(j) \/ BeginServer(j))
             \/ (\E a \in SrvAddr : UseConn(a))
    <3>1. Running
      BY <1>1, <2>2 DEF AcceptError, PhaseEnds, BeginClient, BeginServer, UseConn, proxyVars,
         loopVars, Running
    <3> QED BY <1>1, <2>2, <3>1, ScanTracks
  <2>3. CASE RequestSteps
    BY <1>1, <2>3, RequestTracks
  <2>4. CASE \E a \in SrvAddr : MakeConn(a) \/ AskElsewhere(a)
    <3>1. PICK a \in SrvAddr : MakeConn(a)
      BY <2>4, NoneElsewhere
    <3>2. Running
      BY <3>1 DEF MakeConn, Running
    <3> QED BY <1>1, <3>1, <3>2, MakeConnTracks
  <2>5. CASE RejectRequest \/ Forward
    BY <1>1, <2>5, RejectTracks, ForwardTracks
  <2>6. CASE ResponseSteps
    BY <1>1, <2>6, ResponseTracks
  <2>7. CASE ServersFull \/ AskOverflows
    BY <1>1, <2>7 DEF ServersFull, AskOverflows, Stop, Running
  <2>8. CASE \/ \E fd \in Fd : Deliver(fd) \/ ServerAnswers(fd)
             \/ \E fd \in Fd, r \in Requests : Ask(fd, r)
             \/ \E fd \in Fd, how \in Fault : PeerStops(fd, how)
    <3>1. Running
      BY <1>1, <2>8 DEF Deliver, ServerAnswers, Ask, PeerStops, envFrame, loopVars, Running
    <3> QED BY <1>1, <2>8, <3>1, PeerTracks
  <2> QED BY <2>1, <2>2, <2>3, <2>4, <2>5, <2>6, <2>7, <2>8
          DEF Next, Serve, RequestSteps, ResponseSteps
<1>2. WaitersTracked'
  BY <1>1 DEF WaitersTracked
<1>3. AsksProper'
  BY AskedProper DEF TrackInv
<1>4. OneConn' /\ Placed'
  BY ConnsNext DEF TrackInv
<1> QED BY <1>2, <1>3, <1>4 DEF TrackInv

LEMMA TrackInit == Init => TrackInv
<1> SUFFICES ASSUME Init PROVE TrackInv
  OBVIOUS
<1>1. Live(client_l) = {} /\ Live(server_l) = {} /\ Live(conn_l) = {}
  BY DEF Init, TableInit, Live
<1>2. AsksProper
  BY DEF Init, AsksProper
<1> QED BY <1>1, <1>2 DEF TrackInv, WaitersTracked, OneConn, Placed

-----------------------------------------------------------------------------
(* Descriptors that are left *)

\* No descriptor is open that no table holds.
NoLeak == open_fds \subseteq {listen_sock} \cup ClientFds \cup ServerFds

\* Nor are there more clients than have connected.
SpareInv == /\ aborted \/ NoLeak
            /\ nacc \in Nat /\ nacc <= MaxAccepts /\ Cardinality(Live(client_l)) <= nacc

\* A client comes with a connection that is counted.
LEMMA ClientsCounted ==
    ASSUME Stepping, nacc \in Nat, nacc <= MaxAccepts, MaxAccepts \in Nat, [Next]_proxyVars
    PROVE  /\ nacc' \in Nat /\ nacc' <= MaxAccepts /\ nacc <= nacc'
           /\ \/ Live(client_l)' \subseteq Live(client_l)
              \/ /\ nacc' = nacc + 1
                 /\ \E i \in Idx : Live(client_l)' = Live(client_l) \cup {i}
<1> USE DEF Stepping
<1>1. nacc' = nacc \/ (nacc < MaxAccepts /\ nacc' = nacc + 1)
  <2>1. CASE Select \/ AcceptError \/ PhaseEnds \/ \E j \in Idx : BeginClient(j) \/ BeginServer(j)
    BY <2>1 DEF Select, AcceptError, PhaseEnds, BeginClient, BeginServer, TurnTo, boundVars
  <2>2. CASE RequestSteps \/ \E a \in SrvAddr : UseConn(a) \/ MakeConn(a) \/ AskElsewhere(a)
    BY <2>2 DEF RequestSteps, ReadRequestLine, RequestLineTimesOut, RequestLineAtEnd, ReadRequestHdr,
       RequestHdrTimesOut, RequestHdrAtEnd, BadUri, StartRequest, StartStale, HeadersRead,
       TurnTo, Refuse, BackTo, Stop, UseConn, MakeConn, AskElsewhere, boundVars
  <2>3. CASE RejectRequest \/ Forward \/ ServersFull \/ AskOverflows
    BY <2>3 DEF RejectRequest, Forward, ServersFull, AskOverflows, Drop, BackTo, Stop, boundVars
  <2>4. CASE ResponseSteps
    <3>1. CASE ResponseHdrTimesOut
      <4>1. PICK h, s : GiveUp(h, s)
        BY <3>1 DEF ResponseHdrTimesOut
      <4> QED BY <4>1 DEF GiveUp, Drop, ReadOn, TurnTo, BackTo, boundVars
    <3>2. CASE ResponseSteps /\ ~ResponseHdrTimesOut
      BY <3>2 DEF ResponseSteps, ReadResponseHdr, ResponseHdrsEnd, ResponseHdrAtEnd, SkipHeaders,
         ReadBody, BodyAtEnd, AskSame, Answer, Drop, ReadOn, TurnTo, BackTo, Stop, boundVars
    <3> QED BY <2>4, <3>1, <3>2
  <2>5. CASE \/ \E fd \in Fd : Deliver(fd) \/ ServerAnswers(fd)
             \/ \E fd \in Fd, r \in Requests : Ask(fd, r)
             \/ \E fd \in Fd, how \in Fault : PeerStops(fd, how)
             \/ UNCHANGED proxyVars
    BY <2>5 DEF Deliver, ServerAnswers, Ask, PeerStops, proxyVars, boundVars
  <2> QED BY <2>1, <2>2, <2>3, <2>4, <2>5 DEF Next, Serve, RequestSteps, ResponseSteps
<1>2. CASE \E fd \in Fd, a \in ClitAddr : Select /\ Accept(fd, a) /\ nacc' = nacc + 1
  <2>1. PICK fd \in Fd, a \in Addr : Accept(fd, a) /\ nacc' = nacc + 1
    BY <1>2, ProxyAssumption
  <2>2. \E i \in Idx : Live(client_l)' = Live(client_l) \cup {i}
    BY <2>1, AcceptInv
  <2> QED BY <1>1, <2>1, <2>2
<1>3. CASE ~ \E fd \in Fd, a \in ClitAddr : Select /\ Accept(fd, a) /\ nacc' = nacc + 1
  <2>1. \/ UNCHANGED client_l \/ CloseConn(conn)
        \/ \E c \in Idx, r \in Fd \cup {-1}, a \in Addr : OpenConn(c, r, a)
    <3>1. CASE Select \/ AcceptError \/ PhaseEnds \/ \E j \in Idx : BeginClient(j) \/ BeginServer(j)
      BY <1>3, <3>1 DEF Select, AcceptError, AcceptFails, PhaseEnds, BeginClient, BeginServer,
         TurnTo, tableVars, clientVars
    <3>2. CASE RequestSteps \/ \E a \in SrvAddr : UseConn(a)
      BY <3>2, RequestStep DEF UseConn, TurnTo, tableVars, clientVars
    <3>3. CASE \E a \in SrvAddr : MakeConn(a) \/ AskElsewhere(a)
      <4>1. PICK a \in SrvAddr : MakeConn(a) \/ AskElsewhere(a)
        BY <3>3
      <4>2. a \in Addr /\ cur \in Idx
        BY ProxyAssumption DEF HandsOn
      <4>3. CASE MakeConn(a)
        BY <4>2, <4>3 DEF MakeConn, Connect, NewConn
      <4>4. CASE AskElsewhere(a)
        <5>1. conn_l[conn].clit_idx \in Idx
          BY <4>4, ServedConn DEF AskElsewhere, ServerPhase, Live
        <5> QED BY <4>2, <4>4, <5>1 DEF AskElsewhere, NewConn
      <4> QED BY <4>1, <4>3, <4>4
    <3>4. CASE RejectRequest \/ Forward \/ ServersFull \/ AskOverflows
      BY <3>4 DEF RejectRequest, Forward, ServersFull, AskOverflows, Overflow, Drop, tableVars,
         clientVars
    <3>5. CASE ResponseSteps
      <4>1. UNCHANGED tableVars \/ CloseConn(conn)
        <5>1. CASE ResponseHdrTimesOut
          <6>1. PICK h, s : GiveUp(h, s)
            BY <5>1 DEF ResponseHdrTimesOut
          <6> QED BY <6>1 DEF GiveUp, Drop, ReadOn, TurnTo
        <5>2. CASE ResponseSteps /\ ~ResponseHdrTimesOut
          BY <5>2 DEF ResponseSteps, ReadResponseHdr, ResponseHdrsEnd, ResponseHdrAtEnd,
             SkipHeaders, ReadBody, BodyAtEnd, AskSame, Answer, Drop, ReadOn, TurnTo
        <5> QED BY <3>5, <5>1, <5>2
      <4> QED BY <4>1 DEF tableVars, clientVars
    <3>6. CASE \/ \E fd \in Fd : Deliver(fd) \/ ServerAnswers(fd)
               \/ \E fd \in Fd, r \in Requests : Ask(fd, r)
               \/ \E fd \in Fd, how \in Fault : PeerStops(fd, how)
               \/ UNCHANGED proxyVars
      <4>1. UNCHANGED tableVars
        BY <3>6, PeerStep DEF proxyVars
      <4> QED BY <4>1 DEF tableVars, clientVars
    <3> QED BY <3>1, <3>2, <3>3, <3>4, <3>5, <3>6 DEF Next, Serve, RequestSteps, ResponseSteps
  <2>2. Live(client_l)' \subseteq Live(client_l)
    <3>1. CASE UNCHANGED client_l
      BY <3>1 DEF Live
    <3>2. CASE CloseConn(conn)
      BY <3>2, CloseConnInv DEF HandsOn
    <3>3. CASE \E c \in Idx, r \in Fd \cup {-1}, a \in Addr : OpenConn(c, r, a)
      BY <3>3, OpenConnInv
    <3> QED BY <2>1, <3>1, <3>2, <3>3
  <2> QED BY <1>1, <2>2
<1> QED BY <1>2, <1>3

LEMMA LeakNext ==
    ASSUME Stepping, Placed, Friendly, Spare, aborted \/ NoLeak, [Next]_proxyVars
    PROVE  (aborted \/ NoLeak)'
<1> USE DEF Stepping
<1>1. CASE CloseConn(conn)
  <2>1. PICK cfd, sfd : cfd = client_l[conn_l[conn].clit_idx].fd /\ sfd = ConnFd(conn)
    OBVIOUS
  <2>2. /\ ServerFds' = ServerFds \ {sfd}
        /\ \/ ClientFds' = ClientFds \ {cfd} /\ open_fds' = open_fds \ {cfd, sfd}
           \/ ClientFds' = ClientFds /\ open_fds' = open_fds \ {sfd}
    <3>1. conn \in Idx
      BY DEF HandsOn
    <3> QED BY <1>1, <2>1, <3>1, CloseConnInv DEF ConnFd
  <2>3. aborted' = aborted
    BY <1>1 DEF CloseConn
  <2> QED BY <2>2, <2>3 DEF NoLeak
<1>2. CASE \E a \in SrvAddr : MakeConn(a)
  <2>1. PICK a \in SrvAddr, r \in Fd : OpenConn(cur, r, a)
    BY <1>2, FirstConn
  <2>2. cur \in Idx /\ a \in Addr /\ r # -1
    BY ProxyAssumption DEF HandsOn, Fd
  <2>3. ClientFds' = ClientFds /\ ServerFds' = ServerFds \cup {r}
    BY <2>1, <2>2, OpenConnInv
  <2>4. open_fds' = open_fds \cup {r} /\ ~aborted
    BY <2>1, <2>2 DEF OpenConn, open_server_socket, Serving
  <2> QED BY <2>3, <2>4 DEF NoLeak
<1>3. CASE UNCHANGED <<server_l, conn_l>>
  <2>1. CASE \E fd \in Fd, a \in Addr : Accept(fd, a)
    <3>1. PICK fd \in Fd, a \in Addr : Accept(fd, a)
      BY <2>1
    <3>2. ClientFds' = ClientFds \cup {fd} /\ ServerFds' = ServerFds
      BY <3>1, AcceptInv
    <3>3. open_fds' = open_fds \cup {fd} /\ aborted' = aborted
      BY <3>1 DEF Accept
    <3> QED BY <3>2, <3>3 DEF NoLeak
  <2>2. CASE AcceptFails
    <3>1. UNCHANGED <<client_l, server_l, aborted>> /\ open_fds' \subseteq open_fds
      BY <2>2 DEF AcceptFails, clientVars, serverVars
    <3> QED BY <3>1 DEF NoLeak, ClientFds, ServerFds, Live
  <2>3. CASE \E c \in Idx, r \in Fd \cup {-1} : Overflow(c, r)
    BY <2>3 DEF Overflow
  <2>4. CASE \E c \in Idx, r \in Fd \cup {-1}, a \in Addr : OpenConn(c, r, a)
    <3>1. \E s \in Idx : s \in Live(server_l)' /\ s \notin Live(server_l)
      BY <2>4, OpenConnInv
    <3> QED BY <1>3, <3>1 DEF Live
  <2>5. CASE \E k \in Idx : CloseConn(k)
    <3>1. \E k \in Idx : k \in Live(conn_l) /\ k \notin Live(conn_l)'
      BY <2>5, CloseConnInv
    <3> QED BY <1>3, <3>1 DEF Live
  <2>6. CASE UNCHANGED tableVars
    BY <2>6 DEF tableVars, clientVars, serverVars, NoLeak, ClientFds, ServerFds, Live
  <2> QED BY <2>1, <2>2, <2>3, <2>4, <2>5, <2>6 DEF TableNext
<1> QED BY <1>1, <1>2, <1>3, ConnsMade, NoneElsewhere

\* Each client holds one descriptor, and each but the one that is to get a conn holds
\* one more for the server of its conn.
LEMMA SpareLeft ==
    ASSUME TableInv, HandsOn, OneConn, SpareInv, MaxAccepts \in Nat, FdLimit > 2 * MaxAccepts
    PROVE  Spare
<1> SUFFICES ASSUME pc = "lookup", ~aborted, ConnsOfClient(cur) = {}, Fd \subseteq open_fds
             PROVE  FALSE
  BY DEF Spare
<1> DEFINE L == Live(client_l)
           E == {c \in L : ConnsOfClient(c) # {}}
           T == {ConnFd(k) : k \in Live(conn_l)}
<1>1. /\ L \subseteq Idx /\ IsFiniteSet(L) /\ Cardinality(L) \in Nat /\ Cardinality(L) <= MaxAccepts
      /\ nacc \in Nat /\ FdLimit \in Nat
  BY IdxFinite, SizeAssumption DEF Live, SpareInv
<1>2. cur \in L /\ E \subseteq L \ {cur}
  BY DEF HandsOn, Live
<1>3. IsFiniteSet(E) /\ Cardinality(E) \in Nat /\ Cardinality(E) <= Cardinality(L) - 1
  <2>1. IsFiniteSet(L \ {cur}) /\ Cardinality(L \ {cur}) = Cardinality(L) - 1
    BY <1>1, <1>2, FS_RemoveElement
  <2> QED BY <1>2, <2>1, FS_Subset, FS_CardinalityType
<1>4. IsFiniteSet(ClientFds) /\ Cardinality(ClientFds) <= Cardinality(L)
  <2> DEFINE f == [c \in L |-> client_l[c].fd]
  <2>1. f \in Surjection(L, ClientFds)
    BY DEF ClientFds, Surjection
  <2> QED BY <1>1, <2>1, FS_Surjection
<1>5. IsFiniteSet(T) /\ Cardinality(T) <= Cardinality(E)
  <2> DEFINE g == [c \in E |-> ConnFd(CHOOSE k \in ConnsOfClient(c) : TRUE)]
  <2>1. ASSUME NEW c \in E PROVE g[c] \in T
    BY DEF ConnsOfClient
  <2>2. ASSUME NEW k \in Live(conn_l) PROVE \E c \in E : g[c] = ConnFd(k)
    <3>1. k \in ConnsOfClient(conn_l[k].clit_idx) /\ conn_l[k].clit_idx \in E
      BY ConnSockets DEF ConnsOfClient
    <3>2. (CHOOSE m \in ConnsOfClient(conn_l[k].clit_idx) : TRUE) = k
      BY <3>1 DEF OneConn, ConnsOfClient
    <3> QED BY <3>1, <3>2
  <2>3. g \in Surjection(E, T)
    BY <2>1, <2>2 DEF Surjection
  <2> QED BY <1>3, <2>3, FS_Surjection
<1>6. ServerFds \subseteq T
  <2> SUFFICES ASSUME NEW s \in Live(server_l) PROVE server_l[s].fd \in T
    BY DEF ServerFds
  <2>1. PICK k \in Live(conn_l) : ConnsOfServer(s) = {k}
    BY DEF TableInv, RefCounts
  <2>2. conn_l[k].serv_idx = s
    BY <2>1 DEF ConnsOfServer
  <2> QED BY <2>2 DEF ConnFd
<1> HIDE DEF L, E, T
<1>7. /\ IsFiniteSet({listen_sock} \cup ClientFds)
      /\ Cardinality({listen_sock} \cup ClientFds) <= 1 + Cardinality(L)
  <2>1. IsFiniteSet({listen_sock}) /\ Cardinality({listen_sock}) = 1
    BY FS_Singleton
  <2>2. /\ IsFiniteSet({listen_sock} \cup ClientFds)
        /\ Cardinality({listen_sock} \cup ClientFds) =
              1 + Cardinality(ClientFds) - Cardinality({listen_sock} \cap ClientFds)
    BY <1>4, <2>1, FS_Union
  <2>3. Cardinality({listen_sock} \cap ClientFds) \in Nat /\ Cardinality(ClientFds) \in Nat
    BY <1>4, FS_Subset, FS_CardinalityType
  <2> QED BY <1>1, <1>4, <2>2, <2>3
<1>8. /\ IsFiniteSet({listen_sock} \cup ClientFds \cup T)
      /\ Cardinality({listen_sock} \cup ClientFds \cup T) <= 2 * Cardinality(L)
  <2> DEFINE U == {listen_sock} \cup ClientFds
  <2>1. IsFiniteSet(U) /\ Cardinality(U) \in Nat /\ Cardinality(U) <= 1 + Cardinality(L)
    BY <1>7, FS_CardinalityType
  <2> HIDE DEF U
  <2>2. /\ IsFiniteSet(U \cup T)
        /\ Cardinality(U \cup T) = Cardinality(U) + Cardinality(T) - Cardinality(U \cap T)
    BY <1>5, <2>1, FS_Union
  <2>3. Cardinality(U \cap T) \in Nat /\ Cardinality(T) \in Nat
    <3>1. IsFiniteSet(U \cap T)
      BY <2>1, FS_Subset
    <3> QED BY <1>5, <3>1, FS_CardinalityType
  <2>4. Cardinality(U \cup T) <= 2 * Cardinality(L)
    BY <1>1, <1>3, <1>5, <2>1, <2>2, <2>3
  <2> QED BY <2>2, <2>4 DEF U
<1>9. Fd \subseteq {listen_sock} \cup ClientFds \cup T
  BY <1>6 DEF SpareInv, NoLeak
<1>10. Cardinality(Fd) = FdLimit
  <2>1. 0 \in Int /\ FdLimit - 1 \in Int /\ ~(0 > FdLimit - 1)
    BY <1>1, SizeAssumption
  <2>2. Cardinality(0 .. FdLimit - 1) = FdLimit - 1 - 0 + 1
    BY <2>1, FS_Interval
  <2> QED BY <1>1, <2>2 DEF Fd
<1>11. Cardinality(Fd) <= Cardinality({listen_sock} \cup ClientFds \cup T)
  BY <1>8, <1>9, FS_Subset
<1>12. Cardinality({listen_sock} \cup ClientFds \cup T) \in Nat
  BY <1>8, FS_CardinalityType
<1> QED BY <1>1, <1>8, <1>10, <1>11, <1>12

LEMMA SpareNext ==
    ASSUME Stepping, OneConn, Placed, Friendly, Spare, SpareInv, MaxAccepts \in Nat,
           [Next]_proxyVars
    PROVE  SpareInv'
<1>1. (aborted \/ NoLeak)'
  BY LeakNext DEF SpareInv
<1>2. /\ nacc \in Nat /\ nacc' \in Nat /\ nacc' <= MaxAccepts /\ nacc <= nacc'
      /\ \/ Live(client_l)' \subseteq Live(client_l)
         \/ /\ nacc' = nacc + 1
            /\ \E i \in Idx : Live(client_l)' = Live(client_l) \cup {i}
  BY ClientsCounted DEF SpareInv
<1>3. /\ IsFiniteSet(Live(client_l)) /\ Cardinality(Live(client_l)) \in Nat
      /\ Cardinality(Live(client_l)) <= nacc
  BY IdxFinite DEF Live, SpareInv
<1>4. Cardinality(Live(client_l)') <= nacc'
  <2>1. CASE Live(client_l)' \subseteq Live(client_l)
    <3>1. /\ Cardinality(Live(client_l)') <= Cardinality(Live(client_l))
          /\ IsFiniteSet(Live(client_l)')
      BY <1>3, <2>1, FS_Subset
    <3>2. Cardinality(Live(client_l)') \in Nat
      BY <3>1, FS_CardinalityType
    <3> QED BY <1>2, <1>3, <3>1, <3>2
  <2>2. CASE nacc' = nacc + 1 /\ \E i \in Idx : Live(client_l)' = Live(client_l) \cup {i}
    <3>1. PICK i \in Idx : Live(client_l)' = Live(client_l) \cup {i}
      BY <2>2
    <3>2. Cardinality(Live(client_l)') <= Cardinality(Live(client_l)) + 1
      BY <1>3, <3>1, FS_AddElement
    <3>3. IsFiniteSet(Live(client_l)') /\ Cardinality(Live(client_l)') \in Nat
      BY <1>3, <3>1, FS_AddElement, FS_CardinalityType
    <3> QED BY <1>2, <1>3, <2>2, <3>2, <3>3
  <2> QED BY <1>2, <2>1, <2>2
<1> QED BY <1>1, <1>2, <1>4 DEF SpareInv

LEMMA SpareInit == MaxAccepts \in Nat /\ Init => SpareInv
<1> SUFFICES ASSUME MaxAccepts \in Nat, Init PROVE SpareInv
  OBVIOUS
<1>1. NoLeak /\ Live(client_l) = {} /\ nacc = 0
  BY DEF Init, TableInit, NoLeak, Live
<1>2. Cardinality(Live(client_l)) = 0
  BY <1>1, FS_EmptySet
<1> QED BY <1>1, <1>2 DEF SpareInv

-----------------------------------------------------------------------------
(* No request is forgotten *)

\* A request that a browser has sent and that nothing has answered is somewhere: in
\* the client's socket, in the hands of client2server or server2client, or with a
\* server of the client's own conn, which is to answer it or has gone.  It holds
\* whatever browsers and servers stop or reset, as long as a descriptor is left when
\* a client gets its conn.
THEOREM RequestsTracked ==
    ASSUME Friendly
    PROVE  Spec /\ []Spare => []RequestTracked
<1>1. Init => TrackInv
  BY TrackInit
<1>2. ASSUME TableInv, HandsOn, SessionInv, TrackInv, Spare, [Next]_proxyVars
      PROVE  TrackInv'
  <2>1. TableInv' /\ [TableNext]_tableVars
    BY <1>2, ProxyStep, NextInv
  <2>2. SessionInv'
    BY <1>2, SessionStep
  <2>3. Stepping
    BY <1>2, <2>1, <2>2 DEF Stepping
  <2> QED BY <1>2, <2>3, TrackNext
<1>3. TrackInv => RequestTracked
  BY TrackedMeans DEF TrackInv
<1> QED BY <1>1, <1>2, <1>3, ProxyTablesCorrect, HandsOnAlways, SessionAlways, PTL DEF Spec

\* A descriptor is left whenever a client needs one if there are more than two for
\* each connection that browsers open.
THEOREM NoneForgotten ==
    ASSUME Friendly, MaxAccepts \in Nat, FdLimit > 2 * MaxAccepts
    PROVE  Spec => []RequestTracked
<1>1. Init => TrackInv /\ SpareInv
  BY TrackInit, SpareInit
<1>2. ASSUME TableInv, HandsOn, SessionInv, TrackInv, SpareInv, [Next]_proxyVars
      PROVE  TrackInv' /\ SpareInv'
  <2>1. TableInv' /\ [TableNext]_tableVars
    BY <1>2, ProxyStep, NextInv
  <2>2. SessionInv'
    BY <1>2, SessionStep
  <2>3. Stepping
    BY <1>2, <2>1, <2>2 DEF Stepping
  <2>4. Spare
    BY <1>2, SpareLeft DEF TrackInv
  <2> QED BY <1>2, <2>3, <2>4, TrackNext, SpareNext DEF TrackInv
<1>3. TrackInv => RequestTracked
  BY TrackedMeans DEF TrackInv
<1> QED BY <1>1, <1>2, <1>3, ProxyTablesCorrect, HandsOnAlways, SessionAlways, PTL DEF Spec
=============================================================================
