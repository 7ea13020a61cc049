----------------------------- MODULE ScanProofs -----------------------------
(***************************************************************************)
(* Proof about Proxy, for all its constants, that the count nready with    *)
(* which serve_clients and serve_servers end their scans never runs out    *)
(* before every socket that select() has reported is served.               *)
(*                                                                         *)
(* What select() returns is twice the number of the sockets reported: each *)
(* of them is writable, too.  The argument is what this pays for.          *)
(***************************************************************************)
EXTENDS ProxyProofs

\* The descriptors reported by select() that a client or server not yet come to
\* has now, and those that a server has at all.
DueClients == {fd \in ready : \E i \in Live(client_l) : i >= at /\ client_l[i].fd = fd}
DueServers == {fd \in ready : \E i \in Live(server_l) : i >= at /\ server_l[i].fd = fd}
AllServers == ready \cap ServerFds

\* A manifest is on its way on a socket, or in the hands of server2client: such a
\* server may have another one opened, none else.
Carrying(fd) == \E r \in Request : r.kind = "list" /\ Carries(sock[fd], r)
Listing ==
    {fd \in DueServers :
        \/ Carrying(fd)
        \/ /\ pc \in ServerPhase /\ server_l[cur].fd = fd
           /\ res # NULL /\ res.r.kind = "list"}

\* What is still to be served while clients are.  A client in turn may drop its
\* conn and so free two descriptors that were reported, or have a server opened,
\* which is served, too, if it gets such a descriptor, and may have another opened.
ClientsDue(due) ==
    2 * Cardinality(AllServers) + 2 * Cardinality(due) + Cardinality(ready \ open_fds)

\* nready pays for all that is still to be served.
Paid ==
    /\ pc \in {"clients", "req_line", "req_hdrs", "lookup"} =>
          nready >= ClientsDue(DueClients)
    /\ pc = "forward" =>
          nready >= ClientsDue(DueClients \ {clit_fd})
                    + (IF ConnFd(conn) \in ready THEN 1 ELSE 2)
    /\ pc \in {"servers", "res_hdrs", "res_body"} =>
          nready >= Cardinality(DueServers) + Cardinality(Listing)

\* The slot being served is not behind the place where the scan goes on.
InTurn ==
    /\ pc \in ClientPhase \cup ServerPhase => cur >= at
    /\ at \in Nat /\ nready \in Int

ScanInv == InTurn /\ Paid

-----------------------------------------------------------------------------
(* Counting descriptors *)

LEMMA FdCounts ==
    /\ IsFiniteSet(Fd)
    /\ \A T \in SUBSET Fd : IsFiniteSet(T) /\ Cardinality(T) \in Nat
<1>1. IsFiniteSet(Fd)
  <2>1. 0 \in Int /\ FdLimit - 1 \in Int
    BY SizeAssumption
  <2>2. IsFiniteSet(0 .. FdLimit - 1)
    BY <2>1, FS_Interval
  <2> QED BY <2>2 DEF Fd
<1>2. \A T \in SUBSET Fd : IsFiniteSet(T)
  BY <1>1, FS_Subset
<1> QED BY <1>1, <1>2, FS_CardinalityType

LEMMA SubsetCount ==
    ASSUME NEW U \in SUBSET Fd, NEW T, T \subseteq U
    PROVE  /\ Cardinality(T) <= Cardinality(U)
           /\ Cardinality(T) \in Nat /\ Cardinality(U) \in Nat
BY FdCounts, FS_Subset

LEMMA OneMoreCount ==
    ASSUME NEW U \in SUBSET Fd, NEW x \in Fd, NEW T, T \subseteq U \cup {x}
    PROVE  Cardinality(T) <= Cardinality(U) + 1
<1>1. IsFiniteSet(U) /\ Cardinality(U) \in Nat
  BY FdCounts
<1>2. Cardinality(U \cup {x}) <= Cardinality(U) + 1
  BY <1>1, FS_AddElement
<1>3. Cardinality(T) <= Cardinality(U \cup {x}) /\ Cardinality(U \cup {x}) \in Nat
      /\ Cardinality(T) \in Nat
  BY SubsetCount
<1> QED BY <1>1, <1>2, <1>3

LEMMA OneLessCount ==
    ASSUME NEW U \in SUBSET Fd, NEW x \in U, NEW T, T \subseteq U \ {x}
    PROVE  Cardinality(T) <= Cardinality(U) - 1
<1>1. IsFiniteSet(U) /\ Cardinality(U) \in Nat
  BY FdCounts
<1>2. Cardinality(U \ {x}) = Cardinality(U) - 1
  BY <1>1, FS_RemoveElement
<1>3. Cardinality(T) <= Cardinality(U \ {x}) /\ Cardinality(T) \in Nat
  BY SubsetCount
<1> QED BY <1>1, <1>2, <1>3

\* Nothing else is counted than descriptors that were reported.
LEMMA DueSubsets ==
    ASSUME HandsOn
    PROVE  /\ ready \in SUBSET Fd
           /\ DueClients \in SUBSET Fd /\ DueServers \in SUBSET Fd
           /\ AllServers \in SUBSET Fd /\ Listing \in SUBSET Fd
           /\ ready \ open_fds \in SUBSET Fd
           /\ DueServers \subseteq AllServers /\ Listing \subseteq DueServers
<1>1. ready \subseteq Fd
  BY DEF HandsOn
<1>2. DueServers \subseteq AllServers
  BY <1>1 DEF DueServers, AllServers, ServerFds, Fd
<1> QED BY <1>1, <1>2 DEF DueClients, DueServers, AllServers, Listing

\* While the tables and the sets of select() stay, nothing new is due.
LEMMA SameDue ==
    ASSUME UNCHANGED <<tableVars, ready>>
    PROVE  /\ at' = at => DueClients' = DueClients /\ DueServers' = DueServers
           /\ AllServers' = AllServers /\ (ready \ open_fds)' = ready \ open_fds
BY DEF DueClients, DueServers, AllServers, Live, ServerFds, tableVars, clientVars, serverVars

\* The socket being served is one that is due, and is so no more behind its slot.
LEMMA ClientServed ==
    ASSUME TableInv, HandsOn, SocketsInv, InTurn, pc \in ClientPhase
    PROVE  /\ clit_fd \in DueClients /\ clit_fd \in ready
           /\ \A i \in Live(client_l) : i >= cur + 1 => client_l[i].fd # clit_fd
<1>1. cur \in Live(client_l) /\ clit_fd \in ready /\ cur >= at /\ cur \in Int
  BY DEF HandsOn, ClientPhase, SocketsInv, ServedReported, InTurn, Live, clit_fd, Idx
<1>2. \A i \in Live(client_l) : client_l[i].fd = clit_fd => i = cur
  BY <1>1 DEF TableInv, FdOwnership, clit_fd
<1> QED BY <1>1, <1>2 DEF DueClients, clit_fd

LEMMA ServerServed ==
    ASSUME TableInv, HandsOn, SocketsInv, InTurn, pc \in ServerPhase
    PROVE  /\ serv_fd \in DueServers /\ serv_fd \in ready /\ serv_fd \in open_fds
           /\ ConnFd(conn) = serv_fd /\ conn \in Live(conn_l)
           /\ \A i \in Live(server_l) : i >= cur + 1 => server_l[i].fd # serv_fd
<1>1. /\ cur \in Live(server_l) /\ serv_fd \in ready /\ cur >= at /\ cur \in Int
      /\ serv_fd \in Fd /\ serv_fd # -1
      /\ ConnFd(conn) = serv_fd /\ conn \in Live(conn_l)
  BY ReadSocket DEF HandsOn, ServerPhase, SocketsInv, ServedReported, InTurn, Live, serv_fd,
                    Idx, Fd
<1>2. \A i \in Live(server_l) : server_l[i].fd = serv_fd => i = cur
  BY <1>1 DEF TableInv, FdOwnership, serv_fd
<1>3. serv_fd \in open_fds
  BY <1>1 DEF TableInv, FdOwnership, ServerFds, serv_fd
<1> QED BY <1>1, <1>2, <1>3 DEF DueServers, serv_fd

-----------------------------------------------------------------------------
(* While clients are served *)

\* Reading on in client2server, or coming to a client.
LEMMA OnClientScan ==
    ASSUME ScanInv, UNCHANGED <<tableVars, ready, at, nready>>, cur' >= at,
           pc \in {"clients", "req_line", "req_hdrs", "lookup"},
           pc' \in {"req_line", "req_hdrs", "lookup"}
    PROVE  ScanInv'
<1>1. ClientsDue(DueClients)' = ClientsDue(DueClients)
  BY SameDue DEF ClientsDue
<1>2. InTurn'
  BY DEF ScanInv, InTurn
<1>3. Paid'
  BY <1>1 DEF ScanInv, Paid
<1> QED BY <1>2, <1>3 DEF ScanInv

\* A return starts the scan behind the slot.
LEMMA BackTurn ==
    ASSUME HandsOn, ScanInv, NEW phase \in {"clients", "servers"}, BackTo(phase)
    PROVE  InTurn' /\ ready' = ready /\ at' = cur + 1 /\ nready' = nready - 1 /\ pc' = phase
<1>1. cur + 1 \in Nat /\ nready - 1 \in Int
  BY DEF HandsOn, Idx, ScanInv, InTurn
<1> QED BY <1>1 DEF BackTo, InTurn, ClientPhase, ServerPhase

\* The clients that are left when client2server returns.
LEMMA ClientsLeft ==
    ASSUME TableInv, HandsOn, SocketsInv, InTurn, pc \in ClientPhase,
           at' = cur + 1, ready' = ready,
           Live(client_l)' \subseteq Live(client_l),
           \A i \in Live(client_l)' : client_l'[i].fd = client_l[i].fd
    PROVE  DueClients' \subseteq DueClients \ {clit_fd}
<1>1. \A i \in Live(client_l) : i >= cur + 1 => client_l[i].fd # clit_fd
  BY ClientServed
<1>2. \A i \in Live(client_l) : i >= cur + 1 => i >= at
  BY DEF InTurn, HandsOn, Live, Idx
<1> QED BY <1>1, <1>2 DEF DueClients

\* client2server returns and has left the tables as they were.
LEMMA BackScan ==
    ASSUME TableInv, HandsOn, SocketsInv, ScanInv, pc \in ClientPhase,
           UNCHANGED tableVars, BackTo("clients")
    PROVE  ScanInv'
<1>1. InTurn' /\ ready' = ready /\ at' = cur + 1 /\ nready' = nready - 1 /\ pc' = "clients"
  BY BackTurn
<1>2. AllServers' = AllServers /\ (ready \ open_fds)' = ready \ open_fds
  BY <1>1, SameDue
<1>3. DueClients' \subseteq DueClients \ {clit_fd} /\ clit_fd \in DueClients
  BY <1>1, ClientsLeft, ClientServed DEF ScanInv, Live, tableVars, clientVars
<1> DEFINE D == DueClients \ {clit_fd}
<1>4. /\ Cardinality(D) = Cardinality(DueClients) - 1
      /\ Cardinality(DueClients') <= Cardinality(D)
      /\ Cardinality(DueClients) \in Nat /\ Cardinality(D) \in Nat
      /\ Cardinality(DueClients') \in Nat
      /\ Cardinality(AllServers) \in Nat /\ Cardinality(ready \ open_fds) \in Nat
  <2>1. DueClients \in SUBSET Fd /\ AllServers \in SUBSET Fd /\ ready \ open_fds \in SUBSET Fd
    BY DueSubsets
  <2>2. D \in SUBSET Fd /\ DueClients' \in SUBSET Fd
    BY <1>3, <2>1
  <2> QED BY <1>3, <2>1, <2>2, FdCounts, SubsetCount, FS_RemoveElement
<1>5. nready - 1 >= ClientsDue(DueClients') /\ nready \in Int
  <2>1. CASE pc = "forward"
    BY <1>4, <2>1 DEF ScanInv, Paid, InTurn, ClientsDue
  <2>2. CASE pc # "forward"
    BY <1>4, <2>2 DEF ScanInv, Paid, InTurn, ClientsDue, ClientPhase
  <2> QED BY <2>1, <2>2
<1>6. Paid'
  BY <1>1, <1>2, <1>5 DEF Paid, ClientsDue
<1> QED BY <1>1, <1>6 DEF ScanInv

LEMMA StopScan ==
    ASSUME ScanInv, NEW how \in {"hung", "crashed"}, Stop(how)
    PROVE  ScanInv'
BY DEF ScanInv, InTurn, Paid, Stop, ClientPhase, ServerPhase

\* client2server reads a request.
LEMMA RequestScan ==
    ASSUME TableInv, HandsOn, SocketsInv, ScanInv, RequestSteps
    PROVE  ScanInv'
<1>1. pc \in {"req_line", "req_hdrs", "lookup"} /\ pc \in ClientPhase /\ cur >= at
  BY DEF RequestSteps, ReadRequestLine, RequestLineTimesOut, RequestLineAtEnd, ReadRequestHdr,
         RequestHdrTimesOut, RequestHdrAtEnd, BadUri, ClientPhase, ScanInv, InTurn
<1>2. ASSUME NEW phase \in {"req_hdrs", "lookup"}, TurnTo(phase, cur)
      PROVE  ScanInv'
  BY <1>1, <1>2, OnClientScan DEF TurnTo
<1>3. ASSUME NEW kind, Refuse(kind)
      PROVE  ScanInv'
  BY <1>1, <1>3, BackScan DEF Refuse
<1>4. ASSUME StartStale PROVE ScanInv'
  BY <1>2, <1>4 DEF StartStale, StartRequest
<1>5. CASE ReadRequestLine
  BY <1>2, <1>3, <1>4, <1>5 DEF ReadRequestLine, StartRequest
<1>6. CASE RequestLineAtEnd
  BY <1>1, <1>3, <1>4, <1>6, BackScan DEF RequestLineAtEnd
<1>7. CASE ReadRequestHdr
  BY <1>2, <1>7 DEF ReadRequestHdr, HeadersRead
<1>8. CASE RequestHdrTimesOut
  BY <1>2, <1>8 DEF RequestHdrTimesOut, HeadersRead
<1>9. CASE RequestHdrAtEnd
  BY <1>2, <1>9, StopScan DEF RequestHdrAtEnd, HeadersRead
<1>10. CASE BadUri
  BY <1>3, <1>10 DEF BadUri
<1>11. CASE RequestLineTimesOut
  BY <1>1, <1>2, <1>3, <1>4, <1>11, BackScan DEF RequestLineTimesOut, StartRequest
<1> QED BY <1>5, <1>6, <1>7, <1>8, <1>9, <1>10, <1>11 DEF RequestSteps

\* resolve() has returned: what the conn found or made costs.
LEMMA LookupScan ==
    ASSUME TableInv, HandsOn, SocketsInv, ScanInv, NEW a \in SrvAddr, UseConn(a) \/ MakeConn(a)
    PROVE  ScanInv'
<1> DEFINE A == AllServers
           D == DueClients
           F == ready \ open_fds
<1>1. /\ pc = "lookup" /\ pc' = "forward" /\ pc \in ClientPhase
      /\ UNCHANGED <<at, cur, ready, nready>>
  BY DEF UseConn, MakeConn, TurnTo, ClientPhase
<1>2. InTurn'
  BY <1>1 DEF ScanInv, InTurn, ClientPhase, ServerPhase
<1>3. /\ A \in SUBSET Fd /\ D \in SUBSET Fd /\ F \in SUBSET Fd
      /\ clit_fd \in D /\ nready \in Int /\ nready >= ClientsDue(D)
  BY <1>1, DueSubsets, ClientServed DEF ScanInv, InTurn, Paid
<1>4. /\ Cardinality(D \ {clit_fd}) = Cardinality(D) - 1
      /\ Cardinality(A) \in Nat /\ Cardinality(D) \in Nat /\ Cardinality(F) \in Nat
  BY <1>3, FdCounts, FS_RemoveElement
<1>5. /\ DueClients' = D /\ clit_fd' = clit_fd
      /\ \/ AllServers' = A /\ (ready \ open_fds)' \subseteq F
         \/ /\ ConnFd(conn)' \in F
            /\ AllServers' \subseteq A \cup {ConnFd(conn)'}
            /\ (ready \ open_fds)' \subseteq F \ {ConnFd(conn)'}
  <2>1. CASE UseConn(a)
    <3>1. UNCHANGED <<tableVars, cur>>
      BY <2>1 DEF UseConn, TurnTo
    <3>2. clit_fd' = clit_fd
      BY <3>1 DEF clit_fd, tableVars, clientVars
    <3> QED BY <1>1, <3>1, <3>2, SameDue
  <2>2. CASE MakeConn(a)
    <3>1. PICK r \in Fd \cup {-1}, k \in Idx : NewConn(cur, r, a, k) /\ conn' = k
      BY <2>2 DEF MakeConn, Connect
    <3>2. cur \in Idx /\ cur \in Live(client_l) /\ a \in Addr
      BY <1>1, ProxyAssumption DEF HandsOn, Live
    <3>3. OpenConn(cur, r, a) /\ k \in Live(conn_l)' /\ k \notin Live(conn_l)
      BY <3>1 DEF NewConn, Live
    <3>4. /\ ServerFds' = ServerFds \cup ({r} \ {-1})
          /\ open_fds \subseteq open_fds' /\ (r # -1 => r \in open_fds' \ open_fds)
          /\ Live(client_l)' = Live(client_l)
          /\ \A j \in Live(client_l) : client_l'[j].fd = client_l[j].fd
      BY <3>2, <3>3, OpenConnInv
    <3>5. \E s, m \in Idx :
             conn_l'[m].serv_idx = s /\ server_l'[s].fd = r /\ m = k
      <4>1. PICK c \in Idx : c = cur
        BY <3>2
      <4>2. OpenConn(c, r, a)
        BY <3>3, <4>1
      <4>3. \E s, m \in Idx :
               /\ Live(conn_l)' = Live(conn_l) \cup {m}
               /\ conn_l'[m] = [clit_idx |-> c, serv_idx |-> s] /\ server_l'[s].fd = r
        BY <3>2, <4>2, OpenConnInv
      <4> QED BY <3>3, <4>3
    <3>6. ConnFd(conn)' = r
      BY <3>1, <3>5 DEF ConnFd
    <3>7. DueClients' = D
      BY <1>1, <3>4 DEF DueClients
    <3>8. clit_fd' = clit_fd
      BY <1>1, <3>2, <3>4 DEF clit_fd
    <3>9. CASE r \in ready
      <4>1. r \in F /\ r # -1
        BY <3>4, <3>9 DEF HandsOn, Fd
      <4> QED BY <1>1, <3>4, <3>6, <3>7, <3>8, <4>1 DEF AllServers
    <3>10. CASE r \notin ready
      BY <1>1, <3>4, <3>7, <3>8, <3>10 DEF AllServers
    <3> QED BY <3>9, <3>10
  <2> QED BY <2>1, <2>2
<1>6. nready >= ClientsDue(DueClients \ {clit_fd})' + (IF ConnFd(conn)' \in ready THEN 1 ELSE 2)
  <2>1. CASE AllServers' = A /\ (ready \ open_fds)' \subseteq F
    <3>1. /\ Cardinality((ready \ open_fds)') <= Cardinality(F)
          /\ Cardinality((ready \ open_fds)') \in Nat
      BY <1>3, <2>1, SubsetCount
    <3> QED BY <1>3, <1>4, <1>5, <2>1, <3>1 DEF ClientsDue
  <2>2. CASE /\ ConnFd(conn)' \in F
             /\ AllServers' \subseteq A \cup {ConnFd(conn)'}
             /\ (ready \ open_fds)' \subseteq F \ {ConnFd(conn)'}
    <3>1. PICK r \in F : r = ConnFd(conn)'
      BY <2>2
    <3>2. Cardinality(AllServers') <= Cardinality(A) + 1
      BY <1>3, <2>2, <3>1, OneMoreCount
    <3>3. Cardinality((ready \ open_fds)') <= Cardinality(F) - 1
      BY <1>3, <2>2, <3>1, OneLessCount
    <3>4. Cardinality(AllServers') \in Nat /\ Cardinality((ready \ open_fds)') \in Nat
      BY <1>3, <2>2, <3>1, FdCounts
    <3> QED BY <1>3, <1>4, <1>5, <2>2, <3>2, <3>3, <3>4 DEF ClientsDue
  <2> QED BY <1>5, <2>1, <2>2
<1>7. Paid'
  BY <1>1, <1>6 DEF Paid
<1> QED BY <1>2, <1>7 DEF ScanInv

\* client2server gives a request up, and with it its conn.
LEMMA RejectScan ==
    ASSUME TableInv, HandsOn, SocketsInv, ScanInv, RejectRequest
    PROVE  ScanInv'
<1> DEFINE A == AllServers
           D == DueClients \ {clit_fd}
           F == ready \ open_fds
           sfd == ConnFd(conn)
<1>1. /\ pc = "forward" /\ pc \in ClientPhase
      /\ CloseConn(conn) /\ BackTo("clients") /\ conn \in Idx
      /\ conn_l[conn].clit_idx = cur /\ conn \in Live(conn_l)
  BY DEF RejectRequest, Drop, HandsOn, ClientPhase, Live
<1>2. InTurn' /\ ready' = ready /\ at' = cur + 1 /\ nready' = nready - 1 /\ pc' = "clients"
  BY <1>1, BackTurn
<1>3. /\ Live(client_l)' \subseteq Live(client_l)
      /\ \A j \in Live(client_l)' : client_l'[j].fd = client_l[j].fd
      /\ ServerFds' = ServerFds \ {sfd} /\ open_fds \subseteq open_fds' \cup {clit_fd, sfd}
      /\ conn_l[conn].serv_idx \in Live(server_l)
  BY <1>1, CloseConnInv DEF ConnFd, clit_fd
<1>4. DueClients' \subseteq D
  BY <1>1, <1>2, <1>3, ClientsLeft DEF ScanInv
<1>5. /\ A \in SUBSET Fd /\ D \in SUBSET Fd /\ F \in SUBSET Fd
      /\ clit_fd \in ready /\ ready \subseteq Fd /\ clit_fd \in Fd
      /\ nready \in Int /\ nready >= ClientsDue(D) + (IF sfd \in ready THEN 1 ELSE 2)
  BY <1>1, DueSubsets, ClientServed DEF ScanInv, InTurn, Paid, HandsOn
<1>6. /\ Cardinality(A) \in Nat /\ Cardinality(D) \in Nat /\ Cardinality(F) \in Nat
      /\ Cardinality(DueClients') \in Nat /\ Cardinality(DueClients') <= Cardinality(D)
  BY <1>4, <1>5, FdCounts, SubsetCount
<1>7. nready' >= ClientsDue(DueClients)'
  <2>1. CASE sfd \in ready
    <3>1. sfd \in A /\ AllServers' = A \ {sfd} /\ sfd \in Fd
      <4>1. sfd \in Fd /\ sfd # -1
        <5> HIDE DEF sfd
        <5> QED BY <1>5, <2>1 DEF Fd
      <4>2. sfd \in ServerFds
        BY <1>3, <4>1 DEF ServerFds, ConnFd
      <4> QED BY <1>2, <1>3, <2>1, <4>1, <4>2 DEF AllServers
    <3>2. Cardinality(AllServers') <= Cardinality(A) - 1 /\ Cardinality(AllServers') \in Nat
      BY <1>5, <3>1, OneLessCount, FdCounts
    <3>3. F \cup {sfd} \in SUBSET Fd /\ (ready \ open_fds)' \subseteq (F \cup {sfd}) \cup {clit_fd}
      BY <1>2, <1>3, <1>5, <3>1
    <3>4. /\ Cardinality(F \cup {sfd}) <= Cardinality(F) + 1
          /\ Cardinality((ready \ open_fds)') <= Cardinality(F \cup {sfd}) + 1
      <4>1. Cardinality(F \cup {sfd}) <= Cardinality(F) + 1
        BY <1>5, <3>1, OneMoreCount
      <4>2. Cardinality((ready \ open_fds)') <= Cardinality(F \cup {sfd}) + 1
        BY <1>5, <3>3, OneMoreCount
      <4> QED BY <4>1, <4>2
    <3>5. Cardinality(F \cup {sfd}) \in Nat /\ Cardinality((ready \ open_fds)') \in Nat
      <4>1. (ready \ open_fds)' \in SUBSET Fd
        BY <1>5, <3>3
      <4> QED BY <3>3, <4>1, FdCounts
    <3> QED BY <1>2, <1>5, <1>6, <2>1, <3>2, <3>4, <3>5 DEF ClientsDue
  <2>2. CASE sfd \notin ready
    <3>1. AllServers' = A
      BY <1>2, <1>3, <2>2 DEF AllServers
    <3>2. (ready \ open_fds)' \subseteq F \cup {clit_fd}
      BY <1>2, <1>3, <1>5, <2>2
    <3>3. /\ Cardinality((ready \ open_fds)') <= Cardinality(F) + 1
          /\ Cardinality((ready \ open_fds)') \in Nat
      <4>1. (ready \ open_fds)' \in SUBSET Fd
        BY <1>5, <3>2
      <4> QED BY <1>5, <3>2, <4>1, OneMoreCount, FdCounts
    <3> QED BY <1>2, <1>5, <1>6, <2>2, <3>1, <3>3 DEF ClientsDue
  <2> QED BY <2>1, <2>2
<1>8. Paid'
  BY <1>2, <1>7 DEF Paid
<1> QED BY <1>2, <1>8 DEF ScanInv

\* client2server passes a request on.
LEMMA ForwardScan ==
    ASSUME TableInv, HandsOn, SocketsInv, ScanInv, Forward
    PROVE  ScanInv'
BY BackScan DEF Forward, ClientPhase

-----------------------------------------------------------------------------
(* While servers are served *)

\* No manifest comes to be on its way in the step.
Quiet ==
    \A fd \in Fd : sock'[fd] # NULL =>
       \A r \in Request : r.kind = "list" /\ Carries(sock'[fd], r) =>
          sock[fd] # NULL /\ Carries(sock[fd], r)

LEMMA QuietAdds ==
    ASSUME NEW F, NEW q, Adds(F, q), F = {} \/ q.kind # "list"
    PROVE  Quiet
BY DEF Quiet, Adds

\* A server that is due has a socket.
LEMMA DueSocket ==
    ASSUME HandsOn, SocketsHeld, NEW fd \in DueServers
    PROVE  fd \in Fd /\ fd \in ServerFds /\ sock[fd] # NULL
<1>1. fd \in Fd /\ fd \in ServerFds
  BY DueSubsets DEF AllServers
<1> QED BY <1>1 DEF SocketsHeld

\* Another server may have a manifest under way only if it had one.
LEMMA ListingLeft ==
    ASSUME HandsOn, HandsOn', SocketsHeld, SocketsHeld', Quiet,
           NEW fd \in DueServers', fd \in DueServers, Carrying(fd)'
    PROVE  fd \in Listing
<1>1. fd \in Fd /\ sock'[fd] # NULL
  <2>1. fd \in ready' /\ ready' \subseteq Fd
    BY DEF DueServers, HandsOn
  <2>2. fd \in ServerFds'
    BY <2>1 DEF DueServers, ServerFds, Fd
  <2> QED BY <2>1, <2>2 DEF SocketsHeld
<1>2. Carrying(fd)
  BY <1>1 DEF Quiet, Carrying
<1> QED BY <1>2 DEF Listing

\* What is left to pay for, when fewer servers are due and fewer manifests.
LEMMA FewerServers ==
    ASSUME HandsOn, ScanInv, pc \in {"servers", "res_hdrs", "res_body"},
           DueServers' \subseteq DueServers, Listing' \subseteq Listing, nready' = nready
    PROVE  nready' >= Cardinality(DueServers') + Cardinality(Listing')
<1>1. DueServers \in SUBSET Fd /\ Listing \in SUBSET Fd
  BY DueSubsets
<1>2. /\ Cardinality(DueServers') <= Cardinality(DueServers)
      /\ Cardinality(Listing') <= Cardinality(Listing)
      /\ Cardinality(DueServers) \in Nat /\ Cardinality(Listing) \in Nat
      /\ Cardinality(DueServers') \in Nat /\ Cardinality(Listing') \in Nat
  BY <1>1, SubsetCount
<1>3. nready \in Int /\ nready >= Cardinality(DueServers) + Cardinality(Listing)
  BY DEF ScanInv, InTurn, Paid
<1> QED BY <1>2, <1>3

\* Reading on in server2client, coming to a server, and what peers do meanwhile.
LEMMA OnServerScan ==
    ASSUME HandsOn, HandsOn', SocketsInv, SocketsInv', ScanInv, Quiet,
           UNCHANGED <<tableVars, ready, at, nready>>, cur' >= at,
           pc \in {"servers", "res_hdrs", "res_body"}, pc' \in ServerPhase,
           \/ res' = NULL
           \/ pc \in ServerPhase /\ cur' = cur /\ res # NULL /\ res'.r = res.r
           \/ Carrying(server_l[cur'].fd) \/ res'.r.kind # "list"
    PROVE  ScanInv'
<1>1. DueServers' = DueServers
  BY SameDue
<1>2. server_l' = server_l
  BY DEF tableVars, serverVars
<1>3. Listing' \subseteq Listing
  <2> SUFFICES ASSUME NEW fd \in Listing' PROVE fd \in Listing
    OBVIOUS
  <2>1. fd \in DueServers /\ fd \in DueServers'
    BY <1>1 DEF Listing
  <2>2. CASE Carrying(fd)'
    BY <2>1, <2>2, ListingLeft DEF SocketsInv
  <2>3. CASE server_l'[cur'].fd = fd /\ res' # NULL /\ res'.r.kind = "list"
    BY <1>2, <2>1, <2>3 DEF Listing
  <2> QED BY <2>2, <2>3 DEF Listing
<1>4. nready' >= Cardinality(DueServers') + Cardinality(Listing')
  BY <1>1, <1>3, FewerServers
<1>5. InTurn'
  BY DEF ScanInv, InTurn
<1>6. Paid'
  BY <1>4 DEF Paid, ServerPhase
<1> QED BY <1>5, <1>6 DEF ScanInv

\* The servers that are left when server2client returns.
LEMMA ServersLeft ==
    ASSUME TableInv, HandsOn, SocketsInv, InTurn, pc \in ServerPhase,
           at' = cur + 1, ready' = ready,
           \A i \in Live(server_l)' : i \in Live(server_l) /\ server_l'[i].fd = server_l[i].fd
    PROVE  DueServers' \subseteq DueServers \ {serv_fd}
<1>1. \A i \in Live(server_l) : i >= cur + 1 => server_l[i].fd # serv_fd
  BY ServerServed
<1>2. \A i \in Live(server_l) : i >= cur + 1 => i >= at
  BY DEF InTurn, HandsOn, Live, Idx
<1> QED BY <1>1, <1>2 DEF DueServers

\* server2client returns, and the server in turn was the last to be new.
LEMMA BackServerScan ==
    ASSUME TableInv, HandsOn, HandsOn', SocketsInv, SocketsInv', ScanInv, Quiet,
           pc \in ServerPhase, BackTo("servers"),
           \A i \in Live(server_l)' : i \in Live(server_l) /\ server_l'[i].fd = server_l[i].fd
    PROVE  ScanInv'
<1>1. InTurn' /\ ready' = ready /\ at' = cur + 1 /\ nready' = nready - 1 /\ pc' = "servers"
  BY BackTurn
<1>2. DueServers' \subseteq DueServers \ {serv_fd} /\ serv_fd \in DueServers
  BY <1>1, ServersLeft, ServerServed DEF ScanInv
<1>3. Listing' \subseteq Listing
  <2> SUFFICES ASSUME NEW fd \in Listing' PROVE fd \in Listing
    OBVIOUS
  <2>1. fd \in DueServers' /\ Carrying(fd)'
    BY <1>1 DEF Listing, ServerPhase
  <2> QED BY <1>2, <2>1, ListingLeft DEF SocketsInv
<1>4. DueServers \in SUBSET Fd /\ Listing \in SUBSET Fd
  BY DueSubsets
<1>5. /\ Cardinality(DueServers') <= Cardinality(DueServers) - 1
      /\ Cardinality(Listing') <= Cardinality(Listing)
      /\ Cardinality(DueServers) \in Nat /\ Cardinality(Listing) \in Nat
      /\ Cardinality(DueServers') \in Nat /\ Cardinality(Listing') \in Nat
  <2>1. Cardinality(DueServers') <= Cardinality(DueServers) - 1
    BY <1>2, <1>4, OneLessCount
  <2>2. DueServers' \subseteq DueServers
    BY <1>2
  <2> QED BY <1>3, <1>4, <2>1, <2>2, SubsetCount
<1>6. nready \in Int /\ nready >= Cardinality(DueServers) + Cardinality(Listing)
  BY DEF ScanInv, InTurn, Paid, ServerPhase
<1>7. nready' >= Cardinality(DueServers') + Cardinality(Listing')
  BY <1>1, <1>5, <1>6
<1>8. Paid'
  BY <1>1, <1>7 DEF Paid
<1> QED BY <1>1, <1>8 DEF ScanInv

\* close_conn on the conn in hand leaves the other servers.
LEMMA DropScan ==
    ASSUME TableInv, HandsOn, HandsOn', SocketsInv, SocketsInv', ScanInv, Quiet,
           pc \in ServerPhase, NEW s, Drop("servers", s)
    PROVE  ScanInv'
<1>1. CloseConn(conn) /\ BackTo("servers") /\ conn \in Idx
  BY DEF Drop, HandsOn
<1>2. \A i \in Live(server_l)' : i \in Live(server_l) /\ server_l'[i].fd = server_l[i].fd
  BY <1>1, CloseConnInv
<1> QED BY <1>1, <1>2, BackServerScan

\* server2client reads a response and passes it on.
LEMMA ResponseScan ==
    ASSUME TableInv, HandsOn, HandsOn', SocketsInv, SocketsInv', ScanInv, Quiet, ResponseSteps
    PROVE  ScanInv'
<1>1. pc \in ServerPhase /\ cur >= at
  BY DEF ResponseSteps, ServerPhase, ReadResponseHdr, ResponseHdrsEnd, ResponseHdrTimesOut,
         ResponseHdrAtEnd, SkipHeaders, ReadBody, BodyAtEnd, ScanInv, InTurn
<1>2. ASSUME BackTo("servers"), UNCHANGED tableVars PROVE ScanInv'
  <2>1. \A i \in Live(server_l)' : i \in Live(server_l) /\ server_l'[i].fd = server_l[i].fd
    BY <1>2 DEF tableVars, serverVars, Live
  <2> QED BY <1>1, <1>2, <2>1, BackServerScan
<1>3. ASSUME NEW s, Drop("servers", s) PROVE ScanInv'
  BY <1>1, <1>3, DropScan
<1>4. ASSUME NEW a, NEW s, Answer(a, s) PROVE ScanInv'
  BY <1>2, <1>3, <1>4 DEF Answer
<1>5. ASSUME NEW h, h # NULL \/ res' = NULL,
             \/ h = res
             \/ CanTake(serv_fd) /\ Line(serv_fd).t = "hdr" /\ h = Line(serv_fd),
             res' = NULL \/ res'.r = h.r, NEW phase \in ServerPhase, ReadOn(phase)
      PROVE  ScanInv'
  <2>1. /\ UNCHANGED <<tableVars, ready, at, nready, cur>> /\ pc' \in ServerPhase
    BY <1>5 DEF ReadOn, TurnTo
  <2>2. serv_fd \in Fd /\ sock[serv_fd] # NULL /\ sock \in Sockets
    BY <1>1, ReadSocket DEF SocketsInv, SessionTypes
  <2>3. pc \in {"servers", "res_hdrs", "res_body"} /\ cur' >= at /\ server_l[cur'].fd = serv_fd
    BY <1>1, <2>1 DEF ServerPhase, serv_fd
  <2>4. CASE res' = NULL \/ h = res
    BY <1>1, <1>5, <2>1, <2>3, <2>4, OnServerScan
  <2>5. CASE /\ CanTake(serv_fd) /\ Line(serv_fd).t = "hdr" /\ h = Line(serv_fd)
             /\ res'.r = h.r
    <3>1. h \in Message /\ Carries(sock[serv_fd], h.r)
      BY <2>2, <2>5, TakeSockets
    <3>2. h.r \in Request
      BY <2>5, <3>1 DEF Message, IfLate, Header
    <3>3. Carrying(serv_fd) \/ res'.r.kind # "list"
      BY <2>5, <3>1, <3>2 DEF Carrying
    <3> QED BY <2>1, <2>3, <3>3, OnServerScan
  <2> QED BY <1>5, <2>4, <2>5
<1>11. ASSUME UNCHANGED res, NEW phase \in ServerPhase, ReadOn(phase)
       PROVE  ScanInv'
  BY <1>5, <1>11
<1>12. CASE ReadResponseHdr
  <2>1. CanTake(serv_fd) /\ ReadOn("res_hdrs") /\ "res_hdrs" \in ServerPhase
    BY <1>12 DEF ReadResponseHdr, ServerPhase
  <2>2. CASE Line(serv_fd).t = "hdr" /\ res' = Line(serv_fd)
    <3>1. serv_fd \in Fd /\ sock[serv_fd] # NULL /\ sock \in Sockets
      BY <1>1, ReadSocket DEF SocketsInv, SessionTypes
    <3>2. Line(serv_fd) \in Message
      BY <2>1, <3>1, TakeSockets
    <3>3. Line(serv_fd) # NULL
      BY <2>2, <3>2, NoValueAssumption DEF Message, IfLate
    <3> QED BY <1>5, <2>1, <2>2, <3>3
  <2> QED BY <1>11, <1>12, <2>1, <2>2 DEF ReadResponseHdr
<1>6. CASE ResponseHdrsEnd
  <2>1. "res_body" \in ServerPhase
    BY DEF ServerPhase
  <2> QED BY <1>3, <1>6, <1>11, <2>1 DEF ResponseHdrsEnd
<1>7. CASE ResponseHdrTimesOut
  <2>1. PICK h, s : /\ GiveUp(h, s)
                    /\ \/ h = res
                       \/ IsCut(serv_fd) /\ Line(serv_fd).t = "hdr" /\ h = Line(serv_fd)
    BY <1>7 DEF ResponseHdrTimesOut
  <2>2. CASE Drop("servers", s)
    BY <1>3, <2>2
  <2>3. CASE h # NULL /\ res' = [h EXCEPT !.t = "cut"] /\ ReadOn("res_body")
    <3>1. IsCut(serv_fd) => CanTake(serv_fd) /\ Line(serv_fd) \in Message
      BY <1>1, CutThere, ReadSocket, TakeSockets DEF SocketsInv, SessionTypes
    <3>2. h \in Header
      BY <2>1, <2>3, <3>1 DEF SocketsInv, SessionTypes, Message, IfLate
    <3>3. res'.r = h.r /\ "res_body" \in ServerPhase
      BY <2>3, <3>2 DEF Header, ServerPhase
    <3> QED BY <1>5, <2>1, <2>3, <3>1, <3>3
  <2> QED BY <2>1, <2>2, <2>3 DEF GiveUp
<1>8. CASE ResponseHdrAtEnd
  BY <1>3, <1>8, StopScan DEF ResponseHdrAtEnd
<1>9. CASE ReadBody
  BY <1>2, <1>3, <1>4, <1>9, StopScan DEF ReadBody, AskSame
<1>10. CASE BodyAtEnd
  BY <1>3, <1>4, <1>10, StopScan DEF BodyAtEnd
<1>13. CASE SkipHeaders
  BY <1>11, <1>13 DEF SkipHeaders, ServerPhase
<1> QED BY <1>6, <1>7, <1>8, <1>9, <1>10, <1>12, <1>13 DEF ResponseSteps

\* ask_for_nolist opens another server: the manifest that is gone pays for it.
LEMMA AskElsewhereScan ==
    ASSUME TableInv, HandsOn, HandsOn', SessionInv, SocketsInv', ScanInv, Quiet,
           NEW a \in SrvAddr, AskElsewhere(a)
    PROVE  ScanInv'
<1>1. /\ pc = "res_body" /\ pc \in ServerPhase /\ res.r.kind = "list" /\ res # NULL
      /\ BackTo("servers") /\ SocketsInv
  BY DEF AskElsewhere, ServerPhase, SessionInv, SocketsInv, SessionTypes
<1>2. InTurn' /\ ready' = ready /\ at' = cur + 1 /\ nready' = nready - 1 /\ pc' = "servers"
  BY <1>1, BackTurn
<1>3. PICK r \in Fd \cup {-1} : OpenConn(conn_l[conn].clit_idx, r, a)
  BY DEF AskElsewhere, NewConn
<1>4. PICK c \in Idx : c = conn_l[conn].clit_idx
  <2>1. conn \in Idx /\ conn_l[conn] # NULL
    BY <1>1 DEF HandsOn
  <2> QED BY <2>1 DEF TableInv, TypeOK, Conn
<1>5. OpenConn(c, r, a) /\ a \in Addr
  BY <1>3, <1>4, ProxyAssumption
<1>6. /\ r # -1 => r \notin open_fds
      /\ \E s \in Idx :
            /\ Live(server_l)' = Live(server_l) \cup {s} /\ server_l'[s].fd = r
            /\ \A j \in Live(server_l) : server_l'[j] = server_l[j]
  BY <1>5, OpenConnInv
<1>7. serv_fd \in Listing /\ serv_fd \in DueServers /\ serv_fd \in Fd /\ serv_fd \in open_fds
  <2>1. serv_fd \in DueServers /\ serv_fd \in open_fds
    BY <1>1, ServerServed DEF ScanInv
  <2> QED BY <1>1, <2>1, DueSubsets DEF Listing, serv_fd
<1>8. DueServers' \subseteq (DueServers \ {serv_fd}) \cup {r}
  <2>1. \A i \in Live(server_l) : i >= cur + 1 => server_l[i].fd # serv_fd /\ i >= at
    BY <1>1, ServerServed DEF ScanInv, InTurn, HandsOn, Live, Idx
  <2> QED BY <1>2, <1>6, <2>1 DEF DueServers
<1>9. Listing' \subseteq Listing \ {serv_fd}
  <2> SUFFICES ASSUME NEW fd \in Listing' PROVE fd \in Listing /\ fd # serv_fd
    OBVIOUS
  <2>1. fd \in DueServers' /\ Carrying(fd)' /\ fd \in Fd
    BY <1>2 DEF Listing, ServerPhase, DueServers, HandsOn
  <2>2. sock[fd] # NULL
    <3>1. sock'[fd] # NULL
      <4>1. fd \in ServerFds'
        BY <2>1 DEF DueServers, ServerFds, Fd
      <4> QED BY <2>1, <4>1 DEF SocketsInv, SocketsHeld
    <3> QED BY <2>1, <3>1 DEF Quiet, Carrying
  <2>3. fd \in open_fds
    BY <2>1, <2>2, <1>1 DEF SocketsInv, SocketsHeld, TableInv, FdOwnership
  <2>4. fd \in DueServers \ {serv_fd}
    <3>1. fd # r
      BY <1>6, <2>1, <2>3 DEF Fd
    <3> QED BY <1>8, <2>1, <3>1
  <2> QED BY <1>1, <2>1, <2>4, ListingLeft DEF SocketsInv
<1>10. DueServers \in SUBSET Fd /\ Listing \in SUBSET Fd
  BY DueSubsets
<1>11. /\ Cardinality(DueServers') <= Cardinality(DueServers)
       /\ Cardinality(Listing') <= Cardinality(Listing) - 1
       /\ Cardinality(DueServers) \in Nat /\ Cardinality(Listing) \in Nat
       /\ Cardinality(DueServers') \in Nat /\ Cardinality(Listing') \in Nat
  <2> DEFINE R == DueServers \ {serv_fd}
  <2>1. Cardinality(Listing') <= Cardinality(Listing) - 1
    BY <1>7, <1>9, <1>10, OneLessCount
  <2>2. /\ Cardinality(R) <= Cardinality(DueServers) - 1
        /\ R \in SUBSET Fd
    BY <1>7, <1>10, OneLessCount
  <2>3. DueServers' \in SUBSET Fd
    BY <1>2, <1>10 DEF DueServers, HandsOn
  <2>4. Cardinality(DueServers') <= Cardinality(R) + 1
    <3>1. CASE r \in Fd
      BY <1>8, <2>2, <3>1, OneMoreCount
    <3>2. CASE r \notin Fd
      <4>1. DueServers' \subseteq R
        BY <1>8, <2>3, <3>2
      <4>2. /\ Cardinality(DueServers') <= Cardinality(R)
            /\ Cardinality(R) \in Nat /\ Cardinality(DueServers') \in Nat
        BY <2>2, <4>1, SubsetCount
      <4> QED BY <4>2
    <3> QED BY <3>1, <3>2
  <2>5. Listing' \in SUBSET Fd
    BY <1>9, <1>10
  <2>6. /\ Cardinality(R) \in Nat /\ Cardinality(DueServers) \in Nat
        /\ Cardinality(Listing) \in Nat
        /\ Cardinality(DueServers') \in Nat /\ Cardinality(Listing') \in Nat
    BY <1>10, <2>2, <2>3, <2>5, FdCounts
  <2> HIDE DEF R
  <2> QED BY <2>1, <2>2, <2>4, <2>6
<1>12. nready \in Int /\ nready >= Cardinality(DueServers) + Cardinality(Listing)
  BY <1>1 DEF ScanInv, InTurn, Paid
<1>13. nready' >= Cardinality(DueServers') + Cardinality(Listing')
  BY <1>2, <1>11, <1>12
<1>14. Paid'
  BY <1>2, <1>13 DEF Paid
<1> QED BY <1>2, <1>14 DEF ScanInv

-----------------------------------------------------------------------------
(* One turn of the loop of main *)

\* select() returns.  Each socket that is readable is writable, too, and a
\* descriptor is not both that of a client and of a server.
LEMMA SelectScan ==
    ASSUME TableInv, TableInv', HandsOn, HandsOn', SocketsInv, Select
    PROVE  ScanInv'
<1>1. /\ pc' = "clients" /\ at' = 0
      /\ ready' = {fd \in read_set \cap Fd : Readable(fd)}
      /\ nready' = Cardinality(ready') + Cardinality(ClientFds \cup ServerFds)
  BY DEF Select, Reported
<1>2. ready' \subseteq ClientFds \cup ServerFds /\ ready' \subseteq Fd
  BY <1>1 DEF Readable, SocketsInv, SocketsHeld
<1>3. ready' \subseteq open_fds'
  <2>1. ready' \subseteq open_fds
    BY <1>2 DEF TableInv, FdOwnership
  <2>2. CASE UNCHANGED tableVars
    BY <2>1, <2>2 DEF tableVars
  <2>3. CASE \E fd \in Fd, a \in ClitAddr : Accept(fd, a)
    BY <2>1, <2>3 DEF Accept
  <2> QED BY <2>2, <2>3 DEF Select
<1> DEFINE R == ready'
           A == AllServers'
           D == DueClients'
           N == ClientFds \cup ServerFds
<1>4. A \subseteq R /\ D \subseteq R /\ A \cap D = {}
  <2>1. A \subseteq ServerFds' /\ D \subseteq ClientFds'
    BY DEF AllServers, DueClients, ClientFds
  <2>2. ClientFds' \cap ServerFds' = {}
    BY DEF TableInv, FdOwnership
  <2> QED BY <2>1, <2>2 DEF AllServers, DueClients
<1>5. N \in SUBSET Fd
  BY DEF TableInv, TypeOK, FdOwnership
<1> HIDE DEF R, A, D, N
<1>6. /\ Cardinality(A \cup D) = Cardinality(A) + Cardinality(D)
      /\ Cardinality(A) \in Nat /\ Cardinality(D) \in Nat
  <2>1. A \in SUBSET Fd /\ D \in SUBSET Fd
    BY <1>2, <1>4 DEF R
  <2>2. IsFiniteSet(A) /\ IsFiniteSet(D) /\ Cardinality(A) \in Nat /\ Cardinality(D) \in Nat
    BY <2>1, FdCounts
  <2>3. Cardinality(A \cup D) = Cardinality(A) + Cardinality(D) - Cardinality(A \cap D)
    BY <2>2, FS_Union
  <2>4. Cardinality(A \cap D) = 0
    BY <1>4, FS_EmptySet
  <2> QED BY <2>2, <2>3, <2>4
<1>7. /\ Cardinality(A \cup D) <= Cardinality(R) /\ Cardinality(R) <= Cardinality(N)
      /\ Cardinality(R) \in Nat /\ Cardinality(N) \in Nat
  <2>1. R \in SUBSET Fd /\ A \cup D \subseteq R /\ R \subseteq N
    BY <1>2, <1>4 DEF R, N
  <2> QED BY <1>5, <2>1, SubsetCount
<1>8. Cardinality((ready \ open_fds)') = 0
  <2>1. (ready \ open_fds)' = {}
    BY <1>3
  <2> QED BY <2>1, FS_EmptySet
<1>9. nready' = Cardinality(R) + Cardinality(N)
  BY <1>1 DEF R, N
<1>10. nready' >= 2 * Cardinality(A) + 2 * Cardinality(D) + Cardinality((ready \ open_fds)')
  <2>1. Cardinality(A) + Cardinality(D) <= Cardinality(R)
    BY <1>6, <1>7
  <2>2. nready' >= 2 * Cardinality(A) + 2 * Cardinality(D)
    BY <1>6, <1>7, <1>9, <2>1
  <2> QED BY <1>6, <1>8, <2>2
<1>11. Paid'
  <2>1. nready' >= ClientsDue(DueClients)'
    BY <1>10 DEF ClientsDue, A, D
  <2> QED BY <1>1, <2>1 DEF Paid
<1>12. InTurn'
  BY <1>1, <1>7, <1>9 DEF InTurn, ClientPhase, ServerPhase
<1> QED BY <1>11, <1>12 DEF ScanInv

\* A scan ends.  What was enough for the servers and more is enough for them.
LEMMA PhaseEndsScan ==
    ASSUME HandsOn, HandsOn', ScanInv, PhaseEnds
    PROVE  ScanInv'
<1>1. at' = 0 /\ UNCHANGED tableVars
  BY DEF PhaseEnds
<1>2. CASE pc' = "select" /\ nready' = 0
  BY <1>1, <1>2 DEF ScanInv, InTurn, Paid, ClientPhase, ServerPhase
<1>3. CASE pc = "clients" /\ pc' = "servers" /\ UNCHANGED <<ready, nready>>
  <2>1. /\ DueServers' \subseteq AllServers' /\ Listing' \subseteq AllServers'
        /\ AllServers' \in SUBSET Fd
    <3>1. ready' \subseteq Fd /\ -1 \notin ready'
      BY DEF HandsOn, Fd
    <3>2. DueServers' \subseteq AllServers'
      BY <3>1 DEF DueServers, AllServers, ServerFds
    <3>3. Listing' \subseteq DueServers'
      BY DEF Listing
    <3> QED BY <3>1, <3>2, <3>3 DEF AllServers
  <2>2. AllServers' = AllServers
    BY <1>1, <1>3, SameDue
  <2>3. /\ Cardinality(DueServers') <= Cardinality(AllServers)
        /\ Cardinality(Listing') <= Cardinality(AllServers)
        /\ Cardinality(DueServers') \in Nat /\ Cardinality(Listing') \in Nat
        /\ Cardinality(AllServers) \in Nat
    BY <2>1, <2>2, SubsetCount
  <2>4. /\ nready \in Int
        /\ nready >= 2 * Cardinality(AllServers) + 2 * Cardinality(DueClients)
                     + Cardinality(ready \ open_fds)
        /\ Cardinality(DueClients) \in Nat /\ Cardinality(ready \ open_fds) \in Nat
    BY <1>3, DueSubsets, FdCounts DEF ScanInv, InTurn, Paid, ClientsDue
  <2>5. nready' >= Cardinality(DueServers') + Cardinality(Listing')
    BY <1>3, <2>3, <2>4
  <2>6. Paid'
    BY <1>3, <2>5 DEF Paid
  <2>7. InTurn'
    BY <1>1, <1>3, <2>4 DEF InTurn, ClientPhase, ServerPhase
  <2> QED BY <2>6, <2>7 DEF ScanInv
<1> QED BY <1>2, <1>3 DEF PhaseEnds

\* serve_clients or serve_servers comes to a socket that was reported.
LEMMA BeginScan ==
    ASSUME HandsOn, HandsOn', SessionInv, SocketsInv', ScanInv, Quiet,
           NEW j \in Idx, BeginClient(j) \/ BeginServer(j)
    PROVE  ScanInv'
<1>1. /\ UNCHANGED <<tableVars, at, ready, nready>> /\ cur' = j /\ j >= at
      /\ \/ pc = "clients" /\ pc' = "req_line"
         \/ pc = "servers" /\ pc' = "res_hdrs" /\ res' = res
  BY DEF BeginClient, BeginServer, TurnTo, Found, ScanInv, InTurn, Idx
<1>2. pc = "servers" => res = NULL
  BY DEF SessionInv, SocketsInv, SessionTypes
<1> QED BY <1>1, <1>2, OnClientScan, OnServerScan DEF SessionInv, ServerPhase

\* Peers, the network, and a step that changes nothing.
LEMMA PeerScan ==
    ASSUME HandsOn, HandsOn', SocketsInv, SocketsInv', ScanInv, Quiet, UNCHANGED envFrame
    PROVE  ScanInv'
<1>1. UNCHANGED <<tableVars, pc, at, cur, conn, res, ready, nready>>
  BY DEF envFrame, loopVars
<1>2. InTurn'
  BY <1>1 DEF ScanInv, InTurn
<1>3. /\ DueClients' = DueClients /\ DueServers' = DueServers
      /\ AllServers' = AllServers /\ (ready \ open_fds)' = ready \ open_fds
  BY <1>1, SameDue
<1>4. /\ clit_fd' = clit_fd /\ ConnFd(conn)' = ConnFd(conn) /\ server_l' = server_l
  BY <1>1 DEF clit_fd, ConnFd, tableVars, clientVars, serverVars, connVars
<1>5. Listing' \subseteq Listing
  <2> SUFFICES ASSUME NEW fd \in Listing' PROVE fd \in Listing
    OBVIOUS
  <2>1. fd \in DueServers /\ fd \in DueServers'
    BY <1>3 DEF Listing
  <2>2. CASE Carrying(fd)'
    BY <2>1, <2>2, ListingLeft DEF SocketsInv
  <2>3. CASE ~Carrying(fd)'
    BY <1>1, <1>4, <2>1, <2>3 DEF Listing
  <2> QED BY <2>2, <2>3
<1>6. CASE pc \in {"servers", "res_hdrs", "res_body"}
  <2>1. nready' >= Cardinality(DueServers') + Cardinality(Listing')
    BY <1>1, <1>3, <1>5, <1>6, FewerServers
  <2>2. Paid'
    BY <1>1, <1>6, <2>1 DEF Paid
  <2> QED BY <1>2, <2>2 DEF ScanInv
<1>7. CASE pc \notin {"servers", "res_hdrs", "res_body"}
  <2>1. Paid'
    BY <1>1, <1>3, <1>4, <1>7 DEF ScanInv, Paid, ClientsDue
  <2> QED BY <1>2, <2>1 DEF ScanInv
<1> QED BY <1>6, <1>7

\* One step of the process, a peer or the network.
LEMMA ScanStep ==
    ASSUME TableInv, HandsOn, SessionInv, ScanInv, [Next]_proxyVars
    PROVE  ScanInv'
<1>1. TableInv' /\ HandsOn' /\ SessionInv' /\ SocketsInv /\ SocketsInv'
  BY ProxyStep, NextInv, SessionStep DEF SessionInv
<1>2. CASE PlainSteps
  <2>1. Adds({}, NULL)
    BY <1>1, <1>2, PlainSockets
  <2>2. Quiet
    BY <2>1, QuietAdds
  <2>3. CASE Select
    BY <1>1, <2>3, SelectScan
  <2>4. CASE AcceptError
    <3>1. pc' = "select" /\ UNCHANGED <<at, nready>>
      BY <2>4 DEF AcceptError, loopVars
    <3> QED BY <3>1 DEF ScanInv, InTurn, Paid, ClientPhase, ServerPhase
  <2>5. CASE \E j \in Idx : BeginClient(j) \/ BeginServer(j)
    BY <1>1, <2>2, <2>5, BeginScan
  <2>6. CASE RequestSteps
    BY <1>1, <2>6, RequestScan
  <2>7. CASE ServersFull \/ AskOverflows
    BY <2>7, StopScan DEF ServersFull, AskOverflows
  <2>8. CASE \E a \in SrvAddr : UseConn(a) \/ MakeConn(a)
    BY <1>1, <2>8, LookupScan
  <2>9. CASE RejectRequest
    BY <1>1, <2>9, RejectScan
  <2>10. CASE PhaseEnds
    BY <1>1, <2>10, PhaseEndsScan
  <2>11. CASE \/ \E fd \in Fd : Deliver(fd) \/ ServerAnswers(fd)
              \/ \E fd \in Fd, r \in Requests : Ask(fd, r)
              \/ \E fd \in Fd, how \in Fault : PeerStops(fd, how)
              \/ UNCHANGED proxyVars
    <3>1. UNCHANGED envFrame
      BY <2>11 DEF Deliver, ServerAnswers, Ask, PeerStops, envFrame, proxyVars
    <3> QED BY <1>1, <2>2, <3>1, PeerScan
  <2> QED BY <1>2, <2>3, <2>4, <2>5, <2>6, <2>7, <2>8, <2>9, <2>10, <2>11 DEF PlainSteps
<1>3. CASE Forward
  BY <1>1, <1>3, ForwardScan
<1>4. CASE ResponseSteps
  <2>1. Quiet
    <3>1. CASE Adds({}, NULL)
      BY <3>1, QuietAdds
    <3>2. CASE Adds({ConnFd(conn)}, nolist) /\ pc = "res_body" /\ res.r.kind = "list"
      <4>1. PICK F, q : F = {ConnFd(conn)} /\ q = nolist
        OBVIOUS
      <4>2. Adds(F, q) /\ q.kind # "list"
        BY <3>2, <4>1, NolistKnown
      <4> QED BY <4>2, QuietAdds
    <3> QED BY <1>4, <3>1, <3>2, ResponseSockets
  <2> QED BY <1>1, <1>4, <2>1, ResponseScan
<1>5. CASE \E a \in SrvAddr : AskElsewhere(a)
  <2>1. PICK a \in SrvAddr : AskElsewhere(a)
    BY <1>5
  <2>2. nolist.kind \in {"nolist", "junk"} /\ \E F : Adds(F, nolist)
    <3>1. nolist.kind \in {"nolist", "junk"} /\ \E r \in Fd \cup {-1} : Adds({r}, nolist)
      BY <2>1, AskElsewhereSockets
    <3> QED BY <3>1
  <2>3. PICK F, q : q = nolist /\ Adds(F, q)
    BY <2>2
  <2>4. q.kind # "list"
    BY <2>2, <2>3
  <2>5. Quiet
    BY <2>3, <2>4, QuietAdds
  <2> QED BY <1>1, <2>1, <2>5, AskElsewhereScan
<1> QED BY <1>2, <1>3, <1>4, <1>5 DEF Next, Serve, PlainSteps, RequestSteps, ResponseSteps

LEMMA ScanInit == Init => ScanInv
<1> SUFFICES ASSUME Init PROVE ScanInv
  OBVIOUS
<1>1. pc = "select" /\ at = 0 /\ nready = 0
  BY DEF Init
<1> QED BY <1>1 DEF ScanInv, InTurn, Paid, ClientPhase, ServerPhase

\* While the scans go on, what is left of nready is enough for every socket that was
\* reported and is still to be served.
THEOREM ScansPaidFor == Spec => []ScanInv
<1>1. TableInv /\ HandsOn /\ SessionInv /\ ScanInv /\ [Next]_proxyVars => ScanInv'
  BY ScanStep
<1> QED BY <1>1, ScanInit, ProxyTablesCorrect, HandsOnAlways, SessionAlways, PTL DEF Spec

\* serve_clients and serve_servers never stop early: when nready has run out, no
\* client or server that is left has a socket that select() reported, however many
\* were closed, opened and reused meanwhile.
THEOREM NoneEverSkipped == Spec => []NoneSkipped
<1>1. HandsOn /\ ScanInv => NoneSkipped
  <2> SUFFICES ASSUME HandsOn, ScanInv, pc \in {"clients", "servers"}, nready <= 0
               PROVE  /\ pc = "clients" => DueClients = {} /\ AllServers = {}
                      /\ pc = "servers" => DueServers = {}
    <3>1. \A i \in Live(client_l) : i >= at /\ client_l[i].fd \in ready =>
             client_l[i].fd \in DueClients
      BY DEF DueClients
    <3>2. \A i \in Live(server_l) : i >= at /\ server_l[i].fd \in ready =>
             server_l[i].fd \in DueServers
      BY DEF DueServers
    <3>3. HandsOn => DueServers \subseteq AllServers
      BY DueSubsets
    <3> QED BY <3>1, <3>2, <3>3 DEF NoneSkipped
  <2>1. /\ DueClients \in SUBSET Fd /\ DueServers \in SUBSET Fd /\ AllServers \in SUBSET Fd
        /\ Listing \in SUBSET Fd /\ ready \ open_fds \in SUBSET Fd
    BY DueSubsets
  <2>2. \A T \in SUBSET Fd : Cardinality(T) \in Nat /\ (Cardinality(T) = 0 => T = {})
    BY FdCounts, FS_EmptySet
  <2>3. CASE pc = "clients"
    <3>1. 0 >= ClientsDue(DueClients)
      <4>1. nready >= ClientsDue(DueClients) /\ nready \in Int
        BY <2>3 DEF ScanInv, Paid, InTurn
      <4> QED BY <2>1, <2>2, <4>1 DEF ClientsDue
    <3>2. Cardinality(DueClients) = 0 /\ Cardinality(AllServers) = 0
      BY <2>1, <2>2, <3>1 DEF ClientsDue
    <3> QED BY <2>1, <2>2, <2>3, <3>2
  <2>4. CASE pc = "servers"
    <3>1. nready >= Cardinality(DueServers) + Cardinality(Listing) /\ nready \in Int
      BY <2>4 DEF ScanInv, Paid, InTurn
    <3>2. Cardinality(DueServers) = 0
      BY <2>1, <2>2, <3>1
    <3> QED BY <2>1, <2>2, <2>4, <3>2
  <2> QED BY <2>3, <2>4
<1> QED BY <1>1, ScansPaidFor, HandsOnAlways, PTL
=============================================================================
