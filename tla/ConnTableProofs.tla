-------------------------- MODULE ConnTableProofs --------------------------
(***************************************************************************)
(* Proofs about ConnTable for every size of the tables, every limit on     *)
(* descriptors and every set of addresses.                                 *)
(***************************************************************************)
EXTENDS ConnTable, NumberLemmas

USE SizeAssumption, LimitAssumption, AliasAssumption DEF listen_sock

-----------------------------------------------------------------------------
(* Facts about tables *)

\* Entries are not NULL.
LEMMA EntryNotNull ==
    /\ \A e \in Client : e # NULL
    /\ \A e \in Server : e # NULL
    /\ \A e \in Conn : e # NULL
BY NullAssumption

\* The slots of a table are finitely many.
LEMMA IdxFinite == /\ IsFiniteSet(Idx) /\ Cardinality(Idx) = FD_SETSIZE
                   /\ \A T \in SUBSET Idx : IsFiniteSet(T) /\ Cardinality(T) \in Nat
<1>1. IsFiniteSet(Idx) /\ Cardinality(Idx) = FD_SETSIZE
  BY FS_Interval DEF Idx
<1>2. \A T \in SUBSET Idx : IsFiniteSet(T)
  BY <1>1, FS_Subset
<1> QED BY <1>1, <1>2, FS_CardinalityType

\* A set of slots grows by one with a new slot and shrinks by one without an
\* old one.
LEMMA CountSlots ==
    ASSUME NEW T \in SUBSET Idx, NEW i \in Idx
    PROVE  /\ i \notin T => Cardinality(T \cup {i}) = Cardinality(T) + 1
           /\ i \in T => /\ Cardinality(T \ {i}) = Cardinality(T) - 1
                         /\ Cardinality(T) >= 1
<1>1. IsFiniteSet(T) /\ Cardinality(T) \in Nat
  BY IdxFinite
<1>2. i \notin T => Cardinality(T \cup {i}) = Cardinality(T) + 1
  BY <1>1, FS_AddElement
<1>3. i \in T => Cardinality(T \ {i}) = Cardinality(T) - 1
  BY <1>1, FS_RemoveElement
<1>4. i \in T => Cardinality(T) # 0
  BY <1>1, FS_EmptySet
<1> QED BY <1>1, <1>2, <1>3, <1>4

\* A map from all slots to fewer things gives two slots the same one.
LEMMA Pigeons ==
    ASSUME NEW T, IsFiniteSet(T), Cardinality(T) < Cardinality(Idx)
    PROVE  \A f \in [Idx -> T] : \E x, y \in Idx : x # y /\ f[x] = f[y]
BY IdxFinite, FS_PigeonHole, Zenon

\* The larger of two integers bounds what either of them bounds.
LEMMA LargerBound ==
    ASSUME NEW a \in Int, NEW b \in Int
    PROVE  /\ a <= Larger(a, b) /\ b <= Larger(a, b)
           /\ \A n \in Int : n <= b => n <= Larger(a, b)
BY DEF Larger

\* Indices, descriptors and marks are integers.
LEMMA EntryFds ==
    ASSUME TypeOK
    PROVE  /\ Idx \subseteq Int /\ Fd \subseteq Int
           /\ maxfd \in Int /\ max_clit_idx \in Int
           /\ max_serv_idx \in Int /\ max_conn_idx \in Int
           /\ \A j \in Live(client_l) : j \in Int /\ client_l[j].fd \in Fd
           /\ \A j \in Live(server_l) : j \in Int /\ server_l[j].fd \in Fd \cup {-1}
           /\ \A j \in Live(conn_l) : j \in Int
BY DEF TypeOK, Live, Client, Server, Idx, Fd

-----------------------------------------------------------------------------
(* The invariant holds initially *)

LEMMA InitInv == TableInit => TableInv
<1> SUFFICES ASSUME TableInit PROVE TableInv
  OBVIOUS
<1>1. Live(client_l) = {} /\ Live(server_l) = {} /\ Live(conn_l) = {}
  BY DEF TableInit, Live
<1>2. TypeOK
  <2>1. 0 \in Fd
    BY DEF Fd
  <2>2. /\ client_l \in [Idx -> Client \cup {NULL}]
        /\ server_l \in [Idx -> Server \cup {NULL}]
        /\ conn_l \in [Idx -> Conn \cup {NULL}]
    BY DEF TableInit
  <2>3. aborted \in BOOLEAN
    BY DEF TableInit
  <2> QED BY <2>1, <2>2, <2>3 DEF TableInit, TypeOK
<1>3. NoDangling /\ RefCounts /\ FdOwnership /\ Watching /\ HighWater
  BY <1>1 DEF TableInit, NoDangling, RefCounts, FdOwnership, Watching, HighWater,
              ClientFds, ServerFds, Fd
<1>4. Counters
  BY <1>1, FS_EmptySet DEF TableInit, Counters
<1> QED BY <1>2, <1>3, <1>4 DEF TableInv

-----------------------------------------------------------------------------
(* Accept preserves it *)

LEMMA AcceptInv ==
    ASSUME TableInv, NEW fd \in Fd, NEW a \in Addr, Accept(fd, a)
    PROVE  /\ TableInv'
           /\ ClientFds' = ClientFds \cup {fd} /\ ServerFds' = ServerFds
           /\ \E i \in Idx : /\ Live(client_l)' = Live(client_l) \cup {i}
                           /\ client_l'[i].fd = fd
                           /\ \A j \in Live(client_l) : client_l'[j] = client_l[j]
<1> USE DEF TableInv
<1>1. PICK i \in Idx : add_client(i, fd, a)
  BY DEF Accept
<1> DEFINE e == [fd |-> fd, addr |-> a, num_serv |-> 0]
<1>2. e \in Client /\ e # NULL
  BY EntryNotNull DEF Client
<1>3. /\ client_l[i] = NULL
      /\ client_l' = [client_l EXCEPT ![i] = e]
      /\ client_l'[i] = e
      /\ \A j \in Idx \ {i} : client_l'[j] = client_l[j]
      /\ client_l' \in [Idx -> Client \cup {NULL}]
  BY <1>1, <1>2 DEF add_client, FirstFree, TypeOK
<1>4. Live(client_l') = Live(client_l) \cup {i} /\ i \notin Live(client_l)
  BY <1>2, <1>3 DEF Live
<1>5. /\ server_l' = server_l /\ conn_l' = conn_l
      /\ cur_server' = cur_server /\ cur_conn' = cur_conn
      /\ max_serv_idx' = max_serv_idx /\ max_conn_idx' = max_conn_idx
      /\ aborted' = aborted
  BY DEF Accept, serverVars, connVars
<1>6. /\ cur_client' = cur_client + 1 /\ max_clit_idx' = Larger(i, max_clit_idx)
      /\ read_set' = read_set \cup {fd} /\ maxfd' = Larger(fd, maxfd)
  BY <1>1 DEF add_client
<1>7. /\ open_fds' = open_fds \cup {fd} /\ fd \notin open_fds /\ fd # listen_sock
      /\ listen_sock \in open_fds
  BY DEF Accept, LowestFreeFd, Serving
<1>8. /\ ClientFds' = ClientFds \cup {fd} /\ ServerFds' = ServerFds
  <2>1. ClientFds' = {client_l'[j].fd : j \in Live(client_l')}
    BY DEF ClientFds, Live
  <2> QED BY <2>1, <1>3, <1>4, <1>5 DEF ClientFds, ServerFds, Live
<1>9. /\ Live(client_l)' = Live(client_l') /\ Live(server_l)' = Live(server_l)
      /\ Live(conn_l)' = Live(conn_l)
  BY <1>5 DEF Live
<1>10. TypeOK'
  <2>1. max_clit_idx' \in Idx \cup {-1} /\ cur_client' \in Nat
    BY <1>6 DEF TypeOK, Larger
  <2>2. read_set' \subseteq Fd \cup {AliasFd} /\ maxfd' \in Fd /\ open_fds' \subseteq Fd
    BY <1>6, <1>7 DEF TypeOK, Larger
  <2> QED BY <1>3, <1>5, <2>1, <2>2 DEF TypeOK
<1>11. NoDangling'
  BY <1>2, <1>3, <1>5, <1>9 DEF NoDangling, Live, TypeOK, Conn
<1>12. RefCounts'
  <2>1. \A c : ConnsOfClient(c)' = ConnsOfClient(c) /\ ConnsOfServer(c)' = ConnsOfServer(c)
    BY <1>5, <1>9 DEF ConnsOfClient, ConnsOfServer
  <2>2. ConnsOfClient(i) = {}
    BY <1>3 DEF ConnsOfClient, NoDangling
  <2>3. client_l'[i].num_serv = Cardinality(ConnsOfClient(i)')
    BY <1>3, <2>1, <2>2, FS_EmptySet
  <2>4. \A c \in Live(client_l)' :
           client_l'[c].num_serv = Cardinality(ConnsOfClient(c)')
    BY <1>3, <1>4, <1>9, <2>1, <2>3 DEF RefCounts, Live
  <2> QED BY <1>5, <1>9, <2>1, <2>4 DEF RefCounts
<1>13. FdOwnership'
  <2>1. \A j \in Live(client_l) : client_l[j].fd # fd
    BY <1>7 DEF FdOwnership, ClientFds
  <2>2. fd \notin ServerFds
    BY <1>7 DEF FdOwnership
  <2>3. (ClientFds \cup ServerFds \subseteq open_fds \ {listen_sock})'
    BY <1>7, <1>8 DEF FdOwnership
  <2>4. (ClientFds \cap ServerFds = {})'
    BY <1>8, <2>2 DEF FdOwnership
  <2>5. (\A j, k \in Live(client_l) : client_l[j].fd = client_l[k].fd => j = k)'
    BY <1>3, <1>4, <1>9, <2>1 DEF FdOwnership, Live
  <2> QED BY <1>5, <1>9, <2>3, <2>4, <2>5 DEF FdOwnership
<1>14. Watching'
  BY <1>6, <1>8 DEF Watching
<1>15. HighWater'
  <2>1. client_l'[i].fd = fd /\ \A j \in Live(client_l) : client_l'[j] = client_l[j]
    BY <1>3, <1>4 DEF Live
  <2> HIDE DEF e
  <2>2. i <= max_clit_idx' /\ client_l'[i].fd <= maxfd'
    BY <1>6, <2>1, LargerBound, EntryFds
  <2>3. \A j \in Live(client_l) : j <= max_clit_idx' /\ client_l'[j].fd <= maxfd'
    BY <1>6, <2>1, LargerBound, EntryFds DEF HighWater
  <2>4. \A j \in Live(server_l) : server_l[j].fd <= maxfd'
    BY <1>6, LargerBound, EntryFds DEF HighWater
  <2> QED BY <1>4, <1>5, <1>9, <2>2, <2>3, <2>4 DEF HighWater
<1>16. Counters'
  BY <1>4, <1>5, <1>6, <1>9, CountSlots DEF Counters, Live
<1>17. TableInv'
  BY <1>10, <1>11, <1>12, <1>13, <1>14, <1>15, <1>16
<1>18. /\ Live(client_l)' = Live(client_l) \cup {i} /\ client_l'[i].fd = fd
       /\ \A j \in Live(client_l) : client_l'[j] = client_l[j]
  BY <1>3, <1>4, <1>9 DEF Live
<1> QED BY <1>8, <1>17, <1>18

-----------------------------------------------------------------------------
(* The steps that leave the tables alone preserve it *)

\* What open_server_socket does to the descriptors of the process.
LEMMA ServerSocket ==
    ASSUME TypeOK, NEW r \in Fd \cup {-1}, open_server_socket(r)
    PROVE  /\ open_fds \subseteq open_fds' /\ open_fds' \subseteq Fd
           /\ r # -1 => r \in Fd \ open_fds /\ r \in open_fds'
BY DEF TypeOK, open_server_socket, LowestFreeFd

\* The tables, the marks and the sets of select() alone decide every part of
\* the invariant but TypeOK and FdOwnership.
LEMMA SameTables ==
    ASSUME TableInv, UNCHANGED <<clientVars, serverVars, connVars, selectVars>>
    PROVE  /\ (NoDangling /\ RefCounts /\ Watching /\ HighWater /\ Counters)'
           /\ Live(client_l)' = Live(client_l) /\ Live(server_l)' = Live(server_l)
           /\ ClientFds' = ClientFds /\ ServerFds' = ServerFds
<1> USE DEF clientVars, serverVars, connVars, selectVars
<1>1. /\ Live(client_l)' = Live(client_l) /\ Live(server_l)' = Live(server_l)
      /\ Live(conn_l)' = Live(conn_l)
  BY DEF Live
<1>2. /\ ClientFds' = ClientFds /\ ServerFds' = ServerFds
      /\ \A j : /\ ConnsOfClient(j)' = ConnsOfClient(j)
               /\ ConnsOfServer(j)' = ConnsOfServer(j)
  BY <1>1 DEF ConnsOfClient, ConnsOfServer, ClientFds, ServerFds
<1>3. NoDangling'
  BY <1>1 DEF TableInv, NoDangling
<1>4. RefCounts'
  BY <1>1, <1>2 DEF TableInv, RefCounts
<1>5. Watching'
  BY <1>2 DEF TableInv, Watching
<1>6. HighWater'
  BY <1>1 DEF TableInv, HighWater
<1>7. Counters'
  BY <1>1 DEF TableInv, Counters
<1> QED BY <1>1, <1>2, <1>3, <1>4, <1>5, <1>6, <1>7

LEMMA AcceptFailsInv == TableInv /\ AcceptFails => TableInv'
<1> SUFFICES ASSUME TableInv, AcceptFails PROVE TableInv'
  OBVIOUS
<1> USE DEF TableInv
<1>1. /\ open_fds' = open_fds \ {listen_sock}
      /\ UNCHANGED <<clientVars, serverVars, connVars, selectVars, aborted>>
  BY DEF AcceptFails
<1>2. TypeOK'
  BY <1>1 DEF TypeOK, clientVars, serverVars, connVars, selectVars
<1>3. (NoDangling /\ RefCounts /\ Watching /\ HighWater /\ Counters)'
  BY <1>1, SameTables
<1>4. FdOwnership'
  BY <1>1, SameTables DEF FdOwnership, clientVars, serverVars
<1> QED BY <1>2, <1>3, <1>4

LEMMA OverflowInv ==
    ASSUME TableInv, NEW c \in Idx, NEW r \in Fd \cup {-1}, Overflow(c, r)
    PROVE  TableInv'
<1> USE DEF TableInv
<1>1. /\ UNCHANGED <<clientVars, serverVars, connVars, selectVars>>
      /\ aborted' = TRUE
      /\ open_fds \subseteq open_fds' /\ open_fds' \subseteq Fd
  BY ServerSocket DEF Overflow
<1>2. TypeOK'
  BY <1>1 DEF TypeOK, clientVars, serverVars, connVars, selectVars
<1>3. (NoDangling /\ RefCounts /\ Watching /\ HighWater /\ Counters)'
  BY <1>1, SameTables
<1>4. FdOwnership'
  BY <1>1, SameTables DEF FdOwnership, clientVars, serverVars
<1> QED BY <1>2, <1>3, <1>4

-----------------------------------------------------------------------------
(* OpenConn preserves it *)

LEMMA OpenConnInv ==
    ASSUME TableInv, NEW c \in Idx, NEW r \in Fd \cup {-1}, NEW a \in Addr,
           OpenConn(c, r, a)
    PROVE  /\ TableInv'
           /\ ClientFds' = ClientFds /\ ServerFds' = ServerFds \cup ({r} \ {-1})
           /\ open_fds \subseteq open_fds' /\ (r # -1 => r \in open_fds' \ open_fds)
           /\ Live(client_l)' = Live(client_l)
           /\ \A j \in Live(client_l) : client_l'[j].fd = client_l[j].fd
           /\ \E s, k \in Idx :
                 /\ Live(server_l)' = Live(server_l) \cup {s} /\ s \notin Live(server_l)
                 /\ Live(conn_l)' = Live(conn_l) \cup {k} /\ k \notin Live(conn_l)
                 /\ conn_l'[k] = [clit_idx |-> c, serv_idx |-> s] /\ server_l'[s].fd = r
                 /\ \A j \in Live(server_l) : server_l'[j] = server_l[j]
<1> USE DEF TableInv
<1>1. PICK s, k \in Idx : Link(c, s, k, r, a)
  BY DEF OpenConn
<1> DEFINE sv == [fd |-> r, addr |-> a, num_clit |-> 1]
           cn == [clit_idx |-> c, serv_idx |-> s]
           cl == [client_l[c] EXCEPT !.num_serv = @ + 1]
<1>2. client_l[c] \in Client /\ c \in Live(client_l)
  BY DEF OpenConn, TypeOK, Live
<1>3. /\ sv \in Server /\ sv # NULL /\ cn \in Conn /\ cn # NULL
      /\ cl \in Client /\ cl # NULL
  BY <1>2, EntryNotNull DEF Server, Conn, Client
<1>4. /\ server_l[s] = NULL /\ server_l'[s] = sv
      /\ \A j \in Idx \ {s} : server_l'[j] = server_l[j]
      /\ server_l' \in [Idx -> Server \cup {NULL}]
  BY <1>1, <1>3 DEF Link, FirstFree, TypeOK
<1>5. /\ conn_l[k] = NULL /\ conn_l'[k] = cn
      /\ \A j \in Idx \ {k} : conn_l'[j] = conn_l[j]
      /\ conn_l' \in [Idx -> Conn \cup {NULL}]
  BY <1>1, <1>3 DEF Link, FirstFree, TypeOK
<1>6. /\ client_l'[c] = cl
      /\ \A j \in Idx \ {c} : client_l'[j] = client_l[j]
      /\ client_l' \in [Idx -> Client \cup {NULL}]
  BY <1>1, <1>3 DEF Link, TypeOK
<1>7. /\ cl.fd = client_l[c].fd /\ cl.addr = client_l[c].addr
      /\ cl.num_serv = client_l[c].num_serv + 1
  BY <1>2 DEF Client
<1>8a. /\ sv.fd = r /\ sv.num_clit = 1
       /\ cn.clit_idx = c /\ cn.serv_idx = s
  OBVIOUS
<1> HIDE DEF sv, cn, cl
<1>8. /\ Live(client_l)' = Live(client_l)
      /\ Live(server_l)' = Live(server_l) \cup {s} /\ s \notin Live(server_l)
      /\ Live(conn_l)' = Live(conn_l) \cup {k} /\ k \notin Live(conn_l)
  BY <1>2, <1>3, <1>4, <1>5, <1>6 DEF Live
<1>9. /\ cur_server' = cur_server + 1 /\ max_serv_idx' = Larger(s, max_serv_idx)
      /\ cur_conn' = cur_conn + 1 /\ max_conn_idx' = Larger(k, max_conn_idx)
      /\ cur_client' = cur_client /\ max_clit_idx' = max_clit_idx
      /\ read_set' = read_set \cup {Bit(r)} /\ maxfd' = Larger(r, maxfd)
      /\ aborted' = aborted
  BY <1>1 DEF Link
<1>10. /\ open_fds \subseteq open_fds' /\ open_fds' \subseteq Fd
       /\ r # -1 => r \in Fd \ open_fds /\ r \in open_fds'
       /\ listen_sock \in open_fds
  BY ServerSocket DEF OpenConn, Serving
<1>11. ClientFds' = ClientFds
  <2>1. \A j \in Live(client_l) : client_l'[j].fd = client_l[j].fd
    BY <1>6, <1>7 DEF Live
  <2> QED BY <1>8, <2>1 DEF ClientFds
<1>12. ServerFds' = ServerFds \cup ({r} \ {-1})
  <2>1. ServerFds' = {server_l'[j].fd : j \in Live(server_l) \cup {s}} \ {-1}
    BY <1>8 DEF ServerFds
  <2>2. \A j \in Live(server_l) : server_l'[j].fd = server_l[j].fd
    BY <1>4, <1>8 DEF Live
  <2>3. server_l'[s].fd = r
    BY <1>4, <1>8a
  <2> QED BY <2>1, <2>2, <2>3 DEF ServerFds
<1>13. TypeOK'
  <2>1. max_serv_idx' \in Idx \cup {-1} /\ max_conn_idx' \in Idx \cup {-1}
    BY <1>9 DEF TypeOK, Larger
  <2>2. cur_server' \in Nat /\ cur_conn' \in Nat
    BY <1>9 DEF TypeOK
  <2>3. read_set' \subseteq Fd \cup {AliasFd} /\ maxfd' \in Fd
    BY <1>9 DEF TypeOK, Larger, Bit, Fd
  <2> QED BY <1>4, <1>5, <1>6, <1>9, <1>10, <2>1, <2>2, <2>3 DEF TypeOK
<1>14. NoDangling'
  <2>1. \A j \in Live(conn_l) : /\ conn_l[j].clit_idx \in Idx
                               /\ conn_l[j].serv_idx \in Idx
    BY DEF Live, TypeOK, Conn
  <2>2. \A j \in Idx : client_l[j] # NULL => client_l'[j] # NULL
    BY <1>3, <1>6
  <2>3. \A j \in Idx : server_l[j] # NULL => server_l'[j] # NULL
    BY <1>3, <1>4
  <2>4. \A j \in Live(conn_l) : /\ client_l'[conn_l'[j].clit_idx] # NULL
                               /\ server_l'[conn_l'[j].serv_idx] # NULL
    BY <1>5, <1>8, <2>1, <2>2, <2>3 DEF NoDangling, Live
  <2>5. client_l'[conn_l'[k].clit_idx] # NULL /\ server_l'[conn_l'[k].serv_idx] # NULL
    BY <1>3, <1>4, <1>5, <1>6, <1>8a
  <2> QED BY <1>8, <2>4, <2>5 DEF NoDangling
<1>15. RefCounts'
  <2>1. ConnsOfClient(c)' = ConnsOfClient(c) \cup {k} /\ k \notin ConnsOfClient(c)
    BY <1>5, <1>8, <1>8a DEF ConnsOfClient, Live
  <2>2. \A j \in Idx \ {c} : ConnsOfClient(j)' = ConnsOfClient(j)
    BY <1>5, <1>8, <1>8a DEF ConnsOfClient, Live
  <2>3. Cardinality(ConnsOfClient(c)') = Cardinality(ConnsOfClient(c)) + 1
    BY <2>1, CountSlots DEF ConnsOfClient, Live
  <2>4. \A j \in Live(client_l)' : client_l'[j].num_serv = Cardinality(ConnsOfClient(j)')
    <3>1. client_l'[c].num_serv = Cardinality(ConnsOfClient(c)')
      BY <1>2, <1>6, <1>7, <2>3 DEF RefCounts
    <3>2. \A j \in Live(client_l) \ {c} :
             client_l'[j].num_serv = Cardinality(ConnsOfClient(j)')
      BY <1>6, <2>2 DEF RefCounts, Live
    <3> QED BY <1>8, <3>1, <3>2
  <2>5. ConnsOfServer(s)' = {k}
    BY <1>4, <1>5, <1>8, <1>8a DEF ConnsOfServer, Live, NoDangling
  <2>6. \A j \in Live(server_l) : ConnsOfServer(j)' = ConnsOfServer(j)
    BY <1>5, <1>8, <1>8a DEF ConnsOfServer, Live
  <2>7. \A j \in Live(server_l)' : server_l'[j].num_clit = 1
    BY <1>4, <1>8, <1>8a DEF RefCounts, Live
  <2>8. \A j \in Live(server_l)' : \E m \in Live(conn_l)' : ConnsOfServer(j)' = {m}
    BY <1>8, <2>5, <2>6 DEF RefCounts
  <2> QED BY <2>4, <2>7, <2>8 DEF RefCounts
<1>16. FdOwnership'
  <2>1. r # -1 => r \notin ClientFds \cup ServerFds
    BY <1>10 DEF FdOwnership
  <2>2. (ClientFds \cup ServerFds \subseteq open_fds \ {listen_sock})'
    BY <1>10, <1>11, <1>12 DEF FdOwnership
  <2>3. (ClientFds \cap ServerFds = {})'
    BY <1>11, <1>12, <2>1 DEF FdOwnership
  <2>4. (\A i, j \in Live(client_l) : client_l[i].fd = client_l[j].fd => i = j)'
    <3>1. \A j \in Live(client_l) : client_l'[j].fd = client_l[j].fd
      BY <1>6, <1>7 DEF Live
    <3> QED BY <1>8, <3>1 DEF FdOwnership
  <2>5. \A j \in Live(server_l) : server_l[j].fd # r \/ r = -1
    BY <2>1 DEF ServerFds
  <2>6. (\A i, j \in Live(server_l) :
           server_l[i].fd = server_l[j].fd => i = j \/ server_l[i].fd = -1)'
    <3>1. server_l'[s].fd = r /\ \A j \in Live(server_l) : server_l'[j] = server_l[j]
      BY <1>4, <1>8, <1>8a DEF Live
    <3> QED BY <1>8, <2>5, <3>1 DEF FdOwnership
  <2> QED BY <2>2, <2>3, <2>4, <2>6 DEF FdOwnership
<1>17. Watching'
  BY <1>9, <1>11, <1>12 DEF Watching, Bit
<1>18. HighWater'
  <2>1. \A j \in Live(client_l) : client_l'[j].fd = client_l[j].fd
    BY <1>6, <1>7 DEF Live
  <2>2. \A j \in Live(client_l) : j <= max_clit_idx' /\ client_l'[j].fd <= maxfd'
    BY <1>9, <2>1, LargerBound, EntryFds DEF HighWater
  <2>3. \A j \in Live(server_l) : server_l'[j] = server_l[j]
    BY <1>4, <1>8 DEF Live
  <2>4. \A j \in Live(server_l) : j <= max_serv_idx' /\ server_l'[j].fd <= maxfd'
    BY <1>9, <2>3, LargerBound, EntryFds DEF HighWater
  <2>5. s <= max_serv_idx' /\ server_l'[s].fd <= maxfd' /\ k <= max_conn_idx'
    BY <1>4, <1>8a, <1>9, LargerBound, EntryFds
  <2>6. \A j \in Live(conn_l) : j <= max_conn_idx'
    BY <1>9, LargerBound, EntryFds DEF HighWater
  <2> QED BY <1>8, <2>2, <2>4, <2>5, <2>6 DEF HighWater
<1>19. Counters'
  BY <1>8, <1>9, CountSlots DEF Counters, Live
<1>20. TableInv'
  BY <1>13, <1>14, <1>15, <1>16, <1>17, <1>18, <1>19
<1>21. \A j \in Live(client_l) : client_l'[j].fd = client_l[j].fd
  BY <1>6, <1>7 DEF Live
<1>22. /\ conn_l'[k] = [clit_idx |-> c, serv_idx |-> s] /\ server_l'[s].fd = r
       /\ \A j \in Live(server_l) : server_l'[j] = server_l[j]
  BY <1>4, <1>5, <1>8, <1>8a DEF cn, Live
<1> HIDE DEF TableInv
<1> QED BY <1>8, <1>10, <1>11, <1>12, <1>20, <1>21, <1>22

-----------------------------------------------------------------------------
(* CloseConn preserves it *)

LEMMA CloseConnInv ==
    ASSUME TableInv, NEW k \in Idx, CloseConn(k)
    PROVE  /\ TableInv'
           /\ Live(conn_l)' = Live(conn_l) \ {k} /\ k \in Live(conn_l)
           /\ LET c == conn_l[k].clit_idx
                  s == conn_l[k].serv_idx
              IN  /\ c \in Live(client_l) /\ s \in Live(server_l)
                  /\ Live(server_l)' = Live(server_l) \ {s}
                  /\ ServerFds' = ServerFds \ {server_l[s].fd}
                  /\ \/ /\ Live(client_l)' = Live(client_l) \ {c}
                        /\ ClientFds' = ClientFds \ {client_l[c].fd}
                        /\ open_fds' = open_fds \ {client_l[c].fd, server_l[s].fd}
                     \/ /\ Live(client_l)' = Live(client_l) /\ ClientFds' = ClientFds
                        /\ open_fds' = open_fds \ {server_l[s].fd}
           /\ \A j \in Live(client_l)' : client_l'[j].fd = client_l[j].fd
           /\ \A j \in Live(server_l)' : server_l'[j] = server_l[j]
<1> USE DEF TableInv
<1>0. PICK c \in Idx, s \in Idx : c = conn_l[k].clit_idx /\ s = conn_l[k].serv_idx
  BY DEF CloseConn, TypeOK, Conn
<1> DEFINE gone == LastServ(c)
           cl == drop_client(c)
           cfd == client_l[c].fd
           sfd == server_l[s].fd
<1>1. k \in Live(conn_l) /\ conn_l[k] \in Conn
  BY DEF CloseConn, Live, TypeOK
<1>2. /\ c \in Live(client_l) /\ client_l[c] \in Client
      /\ s \in Live(server_l) /\ server_l[s] \in Server
  BY <1>0, <1>1 DEF NoDangling, Live, TypeOK
<1>3. server_l[s].num_clit = 1 /\ ConnsOfServer(s) = {k}
  BY <1>0, <1>1, <1>2 DEF RefCounts, ConnsOfServer
<1>4. /\ k \in ConnsOfClient(c)
      /\ client_l[c].num_serv = Cardinality(ConnsOfClient(c))
      /\ client_l[c].num_serv \in Nat /\ client_l[c].num_serv >= 1
      /\ Cardinality(ConnsOfClient(c) \ {k}) = client_l[c].num_serv - 1
  <2>1. k \in ConnsOfClient(c)
    BY <1>0, <1>1 DEF ConnsOfClient
  <2>2. client_l[c].num_serv = Cardinality(ConnsOfClient(c))
    BY <1>2 DEF RefCounts
  <2> QED BY <1>2, <2>1, <2>2, CountSlots DEF ConnsOfClient, Live, Client
<1>5. LastClit(s) /\ drop_server(s) = NULL
  BY <1>3 DEF LastClit, drop_server
<1>6. gone <=> ConnsOfClient(c) = {k}
  <2>1. IsFiniteSet(ConnsOfClient(c))
    BY IdxFinite DEF ConnsOfClient, Live
  <2>2. Cardinality(ConnsOfClient(c)) = 1 <=> \E x : ConnsOfClient(c) = {x}
    BY <2>1, FS_Singleton
  <2> QED BY <1>4, <2>2 DEF LastServ
<1>7. /\ server_l'[s] = NULL
      /\ \A j \in Idx \ {s} : server_l'[j] = server_l[j]
      /\ server_l' \in [Idx -> Server \cup {NULL}]
  BY <1>0, <1>5 DEF CloseConn, TypeOK
<1>8. /\ conn_l'[k] = NULL
      /\ \A j \in Idx \ {k} : conn_l'[j] = conn_l[j]
      /\ conn_l' \in [Idx -> Conn \cup {NULL}]
  BY DEF CloseConn, TypeOK
<1>9. /\ gone => cl = NULL
      /\ ~gone => /\ cl \in Client /\ cl # NULL /\ cl.fd = cfd
                  /\ cl.num_serv = client_l[c].num_serv - 1
  BY <1>2, <1>4, EntryNotNull DEF drop_client, LastServ, Client
<1>10. /\ client_l'[c] = cl
       /\ \A j \in Idx \ {c} : client_l'[j] = client_l[j]
       /\ client_l' \in [Idx -> Client \cup {NULL}]
  BY <1>0, <1>9 DEF CloseConn, TypeOK
<1>11. /\ closed_fds(c, s) = (IF gone THEN {cfd} ELSE {}) \cup {sfd}
       /\ read_set' = read_set \ {Bit(fd) : fd \in closed_fds(c, s)}
       /\ open_fds' = open_fds \ closed_fds(c, s)
  BY <1>0, <1>5 DEF CloseConn, closed_fds, FD_CLR
<1>12. /\ cur_client' = IF gone THEN cur_client - 1 ELSE cur_client
       /\ cur_server' = cur_server - 1 /\ cur_conn' = cur_conn - 1
       /\ max_clit_idx' = max_clit_idx /\ max_serv_idx' = max_serv_idx
       /\ max_conn_idx' = max_conn_idx /\ maxfd' = maxfd /\ aborted' = aborted
  BY <1>0, <1>5 DEF CloseConn
<1> HIDE DEF cl, gone
<1>13. /\ Live(client_l)' = IF gone THEN Live(client_l) \ {c} ELSE Live(client_l)
       /\ Live(server_l)' = Live(server_l) \ {s}
       /\ Live(conn_l)' = Live(conn_l) \ {k}
  <2>1. Live(client_l)' = IF gone THEN Live(client_l) \ {c} ELSE Live(client_l)
    BY <1>2, <1>9, <1>10 DEF Live
  <2> QED BY <2>1, <1>7, <1>8 DEF Live
<1>14. ClientFds' = IF gone THEN ClientFds \ {cfd} ELSE ClientFds
  <2>1. \A j \in Live(client_l)' : client_l'[j].fd = client_l[j].fd
    BY <1>9, <1>10, <1>13 DEF Live
  <2>2. \A j \in Live(client_l) \ {c} : client_l[j].fd # cfd
    BY <1>2 DEF FdOwnership
  <2> QED BY <1>2, <1>13, <2>1, <2>2 DEF ClientFds
<1>15. ServerFds' = ServerFds \ {sfd}
  <2>1. \A j \in Live(server_l)' : server_l'[j].fd = server_l[j].fd
    BY <1>7, <1>13 DEF Live
  <2>2. \A j \in Live(server_l) \ {s} : server_l[j].fd = sfd => sfd = -1
    BY <1>2 DEF FdOwnership
  <2> QED BY <1>2, <1>13, <2>1, <2>2 DEF ServerFds
<1>16. TypeOK'
  <2>1. cur_client >= 1 /\ cur_server >= 1 /\ cur_conn >= 1
    BY <1>1, <1>2, CountSlots DEF Counters, Live
  <2>2. cur_client' \in Nat /\ cur_server' \in Nat /\ cur_conn' \in Nat
    BY <1>12, <2>1 DEF TypeOK
  <2> QED BY <1>7, <1>8, <1>10, <1>11, <1>12, <2>2 DEF TypeOK
<1>17. NoDangling'
  <2>1. ASSUME NEW j \in Live(conn_l) \ {k}
        PROVE  client_l'[conn_l[j].clit_idx] # NULL /\ server_l'[conn_l[j].serv_idx] # NULL
    <3>1. conn_l[j].clit_idx \in Idx /\ conn_l[j].serv_idx \in Idx
      BY DEF Live, TypeOK, Conn
    <3>2. conn_l[j].serv_idx # s
      BY <1>3 DEF ConnsOfServer
    <3>3. gone => conn_l[j].clit_idx # c
      BY <1>6 DEF ConnsOfClient
    <3> QED BY <1>7, <1>9, <1>10, <3>1, <3>2, <3>3 DEF NoDangling
  <2> QED BY <1>8, <1>13, <2>1 DEF NoDangling, Live
<1>18. RefCounts'
  <2>1. \A j : ConnsOfClient(j)' = ConnsOfClient(j) \ {k}
    BY <1>8, <1>13 DEF ConnsOfClient, Live
  <2>2. \A j : ConnsOfServer(j)' = ConnsOfServer(j) \ {k}
    BY <1>8, <1>13 DEF ConnsOfServer, Live
  <2>3. \A j \in Live(client_l) \ {c} : k \notin ConnsOfClient(j)
    BY <1>0 DEF ConnsOfClient
  <2>4. \A j \in Live(client_l) \ {c} :
           client_l'[j].num_serv = Cardinality(ConnsOfClient(j)')
    <3>1. \A j \in Live(client_l) \ {c} : ConnsOfClient(j)' = ConnsOfClient(j)
      BY <2>1, <2>3
    <3> QED BY <1>10, <3>1 DEF RefCounts, Live
  <2>5. ~gone => client_l'[c].num_serv = Cardinality(ConnsOfClient(c)')
    BY <1>4, <1>9, <1>10, <2>1
  <2>6. \A j \in Live(server_l) \ {s} : k \notin ConnsOfServer(j)
    BY <1>0 DEF ConnsOfServer
  <2>7. \A j \in Live(server_l)' : /\ server_l'[j].num_clit = 1
                                  /\ ConnsOfServer(j)' = ConnsOfServer(j)
    BY <1>7, <1>13, <2>2, <2>6 DEF RefCounts, Live
  <2>8. \A j \in Live(server_l)' : \E m \in Live(conn_l)' : ConnsOfServer(j)' = {m}
    <3> SUFFICES ASSUME NEW j \in Live(server_l)'
                 PROVE  \E m \in Live(conn_l)' : ConnsOfServer(j)' = {m}
      OBVIOUS
    <3>1. j \in Live(server_l) \ {s}
      BY <1>13
    <3>2. PICK m \in Live(conn_l) : ConnsOfServer(j) = {m}
      BY <3>1 DEF RefCounts
    <3>3. m # k
      BY <2>6, <3>1, <3>2
    <3> QED BY <1>13, <2>7, <3>2, <3>3
  <2> QED BY <1>13, <2>4, <2>5, <2>7, <2>8 DEF RefCounts
<1>19. FdOwnership'
  <2>1. cfd \in ClientFds /\ (sfd # -1 => sfd \in ServerFds)
    BY <1>2 DEF ClientFds, ServerFds
  <2>2. (ClientFds \cup ServerFds \subseteq open_fds \ {listen_sock})'
    <3>1. -1 \notin ClientFds \cup ServerFds
      BY EntryFds DEF ClientFds, ServerFds, Fd
    <3>2. sfd # -1 => sfd \notin ClientFds
      BY <2>1 DEF FdOwnership
    <3>3. cfd \notin ServerFds
      BY <2>1 DEF FdOwnership
    <3>4. /\ ClientFds' \subseteq open_fds' /\ ServerFds' \subseteq open_fds'
      BY <1>11, <1>14, <1>15, <3>1, <3>2, <3>3 DEF FdOwnership
    <3> QED BY <1>14, <1>15, <3>4 DEF FdOwnership
  <2>3. (ClientFds \cap ServerFds = {})'
    BY <1>14, <1>15 DEF FdOwnership
  <2>4. \A j \in Live(client_l)' : j \in Live(client_l) /\ client_l'[j].fd = client_l[j].fd
    BY <1>9, <1>10, <1>13 DEF Live
  <2>5. \A j \in Live(server_l)' : j \in Live(server_l) /\ server_l'[j].fd = server_l[j].fd
    BY <1>7, <1>13 DEF Live
  <2> QED BY <2>2, <2>3, <2>4, <2>5 DEF FdOwnership
<1>20. Watching'
  <2>1. cfd # -1 /\ Bit(cfd) = cfd /\ cfd # listen_sock /\ cfd \notin ServerFds
    BY <1>2, EntryFds DEF Bit, FdOwnership, ClientFds, Fd
  <2>2. sfd = -1 => Bit(sfd) = AliasFd /\ sfd \notin ServerFds
    BY DEF Bit, ServerFds
  <2>3. sfd # -1 => Bit(sfd) = sfd /\ sfd # listen_sock /\ sfd \notin ClientFds
    BY <1>2 DEF Bit, FdOwnership, ServerFds
  <2>4. read_set' = read_set \ ((IF gone THEN {cfd} ELSE {}) \cup {Bit(sfd)})
    BY <1>11, <2>1
  <2> QED BY <1>14, <1>15, <2>1, <2>2, <2>3, <2>4 DEF Watching
<1>21. HighWater'
  <2>1. \A j \in Live(client_l)' : j \in Live(client_l) /\ client_l'[j].fd = client_l[j].fd
    BY <1>9, <1>10, <1>13 DEF Live
  <2>2. \A j \in Live(server_l)' : j \in Live(server_l) /\ server_l'[j].fd = server_l[j].fd
    BY <1>7, <1>13 DEF Live
  <2> QED BY <1>12, <1>13, <2>1, <2>2 DEF HighWater
<1>22. Counters'
  <2>1. gone => Cardinality(Live(client_l) \ {c}) = Cardinality(Live(client_l)) - 1
    BY <1>2, CountSlots DEF Live
  <2>2. Cardinality(Live(server_l) \ {s}) = Cardinality(Live(server_l)) - 1
    BY <1>2, CountSlots DEF Live
  <2>3. Cardinality(Live(conn_l) \ {k}) = Cardinality(Live(conn_l)) - 1
    BY <1>1, CountSlots DEF Live
  <2> QED BY <1>12, <1>13, <2>1, <2>2, <2>3 DEF Counters
<1>23. TableInv'
  BY <1>16, <1>17, <1>18, <1>19, <1>20, <1>21, <1>22
<1>24. /\ \A j \in Live(client_l)' : client_l'[j].fd = client_l[j].fd
       /\ \A j \in Live(server_l)' : server_l'[j] = server_l[j]
  BY <1>7, <1>9, <1>10, <1>13 DEF Live
<1> HIDE DEF TableInv
<1>25. \/ /\ Live(client_l)' = Live(client_l) \ {c} /\ ClientFds' = ClientFds \ {cfd}
          /\ open_fds' = open_fds \ {cfd, sfd}
       \/ /\ Live(client_l)' = Live(client_l) /\ ClientFds' = ClientFds
          /\ open_fds' = open_fds \ {sfd}
  BY <1>11, <1>13, <1>14
<1> QED BY <1>0, <1>1, <1>2, <1>13, <1>15, <1>23, <1>24, <1>25

-----------------------------------------------------------------------------
(* The tables are consistent in every reachable state *)

LEMMA StutterInv == TableInv /\ UNCHANGED tableVars => TableInv'
<1> SUFFICES ASSUME TableInv, UNCHANGED tableVars PROVE TableInv'
  OBVIOUS
<1> USE DEF tableVars
<1>1. TypeOK'
  BY DEF TableInv, TypeOK, clientVars, serverVars, connVars, selectVars
<1>2. (NoDangling /\ RefCounts /\ Watching /\ HighWater /\ Counters)'
  BY SameTables
<1>3. FdOwnership'
  BY SameTables DEF TableInv, FdOwnership, clientVars, serverVars
<1> QED BY <1>1, <1>2, <1>3 DEF TableInv

LEMMA NextInv == TableInv /\ [TableNext]_tableVars => TableInv'
<1> SUFFICES ASSUME TableInv, [TableNext]_tableVars PROVE TableInv'
  OBVIOUS
<1>1. CASE \E fd \in Fd, a \in Addr : Accept(fd, a)
  BY <1>1, AcceptInv
<1>2. CASE AcceptFails
  BY <1>2, AcceptFailsInv
<1>3. CASE \E c \in Idx, r \in Fd \cup {-1}, a \in Addr : OpenConn(c, r, a)
  BY <1>3, OpenConnInv
<1>4. CASE \E c \in Idx, r \in Fd \cup {-1} : Overflow(c, r)
  BY <1>4, OverflowInv
<1>5. CASE \E k \in Idx : CloseConn(k)
  BY <1>5, CloseConnInv
<1>6. CASE UNCHANGED tableVars
  BY <1>6, StutterInv
<1> QED BY <1>1, <1>2, <1>3, <1>4, <1>5, <1>6 DEF TableNext

\* Whatever requests, disconnections and failures of open_server_socket occur,
\* in any order, the tables of pool.c and conn.c stay consistent: every part of
\* TableInv holds in every reachable state.
THEOREM TableCorrect == TableSpec => []TableInv
<1>1. TableInit => TableInv
  BY InitInv
<1>2. TableInv /\ [TableNext]_tableVars => TableInv'
  BY NextInv
<1> QED BY <1>1, <1>2, PTL DEF TableSpec

\* Every slot is empty or holds an entry of its table's kind.
THEOREM TypeCorrect == TableSpec => []TypeOK
<1>1. TableInv => TypeOK
  BY DEF TableInv
<1> QED BY <1>1, TableCorrect, PTL

\* No conn refers to a freed client or server.
THEOREM NoConnDangles == TableSpec => []NoDangling
<1>1. TableInv => NoDangling
  BY DEF TableInv
<1> QED BY <1>1, TableCorrect, PTL

\* The counts of close_conn are the numbers of conns, so its assertions hold.
THEOREM RefCountsExact == TableSpec => []RefCounts
<1>1. TableInv => RefCounts
  BY DEF TableInv
<1> QED BY <1>1, TableCorrect, PTL

\* No descriptor is held twice and every descriptor held is open.
THEOREM FdsOwnedOnce == TableSpec => []FdOwnership
<1>1. TableInv => FdOwnership
  BY DEF TableInv
<1> QED BY <1>1, TableCorrect, PTL

\* add_client always finds a slot, and so does add_conn after add_server has
\* found one, by counting: clients hold distinct descriptors other than the
\* listening socket, and conns hold distinct servers.
THEOREM SlotsAlwaysSuffice == TableSpec => []SlotsSuffice
<1>1. TableInv => Live(client_l) # Idx
  <2> SUFFICES ASSUME TableInv, Live(client_l) = Idx PROVE FALSE
    OBVIOUS
  <2> DEFINE f == [i \in Idx |-> client_l[i].fd]
  <2>1. IsFiniteSet(1 .. FdLimit - 1) /\ Cardinality(1 .. FdLimit - 1) < FD_SETSIZE
    <3>1. 1 \in Int /\ FdLimit - 1 \in Int
      OBVIOUS
    <3>2. /\ IsFiniteSet(1 .. FdLimit - 1)
          /\ Cardinality(1 .. FdLimit - 1) = IF 1 > FdLimit - 1 THEN 0 ELSE FdLimit - 1 - 1 + 1
      BY <3>1, FS_Interval
    <3> QED BY <3>2
  <2>2. f \in [Idx -> 1 .. FdLimit - 1]
    <3>1. \A i \in Idx : client_l[i].fd \in Fd /\ client_l[i].fd # listen_sock
      BY EntryFds DEF TableInv, FdOwnership, ClientFds
    <3> QED BY <3>1 DEF Fd
  <2>3. \E x, y \in Idx : x # y /\ f[x] = f[y]
    <3> HIDE DEF f
    <3> QED BY <2>1, <2>2, IdxFinite, Pigeons, Zenon
  <2> QED BY <2>3 DEF TableInv, FdOwnership
<1>2. TableInv /\ Live(conn_l) = Idx => Live(server_l) = Idx
  <2> SUFFICES ASSUME TableInv, Live(conn_l) = Idx, NEW s \in Idx, s \notin Live(server_l)
               PROVE  FALSE
    BY DEF Live
  <2> DEFINE f == [k \in Idx |-> conn_l[k].serv_idx]
  <2>1. IsFiniteSet(Idx \ {s}) /\ Cardinality(Idx \ {s}) < Cardinality(Idx)
    BY IdxFinite, CountSlots
  <2>2. \A k \in Idx : conn_l[k].serv_idx \in Live(server_l)
    BY DEF TableInv, NoDangling, TypeOK, Conn, Live
  <2>3. f \in [Idx -> Idx \ {s}]
    BY <2>2 DEF Live
  <2>4. \E x, y \in Idx : x # y /\ f[x] = f[y]
    <3> HIDE DEF f
    <3> QED BY <2>1, <2>3, Pigeons, Zenon
  <2>5. PICK x \in Idx, y \in Idx : x # y /\ conn_l[x].serv_idx = conn_l[y].serv_idx
    BY <2>4
  <2>6. {x, y} \subseteq ConnsOfServer(conn_l[x].serv_idx)
    BY <2>5 DEF ConnsOfServer
  <2> QED BY <2>2, <2>5, <2>6 DEF TableInv, RefCounts
<1>3. TableInv => SlotsSuffice
  BY <1>1, <1>2 DEF SlotsSuffice
<1> QED BY <1>3, TableCorrect, PTL

\* add_server finds no slot only when some open_server_socket has failed: servers
\* that all have a socket hold distinct descriptors other than the listening socket,
\* and there are fewer of those than slots.
THEOREM FullOnlyByFailures == TableSpec => []FullByFailures
<1>1. TableInv => FullByFailures
  <2> SUFFICES ASSUME TableInv, Live(server_l) = Idx, \A s \in Idx : server_l[s].fd # -1
               PROVE  FALSE
    BY DEF FullByFailures
  <2> DEFINE f == [s \in Idx |-> server_l[s].fd]
  <2>1. IsFiniteSet(1 .. FdLimit - 1) /\ Cardinality(1 .. FdLimit - 1) < FD_SETSIZE
    <3>1. 1 \in Int /\ FdLimit - 1 \in Int
      OBVIOUS
    <3>2. /\ IsFiniteSet(1 .. FdLimit - 1)
          /\ Cardinality(1 .. FdLimit - 1) = IF 1 > FdLimit - 1 THEN 0 ELSE FdLimit - 1 - 1 + 1
      BY <3>1, FS_Interval
    <3> QED BY <3>2
  <2>2. f \in [Idx -> 1 .. FdLimit - 1]
    <3>1. \A s \in Idx : server_l[s].fd \in Fd /\ server_l[s].fd # listen_sock
      BY EntryFds DEF TableInv, FdOwnership, ServerFds
    <3> QED BY <3>1 DEF Fd
  <2>3. \E x, y \in Idx : x # y /\ f[x] = f[y]
    <3> HIDE DEF f
    <3> QED BY <2>1, <2>2, IdxFinite, Pigeons, Zenon
  <2> QED BY <2>3 DEF TableInv, FdOwnership
<1> QED BY <1>1, TableCorrect, PTL

\* The socket of a server leads back to its own conn: descriptors of servers are
\* distinct, a server has one conn, and the scan reaches it.
THEOREM ServerLookupExact == TableSpec => []ServerLookup
<1>1. TableInv => ServerLookup
  <2> SUFFICES ASSUME TableInv, NEW k \in Live(conn_l),
                      server_l[conn_l[k].serv_idx].fd # -1, NEW j \in Idx
               PROVE  server_get_conn(server_l[conn_l[k].serv_idx].fd, j) <=> j = k
    BY DEF ServerLookup
  <2> DEFINE fd == server_l[conn_l[k].serv_idx].fd
             match(i) == conn_l[i] # NULL /\ server_l[conn_l[i].serv_idx].fd = fd
  <2>1. \A i \in Live(conn_l) : conn_l[i].serv_idx \in Live(server_l)
    BY DEF TableInv, NoDangling, TypeOK, Conn, Live
  <2>2. \A i \in Live(conn_l) : conn_l[i].serv_idx = conn_l[k].serv_idx => i = k
    <3>1. PICK m \in Live(conn_l) : ConnsOfServer(conn_l[k].serv_idx) = {m}
      BY <2>1 DEF TableInv, RefCounts
    <3> QED BY <3>1 DEF ConnsOfServer
  <2>3. \A i \in Idx : match(i) <=> i = k
    BY <2>1, <2>2 DEF TableInv, FdOwnership, Live
  <2>4. k <= max_conn_idx /\ k \in Idx /\ \A i \in Idx : i < k => i # k
    BY DEF TableInv, HighWater, Live, Idx
  <2> HIDE DEF match, fd
  <2>5. (/\ j <= max_conn_idx /\ match(j)
         /\ \A i \in Idx : i < j => ~match(i)) <=> j = k
    BY <2>3, <2>4
  <2> QED BY <2>5 DEF server_get_conn, match, fd
<1> QED BY <1>1, TableCorrect, PTL

\* A conn that stays in its slot keeps its client and its server.
LEMMA EndpointsKept ==
    ASSUME TableInv, [TableNext]_tableVars
    PROVE  \A k \in Live(conn_l) : conn_l'[k] # NULL =>
              /\ conn_l'[k] = conn_l[k]
              /\ LET c == conn_l[k].clit_idx
                     s == conn_l[k].serv_idx
                 IN  /\ client_l'[c] = [client_l[c] EXCEPT !.num_serv = client_l'[c].num_serv]
                     /\ server_l'[s] = server_l[s]
<1> SUFFICES ASSUME NEW k \in Live(conn_l), conn_l'[k] # NULL,
                    NEW c, c = conn_l[k].clit_idx,
                    NEW s, s = conn_l[k].serv_idx
             PROVE  /\ conn_l'[k] = conn_l[k]
                    /\ client_l'[c] = [client_l[c] EXCEPT !.num_serv = client_l'[c].num_serv]
                    /\ server_l'[s] = server_l[s]
  OBVIOUS
<1>1. /\ c \in Live(client_l) /\ client_l[c] \in Client /\ s \in Live(server_l)
  BY DEF TableInv, NoDangling, TypeOK, Conn, Live
<1>2. ASSUME client_l'[c] = client_l[c]
      PROVE  client_l'[c] = [client_l[c] EXCEPT !.num_serv = client_l'[c].num_serv]
  BY <1>1, <1>2 DEF Client
<1>3. ASSUME UNCHANGED <<clientVars, serverVars, connVars>>
      PROVE  /\ conn_l'[k] = conn_l[k] /\ client_l'[c] = client_l[c]
             /\ server_l'[s] = server_l[s]
  BY <1>3 DEF clientVars, serverVars, connVars
<1>4. CASE \E fd \in Fd, a \in Addr : Accept(fd, a)
  <2>1. /\ UNCHANGED <<serverVars, connVars>>
        /\ \E i \in Idx : \E e : client_l[i] = NULL /\ client_l' = [client_l EXCEPT ![i] = e]
    BY <1>4 DEF Accept, add_client, FirstFree
  <2>2. client_l'[c] = client_l[c]
    BY <1>1, <2>1 DEF TableInv, TypeOK, Live
  <2> QED BY <1>2, <2>1, <2>2 DEF serverVars, connVars
<1>5. CASE AcceptFails
  BY <1>2, <1>3, <1>5 DEF AcceptFails
<1>6. CASE \E d \in Idx, r \in Fd \cup {-1}, a \in Addr : OpenConn(d, r, a)
  <2>1. PICK d \in Idx, r \in Fd \cup {-1}, a \in Addr, t \in Idx, m \in Idx :
           client_l[d] # NULL /\ Link(d, t, m, r, a)
    BY <1>6 DEF OpenConn
  <2>2. t # s /\ m # k
    BY <1>1, <2>1 DEF Link, FirstFree, Live
  <2>3. conn_l'[k] = conn_l[k] /\ server_l'[s] = server_l[s]
    BY <1>1, <2>1, <2>2 DEF Link, TableInv, TypeOK, Live
  <2>4. CASE d = c
    <3>1. client_l'[c] = [client_l[c] EXCEPT !.num_serv = @ + 1]
      BY <1>1, <2>1, <2>4 DEF Link, TableInv, TypeOK, Live
    <3> QED BY <1>1, <2>3, <3>1 DEF Client
  <2>5. CASE d # c
    <3>1. client_l'[c] = client_l[c]
      BY <1>1, <2>1, <2>5 DEF Link, TableInv, TypeOK, Live
    <3> QED BY <1>2, <2>3, <3>1
  <2> QED BY <2>4, <2>5
<1>7. CASE \E d \in Idx, r \in Fd \cup {-1} : Overflow(d, r)
  BY <1>2, <1>3, <1>7 DEF Overflow
<1>8. CASE \E m \in Idx : CloseConn(m)
  <2>1. PICK m \in Idx : CloseConn(m)
    BY <1>8
  <2>2. PICK d \in Idx, t \in Idx : d = conn_l[m].clit_idx /\ t = conn_l[m].serv_idx
    BY <2>1 DEF CloseConn, TableInv, TypeOK, Conn
  <2>3. m # k /\ m \in Live(conn_l)
    BY <2>1 DEF CloseConn, TableInv, TypeOK, Live
  <2>4. conn_l'[k] = conn_l[k]
    BY <2>1, <2>3 DEF CloseConn, TableInv, TypeOK, Live
  <2>5. t # s
    <3>1. PICK x \in Live(conn_l) : ConnsOfServer(s) = {x}
      BY <1>1 DEF TableInv, RefCounts
    <3> QED BY <2>2, <2>3, <3>1 DEF ConnsOfServer
  <2>6. server_l'[s] = server_l[s]
    BY <1>1, <2>1, <2>2, <2>5 DEF CloseConn, TableInv, TypeOK, Live
  <2>7. CASE d = c
    <3>1. ~LastServ(c)
      <4>1. {k, m} \subseteq ConnsOfClient(c)
        BY <2>2, <2>3, <2>7 DEF ConnsOfClient
      <4>2. IsFiniteSet(ConnsOfClient(c)) /\ ~\E x : ConnsOfClient(c) = {x}
        BY <2>3, <4>1, IdxFinite DEF ConnsOfClient, Live
      <4>3. Cardinality(ConnsOfClient(c)) # 1
        BY <4>2, FS_Singleton
      <4> QED BY <1>1, <4>3 DEF TableInv, RefCounts, LastServ
    <3>2. client_l'[c] = [client_l[c] EXCEPT !.num_serv = @ - 1]
      BY <1>1, <2>1, <2>2, <2>7, <3>1 DEF CloseConn, drop_client, TableInv, TypeOK, Live
    <3> QED BY <1>1, <2>4, <2>6, <3>2 DEF Client
  <2>8. CASE d # c
    <3>1. client_l'[c] = client_l[c]
      BY <1>1, <2>1, <2>2, <2>8 DEF CloseConn, TableInv, TypeOK, Live
    <3> QED BY <1>2, <2>4, <2>6, <3>1
  <2> QED BY <2>7, <2>8
<1>9. CASE UNCHANGED tableVars
  BY <1>2, <1>3, <1>9 DEF tableVars
<1> QED BY <1>4, <1>5, <1>6, <1>7, <1>8, <1>9 DEF TableNext

\* No step re-points a conn to another client or server while it is in its slot.
THEOREM EndpointsStable == TableSpec => StableEndpoints
<1> DEFINE Stable == \A k \in Live(conn_l) : conn_l'[k] # NULL =>
              /\ conn_l'[k] = conn_l[k]
              /\ LET c == conn_l[k].clit_idx
                     s == conn_l[k].serv_idx
                 IN  /\ client_l'[c] = [client_l[c] EXCEPT !.num_serv = client_l'[c].num_serv]
                     /\ server_l'[s] = server_l[s]
<1>1. TableInv /\ [TableNext]_tableVars => [Stable]_tableVars
  BY EndpointsKept
<1> QED BY <1>1, TableCorrect, PTL DEF TableSpec, StableEndpoints

\* select() watches the listening socket and the sockets in the tables and no
\* other, the bit that FD_SET(-1) touches apart.
THEOREM WatchedExactly == TableSpec => []Watching
<1>1. TableInv => Watching
  BY DEF TableInv
<1> QED BY <1>1, TableCorrect, PTL

\* The marks at which the scans and select() end cover every entry.
THEOREM MarksCover == TableSpec => []HighWater
<1>1. TableInv => HighWater
  BY DEF TableInv
<1> QED BY <1>1, TableCorrect, PTL

\* The counters are the numbers of entries.
THEOREM CountersExact == TableSpec => []Counters
<1>1. TableInv => Counters
  BY DEF TableInv
<1> QED BY <1>1, TableCorrect, PTL

\* The lookup of a conn finds the first that matches, which the mark covers.
LEMMA LookupFinds == TableInv => ClientLookup
<1> SUFFICES ASSUME TableInv, NEW k \in Live(conn_l),
                    NEW c, c = conn_l[k].clit_idx,
                    NEW fd, fd = client_l[c].fd,
                    NEW a, a = server_l[conn_l[k].serv_idx].addr
             PROVE  \E j \in ConnsOfClient(c) : client_get_conn(fd, a, j)
  BY DEF ClientLookup
<1> DEFINE match(i) == /\ conn_l[i] # NULL
                       /\ client_l[conn_l[i].clit_idx].fd = fd
                       /\ server_l[conn_l[i].serv_idx].addr = a
           M == {i \in Idx : match(i)}
<1>1. k \in M /\ M \subseteq Nat
  BY DEF Live, Idx
<1>2. PICK j \in M : \A i \in M : j <= i
  <2> HIDE DEF M
  <2> QED BY <1>1, LeastNumber
<1>3. j \in Live(conn_l) /\ match(j)
  BY <1>2 DEF Live
<1>4. conn_l[j].clit_idx \in Live(client_l) /\ c \in Live(client_l)
  BY <1>3 DEF TableInv, NoDangling, TypeOK, Conn, Live
<1>5. j \in ConnsOfClient(c)
  BY <1>3, <1>4 DEF ConnsOfClient, TableInv, FdOwnership
<1>6. \A i \in Idx : i < j => ~ match(i)
  <2>1. \A i \in Idx : i < j => i \notin M
    <3>1. j \in Int /\ Idx \subseteq Int
      BY <1>2 DEF Idx
    <3> HIDE DEF M
    <3> QED BY <1>2, <3>1
  <2> QED BY <2>1
<1>7. j <= max_conn_idx
  BY <1>3 DEF TableInv, HighWater
<1> HIDE DEF match, M
<1>8. j <= max_conn_idx /\ match(j) /\ \A i \in Idx : i < j => ~ match(i)
  BY <1>3, <1>6, <1>7
<1> QED BY <1>5, <1>8 DEF client_get_conn, match

\* client_get_conn finds a conn when there is one, and the one it finds belongs to
\* the client that asks.
THEOREM ClientLookupFinds == TableSpec => []ClientLookup
<1> QED BY LookupFinds, TableCorrect, PTL

\* Entries go with their last conn, in every step.
LastConnCloses ==
    /\ \A c \in Live(client_l) : client_l'[c] = NULL <=>
           ConnsOfClient(c) # {} /\ \A k \in ConnsOfClient(c) : conn_l'[k] = NULL
    /\ \A s \in Live(server_l) : server_l'[s] = NULL <=>
           \A k \in ConnsOfServer(s) : conn_l'[k] = NULL

LEMMA LastConnStep ==
    ASSUME TableInv, [TableNext]_tableVars
    PROVE  LastConnCloses
<1> USE DEF LastConnCloses
<1>1. /\ \A c \in Live(client_l) : client_l[c] \in Client /\ client_l[c] # NULL /\ c \in Idx
      /\ \A s \in Live(server_l) : s \in Idx /\ server_l[s] # NULL
      /\ \A s \in Live(server_l) : \E k \in Live(conn_l) : ConnsOfServer(s) = {k}
      /\ \A k \in Live(conn_l) : conn_l[k] # NULL /\ k \in Idx
  BY DEF TableInv, TypeOK, RefCounts, Live
\* Steps in which every entry stays
<1>2. ASSUME \A c \in Live(client_l) : client_l'[c] # NULL,
             \A s \in Live(server_l) : server_l'[s] # NULL,
             \A k \in Live(conn_l) : conn_l'[k] # NULL
      PROVE  LastConnCloses
  BY <1>1, <1>2 DEF ConnsOfClient, ConnsOfServer
<1>3. ASSUME UNCHANGED <<clientVars, serverVars, connVars>>
      PROVE  LastConnCloses
  BY <1>1, <1>2, <1>3 DEF clientVars, serverVars, connVars
<1>4. CASE \E fd \in Fd, a \in Addr : Accept(fd, a)
  <2>1. /\ UNCHANGED <<serverVars, connVars>>
        /\ \E i \in Idx : \E e : client_l[i] = NULL /\ client_l' = [client_l EXCEPT ![i] = e]
    BY <1>4 DEF Accept, add_client, FirstFree
  <2>2. \A c \in Live(client_l) : client_l'[c] = client_l[c]
    BY <1>1, <2>1 DEF TableInv, TypeOK, Live
  <2> QED BY <1>1, <1>2, <2>1, <2>2 DEF serverVars, connVars
<1>5. CASE AcceptFails
  BY <1>3, <1>5 DEF AcceptFails
<1>6. CASE \E d \in Idx, r \in Fd \cup {-1}, a \in Addr : OpenConn(d, r, a)
  <2>1. PICK d \in Idx, r \in Fd \cup {-1}, a \in Addr, t \in Idx, m \in Idx :
           client_l[d] # NULL /\ Link(d, t, m, r, a)
    BY <1>6 DEF OpenConn
  <2>2. t \notin Live(server_l) /\ m \notin Live(conn_l)
    BY <2>1 DEF Link, FirstFree, Live
  <2>3. \A s \in Live(server_l) : server_l'[s] = server_l[s]
    BY <1>1, <2>1, <2>2 DEF Link, TableInv, TypeOK
  <2>4. \A k \in Live(conn_l) : conn_l'[k] = conn_l[k]
    BY <1>1, <2>1, <2>2 DEF Link, TableInv, TypeOK
  <2>5. \A c \in Live(client_l) : client_l'[c] # NULL
    <3>1. TableInv'
      BY <1>6, NextInv DEF TableNext
    <3>2. [client_l[d] EXCEPT !.num_serv = @ + 1] \in Client
      BY <1>1, <2>1 DEF Live, Client
    <3>3. client_l' = [client_l EXCEPT ![d] = [client_l[d] EXCEPT !.num_serv = @ + 1]]
      BY <2>1 DEF Link, TableInv, TypeOK
    <3> QED BY <1>1, <3>2, <3>3, EntryNotNull DEF TableInv, TypeOK
  <2> QED BY <1>1, <1>2, <2>3, <2>4, <2>5
<1>7. CASE \E d \in Idx, r \in Fd \cup {-1} : Overflow(d, r)
  BY <1>3, <1>7 DEF Overflow
<1>8. CASE \E m \in Idx : CloseConn(m)
  <2>1. PICK m \in Idx : CloseConn(m)
    BY <1>8
  <2>2. PICK d \in Idx, t \in Idx : d = conn_l[m].clit_idx /\ t = conn_l[m].serv_idx
    BY <2>1 DEF CloseConn, TableInv, TypeOK, Conn
  <2>3. m \in Live(conn_l) /\ d \in Live(client_l) /\ t \in Live(server_l)
    BY <2>1, <2>2 DEF CloseConn, TableInv, NoDangling, Live
  <2>4. \A k \in Live(conn_l) : conn_l'[k] = NULL <=> k = m
    BY <1>1, <2>1 DEF CloseConn, TableInv, TypeOK
  <2>5. ASSUME NEW c \in Live(client_l)
        PROVE  client_l'[c] = NULL <=>
                  ConnsOfClient(c) # {} /\ \A k \in ConnsOfClient(c) : conn_l'[k] = NULL
    <3>1. CASE c # d
      <4>1. client_l'[c] = client_l[c]
        BY <1>1, <2>1, <2>2, <3>1 DEF CloseConn, TableInv, TypeOK
      <4>2. m \notin ConnsOfClient(c)
        BY <2>2, <3>1 DEF ConnsOfClient
      <4> QED BY <1>1, <2>4, <4>1, <4>2 DEF ConnsOfClient
    <3>2. CASE c = d
      <4>1. m \in ConnsOfClient(c)
        BY <2>2, <2>3, <3>2 DEF ConnsOfClient
      <4>2. client_l'[c] = drop_client(c)
        BY <1>1, <2>1, <2>2, <3>2 DEF CloseConn, TableInv, TypeOK
      <4>3. IsFiniteSet(ConnsOfClient(c))
        BY <1>1, IdxFinite DEF ConnsOfClient
      <4>4. LastServ(c) <=> ConnsOfClient(c) = {m}
        <5>1. LastServ(c) <=> Cardinality(ConnsOfClient(c)) = 1
          BY DEF LastServ, TableInv, RefCounts
        <5>2. \A X : IsFiniteSet(X) => (Cardinality(X) = 1 <=> \E x : X = {x})
          BY FS_Singleton
        <5> QED BY <4>1, <4>3, <5>1, <5>2
      <4>5. [client_l[c] EXCEPT !.num_serv = @ - 1] # NULL
        <5>1. CASE LastServ(c)
          <6>1. [client_l[c] EXCEPT !.num_serv = 0] \in Client
            BY <1>1 DEF Client
          <6>2. client_l[c].num_serv = 1
            BY <5>1 DEF LastServ
          <6>3. [client_l[c] EXCEPT !.num_serv = @ - 1] = [client_l[c] EXCEPT !.num_serv = 0]
            BY <1>1, <6>2 DEF Client
          <6> QED BY <6>1, <6>3, EntryNotNull
        <5>2. CASE ~ LastServ(c)
          <6>1. client_l[c].num_serv \in Nat /\ client_l[c].num_serv # 0
            <7>1. client_l[c].num_serv = Cardinality(ConnsOfClient(c))
              BY DEF TableInv, RefCounts
            <7> QED BY <4>1, <4>3, <7>1, FS_CardinalityType, FS_EmptySet
          <6>2. [client_l[c] EXCEPT !.num_serv = @ - 1] \in Client
            BY <1>1, <6>1 DEF Client
          <6> QED BY <6>2, EntryNotNull
        <5> QED BY <5>1, <5>2
      <4>6. client_l'[c] = NULL <=> LastServ(c)
        BY <4>2, <4>5 DEF drop_client
      <4> QED BY <2>4, <4>1, <4>4, <4>6 DEF ConnsOfClient
    <3> QED BY <3>1, <3>2
  <2>6. ASSUME NEW s \in Live(server_l)
        PROVE  server_l'[s] = NULL <=> \A k \in ConnsOfServer(s) : conn_l'[k] = NULL
    <3>1. PICK x \in Live(conn_l) : ConnsOfServer(s) = {x}
      BY <1>1
    <3>2. x = m <=> s = t
      BY <2>2, <2>3, <3>1 DEF ConnsOfServer
    <3>3. server_l'[s] = IF s = t THEN drop_server(s) ELSE server_l[s]
      BY <1>1, <2>1, <2>2 DEF CloseConn, TableInv, TypeOK
    <3>4. LastClit(s)
      BY DEF LastClit, TableInv, RefCounts
    <3> QED BY <1>1, <2>4, <3>1, <3>2, <3>3, <3>4 DEF drop_server
  <2> QED BY <2>5, <2>6
<1>9. CASE UNCHANGED tableVars
  BY <1>3, <1>9 DEF tableVars
<1> QED BY <1>4, <1>5, <1>6, <1>7, <1>8, <1>9 DEF TableNext

\* A socket is closed in the step that closes its last conn and in no other.
THEOREM SocketsClosedInTime == TableSpec => ClosedWithLastConn
<1>1. TableInv /\ [TableNext]_tableVars => [LastConnCloses]_tableVars
  BY LastConnStep
<1> QED BY <1>1, TableCorrect, PTL DEF TableSpec, ClosedWithLastConn, LastConnCloses
=============================================================================
