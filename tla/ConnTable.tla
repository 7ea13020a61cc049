----------------------------- MODULE ConnTable -----------------------------
(***************************************************************************)
(* The connection tables of the proxy: client_l, server_l and conn_l of    *)
(* pool_t, the descriptor sets handed to select(), and the operations of   *)
(* pool.c and conn.c that change them.                                     *)
(*                                                                         *)
(* A conn ties the slot of a client to the slot of the server socket that  *)
(* was opened for it.  Clients and servers count the conns that use them   *)
(* and are closed with the last one.  Everything is kept in fixed arrays   *)
(* of FD_SETSIZE slots; the first free slot is always taken.               *)
(*                                                                         *)
(* Descriptors are numbered from the listening socket, which is 0 here.    *)
(* write_set is not a variable: the code sets and clears the same bits in  *)
(* it as in read_set, so that write_set = read_set \ {listen_sock}.        *)
(***************************************************************************)
EXTENDS Integers, FiniteSets

CONSTANTS
    FD_SETSIZE,     \* slots of each table, and bits of an fd_set
    FdLimit,        \* descriptors the process may have open (RLIMIT_NOFILE)
    AliasFd,        \* the bit that FD_SET(-1) and FD_CLR(-1) touch (63 on x86-64)
    Addr,           \* IPv4 addresses of clients and servers
    NULL            \* an empty slot

listen_sock == 0
Idx == 0 .. FD_SETSIZE - 1
Fd  == 0 .. FdLimit - 1

Client == [fd : Fd, addr : Addr, num_serv : Nat]
Server == [fd : Fd \cup {-1}, addr : Addr, num_clit : Nat]
Conn   == [clit_idx : Idx, serv_idx : Idx]

\* At least one slot, and one descriptor for the listening socket.
ASSUME SizeAssumption  == FD_SETSIZE \in Nat \ {0} /\ FdLimit \in Nat \ {0}
\* The default limit of 1024 descriptors does not exceed FD_SETSIZE.
ASSUME LimitAssumption == FdLimit <= FD_SETSIZE
\* Bit 63 is not the bit of the listening socket, the first one opened.
ASSUME AliasAssumption == AliasFd \in Nat \ {listen_sock}
ASSUME NullAssumption  == NULL \notin Client \cup Server \cup Conn

VARIABLES
    client_l, max_clit_idx, cur_client,
    server_l, max_serv_idx, cur_server,
    conn_l,   max_conn_idx, cur_conn,
    read_set, maxfd,
    open_fds,       \* descriptors open in the process (kernel state)
    aborted         \* the program has run into undefined behaviour or an assertion

clientVars == <<client_l, max_clit_idx, cur_client>>
serverVars == <<server_l, max_serv_idx, cur_server>>
connVars   == <<conn_l, max_conn_idx, cur_conn>>
selectVars == <<read_set, maxfd>>
tableVars  == <<clientVars, serverVars, connVars, selectVars, open_fds, aborted>>

-----------------------------------------------------------------------------
(* Slots, descriptors and lookups *)

Live(tbl) == {i \in Idx : tbl[i] # NULL}

\* Altered forms of a few definitions (Alt...) stand before them: each property
\* below fails when one of them takes the definition's place.
AltFirstFree(tbl, i) == \A j \in Idx : j < i => tbl[j] # NULL
FirstFree(tbl, i) == tbl[i] = NULL /\ \A j \in Idx : j < i => tbl[j] # NULL

\* socket() and accept() return the lowest descriptor that is not open.
LowestFreeFd(fd) == /\ fd \in Fd \ open_fds
                    /\ \A g \in Fd \ open_fds : fd <= g

AltBit(fd) == fd
\* The bit of an fd_set that FD_SET(fd) and FD_CLR(fd) write.
Bit(fd) == IF fd = -1 THEN AliasFd ELSE fd

AltLarger(a, b) == b
Larger(a, b) == IF a > b THEN a ELSE b

AltClientGetConn(fd, a, k) ==
    LET match(j) == conn_l[j] # NULL /\ server_l[conn_l[j].serv_idx].addr = a
    IN  k <= max_conn_idx /\ match(k) /\ \A j \in Idx : j < k => ~match(j)
\* client_get_conn: the first conn of the client descriptor with a server
\* of that address.
client_get_conn(fd, a, k) ==
    LET match(j) == /\ conn_l[j] # NULL
                    /\ client_l[conn_l[j].clit_idx].fd = fd
                    /\ server_l[conn_l[j].serv_idx].addr = a
    IN  k <= max_conn_idx /\ match(k) /\ \A j \in Idx : j < k => ~match(j)

AltServerGetConn(fd, k) ==
    conn_l[k] # NULL /\ server_l[conn_l[k].serv_idx].fd = fd /\ k < max_conn_idx
\* server_get_conn: the first conn whose server has that descriptor.
server_get_conn(fd, k) ==
    LET match(j) == conn_l[j] # NULL /\ server_l[conn_l[j].serv_idx].fd = fd
    IN  k <= max_conn_idx /\ match(k) /\ \A j \in Idx : j < k => ~match(j)

-----------------------------------------------------------------------------
TableInit ==
    /\ client_l = [i \in Idx |-> NULL] /\ max_clit_idx = -1 /\ cur_client = 0
    /\ server_l = [i \in Idx |-> NULL] /\ max_serv_idx = -1 /\ cur_server = 0
    /\ conn_l   = [i \in Idx |-> NULL] /\ max_conn_idx = -1 /\ cur_conn = 0
    /\ read_set = {listen_sock}
    /\ maxfd = listen_sock
    /\ open_fds = {listen_sock}
    /\ aborted = FALSE

\* The main loop gets past select() and accept() only while the listening
\* socket is open: once it is closed select() fails on it in every turn.
Serving == ~aborted /\ listen_sock \in open_fds

add_client(i, fd, a) ==
    /\ FirstFree(client_l, i)
    /\ client_l' = [client_l EXCEPT ![i] = [fd |-> fd, addr |-> a, num_serv |-> 0]]
    /\ cur_client' = cur_client + 1
    /\ max_clit_idx' = Larger(i, max_clit_idx)
    /\ read_set' = read_set \cup {fd}
    /\ maxfd' = Larger(fd, maxfd)

\* accept() succeeds.  The guard on cur_conn is the code's.
Accept(fd, a) ==
    /\ Serving
    /\ cur_conn <= FD_SETSIZE
    /\ LowestFreeFd(fd)
    /\ open_fds' = open_fds \cup {fd}
    /\ \E i \in Idx : add_client(i, fd, a)
    /\ UNCHANGED <<serverVars, connVars, aborted>>

\* accept() fails, for want of a descriptor or for an error of the pending
\* connection: the listening socket is closed but stays in read_set.
AcceptFails ==
    /\ Serving
    /\ cur_conn <= FD_SETSIZE
    /\ open_fds' = open_fds \ {listen_sock}
    /\ UNCHANGED <<clientVars, serverVars, connVars, selectVars, aborted>>

\* open_server_socket returns r.  bind() and connect() may fail after socket()
\* has succeeded; the descriptor then stays open and nobody holds it.
open_server_socket(r) ==
    \/ LowestFreeFd(r) /\ open_fds' = open_fds \cup {r}
    \/ /\ r = -1
       /\ \E fd \in Fd : LowestFreeFd(fd) /\ open_fds' = open_fds \cup {fd}
    \/ r = -1 /\ Fd \subseteq open_fds /\ UNCHANGED open_fds

AltLink(c, s, k, r, a) ==
    /\ FirstFree(server_l, s)
    /\ FirstFree(conn_l, k)
    /\ server_l' = [server_l EXCEPT ![s] = [fd |-> r, addr |-> a, num_clit |-> 1]]
    /\ conn_l' = [conn_l EXCEPT ![k] = [clit_idx |-> c, serv_idx |-> s]]
    /\ cur_server' = cur_server + 1 /\ max_serv_idx' = Larger(s, max_serv_idx)
    /\ cur_conn' = cur_conn + 1 /\ max_conn_idx' = Larger(k, max_conn_idx)
    /\ read_set' = read_set \cup {Bit(r)} /\ maxfd' = Larger(r, maxfd)
    /\ UNCHANGED <<clientVars, aborted>>
\* add_server followed by add_conn, which counts the new conn on both sides.
\* The result r = -1 of open_server_socket is entered like a descriptor.
Link(c, s, k, r, a) ==
    /\ FirstFree(server_l, s)
    /\ FirstFree(conn_l, k)
    /\ server_l' = [server_l EXCEPT ![s] = [fd |-> r, addr |-> a, num_clit |-> 1]]
    /\ cur_server' = cur_server + 1
    /\ max_serv_idx' = Larger(s, max_serv_idx)
    /\ read_set' = read_set \cup {Bit(r)}
    /\ maxfd' = Larger(r, maxfd)
    /\ client_l' = [client_l EXCEPT ![c].num_serv = @ + 1]
    /\ conn_l' = [conn_l EXCEPT ![k] = [clit_idx |-> c, serv_idx |-> s]]
    /\ cur_conn' = cur_conn + 1
    /\ max_conn_idx' = Larger(k, max_conn_idx)
    /\ UNCHANGED <<max_clit_idx, cur_client, aborted>>

OpenConn(c, r, a) ==
    /\ Serving
    /\ client_l[c] # NULL
    /\ open_server_socket(r)
    /\ \E s, k \in Idx : Link(c, s, k, r, a)

\* add_server finds no slot and add_conn dereferences server_l[-1].
Overflow(c, r) ==
    /\ Serving
    /\ client_l[c] # NULL
    /\ Live(server_l) = Idx
    /\ open_server_socket(r)
    /\ aborted' = TRUE
    /\ UNCHANGED <<clientVars, serverVars, connVars, selectVars>>

AltLastServ(c) == client_l[c].num_serv = 0
\* The count that close_conn has just decremented is zero.
LastServ(c) == client_l[c].num_serv = 1
LastClit(s) == server_l[s].num_clit = 1

AltDropAtOnce(c) == NULL
AltDropServer(s) == [server_l[s] EXCEPT !.num_clit = @ - 1]
AltDropKeeps(c) == [client_l[c] EXCEPT !.num_serv = @ - 1]
\* The entries of the client and of the server after close_conn, which calls
\* close_clit and close_serv on those without a conn left.
drop_client(c) == IF LastServ(c) THEN NULL ELSE [client_l[c] EXCEPT !.num_serv = @ - 1]
drop_server(s) == IF LastClit(s) THEN NULL ELSE [server_l[s] EXCEPT !.num_clit = @ - 1]

AltClosedFds(c, s) == {client_l[c].fd, server_l[s].fd}
\* The descriptors close_clit and close_serv close (close(-1) does nothing).
closed_fds(c, s) == (IF LastServ(c) THEN {client_l[c].fd} ELSE {})
                    \cup (IF LastClit(s) THEN {server_l[s].fd} ELSE {})

AltFdClr(fds) == read_set
FD_CLR(fds) == read_set \ {Bit(fd) : fd \in fds}

CloseConn(k) ==
    /\ Serving
    /\ conn_l[k] # NULL
    /\ LET c == conn_l[k].clit_idx
           s == conn_l[k].serv_idx
       IN  /\ client_l' = [client_l EXCEPT ![c] = drop_client(c)]
           /\ cur_client' = IF LastServ(c) THEN cur_client - 1 ELSE cur_client
           /\ server_l' = [server_l EXCEPT ![s] = drop_server(s)]
           /\ cur_server' = IF LastClit(s) THEN cur_server - 1 ELSE cur_server
           /\ read_set' = FD_CLR(closed_fds(c, s))
           /\ open_fds' = open_fds \ closed_fds(c, s)
    /\ conn_l' = [conn_l EXCEPT ![k] = NULL]
    /\ cur_conn' = cur_conn - 1
    /\ UNCHANGED <<max_clit_idx, max_serv_idx, max_conn_idx, maxfd, aborted>>

TableNext ==
    \/ \E fd \in Fd, a \in Addr : Accept(fd, a)
    \/ AcceptFails
    \/ \E c \in Idx, r \in Fd \cup {-1}, a \in Addr : OpenConn(c, r, a)
    \/ \E c \in Idx, r \in Fd \cup {-1} : Overflow(c, r)
    \/ \E k \in Idx : CloseConn(k)

TableSpec == TableInit /\ [][TableNext]_tableVars

-----------------------------------------------------------------------------
(* Properties *)

ClientFds == {client_l[i].fd : i \in Live(client_l)}
ServerFds == {server_l[i].fd : i \in Live(server_l)} \ {-1}
ConnsOfClient(c) == {k \in Live(conn_l) : conn_l[k].clit_idx = c}
ConnsOfServer(s) == {k \in Live(conn_l) : conn_l[k].serv_idx = s}

\* Every slot is empty or holds an entry of its table's kind.
TypeOK ==
    /\ client_l \in [Idx -> Client \cup {NULL}]
    /\ server_l \in [Idx -> Server \cup {NULL}]
    /\ conn_l \in [Idx -> Conn \cup {NULL}]
    /\ max_clit_idx \in Idx \cup {-1} /\ cur_client \in Nat
    /\ max_serv_idx \in Idx \cup {-1} /\ cur_server \in Nat
    /\ max_conn_idx \in Idx \cup {-1} /\ cur_conn \in Nat
    /\ read_set \subseteq Fd \cup {AliasFd}
    /\ maxfd \in Fd
    /\ open_fds \subseteq Fd
    /\ aborted \in BOOLEAN

\* A conn never outlives its client or its server: the lookups of conn.c and
\* close_conn follow its two indices without a test for an empty slot.
NoDangling ==
    \A k \in Live(conn_l) : /\ client_l[conn_l[k].clit_idx] # NULL
                            /\ server_l[conn_l[k].serv_idx] # NULL

\* num_serv and num_clit count exactly the conns of the client and of the
\* server, and a server has one conn, so that close_conn frees each entry with
\* its last conn and the assertions at its head hold.
RefCounts ==
    /\ \A c \in Live(client_l) : client_l[c].num_serv = Cardinality(ConnsOfClient(c))
    /\ \A s \in Live(server_l) : server_l[s].num_clit = 1
    /\ \A s \in Live(server_l) : \E k \in Live(conn_l) : ConnsOfServer(s) = {k}

\* No descriptor is held twice, and every descriptor held is open: closing one
\* entry never closes the socket of another, however slots and descriptors
\* have been reused.
FdOwnership ==
    /\ ClientFds \cup ServerFds \subseteq open_fds \ {listen_sock}
    /\ ClientFds \cap ServerFds = {}
    /\ \A i, j \in Live(client_l) : client_l[i].fd = client_l[j].fd => i = j
    /\ \A i, j \in Live(server_l) :
          server_l[i].fd = server_l[j].fd => i = j \/ server_l[i].fd = -1

\* Apart from the one bit that FD_SET(-1) touches, select() watches exactly
\* the listening socket and the sockets of live clients and servers.
Watching ==
    read_set \ {AliasFd} = ({listen_sock} \cup ClientFds \cup ServerFds) \ {AliasFd}

\* The high-water marks cover every live entry: the scans of serve_clients,
\* serve_servers and of the lookups miss none, nor does select().
HighWater ==
    /\ \A i \in Live(client_l) : i <= max_clit_idx /\ client_l[i].fd <= maxfd
    /\ \A i \in Live(server_l) : i <= max_serv_idx /\ server_l[i].fd <= maxfd
    /\ \A i \in Live(conn_l) : i <= max_conn_idx

\* The counters equal the number of live entries.
Counters ==
    /\ cur_client = Cardinality(Live(client_l))
    /\ cur_server = Cardinality(Live(server_l))
    /\ cur_conn = Cardinality(Live(conn_l))

\* A slot is always free for a client that accept() returns, and for the conn
\* of a server that has found a slot: add_client and add_conn never return -1,
\* a result nobody tests.
SlotsSuffice ==
    /\ Live(client_l) # Idx
    /\ Live(server_l) # Idx => Live(conn_l) # Idx

\* server_l runs full only when a connect has failed: the sockets of servers are
\* descriptors of their own and end before the slots do, so that an entry whose
\* descriptor is -1 stands behind every overflow of add_server.
FullByFailures ==
    Live(server_l) = Idx => \E s \in Live(server_l) : server_l[s].fd = -1

\* The socket of a live server leads back to its own conn alone, and so to the
\* one client whose request it carries.
ServerLookup ==
    \A k \in Live(conn_l) :
       LET fd == server_l[conn_l[k].serv_idx].fd
       IN  fd # -1 => \A j \in Idx : server_get_conn(fd, j) <=> j = k

\* The lookup by client and address finds a conn whenever the client has one
\* with a server of that address, and the conn it finds is the client's own.
ClientLookup ==
    \A k \in Live(conn_l) :
       \E j \in ConnsOfClient(conn_l[k].clit_idx) :
          client_get_conn(client_l[conn_l[k].clit_idx].fd,
                          server_l[conn_l[k].serv_idx].addr, j)

\* The inductive invariant: no part is inductive without the others.
TableInv == /\ TypeOK /\ NoDangling /\ RefCounts /\ FdOwnership
            /\ Watching /\ HighWater /\ Counters

\* No step re-points a conn: while it stays in its slot its client and its
\* server keep their descriptors and addresses.
StableEndpoints ==
    [][\A k \in Live(conn_l) : conn_l'[k] # NULL =>
          /\ conn_l'[k] = conn_l[k]
          /\ LET c == conn_l[k].clit_idx
                 s == conn_l[k].serv_idx
             IN  /\ client_l'[c] = [client_l[c] EXCEPT !.num_serv = client_l'[c].num_serv]
                 /\ server_l'[s] = server_l[s]]_tableVars

\* A socket is closed exactly with its last conn: a client leaves the table in
\* the step that closes its last conn, never before, and so does a server.
ClosedWithLastConn ==
    [][/\ \A c \in Live(client_l) : client_l'[c] = NULL <=>
             ConnsOfClient(c) # {} /\ \A k \in ConnsOfClient(c) : conn_l'[k] = NULL
       /\ \A s \in Live(server_l) : server_l'[s] = NULL <=>
             \A k \in ConnsOfServer(s) : conn_l'[k] = NULL]_tableVars

\* Whoever has connected is watched as long as he is in the table.
\* (It fails when AliasFd is a descriptor: closing a server entry whose
\* descriptor is -1 clears that descriptor's bit.)
ClientsWatched == ClientFds \subseteq read_set
=============================================================================
