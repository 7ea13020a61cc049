-------------------------------- MODULE Ospf --------------------------------
(***************************************************************************)
(* The choice of a web server by the name server (ospf.c): OSPF_init reads *)
(* the file of servers and the file of link-state advertisements, searches *)
(* the graph from every client, and route() answers queries, by the table  *)
(* it has made or by round robin.                                          *)
(*                                                                         *)
(* Every pass of a loop of the code is a step.  Lists are sequences of     *)
(* names; the code links a list by pointers to the one entry that a name   *)
(* has in nodes.  A line of the second file holds up to three fields; the  *)
(* local variables of parse_LSA keep what an earlier line has put in them  *)
(* when it holds less, as the rest of a line does that fgets has cut.      *)
(***************************************************************************)
EXTENDS Integers, Sequences, FiniteSets, Functions

CONSTANTS
    Name,           \* names of clients, servers and routers
    Router,         \* those that start with "router"
    ServFiles,      \* files of servers: sequences of names
    LsaFiles,       \* files of advertisements: sequences of lines
    Garbage,        \* what the local neighbors may hold before it is written
    QueryLimit,     \* query_count is taken modulo this (2^32 in the code)
    NULL            \* no name

\* A line as sscanf() takes it apart: fields is its result.
Lsa == [name : Name, seq_num : Nat, neighbors : Seq(Name), fields : 1 .. 3]

ASSUME OspfAssumption ==
    /\ Router \subseteq Name /\ NULL \notin Name
    /\ ServFiles \subseteq Seq(Name) /\ LsaFiles \subseteq Seq(Lsa)
    /\ Garbage \subseteq Seq(Name)
    /\ QueryLimit \in Nat \ {0}
    /\ \A f \in LsaFiles : f # <<>> => f[1].fields > 1

\* A name is what fits into a buffer.
ASSUME NameAssumption == IsFiniteSet(Name)

VARIABLES
    pc,             \* the loop the program is in
    rr_flag,        \* round robin was asked for on the command line
    fserv, fLSA,    \* the two files
    line,           \* lines read of the current one
    nodes, servs, clits,
    neighbors, seq_num,     \* fields of each node
    lsa,            \* the locals name, seq_num and neighbors of parse_LSA
    tokens,         \* what strtok has not returned yet
    clit, mark, q,  \* client of the search, nodes marked, queue
    neighbor_iter,  \* neighbors of this_node still to look at
    routing_table,  \* the server of each client
    query_count, answer

fileVars   == <<rr_flag, fserv, fLSA>>
graphVars  == <<nodes, servs, clits, neighbors, seq_num>>
parseVars  == <<line, lsa, tokens>>
searchVars == <<clit, mark, q, neighbor_iter, routing_table>>
routeVars  == <<query_count, answer>>
ospfVars   == <<pc, fileVars, graphVars, parseVars, searchVars, routeVars>>
\* What parsing and what the search leave alone.
loadFrame   == <<fileVars, searchVars, routeVars>>
searchFrame == <<fileVars, graphVars, parseVars, routeVars>>

-----------------------------------------------------------------------------
OspfInit ==
    /\ pc = "servs" /\ rr_flag \in BOOLEAN
    /\ fserv \in ServFiles /\ fLSA \in LsaFiles
    /\ line = 0 /\ tokens = <<>>
    /\ \E g \in Garbage : lsa = [name |-> NULL, seq_num |-> 0, neighbors |-> g]
    /\ nodes = <<>> /\ servs = <<>> /\ clits = <<>>
    /\ neighbors = [n \in Name |-> <<>>] /\ seq_num = [n \in Name |-> -1]
    /\ clit = 0 /\ mark = {} /\ q = <<>> /\ neighbor_iter = <<>>
    /\ routing_table = [n \in Name |-> NULL]
    /\ query_count = 0 /\ answer = NULL

AltAdded(list, x) == Append(list, x)
\* add_new_node, add_new_neighbor: a list gets what it does not have.
Added(list, x) == IF x \in Range(list) THEN list ELSE Append(list, x)

(* parse_servs *)

ReadServer ==
    /\ pc = "servs" /\ line < Len(fserv)
    /\ line' = line + 1
    /\ nodes' = Added(nodes, fserv[line'])
    /\ servs' = Append(servs, fserv[line'])
    /\ UNCHANGED <<pc, clits, neighbors, seq_num, lsa, tokens, loadFrame>>

(* parse_LSA *)

\* The locals after sscanf(): fields the line does not have keep their values.
Scanned(l) == [name      |-> l.name,
               seq_num   |-> IF l.fields > 1 THEN l.seq_num ELSE lsa.seq_num,
               neighbors |-> IF l.fields > 2 THEN l.neighbors ELSE lsa.neighbors]

IsClient(name) == name \notin Range(servs) \cup Router

AltNewer(l) == TRUE
Newer(l) == seq_num[l.name] < l.seq_num

\* strtok() ends the buffer behind the first name.
Tokenized(l) == [l EXCEPT !.neighbors = SubSeq(@, 1, IF @ = <<>> THEN 0 ELSE 1)]

\* An advertisement that is not newer than the last one of its sender is skipped.
ReadLSA ==
    /\ pc = "LSAs" /\ line < Len(fLSA)
    /\ line' = line + 1
    /\ LET l == Scanned(fLSA[line'])
       IN  /\ nodes' = Added(nodes, l.name)
           /\ clits' = IF IsClient(l.name) THEN Added(clits, l.name) ELSE clits
           /\ \/ ~Newer(l) /\ lsa' = l /\ UNCHANGED <<pc, seq_num, neighbors, tokens>>
              \/ /\ Newer(l) /\ lsa' = Tokenized(l)
                 /\ seq_num' = [seq_num EXCEPT ![l.name] = l.seq_num]
                 /\ neighbors' = [neighbors EXCEPT ![l.name] = <<>>]
                 /\ pc' = "neighbors" /\ tokens' = l.neighbors
    /\ UNCHANGED <<servs, loadFrame>>

AddNeighbor ==
    /\ pc = "neighbors" /\ tokens # <<>>
    /\ nodes' = Added(nodes, Head(tokens))
    /\ neighbors' = [neighbors EXCEPT ![lsa.name] = Added(@, Head(tokens))]
    /\ tokens' = Tail(tokens)
    /\ UNCHANGED <<pc, servs, clits, seq_num, line, lsa, loadFrame>>

(* shortest_path, for each client *)

AltUnmarked == mark
Unmarked == mark \ Range(nodes)

NextClient ==
    /\ pc = "clits" /\ clit < Len(clits)
    /\ clit' = clit + 1
    /\ mark' = Unmarked \cup {clits[clit']}
    /\ q' = <<clits[clit']>> /\ neighbor_iter' = <<>>
    /\ pc' = "search"
    /\ UNCHANGED <<routing_table, searchFrame>>

AltRest == q
Rest == Tail(q)

Pop ==
    /\ pc = "search" /\ neighbor_iter = <<>> /\ q # <<>>
    /\ neighbor_iter' = neighbors[Head(q)]
    /\ q' = Rest
    /\ UNCHANGED <<pc, clit, mark, routing_table, searchFrame>>

SkipMarked ==
    /\ pc = "search" /\ neighbor_iter # <<>> /\ Head(neighbor_iter) \in mark
    /\ neighbor_iter' = Tail(neighbor_iter)
    /\ UNCHANGED <<pc, clit, mark, q, routing_table, searchFrame>>

AltIsServer(name) == name \notin Range(clits)
IsServer(name) == name \in Range(servs)

FindServer ==
    /\ pc = "search" /\ neighbor_iter # <<>>
    /\ Head(neighbor_iter) \notin mark /\ IsServer(Head(neighbor_iter))
    /\ routing_table' = [routing_table EXCEPT ![clits[clit]] = Head(neighbor_iter)]
    /\ pc' = "clits"
    /\ UNCHANGED <<clit, mark, q, neighbor_iter, searchFrame>>

AltQueued(n) == <<n>> \o q
Queued(n) == Append(q, n)

\* neighbor_iter stays; in the next pass it stands at a node with a mark.
Push ==
    /\ pc = "search" /\ neighbor_iter # <<>>
    /\ Head(neighbor_iter) \notin mark /\ ~IsServer(Head(neighbor_iter))
    /\ q' = Queued(Head(neighbor_iter))
    /\ mark' = mark \cup {Head(neighbor_iter)}
    /\ UNCHANGED <<pc, clit, neighbor_iter, routing_table, searchFrame>>

\* Each loop has an end; that of the search is assert(0).
LoopEnds ==
    /\ \/ pc = "servs" /\ line = Len(fserv) /\ pc' = IF rr_flag THEN "route" ELSE "LSAs"
       \/ pc = "neighbors" /\ tokens = <<>> /\ pc' = "LSAs"
       \/ pc = "LSAs" /\ line = Len(fLSA) /\ pc' = "clits"
       \/ pc = "clits" /\ clit = Len(clits) /\ pc' = "route"
       \/ pc = "search" /\ neighbor_iter = <<>> /\ q = <<>> /\ pc' = "aborted"
    /\ line' = IF pc = "servs" THEN 0 ELSE line
    /\ UNCHANGED <<graphVars, lsa, tokens, loadFrame>>

(* route *)

AltCounted == query_count + 1
Counted == (query_count + 1) % QueryLimit

RouteRoundRobin ==
    /\ pc = "route" /\ rr_flag /\ nodes # <<>>
    /\ answer' = nodes[(query_count % Len(nodes)) + 1]
    /\ query_count' = Counted
    /\ UNCHANGED <<pc, fileVars, graphVars, parseVars, searchVars>>

RouteNearest(name) ==
    /\ pc = "route" /\ ~rr_flag /\ name \in Range(clits)
    /\ answer' = routing_table[name]
    /\ UNCHANGED <<pc, fileVars, graphVars, parseVars, searchVars, query_count>>

\* The remainder by zero, or a client that has no entry.
RouteFails(name) ==
    /\ pc = "route"
    /\ IF rr_flag THEN nodes = <<>> ELSE name \notin Range(clits)
    /\ pc' = "crashed"
    /\ UNCHANGED <<graphVars, parseVars, loadFrame>>

OSPF_init ==
    \/ ReadServer \/ ReadLSA \/ AddNeighbor
    \/ NextClient \/ Pop \/ SkipMarked \/ FindServer \/ Push
    \/ LoopEnds

OspfNext ==
    \/ OSPF_init
    \/ RouteRoundRobin
    \/ \E name \in Name : RouteNearest(name) \/ RouteFails(name)

OspfSpec == OspfInit /\ [][OspfNext]_ospfVars

\* OSPF_init runs; nothing is assumed of queries.
OspfFairSpec == OspfSpec /\ WF_ospfVars(OSPF_init)

-----------------------------------------------------------------------------
(* Properties *)

FilesTyped == rr_flag \in BOOLEAN /\ fserv \in Seq(Name) /\ fLSA \in Seq(Lsa)
GraphTyped == /\ nodes \in Seq(Name) /\ servs \in Seq(Name) /\ clits \in Seq(Name)
              /\ neighbors \in [Name -> Seq(Name)] /\ seq_num \in [Name -> Nat \cup {-1}]
ParseTyped == /\ line \in Nat /\ tokens \in Seq(Name)
              /\ lsa.name \in Name \cup {NULL} /\ (pc = "neighbors" => lsa.name \in Name)
              /\ lsa.seq_num \in Nat /\ lsa.neighbors \in Seq(Name)
SearchTyped == /\ clit \in 0 .. Len(clits) /\ (pc = "search" => clit > 0)
               /\ mark \subseteq Name /\ q \in Seq(Name) /\ neighbor_iter \in Seq(Name)
               /\ routing_table \in [Name -> Name \cup {NULL}]
RouteTyped == query_count \in 0 .. QueryLimit - 1 /\ answer \in Name \cup {NULL}

\* Lists hold names, the counter stays in its range, and a search is one from a
\* client of the list.
OspfTypeOK ==
    /\ pc \in {"servs", "LSAs", "neighbors", "clits", "search", "route", "aborted", "crashed"}
    /\ FilesTyped /\ GraphTyped /\ ParseTyped /\ SearchTyped /\ RouteTyped

Distinct(list) == \A i, j \in 1 .. Len(list) : list[i] = list[j] => i = j

\* A name has one entry in nodes, whatever lists it is in, so that the search
\* unmarks every node it can come to; no name is listed twice as a neighbour or
\* as a client, and a client is neither a server nor a router.
GraphSound ==
    /\ Distinct(nodes) /\ Distinct(clits)
    /\ \A n \in Name : Distinct(neighbors[n]) /\ Range(neighbors[n]) \subseteq Range(nodes)
    /\ Range(servs) \cup Range(clits) \subseteq Range(nodes)
    /\ Range(clits) \cap (Range(servs) \cup Router) = {}

\* With files of complete lines the neighbours of a node are those of its own
\* advertisement with the highest number, in whatever order the lines stand.
LatestWins ==
    pc \in {"clits", "search"} /\ (\A i \in DOMAIN fLSA : fLSA[i].fields = 3) =>
        \A n \in Name :
           LET own == {i \in DOMAIN fLSA : fLSA[i].name = n}
           IN  /\ own = {} => neighbors[n] = <<>>
               /\ own # {} => \E i \in own :
                     /\ \A j \in own : \/ fLSA[j].seq_num < fLSA[i].seq_num
                                       \/ fLSA[j].seq_num = fLSA[i].seq_num /\ i <= j
                     /\ Range(neighbors[n]) = Range(fLSA[i].neighbors)

Neighbors(S) == UNION {Range(neighbors[n]) : n \in S}

\* The nodes at most i hops from c.
Within(c) == LET w[i \in 0 .. Cardinality(Name)] ==
                    IF i = 0 THEN {c} ELSE w[i - 1] \cup Neighbors(w[i - 1])
             IN  w

\* The search gives a client a server than which none is fewer hops away.
NearestServer ==
    \A c \in Range(clits) : routing_table[c] # NULL =>
        \E i \in 1 .. Cardinality(Name) :
            routing_table[c] \in Within(c)[i] /\ Within(c)[i - 1] \cap Range(servs) = {}

\* The nodes in every set that contains c and the neighbours of its members.
Reachable(c) == {n \in Name : \A S \in SUBSET Name : c \in S /\ Neighbors(S) \subseteq S => n \in S}

\* The assertion at the end of shortest_path fails only if the graph leads from
\* the client to no server at all.
AbortJustified ==
    pc = "aborted" => Reachable(clits[clit]) \cap Range(servs) = {}

\* Queries are answered by servers: every client in the table has one that it can
\* reach, and the list that round robin goes through holds nothing else.
RoutedToServers ==
    /\ answer # NULL => answer \in Range(servs)
    /\ pc = "route" /\ ~rr_flag => \A c \in Range(clits) :
          routing_table[c] \in Range(servs) \cap Reachable(c)

\* OSPF_init comes to an end.
InitEnds == <>(pc \in {"route", "aborted", "crashed"})
=============================================================================
