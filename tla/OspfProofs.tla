----------------------------- MODULE OspfProofs -----------------------------
(***************************************************************************)
(* Proofs about Ospf for all files and networks: the graph is well formed  *)
(* and that of the newest advertisements, every client gets a server that  *)
(* it can reach and than which none is nearer, and the assertion at the    *)
(* end of the search fails only where there is none.                       *)
(***************************************************************************)
EXTENDS Ospf, NumberLemmas

(* Sequences as lists of names *)

\* What Append adds to the members of a list.
LEMMA RangeAppend ==
    ASSUME NEW S, NEW s \in Seq(S), NEW x \in S
    PROVE  Range(Append(s, x)) = Range(s) \cup {x}
  <1> DEFINE t == Append(s, x)
  <1>1. /\ t \in Seq(S) /\ Len(t) = Len(s) + 1 /\ t[Len(s) + 1] = x
        /\ \A i \in 1 .. Len(s) : t[i] = s[i]
    OBVIOUS
  <1>2. DOMAIN t = 1 .. Len(s) + 1 /\ DOMAIN s = 1 .. Len(s)
    BY <1>1
  <1> QED BY <1>1, <1>2 DEF Range

\* Head and Tail split the members of a list.
LEMMA RangeTail ==
    ASSUME NEW S, NEW s \in Seq(S), s # <<>>
    PROVE  /\ Head(s) \in S /\ Tail(s) \in Seq(S)
           /\ Range(s) = {Head(s)} \cup Range(Tail(s))
  <1> DEFINE t == Tail(s)
  <1>1. /\ t \in Seq(S) /\ Len(t) = Len(s) - 1 /\ Len(s) > 0 /\ Head(s) = s[1] /\ s[1] \in S
        /\ \A i \in 1 .. Len(t) : t[i] = s[i + 1]
    OBVIOUS
  <1>2. DOMAIN t = 1 .. Len(s) - 1 /\ DOMAIN s = 1 .. Len(s)
    BY <1>1
  <1>3. ASSUME NEW y \in Range(s)
        PROVE  y \in {Head(s)} \cup Range(t)
    <2>1. PICK i \in 1 .. Len(s) : y = s[i]
      BY <1>2 DEF Range
    <2>2. CASE i = 1
      BY <2>1, <2>2, <1>1
    <2>3. CASE i # 1
      <3>1. i - 1 \in 1 .. Len(t) /\ t[i - 1] = s[(i - 1) + 1] /\ (i - 1) + 1 = i
        BY <1>1, <2>3
      <3> QED BY <1>1, <1>2, <2>1, <3>1 DEF Range
    <2> QED BY <2>2, <2>3
  <1>4. ASSUME NEW y \in {Head(s)} \cup Range(t)
        PROVE  y \in Range(s)
    <2>1. CASE y = Head(s)
      BY <1>1, <1>2, <2>1 DEF Range
    <2>2. CASE y \in Range(t)
      <3>1. PICK i \in 1 .. Len(t) : y = t[i]
        BY <1>1, <1>2, <2>2 DEF Range
      <3>2. i + 1 \in 1 .. Len(s) /\ y = s[i + 1]
        BY <1>1, <3>1
      <3> QED BY <1>2, <3>2 DEF Range
    <2> QED BY <2>1, <2>2
  <1> QED BY <1>1, <1>3, <1>4

LEMMA RangeSeq ==
    ASSUME NEW S, NEW s \in Seq(S)
    PROVE  Range(s) \subseteq S /\ \A i \in 1 .. Len(s) : s[i] \in Range(s)
  BY DEF Range

LEMMA RangeEmpty == Range(<<>>) = {}
  BY DEF Range

\* A list that is added to stays without repetitions.
LEMMA AddedProperties ==
    ASSUME NEW S, NEW s \in Seq(S), NEW x \in S
    PROVE  /\ Added(s, x) \in Seq(S) /\ Len(Added(s, x)) >= Len(s)
           /\ \A i \in 1 .. Len(s) : Added(s, x)[i] = s[i]
           /\ Range(Added(s, x)) = Range(s) \cup {x}
           /\ Distinct(s) => Distinct(Added(s, x))
  <1>1. CASE x \in Range(s)
    BY <1>1 DEF Added
  <1>2. CASE x \notin Range(s)
    <2>1. Added(s, x) = Append(s, x)
      BY <1>2 DEF Added
    <2>2. \A i \in 1 .. Len(s) : s[i] # x
      BY <1>2, RangeSeq
    <2>3. ASSUME Distinct(s) PROVE Distinct(Append(s, x))
      BY <2>2, <2>3 DEF Distinct
    <2> QED BY <2>1, <2>3, RangeAppend
  <1> QED BY <1>1, <1>2

-----------------------------------------------------------------------------
(* Types *)

\* Reading the files keeps the types.
LEMMA ParseTypes ==
    ASSUME OspfTypeOK, ReadServer \/ ReadLSA \/ AddNeighbor
    PROVE  OspfTypeOK'
  <1> USE DEF OspfTypeOK
  <1>1. UNCHANGED loadFrame /\ pc' \in {pc, "neighbors"} /\ pc # "search"
    BY DEF ReadServer, ReadLSA, AddNeighbor
  <1>2. FilesTyped' /\ RouteTyped'
    BY <1>1 DEF FilesTyped, RouteTyped, loadFrame, fileVars, routeVars
  <1>3. ASSUME Len(clits') >= Len(clits), clits' \in Seq(Name)
        PROVE  SearchTyped'
    <2>1. clit \in 0 .. Len(clits')
      BY <1>3 DEF SearchTyped, GraphTyped
    <2> QED BY <1>1, <2>1 DEF SearchTyped, loadFrame, searchVars
  <1>4. CASE ReadServer
    <2>1. fserv[line + 1] \in Name
      BY <1>4 DEF ReadServer, FilesTyped, ParseTyped
    <2>2. GraphTyped'
      <3>1. Added(nodes, fserv[line + 1]) \in Seq(Name)
        BY <2>1, AddedProperties DEF GraphTyped
      <3>2. Append(servs, fserv[line + 1]) \in Seq(Name)
        BY <2>1 DEF GraphTyped
      <3> QED BY <1>4, <3>1, <3>2 DEF ReadServer, GraphTyped
    <2>3. ParseTyped'
      BY <1>4 DEF ReadServer, ParseTyped
    <2>4. SearchTyped'
      BY <1>3, <1>4, <2>2 DEF ReadServer, GraphTyped
    <2> QED BY <1>1, <1>2, <2>2, <2>3, <2>4
  <1>5. CASE ReadLSA
    <2> DEFINE l == Scanned(fLSA[line + 1])
    <2>1. fLSA[line + 1] \in Lsa
      BY <1>5 DEF ReadLSA, FilesTyped, ParseTyped
    <2>2. /\ l \in [name : Name, seq_num : Nat, neighbors : Seq(Name)]
          /\ l.name \in Name /\ l.seq_num \in Nat /\ l.neighbors \in Seq(Name)
      BY <2>1 DEF Scanned, Lsa, ParseTyped
    <2>3. /\ Tokenized(l).name \in Name /\ Tokenized(l).seq_num \in Nat
          /\ Tokenized(l).neighbors \in Seq(Name)
      <3>1. SubSeq(l.neighbors, 1, IF l.neighbors = <<>> THEN 0 ELSE 1) \in Seq(Name)
        BY <2>2
      <3> HIDE DEF l
      <3> QED BY <2>2, <3>1 DEF Tokenized
    <2>4. ParseTyped'
      <3>1. line' \in Nat
        BY <1>5 DEF ReadLSA, ParseTyped
      <3>2. CASE Newer(l)
        BY <1>5, <2>2, <2>3, <3>1, <3>2 DEF ReadLSA, ParseTyped
      <3>3. CASE ~Newer(l)
        BY <1>5, <2>2, <3>1, <3>3 DEF ReadLSA, ParseTyped
      <3> QED BY <3>2, <3>3
    <2>5. GraphTyped' /\ Len(clits') >= Len(clits)
      <3>1. nodes' \in Seq(Name)
        BY <1>5, <2>2, AddedProperties DEF ReadLSA, GraphTyped
      <3>2. clits' \in Seq(Name) /\ Len(clits') >= Len(clits)
        <4>1. /\ Added(clits, l.name) \in Seq(Name)
              /\ Len(Added(clits, l.name)) >= Len(clits) /\ Len(clits) \in Nat
          <5>1. clits \in Seq(Name) /\ l.name \in Name
            BY <2>2 DEF GraphTyped
          <5>2. Len(clits) \in Nat
            BY <5>1
          <5> HIDE DEF l
          <5>3. Added(clits, l.name) \in Seq(Name) /\ Len(Added(clits, l.name)) >= Len(clits)
            BY <5>1, AddedProperties
          <5> QED BY <5>2, <5>3
        <4>2. clits' \in {clits, Added(clits, l.name)}
          BY <1>5 DEF ReadLSA
        <4> QED BY <4>1, <4>2 DEF GraphTyped
      <3>3. seq_num' \in [Name -> Nat \cup {-1}]
        BY <1>5, <2>2 DEF ReadLSA, GraphTyped
      <3>4. neighbors' \in [Name -> Seq(Name)] /\ servs' \in Seq(Name)
        <4>1. neighbors' \in {neighbors, [neighbors EXCEPT ![l.name] = <<>>]}
          BY <1>5 DEF ReadLSA
        <4>2. <<>> \in Seq(Name)
          OBVIOUS
        <4>3. neighbors' \in [Name -> Seq(Name)]
          BY <2>2, <4>1, <4>2 DEF GraphTyped
        <4> QED BY <1>5, <4>3 DEF ReadLSA, GraphTyped
      <3> QED BY <3>1, <3>2, <3>3, <3>4 DEF GraphTyped
    <2>6. SearchTyped'
      BY <1>3, <2>5 DEF GraphTyped
    <2> QED BY <1>1, <1>2, <2>4, <2>5, <2>6
  <1>6. CASE AddNeighbor
    <2>1. Head(tokens) \in Name /\ Tail(tokens) \in Seq(Name)
      BY <1>6, RangeTail DEF AddNeighbor, ParseTyped
    <2>2. lsa.name \in Name
      BY <1>6 DEF AddNeighbor, ParseTyped
    <2>3. GraphTyped'
      <3>1. Added(neighbors[lsa.name], Head(tokens)) \in Seq(Name)
        BY <2>1, <2>2, AddedProperties DEF GraphTyped
      <3>2. nodes' \in Seq(Name)
        BY <1>6, <2>1, AddedProperties DEF AddNeighbor, GraphTyped
      <3> QED BY <1>6, <3>1, <3>2 DEF AddNeighbor, GraphTyped
    <2>4. ParseTyped'
      BY <1>6, <2>1 DEF AddNeighbor, ParseTyped
    <2>5. SearchTyped'
      BY <1>3, <1>6, <2>3 DEF AddNeighbor, GraphTyped
    <2> QED BY <1>1, <1>2, <2>3, <2>4, <2>5
  <1> QED BY <1>4, <1>5, <1>6

\* So does the search.
LEMMA SearchTypes ==
    ASSUME OspfTypeOK, NextClient \/ Pop \/ SkipMarked \/ FindServer \/ Push
    PROVE  OspfTypeOK'
  <1> USE DEF OspfTypeOK
  <1>1. UNCHANGED searchFrame /\ pc' \in {"clits", "search"}
    BY DEF NextClient, Pop, SkipMarked, FindServer, Push
  <1>2. FilesTyped' /\ GraphTyped' /\ ParseTyped' /\ RouteTyped'
    BY <1>1 DEF FilesTyped, GraphTyped, ParseTyped, RouteTyped,
                searchFrame, fileVars, graphVars, parseVars, routeVars
  <1>3. SearchTyped'
    <2> USE DEF SearchTyped, GraphTyped
    <2>1. clits' = clits
      BY <1>1 DEF searchFrame, graphVars
    <2>2. CASE NextClient
      <3>1. clit + 1 \in 1 .. Len(clits) /\ clits[clit + 1] \in Name
        BY <2>2 DEF NextClient
      <3>2. <<clits[clit + 1]>> \in Seq(Name)
        BY <3>1
      <3> QED BY <2>1, <2>2, <3>1, <3>2 DEF NextClient, Unmarked
    <2>3. CASE Pop
      <3>1. Head(q) \in Name /\ q' \in Seq(Name)
        BY <2>3, RangeTail DEF Pop, Rest
      <3> QED BY <2>1, <2>3, <3>1 DEF Pop
    <2>4. CASE SkipMarked
      <3>1. Tail(neighbor_iter) \in Seq(Name)
        BY <2>4, RangeTail DEF SkipMarked
      <3> QED BY <2>1, <2>4, <3>1 DEF SkipMarked
    <2>5. CASE FindServer
      <3>1. Head(neighbor_iter) \in Name
        BY <2>5, RangeTail DEF FindServer
      <3> QED BY <2>1, <2>5, <3>1 DEF FindServer
    <2>6. CASE Push
      <3>1. Head(neighbor_iter) \in Name
        BY <2>6, RangeTail DEF Push
      <3>2. q' \in Seq(Name)
        BY <2>6, <3>1 DEF Push, Queued
      <3> QED BY <2>1, <2>6, <3>1, <3>2 DEF Push
    <2> QED BY <2>2, <2>3, <2>4, <2>5, <2>6
  <1> QED BY <1>1, <1>2, <1>3

\* And so do the ends of loops and the answers.
LEMMA OtherTypes ==
    ASSUME OspfTypeOK,
           \/ LoopEnds \/ RouteRoundRobin
           \/ \E name \in Name : RouteNearest(name) \/ RouteFails(name)
    PROVE  OspfTypeOK'
  <1> USE DEF OspfTypeOK
  <1>1. /\ UNCHANGED <<fileVars, graphVars, lsa, tokens, searchVars>>
        /\ line' \in {line, 0}
        /\ pc' \in {pc, "route", "LSAs", "clits", "aborted", "crashed"}
        /\ pc # "search" \/ pc' # "search"
    BY DEF LoopEnds, RouteRoundRobin, RouteNearest, RouteFails, loadFrame, parseVars
  <1>2. FilesTyped' /\ GraphTyped' /\ ParseTyped' /\ SearchTyped'
    BY <1>1 DEF FilesTyped, GraphTyped, ParseTyped, SearchTyped,
                fileVars, graphVars, searchVars
  <1>3. RouteTyped'
    <2>1. CASE LoopEnds \/ \E name \in Name : RouteFails(name)
      BY <2>1 DEF LoopEnds, RouteFails, RouteTyped, loadFrame, routeVars
    <2>2. CASE \E name \in Name : RouteNearest(name)
      BY <2>2 DEF RouteNearest, RouteTyped, SearchTyped
    <2>3. CASE RouteRoundRobin
      <3>1. Len(nodes) \in Nat \ {0} /\ query_count \in Nat
        BY <2>3, OspfAssumption DEF RouteRoundRobin, RouteTyped, GraphTyped
      <3>2. (query_count % Len(nodes)) + 1 \in 1 .. Len(nodes)
        BY <3>1
      <3>3. Counted \in 0 .. QueryLimit - 1
        BY <3>1, OspfAssumption DEF Counted
      <3>4. nodes[(query_count % Len(nodes)) + 1] \in Name
        BY <3>2 DEF GraphTyped
      <3> QED BY <2>3, <3>3, <3>4 DEF RouteRoundRobin, RouteTyped
    <2> QED BY <2>1, <2>2, <2>3
  <1> QED BY <1>1, <1>2, <1>3

LEMMA OspfTypes == OspfTypeOK /\ [OspfNext]_ospfVars => OspfTypeOK'
  <1> SUFFICES ASSUME OspfTypeOK, [OspfNext]_ospfVars PROVE OspfTypeOK'
    OBVIOUS
  <1>1. CASE UNCHANGED ospfVars
    BY <1>1 DEF OspfTypeOK, FilesTyped, GraphTyped, ParseTyped, SearchTyped, RouteTyped,
                ospfVars, fileVars, graphVars, parseVars, searchVars, routeVars
  <1> QED BY <1>1, ParseTypes, SearchTypes, OtherTypes DEF OspfNext, OSPF_init

LEMMA InitTypes == OspfInit => OspfTypeOK
  BY OspfAssumption
     DEF OspfInit, OspfTypeOK, FilesTyped, GraphTyped, ParseTyped, SearchTyped, RouteTyped

\* Every variable holds what its type says, in particular no list has an entry
\* that is not a name, and the counter stays in its range.
THEOREM OspfTypeCorrect == OspfSpec => []OspfTypeOK
  <1>1. OspfInit => OspfTypeOK
    BY InitTypes
  <1> QED BY <1>1, OspfTypes, PTL DEF OspfSpec

-----------------------------------------------------------------------------
(* The graph *)

\* GraphSound, with what keeps the list of clients apart from that of servers
\* while servers are added.
GraphInv == GraphSound /\ (pc = "servs" => clits = <<>>)

\* What GraphSound asks of the lists, for the lists that a step of parsing makes.
LEMMA GraphStep ==
    ASSUME OspfTypeOK, GraphInv, [OspfNext]_ospfVars
    PROVE  GraphInv'
  <1> USE DEF GraphInv
  <1>1. CASE UNCHANGED graphVars /\ (pc' = "servs" => pc = "servs")
    BY <1>1 DEF graphVars, GraphSound, Distinct
  <1>2. CASE ReadServer
    <2> DEFINE x == fserv[line + 1]
    <2>1. x \in Name /\ nodes \in Seq(Name) /\ servs \in Seq(Name)
      BY <1>2 DEF ReadServer, OspfTypeOK, FilesTyped, ParseTyped, GraphTyped
    <2>2. /\ nodes' = Added(nodes, x) /\ servs' = Append(servs, x)
          /\ clits' = clits /\ neighbors' = neighbors
          /\ Range(clits) = {}
      BY <1>2, RangeEmpty DEF ReadServer
    <2> HIDE DEF x
    <2>3. Range(servs') = Range(servs) \cup {x}
      BY <2>1, <2>2, RangeAppend
    <2>4. Range(nodes') = Range(nodes) \cup {x} /\ Distinct(nodes')
      <3>1. /\ Range(Added(nodes, x)) = Range(nodes) \cup {x}
            /\ Distinct(nodes) => Distinct(Added(nodes, x))
        BY <2>1, AddedProperties
      <3> QED BY <2>2, <3>1 DEF GraphSound
    <2>5. clits' = <<>>
      BY <1>2, <2>2 DEF ReadServer
    <2> QED BY <2>2, <2>3, <2>4, <2>5 DEF GraphSound
  <1>3. CASE ReadLSA
    <2> DEFINE x == Scanned(fLSA[line + 1]).name
    <2>1. x \in Name /\ nodes \in Seq(Name) /\ clits \in Seq(Name)
      <3>1. fLSA[line + 1] \in Lsa
        BY <1>3 DEF ReadLSA, OspfTypeOK, FilesTyped, ParseTyped
      <3> QED BY <3>1 DEF Scanned, Lsa, OspfTypeOK, GraphTyped
    <2>2. /\ nodes' = Added(nodes, x) /\ servs' = servs /\ pc' # "servs"
          /\ clits' = IF IsClient(x) THEN Added(clits, x) ELSE clits
          /\ neighbors' \in {neighbors, [neighbors EXCEPT ![x] = <<>>]}
      BY <1>3 DEF ReadLSA
    <2> HIDE DEF x
    <2>3. Range(nodes') = Range(nodes) \cup {x} /\ Distinct(nodes')
      <3>1. /\ Range(Added(nodes, x)) = Range(nodes) \cup {x}
            /\ Distinct(nodes) => Distinct(Added(nodes, x))
        BY <2>1, AddedProperties
      <3> QED BY <2>2, <3>1 DEF GraphSound
    <2>4. /\ Distinct(clits') /\ Range(clits') \subseteq Range(clits) \cup {x}
          /\ Range(clits') \cap (Range(servs) \cup Router) = {}
      <3>1. CASE IsClient(x)
        <4>1. Range(clits') = Range(clits) \cup {x} /\ Distinct(clits')
          <5>1. /\ Range(Added(clits, x)) = Range(clits) \cup {x}
                /\ Distinct(clits) => Distinct(Added(clits, x))
            BY <2>1, AddedProperties
          <5> QED BY <2>2, <3>1, <5>1 DEF GraphSound
        <4> QED BY <3>1, <4>1 DEF IsClient, GraphSound
      <3>2. CASE ~IsClient(x)
        BY <2>2, <3>2 DEF GraphSound
      <3> QED BY <3>1, <3>2
    <2>5. ASSUME NEW n \in Name
          PROVE  Distinct(neighbors'[n]) /\ Range(neighbors'[n]) \subseteq Range(nodes)
      <3>1. neighbors'[n] \in {neighbors[n], <<>>}
        BY <2>2 DEF OspfTypeOK, GraphTyped
      <3>2. Distinct(<<>>)
        BY DEF Distinct
      <3> QED BY <3>1, <3>2, RangeEmpty DEF GraphSound
    <2> QED BY <2>2, <2>3, <2>4, <2>5 DEF GraphSound
  <1>4. CASE AddNeighbor
    <2> DEFINE x == Head(tokens)
    <2>1. /\ x \in Name /\ lsa.name \in Name /\ nodes \in Seq(Name)
          /\ neighbors[lsa.name] \in Seq(Name)
      BY <1>4, RangeTail DEF AddNeighbor, OspfTypeOK, ParseTyped, GraphTyped
    <2>2. /\ nodes' = Added(nodes, x) /\ servs' = servs /\ clits' = clits /\ pc' # "servs"
          /\ neighbors' = [neighbors EXCEPT ![lsa.name] = Added(@, x)]
      BY <1>4 DEF AddNeighbor
    <2> HIDE DEF x
    <2>3. Range(nodes') = Range(nodes) \cup {x} /\ Distinct(nodes')
      <3>1. /\ Range(Added(nodes, x)) = Range(nodes) \cup {x}
            /\ Distinct(nodes) => Distinct(Added(nodes, x))
        BY <2>1, AddedProperties
      <3> QED BY <2>2, <3>1 DEF GraphSound
    <2>4. ASSUME NEW n \in Name
          PROVE  Distinct(neighbors'[n]) /\ Range(neighbors'[n]) \subseteq Range(nodes')
      <3>1. CASE n = lsa.name
        <4>1. neighbors'[n] = Added(neighbors[n], x)
          BY <2>1, <2>2, <3>1 DEF OspfTypeOK, GraphTyped
        <4>2. Distinct(neighbors[n]) /\ Range(neighbors[n]) \subseteq Range(nodes)
          BY DEF GraphSound
        <4>3. /\ Range(Added(neighbors[n], x)) = Range(neighbors[n]) \cup {x}
              /\ Distinct(neighbors[n]) => Distinct(Added(neighbors[n], x))
          <5>1. PICK list \in Seq(Name) : list = neighbors[n]
            BY <2>1, <3>1
          <5>2. /\ Range(Added(list, x)) = Range(list) \cup {x}
                /\ Distinct(list) => Distinct(Added(list, x))
            BY <2>1, AddedProperties
          <5> QED BY <5>1, <5>2
        <4> QED BY <2>3, <4>1, <4>2, <4>3
      <3>2. CASE n # lsa.name
        <4>1. neighbors'[n] = neighbors[n]
          BY <2>1, <2>2, <3>2 DEF OspfTypeOK, GraphTyped
        <4> QED BY <2>3, <4>1 DEF GraphSound
      <3> QED BY <3>1, <3>2
    <2> QED BY <2>2, <2>3, <2>4 DEF GraphSound
  <1>5. CASE NextClient \/ Pop \/ SkipMarked \/ FindServer \/ Push
    BY <1>1, <1>5 DEF NextClient, Pop, SkipMarked, FindServer, Push, searchFrame
  <1>6. CASE LoopEnds \/ RouteRoundRobin
             \/ \E name \in Name : RouteNearest(name) \/ RouteFails(name)
    BY <1>1, <1>6 DEF LoopEnds, RouteRoundRobin, RouteNearest, RouteFails
  <1>7. CASE UNCHANGED ospfVars
    BY <1>1, <1>7 DEF ospfVars
  <1> QED BY <1>2, <1>3, <1>4, <1>5, <1>6, <1>7 DEF OspfNext, OSPF_init

LEMMA InitGraph == OspfInit => GraphInv
  <1> SUFFICES ASSUME OspfInit PROVE GraphInv
    OBVIOUS
  <1>1. Distinct(<<>>)
    BY DEF Distinct
  <1> QED BY <1>1, RangeEmpty DEF OspfInit, GraphInv, GraphSound

\* The lists agree with each other whatever the files hold: one entry for a name,
\* every list inside nodes, and no client among the servers or routers.
THEOREM OspfGraphSound == OspfSpec => []GraphSound
  <1>1. OspfInit => OspfTypeOK /\ GraphInv
    BY InitTypes, InitGraph
  <1>2. OspfTypeOK /\ GraphInv /\ [OspfNext]_ospfVars => (OspfTypeOK /\ GraphInv)'
    BY OspfTypes, GraphStep
  <1>3. GraphInv => GraphSound
    BY DEF GraphInv
  <1> QED BY <1>1, <1>2, <1>3, PTL DEF OspfSpec

-----------------------------------------------------------------------------
(* The search *)

\* Reachable, as a function of the lists of neighbours.
Reach(nb, c) ==
    {n \in Name : \A S \in SUBSET Name :
        c \in S /\ (\A m \in S : Range(nb[m]) \subseteq S) => n \in S}

\* A node that is marked can be reached and is no server, and when it has left the
\* queue its neighbours are marked or still to be looked at: so an empty queue
\* leaves a closed set without a server.
SearchInv ==
    /\ mark \subseteq Range(nodes)
    /\ pc \in {"search", "aborted"} =>
         /\ clit > 0 /\ clits[clit] \in mark
         /\ mark \subseteq Reach(neighbors, clits[clit])
         /\ mark \cap Range(servs) = {}
         /\ Range(q) \subseteq mark
         /\ Range(neighbor_iter) \subseteq Range(nodes) \cap Reach(neighbors, clits[clit])
         /\ \A n \in mark : n \in Range(q) \/ Range(neighbors[n]) \subseteq mark \cup Range(neighbor_iter)
    /\ pc = "aborted" => q = <<>> /\ neighbor_iter = <<>>

\* How far the search is, and that round robin makes none.
PhaseInv ==
    /\ pc \in {"servs", "LSAs", "neighbors"} => clit = 0 /\ mark = {}
    /\ pc = "route" /\ ~rr_flag => clit = Len(clits)
    /\ rr_flag => pc \in {"servs", "route", "crashed"} /\ clit = 0
    /\ pc = "servs" \/ rr_flag => Range(nodes) \subseteq Range(servs)

\* Clients that the search is done with have a server that they can reach.
RoutedInv ==
    /\ answer # NULL => answer \in Range(servs)
    /\ \A i \in 1 .. Len(clits) : i < clit \/ (i = clit /\ pc \in {"clits", "route"}) =>
          routing_table[clits[i]] \in Range(servs) \cap Reach(neighbors, clits[i])

OspfInv == OspfTypeOK /\ GraphInv /\ SearchInv /\ PhaseInv /\ RoutedInv

\* What OspfInv says of types, for the leaves that need no more.
LEMMA Lists ==
    ASSUME OspfInv
    PROVE  /\ nodes \in Seq(Name) /\ servs \in Seq(Name) /\ clits \in Seq(Name)
           /\ q \in Seq(Name) /\ neighbor_iter \in Seq(Name) /\ tokens \in Seq(Name)
           /\ neighbors \in [Name -> Seq(Name)] /\ routing_table \in [Name -> Name \cup {NULL}]
           /\ \A n \in Name : Range(neighbors[n]) \subseteq Name
           /\ clit \in 0 .. Len(clits) /\ mark \subseteq Name
           /\ \A i \in 1 .. Len(clits) : clits[i] \in Name /\ clits[i] \in Range(clits)
  <1>1. neighbors \in [Name -> Seq(Name)] /\ clits \in Seq(Name)
    BY DEF OspfInv, OspfTypeOK, GraphTyped
  <1>2. \A n \in Name : Range(neighbors[n]) \subseteq Name
    BY <1>1, RangeSeq
  <1>3. \A i \in 1 .. Len(clits) : clits[i] \in Name /\ clits[i] \in Range(clits)
    BY <1>1, RangeSeq
  <1> QED BY <1>1, <1>2, <1>3 DEF OspfInv, OspfTypeOK, GraphTyped, SearchTyped, ParseTyped

\* Reach(nb, c) holds c and the neighbours of its members, and is the least such set.
LEMMA ReachProperties ==
    ASSUME NEW nb, NEW c \in Name, \A n \in Name : Range(nb[n]) \subseteq Name
    PROVE  /\ c \in Reach(nb, c) /\ Reach(nb, c) \subseteq Name
           /\ \A n \in Reach(nb, c) : Range(nb[n]) \subseteq Reach(nb, c)
           /\ \A S \in SUBSET Name :
                c \in S /\ (\A m \in S : Range(nb[m]) \subseteq S) => Reach(nb, c) \subseteq S
  <1>1. ASSUME NEW n \in Reach(nb, c), NEW x \in Range(nb[n])
        PROVE  x \in Reach(nb, c)
    <2>1. n \in Name /\ x \in Name
      BY <1>1 DEF Reach
    <2>2. ASSUME NEW S \in SUBSET Name, c \in S, \A m \in S : Range(nb[m]) \subseteq S
          PROVE  x \in S
      BY <1>1, <2>2 DEF Reach
    <2> QED BY <2>1, <2>2 DEF Reach
  <1> QED BY <1>1 DEF Reach

\* Reading the files keeps the invariant.
LEMMA ParseStep ==
    ASSUME OspfInv, ReadServer \/ ReadLSA \/ AddNeighbor
    PROVE  SearchInv' /\ PhaseInv' /\ RoutedInv'
  <1>1. /\ pc \in {"servs", "LSAs", "neighbors"} /\ pc' \in {pc, "neighbors"}
        /\ (pc' = "servs" <=> pc = "servs") /\ (pc = "servs" <=> ReadServer)
        /\ rr_flag' = rr_flag /\ clit' = clit /\ mark' = mark /\ answer' = answer
    BY DEF ReadServer, ReadLSA, AddNeighbor, loadFrame, fileVars, searchVars, routeVars
  <1>2. clit = 0 /\ mark = {} /\ (rr_flag => pc = "servs")
    BY <1>1 DEF OspfInv, PhaseInv
  <1>3. SearchInv'
    BY <1>1, <1>2 DEF SearchInv
  <1>4. Range(servs) \subseteq Range(servs')
        /\ (pc = "servs" => Range(nodes') \subseteq Range(servs'))
    <2>1. CASE ReadServer
      <3> DEFINE x == fserv[line + 1]
      <3>1. x \in Name
        BY <2>1 DEF ReadServer, OspfInv, OspfTypeOK, FilesTyped, ParseTyped
      <3>2. nodes' = Added(nodes, x) /\ servs' = Append(servs, x)
        BY <2>1 DEF ReadServer
      <3> HIDE DEF x
      <3>3. /\ Range(Added(nodes, x)) = Range(nodes) \cup {x}
            /\ Range(Append(servs, x)) = Range(servs) \cup {x}
        <4>1. nodes \in Seq(Name) /\ servs \in Seq(Name)
          BY Lists
        <4> QED BY <3>1, <4>1, AddedProperties, RangeAppend
      <3> QED BY <1>1, <3>2, <3>3 DEF OspfInv, PhaseInv
    <2>2. CASE ReadLSA \/ AddNeighbor
      BY <1>1, <2>2 DEF ReadServer, ReadLSA, AddNeighbor
    <2> QED BY <2>1, <2>2
  <1>5. PhaseInv'
    BY <1>1, <1>2, <1>4 DEF PhaseInv
  <1>6. RoutedInv'
    BY <1>1, <1>2, <1>4 DEF OspfInv, RoutedInv
  <1> QED BY <1>3, <1>5, <1>6

\* So does every step of the search.
LEMMA SearchStep ==
    ASSUME OspfInv, NextClient \/ Pop \/ SkipMarked \/ FindServer \/ Push
    PROVE  SearchInv' /\ PhaseInv' /\ RoutedInv'
  <1> DEFINE c == clits[clit]
  <1>1. /\ pc \in {"clits", "search"} /\ pc' \in {"clits", "search"} /\ ~rr_flag
        /\ UNCHANGED <<rr_flag, nodes, servs, clits, neighbors, answer>>
    BY DEF NextClient, Pop, SkipMarked, FindServer, Push, OspfInv, PhaseInv,
           searchFrame, fileVars, graphVars, routeVars
  <1>2. PhaseInv'
    BY <1>1 DEF PhaseInv
  <1>3. CASE NextClient
    <2> DEFINE d == clits[clit + 1]
    <2>1. /\ clit + 1 \in 1 .. Len(clits) /\ clit' = clit + 1 /\ pc = "clits" /\ pc' = "search"
          /\ routing_table' = routing_table
      BY <1>3, Lists DEF NextClient
    <2>2. d \in Name /\ d \in Range(clits) /\ d \in Range(nodes) /\ d \notin Range(servs)
      BY <2>1, Lists DEF OspfInv, GraphInv, GraphSound
    <2>3. mark' = {d} /\ q' = <<d>> /\ neighbor_iter' = <<>>
      BY <1>3, <2>1 DEF NextClient, Unmarked, OspfInv, SearchInv
    <2>4. Range(<<d>>) = {d}
      BY DEF Range
    <2>5. d \in Reach(neighbors, d)
      BY <2>2, Lists, ReachProperties
    <2>6. SearchInv'
      BY <1>1, <2>1, <2>2, <2>3, <2>4, <2>5, RangeEmpty DEF SearchInv
    <2>7. RoutedInv'
      BY <1>1, <2>1, Lists DEF OspfInv, RoutedInv
    <2> QED BY <1>2, <2>6, <2>7
  <1>4. ASSUME pc = "search", clit' = clit
        PROVE  /\ clit \in 1 .. Len(clits) /\ c \in Name /\ c' = c
               /\ \A n \in Reach(neighbors, c) : Range(neighbors[n]) \subseteq Reach(neighbors, c)
    <2>1. clit \in 1 .. Len(clits)
      BY <1>4, Lists DEF OspfInv, SearchInv
    <2>2. c \in Name /\ c' = c
      BY <1>1, <1>4, <2>1, Lists
    <2> QED BY <2>1, <2>2, Lists, ReachProperties
  <1>5. ASSUME clit' = clit, routing_table' = routing_table, pc = "search", pc' = "search"
        PROVE  RoutedInv'
    BY <1>1, <1>5, Lists DEF OspfInv, RoutedInv
  <1>6. CASE Pop
    <2> DEFINE h == Head(q)
    <2>1. /\ pc = "search" /\ pc' = "search" /\ clit' = clit /\ mark' = mark
          /\ routing_table' = routing_table /\ q # <<>> /\ neighbor_iter = <<>>
          /\ neighbor_iter' = neighbors[h] /\ q' = Tail(q)
      BY <1>6 DEF Pop, Rest
    <2>2. Range(q) = {h} \cup Range(q') /\ h \in Name
      BY <2>1, Lists, RangeTail
    <2>3. h \in mark /\ h \in Reach(neighbors, c)
      BY <2>1, <2>2 DEF OspfInv, SearchInv
    <2>4. Range(neighbors[h]) \subseteq Range(nodes) \cap Reach(neighbors, c)
      BY <1>4, <2>1, <2>2, <2>3 DEF OspfInv, GraphInv, GraphSound
    <2>5. SearchInv'
      BY <1>1, <2>1, <2>2, <2>3, <2>4, RangeEmpty DEF OspfInv, SearchInv
    <2> QED BY <1>2, <1>5, <2>1, <2>5
  <1>7. CASE SkipMarked
    <2>1. /\ pc = "search" /\ pc' = "search" /\ clit' = clit /\ mark' = mark /\ q' = q
          /\ routing_table' = routing_table /\ neighbor_iter # <<>>
          /\ neighbor_iter' = Tail(neighbor_iter) /\ Head(neighbor_iter) \in mark
      BY <1>7 DEF SkipMarked
    <2>2. Range(neighbor_iter) = {Head(neighbor_iter)} \cup Range(neighbor_iter')
      BY <2>1, Lists, RangeTail
    <2>3. SearchInv'
      BY <1>1, <2>1, <2>2 DEF OspfInv, SearchInv
    <2> QED BY <1>2, <1>5, <2>1, <2>3
  <1>8. CASE Push
    <2> DEFINE h == Head(neighbor_iter)
    <2>1. /\ pc = "search" /\ pc' = "search" /\ clit' = clit /\ mark' = mark \cup {h}
          /\ routing_table' = routing_table /\ neighbor_iter # <<>>
          /\ neighbor_iter' = neighbor_iter /\ q' = Append(q, h) /\ h \notin Range(servs)
      BY <1>8 DEF Push, Queued, IsServer
    <2>2. h \in Range(neighbor_iter) /\ h \in Name
      BY <2>1, Lists, RangeTail
    <2>3. Range(q') = Range(q) \cup {h}
      BY <2>1, <2>2, Lists, RangeAppend
    <2>4. h \in Range(nodes) /\ h \in Reach(neighbors, c)
      BY <2>1, <2>2 DEF OspfInv, SearchInv
    <2>5. SearchInv'
      BY <1>1, <2>1, <2>3, <2>4 DEF OspfInv, SearchInv
    <2> QED BY <1>2, <1>5, <2>1, <2>5
  <1>9. CASE FindServer
    <2> DEFINE h == Head(neighbor_iter)
    <2>1. /\ pc = "search" /\ pc' = "clits" /\ clit' = clit /\ mark' = mark
          /\ routing_table' = [routing_table EXCEPT ![c] = h]
          /\ neighbor_iter # <<>> /\ h \in Range(servs)
      BY <1>9 DEF FindServer, IsServer
    <2>2. h \in Range(neighbor_iter)
      BY <2>1, Lists, RangeTail
    <2>3. h \in Reach(neighbors, c)
      BY <2>1, <2>2 DEF OspfInv, SearchInv
    <2>4. SearchInv'
      BY <1>1, <2>1 DEF OspfInv, SearchInv
    <2>5. ASSUME NEW i \in 1 .. Len(clits), i < clit \/ i = clit
          PROVE  routing_table'[clits[i]] \in Range(servs) \cap Reach(neighbors, clits[i])
      <3>1. CASE i = clit
        <4>1. routing_table'[clits[i]] = h
          BY <1>4, <2>1, <3>1, Lists
        <4> QED BY <2>1, <2>3, <3>1, <4>1
      <3>2. CASE i < clit
        <4>1. clits[i] # c
          BY <1>4, <2>1, <3>2, Lists DEF OspfInv, GraphInv, GraphSound, Distinct
        <4>2. routing_table'[clits[i]] = routing_table[clits[i]]
          BY <2>1, <4>1, Lists
        <4> QED BY <3>2, <4>2 DEF OspfInv, RoutedInv
      <3> QED BY <2>5, <3>1, <3>2
    <2>6. RoutedInv'
      BY <1>1, <2>1, <2>5 DEF OspfInv, RoutedInv
    <2> QED BY <1>2, <2>4, <2>6
  <1> QED BY <1>3, <1>6, <1>7, <1>8, <1>9

\* So do the ends of the loops,
LEMMA EndStep ==
    ASSUME OspfInv, LoopEnds
    PROVE  SearchInv' /\ PhaseInv' /\ RoutedInv'
  <1>1. /\ UNCHANGED <<rr_flag, nodes, servs, clits, neighbors, clit, mark, q, neighbor_iter,
                       routing_table, answer>>
        /\ \/ pc = "servs" /\ pc' = IF rr_flag THEN "route" ELSE "LSAs"
           \/ pc = "neighbors" /\ pc' = "LSAs"
           \/ pc = "LSAs" /\ pc' = "clits"
           \/ pc = "clits" /\ clit = Len(clits) /\ pc' = "route"
           \/ pc = "search" /\ neighbor_iter = <<>> /\ q = <<>> /\ pc' = "aborted"
    BY DEF LoopEnds, loadFrame, fileVars, graphVars, searchVars, routeVars
  <1>2. SearchInv'
    BY <1>1 DEF OspfInv, SearchInv
  <1>3. PhaseInv'
    BY <1>1 DEF OspfInv, PhaseInv
  <1>4. RoutedInv'
    BY <1>1 DEF OspfInv, RoutedInv, PhaseInv
  <1> QED BY <1>2, <1>3, <1>4

\* and the answers.
LEMMA RouteStep ==
    ASSUME OspfInv,
           RouteRoundRobin \/ \E name \in Name : RouteNearest(name) \/ RouteFails(name)
    PROVE  SearchInv' /\ PhaseInv' /\ RoutedInv'
  <1>1. /\ UNCHANGED <<rr_flag, nodes, servs, clits, neighbors, clit, mark, routing_table>>
        /\ pc = "route" /\ pc' \in {"route", "crashed"}
    BY DEF RouteRoundRobin, RouteNearest, RouteFails, loadFrame, fileVars, graphVars, searchVars
  <1>2. SearchInv' /\ PhaseInv'
    BY <1>1 DEF OspfInv, SearchInv, PhaseInv
  <1>3. answer' # NULL => answer' \in Range(servs)
    <2>1. CASE RouteRoundRobin
      <3>1. rr_flag /\ nodes # <<>> /\ answer' = nodes[(query_count % Len(nodes)) + 1]
        BY <2>1 DEF RouteRoundRobin
      <3>2. Len(nodes) \in Nat \ {0} /\ query_count \in Nat
        BY <3>1, Lists, OspfAssumption DEF OspfInv, OspfTypeOK, RouteTyped
      <3>3. (query_count % Len(nodes)) + 1 \in 1 .. Len(nodes)
        BY <3>2
      <3>4. answer' \in Range(nodes)
        BY <3>1, <3>3, Lists, RangeSeq
      <3> QED BY <3>1, <3>4 DEF OspfInv, PhaseInv
    <2>2. CASE \E name \in Name : RouteNearest(name)
      <3>1. PICK name \in Range(clits) : ~rr_flag /\ answer' = routing_table[name]
        BY <2>2 DEF RouteNearest
      <3>2. PICK i \in 1 .. Len(clits) : name = clits[i]
        BY <3>1, Lists DEF Range
      <3>3. i < clit \/ i = clit
        BY <1>1, <3>1, Lists DEF OspfInv, PhaseInv
      <3> QED BY <1>1, <3>1, <3>2, <3>3 DEF OspfInv, RoutedInv
    <2>3. CASE \E name \in Name : RouteFails(name)
      BY <2>3 DEF RouteFails, loadFrame, routeVars, OspfInv, RoutedInv
    <2> QED BY <2>1, <2>2, <2>3
  <1>4. RoutedInv'
    BY <1>1, <1>3 DEF OspfInv, RoutedInv
  <1> QED BY <1>2, <1>4

LEMMA OspfStep == OspfInv /\ [OspfNext]_ospfVars => OspfInv'
  <1> SUFFICES ASSUME OspfInv, [OspfNext]_ospfVars PROVE OspfInv'
    OBVIOUS
  <1>1. OspfTypeOK' /\ GraphInv'
    BY OspfTypes, GraphStep DEF OspfInv
  <1>2. SearchInv' /\ PhaseInv' /\ RoutedInv'
    <2>1. CASE UNCHANGED ospfVars
      BY <2>1 DEF OspfInv, SearchInv, PhaseInv, RoutedInv,
                  ospfVars, fileVars, graphVars, searchVars, routeVars
    <2> QED BY <2>1, ParseStep, SearchStep, EndStep, RouteStep DEF OspfNext, OSPF_init
  <1> QED BY <1>1, <1>2 DEF OspfInv

LEMMA InitOspf == OspfInit => OspfInv
  <1> SUFFICES ASSUME OspfInit PROVE OspfInv
    OBVIOUS
  <1>1. OspfTypeOK /\ GraphInv
    BY InitTypes, InitGraph
  <1>2. SearchInv /\ PhaseInv /\ RoutedInv
    BY RangeEmpty DEF OspfInit, SearchInv, PhaseInv, RoutedInv
  <1> QED BY <1>1, <1>2 DEF OspfInv

LEMMA ReachableIsReach == \A c : Reachable(c) = Reach(neighbors, c)
  BY DEF Reachable, Neighbors, Reach

\* The search is complete: assert(0) is reached only when the lists of neighbours
\* lead from the client to no server.  The nodes marked are the closed set that
\* shows it.
THEOREM OspfAbortJustified == OspfSpec => []AbortJustified
  <1>1. ASSUME OspfInv PROVE AbortJustified
    <2> SUFFICES ASSUME pc = "aborted"
                 PROVE  Reach(neighbors, clits[clit]) \cap Range(servs) = {}
      BY ReachableIsReach DEF AbortJustified
    <2>1. /\ clit \in 1 .. Len(clits) /\ clits[clit] \in mark /\ mark \cap Range(servs) = {}
          /\ \A n \in mark : Range(neighbors[n]) \subseteq mark
      <3>1. clit \in 1 .. Len(clits)
        BY <1>1, Lists DEF OspfInv, SearchInv
      <3>2. Range(q) = {} /\ Range(neighbor_iter) = {}
        BY <1>1, RangeEmpty DEF OspfInv, SearchInv
      <3> QED BY <1>1, <3>1, <3>2 DEF OspfInv, SearchInv
    <2>2. mark \in SUBSET Name /\ clits[clit] \in Name
      BY <1>1, <2>1, Lists
    <2>3. Reach(neighbors, clits[clit]) \subseteq mark
      <3>1. \A n \in Name : Range(neighbors[n]) \subseteq Name
        BY <1>1, Lists
      <3>2. PICK c \in Name : c = clits[clit]
        BY <2>2
      <3>3. Reach(neighbors, c) \subseteq mark
        BY <2>1, <2>2, <3>1, <3>2, ReachProperties
      <3> QED BY <3>2, <3>3
    <2> QED BY <2>1, <2>3
  <1> QED BY <1>1, InitOspf, OspfStep, PTL DEF OspfSpec

\* The search and the round robin are sound: a client's server is one of the file
\* of servers and the lists of neighbours lead to it, and every answer is a server.
THEOREM OspfRouted == OspfSpec => []RoutedToServers
  <1>1. ASSUME OspfInv PROVE RoutedToServers
    <2>1. ASSUME pc = "route", ~rr_flag, NEW c \in Range(clits)
          PROVE  routing_table[c] \in Range(servs) \cap Reachable(c)
      <3>1. PICK i \in 1 .. Len(clits) : c = clits[i]
        <4>1. DOMAIN clits = 1 .. Len(clits)
          BY <1>1, Lists
        <4> QED BY <2>1, <4>1 DEF Range
      <3>2. i < clit \/ i = clit
        BY <1>1, <2>1, Lists DEF OspfInv, PhaseInv
      <3>3. routing_table[c] \in Range(servs) \cap Reach(neighbors, c)
        BY <1>1, <2>1, <3>1, <3>2 DEF OspfInv, RoutedInv
      <3> QED BY <3>3, ReachableIsReach
    <2> QED BY <1>1, <2>1 DEF OspfInv, RoutedInv, RoutedToServers
  <1> QED BY <1>1, InitOspf, OspfStep, PTL DEF OspfSpec

-----------------------------------------------------------------------------
(* The advertisements *)

Complete == \A i \in DOMAIN fLSA : fLSA[i].fields = 3

\* Lines of the second file read so far.
LinesRead == IF pc = "servs" THEN 0 ELSE line

\* Line i is the first of those with the highest number that n has in the first k.
Newest(n, k, i) ==
    /\ fLSA[i].name = n
    /\ \A j \in 1 .. k : fLSA[j].name = n =>
          \/ fLSA[j].seq_num < fLSA[i].seq_num
          \/ fLSA[j].seq_num = fLSA[i].seq_num /\ i <= j

\* What parse_LSA has still to add to the neighbours of n.
Coming(n) == IF pc = "neighbors" /\ n = lsa.name THEN Range(tokens) ELSE {}

\* A node has the number and the neighbours of its newest line among those read.
UpToDate(n, k) ==
    \/ /\ \A i \in 1 .. k : fLSA[i].name # n
       /\ seq_num[n] = -1 /\ neighbors[n] = <<>> /\ Coming(n) = {}
    \/ \E i \in 1 .. k :
          /\ Newest(n, k, i)
          /\ seq_num[n] = fLSA[i].seq_num
          /\ Range(neighbors[n]) \cup Coming(n) = Range(fLSA[i].neighbors)

LatestInv ==
    /\ pc \in {"LSAs", "neighbors", "clits", "search"} => line \in 0 .. Len(fLSA)
    /\ pc \in {"clits", "search"} => line = Len(fLSA)
    /\ Complete /\ pc \in {"servs", "LSAs", "neighbors", "clits", "search"} =>
          \A n \in Name : UpToDate(n, LinesRead)

\* A step that leaves the graph alone, and goes on after parsing, keeps it.
LEMMA LatestIdle ==
    ASSUME LatestInv, UNCHANGED <<fLSA, line, seq_num, neighbors>>, pc # "neighbors",
           pc' # "neighbors", pc # "servs",
           pc' \in {"LSAs", "clits", "search"} => pc \in {"LSAs", "clits", "search"},
           pc' \in {"clits", "search"} => line = Len(fLSA), pc' # "servs"
    PROVE  LatestInv'
<1>1. ASSUME Complete, pc' \in {"LSAs", "clits", "search"}, NEW n \in Name
      PROVE  UpToDate(n, LinesRead)'
  <2>1. UpToDate(n, LinesRead) /\ LinesRead' = LinesRead /\ Coming(n)' = Coming(n)
    BY <1>1 DEF LatestInv, LinesRead, Coming
  <2> QED BY <2>1 DEF UpToDate, Newest
<1> QED BY <1>1 DEF LatestInv, Complete

\* An advertisement is read as the newest of its sender, or it is none.
LEMMA LatestRead ==
    ASSUME OspfTypeOK, LatestInv, ReadLSA
    PROVE  LatestInv'
<1>0. PICK k : k = line
  OBVIOUS
<1>a. PICK a : a = fLSA[k + 1]
  OBVIOUS
<1>b. PICK l : l = Scanned(a)
  OBVIOUS
<1>1. /\ pc = "LSAs" /\ k \in Nat /\ k < Len(fLSA) /\ line' = k + 1 /\ fLSA' = fLSA
      /\ fLSA \in Seq(Lsa) /\ pc' \in {"LSAs", "neighbors"}
  BY <1>0 DEF ReadLSA, OspfTypeOK, ParseTyped, FilesTyped, loadFrame, fileVars
<1>2. line' \in 0 .. Len(fLSA) /\ k + 1 \in DOMAIN fLSA /\ a \in Lsa
  BY <1>a, <1>1
<1>c. /\ ~Newer(l) => lsa' = l /\ UNCHANGED <<pc, seq_num, neighbors, tokens>>
      /\ Newer(l) => /\ lsa' = Tokenized(l) /\ pc' = "neighbors" /\ tokens' = l.neighbors
                     /\ seq_num' = [seq_num EXCEPT ![l.name] = l.seq_num]
                     /\ neighbors' = [neighbors EXCEPT ![l.name] = <<>>]
      /\ lsa'.name = l.name
  <2>1. line' = line + 1 /\ l = Scanned(fLSA[line'])
    BY <1>0, <1>a, <1>b DEF ReadLSA
  <2>2. /\ ~Newer(l) => lsa' = l /\ UNCHANGED <<pc, seq_num, neighbors, tokens>>
        /\ Newer(l) => /\ lsa' = Tokenized(l) /\ pc' = "neighbors" /\ tokens' = l.neighbors
                       /\ seq_num' = [seq_num EXCEPT ![l.name] = l.seq_num]
                       /\ neighbors' = [neighbors EXCEPT ![l.name] = <<>>]
    BY <2>1 DEF ReadLSA
  <2>3. Tokenized(l).name = l.name
    BY <1>b DEF Tokenized, Scanned
  <2> QED BY <2>2, <2>3
<1>3. ASSUME Complete, NEW n \in Name PROVE UpToDate(n, k + 1)'
  <2>1. a.fields = 3 /\ a.name \in Name /\ a.seq_num \in Nat /\ a.neighbors \in Seq(Name)
    BY <1>2, <1>3, <1>a DEF Complete, Lsa
  <2>2. l.name = a.name /\ l.seq_num = a.seq_num /\ l.neighbors = a.neighbors
    BY <1>b, <2>1 DEF Scanned
  <2>3. UpToDate(n, k)
    BY <1>0, <1>1, <1>3 DEF LatestInv, LinesRead
  <2>4. \A i \in 1 .. k + 1 : i \in 1 .. k \/ i = k + 1
    BY <1>1
  <2>5. \A i \in 1 .. k : i \in 1 .. k + 1 /\ i <= k + 1 /\ fLSA[i].seq_num \in Nat
    <3>1. ASSUME NEW i \in 1 .. k PROVE fLSA[i] \in Lsa /\ i \in 1 .. k + 1 /\ i <= k + 1
      BY <1>1
    <3> QED BY <3>1 DEF Lsa
  <2>6. Coming(n) = {}
    BY <1>1 DEF Coming
  <2>7. ASSUME seq_num'[n] = seq_num[n], neighbors'[n] = neighbors[n], Coming(n)' = {},
               a.name # n \/ ~(seq_num[n] < a.seq_num)
        PROVE  UpToDate(n, k + 1)'
    <3>1. CASE \A i \in 1 .. k : fLSA[i].name # n
      <4>1. seq_num[n] = -1 /\ neighbors[n] = <<>>
        BY <2>3, <3>1 DEF UpToDate, Newest
      <4>2. a.name # n
        BY <2>1, <2>7, <4>1
      <4>3. \A i \in 1 .. k + 1 : fLSA[i].name # n
        BY <1>a, <2>4, <3>1, <4>2
      <4> QED BY <1>1, <2>7, <4>1, <4>3 DEF UpToDate
    <3>2. CASE \E i \in 1 .. k : fLSA[i].name = n
      <4>1. PICK i \in 1 .. k : /\ Newest(n, k, i)
                                /\ seq_num[n] = fLSA[i].seq_num
                                /\ Range(neighbors[n]) = Range(fLSA[i].neighbors)
        BY <2>3, <2>6, <3>2 DEF UpToDate
      <4>2. Newest(n, k + 1, i)
        <5>1. ASSUME a.name = n
              PROVE  \/ a.seq_num < fLSA[i].seq_num
                     \/ a.seq_num = fLSA[i].seq_num /\ i <= k + 1
          BY <2>1, <2>5, <2>7, <4>1, <5>1
        <5> QED BY <1>a, <2>4, <4>1, <5>1 DEF Newest
      <4> QED BY <1>1, <2>5, <2>7, <4>1, <4>2 DEF UpToDate, Newest
    <3> QED BY <3>1, <3>2
  <2>8. CASE a.name # n
    <3>1. seq_num'[n] = seq_num[n] /\ neighbors'[n] = neighbors[n]
      BY <1>c, <2>1, <2>2, <2>8 DEF OspfTypeOK, GraphTyped
    <3>2. Coming(n)' = {}
      BY <1>c, <2>2, <2>8 DEF Coming
    <3> QED BY <2>7, <2>8, <3>1, <3>2
  <2>9. CASE a.name = n /\ ~(seq_num[n] < a.seq_num)
    <3>1. ~Newer(l)
      BY <2>2, <2>9 DEF Newer
    <3>2. pc' = "LSAs" /\ seq_num' = seq_num /\ neighbors' = neighbors
      BY <1>1, <1>c, <3>1
    <3> QED BY <2>7, <2>9, <3>2 DEF Coming
  <2>a. CASE a.name = n /\ seq_num[n] < a.seq_num
    <3>1. Newer(l)
      BY <2>2, <2>a DEF Newer
    <3>2. /\ pc' = "neighbors" /\ seq_num' = [seq_num EXCEPT ![n] = a.seq_num]
          /\ neighbors' = [neighbors EXCEPT ![n] = <<>>] /\ tokens' = a.neighbors
          /\ lsa'.name = n
      BY <1>c, <2>2, <2>a, <3>1
    <3>3. seq_num'[n] = a.seq_num /\ neighbors'[n] = <<>> /\ Coming(n)' = Range(a.neighbors)
      BY <3>2 DEF Coming, OspfTypeOK, GraphTyped
    <3>4. \A i \in 1 .. k : fLSA[i].name = n => fLSA[i].seq_num < a.seq_num
      <4>1. CASE \A i \in 1 .. k : fLSA[i].name # n
        BY <4>1
      <4>2. CASE \E i \in 1 .. k : Newest(n, k, i) /\ seq_num[n] = fLSA[i].seq_num
        BY <2>1, <2>5, <2>a, <4>2 DEF Newest
      <4> QED BY <2>3, <4>1, <4>2 DEF UpToDate
    <3>5. Newest(n, k + 1, k + 1)
      BY <1>a, <1>1, <2>4, <2>a, <3>4 DEF Newest
    <3>6. k + 1 \in 1 .. k + 1
      BY <1>1
    <3>7. /\ Newest(n, k + 1, k + 1)' /\ fLSA'[k + 1] = a
          /\ Range(neighbors'[n]) \cup Coming(n)' = Range(a.neighbors)
      BY <1>1, <1>a, <3>3, <3>5, RangeEmpty DEF Newest
    <3> QED BY <3>3, <3>6, <3>7 DEF UpToDate
  <2> QED BY <2>8, <2>9, <2>a
<1>4. LinesRead' = k + 1
  BY <1>1 DEF LinesRead
<1>5. ASSUME Complete, NEW n \in Name PROVE UpToDate(n, LinesRead)'
  BY <1>3, <1>4, <1>5 DEF UpToDate, Newest
<1> QED BY <1>1, <1>2, <1>5 DEF LatestInv, Complete

LEMMA LatestAdd ==
    ASSUME OspfTypeOK, LatestInv, AddNeighbor
    PROVE  LatestInv'
<1>1. /\ pc = "neighbors" /\ pc' = "neighbors" /\ UNCHANGED <<fLSA, line, seq_num>>
      /\ lsa' = lsa /\ tokens # <<>> /\ tokens' = Tail(tokens) /\ lsa.name \in Name
      /\ tokens \in Seq(Name) /\ neighbors \in [Name -> Seq(Name)]
      /\ neighbors' = [neighbors EXCEPT ![lsa.name] = Added(@, Head(tokens))]
  BY DEF AddNeighbor, OspfTypeOK, ParseTyped, GraphTyped, loadFrame, fileVars
<1>2. ASSUME Complete, NEW n \in Name PROVE UpToDate(n, LinesRead)'
  <2>1. UpToDate(n, LinesRead) /\ LinesRead' = LinesRead
    BY <1>1, <1>2 DEF LatestInv, LinesRead
  <2>2. Range(neighbors'[n]) \cup Coming(n)' = Range(neighbors[n]) \cup Coming(n)
    <3>1. CASE n # lsa.name
      BY <1>1, <3>1 DEF Coming
    <3>2. CASE n = lsa.name
      <4>1. PICK list \in Seq(Name) : list = neighbors[n]
        BY <1>1
      <4>2. Range(tokens) = {Head(tokens)} \cup Range(Tail(tokens)) /\ Head(tokens) \in Name
        BY <1>1, RangeTail
      <4>3. Range(Added(list, Head(tokens))) = Range(list) \cup {Head(tokens)}
        <5>1. PICK h \in Name : h = Head(tokens)
          BY <4>2
        <5>2. Range(Added(list, h)) = Range(list) \cup {h}
          BY AddedProperties
        <5> QED BY <5>1, <5>2
      <4>4. neighbors'[n] = Added(list, Head(tokens))
        BY <1>1, <3>2, <4>1
      <4>5. Coming(n)' = Range(Tail(tokens)) /\ Coming(n) = Range(tokens)
        BY <1>1, <3>2 DEF Coming
      <4> QED BY <4>1, <4>2, <4>3, <4>4, <4>5
    <3> QED BY <3>1, <3>2
  <2>3. CASE \A i \in 1 .. LinesRead : fLSA[i].name # n
    <3>1. seq_num[n] = -1 /\ neighbors[n] = <<>>
      BY <2>1, <2>3 DEF UpToDate, Newest
    <3>2. n # lsa.name
      <4>1. Head(tokens) \in Range(tokens)
        BY <1>1, RangeTail
      <4> QED BY <1>1, <2>1, <2>3, <4>1 DEF UpToDate, Newest, Coming
    <3>3. neighbors'[n] = <<>> /\ Coming(n)' = {} /\ seq_num'[n] = -1
      BY <1>1, <3>1, <3>2 DEF Coming
    <3> QED BY <1>1, <2>1, <2>3, <3>3 DEF UpToDate
  <2>4. CASE \E i \in 1 .. LinesRead :
                /\ Newest(n, LinesRead, i)
                /\ seq_num[n] = fLSA[i].seq_num
                /\ Range(neighbors[n]) \cup Coming(n) = Range(fLSA[i].neighbors)
    BY <1>1, <2>1, <2>2, <2>4 DEF UpToDate, Newest
  <2> QED BY <2>1, <2>3, <2>4 DEF UpToDate
<1> QED BY <1>1, <1>2 DEF LatestInv, Complete

LEMMA LatestStep == OspfTypeOK /\ LatestInv /\ [OspfNext]_ospfVars => LatestInv'
<1> SUFFICES ASSUME OspfTypeOK, LatestInv, [OspfNext]_ospfVars PROVE LatestInv'
  OBVIOUS
<1>1. CASE ReadServer
  <2>1. pc = "servs" /\ pc' = "servs" /\ UNCHANGED <<fLSA, seq_num, neighbors>>
    BY <1>1 DEF ReadServer, loadFrame, fileVars
  <2>2. ASSUME Complete, NEW n \in Name PROVE UpToDate(n, LinesRead)'
    <3>1. UpToDate(n, LinesRead) /\ LinesRead = 0 /\ LinesRead' = 0
          /\ Coming(n) = {} /\ Coming(n)' = {}
      BY <2>1, <2>2 DEF LatestInv, LinesRead, Coming
    <3> QED BY <2>1, <3>1 DEF UpToDate, Newest
  <2> QED BY <2>1, <2>2 DEF LatestInv, Complete
<1>2. CASE NextClient \/ Pop \/ SkipMarked \/ FindServer \/ Push
  <2>1. /\ pc \in {"clits", "search"} /\ pc' \in {"clits", "search"}
        /\ UNCHANGED <<fLSA, line, seq_num, neighbors>>
    BY <1>2 DEF NextClient, Pop, SkipMarked, FindServer, Push,
                searchFrame, fileVars, graphVars, parseVars
  <2> QED BY <2>1, LatestIdle DEF LatestInv
<1>3. CASE RouteRoundRobin \/ \E name \in Name : RouteNearest(name) \/ RouteFails(name)
  <2>1. pc = "route" /\ pc' \in {"route", "crashed"}
    BY <1>3 DEF RouteRoundRobin, RouteNearest, RouteFails
  <2> QED BY <2>1 DEF LatestInv
<1>4. CASE LoopEnds
  <2>0. /\ UNCHANGED <<fLSA, seq_num, neighbors>>
        /\ line' = IF pc = "servs" THEN 0 ELSE line
        /\ \/ pc = "servs" /\ pc' = IF rr_flag THEN "route" ELSE "LSAs"
           \/ pc = "neighbors" /\ tokens = <<>> /\ pc' = "LSAs"
           \/ pc = "LSAs" /\ line = Len(fLSA) /\ pc' = "clits"
           \/ pc = "clits" /\ pc' = "route"
           \/ pc = "search" /\ pc' = "aborted"
    BY <1>4 DEF LoopEnds, graphVars, loadFrame, fileVars
  <2>1. ASSUME Complete, NEW n \in Name, pc \in {"servs", "neighbors"}, pc' = "LSAs"
        PROVE  UpToDate(n, LinesRead)'
    <3>1. UpToDate(n, LinesRead) /\ LinesRead' = LinesRead
      BY <2>0, <2>1 DEF LatestInv, LinesRead
    <3>2. Coming(n) = {} /\ Coming(n)' = {}
      BY <2>0, <2>1, RangeEmpty DEF Coming
    <3> QED BY <2>0, <3>1, <3>2 DEF UpToDate, Newest
  <2>2. Len(fLSA) \in Nat
    BY DEF OspfTypeOK, FilesTyped
  <2>3. CASE pc = "servs" \/ pc = "neighbors"
    BY <2>0, <2>1, <2>2, <2>3 DEF LatestInv, Complete
  <2>4. CASE pc = "LSAs"
    BY <2>0, <2>4, LatestIdle
  <2>5. CASE pc = "clits" \/ pc = "search"
    BY <2>0, <2>5 DEF LatestInv
  <2> QED BY <2>0, <2>3, <2>4, <2>5
<1>5. CASE UNCHANGED ospfVars
  <2>1. UNCHANGED <<pc, fLSA, line, seq_num, neighbors, lsa, tokens>>
    BY <1>5 DEF ospfVars, fileVars, graphVars, parseVars
  <2> QED BY <2>1 DEF LatestInv, Complete, LinesRead, UpToDate, Newest, Coming
<1> QED BY <1>1, <1>2, <1>3, <1>4, <1>5, LatestRead, LatestAdd DEF OspfNext, OSPF_init

LEMMA InitLatest == OspfInit => LatestInv
<1> SUFFICES ASSUME OspfInit PROVE LatestInv
  OBVIOUS
<1>1. ASSUME NEW n \in Name PROVE UpToDate(n, LinesRead)
  BY <1>1 DEF OspfInit, UpToDate, LinesRead, Coming
<1> QED BY <1>1 DEF OspfInit, LatestInv

\* However the advertisements of a node are ordered, and however many there are, the
\* search uses the neighbours of the newest one: parse_LSA forgets those of an older
\* line and takes none from a line that comes late.
THEOREM OspfLatestWins == OspfSpec => []LatestWins
<1>1. ASSUME OspfTypeOK, LatestInv PROVE LatestWins
  <2> SUFFICES ASSUME pc \in {"clits", "search"}, Complete, NEW n \in Name
               PROVE  LET own == {i \in DOMAIN fLSA : fLSA[i].name = n}
                      IN  /\ own = {} => neighbors[n] = <<>>
                          /\ own # {} => \E i \in own :
                                /\ \A j \in own : \/ fLSA[j].seq_num < fLSA[i].seq_num
                                                  \/ fLSA[j].seq_num = fLSA[i].seq_num /\ i <= j
                                /\ Range(neighbors[n]) = Range(fLSA[i].neighbors)
    BY DEF LatestWins, Complete
  <2> DEFINE own == {i \in DOMAIN fLSA : fLSA[i].name = n}
  <2>1. UpToDate(n, Len(fLSA)) /\ Coming(n) = {} /\ DOMAIN fLSA = 1 .. Len(fLSA)
    BY <1>1 DEF LatestInv, LinesRead, Coming, OspfTypeOK, FilesTyped
  <2>2. CASE \A i \in 1 .. Len(fLSA) : fLSA[i].name # n
    <3>1. own = {} /\ neighbors[n] = <<>>
      BY <2>1, <2>2 DEF UpToDate, Newest
    <3> QED BY <3>1
  <2>3. CASE \E i \in 1 .. Len(fLSA) :
                /\ Newest(n, Len(fLSA), i)
                /\ Range(neighbors[n]) \cup Coming(n) = Range(fLSA[i].neighbors)
    <3>1. PICK i \in own : /\ Newest(n, Len(fLSA), i)
                           /\ Range(neighbors[n]) = Range(fLSA[i].neighbors)
      BY <2>1, <2>3 DEF Newest
    <3>2. \A j \in own : \/ fLSA[j].seq_num < fLSA[i].seq_num
                         \/ fLSA[j].seq_num = fLSA[i].seq_num /\ i <= j
      BY <2>1, <3>1 DEF Newest
    <3> QED BY <3>1, <3>2
  <2> QED BY <2>1, <2>2, <2>3 DEF UpToDate
<1>2. OspfInit => OspfTypeOK /\ LatestInv
  BY InitTypes, InitLatest
<1>3. OspfTypeOK /\ LatestInv /\ [OspfNext]_ospfVars => (OspfTypeOK /\ LatestInv)'
  BY OspfTypes, LatestStep
<1> QED BY <1>1, <1>2, <1>3, PTL DEF OspfSpec

-----------------------------------------------------------------------------
(* The levels of the search *)

\* A is what is at most as far from the client as the nodes that leave the queue: the
\* first m entries of the queue are of A and the rest one hop further, all that are
\* marked out there are in the queue, and a node of A that has left it has its
\* neighbours marked or still to be looked at.
Frontier(A, m) ==
    /\ A \subseteq mark /\ mark \subseteq A \cup Neighbors(A)
    /\ Range(neighbor_iter) \subseteq A \cup Neighbors(A)
    /\ \A i \in 1 .. Len(q) : i <= m <=> q[i] \in A
    /\ \A n \in mark \ A : n \in Range(q)
    /\ \A n \in A : \/ n \in Range(q)
                    \/ Range(neighbors[n]) \subseteq mark \cup Range(neighbor_iter)

\* The search is at some number of hops d, and each hop has found something new;
\* w[i] is what is at most i hops away.
AtLevel(w) ==
    \E d \in 0 .. Cardinality(Name) - 1, m \in 0 .. Len(q) :
       Frontier(w[d], m) /\ Cardinality(w[d]) > d

LevelInv ==
    /\ pc = "search" => AtLevel(Within(clits[clit]))
    /\ pc \in {"servs", "LSAs", "neighbors"} => \A n \in Name : routing_table[n] = NULL
    /\ NearestServer

\* The recursive function of Within exists, so that it is what it says.
LEMMA WithinDef ==
    ASSUME NEW c
    PROVE  Within(c) = [i \in 0 .. Cardinality(Name) |->
               IF i = 0 THEN {c} ELSE Within(c)[i - 1] \cup Neighbors(Within(c)[i - 1])]
<1> DEFINE F(f, n) == [i \in 0 .. n |-> IF i = 0 THEN {c} ELSE f[i - 1] \cup Neighbors(f[i - 1])]
           T == {n \in Nat : ~ \E f : f = F(f, n)}
<1>1. ASSUME T # {}
      PROVE  FALSE
  <2>1. PICK n \in T : \A k \in T : n <= k
    <3> HIDE DEF T
    <3>1. T \subseteq Nat
      BY DEF T
    <3> QED BY <1>1, <3>1, LeastNumber
  <2>2. CASE n = 0
    <3> DEFINE f == [i \in 0 .. 0 |-> {c}]
    <3>1. f = F(f, 0)
      OBVIOUS
    <3> QED BY <2>2, <3>1
  <2>3. CASE n # 0
    <3>1. n - 1 \in Nat /\ n - 1 \notin T
      <4>1. n \in Nat
        BY <2>1
      <4> HIDE DEF T
      <4> QED BY <2>1, <2>3, <4>1
    <3>2. PICK f : f = F(f, n - 1)
      BY <3>1
    <3> DEFINE g == [i \in 0 .. n |-> IF i = n THEN f[n - 1] \cup Neighbors(f[n - 1]) ELSE f[i]]
    <3>3. ASSUME NEW i \in 0 .. n
          PROVE  g[i] = F(g, n)[i]
      <4>1. CASE i = 0
        <5>1. f[0] = {c}
          BY <3>1, <3>2
        <5> QED BY <2>3, <4>1, <5>1
      <4>2. CASE i \in 1 .. n - 1
        <5>1. /\ n \in Nat /\ i \in 0 .. n - 1 /\ i # 0 /\ i # n
              /\ i - 1 \in 0 .. n /\ i - 1 # n /\ i \in 0 .. n
          BY <2>1, <4>2
        <5>2. f[i] = f[i - 1] \cup Neighbors(f[i - 1])
          BY <3>2, <5>1
        <5>3. g[i] = f[i] /\ g[i - 1] = f[i - 1]
          BY <5>1
        <5> QED BY <5>1, <5>2, <5>3
      <4>3. CASE i = n
        <5>1. g[n] = f[n - 1] \cup Neighbors(f[n - 1]) /\ g[n - 1] = f[n - 1]
          BY <3>1
        <5> QED BY <2>3, <4>3, <5>1
      <4> QED BY <4>1, <4>2, <4>3, <3>1
    <3>4. g = F(g, n)
      <4>1. DOMAIN g = 0 .. n /\ g = [i \in 0 .. n |-> g[i]]
        OBVIOUS
      <4> HIDE DEF g
      <4> QED BY <3>3, <4>1
    <3> QED BY <2>1, <3>4
  <2> QED BY <2>2, <2>3
<1>2. Cardinality(Name) \in Nat
  BY NameAssumption, FS_CardinalityType
<1>3. \E f : f = F(f, Cardinality(Name))
  BY <1>1, <1>2
<1>4. Within(c) = CHOOSE f : f = F(f, Cardinality(Name))
  BY DEF Within
<1> QED BY <1>3, <1>4

\* One hop further.
LEMMA WithinNext ==
    ASSUME NEW c, NEW d \in 0 .. Cardinality(Name) - 1
    PROVE  /\ d + 1 \in 0 .. Cardinality(Name)
           /\ Within(c)[0] = {c}
           /\ Within(c)[d + 1] = Within(c)[d] \cup Neighbors(Within(c)[d])
<1>1. Cardinality(Name) \in Nat
  BY NameAssumption, FS_CardinalityType
<1>2. d + 1 \in 0 .. Cardinality(Name) /\ 0 \in 0 .. Cardinality(Name) /\ d + 1 # 0 /\ (d + 1) - 1 = d
  BY <1>1
<1>3. PICK w : w = Within(c)
  OBVIOUS
<1>4. w = [i \in 0 .. Cardinality(Name) |-> IF i = 0 THEN {c} ELSE w[i - 1] \cup Neighbors(w[i - 1])]
  BY <1>3, WithinDef
<1>5. w[0] = {c} /\ w[d + 1] = w[(d + 1) - 1] \cup Neighbors(w[(d + 1) - 1])
  BY <1>2, <1>4
<1> QED BY <1>2, <1>3, <1>5

LEMMA NeighborsOf ==
    \A S, x : x \in Neighbors(S) <=> \E n \in S : x \in Range(neighbors[n])
BY DEF Neighbors

\* A node of the present level leaves the queue, or, when none is left, all of the
\* next one are in it.
LEMMA PopLevel ==
    ASSUME OspfInv, Pop, NEW A, NEW B, B = A \cup Neighbors(A),
           NEW m \in 0 .. Len(q), Frontier(A, m)
    PROVE  \/ m - 1 \in 0 .. Len(q') /\ Frontier(A, m - 1)'
           \/ /\ \E n \in 0 .. Len(q') : Frontier(B, n)'
              /\ \E x \in Name : x \in B /\ x \notin A
<1> DEFINE h == Head(q)
           t == Tail(q)
<1>1. /\ q # <<>> /\ neighbor_iter = <<>> /\ neighbor_iter' = neighbors[h] /\ q' = t
      /\ UNCHANGED <<mark, neighbors>> /\ pc = "search"
  BY DEF Pop, Rest, searchFrame, graphVars
<1>2. /\ q \in Seq(Name) /\ t \in Seq(Name) /\ Len(t) = Len(q) - 1 /\ Len(q) \in Nat \ {0}
      /\ h = q[1] /\ \A i \in 1 .. Len(t) : t[i] = q[i + 1]
  BY <1>1, Lists
<1>3. Range(q) = {h} \cup Range(t) /\ h \in Name /\ Range(neighbor_iter) = {}
  BY <1>1, <1>2, RangeTail, RangeEmpty
<1>4. \A S : Neighbors(S)' = Neighbors(S)
  BY <1>1 DEF Neighbors
<1>5. Range(q) \subseteq mark
  BY <1>1 DEF OspfInv, SearchInv
<1>6. /\ A \subseteq mark /\ mark \subseteq B
      /\ \A i \in 1 .. Len(q) : i <= m <=> q[i] \in A
      /\ \A n \in mark \ A : n \in Range(q)
      /\ \A n \in A : n \in Range(q) \/ Range(neighbors[n]) \subseteq mark
  BY <1>3 DEF Frontier
<1> HIDE DEF h, t
<1>7. CASE m # 0
  <2>1. h \in A
    BY <1>2, <1>6, <1>7
  <2>2. Range(neighbors[h]) \subseteq B
    BY <2>1, NeighborsOf
  <2>3. m - 1 \in 0 .. Len(t) /\ \A i \in 1 .. Len(t) : i <= m - 1 <=> t[i] \in A
    <3>1. ASSUME NEW i \in 1 .. Len(t) PROVE i <= m - 1 <=> t[i] \in A
      <4>1. i + 1 \in 1 .. Len(q) /\ t[i] = q[i + 1] /\ (i <= m - 1 <=> i + 1 <= m)
        BY <1>2
      <4> QED BY <1>6, <4>1
    <3> QED BY <1>2, <1>7, <3>1
  <2>4. \A n \in mark \ A : n \in Range(t)
    BY <1>3, <1>6, <2>1
  <2>5. \A n \in A : n \in Range(t) \/ Range(neighbors[n]) \subseteq mark \cup Range(neighbors[h])
    BY <1>3, <1>6
  <2>6. Frontier(A, m - 1)'
    BY <1>1, <1>4, <1>6, <2>2, <2>3, <2>4, <2>5 DEF Frontier
  <2> QED BY <1>1, <2>3, <2>6
<1>8. CASE m = 0
  <2>1. \A n \in Range(q) : n \notin A
    <3>1. ASSUME NEW i \in 1 .. Len(q) PROVE q[i] \notin A
      BY <1>6, <1>8
    <3>2. DOMAIN q = 1 .. Len(q)
      BY <1>2
    <3> QED BY <3>1, <3>2 DEF Range
  <2>2. mark = B
    <3>1. \A n \in A : Range(neighbors[n]) \subseteq mark
      BY <1>6, <2>1
    <3>2. Neighbors(A) \subseteq mark
      BY <3>1, NeighborsOf
    <3> QED BY <1>6, <3>2
  <2>3. h \in B /\ h \notin A
    BY <1>3, <1>5, <2>1, <2>2
  <2>4. Range(neighbors[h]) \subseteq Neighbors(B)
    BY <2>3, NeighborsOf
  <2>5. \A i \in 1 .. Len(t) : i <= Len(t) /\ t[i] \in B
    <3>1. \A i \in 1 .. Len(t) : t[i] \in Range(t)
      BY <1>2, RangeSeq
    <3> QED BY <1>2, <1>3, <1>5, <2>2, <3>1
  <2>6. \A n \in B : n \in Range(t) \/ Range(neighbors[n]) \subseteq mark \cup Range(neighbors[h])
    BY <1>3, <1>6, <2>2
  <2>7. PICK n \in Nat : n = Len(t)
    BY <1>2
  <2>8. \A i \in 1 .. Len(t) : i <= n <=> t[i] \in B
    BY <2>5, <2>7
  <2>9. Frontier(B, n)'
    BY <1>1, <1>4, <2>2, <2>4, <2>6, <2>8 DEF Frontier
  <2>10. n \in 0 .. Len(q')
    BY <1>1, <2>7
  <2> QED BY <1>3, <2>3, <2>9, <2>10
<1> QED BY <1>7, <1>8

\* A neighbour without a mark is one hop further.
LEMMA PushLevel ==
    ASSUME OspfInv, Push, NEW A, NEW m \in 0 .. Len(q), Frontier(A, m)
    PROVE  m \in 0 .. Len(q') /\ Frontier(A, m)'
<1> DEFINE h == Head(neighbor_iter)
           t == Append(q, h)
<1>1. /\ neighbor_iter # <<>> /\ h \notin mark /\ q' = t /\ mark' = mark \cup {h}
      /\ UNCHANGED <<neighbor_iter, neighbors>>
  BY DEF Push, Queued, searchFrame, graphVars
<1>2. q \in Seq(Name) /\ neighbor_iter \in Seq(Name) /\ Len(q) \in Nat
  BY Lists
<1>3. h \in Range(neighbor_iter) /\ h \in Name
  BY <1>1, <1>2, RangeTail
<1>4. /\ Range(t) = Range(q) \cup {h} /\ Len(t) = Len(q) + 1 /\ t[Len(q) + 1] = h
      /\ \A i \in 1 .. Len(q) : t[i] = q[i]
  BY <1>2, <1>3, RangeAppend
<1> HIDE DEF h, t
<1>5. \A S : Neighbors(S)' = Neighbors(S)
  BY <1>1 DEF Neighbors
<1>6. h \notin A /\ h \in A \cup Neighbors(A)
  BY <1>1, <1>3 DEF Frontier
<1>7. ASSUME NEW i \in 1 .. Len(t) PROVE i <= m <=> t[i] \in A
  <2>1. CASE i = Len(q) + 1
    <3>1. ~(i <= m)
      BY <1>2, <2>1
    <3> QED BY <1>4, <1>6, <2>1, <3>1
  <2>2. CASE i \in 1 .. Len(q)
    BY <1>4, <2>2 DEF Frontier
  <2> QED BY <1>2, <1>4, <2>1, <2>2
<1>8. Frontier(A, m)'
  BY <1>1, <1>4, <1>5, <1>6, <1>7 DEF Frontier
<1> QED BY <1>1, <1>2, <1>4, <1>8

LEMMA SkipLevel ==
    ASSUME OspfInv, SkipMarked, NEW A, NEW m \in 0 .. Len(q), Frontier(A, m)
    PROVE  m \in 0 .. Len(q') /\ Frontier(A, m)'
<1>1. /\ neighbor_iter # <<>> /\ Head(neighbor_iter) \in mark
      /\ neighbor_iter' = Tail(neighbor_iter) /\ UNCHANGED <<q, mark, neighbors>>
  BY DEF SkipMarked, searchFrame, graphVars
<1>2. Range(neighbor_iter) = {Head(neighbor_iter)} \cup Range(neighbor_iter')
  BY <1>1, Lists, RangeTail
<1>3. \A S : Neighbors(S)' = Neighbors(S)
  BY <1>1 DEF Neighbors
<1> QED BY <1>1, <1>2, <1>3 DEF Frontier

\* The distances change with the graph only.
LEMMA WithinKept ==
    ASSUME neighbors' = neighbors, NEW c
    PROVE  Within(c)' = Within(c)
<1> DEFINE W(nb) == LET w[i \in 0 .. Cardinality(Name)] ==
                            IF i = 0 THEN {c} ELSE w[i - 1] \cup UNION {Range(nb[n]) : n \in w[i - 1]}
                    IN  w
<1>1. Within(c) = W(neighbors)
  BY DEF Within, Neighbors
<1>2. Within(c)' = W(neighbors')
  BY DEF Within, Neighbors
<1> HIDE DEF W
<1> QED BY <1>1, <1>2

LEMMA NearestKept ==
    ASSUME NearestServer, UNCHANGED <<clits, servs, neighbors, routing_table>>
    PROVE  NearestServer'
<1> SUFFICES ASSUME NEW c \in Range(clits), routing_table[c] # NULL
             PROVE  \E i \in 1 .. Cardinality(Name) :
                       /\ routing_table[c] \in Within(c)'[i]
                       /\ Within(c)'[i - 1] \cap Range(servs) = {}
  BY DEF NearestServer
<1> QED BY WithinKept DEF NearestServer

\* A search begins with the client alone.
LEMMA FirstLevel ==
    ASSUME OspfInv, LevelInv, NextClient
    PROVE  LevelInv'
<1>1. /\ clit' = clit + 1 /\ clit + 1 \in 1 .. Len(clits) /\ pc' = "search"
      /\ q' = <<clits[clit + 1]>> /\ neighbor_iter' = <<>>
      /\ UNCHANGED <<clits, servs, neighbors, nodes, routing_table>>
  BY Lists DEF NextClient, searchFrame, graphVars
<1>2. PICK c \in Name : c = clits[clit + 1]
  BY <1>1, Lists
<1>3. mark' = {c}
  BY <1>1, <1>2 DEF NextClient, Unmarked, OspfInv, SearchInv
<1>4. Within(c)[0] = {c} /\ Cardinality(Name) \in Nat /\ 0 \in 0 .. Cardinality(Name) - 1
  <2>1. Cardinality(Name) \in Nat /\ Cardinality(Name) >= 1
    <3>1. IsFiniteSet({c}) /\ Cardinality({c}) = 1 /\ {c} \in SUBSET Name
      BY <1>2, FS_Singleton
    <3>2. Cardinality({c}) <= Cardinality(Name)
      BY <3>1, NameAssumption, FS_Subset
    <3> QED BY <3>1, <3>2, NameAssumption, FS_CardinalityType
  <2>2. 0 \in 0 .. Cardinality(Name) - 1
    BY <2>1
  <2> QED BY <2>1, <2>2, WithinNext
<1>5. Frontier({c}, 1)'
  <2>1. Range(q') = {c} /\ Range(neighbor_iter') = {} /\ Len(q') = 1 /\ q'[1] = c
    BY <1>1, <1>2, RangeEmpty DEF Range
  <2>2. \A i \in 1 .. Len(q') : i <= 1 /\ q'[i] \in {c}
    BY <2>1
  <2> QED BY <1>3, <2>1, <2>2 DEF Frontier
<1>6. Cardinality({c}) > 0
  BY FS_Singleton
<1>7. AtLevel(Within(clits[clit]))'
  <2>1. PICK w : w = Within(c)
    OBVIOUS
  <2>2. Within(clits[clit])' = w
    BY <1>1, <1>2, <2>1, WithinKept
  <2>3. 1 \in 0 .. Len(q')
    BY <1>1
  <2>4. AtLevel(w)'
    BY <1>4, <1>5, <1>6, <2>1, <2>3 DEF AtLevel
  <2> QED BY <2>2, <2>4 DEF AtLevel
<1>8. NearestServer'
  BY <1>1, NearestKept DEF LevelInv
<1> QED BY <1>1, <1>7, <1>8 DEF LevelInv

\* It goes on from one level to the next.
LEMMA NextLevel ==
    ASSUME OspfInv, LevelInv, Pop \/ SkipMarked \/ Push
    PROVE  LevelInv'
<1>1. /\ pc = "search" /\ pc' = pc
      /\ UNCHANGED <<clit, clits, servs, neighbors, routing_table>>
  BY DEF Pop, SkipMarked, Push, searchFrame, graphVars
<1>2. PICK c \in Name : c = clits[clit]
  BY <1>1, Lists DEF OspfInv, SearchInv
<1>3. PICK w : w = Within(c)
  OBVIOUS
<1>4. PICK d \in 0 .. Cardinality(Name) - 1, m \in 0 .. Len(q) :
         Frontier(w[d], m) /\ Cardinality(w[d]) > d
  BY <1>1, <1>2, <1>3 DEF LevelInv, AtLevel
<1>5. PICK A : A = w[d]
  OBVIOUS
<1>6. AtLevel(w)'
  <2>1. CASE \E k \in 0 .. Len(q') : Frontier(A, k)'
    BY <1>4, <1>5, <2>1 DEF AtLevel
  <2>2. CASE Pop
    <3>1. PICK B : B = A \cup Neighbors(A)
      OBVIOUS
    <3>2. CASE /\ \E n \in 0 .. Len(q') : Frontier(B, n)'
               /\ \E x \in Name : x \in B /\ x \notin A
      <4>1. d + 1 \in 0 .. Cardinality(Name) /\ w[d + 1] = B
        BY <1>3, <1>5, <3>1, WithinNext
      <4>2. A \in SUBSET B /\ B \in SUBSET Name
        <5>1. A \subseteq Name
          BY <1>4, <1>5, Lists DEF Frontier
        <5>2. Neighbors(A) \subseteq Name
          BY <5>1, Lists, NeighborsOf
        <5> QED BY <3>1, <5>1, <5>2
      <4>3. /\ IsFiniteSet(B) /\ Cardinality(B) <= Cardinality(Name)
            /\ Cardinality(B) \in Nat /\ Cardinality(Name) \in Nat
        BY <4>2, NameAssumption, FS_Subset, FS_CardinalityType
      <4>4. Cardinality(A) <= Cardinality(B) /\ Cardinality(A) # Cardinality(B) /\ Cardinality(A) \in Nat
        BY <3>2, <4>2, <4>3, FS_Subset, FS_CardinalityType
      <4>5. Cardinality(B) > d + 1 /\ d + 1 \in 0 .. Cardinality(Name) - 1
        BY <1>4, <1>5, <4>3, <4>4
      <4> QED BY <3>2, <4>1, <4>5 DEF AtLevel
    <3> QED BY <1>4, <1>5, <2>1, <2>2, <3>1, <3>2, PopLevel
  <2>3. CASE SkipMarked
    BY <1>4, <1>5, <2>1, <2>3, SkipLevel
  <2>4. CASE Push
    BY <1>4, <1>5, <2>1, <2>4, PushLevel
  <2> QED BY <2>2, <2>3, <2>4
<1>7. Within(clits[clit])' = w
  BY <1>1, <1>2, <1>3, WithinKept
<1>8. NearestServer'
  BY <1>1, NearestKept DEF LevelInv
<1>9. AtLevel(Within(clits[clit]))'
  BY <1>6, <1>7 DEF AtLevel
<1> QED BY <1>1, <1>8, <1>9 DEF LevelInv

\* The server that a search finds is one hop further than a level without any.
LEMMA ServerFound ==
    ASSUME OspfInv, LevelInv, FindServer
    PROVE  LevelInv'
<1>1. /\ pc = "search" /\ pc' = "clits" /\ neighbor_iter # <<>>
      /\ routing_table' = [routing_table EXCEPT ![clits[clit]] = Head(neighbor_iter)]
      /\ UNCHANGED <<clits, servs, neighbors>>
  BY DEF FindServer, searchFrame, graphVars
<1>2. PICK c \in Name : c = clits[clit]
  BY <1>1, Lists DEF OspfInv, SearchInv
<1>3. PICK h \in Name : h = Head(neighbor_iter) /\ h \in Range(neighbor_iter)
  BY <1>1, Lists, RangeTail
<1>4. PICK d \in 0 .. Cardinality(Name) - 1 : \E m \in 0 .. Len(q) : Frontier(Within(c)[d], m)
  BY <1>1, <1>2 DEF LevelInv, AtLevel
<1>5. h \in Within(c)[d + 1] /\ Within(c)[d] \cap Range(servs) = {}
  BY <1>1, <1>3, <1>4, WithinNext DEF Frontier, OspfInv, SearchInv
<1>6. Cardinality(Name) \in Nat
  BY NameAssumption, FS_CardinalityType
<1>7. PICK i \in 1 .. Cardinality(Name) : i = d + 1 /\ i - 1 = d
  BY <1>6
<1>8. ASSUME NEW x \in Range(clits), routing_table'[x] # NULL
      PROVE  \E k \in 1 .. Cardinality(Name) :
                routing_table'[x] \in Within(x)[k] /\ Within(x)[k - 1] \cap Range(servs) = {}
  <2>1. CASE x = c
    <3>1. routing_table'[c] = h
      BY <1>1, <1>2, <1>3, Lists
    <3> QED BY <1>5, <1>7, <2>1, <3>1
  <2>2. CASE x # c
    <3>1. routing_table'[x] = routing_table[x]
      BY <1>1, <1>2, <2>2, Lists
    <3> QED BY <1>8, <3>1 DEF LevelInv, NearestServer
  <2> QED BY <2>1, <2>2
<1>9. NearestServer'
  <2> SUFFICES ASSUME NEW x \in Range(clits), routing_table'[x] # NULL
               PROVE  \E k \in 1 .. Cardinality(Name) :
                         /\ routing_table'[x] \in Within(x)'[k]
                         /\ Within(x)'[k - 1] \cap Range(servs) = {}
    BY <1>1 DEF NearestServer
  <2> QED BY <1>1, <1>8, WithinKept
<1> QED BY <1>1, <1>9 DEF LevelInv

\* The table is empty as long as the files are read.
LEMMA NothingFound ==
    ASSUME OspfInv, LevelInv, ReadServer \/ ReadLSA \/ AddNeighbor
    PROVE  LevelInv'
<1>1. /\ pc \in {"servs", "LSAs", "neighbors"} /\ pc' \in {"servs", "LSAs", "neighbors"}
      /\ UNCHANGED routing_table
  BY DEF ReadServer, ReadLSA, AddNeighbor, loadFrame, searchVars
<1>2. \A n \in Name : routing_table'[n] = NULL
  BY <1>1 DEF LevelInv
<1>3. clits' \in Seq(Name)
  BY OspfTypes DEF OspfInv, OspfNext, OSPF_init, OspfTypeOK, GraphTyped
<1>4. Range(clits') \subseteq Name
  BY <1>3, RangeSeq
<1>5. NearestServer'
  BY <1>2, <1>4 DEF NearestServer
<1> QED BY <1>1, <1>2, <1>5 DEF LevelInv

LEMMA LevelStep == OspfInv /\ LevelInv /\ [OspfNext]_ospfVars => LevelInv'
<1> SUFFICES ASSUME OspfInv, LevelInv, [OspfNext]_ospfVars
             PROVE  LevelInv'
  OBVIOUS
<1>1. CASE UNCHANGED ospfVars
  <2>1. UNCHANGED <<pc, clits, clit, servs, neighbors, routing_table, mark, q, neighbor_iter>>
    BY <1>1 DEF ospfVars, graphVars, searchVars
  <2>2. NearestServer'
    BY <2>1, NearestKept DEF LevelInv
  <2>3. ASSUME pc = "search" PROVE AtLevel(Within(clits[clit]))'
    <3>1. PICK w : w = Within(clits[clit])
      OBVIOUS
    <3>2. Within(clits[clit])' = w
      BY <2>1, <3>1, WithinKept
    <3>3. AtLevel(w)'
      BY <2>1, <2>3, <3>1 DEF LevelInv, AtLevel, Frontier, Neighbors
    <3> QED BY <3>2, <3>3 DEF AtLevel
  <2> QED BY <2>1, <2>2, <2>3 DEF LevelInv
<1>2. ASSUME LoopEnds \/ RouteRoundRobin \/ \E name \in Name : RouteNearest(name) \/ RouteFails(name)
      PROVE  LevelInv'
  <2>1. /\ UNCHANGED <<clits, servs, neighbors, routing_table>> /\ pc' # "search"
        /\ pc' \in {"servs", "LSAs", "neighbors"} => pc \in {"servs", "LSAs", "neighbors"}
    BY <1>2 DEF LoopEnds, RouteRoundRobin, RouteNearest, RouteFails,
                loadFrame, graphVars, searchVars
  <2>2. NearestServer'
    BY <2>1, NearestKept DEF LevelInv
  <2> QED BY <2>1, <2>2 DEF LevelInv
<1> QED BY <1>1, <1>2, NothingFound, FirstLevel, NextLevel, ServerFound DEF OspfNext, OSPF_init

\* A client is not sent to a server when another is nearer: the search goes out from
\* it level by level, in the order of the queue, and stops at the first server.
THEOREM OspfNearestServer == OspfSpec => []NearestServer
<1>1. OspfInit => OspfInv /\ LevelInv
  <2>1. ASSUME OspfInit PROVE LevelInv
    BY <2>1, RangeEmpty DEF OspfInit, LevelInv, NearestServer
  <2> QED BY <2>1, InitOspf
<1>2. OspfInv /\ LevelInv /\ [OspfNext]_ospfVars => (OspfInv /\ LevelInv)'
  BY OspfStep, LevelStep
<1>3. LevelInv => NearestServer
  BY DEF LevelInv
<1> QED BY <1>1, <1>2, <1>3, PTL DEF OspfSpec
=============================================================================
