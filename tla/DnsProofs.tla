----------------------------- MODULE DnsProofs -----------------------------
(***************************************************************************)
(* Proofs about Dns for every set of programs and hosts, all files, and    *)
(* any number of faults: the name server goes on as Ospf says, no program  *)
(* is sent to a wrong server, and resolve() implements Lookup.             *)
(*                                                                         *)
(* The second half counts the datagrams of a program (SurplusStays).  A    *)
(* step takes one away only where another comes up, which needs that no    *)
(* two datagrams are the same one (Tokens); and where there is no surplus, *)
(* the one that is there belongs to the lookup (Current), so that          *)
(* resolve() takes the answer to its own query (Undisturbed).              *)
(***************************************************************************)
EXTENDS Dns, OspfProofs, FiniteSetTheorems, FunctionTheorems

\* Every step is one of the name server's choice of servers, or leaves that alone.
LEMMA StepOspf == [DnsNext]_<<ospfVars, dnsVars>> => [OspfNext]_ospfVars
  <1> SUFFICES ASSUME DnsNext PROVE OspfNext \/ UNCHANGED ospfVars
    OBVIOUS
  <1>1. CASE Serve
    <2>1. PICK p \in Resolver, h \in Host :
             LET m == Head(nsq)
             IN m.p = p /\ (ServeValid(m) \/ ServeInvalid(m) \/ ServeFails(m))
      BY <1>1 DEF Serve
    <2>2. p \in Name
      BY DnsAssumption
    <2>3. CASE ServeValid(Head(nsq))
      BY <2>1, <2>2, <2>3 DEF ServeValid, OspfNext
    <2>4. CASE ServeInvalid(Head(nsq))
      BY <2>4 DEF ServeInvalid
    <2>5. CASE ServeFails(Head(nsq))
      BY <2>1, <2>2, <2>5 DEF ServeFails, OspfNext
    <2> QED BY <2>1, <2>3, <2>4, <2>5
  <1>2. CASE Starts
    BY <1>2 DEF Starts, OspfNext
  <1>3. CASE NsSelect \/ NsSelectFails \/ ServeReadFails \/ Tick
    BY <1>3 DEF NsSelect, NsSelectFails, ServeReadFails, NsExits, Tick
  <1>4. ASSUME NEW p \in Resolver, (\E h \in Host : Ask(p, h)) \/ Receive(p) \/ ReceiveFails(p)
        PROVE  UNCHANGED ospfVars
    BY <1>4 DEF Ask, Receive, ReceiveFails
  <1>5. ASSUME NEW m \in net, Deliver(m) \/ Duplicate(m) \/ Lose(m)
        PROVE  UNCHANGED ospfVars
    BY <1>5 DEF Deliver, Duplicate, Lose, Arrived
  <1> QED BY <1>1, <1>2, <1>3, <1>4, <1>5 DEF DnsNext, DeliverFor

\* The name server with its datagrams is still the program that Ospf describes:
\* whatever holds of its choice of servers holds here.
THEOREM DnsRefinesOspf == DnsSpec => OspfSpec
  <1>1. DnsInit => OspfInit
    BY DEF DnsInit
  <1> QED BY <1>1, StepOspf, PTL DEF DnsSpec, OspfSpec

-----------------------------------------------------------------------------
(* Types *)

LEMMA InitDnsTypes == DnsInit => DnsTypeOK
  <1> SUFFICES ASSUME DnsInit PROVE DnsTypeOK
    OBVIOUS
  <1> USE DnsAssumption DEF DnsInit
  <1>1. NetTyped
    BY DEF NetTyped
  <1>2. ResolverTyped
    BY DEF ResolverTyped
  <1>3. CountersTyped
    BY DEF CountersTyped
  <1> QED BY <1>1, <1>2, <1>3 DEF DnsTypeOK

\* What an entry at the end, or the loss of the first one, does to a queue.
LEMMA QueueAppend ==
    ASSUME NEW S, NEW s \in Seq(S), NEW x \in S
    PROVE  /\ Append(s, x) \in Seq(S) /\ Len(Append(s, x)) = Len(s) + 1
           /\ \A i \in 1 .. Len(s) : Append(s, x)[i] = s[i]
           /\ Append(s, x)[Len(s) + 1] = x
  OBVIOUS

LEMMA QueueTail ==
    ASSUME NEW S, NEW s \in Seq(S), s # <<>>
    PROVE  /\ Tail(s) \in Seq(S) /\ Len(Tail(s)) = Len(s) - 1 /\ Len(s) \in Nat \ {0}
           /\ \A i \in 1 .. Len(Tail(s)) : Tail(s)[i] = s[i + 1]
           /\ Head(s) = s[1] /\ Head(s) \in S
  OBVIOUS

\* The datagrams that the programs make.
LEMMA Datagrams ==
    ASSUME NEW m \in Datagram
    PROVE  /\ \A a \in Name :
                 /\ Answer(m, a) \in Datagram /\ Answer(m, a).n = m.n
                 /\ Answer(m, a).p = m.p /\ Answer(m, a).host = m.host /\ Answer(m, a).id = m.id
                 /\ Answer(m, a).qr = 1 /\ Answer(m, a).addr = a
                 /\ Answer(m, a).to = m.p /\ Answer(m, a).copy = m.copy
                 /\ Answer(m, a).rcode = m.rcode
           /\ Error(m) \in Datagram /\ Error(m).n = m.n
           /\ Error(m).p = m.p /\ Error(m).host = m.host /\ Error(m).id = m.id
           /\ Error(m).qr = m.qr /\ Error(m).addr = m.addr /\ Error(m).to = m.p
           /\ Error(m).copy = m.copy
  <1>1. Htonl(3) % 16 \in 0 .. 15
    BY DEF Htonl
  <1>2. m.p \in Resolver
    BY DEF Datagram
  <1>3. ASSUME NEW a \in Name
        PROVE  /\ Answer(m, a) \in Datagram /\ Answer(m, a).n = m.n
               /\ Answer(m, a).p = m.p /\ Answer(m, a).host = m.host /\ Answer(m, a).id = m.id
               /\ Answer(m, a).qr = 1 /\ Answer(m, a).addr = a /\ Answer(m, a).to = m.p
               /\ Answer(m, a).copy = m.copy /\ Answer(m, a).rcode = m.rcode
    <2>1. PICK x \in Resolver : x = m.p
      BY <1>2
    <2>2. /\ Answer(m, a) = [m EXCEPT !.to = x, !.qr = 1, !.addr = a]
          /\ x \in Resolver \cup {NS} /\ 1 \in 0 .. 1 /\ a \in Name \cup {NULL}
      BY <2>1 DEF Answer
    <2>3. Answer(m, a) \in Datagram
      BY <2>2 DEF Datagram
    <2> QED BY <2>1, <2>2, <2>3 DEF Datagram
  <1>4. /\ Error(m) \in Datagram /\ Error(m).n = m.n
        /\ Error(m).p = m.p /\ Error(m).host = m.host /\ Error(m).id = m.id
        /\ Error(m).qr = m.qr /\ Error(m).addr = m.addr /\ Error(m).to = m.p
        /\ Error(m).copy = m.copy
    <2>1. PICK r \in 0 .. 15 : r = Htonl(3) % 16
      BY <1>1
    <2>2. Error(m) = [m EXCEPT !.to = m.p, !.rcode = r]
      BY <2>1 DEF Error
    <2> QED BY <1>2, <2>2 DEF Datagram
  <1> QED BY <1>3, <1>4

LEMMA Fields == \A m \in Datagram : m.p \in Resolver /\ m.host \in Host /\ m.id \in Id
                                   /\ m.addr \in Name \cup {NULL}
  BY DEF Datagram

LEMMA Copies ==
    ASSUME NEW m \in Datagram, NEW k \in Nat, NEW c, c = [m EXCEPT !.copy = k]
    PROVE  /\ c \in Datagram /\ c.n = m.n /\ c.to = m.to /\ c.copy = k
           /\ c.p = m.p /\ c.host = m.host /\ c.id = m.id
           /\ c.qr = m.qr /\ c.addr = m.addr /\ c.rcode = m.rcode
  BY DEF Datagram

LEMMA Queries ==
    ASSUME CountersTyped, NEW p \in Resolver, NEW h \in Host
    PROVE  /\ Query(p, h) \in Datagram /\ Query(p, h) # NULL
           /\ Query(p, h).p = p /\ Query(p, h).host = h /\ Query(p, h).id = RandAt[now]
           /\ Query(p, h).n = nask[p] + 1 /\ RandAt[now] \in Id
           /\ Query(p, h).qr = 0 /\ Query(p, h).to = NS
           /\ Query(p, h).copy = 0 /\ Query(p, h).rcode = 0
  <1>1. RandAt[now] \in Id /\ nask[p] + 1 \in Nat
    BY DnsAssumption DEF CountersTyped
  <1>2. Query(p, h) \in Datagram
    BY <1>1 DEF Query, Datagram
  <1> QED BY <1>1, <1>2, DnsAssumption DEF Query

-----------------------------------------------------------------------------
(* The inductive invariant *)

\* An address is right for a program: a server of the file and, by the table, the
\* program's own.
RightAddr(p, a) == /\ a \in Range(servs)
                   /\ ~rr_flag => a = routing_table[p] /\ a \in Reachable(p)

Record(m) == [p |-> m.p, host |-> m.host, id |-> m.id, addr |-> m.addr]

\* What is in some socket, or under way, and has the bit of an answer is one the
\* name server has made.
Truth ==
    /\ \A m \in net : m.qr = 1 => Record(m) \in given
    /\ \A i \in 1 .. Len(nsq) : nsq[i].qr = 1 => Record(nsq[i]) \in given
    /\ \A p \in Resolver : \A i \in 1 .. Len(sock[p]) :
          sock[p][i].qr = 1 => Record(sock[p][i]) \in given

\* The name server has chosen only when its table was complete, and rightly.
Choices ==
    /\ given # {} => pc \in {"route", "crashed"}
    /\ \A r \in given : RightAddr(r.p, r.addr)
    /\ \A p \in Resolver : result[p] # NULL => \E r \in given : r.p = p /\ r.addr = result[p]

DnsInv == DnsTypeOK /\ Truth /\ Choices

LEMMA CounterStep == DnsTypeOK /\ DnsNext => CountersTyped'
  <1> SUFFICES ASSUME DnsTypeOK, DnsNext PROVE CountersTyped'
    OBVIOUS
  <1> USE DnsAssumption DEF DnsTypeOK, CountersTyped
  <1>1. CASE Serve
    <2>1. PICK m : ServeValid(m) \/ ServeInvalid(m) \/ ServeFails(m)
      BY <1>1 DEF Serve
    <2>2. UNCHANGED <<now, nask, slips, lost>>
      BY <2>1 DEF ServeValid, ServeInvalid, ServeFails, Served, dnsVars, resolverVars
    <2> QED BY <2>2
  <1>2. CASE Starts \/ NsSelect \/ NsSelectFails \/ ServeReadFails
    BY <1>2 DEF Starts, NsSelect, NsSelectFails, ServeReadFails, NsExits, dnsVars, resolverVars
  <1>3. CASE Tick
    BY <1>3 DEF Tick, resolverVars
  <1>4. ASSUME NEW p \in Resolver, NEW h \in Host, Ask(p, h) PROVE CountersTyped'
    BY <1>4 DEF Ask
  <1>5. ASSUME NEW p \in Resolver, Receive(p) PROVE CountersTyped'
    BY <1>5 DEF Receive
  <1>6. ASSUME NEW p \in Resolver, ReceiveFails(p) PROVE CountersTyped'
    BY <1>6 DEF ReceiveFails, MayFail
  <1>7. ASSUME NEW m \in net, Deliver(m) PROVE CountersTyped'
    BY <1>7 DEF Deliver, Arrived
  <1>a. \A m \in net : m.p \in Resolver
    BY DEF NetTyped, Datagram
  <1>8. ASSUME NEW m \in net, Duplicate(m) PROVE CountersTyped'
    BY <1>a, <1>8 DEF Duplicate, Arrived, MayFail
  <1>9. ASSUME NEW m \in net, Lose(m) PROVE CountersTyped'
    BY <1>a, <1>9 DEF Lose, resolverVars, MayFail
  <1> QED BY <1>1, <1>2, <1>3, <1>4, <1>5, <1>6, <1>7, <1>8, <1>9 DEF DnsNext, DeliverFor

\* Datagrams stay typed and true, whether they are received and asked for by the
\* programs,
LEMMA ResolveStep ==
    ASSUME DnsTypeOK, Truth, NEW p \in Resolver,
           (\E h \in Host : Ask(p, h)) \/ Receive(p) \/ ReceiveFails(p)
    PROVE  NetTyped' /\ ResolverTyped' /\ Truth'
  <1> USE DEF DnsTypeOK
  <1>1. ASSUME NEW h \in Host, Ask(p, h)
        PROVE  NetTyped' /\ ResolverTyped' /\ Truth'
    <2>1. /\ net' = net \cup {Query(p, h)} /\ asking' = [asking EXCEPT ![p] = Query(p, h)]
          /\ UNCHANGED <<nsq, ns, stray, given, sock, result>>
      BY <1>1 DEF Ask, serverVars
    <2>2. Query(p, h) \in Datagram /\ Query(p, h).qr = 0
      BY Queries
    <2>3. NetTyped' /\ ResolverTyped'
      BY <2>1, <2>2 DEF NetTyped, ResolverTyped
    <2>4. Truth'
      BY <2>1, <2>2 DEF Truth, Record
    <2> QED BY <2>3, <2>4
  <1>2. CASE Receive(p)
    <2> DEFINE s == sock[p]
    <2>1. s \in Seq(Datagram) /\ s # <<>>
      BY <1>2 DEF Receive, ResolverTyped
    <2>2. /\ sock' = [sock EXCEPT ![p] = Tail(s)]
          /\ UNCHANGED <<net, nsq, ns, stray, given>>
          /\ asking' = [asking EXCEPT ![p] = NULL]
      BY <1>2 DEF Receive, ReadFrom, serverVars
    <2>3. /\ Tail(s) \in Seq(Datagram) /\ Head(s) \in Datagram
          /\ \A i \in 1 .. Len(Tail(s)) : i + 1 \in 1 .. Len(s) /\ Tail(s)[i] = s[i + 1]
      BY <2>1, QueueTail
    <2>4. Head(s).addr \in Name \cup {NULL}
      BY <2>3 DEF Datagram
    <2>5. result' \in [Resolver -> Name \cup {NULL}]
      BY <1>2, <2>4 DEF Receive, ResolverTyped
    <2> DEFINE t == Tail(s)
    <2>a. /\ sock' = [sock EXCEPT ![p] = t] /\ t \in Seq(Datagram)
          /\ \A i \in 1 .. Len(t) : i + 1 \in 1 .. Len(s) /\ t[i] = s[i + 1]
      BY <2>2, <2>3
    <2> HIDE DEF t
    <2>b. sock \in [Resolver -> Seq(Datagram)]
      BY DEF ResolverTyped
    <2>c. \A x \in Resolver : sock'[x] = IF x = p THEN t ELSE sock[x]
      BY <2>a, <2>b
    <2>d. sock' \in [Resolver -> Seq(Datagram)]
      BY <2>a, <2>b
    <2>e. ASSUME NEW x \in Resolver, NEW i \in 1 .. Len(sock'[x])
          PROVE  \E j \in 1 .. Len(sock[x]) : sock'[x][i] = sock[x][j]
      BY <2>a, <2>c
    <2>6. NetTyped' /\ ResolverTyped'
      <3>1. asking' \in [Resolver -> Datagram \cup {NULL}]
        BY <2>2 DEF ResolverTyped
      <3>2. \A x \in Resolver : \A i \in 1 .. Len(sock'[x]) : sock'[x][i].p = x
        BY <2>e DEF ResolverTyped
      <3> QED BY <2>2, <2>5, <2>d, <3>1, <3>2 DEF NetTyped, ResolverTyped
    <2>7. Truth'
      <3>1. ASSUME NEW x \in Resolver, NEW i \in 1 .. Len(sock'[x]), sock'[x][i].qr = 1
            PROVE  Record(sock'[x][i]) \in given
        <4>1. PICK j \in 1 .. Len(sock[x]) : sock'[x][i] = sock[x][j]
          BY <2>e
        <4> QED BY <3>1, <4>1 DEF Truth
      <3> QED BY <2>2, <3>1 DEF Truth, Record
    <2> QED BY <2>6, <2>7
  <1>3. CASE ReceiveFails(p)
    BY <1>3 DEF ReceiveFails, serverVars, NetTyped, ResolverTyped, Truth, Record
  <1> QED BY <1>1, <1>2, <1>3

\* or delivered,
LEMMA ArriveStep ==
    ASSUME DnsTypeOK, Truth, NEW m \in net, Arrived(m),
           \A d \in net' : d \in net \/ \E k \in Nat : d = [m EXCEPT !.copy = k]
    PROVE  NetTyped' /\ ResolverTyped' /\ Truth'
  <1> USE DEF DnsTypeOK
  <1>1. /\ m \in Datagram /\ m.p \in Resolver /\ (m.qr = 1 => Record(m) \in given)
        /\ UNCHANGED <<ns, stray, given, asking, result>>
    BY DEF NetTyped, Truth, Datagram, Arrived
  <1>2. net' \subseteq Datagram /\ \A d \in net' : d.qr = 1 => Record(d) \in given
    <2>1. ASSUME NEW d \in net'
          PROVE  d \in Datagram /\ (d.qr = 1 => Record(d) \in given)
      <3>1. CASE d \in net
        BY <3>1 DEF NetTyped, Truth
      <3>2. CASE \E k \in Nat : d = [m EXCEPT !.copy = k]
        BY <1>1, <3>2, Copies DEF Record
      <3> QED BY <3>1, <3>2
    <2> QED BY <2>1
  <1>3. CASE m.to = NS
    <2>1. nsq' = Append(nsq, m) /\ sock' = sock
      BY <1>3 DEF Arrived
    <2>2. nsq \in Seq(Datagram)
      BY DEF NetTyped
    <2> DEFINE t == Append(nsq, m)
    <2>3. /\ t \in Seq(Datagram) /\ Len(t) = Len(nsq) + 1 /\ t[Len(nsq) + 1] = m
          /\ \A i \in 1 .. Len(nsq) : t[i] = nsq[i]
      BY <1>1, <2>2, QueueAppend
    <2>4. \A i \in 1 .. Len(t) : i \in 1 .. Len(nsq) \/ t[i] = m
      BY <2>2, <2>3
    <2> HIDE DEF t
    <2>5. nsq' = t
      BY <2>1 DEF t
    <2>6. NetTyped' /\ ResolverTyped'
      BY <1>1, <1>2, <1>3, <2>1, <2>3, <2>4, <2>5 DEF NetTyped, ResolverTyped
    <2>7. Truth'
      BY <1>1, <1>2, <2>1, <2>3, <2>4, <2>5 DEF Truth, Record
    <2> QED BY <2>6, <2>7
  <1>4. CASE m.to # NS
    <2> DEFINE s == sock[m.p]
               t == Append(s, m)
    <2>1. sock' = [sock EXCEPT ![m.p] = t] /\ nsq' = nsq
      BY <1>4 DEF Arrived
    <2>2. s \in Seq(Datagram)
      BY <1>1 DEF ResolverTyped
    <2>3. /\ t \in Seq(Datagram) /\ Len(t) = Len(s) + 1 /\ t[Len(s) + 1] = m
          /\ \A i \in 1 .. Len(s) : t[i] = s[i]
      BY <1>1, <2>2, QueueAppend
    <2>4. \A i \in 1 .. Len(t) : i \in 1 .. Len(s) \/ t[i] = m
      BY <2>2, <2>3
    <2> HIDE DEF t
    <2>5. NetTyped' /\ ResolverTyped'
      BY <1>1, <1>2, <2>1, <2>3, <2>4 DEF NetTyped, ResolverTyped
    <2>6. Truth'
      BY <1>1, <1>2, <2>1, <2>3, <2>4 DEF Truth, Record, ResolverTyped
    <2> QED BY <2>5, <2>6
  <1> QED BY <1>3, <1>4

\* An address that route() gives for a program is right for it.
LEMMA ServedAddress ==
    ASSUME OspfTypeOK, RoutedToServers, RoutedToServers', NEW p \in Resolver,
           RouteRoundRobin \/ RouteNearest(p)
    PROVE  answer' \in Name /\ RightAddr(p, answer')
  <1>0. /\ pc = "route" /\ pc' = "route"
        /\ UNCHANGED <<rr_flag, servs, routing_table, neighbors>>
    BY DEF RouteRoundRobin, RouteNearest, fileVars, graphVars, searchVars
  <1>2. CASE RouteRoundRobin
    <2>1. rr_flag /\ nodes # <<>> /\ answer' = nodes[(query_count % Len(nodes)) + 1]
      BY <1>2 DEF RouteRoundRobin
    <2>2. nodes \in Seq(Name) /\ query_count \in Nat
      BY OspfAssumption DEF OspfTypeOK, GraphTyped, RouteTyped
    <2>3. Len(nodes) \in Nat \ {0}
      BY <2>1, <2>2
    <2>4. (query_count % Len(nodes)) + 1 \in 1 .. Len(nodes)
      BY <2>2, <2>3
    <2>5. answer' \in Name /\ answer' # NULL
      BY <2>1, <2>2, <2>4, OspfAssumption
    <2> QED BY <1>0, <2>1, <2>5 DEF RoutedToServers, RightAddr
  <1>3. CASE RouteNearest(p)
    <2>1. ~rr_flag /\ p \in Range(clits) /\ answer' = routing_table[p]
      BY <1>3 DEF RouteNearest
    <2>2. routing_table[p] \in Range(servs) /\ routing_table[p] \in Reachable(p)
      BY <1>0, <2>1 DEF RoutedToServers
    <2>3. servs \in Seq(Name)
      BY DEF OspfTypeOK, GraphTyped
    <2>4. answer' \in Name
      BY <2>1, <2>2, <2>3, RangeSeq
    <2> QED BY <2>1, <2>2, <2>4 DEF RightAddr
  <1> QED BY <1>2, <1>3

\* or answered.
LEMMA ServeStep ==
    ASSUME DnsTypeOK, Truth, OspfTypeOK, RoutedToServers, RoutedToServers',
           NEW m, nsq # <<>>, m = Head(nsq), ServeValid(m) \/ ServeInvalid(m)
    PROVE  NetTyped' /\ ResolverTyped' /\ Truth'
  <1> USE DEF DnsTypeOK
  <1>1. /\ Tail(nsq) \in Seq(Datagram) /\ m \in Datagram /\ m.p \in Resolver /\ m.host \in Host
        /\ m.id \in Id /\ m = nsq[1] /\ 1 \in 1 .. Len(nsq)
        /\ \A i \in 1 .. Len(Tail(nsq)) : i + 1 \in 1 .. Len(nsq) /\ Tail(nsq)[i] = nsq[i + 1]
    <2>1. nsq \in Seq(Datagram)
      BY DEF NetTyped
    <2>2. /\ Tail(nsq) \in Seq(Datagram) /\ m \in Datagram /\ m = nsq[1]
          /\ Len(nsq) \in Nat \ {0} /\ Len(Tail(nsq)) = Len(nsq) - 1
          /\ \A i \in 1 .. Len(Tail(nsq)) : Tail(nsq)[i] = nsq[i + 1]
      BY <2>1, QueueTail
    <2> QED BY <2>2 DEF Datagram
  <1>2. m.qr = 1 => Record(m) \in given
    BY <1>1 DEF Truth
  <1>3. /\ nsq' = Tail(nsq) /\ ns' = "select"
        /\ UNCHANGED <<stray, sock, asking, result, nask, now, slips, lost>>
    BY DEF ServeValid, ServeInvalid, Served, resolverVars
  <1>4. PICK d \in Datagram :
          /\ net' = net \cup {d} /\ (d.qr = 1 => Record(d) \in given')
          /\ given \subseteq given'
          /\ given' \subseteq [p : Resolver, host : Host, id : Id, addr : Name]
    <2>1. CASE ServeValid(m)
      <3>1. answer' \in Name
        BY <1>1, <2>1, ServedAddress DEF ServeValid
      <3>2. Answer(m, answer') \in Datagram /\ Record(Answer(m, answer')) =
               [p |-> m.p, host |-> m.host, id |-> m.id, addr |-> answer']
        BY <1>1, <3>1, Datagrams DEF Record
      <3> QED BY <1>1, <2>1, <3>1, <3>2 DEF ServeValid, Answered, NetTyped
    <2>2. CASE ServeInvalid(m)
      <3>1. Error(m) \in Datagram /\ Error(m).qr = m.qr /\ Record(Error(m)) = Record(m)
        BY <1>1, Datagrams DEF Record
      <3> QED BY <1>2, <2>2, <3>1 DEF ServeInvalid, Answered, NetTyped
    <2> QED BY <2>1, <2>2
  <1> DEFINE t == Tail(nsq)
  <1>5. nsq' = t /\ t \in Seq(Datagram)
        /\ \A i \in 1 .. Len(t) : i + 1 \in 1 .. Len(nsq) /\ t[i] = nsq[i + 1]
    BY <1>1, <1>3
  <1> HIDE DEF t
  <1>6. NetTyped' /\ ResolverTyped'
    BY <1>3, <1>4, <1>5 DEF NetTyped, ResolverTyped
  <1>7. Truth'
    BY <1>3, <1>4, <1>5 DEF Truth, Record
  <1> QED BY <1>6, <1>7

LEMMA DatagramStep ==
    ASSUME DnsTypeOK, Truth, OspfTypeOK, RoutedToServers, RoutedToServers', DnsNext
    PROVE  DnsTypeOK' /\ Truth'
  <1>0. ASSUME UNCHANGED <<nsq, stray, given, sock, asking, result>>, net' \subseteq net,
               ns' \in {"select", "serve", "exited"}
        PROVE  NetTyped' /\ ResolverTyped' /\ Truth'
    BY <1>0 DEF DnsTypeOK, NetTyped, ResolverTyped, Truth, Record
  <1>1. CASE Serve
    <2>1. PICK m : /\ nsq # <<>> /\ m = Head(nsq)
                   /\ ServeValid(m) \/ ServeInvalid(m) \/ ServeFails(m)
      BY <1>1 DEF Serve
    <2>2. CASE ServeFails(m)
      BY <1>0, <2>2, CounterStep DEF ServeFails, dnsVars, serverVars, resolverVars, DnsTypeOK, NetTyped
    <2> QED BY <2>1, <2>2, ServeStep, CounterStep DEF DnsTypeOK
  <1>2. CASE Starts \/ NsSelect \/ NsSelectFails \/ ServeReadFails \/ Tick
    BY <1>0, <1>2, CounterStep
       DEF Starts, NsSelect, NsSelectFails, ServeReadFails, NsExits, Tick,
           dnsVars, serverVars,
          resolverVars, DnsTypeOK, NetTyped
  <1>3. ASSUME NEW p \in Resolver, (\E h \in Host : Ask(p, h)) \/ Receive(p) \/ ReceiveFails(p)
        PROVE  DnsTypeOK' /\ Truth'
    BY <1>3, ResolveStep, CounterStep DEF DnsTypeOK
  <1>4. ASSUME NEW m \in net, Deliver(m) \/ Duplicate(m)
        PROVE  DnsTypeOK' /\ Truth'
    <2>0. m.p \in Resolver /\ slips[m.p] + 1 \in Nat
      <3>1. PICK p \in Resolver : m.p = p
        BY Fields DEF DnsTypeOK, NetTyped
      <3>2. slips[p] \in Nat
        BY DEF DnsTypeOK, CountersTyped
      <3> QED BY <3>1, <3>2
    <2>1. Arrived(m) /\ \A d \in net' : d \in net \/ \E k \in Nat : d = [m EXCEPT !.copy = k]
      <3>1. CASE Deliver(m)
        BY <3>1 DEF Deliver
      <3>2. CASE Duplicate(m)
        <4> DEFINE k == slips'[m.p]
        <4>1. k \in Nat
          BY <2>0, <3>2 DEF Duplicate, DnsTypeOK, CountersTyped
        <4>2. net' = (net \ {m}) \cup {[m EXCEPT !.copy = k]} /\ Arrived(m)
          BY <3>2 DEF Duplicate
        <4> HIDE DEF k
        <4> QED BY <4>1, <4>2
      <3> QED BY <1>4, <3>1, <3>2
    <2> QED BY <2>1, ArriveStep, CounterStep DEF DnsTypeOK
  <1>5. ASSUME NEW m \in net, Lose(m)
        PROVE  DnsTypeOK' /\ Truth'
    BY <1>0, <1>5, CounterStep DEF Lose, serverVars, resolverVars, DnsTypeOK, NetTyped
  <1> QED BY <1>1, <1>2, <1>3, <1>4, <1>5 DEF DnsNext, DeliverFor

\* Once the name server routes, its lists and its table stay as they are.
LEMMA GraphFrozen ==
    ASSUME [OspfNext]_ospfVars, pc \in {"route", "crashed"}
    PROVE  /\ UNCHANGED <<rr_flag, servs, routing_table, neighbors>>
           /\ pc' \in {"route", "crashed"}
  <1>1. CASE OSPF_init
    BY <1>1 DEF OSPF_init, ReadServer, ReadLSA, AddNeighbor, NextClient, Pop, SkipMarked,
                FindServer, Push, LoopEnds
  <1>2. CASE RouteRoundRobin \/ \E name \in Name : RouteNearest(name) \/ RouteFails(name)
    BY <1>2 DEF RouteRoundRobin, RouteNearest, RouteFails, loadFrame, fileVars, graphVars, searchVars
  <1>3. CASE UNCHANGED ospfVars
    BY <1>3 DEF ospfVars, fileVars, graphVars, searchVars
  <1> QED BY <1>1, <1>2, <1>3 DEF OspfNext

LEMMA ChoiceStep ==
    ASSUME DnsTypeOK, Truth, Choices, OspfTypeOK, RoutedToServers, RoutedToServers', DnsNext
    PROVE  Choices'
  <1>1. ASSUME given # {}
        PROVE  /\ pc' \in {"route", "crashed"}
               /\ \A r \in given : RightAddr(r.p, r.addr)'
    <2>1. /\ UNCHANGED <<rr_flag, servs, routing_table, neighbors>>
          /\ pc' \in {"route", "crashed"}
      BY <1>1, StepOspf, GraphFrozen DEF Choices
    <2>2. \A p : Reachable(p)' = Reachable(p)
      BY <2>1 DEF Reachable, Neighbors
    <2>3. \A p, a : RightAddr(p, a)' <=> RightAddr(p, a)
      BY <2>1, <2>2 DEF RightAddr
    <2> QED BY <2>1, <2>3 DEF Choices
  <1>2. ASSUME UNCHANGED <<given, result>>
        PROVE  Choices'
    BY <1>1, <1>2 DEF Choices
  <1>3. CASE Serve
    <2>1. PICK m : /\ nsq # <<>> /\ m = Head(nsq)
                   /\ ServeValid(m) \/ ServeInvalid(m) \/ ServeFails(m)
      BY <1>3 DEF Serve
    <2>2. CASE ServeValid(m)
      <3>1. m \in Datagram /\ m.p \in Resolver
        <4>1. nsq \in Seq(Datagram)
          BY DEF DnsTypeOK, NetTyped
        <4>2. m \in Datagram
          BY <2>1, <4>1, QueueTail
        <4> QED BY <4>2, Fields
      <3>2. PICK a \in Name : a = answer' /\ RightAddr(m.p, a)
        BY <2>2, <3>1, ServedAddress DEF ServeValid
      <3>3. /\ given' = given \cup {[p |-> m.p, host |-> m.host, id |-> m.id, addr |-> a]}
            /\ result' = result /\ pc = "route" /\ pc' = "route"
        BY <2>2, <3>2 DEF ServeValid, Served, resolverVars, RouteRoundRobin, RouteNearest
      <3>4. UNCHANGED <<rr_flag, servs, routing_table, neighbors>>
        BY <3>3, StepOspf, GraphFrozen
      <3>5. RightAddr(m.p, a)'
        BY <3>2, <3>4 DEF RightAddr, Reachable, Neighbors
      <3>6. \A r \in given' : RightAddr(r.p, r.addr)'
        BY <1>1, <3>3, <3>5
      <3> QED BY <3>3, <3>6 DEF Choices
    <2>3. CASE ServeInvalid(m) \/ ServeFails(m)
      BY <1>2, <2>3 DEF ServeInvalid, ServeFails, Served, dnsVars, serverVars, resolverVars
    <2> QED BY <2>1, <2>2, <2>3
  <1>4. CASE Starts \/ NsSelect \/ NsSelectFails \/ ServeReadFails \/ Tick
    BY <1>2, <1>4 DEF Starts, NsSelect, NsSelectFails, ServeReadFails, NsExits, Tick,
        dnsVars, serverVars, resolverVars
  <1>5. ASSUME NEW p \in Resolver, NEW h \in Host, Ask(p, h)
        PROVE  Choices'
    BY <1>2, <1>5 DEF Ask, serverVars
  <1>6. ASSUME NEW p \in Resolver, Receive(p) \/ ReceiveFails(p)
        PROVE  Choices'
    <2>1. /\ given' = given
          /\ result' = [result EXCEPT ![p] = result'[p]]
          /\ result'[p] # NULL => \E r \in given : r.p = p /\ r.addr = result'[p]
      <3>1. CASE ReceiveFails(p)
        BY <1>6, <3>1 DEF ReceiveFails, serverVars, DnsTypeOK, ResolverTyped
      <3>2. CASE Receive(p)
        <4> DEFINE m == Head(sock[p])
        <4>1. sock[p] # <<>> /\ given' = given
              /\ result' = [result EXCEPT ![p] = IF Matches(asking[p], m) THEN m.addr ELSE NULL]
          BY <3>2 DEF Receive, serverVars
        <4>2. m = sock[p][1] /\ 1 \in 1 .. Len(sock[p])
          BY <1>6, <4>1, QueueTail DEF DnsTypeOK, ResolverTyped
        <4>3. m.p = p /\ (m.qr = 1 => Record(m) \in given)
          BY <1>6, <4>2 DEF DnsTypeOK, ResolverTyped, Truth
        <4>4. Record(m).p = m.p /\ Record(m).addr = m.addr
          BY DEF Record
        <4> HIDE DEF m
        <4> QED BY <1>6, <4>1, <4>3, <4>4 DEF Matches, DnsTypeOK, ResolverTyped
      <3> QED BY <1>6, <3>1, <3>2
    <2>2. \A x \in Resolver : result'[x] # NULL => \E r \in given : r.p = x /\ r.addr = result'[x]
      BY <2>1 DEF Choices, DnsTypeOK, ResolverTyped
    <2> QED BY <1>1, <2>1, <2>2 DEF Choices
  <1>7. ASSUME NEW m \in net, Deliver(m) \/ Duplicate(m) \/ Lose(m)
        PROVE  Choices'
    BY <1>2, <1>7 DEF Deliver, Duplicate, Lose, Arrived, serverVars, resolverVars
  <1> QED BY <1>3, <1>4, <1>5, <1>6, <1>7 DEF DnsNext, DeliverFor

LEMMA InitDnsInv == DnsInit => DnsInv
  <1> SUFFICES ASSUME DnsInit PROVE Truth /\ Choices
    BY InitDnsTypes DEF DnsInv
  <1>1. Truth
    BY DEF DnsInit, Truth
  <1>2. Choices
    BY DEF DnsInit, Choices
  <1> QED BY <1>1, <1>2

LEMMA DnsInvariant == DnsSpec => []DnsInv
  <1>1. ASSUME DnsInv, OspfTypeOK, RoutedToServers, RoutedToServers', [DnsNext]_<<ospfVars, dnsVars>>
        PROVE  DnsInv'
    <2>1. CASE DnsNext
      BY <1>1, <2>1, DatagramStep, ChoiceStep DEF DnsInv
    <2>2. CASE UNCHANGED <<ospfVars, dnsVars>>
      <3>1. DnsTypeOK' /\ Truth'
        BY <1>1, <2>2 DEF dnsVars, serverVars, resolverVars, DnsInv, DnsTypeOK, NetTyped,
                          ResolverTyped, CountersTyped, Truth, Record
      <3>2. Choices'
        BY <1>1, <2>2 DEF dnsVars, serverVars, resolverVars, DnsInv, Choices, RightAddr, Reachable,
                          Neighbors, ospfVars, fileVars, graphVars, searchVars
      <3> QED BY <3>1, <3>2 DEF DnsInv
    <2> QED BY <1>1, <2>1, <2>2
  <1> QED BY <1>1, InitDnsInv, DnsRefinesOspf, OspfTypeCorrect, OspfRouted, PTL DEF DnsSpec

\* Every socket holds datagrams addressed to it, whatever the network does.
THEOREM DnsTypeCorrect == DnsSpec => []DnsTypeOK
  <1>1. DnsInv => DnsTypeOK
    BY DEF DnsInv
  <1> QED BY <1>1, DnsInvariant, PTL

\* No program gets an address that is not a server's, or that the table has for
\* another program, also from an answer that is late or doubled.
THEOREM DnsRightServer == DnsSpec => []RightServer
  <1>1. DnsInv => RightServer
    BY DEF DnsInv, Choices, RightAddr, RightServer
  <1> QED BY <1>1, DnsInvariant, PTL

-----------------------------------------------------------------------------
(* resolve() implements Lookup *)

\* What Lookup sees of the lookups.
Lookups == [p \in Resolver |-> IF asking[p] = NULL THEN NULL
                               ELSE [host |-> asking[p].host, id |-> asking[p].id]]

LEMMA LookupIdle ==
    UNCHANGED <<asking, given, result>> => UNCHANGED <<Lookups, given, result>>
  BY DEF Lookups

\* A query is the beginning of a lookup,
LEMMA AskBegins ==
    ASSUME DnsTypeOK, NEW p \in Resolver, NEW h \in Host, Ask(p, h)
    PROVE  \E i \in Id : L!Begin(p, h, i)
  <1>0. PICK i \in Id : i = RandAt[now]
    BY Queries DEF DnsTypeOK
  <1>1. /\ Query(p, h) # NULL /\ Query(p, h).host = h /\ Query(p, h).id = i
        /\ asking[p] = NULL /\ asking' = [asking EXCEPT ![p] = Query(p, h)]
        /\ given' = given /\ result' = result
        /\ asking \in [Resolver -> Datagram \cup {NULL}]
    BY <1>0, Queries DEF Ask, serverVars, DnsTypeOK, ResolverTyped
  <1>2. Lookups[p] = NULL
    BY <1>1 DEF Lookups
  <1>3. Lookups' = [Lookups EXCEPT ![p] = [host |-> h, id |-> i]]
    BY <1>1 DEF Lookups
  <1>4. L!Begin(p, h, i)
    BY <1>1, <1>2, <1>3 DEF L!Begin, Lookups
  <1> QED BY <1>4

\* a datagram received, or none, its end,
LEMMA ReceiveReturns ==
    ASSUME DnsInv, NEW p \in Resolver, Receive(p) \/ ReceiveFails(p)
    PROVE  \E a \in Name \cup {NULL} : L!Return(p, a)
  <1>1. /\ asking[p] \in Datagram /\ asking[p] # NULL
        /\ asking \in [Resolver -> Datagram \cup {NULL}]
        /\ asking' = [asking EXCEPT ![p] = NULL] /\ given' = given
    BY DEF Receive, ReceiveFails, serverVars, DnsInv, DnsTypeOK, ResolverTyped
  <1>2. asking[p].host \in Host /\ asking[p].id \in Id
    BY <1>1 DEF Datagram
  <1>3. Lookups[p] = [host |-> asking[p].host, id |-> asking[p].id] /\ Lookups[p] # NULL
    BY <1>1, <1>2, DnsAssumption DEF Lookups
  <1>4. Lookups' = [Lookups EXCEPT ![p] = NULL]
    BY <1>1 DEF Lookups
  <1>5. PICK a \in Name \cup {NULL} :
          /\ result' = [result EXCEPT ![p] = a]
          /\ a # NULL => [p |-> p, host |-> asking[p].host, id |-> asking[p].id, addr |-> a] \in given
    <2>1. CASE ReceiveFails(p)
      BY <2>1 DEF ReceiveFails
    <2>2. CASE Receive(p)
      <3> DEFINE m == Head(sock[p])
      <3>1. sock[p] # <<>>
            /\ result' = [result EXCEPT ![p] = IF Matches(asking[p], m) THEN m.addr ELSE NULL]
        BY <2>2 DEF Receive
      <3>2. m = sock[p][1] /\ 1 \in 1 .. Len(sock[p]) /\ m \in Datagram
        BY <3>1, QueueTail DEF DnsInv, DnsTypeOK, ResolverTyped
      <3>3. m.p = p /\ (m.qr = 1 => Record(m) \in given) /\ m.addr \in Name \cup {NULL}
        BY <3>2 DEF DnsInv, DnsTypeOK, ResolverTyped, Truth, Datagram
      <3> HIDE DEF m
      <3>4. Matches(asking[p], m) =>
               Record(m) = [p |-> p, host |-> asking[p].host, id |-> asking[p].id, addr |-> m.addr]
        BY <3>3 DEF Matches, Record
      <3> QED BY <3>1, <3>3, <3>4 DEF Matches
    <2> QED BY <2>1, <2>2
  <1>6. Lookups[p].host = asking[p].host /\ Lookups[p].id = asking[p].id
    BY <1>3
  <1>7. L!Return(p, a)
    BY <1>1, <1>3, <1>4, <1>5, <1>6 DEF L!Return, Lookups
  <1> QED BY <1>7

\* and an answer of the name server a choice.
LEMMA ServeChooses ==
    ASSUME DnsInv, OspfTypeOK, RoutedToServers, RoutedToServers', Serve
    PROVE  \/ \E p \in Resolver, h \in Host, i \in Id, a \in Name : L!Choose(p, h, i, a)
           \/ UNCHANGED <<asking, given, result>>
  <1>1. PICK m : /\ nsq # <<>> /\ m = Head(nsq)
                 /\ ServeValid(m) \/ ServeInvalid(m) \/ ServeFails(m)
    BY DEF Serve
  <1>2. m.p \in Resolver /\ m.host \in Host /\ m.id \in Id
    <2>1. nsq \in Seq(Datagram)
      BY DEF DnsInv, DnsTypeOK, NetTyped
    <2>2. m \in Datagram
      BY <1>1, <2>1, QueueTail
    <2> QED BY <2>2, Fields
  <1>3. CASE ServeValid(m)
    <2>1. answer' \in Name
      BY <1>2, <1>3, ServedAddress DEF ServeValid
    <2>2. /\ given' = given \cup {[p |-> m.p, host |-> m.host, id |-> m.id, addr |-> answer']}
          /\ UNCHANGED <<asking, result>>
      BY <1>3 DEF ServeValid, Served, resolverVars
    <2>3. L!Choose(m.p, m.host, m.id, answer')
      BY <2>2 DEF L!Choose
    <2> QED BY <1>2, <2>1, <2>3
  <1>4. CASE ServeInvalid(m) \/ ServeFails(m)
    BY <1>4 DEF ServeInvalid, ServeFails, Served, dnsVars, serverVars, resolverVars
  <1> QED BY <1>1, <1>3, <1>4

\* resolve() implements Lookup over a network that loses, doubles and delays: for
\* every number of programs and faults, an address it returns was chosen by the
\* name server for this program, host and query number.
THEOREM DnsImplementsLookup == DnsSpec => ResolveSpec
  <1>1. DnsInit => L!LookupInit
    BY DEF DnsInit, L!LookupInit
  <1>2. ASSUME DnsInv, OspfTypeOK, RoutedToServers, RoutedToServers', [DnsNext]_<<ospfVars, dnsVars>>
        PROVE  [L!LookupNext]_(L!lookupVars)
    <2>1. ASSUME UNCHANGED <<asking, given, result>> PROVE UNCHANGED L!lookupVars
      BY <2>1, LookupIdle DEF L!lookupVars, Lookups
    <2>2. CASE UNCHANGED <<ospfVars, dnsVars>>
      BY <2>1, <2>2 DEF dnsVars, serverVars, resolverVars
    <2>3. CASE Starts \/ NsSelect \/ NsSelectFails \/ ServeReadFails \/ Tick
      BY <2>1, <2>3 DEF Starts, NsSelect, NsSelectFails, ServeReadFails, NsExits, Tick,
          dnsVars, serverVars, resolverVars
    <2>4. CASE \E m \in net : Deliver(m) \/ Duplicate(m) \/ Lose(m)
      BY <2>1, <2>4 DEF Deliver, Duplicate, Lose, Arrived, serverVars, resolverVars
    <2>5. CASE Serve
      BY <1>2, <2>1, <2>5, ServeChooses DEF L!LookupNext
    <2>6. ASSUME NEW p \in Resolver, NEW h \in Host, Ask(p, h) PROVE L!LookupNext
      <3>1. PICK i \in Id : L!Begin(p, h, i)
        BY <1>2, <2>6, AskBegins DEF DnsInv
      <3> QED BY <3>1 DEF L!LookupNext
    <2>7. ASSUME NEW p \in Resolver, Receive(p) \/ ReceiveFails(p) PROVE L!LookupNext
      BY <1>2, <2>7, ReceiveReturns DEF L!LookupNext
    <2> QED BY <1>2, <2>2, <2>3, <2>4, <2>5, <2>6, <2>7 DEF DnsNext, DeliverFor
  <1> QED BY <1>1, <1>2, DnsInvariant, DnsRefinesOspf, OspfTypeCorrect, OspfRouted, PTL
          DEF DnsSpec, ResolveSpec, L!LookupSpec

-----------------------------------------------------------------------------
(* How many datagrams each program has *)

\* A datagram and its copies are told apart.
Same(m, d) == m.p = d.p /\ m.n = d.n /\ m.copy = d.copy

\* Each copy is in one place, and those that will be made are not yet anywhere.
Tokens ==
    /\ IsFiniteSet(net)
    /\ \A m, d \in net : Same(m, d) => m = d
    /\ \A i, j \in DOMAIN nsq : Same(nsq[i], nsq[j]) => i = j
    /\ \A m \in net, i \in DOMAIN nsq : ~Same(m, nsq[i])
    /\ \A m \in net : m.n <= nask[m.p] /\ m.copy <= slips[m.p]
    /\ \A i \in DOMAIN nsq : nsq[i].n <= nask[nsq[i].p] /\ nsq[i].copy <= slips[nsq[i].p]

\* d belongs to the lookup p is in, on its way out or as it has to come back.
Genuine(p, d) ==
    /\ asking[p] # NULL
    /\ d.n = asking[p].n /\ d.host = asking[p].host /\ d.id = asking[p].id
    /\ d.to = NS => d.qr = 0 /\ d.rcode = 0
    /\ d.to # NS => IF d.host = VIDEO_HOST THEN d.qr = 1 /\ d.rcode = 0 /\ d.addr # NULL
                    ELSE d.qr = 0

\* Without a slip there is no other datagram of the program.
OnlyGenuine(p) ==
    /\ asking[p] # NULL => asking[p].rcode = 0
    /\ slips[p] = 0 =>
          /\ \A d \in net : d.p = p => Genuine(p, d)
          /\ \A i \in DOMAIN nsq : nsq[i].p = p => Genuine(p, nsq[i])
          /\ \A i \in DOMAIN sock[p] : Genuine(p, sock[p][i]) /\ sock[p][i].to # NS

Current == \A p \in Resolver : OnlyGenuine(p)

BacklogInv == Tokens /\ SurplusStays /\ Current

\* The entries of a queue that are of the program p.
For(s, p) == {i \in DOMAIN s : s[i].p = p}

LEMMA QueueIndices ==
    ASSUME NEW s \in Seq(Datagram)
    PROVE  /\ DOMAIN s = 1 .. Len(s) /\ Len(s) \in Nat
           /\ \A p : IsFiniteSet(For(s, p)) /\ Cardinality(For(s, p)) \in Nat
<1>1. DOMAIN s = 1 .. Len(s) /\ Len(s) \in Nat
  OBVIOUS
<1>2. IsFiniteSet(1 .. Len(s))
  <2>1. 1 \in Int /\ Len(s) \in Int
    BY <1>1
  <2> QED BY <2>1, FS_Interval
<1>3. \A p : For(s, p) \subseteq 1 .. Len(s)
  BY <1>1 DEF For
<1>4. \A p : IsFiniteSet(For(s, p))
  BY <1>2, <1>3, FS_Subset
<1> QED BY <1>1, <1>4, FS_CardinalityType

LEMMA AppendEntries ==
    ASSUME NEW s \in Seq(Datagram), NEW x \in Datagram
    PROVE  \A i \in DOMAIN Append(s, x) :
              Append(s, x)[i] = x \/ \E j \in DOMAIN s : Append(s, x)[i] = s[j]
<1> DEFINE t == Append(s, x)
<1>1. /\ t \in Seq(Datagram) /\ Len(t) = Len(s) + 1 /\ t[Len(s) + 1] = x
      /\ \A i \in 1 .. Len(s) : t[i] = s[i]
  BY QueueAppend
<1>2. DOMAIN t = 1 .. Len(s) + 1 /\ DOMAIN s = 1 .. Len(s) /\ Len(s) \in Nat
  BY <1>1, QueueIndices
<1> HIDE DEF t
<1>3. \A i \in DOMAIN t : i \in 1 .. Len(s) \/ i = Len(s) + 1
  BY <1>2
<1>4. \A i \in DOMAIN t : t[i] = x \/ \E j \in DOMAIN s : t[i] = s[j]
  BY <1>1, <1>2, <1>3
<1> QED BY <1>4 DEF t

LEMMA AppendCount ==
    ASSUME NEW s \in Seq(Datagram), NEW x \in Datagram, NEW p
    PROVE  Cardinality(For(Append(s, x), p)) = Cardinality(For(s, p)) + (IF x.p = p THEN 1 ELSE 0)
<1> DEFINE t == Append(s, x)
           e == Len(s) + 1
<1>1. /\ t \in Seq(Datagram) /\ Len(t) = e /\ t[e] = x
      /\ \A i \in 1 .. Len(s) : t[i] = s[i]
  BY QueueAppend
<1>2. DOMAIN t = 1 .. e /\ DOMAIN s = 1 .. Len(s) /\ Len(s) \in Nat
  BY <1>1, QueueIndices
<1>3. DOMAIN t = DOMAIN s \cup {e} /\ e \notin DOMAIN s
  BY <1>2
<1> HIDE DEF t
<1>4. CASE x.p = p
  <2>1. For(t, p) = For(s, p) \cup {e} /\ e \notin For(s, p)
    BY <1>1, <1>2, <1>3, <1>4 DEF For
  <2>2. Cardinality(For(s, p) \cup {e}) = Cardinality(For(s, p)) + 1
    BY <2>1, QueueIndices, FS_AddElement
  <2> QED BY <1>4, <2>1, <2>2 DEF t
<1>5. CASE x.p # p
  <2>1. For(t, p) = For(s, p)
    BY <1>1, <1>2, <1>3, <1>5 DEF For
  <2>2. Cardinality(For(s, p)) \in Nat
    BY QueueIndices
  <2> QED BY <1>5, <2>1, <2>2 DEF t
<1> QED BY <1>4, <1>5

LEMMA TailCount ==
    ASSUME NEW s \in Seq(Datagram), s # <<>>, NEW p
    PROVE  Cardinality(For(Tail(s), p))
              = Cardinality(For(s, p)) - (IF Head(s).p = p THEN 1 ELSE 0)
<1> DEFINE t == Tail(s)
           R == For(s, p) \ {1}
<1>1. /\ t \in Seq(Datagram) /\ Len(t) = Len(s) - 1 /\ Len(s) \in Nat \ {0}
      /\ \A i \in 1 .. Len(t) : t[i] = s[i + 1]
      /\ Head(s) = s[1]
  BY QueueTail
<1>2. DOMAIN t = 1 .. Len(s) - 1 /\ DOMAIN s = 1 .. Len(s)
  BY <1>1, QueueIndices
<1> HIDE DEF t
<1>3. Cardinality(For(t, p)) = Cardinality(R)
  <2> DEFINE f == [i \in For(t, p) |-> i + 1]
  <2>1. f \in [For(t, p) -> R]
    BY <1>1, <1>2 DEF For
  <2>2. \A i, j \in For(t, p) : f[i] = f[j] => i = j
    BY <1>2 DEF For
  <2>3. \A j \in R : \E i \in For(t, p) : f[i] = j
    <3> SUFFICES ASSUME NEW j \in R PROVE \E i \in For(t, p) : f[i] = j
      OBVIOUS
    <3>1. j \in 1 .. Len(s) /\ j # 1 /\ s[j].p = p
      BY <1>2 DEF For
    <3>2. j - 1 \in 1 .. Len(s) - 1 /\ (j - 1) + 1 = j
      BY <1>1, <3>1
    <3>3. j - 1 \in For(t, p)
      BY <1>1, <1>2, <3>1, <3>2 DEF For
    <3> QED BY <3>2, <3>3
  <2>4. f \in Bijection(For(t, p), R)
    BY <2>1, <2>2, <2>3, Fun_IsBij
  <2>5. IsFiniteSet(For(t, p))
    BY <1>1, QueueIndices
  <2> HIDE DEF f
  <2>6. ExistsBijection(For(t, p), R)
    BY <2>4, Fun_ExistsBij
  <2> QED BY <2>5, <2>6, FS_Bijection
<1>4. CASE Head(s).p = p
  <2>1. 1 \in For(s, p)
    BY <1>1, <1>2, <1>4 DEF For
  <2>2. Cardinality(R) = Cardinality(For(s, p)) - 1
    BY <2>1, QueueIndices, FS_RemoveElement
  <2> QED BY <1>3, <1>4, <2>2 DEF t
<1>5. CASE Head(s).p # p
  <2>1. R = For(s, p)
    BY <1>1, <1>5 DEF For
  <2>2. Cardinality(For(s, p)) \in Nat
    BY QueueIndices
  <2> HIDE DEF R
  <2>3. Cardinality(For(t, p)) = Cardinality(For(s, p)) - 0
    BY <1>3, <2>1, <2>2
  <2> QED BY <1>5, <2>3 DEF t
<1> QED BY <1>4, <1>5

\* The datagrams of the program p.
Of(N, p) == {d \in N : d.p = p}

LEMMA SetCount ==
    ASSUME NEW N, IsFiniteSet(N), NEW p
    PROVE  /\ IsFiniteSet(Of(N, p)) /\ Cardinality(Of(N, p)) \in Nat
           /\ Cardinality(Of(N, p)) = 0 => \A d \in N : d.p # p
<1>1. IsFiniteSet(Of(N, p))
  BY FS_Subset DEF Of
<1>2. Cardinality(Of(N, p)) = 0 => Of(N, p) = {}
  BY <1>1, FS_EmptySet
<1> QED BY <1>1, <1>2, FS_CardinalityType DEF Of

LEMMA AddCount ==
    ASSUME NEW N, IsFiniteSet(N), NEW d, d \notin N, NEW p
    PROVE  /\ IsFiniteSet(N \cup {d})
           /\ Cardinality(Of(N \cup {d}, p)) = Cardinality(Of(N, p)) + (IF d.p = p THEN 1 ELSE 0)
<1>1. IsFiniteSet(N \cup {d})
  BY FS_AddElement
<1>2. IsFiniteSet(Of(N, p)) /\ Cardinality(Of(N, p)) \in Nat /\ d \notin Of(N, p)
  BY SetCount DEF Of
<1>3. CASE d.p = p
  <2>1. Of(N \cup {d}, p) = Of(N, p) \cup {d}
    BY <1>3 DEF Of
  <2>2. Cardinality(Of(N, p) \cup {d}) = Cardinality(Of(N, p)) + 1
    BY <1>2, FS_AddElement
  <2> QED BY <1>1, <1>3, <2>1, <2>2
<1>4. CASE d.p # p
  <2>1. Of(N \cup {d}, p) = Of(N, p)
    BY <1>4 DEF Of
  <2> QED BY <1>1, <1>2, <1>4, <2>1
<1> QED BY <1>3, <1>4

LEMMA RemoveCount ==
    ASSUME NEW N, IsFiniteSet(N), NEW d \in N, NEW p
    PROVE  /\ IsFiniteSet(N \ {d})
           /\ Cardinality(Of(N \ {d}, p)) = Cardinality(Of(N, p)) - (IF d.p = p THEN 1 ELSE 0)
<1>1. IsFiniteSet(N \ {d})
  BY FS_RemoveElement
<1>2. IsFiniteSet(Of(N, p)) /\ Cardinality(Of(N, p)) \in Nat
  BY SetCount
<1>3. CASE d.p = p
  <2>1. Of(N \ {d}, p) = Of(N, p) \ {d} /\ d \in Of(N, p)
    BY <1>3 DEF Of
  <2>2. Cardinality(Of(N, p) \ {d}) = Cardinality(Of(N, p)) - 1
    BY <1>2, <2>1, FS_RemoveElement
  <2> QED BY <1>1, <1>3, <2>1, <2>2
<1>4. CASE d.p # p
  <2>1. Of(N \ {d}, p) = Of(N, p)
    BY <1>4 DEF Of
  <2> QED BY <1>1, <1>2, <1>4, <2>1
<1> QED BY <1>3, <1>4

\* What a datagram that arrives adds to the sockets.
LEMMA ArrivedCount ==
    ASSUME DnsTypeOK, NEW m \in net, Arrived(m), NEW p \in Resolver
    PROVE  Cardinality(For(nsq', p)) + Len(sock'[p])
              = Cardinality(For(nsq, p)) + Len(sock[p]) + (IF m.p = p THEN 1 ELSE 0)
<1>1. /\ m \in Datagram /\ m.p \in Resolver /\ nsq \in Seq(Datagram)
      /\ sock \in [Resolver -> Seq(Datagram)]
  BY DEF DnsTypeOK, NetTyped, ResolverTyped, Datagram
<1>2. Cardinality(For(nsq, p)) \in Nat /\ Len(sock[p]) \in Nat
  BY <1>1, QueueIndices
<1>3. CASE m.to = NS
  <2>1. nsq' = Append(nsq, m) /\ sock' = sock
    BY <1>3 DEF Arrived
  <2>2. Cardinality(For(nsq', p)) = Cardinality(For(nsq, p)) + (IF m.p = p THEN 1 ELSE 0)
    BY <1>1, <2>1, AppendCount
  <2> QED BY <1>2, <2>1, <2>2
<1>4. CASE m.to # NS
  <2>1. sock' = [sock EXCEPT ![m.p] = Append(@, m)] /\ nsq' = nsq
    BY <1>4 DEF Arrived
  <2>2. Len(sock'[p]) = Len(sock[p]) + (IF m.p = p THEN 1 ELSE 0)
    <3>1. CASE m.p = p
      <4>1. sock'[p] = Append(sock[p], m) /\ sock[p] \in Seq(Datagram)
        BY <1>1, <2>1, <3>1
      <4>2. Len(Append(sock[p], m)) = Len(sock[p]) + 1
        BY <1>1, <4>1, QueueAppend
      <4> QED BY <3>1, <4>1, <4>2
    <3>2. CASE m.p # p
      BY <1>1, <1>2, <2>1, <3>2
    <3> QED BY <3>1, <3>2
  <2>3. Cardinality(For(nsq', p)) = Cardinality(For(nsq, p))
    BY <2>1
  <2> DEFINE u == Cardinality(For(nsq, p))
             k == Len(sock[p])
             e == IF m.p = p THEN 1 ELSE 0
  <2>4. u \in Nat /\ k \in Nat /\ e \in Nat
    BY <1>2
  <2>5. Cardinality(For(nsq', p)) = u /\ Len(sock'[p]) = k + e
    BY <2>2, <2>3
  <2> HIDE DEF u, k, e
  <2>6. u + (k + e) = u + k + e
    BY <2>4
  <2> QED BY <2>5, <2>6 DEF u, k, e
<1> QED BY <1>3, <1>4

\* The terms of SurplusStays, before and after a step.
LEMMA Terms ==
    ASSUME DnsTypeOK, DnsTypeOK', IsFiniteSet(net), NEW p \in Resolver
    PROVE  /\ Backlog(p) = Cardinality(Of(net, p)) + Cardinality(For(nsq, p)) + Len(sock[p])
           /\ Backlog(p)' = Cardinality(Of(net', p)) + Cardinality(For(nsq', p)) + Len(sock'[p])
           /\ Cardinality(Of(net, p)) \in Nat /\ Cardinality(For(nsq, p)) \in Nat
           /\ Len(sock[p]) \in Nat /\ slips[p] \in Nat /\ lost[p] \in Nat
           /\ Cardinality(For(nsq', p)) \in Nat /\ Len(sock'[p]) \in Nat
<1>1. nsq \in Seq(Datagram) /\ sock[p] \in Seq(Datagram)
      /\ nsq' \in Seq(Datagram) /\ sock'[p] \in Seq(Datagram)
  BY DEF DnsTypeOK, NetTyped, ResolverTyped
<1>2. slips[p] \in Nat /\ lost[p] \in Nat
  BY DEF DnsTypeOK, CountersTyped
<1>3. Backlog(p) = Cardinality(Of(net, p)) + Cardinality(For(nsq, p)) + Len(sock[p])
  BY DEF Backlog, UnderWay, Unserved, Of, For
<1>4. Backlog(p)' = Cardinality(Of(net', p)) + Cardinality(For(nsq', p)) + Len(sock'[p])
  BY DEF Backlog, UnderWay, Unserved, Of, For
<1>5. Len(sock[p]) \in Nat /\ Len(sock'[p]) \in Nat
  BY <1>1
<1>6. Cardinality(For(nsq, p)) \in Nat /\ Cardinality(For(nsq', p)) \in Nat
  BY <1>1, QueueIndices
<1>7. Cardinality(Of(net, p)) \in Nat
  BY SetCount
<1> QED BY <1>2, <1>3, <1>4, <1>5, <1>6, <1>7

\* A query, and a copy, is told apart from all the others; an answer takes the place
\* of its query.
LEMMA TokensStep ==
    ASSUME DnsTypeOK, OspfTypeOK, RoutedToServers, RoutedToServers', Tokens, DnsNext
    PROVE  Tokens'
<1>0. /\ net \subseteq Datagram /\ nsq \in Seq(Datagram)
      /\ nask \in [Resolver -> Nat] /\ slips \in [Resolver -> Nat]
      /\ \A d \in Datagram : d.p \in Resolver /\ d.n \in Nat /\ d.copy \in Nat
      /\ \A i \in DOMAIN nsq : nsq[i] \in Datagram
  <2>1. /\ net \subseteq Datagram /\ nsq \in Seq(Datagram)
        /\ nask \in [Resolver -> Nat] /\ slips \in [Resolver -> Nat]
    BY DEF DnsTypeOK, NetTyped, CountersTyped
  <2>2. \A d \in Datagram : d.p \in Resolver /\ d.n \in Nat /\ d.copy \in Nat
    BY DEF Datagram
  <2>3. \A i \in DOMAIN nsq : nsq[i] \in Datagram
    BY <2>1
  <2> QED BY <2>1, <2>2, <2>3
<1>1. CASE Serve
  <2>1. PICK m : /\ nsq # <<>> /\ m = Head(nsq)
                 /\ ServeValid(m) \/ ServeInvalid(m) \/ ServeFails(m)
    BY <1>1 DEF Serve
  <2>2. CASE ServeFails(m)
    BY <2>2 DEF ServeFails, dnsVars, serverVars, resolverVars, Tokens
  <2>3. CASE ServeValid(m) \/ ServeInvalid(m)
    <3>1. /\ nsq' = Tail(nsq) /\ UNCHANGED <<nask, slips>>
      BY <2>3 DEF ServeValid, ServeInvalid, Served, resolverVars
    <3>2. m \in Datagram /\ 1 \in DOMAIN nsq /\ m = nsq[1]
          /\ \A i \in DOMAIN nsq' : i + 1 \in DOMAIN nsq /\ nsq'[i] = nsq[i + 1] /\ i + 1 # 1 /\ i \in Nat
      BY <1>0, <2>1, <3>1, QueueTail, QueueIndices
    <3>3. PICK d : Same(d, m) /\ net' = net \cup {d}
      <4>1. CASE ServeValid(m)
        <5>1. answer' \in Name
          BY <1>0, <3>2, <4>1, ServedAddress DEF ServeValid
        <5> QED BY <3>2, <4>1, <5>1, Datagrams DEF ServeValid, Answered, Same
      <4>2. CASE ServeInvalid(m)
        BY <3>2, <4>2, Datagrams DEF ServeInvalid, Answered, Same
      <4> QED BY <2>3, <4>1, <4>2
    <3>4. d \notin net /\ \A x \in net : ~Same(x, d) /\ ~Same(d, x)
      BY <3>2, <3>3 DEF Tokens, Same
    <3>5. IsFiniteSet(net')
      BY <3>3, FS_AddElement DEF Tokens
    <3>6. \A x, y \in net' : Same(x, y) => x = y
      BY <3>3, <3>4 DEF Tokens
    <3>7. \A i, j \in DOMAIN nsq' : Same(nsq'[i], nsq'[j]) => i = j
      BY <3>2 DEF Tokens
    <3>8. \A x \in net', i \in DOMAIN nsq' : ~Same(x, nsq'[i])
      <4>1. ASSUME NEW i \in DOMAIN nsq' PROVE ~Same(d, nsq'[i])
        BY <3>2, <3>3 DEF Tokens, Same
      <4> QED BY <3>2, <3>3, <4>1 DEF Tokens
    <3>9. \A x \in net' : x.n <= nask[x.p] /\ x.copy <= slips[x.p]
      BY <3>2, <3>3 DEF Tokens, Same
    <3>a. \A i \in DOMAIN nsq' : nsq'[i].n <= nask[nsq'[i].p] /\ nsq'[i].copy <= slips[nsq'[i].p]
      BY <3>2 DEF Tokens
    <3> QED BY <3>1, <3>5, <3>6, <3>7, <3>8, <3>9, <3>a DEF Tokens
  <2> QED BY <2>1, <2>2, <2>3
<1>2. CASE Starts \/ NsSelect \/ NsSelectFails \/ ServeReadFails \/ Tick
  BY <1>2 DEF Starts, NsSelect, NsSelectFails, ServeReadFails, NsExits, Tick,
      dnsVars, serverVars, resolverVars, Tokens
<1>3. ASSUME NEW p \in Resolver, NEW h \in Host, Ask(p, h)
      PROVE  Tokens'
  <2> DEFINE d == Query(p, h)
  <2>1. d \in Datagram /\ d.p = p /\ d.n = nask[p] + 1 /\ d.copy = 0
    BY Queries DEF DnsTypeOK
  <2>2. /\ net' = net \cup {d} /\ UNCHANGED <<nsq, slips>>
        /\ nask' = [nask EXCEPT ![p] = @ + 1]
    BY <1>3 DEF Ask, serverVars
  <2> HIDE DEF d
  <2>3. \A x \in Resolver : nask[x] \in Nat /\ slips[x] \in Nat /\ nask[x] <= nask'[x]
    BY <1>0, <2>2
  <2>4. nask'[p] = nask[p] + 1 /\ slips[p] \in Nat
    BY <1>0, <2>2
  <2>5. \A x \in net : ~Same(x, d) /\ ~Same(d, x)
    BY <1>0, <2>1, <2>3 DEF Tokens, Same
  <2>6. \A i \in DOMAIN nsq : ~Same(d, nsq[i])
    BY <1>0, <2>1, <2>3 DEF Tokens, Same
  <2>7. IsFiniteSet(net')
    BY <2>2, FS_AddElement DEF Tokens
  <2>8. \A x, y \in net' : Same(x, y) => x = y
    BY <2>2, <2>5 DEF Tokens
  <2>9. \A x \in net', i \in DOMAIN nsq : ~Same(x, nsq[i])
    BY <2>2, <2>6 DEF Tokens
  <2>a. \A x \in net' : x.n <= nask'[x.p] /\ x.copy <= slips[x.p]
    <3>1. d.n <= nask'[d.p] /\ d.copy <= slips[d.p]
      BY <1>0, <2>1, <2>4
    <3>2. ASSUME NEW x \in net PROVE x.n <= nask'[x.p] /\ x.copy <= slips[x.p]
      <4>1. x.p \in Resolver /\ x.n \in Nat /\ x.n <= nask[x.p] /\ x.copy <= slips[x.p]
        BY <1>0 DEF Tokens
      <4>2. PICK r \in Resolver : r = x.p
        BY <4>1
      <4>3. nask[r] <= nask'[r] /\ nask[r] \in Nat /\ nask'[r] \in Nat
        BY <1>0, <2>2
      <4> QED BY <4>1, <4>2, <4>3
    <3> QED BY <2>2, <3>1, <3>2
  <2>b. \A i \in DOMAIN nsq : nsq[i].n <= nask'[nsq[i].p] /\ nsq[i].copy <= slips[nsq[i].p]
    <3>1. ASSUME NEW i \in DOMAIN nsq
          PROVE  nsq[i].n <= nask'[nsq[i].p] /\ nsq[i].copy <= slips[nsq[i].p]
      <4>1. PICK x \in Datagram : x = nsq[i]
        BY <1>0
      <4>2. x.p \in Resolver /\ x.n \in Nat /\ x.n <= nask[x.p] /\ x.copy <= slips[x.p]
        BY <1>0, <4>1 DEF Tokens
      <4>3. PICK r \in Resolver : r = x.p
        BY <4>2
      <4>4. nask[r] <= nask'[r] /\ nask[r] \in Nat /\ nask'[r] \in Nat
        BY <1>0, <2>2
      <4> QED BY <4>1, <4>2, <4>3, <4>4
    <3> QED BY <3>1
  <2> QED BY <2>2, <2>7, <2>8, <2>9, <2>a, <2>b DEF Tokens
<1>4. ASSUME NEW p \in Resolver, Receive(p)
      PROVE  Tokens'
  BY <1>4 DEF Receive, serverVars, Tokens
<1>5. ASSUME NEW p \in Resolver, ReceiveFails(p)
      PROVE  Tokens'
  <2>1. UNCHANGED <<net, nsq, nask>> /\ slips' = [slips EXCEPT ![p] = @ + 1]
    BY <1>5 DEF ReceiveFails, serverVars
  <2>2. \A x \in Resolver : slips[x] \in Nat /\ slips'[x] \in Nat /\ slips[x] <= slips'[x]
    BY <1>0, <2>1
  <2>3. \A x \in Datagram : x.copy <= slips[x.p] => x.copy <= slips'[x.p]
    BY <1>0, <2>2
  <2> QED BY <1>0, <2>1, <2>3 DEF Tokens
<1>6. ASSUME NEW m \in net, Deliver(m) \/ Duplicate(m) \/ Lose(m)
      PROVE  Tokens'
  <2>1. /\ m \in Datagram /\ m.p \in Resolver /\ slips[m.p] \in Nat /\ nask' = nask
        /\ (nsq' = nsq \/ nsq' = Append(nsq, m))
    <3>1. m \in Datagram /\ m.p \in Resolver /\ slips[m.p] \in Nat
      BY <1>0
    <3>2. nask' = nask /\ (nsq' = nsq \/ nsq' = Append(nsq, m))
      <4>1. CASE Lose(m)
        BY <4>1 DEF Lose, serverVars, resolverVars
      <4>2. CASE Deliver(m) \/ Duplicate(m)
        <5>1. Arrived(m)
          BY <4>2 DEF Deliver, Duplicate
        <5> QED BY <4>2, <5>1 DEF Arrived
      <4> QED BY <1>6, <4>1, <4>2
    <3> QED BY <3>1, <3>2
  <2>2. PICK E : /\ net' = (net \ {m}) \cup E
                 /\ E = {} \/ \E c \in Datagram :
                                 /\ E = {c} /\ c.p = m.p /\ c.n = m.n
                                 /\ c.copy = slips[m.p] + 1 /\ slips'[m.p] = slips[m.p] + 1
                 /\ \A x \in Resolver : slips'[x] \in Nat /\ slips[x] <= slips'[x]
    <3>0. ASSUME net' = net \ {m}, slips' = slips
          PROVE  /\ net' = (net \ {m}) \cup {}
                 /\ \A x \in Resolver : slips'[x] \in Nat /\ slips[x] <= slips'[x]
      BY <1>0, <3>0
    <3>1. CASE Deliver(m)
      BY <3>0, <3>1 DEF Deliver
    <3>2. CASE Lose(m)
      BY <3>0, <3>2 DEF Lose
    <3>3. CASE Duplicate(m)
      <4> DEFINE k == slips[m.p] + 1
                 c == [m EXCEPT !.copy = k]
      <4>1. slips' = [slips EXCEPT ![m.p] = k] /\ slips'[m.p] = k /\ k \in Nat
        BY <1>0, <2>1, <3>3 DEF Duplicate
      <4>2. net' = (net \ {m}) \cup {c}
        BY <3>3, <4>1 DEF Duplicate
      <4>3. c \in Datagram /\ c.p = m.p /\ c.n = m.n /\ c.copy = k
        BY <2>1, <4>1, Copies
      <4>4. \A x \in Resolver : slips'[x] \in Nat /\ slips[x] <= slips'[x]
        BY <1>0, <2>1, <4>1
      <4> HIDE DEF c
      <4> QED BY <4>1, <4>2, <4>3, <4>4
    <3> QED BY <1>6, <3>1, <3>2, <3>3
  <2>3. \A c \in E : /\ c \in Datagram /\ c.p = m.p /\ c.n = m.n
                     /\ c.copy = slips[m.p] + 1 /\ c.copy <= slips'[m.p]
                     /\ \A x \in net : ~Same(x, c) /\ ~Same(c, x)
                     /\ \A i \in DOMAIN nsq : ~Same(c, nsq[i])
    <3> SUFFICES ASSUME NEW c \in E
                 PROVE  /\ c \in Datagram /\ c.p = m.p /\ c.n = m.n
                        /\ c.copy = slips[m.p] + 1 /\ c.copy <= slips'[m.p]
                        /\ \A x \in net : ~Same(x, c) /\ ~Same(c, x)
                        /\ \A i \in DOMAIN nsq : ~Same(c, nsq[i])
      OBVIOUS
    <3>1. /\ c \in Datagram /\ c.p = m.p /\ c.n = m.n
          /\ c.copy = slips[m.p] + 1 /\ c.copy <= slips'[m.p]
      BY <2>1, <2>2
    <3>2. PICK k \in Nat : k = slips[m.p]
      BY <2>1
    <3>3. \A x \in net : x.p = m.p => x.copy \in Nat /\ x.copy <= k
      BY <1>0, <3>2 DEF Tokens
    <3>4. \A i \in DOMAIN nsq : nsq[i].p = m.p => nsq[i].copy \in Nat /\ nsq[i].copy <= k
      BY <1>0, <3>2 DEF Tokens
    <3>5. \A x \in net : ~Same(x, c) /\ ~Same(c, x)
      BY <3>1, <3>2, <3>3 DEF Same
    <3>6. \A i \in DOMAIN nsq : ~Same(c, nsq[i])
      BY <3>1, <3>2, <3>4 DEF Same
    <3> QED BY <3>1, <3>5, <3>6
  <2>4. IsFiniteSet(net')
    <3>1. IsFiniteSet(net \ {m})
      BY FS_RemoveElement DEF Tokens
    <3>2. E = {} \/ \E c : E = {c}
      BY <2>2
    <3> QED BY <2>2, <3>1, <3>2, FS_AddElement
  <2>5. \A x, y \in net' : Same(x, y) => x = y
    <3>1. \A x, y \in E : x = y
      BY <2>2
    <3> QED BY <2>2, <2>3, <3>1 DEF Tokens
  <2>6. \A i \in DOMAIN nsq' : \/ i \in DOMAIN nsq /\ nsq'[i] = nsq[i]
                               \/ i \notin DOMAIN nsq /\ i = Len(nsq) + 1 /\ nsq'[i] = m
    <3>1. DOMAIN nsq = 1 .. Len(nsq) /\ Len(nsq) \in Nat
      BY <1>0, QueueIndices
    <3>2. CASE nsq' = nsq
      BY <3>2
    <3>3. CASE nsq' = Append(nsq, m)
      <4> DEFINE t == Append(nsq, m)
      <4>1. /\ t \in Seq(Datagram) /\ Len(t) = Len(nsq) + 1 /\ t[Len(nsq) + 1] = m
            /\ \A i \in 1 .. Len(nsq) : t[i] = nsq[i]
        BY <1>0, <2>1, QueueAppend
      <4>2. DOMAIN t = 1 .. Len(nsq) + 1
        BY <4>1, QueueIndices
      <4> HIDE DEF t
      <4>3. \A i \in DOMAIN t : i \in DOMAIN nsq \/ (i \notin DOMAIN nsq /\ i = Len(nsq) + 1)
        BY <3>1, <4>2
      <4>4. \A i \in DOMAIN t : \/ i \in DOMAIN nsq /\ t[i] = nsq[i]
                                \/ i \notin DOMAIN nsq /\ i = Len(nsq) + 1 /\ t[i] = m
        BY <3>1, <4>1, <4>3
      <4> QED BY <3>3, <4>4 DEF t
    <3> QED BY <2>1, <3>2, <3>3
  <2>7. \A i \in DOMAIN nsq : ~Same(m, nsq[i]) /\ ~Same(nsq[i], m)
    BY DEF Tokens, Same
  <2>8. \A i, j \in DOMAIN nsq' : Same(nsq'[i], nsq'[j]) => i = j
    BY <2>6, <2>7 DEF Tokens
  <2>9. \A x \in net', i \in DOMAIN nsq' : ~Same(x, nsq'[i])
    <3> SUFFICES ASSUME NEW x \in net', NEW i \in DOMAIN nsq', Same(x, nsq'[i]) PROVE FALSE
      OBVIOUS
    <3>1. CASE nsq'[i] = m
      <4>1. x \notin E
        BY <2>3, <3>1
      <4>2. x \in net /\ x # m
        BY <2>2, <4>1
      <4> QED BY <3>1, <4>2 DEF Tokens
    <3>2. CASE i \in DOMAIN nsq /\ nsq'[i] = nsq[i]
      BY <2>2, <2>3, <3>2 DEF Tokens
    <3> QED BY <2>6, <3>1, <3>2
  <2>a. \A x \in Datagram : x.copy <= slips[x.p] => x.copy <= slips'[x.p]
    <3> SUFFICES ASSUME NEW x \in Datagram, x.copy <= slips[x.p] PROVE x.copy <= slips'[x.p]
      OBVIOUS
    <3>1. PICK r \in Resolver : r = x.p
      BY <1>0
    <3>2. x.copy \in Nat /\ x.copy <= slips[r] /\ slips[r] \in Nat /\ slips'[r] \in Nat /\ slips[r] <= slips'[r]
      BY <1>0, <2>2, <3>1
    <3> QED BY <3>1, <3>2
  <2>b. \A x \in net' : x.n <= nask[x.p] /\ x.copy <= slips'[x.p]
    <3> SUFFICES ASSUME NEW x \in net' PROVE x.n <= nask[x.p] /\ x.copy <= slips'[x.p]
      OBVIOUS
    <3>1. CASE x \in E
      BY <2>3, <3>1 DEF Tokens
    <3>2. CASE x \in net
      BY <1>0, <2>a, <3>2 DEF Tokens
    <3> QED BY <2>2, <3>1, <3>2
  <2>c. \A i \in DOMAIN nsq' : nsq'[i].n <= nask[nsq'[i].p] /\ nsq'[i].copy <= slips'[nsq'[i].p]
    BY <1>0, <2>1, <2>6, <2>a DEF Tokens
  <2> QED BY <2>1, <2>4, <2>5, <2>8, <2>9, <2>b, <2>c DEF Tokens
<1> QED BY <1>1, <1>2, <1>3, <1>4, <1>5, <1>6 DEF DnsNext, DeliverFor

\* One datagram more for every copy and every failed read, one less for every loss.
LEMMA BehindStep ==
    ASSUME DnsTypeOK, DnsTypeOK', OspfTypeOK, RoutedToServers, RoutedToServers',
           Tokens, SurplusStays, DnsNext
    PROVE  SurplusStays'
<1>0. /\ net \subseteq Datagram /\ nsq \in Seq(Datagram) /\ IsFiniteSet(net)
      /\ asking \in [Resolver -> Datagram \cup {NULL}]
      /\ sock \in [Resolver -> Seq(Datagram)]
      /\ slips \in [Resolver -> Nat] /\ lost \in [Resolver -> Nat]
  BY DEF DnsTypeOK, NetTyped, ResolverTyped, CountersTyped, Tokens
<1> SUFFICES ASSUME NEW p \in Resolver
             PROVE  Backlog(p)' + lost'[p] = slips'[p] + (IF asking'[p] = NULL THEN 0 ELSE 1)
  BY DEF SurplusStays
<1>1. Backlog(p) + lost[p] = slips[p] + (IF asking[p] = NULL THEN 0 ELSE 1)
  BY DEF SurplusStays
<1> DEFINE u == Cardinality(Of(net, p))
           v == Cardinality(For(nsq, p))
           w == Len(sock[p])
           a == IF asking[p] = NULL THEN 0 ELSE 1
           uu == Cardinality(Of(net', p))
           vv == Cardinality(For(nsq', p))
           ww == Len(sock'[p])
           aa == IF asking'[p] = NULL THEN 0 ELSE 1
<1>2. /\ slips'[p] \in Nat /\ lost'[p] \in Nat /\ uu \in Nat
      /\ Backlog(p) = u + v + w /\ Backlog(p)' = uu + vv + ww
      /\ u \in Nat /\ v \in Nat /\ w \in Nat /\ vv \in Nat /\ ww \in Nat
      /\ slips[p] \in Nat /\ lost[p] \in Nat
  <2>1. IsFiniteSet(net') /\ slips'[p] \in Nat /\ lost'[p] \in Nat
    BY TokensStep DEF Tokens, DnsTypeOK, CountersTyped
  <2>2. uu \in Nat
    BY <2>1, SetCount
  <2> HIDE DEF u, v, w, a, uu, vv, ww, aa
  <2>3. /\ Backlog(p) = u + v + w /\ Backlog(p)' = uu + vv + ww
        /\ u \in Nat /\ v \in Nat /\ w \in Nat /\ vv \in Nat /\ ww \in Nat
        /\ slips[p] \in Nat /\ lost[p] \in Nat
    BY <1>0, Terms DEF u, v, w, a, uu, vv, ww, aa
  <2> QED BY <2>1, <2>2, <2>3
<1>3. a \in 0 .. 1 /\ aa \in 0 .. 1 /\ u + v + w + lost[p] = slips[p] + a
  BY <1>1, <1>2
\* What remains to be shown, with the changes as numbers.
<1>4. ASSUME uu + (vv + ww) + lost'[p] = slips'[p] + aa
      PROVE  Backlog(p)' + lost'[p] = slips'[p] + aa
  <2> HIDE DEF u, v, w, a, uu, vv, ww, aa
  <2> QED BY <1>2, <1>4
<1>k. ASSUME UNCHANGED <<net, nsq, sock, asking, slips, lost>>
      PROVE  Backlog(p)' + lost'[p] = slips'[p] + aa
  <2>1. uu = u /\ vv = v /\ ww = w /\ aa = a /\ slips'[p] = slips[p] /\ lost'[p] = lost[p]
    BY <1>k
  <2> HIDE DEF u, v, w, a, uu, vv, ww, aa
  <2> QED BY <1>2, <1>3, <2>1
<1>5. CASE Serve
  <2>1. PICK m : /\ nsq # <<>> /\ m = Head(nsq)
                 /\ ServeValid(m) \/ ServeInvalid(m) \/ ServeFails(m)
    BY <1>5 DEF Serve
  <2>2. CASE ServeFails(m)
    BY <1>k, <2>2 DEF ServeFails, dnsVars, serverVars, resolverVars
  <2>3. CASE ServeValid(m) \/ ServeInvalid(m)
    <3>1. nsq' = Tail(nsq) /\ UNCHANGED <<sock, asking, slips, lost>>
      BY <2>3 DEF ServeValid, ServeInvalid, Served, resolverVars
    <3>2. m \in Datagram /\ 1 \in DOMAIN nsq /\ m = nsq[1]
      BY <1>0, <2>1, QueueTail, QueueIndices
    <3>3. PICK d : Same(d, m) /\ net' = net \cup {d}
      <4>1. CASE ServeValid(m)
        <5>1. m.p \in Resolver
          BY <3>2, Fields
        <5>2. answer' \in Name
          BY <4>1, <5>1, ServedAddress DEF ServeValid
        <5> QED BY <3>2, <4>1, <5>2, Datagrams DEF ServeValid, Answered, Same
      <4>2. CASE ServeInvalid(m)
        BY <3>2, <4>2, Datagrams DEF ServeInvalid, Answered, Same
      <4> QED BY <2>3, <4>1, <4>2
    <3>4. d \notin net /\ d.p = m.p
      BY <3>2, <3>3 DEF Tokens, Same
    <3> DEFINE e == IF m.p = p THEN 1 ELSE 0
    <3>5. uu = u + e
      <4>1. Cardinality(Of(net \cup {d}, p)) = Cardinality(Of(net, p)) + (IF d.p = p THEN 1 ELSE 0)
        BY <1>0, <3>4, AddCount
      <4> QED BY <3>3, <3>4, <4>1
    <3>6. vv = v - e
      BY <1>0, <2>1, <3>1, TailCount
    <3>7. ww = w /\ aa = a /\ slips'[p] = slips[p] /\ lost'[p] = lost[p] /\ e \in Int
      BY <3>1
    <3> HIDE DEF u, v, w, a, uu, vv, ww, aa, e
    <3>8. uu + (vv + ww) + lost'[p] = slips'[p] + aa
      BY <1>2, <1>3, <3>5, <3>6, <3>7
    <3> QED BY <1>4, <3>8 DEF aa
  <2> QED BY <2>1, <2>2, <2>3
<1>6. CASE Starts \/ NsSelect \/ NsSelectFails \/ ServeReadFails \/ Tick
  BY <1>k, <1>6 DEF Starts, NsSelect, NsSelectFails, ServeReadFails, NsExits, Tick,
      dnsVars, serverVars, resolverVars
<1>7. ASSUME NEW x \in Resolver, NEW h \in Host, Ask(x, h)
      PROVE  Backlog(p)' + lost'[p] = slips'[p] + aa
  <2> DEFINE d == Query(x, h)
             e == IF x = p THEN 1 ELSE 0
  <2>1. d \in Datagram /\ d # NULL /\ d.p = x /\ d.n = nask[x] + 1
    BY Queries DEF DnsTypeOK
  <2>2. /\ asking[x] = NULL /\ asking' = [asking EXCEPT ![x] = d] /\ net' = net \cup {d}
        /\ UNCHANGED <<nsq, sock, slips, lost>>
    BY <1>7 DEF Ask, serverVars
  <2> HIDE DEF d
  <2>3. d \notin net
    <3>1. nask[x] \in Nat
      BY DEF DnsTypeOK, CountersTyped
    <3> QED BY <2>1, <3>1 DEF Tokens
  <2>4. uu = u + e
    <3>1. Cardinality(Of(net \cup {d}, p)) = Cardinality(Of(net, p)) + (IF d.p = p THEN 1 ELSE 0)
      BY <1>0, <2>3, AddCount
    <3> QED BY <2>1, <2>2, <3>1
  <2>5. aa = a + e
    BY <1>0, <2>1, <2>2
  <2>6. vv = v /\ ww = w /\ slips'[p] = slips[p] /\ lost'[p] = lost[p] /\ e \in Int
    BY <2>2
  <2> HIDE DEF u, v, w, a, uu, vv, ww, aa, e
  <2>7. uu + (vv + ww) + lost'[p] = slips'[p] + aa
    BY <1>2, <1>3, <2>4, <2>5, <2>6
  <2> QED BY <1>4, <2>7
<1>8. ASSUME NEW x \in Resolver, Receive(x)
      PROVE  Backlog(p)' + lost'[p] = slips'[p] + aa
  <2> DEFINE e == IF x = p THEN 1 ELSE 0
  <2>1. /\ asking[x] # NULL /\ sock[x] # <<>> /\ asking' = [asking EXCEPT ![x] = NULL]
        /\ sock' = [sock EXCEPT ![x] = Tail(@)] /\ UNCHANGED <<net, nsq, slips, lost>>
    BY <1>8 DEF Receive, ReadFrom, serverVars
  <2>2. ww = w - e
    <3>1. CASE x = p
      <4>1. sock'[p] = Tail(sock[p]) /\ sock[p] \in Seq(Datagram) /\ sock[p] # <<>>
        BY <1>0, <2>1, <3>1
      <4>2. Len(Tail(sock[p])) = Len(sock[p]) - 1
        BY <4>1, QueueTail
      <4> QED BY <3>1, <4>1, <4>2
    <3>2. CASE x # p
      <4>1. sock'[p] = sock[p]
        BY <1>0, <2>1, <3>2
      <4>2. e = 0 /\ ww = w
        BY <3>2, <4>1
      <4> HIDE DEF w, ww, e
      <4> QED BY <1>2, <4>2
    <3> QED BY <3>1, <3>2
  <2>3. aa = a - e
    BY <1>0, <2>1
  <2>4. uu = u /\ vv = v /\ slips'[p] = slips[p] /\ lost'[p] = lost[p] /\ e \in Int
    BY <2>1
  <2> HIDE DEF u, v, w, a, uu, vv, ww, aa, e
  <2>5. u + v + (w - e) + lost[p] = slips[p] + (a - e)
    BY <1>2, <1>3, <2>4
  <2>6. uu + (vv + ww) + lost'[p] = slips'[p] + aa
    BY <1>2, <2>2, <2>3, <2>4, <2>5
  <2> QED BY <1>4, <2>6
<1>9. ASSUME NEW x \in Resolver, ReceiveFails(x)
      PROVE  Backlog(p)' + lost'[p] = slips'[p] + aa
  <2> DEFINE e == IF x = p THEN 1 ELSE 0
  <2>1. /\ asking[x] # NULL /\ asking' = [asking EXCEPT ![x] = NULL]
        /\ slips' = [slips EXCEPT ![x] = @ + 1] /\ UNCHANGED <<net, nsq, sock, lost>>
    BY <1>9 DEF ReceiveFails, serverVars
  <2>2. aa = a - e
    BY <1>0, <2>1
  <2>3. slips'[p] = slips[p] + e
    BY <1>0, <2>1
  <2>4. uu = u /\ vv = v /\ ww = w /\ lost'[p] = lost[p] /\ e \in Int
    BY <2>1
  <2> HIDE DEF u, v, w, a, uu, vv, ww, aa, e
  <2>5. uu + (vv + ww) + lost'[p] = slips'[p] + aa
    BY <1>2, <1>3, <2>2, <2>3, <2>4
  <2> QED BY <1>4, <2>5
<1>a. ASSUME NEW m \in net, Deliver(m) \/ Duplicate(m) \/ Lose(m)
      PROVE  Backlog(p)' + lost'[p] = slips'[p] + aa
  <2> DEFINE e == IF m.p = p THEN 1 ELSE 0
  <2>1. Cardinality(Of(net \ {m}, p)) = u - e /\ IsFiniteSet(net \ {m})
    BY <1>0, RemoveCount
  <2>2. m \in Datagram /\ m.p \in Resolver /\ e \in Int
    BY <1>0, Fields
  <2>3. CASE Lose(m)
    <3>1. /\ lost' = [lost EXCEPT ![m.p] = @ + 1] /\ net' = net \ {m}
          /\ UNCHANGED <<nsq, sock, asking, slips>>
      BY <2>3 DEF Lose, serverVars, resolverVars
    <3>2. lost'[p] = lost[p] + e
      BY <1>0, <3>1
    <3>3. uu = u - e
      BY <2>1, <3>1
    <3>4. vv = v /\ ww = w /\ aa = a /\ slips'[p] = slips[p]
      BY <3>1
    <3> HIDE DEF u, v, w, a, uu, vv, ww, aa, e
    <3>5. uu + (vv + ww) + lost'[p] = slips'[p] + aa
      BY <1>2, <1>3, <2>2, <3>2, <3>3, <3>4
    <3> QED BY <1>4, <3>5
  <2>4. ASSUME Arrived(m) PROVE vv + ww = v + w + e /\ aa = a
    BY <2>4, ArrivedCount DEF Arrived
  <2>5. CASE Deliver(m)
    <3>1. Arrived(m) /\ net' = net \ {m} /\ UNCHANGED <<slips, lost>>
      BY <2>5 DEF Deliver
    <3>2. uu = u - e /\ slips'[p] = slips[p] /\ lost'[p] = lost[p] /\ vv + ww = v + w + e /\ aa = a
      BY <2>1, <2>4, <3>1
    <3> HIDE DEF u, v, w, a, uu, vv, ww, aa, e
    <3>3. uu + (vv + ww) + lost'[p] = slips'[p] + aa
      BY <1>2, <1>3, <2>2, <3>2
    <3> QED BY <1>4, <3>3
  <2>6. CASE Duplicate(m)
    <3> DEFINE k == slips[m.p] + 1
               c == [m EXCEPT !.copy = k]
    <3>1. slips' = [slips EXCEPT ![m.p] = k] /\ slips'[m.p] = k /\ k \in Nat
      BY <1>0, <2>2, <2>6 DEF Duplicate
    <3>2. net' = (net \ {m}) \cup {c} /\ Arrived(m) /\ lost' = lost
      BY <2>6, <3>1 DEF Duplicate
    <3>3. c.p = m.p /\ c.copy = k
      BY <2>2, <3>1, Copies
    <3>4. slips'[p] = slips[p] + e
      BY <1>0, <2>2, <3>1
    <3> HIDE DEF c
    <3>5. c \notin net
      BY <2>2, <1>0, <3>3 DEF Tokens
    <3>6. Cardinality(Of((net \ {m}) \cup {c}, p)) = Cardinality(Of(net \ {m}, p)) + e
      <4>1. Cardinality(Of((net \ {m}) \cup {c}, p))
               = Cardinality(Of(net \ {m}, p)) + (IF c.p = p THEN 1 ELSE 0)
        BY <2>1, <3>5, AddCount
      <4> QED BY <3>3, <4>1
    <3>7. uu = u - e + e /\ lost'[p] = lost[p] /\ vv + ww = v + w + e /\ aa = a
      BY <2>1, <2>4, <3>2, <3>6
    <3> HIDE DEF u, v, w, a, uu, vv, ww, aa, e
    <3>8. uu + (vv + ww) + lost'[p] = slips'[p] + aa
      BY <1>2, <1>3, <2>2, <3>4, <3>7
    <3> QED BY <1>4, <3>8
  <2> QED BY <1>a, <2>3, <2>5, <2>6
<1> QED BY <1>5, <1>6, <1>7, <1>8, <1>9, <1>a DEF DnsNext, DeliverFor

\* Where there is no surplus, the socket has the last datagram of the program, or there
\* is none of it anywhere.
LEMMA NothingElse ==
    ASSUME DnsTypeOK, DnsTypeOK', Tokens, SurplusStays, NEW p \in Resolver, slips[p] = 0,
           asking[p] = NULL \/ sock[p] # <<>>
    PROVE  /\ \A d \in net : d.p # p
           /\ \A i \in DOMAIN nsq : nsq[i].p # p
           /\ Len(sock[p]) = IF asking[p] = NULL THEN 0 ELSE 1
<1> DEFINE u == Cardinality(Of(net, p))
           v == Cardinality(For(nsq, p))
           w == Len(sock[p])
           a == IF asking[p] = NULL THEN 0 ELSE 1
<1>1. /\ Backlog(p) = u + v + w /\ Backlog(p) + lost[p] = slips[p] + a
      /\ u \in Nat /\ v \in Nat /\ w \in Nat /\ lost[p] \in Nat
  BY Terms DEF Tokens, SurplusStays
<1>2. sock[p] \in Seq(Datagram) /\ nsq \in Seq(Datagram) /\ IsFiniteSet(net)
  BY DEF DnsTypeOK, NetTyped, ResolverTyped, Tokens
<1>3. a \in 0 .. 1 /\ (a = 1 => w # 0)
  <2>1. CASE asking[p] = NULL
    BY <2>1
  <2>2. CASE sock[p] # <<>>
    BY <1>2, <2>2
  <2> QED BY <2>1, <2>2
<1>4. u = 0 /\ v = 0 /\ w = a
  <2>1. slips[p] = 0 /\ (w = 0 => a = 0)
    BY <1>3
  <2> HIDE DEF u, v, w, a
  <2> QED BY <1>1, <1>3, <2>1
<1>5. \A d \in net : d.p # p
  BY <1>2, <1>4, SetCount
<1>6. For(nsq, p) = {}
  BY <1>2, <1>4, QueueIndices, FS_EmptySet
<1> QED BY <1>4, <1>5, <1>6 DEF For

\* Without a slip, what is under way stays the datagram of the lookup.
LEMMA CurrentStep ==
    ASSUME DnsTypeOK, DnsTypeOK', OspfTypeOK, RoutedToServers, RoutedToServers',
           Tokens, SurplusStays, Current, DnsNext
    PROVE  Current'
<1>0. /\ net \subseteq Datagram /\ nsq \in Seq(Datagram)
      /\ asking \in [Resolver -> Datagram \cup {NULL}]
      /\ sock \in [Resolver -> Seq(Datagram)] /\ slips \in [Resolver -> Nat]
      /\ \A i \in DOMAIN nsq : nsq[i] \in Datagram /\ nsq[i].to = NS
  <2>1. /\ nsq \in Seq(Datagram) /\ \A i \in 1 .. Len(nsq) : nsq[i].to = NS
    BY DEF DnsTypeOK, NetTyped
  <2>2. \A i \in DOMAIN nsq : nsq[i] \in Datagram /\ nsq[i].to = NS
    BY <2>1, QueueIndices
  <2> QED BY <2>1, <2>2 DEF DnsTypeOK, NetTyped, ResolverTyped, CountersTyped
<1> SUFFICES ASSUME NEW p \in Resolver PROVE OnlyGenuine(p)'
  BY DEF Current
<1>1. OnlyGenuine(p)
  BY DEF Current
\* The programs of other datagrams, and the steps that only move those of p.
<1>2. ASSUME asking'[p] = asking[p], slips'[p] = slips[p],
             \A d \in net' : d \in net \/ (d.p = p /\ slips[p] = 0 => Genuine(p, d)),
             \A i \in DOMAIN nsq' : nsq'[i] \in net \/ \E j \in DOMAIN nsq : nsq'[i] = nsq[j],
             \A i \in DOMAIN sock'[p] :
                \/ \E j \in DOMAIN sock[p] : sock'[p][i] = sock[p][j]
                \/ sock'[p][i] \in net /\ sock'[p][i].to # NS /\ sock'[p][i].p = p
      PROVE  OnlyGenuine(p)'
  <2>1. ASSUME slips[p] = 0, NEW d \in net', d.p = p PROVE Genuine(p, d)
    BY <1>1, <1>2, <2>1 DEF OnlyGenuine
  <2>2. ASSUME slips[p] = 0, NEW i \in DOMAIN nsq', nsq'[i].p = p PROVE Genuine(p, nsq'[i])
    <3>1. CASE nsq'[i] \in net
      BY <1>1, <2>2, <3>1 DEF OnlyGenuine
    <3>2. CASE \E j \in DOMAIN nsq : nsq'[i] = nsq[j]
      <4>1. PICK j \in DOMAIN nsq : nsq'[i] = nsq[j]
        BY <3>2
      <4> QED BY <1>1, <2>2, <4>1 DEF OnlyGenuine
    <3> QED BY <1>2, <3>1, <3>2
  <2>3. ASSUME slips[p] = 0, NEW i \in DOMAIN sock'[p]
        PROVE  Genuine(p, sock'[p][i]) /\ sock'[p][i].to # NS
    <3>1. CASE sock'[p][i] \in net /\ sock'[p][i].to # NS /\ sock'[p][i].p = p
      BY <1>1, <2>3, <3>1 DEF OnlyGenuine
    <3>2. CASE \E j \in DOMAIN sock[p] : sock'[p][i] = sock[p][j]
      <4>1. PICK j \in DOMAIN sock[p] : sock'[p][i] = sock[p][j]
        BY <3>2
      <4> QED BY <1>1, <2>3, <4>1 DEF OnlyGenuine
    <3> QED BY <1>2, <3>1, <3>2
  <2> QED BY <1>1, <1>2, <2>1, <2>2, <2>3 DEF OnlyGenuine, Genuine
<1>3. ASSUME asking'[p] = asking[p] \/ asking'[p] = NULL, slips'[p] # 0 PROVE OnlyGenuine(p)'
  BY <1>1, <1>3 DEF OnlyGenuine
<1>4. CASE Serve
  <2>1. PICK m : /\ nsq # <<>> /\ m = Head(nsq)
                 /\ ServeValid(m) \/ ServeInvalid(m) \/ ServeFails(m)
    BY <1>4 DEF Serve
  <2>2. CASE ServeFails(m)
    BY <1>2, <2>2 DEF ServeFails, dnsVars, serverVars, resolverVars
  <2>3. CASE ServeValid(m) \/ ServeInvalid(m)
    <3>1. nsq' = Tail(nsq) /\ UNCHANGED <<sock, asking, slips>>
      BY <2>3 DEF ServeValid, ServeInvalid, Served, resolverVars
    <3>2. /\ m \in Datagram /\ 1 \in DOMAIN nsq /\ m = nsq[1] /\ m.to = NS /\ m.p \in Resolver
          /\ \A i \in DOMAIN nsq' : i + 1 \in DOMAIN nsq /\ nsq'[i] = nsq[i + 1]
      <4>1. m = nsq[1] /\ 1 \in DOMAIN nsq
            /\ \A i \in DOMAIN nsq' : i + 1 \in DOMAIN nsq /\ nsq'[i] = nsq[i + 1]
        BY <1>0, <2>1, <3>1, QueueTail, QueueIndices
      <4>2. m \in Datagram /\ m.to = NS
        BY <1>0, <4>1
      <4> QED BY <4>1, <4>2, Fields
    <3>3. NS \notin Resolver
      BY DnsAssumption
    <3>4. PICK d : net' = net \cup {d} /\ (d.p = p /\ slips[p] = 0 => Genuine(p, d))
      <4>1. CASE ServeValid(m)
        <5>1. answer' \in Name /\ answer' # NULL
          BY <3>2, <4>1, ServedAddress, OspfAssumption DEF ServeValid
        <5> DEFINE d == Answer(m, answer')
        <5>2. /\ d.p = m.p /\ d.n = m.n /\ d.host = m.host /\ d.id = m.id /\ d.qr = 1
              /\ d.addr # NULL /\ d.to # NS /\ d.rcode = m.rcode
          BY <3>2, <3>3, <5>1, Datagrams
        <5>3. net' = net \cup {d} /\ m.host = VIDEO_HOST
          BY <4>1 DEF ServeValid, Answered
        <5> HIDE DEF d
        <5>4. d.p = p /\ slips[p] = 0 => Genuine(p, m)
          BY <1>1, <3>2, <5>2 DEF OnlyGenuine
        <5>5. d.p = p /\ slips[p] = 0 => Genuine(p, d)
          BY <3>2, <5>2, <5>3, <5>4 DEF Genuine
        <5> QED BY <5>3, <5>5
      <4>2. CASE ServeInvalid(m)
        <5> DEFINE d == Error(m)
        <5>2. /\ d.p = m.p /\ d.n = m.n /\ d.host = m.host /\ d.id = m.id /\ d.qr = m.qr
              /\ d.to # NS
          BY <3>2, <3>3, Datagrams
        <5>3. net' = net \cup {d} /\ m.host # VIDEO_HOST
          BY <4>2 DEF ServeInvalid, Answered
        <5> HIDE DEF d
        <5>4. d.p = p /\ slips[p] = 0 => Genuine(p, m)
          BY <1>1, <3>2, <5>2 DEF OnlyGenuine
        <5>5. d.p = p /\ slips[p] = 0 => Genuine(p, d)
          BY <3>2, <5>2, <5>3, <5>4 DEF Genuine
        <5> QED BY <5>3, <5>5
      <4> QED BY <2>3, <4>1, <4>2
    <3>5. /\ asking'[p] = asking[p] /\ slips'[p] = slips[p]
          /\ \A x \in net' : x \in net \/ (x.p = p /\ slips[p] = 0 => Genuine(p, x))
          /\ \A i \in DOMAIN nsq' : \E j \in DOMAIN nsq : nsq'[i] = nsq[j]
          /\ sock'[p] = sock[p]
      BY <3>1, <3>2, <3>4
    <3> QED BY <1>2, <3>5
  <2> QED BY <2>1, <2>2, <2>3
<1>5. CASE Starts \/ NsSelect \/ NsSelectFails \/ ServeReadFails \/ Tick
  BY <1>2, <1>5 DEF Starts, NsSelect, NsSelectFails, ServeReadFails, NsExits, Tick,
      dnsVars, serverVars, resolverVars
<1>6. ASSUME NEW x \in Resolver, NEW h \in Host, Ask(x, h)
      PROVE  OnlyGenuine(p)'
  <2>0. PICK d : d = Query(x, h)
    OBVIOUS
  <2>1. d \in Datagram /\ d # NULL /\ d.p = x /\ d.qr = 0 /\ d.rcode = 0 /\ d.to = NS
    BY <2>0, Queries DEF DnsTypeOK
  <2>2. /\ asking[x] = NULL /\ asking' = [asking EXCEPT ![x] = d] /\ net' = net \cup {d}
        /\ UNCHANGED <<nsq, sock, slips>>
    BY <1>6, <2>0 DEF Ask, serverVars
  <2>3. CASE x # p
    <3>1. asking'[p] = asking[p] /\ \A y \in net' : y \in net \/ y.p # p
      BY <1>0, <2>1, <2>2, <2>3
    <3> QED BY <1>2, <2>2, <3>1
  <2>4. CASE x = p
    <3>1. asking'[p] = d
      BY <1>0, <2>2, <2>4
    <3>2. CASE slips[p] = 0
      <4>1. /\ \A y \in net : y.p # p
            /\ \A i \in DOMAIN nsq : nsq[i].p # p
            /\ Len(sock[p]) = 0
        BY <2>2, <2>4, <3>2, NothingElse
      <4>2. DOMAIN sock'[p] = {}
        BY <1>0, <2>2, <4>1
      <4>3. /\ \A y \in net' : y.p = p => y = d
            /\ \A i \in DOMAIN nsq' : nsq'[i].p # p
        BY <2>2, <4>1
      <4>4. Genuine(p, d)'
        BY <2>1, <3>1 DEF Genuine
      <4>5. \A y \in net' : y.p = p => Genuine(p, y)'
        BY <4>3, <4>4
      <4> QED BY <2>1, <3>1, <4>2, <4>3, <4>5 DEF OnlyGenuine
    <3>3. CASE slips[p] # 0
      BY <2>1, <2>2, <3>1, <3>3 DEF OnlyGenuine
    <3> QED BY <3>2, <3>3
  <2> QED BY <2>3, <2>4
<1>7. ASSUME NEW x \in Resolver, Receive(x)
      PROVE  OnlyGenuine(p)'
  <2>1. /\ asking[x] # NULL /\ sock[x] # <<>> /\ asking' = [asking EXCEPT ![x] = NULL]
        /\ sock' = [sock EXCEPT ![x] = Tail(@)] /\ UNCHANGED <<net, nsq, slips>>
    BY <1>7 DEF Receive, ReadFrom, serverVars
  <2>2. CASE x # p
    <3>1. asking'[p] = asking[p] /\ sock'[p] = sock[p]
      BY <1>0, <2>1, <2>2
    <3> QED BY <1>2, <2>1, <3>1
  <2>3. CASE x = p
    <3>1. asking'[p] = NULL /\ sock'[p] = Tail(sock[p])
      BY <1>0, <2>1, <2>3
    <3>2. CASE slips[p] = 0
      <4>1. /\ \A y \in net : y.p # p
            /\ \A i \in DOMAIN nsq : nsq[i].p # p
            /\ Len(sock[p]) = 1
        BY <2>1, <2>3, <3>2, NothingElse
      <4>2. DOMAIN sock'[p] = {}
        <5>1. /\ sock'[p] \in Seq(Datagram) /\ Len(sock'[p]) = Len(sock[p]) - 1
          BY <1>0, <2>1, <2>3, <3>1, QueueTail
        <5>2. DOMAIN sock'[p] = 1 .. Len(sock'[p]) /\ Len(sock'[p]) = 0
          BY <4>1, <5>1, QueueIndices
        <5> QED BY <5>2
      <4> QED BY <2>1, <3>1, <4>1, <4>2 DEF OnlyGenuine
    <3>3. CASE slips[p] # 0
      BY <1>3, <2>1, <3>1, <3>3
    <3> QED BY <3>2, <3>3
  <2> QED BY <2>2, <2>3
<1>8. ASSUME NEW x \in Resolver, ReceiveFails(x)
      PROVE  OnlyGenuine(p)'
  <2>1. /\ asking' = [asking EXCEPT ![x] = NULL] /\ slips' = [slips EXCEPT ![x] = @ + 1]
        /\ UNCHANGED <<net, nsq, sock>>
    BY <1>8 DEF ReceiveFails, serverVars
  <2>2. CASE x # p
    <3>1. asking'[p] = asking[p] /\ slips'[p] = slips[p]
      BY <1>0, <2>1, <2>2
    <3> QED BY <1>2, <2>1, <3>1
  <2>3. CASE x = p
    <3>1. asking'[p] = NULL /\ slips'[p] = slips[p] + 1 /\ slips[p] \in Nat
      BY <1>0, <2>1, <2>3
    <3> QED BY <1>3, <3>1
  <2> QED BY <2>2, <2>3
<1>9. ASSUME NEW m \in net, Arrived(m), net' \subseteq net, slips' = slips
      PROVE  OnlyGenuine(p)'
  <2>1. m \in Datagram /\ m.p \in Resolver /\ UNCHANGED asking
    BY <1>0, <1>9, Fields DEF Arrived
  <2>2. \A i \in DOMAIN nsq' : nsq'[i] \in net \/ \E j \in DOMAIN nsq : nsq'[i] = nsq[j]
    <3>1. CASE m.to = NS
      <4>1. nsq' = Append(nsq, m)
        BY <1>9, <3>1 DEF Arrived
      <4> QED BY <1>0, <2>1, <4>1, AppendEntries
    <3>2. CASE m.to # NS
      BY <1>9, <3>2 DEF Arrived
    <3> QED BY <3>1, <3>2
  <2>3. \A i \in DOMAIN sock'[p] :
           \/ \E j \in DOMAIN sock[p] : sock'[p][i] = sock[p][j]
           \/ sock'[p][i] \in net /\ sock'[p][i].to # NS /\ sock'[p][i].p = p
    <3>1. CASE m.to = NS \/ m.p # p
      <4>1. sock'[p] = sock[p]
        BY <1>0, <1>9, <2>1, <3>1 DEF Arrived
      <4> QED BY <4>1
    <3>2. CASE m.to # NS /\ m.p = p
      <4>1. sock'[p] = Append(sock[p], m) /\ sock[p] \in Seq(Datagram)
        BY <1>0, <1>9, <3>2 DEF Arrived
      <4>2. \A i \in DOMAIN sock'[p] :
               sock'[p][i] = m \/ \E j \in DOMAIN sock[p] : sock'[p][i] = sock[p][j]
        BY <2>1, <4>1, AppendEntries
      <4> QED BY <3>2, <4>2
    <3> QED BY <3>1, <3>2
  <2> QED BY <1>2, <1>9, <2>1, <2>2, <2>3
<1>a. ASSUME NEW m \in net, Deliver(m)
      PROVE  OnlyGenuine(p)'
  BY <1>9, <1>a DEF Deliver
<1>b. ASSUME NEW m \in net, Lose(m)
      PROVE  OnlyGenuine(p)'
  BY <1>2, <1>b DEF Lose, serverVars, resolverVars
<1>c. ASSUME NEW m \in net, Duplicate(m)
      PROVE  OnlyGenuine(p)'
  <2>1. m \in Datagram /\ m.p \in Resolver /\ slips' = [slips EXCEPT ![m.p] = @ + 1]
        /\ asking' = asking /\ Arrived(m)
    BY <1>0, <1>c, Fields DEF Duplicate, Arrived
  <2>2. CASE m.p = p
    <3>1. slips'[p] = slips[p] + 1 /\ slips[p] \in Nat
      BY <1>0, <2>1, <2>2
    <3> QED BY <1>3, <2>1, <3>1
  <2>3. CASE m.p # p
    <3>1. slips'[p] = slips[p]
      BY <1>0, <2>1, <2>3
    <3>2. \A d \in net' : d \in net \/ d.p # p
      <4> DEFINE k == slips'[m.p]
      <4>1. k \in Nat
        BY <1>0, <2>1
      <4>2. net' = (net \ {m}) \cup {[m EXCEPT !.copy = k]}
        BY <1>c DEF Duplicate
      <4> HIDE DEF k
      <4>3. [m EXCEPT !.copy = k].p = m.p
        BY <2>1, <4>1, Copies
      <4> QED BY <2>3, <4>2, <4>3
    <3>3. \A i \in DOMAIN nsq' : nsq'[i] = m \/ \E j \in DOMAIN nsq : nsq'[i] = nsq[j]
      <4>1. nsq' = Append(nsq, m) \/ nsq' = nsq
        BY <2>1 DEF Arrived
      <4>2. CASE nsq' = Append(nsq, m)
        BY <1>0, <2>1, <4>2, AppendEntries
      <4> QED BY <4>1, <4>2
    <3>4. sock'[p] = sock[p]
      BY <1>0, <2>1, <2>3 DEF Arrived
    <3>5. \A i \in DOMAIN nsq' : nsq'[i] \in net \/ \E j \in DOMAIN nsq : nsq'[i] = nsq[j]
      BY <3>3
    <3> QED BY <1>2, <2>1, <3>1, <3>2, <3>4, <3>5
  <2> QED BY <2>2, <2>3
<1> QED BY <1>4, <1>5, <1>6, <1>7, <1>8, <1>a, <1>b, <1>c DEF DnsNext, DeliverFor

LEMMA InitBacklog == DnsInit => BacklogInv
<1> SUFFICES ASSUME DnsInit PROVE BacklogInv
  OBVIOUS
<1>1. net = {} /\ nsq = <<>> /\ DOMAIN nsq = {} /\ \A p \in Resolver : DOMAIN sock[p] = {}
  BY DEF DnsInit
<1>2. /\ nask = [p \in Resolver |-> 0] /\ slips = [p \in Resolver |-> 0]
      /\ lost = [p \in Resolver |-> 0] /\ asking = [p \in Resolver |-> NULL]
      /\ sock = [p \in Resolver |-> <<>>]
  BY DEF DnsInit
<1>3. Tokens
  BY <1>1, FS_EmptySet DEF Tokens
<1>4. Current
  BY <1>1, <1>2 DEF Current, OnlyGenuine
<1>5. SurplusStays
  <2>1. ASSUME NEW p \in Resolver PROVE Backlog(p) = 0
    <3>1. UnderWay(p) = {} /\ Unserved(p) = {} /\ Len(sock[p]) = 0
      BY <1>1, <1>2 DEF UnderWay, Unserved
    <3> QED BY <3>1, FS_EmptySet DEF Backlog
  <2>2. ASSUME NEW p \in Resolver PROVE lost[p] = 0 /\ slips[p] = 0 /\ asking[p] = NULL
    BY <1>2
  <2> QED BY <2>1, <2>2 DEF SurplusStays
<1> QED BY <1>3, <1>4, <1>5 DEF BacklogInv

LEMMA BacklogStep ==
    ASSUME DnsInv, DnsInv', OspfTypeOK, RoutedToServers, RoutedToServers', BacklogInv,
           [DnsNext]_<<ospfVars, dnsVars>>
    PROVE  BacklogInv'
<1>1. CASE DnsNext
  BY <1>1, TokensStep, BehindStep, CurrentStep DEF BacklogInv, DnsInv
<1>2. CASE UNCHANGED <<ospfVars, dnsVars>>
  <2>1. UNCHANGED <<net, nsq, sock, asking, nask, slips, lost>>
    BY <1>2 DEF dnsVars, serverVars, resolverVars
  <2>2. Tokens'
    BY <2>1 DEF BacklogInv, Tokens
  <2>3. Current'
    BY <2>1 DEF BacklogInv, Current, OnlyGenuine, Genuine
  <2>4. SurplusStays'
    BY <2>1 DEF BacklogInv, SurplusStays, Backlog, UnderWay, Unserved
  <2> QED BY <2>2, <2>3, <2>4 DEF BacklogInv
<1> QED BY <1>1, <1>2

\* For every number of programs, lookups and faults, what is under way to or from a
\* program, or waits in a socket, is its slips, and one more during a lookup, less
\* what was lost: the name server answers each query once, and each call of resolve()
\* takes out one datagram.
THEOREM DnsBacklog == DnsSpec => [](BacklogInv /\ SurplusStays)
<1>1. DnsInit => BacklogInv
  BY InitBacklog
<1>2. BacklogInv => SurplusStays
  BY DEF BacklogInv
<1> QED BY <1>1, <1>2, BacklogStep, DnsInvariant, DnsRefinesOspf, OspfTypeCorrect, OspfRouted, PTL
        DEF DnsSpec

\* A program whose datagrams were never copied, and whose reads never failed, gets the
\* answer to its own query, and an address exactly if it asked for the host that the
\* name server knows: another answer never decides a lookup of resolve().
THEOREM DnsUndisturbed == DnsSpec => Undisturbed
<1> DEFINE Own(p) == asking[p] # NULL /\ asking'[p] = NULL /\ slips'[p] = 0 =>
                        /\ Head(sock[p]).n = asking[p].n
                        /\ result'[p] # NULL <=> asking[p].host = VIDEO_HOST
<1>1. ASSUME DnsInv, BacklogInv, DnsNext, NEW p \in Resolver PROVE Own(p)
  <2> SUFFICES ASSUME asking[p] # NULL, asking'[p] = NULL, slips'[p] = 0
               PROVE  /\ Head(sock[p]).n = asking[p].n
                      /\ result'[p] # NULL <=> asking[p].host = VIDEO_HOST
    OBVIOUS
  <2>0. /\ asking \in [Resolver -> Datagram \cup {NULL}] /\ result \in [Resolver -> Name \cup {NULL}]
        /\ sock \in [Resolver -> Seq(Datagram)] /\ slips \in [Resolver -> Nat]
    BY <1>1 DEF DnsInv, DnsTypeOK, ResolverTyped, CountersTyped
  <2>1. ASSUME UNCHANGED asking PROVE FALSE
    BY <2>1
  <2>2. CASE Serve
    BY <2>1, <2>2 DEF Serve, ServeValid, ServeInvalid, ServeFails, Served, dnsVars, resolverVars
  <2>3. CASE Starts \/ NsSelect \/ NsSelectFails \/ ServeReadFails \/ Tick
    BY <2>1, <2>3 DEF Starts, NsSelect, NsSelectFails, ServeReadFails, NsExits, Tick,
        dnsVars, resolverVars
  <2>4. CASE \E m \in net : Deliver(m) \/ Duplicate(m) \/ Lose(m)
    BY <2>1, <2>4 DEF Deliver, Duplicate, Lose, Arrived, resolverVars
  <2>5. ASSUME NEW x \in Resolver, NEW h \in Host, Ask(x, h) PROVE FALSE
    <3>1. /\ asking[x] = NULL /\ asking' = [asking EXCEPT ![x] = Query(x, h)]
          /\ Query(x, h) # NULL
      BY <1>1, <2>5, Queries DEF Ask, DnsInv, DnsTypeOK
    <3> QED BY <2>0, <3>1
  <2>6. ASSUME NEW x \in Resolver, ReceiveFails(x) PROVE FALSE
    <3>1. asking' = [asking EXCEPT ![x] = NULL] /\ slips' = [slips EXCEPT ![x] = @ + 1]
      BY <2>6 DEF ReceiveFails
    <3>2. x = p
      BY <2>0, <3>1
    <3>3. slips'[p] = slips[p] + 1 /\ slips[p] \in Nat
      BY <2>0, <3>1, <3>2
    <3> QED BY <3>3
  <2>7. ASSUME NEW x \in Resolver, Receive(x)
        PROVE  /\ Head(sock[p]).n = asking[p].n
               /\ result'[p] # NULL <=> asking[p].host = VIDEO_HOST
    <3>1. x = p
      BY <2>0, <2>7 DEF Receive
    <3>2. PICK m : m = Head(sock[p])
      OBVIOUS
    <3>3. /\ sock[p] # <<>> /\ slips' = slips
          /\ result'[p] = IF Matches(asking[p], m) THEN m.addr ELSE NULL
      BY <2>0, <2>7, <3>1, <3>2 DEF Receive
    <3>4. m = sock[p][1] /\ 1 \in DOMAIN sock[p]
      BY <2>0, <3>2, <3>3, QueueTail, QueueIndices
    <3>5. Genuine(p, m) /\ m.to # NS /\ asking[p].rcode = 0
      BY <1>1, <3>3, <3>4 DEF BacklogInv, Current, OnlyGenuine
    <3>6. CASE asking[p].host = VIDEO_HOST
      <4>1. Matches(asking[p], m) /\ m.addr # NULL
        BY <3>5, <3>6 DEF Genuine, Matches
      <4> QED BY <3>2, <3>3, <3>5, <3>6, <4>1 DEF Genuine
    <3>7. CASE asking[p].host # VIDEO_HOST
      <4>1. ~Matches(asking[p], m)
        BY <3>5, <3>7 DEF Genuine, Matches
      <4> QED BY <3>2, <3>3, <3>5, <3>7, <4>1 DEF Genuine
    <3> QED BY <3>6, <3>7
  <2> QED BY <1>1, <2>2, <2>3, <2>4, <2>5, <2>6, <2>7 DEF DnsNext, DeliverFor
<1>2. ASSUME DnsInv, BacklogInv, [DnsNext]_<<ospfVars, dnsVars>>
      PROVE  [\A p \in Resolver : Own(p)]_<<ospfVars, dnsVars>>
  BY <1>1, <1>2
<1> QED BY <1>2, DnsInvariant, DnsBacklog, PTL DEF DnsSpec, Undisturbed
=============================================================================
