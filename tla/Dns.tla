-------------------------------- MODULE Dns --------------------------------
(***************************************************************************)
(* The address lookup: programs that call resolve() (mydns.c), the name    *)
(* server (nameserver.c) over the routing of Ospf, and the datagrams       *)
(* between them, which may be lost, doubled or overtaken.                  *)
(*                                                                         *)
(* resolve() is two steps, the query it sends and the datagram it          *)
(* receives; one step of the name server is its select() or a call of      *)
(* serve().  A datagram is the fields that parse() and parse_res() tell    *)
(* apart, with the number n of the lookup and that of the copy, which no   *)
(* program sees.                                                           *)
(***************************************************************************)
EXTENDS Ospf

CONSTANTS
    Resolver,       \* programs that look up addresses, by their own address
    Host,           \* host names
    VIDEO_HOST,     \* the one the name server knows (ref_host)
    Hosts,          \* the names that each program asks for
    Id,             \* query numbers
    RandAt,         \* the number that rand() gives in each second
    Stray,          \* numbers of stray descriptors
    NS,             \* the name server as a destination
    MaxTime,        \* bound: seconds
    MaxAsks, MaxFaults  \* bounds: lookups of each program; its slips and losses

\* A datagram, as the programs take it apart.
Datagram == [to : Resolver \cup {NS}, p : Resolver, n : Nat, copy : Nat,
             host : Host, id : Id, qr : 0 .. 1, rcode : 0 .. 15, addr : Name \cup {NULL}]

ASSUME DnsAssumption ==
    /\ Resolver \subseteq Name /\ NS \notin Name
    /\ NULL \notin Datagram \cup [host : Host, id : Id]
    /\ VIDEO_HOST \in Host /\ Hosts \in [Resolver -> SUBSET Host]
    /\ Stray \subseteq Nat
    /\ MaxTime \in Nat /\ MaxAsks \in [Resolver -> Nat] /\ MaxFaults \in [Resolver -> Nat]
    /\ RandAt \in [0 .. MaxTime -> Id]

VARIABLES
    net,            \* datagrams under way
    nsq,            \* datagrams in the socket of the name server
    ns,             \* the name server, once it routes: at "select", in "serve", "exited"
    stray,          \* descriptors, always ready, in read_set, which is never cleared
    sock,           \* datagrams in the socket of each program
    asking, result, \* the lookup a program is in, what the last one gave
    given,          \* answers made so far (history)
    now,            \* time() in seconds
    nask,           \* lookups begun by each program
    slips, lost     \* copies of its datagrams and failed reads; datagrams lost

serverVars   == <<nsq, ns, stray, given>>
resolverVars == <<sock, asking, result, nask>>
dnsVars      == <<net, serverVars, resolverVars, now, slips, lost>>

-----------------------------------------------------------------------------
DnsInit ==
    /\ OspfInit
    /\ net = {} /\ nsq = <<>> /\ ns = "select" /\ stray \in Stray
    /\ sock = [p \in Resolver |-> <<>>]
    /\ asking = [p \in Resolver |-> NULL] /\ result = [p \in Resolver |-> NULL]
    /\ given = {}
    /\ now = 0
    /\ nask = [p \in Resolver |-> 0]
    /\ slips = [p \in Resolver |-> 0] /\ lost = [p \in Resolver |-> 0]

MayFail(p) == slips[p] + lost[p] < MaxFaults[p]

(* resolve *)

\* q_pkt_maker: the generator is seeded with the time for every query, so that
\* the number of a query is that of the second.
Query(p, h) ==
    [to |-> NS, p |-> p, n |-> nask[p] + 1, copy |-> 0, host |-> h, id |-> RandAt[now],
     qr |-> 0, rcode |-> 0, addr |-> NULL]

Ask(p, h) ==
    /\ asking[p] = NULL /\ nask[p] < MaxAsks[p] /\ h \in Hosts[p]
    /\ asking' = [asking EXCEPT ![p] = Query(p, h)]
    /\ net' = net \cup {Query(p, h)}
    /\ nask' = [nask EXCEPT ![p] = @ + 1]
    /\ UNCHANGED <<ospfVars, serverVars, sock, result, now, slips, lost>>

AltMatches(query, m) == m.qr = 1
\* parse_res compares the answer with the query up to its question, with the bits
\* of an answer put in.
Matches(query, m) ==
    m.id = query.id /\ m.host = query.host /\ m.qr = 1 /\ m.rcode = query.rcode

ReadFrom(p) == [sock EXCEPT ![p] = Tail(@)]

\* The datagram received decides the lookup, whichever it is.
Receive(p) ==
    /\ asking[p] # NULL /\ sock[p] # <<>>
    /\ result' = [result EXCEPT ![p] = IF Matches(asking[p], Head(sock[p]))
                                       THEN Head(sock[p]).addr ELSE NULL]
    /\ sock' = ReadFrom(p)
    /\ asking' = [asking EXCEPT ![p] = NULL]
    /\ UNCHANGED <<ospfVars, net, serverVars, nask, now, slips, lost>>

\* recvfrom() fails; the answer may still come.
ReceiveFails(p) ==
    /\ asking[p] # NULL /\ MayFail(p)
    /\ result' = [result EXCEPT ![p] = NULL]
    /\ asking' = [asking EXCEPT ![p] = NULL]
    /\ slips' = [slips EXCEPT ![p] = @ + 1]
    /\ UNCHANGED <<ospfVars, net, serverVars, sock, nask, now, lost>>

(* The name server *)

Starts == OSPF_init /\ UNCHANGED dnsVars

\* select() reports the socket and the stray descriptors; main serves a query only
\* if it reports one descriptor, and turns on the spot otherwise.
NReady == stray + (IF nsq # <<>> THEN 1 ELSE 0)

NsSelect ==
    /\ pc = "route" /\ ns = "select" /\ NReady = 1
    /\ ns' = "serve"
    /\ UNCHANGED <<ospfVars, net, nsq, stray, given, resolverVars, now, slips, lost>>

\* The bytes of x in the order of the network, on a machine that stores the
\* lowest first; x has one byte.
Htonl(x) == x * 16777216

AltError(m) == [m EXCEPT !.to = m.p, !.rcode = Htonl(3)]
\* gen_err: the query itself; rcode has four bits.
Error(m) == [m EXCEPT !.to = m.p, !.rcode = Htonl(3) % 16]

AltAnswerFrom(m, a) == [m EXCEPT !.to = m.p, !.qr = 1, !.addr = m.p]
AltAnswer(m, a) == [m EXCEPT !.to = m.p, !.qr = 1]
\* gen_res
Answer(m, a) == [m EXCEPT !.to = m.p, !.qr = 1, !.addr = a]

AltAnswered(d) == net
AltAnsweredTwice(d) == net \cup {d, [d EXCEPT !.copy = @ + 1]}
Answered(d) == net \cup {d}

\* serve() returns to the loop of main.
Served(m) ==
    /\ nsq' = Tail(nsq) /\ ns' = "select"
    /\ UNCHANGED <<stray, resolverVars, now, slips, lost>>

Serving(m) == pc = "route" /\ ns = "serve" /\ nsq # <<>> /\ m = Head(nsq)

\* recvfrom() waits for a query when there is none.  A query for ref_host is
\* answered by the address that route() gives for its sender.
ServeValid(m) ==
    /\ Serving(m) /\ m.host = VIDEO_HOST
    /\ RouteRoundRobin \/ RouteNearest(m.p)
    /\ net' = Answered(Answer(m, answer'))
    /\ given' = given \cup {[p |-> m.p, host |-> m.host, id |-> m.id, addr |-> answer']}
    /\ Served(m)

ServeInvalid(m) ==
    /\ Serving(m) /\ m.host # VIDEO_HOST
    /\ net' = Answered(Error(m))
    /\ Served(m)
    /\ UNCHANGED <<ospfVars, given>>

\* route() finds no entry for the sender, or divides by zero.
ServeFails(m) ==
    /\ Serving(m) /\ m.host = VIDEO_HOST
    /\ RouteFails(m.p)
    /\ UNCHANGED dnsVars

Serve == \E p \in Resolver, h \in Host :
            LET m == Head(nsq)
            IN  /\ nsq # <<>> /\ m.p = p /\ m.host = h
                /\ ServeValid(m) \/ ServeInvalid(m) \/ ServeFails(m)

\* select() fails, on a stray bit that is no descriptor or for want of memory, or
\* recvfrom() in serve() does: the name server exits, and reads nothing more.
NsExits == ns' = "exited" /\ UNCHANGED <<ospfVars, net, nsq, stray, given, resolverVars, now, slips, lost>>

NsSelectFails == pc = "route" /\ ns = "select" /\ NsExits
ServeReadFails == pc = "route" /\ ns = "serve" /\ NsExits

(* Datagrams *)

Arrived(m) ==
    /\ IF m.to = NS THEN nsq' = Append(nsq, m) /\ UNCHANGED sock
       ELSE sock' = [sock EXCEPT ![m.p] = Append(@, m)] /\ UNCHANGED nsq
    /\ UNCHANGED <<ospfVars, ns, stray, given, asking, result, nask, now>>

Deliver(m) ==
    /\ net' = net \ {m}
    /\ Arrived(m)
    /\ UNCHANGED <<slips, lost>>

\* A copy arrives, and another is still under way.
Duplicate(m) ==
    /\ MayFail(m.p)
    /\ slips' = [slips EXCEPT ![m.p] = @ + 1]
    /\ net' = (net \ {m}) \cup {[m EXCEPT !.copy = slips'[m.p]]}
    /\ Arrived(m)
    /\ UNCHANGED lost

Lose(m) ==
    /\ MayFail(m.p)
    /\ lost' = [lost EXCEPT ![m.p] = @ + 1]
    /\ net' = net \ {m}
    /\ UNCHANGED <<ospfVars, serverVars, resolverVars, now, slips>>

Tick ==
    /\ now < MaxTime /\ now' = now + 1
    /\ UNCHANGED <<ospfVars, net, serverVars, resolverVars, slips, lost>>

DeliverFor(p) == \E m \in net : m.p = p /\ Deliver(m)

DnsNext ==
    \/ Starts \/ NsSelect \/ NsSelectFails \/ Serve \/ ServeReadFails \/ Tick
    \/ \E p \in Resolver : \/ \E h \in Host : Ask(p, h)
                           \/ Receive(p) \/ ReceiveFails(p) \/ DeliverFor(p)
    \/ \E m \in net : Duplicate(m) \/ Lose(m)

DnsSpec == DnsInit /\ [][DnsNext]_<<ospfVars, dnsVars>>

\* Each program runs, and a datagram that is not lost arrives.
DnsFairness ==
    /\ WF_<<ospfVars, dnsVars>>(Starts) /\ WF_<<ospfVars, dnsVars>>(NsSelect)
    /\ WF_<<ospfVars, dnsVars>>(Serve)
    /\ \A p \in Resolver : /\ WF_<<ospfVars, dnsVars>>(Receive(p))
                           /\ WF_<<ospfVars, dnsVars>>(DeliverFor(p))

DnsFairSpec == DnsSpec /\ DnsFairness

-----------------------------------------------------------------------------
(* Properties *)

NetTyped == /\ net \subseteq Datagram
            /\ nsq \in Seq(Datagram) /\ \A i \in 1 .. Len(nsq) : nsq[i].to = NS
            /\ ns \in {"select", "serve", "exited"} /\ stray \in Nat
            /\ given \subseteq [p : Resolver, host : Host, id : Id, addr : Name]
ResolverTyped == /\ sock \in [Resolver -> Seq(Datagram)]
                 /\ \A p \in Resolver : \A i \in 1 .. Len(sock[p]) : sock[p][i].p = p
                 /\ asking \in [Resolver -> Datagram \cup {NULL}]
                 /\ result \in [Resolver -> Name \cup {NULL}]
CountersTyped == /\ now \in 0 .. MaxTime
                 /\ nask \in [Resolver -> Nat] /\ \A p \in Resolver : nask[p] <= MaxAsks[p]
                 /\ slips \in [Resolver -> Nat] /\ lost \in [Resolver -> Nat]
                 /\ \A p \in Resolver : slips[p] + lost[p] <= MaxFaults[p]

\* Sockets hold datagrams of their own, and the counters stay in their bounds.
DnsTypeOK == NetTyped /\ ResolverTyped /\ CountersTyped

L == INSTANCE Lookup WITH
        asking <- [p \in Resolver |-> IF asking[p] = NULL THEN NULL
                                      ELSE [host |-> asking[p].host, id |-> asking[p].id]]

\* resolve() keeps its promise over datagrams that are lost, doubled or late: it
\* returns no address but one that the name server has chosen for this program,
\* this host and this query number.
ResolveSpec == L!LookupSpec

\* The name server sends no program to an address of which its file does not say
\* that a server is there, nor, by the table, to another server than that of the
\* program's own address.
RightServer ==
    \A p \in Resolver : result[p] # NULL =>
        /\ result[p] \in Range(servs)
        /\ ~rr_flag => result[p] = routing_table[p] /\ result[p] \in Reachable(p)

UnderWay(p) == {m \in net : m.p = p}
Unserved(p) == {i \in DOMAIN nsq : nsq[i].p = p}
Backlog(p)  == Cardinality(UnderWay(p)) + Cardinality(Unserved(p)) + Len(sock[p])

\* Each query is answered once, each call of resolve() takes one datagram out of the
\* socket and nothing else takes any out.  So the surplus of a program, the copies
\* made of its datagrams and the answers to reads that failed, never wears off:
\* what is under way or waits for it, with what was lost, is always that surplus,
\* and one more during a lookup.
SurplusStays ==
    \A p \in Resolver :
        Backlog(p) + lost[p] = slips[p] + (IF asking[p] = NULL THEN 0 ELSE 1)

\* As long as no copy was made and no read failed, the datagram a program receives
\* is the answer to the query it has just sent, and gives an address exactly if
\* the host is the one that the name server knows.
Undisturbed ==
    [][\A p \in Resolver : asking[p] # NULL /\ asking'[p] = NULL /\ slips'[p] = 0 =>
          /\ Head(sock[p]).n = asking[p].n
          /\ result'[p] # NULL <=> asking[p].host = VIDEO_HOST]_<<ospfVars, dnsVars>>

\* main finds more than one descriptor ready, and will for ever.
Spinning == pc = "route" /\ ns = "select" /\ NReady > 1

\* A lookup ends, unless one of its program's datagrams is lost, the name server has
\* failed or exited, or a stray descriptor keeps it from serving.
LookupEnds ==
    \A p \in Resolver :
        asking[p] # NULL ~> \/ asking[p] = NULL \/ lost[p] > 0
                            \/ pc \in {"aborted", "crashed"} \/ ns = "exited" \/ Spinning
=============================================================================
