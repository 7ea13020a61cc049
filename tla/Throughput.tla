----------------------------- MODULE Throughput -----------------------------
(***************************************************************************)
(* What the proxy measures and what it makes of it (update_thruput,        *)
(* get_thru_by_addrs and add_thru in conn.c, the data that client2server   *)
(* and server2client of proxy.c keep with a conn, loggin): the time a      *)
(* fragment takes, the estimate of each pair of addresses, and the bitrate *)
(* of the next fragment.                                                   *)
(*                                                                         *)
(* The process is one thread; the clock moves between its steps and while  *)
(* it reads.  Sockets and slots are those of Proxy and left out: a conn is *)
(* here the pair of a client and the address of a server.  A server        *)
(* answers what it has been sent in order, and browsers may ask again      *)
(* before they have an answer.  Quotients are exact fractions until the    *)
(* code cuts them to an int.                                               *)
(***************************************************************************)
EXTENDS Integers, Sequences, FiniteSets, Functions

CONSTANTS
    Client,             \* sockets of browsers
    Host, HostOf,       \* addresses; that of each client
    NoAddr,             \* 0.0.0.0
    Server,             \* addresses of web servers
    Sizes,              \* lengths of fragments, in bytes
    Manifests,          \* lists of bitrates
    ALPHA, SCALE,       \* alpha is the fraction ALPHA / SCALE
    INT_MIN, INT_MAX,   \* range of an int
    FD_SETSIZE,         \* entries of thru_l
    Steps, MaxTicks,    \* by how much the clock may go on, or back; bound: how often
    MaxAsks, MaxFaults, \* bounds: requests of all clients, and how many fail
    NULL

Conns == Client \X Server
Slots == 1 .. FD_SETSIZE
ints  == INT_MIN .. INT_MAX

\* conn_t, thruputs_t; a request, and how it was sent on
Conn    == [t_put : ints, cur_bitrate : Int, cur_file : Nat, start : Int, end : Int]
Thruput == [clit_addr : {NoAddr} \cup Host, serv_addr : Server, avg_put : ints]
Request == [clit : Client, kind : {"list", "frag"}, file : Nat, at : Int]
Sent    == [kind : {"list", "nolist", "frag"}, file : Nat, at : Int, rate : Int]

ASSUME ThroughputAssumption ==
    /\ HostOf \in [Client -> Host] /\ NoAddr \notin Host
    /\ Sizes \subseteq Nat \ {0} /\ Manifests \subseteq Seq(Int)
    /\ SCALE \in Nat \ {0} /\ ALPHA \in 0 .. SCALE
    /\ INT_MIN \in Int /\ INT_MAX \in Nat /\ INT_MIN < 0
    /\ FD_SETSIZE \in Nat /\ Steps \subseteq Int /\ MaxTicks \in Nat
    /\ MaxAsks \in Nat /\ MaxFaults \in Nat
    /\ NULL \notin Conn \cup Thruput \cup Host \cup {NoAddr}

VARIABLES
    now,            \* gettimeofday()
    ticks,          \* how often the clock has moved (bound)
    cli_size,       \* what accept() is told of the room for an address
    addr,           \* the address each client is entered with
    conns,          \* the fields of each conn
    thru_l, max_thru_idx,
    bitrates,       \* the list of the manifest that came last
    pc, hand,       \* what the thread is in, and the request or the conn it has
    pending,        \* requests each server has not answered
    asked, faults,  \* requests made, and failed, so far (bounds)
    logged,         \* the line this step has added to the log, or NULL
    seen            \* history: what went into each entry of thru_l

connVars  == <<addr, conns, cli_size, asked, faults>>
thruVars  == <<thru_l, max_thru_idx, seen>>
threadVars == <<pc, hand>>
throughputVars == <<now, ticks, connVars, thruVars, bitrates, threadVars, pending, logged>>

-----------------------------------------------------------------------------
ThroughputInit ==
    /\ now = 0 /\ ticks = 0
    /\ cli_size = 0 /\ addr = [c \in Client |-> NULL]
    /\ conns = [k \in Conns |-> NULL]
    /\ thru_l = [i \in Slots |-> NULL] /\ max_thru_idx = 0
    /\ seen = [i \in Slots |-> [lo |-> 0, hi |-> 0, hosts |-> {}]]
    /\ bitrates = <<>>
    /\ pc = "select" /\ hand = NULL
    /\ pending = [k \in Conns |-> <<>>]
    /\ asked = 0 /\ faults = 0
    /\ logged = NULL

\* Time that passes while nothing is asked for is never measured.
Tick ==
    /\ pc = "request" \/ (pc = "select" /\ \E k \in Conns : pending[k] # <<>>)
    /\ ticks < MaxTicks /\ ticks' = ticks + 1
    /\ \E d \in Steps : now' = now + d
    /\ logged' = NULL
    /\ UNCHANGED <<connVars, thruVars, bitrates, threadVars, pending>>

AltEntered(c) == NoAddr
\* The first accept() is given no room and stores no address.
Entered(c) == IF cli_size = 0 THEN NoAddr ELSE HostOf[c]

Accept(c) ==
    /\ pc = "select" /\ addr[c] = NULL
    /\ addr' = [addr EXCEPT ![c] = Entered(c)] /\ cli_size' = 16
    /\ logged' = NULL
    /\ UNCHANGED <<now, ticks, conns, asked, faults, thruVars, bitrates, threadVars, pending>>

(* client2server *)

\* The time is taken before the request is read.
BeginRequest(c, kind) ==
    /\ pc = "select" /\ addr[c] # NULL /\ asked < MaxAsks
    /\ asked' = asked + 1
    /\ pc' = "request" /\ hand' = [clit |-> c, kind |-> kind, file |-> asked', at |-> now]
    /\ logged' = NULL
    /\ UNCHANGED <<now, ticks, addr, conns, cli_size, faults, thruVars, bitrates, pending>>

Least(S) == CHOOSE i \in S : \A j \in S : i <= j

\* get_thru_by_addrs: the entry, or 0.
get_thru_by_addrs(clit, serv) ==
    LET E == {i \in 1 .. max_thru_idx : /\ thru_l[i] # NULL
                                        /\ thru_l[i].clit_addr = clit /\ thru_l[i].serv_addr = serv}
    IN  IF E = {} THEN 0 ELSE Least(E)

Raised(i) == IF i > max_thru_idx THEN i ELSE max_thru_idx

\* The first free slot, or 0
FreeSlot == LET F == {i \in Slots : thru_l[i] = NULL} IN IF F = {} THEN 0 ELSE Least(F)

\* add_thru; with no slot free it has no effect.
AddThru(clit, serv) ==
    IF FreeSlot = 0 THEN UNCHANGED <<thru_l, max_thru_idx>>
    ELSE /\ thru_l' = [thru_l EXCEPT ![FreeSlot] =
                          [clit_addr |-> clit, serv_addr |-> serv, avg_put |-> 0]]
         /\ max_thru_idx' = Raised(FreeSlot)

\* x / y, cut towards zero.
Trunc(x, y) == IF x >= 0 THEN x \div y ELSE -((-x) \div y)

AltUsable(avg) == avg
\* avg_thru, two thirds of the estimate
Usable(avg) == Trunc(2 * avg, 3)

\* One pass of the loop over bitrates, for the element b
Pass(p, b, avg) ==
    [chosen   |-> IF b > p.chosen /\ b <= Usable(avg) THEN b ELSE p.chosen,
     smallest |-> IF b < p.smallest THEN b ELSE p.smallest]
Passes(avg) ==
    LET pick[i \in 0 .. Len(bitrates)] ==
          IF i = 0 THEN [chosen |-> 0, smallest |-> 100]
          ELSE Pass(pick[i - 1], bitrates[i], avg)
    IN  pick
Choice(avg) ==
    LET end == Passes(avg)[Len(bitrates)]
    IN  IF end.chosen <= 0 THEN end.smallest ELSE end.chosen

\* add_conn; start, end and cur_file are written before they are read.
NewConn == [t_put |-> 0, cur_bitrate |-> 10, cur_file |-> 0, start |-> 0, end |-> 0]

Fails == faults < MaxFaults /\ faults' = faults + 1

\* An empty line, another method, a URI that cannot be parsed
Refused ==
    /\ pc = "request" /\ Fails
    /\ pc' = "select" /\ hand' = NULL
    /\ logged' = NULL
    /\ UNCHANGED <<now, ticks, addr, conns, cli_size, asked, thruVars, bitrates, pending>>

\* close_conn, with the client's entry when it was the last conn
Close(k) ==
    /\ conns' = [conns EXCEPT ![k] = NULL]
    /\ pending' = [pending EXCEPT ![k] = <<>>]
    /\ addr' = [addr EXCEPT ![k[1]] = IF \E s \in Server \ {k[2]} : conns[<<k[1], s>>] # NULL
                                      THEN @ ELSE NULL]
    /\ UNCHANGED <<cli_size, asked>>

\* A request whose headers could not be read: its conn is closed.
Rejected(s) ==
    /\ pc = "request" /\ Fails
    /\ Close(<<hand.clit, s>>)
    /\ pc' = "select" /\ hand' = NULL
    /\ logged' = NULL
    /\ UNCHANGED <<now, ticks, thruVars, bitrates>>

AltStarted(old) == IF old = NULL THEN hand.at ELSE old.start
Started(old) == hand.at

\* The conn, found or made
Current(k) == IF conns[k] = NULL THEN NewConn ELSE conns[k]

\* How a request at a rate leaves it
Updated(k, rate) ==
    [Current(k) EXCEPT !.start = Started(conns[k]), !.end = now,
                       !.cur_file = hand.file, !.cur_bitrate = rate]

\* The entry the request is given; 0 when there is none and no room for it.
Given(clit, serv) ==
    LET i == get_thru_by_addrs(clit, serv)
    IN  IF i # 0 THEN i ELSE FreeSlot

\* There is no entry, and the choice of a bitrate follows it.
ForwardFails(s) ==
    /\ pc = "request" /\ hand.kind = "frag" /\ Given(addr[hand.clit], s) = 0
    /\ pc' = "crashed"
    /\ logged' = NULL
    /\ UNCHANGED <<now, ticks, connVars, thruVars, bitrates, hand, pending>>

Forward(s) ==
    /\ pc = "request"
    /\ LET k    == <<hand.clit, s>>
           i    == get_thru_by_addrs(addr[hand.clit], s)
           avg  == IF i = 0 THEN 0 ELSE thru_l[i].avg_put
           rate == IF hand.kind = "frag" THEN Choice(avg) ELSE Current(k).cur_bitrate
       IN  /\ hand.kind = "frag" => Given(addr[hand.clit], s) # 0
           /\ IF i = 0 THEN AddThru(addr[hand.clit], s) ELSE UNCHANGED <<thru_l, max_thru_idx>>
           /\ conns' = [conns EXCEPT ![k] = Updated(k, rate)]
           /\ pending' = [pending EXCEPT ![k] = Append(@,
                  [kind |-> hand.kind, file |-> hand.file, at |-> hand.at, rate |-> rate])]
    /\ pc' = "select" /\ hand' = NULL
    /\ logged' = NULL
    /\ UNCHANGED <<now, ticks, addr, cli_size, asked, faults, seen, bitrates>>

(* server2client *)

\* An answer that came whole: the request is settled.
Settled(k) == pending' = [pending EXCEPT ![k] = Tail(@)]

Entry(k) == get_thru_by_addrs(addr[k[1]], k[2])

\* There is no entry, and what loggin() follows is NULL.
AnswerFails(k) ==
    /\ pc = "select" /\ pending[k] # <<>> /\ Head(pending[k]).kind \in {"list", "frag"}
    /\ Entry(k) = 0
    /\ pc' = "crashed"
    /\ logged' = NULL
    /\ UNCHANGED <<now, ticks, connVars, thruVars, bitrates, hand, pending>>

\* loggin
Line(k, conn, avg) ==
    [conn |-> k, secs |-> conn.end - conn.start, t_put |-> conn.t_put, avg_put |-> avg,
     rate |-> conn.cur_bitrate, file |-> conn.cur_file]

\* A manifest with bitrates: the one without is asked for.
Listed(k) ==
    /\ pc = "select" /\ pending[k] # <<>> /\ Head(pending[k]).kind = "list" /\ Entry(k) # 0
    /\ logged' = Line(k, conns[k], thru_l[Entry(k)].avg_put)
    /\ bitrates' \in Manifests
    /\ pending' = [pending EXCEPT ![k] = Append(Tail(@), [Head(@) EXCEPT !.kind = "nolist"])]
    /\ UNCHANGED <<now, ticks, connVars, thruVars, threadVars>>

\* A manifest without bitrates
Plain(k) ==
    /\ pc = "select" /\ pending[k] # <<>> /\ Head(pending[k]).kind \in {"list", "nolist"}
    /\ conns' = [conns EXCEPT ![k].end = now]
    /\ Settled(k)
    /\ logged' = NULL
    /\ UNCHANGED <<now, ticks, addr, cli_size, asked, faults, thruVars, bitrates, threadVars>>

\* An answer without type or length, cut short or refused by the client: its
\* conn is closed.
Dropped(k) ==
    /\ pc = "select" /\ pending[k] # <<>> /\ Fails
    /\ Close(k)
    /\ logged' = NULL
    /\ UNCHANGED <<now, ticks, thruVars, bitrates, threadVars>>

(* update_thruput *)

AltToInt(x, y) == IF y # 0 THEN Trunc(x, y) ELSE INT_MIN
\* The conversion of x / y to an int: what is out of range becomes the smallest one.
ToInt(x, y) == IF y # 0 /\ Trunc(x, y) \in ints THEN Trunc(x, y) ELSE INT_MIN

\* Kilobits in sum bytes over the time that has elapsed; the denominator is never negative.
Sample(sum, elapsed) ==
    LET kbits == (sum \div 1000) * 8
    IN  IF elapsed < 0 THEN [num |-> -kbits, den |-> -elapsed]
        ELSE [num |-> kbits, den |-> elapsed]

AltMixed(new, avg) == [num |-> ALPHA * new.num + SCALE * avg * new.den, den |-> SCALE * new.den]
\* The average moves by the fraction alpha to the new value.
Mixed(new, avg) ==
    [num |-> ALPHA * new.num + (SCALE - ALPHA) * avg * new.den, den |-> SCALE * new.den]

Average(new, avg) ==
    IF avg = 0 THEN ToInt(new.num, new.den)
    ELSE ToInt(Mixed(new, avg).num, Mixed(new, avg).den)

\* What a sample counts for as it is, and as the code has cut it.
Values(new) == {ToInt(new.num, new.den)} \cup
               (IF new.den = 0 THEN {} ELSE {Trunc(new.num, new.den)})

Greatest(S) == CHOOSE i \in S : \A j \in S : j <= i

\* History: the bounds of the samples of an entry, and where its clients live.
Recorded(i, new, host) ==
    LET all == Values(new) \cup (IF seen[i].hosts = {} THEN {} ELSE {seen[i].lo, seen[i].hi})
    IN  [seen EXCEPT ![i] = [lo |-> Least(all), hi |-> Greatest(all), hosts |-> @.hosts \cup {host}]]

\* A fragment of sum bytes.  When the client does not take it the conn is closed.
Fragment(k, sum, taken) ==
    /\ pc = "select" /\ pending[k] # <<>> /\ Head(pending[k]).kind = "frag" /\ Entry(k) # 0
    /\ LET i    == Entry(k)
           new  == Sample(sum, now - conns[k].start)
           avg  == Average(new, thru_l[i].avg_put)
           conn == [conns[k] EXCEPT !.end = now, !.t_put = ToInt(new.num, new.den)]
       IN  /\ thru_l' = [thru_l EXCEPT ![i].avg_put = avg]
           /\ seen' = Recorded(i, new, HostOf[k[1]])
           /\ logged' = Line(k, conn, avg)
           /\ IF taken THEN /\ conns' = [conns EXCEPT ![k] = conn]
                            /\ pending' = [pending EXCEPT ![k] = Tail(@)]
                            /\ UNCHANGED <<addr, cli_size, asked, faults>>
                       ELSE Fails /\ Close(k)
    /\ UNCHANGED <<now, ticks, max_thru_idx, bitrates, threadVars>>

ThroughputNext ==
    \/ Tick
    \/ \E c \in Client : Accept(c) \/ \E kind \in {"list", "frag"} : BeginRequest(c, kind)
    \/ Refused
    \/ \E s \in Server : Rejected(s) \/ ForwardFails(s) \/ Forward(s)
    \/ \E k \in Conns : \/ AnswerFails(k)
                        \/ Listed(k) \/ Plain(k) \/ Dropped(k)
                        \/ \E sum \in Sizes, taken \in BOOLEAN : Fragment(k, sum, taken)

ThroughputSpec == ThroughputInit /\ [][ThroughputNext]_throughputVars

-----------------------------------------------------------------------------
(* Properties *)

ThruTyped ==
    /\ thru_l \in [Slots -> {NULL} \cup Thruput] /\ max_thru_idx \in 0 .. FD_SETSIZE
    /\ \A i \in Slots : thru_l[i] # NULL => i <= max_thru_idx
    /\ seen \in [Slots -> [lo : Int, hi : Int, hosts : SUBSET Host]]
ConnsTyped ==
    /\ conns \in [Conns -> {NULL} \cup Conn]
    /\ pending \in [Conns -> Seq(Sent)]
    /\ addr \in [Client -> {NULL, NoAddr} \cup Host]
    /\ \A k \in Conns : /\ pending[k] # <<>> => conns[k] # NULL
                        /\ conns[k] # NULL => addr[k[1]] # NULL
ThreadTyped ==
    /\ pc \in {"select", "request", "crashed"}
    /\ pc = "request" => hand \in Request /\ addr[hand.clit] # NULL
    /\ now \in Int /\ ticks \in Nat /\ asked \in Nat /\ faults \in Nat /\ cli_size \in Nat /\ bitrates \in Seq(Int)

\* Every entry lies below the mark the lookups end at; what is waited for
\* belongs to an open conn and a conn to a client that is entered; rates and
\* estimates are ints (get_thru_by_addrs, close_conn, update_thruput).
ThroughputTypeOK == ThruTyped /\ ConnsTyped /\ ThreadTyped

\* An estimate never leaves the range of what was measured for its entry, however
\* often it is mixed and cut, and whatever the clock did (update_thruput).
AvgWithinSamples ==
    \A i \in Slots : thru_l[i] # NULL /\ seen[i].hosts # {} =>
        seen[i].lo <= thru_l[i].avg_put /\ thru_l[i].avg_put <= seen[i].hi

\* A pair of addresses has one entry, which is fed by clients of one host alone,
\* the one entered as 0.0.0.0 included; the process follows an index of -1 only
\* when the table is full (add_thru, client2server, server2client).
EntriesSound ==
    /\ \A i, j \in Slots : thru_l[i] # NULL /\ thru_l[j] # NULL /\ i # j =>
          <<thru_l[i].clit_addr, thru_l[i].serv_addr>> # <<thru_l[j].clit_addr, thru_l[j].serv_addr>>
    /\ \A i \in Slots : Cardinality(seen[i].hosts) <= 1
    /\ pc = "crashed" => \A i \in Slots : thru_l[i] # NULL

OfPair(k) == {i \in Slots : /\ thru_l[i] # NULL
                            /\ thru_l[i].clit_addr = addr[k[1]] /\ thru_l[i].serv_addr = k[2]}
Estimate(k) == IF OfPair(k) = {} THEN 0 ELSE thru_l[Least(OfPair(k))].avg_put
Last(seq) == seq[Len(seq)]
Fitting(k) == {b \in Range(bitrates) : b > 0 /\ 3 * b <= 2 * Estimate(k)}

\* A fragment is asked for at the highest bitrate on the list of which two thirds
\* of the pair's estimate are enough, and when there is none at the lowest,
\* or at 100 when all are higher (client2server).
RightRate ==
    [][\A k \in Conns :
        Len(pending'[k]) > Len(pending[k]) /\ Last(pending'[k]).kind = "frag" =>
            Last(pending'[k]).rate = (IF Fitting(k) # {} THEN Greatest(Fitting(k))
                                      ELSE Least(Range(bitrates) \cup {100}))]_throughputVars

\* The line logged for a fragment has the file, the rate and the time of its own
\* request, from before it was read until now, and the estimate of its own
\* addresses, unless the browser has asked for more on the conn meanwhile
\* (client2server, server2client, loggin).
LogOwn ==
    [][\A k \in Conns :
        LET r    == Head(pending[k])
            last == \A j \in 2 .. Len(pending[k]) : pending[k][j].kind = "nolist"
        IN  logged' # NULL /\ logged'.conn = k /\ r.kind = "frag" /\ last =>
            /\ logged'.file = r.file /\ logged'.rate = r.rate
            /\ logged'.secs = now - r.at
            /\ \E i \in OfPair(k) : logged'.avg_put = thru_l'[i].avg_put]_throughputVars
=============================================================================
