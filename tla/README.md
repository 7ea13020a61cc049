# VideoCDN in TLA+

VideoCDN (`src/`) is a small content delivery system for video written in C: an HTTP **proxy**
that sits between browsers and web servers and picks the bitrate of video fragments, and a DNS
**name server** that spreads the proxy over the web servers. This directory holds TLA+ modules
that model it, TLC configurations that check the models on small instances, and proofs of
theorems about them for instances of every size.

Contents: [the system](#the-system) · [the modules](#the-modules) · [what the runs
check](#what-the-runs-check) · [fairness](#fairness) · [what is proved](#what-is-proved) ·
[disagreements found](#disagreements-between-the-code-and-what-it-says) · [what is left
out](#what-is-left-out) · [plan](#plan).

To check a model: `tlc -config MCProxyServes.cfg MCProxy`. To check proofs: `tlapm
ProxyProofs.tla`.

## The system

All sources are in `src/src/`. File names below are relative to it.

### Components, state and operations

| component | state | operations |
|---|---|---|
| connection tables (`pool.c`, `conn.c`) | `client_l`, `server_l`, `conn_l`, `thru_l`: arrays of `FD_SETSIZE` pointers; a counter and a high-water mark for each; `read_set`, `write_set`, `maxfd` | `add_client`, `add_server`, `add_conn`, `add_thru`, `close_conn` (which calls `close_clit`, `close_serv`), lookups `client_get_conn`, `server_get_conn`, `get_thru_by_addrs`; `open_server_socket` |
| event loop and sessions (`proxy.c`) | `ready_read`, `nready`; the global `nolist_buf`; locals of the functions in progress | `main`, `serve_clients` → `client2server`, `serve_servers` → `server2client`, `read_requesthdrs`, `read_responeshdrs`, `parse_uri`, `ask_for_nolist`, `clienterror` |
| socket I/O (`io.c`) | none | `io_sendn`, `io_recvn_block`, `io_recvline_block` |
| throughput and bitrates (`media.c`, `conn.c`, `timer.c`) | `avg_put` of each `thru_t`, `start` and `end` of a conn, the global list `bitrates` | `update_thruput`, `get_thru_by_addrs`, `modi_path`, the loop over bitrates in `client2server` |
| manifest parser (`parse_xml.c`) | none | `parse_xml` over libxml2 |
| DNS client (`mydns.c`) | one UDP socket and the server's address | `init_mydns`, `resolve` |
| name server (`nameserver.c`) | one UDP socket | `main`, `serve`, `parse`, `gen_res`, `gen_err` |
| routing (`ospf.c`) | lists `nodes`, `servs`, `clits`, `routing_table`; `query_count` | `OSPF_init` (`parse_servs`, `parse_LSA`, `shortest_path`), `route` |
| list and queue (`mlib/`) | linked lists | `mlist_append`, `mlist_find`, `mqueue_push_tail`, `mqueue_pop_head`, ... |
| activity log (`log.c`) | a file | `loggin` |

### How they interact

The proxy is one process with one thread. `main` waits in `select()`, accepts at most one browser
(`add_client`), then scans the tables: `serve_clients` calls `client2server` for each client that
is readable, `serve_servers` calls `server2client` for each server socket that is.

`client2server` reads a request, calls `resolve()` (a query to the name server, which asks
`ospf.c` for the address), looks for a *conn* of this client with that address and otherwise opens
a socket and calls `add_server` and `add_conn`. It then sends the request on, with the bitrate in
a fragment's path replaced. For a manifest it sends the request and keeps a second request, for
the manifest without bitrates (`*_nolist.f4m`), in the one global `nolist_buf`.

`server2client` reads a response. That of a fragment goes to the browser. That of a manifest is
parsed for its bitrates and thrown away, and `ask_for_nolist` sends `nolist_buf` to the server, on
the same socket or on a new one when the server has announced that it closes the old one; the
response to this request goes to the browser. Errors close the conn, and with its last conn a
client or server.

The sockets do not block, but the functions that read them poll: `io_recvn_block` until all the
bytes asked for are there, however long that takes, `io_recvline_block` until there is a line or
8191 calls of `recv()` have been used up, when it returns what it has. While one peer is polled,
nobody else is served.

### What is hard here

* **Long sequences over reused slots and descriptors.** Both are reused at once. A count that is
  off by one, or an entry left behind, makes a later step close or answer someone else's socket.
* **State read before a blocking call and used after it**: the conn in hand, `ready_read`, the
  global `nolist_buf`, the throughput entry.
* **Peers that stop in the middle**: the results of the reading functions are ignored in places,
  and buffers that were never written are read.
* **Limits**: full tables, no descriptor left, failed `connect()` and `accept()`.
* **Everyone waits on one**: the single thread.
* Outside the proxy: lost and late datagrams, advertisements out of order, unreachable servers.

`PROJECT.json` lists these under `hazards`, each at its line, with the properties that cover it.

### What makes each component correct

* *Tables*: a conn never outlives its ends; counts are exact, so that a socket is closed with its
  last conn and not before; no descriptor has two owners; `select()` watches exactly the sockets
  in the tables; the lookups find the right conn whenever there is one.
* *Event loop*: no socket reported is skipped; what is being served stays in the tables while the
  process waits; a browser gets the answer to its own request; no request disappears; the loop
  comes back to `select()` and every request is answered or its connection closed.
* *Throughput*: a pair of addresses has one entry, fed by one host; the average stays between the
  values it averages; the bitrate asked for is the highest of the list that the estimate allows; the
  log line of a fragment is about that fragment.
* *DNS*: an address returned is one the name server has chosen for this program, host and query
  number; answers stay paired with queries as long as no datagram is doubled and no read fails;
  a lookup ends unless something is lost or the name server has stopped.
* *Routing*: a client is sent to a nearest server; the result does not depend on the order of
  advertisements.

## The modules

```
ConnTable  <-- EXTENDS --  Proxy  <-- EXTENDS --  MCProxy
    ^                        ^
    | EXTENDS                | EXTENDS
MCConnTable              ProxyProofs  -- EXTENDS -->  ConnTableProofs  -- EXTENDS -->  ConnTable
                           ^     ^
                           |     | EXTENDS
                  ScanProofs     RequestProofs

MCOspf  -- EXTENDS -->  Ospf  <-- EXTENDS --  OspfProofs  <-- EXTENDS --  DnsProofs
                         ^                                                  |
                         | EXTENDS                                          | EXTENDS
MCDns   -- EXTENDS -->  Dns  <----------------------------------------------+
                         | INSTANCE ... WITH
                         v
                       Lookup

MCThroughput -- EXTENDS --> Throughput <-- EXTENDS -- ThroughputProofs

ConnTableProofs, OspfProofs, ThroughputProofs  -- EXTEND -->  NumberLemmas
```

`Lookup` is an abstract specification that `Dns` implements. `Proxy` is composed with `ConnTable`,
of whose operations its steps are built, and `Dns` with `Ospf`, which it drives.

### ConnTable: the tables (`pool.c`, `conn.c`)

State: the three tables as functions from slots to entries or `NULL`, their counters and marks,
`read_set`, `maxfd`, the descriptors open in the kernel (`open_fds`), and `aborted` for the run
into undefined behaviour. `write_set` is not a variable since the code sets and clears the same
bits in both sets.

| action | code |
|---|---|
| `Accept` | `main`: `accept()` succeeds, `add_client` |
| `AcceptFails` | `main`: `accept()` fails, the listening socket is closed and stays in `read_set` |
| `OpenConn` | `open_server_socket`, `add_server`, `add_conn`; the result may be -1, which is entered like a descriptor |
| `Overflow` | `add_server` finds no slot and returns -1, `add_conn` follows `server_l[-1]` |
| `CloseConn` | `close_conn` with `close_clit`, `close_serv` and `close_socket` |

Here any of these operations may come at any time, so that what holds of `ConnTable` does not
depend on when `proxy.c` calls which. `Proxy` uses the same operations as parts of its own actions.

Assumptions on the constants, each with its reason in the code: at least one slot and one
descriptor (`SizeAssumption`); the process may open no more descriptors than an `fd_set` has bits
(`LimitAssumption`: the default limit is 1024 = `FD_SETSIZE`); the bit that `FD_SET(-1)` touches is
not that of the listening socket (`AliasAssumption`); `NULL` is no entry (`NullAssumption`).

### Proxy: the process, browsers, servers and the network (`proxy.c`, `io.c`)

`pc` says where the one thread is:

| `pc` | the process is at |
|---|---|
| `select` | `select()` in `main` |
| `clients`, `servers` | the scan of `serve_clients`, of `serve_servers`, at slot `at` |
| `req_line`, `req_hdrs` | `io_recvline_block` in `client2server`, in `read_requesthdrs` |
| `lookup` | `parse_uri`, `resolve()` and the choice of a conn |
| `forward` | the check of the headers' result, `add_thru`, sending the request on |
| `res_hdrs`, `res_body` | `read_responeshdrs`, the body in `server2client` |
| `hung`, `crashed` | a loop without exit; an assertion or undefined behaviour |

Everything between two of these points is one step: nothing outside the process can see a
difference in between. The interleaving is that of the process with its peers. `cur` is the slot of
the client or server being served, `conn` that of its conn, `req` and `res` what has been read.

`Select`, `AcceptError` and `PhaseEnds` are `main`. `BeginClient`, `ReadRequestLine`,
`RequestLineAtEnd`, `RequestLineTimesOut`, `ReadRequestHdr`, `RequestHdrTimesOut`, `RequestHdrAtEnd`, `BadUri`, `UseConn`,
`MakeConn`, `ServersFull`, `RejectRequest` and `Forward` are `client2server`. `BeginServer`,
`ReadResponseHdr`, `ResponseHdrsEnd`, `ResponseHdrTimesOut`, `ResponseHdrAtEnd`, `SkipHeaders`,
`ReadBody`, `BodyAtEnd`, `AskSame`, `AskElsewhere` and `AskOverflows` are `server2client` and `ask_for_nolist`.
`Ask`, `Deliver`, `ServerAnswers` and `PeerStops` are the peers and the network; they stand for code
outside `src/` and assume no more than TCP: what is sent comes in order, or the stream ends.

A socket holds lines and bodies. `out` is what the peer has written and the network still holds,
`inb` what the proxy can read, `owed` the requests a web server has yet to answer, `down` whether
the peer is up, has closed (`fin`) or reset (`rst`) the connection. `Faults` switches on what peers
and the network may do, so that each run names the environment its properties hold in.

Undefined behaviour is a choice over what the build can produce. `Residue` names what memory the
code reads without having written it may hold: `client2server` looks at its line buffer even when
the read has failed, at `flag` unless the request was for a manifest, and `server2client` at
`close` of `response_t` unless there was a `Connection` line. A stale request line gives a request
nobody made, of kind `junk` when it is passed on from `nolist_buf`.

Abstractions:

* A line or body arrives whole, unless the fault `slow` lets a line take more polls than
  `io_recvline_block` has. Then it returns nothing (`TimesOut`), or the line that came last is cut
  in two (`IsCut`): the caller gets the first part and the `rest`, which may be an empty line, is
  the next one read. `client2server` takes either for a request line, `read_requesthdrs` takes
  nothing for the end of the headers and gives up on a part. `read_responeshdrs` returns early on
  both (`GiveUp`) and leaves `hdr_buf` and `hdr_len` unwritten: `io_sendn` may refuse them, or send
  what is there, and `free()` may abort; where a type and a length had been read the other headers
  are taken for the first bytes of the body (`SkipHeaders`, `BodyTaken`). A stream that ends inside
  a line is taken to end before it.
* Every socket in the tables is writable, so that `select()` counts each of them in `nready` besides
  the readable ones (`Reported`). A peer that does not read until its send buffer is full would not
  be counted, and `io_sendn` would poll for it without end: such peers are left out, and
  `NoneSkipped` rests on that. (A socket passed over would be reported again in the next turn.)
* A browser has one request outstanding on a connection.
* `resolve()` comes back at once with any address in `SrvAddr`. It can thus send requests of one
  browser to different servers.
* Of `thru_l` the model keeps the set of address pairs, which decides whether the lookup gives -1.
  That the array never fills up is assumed (`ProxyAssumption`: fewer pairs than slots). What is in
  it, and what happens when it is full, is `Throughput`.
* `AliasFd` lies outside the descriptors in use (`ProxyAssumption`). What happens when it does
  not is the run `alias_fd`.
* A request is its kind and its video, a response the request it answers and whether a close was
  announced.

### Ospf: the choice of a server (`ospf.c`, over `mlib/`)

The name server's `main` calls `OSPF_init` once and `route` for each query. Each pass of a loop of
`OSPF_init` is a step, so that the lists are seen in every state the loops leave them in.

| `pc` | loop | actions | code |
|---|---|---|---|
| `servs` | lines of the file of servers | `ReadServer` | `parse_servs` |
| `LSAs` | lines of the file of advertisements | `ReadLSA` | `parse_LSA` |
| `neighbors` | names in one line | `AddNeighbor` | `strtok` in `parse_LSA` |
| `clits` | clients | `NextClient` | `mlist_foreach(clits, shortest_path)`, `unmark` |
| `search` | the queue, and the neighbours of a node | `Pop`, `SkipMarked`, `Push`, `FindServer` | `shortest_path` |
| `route` | queries | `RouteRoundRobin`, `RouteNearest`, `RouteFails` | `route` |

`LoopEnds` goes from each loop to the next, and from the search to `aborted`, which is its
`assert(0)`. `crashed` is a remainder by zero or a lookup that finds nothing and is followed.

Lists are sequences of names: an element of `servs`, `clits` or of a node's neighbours points to
the one entry of a name in `nodes` (`GraphSound` says it is one). Names are atoms. The two
files are any member of `ServFiles` and `LsaFiles`; a file that is missing is an empty one, since
the result of the parsers is ignored. `fields` of a line is what `sscanf()` returns. The fields a
line does not have keep the values earlier lines have left in the locals of `parse_LSA`, of which
`strtok` keeps the first name (`Tokenized`); before any line the buffer of the neighbours may hold
anything (`Garbage`). That the first line has a number is assumed (`OspfAssumption`); a blank
line changes nothing and is left out. `QueryLimit` stands for 2^32.

### Lookup, Dns: the address lookup (`mydns.c`, `nameserver.c`)

`Lookup` is what `resolve()` promises: `Begin` a lookup with a query number, let the name server
`Choose` addresses, `Return` one that it has chosen for this program, host and number, or none.

`Dns` extends `Ospf` by the programs that call `resolve()`, the loop of the name server and the
datagrams between them.

| action | code |
|---|---|
| `Ask` | `resolve`: `q_pkt_maker`, `sendto()` |
| `Receive`, `ReceiveFails` | `resolve`: `recvfrom()` returns a datagram, which `parse_res` compares with the query; or fails |
| `Starts` | the name server's `main`: a step of `OSPF_init` |
| `NsSelect` | `main`: `select()` reports exactly one descriptor |
| `NsSelectFails`, `ServeReadFails` | `main`, `serve`: `select()` or `recvfrom()` fails and the program exits |
| `ServeValid`, `ServeInvalid` | `serve`: an answer made by `route` and `gen_res`, or by `gen_err` |
| `ServeFails` | `serve`: `route` divides by zero or follows an entry that is not there |
| `Deliver`, `Duplicate`, `Lose`, `Tick` | UDP and the clock (outside `src/`) |

A datagram is the fields that `parse` and `parse_res` tell apart: query number, host, answer bit,
error code and address. It also has the number of the lookup and of the copy, which no program
looks at. A query number is a function of the second (`RandAt`), since `q_pkt_maker` calls
`srand(time())` before each `rand()`. `Error` puts `htonl(3)` into a field of four bits, as the
code does. `stray` is the number of descriptors that `read_set` holds by chance: it is a local of
`main` that is never zeroed, and with a stray descriptor that is always ready `select()` never
reports exactly one together with a query. `given` is a history of the name server's choices.

### Throughput: what the proxy measures (`conn.c`, `media.c`, `log.c`, `proxy.c`)

The part of `client2server` and `server2client` that deals with times, estimates, bitrates and the
log, without the sockets and slots that `Proxy` has. A conn is the pair of a browser and a
server's address; a server answers what it has been sent in order (`pending`), and a browser may
ask again before it has an answer.

| action | code |
|---|---|
| `Accept` | `main`: `accept()`, whose first call gets a `cli_size` of 0 and stores no address |
| `BeginRequest`, `Refused`, `Rejected` | `client2server`: the time is taken, the request is read, or refused, or its conn is closed |
| `Forward`, `ForwardFails` | `client2server`: the entry of `thru_l` found or made, the bitrate chosen, the request sent; or index -1 is followed |
| `Listed`, `Plain` | `server2client`: a manifest with bitrates, logged and followed by `ask_for_nolist`; one without |
| `Fragment`, `AnswerFails` | `server2client`: `update_thruput`, `loggin` and the fragment sent on; or index -1 is followed |
| `Dropped` | `server2client`: the conn is closed before anything is measured |
| `Tick` | the clock, on or back |

Divisions are those of C: `sum / 1000` and `Trunc` cut towards zero, and `ToInt` is the conversion
of a double to an int on x86-64, which gives `INT_MIN` for what is out of range and for a division
by zero. Between two cuts the code has doubles and the model exact fractions (`num`, `den`).
A fraction alpha of two integers stands for the float; rounding is monotone and keeps integers, so
that it does not change order. `Pass` is one pass of the loop over bitrates, `Passes` a recursive
function of the list. `seen` is a history of the samples of each entry and of the hosts they come
from, `logged` the line the last step has written.

Left out: the conns made by `ask_for_nolist` after an announced close, whose `start` is never
written (`Proxy` has them), and the clock while nothing is asked for, which is never measured.

### MCConnTable, MCProxy, MCOspf, MCDns, MCThroughput

Instances for TLC: model values, symmetry of addresses, hosts and servers, the sets of requests,
the files of servers and advertisements, who may ask for what, and the lists of bitrates.

### ConnTableProofs, ProxyProofs, ScanProofs, RequestProofs, OspfProofs, DnsProofs, ThroughputProofs, NumberLemmas

Theorems and proofs, see [below](#what-is-proved). Those about `Proxy` are in three modules:
`ProxyProofs` about the tables and sockets in it, `ScanProofs` about the loops over what `select()`
reports, `RequestProofs` about requests and their answers. `NumberLemmas` has the facts about
products, quotients, and least and greatest elements of finite sets that the others rest on.

## What the runs check

| run | instance | properties | shows |
|---|---|---|---|
| `conn_table` | 4 slots, 4 descriptors (one the listening socket), 2 addresses; 1.0 M states | `TypeOK`, `NoDangling`, `RefCounts`, `FdOwnership`, `Watching`, `HighWater`, `Counters`, `SlotsSuffice`, `FullByFailures`, `ServerLookup`, `ClientLookup`, `StableEndpoints`, `ClosedWithLastConn` | every sequence of operations keeps tables, counts, sets and lookups in step, with failed connects, leaked descriptors, a full server table and a failed `accept()` |
| `proxy_serves` | 5 slots, 2 connections by browsers, 2 requests of 5 kinds, 2 videos, servers close idle connections; 83 k states | `AnswersOwn`, `RequestTracked`, `Served`, `LoopReturns` | two sessions interleaved: each request gets its own answer or a closed connection, none is lost, the loop always returns |
| `proxy_faults` | 4 slots, 2 connections, 2 requests, 2 server addresses, 2 peers stop anywhere, by close or reset; `connect()`, `accept()` fail; servers announce a close; 1.2 M states | `HandsOn`, `NoneSkipped`, `ThruFound` | whatever ends while the process waits, what it holds in hand is still the conn of who it serves, no reported socket is passed over, and no answer that needs a throughput entry comes over a conn of `ask_for_nolist` whose addresses have none |
| `proxy_full` | 3 slots, 1 connection, 3 requests (made by the browser or out of stale bytes), 2 server addresses, lines late or cut short, all residues; 3.2 M states | `NoneSkipped` | phantom requests and failed connects fill the server table up to the overflow, headers end early and their rest is read as something else: the scans still come to every socket reported |
| `ospf` | 2 clients, 2 routers, 2 servers; 23 k files; 0.4 M states | `OspfTypeOK`, `GraphSound`, `LatestWins`, `NearestServer`, `AbortJustified`, `RoutedToServers`, `InitEnds` | the graph is that of the newest advertisements, the search finds a nearest server or there is none to reach, and start-up ends |
| `dns` | 2 programs (2 lookups of 2 hosts with 1 fault, 1 lookup without), 2 servers, 2 files, 0 or 1 stray descriptor, 2 seconds; 0.4 M states | `DnsTypeOK`, `RightServer`, `SurplusStays`, `ResolveSpec`, `Undisturbed`, `LookupEnds` | `resolve()` keeps the promise of `Lookup`; the surplus of a copy or a late answer never wears off unless a datagram is lost; lookups end unless there is a reason, such as a name server that has exited |
| `throughput` | 2 browsers of 2 hosts, 2 servers, 2 entries, 2 lengths, 2 lists of bitrates, 3 requests, 1 tick of the clock, 1 failure, ints from -30 to 29; 2.1 M states | `ThroughputTypeOK`, `AvgWithinSamples`, `EntriesSound`, `RightRate`, `LogOwn` | estimates and entries stay sound, also when the table is full, time goes back and a first client is entered as 0.0.0.0; the bitrate and the log line of a fragment are its own |

The other five runs each have one property the code does not have, see
[below](#disagreements-between-the-code-and-what-it-says).

The properties in words stand above each definition. Deadlock is not checked: the system may stop,
since browsers need not ask for anything and the bounds end what peers do, and the name server may
abort, crash or exit.

**Bounds.** The tables have no bound but their size: slots and descriptors go through every pattern
of use and reuse, and four slots are enough for two clients with two conns between them and a
reused slot below a live one. With four descriptors and four slots the server table fills only by
failed connects, which is how the code reaches it. In `Proxy`, `MaxAccepts`, `MaxReq` and
`MaxStops` bound what the peers do; the process itself is never bounded. Two connections and two
requests are enough for each interleaving of two sessions at the points where the process waits,
for two requests on one connection, for a descriptor closed and reused in the same turn, and for a
conn found by the lookup or made anew. A third request in `proxy_full` is needed to fill three
slots. Two stops let a browser and a server, or two servers, end at any point of one session. Each
run's sets are chosen so that every action, and every alternative in one, happens in some run.

In `Ospf` a router advertises itself twice, with a higher, the same or a lower number; six lists of
neighbours for one router and three for the other give cycles, shortcuts, a name listed twice, an
empty list, ways through a client, and networks cut in two. Files of servers come with one twice
and empty. The last line is another client's, a server's, or the rest of a line cut by `fgets`.
`QueryLimit` 4 lets the counter wrap round with two servers and with none.

In `Dns` two lookups are enough for an answer, a copy or a late one to meet the lookup after its
own, two seconds for query numbers that are the same and that differ, and one fault for each of
loss, copy and failed read; the files give a program that has a server, that advertises nothing and
that is not advertised. In `Throughput` two entries fill up with two browsers and two servers (four
pairs). A fragment of 4000 bytes (32 kilobits) gives an estimate of 16 after a step of 2, of which
10 can be used: above two of the bitrates 8, 4 and 15, below the third. With a step of -1 its
quotient, -32, is below the range of an int, without a step it is a division by zero, and one of
900 bytes gives 0, the value of an entry without an estimate. The other list has only one bitrate,
above 100. Three requests are needed for a manifest and two fragments, so that a rate is
chosen from a list and an estimate, and for a request made before an earlier one is answered.

**Mutants.** Each property has an altered form of a definition (`Alt...`, standing before the
definition it alters) under which the run finds the property violated: a slot overwritten, a
lookup that compares the address alone, a count not taken, an entry kept when its last conn closes, the
manifest with bitrates asked for twice, a scan that does not go on behind the slot, a query answered
twice, and so on.

## Fairness

`FairSpec` assumes weak fairness of:

* the steps of the process: `Serve`, and `Select` when there is something to read. There is
  one thread that waits for nothing but sockets, and `select()` returns when one is readable;
* `Deliver` per socket: TCP delivers what was written;
* `ServerAnswers` per socket: a web server that is up answers what it owes.

Browsers need neither connect nor ask, and no fault has to happen. But what they do in the run of
`Served` and `LoopReturns` is limited by its `Faults` and by the model: they write whole requests
and do not disconnect, and they read what they are sent (`Reported`); no line is late; servers close
only connections they owe nothing on. A browser that wrote half a request, or a server that owed
its answer for ever, would not stop the process: `io_recvline_block` gives up after 8191 polls, and
the request or the response is taken for one with empty headers (the fault `slow`). `io_recvn_block`
does wait for ever, for a body that does not come. In both cases a request may never be answered,
which is why the second and the third assumption are made.

In `Dns` (`DnsFairness`) the programs and the name server run (`Receive`, `Starts`, `NsSelect`,
`Serve`), and a datagram that is not lost arrives (`DeliverFor` each program). Weak fairness is
enough, since each of these stays possible until it is done. Nothing is assumed of faults or the
clock; a lost datagram ends what `LookupEnds` promises because the code has no timeout.

Of `Ospf` weak fairness of `OSPF_init` is assumed for `InitEnds`: start-up is a sequential program
that waits for nothing. Queries may never come.

## What is proved

For every size of the tables, limit of descriptors, set of addresses, videos, requests, faults,
residues, files, programs, clocks and samples, from the assumptions named in the modules:

* `ConnTableProofs`: **`TableCorrect`**, `TableSpec => []TableInv`. `TableInv` is the conjunction
  `TypeOK`, `NoDangling`, `RefCounts`, `FdOwnership`, `Watching`, `HighWater`, `Counters`. No part is
  inductive alone: closing a conn keeps `NoDangling` only if the counts are exact (`RefCounts`);
  that closing one entry leaves the others' sockets open needs `FdOwnership`; `Watching` then needs
  it again, since clearing a bit must not take out another entry's; `Counters` is what makes the
  guard on `cur_conn` mean something. From it follow `TypeCorrect`, `NoConnDangles`,
  `RefCountsExact`, `FdsOwnedOnce`, `SlotsAlwaysSuffice` (each client or server
  slot with a descriptor has a descriptor of its own, and the listening socket has one, so that a
  slot is left), `FullOnlyByFailures` (by the same count, a full server table holds an entry without
  a descriptor), `ServerLookupExact` and `EndpointsStable`. `WatchedExactly`, `MarksCover` and
  `CountersExact` state parts of it for a reader. `ClientLookupFinds` uses that the mark covers every
  conn (`HighWater`) and that a descriptor has one owner, `SocketsClosedInTime` that the count of an
  entry is 1 exactly when the conn that closes is its only one (`RefCounts`). The proof has a lemma
  per operation, and in each a step per conjunct it disturbs.
* `ProxyProofs`: **`ProxyTablesCorrect`**, `Spec => []TableInv`: what is proved of the operations of
  `ConnTable` in any order holds in the whole proxy. **`HandsOnAlways`**,
  `Spec => []HandsOn`: over every blocking call the client, server and conn in hand stay in the
  tables and belong to each other. It rests on `TableInv` (a conn found leads to live ends) and on
  the peers' actions leaving the tables alone. Its second half is about the sockets:
  **`SessionAlways`**, the invariant of all sessions, says besides types that a socket has a peer
  exactly as long as the tables have its descriptor (`FdOwnership` is why closing one entry takes no
  other's peer) and that every answer under way (`Carries`: owed, sent or readable) is to a request
  whose pair of addresses has been entered, which `EndpointsStable` keeps true as long as the conn
  lives. **`ThruAlwaysFound`** follows.
* `ScanProofs`: **`NoneEverSkipped`**. `serve_clients` and `serve_servers` stop when `nready` is used
  up, and sockets are closed, opened and made readable between two of their passes.
  **`ScansPaidFor`** is the invariant: what is left of `nready` is enough for all that may still be
  served (`Paid`). `select()` counts a reported socket twice, as readable and as writable, which
  is what pays for a descriptor that is closed and opened again within the turn and that
  `ready_read` still shows. While clients are scanned each client due counts twice, for itself and
  for the server that its request may be sent to; each server twice, for itself and for the one
  that `ask_for_nolist` may open; and each free descriptor that was reported once, since it may
  come back. While servers are scanned a server counts twice only if it carries a manifest
  (`Listing`). `InTurn` says that who is served is not among those passed.
* `RequestProofs`: **`AnswersAlwaysOwn`**, for every instance that is `Orderly`: web servers reset no
  connection, no line takes more polls than `io_recvline_block` has, `flag` is not read from memory
  that happens to make a manifest of a fragment, all requests are GETs, and there is only one
  manifest. The invariant follows one client: what it has sent and the proxy has not read is the
  request it waits for, whole, or the rest of it that fits `pc` (`Stream`); an answer to that request
  is on its way once, on one of its conns, or in the hands of `server2client`, and only when no
  part of the request is still to be read (`Answers`). That a conn's socket is no other conn's
  (`FdOwnership`), that a client's conns are not moved to another (`StableEndpoints`) and
  `HandsOn` make a step for one client leave the others alone. The run `nolist_shared` shows
  what happens with two manifests; a reset (`srv_rst`) has a fragment sent from unwritten memory.
  **`RequestsTracked`** is about instances that are `Friendly`: one server address, no announced
  close, no failing `open_server_socket`, `flag` as above; browsers and servers may stop or be
  reset, and lines be late. `TrackInv` adds to `RequestTracked` that only browsers which are there wait,
  that every server entry has a socket and an address of `SrvAddr` (`Placed`), and that a client has
  one conn (`OneConn`): `close_conn` then closes the browser's connection with the conn
  (`SocketsClosedInTime`) instead of forgetting its request, and `client_get_conn` finds the conn
  there is (`ClientLookupFinds`), so that no second one is made. It needs a descriptor to be left when a
  client gets its conn (`Spare`). **`NoneForgotten`** needs no such condition when there are
  more than two descriptors for each connection browsers open: no descriptor is leaked
  (`NoLeak`) and the others' conns take at most one each (`SpareLeft`).
* `OspfProofs`, for all files, names, buffers and counters: **`OspfTypeCorrect`**; **`OspfGraphSound`**,
  which needs besides itself that there are no clients yet while servers are read (`GraphInv`);
  **`OspfAbortJustified`** and **`OspfRouted`**. The last two rest on `OspfInv`. Its part `SearchInv`
  is the invariant of the search: marked nodes can be reached and are no servers, and a marked node
  that has left the queue has only neighbours that are marked or still to be looked at. So an
  empty queue leaves a closed set without a server, and reachability is stated by closed sets
  to need no induction. `PhaseInv` says how far the search is and that with round robin every
  node is a server; `RoutedInv`, which needs that no client is listed twice (`GraphSound`), that
  clients done with stay done with. **`OspfLatestWins`** adds what the lines read so far say
  (`LatestInv`: while the names of a line are taken one by one, the list is a prefix of them).
  **`OspfNearestServer`** needs the finite set of names (`NameAssumption`) and has the distances of the
  search in its invariant: the first part of the queue is as far from the client as what leaves it
  and the rest one hop further, and all that is marked out there is in the queue (`Frontier`);
  each hop has found something new, so that there are fewer hops than names (`AtLevel`). Of the
  recursive function that gives the sets within so many hops (`Within`) only what one more
  hop adds is needed, and that it exists (`WithinDef`).

* `DnsProofs`: **`DnsRefinesOspf`**, `DnsSpec => OspfSpec`, so that what is proved of `Ospf` holds of
  the name server with its datagrams. **`DnsImplementsLookup`**, `DnsSpec => ResolveSpec`: each step
  of a program or of the name server is a step of `Lookup` or leaves it alone. The mapping takes from
  the query a program waits on its host and number; `DnsInv` gives what it needs. Its part `Truth`
  says that every datagram with the answer bit, wherever it is, is one of the choices made so far,
  which copies, losses and delays keep; `Choices` that each choice was made with a complete table and
  led to the right server (`RoutedToServers` and `OspfTypeOK` of `Ospf` are used here). From it
  follow **`DnsRightServer`** and **`DnsTypeCorrect`**. **`DnsBacklog`** counts the datagrams of a
  program on the network, with the name server and with the program: their number is the program's
  surplus, and one more during a lookup (`SurplusStays`). A step takes one away only where another
  comes up, which needs that no two are the same one (`Tokens`).
  **`DnsUndisturbed`** needs that without a copy or a failed read every datagram of a program
  belongs to the lookup it is in (`Current`).
* `ThroughputProofs`, for all clocks, lengths, lists of bitrates, fractions alpha, ranges of int and
  sizes of `thru_l`: **`ThroughputInvariant`**, `ThroughputSpec => []ThroughputInv`. Besides the type
  invariant and `AvgWithinSamples` its parts are `UniquePairs` (the lookup ends at a mark that
  leaves no entry out, so that a pair is not entered twice), `FedByOwn` (the samples of an entry
  come from clients entered with its address), `FirstOnly` (only one client, the first, can be the one
  entered as 0.0.0.0) and `ConnsEntered` (a conn has an entry or the table was full when it was
  made and still is, since entries are never freed). **`EstimatesWithinSamples`** rests on two
  lemmas: a mixture of two numbers lies between them, and cutting keeps the order
  (`TruncOrder`, over fractions with different denominators); a sample out of the range of an int
  counts both as it is and as it was cut, since the code mixes the double and not the int.
  **`EntriesAlwaysSound`** follows. **`RatesAlwaysRight`** proves the loop over bitrates against
  the set of those that fit: each prefix of the list has the greatest fitting and the least
  bitrate, or its start value. The induction is over the set of lengths for which this fails, which
  would have a least member (`LeastNumber`). **`LogAlwaysOwn`** strengthens the invariant by what
  joins a conn to the last request sent on it.

Model-checked only: liveness (`Served`, `LoopReturns`, `InitEnds`, `LookupEnds`), which is out of the
prover's reach. All other properties of the passing runs are theorems.

## Disagreements between the code and what it says

Each is a run that ends in a counterexample; `PROJECT.json` quotes the lines.

| run | property | what happens |
|---|---|---|
| `alias_fd` | `ClientsWatched` | -1 from `open_server_socket` is entered as a descriptor. `FD_CLR(-1)` clears bit 63 of the set (x86-64): the client with that descriptor is never read again |
| `nolist_shared` | `AnswersOwn` | `nolist_buf` is shared: of two clients that ask for the manifests of two videos one gets the other's video |
| `response_cut_short` | `LoopReturns` | a server that closes inside a response: `io_recvn_block` adds up zeros, `read_responeshdrs` reads its last line again, for ever |
| `page_dropped` | `Served` | a response that is neither XML nor F4F is thrown away with its conn; with another conn open the browser stays connected and never hears of it |
| `stale_ready` | `ReadReady` | a descriptor closed and reopened within a turn is still in `ready_read`: the new server socket is read though nothing has arrived. If the answer takes longer than 8191 polls, nothing is taken for a response, and the conn is closed |

Two more show up in the model when a run's environment is widened, and bound where its properties
are stated: a request sent on a connection whose server has announced a close is lost
(`RequestTracked` with `close`), and after a reset a fragment is sent from unwritten memory
(`AnswersOwn` with `srv_rst`). And with two server addresses a request without a `Host` line is lost when
the browser has two conns: the one found is closed, the browser stays (`RequestTracked`).

## What is left out

* The text of requests, URIs and responses, and the parsing of XML (libxml2 does it).
* The time stamp of a log line, the query log of the name server, and the test programs.
* What the proxy does when `resolve()` has failed: it follows a pointer nobody has written.
* Functions nothing calls: `get_client`, `get_server`, `update_client`, `update_server`,
  `update_conn`, `process_list`, `io_recvn`, `io_recvlineb`, `serv_add`, `serv_del`, `serv_get`,
  `get_time_diff`.
* Set-up in `main` and `open_listen_socket` up to the loop; the state it leaves is `Init`.
* Of the lists, their links and the operations nothing calls; of routing, the text of names (the
  last character of each server's line is cut off, whatever it is) and the debug printers.
* The bytes of DNS packets: the encoding of a name, and offsets in a packet.
* Streams byte by byte: `Proxy` has the outcomes that the callers of `io.c` see. Of these it lacks the
  end of a stream inside a line, whose buffer ends in what was there before, and send buffers that
  are full.
* libxml2, of which the repository has the headers only. They are declarations, and about three
  quarters of the lines under `src/`.

Cases the properties name and the code does not handle, found in the models: an answer taken for
another lookup of the same second and host (`Undisturbed` says when it cannot be), a name server
that serves nothing since `read_set` was not zeroed (`Spinning`), a name error sent as "no error"
(`Error`), a fragment asked for at 100 when all bitrates are higher, or at the rates of
another video's manifest (`RightRate` speaks of the last list), a log line that mixes two
requests of one conn (excluded by `LogOwn`), and a full `thru_l` (`EntriesSound`).

## Plan

Done: the tables, the event loop and both kinds of sessions with their faults, routing, the address
lookup over lossy datagrams, estimates and bitrates; the invariants of each, and the
refinements of `Ospf` and `Lookup`. In order of importance:

1. **Theorems**: `AnswersOwn` for several manifests as long as no two clients ask for them at a
   time, `RequestTracked` for several server addresses where every request has a `Host` line.
2. **IoStream** (`io.c`): bytes in chunks of any size, polls, ends of streams and resets; what
   `Proxy` takes for granted of lines and bodies as abstract specification.
