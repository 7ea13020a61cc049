------------------------------- MODULE Proxy -------------------------------
(***************************************************************************)
(* The proxy process: the select() loop of main, serve_clients and         *)
(* client2server, serve_servers and server2client, over the tables of      *)
(* ConnTable and the sockets of browsers and web servers.                  *)
(*                                                                         *)
(* The process has one thread.  pc is the read() or the call it is at, and *)
(* everything between two of these points is one step.  Sockets carry      *)
(* lines and bodies, not bytes: out is what the peer has written and the   *)
(* network still holds, inb what the proxy can read.                       *)
(*                                                                         *)
(* Abstracted: the choice of a bitrate and the throughput it follows, the  *)
(* text of requests (a request is its kind and its video), full send       *)
(* buffers (every socket is writable) and the address lookup, which may    *)
(* return any address of a web server.  A line whose reader has run out of *)
(* polls is cut short, and its end is a line of its own ("rest").          *)
(***************************************************************************)
EXTENDS ConnTable, Sequences

CONSTANTS
    Videos,         \* videos on offer
    Requests,       \* requests a browser makes, see Kind
    ClitAddr,       \* addresses of browsers
    SrvAddr,        \* addresses resolve() may return
    Faults,         \* what peers and network may do, see Fault
    Residue,        \* what an unwritten line buffer may hold, see Leftover
    MaxAccepts,     \* bound: connections that browsers open
    MaxReq,         \* bound: requests that browsers send or the proxy makes up
    MaxStops        \* bound: connections that peers end

\* "list" is a .f4m manifest, "nolist" the manifest the proxy asks for in its
\* place, "frag" a video fragment and "page" any other file.  "nohost" is a
\* fragment asked for without a Host line, "bad" a URI parse_uri refuses and
\* "post" a request that is not a GET.  "junk" is a request made of stale bytes.
Kind == {"list", "nolist", "frag", "page", "nohost", "bad", "post", "junk"}
Request == [kind : Kind, video : Videos]

\* idle_close: a web server closes a connection it owes nothing on.
\* srv_fin, srv_rst: it stops at any point, in order or by a reset.
\* close: it announces "Connection: close" in a response and then closes.
\* clit_fin, clit_rst: a browser stops at any point.
\* refuse: open_server_socket may fail.  accept: accept() may fail.
\* slow: a line or its end may take longer than the polls io_recvline_block has.
Fault == {"idle_close", "srv_fin", "srv_rst", "close", "clit_fin", "clit_rst",
          "refuse", "accept", "slow"}

\* What a line buffer holds that recv() did not write: nothing, an empty line, a
\* line of an earlier request, another line; "flag" is flag of client2server and
\* close of response_t, which not every path writes.
Leftover == {"empty", "crlf", "get", "line", "flag"}

ASSUME ProxyAssumption ==
    /\ Requests \subseteq [kind : Kind \ {"nolist", "junk"}, video : Videos]
    /\ ClitAddr \subseteq Addr /\ SrvAddr \subseteq Addr
    /\ Faults \subseteq Fault /\ Residue \subseteq Leftover
    /\ AliasFd \notin Fd
    /\ Cardinality(ClitAddr \X SrvAddr) <= FD_SETSIZE    \* thru_l never fills up

\* A line or body of the streams, as the sockets hold it.  Only a server that may
\* close with a response announces it.  Where lines may be late, there is the "rest"
\* of one, and a response_t is "cut" whose hdr_buf and hdr_len were not written.
IfLate(t) == {x \in {t} : "slow" \in Faults}
Header  == [t : {"hdr"} \cup IfLate("cut"), r : Request,
            close : {b \in BOOLEAN : b => "close" \in Faults}]
Message == Header \cup [t : {"line"}, r : Requests]
                  \cup [t : {"host", "blank", "body"} \cup IfLate("rest")]
Socket  == [inb : Seq(Message), out : Seq(Message), owed : Seq(Request),
            down : {"up", "fin", "rst"}]
\* A request in the hands of client2server.
Reading == [get : Requests, host : BOOLEAN, read : BOOLEAN, ok : BOOLEAN]

ASSUME NoValueAssumption == NULL \notin Socket \cup Reading \cup Header \cup Request

VARIABLES
    pc,             \* where the process is
    at,             \* slot at which the scan of the current table goes on
    cur,            \* slot of the client or server being served
    conn,           \* slot of its conn
    req,            \* request being read: the request, and what its headers showed
    res,            \* response_t of the response being read
    ready, nready,  \* ready_read and nready, as select() and the loops left them
    nolist,         \* the request text in nolist_buf
    thru,           \* the address pairs of thru_l
    sock,           \* sockets: what peers have sent and how they stand
    asks,           \* requests a browser has sent and has no answer to
    delivered,      \* the answer last delivered, and the request it came upon
    nacc, nreq, nstop   \* connections opened, requests sent and connections
                        \* ended so far, for the bounds

loopVars  == <<pc, at, cur, conn, req, res, ready, nready>>
peerVars  == <<sock, asks, delivered>>
boundVars == <<nacc, nreq, nstop>>
proxyVars == <<tableVars, loopVars, nolist, thru, peerVars, boundVars>>

-----------------------------------------------------------------------------
(* Sockets and lines *)

Open == [inb |-> <<>>, out |-> <<>>, owed |-> <<>>, down |-> "up"]

AtEnd(fd)    == sock[fd].inb = <<>> /\ sock[fd].out = <<>> /\ sock[fd].down # "up"
Readable(fd) == sock[fd] # NULL /\ (sock[fd].inb # <<>> \/ AtEnd(fd))

\* A line or body is there to be read, and is taken from the socket.
CanTake(fd)   == sock[fd].inb # <<>>
Line(fd)      == Head(sock[fd].inb)
Take(fd)      == [sock EXCEPT ![fd].inb = Tail(@)]

\* io_recvline_block has used up its polls: no byte of the line has come and the
\* buffer is the empty string,
TimesOut(fd) == "slow" \in Faults /\ sock[fd].inb = <<>> /\ ~AtEnd(fd)
\* or the first bytes of the line that came last: its end stays in the socket,
\* which may be an empty line unless the line is one.
IsCut(fd)    == "slow" \in Faults /\ Len(sock[fd].inb) = 1 /\ Line(fd).t # "body"
Rest(fd)     == [t : {"rest"} \cup (IF Line(fd).t = "blank" THEN {} ELSE {"blank"})]
Leave(fd, m) == [sock EXCEPT ![fd].inb[1] = m]

RequestText(r) == <<[t |-> "line", r |-> r]>>
                  \o (IF r.kind = "nohost" THEN <<>> ELSE <<[t |-> "host"]>>)
                  \o <<[t |-> "blank"]>>
\* The requests that a stale line, or one cut short, may hold.
Stale == {r \in Requests : r.kind # "post"}
ResponseText(r, cl) == <<[t |-> "hdr", r |-> r, close |-> cl], [t |-> "blank"],
                         [t |-> "body"]>>

\* Content-Type, as read_responeshdrs tells it apart.
Type(r) == CASE r.kind \in {"list", "nolist"} -> "xml"
             [] r.kind \in {"frag", "nohost"} -> "f4f"
             [] OTHER -> "msc"

\* After a step of the tables: only sockets still open are left, and who is
\* disconnected waits for nothing.
Surviving(s) == [fd \in Fd |-> IF fd \in open_fds' THEN s[fd] ELSE NULL]

\* io_sendn to a peer that is gone fails at the latest on the second call.
Sent(fd) == CASE sock[fd].down = "up"  -> {TRUE}
              [] sock[fd].down = "fin" -> {TRUE, FALSE}
              [] OTHER -> {FALSE}

\* The answer reaches the browser, if it is still there.
Tell(fd, ans) ==
    IF sock[fd].down = "up"
    THEN /\ delivered' = [ask |-> asks[fd], ans |-> ans]
         /\ asks' = [asks EXCEPT ![fd] = NULL]
    ELSE UNCHANGED <<delivered, asks>>

\* A request is written to a server socket; the result of io_sendn is ignored.
Write(s, fd, r) == IF fd # -1 /\ s[fd].down = "up"
                   THEN [s EXCEPT ![fd].owed = Append(@, r)] ELSE s

-----------------------------------------------------------------------------
Init ==
    /\ TableInit
    /\ pc = "select" /\ at = 0 /\ cur = 0 /\ conn = 0
    /\ req = NULL /\ res = NULL /\ ready = {} /\ nready = 0
    /\ nolist = NULL /\ thru = {}
    /\ sock = [fd \in Fd |-> NULL]
    /\ asks = [fd \in Fd |-> NULL]
    /\ delivered = NULL
    /\ nacc = 0 /\ nreq = 0 /\ nstop = 0

(* main: one turn of the loop *)

\* What select() returns, less the listening socket: every socket in write_set is
\* writable and counts beside those that are readable.
Reported(r) == Cardinality(r) + Cardinality(ClientFds \cup ServerFds)

\* select() returns with a connection to accept or something to read.
Select ==
    /\ pc = "select" /\ Serving
    /\ ready' = {fd \in read_set \cap Fd : Readable(fd)}
    /\ nready' = Reported(ready')
    /\ \/ /\ nacc < MaxAccepts
          /\ \E fd \in Fd, a \in ClitAddr :
                Accept(fd, a) /\ sock' = [sock EXCEPT ![fd] = Open]
          /\ nacc' = nacc + 1
       \/ ready' # {} /\ UNCHANGED <<tableVars, sock, nacc>>
    /\ pc' = "clients" /\ at' = 0
    /\ delivered' = NULL
    /\ UNCHANGED <<cur, conn, req, res, nolist, thru, asks, nreq, nstop>>

AcceptError ==
    /\ pc = "select" /\ nacc < MaxAccepts
    /\ "accept" \in Faults \/ Fd \subseteq open_fds
    /\ AcceptFails
    /\ nacc' = nacc + 1
    /\ UNCHANGED <<loopVars, nolist, thru, peerVars, nreq, nstop>>

\* The scan of serve_clients and serve_servers has come to slot j.
Found(tbl, max, j) ==
    LET isset(i) == tbl[i] # NULL /\ tbl[i].fd \in ready
    IN  /\ nready > 0 /\ at <= j /\ j <= max /\ isset(j)
        /\ \A i \in at .. j - 1 : ~isset(i)

\* The process goes on to phase, serving slot j.
TurnTo(phase, j) ==
    /\ pc' = phase /\ cur' = j
    /\ UNCHANGED <<tableVars, at, ready, nready, nolist, thru, asks, delivered, nacc, nstop>>

AltBackTo(phase) ==
    /\ pc' = phase /\ at' = cur /\ nready' = nready - 1
    /\ cur' = 0 /\ conn' = 0 /\ req' = NULL /\ res' = NULL
    /\ UNCHANGED <<ready, boundVars>>
\* client2server or server2client returns; the scan goes on behind the slot.
BackTo(phase) ==
    /\ pc' = phase /\ at' = cur + 1 /\ nready' = nready - 1
    /\ cur' = 0 /\ conn' = 0 /\ req' = NULL /\ res' = NULL
    /\ UNCHANGED <<ready, boundVars>>

PhaseEnds ==
    /\ \/ /\ pc = "clients" /\ \A j \in Idx : ~Found(client_l, max_clit_idx, j)
          /\ pc' = "servers" /\ UNCHANGED <<ready, nready>>
       \/ /\ pc = "servers" /\ \A j \in Idx : ~Found(server_l, max_serv_idx, j)
          /\ pc' = "select" /\ ready' = {} /\ nready' = 0
    /\ at' = 0
    /\ UNCHANGED <<tableVars, cur, conn, req, res, nolist, thru, peerVars, boundVars>>

\* The process never returns from the call it is in: "hung" is a loop without
\* an exit, "crashed" an assertion or undefined behaviour that ends it.
Stop(how) ==
    /\ pc' = how
    /\ UNCHANGED <<at, cur, conn, req, res, ready, nready, nolist, thru, peerVars, boundVars>>

-----------------------------------------------------------------------------
(* client2server *)

BeginClient(j) ==
    /\ pc = "clients" /\ Found(client_l, max_clit_idx, j)
    /\ TurnTo("req_line", j)
    /\ UNCHANGED <<conn, req, res, sock, nreq>>

clit_fd == client_l[cur].fd

\* A line "GET r" has been read.
StartRequest(r) ==
    /\ req' = [get |-> r, host |-> FALSE, read |-> FALSE, ok |-> FALSE]
    /\ TurnTo("req_hdrs", cur)
    /\ UNCHANGED <<conn, res>>

\* The buffer still holds an earlier one, a request that nobody makes.
StartStale ==
    /\ "get" \in Residue /\ nreq < MaxReq
    /\ nreq' = nreq + 1
    /\ \E r \in Stale : StartRequest(r)

\* clienterror and return.
Refuse(kind) ==
    /\ Tell(clit_fd, [kind |-> kind])
    /\ BackTo("clients")
    /\ UNCHANGED <<tableVars, nolist, thru>>

IsGet(line) == line.t = "line" /\ line.r.kind # "post"

\* The first line has arrived.  Whatever is not a GET line is answered by 501
\* and the lines behind it stay in the socket; a line of nothing but blanks leaves
\* method and uri as they were.
ReadRequestLine ==
    /\ pc = "req_line" /\ CanTake(clit_fd)
    /\ sock' = Take(clit_fd)
    /\ \/ IsGet(Line(clit_fd)) /\ StartRequest(Line(clit_fd).r) /\ UNCHANGED nreq
       \/ ~IsGet(Line(clit_fd)) /\ Refuse("501")
       \/ Line(clit_fd).t \in {"blank", "rest"} /\ StartStale

\* The client has disconnected: io_recvline_block returns 0 or -1 and leaves
\* the buffer as it was, and client2server looks at the buffer alone.
RequestLineAtEnd ==
    /\ pc = "req_line" /\ AtEnd(clit_fd)
    /\ UNCHANGED sock
    /\ \/ /\ "empty" \in Residue
          /\ BackTo("clients")
          /\ UNCHANGED <<tableVars, nolist, thru, asks, delivered>>
       \/ Residue \cap {"crlf", "line"} # {} /\ Refuse("501")
       \/ StartStale

\* No line in time: nothing is done, or what there is of the line decides, which
\* may be no method, or a GET of any path that the line goes on to extend.
RequestLineTimesOut ==
    /\ pc = "req_line"
    /\ \/ /\ TimesOut(clit_fd)
          /\ BackTo("clients")
          /\ UNCHANGED <<tableVars, nolist, thru, peerVars>>
       \/ /\ IsCut(clit_fd)
          /\ \E m \in Rest(clit_fd) : sock' = Leave(clit_fd, m)
          /\ \/ IsGet(Line(clit_fd)) /\ (\E r \in Stale : StartRequest(r)) /\ UNCHANGED nreq
             \/ Refuse("501")
             \/ Line(clit_fd).t \in {"blank", "rest"} /\ StartStale

\* read_requesthdrs returns: 1 when the headers are accepted, -1 otherwise.
HeadersRead(ok) ==
    /\ req' = [req EXCEPT !.ok = ok]
    /\ TurnTo("lookup", cur)
    /\ UNCHANGED <<conn, res, nreq>>

\* One line of the headers has arrived.
ReadRequestHdr ==
    /\ pc = "req_hdrs" /\ CanTake(clit_fd)
    /\ sock' = Take(clit_fd)
    /\ \/ /\ Line(clit_fd).t # "blank"
          /\ req' = [req EXCEPT !.host = @ \/ Line(clit_fd).t = "host", !.read = TRUE]
          /\ TurnTo("req_hdrs", cur)
          /\ UNCHANGED <<conn, res, nreq>>
       \/ Line(clit_fd).t = "blank" /\ HeadersRead(req.host)

\* No line in time, which read_requesthdrs takes for the end of the headers, or
\* one cut short, for which it gives up.
RequestHdrTimesOut ==
    /\ pc = "req_hdrs"
    /\ \/ TimesOut(clit_fd) /\ HeadersRead(TRUE) /\ UNCHANGED sock
       \/ /\ IsCut(clit_fd)
          /\ \E m \in Rest(clit_fd) : sock' = Leave(clit_fd, m)
          /\ HeadersRead(FALSE)

\* The client has disconnected.  The buffer is unwritten on the first line and
\* holds the last header afterwards, which the loop then reads for ever.
RequestHdrAtEnd ==
    /\ pc = "req_hdrs" /\ AtEnd(clit_fd)
    /\ \/ ~req.read /\ "empty" \in Residue /\ HeadersRead(TRUE) /\ UNCHANGED sock
       \/ ~req.read /\ "crlf" \in Residue /\ HeadersRead(FALSE) /\ UNCHANGED sock
       \/ /\ req.read \/ Residue \cap {"get", "line"} # {}
          /\ Stop("hung") /\ UNCHANGED tableVars

BadUri ==
    /\ pc = "lookup" /\ req.get.kind = "bad"
    /\ Refuse("404")
    /\ UNCHANGED sock

\* The conn of the client with the address resolve() returned, if it has one.
UseConn(a) ==
    /\ pc = "lookup" /\ req.get.kind # "bad"
    /\ \E k \in Idx : client_get_conn(clit_fd, a, k) /\ conn' = k
    /\ TurnTo("forward", cur)
    /\ UNCHANGED <<req, res, sock, nreq>>

\* open_server_socket, add_server and add_conn; k is the slot of the new conn.
NewConn(c, r, a, k) ==
    /\ r = -1 => "refuse" \in Faults \/ Fd \subseteq open_fds
    /\ OpenConn(c, r, a)
    /\ conn_l[k] = NULL /\ conn_l'[k] # NULL

Connected(s, r) == IF r = -1 THEN s ELSE [s EXCEPT ![r] = Open]

Connect(c, s, a) ==
    \E r \in Fd \cup {-1}, k \in Idx :
       /\ NewConn(c, r, a, k)
       /\ conn' = k
       /\ sock' = Connected(s, r)

\* Otherwise a new server socket and conn are made for it.
MakeConn(a) ==
    /\ pc = "lookup" /\ req.get.kind # "bad"
    /\ \A k \in Idx : ~client_get_conn(clit_fd, a, k)
    /\ Connect(cur, sock, a)
    /\ pc' = "forward"
    /\ UNCHANGED <<at, cur, req, res, ready, nready, nolist, thru, asks, delivered, boundVars>>

\* No slot is left for the server.
ServersFull ==
    /\ pc = "lookup" /\ req.get.kind # "bad"
    /\ \E r \in Fd \cup {-1}, a \in SrvAddr :
          Overflow(cur, r) /\ \A k \in Idx : ~client_get_conn(clit_fd, a, k)
    /\ Stop("crashed")

\* close_conn and return to the scan; s are the sockets after what was read.
Drop(phase, s) ==
    /\ CloseConn(conn)
    /\ sock' = Surviving(s)
    /\ asks' = Surviving(asks)
    /\ BackTo(phase)
    /\ UNCHANGED <<nolist, thru, delivered>>

RejectRequest ==
    /\ pc = "forward" /\ ~req.ok
    /\ Drop("clients", sock)

\* The addresses under which the throughput of the conn k is kept.
Pair(k) == <<client_l[conn_l[k].clit_idx].addr, server_l[conn_l[k].serv_idx].addr>>

AddThru(k) == thru \cup {Pair(k)}

AltWithoutList(r) == r
\* The request for the manifest without bitrates (path_nolist).
WithoutList(r) == [r EXCEPT !.kind = "nolist"]

\* The request goes to the server of the conn.  nolist_buf is written for a
\* manifest, and when the unwritten flag says so.
Forward ==
    /\ pc = "forward" /\ req.ok
    /\ thru' = AddThru(conn)
    /\ sock' = Write(sock, server_l[conn_l[conn].serv_idx].fd, req.get)
    /\ \/ req.get.kind = "list" /\ nolist' = WithoutList(req.get)
       \/ req.get.kind # "list" /\ UNCHANGED nolist
       \/ /\ req.get.kind # "list" /\ "flag" \in Residue
          /\ nolist' = [req.get EXCEPT !.kind = "junk"]
    /\ BackTo("clients")
    /\ UNCHANGED <<tableVars, asks, delivered>>

-----------------------------------------------------------------------------
(* server2client *)

BeginServer(j) ==
    /\ pc = "servers" /\ Found(server_l, max_serv_idx, j)
    /\ \E k \in Idx : server_get_conn(server_l[j].fd, k) /\ conn' = k
    /\ TurnTo("res_hdrs", j)
    /\ UNCHANGED <<req, res, sock, nreq>>

serv_fd   == server_l[cur].fd
client_fd == client_l[conn_l[conn].clit_idx].fd

\* The function goes on reading, as far as the body in phase "res_body".
ReadOn(phase) == TurnTo(phase, cur) /\ UNCHANGED <<conn, req, nreq>>

\* A line without a colon, such as the end of the last body, is read over.
ReadResponseHdr ==
    /\ pc = "res_hdrs" /\ CanTake(serv_fd)
    /\ sock' = Take(serv_fd)
    /\ \/ Line(serv_fd).t = "hdr" /\ res' = Line(serv_fd)
       \/ Line(serv_fd).t = "rest" /\ UNCHANGED res
    /\ ReadOn("res_hdrs")

\* No type or no length: the answer is thrown away with its conn.
ResType == IF res = NULL THEN "msc" ELSE Type(res.r)

\* The empty line behind the headers.  Those of a fragment are passed on before
\* its body is read.
ResponseHdrsEnd ==
    /\ pc = "res_hdrs" /\ CanTake(serv_fd) /\ Line(serv_fd).t = "blank"
    /\ \/ ResType = "msc" /\ Drop("servers", Take(serv_fd))
       \/ /\ ResType = "f4f" /\ FALSE \in Sent(client_fd)
          /\ Drop("servers", Take(serv_fd))
       \/ /\ ResType # "msc"
          /\ ResType = "f4f" => TRUE \in Sent(client_fd)
          /\ sock' = Take(serv_fd) /\ UNCHANGED res
          /\ ReadOn("res_body")

\* The headers end early, s are the sockets.  Without a type or length, or when
\* io_sendn refuses the unwritten hdr_buf of a fragment, the conn is closed;
\* otherwise what comes next is read as the body of h.
GiveUp(h, s) ==
    \/ /\ h # NULL => Type(h.r) # "xml"
       /\ Drop("servers", s)
    \/ /\ h # NULL /\ Type(h.r) # "msc"
       /\ sock' = s /\ res' = [h EXCEPT !.t = "cut"]
       /\ ReadOn("res_body")

\* No line in time, or one cut short: read_responeshdrs returns early and leaves
\* hdr_buf and hdr_len of the response unwritten.
ResponseHdrTimesOut ==
    /\ pc = "res_hdrs"
    /\ \/ TimesOut(serv_fd) /\ GiveUp(res, sock)
       \/ /\ IsCut(serv_fd)
          /\ \E m \in Rest(serv_fd) :
                \/ GiveUp(res, Leave(serv_fd, m))
                \/ Line(serv_fd).t = "hdr" /\ GiveUp(Line(serv_fd), Leave(serv_fd, m))

\* The server is gone.  After a header the buffer still holds it: it is read
\* for ever, or the assertion on a second Content-Type fails.
ResponseHdrAtEnd ==
    /\ pc = "res_hdrs" /\ AtEnd(serv_fd)
    /\ \/ res = NULL /\ Residue \cap {"empty", "crlf"} # {} /\ Drop("servers", sock)
       \/ /\ res # NULL \/ Residue \cap {"get", "line"} # {}
          /\ Stop("hung") /\ UNCHANGED tableVars
       \/ ResType # "msc" /\ Stop("crashed") /\ UNCHANGED tableVars

\* Behind headers that ended early the rest of them is read as the body, and as
\* many bytes of the body stay in the socket.
BodyThere == CanTake(serv_fd) /\ (res.t = "cut" => Line(serv_fd).t = "body")
BodyTaken == IF res.t = "cut" THEN Leave(serv_fd, [t |-> "rest"]) ELSE Take(serv_fd)

SkipHeaders ==
    /\ pc = "res_body" /\ CanTake(serv_fd) /\ res.t = "cut" /\ Line(serv_fd).t # "body"
    /\ sock' = Take(serv_fd)
    /\ UNCHANGED res
    /\ ReadOn("res_body")

AltAskSame ==
    /\ ~res.close
    /\ sock' = BodyTaken
    /\ BackTo("servers")
    /\ UNCHANGED <<tableVars, nolist, thru, asks, delivered>>
\* The manifest without bitrates is asked for on the same socket, or on a new
\* one when the server has announced that it closes this one.
AskSame ==
    /\ ~res.close
    /\ sock' = Write(BodyTaken, serv_fd, nolist)
    /\ BackTo("servers")
    /\ UNCHANGED <<tableVars, nolist, thru, asks, delivered>>

Closing == res.close \/ "flag" \in Residue

AskElsewhere(a) ==
    /\ pc = "res_body" /\ BodyThere /\ res.r.kind = "list" /\ Closing
    /\ \E r \in Fd \cup {-1}, k \in Idx :
          /\ NewConn(conn_l[conn].clit_idx, r, a, k)
          /\ sock' = Write(Connected(BodyTaken, r), r, nolist)
    /\ BackTo("servers")
    /\ UNCHANGED <<nolist, thru, asks, delivered>>

AskOverflows ==
    /\ pc = "res_body" /\ BodyThere /\ res.r.kind = "list" /\ Closing
    /\ \E r \in Fd \cup {-1} : Overflow(conn_l[conn].clit_idx, r)
    /\ Stop("crashed")

\* The answer a goes to the client; s are the sockets after what was read.
Answer(a, s) ==
    \/ /\ TRUE \in Sent(client_fd)
       /\ Tell(client_fd, a)
       /\ sock' = s
       /\ BackTo("servers")
       /\ UNCHANGED <<tableVars, nolist, thru>>
    \/ FALSE \in Sent(client_fd) /\ Drop("servers", s)

Junk == [res.r EXCEPT !.kind = "junk"]

\* What was read behind headers that ended early is no manifest or fragment any
\* more, its headers are sent from unwritten memory, which io_sendn may refuse,
\* and free() is given a pointer nobody has written.
ReadBody ==
    /\ pc = "res_body" /\ BodyThere
    /\ \/ res.r.kind = "list" /\ AskSame
       \/ res.t = "hdr" /\ res.r.kind # "list" /\ Answer(res.r, BodyTaken)
       \/ res.t = "cut" /\ Answer(Junk, BodyTaken)
       \/ res.t = "cut" /\ ResType = "xml" /\ Drop("servers", BodyTaken)
       \/ res.t = "cut" /\ Stop("crashed") /\ UNCHANGED tableVars

\* The body does not arrive.  io_recvn_block spins on the end of the stream; its
\* error is noticed for a manifest, while a fragment is sent from a buffer that
\* was never written.
BodyAtEnd ==
    /\ pc = "res_body" /\ AtEnd(serv_fd)
    /\ \/ sock[serv_fd].down = "fin" /\ Stop("hung") /\ UNCHANGED tableVars
       \/ sock[serv_fd].down = "rst" /\ ResType = "xml" /\ Drop("servers", sock)
       \/ sock[serv_fd].down = "rst" /\ ResType = "f4f" /\ Answer(Junk, sock)
       \/ /\ sock[serv_fd].down = "rst" /\ ResType = "f4f" /\ res.t = "cut"
          /\ Stop("crashed") /\ UNCHANGED tableVars

-----------------------------------------------------------------------------
(* Browsers, web servers and the network *)

envFrame == <<tableVars, loopVars, nolist, thru>>

Ask(fd, r) ==
    /\ fd \in ClientFds /\ sock[fd].down = "up" /\ asks[fd] = NULL
    /\ nreq < MaxReq
    /\ nreq' = nreq + 1
    /\ asks' = [asks EXCEPT ![fd] = r]
    /\ sock' = [sock EXCEPT ![fd].out = @ \o RequestText(r)]
    /\ UNCHANGED <<envFrame, delivered, nacc, nstop>>

Deliver(fd) ==
    /\ sock[fd] # NULL /\ sock[fd].out # <<>>
    /\ sock' = [sock EXCEPT ![fd].out = Tail(@), ![fd].inb = Append(@, Head(sock[fd].out))]
    /\ UNCHANGED <<envFrame, asks, delivered, boundVars>>

ServerAnswers(fd) ==
    /\ fd \in ServerFds /\ sock[fd].owed # <<>>
    /\ \/ sock' = [sock EXCEPT ![fd].owed = Tail(@),
                               ![fd].out = @ \o ResponseText(Head(sock[fd].owed), FALSE)]
       \/ /\ "close" \in Faults
          /\ sock' = [sock EXCEPT ![fd].owed = <<>>, ![fd].down = "fin",
                                  ![fd].out = @ \o ResponseText(Head(sock[fd].owed), TRUE)]
    /\ UNCHANGED <<envFrame, asks, delivered, boundVars>>

Prefixes(s) == {SubSeq(s, 1, n) : n \in 0 .. Len(s)}

\* The peer at fd stops: how is one of Faults.
PeerStops(fd, how) ==
    /\ how \in Faults /\ sock[fd] # NULL /\ sock[fd].down = "up"
    /\ nstop < MaxStops /\ nstop' = nstop + 1
    /\ CASE how = "idle_close" ->
              /\ fd \in ServerFds /\ sock[fd].owed = <<>> /\ sock[fd].out = <<>>
              /\ sock' = [sock EXCEPT ![fd].down = "fin"]
         [] how \in {"srv_fin", "clit_fin"} ->
              /\ fd \in (IF how = "srv_fin" THEN ServerFds ELSE ClientFds)
              /\ \E p \in Prefixes(sock[fd].out) :
                    sock' = [sock EXCEPT ![fd].down = "fin", ![fd].out = p, ![fd].owed = <<>>]
         [] how \in {"srv_rst", "clit_rst"} ->
              /\ fd \in (IF how = "srv_rst" THEN ServerFds ELSE ClientFds)
              /\ sock' = [sock EXCEPT ![fd].down = "rst", ![fd].out = <<>>, ![fd].owed = <<>>]
         [] OTHER -> FALSE
    /\ asks' = [asks EXCEPT ![fd] = NULL]
    /\ UNCHANGED <<envFrame, delivered, nacc, nreq>>

-----------------------------------------------------------------------------
Serve ==
    \/ \E j \in Idx : BeginClient(j) \/ BeginServer(j)
    \/ ReadRequestLine \/ RequestLineTimesOut \/ RequestLineAtEnd
    \/ ReadRequestHdr \/ RequestHdrTimesOut \/ RequestHdrAtEnd
    \/ BadUri \/ ServersFull
    \/ \E a \in SrvAddr : UseConn(a) \/ MakeConn(a) \/ AskElsewhere(a)
    \/ RejectRequest \/ Forward
    \/ ReadResponseHdr \/ ResponseHdrsEnd \/ ResponseHdrTimesOut \/ ResponseHdrAtEnd
    \/ SkipHeaders \/ ReadBody \/ BodyAtEnd \/ AskOverflows
    \/ PhaseEnds

Next ==
    \/ Select \/ AcceptError \/ Serve
    \/ \E fd \in Fd : Deliver(fd) \/ ServerAnswers(fd)
    \/ \E fd \in Fd, r \in Requests : Ask(fd, r)
    \/ \E fd \in Fd, how \in Fault : PeerStops(fd, how)

Spec == Init /\ [][Next]_proxyVars

\* The process runs and the network delivers; a web server answers what it owes.
\* No browser has to connect or ask and no fault to happen.  That a browser sends
\* its requests whole and reads its answers is built in: see Ask, RequestText and
\* Reported.
Fairness ==
    /\ WF_proxyVars(Select /\ ready' # {}) /\ WF_proxyVars(Serve)
    /\ \A fd \in Fd : WF_proxyVars(Deliver(fd)) /\ WF_proxyVars(ServerAnswers(fd))

FairSpec == Spec /\ Fairness

-----------------------------------------------------------------------------
(* Properties *)

Running == pc \notin {"hung", "crashed"}

\* The client, server and conn in hand stay in the tables over every read() and
\* resolve() of client2server and server2client: the conn that is used is one of
\* the client, or of the server, that is being served.
HandsOn ==
    /\ pc \in {"select", "clients", "servers", "req_line", "req_hdrs", "lookup", "forward",
               "res_hdrs", "res_body", "hung", "crashed"}
    /\ cur \in Idx /\ conn \in Idx /\ ready \subseteq Fd
    /\ pc \in {"req_line", "req_hdrs", "lookup", "forward"} => client_l[cur] # NULL
    /\ pc = "forward" => conn_l[conn] # NULL /\ conn_l[conn].clit_idx = cur
    /\ pc \in {"res_hdrs", "res_body"} =>
          conn_l[conn] # NULL /\ conn_l[conn].serv_idx = cur /\ server_l[cur] # NULL

\* nready never runs out before the scans have come to every socket that
\* select() reported, although accept() and the serving of a socket that took
\* over a reported descriptor count it down, too.
NoneSkipped ==
    /\ pc = "clients" /\ nready <= 0 =>
          \A i \in Live(client_l) : i >= at => client_l[i].fd \notin ready
    /\ pc \in {"clients", "servers"} /\ nready <= 0 =>
          \A i \in Live(server_l) : i >= at => server_l[i].fd \notin ready

\* The answers that server2client accounts for (fragments, manifests) come over a
\* pair of addresses with an entry in thru_l: the lookup never gives -1, which
\* loggin and update_thruput would follow.  ask_for_nolist makes conns to addresses
\* that were never entered: what is asked for on them must be no such answer until
\* the browser has asked there itself.
ThruFound ==
    pc = "res_body" /\ (Type(res.r) = "f4f" \/ res.r.kind = "list") => Pair(conn) \in thru

\* What an answer must be to a request.
Fits(ask, ans) ==
    /\ ask # NULL
    /\ CASE ask.kind = "list" -> ans = [ask EXCEPT !.kind = "nolist"]
         [] ask.kind = "bad"  -> ans = [kind |-> "404"]
         [] ask.kind = "post" -> ans = [kind |-> "501"]
         [] OTHER -> ans = ask

\* A browser gets an answer only to a request it has made, and the answer to that
\* one: the video it asked for, and for a manifest the one without bitrates.
AnswersOwn == delivered # NULL => Fits(delivered.ask, delivered.ans)

\* A request sent and not answered is somewhere: with the client's socket, in the
\* hands of the process, or with a server of one of the client's own conns.
RequestTracked ==
    Running => \A c \in Live(client_l) :
       LET fd == client_l[c].fd
       IN  asks[fd] # NULL =>
              \/ sock[fd].inb # <<>> \/ sock[fd].out # <<>>
              \/ pc \in {"req_line", "req_hdrs", "lookup", "forward"} /\ cur = c
              \/ pc \in {"res_hdrs", "res_body"} /\ conn_l[conn].clit_idx = c
              \/ \E k \in ConnsOfClient(c) :
                    LET s == sock[server_l[conn_l[k].serv_idx].fd]
                    IN  s.inb # <<>> \/ s.out # <<>> \/ s.owed # <<>> \/ s.down # "up"

\* A socket is first read because select() has reported it, and so has a byte or
\* the end of the stream to give.
ReadReady ==
    /\ pc = "req_line" => Readable(clit_fd)
    /\ pc = "res_hdrs" /\ res = NULL => Readable(serv_fd)

\* Every request of a browser that stays is answered, or its connection closed.
Served == \A fd \in Fd : asks[fd] # NULL ~> asks[fd] = NULL

\* No peer keeps the loop of main from coming back to select().
LoopReturns == pc # "select" ~> pc = "select"
=============================================================================
