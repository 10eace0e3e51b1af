----------------------------- MODULE NetTrace ------------------------------
(* blktrace over the network: clients (blktrace -h) that trace the devices *)
(* of their machine, and the server (blktrace -l) that writes the files.   *)
(* A client has one connection per CPU, used by its main thread, or one    *)
(* per CPU and device, used by the tracer of the CPU (sendfile).  The      *)
(* server has one thread that polls.  TCP delivers in order.               *)
EXTENDS Naturals, Sequences, SequencesExt, FiniteSetsExt

CONSTANTS Clients,     \* blktrace processes in client mode
          Hosts,       \* machines; the server knows a client by its address
          HostOf,      \* Clients -> Hosts
          Together,    \* the sets of clients that may run at the same time
          NCpus,       \* Clients -> CPUs of the machine
          NDevs,       \* Clients -> devices it traces, its own
          MaxData,     \* Clients -> bound: pieces of data per CPU and device
          Fragile,     \* bound: clients of which one thing may go wrong:
                       \* killed, a connection lost, a send cut short
          Backlog      \* connections the kernel holds for listen(fd, 1)

ASSUME NetAssumption ==
    /\ HostOf \in [Clients -> Hosts] /\ Together \subseteq SUBSET Clients
    /\ NCpus \in [Clients -> Nat \ {0}] /\ NDevs \in [Clients -> Nat \ {0}]
    /\ Backlog \in Nat \ {0}
    /\ MaxData \in [Clients -> Nat] /\ Fragile \subseteq Clients

VARIABLES
    sendfile,    \* per client: net_client_use_sendfile()
    stage,       \* per client: where it is in its life
    done,        \* per client: the flag the signal handler sets
    pc, dev,     \* per client and CPU: step, and the device it is about
    sent,        \* per client, CPU and device: pieces of data read so far
    fd,          \* per connection: the client's end
    net,         \* per connection: up, lost, silent (lost, and the server
                 \* does not notice) or short (up, but of a message only a
                 \* part was sent)
    toServer,    \* per connection: messages on their way
    acks,        \* per connection: acknowledgements on their way
    dropped,     \* per connection: closed by the server
    backlog,     \* connections not yet accepted
    srv,         \* the server: poll, scan or exited
    conn_list,   \* ns->conn_list
    pfds,        \* what poll said, and of whom: ns->pfds[1..]
    pos, events, \* where the scan is, and how many ready ones it has to find
    cl_opens,    \* per host
    devpaths,    \* per host: the devices known, each with its directory
    connect_time,\* per connection; each gets a second of its own
    clock,
    files        \* per client, CPU and device: what the server wrote

client == <<sendfile, stage, done, pc, dev, sent, fd>>
server == <<srv, conn_list, pfds, pos, events, cl_opens, devpaths,
            connect_time, clock, files>>
vars == <<client, net, toServer, acks, dropped, backlog, server>>

LanesOf(c) == {c} \X (1..NCpus[c])
DevsOf(c)  == 1..NDevs[c]
Lanes   == UNION {LanesOf(c) : c \in Clients}
Devs    == UNION {DevsOf(c) : c \in Clients}
Streams == UNION {{c} \X (1..NCpus[c]) \X DevsOf(c) : c \in Clients}

\* The connections of a client, and the one that carries a device of a CPU.
Conns == Streams
ConnOf(l, d) == <<l[1], l[2], IF sendfile[l[1]] THEN d ELSE 1>>
Conn(l)      == ConnOf(l, dev[l])
ConnsOf(c)   == {ConnOf(l, d) : l \in LanesOf(c), d \in DevsOf(c)}
HostOfConn(k) == HostOf[k[1]]

\* Nothing has happened to the client or its connections.
Undamaged(c) ==
    stage[c] # "killed" /\ \A k \in Conns : k[1] = c => net[k] = "up"

Opens(l)  == [kind |-> "open", dev |-> dev[l], n |-> 0, torn |-> "no"]
Closes(l) == [kind |-> "close", dev |-> dev[l], n |-> 0, torn |-> "no"]
Piece(d, n) == [kind |-> "data", dev |-> d, n |-> n, torn |-> "no"]
\* What is torn off: a payload, a header, or a payload of which more is left
\* than a header.
Messages == [kind : {"open", "close", "data"}, dev : Devs, n : Nat,
             torn : {"no", "header", "payload", "rest"}]

\* The client can no longer reach the server on k.
Unreachable(k) == dropped[k] \/ net[k] \in {"lost", "silent"}
\* The server sees that k ends behind what has come in.
Ends(k) == net[k] = "lost" \/ (fd[k] # "open" /\ net[k] # "silent")
Readable(k) == toServer[k] # <<>> \/ Ends(k)

Pcs == {"connect", "open", "ack", "ready", "trace", "close", "test", "recv",
        "gone"}

TypeOK ==
    /\ sendfile \in [Clients -> BOOLEAN] /\ done \in [Clients -> BOOLEAN]
    /\ stage \in [Clients -> {"starting", "tracing", "stopping", "killed",
                          "absent"}]
    /\ pc \in [Lanes -> Pcs] /\ dev \in [Lanes -> Devs]
    /\ sent \in [Streams -> Nat]
    /\ fd \in [Conns -> {"none", "open", "closed"}]
    /\ net \in [Conns -> {"up", "lost", "silent", "short"}]
    /\ dropped \in [Conns -> BOOLEAN]
    /\ toServer \in [Conns -> Seq(Messages)] /\ acks \in [Conns -> Nat]
    /\ backlog \in Seq(Conns) /\ Len(backlog) <= Backlog
    /\ srv \in {"poll", "scan", "exited"}
    /\ conn_list \in Seq(Conns)
    /\ pfds \in Seq([nc : Conns, in : BOOLEAN])
    /\ pos \in Nat /\ events \in Nat /\ cl_opens \in [Hosts -> Nat]
    /\ devpaths \in [Hosts -> Seq([cl_id : Clients, dev : Devs,
                                   time : Nat])]
    /\ connect_time \in [Conns -> Nat] /\ clock \in Nat
    /\ files \in [Streams -> Seq([n : Nat, whole : BOOLEAN])]

Init ==
    /\ \E runs \in Together :
          /\ stage = [c \in Clients |->
                         IF c \in runs THEN "starting" ELSE "absent"]
          /\ pc = [l \in Lanes |-> IF l[1] \in runs THEN "connect" ELSE "gone"]
          /\ sendfile \in [Clients -> BOOLEAN]
          /\ \A c \in Clients \ runs : ~sendfile[c]
    /\ done = [c \in Clients |-> FALSE]
    /\ dev = [l \in Lanes |-> 1]
    /\ sent = [s \in Streams |-> 0]
    /\ fd = [k \in Conns |-> "none"]
    /\ net = [k \in Conns |-> "up"] /\ dropped = [k \in Conns |-> FALSE]
    /\ toServer = [k \in Conns |-> <<>>] /\ acks = [k \in Conns |-> 0]
    /\ backlog = <<>>
    /\ srv = "poll" /\ conn_list = <<>> /\ pfds = <<>> /\ pos = 1
    /\ events = 0
    /\ cl_opens = [h \in Hosts |-> 0] /\ devpaths = [h \in Hosts |-> <<>>]
    /\ connect_time = [k \in Conns |-> 0] /\ clock = 0
    /\ files = [s \in Streams |-> <<>>]
-----------------------------------------------------------------------------
(* A client: l is one of its CPUs.                                         *)

\* net_send_data: what is sent on a connection that is lost goes nowhere.
Send(k, msg) ==
    IF Unreachable(k) THEN UNCHANGED toServer
    ELSE toServer' = [toServer EXCEPT ![k] = Append(@, msg)]

\* net_recv_data of an acknowledgement; it returns nothing at the end of the
\* connection (of a silent one when TCP gives up on what it has sent), and
\* nobody looks at what it returns.
Receive(k) ==
    IF acks[k] > 0 THEN acks' = [acks EXCEPT ![k] = @ - 1]
    ELSE Unreachable(k) /\ UNCHANGED acks

Goto(l, p) == pc' = [pc EXCEPT ![l] = p]
ToDev(l, p, d) == Goto(l, p) /\ dev' = [dev EXCEPT ![l] = d]

\* net_setup_client: the main thread connects for one CPU after the other, or
\* each tracer for one device after the other.
Connect(l) ==
    LET c == l[1]  k == Conn(l) IN
    /\ pc[l] = "connect" /\ srv # "exited" /\ Len(backlog) < Backlog
    /\ sendfile[c] \/ \A q \in LanesOf(c) : q[2] < l[2] => pc[q] # "connect"
    /\ fd' = [fd EXCEPT ![k] = "open"]
    /\ backlog' = Append(backlog, k)
    /\ Goto(l, "open")
    /\ UNCHANGED <<sendfile, stage, done, dev, sent, net, toServer, acks,
                   dropped, server>>

\* net_send_open by the tracer; with send() all connections were made before
\* the tracers were started.
Open(l) ==
    LET c == l[1] IN
    /\ pc[l] = "open"
    /\ sendfile[c] \/ \A q \in LanesOf(c) : pc[q] # "connect"
    /\ Send(Conn(l), Opens(l))
    /\ Goto(l, "ack")
    /\ UNCHANGED <<sendfile, stage, done, dev, sent, fd, net, acks,
                   dropped, backlog, server>>

OpenAcked(l) ==
    LET c == l[1] IN
    /\ pc[l] = "ack"
    /\ Receive(Conn(l))
    /\ IF dev[l] < NDevs[c]
       THEN ToDev(l, IF sendfile[c] THEN "connect" ELSE "open", dev[l] + 1)
       ELSE Goto(l, "ready") /\ UNCHANGED dev
    /\ UNCHANGED <<sendfile, stage, done, sent, fd, net, toServer, dropped,
                   backlog, server>>

\* Mutant: one tracer that is ready is enough.
StartWithOne(c) ==
    /\ stage[c] = "starting" /\ \E l \in LanesOf(c) : pc[l] = "ready"
    /\ stage' = [stage EXCEPT ![c] = "tracing"]
    /\ pc' = [l \in Lanes |-> IF l[1] = c THEN "trace" ELSE pc[l]]
    /\ UNCHANGED <<sendfile, done, dev, sent, fd, net, toServer, acks,
                   dropped, backlog, server>>

\* unblock_tracers and start_buts, when every tracer is ready.
StartTracing(c) ==
    /\ stage[c] = "starting" /\ \A l \in LanesOf(c) : pc[l] = "ready"
    /\ stage' = [stage EXCEPT ![c] = "tracing"]
    /\ pc' = [l \in Lanes |-> IF l[1] = c THEN "trace" ELSE pc[l]]
    /\ UNCHANGED <<sendfile, done, dev, sent, fd, net, toServer, acks,
                   dropped, backlog, server>>

\* The signal handler of the client.
Stop(c) ==
    /\ stage[c] = "tracing"
    /\ stage' = [stage EXCEPT ![c] = "stopping"]
    /\ done' = [done EXCEPT ![c] = TRUE]
    /\ UNCHANGED <<sendfile, pc, dev, sent, fd, net, toServer, acks,
                   dropped, backlog, server>>

\* A piece of data of device d: flush_subbuf_net by the main thread, which
\* closes a connection it cannot send on and frees the data, or
\* net_sendfile_data by the tracer.  The first send on a connection that the
\* other side has closed may go through.  A device that failed before is tried
\* again only by the last pass of the tracer, when it has been told to stop.
SendData(l, d) ==
    LET c == l[1]  k == ConnOf(l, d)  s == <<c, l[2], d>>  n == sent[s] + 1 IN
    /\ pc[l] = "trace" /\ n <= MaxData[c]
    /\ sendfile[c] \/ \A q \in LanesOf(c) : pc[q] = "trace"
    /\ net[k] = "short" => stage[c] = "stopping"
    /\ sent' = [sent EXCEPT ![s] = n]
    /\ IF fd[k] = "open" THEN Send(k, Piece(d, n)) ELSE UNCHANGED toServer
    /\ IF ~sendfile[c] /\ fd[k] = "open" /\ Unreachable(k)
       THEN \E end \in {"open", "closed"} : fd' = [fd EXCEPT ![k] = end]
       ELSE UNCHANGED fd
    /\ UNCHANGED <<sendfile, stage, done, pc, dev, net, acks, dropped,
                   backlog, server>>

\* net_sendfile fails or falls short behind the header: all the tracer does is
\* clear_events.  The connection stays, and lacks a part of the payload.
SendPart(l, d) ==
    LET c == l[1]  k == ConnOf(l, d)  s == <<c, l[2], d>>  n == sent[s] + 1 IN
    /\ pc[l] = "trace" /\ n <= MaxData[c] /\ sendfile[c] /\ c \in Fragile
    /\ ~Unreachable(k)
    /\ Undamaged(c) \/ (net[k] = "short" /\ stage[c] = "stopping")
    /\ sent' = [sent EXCEPT ![s] = n]
    /\ net' = [net EXCEPT ![k] = "short"]
    /\ Send(k, [Piece(d, n) EXCEPT !.torn = "payload"])
    /\ UNCHANGED <<sendfile, stage, done, pc, dev, fd, acks, dropped, backlog,
                   server>>

\* The end of the data: close_ios by the tracer, last device first, or
\* close_client_connections by the main thread, one CPU after the other and
\* only where the connection is still open.
StartClose(l) ==
    LET c == l[1] IN
    /\ pc[l] = "trace" /\ stage[c] = "stopping"
    /\ IF sendfile[c] THEN ToDev(l, "close", NDevs[c])
       ELSE /\ \A q \in LanesOf(c) : q[2] < l[2] => pc[q] = "gone"
            /\ IF fd[ConnOf(l, 1)] = "open" THEN ToDev(l, "close", 1)
               ELSE Goto(l, "gone") /\ UNCHANGED dev
    /\ UNCHANGED <<sendfile, stage, done, sent, fd, net, toServer, acks,
                   dropped, backlog, server>>

\* net_send_close clears done, which stops reads from happening ...
SendClose(l) ==
    /\ pc[l] = "close"
    /\ done' = [done EXCEPT ![l[1]] = FALSE]
    /\ Send(Conn(l), Closes(l))
    /\ Goto(l, "test")
    /\ UNCHANGED <<sendfile, stage, dev, sent, fd, net, acks, dropped,
                   backlog, server>>

\* ... unless another tracer of the client has set it meanwhile.
TestDone(l) ==
    /\ pc[l] = "test" /\ ~done[l[1]]
    /\ Goto(l, "recv")
    /\ UNCHANGED <<sendfile, stage, done, dev, sent, fd, net, toServer,
                   acks, dropped, backlog, server>>

\* The close of a device is over: net_send_close sets done, the next device
\* follows, and a connection is closed after its last.
CloseAcked(l) ==
    LET c == l[1]  k == Conn(l)  last == IF sendfile[c] THEN 1 ELSE NDevs[c] IN
    /\ \/ pc[l] = "recv" /\ Receive(k)
       \/ pc[l] = "test" /\ done[c] /\ UNCHANGED acks
    /\ done' = [done EXCEPT ![c] = TRUE]
    /\ IF sendfile[c] \/ dev[l] = last
       THEN fd' = [fd EXCEPT ![k] = "closed"] ELSE UNCHANGED fd
    /\ IF dev[l] = last THEN Goto(l, "gone") /\ UNCHANGED dev
       ELSE ToDev(l, "close", IF sendfile[c] THEN dev[l] - 1 ELSE dev[l] + 1)
    /\ UNCHANGED <<sendfile, stage, sent, net, toServer, dropped, backlog,
                   server>>

Lane(l) ==
    \/ Connect(l) \/ Open(l) \/ OpenAcked(l)
    \/ StartClose(l) \/ SendClose(l) \/ TestDone(l) \/ CloseAcked(l)
-----------------------------------------------------------------------------
(* What goes wrong.                                                        *)

\* A client is killed; what it has sent still arrives.
Kill(c) ==
    /\ c \in Fragile /\ Undamaged(c)
    /\ \E l \in LanesOf(c) : pc[l] # "gone"
    /\ stage' = [stage EXCEPT ![c] = "killed"]
    /\ pc' = [l \in Lanes |-> IF l[1] = c THEN "gone" ELSE pc[l]]
    /\ fd' = [k \in Conns |->
                 IF k[1] = c /\ fd[k] = "open" THEN "closed" ELSE fd[k]]
    /\ UNCHANGED <<sendfile, done, dev, sent, net, toServer, acks, dropped,
                   backlog, server>>

\* Poll has found something of k that the scan has not come to.
Found(k) == \E j \in pos..Len(pfds) : pfds[j] = [nc |-> k, in |-> TRUE]

\* The network loses a connection, or the machine of the client is gone and
\* the server is never told: of the messages on their way the first m arrive,
\* and of the next perhaps a part.
Break(k) ==
    /\ fd[k] = "open" /\ ~dropped[k] /\ k[1] \in Fragile /\ Undamaged(k[1])
    /\ \E how \in {"lost", "silent"} : net' = [net EXCEPT ![k] = how]
    /\ \E m \in 0..Len(toServer[k]) :
          LET whole == SubSeq(toServer[k], 1, m) IN
          \/ toServer' = [toServer EXCEPT ![k] = whole]
          \/ /\ m < Len(toServer[k])
             /\ LET msg == toServer[k][m + 1] IN
                \E part \in {"header", "payload"} :
                   /\ part = "payload" => msg.kind = "data"
                   /\ toServer' = [toServer EXCEPT
                          ![k] = Append(whole, [msg EXCEPT !.torn = part])]
    /\ Found(k) => toServer'[k] # <<>>
    /\ UNCHANGED <<client, acks, dropped, backlog, server>>
-----------------------------------------------------------------------------
(* The server.                                                             *)

\* What poll says of the connections, and of how many that they are ready.
Said == [j \in DOMAIN conn_list |->
            [nc |-> conn_list[j], in |-> Readable(conn_list[j])]]
Ready == Cardinality({j \in DOMAIN Said : Said[j].in})

\* handle_client_data: the scan goes on at the next entry that may be ready,
\* until the count of the ready ones or the end of the list; said is the array
\* (an entry behind those that were polled holds what realloc left there).
ScanFrom(p, left, said, conns) ==
    LET rest == {j \in p..Len(conns) : j > Len(said) \/ said[j].in}
    IN IF left = 0 \/ rest = {}
       THEN srv' = "poll" /\ pos' = 1 /\ events' = 0 /\ pfds' = <<>>
       ELSE srv' = "scan" /\ pos' = Min(rest) /\ events' = left /\ pfds' = said

GoOn(left) == ScanFrom(pos + 1, left, pfds, conn_list)

\* Mutant: the connection accepted stays in the count.
PollCountsAccept ==
    /\ srv = "poll" /\ (backlog # <<>> \/ Ready > 0)
    /\ IF backlog = <<>>
       THEN UNCHANGED <<backlog, conn_list, connect_time, clock>>
       ELSE LET k == Head(backlog) IN
            /\ backlog' = Tail(backlog)
            /\ conn_list' = Append(conn_list, k)
            /\ clock' = clock + 1
            /\ connect_time' = [connect_time EXCEPT ![k] = clock]
    /\ ScanFrom(1, Ready + IF backlog = <<>> THEN 0 ELSE 1, Said, conn_list')
    /\ UNCHANGED <<client, net, toServer, acks, dropped, cl_opens,
                   devpaths, files>>

\* poll, and net_add_connection, which adds to the list and grows the array.
Poll ==
    /\ srv = "poll" /\ (backlog # <<>> \/ Ready > 0)
    /\ IF backlog = <<>>
       THEN UNCHANGED <<backlog, conn_list, connect_time, clock>>
       ELSE LET k == Head(backlog) IN
            /\ backlog' = Tail(backlog)
            /\ conn_list' = Append(conn_list, k)
            /\ clock' = clock + 1
            /\ connect_time' = [connect_time EXCEPT ![k] = clock]
    /\ ScanFrom(1, Ready, Said, conn_list')
    /\ UNCHANGED <<client, net, toServer, acks, dropped, cl_opens,
                   devpaths, files>>

\* The server knows device d of the client of k.
Known(k, d) == \E j \in DOMAIN devpaths[HostOfConn(k)] :
                  /\ devpaths[HostOfConn(k)][j].cl_id = k[1]
                  /\ devpaths[HostOfConn(k)][j].dev = d

\* Mutant: the time of the connection, whoever the client is.
FindDppOwnTime(k, d) ==
    LET h == HostOfConn(k) IN
    IF Known(k, d) THEN UNCHANGED devpaths
    ELSE devpaths' = [devpaths EXCEPT ![h] =
             Append(@, [cl_id |-> k[1], dev |-> d, time |-> connect_time[k]])]

\* nc_find_dpp: the device is known, or it is added in the directory of the
\* last device of the same client (nc_add_dpp).
FindDpp(k, d) ==
    LET h == HostOfConn(k)
        mine == {j \in DOMAIN devpaths[h] : devpaths[h][j].cl_id = k[1]}
        time == IF mine = {} THEN connect_time[k]
                ELSE devpaths[h][Max(mine)].time
    IN IF Known(k, d) THEN UNCHANGED devpaths
       ELSE devpaths' = [devpaths EXCEPT ![h] =
                Append(@, [cl_id |-> k[1], dev |-> d, time |-> time])]

\* The files of the client of k after a message of device d: of a device that
\* was not known, new ones.
FilesOf(k, d) ==
    [s \in Streams |-> IF ~Known(k, d) /\ s[1] = k[1] /\ s[3] = d THEN <<>>
                       ELSE files[s]]

Take(k) == toServer' = [toServer EXCEPT ![k] = Tail(@)]
Ack(k)  == acks' = [acks EXCEPT ![k] = @ + 1]

\* The end of a connection: it stays on the list, and poll will find it again.
EndOfFile(k) ==
    /\ toServer[k] = <<>> /\ Ends(k)
    /\ GoOn(events - 1)
    /\ UNCHANGED <<toServer, acks, dropped, conn_list, cl_opens, devpaths,
                   files>>

\* A part of a header, or what is no header: the server ends.  It waits for
\* the bytes of a header for as long as the connection lasts.
BadHeader(k) ==
    /\ \/ Head(toServer[k]).torn = "rest"
       \/ /\ Head(toServer[k]).torn = "header"
          /\ Ends(k) \/ Len(toServer[k]) > 1
    /\ srv' = "exited" /\ pos' = 1 /\ events' = 0 /\ pfds' = <<>>
    /\ dropped' = [c \in Conns |-> TRUE]
    /\ UNCHANGED <<toServer, acks, conn_list, cl_opens, devpaths, files>>

\* Mutant: the open is not counted.
OpenUncounted(k, d) ==
    /\ Take(k) /\ Ack(k) /\ FindDpp(k, d) /\ files' = FilesOf(k, d)
    /\ GoOn(events - 1)
    /\ UNCHANGED <<dropped, conn_list, cl_opens>>

\* A header of length 0.
OpenDevice(k, d) ==
    /\ Take(k) /\ Ack(k) /\ FindDpp(k, d) /\ files' = FilesOf(k, d)
    /\ cl_opens' = [cl_opens EXCEPT ![HostOfConn(k)] = @ + 1]
    /\ GoOn(events - 1)
    /\ UNCHANGED <<dropped, conn_list>>

\* ch_rem_connection of each of them: the others stay, in their order.
Kept(conns, gone) ==
    LET left == {j \in DOMAIN conns : conns[j] \notin gone}
        nth  == CHOOSE f \in [1..Cardinality(left) -> left] :
                   \A i, j \in 1..Cardinality(left) : i < j => f[i] < f[j]
    IN [i \in 1..Cardinality(left) |-> conns[nth[i]]]

\* net_ch_remove, at the last close of a host: its connections are closed with
\* whatever has come in; the lists the scan walks are no longer those.
RemoveHost(k) ==
    LET h == HostOfConn(k)
        gone == {nc \in Range(conn_list) : HostOfConn(nc) = h}
    IN /\ dropped' = [nc \in Conns |-> dropped[nc] \/ nc \in gone]
       /\ toServer' = [nc \in Conns |->
                          IF nc \in gone THEN <<>> ELSE toServer[nc]]
       /\ conn_list' = Kept(conn_list, gone)
       /\ devpaths' = [devpaths EXCEPT ![h] = <<>>]
       /\ srv' = "poll" /\ pos' = 1 /\ events' = 0 /\ pfds' = <<>>

\* Mutant: the first close removes the host.
CloseRemoves(k, d) ==
    /\ Ack(k) /\ files' = FilesOf(k, d)
    /\ cl_opens' = [cl_opens EXCEPT ![HostOfConn(k)] = 0]
    /\ RemoveHost(k)

\* Mutant: the close is not acknowledged.
CloseUnacked(k, d) ==
    LET h == HostOfConn(k) IN
    /\ files' = FilesOf(k, d)
    /\ cl_opens' = [cl_opens EXCEPT ![h] = @ - 1]
    /\ IF cl_opens[h] = 1 THEN RemoveHost(k)
       ELSE /\ Take(k) /\ FindDpp(k, d) /\ GoOn(events - 1)
            /\ UNCHANGED <<dropped, conn_list>>
    /\ UNCHANGED acks

\* A header of length 1.
CloseDevice(k, d) ==
    LET h == HostOfConn(k) IN
    /\ Ack(k) /\ files' = FilesOf(k, d)
    /\ cl_opens' = [cl_opens EXCEPT ![h] = @ - 1]
    /\ IF cl_opens[h] = 1 THEN RemoveHost(k)
       ELSE /\ Take(k) /\ FindDpp(k, d) /\ GoOn(events - 1)
            /\ UNCHANGED <<dropped, conn_list>>

\* The file of the stream gets what there is of the piece.
Written(k, d, msg) ==
    /\ FindDpp(k, d)
    /\ files' = [FilesOf(k, d) EXCEPT ![<<k[1], k[2], d>>] =
                    Append(@, [n |-> msg.n, whole |-> msg.torn = "no"])]
    /\ GoOn(events - 1)

\* net_client_read_data of a piece that is there, or whose connection ends.
ReadData(k, d, msg) ==
    /\ msg.torn = "no" \/ (Ends(k) /\ Len(toServer[k]) = 1)
    /\ Take(k) /\ Written(k, d, msg)
    /\ UNCHANGED <<acks, dropped, conn_list, cl_opens>>

\* It reads on (MSG_WAITALL) until it has the announced length: the message
\* that follows is taken for what is missing.  That one is shorter and the
\* server still waits, or of its length, or longer: then what is left of it
\* comes where a header should be.
ReadOver(k, d, msg) ==
    LET next == toServer[k][2]
        rest == Tail(Tail(toServer[k]))
        Left(part) == <<[next EXCEPT !.torn = part]>>
    IN /\ msg.torn # "no" /\ Len(toServer[k]) > 1
       /\ \/ /\ toServer' = [toServer EXCEPT ![k] = <<msg>> \o rest]
             /\ UNCHANGED <<srv, pfds, pos, events, devpaths, files>>
          \/ /\ \E left \in {<<>>, Left("header")} \cup
                       {Left(part) : part \in IF next.kind = "data"
                                              THEN {"rest"} ELSE {}} :
                   toServer' = [toServer EXCEPT ![k] = left \o rest]
             /\ Written(k, d, msg)
       /\ UNCHANGED <<acks, dropped, conn_list, cl_opens>>

\* net_client_data of the connection the scan has come to.
NetClientData ==
    /\ srv = "scan"
    /\ LET k == conn_list[pos] IN
       \/ EndOfFile(k)
       \/ /\ toServer[k] # <<>>
          /\ LET msg == Head(toServer[k]) IN
             \/ BadHeader(k)
             \/ /\ msg.torn = "no"
                /\ \/ msg.kind = "open" /\ OpenDevice(k, msg.dev)
                   \/ msg.kind = "close" /\ CloseDevice(k, msg.dev)
             \/ /\ msg.torn \in {"no", "payload"} /\ msg.kind = "data"
                /\ ReadData(k, msg.dev, msg) \/ ReadOver(k, msg.dev, msg)
    /\ UNCHANGED <<client, net, backlog, connect_time, clock>>

Server == Poll \/ NetClientData

Next ==
    \/ Server
    \/ \E l \in Lanes : Lane(l) \/ \E d \in DevsOf(l[1]) :
           SendData(l, d) \/ SendPart(l, d)
    \/ \E c \in Clients : StartTracing(c) \/ Stop(c) \/ Kill(c)
    \/ \E k \in Conns : Break(k)

\* The threads of the clients and the server are scheduled.
Spec ==
    /\ Init /\ [][Next]_vars
    /\ WF_vars(Server)
    /\ \A l \in Lanes : WF_vars(Lane(l))
    /\ \A c \in Clients : WF_vars(StartTracing(c))
-----------------------------------------------------------------------------
(* Properties.                                                             *)

\* Nothing happened to the client, its connections or the server.
Served(c) == Undamaged(c) /\ srv # "exited"

\* The scan of handle_client_data pairs the entries of ns->pfds with those of
\* the list of connections, which grows by the connection just accepted and
\* shrinks when a host is removed: what it looks at is what poll said of the
\* connection it handles.
ScanMatchesPoll ==
    srv = "scan" =>
        /\ pos <= Len(pfds) /\ pos <= Len(conn_list)
        /\ pfds[pos].nc = conn_list[pos]

\* The file of a CPU and device is a beginning of what was read there, up to
\* the first piece that is a part; behind that there is something only where a
\* send fell short (what it is, is not said: the server has taken headers for
\* data).  When a client to which nothing happened has closed the connection
\* and the server has taken all, the file is whole.
PrefixWritten ==
    \A s \in Streams :
        LET k == ConnOf(<<s[1], s[2]>>, s[3])
            file == files[s]
        IN /\ Len(file) <= sent[s]
           /\ \A j \in DOMAIN file :
                 /\ (\A m \in 1..j - 1 : file[m].whole) => file[j].n = j
                 /\ \/ file[j].whole \/ net[k] = "short"
                    \/ j = Len(file) /\ net[k] # "up"
           /\ (Served(s[1]) /\ fd[k] = "closed" /\ toServer[k] = <<>>)
                  => Len(file) = sent[s]

\* open_ios: every device is announced before any is closed, so that the server
\* keeps a client it has not heard the end of.  As long as a client traces, its
\* connections are served and its devices are known.
TracingServed ==
    \A c \in Clients :
        (stage[c] = "tracing" /\ Served(c)) =>
            /\ \A k \in ConnsOf(c) : Contains(conn_list, k) /\ ~dropped[k]
            /\ \A k \in ConnsOf(c), d \in DevsOf(c) : Known(k, d)

\* The devices of one run of a client get one directory, named for the time of
\* its first connection the server looked at (nc_find_dpp).
OneDirectory ==
    \A h \in Hosts : \A j, m \in DOMAIN devpaths[h] :
        devpaths[h][j].cl_id = devpaths[h][m].cl_id =>
            devpaths[h][j].time = devpaths[h][m].time

\* What the server keeps of every client is what the client sent, for as long
\* as the client sends.
ClientsServed == TypeOK /\ PrefixWritten /\ TracingServed /\ OneDirectory

\* The server has one thread.  It waits in the middle of a message of a client
\* that is silent, or whose send fell short, and serves no other meanwhile.
Stuck ==
    /\ srv = "scan"
    /\ LET k == conn_list[pos] IN
       Len(toServer[k]) = 1 /\ Head(toServer[k]).torn # "no" /\ ~Ends(k)

\* A client that was told to stop ends, and, if nothing happened to it, its
\* host is removed from the server (and its statistics shown): whatever
\* happened to the clients of other machines, unless the server is stuck for
\* good in a message of one of them.  A tracer whose own send fell short may
\* wait for good, for the acknowledgement of a close that the server took for
\* data.  Both last, and a client is told once.
Finished(c) ==
    /\ \A l \in LanesOf(c) : \/ pc[l] = "gone"
                             \/ pc[l] = "recv" /\ net[Conn(l)] = "short"
    /\ Served(c) => \A k \in ConnsOf(c) : dropped[k]

ClientsFinish ==
    \/ []<>(\A c \in Clients : stage[c] = "stopping" => Finished(c))
    \/ <>[]Stuck
=============================================================================
