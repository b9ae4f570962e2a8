------------------------------- MODULE Connection -------------------------------
(***************************************************************************)
(* TcpConnection over NetworkSocketPosix: what lies between a transport    *)
(* and the operating system.                                               *)
(*                                                                         *)
(* Three threads share a connection.  TcpConnection::queue() runs its      *)
(* methods and cuts the stream into packets, NetworkSocket::queue() opens, *)
(* writes and closes, and a queue of the pool, one for each socket, sits   *)
(* in recv.  The first two are static: all connections share them.  Both   *)
(* are serial queues (DispatchQueue), so their jobs are taken from the     *)
(* head of a sequence and run whole.                                       *)
(*                                                                         *)
(* Who is still referred to matters.  A job of the socket's queue holds    *)
(* the socket strongly ("read" and "send") or weakly (all others): a weak  *)
(* job finds nothing once the connection has let go of its socket and no   *)
(* receive is under way.  Descriptors are numbers the system hands out     *)
(* again, the lowest free one first.                                       *)
(***************************************************************************)
EXTENDS Naturals, Sequences, FiniteSets

CONSTANTS
    NumConns,    \* the number of connections made while the program runs
    MaxTraffic,  \* bound: packets sent in all, by the client or the server
    MaxLate      \* bound: connections that are begun behind a stop

ASSUME ConnAssumption ==
    NumConns \in Nat \ {0} /\ MaxTraffic \in Nat /\ MaxLate \in Nat

VARIABLES
    conn,     \* TcpConnection: what the transport does with it, its delegate, socket
              \* and closed
    sock,     \* NetworkSocketPosix: fd, failed, reading, delegate and its buffers
    tcpJobs,  \* the jobs of TcpConnection::queue()
    netJobs,  \* the jobs of NetworkSocket::queue()
    recv,     \* the receive queue of each socket
    owner,    \* the system's table: the connection a descriptor was opened for
    wire,     \* what each peer has sent and is not received yet, and its end
    told,     \* what the delegate, the transport, has been told
    refused,  \* the connections whose connect failed
    traffic   \* the packets that were sent

connVars == <<conn, sock, tcpJobs, netJobs, recv, owner, wire, told, refused, traffic>>

Conns == 1..NumConns   \* numbered as they are made
None == 0
Fds == 1..NumConns     \* each connection opens one descriptor
NoFd == 0
Tags == {"short", "long", "body"}

\* The pieces of the stream by the read they answer: a length in one byte, the
\* marker of a length in three, and the lengths no packet has.
Kind == [len |-> "short", far |-> "short", zero |-> "short",
         length |-> "long", huge |-> "long", body |-> "body"]
Packets == {<<"len", "body">>, <<"far", "length", "body">>, <<"zero">>, <<"far", "huge">>}

Idle == [st |-> "idle", tag |-> "short", fd |-> NoFd, on |-> None]

ConnInit ==
    /\ conn = [c \in Conns |-> [user |-> "none", delegate |-> FALSE,
                                socket |-> FALSE, closed |-> FALSE]]
    /\ sock = [c \in Conns |-> [fd |-> NoFd, failed |-> FALSE, reading |-> FALSE,
                                delegate |-> FALSE, reads |-> <<>>, sends |-> 0]]
    /\ tcpJobs = <<>> /\ netJobs = <<>>
    /\ recv = [c \in Conns |-> Idle]
    /\ owner = [f \in Fds |-> None]
    /\ wire = [c \in Conns |-> [items |-> <<>>, up |-> FALSE]]
    /\ told = [c \in Conns |-> [opened |-> FALSE, closed |-> 0, data |-> 0]]
    /\ refused = {}
    /\ traffic = 0

Job(op, c) == [op |-> op, c |-> c]
Read(c, tag) == [op |-> "read", c |-> c, tag |-> tag]
Arrival(c, tag, e) == [op |-> "data", c |-> c, tag |-> tag, item |-> e]

HasJob(queue, ops, c) == \E i \in DOMAIN queue : queue[i].c = c /\ queue[i].op \in ops

\* Is there still a strong reference to the connection, to its socket?
ConnHeld(c) ==
    conn[c].user \in {"holds", "leftover"} \/ \E i \in DOMAIN tcpJobs : tcpJobs[i].c = c

SockHeld(c) ==
    \/ ConnHeld(c) /\ conn[c].socket
    \/ HasJob(netJobs, {"read", "send"}, c)
    \/ recv[c].st \in {"loaded", "blocked"}

\* A socket's weak delegate can be locked, so that it is told.
Hears(c) == sock[c].delegate /\ ConnHeld(c)

-----------------------------------------------------------------------------
(* The transport, on its own queue.                                        *)

\* A transport in use holds a connection and drops it; the connections that one
\* began behind its stop are left over, and abandoned when it lets go of them.
Late == {c \in Conns : conn[c].user \in {"leftover", "abandoned"}}

\* TcpTransport::startIfNeeded
Starts(c, as) ==
    /\ conn[c].user = "none"
    /\ conn' = [conn EXCEPT ![c].user = as]
    /\ tcpJobs' = tcpJobs \o <<Job("delegate", c), Job("start", c)>>
    /\ UNCHANGED <<sock, netJobs, recv, owner, wire, told, refused, traffic>>

\* No transport in use has a connection yet: those before have been dropped, or
\* are left over.  Their jobs and receives go on.
InTurnFor(c) == \A d \in 1..(c - 1) : conn[d].user = "dropped" \/ d \in Late

\* a transport has one connection at a time
Begin(c) == InTurnFor(c) /\ Starts(c, "holds")

\* The job that setDelegateNeedsTransaction leaves to the next pass of the queue
\* may come behind the job of stop.  That leaves stopped FALSE, so a transport
\* that is held only by its queued jobs connects (once more).
BeginBehindStop(c) == Cardinality(Late) < MaxLate /\ InTurnFor(c) /\ Starts(c, "leftover")

\* TcpTransport::stop
Quit(c) ==
    /\ conn[c].user = "holds"
    /\ conn' = [conn EXCEPT ![c].user = "dropped"]
    /\ tcpJobs' = tcpJobs \o <<Job("noDelegate", c), Job("stop", c)>>
    /\ UNCHANGED <<sock, netJobs, recv, owner, wire, told, refused, traffic>>

\* the delegate is taken away and the connection let go of, without a stop
LetsGo(c, as) ==
    /\ conn' = [conn EXCEPT ![c].user = as]
    /\ tcpJobs' = Append(tcpJobs, Job("noDelegate", c))
    /\ UNCHANGED <<sock, netJobs, recv, owner, wire, told, refused, traffic>>

\* TcpTransport::connectionClosed
Drop(c) == conn[c].user = "holds" /\ told[c].closed > 0 /\ LetsGo(c, "dropped")

\* The transport that was left over ends, at any time, without stopping its
\* connection; or it has heard that this is closed.
Abandon(c) == conn[c].user = "leftover" /\ LetsGo(c, "abandoned")

SendDatas(c) ==
    /\ conn[c].user = "holds" /\ traffic < MaxTraffic
    /\ traffic' = traffic + 1
    /\ tcpJobs' = Append(tcpJobs, Job("send", c))
    /\ UNCHANGED <<conn, sock, netJobs, recv, owner, wire, told, refused>>

-----------------------------------------------------------------------------
(* TcpConnection::queue().                                                 *)

\* closeAndNotify, inline: the socket is let go of, and its own jobs to close
\* it are weak.
Shut(c) == [conn EXCEPT ![c].closed = TRUE, ![c].socket = FALSE]
ShutJobs(c) == <<Job("noDelegate", c), Job("close", c)>>
TellClosed(c) == IF conn[c].delegate THEN [told EXCEPT ![c].closed = @ + 1] ELSE told

CloseAndNotify(c) ==
    IF conn[c].closed
    THEN UNCHANGED <<conn, netJobs, told>>
    ELSE conn' = Shut(c) /\ netJobs' = netJobs \o ShutJobs(c) /\ told' = TellClosed(c)

TcpSetDelegate(c, on) ==
    /\ conn' = [conn EXCEPT ![c].delegate = on]
    /\ UNCHANGED <<netJobs, told>>

\* a slip: the socket connects before it has its delegate
TcpStartSwapped(c) ==
    /\ IF conn[c].socket
       THEN UNCHANGED <<conn, netJobs>>
       ELSE /\ conn' = [conn EXCEPT ![c].socket = TRUE]
            /\ netJobs' = netJobs \o <<Job("connect", c), Job("delegate", c), Read(c, "short")>>
    /\ UNCHANGED told

TcpStart(c) ==
    /\ IF conn[c].socket
       THEN UNCHANGED <<conn, netJobs>>
       ELSE /\ conn' = [conn EXCEPT ![c].socket = TRUE]
            /\ netJobs' = netJobs \o <<Job("delegate", c), Job("connect", c), Read(c, "short")>>
    /\ UNCHANGED told

TcpSend(c) ==
    /\ netJobs' = IF conn[c].closed \/ ~conn[c].socket
                  THEN netJobs ELSE Append(netJobs, Job("send", c))
    /\ UNCHANGED <<conn, told>>

TcpOpened(c) ==
    /\ told' = IF conn[c].delegate THEN [told EXCEPT ![c].opened = TRUE] ELSE told
    /\ UNCHANGED <<conn, netJobs>>

TcpLost(c) == told' = TellClosed(c) /\ UNCHANGED <<conn, netJobs>>

\* What the piece that has arrived makes of the next read.  Bytes that are not
\* what the read was for may mean anything.
NextReads(tag, e) ==
    IF Kind[e] # tag
    THEN CASE tag = "short" -> {"body", "long", "bad"}
           [] tag = "long" -> {"body", "bad"}
           [] OTHER -> {"short"}
    ELSE CASE e = "len" -> {"body"}
           [] e = "far" -> {"long"}
           [] e = "length" -> {"body"}
           [] e = "body" -> {"short"}
           [] OTHER -> {"bad"}

TcpData(c, tag, e) ==
    IF ~conn[c].socket
    THEN UNCHANGED <<conn, netJobs, told>>
    ELSE \E next \in NextReads(tag, e) :
            IF next = "bad"
            THEN CloseAndNotify(c)
            ELSE /\ netJobs' = Append(netJobs, Read(c, next))
                 /\ told' = IF tag = "body" /\ conn[c].delegate
                            THEN [told EXCEPT ![c].data = @ + 1] ELSE told
                 /\ UNCHANGED conn

TcpQueueStep ==
    /\ tcpJobs # <<>>
    /\ tcpJobs' = Tail(tcpJobs)
    /\ LET j == Head(tcpJobs) IN
          \/ j.op = "delegate" /\ TcpSetDelegate(j.c, TRUE)
          \/ j.op = "noDelegate" /\ TcpSetDelegate(j.c, FALSE)
          \/ j.op = "start" /\ TcpStart(j.c)
          \/ j.op = "stop" /\ CloseAndNotify(j.c)
          \/ j.op = "send" /\ TcpSend(j.c)
          \/ j.op = "opened" /\ TcpOpened(j.c)
          \/ j.op = "lost" /\ TcpLost(j.c)
          \/ j.op = "data" /\ TcpData(j.c, j.tag, j.item)
    /\ UNCHANGED <<sock, recv, owner, wire, refused, traffic>>

-----------------------------------------------------------------------------
(* NetworkSocket::queue().                                                 *)

Lowest(F) == CHOOSE f \in F : \A g \in F : f <= g

\* nothing but the socket, and what it posts, changes
Buffers(c, s, posted) ==
    /\ sock' = [sock EXCEPT ![c] = s]
    /\ netJobs' = Tail(netJobs) \o posted
    /\ UNCHANGED <<tcpJobs, recv, owner, wire, refused>>

NetSetDelegate(c, on) == Buffers(c, [sock[c] EXCEPT !.delegate = on], <<>>)

NetRead(c, tag) ==
    Buffers(c, [sock[c] EXCEPT !.reads = Append(@, tag)], <<Job("dequeueRead", c)>>)

NetSend(c) == Buffers(c, [sock[c] EXCEPT !.sends = @ + 1], <<Job("dequeueWrite", c)>>)

\* Open, inline; an option of the socket that cannot be set changes nothing
Opens(c, f) == [sock[c] EXCEPT !.fd = f, !.reading = FALSE]

\* The bytes a send writes to a descriptor that is not its own are not modelled
\* beyond that.
Connects(c, f) ==
    /\ owner' = [owner EXCEPT ![f] = c]
    /\ sock' = [sock EXCEPT ![c] = [Opens(c, f) EXCEPT !.failed = FALSE]]
    /\ wire' = [wire EXCEPT ![c].up = TRUE]
    /\ tcpJobs' = IF Hears(c) THEN Append(tcpJobs, Job("opened", c)) ELSE tcpJobs
    /\ netJobs' = Tail(netJobs) \o <<Job("dequeueRead", c), Job("dequeueWrite", c)>>
    /\ UNCHANGED <<recv, refused>>

\* connect fails: the descriptor is closed, and fd keeps its number
Refused(c, f) ==
    /\ sock' = [sock EXCEPT ![c] = [Opens(c, f) EXCEPT !.failed = TRUE]]
    /\ refused' = refused \cup {c}
    /\ netJobs' = Tail(netJobs)
    /\ UNCHANGED <<tcpJobs, recv, owner, wire>>

Connect(c) ==
    LET f == Lowest({g \in Fds : owner[g] = None}) IN Connects(c, f) \/ Refused(c, f)

\* the peer of a descriptor that is closed can be read no more
Released(f) ==
    /\ owner' = [owner EXCEPT ![f] = None]
    /\ wire' = [c \in Conns |-> IF owner[f] = c THEN [wire[c] EXCEPT !.up = FALSE] ELSE wire[c]]

Lost(c) == IF Hears(c) THEN Append(tcpJobs, Job("lost", c)) ELSE tcpJobs

\* (slip: the descriptor is closed and its number kept, as connect does)
CloseNowKept(c, s) ==
    /\ sock' = [sock EXCEPT ![c] = [s EXCEPT !.failed = TRUE, !.reading = FALSE]]
    /\ IF s.fd = NoFd
       THEN UNCHANGED <<owner, wire, tcpJobs>>
       ELSE Released(s.fd) /\ tcpJobs' = Lost(c)
    /\ netJobs' = Tail(netJobs)
    /\ UNCHANGED <<recv, refused>>

\* Close, with what the caller has done to the socket before
CloseNow(c, s) ==
    /\ sock' = [sock EXCEPT ![c] = [s EXCEPT !.failed = TRUE, !.reading = FALSE, !.fd = NoFd]]
    /\ IF s.fd = NoFd
       THEN UNCHANGED <<owner, wire, tcpJobs>>
       ELSE Released(s.fd) /\ tcpJobs' = Lost(c)
    /\ netJobs' = Tail(netJobs)
    /\ UNCHANGED <<recv, refused>>

Connected(c) == sock[c].fd # NoFd

DequeueRead(c) ==
    LET s == sock[c] IN
    IF s.reads # <<>> /\ Connected(c) /\ ~s.reading
    THEN /\ recv' = [recv EXCEPT ![c] = [Idle EXCEPT !.st = "posted", !.tag = Head(s.reads)]]
         /\ sock' = [sock EXCEPT ![c].reads = IF s.failed THEN <<>> ELSE Tail(@)]
         /\ netJobs' = Tail(netJobs)
         /\ UNCHANGED <<tcpJobs, owner, wire, refused>>
    ELSE Buffers(c, [s EXCEPT !.reads = IF s.failed THEN <<>> ELSE @], <<>>)

\* A send succeeds, or fails and closes the socket; the buffer of a failed
\* socket is thrown away.
Sends(c, s) ==
    \/ /\ owner[s.fd] # None
       /\ Buffers(c, [s EXCEPT !.sends = IF s.failed THEN 0 ELSE @], <<Job("dequeueWrite", c)>>)
    \/ CloseNow(c, [s EXCEPT !.sends = 0])

DequeueWrite(c) ==
    IF sock[c].sends > 0 /\ Connected(c)
    THEN Sends(c, [sock[c] EXCEPT !.sends = @ - 1])
    ELSE Buffers(c, [sock[c] EXCEPT !.sends = IF sock[c].failed THEN 0 ELSE @], <<>>)

\* a packet has been received: its connection is told
NetData(c, tag, e) ==
    /\ tcpJobs' = IF Hears(c) THEN Append(tcpJobs, Arrival(c, tag, e)) ELSE tcpJobs
    /\ netJobs' = Tail(netJobs)
    /\ UNCHANGED <<sock, recv, owner, wire, refused>>

NetQueueStep ==
    /\ netJobs # <<>>
    /\ LET j == Head(netJobs) IN
       IF ~SockHeld(j.c)
       THEN netJobs' = Tail(netJobs) /\ UNCHANGED <<sock, tcpJobs, recv, owner, wire, refused>>
       ELSE \/ j.op = "delegate" /\ NetSetDelegate(j.c, TRUE)
            \/ j.op = "noDelegate" /\ NetSetDelegate(j.c, FALSE)
            \/ j.op = "connect" /\ Connect(j.c)
            \/ j.op = "read" /\ NetRead(j.c, j.tag)
            \/ j.op = "send" /\ NetSend(j.c)
            \/ j.op = "close" /\ CloseNow(j.c, sock[j.c])
            \/ j.op = "dequeueRead" /\ DequeueRead(j.c)
            \/ j.op = "dequeueWrite" /\ DequeueWrite(j.c)
            \/ j.op = "data" /\ NetData(j.c, j.tag, j.item)
    /\ UNCHANGED <<conn, told, traffic>>

-----------------------------------------------------------------------------
(* The receive queue of a socket.                                          *)

\* Receive begins, with the descriptor it finds; the system call that follows
\* is a step of its own, for nothing keeps the descriptor open in between.
ReceiveBegins(c) ==
    /\ recv[c].st = "posted"
    /\ IF SockHeld(c)
       THEN /\ sock' = [sock EXCEPT ![c].reading = TRUE]
            /\ recv' = [recv EXCEPT ![c].st = "loaded", ![c].fd = sock[c].fd]
       ELSE /\ recv' = [recv EXCEPT ![c] = Idle]
            /\ UNCHANGED sock
    /\ UNCHANGED <<conn, tcpJobs, netJobs, owner, wire, told, refused, traffic>>

ReceiveCalls(c) ==
    /\ recv[c].st = "loaded"
    /\ recv' = [recv EXCEPT ![c].st = "blocked",
                            ![c].on = IF recv[c].fd = NoFd THEN None ELSE owner[recv[c].fd]]
    /\ UNCHANGED <<conn, sock, tcpJobs, netJobs, owner, wire, told, refused, traffic>>

Received(c) ==
    LET d == recv[c].on IN
    /\ recv[c].st = "blocked" /\ d # None /\ wire[d].items # <<>>
    /\ wire' = [wire EXCEPT ![d].items = Tail(@)]
    /\ sock' = [sock EXCEPT ![c].reading = FALSE]
    /\ netJobs' = netJobs \o <<Job("dequeueRead", c), Arrival(c, recv[c].tag, Head(wire[d].items))>>
    /\ recv' = [recv EXCEPT ![c] = Idle]
    /\ UNCHANGED <<conn, tcpJobs, owner, told, refused, traffic>>

\* a slip: the failure is only logged
ReceiveFailsSilent(c) ==
    /\ recv[c].st = "blocked"
    /\ recv' = [recv EXCEPT ![c] = Idle]
    /\ UNCHANGED <<conn, sock, tcpJobs, netJobs, owner, wire, told, refused, traffic>>

\* The peer has closed, the descriptor has been shut down or was none, or
\* SO_RCVTIMEO has passed.
ReceiveFails(c) ==
    /\ recv[c].st = "blocked"
    /\ netJobs' = Append(netJobs, Job("close", c))
    /\ recv' = [recv EXCEPT ![c] = Idle]
    /\ UNCHANGED <<conn, sock, tcpJobs, owner, wire, told, refused, traffic>>

ReceiveStep(c) == ReceiveBegins(c) \/ ReceiveCalls(c) \/ Received(c) \/ ReceiveFails(c)

-----------------------------------------------------------------------------
(* The server.                                                             *)

PeerSends(c) ==
    /\ wire[c].up /\ traffic < MaxTraffic
    /\ \E p \in Packets : wire' = [wire EXCEPT ![c].items = @ \o p]
    /\ traffic' = traffic + 1
    /\ UNCHANGED <<conn, sock, tcpJobs, netJobs, recv, owner, told, refused>>

User(c) == Begin(c) \/ BeginBehindStop(c) \/ Quit(c) \/ Drop(c) \/ Abandon(c) \/ SendDatas(c)

ConnNext ==
    \/ TcpQueueStep \/ NetQueueStep
    \/ \E c \in Conns : User(c) \/ ReceiveStep(c) \/ PeerSends(c)

ConnSpec == ConnInit /\ [][ConnNext]_connVars

\* The queues run, and a blocked recv returns: SO_RCVTIMEO bounds its wait.
\* This is weak fairness of the three steps, each of which is enabled exactly
\* when there is something to do.
ConnFairSpec ==
    /\ ConnSpec
    /\ []<>(tcpJobs = <<>>) \/ []<><<TcpQueueStep>>_connVars
    /\ []<>(netJobs = <<>>) \/ []<><<NetQueueStep>>_connVars
    /\ \A c \in Conns : []<>(recv[c].st = "idle") \/ []<><<ReceiveStep(c)>>_connVars

-----------------------------------------------------------------------------
(* Properties.                                                             *)

Jobs(ops) == [op : ops, c : Conns]

\* As long as no connect has failed a socket's descriptor is its own: none that
\* has been closed, and handed out again, is read, written or closed by another
\* connection.  (After a failed connect fd keeps the number of a descriptor that
\* is closed, and all three happen.)  And it outlives its socket only when the
\* connection was closed from this side, between two receives, for nothing then
\* keeps the socket until its job to close runs; or when a transport connected
\* behind its stop, for it ends without closing anything.
DescriptorsAreOwn ==
    /\ refused = {} => \A c \in Conns : sock[c].fd # NoFd => owner[sock[c].fd] = c
    /\ \A c \in Conns :
          conn[c].user # "none" /\ ~SockHeld(c) /\ (\E f \in Fds : owner[f] = c) =>
              conn[c].closed \/ conn[c].user = "abandoned"

\* A packet is told to the delegate only after the connection was, and never
\* once the connection has been closed from this side.  (The connections of a
\* transport that is left over overlap with the next transport's: one whose
\* connect failed may receive what is sent to the other.)
ToldInOrder ==
    [][\A c \in Conns : told'[c].data > told[c].data =>
          (told[c].opened \/ c \in Late) /\ ~conn[c].closed]_connVars

\* A transport that keeps a connection is told of its end, also of one whose
\* connect failed, which only the read that was asked for beside it notices.
FailureIsTold ==
    \A c \in Conns :
        conn[c].user = "holds" /\ sock[c].failed ~> told[c].closed > 0 \/ conn[c].user # "holds"
=============================================================================
