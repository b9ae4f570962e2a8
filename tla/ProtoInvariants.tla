--------------------------- MODULE ProtoInvariants --------------------------
(***************************************************************************)
(* What the proofs about ProtoSystem are made of: what an operator of      *)
(* Proto may do to it, what each turn of its queue and each step beside it *)
(* does, and the inductive invariants.                                     *)
(***************************************************************************)
EXTENDS ProtoSystem

-----------------------------------------------------------------------------
(* Queues: sequences of anything.                                          *)

IsQueue(s) == \E S : s \in Seq(S)

\* t is s with entries added at its end
Extended(s, t) ==
    /\ IsQueue(t)
    /\ Len(s) <= Len(t)
    /\ \A i \in 1..Len(s) : t[i] = s[i]

-----------------------------------------------------------------------------
(* What a Proto's operators do to it, as far as its life cycle goes.       *)

\* the fields an operator may read or set
Fields == {"state", "transport", "created", "flushing", "jobs", "tcpJobs", "ctxJobs",
           "batch", "session", "lock", "forceAcks", "authInfo", "infos", "key", "missed",
           "timeFix", "timeSync", "registered", "requests", "context", "answered", "reported"}

IsCounter(p) == p.answered = [r \in Requests |-> p.answered[r]]

Good(p) ==
    /\ Fields \subseteq DOMAIN p
    /\ IsCounter(p)
    /\ p.created \in Nat /\ p.infos \in Nat
    /\ IsQueue(p.jobs) /\ IsQueue(p.tcpJobs) /\ IsQueue(p.ctxJobs)

\* what an operator may add to the queues
JobsGrow(p, q) ==
    /\ Extended(p.jobs, q.jobs)
    /\ \A i \in (Len(p.jobs) + 1)..Len(q.jobs) : q.jobs[i].op = "flush"

TcpGrow(p, q) ==
    /\ Extended(p.tcpJobs, q.tcpJobs)
    /\ \A i \in (Len(p.tcpJobs) + 1)..Len(q.tcpJobs) : q.tcpJobs[i].op \in {"update", "detach", "stop", "valid"}

CtxGrow(p, q) ==
    /\ Extended(p.ctxJobs, q.ctxJobs)
    /\ \A i \in (Len(p.ctxJobs) + 1)..Len(q.ctxJobs) : q.ctxJobs[i] # 0

\* ... and to the rest, the transport aside
Lives(p, q) ==
    /\ Good(q)
    /\ q.created >= p.created
    /\ q.key = p.key /\ q.registered = p.registered /\ q.missed = p.missed
    /\ Stopped(q) = Stopped(p) /\ Paused(q) = Paused(p)
    /\ q.authInfo = p.authInfo \/ q.authInfo # 0
    /\ p.registered \/ q.answered = p.answered
    /\ JobsGrow(p, q) /\ TcpGrow(p, q) /\ CtxGrow(p, q)

\* The transport stays, is dropped, or is one that was not there before; the
\* last only with a key and never for a client that has stopped.
Grows(p, q) ==
    /\ Lives(p, q)
    /\ \/ q.transport = p.transport
       \/ q.transport = 0
       \/ q.transport \in (p.created + 1)..q.created /\ p.key # 0 /\ ~Stopped(p)

\* the operators that touch nothing of this
Alike(p, q) ==
    /\ Fields \subseteq DOMAIN q
    /\ Stopped(q) = Stopped(p) /\ Paused(q) = Paused(p)
    /\ q.transport = p.transport /\ q.created = p.created
    /\ q.key = p.key /\ q.registered = p.registered /\ q.missed = p.missed
    /\ q.authInfo = p.authInfo /\ q.infos = p.infos
    /\ q.jobs = p.jobs /\ q.tcpJobs = p.tcpJobs /\ q.ctxJobs = p.ctxJobs

Answers(p, q) == q.answered = p.answered \/ (p.registered /\ IsCounter(q))

-----------------------------------------------------------------------------
(* The invariant, of a Proto p and the transports n that are not stopped.  *)

\* What is asked of or reported by a transport is about one that was made.
Bounds(p, n) ==
    /\ p.transport \in 0..p.created
    /\ DOMAIN n \subseteq 1..p.created
    /\ \A i \in 1..Len(p.jobs) : p.jobs[i].op = "ready" => p.jobs[i].t \in 1..p.created
    /\ \A i \in 1..Len(p.tcpJobs) :
          p.tcpJobs[i].op \in {"needs", "flush"} => p.tcpJobs[i].t \in 1..p.created

\* the request service has been removed, or is going to be
RemovalQueued(p) ==
    ~p.registered \/ \E j \in 1..Len(p.jobs) : p.jobs[j].op = "removeService"

\* ClientSync::stop removes the service before it stops the Proto, and the
\* queue keeps that order.
RemovalComesFirst(p) ==
    /\ Stopped(p) => ~p.registered
    /\ \A i \in 1..Len(p.jobs) : p.jobs[i].op = "stop" =>
          ~p.registered \/ \E j \in 1..(i - 1) : p.jobs[j].op = "removeService"

\* Context gives Proto no transport before it has a key, and a key that has
\* not come yet comes before the transport in use is ready, unless it never comes.
KeyComesFirst(p) ==
    /\ p.key = 0 => p.transport = 0
    /\ \A i \in 1..Len(p.ctxJobs) : p.ctxJobs[i] # 0
    /\ \A i \in 1..Len(p.jobs) : p.jobs[i].op = "authInfo" => p.jobs[i].info # 0
    /\ p.key # 0 /\ p.authInfo = 0 /\ ~p.missed =>
          \E i \in 1..Len(p.jobs) :
             /\ p.jobs[i].op = "authInfo"
             /\ \A j \in 1..(i - 1) : p.jobs[j].op = "ready" => p.jobs[j].t # p.transport

Core(p, n) == Good(p) /\ Bounds(p, n) /\ RemovalComesFirst(p) /\ KeyComesFirst(p)

\* A transport made while Proto is paused is never started.
Resting(p, n) ==
    Paused(p) /\ p.transport # 0 =>
        /\ \A i \in 1..Len(p.jobs) : p.jobs[i].op = "ready" => p.jobs[i].t # p.transport
        /\ \A i \in 1..Len(p.tcpJobs) :
              p.tcpJobs[i].op \in {"needs", "flush"} => p.tcpJobs[i].t # p.transport
        /\ p.transport \in DOMAIN n => n[p.transport].conn = "none"

Sound(p, n) == Core(p, n) /\ (Stopped(p) => p.transport = 0) /\ Resting(p, n)

Known == (\A t \in DOMAIN net : "conn" \in DOMAIN net[t]) /\ "stopping" \in DOMAIN client

IInv ==
    /\ Sound(proto, net)
    /\ Known
    /\ client.stopping = "removed" => RemovalQueued(proto)

\* what no step of a stopped or a paused client does
Quiet == Stopped(proto) \/ Paused(proto) => {s.mid : s \in wire'} \subseteq {s.mid : s \in wire}

Final == Stopped(proto) => Stopped(proto') /\ proto'.answered = proto.answered

Kept == IInv' /\ Quiet /\ Final

-----------------------------------------------------------------------------
(* What keeps the invariant.                                               *)

\* transports made from p to q have no connection yet
NetGrows(n, m, p, q) ==
    /\ DOMAIN m = DOMAIN n \cup (p.created + 1)..q.created
    /\ \A t \in DOMAIN m : IF t \in DOMAIN n THEN m[t] = n[t] ELSE m[t].conn = "none"

\* the queues of q are those of p with jobs behind them
JobsBehind(p, q) ==
    /\ Len(p.jobs) \in Nat /\ Len(q.jobs) \in Nat /\ Len(p.jobs) <= Len(q.jobs)
    /\ \A i \in 1..Len(p.jobs) : q.jobs[i] = p.jobs[i]
    /\ \A i \in 1..Len(q.jobs) : i <= Len(p.jobs) \/ q.jobs[i].op = "flush"

TcpBehind(p, q) ==
    /\ Len(p.tcpJobs) \in Nat /\ Len(q.tcpJobs) \in Nat /\ Len(p.tcpJobs) <= Len(q.tcpJobs)
    /\ \A i \in 1..Len(p.tcpJobs) : q.tcpJobs[i] = p.tcpJobs[i]
    /\ \A i \in 1..Len(q.tcpJobs) :
          i <= Len(p.tcpJobs) \/ q.tcpJobs[i].op \notin {"needs", "flush"}

CtxBehind(p, q) ==
    /\ Len(p.ctxJobs) \in Nat /\ Len(q.ctxJobs) \in Nat /\ Len(p.ctxJobs) <= Len(q.ctxJobs)
    /\ \A i \in 1..Len(p.ctxJobs) : q.ctxJobs[i] = p.ctxJobs[i]
    /\ \A i \in 1..Len(q.ctxJobs) : i <= Len(p.ctxJobs) \/ q.ctxJobs[i] # 0

Later(p, q) == p.created \in Nat /\ q.created \in Nat /\ p.created <= q.created

-----------------------------------------------------------------------------
(* The head of Proto's queue is taken, or another job is put in its place. *)

\* b's jobs are p's without the first (d = 1), or with the rest of a packet
\* instead of it (d = 0)
Shifted(p, b, d) ==
    /\ Len(b.jobs) = Len(p.jobs) - d
    /\ \A i \in 1..Len(b.jobs) : i + d # 1 => b.jobs[i] = p.jobs[i + d]
    /\ d = 0 => b.jobs[1].op = "messages" /\ p.jobs[1].op \in {"incoming", "messages"}

\* ... and that first job may have removed the service, have stopped the client
\* or have brought a key
Taken(p, b) ==
    /\ Good(b)
    /\ p.jobs # <<>>
    /\ \E d \in {0, 1} : Shifted(p, b, d)
    /\ b.transport = p.transport /\ b.created = p.created /\ b.key = p.key
    /\ b.missed = p.missed /\ b.tcpJobs = p.tcpJobs /\ b.ctxJobs = p.ctxJobs /\ b.answered = p.answered
    /\ Stopped(p) => Stopped(b)
    /\ Stopped(b) => Stopped(p) \/ p.jobs[1].op = "stop"
    /\ \/ b.registered = p.registered /\ p.jobs[1].op # "removeService"
       \/ ~b.registered
    /\ \/ b.authInfo = p.authInfo /\ p.jobs[1].op # "authInfo"
       \/ b.authInfo # 0

-----------------------------------------------------------------------------
(* Steps beside Proto's queue: jobs are posted to it, or a job of another  *)
(* queue is run.                                                           *)

Harmless(p, job) ==
    /\ job.op = "stop" => RemovalQueued(p)
    /\ job.op = "ready" => job.t \in 1..p.created /\ ~(Paused(p) /\ job.t = p.transport)
    /\ job.op = "authInfo" => job.info # 0

JobsPosted(p, jobs) ==
    /\ Extended(p.jobs, jobs)
    /\ \A i \in (Len(p.jobs) + 1)..Len(jobs) : Harmless(p, jobs[i])

\* what is left for TcpTransport's queue asks nothing new
TcpLeft(p, tcpJobs) ==
    /\ IsQueue(tcpJobs)
    /\ \A i \in 1..Len(tcpJobs) :
          tcpJobs[i].op \in {"needs", "flush"} =>
             /\ tcpJobs[i].t \in 1..p.created
             /\ ~(Paused(p) /\ tcpJobs[i].t = p.transport)

NetKept(p, m) ==
    /\ DOMAIN m \subseteq 1..p.created
    /\ Paused(p) /\ p.transport \in DOMAIN m => m[p.transport].conn = "none"

\* apart from its queues q is what p is
SameBut(p, q) ==
    /\ Fields \subseteq DOMAIN q
    /\ q.state = p.state /\ q.transport = p.transport /\ q.created = p.created
    /\ q.key = p.key /\ q.registered = p.registered /\ q.missed = p.missed
    /\ q.authInfo = p.authInfo /\ q.infos = p.infos /\ q.answered = p.answered

NothingNew == \A s \in wire' : \E r \in wire : r.mid = s.mid

-----------------------------------------------------------------------------
(* TcpTransport's queue, the network, the server and the clock.            *)

\* Proto as TcpTransport's queue leaves it
Nearly(p) ==
    /\ SameBut(proto, p) /\ p.ctxJobs = proto.ctxJobs
    /\ TcpLeft(proto, p.tcpJobs)
    /\ JobsPosted(proto, p.jobs)

-----------------------------------------------------------------------------
(* The jobs of Proto's queue.                                              *)

\* what is left when the head of the queue is gone
Left(b) ==
    /\ Fields \subseteq DOMAIN b
    /\ b.jobs = Tail(proto.jobs)
    /\ b.transport = proto.transport /\ b.created = proto.created /\ b.key = proto.key
    /\ b.missed = proto.missed /\ b.tcpJobs = proto.tcpJobs /\ b.ctxJobs = proto.ctxJobs
    /\ b.answered = proto.answered /\ b.infos = proto.infos

-----------------------------------------------------------------------------
(* What the operators do to the rest: the requests and their contexts, the *)
(* session, the key and the transports, and what they ask for.             *)

SessionFields == {"first", "processed", "acks", "carried", "containers"}

\* the types of what is followed here
Contexts(p) ==
    /\ p.requests \subseteq Requests
    /\ p.context \in [Requests -> RequestContext \cup {None}]
    /\ \A r \in Requests : p.context[r] # None => p.context[r].mid.m = r

FlushIsQueued(p) == p.flushing => \E i \in 1..Len(p.jobs) : p.jobs[i].op = "flush"

Typed(p) ==
    /\ Contexts(p)
    /\ SessionFields \subseteq DOMAIN p.session
    /\ p.batch \in Nat /\ p.session.first \in Nat /\ p.session.first <= p.batch
    /\ p.transport \in {0, p.created}
    /\ p.key = 0 => p.transport = 0
    /\ FlushIsQueued(p)

Fit(p) == Good(p) /\ Typed(p)

\* the same attempt to send a request, delivered perhaps
SameAttempt(c, d) == c # None /\ d.mid = c.mid /\ d.tx = c.tx /\ (c.delivered => d.delivered)

\* attempts are given up, none is made
Fades(p, q) ==
    \A r \in Requests : q.context[r] = None \/ SameAttempt(p.context[r], q.context[r])

\* No attempt outlives the session or the transport it was made for, as far as
\* the service is there to hear of the change.
Renews(p, q) ==
    /\ q.batch = p.batch
    /\ q.session.first \in {p.session.first, p.batch}
    /\ q.session.containers \in {p.session.containers, {}}
    /\ q.session.processed \subseteq p.session.processed
    /\ p.registered => \A r \in Requests : r \in p.requests /\ q.context[r] # None =>
          /\ q.session.first = p.session.first
          /\ q.session.containers = p.session.containers
          /\ ~Stopped(p) => q.transport = p.transport

\* the transport stays ...
Stays(p, q) ==
    /\ q.transport = p.transport /\ q.created = p.created /\ q.reported = p.reported
    /\ \A i \in (Len(p.tcpJobs) + 1)..Len(q.tcpJobs) : q.tcpJobs[i].op = "valid"

\* ... or a new one is asked for its state after all others have been stopped
Succeeds(p, q) ==
    /\ q.transport = q.created /\ p.created < q.created
    /\ \E i \in (Len(p.tcpJobs) + 1)..Len(q.tcpJobs) :
          /\ q.tcpJobs[i] = [op |-> "update", t |-> q.created]
          /\ \A t \in ({p.transport} \cup (p.created + 1)..q.created) \ {0, q.created} :
                \E j \in (Len(p.tcpJobs) + 1)..(i - 1) : q.tcpJobs[j] = [op |-> "stop", t |-> t]
    /\ \A i \in (Len(p.tcpJobs) + 1)..Len(q.tcpJobs) :
          q.tcpJobs[i].op \in {"detach", "stop"} => q.tcpJobs[i].t \in 1..(q.created - 1)

\* authInfo is set only to what Context is told last
KeyMoves(p, q) ==
    \/ q.infos = p.infos /\ q.authInfo = p.authInfo /\ q.ctxJobs = p.ctxJobs
    \/ /\ q.infos > p.infos /\ q.authInfo = q.infos
       /\ Len(q.ctxJobs) > Len(p.ctxJobs) /\ q.ctxJobs[Len(q.ctxJobs)] = q.infos

Moves(p, q) ==
    /\ Grows(p, q) /\ Typed(q)
    /\ q.requests = p.requests /\ q.answered = p.answered
    /\ Fades(p, q) /\ Renews(p, q)
    /\ Stays(p, q) \/ Succeeds(p, q)
    /\ KeyMoves(p, q)

\* What could not be sent before and can be sent now has been asked for.
Asks(p, q) ==
    /\ p.flushing => q.flushing
    /\ \/ q.flushing
       \/ CanAskTransactions(q) => \A r \in Offered(q) :
             /\ CanAskTransactions(p) /\ r \in Offered(p)
             /\ q.context[r] = None => p.context[r] = None
             /\ q.transport = p.transport

Goes(p, q) == Moves(p, q) /\ Asks(p, q)

\* what the message services leave alone when attempts are given up
Untouched(p, q) ==
    /\ q.state = p.state /\ q.transport = p.transport /\ q.created = p.created
    /\ q.tcpJobs = p.tcpJobs /\ q.ctxJobs = p.ctxJobs
    /\ q.batch = p.batch /\ q.session = p.session
    /\ q.authInfo = p.authInfo /\ q.infos = p.infos /\ q.key = p.key
    /\ q.registered = p.registered /\ q.requests = p.requests
    /\ q.answered = p.answered /\ q.reported = p.reported

Recalls(p, q) ==
    Grows(p, q) /\ Untouched(p, q) /\ Contexts(q) /\ FlushIsQueued(q) /\ Fades(p, q) /\ Asks(p, q)

-----------------------------------------------------------------------------
(* Transports.                                                             *)

\* what setting the transport to t leaves alone and what it does
Shifts(p, q, t) ==
    /\ Fields \subseteq DOMAIN q
    /\ Contexts(q) /\ FlushIsQueued(q)
    /\ q.transport = t /\ q.created = p.created
    /\ q.state = p.state /\ q.ctxJobs = p.ctxJobs
    /\ q.batch = p.batch /\ q.session = p.session
    /\ q.authInfo = p.authInfo /\ q.infos = p.infos /\ q.key = p.key
    /\ q.registered = p.registered /\ q.requests = p.requests /\ q.answered = p.answered
    /\ q.reported = (IF t = 0 THEN "connecting" ELSE p.reported)
    /\ p.flushing => q.flushing
    /\ Fades(p, q)
    /\ p.registered /\ ~Stopped(p) => \A r \in p.requests : q.context[r] = None

\* a stop job for the transport that was in use, an update job for the next
Retired(s, t) == IF t = 0 THEN s ELSE Append(s, [op |-> "stop", t |-> t])

Updated(s, t) == IF t = 0 THEN s ELSE Append(s, [op |-> "update", t |-> t])

\* q is p with a job more for TcpTransport::queue
Hands(p, q, op, t) ==
    /\ Fit(q) /\ Fields \subseteq DOMAIN q
    /\ \A f \in Fields \ {"tcpJobs"} : q[f] = p[f]
    /\ q.tcpJobs = Append(p.tcpJobs, [op |-> op, t |-> t])

-----------------------------------------------------------------------------
(* Sessions, salts and time.                                               *)

\* What is rejected is given up.
ChildrenOf(p, mid) == UNION {c.children : c \in {d \in p.session.containers : d.id = mid}}

Rejected(p, body) == {body.mid} \cup ChildrenOf(p, body.mid)

-----------------------------------------------------------------------------
(* Incoming messages.                                                      *)

\* m is in the session's list of the messages processed
Noted(p, m) == [p EXCEPT !.session.processed = @ \cup {m.id}]

\* q is what the message m makes of p
Handled(p, m, q) ==
    IF m.id \in p.session.processed THEN Goes(p, q)
    ELSE \E s : /\ Goes(Noted(p, m), s)
                /\ q = (IF m.body.k \in {"rpcResult", "rpcSilent"}
                        THEN ReceiveResult(s, m.body) ELSE s)
                /\ m.body.k \in {"badSalt", "badMsg"} /\ p.registered =>
                      \A r \in p.requests :
                         q.context[r] # None => q.context[r].mid \notin Rejected(p, m.body)

-----------------------------------------------------------------------------
(* The turns of Proto's queue: b is the Proto when the head of the queue   *)
(* has been taken and the fields fs have been set, proto' what becomes of  *)
(* it.                                                                     *)

Base(b, d, fs) ==
    /\ proto.jobs # <<>> /\ d \in {0, 1}
    /\ Fields \subseteq DOMAIN b
    /\ IsQueue(b.jobs) /\ Shifted(proto, b, d)
    /\ \A f \in Fields \ (fs \cup {"jobs"}) : b[f] = proto[f]

\* the request of an add job is known
Calls(p) == \A i \in 1..Len(p.jobs) : p.jobs[i].op = "add" => p.jobs[i].r \in Requests

FInv == IInv /\ Fit(proto) /\ Calls(proto)

\* a turn after which the Proto has gone on as Goes says, and has sent nothing
Calm == \E b, d : Base(b, d, {}) /\ Fit(b) /\ Goes(b, proto') /\ Become(proto', {})

AddTurn ==
    /\ TheJob.op = "add" /\ TheJob.r \in Requests
    /\ Become(proto', {}) /\ proto'.flushing
    /\ \E b : /\ Base(b, 1, {"requests"}) /\ Fit(b)
              /\ b.requests = proto.requests \cup {TheJob.r}
              /\ Recalls(b, proto')

CancelTurn ==
    /\ Become(proto', {}) /\ Fit(proto') /\ Base(proto', 1, {"requests", "context"})
    /\ proto'.requests = proto.requests \ {TheJob.r}
    /\ proto'.context = [proto.context EXCEPT ![TheJob.r] = None]

ConnStateTurn ==
    /\ TheJob.op = "connState"
    /\ Become(proto', {}) /\ Fit(proto') /\ Base(proto', 1, {"reported"})
    /\ proto'.reported = (IF TheJob.up THEN "connected" ELSE "connecting")

RemoveServiceTurn ==
    /\ Become(proto', {}) /\ Fit(proto') /\ Base(proto', 1, {"registered"})
    /\ proto'.registered = FALSE

\* the transport is let go, without a detach job
PauseTurn ==
    \/ Calm
    \/ /\ Become(proto', {}) /\ Fit(proto')
       /\ \E b : /\ Base(b, 1, {"state"}) /\ Fit(b)
                 /\ b.state = proto.state \cup {"paused"}
                 /\ Grows(b, proto') /\ Shifts(b, proto', 0)
                 /\ proto'.tcpJobs = Retired(b.tcpJobs, b.transport)

ResumeTurn ==
    \/ Calm
    \/ /\ Become(proto', {}) /\ proto'.flushing
       /\ \E b : /\ Base(b, 1, {"state"}) /\ Fit(b)
                 /\ b.state = proto.state \ {"paused"}
                 /\ Moves(b, proto')

\* the transport, if there is one, is let go with a detach job
StopTurn ==
    \/ Calm
    \/ /\ Become(proto', {}) /\ Fit(proto')
       /\ \E b : /\ Base(b, 1, {"state"}) /\ Fit(b)
                 /\ b.state = proto.state \cup {"stopped"}
                 /\ \/ b.transport = 0 /\ proto' = b
                    \/ /\ b.transport # 0 /\ Grows(b, proto') /\ Shifts(b, proto', 0)
                       /\ LET T == [op |-> "stop", t |-> b.transport]
                          IN proto'.tcpJobs =
                                Append(Append(Append(b.tcpJobs, [op |-> "detach", t |-> b.transport]), T), T)

\* a transport is made if there is none, and is asked to tell when it is ready
FlushTurn ==
    /\ Become(proto', {}) /\ Fit(proto')
    /\ \E b : /\ Base(b, 1, {"flushing"}) /\ Fit(b) /\ b.flushing = FALSE
              /\ \/ (Stopped(b) \/ Paused(b)) /\ proto' = b
                 \/ /\ ~Stopped(b) /\ ~Paused(b)
                    /\ \E x : /\ Moves(b, x) /\ (b.transport # 0 => x = b)
                              /\ \/ x.transport = 0 /\ ~CanAskTransactions(x) /\ proto' = x
                                 \/ x.transport # 0 /\ Hands(x, proto', "needs", x.transport)

\* updateAuthInfo: the datacenter's key has come round
AuthInfoTurn ==
    /\ TheJob.op = "authInfo"
    /\ Become(proto', {}) /\ Fit(proto')
    /\ \E b : /\ Base(b, 1, {"authInfo", "state"}) /\ Fit(b)
              /\ b.authInfo = TheJob.info /\ b.state = proto.state \ {"authorization"}
              /\ \/ "authorization" \notin proto.state /\ proto' = b
                 \/ Moves(b, proto') /\ proto'.flushing

TxFailedTurn ==
    /\ TheJob.op = "txFailed"
    /\ Become(proto', {})
    /\ \E b : /\ Base(b, 1, {}) /\ Fit(b) /\ Recalls(b, proto')
              /\ b.registered /\ ~Stopped(b) => \A r \in b.requests :
                    proto'.context[r] # None => proto'.context[r].tx # TheJob.t

Garbled == {"undecryptable", "unparsable", "truncated"}

\* a packet is dropped, or its messages are the next job
IncomingTurn ==
    /\ TheJob.op = "incoming"
    /\ Become(proto', {})
    /\ \/ /\ TheJob.quality \in Garbled \/ TheJob.t # proto.transport \/ Stopped(proto)
          /\ \E b : Base(b, 1, {}) /\ Fit(b) /\ Goes(b, proto')
       \/ /\ TheJob.quality \notin Garbled
          /\ TheJob.t = proto.transport /\ ~Stopped(proto)
          /\ \E b : /\ Base(b, 0, {}) /\ Fit(b) /\ Goes(b, proto')
                    /\ b.jobs[1] = [op |-> "messages", msgs |-> TheJob.msgs]

\* one message of a packet; the others stay at the head of the queue
MessageTurn ==
    /\ TheJob.op = "messages"
    /\ Become(proto', {})
    /\ \E b, d : /\ Base(b, d, {}) /\ Fit(b)
                 /\ IF Len(TheJob.msgs) = 1 THEN d = 1
                    ELSE d = 0 /\ b.jobs[1] = [op |-> "messages", msgs |-> Tail(TheJob.msgs)]
                 /\ Handled(b, Head(TheJob.msgs), proto')

-----------------------------------------------------------------------------
(* What becomes of the requests when the transport in use is ready.        *)

BoundTo(p, rs, tx) ==
    [r \in Requests |-> IF r \in rs THEN [mid |-> IdFor(p, r), tx |-> tx, delivered |-> FALSE]
                        ELSE p.context[r]]

\* the containers after the requests in rs have been put into a new one
OneMore(p, rs) ==
    {p.session.containers \cup
        {[id |-> [b |-> p.batch, m |-> "container"],
          children |-> {IdFor(p, r) : r \in rs} \cup C]} :
     C \in SUBSET {[b |-> p.batch, m |-> "futureSalts"]}}

\* q is p when the requests in rs have been prepared for the transaction tx
Binds(p, q, rs, tx) ==
    /\ Fit(q) /\ Alike(p, q)
    /\ q.state = p.state /\ q.flushing = p.flushing /\ q.reported = p.reported
    /\ q.requests = p.requests /\ q.answered = p.answered
    /\ q.batch = p.batch + 1
    /\ q.context = BoundTo(p, rs, tx)
    /\ q.session.first = p.session.first
    /\ q.session.processed = p.session.processed
    /\ q.session.containers \in {p.session.containers} \cup OneMore(p, rs)

\* the requests offered go out with the ids they are given
SendTurn ==
    \E b, L :
       /\ Base(b, 1, {}) /\ Fit(b)
       /\ CanAskTransactions(b) /\ HasConnection(b.transport)
       /\ Binds(b, proto', Offered(b), b.transport)
       /\ L \subseteq {[b |-> b.batch, m |-> x] : x \in Labels}
       /\ Become(proto', {Encrypted(id, b.transport) : id \in {IdFor(b, r) : r \in Offered(b)} \cup L})

\* they are given ids and do not go out
RefusedTurn ==
    /\ Become(proto', {})
    /\ \E b, x, rs :
          /\ Base(b, 1, {}) /\ Fit(b)
          /\ CanAskTransactions(b) /\ rs \subseteq Offered(b)
          /\ Binds(b, x, rs, 0) /\ Moves(x, proto')
          /\ \/ proto' = x /\ rs = Offered(b) /\ ~HasConnection(b.transport)
             \/ proto'.flushing
             \/ ~CanAskTransactions(proto')

\* the ping with salt 0 goes out, or not
PingTurn ==
    \E b, x, sent :
       /\ Base(b, 1, {}) /\ Fit(b)
       /\ ~CanAskTransactions(b)
       /\ Binds(b, x, {}, 0) /\ Goes(x, proto')
       /\ \/ sent = {}
          \/ /\ HasConnection(b.transport)
             /\ sent = {Encrypted([b |-> b.batch, m |-> "timeFix"], b.transport)}
       /\ Become(proto', sent)

ReadyTurn ==
    /\ TheJob.op = "ready"
    /\ \/ Calm /\ TheJob.t # proto.transport
       \/ /\ TheJob.t = proto.transport /\ ~Stopped(proto) /\ ~Paused(proto)
          /\ \/ Calm /\ (CanAskTransactions(proto) => Offered(proto) = {})
             \/ SendTurn \/ RefusedTurn \/ PingTurn

\* every step of Proto's queue is one of these turns
Turn ==
    /\ proto.jobs # <<>> /\ TheJob.op = HeadOp
    /\ \/ HeadOp = "add" /\ AddTurn
       \/ HeadOp = "cancel" /\ CancelTurn
       \/ HeadOp = "connState" /\ ConnStateTurn
       \/ HeadOp = "removeService" /\ RemoveServiceTurn
       \/ HeadOp = "pause" /\ PauseTurn
       \/ HeadOp = "resume" /\ ResumeTurn
       \/ HeadOp = "stop" /\ StopTurn
       \/ HeadOp = "flush" /\ FlushTurn
       \/ HeadOp = "authInfo" /\ AuthInfoTurn
       \/ HeadOp = "txFailed" /\ TxFailedTurn
       \/ HeadOp = "incoming" /\ IncomingTurn
       \/ HeadOp = "messages" /\ MessageTurn
       \/ HeadOp = "ready" /\ ReadyTurn

-----------------------------------------------------------------------------
(* FInv is kept.                                                           *)

\* the queue after a turn: its head is gone (d = 1) or is the rest of a packet
\* (d = 0), and only flush jobs are new
QueueTurn(d) ==
    /\ d \in {0, 1} /\ IsQueue(proto'.jobs)
    /\ Len(proto'.jobs) + d >= Len(proto.jobs)
    /\ \A i \in 1..Len(proto'.jobs) :
          /\ i + d # 1 /\ i + d <= Len(proto.jobs) => proto'.jobs[i] = proto.jobs[i + d]
          /\ i + d > Len(proto.jobs) => proto'.jobs[i].op = "flush"
    /\ d = 0 => HeadOp \in {"incoming", "messages"} /\ proto'.jobs[1].op = "messages"

Onward == Fit(proto') /\ \E b, d, fs : Base(b, d, fs) /\ Good(b) /\ JobsGrow(b, proto')

\* what an rpc_result or its like does to the requests
Hit(p, body) == {r \in Bound(p) : p.registered /\ p.context[r].mid = body.mid}

Receives(p, body, q) ==
    /\ Fit(q) /\ Alike(p, q)
    /\ q.state = p.state /\ q.flushing = p.flushing /\ q.reported = p.reported
    /\ q.batch = p.batch /\ q.session = p.session
    /\ q.requests = p.requests \ Hit(p, body)
    /\ \A r \in Requests : q.context[r] = IF r \in Hit(p, body) THEN None ELSE p.context[r]
    /\ q.answered = [r \in Requests |->
                        IF r \in Hit(p, body) /\ body.k = "rpcResult" THEN p.answered[r] + 1
                        ELSE p.answered[r]]

-----------------------------------------------------------------------------
(* The steps beside Proto's queue.                                         *)

\* the jobs js are posted; but for them only the fields in fs may change
Adds(fs, js) ==
    /\ Fields \subseteq DOMAIN proto'
    /\ \A f \in Fields \ (fs \cup {"jobs"}) : proto'[f] = proto[f]
    /\ IsQueue(proto'.jobs) /\ IsQueue(js)
    /\ Len(proto'.jobs) = Len(proto.jobs) + Len(js)
    /\ \A i \in 1..Len(proto.jobs) : proto'.jobs[i] = proto.jobs[i]
    /\ \A i \in 1..Len(js) : proto'.jobs[Len(proto.jobs) + i] = js[i]

\* what is left to say of the jobs posted by one who is heard or not
Heard(t, js) == IF net[t].attached THEN js ELSE <<>>

ContextAdds ==
    /\ proto.ctxJobs # <<>>
    /\ Adds({"key", "ctxJobs"}, <<[op |-> "authInfo", info |-> Head(proto.ctxJobs)]>>)
    /\ proto'.key = Head(proto.ctxJobs) /\ proto'.ctxJobs = Tail(proto.ctxJobs)

AuthAdds ==
    /\ proto.infos = 0 /\ Adds({"infos", "ctxJobs"}, <<>>)
    /\ proto'.infos = 1 /\ proto'.ctxJobs = Append(proto.ctxJobs, 1)

\* what TcpTransport's queue posts to Proto's
TcpNews ==
    IF TcpTarget \notin DOMAIN net THEN <<>>
    ELSE CASE TcpOp = "update" -> Heard(TcpTarget, <<ConnState(net[TcpTarget].conn = "open")>>)
           [] TcpOp = "flush" /\ net[TcpTarget].conn \notin {"none", "backoff"} ->
                 Heard(TcpTarget, <<ReadyJob(TcpTarget)>>)
           [] TcpOp = "stop" /\ HasConnection(TcpTarget) -> Heard(TcpTarget, <<ConnState(FALSE)>>)
           [] OTHER -> <<>>

TcpAdds ==
    /\ proto.tcpJobs # <<>> /\ Adds({"tcpJobs"}, TcpNews)
    /\ proto'.tcpJobs =
          IF TcpOp = "needs" /\ TcpTarget \in DOMAIN net /\ ~net[TcpTarget].flushing
          THEN Append(Tail(proto.tcpJobs), [op |-> "flush", t |-> TcpTarget])
          ELSE Tail(proto.tcpJobs)

\* a packet arrives
Arrives(t, quality, msgs) ==
    /\ Reaches(t)
    /\ Adds({}, <<[op |-> "incoming", t |-> t, quality |-> quality, msgs |-> msgs]>>)
    /\ UNCHANGED <<net, lapsed, client>>

\* an answer
AnswerArrives ==
    \E t \in DOMAIN net, s \in wire : \E body \in OwedBodies(s.mid) :
       /\ s.on \in {0, t}
       /\ Arrives(t, "good", <<[id |-> served + 1, body |-> body]>>)
       /\ served' = served + 1 /\ wire' = wire \ {s}

\* a message nobody asked for, alone or with an answer behind it
MessageArrives ==
    \E t \in DOMAIN net, m \in UnaskedMessages :
       \/ /\ Arrives(t, "good", <<m>>)
          /\ served' = (IF m.id > served THEN m.id ELSE served)
          /\ wire' = wire \ Settles(m)
       \/ \E s \in wire \ Settles(m) : \E body \in OwedBodies(s.mid) :
             /\ s.mid.m \in Requests /\ s.on \in {0, t}
             /\ Arrives(t, "good", <<m, [id |-> served + 2, body |-> body]>>)
             /\ served' = served + 2 /\ wire' = wire \ (Settles(m) \cup {s})

NoiseArrives ==
    \E t \in DOMAIN net, quality \in Garbled :
       Arrives(t, quality, <<>>) /\ served' = served /\ wire' = wire

-----------------------------------------------------------------------------
(* FInv is kept by the steps beside Proto's queue.                         *)

\* the ops of the jobs of one post
Ops(js, ops) == \A i \in 1..Len(js) : js[i].op \in ops

\* the steps that are neither a call nor Context's
Outside == TcpStep \/ Network \/ Server \/ SaltsLapse \/ LockExpires \/ UNCHANGED vars

News == {"connState", "ready", "txFailed", "incoming"}

\* a call of the user is one job: an add for a request that is new, or no add
UserMakes ==
    \E r \in Requests :
       /\ client.stopping = "no" /\ r \notin client.issued
       /\ client' = [client EXCEPT !.issued = @ \cup {r}]
       /\ Adds({}, <<[op |-> "add", r |-> r]>>)

UserTells ==
    \E job :
       /\ job.op \in {"cancel", "pause", "resume", "removeService", "stop"}
       /\ job.op = "cancel" => job.r \in client.issued
       /\ client'.issued = client.issued \/ "issued" \notin DOMAIN client
       /\ DOMAIN client' = DOMAIN client
       /\ Adds({}, <<job>>)

UserAdds == UserMakes \/ UserTells

-----------------------------------------------------------------------------
(* The authorization key.                                                  *)

\* The last key update on its way through Proto's queue is the newest key, or
\* none is on its way and the newest key is in use, if any is.
KeySettles(p) ==
    \/ \E i \in 1..Len(p.jobs) :
          /\ p.jobs[i].op = "authInfo" /\ p.jobs[i].info = p.infos
          /\ \A j \in 1..Len(p.jobs) : j > i => p.jobs[j].op # "authInfo"
    \/ p.authInfo \in {0, p.infos} /\ \A j \in 1..Len(p.jobs) : p.jobs[j].op # "authInfo"

\* The newest key is the last that Context has yet to be told of, or Context
\* has it and it settles.
NewestIsLast(p) ==
    IF p.ctxJobs = <<>> THEN p.key = p.infos /\ KeySettles(p)
    ELSE p.ctxJobs[Len(p.ctxJobs)] = p.infos

KInv == FInv /\ NewestIsLast(proto)

\* a turn of Proto's queue makes a new key, the last for Context, or none
KeyTurn ==
    \/ proto'.ctxJobs # <<>> /\ proto'.ctxJobs[Len(proto'.ctxJobs)] = proto'.infos
    \/ /\ proto'.infos = proto.infos /\ proto'.key = proto.key /\ proto'.ctxJobs = proto.ctxJobs
       /\ proto'.authInfo = IF HeadOp = "authInfo" THEN TheJob.info ELSE proto.authInfo

\* from b on
KeyGoes(b, q) ==
    \/ q.ctxJobs # <<>> /\ q.ctxJobs[Len(q.ctxJobs)] = q.infos
    \/ q.infos = b.infos /\ q.key = b.key /\ q.ctxJobs = b.ctxJobs /\ q.authInfo = b.authInfo

-----------------------------------------------------------------------------
(* The contract with the caller.                                           *)

Awaits(p, r) == \E i \in 1..Len(p.jobs) : p.jobs[i] = [op |-> "add", r |-> r]

\* what is queued to be added has been made, is not held yet, and is queued once
AddsAreNew ==
    \A i \in 1..Len(proto.jobs) : proto.jobs[i].op = "add" =>
        /\ proto.jobs[i] = [op |-> "add", r |-> proto.jobs[i].r]
        /\ proto.jobs[i].r \in client.issued \ proto.requests
        /\ \A j \in 1..Len(proto.jobs) :
              proto.jobs[j].op = "add" /\ proto.jobs[j].r = proto.jobs[i].r => j = i

CInv ==
    /\ FInv /\ AddsAreNew
    /\ proto.registered \in BOOLEAN /\ "issued" \in DOMAIN client
    /\ proto.requests \subseteq client.issued /\ client.issued \subseteq Requests

Steady(p, q) ==
    /\ q.requests = p.requests /\ q.answered = p.answered /\ q.registered = p.registered

\* q is p when the requests in hit have left the list, answered or not
Returned(p, q, hit, ok) ==
    /\ hit \subseteq p.requests /\ \A r, s \in hit : r = s
    /\ hit # {} => p.registered
    /\ q.requests = p.requests \ hit /\ q.registered = p.registered
    /\ q.answered = [r \in Requests |-> IF r \in hit /\ ok THEN p.answered[r] + 1 ELSE p.answered[r]]

\* what a turn does to the calls
CallTurn ==
    \/ /\ HeadOp = "add" /\ TheJob.r \in Requests
       /\ proto'.requests = proto.requests \cup {TheJob.r}
       /\ proto'.answered = proto.answered /\ proto'.registered = proto.registered
    \/ /\ HeadOp = "cancel"
       /\ proto'.requests = proto.requests \ {TheJob.r}
       /\ proto'.answered = proto.answered /\ proto'.registered = proto.registered
    \/ /\ HeadOp = "removeService"
       /\ proto'.requests = proto.requests /\ proto'.answered = proto.answered
       /\ proto'.registered = FALSE
    \/ HeadOp = "messages" /\ \E hit, ok : Returned(proto, proto', hit, ok)
    \/ HeadOp # "add" /\ Steady(proto, proto')

\* where each call is, from what the model holds
Status(p, issued) ==
    [r \in Requests |->
        IF r \notin issued THEN "new"
        ELSE IF r \in p.requests THEN "held"
        ELSE IF Awaits(p, r) THEN "posted"
        ELSE "over"]

\* one step of the contract, over the model's record
CallStep ==
    LET s == Status(proto, client.issued)
        t == Status(proto', client'.issued)
    IN \/ /\ proto.registered /\ proto'.registered = FALSE
          /\ t = s /\ proto'.answered = proto.answered
       \/ /\ \E c \in Requests :
                \/ s[c] = "new" /\ t = [s EXCEPT ![c] = "posted"] /\ proto'.answered = proto.answered
                \/ s[c] = "posted" /\ t = [s EXCEPT ![c] = "held"] /\ proto'.answered = proto.answered
                \/ /\ s[c] = "held" /\ proto.registered /\ t = [s EXCEPT ![c] = "over"]
                   /\ proto'.answered = [proto.answered EXCEPT ![c] = @ + 1]
                \/ s[c] = "held" /\ t = [s EXCEPT ![c] = "over"] /\ proto'.answered = proto.answered
          /\ proto'.registered = proto.registered
       \/ /\ t = s /\ proto'.answered = proto.answered /\ proto'.registered = proto.registered

-----------------------------------------------------------------------------
(* What a turn does to the attempts: which are kept, and which are made.   *)

\* what the attempts that are kept rest on
SameGround(p, q) ==
    /\ q.session.first = p.session.first
    /\ q.session.containers = p.session.containers
    /\ q.transport = p.transport

\* No attempt is made, and none is kept on other ground; a service that is
\* gone does not come back.
Keeps(p, q) ==
    /\ q.batch = p.batch
    /\ q.session.first \in {p.session.first, p.batch}
    /\ q.session.containers \in {p.session.containers, {}}
    /\ q.session.processed \subseteq p.session.processed
    /\ Fades(p, q)
    /\ q.registered => p.registered
    /\ q.registered => \A r \in q.requests : q.context[r] # None => SameGround(p, q)

\* the service is removed before the Proto stops
Serving(p) == p.registered => ~Stopped(p)

\* In a turn the requests in rs are given ids, for the transaction tx, and sent
\* goes out; the other attempts are kept on the same ground or given up.
Attempts(rs, tx, sent) ==
    /\ rs \subseteq Offered(proto)
    /\ proto'.batch \in {proto.batch, proto.batch + 1}
    /\ rs # {} \/ sent # {} => proto'.batch = proto.batch + 1
    /\ proto'.session.first \in {proto.session.first, proto'.batch}
    /\ \/ proto'.session.containers \in {proto.session.containers, {}}
       \/ proto'.batch = proto.batch + 1 /\ proto'.session.containers \in OneMore(proto, rs)
    /\ proto'.registered => proto.registered
    /\ \A r \in Requests : proto'.context[r] # None =>
          IF r \in rs THEN proto'.context[r].mid = IdFor(proto, r) /\ proto'.context[r].tx = tx
          ELSE SameAttempt(proto.context[r], proto'.context[r])
    /\ proto'.registered => \A r \in proto'.requests : proto'.context[r] # None =>
          /\ proto'.session.first = proto.session.first
          /\ proto'.transport = proto.transport
          /\ proto.session.containers \subseteq proto'.session.containers
    /\ wire' = {s \in wire \cup sent : s.mid.b >= proto'.session.first}

\* what goes out: the ping of the time fix, or all that was offered
Sends(rs, tx, sent) ==
    IF tx = 0 THEN sent \subseteq {Encrypted([b |-> proto.batch, m |-> "timeFix"], proto.transport)}
    ELSE /\ tx = proto.transport /\ rs = Offered(proto)
         /\ proto'.session.first = proto.session.first
         /\ \E L \in SUBSET {[b |-> proto.batch, m |-> x] : x \in Labels} :
               sent = {Encrypted(id, tx) : id \in {IdFor(proto, r) : r \in rs} \cup L}

TurnAttempts == \E rs, tx, sent : Attempts(rs, tx, sent) /\ Sends(rs, tx, sent)

\* what m is, is noted, and the attempts it ends are over
Notes(m) == proto'.session.processed \subseteq proto.session.processed \cup {m.id}

Ends(p, body, mid) ==
    \/ body.k \in {"rpcResult", "rpcSilent"} /\ mid = body.mid
    \/ body.k \in {"badSalt", "badMsg"} /\ mid \in Rejected(p, body)

Hears(m) ==
    m.id \notin proto.session.processed /\ proto'.registered =>
        \A r \in proto'.requests :
           proto'.context[r] # None => ~Ends(proto, m.body, proto'.context[r].mid)

-----------------------------------------------------------------------------
(* The messages that have arrived and are not worked through: the j-th of  *)
(* the i-th job.                                                           *)

Carries(job) == job.op \in {"incoming", "messages"}

Spot(i, j) ==
    i \in 1..Len(proto.jobs) /\ Carries(proto.jobs[i]) /\ j \in 1..Len(proto.jobs[i].msgs)

Said(i, j) == proto.jobs[i].msgs[j]

\* a packet holds messages unless it cannot be read
PacketsFit ==
    \A i \in 1..Len(proto.jobs) : Carries(proto.jobs[i]) =>
        /\ IsQueue(proto.jobs[i].msgs)
        /\ Len(proto.jobs[i].msgs) = 0 <=>
              proto.jobs[i].op = "incoming" /\ proto.jobs[i].quality \in Garbled

\* what a turn makes of the packet or of the message at the head of the queue
Opened(d) ==
    IF d = 1
    THEN /\ HeadOp = "messages" => Len(TheJob.msgs) = 1
         /\ HeadOp = "incoming" =>
               TheJob.quality \in Garbled \/ TheJob.t # proto.transport \/ Stopped(proto)
    ELSE \/ /\ HeadOp = "incoming" /\ TheJob.quality \notin Garbled
            /\ proto'.jobs[1] = [op |-> "messages", msgs |-> TheJob.msgs]
         \/ /\ HeadOp = "messages" /\ Len(TheJob.msgs) # 1
            /\ proto'.jobs[1] = [op |-> "messages", msgs |-> Tail(TheJob.msgs)]

\* Spot (i, j) of the queue after a turn is spot (i + d, Col(d, i, j)) of the
\* queue before it; the message the turn has worked through has no place left.
Col(d, i, j) == IF i + d = 1 /\ HeadOp = "messages" THEN j + 1 ELSE j

Passes(d) ==
    /\ d \in {0, 1}
    /\ \A i, j : Spot(i, j)' =>
          /\ i \in Nat /\ j \in Nat
          /\ Spot(i + d, Col(d, i, j)) /\ Said(i, j)' = Said(i + d, Col(d, i, j))
          /\ ~(HeadOp = "messages" /\ i + d = 1 /\ Col(d, i, j) = 1)

\* no message is lost but the one worked through and those of a dropped packet
Stay(k, l) ==
    \E i, j : /\ Spot(i, j)' /\ Said(i, j)' = Said(k, l)
              /\ proto'.jobs[i].op = "incoming" =>
                    proto.jobs[k].op = "incoming" /\ proto'.jobs[i].t = proto.jobs[k].t

NoneIsLost ==
    \A k, l : Spot(k, l) =>
       \/ Stay(k, l)
       \/ k = 1 /\ l = 1 /\ HeadOp = "messages"
       \/ k = 1 /\ HeadOp = "incoming" /\ (TheJob.t # proto.transport \/ Stopped(proto))

-----------------------------------------------------------------------------
(* The attempts under way and the ids kept.                                *)

\* an id that has been given
Past(p, mid) == mid.b \in 0..(p.batch - 1)

ServedFits == served \in Nat /\ proto.session.processed \subseteq 0..served

\* A message that has arrived and says something of another one is new, is
\* there once, and speaks of an id that has been given.
MessagesFit ==
    \A i, j : Spot(i, j) =>
        /\ Said(i, j).id \in 0..served
        /\ Said(i, j).body.k # "update" =>
             /\ Past(proto, Said(i, j).body.mid)
             /\ Said(i, j).id \notin proto.session.processed
             /\ \A k, l : Spot(k, l) /\ Said(k, l).id = Said(i, j).id => k = i /\ l = j

WireFits == \A s \in wire : s.mid.b \in proto.session.first..(proto.batch - 1)

ContainersFit ==
    \A c \in proto.session.containers :
        c.id.m = "container" /\ Past(proto, c.id) /\ \A x \in c.children : Past(proto, x)

ContextsFit ==
    \A r \in Requests : proto.context[r] # None =>
        r \in proto.requests /\ Past(proto, proto.context[r].mid)

\* the transport in use reports to the Proto, and is not about to be stopped
InUse ==
    /\ \A i \in 1..Len(proto.tcpJobs) :
          proto.tcpJobs[i].op \in {"detach", "stop"} => proto.tcpJobs[i].t \in 1..proto.created
    /\ proto.transport # 0 =>
          /\ proto.transport \in DOMAIN net /\ net[proto.transport].attached
          /\ \A i \in 1..Len(proto.tcpJobs) :
                proto.tcpJobs[i].op \in {"detach", "stop"} => proto.tcpJobs[i].t # proto.transport

SessionIds ==
    proto.registered => \A r \in Bound(proto) : proto.context[r].mid.b >= proto.session.first

\* nothing that is out or has arrived is about mid
Unused(mid) ==
    /\ \A s \in wire : mid \notin WithChildren(s.mid)
    /\ \A i, j : Spot(i, j) /\ Said(i, j).body.k # "update" =>
          mid \notin WithChildren(Said(i, j).body.mid)

KeptUnused ==
    proto.registered => \A r \in Bound(proto) :
        proto.context[r].tx = 0 /\ ~proto.context[r].delivered => Unused(proto.context[r].mid)

\* a message that ends the attempt mid has arrived, and will be heard
Told(mid) ==
    \E i, j : /\ Spot(i, j) /\ Ends(proto, Said(i, j).body, mid)
              /\ proto.jobs[i].op = "incoming" => proto.jobs[i].t = proto.transport

FailureTold(t) == \E i \in 1..Len(proto.jobs) : proto.jobs[i] = [op |-> "txFailed", t |-> t]

\* what a request waits for is on its way
Waits(c) ==
    \/ \E s \in wire : s.mid = c.mid /\ s.on \in {0, c.tx}
    \/ Told(c.mid)
    \/ FailureTold(c.tx)

InHand ==
    proto.registered => \A r \in Bound(proto) :
        proto.context[r].tx # 0 => proto.context[r].tx = proto.transport /\ Waits(proto.context[r])

\* a transport knows whether it has a delegate
NetFits == \A t \in DOMAIN net : DOMAIN net[t] = DOMAIN NewTransport

SInv ==
    /\ FInv /\ ServedFits /\ PacketsFit /\ MessagesFit /\ WireFits /\ ContainersFit /\ ContextsFit
    /\ NetFits /\ InUse /\ SessionIds /\ KeptUnused /\ InHand

-----------------------------------------------------------------------------
(* A turn keeps them.                                                      *)

\* c is an attempt that is under way and goes on
Lasts(r, c) ==
    /\ r \in Requests /\ r \in proto'.requests /\ proto'.registered
    /\ proto'.context[r] # None /\ proto'.context[r].mid = c.mid /\ proto'.context[r].tx = c.tx
    /\ c.tx # 0 /\ c.tx = proto.transport /\ proto'.transport = proto.transport
    /\ r \in Bound(proto) /\ proto.registered /\ ~Stopped(proto)

-----------------------------------------------------------------------------
(* The transport in use.                                                   *)

\* what is about to be stopped has been made
Limited(s, n) ==
    \A i \in 1..Len(s) : s[i].op \in {"detach", "stop"} => s[i].t \in 1..n

\* InUse in the middle of a turn, when a transport made in it is not there yet
UseOf(p) ==
    /\ p.created >= proto.created
    /\ Limited(p.tcpJobs, p.created)
    /\ p.transport # 0 =>
          /\ p.transport \in DOMAIN net \cup (proto.created + 1)..p.created
          /\ p.transport \in DOMAIN net => net[p.transport].attached
          /\ \A i \in 1..Len(p.tcpJobs) :
                p.tcpJobs[i].op \in {"detach", "stop"} => p.tcpJobs[i].t # p.transport

-----------------------------------------------------------------------------
(* The steps beside Proto's queue keep them.                               *)

\* the fields of the Proto that the other threads write, beside its queue
Others == {"tcpJobs", "ctxJobs", "key", "infos", "lock"}

\* what is out on the transport in use, or has arrived, stays so, or the
\* failure is told
StillOut ==
    proto.transport # 0 =>
        \/ FailureTold(proto.transport)'
        \/ \A s \in wire : s.on \in {0, proto.transport} =>
              \E x \in wire' : x.mid = s.mid /\ x.on \in {0, proto.transport}

-----------------------------------------------------------------------------
(* A packet keeps them.                                                    *)

\* What msgs may be: its messages are new, or updates the client has had
\* before; they speak of what is out, and end what is taken off the wire.
Suits(msgs, quality, gone) ==
    /\ IsQueue(msgs) /\ (Len(msgs) = 0 <=> quality \in Garbled)
    /\ served' \in Nat /\ served' >= served /\ wire' = wire \ gone
    /\ \A j \in 1..Len(msgs) :
          /\ \/ msgs[j].id \in (served + 1)..served'
             \/ msgs[j].body.k = "update" /\ msgs[j].id \in proto.session.processed
          /\ msgs[j].body.k # "update" => \E s \in wire : s.mid = msgs[j].body.mid
          /\ \A k \in 1..Len(msgs) : msgs[k].id = msgs[j].id => k = j
    /\ \A s \in gone : s.mid.m \in Requests =>
          \E j \in 1..Len(msgs) : Ends(proto, msgs[j].body, s.mid)

-----------------------------------------------------------------------------
(* The report of the connection.                                           *)

StopOf(t) == [op |-> "stop", t |-> t]

UpdateOf(t) == [op |-> "update", t |-> t]

\* the last report of the connection, made or queued, says that it is up
SaysUp(p) ==
    \/ \E i \in 1..Len(p.jobs) :
          /\ p.jobs[i].op = "connState" /\ p.jobs[i].up
          /\ \A j \in 1..Len(p.jobs) : j > i => p.jobs[j].op # "connState"
    \/ p.reported = "connected" /\ \A j \in 1..Len(p.jobs) : p.jobs[j].op # "connState"

\* all transports but the one in use are about to be stopped
OthersEnd ==
    \A t \in DOMAIN net : t # proto.transport =>
        \E i \in 1..Len(proto.tcpJobs) : proto.tcpJobs[i] = StopOf(t)

\* the newest transport is heard as long as it is there
NewestIsHeard ==
    /\ \A i \in 1..Len(proto.tcpJobs) :
          proto.tcpJobs[i].op = "detach" => proto.tcpJobs[i].t # proto.created
    /\ proto.created \in DOMAIN net => net[proto.created].attached

\* it is going to be asked for its state, when all others have been stopped, ...
IsAsked ==
    \E i \in 1..Len(proto.tcpJobs) :
        /\ proto.tcpJobs[i] = UpdateOf(proto.created) /\ proto.created \in DOMAIN net
        /\ \A j \in 1..(i - 1) : proto.tcpJobs[j].op = "stop" => proto.tcpJobs[j].t # proto.created
        /\ \A t \in DOMAIN net \ {proto.created} :
              \E j \in 1..(i - 1) : proto.tcpJobs[j] = StopOf(t)

IsOpen == proto.created \in DOMAIN net /\ net[proto.created].conn = "open"

\* ... or it is alone and its state is what was last said
IsAlone ==
    /\ DOMAIN net \subseteq {proto.created}
    /\ SaysUp(proto) => IsOpen
    /\ proto.transport # 0 /\ IsOpen => SaysUp(proto)

ReportFollows == OthersEnd /\ NewestIsHeard /\ (IsAsked \/ IsAlone)

RInv == SInv /\ (~Stopped(proto) => ReportFollows)

\* p is where a turn begins, as far as the transports and their report go
Level(p, said) ==
    /\ p.transport = proto.transport /\ p.created = proto.created
    /\ p.tcpJobs = proto.tcpJobs /\ p.reported = said

\* what a turn does to them
Reports(q, said) ==
    /\ Extended(proto.tcpJobs, q.tcpJobs)
    /\ \/ /\ q.created = proto.created
          /\ \A i \in (Len(proto.tcpJobs) + 1)..Len(q.tcpJobs) : q.tcpJobs[i].op # "detach"
          /\ \/ q.transport = proto.transport /\ q.reported = said
             \/ /\ q.transport = 0 /\ q.reported = "connecting"
                /\ proto.transport # 0 =>
                      \E i \in 1..Len(q.tcpJobs) : q.tcpJobs[i] = StopOf(proto.transport)
       \/ Succeeds(proto, q)

\* what the report says when its next notice has been passed on
ReportMade ==
    IF HeadOp # "connState" THEN proto.reported
    ELSE IF TheJob.up THEN "connected" ELSE "connecting"

\* nothing new is said of the connection
Silent(js) == \A i \in 1..Len(js) : js[i].op # "connState"

-----------------------------------------------------------------------------
(* The requests that wait to be offered.                                   *)

\* p has requests to offer and may ask for a transaction
Eager(p) ==
    ~Stopped(p) /\ ~Paused(p) /\ CanAskTransactions(p) /\ Offered(p) # {}

\* Proto is going to hear that t is ready
Readied(t) == \E i \in 1..Len(proto.jobs) : proto.jobs[i].op = "ready" /\ proto.jobs[i].t = t

Tasked(t, ops) ==
    \E i \in 1..Len(proto.tcpJobs) : proto.tcpJobs[i].op \in ops /\ proto.tcpJobs[i].t = t

\* t has asked Proto for a transaction, or will: a job of its queue sees to it,
\* or the end of its connecting; or nothing does, since connectionIsValid has
\* come after a second failure
Wanted(t) ==
    \/ Tasked(t, {"needs", "flush"}) \/ Readied(t)
    \/ t \in DOMAIN net /\ net[t].conn # "open" /\ (net[t].conn = "none" => spent["close"] > 1)

Followed ==
    Eager(proto) => proto.flushing \/ (proto.transport # 0 /\ Wanted(proto.transport))

\* a connection that is gone has been closed, and what t says of its queue is so
Accounted(t) ==
    /\ net[t].conn \in {"none", "starting", "open", "backoff"}
    /\ net[t].flushing => Tasked(t, {"flush"})
    /\ net[t].again => spent["close"] > 0
    /\ net[t].conn = "backoff" => spent["close"] > 1
    /\ net[t].conn = "none" /\ Readied(t) => spent["close"] > 1

NetSpent == \A t \in DOMAIN net : Accounted(t)

GInv ==
    /\ SInv /\ spent \in [Events -> Nat]
    /\ ~Stopped(proto) => Followed /\ NetSpent

\* what a turn makes of it
Wakes ==
    \/ proto'.flushing \/ ~Eager(proto')
    \/ proto'.transport # 0 /\ Tasked(proto.transport, {"needs"})'
    \/ /\ proto'.transport = proto.transport
       /\ IF HeadOp = "ready" /\ TheJob.t = proto.transport THEN ~HasConnection(proto.transport)
          ELSE Eager(proto) /\ ~proto.flushing
=============================================================================
