------------------------------ MODULE ProtoSystem ------------------------------
(***************************************************************************)
(* Proto together with what runs beside it: the user's threads, Context's  *)
(* queue, TcpTransport's queue with its connections, and the server.       *)
(***************************************************************************)
EXTENDS Proto

Posted(job) == [proto EXCEPT !.jobs = Append(@, job)]

Post(job) ==
    /\ proto' = Posted(job)
    /\ UNCHANGED <<net, wire, lapsed, served>>

-----------------------------------------------------------------------------
(* The user: ClientSync's calls post one job each.                         *)

Send(r) ==
    /\ client.stopping = "no" /\ r \notin client.issued
    /\ client' = [client EXCEPT !.issued = @ \cup {r}]
    /\ Post([op |-> "add", r |-> r]) /\ UNCHANGED spent

Cancel(r) ==
    /\ r \in client.issued \ client.cancelled
    /\ client' = [client EXCEPT !.cancelled = @ \cup {r}]
    /\ Post([op |-> "cancel", r |-> r]) /\ Spend("cancel")

Pause ==
    /\ client.stopping = "no"
    /\ Post([op |-> "pause"]) /\ Spend("pause") /\ UNCHANGED client

\* (a resume without a pause does nothing)
Resume ==
    /\ client.stopping = "no"
    /\ Paused(proto) /\ \A i \in DOMAIN proto.jobs : proto.jobs[i].op # "resume"
    /\ Post([op |-> "resume"]) /\ UNCHANGED <<client, spent>>

\* ClientSync::stop removes the request service, then stops the Proto
Stop ==
    /\ \/ /\ Stopping /\ client.stopping = "no"
          /\ Post([op |-> "removeService"])
          /\ client' = [client EXCEPT !.stopping = "removed"]
       \/ /\ client.stopping = "removed"
          /\ Post([op |-> "stop"])
          /\ client' = [client EXCEPT !.stopping = "done"]
    /\ UNCHANGED spent

-----------------------------------------------------------------------------
(* Context::queue.                                                         *)

\* updateAuthKeyInfoForDatacenterId: the key is stored, listeners are told
ContextStep ==
    /\ proto.ctxJobs # <<>>
    /\ proto' = [Posted([op |-> "authInfo", info |-> Head(proto.ctxJobs)]) EXCEPT
                    !.key = Head(proto.ctxJobs), !.ctxJobs = Tail(@)]
    /\ UNCHANGED <<net, wire, lapsed, client, served, spent>>

\* DatacenterAuthAction, asked for in the constructor, has made the key
AuthCompleted ==
    /\ proto.infos = 0
    /\ proto' = [proto EXCEPT !.infos = 1, !.ctxJobs = Append(@, 1)]
    /\ UNCHANGED <<net, wire, lapsed, client, served, spent>>

-----------------------------------------------------------------------------
(* TcpTransport::queue.                                                    *)

TcpOp == IF proto.tcpJobs = <<>> THEN "idle" ELSE Head(proto.tcpJobs).op
TcpTarget == Head(proto.tcpJobs).t
TcpDequeued == [proto EXCEPT !.tcpJobs = Tail(@)]

\* what t tells its delegate arrives as jobs of Proto::queue
Tell(p, t, jobs) == IF net[t].attached THEN [p EXCEPT !.jobs = @ \o jobs] ELSE p

ConnState(up) == [op |-> "connState", up |-> up]
ReadyJob(t) == [op |-> "ready", t |-> t, ping |-> ~net[t].pinged]

\* The connection of t is gone: what was on it is lost, or had arrived.
Severed(t) ==
    \/ wire' = {s \in wire : s.on # t}
    \/ /\ \E s \in wire : s.on = t
       /\ wire' = {IF s.on = t THEN [s EXCEPT !.on = 0] ELSE s : s \in wire}

\* A transport that has been stopped is held by nobody but the jobs left in the
\* queue.  A flush behind the stop has it connect again (Connection follows
\* that), but Proto has detached it, and one stopped by pause is taken to end
\* with the last of its jobs, before the connection opens.
TcpSkip ==
    /\ TcpOp # "idle" /\ TcpTarget \notin DOMAIN net
    /\ proto' = TcpDequeued
    /\ UNCHANGED <<net, wire, lapsed, client, served, spent>>

TcpUpdate ==
    /\ TcpOp = "update" /\ TcpTarget \in DOMAIN net
    /\ proto' = Tell(TcpDequeued, TcpTarget, <<ConnState(net[TcpTarget].conn = "open")>>)
    /\ UNCHANGED <<net, wire, lapsed, client, served, spent>>

\* setDelegateNeedsTransaction: one pass of the queue later, once
TcpNeeds ==
    /\ TcpOp = "needs" /\ TcpTarget \in DOMAIN net
    /\ proto' = IF net[TcpTarget].flushing THEN TcpDequeued
                ELSE PostTcp(TcpDequeued, "flush", TcpTarget)
    /\ net' = [net EXCEPT ![TcpTarget].flushing = TRUE]
    /\ UNCHANGED <<wire, lapsed, client, served, spent>>

\* tcpConnectionRequestReconnection and startIfNeeded
Starting(t) == [net[t] EXCEPT !.conn = "starting"]

\* without a connection one is requested, else Proto is asked for messages
TcpFlush ==
    /\ TcpOp = "flush" /\ TcpTarget \in DOMAIN net
    /\ LET t == TcpTarget
       IN IF net[t].conn \in {"none", "backoff"}
          THEN /\ proto' = TcpDequeued
               /\ net' = [net EXCEPT ![t] = [Starting(t) EXCEPT !.flushing = FALSE]]
          ELSE /\ proto' = Tell(TcpDequeued, t, <<ReadyJob(t)>>)
               /\ net' = [net EXCEPT ![t].flushing = FALSE,
                                     ![t].pinged = @ \/ net[t].attached]
    /\ UNCHANGED <<wire, lapsed, client, served, spent>>

\* connectionIsValid: the count of failures starts again and the timer is
\* invalidated, though it may be the one that is to reconnect
TcpValid ==
    /\ TcpOp = "valid" /\ TcpTarget \in DOMAIN net
    /\ proto' = TcpDequeued
    /\ net' = [net EXCEPT ![TcpTarget].again = FALSE,
                          ![TcpTarget].conn = IF @ = "backoff" THEN "none" ELSE @]
    /\ UNCHANGED <<wire, lapsed, client, served, spent>>

TcpDetach ==
    /\ TcpOp = "detach" /\ TcpTarget \in DOMAIN net
    /\ proto' = TcpDequeued
    /\ net' = [net EXCEPT ![TcpTarget].attached = FALSE]
    /\ UNCHANGED <<wire, lapsed, client, served, spent>>

TcpStop ==
    /\ TcpOp = "stop" /\ TcpTarget \in DOMAIN net
    /\ LET t == TcpTarget
       IN /\ proto' = IF HasConnection(t) THEN Tell(TcpDequeued, t, <<ConnState(FALSE)>>)
                      ELSE TcpDequeued
          /\ net' = [u \in DOMAIN net \ {t} |-> net[u]]
          /\ Severed(t)
    /\ UNCHANGED <<lapsed, client, served, spent>>

TcpStep == TcpSkip \/ TcpUpdate \/ TcpNeeds \/ TcpFlush \/ TcpValid \/ TcpDetach \/ TcpStop

\* connectionOpened: the first transaction of a connection carries a ping
ConnectionOpened(t) ==
    /\ net[t].conn = "starting"
    /\ proto' = Tell(proto, t, <<ConnState(TRUE), [op |-> "ready", t |-> t, ping |-> TRUE]>>)
    /\ net' = [net EXCEPT ![t].conn = "open", ![t].pinged = net[t].attached]
    /\ UNCHANGED <<wire, lapsed, client, served, spent>>

\* TcpTransportContext::connectionClosed: the first failure reconnects at once,
\* the later ones wait for a timer
Reconnecting(t) ==
    [net[t] EXCEPT !.conn = IF net[t].again THEN "backoff" ELSE "starting",
                   !.again = TRUE]

\* (slip: the connection's state is not reported)
ConnectionClosedSilent(t) ==
    /\ HasConnection(t)
    /\ proto' = Tell(proto, t, <<[op |-> "txFailed", t |-> t]>>)
    /\ net' = [net EXCEPT ![t] = [Reconnecting(t) EXCEPT !.pinged = FALSE]]
    /\ Severed(t)
    /\ Spend("close")
    /\ UNCHANGED <<lapsed, client, served>>

\* connectionClosed, whether it ever opened or not
ConnectionClosed(t) ==
    /\ HasConnection(t)
    /\ proto' = Tell(proto, t, <<ConnState(FALSE), [op |-> "txFailed", t |-> t]>>)
    /\ net' = [net EXCEPT ![t] = [Reconnecting(t) EXCEPT !.pinged = FALSE]]
    /\ Severed(t)
    /\ Spend("close")
    /\ UNCHANGED <<lapsed, client, served>>

BackoffTimer(t) ==
    /\ net[t].conn = "backoff"
    /\ net' = [net EXCEPT ![t] = Starting(t)]
    /\ UNCHANGED <<proto, wire, lapsed, client, served, spent>>

-----------------------------------------------------------------------------
(* The server.                                                             *)

Packet(t, quality, msgs) == [op |-> "incoming", t |-> t, quality |-> quality, msgs |-> msgs]

\* the server can reach the transport in use, and has a key to do it with
Reaches(t) ==
    /\ t = proto.transport /\ t \in DOMAIN net /\ net[t].conn = "open" /\ net[t].attached
    /\ proto.authInfo # 0

\* what the server owes for a message; the ping with salt 0 it may also reject
\* for its id or its sequence number
OwedBodies(mid) ==
    CASE mid.m \in Requests      -> {[k |-> "rpcResult", mid |-> mid]}
      [] mid.m = "futureSalts"   -> {[k |-> "futureSalts", mid |-> mid, slow |-> slow] : slow \in BOOLEAN}
      [] mid.m = "timeFix"       -> {[k |-> "badSalt", mid |-> mid]}
                                    \cup {[k |-> "badMsg", mid |-> mid, code |-> c] : c \in Codes}
      [] OTHER                   -> {}

\* A message that has reached the server is answered, on its own connection
\* or, when that is gone, on a later one.
Answer(mid) ==
    \E t \in DOMAIN net, s \in wire : 
        /\ s.mid = mid /\ s.on \in {0, t} /\ Reaches(t)
        /\ \E body \in OwedBodies(mid) :
              proto' = Posted(Packet(t, "good", <<[id |-> served + 1, body |-> body]>>))
        /\ served' = served + 1
        /\ wire' = wire \ {s}
        /\ UNCHANGED <<net, lapsed, client, spent>>

\* Messages nobody asked for: notifications about a message in flight, new
\* content, and a message the client has had before.
UnaskedMessages ==
    LET Fresh(body) == [id |-> served + 1, body |-> body]
        about == {s.mid : s \in wire}
    IN {m \in
         {Fresh([k |-> "update"])}
         \cup {Fresh([k |-> k, mid |-> mid]) : k \in {"acks", "badSalt"}, mid \in about}
         \cup {Fresh([k |-> "rpcSilent", mid |-> mid]) : mid \in {x \in about : x.m \in Requests}}
         \cup {Fresh([k |-> "badMsg", mid |-> mid, code |-> c]) : mid \in about, c \in Codes}
         \cup {[id |-> id, body |-> [k |-> "update"]] : id \in proto.session.processed}
       : IF m.id <= served THEN "duplicate" \in Unasked ELSE m.body.k \in Unasked}

\* mid and, when it is a container, the messages in it
WithChildren(mid) ==
    {mid} \cup UNION {c.children : c \in {d \in proto.session.containers : d.id = mid}}

\* the messages that m rejects or answers
Settles(m) ==
    IF m.body.k \notin {"badSalt", "badMsg", "rpcSilent"} THEN {}
    ELSE {s \in wire : s.mid \in WithChildren(m.body.mid)}

\* one such message, alone or with an answer behind it in the same packet
ServerSends(t) ==
    /\ Reaches(t)
    /\ \E m \in UnaskedMessages :
          \/ /\ proto' = Posted(Packet(t, "good", <<m>>))
             /\ served' = IF m.id > served THEN m.id ELSE served
             /\ wire' = wire \ Settles(m)
          \/ \E s \in wire \ Settles(m) : \E body \in OwedBodies(s.mid) :
                /\ s.mid.m \in Requests /\ s.on \in {0, t}
                /\ proto' = Posted(Packet(t, "good", <<m, [id |-> served + 2, body |-> body]>>))
                /\ served' = served + 2
                /\ wire' = wire \ (Settles(m) \cup {s})
    /\ Spend("packet")
    /\ UNCHANGED <<net, lapsed, client>>

\* a packet that cannot be decrypted, whose session or contents are wrong, or
\* that ends early
ServerGarbles(t) ==
    /\ Reaches(t)
    /\ \E quality \in Unasked \cap {"undecryptable", "unparsable", "truncated"} :
          proto' = Posted(Packet(t, quality, <<>>))
    /\ Spend("packet")
    /\ UNCHANGED <<net, wire, lapsed, client, served>>

-----------------------------------------------------------------------------
(* Time.                                                                   *)

\* the last salt of the AuthKeyInfo in use runs out
SaltsLapse ==
    /\ proto.authInfo \notin lapsed \cup {0}
    /\ lapsed' = lapsed \cup {proto.authInfo}
    /\ Spend("lapse")
    /\ UNCHANGED <<proto, net, wire, client, served>>

LockExpires ==
    /\ proto.lock = "held"
    /\ proto' = [proto EXCEPT !.lock = "expired"]
    /\ Spend("expiry")
    /\ UNCHANGED <<net, wire, lapsed, client, served>>

-----------------------------------------------------------------------------
Network == \E t \in DOMAIN net : ConnectionOpened(t) \/ ConnectionClosed(t) \/ BackoffTimer(t)

Server ==
    \/ \E s \in wire : Answer(s.mid)
    \/ \E t \in DOMAIN net : ServerSends(t) \/ ServerGarbles(t)

User == (\E r \in Requests : Send(r) \/ Cancel(r)) \/ Pause \/ Resume \/ Stop

Next ==
    \/ ProtoStep \/ ReadyViolated
    \/ TcpStep \/ ContextStep \/ AuthCompleted
    \/ Network \/ Server \/ User
    \/ SaltsLapse \/ LockExpires

Spec == Init /\ [][Next]_vars

\* WF_vars(ProtoStep): the step is enabled exactly when a job is queued that
\* does not end the process.
ProtoQueueRuns == []<>(proto.jobs = <<>> \/ NullKey) \/ []<><<ProtoStep>>_vars

\* The threads run, the network connects in the end, the server answers what
\* has reached it.  Nothing is assumed of the user or of what goes wrong.
FairSpec ==
    /\ Spec
    /\ ProtoQueueRuns /\ WF_vars(TcpStep) /\ WF_vars(ContextStep) /\ WF_vars(AuthCompleted)
    /\ WF_vars(\E t \in DOMAIN net : ConnectionOpened(t) \/ BackoffTimer(t))
    /\ WF_vars(\E s \in wire : Answer(s.mid))
-----------------------------------------------------------------------------
(* Properties.                                                             *)

\* every queue has run dry
Settled == proto.jobs = <<>> /\ proto.tcpJobs = <<>> /\ proto.ctxJobs = <<>>

Working == ~Stopped(proto) /\ ~Paused(proto)

\* the connection of the transport in use
Connection == IF proto.transport \in DOMAIN net THEN net[proto.transport].conn ELSE "none"

\* something said about mid is in a packet that has not been worked through
Reported(mid) ==
    \E i \in DOMAIN proto.jobs :
        /\ proto.jobs[i].op \in {"incoming", "messages"}
        /\ \E j \in DOMAIN proto.jobs[i].msgs :
              LET body == proto.jobs[i].msgs[j].body IN body.k # "update" /\ mid \in WithChildren(body.mid)

\* mid is with the network or the server
InFlight(mid) == \E s \in wire : s.mid = mid

Queued(job) == \E i \in DOMAIN proto.jobs : proto.jobs[i] = job

\* Every variable keeps to its type; the queues hold known jobs only.
TypeOK ==
    /\ proto \in ProtoRecord
    /\ DOMAIN net \subseteq 1..proto.created
    /\ \A t \in DOMAIN net : net[t] \in Transport
    /\ wire \subseteq [mid : MessageId, on : Nat]
    /\ lapsed \subseteq 1..proto.infos
    /\ client \in [issued : SUBSET Requests, cancelled : SUBSET Requests,
                   stopping : {"no", "removed", "done"}]
    /\ served \in Nat
    /\ spent \in [Events -> Nat]

\* A request believed to be in transmission (RequestContext::transactionId)
\* is on the transport in use, and either its message is still with the
\* network or the server, or word of it is in the queue, or the queue holds
\* the notice that its transmission failed: no close, reset or rejection
\* leaves a request waiting for an answer that cannot come.
NoRequestStranded ==
    proto.registered /\ ~Stopped(proto) =>
        \A r \in Bound(proto) :
            LET c == proto.context[r]
            IN c.tx # 0 =>
                 /\ c.tx = proto.transport
                 /\ InFlight(c.mid) \/ Reported(c.mid) \/ Queued([op |-> "txFailed", t |-> c.tx])

\* When every queue has run dry and the connection is up, no request is left
\* to be offered: each event that makes a request sendable has also asked for
\* a transaction (willRequestTransactionOnNextQueuePass loses none), unless
\* the time is being fixed first.  The exception is a connection that is gone
\* for the second time, at least, when connectionIsValid has since invalidated
\* the timer that was to reconnect.
NoRequestIgnored ==
    Settled /\ Working /\ CanAskTransactions(proto) =>
        \A r \in Offered(proto) :
            \/ Connection \in {"starting", "backoff"}
            \/ proto.transport # 0 /\ Connection = "none" /\ spent["close"] > 1

\* A request that keeps the id of an attempt that was not sent is offered
\* again under that id only while no message with the id is out, and every
\* id remembered belongs to the session that is in use.
KeptIdsAreUnused ==
    proto.registered =>
        \A r \in Bound(proto) :
            /\ proto.context[r].mid.b >= proto.session.first
            /\ r \in Offered(proto) => ~InFlight(proto.context[r].mid) /\ ~Reported(proto.context[r].mid)

\* When every queue has run dry the delegate has been told "connected" exactly
\* if the connection of the transport in use is open, whatever transports came
\* and went and in whatever order their notices arrived.
ConnectionReportSettles ==
    Settled /\ ~Stopped(proto) => (proto.reported = "connected" <=> Connection = "open")

\* transportReadyForTransaction dereferences authInfo: when the transport in
\* use is ready, the key that Context had when it was made has arrived.  The
\* exception is a key announced between the constructor's question and the
\* Proto's becoming a listener: Context has it, and the Proto is never told.
ReadyHasKey == NullKey => proto.missed

\* timeSyncInfoChanged sets authInfo before Context's copy comes round through
\* two queues: when they have run dry both hold the newest salts, unless the
\* key itself was announced before the Proto was a listener.
AuthInfoSettles ==
    Settled /\ proto.infos # 0 /\ ~proto.missed =>
        proto.authInfo = proto.infos /\ proto.key = proto.infos

\* stop is for good: afterwards there is no transport, nothing goes out and
\* no callback is made.
StoppedIsFinal ==
    [][Stopped(proto) =>
         /\ Stopped(proto') /\ proto'.transport = 0
         /\ {s.mid : s \in wire'} \subseteq {s.mid : s \in wire}
         /\ proto'.answered = proto.answered]_vars

\* While Proto is paused nothing goes out, not even on a transport that comes
\* into being meanwhile because the authorization key has arrived.
PausedSendsNothing ==
    [][Paused(proto) /\ Paused(proto') =>
         {s.mid : s \in wire'} \subseteq {s.mid : s \in wire}]_vars

\* The ping with salt 0 is sent "to receive bad messageNotification": once it
\* is out (timeFixContext is set) the notification is received in the end, and
\* timeFixContext cleared, so that another ping can be sent when it is needed.
PingIsAnswered == proto.timeFix # None ~> proto.timeFix = None

\* the message mid is believed to be out, but nothing can be heard of it
Gone(mid) == mid # None /\ ~InFlight(mid) /\ ~Reported(mid)

\* The time is asked for in vain: the ping with salt 0 was lost with its
\* connection or rejected for something else than its salt, and only
\* bad_server_salt clears timeFixContext; or the request for salts that
\* TimeSyncMessageService waits for was never sent or is lost, and the time is
\* not asked for beside it.
TimeIsLost ==
    /\ "timeFixAndSalts" \in proto.state
    /\ IF proto.timeFix # None THEN Gone(proto.timeFix)
       ELSE proto.timeSync.present /\ Gone(proto.timeSync.mid)

\* no connection and no timer to make one, as connectionIsValid has
\* invalidated it
NoConnection == proto.transport # 0 /\ Connection = "none" /\ spent["close"] > 1

\* Time and salts are got in the end and messages can be sent again: the ping
\* with salt 0, the notification it provokes and the session that is begun for
\* it lead out of ProtoStateAwaitingTimeFixAndSalts, unless what was asked is
\* lost for good or there is no way to ask.
TimeIsFixed ==
    []<>("timeFixAndSalts" \notin proto.state) \/ <>[](TimeIsLost \/ NoConnection)

-----------------------------------------------------------------------------
(* The contract.                                                           *)

CallStatus ==
    [r \in Requests |->
        IF r \notin client.issued THEN "new"
        ELSE IF r \in proto.requests THEN "held"
        ELSE IF Queued([op |-> "add", r |-> r]) THEN "posted"
        ELSE "over"]

Contract == INSTANCE CallContract WITH
                Calls <- Requests, status <- CallStatus, answers <- proto.answered,
                closed <- ~proto.registered

\* Whatever the connections, sessions and salts do, the caller sees what
\* CallContract promises.
ImplementsCallContract == Contract!Spec

\* the client has fallen silent
FallsSilent == TimeIsLost \/ NoConnection \/ NullKey

\* ... and every call is over in the end, unless the client falls silent for
\* ever: the time it waits for is lost, there is no connection and no timer to
\* make one, or the process has ended for want of a key.
ImplementsFairCallContract == Contract!Spec /\ (Contract!Fairness \/ <>[]FallsSilent)
=============================================================================
