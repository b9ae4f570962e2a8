---------------------------- MODULE TransportPings ----------------------------
(***************************************************************************)
(* The pings of gp/network/TcpTransport: the one it sends to see that the  *)
(* connection is alive, again and again, and the pongs it owes the server. *)
(* It keeps both in the TcpTransportContext on its own queue; the          *)
(* transaction that carries them is asked for on that queue, made up and   *)
(* completed on Proto's, and what the completion writes there the other    *)
(* thread reads and writes without a lock.                                 *)
(***************************************************************************)
EXTENDS Integers, Sequences

CONSTANTS MaxPings,      \* pings of the server
          MaxCloses,     \* connections that close
          MaxRefusals,   \* transactions Proto is asked for when it can send nothing
          MaxRejects,    \* bad_msg_notifications
          MaxAsks,       \* calls of setDelegateNeedsTransaction
          MaxFaults      \* of all these but the pings, and changes of the session

ASSUME BoundsAssumption ==
    {MaxPings, MaxCloses, MaxRefusals, MaxRejects, MaxAsks, MaxFaults} \subseteq Nat

VARIABLES
    context,    \* the TcpTransportContext, and whether there is a delegate
    net,        \* how its connection is
    recording,  \* the server's ping TcpTransport's thread is writing down
    clearing,   \* Proto's thread is clearing it
    tcp,        \* TcpTransport's queue
    proto,      \* Proto's queue
    attached,   \* this transport is Proto's
    spent,      \* how many of the bounded events there have been
    arrived,    \* (history) the last ping written down on this connection
    answered,   \* (history) the pings whose pong has been sent
    overtaken,  \* (history) those that came before an older one's pong was sent
    spoilt,     \* (history) a ping was not sent, or rejected, on this connection
    beat        \* (history) flips with each ping that is sent

threads == <<recording, clearing>>
history == <<arrived, answered, overtaken, spoilt, beat>>
vars == <<context, net, threads, tcp, proto, attached, spent, history>>

ServerPings == 1..MaxPings
Limit == [ping |-> MaxPings, close |-> MaxCloses, refusal |-> MaxRefusals,
          reject |-> MaxRejects, ask |-> MaxAsks]

\* "latest" is the id of the last ping sent, "older" one before
Mids == {"latest", "older"}
Contents == [k : {"ping"}, n : ServerPings] \cup [k : {"reject"}, mid : Mids] \cup {[k |-> "other"]}
Connections == 1..(MaxCloses + 1)
TcpJobs ==
    [op : {"ask", "resend", "sessionChanged", "detach", "stop"}]
    \cup [op : {"opened", "closed"}, c : Connections]
    \cup [op : {"data"}, c : Connections, body : Contents]
    \cup [op : {"ping"}, n : ServerPings] \cup [op : {"failed"}, mid : Mids]
ProtoJobs ==
    [op : {"ready"}, ping : BOOLEAN, pong : ServerPings \cup {0}]
    \cup [op : {"incoming"}, body : Contents]

\* TcpTransportContext
Context ==
    [connection : Connections \cup {0},   \* none is 0
     delegate : BOOLEAN,
     didSendPing : BOOLEAN,               \* didSendActualizationPingAfterConnection
     pingMid : {"none", "latest"},        \* currentActualizationPingMessageId
     timer : BOOLEAN,                     \* actualizationPingResendTimer
     serverPingMid : ServerPings \cup {0},
     serverPingId : ServerPings \cup {0}]

TypeOK ==
    /\ context \in Context
    /\ net \in {"starting", "open", "closed"}
    /\ recording \in ServerPings \cup {0} /\ clearing \in BOOLEAN
    /\ tcp \in Seq(TcpJobs) /\ proto \in Seq(ProtoJobs)
    /\ attached \in BOOLEAN
    /\ spent \in [DOMAIN Limit -> Nat] /\ \A e \in DOMAIN Limit : spent[e] <= Limit[e]
    /\ arrived \in ServerPings \cup {0}
    /\ answered \subseteq ServerPings /\ overtaken \subseteq ServerPings
    /\ spoilt \in BOOLEAN /\ beat \in BOOLEAN

Init ==
    /\ context = [connection |-> 1, delegate |-> TRUE, didSendPing |-> FALSE, pingMid |-> "none",
                  timer |-> FALSE, serverPingMid |-> 0, serverPingId |-> 0]
    /\ net = "starting"
    /\ recording = 0 /\ clearing = FALSE
    /\ tcp = <<>> /\ proto = <<>>
    /\ attached = TRUE
    /\ spent = [e \in DOMAIN Limit |-> 0]
    /\ arrived = 0 /\ answered = {} /\ overtaken = {}
    /\ spoilt = FALSE /\ beat = FALSE

Faults == spent.close + spent.refusal + spent.reject + spent.ask + (IF attached THEN 0 ELSE 1)

Spend(e) ==
    /\ spent[e] < Limit[e]
    /\ e = "ping" \/ Faults < MaxFaults
    /\ spent' = [spent EXCEPT ![e] = @ + 1]

-----------------------------------------------------------------------------
(* TcpTransport's queue.                                                   *)

\* the job at the head of TcpTransport's queue, when no other is half done
TcpJob(op) == recording = 0 /\ tcp # <<>> /\ Head(tcp).op = op
TcpDone == tcp' = Tail(tcp)

\* requestTransactionFromDelegate, from the context c: what it locks it unlocks
\* itself, its queue being the current one.  The flag is set when the ping is
\* asked for, the pong is the last one owed.
RequestTransaction(c) ==
    IF ~c.delegate THEN context' = c /\ UNCHANGED proto
    ELSE /\ context' = [c EXCEPT !.didSendPing = TRUE]
         /\ proto' = Append(proto, [op |-> "ready", ping |-> ~c.didSendPing,
                                    pong |-> IF c.serverPingMid # 0 /\ c.serverPingId # 0
                                             THEN c.serverPingMid ELSE 0])

\* startIfNeeded
NewConnection == [context EXCEPT !.connection = spent.close + 1]

\* the job of setDelegateNeedsTransaction
Ask ==
    /\ TcpJob("ask") /\ TcpDone
    /\ IF context.connection = 0
       THEN context' = NewConnection /\ net' = "starting" /\ UNCHANGED proto
       ELSE RequestTransaction(context) /\ UNCHANGED net
    /\ UNCHANGED <<threads, attached, spent, history>>

\* the backoff timer
Reconnect ==
    /\ recording = 0
    /\ context.connection = 0 /\ context.delegate
    /\ context' = NewConnection /\ net' = "starting"
    /\ UNCHANGED <<threads, tcp, proto, attached, spent, history>>

\* (slip: the flag of the last connection stays)
OpenedAgain(c) == [c EXCEPT !.pingMid = "none"]

Opened(c) == [c EXCEPT !.didSendPing = FALSE, !.pingMid = "none"]

ConnectionOpened ==
    /\ TcpJob("opened") /\ TcpDone
    /\ IF Head(tcp).c = context.connection
       THEN RequestTransaction(Opened(context)) /\ spoilt' = FALSE
       ELSE UNCHANGED <<context, proto, spoilt>>
    /\ UNCHANGED <<net, threads, attached, spent, arrived, answered, overtaken, beat>>

Closed(c) ==
    [c EXCEPT !.didSendPing = FALSE, !.pingMid = "none", !.serverPingMid = 0, !.serverPingId = 0]

\* The first time the next connection is started at once, later by a timer.
ConnectionClosed ==
    /\ TcpJob("closed") /\ TcpDone
    /\ IF Head(tcp).c = context.connection
       THEN /\ arrived' = 0
            /\ \/ context' = Closed(NewConnection) /\ net' = "starting"
               \/ context' = Closed([context EXCEPT !.connection = 0]) /\ UNCHANGED net
       ELSE UNCHANGED <<context, net, arrived>>
    /\ UNCHANGED <<threads, proto, attached, spent, answered, overtaken, spoilt, beat>>

\* Data starts the timer of the next ping.
ConnectionDidReceiveData ==
    /\ TcpJob("data") /\ TcpDone
    /\ IF Head(tcp).c = context.connection
       THEN /\ context' = [context EXCEPT !.timer = @ \/ context.pingMid # "none"]
            /\ proto' = IF context.delegate
                        THEN Append(proto, [op |-> "incoming", body |-> Head(tcp).body])
                        ELSE proto
       ELSE UNCHANGED <<context, proto>>
    /\ UNCHANGED <<net, threads, attached, spent, history>>

\* (slip: the flag stays, and no ping goes with the transaction)
ResentAgain(c) == [c EXCEPT !.pingMid = "none"]

Resent(c) == [c EXCEPT !.didSendPing = FALSE, !.pingMid = "none"]

ResendActualizationPing ==
    /\ TcpJob("resend") /\ TcpDone
    /\ IF context.pingMid # "none"
       THEN RequestTransaction(Resent(context))
       ELSE UNCHANGED <<context, proto>>
    /\ UNCHANGED <<net, threads, attached, spent, history>>

\* protoDidReceiveMessage, for a ping: its two fields are written one by one
RecordMessageId ==
    /\ TcpJob("ping")
    /\ recording' = Head(tcp).n /\ arrived' = 0
    /\ context' = [context EXCEPT !.serverPingMid = Head(tcp).n]
    /\ UNCHANGED <<net, clearing, tcp, proto, attached, spent, answered, overtaken, spoilt, beat>>

RecordPingId ==
    /\ recording # 0 /\ tcp # <<>>
    /\ recording' = 0 /\ arrived' = recording
    /\ TcpDone
    /\ RequestTransaction([context EXCEPT !.serverPingId = recording])
    /\ UNCHANGED <<net, clearing, attached, spent, answered, overtaken, spoilt, beat>>

\* protoMessageDeliveryFailed: the flag stays set
MessageDeliveryFailed ==
    /\ TcpJob("failed") /\ TcpDone
    /\ IF Head(tcp).mid = context.pingMid
       THEN /\ context' = [context EXCEPT !.timer = FALSE, !.pingMid = "none"]
            /\ spoilt' = TRUE
       ELSE UNCHANGED <<context, spoilt>>
    /\ UNCHANGED <<net, threads, proto, attached, spent, arrived, answered, overtaken, beat>>

\* protoDidChangeSession; then Proto lets the transport go: setDelegate, stop
SessionChanged ==
    /\ TcpJob("sessionChanged") /\ TcpDone
    /\ context' = [context EXCEPT !.timer = FALSE, !.pingMid = "none"]
    /\ UNCHANGED <<net, threads, proto, attached, spent, history>>

Detach ==
    /\ TcpJob("detach") /\ TcpDone
    /\ context' = [context EXCEPT !.delegate = FALSE]
    /\ UNCHANGED <<net, threads, proto, attached, spent, history>>

Stop ==
    /\ TcpJob("stop") /\ TcpDone
    /\ IF context.connection # 0
       THEN context' = [context EXCEPT !.connection = 0, !.timer = FALSE] /\ net' = "closed"
       ELSE UNCHANGED <<context, net>>
    /\ UNCHANGED <<threads, proto, attached, spent, history>>

-----------------------------------------------------------------------------
(* Proto's queue.                                                          *)

ProtoJob(op) == ~clearing /\ proto # <<>> /\ Head(proto).op = op
ProtoDone == proto' = Tail(proto)

\* ids that were the latest are so no more
Aged(jobs) ==
    [i \in DOMAIN jobs |->
        CASE jobs[i].op = "failed" -> [jobs[i] EXCEPT !.mid = "older"]
          [] jobs[i].op \in {"data", "incoming"} /\ jobs[i].body.k = "reject" ->
                [jobs[i] EXCEPT !.body.mid = "older"]
          [] OTHER -> jobs[i]]

\* (slip: the pong is forgotten whatever the transaction was)
SentForgetful(job, c) ==
    [c EXCEPT !.pingMid = IF job.ping THEN "latest" ELSE @,
              !.serverPingMid = 0]

\* transportReadyForTransaction, which makes a transaction of the ping and the
\* pong and, the connection being there, completes it: the completed closure
\* keeps the ping's id ...
Sent(job, c) ==
    [c EXCEPT !.pingMid = IF job.ping THEN "latest" ELSE @,
              !.serverPingMid = IF job.pong # 0 THEN 0 ELSE @]

ReadySend ==
    /\ ProtoJob("ready") /\ attached
    /\ context.connection # 0
    /\ LET job == Head(proto)
       IN /\ context' = Sent(job, context)
          /\ clearing' = (job.pong # 0)
          /\ proto' = IF job.ping THEN Aged(Tail(proto)) ELSE Tail(proto)
          /\ tcp' = IF job.ping THEN Aged(tcp) ELSE tcp
          /\ beat' = IF job.ping THEN ~beat ELSE beat
          /\ answered' = answered \cup ({job.pong} \ {0})
          /\ overtaken' = IF job.pong = 0 THEN overtaken
                          ELSE overtaken \cup ({recording, arrived} \ {0, job.pong})
    /\ UNCHANGED <<net, recording, attached, spent, arrived, spoilt>>

\* ... and, the pong having been sent, forgets the server's ping
ClearPingId ==
    /\ clearing
    /\ clearing' = FALSE
    /\ context' = [context EXCEPT !.serverPingId = 0]
    /\ overtaken' = overtaken \cup ({arrived} \ ({0} \cup answered))
    /\ UNCHANGED <<net, recording, tcp, proto, attached, spent, arrived, answered, spoilt, beat>>

\* without a connection the transaction fails, and its failed closure is empty
ReadyFail ==
    /\ ProtoJob("ready") /\ attached
    /\ context.connection = 0
    /\ ProtoDone
    /\ UNCHANGED <<context, net, threads, tcp, attached, spent, history>>

\* Proto awaits a key or the time, or has no salt, or the clock went back
ReadyRefuse ==
    /\ ProtoJob("ready") /\ attached
    /\ Spend("refusal")
    /\ ProtoDone
    /\ spoilt' = (spoilt \/ Head(proto).ping)
    /\ UNCHANGED <<context, net, threads, tcp, attached, arrived, answered, overtaken, beat>>

ReadyStale ==
    /\ ProtoJob("ready") /\ ~attached
    /\ ProtoDone
    /\ UNCHANGED <<context, net, threads, tcp, attached, spent, history>>

\* transportHasIncomingData and processIncomingMessage
Incoming ==
    /\ ProtoJob("incoming") /\ ProtoDone
    /\ LET body == Head(proto).body
       IN tcp' = CASE ~attached -> tcp
                   [] body.k = "ping" -> Append(tcp, [op |-> "ping", n |-> body.n])
                   [] body.k = "reject" -> Append(tcp, [op |-> "failed", mid |-> body.mid])
                   [] OTHER -> tcp
    /\ UNCHANGED <<context, net, threads, attached, spent, history>>

-----------------------------------------------------------------------------
(* Around them.                                                            *)

Post(job) ==
    /\ tcp' = Append(tcp, job)
    /\ UNCHANGED <<context, threads, proto, attached, history>>

InTcp(op) == \E i \in DOMAIN tcp : tcp[i].op = op
InProto(op) == \E i \in DOMAIN proto : proto[i].op = op

\* the connection, which the net opens and closes
NetOpens ==
    /\ net = "starting" /\ context.connection # 0
    /\ net' = "open"
    /\ Post([op |-> "opened", c |-> context.connection])
    /\ UNCHANGED spent

NetCloses ==
    /\ net \in {"starting", "open"} /\ context.connection # 0
    /\ Spend("close")
    /\ net' = "closed"
    /\ Post([op |-> "closed", c |-> context.connection])

ServerReached == net = "open" /\ context.connection # 0

\* The server answers, when no packet waits in the queues.
ServerAnswers ==
    /\ ServerReached /\ ~InTcp("data") /\ ~InProto("incoming")
    /\ Post([op |-> "data", c |-> context.connection, body |-> [k |-> "other"]])
    /\ UNCHANGED <<net, spent>>

ServerPing ==
    /\ ServerReached
    /\ Spend("ping")
    /\ Post([op |-> "data", c |-> context.connection, body |-> [k |-> "ping", n |-> spent.ping + 1]])
    /\ UNCHANGED net

ServerRejects ==
    /\ ServerReached /\ context.pingMid = "latest"
    /\ Spend("reject")
    /\ Post([op |-> "data", c |-> context.connection, body |-> [k |-> "reject", mid |-> "latest"]])
    /\ UNCHANGED net

\* somebody has a message for Proto
NeedsTransaction ==
    /\ attached
    /\ Spend("ask")
    /\ Post([op |-> "ask"])
    /\ UNCHANGED net

\* every 20 seconds, by when the last resend is done
TimerFires ==
    /\ context.timer /\ ~InTcp("resend")
    /\ Post([op |-> "resend"])
    /\ UNCHANGED <<net, spent>>

\* resetSessionInfo, which replaces the transport
SessionChanges ==
    /\ ~clearing
    /\ Faults < MaxFaults
    /\ attached /\ attached' = FALSE
    /\ tcp' = tcp \o <<[op |-> "sessionChanged"], [op |-> "detach"], [op |-> "stop"]>>
    /\ UNCHANGED <<context, net, threads, proto, spent, history>>

-----------------------------------------------------------------------------
TcpStep ==
    \/ Ask \/ ConnectionOpened \/ ConnectionClosed \/ ConnectionDidReceiveData
    \/ ResendActualizationPing \/ RecordMessageId \/ RecordPingId
    \/ MessageDeliveryFailed \/ SessionChanged \/ Detach \/ Stop
ProtoStep == ReadySend \/ ClearPingId \/ ReadyFail \/ ReadyRefuse \/ ReadyStale \/ Incoming
Outside ==
    \/ NetOpens \/ NetCloses \/ ServerAnswers \/ ServerPing \/ ServerRejects
    \/ NeedsTransaction \/ TimerFires \/ SessionChanges

Next == TcpStep \/ ProtoStep \/ Reconnect \/ Outside

Spec == Init /\ [][Next]_vars

\* The queues run, timers fire and a server that is there answers.
FairSpec ==
    /\ Spec
    /\ WF_vars(TcpStep) /\ WF_vars(ProtoStep) /\ WF_vars(Reconnect)
    /\ WF_vars(NetOpens) /\ WF_vars(TimerFires) /\ WF_vars(ServerAnswers)

-----------------------------------------------------------------------------
(* Properties.                                                             *)

\* The last ping that came on a connection stays written down until its pong is
\* sent, however often the transaction with it is refused or fails.  It is
\* forgotten only if an older one's pong was sent after it came: that
\* completion, on the other thread, clears whatever is written down.
PongsAreOwed ==
    \/ arrived \in {0} \cup answered \cup overtaken
    \/ context.serverPingMid = arrived /\ context.serverPingId = arrived

\* what the keep-alive can count on
Working == attached /\ net = "open" /\ ~spoilt

\* A connection that stays open is pinged for ever, if Proto never refuses the
\* transaction with the ping and the server never rejects the ping: after either
\* no ping is sent on that connection any more.
KeepAliveGoesOn ==
    <>[]Working => []<>beat /\ []<>~beat

=============================================================================
