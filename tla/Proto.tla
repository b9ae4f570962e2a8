--------------------------------- MODULE Proto ---------------------------------
(***************************************************************************)
(* gp/proto/Proto in authorized mode, with the message services it drives, *)
(* the Context it reads, the TcpTransports it makes and the server at the  *)
(* other end.  Proto, TcpTransport and Context each have a dispatch queue  *)
(* (see DispatchQueue): one action runs one job of one queue, and posts    *)
(* jobs to the others.  The network and the server do whatever they like   *)
(* within the bounds named below.                                          *)
(***************************************************************************)
EXTENDS RequestMessageService, TimeSyncMessageService

CONSTANTS
    InitialKey,     \* 1 when the keychain holds the authorization key, else 0
    Budgets,        \* how often each event of Events may happen in one behaviour:
                    \* one of these functions is kept to
    Stopping,       \* TRUE when the client may stop
    Unasked,        \* what the packets that answer nothing may hold
    Codes           \* the error codes the server uses

\* What is bounded: connections that close under the transport, packets the
\* server sends besides the answers it owes, AuthKeyInfo objects whose salts run
\* out, batches of ids the clock makes non-monotonic, calls of pause, requests
\* the user takes back, reset locks outlived by more than a second.
Events == {"close", "packet", "lapse", "violation", "pause", "cancel", "expiry"}

ASSUME BoundsAssumption ==
    /\ InitialKey \in {0, 1}
    /\ Budgets \subseteq [Events -> Nat]
    /\ Stopping \in BOOLEAN
    /\ Codes \subseteq {"time", "seqNo", "salt", "other"}

VARIABLES
    proto,   \* the Proto and its services
    net,     \* the TcpTransports that TcpTransport::queue has not stopped yet
    wire,    \* messages sent and not answered, with the transport whose
             \* connection they are on (0: received, but the connection is gone)
    lapsed,  \* the AuthKeyInfo objects that have no salt for the present
    client,  \* the user's side
    served,  \* the id of the last message the server sent
    spent    \* how often each bounded event has happened

vars == <<proto, net, wire, lapsed, client, served, spent>>

\* conn is transportContext->connection: "backoff" is nullptr with the timer
\* armed, "none" is nullptr without it
Transport == [conn : {"none", "starting", "open", "backoff"},
              again : BOOLEAN,      \* backoffCount > 0
              attached : BOOLEAN,   \* delegate is the Proto
              flushing : BOOLEAN,   \* willRequestTransactionOnNextQueuePass
              pinged : BOOLEAN]     \* didSendActualizationPingAfterConnection

NewTransport ==
    [conn |-> "none", again |-> FALSE, attached |-> TRUE, flushing |-> FALSE, pinged |-> FALSE]

\* a bounded event happens; spent is constrained here and nowhere else
Spend(event) ==
    /\ spent' = [spent EXCEPT ![event] = @ + 1]
    /\ \E budget \in Budgets : \A e \in Events : spent'[e] <= budget[e]

\* The constructor asks Context for the key; the job that makes the Proto a
\* listener is queued after that.  A key that is made in between is never told
\* to it: that the state begins so is no loss, since the Proto asks Context
\* again (resetTransport) only behind that job.
Init ==
    /\ \E missed \in {FALSE, InitialKey = 0} :
       LET key == IF missed THEN 1 ELSE InitialKey
       IN proto = [state |-> {}, transport |-> 0, created |-> 0, flushing |-> FALSE,
                   jobs |-> <<>>, tcpJobs |-> <<>>, ctxJobs |-> <<>>,
                   batch |-> 1, session |-> NewSession(1), lock |-> "clear", forceAcks |-> FALSE,
                   authInfo |-> InitialKey, infos |-> key, key |-> key, missed |-> missed,
                   timeFix |-> None, timeSync |-> NoTimeSync, registered |-> TRUE,
                   requests |-> {}, context |-> [r \in Requests |-> None],
                   answered |-> [r \in Requests |-> 0], reported |-> "connecting"]
    /\ net = <<>>
    /\ wire = {}
    /\ lapsed = {}
    /\ client = [issued |-> {}, cancelled |-> {}, stopping |-> "no"]
    /\ served = 0
    /\ spent = [event \in Events |-> 0]

-----------------------------------------------------------------------------
(* Transports.                                                             *)

AllTransactionsMayHaveFailed(p) ==
    IF Stopped(p) THEN p ELSE TimeSyncRestart(AllRequestsMayHaveFailed(p))

TransactionsMayHaveFailed(p, tx) ==
    IF Stopped(p) THEN p ELSE RequestsMayHaveFailed(p, tx)

UpdateConnectionState(p) ==
    IF p.transport = 0 THEN [p EXCEPT !.reported = "connecting"]
    ELSE PostTcp(p, "update", p.transport)

SetTransport(p, t) ==
    LET old == p.transport
        q == [AllTransactionsMayHaveFailed(p) EXCEPT !.transport = t]
    IN UpdateConnectionState(IF old = 0 THEN q ELSE PostTcp(q, "stop", old))

\* setDelegate(nullptr), stop() and setTransport(nullptr)
DropTransport(p) ==
    IF p.transport = 0 THEN p
    ELSE SetTransport(PostTcp(PostTcp(p, "detach", p.transport), "stop", p.transport), 0)

CreateTransport(p) ==
    LET t == p.created + 1 IN SetTransport([p EXCEPT !.created = t], t)

\* (slip: the key is not looked at)
ResetTransportKeyless(p) ==
    IF Stopped(p) THEN p ELSE CreateTransport(DropTransport(p))

\* (slip: the stopped state is not looked at)
ResetTransportStopped(p) ==
    IF p.key = 0 THEN [DropTransport(p) EXCEPT !.state = @ \cup {"authorization"}]
    ELSE CreateTransport(DropTransport(p))

ResetTransport(p) ==
    IF Stopped(p) THEN p
    ELSE IF p.key = 0 THEN [DropTransport(p) EXCEPT !.state = @ \cup {"authorization"}]
    ELSE CreateTransport(DropTransport(p))

-----------------------------------------------------------------------------
(* Sessions, salts and time.                                               *)

\* The lock is taken by the first reset.  Once it is older than a second the
\* next reset goes through and leaves it clear, not taken again.
ResetSessionInfo(p) ==
    IF p.lock = "held" THEN p
    ELSE LET q == [p EXCEPT !.lock = IF @ = "clear" THEN "held" ELSE "clear",
                            !.session = NewSession(p.batch)]
         IN ResetTransport(TimeSyncRestart(RequestsSessionChanged(q)))

\* (slip: requestTimeResync is not called)
InitiateTimeSyncAlone(p) == [p EXCEPT !.state = @ \cup {"timeFixAndSalts"}]

InitiateTimeSync(p) ==
    LET q == [p EXCEPT !.state = @ \cup {"timeFixAndSalts"}]
    IN IF q.timeSync.present THEN q
       ELSE RequestTransactions([q EXCEPT !.timeSync = [NoTimeSync EXCEPT !.present = TRUE]])

CompleteTimeSync(p) ==
    [p EXCEPT !.state = @ \ {"timeFixAndSalts"}, !.timeSync = NoTimeSync]

\* (slip: Context is not told)
TimeSyncInfoKept(p) ==
    LET info == p.infos + 1
        q == [p EXCEPT !.infos = info, !.authInfo = info]
    IN RequestIf(CanAskTransactions(q) \/ CanAskServiceTransactions(q), q)

\* (slip: no transaction is asked for)
TimeSyncInfoSilent(p) ==
    LET info == p.infos + 1
    IN [p EXCEPT !.infos = info, !.authInfo = info, !.ctxJobs = Append(@, info)]

\* a new AuthKeyInfo replaces or merges the salts; Context is told and tells
\* its listeners, this Proto among them
TimeSyncInfoChanged(p) ==
    LET info == p.infos + 1
        q == [p EXCEPT !.infos = info, !.authInfo = info, !.ctxJobs = Append(@, info)]
    IN RequestIf(CanAskTransactions(q) \/ CanAskServiceTransactions(q), q)

\* bad_server_salt for the ping that was sent with salt 0
FixTime(p) ==
    LET q == TimeSyncInfoChanged([p EXCEPT !.state = @ \ {"timeFixAndSalts"}])
    IN ResetSessionInfo([q EXCEPT !.timeFix = None])

\* the cases of the switch on the error code fall through to the default
BadMessageCode(p, code) ==
    CASE code = "time"  -> ResetSessionInfo(InitiateTimeSync(ResetSessionInfo(InitiateTimeSync(p))))
      [] code = "seqNo" -> ResetSessionInfo(InitiateTimeSync(ResetSessionInfo(p)))
      [] code = "salt"  -> ResetSessionInfo(InitiateTimeSync(p))
      [] OTHER          -> ResetSessionInfo(p)

BadMessage(p, body) ==
    LET rejected == {body.mid} \cup UNION {c.children : c \in {d \in p.session.containers : d.id = body.mid}}
        q == IF body.k = "badMsg" THEN BadMessageCode(p, body.code)
             ELSE IF p.timeFix = body.mid THEN FixTime(p)
             ELSE InitiateTimeSync(p)
    IN TimeSyncDeliveryFailed(RequestDeliveryFailed(q, rejected), rejected)

FutureSalts(p, body) ==
    IF ~TimeSyncMatches(p, body) THEN p
    ELSE LET q == TakeSample(p, body)
         IN IF EnoughSamples(q)
            THEN RequestIf(q.timeSync.required # p.timeSync.required,
                           TimeSyncInfoChanged(CompleteTimeSync(q)))
            ELSE RequestTransactions(q)

-----------------------------------------------------------------------------
(* Incoming messages.                                                      *)

\* transportTransactionsSucceeded: data from t confirms the acks it carried
TransactionsSucceeded(p, t) ==
    LET sure == {id \in p.session.acks : <<id, t>> \in p.session.carried}
    IN [p EXCEPT !.session.acks = @ \ sure,
                 !.session.carried = {c \in @ : c[1] \notin sure}]

AcksExceedThreshold(p) == Cardinality(p.session.acks) > Threshold

\* the seqNo of a content-related message is odd
NeedsAck(body) == body.k \in {"rpcResult", "rpcSilent", "update"}

ScheduleAck(p, id) == [p EXCEPT !.session.acks = @ \cup {id}]

Dispatch(p, m) ==
    LET q == IF NeedsAck(m.body) THEN ScheduleAck(p, m.id) ELSE p
        s == RequestIf(NeedsAck(m.body) /\ AcksExceedThreshold(q), q)
    IN CASE m.body.k \in {"rpcResult", "rpcSilent"} -> ReceiveResult(s, m.body)
         [] m.body.k = "futureSalts"                -> FutureSalts(s, m.body)
         [] OTHER                                   -> s

ProcessIncomingMessage(p, m) ==
    IF m.id \in p.session.processed
    THEN RequestTransactions(ScheduleAck([p EXCEPT !.forceAcks = TRUE], m.id))
    ELSE LET q == [p EXCEPT !.session.processed = @ \cup {m.id}]
         IN CASE m.body.k \in {"badSalt", "badMsg"} -> BadMessage(q, m.body)
              [] m.body.k = "acks" -> RequestDeliveryConfirmed(q, {m.body.mid})
              [] OTHER             -> Dispatch(q, m)

-----------------------------------------------------------------------------
(* The jobs of Proto::queue.                                               *)

HeadOp == IF proto.jobs = <<>> THEN "idle" ELSE Head(proto.jobs).op
TheJob == Head(proto.jobs)
Dequeued == [proto EXCEPT !.jobs = Tail(@)]

\* The job ends with the Proto in state p; transports made by it appear, and
\* messages of sessions it ended can no longer be answered.
Become(p, sent) ==
    /\ proto' = p
    /\ net' = [t \in DOMAIN net \cup (proto.created + 1)..p.created |->
                  IF t \in DOMAIN net THEN net[t] ELSE NewTransport]
    /\ wire' = {s \in wire \cup sent : s.mid.b >= p.session.first}
    /\ UNCHANGED <<lapsed, client, served>>

Run(p) == Become(p, {}) /\ UNCHANGED spent

DoAdd == HeadOp = "add" /\ Run(AddRequest(Dequeued, TheJob.r))
DoCancel == HeadOp = "cancel" /\ Run(RemoveRequest(Dequeued, TheJob.r))

DoPause ==
    /\ HeadOp = "pause"
    /\ Run(IF Paused(Dequeued) THEN Dequeued
           ELSE SetTransport([Dequeued EXCEPT !.state = @ \cup {"paused"}], 0))

DoResume ==
    /\ HeadOp = "resume"
    /\ Run(IF Paused(Dequeued)
           THEN RequestTransactions(ResetTransport([Dequeued EXCEPT !.state = @ \ {"paused"}]))
           ELSE Dequeued)

DoStop ==
    /\ HeadOp = "stop"
    /\ Run(IF Stopped(Dequeued) THEN Dequeued
           ELSE DropTransport([Dequeued EXCEPT !.state = @ \cup {"stopped"}]))

DoRemoveService ==
    /\ HeadOp = "removeService"
    /\ Run([Dequeued EXCEPT !.registered = FALSE])

\* (slip: the paused state is not looked at)
DoFlushPaused ==
    /\ HeadOp = "flush"
    /\ LET p == [Dequeued EXCEPT !.flushing = FALSE]
           q == IF p.transport = 0 THEN ResetTransport(p) ELSE p
       IN Run(IF Stopped(p) THEN p
              ELSE IF q.transport = 0 THEN q
              ELSE PostTcp(q, "needs", q.transport))

DoFlush ==
    /\ HeadOp = "flush"
    /\ LET p == [Dequeued EXCEPT !.flushing = FALSE]
           q == IF p.transport = 0 THEN ResetTransport(p) ELSE p
       IN Run(IF Stopped(p) \/ Paused(p) THEN p
              ELSE IF q.transport = 0 THEN q
              ELSE PostTcp(q, "needs", q.transport))

DoAuthInfo ==
    /\ HeadOp = "authInfo"
    /\ LET p == [Dequeued EXCEPT !.authInfo = TheJob.info, !.state = @ \ {"authorization"}]
       IN Run(IF "authorization" \in proto.state THEN RequestTransactions(ResetTransport(p)) ELSE p)

DoConnState ==
    /\ HeadOp = "connState"
    /\ Run([Dequeued EXCEPT !.reported = IF TheJob.up THEN "connected" ELSE "connecting"])

DoTxFailed == HeadOp = "txFailed" /\ Run(TransactionsMayHaveFailed(Dequeued, TheJob.t))

\* the transport hears that the data was valid, and the acks are delivered
Decoded(p, t) == TransactionsSucceeded(PostTcp(p, "valid", t), t)

DoIncoming ==
    /\ HeadOp = "incoming"
    /\ LET p == Dequeued
           t == TheJob.t
       IN Run(IF p.transport # t \/ Stopped(p) THEN p
              ELSE CASE TheJob.quality = "undecryptable" -> TransactionsMayHaveFailed(p, t)
                     [] TheJob.quality = "unparsable" -> ResetSessionInfo(TransactionsMayHaveFailed(p, t))
                     [] TheJob.quality = "truncated" -> Decoded(p, t)
                     [] OTHER -> [Decoded(p, t) EXCEPT
                                    !.jobs = <<[op |-> "messages", msgs |-> TheJob.msgs]>> \o @])

\* One turn of the loop over the messages of a packet: the loop does not look
\* again whether an earlier message has replaced the session or the transport.
DoMessage ==
    /\ HeadOp = "messages"
    /\ LET msgs == TheJob.msgs
           rest == IF Len(msgs) = 1 THEN <<>> ELSE <<[op |-> "messages", msgs |-> Tail(msgs)]>>
       IN Run(ProcessIncomingMessage([Dequeued EXCEPT !.jobs = rest \o @], Head(msgs)))

-----------------------------------------------------------------------------
(* transportReadyForTransaction.                                           *)

\* transportContext->connection != nullptr: it may still be connecting
HasConnection(t) == t \in DOMAIN net /\ net[t].conn \in {"starting", "open"}

AcksDue(p) == AcksExceedThreshold(p) \/ p.forceAcks

\* the messages gathered, by what they carry
Gathered(p, ping) ==
    Offered(p)
    \cup {x \in {"futureSalts"} : TimeSyncOffers(p)}
    \cup {x \in {"ping"} : ping}
    \cup {x \in {"acks"} : AcksDue(p)}

\* those of them whose ids are remembered
IdsOf(p, items) ==
    {IdFor(p, r) : r \in items \cap Requests}
    \cup {[b |-> p.batch, m |-> x] : x \in items \cap Labels}

\* Every message is prepared; forceAcks is cleared, whatever happens next.
Prepare(p, items, tx) ==
    LET q == BindTimeSync(BindRequests(p, items \cap Requests, tx), "futureSalts" \in items)
    IN [q EXCEPT !.batch = @ + 1, !.forceAcks = @ /\ ~AcksDue(p)]

\* more than one message travels as a container
Contain(p, items, b) ==
    IF Cardinality(items) < 2 THEN p
    ELSE [p EXCEPT !.session.containers =
            @ \cup {[id |-> [b |-> b, m |-> "container"],
                     children |-> {c.mid : c \in {p.context[r] : r \in items \cap Requests}}
                                  \cup {[b |-> b, m |-> x] : x \in items \cap Labels}]}]

ReadyFor(p, t) == HeadOp = "ready" /\ TheJob.t = t /\ p.transport = t

\* authInfo is dereferenced, be it null or not
UsesKey(p) ==
    CanAskTransactions(p) \/ (CanAskServiceTransactions(p) /\ p.timeFix = None)

\* without a key the process ends there: no further job of this queue is run
NullKey == ReadyFor(proto, proto.transport) /\ UsesKey(proto) /\ proto.authInfo = 0

\* the transport is not, or no longer, the one in use
ReadyStale == HeadOp = "ready" /\ proto.transport # TheJob.t /\ Run(Dequeued)

ReadyNothing ==
    /\ ReadyFor(proto, proto.transport)
    /\ IF CanAskTransactions(proto)
       THEN Gathered(proto, TheJob.ping) = {} /\ proto.authInfo \notin lapsed \cup {0}
       ELSE ~CanAskServiceTransactions(proto) \/ proto.timeFix # None
    /\ Run(Dequeued)

\* assignTransactionIdToScheduledMessageConfirmationdIds
Carried(p, t) == [p EXCEPT !.session.carried = @ \cup (p.session.acks \X {t})]

\* dataForEncryptedMessage: of what travels encrypted its id and its connection
\* are what can be told apart
Encrypted(mid, t) == [mid |-> mid, on |-> t]

\* the payload is handed to the connection and the transaction completes
ReadySend ==
    /\ ReadyFor(proto, proto.transport)
    /\ LET p == Dequeued
           t == p.transport
           items == Gathered(p, TheJob.ping)
           whole == IF Cardinality(items) > 1 THEN {"container"} ELSE {}
           q == Contain(Prepare(p, items, t), items, p.batch)
       IN /\ CanAskTransactions(p) /\ items # {}
          /\ p.authInfo \notin lapsed \cup {0}
          /\ HasConnection(t)
          /\ Become(IF "acks" \in items THEN Carried(q, t) ELSE q,
                    {Encrypted(id, t) : id \in IdsOf(p, items \cup whole)})
    /\ UNCHANGED spent

\* there is no connection: the transaction fails
ReadyFail ==
    /\ ReadyFor(proto, proto.transport)
    /\ LET p == Dequeued
           items == Gathered(p, TheJob.ping)
       IN /\ CanAskTransactions(p) /\ items # {}
          /\ p.authInfo \notin lapsed \cup {0}
          /\ ~HasConnection(p.transport)
          /\ Run(Contain(Prepare(p, items, 0), items, p.batch))

\* no salt for the present: the messages keep the ids they were prepared with
ReadySaltless ==
    /\ ReadyFor(proto, proto.transport)
    /\ CanAskTransactions(proto)
    /\ proto.authInfo \in lapsed
    /\ Run(InitiateTimeSync(Prepare(Dequeued, Gathered(Dequeued, TheJob.ping), 0)))

\* The clock gives an id below the last one: the messages after it are not
\* prepared, and none is sent.
ReadyViolated ==
    /\ ReadyFor(proto, proto.transport)
    /\ CanAskTransactions(proto) /\ proto.authInfo # 0
    /\ \E prepared \in SUBSET Gathered(Dequeued, TheJob.ping) :
          /\ \E x \in Gathered(Dequeued, TheJob.ping) \ prepared :
                x \in Requests => proto.context[x] = None
          /\ Become(RequestTransactions(ResetSessionInfo(Prepare(Dequeued, prepared, 0))), {})
    /\ Spend("violation")

\* only the ping with salt 0 may be sent, and only one of them
ReadyTimeFix ==
    /\ ReadyFor(proto, proto.transport)
    /\ ~CanAskTransactions(proto) /\ CanAskServiceTransactions(proto)
    /\ proto.timeFix = None /\ proto.authInfo # 0
    /\ LET p == [Dequeued EXCEPT !.batch = @ + 1]
           mid == [b |-> proto.batch, m |-> "timeFix"]
       IN IF HasConnection(p.transport)
          THEN Become([p EXCEPT !.timeFix = mid], {Encrypted(mid, p.transport)})
          ELSE Become(RequestTransactions(p), {})
    /\ UNCHANGED spent

Ready == ReadyStale \/ ReadyNothing \/ ReadySend \/ ReadyFail \/ ReadySaltless \/ ReadyTimeFix

ProtoStep ==
    \/ DoAdd \/ DoCancel \/ DoPause \/ DoResume \/ DoStop \/ DoRemoveService
    \/ DoFlush \/ DoAuthInfo \/ DoConnState \/ DoTxFailed \/ DoIncoming \/ DoMessage
    \/ Ready
=============================================================================
