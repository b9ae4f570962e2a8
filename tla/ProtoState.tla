------------------------------ MODULE ProtoState ------------------------------
(***************************************************************************)
(* The state of a Proto and of its message services, as one record that    *)
(* the operators of RequestMessageService, TimeSyncMessageService and      *)
(* Proto map to its next value.  Everything the C++ code does inside one   *)
(* job of Proto::queue, nested calls included, happens on the queue's own  *)
(* thread without a pause, so a whole job is one application of operators. *)
(***************************************************************************)
EXTENDS Naturals, Sequences, FiniteSets

CONSTANTS Requests,    \* the user's requests
          None,        \* nullptr, and message id 0 or -1
          Threshold,   \* MaxUnacknowlegedMessagesCount
          SlowSamples  \* the samples TimeSyncMessageService wants of a slow network

\* Messages with an id of their own that are not requests, by what they carry.
\* (The transport's ping and the acknowledgements are never referred to again.)
Labels == {"futureSalts", "timeFix", "container"}

ASSUME ProtoAssumption ==
    /\ Requests \cap (Labels \cup {"ping", "acks"}) = {}
    /\ None \notin Requests
    /\ Threshold \in Nat
    /\ SlowSamples \in Nat \ {0}

\* A client message id.  Session makes ids grow with the clock; the messages
\* that one transportReadyForTransaction prepares share the batch number b
\* and differ in what they carry.
MessageId == [b : Nat, m : Requests \cup Labels]

\* RequestContext: the id the request was last prepared with and the
\* transaction that carries it (0 for -1).  waitingForMessageId is set and
\* cleared again within one job.
RequestContext == [mid : MessageId, tx : Nat, delivered : BOOLEAN]

\* no context is told from every context
ASSUME NoneAssumption == None \notin RequestContext

\* protoState: the bits of ProtoState that can be set.  (The address of the
\* datacenter is known before a Proto exists, so AwaitingTransportScheme is not.)
Bits == {"authorization", "timeFixAndSalts", "stopped", "paused"}

\* What processIncomingMessage tells apart in a server message.
Body == [k : {"rpcResult", "rpcSilent", "acks", "badSalt"}, mid : MessageId]
   \cup [k : {"futureSalts"}, mid : MessageId, slow : BOOLEAN]
   \cup [k : {"badMsg"}, mid : MessageId, code : {"time", "seqNo", "salt", "other"}]
   \cup [k : {"update"}]
IncomingMessage == [id : Nat, body : Body]

\* The jobs of Proto::queue.  "messages" is what is left of the loop over the
\* messages of one packet.
Job == [op : {"add", "cancel"}, r : Requests]
  \cup [op : {"pause", "resume", "removeService", "stop", "flush"}]
  \cup [op : {"authInfo"}, info : Nat]
  \cup [op : {"connState"}, up : BOOLEAN]
  \cup [op : {"txFailed"}, t : Nat]
  \cup [op : {"ready"}, t : Nat, ping : BOOLEAN]
  \cup [op : {"incoming"}, t : Nat, quality : {"good", "undecryptable", "unparsable", "truncated"},
        msgs : Seq(IncomingMessage)]
  \cup [op : {"messages"}, msgs : Seq(IncomingMessage)]

\* The jobs that Proto hands to TcpTransport::queue.
TcpJob == [op : {"update", "needs", "flush", "valid", "detach", "stop"}, t : Nat]

\* A Session: the batches from first on, the server messages seen, the
\* confirmations not yet known to be delivered with the transactions that
\* carried them, and the containers sent.
Session == [first : Nat,
            processed : SUBSET Nat,
            acks : SUBSET Nat,
            carried : SUBSET (Nat \X Nat),
            containers : SUBSET [id : MessageId, children : SUBSET MessageId]]

NewSession(first) ==
    [first |-> first, processed |-> {}, acks |-> {}, carried |-> {}, containers |-> {}]

\* A TimeSyncMessageService, or its absence from messageServices.
TimeSync == [present : BOOLEAN, mid : MessageId \cup {None}, taken : Nat, required : Nat]

NoTimeSync == [present |-> FALSE, mid |-> None, taken |-> 0, required |-> 0]

ProtoRecord ==
    [state      : SUBSET Bits,                          \* protoState
     transport  : Nat,                                  \* the transport's internalId, 0 for nullptr
     created    : Nat,                                  \* transports made so far
     flushing   : BOOLEAN,                              \* willRequestTransactionOnNextQueuePass
     jobs       : Seq(Job),                             \* Proto::queue
     tcpJobs    : Seq(TcpJob),                          \* TcpTransport::queue
     ctxJobs    : Seq(Nat),                             \* Context::queue: key updates
     batch      : Nat,                                  \* the next batch of message ids
     session    : Session,                              \* sessionInfo
     lock       : {"clear", "held", "expired"},         \* resetSessionInfoLock and the clock
     forceAcks  : BOOLEAN,
     authInfo   : Nat,                                  \* the AuthKeyInfo object, 0 for nullptr
     infos      : Nat,                                  \* AuthKeyInfo objects made so far
     key        : Nat,                                  \* Context's AuthKeyInfo for the datacenter
     missed     : BOOLEAN,                              \* no listener yet when the key was announced
     timeFix    : MessageId \cup {None},                \* timeFixContext
     timeSync   : TimeSync,
     registered : BOOLEAN,                              \* the request service is in messageServices
     requests   : SUBSET Requests,                      \* the requests it holds
     context    : [Requests -> RequestContext \cup {None}],
     answered   : [Requests -> Nat],                    \* completion and failure callbacks made
     reported   : {"connected", "connecting"}]          \* the last state the delegate was told

Stopped(p) == "stopped" \in p.state
Paused(p) == "paused" \in p.state

CanAskTransactions(p) ==
    p.state \cap {"authorization", "timeFixAndSalts", "stopped"} = {}
CanAskServiceTransactions(p) ==
    p.state \cap {"authorization", "stopped"} = {}

PostTcp(p, op, t) == [p EXCEPT !.tcpJobs = Append(@, [op |-> op, t |-> t])]

\* requestTransportTransactions: at most one flush job is queued
RequestTransactions(p) ==
    IF p.flushing THEN p
    ELSE [p EXCEPT !.flushing = TRUE, !.jobs = Append(@, [op |-> "flush"])]

RequestIf(cond, p) == IF cond THEN RequestTransactions(p) ELSE p
=============================================================================
