----------------------------- MODULE TransportProofs -----------------------------
(***************************************************************************)
(* Proofs about what carries a session's data.                             *)
(*                                                                         *)
(* TransportPings: every variable keeps to its type, and the last ping of  *)
(* the server stays written down until its pong is sent, for any number of *)
(* pings, closes, refusals, rejects and calls.                             *)
(*                                                                         *)
(* Connection: as long as no connect has failed a socket's descriptor is   *)
(* its own; a descriptor outlives its socket only when the connection was  *)
(* closed from this side, or was begun behind the stop of its transport;   *)
(* and a packet is told to a delegate that was told of the opening, of a   *)
(* connection that is not closed, where one begun behind a stop need not   *)
(* have told it.  For any number of connections and any traffic.           *)
(***************************************************************************)
EXTENDS Connection, TransportPings, FiniteSetTheorems, WellFoundedInduction, TLAPS

-----------------------------------------------------------------------------
(* Types: the jobs of the two queues.                                      *)

\* The head of a queue that is not empty is a job, the rest is a queue.
LEMMA HeadAndTail ==
    ASSUME NEW S, NEW s \in Seq(S), s # <<>>
    PROVE  Head(s) \in S /\ Tail(s) \in Seq(S)
OBVIOUS

LEMMA Appended ==
    ASSUME NEW S, NEW s \in Seq(S), NEW e \in S
    PROVE  Append(s, e) \in Seq(S)
OBVIOUS

\* What the jobs of TcpTransport's queue carry.
LEMMA TcpJobFields ==
    ASSUME NEW j \in TcpJobs
    PROVE  /\ j.op = "ping" => j.n \in ServerPings
           /\ j.op = "data" => j.body \in Contents
BY DEF TcpJobs

LEMMA ProtoJobFields ==
    ASSUME NEW j \in ProtoJobs
    PROVE  /\ j.op = "ready" => j.ping \in BOOLEAN /\ j.pong \in ServerPings \cup {0}
           /\ j.op = "incoming" => j.body \in Contents
BY DEF ProtoJobs

LEMMA ContentFields ==
    ASSUME NEW b \in Contents
    PROVE  /\ b.k = "ping" => b.n \in ServerPings
           /\ b.k = "reject" => b.mid \in Mids
BY DEF Contents

\* Ageing leaves a queue a queue.
LEMMA AgedContent ==
    ASSUME NEW b \in Contents, b.k = "reject"
    PROVE  [b EXCEPT !.mid = "older"] \in Contents
BY DEF Contents, Mids

LEMMA SequenceOf ==
    ASSUME NEW S, NEW n \in Nat, NEW f \in [1..n -> S]
    PROVE  f \in Seq(S)
OBVIOUS

LEMMA AgedTcpJobs ==
    ASSUME NEW q \in Seq(TcpJobs)
    PROVE  Aged(q) \in Seq(TcpJobs)
<1>0. /\ Len(q) \in Nat /\ DOMAIN q = 1..Len(q)
      /\ Aged(q) = [i \in DOMAIN q |-> Aged(q)[i]]
  BY DEF Aged
<1> SUFFICES ASSUME NEW i \in DOMAIN q
             PROVE  Aged(q)[i] \in TcpJobs
  <2>1. Aged(q) \in [1..Len(q) -> TcpJobs]
    BY <1>0
  <2> QED BY <1>0, <2>1, SequenceOf
<1>1. q[i] \in TcpJobs
  OBVIOUS
<1>2. CASE q[i].op = "failed"
  <2>1. q[i] \in [op : {"failed"}, mid : Mids]
    BY <1>1, <1>2 DEF TcpJobs
  <2>2. [q[i] EXCEPT !.mid = "older"] \in [op : {"failed"}, mid : Mids]
    BY <2>1 DEF Mids
  <2> QED BY <1>2, <2>2 DEF Aged, TcpJobs
<1>3. CASE q[i].op # "failed" /\ q[i].op \in {"data", "incoming"} /\ q[i].body.k = "reject"
  <2>1. q[i] \in [op : {"data"}, c : Connections, body : Contents]
    BY <1>1, <1>3 DEF TcpJobs
  <2>2. [q[i] EXCEPT !.body.mid = "older"] \in [op : {"data"}, c : Connections, body : Contents]
    BY <1>3, <2>1, AgedContent
  <2> QED BY <1>3, <2>2 DEF Aged, TcpJobs
<1>4. CASE q[i].op # "failed" /\ ~(q[i].op \in {"data", "incoming"} /\ q[i].body.k = "reject")
  <2>1. Aged(q)[i] = q[i]
    BY <1>4 DEF Aged
  <2> QED BY <1>1, <2>1
<1> QED BY <1>2, <1>3, <1>4

LEMMA AgedProtoJobs ==
    ASSUME NEW q \in Seq(ProtoJobs)
    PROVE  Aged(q) \in Seq(ProtoJobs)
<1>0. /\ Len(q) \in Nat /\ DOMAIN q = 1..Len(q)
      /\ Aged(q) = [i \in DOMAIN q |-> Aged(q)[i]]
  BY DEF Aged
<1> SUFFICES ASSUME NEW i \in DOMAIN q
             PROVE  Aged(q)[i] \in ProtoJobs
  <2>1. Aged(q) \in [1..Len(q) -> ProtoJobs]
    BY <1>0
  <2> QED BY <1>0, <2>1, SequenceOf
<1>1. q[i] \in ProtoJobs /\ q[i].op # "failed"
  BY DEF ProtoJobs
<1>2. CASE q[i].op \in {"data", "incoming"} /\ q[i].body.k = "reject"
  <2>1. q[i] \in [op : {"incoming"}, body : Contents]
    BY <1>1, <1>2 DEF ProtoJobs
  <2>2. [q[i] EXCEPT !.body.mid = "older"] \in [op : {"incoming"}, body : Contents]
    BY <1>2, <2>1, AgedContent
  <2> QED BY <1>1, <1>2, <2>2 DEF Aged, ProtoJobs
<1>3. CASE ~(q[i].op \in {"data", "incoming"} /\ q[i].body.k = "reject")
  <2>1. Aged(q)[i] = q[i]
    BY <1>1, <1>3 DEF Aged
  <2> QED BY <1>1, <2>1
<1> QED BY <1>2, <1>3

\* A transaction that is asked for leaves a context and a queue of Proto's.
LEMMA RequestedTypes ==
    ASSUME TypeOK, NEW c \in Context, RequestTransaction(c)
    PROVE  context' \in Context /\ proto' \in Seq(ProtoJobs)
<1>1. CASE ~c.delegate
  BY <1>1 DEF RequestTransaction, TypeOK
<1>2. CASE c.delegate
  <2>1. context' = [c EXCEPT !.didSendPing = TRUE]
    BY <1>2 DEF RequestTransaction
  <2> DEFINE job == [op |-> "ready", ping |-> ~c.didSendPing,
                     pong |-> IF c.serverPingMid # 0 /\ c.serverPingId # 0
                              THEN c.serverPingMid ELSE 0]
  <2>2. proto' = Append(proto, job)
    BY <1>2 DEF RequestTransaction
  <2>3. job \in ProtoJobs
    BY DEF Context, ProtoJobs
  <2> HIDE DEF job
  <2>4. proto' \in Seq(ProtoJobs)
    BY <2>2, <2>3 DEF TypeOK
  <2> QED BY <2>1, <2>4 DEF Context
<1> QED BY <1>1, <1>2

\* What the events count stays in its bounds.
LEMMA SpendTypes ==
    ASSUME TypeOK, NEW e \in DOMAIN Limit, Spend(e)
    PROVE  /\ spent' \in [DOMAIN Limit -> Nat]
           /\ \A f \in DOMAIN Limit : spent'[f] <= Limit[f]
<1>1. \A f \in DOMAIN Limit : Limit[f] \in Nat
  BY BoundsAssumption DEF Limit
<1> HIDE DEF Limit
<1> QED BY <1>1 DEF Spend, TypeOK

\* A connection is numbered by the closes there have been.
LEMMA NewConnectionType ==
    ASSUME TypeOK
    PROVE  NewConnection \in Context
<1>1. MaxCloses \in Nat /\ spent.close \in Nat /\ spent.close <= MaxCloses
  BY BoundsAssumption DEF TypeOK, Limit
<1>2. spent.close + 1 \in Connections
  BY <1>1 DEF Connections
<1> QED BY <1>2 DEF NewConnection, Context, TypeOK

\* What is posted to TcpTransport's queue is one of its jobs.
LEMMA PostTypes ==
    ASSUME TypeOK, NEW job \in TcpJobs, Post(job)
    PROVE  /\ context' \in Context /\ tcp' \in Seq(TcpJobs) /\ proto' \in Seq(ProtoJobs)
           /\ recording' \in ServerPings \cup {0} /\ clearing' \in BOOLEAN
           /\ attached' \in BOOLEAN
           /\ arrived' \in ServerPings \cup {0}
           /\ answered' \subseteq ServerPings /\ overtaken' \subseteq ServerPings
           /\ spoilt' \in BOOLEAN /\ beat' \in BOOLEAN
BY DEF Post, TypeOK, threads, history

LEMMA TcpTypes ==
    ASSUME TypeOK, TcpStep
    PROVE  TypeOK'
<1> DEFINE job == Head(tcp)
<1>1. ASSUME tcp # <<>>, TcpDone
      PROVE  job \in TcpJobs /\ tcp' \in Seq(TcpJobs)
  BY <1>1, HeadAndTail DEF TypeOK, TcpDone
<1>2. context \in Context /\ tcp \in Seq(TcpJobs) /\ proto \in Seq(ProtoJobs)
  BY DEF TypeOK
<1>3. CASE Ask
  <2>1. context' \in Context /\ proto' \in Seq(ProtoJobs) /\ net' \in {"starting", "open", "closed"}
    BY <1>2, <1>3, NewConnectionType, RequestedTypes DEF Ask, TypeOK
  <2> QED BY <1>1, <1>3, <2>1 DEF Ask, TcpJob, TypeOK, threads, history
<1>4. CASE ConnectionOpened
  <2>1. Opened(context) \in Context
    BY <1>2 DEF Opened, Context
  <2>2. context' \in Context /\ proto' \in Seq(ProtoJobs) /\ spoilt' \in BOOLEAN
    BY <1>2, <1>4, <2>1, RequestedTypes DEF ConnectionOpened, TypeOK
  <2> QED BY <1>1, <1>4, <2>2 DEF ConnectionOpened, TcpJob, TypeOK, threads
<1>5. CASE ConnectionClosed
  <2>1. [context EXCEPT !.connection = 0] \in Context
    BY <1>2 DEF Context
  <2>2. \A c \in Context : Closed(c) \in Context
    BY DEF Closed, Context
  <2>3. context' \in Context /\ net' \in {"starting", "open", "closed"}
        /\ arrived' \in ServerPings \cup {0}
    BY <1>2, <1>5, <2>1, <2>2, NewConnectionType DEF ConnectionClosed, TypeOK
  <2> QED BY <1>1, <1>5, <2>3 DEF ConnectionClosed, TcpJob, TypeOK, threads
<1>6. CASE ConnectionDidReceiveData
  <2>1. context' \in Context
    BY <1>2, <1>6 DEF ConnectionDidReceiveData, Context
  <2>2. [op |-> "incoming", body |-> job.body] \in ProtoJobs
    BY <1>1, <1>6, TcpJobFields DEF ConnectionDidReceiveData, TcpJob, ProtoJobs
  <2>3. proto' \in Seq(ProtoJobs)
    BY <1>2, <1>6, <2>2, Appended DEF ConnectionDidReceiveData
  <2> QED BY <1>1, <1>6, <2>1, <2>3 DEF ConnectionDidReceiveData, TcpJob, TypeOK, threads, history
<1>7. CASE ResendActualizationPing
  <2>1. Resent(context) \in Context
    BY <1>2 DEF Resent, Context
  <2>2. context' \in Context /\ proto' \in Seq(ProtoJobs)
    BY <1>2, <1>7, <2>1, RequestedTypes DEF ResendActualizationPing
  <2> QED BY <1>1, <1>7, <2>2 DEF ResendActualizationPing, TcpJob, TypeOK, threads, history
<1>8. CASE RecordMessageId
  <2>1. job.n \in ServerPings
    BY <1>2, <1>8, HeadAndTail, TcpJobFields DEF RecordMessageId, TcpJob
  <2>2. context' \in Context
    BY <1>2, <1>8, <2>1 DEF RecordMessageId, Context
  <2> QED BY <1>8, <2>1, <2>2 DEF RecordMessageId, TypeOK
<1>9. CASE RecordPingId
  <2>1. tcp' \in Seq(TcpJobs)
    BY <1>1, <1>9 DEF RecordPingId
  <2>2. recording \in ServerPings
    BY <1>9 DEF RecordPingId, TypeOK
  <2>3. [context EXCEPT !.serverPingId = recording] \in Context
    BY <1>2, <2>2 DEF Context
  <2>4. context' \in Context /\ proto' \in Seq(ProtoJobs)
    BY <1>9, <2>3, RequestedTypes DEF RecordPingId
  <2> QED BY <1>9, <2>1, <2>2, <2>4 DEF RecordPingId, TypeOK
<1>10. CASE MessageDeliveryFailed
  <2>1. [context EXCEPT !.timer = FALSE, !.pingMid = "none"] \in Context
    BY <1>2 DEF Context
  <2>2. context' \in Context
    BY <1>2, <1>10, <2>1 DEF MessageDeliveryFailed
  <2>3. spoilt' \in BOOLEAN
    BY <1>10 DEF MessageDeliveryFailed, TypeOK
  <2> QED BY <1>1, <1>10, <2>2, <2>3 DEF MessageDeliveryFailed, TcpJob, TypeOK, threads
<1>11. CASE SessionChanged
  <2>1. context' \in Context
    BY <1>2, <1>11 DEF SessionChanged, Context
  <2> QED BY <1>1, <1>11, <2>1 DEF SessionChanged, TcpJob, TypeOK, threads, history
<1>12. CASE Detach
  <2>1. context' \in Context
    BY <1>2, <1>12 DEF Detach, Context
  <2> QED BY <1>1, <1>12, <2>1 DEF Detach, TcpJob, TypeOK, threads, history
<1>13. CASE Stop
  <2>1. [context EXCEPT !.connection = 0, !.timer = FALSE] \in Context
    BY <1>2 DEF Context
  <2>2. context' \in Context
    BY <1>2, <1>13, <2>1 DEF Stop
  <2>3. net' \in {"starting", "open", "closed"}
    BY <1>13 DEF Stop, TypeOK
  <2> QED BY <1>1, <1>13, <2>2, <2>3 DEF Stop, TcpJob, TypeOK, threads, history
<1> QED BY <1>3, <1>4, <1>5, <1>6, <1>7, <1>8, <1>9, <1>10, <1>11, <1>12, <1>13 DEF TcpStep

LEMMA ProtoTypes ==
    ASSUME TypeOK, ProtoStep
    PROVE  TypeOK'
<1> DEFINE job == Head(proto)
<1>1. context \in Context /\ tcp \in Seq(TcpJobs) /\ proto \in Seq(ProtoJobs)
  BY DEF TypeOK
<1>2. ASSUME proto # <<>>
      PROVE  job \in ProtoJobs /\ Tail(proto) \in Seq(ProtoJobs)
  BY <1>1, <1>2, HeadAndTail
<1>3. CASE ReadySend
  <2>1. job.ping \in BOOLEAN /\ job.pong \in ServerPings \cup {0}
    BY <1>2, <1>3, ProtoJobFields DEF ReadySend, ProtoJob
  <2>2. context' \in Context
    BY <1>1, <1>3, <2>1 DEF ReadySend, Sent, Context
  <2>3. tcp' \in Seq(TcpJobs) /\ proto' \in Seq(ProtoJobs)
    BY <1>1, <1>2, <1>3, AgedTcpJobs, AgedProtoJobs DEF ReadySend, ProtoJob
  <2>4. clearing' \in BOOLEAN /\ beat' \in BOOLEAN
    BY <1>3, <2>1 DEF ReadySend, TypeOK
  <2>5. answered' \subseteq ServerPings /\ overtaken' \subseteq ServerPings
    BY <1>3, <2>1 DEF ReadySend, TypeOK
  <2> QED BY <1>3, <2>2, <2>3, <2>4, <2>5 DEF ReadySend, TypeOK
<1>4. CASE ClearPingId
  <2>1. context' \in Context
    BY <1>1, <1>4 DEF ClearPingId, Context
  <2> QED BY <1>4, <2>1 DEF ClearPingId, TypeOK
<1>5. CASE ReadyFail
  BY <1>2, <1>5 DEF ReadyFail, ProtoJob, ProtoDone, TypeOK, threads, history
<1>6. CASE ReadyRefuse
  <2>1. spent' \in [DOMAIN Limit -> Nat] /\ \A f \in DOMAIN Limit : spent'[f] <= Limit[f]
    BY <1>6, SpendTypes DEF ReadyRefuse, Limit
  <2>2. job.ping \in BOOLEAN
    BY <1>2, <1>6, ProtoJobFields DEF ReadyRefuse, ProtoJob
  <2>3. spoilt' \in BOOLEAN
    BY <1>6, <2>2 DEF ReadyRefuse, TypeOK
  <2> QED BY <1>2, <1>6, <2>1, <2>3 DEF ReadyRefuse, ProtoJob, ProtoDone, TypeOK, threads
<1>7. CASE ReadyStale
  BY <1>2, <1>7 DEF ReadyStale, ProtoJob, ProtoDone, TypeOK, threads, history
<1>8. CASE Incoming
  <2>1. job.body \in Contents
    BY <1>2, <1>8, ProtoJobFields DEF Incoming, ProtoJob
  <2>2. job.body.k = "ping" => [op |-> "ping", n |-> job.body.n] \in TcpJobs
    BY <2>1, ContentFields DEF TcpJobs
  <2>3. job.body.k = "reject" => [op |-> "failed", mid |-> job.body.mid] \in TcpJobs
    BY <2>1, ContentFields DEF TcpJobs
  <2>4. tcp' \in Seq(TcpJobs)
    BY <1>1, <1>8, <2>2, <2>3 DEF Incoming
  <2> QED BY <1>2, <1>8, <2>4 DEF Incoming, ProtoJob, ProtoDone, TypeOK, threads, history
<1> QED BY <1>3, <1>4, <1>5, <1>6, <1>7, <1>8 DEF ProtoStep

LEMMA OutsideTypes ==
    ASSUME TypeOK, Outside
    PROVE  TypeOK'
<1>1. context.connection # 0 => context.connection \in Connections
  BY DEF TypeOK, Context
<1>2. CASE NetOpens
  <2>1. [op |-> "opened", c |-> context.connection] \in TcpJobs
    BY <1>1, <1>2 DEF NetOpens, TcpJobs
  <2> QED BY <1>2, <2>1, PostTypes DEF NetOpens, TypeOK
<1>3. CASE NetCloses
  <2>1. [op |-> "closed", c |-> context.connection] \in TcpJobs
    BY <1>1, <1>3 DEF NetCloses, TcpJobs
  <2>2. spent' \in [DOMAIN Limit -> Nat] /\ \A f \in DOMAIN Limit : spent'[f] <= Limit[f]
    BY <1>3, SpendTypes DEF NetCloses, Limit
  <2> QED BY <1>3, <2>1, <2>2, PostTypes DEF NetCloses, TypeOK
<1>4. CASE ServerAnswers
  <2> DEFINE job == [op |-> "data", c |-> context.connection, body |-> [k |-> "other"]]
  <2>1. job \in TcpJobs
    BY <1>1, <1>4 DEF ServerAnswers, ServerReached, TcpJobs, Contents
  <2> QED BY <1>4, <2>1, PostTypes DEF ServerAnswers, TypeOK
<1>5. CASE ServerPing
  <2> DEFINE body == [k |-> "ping", n |-> spent.ping + 1]
             job == [op |-> "data", c |-> context.connection, body |-> body]
  <2>1. spent' \in [DOMAIN Limit -> Nat] /\ \A f \in DOMAIN Limit : spent'[f] <= Limit[f]
    BY <1>5, SpendTypes DEF ServerPing, Limit
  <2>2. spent.ping + 1 \in ServerPings
    BY SMTT(30), <1>5, BoundsAssumption DEF ServerPing, Spend, TypeOK, Limit, ServerPings
  <2>3. body \in Contents
    BY <2>2 DEF Contents
  <2>4. job \in TcpJobs
    BY <1>1, <1>5, <2>3 DEF ServerPing, ServerReached, TcpJobs
  <2> QED BY <1>5, <2>1, <2>4, PostTypes DEF ServerPing, TypeOK
<1>6. CASE ServerRejects
  <2> DEFINE body == [k |-> "reject", mid |-> "latest"]
             job == [op |-> "data", c |-> context.connection, body |-> body]
  <2>1. spent' \in [DOMAIN Limit -> Nat] /\ \A f \in DOMAIN Limit : spent'[f] <= Limit[f]
    BY <1>6, SpendTypes DEF ServerRejects, Limit
  <2>2. body \in Contents
    BY DEF Contents, Mids
  <2>3. job \in TcpJobs
    BY <1>1, <1>6, <2>2 DEF ServerRejects, ServerReached, TcpJobs
  <2> QED BY <1>6, <2>1, <2>3, PostTypes DEF ServerRejects, TypeOK
<1>7. CASE NeedsTransaction
  <2>1. spent' \in [DOMAIN Limit -> Nat] /\ \A f \in DOMAIN Limit : spent'[f] <= Limit[f]
    BY <1>7, SpendTypes DEF NeedsTransaction, Limit
  <2>2. [op |-> "ask"] \in TcpJobs
    BY DEF TcpJobs
  <2> QED BY <1>7, <2>1, <2>2, PostTypes DEF NeedsTransaction, TypeOK
<1>8. CASE TimerFires
  <2>1. [op |-> "resend"] \in TcpJobs
    BY DEF TcpJobs
  <2> QED BY <1>8, <2>1, PostTypes DEF TimerFires, TypeOK
<1>9. CASE SessionChanges
  <2> DEFINE jobs == <<[op |-> "sessionChanged"], [op |-> "detach"], [op |-> "stop"]>>
  <2>1. jobs \in Seq(TcpJobs)
    BY DEF TcpJobs
  <2>2. tcp' \in Seq(TcpJobs)
    BY <1>9, <2>1 DEF SessionChanges, TypeOK
  <2> QED BY <1>9, <2>2 DEF SessionChanges, TypeOK, threads, history
<1> QED BY <1>2, <1>3, <1>4, <1>5, <1>6, <1>7, <1>8, <1>9 DEF Outside

\* Every variable keeps to its type, and what either queue holds is a job of its
\* own (TcpTransportContext, the two queues).
THEOREM TypeCorrect == Spec => []TypeOK
<1>1. Init => TypeOK
  <2> SUFFICES ASSUME Init PROVE TypeOK
    OBVIOUS
  <2>1. 1 \in Connections
    BY BoundsAssumption DEF Connections
  <2>2. context \in Context
    BY <2>1 DEF Init, Context
  <2>3. spent \in [DOMAIN Limit -> Nat] /\ \A e \in DOMAIN Limit : spent[e] <= Limit[e]
    BY BoundsAssumption DEF Init, Limit
  <2>4. tcp \in Seq(TcpJobs) /\ proto \in Seq(ProtoJobs)
    BY DEF Init
  <2>5. /\ net \in {"starting", "open", "closed"}
        /\ recording \in ServerPings \cup {0} /\ clearing \in BOOLEAN
        /\ attached \in BOOLEAN
        /\ arrived \in ServerPings \cup {0}
        /\ answered \subseteq ServerPings /\ overtaken \subseteq ServerPings
        /\ spoilt \in BOOLEAN /\ beat \in BOOLEAN
    BY DEF Init
  <2> QED BY <2>2, <2>3, <2>4, <2>5 DEF TypeOK
<1>2. TypeOK /\ [Next]_vars => TypeOK'
  <2> SUFFICES ASSUME TypeOK, [Next]_vars PROVE TypeOK'
    OBVIOUS
  <2>1. CASE Reconnect
    <3>1. context' \in Context
      BY <2>1, NewConnectionType DEF Reconnect
    <3> QED BY <2>1, <3>1 DEF Reconnect, TypeOK, threads, history
  <2>2. CASE UNCHANGED vars
    BY <2>2 DEF TypeOK, vars, threads, history
  <2> QED BY <2>1, <2>2, TcpTypes, ProtoTypes, OutsideTypes DEF Next
<1> QED BY <1>1, <1>2, PTL DEF Spec

-----------------------------------------------------------------------------
(* What is owed to the server.                                             *)

\* While a ping is written down its first field is there already, unless a
\* completion on the other thread has cleared it.
RecordingInv ==
    recording \in {0} \cup answered \cup overtaken \/ context.serverPingMid = recording

OwedInv == TypeOK /\ RecordingInv /\ PongsAreOwed

\* Asking for a transaction leaves the server's ping alone.
LEMMA RequestedKeeps ==
    ASSUME NEW c \in Context, RequestTransaction(c)
    PROVE  /\ context'.serverPingMid = c.serverPingMid
           /\ context'.serverPingId = c.serverPingId
BY DEF RequestTransaction, Context

\* A step that leaves the server's ping, or starts anew with none, keeps what
\* is owed.
LEMMA OwedStays ==
    ASSUME OwedInv,
           context'.serverPingMid = context.serverPingMid,
           context'.serverPingId = context.serverPingId,
           recording' = recording,
           UNCHANGED <<arrived, answered, overtaken>>
    PROVE  RecordingInv' /\ PongsAreOwed'
BY DEF OwedInv, RecordingInv, PongsAreOwed

LEMMA TcpOwed ==
    ASSUME OwedInv, TcpStep
    PROVE  RecordingInv' /\ PongsAreOwed'
<1>1. context \in Context /\ NewConnection \in Context
  BY NewConnectionType DEF OwedInv, TypeOK
<1>2. /\ NewConnection.serverPingMid = context.serverPingMid
      /\ NewConnection.serverPingId = context.serverPingId
  BY <1>1 DEF NewConnection, Context
<1>3. CASE Ask
  <2>1. /\ context'.serverPingMid = context.serverPingMid
        /\ context'.serverPingId = context.serverPingId
    BY <1>1, <1>2, <1>3, RequestedKeeps DEF Ask
  <2> QED BY <1>3, <2>1, OwedStays DEF Ask, threads, history
<1>4. CASE ConnectionOpened
  <2>1. /\ Opened(context) \in Context
        /\ Opened(context).serverPingMid = context.serverPingMid
        /\ Opened(context).serverPingId = context.serverPingId
    BY <1>1 DEF Opened, Context
  <2>2. /\ context'.serverPingMid = context.serverPingMid
        /\ context'.serverPingId = context.serverPingId
    BY <1>4, <2>1, RequestedKeeps DEF ConnectionOpened
  <2> QED BY <1>4, <2>2, OwedStays DEF ConnectionOpened, threads
<1>5. CASE ConnectionClosed
  <2>1. CASE Head(tcp).c = context.connection
    <3>1. arrived' = 0 /\ recording' = 0
      BY <1>5, <2>1 DEF ConnectionClosed, TcpJob, threads
    <3> QED BY <3>1 DEF RecordingInv, PongsAreOwed
  <2>2. CASE Head(tcp).c # context.connection
    BY <1>5, <2>2, OwedStays DEF ConnectionClosed, threads
  <2> QED BY <2>1, <2>2
<1>6. CASE ConnectionDidReceiveData
  <2>1. /\ context'.serverPingMid = context.serverPingMid
        /\ context'.serverPingId = context.serverPingId
    BY <1>1, <1>6 DEF ConnectionDidReceiveData, Context
  <2> QED BY <1>6, <2>1, OwedStays DEF ConnectionDidReceiveData, threads, history
<1>7. CASE ResendActualizationPing
  <2>1. /\ Resent(context) \in Context
        /\ Resent(context).serverPingMid = context.serverPingMid
        /\ Resent(context).serverPingId = context.serverPingId
    BY <1>1 DEF Resent, Context
  <2>2. /\ context'.serverPingMid = context.serverPingMid
        /\ context'.serverPingId = context.serverPingId
    BY <1>7, <2>1, RequestedKeeps DEF ResendActualizationPing
  <2> QED BY <1>7, <2>2, OwedStays DEF ResendActualizationPing, threads, history
<1>8. CASE RecordMessageId
  <2>1. context'.serverPingMid = recording' /\ arrived' = 0
    BY <1>1, <1>8 DEF RecordMessageId, Context
  <2> QED BY <2>1 DEF RecordingInv, PongsAreOwed
<1>9. CASE RecordPingId
  <2> DEFINE c == [context EXCEPT !.serverPingId = recording]
  <2>1. recording \in ServerPings \cup {0}
    BY DEF OwedInv, TypeOK
  <2>2. c \in Context /\ c.serverPingMid = context.serverPingMid /\ c.serverPingId = recording
    BY <1>1, <2>1 DEF Context
  <2>3. /\ context'.serverPingMid = context.serverPingMid
        /\ context'.serverPingId = recording
    BY <1>9, <2>2, RequestedKeeps DEF RecordPingId
  <2>4. /\ recording' = 0 /\ arrived' = recording
        /\ answered' = answered /\ overtaken' = overtaken
    BY <1>9 DEF RecordPingId
  <2> QED BY <2>3, <2>4 DEF OwedInv, RecordingInv, PongsAreOwed
<1>10. CASE MessageDeliveryFailed
  <2>1. /\ context'.serverPingMid = context.serverPingMid
        /\ context'.serverPingId = context.serverPingId
    BY <1>1, <1>10 DEF MessageDeliveryFailed, Context
  <2> QED BY <1>10, <2>1, OwedStays DEF MessageDeliveryFailed, threads
<1>11. CASE SessionChanged \/ Detach \/ Stop
  <2>1. /\ context'.serverPingMid = context.serverPingMid
        /\ context'.serverPingId = context.serverPingId
    BY <1>1, <1>11 DEF SessionChanged, Detach, Stop, Context
  <2> QED BY <1>11, <2>1, OwedStays DEF SessionChanged, Detach, Stop, threads, history
<1> QED BY <1>3, <1>4, <1>5, <1>6, <1>7, <1>8, <1>9, <1>10, <1>11 DEF TcpStep

LEMMA ProtoOwed ==
    ASSUME OwedInv, ProtoStep
    PROVE  RecordingInv' /\ PongsAreOwed'
<1> DEFINE job == Head(proto)
<1>1. context \in Context
  BY DEF OwedInv, TypeOK
<1>2. CASE ReadySend /\ job.pong # 0
  <2>1. /\ answered' = answered \cup {job.pong}
        /\ overtaken' = overtaken \cup ({recording, arrived} \ {0, job.pong})
        /\ recording' = recording /\ arrived' = arrived
    BY <1>2 DEF ReadySend
  <2>2. recording' \in {0} \cup answered' \cup overtaken'
    BY <2>1
  <2>3. arrived' \in {0} \cup answered' \cup overtaken'
    BY <2>1
  <2> QED BY <2>2, <2>3 DEF RecordingInv, PongsAreOwed
<1>3. CASE ReadySend /\ job.pong = 0
  <2>1. /\ context'.serverPingMid = context.serverPingMid
        /\ context'.serverPingId = context.serverPingId
    BY <1>1, <1>3 DEF ReadySend, Sent, Context
  <2>2. UNCHANGED <<recording, arrived, answered, overtaken>>
    BY <1>3 DEF ReadySend
  <2> QED BY <2>1, <2>2, OwedStays
<1>4. CASE ClearPingId
  <2>1. /\ context'.serverPingMid = context.serverPingMid
        /\ overtaken' = overtaken \cup ({arrived} \ ({0} \cup answered))
        /\ UNCHANGED <<recording, arrived, answered>>
    BY <1>1, <1>4 DEF ClearPingId, Context
  <2>2. arrived' \in {0} \cup answered' \cup overtaken'
    BY <2>1
  <2> QED BY <2>1, <2>2 DEF OwedInv, RecordingInv, PongsAreOwed
<1>5. CASE ReadyFail \/ ReadyRefuse \/ ReadyStale \/ Incoming
  BY <1>5, OwedStays DEF ReadyFail, ReadyRefuse, ReadyStale, Incoming, threads, history
<1> QED BY <1>2, <1>3, <1>4, <1>5 DEF ProtoStep

\* The last ping that came stays written down until its pong is sent, unless a
\* completion of an older pong, on Proto's thread, clears it (TcpTransport's
\* protoDidReceiveMessage and the completed closure of its transactions).
THEOREM PongsAreAlwaysOwed == Spec => []PongsAreOwed
<1>1. Init => RecordingInv /\ PongsAreOwed
  BY DEF Init, RecordingInv, PongsAreOwed
<1>2. OwedInv /\ [Next]_vars => RecordingInv' /\ PongsAreOwed'
  <2> SUFFICES ASSUME OwedInv, [Next]_vars PROVE RecordingInv' /\ PongsAreOwed'
    OBVIOUS
  <2>1. CASE Reconnect
    <3>1. /\ context'.serverPingMid = context.serverPingMid
          /\ context'.serverPingId = context.serverPingId
      BY <2>1 DEF Reconnect, NewConnection, OwedInv, TypeOK, Context
    <3> QED BY <2>1, <3>1, OwedStays DEF Reconnect, threads, history
  <2>2. CASE Outside
    BY <2>2, OwedStays DEF Outside, NetOpens, NetCloses, ServerAnswers, ServerPing, ServerRejects,
                           NeedsTransaction, TimerFires, SessionChanges, Post, threads, history
  <2>3. CASE UNCHANGED vars
    BY <2>3, OwedStays DEF vars, threads, history
  <2> QED BY <2>1, <2>2, <2>3, TcpOwed, ProtoOwed DEF Next
<1>3. OwedInv <=> TypeOK /\ RecordingInv /\ PongsAreOwed
  BY DEF OwedInv
<1> QED BY <1>1, <1>2, <1>3, TypeCorrect, PTL DEF Spec

-----------------------------------------------------------------------------
(* Connection: its state, and what is always true of it.                   *)

TcpOps == {"delegate", "noDelegate", "start", "stop", "send", "opened", "lost", "data"}
NetOps == {"delegate", "noDelegate", "connect", "read", "send", "close", "dequeueRead",
           "dequeueWrite", "data"}
Pieces == {"len", "far", "zero", "length", "huge", "body"}

SocketTcpJobs ==
    Jobs(TcpOps \ {"data"}) \cup [op : {"data"}, c : Conns, tag : Tags, item : Pieces]
SocketNetJobs ==
    Jobs(NetOps \ {"read", "data"})
        \cup [op : {"read"}, c : Conns, tag : Tags]
        \cup [op : {"data"}, c : Conns, tag : Tags, item : Pieces]

ConnStates == [user : {"none", "holds", "dropped", "leftover", "abandoned"},
               delegate : BOOLEAN, socket : BOOLEAN, closed : BOOLEAN]
SockStates == [fd : Fds \cup {NoFd}, failed : BOOLEAN, reading : BOOLEAN, delegate : BOOLEAN,
               reads : Seq(Tags), sends : Nat]
RecvStates == [st : {"idle", "posted", "loaded", "blocked"}, tag : Tags, fd : Fds \cup {NoFd},
               on : Conns \cup {None}]
WireStates == [items : Seq(Pieces), up : BOOLEAN]
ToldStates == [opened : BOOLEAN, closed : Nat, data : Nat]

ConnType ==
    /\ conn \in [Conns -> ConnStates] /\ sock \in [Conns -> SockStates]
    /\ recv \in [Conns -> RecvStates] /\ owner \in [Fds -> Conns \cup {None}]
    /\ wire \in [Conns -> WireStates] /\ told \in [Conns -> ToldStates]
    /\ refused \subseteq Conns
    /\ tcpJobs \in Seq(SocketTcpJobs) /\ netJobs \in Seq(SocketNetJobs)

\* a job of a connection is in a queue, and every job of the first kind is ahead
\* of those of the second
On(q, op, c) == \E i \in DOMAIN q : q[i].op = op /\ q[i].c = c
Ahead(q, a, c, b, d) ==
    \A i, j \in DOMAIN q : q[i].op = a /\ q[i].c = c /\ q[j].op = b /\ q[j].c = d => i <= j

\* How far a connection has got.
Unstarted(c) == conn[c].user = "none" \/ On(tcpJobs, "start", c)
Unconnected(c) == Unstarted(c) \/ On(netJobs, "connect", c)
Owns(c) == \E f \in Fds : owner[f] = c
Gone(c) == ~Unconnected(c) /\ ~Owns(c)
Deaf(c) == ~conn[c].delegate /\ ~On(tcpJobs, "delegate", c)
IsFree(f) == f = NoFd \/ owner[f] = None

\* The order of the jobs in a queue: a connection's delegate comes first, then
\* its start; it is told of its opening ahead of its data, and unless it is one of
\* L it has given up its delegate before a later one starts.
TcpInOrder(q, L) ==
    \A c \in Conns :
        /\ \A op \in TcpOps : Ahead(q, "delegate", c, op, c)
        /\ \A op \in TcpOps \ {"delegate"} : Ahead(q, "start", c, op, c)
        /\ Ahead(q, "opened", c, "data", c)
        /\ \A d \in Conns : c < d => /\ Ahead(q, "start", c, "start", d)
                                     /\ c \notin L => Ahead(q, "noDelegate", c, "start", d)

\* A socket has its delegate before it connects, and connects before it reads.
NetInOrder(q) ==
    \A c \in Conns :
        /\ Ahead(q, "delegate", c, "connect", c)
        /\ Ahead(q, "delegate", c, "read", c)
        /\ Ahead(q, "connect", c, "read", c)
        /\ \A d \in Conns : c <= d => Ahead(q, "connect", c, "connect", d)

JobsInOrder == TcpInOrder(tcpJobs, Late) /\ NetInOrder(netJobs)

\* Nothing of a connection happens before its time.
Begun(c) ==
    /\ conn[c].user = "none" => ~conn[c].delegate /\ \A op \in TcpOps : ~On(tcpJobs, op, c)
    /\ Unstarted(c) => /\ ~conn[c].socket /\ ~conn[c].closed
                       /\ \A op \in NetOps : ~On(netJobs, op, c)
    /\ Unconnected(c) =>
          /\ sock[c].fd = NoFd /\ recv[c].st = "idle" /\ c \notin refused
          /\ ~On(netJobs, "data", c)
          /\ \A op \in {"opened", "lost", "data"} : ~On(tcpJobs, op, c)

\* It has its socket from when it is started to when it is closed, and until then
\* the socket has its delegate, and a read behind the connect to keep it.
SocketKept(c) ==
    /\ conn[c].socket => ~conn[c].closed
    /\ ~Unstarted(c) => conn[c].socket \/ conn[c].closed
    /\ On(netJobs, "noDelegate", c) => conn[c].closed
    /\ ~Unstarted(c) => On(netJobs, "delegate", c) \/ sock[c].delegate \/ conn[c].closed
    /\ On(netJobs, "delegate", c) \/ On(netJobs, "connect", c) => On(netJobs, "read", c)

\* It owns no descriptor but its socket's, and is there to close it.
OwnerKnows(c) ==
    /\ \A f \in Fds : owner[f] = c => sock[c].fd = f
    /\ On(tcpJobs, "lost", c) \/ told[c].closed > 0 => conn[c].closed \/ Gone(c)
    /\ conn[c].user = "dropped" => conn[c].closed \/ On(tcpJobs, "stop", c) \/ Gone(c)

\* Once connected it is told so, as long as it listens.
OpenedIsTold(c) ==
    ~Unconnected(c) /\ c \notin refused =>
        On(tcpJobs, "opened", c) \/ told[c].opened \/ conn[c].closed \/ Deaf(c)

\* Connections take turns: those before it listen no more when one starts, those
\* apart that were begun behind a stop.
InTurn(c) ==
    /\ conn[c].user \in {"dropped", "abandoned"} => On(tcpJobs, "noDelegate", c) \/ Deaf(c)
    /\ \A d \in Conns : c < d =>
          /\ conn[d].user # "none" => conn[c].user = "dropped" \/ c \in Late
          /\ ~Unstarted(d) => (Deaf(c) \/ c \in Late) /\ ~Unstarted(c)

\* While one whose connect failed listens, nobody connects: the descriptor whose
\* number it keeps is nobody's, and it receives nothing.
HearsNothing(c) ==
    /\ \A d \in Conns : ~On(netJobs, "connect", d)
    /\ ~On(netJobs, "data", c) /\ ~On(tcpJobs, "data", c)
    /\ IsFree(sock[c].fd)
    /\ recv[c].st = "loaded" => IsFree(recv[c].fd)
    /\ recv[c].st = "blocked" => recv[c].on = None

FdsAreOwn == refused = {} => \A c \in Conns : sock[c].fd # NoFd => owner[sock[c].fd] = c

ConnSafe ==
    /\ FdsAreOwn
    /\ \A c \in Conns : /\ Begun(c) /\ SocketKept(c) /\ OwnerKnows(c) /\ OpenedIsTold(c) /\ InTurn(c)
                        /\ c \in refused => c \in Late \/ Deaf(c) \/ HearsNothing(c)

ConnInv == ConnType /\ JobsInOrder /\ ConnSafe

-----------------------------------------------------------------------------
(* The queues.                                                             *)

\* What is in a queue that grows at its end, or loses its head.
LEMMA OnConcat ==
    ASSUME NEW X, NEW q \in Seq(X), NEW r \in Seq(X), NEW op, NEW c
    PROVE  On(q \o r, op, c) <=> On(q, op, c) \/ On(r, op, c)
<1>1. ASSUME On(q \o r, op, c) PROVE On(q, op, c) \/ On(r, op, c)
  <2>1. PICK i \in DOMAIN (q \o r) : (q \o r)[i].op = op /\ (q \o r)[i].c = c
    BY <1>1 DEF On
  <2>2. CASE i \in DOMAIN q
    BY <2>1, <2>2 DEF On
  <2>3. CASE i \notin DOMAIN q
    <3>1. i - Len(q) \in DOMAIN r /\ (q \o r)[i] = r[i - Len(q)]
      BY <2>3
    <3> QED BY <3>1, <2>1 DEF On
  <2> QED BY <2>2, <2>3
<1>2. ASSUME On(q, op, c) PROVE On(q \o r, op, c)
  <2>1. PICK i \in DOMAIN q : q[i].op = op /\ q[i].c = c
    BY <1>2 DEF On
  <2>2. i \in DOMAIN (q \o r) /\ (q \o r)[i] = q[i]
    OBVIOUS
  <2> QED BY <2>1, <2>2 DEF On
<1>3. ASSUME On(r, op, c) PROVE On(q \o r, op, c)
  <2>1. PICK i \in DOMAIN r : r[i].op = op /\ r[i].c = c
    BY <1>3 DEF On
  <2>2. i + Len(q) \in DOMAIN (q \o r) /\ (q \o r)[i + Len(q)] = r[i]
    OBVIOUS
  <2> QED BY <2>1, <2>2 DEF On
<1> QED BY <1>1, <1>2, <1>3

LEMMA OnTail ==
    ASSUME NEW X, NEW q \in Seq(X), q # <<>>, NEW op, NEW c
    PROVE  On(q, op, c) <=> (Head(q).op = op /\ Head(q).c = c) \/ On(Tail(q), op, c)
<1>1. ASSUME On(q, op, c), ~(Head(q).op = op /\ Head(q).c = c) PROVE On(Tail(q), op, c)
  <2>1. PICK i \in DOMAIN q : q[i].op = op /\ q[i].c = c
    BY <1>1 DEF On
  <2>2. i # 1
    BY <1>1, <2>1
  <2>3. i - 1 \in DOMAIN Tail(q) /\ Tail(q)[i - 1] = q[i]
    BY <2>2
  <2> QED BY <2>1, <2>3 DEF On
<1>2. ASSUME On(Tail(q), op, c) PROVE On(q, op, c)
  <2>1. PICK i \in DOMAIN Tail(q) : Tail(q)[i].op = op /\ Tail(q)[i].c = c
    BY <1>2 DEF On
  <2>2. i + 1 \in DOMAIN q /\ Tail(q)[i] = q[i + 1]
    OBVIOUS
  <2> QED BY <2>1, <2>2 DEF On
<1>3. Head(q) = q[1] /\ 1 \in DOMAIN q
  OBVIOUS
<1> QED BY <1>1, <1>2, <1>3 DEF On

LEMMA OnEmpty == \A op, c : ~On(<<>>, op, c)
BY DEF On

LEMMA OnOne == \A e, op, c : On(<<e>>, op, c) <=> e.op = op /\ e.c = c
BY DEF On

\* The order in such a queue.
LEMMA AheadTail ==
    ASSUME NEW X, NEW q \in Seq(X), q # <<>>, NEW a, NEW c, NEW b, NEW d, Ahead(q, a, c, b, d)
    PROVE  /\ Ahead(Tail(q), a, c, b, d)
           /\ Head(q).op = b /\ Head(q).c = d => ~On(Tail(q), a, c)
<1>1. ASSUME NEW i \in DOMAIN Tail(q)
      PROVE  i + 1 \in DOMAIN q /\ Tail(q)[i] = q[i + 1] /\ i \in Nat /\ i > 0
  OBVIOUS
<1>2. Ahead(Tail(q), a, c, b, d)
  <2> SUFFICES ASSUME NEW i \in DOMAIN Tail(q), NEW j \in DOMAIN Tail(q),
                      Tail(q)[i].op = a, Tail(q)[i].c = c, Tail(q)[j].op = b, Tail(q)[j].c = d
               PROVE  i <= j
    BY DEF Ahead
  <2>1. i + 1 <= j + 1
    BY <1>1 DEF Ahead
  <2> QED BY <2>1, <1>1
<1>3. ASSUME Head(q).op = b, Head(q).c = d, On(Tail(q), a, c) PROVE FALSE
  <2>1. PICK i \in DOMAIN Tail(q) : Tail(q)[i].op = a /\ Tail(q)[i].c = c
    BY <1>3 DEF On
  <2>2. Head(q) = q[1] /\ 1 \in DOMAIN q
    OBVIOUS
  <2>3. i + 1 <= 1
    BY <2>1, <2>2, <1>1, <1>3 DEF Ahead
  <2> QED BY <2>3, <1>1
<1> QED BY <1>2, <1>3

LEMMA AheadConcat ==
    ASSUME NEW X, NEW q \in Seq(X), NEW r \in Seq(X), NEW a, NEW c, NEW b, NEW d,
           Ahead(q, a, c, b, d), Ahead(r, a, c, b, d),
           ~On(q, b, d) \/ ~On(r, a, c)
    PROVE  Ahead(q \o r, a, c, b, d)
<1> DEFINE s == q \o r
<1> SUFFICES ASSUME NEW i \in DOMAIN s, NEW j \in DOMAIN s,
                    s[i].op = a, s[i].c = c, s[j].op = b, s[j].c = d
             PROVE  i <= j
  BY DEF Ahead
<1>1. ASSUME NEW k \in DOMAIN s
      PROVE  /\ k \in Nat /\ Len(q) \in Nat
             /\ k <= Len(q) => k \in DOMAIN q /\ s[k] = q[k]
             /\ k > Len(q) => k - Len(q) \in DOMAIN r /\ s[k] = r[k - Len(q)]
  OBVIOUS
<1> HIDE DEF s
<1>2. CASE i <= Len(q) /\ j <= Len(q)
  BY <1>1, <1>2 DEF Ahead
<1>3. CASE i > Len(q) /\ j > Len(q)
  <2>1. i - Len(q) <= j - Len(q)
    BY <1>1, <1>3 DEF Ahead
  <2> QED BY <2>1, <1>1
<1>4. CASE i <= Len(q) /\ j > Len(q)
  BY <1>1, <1>4
<1>5. CASE i > Len(q) /\ j <= Len(q)
  <2>1. On(q, b, d) /\ On(r, a, c)
    BY <1>1, <1>5 DEF On
  <2> QED BY <2>1
<1> QED BY <1>1, <1>2, <1>3, <1>4, <1>5

LEMMA AheadEmpty == \A a, c, b, d : Ahead(<<>>, a, c, b, d)
BY DEF Ahead

LEMMA AheadOne == \A e, a, c, b, d : Ahead(<<e>>, a, c, b, d)
BY DEF Ahead

\* The same of one job more.
LEMMA OnAppend ==
    ASSUME NEW X, NEW q \in Seq(X), NEW e \in X
    PROVE  /\ Append(q, e) \in Seq(X)
           /\ \A op, c : On(Append(q, e), op, c) <=> On(q, op, c) \/ (e.op = op /\ e.c = c)
<1>1. Append(q, e) = q \o <<e>> /\ <<e>> \in Seq(X)
  OBVIOUS
<1>2. \A op, c : On(Append(q, e), op, c) <=> On(q, op, c) \/ (e.op = op /\ e.c = c)
  <2> TAKE op, c
  <2>1. On(<<e>>, op, c) <=> e.op = op /\ e.c = c
    BY OnOne
  <2>2. On(q \o <<e>>, op, c) <=> On(q, op, c) \/ On(<<e>>, op, c)
    BY <1>1, OnConcat
  <2>3. Append(q, e) = q \o <<e>>
    BY <1>1
  <2> QED BY <2>1, <2>2, <2>3
<1> QED BY <1>2

LEMMA AheadAppend ==
    ASSUME NEW X, NEW q \in Seq(X), NEW e \in X, NEW a, NEW c, NEW b, NEW d,
           Ahead(q, a, c, b, d), ~On(q, b, d) \/ ~(e.op = a /\ e.c = c)
    PROVE  Ahead(Append(q, e), a, c, b, d)
<1>1. Append(q, e) = q \o <<e>> /\ <<e>> \in Seq(X)
  OBVIOUS
<1>2. Ahead(<<e>>, a, c, b, d)
  BY AheadOne
<1>3. On(<<e>>, a, c) <=> e.op = a /\ e.c = c
  BY OnOne
<1> QED BY <1>1, <1>2, <1>3, AheadConcat

LEMMA Appends ==
    ASSUME NEW X, NEW q \in Seq(X), NEW e \in X, NEW f \in X, NEW g \in X
    PROVE  /\ q \o <<e>> = Append(q, e)
           /\ q \o <<e, f>> = Append(Append(q, e), f)
           /\ q \o <<e, f, g>> = Append(Append(Append(q, e), f), g)
OBVIOUS

LEMMA TailQueue ==
    ASSUME NEW X, NEW q \in Seq(X), q # <<>>
    PROVE  Head(q) \in X /\ Tail(q) \in Seq(X) /\ q \o <<>> = q /\ Tail(q) \o <<>> = Tail(q)
OBVIOUS

\* What may be posted to a queue that is in order, and what taking its head says
\* of the rest.
LEMMA TcpAppend ==
    ASSUME NEW X, NEW q \in Seq(X), NEW e \in X, TcpInOrder(q, Late),
           e.op = "delegate" => \A op \in TcpOps : ~On(q, op, e.c),
           e.op = "start" => /\ \A op \in TcpOps \ {"delegate"} : ~On(q, op, e.c)
                             /\ \A d \in Conns : e.c < d => ~On(q, "start", d),
           e.op = "noDelegate" /\ e.c \notin Late =>
              \A d \in Conns : e.c < d => ~On(q, "start", d),
           e.op = "opened" => ~On(q, "data", e.c)
    PROVE  TcpInOrder(Append(q, e), Late)
<1> SUFFICES ASSUME NEW c \in Conns
             PROVE  /\ \A op \in TcpOps : Ahead(Append(q, e), "delegate", c, op, c)
                    /\ \A op \in TcpOps \ {"delegate"} : Ahead(Append(q, e), "start", c, op, c)
                    /\ Ahead(Append(q, e), "opened", c, "data", c)
                    /\ \A d \in Conns :
                          c < d => /\ Ahead(Append(q, e), "start", c, "start", d)
                                   /\ c \notin Late => Ahead(Append(q, e), "noDelegate", c, "start", d)
  BY DEF TcpInOrder
<1>1. ASSUME NEW op \in TcpOps PROVE Ahead(Append(q, e), "delegate", c, op, c)
  BY AheadAppend DEF TcpInOrder
<1>2. ASSUME NEW op \in TcpOps \ {"delegate"} PROVE Ahead(Append(q, e), "start", c, op, c)
  BY AheadAppend DEF TcpInOrder
<1>3. Ahead(Append(q, e), "opened", c, "data", c)
  BY AheadAppend DEF TcpInOrder
<1>4. ASSUME NEW d \in Conns, c < d
      PROVE  /\ Ahead(Append(q, e), "start", c, "start", d)
             /\ c \notin Late => Ahead(Append(q, e), "noDelegate", c, "start", d)
  <2>1. /\ Ahead(q, "start", c, "start", d)
        /\ c \notin Late => Ahead(q, "noDelegate", c, "start", d)
    BY <1>4 DEF TcpInOrder
  <2> QED BY <1>4, <2>1, AheadAppend
<1> QED BY <1>1, <1>2, <1>3, <1>4

LEMMA TcpTail ==
    ASSUME NEW X, NEW q \in Seq(X), q # <<>>, TcpInOrder(q, Late),
           Head(q).op \in TcpOps, Head(q).c \in Conns
    PROVE  /\ TcpInOrder(Tail(q), Late)
           /\ ~On(Tail(q), "delegate", Head(q).c)
           /\ Head(q).op # "delegate" => ~On(Tail(q), "start", Head(q).c)
           /\ Head(q).op = "data" => ~On(Tail(q), "opened", Head(q).c)
           /\ Head(q).op = "start" =>
                 \A c \in Conns : c < Head(q).c =>
                    ~On(Tail(q), "start", c) /\ (c \in Late \/ ~On(Tail(q), "noDelegate", c))
<1> DEFINE j == Head(q)
<1>1. TcpInOrder(Tail(q), Late)
  BY AheadTail DEF TcpInOrder
<1>2. ~On(Tail(q), "delegate", j.c)
  <2>1. Ahead(q, "delegate", j.c, j.op, j.c)
    BY DEF TcpInOrder
  <2> QED BY <2>1, AheadTail
<1>3. ASSUME j.op # "delegate" PROVE ~On(Tail(q), "start", j.c)
  <2>1. Ahead(q, "start", j.c, j.op, j.c)
    BY <1>3 DEF TcpInOrder
  <2> QED BY <2>1, AheadTail
<1>4. ASSUME j.op = "data" PROVE ~On(Tail(q), "opened", j.c)
  <2>1. Ahead(q, "opened", j.c, "data", j.c)
    BY DEF TcpInOrder
  <2> QED BY <1>4, <2>1, AheadTail
<1>5. ASSUME j.op = "start", NEW c \in Conns, c < j.c
      PROVE  ~On(Tail(q), "start", c) /\ (c \in Late \/ ~On(Tail(q), "noDelegate", c))
  <2>1. /\ Ahead(q, "start", c, "start", j.c)
        /\ c \notin Late => Ahead(q, "noDelegate", c, "start", j.c)
    BY <1>5 DEF TcpInOrder
  <2> QED BY <1>5, <2>1, AheadTail
<1> QED BY <1>1, <1>2, <1>3, <1>4, <1>5

LEMMA NetAppend ==
    ASSUME NEW X, NEW q \in Seq(X), NEW e \in X, NetInOrder(q),
           e.op = "delegate" => ~On(q, "connect", e.c) /\ ~On(q, "read", e.c),
           e.op = "connect" => /\ ~On(q, "read", e.c)
                               /\ \A d \in Conns : e.c <= d => ~On(q, "connect", d)
    PROVE  NetInOrder(Append(q, e))
<1> SUFFICES ASSUME NEW c \in Conns
             PROVE  /\ Ahead(Append(q, e), "delegate", c, "connect", c)
                    /\ Ahead(Append(q, e), "delegate", c, "read", c)
                    /\ Ahead(Append(q, e), "connect", c, "read", c)
                    /\ \A d \in Conns : c <= d => Ahead(Append(q, e), "connect", c, "connect", d)
  BY DEF NetInOrder
<1>1. Ahead(Append(q, e), "delegate", c, "connect", c)
  BY AheadAppend DEF NetInOrder
<1>2. Ahead(Append(q, e), "delegate", c, "read", c)
  BY AheadAppend DEF NetInOrder
<1>3. Ahead(Append(q, e), "connect", c, "read", c)
  BY AheadAppend DEF NetInOrder
<1>4. ASSUME NEW d \in Conns, c <= d PROVE Ahead(Append(q, e), "connect", c, "connect", d)
  <2>1. Ahead(q, "connect", c, "connect", d)
    BY <1>4 DEF NetInOrder
  <2> QED BY <1>4, <2>1, AheadAppend
<1> QED BY <1>1, <1>2, <1>3, <1>4

LEMMA NetTail ==
    ASSUME NEW X, NEW q \in Seq(X), q # <<>>, NetInOrder(q), Head(q).c \in Conns
    PROVE  /\ NetInOrder(Tail(q))
           /\ Head(q).op = "connect" =>
                 /\ ~On(Tail(q), "delegate", Head(q).c)
                 /\ \A c \in Conns : c <= Head(q).c => ~On(Tail(q), "connect", c)
           /\ Head(q).op = "read" =>
                 ~On(Tail(q), "delegate", Head(q).c) /\ ~On(Tail(q), "connect", Head(q).c)
<1> DEFINE j == Head(q)
<1>1. NetInOrder(Tail(q))
  BY AheadTail DEF NetInOrder
<1>2. ASSUME j.op = "connect" PROVE ~On(Tail(q), "delegate", j.c)
  <2>1. Ahead(q, "delegate", j.c, "connect", j.c)
    BY DEF NetInOrder
  <2> QED BY <1>2, <2>1, AheadTail
<1>3. ASSUME j.op = "connect", NEW c \in Conns, c <= j.c PROVE ~On(Tail(q), "connect", c)
  <2>1. Ahead(q, "connect", c, "connect", j.c)
    BY <1>3 DEF NetInOrder
  <2> QED BY <1>3, <2>1, AheadTail
<1>4. ASSUME j.op = "read" PROVE ~On(Tail(q), "delegate", j.c) /\ ~On(Tail(q), "connect", j.c)
  <2>1. Ahead(q, "delegate", j.c, "read", j.c) /\ Ahead(q, "connect", j.c, "read", j.c)
    BY DEF NetInOrder
  <2> QED BY <1>4, <2>1, AheadTail
<1> QED BY <1>1, <1>2, <1>3, <1>4

-----------------------------------------------------------------------------
(* Connection: what the transport does.                                    *)

\* The jobs, and what they hold.
LEMMA JobFields ==
    \A op, c : Job(op, c).op = op /\ Job(op, c).c = c
BY DEF Job

LEMMA TcpJobIs ==
    ASSUME NEW c \in Conns, NEW op \in TcpOps \ {"data"}
    PROVE  Job(op, c) \in SocketTcpJobs
BY DEF Job, SocketTcpJobs, Jobs

LEMMA NetJobIs ==
    ASSUME NEW c \in Conns, NEW op \in NetOps \ {"read", "data"}
    PROVE  Job(op, c) \in SocketNetJobs
BY DEF Job, SocketNetJobs, Jobs

LEMMA TcpJobHolds ==
    ASSUME NEW j \in SocketTcpJobs
    PROVE  /\ j.op \in TcpOps /\ j.c \in Conns
           /\ j.op = "data" => j.tag \in Tags /\ j.item \in Pieces
BY DEF SocketTcpJobs, Jobs, TcpOps

LEMMA NetJobHolds ==
    ASSUME NEW j \in SocketNetJobs
    PROVE  /\ j.op \in NetOps /\ j.c \in Conns
           /\ j.op = "read" => j.tag \in Tags
           /\ j.op = "data" => j.tag \in Tags /\ j.item \in Pieces
BY DEF SocketNetJobs, Jobs, NetOps

\* TcpTransport::startIfNeeded
LEMMA BeginStep ==
    ASSUME ConnType, JobsInOrder, ConnSafe, NEW c \in Conns,
           NEW as \in {"holds", "leftover"}, InTurnFor(c), Starts(c, as)
    PROVE  ConnType' /\ JobsInOrder' /\ ConnSafe'
<1> DEFINE q == Append(tcpJobs, Job("delegate", c))
<1>0. /\ conn[c].user = "none"
      /\ conn' = [conn EXCEPT ![c].user = as]
      /\ UNCHANGED <<sock, netJobs, recv, owner, wire, told, refused, traffic>>
      /\ tcpJobs \in Seq(SocketTcpJobs)
      /\ Job("delegate", c) \in SocketTcpJobs /\ Job("start", c) \in SocketTcpJobs
      /\ as \notin {"none", "dropped", "abandoned"} /\ c \notin Late
  BY TcpJobIs DEF Starts, Late, ConnType, TcpOps
<1>14. ASSUME NEW d \in Conns, d < c PROVE conn[d].user = "dropped" \/ d \in Late
  BY <1>14, ConnAssumption DEF InTurnFor, Conns
<1>1. q \in Seq(SocketTcpJobs) /\ tcpJobs' = Append(q, Job("start", c))
  BY <1>0, Appends, OnAppend DEF Starts
<1>2. \A op, e : On(q, op, e) <=> On(tcpJobs, op, e) \/ (op = "delegate" /\ e = c)
  BY <1>0, OnAppend, JobFields
<1> HIDE DEF q
<1>3. /\ tcpJobs' \in Seq(SocketTcpJobs)
      /\ \A op, e : On(tcpJobs', op, e) <=> On(tcpJobs, op, e) \/ (op \in {"delegate", "start"} /\ e = c)
  BY <1>0, <1>1, <1>2, OnAppend, JobFields
<1>4. ConnType'
  <2>1. [conn[c] EXCEPT !.user = as] \in ConnStates
    BY DEF ConnType, ConnStates
  <2>2. conn' \in [Conns -> ConnStates]
    BY <1>0, <2>1 DEF ConnType
  <2> QED BY <1>0, <1>3, <2>2 DEF ConnType
<1>5. /\ \A op \in TcpOps : ~On(tcpJobs, op, c)
      /\ \A d \in Conns : c < d => ~On(tcpJobs, "start", d)
  <2>1. Begun(c) /\ InTurn(c) /\ \A d \in Conns : Begun(d)
    BY DEF ConnSafe
  <2> QED BY <1>0, <2>1 DEF Begun, InTurn, TcpOps
<1>8. ASSUME NEW e \in Conns
      PROVE  /\ conn'[e].user = IF e = c THEN as ELSE conn[e].user
             /\ conn'[e].delegate = conn[e].delegate /\ conn'[e].socket = conn[e].socket
             /\ conn'[e].closed = conn[e].closed
  BY <1>0 DEF ConnType, ConnStates
<1>13. Late \subseteq Late' /\ \A e \in Conns : e # c => (e \in Late' <=> e \in Late)
  BY <1>0, <1>8 DEF Late
<1>6. JobsInOrder'
  <2>1. TcpInOrder(q, Late)
    BY <1>0, <1>5, JobFields, TcpAppend DEF JobsInOrder, q
  <2>2. TcpInOrder(Append(q, Job("start", c)), Late)
    <3>1. \A op \in TcpOps \ {"delegate"} : ~On(q, op, c)
      BY <1>2, <1>5
    <3>2. \A d \in Conns : c < d => ~On(q, "start", d)
      BY <1>2, <1>5
    <3> QED BY <1>0, <1>1, <2>1, <3>1, <3>2, JobFields, TcpAppend
  <2>3. TcpInOrder(tcpJobs', Late')
    BY <1>1, <2>2, <1>13 DEF TcpInOrder
  <2> QED BY <1>0, <2>3 DEF JobsInOrder
<1>7. ASSUME NEW e \in Conns
      PROVE  /\ Unstarted(e)' <=> Unstarted(e)
             /\ Unconnected(e)' <=> Unconnected(e)
             /\ Owns(e)' <=> Owns(e)
             /\ Gone(e)' <=> Gone(e)
             /\ e # c => (Deaf(e)' <=> Deaf(e))
             /\ \A f : IsFree(f)' <=> IsFree(f)
  <2>1. Unstarted(e)' <=> Unstarted(e)
    <3>1. CASE e = c
      BY <1>0, <1>3, <3>1 DEF Unstarted
    <3>2. CASE e # c
      <4>1. conn'[e].user = conn[e].user
        BY <1>8, <3>2
      <4> QED BY <1>3, <3>2, <4>1 DEF Unstarted
    <3> QED BY <3>1, <3>2
  <2>2. (Unstarted(e)' <=> Unstarted(e)) /\ (Unconnected(e)' <=> Unconnected(e))
    BY <1>0, <2>1 DEF Unconnected
  <2>3. Owns(e)' <=> Owns(e)
    BY <1>0 DEF Owns
  <2> QED BY <1>0, <1>3, <1>8, <2>2, <2>3 DEF Gone, Deaf, IsFree
<1>9. FdsAreOwn'
  BY <1>0 DEF ConnSafe, FdsAreOwn
<1>10. ASSUME NEW e \in Conns
       PROVE  Begun(e)' /\ SocketKept(e)' /\ OwnerKnows(e)' /\ OpenedIsTold(e)'
  <2>0. Begun(e) /\ SocketKept(e) /\ OwnerKnows(e) /\ OpenedIsTold(e)
    BY DEF ConnSafe
  <2>1. Begun(e)'
    <3>1. conn'[e].user = "none" => e # c /\ conn[e].user = "none"
      BY <1>0, <1>8
    <3>2. conn'[e].user = "none" =>
             ~conn'[e].delegate /\ \A op \in TcpOps : ~On(tcpJobs', op, e)
      BY <1>3, <1>8, <2>0, <3>1 DEF Begun
    <3>3. Unstarted(e)' => /\ ~conn'[e].socket /\ ~conn'[e].closed
                           /\ \A op \in NetOps : ~On(netJobs', op, e)
      BY <1>0, <1>7, <1>8, <2>0 DEF Begun
    <3>4. Unconnected(e)' =>
             /\ sock'[e].fd = NoFd /\ recv'[e].st = "idle" /\ e \notin refused'
             /\ ~On(netJobs', "data", e)
             /\ \A op \in {"opened", "lost", "data"} : ~On(tcpJobs', op, e)
      BY <1>0, <1>3, <1>7, <2>0 DEF Begun
    <3> QED BY <3>2, <3>3, <3>4 DEF Begun
  <2>2. SocketKept(e)'
    BY <1>0, <1>3, <1>7, <1>8, <2>0 DEF SocketKept
  <2>3. OwnerKnows(e)'
    BY <1>0, <1>3, <1>7, <1>8, <2>0 DEF OwnerKnows
  <2>4. OpenedIsTold(e)'
    BY <1>0, <1>3, <1>7, <1>8, <2>0 DEF OpenedIsTold, Begun, Unconnected, Unstarted
  <2> QED BY <2>1, <2>2, <2>3, <2>4
<1>11. ASSUME NEW e \in Conns PROVE InTurn(e)'
  <2>0. InTurn(e) /\ InTurn(c)
    BY DEF ConnSafe
  <2>1. conn'[e].user \in {"dropped", "abandoned"} => On(tcpJobs', "noDelegate", e) \/ Deaf(e)'
    BY <1>0, <1>3, <1>7, <1>8, <2>0 DEF InTurn
  <2>2. ASSUME NEW d \in Conns, e < d, conn'[d].user # "none"
        PROVE  conn'[e].user = "dropped" \/ e \in Late'
    BY <1>0, <1>8, <1>13, <1>14, <2>0, <2>2 DEF InTurn
  <2>3. ASSUME NEW d \in Conns, e < d, ~Unstarted(d)'
        PROVE  (Deaf(e)' \/ e \in Late') /\ ~Unstarted(e)'
    <3>1. ~Unstarted(d) /\ ~Unstarted(e) /\ (Deaf(e) \/ e \in Late)
      BY <1>7, <2>0, <2>3 DEF InTurn
    <3>2. e # c
      BY <1>0, <3>1 DEF Unstarted
    <3> QED BY <1>7, <1>13, <3>1, <3>2
  <2> QED BY <2>1, <2>2, <2>3 DEF InTurn
<1>12. ASSUME NEW e \in Conns, e \in refused', e \notin Late' PROVE Deaf(e)' \/ HearsNothing(e)'
  <2>0. e # c /\ (Deaf(e) \/ HearsNothing(e))
    BY <1>0, <1>12, <1>13 DEF ConnSafe, Begun, Unconnected, Unstarted
  <2> QED BY <1>0, <1>3, <1>7, <2>0 DEF HearsNothing
<1> QED BY <1>4, <1>6, <1>9, <1>10, <1>11, <1>12 DEF ConnSafe

\* Which connections were begun behind a stop changes in no other way.
LEMMA LateKept ==
    ASSUME \A e \in Conns : conn'[e].user = conn[e].user
    PROVE  Late' = Late
BY DEF Late

\* What the transport asks of a connection that it holds.
LEMMA UserStep ==
    ASSUME ConnType, JobsInOrder, ConnSafe, NEW c \in Conns, NEW u \in {"holds", "dropped", "abandoned"},
           NEW ops \in SUBSET {"noDelegate", "stop", "send"},
           conn[c].user \in {"holds", "leftover"}, conn[c].user = "leftover" <=> u = "abandoned",
           conn' = [conn EXCEPT ![c].user = u],
           UNCHANGED <<sock, netJobs, recv, owner, wire, told, refused>>,
           tcpJobs' \in Seq(SocketTcpJobs), TcpInOrder(tcpJobs', Late),
           \A op, e : On(tcpJobs', op, e) <=> On(tcpJobs, op, e) \/ (op \in ops /\ e = c),
           u # "holds" => "noDelegate" \in ops,
           u = "dropped" => "stop" \in ops \/ told[c].closed > 0
    PROVE  ConnType' /\ JobsInOrder' /\ ConnSafe'
<1>1. ConnType'
  <2>1. [conn[c] EXCEPT !.user = u] \in ConnStates
    BY DEF ConnType, ConnStates
  <2>2. conn' \in [Conns -> ConnStates]
    BY <2>1 DEF ConnType
  <2> QED BY <2>2 DEF ConnType
<1>3. ASSUME NEW e \in Conns
      PROVE  /\ conn'[e].user = IF e = c THEN u ELSE conn[e].user
             /\ conn'[e].delegate = conn[e].delegate /\ conn'[e].socket = conn[e].socket
             /\ conn'[e].closed = conn[e].closed
  BY DEF ConnType, ConnStates
<1>9. Late' = Late
  BY <1>3 DEF Late
<1>2. JobsInOrder'
  BY <1>9 DEF JobsInOrder
<1>4. ASSUME NEW e \in Conns
      PROVE  /\ Unstarted(e)' <=> Unstarted(e)
             /\ Unconnected(e)' <=> Unconnected(e)
             /\ Owns(e)' <=> Owns(e)
             /\ Gone(e)' <=> Gone(e)
             /\ Deaf(e)' <=> Deaf(e)
             /\ \A f : IsFree(f)' <=> IsFree(f)
  <2>1. (Unstarted(e)' <=> Unstarted(e)) /\ (Unconnected(e)' <=> Unconnected(e))
    BY <1>3 DEF Unstarted, Unconnected
  <2>2. Owns(e)' <=> Owns(e)
    BY DEF Owns
  <2> QED BY <1>3, <2>1, <2>2 DEF Gone, Deaf, IsFree
<1>5. FdsAreOwn'
  BY DEF ConnSafe, FdsAreOwn
<1>6. ASSUME NEW e \in Conns
       PROVE  Begun(e)' /\ SocketKept(e)' /\ OwnerKnows(e)' /\ OpenedIsTold(e)'
  <2>0. Begun(e) /\ SocketKept(e) /\ OwnerKnows(e) /\ OpenedIsTold(e)
    BY DEF ConnSafe
  <2>1. Begun(e)'
    BY <1>3, <1>4, <2>0 DEF Begun
  <2>2. SocketKept(e)'
    BY <1>3, <1>4, <2>0 DEF SocketKept
  <2>3. OwnerKnows(e)'
    BY <1>3, <1>4, <2>0 DEF OwnerKnows
  <2>4. OpenedIsTold(e)'
    BY <1>3, <1>4, <2>0 DEF OpenedIsTold
  <2> QED BY <2>1, <2>2, <2>3, <2>4
<1>7. ASSUME NEW e \in Conns PROVE InTurn(e)'
  <2>0. InTurn(e) /\ InTurn(c)
    BY DEF ConnSafe
  <2> QED BY <1>3, <1>4, <1>9, <2>0 DEF InTurn
<1>8. ASSUME NEW e \in Conns, e \in refused', e \notin Late' PROVE Deaf(e)' \/ HearsNothing(e)'
  <2>0. Deaf(e) \/ HearsNothing(e)
    BY <1>8, <1>9 DEF ConnSafe
  <2> QED BY <1>4, <2>0 DEF HearsNothing
<1> QED BY <1>1, <1>2, <1>5, <1>6, <1>7, <1>8 DEF ConnSafe

LEMMA TransportStep ==
    ASSUME ConnType, JobsInOrder, ConnSafe, NEW c \in Conns, User(c)
    PROVE  ConnType' /\ JobsInOrder' /\ ConnSafe'
<1> DEFINE q == Append(tcpJobs, Job("noDelegate", c))
<1>0. /\ tcpJobs \in Seq(SocketTcpJobs) /\ TcpInOrder(tcpJobs, Late)
      /\ \A op \in {"noDelegate", "stop", "send"} : Job(op, c) \in SocketTcpJobs
  BY TcpJobIs DEF ConnType, JobsInOrder, TcpOps
<1>1. ASSUME conn[c].user = "holds", NEW d \in Conns, c < d
      PROVE  ~On(tcpJobs, "start", d)
  <2>1. InTurn(c) /\ Begun(d)
    BY DEF ConnSafe
  <2> QED BY <1>1, <2>1 DEF InTurn, Begun, Late, TcpOps
<1>2. ASSUME conn[c].user \in {"holds", "leftover"}
      PROVE  /\ q \in Seq(SocketTcpJobs) /\ TcpInOrder(q, Late)
             /\ \A op, e : On(q, op, e) <=> On(tcpJobs, op, e) \/ (op = "noDelegate" /\ e = c)
  <2>1. TcpInOrder(q, Late)
    BY <1>0, <1>1, <1>2, TcpAppend, JobFields DEF Late
  <2> QED BY <1>0, <2>1, OnAppend, JobFields
<1> HIDE DEF q
<1>3. CASE Begin(c)
  BY <1>3, BeginStep DEF Begin
<1>7. CASE BeginBehindStop(c)
  BY <1>7, BeginStep DEF BeginBehindStop
<1>4. CASE Quit(c)
  <2>1. tcpJobs' = Append(q, Job("stop", c)) /\ conn[c].user = "holds"
    BY <1>0, <1>4, Appends DEF Quit, q
  <2>2. tcpJobs' \in Seq(SocketTcpJobs) /\ TcpInOrder(tcpJobs', Late)
    BY <1>0, <1>2, <2>1, TcpAppend, OnAppend, JobFields
  <2>3. \A op, e : On(tcpJobs', op, e) <=> On(tcpJobs, op, e) \/ (op \in {"noDelegate", "stop"} /\ e = c)
    BY <1>0, <1>2, <2>1, OnAppend, JobFields
  <2> QED BY <1>4, <2>1, <2>2, <2>3, UserStep DEF Quit
<1>5. CASE Drop(c)
  <2>1. tcpJobs' = q /\ conn[c].user = "holds"
    BY <1>5 DEF Drop, LetsGo, q
  <2>2. \A op, e : On(tcpJobs', op, e) <=> On(tcpJobs, op, e) \/ (op \in {"noDelegate"} /\ e = c)
    BY <1>2, <2>1
  <2> QED BY <1>2, <1>5, <2>1, <2>2, UserStep DEF Drop, LetsGo
<1>8. CASE Abandon(c)
  <2>1. tcpJobs' = q /\ conn[c].user = "leftover"
    BY <1>8 DEF Abandon, LetsGo, q
  <2>2. \A op, e : On(tcpJobs', op, e) <=> On(tcpJobs, op, e) \/ (op \in {"noDelegate"} /\ e = c)
    BY <1>2, <2>1
  <2>3. /\ conn' = [conn EXCEPT ![c].user = "abandoned"]
        /\ UNCHANGED <<sock, netJobs, recv, owner, wire, told, refused>>
    BY <1>8 DEF Abandon, LetsGo
  <2>4. tcpJobs' \in Seq(SocketTcpJobs) /\ TcpInOrder(tcpJobs', Late)
    BY <1>2, <2>1
  <2> QED BY <2>1, <2>2, <2>3, <2>4, UserStep
<1>6. CASE SendDatas(c)
  <2>1. tcpJobs' = Append(tcpJobs, Job("send", c)) /\ conn[c].user = "holds"
    BY <1>6 DEF SendDatas
  <2>2. tcpJobs' \in Seq(SocketTcpJobs) /\ TcpInOrder(tcpJobs', Late)
    BY <1>0, <2>1, TcpAppend, OnAppend, JobFields
  <2>3. \A op, e : On(tcpJobs', op, e) <=> On(tcpJobs, op, e) \/ (op \in {"send"} /\ e = c)
    BY <1>0, <2>1, OnAppend, JobFields
  <2>4. conn' = [conn EXCEPT ![c].user = "holds"]
    BY <1>6, <2>1 DEF SendDatas, ConnType, ConnStates
  <2> QED BY <1>6, <2>1, <2>2, <2>3, <2>4, UserStep DEF SendDatas
<1> QED BY <1>3, <1>4, <1>5, <1>6, <1>7, <1>8 DEF User

-----------------------------------------------------------------------------
(* Connection: the jobs of TcpConnection::queue().                         *)

\* The job that TcpConnection::queue() takes, and what is left then.
LEMMA TcpTaken ==
    ASSUME ConnType, JobsInOrder, ConnSafe, tcpJobs # <<>>, tcpJobs' = Tail(tcpJobs)
    PROVE  /\ Head(tcpJobs) \in SocketTcpJobs
           /\ Head(tcpJobs).op \in TcpOps /\ Head(tcpJobs).c \in Conns
           /\ tcpJobs' \in Seq(SocketTcpJobs) /\ TcpInOrder(tcpJobs', Late)
           /\ \A op, e : On(tcpJobs, op, e) <=> \/ Head(tcpJobs).op = op /\ Head(tcpJobs).c = e
                                                \/ On(tcpJobs', op, e)
           /\ conn[Head(tcpJobs).c].user # "none"
           /\ ~On(tcpJobs', "delegate", Head(tcpJobs).c)
           /\ Head(tcpJobs).op # "delegate" => ~On(tcpJobs', "start", Head(tcpJobs).c)
           /\ Head(tcpJobs).op = "start" =>
                 \A e \in Conns : e < Head(tcpJobs).c =>
                    ~On(tcpJobs', "start", e) /\ (e \in Late \/ ~On(tcpJobs', "noDelegate", e))
<1>1. tcpJobs \in Seq(SocketTcpJobs) /\ TcpInOrder(tcpJobs, Late)
  BY DEF ConnType, JobsInOrder
<1>2. Head(tcpJobs) \in SocketTcpJobs /\ tcpJobs' \in Seq(SocketTcpJobs)
  BY <1>1, TailQueue
<1>3. Head(tcpJobs).op \in TcpOps /\ Head(tcpJobs).c \in Conns
  BY <1>2, TcpJobHolds
<1>4. \A op, e : On(tcpJobs, op, e) <=> \/ Head(tcpJobs).op = op /\ Head(tcpJobs).c = e
                                        \/ On(tcpJobs', op, e)
  BY <1>1, OnTail
<1>5. conn[Head(tcpJobs).c].user # "none"
  <2>1. On(tcpJobs, Head(tcpJobs).op, Head(tcpJobs).c) /\ Begun(Head(tcpJobs).c)
    BY <1>3, <1>4 DEF ConnSafe
  <2> QED BY <1>3, <2>1 DEF Begun
<1> QED BY <1>1, <1>2, <1>3, <1>4, <1>5, TcpTail

\* It gets or loses its delegate.
LEMMA TcpDelegateStep ==
    ASSUME ConnType, JobsInOrder, ConnSafe, tcpJobs # <<>>, tcpJobs' = Tail(tcpJobs),
           NEW c \in Conns, Head(tcpJobs).c = c, NEW on \in BOOLEAN,
           Head(tcpJobs).op = IF on THEN "delegate" ELSE "noDelegate",
           TcpSetDelegate(c, on), UNCHANGED <<sock, recv, owner, wire, refused>>
    PROVE  ConnType' /\ JobsInOrder' /\ ConnSafe'
<1>0. /\ conn' = [conn EXCEPT ![c].delegate = on] /\ UNCHANGED <<netJobs, told>>
      /\ tcpJobs' \in Seq(SocketTcpJobs) /\ TcpInOrder(tcpJobs', Late)
      /\ conn[c].user # "none" /\ ~On(tcpJobs', "delegate", c)
  BY TcpTaken DEF TcpSetDelegate
<1>1. \A op, e : On(tcpJobs, op, e) <=> \/ op = (IF on THEN "delegate" ELSE "noDelegate") /\ e = c
                                        \/ On(tcpJobs', op, e)
  BY TcpTaken
<1>2. ConnType'
  <2>0. conn[c] \in ConnStates
    BY DEF ConnType
  <2>1. [conn[c] EXCEPT !.delegate = on] \in ConnStates
    BY <2>0 DEF ConnStates
  <2>2. conn' \in [Conns -> ConnStates]
    BY <1>0, <2>1 DEF ConnType
  <2> QED BY <1>0, <2>2 DEF ConnType
<1>4. ASSUME NEW e \in Conns
      PROVE  /\ conn'[e].user = conn[e].user
             /\ conn'[e].delegate = (IF e = c THEN on ELSE conn[e].delegate)
             /\ conn'[e].socket = conn[e].socket /\ conn'[e].closed = conn[e].closed
  BY <1>0 DEF ConnType, ConnStates
<1>10. Late' = Late
  BY <1>4, LateKept
<1>3. JobsInOrder'
  BY <1>0, <1>10 DEF JobsInOrder
<1>5. ASSUME NEW e \in Conns
      PROVE  /\ Unstarted(e)' <=> Unstarted(e)
             /\ Unconnected(e)' <=> Unconnected(e)
             /\ Owns(e)' <=> Owns(e)
             /\ Gone(e)' <=> Gone(e)
             /\ e # c => (Deaf(e)' <=> Deaf(e))
             /\ on => ~Deaf(c)
             /\ ~on => Deaf(c)'
             /\ \A f : IsFree(f)' <=> IsFree(f)
  <2>1. (Unstarted(e)' <=> Unstarted(e)) /\ (Unconnected(e)' <=> Unconnected(e))
    BY <1>0, <1>1, <1>4 DEF Unstarted, Unconnected
  <2>2. Owns(e)' <=> Owns(e)
    BY DEF Owns
  <2>3. e # c => (Deaf(e)' <=> Deaf(e))
    BY <1>0, <1>1, <1>4 DEF Deaf
  <2>4. (on => ~Deaf(c)) /\ (~on => Deaf(c)')
    BY <1>0, <1>1, <1>4 DEF Deaf
  <2> QED BY <2>1, <2>2, <2>3, <2>4 DEF Gone, IsFree
<1>6. FdsAreOwn'
  BY DEF ConnSafe, FdsAreOwn
<1>7. ASSUME NEW e \in Conns
      PROVE  Begun(e)' /\ SocketKept(e)' /\ OwnerKnows(e)' /\ OpenedIsTold(e)'
  <2>0. Begun(e) /\ SocketKept(e) /\ OwnerKnows(e) /\ OpenedIsTold(e)
    BY DEF ConnSafe
  <2>1. Begun(e)'
    BY <1>0, <1>1, <1>4, <1>5, <2>0 DEF Begun
  <2>2. SocketKept(e)'
    BY <1>0, <1>4, <1>5, <2>0 DEF SocketKept
  <2>3. OwnerKnows(e)'
    BY <1>0, <1>1, <1>4, <1>5, <2>0 DEF OwnerKnows
  <2>4. OpenedIsTold(e)'
    BY <1>0, <1>1, <1>4, <1>5, <2>0 DEF OpenedIsTold
  <2> QED BY <2>1, <2>2, <2>3, <2>4
<1>8. ASSUME NEW e \in Conns PROVE InTurn(e)'
  <2>0. InTurn(e)
    BY DEF ConnSafe
  <2> QED BY <1>1, <1>4, <1>5, <1>10, <2>0 DEF InTurn
<1>9. ASSUME NEW e \in Conns, e \in refused', e \notin Late'
       PROVE  Deaf(e)' \/ HearsNothing(e)'
  <2>0. Deaf(e) \/ HearsNothing(e)
    BY <1>9, <1>10 DEF ConnSafe
  <2>1. HearsNothing(e) => HearsNothing(e)'
    BY <1>0, <1>1, <1>5 DEF HearsNothing
  <2> QED BY <1>5, <2>0, <2>1
<1> QED BY <1>2, <1>3, <1>6, <1>7, <1>8, <1>9 DEF ConnSafe

\* A job that only asks something of the socket, or tells the delegate.
NetAsked(c) ==
    /\ netJobs' \in Seq(SocketNetJobs) /\ NetInOrder(netJobs')
    /\ \A op, e : /\ On(netJobs, op, e) => On(netJobs', op, e)
                  /\ On(netJobs', op, e) =>
                        On(netJobs, op, e) \/ (op \in {"send", "read"} /\ e = c)

ToldMore(j) ==
    /\ told' \in [Conns -> ToldStates]
    /\ \A e \in Conns :
          /\ told[e].opened => told'[e].opened
          /\ told'[e].closed > 0 => told[e].closed > 0 \/ (j.op = "lost" /\ e = j.c)
    /\ j.op = "opened" => told'[j.c].opened \/ ~conn[j.c].delegate

LEMMA TcpQuietStep ==
    ASSUME ConnType, JobsInOrder, ConnSafe, tcpJobs # <<>>, tcpJobs' = Tail(tcpJobs),
           NEW c \in Conns, Head(tcpJobs).c = c,
           Head(tcpJobs).op \in {"stop", "send", "opened", "lost", "data"},
           Head(tcpJobs).op = "stop" => conn[c].closed,
           UNCHANGED <<conn, sock, recv, owner, wire, refused>>,
           NetAsked(c), ToldMore(Head(tcpJobs))
    PROVE  ConnType' /\ JobsInOrder' /\ ConnSafe'
<1>a. /\ netJobs' \in Seq(SocketNetJobs) /\ NetInOrder(netJobs')
      /\ \A op, e : /\ On(netJobs, op, e) => On(netJobs', op, e)
                    /\ On(netJobs', op, e) =>
                          On(netJobs, op, e) \/ (op \in {"send", "read"} /\ e = c)
  BY DEF NetAsked
<1>b. /\ told' \in [Conns -> ToldStates]
      /\ \A e \in Conns :
            /\ told[e].opened => told'[e].opened
            /\ told'[e].closed > 0 => \/ told[e].closed > 0
                                      \/ Head(tcpJobs).op = "lost" /\ e = c
      /\ Head(tcpJobs).op = "opened" => told'[c].opened \/ ~conn[c].delegate
  BY DEF ToldMore
<1>0. /\ tcpJobs' \in Seq(SocketTcpJobs) /\ TcpInOrder(tcpJobs', Late)
      /\ conn[c].user # "none" /\ ~On(tcpJobs', "delegate", c) /\ ~On(tcpJobs', "start", c)
  BY TcpTaken
<1>1. \A op, e : On(tcpJobs, op, e) <=> \/ op = Head(tcpJobs).op /\ e = c
                                        \/ On(tcpJobs', op, e)
  BY TcpTaken
<1>3. Late' = Late
  BY LateKept
<1>2. ConnType' /\ JobsInOrder'
  BY <1>0, <1>3, <1>a, <1>b DEF ConnType, JobsInOrder
<1>4. ASSUME NEW e \in Conns
      PROVE  /\ Unstarted(e)' <=> Unstarted(e)
             /\ Unconnected(e)' <=> Unconnected(e)
             /\ Owns(e)' <=> Owns(e)
             /\ Gone(e)' <=> Gone(e)
             /\ Deaf(e)' <=> Deaf(e)
             /\ ~Unstarted(c)
             /\ \A f : IsFree(f)' <=> IsFree(f)
  <2>1. (Unstarted(e)' <=> Unstarted(e)) /\ (Unconnected(e)' <=> Unconnected(e)) /\ ~Unstarted(c)
    BY <1>0, <1>1, <1>a DEF Unstarted, Unconnected
  <2>2. Owns(e)' <=> Owns(e)
    BY DEF Owns
  <2>3. Deaf(e)' <=> Deaf(e)
    BY <1>0, <1>1 DEF Deaf
  <2> QED BY <2>1, <2>2, <2>3 DEF Gone, IsFree
<1>6. FdsAreOwn'
  BY DEF ConnSafe, FdsAreOwn
<1>7. ASSUME NEW e \in Conns
      PROVE  Begun(e)' /\ SocketKept(e)' /\ OwnerKnows(e)' /\ OpenedIsTold(e)'
  <2>0. Begun(e) /\ SocketKept(e) /\ OwnerKnows(e) /\ OpenedIsTold(e)
    BY DEF ConnSafe
  <2>1. Begun(e)'
    BY <1>0, <1>1, <1>a, <1>4, <2>0 DEF Begun
  <2>2. SocketKept(e)'
    BY <1>0, <1>a, <1>4, <2>0 DEF SocketKept
  <2>3. OwnerKnows(e)'
    BY <1>0, <1>1, <1>b, <1>4, <2>0 DEF OwnerKnows
  <2>4. OpenedIsTold(e)'
    BY <1>0, <1>1, <1>b, <1>4, <2>0 DEF OpenedIsTold, Deaf
  <2> QED BY <2>1, <2>2, <2>3, <2>4
<1>8. ASSUME NEW e \in Conns PROVE InTurn(e)'
  <2>0. InTurn(e)
    BY DEF ConnSafe
  <2> QED BY <1>1, <1>3, <1>4, <2>0 DEF InTurn
<1>9. ASSUME NEW e \in Conns, e \in refused', e \notin Late'
       PROVE  Deaf(e)' \/ HearsNothing(e)'
  <2>0. Deaf(e) \/ HearsNothing(e)
    BY <1>3, <1>9 DEF ConnSafe
  <2>1. HearsNothing(e) => HearsNothing(e)'
    BY <1>0, <1>1, <1>a, <1>4 DEF HearsNothing
  <2> QED BY <1>4, <2>0, <2>1
<1> QED BY <1>2, <1>6, <1>7, <1>8, <1>9 DEF ConnSafe

\* The connection starts: its socket has its delegate, connects and reads.
LEMMA TcpStartStep ==
    ASSUME ConnType, JobsInOrder, ConnSafe, tcpJobs # <<>>, tcpJobs' = Tail(tcpJobs),
           NEW c \in Conns, Head(tcpJobs).c = c, Head(tcpJobs).op = "start",
           TcpStart(c), UNCHANGED <<sock, recv, owner, wire, refused>>
    PROVE  ConnType' /\ JobsInOrder' /\ ConnSafe'
<1> DEFINE q1 == Append(netJobs, Job("delegate", c))
           q2 == Append(q1, Job("connect", c))
<1>0. /\ tcpJobs' \in Seq(SocketTcpJobs) /\ TcpInOrder(tcpJobs', Late)
      /\ conn[c].user # "none" /\ ~On(tcpJobs', "delegate", c) /\ ~On(tcpJobs', "start", c)
      /\ \A e \in Conns :
            e < c => ~On(tcpJobs', "start", e) /\ (e \in Late \/ ~On(tcpJobs', "noDelegate", e))
  BY TcpTaken
<1>1. \A op, e : On(tcpJobs, op, e) <=> (op = "start" /\ e = c) \/ On(tcpJobs', op, e)
  BY TcpTaken
<1>2. Unstarted(c) /\ Unconnected(c) /\ ~conn[c].socket /\ ~conn[c].closed /\ c \notin refused
  <2>1. Unstarted(c) /\ Unconnected(c)
    BY <1>1 DEF Unstarted, Unconnected
  <2> QED BY <2>1 DEF ConnSafe, Begun
<1>3. /\ conn' = [conn EXCEPT ![c].socket = TRUE]
      /\ netJobs' = netJobs \o <<Job("delegate", c), Job("connect", c), Read(c, "short")>>
      /\ UNCHANGED told
  BY <1>2 DEF TcpStart
<1>4. /\ netJobs \in Seq(SocketNetJobs) /\ NetInOrder(netJobs)
      /\ Job("delegate", c) \in SocketNetJobs /\ Job("connect", c) \in SocketNetJobs
      /\ Read(c, "short") \in SocketNetJobs
      /\ Read(c, "short").op = "read" /\ Read(c, "short").c = c
  BY NetJobIs DEF ConnType, JobsInOrder, NetOps, SocketNetJobs, Read, Tags
<1>5. netJobs' = Append(q2, Read(c, "short"))
  BY <1>3, <1>4, Appends
<1>6. \A op \in NetOps : ~On(netJobs, op, c)
  BY <1>2 DEF ConnSafe, Begun
<1>7. \A d \in Conns : c < d => Unstarted(d) /\ ~On(netJobs, "connect", d)
  <2> SUFFICES ASSUME NEW d \in Conns, c < d PROVE Unstarted(d) /\ ~On(netJobs, "connect", d)
    OBVIOUS
  <2>1. InTurn(c) /\ Begun(d)
    BY DEF ConnSafe
  <2> QED BY <1>2, <2>1 DEF InTurn, Begun, NetOps
<1>8. /\ q1 \in Seq(SocketNetJobs) /\ NetInOrder(q1)
      /\ \A op, e : On(q1, op, e) <=> On(netJobs, op, e) \/ (op = "delegate" /\ e = c)
  <2>1. NetInOrder(q1)
    BY <1>4, <1>6, NetAppend, JobFields DEF NetOps
  <2> QED BY <1>4, <2>1, OnAppend, JobFields
<1> HIDE DEF q1
<1>9. /\ q2 \in Seq(SocketNetJobs) /\ NetInOrder(q2)
      /\ \A op, e : On(q2, op, e) <=> On(netJobs, op, e) \/ (op \in {"delegate", "connect"} /\ e = c)
  <2>1. ~On(q1, "read", c) /\ \A d \in Conns : c <= d => ~On(q1, "connect", d)
    BY <1>6, <1>7, <1>8, ConnAssumption DEF NetOps, Conns
  <2>2. NetInOrder(q2)
    BY <1>4, <1>8, <2>1, NetAppend, JobFields
  <2> QED BY <1>4, <1>8, <2>2, OnAppend, JobFields
<1> HIDE DEF q2
<1>10. /\ netJobs' \in Seq(SocketNetJobs) /\ NetInOrder(netJobs')
       /\ \A op, e : On(netJobs', op, e) <=>
                        On(netJobs, op, e) \/ (op \in {"delegate", "connect", "read"} /\ e = c)
  <2>1. NetInOrder(netJobs')
    BY <1>4, <1>5, <1>9, NetAppend
  <2> QED BY <1>4, <1>5, <1>9, <2>1, OnAppend
<1>12. ASSUME NEW e \in Conns
       PROVE  /\ conn'[e].user = conn[e].user
              /\ conn'[e].delegate = conn[e].delegate
              /\ conn'[e].socket = (IF e = c THEN TRUE ELSE conn[e].socket)
              /\ conn'[e].closed = conn[e].closed
  BY <1>3 DEF ConnType, ConnStates
<1>19. Late' = Late
  BY <1>12, LateKept
<1>11. ConnType' /\ JobsInOrder'
  <2>0. conn[c] \in ConnStates
    BY DEF ConnType
  <2>1. [conn[c] EXCEPT !.socket = TRUE] \in ConnStates
    BY <2>0 DEF ConnStates
  <2>2. conn' \in [Conns -> ConnStates]
    BY <1>3, <2>1 DEF ConnType
  <2> QED BY <1>0, <1>3, <1>10, <1>19, <2>2 DEF ConnType, JobsInOrder
<1>13. ASSUME NEW e \in Conns
       PROVE  /\ Unstarted(e)' <=> Unstarted(e) /\ e # c
              /\ Unconnected(e)' <=> Unconnected(e)
              /\ Owns(e)' <=> Owns(e)
              /\ Gone(e)' <=> Gone(e)
              /\ Deaf(e)' <=> Deaf(e)
              /\ \A f : IsFree(f)' <=> IsFree(f)
  <2>1. Unstarted(e)' <=> Unstarted(e) /\ e # c
    BY <1>0, <1>1, <1>12 DEF Unstarted
  <2>2. Unconnected(e)' <=> Unconnected(e)
    BY <1>2, <1>10, <2>1 DEF Unconnected
  <2>3. Owns(e)' <=> Owns(e)
    BY DEF Owns
  <2>4. Deaf(e)' <=> Deaf(e)
    BY <1>0, <1>1, <1>12 DEF Deaf
  <2> QED BY <2>1, <2>2, <2>3, <2>4 DEF Gone, IsFree
<1>14. FdsAreOwn'
  BY DEF ConnSafe, FdsAreOwn
<1>15. ASSUME NEW e \in Conns
       PROVE  Begun(e)' /\ SocketKept(e)' /\ OwnerKnows(e)' /\ OpenedIsTold(e)'
  <2>0. Begun(e) /\ SocketKept(e) /\ OwnerKnows(e) /\ OpenedIsTold(e)
    BY DEF ConnSafe
  <2>a. e # c => \A op : On(netJobs', op, e) <=> On(netJobs, op, e)
    BY <1>10
  <2>b. /\ e = c => On(netJobs', "delegate", e) /\ On(netJobs', "read", e)
        /\ On(netJobs', "noDelegate", e) <=> On(netJobs, "noDelegate", e)
        /\ On(netJobs', "data", e) <=> On(netJobs, "data", e)
    BY <1>10
  <2>1. Begun(e)'
    <3>1. conn'[e].user = "none" => ~conn'[e].delegate /\ \A op \in TcpOps : ~On(tcpJobs', op, e)
      BY <1>1, <1>12, <2>0 DEF Begun
    <3>2. Unstarted(e)' => /\ ~conn'[e].socket /\ ~conn'[e].closed
                           /\ \A op \in NetOps : ~On(netJobs', op, e)
      BY <1>12, <1>13, <2>0, <2>a DEF Begun
    <3>3. Unconnected(e)' =>
             /\ sock'[e].fd = NoFd /\ recv'[e].st = "idle" /\ e \notin refused'
             /\ ~On(netJobs', "data", e)
             /\ \A op \in {"opened", "lost", "data"} : ~On(tcpJobs', op, e)
      BY <1>1, <1>13, <2>0, <2>b DEF Begun
    <3> QED BY <3>1, <3>2, <3>3 DEF Begun
  <2>2. SocketKept(e)'
    <3>1. CASE e = c
      BY <1>2, <1>12, <2>0, <2>b, <3>1 DEF SocketKept
    <3>2. CASE e # c
      BY <1>12, <1>13, <2>0, <2>a, <3>2 DEF SocketKept
    <3> QED BY <3>1, <3>2
  <2>3. OwnerKnows(e)'
    BY <1>1, <1>3, <1>12, <1>13, <2>0 DEF OwnerKnows
  <2>4. OpenedIsTold(e)'
    BY <1>1, <1>3, <1>12, <1>13, <2>0 DEF OpenedIsTold
  <2> QED BY <2>1, <2>2, <2>3, <2>4
<1>16. \A e \in Conns : e < c => (Deaf(e) \/ e \in Late) /\ ~Unstarted(e)
  <2> SUFFICES ASSUME NEW e \in Conns, e < c PROVE (Deaf(e) \/ e \in Late) /\ ~Unstarted(e)
    OBVIOUS
  <2>1. InTurn(e)
    BY DEF ConnSafe
  <2>2. e \in Late \/ (conn[e].user = "dropped" /\ (On(tcpJobs, "noDelegate", e) \/ Deaf(e)))
    BY <1>0, <2>1 DEF InTurn
  <2>3. (e \in Late \/ ~On(tcpJobs, "noDelegate", e)) /\ ~On(tcpJobs, "start", e)
    BY <1>0, <1>1, ConnAssumption DEF Conns
  <2> QED BY <2>2, <2>3 DEF Unstarted, Late
<1>17. ASSUME NEW e \in Conns PROVE InTurn(e)'
  <2>0. InTurn(e)
    BY DEF ConnSafe
  <2>1. ASSUME NEW d \in Conns, e < d, ~Unstarted(d)'
        PROVE  (Deaf(e)' \/ e \in Late') /\ ~Unstarted(e)'
    <3>1. (Deaf(e) \/ e \in Late) /\ ~Unstarted(e)
      BY <1>13, <1>16, <2>0, <2>1 DEF InTurn
    <3> QED BY <1>13, <1>19, <3>1
  <2>2. ASSUME NEW d \in Conns, e < d, conn'[d].user # "none"
        PROVE  conn'[e].user = "dropped" \/ e \in Late'
    BY <1>12, <1>19, <2>0, <2>2 DEF InTurn
  <2>3. conn'[e].user \in {"dropped", "abandoned"} => On(tcpJobs', "noDelegate", e) \/ Deaf(e)'
    BY <1>1, <1>12, <1>13, <2>0 DEF InTurn
  <2> QED BY <2>1, <2>2, <2>3 DEF InTurn
<1>18. ASSUME NEW e \in Conns, e \in refused', e \notin Late' PROVE Deaf(e)'
  <2>1. e # c /\ ~Unstarted(e)
    BY <1>2, <1>18 DEF ConnSafe, Begun, Unconnected
  <2>2. e < c
    BY <1>7, <2>1, ConnAssumption DEF Conns
  <2> QED BY <1>13, <1>16, <1>18, <1>19, <2>2
<1> QED BY <1>11, <1>14, <1>15, <1>17, <1>18 DEF ConnSafe

\* The connection is closed from this side.
LEMMA TcpCloseStep ==
    ASSUME ConnType, JobsInOrder, ConnSafe, tcpJobs # <<>>, tcpJobs' = Tail(tcpJobs),
           NEW c \in Conns, Head(tcpJobs).c = c, Head(tcpJobs).op \in {"stop", "data"},
           CloseAndNotify(c), ~conn[c].closed, UNCHANGED <<sock, recv, owner, wire, refused>>
    PROVE  ConnType' /\ JobsInOrder' /\ ConnSafe'
<1> DEFINE q1 == Append(netJobs, Job("noDelegate", c))
<1>0. /\ tcpJobs' \in Seq(SocketTcpJobs) /\ TcpInOrder(tcpJobs', Late)
      /\ conn[c].user # "none" /\ ~On(tcpJobs', "delegate", c) /\ ~On(tcpJobs', "start", c)
  BY TcpTaken
<1>1. \A op, e : On(tcpJobs, op, e) <=> \/ op = Head(tcpJobs).op /\ e = c
                                        \/ On(tcpJobs', op, e)
  BY TcpTaken
<1>2. /\ conn' = [conn EXCEPT ![c].closed = TRUE, ![c].socket = FALSE]
      /\ netJobs' = netJobs \o <<Job("noDelegate", c), Job("close", c)>>
      /\ told' = TellClosed(c)
  BY DEF CloseAndNotify, Shut, ShutJobs
<1>3. /\ netJobs \in Seq(SocketNetJobs) /\ NetInOrder(netJobs)
      /\ Job("noDelegate", c) \in SocketNetJobs /\ Job("close", c) \in SocketNetJobs
  BY NetJobIs DEF ConnType, JobsInOrder, NetOps
<1>4. netJobs' = Append(q1, Job("close", c))
  BY <1>2, <1>3, Appends
<1>5. /\ q1 \in Seq(SocketNetJobs) /\ NetInOrder(q1)
      /\ \A op, e : On(q1, op, e) <=> On(netJobs, op, e) \/ (op = "noDelegate" /\ e = c)
  BY <1>3, NetAppend, OnAppend, JobFields
<1> HIDE DEF q1
<1>6. /\ netJobs' \in Seq(SocketNetJobs) /\ NetInOrder(netJobs')
      /\ \A op, e : On(netJobs', op, e) <=>
                       On(netJobs, op, e) \/ (op \in {"noDelegate", "close"} /\ e = c)
  BY <1>3, <1>4, <1>5, NetAppend, OnAppend, JobFields
<1>8. ASSUME NEW e \in Conns
      PROVE  /\ conn'[e].user = conn[e].user
             /\ conn'[e].delegate = conn[e].delegate
             /\ conn'[e].socket = (IF e = c THEN FALSE ELSE conn[e].socket)
             /\ conn'[e].closed = (IF e = c THEN TRUE ELSE conn[e].closed)
             /\ e # c => told'[e] = told[e]
  BY ZenonT(30), <1>2 DEF ConnType, ConnStates, TellClosed
<1>14. Late' = Late
  BY <1>8, LateKept
<1>7. ConnType' /\ JobsInOrder'
  <2>0. conn[c] \in ConnStates /\ told[c] \in ToldStates
    BY DEF ConnType
  <2>1. [conn[c] EXCEPT !.closed = TRUE, !.socket = FALSE] \in ConnStates
    BY <2>0 DEF ConnStates
  <2>2. conn' \in [Conns -> ConnStates]
    BY <1>2, <2>1 DEF ConnType
  <2>3. told' \in [Conns -> ToldStates]
    <3>1. [told[c] EXCEPT !.closed = @ + 1] \in ToldStates
      BY <2>0 DEF ToldStates
    <3>2. told' = told \/ told' = [told EXCEPT ![c] = [told[c] EXCEPT !.closed = @ + 1]]
      BY <1>2 DEF TellClosed
    <3> QED BY <3>1, <3>2 DEF ConnType
  <2> QED BY <1>0, <1>6, <1>14, <2>2, <2>3 DEF ConnType, JobsInOrder
<1>9. ASSUME NEW e \in Conns
      PROVE  /\ Unstarted(e)' <=> Unstarted(e)
             /\ Unconnected(e)' <=> Unconnected(e)
             /\ Owns(e)' <=> Owns(e)
             /\ Gone(e)' <=> Gone(e)
             /\ Deaf(e)' <=> Deaf(e)
             /\ ~Unstarted(c)
             /\ \A f : IsFree(f)' <=> IsFree(f)
  <2>0. /\ On(tcpJobs', "start", e) <=> On(tcpJobs, "start", e)
        /\ On(netJobs', "connect", e) <=> On(netJobs, "connect", e)
        /\ ~On(tcpJobs, "start", c)
    BY <1>0, <1>1, <1>6
  <2>1. (Unstarted(e)' <=> Unstarted(e)) /\ (Unconnected(e)' <=> Unconnected(e)) /\ ~Unstarted(c)
    BY <1>0, <1>8, <2>0 DEF Unstarted, Unconnected
  <2>2. Owns(e)' <=> Owns(e)
    BY DEF Owns
  <2>3. Deaf(e)' <=> Deaf(e)
    BY <1>0, <1>1, <1>8 DEF Deaf
  <2> QED BY <2>1, <2>2, <2>3 DEF Gone, IsFree
<1>10. FdsAreOwn'
  BY DEF ConnSafe, FdsAreOwn
<1>11. ASSUME NEW e \in Conns
       PROVE  Begun(e)' /\ SocketKept(e)' /\ OwnerKnows(e)' /\ OpenedIsTold(e)'
  <2>0. Begun(e) /\ SocketKept(e) /\ OwnerKnows(e) /\ OpenedIsTold(e)
    BY DEF ConnSafe
  <2>a. e # c => \A op : On(netJobs', op, e) <=> On(netJobs, op, e)
    BY <1>6
  <2>b. \A op \in {"delegate", "connect", "read", "data"} : On(netJobs', op, e) <=> On(netJobs, op, e)
    BY <1>6
  <2>1. Begun(e)'
    <3>1. conn'[e].user = "none" => ~conn'[e].delegate /\ \A op \in TcpOps : ~On(tcpJobs', op, e)
      BY <1>1, <1>8, <2>0 DEF Begun
    <3>2. Unstarted(e)' => /\ ~conn'[e].socket /\ ~conn'[e].closed
                           /\ \A op \in NetOps : ~On(netJobs', op, e)
      BY <1>8, <1>9, <2>0, <2>a DEF Begun
    <3>3. Unconnected(e)' =>
             /\ sock'[e].fd = NoFd /\ recv'[e].st = "idle" /\ e \notin refused'
             /\ ~On(netJobs', "data", e)
             /\ \A op \in {"opened", "lost", "data"} : ~On(tcpJobs', op, e)
      BY <1>1, <1>9, <2>0, <2>b DEF Begun
    <3> QED BY <3>1, <3>2, <3>3 DEF Begun
  <2>2. SocketKept(e)'
    <3>1. CASE e = c
      BY <1>8, <2>0, <2>b, <3>1 DEF SocketKept
    <3>2. CASE e # c
      BY <1>8, <1>9, <2>0, <2>a, <3>2 DEF SocketKept
    <3> QED BY <3>1, <3>2
  <2>3. OwnerKnows(e)'
    BY <1>1, <1>8, <1>9, <2>0 DEF OwnerKnows
  <2>4. OpenedIsTold(e)'
    BY <1>1, <1>8, <1>9, <2>0 DEF OpenedIsTold
  <2> QED BY <2>1, <2>2, <2>3, <2>4
<1>12. ASSUME NEW e \in Conns PROVE InTurn(e)'
  <2>0. InTurn(e)
    BY DEF ConnSafe
  <2> QED BY <1>1, <1>8, <1>9, <1>14, <2>0 DEF InTurn
<1>13. ASSUME NEW e \in Conns, e \in refused', e \notin Late'
       PROVE  Deaf(e)' \/ HearsNothing(e)'
  <2>0. Deaf(e) \/ HearsNothing(e)
    BY <1>13, <1>14 DEF ConnSafe
  <2>1. HearsNothing(e) => HearsNothing(e)'
    BY <1>1, <1>6, <1>9 DEF HearsNothing
  <2> QED BY <1>9, <2>0, <2>1
<1> QED BY <1>7, <1>10, <1>11, <1>12, <1>13 DEF ConnSafe

\* What a step may ask of the socket.
LEMMA OneMoreNetJob ==
    ASSUME ConnType, JobsInOrder, NEW c \in Conns,
           NEW e \in SocketNetJobs, e.c = c, e.op \in {"send", "read"}
    PROVE  netJobs' = Append(netJobs, e) => NetAsked(c)
<1>1. netJobs \in Seq(SocketNetJobs) /\ NetInOrder(netJobs)
  BY DEF ConnType, JobsInOrder
<1>2. /\ Append(netJobs, e) \in Seq(SocketNetJobs) /\ NetInOrder(Append(netJobs, e))
      /\ \A op, d : On(Append(netJobs, e), op, d) <=> On(netJobs, op, d) \/ (e.op = op /\ e.c = d)
  BY <1>1, NetAppend, OnAppend
<1> QED BY <1>2 DEF NetAsked

LEMMA TcpQueueStepKeeps ==
    ASSUME ConnType, JobsInOrder, ConnSafe, TcpQueueStep
    PROVE  ConnType' /\ JobsInOrder' /\ ConnSafe'
<1> DEFINE j == Head(tcpJobs)
<1> PICK c \in Conns : j.c = c
  BY TcpTaken DEF TcpQueueStep
<1>0. /\ tcpJobs # <<>> /\ tcpJobs' = Tail(tcpJobs)
      /\ UNCHANGED <<sock, recv, owner, wire, refused>>
      /\ j \in SocketTcpJobs /\ j.op \in TcpOps
      /\ conn[c].user # "none"
  BY TcpTaken DEF TcpQueueStep
<1>t. /\ told \in [Conns -> ToldStates] /\ told[c] \in ToldStates
      /\ netJobs \in Seq(SocketNetJobs) /\ NetInOrder(netJobs)
  BY DEF ConnType, JobsInOrder
<1>e. netJobs' = netJobs => NetAsked(c)
  BY <1>t DEF NetAsked
<1>f. told' = told /\ j.op # "opened" => ToldMore(j)
  BY <1>t DEF ToldMore
<1>1. CASE j.op = "delegate" /\ TcpSetDelegate(c, TRUE)
  BY <1>0, <1>1, TcpDelegateStep
<1>2. CASE j.op = "noDelegate" /\ TcpSetDelegate(c, FALSE)
  BY <1>0, <1>2, TcpDelegateStep
<1>3. CASE j.op = "start" /\ TcpStart(c)
  BY <1>0, <1>3, TcpStartStep
<1>4. ASSUME j.op \in {"stop", "data"}, CloseAndNotify(c)
      PROVE  ConnType' /\ JobsInOrder' /\ ConnSafe'
  <2>1. CASE conn[c].closed
    <3>1. UNCHANGED <<conn, netJobs, told>>
      BY <1>4, <2>1 DEF CloseAndNotify
    <3> QED BY <1>0, <1>e, <1>f, <1>4, <2>1, <3>1, TcpQuietStep
  <2>2. CASE ~conn[c].closed
    BY <1>0, <1>4, <2>2, TcpCloseStep
  <2> QED BY <2>1, <2>2
<1>5. CASE j.op = "send" /\ TcpSend(c)
  <2>0. UNCHANGED <<conn, told>> /\ (netJobs' = netJobs \/ netJobs' = Append(netJobs, Job("send", c)))
    BY <1>5 DEF TcpSend
  <2>1. CASE netJobs' = netJobs
    BY <1>0, <1>e, <1>f, <1>5, <2>0, <2>1, TcpQuietStep
  <2>2. CASE netJobs' = Append(netJobs, Job("send", c))
    <3>1. Job("send", c) \in SocketNetJobs
      BY NetJobIs DEF NetOps
    <3>2. NetAsked(c)
      BY <2>2, <3>1, OneMoreNetJob, JobFields
    <3> QED BY <1>0, <1>f, <1>5, <2>0, <3>2, TcpQuietStep
  <2> QED BY <2>0, <2>1, <2>2
<1>6. CASE j.op = "opened" /\ TcpOpened(c)
  <2>1. /\ UNCHANGED <<conn, netJobs>>
        /\ told' = IF conn[c].delegate THEN [told EXCEPT ![c].opened = TRUE] ELSE told
    BY <1>6 DEF TcpOpened
  <2>2. [told[c] EXCEPT !.opened = TRUE] \in ToldStates
    BY <1>t DEF ToldStates
  <2>3. told' \in [Conns -> ToldStates]
    BY <1>t, <2>1, <2>2
  <2>4. /\ \A e \in Conns : /\ told[e].opened => told'[e].opened
                            /\ told'[e].closed = told[e].closed
        /\ conn[c].delegate => told'[c].opened
    BY <1>t, <2>1 DEF ToldStates
  <2>5. ToldMore(j)
    BY <1>6, <2>3, <2>4 DEF ToldMore
  <2> QED BY <1>0, <1>e, <1>6, <2>1, <2>5, TcpQuietStep
<1>7. CASE j.op = "lost" /\ TcpLost(c)
  <2>1. UNCHANGED <<conn, netJobs>> /\ told' = TellClosed(c)
    BY <1>7 DEF TcpLost
  <2>2. [told[c] EXCEPT !.closed = @ + 1] \in ToldStates
    BY <1>t DEF ToldStates
  <2>3. told' \in [Conns -> ToldStates]
    BY <1>t, <2>1, <2>2 DEF TellClosed
  <2>4. \A e \in Conns : /\ told[e].opened => told'[e].opened
                         /\ e # c => told'[e].closed = told[e].closed
    BY <1>t, <2>1 DEF ToldStates, TellClosed
  <2>5. ToldMore(j)
    BY <1>7, <2>3, <2>4 DEF ToldMore
  <2> QED BY <1>0, <1>e, <1>7, <2>1, <2>5, TcpQuietStep
<1>8. CASE j.op = "data" /\ TcpData(c, j.tag, j.item)
  <2>1. CASE ~conn[c].socket
    <3>1. UNCHANGED <<conn, netJobs, told>>
      BY <1>8, <2>1 DEF TcpData
    <3> QED BY <1>0, <1>e, <1>f, <1>8, <3>1, TcpQuietStep
  <2>2. CASE conn[c].socket
    <3>0. PICK next \in NextReads(j.tag, j.item) :
             IF next = "bad"
             THEN CloseAndNotify(c)
             ELSE /\ netJobs' = Append(netJobs, Read(c, next))
                  /\ told' = IF j.tag = "body" /\ conn[c].delegate
                             THEN [told EXCEPT ![c].data = @ + 1] ELSE told
                  /\ UNCHANGED conn
      BY <1>8, <2>2 DEF TcpData
    <3>1. CASE next = "bad"
      BY <1>4, <1>8, <3>0, <3>1
    <3>2. CASE next # "bad"
      <4>1. next \in Tags
        BY <3>2 DEF NextReads, Tags
      <4>2. /\ Read(c, next) \in SocketNetJobs
            /\ Read(c, next).c = c /\ Read(c, next).op = "read"
        BY <4>1 DEF Read, SocketNetJobs
      <4>3. NetAsked(c)
        BY <3>0, <3>2, <4>2, OneMoreNetJob
      <4>4. [told[c] EXCEPT !.data = @ + 1] \in ToldStates
        BY <1>t DEF ToldStates
      <4>5. told' \in [Conns -> ToldStates]
        BY <1>t, <3>0, <3>2, <4>4
      <4>7. ASSUME NEW e \in Conns
            PROVE  told'[e].opened = told[e].opened /\ told'[e].closed = told[e].closed
        <5>1. told'[e] = told[e] \/ told'[e] = [told[e] EXCEPT !.data = @ + 1]
          BY <1>t, <3>0, <3>2
        <5>2. told[e] \in ToldStates
          BY <1>t
        <5> QED BY <5>1, <5>2 DEF ToldStates
      <4>6. ToldMore(j)
        BY <1>8, <4>5, <4>7 DEF ToldMore
      <4> QED BY <1>0, <1>8, <3>0, <3>2, <4>3, <4>5, <4>6, TcpQuietStep
    <3> QED BY <3>1, <3>2
  <2> QED BY <2>1, <2>2
<1>9. CASE j.op = "stop" /\ CloseAndNotify(c)
  BY <1>4, <1>9
<1> QED BY <1>1, <1>2, <1>3, <1>5, <1>6, <1>7, <1>8, <1>9 DEF TcpQueueStep

-----------------------------------------------------------------------------
(* Connection: the jobs of NetworkSocket::queue().                         *)

\* The job that NetworkSocket::queue() takes, and what is left then.
LEMMA NetTaken ==
    ASSUME ConnType, JobsInOrder, ConnSafe, netJobs # <<>>
    PROVE  /\ Head(netJobs) \in SocketNetJobs
           /\ Head(netJobs).op \in NetOps /\ Head(netJobs).c \in Conns
           /\ Tail(netJobs) \in Seq(SocketNetJobs) /\ NetInOrder(Tail(netJobs))
           /\ \A op, e : On(netJobs, op, e) <=> \/ Head(netJobs).op = op /\ Head(netJobs).c = e
                                                \/ On(Tail(netJobs), op, e)
           /\ ~Unstarted(Head(netJobs).c)
           /\ Head(netJobs).op = "connect" =>
                 /\ ~On(Tail(netJobs), "delegate", Head(netJobs).c)
                 /\ \A e \in Conns : e <= Head(netJobs).c => ~On(Tail(netJobs), "connect", e)
           /\ Head(netJobs).op = "read" => /\ ~On(Tail(netJobs), "delegate", Head(netJobs).c)
                                           /\ ~On(Tail(netJobs), "connect", Head(netJobs).c)
<1>1. netJobs \in Seq(SocketNetJobs) /\ NetInOrder(netJobs)
  BY DEF ConnType, JobsInOrder
<1>2. Head(netJobs) \in SocketNetJobs /\ Tail(netJobs) \in Seq(SocketNetJobs)
  BY <1>1, TailQueue
<1>3. Head(netJobs).op \in NetOps /\ Head(netJobs).c \in Conns
  BY <1>2, NetJobHolds
<1>4. \A op, e : On(netJobs, op, e) <=> \/ Head(netJobs).op = op /\ Head(netJobs).c = e
                                        \/ On(Tail(netJobs), op, e)
  BY <1>1, OnTail
<1>5. ~Unstarted(Head(netJobs).c)
  <2>1. On(netJobs, Head(netJobs).op, Head(netJobs).c) /\ Begun(Head(netJobs).c)
    BY <1>3, <1>4 DEF ConnSafe
  <2> QED BY <1>3, <2>1 DEF Begun
<1> QED BY <1>1, <1>2, <1>3, <1>4, <1>5, NetTail

\* A step of one socket that opens and closes nothing.
QueuesKept(c) ==
    /\ tcpJobs' \in Seq(SocketTcpJobs) /\ TcpInOrder(tcpJobs', Late)
    /\ netJobs' \in Seq(SocketNetJobs) /\ NetInOrder(netJobs')
    /\ \A op, e : op # "data" \/ e # c => (On(tcpJobs', op, e) <=> On(tcpJobs, op, e))
    /\ \A op, e : op = "connect" \/ e # c => (On(netJobs', op, e) <=> On(netJobs, op, e))

SocketsKept(c) ==
    /\ sock' \in [Conns -> SockStates] /\ recv' \in [Conns -> RecvStates]
    /\ sock'[c].fd = sock[c].fd
    /\ \A e \in Conns : e # c => sock'[e] = sock[e] /\ recv'[e] = recv[e]

\* Nothing happens to a connection that the step is not about.
LEMMA OtherBegun ==
    ASSUME NEW e \in Conns, Begun(e), conn'[e] = conn[e], sock'[e] = sock[e], recv'[e] = recv[e],
           Unstarted(e)' <=> Unstarted(e), Unconnected(e)' <=> Unconnected(e),
           e \in refused' => e \in refused,
           \A op : On(tcpJobs', op, e) <=> On(tcpJobs, op, e),
           \A op : On(netJobs', op, e) <=> On(netJobs, op, e)
    PROVE  Begun(e)'
<1>1. conn'[e].user = "none" => ~conn'[e].delegate /\ \A op \in TcpOps : ~On(tcpJobs', op, e)
  BY DEF Begun
<1>2. Unstarted(e)' => /\ ~conn'[e].socket /\ ~conn'[e].closed
                       /\ \A op \in NetOps : ~On(netJobs', op, e)
  BY DEF Begun
<1>3. Unconnected(e)' =>
         /\ sock'[e].fd = NoFd /\ recv'[e].st = "idle" /\ e \notin refused'
         /\ ~On(netJobs', "data", e)
         /\ \A op \in {"opened", "lost", "data"} : ~On(tcpJobs', op, e)
  BY DEF Begun
<1> QED BY <1>1, <1>2, <1>3 DEF Begun

\* What it may do for its own connection.
OwnPartKept(c) ==
    /\ On(netJobs', "noDelegate", c) => On(netJobs, "noDelegate", c)
    /\ On(netJobs', "delegate", c) \/ sock'[c].delegate \/ conn[c].closed
    /\ On(netJobs', "delegate", c) \/ On(netJobs', "connect", c) => On(netJobs', "read", c)
    /\ On(netJobs', "data", c) => On(netJobs, "data", c) \/ (recv[c].on # None /\ recv[c].st = "blocked")
    /\ On(tcpJobs', "data", c) => On(tcpJobs, "data", c) \/ On(netJobs, "data", c)
    /\ recv'[c].st # "idle" => recv[c].st # "idle" \/ sock[c].fd # NoFd
    /\ recv'[c].st = "loaded" => recv'[c] = recv[c] \/ recv'[c].fd = sock[c].fd
    /\ recv'[c].st = "blocked" =>
          \/ recv'[c] = recv[c]
          \/ /\ recv[c].st = "loaded"
             /\ recv'[c].on = IF recv[c].fd = NoFd THEN None ELSE owner[recv[c].fd]

LEMMA SocketQuietStep ==
    ASSUME ConnType, JobsInOrder, ConnSafe, NEW c \in Conns, ~Unstarted(c),
           UNCHANGED <<conn, told, owner, refused>>, wire' \in [Conns -> WireStates],
           QueuesKept(c), SocketsKept(c), OwnPartKept(c)
    PROVE  ConnType' /\ JobsInOrder' /\ ConnSafe'
<1>0. /\ \A op, e : op # "data" \/ e # c => (On(tcpJobs', op, e) <=> On(tcpJobs, op, e))
      /\ \A op, e : op = "connect" \/ e # c => (On(netJobs', op, e) <=> On(netJobs, op, e))
      /\ sock'[c].fd = sock[c].fd
      /\ \A e \in Conns : e # c => sock'[e] = sock[e] /\ recv'[e] = recv[e]
  BY DEF QueuesKept, SocketsKept
<1>6. Late' = Late
  BY LateKept
<1>1. ConnType' /\ JobsInOrder'
  BY <1>6 DEF ConnType, JobsInOrder, QueuesKept, SocketsKept
<1>2. ASSUME NEW e \in Conns
      PROVE  /\ Unstarted(e)' <=> Unstarted(e)
             /\ Unconnected(e)' <=> Unconnected(e)
             /\ Owns(e)' <=> Owns(e)
             /\ Gone(e)' <=> Gone(e)
             /\ Deaf(e)' <=> Deaf(e)
             /\ \A f : IsFree(f)' <=> IsFree(f)
             /\ sock'[e].fd = sock[e].fd
  <2>1. (Unstarted(e)' <=> Unstarted(e)) /\ (Unconnected(e)' <=> Unconnected(e))
    BY <1>0 DEF Unstarted, Unconnected
  <2>2. Owns(e)' <=> Owns(e)
    BY DEF Owns
  <2>3. Deaf(e)' <=> Deaf(e)
    BY <1>0 DEF Deaf
  <2> QED BY <1>0, <2>1, <2>2, <2>3 DEF Gone, IsFree
<1>3. FdsAreOwn'
  BY <1>2 DEF ConnSafe, FdsAreOwn
<1>4. ASSUME NEW e \in Conns
      PROVE  Begun(e)' /\ SocketKept(e)' /\ OwnerKnows(e)' /\ OpenedIsTold(e)' /\ InTurn(e)'
  <2>0. Begun(e) /\ SocketKept(e) /\ OwnerKnows(e) /\ OpenedIsTold(e) /\ InTurn(e)
    BY DEF ConnSafe
  <2>1. CASE e # c
    <3>1. /\ \A op : (On(tcpJobs', op, e) <=> On(tcpJobs, op, e))
                  /\ (On(netJobs', op, e) <=> On(netJobs, op, e))
          /\ sock'[e] = sock[e] /\ recv'[e] = recv[e]
      BY <1>0, <2>1
    <3>2. Begun(e)'
      BY <1>2, <2>0, <3>1, OtherBegun
    <3>3. SocketKept(e)'
      BY <1>2, <2>0, <3>1 DEF SocketKept
    <3>4. OwnerKnows(e)'
      BY <1>2, <2>0, <3>1 DEF OwnerKnows
    <3>5. OpenedIsTold(e)'
      BY <1>2, <2>0, <3>1 DEF OpenedIsTold
    <3>6. InTurn(e)'
      BY <1>2, <1>6, <2>0, <3>1 DEF InTurn
    <3> QED BY <3>2, <3>3, <3>4, <3>5, <3>6
  <2>2. CASE e = c
    <3>1. \A op : op # "data" => (On(tcpJobs', op, c) <=> On(tcpJobs, op, c))
      BY <1>0
    <3>2. Begun(c)'
      <4>1. ~Unstarted(c)' /\ conn'[c].user # "none"
        BY <1>2 DEF Unstarted
      <4>2. Unconnected(c)' =>
               /\ sock'[c].fd = NoFd /\ recv'[c].st = "idle" /\ c \notin refused'
               /\ ~On(netJobs', "data", c)
               /\ \A op \in {"opened", "lost", "data"} : ~On(tcpJobs', op, c)
        <5>1. SUFFICES ASSUME Unconnected(c)
                       PROVE  /\ sock'[c].fd = NoFd /\ recv'[c].st = "idle" /\ c \notin refused'
                              /\ ~On(netJobs', "data", c)
                              /\ \A op \in {"opened", "lost", "data"} : ~On(tcpJobs', op, c)
          BY <1>2
        <5>2. /\ sock[c].fd = NoFd /\ recv[c].st = "idle" /\ c \notin refused
              /\ ~On(netJobs, "data", c)
              /\ \A op \in {"opened", "lost", "data"} : ~On(tcpJobs, op, c)
          BY <2>0, <2>2, <5>1 DEF Begun
        <5> QED BY <1>0, <3>1, <5>2 DEF OwnPartKept
      <4> QED BY <4>1, <4>2 DEF Begun
    <3>3. SocketKept(c)'
      BY <1>2, <2>0, <2>2 DEF SocketKept, OwnPartKept
    <3>4. OwnerKnows(c)'
      BY <1>2, <2>0, <2>2, <3>1 DEF OwnerKnows
    <3>5. OpenedIsTold(c)'
      BY <1>2, <2>0, <2>2, <3>1 DEF OpenedIsTold
    <3>6. InTurn(c)'
      BY <1>2, <1>6, <2>0, <2>2, <3>1 DEF InTurn
    <3> QED BY <2>2, <3>2, <3>3, <3>4, <3>5, <3>6
  <2> QED BY <2>1, <2>2
<1>5. ASSUME NEW e \in Conns, e \in refused', e \notin Late'
       PROVE  Deaf(e)' \/ HearsNothing(e)'
  <2>0. Deaf(e) \/ HearsNothing(e)
    BY <1>5, <1>6 DEF ConnSafe
  <2>1. HearsNothing(e) => HearsNothing(e)'
    <3> SUFFICES ASSUME HearsNothing(e) PROVE HearsNothing(e)'
      OBVIOUS
    <3>0. /\ \A d \in Conns : ~On(netJobs, "connect", d)
          /\ ~On(netJobs, "data", e) /\ ~On(tcpJobs, "data", e)
          /\ IsFree(sock[e].fd)
          /\ recv[e].st = "loaded" => IsFree(recv[e].fd)
          /\ recv[e].st = "blocked" => recv[e].on = None
      BY DEF HearsNothing
    <3>1. /\ \A d \in Conns : ~On(netJobs', "connect", d)
          /\ IsFree(sock[e].fd)'
      BY <1>0, <1>2, <3>0 DEF IsFree
    <3>2. CASE e # c
      BY <1>0, <1>2, <3>0, <3>1, <3>2 DEF HearsNothing
    <3>3. CASE e = c
      <4>1. ~On(netJobs', "data", c) /\ ~On(tcpJobs', "data", c)
        BY <3>0, <3>3 DEF OwnPartKept
      <4>2. recv'[c].st = "loaded" => IsFree(recv[c].fd)'
        <5>1. recv'[c].st = "loaded" => recv'[c] = recv[c] \/ recv'[c].fd = sock[c].fd
          BY DEF OwnPartKept
        <5> QED BY <1>2, <3>0, <3>3, <5>1 DEF IsFree
      <4>3. recv'[c].st = "blocked" => recv'[c].on = None
        <5>1. recv'[c].st = "blocked" =>
                 \/ recv'[c] = recv[c]
                 \/ /\ recv[c].st = "loaded"
                    /\ recv'[c].on = IF recv[c].fd = NoFd THEN None ELSE owner[recv[c].fd]
          BY DEF OwnPartKept
        <5> QED BY <3>0, <3>3, <5>1 DEF IsFree
      <4> QED BY <3>1, <3>3, <4>1, <4>2, <4>3 DEF HearsNothing
    <3> QED BY <3>2, <3>3
  <2> QED BY <1>2, <2>0, <2>1
<1> QED BY <1>1, <1>3, <1>4, <1>5 DEF ConnSafe

\* A socket's own jobs may be posted at any time.
LEMMA NetPosts ==
    ASSUME NEW q \in Seq(SocketNetJobs), NetInOrder(q), NEW e \in SocketNetJobs,
           e.op \notin {"delegate", "connect"}
    PROVE  /\ Append(q, e) \in Seq(SocketNetJobs) /\ NetInOrder(Append(q, e))
           /\ \A op, c : On(Append(q, e), op, c) <=> On(q, op, c) \/ (e.op = op /\ e.c = c)
<1>1. NetInOrder(Append(q, e))
  BY NetAppend
<1> QED BY <1>1, OnAppend

LEMMA NetPosted ==
    ASSUME NEW q \in Seq(SocketNetJobs), NetInOrder(q), NEW c \in Conns,
           NEW p \in NetOps \ {"read", "data", "delegate", "connect"}
    PROVE  /\ Append(q, Job(p, c)) \in Seq(SocketNetJobs) /\ NetInOrder(Append(q, Job(p, c)))
           /\ \A op, e : On(Append(q, Job(p, c)), op, e) <=> On(q, op, e) \/ (op = p /\ e = c)
<1>1. Job(p, c) \in SocketNetJobs /\ Job(p, c).op = p /\ Job(p, c).c = c
  BY NetJobIs, JobFields
<1> QED BY <1>1, NetPosts

LEMMA DataPosted ==
    ASSUME NEW q \in Seq(SocketTcpJobs), TcpInOrder(q, Late), NEW c \in Conns,
           NEW tag \in Tags, NEW item \in Pieces
    PROVE  /\ Append(q, Arrival(c, tag, item)) \in Seq(SocketTcpJobs)
           /\ TcpInOrder(Append(q, Arrival(c, tag, item)), Late)
           /\ \A op, e : On(Append(q, Arrival(c, tag, item)), op, e) <=>
                             On(q, op, e) \/ (op = "data" /\ e = c)
<1>1. /\ Arrival(c, tag, item) \in SocketTcpJobs
      /\ Arrival(c, tag, item).op = "data" /\ Arrival(c, tag, item).c = c
  BY DEF Arrival, SocketTcpJobs
<1>2. TcpInOrder(Append(q, Arrival(c, tag, item)), Late)
  BY <1>1, TcpAppend
<1> QED BY <1>1, <1>2, OnAppend

\* A job to open, and to read, is not passed over.
LEMMA PassedOver ==
    ASSUME ConnType, JobsInOrder, ConnSafe, netJobs # <<>>, ~SockHeld(Head(netJobs).c)
    PROVE  Head(netJobs).op \notin {"delegate", "connect", "read", "send"}
<1> DEFINE c == Head(netJobs).c
<1>1. ~On(netJobs, "read", c) /\ ~On(netJobs, "send", c)
  BY DEF SockHeld, HasJob, On
<1>2. c \in Conns /\ SocketKept(c)
  BY NetTaken DEF ConnSafe
<1>3. On(netJobs, Head(netJobs).op, c)
  BY NetTaken
<1> QED BY <1>1, <1>2, <1>3 DEF SocketKept

\* A job of a socket that opens and closes nothing.
LEMMA NetQuietStep ==
    ASSUME ConnType, JobsInOrder, ConnSafe, netJobs # <<>>,
           NEW c \in Conns, Head(netJobs).c = c, Head(netJobs).op # "connect",
           UNCHANGED <<conn, told, owner, wire, refused>>,
           NEW s \in SockStates, sock' = [sock EXCEPT ![c] = s], s.fd = sock[c].fd,
           Head(netJobs).op = "delegate" => s.delegate,
           Head(netJobs).op \notin {"delegate", "noDelegate"} => s.delegate = sock[c].delegate,
           \/ recv' = recv
           \/ /\ s.fd # NoFd
              /\ \E tag \in Tags :
                    recv' = [recv EXCEPT ![c] = [Idle EXCEPT !.st = "posted", !.tag = tag]],
           \/ tcpJobs' = tcpJobs
           \/ /\ Head(netJobs).op = "data"
              /\ \E tag \in Tags, item \in Pieces : tcpJobs' = Append(tcpJobs, Arrival(c, tag, item)),
           \/ netJobs' = Tail(netJobs)
           \/ \E op \in {"dequeueRead", "dequeueWrite"} : netJobs' = Append(Tail(netJobs), Job(op, c))
    PROVE  ConnType' /\ JobsInOrder' /\ ConnSafe'
<1> DEFINE h == Head(netJobs)
           q == Tail(netJobs)
<1>0. /\ h.op \in NetOps
      /\ q \in Seq(SocketNetJobs) /\ NetInOrder(q)
      /\ \A op, e : On(netJobs, op, e) <=> (h.op = op /\ c = e) \/ On(q, op, e)
      /\ ~Unstarted(c)
      /\ h.op = "read" => ~On(q, "delegate", c) /\ ~On(q, "connect", c)
  BY NetTaken
<1> HIDE DEF q, h
<1>1. /\ tcpJobs' \in Seq(SocketTcpJobs) /\ TcpInOrder(tcpJobs', Late)
      /\ \A op, e : op # "data" \/ e # c => (On(tcpJobs', op, e) <=> On(tcpJobs, op, e))
      /\ On(tcpJobs', "data", c) => On(tcpJobs, "data", c) \/ On(netJobs, "data", c)
  <2>0. tcpJobs \in Seq(SocketTcpJobs) /\ TcpInOrder(tcpJobs, Late)
    BY DEF ConnType, JobsInOrder
  <2>1. CASE tcpJobs' = tcpJobs
    BY <2>0, <2>1
  <2>2. ASSUME h.op = "data", NEW tag \in Tags, NEW item \in Pieces,
               tcpJobs' = Append(tcpJobs, Arrival(c, tag, item))
        PROVE  <1>1!1 /\ <1>1!2 /\ <1>1!3
    <3> DEFINE r == Append(tcpJobs, Arrival(c, tag, item))
    <3>1. /\ r \in Seq(SocketTcpJobs) /\ TcpInOrder(r, Late)
          /\ \A op, e : On(r, op, e) <=> On(tcpJobs, op, e) \/ (op = "data" /\ e = c)
      BY <2>0, DataPosted
    <3>2. tcpJobs' = r
      BY <2>2
    <3> HIDE DEF r
    <3>4. On(netJobs, "data", c)
      BY <1>0, <2>2
    <3> QED BY <3>1, <3>2, <3>4
  <2> QED BY <2>1, <2>2 DEF h
<1>2. /\ netJobs' \in Seq(SocketNetJobs) /\ NetInOrder(netJobs')
      /\ \A op, e : op \notin {"dequeueRead", "dequeueWrite"} \/ e # c =>
                       (On(netJobs', op, e) <=> On(q, op, e))
  <2>1. CASE netJobs' = q
    BY <1>0, <2>1
  <2>2. ASSUME NEW p \in {"dequeueRead", "dequeueWrite"}, netJobs' = Append(q, Job(p, c))
        PROVE  <1>2
    <3>2. /\ Append(q, Job(p, c)) \in Seq(SocketNetJobs) /\ NetInOrder(Append(q, Job(p, c)))
          /\ \A op, e : On(Append(q, Job(p, c)), op, e) <=> On(q, op, e) \/ (op = p /\ e = c)
      <4>1. p \in NetOps \ {"read", "data", "delegate", "connect"}
        BY DEF NetOps
      <4> QED BY ZenonT(30), <1>0, <4>1, NetPosted
    <3> QED BY <2>2, <3>2
  <2> QED BY <2>1, <2>2 DEF q
<1>3. QueuesKept(c)
  <2>1. \A op, e : op = "connect" \/ e # c => (On(netJobs', op, e) <=> On(netJobs, op, e))
    BY <1>0, <1>2 DEF h
  <2> QED BY <1>1, <1>2, <2>1 DEF QueuesKept
<1>4. SocketsKept(c) /\ sock'[c] = s /\ recv'[c].st \in {recv[c].st, "posted"}
      /\ (recv' = recv \/ s.fd # NoFd) /\ (recv'[c].st = "posted" \/ recv'[c] = recv[c])
  <2>0. recv \in [Conns -> RecvStates] /\ sock \in [Conns -> SockStates]
    BY DEF ConnType
  <2>1. CASE recv' = recv
    BY <2>0, <2>1 DEF SocketsKept
  <2>2. ASSUME s.fd # NoFd, NEW tag \in Tags,
               recv' = [recv EXCEPT ![c] = [Idle EXCEPT !.st = "posted", !.tag = tag]]
        PROVE  <1>4
    <3>0. Idle \in RecvStates
      BY DEF Idle, RecvStates, Tags
    <3> DEFINE r == [Idle EXCEPT !.st = "posted", !.tag = tag]
    <3>1. r \in RecvStates /\ r.st = "posted"
      BY <3>0 DEF RecvStates
    <3> HIDE DEF r
    <3>2. recv' = [recv EXCEPT ![c] = r]
      BY <2>2 DEF r
    <3>3. recv'[c].st = "posted" /\ recv' \in [Conns -> RecvStates]
      BY <2>0, <3>1, <3>2
    <3>4. sock' \in [Conns -> SockStates] /\ sock'[c] = s
      BY <2>0
    <3>5. \A e \in Conns : e # c => sock'[e] = sock[e] /\ recv'[e] = recv[e]
      BY <2>0, <3>2
    <3> QED BY <2>2, <3>3, <3>4, <3>5 DEF SocketsKept
  <2> QED BY <2>1, <2>2
<1>5. SocketKept(c)
  BY DEF ConnSafe
<1>6. OwnPartKept(c)
  <2>1. On(netJobs', "noDelegate", c) => On(netJobs, "noDelegate", c)
    BY <1>0, <1>2
  <2>2. On(netJobs', "delegate", c) \/ sock'[c].delegate \/ conn[c].closed
    <3>1. On(netJobs, "delegate", c) \/ sock[c].delegate \/ conn[c].closed
      BY <1>0, <1>5 DEF SocketKept
    <3>2. CASE h.op = "delegate"
      BY <1>4, <3>2 DEF h
    <3>3. CASE h.op = "noDelegate"
      BY <1>0, <1>5, <3>3 DEF SocketKept
    <3>4. CASE h.op \notin {"delegate", "noDelegate"}
      BY <1>0, <1>2, <1>4, <3>1, <3>4 DEF h
    <3> QED BY <3>2, <3>3, <3>4
  <2>3. On(netJobs', "delegate", c) \/ On(netJobs', "connect", c) => On(netJobs', "read", c)
    BY <1>0, <1>2, <1>5 DEF SocketKept
  <2>4. On(netJobs', "data", c) => On(netJobs, "data", c)
    BY <1>0, <1>2
  <2>5. recv'[c].st # "idle" => recv[c].st # "idle" \/ sock[c].fd # NoFd
    BY <1>4
  <2>6. /\ recv'[c].st = "loaded" => recv'[c] = recv[c]
        /\ recv'[c].st = "blocked" => recv'[c] = recv[c]
    BY <1>4
  <2>7. On(tcpJobs', "data", c) => On(tcpJobs, "data", c) \/ On(netJobs, "data", c)
    BY <1>1
  <2> QED BY <2>1, <2>2, <2>3, <2>4, <2>5, <2>6, <2>7 DEF OwnPartKept
<1>7. wire' \in [Conns -> WireStates]
  BY DEF ConnType
<1> QED BY <1>0, <1>3, <1>4, <1>6, <1>7, SocketQuietStep

\* What a socket tells its connection.
LEMMA TcpPosted ==
    ASSUME NEW q \in Seq(SocketTcpJobs), TcpInOrder(q, Late), NEW c \in Conns, NEW p \in {"opened", "lost"},
           p = "opened" => ~On(q, "data", c)
    PROVE  /\ Append(q, Job(p, c)) \in Seq(SocketTcpJobs) /\ TcpInOrder(Append(q, Job(p, c)), Late)
           /\ \A op, e : On(Append(q, Job(p, c)), op, e) <=> On(q, op, e) \/ (op = p /\ e = c)
<1>1. Job(p, c) \in SocketTcpJobs /\ Job(p, c).op = p /\ Job(p, c).c = c
  BY TcpJobIs, JobFields DEF TcpOps
<1>2. TcpInOrder(Append(q, Job(p, c)), Late)
  BY <1>1, TcpAppend
<1> QED BY <1>1, <1>2, OnAppend

\* The socket is closed, and its descriptor.
LEMMA NetClosesStep ==
    ASSUME ConnType, JobsInOrder, ConnSafe, netJobs # <<>>,
           NEW c \in Conns, Head(netJobs).c = c, Head(netJobs).op \in {"close", "dequeueWrite"},
           NEW s \in SockStates, s.fd = sock[c].fd, s.delegate = sock[c].delegate, s.fd # NoFd,
           CloseNow(c, s), UNCHANGED <<conn, told>>
    PROVE  ConnType' /\ JobsInOrder' /\ ConnSafe'
<1> DEFINE f == s.fd
           t == [s EXCEPT !.failed = TRUE, !.reading = FALSE, !.fd = NoFd]
<1>0. /\ f \in Fds
      /\ sock' = [sock EXCEPT ![c] = t] /\ t \in SockStates /\ t.fd = NoFd /\ t.delegate = s.delegate
      /\ owner' = [owner EXCEPT ![f] = None]
      /\ wire' = [e \in Conns |-> IF owner[f] = e THEN [wire[e] EXCEPT !.up = FALSE] ELSE wire[e]]
      /\ tcpJobs' = tcpJobs \/ tcpJobs' = Append(tcpJobs, Job("lost", c))
      /\ netJobs' = Tail(netJobs) /\ UNCHANGED <<recv, refused>>
  BY DEF CloseNow, Released, Lost, SockStates
<1> HIDE DEF f, t
<1>1. /\ netJobs' \in Seq(SocketNetJobs) /\ NetInOrder(netJobs')
      /\ \A op, e : op \in {"close", "dequeueWrite"} \/ (On(netJobs, op, e) <=> On(netJobs', op, e))
      /\ \A op, e : e = c \/ (On(netJobs, op, e) <=> On(netJobs', op, e))
      /\ ~Unstarted(c)
  BY <1>0, NetTaken
<1>2. /\ tcpJobs' \in Seq(SocketTcpJobs) /\ TcpInOrder(tcpJobs', Late)
      /\ \A op, e : On(tcpJobs, op, e) => On(tcpJobs', op, e)
      /\ \A op, e : On(tcpJobs', op, e) => On(tcpJobs, op, e) \/ (op = "lost" /\ e = c)
  <2>0. tcpJobs \in Seq(SocketTcpJobs) /\ TcpInOrder(tcpJobs, Late)
    BY DEF ConnType, JobsInOrder
  <2>1. /\ Append(tcpJobs, Job("lost", c)) \in Seq(SocketTcpJobs)
        /\ TcpInOrder(Append(tcpJobs, Job("lost", c)), Late)
        /\ \A op, e : On(Append(tcpJobs, Job("lost", c)), op, e) <=>
                         On(tcpJobs, op, e) \/ (op = "lost" /\ e = c)
    BY <2>0, TcpPosted
  <2> QED BY <1>0, <2>0, <2>1
<1>11. Late' = Late
  BY LateKept
<1>3. ConnType' /\ JobsInOrder'
  <2>0. /\ sock \in [Conns -> SockStates] /\ owner \in [Fds -> Conns \cup {None}]
        /\ wire \in [Conns -> WireStates]
    BY DEF ConnType
  <2>1. sock' \in [Conns -> SockStates] /\ owner' \in [Fds -> Conns \cup {None}]
    BY <1>0, <2>0
  <2>2. \A e \in Conns : [wire[e] EXCEPT !.up = FALSE] \in WireStates
    BY <2>0 DEF WireStates
  <2>3. wire' \in [Conns -> WireStates]
    BY <1>0, <2>0, <2>2
  <2> QED BY <1>0, <1>1, <1>2, <1>11, <2>1, <2>3 DEF ConnType, JobsInOrder
<1>4. /\ \A g \in Fds : owner'[g] = IF g = f THEN None ELSE owner[g]
      /\ \A e \in Conns : e # c => sock'[e] = sock[e]
      /\ sock'[c].fd = NoFd /\ sock'[c].delegate = sock[c].delegate
  BY <1>0 DEF ConnType
<1>5. Begun(c) /\ OwnerKnows(c) /\ ~Unconnected(c)
  <2>1. Begun(c) /\ OwnerKnows(c)
    BY DEF ConnSafe
  <2> QED BY <2>1 DEF Begun
<1>6. ~Owns(c)'
  <2> SUFFICES ASSUME NEW g \in Fds, owner'[g] = c PROVE FALSE
    BY DEF Owns
  <2>1. g # f /\ owner[g] = c
    BY <1>4, ConnAssumption DEF Conns, None
  <2>2. sock[c].fd = g
    BY <1>5, <2>1 DEF OwnerKnows
  <2> QED BY <2>1, <2>2 DEF f
<1>7. ASSUME NEW e \in Conns
      PROVE  /\ Unstarted(e)' <=> Unstarted(e)
             /\ Unconnected(e)' <=> Unconnected(e)
             /\ Owns(e)' => Owns(e)
             /\ Gone(e) => Gone(e)'
             /\ Gone(c)'
             /\ Deaf(e)' <=> Deaf(e)
             /\ \A g \in Fds \cup {NoFd} : IsFree(g) => IsFree(g)'
  <2>1. (Unstarted(e)' <=> Unstarted(e)) /\ (Unconnected(e)' <=> Unconnected(e))
    BY <1>1, <1>2 DEF Unstarted, Unconnected
  <2>2. Owns(e)' => Owns(e)
    BY <1>4, ConnAssumption DEF Owns, Conns, None
  <2>3. Deaf(e)' <=> Deaf(e)
    BY <1>2 DEF Deaf
  <2>4. (Gone(e) => Gone(e)') /\ Gone(c)'
    <3>1. ~Unconnected(c)'
      BY <1>1, <1>2, <1>5 DEF Unstarted, Unconnected
    <3> QED BY <1>6, <2>1, <2>2, <3>1 DEF Gone
  <2>5. ASSUME NEW g \in Fds \cup {NoFd}, IsFree(g) PROVE IsFree(g)'
    BY <1>4, <2>5 DEF IsFree
  <2> QED BY <2>1, <2>2, <2>3, <2>4, <2>5
<1>8. FdsAreOwn'
  <2> SUFFICES ASSUME refused = {}, NEW e \in Conns, sock'[e].fd # NoFd
               PROVE  owner'[sock'[e].fd] = e
    BY <1>0 DEF FdsAreOwn
  <2>1. e # c /\ sock'[e].fd = sock[e].fd
    BY <1>4
  <2>2. owner[sock[e].fd] = e /\ owner[f] = c /\ sock[e].fd \in Fds
    BY <2>1 DEF ConnSafe, FdsAreOwn, f, ConnType, SockStates
  <2> QED BY <1>4, <2>1, <2>2
<1>9. ASSUME NEW e \in Conns
      PROVE  Begun(e)' /\ SocketKept(e)' /\ OwnerKnows(e)' /\ OpenedIsTold(e)' /\ InTurn(e)'
  <2>0. Begun(e) /\ SocketKept(e) /\ OwnerKnows(e) /\ OpenedIsTold(e) /\ InTurn(e)
    BY DEF ConnSafe
  <2>1. Begun(e)'
    <3>1. CASE e = c
      <4>1. ~Unstarted(e)' /\ ~Unconnected(e)' /\ conn'[e].user # "none"
        BY <1>1, <1>5, <1>7, <3>1 DEF Unstarted
      <4> QED BY <4>1 DEF Begun
    <3>2. CASE e # c
      <4>1. \A op : /\ On(netJobs, op, e) <=> On(netJobs', op, e)
                    /\ On(tcpJobs, op, e) <=> On(tcpJobs', op, e)
        BY <1>1, <1>2, <3>2
      <4>2. conn'[e] = conn[e] /\ sock'[e] = sock[e] /\ recv'[e] = recv[e]
        BY <1>0, <1>4, <3>2
      <4>3. /\ \A op : On(tcpJobs', op, e) <=> On(tcpJobs, op, e)
            /\ \A op : On(netJobs', op, e) <=> On(netJobs, op, e)
            /\ e \in refused' => e \in refused
        BY <1>0, <4>1
      <4>4. (Unstarted(e)' <=> Unstarted(e)) /\ (Unconnected(e)' <=> Unconnected(e))
        BY <1>7
      <4> QED BY <2>0, <4>2, <4>3, <4>4, OtherBegun
    <3> QED BY <3>1, <3>2
  <2>2. SocketKept(e)'
    <3>1. \A op \in {"noDelegate", "delegate", "connect", "read"} :
             On(netJobs, op, e) <=> On(netJobs', op, e)
      BY <1>1
    <3>2. sock'[e].delegate = sock[e].delegate
      BY <1>4
    <3> QED BY <1>7, <2>0, <3>1, <3>2 DEF SocketKept
  <2>3. OwnerKnows(e)'
    <3>1. ASSUME NEW g \in Fds, owner'[g] = e PROVE sock'[e].fd = g
      <4>1. e # c
        BY <1>6, <3>1 DEF Owns
      <4>2. owner[g] = e
        BY <1>4, <3>1, ConnAssumption DEF Conns, None
      <4> QED BY <1>4, <2>0, <4>1, <4>2 DEF OwnerKnows
    <3>2. On(tcpJobs', "lost", e) \/ told'[e].closed > 0 => conn'[e].closed \/ Gone(e)'
      BY <1>2, <1>7, <2>0 DEF OwnerKnows
    <3>3. conn'[e].user = "dropped" => conn'[e].closed \/ On(tcpJobs', "stop", e) \/ Gone(e)'
      BY <1>2, <1>7, <2>0 DEF OwnerKnows
    <3> QED BY <3>1, <3>2, <3>3 DEF OwnerKnows
  <2>4. OpenedIsTold(e)'
    BY <1>0, <1>2, <1>7, <2>0 DEF OpenedIsTold
  <2>5. InTurn(e)'
    BY <1>2, <1>7, <1>11, <2>0 DEF InTurn
  <2> QED BY <2>1, <2>2, <2>3, <2>4, <2>5
<1>10. ASSUME NEW e \in Conns, e \in refused', e \notin Late'
       PROVE  Deaf(e)' \/ HearsNothing(e)'
  <2>0. Deaf(e) \/ HearsNothing(e)
    BY <1>0, <1>10, <1>11 DEF ConnSafe
  <2>1. HearsNothing(e) => HearsNothing(e)'
    <3> SUFFICES ASSUME HearsNothing(e) PROVE HearsNothing(e)'
      OBVIOUS
    <3>0. /\ \A d \in Conns : ~On(netJobs, "connect", d)
          /\ ~On(netJobs, "data", e) /\ ~On(tcpJobs, "data", e)
          /\ IsFree(sock[e].fd)
          /\ recv[e].st = "loaded" => IsFree(recv[e].fd)
          /\ recv[e].st = "blocked" => recv[e].on = None
      BY DEF HearsNothing
    <3>1. sock[e].fd \in Fds \cup {NoFd} /\ recv[e].fd \in Fds \cup {NoFd}
      BY DEF ConnType, SockStates, RecvStates
    <3>2. IsFree(sock[e].fd)'
      <4>1. CASE e = c
        BY <1>4, <4>1 DEF IsFree
      <4>2. CASE e # c
        <5>1. sock'[e].fd = sock[e].fd
          BY <1>4, <4>2
        <5> QED BY <1>4, <3>0, <3>1, <5>1 DEF IsFree
      <4> QED BY <4>1, <4>2
    <3>3. recv'[e].st = "loaded" => IsFree(recv[e].fd)'
      BY <1>0, <1>4, <3>0, <3>1 DEF IsFree
    <3> QED BY <1>0, <1>1, <1>2, <3>0, <3>2, <3>3 DEF HearsNothing
  <2> QED BY <1>7, <2>0, <2>1
<1> QED BY <1>3, <1>8, <1>9, <1>10 DEF ConnSafe

\* There is a least descriptor in a set of them.
Below == {p \in Nat \X Nat : p[1] < p[2]}

LEMMA BelowIsWellFounded == IsWellFoundedOn(Below, Nat)
<1>1. Below = OpToRel(<, Nat)
  BY DEF Below, OpToRel
<1>2. IsWellFoundedOn(OpToRel(<, Nat), Nat)
  BY NatLessThanWellFounded
<1> QED BY <1>1, <1>2

LEMMA LowestIsLeast ==
    ASSUME NEW F \in SUBSET Fds, F # {}
    PROVE  Lowest(F) \in F /\ \A g \in F : Lowest(F) <= g
<1>1. F \subseteq Nat
  BY ConnAssumption DEF Fds
<1>2. \E x \in F : \A y \in F : ~(<<y, x>> \in Below)
  BY <1>1, BelowIsWellFounded, WFMin, Zenon
<1>3. PICK x \in F : \A y \in F : ~(<<y, x>> \in Below)
  BY <1>2
<1>4. \A y \in F : x <= y
  <2> SUFFICES ASSUME NEW y \in F PROVE x <= y
    OBVIOUS
  <2>1. x \in Nat /\ y \in Nat
    BY <1>1
  <2>2. y < x => <<y, x>> \in Below
    BY <2>1 DEF Below
  <2> QED BY <1>3, <2>1, <2>2
<1> QED BY <1>4 DEF Lowest

\* A connection that has none finds a descriptor: each of the others has one at
\* most.
LEMMA FreeDescriptor ==
    ASSUME ConnType, ConnSafe, NEW c \in Conns, Unconnected(c)
    PROVE  {g \in Fds : owner[g] = None} # {}
<1> SUFFICES ASSUME \A g \in Fds : owner[g] # None
             PROVE  FALSE
  OBVIOUS
<1> DEFINE Others == Conns \ {c}
<1>1. \A g \in Fds : owner[g] \in Conns /\ sock[owner[g]].fd = g
  <2> SUFFICES ASSUME NEW g \in Fds PROVE owner[g] \in Conns /\ sock[owner[g]].fd = g
    OBVIOUS
  <2>1. owner[g] \in Conns
    BY DEF ConnType
  <2>2. OwnerKnows(owner[g])
    BY <2>1 DEF ConnSafe
  <2> QED BY <2>1, <2>2 DEF OwnerKnows
<1>2. \A g \in Fds : owner[g] # c
  <2>1. Begun(c)
    BY DEF ConnSafe
  <2>2. sock[c].fd = NoFd
    BY <2>1 DEF Begun
  <2> QED BY <1>1, <2>2, ConnAssumption DEF Fds, NoFd
<1>3. owner \in [Fds -> Others]
  BY <1>1, <1>2 DEF ConnType
<1>4. IsFiniteSet(Fds) /\ Cardinality(Fds) = NumConns
  BY ConnAssumption, FS_Interval DEF Fds
<1>5. IsFiniteSet(Others) /\ Cardinality(Others) = NumConns - 1
  <2>1. IsFiniteSet(Conns) /\ Cardinality(Conns) = NumConns
    BY ConnAssumption, FS_Interval DEF Conns
  <2> QED BY <2>1, FS_RemoveElement
<1> HIDE DEF Others
<1>6. \E x, y \in Fds : x # y /\ owner[x] = owner[y]
  <2>1. Cardinality(Others) < Cardinality(Fds)
    BY <1>4, <1>5, ConnAssumption
  <2> QED BY <1>3, <1>4, <1>5, <2>1, FS_PigeonHole
<1> QED BY <1>1, <1>6

\* The socket connects.
LEMMA NetConnectsStep ==
    ASSUME ConnType, JobsInOrder, ConnSafe, netJobs # <<>>,
           NEW c \in Conns, Head(netJobs).c = c, Head(netJobs).op = "connect",
           NEW f \in Fds, owner[f] = None, Connects(c, f), UNCHANGED <<conn, told>>
    PROVE  ConnType' /\ JobsInOrder' /\ ConnSafe'
<1> DEFINE t == [Opens(c, f) EXCEPT !.failed = FALSE]
           q == Append(Tail(netJobs), Job("dequeueRead", c))
<1>0. /\ sock' = [sock EXCEPT ![c] = t] /\ t \in SockStates
      /\ t.fd = f /\ t.delegate = sock[c].delegate
      /\ owner' = [owner EXCEPT ![f] = c]
      /\ wire' = [wire EXCEPT ![c].up = TRUE]
      /\ tcpJobs' = IF Hears(c) THEN Append(tcpJobs, Job("opened", c)) ELSE tcpJobs
      /\ netJobs' = Tail(netJobs) \o <<Job("dequeueRead", c), Job("dequeueWrite", c)>>
      /\ UNCHANGED <<recv, refused>>
  <2>1. sock[c] \in SockStates
    BY DEF ConnType
  <2> QED BY <2>1 DEF Connects, Opens, SockStates
<1> HIDE DEF t
<1>1. /\ Tail(netJobs) \in Seq(SocketNetJobs) /\ NetInOrder(Tail(netJobs))
      /\ \A op, e : On(netJobs, op, e) <=> (op = "connect" /\ e = c) \/ On(Tail(netJobs), op, e)
      /\ ~Unstarted(c) /\ ~On(Tail(netJobs), "delegate", c) /\ ~On(Tail(netJobs), "connect", c)
  BY NetTaken, ConnAssumption DEF Conns
<1>2. /\ q \in Seq(SocketNetJobs) /\ NetInOrder(q)
      /\ \A op, e : On(q, op, e) <=> On(Tail(netJobs), op, e) \/ (op = "dequeueRead" /\ e = c)
  BY <1>1, NetPosted DEF NetOps
<1>3. netJobs' = Append(q, Job("dequeueWrite", c))
  <2>1. Job("dequeueRead", c) \in SocketNetJobs /\ Job("dequeueWrite", c) \in SocketNetJobs
    BY NetJobIs DEF NetOps
  <2> QED BY <1>0, <1>1, <2>1, Appends
<1> HIDE DEF q
<1>4. /\ netJobs' \in Seq(SocketNetJobs) /\ NetInOrder(netJobs')
      /\ \A op, e : On(netJobs', op, e) <=>
                       On(Tail(netJobs), op, e) \/ (op \in {"dequeueRead", "dequeueWrite"} /\ e = c)
  BY <1>2, <1>3, NetPosted DEF NetOps
<1>5. Begun(c) /\ SocketKept(c) /\ OwnerKnows(c) /\ InTurn(c) /\ Unconnected(c)
  <2>1. On(netJobs, "connect", c)
    BY <1>1
  <2> QED BY <2>1 DEF ConnSafe, Unconnected
<1>6. /\ sock[c].fd = NoFd /\ recv[c].st = "idle" /\ c \notin refused
      /\ \A op \in {"opened", "lost", "data"} : ~On(tcpJobs, op, c)
  BY <1>5 DEF Begun
<1>7. /\ tcpJobs' \in Seq(SocketTcpJobs) /\ TcpInOrder(tcpJobs', Late)
      /\ \A op, e : On(tcpJobs, op, e) => On(tcpJobs', op, e)
      /\ \A op, e : On(tcpJobs', op, e) => On(tcpJobs, op, e) \/ (op = "opened" /\ e = c)
      /\ Hears(c) => On(tcpJobs', "opened", c)
  <2>0. tcpJobs \in Seq(SocketTcpJobs) /\ TcpInOrder(tcpJobs, Late)
    BY DEF ConnType, JobsInOrder
  <2>1. /\ Append(tcpJobs, Job("opened", c)) \in Seq(SocketTcpJobs)
        /\ TcpInOrder(Append(tcpJobs, Job("opened", c)), Late)
        /\ \A op, e : On(Append(tcpJobs, Job("opened", c)), op, e) <=>
                         On(tcpJobs, op, e) \/ (op = "opened" /\ e = c)
    BY <1>6, <2>0, TcpPosted
  <2> QED BY <1>0, <2>0, <2>1
<1>15. Late' = Late
  BY LateKept
<1>8. ConnType' /\ JobsInOrder'
  <2>0. /\ sock \in [Conns -> SockStates] /\ owner \in [Fds -> Conns \cup {None}]
        /\ wire \in [Conns -> WireStates]
    BY DEF ConnType
  <2>1. sock' \in [Conns -> SockStates] /\ owner' \in [Fds -> Conns \cup {None}]
    BY <1>0, <2>0
  <2>2. [wire[c] EXCEPT !.up = TRUE] \in WireStates
    BY <2>0 DEF WireStates
  <2>3. wire' \in [Conns -> WireStates]
    BY <1>0, <2>0, <2>2
  <2> QED BY <1>0, <1>4, <1>7, <1>15, <2>1, <2>3 DEF ConnType, JobsInOrder
<1>9. /\ \A g \in Fds : owner'[g] = IF g = f THEN c ELSE owner[g]
      /\ \A e \in Conns : e # c => sock'[e] = sock[e]
      /\ sock'[c].fd = f /\ sock'[c].delegate = sock[c].delegate
  BY <1>0 DEF ConnType
<1>10. ASSUME NEW e \in Conns
       PROVE  /\ Unstarted(e)' <=> Unstarted(e)
              /\ Unconnected(e)' <=> Unconnected(e) /\ e # c
              /\ e # c => (Owns(e)' <=> Owns(e))
              /\ e # c => (Gone(e)' <=> Gone(e))
              /\ Deaf(e)' <=> Deaf(e)
  <2>1. Unstarted(e)' <=> Unstarted(e)
    BY <1>7 DEF Unstarted
  <2>2. Unconnected(e)' <=> Unconnected(e) /\ e # c
    <3>1. On(netJobs', "connect", e) <=> On(netJobs, "connect", e) /\ e # c
      BY <1>1, <1>4
    <3> QED BY <1>1, <2>1, <3>1 DEF Unconnected
  <2>3. e # c => (Owns(e)' <=> Owns(e))
    BY <1>9, ConnAssumption DEF Owns, Conns, None
  <2>4. Deaf(e)' <=> Deaf(e)
    BY <1>7 DEF Deaf
  <2> QED BY <2>1, <2>2, <2>3, <2>4 DEF Gone
<1>11. FdsAreOwn'
  <2> SUFFICES ASSUME refused = {}, NEW e \in Conns, sock'[e].fd # NoFd
               PROVE  owner'[sock'[e].fd] = e
    BY <1>0 DEF FdsAreOwn
  <2>1. CASE e = c
    BY <1>9, <2>1
  <2>2. CASE e # c
    <3>1. sock'[e].fd = sock[e].fd /\ sock[e].fd \in Fds
      BY <1>9, <2>2 DEF ConnType, SockStates
    <3>2. owner[sock[e].fd] = e /\ e # None
      BY <3>1, ConnAssumption DEF ConnSafe, FdsAreOwn, Conns, None
    <3> QED BY <1>9, <3>1, <3>2
  <2> QED BY <2>1, <2>2
<1>12. ASSUME NEW e \in Conns
       PROVE  Begun(e)' /\ SocketKept(e)' /\ OwnerKnows(e)' /\ InTurn(e)'
  <2>0. Begun(e) /\ SocketKept(e) /\ OwnerKnows(e) /\ InTurn(e)
    BY DEF ConnSafe
  <2>1. Begun(e)'
    <3>1. CASE e = c
      <4>1. ~Unstarted(e)' /\ ~Unconnected(e)' /\ conn'[e].user # "none"
        BY <1>1, <1>10, <3>1 DEF Unstarted
      <4> QED BY <4>1 DEF Begun
    <3>2. CASE e # c
      <4>1. \A op : /\ On(netJobs, op, e) <=> On(netJobs', op, e)
                    /\ On(tcpJobs, op, e) <=> On(tcpJobs', op, e)
        BY <1>1, <1>4, <1>7, <3>2
      <4>2. conn'[e] = conn[e] /\ sock'[e] = sock[e] /\ recv'[e] = recv[e]
        BY <1>0, <1>9, <3>2
      <4>3. (Unstarted(e)' <=> Unstarted(e)) /\ (Unconnected(e)' <=> Unconnected(e))
        BY <1>10, <3>2
      <4>4. /\ \A op : On(tcpJobs', op, e) <=> On(tcpJobs, op, e)
            /\ \A op : On(netJobs', op, e) <=> On(netJobs, op, e)
            /\ e \in refused' => e \in refused
        BY <1>0, <4>1
      <4> QED BY <2>0, <4>2, <4>3, <4>4, OtherBegun
    <3> QED BY <3>1, <3>2
  <2>2. SocketKept(e)'
    <3>1. /\ \A op \in {"noDelegate", "delegate", "read"} : On(netJobs, op, e) <=> On(netJobs', op, e)
          /\ On(netJobs', "connect", e) => On(netJobs, "connect", e)
      BY <1>1, <1>4
    <3>2. sock'[e].delegate = sock[e].delegate
      BY <1>9
    <3> QED BY <1>10, <2>0, <3>1, <3>2 DEF SocketKept
  <2>3. OwnerKnows(e)'
    <3>1. ASSUME NEW g \in Fds, owner'[g] = e PROVE sock'[e].fd = g
      <4>1. CASE g = f
        BY <1>9, <3>1, <4>1
      <4>2. CASE g # f
        <5>1. sock[e].fd = g
          BY <1>9, <2>0, <3>1, <4>2 DEF OwnerKnows
        <5>2. e # c
          BY <1>6, <5>1, ConnAssumption DEF Fds, NoFd
        <5> QED BY <1>9, <5>1, <5>2
      <4> QED BY <4>1, <4>2
    <3>2. Gone(e) => e # c
      BY <1>5 DEF Gone
    <3>3. On(tcpJobs', "lost", e) \/ told'[e].closed > 0 => conn'[e].closed \/ Gone(e)'
      BY <1>7, <1>10, <2>0, <3>2 DEF OwnerKnows
    <3>4. conn'[e].user = "dropped" => conn'[e].closed \/ On(tcpJobs', "stop", e) \/ Gone(e)'
      BY <1>7, <1>10, <2>0, <3>2 DEF OwnerKnows
    <3> QED BY <3>1, <3>3, <3>4 DEF OwnerKnows
  <2>5. InTurn(e)'
    BY <1>7, <1>10, <1>15, <2>0 DEF InTurn
  <2> QED BY <2>1, <2>2, <2>3, <2>5
<1>13. ASSUME NEW e \in Conns PROVE OpenedIsTold(e)'
  <2>1. CASE e # c
    <3>1. OpenedIsTold(e)
      BY DEF ConnSafe
    <3> QED BY <1>0, <1>7, <1>10, <2>1, <3>1 DEF OpenedIsTold
  <2>2. CASE e = c
    <3>1. sock[c].delegate \/ conn[c].closed
      BY <1>1, <1>5 DEF SocketKept
    <3>2. CASE Hears(c)
      BY <1>7, <2>2, <3>2 DEF OpenedIsTold
    <3>3. CASE ~Hears(c) /\ ~conn[c].closed
      <4>1. ~ConnHeld(c)
        BY <3>1, <3>3 DEF Hears
      <4>2. ~On(tcpJobs, "noDelegate", c) /\ conn[c].user \notin {"holds", "leftover"}
        BY <4>1 DEF ConnHeld, On
      <4>3. conn[c].user \in {"dropped", "abandoned"}
        BY <1>1, <4>2 DEF Unstarted, ConnType, ConnStates
      <4>4. Deaf(c)
        BY <1>5, <4>2, <4>3 DEF InTurn
      <4> QED BY <1>10, <2>2, <4>4 DEF OpenedIsTold
    <3>4. CASE conn[c].closed
      BY <2>2, <3>4 DEF OpenedIsTold
    <3> QED BY <3>2, <3>3, <3>4
  <2> QED BY <2>1, <2>2
<1>14. ASSUME NEW e \in Conns, e \in refused', e \notin Late' PROVE Deaf(e)'
  <2>1. Deaf(e) \/ HearsNothing(e)
    BY <1>0, <1>14, <1>15 DEF ConnSafe
  <2>2. On(netJobs, "connect", c)
    BY <1>1
  <2> QED BY <1>10, <2>1, <2>2 DEF HearsNothing
<1> QED BY <1>8, <1>11, <1>12, <1>13, <1>14 DEF ConnSafe

\* It is refused, and keeps the number of a descriptor that is free again.
LEMMA NetRefusedStep ==
    ASSUME ConnType, JobsInOrder, ConnSafe, netJobs # <<>>,
           NEW c \in Conns, Head(netJobs).c = c, Head(netJobs).op = "connect",
           NEW f \in Fds, owner[f] = None, Refused(c, f), UNCHANGED <<conn, told>>
    PROVE  ConnType' /\ JobsInOrder' /\ ConnSafe'
<1> DEFINE t == [Opens(c, f) EXCEPT !.failed = TRUE]
<1>0. /\ sock' = [sock EXCEPT ![c] = t] /\ t \in SockStates
      /\ t.fd = f /\ t.delegate = sock[c].delegate
      /\ refused' = refused \cup {c} /\ netJobs' = Tail(netJobs)
      /\ UNCHANGED <<tcpJobs, recv, owner, wire>>
  <2>1. sock[c] \in SockStates
    BY DEF ConnType
  <2> QED BY <2>1 DEF Refused, Opens, SockStates
<1> HIDE DEF t
<1>1. /\ netJobs' \in Seq(SocketNetJobs) /\ NetInOrder(netJobs')
      /\ \A op, e : On(netJobs, op, e) <=> (op = "connect" /\ e = c) \/ On(netJobs', op, e)
      /\ ~Unstarted(c)
      /\ \A e \in Conns : e <= c => ~On(netJobs', "connect", e)
  BY <1>0, NetTaken
<1>2. Begun(c) /\ SocketKept(c) /\ OwnerKnows(c) /\ InTurn(c) /\ Unconnected(c)
  <2>1. On(netJobs, "connect", c)
    BY <1>1
  <2> QED BY <2>1 DEF ConnSafe, Unconnected
<1>3. /\ sock[c].fd = NoFd /\ recv[c].st = "idle" /\ ~On(netJobs, "data", c)
      /\ \A op \in {"opened", "lost", "data"} : ~On(tcpJobs, op, c)
  BY <1>2 DEF Begun
<1>11. Late' = Late
  BY LateKept
<1>4. ConnType' /\ JobsInOrder'
  BY <1>0, <1>1, <1>11 DEF ConnType, JobsInOrder
<1>5. /\ \A e \in Conns : e # c => sock'[e] = sock[e]
      /\ sock'[c].fd = f /\ sock'[c].delegate = sock[c].delegate
  BY <1>0 DEF ConnType
<1>6. ASSUME NEW e \in Conns
      PROVE  /\ Unstarted(e)' <=> Unstarted(e)
             /\ Unconnected(e)' <=> Unconnected(e) /\ e # c
             /\ Owns(e)' <=> Owns(e)
             /\ e # c => (Gone(e)' <=> Gone(e))
             /\ Deaf(e)' <=> Deaf(e)
  <2>1. Unstarted(e)' <=> Unstarted(e)
    BY <1>0 DEF Unstarted
  <2>2. Unconnected(e)' <=> Unconnected(e) /\ e # c
    <3>1. On(netJobs', "connect", e) <=> On(netJobs, "connect", e) /\ e # c
      BY <1>1, ConnAssumption DEF Conns
    <3> QED BY <1>1, <2>1, <3>1 DEF Unconnected
  <2>3. Owns(e)' <=> Owns(e)
    BY <1>0 DEF Owns
  <2>4. Deaf(e)' <=> Deaf(e)
    BY <1>0 DEF Deaf
  <2> QED BY <2>1, <2>2, <2>3, <2>4 DEF Gone
<1>7. FdsAreOwn'
  BY <1>0 DEF FdsAreOwn
<1>8. \A g \in Fds : owner[g] # c
  BY <1>2, <1>3, ConnAssumption DEF OwnerKnows, Fds, NoFd
<1>9. ASSUME NEW e \in Conns
      PROVE  Begun(e)' /\ SocketKept(e)' /\ OwnerKnows(e)' /\ OpenedIsTold(e)' /\ InTurn(e)'
  <2>0. Begun(e) /\ SocketKept(e) /\ OwnerKnows(e) /\ OpenedIsTold(e) /\ InTurn(e)
    BY DEF ConnSafe
  <2>1. Begun(e)'
    <3>1. CASE e = c
      <4>1. ~Unstarted(e)' /\ ~Unconnected(e)' /\ conn'[e].user # "none"
        BY <1>1, <1>6, <3>1 DEF Unstarted
      <4> QED BY <4>1 DEF Begun
    <3>2. CASE e # c
      <4>1. \A op : On(netJobs, op, e) <=> On(netJobs', op, e)
        BY <1>1, <3>2
      <4>2. conn'[e] = conn[e] /\ sock'[e] = sock[e] /\ recv'[e] = recv[e]
        BY <1>0, <1>5, <3>2
      <4>3. (Unstarted(e)' <=> Unstarted(e)) /\ (Unconnected(e)' <=> Unconnected(e))
        BY <1>6, <3>2
      <4>4. \A op : On(tcpJobs', op, e) <=> On(tcpJobs, op, e)
        BY <1>0
      <4>5. e \in refused' => e \in refused
        BY <1>0, <3>2
      <4> QED BY <2>0, <4>1, <4>2, <4>3, <4>4, <4>5, OtherBegun
    <3> QED BY <3>1, <3>2
  <2>2. SocketKept(e)'
    <3>1. /\ \A op \in {"noDelegate", "delegate", "read"} : On(netJobs, op, e) <=> On(netJobs', op, e)
          /\ On(netJobs', "connect", e) => On(netJobs, "connect", e)
      BY <1>1
    <3>2. sock'[e].delegate = sock[e].delegate
      BY <1>5
    <3> QED BY <1>6, <2>0, <3>1, <3>2 DEF SocketKept
  <2>3. OwnerKnows(e)'
    <3>1. Gone(e) => Gone(e)'
      BY <1>6 DEF Gone
    <3>2. \A g \in Fds : owner[g] = e => sock'[e].fd = g
      BY <1>5, <1>8, <2>0 DEF OwnerKnows
    <3> QED BY <1>0, <2>0, <3>1, <3>2 DEF OwnerKnows
  <2>4. OpenedIsTold(e)'
    BY <1>0, <1>6, <2>0 DEF OpenedIsTold
  <2>5. InTurn(e)'
    BY <1>0, <1>6, <1>11, <2>0 DEF InTurn
  <2> QED BY <2>1, <2>2, <2>3, <2>4, <2>5
<1>10. ASSUME NEW e \in Conns, e \in refused', e \notin Late'
       PROVE  Deaf(e)' \/ HearsNothing(e)'
  <2>1. CASE e # c
    <3>1. Deaf(e) \/ HearsNothing(e)
      BY <1>0, <1>10, <1>11, <2>1 DEF ConnSafe
    <3>2. On(netJobs, "connect", c)
      BY <1>1
    <3> QED BY <1>6, <3>1, <3>2 DEF HearsNothing
  <2>2. CASE e = c
    <3>1. ASSUME NEW d \in Conns, On(netJobs', "connect", d) PROVE Deaf(c) \/ c \in Late
      <4>1. c < d /\ On(netJobs, "connect", d)
        BY <1>1, <3>1, ConnAssumption DEF Conns
      <4>2. ~Unstarted(d)
        BY <4>1 DEF ConnSafe, Begun, NetOps
      <4> QED BY <1>2, <4>1, <4>2 DEF InTurn
    <3>2. CASE \A d \in Conns : ~On(netJobs', "connect", d)
      <4>1. ~On(netJobs', "data", c) /\ ~On(tcpJobs', "data", c)
        BY <1>0, <1>1, <1>3
      <4>2. IsFree(sock[c].fd)' /\ recv'[c].st = "idle"
        BY <1>0, <1>3, <1>5 DEF IsFree
      <4> QED BY <2>2, <3>2, <4>1, <4>2 DEF HearsNothing
    <3> QED BY <1>6, <1>10, <1>11, <2>2, <3>1, <3>2
  <2> QED BY <2>1, <2>2
<1> QED BY <1>4, <1>7, <1>9, <1>10 DEF ConnSafe

LEMMA NetCloseStep ==
    ASSUME ConnType, JobsInOrder, ConnSafe, netJobs # <<>>,
           NEW c \in Conns, Head(netJobs).c = c, Head(netJobs).op \in {"close", "dequeueWrite"},
           NEW s \in SockStates, s.fd = sock[c].fd, s.delegate = sock[c].delegate,
           CloseNow(c, s), UNCHANGED <<conn, told>>
    PROVE  ConnType' /\ JobsInOrder' /\ ConnSafe'
<1>1. CASE s.fd # NoFd
  BY <1>1, NetClosesStep
<1>2. CASE s.fd = NoFd
  <2> DEFINE t == [s EXCEPT !.failed = TRUE, !.reading = FALSE, !.fd = NoFd]
  <2>1. /\ sock' = [sock EXCEPT ![c] = t] /\ netJobs' = Tail(netJobs)
        /\ UNCHANGED <<owner, wire, tcpJobs, recv, refused>>
    BY <1>2 DEF CloseNow
  <2>2. t \in SockStates /\ t.fd = sock[c].fd /\ t.delegate = sock[c].delegate
    BY <1>2 DEF SockStates
  <2> HIDE DEF t
  <2> QED BY <2>1, <2>2, NetQuietStep
<1> QED BY <1>1, <1>2

LEMMA NetQueueStepKeeps ==
    ASSUME ConnType, JobsInOrder, ConnSafe, NetQueueStep
    PROVE  ConnType' /\ JobsInOrder' /\ ConnSafe'
<1> DEFINE h == Head(netJobs)
<1> PICK c \in Conns : h.c = c
  BY NetTaken DEF NetQueueStep
<1>0. /\ netJobs # <<>> /\ UNCHANGED <<conn, told>>
      /\ h \in SocketNetJobs /\ h.op \in NetOps
      /\ h.op = "read" => h.tag \in Tags
      /\ h.op = "data" => h.tag \in Tags /\ h.item \in Pieces
      /\ Tail(netJobs) \in Seq(SocketNetJobs)
      /\ sock \in [Conns -> SockStates] /\ sock[c] \in SockStates
  BY NetTaken, NetJobHolds DEF NetQueueStep, ConnType
<1>a. /\ Tail(netJobs) \o <<>> = Tail(netJobs)
      /\ \A p \in {"dequeueRead", "dequeueWrite"} :
            Tail(netJobs) \o <<Job(p, c)>> = Append(Tail(netJobs), Job(p, c))
  <2>1. Tail(netJobs) \o <<>> = Tail(netJobs)
    BY <1>0
  <2>2. \A p \in {"dequeueRead", "dequeueWrite"} :
            Tail(netJobs) \o <<Job(p, c)>> = Append(Tail(netJobs), Job(p, c))
    BY <1>0, NetJobIs, Appends DEF NetOps
  <2> QED BY <2>1, <2>2
<1>b. sock' = sock => sock' = [sock EXCEPT ![c] = sock[c]]
  BY <1>0
<1> HIDE DEF h
<1>1. CASE ~SockHeld(c)
  <2>1. h.op \notin {"delegate", "connect", "read", "send"}
    BY <1>0, <1>1, PassedOver DEF h
  <2>2. netJobs' = Tail(netJobs) /\ UNCHANGED <<sock, tcpJobs, recv, owner, wire, refused>>
    BY <1>1 DEF NetQueueStep, h
  <2> QED BY <1>0, <1>b, <2>1, <2>2, NetQuietStep DEF h
<1>2. ASSUME NEW on \in BOOLEAN, NetSetDelegate(c, on),
             h.op = IF on THEN "delegate" ELSE "noDelegate"
      PROVE  ConnType' /\ JobsInOrder' /\ ConnSafe'
  <2> DEFINE t == [sock[c] EXCEPT !.delegate = on]
  <2>1. /\ sock' = [sock EXCEPT ![c] = t] /\ netJobs' = Tail(netJobs)
        /\ UNCHANGED <<tcpJobs, recv, owner, wire, refused>>
    BY <1>a, <1>2 DEF NetSetDelegate, Buffers
  <2>2. t \in SockStates /\ t.fd = sock[c].fd /\ t.delegate = on
    BY <1>0 DEF SockStates
  <2> HIDE DEF t
  <2> QED BY <1>0, <1>2, <2>1, <2>2, NetQuietStep DEF h
<1>3. CASE h.op = "connect" /\ Connect(c)
  <2> DEFINE F == {g \in Fds : owner[g] = None}
             f == Lowest(F)
  <2>1. Unconnected(c)
    <3>1. On(netJobs, "connect", c)
      BY <1>0, <1>3, NetTaken DEF h
    <3> QED BY <3>1 DEF Unconnected
  <2>2. F # {} /\ F \subseteq Fds
    BY <2>1, FreeDescriptor
  <2>3. f \in F
    BY <2>2, LowestIsLeast
  <2>4. Connects(c, f) \/ Refused(c, f)
    BY <1>3 DEF Connect
  <2>5. f \in Fds /\ owner[f] = None
    BY <2>3
  <2> HIDE DEF f
  <2>6. CASE Connects(c, f)
    BY <1>0, <1>3, <2>5, <2>6, NetConnectsStep DEF h
  <2>7. CASE Refused(c, f)
    BY <1>0, <1>3, <2>5, <2>7, NetRefusedStep DEF h
  <2> QED BY <2>4, <2>6, <2>7
<1>4. CASE h.op = "read" /\ NetRead(c, h.tag)
  <2> DEFINE t == [sock[c] EXCEPT !.reads = Append(@, h.tag)]
  <2>1. /\ sock' = [sock EXCEPT ![c] = t] /\ netJobs' = Append(Tail(netJobs), Job("dequeueRead", c))
        /\ UNCHANGED <<tcpJobs, recv, owner, wire, refused>>
    BY <1>a, <1>4 DEF NetRead, Buffers
  <2>2. t \in SockStates /\ t.fd = sock[c].fd /\ t.delegate = sock[c].delegate
    <3>1. Append(sock[c].reads, h.tag) \in Seq(Tags)
      BY <1>0, <1>4 DEF SockStates
    <3> QED BY <1>0, <3>1 DEF SockStates
  <2> HIDE DEF t
  <2> QED BY <1>0, <1>4, <2>1, <2>2, NetQuietStep DEF h
<1>5. CASE h.op = "send" /\ NetSend(c)
  <2> DEFINE t == [sock[c] EXCEPT !.sends = @ + 1]
  <2>1. /\ sock' = [sock EXCEPT ![c] = t] /\ netJobs' = Append(Tail(netJobs), Job("dequeueWrite", c))
        /\ UNCHANGED <<tcpJobs, recv, owner, wire, refused>>
    BY <1>a, <1>5 DEF NetSend, Buffers
  <2>2. t \in SockStates /\ t.fd = sock[c].fd /\ t.delegate = sock[c].delegate
    <3>1. sock[c].sends + 1 \in Nat
      BY <1>0 DEF SockStates
    <3> QED BY <1>0, <3>1 DEF SockStates
  <2> HIDE DEF t
  <2> QED BY <1>0, <1>5, <2>1, <2>2, NetQuietStep DEF h
<1>6. CASE h.op = "close" /\ CloseNow(c, sock[c])
  BY <1>0, <1>6, NetCloseStep DEF h
<1>7. CASE h.op = "dequeueRead" /\ DequeueRead(c)
  <2> DEFINE rest == IF sock[c].failed THEN <<>> ELSE Tail(sock[c].reads)
             t == [sock[c] EXCEPT !.reads = rest]
             u == [sock[c] EXCEPT !.reads = IF sock[c].failed THEN <<>> ELSE @]
  <2>1. CASE sock[c].reads # <<>> /\ Connected(c) /\ ~sock[c].reading
    <3>1. /\ recv' = [recv EXCEPT ![c] = [Idle EXCEPT !.st = "posted", !.tag = Head(sock[c].reads)]]
          /\ sock' = [sock EXCEPT ![c] = t]
          /\ netJobs' = Tail(netJobs)
          /\ UNCHANGED <<tcpJobs, owner, wire, refused>>
      BY <1>7, <2>1 DEF DequeueRead
    <3>2. t \in SockStates /\ t.fd = sock[c].fd /\ t.delegate = sock[c].delegate
      <4>1. rest \in Seq(Tags)
        BY <1>0, <2>1 DEF SockStates
      <4> HIDE DEF rest
      <4> QED BY <1>0, <4>1 DEF SockStates
    <3>3. Head(sock[c].reads) \in Tags /\ sock[c].fd # NoFd
      BY <1>0, <2>1 DEF SockStates, Connected
    <3> HIDE DEF t
    <3> QED BY <1>0, <1>7, <3>1, <3>2, <3>3, NetQuietStep DEF h
  <2>2. CASE ~(sock[c].reads # <<>> /\ Connected(c) /\ ~sock[c].reading)
    <3>1. /\ sock' = [sock EXCEPT ![c] = u] /\ netJobs' = Tail(netJobs)
          /\ UNCHANGED <<tcpJobs, recv, owner, wire, refused>>
      BY <1>a, <1>7, <2>2 DEF DequeueRead, Buffers
    <3>2. u \in SockStates /\ u.fd = sock[c].fd /\ u.delegate = sock[c].delegate
      <4>1. (IF sock[c].failed THEN <<>> ELSE sock[c].reads) \in Seq(Tags)
        BY <1>0 DEF SockStates
      <4> QED BY <1>0, <4>1 DEF SockStates
    <3> HIDE DEF u
    <3> QED BY <1>0, <1>7, <3>1, <3>2, NetQuietStep DEF h
  <2> QED BY <2>1, <2>2
<1>8. CASE h.op = "dequeueWrite" /\ DequeueWrite(c)
  <2> DEFINE s == [sock[c] EXCEPT !.sends = @ - 1]
             v == [s EXCEPT !.sends = 0]
             t == [s EXCEPT !.sends = IF s.failed THEN 0 ELSE @]
             u == [sock[c] EXCEPT !.sends = IF sock[c].failed THEN 0 ELSE @]
  <2>1. CASE sock[c].sends > 0 /\ Connected(c)
    <3>0. s \in SockStates /\ s.fd = sock[c].fd /\ s.delegate = sock[c].delegate
      <4>1. sock[c].sends - 1 \in Nat
        BY <1>0, <2>1 DEF SockStates
      <4> QED BY <1>0, <4>1 DEF SockStates
    <3>1. Sends(c, s)
      BY <1>8, <2>1 DEF DequeueWrite
    <3> HIDE DEF s
    <3>2. CASE CloseNow(c, v)
      <4>1. v \in SockStates /\ v.fd = sock[c].fd /\ v.delegate = sock[c].delegate
        BY <3>0 DEF SockStates
      <4> HIDE DEF v
      <4> QED BY <1>0, <1>8, <3>2, <4>1, NetCloseStep DEF h
    <3>3. CASE Buffers(c, t, <<Job("dequeueWrite", c)>>)
      <4>1. /\ sock' = [sock EXCEPT ![c] = t] /\ netJobs' = Append(Tail(netJobs), Job("dequeueWrite", c))
            /\ UNCHANGED <<tcpJobs, recv, owner, wire, refused>>
        BY <1>a, <3>3 DEF Buffers
      <4>2. t \in SockStates /\ t.fd = sock[c].fd /\ t.delegate = sock[c].delegate
        <5>1. (IF s.failed THEN 0 ELSE s.sends) \in Nat
          BY <3>0 DEF SockStates
        <5> QED BY <3>0, <5>1 DEF SockStates
      <4> HIDE DEF t
      <4> QED BY <1>0, <1>8, <4>1, <4>2, NetQuietStep DEF h
    <3> QED BY <3>1, <3>2, <3>3 DEF Sends
  <2>2. CASE ~(sock[c].sends > 0 /\ Connected(c))
    <3>1. /\ sock' = [sock EXCEPT ![c] = u] /\ netJobs' = Tail(netJobs)
          /\ UNCHANGED <<tcpJobs, recv, owner, wire, refused>>
      BY <1>a, <1>8, <2>2 DEF DequeueWrite, Buffers
    <3>2. u \in SockStates /\ u.fd = sock[c].fd /\ u.delegate = sock[c].delegate
      <4>1. (IF sock[c].failed THEN 0 ELSE sock[c].sends) \in Nat
        BY <1>0 DEF SockStates
      <4> QED BY <1>0, <4>1 DEF SockStates
    <3> HIDE DEF u
    <3> QED BY <1>0, <1>8, <3>1, <3>2, NetQuietStep DEF h
  <2> QED BY <2>1, <2>2
<1>9. CASE h.op = "data" /\ NetData(c, h.tag, h.item)
  <2>1. /\ tcpJobs' = tcpJobs \/ tcpJobs' = Append(tcpJobs, Arrival(c, h.tag, h.item))
        /\ netJobs' = Tail(netJobs) /\ UNCHANGED <<sock, recv, owner, wire, refused>>
    BY <1>9 DEF NetData
  <2> QED BY <1>0, <1>b, <1>9, <2>1, NetQuietStep DEF h
<1>10. SockHeld(c) =>
          \/ h.op = "delegate" /\ NetSetDelegate(c, TRUE)
          \/ h.op = "noDelegate" /\ NetSetDelegate(c, FALSE)
          \/ h.op = "connect" /\ Connect(c)
          \/ h.op = "read" /\ NetRead(c, h.tag)
          \/ h.op = "send" /\ NetSend(c)
          \/ h.op = "close" /\ CloseNow(c, sock[c])
          \/ h.op = "dequeueRead" /\ DequeueRead(c)
          \/ h.op = "dequeueWrite" /\ DequeueWrite(c)
          \/ h.op = "data" /\ NetData(c, h.tag, h.item)
  BY DEF NetQueueStep, h
<1>11. CASE h.op = "delegate" /\ NetSetDelegate(c, TRUE)
  BY <1>2, <1>11
<1>12. CASE h.op = "noDelegate" /\ NetSetDelegate(c, FALSE)
  BY <1>2, <1>12
<1> QED BY <1>1, <1>3, <1>4, <1>5, <1>6, <1>7, <1>8, <1>9, <1>10, <1>11, <1>12

-----------------------------------------------------------------------------
(* Connection: the receive queues, the server, and the theorems.           *)

\* A receive only posts to its socket's queue, and reads only what the descriptor
\* it has taken is.
LEMMA ReceiveKeeps ==
    ASSUME ConnType, JobsInOrder, ConnSafe, NEW c \in Conns, ReceiveStep(c)
    PROVE  ConnType' /\ JobsInOrder' /\ ConnSafe'
<1>0. /\ recv[c].st # "idle" /\ UNCHANGED <<conn, tcpJobs, owner, told, refused>>
      /\ recv \in [Conns -> RecvStates] /\ recv[c] \in RecvStates
      /\ sock \in [Conns -> SockStates] /\ sock[c] \in SockStates
      /\ wire \in [Conns -> WireStates]
      /\ tcpJobs \in Seq(SocketTcpJobs) /\ TcpInOrder(tcpJobs, Late)
      /\ netJobs \in Seq(SocketNetJobs) /\ NetInOrder(netJobs)
  BY DEF ReceiveStep, ReceiveBegins, ReceiveCalls, Received, ReceiveFails, ConnType, JobsInOrder
<1>1. ~Unstarted(c)
  BY <1>0 DEF ConnSafe, Begun, Unconnected
<1>2. /\ On(netJobs, "delegate", c) \/ sock[c].delegate \/ conn[c].closed
      /\ On(netJobs, "delegate", c) \/ On(netJobs, "connect", c) => On(netJobs, "read", c)
  BY <1>1 DEF ConnSafe, SocketKept
<1>i. Idle \in RecvStates /\ Idle.st = "idle"
  BY DEF Idle, RecvStates, Tags
<1>3. CASE ReceiveBegins(c)
  <2>0. recv[c].st = "posted" /\ UNCHANGED <<netJobs, wire>>
    BY <1>3 DEF ReceiveBegins
  <2>1. QueuesKept(c)
    BY <1>0, <2>0 DEF QueuesKept
  <2>2. CASE SockHeld(c)
    <3> DEFINE s == [sock[c] EXCEPT !.reading = TRUE]
               r == [recv[c] EXCEPT !.st = "loaded", !.fd = sock[c].fd]
    <3>1. sock' = [sock EXCEPT ![c] = s] /\ recv' = [recv EXCEPT ![c] = r]
      BY <1>3, <2>2 DEF ReceiveBegins
    <3>2. s \in SockStates /\ s.fd = sock[c].fd /\ s.delegate = sock[c].delegate
      BY <1>0 DEF SockStates
    <3>3. r \in RecvStates /\ r.st = "loaded" /\ r.fd = sock[c].fd
      BY <1>0 DEF RecvStates, SockStates
    <3> HIDE DEF s, r
    <3>4. SocketsKept(c) /\ sock'[c] = s /\ recv'[c] = r
      BY <1>0, <3>1, <3>2, <3>3 DEF SocketsKept
    <3>5. OwnPartKept(c)
      BY <1>0, <1>2, <2>0, <3>2, <3>3, <3>4 DEF OwnPartKept
    <3> QED BY <1>0, <1>1, <2>0, <2>1, <3>4, <3>5, SocketQuietStep
  <2>3. CASE ~SockHeld(c)
    <3>1. sock' = sock /\ recv' = [recv EXCEPT ![c] = Idle]
      BY <1>3, <2>3 DEF ReceiveBegins
    <3>2. SocketsKept(c) /\ sock'[c] = sock[c] /\ recv'[c].st = "idle"
      BY <1>0, <1>i, <3>1 DEF SocketsKept
    <3>3. OwnPartKept(c)
      BY <1>0, <1>2, <2>0, <3>2 DEF OwnPartKept
    <3> QED BY <1>0, <1>1, <2>0, <2>1, <3>2, <3>3, SocketQuietStep
  <2> QED BY <2>2, <2>3
<1>4. CASE ReceiveCalls(c)
  <2> DEFINE on == IF recv[c].fd = NoFd THEN None ELSE owner[recv[c].fd]
             r == [recv[c] EXCEPT !.st = "blocked", !.on = on]
  <2>0. /\ recv[c].st = "loaded" /\ UNCHANGED <<netJobs, wire, sock>>
        /\ recv' = [recv EXCEPT ![c] = r]
    BY <1>4 DEF ReceiveCalls
  <2>1. QueuesKept(c)
    BY <1>0, <2>0 DEF QueuesKept
  <2>2. on \in Conns \cup {None}
    BY <1>0 DEF RecvStates, ConnType
  <2> HIDE DEF on
  <2>3. r \in RecvStates /\ r.st = "blocked" /\ r.on = on
    BY <1>0, <2>2 DEF RecvStates
  <2> HIDE DEF r
  <2>4. SocketsKept(c) /\ sock'[c] = sock[c] /\ recv'[c] = r
    BY <1>0, <2>0, <2>3 DEF SocketsKept
  <2>5. OwnPartKept(c)
    BY <1>0, <1>2, <2>0, <2>3, <2>4 DEF OwnPartKept, on
  <2> QED BY <1>0, <1>1, <2>0, <2>1, <2>4, <2>5, SocketQuietStep
<1>5. CASE Received(c)
  <2> DEFINE d == recv[c].on
             e == Head(wire[d].items)
             s == [sock[c] EXCEPT !.reading = FALSE]
             w == [wire[d] EXCEPT !.items = Tail(@)]
             q == Append(netJobs, Job("dequeueRead", c))
             a == Arrival(c, recv[c].tag, e)
  <2>0. /\ recv[c].st = "blocked" /\ d # None /\ wire[d].items # <<>>
        /\ wire' = [wire EXCEPT ![d] = w] /\ sock' = [sock EXCEPT ![c] = s]
        /\ netJobs' = netJobs \o <<Job("dequeueRead", c), a>>
        /\ recv' = [recv EXCEPT ![c] = Idle]
    BY <1>5 DEF Received
  <2>1. d \in Conns /\ recv[c].tag \in Tags /\ wire[d] \in WireStates
    BY <1>0, <2>0 DEF RecvStates
  <2>2. e \in Pieces /\ w \in WireStates
    <3>1. wire[d].items \in Seq(Pieces)
      BY <2>1 DEF WireStates
    <3>2. Head(wire[d].items) \in Pieces /\ Tail(wire[d].items) \in Seq(Pieces)
      BY <2>0, <3>1
    <3> QED BY <2>1, <3>2 DEF WireStates
  <2>3. wire' \in [Conns -> WireStates]
    BY <1>0, <2>0, <2>1, <2>2
  <2> HIDE DEF e, w
  <2>4. a \in SocketNetJobs /\ a.op = "data" /\ a.c = c
    BY <2>1, <2>2 DEF Arrival, SocketNetJobs
  <2>5. Job("dequeueRead", c) \in SocketNetJobs
    BY NetJobIs DEF NetOps
  <2>6. /\ q \in Seq(SocketNetJobs) /\ NetInOrder(q)
        /\ \A op, x : On(q, op, x) <=> On(netJobs, op, x) \/ (op = "dequeueRead" /\ x = c)
    BY <1>0, NetPosted DEF NetOps
  <2> HIDE DEF a
  <2>7. netJobs' = Append(q, a)
    BY <1>0, <2>0, <2>4, <2>5, Appends
  <2> HIDE DEF q
  <2>8. /\ netJobs' \in Seq(SocketNetJobs) /\ NetInOrder(netJobs')
        /\ \A op, x : On(netJobs', op, x) <=>
                         On(netJobs, op, x) \/ (op \in {"dequeueRead", "data"} /\ x = c)
    BY <2>4, <2>6, <2>7, NetPosts
  <2>9. QueuesKept(c)
    BY <1>0, <2>8 DEF QueuesKept
  <2>10. s \in SockStates /\ s.fd = sock[c].fd /\ s.delegate = sock[c].delegate
    BY <1>0 DEF SockStates
  <2> HIDE DEF s
  <2>11. SocketsKept(c) /\ sock'[c] = s /\ recv'[c].st = "idle"
    BY <1>0, <1>i, <2>0, <2>10 DEF SocketsKept
  <2>12. OwnPartKept(c)
    <3>1. /\ On(netJobs', "noDelegate", c) <=> On(netJobs, "noDelegate", c)
          /\ On(netJobs', "delegate", c) <=> On(netJobs, "delegate", c)
          /\ On(netJobs', "connect", c) <=> On(netJobs, "connect", c)
          /\ On(netJobs', "read", c) <=> On(netJobs, "read", c)
      BY <2>8
    <3> QED BY <1>0, <1>2, <2>0, <2>10, <2>11, <3>1 DEF OwnPartKept
  <2> QED BY <1>0, <1>1, <2>3, <2>9, <2>11, <2>12, SocketQuietStep
<1>6. CASE ReceiveFails(c)
  <2>0. /\ netJobs' = Append(netJobs, Job("close", c))
        /\ recv' = [recv EXCEPT ![c] = Idle] /\ UNCHANGED <<sock, wire>>
    BY <1>6 DEF ReceiveFails
  <2>1. /\ netJobs' \in Seq(SocketNetJobs) /\ NetInOrder(netJobs')
        /\ \A op, x : On(netJobs', op, x) <=> On(netJobs, op, x) \/ (op = "close" /\ x = c)
    BY <1>0, <2>0, NetPosted DEF NetOps
  <2>2. QueuesKept(c)
    BY <1>0, <2>1 DEF QueuesKept
  <2>3. SocketsKept(c) /\ sock'[c] = sock[c] /\ recv'[c].st = "idle"
    BY <1>0, <1>i, <2>0 DEF SocketsKept
  <2>4. OwnPartKept(c)
    BY <1>0, <1>2, <2>1, <2>3 DEF OwnPartKept
  <2> QED BY <1>0, <1>1, <2>0, <2>2, <2>3, <2>4, SocketQuietStep
<1> QED BY <1>3, <1>4, <1>5, <1>6 DEF ReceiveStep

\* A step that the connections do not see.
LEMMA UnseenStep ==
    ASSUME ConnType, JobsInOrder, ConnSafe, wire' \in [Conns -> WireStates],
           UNCHANGED <<conn, sock, tcpJobs, netJobs, recv, owner, told, refused>>
    PROVE  ConnType' /\ JobsInOrder' /\ ConnSafe'
<1>5. Late' = Late
  BY LateKept
<1>1. ConnType' /\ JobsInOrder'
  BY <1>5 DEF ConnType, JobsInOrder
<1>2. FdsAreOwn'
  BY DEF ConnSafe, FdsAreOwn
<1>3. ASSUME NEW c \in Conns
      PROVE  Begun(c)' /\ SocketKept(c)' /\ OwnerKnows(c)' /\ OpenedIsTold(c)' /\ InTurn(c)'
  <2>1. Begun(c) /\ SocketKept(c) /\ OwnerKnows(c) /\ OpenedIsTold(c) /\ InTurn(c)
    BY DEF ConnSafe
  <2>2. Begun(c)' /\ SocketKept(c)'
    BY <2>1 DEF Begun, SocketKept, Unconnected, Unstarted
  <2>3. OwnerKnows(c)'
    BY <2>1 DEF OwnerKnows, Gone, Unconnected, Unstarted, Owns
  <2>4. OpenedIsTold(c)' /\ InTurn(c)'
    BY <1>5, <2>1 DEF OpenedIsTold, InTurn, Unconnected, Unstarted, Deaf
  <2> QED BY <2>2, <2>3, <2>4
<1>4. ASSUME NEW c \in Conns, c \in refused', c \notin Late' PROVE Deaf(c)' \/ HearsNothing(c)'
  <2>1. Deaf(c) \/ HearsNothing(c)
    BY <1>4, <1>5 DEF ConnSafe
  <2> QED BY <2>1 DEF Deaf, HearsNothing, IsFree
<1> QED BY <1>1, <1>2, <1>3, <1>4 DEF ConnSafe

\* Every step keeps the invariant.
LEMMA ConnInvKept == ConnInv /\ [ConnNext]_connVars => ConnInv'
<1> SUFFICES ASSUME ConnType, JobsInOrder, ConnSafe, [ConnNext]_connVars
             PROVE  ConnType' /\ JobsInOrder' /\ ConnSafe'
  BY DEF ConnInv
<1>0. wire \in [Conns -> WireStates]
  BY DEF ConnType
<1>1. CASE TcpQueueStep
  BY <1>1, TcpQueueStepKeeps
<1>2. CASE NetQueueStep
  BY <1>2, NetQueueStepKeeps
<1>3. ASSUME NEW c \in Conns, User(c) PROVE ConnType' /\ JobsInOrder' /\ ConnSafe'
  BY <1>3, TransportStep
<1>4. ASSUME NEW c \in Conns, ReceiveStep(c) PROVE ConnType' /\ JobsInOrder' /\ ConnSafe'
  BY <1>4, ReceiveKeeps
<1>5. ASSUME NEW c \in Conns, PeerSends(c) PROVE ConnType' /\ JobsInOrder' /\ ConnSafe'
  <2>0. UNCHANGED <<conn, sock, tcpJobs, netJobs, recv, owner, told, refused>>
    BY <1>5 DEF PeerSends
  <2>1. PICK p \in Packets : wire' = [wire EXCEPT ![c].items = @ \o p]
    BY <1>5 DEF PeerSends
  <2>2. p \in Seq(Pieces)
    <3>1. \A x, y, z \in Pieces :
             {<<x>>, <<x, y>>, <<x, y, z>>} \subseteq Seq(Pieces)
      OBVIOUS
    <3>2. \A x \in {"len", "far", "zero", "length", "huge", "body"} : x \in Pieces
      BY DEF Pieces
    <3> QED BY <3>1, <3>2 DEF Packets
  <2> DEFINE w == [wire[c] EXCEPT !.items = @ \o p]
  <2>3. wire[c].items \o p \in Seq(Pieces)
    BY <1>0, <2>2 DEF WireStates
  <2>4. w \in WireStates
    BY <1>0, <2>3 DEF WireStates
  <2>5. wire' = [wire EXCEPT ![c] = w]
    BY <2>1
  <2> HIDE DEF w
  <2>6. wire' \in [Conns -> WireStates]
    BY <1>0, <2>4, <2>5
  <2> QED BY <2>0, <2>6, UnseenStep
<1>6. CASE UNCHANGED connVars
  BY <1>0, <1>6, UnseenStep DEF connVars
<1> QED BY <1>1, <1>2, <1>3, <1>4, <1>5, <1>6 DEF ConnNext

LEMMA ConnInvAtFirst == ConnInit => ConnInv
<1> SUFFICES ASSUME ConnInit PROVE ConnType /\ JobsInOrder /\ ConnSafe
  BY DEF ConnInv
<1>1. \A op, c : ~On(tcpJobs, op, c) /\ ~On(netJobs, op, c)
  BY OnEmpty DEF ConnInit
<1>2. \A a, c, b, d : Ahead(tcpJobs, a, c, b, d) /\ Ahead(netJobs, a, c, b, d)
  BY AheadEmpty DEF ConnInit
<1>3. ConnType
  <2>1. [user |-> "none", delegate |-> FALSE, socket |-> FALSE, closed |-> FALSE] \in ConnStates
    BY DEF ConnStates
  <2>2. [fd |-> NoFd, failed |-> FALSE, reading |-> FALSE, delegate |-> FALSE, reads |-> <<>>,
         sends |-> 0] \in SockStates
    BY DEF SockStates
  <2>3. Idle \in RecvStates
    BY DEF Idle, RecvStates, Tags
  <2>4. [items |-> <<>>, up |-> FALSE] \in WireStates
    BY DEF WireStates
  <2>5. [opened |-> FALSE, closed |-> 0, data |-> 0] \in ToldStates
    BY DEF ToldStates
  <2> QED BY <2>1, <2>2, <2>3, <2>4, <2>5 DEF ConnInit, ConnType
<1>4. JobsInOrder
  BY <1>2 DEF JobsInOrder, TcpInOrder, NetInOrder
<1>5. ASSUME NEW c \in Conns
      PROVE  /\ conn[c].user = "none" /\ ~conn[c].delegate /\ ~conn[c].socket /\ ~conn[c].closed
             /\ sock[c].fd = NoFd /\ recv[c].st = "idle" /\ told[c].closed = 0 /\ refused = {}
             /\ \A f \in Fds : owner[f] # c
  BY ConnAssumption DEF ConnInit, Idle, Conns, None
<1>6. FdsAreOwn
  BY <1>5 DEF FdsAreOwn
<1>7. ASSUME NEW c \in Conns
      PROVE  /\ Begun(c) /\ SocketKept(c) /\ OwnerKnows(c) /\ OpenedIsTold(c) /\ InTurn(c)
             /\ c \notin refused
  <2>1. Unstarted(c) /\ Unconnected(c)
    BY <1>5 DEF Unstarted, Unconnected
  <2>2. Begun(c) /\ SocketKept(c)
    BY <1>1, <1>5, <2>1 DEF Begun, SocketKept
  <2>3. OwnerKnows(c) /\ OpenedIsTold(c)
    BY <1>1, <1>5, <2>1 DEF OwnerKnows, OpenedIsTold
  <2>4. InTurn(c)
    BY <1>1, <1>5 DEF InTurn, Unstarted
  <2> QED BY <1>5, <2>2, <2>3, <2>4
<1> QED BY <1>3, <1>4, <1>6, <1>7 DEF ConnSafe

\* Whatever the connections do, their queues stay in order, nothing of a
\* connection happens before its time, the descriptors a socket has are its own,
\* and connections take turns to be heard (TcpConnection.cpp and
\* NetworkSocketPosix.cpp, their jobs in any order the two queues can have).
THEOREM ConnInvHolds == ConnSpec => []ConnInv
BY ConnInvAtFirst, ConnInvKept, PTL DEF ConnSpec

\* Who owns a descriptor is there to close it.
LEMMA InvMeansOwn == ConnInv => DescriptorsAreOwn
<1> SUFFICES ASSUME ConnType, ConnSafe, NEW c \in Conns,
                    conn[c].user # "none", ~SockHeld(c), NEW f \in Fds, owner[f] = c,
                    ~conn[c].closed, conn[c].user # "abandoned"
             PROVE  FALSE
  BY DEF ConnInv, ConnSafe, FdsAreOwn, DescriptorsAreOwn
<1>1. Begun(c) /\ SocketKept(c) /\ OwnerKnows(c)
  BY DEF ConnSafe
<1>2. sock[c].fd = f /\ f # NoFd
  BY <1>1, ConnAssumption DEF OwnerKnows, Fds, NoFd
<1>3. ~Unconnected(c) /\ ~Unstarted(c)
  BY <1>1, <1>2 DEF Begun, Unconnected
<1>4. conn[c].socket
  BY <1>1, <1>3 DEF SocketKept
<1>5. ~ConnHeld(c)
  BY <1>4 DEF SockHeld
<1>6. conn[c].user = "dropped" /\ ~On(tcpJobs, "stop", c)
  BY <1>5 DEF ConnHeld, On, ConnType, ConnStates
<1>7. ~Gone(c)
  BY DEF Gone, Owns
<1> QED BY <1>1, <1>6, <1>7 DEF OwnerKnows

\* As long as no connect has failed a socket's descriptor is its own, and a
\* descriptor is left open without a socket only by a connection that was closed
\* from this side, or that a transport began behind its stop and left when it
\* ended (NetworkSocketPosix::closeNow and the reads that keep it,
\* TcpTransport::setDelegateNeedsTransaction and ~TcpTransport).
THEOREM DescriptorsStayOwn == ConnSpec => []DescriptorsAreOwn
BY ConnInvHolds, InvMeansOwn, PTL

\* Only what has arrived is told as data.
LEMMA DataIsTold ==
    ASSUME ConnType, JobsInOrder, ConnSafe, [ConnNext]_connVars, NEW c \in Conns,
           told'[c].data > told[c].data
    PROVE  (told[c].opened \/ c \in Late) /\ ~conn[c].closed
<1> DEFINE j == Head(tcpJobs)
<1>0. /\ told[c] \in ToldStates /\ told \in [Conns -> ToldStates] /\ told'[c] # told[c]
      /\ told[c].data \in Nat /\ told'[c].data # told[c].data
  BY DEF ConnType, ToldStates
<1>1. TcpQueueStep
  <2>1. ~UNCHANGED told
    BY <1>0
  <2> QED BY <2>1 DEF ConnNext, connVars, NetQueueStep, User, Begin, BeginBehindStop, Starts,
                      Quit, Drop, Abandon, LetsGo, SendDatas, ReceiveStep,
                      ReceiveBegins, ReceiveCalls, Received, ReceiveFails, PeerSends
<1>2. /\ tcpJobs # <<>> /\ tcpJobs' = Tail(tcpJobs)
      /\ j.op \in TcpOps /\ j.c \in Conns
      /\ \A op, e : On(tcpJobs, op, e) <=> (j.op = op /\ j.c = e) \/ On(tcpJobs', op, e)
      /\ ~On(tcpJobs', "delegate", j.c)
  BY <1>1, TcpTaken DEF TcpQueueStep
<1>3. \A e \in Conns : TellClosed(e)[c].data = told[c].data
  BY <1>0 DEF TellClosed, ToldStates
<1>4. /\ j.op = "data" /\ j.c = c /\ conn[c].socket /\ conn[c].delegate
  <2>1. CASE j.op \in {"delegate", "noDelegate", "start", "send"}
    <3>1. told' = told
      BY <1>1, <2>1 DEF TcpQueueStep, TcpSetDelegate, TcpStart, TcpSend
    <3> QED BY <1>0, <3>1
  <2>2. CASE j.op \in {"stop", "lost"}
    <3>1. told' = told \/ told' = TellClosed(j.c)
      BY <1>1, <2>2 DEF TcpQueueStep, CloseAndNotify, TcpLost
    <3> QED BY <1>0, <1>2, <1>3, <3>1
  <2>3. CASE j.op = "opened"
    <3>1. told' = told \/ told' = [told EXCEPT ![j.c].opened = TRUE]
      BY <1>1, <2>3 DEF TcpQueueStep, TcpOpened
    <3>2. told' = told => told'[c].data = told[c].data
      OBVIOUS
    <3>3. ASSUME NEW e \in Conns, told' = [told EXCEPT ![e].opened = TRUE]
          PROVE  told'[c].data = told[c].data
      <4>1. c # e => told'[c] = told[c]
        BY <3>3, <1>0
      <4>2. c = e => told'[c] = [told[c] EXCEPT !.opened = TRUE]
        BY <3>3, <1>0
      <4>3. [told[c] EXCEPT !.opened = TRUE].data = told[c].data
        BY <1>0 DEF ToldStates
      <4> QED BY <4>1, <4>2, <4>3
    <3>4. j.c \in Conns
      BY <1>2
    <3> HIDE DEF j
    <3> QED BY <1>0, <3>1, <3>2, <3>3, <3>4
  <2>4. CASE j.op = "data"
    <3>1. TcpData(j.c, j.tag, j.item)
      BY <1>1, <2>4 DEF TcpQueueStep
    <3>2. conn[j.c].socket
      BY <1>0, <3>1 DEF TcpData
    <3>3. PICK next \in NextReads(j.tag, j.item) :
             IF next = "bad"
             THEN CloseAndNotify(j.c)
             ELSE /\ netJobs' = Append(netJobs, Read(j.c, next))
                  /\ told' = IF j.tag = "body" /\ conn[j.c].delegate
                             THEN [told EXCEPT ![j.c].data = @ + 1] ELSE told
                  /\ UNCHANGED conn
      BY <3>1, <3>2 DEF TcpData
    <3>4. next # "bad"
      <4>1. next = "bad" => told' = told \/ told' = TellClosed(j.c)
        BY <3>3 DEF CloseAndNotify
      <4> QED BY <1>0, <1>2, <1>3, <4>1
    <3>5. conn[j.c].delegate /\ told' = [told EXCEPT ![j.c].data = @ + 1]
      BY <1>0, <3>3, <3>4
    <3>6. j.c = c
      BY <1>0, <1>2, <3>5
    <3> QED BY <2>4, <3>2, <3>5, <3>6
  <2> QED BY <1>2, <2>1, <2>2, <2>3, <2>4 DEF TcpOps
<1>5. Begun(c) /\ SocketKept(c) /\ OpenedIsTold(c)
  BY DEF ConnSafe
<1>6. ~conn[c].closed
  BY <1>4, <1>5 DEF SocketKept
<1>7. On(tcpJobs, "data", c) /\ ~Unconnected(c)
  BY <1>2, <1>4, <1>5 DEF Begun
<1>8. ~Deaf(c)
  BY <1>4 DEF Deaf
<1>9. c \notin refused \/ c \in Late
  BY <1>7, <1>8 DEF ConnSafe, HearsNothing
<1>10. ~On(tcpJobs, "opened", c)
  <2>1. ~On(Tail(tcpJobs), "opened", c)
    BY <1>2, <1>4, TcpTail DEF ConnType, JobsInOrder
  <2> QED BY <1>2, <1>4, <2>1
<1> QED BY <1>5, <1>6, <1>7, <1>8, <1>9, <1>10 DEF OpenedIsTold

\* A packet is told only to a delegate that was told of the opening, those of
\* connections begun behind a stop apart, and never once the connection has been
\* closed from this side (TcpConnection's connectionDataReceived and
\* closeAndNotify).
THEOREM DataIsToldInOrder == ConnSpec => ToldInOrder
<1>1. ConnInv /\ [ConnNext]_connVars =>
         [\A c \in Conns : told'[c].data > told[c].data =>
             (told[c].opened \/ c \in Late) /\ ~conn[c].closed]_connVars
  BY DataIsTold DEF ConnInv
<1> QED BY <1>1, ConnInvHolds, PTL DEF ConnSpec, ToldInOrder
=============================================================================
