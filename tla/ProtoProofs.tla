----------------------------- MODULE ProtoProofs ----------------------------
(***************************************************************************)
(* Theorems about ProtoSystem, for any requests and any number of closes,  *)
(* packets, lapses, violations, pauses, cancels and expiries.  First the   *)
(* life cycle: a client that has stopped stays so, a paused one sends      *)
(* nothing, and a transport in use is ready only when its key has come.    *)
(* Then what each turn of Proto's queue does to the requests, the session, *)
(* the transports and the key; on it rest the theorems about the newest    *)
(* key, the contract with the caller, the ids that are kept and the        *)
(* requests that wait.                                                     *)
(***************************************************************************)
EXTENDS ProtoInvariants, TLAPS

----
(* Queues: sequences of anything. *)

LEMMA QueueFacts ==
    ASSUME NEW s, IsQueue(s)
    PROVE  Len(s) \in Nat /\ DOMAIN s = 1..Len(s)
BY DEF IsQueue

LEMMA AppendFacts ==
    ASSUME NEW s, NEW e, IsQueue(s)
    PROVE  /\ IsQueue(Append(s, e))
           /\ Len(Append(s, e)) = Len(s) + 1
           /\ \A i \in 1..Len(s) : Append(s, e)[i] = s[i]
           /\ Append(s, e)[Len(s) + 1] = e
  <1>1. PICK S : s \in Seq(S)  BY DEF IsQueue
  <1>2. s \in Seq(S \cup {e}) /\ e \in S \cup {e}  BY <1>1
  <1>3. Append(s, e) \in Seq(S \cup {e})  BY <1>2
  <1> QED BY <1>2, <1>3 DEF IsQueue

LEMMA TailFacts ==
    ASSUME NEW s, IsQueue(s), s # <<>>
    PROVE  /\ IsQueue(Tail(s))
           /\ Len(s) >= 1
           /\ Len(Tail(s)) = Len(s) - 1
           /\ \A i \in 1..(Len(s) - 1) : Tail(s)[i] = s[i + 1]
           /\ Head(s) = s[1]
BY DEF IsQueue

\* another job takes the place of the head
LEMMA ReplaceFacts ==
    ASSUME NEW s, NEW e, IsQueue(s), s # <<>>
    PROVE  LET t == <<e>> \o Tail(s)
           IN /\ IsQueue(t)
              /\ Len(t) = Len(s)
              /\ t[1] = e
              /\ \A i \in 2..Len(s) : t[i] = s[i]
  <1>1. PICK S : s \in Seq(S)  BY DEF IsQueue
  <1>2. Tail(s) \in Seq(S \cup {e}) /\ <<e>> \in Seq(S \cup {e}) /\ Len(<<e>>) = 1
    BY <1>1
  <1>3. <<e>> \o Tail(s) \in Seq(S \cup {e})  BY <1>2
  <1> QED BY <1>1, <1>2, <1>3 DEF IsQueue

LEMMA JoinFacts ==
    ASSUME NEW s, NEW t, IsQueue(s), IsQueue(t)
    PROVE  /\ IsQueue(s \o t)
           /\ Len(s \o t) = Len(s) + Len(t)
           /\ \A i \in 1..Len(s) : (s \o t)[i] = s[i]
           /\ \A i \in 1..Len(t) : (s \o t)[Len(s) + i] = t[i]
  <1>1. PICK S : s \in Seq(S)  BY DEF IsQueue
  <1>2. PICK T : t \in Seq(T)  BY DEF IsQueue
  <1>3. s \in Seq(S \cup T) /\ t \in Seq(S \cup T)  BY <1>1, <1>2
  <1>4. s \o t \in Seq(S \cup T)  BY <1>3
  <1> QED BY <1>3, <1>4 DEF IsQueue

----
(* What a Proto's operators do to it, as far as its life cycle goes. *)

LEMMA CounterKept ==
    ASSUME NEW p, NEW q, IsCounter(p), q.answered = p.answered
    PROVE  IsCounter(q)
BY DEF IsCounter

LEMMA AlikeIsGood ==
    ASSUME NEW p, NEW q, Good(p), Alike(p, q), Answers(p, q)
    PROVE  Good(q)
BY CounterKept DEF Good, Alike, Stopped, Paused, Answers

LEMMA ExtendedBySelf ==
    ASSUME NEW s, IsQueue(s)
    PROVE  Extended(s, s)
BY QueueFacts DEF Extended

LEMMA ExtendedTwice ==
    ASSUME NEW s, NEW t, NEW u, IsQueue(s), Extended(s, t), Extended(t, u)
    PROVE  Extended(s, u)
BY QueueFacts DEF Extended

LEMMA AlikeGrows ==
    ASSUME NEW p, NEW q, Good(p), Alike(p, q), Answers(p, q)
    PROVE  Grows(p, q)
  <1>1. JobsGrow(p, q) /\ TcpGrow(p, q) /\ CtxGrow(p, q)
    BY ExtendedBySelf, QueueFacts DEF JobsGrow, TcpGrow, CtxGrow, Good, Alike, Stopped, Paused
  <1>2. Good(q)  BY AlikeIsGood
  <1> QED BY <1>1, <1>2 DEF Grows, Lives, Good, Alike, Answers, Stopped, Paused

LEMMA GrowsTwice ==
    ASSUME NEW p, NEW q, NEW r, Good(p), Grows(p, q), Grows(q, r)
    PROVE  Grows(p, r)
  <1>1. JobsGrow(p, r)
    <2>1. Extended(p.jobs, r.jobs)
      BY ExtendedTwice DEF Grows, Lives, JobsGrow, Good
    <2>2. Len(p.jobs) \in Nat /\ Len(q.jobs) \in Nat /\ Len(r.jobs) \in Nat
      BY QueueFacts DEF Grows, Lives, Good
    <2>3. SUFFICES ASSUME NEW i \in (Len(p.jobs) + 1)..Len(r.jobs)
                   PROVE  r.jobs[i].op = "flush"
      BY <2>1 DEF JobsGrow
    <2>4. CASE i <= Len(q.jobs)
      BY <2>2, <2>4 DEF Grows, Lives, JobsGrow, Extended
    <2>5. CASE i > Len(q.jobs)  BY <2>2, <2>5 DEF Grows, Lives, JobsGrow
    <2> QED BY <2>2, <2>4, <2>5
  <1>2. TcpGrow(p, r)
    <2>1. Extended(p.tcpJobs, r.tcpJobs)
      BY ExtendedTwice DEF Grows, Lives, TcpGrow, Good
    <2>2. Len(p.tcpJobs) \in Nat /\ Len(q.tcpJobs) \in Nat /\ Len(r.tcpJobs) \in Nat
      BY QueueFacts DEF Grows, Lives, Good
    <2>3. SUFFICES ASSUME NEW i \in (Len(p.tcpJobs) + 1)..Len(r.tcpJobs)
                   PROVE  r.tcpJobs[i].op \in {"update", "detach", "stop", "valid"}
      BY <2>1 DEF TcpGrow
    <2>4. CASE i <= Len(q.tcpJobs)
      BY <2>2, <2>4 DEF Grows, Lives, TcpGrow, Extended
    <2>5. CASE i > Len(q.tcpJobs)  BY <2>2, <2>5 DEF Grows, Lives, TcpGrow
    <2> QED BY <2>2, <2>4, <2>5
  <1>3. CtxGrow(p, r)
    <2>1. Extended(p.ctxJobs, r.ctxJobs)
      BY ExtendedTwice DEF Grows, Lives, CtxGrow, Good
    <2>2. Len(p.ctxJobs) \in Nat /\ Len(q.ctxJobs) \in Nat /\ Len(r.ctxJobs) \in Nat
      BY QueueFacts DEF Grows, Lives, Good
    <2>3. SUFFICES ASSUME NEW i \in (Len(p.ctxJobs) + 1)..Len(r.ctxJobs)
                   PROVE  r.ctxJobs[i] # 0
      BY <2>1 DEF CtxGrow
    <2>4. CASE i <= Len(q.ctxJobs)
      BY SMTT(30), <2>2, <2>4 DEF Grows, Lives, CtxGrow, Extended
    <2>5. CASE i > Len(q.ctxJobs)  BY <2>2, <2>5 DEF Grows, Lives, CtxGrow
    <2> QED BY <2>2, <2>4, <2>5
  <1>4. p.created \in Nat /\ q.created \in Nat /\ r.created \in Nat
    BY DEF Grows, Lives, Good
  <1> QED BY <1>1, <1>2, <1>3, <1>4 DEF Grows, Lives

\* requestTransportTransactions
LEMMA RequestTransactionsGrows ==
    ASSUME NEW p, Good(p)
    PROVE  Grows(p, RequestTransactions(p))
  <1>1. CASE p.flushing
    BY <1>1, AlikeGrows DEF RequestTransactions, Alike, Stopped, Paused, Answers, Good
  <1>2. CASE ~p.flushing
    <2> DEFINE q == [p EXCEPT !.flushing = TRUE, !.jobs = Append(@, [op |-> "flush"])]
    <2>1. RequestTransactions(p) = q  BY <1>2 DEF RequestTransactions
    <2>2. /\ Fields \subseteq DOMAIN q
          /\ q.state = p.state /\ q.transport = p.transport /\ q.created = p.created
          /\ q.key = p.key /\ q.missed = p.missed /\ q.registered = p.registered
          /\ q.authInfo = p.authInfo /\ q.infos = p.infos /\ q.answered = p.answered
          /\ q.jobs = Append(p.jobs, [op |-> "flush"])
          /\ q.tcpJobs = p.tcpJobs /\ q.ctxJobs = p.ctxJobs
      BY DEF Good, Fields
    <2>3. JobsGrow(p, q)
      BY <2>2, AppendFacts, QueueFacts DEF JobsGrow, Extended, Good
    <2>4. TcpGrow(p, q) /\ CtxGrow(p, q)
      BY <2>2, ExtendedBySelf, QueueFacts DEF TcpGrow, CtxGrow, Good
    <2> HIDE DEF q
    <2>5. Good(q)  BY <2>2, AppendFacts, CounterKept DEF Good
    <2>6. Grows(p, q)
      BY <2>2, <2>3, <2>4, <2>5 DEF Grows, Lives, Good, Stopped, Paused
    <2> QED BY <2>1, <2>6
  <1> QED BY <1>1, <1>2

LEMMA RequestIfGrows ==
    ASSUME NEW p, Good(p), NEW cond
    PROVE  Grows(p, RequestIf(cond, p))
BY AlikeGrows, RequestTransactionsGrows DEF Alike, Stopped, Paused, Answers, Good,
   RequestIf

LEMMA GrowsIsGood ==
    ASSUME NEW p, NEW q, Grows(p, q)
    PROVE  Good(q)
BY DEF Grows, Lives

\* an operator that first changes nothing of all this
LEMMA AlikeThenGrows ==
    ASSUME NEW p, NEW q, NEW r, Good(p), Alike(p, q), Answers(p, q), Good(q) => Grows(q, r)
    PROVE  Grows(p, r)
BY AlikeGrows, GrowsTwice, GrowsIsGood

LEMMA AlikeSelf ==
    ASSUME NEW p, Good(p)
    PROVE  Alike(p, p) /\ Answers(p, p) /\ Grows(p, p)
BY AlikeGrows DEF Alike, Stopped, Paused, Answers, Good

----
(* The message services. *)

LEMMA ForgetGrows ==
    ASSUME NEW p, NEW rs, Good(p)
    PROVE  Grows(p, Forget(p, rs))
  <1> DEFINE q == [p EXCEPT !.context = [r \in Requests |-> IF r \in rs THEN None ELSE @[r]]]
  <1>1. Alike(p, q) /\ Answers(p, q) /\ Good(q)
    <2>1. Alike(p, q) /\ q.answered = p.answered
      BY DEF Alike, Stopped, Paused, Good, Fields
    <2> HIDE DEF q
    <2> QED BY <2>1, AlikeIsGood DEF Answers
  <1>2. Forget(p, rs) = RequestIf(rs # {}, q)  BY DEF Forget
  <1> HIDE DEF q
  <1> QED BY <1>1, <1>2, RequestIfGrows, AlikeThenGrows

LEMMA RequestsMayHaveFailedGrows ==
    ASSUME NEW p, NEW tx, Good(p)
    PROVE  Grows(p, RequestsMayHaveFailed(p, tx))
BY ForgetGrows, AlikeSelf DEF RequestsMayHaveFailed

LEMMA AllRequestsMayHaveFailedGrows ==
    ASSUME NEW p, Good(p)
    PROVE  Grows(p, AllRequestsMayHaveFailed(p))
BY ForgetGrows, AlikeSelf DEF AllRequestsMayHaveFailed

LEMMA RequestDeliveryFailedGrows ==
    ASSUME NEW p, NEW mids, Good(p)
    PROVE  Grows(p, RequestDeliveryFailed(p, mids))
BY ForgetGrows, AlikeSelf DEF RequestDeliveryFailed

LEMMA RequestDeliveryConfirmedAlike ==
    ASSUME NEW p, NEW mids, Good(p)
    PROVE  Alike(p, RequestDeliveryConfirmed(p, mids)) /\ Answers(p, RequestDeliveryConfirmed(p, mids))
BY AlikeSelf DEF RequestDeliveryConfirmed, Alike, Stopped, Paused, Answers, Good,
   Fields

LEMMA RequestsSessionChangedGrows ==
    ASSUME NEW p, Good(p)
    PROVE  Grows(p, RequestsSessionChanged(p))
  <1> DEFINE q == [p EXCEPT !.context = [r \in Requests |-> None]]
  <1>1. Alike(p, q) /\ Answers(p, q) /\ Good(q)
    <2>1. Alike(p, q) /\ q.answered = p.answered
      BY DEF Alike, Stopped, Paused, Good, Fields
    <2> HIDE DEF q
    <2> QED BY <2>1, AlikeIsGood DEF Answers
  <1>2. CASE p.registered
    <2>1. RequestsSessionChanged(p) = RequestIf(p.requests # {}, q)
      BY <1>2 DEF RequestsSessionChanged
    <2> HIDE DEF q
    <2> QED BY <1>1, <2>1, RequestIfGrows, AlikeThenGrows
  <1>3. CASE ~p.registered  BY <1>3, AlikeSelf DEF RequestsSessionChanged
  <1> QED BY <1>2, <1>3

\* a service that has been removed makes no callback
LEMMA ReceiveResultAlike ==
    ASSUME NEW p, NEW body, Good(p)
    PROVE  Alike(p, ReceiveResult(p, body)) /\ Answers(p, ReceiveResult(p, body))
  <1> DEFINE hit == {r \in Bound(p) : p.registered /\ p.context[r].mid = body.mid}
  <1> DEFINE q == [p EXCEPT
          !.requests = @ \ hit,
          !.context = [r \in Requests |-> IF r \in hit THEN None ELSE @[r]],
          !.answered = [r \in Requests |->
                          IF r \in hit /\ body.k = "rpcResult" THEN @[r] + 1 ELSE @[r]]]
  <1>1. ReceiveResult(p, body) = q  BY DEF ReceiveResult
  <1>2. /\ Fields \subseteq DOMAIN q
        /\ q.state = p.state /\ q.transport = p.transport /\ q.created = p.created
        /\ q.key = p.key /\ q.missed = p.missed /\ q.registered = p.registered
        /\ q.authInfo = p.authInfo /\ q.infos = p.infos
        /\ q.jobs = p.jobs /\ q.tcpJobs = p.tcpJobs /\ q.ctxJobs = p.ctxJobs
    BY DEF Good, Fields
  <1>4. q.answered = [r \in Requests |->
                          IF r \in hit /\ body.k = "rpcResult" THEN p.answered[r] + 1 ELSE p.answered[r]]
    BY DEF Good, Fields
  <1>5. IsCounter(q)
    <2> HIDE DEF hit, q
    <2> QED BY <1>4 DEF IsCounter
  <1>3. ASSUME ~p.registered
        PROVE  q.answered = p.answered
    <2>1. hit = {}  BY <1>3
    <2> HIDE DEF hit, q
    <2> QED BY <1>4, <2>1 DEF Good, IsCounter
  <1> HIDE DEF q
  <1> QED BY <1>1, <1>2, <1>3, <1>5 DEF Alike, Stopped, Paused, Answers

LEMMA TimeSyncRestartGrows ==
    ASSUME NEW p, Good(p)
    PROVE  Grows(p, TimeSyncRestart(p))
  <1> DEFINE q == [p EXCEPT !.timeSync.mid = None]
  <1>1. Alike(p, q) /\ Answers(p, q) /\ Good(q)
    <2>1. Alike(p, q) /\ q.answered = p.answered
      BY DEF Alike, Stopped, Paused, Good, Fields
    <2> HIDE DEF q
    <2> QED BY <2>1, AlikeIsGood DEF Answers
  <1> HIDE DEF q
  <1>2. Grows(p, RequestTransactions(q))
    BY <1>1, RequestTransactionsGrows, AlikeThenGrows
  <1> QED BY <1>2, AlikeSelf DEF TimeSyncRestart, q

LEMMA TimeSyncDeliveryFailedGrows ==
    ASSUME NEW p, NEW mids, Good(p)
    PROVE  Grows(p, TimeSyncDeliveryFailed(p, mids))
  <1> DEFINE q == [p EXCEPT !.timeSync.mid = None]
  <1>1. Alike(p, q) /\ Answers(p, q) /\ Good(q)
    <2>1. Alike(p, q) /\ q.answered = p.answered
      BY DEF Alike, Stopped, Paused, Good, Fields
    <2> HIDE DEF q
    <2> QED BY <2>1, AlikeIsGood DEF Answers
  <1> HIDE DEF q
  <1>2. Grows(p, RequestTransactions(q))
    BY <1>1, RequestTransactionsGrows, AlikeThenGrows
  <1> QED BY <1>2, AlikeSelf DEF TimeSyncDeliveryFailed, q

----
(* Transports. *)

LEMMA AllTransactionsMayHaveFailedGrows ==
    ASSUME NEW p, Good(p)
    PROVE  Grows(p, AllTransactionsMayHaveFailed(p))
BY AllRequestsMayHaveFailedGrows, TimeSyncRestartGrows, GrowsTwice, GrowsIsGood, AlikeSelf
   DEF AllTransactionsMayHaveFailed

LEMMA TransactionsMayHaveFailedGrows ==
    ASSUME NEW p, NEW tx, Good(p)
    PROVE  Grows(p, TransactionsMayHaveFailed(p, tx))
BY RequestsMayHaveFailedGrows, AlikeSelf DEF TransactionsMayHaveFailed

LEMMA PostTcpGrows ==
    ASSUME NEW p, NEW op \in {"update", "detach", "stop", "valid"}, NEW t, Good(p)
    PROVE  /\ Grows(p, PostTcp(p, op, t))
           /\ PostTcp(p, op, t).transport = p.transport
  <1> DEFINE q == [p EXCEPT !.tcpJobs = Append(@, [op |-> op, t |-> t])]
  <1>1. PostTcp(p, op, t) = q  BY DEF PostTcp
  <1>2. /\ Fields \subseteq DOMAIN q
        /\ q.state = p.state /\ q.transport = p.transport /\ q.created = p.created
        /\ q.key = p.key /\ q.missed = p.missed /\ q.registered = p.registered
        /\ q.authInfo = p.authInfo /\ q.infos = p.infos /\ q.answered = p.answered
        /\ q.jobs = p.jobs
        /\ q.tcpJobs = Append(p.tcpJobs, [op |-> op, t |-> t]) /\ q.ctxJobs = p.ctxJobs
    BY DEF Good, Fields
  <1> HIDE DEF q
  <1>3. TcpGrow(p, q)
    BY <1>2, AppendFacts, QueueFacts DEF TcpGrow, Extended, Good
  <1>4. JobsGrow(p, q) /\ CtxGrow(p, q)
    BY <1>2, ExtendedBySelf, QueueFacts DEF JobsGrow, CtxGrow, Good
  <1>5. Good(q)  BY <1>2, AppendFacts, CounterKept DEF Good
  <1> QED BY <1>1, <1>2, <1>3, <1>4, <1>5 DEF Grows, Lives, Good, Stopped, Paused

LEMMA UpdateConnectionStateGrows ==
    ASSUME NEW p, Good(p)
    PROVE  /\ Grows(p, UpdateConnectionState(p))
           /\ UpdateConnectionState(p).transport = p.transport
  <1> DEFINE q == [p EXCEPT !.reported = "connecting"]
  <1>1. Alike(p, q) /\ Answers(p, q) /\ q.transport = p.transport
    BY DEF Alike, Stopped, Paused, Answers, Good, Fields
  <1> HIDE DEF q
  <1> QED BY <1>1, AlikeGrows, PostTcpGrows DEF UpdateConnectionState, q

\* from a Proto without, or with, another transport to the one named
LEMMA SetTransportGrows ==
    ASSUME NEW p, NEW t, Good(p),
           \/ t = 0
           \/ t = p.transport
    PROVE  /\ Grows(p, SetTransport(p, t))
           /\ SetTransport(p, t).transport = t
  <1> DEFINE a == AllTransactionsMayHaveFailed(p)
             q == [a EXCEPT !.transport = t]
             r == IF p.transport = 0 THEN q ELSE PostTcp(q, "stop", p.transport)
  <1>1. Grows(p, a) /\ Good(a)
    BY AllTransactionsMayHaveFailedGrows, GrowsIsGood
  <1>2. /\ Fields \subseteq DOMAIN q
        /\ q.state = a.state /\ q.transport = t /\ q.created = a.created
        /\ q.key = a.key /\ q.missed = a.missed /\ q.registered = a.registered
        /\ q.authInfo = a.authInfo /\ q.infos = a.infos /\ q.answered = a.answered
        /\ q.jobs = a.jobs /\ q.tcpJobs = a.tcpJobs /\ q.ctxJobs = a.ctxJobs
    <2> HIDE DEF a
    <2> QED BY <1>1 DEF Good, Fields
  <1>3. SetTransport(p, t) = UpdateConnectionState(r)  BY DEF SetTransport
  <1> HIDE DEF a, q
  <1>4. Good(q)  BY <1>1, <1>2, CounterKept DEF Good
  <1>5. JobsGrow(p, q) /\ TcpGrow(p, q) /\ CtxGrow(p, q)
    BY <1>1, <1>2 DEF Grows, Lives, JobsGrow, TcpGrow, CtxGrow
  <1>6. Grows(p, q)  BY <1>1, <1>2, <1>4, <1>5 DEF Grows, Lives, Stopped, Paused
  <1>7. Grows(p, r) /\ Good(r) /\ r.transport = t
    BY <1>2, <1>4, <1>6, PostTcpGrows, GrowsTwice, GrowsIsGood
  <1> HIDE DEF r
  <1> QED BY <1>3, <1>7, UpdateConnectionStateGrows, GrowsTwice

LEMMA DropTransportGrows ==
    ASSUME NEW p, Good(p)
    PROVE  /\ Grows(p, DropTransport(p))
           /\ DropTransport(p).transport = 0
  <1> DEFINE q == PostTcp(p, "detach", p.transport)
             r == PostTcp(q, "stop", p.transport)
  <1>1. Grows(p, q) /\ Good(q)  BY PostTcpGrows, GrowsIsGood
  <1>2. Grows(p, r) /\ Good(r)
    <2> HIDE DEF q
    <2> QED BY <1>1, PostTcpGrows, GrowsIsGood, GrowsTwice
  <1>3. DropTransport(p) = IF p.transport = 0 THEN p ELSE SetTransport(r, 0)
    BY DEF DropTransport
  <1> HIDE DEF q, r
  <1> QED BY <1>2, <1>3, SetTransportGrows, GrowsTwice, AlikeSelf

\* The transport is new: none of the jobs is about it.
LEMMA CreateTransportGrows ==
    ASSUME NEW p, Good(p), p.key # 0, ~Stopped(p)
    PROVE  Grows(p, CreateTransport(p))
  <1> DEFINE t == p.created + 1
             c == [p EXCEPT !.created = t]
             a == AllTransactionsMayHaveFailed(c)
             q == [a EXCEPT !.transport = t]
             r == IF c.transport = 0 THEN q ELSE PostTcp(q, "stop", c.transport)
  <1>0. CreateTransport(p) = UpdateConnectionState(r)
    BY DEF CreateTransport, SetTransport
  <1>1. /\ Fields \subseteq DOMAIN c
        /\ c.state = p.state /\ c.transport = p.transport /\ c.created = p.created + 1
        /\ c.key = p.key /\ c.missed = p.missed /\ c.registered = p.registered
        /\ c.authInfo = p.authInfo /\ c.infos = p.infos /\ c.answered = p.answered
        /\ c.jobs = p.jobs /\ c.tcpJobs = p.tcpJobs /\ c.ctxJobs = p.ctxJobs
    BY DEF Good, Fields
  <1>2. Good(c)
    <2> HIDE DEF c
    <2> QED BY <1>1, CounterKept DEF Good
  <1>3. Grows(c, a) /\ Good(a)
    <2> HIDE DEF c
    <2> QED BY <1>2, AllTransactionsMayHaveFailedGrows, GrowsIsGood
  <1>4. /\ Fields \subseteq DOMAIN q
        /\ q.state = a.state /\ q.transport = t /\ q.created = a.created
        /\ q.key = a.key /\ q.missed = a.missed /\ q.registered = a.registered
        /\ q.authInfo = a.authInfo /\ q.infos = a.infos /\ q.answered = a.answered
        /\ q.jobs = a.jobs /\ q.tcpJobs = a.tcpJobs /\ q.ctxJobs = a.ctxJobs
    <2> HIDE DEF a
    <2> QED BY <1>3 DEF Good, Fields
  <1> HIDE DEF c, a, q
  <1>5. Good(q)  BY <1>3, <1>4, CounterKept DEF Good
  <1>6. JobsGrow(p, q) /\ TcpGrow(p, q) /\ CtxGrow(p, q)
    BY <1>1, <1>3, <1>4 DEF Grows, Lives, JobsGrow, TcpGrow, CtxGrow
  <1>7. Lives(p, q)
    BY <1>1, <1>3, <1>4, <1>5, <1>6 DEF Grows, Lives, Good, Stopped, Paused
  <1>8. t \in (p.created + 1)..q.created
    BY <1>1, <1>3, <1>4, <1>5 DEF Grows, Lives, Good
  <1>9. Grows(p, q)  BY <1>4, <1>7, <1>8 DEF Grows
  <1>10. Grows(p, r) /\ Good(r)
    BY <1>5, <1>9, PostTcpGrows, GrowsTwice, GrowsIsGood
  <1> HIDE DEF r
  <1> QED BY <1>0, <1>10, UpdateConnectionStateGrows, GrowsTwice

LEMMA ResetTransportGrows ==
    ASSUME NEW p, Good(p)
    PROVE  Grows(p, ResetTransport(p))
  <1> DEFINE d == DropTransport(p)
             q == [d EXCEPT !.state = @ \cup {"authorization"}]
  <1>1. Grows(p, d) /\ Good(d)  BY DropTransportGrows, GrowsIsGood
  <1>2. Grows(p, q)
    <2>1. /\ Fields \subseteq DOMAIN q
          /\ q.state = d.state \cup {"authorization"} /\ q.transport = d.transport
          /\ q.created = d.created /\ q.key = d.key /\ q.missed = d.missed /\ q.registered = d.registered
          /\ q.authInfo = d.authInfo /\ q.infos = d.infos /\ q.answered = d.answered
          /\ q.jobs = d.jobs /\ q.tcpJobs = d.tcpJobs /\ q.ctxJobs = d.ctxJobs
      <3> HIDE DEF d
      <3> QED BY <1>1 DEF Good, Fields
    <2> HIDE DEF d, q
    <2>2. Good(q)  BY <1>1, <2>1, CounterKept DEF Good
    <2>3. JobsGrow(p, q) /\ TcpGrow(p, q) /\ CtxGrow(p, q)
      BY <1>1, <2>1 DEF Grows, Lives, JobsGrow, TcpGrow, CtxGrow
    <2>4. Stopped(q) = Stopped(d) /\ Paused(q) = Paused(d)
      BY <2>1 DEF Stopped, Paused
    <2> QED BY <1>1, <2>1, <2>2, <2>3, <2>4 DEF Grows, Lives
  <1>3. ASSUME ~Stopped(p), p.key # 0
        PROVE  Grows(p, CreateTransport(d))
    <2>1. d.key # 0 /\ ~Stopped(d)  BY <1>1, <1>3 DEF Grows, Lives
    <2> HIDE DEF d
    <2> QED BY <1>1, <2>1, CreateTransportGrows, GrowsTwice
  <1>4. ResetTransport(p) = IF Stopped(p) THEN p ELSE IF p.key = 0 THEN q ELSE CreateTransport(d)
    BY DEF ResetTransport
  <1> HIDE DEF d, q
  <1> QED BY <1>2, <1>3, <1>4, AlikeSelf

----
(* Sessions, salts and time. *)

LEMMA ResetSessionInfoGrows ==
    ASSUME NEW p, Good(p)
    PROVE  Grows(p, ResetSessionInfo(p))
  <1> DEFINE q == [p EXCEPT !.lock = IF @ = "clear" THEN "held" ELSE "clear",
                            !.session = NewSession(p.batch)]
             r == RequestsSessionChanged(q)
             s == TimeSyncRestart(r)
  <1>1. ResetSessionInfo(p) = IF p.lock = "held" THEN p ELSE ResetTransport(s)
    BY DEF ResetSessionInfo
  <1>2. Alike(p, q) /\ q.answered = p.answered
    BY DEF Alike, Good, Fields, Stopped, Paused
  <1> HIDE DEF q
  <1>3. Grows(p, q) /\ Good(q)  BY <1>2, AlikeGrows, GrowsIsGood DEF Answers
  <1>4. Grows(p, r) /\ Good(r)
    BY <1>3, RequestsSessionChangedGrows, GrowsTwice, GrowsIsGood
  <1> HIDE DEF r
  <1>5. Grows(p, s) /\ Good(s)
    BY <1>4, TimeSyncRestartGrows, GrowsTwice, GrowsIsGood
  <1> HIDE DEF s
  <1> QED BY <1>1, <1>5, ResetTransportGrows, GrowsTwice, AlikeSelf

LEMMA InitiateTimeSyncGrows ==
    ASSUME NEW p, Good(p)
    PROVE  Grows(p, InitiateTimeSync(p))
  <1> DEFINE q == [p EXCEPT !.state = @ \cup {"timeFixAndSalts"}]
             r == [q EXCEPT !.timeSync = [NoTimeSync EXCEPT !.present = TRUE]]
  <1>1. InitiateTimeSync(p) = IF q.timeSync.present THEN q ELSE RequestTransactions(r)
    BY DEF InitiateTimeSync
  <1>2. Alike(p, q) /\ q.answered = p.answered
    BY DEF Alike, Good, Fields, Stopped, Paused
  <1>3. Alike(p, r) /\ r.answered = p.answered
    BY DEF Alike, Good, Fields, Stopped, Paused
  <1> HIDE DEF q, r
  <1>4. Grows(p, q) /\ Grows(p, r) /\ Good(r)
    BY <1>2, <1>3, AlikeGrows, GrowsIsGood DEF Answers
  <1> QED BY <1>1, <1>4, RequestTransactionsGrows, GrowsTwice

LEMMA CompleteTimeSyncGrows ==
    ASSUME NEW p, Good(p)
    PROVE  Grows(p, CompleteTimeSync(p))
  <1> DEFINE q == [p EXCEPT !.state = @ \ {"timeFixAndSalts"}, !.timeSync = NoTimeSync]
  <1>1. CompleteTimeSync(p) = q  BY DEF CompleteTimeSync
  <1>2. Alike(p, q) /\ q.answered = p.answered
    BY DEF Alike, Good, Fields, Stopped, Paused
  <1> HIDE DEF q
  <1> QED BY <1>1, <1>2, AlikeGrows DEF Answers

\* the one place where a key info is made for Context
LEMMA TimeSyncInfoChangedGrows ==
    ASSUME NEW p, Good(p)
    PROVE  Grows(p, TimeSyncInfoChanged(p))
  <1> DEFINE info == p.infos + 1
             q == [p EXCEPT !.infos = info, !.authInfo = info, !.ctxJobs = Append(@, info)]
  <1>1. TimeSyncInfoChanged(p) = RequestIf(CanAskTransactions(q) \/ CanAskServiceTransactions(q), q)
    BY DEF TimeSyncInfoChanged
  <1>2. /\ Fields \subseteq DOMAIN q
        /\ q.state = p.state /\ q.transport = p.transport /\ q.created = p.created
        /\ q.key = p.key /\ q.missed = p.missed /\ q.registered = p.registered
        /\ q.authInfo = info /\ q.infos = info /\ q.answered = p.answered
        /\ q.jobs = p.jobs /\ q.tcpJobs = p.tcpJobs
        /\ q.ctxJobs = Append(p.ctxJobs, info)
    BY DEF Good, Fields
  <1>3. info \in Nat \ {0}  BY DEF Good
  <1> HIDE DEF q, info
  <1>4. CtxGrow(p, q)
    BY <1>2, <1>3, AppendFacts, QueueFacts DEF CtxGrow, Extended, Good
  <1>5. JobsGrow(p, q) /\ TcpGrow(p, q)
    BY <1>2, ExtendedBySelf, QueueFacts DEF JobsGrow, TcpGrow, Good
  <1>6. Good(q)  BY <1>2, <1>3, AppendFacts, CounterKept DEF Good
  <1>7. Grows(p, q)
    BY <1>2, <1>3, <1>4, <1>5, <1>6 DEF Grows, Lives, Good, Stopped, Paused
  <1> QED BY <1>1, <1>6, <1>7, RequestIfGrows, GrowsTwice

LEMMA FixTimeGrows ==
    ASSUME NEW p, Good(p)
    PROVE  Grows(p, FixTime(p))
  <1> DEFINE r == [p EXCEPT !.state = @ \ {"timeFixAndSalts"}]
             q == TimeSyncInfoChanged(r)
             s == [q EXCEPT !.timeFix = None]
  <1>1. FixTime(p) = ResetSessionInfo(s)  BY DEF FixTime
  <1>2. Alike(p, r) /\ r.answered = p.answered
    BY DEF Alike, Good, Fields, Stopped, Paused
  <1> HIDE DEF r
  <1>3. Grows(p, r) /\ Good(r)  BY <1>2, AlikeGrows, GrowsIsGood DEF Answers
  <1>4. Grows(p, q) /\ Good(q)
    BY <1>3, TimeSyncInfoChangedGrows, GrowsTwice, GrowsIsGood
  <1> HIDE DEF q
  <1>5. Alike(q, s) /\ s.answered = q.answered
    BY <1>4 DEF Alike, Good, Fields, Stopped, Paused
  <1> HIDE DEF s
  <1>6. Grows(p, s) /\ Good(s)
    BY <1>4, <1>5, AlikeGrows, GrowsTwice, GrowsIsGood DEF Answers
  <1> QED BY <1>1, <1>6, ResetSessionInfoGrows, GrowsTwice

LEMMA BadMessageCodeGrows ==
    ASSUME NEW p, NEW code, Good(p)
    PROVE  Grows(p, BadMessageCode(p, code))
BY InitiateTimeSyncGrows, GrowsIsGood, ResetSessionInfoGrows, GrowsTwice DEF
   BadMessageCode

LEMMA BadMessageGrows ==
    ASSUME NEW p, NEW body, Good(p)
    PROVE  Grows(p, BadMessage(p, body))
  <1> DEFINE rejected == {body.mid} \cup UNION {c.children : c \in {d \in p.session.containers : d.id = body.mid}}
             q == IF body.k = "badMsg" THEN BadMessageCode(p, body.code)
                  ELSE IF p.timeFix = body.mid THEN FixTime(p)
                  ELSE InitiateTimeSync(p)
             r == RequestDeliveryFailed(q, rejected)
  <1>1. BadMessage(p, body) = TimeSyncDeliveryFailed(r, rejected)
    BY DEF BadMessage
  <1>2. Grows(p, q) /\ Good(q)
    BY BadMessageCodeGrows, FixTimeGrows, InitiateTimeSyncGrows, GrowsIsGood
  <1> HIDE DEF q, rejected
  <1>3. Grows(p, r) /\ Good(r)
    BY <1>2, RequestDeliveryFailedGrows, GrowsTwice, GrowsIsGood
  <1> HIDE DEF r
  <1> QED BY <1>1, <1>3, TimeSyncDeliveryFailedGrows, GrowsTwice

LEMMA FutureSaltsGrows ==
    ASSUME NEW p, NEW body, Good(p)
    PROVE  Grows(p, FutureSalts(p, body))
  <1> DEFINE q == TakeSample(p, body)
             r == TimeSyncInfoChanged(CompleteTimeSync(q))
  <1>1. FutureSalts(p, body) =
            IF ~TimeSyncMatches(p, body) THEN p
            ELSE IF EnoughSamples(q) THEN RequestIf(q.timeSync.required # p.timeSync.required, r)
            ELSE RequestTransactions(q)
    BY DEF FutureSalts
  <1>2. Alike(p, q) /\ q.answered = p.answered
    BY DEF TakeSample, Alike, Good, Fields, Stopped, Paused
  <1> HIDE DEF q
  <1>3. Grows(p, q) /\ Good(q)  BY <1>2, AlikeGrows, GrowsIsGood DEF Answers
  <1>4. Grows(p, CompleteTimeSync(q)) /\ Good(CompleteTimeSync(q))
    BY <1>3, CompleteTimeSyncGrows, GrowsTwice, GrowsIsGood
  <1>5. Grows(p, r) /\ Good(r)
    BY <1>4, TimeSyncInfoChangedGrows, GrowsTwice, GrowsIsGood
  <1> HIDE DEF r
  <1> QED BY <1>1, <1>3, <1>5, RequestTransactionsGrows, RequestIfGrows, GrowsTwice, AlikeSelf

----
(* Incoming messages. *)

LEMMA ScheduleAckAlike ==
    ASSUME NEW p, NEW id, Good(p)
    PROVE  /\ Grows(p, ScheduleAck(p, id))
           /\ Good(ScheduleAck(p, id))
BY AlikeGrows, GrowsIsGood DEF ScheduleAck, Alike, Good, Fields, Stopped, Paused,
   Answers

LEMMA DispatchGrows ==
    ASSUME NEW p, NEW m, Good(p)
    PROVE  Grows(p, Dispatch(p, m))
  <1> DEFINE q == IF NeedsAck(m.body) THEN ScheduleAck(p, m.id) ELSE p
             s == RequestIf(NeedsAck(m.body) /\ AcksExceedThreshold(q), q)
  <1>1. Dispatch(p, m) =
            CASE m.body.k \in {"rpcResult", "rpcSilent"} -> ReceiveResult(s, m.body)
              [] m.body.k = "futureSalts"                -> FutureSalts(s, m.body)
              [] OTHER                                   -> s
    BY DEF Dispatch
  <1>2. Grows(p, q) /\ Good(q)  BY ScheduleAckAlike, AlikeSelf
  <1> HIDE DEF q
  <1>3. Grows(p, s) /\ Good(s)  BY <1>2, RequestIfGrows, GrowsTwice, GrowsIsGood
  <1> HIDE DEF s
  <1>4. Grows(s, ReceiveResult(s, m.body))
    BY <1>3, ReceiveResultAlike, AlikeGrows
  <1>5. Grows(s, FutureSalts(s, m.body))  BY <1>3, FutureSaltsGrows
  <1> QED BY <1>1, <1>3, <1>4, <1>5, GrowsTwice

LEMMA ProcessIncomingMessageGrows ==
    ASSUME NEW p, NEW m, Good(p)
    PROVE  Grows(p, ProcessIncomingMessage(p, m))
  <1> DEFINE f == [p EXCEPT !.forceAcks = TRUE]
             q == [p EXCEPT !.session.processed = @ \cup {m.id}]
  <1>1. ProcessIncomingMessage(p, m) =
            IF m.id \in p.session.processed THEN RequestTransactions(ScheduleAck(f, m.id))
            ELSE CASE m.body.k \in {"badSalt", "badMsg"} -> BadMessage(q, m.body)
                   [] m.body.k = "acks" -> RequestDeliveryConfirmed(q, {m.body.mid})
                   [] OTHER             -> Dispatch(q, m)
    BY DEF ProcessIncomingMessage
  <1>2. Alike(p, f) /\ f.answered = p.answered /\ Alike(p, q) /\ q.answered = p.answered
    BY DEF Alike, Good, Fields, Stopped, Paused
  <1> HIDE DEF f, q
  <1>3. Grows(p, f) /\ Good(f) /\ Grows(p, q) /\ Good(q)
    BY <1>2, AlikeGrows, GrowsIsGood DEF Answers
  <1>4. Grows(p, ScheduleAck(f, m.id)) /\ Good(ScheduleAck(f, m.id))
    BY <1>3, ScheduleAckAlike, GrowsTwice
  <1>5. Grows(p, RequestTransactions(ScheduleAck(f, m.id)))
    BY <1>4, RequestTransactionsGrows, GrowsTwice
  <1>6. Grows(q, RequestDeliveryConfirmed(q, {m.body.mid}))
    BY <1>3, RequestDeliveryConfirmedAlike, AlikeGrows
  <1>7. Grows(q, BadMessage(q, m.body)) /\ Grows(q, Dispatch(q, m))
    BY <1>3, BadMessageGrows, DispatchGrows
  <1> QED BY <1>1, <1>3, <1>5, <1>6, <1>7, GrowsTwice

----
(* Transactions. *)

LEMMA PrepareGrows ==
    ASSUME NEW p, NEW items, NEW tx, Good(p)
    PROVE  Alike(p, Prepare(p, items, tx)) /\ Prepare(p, items, tx).answered = p.answered
  <1> DEFINE a == BindRequests(p, items \cap Requests, tx)
             q == BindTimeSync(a, "futureSalts" \in items)
  <1>1. Prepare(p, items, tx) = [q EXCEPT !.batch = @ + 1, !.forceAcks = @ /\ ~AcksDue(p)]
    BY DEF Prepare
  <1>2. Alike(p, a) /\ a.answered = p.answered
    BY DEF BindRequests, Alike, Good, Fields, Stopped, Paused
  <1> HIDE DEF a
  <1>3. Alike(p, q) /\ q.answered = p.answered
    BY <1>2 DEF BindTimeSync, Alike, Fields, Stopped, Paused
  <1> HIDE DEF q
  <1> QED BY <1>1, <1>3 DEF Alike, Fields, Stopped, Paused

LEMMA ContainGrows ==
    ASSUME NEW p, NEW items, NEW b, Fields \subseteq DOMAIN p
    PROVE  Alike(p, Contain(p, items, b)) /\ Contain(p, items, b).answered = p.answered
  <1> DEFINE x == [id |-> [b |-> b, m |-> "container"],
                   children |-> {c.mid : c \in {p.context[r] : r \in items \cap Requests}}
                                  \cup {[b |-> b, m |-> y] : y \in items \cap Labels}]
             q == [p EXCEPT !.session.containers = @ \cup {x}]
  <1>1. Contain(p, items, b) = IF Cardinality(items) < 2 THEN p ELSE q
    BY DEF Contain
  <1> HIDE DEF x
  <1>2. Alike(p, q) /\ q.answered = p.answered
    BY DEF Alike, Fields, Stopped, Paused
  <1> HIDE DEF q
  <1> QED BY <1>1, <1>2 DEF Alike

LEMMA CarriedGrows ==
    ASSUME NEW p, NEW t, Fields \subseteq DOMAIN p
    PROVE  Alike(p, Carried(p, t)) /\ Carried(p, t).answered = p.answered
BY DEF Carried, Alike, Fields, Stopped, Paused

----
(* What keeps the invariant. *)

LEMMA GrownQueues ==
    ASSUME NEW p, NEW q, Good(p), Grows(p, q)
    PROVE  Good(q) /\ Later(p, q) /\ JobsBehind(p, q) /\ TcpBehind(p, q) /\ CtxBehind(p, q)
  <1>1. Good(q) /\ Later(p, q)  BY DEF Grows, Lives, Good, Later
  <1>2. /\ Len(p.jobs) \in Nat /\ Len(q.jobs) \in Nat
        /\ Len(p.tcpJobs) \in Nat /\ Len(q.tcpJobs) \in Nat
        /\ Len(p.ctxJobs) \in Nat /\ Len(q.ctxJobs) \in Nat
    BY <1>1, QueueFacts DEF Good
  <1>3. JobsGrow(p, q) /\ TcpGrow(p, q) /\ CtxGrow(p, q)  BY DEF Grows, Lives
  <1>4. JobsBehind(p, q)  BY <1>2, <1>3 DEF JobsGrow, Extended, JobsBehind
  <1>5. TcpBehind(p, q)  BY <1>2, <1>3 DEF TcpGrow, Extended, TcpBehind
  <1>6. CtxBehind(p, q)  BY <1>2, <1>3 DEF CtxGrow, Extended, CtxBehind
  <1> QED BY <1>1, <1>4, <1>5, <1>6

LEMMA CoreGrows ==
    ASSUME NEW p, NEW q, NEW n, NEW m, Core(p, n), Grows(p, q), NetGrows(n, m, p, q)
    PROVE  Core(q, m) /\ (RemovalQueued(p) => RemovalQueued(q))
  <1>1. Good(q) /\ Later(p, q) /\ JobsBehind(p, q) /\ TcpBehind(p, q) /\ CtxBehind(p, q)
    BY GrownQueues DEF Core
  <1>2. Bounds(q, m)
    <2>1. q.transport \in 0..q.created  BY <1>1 DEF Grows, Core, Bounds, Later
    <2>2. DOMAIN m \subseteq 1..q.created
      BY <1>1 DEF NetGrows, Core, Bounds, Later
    <2>3. ASSUME NEW i \in 1..Len(q.jobs), q.jobs[i].op = "ready"
          PROVE  q.jobs[i].t \in 1..q.created
      <3>1. i \in 1..Len(p.jobs) /\ p.jobs[i] = q.jobs[i]
        BY <1>1, <2>3 DEF JobsBehind
      <3>2. q.jobs[i].t \in 1..p.created  BY <2>3, <3>1 DEF Core, Bounds
      <3> QED BY <1>1, <3>2 DEF Later
    <2>4. ASSUME NEW i \in 1..Len(q.tcpJobs), q.tcpJobs[i].op \in {"needs", "flush"}
          PROVE  q.tcpJobs[i].t \in 1..q.created
      <3>1. i \in 1..Len(p.tcpJobs) /\ p.tcpJobs[i] = q.tcpJobs[i]
        BY <1>1, <2>4 DEF TcpBehind
      <3>2. q.tcpJobs[i].t \in 1..p.created  BY <2>4, <3>1 DEF Core, Bounds
      <3> QED BY <1>1, <3>2 DEF Later
    <2> QED BY <2>1, <2>2, <2>3, <2>4 DEF Bounds
  <1>3. RemovalComesFirst(q) /\ (RemovalQueued(p) => RemovalQueued(q))
    <2>1. q.registered = p.registered /\ Stopped(q) = Stopped(p)
      BY DEF Grows, Lives
    <2>2. ASSUME NEW i \in 1..Len(q.jobs), q.jobs[i].op = "stop", q.registered
          PROVE  \E j \in 1..(i - 1) : q.jobs[j].op = "removeService"
      <3>1. i \in 1..Len(p.jobs) /\ p.jobs[i].op = "stop"
        BY <1>1, <2>2 DEF JobsBehind
      <3>2. PICK j \in 1..(i - 1) : p.jobs[j].op = "removeService"
        BY <2>1, <2>2, <3>1 DEF Core, RemovalComesFirst
      <3>3. j \in 1..Len(p.jobs)  BY <1>1, <3>1 DEF JobsBehind
      <3> QED BY <1>1, <3>2, <3>3 DEF JobsBehind
    <2>3. RemovalQueued(p) => RemovalQueued(q)
      BY <1>1, <2>1 DEF RemovalQueued, JobsBehind
    <2> QED BY <2>1, <2>2, <2>3 DEF Core, RemovalComesFirst
  <1>4. KeyComesFirst(q)
    <2>1. q.key = 0 => q.transport = 0  BY DEF Grows, Lives, Core, KeyComesFirst
    <2>2. ASSUME NEW i \in 1..Len(q.ctxJobs)
          PROVE  q.ctxJobs[i] # 0
      BY <1>1, <2>2 DEF CtxBehind, Core, KeyComesFirst
    <2>3. ASSUME NEW i \in 1..Len(q.jobs), q.jobs[i].op = "authInfo"
          PROVE  q.jobs[i].info # 0
      BY <1>1, <2>3 DEF JobsBehind, Core, KeyComesFirst
    <2>4. ASSUME q.key # 0, q.authInfo = 0, ~q.missed
          PROVE  \E i \in 1..Len(q.jobs) :
                    /\ q.jobs[i].op = "authInfo"
                    /\ \A j \in 1..(i - 1) : q.jobs[j].op = "ready" => q.jobs[j].t # q.transport
      <3>1. p.key # 0 /\ p.authInfo = 0 /\ ~p.missed  BY <2>4 DEF Grows, Lives
      <3>2. PICK i \in 1..Len(p.jobs) :
                /\ p.jobs[i].op = "authInfo"
                /\ \A j \in 1..(i - 1) : p.jobs[j].op = "ready" => p.jobs[j].t # p.transport
        BY <3>1 DEF Core, KeyComesFirst
      <3>3. i \in 1..Len(q.jobs) /\ q.jobs[i].op = "authInfo"
        BY <1>1, <3>2 DEF JobsBehind
      <3>4. ASSUME NEW j \in 1..(i - 1), q.jobs[j].op = "ready"
            PROVE  q.jobs[j].t # q.transport
        <4>1. j \in 1..Len(p.jobs) /\ p.jobs[j] = q.jobs[j]
          BY <1>1, <3>2 DEF JobsBehind
        <4>2. p.jobs[j].t # p.transport /\ p.jobs[j].t \in 1..p.created
          BY <3>2, <3>4, <4>1 DEF Core, Bounds
        <4> QED BY <1>1, <4>1, <4>2 DEF Grows, Later
      <3> QED BY <3>3, <3>4
    <2> QED BY <2>1, <2>2, <2>3, <2>4 DEF KeyComesFirst
  <1> QED BY <1>1, <1>2, <1>3, <1>4 DEF Core

LEMMA SoundGrows ==
    ASSUME NEW p, NEW q, NEW n, NEW m, Sound(p, n), Grows(p, q), NetGrows(n, m, p, q)
    PROVE  Sound(q, m) /\ (RemovalQueued(p) => RemovalQueued(q))
  <1>1. Core(q, m) /\ (RemovalQueued(p) => RemovalQueued(q))
    BY CoreGrows DEF Sound
  <1>2. Stopped(q) => q.transport = 0  BY DEF Sound, Grows, Lives
  <1>3. ASSUME Paused(q), q.transport # 0
        PROVE  /\ \A i \in 1..Len(q.jobs) : q.jobs[i].op = "ready" => q.jobs[i].t # q.transport
               /\ \A i \in 1..Len(q.tcpJobs) :
                     q.tcpJobs[i].op \in {"needs", "flush"} => q.tcpJobs[i].t # q.transport
               /\ q.transport \in DOMAIN m => m[q.transport].conn = "none"
    <2>1. Later(p, q) /\ JobsBehind(p, q) /\ TcpBehind(p, q)
      BY GrownQueues DEF Sound, Core
    <2>2. Paused(p)  BY <1>3 DEF Grows, Lives
    <2>3. \/ q.transport = p.transport
          \/ q.transport \in (p.created + 1)..q.created
      BY <1>3 DEF Grows
    <2>4. ASSUME NEW i \in 1..Len(q.jobs), q.jobs[i].op = "ready"
          PROVE  q.jobs[i].t # q.transport
      <3>1. i \in 1..Len(p.jobs) /\ p.jobs[i] = q.jobs[i]
        BY <2>1, <2>4 DEF JobsBehind
      <3>2. q.jobs[i].t \in 1..p.created  BY <2>4, <3>1 DEF Sound, Core, Bounds
      <3>3. p.transport # 0 => q.jobs[i].t # p.transport
        BY <2>2, <2>4, <3>1 DEF Sound, Resting
      <3> QED BY <1>3, <2>1, <2>3, <3>2, <3>3 DEF Later
    <2>5. ASSUME NEW i \in 1..Len(q.tcpJobs), q.tcpJobs[i].op \in {"needs", "flush"}
          PROVE  q.tcpJobs[i].t # q.transport
      <3>1. i \in 1..Len(p.tcpJobs) /\ p.tcpJobs[i] = q.tcpJobs[i]
        BY <2>1, <2>5 DEF TcpBehind
      <3>2. q.tcpJobs[i].t \in 1..p.created
        BY <2>5, <3>1 DEF Sound, Core, Bounds
      <3>3. p.transport # 0 => q.tcpJobs[i].t # p.transport
        BY <2>2, <2>5, <3>1 DEF Sound, Resting
      <3> QED BY <1>3, <2>1, <2>3, <3>2, <3>3 DEF Later
    <2>6. ASSUME q.transport \in DOMAIN m
          PROVE  m[q.transport].conn = "none"
      BY <1>3, <2>1, <2>2, <2>3, <2>6 DEF Sound, Resting, NetGrows, Core, Bounds,
         Later
    <2> QED BY <2>4, <2>5, <2>6
  <1> QED BY <1>1, <1>2, <1>3 DEF Sound, Resting

----
(* The head of Proto's queue is taken, or another job is put in its place. *)

LEMMA TakenLengths ==
    ASSUME NEW p, NEW b, Good(p), Taken(p, b)
    PROVE  Len(p.jobs) \in Nat /\ Len(p.jobs) >= 1 /\ Len(b.jobs) \in Nat
BY QueueFacts, TailFacts DEF Taken, Good

\* every job of b but that one was a job of p
LEMMA TakenJob ==
    ASSUME NEW p, NEW b, Good(p), Taken(p, b),
           NEW i \in 1..Len(b.jobs), b.jobs[i].op # "messages"
    PROVE  \E k \in 1..Len(p.jobs) : b.jobs[i] = p.jobs[k]
BY TakenLengths DEF Taken, Shifted

LEMMA TakenCore ==
    ASSUME NEW p, NEW b, NEW n, Core(p, n), Taken(p, b)
    PROVE  Core(b, n) /\ (RemovalQueued(p) => RemovalQueued(b))
  <1>1. /\ Good(p) /\ Good(b)
        /\ Len(p.jobs) \in Nat /\ Len(p.jobs) >= 1 /\ Len(b.jobs) \in Nat
    BY TakenLengths DEF Core, Taken
  <1>2. PICK d \in {0, 1} : Shifted(p, b, d)  BY DEF Taken
  <1>3. Bounds(b, n)
    <2>1. ASSUME NEW i \in 1..Len(b.jobs), b.jobs[i].op = "ready"
          PROVE  b.jobs[i].t \in 1..b.created
      <3>1. PICK k \in 1..Len(p.jobs) : b.jobs[i] = p.jobs[k]
        BY <1>1, <2>1, TakenJob
      <3> QED BY <2>1, <3>1 DEF Core, Bounds, Taken
    <2> QED BY <2>1 DEF Core, Bounds, Taken
  <1>4. RemovalQueued(p) => RemovalQueued(b)
    <2>1. SUFFICES ASSUME b.registered, RemovalQueued(p)
                   PROVE  \E j \in 1..Len(b.jobs) : b.jobs[j].op = "removeService"
      BY DEF RemovalQueued
    <2>2. p.registered /\ p.jobs[1].op # "removeService"  BY <2>1 DEF Taken
    <2>3. PICK k \in 1..Len(p.jobs) : p.jobs[k].op = "removeService"
      BY <2>1, <2>2 DEF RemovalQueued
    <2>4. k - d \in 1..Len(b.jobs) /\ (k - d) + d = k /\ k # 1
      BY <1>1, <1>2, <2>2, <2>3 DEF Shifted
    <2>5. b.jobs[k - d] = p.jobs[k]  BY <1>2, <2>4 DEF Shifted
    <2> QED BY <2>3, <2>4, <2>5
  <1>5. RemovalComesFirst(b)
    <2>1. Stopped(b) => ~b.registered
      BY <1>1 DEF Taken, Core, RemovalComesFirst
    <2>2. ASSUME NEW i \in 1..Len(b.jobs), b.jobs[i].op = "stop", b.registered
          PROVE  \E j \in 1..(i - 1) : b.jobs[j].op = "removeService"
      <3>1. p.registered /\ p.jobs[1].op # "removeService"  BY <2>2 DEF Taken
      <3>2. i + d \in 1..Len(p.jobs) /\ i + d # 1
        BY <1>1, <1>2, <2>2 DEF Shifted
      <3>3. p.jobs[i + d].op = "stop"  BY <1>2, <2>2, <3>2 DEF Shifted
      <3>4. PICK l \in 1..((i + d) - 1) : p.jobs[l].op = "removeService"
        BY <3>1, <3>2, <3>3 DEF Core, RemovalComesFirst
      <3>5. l # 1 /\ l - d \in 1..(i - 1) /\ l - d \in 1..Len(b.jobs) /\ (l - d) + d = l
        BY <1>1, <1>2, <3>1, <3>4
      <3>6. b.jobs[l - d] = p.jobs[l]  BY <1>2, <3>5 DEF Shifted
      <3> QED BY <3>4, <3>5, <3>6
    <2> QED BY <2>1, <2>2 DEF RemovalComesFirst
  <1>6. KeyComesFirst(b)
    <2>1. /\ b.key = 0 => b.transport = 0
          /\ \A i \in 1..Len(b.ctxJobs) : b.ctxJobs[i] # 0
      BY DEF Core, KeyComesFirst, Taken
    <2>2. ASSUME NEW i \in 1..Len(b.jobs), b.jobs[i].op = "authInfo"
          PROVE  b.jobs[i].info # 0
      BY <1>1, <2>2, TakenJob DEF Core, KeyComesFirst
    <2>3. ASSUME b.key # 0, b.authInfo = 0, ~b.missed
          PROVE  \E i \in 1..Len(b.jobs) :
                    /\ b.jobs[i].op = "authInfo"
                    /\ \A j \in 1..(i - 1) : b.jobs[j].op = "ready" => b.jobs[j].t # b.transport
      <3>1. p.key # 0 /\ p.authInfo = 0 /\ ~p.missed /\ p.jobs[1].op # "authInfo"
        BY <2>3 DEF Taken
      <3>2. PICK k \in 1..Len(p.jobs) :
                /\ p.jobs[k].op = "authInfo"
                /\ \A j \in 1..(k - 1) : p.jobs[j].op = "ready" => p.jobs[j].t # p.transport
        BY <3>1 DEF Core, KeyComesFirst
      <3>3. k - d \in 1..Len(b.jobs) /\ (k - d) + d = k /\ k # 1
        BY <1>1, <1>2, <3>1, <3>2 DEF Shifted
      <3>4. b.jobs[k - d] = p.jobs[k]  BY <1>2, <3>3 DEF Shifted
      <3>5. ASSUME NEW j \in 1..((k - d) - 1), b.jobs[j].op = "ready"
            PROVE  b.jobs[j].t # b.transport
        <4>1. j \in 1..Len(b.jobs) /\ j + d \in 1..(k - 1)  BY <1>1, <3>3
        <4>2. d = 0 => j # 1  BY <1>2, <3>5 DEF Shifted
        <4>3. b.jobs[j] = p.jobs[j + d]  BY <1>2, <4>1, <4>2 DEF Shifted
        <4> QED BY <3>2, <3>5, <4>1, <4>3 DEF Taken
      <3> QED BY <3>2, <3>3, <3>4, <3>5
    <2> QED BY <2>1, <2>2, <2>3 DEF KeyComesFirst
  <1> QED BY <1>1, <1>3, <1>4, <1>5, <1>6 DEF Core

LEMMA TakenSound ==
    ASSUME NEW p, NEW b, NEW n, Sound(p, n), Taken(p, b),
           Stopped(b) => Stopped(p), Paused(b) => Paused(p)
    PROVE  Sound(b, n) /\ (RemovalQueued(p) => RemovalQueued(b))
  <1>1. Core(b, n) /\ (RemovalQueued(p) => RemovalQueued(b))
    BY TakenCore DEF Sound
  <1>2. \A i \in 1..Len(b.jobs) :
           b.jobs[i].op # "messages" => \E k \in 1..Len(p.jobs) : b.jobs[i] = p.jobs[k]
    BY TakenJob DEF Sound, Core
  <1>3. Resting(b, n)  BY <1>2 DEF Sound, Resting, Taken
  <1> QED BY <1>1, <1>3 DEF Sound, Taken

----
(* Steps beside Proto's queue: jobs are posted to it, or a job of another *)
(* queue is run. *)

LEMMA BesideSound ==
    ASSUME NEW p, NEW q, NEW n, NEW m, Sound(p, n), SameBut(p, q), q.ctxJobs = p.ctxJobs,
           JobsPosted(p, q.jobs), TcpLeft(p, q.tcpJobs), NetKept(p, m)
    PROVE  Sound(q, m) /\ (RemovalQueued(p) => RemovalQueued(q))
  <1>1. Good(q)
    BY DEF Good, Sound, Core, SameBut, IsCounter, JobsPosted, Extended, TcpLeft
  <1>2. /\ Len(p.jobs) \in Nat /\ Len(q.jobs) \in Nat /\ Len(p.jobs) <= Len(q.jobs)
        /\ \A i \in 1..Len(p.jobs) : q.jobs[i] = p.jobs[i]
        /\ \A i \in 1..Len(q.jobs) : i <= Len(p.jobs) \/ Harmless(p, q.jobs[i])
    BY <1>1, QueueFacts DEF Good, Sound, Core, JobsPosted, Extended
  <1>3. Stopped(q) = Stopped(p) /\ Paused(q) = Paused(p)
    BY DEF SameBut, Stopped, Paused
  <1>4. Bounds(q, m)
    BY <1>2 DEF Sound, Core, Bounds, SameBut, Harmless, TcpLeft, NetKept
  <1>5. RemovalQueued(p) => RemovalQueued(q)  BY <1>2 DEF RemovalQueued, SameBut
  <1>6. RemovalComesFirst(q)
    <2>1. Stopped(q) => ~q.registered
      BY <1>3 DEF Sound, Core, RemovalComesFirst, SameBut
    <2>2. ASSUME NEW i \in 1..Len(q.jobs), q.jobs[i].op = "stop", q.registered
          PROVE  \E j \in 1..(i - 1) : q.jobs[j].op = "removeService"
      <3>1. CASE i <= Len(p.jobs)
        <4>1. PICK j \in 1..(i - 1) : p.jobs[j].op = "removeService"
          BY <1>2, <2>2, <3>1 DEF Sound, Core, RemovalComesFirst, SameBut
        <4> QED BY <1>2, <3>1, <4>1
      <3>2. CASE ~(i <= Len(p.jobs))
        BY <1>2, <2>2, <3>2 DEF Harmless, RemovalQueued, SameBut
      <3> QED BY <3>1, <3>2
    <2> QED BY <2>1, <2>2 DEF RemovalComesFirst
  <1>7. KeyComesFirst(q)
    <2>1. ASSUME NEW i \in 1..Len(q.jobs), q.jobs[i].op = "authInfo"
          PROVE  q.jobs[i].info # 0
      BY <1>2, <2>1 DEF Sound, Core, KeyComesFirst, Harmless
    <2>2. ASSUME q.key # 0, q.authInfo = 0, ~q.missed
          PROVE  \E i \in 1..Len(q.jobs) :
                    /\ q.jobs[i].op = "authInfo"
                    /\ \A j \in 1..(i - 1) : q.jobs[j].op = "ready" => q.jobs[j].t # q.transport
      <3>1. PICK i \in 1..Len(p.jobs) :
                /\ p.jobs[i].op = "authInfo"
                /\ \A j \in 1..(i - 1) : p.jobs[j].op = "ready" => p.jobs[j].t # p.transport
        BY <2>2 DEF Sound, Core, KeyComesFirst, SameBut
      <3>2. i \in 1..Len(q.jobs) /\ q.jobs[i].op = "authInfo"  BY <1>2, <3>1
      <3>3. ASSUME NEW j \in 1..(i - 1), q.jobs[j].op = "ready"
            PROVE  q.jobs[j].t # q.transport
        BY <1>2, <3>1, <3>3 DEF SameBut
      <3> QED BY <3>2, <3>3
    <2> QED BY <2>1, <2>2 DEF KeyComesFirst, Sound, Core, SameBut
  <1>8. ASSUME Paused(q), q.transport # 0
        PROVE  /\ \A i \in 1..Len(q.jobs) : q.jobs[i].op = "ready" => q.jobs[i].t # q.transport
               /\ \A i \in 1..Len(q.tcpJobs) :
                     q.tcpJobs[i].op \in {"needs", "flush"} => q.tcpJobs[i].t # q.transport
               /\ q.transport \in DOMAIN m => m[q.transport].conn = "none"
    BY <1>2, <1>3, <1>8 DEF Sound, Resting, SameBut, Harmless, TcpLeft, NetKept
  <1>9. Stopped(q) => q.transport = 0  BY <1>3 DEF Sound, SameBut
  <1> QED BY <1>1, <1>4, <1>5, <1>6, <1>7, <1>8, <1>9 DEF Sound, Core, Resting

\* posting one job, or what a transport tells in one go
LEMMA OnePosted ==
    ASSUME NEW p, NEW job, IsQueue(p.jobs), Harmless(p, job)
    PROVE  JobsPosted(p, Append(p.jobs, job))
BY AppendFacts, QueueFacts DEF JobsPosted, Extended

LEMMA SomePosted ==
    ASSUME NEW p, NEW jobs, IsQueue(p.jobs), IsQueue(jobs),
           \A i \in 1..Len(jobs) : Harmless(p, jobs[i])
    PROVE  JobsPosted(p, p.jobs \o jobs)
BY QueueFacts, JoinFacts DEF Extended, JobsPosted

LEMMA NonePosted ==
    ASSUME NEW p, IsQueue(p.jobs)
    PROVE  JobsPosted(p, p.jobs)
BY QueueFacts DEF JobsPosted, Extended

\* what the invariant says of the other queue and of the transports
LEMMA TcpIsLeft ==
    ASSUME NEW p, NEW n, Sound(p, n)
    PROVE  /\ TcpLeft(p, p.tcpJobs)
           /\ NetKept(p, n)
           /\ p.tcpJobs # <<>> => TcpLeft(p, Tail(p.tcpJobs))
BY QueueFacts, TailFacts DEF Sound, Core, Good, TcpLeft, NetKept, Bounds, Resting

LEMMA BesideKept ==
    ASSUME IInv, SameBut(proto, proto'), proto'.ctxJobs = proto.ctxJobs,
           JobsPosted(proto, proto'.jobs), TcpLeft(proto, proto'.tcpJobs),
           NetKept(proto, net'), Known', NothingNew,
           client'.stopping = "removed" => client.stopping = "removed" \/ RemovalQueued(proto')
    PROVE  Kept
BY BesideSound DEF IInv, Quiet, NothingNew, Final, SameBut, Stopped, Kept

LEMMA ProtoQueues ==
    ASSUME IInv
    PROVE  /\ Good(proto)
           /\ IsQueue(proto.jobs) /\ IsQueue(proto.tcpJobs) /\ IsQueue(proto.ctxJobs)
BY DEF IInv, Sound, Core, Good

LEMMA PostKept ==
    ASSUME IInv, NEW job, Post(job), Harmless(proto, job), "stopping" \in DOMAIN client',
           client'.stopping = "removed" => client.stopping = "removed" \/ job.op = "removeService"
    PROVE  Kept
  <1>1. /\ SameBut(proto, proto') /\ proto'.ctxJobs = proto.ctxJobs
        /\ proto'.tcpJobs = proto.tcpJobs
        /\ proto'.jobs = Append(proto.jobs, job)
    BY ProtoQueues DEF Post, Posted, SameBut, Good, Fields
  <1>2. JobsPosted(proto, proto'.jobs)  BY <1>1, ProtoQueues, OnePosted
  <1>3. TcpLeft(proto, proto'.tcpJobs) /\ NetKept(proto, net')
    BY <1>1, TcpIsLeft DEF IInv, Post
  <1>4. Known' /\ NothingNew  BY DEF IInv, Known, NothingNew, Post
  <1>5. job.op = "removeService" => RemovalQueued(proto')
    <2>1. Len(proto.jobs) \in Nat  BY ProtoQueues, QueueFacts
    <2> QED BY <1>1, <2>1, ProtoQueues, AppendFacts DEF RemovalQueued
  <1> QED BY <1>1, <1>2, <1>3, <1>4, <1>5, BesideKept

LEMMA UserKeeps ==
    ASSUME IInv, User
    PROVE  Kept
BY PostKept DEF Send, Harmless, IInv, Known, Cancel, Pause, Resume, Stop, User

\* Context's queue: a key that Context has is on its way to Proto
LEMMA ContextKeeps ==
    ASSUME IInv, ContextStep
    PROVE  Kept
  <1> DEFINE job == [op |-> "authInfo", info |-> Head(proto.ctxJobs)]
             r == Posted(job)
  <1>1. /\ Fields \subseteq DOMAIN proto' /\ proto'.jobs = Append(proto.jobs, job)
        /\ proto'.ctxJobs = Tail(proto.ctxJobs) /\ proto'.key = Head(proto.ctxJobs)
        /\ proto'.tcpJobs = proto.tcpJobs /\ proto'.state = proto.state
        /\ proto'.transport = proto.transport /\ proto'.created = proto.created
        /\ proto'.registered = proto.registered /\ proto'.missed = proto.missed /\ proto'.authInfo = proto.authInfo
        /\ proto'.infos = proto.infos /\ proto'.answered = proto.answered
    BY ProtoQueues DEF ContextStep, Posted, Good, Fields
  <1>2. Head(proto.ctxJobs) = proto.ctxJobs[1] /\ Len(proto.ctxJobs) \in Nat /\ Len(proto.ctxJobs) >= 1
    BY ProtoQueues, TailFacts, QueueFacts DEF ContextStep
  <1>3. Head(proto.ctxJobs) # 0  BY <1>2 DEF IInv, Sound, Core, KeyComesFirst
  <1>4. /\ SameBut(proto, r) /\ r.ctxJobs = proto.ctxJobs /\ r.tcpJobs = proto.tcpJobs
        /\ r.jobs = Append(proto.jobs, job)
    BY ProtoQueues DEF Posted, SameBut, Good, Fields
  <1>5. JobsPosted(proto, r.jobs)
    BY <1>3, <1>4, ProtoQueues, OnePosted DEF Harmless
  <1>6. Sound(r, net) /\ (RemovalQueued(proto) => RemovalQueued(r))
    BY <1>4, <1>5, BesideSound, TcpIsLeft DEF IInv
  <1>7. Stopped(proto') = Stopped(r) /\ Paused(proto') = Paused(r) /\ Stopped(r) = Stopped(proto)
    BY <1>1, <1>4 DEF SameBut, Stopped, Paused
  <1>8. KeyComesFirst(proto')
    <2>1. \A i \in 1..Len(proto'.ctxJobs) : proto'.ctxJobs[i] # 0
      <3>1. Len(Tail(proto.ctxJobs)) = Len(proto.ctxJobs) - 1
        BY ProtoQueues, TailFacts DEF ContextStep
      <3>2. \A i \in 1..(Len(proto.ctxJobs) - 1) : Tail(proto.ctxJobs)[i] = proto.ctxJobs[i + 1]
        BY ProtoQueues, TailFacts DEF ContextStep
      <3>3. \A i \in 1..(Len(proto.ctxJobs) - 1) : i + 1 \in 1..Len(proto.ctxJobs)
        BY <1>2
      <3> QED BY <1>1, <3>1, <3>2, <3>3 DEF IInv, Sound, Core, KeyComesFirst
    <2>2. \A i \in 1..Len(proto'.jobs) : proto'.jobs[i].op = "authInfo" => proto'.jobs[i].info # 0
      BY <1>1, <1>4, <1>6 DEF Sound, Core, KeyComesFirst
    <2>3. ASSUME proto'.authInfo = 0, ~proto'.missed
          PROVE  \E i \in 1..Len(proto'.jobs) :
                    /\ proto'.jobs[i].op = "authInfo"
                    /\ \A j \in 1..(i - 1) :
                          proto'.jobs[j].op = "ready" => proto'.jobs[j].t # proto'.transport
      <3>1. CASE proto.key # 0
        <4>1. r.key = proto.key /\ ~r.missed /\ r.authInfo = 0 /\ r.transport = proto.transport
          BY <1>1, <1>4, <2>3 DEF SameBut
        <4>2. KeyComesFirst(r) /\ r.jobs = proto'.jobs
          BY <1>1, <1>4, <1>6 DEF Sound, Core
        <4> HIDE DEF r
        <4> QED BY <1>1, <3>1, <4>1, <4>2 DEF KeyComesFirst
      <3>2. CASE proto.key = 0
        <4>1. proto.transport = 0  BY <3>2 DEF IInv, Sound, Core, KeyComesFirst
        <4>2. /\ Len(proto.jobs) \in Nat /\ Len(proto'.jobs) = Len(proto.jobs) + 1
              /\ proto'.jobs[Len(proto.jobs) + 1] = job
          BY <1>1, ProtoQueues, QueueFacts, AppendFacts
        <4>3. ASSUME NEW j \in 1..Len(proto.jobs), proto'.jobs[j].op = "ready"
              PROVE  proto'.jobs[j].t # 0
          <5>1. j \in 1..Len(r.jobs) /\ r.jobs[j].op = "ready" /\ r.created \in Nat
            BY <1>1, <1>4, <4>2, <4>3, ProtoQueues DEF SameBut, Good
          <5>2. r.jobs[j].t \in 1..r.created
            BY <1>6, <5>1 DEF Sound, Core, Bounds
          <5>3. r.jobs[j].t # 0  BY <5>1, <5>2
          <5> QED BY <1>1, <1>4, <5>3
        <4> QED BY <1>1, <4>1, <4>2, <4>3
      <3> QED BY <3>1, <3>2
    <2> QED BY <1>1, <1>3, <2>1, <2>2, <2>3 DEF KeyComesFirst
  <1>9. Sound(proto', net)
    <2>1. Good(proto')
      BY <1>1, <1>4, <1>6, ProtoQueues, TailFacts DEF Sound, Core, Good, IsCounter, ContextStep
    <2>2. /\ proto'.jobs = r.jobs /\ proto'.tcpJobs = r.tcpJobs /\ proto'.registered = r.registered
          /\ proto'.transport = r.transport /\ proto'.created = r.created
      BY <1>1, <1>4 DEF SameBut
    <2> HIDE DEF r
    <2>3. Bounds(proto', net) /\ RemovalComesFirst(proto')
      BY <1>6, <1>7, <2>2 DEF Sound, Core, Bounds, RemovalComesFirst
    <2>4. Resting(proto', net) /\ (Stopped(proto') => proto'.transport = 0)
      BY <1>6, <1>7, <2>2 DEF Sound, Resting
    <2> QED BY <1>8, <2>1, <2>3, <2>4 DEF Sound, Core
  <1>10. RemovalQueued(r) => RemovalQueued(proto')
    BY <1>1, <1>4 DEF RemovalQueued, SameBut
  <1>11. net' = net /\ wire' = wire /\ client' = client  BY DEF ContextStep
  <1>12. IInv'  BY <1>6, <1>9, <1>10, <1>11 DEF IInv, Known
  <1>13. Quiet /\ Final  BY <1>1, <1>4, <1>7, <1>11 DEF Quiet, Final
  <1> QED BY <1>12, <1>13 DEF Kept

LEMMA AuthCompletedKeeps ==
    ASSUME IInv, AuthCompleted
    PROVE  Kept
  <1>1. /\ Fields \subseteq DOMAIN proto' /\ proto'.jobs = proto.jobs
        /\ proto'.ctxJobs = Append(proto.ctxJobs, 1) /\ proto'.key = proto.key
        /\ proto'.tcpJobs = proto.tcpJobs /\ proto'.state = proto.state
        /\ proto'.transport = proto.transport /\ proto'.created = proto.created
        /\ proto'.registered = proto.registered /\ proto'.missed = proto.missed /\ proto'.authInfo = proto.authInfo
        /\ proto'.infos = 1 /\ proto'.answered = proto.answered
    BY ProtoQueues DEF AuthCompleted, Good, Fields
  <1>2. Stopped(proto') = Stopped(proto) /\ Paused(proto') = Paused(proto)
    BY <1>1 DEF Stopped, Paused
  <1>3. \A i \in 1..Len(proto'.ctxJobs) : proto'.ctxJobs[i] # 0
    BY <1>1, ProtoQueues, QueueFacts, AppendFacts DEF IInv, Sound, Core, KeyComesFirst
  <1>4. Good(proto')  BY <1>1, ProtoQueues, AppendFacts DEF Good, IsCounter
  <1>5. Bounds(proto', net) /\ RemovalComesFirst(proto') /\ KeyComesFirst(proto')
    BY <1>1, <1>2, <1>3 DEF IInv, Sound, Core, Bounds, RemovalComesFirst, KeyComesFirst
  <1>6. Resting(proto', net) /\ (Stopped(proto') => proto'.transport = 0)
    BY <1>1, <1>2 DEF IInv, Sound, Resting
  <1>7. RemovalQueued(proto) => RemovalQueued(proto')  BY <1>1 DEF RemovalQueued
  <1> QED BY <1>1, <1>2, <1>4, <1>5, <1>6, <1>7
          DEF Kept, IInv, Sound, Core, Known, Quiet, Final, AuthCompleted

----
(* TcpTransport's queue, the network, the server and the clock. *)

LEMMA TupleFacts ==
    ASSUME NEW x, NEW y
    PROVE  /\ IsQueue(<<x>>) /\ Len(<<x>>) = 1 /\ <<x>>[1] = x
           /\ IsQueue(<<x, y>>) /\ Len(<<x, y>>) = 2
           /\ <<x, y>>[1] = x /\ <<x, y>>[2] = y
  <1>1. <<x>> \in Seq({x}) /\ <<x, y>> \in Seq({x, y})  OBVIOUS
  <1> QED BY <1>1 DEF IsQueue

\* jobs that are no ready, stop or authInfo
LEMMA PlainJobsAreHarmless ==
    ASSUME NEW job, job.op \in {"connState", "txFailed", "incoming", "flush", "messages"}
    PROVE  Harmless(proto, job)
BY DEF Harmless

LEMMA TellNearly ==
    ASSUME IInv, NEW p, Nearly(p), p.jobs = proto.jobs, NEW t, NEW jobs, IsQueue(jobs),
           \A i \in 1..Len(jobs) : Harmless(proto, jobs[i])
    PROVE  Nearly(Tell(p, t, jobs))
  <1> DEFINE q == [p EXCEPT !.jobs = @ \o jobs]
  <1>1. /\ SameBut(proto, q) /\ q.ctxJobs = p.ctxJobs /\ q.tcpJobs = p.tcpJobs
        /\ q.jobs = proto.jobs \o jobs
    BY DEF Nearly, SameBut, Fields
  <1>2. JobsPosted(proto, q.jobs)  BY <1>1, ProtoQueues, SomePosted
  <1> QED BY <1>1, <1>2 DEF Nearly, Tell

LEMMA TellOne ==
    ASSUME IInv, NEW p, Nearly(p), p.jobs = proto.jobs, NEW t, NEW x, Harmless(proto, x)
    PROVE  Nearly(Tell(p, t, <<x>>))
  <1>1. IsQueue(<<x>>) /\ Len(<<x>>) = 1 /\ <<x>>[1] = x  BY TupleFacts
  <1>2. ASSUME NEW i \in 1..Len(<<x>>)
        PROVE  Harmless(proto, <<x>>[i])
    BY <1>1
  <1> QED BY <1>1, <1>2, TellNearly

LEMMA TellTwo ==
    ASSUME IInv, NEW p, Nearly(p), p.jobs = proto.jobs, NEW t,
           NEW x, Harmless(proto, x), NEW y, Harmless(proto, y)
    PROVE  Nearly(Tell(p, t, <<x, y>>))
  <1>1. IsQueue(<<x, y>>) /\ Len(<<x, y>>) = 2 /\ <<x, y>>[1] = x /\ <<x, y>>[2] = y
    BY TupleFacts
  <1>2. ASSUME NEW i \in 1..Len(<<x, y>>)
        PROVE  Harmless(proto, <<x, y>>[i])
    BY <1>1
  <1> QED BY <1>1, <1>2, TellNearly

LEMMA NearlyKept ==
    ASSUME IInv, Nearly(proto'), NetKept(proto, net'), \A t \in DOMAIN net' : "conn" \in DOMAIN net'[t],
           NothingNew, client' = client
    PROVE  Kept
BY BesideKept DEF Nearly, IInv, Known

LEMMA ProtoIsNearly ==
    ASSUME IInv
    PROVE  /\ Nearly(proto)
           /\ NetKept(proto, net)
           /\ proto.tcpJobs # <<>> => Nearly(TcpDequeued) /\ TcpDequeued.jobs = proto.jobs
BY ProtoQueues, TcpIsLeft, NonePosted DEF Nearly, SameBut, IInv, Good, TcpDequeued,
   Fields

\* losing a connection sends nothing
LEMMA SeveredSendsNothing ==
    ASSUME NEW t, Severed(t)
    PROVE  NothingNew
  <1>1. CASE wire' = {s \in wire : s.on # t}  BY <1>1 DEF NothingNew
  <1>2. CASE wire' = {IF s.on = t THEN [s EXCEPT !.on = 0] ELSE s : s \in wire}
    <2>1. ASSUME NEW s \in wire'
          PROVE  \E r \in wire : r.mid = s.mid
      <3>1. PICK r \in wire : s = IF r.on = t THEN [r EXCEPT !.on = 0] ELSE r
        BY <1>2
      <3> QED BY <3>1
    <2> QED BY <2>1 DEF NothingNew
  <1> QED BY <1>1, <1>2 DEF Severed

LEMMA TcpHead ==
    ASSUME IInv, TcpOp # "idle"
    PROVE  /\ proto.tcpJobs # <<>>
           /\ TcpOp \in {"needs", "flush"} =>
                 TcpTarget \in 1..proto.created /\ ~(Paused(proto) /\ TcpTarget = proto.transport)
BY ProtoQueues, TailFacts, QueueFacts, TcpIsLeft DEF TcpOp, IInv, TcpLeft, TcpTarget

LEMMA TcpKeeps ==
    ASSUME IInv, TcpStep
    PROVE  Kept
  <1> USE DEF HasConnection
  <1>1. /\ TcpOp # "idle"
        /\ proto.tcpJobs # <<>>
        /\ TcpOp \in {"needs", "flush"} =>
              TcpTarget \in 1..proto.created /\ ~(Paused(proto) /\ TcpTarget = proto.transport)
    BY TcpHead DEF TcpStep, TcpSkip, TcpUpdate, TcpNeeds, TcpFlush, TcpValid,
       TcpDetach, TcpStop
  <1>2. /\ Nearly(TcpDequeued) /\ TcpDequeued.jobs = proto.jobs
        /\ NetKept(proto, net)
        /\ \A t \in DOMAIN net : "conn" \in DOMAIN net[t]
    BY <1>1, ProtoIsNearly DEF IInv, Known
  <1>3. CASE TcpSkip  BY <1>2, <1>3, NearlyKept DEF TcpSkip, NothingNew
  <1>4. CASE TcpUpdate
    BY <1>2, <1>4, PlainJobsAreHarmless, TellOne, NearlyKept DEF ConnState, TcpUpdate,
       NothingNew
  <1>5. CASE TcpNeeds
    <2>1. Nearly(PostTcp(TcpDequeued, "flush", TcpTarget))
      <3> DEFINE p == TcpDequeued
                 job == [op |-> "flush", t |-> TcpTarget]
                 q == PostTcp(p, "flush", TcpTarget)
      <3>1. Fields \subseteq DOMAIN p /\ IsQueue(p.tcpJobs)
        BY <1>2 DEF Nearly, SameBut, TcpLeft
      <3>2. /\ SameBut(proto, q) /\ q.ctxJobs = p.ctxJobs /\ q.jobs = p.jobs
            /\ q.tcpJobs = Append(p.tcpJobs, job)
        BY <1>2, <3>1 DEF PostTcp, Nearly, SameBut, Fields
      <3>3. TcpLeft(proto, q.tcpJobs)
        <4>1. Len(p.tcpJobs) \in Nat  BY <3>1, QueueFacts
        <4>2. ~(Paused(proto) /\ TcpTarget = proto.transport) /\ TcpTarget \in 1..proto.created
          BY <1>1, <1>5 DEF TcpNeeds
        <4>3. TcpLeft(proto, p.tcpJobs)  BY <1>2 DEF Nearly
        <4> HIDE DEF p, q
        <4> QED BY <3>1, <3>2, <4>1, <4>2, <4>3, AppendFacts DEF TcpLeft
      <3> QED BY <1>2, <3>2, <3>3 DEF Nearly
    <2>2. Nearly(proto')  BY <1>2, <1>5, <2>1 DEF TcpNeeds
    <2>3. NetKept(proto, net') /\ \A t \in DOMAIN net' : "conn" \in DOMAIN net'[t]
      BY <1>1, <1>2, <1>5 DEF TcpNeeds, NetKept
    <2> QED BY <1>5, <2>2, <2>3, NearlyKept DEF TcpNeeds, NothingNew
  <1>6. CASE TcpFlush
    <2>1. Harmless(proto, ReadyJob(TcpTarget))
      BY <1>1, <1>6 DEF TcpFlush, ReadyJob, Harmless
    <2>2. Nearly(Tell(TcpDequeued, TcpTarget, <<ReadyJob(TcpTarget)>>))
      BY <1>2, <2>1, TellOne
    <2>3. Nearly(proto')  BY <1>2, <1>6, <2>2 DEF TcpFlush
    <2>4. NetKept(proto, net') /\ \A t \in DOMAIN net' : "conn" \in DOMAIN net'[t]
      BY <1>1, <1>2, <1>6 DEF TcpFlush, Starting, NetKept
    <2> QED BY <1>6, <2>3, <2>4, NearlyKept DEF TcpFlush, NothingNew
  <1>7. CASE TcpValid
    BY <1>1, <1>2, <1>7, NearlyKept DEF TcpValid, NetKept, NothingNew
  <1>8. CASE TcpDetach
    BY <1>1, <1>2, <1>8, NearlyKept DEF TcpDetach, NetKept, NothingNew
  <1>9. CASE TcpStop
    BY <1>1, <1>2, <1>9, PlainJobsAreHarmless, TellOne, NearlyKept,
       SeveredSendsNothing DEF ConnState, TcpStop, NetKept
  <1> QED BY <1>3, <1>4, <1>5, <1>6, <1>7, <1>8, <1>9 DEF TcpStep

LEMMA NetworkKeeps ==
    ASSUME IInv, Network
    PROVE  Kept
  <1>1. PICK t \in DOMAIN net : ConnectionOpened(t) \/ ConnectionClosed(t) \/ BackoffTimer(t)
    BY DEF Network
  <1>2. /\ Nearly(proto) /\ NetKept(proto, net)
        /\ \A u \in DOMAIN net : "conn" \in DOMAIN net[u]
    BY ProtoIsNearly DEF IInv, Known
  \* a transport that has a connection or waits for one is not at rest
  <1>3. ~(Paused(proto) /\ t = proto.transport)
    BY <1>1, <1>2 DEF NetKept, ConnectionOpened, ConnectionClosed, BackoffTimer, HasConnection
  <1>4. t \in 1..proto.created  BY <1>2 DEF NetKept
  <1>5. NetKept(proto, net') /\ \A u \in DOMAIN net' : "conn" \in DOMAIN net'[u]
    BY <1>1, <1>2, <1>3 DEF NetKept, ConnectionOpened, ConnectionClosed, BackoffTimer,
                            Starting, Reconnecting
  <1>6. CASE ConnectionOpened(t)
    <2> DEFINE ready == [op |-> "ready", t |-> t, ping |-> TRUE]
    <2>1. Harmless(proto, ready) /\ Harmless(proto, ConnState(TRUE))
      BY <1>3, <1>4, PlainJobsAreHarmless DEF Harmless, ConnState
    <2>2. Nearly(Tell(proto, t, <<ConnState(TRUE), ready>>))
      BY <1>2, <2>1, TellTwo
    <2> QED BY <1>5, <1>6, <2>2, NearlyKept DEF ConnectionOpened, NothingNew
  <1>7. CASE ConnectionClosed(t)
    <2> DEFINE failed == [op |-> "txFailed", t |-> t]
    <2>1. Harmless(proto, failed) /\ Harmless(proto, ConnState(FALSE))
      BY PlainJobsAreHarmless DEF ConnState
    <2>2. Nearly(Tell(proto, t, <<ConnState(FALSE), failed>>))
      BY <1>2, <2>1, TellTwo
    <2> QED BY <1>5, <1>7, <2>2, NearlyKept, SeveredSendsNothing DEF ConnectionClosed
  <1>8. CASE BackoffTimer(t)
    BY <1>2, <1>5, <1>8, NearlyKept DEF BackoffTimer, NothingNew
  <1> QED BY <1>1, <1>6, <1>7, <1>8

\* a packet arrives, and some of what was on the wire no longer is
LEMMA PacketKeeps ==
    ASSUME IInv, NEW t, NEW quality, NEW msgs, proto' = Posted(Packet(t, quality, msgs)),
           net' = net, client' = client, wire' \subseteq wire
    PROVE  Kept
  <1> DEFINE job == Packet(t, quality, msgs)
  <1>1. Harmless(proto, job)  BY PlainJobsAreHarmless DEF Packet
  <1>2. /\ SameBut(proto, proto') /\ proto'.ctxJobs = proto.ctxJobs
        /\ proto'.tcpJobs = proto.tcpJobs /\ proto'.jobs = Append(proto.jobs, job)
    BY ProtoQueues DEF Posted, SameBut, Good, Fields
  <1>3. Nearly(proto')
    BY <1>1, <1>2, ProtoQueues, ProtoIsNearly, OnePosted DEF Nearly
  <1> QED BY <1>3, ProtoIsNearly, NearlyKept DEF NothingNew, IInv, Known

LEMMA ServerKeeps ==
    ASSUME IInv, Server
    PROVE  Kept
BY PacketKeeps DEF Answer, ServerSends, ServerGarbles, Server

LEMMA TimeKeeps ==
    ASSUME IInv, SaltsLapse \/ LockExpires \/ UNCHANGED vars
    PROVE  Kept
BY ProtoIsNearly, NearlyKept, ProtoQueues DEF IInv, Known, NothingNew, LockExpires,
   SameBut, Good, Fields, Nearly, SaltsLapse, vars

----
(* The jobs of Proto's queue. *)

\* A job takes the head of the queue, which leaves b, and goes on from there to
\* q.  What it sends, it sends for a client that is neither stopped nor paused.
LEMMA JobSound ==
    ASSUME IInv, NEW b, NEW q, NEW sent, Taken(proto, b), Grows(b, q), Become(q, sent),
           \/ (Stopped(b) => Stopped(proto)) /\ (Paused(b) => Paused(proto))
           \/ q.transport = 0
    PROVE  Sound(q, net') /\ (RemovalQueued(proto) => RemovalQueued(q)) /\ Known'
  <1>1. NetGrows(net, net', b, q)  BY DEF Become, NetGrows, NewTransport, Taken
  <1>2. Core(b, net) /\ (RemovalQueued(proto) => RemovalQueued(b))
    BY TakenCore DEF IInv, Sound
  <1>3. Core(q, net') /\ (RemovalQueued(b) => RemovalQueued(q))
    BY <1>1, <1>2, CoreGrows
  <1>4. CASE (Stopped(b) => Stopped(proto)) /\ (Paused(b) => Paused(proto))
    BY <1>1, <1>2, <1>3, <1>4, TakenSound, SoundGrows DEF IInv, Known, Become,
       NewTransport
  <1>5. CASE q.transport = 0
    BY <1>2, <1>3, <1>5 DEF Sound, Resting, IInv, Known, Become, NewTransport
  <1> QED BY <1>4, <1>5

LEMMA JobKept ==
    ASSUME IInv, NEW b, NEW q, NEW sent, Taken(proto, b), Grows(b, q), Become(q, sent),
           \/ (Stopped(b) => Stopped(proto)) /\ (Paused(b) => Paused(proto))
           \/ q.transport = 0,
           sent = {} \/ ~(Stopped(proto) \/ Paused(proto))
    PROVE  Kept
  <1>1. proto' = q /\ client' = client /\ wire' \subseteq wire \cup sent
    BY DEF Become
  <1>2. Sound(q, net') /\ (RemovalQueued(proto) => RemovalQueued(q)) /\ Known'
    BY JobSound
  <1>3. IInv'  BY <1>1, <1>2 DEF IInv
  <1>4. Quiet  BY <1>1 DEF Quiet
  <1>5. ASSUME Stopped(proto)
        PROVE  Stopped(q) /\ q.answered = proto.answered
    BY <1>5, TakenCore DEF Taken, IInv, Sound, Core, RemovalComesFirst, Grows, Lives
  <1>6. Final  BY <1>1, <1>5 DEF Final
  <1> QED BY <1>3, <1>4, <1>6 DEF Kept

LEMMA LeftIsTaken ==
    ASSUME IInv, proto.jobs # <<>>, NEW b, Left(b),
           Stopped(proto) => Stopped(b),
           Stopped(b) => Stopped(proto) \/ HeadOp = "stop",
           \/ b.registered = proto.registered /\ HeadOp # "removeService"
           \/ ~b.registered,
           \/ b.authInfo = proto.authInfo /\ HeadOp # "authInfo"
           \/ b.authInfo # 0
    PROVE  Taken(proto, b) /\ Good(b)
BY ProtoQueues, TailFacts, QueueFacts DEF Left, Good, IsCounter, Shifted, HeadOp,
   Taken

LEMMA DequeuedIsLeft ==
    ASSUME IInv, proto.jobs # <<>>
    PROVE  /\ Left(Dequeued) /\ Good(Dequeued)
           /\ Dequeued.state = proto.state /\ Dequeued.registered = proto.registered
           /\ Dequeued.authInfo = proto.authInfo
           /\ Stopped(Dequeued) = Stopped(proto) /\ Paused(Dequeued) = Paused(proto)
BY ProtoQueues, TailFacts DEF Dequeued, Left, Good, Fields, IsCounter, Stopped, Paused

\* the jobs that go on from Dequeued
LEMMA PlainJobKept ==
    ASSUME IInv, proto.jobs # <<>>, HeadOp \notin {"removeService", "authInfo"},
           NEW q, NEW sent, Good(Dequeued) => Grows(Dequeued, q), Become(q, sent),
           sent = {} \/ ~(Stopped(proto) \/ Paused(proto))
    PROVE  Kept
BY DequeuedIsLeft, LeftIsTaken, JobKept

LEMMA HeadFacts ==
    ASSUME NEW op, HeadOp = op, op # "idle"
    PROVE  proto.jobs # <<>> /\ TheJob.op = op
BY DEF HeadOp, TheJob

LEMMA CallsKeep ==
    ASSUME IInv, DoAdd \/ DoCancel \/ DoConnState \/ DoTxFailed
    PROVE  Kept
  <1>1. CASE DoAdd
    <2>1. \A p : Good(p) => Grows(p, AddRequest(p, TheJob.r))
      <3>1. SUFFICES ASSUME NEW p, Good(p)
                     PROVE  Grows(p, AddRequest(p, TheJob.r))
        OBVIOUS
      <3> DEFINE q == [p EXCEPT !.requests = @ \cup {TheJob.r}]
      <3>2. Alike(p, q) /\ Answers(p, q)
        BY <3>1 DEF Good, Fields, Alike, Answers, Stopped, Paused
      <3>3. Good(q) => Grows(q, RequestTransactions(q))
        BY RequestTransactionsGrows
      <3> QED BY <3>1, <3>2, <3>3, AlikeThenGrows DEF AddRequest
    <2> QED BY <1>1, <2>1, HeadFacts, PlainJobKept DEF DoAdd, Run
  <1>2. CASE DoCancel
    <2>1. \A p : Good(p) => Grows(p, RemoveRequest(p, TheJob.r))
      <3>1. SUFFICES ASSUME NEW p, Good(p)
                     PROVE  Grows(p, RemoveRequest(p, TheJob.r))
        OBVIOUS
      <3>2. Alike(p, RemoveRequest(p, TheJob.r)) /\ Answers(p, RemoveRequest(p, TheJob.r))
        BY <3>1 DEF RemoveRequest, Good, Fields, Alike, Answers, Stopped, Paused
      <3> QED BY <3>1, <3>2, AlikeGrows
    <2> QED BY <1>2, <2>1, HeadFacts, PlainJobKept DEF DoCancel, Run
  <1>3. CASE DoConnState
    <2> DEFINE told == IF TheJob.up THEN "connected" ELSE "connecting"
    <2>1. \A p : Good(p) => Grows(p, [p EXCEPT !.reported = told])
      <3>1. SUFFICES ASSUME NEW p, Good(p)
                     PROVE  Grows(p, [p EXCEPT !.reported = told])
        OBVIOUS
      <3> DEFINE q == [p EXCEPT !.reported = told]
      <3>2. Alike(p, q) /\ Answers(p, q)
        BY <3>1 DEF Good, Fields, Alike, Answers, Stopped, Paused
      <3> QED BY <3>1, <3>2, AlikeGrows
    <2> QED BY <1>3, <2>1, HeadFacts, PlainJobKept DEF DoConnState, Run
  <1>4. CASE DoTxFailed
    BY <1>4, HeadFacts, PlainJobKept, TransactionsMayHaveFailedGrows DEF DoTxFailed, Run
  <1> QED BY <1>1, <1>2, <1>3, <1>4

LEMMA PauseKeeps ==
    ASSUME IInv, DoPause
    PROVE  Kept
  <1> DEFINE b == [Dequeued EXCEPT !.state = @ \cup {"paused"}]
             q == SetTransport(b, 0)
  <1>1. proto.jobs # <<>> /\ HeadOp = "pause"  BY HeadFacts DEF DoPause
  <1>2. CASE Paused(Dequeued)
    BY <1>1, <1>2, AlikeSelf, PlainJobKept DEF DoPause, Run
  <1>3. CASE ~Paused(Dequeued)
    <2>1. Become(q, {})  BY <1>3 DEF DoPause, Run
    <2>2. /\ Left(b) /\ b.registered = proto.registered /\ b.authInfo = proto.authInfo
          /\ Stopped(b) = Stopped(proto)
      BY <1>1, DequeuedIsLeft DEF Left, Fields, Stopped
    <2>3. Taken(proto, b) /\ Good(b)  BY <1>1, <2>2, LeftIsTaken
    <2>4. Grows(b, q) /\ q.transport = 0  BY <2>3, SetTransportGrows
    <2> HIDE DEF b, q
    <2> QED BY <2>1, <2>3, <2>4, JobKept
  <1> QED BY <1>2, <1>3

LEMMA ResumeKeeps ==
    ASSUME IInv, DoResume
    PROVE  Kept
  <1> DEFINE b == [Dequeued EXCEPT !.state = @ \ {"paused"}]
             q == RequestTransactions(ResetTransport(b))
  <1>1. proto.jobs # <<>> /\ HeadOp = "resume"  BY HeadFacts DEF DoResume
  <1>2. CASE ~Paused(Dequeued)
    BY <1>1, <1>2, AlikeSelf, PlainJobKept DEF DoResume, Run
  <1>3. CASE Paused(Dequeued)
    <2>1. Become(q, {})  BY <1>3 DEF DoResume, Run
    <2>2. /\ Left(b) /\ b.registered = proto.registered /\ b.authInfo = proto.authInfo
          /\ Stopped(b) = Stopped(proto) /\ ~Paused(b)
      BY <1>1, DequeuedIsLeft DEF Left, Fields, Stopped, Paused
    <2>3. Taken(proto, b) /\ Good(b)  BY <1>1, <2>2, LeftIsTaken
    <2> HIDE DEF b
    <2>4. Grows(b, q)
      BY <2>3, ResetTransportGrows, RequestTransactionsGrows, GrowsTwice, GrowsIsGood
    <2> HIDE DEF q
    <2> QED BY <2>1, <2>2, <2>3, <2>4, JobKept
  <1> QED BY <1>2, <1>3

LEMMA StopKeeps ==
    ASSUME IInv, DoStop
    PROVE  Kept
  <1> DEFINE b == [Dequeued EXCEPT !.state = @ \cup {"stopped"}]
             q == DropTransport(b)
  <1>1. proto.jobs # <<>> /\ HeadOp = "stop"  BY HeadFacts DEF DoStop
  <1>2. CASE Stopped(Dequeued)
    BY <1>1, <1>2, AlikeSelf, PlainJobKept DEF DoStop, Run
  <1>3. CASE ~Stopped(Dequeued)
    <2>1. Become(q, {})  BY <1>3 DEF DoStop, Run
    <2>2. Left(b) /\ b.registered = proto.registered /\ b.authInfo = proto.authInfo /\ Stopped(b)
      BY <1>1, DequeuedIsLeft DEF Left, Fields, Stopped
    <2>3. Taken(proto, b) /\ Good(b)  BY <1>1, <2>2, LeftIsTaken
    <2>4. Grows(b, q) /\ q.transport = 0  BY <2>3, DropTransportGrows
    <2> HIDE DEF b, q
    <2> QED BY <2>1, <2>3, <2>4, JobKept
  <1> QED BY <1>2, <1>3

LEMMA RemoveServiceKeeps ==
    ASSUME IInv, DoRemoveService
    PROVE  Kept
  <1> DEFINE b == [Dequeued EXCEPT !.registered = FALSE]
  <1>1. proto.jobs # <<>> /\ HeadOp = "removeService" /\ Become(b, {})
    BY HeadFacts DEF DoRemoveService, Run
  <1>2. /\ Left(b) /\ ~b.registered /\ b.authInfo = proto.authInfo
        /\ Stopped(b) = Stopped(proto) /\ Paused(b) = Paused(proto)
    BY <1>1, DequeuedIsLeft DEF Left, Fields, Stopped, Paused
  <1>3. Taken(proto, b) /\ Good(b)  BY <1>1, <1>2, LeftIsTaken
  <1>4. Grows(b, b)  BY <1>3, AlikeSelf
  <1> HIDE DEF b
  <1> QED BY <1>1, <1>2, <1>3, <1>4, JobKept

LEMMA AuthInfoKeeps ==
    ASSUME IInv, DoAuthInfo
    PROVE  Kept
  <1> DEFINE b == [Dequeued EXCEPT !.authInfo = TheJob.info, !.state = @ \ {"authorization"}]
             q == IF "authorization" \in proto.state THEN RequestTransactions(ResetTransport(b)) ELSE b
  <1>1. proto.jobs # <<>> /\ TheJob.op = "authInfo" /\ HeadOp = "authInfo" /\ Become(q, {})
    BY HeadFacts DEF DoAuthInfo, Run
  <1>2. TheJob.info # 0
    BY <1>1, ProtoQueues, TailFacts, QueueFacts DEF TheJob, IInv, Sound, Core,
       KeyComesFirst
  <1>3. /\ Left(b) /\ b.registered = proto.registered /\ b.authInfo # 0
        /\ Stopped(b) = Stopped(proto) /\ Paused(b) = Paused(proto)
    BY <1>1, <1>2, DequeuedIsLeft DEF Left, Fields, Stopped, Paused
  <1>4. Taken(proto, b) /\ Good(b)  BY <1>1, <1>3, LeftIsTaken
  <1> HIDE DEF b
  <1>5. Grows(b, q)
    BY <1>4, ResetTransportGrows, RequestTransactionsGrows, GrowsTwice, GrowsIsGood, AlikeSelf
  <1> HIDE DEF q
  <1> QED BY <1>1, <1>3, <1>4, <1>5, JobKept

\* a transport that is not to rest is asked to tell when it is ready
LEMMA NeedsKeepsSound ==
    ASSUME NEW p, NEW n, Sound(p, n), ~Paused(p), p.transport # 0
    PROVE  LET q == PostTcp(p, "needs", p.transport)
           IN Sound(q, n) /\ SameBut(p, q) /\ (RemovalQueued(p) => RemovalQueued(q))
  <1> DEFINE job == [op |-> "needs", t |-> p.transport]
             q == PostTcp(p, "needs", p.transport)
  <1>1. IsQueue(p.jobs) /\ IsQueue(p.tcpJobs) /\ Fields \subseteq DOMAIN p
    BY DEF Sound, Core, Good
  <1>2. /\ SameBut(p, q) /\ q.ctxJobs = p.ctxJobs /\ q.jobs = p.jobs
        /\ q.tcpJobs = Append(p.tcpJobs, job)
    BY <1>1 DEF PostTcp, SameBut, Fields
  <1>3. TcpLeft(p, q.tcpJobs)
    <2>1. Len(p.tcpJobs) \in Nat  BY <1>1, QueueFacts
    <2>2. p.transport \in 1..p.created  BY DEF Sound, Core, Good, Bounds
    <2>3. TcpLeft(p, p.tcpJobs)  BY TcpIsLeft
    <2> HIDE DEF q
    <2> QED BY <1>1, <1>2, <2>1, <2>2, <2>3, AppendFacts DEF TcpLeft
  <1> QED BY <1>1, <1>2, <1>3, BesideSound, TcpIsLeft, NonePosted

LEMMA FlushKeeps ==
    ASSUME IInv, DoFlush
    PROVE  Kept
  <1> DEFINE b == [Dequeued EXCEPT !.flushing = FALSE]
             x == IF b.transport = 0 THEN ResetTransport(b) ELSE b
             y == PostTcp(x, "needs", x.transport)
             q == IF Stopped(b) \/ Paused(b) THEN b ELSE IF x.transport = 0 THEN x ELSE y
  <1>1. proto.jobs # <<>> /\ HeadOp = "flush" /\ Become(q, {})
    BY HeadFacts DEF DoFlush, Run
  <1>2. /\ Left(b) /\ b.registered = proto.registered /\ b.authInfo = proto.authInfo
        /\ Stopped(b) = Stopped(proto) /\ Paused(b) = Paused(proto)
    BY <1>1, DequeuedIsLeft DEF Left, Fields, Stopped, Paused
  <1>3. Taken(proto, b) /\ Good(b)  BY <1>1, <1>2, LeftIsTaken
  <1> HIDE DEF b
  <1>4. Grows(b, x) /\ Grows(b, b)  BY <1>3, ResetTransportGrows, AlikeSelf
  <1> HIDE DEF x
  <1>5. CASE Stopped(b) \/ Paused(b) \/ x.transport = 0
    <2>1. Grows(b, q)  BY <1>4, <1>5
    <2> HIDE DEF q
    <2> QED BY <1>1, <1>2, <1>3, <2>1, JobKept
  <1>6. CASE ~Stopped(b) /\ ~Paused(b) /\ x.transport # 0
    <2>1. q = y  BY <1>6
    <2>2. Sound(b, net) /\ (RemovalQueued(proto) => RemovalQueued(b))
      BY <1>2, <1>3, TakenSound DEF IInv
    <2>3. x.created = y.created /\ proto' = y /\ client' = client /\ wire' \subseteq wire
      BY <1>1, <1>4, <2>1 DEF Grows, Lives, Good, Become, PostTcp, Fields
    <2>4. NetGrows(net, net', b, x) /\ \A t \in DOMAIN net' : "conn" \in DOMAIN net'[t]
      BY <1>1, <1>3, <2>1, <2>3 DEF Become, NetGrows, NewTransport, Taken, IInv, Known
    <2>5. Sound(x, net') /\ (RemovalQueued(b) => RemovalQueued(x))
      BY <1>4, <2>2, <2>4, SoundGrows
    <2>6. ~Paused(x)  BY <1>4, <1>6 DEF Grows, Lives
    <2>7. Sound(y, net') /\ (RemovalQueued(x) => RemovalQueued(y))
      BY <1>6, <2>5, <2>6, NeedsKeepsSound
    <2> HIDE DEF y
    <2>8. IInv' /\ Quiet  BY <2>2, <2>3, <2>4, <2>5, <2>7 DEF IInv, Known, Quiet
    <2>9. Final  BY <1>2, <1>6 DEF Final
    <2> QED BY <2>8, <2>9 DEF Kept
  <1> QED BY <1>5, <1>6

\* what is left of a packet takes the place of the head
LEMMA ReplacedIsTaken ==
    ASSUME IInv, proto.jobs # <<>>, HeadOp \in {"incoming", "messages"}, NEW msgs
    PROVE  LET b == [Dequeued EXCEPT !.jobs = <<[op |-> "messages", msgs |-> msgs]>> \o @]
           IN /\ Taken(proto, b) /\ Good(b)
              /\ Stopped(b) = Stopped(proto) /\ Paused(b) = Paused(proto)
  <1> DEFINE job == [op |-> "messages", msgs |-> msgs]
             b == [Dequeued EXCEPT !.jobs = <<job>> \o @]
  <1>1. /\ Fields \subseteq DOMAIN b
        /\ b.jobs = <<job>> \o Tail(proto.jobs)
        /\ b.transport = proto.transport /\ b.created = proto.created /\ b.key = proto.key
        /\ b.tcpJobs = proto.tcpJobs /\ b.ctxJobs = proto.ctxJobs
        /\ b.answered = proto.answered /\ b.infos = proto.infos
        /\ b.registered = proto.registered /\ b.missed = proto.missed /\ b.authInfo = proto.authInfo
        /\ Stopped(b) = Stopped(proto) /\ Paused(b) = Paused(proto)
    BY DequeuedIsLeft DEF Left, Fields, Stopped, Paused
  <1>2. /\ IsQueue(b.jobs) /\ Len(b.jobs) = Len(proto.jobs)
        /\ b.jobs[1] = job
        /\ \A i \in 2..Len(proto.jobs) : b.jobs[i] = proto.jobs[i]
    <2> DEFINE u == <<job>> \o Tail(proto.jobs)
    <2>1. /\ IsQueue(u) /\ Len(u) = Len(proto.jobs)
          /\ u[1] = job
          /\ \A i \in 2..Len(proto.jobs) : u[i] = proto.jobs[i]
      BY ProtoQueues, ReplaceFacts
    <2>2. b.jobs = u  BY <1>1
    <2> HIDE DEF b, u, job
    <2> QED BY <2>1, <2>2
  <1>3. /\ Head(proto.jobs) = proto.jobs[1] /\ Len(proto.jobs) \in Nat /\ Len(proto.jobs) >= 1
        /\ HeadOp = proto.jobs[1].op
    BY ProtoQueues, TailFacts, QueueFacts DEF HeadOp
  <1> HIDE DEF b
  <1>4. Shifted(proto, b, 0)  BY <1>2, <1>3 DEF Shifted
  <1>5. Good(b)  BY <1>1, <1>2, ProtoQueues DEF Good, IsCounter
  <1>6. Taken(proto, b)  BY <1>1, <1>3, <1>4, <1>5 DEF Taken
  <1> QED BY <1>1, <1>5, <1>6 DEF b

LEMMA DecodedGrows ==
    ASSUME NEW p, NEW t, Good(p)
    PROVE  Grows(p, Decoded(p, t))
  <1> DEFINE v == PostTcp(p, "valid", t)
  <1>1. Grows(p, v) /\ Good(v)  BY PostTcpGrows, GrowsIsGood
  <1> HIDE DEF v
  <1>2. Alike(v, TransactionsSucceeded(v, t)) /\ Answers(v, TransactionsSucceeded(v, t))
    BY <1>1 DEF TransactionsSucceeded, Good, Fields, Alike, Answers, Stopped, Paused
  <1>3. Grows(v, TransactionsSucceeded(v, t))  BY <1>1, <1>2, AlikeGrows
  <1> QED BY <1>1, <1>3, GrowsTwice DEF Decoded, v

LEMMA IncomingKeeps ==
    ASSUME IInv, DoIncoming
    PROVE  Kept
  <1> DEFINE p == Dequeued
             t == TheJob.t
             job == [op |-> "messages", msgs |-> TheJob.msgs]
             b == [Dequeued EXCEPT !.jobs = <<job>> \o @]
             g == [Decoded(p, t) EXCEPT !.jobs = <<job>> \o @]
  <1>1. proto.jobs # <<>> /\ HeadOp = "incoming"  BY HeadFacts DEF DoIncoming
  <1>2. Good(p)  BY <1>1, DequeuedIsLeft
  <1>3. \/ Become(p, {}) \/ Become(TransactionsMayHaveFailed(p, t), {})
        \/ Become(ResetSessionInfo(TransactionsMayHaveFailed(p, t)), {})
        \/ Become(Decoded(p, t), {}) \/ Become(g, {})
    BY DEF DoIncoming, Run
  <1>4. /\ Grows(p, p) /\ Grows(p, TransactionsMayHaveFailed(p, t))
        /\ Grows(p, ResetSessionInfo(TransactionsMayHaveFailed(p, t)))
        /\ Grows(p, Decoded(p, t))
    BY <1>2, AlikeSelf, TransactionsMayHaveFailedGrows, ResetSessionInfoGrows, DecodedGrows,
       GrowsTwice, GrowsIsGood
  <1>5. CASE Become(g, {})
    <2>1. Taken(proto, b) /\ Good(b) /\ Stopped(b) = Stopped(proto) /\ Paused(b) = Paused(proto)
      BY <1>1, ReplacedIsTaken
    <2>2. Grows(b, Decoded(b, t)) /\ Good(Decoded(b, t))
      BY <2>1, DecodedGrows, GrowsIsGood
    <2>3. Alike(Decoded(b, t), g) /\ Answers(Decoded(b, t), g)
      BY <1>2, <2>1 DEF Decoded, PostTcp, TransactionsSucceeded, Alike, Answers, Good, Fields,
                        Stopped, Paused
    <2>4. Grows(b, g)  BY <2>1, <2>2, <2>3, AlikeGrows, GrowsTwice
    <2> HIDE DEF b, g
    <2> QED BY <1>5, <2>1, <2>4, JobKept
  <1> HIDE DEF g
  <1> QED BY <1>1, <1>3, <1>4, <1>5, PlainJobKept

LEMMA MessageKeeps ==
    ASSUME IInv, DoMessage
    PROVE  Kept
  <1> DEFINE msgs == TheJob.msgs
             rest == IF Len(msgs) = 1 THEN <<>> ELSE <<[op |-> "messages", msgs |-> Tail(msgs)]>>
             b == [Dequeued EXCEPT !.jobs = rest \o @]
             q == ProcessIncomingMessage(b, Head(msgs))
  <1>1. proto.jobs # <<>> /\ HeadOp = "messages" /\ Become(q, {})
    BY HeadFacts DEF DoMessage, Run
  <1>2. Taken(proto, b) /\ Good(b) /\ Stopped(b) = Stopped(proto) /\ Paused(b) = Paused(proto)
    <2>1. CASE Len(msgs) = 1
      <3>1. rest \o Tail(proto.jobs) = Tail(proto.jobs)
        BY <1>1, <2>1, ProtoQueues, TailFacts DEF IsQueue
      <3>2. /\ Left(b) /\ b.registered = proto.registered /\ b.authInfo = proto.authInfo
            /\ Stopped(b) = Stopped(proto) /\ Paused(b) = Paused(proto)
        BY <1>1, <3>1, DequeuedIsLeft DEF Left, Fields, Stopped, Paused
      <3> QED BY <1>1, <3>2, LeftIsTaken
    <2>2. CASE Len(msgs) # 1  BY <1>1, <2>2, ReplacedIsTaken
    <2> QED BY <2>1, <2>2
  <1>3. Grows(b, q)  BY <1>2, ProcessIncomingMessageGrows
  <1> HIDE DEF b, q
  <1> QED BY <1>1, <1>2, <1>3, JobKept

----
(* transportReadyForTransaction. *)

\* the transport in use is ready only for a client that runs and has a key,
\* unless the key is one that it is never told of
LEMMA ReadyIsAwake ==
    ASSUME IInv, ReadyFor(proto, proto.transport)
    PROVE  /\ proto.jobs # <<>> /\ HeadOp = "ready"
           /\ ~Stopped(proto) /\ ~Paused(proto)
           /\ proto.missed \/ proto.authInfo # 0
BY HeadFacts, ProtoQueues, TailFacts, QueueFacts DEF ReadyFor, HeadOp, TheJob, IInv,
   Sound, Core, Bounds, Good, Resting, KeyComesFirst

LEMMA ReadyKeeps ==
    ASSUME IInv, Ready \/ ReadyViolated
    PROVE  Kept
  <1> DEFINE p == Dequeued
             awake == ~Stopped(proto) /\ ~Paused(proto)
  <1>1. proto.jobs # <<>> /\ HeadOp = "ready"
    BY HeadFacts DEF Ready, ReadyStale, ReadyNothing, ReadySend, ReadyFail, ReadySaltless,
                     ReadyTimeFix, ReadyViolated, ReadyFor
  <1>2. Good(p)  BY <1>1, DequeuedIsLeft
  <1>3. ASSUME NEW q, NEW sent, Grows(p, q), Become(q, sent), sent = {} \/ awake
        PROVE  Kept
    BY <1>1, <1>3, PlainJobKept
  \* preparing messages touches nothing of this
  <1>4. ASSUME NEW items, NEW tx
        PROVE  Grows(p, Prepare(p, items, tx)) /\ Good(Prepare(p, items, tx))
    BY <1>2, PrepareGrows, AlikeGrows, GrowsIsGood DEF Answers
  <1>5. ASSUME NEW items, NEW tx, NEW c
        PROVE  /\ Grows(p, Contain(Prepare(p, items, tx), items, c))
               /\ Good(Contain(Prepare(p, items, tx), items, c))
    <2> DEFINE a == Prepare(p, items, tx)
               d == Contain(a, items, c)
    <2>1. Grows(p, a) /\ Good(a)  BY <1>4
    <2>2. Alike(a, d) /\ Answers(a, d)  BY <2>1, ContainGrows DEF Answers, Good
    <2> HIDE DEF a, d
    <2>3. Grows(p, d)  BY <1>2, <2>1, <2>2, AlikeGrows, GrowsTwice
    <2> QED BY <2>3, GrowsIsGood DEF a, d
  <1>6. CASE ReadyStale \/ ReadyNothing
    BY <1>2, <1>3, <1>6, AlikeSelf DEF ReadyStale, ReadyNothing, Run
  <1>7. CASE ReadySend
    <2> DEFINE t == p.transport
               items == Gathered(p, TheJob.ping)
               whole == IF Cardinality(items) > 1 THEN {"container"} ELSE {}
               c == Contain(Prepare(p, items, t), items, p.batch)
               q == IF "acks" \in items THEN Carried(c, t) ELSE c
               sent == {Encrypted(id, t) : id \in IdsOf(p, items \cup whole)}
    <2>1. Become(q, sent)  BY <1>7 DEF ReadySend
    <2>2. awake  BY <1>7, ReadyIsAwake DEF ReadySend
    <2>3. Grows(p, c) /\ Good(c)  BY <1>5
    <2> HIDE DEF c
    <2>4. Alike(c, Carried(c, t)) /\ Answers(c, Carried(c, t))
      BY <2>3, CarriedGrows DEF Answers, Good
    <2>5. Grows(p, q)  BY <1>2, <2>3, <2>4, AlikeGrows, GrowsTwice
    <2> HIDE DEF q, sent
    <2> QED BY <1>3, <2>1, <2>2, <2>5
  <1>8. CASE ReadyFail
    <2> DEFINE q == Contain(Prepare(p, Gathered(p, TheJob.ping), 0), Gathered(p, TheJob.ping), p.batch)
    <2>1. Become(q, {})  BY <1>8 DEF ReadyFail, Run
    <2>2. Grows(p, q)  BY <1>5
    <2> HIDE DEF q
    <2> QED BY <1>3, <2>1, <2>2
  <1>9. CASE ReadySaltless
    <2> DEFINE a == Prepare(p, Gathered(p, TheJob.ping), 0)
    <2>1. Become(InitiateTimeSync(a), {})  BY <1>9 DEF ReadySaltless, Run
    <2>2. Grows(p, a) /\ Good(a)  BY <1>4
    <2> HIDE DEF a
    <2>3. Grows(p, InitiateTimeSync(a))
      BY <1>2, <2>2, InitiateTimeSyncGrows, GrowsTwice
    <2> QED BY <1>3, <2>1, <2>3
  <1>10. CASE ReadyTimeFix
    <2> DEFINE mid == [b |-> proto.batch, m |-> "timeFix"]
               a == [p EXCEPT !.batch = @ + 1]
               f == [a EXCEPT !.timeFix = mid]
    <2>1. \/ Become(f, {Encrypted(mid, a.transport)}) \/ Become(RequestTransactions(a), {})
      BY <1>10 DEF ReadyTimeFix
    <2>2. awake  BY <1>10, ReadyIsAwake DEF ReadyTimeFix
    <2>3. Alike(p, a) /\ Answers(p, a) /\ Alike(p, f) /\ Answers(p, f)
      BY <1>2 DEF Good, Fields, Alike, Answers, Stopped, Paused
    <2>4. Grows(p, f) /\ Grows(p, RequestTransactions(a))
      BY <1>2, <2>3, AlikeGrows, GrowsIsGood, GrowsTwice, RequestTransactionsGrows
    <2> HIDE DEF a, f
    <2> QED BY <1>3, <2>1, <2>2, <2>4
  <1>11. CASE ReadyViolated
    <2>1. PICK prepared :
              Become(RequestTransactions(ResetSessionInfo(Prepare(p, prepared, 0))), {})
      BY <1>11 DEF ReadyViolated
    <2> DEFINE a == Prepare(p, prepared, 0)
               q == RequestTransactions(ResetSessionInfo(a))
    <2>2. Grows(p, a) /\ Good(a)  BY <1>4
    <2> HIDE DEF a
    <2>3. Grows(p, q)
      BY <1>2, <2>2, ResetSessionInfoGrows, RequestTransactionsGrows, GrowsTwice, GrowsIsGood
    <2>4. Become(q, {})  BY <2>1 DEF a
    <2> HIDE DEF q
    <2> QED BY <1>3, <2>3, <2>4
  <1> QED BY <1>6, <1>7, <1>8, <1>9, <1>10, <1>11 DEF Ready

----
(* The theorems. *)

LEMMA InitFields ==
    ASSUME Init
    PROVE  /\ Fields \subseteq DOMAIN proto
           /\ proto.state = {} /\ proto.transport = 0 /\ proto.created = 0
           /\ ~proto.flushing
           /\ proto.jobs = <<>> /\ proto.tcpJobs = <<>> /\ proto.ctxJobs = <<>>
           /\ proto.batch = 1 /\ proto.session = NewSession(1)
           /\ proto.authInfo = InitialKey /\ proto.infos = proto.key /\ proto.key \in {InitialKey, 1}
           /\ proto.registered = TRUE /\ proto.reported = "connecting"
           /\ proto.requests = {} /\ proto.context = [r \in Requests |-> None]
           /\ proto.answered = [r \in Requests |-> 0]
           /\ net = <<>> /\ DOMAIN net = {}
           /\ client = [issued |-> {}, cancelled |-> {}, stopping |-> "no"]
BY DEF Init, Fields

LEMMA InitIsSound ==
    ASSUME Init
    PROVE  IInv
  <1>1. IsQueue(<<>>) /\ Len(<<>>) = 0  BY DEF IsQueue
  <1>2. proto.missed \/ proto.key = InitialKey  BY DEF Init
  <1>3. Good(proto)  BY <1>1, InitFields, BoundsAssumption DEF IsCounter, Good
  <1>4. Bounds(proto, net)  BY <1>1, InitFields DEF Bounds
  <1>5. RemovalComesFirst(proto) /\ KeyComesFirst(proto)
    BY <1>1, InitFields, <1>2 DEF RemovalComesFirst, KeyComesFirst, Stopped
  <1> QED BY InitFields, <1>3, <1>4, <1>5 DEF IInv, Sound, Core, Known, Resting, Paused, Stopped

LEMMA ProtoStepKeeps ==
    ASSUME IInv, ProtoStep \/ ReadyViolated
    PROVE  Kept
BY CallsKeep, PauseKeeps, ResumeKeeps, StopKeeps, RemoveServiceKeeps, FlushKeeps, AuthInfoKeeps,
   IncomingKeeps, MessageKeeps, ReadyKeeps DEF ProtoStep

\* one case for each queue, and one for what happens beside them
LEMMA StepKeeps ==
    ASSUME IInv, [Next]_vars
    PROVE  Kept
BY ProtoStepKeeps, TcpKeeps, ContextKeeps, AuthCompletedKeeps, NetworkKeeps,
   ServerKeeps, UserKeeps, TimeKeeps DEF Next

\* The invariant: the removal of the request service, the stop, the key and
\* the readiness of a transport keep the order in which Proto, Context and
\* TcpTransport post them to Proto::queue, and a transport that Context's key
\* makes for a paused Proto is never asked for a connection.
THEOREM IInvHolds == Spec => []IInv
  <1>1. Init => IInv  BY InitIsSound
  <1>2. IInv /\ [Next]_vars => IInv'  BY StepKeeps DEF Kept
  <1> QED BY <1>1, <1>2, PTL DEF Spec

\* Proto::stop is for good, whatever jobs of the other queues, packets and
\* notices are still on their way: no transport is made again, no message
\* goes out and no completion or failure callback is made.
THEOREM StopIsFinal == Spec => StoppedIsFinal
  <1>1. IInv /\ [Next]_vars =>
          [Stopped(proto) =>
             /\ Stopped(proto') /\ proto'.transport = 0
             /\ {s.mid : s \in wire'} \subseteq {s.mid : s \in wire}
             /\ proto'.answered = proto.answered]_vars
    BY StepKeeps DEF Kept, Quiet, Final, IInv, Sound
  <1> QED BY <1>1, IInvHolds, PTL DEF Spec, StoppedIsFinal

\* Proto::pause lets nothing out, though updateAuthInfo makes a transport for a
\* paused Proto and the flush, the ready and the connection jobs of earlier
\* transports may still be queued.
THEOREM PauseIsSilent == Spec => PausedSendsNothing
  <1>1. IInv /\ [Next]_vars =>
          [Paused(proto) /\ Paused(proto') =>
             {s.mid : s \in wire'} \subseteq {s.mid : s \in wire}]_vars
    BY StepKeeps DEF Kept, Quiet
  <1> QED BY <1>1, IInvHolds, PTL DEF Spec, PausedSendsNothing

\* transportReadyForTransaction dereferences a null authInfo only when the key
\* was announced before the Proto was a listener: any other key comes round
\* through Context's queue ahead of the readiness of the transport made for it.
THEOREM KeyIsThere == Spec => []ReadyHasKey
  <1>1. IInv => ReadyHasKey  BY ReadyIsAwake DEF ReadyHasKey, NullKey
  <1> QED BY <1>1, IInvHolds, PTL

----
(* What the operators do to the rest: the requests and their contexts, the *)
(* session, the key and the transports, and what they ask for. *)

LEMMA MovesIsFit ==
    ASSUME NEW p, NEW q, Moves(p, q)
    PROVE  Fit(q)
BY GrowsIsGood DEF Moves, Fit

LEMMA FadesTwice ==
    ASSUME NEW p, NEW q, NEW r, Fades(p, q), Fades(q, r)
    PROVE  Fades(p, r)
BY DEF Fades, SameAttempt

LEMMA AsksTwice ==
    ASSUME NEW p, NEW q, NEW r, Asks(p, q), Asks(q, r)
    PROVE  Asks(p, r)
BY DEF Asks

LEMMA SucceedsLater ==
    ASSUME NEW p, NEW q, NEW r, Fit(p), Grows(p, q), Grows(q, r), Fit(r),
           Stays(p, q) \/ Succeeds(p, q), Stays(q, r) \/ Succeeds(q, r)
    PROVE  Stays(p, r) \/ Succeeds(p, r)
  <1> DEFINE a == Len(p.tcpJobs)
             b == Len(q.tcpJobs)
             c == Len(r.tcpJobs)
  <1>1. a \in Nat /\ b \in Nat /\ c \in Nat /\ a <= b /\ b <= c
    BY GrownQueues, GrowsIsGood DEF Fit, TcpBehind
  <1>2. \A i \in 1..b : r.tcpJobs[i] = q.tcpJobs[i]
    BY GrownQueues, GrowsIsGood DEF TcpBehind
  <1>3. p.created \in Nat /\ q.created \in Nat /\ r.created \in Nat
    BY GrowsIsGood DEF Fit, Good
  <1> HIDE DEF a, b, c
  <1>4. CASE Stays(p, q) /\ Stays(q, r)  BY <1>1, <1>2, <1>4 DEF Stays, a, b, c
  <1>5. CASE Succeeds(q, r)
    <2>1. /\ r.transport = r.created /\ q.created < r.created
          /\ p.created <= q.created /\ q.transport \in {0, q.created}
      BY <1>3, <1>5 DEF Stays, Succeeds, Fit, Typed
    <2>2. PICK i \in (b + 1)..c :
              /\ r.tcpJobs[i] = [op |-> "update", t |-> r.created]
              /\ \A t \in ({q.transport} \cup (q.created + 1)..r.created) \ {0, r.created} :
                    \E j \in (b + 1)..(i - 1) : r.tcpJobs[j] = [op |-> "stop", t |-> t]
      BY <1>5 DEF Succeeds, b, c
    <2>3. ASSUME NEW t \in ({p.transport} \cup (p.created + 1)..r.created) \ {0, r.created}
          PROVE  \E j \in (a + 1)..(i - 1) : r.tcpJobs[j] = [op |-> "stop", t |-> t]
      <3>1. CASE t \in ({q.transport} \cup (q.created + 1)..r.created) \ {0, r.created}
        BY <1>1, <2>2, <3>1
      <3>2. CASE t \notin ({q.transport} \cup (q.created + 1)..r.created) \ {0, r.created}
        <4>1. Succeeds(p, q)  BY <1>3, <2>1, <2>3, <3>2 DEF Stays
        <4>2. t \in ({p.transport} \cup (p.created + 1)..q.created) \ {0, q.created}
          BY <1>3, <2>1, <2>3, <3>2, <4>1 DEF Succeeds
        <4>3. PICK k \in (a + 1)..b :
                 \A u \in ({p.transport} \cup (p.created + 1)..q.created) \ {0, q.created} :
                    \E j \in (a + 1)..(k - 1) : q.tcpJobs[j] = [op |-> "stop", t |-> u]
          BY <4>1 DEF Succeeds, a, b
        <4>4. PICK j \in (a + 1)..(k - 1) : q.tcpJobs[j] = [op |-> "stop", t |-> t]
          BY <4>2, <4>3
        <4>5. j \in 1..b /\ j \in (a + 1)..(i - 1)  BY <1>1, <2>2, <4>3, <4>4
        <4> QED BY <1>2, <4>4, <4>5
      <3> QED BY <3>1, <3>2
    <2>4. ASSUME NEW k \in (a + 1)..c, r.tcpJobs[k].op \in {"detach", "stop"}
          PROVE  r.tcpJobs[k].t \in 1..(r.created - 1)
      <3>1. CASE k <= b
        <4>1. k \in (a + 1)..b /\ k \in 1..b  BY <1>1, <2>4, <3>1
        <4>2. q.tcpJobs[k].op \in {"detach", "stop"}  BY <1>2, <2>4, <4>1
        <4>3. Succeeds(p, q)  BY <4>1, <4>2 DEF Stays, a, b
        <4>4. q.tcpJobs[k].t \in 1..(q.created - 1)
          BY <4>1, <4>2, <4>3 DEF Succeeds, a, b
        <4> QED BY <1>2, <1>3, <2>1, <4>1, <4>4
      <3>2. CASE ~(k <= b)  BY <1>1, <1>5, <2>4, <3>2 DEF Succeeds, b, c
      <3> QED BY <3>1, <3>2
    <2>5. i \in (a + 1)..c  BY <1>1, <2>2
    <2>6. p.created < r.created  BY <1>3, <2>1
    <2> QED BY <2>1, <2>2, <2>3, <2>4, <2>5, <2>6 DEF Succeeds, a, c
  <1>6. CASE Succeeds(p, q) /\ Stays(q, r)
    <2>1. r.transport = r.created /\ r.created = q.created /\ p.created < r.created
      BY <1>6 DEF Stays, Succeeds
    <2>2. PICK i \in (a + 1)..b :
              /\ q.tcpJobs[i] = [op |-> "update", t |-> q.created]
              /\ \A t \in ({p.transport} \cup (p.created + 1)..q.created) \ {0, q.created} :
                    \E j \in (a + 1)..(i - 1) : q.tcpJobs[j] = [op |-> "stop", t |-> t]
      BY <1>6 DEF Succeeds, a, b
    <2>3. ASSUME NEW t \in ({p.transport} \cup (p.created + 1)..r.created) \ {0, r.created}
          PROVE  \E j \in (a + 1)..(i - 1) : r.tcpJobs[j] = [op |-> "stop", t |-> t]
      BY <1>1, <1>2, <2>1, <2>2, <2>3
    <2>4. ASSUME NEW k \in (a + 1)..c, r.tcpJobs[k].op \in {"detach", "stop"}
          PROVE  r.tcpJobs[k].t \in 1..(r.created - 1)
      <3>1. CASE k <= b
        BY <1>1, <1>2, <1>6, <2>1, <2>4, <3>1 DEF Succeeds, a, b
      <3>2. CASE ~(k <= b)
        <4>1. k \in (b + 1)..c  BY <1>1, <2>4, <3>2
        <4> QED BY <1>6, <2>4, <4>1 DEF Stays, b, c
      <3> QED BY <3>1, <3>2
    <2>5. i \in (a + 1)..c /\ i \in 1..b  BY <1>1, <2>2
    <2>6. r.tcpJobs[i] = [op |-> "update", t |-> r.created]
      BY <1>2, <2>1, <2>2, <2>5
    <2> QED BY <2>1, <2>3, <2>4, <2>5, <2>6 DEF Succeeds, a, c
  <1> QED BY <1>4, <1>5, <1>6

LEMMA RenewsTwice ==
    ASSUME NEW p, NEW q, NEW r, Moves(p, q), Moves(q, r)
    PROVE  Renews(p, r)
BY DEF Moves, Grows, Lives, Renews, Fades, SameAttempt

LEMMA MovesTwice ==
    ASSUME NEW p, NEW q, NEW r, Fit(p), Moves(p, q), Moves(q, r)
    PROVE  Moves(p, r)
  <1>1. Fit(q) /\ Fit(r)  BY MovesIsFit
  <1>2. Grows(p, r)  BY GrowsTwice DEF Moves, Fit
  <1>3. Fades(p, r)  BY FadesTwice DEF Moves
  <1>4. Stays(p, r) \/ Succeeds(p, r)  BY <1>1, SucceedsLater DEF Moves
  <1>5. KeyMoves(p, r)
    <2>1. /\ p.infos \in Nat /\ q.infos \in Nat /\ r.infos \in Nat
          /\ Len(p.ctxJobs) \in Nat /\ Len(q.ctxJobs) \in Nat /\ Len(r.ctxJobs) \in Nat
      BY <1>1, QueueFacts DEF Fit, Good
    <2>2. KeyMoves(p, q) /\ KeyMoves(q, r)  BY DEF Moves
    <2> QED BY <2>1, <2>2 DEF KeyMoves
  <1>6. Typed(r) /\ r.requests = p.requests /\ r.answered = p.answered
    BY DEF Moves
  <1>7. Renews(p, r)  BY RenewsTwice
  <1> QED BY <1>2, <1>3, <1>4, <1>5, <1>6, <1>7 DEF Moves

LEMMA GoesTwice ==
    ASSUME NEW p, NEW q, NEW r, Fit(p), Goes(p, q), Goes(q, r)
    PROVE  Goes(p, r)
BY MovesTwice, AsksTwice DEF Goes

LEMMA GoesIsFit ==
    ASSUME NEW p, NEW q, Goes(p, q)
    PROVE  Fit(q)
BY MovesIsFit DEF Goes

LEMMA RecallsTwice ==
    ASSUME NEW p, NEW q, NEW r, Fit(p), Recalls(p, q), Recalls(q, r)
    PROVE  Recalls(p, r)
BY GrowsTwice, FadesTwice, AsksTwice DEF Recalls, Untouched, Fit

LEMMA RecallsIsFit ==
    ASSUME NEW p, NEW q, Fit(p), Recalls(p, q)
    PROVE  Fit(q)
BY GrowsIsGood DEF Recalls, Untouched, Fit, Typed

LEMMA RecallsGoes ==
    ASSUME NEW p, NEW q, Fit(p), Recalls(p, q)
    PROVE  Goes(p, q)
BY RecallsIsFit, QueueFacts DEF Recalls, Untouched, Renews, KeyMoves, Fit, Good,
   Stays, Goes, Moves

LEMMA GoesSelf ==
    ASSUME NEW p, Fit(p)
    PROVE  Recalls(p, p) /\ Goes(p, p)
BY AlikeSelf, RecallsGoes DEF Fit, Typed, Contexts, Fades, SameAttempt, Recalls,
   Untouched, Asks

LEMMA RequestTransactionsRecalls ==
    ASSUME NEW p, Fit(p)
    PROVE  Recalls(p, RequestTransactions(p)) /\ RequestTransactions(p).flushing
  <1>1. CASE p.flushing  BY <1>1, GoesSelf DEF RequestTransactions
  <1>2. CASE ~p.flushing
    <2> DEFINE q == [p EXCEPT !.flushing = TRUE, !.jobs = Append(@, [op |-> "flush"])]
    <2>1. RequestTransactions(p) = q  BY <1>2 DEF RequestTransactions
    <2>2. Grows(p, q)  BY <2>1, RequestTransactionsGrows DEF Fit
    <2>3. Untouched(p, q) /\ q.context = p.context /\ q.flushing = TRUE
          /\ q.jobs = Append(p.jobs, [op |-> "flush"])
      BY DEF Fit, Good, Fields, Untouched
    <2> HIDE DEF q
    <2>4. Contexts(q) /\ Fades(p, q)
      BY <2>3 DEF Fit, Typed, Contexts, Fades, SameAttempt, Untouched
    <2>5. FlushIsQueued(q)
      <3>1. IsQueue(p.jobs) /\ Len(p.jobs) \in Nat  BY QueueFacts DEF Fit, Good
      <3> QED BY <2>3, <3>1, AppendFacts DEF FlushIsQueued
    <2>6. Asks(p, q)  BY <2>3 DEF Asks
    <2> QED BY <2>1, <2>2, <2>3, <2>4, <2>5, <2>6 DEF Recalls
  <1> QED BY <1>1, <1>2

LEMMA RequestIfRecalls ==
    ASSUME NEW p, NEW cond, Fit(p)
    PROVE  Recalls(p, RequestIf(cond, p))
BY RequestTransactionsRecalls, GoesSelf DEF RequestIf

----
(* The message services. *)

\* q is p but for contexts that are gone: asked for, if there are any such
LEMMA GivenUp ==
    ASSUME NEW p, NEW q, NEW cond, Fit(p), Alike(p, q), Untouched(p, q),
           q.flushing = p.flushing, Contexts(q), Fades(p, q),
           ~cond => \A r \in q.requests : q.context[r] = p.context[r] \/ q.context[r] # None
    PROVE  Recalls(p, RequestIf(cond, q))
  <1>1. Grows(p, q) /\ Good(q)
    BY AlikeGrows, GrowsIsGood DEF Untouched, Answers, Fit
  <1>2. Typed(q)  BY DEF Fit, Typed, Untouched, FlushIsQueued, Alike
  <1>3. Fit(q)  BY <1>1, <1>2 DEF Fit
  <1>4. CASE cond
    <2> DEFINE r == RequestTransactions(q)
    <2>1. Recalls(q, r) /\ r.flushing  BY <1>3, RequestTransactionsRecalls
    <2>2. RequestIf(cond, q) = r  BY <1>4 DEF RequestIf
    <2> HIDE DEF r
    <2>3. Grows(p, r) /\ Fades(p, r) /\ Untouched(p, r)
      BY <1>1, <2>1, GrowsTwice, FadesTwice DEF Recalls, Untouched, Fit
    <2>4. Asks(p, r)  BY <2>1 DEF Asks
    <2> QED BY <2>1, <2>2, <2>3, <2>4 DEF Recalls
  <1>5. CASE ~cond
    BY <1>1, <1>2, <1>5 DEF RequestIf, CanAskTransactions, Untouched, Offered,
       Contexts, Fades, SameAttempt, Asks, Recalls, Typed
  <1> QED BY <1>4, <1>5

LEMMA ForgetRecalls ==
    ASSUME NEW p, NEW rs, Fit(p)
    PROVE  Recalls(p, Forget(p, rs))
  <1> DEFINE q == [p EXCEPT !.context = [r \in Requests |-> IF r \in rs THEN None ELSE @[r]]]
  <1>1. Forget(p, rs) = RequestIf(rs # {}, q)  BY DEF Forget
  <1>2. /\ Alike(p, q) /\ Untouched(p, q) /\ q.flushing = p.flushing
        /\ q.context = [r \in Requests |-> IF r \in rs THEN None ELSE p.context[r]]
    BY DEF Alike, Untouched, Stopped, Paused, Fit, Good, Fields
  <1> HIDE DEF q
  <1>3. \A r \in Requests : q.context[r] = None \/ q.context[r] = p.context[r]
    BY <1>2
  <1>4. Contexts(q)  BY <1>2, <1>3 DEF Contexts, Fit, Typed, Untouched
  <1>5. Fades(p, q)  BY <1>3 DEF Fades, SameAttempt
  <1>6. rs = {} => \A r \in q.requests : q.context[r] = p.context[r]
    BY <1>2, <1>4 DEF Contexts
  <1> QED BY <1>1, <1>2, <1>4, <1>5, <1>6, GivenUp

LEMMA ServiceRecalls ==
    ASSUME NEW p, Fit(p)
    PROVE  /\ \A tx : Recalls(p, RequestsMayHaveFailed(p, tx))
           /\ Recalls(p, AllRequestsMayHaveFailed(p))
           /\ \A mids : Recalls(p, RequestDeliveryFailed(p, mids))
BY ForgetRecalls, GoesSelf DEF RequestsMayHaveFailed, AllRequestsMayHaveFailed, RequestDeliveryFailed

LEMMA RequestDeliveryConfirmedRecalls ==
    ASSUME NEW p, NEW mids, Fit(p)
    PROVE  Recalls(p, RequestDeliveryConfirmed(p, mids))
  <1> DEFINE q == [p EXCEPT !.context =
                     [r \in Requests |-> IF r \in Bound(p) /\ @[r].mid \in mids
                                         THEN [@[r] EXCEPT !.delivered = TRUE] ELSE @[r]]]
  <1>1. CASE ~p.registered  BY <1>1, GoesSelf DEF RequestDeliveryConfirmed
  <1>2. CASE p.registered
    <2>1. RequestDeliveryConfirmed(p, mids) = RequestIf(FALSE, q)
      BY <1>2 DEF RequestDeliveryConfirmed, RequestIf
    <2>2. /\ Alike(p, q) /\ Untouched(p, q) /\ q.flushing = p.flushing
          /\ q.context = [r \in Requests |-> IF r \in Bound(p) /\ p.context[r].mid \in mids
                                             THEN [p.context[r] EXCEPT !.delivered = TRUE]
                                             ELSE p.context[r]]
      BY DEF Alike, Untouched, Stopped, Paused, Fit, Good, Fields
    <2> HIDE DEF q
    <2>3. ASSUME NEW r \in Requests
          PROVE  \/ q.context[r] = p.context[r]
                 \/ /\ p.context[r] # None /\ p.context[r] \in RequestContext
                    /\ q.context[r] = [p.context[r] EXCEPT !.delivered = TRUE]
      BY <2>2 DEF Fit, Typed, Contexts, Bound
    <2>4. ASSUME NEW c \in RequestContext
          PROVE  /\ [c EXCEPT !.delivered = TRUE] \in RequestContext
                 /\ [c EXCEPT !.delivered = TRUE].mid = c.mid
                 /\ [c EXCEPT !.delivered = TRUE].tx = c.tx
                 /\ [c EXCEPT !.delivered = TRUE].delivered = TRUE
      BY DEF RequestContext
    <2>5. Fades(p, q)  BY <2>3, <2>4 DEF Fades, SameAttempt
    <2>6. Contexts(q)
      BY <2>2, <2>3, <2>4, <2>5 DEF Fit, Typed, Contexts, Fades, SameAttempt,
         Untouched
    <2>7. ASSUME NEW r \in q.requests
          PROVE  q.context[r] = p.context[r] \/ q.context[r] # None
      <3>1. r \in Requests  BY <2>6 DEF Contexts
      <3>2. CASE p.context[r] \in RequestContext /\ q.context[r] = [p.context[r] EXCEPT !.delivered = TRUE]
        BY <2>4, <3>2, NoneAssumption
      <3> QED BY <2>3, <3>1, <3>2
    <2>8. ASSUME NEW cond, cond = FALSE
          PROVE  Recalls(p, RequestIf(cond, q))
      BY <2>2, <2>5, <2>6, <2>7, <2>8, GivenUp
    <2> QED BY <2>1, <2>8
  <1> QED BY <1>1, <1>2

LEMMA RequestsSessionChangedRecalls ==
    ASSUME NEW p, Fit(p)
    PROVE  /\ Recalls(p, RequestsSessionChanged(p))
           /\ p.registered => \A r \in Requests : RequestsSessionChanged(p).context[r] = None
           /\ p.registered /\ p.requests # {} => RequestsSessionChanged(p).flushing
  <1> DEFINE q == [p EXCEPT !.context = [r \in Requests |-> None]]
             s == RequestIf(p.requests # {}, q)
  <1>1. CASE ~p.registered  BY <1>1, GoesSelf DEF RequestsSessionChanged
  <1>2. CASE p.registered
    <2>1. RequestsSessionChanged(p) = s  BY <1>2 DEF RequestsSessionChanged
    <2>2. /\ Alike(p, q) /\ Untouched(p, q) /\ q.flushing = p.flushing
          /\ q.context = [r \in Requests |-> None]
      BY DEF Alike, Untouched, Stopped, Paused, Fit, Good, Fields
    <2>3. s.context = q.context /\ (p.requests # {} => s.flushing)
      <3>1. Fields \subseteq DOMAIN q  BY <2>2 DEF Alike
      <3> HIDE DEF q
      <3> QED BY <3>1 DEF RequestIf, RequestTransactions, Fields
    <2> HIDE DEF q
    <2>4. Contexts(q) /\ Fades(p, q)
      BY <2>2 DEF Contexts, Fades, Fit, Typed, Untouched
    <2>5. p.requests = {} => \A r \in q.requests : q.context[r] = p.context[r] \/ q.context[r] # None
      BY <2>2 DEF Untouched
    <2>6. Recalls(p, s)  BY <2>2, <2>4, <2>5, GivenUp
    <2> QED BY <2>1, <2>2, <2>3, <2>6
  <1> QED BY <1>1, <1>2

\* a change of nothing that is followed here, and a transaction asked for
LEMMA OnlyAsks ==
    ASSUME NEW p, NEW q, Fit(p), Alike(p, q), Untouched(p, q),
           q.flushing = p.flushing, q.context = p.context
    PROVE  /\ Recalls(p, RequestTransactions(q))
           /\ Recalls(p, q)
BY GivenUp DEF Contexts, Fades, SameAttempt, Fit, Typed, Untouched, RequestIf

LEMMA TimeSyncRecalls ==
    ASSUME NEW p, Fit(p)
    PROVE  /\ Recalls(p, TimeSyncRestart(p))
           /\ \A mids : Recalls(p, TimeSyncDeliveryFailed(p, mids))
  <1> DEFINE q == [p EXCEPT !.timeSync.mid = None]
  <1>1. /\ Alike(p, q) /\ Untouched(p, q)
        /\ q.flushing = p.flushing /\ q.context = p.context
    BY DEF Alike, Untouched, Stopped, Paused, Fit, Good, Fields
  <1> HIDE DEF q
  <1>2. Recalls(p, RequestTransactions(q))  BY <1>1, OnlyAsks
  <1> QED BY <1>2, GoesSelf DEF q, TimeSyncRestart, TimeSyncDeliveryFailed

----
(* Transports. *)

LEMMA FailedRecalls ==
    ASSUME NEW p, Fit(p)
    PROVE  /\ Recalls(p, AllTransactionsMayHaveFailed(p))
           /\ p.registered /\ ~Stopped(p) =>
                 \A r \in p.requests : AllTransactionsMayHaveFailed(p).context[r] = None
           /\ \A tx : Recalls(p, TransactionsMayHaveFailed(p, tx))
  <1> DEFINE a == AllRequestsMayHaveFailed(p)
             b == TimeSyncRestart(a)
  <1>1. Recalls(p, a) /\ Fit(a)  BY ServiceRecalls, RecallsIsFit
  <1>2. Recalls(a, b)
    <2> HIDE DEF a
    <2> QED BY <1>1, TimeSyncRecalls
  <1>3. ASSUME p.registered, NEW r \in p.requests
        PROVE  a.context[r] = None
    <2>1. r \in Requests  BY <1>3 DEF Fit, Typed, Contexts
    <2> DEFINE c == [p EXCEPT !.context = [x \in Requests |-> IF x \in Bound(p) THEN None ELSE @[x]]]
    <2>2. a = RequestIf(Bound(p) # {}, c)
      BY <1>3 DEF AllRequestsMayHaveFailed, Forget
    <2>3. /\ Fields \subseteq DOMAIN c
          /\ c.context = [x \in Requests |-> IF x \in Bound(p) THEN None ELSE p.context[x]]
      BY DEF Fit, Good, Fields
    <2> HIDE DEF c
    <2>4. a.context = c.context
      <3> HIDE DEF a
      <3> QED BY <2>2, <2>3 DEF RequestIf, RequestTransactions, Fields
    <2> QED BY <1>3, <2>1, <2>3, <2>4 DEF Bound
  <1>4. ASSUME p.registered, NEW r \in p.requests
        PROVE  b.context[r] = None
    BY <1>2, <1>3, <1>4 DEF Fit, Typed, Contexts, Recalls, Fades, SameAttempt
  <1>5. Recalls(p, b)
    <2> HIDE DEF a, b
    <2> QED BY <1>1, <1>2, RecallsTwice
  <1>6. AllTransactionsMayHaveFailed(p) = IF Stopped(p) THEN p ELSE b
    BY DEF AllTransactionsMayHaveFailed
  <1>7. \A tx : Recalls(p, TransactionsMayHaveFailed(p, tx))
    BY ServiceRecalls, GoesSelf DEF TransactionsMayHaveFailed
  <1> HIDE DEF a, b
  <1> QED BY <1>4, <1>5, <1>6, <1>7, GoesSelf

LEMMA SetTransportShifts ==
    ASSUME NEW p, NEW t, Fit(p)
    PROVE  /\ Shifts(p, SetTransport(p, t), t)
           /\ SetTransport(p, t).tcpJobs = Updated(Retired(p.tcpJobs, p.transport), t)
  <1> DEFINE a == AllTransactionsMayHaveFailed(p)
             b == [a EXCEPT !.transport = t]
             c == IF p.transport = 0 THEN b ELSE PostTcp(b, "stop", p.transport)
             d == IF t = 0 THEN [c EXCEPT !.reported = "connecting"] ELSE PostTcp(c, "update", t)
  <1>1. /\ Recalls(p, a) /\ Fit(a) /\ Fields \subseteq DOMAIN a
        /\ p.registered /\ ~Stopped(p) => \A r \in p.requests : a.context[r] = None
    BY FailedRecalls, RecallsIsFit DEF Fit, Good
  <1> HIDE DEF a
  <1>2. /\ Fields \subseteq DOMAIN b /\ b.transport = t
        /\ \A f \in Fields \ {"transport"} : b[f] = a[f]
    BY <1>1 DEF Fields
  <1> HIDE DEF b
  <1>3. /\ Fields \subseteq DOMAIN c
        /\ \A f \in Fields \ {"tcpJobs"} : c[f] = b[f]
        /\ c.tcpJobs = Retired(b.tcpJobs, p.transport)
    BY <1>2 DEF Fields, PostTcp, Retired
  <1> HIDE DEF c
  <1>4. /\ Fields \subseteq DOMAIN d
        /\ \A f \in Fields \ {"tcpJobs", "reported"} : d[f] = c[f]
        /\ d.tcpJobs = Updated(c.tcpJobs, t)
        /\ d.reported = (IF t = 0 THEN "connecting" ELSE c.reported)
    BY <1>3 DEF Fields, PostTcp, Updated
  <1>5. SetTransport(p, t) = d
    BY <1>2, <1>3 DEF SetTransport, a, b, c, Fields, UpdateConnectionState
  <1> HIDE DEF d
  <1>6. /\ \A f \in Fields \ {"tcpJobs", "reported", "transport"} : d[f] = a[f]
        /\ d.transport = t /\ b.tcpJobs = a.tcpJobs /\ b.reported = a.reported
        /\ c.reported = b.reported
    BY <1>2, <1>3, <1>4 DEF Fields
  <1>7. /\ d.created = a.created /\ d.state = a.state /\ d.ctxJobs = a.ctxJobs
        /\ d.batch = a.batch /\ d.session = a.session /\ d.authInfo = a.authInfo
        /\ d.infos = a.infos /\ d.key = a.key /\ d.registered = a.registered
        /\ d.requests = a.requests /\ d.answered = a.answered /\ d.flushing = a.flushing
        /\ d.jobs = a.jobs /\ d.context = a.context
    BY <1>6 DEF Fields
  <1>8. Contexts(d) /\ FlushIsQueued(d) /\ Fades(p, d)
    BY <1>1, <1>7 DEF Contexts, FlushIsQueued, Fades, SameAttempt, Fit, Typed, Recalls
  <1>9. Shifts(p, d, t)
    BY <1>1, <1>4, <1>6, <1>7, <1>8 DEF Shifts, Recalls, Untouched, Asks
  <1>10. d.tcpJobs = Updated(Retired(p.tcpJobs, p.transport), t)
    BY <1>1, <1>3, <1>4, <1>6 DEF Recalls, Untouched
  <1> QED BY <1>5, <1>9, <1>10

LEMMA PostTcpFit ==
    ASSUME NEW p, NEW op \in {"update", "detach", "stop", "valid"}, NEW t, Fit(p)
    PROVE  Hands(p, PostTcp(p, op, t), op, t)
  <1> DEFINE q == PostTcp(p, op, t)
  <1>1. /\ Fields \subseteq DOMAIN q
        /\ \A f \in Fields \ {"tcpJobs"} : q[f] = p[f]
        /\ q.tcpJobs = Append(p.tcpJobs, [op |-> op, t |-> t])
    BY DEF Fields, PostTcp, Fit, Good
  <1>2. Good(q)  BY PostTcpGrows, GrowsIsGood DEF Fit
  <1> HIDE DEF q
  <1>3. /\ q.requests = p.requests /\ q.context = p.context /\ q.session = p.session
        /\ q.batch = p.batch /\ q.transport = p.transport /\ q.created = p.created
        /\ q.key = p.key /\ q.flushing = p.flushing /\ q.jobs = p.jobs
    BY <1>1 DEF Fields
  <1>4. Typed(q)  BY <1>3 DEF Fit, Typed, Contexts, FlushIsQueued
  <1> QED BY <1>1, <1>2, <1>4 DEF Hands, Fit, q

\* setDelegate(nullptr), stop() and setTransport(nullptr) for a transport in use
LEMMA DropTransportShifts ==
    ASSUME NEW p, Fit(p), p.transport # 0
    PROVE  LET q == DropTransport(p)
               T == [op |-> "stop", t |-> p.transport]
           IN /\ Fit(q) /\ Shifts(p, q, 0)
              /\ q.tcpJobs = Append(Append(Append(p.tcpJobs, [op |-> "detach", t |-> p.transport]), T), T)
  <1> DEFINE a == PostTcp(p, "detach", p.transport)
             b == PostTcp(a, "stop", p.transport)
             q == SetTransport(b, 0)
  <1>1. Hands(p, a, "detach", p.transport) /\ Fit(a)  BY PostTcpFit DEF Hands
  <1> HIDE DEF a
  <1>2. Hands(a, b, "stop", p.transport) /\ Fit(b)
    <2>1. Hands(a, b, "stop", p.transport)  BY <1>1, PostTcpFit DEF b
    <2> QED BY <2>1 DEF Hands
  <1> HIDE DEF b
  <1>3. \A f \in Fields \ {"tcpJobs"} : b[f] = p[f]  BY <1>1, <1>2 DEF Hands
  <1>4. /\ b.created = p.created /\ b.transport = p.transport /\ b.state = p.state
        /\ b.ctxJobs = p.ctxJobs /\ b.batch = p.batch /\ b.session = p.session
        /\ b.authInfo = p.authInfo /\ b.infos = p.infos /\ b.key = p.key
        /\ b.registered = p.registered /\ b.requests = p.requests
        /\ b.answered = p.answered /\ b.flushing = p.flushing /\ b.context = p.context
    BY <1>3 DEF Fields
  <1>5. /\ Shifts(b, q, 0)
        /\ q.tcpJobs = Append(b.tcpJobs, [op |-> "stop", t |-> p.transport])
    BY <1>2, <1>4, SetTransportShifts DEF Retired, Updated
  <1>6. Good(q)  BY <1>2, SetTransportGrows, GrowsIsGood DEF Fit
  <1> HIDE DEF q
  <1>7. Shifts(p, q, 0)  BY <1>4, <1>5 DEF Shifts, Fades, SameAttempt, Stopped
  <1>8. Typed(q)  BY <1>4, <1>7 DEF Shifts, Fit, Typed
  <1>9. DropTransport(p) = q  BY DEF DropTransport, a, b, q
  <1> QED BY <1>1, <1>2, <1>5, <1>6, <1>7, <1>8, <1>9 DEF Fit, Hands

LEMMA CreateTransportShifts ==
    ASSUME NEW p, Fit(p), p.transport = 0, p.key # 0, ~Stopped(p)
    PROVE  LET q == CreateTransport(p)
               t == p.created + 1
           IN /\ Fit(q) /\ Shifts([p EXCEPT !.created = t], q, t)
              /\ q.tcpJobs = Append(p.tcpJobs, [op |-> "update", t |-> t])
  <1> DEFINE t == p.created + 1
             c == [p EXCEPT !.created = t]
             q == SetTransport(c, t)
  <1>1. CreateTransport(p) = q  BY DEF CreateTransport
  <1>2. t \in Nat \ {0}  BY DEF Fit, Good
  <1>3. /\ Fields \subseteq DOMAIN c /\ c.created = t
        /\ \A f \in Fields \ {"created"} : c[f] = p[f]
    BY DEF Fields, Fit, Good
  <1> HIDE DEF c, t
  <1>4. /\ c.transport = 0 /\ c.state = p.state /\ c.jobs = p.jobs /\ c.tcpJobs = p.tcpJobs
        /\ c.ctxJobs = p.ctxJobs /\ c.batch = p.batch /\ c.session = p.session
        /\ c.authInfo = p.authInfo /\ c.infos = p.infos /\ c.key = p.key
        /\ c.registered = p.registered /\ c.requests = p.requests
        /\ c.answered = p.answered /\ c.flushing = p.flushing /\ c.context = p.context
    BY <1>3 DEF Fields
  <1>5. Good(c)  BY <1>2, <1>3, <1>4, CounterKept DEF Fit, Good
  <1>6. Typed(c)  BY <1>2, <1>3, <1>4 DEF Fit, Typed, Contexts, FlushIsQueued
  <1>7. Shifts(c, q, t) /\ q.tcpJobs = Append(p.tcpJobs, [op |-> "update", t |-> t])
    BY ZenonT(30), <1>2, <1>4, <1>5, <1>6, SetTransportShifts DEF Fit, Retired, Updated
  <1>8. Good(q)  BY <1>1, CreateTransportGrows, GrowsIsGood DEF Fit
  <1> HIDE DEF q
  <1>9. Typed(q)  BY <1>2, <1>3, <1>4, <1>6, <1>7 DEF Shifts, Typed
  <1> QED BY <1>1, <1>7, <1>8, <1>9 DEF Fit, c, t

\* Moves by operators that leave the requests, their contexts, the transport
\* and the key alone
LEMMA SmallMove ==
    ASSUME NEW p, NEW q, Fit(p), Alike(p, q), SessionFields \subseteq DOMAIN q.session,
           q.requests = p.requests, q.answered = p.answered, q.context = p.context,
           q.batch = p.batch, q.flushing = p.flushing, q.reported = p.reported,
           q.session.first = p.session.first, q.session.containers = p.session.containers,
           q.session.processed = p.session.processed
    PROVE  /\ Moves(p, q)
           /\ (CanAskTransactions(q) => CanAskTransactions(p)) => Goes(p, q)
  <1>1. Grows(p, q)  BY AlikeGrows DEF Fit, Answers
  <1>2. Typed(q)  BY DEF Fit, Typed, Contexts, FlushIsQueued, Alike
  <1>3. Fades(p, q) /\ Renews(p, q)
    BY DEF Fades, SameAttempt, Renews, Fit, Typed, Contexts, Alike
  <1>4. Stays(p, q) /\ KeyMoves(p, q)
    BY QueueFacts DEF Fit, Good, Stays, KeyMoves, Alike
  <1>5. Moves(p, q)  BY <1>1, <1>2, <1>3, <1>4 DEF Moves
  <1>6. ASSUME CanAskTransactions(q) => CanAskTransactions(p)
        PROVE  Asks(p, q)
    BY <1>6 DEF Asks, Offered, Alike
  <1> QED BY <1>5, <1>6 DEF Goes

LEMMA CreatesMoves ==
    ASSUME NEW p, Fit(p), p.key # 0, ~Stopped(p)
    PROVE  LET q == CreateTransport(DropTransport(p))
           IN Moves(p, q) /\ (p.flushing => q.flushing)
  <1> DEFINE d == DropTransport(p)
             q == CreateTransport(d)
             t == p.created + 1
             n == Len(p.tcpJobs)
  <1>1. Fit(d) /\ d.key = p.key /\ ~Stopped(d) /\ d.transport = 0 /\ d.created = p.created
    BY DropTransportShifts DEF DropTransport, Shifts, Stopped
  <1>2. Grows(p, q)
    <2>1. Grows(p, d)  BY DropTransportGrows DEF Fit
    <2> HIDE DEF d
    <2>2. Grows(d, q)  BY <1>1, CreateTransportGrows DEF Fit
    <2> QED BY <2>1, <2>2, GrowsTwice DEF Fit
  <1>3. /\ p.created \in Nat /\ t \in Nat /\ t > p.created
        /\ IsQueue(p.tcpJobs) /\ n \in Nat
    BY QueueFacts DEF Fit, Good
  <1>4. IsQueue(d.tcpJobs)  BY <1>1 DEF Fit, Good
  <1> DEFINE e == [d EXCEPT !.created = t]
  <1>5. /\ Fit(q) /\ Shifts(e, q, t)
        /\ q.tcpJobs = Append(d.tcpJobs, [op |-> "update", t |-> t])
    <2> HIDE DEF d
    <2> QED BY <1>1, CreateTransportShifts
  <1>6. \A f \in Fields \ {"created"} : e[f] = d[f]
    <2> HIDE DEF d
    <2> QED BY <1>1 DEF Fit, Good, Fields
  <1>7. e.created = t
    <2> HIDE DEF d
    <2> QED BY <1>1 DEF Fit, Good, Fields
  <1> HIDE DEF e, q
  <1>8. /\ q.transport = t /\ q.created = t
        /\ q.requests = d.requests /\ q.answered = d.answered
        /\ q.batch = d.batch /\ q.session = d.session /\ q.ctxJobs = d.ctxJobs
        /\ q.authInfo = d.authInfo /\ q.infos = d.infos
        /\ d.flushing => q.flushing
        /\ Fades(d, q)
        /\ d.registered => \A r \in d.requests : q.context[r] = None
    BY <1>1, <1>5, <1>6, <1>7 DEF Shifts, Fields, Fades, SameAttempt, Stopped
  <1>9. /\ d.requests = p.requests /\ d.answered = p.answered
        /\ d.batch = p.batch /\ d.session = p.session /\ d.ctxJobs = p.ctxJobs
        /\ d.authInfo = p.authInfo /\ d.infos = p.infos /\ d.registered = p.registered
        /\ p.flushing => d.flushing
        /\ Fades(p, d)
    <2>1. CASE p.transport = 0
      BY <2>1 DEF DropTransport, Fades, SameAttempt, Fit, Typed, Contexts
    <2>2. CASE p.transport # 0
      <3>1. Shifts(p, d, 0)  BY <2>2, DropTransportShifts
      <3> HIDE DEF d
      <3> QED BY <3>1 DEF Shifts
    <2> QED BY <2>1, <2>2
  <1>10. Succeeds(p, q)
    <2>1. CASE p.transport = 0
      <3>1. d.tcpJobs = p.tcpJobs  BY <2>1 DEF DropTransport
      <3> HIDE DEF d, n, t
      <3>2. /\ Len(q.tcpJobs) = n + 1
            /\ q.tcpJobs[n + 1] = [op |-> "update", t |-> t]
        BY <1>3, <1>5, <3>1, AppendFacts DEF n
      <3>3. ({p.transport} \cup (p.created + 1)..q.created) \ {0, q.created} = {}
        BY <1>3, <1>8, <2>1 DEF t
      <3>4. p.created < q.created  BY <1>3, <1>8
      <3>5. n + 1 \in (n + 1)..Len(q.tcpJobs) /\ \A i \in (n + 1)..Len(q.tcpJobs) : i = n + 1
        BY <1>3, <3>2
      <3> QED BY SMTT(30), <1>8, <3>2, <3>3, <3>4, <3>5 DEF Succeeds, n
    <2>2. CASE p.transport # 0
      <3> DEFINE D == [op |-> "detach", t |-> p.transport]
                 T == [op |-> "stop", t |-> p.transport]
                 A == Append(p.tcpJobs, D)
                 B == Append(A, T)
      <3>1. d.tcpJobs = Append(B, T)  BY <2>2, DropTransportShifts
      <3> HIDE DEF d, n, t
      <3>2. D.op = "detach" /\ D.t = p.transport /\ T.op = "stop" /\ T.t = p.transport
        OBVIOUS
      <3> HIDE DEF D, T
      <3>3. IsQueue(A) /\ Len(A) = n + 1 /\ A[n + 1] = D
        BY <1>3, AppendFacts DEF n
      <3> HIDE DEF A
      <3>4. IsQueue(B) /\ Len(B) = n + 2 /\ B[n + 1] = D /\ B[n + 2] = T
        BY <1>3, <3>3, AppendFacts
      <3> HIDE DEF B
      <3>5. /\ Len(d.tcpJobs) = n + 3
            /\ d.tcpJobs[n + 1] = D /\ d.tcpJobs[n + 2] = T /\ d.tcpJobs[n + 3] = T
        BY <1>3, <3>1, <3>4, AppendFacts
      <3>6. /\ Len(q.tcpJobs) = n + 4
            /\ q.tcpJobs[n + 4] = [op |-> "update", t |-> t]
            /\ q.tcpJobs[n + 1] = D /\ q.tcpJobs[n + 2] = T /\ q.tcpJobs[n + 3] = T
        BY <1>3, <1>4, <1>5, <3>5, AppendFacts
      <3>7. p.transport = p.created  BY <2>2 DEF Fit, Typed
      <3>8. ({p.transport} \cup (p.created + 1)..q.created) \ {0, q.created} = {p.transport}
        BY <1>3, <1>8, <2>2, <3>7 DEF t
      <3>9. p.transport \in 1..(q.created - 1) /\ p.created < q.created
        BY <1>3, <1>8, <2>2, <3>7
      <3>10. /\ n + 4 \in (n + 1)..Len(q.tcpJobs) /\ n + 2 \in (n + 1)..((n + 4) - 1)
             /\ \A i \in (n + 1)..Len(q.tcpJobs) : i \in {n + 1, n + 2, n + 3, n + 4}
        BY <1>3, <3>6
      <3>11. q.tcpJobs[n + 2] = [op |-> "stop", t |-> p.transport]
        BY <3>6 DEF T
      <3>12. /\ q.tcpJobs[n + 4] = [op |-> "update", t |-> q.created]
             /\ \A u \in ({p.transport} \cup (p.created + 1)..q.created) \ {0, q.created} :
                   \E j \in (n + 1)..((n + 4) - 1) : q.tcpJobs[j] = [op |-> "stop", t |-> u]
        BY <1>8, <3>6, <3>8, <3>10, <3>11
      <3>13. ASSUME NEW i \in (n + 1)..Len(q.tcpJobs), q.tcpJobs[i].op \in {"detach", "stop"}
             PROVE  q.tcpJobs[i].t \in 1..(q.created - 1)
        <4>1. CASE i = n + 4  BY <3>6, <3>13, <4>1
        <4>2. CASE i # n + 4  BY <3>2, <3>6, <3>9, <3>10, <4>2
        <4> QED BY <4>1, <4>2
      <3> QED BY <1>8, <3>9, <3>10, <3>12, <3>13 DEF Succeeds, n
    <2> QED BY <2>1, <2>2
  <1>11. Fades(p, q)
    <2> HIDE DEF d
    <2> QED BY <1>8, <1>9, FadesTwice
  <1> HIDE DEF d
  <1>12. Renews(p, q)  BY <1>8, <1>9 DEF Renews
  <1>13. Typed(q) /\ KeyMoves(p, q)  BY <1>5, <1>8, <1>9 DEF Fit, KeyMoves
  <1>14. Moves(p, q)  BY <1>2, <1>8, <1>9, <1>10, <1>11, <1>12, <1>13 DEF Moves
  <1> QED BY <1>8, <1>9, <1>14 DEF d, q

LEMMA ResetTransportMoves ==
    ASSUME NEW p, Fit(p)
    PROVE  Moves(p, ResetTransport(p)) /\ (p.flushing => ResetTransport(p).flushing)
  <1> DEFINE q == [p EXCEPT !.state = @ \cup {"authorization"}]
  <1>1. CASE Stopped(p)  BY <1>1, GoesSelf DEF ResetTransport, Goes
  <1>2. CASE ~Stopped(p) /\ p.key = 0
    <2>1. DropTransport(p) = p  BY <1>2 DEF DropTransport, Fit, Typed
    <2>2. ResetTransport(p) = q  BY <1>2, <2>1 DEF ResetTransport
    <2>3. /\ Alike(p, q) /\ q.session = p.session
          /\ q.requests = p.requests /\ q.answered = p.answered /\ q.context = p.context
          /\ q.batch = p.batch /\ q.flushing = p.flushing /\ q.reported = p.reported
      BY DEF Alike, Fit, Good, Fields, Stopped, Paused
    <2> HIDE DEF q
    <2>4. SessionFields \subseteq DOMAIN q.session  BY <2>3 DEF Fit, Typed
    <2>5. Moves(p, q)  BY <2>3, <2>4, SmallMove
    <2> QED BY <2>2, <2>3, <2>5
  <1>3. CASE ~Stopped(p) /\ p.key # 0  BY <1>3, CreatesMoves DEF ResetTransport
  <1> QED BY <1>1, <1>2, <1>3

\* a transaction asked for covers whatever can be sent
LEMMA AskedFor ==
    ASSUME NEW p, NEW q, Moves(p, q), p.flushing => q.flushing,
           \/ q.flushing
           \/ Offered(q) = {}
           \/ ~CanAskTransactions(q)
    PROVE  Goes(p, q)
BY DEF Goes, Asks

----
(* Sessions, salts and time. *)

LEMMA ResetSessionInfoGoes ==
    ASSUME NEW p, Fit(p)
    PROVE  Goes(p, ResetSessionInfo(p))
  <1> DEFINE q == [p EXCEPT !.lock = IF @ = "clear" THEN "held" ELSE "clear",
                            !.session = NewSession(p.batch)]
             r == RequestsSessionChanged(q)
             s == TimeSyncRestart(r)
             u == ResetTransport(s)
  <1>1. ResetSessionInfo(p) = IF p.lock = "held" THEN p ELSE u
    BY DEF ResetSessionInfo
  <1>2. /\ Alike(p, q) /\ q.session = NewSession(p.batch)
        /\ q.requests = p.requests /\ q.answered = p.answered /\ q.context = p.context
        /\ q.batch = p.batch /\ q.flushing = p.flushing /\ q.reported = p.reported
        /\ q.state = p.state
    BY DEF Alike, Fit, Good, Fields, Stopped, Paused
  <1> HIDE DEF q
  <1>3. /\ SessionFields \subseteq DOMAIN q.session /\ q.session.first = p.batch
        /\ q.session.processed = {} /\ q.session.containers = {}
    BY <1>2 DEF NewSession, SessionFields
  <1>4. Fit(q) /\ Grows(p, q)
    BY <1>2, <1>3, AlikeGrows, GrowsIsGood DEF Answers, Fit, Typed, Contexts,
       FlushIsQueued, Alike
  <1>5. /\ Recalls(q, r) /\ Fit(r)
        /\ q.registered => \A x \in Requests : r.context[x] = None
        /\ q.registered /\ q.requests # {} => r.flushing
    BY <1>4, RequestsSessionChangedRecalls, RecallsIsFit
  <1> HIDE DEF r
  <1>6. Moves(p, r)
    <2>1. Grows(p, r)  BY <1>4, <1>5, GrowsTwice DEF Fit, Recalls
    <2>2. Fades(p, r)
      BY <1>2, <1>5, FadesTwice DEF Fades, SameAttempt, Fit, Typed, Contexts, Recalls
    <2>3. Renews(p, r)
      BY <1>2, <1>3, <1>5 DEF Renews, Alike, Recalls, Untouched
    <2>4. Stays(p, r) /\ KeyMoves(p, r)
      BY <1>2, <1>5, QueueFacts DEF Fit, Good, Stays, KeyMoves, Alike, Recalls,
         Untouched
    <2>5. r.requests = p.requests /\ r.answered = p.answered
      BY <1>2, <1>5 DEF Recalls, Untouched
    <2> QED BY <1>5, <2>1, <2>2, <2>3, <2>4, <2>5 DEF Moves, Fit
  <1>7. Recalls(r, s) /\ Fit(s) /\ Moves(r, s)
    <2>1. Recalls(r, s) /\ Fit(s)  BY <1>5, TimeSyncRecalls, RecallsIsFit
    <2> HIDE DEF s
    <2>2. Goes(r, s)  BY <1>5, <2>1, RecallsGoes
    <2> QED BY <2>1, <2>2 DEF Goes
  <1> HIDE DEF s
  <1>8. Moves(s, u) /\ (s.flushing => u.flushing)  BY <1>7, ResetTransportMoves
  <1> HIDE DEF u
  <1>9. Moves(p, u)  BY <1>6, <1>7, <1>8, MovesTwice
  <1>10. /\ r.flushing => u.flushing
         /\ p.flushing => u.flushing
    BY <1>2, <1>5, <1>7, <1>8 DEF Recalls, Asks
  <1>11. u.flushing \/ Offered(u) = {}
    BY <1>2, <1>5, <1>9, <1>10 DEF Moves, Grows, Lives, Alike, Offered
  <1>12. Goes(p, u)  BY <1>9, <1>10, <1>11, AskedFor
  <1> QED BY <1>1, <1>12, GoesSelf

LEMMA InitiateTimeSyncGoes ==
    ASSUME NEW p, Fit(p)
    PROVE  Goes(p, InitiateTimeSync(p))
  <1> DEFINE q == [p EXCEPT !.state = @ \cup {"timeFixAndSalts"}]
             r == [q EXCEPT !.timeSync = [NoTimeSync EXCEPT !.present = TRUE]]
  <1>1. InitiateTimeSync(p) = IF q.timeSync.present THEN q ELSE RequestTransactions(r)
    BY DEF InitiateTimeSync
  <1>2. /\ Alike(p, q) /\ q.session = p.session
        /\ q.requests = p.requests /\ q.answered = p.answered /\ q.context = p.context
        /\ q.batch = p.batch /\ q.flushing = p.flushing /\ q.reported = p.reported
        /\ ~CanAskTransactions(q)
    BY DEF Alike, Fit, Good, Fields, Stopped, Paused, CanAskTransactions
  <1>3. /\ Alike(p, r) /\ r.session = p.session
        /\ r.requests = p.requests /\ r.answered = p.answered /\ r.context = p.context
        /\ r.batch = p.batch /\ r.flushing = p.flushing /\ r.reported = p.reported
        /\ ~CanAskTransactions(r)
    BY DEF Alike, Fit, Good, Fields, Stopped, Paused, CanAskTransactions
  <1> HIDE DEF q, r
  <1>4. SessionFields \subseteq DOMAIN p.session  BY DEF Fit, Typed
  <1>5. Goes(p, q)  BY <1>2, <1>4, SmallMove
  <1>6. Goes(p, r)  BY <1>3, <1>4, SmallMove
  <1>7. Goes(r, RequestTransactions(r))
    BY <1>6, GoesIsFit, RequestTransactionsRecalls, RecallsGoes
  <1> QED BY <1>1, <1>5, <1>6, <1>7, GoesTwice

LEMMA CompleteTimeSyncMoves ==
    ASSUME NEW p, Fit(p)
    PROVE  Moves(p, CompleteTimeSync(p)) /\ CompleteTimeSync(p).flushing = p.flushing
  <1> DEFINE q == [p EXCEPT !.state = @ \ {"timeFixAndSalts"}, !.timeSync = NoTimeSync]
  <1>1. CompleteTimeSync(p) = q  BY DEF CompleteTimeSync
  <1>2. /\ Alike(p, q) /\ q.session = p.session
        /\ q.requests = p.requests /\ q.answered = p.answered /\ q.context = p.context
        /\ q.batch = p.batch /\ q.flushing = p.flushing /\ q.reported = p.reported
    BY DEF Alike, Fit, Good, Fields, Stopped, Paused
  <1>3. SessionFields \subseteq DOMAIN p.session  BY DEF Fit, Typed
  <1> HIDE DEF q
  <1> QED BY <1>1, <1>2, <1>3, SmallMove

\* the new key is Context's last, and what can be sent has been asked for
LEMMA TimeSyncInfoChangedMoves ==
    ASSUME NEW p, Fit(p)
    PROVE  LET q == TimeSyncInfoChanged(p)
           IN Moves(p, q) /\ (p.flushing => q.flushing) /\ (CanAskTransactions(q) => q.flushing)
  <1> DEFINE info == p.infos + 1
             q == [p EXCEPT !.infos = info, !.authInfo = info, !.ctxJobs = Append(@, info)]
             cond == CanAskTransactions(q) \/ CanAskServiceTransactions(q)
             r == RequestIf(cond, q)
  <1>1. TimeSyncInfoChanged(p) = r  BY DEF TimeSyncInfoChanged
  <1>2. /\ Fields \subseteq DOMAIN q
        /\ q.infos = info /\ q.authInfo = info /\ q.ctxJobs = Append(p.ctxJobs, info)
        /\ \A f \in Fields \ {"infos", "authInfo", "ctxJobs"} : q[f] = p[f]
    BY DEF Fit, Good, Fields
  <1>3. info \in Nat \ {0} /\ p.infos \in Nat /\ info > p.infos
    BY DEF Fit, Good
  <1> HIDE DEF q, info
  <1>4. /\ q.state = p.state /\ q.transport = p.transport /\ q.created = p.created
        /\ q.key = p.key /\ q.missed = p.missed /\ q.registered = p.registered /\ q.answered = p.answered
        /\ q.jobs = p.jobs /\ q.tcpJobs = p.tcpJobs /\ q.session = p.session
        /\ q.requests = p.requests /\ q.context = p.context /\ q.batch = p.batch
        /\ q.flushing = p.flushing /\ q.reported = p.reported
    BY <1>2 DEF Fields
  <1>5. /\ IsQueue(q.ctxJobs) /\ Len(q.ctxJobs) = Len(p.ctxJobs) + 1
        /\ Len(p.ctxJobs) \in Nat
        /\ \A i \in 1..Len(p.ctxJobs) : q.ctxJobs[i] = p.ctxJobs[i]
        /\ q.ctxJobs[Len(p.ctxJobs) + 1] = info
    BY <1>2, AppendFacts, QueueFacts DEF Fit, Good
  <1>6. Good(q)  BY <1>2, <1>3, <1>4, <1>5, CounterKept DEF Fit, Good
  <1>7. Typed(q)  BY <1>4 DEF Fit, Typed, Contexts, FlushIsQueued
  <1>8. Grows(p, q)
    <2>1. CtxGrow(p, q)  BY <1>3, <1>5 DEF CtxGrow, Extended
    <2>2. JobsGrow(p, q) /\ TcpGrow(p, q)
      BY <1>4, ExtendedBySelf, QueueFacts DEF JobsGrow, TcpGrow, Fit, Good
    <2> QED BY <1>2, <1>3, <1>4, <1>6, <2>1, <2>2 DEF Grows, Lives, Fit, Good, Stopped, Paused
  <1>9. Fades(p, q) /\ Renews(p, q)
    BY <1>4 DEF Fades, SameAttempt, Renews, Fit, Typed, Contexts
  <1>10. Stays(p, q) /\ KeyMoves(p, q)
    BY <1>2, <1>3, <1>4, <1>5, QueueFacts DEF Fit, Good, Stays, KeyMoves
  <1>11. Moves(p, q) /\ Fit(q)
    BY <1>4, <1>6, <1>7, <1>8, <1>9, <1>10 DEF Moves, Fit
  <1>12. Recalls(q, r) /\ Moves(q, r)
    BY <1>11, RequestIfRecalls, RecallsGoes DEF Goes
  <1>13. Moves(p, r)
    <2> HIDE DEF r
    <2> QED BY <1>11, <1>12, MovesTwice
  <1>14. CanAskTransactions(r) => r.flushing
    <2>1. CanAskTransactions(r) => CanAskTransactions(q)
      <3> HIDE DEF r
      <3> QED BY <1>12 DEF Recalls, Untouched, CanAskTransactions
    <2>2. cond => r.flushing  BY <1>11, RequestTransactionsRecalls DEF RequestIf
    <2> QED BY <2>1, <2>2
  <1>15. p.flushing => r.flushing
    <2> HIDE DEF r
    <2> QED BY <1>4, <1>12 DEF Recalls, Asks
  <1> HIDE DEF r
  <1> QED BY <1>1, <1>13, <1>14, <1>15

LEMMA FixTimeGoes ==
    ASSUME NEW p, Fit(p)
    PROVE  Goes(p, FixTime(p))
  <1> DEFINE r == [p EXCEPT !.state = @ \ {"timeFixAndSalts"}]
             q == TimeSyncInfoChanged(r)
             s == [q EXCEPT !.timeFix = None]
  <1>1. FixTime(p) = ResetSessionInfo(s)  BY DEF FixTime
  <1>2. /\ Alike(p, r) /\ r.session = p.session
        /\ r.requests = p.requests /\ r.answered = p.answered /\ r.context = p.context
        /\ r.batch = p.batch /\ r.flushing = p.flushing /\ r.reported = p.reported
    BY DEF Alike, Fit, Good, Fields, Stopped, Paused
  <1>3. SessionFields \subseteq DOMAIN p.session  BY DEF Fit, Typed
  <1> HIDE DEF r
  <1>4. Moves(p, r) /\ Fit(r)  BY <1>2, <1>3, SmallMove, MovesIsFit
  <1>5. Moves(r, q) /\ (r.flushing => q.flushing) /\ (CanAskTransactions(q) => q.flushing)
    BY <1>4, TimeSyncInfoChangedMoves
  <1>6. Fit(q) /\ SessionFields \subseteq DOMAIN q.session
    BY <1>5, MovesIsFit DEF Fit, Typed
  <1> HIDE DEF q
  <1>7. /\ Alike(q, s) /\ s.session = q.session
        /\ s.requests = q.requests /\ s.answered = q.answered /\ s.context = q.context
        /\ s.batch = q.batch /\ s.flushing = q.flushing /\ s.reported = q.reported
        /\ s.state = q.state
    BY <1>6 DEF Alike, Fit, Good, Fields, Stopped, Paused
  <1> HIDE DEF s
  <1>8. Moves(q, s)  BY <1>6, <1>7, SmallMove
  <1>9. Moves(p, s)  BY <1>4, <1>5, <1>8, MovesTwice
  <1>10. Goes(p, s) /\ Fit(s)
    BY <1>2, <1>5, <1>7, <1>9, AskedFor, MovesIsFit DEF CanAskTransactions
  <1> QED BY <1>1, <1>10, ResetSessionInfoGoes, GoesTwice

LEMMA BadMessageCodeGoes ==
    ASSUME NEW p, NEW code, Fit(p)
    PROVE  Goes(p, BadMessageCode(p, code))
BY InitiateTimeSyncGoes, GoesIsFit, ResetSessionInfoGoes, GoesTwice DEF BadMessageCode

LEMMA DeliveryFailedForgets ==
    ASSUME NEW p, NEW mids, Fit(p), p.registered, NEW r \in p.requests,
           RequestDeliveryFailed(p, mids).context[r] # None
    PROVE  RequestDeliveryFailed(p, mids).context[r].mid \notin mids
  <1> DEFINE rs == {x \in Bound(p) : p.context[x].mid \in mids}
             q == [p EXCEPT !.context = [x \in Requests |-> IF x \in rs THEN None ELSE @[x]]]
  <1>1. RequestDeliveryFailed(p, mids) = RequestIf(rs # {}, q)
    BY DEF RequestDeliveryFailed, Forget
  <1>2. /\ Fields \subseteq DOMAIN q
        /\ q.context = [x \in Requests |-> IF x \in rs THEN None ELSE p.context[x]]
    BY DEF Fit, Good, Fields
  <1> HIDE DEF q, rs
  <1>3. RequestIf(rs # {}, q).context = q.context
    BY <1>2 DEF RequestIf, RequestTransactions, Fields
  <1>4. r \in Requests  BY DEF Fit, Typed, Contexts
  <1> QED BY SMTT(30), <1>1, <1>2, <1>3, <1>4 DEF rs, Bound

LEMMA MayHaveFailedForgets ==
    ASSUME NEW p, NEW tx, Fit(p), p.registered, ~Stopped(p), NEW r \in p.requests,
           TransactionsMayHaveFailed(p, tx).context[r] # None
    PROVE  TransactionsMayHaveFailed(p, tx).context[r].tx # tx
  <1> DEFINE rs == {x \in Bound(p) : p.context[x].tx = tx}
             q == [p EXCEPT !.context = [x \in Requests |-> IF x \in rs THEN None ELSE @[x]]]
  <1>1. TransactionsMayHaveFailed(p, tx) = RequestIf(rs # {}, q)
    BY DEF TransactionsMayHaveFailed, RequestsMayHaveFailed, Forget
  <1>2. /\ Fields \subseteq DOMAIN q
        /\ q.context = [x \in Requests |-> IF x \in rs THEN None ELSE p.context[x]]
    BY DEF Fit, Good, Fields
  <1> HIDE DEF q, rs
  <1>3. RequestIf(rs # {}, q).context = q.context
    BY <1>2 DEF RequestIf, RequestTransactions, Fields
  <1>4. r \in Requests  BY DEF Fit, Typed, Contexts
  <1> QED BY SMTT(30), <1>1, <1>2, <1>3, <1>4 DEF rs, Bound

LEMMA BadMessageGoes ==
    ASSUME NEW p, NEW body, Fit(p)
    PROVE  LET q == BadMessage(p, body)
           IN /\ Goes(p, q)
              /\ p.registered => \A r \in p.requests :
                    q.context[r] # None => q.context[r].mid \notin Rejected(p, body)
  <1> DEFINE mids == Rejected(p, body)
             q == IF body.k = "badMsg" THEN BadMessageCode(p, body.code)
                  ELSE IF p.timeFix = body.mid THEN FixTime(p)
                  ELSE InitiateTimeSync(p)
             r == RequestDeliveryFailed(q, mids)
             s == TimeSyncDeliveryFailed(r, mids)
  <1>1. BadMessage(p, body) = s  BY DEF BadMessage, Rejected, ChildrenOf
  <1>2. Goes(p, q) /\ Fit(q)
    BY BadMessageCodeGoes, FixTimeGoes, InitiateTimeSyncGoes, GoesIsFit
  <1> HIDE DEF q, mids
  <1>3. Recalls(q, r) /\ Goes(q, r) /\ Fit(r)
    BY <1>2, ServiceRecalls, RecallsGoes, GoesIsFit
  <1>4. q.registered = p.registered /\ q.requests = p.requests
    BY <1>2 DEF Goes, Moves, Grows, Lives
  <1>5. p.registered => \A x \in p.requests : r.context[x] # None => r.context[x].mid \notin mids
    BY <1>2, <1>4, DeliveryFailedForgets
  <1> HIDE DEF r
  <1>6. Recalls(r, s) /\ Goes(r, s)  BY <1>3, TimeSyncRecalls, RecallsGoes
  <1> HIDE DEF s
  <1>7. p.registered => \A x \in p.requests : s.context[x] # None => s.context[x].mid \notin mids
    BY <1>5, <1>6 DEF Fit, Typed, Contexts, Recalls, Fades, SameAttempt
  <1>8. Goes(p, s)  BY <1>2, <1>3, <1>6, GoesTwice
  <1> QED BY <1>1, <1>7, <1>8 DEF mids

LEMMA FutureSaltsGoes ==
    ASSUME NEW p, NEW body, Fit(p)
    PROVE  Goes(p, FutureSalts(p, body))
  <1> DEFINE q == TakeSample(p, body)
             c == CompleteTimeSync(q)
             r == TimeSyncInfoChanged(c)
  <1>1. FutureSalts(p, body) =
            IF ~TimeSyncMatches(p, body) THEN p
            ELSE IF EnoughSamples(q) THEN RequestIf(q.timeSync.required # p.timeSync.required, r)
            ELSE RequestTransactions(q)
    BY DEF FutureSalts
  <1>2. /\ Alike(p, q) /\ q.session = p.session
        /\ q.requests = p.requests /\ q.answered = p.answered /\ q.context = p.context
        /\ q.batch = p.batch /\ q.flushing = p.flushing /\ q.reported = p.reported
        /\ q.state = p.state
    BY DEF TakeSample, Alike, Fit, Good, Fields, Stopped, Paused
  <1>3. SessionFields \subseteq DOMAIN p.session  BY DEF Fit, Typed
  <1> HIDE DEF q
  <1>4. Moves(p, q) /\ Goes(p, q) /\ Fit(q)
    BY <1>2, <1>3, SmallMove, MovesIsFit DEF CanAskTransactions
  <1>5. Moves(q, c) /\ c.flushing = q.flushing /\ Fit(c)
    BY <1>4, CompleteTimeSyncMoves, MovesIsFit
  <1> HIDE DEF c
  <1>6. Moves(c, r) /\ (c.flushing => r.flushing) /\ (CanAskTransactions(r) => r.flushing)
    BY <1>5, TimeSyncInfoChangedMoves
  <1> HIDE DEF r
  <1>7. Moves(p, r)  BY <1>4, <1>5, <1>6, MovesTwice
  <1>8. Goes(p, r) /\ Fit(r)  BY <1>2, <1>5, <1>6, <1>7, AskedFor, MovesIsFit
  <1>9. /\ Goes(r, RequestIf(q.timeSync.required # p.timeSync.required, r))
        /\ Goes(q, RequestTransactions(q))
    BY <1>4, <1>8, RequestIfRecalls, RequestTransactionsRecalls, RecallsGoes
  <1>10. /\ Goes(p, RequestIf(q.timeSync.required # p.timeSync.required, r))
         /\ Goes(p, RequestTransactions(q))
    BY <1>4, <1>8, <1>9, GoesTwice
  <1> QED BY <1>1, <1>10, GoesSelf

----
(* Incoming messages. *)

LEMMA ScheduleAckGoes ==
    ASSUME NEW p, NEW id, Fit(p)
    PROVE  Goes(p, ScheduleAck(p, id))
  <1> DEFINE q == [p EXCEPT !.session.acks = @ \cup {id}]
  <1>1. /\ Alike(p, q)
        /\ q.requests = p.requests /\ q.answered = p.answered /\ q.context = p.context
        /\ q.batch = p.batch /\ q.flushing = p.flushing /\ q.reported = p.reported
        /\ q.state = p.state
    BY DEF Alike, Fit, Good, Fields, Stopped, Paused
  <1>2. SessionFields \subseteq DOMAIN p.session /\ "session" \in DOMAIN p
    BY DEF Fit, Good, Fields, Typed
  <1>3. /\ SessionFields \subseteq DOMAIN q.session
        /\ q.session.first = p.session.first /\ q.session.containers = p.session.containers
        /\ q.session.processed = p.session.processed
    BY <1>2 DEF SessionFields
  <1> HIDE DEF q
  <1>4. Goes(p, q)  BY <1>1, <1>3, SmallMove DEF CanAskTransactions
  <1> QED BY <1>4 DEF ScheduleAck, q

LEMMA DecodedGoes ==
    ASSUME NEW p, NEW t, Fit(p)
    PROVE  Goes(p, Decoded(p, t))
  <1> DEFINE v == PostTcp(p, "valid", t)
             sure == {id \in v.session.acks : <<id, t>> \in v.session.carried}
             q == [v EXCEPT !.session.acks = @ \ sure,
                            !.session.carried = {c \in @ : c[1] \notin sure}]
  <1>1. Decoded(p, t) = q  BY DEF Decoded, TransactionsSucceeded
  <1>2. Hands(p, v, "valid", t)  BY PostTcpFit
  <1> HIDE DEF v
  <1>3. Goes(p, v) /\ Fit(v)
    <2>1. /\ Fit(v) /\ v.tcpJobs = Append(p.tcpJobs, [op |-> "valid", t |-> t])
          /\ v.state = p.state /\ v.transport = p.transport /\ v.created = p.created
          /\ v.ctxJobs = p.ctxJobs /\ v.key = p.key /\ v.registered = p.registered
          /\ v.answered = p.answered /\ v.session = p.session /\ v.requests = p.requests
          /\ v.context = p.context /\ v.batch = p.batch /\ v.flushing = p.flushing
          /\ v.reported = p.reported /\ v.infos = p.infos /\ v.authInfo = p.authInfo
      BY <1>2 DEF Hands, Fields
    <2>2. Grows(p, v)  BY PostTcpGrows DEF Fit, v
    <2>3. Fades(p, v) /\ Renews(p, v) /\ KeyMoves(p, v)
      BY <2>1 DEF Fades, SameAttempt, Renews, KeyMoves, Fit, Typed, Contexts
    <2>4. Stays(p, v)  BY <2>1, QueueFacts, AppendFacts DEF Fit, Good, Stays
    <2>5. Moves(p, v)  BY <2>1, <2>2, <2>3, <2>4 DEF Moves, Fit
    <2>6. Asks(p, v)  BY <2>1 DEF Asks, Offered, CanAskTransactions
    <2> QED BY <2>1, <2>5, <2>6 DEF Goes
  <1> HIDE DEF sure
  <1>4. /\ Alike(v, q)
        /\ q.requests = v.requests /\ q.answered = v.answered /\ q.context = v.context
        /\ q.batch = v.batch /\ q.flushing = v.flushing /\ q.reported = v.reported
        /\ q.state = v.state
    BY <1>3 DEF Alike, Fit, Good, Fields, Stopped, Paused
  <1>5. SessionFields \subseteq DOMAIN v.session /\ "session" \in DOMAIN v
    BY <1>3 DEF Fit, Good, Fields, Typed
  <1>6. /\ SessionFields \subseteq DOMAIN q.session
        /\ q.session.first = v.session.first /\ q.session.containers = v.session.containers
        /\ q.session.processed = v.session.processed
    BY <1>5 DEF SessionFields
  <1> HIDE DEF q
  <1>7. Goes(v, q)  BY <1>3, <1>4, <1>6, SmallMove DEF CanAskTransactions
  <1> QED BY <1>1, <1>3, <1>7, GoesTwice

\* all but a result
LEMMA DispatchGoes ==
    ASSUME NEW p, NEW m, Fit(p)
    PROVE  \E s : /\ Goes(p, s)
                  /\ Dispatch(p, m) = (IF m.body.k \in {"rpcResult", "rpcSilent"}
                                       THEN ReceiveResult(s, m.body) ELSE s)
  <1> DEFINE q == IF NeedsAck(m.body) THEN ScheduleAck(p, m.id) ELSE p
             s == RequestIf(NeedsAck(m.body) /\ AcksExceedThreshold(q), q)
  <1>1. Dispatch(p, m) =
            CASE m.body.k \in {"rpcResult", "rpcSilent"} -> ReceiveResult(s, m.body)
              [] m.body.k = "futureSalts"                -> FutureSalts(s, m.body)
              [] OTHER                                   -> s
    BY DEF Dispatch
  <1>2. Goes(p, q) /\ Fit(q)  BY ScheduleAckGoes, GoesSelf, GoesIsFit
  <1> HIDE DEF q
  <1>3. Goes(p, s) /\ Fit(s)
    <2>1. Goes(q, s)  BY <1>2, RequestIfRecalls, RecallsGoes
    <2> HIDE DEF s
    <2> QED BY <1>2, <2>1, GoesTwice, GoesIsFit
  <1> HIDE DEF s
  <1>4. Goes(p, FutureSalts(s, m.body))  BY <1>3, FutureSaltsGoes, GoesTwice
  <1>5. CASE m.body.k \in {"rpcResult", "rpcSilent"}  BY <1>1, <1>3, <1>5
  <1>6. CASE m.body.k \notin {"rpcResult", "rpcSilent"} /\ m.body.k = "futureSalts"
    BY <1>1, <1>4, <1>6
  <1>7. CASE m.body.k \notin {"rpcResult", "rpcSilent"} /\ m.body.k # "futureSalts"
    BY <1>1, <1>3, <1>7
  <1> QED BY <1>5, <1>6, <1>7

LEMMA NotedFit ==
    ASSUME NEW p, NEW m, Fit(p)
    PROVE  LET b == Noted(p, m)
           IN /\ Fit(b) /\ Fields \subseteq DOMAIN b
              /\ \A f \in Fields \ {"session"} : b[f] = p[f]
              /\ SessionFields \subseteq DOMAIN b.session
              /\ b.session.first = p.session.first
              /\ b.session.containers = p.session.containers
              /\ b.session.processed = p.session.processed \cup {m.id}
  <1> DEFINE b == Noted(p, m)
  <1>1. /\ Fields \subseteq DOMAIN b
        /\ \A f \in Fields \ {"session"} : b[f] = p[f]
    BY DEF Fit, Good, Fields, Noted
  <1>2. SessionFields \subseteq DOMAIN p.session /\ "session" \in DOMAIN p
    BY DEF Fit, Good, Fields, Typed
  <1>3. /\ SessionFields \subseteq DOMAIN b.session
        /\ b.session.first = p.session.first
        /\ b.session.containers = p.session.containers
        /\ b.session.processed = p.session.processed \cup {m.id}
    BY <1>2 DEF SessionFields, Noted
  <1> HIDE DEF b
  <1>4. /\ b.state = p.state /\ b.transport = p.transport /\ b.created = p.created
        /\ b.flushing = p.flushing /\ b.jobs = p.jobs /\ b.tcpJobs = p.tcpJobs
        /\ b.ctxJobs = p.ctxJobs /\ b.batch = p.batch /\ b.authInfo = p.authInfo
        /\ b.infos = p.infos /\ b.key = p.key /\ b.registered = p.registered
        /\ b.requests = p.requests /\ b.context = p.context /\ b.answered = p.answered
    BY <1>1 DEF Fields
  <1>5. Good(b)  BY <1>1, <1>4, CounterKept DEF Fit, Good
  <1>6. Typed(b)  BY <1>3, <1>4 DEF Fit, Typed, Contexts, FlushIsQueued
  <1> QED BY <1>1, <1>3, <1>5, <1>6 DEF Fit, b

LEMMA ProcessIncomingMessageHandles ==
    ASSUME NEW p, NEW m, Fit(p)
    PROVE  Handled(p, m, ProcessIncomingMessage(p, m))
  <1> DEFINE q == ProcessIncomingMessage(p, m)
             b == Noted(p, m)
  <1>1. CASE m.id \in p.session.processed
    <2> DEFINE f == [p EXCEPT !.forceAcks = TRUE]
    <2>1. q = RequestTransactions(ScheduleAck(f, m.id))
      BY <1>1 DEF ProcessIncomingMessage
    <2>2. /\ Alike(p, f) /\ f.session = p.session
          /\ f.requests = p.requests /\ f.answered = p.answered /\ f.context = p.context
          /\ f.batch = p.batch /\ f.flushing = p.flushing /\ f.reported = p.reported
          /\ f.state = p.state
      BY DEF Alike, Fit, Good, Fields, Stopped, Paused
    <2> HIDE DEF f, q
    <2>3. Goes(p, f) /\ Fit(f)
      BY <2>2, SmallMove, GoesIsFit DEF CanAskTransactions, Fit, Typed
    <2>4. Goes(p, ScheduleAck(f, m.id)) /\ Fit(ScheduleAck(f, m.id))
      BY <2>3, ScheduleAckGoes, GoesTwice, GoesIsFit
    <2>5. Goes(p, q)
      BY <2>1, <2>4, RequestTransactionsRecalls, RecallsGoes, GoesTwice
    <2> QED BY <1>1, <2>5 DEF Handled, q
  <1>2. CASE m.id \notin p.session.processed
    <2>1. q = CASE m.body.k \in {"badSalt", "badMsg"} -> BadMessage(b, m.body)
                [] m.body.k = "acks" -> RequestDeliveryConfirmed(b, {m.body.mid})
                [] OTHER             -> Dispatch(b, m)
      BY <1>2 DEF ProcessIncomingMessage, Noted
    <2>2. /\ Fit(b) /\ b.registered = p.registered /\ b.requests = p.requests
          /\ b.session.containers = p.session.containers
      BY NotedFit DEF Fields
    <2> HIDE DEF b, q
    <2>3. CASE m.body.k \in {"badSalt", "badMsg"}
      BY <1>2, <2>1, <2>2, <2>3, BadMessageGoes DEF Rejected, ChildrenOf, Handled, b,
         q
    <2>4. CASE m.body.k = "acks"
      BY <1>2, <2>1, <2>2, <2>4, RequestDeliveryConfirmedRecalls, RecallsGoes DEF
         Handled, b, q
    <2>5. CASE m.body.k \notin {"badSalt", "badMsg", "acks"}
      BY <1>2, <2>1, <2>2, <2>5, DispatchGoes DEF Handled, b, q
    <2> QED BY <2>3, <2>4, <2>5
  <1> QED BY <1>1, <1>2

----
(* The turns of Proto's queue: b is the Proto when the head of the queue *)
(* has been taken and the fields fs have been set, proto' what becomes of *)
(* it. *)

LEMMA FirstJob ==
    ASSUME IInv, proto.jobs # <<>>
    PROVE  /\ Len(proto.jobs) \in Nat /\ Len(proto.jobs) >= 1
           /\ TheJob = proto.jobs[1] /\ HeadOp = proto.jobs[1].op
BY ProtoQueues, TailFacts, QueueFacts DEF TheJob, HeadOp

LEMMA TakenBase ==
    ASSUME IInv, proto.jobs # <<>>, NEW b, NEW fs, Fields \subseteq DOMAIN b,
           b.jobs = Tail(proto.jobs),
           \A f \in Fields \ (fs \cup {"jobs"}) : b[f] = proto[f]
    PROVE  Base(b, 1, fs)
BY ProtoQueues, TailFacts DEF Shifted, Base

LEMMA DequeuedBase ==
    ASSUME IInv, proto.jobs # <<>>
    PROVE  Base(Dequeued, 1, {})
BY ProtoQueues, TakenBase DEF Dequeued, Good, Fields

\* the rest of a packet takes the place of the head
LEMMA ReplacedBase ==
    ASSUME IInv, proto.jobs # <<>>, HeadOp \in {"incoming", "messages"}, NEW msgs
    PROVE  LET b == [Dequeued EXCEPT !.jobs = <<[op |-> "messages", msgs |-> msgs]>> \o @]
           IN Base(b, 0, {}) /\ b.jobs[1] = [op |-> "messages", msgs |-> msgs]
  <1> DEFINE job == [op |-> "messages", msgs |-> msgs]
             b == [Dequeued EXCEPT !.jobs = <<job>> \o @]
             u == <<job>> \o Tail(proto.jobs)
  <1>1. /\ Fields \subseteq DOMAIN b
        /\ b.jobs = u
        /\ \A f \in Fields \ {"jobs"} : b[f] = proto[f]
    BY DequeuedBase DEF Base, Fields, Dequeued
  <1>2. /\ IsQueue(u) /\ Len(u) = Len(proto.jobs)
        /\ u[1] = job
        /\ \A i \in 2..Len(proto.jobs) : u[i] = proto.jobs[i]
    BY ProtoQueues, ReplaceFacts
  <1>3. job.op = "messages"  OBVIOUS
  <1> HIDE DEF b, u, job
  <1>4. Len(proto.jobs) \in Nat /\ Len(proto.jobs) >= 1 /\ HeadOp = proto.jobs[1].op
    BY FirstJob
  <1>5. Shifted(proto, b, 0)  BY <1>1, <1>2, <1>3, <1>4 DEF Shifted
  <1>6. Base(b, 0, {})  BY <1>1, <1>2, <1>5 DEF Base
  <1> QED BY <1>1, <1>2, <1>6 DEF b, job

LEMMA BaseFit ==
    ASSUME IInv, Fit(proto), NEW b, NEW d, NEW fs, Base(b, d, fs),
           fs \subseteq {"state", "authInfo", "registered", "reported", "requests", "context", "flushing"},
           Contexts(b),
           \/ b.flushing = FALSE
           \/ HeadOp # "flush" /\ "flushing" \notin fs
    PROVE  Fit(b)
  <1>1. /\ b.transport = proto.transport /\ b.created = proto.created
        /\ b.tcpJobs = proto.tcpJobs /\ b.ctxJobs = proto.ctxJobs
        /\ b.batch = proto.batch /\ b.session = proto.session
        /\ b.infos = proto.infos /\ b.key = proto.key /\ b.answered = proto.answered
    BY DEF Base, Fields
  <1>2. Good(b)  BY <1>1 DEF Base, Fit, Good, IsCounter
  <1>3. FlushIsQueued(b)
    <2>1. CASE b.flushing = FALSE  BY <2>1 DEF FlushIsQueued
    <2>2. CASE HeadOp # "flush" /\ b.flushing = proto.flushing
      <3> SUFFICES ASSUME b.flushing
                   PROVE  \E i \in 1..Len(b.jobs) : b.jobs[i].op = "flush"
        BY DEF FlushIsQueued
      <3>1. PICK i \in 1..Len(proto.jobs) : proto.jobs[i].op = "flush"
        BY <2>2 DEF Fit, Typed, FlushIsQueued
      <3>2. Len(proto.jobs) \in Nat /\ HeadOp = proto.jobs[1].op
        BY FirstJob DEF Base
      <3>3. i # 1  BY <2>2, <3>1, <3>2
      <3>4. i - d \in 1..Len(b.jobs) /\ (i - d) + d = i
        BY <3>1, <3>2, <3>3 DEF Base, Shifted
      <3>5. b.jobs[i - d] = proto.jobs[i]  BY <3>1, <3>3, <3>4 DEF Base, Shifted
      <3> QED BY <3>1, <3>4, <3>5
    <2>3. "flushing" \notin fs => b.flushing = proto.flushing
      BY DEF Base, Fields
    <2> QED BY <2>1, <2>2, <2>3
  <1>4. Typed(b)  BY <1>1, <1>3 DEF Fit, Typed
  <1> QED BY <1>2, <1>4 DEF Fit

\* when the requests and their contexts are left alone
LEMMA PlainBaseFit ==
    ASSUME IInv, Fit(proto), NEW b, NEW d, NEW fs, Base(b, d, fs),
           fs \subseteq {"state", "authInfo", "registered", "reported"}, HeadOp # "flush"
    PROVE  Fit(b)
  <1>1. b.requests = proto.requests /\ b.context = proto.context
    BY DEF Base, Fields
  <1>2. Contexts(b)  BY <1>1 DEF Fit, Typed, Contexts
  <1> QED BY <1>2, BaseFit

LEMMA CalmDequeued ==
    ASSUME FInv, proto.jobs # <<>>, HeadOp # "flush", Run(Dequeued)
    PROVE  Calm /\ Fit(Dequeued) /\ proto' = Dequeued
BY DequeuedBase, PlainBaseFit, GoesSelf DEF FInv, Run, Become, Calm

LEMMA AddTurns ==
    ASSUME FInv, DoAdd
    PROVE  AddTurn
  <1> DEFINE b == [Dequeued EXCEPT !.requests = @ \cup {TheJob.r}]
             q == RequestTransactions(b)
  <1>1. proto.jobs # <<>> /\ HeadOp = "add" /\ TheJob.op = "add" /\ Become(q, {})
    BY HeadFacts DEF DoAdd, Run, AddRequest
  <1>2. TheJob.r \in Requests  BY <1>1, FirstJob DEF FInv, Calls
  <1>3. /\ Fields \subseteq DOMAIN b /\ b.jobs = Tail(proto.jobs)
        /\ \A f \in Fields \ {"requests", "jobs"} : b[f] = proto[f]
        /\ b.requests = proto.requests \cup {TheJob.r} /\ b.context = proto.context
    BY <1>1, DequeuedBase DEF FInv, Base, Dequeued, Fields
  <1> HIDE DEF b
  <1>4. Base(b, 1, {"requests"})  BY <1>1, <1>3, TakenBase DEF FInv
  <1>5. Fit(b)
    <2>1. Contexts(b)  BY <1>2, <1>3 DEF FInv, Fit, Typed, Contexts
    <2> QED BY <1>1, <1>4, <2>1, BaseFit DEF FInv
  <1>6. Recalls(b, q) /\ q.flushing  BY <1>5, RequestTransactionsRecalls
  <1> HIDE DEF q
  <1>7. proto' = q  BY <1>1 DEF Become
  <1> QED BY <1>1, <1>2, <1>3, <1>4, <1>5, <1>6, <1>7 DEF AddTurn

LEMMA CancelTurns ==
    ASSUME FInv, DoCancel
    PROVE  CancelTurn
  <1> DEFINE q == RemoveRequest(Dequeued, TheJob.r)
  <1>1. proto.jobs # <<>> /\ HeadOp = "cancel" /\ Become(q, {})
    BY HeadFacts DEF DoCancel, Run
  <1>2. /\ Fields \subseteq DOMAIN q /\ q.jobs = Tail(proto.jobs)
        /\ \A f \in Fields \ {"requests", "context", "jobs"} : q[f] = proto[f]
        /\ q.requests = proto.requests \ {TheJob.r}
        /\ q.context = [proto.context EXCEPT ![TheJob.r] = None]
    BY <1>1, DequeuedBase DEF FInv, Base, Dequeued, Fields, RemoveRequest
  <1> HIDE DEF q
  <1>3. Base(q, 1, {"requests", "context"})  BY <1>1, <1>2, TakenBase DEF FInv
  <1>4. Fit(q)
    <2>1. Contexts(q)  BY <1>2 DEF FInv, Fit, Typed, Contexts
    <2> QED BY <1>1, <1>3, <2>1, BaseFit DEF FInv
  <1>5. proto' = q  BY <1>1 DEF Become
  <1> QED BY <1>1, <1>2, <1>3, <1>4, <1>5 DEF CancelTurn

LEMMA ConnStateTurns ==
    ASSUME FInv, DoConnState
    PROVE  ConnStateTurn
  <1> DEFINE told == IF TheJob.up THEN "connected" ELSE "connecting"
             q == [Dequeued EXCEPT !.reported = told]
  <1>1. proto.jobs # <<>> /\ HeadOp = "connState" /\ TheJob.op = "connState" /\ Become(q, {})
    BY HeadFacts DEF DoConnState, Run
  <1> HIDE DEF told
  <1>2. /\ Fields \subseteq DOMAIN q /\ q.jobs = Tail(proto.jobs)
        /\ \A f \in Fields \ {"reported", "jobs"} : q[f] = proto[f]
        /\ q.reported = told
    BY <1>1, DequeuedBase DEF FInv, Base, Dequeued, Fields
  <1> HIDE DEF q
  <1>3. Base(q, 1, {"reported"})  BY <1>1, <1>2, TakenBase DEF FInv
  <1>4. Fit(q)  BY <1>1, <1>3, PlainBaseFit DEF FInv
  <1>5. proto' = q  BY <1>1 DEF Become
  <1> QED BY <1>1, <1>2, <1>3, <1>4, <1>5 DEF ConnStateTurn, told

LEMMA RemoveServiceTurns ==
    ASSUME FInv, DoRemoveService
    PROVE  RemoveServiceTurn
  <1> DEFINE q == [Dequeued EXCEPT !.registered = FALSE]
  <1>1. proto.jobs # <<>> /\ HeadOp = "removeService" /\ Become(q, {})
    BY HeadFacts DEF DoRemoveService, Run
  <1>2. /\ Fields \subseteq DOMAIN q /\ q.jobs = Tail(proto.jobs)
        /\ \A f \in Fields \ {"registered", "jobs"} : q[f] = proto[f]
        /\ q.registered = FALSE
    BY <1>1, DequeuedBase DEF FInv, Base, Dequeued, Fields
  <1> HIDE DEF q
  <1>3. Base(q, 1, {"registered"})  BY <1>1, <1>2, TakenBase DEF FInv
  <1>4. Fit(q)  BY <1>1, <1>3, PlainBaseFit DEF FInv
  <1>5. proto' = q  BY <1>1 DEF Become
  <1> QED BY <1>1, <1>2, <1>3, <1>4, <1>5 DEF RemoveServiceTurn

LEMMA PauseTurns ==
    ASSUME FInv, DoPause
    PROVE  PauseTurn
  <1> DEFINE b == [Dequeued EXCEPT !.state = @ \cup {"paused"}]
             q == SetTransport(b, 0)
  <1>1. proto.jobs # <<>> /\ HeadOp = "pause"  BY HeadFacts DEF DoPause
  <1>2. CASE Paused(Dequeued)
    BY <1>1, <1>2, CalmDequeued DEF DoPause, PauseTurn
  <1>3. CASE ~Paused(Dequeued)
    <2>1. Become(q, {})  BY <1>3 DEF DoPause, Run
    <2>2. /\ Fields \subseteq DOMAIN b /\ b.jobs = Tail(proto.jobs)
          /\ \A f \in Fields \ {"state", "jobs"} : b[f] = proto[f]
          /\ b.state = proto.state \cup {"paused"}
      BY <1>1, DequeuedBase DEF FInv, Base, Dequeued, Fields
    <2> HIDE DEF b
    <2>3. Base(b, 1, {"state"})  BY <1>1, <2>2, TakenBase DEF FInv
    <2>4. Fit(b)  BY <1>1, <2>3, PlainBaseFit DEF FInv
    <2>5. Shifts(b, q, 0) /\ q.tcpJobs = Retired(b.tcpJobs, b.transport)
      BY <2>4, SetTransportShifts DEF Updated
    <2>6. Grows(b, q)  BY <2>4, SetTransportGrows DEF Fit
    <2> HIDE DEF q
    <2>7. Fit(q)  BY <2>4, <2>5, <2>6, GrowsIsGood DEF Shifts, Fit, Typed
    <2>8. proto' = q  BY <2>1 DEF Become
    <2> QED BY <2>1, <2>2, <2>3, <2>4, <2>5, <2>6, <2>7, <2>8 DEF PauseTurn
  <1> QED BY <1>2, <1>3

LEMMA ResumeTurns ==
    ASSUME FInv, DoResume
    PROVE  ResumeTurn
  <1> DEFINE b == [Dequeued EXCEPT !.state = @ \ {"paused"}]
             x == ResetTransport(b)
             q == RequestTransactions(x)
  <1>1. proto.jobs # <<>> /\ HeadOp = "resume"  BY HeadFacts DEF DoResume
  <1>2. CASE ~Paused(Dequeued)
    BY <1>1, <1>2, CalmDequeued DEF DoResume, ResumeTurn
  <1>3. CASE Paused(Dequeued)
    <2>1. Become(q, {})  BY <1>3 DEF DoResume, Run
    <2>2. /\ Fields \subseteq DOMAIN b /\ b.jobs = Tail(proto.jobs)
          /\ \A f \in Fields \ {"state", "jobs"} : b[f] = proto[f]
          /\ b.state = proto.state \ {"paused"}
      BY <1>1, DequeuedBase DEF FInv, Base, Dequeued, Fields
    <2> HIDE DEF b
    <2>3. Base(b, 1, {"state"})  BY <1>1, <2>2, TakenBase DEF FInv
    <2>4. Fit(b)  BY <1>1, <2>3, PlainBaseFit DEF FInv
    <2>5. Moves(b, x) /\ Fit(x)  BY <2>4, ResetTransportMoves, MovesIsFit
    <2> HIDE DEF x
    <2>6. Goes(x, q) /\ q.flushing
      BY <2>5, RequestTransactionsRecalls, RecallsGoes
    <2> HIDE DEF q
    <2>7. Moves(b, q)  BY <2>4, <2>5, <2>6, MovesTwice DEF Goes
    <2>8. proto' = q  BY <2>1 DEF Become
    <2> QED BY <2>1, <2>2, <2>3, <2>4, <2>6, <2>7, <2>8 DEF ResumeTurn
  <1> QED BY <1>2, <1>3

LEMMA StopTurns ==
    ASSUME FInv, DoStop
    PROVE  StopTurn
  <1> DEFINE b == [Dequeued EXCEPT !.state = @ \cup {"stopped"}]
             q == DropTransport(b)
  <1>1. proto.jobs # <<>> /\ HeadOp = "stop"  BY HeadFacts DEF DoStop
  <1>2. CASE Stopped(Dequeued)  BY <1>1, <1>2, CalmDequeued DEF DoStop, StopTurn
  <1>3. CASE ~Stopped(Dequeued)
    <2>1. Become(q, {})  BY <1>3 DEF DoStop, Run
    <2>2. /\ Fields \subseteq DOMAIN b /\ b.jobs = Tail(proto.jobs)
          /\ \A f \in Fields \ {"state", "jobs"} : b[f] = proto[f]
          /\ b.state = proto.state \cup {"stopped"}
      BY <1>1, DequeuedBase DEF FInv, Base, Dequeued, Fields
    <2> HIDE DEF b
    <2>3. Base(b, 1, {"state"})  BY <1>1, <2>2, TakenBase DEF FInv
    <2>4. Fit(b)  BY <1>1, <2>3, PlainBaseFit DEF FInv
    <2>5. proto' = q  BY <2>1 DEF Become
    <2>6. CASE b.transport = 0
      <3>1. q = b  BY <2>6 DEF DropTransport
      <3> HIDE DEF q
      <3> QED BY <2>1, <2>2, <2>3, <2>4, <2>5, <2>6, <3>1 DEF StopTurn
    <2>7. CASE b.transport # 0
      <3>1. Fit(q) /\ Shifts(b, q, 0)
            /\ LET T == [op |-> "stop", t |-> b.transport]
               IN q.tcpJobs =
                     Append(Append(Append(b.tcpJobs, [op |-> "detach", t |-> b.transport]), T), T)
        BY <2>4, <2>7, DropTransportShifts
      <3>2. Grows(b, q)  BY <2>4, DropTransportGrows DEF Fit
      <3> HIDE DEF q
      <3> QED BY <2>1, <2>2, <2>3, <2>4, <2>5, <2>7, <3>1, <3>2 DEF StopTurn
    <2> QED BY <2>6, <2>7
  <1> QED BY <1>2, <1>3

LEMMA PostNeedsFit ==
    ASSUME NEW p, Fit(p)
    PROVE  Hands(p, PostTcp(p, "needs", p.transport), "needs", p.transport)
  <1> DEFINE q == PostTcp(p, "needs", p.transport)
  <1>1. /\ Fields \subseteq DOMAIN q
        /\ \A f \in Fields \ {"tcpJobs"} : q[f] = p[f]
        /\ q.tcpJobs = Append(p.tcpJobs, [op |-> "needs", t |-> p.transport])
    BY DEF Fit, Good, Fields, PostTcp
  <1> HIDE DEF q
  <1>2. IsQueue(q.tcpJobs)  BY <1>1, AppendFacts DEF Fit, Good
  <1>3. Good(q)  BY <1>1, <1>2 DEF Fit, Good, Fields, IsCounter
  <1>4. Typed(q)  BY <1>1 DEF Fit, Typed, Fields, Contexts, FlushIsQueued
  <1> QED BY <1>1, <1>3, <1>4 DEF Hands, Fit, q

LEMMA FlushTurns ==
    ASSUME FInv, DoFlush
    PROVE  FlushTurn
  <1> DEFINE b == [Dequeued EXCEPT !.flushing = FALSE]
             x == IF b.transport = 0 THEN ResetTransport(b) ELSE b
             q == PostTcp(x, "needs", x.transport)
  <1>1. proto.jobs # <<>> /\ HeadOp = "flush"  BY HeadFacts DEF DoFlush
  <1>2. Become(IF Stopped(b) \/ Paused(b) THEN b ELSE IF x.transport = 0 THEN x ELSE q, {})
    BY DEF DoFlush, Run
  <1>3. /\ Fields \subseteq DOMAIN b /\ b.jobs = Tail(proto.jobs)
        /\ \A f \in Fields \ {"flushing", "jobs"} : b[f] = proto[f]
        /\ b.flushing = FALSE
    BY <1>1, DequeuedBase DEF FInv, Base, Dequeued, Fields
  <1>4. b.transport = 0 => x = ResetTransport(b)  OBVIOUS
  <1>5. b.transport # 0 => x = b  OBVIOUS
  <1> HIDE DEF b, x
  <1>6. Base(b, 1, {"flushing"})  BY <1>1, <1>3, TakenBase DEF FInv
  <1>7. Fit(b)
    <2>1. Contexts(b)  BY <1>3 DEF Fields, FInv, Fit, Typed, Contexts
    <2> QED BY <1>3, <1>6, <2>1, BaseFit DEF FInv
  <1>8. CASE Stopped(b) \/ Paused(b)
    BY <1>2, <1>3, <1>6, <1>7, <1>8 DEF Become, FlushTurn
  <1>9. CASE ~Stopped(b) /\ ~Paused(b)
    <2>1. Moves(b, x) /\ Fit(x)
      BY <1>4, <1>5, <1>7, ResetTransportMoves, GoesSelf, MovesIsFit DEF Goes
    <2>2. CASE x.transport = 0
      <3>1. Become(x, {}) /\ proto' = x  BY <1>2, <1>9, <2>2 DEF Become
      <3>2. ~CanAskTransactions(x)
        <4>1. b.transport = 0 /\ x = ResetTransport(b)  BY <1>4, <1>5, <2>2
        <4>2. SUFFICES ASSUME b.key # 0 PROVE FALSE
          <5>1. SUFFICES ASSUME b.key = 0 PROVE ~CanAskTransactions(x)
            OBVIOUS
          <5>2. x = [b EXCEPT !.state = @ \cup {"authorization"}] /\ "state" \in DOMAIN b
            BY <1>3, <1>9, <4>1, <5>1 DEF ResetTransport, DropTransport, Fields
          <5> QED BY <5>2 DEF CanAskTransactions
        <4>3. x = CreateTransport(DropTransport(b)) /\ DropTransport(b) = b
          BY <1>9, <4>1, <4>2 DEF ResetTransport, DropTransport
        <4>4. Shifts([b EXCEPT !.created = b.created + 1], x, b.created + 1)
          BY <1>7, <1>9, <4>1, <4>2, <4>3, CreateTransportShifts
        <4>5. x.transport = b.created + 1 /\ b.created \in Nat
          BY <1>7, <4>4 DEF Shifts, Fit, Good
        <4> QED BY <2>2, <4>5
      <3> QED BY <1>3, <1>5, <1>6, <1>7, <1>9, <2>1, <2>2, <3>1, <3>2 DEF FlushTurn
    <2>3. CASE x.transport # 0
      <3>1. Become(q, {}) /\ proto' = q  BY <1>2, <1>9, <2>3 DEF Become
      <3>2. Hands(x, q, "needs", x.transport)  BY <2>1, PostNeedsFit
      <3>3. Fit(q)  BY <3>2 DEF Hands
      <3> HIDE DEF q
      <3> QED BY <1>3, <1>5, <1>6, <1>7, <1>9, <2>1, <2>3, <3>1, <3>2, <3>3 DEF FlushTurn
    <2> QED BY <2>2, <2>3
  <1> QED BY <1>8, <1>9

LEMMA AuthInfoTurns ==
    ASSUME FInv, DoAuthInfo
    PROVE  AuthInfoTurn
  <1> DEFINE b == [Dequeued EXCEPT !.authInfo = TheJob.info, !.state = @ \ {"authorization"}]
             x == ResetTransport(b)
             q == RequestTransactions(x)
  <1>1. proto.jobs # <<>> /\ HeadOp = "authInfo" /\ TheJob.op = "authInfo"
    BY HeadFacts DEF DoAuthInfo
  <1>2. Become(IF "authorization" \in proto.state THEN q ELSE b, {})
    BY DEF DoAuthInfo, Run
  <1>3. /\ Fields \subseteq DOMAIN b /\ b.jobs = Tail(proto.jobs)
        /\ \A f \in Fields \ {"authInfo", "state", "jobs"} : b[f] = proto[f]
        /\ b.authInfo = TheJob.info /\ b.state = proto.state \ {"authorization"}
    BY <1>1, DequeuedBase DEF FInv, Base, Dequeued, Fields
  <1> HIDE DEF b
  <1>4. Base(b, 1, {"authInfo", "state"})  BY <1>1, <1>3, TakenBase DEF FInv
  <1>5. Fit(b)  BY <1>1, <1>4, PlainBaseFit DEF FInv
  <1>6. Moves(b, x) /\ Fit(x)  BY <1>5, ResetTransportMoves, MovesIsFit
  <1> HIDE DEF x
  <1>7. Goes(x, q) /\ q.flushing
    BY <1>6, RequestTransactionsRecalls, RecallsGoes
  <1> HIDE DEF q
  <1>8. Moves(b, q)  BY <1>5, <1>6, <1>7, MovesTwice DEF Goes
  <1>9. CASE "authorization" \in proto.state
    <2>1. Become(q, {}) /\ proto' = q  BY <1>2, <1>9 DEF Become
    <2>2. Fit(q)  BY <1>8, MovesIsFit
    <2> QED BY <1>1, <1>3, <1>4, <1>5, <1>7, <1>8, <2>1, <2>2 DEF AuthInfoTurn
  <1>10. CASE "authorization" \notin proto.state
    BY <1>1, <1>2, <1>3, <1>4, <1>5, <1>10 DEF Become, AuthInfoTurn
  <1> QED BY <1>9, <1>10

LEMMA TxFailedTurns ==
    ASSUME FInv, DoTxFailed
    PROVE  TxFailedTurn
  <1> DEFINE q == TransactionsMayHaveFailed(Dequeued, TheJob.t)
  <1>1. proto.jobs # <<>> /\ HeadOp = "txFailed" /\ TheJob.op = "txFailed"
    BY HeadFacts DEF DoTxFailed
  <1>2. Become(q, {}) /\ proto' = q  BY DEF DoTxFailed, Run, Become
  <1>3. Base(Dequeued, 1, {})  BY <1>1, DequeuedBase DEF FInv
  <1>4. Fit(Dequeued)  BY <1>1, <1>3, PlainBaseFit DEF FInv
  <1>5. Recalls(Dequeued, q)  BY <1>4, FailedRecalls
  <1>6. Dequeued.registered /\ ~Stopped(Dequeued) => \A r \in Dequeued.requests :
                    q.context[r] # None => q.context[r].tx # TheJob.t
    BY <1>4, MayHaveFailedForgets
  <1> HIDE DEF q
  <1> QED BY <1>1, <1>2, <1>3, <1>4, <1>5, <1>6 DEF TxFailedTurn

\* the transport is told and the acks are confirmed, whatever the queue holds
LEMMA DecodedBesideQueue ==
    ASSUME NEW p, NEW t, NEW jobs, Fit(p), Fit([p EXCEPT !.jobs = jobs])
    PROVE  Goes([p EXCEPT !.jobs = jobs], [Decoded(p, t) EXCEPT !.jobs = jobs])
  <1> DEFINE b == [p EXCEPT !.jobs = jobs]
             v == PostTcp(p, "valid", t)
             w == PostTcp(b, "valid", t)
             d == Decoded(b, t)
             g == [Decoded(p, t) EXCEPT !.jobs = jobs]
  <1>1. /\ Fields \subseteq DOMAIN p /\ Fields \subseteq DOMAIN v /\ Fields \subseteq DOMAIN w
        /\ w.session = v.session /\ w.jobs = jobs /\ b.jobs = jobs
        /\ \A f \in Fields \ {"jobs"} : w[f] = v[f]
    BY DEF Fit, Good, Fields, PostTcp
  <1> HIDE DEF v, w
  <1>2. /\ d = TransactionsSucceeded(w, t)
        /\ g = [TransactionsSucceeded(v, t) EXCEPT !.jobs = jobs]
    BY DEF Decoded, v, w
  <1>3. /\ Fields \subseteq DOMAIN d /\ Fields \subseteq DOMAIN g
        /\ \A f \in Fields : g[f] = d[f]
    <2> DEFINE sure == {id \in v.session.acks : <<id, t>> \in v.session.carried}
               new == [v.session EXCEPT !.acks = @ \ sure, !.carried = {c \in @ : c[1] \notin sure}]
    <2>1. SessionFields \subseteq DOMAIN v.session
      BY <1>1 DEF Fit, Typed, PostTcp, Good, Fields, v
    <2>2. d = [w EXCEPT !.session = new]
      <3>1. d = [w EXCEPT !.session =
                   [w.session EXCEPT !.acks = @ \ {id \in w.session.acks : <<id, t>> \in w.session.carried},
                      !.carried = {c \in @ :
                         c[1] \notin {id \in w.session.acks : <<id, t>> \in w.session.carried}}]]
        BY <1>1, <1>2, <2>1 DEF TransactionsSucceeded, SessionFields, Fields
      <3>2. w.session = v.session  BY <1>1
      <3> HIDE DEF d
      <3> QED BY <3>1, <3>2
    <2>3. g = [v EXCEPT !.session = new, !.jobs = jobs]
      BY <1>1, <1>2, <2>1 DEF TransactionsSucceeded, SessionFields, Fields
    <2> HIDE DEF d, g, new
    <2> QED BY <1>1, <2>2, <2>3 DEF Fields
  <1>4. Goes(b, d) /\ Fit(d)  BY DecodedGoes, GoesIsFit
  <1> HIDE DEF b, d, g
  <1>5. /\ Alike(d, g) /\ SessionFields \subseteq DOMAIN g.session
        /\ g.requests = d.requests /\ g.answered = d.answered /\ g.context = d.context
        /\ g.batch = d.batch /\ g.flushing = d.flushing /\ g.reported = d.reported
        /\ g.session = d.session /\ g.state = d.state
    BY <1>3, <1>4 DEF Alike, Fit, Typed, Fields, Stopped, Paused
  <1>6. Goes(d, g)  BY <1>4, <1>5, SmallMove DEF CanAskTransactions
  <1>7. Fit(b)  BY DEF b
  <1>8. Goes(b, g)  BY <1>4, <1>6, <1>7, GoesTwice
  <1> QED BY <1>8 DEF b, g

LEMMA IncomingTurns ==
    ASSUME FInv, DoIncoming
    PROVE  IncomingTurn
  <1> DEFINE p == Dequeued
             t == TheJob.t
             job == [op |-> "messages", msgs |-> TheJob.msgs]
             b == [Dequeued EXCEPT !.jobs = <<job>> \o @]
             g == [Decoded(p, t) EXCEPT !.jobs = <<job>> \o @]
             f == TransactionsMayHaveFailed(p, t)
  <1>1. proto.jobs # <<>> /\ HeadOp = "incoming" /\ TheJob.op = "incoming"
    BY HeadFacts DEF DoIncoming
  <1>2. Base(p, 1, {}) /\ Fit(p)  BY <1>1, DequeuedBase, PlainBaseFit DEF FInv
  <1>3. p.transport = proto.transport /\ p.state = proto.state /\ p.jobs = Tail(proto.jobs)
    BY <1>1, DequeuedBase DEF FInv, Base, Fields, Dequeued
  <1>4. Goes(p, p) /\ Goes(p, f) /\ Goes(p, ResetSessionInfo(f)) /\ Goes(p, Decoded(p, t))
    <2>1. Goes(p, f) /\ Fit(f)  BY <1>2, FailedRecalls, RecallsGoes, GoesIsFit
    <2> HIDE DEF f, p
    <2> QED BY <1>2, <2>1, GoesSelf, DecodedGoes, ResetSessionInfoGoes, GoesTwice
  <1>5. CASE p.transport # t \/ Stopped(p)
    BY <1>1, <1>2, <1>3, <1>4, <1>5 DEF DoIncoming, Run, Become, Stopped, IncomingTurn
  <1>6. CASE ~(p.transport # t \/ Stopped(p)) /\ TheJob.quality \in Garbled
    BY <1>1, <1>2, <1>4, <1>6 DEF DoIncoming, Run, Garbled, Become, IncomingTurn
  <1>7. CASE ~(p.transport # t \/ Stopped(p)) /\ TheJob.quality \notin Garbled
    <2>1. Become(g, {}) /\ proto' = g
      BY <1>7 DEF DoIncoming, Run, Garbled, Become
    <2>2. Base(b, 0, {}) /\ b.jobs[1] = job  BY <1>1, ReplacedBase DEF FInv
    <2>3. Fit(b)  BY <1>1, <2>2, PlainBaseFit DEF FInv
    <2>4. Goes(b, g)
      <3>1. b = [p EXCEPT !.jobs = <<job>> \o p.jobs]  OBVIOUS
      <3>2. g = [Decoded(p, t) EXCEPT !.jobs = <<job>> \o p.jobs]
        <4>1. Decoded(p, t).jobs = p.jobs
          BY <1>2 DEF Decoded, PostTcp, TransactionsSucceeded, Fit, Good, Fields
        <4> HIDE DEF p
        <4> QED BY <4>1
      <3> QED BY <1>2, <2>3, <3>1, <3>2, DecodedBesideQueue
    <2>5. TheJob.t = proto.transport /\ ~Stopped(proto)
      BY <1>3, <1>7 DEF Stopped
    <2> HIDE DEF b, g
    <2> QED BY <1>1, <1>7, <2>1, <2>2, <2>3, <2>4, <2>5 DEF IncomingTurn
  <1> QED BY <1>5, <1>6, <1>7

LEMMA MessageTurns ==
    ASSUME FInv, DoMessage
    PROVE  MessageTurn
  <1> DEFINE msgs == TheJob.msgs
             rest == IF Len(msgs) = 1 THEN <<>> ELSE <<[op |-> "messages", msgs |-> Tail(msgs)]>>
             b == [Dequeued EXCEPT !.jobs = rest \o @]
             q == ProcessIncomingMessage(b, Head(msgs))
  <1>1. proto.jobs # <<>> /\ HeadOp = "messages" /\ TheJob.op = "messages"
    BY HeadFacts DEF DoMessage
  <1>2. Become(q, {}) /\ proto' = q  BY DEF DoMessage, Run, Become
  <1>3. CASE Len(msgs) = 1
    <2>1. rest \o Tail(proto.jobs) = Tail(proto.jobs)
      BY <1>1, <1>3, ProtoQueues, TailFacts DEF IsQueue, FInv
    <2>2. /\ Fields \subseteq DOMAIN b /\ b.jobs = Tail(proto.jobs)
          /\ \A f \in Fields \ {"jobs"} : b[f] = proto[f]
      BY <1>1, <2>1, DequeuedBase DEF FInv, Base, Dequeued, Fields
    <2> HIDE DEF b
    <2>3. Base(b, 1, {})  BY <1>1, <2>2, TakenBase DEF FInv
    <2>4. Fit(b)  BY <1>1, <2>3, PlainBaseFit DEF FInv
    <2>5. Handled(b, Head(msgs), q)  BY <2>4, ProcessIncomingMessageHandles
    <2> HIDE DEF q
    <2> QED BY <1>1, <1>2, <1>3, <2>3, <2>4, <2>5 DEF MessageTurn
  <1>4. CASE Len(msgs) # 1
    <2>1. Base(b, 0, {}) /\ b.jobs[1] = [op |-> "messages", msgs |-> Tail(msgs)]
      BY <1>1, <1>4, ReplacedBase DEF FInv
    <2>2. Fit(b)  BY <1>1, <2>1, PlainBaseFit DEF FInv
    <2> HIDE DEF b
    <2>3. Handled(b, Head(msgs), q)  BY <2>2, ProcessIncomingMessageHandles
    <2> HIDE DEF q
    <2> QED BY <1>1, <1>2, <1>4, <2>1, <2>2, <2>3 DEF MessageTurn
  <1> QED BY <1>3, <1>4

----
(* What becomes of the requests when the transport in use is ready. *)

\* a Proto that differs from q in the rest of the session only
LEMMA BindsStill ==
    ASSUME NEW p, NEW q, NEW s, NEW rs, NEW tx, Binds(p, q, rs, tx), Alike(q, s),
           s.state = q.state, s.flushing = q.flushing, s.reported = q.reported,
           s.requests = q.requests, s.answered = q.answered, s.batch = q.batch,
           s.context = q.context, SessionFields \subseteq DOMAIN s.session,
           s.session.first = q.session.first, s.session.processed = q.session.processed,
           s.session.containers \in {p.session.containers} \cup OneMore(p, rs)
    PROVE  Binds(p, s, rs, tx)
BY AlikeIsGood DEF Binds, Fit, Answers, Typed, Alike, Contexts, FlushIsQueued

LEMMA BoundContexts ==
    ASSUME NEW p, NEW rs, NEW tx \in Nat, Fit(p)
    PROVE  /\ BoundTo(p, rs, tx) \in [Requests -> RequestContext \cup {None}]
           /\ \A r \in Requests : BoundTo(p, rs, tx)[r] # None => BoundTo(p, rs, tx)[r].mid.m = r
           /\ \A r \in Requests : IdFor(p, r) \in MessageId /\ IdFor(p, r).m = r
BY DEF Fit, Typed, Contexts, IdFor, MessageId, RequestContext, BoundTo

LEMMA PrepareBinds ==
    ASSUME NEW p, NEW items, NEW tx \in Nat, Fit(p)
    PROVE  LET q == Prepare(p, items, tx)
           IN Binds(p, q, items \cap Requests, tx) /\ q.session = p.session
  <1> DEFINE rs == items \cap Requests
             a == BindRequests(p, rs, tx)
             c == BindTimeSync(a, "futureSalts" \in items)
             q == Prepare(p, items, tx)
  <1>1. /\ Fields \subseteq DOMAIN a /\ a.context = BoundTo(p, rs, tx)
        /\ \A f \in Fields \ {"context"} : a[f] = p[f]
    BY DEF BindRequests, BoundTo, Fit, Good, Fields
  <1> HIDE DEF a
  <1>2. /\ Fields \subseteq DOMAIN c
        /\ \A f \in Fields \ {"timeSync"} : c[f] = a[f]
    BY <1>1 DEF BindTimeSync, Fields
  <1> HIDE DEF c
  <1>3. /\ Fields \subseteq DOMAIN q /\ q.batch = c.batch + 1
        /\ \A f \in Fields \ {"batch", "forceAcks"} : q[f] = c[f]
    <2>1. q = [c EXCEPT !.batch = @ + 1, !.forceAcks = @ /\ ~AcksDue(p)]
      BY DEF Prepare, a, c
    <2> HIDE DEF q
    <2> QED BY <1>2, <2>1 DEF Fields
  <1> HIDE DEF q
  <1>4. /\ q.batch = p.batch + 1 /\ q.context = BoundTo(p, rs, tx)
        /\ \A f \in Fields \ {"batch", "forceAcks", "timeSync", "context"} : q[f] = p[f]
    BY <1>1, <1>2, <1>3 DEF Fields
  <1> HIDE DEF rs
  <1>5. Alike(p, q)  BY <1>3, <1>4 DEF Alike, Fields, Stopped, Paused
  <1>6. /\ q.state = p.state /\ q.flushing = p.flushing /\ q.reported = p.reported
        /\ q.requests = p.requests /\ q.answered = p.answered /\ q.session = p.session
    BY <1>4 DEF Fields
  <1>7. Good(q)  BY <1>5, <1>6, AlikeIsGood DEF Fit, Answers
  <1>8. Typed(q)
    BY <1>4, <1>5, <1>6, BoundContexts DEF Fit, Typed, Contexts, Alike, FlushIsQueued
  <1> QED BY <1>4, <1>5, <1>6, <1>7, <1>8 DEF Binds, Fit, q, rs

LEMMA ContainBinds ==
    ASSUME NEW p, NEW q, NEW items, NEW tx \in Nat, Fit(p), items \cap Labels \subseteq {"futureSalts"},
           Binds(p, q, items \cap Requests, tx), q.session = p.session
    PROVE  Binds(p, Contain(q, items, p.batch), items \cap Requests, tx)
  <1> DEFINE rs == items \cap Requests
             C == {[b |-> p.batch, m |-> y] : y \in items \cap Labels}
             x == [id |-> [b |-> p.batch, m |-> "container"],
                   children |-> {c.mid : c \in {q.context[r] : r \in rs}} \cup C]
             s == [q EXCEPT !.session.containers = @ \cup {x}]
  <1>1. Contain(q, items, p.batch) = IF Cardinality(items) < 2 THEN q ELSE s
    BY DEF Contain
  <1>2. {c.mid : c \in {q.context[r] : r \in rs}} = {IdFor(p, r) : r \in rs}
    BY DEF Binds, BoundTo
  <1>3. C \in SUBSET {[b |-> p.batch, m |-> "futureSalts"]}  OBVIOUS
  <1> HIDE DEF C
  <1>4. x = [id |-> [b |-> p.batch, m |-> "container"], children |-> {IdFor(p, r) : r \in rs} \cup C]
    BY <1>2
  <1> HIDE DEF x, rs
  <1>5. p.session.containers \cup {x} \in OneMore(p, rs)
    BY <1>3, <1>4 DEF OneMore
  <1>6. /\ Fields \subseteq DOMAIN q /\ SessionFields \subseteq DOMAIN q.session
    BY DEF Binds, Fit, Good, Typed
  <1>7. /\ Alike(q, s)
        /\ s.state = q.state /\ s.flushing = q.flushing /\ s.reported = q.reported
        /\ s.requests = q.requests /\ s.answered = q.answered /\ s.batch = q.batch
        /\ s.context = q.context
    BY <1>6 DEF Alike, Fields, Stopped, Paused
  <1>8. /\ SessionFields \subseteq DOMAIN s.session
        /\ s.session.first = q.session.first /\ s.session.processed = q.session.processed
        /\ s.session.containers = p.session.containers \cup {x}
    BY <1>6 DEF SessionFields, Fields
  <1> HIDE DEF s
  <1>9. Binds(p, q, rs, tx)  BY DEF rs
  <1>10. Binds(p, s, rs, tx)  BY <1>5, <1>7, <1>8, <1>9, BindsStill
  <1> QED BY <1>1, <1>9, <1>10 DEF rs

LEMMA CarriedBinds ==
    ASSUME NEW p, NEW q, NEW rs, NEW tx, NEW t, Binds(p, q, rs, tx)
    PROVE  Binds(p, Carried(q, t), rs, tx)
  <1> DEFINE s == Carried(q, t)
  <1>1. /\ Fields \subseteq DOMAIN q /\ SessionFields \subseteq DOMAIN q.session
    BY DEF Binds, Fit, Good, Typed
  <1>2. s = [q EXCEPT !.session.carried = @ \cup (q.session.acks \X {t})]
    BY DEF Carried
  <1> HIDE DEF s
  <1>3. /\ Alike(q, s)
        /\ s.state = q.state /\ s.flushing = q.flushing /\ s.reported = q.reported
        /\ s.requests = q.requests /\ s.answered = q.answered /\ s.batch = q.batch
        /\ s.context = q.context
    BY <1>1, <1>2 DEF Alike, Fields, Stopped, Paused
  <1>4. /\ SessionFields \subseteq DOMAIN s.session
        /\ s.session.first = q.session.first /\ s.session.processed = q.session.processed
        /\ s.session.containers = q.session.containers
    BY <1>1, <1>2 DEF SessionFields, Fields
  <1>5. q.session.containers \in {p.session.containers} \cup OneMore(p, rs)
    BY DEF Binds
  <1> QED BY <1>3, <1>4, <1>5, BindsStill DEF s

LEMMA GatheredFacts ==
    ASSUME NEW p, NEW ping
    PROVE  /\ Gathered(p, ping) \cap Requests = Offered(p) \cap Requests
           /\ Gathered(p, ping) \cap Labels \subseteq {"futureSalts"} \cup (Offered(p) \cap Labels)
           /\ Offered(p) \subseteq Gathered(p, ping)
BY ProtoAssumption DEF Gathered, Labels

LEMMA OfferedFacts ==
    ASSUME NEW p, Fit(p)
    PROVE  Offered(p) \subseteq Requests /\ Offered(p) \cap Labels = {}
BY ProtoAssumption DEF Fit, Typed, Contexts, Offered

LEMMA NoneBound ==
    ASSUME NEW p, Fit(p)
    PROVE  BoundTo(p, {}, 0) = p.context
BY DEF BoundTo, Fit, Typed, Contexts

\* the head of the queue is taken, and the transport in use is ready
LEMMA ReadyBase ==
    ASSUME FInv, ReadyFor(proto, proto.transport)
    PROVE  /\ TheJob.op = "ready" /\ TheJob.t = proto.transport
           /\ ~Stopped(proto) /\ ~Paused(proto)
           /\ Base(Dequeued, 1, {}) /\ Fit(Dequeued)
           /\ Dequeued.transport = proto.transport /\ Dequeued.state = proto.state
           /\ Dequeued.context = proto.context /\ Dequeued.requests = proto.requests
           /\ Dequeued.registered = proto.registered /\ Dequeued.batch = proto.batch
           /\ Dequeued.transport \in Nat
  <1>1. proto.jobs # <<>> /\ HeadOp = "ready" /\ ~Stopped(proto) /\ ~Paused(proto)
    BY ReadyIsAwake DEF FInv
  <1>2. TheJob.op = "ready" /\ TheJob.t = proto.transport
    BY <1>1, HeadFacts DEF ReadyFor
  <1>3. Base(Dequeued, 1, {}) /\ Fit(Dequeued)
    BY <1>1, DequeuedBase, PlainBaseFit DEF FInv
  <1>4. Dequeued.transport \in Nat  BY <1>3 DEF Fit, Good, Typed
  <1> QED BY <1>1, <1>2, <1>3, <1>4 DEF Base, Fields

LEMMA ReadyNothingTurns ==
    ASSUME FInv, ReadyStale \/ ReadyNothing
    PROVE  ReadyTurn
BY HeadFacts, CalmDequeued, GatheredFacts, ReadyBase DEF ReadyStale, ReadyNothing,
   ReadyFor, ReadyTurn

LEMMA ReadySendTurns ==
    ASSUME FInv, ReadySend
    PROVE  ReadyTurn
  <1> DEFINE p == Dequeued
             t == p.transport
             items == Gathered(p, TheJob.ping)
             whole == IF Cardinality(items) > 1 THEN {"container"} ELSE {}
             L == {[b |-> p.batch, m |-> x] : x \in (items \cup whole) \cap Labels}
             q == Contain(Prepare(p, items, t), items, p.batch)
             s == IF "acks" \in items THEN Carried(q, t) ELSE q
  <1>1. ReadyFor(proto, proto.transport)  BY DEF ReadySend
  <1>2. /\ CanAskTransactions(p) /\ HasConnection(t)
        /\ Become(s, {Encrypted(id, t) : id \in IdsOf(p, items \cup whole)})
    BY DEF ReadySend
  <1>3. Base(p, 1, {}) /\ Fit(p) /\ t \in Nat  BY <1>1, ReadyBase
  <1> HIDE DEF p
  <1>4. /\ items \cap Requests = Offered(p) /\ (items \cup whole) \cap Requests = Offered(p)
        /\ items \cap Labels \subseteq {"futureSalts"}
    BY <1>3, ProtoAssumption, GatheredFacts, OfferedFacts DEF Labels
  <1>5. IdsOf(p, items \cup whole) = {IdFor(p, r) : r \in Offered(p)} \cup L
    BY <1>4 DEF IdsOf
  <1> HIDE DEF items, whole
  <1>6. Binds(p, s, Offered(p), t)
    <2>1. Binds(p, Prepare(p, items, t), items \cap Requests, t) /\ Prepare(p, items, t).session = p.session
      BY <1>3, PrepareBinds
    <2>2. Binds(p, q, items \cap Requests, t)  BY <1>3, <1>4, <2>1, ContainBinds
    <2> HIDE DEF q
    <2>3. Binds(p, s, items \cap Requests, t)  BY <2>2, CarriedBinds
    <2> QED BY <1>4, <2>3
  <1>7. L \subseteq {[b |-> p.batch, m |-> x] : x \in Labels}  OBVIOUS
  <1> HIDE DEF L, s
  <1>8. proto' = s  BY <1>2 DEF Become
  <1>9. SendTurn  BY <1>2, <1>3, <1>5, <1>6, <1>7, <1>8 DEF SendTurn
  <1> QED BY <1>1, <1>9, ReadyBase DEF ReadyTurn

LEMMA ReadyFailTurns ==
    ASSUME FInv, ReadyFail
    PROVE  ReadyTurn
  <1> DEFINE p == Dequeued
             items == Gathered(p, TheJob.ping)
             q == Contain(Prepare(p, items, 0), items, p.batch)
  <1>1. ReadyFor(proto, proto.transport)  BY DEF ReadyFail
  <1>2. /\ CanAskTransactions(p) /\ ~HasConnection(p.transport)
        /\ Become(q, {})
    BY DEF ReadyFail, Run
  <1>3. Base(p, 1, {}) /\ Fit(p)  BY <1>1, ReadyBase
  <1> HIDE DEF p
  <1>4. items \cap Requests = Offered(p) /\ items \cap Labels \subseteq {"futureSalts"}
    BY <1>3, GatheredFacts, OfferedFacts
  <1> HIDE DEF items
  <1>5. Binds(p, q, Offered(p), 0)  BY <1>3, <1>4, PrepareBinds, ContainBinds
  <1> HIDE DEF q
  <1>6. Moves(q, q)  BY <1>5, GoesSelf DEF Binds, Goes
  <1>7. proto' = q  BY <1>2 DEF Become
  <1>8. RefusedTurn  BY <1>2, <1>3, <1>5, <1>6, <1>7 DEF RefusedTurn
  <1> QED BY <1>1, <1>8, ReadyBase DEF ReadyTurn

LEMMA ReadySaltlessTurns ==
    ASSUME FInv, ReadySaltless
    PROVE  ReadyTurn
  <1> DEFINE p == Dequeued
             items == Gathered(p, TheJob.ping)
             x == Prepare(p, items, 0)
             q == InitiateTimeSync(x)
  <1>1. ReadyFor(proto, proto.transport)  BY DEF ReadySaltless
  <1>2. CanAskTransactions(proto) /\ Become(q, {})  BY DEF ReadySaltless, Run
  <1>3. Base(p, 1, {}) /\ Fit(p) /\ CanAskTransactions(p)
    BY <1>1, <1>2, ReadyBase DEF CanAskTransactions
  <1> HIDE DEF p
  <1>4. items \cap Requests = Offered(p)  BY <1>3, GatheredFacts, OfferedFacts
  <1> HIDE DEF items
  <1>5. Binds(p, x, Offered(p), 0) /\ Fit(x)
    BY <1>3, <1>4, PrepareBinds DEF Binds
  <1> HIDE DEF x
  <1>6. Moves(x, q)  BY <1>5, InitiateTimeSyncGoes DEF Goes
  <1>7. ~CanAskTransactions(q)
    BY <1>5 DEF InitiateTimeSync, RequestTransactions, Fit, Good, Fields,
       CanAskTransactions
  <1> HIDE DEF q
  <1>8. proto' = q  BY <1>2 DEF Become
  <1>9. RefusedTurn  BY <1>2, <1>3, <1>5, <1>6, <1>7, <1>8 DEF RefusedTurn
  <1> QED BY <1>1, <1>9, ReadyBase DEF ReadyTurn

LEMMA ReadyViolatedTurns ==
    ASSUME FInv, ReadyViolated
    PROVE  ReadyTurn
  <1>1. ReadyFor(proto, proto.transport)  BY DEF ReadyViolated
  <1> DEFINE p == Dequeued
  <1>2. PICK prepared \in SUBSET Gathered(p, TheJob.ping) :
           Become(RequestTransactions(ResetSessionInfo(Prepare(p, prepared, 0))), {})
    BY DEF ReadyViolated
  <1> DEFINE x == Prepare(p, prepared, 0)
             y == ResetSessionInfo(x)
             q == RequestTransactions(y)
             rs == prepared \cap Requests
  <1>3. Base(p, 1, {}) /\ Fit(p) /\ CanAskTransactions(p)
    BY <1>1, ReadyBase DEF CanAskTransactions, ReadyViolated
  <1>4. rs \subseteq Offered(p)  BY GatheredFacts
  <1> HIDE DEF p
  <1>5. Binds(p, x, rs, 0) /\ Fit(x)  BY <1>3, PrepareBinds DEF Binds
  <1> HIDE DEF x, rs
  <1>6. Moves(x, y) /\ Fit(y)  BY <1>5, ResetSessionInfoGoes, GoesIsFit DEF Goes
  <1> HIDE DEF y
  <1>7. Moves(y, q) /\ q.flushing
    BY <1>6, RequestTransactionsRecalls, RecallsGoes DEF Goes
  <1>8. Become(q, {}) /\ proto' = q  BY <1>2 DEF Become, x, y
  <1> HIDE DEF q
  <1>9. Moves(x, q)  BY <1>5, <1>6, <1>7, MovesTwice
  <1>10. RefusedTurn  BY <1>3, <1>4, <1>5, <1>7, <1>8, <1>9 DEF RefusedTurn
  <1> QED BY <1>1, <1>10, ReadyBase DEF ReadyTurn

LEMMA ReadyTimeFixTurns ==
    ASSUME FInv, ReadyTimeFix
    PROVE  ReadyTurn
  <1> DEFINE b == Dequeued
             p == [b EXCEPT !.batch = @ + 1]
             mid == [b |-> proto.batch, m |-> "timeFix"]
             f == [p EXCEPT !.timeFix = mid]
  <1>1. ReadyFor(proto, proto.transport)  BY DEF ReadyTimeFix
  <1>2. /\ Base(b, 1, {}) /\ Fit(b) /\ ~CanAskTransactions(b)
        /\ mid = [b |-> b.batch, m |-> "timeFix"]
    BY <1>1, ReadyBase DEF ReadyTimeFix, CanAskTransactions
  <1>3. IF HasConnection(b.transport) THEN Become(f, {Encrypted(mid, b.transport)})
        ELSE Become(RequestTransactions(p), {})
    BY <1>2 DEF Fit, Good, Fields, ReadyTimeFix
  <1> HIDE DEF b, mid
  <1>4. ASSUME NEW x \in {p, f}
        PROVE  Binds(b, x, {}, 0)
    <2>1. /\ Fields \subseteq DOMAIN x /\ x.batch = b.batch + 1
          /\ \A g \in Fields \ {"batch", "timeFix"} : x[g] = b[g]
      BY <1>2 DEF Fit, Good, Fields
    <2> HIDE DEF p, f
    <2>2. /\ Alike(b, x) /\ x.context = b.context
          /\ x.state = b.state /\ x.flushing = b.flushing /\ x.reported = b.reported
          /\ x.requests = b.requests /\ x.answered = b.answered /\ x.session = b.session
      BY <2>1 DEF Alike, Fields, Stopped, Paused
    <2>3. Good(x)  BY <1>2, <2>2, AlikeIsGood DEF Fit, Answers
    <2>4. Typed(x)
      BY <1>2, <2>1, <2>2 DEF Fit, Typed, Contexts, FlushIsQueued, Alike
    <2> QED BY <1>2, <2>1, <2>2, <2>3, <2>4, NoneBound DEF Binds, Fit
  <1>5. CASE HasConnection(b.transport)
    <2>1. Become(f, {Encrypted(mid, b.transport)}) /\ proto' = f
      BY <1>3, <1>5 DEF Become
    <2>2. Binds(b, f, {}, 0) /\ Goes(f, f)  BY <1>4, GoesSelf DEF Binds
    <2> HIDE DEF f
    <2>3. PingTurn  BY <1>2, <1>5, <2>1, <2>2 DEF PingTurn
    <2> QED BY <1>1, <2>3, ReadyBase DEF ReadyTurn
  <1>6. CASE ~HasConnection(b.transport)
    <2> DEFINE q == RequestTransactions(p)
    <2>1. Become(q, {}) /\ proto' = q  BY <1>3, <1>6 DEF Become
    <2>2. Binds(b, p, {}, 0) /\ Goes(p, q)
      BY <1>4, RequestTransactionsRecalls, RecallsGoes DEF Binds
    <2> HIDE DEF p, q
    <2>3. PingTurn  BY <1>2, <2>1, <2>2 DEF PingTurn
    <2> QED BY <1>1, <2>3, ReadyBase DEF ReadyTurn
  <1> QED BY <1>5, <1>6

LEMMA ProtoTurns ==
    ASSUME FInv, ProtoStep \/ ReadyViolated
    PROVE  Turn
  <1>1. CASE Ready \/ ReadyViolated
    BY <1>1, ReadyNothingTurns, ReadySendTurns, ReadyFailTurns, ReadySaltlessTurns,
       ReadyViolatedTurns, ReadyTimeFixTurns, HeadFacts DEF Ready, ReadyStale,
       ReadyNothing, ReadySend, ReadyFail, ReadySaltless, ReadyTimeFix, ReadyViolated,
       ReadyFor, Turn
  <1>2. CASE DoAdd \/ DoCancel \/ DoConnState \/ DoRemoveService \/ DoPause \/ DoResume \/ DoStop
    <2>1. \/ HeadOp = "add" /\ AddTurn
          \/ HeadOp = "cancel" /\ CancelTurn
          \/ HeadOp = "connState" /\ ConnStateTurn
          \/ HeadOp = "removeService" /\ RemoveServiceTurn
          \/ HeadOp = "pause" /\ PauseTurn
          \/ HeadOp = "resume" /\ ResumeTurn
          \/ HeadOp = "stop" /\ StopTurn
      BY <1>2, AddTurns, CancelTurns, ConnStateTurns, RemoveServiceTurns, PauseTurns, ResumeTurns,
         StopTurns DEF DoAdd, DoCancel, DoConnState, DoRemoveService, DoPause, DoResume, DoStop
    <2> QED BY <2>1, HeadFacts DEF Turn
  <1>3. CASE DoFlush \/ DoAuthInfo \/ DoTxFailed \/ DoIncoming \/ DoMessage
    BY <1>3, FlushTurns, AuthInfoTurns, TxFailedTurns, IncomingTurns, MessageTurns,
       HeadFacts DEF DoFlush, DoAuthInfo, DoTxFailed, DoIncoming, DoMessage, Turn
  <1> QED BY <1>1, <1>2, <1>3 DEF ProtoStep

----
(* FInv is kept. *)

LEMMA OnwardTurns ==
    ASSUME IInv, NEW b, NEW d, NEW fs, Base(b, d, fs), Good(b), JobsGrow(b, proto')
    PROVE  QueueTurn(d)
  <1> DEFINE n == Len(proto.jobs)
             k == Len(b.jobs)
             l == Len(proto'.jobs)
  <1>1. n \in Nat /\ n >= 1 /\ HeadOp = proto.jobs[1].op  BY FirstJob DEF Base
  <1>2. /\ d \in {0, 1} /\ k = n - d
        /\ \A i \in 1..k : i + d # 1 => b.jobs[i] = proto.jobs[i + d]
        /\ d = 0 => b.jobs[1].op = "messages" /\ proto.jobs[1].op \in {"incoming", "messages"}
    BY DEF Base, Shifted
  <1>3. /\ IsQueue(proto'.jobs) /\ l \in Nat /\ k <= l
        /\ \A i \in 1..k : proto'.jobs[i] = b.jobs[i]
        /\ \A i \in (k + 1)..l : proto'.jobs[i].op = "flush"
    BY QueueFacts DEF JobsGrow, Extended
  <1> HIDE DEF n, k, l
  <1>4. l + d >= n  BY <1>1, <1>2, <1>3
  <1>5. ASSUME NEW i \in 1..l, i + d # 1, i + d <= n
        PROVE  proto'.jobs[i] = proto.jobs[i + d]
    BY <1>1, <1>2, <1>3, <1>5
  <1>6. ASSUME NEW i \in 1..l, i + d > n
        PROVE  proto'.jobs[i].op = "flush"
    BY <1>1, <1>2, <1>3, <1>6
  <1>7. d = 0 => proto'.jobs[1].op = "messages"  BY <1>1, <1>2, <1>3
  <1> QED BY <1>1, <1>2, <1>3, <1>4, <1>5, <1>6, <1>7 DEF QueueTurn, n, l

LEMMA ReceiveResultReceives ==
    ASSUME NEW p, NEW body, Fit(p)
    PROVE  Receives(p, body, ReceiveResult(p, body))
  <1> DEFINE hit == Hit(p, body)
             q == ReceiveResult(p, body)
  <1>1. q = [p EXCEPT
                !.requests = @ \ hit,
                !.context = [r \in Requests |-> IF r \in hit THEN None ELSE @[r]],
                !.answered = [r \in Requests |->
                                 IF r \in hit /\ body.k = "rpcResult" THEN @[r] + 1 ELSE @[r]]]
    BY DEF ReceiveResult, Hit
  <1> HIDE DEF hit, q
  <1>2. Fields \subseteq DOMAIN p  BY DEF Fit, Good
  <1>3. /\ Fields \subseteq DOMAIN q
        /\ q.state = p.state /\ q.flushing = p.flushing /\ q.reported = p.reported
        /\ q.batch = p.batch /\ q.session = p.session
        /\ q.requests = p.requests \ hit
        /\ q.context = [r \in Requests |-> IF r \in hit THEN None ELSE p.context[r]]
        /\ q.answered = [r \in Requests |->
                            IF r \in hit /\ body.k = "rpcResult" THEN p.answered[r] + 1
                            ELSE p.answered[r]]
    BY <1>1, <1>2 DEF Fields
  <1>4. Alike(p, q) /\ Good(q)  BY ReceiveResultAlike, AlikeIsGood DEF Fit, q
  <1>5. Typed(q)  BY <1>3, <1>4 DEF Fit, Typed, Contexts, FlushIsQueued, Alike
  <1> QED BY <1>3, <1>4, <1>5 DEF Receives, Fit, hit, q

\* what a message makes of p, and of the queue
LEMMA HandledGrows ==
    ASSUME NEW p, NEW m, NEW q, Fit(p), Handled(p, m, q)
    PROVE  Fit(q) /\ JobsGrow(p, q)
  <1>1. CASE m.id \in p.session.processed
    BY <1>1, GoesIsFit DEF Handled, Goes, Moves, Grows, Lives
  <1>2. CASE m.id \notin p.session.processed
    <2>1. PICK s : /\ Goes(Noted(p, m), s)
                   /\ q = (IF m.body.k \in {"rpcResult", "rpcSilent"}
                           THEN ReceiveResult(s, m.body) ELSE s)
      BY <1>2 DEF Handled
    <2>2. Fit(s) /\ JobsGrow(Noted(p, m), s)
      BY <2>1, GoesIsFit DEF Goes, Moves, Grows, Lives
    <2>3. Noted(p, m).jobs = p.jobs  BY NotedFit DEF Fields
    <2>4. JobsGrow(p, s)  BY <2>2, <2>3 DEF JobsGrow
    <2>5. CASE q = s  BY <2>2, <2>4, <2>5
    <2>6. CASE q = ReceiveResult(s, m.body)
      <3>1. Fit(q) /\ q.jobs = s.jobs
        BY ZenonT(30), <2>2, <2>6, ReceiveResultReceives DEF Receives, Alike
      <3> QED BY <2>4, <3>1 DEF JobsGrow
    <2> QED BY <2>1, <2>5, <2>6
  <1> QED BY <1>1, <1>2

LEMMA SelfJobs ==
    ASSUME NEW p, Good(p)
    PROVE  JobsGrow(p, p)
BY ExtendedBySelf, QueueFacts DEF Good, JobsGrow

LEMMA MovesJobs ==
    ASSUME NEW p, NEW q, Moves(p, q)
    PROVE  Fit(q) /\ JobsGrow(p, q)
BY MovesIsFit DEF Moves, Grows, Lives

LEMMA CalmOnward ==
    ASSUME Calm
    PROVE  Onward
BY MovesJobs DEF Calm, Goes, Onward, Fit

LEMMA TurnsOnward ==
    ASSUME FInv, Turn
    PROVE  Onward
  <1>1. CASE AddTurn
    BY <1>1, RecallsGoes, MovesJobs DEF AddTurn, Goes, Onward, Fit
  <1>2. CASE CancelTurn \/ ConnStateTurn \/ RemoveServiceTurn
    BY <1>2, SelfJobs DEF CancelTurn, ConnStateTurn, RemoveServiceTurn, Onward, Fit
  <1>3. CASE PauseTurn
    BY <1>3, CalmOnward DEF PauseTurn, Onward, Fit, Grows, Lives
  <1>4. CASE ResumeTurn
    BY <1>4, CalmOnward, MovesJobs DEF ResumeTurn, Onward, Fit
  <1>5. CASE StopTurn
    BY <1>5, CalmOnward, SelfJobs DEF StopTurn, Onward, Fit, Grows, Lives
  <1>6. CASE FlushTurn
    <2>1. PICK b : /\ Base(b, 1, {"flushing"}) /\ Fit(b)
                   /\ \/ proto' = b
                      \/ \E x : /\ Moves(b, x)
                                /\ proto' = x \/ Hands(x, proto', "needs", x.transport)
      BY <1>6 DEF FlushTurn
    <2>2. CASE proto' = b  BY <2>1, <2>2, SelfJobs DEF Onward, Fit
    <2>3. ASSUME NEW x, Moves(b, x), proto' = x \/ Hands(x, proto', "needs", x.transport)
          PROVE  Onward
      BY <2>1, <2>3, MovesJobs DEF Hands, Fields, JobsGrow, Onward, Fit
    <2> QED BY <2>1, <2>2, <2>3
  <1>7. CASE AuthInfoTurn
    BY <1>7, SelfJobs, MovesJobs DEF AuthInfoTurn, Onward, Fit
  <1>8. CASE TxFailedTurn
    BY <1>8, RecallsGoes, MovesJobs DEF TxFailedTurn, Goes, Onward, Fit
  <1>9. CASE IncomingTurn
    BY <1>9, MovesJobs DEF IncomingTurn, Goes, Onward, Fit
  <1>10. CASE MessageTurn  BY <1>10, HandledGrows DEF MessageTurn, Onward, Fit
  <1>11. CASE ReadyTurn
    <2>1. CASE Calm  BY <2>1, CalmOnward
    <2>2. CASE SendTurn \/ RefusedTurn \/ PingTurn
      <3>1. \E b, x, rs, tx : /\ Base(b, 1, {}) /\ Fit(b) /\ Binds(b, x, rs, tx)
                              /\ proto' = x \/ Moves(x, proto')
        BY <2>2 DEF SendTurn, RefusedTurn, PingTurn, Goes
      <3>2. PICK b, x, rs, tx : /\ Base(b, 1, {}) /\ Fit(b) /\ Binds(b, x, rs, tx)
                                /\ proto' = x \/ Moves(x, proto')
        BY <3>1
      <3>3. Fit(x) /\ x.jobs = b.jobs  BY <3>2 DEF Binds, Alike
      <3>4. Fit(proto') /\ JobsGrow(x, proto')
        BY <3>2, <3>3, SelfJobs, MovesJobs DEF Fit
      <3>5. JobsGrow(b, proto')  BY <3>3, <3>4 DEF JobsGrow
      <3> QED BY <3>2, <3>4, <3>5 DEF Onward, Fit
    <2> QED BY <1>11, <2>1, <2>2 DEF ReadyTurn
  <1> QED BY <1>1, <1>2, <1>3, <1>4, <1>5, <1>6, <1>7, <1>8, <1>9, <1>10, <1>11 DEF Turn

LEMMA TurnsQueue ==
    ASSUME FInv, Turn
    PROVE  Fit(proto') /\ Calls(proto)' /\ \E d : QueueTurn(d)
  <1>1. Fit(proto') /\ \E b, d, fs : Base(b, d, fs) /\ Good(b) /\ JobsGrow(b, proto')
    BY TurnsOnward DEF Onward
  <1>2. PICK d : QueueTurn(d)  BY <1>1, OnwardTurns DEF FInv
  <1>3. Len(proto.jobs) \in Nat /\ proto.jobs # <<>>
    BY ProtoQueues, QueueFacts DEF FInv, Turn
  <1>4. ASSUME NEW i \in 1..Len(proto'.jobs), proto'.jobs[i].op = "add"
        PROVE  proto'.jobs[i].r \in Requests
    <2>1. i + d # 1 /\ i + d <= Len(proto.jobs)
      BY <1>2, <1>3, <1>4 DEF QueueTurn
    <2>2. i + d \in 1..Len(proto.jobs) /\ proto'.jobs[i] = proto.jobs[i + d]
      BY <1>2, <1>3, <2>1 DEF QueueTurn
    <2> QED BY <1>4, <2>2 DEF FInv, Calls
  <1> QED BY <1>1, <1>2, <1>4 DEF Calls

----
(* The steps beside Proto's queue. *)

LEMMA NoneAdded ==
    ASSUME IInv, NEW fs, Fields \subseteq DOMAIN proto', proto'.jobs = proto.jobs,
           \A f \in Fields \ (fs \cup {"jobs"}) : proto'[f] = proto[f]
    PROVE  Adds(fs, <<>>)
BY ProtoQueues, QueueFacts DEF IsQueue, Adds

LEMMA OneAdded ==
    ASSUME IInv, NEW fs, NEW x, Fields \subseteq DOMAIN proto', proto'.jobs = Append(proto.jobs, x),
           \A f \in Fields \ (fs \cup {"jobs"}) : proto'[f] = proto[f]
    PROVE  Adds(fs, <<x>>)
  <1>1. IsQueue(<<x>>) /\ Len(<<x>>) = 1 /\ <<x>>[1] = x  BY TupleFacts
  <1>2. IsQueue(proto.jobs) /\ Len(proto.jobs) \in Nat
    BY ProtoQueues, QueueFacts
  <1>3. /\ IsQueue(proto'.jobs) /\ Len(proto'.jobs) = Len(proto.jobs) + 1
        /\ \A i \in 1..Len(proto.jobs) : proto'.jobs[i] = proto.jobs[i]
        /\ proto'.jobs[Len(proto.jobs) + 1] = x
    BY <1>2, AppendFacts
  <1>4. \A i \in 1..Len(<<x>>) : proto'.jobs[Len(proto.jobs) + i] = <<x>>[i]
    BY <1>1, <1>3
  <1> QED BY <1>1, <1>2, <1>3, <1>4 DEF Adds

LEMMA SomeAdded ==
    ASSUME IInv, NEW fs, NEW js, IsQueue(js), Fields \subseteq DOMAIN proto',
           proto'.jobs = proto.jobs \o js,
           \A f \in Fields \ (fs \cup {"jobs"}) : proto'[f] = proto[f]
    PROVE  Adds(fs, js)
BY ProtoQueues, JoinFacts DEF Adds

LEMMA TellAdds ==
    ASSUME IInv, NEW p, NEW fs, NEW t, NEW js, IsQueue(js), Fields \subseteq DOMAIN p,
           p.jobs = proto.jobs, proto' = Tell(p, t, js),
           \A f \in Fields \ (fs \cup {"jobs"}) : p[f] = proto[f]
    PROVE  Adds(fs, Heard(t, js)) /\ \A f \in Fields \ {"jobs"} : proto'[f] = p[f]
  <1>1. CASE net[t].attached
    <2>1. proto' = [p EXCEPT !.jobs = @ \o js] /\ Heard(t, js) = js
      BY <1>1 DEF Tell, Heard
    <2>2. /\ Fields \subseteq DOMAIN proto' /\ proto'.jobs = proto.jobs \o js
          /\ \A f \in Fields \ {"jobs"} : proto'[f] = p[f]
      BY <2>1 DEF Fields
    <2>3. \A f \in Fields \ (fs \cup {"jobs"}) : proto'[f] = proto[f]  BY <2>2
    <2> QED BY <2>1, <2>2, <2>3, SomeAdded
  <1>2. CASE ~net[t].attached  BY <1>2, NoneAdded DEF Tell, Heard
  <1> QED BY <1>1, <1>2

LEMMA PostAdds ==
    ASSUME IInv, NEW job, Post(job)
    PROVE  Adds({}, <<job>>)
BY ProtoQueues, OneAdded DEF Post, Posted, Good, Fields

LEMMA ContextStepAdds ==
    ASSUME IInv, ContextStep
    PROVE  ContextAdds
  <1> DEFINE job == [op |-> "authInfo", info |-> Head(proto.ctxJobs)]
  <1>1. /\ proto.ctxJobs # <<>>
        /\ Fields \subseteq DOMAIN proto' /\ proto'.jobs = Append(proto.jobs, job)
        /\ proto'.key = Head(proto.ctxJobs) /\ proto'.ctxJobs = Tail(proto.ctxJobs)
        /\ \A f \in Fields \ ({"key", "ctxJobs"} \cup {"jobs"}) : proto'[f] = proto[f]
    BY ProtoQueues DEF ContextStep, Posted, Good, Fields
  <1> HIDE DEF job
  <1>2. Adds({"key", "ctxJobs"}, <<job>>)  BY <1>1, OneAdded
  <1> QED BY <1>1, <1>2 DEF ContextAdds, job

LEMMA AuthCompletedAdds ==
    ASSUME IInv, AuthCompleted
    PROVE  AuthAdds
BY ProtoQueues, NoneAdded DEF AuthCompleted, Good, Fields, AuthAdds

LEMMA TcpStepAdds ==
    ASSUME IInv, TcpStep
    PROVE  TcpAdds
  <1> DEFINE p == TcpDequeued
             t == TcpTarget
  <1>1. TcpOp # "idle" /\ proto.tcpJobs # <<>>
    BY DEF TcpStep, TcpSkip, TcpUpdate, TcpNeeds, TcpFlush, TcpValid, TcpDetach,
       TcpStop, TcpOp
  <1>2. /\ Fields \subseteq DOMAIN p /\ p.jobs = proto.jobs /\ p.tcpJobs = Tail(proto.tcpJobs)
        /\ \A f \in Fields \ ({"tcpJobs"} \cup {"jobs"}) : p[f] = proto[f]
    BY ProtoQueues DEF TcpDequeued, Good, Fields
  <1> HIDE DEF p, t
  <1>3. ASSUME NEW x, TcpNews = Heard(t, <<x>>), proto' = Tell(p, t, <<x>>),
               TcpOp # "needs"
        PROVE  TcpAdds
    <2>1. IsQueue(<<x>>)  BY TupleFacts
    <2>2. Adds({"tcpJobs"}, Heard(t, <<x>>)) /\ \A f \in Fields \ {"jobs"} : proto'[f] = p[f]
      BY <1>2, <1>3, <2>1, TellAdds
    <2>3. proto'.tcpJobs = Tail(proto.tcpJobs)  BY <1>2, <2>2 DEF Fields
    <2> QED BY <1>1, <1>3, <2>2, <2>3 DEF TcpAdds
  <1>4. ASSUME TcpNews = <<>>, proto' = p,
               ~(TcpOp = "needs" /\ TcpTarget \in DOMAIN net /\ ~net[TcpTarget].flushing)
        PROVE  TcpAdds
    BY <1>1, <1>2, <1>4, NoneAdded DEF TcpAdds
  <1>5. CASE TcpSkip  BY <1>4, <1>5 DEF TcpSkip, TcpNews, p
  <1>6. CASE TcpUpdate  BY <1>3, <1>6 DEF TcpUpdate, TcpNews, p, t
  <1>7. CASE TcpNeeds
    BY <1>1, <1>2, <1>4, <1>7, NoneAdded DEF TcpNeeds, TcpNews, p, t, PostTcp, Fields,
       TcpAdds
  <1>8. CASE TcpFlush  BY <1>3, <1>4, <1>8 DEF TcpFlush, TcpNews, p, t
  <1>9. CASE TcpValid \/ TcpDetach
    BY <1>4, <1>9 DEF TcpValid, TcpDetach, TcpNews, p
  <1>10. CASE TcpStop  BY <1>3, <1>4, <1>10 DEF TcpStop, TcpNews, p, t
  <1> QED BY <1>5, <1>6, <1>7, <1>8, <1>9, <1>10 DEF TcpStep

LEMMA ConnectionOpenedAdds ==
    ASSUME IInv, NEW t, ConnectionOpened(t)
    PROVE  Adds({}, Heard(t, <<ConnState(TRUE), [op |-> "ready", t |-> t, ping |-> TRUE]>>))
  <1> DEFINE js == <<ConnState(TRUE), [op |-> "ready", t |-> t, ping |-> TRUE]>>
  <1>1. proto' = Tell(proto, t, js)  BY DEF ConnectionOpened
  <1>2. IsQueue(js)  BY TupleFacts
  <1> HIDE DEF js
  <1>3. Fields \subseteq DOMAIN proto  BY ProtoQueues DEF Good
  <1>4. Adds({}, Heard(t, js))  BY <1>1, <1>2, <1>3, TellAdds
  <1> QED BY <1>4 DEF js

LEMMA ConnectionClosedAdds ==
    ASSUME IInv, NEW t, ConnectionClosed(t)
    PROVE  Adds({}, Heard(t, <<ConnState(FALSE), [op |-> "txFailed", t |-> t]>>))
  <1> DEFINE js == <<ConnState(FALSE), [op |-> "txFailed", t |-> t]>>
  <1>1. proto' = Tell(proto, t, js)  BY DEF ConnectionClosed
  <1>2. IsQueue(js)  BY TupleFacts
  <1> HIDE DEF js
  <1>3. Fields \subseteq DOMAIN proto  BY ProtoQueues DEF Good
  <1>4. Adds({}, Heard(t, js))  BY <1>1, <1>2, <1>3, TellAdds
  <1> QED BY <1>4 DEF js

LEMMA NothingAdded ==
    ASSUME IInv, proto' = proto \/ LockExpires
    PROVE  Adds({"lock"}, <<>>)
BY ProtoQueues, NoneAdded DEF LockExpires, Good, Fields

LEMMA PostedAdds ==
    ASSUME IInv, NEW x, proto' = Posted(x)
    PROVE  Adds({}, <<x>>)
BY ProtoQueues, OneAdded DEF Posted, Good, Fields

LEMMA ServerAdds ==
    ASSUME IInv, Server
    PROVE  AnswerArrives \/ MessageArrives \/ NoiseArrives
  <1>1. ASSUME NEW s0 \in wire, Answer(s0.mid)
        PROVE  AnswerArrives
    BY <1>1, PostedAdds DEF Answer, Arrives, Packet, AnswerArrives
  <1>2. ASSUME NEW t \in DOMAIN net, ServerSends(t)
        PROVE  MessageArrives
    BY <1>2, PostedAdds DEF ServerSends, Arrives, Packet, MessageArrives
  <1>3. ASSUME NEW t \in DOMAIN net, ServerGarbles(t)
        PROVE  NoiseArrives
    BY <1>3, PostedAdds DEF ServerGarbles, Garbled, Arrives, Packet, NoiseArrives
  <1> QED BY <1>1, <1>2, <1>3 DEF Server

----
(* FInv is kept by the steps beside Proto's queue. *)

\* none of them asks for a flush job or touches what Proto's queue is alone to touch
LEMMA AddsFit ==
    ASSUME FInv, IInv', NEW fs, NEW js, Adds(fs, js),
           fs \subseteq {"tcpJobs", "ctxJobs", "key", "infos", "lock"},
           proto'.key = proto.key \/ proto'.key # 0,
           \A i \in 1..Len(js) : js[i].op = "add" => js[i].r \in Requests
    PROVE  FInv'
  <1>1. Good(proto')  BY DEF IInv, Sound, Core
  <1>2. /\ proto'.state = proto.state /\ proto'.transport = proto.transport
        /\ proto'.created = proto.created /\ proto'.flushing = proto.flushing
        /\ proto'.batch = proto.batch /\ proto'.session = proto.session
        /\ proto'.requests = proto.requests /\ proto'.context = proto.context
    BY DEF Adds, Fields
  <1>3. Len(proto.jobs) \in Nat /\ Len(proto'.jobs) \in Nat /\ Len(js) \in Nat
    BY <1>1, ProtoQueues, QueueFacts DEF FInv, Good, Adds
  <1>4. FlushIsQueued(proto')
    BY <1>2, <1>3 DEF FlushIsQueued, FInv, Fit, Typed, Adds
  <1>5. Typed(proto')  BY <1>2, <1>4 DEF FInv, Fit, Typed, Contexts
  <1>6. ASSUME NEW i \in 1..Len(proto'.jobs), proto'.jobs[i].op = "add"
        PROVE  proto'.jobs[i].r \in Requests
    <2>1. CASE i \in 1..Len(proto.jobs)  BY <1>6, <2>1 DEF Adds, FInv, Calls
    <2>2. CASE i \notin 1..Len(proto.jobs)
      <3>1. i - Len(proto.jobs) \in 1..Len(js) /\ Len(proto.jobs) + (i - Len(proto.jobs)) = i
        BY <1>3, <2>2 DEF Adds
      <3>2. proto'.jobs[i] = js[i - Len(proto.jobs)]  BY <3>1 DEF Adds
      <3> QED BY <1>6, <3>1, <3>2
    <2> QED BY <2>1, <2>2
  <1> QED BY <1>1, <1>5, <1>6 DEF FInv, Fit, Calls

LEMMA OpsFacts ==
    ASSUME NEW x, NEW y, NEW t, NEW ops, x.op \in ops
    PROVE  /\ Ops(<<>>, ops) /\ Ops(<<x>>, ops) /\ Ops(Heard(t, <<x>>), ops)
           /\ y.op \in ops => Ops(Heard(t, <<x, y>>), ops)
BY DEF Ops, Heard

LEMMA TcpNewsOps == Ops(TcpNews, News)
  <1>1. \A up : ConnState(up).op \in News  BY DEF ConnState, News
  <1>2. \A t : ReadyJob(t).op \in News  BY DEF ReadyJob, News
  <1> QED BY <1>1, <1>2, OpsFacts DEF TcpNews

LEMMA OutsideAdds ==
    ASSUME IInv, Outside
    PROVE  \E js : Adds({"tcpJobs", "lock"}, js) /\ Ops(js, News) /\ client' = client
  <1>1. CASE TcpStep
    BY <1>1, TcpStepAdds, TcpNewsOps DEF TcpAdds, Adds, TcpStep, TcpSkip, TcpUpdate,
       TcpNeeds, TcpFlush, TcpValid, TcpDetach, TcpStop
  <1>2. CASE Network
    <2>1. PICK t \in DOMAIN net : ConnectionOpened(t) \/ ConnectionClosed(t) \/ BackoffTimer(t)
      BY <1>2 DEF Network
    <2>2. client' = client
      BY <2>1 DEF ConnectionOpened, ConnectionClosed, BackoffTimer
    <2>3. \A up : ConnState(up).op \in News  BY DEF ConnState, News
    <2>4. CASE ConnectionOpened(t)
      <3> DEFINE x == [op |-> "ready", t |-> t, ping |-> TRUE]
                 js == Heard(t, <<ConnState(TRUE), x>>)
      <3>1. Ops(js, News)
        <4>1. x.op \in News  BY DEF News
        <4> HIDE DEF x
        <4> QED BY <2>3, <4>1, OpsFacts
      <3>2. Adds({}, js)  BY <2>4, ConnectionOpenedAdds
      <3> HIDE DEF js
      <3>3. Adds({"tcpJobs", "lock"}, js)  BY <3>2 DEF Adds
      <3> QED BY <2>2, <3>1, <3>3
    <2>5. CASE ConnectionClosed(t)
      <3> DEFINE x == [op |-> "txFailed", t |-> t]
                 js == Heard(t, <<ConnState(FALSE), x>>)
      <3>1. Ops(js, News)
        <4>1. x.op \in News  BY DEF News
        <4> HIDE DEF x
        <4> QED BY <2>3, <4>1, OpsFacts
      <3>2. Adds({}, js)  BY <2>5, ConnectionClosedAdds
      <3> HIDE DEF js
      <3>3. Adds({"tcpJobs", "lock"}, js)  BY <3>2 DEF Adds
      <3> QED BY <2>2, <3>1, <3>3
    <2>6. CASE BackoffTimer(t)
      BY <2>2, <2>6, NothingAdded DEF BackoffTimer, Adds, Ops
    <2> QED BY <2>1, <2>4, <2>5, <2>6
  <1>3. CASE Server
    <2>1. \E t, quality, msgs : Arrives(t, quality, msgs)
      BY <1>3, ServerAdds DEF AnswerArrives, MessageArrives, NoiseArrives
    <2>2. PICK t, quality, msgs : Arrives(t, quality, msgs)  BY <2>1
    <2> DEFINE x == [op |-> "incoming", t |-> t, quality |-> quality, msgs |-> msgs]
    <2>3. Ops(<<x>>, News)
      <3>1. x.op \in News  BY DEF News
      <3> HIDE DEF x
      <3> QED BY <3>1, OpsFacts
    <2>4. Adds({}, <<x>>) /\ client' = client  BY <2>2 DEF Arrives
    <2> HIDE DEF x
    <2>5. Adds({"tcpJobs", "lock"}, <<x>>)  BY <2>4 DEF Adds
    <2> QED BY <2>3, <2>4, <2>5
  <1>4. CASE SaltsLapse \/ LockExpires \/ UNCHANGED vars
    BY <1>4, NothingAdded DEF SaltsLapse, LockExpires, vars, Adds, Ops
  <1> QED BY <1>1, <1>2, <1>3, <1>4 DEF Outside

LEMMA UserPosts ==
    ASSUME IInv, User
    PROVE  UserAdds
  <1>1. ASSUME NEW r \in Requests, Send(r)
        PROVE  UserAdds
    BY <1>1, PostAdds DEF Send, UserAdds, UserMakes
  <1>2. ASSUME NEW job, Post(job),
               job.op \in {"cancel", "pause", "resume", "removeService", "stop"},
               job.op = "cancel" => job.r \in client.issued,
               client'.issued = client.issued \/ "issued" \notin DOMAIN client,
               DOMAIN client' = DOMAIN client
        PROVE  UserAdds
    BY <1>2, PostAdds DEF UserAdds, UserMakes, UserTells
  <1>3. ASSUME NEW r \in Requests, Cancel(r)
        PROVE  UserAdds
    BY <1>2, <1>3 DEF Cancel
  <1>4. CASE Pause  BY <1>2, <1>4 DEF Pause
  <1>5. CASE Resume  BY <1>2, <1>5 DEF Resume
  <1>6. CASE Stop  BY <1>2, <1>6 DEF Stop
  <1> QED BY <1>1, <1>3, <1>4, <1>5, <1>6 DEF User

LEMMA FInvInit ==
    ASSUME Init
    PROVE  FInv
  <1>1. Len(proto.jobs) = 0  BY InitFields
  <1>2. Contexts(proto)  BY InitFields DEF Contexts
  <1>3. SessionFields \subseteq DOMAIN proto.session /\ proto.session.first = 1
    BY InitFields DEF NewSession, SessionFields
  <1>4. Typed(proto)  BY InitFields, <1>2, <1>3 DEF Typed, FlushIsQueued
  <1> QED BY InitIsSound, ProtoQueues, <1>1, <1>4 DEF Calls, FInv, Fit

LEMMA ProtoStepFits ==
    ASSUME FInv, IInv', ProtoStep \/ ReadyViolated
    PROVE  FInv'
BY ProtoTurns, TurnsQueue DEF FInv

LEMMA StepFits ==
    ASSUME FInv, [Next]_vars
    PROVE  FInv'
  <1>1. IInv /\ IInv'  BY StepKeeps DEF FInv, Kept
  <1>2. CASE ProtoStep \/ ReadyViolated  BY <1>1, <1>2, ProtoStepFits
  <1>3. CASE Outside
    BY <1>1, <1>3, OutsideAdds, AddsFit DEF Adds, Fields, Ops, News
  <1>4. CASE User
    <2>1. UserAdds  BY <1>1, <1>4, UserPosts
    <2>2. ASSUME NEW x, Adds({}, <<x>>), x.op = "add" => x.r \in Requests
          PROVE  FInv'
      <3>1. proto'.key = proto.key  BY <2>2 DEF Adds, Fields
      <3>2. \A i \in 1..Len(<<x>>) : <<x>>[i].op = "add" => <<x>>[i].r \in Requests
        BY <2>2
      <3> QED BY <1>1, <2>2, <3>1, <3>2, AddsFit
    <2> QED BY <2>1, <2>2 DEF UserAdds, UserMakes, UserTells
  <1>5. CASE ContextStep
    <2>1. ContextAdds  BY <1>1, <1>5, ContextStepAdds
    <2> DEFINE x == [op |-> "authInfo", info |-> Head(proto.ctxJobs)]
    <2>2. proto'.key # 0
      BY <1>1, <2>1, ProtoQueues, TailFacts, QueueFacts DEF ContextAdds, IInv, Sound,
         Core, KeyComesFirst
    <2>3. \A i \in 1..Len(<<x>>) : <<x>>[i].op # "add"  OBVIOUS
    <2>4. Adds({"key", "ctxJobs"}, <<x>>)  BY <2>1 DEF ContextAdds
    <2> HIDE DEF x
    <2> QED BY <1>1, <2>2, <2>3, <2>4, AddsFit
  <1>6. CASE AuthCompleted
    <2>1. Adds({"infos", "ctxJobs"}, <<>>)
      BY <1>1, <1>6, AuthCompletedAdds DEF AuthAdds
    <2>2. proto'.key = proto.key  BY <2>1 DEF Adds, Fields
    <2> QED BY <1>1, <2>1, <2>2, AddsFit
  <1> QED BY <1>2, <1>3, <1>4, <1>5, <1>6 DEF Next, Outside

\* The types that hold beyond the life cycle: of the requests and their
\* contexts, of the session's first batch, and of the flush job that a set
\* willRequestTransactionOnNextQueuePass stands for.
THEOREM FInvHolds == Spec => []FInv
  <1>1. Init => FInv  BY FInvInit
  <1>2. FInv /\ [Next]_vars => FInv'  BY StepFits
  <1> QED BY <1>1, <1>2, PTL DEF Spec

----
(* The authorization key. *)

LEMMA MovesKey ==
    ASSUME NEW p, NEW q, Fit(p), Moves(p, q)
    PROVE  KeyGoes(p, q)
BY MovesIsFit, QueueFacts DEF Moves, Grows, Lives, Fit, Good, KeyMoves, KeyGoes

LEMMA KeyOfBase ==
    ASSUME NEW b, NEW d, NEW fs, Base(b, d, fs), KeyGoes(b, proto'),
           fs \cap {"infos", "key", "ctxJobs"} = {},
           IF HeadOp = "authInfo" THEN b.authInfo = TheJob.info ELSE "authInfo" \notin fs
    PROVE  KeyTurn
BY DEF Base, Fields, KeyGoes, KeyTurn

LEMMA HandledKey ==
    ASSUME NEW p, NEW m, NEW q, Fit(p), Handled(p, m, q)
    PROVE  KeyGoes(p, q)
  <1>1. CASE m.id \in p.session.processed  BY <1>1, MovesKey DEF Handled, Goes
  <1>2. CASE m.id \notin p.session.processed
    <2>1. PICK s : /\ Goes(Noted(p, m), s)
                   /\ q = (IF m.body.k \in {"rpcResult", "rpcSilent"}
                           THEN ReceiveResult(s, m.body) ELSE s)
      BY <1>2 DEF Handled
    <2>2. KeyGoes(Noted(p, m), s) /\ Fit(s)
      BY <2>1, NotedFit, MovesKey, GoesIsFit DEF Goes
    <2>3. KeyGoes(p, s)  BY <2>2, NotedFit DEF Fields, KeyGoes
    <2>4. CASE q = ReceiveResult(s, m.body)
      <3>1. Alike(s, q)  BY <2>2, <2>4, ReceiveResultReceives DEF Receives
      <3> QED BY <2>3, <3>1 DEF KeyGoes, Alike
    <2> QED BY <2>1, <2>3, <2>4
  <1> QED BY <1>1, <1>2

LEMMA CalmKey ==
    ASSUME Calm, HeadOp # "authInfo"
    PROVE  KeyTurn
BY KeyOfBase, MovesKey DEF Calm, Goes

LEMMA TurnsKey ==
    ASSUME FInv, Turn
    PROVE  KeyTurn
  <1>1. \A b : KeyGoes(b, b)  BY DEF KeyGoes
  <1>2. CASE HeadOp = "add" /\ AddTurn
    BY <1>2, RecallsGoes, MovesKey, KeyOfBase DEF AddTurn, Goes
  <1>3. CASE \/ HeadOp = "cancel" /\ CancelTurn
             \/ HeadOp = "connState" /\ ConnStateTurn
             \/ HeadOp = "removeService" /\ RemoveServiceTurn
    BY <1>1, <1>3, KeyOfBase DEF CancelTurn, ConnStateTurn, RemoveServiceTurn
  <1>4. CASE HeadOp = "pause" /\ PauseTurn
    BY <1>4, CalmKey, KeyOfBase DEF PauseTurn, Shifts, KeyGoes
  <1>5. CASE HeadOp = "resume" /\ ResumeTurn
    BY <1>5, CalmKey, MovesKey, KeyOfBase DEF ResumeTurn
  <1>6. CASE HeadOp = "stop" /\ StopTurn
    <2>1. CASE Calm  BY <1>6, <2>1, CalmKey
    <2>2. CASE ~Calm
      <3>1. PICK b : Base(b, 1, {"state"}) /\ (proto' = b \/ Shifts(b, proto', 0))
        BY <1>6, <2>2 DEF StopTurn
      <3>2. KeyGoes(b, proto')  BY <3>1 DEF Shifts, KeyGoes
      <3> QED BY <1>6, <3>1, <3>2, KeyOfBase
    <2> QED BY <2>1, <2>2
  <1>7. CASE HeadOp = "flush" /\ FlushTurn
    <2>1. PICK b : /\ Base(b, 1, {"flushing"}) /\ Fit(b)
                   /\ \/ proto' = b
                      \/ \E x : /\ Moves(b, x)
                                /\ proto' = x \/ Hands(x, proto', "needs", x.transport)
      BY <1>7 DEF FlushTurn
    <2>2. ASSUME NEW x, Moves(b, x), proto' = x \/ Hands(x, proto', "needs", x.transport)
          PROVE  KeyGoes(b, proto')
      BY <2>1, <2>2, MovesKey DEF Hands, Fields, KeyGoes
    <2>3. KeyGoes(b, proto')  BY <1>1, <2>1, <2>2
    <2> QED BY <1>7, <2>1, <2>3, KeyOfBase
  <1>8. CASE HeadOp = "authInfo" /\ AuthInfoTurn
    BY <1>1, <1>8, MovesKey, KeyOfBase DEF AuthInfoTurn
  <1>9. CASE HeadOp = "txFailed" /\ TxFailedTurn
    BY <1>9, RecallsGoes, MovesKey, KeyOfBase DEF TxFailedTurn, Goes
  <1>10. CASE HeadOp = "incoming" /\ IncomingTurn
    BY <1>10, MovesKey, KeyOfBase DEF IncomingTurn, Goes
  <1>11. CASE HeadOp = "messages" /\ MessageTurn
    BY <1>11, HandledKey, KeyOfBase DEF MessageTurn
  <1>12. CASE HeadOp = "ready" /\ ReadyTurn
    <2>1. CASE Calm  BY <1>12, <2>1, CalmKey
    <2>2. CASE SendTurn \/ RefusedTurn \/ PingTurn
      <3>1. \E b, x, rs, tx : /\ Base(b, 1, {}) /\ Fit(b) /\ Binds(b, x, rs, tx)
                              /\ proto' = x \/ Moves(x, proto')
        BY <2>2 DEF SendTurn, RefusedTurn, PingTurn, Goes
      <3>2. PICK b, x, rs, tx : /\ Base(b, 1, {}) /\ Fit(b) /\ Binds(b, x, rs, tx)
                                /\ proto' = x \/ Moves(x, proto')
        BY <3>1
      <3>3. KeyGoes(x, proto')  BY <1>1, <3>2, MovesKey DEF Binds
      <3>4. KeyGoes(b, proto')  BY <3>2, <3>3 DEF KeyGoes, Binds, Alike
      <3> QED BY <1>12, <3>2, <3>4, KeyOfBase
    <2> QED BY <1>12, <2>1, <2>2 DEF ReadyTurn
  <1> QED BY <1>2, <1>3, <1>4, <1>5, <1>6, <1>7, <1>8, <1>9, <1>10, <1>11, <1>12 DEF Turn

LEMMA EmptyQueue ==
    ASSUME NEW s, IsQueue(s)
    PROVE  s = <<>> <=> Len(s) = 0
BY DEF IsQueue

LEMMA TurnsSettle ==
    ASSUME FInv, Turn, NewestIsLast(proto)
    PROVE  NewestIsLast(proto')
  <1>1. KeyTurn  BY TurnsKey
  <1>2. PICK d : QueueTurn(d)  BY TurnsQueue
  <1>3. /\ Len(proto.jobs) \in Nat /\ Len(proto.jobs) >= 1 /\ Len(proto'.jobs) \in Nat
        /\ d \in {0, 1} /\ HeadOp = proto.jobs[1].op /\ TheJob = proto.jobs[1]
    BY <1>2, FirstJob, QueueFacts DEF FInv, Turn, QueueTurn
  <1>4. SUFFICES ASSUME /\ proto'.infos = proto.infos /\ proto'.key = proto.key
                        /\ proto'.ctxJobs = proto.ctxJobs
                        /\ proto'.authInfo = IF HeadOp = "authInfo" THEN TheJob.info ELSE proto.authInfo,
                        proto.ctxJobs = <<>>, KeySettles(proto)
                 PROVE  KeySettles(proto')
    BY <1>1 DEF KeyTurn, NewestIsLast
  \* an update of the key that is queued after the turn was queued before it
  <1>5. ASSUME NEW j \in 1..Len(proto'.jobs), proto'.jobs[j].op = "authInfo"
        PROVE  /\ j + d \in 1..Len(proto.jobs) /\ j + d # 1
               /\ proto.jobs[j + d] = proto'.jobs[j]
    <2>1. j + d <= Len(proto.jobs)  BY <1>2, <1>3, <1>5 DEF QueueTurn
    <2>2. j + d # 1
      <3>1. SUFFICES ASSUME j + d = 1 PROVE FALSE
        OBVIOUS
      <3>2. j = 1 /\ d = 0  BY <1>3, <3>1
      <3> QED BY <1>2, <1>5, <3>2 DEF QueueTurn
    <2> QED BY <1>2, <1>3, <2>1, <2>2 DEF QueueTurn
  <1>6. ASSUME NEW i \in 1..Len(proto.jobs),
               proto.jobs[i].op = "authInfo", proto.jobs[i].info = proto.infos,
               \A j \in 1..Len(proto.jobs) : j > i => proto.jobs[j].op # "authInfo"
        PROVE  KeySettles(proto')
    <2>1. CASE i = 1
      <3>1. proto'.authInfo = proto'.infos  BY <1>3, <1>4, <1>6, <2>1
      <3>2. \A j \in 1..Len(proto'.jobs) : proto'.jobs[j].op # "authInfo"
        BY <1>3, <1>5, <1>6, <2>1
      <3> QED BY <3>1, <3>2 DEF KeySettles
    <2>2. CASE i # 1
      <3>1. i - d \in 1..Len(proto'.jobs) /\ (i - d) + d = i
        BY <1>2, <1>3, <2>2 DEF QueueTurn
      <3>2. proto'.jobs[i - d] = proto.jobs[i]
        BY <1>2, <1>3, <2>2, <3>1 DEF QueueTurn
      <3>3. ASSUME NEW j \in 1..Len(proto'.jobs), j > i - d, proto'.jobs[j].op = "authInfo"
            PROVE  FALSE
        <4>1. /\ j + d \in 1..Len(proto.jobs)
              /\ proto.jobs[j + d] = proto'.jobs[j]
          BY <1>5, <3>3
        <4>2. j + d > i  BY <1>3, <3>3
        <4> QED BY <1>6, <3>3, <4>1, <4>2
      <3> QED BY <1>4, <1>6, <3>1, <3>2, <3>3 DEF KeySettles
    <2> QED BY <2>1, <2>2
  <1>7. ASSUME proto.authInfo \in {0, proto.infos},
               \A j \in 1..Len(proto.jobs) : proto.jobs[j].op # "authInfo"
        PROVE  KeySettles(proto')
    <2>1. proto'.authInfo \in {0, proto'.infos}  BY <1>3, <1>4, <1>7
    <2> QED BY <1>5, <1>7, <2>1 DEF KeySettles
  <1> QED BY <1>4, <1>6, <1>7 DEF KeySettles

\* jobs that bring no key
LEMMA AddsSettle ==
    ASSUME IInv, NewestIsLast(proto), NEW fs, NEW js, Adds(fs, js),
           fs \subseteq {"tcpJobs", "lock"},
           \A i \in 1..Len(js) : js[i].op # "authInfo"
    PROVE  NewestIsLast(proto')
  <1>1. /\ proto'.infos = proto.infos /\ proto'.key = proto.key
        /\ proto'.ctxJobs = proto.ctxJobs /\ proto'.authInfo = proto.authInfo
    BY DEF Adds, Fields
  <1>2. SUFFICES ASSUME KeySettles(proto) PROVE KeySettles(proto')
    BY <1>1 DEF NewestIsLast
  <1>3. Len(proto.jobs) \in Nat /\ Len(proto'.jobs) \in Nat /\ Len(js) \in Nat
    BY ProtoQueues, QueueFacts DEF Adds
  <1>4. ASSUME NEW j \in 1..Len(proto'.jobs), j > Len(proto.jobs)
        PROVE  proto'.jobs[j].op # "authInfo"
    <2>1. j - Len(proto.jobs) \in 1..Len(js) /\ Len(proto.jobs) + (j - Len(proto.jobs)) = j
      BY <1>3, <1>4 DEF Adds
    <2>2. proto'.jobs[j] = js[j - Len(proto.jobs)]  BY <2>1 DEF Adds
    <2> QED BY <2>1, <2>2
  <1>5. ASSUME NEW i \in 1..Len(proto.jobs),
               proto.jobs[i].op = "authInfo", proto.jobs[i].info = proto.infos,
               \A j \in 1..Len(proto.jobs) : j > i => proto.jobs[j].op # "authInfo"
        PROVE  KeySettles(proto')
    <2>1. i \in 1..Len(proto'.jobs) /\ proto'.jobs[i] = proto.jobs[i]
      BY <1>3 DEF Adds
    <2>2. \A j \in 1..Len(proto'.jobs) : j > i => proto'.jobs[j].op # "authInfo"
      BY <1>3, <1>4, <1>5 DEF Adds
    <2> QED BY <1>1, <1>5, <2>1, <2>2 DEF KeySettles
  <1>6. ASSUME proto.authInfo \in {0, proto.infos},
               \A j \in 1..Len(proto.jobs) : proto.jobs[j].op # "authInfo"
        PROVE  KeySettles(proto')
    <2>1. ASSUME NEW j \in 1..Len(proto.jobs) PROVE proto'.jobs[j].op # "authInfo"
      BY <1>6, <2>1 DEF Adds
    <2>2. \A j \in 1..Len(proto'.jobs) : proto'.jobs[j].op # "authInfo"
      BY <1>3, <1>4, <2>1
    <2> QED BY <1>1, <1>6, <2>2 DEF KeySettles
  <1> QED BY <1>2, <1>5, <1>6 DEF KeySettles

\* Context's job becomes the last update on its way to Proto
LEMMA ContextSettles ==
    ASSUME IInv, NewestIsLast(proto), ContextAdds
    PROVE  NewestIsLast(proto')
  <1> DEFINE n == Len(proto.ctxJobs)
             k == Len(proto.jobs)
             job == [op |-> "authInfo", info |-> Head(proto.ctxJobs)]
  <1>1. /\ n \in Nat /\ n >= 1 /\ k \in Nat
        /\ IsQueue(Tail(proto.ctxJobs)) /\ Len(Tail(proto.ctxJobs)) = n - 1
        /\ \A i \in 1..(n - 1) : Tail(proto.ctxJobs)[i] = proto.ctxJobs[i + 1]
        /\ Head(proto.ctxJobs) = proto.ctxJobs[1]
    BY ProtoQueues, TailFacts, QueueFacts DEF ContextAdds
  <1>2. proto.ctxJobs[n] = proto.infos  BY DEF ContextAdds, NewestIsLast
  <1>3. /\ proto'.infos = proto.infos /\ proto'.key = proto.ctxJobs[1]
        /\ proto'.ctxJobs = Tail(proto.ctxJobs)
    BY <1>1 DEF ContextAdds, Adds, Fields
  <1>4. /\ Len(proto'.jobs) = k + 1 /\ proto'.jobs[k + 1] = job
    <2>1. Len(<<job>>) = 1 /\ <<job>>[1] = job  OBVIOUS
    <2>2. Adds({"key", "ctxJobs"}, <<job>>)  BY DEF ContextAdds
    <2> HIDE DEF job
    <2> QED BY <2>1, <2>2 DEF Adds
  <1> HIDE DEF n, k
  <1>5. CASE n = 1
    <2>1. Tail(proto.ctxJobs) = <<>>
      <3> DEFINE u == Tail(proto.ctxJobs)
      <3>1. IsQueue(u) /\ Len(u) = 0  BY <1>1, <1>5
      <3> HIDE DEF u
      <3>2. u = <<>>  BY <3>1, EmptyQueue
      <3> QED BY <3>2 DEF u
    <2>2. KeySettles(proto')  BY <1>1, <1>2, <1>3, <1>4, <1>5 DEF KeySettles
    <2> QED BY <1>2, <1>3, <1>5, <2>1, <2>2 DEF NewestIsLast
  <1>6. CASE n # 1
    <2>1. Tail(proto.ctxJobs) # <<>>
      <3> DEFINE u == Tail(proto.ctxJobs)
      <3>1. n - 1 # 0  BY <1>1, <1>6
      <3>2. IsQueue(u) /\ Len(u) = n - 1  BY <1>1
      <3> HIDE DEF u
      <3>3. u # <<>>  BY <3>1, <3>2, EmptyQueue
      <3> QED BY <3>3 DEF u
    <2>2. Tail(proto.ctxJobs)[n - 1] = proto.infos  BY <1>1, <1>2, <1>6
    <2> QED BY <1>1, <1>3, <2>1, <2>2 DEF NewestIsLast
  <1> QED BY <1>5, <1>6

LEMMA StepSettles ==
    ASSUME KInv, [Next]_vars
    PROVE  KInv'
  <1>1. FInv /\ FInv' /\ IInv /\ NewestIsLast(proto)  BY StepFits DEF KInv, FInv
  <1>2. CASE ProtoStep \/ ReadyViolated
    BY <1>1, <1>2, ProtoTurns, TurnsSettle DEF KInv, NewestIsLast, KeySettles
  <1>3. CASE Outside
    BY <1>1, <1>3, OutsideAdds, AddsSettle DEF Ops, News, KInv, NewestIsLast,
       KeySettles
  <1>4. CASE User
    <2>1. UserAdds  BY <1>1, <1>4, UserPosts
    <2>2. ASSUME NEW x, Adds({}, <<x>>), x.op # "authInfo"
          PROVE  NewestIsLast(proto')
      BY <1>1, <2>2, AddsSettle
    <2>3. NewestIsLast(proto')  BY <2>1, <2>2 DEF UserAdds, UserMakes, UserTells
    <2> QED BY <1>1, <2>3 DEF KInv, NewestIsLast, KeySettles
  <1>5. CASE ContextStep
    BY <1>1, <1>5, ContextStepAdds, ContextSettles DEF KInv, NewestIsLast, KeySettles
  <1>6. CASE AuthCompleted
    BY <1>1, <1>6, AuthCompletedAdds, ProtoQueues, AppendFacts, QueueFacts DEF
       AuthAdds, NewestIsLast, KInv, KeySettles
  <1> QED BY <1>2, <1>3, <1>4, <1>5, <1>6 DEF Next, Outside

LEMMA KInvInit ==
    ASSUME Init
    PROVE  KInv
BY FInvInit, InitFields, BoundsAssumption DEF NewestIsLast, KeySettles, KInv

\* timeSyncInfoChanged and the authorization set a key ahead of Context's
\* copy, which goes round through two queues, as do the copies of older keys:
\* however they overtake each other, when the queues have run dry Proto and
\* Context hold the newest.
THEOREM NewestKeySettles == Spec => []AuthInfoSettles
  <1>1. KInv => AuthInfoSettles
    BY DEF Settled, KInv, FInv, IInv, Sound, Core, KeyComesFirst, NewestIsLast,
           KeySettles, AuthInfoSettles
  <1>2. Init => KInv  BY KInvInit
  <1>3. KInv /\ [Next]_vars => KInv'  BY StepSettles
  <1> QED BY <1>1, <1>2, <1>3, PTL DEF Spec

----
(* The contract with the caller. *)

LEMMA SteadyFacts ==
    ASSUME NEW p, NEW q
    PROVE  /\ Moves(p, q) => Steady(p, q)
           /\ Recalls(p, q) => Steady(p, q)
           /\ \A t : Shifts(p, q, t) => Steady(p, q)
           /\ \A rs, tx : Binds(p, q, rs, tx) => Steady(p, q)
           /\ \A op, t : Hands(p, q, op, t) => Steady(p, q)
BY DEF Steady, Moves, Grows, Lives, Recalls, Untouched, Shifts, Binds, Alike, Hands, Fields

LEMMA BaseSteady ==
    ASSUME NEW b, NEW d, NEW fs, Base(b, d, fs),
           fs \cap {"requests", "answered", "registered"} = {}
    PROVE  Steady(proto, b)
BY DEF Steady, Base, Fields

LEMMA CalmSteady ==
    ASSUME Calm
    PROVE  Steady(proto, proto')
BY BaseSteady, SteadyFacts DEF Calm, Goes, Steady

\* a message settles at most one call
LEMMA HandledCalls ==
    ASSUME NEW p, NEW m, NEW q, Fit(p), Handled(p, m, q)
    PROVE  \E hit, ok : Returned(p, q, hit, ok)
  <1>0. p.answered = [r \in Requests |-> p.answered[r]]
    BY DEF Fit, Good, IsCounter
  <1>1. ASSUME Steady(p, q)
        PROVE  Returned(p, q, {}, FALSE)
    BY <1>0, <1>1 DEF Returned, Steady
  <1>2. CASE m.id \in p.session.processed
    BY <1>1, <1>2, SteadyFacts DEF Handled, Goes
  <1>3. CASE m.id \notin p.session.processed
    <2>1. PICK s : /\ Goes(Noted(p, m), s)
                   /\ q = (IF m.body.k \in {"rpcResult", "rpcSilent"}
                           THEN ReceiveResult(s, m.body) ELSE s)
      BY <1>3 DEF Handled
    <2>2. Steady(Noted(p, m), s) /\ Fit(s)
      BY <2>1, SteadyFacts, GoesIsFit DEF Goes
    <2>3. Steady(p, s)  BY <2>2, NotedFit DEF Steady, Fields
    <2>4. CASE q = ReceiveResult(s, m.body)
      <3>1. Receives(s, m.body, q)  BY <2>2, <2>4, ReceiveResultReceives
      <3> DEFINE hit == Hit(s, m.body)
                 ok == m.body.k = "rpcResult"
      <3>2. /\ hit \subseteq s.requests
            /\ hit # {} => s.registered
            /\ \A r \in hit : s.context[r] # None /\ s.context[r].mid = m.body.mid
        BY DEF Hit, Bound
      <3>3. /\ \A r \in Requests : s.context[r] # None => s.context[r].mid.m = r
            /\ s.requests \subseteq Requests
        BY <2>2 DEF Fit, Typed, Contexts
      <3>4. ASSUME NEW r \in hit, NEW t \in hit
            PROVE  r = t
        BY <3>2, <3>3
      <3>5. /\ q.requests = s.requests \ hit /\ q.registered = s.registered
            /\ q.answered = [r \in Requests |-> IF r \in hit /\ ok THEN s.answered[r] + 1
                                                ELSE s.answered[r]]
        BY <3>1 DEF Receives, Alike
      <3> HIDE DEF hit, ok
      <3>6. Returned(p, q, hit, ok)
        BY <2>3, <3>2, <3>4, <3>5 DEF Steady, Returned
      <3> QED BY <3>6
    <2> QED BY <1>1, <2>1, <2>3, <2>4
  <1> QED BY <1>2, <1>3

LEMMA TurnsCalls ==
    ASSUME FInv, Turn
    PROVE  CallTurn
  <1>1. ASSUME NEW b, NEW d, NEW fs, Base(b, d, fs), fs \subseteq {"state", "authInfo", "flushing"},
               Steady(b, proto')
        PROVE  Steady(proto, proto')
    BY <1>1, BaseSteady DEF Steady
  <1>2. CASE HeadOp = "add" /\ AddTurn
    BY <1>2, SteadyFacts DEF AddTurn, Base, Fields, CallTurn, Steady
  <1>3. CASE HeadOp = "cancel" /\ CancelTurn
    BY <1>3 DEF CancelTurn, Base, Fields, CallTurn
  <1>4. CASE HeadOp = "removeService" /\ RemoveServiceTurn
    BY <1>4 DEF RemoveServiceTurn, Base, Fields, CallTurn
  <1>5. CASE HeadOp = "messages" /\ MessageTurn
    <2>1. PICK b, d : /\ Base(b, d, {}) /\ Fit(b)
                      /\ Handled(b, Head(TheJob.msgs), proto')
      BY <1>5 DEF MessageTurn
    <2>2. PICK hit, ok : Returned(b, proto', hit, ok)  BY <2>1, HandledCalls
    <2>3. Steady(proto, b)  BY <2>1, BaseSteady
    <2>4. Returned(proto, proto', hit, ok)  BY <2>2, <2>3 DEF Returned, Steady
    <2> QED BY <1>5, <2>4 DEF CallTurn
  <1>6. CASE HeadOp = "connState" /\ ConnStateTurn
    BY <1>6, BaseSteady DEF ConnStateTurn, CallTurn
  <1>7. CASE HeadOp # "add" /\ (PauseTurn \/ ResumeTurn \/ StopTurn)
    BY <1>1, <1>7, CalmSteady, SteadyFacts DEF CallTurn, PauseTurn, ResumeTurn,
       StopTurn, Steady
  <1>8. CASE HeadOp # "add" /\ FlushTurn
    BY <1>1, <1>8, SteadyFacts DEF FlushTurn, Steady, CallTurn
  <1>9. CASE HeadOp # "add" /\ AuthInfoTurn
    BY <1>1, <1>9, SteadyFacts DEF AuthInfoTurn, Steady, CallTurn
  <1>10. CASE HeadOp # "add" /\ (TxFailedTurn \/ IncomingTurn)
    BY <1>1, <1>10, SteadyFacts DEF TxFailedTurn, IncomingTurn, Goes, CallTurn
  <1>11. CASE HeadOp # "add" /\ ReadyTurn
    <2>1. CASE Calm  BY <1>11, <2>1, CalmSteady DEF CallTurn
    <2>2. CASE SendTurn \/ RefusedTurn \/ PingTurn
      <3>1. \E b, x, rs, tx : /\ Base(b, 1, {}) /\ Binds(b, x, rs, tx)
                              /\ proto' = x \/ Moves(x, proto')
        BY <2>2 DEF SendTurn, RefusedTurn, PingTurn, Goes
      <3>2. PICK b, x, rs, tx : /\ Base(b, 1, {}) /\ Binds(b, x, rs, tx)
                                /\ proto' = x \/ Moves(x, proto')
        BY <3>1
      <3>3. Steady(b, proto')  BY <3>2, SteadyFacts DEF Steady
      <3>4. Steady(proto, proto')  BY <1>1, <3>2, <3>3
      <3> QED BY <1>11, <3>4 DEF CallTurn
    <2> QED BY <1>11, <2>1, <2>2 DEF ReadyTurn
  <1> QED BY <1>2, <1>3, <1>4, <1>5, <1>6, <1>7, <1>8, <1>9, <1>10, <1>11 DEF Turn

\* the client is changed by the user only
LEMMA TurnsClient ==
    ASSUME Turn
    PROVE  client' = client
  <1>1. \A sent : Become(proto', sent) => client' = client  BY DEF Become
  <1>2. Calm => client' = client  BY <1>1 DEF Calm
  <1>3. AddTurn \/ CancelTurn \/ ConnStateTurn \/ RemoveServiceTurn => client' = client
    BY <1>1 DEF AddTurn, CancelTurn, ConnStateTurn, RemoveServiceTurn
  <1>4. PauseTurn \/ ResumeTurn \/ StopTurn \/ FlushTurn => client' = client
    BY <1>1, <1>2 DEF PauseTurn, ResumeTurn, StopTurn, FlushTurn
  <1>5. AuthInfoTurn \/ TxFailedTurn \/ IncomingTurn \/ MessageTurn => client' = client
    BY <1>1 DEF AuthInfoTurn, TxFailedTurn, IncomingTurn, MessageTurn
  <1>6. ReadyTurn => client' = client
    BY <1>1, <1>2 DEF ReadyTurn, SendTurn, RefusedTurn, PingTurn
  <1> QED BY <1>3, <1>4, <1>5, <1>6 DEF Turn

\* what Proto's queue holds when js has gone to its end
LEMMA AddedJobs ==
    ASSUME IInv, NEW fs, NEW js, Adds(fs, js)
    PROVE  /\ \A i \in 1..Len(proto'.jobs) :
                 \/ i \in 1..Len(proto.jobs) /\ proto'.jobs[i] = proto.jobs[i]
                 \/ \E k \in 1..Len(js) : proto'.jobs[i] = js[k]
           /\ \A i \in 1..Len(proto.jobs) : i \in 1..Len(proto'.jobs) /\ proto'.jobs[i] = proto.jobs[i]
           /\ \A k \in 1..Len(js) : \E i \in 1..Len(proto'.jobs) : proto'.jobs[i] = js[k]
  <1> DEFINE n == Len(proto.jobs)
  <1>1. /\ n \in Nat /\ Len(js) \in Nat /\ Len(proto'.jobs) = n + Len(js)
        /\ \A i \in 1..n : proto'.jobs[i] = proto.jobs[i]
        /\ \A i \in 1..Len(js) : proto'.jobs[n + i] = js[i]
    BY ProtoQueues, QueueFacts DEF Adds
  <1> HIDE DEF n
  <1>2. ASSUME NEW i \in 1..Len(proto'.jobs), i \notin 1..n
        PROVE  i - n \in 1..Len(js) /\ proto'.jobs[i] = js[i - n]
    BY <1>1, <1>2
  <1>3. \A k \in 1..Len(js) : n + k \in 1..Len(proto'.jobs)  BY <1>1
  <1>4. \A i \in 1..n : i \in 1..Len(proto'.jobs)  BY <1>1
  <1> QED BY <1>1, <1>2, <1>3, <1>4 DEF n

LEMMA AwaitsAdded ==
    ASSUME IInv, NEW fs, NEW js, Adds(fs, js), NEW r
    PROVE  Awaits(proto', r) <=>
              Awaits(proto, r) \/ \E i \in 1..Len(js) : js[i] = [op |-> "add", r |-> r]
  <1>1. PICK job : job = [op |-> "add", r |-> r]  OBVIOUS
  <1>2. (\E i \in 1..Len(proto'.jobs) : proto'.jobs[i] = job) <=>
           (\E i \in 1..Len(proto.jobs) : proto.jobs[i] = job) \/ (\E i \in 1..Len(js) : js[i] = job)
    BY AddedJobs
  <1> QED BY <1>1, <1>2 DEF Awaits

LEMMA TurnsAwait ==
    ASSUME CInv, FInv', Turn
    PROVE  /\ CInv'
           /\ \A r : Awaits(proto', r) <=> Awaits(proto, r) /\ ~(HeadOp = "add" /\ r = TheJob.r)
  <1> DEFINE n == Len(proto.jobs)
             l == Len(proto'.jobs)
             IsAdd(x) == x.op = "add"
  <1>1. PICK d : QueueTurn(d)  BY TurnsQueue DEF CInv
  <1>2. n \in Nat /\ n >= 1 /\ TheJob = proto.jobs[1] /\ HeadOp = proto.jobs[1].op
    BY FirstJob DEF CInv, FInv, Turn
  <1>3. /\ d \in {0, 1} /\ l \in Nat /\ l + d >= n
        /\ \A i \in 1..l : i + d # 1 /\ i + d <= n => proto'.jobs[i] = proto.jobs[i + d]
        /\ \A i \in 1..l : i + d > n => proto'.jobs[i].op = "flush"
        /\ d = 0 => HeadOp \in {"incoming", "messages"} /\ proto'.jobs[1].op = "messages"
    BY <1>1, QueueFacts DEF QueueTurn
  <1> HIDE DEF n, l
  <1>4. ASSUME NEW i \in 1..l, IsAdd(proto'.jobs[i])
        PROVE  i + d \in 2..n /\ proto'.jobs[i] = proto.jobs[i + d]
    BY <1>2, <1>3, <1>4
  <1>5. ASSUME NEW i \in 2..n
        PROVE  i - d \in 1..l /\ proto'.jobs[i - d] = proto.jobs[i]
    BY <1>2, <1>3
  <1>6. \A i \in 1..n : IsAdd(proto.jobs[i]) =>
           /\ proto.jobs[i] = [op |-> "add", r |-> proto.jobs[i].r]
           /\ proto.jobs[i].r \in client.issued \ proto.requests
           /\ \A j \in 1..n : IsAdd(proto.jobs[j]) /\ proto.jobs[j].r = proto.jobs[i].r => j = i
    BY DEF CInv, AddsAreNew, n
  <1>7. client' = client /\ CallTurn  BY TurnsClient, TurnsCalls DEF CInv
  <1>8. /\ proto'.requests \subseteq proto.requests \cup {x \in {TheJob.r} : HeadOp = "add"}
        /\ HeadOp = "add" => IsAdd(proto.jobs[1])
    BY <1>2, <1>7 DEF CallTurn, Steady, Returned
  <1>9. ASSUME NEW i \in 1..l, IsAdd(proto'.jobs[i])
        PROVE  /\ proto'.jobs[i] = [op |-> "add", r |-> proto'.jobs[i].r]
               /\ proto'.jobs[i].r \in client'.issued \ proto'.requests
               /\ HeadOp = "add" => proto'.jobs[i].r # TheJob.r
               /\ \A j \in 1..l :
                     IsAdd(proto'.jobs[j]) /\ proto'.jobs[j].r = proto'.jobs[i].r => j = i
    <2> DEFINE k == i + d
    <2>1. k \in 2..n /\ k \in 1..n /\ proto'.jobs[i] = proto.jobs[k] /\ IsAdd(proto.jobs[k])
      BY <1>2, <1>4, <1>9
    <2>2. /\ proto.jobs[k] = [op |-> "add", r |-> proto.jobs[k].r]
          /\ proto.jobs[k].r \in client.issued \ proto.requests
          /\ \A j \in 1..n : IsAdd(proto.jobs[j]) /\ proto.jobs[j].r = proto.jobs[k].r => j = k
      BY <1>6, <2>1
    <2>3. HeadOp = "add" => proto.jobs[k].r # TheJob.r
      <3>1. SUFFICES ASSUME HeadOp = "add", proto.jobs[k].r = TheJob.r PROVE FALSE
        OBVIOUS
      <3>2. 1 \in 1..n /\ IsAdd(proto.jobs[1]) /\ proto.jobs[1].r = proto.jobs[k].r
        BY <1>2, <1>8, <3>1
      <3>3. 1 = k  BY <2>2, <3>2
      <3> QED BY <2>1, <3>3
    <2>4. proto.jobs[k].r \notin proto'.requests  BY <1>8, <2>2, <2>3
    <2>5. ASSUME NEW j \in 1..l, IsAdd(proto'.jobs[j]), proto'.jobs[j].r = proto'.jobs[i].r
          PROVE  j = i
      BY <1>2, <1>3, <1>4, <2>1, <2>2, <2>5
    <2> HIDE DEF k
    <2> QED BY <1>7, <2>1, <2>2, <2>3, <2>4, <2>5
  <1>10. CInv'
    <2>1. AddsAreNew'  BY <1>9 DEF AddsAreNew, l
    <2>2. proto'.requests \subseteq client.issued
      <3>1. HeadOp = "add" => TheJob.r \in client.issued
        <4>1. SUFFICES ASSUME HeadOp = "add" PROVE TheJob.r \in client.issued
          OBVIOUS
        <4>2. 1 \in 1..n /\ IsAdd(proto.jobs[1])  BY <1>2, <1>8, <4>1
        <4>3. proto.jobs[1].r \in client.issued  BY <1>6, <4>2
        <4> QED BY <1>2, <4>3
      <3> QED BY <1>8, <3>1 DEF CInv
    <2>3. proto'.registered \in BOOLEAN
      BY <1>7 DEF CInv, CallTurn, Steady, Returned
    <2> QED BY <1>7, <2>1, <2>2, <2>3 DEF CInv
  <1>11. ASSUME NEW r
         PROVE  Awaits(proto', r) <=> Awaits(proto, r) /\ ~(HeadOp = "add" /\ r = TheJob.r)
    <2> DEFINE job == [op |-> "add", r |-> r]
    <2>1. IsAdd(job) /\ job.r = r  OBVIOUS
    <2> HIDE DEF job
    <2>2. ASSUME NEW i \in 1..l, proto'.jobs[i] = job
          PROVE  (\E j \in 1..n : proto.jobs[j] = job) /\ ~(HeadOp = "add" /\ r = TheJob.r)
      <3>1. i + d \in 1..n /\ proto.jobs[i + d] = job  BY <1>2, <1>4, <2>1, <2>2
      <3>2. HeadOp = "add" => r # TheJob.r  BY <1>9, <2>1, <2>2
      <3> QED BY <3>1, <3>2
    <2>3. ASSUME NEW j \in 1..n, proto.jobs[j] = job, ~(HeadOp = "add" /\ r = TheJob.r)
          PROVE  \E i \in 1..l : proto'.jobs[i] = job
      BY <1>2, <1>5, <2>1, <2>3
    <2> QED BY <2>2, <2>3 DEF Awaits, n, l, job
  <1> QED BY <1>10, <1>11

LEMMA StatusIs ==
    ASSUME IInv, IInv'
    PROVE  /\ CallStatus = Status(proto, client.issued)
           /\ CallStatus' = Status(proto', client'.issued)
  <1>1. DOMAIN proto.jobs = 1..Len(proto.jobs) /\ DOMAIN proto'.jobs = 1..Len(proto'.jobs)
    BY QueueFacts DEF IInv, Sound, Good
  <1>2. /\ \A r : Queued([op |-> "add", r |-> r]) <=> Awaits(proto, r)
        /\ \A r : Queued([op |-> "add", r |-> r])' <=> Awaits(proto', r)
    BY <1>1 DEF Queued, Awaits
  <1> QED BY <1>2 DEF CallStatus, Status

LEMMA HeldDoNotAwait ==
    ASSUME CInv, NEW r, Awaits(proto, r)
    PROVE  r \in client.issued \ proto.requests
BY DEF Awaits, CInv, AddsAreNew

\* the request of the add at the head
LEMMA HeadAwaits ==
    ASSUME CInv, Turn, HeadOp = "add"
    PROVE  Awaits(proto, TheJob.r) /\ TheJob.r \in client.issued \ proto.requests
BY FirstJob, HeldDoNotAwait DEF CInv, FInv, Turn, AddsAreNew, Awaits

LEMMA TurnsKeepContract ==
    ASSUME CInv, FInv', Turn
    PROVE  CallStep
  <1> DEFINE issued == client.issued
             s == Status(proto, issued)
             t == Status(proto', issued)
  <1>1. /\ client' = client /\ CallTurn
        /\ \A r : Awaits(proto', r) <=> Awaits(proto, r) /\ ~(HeadOp = "add" /\ r = TheJob.r)
    BY TurnsClient, TurnsCalls, TurnsAwait DEF CInv
  <1>2. proto.requests \subseteq issued /\ issued \subseteq Requests
    BY DEF CInv
  <1>3. \A r : Awaits(proto, r) => r \notin proto.requests  BY HeldDoNotAwait
  <1>4. proto.answered = [r \in Requests |-> proto.answered[r]]
    BY DEF CInv, FInv, Fit, Good, IsCounter
  <1>5. CASE HeadOp = "add" /\ TheJob.r \in Requests
             /\ proto'.requests = proto.requests \cup {TheJob.r}
             /\ proto'.answered = proto.answered /\ proto'.registered = proto.registered
    <2>1. Awaits(proto, TheJob.r) /\ TheJob.r \in issued \ proto.requests
      BY <1>5, HeadAwaits
    <2>2. s[TheJob.r] = "posted"  BY <1>5, <2>1 DEF Status
    <2>3. ASSUME NEW r \in Requests
          PROVE  t[r] = IF r = TheJob.r THEN "held" ELSE s[r]
      BY <1>1, <1>5, <2>1 DEF Status
    <2>4. t = [s EXCEPT ![TheJob.r] = "held"]  BY <2>3 DEF Status
    <2> QED BY <1>1, <1>5, <2>2, <2>4 DEF CallStep
  <1>6. CASE HeadOp # "add" /\ Steady(proto, proto')
    BY <1>1, <1>6 DEF Status, Steady, CallStep
  <1>7. CASE HeadOp = "removeService" /\ proto'.requests = proto.requests
             /\ proto'.answered = proto.answered /\ proto'.registered = FALSE
    BY <1>1, <1>7 DEF Status, CallStep, CInv
  <1>8. ASSUME NEW c \in proto.requests, HeadOp # "add",
               proto'.requests = proto.requests \ {c}
        PROVE  s[c] = "held" /\ t = [s EXCEPT ![c] = "over"] /\ c \in Requests
    BY <1>1, <1>2, <1>3, <1>8 DEF Status
  <1>9. CASE HeadOp = "cancel" /\ proto'.requests = proto.requests \ {TheJob.r}
             /\ proto'.answered = proto.answered /\ proto'.registered = proto.registered
    <2>1. CASE TheJob.r \in proto.requests
      <3>1. s[TheJob.r] = "held" /\ t = [s EXCEPT ![TheJob.r] = "over"] /\ TheJob.r \in Requests
        BY <1>8, <1>9, <2>1
      <3> HIDE DEF s, t
      <3> QED BY <1>1, <1>9, <3>1 DEF CallStep, s, t
    <2>2. CASE TheJob.r \notin proto.requests  BY <1>6, <1>9, <2>2 DEF Steady
    <2> QED BY <2>1, <2>2
  <1>10. ASSUME NEW hit, NEW ok, HeadOp = "messages", Returned(proto, proto', hit, ok)
         PROVE  CallStep
    <2>1. /\ hit \subseteq proto.requests
          /\ hit # {} => proto.registered
          /\ proto'.requests = proto.requests \ hit /\ proto'.registered = proto.registered
          /\ proto'.answered = [r \in Requests |-> IF r \in hit /\ ok THEN proto.answered[r] + 1
                                                   ELSE proto.answered[r]]
      BY <1>10 DEF Returned
    <2>2. CASE hit = {}  BY <1>4, <1>6, <1>10, <2>1, <2>2 DEF Steady
    <2>3. ASSUME NEW c \in hit
          PROVE  CallStep
      <3>1. hit = {c} /\ c \in proto.requests /\ proto.registered
        BY <1>10, <2>1, <2>3 DEF Returned
      <3>2. s[c] = "held" /\ t = [s EXCEPT ![c] = "over"] /\ c \in Requests
        BY <1>8, <1>10, <2>1, <3>1
      <3>3. CASE ok
        <4>1. proto'.answered = [r \in Requests |-> IF r = c THEN proto.answered[r] + 1
                                                    ELSE proto.answered[r]]
          BY <2>1, <3>1, <3>3
        <4>2. proto'.answered = [proto.answered EXCEPT ![c] = @ + 1]
          BY <1>4, <3>2, <4>1
        <4> HIDE DEF s, t
        <4> QED BY <1>1, <2>1, <3>1, <3>2, <4>2 DEF CallStep, s, t
      <3>4. CASE ~ok
        <4>1. proto'.answered = proto.answered  BY <1>4, <2>1, <3>4
        <4> HIDE DEF s, t
        <4> QED BY <1>1, <2>1, <3>2, <4>1 DEF CallStep, s, t
      <3> QED BY <3>3, <3>4
    <2> QED BY <2>2, <2>3
  <1> QED BY <1>1, <1>5, <1>6, <1>7, <1>9, <1>10 DEF CallTurn

\* jobs that are no calls
LEMMA AddsKeepContract ==
    ASSUME CInv, FInv', NEW fs, NEW js, Adds(fs, js),
           fs \subseteq {"tcpJobs", "ctxJobs", "key", "infos", "lock"},
           \A i \in 1..Len(js) : js[i].op # "add",
           client'.issued = client.issued, DOMAIN client' = DOMAIN client
    PROVE  CInv' /\ CallStep
  <1> DEFINE n == Len(proto.jobs)
             l == Len(proto'.jobs)
             IsAdd(x) == x.op = "add"
  <1>1. \A i \in 1..n : proto'.jobs[i] = proto.jobs[i]  BY DEF Adds
  <1>2. Steady(proto, proto')  BY DEF Adds, Fields, Steady
  <1> HIDE DEF n, l
  <1>3. ASSUME NEW i \in 1..l, IsAdd(proto'.jobs[i])
        PROVE  i \in 1..n /\ proto'.jobs[i] = proto.jobs[i]
    BY <1>3, AddedJobs DEF n, l, CInv, FInv
  <1>4. \A i \in 1..n : IsAdd(proto.jobs[i]) =>
           /\ proto.jobs[i] = [op |-> "add", r |-> proto.jobs[i].r]
           /\ proto.jobs[i].r \in client.issued \ proto.requests
           /\ \A j \in 1..n : IsAdd(proto.jobs[j]) /\ proto.jobs[j].r = proto.jobs[i].r => j = i
    BY DEF CInv, AddsAreNew, n
  <1>5. ASSUME NEW i \in 1..l, IsAdd(proto'.jobs[i])
        PROVE  /\ proto'.jobs[i] = [op |-> "add", r |-> proto'.jobs[i].r]
               /\ proto'.jobs[i].r \in client'.issued \ proto'.requests
               /\ \A j \in 1..l :
                     IsAdd(proto'.jobs[j]) /\ proto'.jobs[j].r = proto'.jobs[i].r => j = i
    BY <1>2, <1>3, <1>4, <1>5 DEF Steady
  <1>6. CInv'  BY <1>2, <1>5 DEF AddsAreNew, l, CInv, Steady
  <1>7. ASSUME NEW r
        PROVE  Awaits(proto', r) <=> Awaits(proto, r)
    <2>1. ASSUME NEW i \in 1..Len(js) PROVE js[i] # [op |-> "add", r |-> r]
      OBVIOUS
    <2> QED BY <2>1, AwaitsAdded DEF CInv, FInv
  <1>8. Status(proto', client'.issued) = Status(proto, client.issued)
    BY <1>2, <1>7 DEF Status, Steady
  <1> QED BY <1>2, <1>6, <1>8 DEF CallStep, Steady

\* a new call
LEMMA SendKeepsContract ==
    ASSUME CInv, FInv', NEW c \in Requests, c \notin client.issued,
           client' = [client EXCEPT !.issued = @ \cup {c}],
           Adds({}, <<[op |-> "add", r |-> c]>>)
    PROVE  CInv' /\ CallStep
  <1> DEFINE n == Len(proto.jobs)
             l == Len(proto'.jobs)
             job == [op |-> "add", r |-> c]
             IsAdd(x) == x.op = "add"
  <1>0. Len(<<job>>) = 1 /\ <<job>>[1] = job /\ IsAdd(job) /\ job.r = c  OBVIOUS
  <1>1. /\ n \in Nat /\ l = n + 1
        /\ \A i \in 1..n : proto'.jobs[i] = proto.jobs[i]
        /\ proto'.jobs[n + 1] = job
    <2>1. n \in Nat  BY ProtoQueues, QueueFacts DEF CInv, FInv
    <2>2. Adds({}, <<job>>)  OBVIOUS
    <2> HIDE DEF job
    <2>3. 1 \in 1..Len(<<job>>)  BY <1>0
    <2> QED BY <1>0, <2>1, <2>2, <2>3 DEF Adds
  <1>2. Steady(proto, proto')  BY DEF Adds, Fields, Steady
  <1>3. client'.issued = client.issued \cup {c} /\ DOMAIN client' = DOMAIN client
    BY DEF CInv
  <1>4. \A i \in 1..n : IsAdd(proto.jobs[i]) =>
           /\ proto.jobs[i] = [op |-> "add", r |-> proto.jobs[i].r]
           /\ proto.jobs[i].r \in client.issued \ proto.requests
           /\ \A j \in 1..n : IsAdd(proto.jobs[j]) /\ proto.jobs[j].r = proto.jobs[i].r => j = i
    BY DEF CInv, AddsAreNew
  <1>5. c \notin proto.requests  BY DEF CInv
  <1> HIDE DEF n, l, job
  <1>6. ASSUME NEW i \in 1..l, IsAdd(proto'.jobs[i])
        PROVE  \/ i = n + 1 /\ proto'.jobs[i] = job
               \/ i \in 1..n /\ proto'.jobs[i] = proto.jobs[i] /\ proto.jobs[i].r \in client.issued
    <2>1. i = n + 1 \/ i \in 1..n  BY <1>1
    <2> QED BY <1>1, <1>4, <1>6, <2>1
  <1>7. ASSUME NEW i \in 1..l, IsAdd(proto'.jobs[i])
        PROVE  /\ proto'.jobs[i] = [op |-> "add", r |-> proto'.jobs[i].r]
               /\ proto'.jobs[i].r \in client'.issued \ proto'.requests
               /\ \A j \in 1..l :
                     IsAdd(proto'.jobs[j]) /\ proto'.jobs[j].r = proto'.jobs[i].r => j = i
    BY <1>0, <1>1, <1>2, <1>3, <1>4, <1>5, <1>6, <1>7 DEF job, Steady
  <1>8. CInv'  BY <1>2, <1>3, <1>7 DEF AddsAreNew, l, CInv, Steady
  <1>9. ASSUME NEW r
        PROVE  Awaits(proto', r) <=> Awaits(proto, r) \/ r = c
    <2>1. ASSUME NEW i \in 1..Len(<<job>>) PROVE i = 1 /\ <<job>>[i] = job
      BY <1>0
    <2>2. [op |-> "add", r |-> r] = job <=> r = c  BY <1>0 DEF job
    <2>3. Awaits(proto', r) <=>
             Awaits(proto, r) \/ \E i \in 1..Len(<<job>>) : <<job>>[i] = [op |-> "add", r |-> r]
      BY AwaitsAdded DEF CInv, FInv, job
    <2>4. (\E i \in 1..Len(<<job>>) : <<job>>[i] = [op |-> "add", r |-> r]) <=> r = c
      BY <1>0, <2>1, <2>2
    <2> QED BY <2>3, <2>4
  <1>10. Status(proto', client'.issued) = [Status(proto, client.issued) EXCEPT ![c] = "posted"]
    <2> DEFINE s == Status(proto, client.issued)
               t == Status(proto', client'.issued)
    <2>1. ASSUME NEW r \in Requests
          PROVE  t[r] = IF r = c THEN "posted" ELSE s[r]
      BY <1>2, <1>3, <1>5, <1>9 DEF Status, Steady
    <2> QED BY <2>1 DEF Status
  <1>11. Status(proto, client.issued)[c] = "new"  BY DEF Status
  <1> QED BY <1>2, <1>8, <1>10, <1>11 DEF CallStep, Steady

LEMMA StepKeepsContract ==
    ASSUME CInv, [Next]_vars
    PROVE  CInv' /\ CallStep
  <1>1. FInv /\ FInv' /\ IInv  BY StepFits DEF CInv, FInv
  <1>2. CASE ProtoStep \/ ReadyViolated
    BY <1>1, <1>2, ProtoTurns, TurnsAwait, TurnsKeepContract
  <1>3. CASE Outside
    <2>1. PICK js : Adds({"tcpJobs", "lock"}, js) /\ Ops(js, News)
      BY <1>1, <1>3, OutsideAdds
    <2>2. \A i \in 1..Len(js) : js[i].op # "add"  BY <2>1 DEF Ops, News
    <2>3. client' = client
      BY <1>3 DEF Outside, TcpStep, TcpSkip, TcpUpdate, TcpNeeds, TcpFlush, TcpValid, TcpDetach,
                  TcpStop, Network, ConnectionOpened, ConnectionClosed, BackoffTimer, Server,
                  Answer, ServerSends, ServerGarbles, SaltsLapse, LockExpires, vars
    <2> QED BY <1>1, <2>1, <2>2, <2>3, AddsKeepContract
  <1>4. CASE User
    <2>1. CASE UserMakes  BY <1>1, <2>1, SendKeepsContract DEF UserMakes
    <2>2. CASE UserTells  BY <1>1, <2>2, AddsKeepContract DEF UserTells, CInv
    <2> QED BY <1>1, <1>4, <2>1, <2>2, UserPosts DEF UserAdds
  <1>5. CASE ContextStep
    BY <1>1, <1>5, ContextStepAdds, AddsKeepContract DEF ContextAdds, ContextStep
  <1>6. CASE AuthCompleted
    BY <1>1, <1>6, AuthCompletedAdds, AddsKeepContract DEF AuthAdds, AuthCompleted
  <1> QED BY <1>2, <1>3, <1>4, <1>5, <1>6 DEF Next, Outside

LEMMA CInvInit ==
    ASSUME Init
    PROVE  CInv
  <1>1. Len(proto.jobs) = 0 /\ "issued" \in DOMAIN client /\ client.issued = {}  BY InitFields
  <1>2. proto.registered \in BOOLEAN  BY InitFields
  <1> QED BY FInvInit, InitFields, <1>1, <1>2 DEF AddsAreNew, CInv

\* Whatever connections, sessions, keys and salts do, and wherever the user
\* cancels, pauses and stops: a call is accepted once, is held until it is
\* answered by one callback or let go without one, and is over after that.
THEOREM CallsKeepTheirContract == Spec => ImplementsCallContract
  <1>1. Init => Contract!Init  BY DEF Init, Contract!Init, CallStatus
  <1>2. CInv /\ [Next]_vars => CInv' /\ [Contract!Next]_(Contract!vars)
    <2> SUFFICES ASSUME CInv, [Next]_vars
                 PROVE  CInv' /\ [Contract!Next]_(Contract!vars)
      OBVIOUS
    <2>1. CInv' /\ CallStep  BY StepKeepsContract
    <2>2. /\ CallStatus = Status(proto, client.issued)
          /\ CallStatus' = Status(proto', client'.issued)
      BY <2>1, StatusIs DEF CInv, FInv
    <2>3. \/ /\ ~~proto.registered /\ ~proto'.registered
             /\ CallStatus' = CallStatus /\ proto'.answered = proto.answered
          \/ \E c \in Requests :
                /\ \/ /\ CallStatus[c] = "new" /\ CallStatus' = [CallStatus EXCEPT ![c] = "posted"]
                      /\ proto'.answered = proto.answered
                   \/ /\ CallStatus[c] = "posted" /\ CallStatus' = [CallStatus EXCEPT ![c] = "held"]
                      /\ proto'.answered = proto.answered
                   \/ /\ CallStatus[c] = "held" /\ proto.registered
                      /\ CallStatus' = [CallStatus EXCEPT ![c] = "over"]
                      /\ proto'.answered = [proto.answered EXCEPT ![c] = @ + 1]
                   \/ /\ CallStatus[c] = "held" /\ CallStatus' = [CallStatus EXCEPT ![c] = "over"]
                      /\ proto'.answered = proto.answered
                /\ proto'.registered = proto.registered
          \/ /\ CallStatus' = CallStatus /\ proto'.answered = proto.answered
             /\ proto'.registered = proto.registered
      BY <2>1, <2>2 DEF CallStep
    <2> HIDE DEF CallStatus
    <2>4. [Contract!Next]_(Contract!vars)
      BY <2>3 DEF Contract!Next, Contract!vars, Contract!Make, Contract!Accept, Contract!Answer,
                  Contract!Drop, Contract!Close
    <2> QED BY <2>1, <2>4
  <1>3. Init => CInv  BY CInvInit
  <1> QED BY <1>1, <1>2, <1>3, PTL DEF Spec, ImplementsCallContract, Contract!Spec

----
(* What a turn does to the attempts: which are kept, and which are made. *)

LEMMA SameKeeps ==
    ASSUME NEW p, NEW q, Fit(p),
           q.batch = p.batch, q.session = p.session, q.transport = p.transport,
           q.context = p.context, q.registered => p.registered
    PROVE  Keeps(p, q)
BY DEF Fades, SameAttempt, Keeps, SameGround

LEMMA MovesKeeps ==
    ASSUME NEW p, NEW q, Moves(p, q), Contexts(q), Serving(p)
    PROVE  Keeps(p, q)
BY DEF Moves, Grows, Lives, Contexts, Renews, Serving, SameGround, Keeps

LEMMA RecallsKeeps ==
    ASSUME NEW p, NEW q, Recalls(p, q)
    PROVE  Keeps(p, q)
BY DEF Recalls, Untouched, Keeps, SameGround

LEMMA ShiftsKeeps ==
    ASSUME NEW p, NEW q, NEW t, Shifts(p, q, t), Serving(p)
    PROVE  Keeps(p, q)
BY DEF Shifts, Serving, Keeps

LEMMA HandsKeeps ==
    ASSUME NEW p, NEW q, NEW op, NEW t, Fit(p), Hands(p, q, op, t)
    PROVE  Keeps(p, q)
BY SameKeeps DEF Hands, Fields

LEMMA KeepsTwice ==
    ASSUME NEW p, NEW q, NEW s, Keeps(p, q), Keeps(q, s),
           s.requests \subseteq q.requests, q.requests \subseteq Requests
    PROVE  Keeps(p, s)
BY FadesTwice DEF Keeps, Fades, SameAttempt, SameGround

LEMMA BaseServing ==
    ASSUME IInv, NEW b, NEW d, NEW fs, Base(b, d, fs), "registered" \notin fs,
           "state" \in fs => (Stopped(b) => Stopped(proto))
    PROVE  Serving(b)
BY DEF IInv, Sound, Core, RemovalComesFirst, Base, Fields, Stopped, Serving

LEMMA KeptAttempts ==
    ASSUME NEW p, Keeps(p, proto'), Become(proto', {}),
           p.batch = proto.batch, p.session.first = proto.session.first,
           p.session.containers = proto.session.containers, p.transport = proto.transport,
           p.context = proto.context, p.registered => proto.registered
    PROVE  TurnAttempts
  <1>1. wire' = {s \in wire \cup {} : s.mid.b >= proto'.session.first}
    BY DEF Become
  <1>2. \A r \in Requests : proto'.context[r] # None => SameAttempt(proto.context[r], proto'.context[r])
    BY DEF Keeps, Fades
  <1>3. proto'.registered => \A r \in proto'.requests : proto'.context[r] # None =>
          /\ proto'.session.first = proto.session.first
          /\ proto'.transport = proto.transport
          /\ proto.session.containers \subseteq proto'.session.containers
    BY DEF Keeps, SameGround
  <1>4. Attempts({}, 0, {})  BY <1>1, <1>2, <1>3 DEF Keeps, Attempts
  <1>5. Sends({}, 0, {})  BY DEF Sends
  <1> QED BY <1>4, <1>5 DEF TurnAttempts

LEMMA CalmAttempts ==
    ASSUME FInv, Calm
    PROVE  TurnAttempts /\ proto'.session.processed \subseteq proto.session.processed
  <1>1. PICK b, d : Base(b, d, {}) /\ Fit(b) /\ Moves(b, proto') /\ Become(proto', {})
    BY DEF Calm, Goes
  <1>2. Serving(b)  BY <1>1, BaseServing DEF FInv
  <1>3. Fit(proto')  BY <1>1, MovesIsFit
  <1>4. Keeps(b, proto')  BY <1>1, <1>2, <1>3, MovesKeeps DEF Fit, Typed
  <1>5. /\ b.batch = proto.batch /\ b.session = proto.session /\ b.transport = proto.transport
        /\ b.context = proto.context /\ b.registered = proto.registered
    BY <1>1 DEF Base, Fields
  <1>6. TurnAttempts  BY <1>1, <1>4, <1>5, KeptAttempts
  <1> QED BY <1>4, <1>5, <1>6 DEF Keeps

\* a turn that keeps from b on
LEMMA BaseAttempts ==
    ASSUME FInv, NEW b, NEW d, NEW fs, Base(b, d, fs),
           fs \subseteq {"state", "authInfo", "reported", "requests", "flushing"},
           Keeps(b, proto'), Become(proto', {})
    PROVE  TurnAttempts /\ proto'.session.processed \subseteq proto.session.processed
BY KeptAttempts DEF Base, Fields, Keeps

\* the first job of a queue that stops the client finds no service
LEMMA StopFindsNoService ==
    ASSUME IInv, proto.jobs # <<>>, HeadOp = "stop"
    PROVE  ~proto.registered
BY FirstJob DEF IInv, Sound, Core, RemovalComesFirst

LEMMA PlainTurnsAttempt ==
    ASSUME FInv, Turn, HeadOp \notin {"messages", "ready"}
    PROVE  TurnAttempts /\ proto'.session.processed \subseteq proto.session.processed
  <1>1. IInv /\ Fit(proto) /\ proto.jobs # <<>>  BY DEF FInv, Turn
  <1>2. \A b : Fit(b) => Keeps(b, b)  BY SameKeeps
  <1>3. CASE HeadOp = "add" /\ AddTurn
    BY <1>3, RecallsKeeps, BaseAttempts DEF AddTurn
  <1>4. CASE HeadOp = "cancel" /\ CancelTurn
    BY <1>1, <1>4, KeptAttempts DEF CancelTurn, Base, Fields, Fit, Typed, Contexts,
       Fades, SameAttempt, Keeps, SameGround
  <1>5. CASE HeadOp = "removeService" /\ RemoveServiceTurn
    BY <1>1, <1>5, SameKeeps, KeptAttempts DEF RemoveServiceTurn, Base, Fields
  <1>6. CASE HeadOp = "connState" /\ ConnStateTurn
    BY <1>2, <1>6, BaseAttempts DEF ConnStateTurn
  <1>7. CASE HeadOp = "pause" /\ PauseTurn
    BY <1>1, <1>7, CalmAttempts, BaseServing, ShiftsKeeps, BaseAttempts DEF PauseTurn,
       Stopped
  <1>8. CASE HeadOp = "resume" /\ ResumeTurn
    BY <1>1, <1>8, CalmAttempts, BaseServing, MovesIsFit, MovesKeeps, BaseAttempts DEF
       ResumeTurn, Stopped, Fit, Typed
  <1>9. CASE HeadOp = "stop" /\ StopTurn
    BY <1>1, <1>2, <1>9, CalmAttempts, StopFindsNoService, ShiftsKeeps, BaseAttempts
       DEF StopTurn, Base, Fields, Serving
  <1>10. CASE HeadOp = "flush" /\ FlushTurn
    <2>1. PICK b : /\ Base(b, 1, {"flushing"}) /\ Fit(b)
                   /\ \/ proto' = b
                      \/ \E x : /\ Moves(b, x)
                                /\ proto' = x \/ Hands(x, proto', "needs", x.transport)
      BY <1>10 DEF FlushTurn
    <2>2. Serving(b)  BY <1>1, <2>1, BaseServing
    <2>3. ASSUME NEW x, Moves(b, x), proto' = x \/ Hands(x, proto', "needs", x.transport)
          PROVE  Keeps(b, proto')
      <3>1. Fit(x)  BY <2>3, MovesIsFit
      <3>2. Keeps(b, x) /\ Keeps(x, proto')
        BY <1>2, <2>2, <2>3, <3>1, MovesKeeps, HandsKeeps DEF Fit, Typed
      <3>3. proto'.requests = x.requests /\ x.requests \subseteq Requests
        BY <2>3, <3>1 DEF Hands, Fields, Fit, Typed, Contexts
      <3> QED BY <3>2, <3>3, KeepsTwice
    <2>4. Keeps(b, proto')  BY <1>2, <2>1, <2>3
    <2> QED BY <1>10, <2>1, <2>4, BaseAttempts DEF FlushTurn
  <1>11. CASE HeadOp = "authInfo" /\ AuthInfoTurn
    <2>1. PICK b : /\ Base(b, 1, {"authInfo", "state"}) /\ Fit(b)
                   /\ b.state = proto.state \ {"authorization"}
                   /\ proto' = b \/ Moves(b, proto')
      BY <1>11 DEF AuthInfoTurn
    <2>2. Serving(b)
      BY <1>1, <2>1 DEF Base, Fields, Stopped, Serving, IInv, Sound, Core,
         RemovalComesFirst
    <2>3. Keeps(b, proto')
      BY <1>2, <2>1, <2>2, MovesIsFit, MovesKeeps DEF Fit, Typed
    <2> QED BY <1>11, <2>1, <2>3, BaseAttempts DEF AuthInfoTurn
  <1>12. CASE HeadOp = "txFailed" /\ TxFailedTurn
    BY <1>12, RecallsKeeps, BaseAttempts DEF TxFailedTurn
  <1>13. CASE HeadOp = "incoming" /\ IncomingTurn
    BY <1>13, CalmAttempts DEF IncomingTurn, Calm
  <1> QED BY <1>3, <1>4, <1>5, <1>6, <1>7, <1>8, <1>9, <1>10, <1>11, <1>12, <1>13 DEF Turn

\* what a base has in common with the Proto it is of
LEMMA BaseOffers ==
    ASSUME NEW b, NEW d, Base(b, d, {})
    PROVE  /\ b.batch = proto.batch /\ b.session = proto.session /\ b.transport = proto.transport
           /\ b.context = proto.context /\ b.registered = proto.registered
           /\ b.requests = proto.requests /\ b.state = proto.state
           /\ Offered(b) = Offered(proto)
           /\ \A r : IdFor(b, r) = IdFor(proto, r)
           /\ \A rs : OneMore(b, rs) = OneMore(proto, rs)
           /\ \A body : Rejected(b, body) = Rejected(proto, body)
  <1>1. /\ b.batch = proto.batch /\ b.session = proto.session /\ b.transport = proto.transport
        /\ b.context = proto.context /\ b.registered = proto.registered
        /\ b.requests = proto.requests /\ b.state = proto.state
    BY DEF Base, Fields
  <1>2. Offered(b) = Offered(proto)  BY <1>1 DEF Offered
  <1>3. \A r : IdFor(b, r) = IdFor(proto, r)  BY <1>1 DEF IdFor
  <1>4. ASSUME NEW rs
        PROVE  OneMore(b, rs) = OneMore(proto, rs)
    <2>1. {IdFor(b, r) : r \in rs} = {IdFor(proto, r) : r \in rs}  BY <1>3
    <2> QED BY <1>1, <2>1 DEF OneMore
  <1>5. \A body : Rejected(b, body) = Rejected(proto, body)
    BY <1>1 DEF Rejected, ChildrenOf
  <1> QED BY <1>1, <1>2, <1>3, <1>4, <1>5

LEMMA ResultKeeps ==
    ASSUME NEW p, NEW body, NEW q, Fit(p), Receives(p, body, q)
    PROVE  /\ Keeps(p, q) /\ q.requests \subseteq p.requests
           /\ q.registered => \A r \in q.requests : q.context[r] # None => q.context[r].mid # body.mid
  <1>1. p.requests \subseteq Requests  BY DEF Fit, Typed, Contexts
  <1>2. /\ q.batch = p.batch /\ q.session = p.session /\ q.transport = p.transport
        /\ q.registered = p.registered
        /\ q.requests = p.requests \ Hit(p, body)
        /\ \A r \in Requests : q.context[r] = IF r \in Hit(p, body) THEN None ELSE p.context[r]
    BY DEF Receives, Alike
  <1>3. Fades(p, q)  BY <1>2 DEF Fades, SameAttempt
  <1>4. ASSUME q.registered, NEW r \in q.requests, q.context[r] # None
        PROVE  q.context[r].mid # body.mid
    BY <1>1, <1>2, <1>4 DEF Hit, Bound
  <1> QED BY <1>2, <1>3, <1>4 DEF Keeps, SameGround

LEMMA MessageTurnsAttempt ==
    ASSUME FInv, proto.jobs # <<>>, MessageTurn
    PROVE  TurnAttempts /\ Notes(Head(TheJob.msgs)) /\ Hears(Head(TheJob.msgs))
  <1> DEFINE m == Head(TheJob.msgs)
  <1>1. PICK b, d : Base(b, d, {}) /\ Fit(b) /\ Handled(b, m, proto') /\ Become(proto', {})
    BY DEF MessageTurn
  <1> HIDE DEF m
  <1>2. /\ b.batch = proto.batch /\ b.session = proto.session /\ b.transport = proto.transport
        /\ b.context = proto.context /\ b.registered = proto.registered
        /\ b.requests = proto.requests /\ b.state = proto.state
        /\ \A body : Rejected(b, body) = Rejected(proto, body)
    BY <1>1, BaseOffers
  <1>3. Serving(b)  BY <1>1, BaseServing DEF FInv
  <1>4. CASE m.id \in b.session.processed
    BY <1>1, <1>2, <1>3, <1>4, MovesIsFit, MovesKeeps, BaseAttempts DEF Handled, Goes,
       Fit, Typed, Notes, Hears, m
  <1>5. CASE m.id \notin b.session.processed
    <2> DEFINE a == Noted(b, m)
    <2>1. PICK s : /\ Goes(a, s)
                   /\ proto' = (IF m.body.k \in {"rpcResult", "rpcSilent"}
                                THEN ReceiveResult(s, m.body) ELSE s)
                   /\ m.body.k \in {"badSalt", "badMsg"} /\ b.registered =>
                         \A r \in b.requests :
                            proto'.context[r] # None => proto'.context[r].mid \notin Rejected(b, m.body)
      BY <1>1, <1>5 DEF Handled
    <2>2. /\ a.batch = b.batch /\ a.transport = b.transport /\ a.context = b.context
          /\ a.registered = b.registered /\ a.requests = b.requests /\ a.state = b.state
          /\ a.session.first = b.session.first /\ a.session.containers = b.session.containers
          /\ a.session.processed = b.session.processed \cup {m.id}
      BY <1>1, NotedFit DEF Fields
    <2> HIDE DEF a
    <2>3. Serving(a)  BY <1>3, <2>2 DEF Serving, Stopped
    <2>4. Fit(s) /\ Contexts(s) /\ s.requests = a.requests
      BY <2>1, GoesIsFit DEF Goes, Moves, Fit, Typed
    <2>5. Keeps(a, s)  BY <2>1, <2>3, <2>4, MovesKeeps DEF Goes
    <2>6. /\ Keeps(s, proto') /\ proto'.requests \subseteq s.requests
          /\ m.body.k \in {"rpcResult", "rpcSilent"} =>
                (proto'.registered => \A r \in proto'.requests :
                    proto'.context[r] # None => proto'.context[r].mid # m.body.mid)
      BY <2>1, <2>4, ReceiveResultReceives, ResultKeeps, SameKeeps
    <2>7. Keeps(a, proto')  BY <2>4, <2>5, <2>6, KeepsTwice DEF Contexts
    <2>8. TurnAttempts  BY <1>1, <1>2, <2>2, <2>7, KeptAttempts
    <2>9. Notes(m)  BY <1>2, <2>2, <2>7 DEF Keeps, Notes
    <2>10. ASSUME proto'.registered, NEW r \in proto'.requests, proto'.context[r] # None,
                  Ends(proto, m.body, proto'.context[r].mid)
           PROVE  FALSE
      BY <1>2, <2>1, <2>2, <2>4, <2>6, <2>7, <2>10 DEF Keeps, Ends
    <2>11. Hears(m)  BY <2>10 DEF Hears
    <2> QED BY <2>8, <2>9, <2>11 DEF m
  <1> QED BY <1>4, <1>5

\* the requests in rs are given ids, and then perhaps attempts are given up
LEMMA BindsAttempt ==
    ASSUME FInv, NEW b, NEW x, NEW rs, NEW sent, Base(b, 1, {}), rs \subseteq Offered(b),
           Binds(b, x, rs, 0), Moves(x, proto'), Become(proto', sent),
           sent \subseteq {Encrypted([b |-> b.batch, m |-> "timeFix"], b.transport)}
    PROVE  TurnAttempts /\ proto'.session.processed \subseteq proto.session.processed
  <1>1. /\ b.batch = proto.batch /\ b.session = proto.session /\ b.transport = proto.transport
        /\ b.context = proto.context /\ b.registered = proto.registered
        /\ Offered(b) = Offered(proto)
        /\ \A r : IdFor(b, r) = IdFor(proto, r)
        /\ OneMore(b, rs) = OneMore(proto, rs)
    BY BaseOffers
  <1>2. /\ x.batch = proto.batch + 1 /\ x.session.first = proto.session.first
        /\ x.session.processed = proto.session.processed
        /\ x.session.containers \in {proto.session.containers} \cup OneMore(proto, rs)
        /\ x.transport = proto.transport /\ x.registered = proto.registered
        /\ x.context = BoundTo(b, rs, 0)
        /\ Stopped(x) = Stopped(b) /\ Fit(x)
    BY <1>1 DEF Binds, Alike
  <1>3. Serving(x)  BY <1>1, <1>2, BaseServing DEF FInv, Serving
  <1>4. Keeps(x, proto')  BY <1>3, MovesIsFit, MovesKeeps DEF Fit, Typed
  <1>5. ASSUME NEW r \in Requests, proto'.context[r] # None
        PROVE  IF r \in rs THEN proto'.context[r].mid = IdFor(proto, r) /\ proto'.context[r].tx = 0
               ELSE SameAttempt(proto.context[r], proto'.context[r])
    BY <1>1, <1>2, <1>4, <1>5 DEF Keeps, Fades, BoundTo, SameAttempt
  <1>6. \A c \in {proto.session.containers} \cup OneMore(proto, rs) : proto.session.containers \subseteq c
    BY DEF OneMore
  <1>7. proto'.registered => \A r \in proto'.requests : proto'.context[r] # None =>
          /\ proto'.session.first = proto.session.first
          /\ proto'.transport = proto.transport
          /\ proto.session.containers \subseteq proto'.session.containers
    BY <1>2, <1>4, <1>6 DEF Keeps, SameGround
  <1>8. \/ proto'.session.containers \in {proto.session.containers, {}}
        \/ proto'.session.containers \in OneMore(proto, rs)
    BY <1>2, <1>4 DEF Keeps
  <1>9. /\ proto'.batch = proto.batch + 1
        /\ proto'.session.first \in {proto.session.first, proto'.batch}
        /\ proto'.registered => proto.registered
    BY <1>2, <1>4 DEF Keeps
  <1>10. wire' = {s \in wire \cup sent : s.mid.b >= proto'.session.first}
    BY DEF Become
  <1>11. Attempts(rs, 0, sent)
    BY <1>1, <1>5, <1>7, <1>8, <1>9, <1>10 DEF Attempts
  <1>12. Sends(rs, 0, sent)  BY <1>1 DEF Sends
  <1> QED BY <1>2, <1>4, <1>11, <1>12 DEF TurnAttempts, Keeps

LEMMA SendTurnsAttempt ==
    ASSUME FInv, SendTurn
    PROVE  TurnAttempts /\ proto'.session.processed \subseteq proto.session.processed
  <1>1. PICK b, L : /\ Base(b, 1, {}) /\ HasConnection(b.transport)
                    /\ Binds(b, proto', Offered(b), b.transport)
                    /\ L \subseteq {[b |-> b.batch, m |-> x] : x \in Labels}
                    /\ Become(proto', {Encrypted(id, b.transport) : id \in {IdFor(b, r) : r \in Offered(b)} \cup L})
    BY DEF SendTurn
  <1> DEFINE rs == Offered(proto)
             tx == proto.transport
             sent == {Encrypted(id, tx) : id \in {IdFor(proto, r) : r \in rs} \cup L}
  <1>2. /\ b.batch = proto.batch /\ b.session = proto.session /\ b.transport = tx
        /\ b.context = proto.context /\ b.registered = proto.registered
        /\ Offered(b) = rs
        /\ \A r : IdFor(b, r) = IdFor(proto, r)
        /\ OneMore(b, rs) = OneMore(proto, rs)
    BY <1>1, BaseOffers
  <1>3. Become(proto', sent)
    <2>1. {IdFor(b, r) : r \in Offered(b)} = {IdFor(proto, r) : r \in rs}
      BY <1>2
    <2> HIDE DEF rs, tx
    <2> QED BY <1>1, <1>2, <2>1
  <1>4. tx # 0  BY <1>1, <1>2 DEF HasConnection, FInv, IInv, Sound, Core, Bounds
  <1> HIDE DEF rs, tx, sent
  <1>5. /\ proto'.batch = proto.batch + 1 /\ proto'.session.first = proto.session.first
        /\ proto'.session.processed = proto.session.processed
        /\ proto'.session.containers \in {proto.session.containers} \cup OneMore(proto, rs)
        /\ proto'.transport = tx /\ proto'.registered = proto.registered
        /\ proto'.context = BoundTo(b, rs, tx)
    BY <1>1, <1>2 DEF Binds, Alike
  <1>6. ASSUME NEW r \in Requests, proto'.context[r] # None
        PROVE  IF r \in rs THEN proto'.context[r].mid = IdFor(proto, r) /\ proto'.context[r].tx = tx
               ELSE SameAttempt(proto.context[r], proto'.context[r])
    BY <1>2, <1>5, <1>6 DEF BoundTo, SameAttempt
  <1>7. \A c \in {proto.session.containers} \cup OneMore(proto, rs) : proto.session.containers \subseteq c
    BY DEF OneMore
  <1>8. wire' = {s \in wire \cup sent : s.mid.b >= proto'.session.first}
    BY <1>3 DEF Become
  <1>9. Attempts(rs, tx, sent)  BY <1>5, <1>6, <1>7, <1>8 DEF Attempts, rs, tx
  <1>10. Sends(rs, tx, sent)  BY <1>1, <1>2, <1>4, <1>5 DEF Sends, rs, tx, sent
  <1> QED BY <1>5, <1>9, <1>10 DEF TurnAttempts

LEMMA ReadyTurnsAttempt ==
    ASSUME FInv, ReadyTurn
    PROVE  TurnAttempts /\ proto'.session.processed \subseteq proto.session.processed
  <1>1. CASE Calm  BY <1>1, CalmAttempts
  <1>2. CASE SendTurn  BY <1>2, SendTurnsAttempt
  <1>3. CASE RefusedTurn  BY <1>3, BindsAttempt DEF RefusedTurn
  <1>4. CASE PingTurn  BY <1>4, BindsAttempt DEF PingTurn, Goes
  <1> QED BY <1>1, <1>2, <1>3, <1>4 DEF ReadyTurn

LEMMA TurnsAttempts ==
    ASSUME FInv, Turn
    PROVE  /\ TurnAttempts
           /\ IF HeadOp = "messages" THEN Notes(Head(TheJob.msgs)) /\ Hears(Head(TheJob.msgs))
              ELSE proto'.session.processed \subseteq proto.session.processed
BY MessageTurnsAttempt, ReadyTurnsAttempt, PlainTurnsAttempt DEF Turn

----
(* The messages that have arrived and are not worked through: the j-th of *)
(* the i-th job. *)

LEMMA TurnsOpen ==
    ASSUME FInv, Turn
    PROVE  \E d : QueueTurn(d) /\ Opened(d)
  <1>0. IInv /\ proto.jobs # <<>>  BY DEF FInv, Turn
  <1>1. ASSUME NEW b, Base(b, 0, {}), JobsGrow(b, proto')
        PROVE  proto'.jobs[1] = b.jobs[1]
    BY <1>0, <1>1, FirstJob, QueueFacts DEF Base, Shifted, JobsGrow, Extended
  <1>2. CASE HeadOp \notin {"incoming", "messages"}
    BY <1>2, TurnsQueue DEF QueueTurn, Opened
  <1>3. CASE HeadOp = "incoming"
    BY <1>0, <1>1, <1>3, MovesJobs, OnwardTurns DEF Turn, Goes, Fit, Opened,
       IncomingTurn
  <1>4. CASE HeadOp = "messages"
    <2>1. PICK b, d : /\ Base(b, d, {}) /\ Fit(b)
                      /\ IF Len(TheJob.msgs) = 1 THEN d = 1
                         ELSE d = 0 /\ b.jobs[1] = [op |-> "messages", msgs |-> Tail(TheJob.msgs)]
                      /\ Handled(b, Head(TheJob.msgs), proto')
      BY <1>4 DEF Turn, MessageTurn
    <2>2. JobsGrow(b, proto')  BY <2>1, HandledGrows
    <2>3. QueueTurn(d)  BY <1>0, <2>1, <2>2, OnwardTurns DEF Fit
    <2>4. Opened(d)  BY <1>1, <1>4, <2>1, <2>2 DEF Opened
    <2> QED BY <2>3, <2>4
  <1> QED BY <1>2, <1>3, <1>4

\* what a turn leaves of the packets
LEMMA TurnsPackets ==
    ASSUME FInv, PacketsFit, Turn, NEW d, QueueTurn(d), Opened(d), NEW i \in 1..Len(proto'.jobs),
           Carries(proto'.jobs[i])
    PROVE  /\ i + d \in 1..Len(proto.jobs) /\ Carries(proto.jobs[i + d]) /\ d \in {0, 1}
           /\ IF i + d # 1 THEN proto'.jobs[i] = proto.jobs[i + d]
              ELSE /\ i = 1 /\ d = 0 /\ proto'.jobs[1].op = "messages"
                   /\ proto'.jobs[1].msgs =
                         IF HeadOp = "messages" THEN Tail(TheJob.msgs) ELSE TheJob.msgs
                   /\ IsQueue(proto'.jobs[1].msgs) /\ Len(proto'.jobs[1].msgs) >= 1
  <1>1. /\ Len(proto.jobs) \in Nat /\ Len(proto.jobs) >= 1
        /\ TheJob = proto.jobs[1] /\ HeadOp = proto.jobs[1].op
    BY FirstJob DEF FInv, Turn
  <1>2. Len(proto'.jobs) \in Nat /\ d \in {0, 1}  BY QueueFacts DEF QueueTurn
  <1>3. i + d <= Len(proto.jobs)  BY <1>1, <1>2 DEF QueueTurn, Carries
  <1>4. CASE i + d # 1  BY <1>2, <1>3, <1>4 DEF QueueTurn
  <1>5. CASE i + d = 1
    <2>1. i = 1 /\ d = 0 /\ HeadOp \in {"incoming", "messages"}
      BY <1>2, <1>5 DEF QueueTurn
    <2>2. Carries(TheJob) /\ 1 \in 1..Len(proto.jobs)  BY <1>1, <2>1 DEF Carries
    <2>3. /\ IsQueue(TheJob.msgs)
          /\ Len(TheJob.msgs) = 0 <=> HeadOp = "incoming" /\ TheJob.quality \in Garbled
      BY <1>1, <2>2 DEF PacketsFit
    <2>4. Len(TheJob.msgs) \in Nat  BY <2>3, QueueFacts
    <2>5. CASE HeadOp = "incoming"
      BY <1>1, <2>1, <2>2, <2>3, <2>4, <2>5 DEF Opened
    <2>6. CASE HeadOp = "messages"
      <3>1. Len(TheJob.msgs) # 1 /\ proto'.jobs[1] = [op |-> "messages", msgs |-> Tail(TheJob.msgs)]
        BY <2>1, <2>6 DEF Opened
      <3>2. Len(TheJob.msgs) >= 1  BY <2>3, <2>4, <2>6
      <3>3. TheJob.msgs # <<>>  BY <3>2
      <3>4. IsQueue(Tail(TheJob.msgs)) /\ Len(Tail(TheJob.msgs)) = Len(TheJob.msgs) - 1
        BY <2>3, <3>3, TailFacts
      <3>5. Len(Tail(TheJob.msgs)) >= 1
        <4>1. \A n \in Nat : n # 1 /\ n >= 1 => n - 1 >= 1  OBVIOUS
        <4>2. Len(TheJob.msgs) # 1  BY <3>1
        <4>3. Len(TheJob.msgs) - 1 >= 1  BY <2>4, <3>2, <4>1, <4>2
        <4> QED BY <3>4, <4>3
      <3>6. i + d \in 1..Len(proto.jobs) /\ Carries(proto.jobs[i + d])
        BY <1>1, <2>1, <2>2
      <3>7. proto'.jobs[1].op = "messages" /\ proto'.jobs[1].msgs = Tail(TheJob.msgs)
        BY <3>1
      <3> QED BY <1>2, <1>5, <2>1, <2>6, <3>4, <3>5, <3>6, <3>7
    <2> QED BY <2>1, <2>5, <2>6
  <1> QED BY <1>4, <1>5

LEMMA TurnsPacketsFit ==
    ASSUME FInv, PacketsFit, Turn
    PROVE  PacketsFit'
  <1>1. PICK d : QueueTurn(d) /\ Opened(d)  BY TurnsOpen
  <1>2. ASSUME NEW i \in 1..Len(proto'.jobs), Carries(proto'.jobs[i])
        PROVE  /\ IsQueue(proto'.jobs[i].msgs)
               /\ Len(proto'.jobs[i].msgs) = 0 <=>
                     proto'.jobs[i].op = "incoming" /\ proto'.jobs[i].quality \in Garbled
    <2>1. CASE i + d # 1  BY <1>1, <1>2, <2>1, TurnsPackets DEF PacketsFit
    <2>2. CASE i + d = 1  BY <1>1, <1>2, <2>2, TurnsPackets, QueueFacts
    <2> QED BY <2>1, <2>2
  <1> QED BY <1>2 DEF PacketsFit

LEMMA TurnsPass ==
    ASSUME FInv, PacketsFit, Turn
    PROVE  \E d : Passes(d)
  <1>1. PICK d : QueueTurn(d) /\ Opened(d)  BY TurnsOpen
  <1>2. d \in {0, 1}  BY <1>1 DEF QueueTurn
  <1>3. /\ Len(proto.jobs) \in Nat /\ Len(proto'.jobs) \in Nat
        /\ TheJob = proto.jobs[1] /\ HeadOp = proto.jobs[1].op
    BY <1>1, FirstJob, QueueFacts DEF FInv, Turn, QueueTurn
  <1>4. ASSUME NEW i, NEW j, Spot(i, j)'
        PROVE  /\ i \in Nat /\ j \in Nat
               /\ Spot(i + d, Col(d, i, j)) /\ Said(i, j)' = Said(i + d, Col(d, i, j))
               /\ ~(HeadOp = "messages" /\ i + d = 1 /\ Col(d, i, j) = 1)
    <2>1. i \in 1..Len(proto'.jobs) /\ Carries(proto'.jobs[i]) /\ j \in 1..Len(proto'.jobs[i].msgs)
      BY <1>4 DEF Spot
    <2>2. i \in Nat /\ j \in Nat /\ j >= 1  BY <1>3, <2>1
    <2>3. i + d \in 1..Len(proto.jobs) /\ Carries(proto.jobs[i + d])
      BY <1>1, <2>1, TurnsPackets
    <2>4. CASE i + d # 1
      BY <1>1, <2>1, <2>2, <2>3, <2>4, TurnsPackets DEF Spot, Said, Col
    <2>5. CASE i + d = 1
      <3>1. /\ i = 1 /\ proto'.jobs[1].msgs =
                  IF HeadOp = "messages" THEN Tail(TheJob.msgs) ELSE TheJob.msgs
        BY <1>1, <2>1, <2>5, TurnsPackets
      <3>2. CASE HeadOp # "messages"
        BY <1>3, <2>1, <2>2, <2>3, <2>5, <3>1, <3>2 DEF Spot, Said, Col
      <3>3. CASE HeadOp = "messages"
        <4>1. IsQueue(TheJob.msgs) /\ Len(TheJob.msgs) # 0
          BY <1>3, <2>3, <2>5, <3>3 DEF PacketsFit
        <4>2. TheJob.msgs # <<>> /\ Len(TheJob.msgs) \in Nat
          BY <4>1, QueueFacts
        <4>3. /\ Len(Tail(TheJob.msgs)) = Len(TheJob.msgs) - 1
              /\ \A n \in 1..(Len(TheJob.msgs) - 1) : Tail(TheJob.msgs)[n] = TheJob.msgs[n + 1]
          BY <4>1, <4>2, TailFacts
        <4>4. /\ j \in 1..(Len(TheJob.msgs) - 1)
              /\ Said(i, j)' = TheJob.msgs[j + 1]
          BY <2>1, <3>1, <3>3, <4>3 DEF Said
        <4>5. Col(d, i, j) = j + 1 /\ j + 1 \in 1..Len(TheJob.msgs)
          BY <2>2, <2>5, <3>3, <4>2, <4>4 DEF Col
        <4>6. Spot(i + d, j + 1) /\ Said(i + d, j + 1) = TheJob.msgs[j + 1]
          BY <1>3, <2>3, <2>5, <4>5 DEF Spot, Said
        <4> QED BY <2>2, <4>4, <4>5, <4>6
      <3> QED BY <3>2, <3>3
    <2> QED BY <2>4, <2>5
  <1> QED BY <1>2, <1>4 DEF Passes

LEMMA TurnsLoseNone ==
    ASSUME FInv, PacketsFit, Turn
    PROVE  NoneIsLost
  <1>1. PICK d : QueueTurn(d) /\ Opened(d)  BY TurnsOpen
  <1>2. d \in {0, 1} /\ Len(proto'.jobs) + d >= Len(proto.jobs)
    BY <1>1 DEF QueueTurn
  <1>3. /\ Len(proto.jobs) \in Nat /\ Len(proto'.jobs) \in Nat
        /\ TheJob = proto.jobs[1] /\ HeadOp = proto.jobs[1].op
    BY <1>1, FirstJob, QueueFacts DEF FInv, Turn, QueueTurn
  <1>4. ASSUME NEW k, NEW l, Spot(k, l)
        PROVE  \/ Stay(k, l)
               \/ k = 1 /\ l = 1 /\ HeadOp = "messages"
               \/ k = 1 /\ HeadOp = "incoming" /\ (TheJob.t # proto.transport \/ Stopped(proto))
    <2>1. /\ k \in 1..Len(proto.jobs) /\ Carries(proto.jobs[k])
          /\ l \in 1..Len(proto.jobs[k].msgs) /\ k \in Nat
          /\ IsQueue(proto.jobs[k].msgs)
      BY <1>3, <1>4 DEF Spot, PacketsFit
    <2>2. l \in Nat /\ l >= 1 /\ Len(proto.jobs[k].msgs) \in Nat
      BY <2>1, QueueFacts
    <2>3. CASE k # 1
      <3>1. k - d \in 1..Len(proto'.jobs) /\ (k - d) + d = k
        BY <1>2, <1>3, <2>1, <2>3
      <3>2. proto'.jobs[k - d] = proto.jobs[k]
        BY <1>1, <1>3, <2>1, <2>3, <3>1 DEF QueueTurn
      <3>3. Spot(k - d, l)' /\ Said(k - d, l)' = Said(k, l)
        BY <2>1, <3>1, <3>2 DEF Spot, Said
      <3> QED BY <3>2, <3>3 DEF Stay
    <2>4. CASE k = 1 /\ HeadOp = "incoming"
      <3>1. TheJob.quality \notin Garbled
        <4>1. Len(proto.jobs[k].msgs) # 0  BY <2>1, <2>2
        <4> QED BY <1>3, <2>1, <2>4, <4>1 DEF PacketsFit
      <3>2. CASE d = 1  BY <1>1, <2>4, <3>1, <3>2 DEF Opened
      <3>3. CASE d = 0
        <4>1. proto'.jobs[1] = [op |-> "messages", msgs |-> TheJob.msgs]
          BY <1>1, <2>4, <3>3 DEF Opened
        <4>2. 1 \in 1..Len(proto'.jobs)  BY <1>2, <1>3, <2>1, <3>3
        <4>3. Spot(1, l)' /\ Said(1, l)' = Said(k, l)
          BY <1>3, <2>1, <2>4, <4>1, <4>2 DEF Spot, Said, Carries
        <4> QED BY <4>1, <4>3 DEF Stay
      <3> QED BY <1>2, <3>2, <3>3
    <2>5. CASE k = 1 /\ HeadOp = "messages" /\ l # 1
      <3>1. Len(TheJob.msgs) # 1 /\ TheJob.msgs # <<>>
        <4>1. Len(proto.jobs[k].msgs) >= 2  BY <2>1, <2>2, <2>5
        <4>2. TheJob = proto.jobs[k]  BY <1>3, <2>5
        <4>3. Len(TheJob.msgs) >= 2  BY <4>1, <4>2
        <4> QED BY <4>3
      <3>2. d = 0 /\ proto'.jobs[1] = [op |-> "messages", msgs |-> Tail(TheJob.msgs)]
        BY <1>1, <1>2, <2>5, <3>1 DEF Opened
      <3>3. /\ Len(Tail(TheJob.msgs)) = Len(TheJob.msgs) - 1
            /\ \A n \in 1..(Len(TheJob.msgs) - 1) : Tail(TheJob.msgs)[n] = TheJob.msgs[n + 1]
        BY <1>3, <2>1, <2>5, <3>1, TailFacts
      <3>4. 1 \in 1..Len(proto'.jobs)  BY <1>2, <1>3, <2>1, <3>2
      <3>5. l - 1 \in 1..(Len(TheJob.msgs) - 1) /\ (l - 1) + 1 = l
        BY <1>3, <2>1, <2>2, <2>5
      <3>6. Tail(TheJob.msgs)[l - 1] = TheJob.msgs[l]  BY <3>3, <3>5
      <3>7. Spot(1, l - 1)' /\ Said(1, l - 1)' = Said(k, l)
        BY <1>3, <2>5, <3>2, <3>3, <3>4, <3>5, <3>6 DEF Spot, Said, Carries
      <3> QED BY <3>2, <3>7 DEF Stay
    <2>6. HeadOp \in {"incoming", "messages"} \/ k # 1
      BY <1>3, <2>1 DEF Carries
    <2> QED BY <2>3, <2>4, <2>5, <2>6
  <1> QED BY <1>4 DEF NoneIsLost

----
(* A turn keeps them. *)

LEMMA TurnsServed ==
    ASSUME Turn
    PROVE  served' = served
  <1>1. \A sent : Become(proto', sent) => served' = served  BY DEF Become
  <1>2. Calm => served' = served  BY <1>1 DEF Calm
  <1>3. AddTurn \/ CancelTurn \/ ConnStateTurn \/ RemoveServiceTurn => served' = served
    BY <1>1 DEF AddTurn, CancelTurn, ConnStateTurn, RemoveServiceTurn
  <1>4. PauseTurn \/ ResumeTurn \/ StopTurn \/ FlushTurn => served' = served
    BY <1>1, <1>2 DEF PauseTurn, ResumeTurn, StopTurn, FlushTurn
  <1>5. AuthInfoTurn \/ TxFailedTurn \/ IncomingTurn \/ MessageTurn => served' = served
    BY <1>1 DEF AuthInfoTurn, TxFailedTurn, IncomingTurn, MessageTurn
  <1>6. ReadyTurn => served' = served
    BY <1>1, <1>2 DEF ReadyTurn, SendTurn, RefusedTurn, PingTurn
  <1> QED BY <1>3, <1>4, <1>5, <1>6 DEF Turn

\* the numbers of the batches
LEMMA BatchFacts ==
    ASSUME FInv, Turn
    PROVE  /\ proto.batch \in Nat /\ proto'.batch \in {proto.batch, proto.batch + 1}
           /\ proto.session.first \in 0..proto.batch
           /\ \A mid : Past(proto, mid) => Past(proto', mid)
           /\ proto'.batch = proto.batch + 1 => \A mid : mid.b = proto.batch => Past(proto', mid)
BY TurnsAttempts DEF FInv, Fit, Typed, TurnAttempts, Attempts, Past

LEMMA TurnsMessagesFit ==
    ASSUME FInv, ServedFits, PacketsFit, MessagesFit, Turn
    PROVE  MessagesFit' /\ ServedFits'
  <1>1. PICK d : Passes(d)  BY TurnsPass
  <1> DEFINE m == Head(TheJob.msgs)
  <1>2. /\ HeadOp = "messages" => proto'.session.processed \subseteq proto.session.processed \cup {m.id}
        /\ HeadOp # "messages" => proto'.session.processed \subseteq proto.session.processed
    BY TurnsAttempts DEF Notes
  <1>3. served' = served  BY TurnsServed
  <1>4. HeadOp = "messages" => Spot(1, 1) /\ m = Said(1, 1)
    BY FirstJob, QueueFacts, TailFacts DEF FInv, Turn, Carries, PacketsFit, Spot, Said
  <1> HIDE DEF m
  <1>5. ServedFits'  BY <1>2, <1>3, <1>4 DEF ServedFits, MessagesFit
  <1>6. ASSUME NEW i, NEW j, Spot(i, j)'
        PROVE  /\ i \in Nat /\ j \in Nat
               /\ Spot(i + d, Col(d, i, j)) /\ Said(i, j)' = Said(i + d, Col(d, i, j))
               /\ ~(HeadOp = "messages" /\ i + d = 1 /\ Col(d, i, j) = 1)
    BY <1>1, <1>6 DEF Passes
  <1>7. ASSUME NEW i, NEW j, Spot(i, j)', Said(i, j)'.body.k # "update"
        PROVE  /\ Past(proto', Said(i, j)'.body.mid)
               /\ Said(i, j)'.id \notin proto'.session.processed
               /\ \A k, l : Spot(k, l)' /\ Said(k, l)'.id = Said(i, j)'.id => k = i /\ l = j
    <2> DEFINE x == i + d
               y == Col(d, i, j)
    <2>1. /\ Spot(x, y) /\ Said(i, j)' = Said(x, y)
          /\ ~(HeadOp = "messages" /\ x = 1 /\ y = 1)
      BY <1>6, <1>7
    <2>2. x \in Nat /\ y \in Nat  BY <1>1, <1>6, <1>7 DEF Passes, Col
    <2> HIDE DEF x, y
    <2>3. /\ Past(proto, Said(x, y).body.mid) /\ Said(x, y).id \notin proto.session.processed
          /\ \A k, l : Spot(k, l) /\ Said(k, l).id = Said(x, y).id => k = x /\ l = y
      BY <1>7, <2>1 DEF MessagesFit
    <2>4. Past(proto', Said(i, j)'.body.mid)  BY <2>1, <2>3, BatchFacts
    <2>5. HeadOp = "messages" => Said(x, y).id # m.id  BY <1>4, <2>1, <2>3
    <2>6. Said(i, j)'.id \notin proto'.session.processed
      BY <1>2, <2>1, <2>3, <2>5
    <2>7. ASSUME NEW k, NEW l, Spot(k, l)', Said(k, l)'.id = Said(i, j)'.id
          PROVE  k = i /\ l = j
      BY <1>1, <1>6, <1>7, <2>1, <2>3, <2>7 DEF Passes, x, y, Col
    <2> QED BY <2>4, <2>6, <2>7
  <1>8. ASSUME NEW i, NEW j, Spot(i, j)'
        PROVE  Said(i, j)'.id \in 0..served'
    BY <1>3, <1>6, <1>8 DEF MessagesFit
  <1> QED BY <1>5, <1>7, <1>8 DEF MessagesFit

\* a request that leaves the list leaves no attempt behind
LEMMA TurnsLeave ==
    ASSUME FInv, Turn, NEW r \in proto.requests, r \notin proto'.requests
    PROVE  proto'.context[r] = None
  <1>1. r \in Requests /\ proto.context \in [Requests -> RequestContext \cup {None}]
    BY DEF FInv, Fit, Typed, Contexts
  <1>2. HeadOp \in {"cancel", "messages"}  BY TurnsCalls DEF CallTurn, Steady
  <1>3. CASE HeadOp = "cancel"  BY <1>1, <1>3 DEF Turn, CancelTurn
  <1>4. CASE HeadOp = "messages"
    <2>1. PICK b, d : Base(b, d, {}) /\ Fit(b) /\ Handled(b, Head(TheJob.msgs), proto')
      BY <1>4 DEF Turn, MessageTurn
    <2> DEFINE m == Head(TheJob.msgs)
    <2>2. b.requests = proto.requests  BY <2>1, BaseOffers
    <2>3. m.id \notin b.session.processed
      BY <2>1, <2>2 DEF Handled, Goes, Moves
    <2>4. PICK s : /\ Goes(Noted(b, m), s)
                   /\ proto' = (IF m.body.k \in {"rpcResult", "rpcSilent"}
                                THEN ReceiveResult(s, m.body) ELSE s)
      BY <2>1, <2>3 DEF Handled
    <2>5. Fit(s) /\ s.requests = proto.requests
      BY <2>1, <2>2, <2>4, GoesIsFit, NotedFit DEF Goes, Moves, Fields
    <2>6. proto' = ReceiveResult(s, m.body)  BY <2>4, <2>5
    <2>7. Receives(s, m.body, proto')  BY <2>5, <2>6, ReceiveResultReceives
    <2>8. r \in Hit(s, m.body)  BY <2>5, <2>7 DEF Receives
    <2> QED BY <1>1, <2>7, <2>8 DEF Receives
  <1> QED BY <1>2, <1>3, <1>4

\* the ids that a turn gives, and the messages that are put on the wire
LEMMA IdForFacts ==
    ASSUME FInv, ContextsFit, NEW rs, rs \subseteq Offered(proto), NEW r \in rs
    PROVE  /\ r \in Requests /\ r \in proto.requests /\ proto.registered
           /\ \/ /\ proto.context[r] = None
                 /\ IdFor(proto, r) = [b |-> proto.batch, m |-> r]
              \/ /\ proto.context[r] # None /\ r \in Bound(proto)
                 /\ proto.context[r].tx = 0 /\ ~proto.context[r].delivered
                 /\ IdFor(proto, r) = proto.context[r].mid /\ Past(proto, IdFor(proto, r))
BY DEF FInv, Fit, Typed, Contexts, Offered, IdFor, Bound, ContextsFit

LEMMA IdsArePast ==
    ASSUME FInv, ContextsFit, Turn, NEW rs, NEW tx, NEW sent, Attempts(rs, tx, sent), NEW r \in rs
    PROVE  Past(proto', IdFor(proto, r))
BY IdForFacts, BatchFacts DEF Attempts

LEMMA SentArePast ==
    ASSUME FInv, ContextsFit, Turn, NEW rs, NEW tx, NEW sent, Attempts(rs, tx, sent),
           Sends(rs, tx, sent), NEW s \in sent
    PROVE  Past(proto', s.mid)
  <1>1. rs \subseteq Offered(proto) /\ proto'.batch = proto.batch + 1
    BY DEF Attempts
  <1>2. \A mid : Past(proto, mid) \/ mid.b = proto.batch => Past(proto', mid)
    BY <1>1, BatchFacts
  <1>3. \A id, t : Encrypted(id, t).mid = id /\ Encrypted(id, t).on = t
    BY DEF Encrypted
  <1>4. CASE tx = 0  BY <1>2, <1>3, <1>4 DEF Sends
  <1>5. CASE tx # 0  BY <1>2, <1>3, <1>5, IdsArePast DEF Sends
  <1> QED BY <1>4, <1>5

LEMMA TurnsIdsFit ==
    ASSUME FInv, ContextsFit, WireFits, ContainersFit, SessionIds, Turn
    PROVE  ContextsFit' /\ WireFits' /\ ContainersFit' /\ SessionIds'
  <1>1. PICK rs, tx, sent : Attempts(rs, tx, sent) /\ Sends(rs, tx, sent)
    BY TurnsAttempts DEF TurnAttempts
  <1>2. /\ proto.batch \in Nat /\ proto'.batch \in {proto.batch, proto.batch + 1}
        /\ proto.session.first \in 0..proto.batch
        /\ \A mid : Past(proto, mid) => Past(proto', mid)
        /\ proto'.batch = proto.batch + 1 => \A mid : mid.b = proto.batch => Past(proto', mid)
    BY BatchFacts
  <1>3. \A r \in rs : Past(proto', IdFor(proto, r))  BY <1>1, IdsArePast
  <1>4. ContextsFit'
    BY <1>1, <1>2, <1>3, IdForFacts, TurnsLeave DEF Attempts, SameAttempt, ContextsFit
  <1>5. WireFits'  BY <1>1, <1>2, SentArePast DEF Attempts, WireFits, Past
  <1>6. ContainersFit'  BY <1>1, <1>2, <1>3 DEF ContainersFit, Attempts, OneMore
  <1>7. SessionIds'
    BY <1>1, <1>2, TurnsQueue, IdForFacts DEF Fit, Typed, Contexts, Attempts,
       SessionIds, SameAttempt, Bound, ContextsFit
  <1> QED BY <1>4, <1>5, <1>6, <1>7

\* a container of the session stands for what is in it
LEMMA WithChildrenIs ==
    ASSUME NEW mid
    PROVE  /\ WithChildren(mid) = {mid} \cup ChildrenOf(proto, mid)
           /\ WithChildren(mid)' = {mid} \cup ChildrenOf(proto', mid)
           /\ \A body : Rejected(proto, body) = WithChildren(body.mid)
BY DEF WithChildren, ChildrenOf, Rejected

LEMMA ChildrenFacts ==
    ASSUME FInv, Turn, NEW rs, NEW tx, NEW sent, Attempts(rs, tx, sent), NEW mid
    PROVE  /\ Past(proto, mid) => ChildrenOf(proto', mid) \subseteq ChildrenOf(proto, mid)
           /\ proto.session.containers \subseteq proto'.session.containers =>
                 ChildrenOf(proto, mid) \subseteq ChildrenOf(proto', mid)
BY BatchFacts DEF Attempts, OneMore, Past, ChildrenOf

\* nothing is about an id that has not been given
LEMMA FreshIsUnused ==
    ASSUME FInv, MessagesFit, WireFits, ContainersFit, NEW mid, mid.b = proto.batch
    PROVE  Unused(mid)
BY WithChildrenIs DEF FInv, Fit, Typed, Past, ChildrenOf, ContainersFit, WireFits,
   MessagesFit, Unused

LEMMA TurnsUnused ==
    ASSUME FInv, PacketsFit, MessagesFit, WireFits, ContainersFit', Turn,
           NEW rs, NEW sent, Attempts(rs, 0, sent), Sends(rs, 0, sent),
           NEW mid, mid.m \in Requests, Unused(mid)
    PROVE  Unused(mid)'
  <1>1. PICK d : Passes(d)  BY TurnsPass
  <1>2. proto.batch \in Nat /\ proto.session.first \in Nat
    BY DEF FInv, Fit, Typed
  <1>3. ASSUME NEW x, Past(proto, x), mid \notin WithChildren(x)
        PROVE  mid \notin {x} \cup ChildrenOf(proto', x)
    BY <1>3, ChildrenFacts, WithChildrenIs
  <1>4. ASSUME NEW s \in wire'
        PROVE  mid \notin {s.mid} \cup ChildrenOf(proto', s.mid)
    BY <1>2, <1>3, <1>4, ProtoAssumption DEF WireFits, Past, Unused, Attempts, Sends,
       Encrypted, ContainersFit, ChildrenOf, Labels
  <1>5. ASSUME NEW i, NEW j, Spot(i, j)', Said(i, j)'.body.k # "update"
        PROVE  mid \notin {Said(i, j)'.body.mid} \cup ChildrenOf(proto', Said(i, j)'.body.mid)
    BY <1>1, <1>3, <1>5 DEF Passes, MessagesFit, Unused
  <1>6. \A s \in wire' : mid \notin WithChildren(s.mid)'
    BY <1>4 DEF WithChildren, ChildrenOf
  <1>7. \A i, j : Spot(i, j)' /\ Said(i, j)'.body.k # "update" => mid \notin WithChildren(Said(i, j).body.mid)'
    BY <1>5 DEF WithChildren, ChildrenOf
  <1> QED BY <1>6, <1>7 DEF Unused

\* An attempt that a turn leaves without a transaction has an id that was kept,
\* and nothing is about it, or an id that is new.
LEMMA TurnsKeepUnused ==
    ASSUME FInv, PacketsFit, MessagesFit, WireFits, ContainersFit, ContainersFit', ContextsFit,
           KeptUnused, Turn
    PROVE  KeptUnused'
  <1>1. PICK rs, tx, sent : Attempts(rs, tx, sent) /\ Sends(rs, tx, sent)
    BY TurnsAttempts DEF TurnAttempts
  <1>2. ASSUME proto'.registered, NEW r \in proto'.requests, proto'.context[r] # None,
               proto'.context[r].tx = 0, ~proto'.context[r].delivered
        PROVE  Unused(proto.context[r].mid)'
    <2>1. r \in Requests /\ proto.registered
      BY <1>1, <1>2, TurnsQueue DEF Attempts, Fit, Typed, Contexts
    <2>2. PICK mid : mid = proto'.context[r].mid  OBVIOUS
    <2>3. mid.m = r  BY <1>2, <2>1, <2>2, TurnsQueue DEF Fit, Typed, Contexts
    <2>4. CASE r \in rs
      <3>1. mid = IdFor(proto, r) /\ tx = 0 /\ rs \subseteq Offered(proto)
        BY <1>1, <1>2, <2>1, <2>2, <2>4 DEF Attempts
      <3>2. Unused(mid)
        BY <2>1, <2>4, <3>1, IdForFacts, FreshIsUnused DEF KeptUnused
      <3>3. Unused(mid)'  BY <1>1, <2>1, <2>3, <3>1, <3>2, TurnsUnused
      <3> QED BY <2>2, <3>3 DEF Unused
    <2>5. CASE r \notin rs
      <3>1. SameAttempt(proto.context[r], proto'.context[r])
        BY <1>1, <1>2, <2>1, <2>5 DEF Attempts
      <3>2. r \in Bound(proto) /\ proto.context[r].tx = 0 /\ ~proto.context[r].delivered
            /\ mid = proto.context[r].mid
        BY <1>2, <2>1, <2>2, <3>1 DEF SameAttempt, Bound, ContextsFit
      <3>3. r \in Offered(proto)  BY <2>1, <3>2 DEF Offered, Bound
      <3>4. tx = 0  BY <1>1, <2>5, <3>3 DEF Sends
      <3>5. Unused(mid)  BY <2>1, <3>2 DEF KeptUnused
      <3>6. Unused(mid)'  BY <1>1, <2>1, <2>3, <3>4, <3>5, TurnsUnused
      <3> QED BY <2>2, <3>6 DEF Unused
    <2> QED BY <2>4, <2>5
  <1> QED BY <1>2 DEF KeptUnused, Bound

\* the message at the head of the queue
LEMMA HeadIsSaid ==
    ASSUME FInv, PacketsFit, Turn, HeadOp = "messages"
    PROVE  Spot(1, 1) /\ Head(TheJob.msgs) = Said(1, 1)
BY FirstJob, QueueFacts, TailFacts DEF FInv, Turn, Carries, PacketsFit, Spot, Said

LEMMA TurnsKeepTold ==
    ASSUME FInv, PacketsFit, MessagesFit, Turn, NEW r, NEW c, Lasts(r, c), Told(c.mid),
           proto.session.containers \subseteq proto'.session.containers
    PROVE  Told(c.mid)'
  <1>1. PICK k, l : /\ Spot(k, l) /\ Ends(proto, Said(k, l).body, c.mid)
                    /\ proto.jobs[k].op = "incoming" => proto.jobs[k].t = proto.transport
    BY DEF Told
  <1>2. /\ TheJob = proto.jobs[1] /\ HeadOp = proto.jobs[1].op
    BY FirstJob DEF FInv, Turn
  <1>3. CASE Stay(k, l)
    BY <1>1, <1>3 DEF Stay, Rejected, ChildrenOf, Ends, Lasts, Told
  <1>4. CASE k = 1 /\ l = 1 /\ HeadOp = "messages"
    BY <1>1, <1>4, HeadIsSaid, TurnsAttempts DEF Ends, MessagesFit, Hears, Lasts
  <1>5. CASE k = 1 /\ HeadOp = "incoming" /\ (TheJob.t # proto.transport \/ Stopped(proto))
    BY <1>1, <1>2, <1>5 DEF Lasts
  <1> QED BY <1>1, <1>3, <1>4, <1>5, TurnsLoseNone DEF NoneIsLost

LEMMA TurnsKeepFailure ==
    ASSUME FInv, Turn, NEW r, NEW c, Lasts(r, c), FailureTold(c.tx)
    PROVE  FailureTold(c.tx)'
  <1>1. PICK i \in 1..Len(proto.jobs) : proto.jobs[i] = [op |-> "txFailed", t |-> c.tx]
    BY DEF FailureTold
  <1>2. PICK d : QueueTurn(d)  BY TurnsQueue
  <1>3. /\ Len(proto.jobs) \in Nat /\ Len(proto'.jobs) \in Nat /\ d \in {0, 1}
        /\ Len(proto'.jobs) + d >= Len(proto.jobs)
        /\ TheJob = proto.jobs[1] /\ HeadOp = proto.jobs[1].op
    BY <1>2, FirstJob, QueueFacts DEF FInv, Turn, QueueTurn
  <1>4. CASE i = 1
    <2>1. HeadOp = "txFailed" /\ TheJob.t = c.tx  BY <1>1, <1>3, <1>4
    <2>2. TxFailedTurn  BY <2>1 DEF Turn
    <2>3. PICK b : /\ Base(b, 1, {})
                   /\ b.registered /\ ~Stopped(b) => \A s \in b.requests :
                         proto'.context[s] # None => proto'.context[s].tx # TheJob.t
      BY <2>2 DEF TxFailedTurn
    <2>4. b.registered /\ ~Stopped(b) /\ r \in b.requests
      BY <2>3, BaseOffers DEF Lasts, Stopped, Bound
    <2> QED BY <2>1, <2>3, <2>4 DEF Lasts
  <1>5. CASE i # 1
    <2>1. i - d \in 1..Len(proto'.jobs) /\ (i - d) + d = i  BY <1>3, <1>5
    <2>2. proto'.jobs[i - d] = proto.jobs[i]
      BY <1>2, <1>3, <1>5, <2>1 DEF QueueTurn
    <2> QED BY <1>1, <2>1, <2>2 DEF FailureTold
  <1> QED BY <1>4, <1>5

\* what a request waits for is not lost in a turn
LEMMA TurnsInHand ==
    ASSUME FInv, PacketsFit, MessagesFit, WireFits, ContextsFit, SessionIds, InHand, Turn
    PROVE  InHand'
  <1>1. PICK rs, tx, sent : Attempts(rs, tx, sent) /\ Sends(rs, tx, sent)
    BY TurnsAttempts DEF TurnAttempts
  <1>2. proto.batch \in Nat /\ proto.session.first \in 0..proto.batch
    BY BatchFacts
  <1>3. \A id, t : Encrypted(id, t).mid = id /\ Encrypted(id, t).on = t
    BY DEF Encrypted
  <1>4. ASSUME proto'.registered, NEW r \in proto'.requests, proto'.context[r] # None,
               proto'.context[r].tx # 0
        PROVE  proto'.context[r].tx = proto'.transport /\ Waits(proto.context[r])'
    <2>1. /\ r \in Requests /\ proto.registered
          /\ proto'.session.first = proto.session.first /\ proto'.transport = proto.transport
          /\ proto.session.containers \subseteq proto'.session.containers
      BY <1>1, <1>4, TurnsQueue DEF Attempts, Fit, Typed, Contexts
    <2>2. PICK c : c = proto'.context[r]  OBVIOUS
    <2>3. CASE r \in rs
      BY <1>1, <1>2, <1>3, <1>4, <2>1, <2>2, <2>3, IdForFacts DEF Attempts, Sends,
         SessionIds, Waits
    <2>4. CASE r \notin rs
      <3>1. SameAttempt(proto.context[r], proto'.context[r])
        BY <1>1, <1>4, <2>1, <2>4 DEF Attempts
      <3>2. /\ r \in Bound(proto) /\ proto.context[r].mid = c.mid /\ proto.context[r].tx = c.tx
            /\ c.tx # 0
        BY <1>4, <2>1, <2>2, <3>1 DEF SameAttempt, Bound, ContextsFit
      <3>3. c.tx = proto.transport /\ Waits(proto.context[r])
        BY <2>1, <3>2 DEF InHand
      <3>4. ~Stopped(proto)
        BY <2>1 DEF FInv, IInv, Sound, Core, RemovalComesFirst
      <3>5. Lasts(r, c)  BY <1>4, <2>1, <2>2, <3>2, <3>3, <3>4 DEF Lasts
      <3>6. c.mid.b >= proto.session.first  BY <2>1, <3>2 DEF SessionIds
      <3>7. \/ \E s \in wire : s.mid = c.mid /\ s.on \in {0, c.tx}
            \/ Told(c.mid)
            \/ FailureTold(c.tx)
        BY <3>2, <3>3 DEF Waits
      <3>8. \/ \E s \in wire' : s.mid = c.mid /\ s.on \in {0, c.tx}
            \/ Told(c.mid)'
            \/ FailureTold(c.tx)'
        BY <1>1, <2>1, <3>5, <3>6, <3>7, TurnsKeepTold, TurnsKeepFailure DEF Attempts
      <3> QED BY <2>1, <2>2, <3>3, <3>8 DEF Waits, Told, FailureTold
    <2> QED BY <2>3, <2>4
  <1> QED BY <1>4 DEF InHand, Bound

----
(* The transport in use. *)

LEMMA LimitedAppend ==
    ASSUME NEW s, NEW n, NEW op, NEW t \in 1..n, IsQueue(s), Limited(s, n)
    PROVE  LET u == Append(s, [op |-> op, t |-> t]) IN IsQueue(u) /\ Limited(u, n)
  <1> DEFINE x == [op |-> op, t |-> t]
             u == Append(s, x)
  <1>1. x.t = t  OBVIOUS
  <1> HIDE DEF x
  <1>2. /\ IsQueue(u) /\ Len(u) = Len(s) + 1 /\ Len(s) \in Nat
        /\ \A i \in 1..Len(s) : u[i] = s[i]
        /\ u[Len(s) + 1] = x
    BY AppendFacts, QueueFacts
  <1> HIDE DEF u
  <1>3. ASSUME NEW i \in 1..Len(u), u[i].op \in {"detach", "stop"}
        PROVE  u[i].t \in 1..n
    BY <1>1, <1>2, <1>3 DEF Limited
  <1> QED BY <1>2, <1>3 DEF Limited, u, x

LEMMA SameUse ==
    ASSUME NEW p, NEW q, UseOf(p),
           q.transport = p.transport, q.created = p.created, q.tcpJobs = p.tcpJobs
    PROVE  UseOf(q)
BY DEF UseOf

LEMMA MovesUse ==
    ASSUME IInv, NEW p, NEW q, Fit(p), UseOf(p), Moves(p, q)
    PROVE  UseOf(q)
  <1>1. /\ IsQueue(p.tcpJobs) /\ Extended(p.tcpJobs, q.tcpJobs)
        /\ p.created \in Nat /\ q.created \in Nat /\ proto.created \in Nat
        /\ DOMAIN net \subseteq 1..proto.created
    BY DEF Moves, Grows, Lives, TcpGrow, Fit, Good, IInv, Sound, Core, Bounds
  <1> DEFINE n == Len(p.tcpJobs)
             m == Len(q.tcpJobs)
  <1>2. /\ n \in Nat /\ m \in Nat /\ n <= m
        /\ \A i \in 1..n : q.tcpJobs[i] = p.tcpJobs[i]
    BY <1>1, QueueFacts DEF Extended
  <1>3. \A i \in 1..m : i \in 1..n \/ i \in (n + 1)..m  BY <1>2
  <1>4. CASE Stays(p, q)
    <2>1. /\ q.transport = p.transport /\ q.created = p.created
          /\ \A i \in (n + 1)..m : q.tcpJobs[i].op = "valid"
      BY <1>4 DEF Stays
    <2>2. ASSUME NEW i \in 1..m, q.tcpJobs[i].op \in {"detach", "stop"}
          PROVE  i \in 1..n /\ q.tcpJobs[i] = p.tcpJobs[i]
      BY <1>2, <1>3, <2>1, <2>2
    <2> HIDE DEF n, m
    <2>3. Limited(q.tcpJobs, q.created)  BY <2>1, <2>2 DEF UseOf, Limited, n, m
    <2>4. q.transport # 0 => \A i \in 1..Len(q.tcpJobs) :
                q.tcpJobs[i].op \in {"detach", "stop"} => q.tcpJobs[i].t # q.transport
      BY <2>1, <2>2 DEF UseOf, n, m
    <2> QED BY <2>1, <2>3, <2>4 DEF UseOf
  <1>5. CASE Succeeds(p, q)
    <2>1. /\ q.transport = q.created /\ p.created < q.created
          /\ \A i \in (n + 1)..m :
                q.tcpJobs[i].op \in {"detach", "stop"} => q.tcpJobs[i].t \in 1..(q.created - 1)
      BY <1>5 DEF Succeeds
    <2>2. ASSUME NEW i \in 1..m, q.tcpJobs[i].op \in {"detach", "stop"}
          PROVE  q.tcpJobs[i].t \in 1..(q.created - 1)
      <3>1. CASE i \in 1..n
        <4>1. q.tcpJobs[i].t \in 1..p.created
          BY <1>2, <2>2, <3>1 DEF UseOf, Limited
        <4> QED BY <1>1, <2>1, <4>1
      <3> QED BY <1>3, <2>1, <2>2, <3>1
    <2>3. Limited(q.tcpJobs, q.created)  BY <1>1, <2>2 DEF Limited
    <2>4. \A i \in 1..Len(q.tcpJobs) :
                q.tcpJobs[i].op \in {"detach", "stop"} => q.tcpJobs[i].t # q.transport
      BY <1>1, <2>1, <2>2
    <2>5. q.created >= proto.created /\ q.transport \in (proto.created + 1)..q.created
      BY <1>1, <2>1 DEF UseOf
    <2>6. q.transport \notin DOMAIN net  BY <1>1, <2>5
    <2> QED BY <2>3, <2>4, <2>5, <2>6 DEF UseOf
  <1> QED BY <1>4, <1>5 DEF Moves

LEMMA HandsUse ==
    ASSUME NEW p, NEW q, NEW t, Fit(p), UseOf(p), Hands(p, q, "needs", t)
    PROVE  UseOf(q)
BY AppendFacts, QueueFacts DEF Hands, Fields, Fit, Good, UseOf, Limited

LEMMA DropsUse ==
    ASSUME NEW p, NEW q, UseOf(p), q.transport = 0, q.created = p.created,
           Limited(q.tcpJobs, p.created)
    PROVE  UseOf(q)
BY DEF UseOf

LEMMA BaseUse ==
    ASSUME FInv, InUse, NEW b, NEW d, NEW fs, Base(b, d, fs),
           fs \cap {"transport", "created", "tcpJobs"} = {}
    PROVE  UseOf(b)
BY DEF Base, Fields, FInv, Fit, Good, UseOf, InUse, Limited

LEMMA BecomesUse ==
    ASSUME FInv, FInv', NEW sent, Become(proto', sent), UseOf(proto')
    PROVE  InUse' /\ (NetFits => NetFits')
BY DEF Become, NetFits, NewTransport, UseOf, InUse, Limited

\* a message moves the transport as its handlers do
LEMMA HandledUse ==
    ASSUME IInv, NEW p, NEW m, NEW q, Fit(p), UseOf(p), Handled(p, m, q)
    PROVE  UseOf(q)
  <1>1. CASE m.id \in p.session.processed  BY <1>1, MovesUse DEF Handled, Goes
  <1>2. CASE m.id \notin p.session.processed
    <2>1. PICK s : /\ Goes(Noted(p, m), s)
                   /\ q = (IF m.body.k \in {"rpcResult", "rpcSilent"}
                           THEN ReceiveResult(s, m.body) ELSE s)
      BY <1>2 DEF Handled
    <2>2. UseOf(Noted(p, m)) /\ Fit(Noted(p, m))
      BY NotedFit, SameUse DEF Fields
    <2>3. UseOf(s) /\ Fit(s)  BY <2>1, <2>2, MovesUse, GoesIsFit DEF Goes
    <2>4. CASE q = ReceiveResult(s, m.body)
      <3>1. Receives(s, m.body, q)  BY <2>3, <2>4, ReceiveResultReceives
      <3> QED BY <2>3, <3>1, SameUse DEF Receives, Alike
    <2> QED BY <2>1, <2>3, <2>4
  <1> QED BY <1>1, <1>2

\* the transport is given up, and what was to be done with it is left to its queue
LEMMA GivenUpUse ==
    ASSUME FInv, NEW b, NEW q, Fit(b), UseOf(b), q.transport = 0, q.created = b.created,
           LET T == [op |-> "stop", t |-> b.transport]
           IN \/ q.tcpJobs = Retired(b.tcpJobs, b.transport)
              \/ /\ b.transport # 0
                 /\ q.tcpJobs = Append(Append(Append(b.tcpJobs, [op |-> "detach", t |-> b.transport]), T), T)
    PROVE  UseOf(q)
  <1>1. /\ IsQueue(b.tcpJobs) /\ b.created \in Nat /\ b.transport \in {0, b.created}
        /\ Limited(b.tcpJobs, b.created)
    BY DEF Fit, Good, Typed, UseOf
  <1>2. CASE q.tcpJobs = b.tcpJobs  BY <1>1, <1>2, DropsUse
  <1>3. CASE b.transport # 0
    <2>1. b.transport \in 1..b.created  BY <1>1, <1>3
    <2>2. PICK v : v = Append(b.tcpJobs, [op |-> "detach", t |-> b.transport])
      OBVIOUS
    <2>3. IsQueue(v) /\ Limited(v, b.created)
      BY <1>1, <2>1, <2>2, LimitedAppend
    <2>4. PICK w : w = Append(v, [op |-> "stop", t |-> b.transport])  OBVIOUS
    <2>5. IsQueue(w) /\ Limited(w, b.created)
      BY <2>1, <2>3, <2>4, LimitedAppend
    <2>6. Limited(Append(w, [op |-> "stop", t |-> b.transport]), b.created)
      BY <2>1, <2>5, LimitedAppend
    <2>7. Limited(Append(b.tcpJobs, [op |-> "stop", t |-> b.transport]), b.created)
      BY <1>1, <2>1, LimitedAppend
    <2>8. Limited(q.tcpJobs, b.created)
      BY <1>3, <2>2, <2>4, <2>6, <2>7 DEF Retired
    <2> QED BY <2>8, DropsUse
  <1> QED BY <1>2, <1>3 DEF Retired

LEMMA TurnsUse ==
    ASSUME FInv, FInv', InUse, Turn
    PROVE  InUse' /\ (NetFits => NetFits')
  <1>0. IInv  BY DEF FInv
  <1>1. ASSUME NEW b, NEW d, NEW fs, Base(b, d, fs), Fit(b),
               fs \cap {"transport", "created", "tcpJobs"} = {}
        PROVE  /\ UseOf(b)
               /\ \A q : Moves(b, q) => UseOf(q)
    BY <1>0, <1>1, BaseUse, MovesUse
  <1>2. Calm => UseOf(proto') /\ Become(proto', {})  BY <1>1 DEF Calm, Goes
  <1>3. CASE AddTurn \/ TxFailedTurn
    BY <1>1, <1>3, SameUse, BecomesUse DEF AddTurn, TxFailedTurn, Recalls, Untouched
  <1>4. CASE CancelTurn \/ ConnStateTurn \/ RemoveServiceTurn
    BY <1>4, BaseUse, BecomesUse DEF CancelTurn, ConnStateTurn, RemoveServiceTurn
  <1>5. CASE PauseTurn \/ StopTurn
    <2>1. CASE Calm  BY <1>2, <2>1, BecomesUse
    <2>2. CASE ~Calm
      <3>1. PICK b : /\ Base(b, 1, {"state"}) /\ Fit(b)
                     /\ \/ proto' = b
                        \/ /\ Shifts(b, proto', 0)
                           /\ LET T == [op |-> "stop", t |-> b.transport]
                              IN \/ proto'.tcpJobs = Retired(b.tcpJobs, b.transport)
                                 \/ /\ b.transport # 0
                                    /\ proto'.tcpJobs = Append(Append(Append(b.tcpJobs,
                                             [op |-> "detach", t |-> b.transport]), T), T)
        BY <1>5, <2>2 DEF PauseTurn, StopTurn
      <3>2. UseOf(b)  BY <1>1, <3>1
      <3>3. UseOf(proto')  BY <3>1, <3>2, GivenUpUse DEF Shifts
      <3>4. Become(proto', {})  BY <1>5, <2>2 DEF PauseTurn, StopTurn
      <3> QED BY <3>3, <3>4, BecomesUse
    <2> QED BY <2>1, <2>2
  <1>6. CASE ResumeTurn \/ AuthInfoTurn
    BY <1>1, <1>2, <1>6, BecomesUse DEF ResumeTurn, AuthInfoTurn
  <1>7. CASE FlushTurn
    BY <1>1, <1>7, MovesIsFit, HandsUse, BecomesUse DEF FlushTurn
  <1>8. CASE IncomingTurn  BY <1>1, <1>8, BecomesUse DEF IncomingTurn, Goes
  <1>9. CASE MessageTurn
    BY <1>0, <1>1, <1>9, HandledUse, BecomesUse DEF MessageTurn
  <1>10. CASE ReadyTurn
    <2>1. CASE Calm  BY <1>2, <2>1, BecomesUse
    <2>2. ASSUME NEW b, NEW x, NEW rs, NEW tx, Base(b, 1, {}), Fit(b), Binds(b, x, rs, tx)
          PROVE  UseOf(x) /\ Fit(x)
      BY <1>1, <2>2, SameUse DEF Binds, Alike
    <2>3. CASE SendTurn  BY <2>2, <2>3, BecomesUse DEF SendTurn
    <2>4. CASE RefusedTurn
      BY <1>0, <2>2, <2>4, MovesUse, BecomesUse DEF RefusedTurn
    <2>5. CASE PingTurn
      BY <1>0, <2>2, <2>5, MovesUse, BecomesUse DEF PingTurn, Goes
    <2> QED BY <1>10, <2>1, <2>3, <2>4, <2>5 DEF ReadyTurn
  <1> QED BY <1>3, <1>4, <1>5, <1>6, <1>7, <1>8, <1>9, <1>10 DEF Turn

\* a turn keeps all of it
LEMMA TurnsKeepS ==
    ASSUME SInv, FInv', Turn
    PROVE  SInv'
BY TurnsPacketsFit, TurnsMessagesFit, TurnsIdsFit, TurnsKeepUnused, TurnsInHand, TurnsUse DEF SInv

----
(* The steps beside Proto's queue keep them. *)

LEMMA AddsLeave ==
    ASSUME NEW fs, NEW js, Adds(fs, js), fs \subseteq Others
    PROVE  /\ proto'.transport = proto.transport /\ proto'.created = proto.created
           /\ proto'.batch = proto.batch /\ proto'.session = proto.session
           /\ proto'.state = proto.state /\ proto'.registered = proto.registered
           /\ proto'.requests = proto.requests /\ proto'.context = proto.context
BY DEF Adds, Fields, Others

LEMMA SameSpots ==
    ASSUME FInv, NEW fs, NEW js, Adds(fs, js), \A i \in 1..Len(js) : ~Carries(js[i])
    PROVE  /\ \A i, j : Spot(i, j)' <=> Spot(i, j)
           /\ \A i, j : Spot(i, j) => Said(i, j)' = Said(i, j) /\ proto'.jobs[i] = proto.jobs[i]
  <1>1. /\ Len(proto.jobs) \in Nat /\ Len(js) \in Nat
        /\ Len(proto'.jobs) = Len(proto.jobs) + Len(js)
        /\ \A i \in 1..Len(proto.jobs) : proto'.jobs[i] = proto.jobs[i]
        /\ \A i \in 1..Len(js) : proto'.jobs[Len(proto.jobs) + i] = js[i]
    BY ProtoQueues, QueueFacts DEF Adds, FInv
  <1>2. ASSUME NEW i \in 1..Len(proto'.jobs), i \notin 1..Len(proto.jobs)
        PROVE  ~Carries(proto'.jobs[i])
    <2>1. i - Len(proto.jobs) \in 1..Len(js) /\ Len(proto.jobs) + (i - Len(proto.jobs)) = i
      BY <1>1, <1>2
    <2>2. proto'.jobs[i] = js[i - Len(proto.jobs)]  BY <1>1, <2>1
    <2> QED BY <2>1, <2>2
  <1>3. 1..Len(proto.jobs) \subseteq 1..Len(proto'.jobs)  BY <1>1
  <1>4. ASSUME NEW i, NEW j
        PROVE  /\ Spot(i, j)' <=> Spot(i, j)
               /\ Spot(i, j) => Said(i, j)' = Said(i, j) /\ proto'.jobs[i] = proto.jobs[i]
    BY <1>1, <1>2, <1>3 DEF Spot, Said, Carries
  <1> QED BY <1>4

\* a step that brings no packet
LEMMA SilenceKeeps ==
    ASSUME SInv, NEW fs, NEW js, Adds(fs, js), fs \subseteq Others,
           \A i \in 1..Len(js) : ~Carries(js[i]), NothingNew, served' = served, StillOut
    PROVE  /\ ServedFits' /\ PacketsFit' /\ MessagesFit' /\ WireFits' /\ ContainersFit'
           /\ ContextsFit' /\ SessionIds' /\ KeptUnused' /\ InHand'
  <1>1. /\ proto'.transport = proto.transport /\ proto'.batch = proto.batch
        /\ proto'.session = proto.session /\ proto'.registered = proto.registered
        /\ proto'.requests = proto.requests /\ proto'.context = proto.context
    BY AddsLeave
  <1>2. /\ \A i, j : Spot(i, j)' <=> Spot(i, j)
        /\ \A i, j : Spot(i, j) => Said(i, j)' = Said(i, j) /\ proto'.jobs[i] = proto.jobs[i]
    BY SameSpots DEF SInv
  <1>3. /\ Len(proto.jobs) \in Nat /\ Len(js) \in Nat
        /\ Len(proto'.jobs) = Len(proto.jobs) + Len(js)
        /\ \A i \in 1..Len(proto.jobs) : proto'.jobs[i] = proto.jobs[i]
        /\ \A i \in 1..Len(js) : proto'.jobs[Len(proto.jobs) + i] = js[i]
    BY ProtoQueues, QueueFacts DEF Adds, FInv, SInv
  <1>4. PacketsFit'
    <2>1. ASSUME NEW i \in 1..Len(proto'.jobs), Carries(proto'.jobs[i])
          PROVE  i \in 1..Len(proto.jobs) /\ proto'.jobs[i] = proto.jobs[i]
      <3>1. CASE i \in 1..Len(proto.jobs)  BY <1>3, <3>1
      <3>2. CASE i \notin 1..Len(proto.jobs)
        <4>1. i - Len(proto.jobs) \in 1..Len(js) /\ Len(proto.jobs) + (i - Len(proto.jobs)) = i
          BY <1>3, <3>2
        <4>2. proto'.jobs[i] = js[i - Len(proto.jobs)]  BY <1>3, <4>1
        <4> QED BY <2>1, <4>1, <4>2
      <3> QED BY <3>1, <3>2
    <2> QED BY <2>1 DEF PacketsFit, SInv
  <1>5. MessagesFit' /\ ServedFits'
    <2>1. \A mid : Past(proto', mid) <=> Past(proto, mid)  BY <1>1 DEF Past
    <2>2. MessagesFit /\ ServedFits  BY DEF SInv
    <2> QED BY <1>1, <1>2, <2>1, <2>2 DEF MessagesFit, ServedFits
  <1>6. WireFits'  BY <1>1 DEF WireFits, NothingNew, SInv
  <1>7. ContainersFit' /\ ContextsFit' /\ SessionIds'
    BY <1>1 DEF ContainersFit, ContextsFit, SessionIds, Past, Bound, SInv
  <1>8. KeptUnused'
    <2>1. \A mid : WithChildren(mid)' = WithChildren(mid)
      BY <1>1 DEF WithChildren
    <2>2. ASSUME NEW mid, Unused(mid)
          PROVE  Unused(mid)'
      BY <1>2, <2>1, <2>2 DEF Unused, NothingNew
    <2> QED BY <1>1, <2>2 DEF KeptUnused, Bound, SInv, Unused
  <1>9. InHand'
    <2>1. ASSUME NEW mid, Told(mid)
          PROVE  Told(mid)'
      <3>1. PICK i, j : /\ Spot(i, j) /\ Ends(proto, Said(i, j).body, mid)
                        /\ proto.jobs[i].op = "incoming" => proto.jobs[i].t = proto.transport
        BY <2>1 DEF Told
      <3>2. Ends(proto', Said(i, j)'.body, mid)
        BY <1>1, <1>2, <3>1 DEF Ends, Rejected, ChildrenOf
      <3>3. Spot(i, j)' /\ proto'.jobs[i] = proto.jobs[i]  BY <1>2, <3>1
      <3> QED BY <1>1, <3>1, <3>2, <3>3 DEF Told
    <2>2. ASSUME NEW t, FailureTold(t)
          PROVE  FailureTold(t)'
      BY <1>3, <2>2 DEF FailureTold
    <2>3. ASSUME proto.registered, NEW r \in Bound(proto), proto.context[r].tx # 0
          PROVE  /\ proto.context[r].tx = proto.transport
                 /\ \/ \E s \in wire' : s.mid = proto.context[r].mid /\ s.on \in {0, proto.transport}
                    \/ Told(proto.context[r].mid)'
                    \/ FailureTold(proto.transport)'
      <3>1. proto.context[r].tx = proto.transport /\ Waits(proto.context[r])
        BY <2>3 DEF InHand, SInv
      <3>2. PICK c : c = proto.context[r]  OBVIOUS
      <3>3. PICK t : t = proto.transport  OBVIOUS
      <3>4. \/ \E s \in wire : s.mid = c.mid /\ s.on \in {0, t}
            \/ Told(c.mid)
            \/ FailureTold(t)
        BY <3>1, <3>2, <3>3 DEF Waits
      <3>5. \/ \E s \in wire' : s.mid = c.mid /\ s.on \in {0, t}
            \/ Told(c.mid)'
            \/ FailureTold(t)'
        <4>1. CASE Told(c.mid) \/ FailureTold(t)  BY <2>1, <2>2, <4>1
        <4>2. CASE \E s \in wire : s.mid = c.mid /\ s.on \in {0, t}
          <5>1. FailureTold(proto.transport)' => FailureTold(t)'
            BY <1>1, <3>3 DEF FailureTold
          <5>2. \/ FailureTold(t)'
                \/ \A s \in wire : s.on \in {0, t} =>
                       \E x \in wire' : x.mid = s.mid /\ x.on \in {0, t}
            BY <2>3, <3>1, <3>3, <5>1 DEF StillOut
          <5> QED BY <4>2, <5>2
        <4> QED BY <3>4, <4>1, <4>2
      <3> QED BY <1>1, <3>1, <3>2, <3>3, <3>5 DEF Told, FailureTold
    <2> QED BY <1>1, <2>3 DEF InHand, Bound, Waits, Told, FailureTold
  <1> QED BY <1>4, <1>5, <1>6, <1>7, <1>8, <1>9

LEMMA UseStays ==
    ASSUME SInv, NEW fs, NEW js, Adds(fs, js), fs \subseteq Others,
           \A i \in 1..Len(proto'.tcpJobs) : proto'.tcpJobs[i].op \in {"detach", "stop"} =>
              \E k \in 1..Len(proto.tcpJobs) : proto'.tcpJobs[i] = proto.tcpJobs[k],
           proto.transport # 0 => proto.transport \in DOMAIN net' /\ net'[proto.transport].attached
    PROVE  InUse'
BY AddsLeave DEF InUse, SInv

LEMMA TcpNewsAreNoPackets == \A i \in 1..Len(TcpNews) : ~Carries(TcpNews[i])
  <1> DEFINE ops == {"connState", "ready"}
  <1>1. \A up : ConnState(up).op \in ops  BY DEF ConnState
  <1>2. \A t : ReadyJob(t).op \in ops  BY DEF ReadyJob
  <1> HIDE DEF ops
  <1>3. Ops(TcpNews, ops)  BY <1>1, <1>2, OpsFacts DEF TcpNews
  <1> QED BY <1>3 DEF Ops, Carries, ops

\* the queue of the transports without its head
LEMMA TcpQueueShifts ==
    ASSUME SInv, TcpStep
    PROVE  /\ Len(proto.tcpJobs) \in Nat /\ Len(proto.tcpJobs) >= 1
           /\ TcpOp = proto.tcpJobs[1].op /\ TcpTarget = proto.tcpJobs[1].t
           /\ \A k \in 2..Len(proto.tcpJobs) :
                 k - 1 \in 1..Len(proto'.tcpJobs) /\ proto'.tcpJobs[k - 1] = proto.tcpJobs[k]
           /\ \A k \in 1..Len(proto'.tcpJobs) :
                 \/ k + 1 \in 2..Len(proto.tcpJobs) /\ proto'.tcpJobs[k] = proto.tcpJobs[k + 1]
                 \/ proto'.tcpJobs[k].op = "flush"
  <1> DEFINE n == Len(proto.tcpJobs)
             s == Tail(proto.tcpJobs)
             x == [op |-> "flush", t |-> TcpTarget]
  <1>1. TcpAdds /\ IInv  BY TcpStepAdds DEF SInv, FInv
  <1>2. /\ IsQueue(proto.tcpJobs) /\ proto.tcpJobs # <<>> /\ n \in Nat /\ n >= 1
        /\ TcpOp = proto.tcpJobs[1].op /\ TcpTarget = proto.tcpJobs[1].t
    BY <1>1, ProtoQueues, QueueFacts, TailFacts DEF TcpAdds, TcpOp, TcpTarget
  <1>3. /\ IsQueue(s) /\ Len(s) = n - 1
        /\ \A k \in 1..(n - 1) : s[k] = proto.tcpJobs[k + 1]
    BY <1>2, TailFacts
  <1>4. proto'.tcpJobs = s \/ proto'.tcpJobs = Append(s, x)  BY <1>1 DEF TcpAdds
  <1>5. x.op = "flush"  OBVIOUS
  <1> HIDE DEF s, x, n
  <1>6. /\ Len(Append(s, x)) = Len(s) + 1 /\ Append(s, x)[Len(s) + 1] = x
        /\ \A k \in 1..Len(s) : Append(s, x)[k] = s[k]
    BY <1>3, AppendFacts
  <1>7. /\ Len(proto'.tcpJobs) = n - 1 \/ (Len(proto'.tcpJobs) = n /\ proto'.tcpJobs[n] = x)
        /\ \A k \in 1..(n - 1) : proto'.tcpJobs[k] = proto.tcpJobs[k + 1]
    <2>1. CASE proto'.tcpJobs = s  BY <1>2, <1>3, <2>1
    <2>2. CASE proto'.tcpJobs = Append(s, x)
      <3>1. Len(s) + 1 = n  BY <1>2, <1>3
      <3>2. \A k \in 1..(n - 1) : k \in 1..Len(s)  BY <1>2, <1>3
      <3> QED BY <1>3, <1>6, <2>2, <3>1, <3>2
    <2> QED BY <1>4, <2>1, <2>2
  <1>8. ASSUME NEW k \in 2..n
        PROVE  k - 1 \in 1..Len(proto'.tcpJobs) /\ proto'.tcpJobs[k - 1] = proto.tcpJobs[k]
    <2>1. k - 1 \in 1..(n - 1) /\ (k - 1) + 1 = k  BY <1>2
    <2> QED BY <1>2, <1>7, <2>1
  <1>9. ASSUME NEW k \in 1..Len(proto'.tcpJobs)
        PROVE  \/ k + 1 \in 2..n /\ proto'.tcpJobs[k] = proto.tcpJobs[k + 1]
               \/ proto'.tcpJobs[k].op = "flush"
    <2>1. k \in 1..(n - 1) \/ (k = n /\ proto'.tcpJobs[n] = x)  BY <1>2, <1>7
    <2> QED BY <1>2, <1>5, <1>7, <2>1
  <1> QED BY <1>2, <1>8, <1>9 DEF n

\* what one job of TcpTransport::queue does to a transport that it leaves there
LEMMA TcpStepMoves ==
    ASSUME SInv, TcpStep, NEW t \in DOMAIN net'
    PROVE  /\ t \in DOMAIN net /\ ~(TcpOp = "stop" /\ t = TcpTarget)
           /\ DOMAIN net'[t] = DOMAIN NewTransport /\ (net'[t].again => net[t].again)
           /\ (TcpOp = "detach" /\ t = TcpTarget) \/ net'[t].attached = net[t].attached
           /\ IF TcpOp \in {"needs", "flush"} /\ t = TcpTarget
              THEN /\ net'[t].flushing <=> TcpOp = "needs"
                   /\ net'[t].conn = IF TcpOp = "flush" /\ net[t].conn \in {"none", "backoff"}
                                     THEN "starting" ELSE net[t].conn
              ELSE /\ net'[t].flushing = net[t].flushing
                   /\ \/ net'[t].conn = net[t].conn
                      \/ net[t].conn = "backoff" /\ net'[t].conn = "none"
  <1>1. /\ DOMAIN NewTransport = {"conn", "again", "attached", "flushing", "pinged"}
        /\ \A u \in DOMAIN net : DOMAIN net[u] = DOMAIN NewTransport
    BY DEF NewTransport, SInv, NetFits
  <1>2. CASE TcpSkip \/ TcpUpdate  BY <1>1, <1>2 DEF TcpSkip, TcpUpdate
  <1>3. CASE TcpNeeds  BY <1>1, <1>3 DEF TcpNeeds
  <1>4. CASE TcpFlush
    <2>1. PICK x, y : /\ x = [Starting(TcpTarget) EXCEPT !.flushing = FALSE]
                      /\ y = [net[TcpTarget] EXCEPT !.flushing = FALSE, !.pinged = @ \/ net[TcpTarget].attached]
      OBVIOUS
    <2>2. /\ TcpTarget \in DOMAIN net /\ TcpOp = "flush"
          /\ net' = [net EXCEPT ![TcpTarget] = IF net[TcpTarget].conn \in {"none", "backoff"} THEN x ELSE y]
      BY <1>4, <2>1 DEF TcpFlush
    <2>3. /\ x.conn = "starting" /\ ~x.flushing /\ x.again = net[TcpTarget].again
          /\ y.conn = net[TcpTarget].conn /\ ~y.flushing /\ y.again = net[TcpTarget].again
          /\ x.attached = net[TcpTarget].attached /\ y.attached = net[TcpTarget].attached
          /\ DOMAIN x = DOMAIN NewTransport /\ DOMAIN y = DOMAIN NewTransport
      BY <1>1, <2>1, <2>2 DEF Starting
    <2> QED BY <1>1, <2>2, <2>3
  <1>5. CASE TcpValid  BY <1>1, <1>5 DEF TcpValid
  <1>6. CASE TcpDetach  BY <1>1, <1>6 DEF TcpDetach
  <1>7. CASE TcpStop  BY <1>1, <1>7 DEF TcpStop
  <1> QED BY <1>2, <1>3, <1>4, <1>5, <1>6, <1>7 DEF TcpStep

\* ... and which ones that are
LEMMA TcpStepNet ==
    ASSUME SInv, TcpStep
    PROVE  /\ DOMAIN net' \subseteq DOMAIN net
           /\ \A t \in DOMAIN net :
                 \/ t \in DOMAIN net'
                 \/ TcpOp = "stop" /\ t = TcpTarget
           /\ \A t \in DOMAIN net' :
                 /\ (net'[t].conn = "open") <=> (net[t].conn = "open")
                 /\ (TcpOp = "detach" /\ t = TcpTarget) \/ net'[t].attached = net[t].attached
           /\ TcpOp = "stop" => TcpTarget \notin DOMAIN net'
  <1>1. \A t \in DOMAIN net : t \in DOMAIN net' \/ (TcpOp = "stop" /\ t = TcpTarget)
    BY DEF TcpStep, TcpSkip, TcpUpdate, TcpNeeds, TcpFlush, TcpValid, TcpDetach, TcpStop
  <1> QED BY <1>1, TcpStepMoves

\* what becomes of the transports when the connection of t opens, closes or is tried again
LEMMA NetworkNet ==
    ASSUME SInv, NEW t \in DOMAIN net, ConnectionOpened(t) \/ ConnectionClosed(t) \/ BackoffTimer(t)
    PROVE  /\ DOMAIN net' = DOMAIN net /\ \A u \in DOMAIN net : u # t => net'[u] = net[u]
           /\ DOMAIN net'[t] = DOMAIN net[t]
           /\ net'[t].attached = net[t].attached /\ net'[t].flushing = net[t].flushing
           /\ ConnectionOpened(t) => net'[t].conn = "open" /\ net'[t].again = net[t].again
           /\ ConnectionClosed(t) => net'[t].conn = IF net[t].again THEN "backoff" ELSE "starting"
           /\ BackoffTimer(t) => net'[t].conn = "starting" /\ net'[t].again = net[t].again
  <1>1. DOMAIN net[t] = {"conn", "again", "attached", "flushing", "pinged"}
    BY DEF SInv, NetFits, NewTransport
  <1>2. PICK x, y : x = [Reconnecting(t) EXCEPT !.pinged = FALSE] /\ y = Starting(t)
    OBVIOUS
  <1>3. /\ x.conn = (IF net[t].again THEN "backoff" ELSE "starting")
        /\ x.attached = net[t].attached /\ x.flushing = net[t].flushing /\ DOMAIN x = DOMAIN net[t]
        /\ y.conn = "starting" /\ y.again = net[t].again
        /\ y.attached = net[t].attached /\ y.flushing = net[t].flushing /\ DOMAIN y = DOMAIN net[t]
    BY <1>1, <1>2 DEF Reconnecting, Starting
  <1>4. /\ ConnectionOpened(t) =>
              /\ net[t].conn = "starting"
              /\ net' = [net EXCEPT ![t].conn = "open", ![t].pinged = net[t].attached]
        /\ ConnectionClosed(t) => net[t].conn \in {"starting", "open"} /\ net' = [net EXCEPT ![t] = x]
        /\ BackoffTimer(t) => net[t].conn = "backoff" /\ net' = [net EXCEPT ![t] = y]
    BY <1>2 DEF ConnectionOpened, ConnectionClosed, BackoffTimer, HasConnection
  <1> QED BY <1>1, <1>3, <1>4

\* one job of TcpTransport::queue
LEMMA TcpStepStays ==
    ASSUME SInv, TcpStep
    PROVE  InUse' /\ NetFits' /\ NothingNew /\ StillOut /\ served' = served
  <1>1. FInv /\ IInv /\ NetFits /\ InUse  BY DEF SInv, FInv
  <1>2. TcpAdds /\ served' = served
    BY <1>1, TcpStepAdds
       DEF TcpStep, TcpSkip, TcpUpdate, TcpNeeds, TcpFlush, TcpValid, TcpDetach, TcpStop
  <1>3. /\ Len(proto.tcpJobs) \in Nat /\ Len(proto.tcpJobs) >= 1
        /\ TcpOp = proto.tcpJobs[1].op /\ TcpTarget = proto.tcpJobs[1].t
    BY TcpQueueShifts
  <1>4. TcpOp \in {"detach", "stop"} =>
             TcpTarget \in 1..proto.created /\ (proto.transport # 0 => TcpTarget # proto.transport)
    BY <1>1, <1>3 DEF InUse
  <1>5. ASSUME NEW i \in 1..Len(proto'.tcpJobs), proto'.tcpJobs[i].op \in {"detach", "stop"}
        PROVE  \E k \in 1..Len(proto.tcpJobs) : proto'.tcpJobs[i] = proto.tcpJobs[k]
    BY <1>3, <1>5, TcpQueueShifts
  <1>6. /\ \A t \in DOMAIN net \ {TcpTarget} :
              t \in DOMAIN net' /\ net'[t].attached = net[t].attached
        /\ TcpOp \notin {"detach", "stop"} /\ TcpTarget \in DOMAIN net =>
              TcpTarget \in DOMAIN net' /\ net'[TcpTarget].attached = net[TcpTarget].attached
        /\ NetFits'
    BY TcpStepMoves, TcpStepNet DEF NetFits
  <1>7. proto.transport # 0 => proto.transport \in DOMAIN net' /\ net'[proto.transport].attached
    BY <1>1, <1>4, <1>6 DEF InUse
  <1>8. InUse'  BY <1>2, <1>5, <1>7, UseStays DEF TcpAdds, Others
  <1>9. NothingNew /\ StillOut
    <2>1. CASE TcpStop
      <3>1. TcpOp = "stop" /\ Severed(TcpTarget)  BY <2>1 DEF TcpStop
      <3>2. proto.created \in Nat  BY <1>1 DEF FInv, Fit, Good
      <3>3. TcpTarget # 0 /\ (proto.transport # 0 => TcpTarget # proto.transport)
        BY <1>4, <3>1, <3>2
      <3>4. ASSUME NEW s \in wire, proto.transport # 0, s.on \in {0, proto.transport}
            PROVE  s \in wire'
        BY <3>1, <3>3, <3>4 DEF Severed
      <3> QED BY <3>1, <3>4, SeveredSendsNothing DEF StillOut
    <2>2. CASE ~TcpStop
      BY <2>2 DEF TcpStep, TcpSkip, TcpUpdate, TcpNeeds, TcpFlush, TcpValid,
         TcpDetach, NothingNew, StillOut
    <2> QED BY <2>1, <2>2
  <1> QED BY <1>2, <1>6, <1>8, <1>9

\* the connections
LEMMA NetworkStays ==
    ASSUME SInv, Network
    PROVE  /\ InUse' /\ NetFits' /\ NothingNew /\ StillOut /\ served' = served
           /\ \E js : Adds({}, js) /\ \A i \in 1..Len(js) : ~Carries(js[i])
  <1>1. FInv /\ IInv /\ NetFits /\ InUse /\ proto.created \in Nat /\ DOMAIN net \subseteq 1..proto.created
    BY DEF SInv, FInv, Fit, Good, IInv, Sound, Core, Bounds
  <1>2. PICK t \in DOMAIN net : ConnectionOpened(t) \/ ConnectionClosed(t) \/ BackoffTimer(t)
    BY DEF Network
  <1>3. DOMAIN net' = DOMAIN net /\ NetFits' /\ \A u \in DOMAIN net : net'[u].attached = net[u].attached
    BY <1>1, <1>2, NetworkNet DEF NetFits
  <1>4. served' = served /\ t \in Nat /\ t # 0
    BY <1>1, <1>2 DEF ConnectionOpened, ConnectionClosed, BackoffTimer
  <1>5. ASSUME NEW js, Adds({}, js)
        PROVE  InUse'
    BY <1>1, <1>3, <1>5, UseStays DEF Adds, Fields, InUse
  <1>6. CASE ConnectionOpened(t)
    <2> DEFINE x == [op |-> "ready", t |-> t, ping |-> TRUE]
               js == Heard(t, <<ConnState(TRUE), x>>)
    <2>1. Adds({}, js)  BY <1>1, <1>6, ConnectionOpenedAdds
    <2>2. x.op \in {"connState", "ready"} /\ ConnState(TRUE).op \in {"connState", "ready"}
      BY DEF ConnState
    <2> HIDE DEF x
    <2>3. \A i \in 1..Len(js) : ~Carries(js[i])
      <3>1. Ops(js, {"connState", "ready"})  BY <2>2, OpsFacts
      <3> QED BY <3>1 DEF Ops, Carries
    <2>4. wire' = wire  BY <1>6 DEF ConnectionOpened
    <2> HIDE DEF js
    <2> QED BY <1>3, <1>4, <1>5, <2>1, <2>3, <2>4 DEF NothingNew, StillOut
  <1>7. CASE ConnectionClosed(t)
    <2> DEFINE x == [op |-> "txFailed", t |-> t]
               js == Heard(t, <<ConnState(FALSE), x>>)
    <2>1. Adds({}, js)  BY <1>1, <1>7, ConnectionClosedAdds
    <2>2. x.op \in {"connState", "txFailed"} /\ ConnState(FALSE).op \in {"connState", "txFailed"}
      BY DEF ConnState
    <2>3. Severed(t)  BY <1>7 DEF ConnectionClosed
    <2>4. StillOut
      <3>1. CASE t = proto.transport
        <4>1. net[t].attached  BY <1>1, <1>4, <3>1 DEF InUse
        <4>2. js = <<ConnState(FALSE), x>>  BY <4>1 DEF Heard
        <4> HIDE DEF x
        <4>3. Len(js) = 2 /\ js[2] = x /\ 2 \in 1..Len(js)  BY <4>2
        <4>4. /\ Len(proto.jobs) \in Nat /\ Len(proto'.jobs) = Len(proto.jobs) + 2
              /\ proto'.jobs[Len(proto.jobs) + 2] = x
          BY <1>1, <2>1, <4>3, ProtoQueues, QueueFacts DEF Adds
        <4>5. Len(proto.jobs) + 2 \in 1..Len(proto'.jobs)  BY <4>4
        <4>6. proto'.transport = proto.transport  BY <2>1 DEF Adds, Fields
        <4>7. FailureTold(proto.transport)'
          BY <3>1, <4>4, <4>5, <4>6 DEF FailureTold, x
        <4> QED BY <4>7 DEF StillOut
      <3>2. CASE t # proto.transport  BY <1>4, <2>3, <3>2 DEF Severed, StillOut
      <3> QED BY <3>1, <3>2
    <2> HIDE DEF x
    <2>5. \A i \in 1..Len(js) : ~Carries(js[i])
      <3>1. Ops(js, {"connState", "txFailed"})  BY <2>2, OpsFacts
      <3> QED BY <3>1 DEF Ops, Carries
    <2> HIDE DEF js
    <2> QED BY <1>3, <1>4, <1>5, <2>1, <2>3, <2>4, <2>5, SeveredSendsNothing
  <1>8. CASE BackoffTimer(t)
    <2>1. Adds({"lock"}, <<>>)  BY <1>1, <1>8, NothingAdded DEF BackoffTimer
    <2>2. proto' = proto /\ wire' = wire  BY <1>8 DEF BackoffTimer
    <2>3. Adds({}, <<>>)  BY <2>1, <2>2 DEF Adds
    <2>4. \A i \in 1..Len(<<>>) : ~Carries(<<>>[i])  OBVIOUS
    <2> QED BY <1>3, <1>4, <1>5, <2>2, <2>3, <2>4 DEF NothingNew, StillOut
  <1> QED BY <1>2, <1>6, <1>7, <1>8

\* a step of the user, of Context's queue or of time
LEMMA StillKeeps ==
    ASSUME SInv, FInv', NEW fs, NEW js, Adds(fs, js), fs \subseteq Others \ {"tcpJobs"},
           \A i \in 1..Len(js) : ~Carries(js[i]), net' = net, wire' = wire, served' = served
    PROVE  SInv'
BY UseStays, SilenceKeeps DEF Adds, Fields, Others, SInv, InUse, NetFits, NothingNew,
   StillOut

LEMMA QuietStepKeepsS ==
    ASSUME SInv, FInv',
           TcpStep \/ Network \/ User \/ ContextStep \/ AuthCompleted
             \/ SaltsLapse \/ LockExpires \/ UNCHANGED vars
    PROVE  SInv'
  <1>1. IInv  BY DEF SInv, FInv
  <1>2. CASE TcpStep
    BY <1>1, <1>2, TcpStepAdds, TcpStepStays, TcpNewsAreNoPackets, SilenceKeeps DEF
       TcpAdds, Others, SInv
  <1>3. CASE Network  BY <1>3, NetworkStays, SilenceKeeps DEF SInv
  <1>4. ASSUME NEW x, Adds({}, <<x>>), ~Carries(x), net' = net, wire' = wire, served' = served
        PROVE  SInv'
    BY <1>4, StillKeeps
  <1>5. CASE User
    <2>1. net' = net /\ wire' = wire /\ served' = served
      BY <1>5 DEF User, Send, Cancel, Pause, Resume, Stop, Post
    <2>2. PICK x : Adds({}, <<x>>) /\ ~Carries(x)
      <3>1. UserAdds  BY <1>1, <1>5, UserPosts
      <3>2. CASE UserMakes  BY <3>2 DEF UserMakes, Carries
      <3>3. CASE UserTells  BY <3>3 DEF UserTells, Carries
      <3> QED BY <3>1, <3>2, <3>3 DEF UserAdds
    <2> QED BY <1>4, <2>1, <2>2
  <1>6. CASE ContextStep
    <2> DEFINE x == [op |-> "authInfo", info |-> Head(proto.ctxJobs)]
    <2>1. net' = net /\ wire' = wire /\ served' = served
      BY <1>6 DEF ContextStep
    <2>2. ~Carries(x)  BY DEF Carries
    <2>3. Adds({"key", "ctxJobs"}, <<x>>)
      BY <1>1, <1>6, ContextStepAdds DEF ContextAdds
    <2> HIDE DEF x
    <2>4. \A i \in 1..Len(<<x>>) : ~Carries(<<x>>[i])  BY <2>2
    <2>5. {"key", "ctxJobs"} \subseteq Others \ {"tcpJobs"}  BY DEF Others
    <2> QED BY <2>1, <2>3, <2>4, <2>5, StillKeeps
  <1>7. \A i \in 1..Len(<<>>) : ~Carries(<<>>[i])  OBVIOUS
  <1>8. CASE AuthCompleted
    BY <1>1, <1>7, <1>8, AuthCompletedAdds, StillKeeps DEF AuthCompleted, AuthAdds,
       Others
  <1>9. CASE SaltsLapse \/ LockExpires \/ UNCHANGED vars
    BY <1>1, <1>7, <1>9, NothingAdded, StillKeeps DEF SaltsLapse, LockExpires, vars,
       Others
  <1> QED BY <1>2, <1>3, <1>5, <1>6, <1>8, <1>9

----
(* A packet keeps them. *)

LEMMA ArrivalSpots ==
    ASSUME FInv, NEW t, NEW quality, NEW msgs, Arrives(t, quality, msgs)
    PROVE  /\ t = proto.transport /\ Len(proto.jobs) \in Nat
           /\ Len(proto'.jobs) = Len(proto.jobs) + 1
           /\ \A i \in 1..Len(proto.jobs) : proto'.jobs[i] = proto.jobs[i]
           /\ proto'.jobs[Len(proto.jobs) + 1] =
                 [op |-> "incoming", t |-> t, quality |-> quality, msgs |-> msgs]
           /\ \A i, j : Spot(i, j) =>
                 Spot(i, j)' /\ Said(i, j)' = Said(i, j) /\ proto'.jobs[i] = proto.jobs[i]
           /\ \A i, j : Spot(i, j)' =>
                 \/ Spot(i, j)
                 \/ i = Len(proto.jobs) + 1 /\ j \in 1..Len(msgs) /\ Said(i, j)' = msgs[j]
           /\ \A i : i = Len(proto.jobs) + 1 =>
                 \A j \in 1..Len(msgs) : Spot(i, j)' /\ Said(i, j)' = msgs[j]
  <1> DEFINE x == [op |-> "incoming", t |-> t, quality |-> quality, msgs |-> msgs]
  <1>0. PICK n : n = Len(proto.jobs)  OBVIOUS
  <1>1. t = proto.transport /\ Adds({}, <<x>>)  BY DEF Arrives, Reaches
  <1>2. x.op = "incoming" /\ x.msgs = msgs  OBVIOUS
  <1> HIDE DEF x
  <1>3. Carries(x)  BY <1>2 DEF Carries
  <1>4. n \in Nat  BY <1>0, ProtoQueues, QueueFacts DEF FInv
  <1>5. /\ Len(proto'.jobs) = n + 1
        /\ \A i \in 1..n : proto'.jobs[i] = proto.jobs[i]
        /\ proto'.jobs[n + 1] = x
    BY <1>0, <1>1, <1>4 DEF Adds
  <1>6. 1..Len(proto'.jobs) = 1..n \cup {n + 1} /\ n + 1 \notin 1..n
    BY <1>4, <1>5
  <1>7. ASSUME NEW i, NEW j, i \in 1..n
        PROVE  (Spot(i, j)' <=> Spot(i, j)) /\ Said(i, j)' = Said(i, j)
    BY <1>0, <1>5, <1>6, <1>7 DEF Spot, Said, Carries
  <1>8. ASSUME NEW j
        PROVE  (Spot(n + 1, j)' <=> j \in 1..Len(msgs)) /\ Said(n + 1, j)' = msgs[j]
    BY <1>2, <1>3, <1>4, <1>5 DEF Spot, Said, Carries
  <1>9. ASSUME NEW i, NEW j, Spot(i, j)'
        PROVE  i \in 1..n \/ i = n + 1
    BY <1>6, <1>9 DEF Spot
  <1>10. \A i, j : Spot(i, j) => i \in 1..n  BY <1>0 DEF Spot
  <1> QED BY <1>0, <1>1, <1>4, <1>5, <1>7, <1>8, <1>9, <1>10 DEF x

LEMMA ArrivalKeeps ==
    ASSUME SInv, FInv', NEW t, NEW quality, NEW msgs, NEW gone,
           Arrives(t, quality, msgs), Suits(msgs, quality, gone)
    PROVE  SInv'
  <1>1. /\ proto'.transport = proto.transport /\ proto'.batch = proto.batch
        /\ proto'.session = proto.session /\ proto'.registered = proto.registered
        /\ proto'.requests = proto.requests /\ proto'.context = proto.context
        /\ proto'.tcpJobs = proto.tcpJobs /\ net' = net /\ {} \subseteq Others
    BY AddsLeave DEF Arrives, Adds, Fields
  <1>2. /\ FInv /\ ServedFits /\ PacketsFit /\ MessagesFit /\ WireFits /\ ContainersFit
        /\ ContextsFit /\ NetFits /\ InUse /\ SessionIds /\ KeptUnused /\ InHand
    BY DEF SInv
  <1>3. PICK n : n = Len(proto.jobs) + 1  OBVIOUS
  <1>4. /\ t = proto.transport /\ Len(proto.jobs) \in Nat
        /\ Len(proto'.jobs) = n
        /\ \A i \in 1..Len(proto.jobs) : proto'.jobs[i] = proto.jobs[i]
        /\ proto'.jobs[n] = [op |-> "incoming", t |-> t, quality |-> quality, msgs |-> msgs]
        /\ \A i, j : Spot(i, j) =>
              Spot(i, j)' /\ Said(i, j)' = Said(i, j) /\ proto'.jobs[i] = proto.jobs[i]
        /\ \A i, j : Spot(i, j)' =>
              \/ Spot(i, j)
              \/ i = n /\ j \in 1..Len(msgs) /\ Said(i, j)' = msgs[j]
        /\ \A j \in 1..Len(msgs) : Spot(n, j)' /\ Said(n, j)' = msgs[j]
    BY <1>2, <1>3, ArrivalSpots
  <1>5. /\ served \in Nat /\ served' \in Nat /\ served' >= served
        /\ wire' = wire \ gone /\ proto.session.processed \subseteq 0..served
    BY <1>2 DEF Suits, ServedFits
  <1>6. PacketsFit'
    <2>1. ASSUME NEW i \in 1..Len(proto'.jobs), i # n
          PROVE  i \in 1..Len(proto.jobs) /\ proto'.jobs[i] = proto.jobs[i]
      BY <1>3, <1>4, <2>1
    <2>2. /\ proto'.jobs[n].msgs = msgs /\ proto'.jobs[n].op = "incoming"
          /\ proto'.jobs[n].quality = quality
      BY <1>4
    <2> QED BY <1>2, <2>1, <2>2 DEF PacketsFit, Suits
  <1>7. ServedFits'  BY <1>1, <1>5 DEF ServedFits
  <1>8. WireFits' /\ ContainersFit' /\ ContextsFit' /\ SessionIds' /\ NetFits'
    BY <1>1, <1>2, <1>5 DEF WireFits, ContainersFit, ContextsFit, SessionIds, NetFits, Past, Bound
  <1>9. InUse'  BY <1>1, <1>2, AddsLeave DEF Arrives, InUse
  <1>10. \A s \in wire : Past(proto, s.mid)
    BY <1>2 DEF FInv, Fit, Typed, WireFits, Past
  <1>11. MessagesFit'
    <2>1. ASSUME NEW i, NEW j, Spot(i, j)
          PROVE  Said(i, j).id \in 0..served
      BY <1>2, <2>1 DEF MessagesFit
    <2>2. ASSUME NEW j \in 1..Len(msgs)
          PROVE  msgs[j].id \in 0..served'
      BY <1>5, <2>2 DEF Suits
    <2>3. ASSUME NEW i, NEW j, Spot(i, j)'
          PROVE  Said(i, j)'.id \in 0..served'
      BY <1>4, <1>5, <2>1, <2>2, <2>3
    <2>4. ASSUME NEW i, NEW j, Spot(i, j)', Said(i, j)'.body.k # "update"
          PROVE  /\ Past(proto, Said(i, j)'.body.mid)
                 /\ Said(i, j)'.id \notin proto.session.processed
                 /\ \A k, l : Spot(k, l)' /\ Said(k, l)'.id = Said(i, j)'.id => k = i /\ l = j
      <3>1. CASE Spot(i, j)
        <4>1. Said(i, j)' = Said(i, j)  BY <1>4, <3>1
        <4>2. /\ Past(proto, Said(i, j).body.mid)
              /\ Said(i, j).id \notin proto.session.processed /\ Said(i, j).id \in 0..served
              /\ \A k, l : Spot(k, l) /\ Said(k, l).id = Said(i, j).id => k = i /\ l = j
          BY <1>2, <2>4, <3>1, <4>1 DEF MessagesFit
        <4>3. ASSUME NEW k, NEW l, Spot(k, l)', Said(k, l)'.id = Said(i, j).id
              PROVE  k = i /\ l = j
          <5>1. CASE Spot(k, l)  BY <1>4, <4>2, <4>3, <5>1
          <5>2. CASE ~Spot(k, l)  BY <1>4, <1>5, <4>2, <4>3, <5>2 DEF Suits
          <5> QED BY <5>1, <5>2
        <4> QED BY <4>1, <4>2, <4>3
      <3>2. CASE ~Spot(i, j)
        <4>1. i = n /\ j \in 1..Len(msgs) /\ Said(i, j)' = msgs[j]
          BY <1>4, <2>4, <3>2
        <4>2. /\ msgs[j].id \in (served + 1)..served'
              /\ \E s \in wire : s.mid = msgs[j].body.mid
              /\ \A k \in 1..Len(msgs) : msgs[k].id = msgs[j].id => k = j
          BY <2>4, <4>1 DEF Suits
        <4>3. ASSUME NEW k, NEW l, Spot(k, l)', Said(k, l)'.id = msgs[j].id
              PROVE  k = i /\ l = j
          <5>1. CASE Spot(k, l)  BY <1>4, <1>5, <2>1, <4>2, <4>3, <5>1
          <5>2. CASE ~Spot(k, l)  BY <1>4, <4>1, <4>2, <4>3, <5>2
          <5> QED BY <5>1, <5>2
        <4>4. msgs[j].id \notin proto.session.processed  BY <1>5, <4>2
        <4> QED BY <1>10, <4>1, <4>2, <4>3, <4>4
      <3> QED BY <3>1, <3>2
    <2>5. \A mid : Past(proto, mid) => Past(proto', mid)  BY <1>1 DEF Past
    <2> QED BY <1>1, <2>3, <2>4, <2>5 DEF MessagesFit
  <1>12. KeptUnused'
    <2>1. \A mid : WithChildren(mid)' = WithChildren(mid)
      BY <1>1 DEF WithChildren
    <2>2. ASSUME NEW mid, Unused(mid)
          PROVE  Unused(mid)'
      BY <1>1, <1>4, <1>5, <2>2, WithChildrenIs DEF Unused, Suits, ChildrenOf,
         WithChildren
    <2> QED BY <1>1, <1>2, <2>2 DEF KeptUnused, Bound, Unused
  <1>13. InHand'
    <2>1. ASSUME NEW mid, Told(mid)
          PROVE  Told(mid)'
      BY <1>1, <1>4, <2>1 DEF Told, Ends, Rejected, ChildrenOf
    <2>2. ASSUME NEW f, FailureTold(f)
          PROVE  FailureTold(f)'
      BY <1>3, <1>4, <2>2 DEF FailureTold
    <2>3. ASSUME NEW s \in gone, s.mid.m \in Requests, NEW mid, mid = s.mid
          PROVE  Told(mid)'
      BY <1>1, <1>4, <2>3 DEF Suits, Ends, Rejected, ChildrenOf, Told
    <2>4. ASSUME proto.registered, NEW r \in Bound(proto), proto.context[r].tx # 0
          PROVE  /\ proto.context[r].tx = proto.transport
                 /\ Waits(proto.context[r])'
      <3>1. proto.context[r].tx = proto.transport /\ Waits(proto.context[r])
        BY <1>2, <2>4 DEF InHand
      <3>2. PICK c : c = proto.context[r]  OBVIOUS
      <3>3. \/ \E s \in wire : s.mid = c.mid /\ s.on \in {0, c.tx}
            \/ Told(c.mid)
            \/ FailureTold(c.tx)
        BY <3>1, <3>2 DEF Waits
      <3>4. c.mid.m \in Requests
        BY <1>2, <2>4, <3>2 DEF FInv, Fit, Typed, Contexts, Bound
      <3>5. \/ \E s \in wire' : s.mid = c.mid /\ s.on \in {0, c.tx}
            \/ Told(c.mid)'
            \/ FailureTold(c.tx)'
        BY <1>5, <2>1, <2>2, <2>3, <3>3, <3>4
      <3> QED BY <1>1, <3>1, <3>2, <3>5 DEF Waits, Told, FailureTold
    <2> QED BY <1>1, <2>4 DEF InHand, Bound, Waits, Told, FailureTold
  <1> QED BY <1>6, <1>7, <1>8, <1>9, <1>11, <1>12, <1>13 DEF SInv

\* what the server owes for a message speaks of it, and ends it if it is a request
LEMMA OwedFacts ==
    ASSUME NEW mid, NEW body \in OwedBodies(mid)
    PROVE  /\ body.k # "update" /\ body.mid = mid
           /\ mid.m \in Requests => Ends(proto, body, mid)
BY ProtoAssumption DEF Labels, OwedBodies, Ends

LEMMA UnaskedFacts ==
    ASSUME NEW m \in UnaskedMessages
    PROVE  \/ m.body.k = "update" /\ (m.id = served + 1 \/ m.id \in proto.session.processed)
           \/ /\ m.id = served + 1 /\ m.body.k \in {"acks", "badSalt", "badMsg", "rpcSilent"}
              /\ \E s \in wire : s.mid = m.body.mid
              /\ m.body.k = "rpcSilent" => m.body.mid.m \in Requests
  <1> DEFINE Fresh(body) == [id |-> served + 1, body |-> body]
             about == {s.mid : s \in wire}
  <1>1. \/ m = Fresh([k |-> "update"])
        \/ \E k \in {"acks", "badSalt"}, mid \in about : m = Fresh([k |-> k, mid |-> mid])
        \/ \E mid \in {x \in about : x.m \in Requests} : m = Fresh([k |-> "rpcSilent", mid |-> mid])
        \/ \E mid \in about, c \in Codes : m = Fresh([k |-> "badMsg", mid |-> mid, code |-> c])
        \/ \E id \in proto.session.processed : m = [id |-> id, body |-> [k |-> "update"]]
    BY DEF UnaskedMessages
  <1>2. CASE m = Fresh([k |-> "update"])  BY <1>2
  <1>3. CASE \E k \in {"acks", "badSalt"}, mid \in about : m = Fresh([k |-> k, mid |-> mid])
    BY <1>3
  <1>4. CASE \E mid \in {x \in about : x.m \in Requests} : m = Fresh([k |-> "rpcSilent", mid |-> mid])
    BY <1>4
  <1>5. CASE \E mid \in about, c \in Codes : m = Fresh([k |-> "badMsg", mid |-> mid, code |-> c])
    BY <1>5
  <1>6. CASE \E id \in proto.session.processed : m = [id |-> id, body |-> [k |-> "update"]]
    BY <1>6
  <1> QED BY <1>1, <1>2, <1>3, <1>4, <1>5, <1>6

\* what m settles it ends
LEMMA SettlesFacts ==
    ASSUME ContainersFit, NEW m \in UnaskedMessages, NEW s \in Settles(m)
    PROVE  m.body.k # "update" /\ Ends(proto, m.body, s.mid)
BY WithChildrenIs, UnaskedFacts, ProtoAssumption DEF Settles, Ends, ContainersFit,
   Labels, WithChildren

LEMMA ServerKeepsS ==
    ASSUME SInv, FInv', Server
    PROVE  SInv'
  <1>1. /\ ServedFits /\ ContainersFit /\ served \in Nat
        /\ proto.session.processed \subseteq 0..served
    BY DEF SInv, ServedFits
  <1>2. AnswerArrives \/ MessageArrives \/ NoiseArrives
    BY ServerAdds DEF SInv, FInv
  <1>3. "good" \notin Garbled  BY DEF Garbled
  <1>4. CASE AnswerArrives
    <2>1. PICK t \in DOMAIN net, s \in wire : \E body \in OwedBodies(s.mid) :
             /\ Arrives(t, "good", <<[id |-> served + 1, body |-> body]>>)
             /\ served' = served + 1 /\ wire' = wire \ {s}
      BY <1>4 DEF AnswerArrives
    <2>2. PICK body \in OwedBodies(s.mid) :
             /\ Arrives(t, "good", <<[id |-> served + 1, body |-> body]>>)
             /\ served' = served + 1 /\ wire' = wire \ {s}
      BY <2>1
    <2>3. PICK x : x = [id |-> served + 1, body |-> body]  OBVIOUS
    <2>4. Arrives(t, "good", <<x>>) /\ x.id = served + 1 /\ x.body = body
      BY <2>2, <2>3
    <2>5. /\ body.k # "update" /\ body.mid = s.mid
          /\ s.mid.m \in Requests => Ends(proto, body, s.mid)
      BY OwedFacts
    <2>6. IsQueue(<<x>>) /\ Len(<<x>>) = 1 /\ <<x>>[1] = x  BY TupleFacts
    <2>7. x.id \in (served + 1)..served'  BY <1>1, <2>2, <2>4
    <2>8. Suits(<<x>>, "good", {s})
      BY <1>1, <1>3, <2>2, <2>4, <2>5, <2>6, <2>7 DEF Suits
    <2> QED BY <2>4, <2>8, ArrivalKeeps
  <1>5. CASE MessageArrives
    <2>1. PICK t \in DOMAIN net, m \in UnaskedMessages :
       \/ /\ Arrives(t, "good", <<m>>)
          /\ served' = (IF m.id > served THEN m.id ELSE served)
          /\ wire' = wire \ Settles(m)
       \/ \E s \in wire \ Settles(m) : \E body \in OwedBodies(s.mid) :
             /\ s.mid.m \in Requests /\ s.on \in {0, t}
             /\ Arrives(t, "good", <<m, [id |-> served + 2, body |-> body]>>)
             /\ served' = served + 2 /\ wire' = wire \ (Settles(m) \cup {s})
      BY <1>5 DEF MessageArrives
    <2>2. /\ m.id = served + 1 \/ (m.id \in proto.session.processed /\ m.body.k = "update")
          /\ m.body.k # "update" => \E s \in wire : s.mid = m.body.mid
      BY UnaskedFacts
    <2>3. \A s \in Settles(m) : Ends(proto, m.body, s.mid)
      BY <1>1, SettlesFacts
    <2>4. CASE /\ Arrives(t, "good", <<m>>)
               /\ served' = (IF m.id > served THEN m.id ELSE served)
               /\ wire' = wire \ Settles(m)
      <3>1. IsQueue(<<m>>) /\ Len(<<m>>) = 1 /\ <<m>>[1] = m /\ 1 \in 1..Len(<<m>>)
        <4>1. IsQueue(<<m>>) /\ Len(<<m>>) = 1 /\ <<m>>[1] = m  BY TupleFacts
        <4> QED BY <4>1
      <3>2. ASSUME NEW j \in 1..Len(<<m>>)
            PROVE  j = 1 /\ <<m>>[j] = m
        BY <3>1
      <3>3. /\ served' \in Nat /\ served' >= served
            /\ \/ m.id \in (served + 1)..served'
               \/ m.id \in proto.session.processed /\ m.body.k = "update"
        BY <1>1, <2>2, <2>4
      <3>4. Suits(<<m>>, "good", Settles(m))
        BY <1>3, <2>2, <2>3, <2>4, <3>1, <3>2, <3>3 DEF Suits
      <3> QED BY <2>4, <3>4, ArrivalKeeps
    <2>5. ASSUME NEW s \in wire \ Settles(m), NEW body \in OwedBodies(s.mid),
                 s.mid.m \in Requests, s.on \in {0, t},
                 Arrives(t, "good", <<m, [id |-> served + 2, body |-> body]>>),
                 served' = served + 2, wire' = wire \ (Settles(m) \cup {s})
          PROVE  SInv'
      <3>1. PICK x : x = [id |-> served + 2, body |-> body]  OBVIOUS
      <3>2. Arrives(t, "good", <<m, x>>) /\ x.id = served + 2 /\ x.body = body
        BY <2>5, <3>1
      <3>3. PICK q : q = <<m, x>>  OBVIOUS
      <3>4. IsQueue(q) /\ Len(q) = 2 /\ q[1] = m /\ q[2] = x /\ 1 \in 1..Len(q) /\ 2 \in 1..Len(q)
        <4>1. IsQueue(q) /\ Len(q) = 2 /\ q[1] = m /\ q[2] = x
          BY <3>3, TupleFacts
        <4> QED BY <4>1
      <3>5. body.k # "update" /\ body.mid = s.mid /\ Ends(proto, body, s.mid)
        BY <2>5, OwedFacts
      <3>6. /\ served' \in Nat /\ served' >= served
            /\ x.id \in (served + 1)..served' /\ x.id # m.id
            /\ \/ m.id \in (served + 1)..served'
               \/ m.id \in proto.session.processed /\ m.body.k = "update"
        BY <1>1, <2>2, <2>5, <3>2
      <3>7. \A j \in 1..Len(q) : j = 1 \/ j = 2  BY <3>4
      <3>8. ASSUME NEW j \in 1..Len(q)
            PROVE  /\ \/ q[j].id \in (served + 1)..served'
                      \/ q[j].body.k = "update" /\ q[j].id \in proto.session.processed
                   /\ q[j].body.k # "update" => \E u \in wire : u.mid = q[j].body.mid
                   /\ \A k \in 1..Len(q) : q[k].id = q[j].id => k = j
        BY <2>2, <3>2, <3>4, <3>5, <3>6, <3>7
      <3>9. ASSUME NEW u \in Settles(m) \cup {s}
            PROVE  \E j \in 1..Len(q) : Ends(proto, q[j].body, u.mid)
        BY <2>3, <3>2, <3>4, <3>5, <3>9
      <3>10. Suits(q, "good", Settles(m) \cup {s})
        BY <1>3, <2>5, <3>4, <3>6, <3>8, <3>9 DEF Suits
      <3> QED BY <3>2, <3>3, <3>10, ArrivalKeeps
    <2> QED BY <2>1, <2>4, <2>5
  <1>6. CASE NoiseArrives
    <2>1. PICK t \in DOMAIN net, quality \in Garbled :
             Arrives(t, quality, <<>>) /\ served' = served /\ wire' = wire
      BY <1>6 DEF NoiseArrives
    <2>2. IsQueue(<<>>) /\ Len(<<>>) = 0  BY DEF IsQueue
    <2>3. Suits(<<>>, quality, {})  BY <1>1, <2>1, <2>2 DEF Suits
    <2> QED BY <2>1, <2>3, ArrivalKeeps
  <1> QED BY <1>2, <1>4, <1>5, <1>6

----
(* The ids that are kept and the attempts that wait. *)

LEMMA SInvInit ==
    ASSUME Init
    PROVE  SInv
  <1>1. FInv  BY FInvInit
  <1>2. /\ proto.jobs = <<>> /\ proto.tcpJobs = <<>> /\ proto.transport = 0
        /\ proto.session = NewSession(1) /\ proto.batch = 1
        /\ proto.requests = {} /\ proto.context = [r \in Requests |-> None]
        /\ net = <<>> /\ wire = {} /\ served = 0
    BY DEF Init
  <1>3. Len(<<>>) = 0 /\ DOMAIN net = {} /\ Bound(proto) = {}  BY <1>2 DEF Bound
  <1>4. \A i, j : ~Spot(i, j)  BY <1>2, <1>3 DEF Spot
  <1>5. ServedFits /\ ContainersFit
    BY <1>2 DEF ServedFits, ContainersFit, NewSession
  <1>6. PacketsFit /\ MessagesFit /\ WireFits /\ ContextsFit
    BY <1>2, <1>3, <1>4 DEF PacketsFit, MessagesFit, WireFits, ContextsFit
  <1>7. NetFits /\ InUse  BY <1>2, <1>3 DEF NetFits, InUse
  <1>8. SessionIds /\ KeptUnused /\ InHand
    BY <1>3 DEF SessionIds, KeptUnused, InHand
  <1> QED BY <1>1, <1>5, <1>6, <1>7, <1>8 DEF SInv

LEMMA StepKeepsS ==
    ASSUME SInv, [Next]_vars
    PROVE  SInv'
BY StepFits, ProtoTurns, TurnsKeepS, ServerKeepsS, QuietStepKeepsS DEF SInv, Next

\* The invariant from which the next two theorems follow: whatever the steps of
\* Proto, its transports, the server and the user, SInv holds.
THEOREM SInvHolds == Spec => []SInv
  <1>1. Init => SInv  BY SInvInit
  <1>2. SInv /\ [Next]_vars => SInv'  BY StepKeepsS
  <1> QED BY <1>1, <1>2, PTL DEF Spec

\* what is said in a packet is at a spot of the queue
LEMMA SpotsOfQueue ==
    ASSUME SInv
    PROVE  /\ DOMAIN proto.jobs = 1..Len(proto.jobs)
           /\ \A i \in DOMAIN proto.jobs : Carries(proto.jobs[i]) =>
                 \A j : j \in DOMAIN proto.jobs[i].msgs <=> Spot(i, j)
BY ProtoQueues, QueueFacts DEF SInv, FInv, PacketsFit, Spot

\* A request that RequestMessageService offers again under the id it was
\* prepared with has no message out under that id and no word of it in the
\* queue, and the id belongs to the session in use
\* (RequestMessageService::protoMessageTransaction with a context's messageId).
THEOREM KeptIdsStayUnused == Spec => []KeptIdsAreUnused
  <1>1. SInv => KeptIdsAreUnused
    <2>1. SUFFICES ASSUME SInv, proto.registered, NEW r \in Bound(proto)
                   PROVE  /\ proto.context[r].mid.b >= proto.session.first
                          /\ r \in Offered(proto) => /\ ~InFlight(proto.context[r].mid)
                                                     /\ ~Reported(proto.context[r].mid)
      BY DEF KeptIdsAreUnused
    <2>2. proto.context[r].mid.b >= proto.session.first
      BY <2>1 DEF SInv, SessionIds
    <2>3. ASSUME r \in Offered(proto)
          PROVE  ~InFlight(proto.context[r].mid) /\ ~Reported(proto.context[r].mid)
      <3> DEFINE mid == proto.context[r].mid
      <3>1. Unused(mid)  BY <2>1, <2>3 DEF Offered, Bound, SInv, KeptUnused
      <3> HIDE DEF mid
      <3>2. ~InFlight(mid)  BY <3>1 DEF InFlight, Unused, WithChildren
      <3>3. ASSUME NEW i \in DOMAIN proto.jobs, proto.jobs[i].op \in {"incoming", "messages"},
                   NEW j \in DOMAIN proto.jobs[i].msgs, Said(i, j).body.k # "update"
            PROVE  mid \notin WithChildren(Said(i, j).body.mid)
        BY <2>1, <3>1, <3>3, SpotsOfQueue DEF Carries, Unused
      <3>4. ~Reported(mid)  BY <3>3 DEF Reported, Said
      <3> QED BY <3>2, <3>4 DEF mid
    <2> QED BY <2>2, <2>3
  <1> QED BY <1>1, SInvHolds, PTL

\* A request believed to be in transmission is on the transport in use, and its
\* message is still out, or word of it is in the queue, or the notice that its
\* transmission failed is: no close, reset, rejection or change of transport
\* leaves it waiting for an answer that cannot come (a
\* RequestContext goes only in protoTransactionsMayHaveFailed,
\* protoAllTransactionsMayHaveFailed and protoMessageDeliveryFailed).
THEOREM NoRequestIsStranded == Spec => []NoRequestStranded
  <1>1. SInv => NoRequestStranded
    <2>1. SUFFICES ASSUME SInv, proto.registered, NEW r \in Bound(proto), proto.context[r].tx # 0
                   PROVE  LET c == proto.context[r]
                          IN /\ c.tx = proto.transport
                             /\ \/ InFlight(c.mid) \/ Reported(c.mid)
                                \/ Queued([op |-> "txFailed", t |-> c.tx])
      BY DEF NoRequestStranded
    <2> DEFINE c == proto.context[r]
    <2>2. c.tx = proto.transport /\ Waits(c)  BY <2>1 DEF SInv, InHand
    <2> HIDE DEF c
    <2>3. CASE \E s \in wire : s.mid = c.mid /\ s.on \in {0, c.tx}
      BY <2>2, <2>3 DEF InFlight, c
    <2>4. CASE Told(c.mid)
      <3>1. PICK i, j : Spot(i, j) /\ Ends(proto, Said(i, j).body, c.mid)
        BY <2>4 DEF Told
      <3>2. Said(i, j).body.k # "update" /\ c.mid \in WithChildren(Said(i, j).body.mid)
        BY <3>1, WithChildrenIs DEF Ends
      <3>3. i \in DOMAIN proto.jobs /\ j \in DOMAIN proto.jobs[i].msgs
        BY <2>1, <3>1, SpotsOfQueue DEF Spot
      <3>4. Reported(c.mid)
        BY <3>1, <3>2, <3>3 DEF Reported, Said, Spot, Carries
      <3> QED BY <2>2, <3>4 DEF c
    <2>5. CASE FailureTold(c.tx)
      BY <2>1, <2>2, <2>5, SpotsOfQueue DEF FailureTold, Queued, c
    <2> QED BY <2>2, <2>3, <2>4, <2>5 DEF Waits
  <1> QED BY <1>1, SInvHolds, PTL

----
(* The report of the connection follows the transports. *)

LEMMA MovesReports ==
    ASSUME NEW p, NEW q, NEW said, Level(p, said), Moves(p, q)
    PROVE  Reports(q, said)
BY DEF Moves, Grows, Lives, TcpGrow, Level, Stays, Reports, Succeeds

LEMMA SameReports ==
    ASSUME NEW p, NEW q, NEW said, Reports(p, said),
           q.transport = p.transport, q.created = p.created, q.tcpJobs = p.tcpJobs,
           q.reported = p.reported
    PROVE  Reports(q, said)
BY DEF Reports, Succeeds

LEMMA LevelReports ==
    ASSUME IInv, NEW p, NEW said, Level(p, said)
    PROVE  Reports(p, said)
BY ProtoQueues, QueueFacts DEF Level, Reports, Extended

\* one job more
LEMMA HandsReports ==
    ASSUME IInv, NEW p, NEW q, NEW t, NEW said, Fit(p), Reports(p, said), Hands(p, q, "needs", t)
    PROVE  Reports(q, said)
  <1> DEFINE x == [op |-> "needs", t |-> t]
  <1>1. /\ q.transport = p.transport /\ q.created = p.created /\ q.reported = p.reported
        /\ q.tcpJobs = Append(p.tcpJobs, x)
    BY DEF Hands, Fields
  <1>2. x.op = "needs"  OBVIOUS
  <1> HIDE DEF x
  <1>3. /\ IsQueue(q.tcpJobs) /\ Len(q.tcpJobs) = Len(p.tcpJobs) + 1 /\ Len(p.tcpJobs) \in Nat
        /\ \A i \in 1..Len(p.tcpJobs) : q.tcpJobs[i] = p.tcpJobs[i]
        /\ q.tcpJobs[Len(p.tcpJobs) + 1].op = "needs" /\ Len(proto.tcpJobs) \in Nat
    BY <1>1, <1>2, AppendFacts, QueueFacts, ProtoQueues DEF Fit, Good
  <1>4. \A i \in (Len(proto.tcpJobs) + 1)..Len(q.tcpJobs) :
           \/ q.tcpJobs[i].op = "needs"
           \/ i \in (Len(proto.tcpJobs) + 1)..Len(p.tcpJobs) /\ q.tcpJobs[i] = p.tcpJobs[i]
    BY <1>3
  <1>5. Extended(proto.tcpJobs, q.tcpJobs) /\ Len(proto.tcpJobs) <= Len(p.tcpJobs)
    BY <1>3 DEF Reports, Extended
  <1>6. CASE p.created = proto.created /\ ~Succeeds(proto, p)
    BY <1>1, <1>3, <1>4, <1>5, <1>6 DEF Reports
  <1>7. CASE Succeeds(proto, p)
    <2> DEFINE n == Len(proto.tcpJobs) + 1
    <2>1. PICK i \in n..Len(p.tcpJobs) :
             /\ p.tcpJobs[i] = [op |-> "update", t |-> p.created]
             /\ \A u \in ({proto.transport} \cup (proto.created + 1)..p.created) \ {0, p.created} :
                   \E j \in n..(i - 1) : p.tcpJobs[j] = [op |-> "stop", t |-> u]
      BY <1>7 DEF Succeeds
    <2>2. /\ i \in n..Len(q.tcpJobs) /\ i \in 1..Len(p.tcpJobs)
          /\ \A j \in n..(i - 1) : j \in 1..Len(p.tcpJobs)
      BY <1>3, <2>1
    <2>3. /\ q.tcpJobs[i] = [op |-> "update", t |-> q.created]
          /\ \A u \in ({proto.transport} \cup (proto.created + 1)..q.created) \ {0, q.created} :
                \E j \in n..(i - 1) : q.tcpJobs[j] = [op |-> "stop", t |-> u]
      BY <1>1, <1>3, <2>1, <2>2
    <2>4. \A k \in n..Len(q.tcpJobs) :
             q.tcpJobs[k].op \in {"detach", "stop"} => q.tcpJobs[k].t \in 1..(q.created - 1)
      BY <1>1, <1>4, <1>7 DEF Succeeds
    <2>5. Succeeds(proto, q)  BY <1>1, <1>7, <2>2, <2>3, <2>4 DEF Succeeds
    <2> QED BY <1>5, <2>5 DEF Reports
  <1> QED BY <1>6, <1>7 DEF Reports

LEMMA DropsReports ==
    ASSUME IInv, NEW p, NEW q, NEW said, Level(p, said), Shifts(p, q, 0),
           q.tcpJobs = Retired(p.tcpJobs, p.transport)
    PROVE  Reports(q, said)
  <1> DEFINE x == StopOf(proto.transport)
             s == proto.tcpJobs
  <1>1. q.transport = 0 /\ q.created = proto.created /\ q.reported = "connecting"
    BY DEF Shifts, Level
  <1>2. CASE proto.transport = 0
    BY <1>1, <1>2, ProtoQueues, QueueFacts DEF Level, Retired, Reports, Extended
  <1>3. CASE proto.transport # 0
    <2>1. q.tcpJobs = Append(s, x) /\ x.op = "stop"
      BY <1>3 DEF Level, Retired, StopOf
    <2> HIDE DEF x
    <2>2. /\ IsQueue(q.tcpJobs) /\ Len(q.tcpJobs) = Len(s) + 1 /\ Len(s) \in Nat
          /\ \A i \in 1..Len(s) : q.tcpJobs[i] = s[i]
          /\ q.tcpJobs[Len(s) + 1] = x
      BY <2>1, AppendFacts, QueueFacts, ProtoQueues
    <2>3. Len(s) + 1 \in 1..Len(q.tcpJobs)  BY <2>2
    <2>4. \A i \in (Len(s) + 1)..Len(q.tcpJobs) : q.tcpJobs[i].op # "detach"
      BY <2>1, <2>2
    <2> QED BY <1>1, <2>2, <2>3, <2>4 DEF Reports, Extended, x
  <1> QED BY <1>2, <1>3

LEMMA BaseLevel ==
    ASSUME IInv, NEW b, NEW d, NEW fs, Base(b, d, fs),
           fs \cap {"transport", "created", "tcpJobs"} = {}
    PROVE  /\ Level(b, b.reported)
           /\ "reported" \notin fs => Level(b, proto.reported)
BY DEF Base, Fields, Level

LEMMA HandledReports ==
    ASSUME IInv, NEW p, NEW m, NEW q, NEW said, Fit(p), Level(p, said), Handled(p, m, q)
    PROVE  Reports(q, said)
  <1>1. CASE m.id \in p.session.processed
    BY <1>1, MovesReports DEF Handled, Goes
  <1>2. CASE m.id \notin p.session.processed
    <2>1. PICK s : /\ Goes(Noted(p, m), s)
                   /\ q = (IF m.body.k \in {"rpcResult", "rpcSilent"}
                           THEN ReceiveResult(s, m.body) ELSE s)
      BY <1>2 DEF Handled
    <2>2. Level(Noted(p, m), said) /\ Fit(Noted(p, m))
      BY NotedFit DEF Fields, Level
    <2>3. Reports(s, said) /\ Fit(s)
      BY <2>1, <2>2, MovesReports, GoesIsFit DEF Goes
    <2>4. CASE q = ReceiveResult(s, m.body)
      <3>1. Receives(s, m.body, q)  BY <2>3, <2>4, ReceiveResultReceives
      <3> QED BY <2>3, <3>1, SameReports DEF Receives, Alike
    <2> QED BY <2>1, <2>3, <2>4
  <1> QED BY <1>1, <1>2

LEMMA TurnsReport ==
    ASSUME FInv, Turn, ~Stopped(proto')
    PROVE  (\E sent : Become(proto', sent)) /\ Reports(proto', ReportMade)
  <1>0. IInv  BY DEF FInv
  <1>1. ASSUME NEW b, NEW d, NEW fs, Base(b, d, fs), Fit(b),
               fs \cap {"transport", "created", "tcpJobs", "reported"} = {}
        PROVE  /\ Level(b, proto.reported) /\ Reports(b, proto.reported)
               /\ \A q : Moves(b, q) => Reports(q, proto.reported)
    BY <1>0, <1>1, BaseLevel, MovesReports, LevelReports
  <1>2. ASSUME Calm PROVE Become(proto', {}) /\ Reports(proto', proto.reported)
    BY <1>1, <1>2 DEF Calm, Goes
  <1>3. CASE HeadOp \in {"add", "txFailed"} /\ (AddTurn \/ TxFailedTurn)
    BY <1>1, <1>3, SameReports DEF AddTurn, TxFailedTurn, Recalls, Untouched,
       ReportMade
  <1>4. CASE HeadOp \in {"cancel", "removeService"} /\ (CancelTurn \/ RemoveServiceTurn)
    BY <1>1, <1>4 DEF CancelTurn, RemoveServiceTurn, ReportMade
  <1>5. CASE HeadOp = "connState" /\ ConnStateTurn
    BY <1>0, <1>5, BaseLevel, LevelReports DEF ConnStateTurn, ReportMade
  <1>6. CASE HeadOp = "pause" /\ PauseTurn
    BY <1>0, <1>1, <1>2, <1>6, DropsReports DEF ReportMade, PauseTurn
  <1>7. CASE HeadOp = "stop" /\ StopTurn
    BY <1>2, <1>7 DEF ReportMade, StopTurn, Shifts, Stopped
  <1>8. CASE HeadOp \in {"resume", "authInfo"} /\ (ResumeTurn \/ AuthInfoTurn)
    BY <1>1, <1>2, <1>8 DEF ResumeTurn, AuthInfoTurn, ReportMade
  <1>9. CASE HeadOp = "flush" /\ FlushTurn
    BY <1>0, <1>1, <1>9, MovesIsFit, HandsReports DEF FlushTurn, ReportMade
  <1>10. CASE HeadOp = "incoming" /\ IncomingTurn
    BY <1>1, <1>10 DEF IncomingTurn, Goes, ReportMade
  <1>11. CASE HeadOp = "messages" /\ MessageTurn
    BY <1>0, <1>1, <1>11, HandledReports DEF MessageTurn, ReportMade
  <1>12. CASE HeadOp = "ready" /\ ReadyTurn
    <2>1. CASE Calm  BY <1>2, <1>12, <2>1 DEF ReportMade
    <2>2. ASSUME NEW b, NEW x, NEW rs, NEW tx, Base(b, 1, {}), Fit(b), Binds(b, x, rs, tx)
          PROVE  Reports(x, proto.reported) /\ \A q : Moves(x, q) => Reports(q, proto.reported)
      BY <1>0, <1>1, <2>2, LevelReports, MovesReports DEF Binds, Alike, Level
    <2>3. CASE SendTurn  BY <1>12, <2>2, <2>3 DEF SendTurn, ReportMade
    <2>4. CASE RefusedTurn  BY <1>12, <2>2, <2>4 DEF RefusedTurn, ReportMade
    <2>5. CASE PingTurn  BY <1>12, <2>2, <2>5 DEF PingTurn, Goes, ReportMade
    <2> QED BY <1>12, <2>1, <2>3, <2>4, <2>5 DEF ReadyTurn
  <1> QED BY <1>3, <1>4, <1>5, <1>6, <1>7, <1>8, <1>9, <1>10, <1>11, <1>12 DEF Turn

\* the notices in Proto's queue
LEMMA TurnsSay ==
    ASSUME FInv, Turn
    PROVE  /\ proto'.reported = ReportMade => (SaysUp(proto') <=> SaysUp(proto))
           /\ proto'.reported # "connected" /\ SaysUp(proto') => SaysUp(proto)
  <1>1. PICK d : QueueTurn(d)  BY TurnsQueue
  <1>2. /\ Len(proto.jobs) \in Nat /\ Len(proto.jobs) >= 1 /\ Len(proto'.jobs) \in Nat
        /\ d \in {0, 1} /\ HeadOp = proto.jobs[1].op /\ TheJob = proto.jobs[1]
    BY <1>1, FirstJob, QueueFacts DEF FInv, Turn, QueueTurn
  <1>3. ASSUME NEW j \in 1..Len(proto'.jobs), proto'.jobs[j].op = "connState"
        PROVE  /\ j + d \in 1..Len(proto.jobs) /\ j + d # 1
               /\ proto.jobs[j + d] = proto'.jobs[j]
    BY <1>1, <1>2, <1>3 DEF QueueTurn
  <1>4. ASSUME NEW i \in 1..Len(proto.jobs), proto.jobs[i].op = "connState", i # 1 \/ d = 0
        PROVE  i # 1 /\ i - d \in 1..Len(proto'.jobs) /\ proto'.jobs[i - d] = proto.jobs[i]
    BY <1>1, <1>2, <1>4 DEF QueueTurn
  <1>5. ASSUME NEW i \in 1..Len(proto'.jobs), proto'.jobs[i].op = "connState", proto'.jobs[i].up,
               \A j \in 1..Len(proto'.jobs) : j > i => proto'.jobs[j].op # "connState"
        PROVE  SaysUp(proto)
    <2>1. ASSUME NEW j \in 1..Len(proto.jobs), j > i + d, proto.jobs[j].op = "connState"
          PROVE  FALSE
      <3>0. j # 1 \/ d = 0  BY <1>2, <2>1
      <3>1. j - d \in 1..Len(proto'.jobs) /\ proto'.jobs[j - d] = proto.jobs[j]
        BY <1>4, <2>1, <3>0
      <3>2. j - d > i  BY <1>2, <2>1
      <3> QED BY <1>5, <2>1, <3>1, <3>2
    <2> QED BY <1>3, <1>5, <2>1 DEF SaysUp
  <1>6. ASSUME proto'.reported = ReportMade, SaysUp(proto)
        PROVE  SaysUp(proto')
    <2>1. ASSUME NEW i \in 1..Len(proto.jobs), proto.jobs[i].op = "connState", proto.jobs[i].up,
                 \A j \in 1..Len(proto.jobs) : j > i => proto.jobs[j].op # "connState"
          PROVE  SaysUp(proto')
      <3>1. CASE i = 1  BY <1>2, <1>3, <1>6, <2>1, <3>1 DEF ReportMade, SaysUp
      <3>2. CASE i # 1
        <4>1. i - d \in 1..Len(proto'.jobs) /\ proto'.jobs[i - d] = proto.jobs[i]
          BY <1>4, <2>1, <3>2
        <4>2. ASSUME NEW j \in 1..Len(proto'.jobs), j > i - d, proto'.jobs[j].op = "connState"
              PROVE  FALSE
          <5>1. j + d \in 1..Len(proto.jobs) /\ proto.jobs[j + d] = proto'.jobs[j]
            BY <1>3, <4>2
          <5>2. j + d > i  BY <1>2, <4>2
          <5> QED BY <2>1, <4>2, <5>1, <5>2
        <4> QED BY <2>1, <4>1, <4>2 DEF SaysUp
      <3> QED BY <3>1, <3>2
    <2>2. ASSUME proto.reported = "connected", \A j \in 1..Len(proto.jobs) : proto.jobs[j].op # "connState"
          PROVE  SaysUp(proto')
      BY <1>2, <1>3, <1>6, <2>2 DEF ReportMade, SaysUp
    <2> QED BY <1>6, <2>1, <2>2 DEF SaysUp
  <1>7. ASSUME proto'.reported = "connected", proto'.reported = ReportMade,
               \A j \in 1..Len(proto'.jobs) : proto'.jobs[j].op # "connState"
        PROVE  SaysUp(proto)
    <2>1. \A i \in 1..Len(proto.jobs) : proto.jobs[i].op = "connState" => i = 1 /\ d = 1
      BY <1>4, <1>7, <1>2
    <2>2. CASE HeadOp = "connState"
      <3>1. TheJob.up  BY <1>7, <2>2 DEF ReportMade
      <3>2. /\ 1 \in 1..Len(proto.jobs) /\ proto.jobs[1].op = "connState" /\ proto.jobs[1].up
            /\ \A j \in 1..Len(proto.jobs) : j > 1 => proto.jobs[j].op # "connState"
        BY <1>2, <2>1, <2>2, <3>1
      <3> QED BY <3>2 DEF SaysUp
    <2>3. CASE HeadOp # "connState"
      BY <1>2, <1>7, <2>1, <2>3 DEF SaysUp, ReportMade
    <2> QED BY <2>2, <2>3
  <1>8. SaysUp(proto') => \/ SaysUp(proto)
                          \/ /\ proto'.reported = "connected"
                             /\ \A j \in 1..Len(proto'.jobs) : proto'.jobs[j].op # "connState"
    BY <1>5 DEF SaysUp
  <1> QED BY <1>6, <1>7, <1>8

LEMMA TurnsKeepReport ==
    ASSUME SInv, FInv', ReportFollows, Turn, ~Stopped(proto')
    PROVE  ReportFollows'
  <1> DEFINE s == proto.tcpJobs
             n == Len(proto.tcpJobs)
             m == Len(proto'.tcpJobs)
  <1>1. /\ Reports(proto', ReportMade)
        /\ net' = [t \in DOMAIN net \cup (proto.created + 1)..proto'.created |->
                      IF t \in DOMAIN net THEN net[t] ELSE NewTransport]
    BY TurnsReport DEF SInv, Become
  <1>2. /\ DOMAIN net \subseteq 1..proto.created /\ proto.created \in Nat
        /\ proto'.created \in Nat /\ proto.transport \in Nat /\ n \in Nat /\ m \in Nat
        /\ \A i \in 1..n : s[i].op \in {"detach", "stop"} => s[i].t \in 1..proto.created
    BY SMTT(30), ProtoQueues, QueueFacts DEF SInv, FInv, Fit, Good, Typed, InUse, IInv, Sound, Core, Bounds
  <1>3. n <= m /\ \A i \in 1..n : i \in 1..m /\ proto'.tcpJobs[i] = s[i]
    BY <1>1, <1>2 DEF Reports, Extended
  <1>4. OthersEnd /\ NewestIsHeard /\ (IsAsked \/ IsAlone)  BY DEF ReportFollows
  <1>5. CASE Succeeds(proto, proto')
    <2> DEFINE c == proto'.created
    <2>1. /\ proto'.transport = c /\ proto.created < c
          /\ \A i \in (n + 1)..m :
                proto'.tcpJobs[i].op \in {"detach", "stop"} => proto'.tcpJobs[i].t \in 1..(c - 1)
      BY <1>5 DEF Succeeds
    <2>2. PICK i \in (n + 1)..m :
             /\ proto'.tcpJobs[i] = UpdateOf(c)
             /\ \A t \in ({proto.transport} \cup (proto.created + 1)..c) \ {0, c} :
                   \E j \in (n + 1)..(i - 1) : proto'.tcpJobs[j] = StopOf(t)
      BY <1>5 DEF Succeeds, UpdateOf, StopOf
    <2>3. /\ DOMAIN net' = DOMAIN net \cup (proto.created + 1)..c /\ c \in DOMAIN net'
          /\ net'[c].attached /\ c \notin DOMAIN net /\ 0 \notin DOMAIN net
      BY <1>1, <1>2, <2>1 DEF NewTransport
    <2>4. ASSUME NEW t \in DOMAIN net', t # c
          PROVE  \E j \in 1..(i - 1) : proto'.tcpJobs[j] = StopOf(t)
      <3>1. CASE t \in DOMAIN net /\ t # proto.transport
        <4>1. PICK j \in 1..n : s[j] = StopOf(t)  BY <1>4, <3>1 DEF OthersEnd
        <4> QED BY <1>2, <1>3, <4>1
      <3>2. CASE ~(t \in DOMAIN net /\ t # proto.transport)
        <4>1. t \in ({proto.transport} \cup (proto.created + 1)..c) \ {0, c}
          BY <1>2, <2>1, <2>3, <2>4, <3>2
        <4>2. PICK j \in (n + 1)..(i - 1) : proto'.tcpJobs[j] = StopOf(t)
          BY <2>2, <4>1
        <4> QED BY <1>2, <4>2
      <3> QED BY <3>1, <3>2
    <2>5. ASSUME NEW j \in 1..m, proto'.tcpJobs[j].op \in {"detach", "stop"}
          PROVE  proto'.tcpJobs[j].t # c
      <3>1. CASE j \in 1..n
        <4>1. proto'.tcpJobs[j].t \in 1..proto.created
          BY <1>2, <1>3, <2>5, <3>1
        <4> QED BY <1>2, <2>1, <4>1
      <3>2. CASE j \in (n + 1)..m
        <4>1. proto'.tcpJobs[j].t \in 1..(c - 1)  BY <2>1, <2>5, <3>2
        <4> QED BY <1>2, <4>1
      <3> QED BY <1>2, <3>1, <3>2
    <2>6. OthersEnd'  BY <1>2, <2>1, <2>2, <2>4 DEF OthersEnd
    <2>7. NewestIsHeard'  BY <2>3, <2>5 DEF NewestIsHeard
    <2>9. \A j \in 1..(i - 1) : proto'.tcpJobs[j].op = "stop" => proto'.tcpJobs[j].t # c
      BY <1>2, <2>2, <2>5
    <2>10. i \in 1..m  BY <1>2, <2>2
    <2>11. IsAsked'  BY <2>2, <2>3, <2>4, <2>9, <2>10 DEF IsAsked
    <2> QED BY <2>6, <2>7, <2>11 DEF ReportFollows
  <1>6. CASE ~Succeeds(proto, proto')
    <2>1. /\ proto'.created = proto.created
          /\ \A i \in (n + 1)..m : proto'.tcpJobs[i].op # "detach"
          /\ \/ proto'.transport = proto.transport /\ proto'.reported = ReportMade
             \/ /\ proto'.transport = 0 /\ proto'.reported = "connecting"
                /\ proto.transport # 0 =>
                      \E i \in 1..m : proto'.tcpJobs[i] = StopOf(proto.transport)
      BY <1>1, <1>6 DEF Reports
    <2>2. DOMAIN net' = DOMAIN net /\ (\A t \in DOMAIN net : net'[t] = net[t]) /\ 0 \notin DOMAIN net
      <3>1. (proto.created + 1)..proto'.created = {}  BY <1>2, <2>1
      <3>2. net' = [t \in DOMAIN net |-> IF t \in DOMAIN net THEN net[t] ELSE NewTransport]
        BY <1>1, <3>1
      <3> QED BY <1>2, <3>2
    <2>3. OthersEnd'  BY <1>2, <1>3, <1>4, <2>1, <2>2 DEF OthersEnd
    <2>4. NewestIsHeard'  BY SMTT(30), <1>2, <1>3, <1>4, <2>1, <2>2 DEF NewestIsHeard
    <2>5. CASE IsAsked
      <3>1. PICK i \in 1..n :
              /\ s[i] = UpdateOf(proto.created) /\ proto.created \in DOMAIN net
              /\ \A j \in 1..(i - 1) : s[j].op = "stop" => s[j].t # proto.created
              /\ \A t \in DOMAIN net \ {proto.created} :
                    \E j \in 1..(i - 1) : s[j] = StopOf(t)
        BY <2>5 DEF IsAsked
      <3>2. i \in 1..m /\ \A j \in 1..(i - 1) : j \in 1..n  BY <1>2, <1>3, <3>1
      <3>3. /\ proto'.tcpJobs[i] = UpdateOf(proto'.created) /\ proto'.created \in DOMAIN net'
            /\ \A j \in 1..(i - 1) :
                  proto'.tcpJobs[j].op = "stop" => proto'.tcpJobs[j].t # proto'.created
        BY <1>3, <2>1, <2>2, <3>1, <3>2
      <3>4. ASSUME NEW t \in DOMAIN net' \ {proto'.created}
            PROVE  \E j \in 1..(i - 1) : proto'.tcpJobs[j] = StopOf(t)
        BY <1>3, <2>1, <2>2, <3>1, <3>2
      <3>5. IsAsked'  BY <3>2, <3>3, <3>4 DEF IsAsked
      <3> QED BY <2>3, <2>4, <3>5 DEF ReportFollows
    <2>6. CASE IsAlone
      BY <2>1, <2>2, <2>3, <2>4, <2>6, TurnsSay DEF SInv, IsAlone, IsOpen,
         ReportFollows
    <2> QED BY <1>4, <2>5, <2>6
  <1> QED BY <1>5, <1>6

----
(* The steps beside Proto's queue. *)

LEMMA AddsSay ==
    ASSUME IInv, NEW fs, NEW js, Adds(fs, js), "reported" \notin fs
    PROVE  /\ Silent(js) => (SaysUp(proto') <=> SaysUp(proto))
           /\ \A k \in 1..Len(js) :
                 js[k].op = "connState" /\ (\A l \in 1..Len(js) : l > k => js[l].op # "connState") =>
                    (js[k].up => SaysUp(proto')) /\ (SaysUp(proto') => js[k].up)
  <1> DEFINE n == Len(proto.jobs)
  <1>1. /\ n \in Nat /\ Len(js) \in Nat /\ Len(proto'.jobs) = n + Len(js)
        /\ \A i \in 1..n : proto'.jobs[i] = proto.jobs[i]
        /\ \A i \in 1..Len(js) : proto'.jobs[n + i] = js[i]
        /\ proto'.reported = proto.reported
    BY ProtoQueues, QueueFacts DEF Adds, Fields
  <1> HIDE DEF n
  <1>2. ASSUME NEW i \in 1..Len(proto'.jobs)
        PROVE  i \in 1..n \/ (i - n \in 1..Len(js) /\ proto'.jobs[i] = js[i - n] /\ i > n)
    BY <1>1
  <1>3. ASSUME Silent(js)
        PROVE  SaysUp(proto') <=> SaysUp(proto)
    <2>1. \A i \in 1..Len(proto'.jobs) :
             proto'.jobs[i].op = "connState" => i \in 1..n /\ proto'.jobs[i] = proto.jobs[i]
      BY <1>1, <1>2, <1>3 DEF Silent
    <2>2. \A i \in 1..n : i \in 1..Len(proto'.jobs) /\ proto'.jobs[i] = proto.jobs[i]
      BY <1>1
    <2>3. ASSUME SaysUp(proto) PROVE SaysUp(proto')
      BY ZenonT(30), <1>1, <2>1, <2>2, <2>3 DEF SaysUp, n
    <2>4. ASSUME NEW i \in 1..Len(proto'.jobs),
                 proto'.jobs[i].op = "connState", proto'.jobs[i].up,
                 \A j \in 1..Len(proto'.jobs) : j > i => proto'.jobs[j].op # "connState"
          PROVE  SaysUp(proto)
      BY <2>1, <2>2, <2>4 DEF SaysUp, n
    <2>5. (\A j \in 1..Len(proto'.jobs) : proto'.jobs[j].op # "connState") =>
             \A j \in 1..n : proto.jobs[j].op # "connState"
      BY <2>2
    <2> QED BY <1>1, <2>3, <2>4, <2>5 DEF SaysUp, n
  <1>4. ASSUME NEW k \in 1..Len(js), js[k].op = "connState",
               \A l \in 1..Len(js) : l > k => js[l].op # "connState"
        PROVE  (js[k].up => SaysUp(proto')) /\ (SaysUp(proto') => js[k].up)
    <2>1. n + k \in 1..Len(proto'.jobs) /\ proto'.jobs[n + k] = js[k]  BY <1>1
    <2>2. ASSUME NEW j \in 1..Len(proto'.jobs), j > n + k
          PROVE  proto'.jobs[j].op # "connState"
      <3>1. j - n \in 1..Len(js) /\ proto'.jobs[j] = js[j - n]
        BY <1>1, <1>2, <2>2
      <3>2. j - n > k  BY <1>1, <2>2
      <3> QED BY <1>4, <3>1, <3>2
    <2>3. ASSUME NEW i \in 1..Len(proto'.jobs), proto'.jobs[i].op = "connState",
                 \A j \in 1..Len(proto'.jobs) : j > i => proto'.jobs[j].op # "connState"
          PROVE  i = n + k
      BY <1>1, <1>4, <2>1, <2>2, <2>3
    <2>4. js[k].up => SaysUp(proto')  BY <1>4, <2>1, <2>2 DEF SaysUp
    <2>5. SaysUp(proto') => js[k].up  BY <1>4, <2>1, <2>3 DEF SaysUp
    <2> QED BY <2>4, <2>5
  <1> QED BY <1>3, <1>4

\* what is said last counts
LEMMA LastSays ==
    ASSUME IInv, NEW fs, NEW c, NEW x, c.op = "connState", x.op # "connState", "reported" \notin fs,
           Adds(fs, <<c>>) \/ Adds(fs, <<c, x>>)
    PROVE  (c.up => SaysUp(proto')) /\ (SaysUp(proto') => c.up)
BY AddsSay, TupleFacts

\* no transport goes or changes its delegate, and no job for them is taken
LEMMA SteadyKeepsReport ==
    ASSUME SInv, ReportFollows, NEW fs, NEW js, Adds(fs, js), fs \subseteq Others \ {"tcpJobs"},
           DOMAIN net' = DOMAIN net,
           \A t \in DOMAIN net : net'[t].attached = net[t].attached,
           DOMAIN net \subseteq {proto.created} /\ (SaysUp(proto) => IsOpen)
              /\ (proto.transport # 0 /\ IsOpen => SaysUp(proto)) =>
                 (SaysUp(proto') => IsOpen') /\ (proto.transport # 0 /\ IsOpen' => SaysUp(proto'))
    PROVE  ReportFollows'
  <1>1. /\ proto'.tcpJobs = proto.tcpJobs /\ proto'.created = proto.created
        /\ proto'.transport = proto.transport
    BY DEF Adds, Fields, Others
  <1>2. OthersEnd' /\ NewestIsHeard'
    BY <1>1 DEF ReportFollows, OthersEnd, NewestIsHeard
  <1>3. CASE IsAsked  BY <1>1, <1>2, <1>3 DEF ReportFollows, IsAsked
  <1>4. CASE IsAlone  BY <1>1, <1>2, <1>4 DEF ReportFollows, IsAlone
  <1> QED BY <1>3, <1>4 DEF ReportFollows

\* nothing is said and no connection changes
LEMMA SilenceKeepsReport ==
    ASSUME SInv, ReportFollows, NEW fs, NEW js, Adds(fs, js), fs \subseteq Others \ {"tcpJobs"},
           Silent(js), net' = net
    PROVE  ReportFollows'
BY AddsSay, SteadyKeepsReport DEF Adds, Fields, Others, SInv, FInv, IsOpen

LEMMA OneSilent ==
    ASSUME NEW x, x.op # "connState"
    PROVE  Silent(<<x>>)
BY TupleFacts DEF Silent

\* the other steps change no transport and say nothing of one
LEMMA QuietAdds ==
    ASSUME IInv, Server \/ User \/ ContextStep \/ AuthCompleted \/ SaltsLapse \/ LockExpires \/ UNCHANGED vars
    PROVE  \E fs, js : /\ Adds(fs, js) /\ fs \subseteq Others \ {"tcpJobs"} /\ net' = net
                       /\ \A i \in 1..Len(js) : js[i].op \notin {"connState", "ready"}
  <1>1. ASSUME NEW x, NEW fs, Adds(fs, <<x>>), fs \subseteq Others \ {"tcpJobs"},
               x.op \notin {"connState", "ready"}
        PROVE  \E gs, js : /\ Adds(gs, js) /\ gs \subseteq Others \ {"tcpJobs"}
                           /\ \A i \in 1..Len(js) : js[i].op \notin {"connState", "ready"}
    BY <1>1, TupleFacts
  <1>2. CASE Server
    <2>1. ASSUME NEW t, NEW quality, NEW msgs, Arrives(t, quality, msgs)
          PROVE  net' = net /\ \E x : Adds({}, <<x>>) /\ x.op \notin {"connState", "ready"}
      <3> DEFINE x == [op |-> "incoming", t |-> t, quality |-> quality, msgs |-> msgs]
      <3>1. Adds({}, <<x>>) /\ net' = net  BY <2>1 DEF Arrives
      <3>2. x.op \notin {"connState", "ready"}  OBVIOUS
      <3> HIDE DEF x
      <3> QED BY <3>1, <3>2
    <2>2. AnswerArrives \/ MessageArrives \/ NoiseArrives  BY <1>2, ServerAdds
    <2> QED BY <1>1, <2>1, <2>2 DEF AnswerArrives, MessageArrives, NoiseArrives
  <1>3. CASE User
    <2>1. net' = net  BY <1>3 DEF User, Send, Cancel, Pause, Resume, Stop, Post
    <2>2. PICK x : Adds({}, <<x>>) /\ x.op \notin {"connState", "ready"}
      <3>1. UserAdds  BY <1>3, UserPosts
      <3>2. CASE UserMakes  BY <3>2 DEF UserMakes
      <3>3. CASE UserTells  BY <3>3 DEF UserTells
      <3> QED BY <3>1, <3>2, <3>3 DEF UserAdds
    <2> QED BY <1>1, <2>1, <2>2
  <1>4. CASE ContextStep
    <2> DEFINE x == [op |-> "authInfo", info |-> Head(proto.ctxJobs)]
    <2>1. net' = net /\ Adds({"key", "ctxJobs"}, <<x>>)
      BY <1>4, ContextStepAdds DEF ContextStep, ContextAdds
    <2>2. x.op \notin {"connState", "ready"} /\ {"key", "ctxJobs"} \subseteq Others \ {"tcpJobs"}
      BY DEF Others
    <2> HIDE DEF x
    <2> QED BY <1>1, <2>1, <2>2
  <1>5. \A i \in 1..Len(<<>>) : <<>>[i].op \notin {"connState", "ready"}
    OBVIOUS
  <1>6. CASE AuthCompleted
    <2>1. Adds({"infos", "ctxJobs"}, <<>>) /\ {"infos", "ctxJobs"} \subseteq Others \ {"tcpJobs"} /\ net' = net
      BY <1>6, AuthCompletedAdds DEF AuthCompleted, AuthAdds, Others
    <2> QED BY <1>5, <2>1
  <1>7. CASE SaltsLapse \/ LockExpires \/ UNCHANGED vars
    <2>1. net' = net /\ (Adds({}, <<>>) \/ Adds({"lock"}, <<>>)) /\ {"lock"} \subseteq Others \ {"tcpJobs"}
      BY <1>7, NothingAdded DEF SaltsLapse, LockExpires, vars, Others
    <2> QED BY <1>5, <2>1
  <1> QED BY <1>2, <1>3, <1>4, <1>6, <1>7

LEMMA QuietStepKeepsReport ==
    ASSUME SInv, ReportFollows,
           Server \/ User \/ ContextStep \/ AuthCompleted \/ SaltsLapse \/ LockExpires \/ UNCHANGED vars
    PROVE  ReportFollows'
  <1>1. PICK fs, js : /\ Adds(fs, js) /\ fs \subseteq Others \ {"tcpJobs"} /\ net' = net
                      /\ \A i \in 1..Len(js) : js[i].op \notin {"connState", "ready"}
    BY QuietAdds DEF SInv, FInv
  <1>2. Silent(js)  BY <1>1 DEF Silent
  <1> QED BY <1>1, <1>2, SilenceKeepsReport

\* the connection of t opens, closes or is tried again
LEMMA NetworkKeepsReport ==
    ASSUME SInv, ReportFollows, Network
    PROVE  ReportFollows'
  <1>1. IInv  BY DEF SInv, FInv
  <1>2. PICK t \in DOMAIN net : ConnectionOpened(t) \/ ConnectionClosed(t) \/ BackoffTimer(t)
    BY DEF Network
  <1>3. /\ DOMAIN net' = DOMAIN net
        /\ \A u \in DOMAIN net : net'[u].attached = net[u].attached
        /\ ConnectionOpened(t) => net'[t].conn = "open"
        /\ ConnectionClosed(t) \/ BackoffTimer(t) => net'[t].conn # "open"
    BY <1>2, NetworkNet
  <1>4. ASSUME DOMAIN net \subseteq {proto.created}
        PROVE  t = proto.created /\ net[t].attached
    BY <1>2, <1>4 DEF ReportFollows, NewestIsHeard
  <1>5. CASE ConnectionOpened(t)
    <2> DEFINE x == [op |-> "ready", t |-> t, ping |-> TRUE]
               js == <<ConnState(TRUE), x>>
    <2>1. Adds({}, Heard(t, js))  BY <1>1, <1>5, ConnectionOpenedAdds
    <2>2. x.op # "connState" /\ ConnState(TRUE).op = "connState" /\ ConnState(TRUE).up
      BY DEF ConnState
    <2> HIDE DEF x
    <2>4. net[t].attached => SaysUp(proto')
      BY <1>1, <2>1, <2>2, LastSays DEF Heard
    <2>5. DOMAIN net \subseteq {proto.created} => SaysUp(proto') /\ IsOpen'
      BY <1>2, <1>3, <1>4, <1>5, <2>1, <2>4 DEF IsOpen, Adds, Fields
    <2> QED BY <1>3, <2>1, <2>5, SteadyKeepsReport
  <1>6. CASE ConnectionClosed(t)
    <2> DEFINE x == [op |-> "txFailed", t |-> t]
               js == <<ConnState(FALSE), x>>
    <2>1. Adds({}, Heard(t, js))  BY <1>1, <1>6, ConnectionClosedAdds
    <2>2. x.op # "connState" /\ ConnState(FALSE).op = "connState" /\ ~ConnState(FALSE).up
      BY DEF ConnState
    <2> HIDE DEF x
    <2>4. net[t].attached => ~SaysUp(proto')
      BY <1>1, <2>1, <2>2, LastSays DEF Heard
    <2>6. DOMAIN net \subseteq {proto.created} => ~SaysUp(proto') /\ ~IsOpen'
      BY <1>2, <1>3, <1>4, <1>6, <2>1, <2>4 DEF IsOpen, Adds, Fields
    <2> QED BY <1>3, <2>1, <2>6, SteadyKeepsReport
  <1>7. CASE BackoffTimer(t)
    BY <1>1, <1>2, <1>3, <1>7, NothingAdded, SteadyKeepsReport DEF BackoffTimer,
       Starting, ConnectionOpened, IsOpen, Others
  <1> QED BY <1>2, <1>5, <1>6, <1>7

\* the only transport is the newest one, and its state is told when it is asked
\* for or stopped
LEMMA TcpNewsSay ==
    ASSUME SInv, ReportFollows, TcpStep, DOMAIN net \subseteq {proto.created}
    PROVE  IF TcpTarget \in DOMAIN net /\ TcpOp = "update"
           THEN (SaysUp(proto') <=> IsOpen) /\ (IsOpen' <=> IsOpen)
           ELSE IF TcpTarget \in DOMAIN net /\ TcpOp = "stop"
           THEN proto.transport = 0 /\ (SaysUp(proto') => SaysUp(proto) /\ ~IsOpen)
           ELSE (SaysUp(proto') <=> SaysUp(proto)) /\ (IsOpen' <=> IsOpen)
  <1>1. TcpAdds /\ IInv  BY TcpStepAdds DEF SInv, FInv
  <1>2. Adds({"tcpJobs"}, TcpNews) /\ proto'.created = proto.created
    BY <1>1 DEF TcpAdds, Adds, Fields
  <1>3. TcpOp # "stop" => (IsOpen' <=> IsOpen)  BY <1>2, TcpStepNet DEF IsOpen
  <1>4. ASSUME Silent(TcpNews) PROVE SaysUp(proto') <=> SaysUp(proto)
    BY <1>1, <1>2, <1>4, AddsSay
  <1>5. \A up : ConnState(up).op = "connState" /\ ConnState(up).up = up
    BY DEF ConnState
  <1>6. TcpTarget \in DOMAIN net => TcpTarget = proto.created /\ net[TcpTarget].attached
    BY DEF ReportFollows, NewestIsHeard
  <1>7. Silent(<<>>) /\ \A t : Silent(Heard(t, <<ReadyJob(t)>>))
    BY OneSilent DEF Silent, Heard, ReadyJob
  <1>8. CASE TcpTarget \notin DOMAIN net
    BY <1>2, <1>4, <1>7, <1>8, TcpStepNet DEF IsOpen, TcpNews
  <1>9. CASE TcpTarget \in DOMAIN net /\ TcpOp = "update"
    <2>1. Adds({"tcpJobs"}, <<ConnState(net[TcpTarget].conn = "open")>>)
      BY <1>2, <1>6, <1>9 DEF TcpNews, Heard
    <2>2. SaysUp(proto') <=> IsOpen
      <3> DEFINE x == [op |-> "ready"]
      <3>1. x.op # "connState"  OBVIOUS
      <3>2. PICK c : c = ConnState(net[TcpTarget].conn = "open")  OBVIOUS
      <3>3. c.up <=> IsOpen  BY <1>5, <1>6, <1>9, <3>2 DEF IsOpen
      <3> HIDE DEF x
      <3> QED BY <1>1, <1>5, <2>1, <3>1, <3>2, <3>3, LastSays
    <2> QED BY <1>3, <1>6, <1>9, <2>2
  <1>10. CASE TcpTarget \in DOMAIN net /\ TcpOp = "stop"
    <2>1. proto.transport = 0
      BY <1>6, <1>10, TcpQueueShifts DEF SInv, InUse, FInv, Fit, Typed
    <2>2. CASE HasConnection(TcpTarget)
      <3>1. Adds({"tcpJobs"}, <<ConnState(FALSE)>>)
        BY <1>2, <1>6, <1>10, <2>2 DEF TcpNews, Heard
      <3> DEFINE x == [op |-> "ready"]
      <3>2. x.op # "connState"  OBVIOUS
      <3> HIDE DEF x
      <3>3. ~SaysUp(proto')  BY <1>1, <1>5, <3>1, <3>2, LastSays
      <3> QED BY <1>6, <1>10, <2>1, <3>3
    <2>3. CASE ~HasConnection(TcpTarget)
      BY <1>4, <1>6, <1>7, <1>10, <2>1, <2>3 DEF TcpNews, HasConnection, IsOpen
    <2> QED BY <2>2, <2>3
  <1>11. CASE TcpTarget \in DOMAIN net /\ TcpOp \notin {"update", "stop"}
    BY <1>3, <1>4, <1>7, <1>11 DEF TcpNews
  <1> QED BY <1>8, <1>9, <1>10, <1>11

\* one job of TcpTransport::queue
LEMMA TcpStepKeepsReport ==
    ASSUME SInv, ReportFollows, TcpStep
    PROVE  ReportFollows'
  <1> DEFINE n == Len(proto.tcpJobs)
             s == proto.tcpJobs
             m == Len(proto'.tcpJobs)
  <1>1. /\ n \in Nat /\ n >= 1 /\ TcpOp = s[1].op /\ TcpTarget = s[1].t
        /\ \A k \in 2..n : k - 1 \in 1..m /\ proto'.tcpJobs[k - 1] = s[k]
        /\ \A k \in 1..m :
              \/ k + 1 \in 2..n /\ proto'.tcpJobs[k] = s[k + 1]
              \/ proto'.tcpJobs[k].op = "flush"
    BY TcpQueueShifts
  <1>2. /\ proto'.created = proto.created /\ proto'.transport = proto.transport
        /\ DOMAIN net' \subseteq DOMAIN net
    BY TcpStepAdds, TcpStepNet DEF SInv, FInv, TcpAdds, Adds, Fields
  <1>3. ASSUME NEW t \in DOMAIN net', s[1] = StopOf(t)
        PROVE  FALSE
    BY <1>1, <1>3, TcpStepNet DEF StopOf
  <1>4. OthersEnd'
    <2>1. ASSUME NEW t \in DOMAIN net', t # proto.transport
          PROVE  \E i \in 1..m : proto'.tcpJobs[i] = StopOf(t)
      <3>1. PICK i \in 1..n : s[i] = StopOf(t)
        BY <1>2, <2>1 DEF ReportFollows, OthersEnd
      <3>2. i \in 2..n  BY <1>1, <1>3, <2>1, <3>1
      <3> QED BY <1>1, <3>1, <3>2
    <2> QED BY <1>2, <2>1 DEF OthersEnd
  <1>5. NewestIsHeard'
    <2>1. ASSUME NEW i \in 1..m, proto'.tcpJobs[i].op = "detach"
          PROVE  proto'.tcpJobs[i].t # proto.created
      <3>1. i + 1 \in 1..n /\ proto'.tcpJobs[i] = s[i + 1]  BY <1>1, <2>1
      <3> QED BY <2>1, <3>1 DEF ReportFollows, NewestIsHeard
    <2>0. 1 \in 1..n  BY <1>1
    <2>2. TcpOp = "detach" => TcpTarget # proto.created
      BY <1>1, <2>0 DEF ReportFollows, NewestIsHeard
    <2>3. proto.created \in DOMAIN net' => net'[proto.created].attached
      BY <1>2, <2>2, TcpStepNet DEF ReportFollows, NewestIsHeard
    <2> QED BY <1>2, <2>1, <2>3 DEF NewestIsHeard
  <1>6. ASSUME DOMAIN net \subseteq {proto.created},
               IsAlone \/ (TcpOp = "update" /\ TcpTarget \in DOMAIN net)
        PROVE  IsAlone'
    <2>1. DOMAIN net' \subseteq {proto'.created}  BY <1>2, <1>6
    <2>2. CASE TcpTarget \in DOMAIN net /\ TcpOp = "update"
      BY <1>2, <1>6, <2>1, <2>2, TcpNewsSay DEF IsAlone
    <2>3. CASE ~(TcpTarget \in DOMAIN net /\ TcpOp = "update")
      BY <1>2, <1>6, <2>1, <2>3, TcpNewsSay DEF IsAlone
    <2> QED BY <2>2, <2>3
  <1>7. ASSUME IsAsked
        PROVE  IsAsked' \/ IsAlone'
    <2>1. PICK i \in 1..n :
             /\ s[i] = UpdateOf(proto.created) /\ proto.created \in DOMAIN net
             /\ \A j \in 1..(i - 1) : s[j].op = "stop" => s[j].t # proto.created
             /\ \A t \in DOMAIN net \ {proto.created} :
                   \E j \in 1..(i - 1) : s[j] = StopOf(t)
      BY <1>7 DEF IsAsked
    <2>2. CASE i = 1
      <3>1. DOMAIN net \subseteq {proto.created}  BY <2>1, <2>2
      <3>2. TcpOp = "update" /\ TcpTarget \in DOMAIN net
        BY <1>1, <2>1, <2>2 DEF UpdateOf
      <3> QED BY <1>6, <3>1, <3>2
    <2>3. CASE i # 1
      <3>1. i \in 2..n /\ 1 \in 1..(i - 1)  BY <1>1, <2>1, <2>3
      <3>2. i - 1 \in 1..m /\ proto'.tcpJobs[i - 1] = UpdateOf(proto'.created)
        BY <1>1, <1>2, <2>1, <3>1
      <3>3. proto'.created \in DOMAIN net'
        BY <1>1, <1>2, <2>1, <3>1, TcpStepNet
      <3>4. ASSUME NEW j \in 1..((i - 1) - 1)
            PROVE  j + 1 \in 1..(i - 1) /\ proto'.tcpJobs[j] = s[j + 1]
        <4>1. j + 1 \in 2..n /\ (j + 1) - 1 = j /\ j + 1 \in 1..(i - 1)
          BY <1>1, <3>1
        <4> QED BY <1>1, <4>1
      <3>5. ASSUME NEW t \in DOMAIN net' \ {proto'.created}
            PROVE  \E j \in 1..((i - 1) - 1) : proto'.tcpJobs[j] = StopOf(t)
        <4>1. PICK j \in 1..(i - 1) : s[j] = StopOf(t)  BY <1>2, <2>1
        <4>2. j # 1  BY <1>3, <4>1
        <4>3. j - 1 \in 1..((i - 1) - 1) /\ (j - 1) + 1 = j  BY <3>1, <4>2
        <4> QED BY <3>4, <4>1, <4>3
      <3>6. \A j \in 1..((i - 1) - 1) :
               proto'.tcpJobs[j].op = "stop" => proto'.tcpJobs[j].t # proto'.created
        BY <1>2, <2>1, <3>4
      <3>7. IsAsked'  BY <3>2, <3>3, <3>5, <3>6 DEF IsAsked
      <3> QED BY <3>7
    <2> QED BY <2>2, <2>3
  <1>8. ASSUME IsAlone PROVE IsAlone'
    BY <1>6, <1>8 DEF IsAlone
  <1> QED BY <1>4, <1>5, <1>7, <1>8 DEF ReportFollows

\* the report follows the transports from the beginning ...
LEMMA RInvInit ==
    ASSUME Init
    PROVE  RInv
BY SInvInit, InitFields DEF SaysUp, RInv, ReportFollows, OthersEnd, NewestIsHeard, IsAlone

\* ... and in every step
LEMMA StepKeepsReport ==
    ASSUME RInv, [Next]_vars
    PROVE  RInv'
BY StepKeepsS, ProtoTurns, StepKeeps, TurnsKeepReport, TcpStepKeepsReport,
   NetworkKeepsReport, QuietStepKeepsReport DEF RInv, SInv, FInv, Kept, Final, Next

\* When every queue has run dry the delegate's last word on the connection is
\* the state of the transport in use, whatever transports came and went (the
\* jobs of Proto::transportNetworkConnectionStateChanged and setTransport's
\* calls of updateConnectionState).
THEOREM ReportSettles == Spec => []ConnectionReportSettles
  <1>1. ASSUME RInv, Settled, ~Stopped(proto)
        PROVE  proto.reported = "connected" <=> Connection = "open"
    <2>1. /\ proto.jobs = <<>> /\ proto.tcpJobs = <<>> /\ Len(<<>>) = 0
      BY <1>1 DEF Settled
    <2>2. OthersEnd /\ (IsAsked \/ IsAlone)  BY <1>1 DEF RInv, ReportFollows
    <2>3. ~IsAsked /\ DOMAIN net \subseteq {proto.transport}
      BY <2>1, <2>2 DEF IsAsked, OthersEnd
    <2>4. SaysUp(proto) <=> proto.reported = "connected"  BY <2>1 DEF SaysUp
    <2>5. proto.transport \in {0, proto.created} /\ 0 \notin DOMAIN net
      BY <1>1 DEF RInv, SInv, FInv, Fit, Typed, IInv, Sound, Core, Bounds
    <2> QED BY <2>2, <2>3, <2>4, <2>5 DEF IsAlone, IsOpen, Connection
  <1>2. RInv => ConnectionReportSettles  BY <1>1 DEF ConnectionReportSettles
  <1>3. Init => RInv  BY RInvInit
  <1>4. RInv /\ [Next]_vars => RInv'  BY StepKeepsReport
  <1> QED BY <1>2, <1>3, <1>4, PTL DEF Spec

----
(* The requests that wait to be offered. *)

LEMMA AsksWake ==
    ASSUME NEW p, NEW q, Grows(p, q), Asks(p, q), Eager(q), ~q.flushing
    PROVE  Eager(p) /\ ~p.flushing /\ q.transport = p.transport
BY DEF Eager, Asks, Grows, Lives

LEMMA BaseEager ==
    ASSUME NEW b, NEW d, NEW fs, Base(b, d, fs)
    PROVE  /\ "transport" \notin fs => b.transport = proto.transport
           /\ "flushing" \notin fs => b.flushing = proto.flushing
           /\ fs \cap {"state", "requests", "context", "registered"} = {} => (Eager(b) <=> Eager(proto))
BY DEF Base, Fields, Eager, Stopped, Paused, CanAskTransactions, Offered

LEMMA HandledWakes ==
    ASSUME NEW p, NEW m, NEW q, Fit(p), Handled(p, m, q), Eager(q), ~q.flushing
    PROVE  Eager(p) /\ ~p.flushing /\ q.transport = p.transport
  <1>1. CASE m.id \in p.session.processed
    BY <1>1, AsksWake DEF Handled, Goes, Moves
  <1>2. CASE m.id \notin p.session.processed
    <2>1. PICK s : /\ Goes(Noted(p, m), s)
                   /\ q = (IF m.body.k \in {"rpcResult", "rpcSilent"}
                           THEN ReceiveResult(s, m.body) ELSE s)
      BY <1>2 DEF Handled
    <2>2. PICK n : n = Noted(p, m)  OBVIOUS
    <2>3. Fit(n) /\ (Eager(n) <=> Eager(p)) /\ n.flushing = p.flushing /\ n.transport = p.transport
      BY <2>2, NotedFit DEF Fields, Eager, Stopped, Paused, CanAskTransactions, Offered
    <2>4. Fit(s)  BY <2>1, <2>2, <2>3, GoesIsFit
    <2>5. Eager(s) /\ ~s.flushing /\ q.transport = s.transport
      <3>1. CASE q = ReceiveResult(s, m.body)
        <4>1. Receives(s, m.body, q)  BY <2>4, <3>1, ReceiveResultReceives
        <4>2. Offered(q) \subseteq Offered(s)
          BY <2>4, <4>1 DEF Receives, Alike, Offered, Hit, Fit, Typed, Contexts
        <4> QED BY <4>1, <4>2 DEF Receives, Alike, Eager, Stopped, Paused, CanAskTransactions
      <3> QED BY <2>1, <3>1
    <2> QED BY <2>1, <2>2, <2>3, <2>5, AsksWake DEF Goes, Moves
  <1> QED BY <1>1, <1>2

LEMMA BindsWake ==
    ASSUME NEW p, NEW q, NEW rs, NEW tx \in Nat, Fit(p), Binds(p, q, rs, tx)
    PROVE  /\ q.flushing = p.flushing /\ q.transport = p.transport /\ q.state = p.state
           /\ rs = Offered(p) /\ tx # 0 => ~Eager(q)
           /\ rs = {} /\ Eager(q) => Eager(p)
  <1>1. /\ q.flushing = p.flushing /\ q.transport = p.transport /\ q.state = p.state
        /\ q.requests = p.requests /\ q.registered = p.registered /\ q.context = BoundTo(p, rs, tx)
        /\ q.requests \subseteq Requests
    BY DEF Binds, Alike, Fit, Typed, Contexts
  <1>2. ASSUME rs = Offered(p), tx # 0 PROVE Offered(q) = {}
    <2>1. ASSUME NEW r \in Offered(p)
          PROVE  q.context[r] # None /\ q.context[r].tx # 0
      <3>1. r \in Requests /\ IdFor(p, r) \in MessageId
        BY BoundContexts, OfferedFacts
      <3>2. q.context[r] = [mid |-> IdFor(p, r), tx |-> tx, delivered |-> FALSE]
        BY <1>1, <1>2, <3>1 DEF BoundTo
      <3>3. q.context[r].tx # 0  BY <1>2, <3>2
      <3>4. q.context[r] \in RequestContext  BY <3>1, <3>2 DEF RequestContext
      <3> QED BY <3>3, <3>4, NoneAssumption
    <2> QED BY ZenonT(30), <1>1, <1>2, <2>1 DEF Offered, BoundTo
  <1>3. rs = {} => Offered(q) = Offered(p)  BY ZenonT(30), <1>1 DEF Offered, BoundTo
  <1> QED BY <1>1, <1>2, <1>3 DEF Eager, Stopped, Paused, CanAskTransactions

LEMMA TurnsWake ==
    ASSUME FInv, Turn
    PROVE  Wakes
  <1>0. SUFFICES ASSUME ~proto'.flushing, Eager(proto') PROVE Wakes
    BY DEF Wakes
  <1>1. (/\ proto'.transport = proto.transport /\ Eager(proto) /\ ~proto.flushing
         /\ ~(HeadOp = "ready" /\ TheJob.t = proto.transport)) => Wakes
    BY DEF Wakes
  <1>2. ASSUME NEW b, NEW d, NEW fs, Base(b, d, fs),
               fs \cap {"transport", "flushing", "state", "requests", "context", "registered"} = {}
        PROVE  /\ b.transport = proto.transport /\ b.flushing = proto.flushing
               /\ Eager(b) <=> Eager(proto)
               /\ Asks(b, proto') /\ Grows(b, proto') =>
                     proto'.transport = proto.transport /\ Eager(proto) /\ ~proto.flushing
    BY <1>0, <1>2, BaseEager, AsksWake
  <1>3. Calm => proto'.transport = proto.transport /\ Eager(proto) /\ ~proto.flushing
    BY <1>2 DEF Calm, Goes, Moves
  <1>4. CASE HeadOp \in {"add", "txFailed"} /\ (AddTurn \/ TxFailedTurn)
    BY <1>0, <1>1, <1>2, <1>4 DEF AddTurn, TxFailedTurn, Recalls
  <1>5. CASE HeadOp = "cancel" /\ CancelTurn
    <2>1. /\ proto'.state = proto.state /\ proto'.transport = proto.transport
          /\ proto'.flushing = proto.flushing /\ proto'.registered = proto.registered
      BY <1>5 DEF CancelTurn, Base, Fields
    <2>2. Offered(proto') \subseteq Offered(proto)
      BY <1>5, <2>1 DEF CancelTurn, Offered, FInv, Fit, Typed, Contexts
    <2> QED BY <1>0, <1>1, <1>5, <2>1, <2>2 DEF Eager, Stopped, Paused, CanAskTransactions
  <1>6. CASE HeadOp \in {"connState", "removeService"} /\ (ConnStateTurn \/ RemoveServiceTurn)
    BY <1>0, <1>1, <1>2, <1>6 DEF ConnStateTurn, RemoveServiceTurn, Eager, Offered
  <1>7. CASE HeadOp = "pause" /\ PauseTurn
    BY <1>0, <1>1, <1>3, <1>7 DEF PauseTurn, Shifts, Eager, Paused
  <1>8. CASE HeadOp = "stop" /\ StopTurn
    BY <1>0, <1>1, <1>3, <1>8 DEF StopTurn, Shifts, Eager, Stopped
  <1>9. CASE HeadOp \in {"resume", "authInfo"} /\ (ResumeTurn \/ AuthInfoTurn)
    <2>1. CASE ResumeTurn  BY <1>0, <1>1, <1>3, <1>9, <2>1 DEF ResumeTurn
    <2>2. CASE AuthInfoTurn /\ "authorization" \notin proto.state
      <3>1. (Base(proto', 1, {"authInfo", "state"}) /\ proto'.state = proto.state) \/ proto'.flushing
        BY <2>2 DEF AuthInfoTurn
      <3>2. Eager(proto) /\ proto'.transport = proto.transport /\ ~proto.flushing
        BY <1>0, <3>1 DEF Base, Fields, Eager, Stopped, Paused, CanAskTransactions, Offered
      <3> QED BY <1>1, <1>9, <3>2
    <2>3. CASE AuthInfoTurn /\ "authorization" \in proto.state
      BY <1>0, <2>3 DEF AuthInfoTurn
    <2> QED BY <1>9, <2>1, <2>2, <2>3
  <1>10. CASE HeadOp = "flush" /\ FlushTurn
    <2>1. PICK b : /\ Base(b, 1, {"flushing"})
                   /\ \/ (Stopped(b) \/ Paused(b)) /\ proto' = b
                      \/ \E x : /\ Moves(b, x)
                                /\ \/ ~CanAskTransactions(x) /\ proto' = x
                                   \/ x.transport # 0 /\ Hands(x, proto', "needs", x.transport)
      BY <1>10 DEF FlushTurn
    <2>2. PICK x : Moves(b, x) /\ x.transport # 0 /\ Hands(x, proto', "needs", x.transport)
      BY <1>0, <2>1 DEF Eager
    <2>3. /\ proto'.transport = x.transport /\ Good(x)
          /\ proto'.tcpJobs = Append(x.tcpJobs, [op |-> "needs", t |-> x.transport])
      BY <2>2 DEF Hands, Fields, Moves, Grows, Lives
    <2>4. Len(proto'.tcpJobs) \in 1..Len(proto'.tcpJobs)
             /\ proto'.tcpJobs[Len(proto'.tcpJobs)] = [op |-> "needs", t |-> x.transport]
      BY <2>3, AppendFacts, QueueFacts DEF Good
    <2> QED BY <2>2, <2>3, <2>4 DEF Wakes, Tasked
  <1>11. CASE HeadOp = "incoming" /\ IncomingTurn
    BY <1>1, <1>2, <1>11 DEF IncomingTurn, Goes, Moves
  <1>12. CASE HeadOp = "messages" /\ MessageTurn
    BY <1>0, <1>1, <1>2, <1>12, HandledWakes DEF MessageTurn
  <1>13. CASE HeadOp = "ready" /\ ReadyTurn
    <2>1. CASE Calm /\ (TheJob.t = proto.transport => ~Eager(proto))
      BY <1>1, <1>3, <1>13, <2>1
    <2>2. ASSUME TheJob.t = proto.transport, SendTurn
          PROVE  FALSE
      <3>1. PICK b : /\ Base(b, 1, {}) /\ Fit(b) /\ Binds(b, proto', Offered(b), b.transport)
        BY <2>2 DEF SendTurn
      <3>2. b.transport = proto.transport /\ b.transport # 0 /\ b.transport \in Nat
        BY <1>13, <2>2, <3>1, BaseEager, FirstJob, ProtoQueues, QueueFacts
           DEF Turn, FInv, IInv, Sound, Core, Bounds
      <3> QED BY <1>0, <3>1, <3>2, BindsWake
    <2>3. ASSUME TheJob.t = proto.transport, RefusedTurn
          PROVE  proto'.transport = proto.transport /\ ~HasConnection(proto.transport)
      <3>1. PICK b, x, rs : /\ Base(b, 1, {}) /\ Fit(b) /\ Binds(b, x, rs, 0)
                            /\ \/ proto' = x /\ rs = Offered(b) /\ ~HasConnection(b.transport)
                               \/ proto'.flushing
                               \/ ~CanAskTransactions(proto')
        BY <2>3 DEF RefusedTurn
      <3> QED BY <1>0, <3>1, BaseEager, BindsWake DEF Eager
    <2>4. ASSUME PingTurn
          PROVE  FALSE
      <3>1. PICK b, x : /\ Base(b, 1, {}) /\ Fit(b) /\ ~CanAskTransactions(b)
                        /\ Binds(b, x, {}, 0) /\ Goes(x, proto')
        BY <2>4 DEF PingTurn
      <3> QED BY <1>0, <3>1, AsksWake, BindsWake DEF Eager, Goes, Moves
    <2> QED BY <1>13, <2>1, <2>2, <2>3, <2>4 DEF ReadyTurn, Eager, Wakes
  <1> QED BY <1>4, <1>5, <1>6, <1>7, <1>8, <1>9, <1>10, <1>11, <1>12, <1>13 DEF Turn

\* the bounded events are counted
LEMMA StepSpends ==
    ASSUME spent \in [Events -> Nat], Next
    PROVE  /\ spent' \in [Events -> Nat] /\ spent["close"] \in Nat
           /\ spent'["close"] \in Nat /\ spent'["close"] >= spent["close"]
  <1>1. "close" \in Events  BY DEF Events
  <1>2. (\E e \in Events : Spend(e)) \/ spent' = spent
    BY DEF Next, ProtoStep, DoAdd, DoCancel, DoPause, DoResume, DoStop, DoRemoveService, DoFlush,
       DoAuthInfo, DoConnState, DoTxFailed, DoIncoming, DoMessage, Ready, ReadyStale, ReadyNothing,
       ReadySend, ReadyFail, ReadySaltless, ReadyTimeFix, ReadyViolated, Run, TcpStep, TcpSkip,
       TcpUpdate, TcpNeeds, TcpFlush, TcpValid, TcpDetach, TcpStop, ContextStep, AuthCompleted,
       Network, ConnectionOpened, ConnectionClosed, BackoffTimer, Server, Answer, ServerSends,
       ServerGarbles, User, Send, Cancel, Pause, Resume, Stop, SaltsLapse, LockExpires,
       Events
  <1>3. ASSUME NEW e \in Events, Spend(e)
        PROVE  spent' = [spent EXCEPT ![e] = @ + 1]
    BY <1>3 DEF Spend
  <1> QED BY <1>1, <1>2, <1>3

\* what wants a transaction still does when jobs have gone to Proto's queue
LEMMA TurnsKeepFollowed ==
    ASSUME SInv, FInv', spent \in [Events -> Nat], Next, Followed, NetSpent, Turn, ~Stopped(proto')
    PROVE  (Followed /\ NetSpent)'
  <1>1. /\ Extended(proto.tcpJobs, proto'.tcpJobs)
        /\ net' = [t \in DOMAIN net \cup (proto.created + 1)..proto'.created |->
                      IF t \in DOMAIN net THEN net[t] ELSE NewTransport]
    BY TurnsReport DEF SInv, Become, Reports
  <1>2. PICK d : QueueTurn(d)  BY TurnsQueue DEF SInv
  <1>0. spent["close"] \in Nat /\ spent'["close"] \in Nat /\ spent'["close"] >= spent["close"]
    BY StepSpends
  <1>3. /\ Len(proto.jobs) \in Nat /\ 1 \in 1..Len(proto.jobs) /\ Len(proto.tcpJobs) \in Nat
        /\ TheJob = proto.jobs[1] /\ HeadOp = proto.jobs[1].op /\ d \in {0, 1}
        /\ Len(proto'.tcpJobs) \in Nat /\ Len(proto'.jobs) \in Nat
    BY <1>1, <1>2, ProtoQueues, FirstJob, QueueFacts DEF SInv, FInv, Turn, Extended, QueueTurn
  <1>10. /\ proto.created \in Nat /\ proto.transport \in Nat /\ DOMAIN net \subseteq 1..proto.created
         /\ \A i \in 1..Len(proto.jobs) : proto.jobs[i].op = "ready" => proto.jobs[i].t \in 1..proto.created
    BY DEF SInv, FInv, Fit, Good, Typed, IInv, Sound, Core, Bounds
  <1>4. ASSUME NEW t, NEW ops, Tasked(t, ops)
        PROVE  Tasked(t, ops)'
    BY <1>1, <1>3, <1>4 DEF Tasked, Extended
  <1>5. ASSUME NEW t, Readied(t)'
        PROVE  Readied(t) /\ t \in 1..proto.created
    <2>1. PICK i \in 1..Len(proto'.jobs) : proto'.jobs[i].op = "ready" /\ proto'.jobs[i].t = t
      BY <1>5 DEF Readied
    <2>2. i + d \in 1..Len(proto.jobs) /\ proto.jobs[i + d] = proto'.jobs[i]
      BY SMTT(30), <1>2, <1>3, <2>1 DEF QueueTurn
    <2> QED BY <1>10, <2>1, <2>2 DEF Readied
  <1>6. ASSUME NEW t, Readied(t), ~(HeadOp = "ready" /\ TheJob.t = t)
        PROVE  Readied(t)'
    <2>1. PICK i \in 1..Len(proto.jobs) : proto.jobs[i].op = "ready" /\ proto.jobs[i].t = t
      BY <1>6 DEF Readied
    <2>2. i - d \in 1..Len(proto'.jobs) /\ proto'.jobs[i - d] = proto.jobs[i]
      BY <1>2, <1>3, <1>6, <2>1 DEF QueueTurn
    <2> QED BY <2>1, <2>2 DEF Readied
  <1>7. ASSUME NEW t \in DOMAIN net'
        PROVE  /\ t \in DOMAIN net => net'[t] = net[t]
               /\ t \notin DOMAIN net => net'[t] = NewTransport /\ t \notin 1..proto.created
    BY <1>1, <1>10
  <1>8. NetSpent'
    <2>1. ASSUME NEW t \in DOMAIN net', t \in DOMAIN net
          PROVE  Accounted(t)'
      BY <1>0, <1>4, <1>5, <1>7, <2>1 DEF NetSpent, Accounted
    <2>2. ASSUME NEW t \in DOMAIN net', t \notin DOMAIN net
          PROVE  net'[t] = NewTransport /\ ~Readied(t)'
      BY <1>5, <1>7, <2>2
    <2> QED BY <2>1, <2>2 DEF NetSpent, Accounted, NewTransport
  <1>9. ASSUME Eager(proto'), ~proto'.flushing
        PROVE  proto'.transport # 0 /\ Wanted(proto.transport)'
    <2>1. Wakes  BY TurnsWake DEF SInv
    <2>2. CASE proto'.transport # 0 /\ Tasked(proto.transport, {"needs"})'
      BY <2>2 DEF Wanted, Tasked
    <2>3. CASE HeadOp = "ready" /\ TheJob.t = proto.transport /\ ~HasConnection(proto.transport)
               /\ proto'.transport = proto.transport
      <3>0. proto.jobs[1].op = "ready" /\ proto.jobs[1].t = proto.transport
        BY <1>3, <2>3
      <3>1. Readied(proto.transport) /\ proto.transport # 0
        BY <1>3, <1>10, <3>0 DEF Readied
      <3>2. proto.transport \in DOMAIN net  BY <3>1 DEF SInv, InUse
      <3>3. net'[proto.transport] = net[proto.transport] /\ proto.transport \in DOMAIN net'
        BY <1>1, <3>2
      <3> QED BY <1>0, <2>3, <3>1, <3>2, <3>3 DEF NetSpent, Accounted, Wanted, HasConnection
    <2>4. CASE /\ proto'.transport = proto.transport /\ Eager(proto) /\ ~proto.flushing
               /\ ~(HeadOp = "ready" /\ TheJob.t = proto.transport)
      <3>1. proto.transport # 0 /\ Wanted(proto.transport)  BY <2>4 DEF Followed
      <3> QED BY <1>0, <1>1, <1>4, <1>6, <2>4, <3>1 DEF Wanted
    <2> QED BY <1>9, <2>1, <2>2, <2>3, <2>4 DEF Wakes
  <1> QED BY <1>8, <1>9 DEF Followed

\* ... and the steps beside Proto's queue
LEMMA AddsReady ==
    ASSUME IInv, NEW fs, NEW js, Adds(fs, js), fs \subseteq Others
    PROVE  /\ (Eager(proto') <=> Eager(proto)) /\ proto'.flushing = proto.flushing
           /\ proto'.transport = proto.transport
           /\ \A t : Readied(t)' <=>
                 Readied(t) \/ \E k \in 1..Len(js) : js[k].op = "ready" /\ js[k].t = t
  <1>1. /\ proto'.flushing = proto.flushing /\ proto'.transport = proto.transport
        /\ Eager(proto') <=> Eager(proto)
    BY DEF Adds, Fields, Others, Eager, Stopped, Paused, CanAskTransactions, Offered
  <1>2. ASSUME NEW t, Readied(t)'
        PROVE  Readied(t) \/ \E k \in 1..Len(js) : js[k].op = "ready" /\ js[k].t = t
    <2>1. PICK i \in 1..Len(proto'.jobs) : proto'.jobs[i].op = "ready" /\ proto'.jobs[i].t = t
      BY <1>2 DEF Readied
    <2>2. \/ i \in 1..Len(proto.jobs) /\ proto'.jobs[i] = proto.jobs[i]
          \/ \E k \in 1..Len(js) : proto'.jobs[i] = js[k]
      BY AddedJobs
    <2> QED BY <2>1, <2>2 DEF Readied
  <1>3. ASSUME NEW t, Readied(t)
        PROVE  Readied(t)'
    BY <1>3, AddedJobs DEF Readied
  <1>4. ASSUME NEW k \in 1..Len(js), js[k].op = "ready"
        PROVE  Readied(js[k].t)'
    <2>1. PICK i \in 1..Len(proto'.jobs) : proto'.jobs[i] = js[k]  BY AddedJobs
    <2> QED BY <1>4, <2>1 DEF Readied
  <1> QED BY <1>1, <1>2, <1>3, <1>4

LEMMA SteadyFollows ==
    ASSUME SInv, Followed, NetSpent, spent \in [Events -> Nat], Next,
           NEW fs, NEW js, Adds(fs, js), fs \subseteq Others \ {"tcpJobs"}, DOMAIN net' = DOMAIN net,
           \A t \in DOMAIN net :
              /\ net'[t].flushing = net[t].flushing
              /\ net'[t].again => net[t].again \/ spent'["close"] > 0
              /\ \/ net'[t].conn \in {net[t].conn, "starting"}
                 \/ net'[t].conn = "backoff" /\ spent'["close"] > 1
                 \/ net'[t].conn = "open" /\ (net[t].attached =>
                       \E k \in 1..Len(js) : js[k].op = "ready" /\ js[k].t = t),
           \A k \in 1..Len(js) : js[k].op = "ready" /\ js[k].t \in DOMAIN net =>
              net'[js[k].t].conn # "none"
    PROVE  (Followed /\ NetSpent)'
  <1>1. spent["close"] \in Nat /\ spent'["close"] \in Nat /\ spent'["close"] >= spent["close"]
    BY StepSpends
  <1>2. /\ (Eager(proto') <=> Eager(proto)) /\ proto'.flushing = proto.flushing
        /\ proto'.transport = proto.transport
        /\ \A t : Readied(t)' <=>
              Readied(t) \/ \E k \in 1..Len(js) : js[k].op = "ready" /\ js[k].t = t
    BY AddsReady DEF SInv, FInv
  <1>3. \A t, ops : Tasked(t, ops)' <=> Tasked(t, ops)
    BY DEF Adds, Fields, Others, Tasked
  <1>4. NetSpent'
    <2>1. ASSUME NEW t \in DOMAIN net
          PROVE  Accounted(t)'
      BY <1>1, <1>2, <1>3 DEF NetSpent, Accounted
    <2> QED BY <2>1 DEF NetSpent
  <1>5. ASSUME proto.transport # 0, Wanted(proto.transport)
        PROVE  Wanted(proto.transport)'
    BY <1>1, <1>2, <1>3, <1>5 DEF Wanted, SInv, InUse
  <1> QED BY <1>2, <1>4, <1>5 DEF Followed

LEMMA NetworkFollows ==
    ASSUME SInv, Followed, NetSpent, spent \in [Events -> Nat], Next, Network
    PROVE  (Followed /\ NetSpent)'
  <1>1. PICK t \in DOMAIN net : ConnectionOpened(t) \/ ConnectionClosed(t) \/ BackoffTimer(t)
    BY DEF Network
  <1>2. /\ IInv /\ spent["close"] \in Nat /\ (net[t].again => spent["close"] > 0)
        /\ DOMAIN net' = DOMAIN net /\ \A u \in DOMAIN net : u # t => net'[u] = net[u]
        /\ net'[t].flushing = net[t].flushing
    BY <1>1, StepSpends, NetworkNet DEF SInv, FInv, NetSpent, Accounted
  <1>3. CASE ConnectionOpened(t)
    <2> DEFINE x == [op |-> "ready", t |-> t, ping |-> TRUE]
               js == Heard(t, <<ConnState(TRUE), x>>)
    <2>1. Adds({}, js) /\ net'[t].conn = "open" /\ net'[t].again = net[t].again
      BY <1>1, <1>2, <1>3, ConnectionOpenedAdds, NetworkNet
    <2>2. \A k \in 1..Len(js) : js[k].op = "ready" => js[k].t = t
      BY DEF ConnState, Heard
    <2>3. net[t].attached => \E k \in 1..Len(js) : js[k].op = "ready" /\ js[k].t = t
      BY DEF Heard
    <2> HIDE DEF js
    <2> QED BY <1>1, <1>2, <2>1, <2>2, <2>3, SteadyFollows
  <1>4. CASE ConnectionClosed(t)
    <2> DEFINE x == [op |-> "txFailed", t |-> t]
               js == Heard(t, <<ConnState(FALSE), x>>)
    <2>1. Adds({}, js) /\ Spend("close") /\ net'[t].conn = IF net[t].again THEN "backoff" ELSE "starting"
      BY <1>1, <1>2, <1>4, ConnectionClosedAdds, NetworkNet DEF ConnectionClosed
    <2>2. \A k \in 1..Len(js) : js[k].op # "ready"  BY DEF ConnState, Heard
    <2>3. spent'["close"] = spent["close"] + 1  BY <1>2, <2>1 DEF Spend, Events
    <2> HIDE DEF js
    <2> QED BY <1>1, <1>2, <2>1, <2>2, <2>3, SteadyFollows
  <1>5. CASE BackoffTimer(t)
    <2>1. Adds({"lock"}, <<>>) /\ net'[t].conn = "starting" /\ net'[t].again = net[t].again
      BY <1>1, <1>2, <1>5, NothingAdded, NetworkNet DEF BackoffTimer
    <2> QED BY <1>1, <1>2, <2>1, SteadyFollows DEF Others
  <1> QED BY <1>1, <1>3, <1>4, <1>5

LEMMA TcpStepFollows ==
    ASSUME SInv, Followed, NetSpent, spent \in [Events -> Nat], Next, TcpStep
    PROVE  (Followed /\ NetSpent)'
  <1>0. PICK T : T = TcpTarget  OBVIOUS
  <1>1. IInv /\ TcpAdds  BY TcpStepAdds DEF SInv, FInv
  <1>2. /\ (Eager(proto') <=> Eager(proto)) /\ proto'.flushing = proto.flushing
        /\ proto'.transport = proto.transport
        /\ \A t : Readied(t)' <=>
              Readied(t) \/ \E k \in 1..Len(TcpNews) : TcpNews[k].op = "ready" /\ TcpNews[k].t = t
    BY <1>1, AddsReady DEF TcpAdds, Others
  <1>3. spent["close"] \in Nat /\ spent'["close"] \in Nat /\ spent'["close"] >= spent["close"]
    BY StepSpends
  <1>4. ASSUME NEW t, NEW ops, Tasked(t, ops), ~(TcpOp \in ops /\ t = T)
        PROVE  Tasked(t, ops)'
    BY <1>0, <1>4, TcpQueueShifts DEF Tasked
  <1>5. ASSUME TcpOp = "needs", T \in DOMAIN net
        PROVE  Tasked(T, {"flush"})'
    <2>1. CASE net[T].flushing
      <3>1. Tasked(T, {"flush"}) /\ ~(TcpOp \in {"flush"})
        BY <1>5, <2>1 DEF NetSpent, Accounted
      <3> QED BY <1>4, <3>1
    <2>2. CASE ~net[T].flushing
      <3>1. PICK x : x = [op |-> "flush", t |-> T]  OBVIOUS
      <3>2. proto'.tcpJobs = Append(Tail(proto.tcpJobs), x) /\ proto.tcpJobs # <<>>
        BY <1>0, <1>1, <1>5, <2>2, <3>1 DEF TcpAdds
      <3>3. IsQueue(Tail(proto.tcpJobs))  BY <1>1, <3>2, ProtoQueues, TailFacts
      <3>4. PICK n : n = Len(Tail(proto.tcpJobs)) + 1  OBVIOUS
      <3>5. n \in 1..Len(proto'.tcpJobs) /\ proto'.tcpJobs[n] = x
        BY <3>2, <3>3, <3>4, AppendFacts, QueueFacts
      <3>6. x.op \in {"flush"} /\ x.t = T  BY <3>1
      <3> QED BY <3>5, <3>6 DEF Tasked
    <2> QED BY <2>1, <2>2
  <1>6. ASSUME NEW t, \E k \in 1..Len(TcpNews) : TcpNews[k].op = "ready" /\ TcpNews[k].t = t
        PROVE  t = T /\ TcpOp = "flush" /\ net[t].conn \notin {"none", "backoff"}
    BY <1>0, <1>6 DEF TcpNews, Heard, ConnState, ReadyJob
  <1>7. ASSUME T \in DOMAIN net, TcpOp = "flush", net[T].conn \notin {"none", "backoff"}, net[T].attached
        PROVE  Readied(T)'
    <2>1. PICK x : x = ReadyJob(T)  OBVIOUS
    <2>2. TcpNews = <<x>> /\ x.op = "ready" /\ x.t = T
      BY <1>0, <1>7, <2>1 DEF TcpNews, Heard, ReadyJob
    <2>3. Len(<<x>>) = 1 /\ <<x>>[1] = x /\ 1 \in 1..1  BY TupleFacts
    <2> QED BY <1>2, <2>2, <2>3
  <1>8. ASSUME NEW t \in DOMAIN net'
        PROVE  Accounted(t)'
    <2>1. t \in DOMAIN net /\ (net'[t].again => net[t].again)  BY TcpStepMoves
    <2>2. Accounted(t)  BY <2>1 DEF NetSpent
    <2>3. Readied(t)' => Readied(t) \/ (t = T /\ TcpOp = "flush" /\ net[t].conn \notin {"none", "backoff"})
      BY <1>2, <1>6
    <2>4. CASE TcpOp \in {"needs", "flush"} /\ t = T
      <3>1. /\ net'[t].flushing <=> TcpOp = "needs"
            /\ net'[t].conn = IF TcpOp = "flush" /\ net[t].conn \in {"none", "backoff"}
                              THEN "starting" ELSE net[t].conn
        BY <1>0, <2>4, TcpStepMoves
      <3> QED BY <1>3, <1>5, <2>1, <2>2, <2>3, <2>4, <3>1 DEF Accounted
    <2>5. CASE ~(TcpOp \in {"needs", "flush"} /\ t = T)
      <3>1. /\ net'[t].flushing = net[t].flushing
            /\ \/ net'[t].conn = net[t].conn
               \/ net[t].conn = "backoff" /\ net'[t].conn = "none"
        BY <1>0, <2>5, TcpStepMoves
      <3>2. ~(TcpOp \in {"flush"} /\ t = T)  BY <2>5
      <3>3. Tasked(t, {"flush"}) => Tasked(t, {"flush"})'  BY <1>4, <3>2
      <3> QED BY <1>3, <2>1, <2>2, <2>3, <2>5, <3>1, <3>3 DEF Accounted
    <2> QED BY <2>4, <2>5
  <1>9. ASSUME NEW t, t = proto.transport, t # 0, Wanted(t)
        PROVE  Wanted(t)'
    <2>1. t \in DOMAIN net /\ net[t].attached /\ t \in DOMAIN net'
      <3>1. ~(TcpOp = "stop" /\ t = TcpTarget)
        BY <1>9, TcpQueueShifts DEF SInv, InUse
      <3> QED BY <1>9, <3>1, TcpStepNet DEF SInv, InUse
    <2>2. CASE TcpOp = "needs" /\ t = T
      <3>1. Tasked(t, {"flush"})'  BY <1>5, <2>1, <2>2
      <3> QED BY <3>1 DEF Wanted, Tasked
    <2>3. CASE TcpOp = "flush" /\ t = T
      <3>1. CASE net[t].conn \in {"none", "backoff"}
        <4>1. net'[t].conn = "starting"  BY <1>0, <2>1, <2>3, <3>1, TcpStepMoves
        <4> QED BY <2>1, <4>1 DEF Wanted
      <3>2. CASE net[t].conn \notin {"none", "backoff"}
        <4>1. Readied(t)'  BY <1>7, <2>1, <2>3, <3>2
        <4> QED BY <4>1 DEF Wanted
      <3> QED BY <3>1, <3>2
    <2>4. CASE ~(TcpOp \in {"needs", "flush"} /\ t = T)
      <3>1. \/ net'[t].conn = net[t].conn
            \/ net[t].conn = "backoff" /\ net'[t].conn = "none"
        BY <1>0, <2>1, <2>4, TcpStepMoves
      <3>2. Tasked(t, {"needs", "flush"}) => Tasked(t, {"needs", "flush"})'
        BY <1>4, <2>4
      <3>3. net[t].conn = "backoff" => spent["close"] > 1
        BY <2>1 DEF NetSpent, Accounted
      <3> QED BY <1>2, <1>3, <1>9, <2>1, <3>1, <3>2, <3>3 DEF Wanted
    <2> QED BY <2>2, <2>3, <2>4
  <1>10. NetSpent'  BY <1>8 DEF NetSpent
  <1> QED BY <1>2, <1>9, <1>10 DEF Followed

LEMMA QuietStepFollows ==
    ASSUME SInv, Followed, NetSpent, spent \in [Events -> Nat], Next,
           Server \/ User \/ ContextStep \/ AuthCompleted \/ SaltsLapse \/ LockExpires
    PROVE  (Followed /\ NetSpent)'
  <1>1. PICK fs, js : /\ Adds(fs, js) /\ fs \subseteq Others \ {"tcpJobs"} /\ net' = net
                      /\ \A i \in 1..Len(js) : js[i].op \notin {"connState", "ready"}
    BY QuietAdds DEF SInv, FInv
  <1> QED BY <1>1, SteadyFollows

\* the requests that wait are followed from the beginning ...
LEMMA GInvInit ==
    ASSUME Init
    PROVE  GInv
  <1>1. SInv  BY SInvInit
  <1>2. spent \in [Events -> Nat] /\ net = <<>> /\ proto.requests = {}
    BY DEF Init
  <1> QED BY <1>1, <1>2 DEF GInv, Followed, NetSpent, Eager, Offered

\* ... and in every step
LEMMA StepKeepsFollowed ==
    ASSUME GInv, [Next]_vars
    PROVE  GInv'
  <1>1. SInv' /\ FInv' /\ (Stopped(proto) => Stopped(proto'))
    BY StepKeepsS, StepKeeps DEF GInv, SInv, FInv, Kept, Final
  <1>2. CASE UNCHANGED vars
    BY <1>1, <1>2 DEF GInv, vars, Followed, NetSpent, Accounted, Wanted, Tasked, Readied
  <1>3. CASE Next
    <2>1. spent' \in [Events -> Nat]  BY <1>3, StepSpends DEF GInv
    <2>2. ASSUME ~Stopped(proto')
          PROVE  (Followed /\ NetSpent)'
      <3>1. SInv /\ Followed /\ NetSpent /\ spent \in [Events -> Nat]
        BY <1>1, <2>2 DEF GInv
      <3>2. ProtoStep \/ ReadyViolated => Turn  BY <3>1, ProtoTurns DEF SInv
      <3> QED BY <1>1, <1>3, <2>2, <3>1, <3>2, TurnsKeepFollowed, TcpStepFollows, NetworkFollows,
                 QuietStepFollows DEF Next
    <2> QED BY <1>1, <2>1, <2>2 DEF GInv
  <1> QED BY <1>2, <1>3

\* When every queue has run dry a request that may be offered is on its way to
\* be: the connection of the transport in use is being made, and the end of
\* that asks Proto for a transaction; or the connection is gone after a second
\* failure (TcpTransport::setDelegateNeedsTransaction, the jobs of
\* requestTransactionFromDelegate and of the connection's delegate calls).
THEOREM NoRequestIsIgnored == Spec => []NoRequestIgnored
  <1>1. ASSUME GInv, Settled, Working, CanAskTransactions(proto), NEW r \in Offered(proto)
        PROVE  \/ Connection \in {"starting", "backoff"}
               \/ proto.transport # 0 /\ Connection = "none" /\ spent["close"] > 1
    <2>1. proto.jobs = <<>> /\ proto.tcpJobs = <<>> /\ Len(<<>>) = 0
      BY <1>1 DEF Settled
    <2>2. Eager(proto) /\ Followed /\ NetSpent  BY <1>1 DEF Working, Eager, GInv
    <2>3. ~proto.flushing
      <3>1. FlushIsQueued(proto)  BY <1>1 DEF GInv, SInv, FInv, Fit, Typed
      <3> QED BY <2>1, <3>1 DEF FlushIsQueued
    <2>4. proto.transport # 0 /\ ~Tasked(proto.transport, {"needs", "flush"}) /\ ~Readied(proto.transport)
      BY <2>1, <2>2, <2>3 DEF Followed, Tasked, Readied
    <2>5. /\ proto.transport \in DOMAIN net /\ net[proto.transport].conn # "open"
          /\ net[proto.transport].conn = "none" => spent["close"] > 1
      BY <2>2, <2>4, <2>3 DEF Followed, Wanted
    <2> QED BY <2>2, <2>4, <2>5 DEF Connection, NetSpent, Accounted
  <1>2. GInv => NoRequestIgnored  BY <1>1 DEF NoRequestIgnored
  <1>3. Init => GInv  BY GInvInit
  <1>4. GInv /\ [Next]_vars => GInv'  BY StepKeepsFollowed
  <1> QED BY <1>2, <1>3, <1>4, PTL DEF Spec
=============================================================================
