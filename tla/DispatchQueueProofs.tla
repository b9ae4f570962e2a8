-------------------------- MODULE DispatchQueueProofs --------------------------
(***************************************************************************)
(* Proofs about DispatchQueue, for any number of client threads and jobs.  *)
(***************************************************************************)
EXTENDS DispatchQueue, SequenceTheorems, TLAPS

Notifying(c) == client[c].at \in {"asyncNotify", "syncNotify"}

\* A job executes on the worker thread only inside the batch loop, and the
\* outermost one is the head of the batch.
StackInv ==
    stack # <<>> => worker = "run" /\ tempJobs # <<>> /\ stack[1] = Head(tempJobs).job

\* The worker takes a new batch only when the last one is used up; a batch
\* is abandoned only when the queue is finished.
BatchInv ==
    /\ worker \in {"swap", "wait"} => tempJobs = <<>>
    /\ worker = "check" => tempJobs = <<>> \/ finished

\* What was pushed after the batch was taken, and the destructor, have left
\* a count on the semaphore or are about to.
WakeInv ==
    /\ worker \in {"gate", "run", "wait"} /\ jobs # <<>> =>
           sem > 0 \/ \E c \in Clients : Notifying(c)
    /\ worker \in {"swap", "gate", "run", "wait"} /\ finished =>
           sem > 0 \/ owner = "notify"

\* The work a client in sync waits for, from its push on.
ServedInv ==
    \A c \in Clients : client[c].at \in {"syncNotify", "test", "waiting"} =>
        \/ client[c].job \in signalled
        \/ \E w \in ToSet(tempJobs) \cup ToSet(jobs) : w.job = client[c].job /\ w.waiter = c
        \/ finished

\* A waiter is notified only of work that has run to its end.
SignalInv == signalled \subseteq ended

OwnerInv ==
    /\ owner = "alive" <=> ~finished
    /\ finished => jobs = <<>>
    /\ ~finished => dropped = <<>>

-----------------------------------------------------------------------------
(* Type correctness.                                                       *)

\* A job in the queue is a record of Work.
LEMMA WorkFields ==
    ASSUME NEW w \in Work
    PROVE  w.job \in Jobs /\ w.waiter \in Clients \cup {NoClient}
BY DEF Work

\* The head of a deque that is not empty is work, and the rest is a deque.
LEMMA HeadOfWork ==
    ASSUME NEW s \in Seq(Work), s # <<>>
    PROVE  /\ Head(s) \in Work /\ Head(s).job \in Jobs
           /\ Tail(s) \in Seq(Work)
BY HeadTailProperties, WorkFields

\* Ids names the jobs of a deque one by one.
LEMMA IdsType ==
    ASSUME NEW s \in Seq(Work)
    PROVE  Ids(s) \in Seq(Jobs) /\ Len(Ids(s)) = Len(s)
<1>1. Len(s) \in Nat /\ DOMAIN s = 1..Len(s)
  BY LenProperties
<1>2. \A i \in 1..Len(s) : s[i].job \in Jobs
  BY <1>1, ElementOfSeq, WorkFields
<1>3. Ids(s) = [i \in 1..Len(s) |-> s[i].job]
  BY <1>1 DEF Ids
<1>4. Ids(s) \in [1..Len(s) -> Jobs]
  BY <1>2, <1>3
<1> QED
  BY <1>1, <1>3, <1>4, SeqDef

\* The critical section of a push keeps to the types.
LEMMA AcceptType ==
    ASSUME TypeOK, NEW j \in Jobs, NEW w \in Clients \cup {NoClient}, Accept(j, w)
    PROVE  jobs' \in Seq(Work) /\ order' \in Seq(Jobs) /\ issued' \subseteq Jobs
<1>1. [job |-> j, waiter |-> w] \in Work
  BY DEF Work
<1>2. /\ Append(jobs, [job |-> j, waiter |-> w]) \in Seq(Work)
      /\ Append(order, j) \in Seq(Jobs)
  BY <1>1, AppendProperties DEF TypeOK
<1>3. issued' \subseteq Jobs
  BY DEF TypeOK, Accept
<1>4. CASE finished
  BY <1>3, <1>4 DEF TypeOK, Accept
<1>5. CASE ~finished
  BY <1>2, <1>3, <1>5 DEF Accept
<1> QED
  BY <1>4, <1>5

TInv == TypeOK /\ StackInv

\* TInv holds of a new queue, and every step of every thread keeps it.
LEMMA TypeStep ==
    /\ Init => TInv
    /\ TInv /\ [Next]_vars => TInv'
<1>1. Init => TInv
  <2> SUFFICES ASSUME Init PROVE TInv
    OBVIOUS
  <2>1. <<>> \in Seq(Work) /\ <<>> \in Seq(Jobs)
    OBVIOUS
  <2>2. Idle \in [at : {"idle", "asyncNotify", "syncNotify", "test", "waiting"}, job : Jobs \cup {NoJob}]
    BY DEF Idle
  <2> QED
    BY <2>1, <2>2 DEF Init, TInv, TypeOK, StackInv
<1>2. TInv /\ [Next]_vars => TInv'
  <2> SUFFICES ASSUME TInv, [Next]_vars
               PROVE  TInv'
    OBVIOUS
  <2> USE DEF TInv
  <2>1. ASSUME NEW c \in Clients, NEW j \in Fresh, AsyncPush(c, j)
        PROVE  TInv'
    <3>1. j \in Jobs BY DEF Fresh
    <3>2. Accept(j, NoClient) BY <2>1 DEF AsyncPush
    <3> QED
      BY <2>1, <3>1, <3>2, AcceptType DEF AsyncPush, TypeOK, StackInv
  <2>2. ASSUME NEW c \in Clients, NEW j \in Fresh, SyncPush(c, j)
        PROVE  TInv'
    <3>1. j \in Jobs BY DEF Fresh
    <3>2. Accept(j, c) BY <2>2 DEF SyncPush
    <3> QED
      BY <2>2, <3>1, <3>2, AcceptType DEF SyncPush, TypeOK, StackInv
  <2>3. ASSUME NEW c \in Clients, ClientStep(c)
        PROVE  TInv'
    <3> DEFINE State == [at : {"idle", "asyncNotify", "syncNotify", "test", "waiting"}, job : Jobs \cup {NoJob}]
    <3>1. client' \in [Clients -> State]
      <4>1. client \in [Clients -> State] /\ Idle \in State
        BY DEF TypeOK, Idle
      <4>2. PICK s \in State : client' = [client EXCEPT ![c] = s]
        BY <2>3, <4>1 DEF ClientStep, Notify, TestFinished, SyncReturn
      <4> QED
        BY <4>1, <4>2
    <3>2. sem' \in Nat
      BY <2>3 DEF ClientStep, Notify, TestFinished, SyncReturn, TypeOK, queueVars
    <3> QED
      BY <2>3, <3>1, <3>2
      DEF ClientStep, Notify, TestFinished, SyncReturn, TypeOK, StackInv, queueVars, history
  <2>4. ASSUME NEW j \in Fresh, InlineCall(j)
        PROVE  TInv'
    <3>1. j \in Jobs BY DEF Fresh
    <3>2. /\ stack' \in Seq(Jobs) /\ stack'[1] = stack[1]
      BY <2>4, <3>1, AppendProperties, EmptySeq DEF InlineCall, TypeOK
    <3> QED
      BY <2>4, <3>1, <3>2 DEF InlineCall, TypeOK, StackInv, queueVars
  <2>5. ASSUME NEW j \in Fresh, ForceCall(j)
        PROVE  TInv'
    <3>1. j \in Jobs BY DEF Fresh
    <3>2. Accept(j, NoClient) BY <2>5 DEF ForceCall
    <3> QED
      BY <2>5, <3>1, <3>2, AcceptType DEF ForceCall, TypeOK, StackInv, threadVars
  <2>6. CASE WorkerCheck
    BY <2>6 DEF WorkerCheck, TypeOK, StackInv, queueVars, history
  <2>7. CASE WorkerSwap
    BY <2>7, EmptySeq DEF WorkerSwap, TypeOK, StackInv, history
  <2>8. CASE WorkerGate
    BY <2>8 DEF WorkerGate, TypeOK, StackInv, queueVars, history
  <2>9. CASE JobStart
    <3>1. Head(tempJobs).job \in Jobs
      BY <2>9, HeadOfWork DEF JobStart, TypeOK
    <3>2. stack' \in Seq(Jobs) /\ stack'[1] = Head(tempJobs).job
      BY <2>9, <3>1 DEF JobStart
    <3>3. started' \in Seq(Jobs)
      BY <2>9, <3>1, AppendProperties DEF JobStart, TypeOK
    <3> QED
      BY <2>9, <3>2, <3>3 DEF JobStart, TypeOK, StackInv, queueVars
  <2>10. CASE InlineReturn
    <3>1. Len(stack) \in Nat /\ Len(stack) > 1
      BY <2>10, LenProperties DEF InlineReturn, TypeOK
    <3>2. \A i \in 1..Len(stack) : stack[i] \in Jobs
      BY ElementOfSeq DEF TypeOK
    <3>3. /\ Front(stack) \in Seq(Jobs)
          /\ Front(stack)[1] = stack[1]
      BY <3>1, <3>2, SubSeqProperties DEF Front
    <3>4. Last(stack) \in Jobs
      BY <3>1, <3>2 DEF Last
    <3>5. stack # <<>>
      BY <3>1, EmptySeq
    <3> QED
      BY <2>10, <3>3, <3>4, <3>5 DEF InlineReturn, TypeOK, StackInv, queueVars
  <2>11. CASE JobEnd
    <3>1. stack # <<>>
      BY <2>11, EmptySeq DEF JobEnd
    <3>2. Head(stack) \in Jobs
      BY <3>1, HeadTailProperties DEF TypeOK
    <3>3. tempJobs # <<>>
      BY <3>1 DEF StackInv
    <3>4. tempJobs' \in Seq(Work)
      BY <2>11, <3>3, HeadOfWork DEF JobEnd, TypeOK
    <3> QED
      BY <2>11, <3>2, <3>4, EmptySeq DEF JobEnd, TypeOK, StackInv
  <2>12. CASE BatchEnd
    BY <2>12 DEF BatchEnd, TypeOK, StackInv, queueVars, history
  <2>13. CASE WorkerWake
    BY <2>13 DEF WorkerWake, TypeOK, StackInv, history
  <2>14. CASE Finish
    <3>1. Ids(jobs) \in Seq(Jobs)
      BY IdsType DEF TypeOK
    <3> QED
      BY <2>14, <3>1, EmptySeq DEF Finish, TypeOK, StackInv
  <2>15. CASE FinishNotify
    BY <2>15 DEF FinishNotify, TypeOK, StackInv, history
  <2>16. CASE Join
    BY <2>16 DEF Join, TypeOK, StackInv, queueVars, history
  <2>17. CASE UNCHANGED vars
    BY <2>17 DEF vars, queueVars, threadVars, history, TypeOK, StackInv
  <2> QED
    BY <2>1, <2>2, <2>3, <2>4, <2>5, <2>6, <2>7, <2>8, <2>9, <2>10, <2>11,
       <2>12, <2>13, <2>14, <2>15, <2>16, <2>17 DEF Next, WorkerStep
<1> QED
  BY <1>1, <1>2

\* What runs on the worker thread is the head of its batch.
THEOREM TypeInvariant == Spec => []TInv
BY TypeStep, PTL DEF Spec

\* Every field of the queue keeps to its type whatever the threads do.
THEOREM TypeCorrect == Spec => []TypeOK
<1>1. TInv => TypeOK
  BY DEF TInv
<1> QED
  BY <1>1, TypeInvariant, PTL

-----------------------------------------------------------------------------
(* No wakeup is lost.                                                      *)

\* Every step keeps WakeInv: a push that has not notified yet is a Notifying
\* client, and the worker looks at _jobs again after each count it takes.
LEMMA WakeStep ==
    ASSUME TInv, TInv', WakeInv, [Next]_vars
    PROVE  WakeInv'
<1> USE DEF TInv, WakeInv, Notifying
<1>1. ASSUME NEW c \in Clients, NEW j \in Fresh, AsyncPush(c, j)
      PROVE  WakeInv'
  BY <1>1 DEF AsyncPush, TypeOK
<1>2. ASSUME NEW c \in Clients, NEW j \in Fresh, SyncPush(c, j)
      PROVE  WakeInv'
  BY <1>2 DEF SyncPush, TypeOK
<1>3. ASSUME NEW c \in Clients, Notify(c)
      PROVE  WakeInv'
  BY <1>3 DEF Notify, TypeOK
<1>4. ASSUME NEW c \in Clients, TestFinished(c) \/ SyncReturn(c)
      PROVE  WakeInv'
  BY <1>4 DEF TestFinished, SyncReturn, TypeOK, queueVars
<1>5. ASSUME NEW j \in Fresh, InlineCall(j) \/ ForceCall(j)
      PROVE  WakeInv'
  BY <1>5 DEF InlineCall, ForceCall, TypeOK, queueVars, threadVars
<1>6. CASE WorkerCheck \/ WorkerSwap \/ WorkerGate
  BY <1>6 DEF WorkerCheck, WorkerSwap, WorkerGate, TypeOK, queueVars
<1>7. CASE JobStart \/ InlineReturn \/ JobEnd \/ BatchEnd \/ WorkerWake
  BY <1>7 DEF JobStart, InlineReturn, JobEnd, BatchEnd, WorkerWake, TypeOK, queueVars
<1>8. CASE Finish \/ FinishNotify \/ Join
  BY <1>8 DEF Finish, FinishNotify, Join, TypeOK, queueVars
<1>9. CASE UNCHANGED vars
  BY <1>9 DEF vars, queueVars, threadVars
<1> QED
  BY <1>1, <1>2, <1>3, <1>4, <1>5, <1>6, <1>7, <1>8, <1>9 DEF Next, ClientStep, WorkerStep

\* A worker asleep with work to do, or with a destructor waiting for it, is
\* always about to be woken, however many threads push.
THEOREM WakeupsAreNotLost == Spec => []NoLostWakeup
<1>1. Init => WakeInv
  BY DEF Init, WakeInv
<1>2. TInv /\ WakeInv => NoLostWakeup
  BY DEF TInv, TypeOK, WakeInv, NoLostWakeup, Notifying
<1> QED
  BY <1>1, <1>2, WakeStep, TypeInvariant, PTL DEF Spec

-----------------------------------------------------------------------------
(* sync and its waiters.                                                   *)

\* Every step keeps BatchInv: the batch shrinks only at the end of a job.
LEMMA BatchStep ==
    ASSUME TInv, BatchInv, [Next]_vars
    PROVE  BatchInv'
<1> USE DEF TInv, BatchInv
<1>1. ASSUME NEW c \in Clients, NEW j \in Fresh, AsyncPush(c, j) \/ SyncPush(c, j)
      PROVE  BatchInv'
  BY <1>1 DEF AsyncPush, SyncPush
<1>2. ASSUME NEW c \in Clients, ClientStep(c)
      PROVE  BatchInv'
  BY <1>2 DEF ClientStep, Notify, TestFinished, SyncReturn, queueVars
<1>3. ASSUME NEW j \in Fresh, InlineCall(j) \/ ForceCall(j)
      PROVE  BatchInv'
  BY <1>3 DEF InlineCall, ForceCall, queueVars, threadVars
<1>4. CASE WorkerCheck \/ WorkerSwap \/ WorkerGate
  BY <1>4 DEF WorkerCheck, WorkerSwap, WorkerGate, queueVars
<1>5. CASE JobStart \/ InlineReturn \/ BatchEnd \/ WorkerWake
  BY <1>5 DEF JobStart, InlineReturn, BatchEnd, WorkerWake, queueVars
<1>6. CASE JobEnd
  <2>1. worker = "run"
    BY <1>6, EmptySeq DEF JobEnd, StackInv
  <2> QED
    BY <1>6, <2>1 DEF JobEnd
<1>7. CASE Finish \/ FinishNotify \/ Join
  BY <1>7 DEF Finish, FinishNotify, Join, queueVars
<1>8. CASE UNCHANGED vars
  BY <1>8 DEF vars, queueVars, threadVars
<1> QED
  BY <1>1, <1>2, <1>3, <1>4, <1>5, <1>6, <1>7, <1>8 DEF Next, WorkerStep

\* The worker never overwrites a batch it has not used up, unless the queue is
\* finished (maybeDispatchWorker assigns _tempJobs without looking at it).
THEOREM BatchInvariant == Spec => []BatchInv
<1>1. Init => BatchInv
  BY DEF Init, BatchInv
<1> QED
  BY <1>1, BatchStep, TypeInvariant, PTL DEF Spec

\* Every step keeps SignalInv: the notify comes after the work.
LEMMA SignalStep ==
    ASSUME TInv, SignalInv, [Next]_vars
    PROVE  SignalInv'
<1> USE DEF SignalInv
<1>1. ASSUME NEW c \in Clients, NEW j \in Fresh, AsyncPush(c, j) \/ SyncPush(c, j)
      PROVE  SignalInv'
  BY <1>1 DEF AsyncPush, SyncPush
<1>2. ASSUME NEW c \in Clients, ClientStep(c)
      PROVE  SignalInv'
  BY <1>2 DEF ClientStep, Notify, TestFinished, SyncReturn, history
<1>3. ASSUME NEW j \in Fresh, InlineCall(j) \/ ForceCall(j)
      PROVE  SignalInv'
  BY <1>3 DEF InlineCall, ForceCall, threadVars
<1>4. CASE WorkerStep
  BY <1>4 DEF WorkerStep, WorkerCheck, WorkerSwap, WorkerGate, JobStart, InlineReturn, JobEnd,
              BatchEnd, WorkerWake, history
<1>5. CASE Finish \/ FinishNotify \/ Join
  BY <1>5 DEF Finish, FinishNotify, Join, history
<1>6. CASE UNCHANGED vars
  BY <1>6 DEF vars, threadVars, history
<1> QED
  BY <1>1, <1>2, <1>3, <1>4, <1>5, <1>6 DEF Next

\* sync returns while the queue is alive only after its job has run.
THEOREM SyncReturnsAreDone == Spec => SyncMeansDone
<1>1. Init => SignalInv
  BY DEF Init, SignalInv
<1>2. ASSUME TInv, SignalInv, [Next]_vars
      PROVE  [\A c \in Clients :
                 (client[c].at \in {"test", "waiting"} /\ client'[c].at = "idle") =>
                     client[c].job \in ended \/ finished]_vars
  <2> SUFFICES ASSUME NEW c \in Clients,
                      client[c].at \in {"test", "waiting"}, client'[c].at = "idle",
                      Next
               PROVE  client[c].job \in ended \/ finished
    BY <1>2
  <2>1. client[c] # client'[c]
    OBVIOUS
  <2>2. client \in [Clients -> [at : {"idle", "asyncNotify", "syncNotify", "test", "waiting"},
                                job : Jobs \cup {NoJob}]]
    BY <1>2 DEF TInv, TypeOK
  <2>3. ASSUME NEW d \in Clients, NEW j \in Fresh, AsyncPush(d, j) \/ SyncPush(d, j)
        PROVE  FALSE
    BY <2>1, <2>2, <2>3 DEF AsyncPush, SyncPush
  <2>4. ASSUME NEW d \in Clients, Notify(d)
        PROVE  FALSE
    BY <2>1, <2>2, <2>4 DEF Notify
  <2>5. ASSUME NEW d \in Clients, TestFinished(d) \/ SyncReturn(d)
        PROVE  client[c].job \in ended \/ finished
    BY <1>2, <2>1, <2>2, <2>5 DEF TestFinished, SyncReturn, SignalInv
  <2>6. client' = client =>  client[c].job \in ended \/ finished
    BY <2>1
  <2> QED
    BY <2>3, <2>4, <2>5, <2>6
    DEF Next, ClientStep, InlineCall, ForceCall, WorkerStep, WorkerCheck, WorkerSwap, WorkerGate,
        JobStart, InlineReturn, JobEnd, BatchEnd, WorkerWake, Finish, FinishNotify, Join, threadVars
<1> QED
  BY <1>1, <1>2, SignalStep, TypeInvariant, PTL DEF Spec, SyncMeansDone

\* The members of a sequence after Append.
LEMMA ToSetAppend ==
    ASSUME NEW S, NEW s \in Seq(S), NEW e \in S
    PROVE  ToSet(Append(s, e)) = ToSet(s) \cup {e}
<1>1. /\ Len(s) \in Nat /\ DOMAIN s = 1..Len(s)
      /\ DOMAIN Append(s, e) = 1..(Len(s) + 1)
  BY LenProperties, AppendProperties
<1>2. /\ \A i \in 1..Len(s) : Append(s, e)[i] = s[i]
      /\ Append(s, e)[Len(s) + 1] = e
  BY AppendProperties
<1> QED
  BY <1>1, <1>2 DEF ToSet

\* The members of a sequence are its head and the members of its tail.
LEMMA ToSetTail ==
    ASSUME NEW S, NEW s \in Seq(S), s # <<>>
    PROVE  ToSet(s) = {Head(s)} \cup ToSet(Tail(s))
<1>1. /\ Len(s) \in Nat \ {0} /\ DOMAIN s = 1..Len(s)
  BY LenProperties, EmptySeq
<1>2. /\ DOMAIN Tail(s) = 1..(Len(s) - 1)
      /\ \A i \in 1..(Len(s) - 1) : Tail(s)[i] = s[i + 1]
  BY HeadTailProperties, LenProperties
<1>3. Head(s) = s[1]
  OBVIOUS
<1>4. \A i \in 1..Len(s) : i = 1 \/ i - 1 \in 1..(Len(s) - 1)
  BY <1>1
<1>5. \A i \in 1..(Len(s) - 1) : i + 1 \in 1..Len(s)
  BY <1>1
<1>6. ToSet(s) \subseteq {Head(s)} \cup ToSet(Tail(s))
  <2> SUFFICES ASSUME NEW i \in 1..Len(s)
               PROVE  s[i] \in {Head(s)} \cup ToSet(Tail(s))
    BY <1>1 DEF ToSet
  <2>1. CASE i = 1
    BY <2>1, <1>3
  <2>2. CASE i - 1 \in 1..(Len(s) - 1)
    <3>1. Tail(s)[i - 1] = s[i]
      BY <1>2, <2>2
    <3> QED
      BY <3>1, <1>2, <2>2 DEF ToSet
  <2> QED
    BY <2>1, <2>2, <1>4
<1>7. {Head(s)} \cup ToSet(Tail(s)) \subseteq ToSet(s)
  BY <1>1, <1>2, <1>3, <1>5 DEF ToSet
<1> QED
  BY <1>6, <1>7

\* A push adds the work to _jobs unless the queue is finished.
LEMMA AcceptAdds ==
    ASSUME TypeOK, NEW j \in Jobs, NEW w \in Clients \cup {NoClient}, Accept(j, w)
    PROVE  /\ finished => jobs' = jobs
           /\ ~finished => ToSet(jobs') = ToSet(jobs) \cup {[job |-> j, waiter |-> w]}
           /\ ToSet(jobs) \subseteq ToSet(jobs')
<1>1. [job |-> j, waiter |-> w] \in Work
  BY DEF Work
<1>2. ToSet(Append(jobs, [job |-> j, waiter |-> w])) = ToSet(jobs) \cup {[job |-> j, waiter |-> w]}
  BY <1>1, ToSetAppend DEF TypeOK
<1>3. CASE finished
  BY <1>3 DEF Accept
<1>4. CASE ~finished
  <2>1. jobs' = Append(jobs, [job |-> j, waiter |-> w])
    BY <1>4 DEF Accept
  <2> QED
    BY <1>2, <1>4, <2>1
<1> QED
  BY <1>3, <1>4

\* c's work is done, or it is in one of the deques, or the queue is finished
Served(c) ==
    \/ client[c].job \in signalled
    \/ \E w \in ToSet(tempJobs) \cup ToSet(jobs) : w.job = client[c].job /\ w.waiter = c
    \/ finished

\* Every step keeps ServedInv: work leaves the deques only when its waiter is
\* notified, or with the destructor.
LEMMA ServedStep ==
    ASSUME TInv, BatchInv, ServedInv, [Next]_vars
    PROVE  ServedInv'
<1> DEFINE InSync(c) == client[c].at \in {"syncNotify", "test", "waiting"}
<1>0. \A c \in Clients : InSync(c) => Served(c)
  BY DEF ServedInv, Served
<1> SUFFICES ASSUME NEW c \in Clients, InSync(c)'
             PROVE  Served(c)'
  BY DEF ServedInv, Served
<1>a. client \in [Clients -> [at : {"idle", "asyncNotify", "syncNotify", "test", "waiting"},
                              job : Jobs \cup {NoJob}]]
  BY DEF TInv, TypeOK
<1>b. jobs \in Seq(Work) /\ tempJobs \in Seq(Work)
  BY DEF TInv, TypeOK
<1>1. ASSUME NEW d \in Clients, NEW j \in Fresh, AsyncPush(d, j)
      PROVE  Served(c)'
  <2>1. c # d /\ client'[c] = client[c]
    BY <1>1, <1>a DEF AsyncPush
  <2>2. ToSet(jobs) \subseteq ToSet(jobs')
    <3>1. j \in Jobs /\ Accept(j, NoClient)
      BY <1>1 DEF AsyncPush, Fresh
    <3> QED
      BY <3>1, AcceptAdds DEF TInv
  <2> QED
    BY <1>0, <1>1, <2>1, <2>2 DEF AsyncPush, Served
<1>2. ASSUME NEW d \in Clients, NEW j \in Fresh, SyncPush(d, j)
      PROVE  Served(c)'
  <2>1. j \in Jobs /\ Accept(j, d)
    BY <1>2 DEF SyncPush, Fresh
  <2>2. /\ finished \/ ToSet(jobs') = ToSet(jobs) \cup {[job |-> j, waiter |-> d]}
        /\ ToSet(jobs) \subseteq ToSet(jobs')
    BY <2>1, AcceptAdds DEF TInv
  <2>3. CASE c = d
    <3>1. client'[c].job = j
      BY <1>2, <1>a, <2>3 DEF SyncPush
    <3>2. CASE finished
      BY <1>2, <3>2 DEF SyncPush, Served
    <3>3. CASE [job |-> j, waiter |-> d] \in ToSet(jobs')
      <4>1. [job |-> j, waiter |-> d].job = client'[c].job /\ [job |-> j, waiter |-> d].waiter = c
        BY <2>3, <3>1
      <4> QED
        BY <3>3, <4>1 DEF Served
    <3> QED
      BY <2>2, <3>2, <3>3
  <2>4. CASE c # d
    <3>1. client'[c] = client[c]
      BY <1>2, <1>a, <2>4 DEF SyncPush
    <3> QED
      BY <1>0, <1>2, <2>2, <3>1 DEF SyncPush, Served
  <2> QED
    BY <2>3, <2>4
<1>3. ASSUME NEW d \in Clients, ClientStep(d)
      PROVE  Served(c)'
  <2>1. InSync(c) /\ client'[c].job = client[c].job
    <3>1. client'[c].at # "idle"
      OBVIOUS
    <3>2. CASE Notify(d)
      BY <1>a, <3>1, <3>2 DEF Notify, Idle
    <3>3. CASE TestFinished(d)
      BY <1>a, <3>1, <3>3 DEF TestFinished, Idle
    <3>4. CASE SyncReturn(d)
      BY <1>a, <3>1, <3>4 DEF SyncReturn, Idle
    <3> QED
      BY <1>3, <3>2, <3>3, <3>4 DEF ClientStep
  <2>2. UNCHANGED <<tempJobs, jobs, finished, signalled>>
    BY <1>3 DEF ClientStep, Notify, TestFinished, SyncReturn, queueVars
  <2> QED
    BY <1>0, <2>1, <2>2 DEF Served
<1>4. ASSUME NEW j \in Fresh, ForceCall(j)
      PROVE  Served(c)'
  <2>1. ToSet(jobs) \subseteq ToSet(jobs')
    <3>1. j \in Jobs /\ Accept(j, NoClient)
      BY <1>4 DEF ForceCall, Fresh
    <3> QED
      BY <3>1, AcceptAdds DEF TInv
  <2> QED
    BY <1>0, <1>4, <2>1 DEF ForceCall, Served, threadVars
<1>5. CASE WorkerSwap
  <2>1. ToSet(tempJobs) = {}
    BY <1>5, EmptySeq DEF WorkerSwap, BatchInv, ToSet
  <2> QED
    BY <1>0, <1>5, <2>1 DEF WorkerSwap, Served
<1>6. CASE JobEnd
  <2>1. stack # <<>>
    BY <1>6, EmptySeq DEF JobEnd
  <2>2. tempJobs # <<>> /\ Head(stack) = Head(tempJobs).job
    BY <2>1 DEF TInv, StackInv
  <2>3. ToSet(tempJobs) = {Head(tempJobs)} \cup ToSet(tempJobs')
    BY <1>6, <1>b, <2>2, ToSetTail DEF JobEnd
  <2>4. signalled \subseteq signalled'
    BY <1>6 DEF JobEnd
  <2>5. ASSUME Head(tempJobs).waiter = c
        PROVE  Head(tempJobs).job \in signalled'
    <3>1. c # NoClient
      BY QueueAssumption
    <3> QED
      BY <1>6, <2>2, <2>5, <3>1 DEF JobEnd
  <2>6. UNCHANGED <<jobs, finished, client>>
    BY <1>6 DEF JobEnd
  <2> QED
    BY <1>0, <2>3, <2>4, <2>5, <2>6 DEF Served
<1>7. CASE Finish
  BY <1>7 DEF Finish, Served
<1>8. ASSUME \/ \E j \in Fresh : InlineCall(j)
             \/ WorkerCheck \/ WorkerGate \/ JobStart \/ InlineReturn \/ BatchEnd \/ WorkerWake
             \/ FinishNotify \/ Join \/ UNCHANGED vars
      PROVE  Served(c)'
  <2>1. UNCHANGED <<tempJobs, jobs, finished, signalled, client>>
    BY <1>8 DEF InlineCall, WorkerCheck, WorkerGate, JobStart, InlineReturn, BatchEnd, WorkerWake,
                FinishNotify, Join, vars, queueVars, threadVars
  <2> QED
    BY <1>0, <2>1 DEF Served
<1> QED
  BY <1>1, <1>2, <1>3, <1>4, <1>5, <1>6, <1>7, <1>8 DEF Next, WorkerStep

\* A thread blocked in sync is owed its notify until it gets it, or the
\* destructor has begun.
THEOREM WaitersAreServed == Spec => []SyncWaiterServed
<1>1. Init => ServedInv
  BY DEF Init, ServedInv, Idle
<1>2. ServedInv => SyncWaiterServed
  BY DEF ServedInv, SyncWaiterServed
<1> QED
  BY <1>1, <1>2, ServedStep, BatchInvariant, TypeInvariant, PTL DEF Spec
-----------------------------------------------------------------------------
(* The order of the jobs.                                                  *)

\* Ids of an empty deque.
LEMMA IdsEmpty == Ids(<<>>) = <<>>
BY DEF Ids

\* Ids of a deque after emplace_back.
LEMMA IdsAppend ==
    ASSUME NEW s \in Seq(Work), NEW w \in Work
    PROVE  Ids(Append(s, w)) = Append(Ids(s), w.job)
<1>1. /\ Append(s, w) \in Seq(Work)
      /\ Len(Append(s, w)) = Len(s) + 1
      /\ \A i \in 1..Len(s) : Append(s, w)[i] = s[i]
      /\ Append(s, w)[Len(s) + 1] = w
      /\ Len(s) \in Nat /\ w.job \in Jobs
  BY AppendProperties, LenProperties, WorkFields
<1>2. /\ Ids(s) \in Seq(Jobs) /\ Len(Ids(s)) = Len(s)
      /\ Ids(Append(s, w)) \in Seq(Jobs) /\ Len(Ids(Append(s, w))) = Len(s) + 1
  BY <1>1, IdsType
<1>3. /\ Append(Ids(s), w.job) \in Seq(Jobs)
      /\ Len(Append(Ids(s), w.job)) = Len(s) + 1
      /\ \A i \in 1..Len(s) : Append(Ids(s), w.job)[i] = Ids(s)[i]
      /\ Append(Ids(s), w.job)[Len(s) + 1] = w.job
  BY <1>1, <1>2, AppendProperties
<1>4. /\ \A i \in 1..Len(s) : Ids(s)[i] = s[i].job
      /\ \A i \in 1..(Len(s) + 1) : Ids(Append(s, w))[i] = Append(s, w)[i].job
  BY <1>1, LenProperties DEF Ids
<1>5. ASSUME NEW i \in 1..(Len(s) + 1)
      PROVE  Ids(Append(s, w))[i] = Append(Ids(s), w.job)[i]
  <2>0. Ids(Append(s, w))[i] = Append(s, w)[i].job
    BY <1>4
  <2>1. CASE i \in 1..Len(s)
    <3>1. Append(Ids(s), w.job)[i] = s[i].job
      BY <2>1, <1>3, <1>4
    <3> QED
      BY <2>0, <2>1, <3>1, <1>1
  <2>2. CASE i = Len(s) + 1
    <3>1. Append(s, w)[i] = w /\ Append(Ids(s), w.job)[i] = w.job
      BY ONLY <2>2, <1>1, <1>3
    <3> QED
      BY ONLY <2>0, <3>1
  <2>3. i \in 1..Len(s) \/ i = Len(s) + 1
    <3>1. Len(s) \in Nat /\ i \in 1..(Len(s) + 1)
      BY <1>1
    <3> QED
      BY ONLY <3>1
  <2> QED
    BY <2>1, <2>2, <2>3
<1> QED
  BY <1>2, <1>3, <1>5, SeqEqual

\* Ids of a deque and of what pop_front leaves of it.
LEMMA IdsTail ==
    ASSUME NEW s \in Seq(Work), s # <<>>
    PROVE  Ids(s) = <<Head(s).job>> \o Ids(Tail(s))
<1>1. /\ Len(s) \in Nat \ {0} /\ Tail(s) \in Seq(Work) /\ Len(Tail(s)) = Len(s) - 1
      /\ \A i \in 1..(Len(s) - 1) : Tail(s)[i] = s[i + 1]
      /\ Head(s) = s[1] /\ Head(s).job \in Jobs
  BY HeadTailProperties, HeadOfWork, EmptySeq
<1>2. /\ Ids(s) \in Seq(Jobs) /\ Len(Ids(s)) = Len(s)
      /\ Ids(Tail(s)) \in Seq(Jobs) /\ Len(Ids(Tail(s))) = Len(s) - 1
  BY <1>1, IdsType
<1>3. <<Head(s).job>> \in Seq(Jobs) /\ Len(<<Head(s).job>>) = 1
  BY <1>1
<1> DEFINE both == <<Head(s).job>> \o Ids(Tail(s))
<1>4. /\ both \in Seq(Jobs) /\ Len(both) = Len(s)
      /\ \A i \in 1..Len(s) : both[i] = IF i <= 1 THEN <<Head(s).job>>[i] ELSE Ids(Tail(s))[i - 1]
  <2> DEFINE first == <<Head(s).job>>
             rest == Ids(Tail(s))
  <2>1. /\ first \in Seq(Jobs) /\ Len(first) = 1
        /\ rest \in Seq(Jobs) /\ Len(rest) = Len(s) - 1
    BY <1>2, <1>3
  <2> HIDE DEF first, rest
  <2>2. /\ first \o rest \in Seq(Jobs)
        /\ Len(first \o rest) = Len(first) + Len(rest)
        /\ \A i \in 1..Len(first) + Len(rest) :
               (first \o rest)[i] = IF i <= Len(first) THEN first[i] ELSE rest[i - Len(first)]
    BY <2>1, ConcatProperties
  <2>3. Len(first) + Len(rest) = Len(s)
    BY <1>1, <2>1
  <2>4. /\ first \o rest \in Seq(Jobs) /\ Len(first \o rest) = Len(s)
        /\ \A i \in 1..Len(s) : (first \o rest)[i] = IF i <= 1 THEN first[i] ELSE rest[i - 1]
    BY <2>1, <2>2, <2>3
  <2> QED
    BY <2>4 DEF first, rest
<1>5. /\ \A i \in 1..Len(s) : Ids(s)[i] = s[i].job
      /\ \A i \in 1..(Len(s) - 1) : Ids(Tail(s))[i] = Tail(s)[i].job
  BY <1>1, LenProperties DEF Ids
<1>6. ASSUME NEW i \in 1..Len(s)
      PROVE  Ids(s)[i] = both[i]
  <2>1. CASE i = 1
    BY <2>1, <1>1, <1>4, <1>5
  <2>2. CASE i # 1
    <3>1. i - 1 \in 1..(Len(s) - 1) /\ ~(i <= 1)
      BY <2>2, <1>1
    <3>2. Ids(Tail(s))[i - 1] = s[i].job
      BY <3>1, <1>1, <1>5
    <3> QED
      BY <3>1, <3>2, <1>4, <1>5
  <2> QED
    BY <2>1, <2>2
<1> HIDE DEF both
<1>7. Ids(s) = both
  BY <1>2, <1>4, <1>6, SeqEqual
<1> QED
  BY <1>7 DEF both

\* Nothing is accepted, and nothing is left in _jobs, once the destructor began.
LEMMA OwnerStep ==
    ASSUME OwnerInv, [Next]_vars
    PROVE  OwnerInv'
<1> USE DEF OwnerInv
<1>1. ASSUME NEW c \in Clients, NEW j \in Fresh, AsyncPush(c, j) \/ SyncPush(c, j)
      PROVE  OwnerInv'
  BY <1>1 DEF AsyncPush, SyncPush, Accept
<1>2. ASSUME NEW c \in Clients, ClientStep(c)
      PROVE  OwnerInv'
  BY <1>2 DEF ClientStep, Notify, TestFinished, SyncReturn, queueVars, history
<1>3. ASSUME NEW j \in Fresh, InlineCall(j) \/ ForceCall(j)
      PROVE  OwnerInv'
  BY <1>3 DEF InlineCall, ForceCall, Accept, queueVars, threadVars
<1>4. CASE WorkerStep
  BY <1>4 DEF WorkerStep, WorkerCheck, WorkerSwap, WorkerGate, JobStart, InlineReturn, JobEnd,
              BatchEnd, WorkerWake, queueVars, history
<1>5. CASE Finish \/ FinishNotify \/ Join
  BY <1>5 DEF Finish, FinishNotify, Join, queueVars, history
<1>6. CASE UNCHANGED vars
  BY <1>6 DEF vars, queueVars, threadVars, history
<1> QED
  BY <1>1, <1>2, <1>3, <1>4, <1>5, <1>6 DEF Next

\* The batch without the running job is a deque.
LEMMA UnstartedType ==
    ASSUME TInv
    PROVE  Unstarted \in Seq(Work)
BY HeadOfWork DEF TInv, TypeOK, StackInv, Unstarted

\* A push keeps the order: it adds the job at the end of both sides.
LEMMA FifoAccept ==
    ASSUME TInv, OwnerInv, Fifo, NEW j \in Jobs, NEW w \in Clients \cup {NoClient}, Accept(j, w),
           UNCHANGED <<tempJobs, stack, started, dropped>>
    PROVE  Fifo'
<1>1. Unstarted' = Unstarted
  BY DEF Unstarted
<1>2. CASE finished
  BY <1>1, <1>2 DEF Accept, Fifo
<1>3. CASE ~finished
  <2> DEFINE new == [job |-> j, waiter |-> w]
             before == started \o Ids(Unstarted)
  <2>1. new \in Work /\ new.job = j
    BY DEF Work
  <2>2. jobs' = Append(jobs, new) /\ order' = Append(order, j) /\ dropped = <<>> /\ dropped' = <<>>
    BY <1>3 DEF Accept, OwnerInv
  <2>3. before \in Seq(Jobs) /\ Ids(jobs) \in Seq(Jobs) /\ order \in Seq(Jobs) /\ <<j>> \in Seq(Jobs)
    BY UnstartedType, IdsType, ConcatProperties DEF TInv, TypeOK
  <2>4. before' = before
    BY <1>1 DEF Ids
  <2> HIDE DEF before, new
  <2>5. before \o Ids(jobs) \in Seq(Jobs)
    BY <2>3, ConcatProperties
  <2>6. order = before \o Ids(jobs)
    BY <2>2, <2>5, ConcatEmptySeq DEF Fifo, before
  <2>7. Ids(jobs') = Ids(jobs) \o <<j>>
    BY ZenonT(30), <2>1, <2>2, <2>3, IdsAppend, AppendIsConcat DEF TInv, TypeOK
  <2>8. order' = (before \o Ids(jobs)) \o <<j>>
    BY <2>2, <2>3, <2>6, AppendIsConcat
  <2>9. order' = before \o Ids(jobs')
    BY <2>3, <2>7, <2>8, ConcatAssociative
  <2>10. before \o Ids(jobs') \in Seq(Jobs)
    BY <2>3, <2>7, ConcatProperties
  <2>11. order' = (before \o Ids(jobs')) \o <<>>
    BY <2>9, <2>10, ConcatEmptySeq
  <2> QED
    BY <2>2, <2>4, <2>11 DEF Fifo, before, Ids
<1> QED
  BY <1>2, <1>3

\* A step that leaves the deques, what began and what is cleared keeps the order.
LEMMA FifoFrame ==
    ASSUME Fifo, UNCHANGED <<order, started, Ids(Unstarted), jobs, dropped>>
    PROVE  Fifo'
BY DEF Fifo, Ids

\* Every step keeps Fifo.
LEMMA FifoStep ==
    ASSUME TInv, TInv', BatchInv, OwnerInv, Fifo, [Next]_vars
    PROVE  Fifo'
<1>1. ASSUME NEW c \in Clients, NEW j \in Fresh, AsyncPush(c, j)
      PROVE  Fifo'
  <2>1. j \in Jobs /\ Accept(j, NoClient)
    BY <1>1 DEF AsyncPush, Fresh
  <2> QED
    BY <1>1, <2>1, FifoAccept DEF AsyncPush
<1>2. ASSUME NEW c \in Clients, NEW j \in Fresh, SyncPush(c, j)
      PROVE  Fifo'
  <2>1. j \in Jobs /\ Accept(j, c)
    BY <1>2 DEF SyncPush, Fresh
  <2> QED
    BY <1>2, <2>1, FifoAccept DEF SyncPush
<1>3. ASSUME NEW j \in Fresh, ForceCall(j)
      PROVE  Fifo'
  <2>1. j \in Jobs /\ Accept(j, NoClient)
    BY <1>3 DEF ForceCall, Fresh
  <2> QED
    BY <1>3, <2>1, FifoAccept DEF ForceCall, threadVars
<1>4. ASSUME UNCHANGED <<order, started, tempJobs, stack, jobs, dropped>>
      PROVE  Fifo'
  BY <1>4, FifoFrame DEF Unstarted, Ids
<1>5. ASSUME NEW j \in Fresh, InlineCall(j)
      PROVE  Fifo'
  <2>1. stack # <<>> /\ stack' # <<>>
    <3>1. stack \in Seq(Jobs) /\ j \in Jobs
      BY DEF TInv, TypeOK, Fresh
    <3>2. Append(stack, j) # <<>>
      BY <3>1, AppendProperties
    <3> QED
      BY <1>5, <3>2 DEF InlineCall
  <2> QED
    BY <1>5, <2>1, FifoFrame DEF InlineCall, Unstarted, Ids, queueVars
<1>6. CASE InlineReturn
  <2>1. Len(stack) \in Nat /\ Len(stack) > 1
    BY <1>6, LenProperties DEF InlineReturn, TInv, TypeOK
  <2>2. stack # <<>> /\ Len(Front(stack)) = Len(stack) - 1
    BY <2>1, EmptySeq, SubSeqProperties DEF Front, TInv, TypeOK
  <2>3. stack' # <<>>
    BY <1>6, <2>1, <2>2, EmptySeq DEF InlineReturn
  <2> QED
    BY <1>6, <2>2, <2>3, FifoFrame DEF InlineReturn, Unstarted, Ids, queueVars
<1>7. CASE WorkerSwap
  <2>1. tempJobs = <<>> /\ stack = <<>>
    BY <1>7 DEF WorkerSwap, BatchInv, TInv, StackInv
  <2>2. Unstarted = <<>> /\ Unstarted' = jobs /\ jobs' = <<>>
    BY <1>7, <2>1 DEF WorkerSwap, Unstarted
  <2>3. /\ Ids(Unstarted) = <<>> /\ Ids(Unstarted)' = Ids(jobs) /\ Ids(jobs)' = <<>>
    BY <2>2, IdsEmpty DEF Ids
  <2>4. started \in Seq(Jobs) /\ Ids(jobs) \in Seq(Jobs)
    BY IdsType DEF TInv, TypeOK
  <2>5. started \o Ids(jobs) \in Seq(Jobs)
    BY <2>4, ConcatProperties
  <2>6. (started \o <<>>) \o Ids(jobs) = (started \o Ids(jobs)) \o <<>>
    BY <2>4, <2>5, ConcatEmptySeq
  <2> QED
    BY <1>7, <2>3, <2>6 DEF WorkerSwap, Fifo, history
<1>8. CASE JobStart
  <2>1. stack = <<>> /\ tempJobs # <<>> /\ stack' # <<>> /\ tempJobs' = tempJobs
    BY <1>8 DEF JobStart, queueVars
  <2>2. Unstarted = tempJobs /\ Unstarted' = Tail(tempJobs)
    BY <2>1 DEF Unstarted
  <2> DEFINE j == Head(tempJobs).job
  <2>3. j \in Jobs /\ Tail(tempJobs) \in Seq(Work) /\ started \in Seq(Jobs)
    BY <2>1, HeadOfWork DEF TInv, TypeOK
  <2>4. Ids(tempJobs) = <<j>> \o Ids(Tail(tempJobs))
    BY <2>1, IdsTail DEF TInv, TypeOK
  <2>5. started' = started \o <<j>>
    BY <1>8, <2>3, AppendIsConcat DEF JobStart
  <2>6. <<j>> \in Seq(Jobs) /\ Ids(Tail(tempJobs)) \in Seq(Jobs)
    <3>1. Ids(Tail(tempJobs)) \in Seq(Jobs)
      BY <2>3, IdsType
    <3> HIDE DEF j
    <3>2. <<j>> \in Seq(Jobs)
      BY <2>3
    <3> QED
      BY <3>1, <3>2
  <2> HIDE DEF j
  <2>7. (started \o <<j>>) \o Ids(Tail(tempJobs)) = started \o (<<j>> \o Ids(Tail(tempJobs)))
    BY <2>3, <2>6, ConcatAssociative
  <2>8. started' \o Ids(Unstarted)' = started \o Ids(Unstarted)
    BY <2>2, <2>4, <2>5, <2>7 DEF Ids
  <2> QED
    BY <1>8, <2>8 DEF JobStart, Fifo, Ids, queueVars
<1>9. CASE JobEnd
  <2>1. stack # <<>>
    BY <1>9, EmptySeq DEF JobEnd
  <2> QED
    BY <1>9, <2>1, FifoFrame DEF JobEnd, Unstarted
<1>10. CASE Finish
  <2>1. dropped = <<>> /\ dropped' = Ids(jobs) /\ jobs' = <<>>
    BY <1>10 DEF Finish, OwnerInv
  <2>2. Unstarted' = Unstarted
    BY <1>10 DEF Finish, Unstarted
  <2> DEFINE before == started \o Ids(Unstarted)
  <2>3. before \in Seq(Jobs) /\ Ids(jobs) \in Seq(Jobs)
    BY UnstartedType, IdsType, ConcatProperties DEF TInv, TypeOK
  <2>4. before' = before
    BY <1>10, <2>2 DEF Finish, Ids
  <2>5. Ids(jobs)' = <<>>
    BY <2>1, IdsEmpty DEF Ids
  <2> HIDE DEF before
  <2>6. before \o Ids(jobs) \in Seq(Jobs)
    BY <2>3, ConcatProperties
  <2>7. (before \o Ids(jobs)) \o <<>> = (before \o <<>>) \o Ids(jobs)
    BY <2>3, <2>6, ConcatEmptySeq
  <2> QED
    BY <1>10, <2>1, <2>4, <2>5, <2>7 DEF Finish, Fifo, before
<1>11. ASSUME \/ \E c \in Clients : ClientStep(c)
              \/ WorkerCheck \/ WorkerGate \/ BatchEnd \/ WorkerWake
              \/ FinishNotify \/ Join \/ UNCHANGED vars
       PROVE  UNCHANGED <<order, started, tempJobs, stack, jobs, dropped>>
  BY <1>11 DEF ClientStep, Notify, TestFinished, SyncReturn, WorkerCheck, WorkerGate, BatchEnd,
               WorkerWake, FinishNotify, Join, vars, queueVars, threadVars, history
<1> QED
  BY <1>1, <1>2, <1>3, <1>4, <1>5, <1>6, <1>7, <1>8, <1>9, <1>10, <1>11 DEF Next, WorkerStep

\* No job is lost, repeated or overtaken on its way through the two deques.
THEOREM JobsKeepTheirOrder == Spec => []Fifo
<1>1. Init => OwnerInv /\ Fifo
  <2> SUFFICES ASSUME Init PROVE OwnerInv /\ Fifo
    OBVIOUS
  <2>1. Unstarted = <<>>
    BY DEF Init, Unstarted
  <2>2. Ids(<<>>) = <<>>
    BY IdsEmpty
  <2>3. <<>> \o <<>> \o <<>> \o <<>> = <<>>
    BY ConcatEmptySeq, EmptySeq
  <2> QED
    BY <2>1, <2>2, <2>3 DEF Init, OwnerInv, Fifo
<1> QED
  BY <1>1, OwnerStep, FifoStep, BatchInvariant, TypeInvariant, PTL DEF Spec
-----------------------------------------------------------------------------
(* DispatchQueue implements SerialQueue.                                   *)

\* A job is accepted once and started once; one that has run in place was never
\* accepted, and an accepted one has ended only if it was started.
OnceInv ==
    /\ ToSet(order) \cup ended \cup ToSet(stack) \subseteq issued
    /\ \A i, j \in DOMAIN order : order[i] = order[j] => i = j
    /\ stack # <<>> => stack[1] \in ToSet(started)
    /\ \A i \in 2..Len(stack) : stack[i] \notin ToSet(order)
    /\ ended \cap ToSet(order) \subseteq ToSet(started)

\* One sequence after another.
LEMMA ConcatFacts ==
    ASSUME NEW S, NEW s \in Seq(S), NEW t \in Seq(S)
    PROVE  /\ s \o t \in Seq(S) /\ Len(s) \in Nat /\ Len(t) \in Nat
           /\ DOMAIN s = 1..Len(s) /\ DOMAIN t = 1..Len(t) /\ DOMAIN (s \o t) = 1..(Len(s) + Len(t))
           /\ \A i \in 1..Len(s) : (s \o t)[i] = s[i] /\ i \in DOMAIN (s \o t)
           /\ \A i \in 1..Len(t) : (s \o t)[Len(s) + i] = t[i] /\ Len(s) + i \in DOMAIN (s \o t)
OBVIOUS

\* The members of two sequences in one.
LEMMA ToSetConcat ==
    ASSUME NEW S, NEW s \in Seq(S), NEW t \in Seq(S)
    PROVE  ToSet(s \o t) = ToSet(s) \cup ToSet(t)
<1> DEFINE r == s \o t
<1>1. /\ Len(s) \in Nat /\ Len(t) \in Nat
      /\ DOMAIN s = 1..Len(s) /\ DOMAIN t = 1..Len(t) /\ DOMAIN r = 1..(Len(s) + Len(t))
      /\ \A i \in 1..Len(s) : r[i] = s[i] /\ i \in DOMAIN r
      /\ \A i \in 1..Len(t) : r[Len(s) + i] = t[i] /\ Len(s) + i \in DOMAIN r
  BY ConcatFacts
<1> HIDE DEF r
<1>2. \A i \in DOMAIN r : i \in DOMAIN s \/ \E k \in DOMAIN t : i = Len(s) + k
  <2> SUFFICES ASSUME NEW i \in 1..(Len(s) + Len(t)), ~(i \in 1..Len(s))
               PROVE  \E k \in DOMAIN t : i = Len(s) + k
    BY <1>1
  <2>1. i - Len(s) \in 1..Len(t) /\ i = Len(s) + (i - Len(s))
    BY <1>1
  <2> QED
    BY <1>1, <2>1
<1> QED
  BY SMTT(30), <1>1, <1>2 DEF ToSet, r

\* What was accepted is what was started and what is in the deques.
LEMMA AcceptedHolds ==
    ASSUME TInv, Fifo
    PROVE  /\ Ids(Unstarted) \in Seq(Jobs) /\ Ids(jobs) \in Seq(Jobs)
           /\ Ids(jobs) \o dropped \in Seq(Jobs)
           /\ order = started \o (Ids(Unstarted) \o (Ids(jobs) \o dropped))
           /\ ToSet(order) = ToSet(started) \cup ToSet(Ids(Unstarted))
                             \cup ToSet(Ids(jobs)) \cup ToSet(dropped)
<1> DEFINE u == Ids(Unstarted)
           v == Ids(jobs)
<1>1. /\ u \in Seq(Jobs) /\ v \in Seq(Jobs)
      /\ started \in Seq(Jobs) /\ dropped \in Seq(Jobs)
  BY UnstartedType, IdsType DEF TInv, TypeOK
<1>2. order = started \o u \o v \o dropped
  BY DEF Fifo
<1> HIDE DEF u, v
<1> DEFINE w == v \o dropped
<1>3. w \in Seq(Jobs) /\ ToSet(w) = ToSet(v) \cup ToSet(dropped)
  BY <1>1, ConcatProperties, ToSetConcat
<1>4. (started \o u) \o v \o dropped = (started \o u) \o w
  <2>1. started \o u \in Seq(Jobs)
    BY <1>1, ConcatProperties
  <2> QED
    BY <1>1, <2>1, ConcatAssociative
<1> HIDE DEF w
<1> DEFINE r == u \o w
<1>5. r \in Seq(Jobs) /\ ToSet(r) = ToSet(u) \cup ToSet(w)
  BY <1>1, <1>3, ConcatProperties, ToSetConcat
<1>6. (started \o u) \o w = started \o r
  <2>1. started \in Seq(Jobs) /\ u \in Seq(Jobs) /\ w \in Seq(Jobs)
    BY <1>1, <1>3
  <2>2. (started \o u) \o w = started \o (u \o w)
    BY <2>1, ConcatAssociative
  <2> QED
    BY <2>2
<1> HIDE DEF r
<1>7. ToSet(started \o r) = ToSet(started) \cup ToSet(r)
  BY <1>1, <1>5, ToSetConcat
<1> QED
  BY <1>1, <1>2, <1>3, <1>4, <1>5, <1>6, <1>7 DEF u, v, w, r

\* A push of a job that was not submitted before keeps OnceInv.
LEMMA OnceAccept ==
    ASSUME TInv, OnceInv, NEW j \in Fresh, NEW w \in Clients \cup {NoClient}, Accept(j, w),
           UNCHANGED <<stack, started, ended>>
    PROVE  OnceInv'
<1>1. order \in Seq(Jobs) /\ j \in Jobs /\ j \notin issued /\ issued' = issued \cup {j}
  BY DEF TInv, TypeOK, Fresh, Accept
<1>2. CASE finished
  BY <1>1, <1>2 DEF Accept, OnceInv
<1>3. CASE ~finished
  <2>1. order' = Append(order, j)
    BY <1>3 DEF Accept
  <2>2. ToSet(order') = ToSet(order) \cup {j} /\ j \notin ToSet(order)
    BY <1>1, <2>1, ToSetAppend DEF OnceInv
  <2>3. /\ Len(order) \in Nat /\ DOMAIN order = 1..Len(order)
        /\ DOMAIN order' = 1..(Len(order) + 1)
        /\ \A i \in 1..Len(order) : order'[i] = order[i] /\ order[i] \in ToSet(order)
        /\ order'[Len(order) + 1] = j
    BY <1>1, <2>1, LenProperties, AppendProperties DEF ToSet
  <2>4. \A i, k \in DOMAIN order' : order'[i] = order'[k] => i = k
    BY <2>2, <2>3 DEF OnceInv
  <2>5. \A i \in 2..Len(stack) : stack[i] \in ToSet(stack)
    BY DEF ToSet, TInv, TypeOK
  <2> QED
    BY <1>1, <2>2, <2>4, <2>5 DEF OnceInv
<1> QED
  BY <1>2, <1>3

\* The job at the head of a batch has not been started before.
LEMMA HeadIsNew ==
    ASSUME TInv, Fifo, OnceInv, tempJobs # <<>>, stack = <<>>
    PROVE  /\ Head(tempJobs).job \in ToSet(order) \ ToSet(started)
           /\ Head(tempJobs).job \notin ended
<1> DEFINE j == Head(tempJobs).job
           u == Ids(Unstarted)
           others == Ids(jobs) \o dropped
<1>1. /\ u \in Seq(Jobs) /\ others \in Seq(Jobs) /\ started \in Seq(Jobs)
      /\ order = started \o (u \o others)
  BY AcceptedHolds DEF TInv, TypeOK
<1>2. Unstarted = tempJobs /\ tempJobs \in Seq(Work) /\ Len(tempJobs) \in Nat \ {0}
      /\ tempJobs[1] = Head(tempJobs)
  BY EmptySeq DEF TInv, TypeOK, Unstarted
<1>3. Len(u) = Len(tempJobs) /\ u[1] = j
  BY <1>2, IdsType DEF Ids
<1> HIDE DEF j, u, others
<1>4. u \o others \in Seq(Jobs) /\ (u \o others)[1] = j /\ 1 \in 1..Len(u \o others)
  BY <1>1, <1>2, <1>3, ConcatFacts
<1> DEFINE rest == u \o others
<1> HIDE DEF rest
<1>5. /\ order = started \o rest /\ rest \in Seq(Jobs) /\ rest[1] = j /\ 1 \in 1..Len(rest)
      /\ Len(started) \in Nat /\ DOMAIN started = 1..Len(started)
  BY <1>1, <1>4, LenProperties DEF rest
<1>6. /\ \A i \in 1..Len(started) : order[i] = started[i] /\ i \in DOMAIN order
      /\ order[Len(started) + 1] = j /\ Len(started) + 1 \in DOMAIN order
  BY <1>1, <1>5, ConcatFacts
<1>7. j \notin ToSet(started)
  <2> SUFFICES ASSUME NEW i \in 1..Len(started), started[i] = j
               PROVE  FALSE
    BY <1>5 DEF ToSet
  <2>1. i = Len(started) + 1
    BY <1>6 DEF OnceInv
  <2> QED
    BY <2>1, <1>5
<1>8. j \in ToSet(order)
  BY <1>6 DEF ToSet
<1> QED
  BY <1>7, <1>8 DEF OnceInv, j

\* Every step keeps OnceInv.
LEMMA OnceStep ==
    ASSUME TInv, TInv', Fifo, OnceInv, [Next]_vars
    PROVE  OnceInv'
<1>0. /\ stack \in Seq(Jobs) /\ Len(stack) \in Nat /\ DOMAIN stack = 1..Len(stack)
      /\ order \in Seq(Jobs) /\ started \in Seq(Jobs)
      /\ stack # <<>> => 1 \in 1..Len(stack) /\ stack[1] = Head(stack)
  BY LenProperties, EmptySeq DEF TInv, TypeOK
<1>a. \A i \in 1..Len(stack) : stack[i] \in ToSet(stack)
  BY <1>0 DEF ToSet
<1>1. ASSUME NEW c \in Clients, NEW j \in Fresh, AsyncPush(c, j) \/ SyncPush(c, j)
      PROVE  OnceInv'
  BY <1>1, OnceAccept DEF AsyncPush, SyncPush
<1>2. ASSUME NEW j \in Fresh, ForceCall(j)
      PROVE  OnceInv'
  BY <1>2, OnceAccept DEF ForceCall, threadVars
<1>3. ASSUME NEW j \in Fresh, InlineCall(j)
      PROVE  OnceInv'
  <2>1. j \in Jobs /\ j \notin issued /\ issued' = issued \cup {j} /\ stack' = Append(stack, j) /\ stack # <<>>
    BY <1>3 DEF InlineCall, Fresh
  <2>2. ToSet(stack') = ToSet(stack) \cup {j}
    BY <1>0, <2>1, ToSetAppend
  <2>3. /\ Len(stack') = Len(stack) + 1 /\ stack'[Len(stack) + 1] = j
        /\ \A i \in 1..Len(stack) : stack'[i] = stack[i]
    BY <1>0, <2>1, AppendProperties
  <2>4. \A i \in 2..Len(stack') : stack'[i] \notin ToSet(order)
    <3> SUFFICES ASSUME NEW i \in 2..Len(stack')
                 PROVE  stack'[i] \notin ToSet(order)
      OBVIOUS
    <3>1. CASE i = Len(stack) + 1
      BY <3>1, <2>1, <2>3 DEF OnceInv
    <3>2. CASE i # Len(stack) + 1
      <4>1. i \in 2..Len(stack)
        BY <3>2, <1>0, <2>3
      <4> QED
        BY <4>1, <2>3 DEF OnceInv
    <3> QED
      BY <3>1, <3>2
  <2>5. stack'[1] = stack[1]
    BY <1>0, <2>1, <2>3
  <2> QED
    BY <1>3, <2>1, <2>2, <2>4, <2>5 DEF InlineCall, OnceInv
<1>4. CASE JobStart
  <2> DEFINE j == Head(tempJobs).job
  <2>1. /\ stack = <<>> /\ stack' = <<j>> /\ started' = Append(started, j)
        /\ order' = order /\ ended' = ended /\ issued' = issued
    BY <1>4 DEF JobStart
  <2>2. j \in ToSet(order) /\ j \in Jobs
    BY <1>4, HeadIsNew, HeadOfWork DEF JobStart, TInv, TypeOK
  <2> HIDE DEF j
  <2>3. ToSet(started') = ToSet(started) \cup {j}
    BY <1>0, <2>1, <2>2, ToSetAppend
  <2>4. ToSet(stack') = {j} /\ stack'[1] = j /\ Len(stack') = 1
    BY <2>1 DEF ToSet
  <2> QED
    BY <2>1, <2>2, <2>3, <2>4 DEF OnceInv
<1>5. CASE InlineReturn
  <2>1. /\ Len(stack) > 1 /\ stack' = Front(stack) /\ ended' = ended \cup {Last(stack)}
        /\ UNCHANGED <<order, started, issued>>
    BY <1>5 DEF InlineReturn
  <2>2. /\ Len(stack') = Len(stack) - 1 /\ stack' \in Seq(Jobs)
        /\ \A i \in 1..(Len(stack) - 1) : stack'[i] = stack[i]
    BY <1>0, <2>1 DEF Front
  <2>3. Last(stack) \in ToSet(stack) /\ Last(stack) \notin ToSet(order)
    BY <1>0, <1>a, <2>1 DEF Last, OnceInv
  <2>4. ToSet(stack') \subseteq ToSet(stack)
    BY <1>0, <2>2 DEF ToSet
  <2>5. stack'[1] = stack[1] /\ stack # <<>>
    BY <1>0, <2>1, <2>2
  <2>6. \A i \in 2..Len(stack') : stack'[i] = stack[i] /\ i \in 2..Len(stack)
    BY <1>0, <2>2
  <2> QED
    BY <2>1, <2>3, <2>4, <2>5, <2>6 DEF OnceInv
<1>6. CASE JobEnd
  <2>1. /\ stack' = <<>> /\ ended' = ended \cup {Head(stack)} /\ stack # <<>>
        /\ UNCHANGED <<order, started, issued>>
    BY <1>6, EmptySeq DEF JobEnd
  <2>2. Head(stack) \in ToSet(started) /\ Head(stack) \in issued
    BY <1>0, <1>a, <2>1 DEF OnceInv
  <2>3. ToSet(stack') = {} /\ Len(stack') = 0
    BY <2>1 DEF ToSet
  <2> QED
    BY <2>1, <2>2, <2>3 DEF OnceInv
<1>7. ASSUME \/ \E c \in Clients : ClientStep(c)
             \/ WorkerCheck \/ WorkerSwap \/ WorkerGate \/ BatchEnd \/ WorkerWake
             \/ Finish \/ FinishNotify \/ Join \/ UNCHANGED vars
      PROVE  UNCHANGED <<order, started, stack, ended, issued>>
  BY <1>7 DEF ClientStep, Notify, TestFinished, SyncReturn, WorkerCheck, WorkerSwap, WorkerGate,
              BatchEnd, WorkerWake, Finish, FinishNotify, Join, vars, queueVars, threadVars, history
<1>8. ASSUME UNCHANGED <<order, started, stack, ended, issued>>
      PROVE  OnceInv'
  BY <1>8 DEF OnceInv
<1> QED
  BY <1>1, <1>2, <1>3, <1>4, <1>5, <1>6, <1>7, <1>8 DEF Next, WorkerStep

-----------------------------------------------------------------------------
\* What Contract sees of the queue.
Pending == IF finished /\ worker # "run" THEN <<>> ELSE Ids(Unstarted \o jobs)
Current == IF stack = <<>> THEN NoJob ELSE stack[1]
Done == ended \cap ToSet(started)

LEMMA ContractStep ==
    /\ Contract!Init <=> Pending = <<>> /\ Current = NoJob /\ Done = {} /\ finished = FALSE
    /\ \A j : Contract!Submit(j) <=>
         /\ ~finished /\ j \notin Done \cup {Current} \cup ToSet(Pending)
         /\ Pending' = Append(Pending, j) /\ UNCHANGED <<Current, Done, finished>>
    /\ Contract!Start <=>
         /\ Current = NoJob /\ Pending # <<>>
         /\ Current' = Head(Pending) /\ Pending' = Tail(Pending) /\ UNCHANGED <<Done, finished>>
    /\ Contract!Finish <=>
         /\ Current # NoJob /\ Done' = Done \cup {Current} /\ Current' = NoJob
         /\ UNCHANGED <<Pending, finished>>
    /\ Contract!Close <=>
         /\ ~finished /\ finished' = TRUE
         /\ Pending' \in {SubSeq(Pending, 1, l) : l \in 0..Len(Pending)}
         /\ UNCHANGED <<Current, Done>>
    /\ (UNCHANGED <<Pending, Current, Done, finished>>) <=> UNCHANGED Contract!vars
BY DEF Contract!Init, Contract!Submit, Contract!Start, Contract!Finish, Contract!Close,
       Contract!vars, Pending, Current, Done, Contract!Prefixes, Contract!ToSet, ToSet

\* Ids of the batch and the deque behind it.
LEMMA IdsConcat ==
    ASSUME NEW s \in Seq(Work), NEW t \in Seq(Work)
    PROVE  Ids(s \o t) = Ids(s) \o Ids(t)
<1> DEFINE r == s \o t
           u == Ids(s)
           v == Ids(t)
<1>1. /\ r \in Seq(Work) /\ Len(s) \in Nat /\ Len(t) \in Nat
      /\ DOMAIN s = 1..Len(s) /\ DOMAIN t = 1..Len(t) /\ DOMAIN r = 1..(Len(s) + Len(t))
      /\ \A i \in 1..Len(s) : r[i] = s[i]
      /\ \A i \in 1..Len(t) : r[Len(s) + i] = t[i]
  BY ConcatFacts
<1>2. u \in Seq(Jobs) /\ Len(u) = Len(s) /\ v \in Seq(Jobs) /\ Len(v) = Len(t)
  BY IdsType
<1>3. /\ \A i \in 1..Len(s) : u[i] = s[i].job
      /\ \A i \in 1..Len(t) : v[i] = t[i].job
  BY <1>1 DEF Ids
<1>4. Ids(r) \in Seq(Jobs) /\ Len(Ids(r)) = Len(s) + Len(t)
      /\ \A i \in 1..(Len(s) + Len(t)) : Ids(r)[i] = r[i].job
  <2>1. Len(r) = Len(s) + Len(t)
    BY <1>1, LenProperties
  <2> QED
    BY <1>1, <2>1, IdsType DEF Ids
<1> HIDE DEF r, u, v
<1>5. /\ u \o v \in Seq(Jobs) /\ Len(u \o v) = Len(s) + Len(t)
      /\ \A i \in 1..Len(s) : (u \o v)[i] = u[i]
      /\ \A i \in 1..Len(t) : (u \o v)[Len(s) + i] = v[i]
  <2>1. /\ u \o v \in Seq(Jobs) /\ DOMAIN (u \o v) = 1..(Len(u) + Len(v))
        /\ \A i \in 1..Len(u) : (u \o v)[i] = u[i]
        /\ \A i \in 1..Len(v) : (u \o v)[Len(u) + i] = v[i]
    <3>1. u \in Seq(Jobs) /\ v \in Seq(Jobs)
      BY <1>2
    <3> QED
      BY <3>1
  <2> DEFINE w == u \o v
  <2> HIDE DEF w
  <2>2. /\ w \in Seq(Jobs) /\ DOMAIN w = 1..(Len(s) + Len(t))
        /\ \A i \in 1..Len(s) : w[i] = u[i]
        /\ \A i \in 1..Len(t) : w[Len(s) + i] = v[i]
    BY <2>1, <1>2 DEF w
  <2>3. Len(w) = Len(s) + Len(t)
    BY <1>1, <2>2, LenProperties
  <2> QED
    BY <2>2, <2>3 DEF w
<1>6. ASSUME NEW i \in 1..(Len(s) + Len(t))
      PROVE  Ids(r)[i] = (u \o v)[i]
  <2>1. CASE i \in 1..Len(s)
    BY ZenonT(30), <2>1, <1>1, <1>3, <1>4, <1>5
  <2>2. CASE ~(i \in 1..Len(s))
    <3>1. PICK k \in 1..Len(t) : i = Len(s) + k
      <4>1. i - Len(s) \in 1..Len(t) /\ i = Len(s) + (i - Len(s))
        BY <2>2, <1>1
      <4> QED
        BY <4>1
    <3> QED
      BY <3>1, <1>1, <1>3, <1>4, <1>5
  <2> QED
    BY <2>1, <2>2
<1>7. Ids(r) = u \o v
  <2> DEFINE w == u \o v
             x == Ids(r)
  <2>1. /\ w \in Seq(Jobs) /\ x \in Seq(Jobs) /\ Len(w) = Len(x)
        /\ \A i \in 1..Len(x) : x[i] = w[i]
    BY <1>4, <1>5, <1>6
  <2> HIDE DEF w, x
  <2>2. x = w
    BY <2>1, SeqEqual
  <2> QED
    BY <2>2 DEF w, x
<1> QED
  BY <1>7 DEF r, u, v

\* The pending jobs, as two parts.
LEMMA PendingType ==
    ASSUME TInv
    PROVE  /\ Ids(Unstarted) \in Seq(Jobs) /\ Ids(jobs) \in Seq(Jobs)
           /\ Ids(Unstarted \o jobs) = Ids(Unstarted) \o Ids(jobs)
           /\ Pending \in Seq(Jobs)
<1>1. Unstarted \in Seq(Work) /\ jobs \in Seq(Work)
  BY UnstartedType DEF TInv, TypeOK
<1>2. Ids(Unstarted) \in Seq(Jobs) /\ Ids(jobs) \in Seq(Jobs)
  BY <1>1, IdsType
<1>3. Ids(Unstarted \o jobs) = Ids(Unstarted) \o Ids(jobs)
  BY <1>1, IdsConcat
<1>4. Ids(Unstarted) \o Ids(jobs) \in Seq(Jobs)
  BY <1>2, ConcatProperties
<1>5. <<>> \in Seq(Jobs)
  OBVIOUS
<1> QED
  BY <1>2, <1>3, <1>4, <1>5 DEF Pending
\* A push that is accepted submits its job to the contract.
LEMMA AcceptSubmits ==
    ASSUME TInv, Fifo, OnceInv, OwnerInv,
           NEW j \in Fresh, NEW w \in Clients \cup {NoClient}, Accept(j, w),
           UNCHANGED <<tempJobs, finished, worker, stack, started, ended>>
    PROVE  Contract!Submit(j) \/ UNCHANGED <<Pending, Current, Done, finished>>
<1>1. Unstarted' = Unstarted /\ UNCHANGED <<Current, Done>>
  BY DEF Unstarted, Current, Done
<1>2. CASE finished
  BY <1>1, <1>2 DEF Accept, Pending, Ids
<1>3. CASE ~finished
  <2> DEFINE u == Ids(Unstarted)
             v == Ids(jobs)
             work == [job |-> j, waiter |-> w]
  <2>1. j \in Jobs /\ j \notin issued /\ jobs' = Append(jobs, work)
    BY <1>3 DEF Accept, Fresh
  <2>2. work \in Work /\ work.job = j /\ jobs \in Seq(Work)
    BY <2>1 DEF Work, TInv, TypeOK
  <2>3. Ids(jobs') = Append(v, j)
    BY <2>1, <2>2, IdsAppend
  <2>4. TInv => jobs' \in Seq(Work) /\ Unstarted \in Seq(Work)
    BY <2>1, <2>2, UnstartedType
  <2>5. Pending = u \o v /\ Pending' = u \o Append(v, j)
    <3>1. Pending = u \o v
      BY <1>3, PendingType DEF Pending
    <3>2. Pending' = Ids(Unstarted' \o jobs')
      BY <1>3 DEF Pending, Ids
    <3>3. Ids(Unstarted \o jobs') = Ids(Unstarted) \o Ids(jobs')
      BY <2>4, IdsConcat
    <3> QED
      BY <1>1, <2>3, <3>1, <3>2, <3>3
  <2>6. u \in Seq(Jobs) /\ v \in Seq(Jobs)
    BY PendingType
  <2>7. ToSet(u) \cup ToSet(v) \subseteq ToSet(order) /\ ToSet(started) \subseteq ToSet(order)
    BY AcceptedHolds
  <2> HIDE DEF u, v
  <2>8. u \o Append(v, j) = Append(u \o v, j)
    BY <2>1, <2>6, AppendIsConcat, ConcatAssociative, ConcatProperties
  <2>9. ToSet(u \o v) = ToSet(u) \cup ToSet(v)
    BY <2>6, ToSetConcat
  <2>10. j \notin ToSet(Pending) /\ j \notin Done
    BY <2>1, <2>5, <2>7, <2>9 DEF OnceInv, Done
  <2>11. j # Current
    <3>1. stack # <<>> => stack[1] \in ToSet(stack)
      <4>1. stack \in Seq(Jobs)
        BY DEF TInv, TypeOK
      <4>2. stack # <<>> => 1 \in DOMAIN stack
        BY <4>1
      <4> QED
        BY <4>2 DEF ToSet
    <3> QED
      BY <2>1, <3>1, QueueAssumption DEF Current, OnceInv
  <2> QED
    BY <1>1, <1>3, <2>5, <2>8, <2>10, <2>11, ContractStep
<1> QED
  BY <1>2, <1>3

\* Between jobs the worker does nothing that the users of the queue could see.
LEMMA WorkerStutters ==
    ASSUME TInv, BatchInv, OwnerInv,
           WorkerCheck \/ WorkerSwap \/ WorkerGate \/ BatchEnd \/ WorkerWake
    PROVE  UNCHANGED <<Pending, Current, Done, finished>>
<1>1. UNCHANGED <<Current, Done, finished>>
  BY DEF WorkerCheck, WorkerSwap, WorkerGate, BatchEnd, WorkerWake, queueVars, history,
         Current, Done
<1>2. CASE WorkerCheck \/ WorkerGate \/ WorkerWake
  <2>1. /\ UNCHANGED <<jobs, tempJobs, stack, finished>> /\ worker # "run"
        /\ worker' = "run" => ~finished
    BY <1>2 DEF WorkerCheck, WorkerGate, WorkerWake, queueVars
  <2>2. Ids(Unstarted \o jobs)' = Ids(Unstarted \o jobs)
    BY <2>1 DEF Ids, Unstarted
  <2> QED
    BY <1>1, <2>1, <2>2 DEF Pending
<1>3. jobs \in Seq(Work) /\ <<>> \o jobs = jobs /\ jobs \o <<>> = jobs
  BY ConcatEmptySeq DEF TInv, TypeOK
<1>4. CASE WorkerSwap
  <2>1. /\ worker = "swap" /\ tempJobs = <<>> /\ stack = <<>> /\ worker' = "gate"
        /\ tempJobs' = jobs /\ jobs' = <<>> /\ stack' = stack /\ finished' = finished
    BY <1>4 DEF WorkerSwap, BatchInv, TInv, StackInv
  <2>2. Unstarted \o jobs = jobs /\ Unstarted' \o jobs' = jobs
    BY <1>3, <2>1 DEF Unstarted
  <2>3. Ids(Unstarted \o jobs)' = Ids(Unstarted \o jobs)
    BY <2>2 DEF Ids
  <2> QED
    BY <1>1, <2>1, <2>3 DEF Pending
<1>5. CASE BatchEnd
  <2>1. /\ worker = "run" /\ worker' = "wait" /\ tempJobs = <<>> /\ stack = <<>>
        /\ UNCHANGED <<jobs, tempJobs, stack, finished>>
    BY <1>5 DEF BatchEnd, queueVars
  <2>2. Unstarted \o jobs = jobs /\ Unstarted' \o jobs' = jobs
    BY <1>3, <2>1 DEF Unstarted
  <2>3. Ids(Unstarted \o jobs)' = Ids(Unstarted \o jobs)
    BY <2>2 DEF Ids
  <2>4. finished => Ids(Unstarted \o jobs) = <<>>
    BY <2>2, IdsEmpty DEF OwnerInv
  <2> QED
    BY <1>1, <2>1, <2>3, <2>4 DEF Pending
<1> QED
  BY <1>1, <1>2, <1>4, <1>5

\* A job that begins is the first of those pending.
LEMMA StartStarts ==
    ASSUME TInv, Fifo, OnceInv, JobStart
    PROVE  Contract!Start
<1> DEFINE h == Head(tempJobs).job
           u == Ids(Tail(tempJobs))
           v == Ids(jobs)
<1>1. /\ worker = "run" /\ stack = <<>> /\ tempJobs # <<>> /\ stack' = <<h>>
      /\ started' = Append(started, h) /\ UNCHANGED <<jobs, tempJobs, finished, worker, ended>>
  BY DEF JobStart, queueVars
<1>2. tempJobs \in Seq(Work) /\ jobs \in Seq(Work) /\ started \in Seq(Jobs)
  BY DEF TInv, TypeOK
<1>3. Tail(tempJobs) \in Seq(Work) /\ h \in Jobs
  BY <1>1, <1>2, HeadOfWork
<1>4. u \in Seq(Jobs) /\ v \in Seq(Jobs)
  BY <1>2, <1>3, IdsType
<1>5. Ids(tempJobs) = <<h>> \o u
  BY <1>1, <1>2, IdsTail
<1>6. Pending = (<<h>> \o u) \o v
  BY <1>1, <1>2, <1>5, IdsConcat DEF Pending, Unstarted
<1>7. Pending' = u \o v
  <2>1. Pending' = Ids(Tail(tempJobs) \o jobs)
    BY <1>1 DEF Pending, Unstarted, Ids
  <2> QED
    BY <2>1, <1>2, <1>3, IdsConcat
<1>8. h \notin ended
  BY <1>1, HeadIsNew
<1>9. Current = NoJob /\ Current' = h
  BY <1>1 DEF Current
<1>10. Done' = Done
  BY <1>1, <1>2, <1>3, <1>8, ToSetAppend DEF Done
<1> HIDE DEF h, u, v
<1> DEFINE r == u \o v
<1>11. r \in Seq(Jobs) /\ Pending = <<h>> \o r
  <2>1. <<h>> \in Seq(Jobs)
    BY <1>3
  <2> QED
    BY <1>4, <1>6, <2>1, ConcatProperties, ConcatAssociative
<1> HIDE DEF r
<1>12. Pending # <<>> /\ Head(Pending) = h /\ Tail(Pending) = r
  BY <1>3, <1>11
<1> QED
  BY <1>1, <1>7, <1>9, <1>10, <1>12, ContractStep DEF r

\* The destructor may forget what is pending, from some place on.
LEMMA FinishCloses ==
    ASSUME TInv, Fifo, OwnerInv, Finish
    PROVE  Contract!Close
<1>1. /\ ~finished /\ finished' = TRUE /\ jobs' = <<>>
      /\ UNCHANGED <<tempJobs, worker, stack, started, ended>>
  BY DEF Finish, OwnerInv
<1>2. Unstarted' = Unstarted /\ UNCHANGED <<Current, Done>>
  BY <1>1 DEF Unstarted, Current, Done
<1>3. Unstarted \in Seq(Work) /\ jobs \in Seq(Work)
  BY UnstartedType DEF TInv, TypeOK
<1> DEFINE u == Ids(Unstarted)
           v == Ids(jobs)
<1>4. u \in Seq(Jobs) /\ v \in Seq(Jobs)
  BY <1>3, IdsType
<1>5. Pending = u \o v /\ (Pending' = u \/ Pending' = <<>>)
  <2>1. Ids(Unstarted \o jobs) = u \o v
    BY <1>3, IdsConcat
  <2>2. Unstarted \o <<>> = Unstarted
    BY <1>3, ConcatEmptySeq
  <2> QED
    BY <1>1, <1>2, <2>1, <2>2 DEF Pending, Ids
<1> HIDE DEF u, v
<1>6. /\ Len(u) \in 0..Len(u \o v) /\ SubSeq(u \o v, 1, Len(u)) = u
      /\ 0 \in 0..Len(u \o v) /\ SubSeq(u \o v, 1, 0) = <<>>
  BY <1>4
<1> QED
  BY <1>1, <1>2, <1>5, <1>6, ContractStep

\* What each step of the queue is for its users.
LEMMA ContractHolds ==
    ASSUME TInv, BatchInv, OwnerInv, Fifo, OnceInv, [Next]_vars
    PROVE  Contract!Next \/ UNCHANGED Contract!vars
<1>1. ASSUME NEW c \in Clients, NEW j \in Fresh, AsyncPush(c, j) \/ SyncPush(c, j)
      PROVE  Contract!Submit(j) \/ UNCHANGED <<Pending, Current, Done, finished>>
  BY <1>1, AcceptSubmits DEF AsyncPush, SyncPush
<1>2. ASSUME NEW j \in Fresh, ForceCall(j)
      PROVE  Contract!Submit(j) \/ UNCHANGED <<Pending, Current, Done, finished>>
  BY <1>2, AcceptSubmits DEF ForceCall, threadVars
<1>3. ASSUME UNCHANGED <<tempJobs, jobs, finished, worker, stack, started, ended>>
      PROVE  UNCHANGED <<Pending, Current, Done, finished>>
  BY <1>3 DEF Pending, Current, Done, Unstarted, Ids
<1>4. ASSUME \/ \E c \in Clients : ClientStep(c)
             \/ FinishNotify \/ Join \/ UNCHANGED vars
      PROVE  UNCHANGED <<tempJobs, jobs, finished, worker, stack, started, ended>>
  BY <1>4 DEF ClientStep, Notify, TestFinished, SyncReturn, FinishNotify, Join, vars, queueVars,
              threadVars, history
<1>5. /\ stack \in Seq(Jobs) /\ Len(stack) \in Nat
      /\ stack # <<>> => Len(stack) >= 1 /\ stack[1] = Head(stack) /\ Head(stack) \in Jobs
  BY LenProperties, EmptySeq DEF TInv, TypeOK
<1>6. ASSUME NEW j \in Fresh, InlineCall(j)
      PROVE  UNCHANGED <<Pending, Current, Done, finished>>
  <2>1. stack # <<>> /\ stack' # <<>> /\ stack'[1] = stack[1]
    BY <1>5, <1>6 DEF InlineCall, Fresh
  <2> QED
    BY <1>6, <2>1 DEF InlineCall, Pending, Current, Done, Unstarted, Ids, queueVars
<1>7. CASE InlineReturn
  <2>1. stack # <<>> /\ stack' # <<>> /\ stack'[1] = stack[1]
    <3>1. Len(stack) > 1 /\ stack' = Front(stack)
      BY <1>7 DEF InlineReturn
    <3>2. /\ Len(stack') = Len(stack) - 1
          /\ \A i \in 1..(Len(stack) - 1) : stack'[i] = stack[i]
      BY <1>5, <3>1 DEF Front
    <3>3. 1 \in 1..(Len(stack) - 1) /\ Len(stack') # 0 /\ Len(stack) # 0
      BY <1>5, <3>1, <3>2
    <3> QED
      BY <3>2, <3>3
  <2>2. Last(stack) \notin ToSet(started)
    <3>1. Last(stack) \notin ToSet(order)
      BY <1>5, <1>7 DEF InlineReturn, Last, OnceInv
    <3> QED
      BY <3>1, AcceptedHolds
  <2>3. Done' = Done
    BY <1>7, <2>2 DEF InlineReturn, Done
  <2>4. UNCHANGED <<Pending, Current, Done, finished>>
    BY <1>7, <2>1, <2>3 DEF InlineReturn, Pending, Current, Unstarted, Ids, queueVars
  <2> QED
    BY <2>4, ContractStep
<1>8. CASE JobEnd
  <2>1. /\ stack # <<>> /\ stack' = <<>> /\ ended' = ended \cup {Head(stack)} /\ tempJobs' = Tail(tempJobs)
        /\ UNCHANGED <<jobs, finished, worker, started>>
    BY <1>8, EmptySeq DEF JobEnd
  <2>2. Unstarted' = Unstarted
    BY <2>1 DEF Unstarted
  <2>3. Pending' = Pending
    BY <2>1, <2>2 DEF Pending, Ids
  <2>4. Current = Head(stack) /\ Current' = NoJob /\ Head(stack) # NoJob
    BY <1>5, <2>1, QueueAssumption DEF Current
  <2>5. Done' = Done \cup {Head(stack)}
    BY <1>5, <2>1 DEF Done, OnceInv
  <2> QED
    BY <2>1, <2>3, <2>4, <2>5, ContractStep DEF Contract!Next
<1>9. \A j \in Fresh : Contract!Submit(j) => Contract!Next
  BY DEF Fresh, Contract!Next
<1>10. CASE JobStart
  BY <1>10, StartStarts DEF Contract!Next
<1>11. CASE Finish
  BY <1>11, FinishCloses DEF Contract!Next
<1>12. CASE WorkerCheck \/ WorkerSwap \/ WorkerGate \/ BatchEnd \/ WorkerWake
  BY <1>12, WorkerStutters, ContractStep
<1> QED
  BY <1>1, <1>2, <1>3, <1>4, <1>6, <1>7, <1>8, <1>9, <1>10, <1>11, <1>12, ContractStep
  DEF Next, WorkerStep

\* The queue keeps its contract: whatever the clients, the worker and the
\* destructor do, and however the critical sections of async, sync,
\* maybeDispatchWorker and ~DispatchQueue fall between each other, jobs run one
\* at a time and in the order of their acceptance, each at most once, and only
\* the destructor forgets any.
THEOREM QueueKeepsItsContract == Spec => Contract!Safety
<1>1. Init => Contract!Init /\ OnceInv
  <2> SUFFICES ASSUME Init PROVE Contract!Init /\ OnceInv
    OBVIOUS
  <2>1. /\ jobs = <<>> /\ tempJobs = <<>> /\ stack = <<>> /\ order = <<>> /\ started = <<>>
        /\ ended = {} /\ finished = FALSE
    BY DEF Init
  <2>2. Unstarted = <<>> /\ <<>> \o <<>> = <<>>
    BY <2>1 DEF Unstarted
  <2>3. Pending = <<>> /\ Current = NoJob /\ Done = {}
    BY <2>1, <2>2, IdsEmpty DEF Pending, Current, Done
  <2>4. OnceInv
    BY <2>1 DEF OnceInv, ToSet
  <2> QED
    BY <2>1, <2>3, <2>4, ContractStep
<1>2. Fifo /\ OwnerInv /\ OnceInv /\ TInv /\ TInv' /\ BatchInv /\ [Next]_vars
         => OnceInv' /\ [Contract!Next]_(Contract!vars)
  BY OnceStep, ContractHolds
<1>3. Init => OwnerInv
  BY DEF Init, OwnerInv
<1> QED
  BY <1>1, <1>2, <1>3, OwnerStep, TypeInvariant, BatchInvariant, JobsKeepTheirOrder,
     PTL DEF Spec, Contract!Safety
=============================================================================
