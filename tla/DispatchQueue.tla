---------------------------- MODULE DispatchQueue ----------------------------
(***************************************************************************)
(* gp/utils/DispatchQueue and Semaphore: a worker thread that runs the     *)
(* jobs other threads hand over.  Every access to the deques is a critical *)
(* section of _mutex and is one step; reads of the volatile _finished and  *)
(* the operations of the counting semaphore _asyncSemaphore, which the     *)
(* code makes outside the mutex, are steps of their own.                   *)
(***************************************************************************)
EXTENDS Naturals, Sequences, SequencesExt

CONSTANTS Clients,   \* threads other than the queue's own
          Jobs,      \* the closures; each is submitted once, so |Jobs| bounds the run
          NoJob,     \* not a job
          NoClient   \* not a thread: the job was not submitted by sync

ASSUME QueueAssumption ==
    /\ NoJob \notin Jobs
    /\ NoClient \notin Clients

VARIABLES
    jobs,       \* _jobs: the accepted work, guarded by _mutex
    tempJobs,   \* _tempJobs: the batch the worker took; its head is being run
    finished,   \* _finished
    sem,        \* the count of _asyncSemaphore
    worker,     \* where the worker thread is
    stack,      \* the jobs executing on the worker thread, innermost last
    client,     \* where each client thread is inside async or sync
    signalled,  \* the jobs whose syncSemaphore has been notified
    owner,      \* where the destructor is
    issued,     \* history: the jobs submitted so far
    order,      \* history: the accepted jobs, in the order of acceptance
    started,    \* history: the jobs taken from the queue, in the order they began
    ended,      \* history: those of them that ran to their end
    dropped     \* history: the accepted jobs that ~DispatchQueue cleared

queueVars  == <<jobs, tempJobs, finished, sem>>
threadVars == <<worker, stack, client, signalled, owner>>
history    == <<issued, order, started, ended, dropped>>
vars == <<queueVars, threadVars, history>>

Idle == [at |-> "idle", job |-> NoJob]

Work == [job : Jobs, waiter : Clients \cup {NoClient}]

Ids(s) == [i \in DOMAIN s |-> s[i].job]

\* the batch without the job that is being run
Unstarted == IF stack = <<>> THEN tempJobs ELSE Tail(tempJobs)

\* a closure is submitted once, whether or not the queue accepts it
Fresh == Jobs \ issued

Init ==
    /\ jobs = <<>> /\ tempJobs = <<>> /\ finished = FALSE /\ sem = 0
    /\ worker = "check" /\ stack = <<>>
    /\ client = [c \in Clients |-> Idle]
    /\ signalled = {}
    /\ owner = "alive"
    /\ issued = {} /\ order = <<>> /\ started = <<>> /\ ended = {} /\ dropped = <<>>

-----------------------------------------------------------------------------
(* Client threads.                                                         *)

\* (slip: emplace_front)
AcceptAtFront(j, w) ==
    /\ issued' = issued \cup {j}
    /\ IF finished
       THEN UNCHANGED <<jobs, order>>
       ELSE /\ jobs' = <<[job |-> j, waiter |-> w]>> \o jobs
            /\ order' = Append(order, j)

\* The critical section that async and sync share: the work is accepted
\* unless the queue is finished.
Accept(j, w) ==
    /\ issued' = issued \cup {j}
    /\ IF finished
       THEN UNCHANGED <<jobs, order>>
       ELSE /\ jobs' = Append(jobs, [job |-> j, waiter |-> w])
            /\ order' = Append(order, j)

AsyncPush(c, j) ==
    /\ client[c].at = "idle" /\ owner # "gone"
    /\ Accept(j, NoClient)
    /\ client' = [client EXCEPT ![c] = [at |-> "asyncNotify", job |-> j]]
    /\ UNCHANGED <<tempJobs, finished, sem, worker, stack, signalled, owner, started, ended, dropped>>

SyncPush(c, j) ==
    /\ client[c].at = "idle" /\ owner # "gone"
    /\ Accept(j, c)
    /\ client' = [client EXCEPT ![c] = [at |-> "syncNotify", job |-> j]]
    /\ UNCHANGED <<tempJobs, finished, sem, worker, stack, signalled, owner, started, ended, dropped>>

\* _asyncSemaphore->notify(), after the mutex was released
Notify(c) ==
    /\ client[c].at \in {"asyncNotify", "syncNotify"}
    /\ sem' = sem + 1
    /\ client' = [client EXCEPT ![c] = IF @.at = "asyncNotify" THEN Idle
                                       ELSE [@ EXCEPT !.at = "test"]]
    /\ UNCHANGED <<jobs, tempJobs, finished, worker, stack, signalled, owner, history>>

\* if (!_finished) syncSemaphore->wait()
TestFinished(c) ==
    /\ client[c].at = "test"
    /\ client' = [client EXCEPT ![c] = IF finished THEN Idle
                                       ELSE [@ EXCEPT !.at = "waiting"]]
    /\ UNCHANGED <<queueVars, worker, stack, signalled, owner, history>>

SyncReturn(c) ==
    /\ client[c].at = "waiting"
    /\ client[c].job \in signalled
    /\ client' = [client EXCEPT ![c] = Idle]
    /\ UNCHANGED <<queueVars, worker, stack, signalled, owner, history>>

-----------------------------------------------------------------------------
(* The worker thread: threadWorker and maybeDispatchWorker.                *)

WorkerCheck ==
    /\ worker = "check"
    /\ worker' = IF finished THEN "ended" ELSE "swap"
    /\ UNCHANGED <<queueVars, stack, client, signalled, owner, history>>

\* (slip: _jobs.clear() forgotten)
WorkerCopy ==
    /\ worker = "swap"
    /\ tempJobs' = jobs
    /\ worker' = "gate"
    /\ UNCHANGED <<jobs, finished, sem, stack, client, signalled, owner, history>>

WorkerSwap ==
    /\ worker = "swap"
    /\ tempJobs' = jobs
    /\ jobs' = <<>>
    /\ worker' = "gate"
    /\ UNCHANGED <<finished, sem, stack, client, signalled, owner, history>>

\* if (_finished) return: the batch just taken is abandoned
WorkerGate ==
    /\ worker = "gate"
    /\ worker' = IF finished THEN "check" ELSE "run"
    /\ UNCHANGED <<queueVars, stack, client, signalled, owner, history>>

\* (slip: the waiter is notified before the work)
JobStartNotified ==
    /\ worker = "run" /\ stack = <<>> /\ tempJobs # <<>>
    /\ stack' = <<Head(tempJobs).job>>
    /\ started' = Append(started, Head(tempJobs).job)
    /\ signalled' = signalled \cup {Head(tempJobs).job}
    /\ UNCHANGED <<queueVars, worker, client, owner, issued, order, ended, dropped>>

JobStart ==
    /\ worker = "run" /\ stack = <<>> /\ tempJobs # <<>>
    /\ stack' = <<Head(tempJobs).job>>
    /\ started' = Append(started, Head(tempJobs).job)
    /\ UNCHANGED <<queueVars, worker, client, signalled, owner, issued, order, ended, dropped>>

\* async or sync called on the queue's own thread: the work runs in place
InlineCall(j) ==
    /\ stack # <<>>
    /\ issued' = issued \cup {j}
    /\ stack' = Append(stack, j)
    /\ UNCHANGED <<queueVars, worker, client, signalled, owner, order, started, ended, dropped>>

\* (slip: no notify)
ForceCallSilent(j) ==
    /\ stack # <<>>
    /\ Accept(j, NoClient)
    /\ UNCHANGED <<sem, tempJobs, finished, threadVars, started, ended, dropped>>

\* asyncForce called on the queue's own thread
ForceCall(j) ==
    /\ stack # <<>>
    /\ Accept(j, NoClient)
    /\ sem' = sem + 1
    /\ UNCHANGED <<tempJobs, finished, threadVars, started, ended, dropped>>

InlineReturn ==
    /\ Len(stack) > 1
    /\ stack' = Front(stack)
    /\ ended' = ended \cup {Last(stack)}
    /\ UNCHANGED <<queueVars, worker, client, signalled, owner, issued, order, started, dropped>>

\* (slip: the waiter is not notified)
JobEndSilent ==
    /\ Len(stack) = 1
    /\ stack' = <<>>
    /\ ended' = ended \cup {Head(stack)}
    /\ tempJobs' = Tail(tempJobs)
    /\ UNCHANGED <<jobs, finished, sem, signalled, worker, client, owner, issued, order, started, dropped>>

\* the work returns, its waiter is notified and it leaves the batch
JobEnd ==
    /\ Len(stack) = 1
    /\ stack' = <<>>
    /\ ended' = ended \cup {Head(stack)}
    /\ signalled' = IF Head(tempJobs).waiter = NoClient THEN signalled
                    ELSE signalled \cup {Head(stack)}
    /\ tempJobs' = Tail(tempJobs)
    /\ UNCHANGED <<jobs, finished, sem, worker, client, owner, issued, order, started, dropped>>

BatchEnd ==
    /\ worker = "run" /\ stack = <<>> /\ tempJobs = <<>>
    /\ worker' = "wait"
    /\ UNCHANGED <<queueVars, stack, client, signalled, owner, history>>

WorkerWake ==
    /\ worker = "wait" /\ sem > 0
    /\ sem' = sem - 1
    /\ worker' = "check"
    /\ UNCHANGED <<jobs, tempJobs, finished, stack, client, signalled, owner, history>>

-----------------------------------------------------------------------------
(* ~DispatchQueue, on some other thread.                                   *)

Finish ==
    /\ owner = "alive"
    /\ finished' = TRUE
    /\ jobs' = <<>>
    /\ dropped' = Ids(jobs)
    /\ owner' = "notify"
    /\ UNCHANGED <<tempJobs, sem, worker, stack, client, signalled, issued, order, started, ended>>

\* (slip: no notify)
FinishSilent ==
    /\ owner = "notify"
    /\ owner' = "join"
    /\ UNCHANGED <<sem, jobs, tempJobs, finished, worker, stack, client, signalled, history>>

FinishNotify ==
    /\ owner = "notify"
    /\ sem' = sem + 1
    /\ owner' = "join"
    /\ UNCHANGED <<jobs, tempJobs, finished, worker, stack, client, signalled, history>>

\* _thread.join(); the members disappear, so no call may still be using them.
\* A thread blocked in sync holds only its own syncSemaphore.
Join ==
    /\ owner = "join" /\ worker = "ended"
    /\ \A c \in Clients : client[c].at \in {"idle", "waiting"}
    /\ owner' = "gone"
    /\ UNCHANGED <<queueVars, worker, stack, client, signalled, history>>

-----------------------------------------------------------------------------
ClientStep(c) == Notify(c) \/ TestFinished(c) \/ SyncReturn(c)

\* the steps of the worker that its own code takes without a new call
WorkerStep ==
    \/ WorkerCheck \/ WorkerSwap \/ WorkerGate
    \/ JobStart \/ InlineReturn \/ JobEnd \/ BatchEnd
    \/ WorkerWake

Next ==
    \/ \E c \in Clients, j \in Fresh : AsyncPush(c, j) \/ SyncPush(c, j)
    \/ \E c \in Clients : ClientStep(c)
    \/ \E j \in Fresh : InlineCall(j) \/ ForceCall(j)
    \/ WorkerStep
    \/ Finish \/ FinishNotify \/ Join

Spec == Init /\ [][Next]_vars

\* Threads that can run do run; nobody has to call or to destroy the queue.
FairSpec ==
    /\ Spec
    /\ WF_vars(WorkerStep)
    /\ \A c \in Clients : WF_vars(ClientStep(c))
    /\ WF_vars(FinishNotify) /\ WF_vars(Join)

-----------------------------------------------------------------------------
(* Properties.                                                             *)

\* Every field of DispatchQueue holds a value of its type.
TypeOK ==
    /\ jobs \in Seq(Work) /\ tempJobs \in Seq(Work)
    /\ finished \in BOOLEAN /\ sem \in Nat
    /\ worker \in {"check", "swap", "gate", "run", "wait", "ended"}
    /\ stack \in Seq(Jobs)
    /\ client \in [Clients -> [at : {"idle", "asyncNotify", "syncNotify", "test", "waiting"},
                               job : Jobs \cup {NoJob}]]
    /\ signalled \subseteq Jobs /\ issued \subseteq Jobs
    /\ owner \in {"alive", "notify", "join", "gone"}
    /\ order \in Seq(Jobs) /\ started \in Seq(Jobs) /\ dropped \in Seq(Jobs)
    /\ ended \subseteq Jobs

\* The two deques never lose, repeat or reorder a job while work is moved from
\* one to the other, run, and cleared by the destructor: what was accepted is
\* what began, then the rest of the batch, then _jobs, then what was cleared.
Fifo ==
    order = started \o Ids(Unstarted) \o Ids(jobs) \o dropped

\* A worker asleep on the semaphore with work to do, or with a destructor
\* waiting for it, is always about to be woken: the push and the notify are
\* two steps, and the batch swap does not look at the semaphore's count.
NoLostWakeup ==
    (worker = "wait" /\ sem = 0) =>
        /\ jobs # <<>> => \E c \in Clients : client[c].at \in {"asyncNotify", "syncNotify"}
        /\ finished => owner = "notify"

\* sync returns while the queue is alive only after its job has run to its
\* end; a return without the job means the destructor has begun.
SyncMeansDone ==
    [][\A c \in Clients :
          (client[c].at \in {"test", "waiting"} /\ client'[c].at = "idle") =>
              client[c].job \in ended \/ finished]_vars

\* A client blocked in sync is still owed its notify: its job is in one of
\* the deques, or is running, or is done and signalled.  Only the destructor
\* breaks that promise (the waiter of a cleared job is never notified).
SyncWaiterServed ==
    \A c \in Clients :
        client[c].at = "waiting" =>
            \/ client[c].job \in signalled
            \/ \E w \in ToSet(tempJobs) \cup ToSet(jobs) : w.job = client[c].job /\ w.waiter = c
            \/ finished

\* A thread that calls sync gets back, unless the queue is being destroyed.
SyncReturns ==
    \A c \in Clients : client[c].at = "waiting" ~> (client[c].at = "idle" \/ finished)

\* The destructor's join ends: the worker notices _finished however the
\* destructor's steps fall between its own.
DestructorReturns == owner = "notify" ~> owner = "gone"

\* The queue implements its contract.  A batch taken by a worker that has not
\* passed its test of _finished yet is forgotten when the queue is closed; one
\* taken by a worker past that test still runs to its end.
Contract == INSTANCE SerialQueue WITH
    pending <- IF finished /\ worker # "run" THEN <<>> ELSE Ids(Unstarted \o jobs),
    current <- IF stack = <<>> THEN NoJob ELSE stack[1],
    done <- ended \cap ToSet(started),
    closed <- finished

ImplementsSerialQueue == Contract!Spec
=============================================================================
