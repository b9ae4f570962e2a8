--------------------------------- MODULE Runloop ---------------------------------
(***************************************************************************)
(* Runloop and Timer: the clock behind the transport's reconnection timer  *)
(* and the resending of its ping.                                          *)
(*                                                                         *)
(* The loop has two serial queues.  loopQueue sleeps for a tick and then   *)
(* posts a tick to workerQueue, which keeps the sorted list of timers; a   *)
(* tick that finds a timer asks for the next sleep itself, so that a chain *)
(* of sleeps and ticks goes on until it finds the list empty.  schedule    *)
(* begins another chain each time.  A timer that is due leaves the list,   *)
(* one a tick, and its action runs later on a queue of its owner; a        *)
(* repeating timer starts itself again there.                              *)
(*                                                                         *)
(* The owners use a timer once: they start it, and may invalidate it.      *)
(***************************************************************************)
EXTENDS Naturals, Sequences, SequencesExt

CONSTANTS
    Timers,
    Timeout,      \* the timeout of each timer, in ticks (timeoutToTicks)
    Repeating,    \* the timers that repeat
    MaxEnds,      \* bound: how many timers are invalidated
    MaxRestarts   \* bound: how often repeating timers start again

ASSUME RunloopAssumption ==
    /\ IsFiniteSet(Timers) /\ Timeout \in [Timers -> Nat]
    /\ Repeating \subseteq Timers /\ MaxEnds \in Nat /\ MaxRestarts \in Nat

VARIABLES
    queue,     \* the list of timers with their target ticks
    ticks,
    worker,    \* the jobs of workerQueue
    sleeps,    \* the jobs of loopQueue: sleeps asked for
    posted,    \* actions of each timer that its owner's queue has yet to run
    started,   \* the timers that their owners have started
    ended,     \* the timers that their owners have invalidated
    age,       \* history: the ticks each timer on the list has been there
    silenced,  \* history: the timers whose invalidation has been carried out
    restarts

vars == <<queue, ticks, worker, sleeps, posted, started, ended, age, silenced, restarts>>

Entry == [timer : Timers, at : Nat]
Tick == [op |-> "tick"]
Schedule(t) == [op |-> "schedule", timer |-> t]
Invalidate(t) == [op |-> "invalidate", timer |-> t]
Job == {Tick} \cup {Schedule(t) : t \in Timers} \cup {Invalidate(t) : t \in Timers}

Init ==
    /\ queue = <<>> /\ ticks = 0
    /\ worker = <<>> /\ sleeps = 0
    /\ posted = [t \in Timers |-> 0]
    /\ started = {} /\ ended = {}
    /\ age = [t \in Timers |-> 0]
    /\ silenced = {}
    /\ restarts = 0

Queued(t) == \E i \in DOMAIN queue : queue[i].timer = t

-----------------------------------------------------------------------------
(* The owners, on any thread.                                              *)

Start(t) ==
    /\ t \notin started
    /\ started' = started \cup {t}
    /\ worker' = Append(worker, Schedule(t))
    /\ UNCHANGED <<queue, ticks, sleeps, posted, ended, age, silenced, restarts>>

End(t) ==
    /\ t \in started \ ended /\ Cardinality(ended) < MaxEnds
    /\ ended' = ended \cup {t}
    /\ worker' = Append(worker, Invalidate(t))
    /\ UNCHANGED <<queue, ticks, sleeps, posted, started, age, silenced, restarts>>

\* The action of a timer that was due runs, and a repeating timer starts again,
\* whether or not it has been invalidated since.
Fire(t) ==
    /\ posted[t] > 0
    /\ t \in Repeating => restarts < MaxRestarts
    /\ posted' = [posted EXCEPT ![t] = @ - 1]
    /\ IF t \in Repeating
       THEN worker' = Append(worker, Schedule(t)) /\ restarts' = restarts + 1
       ELSE UNCHANGED <<worker, restarts>>
    /\ UNCHANGED <<queue, ticks, sleeps, started, ended, age, silenced>>

-----------------------------------------------------------------------------
(* loopQueue.                                                              *)

Sleep ==
    /\ sleeps > 0
    /\ sleeps' = sleeps - 1
    /\ worker' = Append(worker, Tick)
    /\ UNCHANGED <<queue, ticks, posted, started, ended, age, silenced, restarts>>

-----------------------------------------------------------------------------
(* workerQueue.                                                            *)

\* slips: the target does not count from the present; the list is not sorted
TargetTicksAbsolute(t) == Timeout[t]
InsertedLast(e) == Append(queue, e)

TargetTicks(t) == Timeout[t] + ticks

\* std::lower_bound on the sorted list: a timer goes behind those with an earlier
\* target and before those with the same
LowerBound(at) == 1 + Cardinality({j \in DOMAIN queue : queue[j].at < at})

Inserted(e) == InsertAt(queue, LowerBound(e.at), e)

DoSchedule(t) ==
    /\ IF Queued(t)
       THEN UNCHANGED <<queue, sleeps>>
       ELSE /\ queue' = Inserted([timer |-> t, at |-> TargetTicks(t)])
            /\ sleeps' = sleeps + 1
    /\ UNCHANGED <<ticks, posted, age, silenced>>

\* a slip: only the first timer of the list is looked at
DoInvalidateFirst(t) ==
    /\ queue' = IF queue # <<>> /\ Head(queue).timer = t THEN Tail(queue) ELSE queue
    /\ silenced' = silenced \cup {t}
    /\ age' = [age EXCEPT ![t] = 0]
    /\ UNCHANGED <<ticks, sleeps, posted>>

DoInvalidate(t) ==
    /\ IF Queued(t)
       THEN \E i \in DOMAIN queue : queue[i].timer = t /\ queue' = RemoveAt(queue, i)
       ELSE UNCHANGED queue
    /\ silenced' = silenced \cup {t}
    /\ age' = [age EXCEPT ![t] = 0]
    /\ UNCHANGED <<ticks, sleeps, posted>>

Due == Head(queue).at <= ticks + 1

Aged == [t \in Timers |->
            IF Queued(t) /\ ~(Due /\ Head(queue).timer = t) THEN age[t] + 1 ELSE 0]

\* slips: a tick that finds no timer due asks for no other; a timer that is due
\* stays on the list
DoTickIdle ==
    IF queue = <<>>
    THEN ticks' = 0 /\ UNCHANGED <<queue, sleeps, posted, age, silenced>>
    ELSE /\ ticks' = ticks + 1
         /\ queue' = IF Due THEN Tail(queue) ELSE queue
         /\ posted' = IF Due THEN [posted EXCEPT ![Head(queue).timer] = @ + 1] ELSE posted
         /\ sleeps' = IF Due THEN sleeps + 1 ELSE sleeps
         /\ age' = Aged
         /\ UNCHANGED silenced

DoTick ==
    IF queue = <<>>
    THEN ticks' = 0 /\ UNCHANGED <<queue, sleeps, posted, age, silenced>>
    ELSE /\ ticks' = ticks + 1
         /\ queue' = IF Due THEN Tail(queue) ELSE queue
         /\ posted' = IF Due THEN [posted EXCEPT ![Head(queue).timer] = @ + 1] ELSE posted
         /\ sleeps' = sleeps + 1
         /\ age' = Aged
         /\ UNCHANGED silenced

Work ==
    /\ worker # <<>>
    /\ worker' = Tail(worker)
    /\ \/ Head(worker) = Tick /\ DoTick
       \/ \E t \in Timers : Head(worker) = Schedule(t) /\ DoSchedule(t)
       \/ \E t \in Timers : Head(worker) = Invalidate(t) /\ DoInvalidate(t)
    /\ UNCHANGED <<started, ended, restarts>>

Next ==
    \/ Sleep \/ Work
    \/ \E t \in Timers : Start(t) \/ End(t) \/ Fire(t)

Spec == Init /\ [][Next]_vars

\* the three threads run; nobody has to start or end a timer
FairSpec ==
    /\ Spec
    /\ WF_vars(Sleep) /\ WF_vars(Work)
    /\ \A t \in Timers : WF_vars(Fire(t))

-----------------------------------------------------------------------------
(* Properties.                                                             *)

\* While a timer waits a chain is alive: a sleep is asked for or a tick is on
\* its way.  Chains end by themselves, on a list that may fill again at once.
ChainAlive == queue # <<>> => sleeps > 0 \/ \E i \in DOMAIN worker : worker[i] = Tick

\* A timer is never due before its timeout in ticks, though the count of ticks
\* begins again whenever the list is found empty.
NeverEarly ==
    [][\A t \in Timers : posted'[t] > posted[t] => age[t] + 1 >= Timeout[t]]_vars

\* One timer leaves the list a tick, so that one may have to wait for the
\* others, but no longer than one tick for each.
NeverLate ==
    \A t \in Timers : Queued(t) => age[t] < Timeout[t] + Cardinality(Timers)

\* Once its invalidation has been carried out a timer that does not repeat is
\* not due again; only an action already posted may still run.  (A repeating
\* timer invalidated at that moment starts itself again, for ever.)
SilencedStaysSilent ==
    [][\A t \in silenced \ Repeating : posted'[t] <= posted[t]]_vars

=============================================================================
