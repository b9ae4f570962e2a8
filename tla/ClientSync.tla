------------------------------ MODULE ClientSync ------------------------------
(***************************************************************************)
(* gp/proto/ClientSync behind the C interface gp_client: the events of a   *)
(* client on their way from Proto's queue to the threads that receive.     *)
(* An event goes through a deque, under a mutex, and is counted by a       *)
(* semaphore afterwards; the ClientSync owns what receive has returned and *)
(* frees it when receive is called again.  pause, stop and destroy put an  *)
(* empty event in the deque so that a blocked receive returns.             *)
(***************************************************************************)
EXTENDS Integers, Sequences, FiniteSets

CONSTANTS Receivers,   \* the threads that call gp_client_receive
          NoEvent,     \* the empty event, nullptr
          MaxEvents,   \* events that Proto makes
          MaxCalls     \* calls of pause, stop and destroy

ASSUME ClientAssumption ==
    /\ IsFiniteSet(Receivers)
    /\ MaxEvents \in Nat /\ MaxCalls \in Nat
    /\ NoEvent \notin 1..MaxEvents

\* gp_rx_events, numbered as they are made
Events == 1..MaxEvents
Pointers == Events \cup {NoEvent}

VARIABLES
    queue,       \* ClientSync::queue
    count,       \* the semaphore's count
    current,     \* currentReceiveEvent
    made,        \* events made so far
    withData,    \* those that carry a gp_rx_data
    freed,       \* how often the gp_rx_data of an event has been deleted
    running,     \* the Proto has not run its stop
    posted,      \* ... and a stop is in its queue
    protoAt,     \* Proto's queue in push_back: "idle" or "notify"
    registered,  \* the ClientSync is in clients
    user,        \* the thread that pauses, stops and destroys
    calls,       \* how often it has
    at,          \* where each receiver is
    popped,      \* the event pop_front has given it
    returned,    \* the pointer receive has returned to it
    overlapped,  \* (history) receive was called while another call was inside
    disturbed    \* (history) the receivers whose last call met another's, or that
                 \* held an event when another called

queueVars == <<queue, count>>
protoVars == <<made, withData, running, protoAt>>
userVars == <<registered, user, calls, posted>>
receiverVars == <<current, freed, at, popped, returned, overlapped, disturbed>>
vars == <<queueVars, protoVars, userVars, receiverVars>>

TypeOK ==
    /\ queue \in Seq(Pointers) /\ count \in Nat
    /\ current \in Pointers
    /\ made \in 0..MaxEvents
    /\ withData \subseteq Events
    /\ freed \in [Events -> Nat]
    /\ running \in BOOLEAN /\ posted \in BOOLEAN
    /\ protoAt \in {"idle", "notify"}
    /\ registered \in BOOLEAN
    /\ user \in {"idle", "notify", "notifyDestroy", "remove"}
    /\ calls \in 0..MaxCalls
    /\ at \in [Receivers -> {"outside", "entered", "waiting", "popping", "storing", "returning", "holding"}]
    /\ popped \in [Receivers -> Pointers]
    /\ returned \in [Receivers -> Pointers]
    /\ overlapped \in BOOLEAN
    /\ disturbed \in SUBSET Receivers

Init ==
    /\ queue = <<>> /\ count = 0 /\ current = NoEvent
    /\ made = 0 /\ withData = {} /\ freed = [e \in Events |-> 0]
    /\ running = TRUE /\ posted = FALSE /\ protoAt = "idle"
    /\ registered = TRUE /\ user = "idle" /\ calls = 0
    /\ at = [t \in Receivers |-> "outside"]
    /\ popped = [t \in Receivers |-> NoEvent]
    /\ returned = [t \in Receivers |-> NoEvent]
    /\ overlapped = FALSE /\ disturbed = {}

-----------------------------------------------------------------------------
(* The life of the ClientSync: clients and every call inside it hold it.   *)

Inside(t) == at[t] \notin {"outside", "holding"}
InsideThreads == {t \in Receivers : Inside(t)}

Exists ==
    registered \/ protoAt = "notify" \/ user \in {"notify", "notifyDestroy"} \/ InsideThreads # {}

-----------------------------------------------------------------------------
(* Proto's queue.                                                          *)

\* the first half of push_back: the deque, under the mutex
PushBack(e) == queue' = Append(queue, e)

\* (slip: only for the first event in the deque)
NotifyFirst == count' = IF Len(queue) = 1 THEN count + 1 ELSE count

\* the second half, after the mutex is released: semaphore->notify
Notify == count' = count + 1

\* Callbacks hold the ClientSync weakly: the event is made if it still exists.
\* data tells a response or an update from a change of the connection's state.
NewEvent(data) ==
    /\ running /\ protoAt = "idle" /\ Exists
    /\ made < MaxEvents
    /\ made' = made + 1
    /\ withData' = IF data THEN withData \cup {made + 1} ELSE withData
    /\ PushBack(made + 1)
    /\ protoAt' = "notify"
    /\ UNCHANGED <<count, running, userVars, receiverVars>>

\* Request::completion and Request::failure, UpdateMessageService's delegate
Response == NewEvent(TRUE)
DidReceiveUpdates == NewEvent(TRUE)
ConnectionStateChanged == NewEvent(FALSE)

ProtoNotify ==
    /\ protoAt = "notify"
    /\ Notify
    /\ protoAt' = "idle"
    /\ UNCHANGED <<queue, made, withData, running, userVars, receiverVars>>

\* Proto runs the job that stop has posted
ProtoStops ==
    /\ posted /\ running /\ protoAt = "idle"
    /\ running' = FALSE
    /\ UNCHANGED <<queueVars, made, withData, protoAt, userVars, receiverVars>>

-----------------------------------------------------------------------------
(* gp_client_pause, gp_client_stop and gp_destroy.                         *)

\* pause and stop post to Proto, then notifyReceiveQueue begins
Call(next, stops) ==
    /\ user = "idle" /\ registered /\ calls < MaxCalls
    /\ PushBack(NoEvent)
    /\ user' = next /\ calls' = calls + 1
    /\ posted' = (posted \/ stops)
    /\ UNCHANGED <<count, registered, protoVars, receiverVars>>

Pause == Call("notify", FALSE)
Stop == Call("notify", TRUE)
Destroy == Call("notifyDestroy", TRUE)

UserNotify ==
    /\ user \in {"notify", "notifyDestroy"}
    /\ Notify
    /\ user' = IF user = "notify" THEN "idle" ELSE "remove"
    /\ UNCHANGED <<queue, registered, calls, posted, protoVars, receiverVars>>

\* removeClient
RemoveClient ==
    /\ user = "remove"
    /\ registered' = FALSE /\ user' = "idle"
    /\ UNCHANGED <<queueVars, calls, posted, protoVars, receiverVars>>

-----------------------------------------------------------------------------
(* gp_client_receive.                                                      *)

\* clientForId: the ClientSync is held from here to the return
Enter(t) ==
    /\ at[t] \in {"outside", "holding"} /\ registered
    /\ at' = [at EXCEPT ![t] = "entered"]
    /\ returned' = [returned EXCEPT ![t] = NoEvent]
    /\ overlapped' = (overlapped \/ InsideThreads # {})
    /\ disturbed' = {u \in Receivers : IF u = t THEN InsideThreads # {}
                                      ELSE u \in disturbed \/ at[u] # "outside"}
    /\ UNCHANGED <<queueVars, protoVars, userVars, current, freed, popped>>

\* cleanUpEvent of what the last receive returned; currentReceiveEvent still
\* points to it while this call waits
CleanUp(t) ==
    /\ at[t] = "entered"
    /\ freed' = IF current \in withData THEN [freed EXCEPT ![current] = @ + 1] ELSE freed
    /\ at' = [at EXCEPT ![t] = "waiting"]
    /\ UNCHANGED <<queueVars, protoVars, userVars, current, popped, returned, overlapped, disturbed>>

\* semaphore->wait
Wait(t) ==
    /\ at[t] = "waiting" /\ count > 0
    /\ count' = count - 1
    /\ at' = [at EXCEPT ![t] = "popping"]
    /\ UNCHANGED <<queue, protoVars, userVars, current, freed, popped, returned, overlapped, disturbed>>

\* the rest of pop_front, under the mutex
PopFront(t) ==
    /\ at[t] = "popping"
    /\ popped' = [popped EXCEPT ![t] = IF queue = <<>> THEN NoEvent ELSE Head(queue)]
    /\ queue' = IF queue = <<>> THEN queue ELSE Tail(queue)
    /\ at' = [at EXCEPT ![t] = "storing"]
    /\ UNCHANGED <<count, protoVars, userVars, current, freed, returned, overlapped, disturbed>>

\* (slip: the test for nullptr comes before the assignment)
StoreEvent(t) ==
    /\ at[t] = "storing"
    /\ current' = IF popped[t] = NoEvent THEN current ELSE popped[t]
    /\ popped' = [popped EXCEPT ![t] = NoEvent]
    /\ at' = [at EXCEPT ![t] = IF popped[t] = NoEvent THEN "outside" ELSE "returning"]
    /\ UNCHANGED <<queueVars, protoVars, userVars, freed, returned, overlapped, disturbed>>

\* (slip: currentReceiveEvent is cleaned up after the assignment)
StoreClean(t) ==
    /\ at[t] = "storing"
    /\ current' = popped[t]
    /\ freed' = IF popped[t] \in withData THEN [freed EXCEPT ![popped[t]] = @ + 1] ELSE freed
    /\ popped' = [popped EXCEPT ![t] = NoEvent]
    /\ at' = [at EXCEPT ![t] = "returning"]
    /\ UNCHANGED <<queueVars, protoVars, userVars, returned, overlapped, disturbed>>

Store(t) ==
    /\ at[t] = "storing"
    /\ current' = popped[t]
    /\ popped' = [popped EXCEPT ![t] = NoEvent]
    /\ at' = [at EXCEPT ![t] = "returning"]
    /\ UNCHANGED <<queueVars, protoVars, userVars, freed, returned, overlapped, disturbed>>

\* currentReceiveEvent is read again for the result
Return(t) ==
    /\ at[t] = "returning"
    /\ returned' = [returned EXCEPT ![t] = current]
    /\ at' = [at EXCEPT ![t] = IF current = NoEvent THEN "outside" ELSE "holding"]
    /\ UNCHANGED <<queueVars, protoVars, userVars, current, freed, popped, overlapped, disturbed>>

Receive(t) == CleanUp(t) \/ Wait(t) \/ PopFront(t) \/ Store(t) \/ Return(t)

-----------------------------------------------------------------------------
ProtoStep == Response \/ DidReceiveUpdates \/ ConnectionStateChanged \/ ProtoNotify \/ ProtoStops
UserStep == Pause \/ Stop \/ Destroy \/ UserNotify \/ RemoveClient
ReceiverStep(t) == Enter(t) \/ Receive(t)

Next == ProtoStep \/ UserStep \/ \E t \in Receivers : ReceiverStep(t)

Spec == Init /\ [][Next]_vars

\* Calls that have begun go on; nobody has to call.
FairSpec ==
    /\ Spec
    /\ WF_vars(ProtoNotify) /\ WF_vars(ProtoStops) /\ WF_vars(UserNotify) /\ WF_vars(RemoveClient)
    /\ \A t \in Receivers : WF_vars(Receive(t))

-----------------------------------------------------------------------------
(* Properties.                                                             *)

\* events in the deque whose push_back has not notified yet
Notifying == (IF protoAt = "notify" THEN 1 ELSE 0)
             + (IF user \in {"notify", "notifyDestroy"} THEN 1 ELSE 0)

\* receivers that have passed the semaphore
Popping == {t \in Receivers : at[t] = "popping"}

\* The semaphore and the deque change at different times, each under its own
\* mutex, and pop_front guards against an empty deque: whoever has passed the
\* semaphore finds an event, and nothing stays in the deque uncounted.
CountsAgree ==
    count + Cardinality(Popping) + Notifying = Len(queue)

\* The data of an event is never deleted before the event is returned, and
\* deleted at most once as long as no two calls of receive were inside at once;
\* that the ClientSync is paused, stopped or destroyed meanwhile, and receive
\* returns nullptr in between, does not matter.
FreedOnce ==
    /\ \A i \in DOMAIN queue : queue[i] # NoEvent => freed[queue[i]] = 0
    /\ \A t \in Receivers : popped[t] # NoEvent => freed[popped[t]] = 0
    /\ ~overlapped => \A e \in Events : freed[e] <= 1

\* What receive returned stays what it was until the thread calls again, if no
\* other thread calls receive and the client is not destroyed: Proto's callbacks
\* and the calls of pause and stop leave it alone.
HeldIsIntact ==
    \A t \in Receivers :
        at[t] = "holding" /\ t \notin disturbed /\ registered =>
            returned[t] = current /\ freed[returned[t]] = 0

\* No event waits beside a sleeping receiver: each one that comes while a thread
\* is in receive is taken, the empty one of pause, stop and destroy as well.
EventsAreTaken ==
    \A t \in Receivers :
        at[t] = "waiting" /\ queue # <<>> ~> at[t] # "waiting" \/ queue = <<>>
=============================================================================
