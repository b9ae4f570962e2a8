--------------------------- MODULE ClientSyncProofs ---------------------------
(***************************************************************************)
(* Proofs about ClientSync, for any number of receiving threads, events    *)
(* and calls.                                                              *)
(***************************************************************************)
EXTENDS ClientSync, FiniteSetTheorems, SequenceTheorems, TLAPS

USE ClientAssumption

\* An event is in one place: one position of the deque, the hand of one
\* receiver, or currentReceiveEvent; and all of them have been made.
PlaceInv ==
    /\ \A i, j \in DOMAIN queue : queue[i] # NoEvent /\ queue[i] = queue[j] => i = j
    /\ \A i \in DOMAIN queue : queue[i] # NoEvent =>
          /\ queue[i] <= made /\ queue[i] # current
          /\ \A t \in Receivers : popped[t] # queue[i]
    /\ \A t \in Receivers : popped[t] # NoEvent =>
          /\ popped[t] <= made /\ popped[t] # current
          /\ at[t] = "storing"
    /\ \A t, u \in Receivers : popped[t] # NoEvent /\ popped[t] = popped[u] => t = u
    /\ current # NoEvent => current <= made

\* What has not been returned yet has not been freed.
FreshInv ==
    /\ \A e \in Events : e > made => freed[e] = 0
    /\ \A i \in DOMAIN queue : queue[i] # NoEvent => freed[queue[i]] = 0
    /\ \A t \in Receivers : popped[t] # NoEvent => freed[popped[t]] = 0

\* Calls that do not overlap: one thread at most is inside, and the current
\* event is freed only while that thread waits for the next one.
AloneInv ==
    ~overlapped =>
        /\ \A t, u \in Receivers : Inside(t) /\ Inside(u) => t = u
        /\ \A e \in Events : freed[e] <= 1
        /\ current # NoEvent /\ freed[current] # 0 =>
              \E t \in Receivers : at[t] \in {"waiting", "popping", "storing"}

\* A receiver whose call nobody disturbs is alone, and what it stored or
\* returned is the current event, intact.
HeldInv ==
    \A t \in Receivers : t \notin disturbed =>
        /\ at[t] # "outside" => \A u \in Receivers : Inside(u) => u = t
        /\ at[t] = "returning" => (current = NoEvent \/ freed[current] = 0)
        /\ at[t] = "holding" =>
              returned[t] = current /\ current # NoEvent /\ freed[current] = 0

-----------------------------------------------------------------------------
(* Type correctness.                                                       *)

\* The head of a deque that is not empty is a pointer, the rest is a deque.
LEMMA HeadOfQueue ==
    ASSUME NEW s \in Seq(Pointers), s # <<>>
    PROVE  /\ Head(s) \in Pointers /\ Tail(s) \in Seq(Pointers)
           /\ Head(s) = s[1] /\ Len(s) \in Nat \ {0} /\ Len(Tail(s)) = Len(s) - 1
           /\ DOMAIN s = 1..Len(s)
           /\ DOMAIN Tail(s) = 1..(Len(s) - 1)
           /\ \A i \in 1..(Len(s) - 1) : Tail(s)[i] = s[i + 1] /\ i + 1 \in DOMAIN s
           /\ 1 \in DOMAIN s
OBVIOUS

\* push_back adds one pointer behind the others.
LEMMA EndOfQueue ==
    ASSUME NEW s \in Seq(Pointers), NEW e \in Pointers
    PROVE  /\ Append(s, e) \in Seq(Pointers)
           /\ Len(Append(s, e)) = Len(s) + 1
           /\ DOMAIN s = 1..Len(s) /\ Len(s) \in Nat
           /\ DOMAIN Append(s, e) = 1..(Len(s) + 1)
           /\ Append(s, e)[Len(s) + 1] = e
           /\ \A i \in DOMAIN s : Append(s, e)[i] = s[i] /\ i # Len(s) + 1
OBVIOUS

LEMMA TypeInit == Init => TypeOK
<1> SUFFICES ASSUME Init PROVE TypeOK
    OBVIOUS
<1>1. queue \in Seq(Pointers) /\ freed \in [Events -> Nat] /\ disturbed \in SUBSET Receivers
    BY DEF Init
<1>2. made \in 0..MaxEvents /\ calls \in 0..MaxCalls /\ count \in Nat
    BY DEF Init
<1> QED
    BY <1>1, <1>2 DEF Init, TypeOK, Pointers

LEMMA TypeStep == TypeOK /\ [Next]_vars => TypeOK'
<1> SUFFICES ASSUME TypeOK, [Next]_vars PROVE TypeOK'
    OBVIOUS
<1> USE DEF TypeOK, queueVars, protoVars, userVars, receiverVars
<1>1. ASSUME NEW data \in BOOLEAN, NewEvent(data) PROVE TypeOK'
    <2>1. made + 1 \in Events /\ made + 1 \in Pointers
        BY <1>1 DEF NewEvent, Events, Pointers
    <2>2. queue' \in Seq(Pointers)
        BY <1>1, <2>1, EndOfQueue DEF NewEvent, PushBack
    <2> QED BY <1>1, <2>1, <2>2 DEF NewEvent, Events
<1>2. CASE ProtoNotify
    BY <1>2 DEF ProtoNotify, Notify
<1>3. CASE ProtoStops
    BY <1>3 DEF ProtoStops
<1>4. ASSUME NEW next \in {"notify", "notifyDestroy"}, NEW stops \in BOOLEAN, Call(next, stops)
      PROVE  TypeOK'
    <2>1. queue' \in Seq(Pointers)
        BY <1>4, EndOfQueue DEF Call, PushBack, Pointers
    <2> QED BY <1>4, <2>1 DEF Call
<1>5. CASE UserNotify
    BY <1>5 DEF UserNotify, Notify
<1>6. CASE RemoveClient
    BY <1>6 DEF RemoveClient
<1>7. ASSUME NEW t \in Receivers, Enter(t) PROVE TypeOK'
    BY <1>7 DEF Enter, Pointers
<1>8. ASSUME NEW t \in Receivers, CleanUp(t) PROVE TypeOK'
    BY <1>8 DEF CleanUp
<1>9. ASSUME NEW t \in Receivers, Wait(t) PROVE TypeOK'
    BY <1>9 DEF Wait
<1>10. ASSUME NEW t \in Receivers, PopFront(t) PROVE TypeOK'
    <2>1. queue' \in Seq(Pointers) /\ popped' \in [Receivers -> Pointers]
        BY <1>10, HeadOfQueue DEF PopFront, Pointers
    <2> QED BY <1>10, <2>1 DEF PopFront
<1>11. ASSUME NEW t \in Receivers, Store(t) PROVE TypeOK'
    BY <1>11 DEF Store, Pointers
<1>12. ASSUME NEW t \in Receivers, Return(t) PROVE TypeOK'
    BY <1>12 DEF Return
<1>13. CASE UNCHANGED vars
    BY <1>13 DEF vars
<1> QED
    BY <1>1, <1>2, <1>3, <1>4, <1>5, <1>6, <1>7, <1>8, <1>9, <1>10, <1>11, <1>12, <1>13
       DEF Next, ProtoStep, Response, DidReceiveUpdates, ConnectionStateChanged, UserStep,
           Pause, Stop, Destroy, ReceiverStep, Receive

\* Every variable of ClientSync keeps to its type.
THEOREM TypeCorrect == Spec => []TypeOK
<1>1. Init => TypeOK
    BY TypeInit
<1>2. TypeOK /\ [Next]_vars => TypeOK'
    BY TypeStep
<1> QED
    BY <1>1, <1>2, PTL DEF Spec

-----------------------------------------------------------------------------
(* The semaphore and the deque.                                            *)

\* A thread that passes the semaphore joins Popping, one that pops leaves it.
LEMMA PoppingCount ==
    ASSUME NEW t \in Receivers, TypeOK, NEW place, at' = [at EXCEPT ![t] = place]
    PROVE  /\ Cardinality(Popping) \in Nat
           /\ at[t] # "popping" /\ place = "popping" =>
                Cardinality(Popping') = Cardinality(Popping) + 1
           /\ at[t] = "popping" /\ place # "popping" =>
                Cardinality(Popping') = Cardinality(Popping) - 1 /\ Cardinality(Popping) > 0
           /\ at[t] # "popping" /\ place # "popping" => Popping' = Popping
<1>1. IsFiniteSet(Popping)
    BY FS_Subset DEF Popping
<1>2. Cardinality(Popping) \in Nat
    BY <1>1, FS_CardinalityType
<1>3. ASSUME at[t] # "popping", place = "popping"
      PROVE  Cardinality(Popping') = Cardinality(Popping) + 1
    <2>1. Popping' = Popping \cup {t} /\ t \notin Popping
        BY <1>3 DEF Popping, TypeOK
    <2> QED BY <1>1, <2>1, FS_AddElement
<1>4. ASSUME at[t] = "popping", place # "popping"
      PROVE  Cardinality(Popping') = Cardinality(Popping) - 1 /\ Cardinality(Popping) > 0
    <2>1. Popping' = Popping \ {t} /\ t \in Popping
        BY <1>4 DEF Popping, TypeOK
    <2>2. Cardinality(Popping') = Cardinality(Popping) - 1
        BY <1>1, <2>1, FS_RemoveElement
    <2>3. Cardinality(Popping) # 0
        BY <1>1, <2>1, FS_EmptySet
    <2> QED BY <1>2, <2>2, <2>3
<1>5. at[t] # "popping" /\ place # "popping" => Popping' = Popping
    BY DEF Popping, TypeOK
<1> QED BY <1>2, <1>3, <1>4, <1>5

LEMMA CountsInit == Init => CountsAgree
<1> SUFFICES ASSUME Init PROVE CountsAgree
    OBVIOUS
<1>1. Popping = {}
    BY DEF Init, Popping
<1>2. Cardinality(Popping) = 0
    BY <1>1, FS_EmptySet
<1> QED BY <1>2 DEF Init, CountsAgree, Notifying

LEMMA CountsStep == TypeOK /\ CountsAgree /\ [Next]_vars => CountsAgree'
<1> SUFFICES ASSUME TypeOK, CountsAgree, [Next]_vars PROVE CountsAgree'
    OBVIOUS
<1> USE DEF queueVars, protoVars, userVars, receiverVars
<1>0. Cardinality(Popping) \in Nat /\ (at' = at => Popping' = Popping)
    BY FS_Subset, FS_CardinalityType DEF Popping
<1>1. ASSUME NEW data \in BOOLEAN, NewEvent(data) PROVE CountsAgree'
    <2>1. made + 1 \in Pointers
        BY <1>1 DEF NewEvent, Events, Pointers, TypeOK
    <2>2. Len(queue') = Len(queue) + 1
        BY <1>1, <2>1, EndOfQueue DEF NewEvent, PushBack, TypeOK
    <2>3. Notifying' = Notifying + 1
        BY <1>1 DEF NewEvent, Notifying, TypeOK
    <2> QED BY <1>0, <1>1, <2>2, <2>3 DEF NewEvent, CountsAgree, TypeOK, Notifying
<1>2. CASE ProtoNotify
    BY <1>0, <1>2 DEF ProtoNotify, Notify, CountsAgree, Notifying, TypeOK
<1>3. CASE ProtoStops
    BY <1>0, <1>3 DEF ProtoStops, CountsAgree, Notifying, TypeOK
<1>4. ASSUME NEW next \in {"notify", "notifyDestroy"}, NEW stops \in BOOLEAN, Call(next, stops)
      PROVE  CountsAgree'
    <2>1. Len(queue') = Len(queue) + 1
        BY <1>4, EndOfQueue DEF Call, PushBack, Pointers, TypeOK
    <2>2. Notifying' = Notifying + 1
        BY <1>4 DEF Call, Notifying, TypeOK
    <2> QED BY <1>0, <1>4, <2>1, <2>2 DEF Call, CountsAgree, TypeOK, Notifying
<1>5. CASE UserNotify
    BY <1>0, <1>5 DEF UserNotify, Notify, CountsAgree, Notifying, TypeOK
<1>6. CASE RemoveClient
    BY <1>0, <1>6 DEF RemoveClient, CountsAgree, Notifying, TypeOK
<1>7. ASSUME NEW t \in Receivers, Enter(t) \/ CleanUp(t) \/ Store(t) \/ Return(t)
      PROVE  CountsAgree'
    <2>1. Popping' = Popping
        BY ZenonT(30), <1>7, PoppingCount DEF Enter, CleanUp, Store, Return
    <2> QED BY <1>7, <2>1 DEF Enter, CleanUp, Store, Return, CountsAgree, Notifying
<1>8. ASSUME NEW t \in Receivers, Wait(t) PROVE CountsAgree'
    <2>1. Cardinality(Popping') = Cardinality(Popping) + 1
        BY <1>8, PoppingCount DEF Wait
    <2> QED BY <1>0, <1>8, <2>1 DEF Wait, CountsAgree, Notifying, TypeOK
<1>9. ASSUME NEW t \in Receivers, PopFront(t) PROVE CountsAgree'
    <2>0. at[t] = "popping" /\ at' = [at EXCEPT ![t] = "storing"]
        BY <1>9 DEF PopFront
    <2>1. Cardinality(Popping') = Cardinality(Popping) - 1 /\ Cardinality(Popping) > 0
        <3>1. "storing" # "popping"
            OBVIOUS
        <3> QED BY <2>0, <3>1, PoppingCount, Zenon
    <2>2. Len(queue) > 0
        BY <1>0, <2>1 DEF CountsAgree, Notifying, TypeOK
    <2>3. queue # <<>> /\ Len(queue') = Len(queue) - 1
        BY <1>9, <2>2, HeadOfQueue DEF PopFront, TypeOK
    <2> QED BY <1>0, <1>9, <2>1, <2>3 DEF PopFront, CountsAgree, Notifying, TypeOK
<1>10. CASE UNCHANGED vars
    BY <1>0, <1>10 DEF vars, CountsAgree, Notifying
<1> QED
    BY <1>1, <1>2, <1>3, <1>4, <1>5, <1>6, <1>7, <1>8, <1>9, <1>10
       DEF Next, ProtoStep, Response, DidReceiveUpdates, ConnectionStateChanged, UserStep,
           Pause, Stop, Destroy, ReceiverStep, Receive

\* The count of ClientSync::semaphore agrees with ClientSync::queue: whoever has
\* passed the semaphore finds an event in pop_front.
THEOREM CountsCorrect == Spec => []CountsAgree
<1>1. Init => TypeOK /\ CountsAgree
    BY TypeInit, CountsInit
<1>2. (TypeOK /\ CountsAgree) /\ [Next]_vars => (TypeOK /\ CountsAgree)'
    BY TypeStep, CountsStep
<1> QED
    BY <1>1, <1>2, PTL DEF Spec

-----------------------------------------------------------------------------
(* Where the events are.                                                   *)

\* The actions that move no event.
Still(t) == Enter(t) \/ CleanUp(t) \/ Wait(t) \/ Return(t)
Aside == ProtoNotify \/ ProtoStops \/ UserNotify \/ RemoveClient \/ UNCHANGED vars

\* push_back puts a pointer behind the deque that is empty or was nowhere.
LEMMA PushKeepsPlaces ==
    ASSUME TypeOK, PlaceInv, NEW e \in Pointers, PushBack(e),
           e # NoEvent => e = made + 1,
           made' = IF e = NoEvent THEN made ELSE made + 1,
           UNCHANGED <<current, popped, at>>
    PROVE  PlaceInv'
<1> DEFINE n == Len(queue)
<1>1. /\ n \in Nat /\ DOMAIN queue = 1..n /\ DOMAIN queue' = 1..(n + 1)
      /\ queue'[n + 1] = e /\ \A i \in 1..n : queue'[i] = queue[i]
    BY EndOfQueue DEF PushBack, TypeOK
<1>2. /\ made \in Nat /\ made' \in Nat /\ made <= made'
      /\ \A i \in 1..n : queue[i] # NoEvent => queue[i] <= made /\ queue[i] \in Nat
      /\ \A t \in Receivers : popped[t] # NoEvent => popped[t] <= made /\ popped[t] \in Nat
      /\ current # NoEvent => current <= made /\ current \in Nat
    BY SMTT(30), <1>1 DEF PlaceInv, TypeOK, Pointers, Events
<1>3. ASSUME NEW i \in 1..(n + 1), NEW j \in 1..(n + 1), queue'[i] # NoEvent, queue'[i] = queue'[j]
      PROVE  i = j
    <2>1. CASE i \in 1..n /\ j \in 1..n
        BY <1>1, <1>3, <2>1 DEF PlaceInv
    <2>2. CASE i \in 1..n /\ j = n + 1
        BY <1>1, <1>2, <1>3, <2>2
    <2>3. CASE i = n + 1 /\ j \in 1..n
        BY <1>1, <1>2, <1>3, <2>3
    <2> QED BY <1>1, <2>1, <2>2, <2>3
<1>4. ASSUME NEW i \in 1..(n + 1), queue'[i] # NoEvent
      PROVE  /\ queue'[i] <= made' /\ queue'[i] # current
             /\ \A t \in Receivers : popped[t] # queue'[i]
    <2>1. CASE i \in 1..n
        BY <1>1, <1>2, <1>4, <2>1 DEF PlaceInv
    <2>2. CASE i = n + 1
        BY <1>1, <1>2, <1>4, <2>2
    <2> QED BY <1>1, <2>1, <2>2
<1> QED BY <1>1, <1>2, <1>3, <1>4 DEF PlaceInv

LEMMA PlaceInit == Init => PlaceInv
BY DEF Init, PlaceInv

LEMMA PlaceStep == TypeOK /\ CountsAgree /\ PlaceInv /\ [Next]_vars => PlaceInv'
<1> SUFFICES ASSUME TypeOK, CountsAgree, PlaceInv, [Next]_vars PROVE PlaceInv'
    OBVIOUS
<1> USE DEF queueVars, protoVars, userVars, receiverVars
<1>1. ASSUME NEW data \in BOOLEAN, NewEvent(data) PROVE PlaceInv'
    <2>1. made + 1 \in Events /\ made + 1 # NoEvent
        BY <1>1 DEF NewEvent, Events, TypeOK
    <2> QED BY <1>1, <2>1, PushKeepsPlaces DEF NewEvent, Pointers
<1>2. ASSUME NEW next \in {"notify", "notifyDestroy"}, NEW stops \in BOOLEAN, Call(next, stops)
      PROVE  PlaceInv'
    BY <1>2, PushKeepsPlaces DEF Call, Pointers
<1>3. ASSUME NEW t \in Receivers, PopFront(t) PROVE PlaceInv'
    <2>0. at' = [at EXCEPT ![t] = "storing"] /\ at[t] = "popping"
        BY <1>3 DEF PopFront
    <2>1. popped[t] = NoEvent
        BY <2>0 DEF PlaceInv
    <2>2. CASE queue = <<>>
        BY <1>3, <2>0, <2>1, <2>2 DEF PopFront, PlaceInv, TypeOK
    <2>3. CASE queue # <<>>
        <3> DEFINE n == Len(queue) - 1
        <3>1. /\ popped' = [popped EXCEPT ![t] = queue[1]] /\ DOMAIN queue = 1..(n + 1)
              /\ n \in Nat /\ DOMAIN queue' = 1..n
              /\ \A i \in 1..n : queue'[i] = queue[i + 1] /\ i + 1 \in 1..(n + 1) /\ i + 1 # 1
              /\ 1 \in 1..(n + 1)
              /\ UNCHANGED <<current, made>>
            BY <1>3, <2>3, HeadOfQueue DEF PopFront, TypeOK
        <3>2. \A i, j \in 1..n : queue'[i] # NoEvent /\ queue'[i] = queue'[j] => i = j
            BY SMTT(30), <3>1 DEF PlaceInv
        <3>3. \A i \in 1..n : queue'[i] # NoEvent =>
                 /\ queue'[i] <= made /\ queue'[i] # current
                 /\ \A u \in Receivers : popped'[u] # queue'[i]
            BY <3>1 DEF PlaceInv, TypeOK
        <3>4. \A u \in Receivers : popped'[u] # NoEvent =>
                 /\ popped'[u] <= made /\ popped'[u] # current /\ at'[u] = "storing"
            BY <3>1, <2>0 DEF PlaceInv, TypeOK
        <3>5. \A u, v \in Receivers : popped'[u] # NoEvent /\ popped'[u] = popped'[v] => u = v
            BY SMTT(30), <3>1, <2>0 DEF PlaceInv, TypeOK
        <3> QED BY <3>1, <3>2, <3>3, <3>4, <3>5 DEF PlaceInv
    <2> QED BY <2>2, <2>3
<1>4. ASSUME NEW t \in Receivers, Store(t) PROVE PlaceInv'
    BY <1>4 DEF Store, PlaceInv, TypeOK
<1>5. ASSUME NEW t \in Receivers, Still(t) PROVE PlaceInv'
    <2>1. UNCHANGED <<queue, current, popped, made>>
        BY <1>5 DEF Still, Enter, CleanUp, Wait, Return
    <2>2. at[t] # "storing" /\ \A u \in Receivers : u # t => at'[u] = at[u]
        BY <1>5 DEF Still, Enter, CleanUp, Wait, Return, TypeOK
    <2> QED BY <2>1, <2>2 DEF PlaceInv
<1>6. CASE Aside
    <2>1. UNCHANGED <<queue, current, popped, made, at>>
        BY <1>6 DEF Aside, ProtoNotify, ProtoStops, UserNotify, RemoveClient, vars
    <2> QED BY <2>1 DEF PlaceInv
<1> QED
    BY <1>1, <1>2, <1>3, <1>4, <1>5, <1>6
       DEF Next, ProtoStep, Response, DidReceiveUpdates, ConnectionStateChanged, UserStep,
           Pause, Stop, Destroy, ReceiverStep, Receive, Still, Aside

-----------------------------------------------------------------------------
(* What is freed.                                                          *)

LEMMA FreshInit == Init => FreshInv
BY DEF Init, FreshInv

LEMMA FreshStep == TypeOK /\ PlaceInv /\ FreshInv /\ [Next]_vars => FreshInv'
<1> SUFFICES ASSUME TypeOK, PlaceInv, FreshInv, [Next]_vars PROVE FreshInv'
    OBVIOUS
<1> USE DEF queueVars, protoVars, userVars, receiverVars
<1>1. ASSUME NEW data \in BOOLEAN, NewEvent(data) PROVE FreshInv'
    <2> DEFINE n == Len(queue)
    <2>1. made + 1 \in Events /\ made + 1 \in Pointers /\ made \in Nat
        BY <1>1 DEF NewEvent, Events, Pointers, TypeOK
    <2>2. /\ DOMAIN queue' = 1..(n + 1) /\ DOMAIN queue = 1..n /\ n \in Nat
          /\ queue'[n + 1] = made + 1
          /\ \A i \in 1..n : queue'[i] = queue[i]
        BY <1>1, <2>1, EndOfQueue DEF NewEvent, PushBack, TypeOK
    <2>3. UNCHANGED <<freed, popped>> /\ made' = made + 1
        BY <1>1 DEF NewEvent
    <2>4. freed[made + 1] = 0
        BY <2>1 DEF FreshInv
    <2>5. \A e \in Events : e > made' => freed'[e] = 0
        BY <2>1, <2>3 DEF FreshInv, Events
    <2>6. ASSUME NEW i \in 1..(n + 1), queue'[i] # NoEvent PROVE freed'[queue'[i]] = 0
        <3>1. CASE i = n + 1
            BY <2>2, <2>3, <2>4, <3>1
        <3>2. CASE i \in 1..n
            BY <2>2, <2>3, <2>6, <3>2 DEF FreshInv
        <3> QED BY <2>2, <3>1, <3>2
    <2> QED BY <2>2, <2>3, <2>5, <2>6 DEF FreshInv
<1>2. ASSUME NEW next \in {"notify", "notifyDestroy"}, NEW stops \in BOOLEAN, Call(next, stops)
      PROVE  FreshInv'
    <2> DEFINE n == Len(queue)
    <2>1. /\ DOMAIN queue' = 1..(n + 1) /\ DOMAIN queue = 1..n /\ n \in Nat
          /\ queue'[n + 1] = NoEvent
          /\ \A i \in 1..n : queue'[i] = queue[i]
        BY <1>2, EndOfQueue DEF Call, PushBack, TypeOK, Pointers
    <2>2. UNCHANGED <<freed, popped, made>>
        BY <1>2 DEF Call
    <2>3. ASSUME NEW i \in 1..(n + 1), queue'[i] # NoEvent PROVE freed'[queue'[i]] = 0
        <3>1. i \in 1..n
            BY <2>1, <2>3
        <3> QED BY <2>1, <2>2, <2>3, <3>1 DEF FreshInv
    <2> QED BY <2>1, <2>2, <2>3 DEF FreshInv
<1>3. ASSUME NEW t \in Receivers, PopFront(t) PROVE FreshInv'
    <2>1. UNCHANGED <<freed, made>>
        BY <1>3 DEF PopFront
    <2>2. CASE queue = <<>>
        BY <1>3, <2>1, <2>2 DEF PopFront, FreshInv, TypeOK
    <2>3. CASE queue # <<>>
        <3> DEFINE n == Len(queue) - 1
        <3>1. /\ popped' = [popped EXCEPT ![t] = queue[1]] /\ DOMAIN queue = 1..(n + 1)
              /\ n \in Nat /\ DOMAIN queue' = 1..n
              /\ \A i \in 1..n : queue'[i] = queue[i + 1] /\ i + 1 \in 1..(n + 1)
              /\ 1 \in 1..(n + 1)
            BY <1>3, <2>3, HeadOfQueue DEF PopFront, TypeOK
        <3> QED BY ZenonT(30), <2>1, <3>1 DEF FreshInv, TypeOK
    <2> QED BY <2>2, <2>3
<1>4. ASSUME NEW t \in Receivers, Store(t) PROVE FreshInv'
    BY <1>4 DEF Store, FreshInv, TypeOK
<1>5. ASSUME NEW t \in Receivers, CleanUp(t) PROVE FreshInv'
    <2>1. UNCHANGED <<queue, popped, made, current>>
        BY <1>5 DEF CleanUp
    <2>2. CASE current \in withData
        <3>1. /\ current \in Events /\ current # NoEvent
              /\ freed' = [freed EXCEPT ![current] = @ + 1]
            BY <1>5, <2>2 DEF CleanUp, TypeOK, Events
        <3>2. current <= made /\ made \in Nat /\ current \in Nat
            BY <3>1 DEF PlaceInv, TypeOK, Events
        <3>3. \A e \in Events : e # current => freed'[e] = freed[e]
            BY <3>1 DEF TypeOK
        <3>4. \A i \in DOMAIN queue : queue[i] # NoEvent => queue[i] \in Events /\ queue[i] # current
            BY DEF PlaceInv, TypeOK, Pointers
        <3>5. \A u \in Receivers : popped[u] # NoEvent => popped[u] \in Events /\ popped[u] # current
            BY DEF PlaceInv, TypeOK, Pointers
        <3>6. \A e \in Events : e > made' => freed'[e] = 0
            BY <2>1, <3>2, <3>3 DEF FreshInv, Events
        <3> QED BY <2>1, <3>3, <3>4, <3>5, <3>6 DEF FreshInv
    <2>3. CASE current \notin withData
        BY <1>5, <2>1, <2>3 DEF CleanUp, FreshInv
    <2> QED BY <2>2, <2>3
<1>6. ASSUME NEW t \in Receivers, Enter(t) \/ Wait(t) \/ Return(t) PROVE FreshInv'
    BY <1>6 DEF Enter, Wait, Return, FreshInv
<1>7. CASE Aside
    BY <1>7 DEF Aside, ProtoNotify, ProtoStops, UserNotify, RemoveClient, vars, FreshInv
<1> QED
    BY <1>1, <1>2, <1>3, <1>4, <1>5, <1>6, <1>7
       DEF Next, ProtoStep, Response, DidReceiveUpdates, ConnectionStateChanged, UserStep,
           Pause, Stop, Destroy, ReceiverStep, Receive, Aside

-----------------------------------------------------------------------------
(* Calls that do not meet.                                                 *)

\* What is not done by a receiver leaves the receivers' variables alone.
LEMMA OthersLeave ==
    ASSUME \/ \E data \in BOOLEAN : NewEvent(data)
           \/ \E next \in {"notify", "notifyDestroy"}, stops \in BOOLEAN : Call(next, stops)
           \/ Aside
    PROVE  UNCHANGED receiverVars
BY DEF NewEvent, Call, Aside, ProtoNotify, ProtoStops, UserNotify, RemoveClient, vars, receiverVars

\* Next, by who takes the step.
LEMMA NextBy ==
    ASSUME [Next]_vars
    PROVE  \/ UNCHANGED receiverVars
           \/ \E t \in Receivers : Enter(t) \/ CleanUp(t) \/ Wait(t) \/ PopFront(t) \/ Store(t) \/ Return(t)
BY OthersLeave
   DEF Next, ProtoStep, Response, DidReceiveUpdates, ConnectionStateChanged, UserStep,
       Pause, Stop, Destroy, ReceiverStep, Receive, Aside

LEMMA AloneInit == Init => AloneInv
BY DEF Init, AloneInv, Inside

LEMMA AloneStep == TypeOK /\ PlaceInv /\ FreshInv /\ AloneInv /\ [Next]_vars => AloneInv'
<1> SUFFICES ASSUME TypeOK, PlaceInv, FreshInv, AloneInv, [Next]_vars, ~overlapped' PROVE AloneInv'
    BY DEF AloneInv
<1> USE DEF receiverVars
<1>1. CASE UNCHANGED receiverVars
    BY <1>1 DEF AloneInv, Inside
<1>2. ASSUME NEW t \in Receivers, Enter(t) PROVE AloneInv'
    <2>1. ~overlapped /\ InsideThreads = {}
        BY <1>2 DEF Enter, TypeOK
    <2>2. \A u \in Receivers : u # t => ~Inside(u)' /\ at'[u] = at[u]
        BY <1>2, <2>1 DEF Enter, InsideThreads, Inside, TypeOK
    <2>3. UNCHANGED <<freed, current>>
        BY <1>2 DEF Enter
    <2>4. ~(current # NoEvent /\ freed[current] # 0)
        BY <2>1 DEF AloneInv, InsideThreads, Inside
    <2> QED BY <2>1, <2>2, <2>3, <2>4 DEF AloneInv
<1>3. ASSUME NEW t \in Receivers, CleanUp(t) PROVE AloneInv'
    <2>1. ~overlapped /\ at[t] = "entered" /\ at' = [at EXCEPT ![t] = "waiting"] /\ current' = current
        BY <1>3 DEF CleanUp
    <2>2. Inside(t) /\ \A u \in Receivers : Inside(u) => u = t
        BY <2>1 DEF AloneInv, Inside
    <2>3. \A u \in Receivers : Inside(u)' <=> Inside(u)
        BY <2>1 DEF Inside, TypeOK
    <2>4. current # NoEvent => freed[current] = 0
        <3>1. ~\E u \in Receivers : at[u] \in {"waiting", "popping", "storing"}
            BY <2>1, <2>2 DEF Inside
        <3> QED BY <2>1, <3>1 DEF AloneInv
    <2>5. \A e \in Events : freed'[e] <= 1
        <3>1. CASE current \in withData
            <4>1. current \in Events /\ current # NoEvent /\ freed' = [freed EXCEPT ![current] = @ + 1]
                BY <1>3, <3>1 DEF CleanUp, TypeOK, Events
            <4> QED BY <2>1, <2>4, <4>1 DEF AloneInv, TypeOK
        <3>2. CASE current \notin withData
            BY <1>3, <2>1, <3>2 DEF CleanUp, AloneInv
        <3> QED BY <3>1, <3>2
    <2>6. at'[t] \in {"waiting", "popping", "storing"}
        BY <2>1 DEF TypeOK
    <2> QED BY <2>2, <2>3, <2>5, <2>6 DEF AloneInv
<1>4. ASSUME NEW t \in Receivers, Wait(t) \/ PopFront(t) PROVE AloneInv'
    <2>1. /\ UNCHANGED <<freed, current, overlapped>>
          /\ at' = [at EXCEPT ![t] = "popping"] \/ at' = [at EXCEPT ![t] = "storing"]
          /\ at[t] \in {"waiting", "popping"}
        BY <1>4 DEF Wait, PopFront
    <2>2. \A u \in Receivers : Inside(u)' <=> Inside(u)
        BY <2>1 DEF Inside, TypeOK
    <2>3. \A u \in Receivers : at[u] \in {"waiting", "popping", "storing"} =>
                               at'[u] \in {"waiting", "popping", "storing"}
        BY <2>1 DEF TypeOK
    <2> QED BY <2>1, <2>2, <2>3 DEF AloneInv
<1>5. ASSUME NEW t \in Receivers, Store(t) PROVE AloneInv'
    <2>1. /\ UNCHANGED <<freed, overlapped>> /\ current' = popped[t]
          /\ at[t] = "storing" /\ at' = [at EXCEPT ![t] = "returning"]
        BY <1>5 DEF Store
    <2>2. \A u \in Receivers : Inside(u)' <=> Inside(u)
        BY <2>1 DEF Inside, TypeOK
    <2>3. current' # NoEvent => freed'[current'] = 0
        BY <2>1 DEF FreshInv
    <2> QED BY <2>1, <2>2, <2>3 DEF AloneInv
<1>6. ASSUME NEW t \in Receivers, Return(t) PROVE AloneInv'
    <2>1. /\ UNCHANGED <<freed, current, overlapped>> /\ at[t] = "returning"
          /\ \/ at' = [at EXCEPT ![t] = "outside"]
             \/ at' = [at EXCEPT ![t] = "holding"]
        BY <1>6 DEF Return
    <2>2. \A u \in Receivers : Inside(u)' => Inside(u)
        BY <2>1 DEF Inside, TypeOK
    <2>3. \A u \in Receivers : at[u] \in {"waiting", "popping", "storing"} => at'[u] = at[u]
        BY <2>1 DEF TypeOK
    <2> QED BY <2>1, <2>2, <2>3 DEF AloneInv
<1> QED
    BY <1>1, <1>2, <1>3, <1>4, <1>5, <1>6, NextBy

\* The data of an event is never deleted before it is returned, nor twice unless
\* calls of receive overlap.
THEOREM FreedOnceCorrect == Spec => []FreedOnce
<1> DEFINE IInv == TypeOK /\ CountsAgree /\ PlaceInv /\ FreshInv /\ AloneInv
<1>1. Init => IInv
    BY TypeInit, CountsInit, PlaceInit, FreshInit, AloneInit
<1>2. IInv /\ [Next]_vars => IInv'
    BY TypeStep, CountsStep, PlaceStep, FreshStep, AloneStep
<1>3. IInv => FreedOnce
    BY DEF FreedOnce, FreshInv, AloneInv
<1> QED
    BY <1>1, <1>2, <1>3, PTL DEF Spec

-----------------------------------------------------------------------------
(* What a receiver holds.                                                  *)

LEMMA HeldInit == Init => HeldInv
BY DEF Init, HeldInv, Inside

LEMMA HeldStep == TypeOK /\ PlaceInv /\ FreshInv /\ HeldInv /\ [Next]_vars => HeldInv'
<1> SUFFICES ASSUME TypeOK, PlaceInv, FreshInv, HeldInv, [Next]_vars PROVE HeldInv'
    OBVIOUS
<1> USE DEF receiverVars
<1>1. CASE UNCHANGED receiverVars
    BY <1>1 DEF HeldInv, Inside
<1>2. ASSUME NEW t \in Receivers, Enter(t) PROVE HeldInv'
    <2>1. /\ UNCHANGED <<freed, current>> /\ at' = [at EXCEPT ![t] = "entered"]
          /\ returned' = [returned EXCEPT ![t] = NoEvent]
          /\ disturbed' = {u \in Receivers : IF u = t THEN InsideThreads # {}
                                             ELSE u \in disturbed \/ at[u] # "outside"}
        BY <1>2 DEF Enter
    <2>2. ASSUME NEW u \in Receivers, u \notin disturbed', u # t PROVE at'[u] = "outside"
        BY <2>1, <2>2 DEF TypeOK
    <2>3. t \notin disturbed' => \A u \in Receivers : Inside(u)' => u = t
        BY <2>1 DEF InsideThreads, Inside, TypeOK
    <2>4. at'[t] = "entered"
        BY <2>1 DEF TypeOK
    <2> QED BY <2>2, <2>3, <2>4 DEF HeldInv
<1>3. ASSUME NEW t \in Receivers, CleanUp(t) \/ Wait(t) \/ PopFront(t) PROVE HeldInv'
    <2>1. /\ UNCHANGED <<current, returned, disturbed>> /\ Inside(t)
          /\ \E place \in {"waiting", "popping", "storing"} : at' = [at EXCEPT ![t] = place]
        BY <1>3 DEF CleanUp, Wait, PopFront, Inside
    <2>2. \A u \in Receivers : Inside(u)' <=> Inside(u)
        BY <2>1 DEF Inside, TypeOK
    <2>3. at'[t] \in {"waiting", "popping", "storing"} /\ \A u \in Receivers : u # t => at'[u] = at[u]
        BY <2>1 DEF TypeOK
    <2>4. ASSUME NEW u \in Receivers, u \notin disturbed, u # t PROVE at[u] = "outside"
        BY <2>1, <2>4 DEF HeldInv
    <2>5. t \notin disturbed => \A u \in Receivers : Inside(u)' => u = t
        BY <2>1, <2>2 DEF HeldInv, Inside
    <2>6. at'[t] # "returning" /\ at'[t] # "holding"
        BY <2>3
    <2> QED BY <2>1, <2>3, <2>4, <2>5, <2>6 DEF HeldInv
<1>4. ASSUME NEW t \in Receivers, Store(t) PROVE HeldInv'
    <2>1. /\ UNCHANGED <<freed, returned, disturbed>> /\ current' = popped[t]
          /\ at[t] = "storing" /\ at' = [at EXCEPT ![t] = "returning"]
        BY <1>4 DEF Store
    <2>2. \A u \in Receivers : Inside(u)' <=> Inside(u)
        BY <2>1 DEF Inside, TypeOK
    <2>3. at'[t] = "returning" /\ \A u \in Receivers : u # t => at'[u] = at[u]
        BY <2>1 DEF TypeOK
    <2>4. ASSUME NEW u \in Receivers, u \notin disturbed, u # t PROVE at[u] = "outside"
        BY <2>1, <2>4 DEF HeldInv, Inside
    <2>5. current' # NoEvent => freed'[current'] = 0
        BY <2>1 DEF FreshInv
    <2> QED BY <2>1, <2>2, <2>3, <2>4, <2>5 DEF HeldInv
<1>5. ASSUME NEW t \in Receivers, Return(t) PROVE HeldInv'
    <2>1. /\ UNCHANGED <<freed, current, disturbed>> /\ returned' = [returned EXCEPT ![t] = current]
          /\ at[t] = "returning"
          /\ at' = [at EXCEPT ![t] = IF current = NoEvent THEN "outside" ELSE "holding"]
        BY <1>5 DEF Return
    <2>2. \A u \in Receivers : Inside(u)' => Inside(u)
        BY <2>1 DEF Inside, TypeOK
    <2>3. \A u \in Receivers : u # t => at'[u] = at[u] /\ returned'[u] = returned[u]
        BY <2>1 DEF TypeOK
    <2>4. ASSUME NEW u \in Receivers, u \notin disturbed, u # t PROVE at[u] = "outside"
        BY <2>1, <2>4 DEF HeldInv, Inside
    <2>5. /\ at'[t] # "returning"
          /\ at'[t] = "holding" => returned'[t] = current /\ current # NoEvent
        BY <2>1 DEF TypeOK
    <2>6. t \notin disturbed => current = NoEvent \/ freed[current] = 0
        BY <2>1 DEF HeldInv
    <2>7. t \notin disturbed => \A u \in Receivers : Inside(u)' => u = t
        BY <2>1, <2>2 DEF HeldInv
    <2> QED BY <2>1, <2>2, <2>3, <2>4, <2>5, <2>6, <2>7 DEF HeldInv
<1> QED
    BY <1>1, <1>2, <1>3, <1>4, <1>5, NextBy

\* What receive returned stays intact until the thread, or another one, calls
\* receive again, or the client is destroyed.
THEOREM HeldIsIntactCorrect == Spec => []HeldIsIntact
<1> DEFINE IInv == TypeOK /\ CountsAgree /\ PlaceInv /\ FreshInv /\ HeldInv
<1>1. Init => IInv
    BY TypeInit, CountsInit, PlaceInit, FreshInit, HeldInit
<1>2. IInv /\ [Next]_vars => IInv'
    BY TypeStep, CountsStep, PlaceStep, FreshStep, HeldStep
<1>3. IInv => HeldIsIntact
    BY DEF HeldIsIntact, HeldInv
<1> QED
    BY <1>1, <1>2, <1>3, PTL DEF Spec
=============================================================================
