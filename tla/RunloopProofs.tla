------------------------------ MODULE RunloopProofs ------------------------------
(***************************************************************************)
(* Proofs about Runloop, for any timers, timeouts and number of restarts.  *)
(***************************************************************************)
EXTENDS Runloop, SequenceTheorems, FiniteSetTheorems, TLAPS

TypeInv ==
    /\ queue \in Seq(Entry) /\ worker \in Seq(Job)
    /\ ticks \in Nat /\ sleeps \in Nat
    /\ posted \in [Timers -> Nat] /\ age \in [Timers -> Nat]

\* No timer is on the list s twice.
Once(s) == \A i, j \in DOMAIN s : s[i].timer = s[j].timer => i = j

\* What a timer has waited and what it has yet to wait make up its timeout.
AgeInv ==
    /\ \A i \in DOMAIN queue :
          age[queue[i].timer] + queue[i].at = Timeout[queue[i].timer] + ticks
    /\ \A t \in Timers : ~Queued(t) => age[t] = 0

ListInv == TypeInv /\ Once(queue) /\ AgeInv

\* The list is sorted by target; a timer that is overdue is so by no more ticks
\* than there are timers behind the last place it can have had.
Sorted(s) == \A i, j \in DOMAIN s : i <= j => s[i].at <= s[j].at

LateInv ==
    /\ Sorted(queue)
    /\ \A i \in DOMAIN queue :
          ticks >= queue[i].at => i + (ticks - queue[i].at) <= Cardinality(Timers)

\* A timer that does not repeat is scheduled once, before it is invalidated;
\* once that has been carried out it is neither on the list nor about to be.
SilentInv ==
    /\ silenced \subseteq ended /\ ended \subseteq started
    /\ \A t \in Timers, i \in DOMAIN worker : worker[i] = Invalidate(t) => t \in ended
    /\ \A t \in Timers \ Repeating, i, j \in DOMAIN worker :
          i < j /\ worker[i] = Invalidate(t) => worker[j] # Schedule(t)
    /\ \A t \in silenced \ Repeating :
          ~Queued(t) /\ \A i \in DOMAIN worker : worker[i] # Schedule(t)

-----------------------------------------------------------------------------
(* Sequences and jobs.                                                     *)

\* r holds the entries of s but the one in place i.
Without(s, r, i) ==
    /\ r \in Seq(Entry)
    /\ \A k \in DOMAIN r : \E j \in DOMAIN s \ {i} : r[k] = s[j]
    /\ \A j \in DOMAIN s \ {i} : \E k \in DOMAIN r : r[k] = s[j]
    /\ Once(s) => Once(r)

\* The entries of a list have a timer and a target; the first is its head.
LEMMA Entries ==
    ASSUME NEW s \in Seq(Entry)
    PROVE  /\ \A j \in DOMAIN s : s[j] \in Entry /\ s[j].timer \in Timers /\ s[j].at \in Nat
           /\ s # <<>> => 1 \in DOMAIN s /\ Head(s) = s[1]
<1>1. \A j \in DOMAIN s : s[j] \in Entry
  OBVIOUS
<1>2. \A x \in Entry : x.timer \in Timers /\ x.at \in Nat
  BY DEF Entry
<1>3. s # <<>> => 1 \in DOMAIN s /\ Head(s) = s[1]
  OBVIOUS
<1> QED
  BY <1>1, <1>2, <1>3

\* r is s with e put at place i, and those behind it moved down
PutAt(s, i, e, r) ==
    /\ r \in Seq(Entry)
    /\ Len(s) \in Nat /\ DOMAIN s = 1..Len(s) /\ Len(r) = Len(s) + 1
    /\ DOMAIN r = 1..(Len(s) + 1)
    /\ r[i] = e
    /\ \A k \in 1..(Len(s) + 1) : k < i => r[k] = s[k]
    /\ \A k \in 1..(Len(s) + 1) : k > i => r[k] = s[k - 1]

\* An insertion puts its entry at its place and moves those behind it down.
LEMMA InsertPlaces ==
    ASSUME NEW s \in Seq(Entry), NEW e \in Entry, NEW i \in 1..(Len(s) + 1)
    PROVE  PutAt(s, i, e, InsertAt(s, i, e))
<1> DEFINE a == SubSeq(s, 1, i - 1)
           b == SubSeq(s, i, Len(s))
           h == a \o <<e>>
           r == InsertAt(s, i, e)
<1>0. Len(s) \in Nat /\ i \in Nat /\ DOMAIN s = 1..Len(s)
  OBVIOUS
<1>1. a \in Seq(Entry) /\ Len(a) = i - 1 /\ \A k \in 1..(i - 1) : a[k] = s[k]
  BY SubSeqProperties, Z3
<1>2. b \in Seq(Entry) /\ Len(b) = Len(s) + 1 - i
      /\ \A k \in 1..(Len(s) + 1 - i) : b[k] = s[i + k - 1]
  BY SubSeqProperties, Z3
<1>3. <<e>> \in Seq(Entry) /\ Len(<<e>>) = 1 /\ <<e>>[1] = e
  OBVIOUS
<1>r. r = h \o b
  BY DEF InsertAt
<1> HIDE DEF a, b
<1>4. /\ h \in Seq(Entry) /\ Len(h) = i
      /\ \A k \in 1..i : h[k] = IF k < i THEN s[k] ELSE e
  BY <1>1, <1>3, ConcatProperties
<1> HIDE DEF h, r
<1>5. /\ r \in Seq(Entry) /\ Len(r) = Len(s) + 1 /\ DOMAIN r = 1..(Len(s) + 1)
      /\ \A k \in 1..(Len(s) + 1) : r[k] = IF k <= i THEN h[k] ELSE b[k - i]
  <2>1. /\ r \in Seq(Entry) /\ Len(r) = Len(h) + Len(b)
        /\ \A k \in 1..(Len(h) + Len(b)) :
              r[k] = IF k <= Len(h) THEN h[k] ELSE b[k - Len(h)]
    BY <1>r, <1>2, <1>4, ConcatProperties, Zenon
  <2>2. Len(h) + Len(b) = Len(s) + 1
    BY <1>0, <1>2, <1>4
  <2>3. DOMAIN r = 1..Len(r)
    BY <2>1
  <2> QED
    BY <2>1, <2>2, <2>3, <1>4
<1>6. \A k \in 1..(Len(s) + 1) : k < i => r[k] = s[k]
  BY <1>0, <1>4, <1>5
<1>7. r[i] = e
  BY <1>0, <1>4, <1>5
<1>8. \A k \in 1..(Len(s) + 1) : k > i => r[k] = s[k - 1]
  <2> SUFFICES ASSUME NEW k \in 1..(Len(s) + 1), k > i
               PROVE  r[k] = s[k - 1]
    OBVIOUS
  <2>1. r[k] = b[k - i]
    BY <1>0, <1>5
  <2>2. k - i \in 1..(Len(s) + 1 - i) /\ i + (k - i) - 1 = k - 1
    BY <1>0
  <2> QED
    BY <1>2, <2>1, <2>2
<1>9. r = InsertAt(s, i, e)
  BY DEF r
<1>10. PutAt(s, i, e, r)
  BY <1>0, <1>5, <1>6, <1>7, <1>8 DEF PutAt
<1> QED
  BY <1>9, <1>10

\* An insertion adds its entry and keeps the others; a timer that was not on
\* the list is then on it once.
LEMMA InsertProperties ==
    ASSUME NEW s \in Seq(Entry), NEW e \in Entry, NEW i \in 1..(Len(s) + 1)
    PROVE  /\ InsertAt(s, i, e) \in Seq(Entry)
           /\ \A k \in DOMAIN InsertAt(s, i, e) :
                 InsertAt(s, i, e)[k] = e \/ \E j \in DOMAIN s : InsertAt(s, i, e)[k] = s[j]
           /\ \A j \in DOMAIN s : \E k \in DOMAIN InsertAt(s, i, e) :
                 InsertAt(s, i, e)[k] = s[j]
           /\ \E k \in DOMAIN InsertAt(s, i, e) : InsertAt(s, i, e)[k] = e
           /\ Once(s) /\ (\A j \in DOMAIN s : s[j].timer # e.timer) => Once(InsertAt(s, i, e))
<1> DEFINE r == InsertAt(s, i, e)
<1>0. Len(s) \in Nat /\ i \in Nat /\ DOMAIN s = 1..Len(s)
  OBVIOUS
<1>1. /\ r \in Seq(Entry) /\ DOMAIN r = 1..(Len(s) + 1) /\ r[i] = e
      /\ \A k \in 1..(Len(s) + 1) : k < i => r[k] = s[k]
      /\ \A k \in 1..(Len(s) + 1) : k > i => r[k] = s[k - 1]
  <2>1. PutAt(s, i, e, r)
    BY InsertPlaces
  <2> HIDE DEF r
  <2> QED
    BY <2>1 DEF PutAt
<1> HIDE DEF r
<1>2. \A k \in DOMAIN r : r[k] = e \/ \E j \in DOMAIN s : r[k] = s[j]
  <2> SUFFICES ASSUME NEW k \in DOMAIN r
               PROVE  r[k] = e \/ \E j \in DOMAIN s : r[k] = s[j]
    OBVIOUS
  <2>1. CASE k < i
    BY <2>1, <1>0, <1>1
  <2>2. CASE k = i
    BY <2>2, <1>1
  <2>3. CASE k > i
    <3>1. k - 1 \in DOMAIN s
      BY <2>3, <1>0, <1>1
    <3> QED
      BY <3>1, <2>3, <1>1
  <2> QED
    BY <1>0, <1>1, <2>1, <2>2, <2>3
<1>3. \A j \in DOMAIN s : \E k \in DOMAIN r : r[k] = s[j]
  <2> SUFFICES ASSUME NEW j \in DOMAIN s
               PROVE  \E k \in DOMAIN r : r[k] = s[j]
    OBVIOUS
  <2>1. CASE j < i
    BY <2>1, <1>0, <1>1
  <2>2. CASE j >= i
    <3>1. j + 1 \in 1..(Len(s) + 1) /\ j + 1 > i /\ (j + 1) - 1 = j
      BY <2>2, <1>0
    <3> QED
      BY <3>1, <1>1
  <2> QED
    BY <1>0, <2>1, <2>2
<1>4. ASSUME Once(s), \A j \in DOMAIN s : s[j].timer # e.timer
       PROVE  Once(r)
  <2> SUFFICES ASSUME NEW k \in 1..(Len(s) + 1), NEW l \in 1..(Len(s) + 1), k < l
               PROVE  r[k].timer # r[l].timer
    BY <1>1, <1>0 DEF Once
  <2>1. CASE l < i
    BY <2>1, <1>0, <1>1, <1>4 DEF Once
  <2>2. CASE l = i
    <3>1. r[k] = s[k] /\ k \in DOMAIN s
      BY <2>2, <1>0, <1>1
    <3> QED
      BY <3>1, <2>2, <1>1, <1>4
  <2>3. CASE l > i
    <3>1. r[l] = s[l - 1] /\ l - 1 \in DOMAIN s
      BY <2>3, <1>0, <1>1
    <3>2. CASE k < i
      BY SMTT(30), <3>1, <3>2, <2>3, <1>0, <1>1, <1>4 DEF Once
    <3>3. CASE k = i
      BY <3>1, <3>3, <1>1, <1>4
    <3>4. CASE k > i
      <4>1. r[k] = s[k - 1] /\ k - 1 \in DOMAIN s /\ k - 1 # l - 1
        BY <3>4, <1>0, <1>1
      <4> QED
        BY <4>1, <3>1, <1>4 DEF Once
    <3> QED
      BY <1>0, <3>2, <3>3, <3>4
  <2> QED
    BY <1>0, <2>1, <2>2, <2>3
<1>5. \E k \in DOMAIN r : r[k] = e
  BY <1>0, <1>1
<1> QED
  BY <1>1, <1>2, <1>3, <1>4, <1>5 DEF r

\* A removal moves the entries behind its place up.
LEMMA RemovePlaces ==
    ASSUME NEW s \in Seq(Entry), NEW i \in DOMAIN s
    PROVE  /\ RemoveAt(s, i) \in Seq(Entry)
           /\ Len(s) \in Nat /\ DOMAIN s = 1..Len(s)
           /\ DOMAIN RemoveAt(s, i) = 1..(Len(s) - 1)
           /\ \A k \in 1..(Len(s) - 1) : k < i => RemoveAt(s, i)[k] = s[k]
           /\ \A k \in 1..(Len(s) - 1) : k >= i => RemoveAt(s, i)[k] = s[k + 1]
<1> DEFINE a == SubSeq(s, 1, i - 1)
           b == SubSeq(s, i + 1, Len(s))
           r == RemoveAt(s, i)
<1>0. Len(s) \in Nat /\ i \in Nat /\ DOMAIN s = 1..Len(s)
  OBVIOUS
<1>1. a \in Seq(Entry) /\ Len(a) = i - 1 /\ \A k \in 1..(i - 1) : a[k] = s[k]
  BY SubSeqProperties, Z3
<1>2. b \in Seq(Entry) /\ Len(b) = Len(s) - i
      /\ \A k \in 1..(Len(s) - i) : b[k] = s[i + k]
  BY SubSeqProperties, Z3
<1>r. r = a \o b
  BY DEF RemoveAt
<1> HIDE DEF a, b, r
<1>3. /\ r \in Seq(Entry) /\ Len(r) = Len(s) - 1 /\ DOMAIN r = 1..(Len(s) - 1)
      /\ \A k \in 1..(Len(s) - 1) : r[k] = IF k <= i - 1 THEN a[k] ELSE b[k - (i - 1)]
  <2>1. /\ r \in Seq(Entry) /\ Len(r) = Len(a) + Len(b)
        /\ \A k \in 1..(Len(a) + Len(b)) :
              r[k] = IF k <= Len(a) THEN a[k] ELSE b[k - Len(a)]
    BY <1>r, <1>1, <1>2, ConcatProperties, Zenon
  <2>2. Len(a) + Len(b) = Len(s) - 1
    BY <1>0, <1>1, <1>2
  <2>3. DOMAIN r = 1..Len(r)
    BY <2>1
  <2> QED
    BY <2>1, <2>2, <2>3, <1>1
<1>4. \A k \in 1..(Len(s) - 1) : k < i => r[k] = s[k]
  BY <1>0, <1>1, <1>3
<1>5. \A k \in 1..(Len(s) - 1) : k >= i => r[k] = s[k + 1]
  <2> SUFFICES ASSUME NEW k \in 1..(Len(s) - 1), k >= i
               PROVE  r[k] = s[k + 1]
    OBVIOUS
  <2>1. r[k] = b[k - (i - 1)]
    BY <1>0, <1>3
  <2>2. k - (i - 1) \in 1..(Len(s) - i) /\ i + (k - (i - 1)) = k + 1
    BY <1>0
  <2> QED
    BY <1>2, <2>1, <2>2
<1> QED
  BY <1>0, <1>3, <1>4, <1>5 DEF r

\* A removal leaves the other entries.
LEMMA RemoveProperties ==
    ASSUME NEW s \in Seq(Entry), NEW i \in DOMAIN s
    PROVE  Without(s, RemoveAt(s, i), i)
<1> DEFINE r == RemoveAt(s, i)
<1>0. Len(s) \in Nat /\ i \in Nat /\ DOMAIN s = 1..Len(s)
  OBVIOUS
<1>1. /\ r \in Seq(Entry) /\ DOMAIN r = 1..(Len(s) - 1)
      /\ \A k \in 1..(Len(s) - 1) : k < i => r[k] = s[k]
      /\ \A k \in 1..(Len(s) - 1) : k >= i => r[k] = s[k + 1]
  BY RemovePlaces
<1> HIDE DEF r
<1>2. \A k \in DOMAIN r : \E j \in DOMAIN s \ {i} : r[k] = s[j]
  <2> SUFFICES ASSUME NEW k \in 1..(Len(s) - 1)
               PROVE  \E j \in DOMAIN s \ {i} : r[k] = s[j]
    BY <1>1
  <2>1. CASE k < i
    BY <2>1, <1>0, <1>1
  <2>2. CASE k >= i
    <3>1. k + 1 \in DOMAIN s \ {i}
      BY <2>2, <1>0
    <3> QED
      BY <3>1, <2>2, <1>1
  <2> QED
    BY <1>0, <2>1, <2>2
<1>3. \A j \in DOMAIN s \ {i} : \E k \in DOMAIN r : r[k] = s[j]
  <2> SUFFICES ASSUME NEW j \in DOMAIN s \ {i}
               PROVE  \E k \in 1..(Len(s) - 1) : r[k] = s[j]
    BY <1>1
  <2>1. CASE j < i
    <3>1. j \in 1..(Len(s) - 1)
      BY <2>1, <1>0
    <3> QED
      BY <3>1, <2>1, <1>1
  <2>2. CASE j > i
    <3>1. j - 1 \in 1..(Len(s) - 1) /\ j - 1 >= i /\ (j - 1) + 1 = j
      BY <2>2, <1>0
    <3> QED
      BY <3>1, <1>1
  <2> QED
    BY <1>0, <2>1, <2>2
<1>4. ASSUME Once(s) PROVE Once(r)
  <2> SUFFICES ASSUME NEW k \in 1..(Len(s) - 1), NEW l \in 1..(Len(s) - 1), k < l
               PROVE  r[k].timer # r[l].timer
    BY <1>0, <1>1 DEF Once
  <2> DEFINE Up(n) == IF n < i THEN n ELSE n + 1
  <2>1. r[k] = s[Up(k)] /\ r[l] = s[Up(l)]
    BY <1>0, <1>1
  <2>2. Up(k) \in DOMAIN s /\ Up(l) \in DOMAIN s /\ Up(k) # Up(l)
    BY <1>0
  <2> HIDE DEF Up
  <2> QED
    BY <2>1, <2>2, <1>4 DEF Once
<1> QED
  BY <1>1, <1>2, <1>3, <1>4 DEF Without, r

\* So does the loss of the first entry.
LEMMA TailProperties ==
    ASSUME NEW s \in Seq(Entry), s # <<>>
    PROVE  Without(s, Tail(s), 1)
<1>1. /\ Tail(s) \in Seq(Entry) /\ Len(s) \in Nat \ {0} /\ DOMAIN s = 1..Len(s)
      /\ DOMAIN Tail(s) = 1..(Len(s) - 1)
      /\ \A k \in 1..(Len(s) - 1) : Tail(s)[k] = s[k + 1]
  BY HeadTailProperties
<1>2. \A k \in DOMAIN Tail(s) : \E j \in DOMAIN s \ {1} : Tail(s)[k] = s[j]
  <2> TAKE k \in DOMAIN Tail(s)
  <2>1. k + 1 \in DOMAIN s \ {1}
    BY <1>1
  <2> QED
    BY <1>1, <2>1
<1>3. \A j \in DOMAIN s \ {1} : \E k \in DOMAIN Tail(s) : Tail(s)[k] = s[j]
  <2> TAKE j \in DOMAIN s \ {1}
  <2>1. j - 1 \in 1..(Len(s) - 1) /\ (j - 1) + 1 = j
    BY <1>1
  <2> QED
    BY <1>1, <2>1
<1>4. Once(s) => Once(Tail(s))
  <2> SUFFICES ASSUME Once(s), NEW k \in 1..(Len(s) - 1), NEW l \in 1..(Len(s) - 1),
                      s[k + 1].timer = s[l + 1].timer
               PROVE  k = l
    BY <1>1 DEF Once
  <2>1. k + 1 \in DOMAIN s /\ l + 1 \in DOMAIN s
    BY <1>1
  <2>2. k + 1 = l + 1
    BY <2>1 DEF Once
  <2> QED
    BY <1>1, <2>2
<1> QED
  BY <1>1, <1>2, <1>3, <1>4 DEF Without

\* The place of a new timer is one of the list, or behind its last.
LEMMA LowerBoundType ==
    ASSUME queue \in Seq(Entry), NEW at \in Nat
    PROVE  LowerBound(at) \in 1..(Len(queue) + 1)
<1> DEFINE S == {j \in DOMAIN queue : queue[j].at < at}
<1>1. DOMAIN queue = 1..Len(queue) /\ Len(queue) \in Nat
  OBVIOUS
<1>2. IsFiniteSet(1..Len(queue)) /\ Cardinality(1..Len(queue)) = Len(queue)
  BY SMTT(30), <1>1, FS_Interval
<1>3. S \subseteq 1..Len(queue)
  BY <1>1
<1>4. Cardinality(S) <= Len(queue) /\ IsFiniteSet(S)
  BY <1>2, <1>3, FS_Subset
<1>5. Cardinality(S) \in Nat
  BY <1>4, FS_CardinalityType
<1> QED
  BY <1>1, <1>4, <1>5 DEF LowerBound

\* The three kinds of job differ.
LEMMA Jobs ==
    ASSUME NEW t \in Timers
    PROVE  /\ Tick \in Job /\ Schedule(t) \in Job /\ Invalidate(t) \in Job
           /\ Tick # Schedule(t) /\ Tick # Invalidate(t)
           /\ \A u \in Timers : /\ Schedule(t) # Invalidate(u)
                                /\ Schedule(t) = Schedule(u) => t = u
                                /\ Invalidate(t) = Invalidate(u) => t = u
<1>1. Tick.op = "tick" /\ Schedule(t).op = "schedule" /\ Invalidate(t).op = "invalidate"
  BY DEF Tick, Schedule, Invalidate
<1>2. \A u \in Timers : /\ Schedule(u).timer = u /\ Invalidate(u).timer = u
                        /\ Invalidate(u).op = "invalidate"
  BY DEF Schedule, Invalidate
<1>3. Tick \in Job /\ Schedule(t) \in Job /\ Invalidate(t) \in Job
  BY DEF Job
<1> QED
  BY <1>1, <1>2, <1>3

\* A job appended to a queue of jobs is its last; the others keep their places.
LEMMA AppendJob ==
    ASSUME NEW s \in Seq(Job), NEW j \in Job
    PROVE  /\ Append(s, j) \in Seq(Job)
           /\ Len(s) \in Nat /\ DOMAIN s = 1..Len(s)
           /\ DOMAIN Append(s, j) = 1..(Len(s) + 1)
           /\ Append(s, j)[Len(s) + 1] = j
           /\ \A k \in DOMAIN s : Append(s, j)[k] = s[k]
OBVIOUS

\* When the first job is taken the others move down.
LEMMA TailJobs ==
    ASSUME NEW s \in Seq(Job), s # <<>>
    PROVE  /\ Tail(s) \in Seq(Job) /\ Head(s) = s[1]
           /\ Len(s) \in Nat \ {0} /\ DOMAIN s = 1..Len(s)
           /\ DOMAIN Tail(s) = 1..(Len(s) - 1)
           /\ \A k \in 1..(Len(s) - 1) : Tail(s)[k] = s[k + 1]
BY HeadTailProperties

-----------------------------------------------------------------------------
(* The list of timers.                                                     *)

LEMMA ListInvInit == Init => ListInv
<1> SUFFICES ASSUME Init PROVE ListInv
  OBVIOUS
<1>1. queue = <<>> /\ DOMAIN queue = {}
  BY DEF Init
<1>2. TypeInv
  BY DEF Init, TypeInv
<1>3. Once(queue) /\ AgeInv
  BY <1>1 DEF Once, AgeInv, Init
<1> QED
  BY <1>2, <1>3 DEF ListInv

\* A new timer has waited for no tick, and its target is its timeout away.
LEMMA ScheduleKeepsList ==
    ASSUME ListInv, NEW t \in Timers, DoSchedule(t), worker' \in Seq(Job)
    PROVE  ListInv'
<1>1. CASE Queued(t)
  <2>1. UNCHANGED <<queue, ticks, sleeps, posted, age>>
    BY <1>1 DEF DoSchedule
  <2> QED
    BY <2>1 DEF ListInv, TypeInv, AgeInv, Queued, Once
<1>2. CASE ~Queued(t)
  <2> DEFINE e == [timer |-> t, at |-> Timeout[t] + ticks]
             i == LowerBound(e.at)
  <2>1. /\ queue' = InsertAt(queue, i, e) /\ sleeps' = sleeps + 1
        /\ UNCHANGED <<ticks, posted, age>>
    BY <1>2 DEF DoSchedule, Inserted, TargetTicks
  <2>2. e \in Entry /\ e.at \in Nat /\ queue \in Seq(Entry) /\ e.timer = t
        /\ e.at = Timeout[t] + ticks
    BY RunloopAssumption DEF ListInv, TypeInv, Entry
  <2>3. i \in 1..(Len(queue) + 1)
    BY <2>2, LowerBoundType
  <2> HIDE DEF e, i
  <2>4. /\ queue' \in Seq(Entry)
        /\ \A k \in DOMAIN queue' :
              queue'[k] = e \/ \E j \in DOMAIN queue : queue'[k] = queue[j]
        /\ \A j \in DOMAIN queue : \E k \in DOMAIN queue' : queue'[k] = queue[j]
        /\ \E k \in DOMAIN queue' : queue'[k] = e
        /\ Once(queue) /\ (\A j \in DOMAIN queue : queue[j].timer # e.timer) => Once(queue')
    BY ZenonT(30), <2>1, <2>2, <2>3, InsertProperties
  <2>5. Once(queue')
    BY <1>2, <2>2, <2>4 DEF ListInv, Queued
  <2>6. TypeInv'
    BY <2>1, <2>4 DEF ListInv, TypeInv
  <2>7. age[t] = 0
    BY <1>2 DEF ListInv, AgeInv
  <2>8. ASSUME NEW k \in DOMAIN queue'
        PROVE  age'[queue'[k].timer] + queue'[k].at = Timeout[queue'[k].timer] + ticks'
    <3>1. CASE queue'[k] = e
      BY <3>1, <2>1, <2>2, <2>7, RunloopAssumption DEF ListInv, TypeInv
    <3>2. CASE \E j \in DOMAIN queue : queue'[k] = queue[j]
      BY <3>2, <2>1 DEF ListInv, AgeInv
    <3> QED
      BY <2>4, <3>1, <3>2
  <2>9. ASSUME NEW u \in Timers, ~Queued(u)'
        PROVE  age'[u] = 0
    <3>1. ~Queued(u)
      BY <2>4, <2>9 DEF Queued
    <3> QED
      BY <3>1, <2>1 DEF ListInv, AgeInv
  <2> QED
    BY <2>5, <2>6, <2>8, <2>9 DEF ListInv, AgeInv
<1> QED
  BY <1>1, <1>2

\* A timer that is invalidated leaves the list, for good or until it starts again.
LEMMA InvalidateRemoves ==
    ASSUME ListInv, NEW t \in Timers, DoInvalidate(t)
    PROVE  /\ queue' \in Seq(Entry) /\ Once(queue')
           /\ \A k \in DOMAIN queue' : \E j \in DOMAIN queue :
                 queue'[k] = queue[j] /\ queue[j].timer # t
           /\ \A j \in DOMAIN queue : queue[j].timer # t =>
                 \E k \in DOMAIN queue' : queue'[k] = queue[j]
<1>1. CASE Queued(t)
  <2>1. PICK i \in DOMAIN queue : queue[i].timer = t /\ queue' = RemoveAt(queue, i)
    BY <1>1 DEF DoInvalidate
  <2>2. Without(queue, queue', i)
    BY <2>1, RemoveProperties DEF ListInv, TypeInv
  <2>3. \A j \in DOMAIN queue \ {i} : queue[j].timer # t
    BY <2>1 DEF ListInv, Once
  <2> QED
    BY <2>1, <2>2, <2>3 DEF Without, ListInv
<1>2. CASE ~Queued(t)
  BY <1>2 DEF DoInvalidate, Queued, ListInv, TypeInv
<1> QED
  BY <1>1, <1>2

LEMMA InvalidateKeepsList ==
    ASSUME ListInv, NEW t \in Timers, DoInvalidate(t), worker' \in Seq(Job)
    PROVE  ListInv'
<1>1. /\ age' = [age EXCEPT ![t] = 0] /\ UNCHANGED <<ticks, sleeps, posted>>
      /\ age \in [Timers -> Nat]
  BY DEF DoInvalidate, ListInv, TypeInv
<1>2. /\ queue' \in Seq(Entry) /\ Once(queue')
      /\ \A k \in DOMAIN queue' : \E j \in DOMAIN queue :
            queue'[k] = queue[j] /\ queue[j].timer # t
      /\ \A j \in DOMAIN queue : queue[j].timer # t =>
            \E k \in DOMAIN queue' : queue'[k] = queue[j]
  BY InvalidateRemoves
<1>3. TypeInv'
  BY <1>1, <1>2 DEF ListInv, TypeInv
<1>4. ASSUME NEW k \in DOMAIN queue'
      PROVE  age'[queue'[k].timer] + queue'[k].at = Timeout[queue'[k].timer] + ticks'
  <2>1. PICK j \in DOMAIN queue : queue'[k] = queue[j] /\ queue[j].timer # t
    BY <1>2
  <2>2. queue[j].timer \in Timers
    BY Entries DEF ListInv, TypeInv
  <2>3. age'[queue[j].timer] = age[queue[j].timer]
    BY <1>1, <2>1, <2>2
  <2> QED
    BY <1>1, <2>1, <2>3 DEF ListInv, AgeInv
<1>5. ASSUME NEW u \in Timers, ~Queued(u)'
      PROVE  age'[u] = 0
  <2>1. CASE u = t
    BY <2>1, <1>1
  <2>2. CASE u # t
    <3>1. ~Queued(u)
      BY <2>2, <1>2, <1>5 DEF Queued
    <3> QED
      BY <3>1, <2>2, <1>1 DEF ListInv, AgeInv
  <2> QED
    BY <2>1, <2>2
<1> QED
  BY <1>2, <1>3, <1>4, <1>5 DEF ListInv, AgeInv

\* A tick brings each timer that it leaves on the list one tick nearer.
LEMMA TickKeepsList ==
    ASSUME ListInv, DoTick, worker' \in Seq(Job)
    PROVE  ListInv'
<1> USE DEF ListInv
<1>1. CASE queue = <<>>
  <2>1. ticks' = 0 /\ UNCHANGED <<queue, sleeps, posted, age>> /\ DOMAIN queue = {}
    BY <1>1 DEF DoTick
  <2>2. TypeInv'
    BY <2>1 DEF TypeInv
  <2> QED
    BY <2>1, <2>2 DEF AgeInv, Queued, Once
<1>2. CASE queue # <<>>
  <2>1. /\ ticks' = ticks + 1 /\ sleeps' = sleeps + 1 /\ age' = Aged
        /\ queue' = IF Due THEN Tail(queue) ELSE queue
        /\ posted' = IF Due THEN [posted EXCEPT ![Head(queue).timer] = @ + 1] ELSE posted
    BY <1>2 DEF DoTick
  <2>2. /\ Head(queue) = queue[1] /\ 1 \in DOMAIN queue
        /\ \A j \in DOMAIN queue : queue[j].timer \in Timers /\ queue[j].at \in Nat
    BY <1>2, Entries DEF TypeInv
  <2>3. /\ queue' \in Seq(Entry) /\ Once(queue')
        /\ \A k \in DOMAIN queue' : \E j \in DOMAIN queue :
              queue'[k] = queue[j] /\ ~(Due /\ Head(queue).timer = queue[j].timer)
        /\ \A j \in DOMAIN queue : ~(Due /\ Head(queue).timer = queue[j].timer) =>
              \E k \in DOMAIN queue' : queue'[k] = queue[j]
    <3>1. CASE Due
      <4>1. Without(queue, queue', 1)
        BY <1>2, <2>1, <3>1, TailProperties DEF TypeInv
      <4>2. \A j \in DOMAIN queue \ {1} : queue[j].timer # Head(queue).timer
        BY <2>2 DEF Once
      <4> QED
        BY <3>1, <4>1, <4>2, <2>2 DEF Without
    <3>2. CASE ~Due
      BY <3>2, <2>1 DEF TypeInv
    <3> QED
      BY <3>1, <3>2
  <2>4. posted' \in [Timers -> Nat]
    BY <2>1, <2>2 DEF TypeInv
  <2>5. age' \in [Timers -> Nat]
    BY <2>1 DEF Aged, TypeInv
  <2>6. TypeInv'
    BY <2>1, <2>3, <2>4, <2>5 DEF TypeInv
  <2>7. ASSUME NEW k \in DOMAIN queue'
        PROVE  age'[queue'[k].timer] + queue'[k].at = Timeout[queue'[k].timer] + ticks'
    <3>1. PICK j \in DOMAIN queue :
             queue'[k] = queue[j] /\ ~(Due /\ Head(queue).timer = queue[j].timer)
      BY <2>3
    <3>2. queue[j].timer \in Timers /\ Queued(queue[j].timer)
      BY <2>2 DEF Queued
    <3>3. age'[queue[j].timer] = age[queue[j].timer] + 1
      BY <2>1, <3>1, <3>2 DEF Aged
    <3>4. age[queue[j].timer] + queue[j].at = Timeout[queue[j].timer] + ticks
      BY DEF AgeInv
    <3>5. /\ age[queue[j].timer] \in Nat /\ queue[j].at \in Nat
          /\ Timeout[queue[j].timer] \in Nat /\ ticks \in Nat
      BY <2>2, <3>2, RunloopAssumption DEF TypeInv
    <3>6. ticks' = ticks + 1
      BY <2>1
    <3> DEFINE waited == age[queue[j].timer]
               due == queue[j].at
               timeout == Timeout[queue[j].timer]
    <3>7. waited + due = timeout + ticks /\ waited \in Nat /\ due \in Nat /\ timeout \in Nat
      BY <3>4, <3>5
    <3> HIDE DEF waited, due, timeout
    <3>8. (waited + 1) + due = timeout + (ticks + 1)
      BY <3>5, <3>7
    <3>9. age'[queue[j].timer] + queue[j].at = Timeout[queue[j].timer] + ticks'
      BY <3>3, <3>6, <3>8 DEF waited, due, timeout
    <3> QED
      BY <3>1, <3>9
  <2>8. ASSUME NEW u \in Timers, ~Queued(u)'
        PROVE  age'[u] = 0
    <3>1. ~(Queued(u) /\ ~(Due /\ Head(queue).timer = u))
      BY <2>3, <2>8 DEF Queued
    <3> QED
      BY <3>1, <2>1 DEF Aged
  <2> QED
    BY <2>3, <2>6, <2>7, <2>8 DEF AgeInv
<1> QED
  BY <1>1, <1>2
-----------------------------------------------------------------------------
(* The types, and the list of timers, of every reachable state.            *)

\* The first job of the worker is taken and carried out.
LEMMA WorkCases ==
    ASSUME ListInv, Work
    PROVE  /\ worker \in Seq(Job) /\ worker # <<>> /\ worker' = Tail(worker)
           /\ worker' \in Seq(Job) /\ UNCHANGED <<started, ended, restarts>>
           /\ \/ worker[1] = Tick /\ DoTick
              \/ \E t \in Timers : worker[1] = Schedule(t) /\ DoSchedule(t)
              \/ \E t \in Timers : worker[1] = Invalidate(t) /\ DoInvalidate(t)
<1>1. worker \in Seq(Job)
  BY DEF ListInv, TypeInv
<1> QED
  BY <1>1, TailJobs DEF Work

LEMMA ListInvStep ==
    ASSUME ListInv, [Next]_vars
    PROVE  ListInv'
<1> USE DEF ListInv
<1>1. ASSUME UNCHANGED <<queue, ticks, age>>, TypeInv'
      PROVE  ListInv'
  BY <1>1 DEF AgeInv, Queued, Once
<1>2. CASE Sleep
  <2>1. sleeps \in Nat /\ sleeps > 0 /\ sleeps' = sleeps - 1 /\ sleeps' \in Nat
    BY <1>2 DEF Sleep, TypeInv
  <2>2. worker' = Append(worker, Tick) /\ worker' \in Seq(Job)
    BY <1>2 DEF Sleep, TypeInv, Job
  <2> QED
    BY <1>1, <1>2, <2>1, <2>2 DEF Sleep, TypeInv
<1>3. CASE Work
  <2>1. worker' \in Seq(Job)
    BY <1>3, WorkCases
  <2>2. CASE DoTick
    BY <2>1, <2>2, TickKeepsList
  <2>3. CASE \E t \in Timers : DoSchedule(t)
    BY <2>1, <2>3, ScheduleKeepsList
  <2>4. CASE \E t \in Timers : DoInvalidate(t)
    BY <2>1, <2>4, InvalidateKeepsList
  <2> QED
    BY <1>3, <2>2, <2>3, <2>4, WorkCases
<1>4. ASSUME NEW t \in Timers, Start(t)
      PROVE  ListInv'
  <2>1. worker' = Append(worker, Schedule(t)) /\ worker' \in Seq(Job)
    BY <1>4, Jobs DEF Start, TypeInv
  <2> QED
    BY <1>1, <1>4, <2>1 DEF Start, TypeInv
<1>5. ASSUME NEW t \in Timers, End(t)
      PROVE  ListInv'
  <2>1. worker' = Append(worker, Invalidate(t)) /\ worker' \in Seq(Job)
    BY <1>5, Jobs DEF End, TypeInv
  <2> QED
    BY <1>1, <1>5, <2>1 DEF End, TypeInv
<1>6. ASSUME NEW t \in Timers, Fire(t)
      PROVE  ListInv'
  <2>1. worker' \in Seq(Job)
    <3>1. worker' = Append(worker, Schedule(t)) \/ worker' = worker
      BY <1>6 DEF Fire
    <3>2. Schedule(t) \in Job /\ worker \in Seq(Job)
      BY Jobs DEF TypeInv
    <3> QED
      BY <3>1, <3>2, AppendJob
  <2>2. posted[t] \in Nat /\ posted[t] > 0 /\ posted' = [posted EXCEPT ![t] = @ - 1]
    BY <1>6 DEF Fire, TypeInv
  <2>3. posted' \in [Timers -> Nat]
    BY <2>2 DEF TypeInv
  <2> QED
    BY <1>1, <1>6, <2>1, <2>3 DEF Fire, TypeInv
<1>7. CASE UNCHANGED vars
  BY <1>1, <1>7 DEF vars, TypeInv
<1> QED
  BY <1>2, <1>3, <1>4, <1>5, <1>6, <1>7 DEF Next

\* Every field of the loop keeps to its type, no timer is twice on the list, and
\* what a timer has waited and has yet to wait make up its timeout.
THEOREM TimersOnList == Spec => []ListInv
<1>1. Init => ListInv
  BY ListInvInit
<1>2. ListInv /\ [Next]_vars => ListInv'
  BY ListInvStep
<1> QED
  BY <1>1, <1>2, PTL DEF Spec

\* A timer is never due before its timeout, however often Runloop::run finds the
\* list empty and begins to count its ticks again.
THEOREM TimersAreNeverEarly == Spec => NeverEarly
<1>1. ASSUME ListInv, [Next]_vars
      PROVE  [\A t \in Timers : posted'[t] > posted[t] => age[t] + 1 >= Timeout[t]]_vars
  <2> SUFFICES ASSUME NEW t \in Timers, Next, posted'[t] > posted[t]
               PROVE  age[t] + 1 >= Timeout[t]
    BY <1>1
  <2>1. posted \in [Timers -> Nat] /\ posted[t] \in Nat
    BY <1>1 DEF ListInv, TypeInv
  <2>2. DoTick
    <3>1. ASSUME NEW u \in Timers, Fire(u) PROVE FALSE
      BY <2>1, <3>1 DEF Fire
    <3>2. posted' # posted
      BY <2>1
    <3> QED
      BY <1>1, <3>1, <3>2, WorkCases
      DEF Next, Sleep, Start, End, DoSchedule, DoInvalidate
  <2>3. /\ queue # <<>> /\ Due
        /\ posted' = [posted EXCEPT ![Head(queue).timer] = @ + 1]
    BY <2>1, <2>2 DEF DoTick
  <2>4. t = Head(queue).timer
    BY <2>1, <2>3
  <2>5. 1 \in DOMAIN queue /\ Head(queue) = queue[1] /\ queue[1].at \in Nat
    BY <1>1, <2>3, Entries DEF ListInv, TypeInv
  <2>6. age[t] + queue[1].at = Timeout[t] + ticks /\ queue[1].at <= ticks + 1
    BY <1>1, <2>3, <2>4, <2>5 DEF ListInv, AgeInv, Due
  <2>7. age[t] \in Nat /\ Timeout[t] \in Nat /\ ticks \in Nat
    BY <1>1, RunloopAssumption DEF ListInv, TypeInv
  <2> QED
    BY <2>5, <2>6, <2>7
<1> QED
  BY <1>1, TimersOnList, PTL DEF Spec, NeverEarly

-----------------------------------------------------------------------------
(* Timers that are overdue.                                                *)

\* The list holds no more timers than there are.
LEMMA ListBound ==
    ASSUME NEW s \in Seq(Entry), Once(s)
    PROVE  Len(s) \in Nat /\ Cardinality(Timers) \in Nat /\ Len(s) <= Cardinality(Timers)
<1> DEFINE f == [i \in 1..Len(s) |-> s[i].timer]
<1>1. Len(s) \in Nat /\ DOMAIN s = 1..Len(s)
  OBVIOUS
<1>2. \A i \in 1..Len(s) : s[i].timer \in Timers
  BY <1>1, Entries
<1>3. f \in Injection(1..Len(s), Timers)
  BY <1>1, <1>2 DEF Once, Injection, IsInjective
<1>4. Cardinality(1..Len(s)) <= Cardinality(Timers)
  BY <1>3, FS_Injection, RunloopAssumption
<1>5. Cardinality(1..Len(s)) = Len(s)
  BY <1>1, FS_Interval
<1>6. Cardinality(Timers) \in Nat
  BY RunloopAssumption, FS_CardinalityType
<1> QED
  BY <1>1, <1>4, <1>5, <1>6

\* std::lower_bound finds the place on a sorted list where the earlier targets end.
LEMMA LowerBoundSplits ==
    ASSUME queue \in Seq(Entry), Sorted(queue), NEW at \in Nat, NEW j \in DOMAIN queue
    PROVE  j < LowerBound(at) <=> queue[j].at < at
<1> DEFINE S == {k \in DOMAIN queue : queue[k].at < at}
<1>1. DOMAIN queue = 1..Len(queue) /\ Len(queue) \in Nat /\ j \in 1..Len(queue)
  OBVIOUS
<1>2. IsFiniteSet(1..Len(queue)) /\ S \subseteq 1..Len(queue)
  BY <1>1, FS_Interval
<1>3. IsFiniteSet(S) /\ Cardinality(S) \in Nat
  BY <1>2, FS_Subset, FS_CardinalityType
<1>4. \A k \in DOMAIN queue : queue[k].at \in Nat
  BY Entries
<1>5. ASSUME queue[j].at < at
      PROVE  j <= Cardinality(S)
  <2>1. \A k \in 1..j : k \in DOMAIN queue /\ queue[k].at <= queue[j].at
    BY <1>1 DEF Sorted
  <2>2. 1..j \subseteq S
    BY <1>4, <1>5, <2>1
  <2>3. Cardinality(1..j) <= Cardinality(S)
    BY <1>3, <2>2, FS_Subset
  <2>4. Cardinality(1..j) = j
    BY <1>1, FS_Interval
  <2> QED
    BY <2>3, <2>4
<1>6. ASSUME ~(queue[j].at < at)
      PROVE  Cardinality(S) <= j - 1
  <2>1. \A k \in DOMAIN queue : j <= k => queue[j].at <= queue[k].at
    BY DEF Sorted
  <2>2. S \subseteq 1..(j - 1)
    <3> SUFFICES ASSUME NEW k \in DOMAIN queue, queue[k].at < at
                 PROVE  k \in 1..(j - 1)
      OBVIOUS
    <3>1. ~(j <= k)
      BY <1>4, <1>6, <2>1
    <3> QED
      BY <1>1, <3>1
  <2>3. IsFiniteSet(1..(j - 1)) /\ Cardinality(1..(j - 1)) = j - 1
    <3>1. 1 \in Int /\ j - 1 \in Int /\ (j - 1) - 1 + 1 = j - 1 /\ (1 > j - 1 => j - 1 = 0)
      BY <1>1
    <3> QED
      BY <3>1, FS_Interval
  <2>4. Cardinality(S) <= Cardinality(1..(j - 1))
    BY <2>2, <2>3, FS_Subset
  <2> QED
    BY <2>3, <2>4
<1>7. LowerBound(at) = 1 + Cardinality(S)
  BY DEF LowerBound
<1> HIDE DEF S
<1> QED
  BY <1>1, <1>3, <1>5, <1>6, <1>7

\* A new timer goes where the list stays sorted, and is not overdue; no timer
\* behind it is.
LEMMA ScheduleKeepsLate ==
    ASSUME ListInv, ListInv', LateInv, NEW t \in Timers, DoSchedule(t)
    PROVE  LateInv'
<1>1. CASE Queued(t)
  BY <1>1 DEF DoSchedule, LateInv, Sorted
<1>2. CASE ~Queued(t)
  <2> DEFINE e == [timer |-> t, at |-> TargetTicks(t)]
             i == LowerBound(e.at)
  <2>1. queue' = InsertAt(queue, i, e) /\ ticks' = ticks
    BY <1>2 DEF DoSchedule, Inserted
  <2>2. /\ e \in Entry /\ e.at \in Nat /\ queue \in Seq(Entry) /\ ticks \in Nat
        /\ e.at >= ticks
    BY RunloopAssumption DEF ListInv, TypeInv, Entry, TargetTicks
  <2>3. i \in 1..(Len(queue) + 1)
    BY <2>2, LowerBoundType
  <2>4. \A j \in DOMAIN queue : j < i <=> queue[j].at < e.at
    BY <2>2, LowerBoundSplits DEF LateInv
  <2> HIDE DEF e, i
  <2>5. /\ Len(queue) \in Nat /\ DOMAIN queue = 1..Len(queue)
        /\ DOMAIN queue' = 1..(Len(queue) + 1) /\ Len(queue') = Len(queue) + 1
        /\ queue'[i] = e
        /\ \A k \in 1..(Len(queue) + 1) : k < i => queue'[k] = queue[k]
        /\ \A k \in 1..(Len(queue) + 1) : k > i => queue'[k] = queue[k - 1]
    <3>1. PutAt(queue, i, e, queue')
      BY <2>1, <2>2, <2>3, InsertPlaces
    <3> QED
      BY <3>1 DEF PutAt
  <2>6. /\ \A k \in 1..(Len(queue) + 1) : k < i =>
              k \in DOMAIN queue /\ queue'[k] = queue[k] /\ queue[k].at < e.at
        /\ \A k \in 1..(Len(queue) + 1) : k > i =>
              k - 1 \in DOMAIN queue /\ queue'[k] = queue[k - 1] /\ queue[k - 1].at >= e.at
    <3>1. \A j \in DOMAIN queue : queue[j].at \in Nat
      BY <2>2, Entries
    <3>2. ASSUME NEW k \in 1..(Len(queue) + 1), k < i
          PROVE  k \in DOMAIN queue /\ queue'[k] = queue[k] /\ queue[k].at < e.at
      <4>1. k \in DOMAIN queue
        BY <2>3, <2>5, <3>2
      <4> QED
        BY <2>4, <2>5, <3>2, <4>1
    <3>3. ASSUME NEW k \in 1..(Len(queue) + 1), k > i
          PROVE  k - 1 \in DOMAIN queue /\ queue'[k] = queue[k - 1] /\ queue[k - 1].at >= e.at
      <4>1. k - 1 \in DOMAIN queue /\ ~(k - 1 < i)
        BY <2>3, <2>5, <3>3
      <4>2. ~(queue[k - 1].at < e.at)
        BY <2>4, <4>1
      <4> QED
        BY <2>2, <2>5, <3>1, <3>3, <4>1, <4>2
    <3> QED
      BY <3>2, <3>3
  <2>7. \A j \in DOMAIN queue : queue[j].at \in Nat
    BY <2>2, Entries
  <2>8. Sorted(queue')
    <3> SUFFICES ASSUME NEW k \in 1..(Len(queue) + 1), NEW l \in 1..(Len(queue) + 1), k < l
                 PROVE  queue'[k].at <= queue'[l].at
      <4>1. \A k \in DOMAIN queue' : queue'[k].at \in Nat
        BY Entries DEF ListInv, TypeInv
      <4> QED
        BY <2>5, <4>1 DEF Sorted
    <3>1. CASE l < i
      <4>1. k < i
        BY <3>1, <2>3
      <4> QED
        BY <2>6, <3>1, <4>1 DEF LateInv, Sorted
    <3>2. CASE l = i
      BY <2>2, <2>5, <2>6, <2>7, <3>2
    <3>3. CASE l > i /\ k > i
      <4>1. k - 1 <= l - 1
        OBVIOUS
      <4> QED
        BY <2>6, <3>3, <4>1 DEF LateInv, Sorted
    <3>4. CASE l > i /\ k = i
      BY <2>2, <2>5, <2>6, <2>7, <3>4
    <3>5. CASE l > i /\ k < i
      BY <2>2, <2>6, <2>7, <3>5
    <3> QED
      BY <2>3, <3>1, <3>2, <3>3, <3>4, <3>5
  <2>9. Len(queue) + 1 <= Cardinality(Timers) /\ Cardinality(Timers) \in Nat
    BY <2>5, ListBound DEF ListInv, TypeInv
  <2>10. ASSUME NEW k \in 1..(Len(queue) + 1), ticks >= queue'[k].at
         PROVE  k + (ticks - queue'[k].at) <= Cardinality(Timers)
    <3>1. CASE k < i
      BY <2>6, <2>10, <3>1 DEF LateInv
    <3>2. CASE k >= i
      <4>1. queue'[k].at \in Nat /\ queue'[k].at >= e.at
        <5>1. CASE k = i
          BY <2>2, <2>5, <5>1
        <5>2. CASE k > i
          <6>1. k - 1 \in DOMAIN queue /\ queue'[k] = queue[k - 1] /\ queue[k - 1].at >= e.at
            BY <2>6, <5>2
          <6> QED
            BY <2>7, <6>1
        <5> QED
          BY <2>3, <3>2, <5>1, <5>2
      <4>2. ticks = queue'[k].at
        BY <2>2, <2>10, <4>1
      <4> QED
        BY <2>2, <2>9, <4>2
    <3> QED
      BY <2>3, <3>1, <3>2
  <2> QED
    BY <2>1, <2>5, <2>8, <2>10 DEF LateInv
<1> QED
  BY <1>1, <1>2

\* A list that loses an entry stays sorted, and no other moves back.
LEMMA InvalidateKeepsLate ==
    ASSUME ListInv, LateInv, NEW t \in Timers, DoInvalidate(t)
    PROVE  LateInv'
<1>1. CASE ~Queued(t)
  BY <1>1 DEF DoInvalidate, LateInv, Sorted
<1>2. CASE Queued(t)
  <2>1. PICK i \in DOMAIN queue : queue' = RemoveAt(queue, i) /\ ticks' = ticks
    BY <1>2 DEF DoInvalidate
  <2>2. /\ Len(queue) \in Nat /\ DOMAIN queue = 1..Len(queue) /\ i \in 1..Len(queue)
        /\ DOMAIN queue' = 1..(Len(queue) - 1)
        /\ \A k \in 1..(Len(queue) - 1) : k < i => queue'[k] = queue[k]
        /\ \A k \in 1..(Len(queue) - 1) : k >= i => queue'[k] = queue[k + 1]
    BY <2>1, RemovePlaces DEF ListInv, TypeInv
  <2> DEFINE From(k) == IF k < i THEN k ELSE k + 1
  <2>3. /\ \A k \in DOMAIN queue' :
              From(k) \in DOMAIN queue /\ queue'[k] = queue[From(k)] /\ k <= From(k)
        /\ \A k, l \in DOMAIN queue' : k <= l => From(k) <= From(l)
    BY <2>2
  <2>4. \A k \in DOMAIN queue' : From(k) \in Nat /\ k \in Nat
    BY <2>2
  <2> HIDE DEF From
  <2>5. Sorted(queue')
    BY <2>3 DEF LateInv, Sorted
  <2>6. ticks \in Nat /\ \A k \in DOMAIN queue : queue[k].at \in Nat
    BY Entries DEF ListInv, TypeInv
  <2>7. Cardinality(Timers) \in Nat
    BY RunloopAssumption, FS_CardinalityType
  <2>8. ASSUME NEW k \in DOMAIN queue', ticks >= queue'[k].at
        PROVE  k + (ticks - queue'[k].at) <= Cardinality(Timers)
    <3>1. From(k) + (ticks - queue'[k].at) <= Cardinality(Timers)
      BY <2>3, <2>8 DEF LateInv
    <3>2. queue'[k].at \in Nat /\ k <= From(k)
      BY <2>3, <2>6
    <3> QED
      BY <2>4, <2>6, <2>7, <3>1, <3>2
  <2> QED
    BY <2>1, <2>5, <2>8 DEF LateInv
<1> QED
  BY <1>1, <1>2

\* A tick takes the first timer if that is due, so that the others move forward
\* as they grow older; if it is not due, none is.
LEMMA TickKeepsLate ==
    ASSUME ListInv, LateInv, DoTick
    PROVE  LateInv'
<1>0. /\ queue \in Seq(Entry) /\ ticks \in Nat
      /\ \A k \in DOMAIN queue : queue[k].at \in Nat
      /\ Len(queue) \in Nat /\ Cardinality(Timers) \in Nat /\ Len(queue) <= Cardinality(Timers)
      /\ DOMAIN queue = 1..Len(queue)
  BY Entries, ListBound DEF ListInv, TypeInv
<1>1. CASE queue = <<>>
  BY <1>1 DEF DoTick, LateInv, Sorted
<1>2. CASE queue # <<>>
  <2>1. /\ ticks' = ticks + 1 /\ Head(queue) = queue[1] /\ 1 \in DOMAIN queue
        /\ queue' = IF queue[1].at <= ticks + 1 THEN Tail(queue) ELSE queue
    BY <1>0, <1>2, Entries DEF DoTick, Due
  <2>2. CASE queue[1].at <= ticks + 1
    <3>1. /\ DOMAIN queue' = 1..(Len(queue) - 1)
          /\ \A k \in 1..(Len(queue) - 1) : queue'[k] = queue[k + 1] /\ k + 1 \in DOMAIN queue
      BY <1>0, <1>2, <2>1, <2>2, HeadTailProperties
    <3>2. Sorted(queue')
      <4> SUFFICES ASSUME NEW k \in 1..(Len(queue) - 1), NEW l \in 1..(Len(queue) - 1), k <= l
                   PROVE  queue[k + 1].at <= queue[l + 1].at
        BY <3>1 DEF Sorted
      <4>1. k + 1 <= l + 1
        OBVIOUS
      <4> QED
        BY <3>1, <4>1 DEF LateInv, Sorted
    <3>3. ASSUME NEW k \in DOMAIN queue', ticks' >= queue'[k].at
          PROVE  k + (ticks' - queue'[k].at) <= Cardinality(Timers)
      <4>1. /\ ticks' = ticks + 1 /\ k \in 1..(Len(queue) - 1)
            /\ queue'[k] = queue[k + 1] /\ k + 1 \in DOMAIN queue /\ queue'[k].at \in Nat
        BY <1>0, <2>1, <3>1
      <4>2. CASE ticks >= queue'[k].at
        <5>1. (k + 1) + (ticks - queue'[k].at) <= Cardinality(Timers)
          BY <4>1, <4>2 DEF LateInv
        <5> QED
          BY <1>0, <4>1, <5>1
      <4>3. CASE ~(ticks >= queue'[k].at)
        BY <1>0, <3>3, <4>1, <4>3
      <4> QED
        BY <4>2, <4>3
    <3> QED
      BY <3>2, <3>3 DEF LateInv
  <2>3. CASE ~(queue[1].at <= ticks + 1)
    <3>1. queue' = queue
      BY <2>1, <2>3
    <3>2. \A k \in DOMAIN queue : queue[1].at <= queue[k].at
      BY <1>0, <2>1 DEF LateInv, Sorted
    <3>3. \A k \in DOMAIN queue : ~(ticks' >= queue[k].at)
      BY <1>0, <2>1, <2>3, <3>2
    <3>4. Sorted(queue')
      BY <3>1 DEF LateInv
    <3> QED
      BY <3>1, <3>3, <3>4 DEF LateInv
  <2> QED
    BY <2>2, <2>3
<1> QED
  BY <1>1, <1>2

\* A timer on the list has waited for its timeout and, at the most, for one tick
\* for each of the others: Runloop::run fires one timer a tick.
THEOREM TimersAreNeverLate == Spec => []NeverLate
<1>1. Init => LateInv
  BY DEF Init, LateInv, Sorted
<1>2. ASSUME ListInv, ListInv', LateInv, [Next]_vars
      PROVE  LateInv'
  <2>1. ASSUME UNCHANGED <<queue, ticks>> PROVE LateInv'
    BY <1>2, <2>1 DEF LateInv, Sorted
  <2>2. CASE Work
    BY <1>2, <2>2, WorkCases, TickKeepsLate, ScheduleKeepsLate, InvalidateKeepsLate
  <2>3. CASE ~Work
    BY <1>2, <2>1, <2>3 DEF Next, Sleep, Start, End, Fire, vars
  <2> QED
    BY <2>2, <2>3
<1>3. ASSUME ListInv, LateInv
      PROVE  NeverLate
  <2> SUFFICES ASSUME NEW t \in Timers, NEW i \in DOMAIN queue, queue[i].timer = t
               PROVE  age[t] < Timeout[t] + Cardinality(Timers)
    BY DEF NeverLate, Queued
  <2>1. age[t] + queue[i].at = Timeout[t] + ticks
    BY <1>3 DEF ListInv, AgeInv
  <2>2. /\ age[t] \in Nat /\ Timeout[t] \in Nat /\ ticks \in Nat /\ queue[i].at \in Nat
        /\ queue \in Seq(Entry)
    BY <1>3, Entries, RunloopAssumption DEF ListInv, TypeInv
  <2>3. i \in 1..Len(queue) /\ Len(queue) \in Nat /\ Len(queue) <= Cardinality(Timers)
        /\ Cardinality(Timers) \in Nat
    BY <1>3, <2>2, ListBound DEF ListInv
  <2>4. CASE ticks >= queue[i].at
    <3>1. i + (ticks - queue[i].at) <= Cardinality(Timers)
      BY <1>3, <2>4 DEF LateInv
    <3> QED
      BY SMTT(30), <2>1, <2>2, <2>3, <3>1
  <2>5. CASE ~(ticks >= queue[i].at)
    BY <2>1, <2>2, <2>3, <2>5
  <2> QED
    BY <2>4, <2>5
<1> QED
  BY <1>1, <1>2, <1>3, TimersOnList, PTL DEF Spec

-----------------------------------------------------------------------------
(* Chains of sleeps and ticks.                                             *)

\* While a timer waits a sleep is asked for or a tick is on its way: the chain
\* that Runloop::run may end on an empty list is begun again by schedule.
THEOREM AChainIsAlive == Spec => []ChainAlive
<1>1. Init => ChainAlive
  BY DEF Init, ChainAlive
<1>2. ASSUME ListInv, ChainAlive, [Next]_vars
      PROVE  ChainAlive'
  <2>1. worker \in Seq(Job) /\ sleeps \in Nat
    BY <1>2 DEF ListInv, TypeInv
  <2>2. ASSUME NEW j \in Job, worker' = Append(worker, j),
               UNCHANGED <<queue, sleeps>>
        PROVE  ChainAlive'
    <3>1. \A i \in DOMAIN worker : i \in DOMAIN worker' /\ worker'[i] = worker[i]
      BY <2>1, <2>2, AppendJob
    <3> QED
      BY <1>2, <2>2, <3>1 DEF ChainAlive
  <2>3. CASE Sleep
    <3>1. worker' = Append(worker, Tick) /\ Tick \in Job
      BY <2>3 DEF Sleep, Job
    <3>2. Len(worker) + 1 \in DOMAIN worker' /\ worker'[Len(worker) + 1] = Tick
      BY <2>1, <3>1, AppendJob
    <3> QED
      BY <3>2 DEF ChainAlive
  <2>4. ASSUME NEW t \in Timers, Start(t)
        PROVE  ChainAlive'
    BY <2>2, <2>4, Jobs DEF Start
  <2>5. ASSUME NEW t \in Timers, End(t)
        PROVE  ChainAlive'
    BY <2>2, <2>5, Jobs DEF End
  <2>6. ASSUME NEW t \in Timers, Fire(t)
        PROVE  ChainAlive'
    <3>1. CASE t \in Repeating
      BY <2>2, <2>6, <3>1, Jobs DEF Fire
    <3>2. CASE t \notin Repeating
      BY <1>2, <2>6, <3>2 DEF Fire, ChainAlive
    <3> QED
      BY <3>1, <3>2
  <2>7. CASE Work
    <3>1. /\ worker # <<>> /\ worker' = Tail(worker)
          /\ \/ worker[1] = Tick /\ DoTick
             \/ \E t \in Timers : worker[1] = Schedule(t) /\ DoSchedule(t)
             \/ \E t \in Timers : worker[1] = Invalidate(t) /\ DoInvalidate(t)
      BY <1>2, <2>7, WorkCases
    <3>2. ASSUME worker[1] # Tick, sleeps' = sleeps, queue # <<>>
          PROVE  ChainAlive'
      <4>1. CASE sleeps > 0
        BY <3>2, <4>1 DEF ChainAlive
      <4>2. CASE ~(sleeps > 0)
        <5>1. PICK i \in DOMAIN worker : worker[i] = Tick
          BY <1>2, <3>2, <4>2 DEF ChainAlive
        <5>2. /\ i \in 2..Len(worker) /\ DOMAIN Tail(worker) = 1..(Len(worker) - 1)
              /\ \A k \in 1..(Len(worker) - 1) : Tail(worker)[k] = worker[k + 1]
          BY <2>1, <3>1, <3>2, <5>1, TailJobs
        <5>3. i - 1 \in DOMAIN Tail(worker) /\ Tail(worker)[i - 1] = Tick
          BY <5>1, <5>2
        <5> QED
          BY <3>1, <5>3 DEF ChainAlive
      <4> QED
        BY <4>1, <4>2
    <3>3. CASE worker[1] = Tick /\ DoTick
      BY <2>1, <3>3 DEF DoTick, ChainAlive
    <3>4. ASSUME NEW t \in Timers, worker[1] = Schedule(t), DoSchedule(t)
          PROVE  ChainAlive'
      <4>1. CASE Queued(t)
        <5>1. queue # <<>>
          BY <4>1 DEF Queued
        <5>2. sleeps' = sleeps
          BY <3>4, <4>1 DEF DoSchedule
        <5> QED
          BY <2>1, <3>2, <3>4, <5>1, <5>2, Jobs
      <4>2. CASE ~Queued(t)
        BY <2>1, <3>4, <4>2 DEF DoSchedule, ChainAlive
      <4> QED
        BY <4>1, <4>2
    <3>5. ASSUME NEW t \in Timers, worker[1] = Invalidate(t), DoInvalidate(t)
          PROVE  ChainAlive'
      <4>1. sleeps' = sleeps
        BY <3>5 DEF DoInvalidate
      <4>2. CASE queue # <<>>
        BY <2>1, <3>2, <3>5, <4>1, <4>2, Jobs
      <4>3. CASE queue = <<>>
        <5>1. queue' = <<>>
          BY <3>5, <4>3 DEF DoInvalidate, Queued
        <5> QED
          BY <5>1 DEF ChainAlive
      <4> QED
        BY <4>2, <4>3
    <3> QED
      BY <3>1, <3>3, <3>4, <3>5
  <2>8. CASE UNCHANGED vars
    BY <1>2, <2>8 DEF vars, ChainAlive
  <2> QED
    BY <1>2, <2>3, <2>4, <2>5, <2>6, <2>7, <2>8 DEF Next
<1> QED
  BY <1>1, <1>2, TimersOnList, PTL DEF Spec
-----------------------------------------------------------------------------
(* Timers that have been invalidated.                                      *)

\* A job added to the worker's queue disturbs nothing, unless it invalidates a
\* timer not ended, or schedules one that is ended and does not repeat.
LEMMA AppendKeepsSilent ==
    ASSUME ListInv, SilentInv, NEW j \in Job, worker' = Append(worker, j),
           UNCHANGED <<queue, silenced>>, ended \subseteq ended', ended' \subseteq started',
           \A t \in Timers : j = Invalidate(t) => t \in ended',
           \A t \in ended \ Repeating : j # Schedule(t)
    PROVE  SilentInv'
<1> DEFINE n == Len(worker) + 1
<1>1. /\ DOMAIN worker = 1..Len(worker) /\ Len(worker) \in Nat
      /\ DOMAIN worker' = DOMAIN worker \cup {n} /\ worker'[n] = j
      /\ \A k \in DOMAIN worker : worker'[k] = worker[k] /\ k < n
  <2>1. worker \in Seq(Job)
    BY DEF ListInv, TypeInv
  <2>2. /\ DOMAIN worker = 1..Len(worker) /\ Len(worker) \in Nat
        /\ DOMAIN worker' = 1..(Len(worker) + 1) /\ worker'[Len(worker) + 1] = j
        /\ \A k \in DOMAIN worker : worker'[k] = worker[k]
    BY <2>1, AppendJob
  <2> QED
    BY <2>2
<1> HIDE DEF n
<1>2. \A t \in Timers, i \in DOMAIN worker' : worker'[i] = Invalidate(t) => t \in ended'
  BY <1>1 DEF SilentInv
<1>3. ASSUME NEW t \in Timers \ Repeating, NEW i \in DOMAIN worker', NEW k \in DOMAIN worker',
             i < k, worker'[i] = Invalidate(t)
      PROVE  worker'[k] # Schedule(t)
  <2>1. i \in DOMAIN worker
    BY <1>1, <1>3
  <2>2. worker[i] = Invalidate(t) /\ t \in ended
    BY <1>1, <1>3, <2>1 DEF SilentInv
  <2>3. CASE k \in DOMAIN worker
    BY <1>1, <1>3, <2>1, <2>2, <2>3 DEF SilentInv
  <2>4. CASE k = n
    BY <1>1, <2>2, <2>4
  <2> QED
    BY <1>1, <2>3, <2>4
<1>4. ASSUME NEW t \in silenced' \ Repeating
      PROVE  ~Queued(t)' /\ \A i \in DOMAIN worker' : worker'[i] # Schedule(t)
  <2>1. t \in silenced \ Repeating /\ t \in ended
    BY <1>4 DEF SilentInv
  <2> QED
    BY <1>1, <2>1 DEF SilentInv, Queued
<1>5. silenced' \subseteq ended' /\ ended' \subseteq started'
  BY DEF SilentInv
<1> QED
  BY <1>2, <1>3, <1>4, <1>5 DEF SilentInv

\* The worker takes a job: it puts a timer on the list only if that was its job,
\* and a timer it silences leaves the list and has no other job.
LEMMA WorkKeepsSilent ==
    ASSUME ListInv, SilentInv, silenced \subseteq Timers, Work
    PROVE  SilentInv' /\ silenced' \subseteq Timers
<1>1. /\ worker \in Seq(Job) /\ worker # <<>> /\ worker' = Tail(worker)
      /\ UNCHANGED <<started, ended>>
      /\ \/ worker[1] = Tick /\ DoTick
         \/ \E t \in Timers : worker[1] = Schedule(t) /\ DoSchedule(t)
         \/ \E t \in Timers : worker[1] = Invalidate(t) /\ DoInvalidate(t)
  BY WorkCases
<1>2. /\ 1 \in DOMAIN worker
      /\ \A k \in DOMAIN worker' :
            k + 1 \in DOMAIN worker /\ k + 1 > 1 /\ worker'[k] = worker[k + 1]
      /\ \A i, k \in DOMAIN worker' : i < k => i + 1 < k + 1
  <2>1. /\ Len(worker) \in Nat \ {0} /\ DOMAIN worker = 1..Len(worker)
        /\ DOMAIN Tail(worker) = 1..(Len(worker) - 1)
        /\ \A k \in 1..(Len(worker) - 1) : Tail(worker)[k] = worker[k + 1]
    BY <1>1, TailJobs
  <2> QED
    BY <1>1, <2>1
<1>3. \A t \in Timers, i \in DOMAIN worker' : worker'[i] = Invalidate(t) => t \in ended'
  BY <1>1, <1>2 DEF SilentInv
<1>4. \A t \in Timers \ Repeating, i, k \in DOMAIN worker' :
         i < k /\ worker'[i] = Invalidate(t) => worker'[k] # Schedule(t)
  BY <1>2 DEF SilentInv
<1>5. ASSUME NEW t \in silenced \ Repeating, \A u \in Timers : Queued(u)' => Queued(u)
      PROVE  ~Queued(t)' /\ \A i \in DOMAIN worker' : worker'[i] # Schedule(t)
  BY <1>2, <1>5 DEF SilentInv
<1>6. ASSUME silenced' = silenced, \A u \in Timers : Queued(u)' => Queued(u)
      PROVE  SilentInv' /\ silenced' \subseteq Timers
  BY <1>1, <1>3, <1>4, <1>5, <1>6 DEF SilentInv
<1>7. CASE worker[1] = Tick /\ DoTick
  <2>1. silenced' = silenced
    BY <1>7 DEF DoTick
  <2>2. CASE queue' = queue
    BY <1>6, <2>1, <2>2 DEF Queued
  <2>3. CASE queue # <<>> /\ queue' = Tail(queue)
    <3>1. Without(queue, queue', 1)
      BY <2>3, TailProperties DEF ListInv, TypeInv
    <3>2. \A u \in Timers : Queued(u)' => Queued(u)
      BY <3>1 DEF Without, Queued
    <3> QED
      BY <1>6, <2>1, <3>2
  <2> QED
    BY <1>7, <2>2, <2>3 DEF DoTick
<1>8. ASSUME NEW t \in Timers, worker[1] = Schedule(t), DoSchedule(t)
      PROVE  SilentInv' /\ silenced' \subseteq Timers
  <2>1. silenced' = silenced /\ t \notin silenced \ Repeating
    BY <1>2, <1>8 DEF DoSchedule, SilentInv
  <2>2. ASSUME NEW u \in Timers, u # t, Queued(u)' PROVE Queued(u)
    <3>1. CASE Queued(t)
      BY <1>8, <2>2, <3>1 DEF DoSchedule, Queued
    <3>2. CASE ~Queued(t)
      <4> DEFINE e == [timer |-> t, at |-> TargetTicks(t)]
      <4>1. queue' = InsertAt(queue, LowerBound(e.at), e)
        BY <1>8, <3>2 DEF DoSchedule, Inserted
      <4>2. e \in Entry /\ e.at \in Nat /\ e.timer = t /\ queue \in Seq(Entry)
        BY RunloopAssumption DEF Entry, TargetTicks, ListInv, TypeInv
      <4>3. LowerBound(e.at) \in 1..(Len(queue) + 1)
        BY <4>2, LowerBoundType
      <4> HIDE DEF e
      <4>4. \A k \in DOMAIN queue' :
               queue'[k] = e \/ \E j \in DOMAIN queue : queue'[k] = queue[j]
        BY <4>1, <4>2, <4>3, InsertProperties
      <4> QED
        BY <2>2, <4>2, <4>4 DEF Queued
    <3> QED
      BY <3>1, <3>2
  <2>3. ASSUME NEW u \in silenced \ Repeating
        PROVE  ~Queued(u)' /\ \A i \in DOMAIN worker' : worker'[i] # Schedule(u)
    <3>1. u \in Timers /\ u # t /\ ~Queued(u)
      BY <2>1, <2>3 DEF SilentInv
    <3> QED
      BY <1>2, <2>2, <2>3, <3>1 DEF SilentInv
  <2> QED
    BY <1>1, <1>3, <1>4, <2>1, <2>3 DEF SilentInv
<1>9. ASSUME NEW t \in Timers, worker[1] = Invalidate(t), DoInvalidate(t)
      PROVE  SilentInv' /\ silenced' \subseteq Timers
  <2>1. silenced' = silenced \cup {t} /\ t \in ended
    BY <1>2, <1>9 DEF DoInvalidate, SilentInv
  <2>2. \A k \in DOMAIN queue' : \E j \in DOMAIN queue :
           queue'[k] = queue[j] /\ queue[j].timer # t
    BY <1>9, InvalidateRemoves
  <2>3. ~Queued(t)' /\ \A u \in Timers : Queued(u)' => Queued(u)
    BY <2>2 DEF Queued
  <2>4. t \notin Repeating => \A i \in DOMAIN worker' : worker'[i] # Schedule(t)
    BY <1>2, <1>9 DEF SilentInv
  <2>5. ASSUME NEW u \in silenced' \ Repeating
        PROVE  ~Queued(u)' /\ \A i \in DOMAIN worker' : worker'[i] # Schedule(u)
    BY <1>5, <2>1, <2>3, <2>4, <2>5
  <2> QED
    BY <1>1, <1>3, <1>4, <2>1, <2>5 DEF SilentInv
<1> QED
  BY <1>1, <1>7, <1>8, <1>9

\* A timer that was invalidated and does not repeat is not on the list any more
\* and will not be put there, by any job that is still to run.
THEOREM TheSilencedAreOffTheList == Spec => [](SilentInv /\ silenced \subseteq Timers)
<1> DEFINE Inv == SilentInv /\ silenced \subseteq Timers
<1>1. Init => Inv
  BY DEF Init, SilentInv
<1>2. ASSUME ListInv, Inv, [Next]_vars
      PROVE  Inv'
  <2>1. CASE Sleep
    <3>1. /\ worker' = Append(worker, Tick) /\ Tick \in Job
          /\ UNCHANGED <<queue, silenced, ended, started>>
      BY <2>1 DEF Sleep, Job
    <3>2. \A t \in Timers : Tick # Invalidate(t) /\ Tick # Schedule(t)
      BY Jobs
    <3>3. \A t \in ended : Tick # Schedule(t)
      BY DEF Tick, Schedule
    <3> QED
      BY <1>2, <3>1, <3>2, <3>3, AppendKeepsSilent DEF SilentInv
  <2>2. CASE Work
    BY <1>2, <2>2, WorkKeepsSilent
  <2>3. ASSUME NEW t \in Timers, Start(t)
        PROVE  Inv'
    <3>1. /\ t \notin ended /\ worker' = Append(worker, Schedule(t)) /\ Schedule(t) \in Job
          /\ UNCHANGED <<queue, silenced, ended>> /\ started' = started \cup {t}
      BY <1>2, <2>3, Jobs DEF Start, SilentInv
    <3>2. \A u \in Timers : Schedule(t) # Invalidate(u)
      BY Jobs
    <3>3. \A u \in ended : Schedule(t) # Schedule(u)
      BY <3>1 DEF Schedule
    <3>4. ended' \subseteq started'
      BY <1>2, <3>1 DEF SilentInv
    <3> QED
      BY <1>2, <3>1, <3>2, <3>3, <3>4, AppendKeepsSilent
  <2>4. ASSUME NEW t \in Timers, End(t)
        PROVE  Inv'
    <3>1. /\ worker' = Append(worker, Invalidate(t)) /\ Invalidate(t) \in Job
          /\ UNCHANGED <<queue, silenced, started>> /\ ended' = ended \cup {t} /\ t \in started
      BY <2>4, Jobs DEF End
    <3>2. \A u \in Timers : Invalidate(t) = Invalidate(u) => u \in ended'
      BY <3>1, Jobs
    <3>3. \A u \in ended : Invalidate(t) # Schedule(u)
      BY DEF Invalidate, Schedule
    <3>4. ended' \subseteq started'
      BY <1>2, <3>1 DEF SilentInv
    <3> QED
      BY <1>2, <3>1, <3>2, <3>3, <3>4, AppendKeepsSilent
  <2>5. ASSUME NEW t \in Timers, Fire(t)
        PROVE  Inv'
    <3>1. CASE t \in Repeating
      <4>1. /\ worker' = Append(worker, Schedule(t)) /\ Schedule(t) \in Job
            /\ UNCHANGED <<queue, silenced, ended, started>>
        BY <2>5, <3>1, Jobs DEF Fire
      <4>2. \A u \in Timers : Schedule(t) # Invalidate(u)
        BY Jobs
      <4>3. \A u \in ended \ Repeating : Schedule(t) # Schedule(u)
        BY <3>1 DEF Schedule
      <4> QED
        BY <1>2, <4>1, <4>2, <4>3, AppendKeepsSilent DEF SilentInv
    <3>2. CASE t \notin Repeating
      BY <1>2, <2>5, <3>2 DEF Fire, SilentInv, Queued
    <3> QED
      BY <3>1, <3>2
  <2>6. CASE UNCHANGED vars
    BY <1>2, <2>6 DEF vars, SilentInv, Queued
  <2> QED
    BY <1>2, <2>1, <2>2, <2>3, <2>4, <2>5, <2>6 DEF Next
<1> QED
  BY <1>1, <1>2, TimersOnList, PTL DEF Spec

\* Once Timer::invalidate has been carried out the timer is not due again, if it
\* does not repeat.
THEOREM TheSilencedStaySilent == Spec => SilencedStaysSilent
<1>1. ASSUME ListInv, SilentInv, silenced \subseteq Timers, [Next]_vars
      PROVE  [\A t \in silenced \ Repeating : posted'[t] <= posted[t]]_vars
  <2> SUFFICES ASSUME NEW t \in silenced \ Repeating, Next
               PROVE  posted'[t] <= posted[t]
    BY <1>1
  <2>1. t \in Timers /\ ~Queued(t) /\ posted \in [Timers -> Nat] /\ posted[t] \in Nat
    BY <1>1 DEF ListInv, TypeInv, SilentInv
  <2>2. CASE posted' = posted
    BY <2>1, <2>2
  <2>3. ASSUME NEW u \in Timers, Fire(u) PROVE posted'[t] <= posted[t]
    BY <2>1, <2>3 DEF Fire
  <2>4. CASE DoTick /\ posted' # posted
    <3>1. queue # <<>> /\ posted' = [posted EXCEPT ![Head(queue).timer] = @ + 1]
      BY <2>4 DEF DoTick
    <3>2. Head(queue).timer # t
      BY <1>1, <2>1, <3>1, Entries DEF ListInv, TypeInv, Queued
    <3> QED
      BY <2>1, <3>1, <3>2
  <2> QED
    BY <1>1, <2>2, <2>3, <2>4, WorkCases
    DEF Next, Sleep, Start, End, DoSchedule, DoInvalidate
<1> QED
  BY <1>1, TimersOnList, TheSilencedAreOffTheList, PTL DEF Spec, SilencedStaysSilent
=============================================================================
