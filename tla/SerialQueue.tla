----------------------------- MODULE SerialQueue -----------------------------
(***************************************************************************)
(* What a dispatch queue promises to the rest of gpproto, and all that the *)
(* other modules assume of one: jobs handed over from other threads are    *)
(* run one at a time, in the order in which they were accepted, each at    *)
(* most once, and while the queue is alive each eventually.  When the      *)
(* queue is closed it may forget the jobs that have not started.           *)
(***************************************************************************)
EXTENDS Sequences, SequencesExt

CONSTANTS Jobs,      \* the closures handed to the queue
          NoJob      \* "nothing is running"

VARIABLES pending,   \* accepted, not started: a sequence of jobs
          current,   \* the job that is running, or NoJob
          done,      \* the jobs that have run to their end
          closed     \* the owner has destroyed the queue

vars == <<pending, current, done, closed>>

Init ==
    /\ pending = <<>>
    /\ current = NoJob
    /\ done = {}
    /\ closed = FALSE

Submit(j) ==
    /\ ~closed
    /\ j \notin done \cup {current} \cup ToSet(pending)
    /\ pending' = Append(pending, j)
    /\ UNCHANGED <<current, done, closed>>

Start ==
    /\ current = NoJob
    /\ pending # <<>>
    /\ current' = Head(pending)
    /\ pending' = Tail(pending)
    /\ UNCHANGED <<done, closed>>

Finish ==
    /\ current # NoJob
    /\ done' = done \cup {current}
    /\ current' = NoJob
    /\ UNCHANGED <<pending, closed>>

Close ==
    /\ ~closed
    /\ closed' = TRUE
    /\ pending' \in Prefixes(pending)
    /\ UNCHANGED <<current, done>>

Next ==
    \/ \E j \in Jobs : Submit(j)
    \/ Start
    \/ Finish
    \/ Close

\* what a queue never does
Safety == Init /\ [][Next]_vars

\* The thread of a queue that is alive never idles while it has work; once
\* the queue is closed only the job that is running is sure to end.
Spec ==
    /\ Safety
    /\ WF_vars(Start /\ ~closed)
    /\ WF_vars(Finish)
=============================================================================
