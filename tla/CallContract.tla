----------------------------- MODULE CallContract -----------------------------
(***************************************************************************)
(* What Proto and RequestMessageService promise the caller, without        *)
(* transports, sessions, message ids or time: a call that is made is in    *)
(* the end answered by one callback, unless it is withdrawn, the server    *)
(* consumes it without a result, or the client is closed; and a call that  *)
(* is over stays over.                                                     *)
(***************************************************************************)
EXTENDS Naturals

CONSTANT Calls

VARIABLES
    status,   \* where each call is
    answers,  \* the callbacks made for each call
    closed    \* the service has been taken away

vars == <<status, answers, closed>>

Init ==
    /\ status = [c \in Calls |-> "new"]
    /\ answers = [c \in Calls |-> 0]
    /\ closed = FALSE

Make(c) ==
    /\ status[c] = "new"
    /\ status' = [status EXCEPT ![c] = "posted"]
    /\ UNCHANGED <<answers, closed>>

Accept(c) ==
    /\ status[c] = "posted"
    /\ status' = [status EXCEPT ![c] = "held"]
    /\ UNCHANGED <<answers, closed>>

Answer(c) ==
    /\ status[c] = "held" /\ ~closed
    /\ status' = [status EXCEPT ![c] = "over"]
    /\ answers' = [answers EXCEPT ![c] = @ + 1]
    /\ UNCHANGED closed

\* withdrawn by the caller, or consumed without a result
Drop(c) ==
    /\ status[c] = "held"
    /\ status' = [status EXCEPT ![c] = "over"]
    /\ UNCHANGED <<answers, closed>>

Close == ~closed /\ closed' = TRUE /\ UNCHANGED <<status, answers>>

Finish(c) == ~closed /\ (Answer(c) \/ Drop(c))

Next == Close \/ \E c \in Calls : Make(c) \/ Accept(c) \/ Answer(c) \/ Drop(c)

Spec == Init /\ [][Next]_vars

\* every call that is made is over in the end
Fairness == \A c \in Calls : WF_vars(Accept(c)) /\ WF_vars(Finish(c))

FairSpec == Spec /\ Fairness
=============================================================================
