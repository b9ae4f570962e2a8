-------------------------- MODULE DatacenterAuthProofs --------------------------
(***************************************************************************)
(* Theorems about the key exchange of DatacenterAuth, for any number of    *)
(* faults and closed connections: its types, that the key is the server's, *)
(* and that it comes to rest only for the reasons StrandedOnlyByLoss names.*)
(***************************************************************************)
EXTENDS DatacenterAuth, TLAPS

Positive == Nat \ {0}

Qualities == {"good", "rejected", "unusable", "garbled", "truncated"}

\* what the service sends, with the numbers each message carries
Requests ==
    [k : {"reqPq"}, nonce : Positive]
        \cup [k : {"reqDh"}, nonce : Positive, serverNonce : Nat, newNonce : Nat]
        \cup [k : {"setDh"}, nonce : Positive, serverNonce : Nat, key : Nat]

\* what the server answers
Replies ==
    [k : {"resPq"}, nonce : Positive, serverNonce : Positive, quality : Qualities]
        \cup [k : {"dhParams"}, nonce : Positive, serverNonce : Nat, newNonce : Nat, quality : Qualities]
        \cup [k : {"dhGen"}, nonce : Positive, serverNonce : Nat, key : Nat, quality : Qualities]

\* The service itself: what of TypeOK is about it.
ServiceOK ==
    /\ auth \in [stage : {"pq", "reqDh", "keyVerification", "done"}, sent : BOOLEAN,
                 nonce : Nat, serverNonce : Nat, newNonce : Nat, key : Nat]
    /\ auth.stage # "pq" => auth.nonce # 0 /\ auth.serverNonce # 0 /\ auth.newNonce # 0
    /\ auth.stage \in {"keyVerification", "done"} => auth.key # 0

\* The type invariant with the messages under way.
TypeInv ==
    /\ TypeOK
    /\ toServer \subseteq Requests
    /\ toClient \subseteq Replies

\* A hash of a key that says the server has it is one the server has made.
HashInv == \A m \in toClient : m.k = "dhGen" /\ m.quality = "good" => m.key \in server

SharedInv == HashInv /\ KeyIsShared

\* The message of the present stage, or its answer, is under way.
Awaited ==
    \/ \E m \in toServer :
          /\ m.nonce = auth.nonce
          /\ CASE auth.stage = "pq" -> m.k = "reqPq"
               [] auth.stage = "reqDh" -> m.k = "reqDh" /\ m.serverNonce = auth.serverNonce
               [] OTHER -> m.k = "setDh" /\ m.serverNonce = auth.serverNonce
    \/ \E m \in toClient :
          /\ m.nonce = auth.nonce
          /\ CASE auth.stage = "pq" -> m.k = "resPq"
               [] auth.stage = "reqDh" -> m.k = "dhParams" /\ m.serverNonce = auth.serverNonce
               [] OTHER -> m.k = "dhGen" /\ m.serverNonce = auth.serverNonce

\* The transport is about to ask for a transaction, or will when it opens.
WillAsk == link.asked \/ link.ready \/ link.conn # "open"

\* Why the exchange goes on, for as long as it is not over: a message that
\* counts as sent is under way unless it was lost, one that does not will be
\* asked for; the last stage's is either of both.
ProgressInv ==
    /\ auth.stage = "done" => Stopped
    /\ auth.stage = "keyVerification" => ~auth.sent
    /\ auth.stage \in {"pq", "reqDh"} /\ auth.sent => Awaited \/ auth.nonce \in lost \cup useless
    /\ auth.stage \in {"pq", "reqDh"} /\ ~auth.sent => WillAsk
    /\ auth.stage = "keyVerification" => WillAsk \/ Awaited \/ auth.nonce \in useless

-----------------------------------------------------------------------------
(* Types.                                                                  *)

\* What the service prepares is a message of its stage.
LEMMA MessageType ==
    ASSUME TypeOK, auth.stage # "done"
    PROVE  /\ Message \in Requests
           /\ Message.nonce \in Positive
  <1>1. CASE auth.stage = "pq"
    BY <1>1 DEF TypeOK, Message, Requests, Positive
  <1>2. CASE auth.stage = "reqDh"
    BY <1>2 DEF TypeOK, Message, Requests, Positive
  <1>3. CASE auth.stage = "keyVerification"
    BY <1>3 DEF TypeOK, Message, Requests, Positive
  <1> QED BY <1>1, <1>2, <1>3 DEF TypeOK

\* Counting a message as sent keeps the service to its types.
LEMMA SentType ==
    ASSUME TypeOK, auth.stage # "done", NEW written \in BOOLEAN, auth' = Sent(written)
    PROVE  /\ auth' \in [stage : {"pq", "reqDh", "keyVerification", "done"}, sent : BOOLEAN,
                         nonce : Nat, serverNonce : Nat, newNonce : Nat, key : Nat]
           /\ auth'.stage = auth.stage
           /\ auth'.stage # "pq" => auth'.nonce = auth.nonce
           /\ auth'.serverNonce = auth.serverNonce
           /\ auth'.newNonce = auth.newNonce
           /\ auth'.key = auth.key
  <1>0. Message.nonce \in Nat
    BY MessageType DEF Positive
  <1>1. CASE auth.stage = "pq"
    BY <1>0, <1>1 DEF TypeOK, Sent
  <1>2. CASE auth.stage = "reqDh"
    BY <1>2 DEF TypeOK, Sent
  <1>3. CASE auth.stage = "keyVerification"
    BY <1>3 DEF TypeOK, Sent
  <1> QED BY <1>1, <1>2, <1>3 DEF TypeOK

\* An answer is of the kind its request asks for and names its exchange.
LEMMA ReplyType ==
    ASSUME NEW m \in Requests, NEW quality \in Qualities, drawn \in Nat
    PROVE  /\ Reply(m, quality) \in Replies
           /\ Reply(m, quality).nonce = m.nonce
           /\ Reply(m, quality).quality = quality
           /\ m.k = "reqPq" => Reply(m, quality).k = "resPq"
           /\ m.k = "reqDh" => Reply(m, quality).k = "dhParams"
                            /\ Reply(m, quality).serverNonce = m.serverNonce
           /\ m.k = "setDh" => Reply(m, quality).k = "dhGen"
                            /\ Reply(m, quality).serverNonce = m.serverNonce
                            /\ Reply(m, quality).key = m.key
           /\ m.k \in {"reqPq", "reqDh", "setDh"}
  <1>1. CASE m \in [k : {"reqPq"}, nonce : Positive]
    BY <1>1 DEF Reply, Replies, Positive
  <1>2. CASE m \in [k : {"reqDh"}, nonce : Positive, serverNonce : Nat, newNonce : Nat]
    BY <1>2 DEF Reply, Replies, Positive
  <1>3. CASE m \in [k : {"setDh"}, nonce : Positive, serverNonce : Nat, key : Nat]
    BY <1>3 DEF Reply, Replies, Positive
  <1> QED BY <1>1, <1>2, <1>3 DEF Requests

\* What the handlers find in an answer of each kind.
LEMMA ReplyFields ==
    ASSUME NEW m \in Replies
    PROVE  /\ m.nonce \in Positive /\ m.serverNonce \in Nat /\ m.quality \in Qualities
           /\ m.k = "resPq" => m.serverNonce \in Positive
  BY DEF Replies, Positive

\* The fields of the service, whatever two or three of them are set to.
ServiceType ==
    [stage : {"pq", "reqDh", "keyVerification", "done"}, sent : BOOLEAN,
     nonce : Nat, serverNonce : Nat, newNonce : Nat, key : Nat]

LEMMA ServiceUpdates ==
    ASSUME NEW a \in ServiceType, NEW k \in Nat, NEW l \in Nat, NEW s \in {"reqDh", "keyVerification", "done"}
    PROVE  /\ [a EXCEPT !.serverNonce = k, !.newNonce = l] \in ServiceType
           /\ [a EXCEPT !.stage = s, !.sent = FALSE, !.serverNonce = k, !.newNonce = l] \in ServiceType
           /\ [a EXCEPT !.stage = s, !.sent = FALSE, !.key = k] \in ServiceType
           /\ [a EXCEPT !.stage = s, !.sent = FALSE] \in ServiceType
  BY DEF ServiceType

\* The service after a reset keeps to its types.
LEMMA FreshType ==
    ASSUME auth' = Fresh
    PROVE  ServiceOK'
  <1>1. /\ Fresh \in [stage : {"pq", "reqDh", "keyVerification", "done"}, sent : BOOLEAN,
                      nonce : Nat, serverNonce : Nat, newNonce : Nat, key : Nat]
        /\ Fresh.stage = "pq"
    BY DEF Fresh
  <1> QED BY <1>1 DEF ServiceOK

\* A session that is reset leaves the service new, or everything as it was.
LEMMA ResetType ==
    ASSUME TypeInv, NEW arrived, ResetSession(arrived)
    PROVE  TypeInv'
  <1>1. CASE lock = "held"
    BY <1>1 DEF TypeInv, TypeOK, ResetSession
  <1>2. CASE lock # "held"
    <2>1. ServiceOK' /\ result' = result /\ drawn' = drawn
      BY <1>2, FreshType DEF ResetSession
    <2>2. /\ link' \in [conn : {"none", "starting", "open", "backoff"},
                        asked : BOOLEAN, ready : BOOLEAN, valid : BOOLEAN]
          /\ lock' \in {"clear", "held", "expired"}
          /\ toServer' = {} /\ toClient' = {}
      <3>1. link' = [conn |-> "none", asked |-> TRUE, ready |-> FALSE, valid |-> FALSE]
        BY <1>2 DEF ResetSession
      <3>2. lock' = IF lock = "clear" THEN "held" ELSE "clear"
        BY <1>2 DEF ResetSession
      <3>3. toServer' = {} /\ toClient' = {}
        BY <1>2 DEF ResetSession
      <3> QED BY <3>1, <3>2, <3>3
    <2> QED BY <2>1, <2>2 DEF TypeInv, TypeOK, ServiceOK
  <1> QED BY <1>1, <1>2

LEMMA TypeInvIsInductive ==
    ASSUME TypeInv, [Next]_vars
    PROVE  TypeInv'
  <1> USE DEF TypeInv
  <1>1. CASE LinkStep
    BY ZenonT(30), <1>1 DEF LinkStep, Flush, Opened, BackoffTimer, Validated, TypeOK
  <1>2. CASE Closed
    <2>1. PICK conn \in {"starting", "backoff"} : link' = [link EXCEPT !.conn = conn]
      BY <1>2 DEF Closed
    <2>2. link' \in [conn : {"none", "starting", "open", "backoff"},
                     asked : BOOLEAN, ready : BOOLEAN, valid : BOOLEAN]
      BY <2>1 DEF TypeOK
    <2>3. toServer' \subseteq Requests /\ toClient' \subseteq Replies
      BY <1>2 DEF Closed
    <2> QED BY <1>2, <2>2, <2>3 DEF Closed, TypeOK
  <1>3. CASE Ready
    <2>1. CASE auth.sent \/ auth.stage = "done"
      BY <1>3, <2>1 DEF Ready, TypeOK
    <2>2. CASE ~(auth.sent \/ auth.stage = "done")
      <3>1. HasConnection \in BOOLEAN
        BY DEF HasConnection
      <3>2. Message \in Requests /\ Message.nonce \in Positive
        BY <2>2, MessageType
      <3>3. auth' = Sent(HasConnection)
        BY <1>3, <2>2 DEF Ready
      <3>4. toServer' \subseteq Requests /\ drawn' \in Nat
        BY <1>3, <2>2, <3>2 DEF Ready, TypeOK, Positive
      <3>5. /\ link' \in [conn : {"none", "starting", "open", "backoff"},
                          asked : BOOLEAN, ready : BOOLEAN, valid : BOOLEAN]
            /\ UNCHANGED <<result, lock, toClient>>
        BY <1>3 DEF Ready, TypeOK
      <3> QED BY <2>2, <3>1, <3>3, <3>4, <3>5, SentType DEF TypeOK
    <2> QED BY <2>1, <2>2
  <1>4. ASSUME NEW m \in toServer, Answer(m)
        PROVE  TypeInv'
    <2>1. PICK quality \in {"good"} \cup (Faults \ {"unasked", "clock"}) :
             toClient' = toClient \cup {Reply(m, quality)}
      BY <1>4 DEF Answer
    <2>2. quality \in Qualities
      BY AuthAssumption DEF Qualities
    <2>3. Reply(m, quality) \in Replies
      BY <2>2, ReplyType DEF TypeOK
    <2>4. toClient' \subseteq Replies /\ toServer' \subseteq Requests /\ drawn' \in Nat
      BY <1>4, <2>1, <2>3 DEF Answer, TypeOK
    <2> QED BY <1>4, <2>4 DEF Answer, TypeOK
  <1>5. ASSUME NEW m \in toClient, Receive(m)
        PROVE  TypeInv'
    <2>0. m \in Replies
      OBVIOUS
    <2>1. /\ link' \in [conn : {"none", "starting", "open", "backoff"},
                        asked : BOOLEAN, ready : BOOLEAN, valid : BOOLEAN]
          /\ toClient' \subseteq Replies
          /\ UNCHANGED <<lock, toServer>>
      BY <1>5 DEF Receive, TypeOK, Asks
    <2>2. CASE UNCHANGED <<auth, result, drawn>>
      BY <2>1, <2>2 DEF TypeOK
    <2>3. CASE ReceiveResPq(m)
      <3>1. m.nonce \in Positive /\ m.serverNonce \in Positive /\ drawn \in Nat
        BY <2>0, <2>3, ReplyFields DEF ReceiveResPq, TypeOK
      <3>2. ServiceOK' /\ drawn' \in Nat /\ result' = result
        <4>1. auth.stage = "pq" /\ drawn' = drawn + 1 /\ result' = result /\ m.nonce = auth.nonce
          BY <2>3 DEF ReceiveResPq
        <4>2. \/ auth' = Fresh
              \/ auth' = [auth EXCEPT !.stage = "reqDh", !.sent = FALSE,
                                      !.serverNonce = m.serverNonce, !.newNonce = drawn + 1]
              \/ auth' = [auth EXCEPT !.serverNonce = m.serverNonce, !.newNonce = drawn + 1]
          BY <2>3 DEF ReceiveResPq
        <4>3. CASE auth' = Fresh
          BY <3>1, <4>1, <4>3, FreshType
        <4>4. CASE auth' = [auth EXCEPT !.stage = "reqDh", !.sent = FALSE,
                                       !.serverNonce = m.serverNonce, !.newNonce = drawn + 1]
          <5>1. auth' \in ServiceType
            <6>1. auth \in ServiceType /\ m.serverNonce \in Nat /\ drawn + 1 \in Nat
              BY <3>1 DEF TypeOK, ServiceType, Positive
            <6> QED BY <4>4, <6>1, ServiceUpdates
          <5>2. auth'.stage = "reqDh" /\ auth'.nonce = m.nonce /\ auth'.serverNonce = m.serverNonce
                /\ auth'.newNonce = drawn + 1
            BY <4>1, <4>4 DEF TypeOK
          <5> QED BY <3>1, <4>1, <5>1, <5>2 DEF ServiceOK, ServiceType, Positive
        <4>5. CASE auth' = [auth EXCEPT !.serverNonce = m.serverNonce, !.newNonce = drawn + 1]
          <5>1. auth' \in ServiceType
            <6>1. auth \in ServiceType /\ m.serverNonce \in Nat /\ drawn + 1 \in Nat
              BY <3>1 DEF TypeOK, ServiceType, Positive
            <6> QED BY <4>5, <6>1, ServiceUpdates
          <5>2. auth'.stage = "pq"
            BY <4>1, <4>5 DEF TypeOK
          <5> QED BY <3>1, <4>1, <5>1, <5>2 DEF ServiceOK, ServiceType
        <4> QED BY <4>2, <4>3, <4>4, <4>5
      <3> QED BY <2>1, <3>2 DEF TypeOK, ServiceOK
    <2>4. CASE ReceiveDhParams(m)
      <3>1. ServiceOK' /\ drawn' \in Nat /\ result' = result
        <4>1. CASE auth' = Fresh
          BY <2>4, <4>1, FreshType DEF ReceiveDhParams, TypeOK
        <4>2. CASE auth' # Fresh
          <5>1. \/ auth' = auth
                \/ auth' = [auth EXCEPT !.stage = "keyVerification", !.sent = FALSE, !.key = drawn + 1]
            BY <2>4, <4>2 DEF ReceiveDhParams
          <5>2. auth.stage = "reqDh" /\ drawn' = drawn + 1 /\ result' = result
            BY <2>4 DEF ReceiveDhParams
          <5>3. CASE auth' = auth
            BY <5>2, <5>3 DEF TypeOK, ServiceOK
          <5>4. CASE auth' = [auth EXCEPT !.stage = "keyVerification", !.sent = FALSE, !.key = drawn + 1]
            <6>1. drawn + 1 \in Nat \ {0}
              BY DEF TypeOK
            <6>2. auth' \in ServiceType
              BY ZenonT(30), <5>2, <5>4, <6>1, ServiceUpdates DEF TypeOK, ServiceType
            <6>3. auth'.nonce = auth.nonce /\ auth'.serverNonce = auth.serverNonce
                  /\ auth'.newNonce = auth.newNonce /\ auth'.key = drawn + 1
              BY <5>4 DEF TypeOK
            <6> QED BY <5>2, <6>1, <6>2, <6>3 DEF TypeOK, ServiceOK, ServiceType
          <5> QED BY <5>1, <5>3, <5>4
        <4> QED BY <4>1, <4>2
      <3> QED BY <2>1, <3>1 DEF TypeOK, ServiceOK
    <2>5. CASE ReceiveDhGen(m)
      <3>1. ServiceOK' /\ drawn' = drawn /\ result' \in Nat
        <4>1. CASE auth' = Fresh
          BY <2>5, <4>1, FreshType DEF ReceiveDhGen, TypeOK
        <4>2. CASE auth' # Fresh
          <5>1. auth' = [auth EXCEPT !.stage = "done", !.sent = FALSE]
            BY <2>5, <4>2 DEF ReceiveDhGen
          <5>2. auth.stage = "keyVerification" /\ result' \in {auth.key, result}
            BY <2>5 DEF ReceiveDhGen
          <5> QED BY <2>5, <5>1, <5>2 DEF ReceiveDhGen, TypeOK, ServiceOK
        <4> QED BY <4>1, <4>2
      <3> QED BY <2>1, <3>1 DEF TypeOK, ServiceOK
    <2> QED BY <1>5, <2>2, <2>3, <2>4, <2>5 DEF Receive, ReceiveParsed
  <1>6. ASSUME NEW m \in toClient, ReceiveGarbled(m)
        PROVE  TypeInv'
    BY <1>6, ResetType DEF ReceiveGarbled
  <1>7. CASE ReceiveUnasked
    BY <1>7, ResetType DEF ReceiveUnasked
  <1>8. CASE ReadyViolated
    <2>1. CASE lock = "held"
      <3>1. auth.stage # "done" /\ auth' = Sent(FALSE)
        BY <1>8, <2>1 DEF ReadyViolated
      <3>2. Message.nonce \in Positive
        BY <3>1, MessageType
      <3>3. drawn' \in Nat
        BY <1>8, <2>1, <3>2 DEF ReadyViolated, TypeOK, Positive
      <3>4. /\ link' \in [conn : {"none", "starting", "open", "backoff"},
                          asked : BOOLEAN, ready : BOOLEAN, valid : BOOLEAN]
            /\ UNCHANGED <<result, lock, toServer, toClient>>
        BY <1>8, <2>1 DEF ReadyViolated, TypeOK, Asks
      <3> QED BY <3>1, <3>3, <3>4, SentType DEF TypeOK
    <2>2. CASE lock # "held"
      BY <1>8, <2>2, ResetType DEF ReadyViolated
    <2> QED BY <2>1, <2>2
  <1>9. CASE LockExpires
    BY <1>9 DEF LockExpires, TypeOK
  <1>10. CASE UNCHANGED vars
    BY <1>10 DEF vars, TypeOK
  <1> QED BY <1>1, <1>2, <1>3, <1>4, <1>5, <1>6, <1>7, <1>8, <1>9, <1>10 DEF Next, Receives

\* The service and what is under way keep to their types, and each stage has
\* the numbers its handlers use (DatacenterAuthMessageService.cpp).
THEOREM TypeCorrect == Spec => []TypeOK
  <1>1. Init => TypeInv
    BY DEF Init, TypeInv, TypeOK, Fresh
  <1>2. TypeInv /\ [Next]_vars => TypeInv'
    BY TypeInvIsInductive
  <1>3. TypeInv => TypeOK
    BY DEF TypeInv
  <1> QED BY <1>1, <1>2, <1>3, PTL DEF Spec

-----------------------------------------------------------------------------
(* The key.                                                                *)

\* A reset that empties toClient, or leaves it smaller, leaves no new hash.
LEMMA SharedInvIsInductive ==
    ASSUME TypeInv, SharedInv, [Next]_vars
    PROVE  SharedInv'
  <1> USE DEF SharedInv, HashInv, KeyIsShared
  <1>1. CASE LinkStep
    BY <1>1 DEF LinkStep, Flush, Opened, BackoffTimer, Validated
  <1>2. CASE Closed
    BY <1>2 DEF Closed
  <1>3. CASE Ready
    BY <1>3 DEF Ready
  <1>4. ASSUME NEW m \in toServer, Answer(m)
        PROVE  SharedInv'
    <2>1. PICK quality \in {"good"} \cup (Faults \ {"unasked", "clock"}) :
             /\ toClient' = toClient \cup {Reply(m, quality)}
             /\ server' = IF m.k = "setDh" /\ quality \in {"good", "garbled", "truncated"}
                          THEN server \cup {m.key} ELSE server
      BY <1>4 DEF Answer
    <2>2. quality \in Qualities /\ m \in Requests /\ drawn \in Nat
      BY AuthAssumption DEF Qualities, TypeInv, TypeOK
    <2>3. Reply(m, quality).k = "dhGen" /\ Reply(m, quality).quality = "good"
             => Reply(m, quality).key \in server'
      BY <2>1, <2>2, ReplyType
    <2>4. server \subseteq server' /\ result' = result
      BY <1>4, <2>1 DEF Answer
    <2> QED BY <2>1, <2>3, <2>4
  <1>5. ASSUME NEW m \in toClient, Receive(m)
        PROVE  SharedInv'
    <2>1. HashInv' /\ server' = server
      BY <1>5 DEF Receive
    <2>2. CASE result' = result
      BY <2>1, <2>2
    <2>3. CASE ReceiveDhGen(m)
      BY <2>1, <2>3 DEF ReceiveDhGen
    <2> QED BY <1>5, <2>2, <2>3 DEF Receive, ReceiveParsed, ReceiveResPq, ReceiveDhParams
  <1>6. ASSUME NEW arrived, ResetSession(arrived)
        PROVE  SharedInv'
    BY <1>6 DEF ResetSession
  <1>7. ASSUME UNCHANGED <<toClient, server, result>>
        PROVE  SharedInv'
    BY <1>7
  <1>8. CASE ReadyViolated
    BY <1>6, <1>7, <1>8 DEF ReadyViolated
  <1>9. CASE LockExpires
    BY <1>7, <1>9 DEF LockExpires
  <1>10. CASE UNCHANGED vars
    BY <1>7, <1>10 DEF vars
  <1> QED BY <1>1, <1>2, <1>3, <1>4, <1>5, <1>6, <1>8, <1>9, <1>10
          DEF Next, Receives, ReceiveGarbled, ReceiveUnasked

\* The client believes in a key only when the server has agreed to that very
\* key, whatever answers of exchanges abandoned before arrive in between.
THEOREM KeyIsSharedAlways == Spec => []KeyIsShared
  <1>1. Init => TypeInv /\ SharedInv
    BY DEF Init, TypeInv, TypeOK, Fresh, SharedInv, HashInv, KeyIsShared
  <1>2. TypeInv /\ SharedInv /\ [Next]_vars => (TypeInv /\ SharedInv)'
    BY TypeInvIsInductive, SharedInvIsInductive
  <1>3. SharedInv => KeyIsShared
    BY DEF SharedInv
  <1> QED BY <1>1, <1>2, <1>3, PTL DEF Spec

-----------------------------------------------------------------------------
(* Progress.                                                               *)

LEMMA ProgressInvIsInductive ==
    ASSUME TypeInv, TypeInv', ProgressInv, [Next]_vars
    PROVE  ProgressInv'
  <1>1. CASE LinkStep
    <2>1. UNCHANGED <<auth, toServer, toClient, result, lost, useless>>
      BY <1>1 DEF LinkStep, Flush, Opened, BackoffTimer, Validated
    <2>2. WillAsk => WillAsk'
      <3>1. CASE Flush
        BY <3>1 DEF Flush, WillAsk, HasConnection, TypeInv, TypeOK
      <3>2. CASE Opened
        BY <3>2 DEF Opened, WillAsk, TypeInv, TypeOK
      <3>3. CASE BackoffTimer
        BY <3>3 DEF BackoffTimer, WillAsk, TypeInv, TypeOK
      <3>4. CASE Validated
        BY <3>4 DEF Validated, WillAsk, TypeInv, TypeOK
      <3> QED BY <1>1, <3>1, <3>2, <3>3, <3>4 DEF LinkStep
    <2>3. Awaited' <=> Awaited
      BY <2>1 DEF Awaited
    <2> QED BY <2>1, <2>2, <2>3 DEF ProgressInv, Stopped
  <1>2. CASE Closed
    <2>1. UNCHANGED <<auth, result, useless>> /\ WillAsk' /\ ~Stopped
      BY <1>2 DEF Closed, WillAsk, TypeInv, TypeOK
    <2>2. Awaited => Awaited' \/ auth.nonce \in lost'
      <3>1. /\ \A m \in toServer : m \in toServer' \/ m.nonce \in lost'
            /\ \A m \in toClient : m \in toClient' \/ m.nonce \in lost'
            /\ lost \subseteq lost'
        BY <1>2 DEF Closed
      <3> QED BY <2>1, <3>1 DEF Awaited
    <2>3. lost \subseteq lost'
      BY <1>2 DEF Closed
    <2> QED BY <2>1, <2>2, <2>3 DEF ProgressInv, Stopped
  <1>3. CASE Ready
    <2>1. CASE auth.sent \/ auth.stage = "done"
      <3>1. UNCHANGED <<auth, toServer, toClient, result, lost, useless>>
        BY <1>3, <2>1 DEF Ready
      <3>2. Awaited' <=> Awaited
        BY <3>1 DEF Awaited
      <3> QED BY <2>1, <3>1, <3>2 DEF ProgressInv, Stopped
    <2>2. CASE ~(auth.sent \/ auth.stage = "done")
      <3>1. /\ auth' = Sent(HasConnection)
            /\ toServer' = IF HasConnection THEN toServer \cup {Message} ELSE toServer
            /\ lost' = IF HasConnection THEN lost ELSE lost \cup {Message.nonce}
            /\ link' = [link EXCEPT !.ready = FALSE]
            /\ UNCHANGED <<toClient, result, useless>>
        BY <1>3, <2>2 DEF Ready
      <3>2. HasConnection \in BOOLEAN
        BY DEF HasConnection
      <3>3. CASE auth.stage = "pq"
        <4>1. auth'.stage = "pq" /\ auth'.nonce = Message.nonce /\ auth'.sent
          BY <3>1, <3>3 DEF Sent, TypeInv, TypeOK
        <4>2. Message.k = "reqPq"
          BY <3>3 DEF Message
        <4>3. CASE HasConnection
          BY <3>1, <4>1, <4>2, <4>3 DEF ProgressInv, Awaited, Stopped
        <4>4. CASE ~HasConnection
          BY <3>1, <4>1, <4>4 DEF ProgressInv
        <4> QED BY <4>3, <4>4
      <3>4. CASE auth.stage = "reqDh"
        <4>1. /\ auth'.stage = "reqDh" /\ auth'.sent = HasConnection
              /\ auth'.nonce = auth.nonce /\ auth'.serverNonce = auth.serverNonce
          BY <3>1, <3>4 DEF Sent, TypeInv, TypeOK
        <4>2. /\ Message.k = "reqDh" /\ Message.nonce = auth.nonce
              /\ Message.serverNonce = auth.serverNonce
          BY <3>4 DEF Message
        <4>3. CASE HasConnection
          BY <3>1, <4>1, <4>2, <4>3 DEF ProgressInv, Awaited
        <4>4. CASE ~HasConnection
          <5>1. WillAsk'
            BY <3>1, <4>4 DEF WillAsk, HasConnection, TypeInv, TypeOK
          <5> QED BY <4>1, <4>4, <5>1 DEF ProgressInv
        <4> QED BY <4>3, <4>4
      <3>5. CASE auth.stage = "keyVerification"
        <4>1. auth' = auth
          BY <3>1, <3>5 DEF Sent
        <4>2. /\ Message.k = "setDh" /\ Message.nonce = auth.nonce
              /\ Message.serverNonce = auth.serverNonce
          BY <3>5 DEF Message
        <4>3. CASE HasConnection
          <5>1. Awaited'
            BY <3>1, <3>5, <4>1, <4>2, <4>3 DEF Awaited
          <5> QED BY <2>2, <3>5, <4>1, <5>1 DEF ProgressInv
        <4>4. CASE ~HasConnection
          <5>1. WillAsk'
            BY <3>1, <4>4 DEF WillAsk, HasConnection, TypeInv, TypeOK
          <5> QED BY <2>2, <3>5, <4>1, <5>1 DEF ProgressInv
        <4> QED BY <4>3, <4>4
      <3> QED BY <2>2, <3>3, <3>4, <3>5 DEF TypeInv, TypeOK
    <2> QED BY <2>1, <2>2
  <1>4. ASSUME NEW m \in toServer, Answer(m)
        PROVE  ProgressInv'
    <2>1. PICK quality \in {"good"} \cup (Faults \ {"unasked", "clock"}) :
             toClient' = toClient \cup {Reply(m, quality)}
      BY <1>4 DEF Answer
    <2>2. quality \in Qualities /\ m \in Requests /\ drawn \in Nat
      BY AuthAssumption DEF Qualities, TypeInv, TypeOK
    <2>3. toServer' = toServer \ {m} /\ UNCHANGED <<auth, result, link, lost, useless>>
      BY <1>4 DEF Answer
    <2>4. WillAsk' <=> WillAsk
      BY <2>3 DEF WillAsk
    <2>5. Awaited => Awaited'
      <3>1. Reply(m, quality) \in toClient' /\ toClient \subseteq toClient'
        BY <2>1
      <3>2. \A n \in toServer : n = m \/ n \in toServer'
        BY <2>3
      <3>3. /\ Reply(m, quality).nonce = m.nonce
            /\ m.k = "reqPq" => Reply(m, quality).k = "resPq"
            /\ m.k = "reqDh" => Reply(m, quality).k = "dhParams"
                             /\ Reply(m, quality).serverNonce = m.serverNonce
            /\ m.k = "setDh" => Reply(m, quality).k = "dhGen"
                             /\ Reply(m, quality).serverNonce = m.serverNonce
        BY <2>2, ReplyType
      <3>4. CASE auth.stage = "pq"
        BY <2>3, <3>1, <3>2, <3>3, <3>4 DEF Awaited
      <3>5. CASE auth.stage = "reqDh"
        BY <2>3, <3>1, <3>2, <3>3, <3>5 DEF Awaited
      <3>6. CASE auth.stage \notin {"pq", "reqDh"}
        BY <2>3, <3>1, <3>2, <3>3, <3>6 DEF Awaited
      <3> QED BY <3>4, <3>5, <3>6
    <2> QED BY <2>3, <2>4, <2>5 DEF ProgressInv, Stopped
  <1>5. ASSUME NEW arrived, ResetSession(arrived), ~Stopped
        PROVE  ProgressInv'
    <2>1. CASE lock = "held"
      <3>1. /\ toClient' = toClient \ arrived
            /\ useless' = useless \cup {n.nonce : n \in arrived}
            /\ UNCHANGED <<auth, link, toServer, result, lost>>
        BY <1>5, <2>1 DEF ResetSession
      <3>2. WillAsk' <=> WillAsk
        BY <3>1 DEF WillAsk
      <3>3. Awaited => Awaited' \/ auth.nonce \in useless'
        <4>1. \A n \in toClient : n \in toClient' \/ n.nonce \in useless'
          BY <3>1
        <4> QED BY <3>1, <4>1 DEF Awaited
      <3> QED BY <3>1, <3>2, <3>3 DEF ProgressInv, Stopped
    <2>2. CASE lock # "held"
      <3>1. auth' = Fresh /\ link'.asked
        BY <1>5, <2>2 DEF ResetSession
      <3>2. auth'.stage = "pq" /\ ~auth'.sent
        BY <3>1 DEF Fresh
      <3> QED BY <3>1, <3>2 DEF ProgressInv, WillAsk
    <2> QED BY <2>1, <2>2
  <1>6. ASSUME NEW m \in toClient, Receive(m)
        PROVE  ProgressInv'
    <2>0. ~Stopped /\ m \in Replies
      BY <1>6 DEF Receive, TypeInv
    <2>1. /\ toServer' = toServer /\ toClient' = toClient \ {m} /\ lost' = lost
          /\ useless \subseteq useless'
          /\ m.quality \in {"unusable", "truncated"} => m.nonce \in useless'
          /\ auth'.stage # auth.stage \/ auth' = Fresh => link'.asked
          /\ WillAsk => WillAsk'
      BY <1>6 DEF Receive, Asks, WillAsk, TypeInv, TypeOK
    \* another message than the one that is awaited changes nothing
    <2>2. CASE UNCHANGED auth /\ result' = result /\ Ignores(m)
      <3>1. Awaited => Awaited'
        <4>1. CASE auth.stage = "pq"
          <5>1. ~(m.nonce = auth.nonce /\ m.k = "resPq")
            BY <2>2, <4>1 DEF Ignores
          <5> QED BY <2>1, <2>2, <4>1, <5>1 DEF Awaited
        <4>2. CASE auth.stage = "reqDh"
          <5>1. ~(m.nonce = auth.nonce /\ m.k = "dhParams" /\ m.serverNonce = auth.serverNonce)
            BY <2>2, <4>2 DEF Ignores
          <5> QED BY <2>1, <2>2, <4>2, <5>1 DEF Awaited
        <4>3. CASE auth.stage = "keyVerification"
          <5>1. ~(m.nonce = auth.nonce /\ m.k = "dhGen" /\ m.serverNonce = auth.serverNonce)
            BY <2>2, <4>3 DEF Ignores
          <5> QED BY <2>1, <2>2, <4>3, <5>1 DEF Awaited
        <4> QED BY <2>0, <4>1, <4>2, <4>3 DEF ProgressInv, TypeInv, TypeOK
      <3> QED BY <2>0, <2>1, <2>2, <3>1 DEF ProgressInv, Stopped
    \* one that is awaited and useless is remembered
    <2>3. CASE UNCHANGED auth /\ result' = result /\ m.nonce \in useless'
      <3>1. Awaited => Awaited' \/ auth.nonce \in useless'
        <4>1. \A n \in toClient : n \in toClient' \/ n.nonce \in useless'
          BY <2>1, <2>3
        <4> QED BY <2>1, <2>3, <4>1 DEF Awaited
      <3> QED BY <2>0, <2>1, <2>3, <3>1 DEF ProgressInv, Stopped
    <2>4. CASE auth' = Fresh
      <3>1. auth'.stage = "pq" /\ ~auth'.sent
        BY <2>4 DEF Fresh
      <3> QED BY <2>1, <2>4, <3>1 DEF ProgressInv, WillAsk
    <2>5. CASE ReceiveResPq(m) /\ m.quality # "truncated" /\ auth' # Fresh
      <3>1. CASE m.quality = "good"
        <4>1. auth'.stage = "reqDh" /\ ~auth'.sent /\ auth.stage = "pq"
          BY <2>5, <3>1 DEF ReceiveResPq, TypeInv, TypeOK
        <4> QED BY <2>1, <4>1 DEF ProgressInv, WillAsk
      <3>2. CASE m.quality # "good"
        <4>1. /\ auth'.stage = "pq" /\ auth'.sent = auth.sent /\ auth'.nonce = m.nonce
              /\ auth.stage = "pq"
          BY <2>5, <3>2 DEF ReceiveResPq, TypeInv, TypeOK
        <4>2. m.quality = "unusable"
          BY <1>6, <2>0, <2>5, <3>2, ReplyFields DEF Receive, ReceiveResPq, Qualities
        <4> QED BY <2>1, <4>1, <4>2 DEF ProgressInv
      <3> QED BY <3>1, <3>2
    <2>6. CASE ReceiveDhParams(m) /\ auth' # Fresh
      <3>1. CASE m.quality = "unusable"
        <4>1. auth' = auth /\ result' = result
          BY <2>6, <3>1 DEF ReceiveDhParams, Decrypts
        <4>2. m.nonce \in useless'
          BY <2>1, <3>1
        <4> QED BY <2>3, <4>1, <4>2
      <3>2. CASE m.quality # "unusable"
        <4>1. auth'.stage = "keyVerification" /\ ~auth'.sent /\ auth.stage = "reqDh"
          BY <2>6, <3>2 DEF ReceiveDhParams, TypeInv, TypeOK
        <4> QED BY <2>1, <4>1 DEF ProgressInv, WillAsk
      <3> QED BY <3>1, <3>2
    <2>7. CASE ReceiveDhGen(m) /\ auth' # Fresh
      <3>1. auth'.stage = "done" /\ result' = auth.key /\ auth.key # 0
        BY <2>7 DEF ReceiveDhGen, TypeInv, TypeOK
      <3> QED BY <3>1 DEF ProgressInv, Stopped
    <2>8. CASE m.quality = "truncated" /\ UNCHANGED <<auth, result>>
      BY <2>1, <2>3, <2>8
    <2> QED BY <1>6, <2>2, <2>4, <2>5, <2>6, <2>7, <2>8 DEF Receive, ReceiveParsed
  <1>7. ASSUME NEW m \in toClient, ReceiveGarbled(m)
        PROVE  ProgressInv'
    BY <1>5, <1>7 DEF ReceiveGarbled
  <1>8. CASE ReceiveUnasked
    BY <1>5, <1>8 DEF ReceiveUnasked
  <1>9. CASE ReadyViolated
    <2>1. CASE lock = "held"
      <3>1. /\ auth' = Sent(FALSE) /\ ~auth.sent /\ auth.stage # "done"
            /\ WillAsk' /\ Message.nonce \in lost'
        BY <1>9, <2>1 DEF ReadyViolated, Asks, WillAsk, TypeInv, TypeOK
      <3>2. CASE auth.stage = "pq"
        <4>1. auth'.stage = "pq" /\ auth'.nonce = Message.nonce /\ auth'.sent
          BY <3>1, <3>2 DEF Sent, TypeInv, TypeOK
        <4> QED BY <3>1, <4>1 DEF ProgressInv
      <3>3. CASE auth.stage \in {"reqDh", "keyVerification"}
        <4>1. auth'.stage = auth.stage /\ ~auth'.sent
          BY <3>1, <3>3 DEF Sent, TypeInv, TypeOK
        <4> QED BY <3>1, <3>3, <4>1 DEF ProgressInv
      <3> QED BY <3>1, <3>2, <3>3 DEF TypeInv, TypeOK
    <2>2. CASE lock # "held"
      BY <1>5, <1>9, <2>2 DEF ReadyViolated
    <2> QED BY <2>1, <2>2
  <1>10. ASSUME UNCHANGED <<auth, result, link, toServer, toClient, lost, useless>>
         PROVE  ProgressInv'
    BY <1>10 DEF ProgressInv, Awaited, WillAsk, Stopped
  <1>11. CASE LockExpires
    BY <1>10, <1>11 DEF LockExpires
  <1>12. CASE UNCHANGED vars
    BY <1>10, <1>12 DEF vars
  <1> QED BY <1>1, <1>2, <1>3, <1>4, <1>6, <1>7, <1>8, <1>9, <1>11, <1>12 DEF Next, Receives

\* An exchange comes to rest on an open connection only when a message of it
\* was lost with a connection or an answer to it changed nothing; in the last
\* stage only an answer that cannot be read does that.
THEOREM StrandedOnlyByLossAlways == Spec => []StrandedOnlyByLoss
  <1>1. Init => TypeInv /\ ProgressInv
    BY DEF Init, TypeInv, TypeOK, Fresh, ProgressInv, WillAsk
  <1>2. TypeInv /\ ProgressInv /\ [Next]_vars => (TypeInv /\ ProgressInv)'
    BY TypeInvIsInductive, ProgressInvIsInductive
  <1>3. TypeInv /\ ProgressInv => StrandedOnlyByLoss
    <2> SUFFICES ASSUME TypeInv, ProgressInv, Quiet, link.conn = "open", ~Stopped
                 PROVE  IF auth.stage = "keyVerification" THEN auth.nonce \in useless
                        ELSE auth.sent /\ auth.nonce \in lost \cup useless
      BY DEF StrandedOnlyByLoss
    <2>1. ~WillAsk /\ ~Awaited
      BY DEF Quiet, WillAsk, Awaited
    <2> QED BY <2>1 DEF ProgressInv, TypeInv, TypeOK
  <1> QED BY <1>1, <1>2, <1>3, PTL DEF Spec
=============================================================================
