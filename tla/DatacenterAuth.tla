----------------------------- MODULE DatacenterAuth -----------------------------
(***************************************************************************)
(* gp/proto/DatacenterAuthMessageService and DatacenterAuthAction: the     *)
(* exchange of three messages that makes an authorization key, over a      *)
(* Proto in unauthorized mode.  Nonces and keys are numbers drawn one      *)
(* after the other; a hash or a ciphertext is the numbers it was made of.  *)
(* The queues of Proto and of the transport are reduced to what the        *)
(* service can see of them (ProtoSystem has them in full).                 *)
(***************************************************************************)
EXTENDS Naturals, FiniteSets

CONSTANTS
    MaxCloses,   \* connections that close
    MaxFaults,   \* answers, packets and clocks that are not what they should be
    Faults       \* what may be wrong with them

ASSUME AuthAssumption ==
    /\ MaxCloses \in Nat /\ MaxFaults \in Nat
    /\ Faults \subseteq {"rejected", "unusable", "garbled", "truncated", "unasked", "clock"}

VARIABLES
    auth,      \* the service
    result,    \* the key the action's delegate was told of, 0 before
    link,      \* the transport in use and what is queued for it
    lock,      \* resetSessionInfoLock
    toServer,  \* messages written and not answered yet
    toClient,  \* answers on their way
    server,    \* the keys the server has agreed to
    drawn,     \* the last random number
    lost,      \* history: nonces of the exchanges that lost a message to the network
    useless,   \* history: ... an answer of which arrived and changed nothing
    spent      \* how many connections have closed and faults happened

vars == <<auth, result, link, lock, toServer, toClient, server, drawn, lost, useless, spent>>

\* the service after reset, and when it is new
Fresh == [stage |-> "pq", sent |-> FALSE, nonce |-> 0, serverNonce |-> 0, newNonce |-> 0, key |-> 0]

Init ==
    /\ auth = Fresh
    /\ result = 0
    /\ link = [conn |-> "none", asked |-> TRUE, ready |-> FALSE, valid |-> FALSE]
    /\ lock = "clear"
    /\ toServer = {} /\ toClient = {} /\ server = {}
    /\ drawn = 0
    /\ lost = {} /\ useless = {}
    /\ spent = [close |-> 0, fault |-> 0]

\* the action has completed and stopped its Proto
Stopped == result # 0

Spend(event, limit) ==
    /\ spent[event] < limit
    /\ spent' = [spent EXCEPT ![event] = @ + 1]

-----------------------------------------------------------------------------
(* The transport, as the service sees it.                                  *)

HasConnection == link.conn \in {"starting", "open"}

\* requestTransportTransactions comes round to the transport: without a
\* connection it makes one, else it asks Proto for what there is to send
Flush ==
    /\ link.asked /\ ~link.valid /\ ~Stopped
    /\ link' = IF HasConnection THEN [link EXCEPT !.asked = FALSE, !.ready = TRUE]
               ELSE [link EXCEPT !.asked = FALSE, !.conn = "starting"]
    /\ UNCHANGED <<auth, result, lock, toServer, toClient, server, drawn, lost, useless, spent>>

\* the transport asks for a transaction, and so does the service that is told
Opened ==
    /\ link.conn = "starting" /\ ~Stopped
    /\ link' = [link EXCEPT !.conn = "open", !.ready = TRUE, !.asked = TRUE]
    /\ UNCHANGED <<auth, result, lock, toServer, toClient, server, drawn, lost, useless, spent>>

\* what is on the connection may be lost; the service ignores the notice
Closed ==
    /\ HasConnection /\ ~Stopped
    /\ \E conn \in {"starting", "backoff"} : link' = [link EXCEPT !.conn = conn]
    /\ toServer' \in SUBSET toServer /\ toClient' \in SUBSET toClient
    /\ lost' = lost \cup {m.nonce : m \in (toServer \ toServer') \cup (toClient \ toClient')}
    /\ Spend("close", MaxCloses)
    /\ UNCHANGED <<auth, result, lock, server, drawn, useless>>

BackoffTimer ==
    /\ link.conn = "backoff" /\ ~Stopped
    /\ link' = [link EXCEPT !.conn = "starting"]
    /\ UNCHANGED <<auth, result, lock, toServer, toClient, server, drawn, lost, useless, spent>>

\* connectionIsValid invalidates the timer, whichever connection it was for
Validated ==
    /\ link.valid /\ ~Stopped
    /\ link' = [link EXCEPT !.valid = FALSE, !.conn = IF @ = "backoff" THEN "none" ELSE @]
    /\ UNCHANGED <<auth, result, lock, toServer, toClient, server, drawn, lost, useless, spent>>

-----------------------------------------------------------------------------
(* The service sends.                                                      *)

Message ==
    CASE auth.stage = "pq"    -> [k |-> "reqPq", nonce |-> IF auth.nonce = 0 THEN drawn + 1 ELSE auth.nonce]
      [] auth.stage = "reqDh" -> [k |-> "reqDh", nonce |-> auth.nonce,
                                  serverNonce |-> auth.serverNonce, newNonce |-> auth.newNonce]
      [] OTHER                -> [k |-> "setDh", nonce |-> auth.nonce,
                                  serverNonce |-> auth.serverNonce, key |-> auth.key]

\* (slip: a message that could not be written counts as sent)
SentAfterAll(written) == [auth EXCEPT !.sent = TRUE, !.nonce = Message.nonce]

\* The first message counts as sent when it is prepared, the second when it
\* is written, the third never: its callback compares with the stage before.
Sent(written) ==
    CASE auth.stage = "pq"    -> [auth EXCEPT !.sent = TRUE, !.nonce = Message.nonce]
      [] auth.stage = "reqDh" -> [auth EXCEPT !.sent = written]
      [] OTHER                -> auth

\* Proto::transportReadyForTransaction
Ready ==
    /\ link.ready /\ ~Stopped
    /\ link' = [link EXCEPT !.ready = FALSE]
    /\ IF auth.sent \/ auth.stage = "done"
       THEN UNCHANGED <<auth, toServer, drawn, lost>>
       ELSE /\ auth' = Sent(HasConnection)
            /\ toServer' = IF HasConnection THEN toServer \cup {Message} ELSE toServer
            /\ lost' = IF HasConnection THEN lost ELSE lost \cup {Message.nonce}
            /\ drawn' = IF Message.nonce > drawn THEN Message.nonce ELSE drawn
    /\ UNCHANGED <<result, lock, toClient, server, useless, spent>>

-----------------------------------------------------------------------------
(* The server.                                                             *)

\* what it answers: quality "good", or one of the Faults
Reply(m, quality) ==
    CASE m.k = "reqPq" -> [k |-> "resPq", nonce |-> m.nonce, serverNonce |-> drawn + 1, quality |-> quality]
      [] m.k = "reqDh" -> [k |-> "dhParams", nonce |-> m.nonce, serverNonce |-> m.serverNonce,
                           newNonce |-> m.newNonce, quality |-> quality]
      [] OTHER         -> [k |-> "dhGen", nonce |-> m.nonce, serverNonce |-> m.serverNonce,
                           key |-> m.key, quality |-> quality]

Answer(m) ==
    /\ link.conn = "open"
    /\ toServer' = toServer \ {m}
    /\ \E quality \in {"good"} \cup (Faults \ {"unasked", "clock"}) :
          /\ toClient' = toClient \cup {Reply(m, quality)}
          /\ server' = IF m.k = "setDh" /\ quality \in {"good", "garbled", "truncated"} THEN server \cup {m.key}
                       ELSE server
          /\ IF quality = "good" THEN UNCHANGED spent ELSE Spend("fault", MaxFaults)
    /\ drawn' = IF m.k = "reqPq" THEN drawn + 1 ELSE drawn
    /\ UNCHANGED <<auth, result, link, lock, lost, useless>>

-----------------------------------------------------------------------------
(* The service receives.                                                   *)

Asks(l) == [l EXCEPT !.asked = TRUE]

\* (slip: currentStateTransactionId is not cleared)
ReceiveResPqSent(m) ==
    /\ m.k = "resPq" /\ auth.stage = "pq" /\ m.nonce = auth.nonce
    /\ auth' = CASE m.quality = "good" ->
                      [auth EXCEPT !.stage = "reqDh", !.serverNonce = m.serverNonce, !.newNonce = drawn + 1]
                 [] m.quality = "rejected" -> Fresh
                 [] OTHER -> [auth EXCEPT !.serverNonce = m.serverNonce, !.newNonce = drawn + 1]
    /\ drawn' = drawn + 1
    /\ UNCHANGED result

\* protoDidReceiveMessage of ResPqMessage.  "rejected": the key's fingerprint
\* is unknown or pq has no factors; "unusable": the encryption fails.
ReceiveResPq(m) ==
    /\ m.k = "resPq" /\ auth.stage = "pq" /\ m.nonce = auth.nonce
    /\ auth' = CASE m.quality = "good" ->
                      [auth EXCEPT !.stage = "reqDh", !.sent = FALSE,
                                   !.serverNonce = m.serverNonce, !.newNonce = drawn + 1]
                 [] m.quality = "rejected" -> Fresh
                 [] OTHER -> [auth EXCEPT !.serverNonce = m.serverNonce, !.newNonce = drawn + 1]
    /\ drawn' = drawn + 1
    /\ UNCHANGED result

\* The key that the server's nonce and the new nonce make decrypts the answer,
\* and its hash agrees.
Decrypts(m) == m.quality = "good" /\ m.newNonce = auth.newNonce

\* ... of ServerDhParamsMessage.  "rejected": a failure, or an answer that
\* does not decrypt to what was asked; "unusable": it does not decrypt.
ReceiveDhParams(m) ==
    /\ m.k = "dhParams" /\ auth.stage = "reqDh"
    /\ m.nonce = auth.nonce /\ m.serverNonce = auth.serverNonce
    /\ auth' = CASE m.quality = "unusable" -> auth
                 [] Decrypts(m) ->
                      [auth EXCEPT !.stage = "keyVerification", !.sent = FALSE, !.key = drawn + 1]
                 [] OTHER -> Fresh
    /\ drawn' = drawn + 1
    /\ UNCHANGED result

\* (slip: the hash is not compared)
ReceiveDhGenTrusting(m) ==
    /\ m.k = "dhGen" /\ auth.stage = "keyVerification"
    /\ m.nonce = auth.nonce /\ m.serverNonce = auth.serverNonce
    /\ auth' = [auth EXCEPT !.stage = "done", !.sent = FALSE]
    /\ result' = auth.key
    /\ UNCHANGED drawn

\* ... of ClientDhParamsResponseMessage: with the hash of this very key the
\* action is told and stops its Proto, with anything else all begins again.
ReceiveDhGen(m) ==
    /\ m.k = "dhGen" /\ auth.stage = "keyVerification"
    /\ m.nonce = auth.nonce /\ m.serverNonce = auth.serverNonce
    /\ IF m.quality = "good" /\ m.key = auth.key
       THEN /\ auth' = [auth EXCEPT !.stage = "done", !.sent = FALSE]
            /\ result' = auth.key
       ELSE auth' = Fresh /\ UNCHANGED result
    /\ UNCHANGED drawn

ReceiveParsed(m) ==
    \/ ReceiveResPq(m) \/ ReceiveDhParams(m) \/ ReceiveDhGen(m)

\* any other message, or one of another exchange
Ignores(m) ==
    \/ auth.nonce # m.nonce
    \/ auth.stage # "pq" /\ auth.serverNonce # m.serverNonce
    \/ <<auth.stage, m.k>> \notin {<<"pq", "resPq">>, <<"reqDh", "dhParams">>, <<"keyVerification", "dhGen">>}

\* A packet that can be decoded: the connection is valid and the message is
\* handled, unless the packet ends early, which leaves no message; a change of
\* stage and a reset both ask for a transaction.
Receive(m) ==
    /\ ~Stopped /\ m.quality # "garbled"
    /\ toClient' = toClient \ {m}
    /\ \/ ReceiveParsed(m) /\ m.quality # "truncated"
       \/ (Ignores(m) \/ m.quality = "truncated") /\ UNCHANGED <<auth, result, drawn>>
    /\ link' = IF auth'.stage # auth.stage \/ auth' = Fresh THEN Asks([link EXCEPT !.valid = TRUE])
               ELSE [link EXCEPT !.valid = TRUE]
    /\ useless' = IF m.quality \in {"unusable", "truncated"} THEN useless \cup {m.nonce} ELSE useless
    /\ UNCHANGED <<lock, toServer, server, lost, spent>>

\* A packet that cannot: Proto::resetSessionInfo, unless its lock is held,
\* changes the session, which resets the service, and the transport.
ResetSession(arrived) ==
    /\ IF lock = "held"
       THEN /\ toClient' = toClient \ arrived
            /\ useless' = useless \cup {m.nonce : m \in arrived}
            /\ UNCHANGED <<auth, link, lock, toServer>>
       ELSE /\ auth' = Fresh
            /\ link' = [conn |-> "none", asked |-> TRUE, ready |-> FALSE, valid |-> FALSE]
            /\ lock' = IF lock = "clear" THEN "held" ELSE "clear"
            /\ toServer' = {} /\ toClient' = {}
            /\ UNCHANGED useless
    /\ UNCHANGED <<result, server, drawn, lost>>

ReceiveGarbled(m) ==
    /\ ~Stopped /\ m.quality = "garbled"
    /\ ResetSession({m}) /\ UNCHANGED spent

\* a packet of that kind that answers nothing
ReceiveUnasked ==
    /\ ~Stopped /\ link.conn = "open" /\ "unasked" \in Faults
    /\ ResetSession({}) /\ Spend("fault", MaxFaults)

\* transportReadyForTransaction with a clock that went back: the message is
\* prepared and thrown away, and the session is reset if the lock allows it.
ReadyViolated ==
    /\ link.ready /\ ~Stopped /\ ~auth.sent /\ auth.stage # "done" /\ "clock" \in Faults
    /\ IF lock = "held"
       THEN /\ auth' = Sent(FALSE)
            /\ link' = Asks([link EXCEPT !.ready = FALSE])
            /\ lost' = lost \cup {Message.nonce}
            /\ drawn' = IF Message.nonce > drawn THEN Message.nonce ELSE drawn
            /\ UNCHANGED <<result, lock, toServer, toClient, server, useless>>
       ELSE ResetSession({})
    /\ Spend("fault", MaxFaults)

LockExpires ==
    /\ lock = "held" /\ ~Stopped
    /\ lock' = "expired"
    /\ UNCHANGED <<auth, result, link, toServer, toClient, server, drawn, lost, useless, spent>>

-----------------------------------------------------------------------------
LinkStep == Flush \/ Opened \/ BackoffTimer \/ Validated

Receives == \E m \in toClient : Receive(m) \/ ReceiveGarbled(m)

Next ==
    \/ LinkStep \/ Closed \/ Ready
    \/ \E m \in toServer : Answer(m)
    \/ Receives \/ ReceiveUnasked \/ ReadyViolated
    \/ LockExpires

Spec == Init /\ [][Next]_vars

\* The threads run, the network connects and the server answers.
FairSpec ==
    /\ Spec
    /\ WF_vars(LinkStep) /\ WF_vars(Ready) /\ WF_vars(Receives)
    /\ WF_vars(\E m \in toServer : Answer(m))

-----------------------------------------------------------------------------
(* Properties.                                                             *)

\* The fields of the service keep to their types, and a stage has the numbers
\* that its handlers dereference without a test.
TypeOK ==
    /\ auth \in [stage : {"pq", "reqDh", "keyVerification", "done"}, sent : BOOLEAN,
                 nonce : Nat, serverNonce : Nat, newNonce : Nat, key : Nat]
    /\ auth.stage # "pq" => auth.nonce # 0 /\ auth.serverNonce # 0 /\ auth.newNonce # 0
    /\ auth.stage \in {"keyVerification", "done"} => auth.key # 0
    /\ link \in [conn : {"none", "starting", "open", "backoff"},
                 asked : BOOLEAN, ready : BOOLEAN, valid : BOOLEAN]
    /\ lock \in {"clear", "held", "expired"}
    /\ result \in Nat /\ drawn \in Nat

\* The client believes in a key only when the server has agreed to that very
\* key, whatever answers of abandoned exchanges arrive in between.
KeyIsShared == result # 0 => result \in server

\* nothing is queued, in transmission or about to be sent
Quiet == ~link.asked /\ ~link.ready /\ toServer = {} /\ toClient = {}

\* With the connection up and nothing under way the exchange waits for ever.
\* That happens only when a message of this exchange was lost or its answer
\* changed nothing; in the last stage a lost message does not do it, only an
\* answer that cannot be read.
StrandedOnlyByLoss ==
    Quiet /\ link.conn = "open" /\ ~Stopped =>
        IF auth.stage = "keyVerification" THEN auth.nonce \in useless
        ELSE auth.sent /\ auth.nonce \in lost \cup useless

\* When no connection closes, the clock does not go back and every answer can
\* be used, in the end there is a key, though the server may reject what it is
\* sent and packets that answer nothing may reset the exchange.
KeyIsMade == <>(result # 0 \/ spent.close > 0 \/ lost # {} \/ useless # {})

\* The last stage survives closed connections: its message is sent again on
\* every one until the exchange ends or begins anew, unless an answer came
\* that could not be used, or connectionIsValid came so late that it stopped
\* the timer that was to reconnect.
LastStageRecovers ==
    auth.stage = "keyVerification" ~>
        \/ auth.stage # "keyVerification"
        \/ auth.nonce \in useless
        \/ link.conn = "none"
=============================================================================
