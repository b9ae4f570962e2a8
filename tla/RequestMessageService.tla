------------------------ MODULE RequestMessageService ------------------------
(***************************************************************************)
(* gp/proto/RequestMessageService: the user's requests, each with the      *)
(* context of its last transmission.  A request without a context, or one  *)
(* whose transmission did not happen, is offered to the next transaction.  *)
(***************************************************************************)
EXTENDS ProtoState

\* drops the contexts of the requests in rs and asks to send them again
Forget(p, rs) ==
    RequestIf(rs # {}, [p EXCEPT !.context = [r \in Requests |-> IF r \in rs THEN None ELSE @[r]]])

Bound(p) == {r \in p.requests : p.context[r] # None}

\* (slip: the request stays in the list)
ReceiveResultKept(p, body) ==
    LET hit == {r \in Bound(p) : p.registered /\ p.context[r].mid = body.mid}
    IN [p EXCEPT !.answered = [r \in Requests |->
                                 IF r \in hit /\ body.k = "rpcResult" THEN @[r] + 1 ELSE @[r]]]

\* protoDidReceiveMessage: the request leaves the list before its callback.
\* An rpc_result whose payload is an internal object other than an error
\* ("rpcSilent") makes no callback at all.
ReceiveResult(p, body) ==
    LET hit == {r \in Bound(p) : p.registered /\ p.context[r].mid = body.mid}
    IN [p EXCEPT
          !.requests = @ \ hit,
          !.context = [r \in Requests |-> IF r \in hit THEN None ELSE @[r]],
          !.answered = [r \in Requests |->
                          IF r \in hit /\ body.k = "rpcResult" THEN @[r] + 1 ELSE @[r]]]

\* (slip: left empty, as TimeSyncMessageService leaves it)
RequestsMayHaveFailedIgnored(p, tx) == p

RequestsMayHaveFailed(p, tx) ==
    IF p.registered THEN Forget(p, {r \in Bound(p) : p.context[r].tx = tx}) ELSE p

AllRequestsMayHaveFailed(p) ==
    IF p.registered THEN Forget(p, Bound(p)) ELSE p

RequestDeliveryFailed(p, mids) ==
    IF p.registered THEN Forget(p, {r \in Bound(p) : p.context[r].mid \in mids}) ELSE p

RequestDeliveryConfirmed(p, mids) ==
    IF p.registered
    THEN [p EXCEPT !.context =
            [r \in Requests |-> IF r \in Bound(p) /\ @[r].mid \in mids
                                THEN [@[r] EXCEPT !.delivered = TRUE] ELSE @[r]]]
    ELSE p

RequestsSessionChanged(p) ==
    IF p.registered
    THEN RequestIf(p.requests # {}, [p EXCEPT !.context = [r \in Requests |-> None]])
    ELSE p

\* (slip: transactionId is not looked at)
OfferedAgain(p) ==
    {r \in p.requests : p.registered /\ (p.context[r] = None \/ ~p.context[r].delivered)}

\* protoMessageTransaction: the requests offered to a transaction
Offered(p) ==
    IF p.registered
    THEN {r \in p.requests :
            \/ p.context[r] = None
            \/ p.context[r].tx = 0 /\ ~p.context[r].delivered}
    ELSE {}

\* an offered request keeps the id it was prepared with before
IdFor(p, r) ==
    IF p.context[r] = None THEN [b |-> p.batch, m |-> r] ELSE p.context[r].mid

\* The transaction's closures: prepared gives the requests in rs their ids,
\* completed their transaction; after failed, or completed without ids, tx is 0.
BindRequests(p, rs, tx) ==
    [p EXCEPT !.context =
        [r \in Requests |-> IF r \in rs THEN [mid |-> IdFor(p, r), tx |-> tx, delivered |-> FALSE]
                            ELSE @[r]]]

\* (slip: no transaction is asked for)
AddRequestSilent(p, r) == [p EXCEPT !.requests = @ \cup {r}]

AddRequest(p, r) ==
    RequestTransactions([p EXCEPT !.requests = @ \cup {r}])

\* removeRequestByInternalId; the server is not told
RemoveRequest(p, r) ==
    [p EXCEPT !.requests = @ \ {r}, !.context[r] = None]
=============================================================================
