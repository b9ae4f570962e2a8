------------------------ MODULE TimeSyncMessageService ------------------------
(***************************************************************************)
(* gp/proto/TimeSyncMessageService: asks for future salts, one request at  *)
(* a time, until it has the samples it wants.  Its transaction has no      *)
(* failed closure and it ignores protoTransactionsMayHaveFailed.           *)
(***************************************************************************)
EXTENDS ProtoState

TimeSyncOffers(p) == p.timeSync.present /\ p.timeSync.mid = None

\* the prepared closure
BindTimeSync(p, offered) ==
    IF offered
    THEN [p EXCEPT !.timeSync.mid = [b |-> p.batch, m |-> "futureSalts"]]
    ELSE p

\* protoAllTransactionsMayHaveFailed and protoDidChangeSession
TimeSyncRestart(p) ==
    IF p.timeSync.present
    THEN RequestTransactions([p EXCEPT !.timeSync.mid = None])
    ELSE p

TimeSyncDeliveryFailed(p, mids) ==
    IF p.timeSync.present /\ p.timeSync.mid \in mids
    THEN RequestTransactions([p EXCEPT !.timeSync.mid = None])
    ELSE p

TimeSyncMatches(p, body) ==
    body.k = "futureSalts" /\ p.timeSync.present /\ p.timeSync.mid = body.mid

\* protoDidReceiveMessage up to the test of the number of samples: the first
\* answer that took more than a second raises the number wanted
TakeSample(p, body) ==
    [p EXCEPT !.timeSync = [@ EXCEPT !.mid = None, !.taken = @ + 1,
                                     !.required = IF @ = 0 /\ body.slow THEN SlowSamples ELSE @]]

EnoughSamples(p) == p.timeSync.taken >= p.timeSync.required
=============================================================================
