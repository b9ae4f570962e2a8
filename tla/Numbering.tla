------------------------------ MODULE Numbering ------------------------------
(***************************************************************************)
(* The numbers a Proto puts on its messages: gp/proto/Session gives each   *)
(* new message an id from the clock of gp/proto/Context and a sequence     *)
(* number, gp/proto/AuthKeyInfo the salt of the present, and the time sync *)
(* corrects the clock and brings salts.  One batch at a time is numbered   *)
(* on Proto's queue, while the clock goes on, or is set, between any two   *)
(* readings.  Connections and answers are in ProtoSystem.                  *)
(***************************************************************************)
EXTENDS Integers, Sequences

CONSTANTS Requests,    \* the requests of the client
          Grain,       \* message ids in a tick of the clock
          Delay,       \* ticks a server's answer takes at most
          Window,      \* ticks a salt of the server is good for
          Grace,       \* ticks the salt of a bad_server_salt is used for
          Given,       \* salts in the first answer to get_future_salts
          Skews,       \* by how many ticks the device's clock is set
          MaxTime, MaxBatches, MaxAnswers,
          MaxFaults    \* settings of the clock, failures and rejects together

ASSUME NumberingAssumption ==
    /\ Grain \in Nat /\ Grain >= 4 /\ Delay \in Nat
    /\ Window \in Nat \ {0} /\ Grace \in Nat \ {0} /\ Given \in Nat \ {0}
    /\ Skews \subseteq Int
    /\ Requests \cap {"salts", "service", "container", "timeFix"} = {}

\* what a batch may hold: requests, the request for salts, and the messages
\* that want no answer, pings, pongs and acks
Items == Requests \cup {"salts", "service"}

VARIABLES
    time,        \* the server's time, in ticks
    off,         \* by how much the client's reading of it is off
    last,        \* lastClientMessageId
    seqNo,       \* Session::seqNo
    request,     \* what a request's RequestContext says: "kept" has an id that
                 \* has not been sent, and is offered again with it
    sync,        \* the TimeSyncMessageService: "asked" is bound to an id
    heard,       \* ... and the salts it has collected
    salts,       \* the saltSet of the AuthKeyInfo
    fixing,      \* ProtoStateAwaitingTimeFixAndSalts
    fixPing,     \* timeFixContext is set
    asked,       \* the time when the last request for salts was sent ...
    pinged,      \* ... and the last ping of a time fix
    lock,        \* resetSessionInfoLock and the clock
    batch,       \* the batch being numbered
    batches, answers, faults,   \* how many there have been
    sent,        \* (history) the messages sent in this session
    tainted,     \* (history) a violation was ignored in this session
    given,       \* (history) the salts received since they were last replaced
    turnedBack   \* (history) the reading has gone back since then, or was set
                 \* behind the answer that brought salts

clockVars == <<time, off>>
sentVars == <<asked, pinged>>
sessionVars == <<last, seqNo, sent, tainted>>
saltVars == <<salts, given>>
syncVars == <<sync, heard, fixing, fixPing>>
countVars == <<batches, answers, faults>>
vars == <<clockVars, sentVars, sessionVars, saltVars, syncVars, countVars, turnedBack,
          request, lock, batch>>

Contexts == [at : {"none", "new", "kept", "sent"}, id : Nat, seq : Nat]
NoContext == [at |-> "new", id |-> 0, seq |-> 0]
NoBatch == [at |-> "idle", todo |-> {}, made |-> {}, salted |-> FALSE, violated |-> FALSE]

Messages == [id : Nat, seq : Nat, of : Items \cup {"container", "timeFix"}, batch : Nat]

TypeOK ==
    /\ time \in Nat /\ time > Delay /\ off \in Int /\ time + off \in Nat
    /\ last \in Nat /\ seqNo \in Nat
    /\ request \in [Requests -> Contexts]
    /\ sync \in {"none", "wanted", "asked", "lost"}
    /\ fixing \in BOOLEAN /\ fixPing \in BOOLEAN
    /\ asked \in Nat /\ pinged \in Nat
    /\ lock \in {"clear", "held", "expired"}
    /\ batch \in [at : {"idle", "numbering"}, todo : SUBSET Items, made : SUBSET Messages,
                  salted : BOOLEAN, violated : BOOLEAN]
    /\ batches \in Nat /\ answers \in Nat /\ faults \in Nat
    /\ sent \subseteq Messages
    /\ tainted \in BOOLEAN /\ turnedBack \in BOOLEAN

Init ==
    /\ time = Delay + 1 /\ off = 0
    /\ last = 0 /\ seqNo = 0
    /\ request = [r \in Requests |-> [NoContext EXCEPT !.at = "none"]]
    /\ sync = "none" /\ heard = <<>>
    /\ salts = <<>> /\ fixing = FALSE /\ fixPing = FALSE
    /\ asked = 0 /\ pinged = 0
    /\ lock = "clear" /\ batch = NoBatch
    /\ batches = 0 /\ answers = 0 /\ faults = 0
    /\ sent = {} /\ tainted = FALSE /\ given = {} /\ turnedBack = FALSE

-----------------------------------------------------------------------------
(* The clock.                                                              *)

\* getGlobalTime, in message ids
Reading == (time + off) * Grain

\* the loop over messageId % 4
RoundUp(m) == 4 * ((m + 3) \div 4)

\* (slip: the id of the last message is given again)
NextIdSame(m) == RoundUp(m)

NextId(m) == IF m = last THEN RoundUp(m + 1) ELSE RoundUp(m)

\* the clock is read again for every new message
Violation == Reading < last

Tick ==
    /\ time < MaxTime
    /\ time' = time + 1
    /\ UNCHANGED <<off, sentVars, sessionVars, saltVars, syncVars, countVars, turnedBack,
                   request, lock, batch>>

\* the user or the network sets the device's clock
Skew ==
    /\ faults < MaxFaults
    /\ faults' = faults + 1
    /\ \E s \in Skews :
          /\ time + off + s \in Nat
          /\ off' = off + s
          /\ turnedBack' = (turnedBack \/ s < 0)
    /\ UNCHANGED <<time, sentVars, sessionVars, saltVars, syncVars, batches, answers,
                   request, lock, batch>>

LockExpires ==
    /\ lock = "held"
    /\ lock' = "expired"
    /\ UNCHANGED <<clockVars, sentVars, sessionVars, saltVars, syncVars, countVars, turnedBack,
                   request, batch>>

\* setGlobalTimeDifference, with the difference an answer of the server's shows
\* that took d ticks
SetGlobalTimeDifference(d) == off' = -d /\ UNCHANGED time

-----------------------------------------------------------------------------
(* Sessions.                                                               *)

\* generateClientSeqNo
SeqNoFor(content) == IF content THEN seqNo + 1 ELSE seqNo

\* (slip: the count stays)
AdvancedStill(content) == seqNo

Advanced(content) == IF content THEN seqNo + 2 ELSE seqNo

\* resetSessionInfo, when the contexts are `bound` and the service is `asking`;
\* a session whose ids ran backwards goes on if the lock is held
ResetSessionInfo(bound, asking, backwards) ==
    IF lock = "held"
    THEN /\ request' = bound /\ sync' = asking
         /\ tainted' = (tainted \/ backwards)
         /\ UNCHANGED <<lock, last, seqNo, sent>>
    ELSE /\ lock' = IF lock = "clear" THEN "held" ELSE "clear"
         /\ last' = 0 /\ seqNo' = 0
         /\ sent' = {} /\ tainted' = FALSE
         /\ request' = [r \in Requests |-> IF bound[r].at = "none" THEN bound[r] ELSE NoContext]
         /\ sync' = IF asking = "none" THEN "none" ELSE "wanted"

\* addRequest
AddRequest(r) ==
    /\ batch = NoBatch
    /\ request[r].at = "none"
    /\ request' = [request EXCEPT ![r] = NoContext]
    /\ UNCHANGED <<clockVars, sentVars, sessionVars, saltVars, syncVars, countVars, turnedBack,
                   lock, batch>>

\* protoTransactionsMayHaveFailed forgets what was sent,
\* protoAllTransactionsMayHaveFailed every context and the service's id
TransactionsMayHaveFailed ==
    /\ batch = NoBatch
    /\ faults < MaxFaults
    /\ \E states \in {{"sent"}, {"sent", "kept"}} :
          /\ request' = [r \in Requests |-> IF request[r].at \in states THEN NoContext ELSE request[r]]
          /\ sync' = IF "kept" \in states /\ sync # "none" THEN "wanted" ELSE sync
    /\ faults' = faults + 1
    /\ UNCHANGED <<clockVars, sentVars, sessionVars, saltVars, heard, fixing, fixPing,
                   batches, answers, turnedBack, lock, batch>>

-----------------------------------------------------------------------------
(* transportReadyForTransaction.                                           *)

\* authSaltForClientMessageId, with the actualClientMessageId: the first salt
\* that covers it
Covering(m) == {i \in DOMAIN salts : salts[i].since <= m /\ m <= salts[i].until}

First(is) == CHOOSE i \in is : \A j \in is : i <= j

\* (slip: the salt found goes too)
SaltsFromNext(m) ==
    IF Covering(m) = {} THEN <<>> ELSE SubSeq(salts, First(Covering(m)) + 1, Len(salts))

\* what the lookup leaves: it erases the salts it passes, all of them if none covers
SaltsFrom(m) ==
    IF Covering(m) = {} THEN <<>> ELSE SubSeq(salts, First(Covering(m)), Len(salts))

\* the requests without a context, or with an id that was not sent
Offered == {r \in Requests : request[r].at \in {"new", "kept"}}

BeginBatch ==
    /\ batch = NoBatch /\ ~fixing
    /\ batches < MaxBatches
    /\ \E service \in SUBSET {"service"} :
          batch' = [at |-> "numbering", made |-> {}, violated |-> FALSE,
                    todo |-> Offered \cup service \cup {x \in {"salts"} : sync = "wanted"},
                    salted |-> Covering(RoundUp(Reading)) # {}]
    /\ salts' = SaltsFrom(RoundUp(Reading))
    /\ batches' = batches + 1
    /\ UNCHANGED <<clockVars, sentVars, sessionVars, given, syncVars, answers, faults, turnedBack,
                   request, lock>>

Message(x, id, seq) == [id |-> id, seq |-> seq, of |-> x, batch |-> batches]

Content(x) == x \in Requests \cup {"salts"}

\* once an id has violated the order nothing more is prepared
Prepared(violated, m) == IF violated THEN batch.made ELSE batch.made \cup {m}

NumberKept(r) ==
    /\ r \in batch.todo \cap Requests /\ request[r].at = "kept"
    /\ batch' = [batch EXCEPT !.todo = @ \ {r},
                     !.made = Prepared(batch.violated, Message(r, request[r].id, request[r].seq))]
    /\ UNCHANGED <<clockVars, sentVars, sessionVars, saltVars, syncVars, countVars, turnedBack,
                   request, lock>>

NumberNew(x) ==
    /\ x \in batch.todo
    /\ x \in Requests => request[x].at # "kept"
    /\ LET violated == batch.violated \/ Violation
       IN batch' = [batch EXCEPT !.todo = @ \ {x}, !.violated = violated,
                        !.made = Prepared(violated, Message(x, NextId(Reading), SeqNoFor(Content(x))))]
    /\ last' = NextId(Reading)
    /\ seqNo' = Advanced(Content(x))
    /\ UNCHANGED <<clockVars, sentVars, sent, tainted, saltVars, syncVars, countVars, turnedBack,
                   request, lock>>

\* the prepared closures: the requests and the service bind to their ids ...
Bound(at) ==
    [r \in Requests |->
        IF \E m \in batch.made : m.of = r
        THEN LET m == CHOOSE m \in batch.made : m.of = r
             IN [at |-> at, id |-> m.id, seq |-> m.seq]
        ELSE request[r]]

\* ... and keep them if nothing is sent
Asking(at) == IF \E m \in batch.made : m.of = "salts" THEN at ELSE sync

\* Everything is numbered.
Numbered == batch.at = "numbering" /\ batch.todo = {}

Ends == batch' = NoBatch

DiscardViolated ==
    /\ Numbered /\ batch.violated
    /\ ResetSessionInfo(Bound("kept"), Asking("lost"), TRUE)
    /\ Ends
    /\ UNCHANGED <<clockVars, sentVars, saltVars, heard, fixing, fixPing, countVars, turnedBack>>

\* initiateTimeSync
DiscardSaltless ==
    /\ Numbered /\ ~batch.violated /\ ~batch.salted
    /\ request' = Bound("kept")
    /\ sync' = IF sync = "none" THEN "wanted" ELSE Asking("lost")
    /\ fixing' = TRUE
    /\ Ends
    /\ UNCHANGED <<clockVars, sentVars, sessionVars, saltVars, heard, fixPing, countVars, turnedBack,
                   lock>>

\* dataForEncryptedContainer: its id is made last, and nobody looks whether it
\* violates the order
Contain(sends) ==
    LET container == Message("container", NextId(Reading), seqNo)
    IN /\ sent' = IF sends THEN sent \cup batch.made \cup {container} ELSE sent
       /\ last' = NextId(Reading)
       /\ tainted' = (tainted \/ Violation)
       /\ UNCHANGED seqNo

\* dataForEncryptedMessage
Single(sends) ==
    /\ sent' = IF sends THEN sent \cup batch.made ELSE sent
    /\ UNCHANGED <<last, seqNo, tainted>>

\* The transport has a connection and sends, or has none and the batch fails:
\* the requests keep their ids, the service thinks that it has asked.
Complete ==
    /\ Numbered /\ ~batch.violated /\ batch.salted
    /\ \E sends \in BOOLEAN :
          /\ IF \E m, n \in batch.made : m # n THEN Contain(sends) ELSE Single(sends)
          /\ request' = Bound(IF sends THEN "sent" ELSE "kept")
          /\ sync' = Asking(IF sends THEN "asked" ELSE "lost")
          /\ asked' = IF sends /\ (\E m \in batch.made : m.of = "salts") THEN time ELSE asked
    /\ Ends
    /\ UNCHANGED <<clockVars, pinged, saltVars, heard, fixing, fixPing, countVars, turnedBack,
                   lock>>

\* the ping with salt 0; here, too, a violation is not looked at
SendTimeFix ==
    /\ batch = NoBatch /\ fixing /\ ~fixPing
    /\ batches < MaxBatches
    /\ batches' = batches + 1
    /\ \E sends \in BOOLEAN :
          /\ fixPing' = sends
          /\ pinged' = IF sends THEN time ELSE pinged
          /\ sent' = IF sends THEN sent \cup {[Message("timeFix", NextId(Reading), seqNo)
                                                  EXCEPT !.batch = batches + 1]}
                              ELSE sent
    /\ last' = NextId(Reading)
    /\ tainted' = (tainted \/ Violation)
    /\ UNCHANGED <<clockVars, asked, seqNo, saltVars, sync, heard, fixing, answers, faults,
                   turnedBack, request, lock, batch>>

-----------------------------------------------------------------------------
(* Answers of the server, d ticks old and no older than what they answer.  *)

InIds(t) == t * Grain

\* an id of the server's own, which is 1 modulo 4 and no salt's first
ServerId(t) == InIds(t) - 3

\* the salts the server lists, from the present one on
Windows(t, n) ==
    LET k == t \div Window
    IN [i \in 1..n |-> [since |-> InIds((k + i - 1) * Window), until |-> InIds((k + i) * Window)]]

SaltsIn(list) == {list[i] : i \in DOMAIN list}

\* bad_server_salt for the ping: the clock is set, its salt replaces all others
FixTime ==
    /\ batch = NoBatch /\ fixPing
    /\ answers < MaxAnswers
    /\ answers' = answers + 1
    /\ \E d \in 0..Delay :
          /\ d <= time - pinged
          /\ SetGlobalTimeDifference(d)
          /\ salts' = <<[since |-> ServerId(time - d), until |-> ServerId(time - d + Grace)]>>
    /\ given' = SaltsIn(salts') /\ turnedBack' = FALSE
    /\ fixing' = FALSE /\ fixPing' = FALSE
    /\ ResetSessionInfo(request, sync, FALSE)
    /\ UNCHANGED <<sentVars, heard, batches, faults, batch>>

\* mergeSaltset: what is still good stays, what is new comes after it
Merge(old, new, now) ==
    LET all == old \o new
        merged[i \in 0..Len(all)] ==
            IF i = 0 THEN <<>>
            ELSE IF \/ all[i].until <= now
                    \/ i > Len(old) /\ \E s \in SaltsIn(merged[i - 1]) : s.since = all[i].since
                 THEN merged[i - 1]
                 ELSE Append(merged[i - 1], all[i])
    IN merged[Len(all)]

\* future_salts: the service may want more samples, and asks for one salt then.
\* With more than one the clock is set by their mean, the greatest and the least
\* left out: by e, as if this answer were e ticks old.
FutureSalts ==
    /\ batch = NoBatch /\ sync = "asked"
    /\ answers < MaxAnswers
    /\ answers' = answers + 1
    /\ \E d \in 0..Delay, e \in 0..Delay, enough \in BOOLEAN :
          LET list == heard \o Windows(time - d, IF heard = <<>> THEN Given ELSE 1)
          IN /\ d <= time - asked
             /\ heard = <<>> => e = d
             /\ IF enough
                THEN /\ SetGlobalTimeDifference(e)
                     /\ salts' = Merge(salts, list, InIds(time - e))
                     /\ given' = given \cup SaltsIn(list)
                     /\ turnedBack' = (turnedBack \/ off > -e \/ e > d)
                     /\ sync' = "none" /\ heard' = <<>> /\ fixing' = FALSE
                ELSE /\ sync' = "wanted" /\ heard' = list
                     /\ UNCHANGED <<clockVars, saltVars, turnedBack, fixing>>
    /\ UNCHANGED <<sentVars, sessionVars, fixPing, batches, faults, request, lock, batch>>

\* bad_msg_notification, for what the clock or the count was wrong, or for
\* something else
Reject ==
    /\ batch = NoBatch /\ sent # {}
    /\ faults < MaxFaults
    /\ faults' = faults + 1
    /\ \E resync \in BOOLEAN :
          /\ fixing' = (fixing \/ resync)
          /\ ResetSessionInfo(request, IF resync /\ sync = "none" THEN "wanted" ELSE sync, FALSE)
    /\ UNCHANGED <<clockVars, sentVars, saltVars, heard, fixPing, batches, answers, turnedBack,
                   batch>>

-----------------------------------------------------------------------------
Number == (\E r \in Requests : NumberKept(r)) \/ (\E x \in Items : NumberNew(x))
Discard == DiscardViolated \/ DiscardSaltless

Next ==
    \/ Tick \/ Skew \/ LockExpires
    \/ (\E r \in Requests : AddRequest(r)) \/ TransactionsMayHaveFailed
    \/ BeginBatch \/ Number \/ Discard \/ Complete
    \/ SendTimeFix \/ FixTime \/ FutureSalts \/ Reject

Spec == Init /\ [][Next]_vars

-----------------------------------------------------------------------------
(* Properties.                                                             *)

\* No id names two messages of a session, requests that keep the id of a batch
\* that was not sent included, however often the clock is set: as long as no
\* violation was ignored, because the session was reset less than a second ago
\* or because the id was a container's or the time fix's.
IdsAreDistinct ==
    ~tainted => \A m, n \in sent : m.id = n.id => m = n

\* In such a session the numbers agree with the ids: those that come later in
\* the order of ids do so in the order of sequence numbers, a content message's
\* number is its own, and a container comes after what it holds.
SeqNosFollowIds ==
    ~tainted =>
        \A m, n \in sent :
            /\ m.id < n.id => m.seq <= n.seq
            /\ m.seq = n.seq /\ Content(m.of) => m = n
            /\ m.of = "container" /\ n.batch = m.batch => n.id <= m.id

\* The const lookup that erases what it passes, and the merge, lose no salt that
\* is still good: not until the reading of the clock goes back.
SaltsAreKept ==
    ~turnedBack => \A s \in given : s.until > RoundUp(Reading) => s \in SaltsIn(salts)
=============================================================================
