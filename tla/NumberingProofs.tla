--------------------------- MODULE NumberingProofs ---------------------------
(***************************************************************************)
(* Ids and sequence numbers are apart, for any clock, any number of        *)
(* requests and any faults.  As long as no violation is ignored the        *)
(* session's last id and count bound everything it has numbered, sent or   *)
(* kept, so that a new number is apart from all of them.                   *)
(* And the salts: each that is not good yet follows one that is good until *)
(* then, so that what the lookup passes is no longer good.                 *)
(***************************************************************************)
EXTENDS Numbering, WellFoundedInduction, SequenceTheorems, TLAPS

-----------------------------------------------------------------------------
(* Types and the clock.                                                    *)

LEMMA ReadingIsId ==
    ASSUME TypeOK
    PROVE  Reading \in Nat
BY NumberingAssumption DEF TypeOK, Reading

LEMMA RoundUpIsUp ==
    ASSUME NEW m \in Nat
    PROVE  RoundUp(m) \in Nat /\ RoundUp(m) >= m
BY DEF RoundUp

LEMMA NextIdIsNew ==
    ASSUME TypeOK
    PROVE  /\ NextId(Reading) \in Nat
           /\ ~Violation => NextId(Reading) > last
<1>1. Reading \in Nat /\ last \in Nat
  BY ReadingIsId DEF TypeOK
<1>2. RoundUp(Reading) \in Nat /\ RoundUp(Reading) >= Reading
  BY <1>1, RoundUpIsUp
<1>3. RoundUp(Reading + 1) \in Nat /\ RoundUp(Reading + 1) >= Reading + 1
  BY <1>1, RoundUpIsUp
<1> QED BY <1>1, <1>2, <1>3 DEF NextId, Violation

-----------------------------------------------------------------------------
(* The inductive invariant.                                                *)

Kept == {r \in Requests : request[r].at = "kept"}

\* the message a kept request will be sent as
KeptMessage(r) == [id |-> request[r].id, seq |-> request[r].seq, of |-> r]

\* what the session has given out lies behind its counters
Behind(m) ==
    /\ m.id <= last /\ m.seq <= seqNo
    /\ Content(m.of) => m.seq < seqNo

\* two messages have ids of their own, in the order of their numbers
Apart(m, n) ==
    /\ m.id # n.id
    /\ m.id < n.id => m.seq <= n.seq
    /\ n.id < m.id => n.seq <= m.seq
    /\ m.seq = n.seq => ~Content(m.of) /\ ~Content(n.of)

AllBehind ==
    /\ \A m \in sent \cup batch.made : Behind(m)
    /\ \A r \in Kept : Behind(KeptMessage(r))

AllApart ==
    /\ \A m, n \in sent : m = n \/ Apart(m, n)
    /\ \A m, n \in batch.made : m = n \/ Apart(m, n)
    /\ \A m \in sent, n \in batch.made : Apart(m, n)
    /\ \A m \in sent, r \in Kept : Apart(m, KeptMessage(r))
    /\ \A m \in batch.made, r \in Kept : m.of = r \/ Apart(m, KeptMessage(r))
    /\ \A q, r \in Kept : q = r \/ Apart(KeptMessage(q), KeptMessage(r))

\* Nothing has run backwards since the session began.
Orderly == ~tainted /\ ~batch.violated

BatchesInTurn ==
    /\ \A m \in sent : m.batch <= batches
    /\ batch.at = "numbering" => \A m \in sent : m.batch < batches
    /\ \A m \in batch.made : m.batch = batches /\ m.of # "container" /\ m.of \notin batch.todo
    /\ batch.at = "idle" => batch = NoBatch

SentInOrder ==
    /\ \A m, n \in sent : m = n \/ Apart(m, n)
    /\ \A m, n \in sent : m.of = "container" /\ n.batch = m.batch => n.id <= m.id

Ordered ==
    /\ Orderly => AllBehind /\ AllApart
    /\ ~tainted => SentInOrder

IInv == TypeOK /\ BatchesInTurn /\ Ordered

LEMMA InvariantImplies ==
    ASSUME IInv
    PROVE  IdsAreDistinct /\ SeqNosFollowIds
<1>1. SUFFICES ASSUME ~tainted
               PROVE  IdsAreDistinct /\ SeqNosFollowIds
  BY DEF IdsAreDistinct, SeqNosFollowIds
<1>2. SentInOrder
  BY <1>1 DEF IInv, Ordered
<1>3. IdsAreDistinct
  BY <1>2 DEF SentInOrder, Apart, IdsAreDistinct
<1>4. ASSUME NEW m \in sent, NEW n \in sent
      PROVE  /\ m.id < n.id => m.seq <= n.seq
             /\ m.seq = n.seq /\ Content(m.of) => m = n
             /\ m.of = "container" /\ n.batch = m.batch => n.id <= m.id
  <2>1. m.id \in Nat /\ n.id \in Nat
    BY DEF IInv, TypeOK, Messages
  <2>2. m = n \/ Apart(m, n)
    BY <1>2 DEF SentInOrder
  <2>3. m.id < n.id => m.seq <= n.seq
    BY <2>1, <2>2 DEF Apart
  <2>4. m.seq = n.seq /\ Content(m.of) => m = n
    BY <2>2, Zenon DEF Apart
  <2>5. m.of = "container" /\ n.batch = m.batch => n.id <= m.id
    BY <1>2 DEF SentInOrder
  <2> QED BY <2>3, <2>4, <2>5
<1> QED BY <1>3, <1>4 DEF SeqNosFollowIds

-----------------------------------------------------------------------------
(* Types.                                                                  *)

LEMMA BoundIsTyped ==
    ASSUME TypeOK, NEW at \in {"kept", "sent"}
    PROVE  Bound(at) \in [Requests -> Contexts]
<1> DEFINE bound(r) ==
        IF \E m \in batch.made : m.of = r
        THEN LET m == CHOOSE m \in batch.made : m.of = r
             IN [at |-> at, id |-> m.id, seq |-> m.seq]
        ELSE request[r]
<1>1. ASSUME NEW r \in Requests
      PROVE  bound(r) \in Contexts
  <2>1. CASE \E m \in batch.made : m.of = r
    <3> DEFINE m == CHOOSE m \in batch.made : m.of = r
    <3>1. m \in batch.made
      BY <2>1
    <3>2. m.id \in Nat /\ m.seq \in Nat
      BY <3>1 DEF TypeOK, Messages
    <3>3. bound(r) = [at |-> at, id |-> m.id, seq |-> m.seq]
      BY <2>1
    <3> HIDE DEF m, bound
    <3> QED BY <3>2, <3>3 DEF Contexts
  <2>2. CASE ~\E m \in batch.made : m.of = r
    <3>1. request[r] \in Contexts
      BY DEF TypeOK
    <3> QED BY <2>2, <3>1
  <2> QED BY <2>1, <2>2
<1>2. Bound(at) = [r \in Requests |-> bound(r)]
  BY DEF Bound
<1> HIDE DEF bound
<1> QED BY <1>1, <1>2

\* what resetSessionInfo leaves is typed if what it is given is
LEMMA ResetIsTyped ==
    ASSUME TypeOK,
           NEW bound \in [Requests -> Contexts],
           NEW asking \in {"none", "wanted", "asked", "lost"},
           NEW backwards \in BOOLEAN,
           ResetSessionInfo(bound, asking, backwards)
    PROVE  /\ request' \in [Requests -> Contexts]
           /\ sync' \in {"none", "wanted", "asked", "lost"}
           /\ lock' \in {"clear", "held", "expired"}
           /\ last' \in Nat /\ seqNo' \in Nat /\ sent' \subseteq Messages /\ tainted' \in BOOLEAN
<1>1. CASE lock = "held"
  BY <1>1 DEF ResetSessionInfo, TypeOK
<1>2. CASE lock # "held"
  <2>1. NoContext \in Contexts
    BY DEF NoContext, Contexts
  <2>2. \A r \in Requests : bound[r] \in Contexts
    OBVIOUS
  <2>3. request' \in [Requests -> Contexts]
    BY <1>2, <2>1, <2>2 DEF ResetSessionInfo
  <2>4. sync' \in {"none", "wanted", "asked", "lost"}
    BY <1>2 DEF ResetSessionInfo
  <2>5. lock' \in {"clear", "held", "expired"}
    BY <1>2 DEF ResetSessionInfo
  <2>6. last' = 0 /\ seqNo' = 0 /\ sent' = {} /\ tainted' = FALSE
    BY <1>2 DEF ResetSessionInfo
  <2> QED BY <2>3, <2>4, <2>5, <2>6
<1> QED BY <1>1, <1>2

LEMMA MessageIsTyped ==
    ASSUME TypeOK, NEW x \in Items \cup {"container", "timeFix"}, NEW seq \in Nat
    PROVE  Message(x, NextId(Reading), seq) \in Messages
BY NextIdIsNew DEF Message, Messages, TypeOK

LEMMA TypeInit ==
    ASSUME Init
    PROVE  TypeOK
<1>1. [NoContext EXCEPT !.at = "none"] \in Contexts
  BY DEF NoContext, Contexts
<1>2. request \in [Requests -> Contexts]
  BY <1>1 DEF Init
<1>3. batch \in [at : {"idle", "numbering"}, todo : SUBSET Items, made : SUBSET Messages,
                salted : BOOLEAN, violated : BOOLEAN]
  BY DEF Init, NoBatch
<1>4. time \in Nat /\ time > Delay /\ off \in Int /\ time + off \in Nat
  BY NumberingAssumption DEF Init
<1> QED BY <1>2, <1>3, <1>4 DEF Init, TypeOK

LEMMA TypeStep ==
    ASSUME TypeOK, [Next]_vars
    PROVE  TypeOK'
<1> USE DEF clockVars, sentVars, sessionVars, saltVars, syncVars, countVars
<1>0. NoBatch \in [at : {"idle", "numbering"}, todo : SUBSET Items, made : SUBSET Messages,
                   salted : BOOLEAN, violated : BOOLEAN]
  BY DEF NoBatch
<1>1. NoContext \in Contexts
  BY DEF NoContext, Contexts
<1>2. NextId(Reading) \in Nat
  BY NextIdIsNew
<1>3. ASSUME NEW d \in 0..Delay
      PROVE  -d \in Int /\ time + (-d) \in Nat
  BY NumberingAssumption DEF TypeOK
<1>4. CASE Tick
  BY <1>4, NumberingAssumption DEF Tick, TypeOK
<1>5. CASE Skew
  <2>1. PICK s \in Skews :
            /\ time + off + s \in Nat
            /\ off' = off + s
            /\ turnedBack' = (turnedBack \/ s < 0)
    BY <1>5 DEF Skew
  <2>2. s \in Int /\ time \in Nat /\ off \in Int /\ time' = time
    BY <1>5, NumberingAssumption DEF Skew, TypeOK
  <2>3. off' \in Int /\ time' + off' \in Nat
    BY <2>1, <2>2
  <2> QED BY <1>5, <2>1, <2>3 DEF Skew, TypeOK
<1>6. CASE LockExpires
  BY <1>6 DEF LockExpires, TypeOK
<1>7. ASSUME NEW r \in Requests, AddRequest(r)
      PROVE  TypeOK'
  <2>1. request' \in [Requests -> Contexts]
    BY <1>1, <1>7 DEF AddRequest, TypeOK
  <2> QED BY <1>7, <2>1 DEF AddRequest, TypeOK
<1>8. CASE TransactionsMayHaveFailed
  <2>1. \A r \in Requests : request[r] \in Contexts
    BY DEF TypeOK
  <2>2. request' \in [Requests -> Contexts]
    BY <1>1, <1>8, <2>1 DEF TransactionsMayHaveFailed
  <2>3. sync' \in {"none", "wanted", "asked", "lost"}
    BY <1>8 DEF TransactionsMayHaveFailed, TypeOK
  <2> QED BY <1>8, <2>2, <2>3 DEF TransactionsMayHaveFailed, TypeOK
<1>9. CASE BeginBatch
  <2>1. Offered \cup {x \in {"salts"} : sync = "wanted"} \subseteq Items
    BY DEF Offered, Items
  <2>2. \A service \in SUBSET {"service"} :
            Offered \cup service \cup {x \in {"salts"} : sync = "wanted"} \in SUBSET Items
    BY <2>1 DEF Items
  <2>3. batch' \in [at : {"idle", "numbering"}, todo : SUBSET Items, made : SUBSET Messages,
                    salted : BOOLEAN, violated : BOOLEAN]
    BY <1>9, <2>2 DEF BeginBatch
  <2> QED BY <1>9, <2>3 DEF BeginBatch, TypeOK
<1>10. ASSUME NEW r \in Requests, NumberKept(r)
       PROVE  TypeOK'
  <2>1. request[r].id \in Nat /\ request[r].seq \in Nat
    BY DEF TypeOK, Contexts
  <2>2. Message(r, request[r].id, request[r].seq) \in Messages
    BY <2>1 DEF Message, Messages, Items, TypeOK
  <2>3. Prepared(batch.violated, Message(r, request[r].id, request[r].seq)) \in SUBSET Messages
    BY <2>2 DEF Prepared, TypeOK
  <2>4. batch' \in [at : {"idle", "numbering"}, todo : SUBSET Items, made : SUBSET Messages,
                    salted : BOOLEAN, violated : BOOLEAN]
    BY <1>10, <2>3 DEF NumberKept, TypeOK
  <2> QED BY <1>10, <2>4 DEF NumberKept, TypeOK
<1>11. ASSUME NEW x \in Items, NumberNew(x)
       PROVE  TypeOK'
  <2>1. SeqNoFor(Content(x)) \in Nat /\ Advanced(Content(x)) \in Nat
    BY DEF SeqNoFor, Advanced, TypeOK
  <2>2. Message(x, NextId(Reading), SeqNoFor(Content(x))) \in Messages
    BY <2>1, MessageIsTyped
  <2>3. ASSUME NEW v \in BOOLEAN
        PROVE  Prepared(v, Message(x, NextId(Reading), SeqNoFor(Content(x)))) \in SUBSET Messages
    BY <2>2 DEF Prepared, TypeOK
  <2>4. (batch.violated \/ Violation) \in BOOLEAN
    OBVIOUS
  <2>5. batch' \in [at : {"idle", "numbering"}, todo : SUBSET Items, made : SUBSET Messages,
                    salted : BOOLEAN, violated : BOOLEAN]
    BY <1>11, <2>3, <2>4 DEF NumberNew, TypeOK
  <2> QED BY <1>2, <1>11, <2>1, <2>5 DEF NumberNew, TypeOK
<1>12. CASE DiscardViolated
  <2>1. Bound("kept") \in [Requests -> Contexts]
    BY BoundIsTyped
  <2>2. Asking("lost") \in {"none", "wanted", "asked", "lost"}
    BY DEF Asking, TypeOK
  <2> QED BY <1>0, <1>12, <2>1, <2>2, ResetIsTyped DEF DiscardViolated, Ends, TypeOK
<1>13. CASE DiscardSaltless
  <2>1. Bound("kept") \in [Requests -> Contexts]
    BY BoundIsTyped
  <2>2. sync' \in {"none", "wanted", "asked", "lost"}
    BY <1>13 DEF DiscardSaltless, Asking, TypeOK
  <2> QED BY <1>0, <1>13, <2>1, <2>2 DEF DiscardSaltless, Ends, TypeOK
<1>14. CASE Complete
  <2>1. PICK sends \in BOOLEAN :
            /\ IF \E m, n \in batch.made : m # n THEN Contain(sends) ELSE Single(sends)
            /\ request' = Bound(IF sends THEN "sent" ELSE "kept")
            /\ sync' = Asking(IF sends THEN "asked" ELSE "lost")
    BY <1>14 DEF Complete
  <2>2. request' \in [Requests -> Contexts]
    BY <2>1, BoundIsTyped
  <2>3. sync' \in {"none", "wanted", "asked", "lost"}
    BY <2>1 DEF Asking, TypeOK
  <2>4. /\ sent' \subseteq Messages /\ last' \in Nat
        /\ tainted' \in BOOLEAN /\ seqNo' \in Nat
    <3>1. CASE Contain(sends)
      BY <1>2, <3>1, MessageIsTyped DEF Contain, TypeOK
    <3>2. CASE Single(sends)
      BY <3>2 DEF Single, TypeOK
    <3> QED BY <2>1, <3>1, <3>2
  <2> QED BY <1>0, <1>14, <2>2, <2>3, <2>4 DEF Complete, Ends, TypeOK
<1>15. CASE SendTimeFix
  <2>1. [Message("timeFix", NextId(Reading), seqNo) EXCEPT !.batch = batches + 1] \in Messages
    <3>1. Message("timeFix", NextId(Reading), seqNo) \in Messages
      BY MessageIsTyped DEF TypeOK
    <3>2. batches + 1 \in Nat
      BY DEF TypeOK
    <3> QED BY <3>1, <3>2 DEF Messages
  <2> QED BY <1>2, <1>15, <2>1 DEF SendTimeFix, TypeOK
<1>16. CASE FixTime
  <2>1. off' \in Int /\ time' + off' \in Nat /\ time' = time
    BY <1>3, <1>16 DEF FixTime, SetGlobalTimeDifference
  <2>2. request \in [Requests -> Contexts] /\ sync \in {"none", "wanted", "asked", "lost"}
    BY DEF TypeOK
  <2>3. ResetSessionInfo(request, sync, FALSE)
    BY <1>16 DEF FixTime
  <2>4. /\ request' \in [Requests -> Contexts]
        /\ sync' \in {"none", "wanted", "asked", "lost"}
        /\ lock' \in {"clear", "held", "expired"}
        /\ last' \in Nat /\ seqNo' \in Nat /\ sent' \subseteq Messages /\ tainted' \in BOOLEAN
    BY <2>2, <2>3, ResetIsTyped
  <2>5. answers' \in Nat
    BY <1>16 DEF FixTime, TypeOK
  <2> QED BY <1>16, <2>1, <2>4, <2>5 DEF FixTime, TypeOK
<1>17. CASE FutureSalts
  <2>1. off' \in Int /\ time' + off' \in Nat /\ time' = time
    BY <1>3, <1>17 DEF FutureSalts, SetGlobalTimeDifference, TypeOK
  <2>2. /\ sync' \in {"none", "wanted", "asked", "lost"}
        /\ fixing' \in BOOLEAN /\ turnedBack' \in BOOLEAN
    BY <1>17 DEF FutureSalts, TypeOK
  <2>3. answers' \in Nat
    BY <1>17 DEF FutureSalts, TypeOK
  <2> QED BY <1>17, <2>1, <2>2, <2>3 DEF FutureSalts, TypeOK
<1>18. CASE Reject
  <2>1. PICK resync \in BOOLEAN :
            /\ fixing' = (fixing \/ resync)
            /\ ResetSessionInfo(request, IF resync /\ sync = "none" THEN "wanted" ELSE sync, FALSE)
    BY <1>18 DEF Reject
  <2>2. /\ request \in [Requests -> Contexts]
        /\ (IF resync /\ sync = "none" THEN "wanted" ELSE sync) \in {"none", "wanted", "asked", "lost"}
    BY DEF TypeOK
  <2>3. /\ request' \in [Requests -> Contexts]
        /\ sync' \in {"none", "wanted", "asked", "lost"}
        /\ lock' \in {"clear", "held", "expired"}
        /\ last' \in Nat /\ seqNo' \in Nat /\ sent' \subseteq Messages /\ tainted' \in BOOLEAN
    BY <2>1, <2>2, ResetIsTyped
  <2>4. faults' \in Nat /\ fixing' \in BOOLEAN
    BY <1>18, <2>1 DEF Reject, TypeOK
  <2> QED BY <1>18, <2>3, <2>4 DEF Reject, TypeOK
<1>19. CASE UNCHANGED vars
  BY <1>19 DEF vars, TypeOK
<1> QED BY <1>4, <1>5, <1>6, <1>7, <1>8, <1>9, <1>10, <1>11, <1>12, <1>13, <1>14, <1>15,
           <1>16, <1>17, <1>18, <1>19 DEF Next, Number, Discard

\* Everything has its type, the salts aside, whose types are part of SaltInv.
THEOREM TypeCorrect == Spec => []TypeOK
<1>1. TypeOK /\ [Next]_vars => TypeOK'
  BY TypeStep
<1> QED BY TypeInit, <1>1, PTL DEF Spec

-----------------------------------------------------------------------------
(* A new number is apart from all that lie behind the counters.            *)

\* m is numbered now
New(m) == m.id = NextId(Reading) /\ m.seq = SeqNoFor(Content(m.of))

LEMMA NewIsApart ==
    ASSUME TypeOK, ~Violation,
           NEW m, New(m),
           NEW p, p.id \in Nat, p.seq \in Nat, Behind(p)
    PROVE  Apart(p, m) /\ Apart(m, p)
<1>1. m.id > p.id /\ m.id \in Nat
  BY NextIdIsNew DEF New, Behind, TypeOK
<1>2. seqNo \in Nat /\ p.seq <= seqNo
  BY DEF Behind, TypeOK
<1>3. CASE Content(m.of)
  <2>1. m.seq = seqNo + 1
    BY <1>3 DEF New, SeqNoFor
  <2> QED BY <1>1, <1>2, <2>1 DEF Apart
<1>4. CASE ~Content(m.of)
  <2>1. m.seq = seqNo
    BY <1>4 DEF New, SeqNoFor
  <2>2. CASE Content(p.of)
    <3>1. p.seq < seqNo
      BY <2>2 DEF Behind
    <3>2. p.seq # m.seq /\ p.seq <= m.seq
      BY <1>2, <2>1, <3>1
    <3> QED BY <1>1, <3>2 DEF Apart
  <2>3. CASE ~Content(p.of)
    <3>1. p.seq <= m.seq
      BY <1>2, <2>1
    <3> QED BY <1>1, <1>4, <2>3, <3>1 DEF Apart
  <2> QED BY <2>2, <2>3
<1> QED BY <1>3, <1>4

LEMMA NewIsBehind ==
    ASSUME TypeOK, NEW m, New(m),
           last' = NextId(Reading), seqNo' = Advanced(Content(m.of))
    PROVE  Behind(m)'
<1>1. m.id <= last'
  BY NextIdIsNew DEF New
<1>2. CASE Content(m.of)
  <2>1. m.seq = seqNo + 1 /\ seqNo' = seqNo + 2
    BY <1>2 DEF New, SeqNoFor, Advanced
  <2> QED BY <1>1, <2>1 DEF Behind, TypeOK
<1>3. CASE ~Content(m.of)
  <2>1. m.seq = seqNo /\ seqNo' = seqNo
    BY <1>3 DEF New, SeqNoFor, Advanced
  <2> QED BY <1>1, <1>3, <2>1 DEF Behind, TypeOK
<1> QED BY <1>2, <1>3

LEMMA BehindStays ==
    ASSUME TypeOK, ~Violation, NEW content,
           last' = NextId(Reading), seqNo' = Advanced(content),
           NEW p, p.id \in Nat, p.seq \in Nat, Behind(p)
    PROVE  Behind(p)'
<1>1. p.id <= last'
  BY NextIdIsNew DEF Behind, TypeOK
<1>2. seqNo' \in Nat /\ seqNo' >= seqNo /\ seqNo \in Nat
  BY DEF Advanced, TypeOK
<1>3. p.seq <= seqNo' /\ (Content(p.of) => p.seq < seqNo')
  BY <1>2 DEF Behind
<1> QED BY <1>1, <1>3 DEF Behind

LEMMA ApartIsSymmetric ==
    ASSUME NEW m, NEW n, Apart(m, n)
    PROVE  Apart(n, m)
BY Zenon DEF Apart

-----------------------------------------------------------------------------
(* Batches come one after the other.                                       *)

LEMMA BatchesStep ==
    ASSUME TypeOK, BatchesInTurn, [Next]_vars
    PROVE  BatchesInTurn'
<1> USE DEF clockVars, sentVars, sessionVars, saltVars, syncVars, countVars
<1>0. batches \in Nat /\ \A m \in sent : m.batch \in Nat /\ m.batch <= batches
  BY DEF TypeOK, BatchesInTurn, Messages
<1>1. ASSUME UNCHANGED <<sent, batches, batch>>
      PROVE  BatchesInTurn'
  BY <1>1 DEF BatchesInTurn
<1>2. ASSUME batch' = NoBatch, batches' = batches, sent' \in {sent, {}}
      PROVE  BatchesInTurn'
  BY <1>0, <1>2 DEF BatchesInTurn, NoBatch
<1>3. CASE BeginBatch
  <2>1. sent' = sent /\ batches' = batches + 1 /\ batch'.made = {} /\ batch'.at = "numbering"
    BY <1>3 DEF BeginBatch
  <2> QED BY <1>0, <2>1 DEF BatchesInTurn
<1>4. ASSUME NEW r \in Requests, NumberKept(r)
      PROVE  BatchesInTurn'
  <2>1. /\ sent' = sent /\ batches' = batches /\ batch'.at = batch.at
        /\ batch'.todo = batch.todo \ {r}
        /\ batch'.made \subseteq batch.made \cup {Message(r, request[r].id, request[r].seq)}
    BY <1>4 DEF NumberKept, Prepared, TypeOK
  <2>2. batch.at = "numbering"
    BY <1>4 DEF NumberKept, BatchesInTurn, NoBatch, TypeOK
  <2>3. r # "container"
    BY NumberingAssumption
  <2> QED BY <2>1, <2>2, <2>3 DEF BatchesInTurn, Message
<1>5. ASSUME NEW x \in Items, NumberNew(x)
      PROVE  BatchesInTurn'
  <2>1. /\ sent' = sent /\ batches' = batches /\ batch'.at = batch.at
        /\ batch'.todo = batch.todo \ {x}
        /\ batch'.made \subseteq batch.made \cup {Message(x, NextId(Reading), SeqNoFor(Content(x)))}
    BY <1>5 DEF NumberNew, Prepared, TypeOK
  <2>2. batch.at = "numbering"
    BY <1>5 DEF NumberNew, BatchesInTurn, NoBatch, TypeOK
  <2>3. x # "container"
    BY NumberingAssumption DEF Items
  <2> QED BY <2>1, <2>2, <2>3 DEF BatchesInTurn, Message
<1>6. CASE DiscardViolated
  <2>1. sent' \in {sent, {}}
    BY <1>6 DEF DiscardViolated, ResetSessionInfo
  <2> QED BY <1>2, <1>6, <2>1 DEF DiscardViolated, Ends
<1>7. CASE DiscardSaltless
  BY <1>2, <1>7 DEF DiscardSaltless, Ends
<1>8. CASE Complete
  <2>1. PICK sends \in BOOLEAN :
            IF \E m, n \in batch.made : m # n THEN Contain(sends) ELSE Single(sends)
    BY <1>8 DEF Complete
  <2>2. \A m \in sent' : m \in sent \/ m.batch = batches
    BY <2>1 DEF Contain, Single, BatchesInTurn, Message
  <2>3. batch' = NoBatch /\ batches' = batches
    BY <1>8 DEF Complete, Ends
  <2> QED BY <1>0, <2>2, <2>3 DEF BatchesInTurn, NoBatch
<1>9. CASE SendTimeFix
  <2>1. batch' = NoBatch /\ batches' = batches + 1
    BY <1>9 DEF SendTimeFix
  <2>2. [Message("timeFix", NextId(Reading), seqNo) EXCEPT !.batch = batches + 1].batch = batches + 1
    BY DEF Message
  <2>3. \A m \in sent' : m \in sent \/ m.batch = batches + 1
    BY <1>9, <2>2 DEF SendTimeFix
  <2> QED BY <1>0, <2>1, <2>3 DEF BatchesInTurn, NoBatch
<1>10. CASE FixTime
  <2>1. sent' \in {sent, {}}
    BY <1>10 DEF FixTime, ResetSessionInfo
  <2> QED BY <1>2, <1>10, <2>1 DEF FixTime
<1>11. CASE Reject
  <2>1. sent' \in {sent, {}}
    BY <1>11 DEF Reject, ResetSessionInfo
  <2> QED BY <1>2, <1>11, <2>1 DEF Reject
<1>12. CASE Tick \/ Skew \/ LockExpires \/ TransactionsMayHaveFailed \/ FutureSalts
  BY <1>1, <1>12 DEF Tick, Skew, LockExpires, TransactionsMayHaveFailed, FutureSalts
<1>13. ASSUME NEW r \in Requests, AddRequest(r)
       PROVE  BatchesInTurn'
  BY <1>1, <1>13 DEF AddRequest
<1>14. CASE UNCHANGED vars
  BY <1>1, <1>14 DEF vars
<1> QED BY <1>3, <1>4, <1>5, <1>6, <1>7, <1>8, <1>9, <1>10, <1>11, <1>12, <1>13, <1>14
        DEF Next, Number, Discard

-----------------------------------------------------------------------------
(* The order of the numbers.                                               *)

\* nothing is numbered, and no more is kept than before
Quiet ==
    /\ UNCHANGED <<last, seqNo, sent, tainted>>
    /\ batch'.made \subseteq batch.made
    /\ batch.violated => batch'.violated
    /\ \A r \in Kept' : r \in Kept /\ KeptMessage(r)' = KeptMessage(r)

LEMMA QuietStep ==
    ASSUME Ordered, Quiet
    PROVE  Ordered'
<1>1. Orderly' => Orderly
  BY DEF Quiet, Orderly
<1>2. (AllBehind => AllBehind')
  BY DEF Quiet, AllBehind, Behind
<1>3. (AllApart => AllApart')
  <2>1. SUFFICES ASSUME AllApart
                 PROVE  AllApart'
    OBVIOUS
  <2>2. \A m, n \in sent' : m = n \/ Apart(m, n)
    BY <2>1 DEF Quiet, AllApart
  <2>3. \A m, n \in batch'.made : m = n \/ Apart(m, n)
    BY <2>1 DEF Quiet, AllApart
  <2>4. \A m \in sent', n \in batch'.made : Apart(m, n)
    BY <2>1 DEF Quiet, AllApart
  <2>5. \A m \in sent', r \in Kept' : Apart(m, KeptMessage(r)')
    BY <2>1 DEF Quiet, AllApart
  <2>6. \A m \in batch'.made, r \in Kept' : m.of = r \/ Apart(m, KeptMessage(r)')
    BY <2>1 DEF Quiet, AllApart
  <2>7. \A q, r \in Kept' : q = r \/ Apart(KeptMessage(q)', KeptMessage(r)')
    BY <2>1 DEF Quiet, AllApart
  <2> QED BY <2>2, <2>3, <2>4, <2>5, <2>6, <2>7 DEF AllApart
<1>4. ~tainted' => SentInOrder'
  BY DEF Quiet, Ordered, SentInOrder
<1> QED BY <1>1, <1>2, <1>3, <1>4 DEF Ordered

\* resetSessionInfo leaves a new session behind, or the old one as it was: as
\* tainted as it ought to be
LEMMA ResetStep ==
    ASSUME TypeOK, Ordered, batch' = NoBatch,
           NEW bound, NEW asking, NEW backwards \in BOOLEAN,
           ResetSessionInfo(bound, asking, backwards),
           backwards \/ (bound = request /\ batch = NoBatch)
    PROVE  Ordered'
<1>1. CASE lock = "held"
  <2>1. /\ request' = bound /\ tainted' = (tainted \/ backwards)
        /\ UNCHANGED <<last, seqNo, sent>>
    BY <1>1 DEF ResetSessionInfo
  <2>2. CASE backwards
    BY <2>1, <2>2 DEF Ordered, Orderly
  <2>3. CASE bound = request /\ batch = NoBatch /\ ~backwards
    <3>1. Quiet
      BY <2>1, <2>3 DEF Quiet, Kept, KeptMessage, TypeOK
    <3> QED BY <3>1, QuietStep
  <2> QED BY <2>2, <2>3
<1>2. CASE lock # "held"
  <2>1. sent' = {}
    BY <1>2 DEF ResetSessionInfo
  <2>2. \A r \in Requests : request'[r].at # "kept"
    BY <1>2 DEF ResetSessionInfo, NoContext
  <2>3. Kept' = {}
    BY <2>2 DEF Kept
  <2>4. batch'.made = {}
    BY DEF NoBatch
  <2> QED BY <2>1, <2>3, <2>4 DEF Ordered, AllBehind, AllApart, SentInOrder
<1> QED BY <1>1, <1>2

\* a kept request takes its place in the batch with the numbers it has
LEMMA NumberKeptStep ==
    ASSUME IInv, NEW r \in Requests, NumberKept(r)
    PROVE  Ordered'
<1> USE DEF clockVars, sentVars, sessionVars, saltVars, syncVars, countVars
<1>1. SUFFICES ASSUME Orderly', Orderly, AllBehind, AllApart
               PROVE  AllBehind' /\ AllApart'
  <2>1. UNCHANGED <<sent, tainted>> /\ batch'.violated = batch.violated
    BY DEF NumberKept, IInv, TypeOK
  <2>2. Orderly' => Orderly
    BY <2>1 DEF Orderly
  <2>3. ~tainted' => SentInOrder'
    BY <2>1 DEF IInv, Ordered, SentInOrder
  <2> QED BY <1>1, <2>2, <2>3 DEF IInv, Ordered
<1> DEFINE m == Message(r, request[r].id, request[r].seq)
<1>2. /\ batch'.made = batch.made \cup {m}
      /\ UNCHANGED <<last, seqNo, sent, request, Kept>>
  BY <1>1 DEF NumberKept, Prepared, Orderly, IInv, TypeOK, Kept
<1>3. m.id = KeptMessage(r).id /\ m.seq = KeptMessage(r).seq /\ m.of = r /\ KeptMessage(r).of = r
  BY DEF Message, KeptMessage
<1>4. r \in Kept /\ r \in batch.todo
  BY DEF NumberKept, Kept
<1>5. \A n : Apart(n, m) <=> Apart(n, KeptMessage(r))
  BY <1>3, Zenon DEF Apart
<1>6. \A n : Apart(m, n) <=> Apart(KeptMessage(r), n)
  BY <1>3, Zenon DEF Apart
<1>7. \A q \in Kept : KeptMessage(q)' = KeptMessage(q)
  BY <1>2 DEF KeptMessage
<1> HIDE DEF m
<1>8. AllBehind'
  <2>1. Behind(m)
    BY <1>1, <1>3, <1>4 DEF AllBehind, Behind
  <2> QED BY <1>1, <1>2, <1>7, <2>1 DEF AllBehind, Behind
<1>9. ASSUME NEW n \in batch.made
      PROVE  Apart(m, n) /\ Apart(n, m)
  <2>1. n.of # r
    BY <1>4 DEF IInv, BatchesInTurn
  <2>2. Apart(n, KeptMessage(r))
    BY <1>1, <1>4, <2>1 DEF AllApart
  <2> QED BY <1>5, <2>2, ApartIsSymmetric
<1>10. AllApart'
  <2>1. \A p, n \in sent' : p = n \/ Apart(p, n)
    BY <1>1, <1>2 DEF AllApart
  <2>2. \A p, n \in batch'.made : p = n \/ Apart(p, n)
    BY <1>1, <1>2, <1>9 DEF AllApart
  <2>3. \A p \in sent', n \in batch'.made : Apart(p, n)
    BY <1>1, <1>2, <1>4, <1>5 DEF AllApart
  <2>4. \A p \in sent', q \in Kept' : Apart(p, KeptMessage(q)')
    BY <1>1, <1>2, <1>7 DEF AllApart
  <2>5. \A p \in batch'.made, q \in Kept' : p.of = q \/ Apart(p, KeptMessage(q)')
    BY <1>1, <1>2, <1>3, <1>4, <1>6, <1>7 DEF AllApart
  <2>6. \A p, q \in Kept' : p = q \/ Apart(KeptMessage(p)', KeptMessage(q)')
    BY <1>1, <1>2, <1>7 DEF AllApart
  <2> QED BY <2>1, <2>2, <2>3, <2>4, <2>5, <2>6 DEF AllApart
<1> QED BY <1>8, <1>10

\* a new message gets numbers that are apart from all before
LEMMA NumberNewStep ==
    ASSUME IInv, NEW x \in Items, NumberNew(x)
    PROVE  Ordered'
<1> USE DEF clockVars, sentVars, sessionVars, saltVars, syncVars, countVars
<1>1. SUFFICES ASSUME Orderly', Orderly, ~Violation, AllBehind, AllApart
               PROVE  AllBehind' /\ AllApart'
  <2>1. UNCHANGED <<sent, tainted>> /\ batch'.violated = (batch.violated \/ Violation)
    BY DEF NumberNew, IInv, TypeOK
  <2>2. Orderly' => Orderly /\ ~Violation
    BY <2>1 DEF Orderly
  <2>3. ~tainted' => SentInOrder'
    BY <2>1 DEF IInv, Ordered, SentInOrder
  <2> QED BY <1>1, <2>2, <2>3 DEF IInv, Ordered
<1>0. PICK m : m = Message(x, NextId(Reading), SeqNoFor(Content(x)))
  OBVIOUS
<1>2. /\ batch'.made = batch.made \cup {m}
      /\ UNCHANGED <<sent, request, Kept>>
      /\ last' = NextId(Reading) /\ seqNo' = Advanced(Content(x))
  BY <1>0, <1>1 DEF NumberNew, Prepared, Orderly, IInv, TypeOK, Kept
<1>3. New(m) /\ m.of = x
  BY <1>0 DEF New, Message
<1>4. \A q \in Kept : KeptMessage(q)' = KeptMessage(q)
  BY <1>2 DEF KeptMessage
<1>5. /\ \A n \in sent \cup batch.made : n.id \in Nat /\ n.seq \in Nat
      /\ \A q \in Kept : KeptMessage(q).id \in Nat /\ KeptMessage(q).seq \in Nat
  BY DEF IInv, TypeOK, Messages, Contexts, Kept, KeptMessage
<1>6. \A n \in sent \cup batch.made : Apart(n, m) /\ Apart(m, n)
  BY <1>1, <1>3, <1>5, NewIsApart DEF IInv, AllBehind
<1>7. \A q \in Kept : Apart(m, KeptMessage(q))
  BY <1>1, <1>3, <1>5, NewIsApart DEF IInv, AllBehind
<1>8. AllBehind'
  <2>1. Behind(m)'
    BY <1>2, <1>3, NewIsBehind DEF IInv
  <2>2. \A n \in sent \cup batch.made : Behind(n)'
    BY <1>1, <1>2, <1>5, BehindStays DEF IInv, AllBehind
  <2>3. \A q \in Kept : Behind(KeptMessage(q))'
    <3>1. ASSUME NEW q \in Kept, NEW k, k = KeptMessage(q)
          PROVE  Behind(k)'
      BY <1>1, <1>2, <1>5, <3>1, BehindStays DEF IInv, AllBehind
    <3>2. ASSUME NEW q \in Kept
          PROVE  Behind(KeptMessage(q))'
      <4>1. PICK k : k = KeptMessage(q)
        OBVIOUS
      <4>2. Behind(k)' /\ KeptMessage(q)' = k
        BY <1>4, <3>1, <4>1
      <4> QED BY <4>2 DEF Behind
    <3> QED BY <3>2
  <2> QED BY <1>2, <2>1, <2>2, <2>3 DEF AllBehind
<1>9. AllApart'
  <2>1. \A p, n \in sent' : p = n \/ Apart(p, n)
    BY <1>1, <1>2 DEF AllApart
  <2>2. \A p, n \in batch'.made : p = n \/ Apart(p, n)
    BY <1>1, <1>2, <1>6 DEF AllApart
  <2>3. \A p \in sent', n \in batch'.made : Apart(p, n)
    BY <1>1, <1>2, <1>6 DEF AllApart
  <2>4. \A p \in sent', q \in Kept' : Apart(p, KeptMessage(q)')
    BY <1>1, <1>2, <1>4 DEF AllApart
  <2>5. \A p \in batch'.made, q \in Kept' : p.of = q \/ Apart(p, KeptMessage(q)')
    BY <1>1, <1>2, <1>4, <1>7 DEF AllApart
  <2>6. \A p, q \in Kept' : p = q \/ Apart(KeptMessage(p)', KeptMessage(q)')
    BY <1>1, <1>2, <1>4 DEF AllApart
  <2> QED BY <2>1, <2>2, <2>3, <2>4, <2>5, <2>6 DEF AllApart
<1> QED BY <1>8, <1>9

\* The counters stay, or a message without content moves the last id.
Plain ==
    \/ UNCHANGED <<last, seqNo>>
    \/ ~Violation /\ last' = NextId(Reading) /\ seqNo' = seqNo

LEMMA BehindStaysPlain ==
    ASSUME TypeOK, Plain, NEW p, p.id \in Nat, p.seq \in Nat, Behind(p)
    PROVE  Behind(p)'
<1>1. CASE UNCHANGED <<last, seqNo>>
  BY <1>1 DEF Behind
<1>2. CASE ~Violation /\ last' = NextId(Reading) /\ seqNo' = seqNo
  <2>1. seqNo' = Advanced(FALSE)
    BY <1>2 DEF Advanced
  <2> QED BY <1>2, <2>1, BehindStays
<1> QED BY <1>1, <1>2 DEF Plain

\* a request is kept as it was, or with the numbers of a message of the batch
LEMMA BoundKeeps ==
    ASSUME TypeOK, NEW at \in {"kept", "sent"}, request' = Bound(at), NEW r \in Kept'
    PROVE  \/ r \in Kept /\ KeptMessage(r)' = KeptMessage(r) /\ \A m \in batch.made : m.of # r
           \/ /\ at = "kept"
              /\ \E m \in batch.made :
                    m.of = r /\ KeptMessage(r)' = [id |-> m.id, seq |-> m.seq, of |-> r]
<1>1. r \in Requests /\ request'[r].at = "kept"
  BY DEF Kept
<1>2. CASE \E m \in batch.made : m.of = r
  <2>1. PICK m : m = CHOOSE x \in batch.made : x.of = r
    OBVIOUS
  <2>2. m \in batch.made /\ m.of = r
    BY <1>2, <2>1
  <2>3. request'[r] = [at |-> at, id |-> m.id, seq |-> m.seq]
    BY <1>1, <1>2, <2>1 DEF Bound
  <2>4. KeptMessage(r)' = [id |-> m.id, seq |-> m.seq, of |-> r] /\ at = "kept"
    BY <1>1, <2>3 DEF KeptMessage
  <2> QED BY <2>2, <2>4
<1>3. CASE ~\E m \in batch.made : m.of = r
  <2>1. request'[r] = request[r]
    BY <1>1, <1>3 DEF Bound
  <2> QED BY <1>1, <1>3, <2>1 DEF Kept, KeptMessage
<1> QED BY <1>2, <1>3

\* The batch ends: its messages are sent or kept, with a message c in front of
\* the others that is numbered now, or without.
LEMMA BatchEnds ==
    ASSUME IInv, AllBehind, AllApart, Plain,
           NEW at \in {"kept", "sent"}, request' = Bound(at), batch' = NoBatch,
           NEW C, \A c, d \in C : c = d,
           C # {} => ~Violation /\ last' = NextId(Reading),
           \A c \in C : New(c) /\ ~Content(c.of),
           sent' \subseteq sent \cup C \cup (IF at = "sent" THEN batch.made ELSE {})
    PROVE  AllBehind' /\ AllApart'
<1>1. /\ \A n \in sent \cup batch.made : n.id \in Nat /\ n.seq \in Nat
      /\ \A q \in Kept : KeptMessage(q).id \in Nat /\ KeptMessage(q).seq \in Nat
  BY DEF IInv, TypeOK, Messages, Contexts, Kept, KeptMessage
<1>2. \A c \in C, n \in sent \cup batch.made : Apart(n, c) /\ Apart(c, n)
  BY <1>1, NewIsApart DEF IInv, AllBehind
<1>3. \A c \in C, q \in Kept : Apart(c, KeptMessage(q))
  BY <1>1, NewIsApart DEF IInv, AllBehind
<1>4. \A m, n, k : m.id = k.id /\ m.seq = k.seq /\ m.of = k.of =>
          /\ Apart(n, m) <=> Apart(n, k)
          /\ Apart(m, n) <=> Apart(k, n)
          /\ Behind(m)' <=> Behind(k)'
  <2>1. ASSUME NEW m, NEW n, NEW k, m.id = k.id, m.seq = k.seq, m.of = k.of
        PROVE  Apart(n, m) <=> Apart(n, k)
    BY <2>1, Zenon DEF Apart
  <2>2. ASSUME NEW m, NEW n, NEW k, m.id = k.id, m.seq = k.seq, m.of = k.of
        PROVE  Apart(m, n) <=> Apart(k, n)
    BY <2>2, Zenon DEF Apart
  <2>3. ASSUME NEW m, NEW k, m.id = k.id, m.seq = k.seq, m.of = k.of
        PROVE  Behind(m)' <=> Behind(k)'
    BY <2>3, Zenon DEF Behind
  <2> QED BY <2>1, <2>2, <2>3
<1>5. \A n \in sent \cup batch.made : Behind(n)'
  BY <1>1, BehindStaysPlain DEF IInv, AllBehind
<1>6. \A c \in C : Behind(c)'
  <2>1. ASSUME NEW c \in C
        PROVE  Behind(c)'
    <3>1. seqNo' = Advanced(Content(c.of)) /\ last' = NextId(Reading)
      BY DEF Plain, Advanced
    <3> QED BY <3>1, NewIsBehind DEF IInv
  <2> QED BY <2>1
<1>7. ASSUME NEW r \in Kept'
      PROVE  \/ r \in Kept /\ KeptMessage(r)' = KeptMessage(r) /\ \A m \in batch.made : m.of # r
             \/ /\ at = "kept"
                /\ \E m \in batch.made :
                      m.of = r /\ KeptMessage(r)' = [id |-> m.id, seq |-> m.seq, of |-> r]
  BY BoundKeeps DEF IInv
<1>8. AllBehind'
  <2>1. \A m \in sent' : Behind(m)'
    BY <1>5, <1>6
  <2>2. ASSUME NEW r \in Kept', NEW k, k = KeptMessage(r)'
        PROVE  Behind(k)'
    <3>1. CASE r \in Kept /\ k = KeptMessage(r)
      BY <1>1, <3>1, BehindStaysPlain DEF IInv, AllBehind
    <3>2. CASE \E m \in batch.made : m.of = r /\ k = [id |-> m.id, seq |-> m.seq, of |-> r]
      BY <1>4, <1>5, <3>2
    <3> QED BY <1>7, <2>2, <3>1, <3>2
  <2>3. \A r \in Kept' : Behind(KeptMessage(r))'
    BY <2>2 DEF Behind
  <2> QED BY <2>1, <2>3 DEF AllBehind, NoBatch
<1>9. \A m, n \in sent' : m = n \/ Apart(m, n)
  BY <1>2, ApartIsSymmetric DEF AllApart
<1>10. \A m \in sent', r \in Kept' : Apart(m, KeptMessage(r)')
  <2>1. ASSUME NEW m \in sent', NEW r \in Kept', NEW k, k = KeptMessage(r)'
        PROVE  Apart(m, k)
    <3>1. CASE r \in Kept /\ k = KeptMessage(r) /\ \A n \in batch.made : n.of # r
      BY <1>3, <3>1 DEF AllApart
    <3>2. CASE /\ at = "kept"
               /\ \E n \in batch.made : n.of = r /\ k = [id |-> n.id, seq |-> n.seq, of |-> r]
      <4>1. PICK n \in batch.made : n.of = r /\ k = [id |-> n.id, seq |-> n.seq, of |-> r]
        BY <3>2
      <4>2. m \in sent \/ m \in C
        BY <3>2
      <4>3. Apart(m, n)
        BY <1>2, <4>2 DEF AllApart
      <4> QED BY <1>4, <4>1, <4>3
    <3> QED BY <1>7, <2>1, <3>1, <3>2
  <2> QED BY <2>1
<1>11. \A q, r \in Kept' : q = r \/ Apart(KeptMessage(q)', KeptMessage(r)')
  <2>1. ASSUME NEW q \in Kept', NEW r \in Kept', q # r,
               NEW j, j = KeptMessage(q)', NEW k, k = KeptMessage(r)'
        PROVE  Apart(j, k)
    <3>1. CASE q \in Kept /\ j = KeptMessage(q) /\ \A n \in batch.made : n.of # q
      <4>1. CASE r \in Kept /\ k = KeptMessage(r)
        BY <2>1, <3>1, <4>1 DEF AllApart
      <4>2. CASE \E n \in batch.made : n.of = r /\ k = [id |-> n.id, seq |-> n.seq, of |-> r]
        <5>1. PICK n \in batch.made : n.of = r /\ k = [id |-> n.id, seq |-> n.seq, of |-> r]
          BY <4>2
        <5>2. Apart(n, j)
          BY <3>1 DEF AllApart
        <5> QED BY <1>4, <5>1, <5>2, ApartIsSymmetric
      <4> QED BY <1>7, <2>1, <4>1, <4>2
    <3>2. CASE \E n \in batch.made : n.of = q /\ j = [id |-> n.id, seq |-> n.seq, of |-> q]
      <4>1. PICK n \in batch.made : n.of = q /\ j = [id |-> n.id, seq |-> n.seq, of |-> q]
        BY <3>2
      <4>2. CASE r \in Kept /\ k = KeptMessage(r) /\ \A m \in batch.made : m.of # r
        <5>1. Apart(n, k)
          BY <2>1, <4>1, <4>2 DEF AllApart
        <5> QED BY <1>4, <4>1, <5>1
      <4>3. CASE \E m \in batch.made : m.of = r /\ k = [id |-> m.id, seq |-> m.seq, of |-> r]
        <5>1. PICK m \in batch.made : m.of = r /\ k = [id |-> m.id, seq |-> m.seq, of |-> r]
          BY <4>3
        <5>2. Apart(n, m)
          BY <2>1, <4>1, <5>1 DEF AllApart
        <5>3. Apart(n, k)
          BY <1>4, <5>1, <5>2
        <5> QED BY <1>4, <4>1, <5>3
      <4> QED BY <1>7, <2>1, <4>2, <4>3
    <3> QED BY <1>7, <2>1, <3>1, <3>2
  <2> QED BY <2>1
<1> QED BY <1>8, <1>9, <1>10, <1>11 DEF AllApart, NoBatch

LEMMA CompleteStep ==
    ASSUME IInv, Complete
    PROVE  Ordered'
<1> USE DEF clockVars, sentVars, sessionVars, saltVars, syncVars, countVars
<1>1. PICK sends \in BOOLEAN :
          /\ IF \E m, n \in batch.made : m # n THEN Contain(sends) ELSE Single(sends)
          /\ request' = Bound(IF sends THEN "sent" ELSE "kept")
  BY DEF Complete
<1>2. batch' = NoBatch /\ ~batch.violated /\ batch.at = "numbering"
  BY DEF Complete, Ends, Numbered
<1>3. PICK c : c = Message("container", NextId(Reading), seqNo)
  OBVIOUS
<1>4. "container" \notin Requests
  BY NumberingAssumption
<1>5. ~Content(c.of) /\ New(c) /\ c.of = "container" /\ c.id = NextId(Reading) /\ c.batch = batches
  BY <1>3, <1>4 DEF Message, Content, New, SeqNoFor
<1>6. SUFFICES ASSUME ~tainted'
               PROVE  AllBehind' /\ AllApart' /\ SentInOrder'
  BY DEF Ordered, Orderly
<1>7. ~tainted /\ AllBehind /\ AllApart /\ SentInOrder
  <2>1. ~tainted
    BY <1>1, <1>6 DEF Contain, Single
  <2> QED BY <1>2, <2>1 DEF IInv, Ordered, Orderly
<1>8. PICK at \in {"kept", "sent"} : at = IF sends THEN "sent" ELSE "kept"
  OBVIOUS
<1>9. CASE \E m, n \in batch.made : m # n
  <2>1. /\ ~Violation /\ last' = NextId(Reading) /\ seqNo' = seqNo
        /\ sent' = IF sends THEN sent \cup batch.made \cup {c} ELSE sent
    BY <1>1, <1>3, <1>6, <1>9 DEF Contain
  <2>2. sent' \subseteq sent \cup {c} \cup (IF at = "sent" THEN batch.made ELSE {})
    BY <1>8, <2>1
  <2>3. AllBehind' /\ AllApart'
    <3>1. PICK C : C = {c}
      OBVIOUS
    <3>2. /\ \A x, y \in C : x = y
          /\ C # {} => ~Violation /\ last' = NextId(Reading)
          /\ \A x \in C : New(x) /\ ~Content(x.of)
          /\ sent' \subseteq sent \cup C \cup (IF at = "sent" THEN batch.made ELSE {})
      BY <1>5, <2>1, <2>2, <3>1
    <3>3. Plain /\ request' = Bound(at)
      BY <1>1, <1>8, <2>1 DEF Plain
    <3> QED BY <1>2, <1>7, <3>2, <3>3, BatchEnds
  <2>4. \A n \in batch.made : n.id <= c.id
    <3>1. \A n \in batch.made : n.id \in Nat /\ n.id <= last
      BY <1>7 DEF AllBehind, Behind, IInv, TypeOK, Messages
    <3> QED BY <1>5, <2>1, <3>1, NextIdIsNew DEF IInv, TypeOK
  <2>5. \A m \in sent : m.batch < batches /\ m.batch \in Nat
    BY <1>2 DEF IInv, BatchesInTurn, TypeOK, Messages
  <2>6. \A m \in batch.made : m.of # "container" /\ m.batch = batches
    BY DEF IInv, BatchesInTurn
  <2>7. ASSUME NEW m \in sent', NEW n \in sent', m.of = "container", n.batch = m.batch
        PROVE  n.id <= m.id
    <3>1. CASE m \in sent /\ n \in sent
      BY <1>7, <2>7, <3>1 DEF SentInOrder
    <3>2. CASE ~(m \in sent /\ n \in sent)
      <4>1. m = c /\ n \in batch.made \cup {c}
        BY <1>5, <2>1, <2>5, <2>6, <2>7, <3>2 DEF IInv, TypeOK
      <4>2. c.id \in Nat
        BY <1>5, NextIdIsNew DEF IInv
      <4> QED BY <2>4, <4>1, <4>2
    <3> QED BY <3>1, <3>2
  <2> QED BY <2>3, <2>7 DEF AllApart, SentInOrder
<1>10. CASE ~\E m, n \in batch.made : m # n
  <2>1. /\ UNCHANGED <<last, seqNo>>
        /\ sent' = IF sends THEN sent \cup batch.made ELSE sent
    BY <1>1, <1>10 DEF Single
  <2>2. PICK C : C = {}
    OBVIOUS
  <2>3. AllBehind' /\ AllApart'
    <3>1. /\ \A x, y \in C : x = y
          /\ C # {} => ~Violation /\ last' = NextId(Reading)
          /\ \A x \in C : New(x) /\ ~Content(x.of)
          /\ sent' \subseteq sent \cup C \cup (IF at = "sent" THEN batch.made ELSE {})
      BY <1>8, <2>1, <2>2
    <3>2. Plain /\ request' = Bound(at)
      BY <1>1, <1>8, <2>1 DEF Plain
    <3> QED BY <1>2, <1>7, <3>1, <3>2, BatchEnds
  <2>4. \A m \in batch.made : m.of # "container" /\ m.batch = batches
    BY DEF IInv, BatchesInTurn
  <2>5. \A m \in sent : m.batch < batches /\ m.batch \in Nat
    BY <1>2 DEF IInv, BatchesInTurn, TypeOK, Messages
  <2>6. \A m, n \in sent' : m.of = "container" /\ n.batch = m.batch => n.id <= m.id
    BY <1>7, <2>1, <2>4, <2>5 DEF SentInOrder, IInv, TypeOK
  <2> QED BY <2>3, <2>6 DEF AllApart, SentInOrder
<1> QED BY <1>9, <1>10

LEMMA DiscardSaltlessStep ==
    ASSUME IInv, DiscardSaltless
    PROVE  Ordered'
<1>1. /\ request' = Bound("kept") /\ batch' = NoBatch /\ ~batch.violated
      /\ UNCHANGED <<last, seqNo, sent, tainted>>
  BY DEF DiscardSaltless, Ends, sessionVars
<1>2. ASSUME AllBehind, AllApart
      PROVE  AllBehind' /\ AllApart'
  <2>1. PICK C : C = {}
    OBVIOUS
  <2>2. PICK at \in {"kept", "sent"} : at = "kept"
    OBVIOUS
  <2>3. /\ \A x, y \in C : x = y
        /\ C # {} => ~Violation /\ last' = NextId(Reading)
        /\ \A x \in C : New(x) /\ ~Content(x.of)
        /\ sent' \subseteq sent \cup C \cup (IF at = "sent" THEN batch.made ELSE {})
    BY <1>1, <2>1
  <2>4. Plain /\ request' = Bound(at)
    BY <1>1, <2>2 DEF Plain
  <2> QED BY <1>1, <1>2, <2>3, <2>4, BatchEnds
<1>3. ~tainted' => SentInOrder'
  BY <1>1 DEF IInv, Ordered, SentInOrder
<1> QED BY <1>1, <1>2, <1>3 DEF IInv, Ordered, Orderly

LEMMA SendTimeFixStep ==
    ASSUME IInv, SendTimeFix
    PROVE  Ordered'
<1> USE DEF clockVars, sentVars, sessionVars, saltVars, syncVars, countVars
<1>1. PICK c : c = [Message("timeFix", NextId(Reading), seqNo) EXCEPT !.batch = batches + 1]
  OBVIOUS
<1>2. /\ batch = NoBatch /\ batch' = NoBatch /\ last' = NextId(Reading) /\ seqNo' = seqNo
      /\ tainted' = (tainted \/ Violation) /\ request' = request
      /\ sent' \subseteq sent \cup {c}
  BY <1>1 DEF SendTimeFix
<1>3. "timeFix" \notin Requests
  BY NumberingAssumption
<1>4. ~Content(c.of) /\ New(c) /\ c.of = "timeFix" /\ c.batch = batches + 1
  BY <1>1, <1>3 DEF Message, Content, New, SeqNoFor
<1>5. SUFFICES ASSUME ~tainted'
               PROVE  AllBehind' /\ AllApart' /\ SentInOrder'
  BY DEF Ordered, Orderly
<1>6. ~Violation /\ AllBehind /\ AllApart /\ SentInOrder
  BY <1>2, <1>5 DEF IInv, Ordered, Orderly, NoBatch
<1>7. batch.made = {} /\ request = Bound("kept")
  <2>1. batch.made = {}
    BY <1>2 DEF NoBatch
  <2>2. request = [r \in Requests |-> request[r]]
    BY DEF IInv, TypeOK
  <2>3. Bound("kept") = [r \in Requests |-> request[r]]
    BY <2>1 DEF Bound
  <2> QED BY <2>1, <2>2, <2>3
<1>8. AllBehind' /\ AllApart'
  <2>1. PICK C : C = {c}
    OBVIOUS
  <2>2. PICK at \in {"kept", "sent"} : at = "kept"
    OBVIOUS
  <2>3. /\ \A x, y \in C : x = y
        /\ C # {} => ~Violation /\ last' = NextId(Reading)
        /\ \A x \in C : New(x) /\ ~Content(x.of)
        /\ sent' \subseteq sent \cup C \cup (IF at = "sent" THEN batch.made ELSE {})
    BY <1>2, <1>4, <1>6, <2>1
  <2>4. Plain /\ request' = Bound(at)
    BY <1>2, <1>6, <1>7, <2>2 DEF Plain
  <2> QED BY <1>2, <1>6, <2>3, <2>4, BatchEnds
<1>9. \A m \in sent : m.batch <= batches /\ m.batch \in Nat
  BY DEF IInv, BatchesInTurn, TypeOK, Messages
<1>10. \A m, n \in sent' : m.of = "container" /\ n.batch = m.batch => n.id <= m.id
  BY <1>2, <1>4, <1>6, <1>9 DEF SentInOrder, IInv, TypeOK
<1> QED BY <1>8, <1>10 DEF AllApart, SentInOrder

-----------------------------------------------------------------------------
(* The theorems.                                                           *)

LEMMA InvariantInit ==
    ASSUME Init
    PROVE  IInv
<1>1. TypeOK
  BY TypeInit
<1>2. BatchesInTurn
  BY DEF Init, BatchesInTurn, NoBatch
<1>3. sent = {} /\ batch.made = {} /\ \A r \in Requests : request[r].at # "kept"
  BY DEF Init, NoBatch, NoContext
<1>4. Kept = {}
  BY <1>3 DEF Kept
<1>5. Ordered
  BY <1>3, <1>4 DEF Ordered, AllBehind, AllApart, SentInOrder
<1> QED BY <1>1, <1>2, <1>5 DEF IInv

LEMMA InvariantStep ==
    ASSUME IInv, [Next]_vars
    PROVE  IInv'
<1> USE DEF clockVars, sentVars, sessionVars, saltVars, syncVars, countVars
<1>1. SUFFICES Ordered'
  BY TypeStep, BatchesStep DEF IInv
<1>3. Ordered
  BY DEF IInv
<1>4. ASSUME UNCHANGED <<last, seqNo, sent, tainted, batch, request>>
      PROVE  Ordered'
  <2>1. Quiet
    BY <1>4 DEF Quiet, Kept, KeptMessage
  <2> QED BY <1>3, <2>1, QuietStep
<1>5. CASE Tick \/ Skew \/ LockExpires \/ FutureSalts
  BY <1>4, <1>5 DEF Tick, Skew, LockExpires, FutureSalts
<1>6. CASE UNCHANGED vars
  BY <1>4, <1>6 DEF vars
<1>7. ASSUME NEW r \in Requests, AddRequest(r)
      PROVE  Ordered'
  <2>1. \A q \in Kept' : q \in Kept /\ request'[q] = request[q]
    BY <1>7 DEF AddRequest, Kept, NoContext, IInv, TypeOK
  <2>2. Quiet
    BY <1>7, <2>1 DEF AddRequest, Quiet, KeptMessage
  <2> QED BY <1>3, <2>2, QuietStep
<1>8. CASE TransactionsMayHaveFailed
  <2>1. PICK states \in {{"sent"}, {"sent", "kept"}} :
            request' = [r \in Requests |-> IF request[r].at \in states THEN NoContext ELSE request[r]]
    BY <1>8 DEF TransactionsMayHaveFailed
  <2>2. \A q \in Kept' : q \in Kept /\ request'[q] = request[q]
    BY <2>1 DEF Kept, NoContext
  <2>3. Quiet
    BY <1>8, <2>2 DEF TransactionsMayHaveFailed, Quiet, KeptMessage
  <2> QED BY <1>3, <2>3, QuietStep
<1>9. CASE BeginBatch
  <2>1. batch.made = {} /\ ~batch.violated /\ batch'.made = {}
    BY <1>9 DEF BeginBatch, NoBatch
  <2>2. Quiet
    BY <1>9, <2>1 DEF BeginBatch, Quiet, Kept, KeptMessage
  <2> QED BY <1>3, <2>2, QuietStep
<1>10. CASE DiscardViolated
  <2>1. PICK bound, asking : bound = Bound("kept") /\ asking = Asking("lost")
    OBVIOUS
  <2>2. batch' = NoBatch /\ ResetSessionInfo(bound, asking, TRUE)
    BY <1>10, <2>1 DEF DiscardViolated, Ends
  <2> QED BY <1>3, <2>1, <2>2, ResetStep DEF IInv
<1>11. CASE FixTime
  <2>1. PICK bound, asking : bound = request /\ asking = sync
    OBVIOUS
  <2>2. batch = NoBatch /\ batch' = NoBatch /\ ResetSessionInfo(bound, asking, FALSE)
    BY <1>11, <2>1 DEF FixTime
  <2> QED BY <1>3, <2>1, <2>2, ResetStep DEF IInv
<1>12. CASE Reject
  <2>1. PICK resync \in BOOLEAN :
            ResetSessionInfo(request, IF resync /\ sync = "none" THEN "wanted" ELSE sync, FALSE)
    BY <1>12 DEF Reject
  <2>2. PICK bound, asking :
            bound = request /\ asking = IF resync /\ sync = "none" THEN "wanted" ELSE sync
    OBVIOUS
  <2>3. batch = NoBatch /\ batch' = NoBatch /\ ResetSessionInfo(bound, asking, FALSE)
    BY <1>12, <2>1, <2>2 DEF Reject
  <2> QED BY <1>3, <2>2, <2>3, ResetStep DEF IInv
<1> QED
  BY <1>5, <1>6, <1>7, <1>8, <1>9, <1>10, <1>11, <1>12, NumberKeptStep, NumberNewStep,
     CompleteStep, DiscardSaltlessStep, SendTimeFixStep DEF Next, Number, Discard

\* The invariant the two properties follow from: the counters bound all that
\* the session has numbered.
THEOREM InvariantHolds == Spec => []IInv
<1>1. Init => IInv
  BY InvariantInit
<1>2. IInv /\ [Next]_vars => IInv'
  BY InvariantStep
<1> QED BY <1>1, <1>2, PTL DEF Spec

\* No id names two messages of a session in which no violation was ignored
\* (IdsAreDistinct of Session::generateClientMessageId and the requests that
\* keep their ids).
THEOREM IdsAreDistinctAlways == Spec => []IdsAreDistinct
<1>1. IInv => IdsAreDistinct
  BY InvariantImplies
<1> QED BY InvariantHolds, <1>1, PTL

\* In such a session the sequence numbers follow the ids, and a container comes
\* after what it holds (SeqNosFollowIds of generateClientSeqNo).
THEOREM SeqNosFollowIdsAlways == Spec => []SeqNosFollowIds
<1>1. IInv => SeqNosFollowIds
  BY InvariantImplies
<1> QED BY InvariantHolds, <1>1, PTL

-----------------------------------------------------------------------------
(* The salts.                                                              *)

\* what the server lists, and what its bad_server_salts bring
Listed == {[since |-> InIds(k * Window), until |-> InIds((k + 1) * Window)] : k \in Nat}
Graced == {[since |-> ServerId(t), until |-> ServerId(t + Grace)] : t \in Nat}
AllSalts == Listed \cup Graced

\* A salt that is not good yet at m comes after the one that is good until then.
Linked(list, m) ==
    \A i \in DOMAIN list :
        list[i].since <= m \/ \E j \in DOMAIN list : j < i /\ list[j].until = list[i].since

LEMMA InIdsIsMonotone ==
    ASSUME NEW a \in Int, NEW b \in Int, a <= b
    PROVE  InIds(a) \in Int /\ InIds(b) \in Int /\ InIds(a) <= InIds(b)
<1>1. PICK c \in Nat : b = a + c
  BY b - a \in Nat
<1>2. Grain \in Nat
  BY NumberingAssumption
<1>3. b * Grain = a * Grain + c * Grain
  BY <1>1, <1>2
<1>4. c * Grain \in Nat /\ a * Grain \in Int
  BY <1>1, <1>2
<1> QED BY <1>3, <1>4 DEF InIds

LEMMA RoundUpIsMonotone ==
    ASSUME NEW m \in Int, NEW n \in Int, m <= n
    PROVE  RoundUp(m) \in Int /\ RoundUp(m) >= m /\ RoundUp(m) <= RoundUp(n)
BY DEF RoundUp

LEMMA SaltsAreNumbers ==
    ASSUME NEW s \in AllSalts
    PROVE  s.since \in Int /\ s.until \in Int
<1>1. \A t \in Int : InIds(t) \in Int
  BY InIdsIsMonotone
<1>2. \A k \in Nat : k * Window \in Int /\ (k + 1) * Window \in Int
  BY NumberingAssumption
<1>3. \A t \in Nat : ServerId(t) \in Int /\ ServerId(t + Grace) \in Int
  BY <1>1, NumberingAssumption DEF ServerId
<1> QED BY <1>1, <1>2, <1>3 DEF AllSalts, Listed, Graced

\* No salt has the first id of another that the server lists.
LEMMA FirstIdIsOwn ==
    ASSUME NEW s \in AllSalts, NEW t \in Listed, s.since = t.since
    PROVE  s = t
<1>1. PICK k \in Nat : t = [since |-> InIds(k * Window), until |-> InIds((k + 1) * Window)]
  BY DEF Listed
<1>2. CASE s \in Listed
  <2>1. PICK j \in Nat : s = [since |-> InIds(j * Window), until |-> InIds((j + 1) * Window)]
    BY <1>2 DEF Listed
  <2>2. ASSUME NEW a \in Nat, NEW b \in Nat, a < b
        PROVE  InIds(a * Window) # InIds(b * Window)
    <3>1. PICK c \in Nat : b = a + 1 + c
      BY <2>2, b - a - 1 \in Nat
    <3>2. Grain \in Nat /\ Grain >= 4 /\ Window \in Nat /\ Window >= 1
      BY NumberingAssumption
    <3>3. b * Window = a * Window + Window + c * Window
      BY <3>1, <3>2
    <3>4. c * Window \in Nat /\ a * Window \in Nat /\ b * Window \in Nat
      BY <3>1, <3>2
    <3>5. a * Window + 1 <= b * Window
      BY <3>2, <3>3, <3>4
    <3>6. InIds(a * Window + 1) <= InIds(b * Window)
      BY <3>4, <3>5, InIdsIsMonotone
    <3>7. InIds(a * Window + 1) = InIds(a * Window) + Grain
      BY <3>2, <3>4 DEF InIds
    <3>8. InIds(a * Window) \in Int
      BY <3>4, InIdsIsMonotone
    <3> QED BY <3>2, <3>6, <3>7, <3>8
  <2>3. InIds(j * Window) = InIds(k * Window)
    BY <1>1, <2>1
  <2>4. j = k
    BY <2>2, <2>3
  <2> QED BY <1>1, <2>1, <2>4
<1>3. CASE s \in Graced
  <2>1. PICK u \in Nat : s = [since |-> ServerId(u), until |-> ServerId(u + Grace)]
    BY <1>3 DEF Graced
  <2>2. InIds(u) - 3 = InIds(k * Window)
    BY <1>1, <2>1 DEF ServerId
  <2>3. k * Window \in Int /\ Grain \in Nat /\ Grain >= 4
    BY NumberingAssumption
  <2>4. CASE u <= k * Window
    BY <2>2, <2>3, <2>4, InIdsIsMonotone
  <2>5. CASE k * Window + 1 <= u
    <3>1. InIds(k * Window + 1) <= InIds(u)
      BY <2>3, <2>5, InIdsIsMonotone
    <3>2. InIds(k * Window + 1) = InIds(k * Window) + Grain
      BY <2>3 DEF InIds
    <3>3. InIds(k * Window) \in Int /\ InIds(u) \in Int
      BY <2>3, <2>5, InIdsIsMonotone
    <3> DEFINE a == InIds(k * Window)
               b == InIds(u)
               c == InIds(k * Window + 1)
    <3>4. c <= b /\ c = a + Grain /\ a \in Int /\ b \in Int /\ b - 3 = a
      BY <2>2, <3>1, <3>2, <3>3
    <3> HIDE DEF a, b, c
    <3> QED BY <2>3, <3>4
  <2> QED BY <2>3, <2>4, <2>5
<1> QED BY <1>2, <1>3 DEF AllSalts

LEMMA LinkedIsMonotone ==
    ASSUME NEW list \in Seq(AllSalts), NEW m \in Int, NEW n \in Int, m <= n, Linked(list, m)
    PROVE  Linked(list, n)
<1>1. \A i \in DOMAIN list : list[i].since \in Int
  BY SaltsAreNumbers, ElementOfSeq
<1> QED BY <1>1 DEF Linked

LEMMA ConcatIsLinked ==
    ASSUME NEW p \in Seq(AllSalts), NEW q \in Seq(AllSalts), NEW m \in Int,
           Linked(p, m), Linked(q, m)
    PROVE  Linked(p \o q, m)
<1>1. /\ p \o q \in Seq(AllSalts) /\ Len(p \o q) = Len(p) + Len(q)
      /\ \A i \in 1..Len(p) + Len(q) : (p \o q)[i] = IF i <= Len(p) THEN p[i] ELSE q[i - Len(p)]
  BY ConcatProperties
<1>2. Len(p) \in Nat /\ Len(q) \in Nat /\ DOMAIN p = 1..Len(p) /\ DOMAIN q = 1..Len(q)
  OBVIOUS
<1>0. DOMAIN (p \o q) = 1..Len(p) + Len(q)
  BY <1>1, LenProperties
<1> SUFFICES ASSUME NEW i \in 1..Len(p) + Len(q), ~((p \o q)[i].since <= m)
             PROVE  \E j \in 1..Len(p) + Len(q) : j < i /\ (p \o q)[j].until = (p \o q)[i].since
  BY <1>0, Zenon DEF Linked
<1>3. CASE i <= Len(p)
  <2>1. i \in DOMAIN p /\ (p \o q)[i] = p[i]
    BY <1>1, <1>2, <1>3
  <2>2. PICK j \in DOMAIN p : j < i /\ p[j].until = p[i].since
    BY <2>1 DEF Linked
  <2>3. j \in 1..Len(p) + Len(q) /\ (p \o q)[j] = p[j]
    BY <1>1, <1>2, <2>2
  <2> QED BY <2>1, <2>2, <2>3
<1>4. CASE ~(i <= Len(p))
  <2>1. i - Len(p) \in DOMAIN q /\ (p \o q)[i] = q[i - Len(p)]
    BY <1>1, <1>2, <1>4
  <2>2. PICK j \in DOMAIN q : j < i - Len(p) /\ q[j].until = q[i - Len(p)].since
    BY <2>1 DEF Linked
  <2>3. j + Len(p) \in 1..Len(p) + Len(q) /\ (p \o q)[j + Len(p)] = q[j] /\ j + Len(p) < i
    BY <1>1, <1>2, <2>2
  <2> QED BY <2>1, <2>2, <2>3
<1> QED BY <1>3, <1>4

LEMMA WindowsAreLinked ==
    ASSUME NEW t \in Nat, NEW n \in Nat
    PROVE  Windows(t, n) \in Seq(Listed) /\ Linked(Windows(t, n), InIds(t))
<1> DEFINE k == t \div Window
           w(i) == [since |-> InIds((k + i - 1) * Window), until |-> InIds((k + i) * Window)]
<1>1. Window \in Nat /\ Window > 0
  BY NumberingAssumption
<1>2. k \in Nat /\ k * Window <= t
  BY <1>1
<1>3. Windows(t, n) = [i \in 1..n |-> w(i)]
  BY DEF Windows
<1>4. ASSUME NEW i \in 1..n
      PROVE  w(i) \in Listed
  <2>1. k + i - 1 \in Nat /\ (k + i - 1) + 1 = k + i
    BY <1>2
  <2> HIDE DEF k
  <2> QED BY <2>1 DEF Listed
<1>5. \A i \in 1..n : i # 1 => i - 1 \in 1..n /\ w(i - 1).until = w(i).since
  <2> SUFFICES ASSUME NEW i \in 1..n, i # 1
               PROVE  i - 1 \in 1..n /\ w(i - 1).until = w(i).since
    OBVIOUS
  <2>1. i - 1 \in 1..n /\ k + (i - 1) = k + i - 1
    BY <1>2
  <2> HIDE DEF k
  <2> QED BY <2>1
<1>6. w(1).since <= InIds(t)
  <2>1. w(1).since = InIds((k + 1 - 1) * Window)
    OBVIOUS
  <2>2. k + 1 - 1 = k /\ k * Window \in Int
    BY <1>1, <1>2
  <2> HIDE DEF k, w
  <2>3. w(1).since = InIds(k * Window)
    BY <2>1, <2>2
  <2> QED BY <1>2, <2>2, <2>3, InIdsIsMonotone
<1> HIDE DEF k, w
<1>7. Windows(t, n) \in Seq(Listed)
  BY <1>3, <1>4
<1> QED BY <1>3, <1>5, <1>6, <1>7 DEF Linked

-----------------------------------------------------------------------------
(* The lookup that erases.                                                 *)

\* the order of the numbers, for the least of a set of them
Below == {p \in Nat \X Nat : p[1] < p[2]}

LEMMA BelowIsWellFounded == IsWellFoundedOn(Below, Nat)
<1>1. Below = OpToRel(<, Nat)
  BY DEF Below, OpToRel
<1>2. IsWellFoundedOn(OpToRel(<, Nat), Nat)
  BY NatLessThanWellFounded
<1> QED BY <1>1, <1>2

LEMMA LeastExists ==
    ASSUME NEW F \in SUBSET Nat, F # {}
    PROVE  \E x \in F : \A y \in F : x <= y
<1>1. \E x \in F : \A y \in F : ~(<<y, x>> \in Below)
  BY BelowIsWellFounded, WFMin, Zenon
<1>2. PICK x \in F : \A y \in F : ~(<<y, x>> \in Below)
  BY <1>1
<1>3. \A y \in F : x <= y
  <2> SUFFICES ASSUME NEW y \in F PROVE x <= y
    OBVIOUS
  <2>1. x \in Nat /\ y \in Nat
    OBVIOUS
  <2>2. y < x => <<y, x>> \in Below
    BY <2>1 DEF Below
  <2> QED BY <1>2, <2>1, <2>2
<1> QED BY <1>3

LEMMA FirstIsLeast ==
    ASSUME NEW F \in SUBSET Nat, F # {}
    PROVE  First(F) \in F /\ \A y \in F : First(F) <= y
BY LeastExists DEF First

\* What the lookup passes is no longer good, if the salts are linked.
LEMMA PassedIsOver ==
    ASSUME salts \in Seq(AllSalts), NEW m \in Int, Linked(salts, m),
           NEW i \in DOMAIN salts, \A j \in Covering(m) : i < j
    PROVE  salts[i].until < m
<1>0. DOMAIN salts = 1..Len(salts) /\ Len(salts) \in Nat
  OBVIOUS
<1>1. \A j \in DOMAIN salts : salts[j].since \in Int /\ salts[j].until \in Int
  BY SaltsAreNumbers, ElementOfSeq
<1>2. i \in Nat
  BY <1>0
<1>3. \A j \in DOMAIN salts : j <= i => j \notin Covering(m)
  BY <1>0
<1> DEFINE Early == {j \in DOMAIN salts : j <= i /\ ~(salts[j].since <= m)}
<1>4. Early = {}
  <2> SUFFICES ASSUME Early # {} PROVE FALSE
    OBVIOUS
  <2>1. Early \in SUBSET Nat
    BY <1>0
  <2>2. PICK x \in Early : \A y \in Early : x <= y
    BY <2>1, LeastExists
  <2>3. PICK j \in DOMAIN salts : j < x /\ salts[j].until = salts[x].since
    BY <2>2 DEF Linked
  <2>4. j <= i /\ j \notin Early
    BY <1>0, <2>2, <2>3
  <2>5. salts[j].since <= m /\ m <= salts[j].until
    BY <1>1, <2>2, <2>3, <2>4
  <2> QED BY <1>3, <2>3, <2>4, <2>5 DEF Covering
<1>5. salts[i].since <= m
  BY <1>2, <1>4
<1> QED BY <1>1, <1>3, <1>2, <1>5 DEF Covering

LEMMA LookupIsTyped ==
    ASSUME salts \in Seq(AllSalts), NEW m \in Int
    PROVE  SaltsFrom(m) \in Seq(AllSalts)
<1>1. CASE Covering(m) = {}
  BY <1>1, EmptySeq DEF SaltsFrom
<1>2. CASE Covering(m) # {}
  <2>1. Covering(m) \in SUBSET Nat /\ Covering(m) \subseteq 1..Len(salts)
    BY DEF Covering
  <2>2. First(Covering(m)) \in 1..Len(salts)
    BY <1>2, <2>1, FirstIsLeast
  <2>3. SubSeq(salts, First(Covering(m)), Len(salts)) \in Seq(AllSalts)
    BY <2>2, SubSeqProperties
  <2> QED BY <1>2, <2>3 DEF SaltsFrom
<1> QED BY <1>1, <1>2

LEMMA LookupKeeps ==
    ASSUME salts \in Seq(AllSalts), NEW m \in Int, Linked(salts, m)
    PROVE  /\ Linked(SaltsFrom(m), m)
           /\ \A s \in SaltsIn(salts) : s.until > m => s \in SaltsIn(SaltsFrom(m))
<1>0. DOMAIN salts = 1..Len(salts) /\ Len(salts) \in Nat
  OBVIOUS
<1>1. \A j \in DOMAIN salts : salts[j].since \in Int /\ salts[j].until \in Int
  BY SaltsAreNumbers, ElementOfSeq
<1>2. CASE Covering(m) = {}
  <2>1. \A i \in DOMAIN salts : salts[i].until < m
    BY <1>2, PassedIsOver
  <2>2. SaltsFrom(m) = <<>>
    BY <1>2 DEF SaltsFrom
  <2>3. \A s \in SaltsIn(salts) : ~(s.until > m)
    BY <1>1, <2>1 DEF SaltsIn
  <2>4. Linked(<<>>, m)
    BY DEF Linked
  <2> QED BY <2>2, <2>3, <2>4
<1>3. CASE Covering(m) # {}
  <2> DEFINE f == First(Covering(m))
             n == Len(salts)
             rest == SubSeq(salts, f, n)
  <2>1. Covering(m) \in SUBSET Nat /\ Covering(m) \subseteq 1..n
    BY DEF Covering
  <2>2. f \in 1..n /\ \A j \in Covering(m) : f <= j
    BY <1>3, <2>1, FirstIsLeast
  <2>3. SaltsFrom(m) = rest
    BY <1>3 DEF SaltsFrom
  <2>4. /\ rest \in Seq(AllSalts) /\ Len(rest) = n - f + 1
        /\ \A k \in 1..n - f + 1 : rest[k] = salts[f + k - 1]
    BY <2>2, SubSeqProperties
  <2>5. DOMAIN rest = 1..n - f + 1
    BY <2>4, LenProperties
  <2>6. ASSUME NEW i \in DOMAIN salts, ~(salts[i].until < m)
        PROVE  i - f + 1 \in DOMAIN rest /\ rest[i - f + 1] = salts[i]
    <3>1. ~(\A j \in Covering(m) : i < j)
      BY <2>6, PassedIsOver
    <3>2. f <= i
      BY <1>0, <2>1, <2>2, <3>1
    <3>3. i - f + 1 \in 1..n - f + 1 /\ f + (i - f + 1) - 1 = i
      BY <1>0, <2>2, <3>2
    <3> HIDE DEF f, n, rest
    <3> QED BY <2>4, <2>5, <3>3
  <2>7. ASSUME NEW s \in SaltsIn(salts), s.until > m
        PROVE  s \in SaltsIn(rest)
    <3>1. PICK i \in DOMAIN salts : s = salts[i]
      BY DEF SaltsIn
    <3>2. ~(salts[i].until < m)
      BY <1>1, <2>7, <3>1
    <3> HIDE DEF f, n, rest
    <3> QED BY <2>6, <3>1, <3>2 DEF SaltsIn
  <2>8. ASSUME NEW k \in DOMAIN rest, ~(rest[k].since <= m)
        PROVE  \E j \in DOMAIN rest : j < k /\ rest[j].until = rest[k].since
    <3> DEFINE i == f + k - 1
    <3>0. f \in Nat /\ n \in Nat /\ k \in Nat /\ k <= n - f + 1 /\ k >= 1 /\ f >= 1
      BY <1>0, <2>2, <2>5
    <3>1. i \in DOMAIN salts /\ rest[k] = salts[i]
      BY <1>0, <2>4, <2>5, <3>0
    <3>2. PICK j \in DOMAIN salts : j < i /\ salts[j].until = salts[i].since
      BY <2>8, <3>1 DEF Linked
    <3>3. ~(salts[j].until < m)
      BY <1>1, <2>8, <3>1, <3>2
    <3>4. j - f + 1 \in DOMAIN rest /\ rest[j - f + 1] = salts[j]
      BY <2>6, <3>2, <3>3
    <3>5. j - f + 1 < k
      BY <1>0, <3>0, <3>2
    <3> HIDE DEF f, n, rest, i
    <3> QED BY <3>1, <3>2, <3>4, <3>5
  <2> HIDE DEF f, n, rest
  <2>9. Linked(rest, m)
    BY <2>8 DEF Linked
  <2> QED BY <2>3, <2>7, <2>9
<1> QED BY <1>2, <1>3

-----------------------------------------------------------------------------
(* The merge, one salt after the other.                                    *)

\* what mergeSaltset leaves out
LeftOut(all, i, n, now, before) ==
    \/ all[i].until <= now
    \/ i > n /\ \E s \in SaltsIn(before) : s.since = all[i].since

\* f[i]: what the first i salts are merged to
Merging(f, all, n, now) ==
    /\ f[0] = <<>>
    /\ \A i \in 1..Len(all) :
          f[i] = IF LeftOut(all, i, n, now, f[i - 1]) THEN f[i - 1] ELSE Append(f[i - 1], all[i])

\* the right side of the function's definition
MergedBy(f, all, n, now) ==
    [i \in 0..Len(all) |->
        IF i = 0 THEN <<>>
        ELSE IF LeftOut(all, i, n, now, f[i - 1]) THEN f[i - 1] ELSE Append(f[i - 1], all[i])]

\* The recursive function exists.
LEMMA MergingExists ==
    ASSUME NEW all, Len(all) \in Nat, NEW n, NEW now
    PROVE  \E f : f = MergedBy(f, all, n, now)
<1> DEFINE next(i, before) ==
               IF i = 0 THEN <<>>
               ELSE IF LeftOut(all, i, n, now, before) THEN before ELSE Append(before, all[i])
           upTo(k, f) == f = [i \in 0..k |-> next(i, f[i - 1])]
           None == {k \in Nat : ~\E f : upTo(k, f)}
<1>1. None = {}
  <2> SUFFICES ASSUME None # {} PROVE FALSE
    OBVIOUS
  <2>1. None \in SUBSET Nat
    OBVIOUS
  <2>2. PICK k \in None : \A j \in None : k <= j
    <3> HIDE DEF None
    <3> QED BY <2>1, LeastExists
  <2>3. k \in Nat /\ ~\E f : upTo(k, f)
    OBVIOUS
  <2>4. CASE k = 0
    <3> DEFINE g == [i \in 0..0 |-> <<>>]
    <3>1. \A i \in 0..0 : next(i, g[i - 1]) = <<>>
      OBVIOUS
    <3> HIDE DEF next
    <3>2. upTo(0, g)
      BY <3>1
    <3> QED BY <2>3, <2>4, <3>2
  <2>5. CASE k # 0
    <3>1. k - 1 \in Nat /\ k - 1 < k
      BY <2>3, <2>5
    <3>2. k - 1 \notin None
      <4> HIDE DEF None
      <4> QED BY <2>2, <2>3, <3>1
    <3>3. PICK f : upTo(k - 1, f)
      BY <3>1, <3>2
    <3> DEFINE g == [i \in 0..k |-> IF i < k THEN f[i] ELSE next(k, f[k - 1])]
    <3> HIDE DEF next
    <3>4. \A i \in 0..k : g[i] = next(i, g[i - 1])
      <4> SUFFICES ASSUME NEW i \in 0..k PROVE g[i] = next(i, g[i - 1])
        OBVIOUS
      <4>1. CASE i = 0
        <5>1. \A before : next(0, before) = <<>>
          BY DEF next
        <5>2. g[0] = f[0] /\ f[0] = next(0, f[0 - 1])
          BY <2>3, <3>1, <3>3, <4>1, <2>5
        <5> QED BY <4>1, <5>1, <5>2
      <4>2. CASE i # 0
        <5>1. i - 1 \in 0..k /\ i - 1 < k
          BY <2>3, <4>2
        <5>2. g[i - 1] = f[i - 1]
          BY <5>1
        <5>3. CASE i = k
          BY <2>3, <5>2, <5>3
        <5>4. CASE i # k
          <6>1. i \in 0..(k - 1) /\ i < k
            BY <2>3, <5>4
          <6>2. f[i] = next(i, f[i - 1])
            BY <3>3, <6>1
          <6> QED BY <5>2, <6>1, <6>2
        <5> QED BY <5>3, <5>4
      <4> QED BY <4>1, <4>2
    <3>5. g = [i \in 0..k |-> g[i]]
      OBVIOUS
    <3> HIDE DEF g
    <3>6. upTo(k, g)
      BY <3>4, <3>5
    <3> QED BY <2>3, <3>6
  <2> QED BY <2>4, <2>5
<1>2. \E f : upTo(Len(all), f)
  BY <1>1
<1> QED BY <1>2 DEF MergedBy

LEMMA MergeIsMerging ==
    ASSUME NEW old, NEW new, NEW now, Len(old \o new) \in Nat
    PROVE  \E f : /\ Merging(f, old \o new, Len(old), now)
                  /\ Merge(old, new, now) = f[Len(old \o new)]
<1> DEFINE all == old \o new
           merged == CHOOSE f : f = MergedBy(f, all, Len(old), now)
<1>0. Len(all) \in Nat
  OBVIOUS
<1>1. \E f : f = MergedBy(f, all, Len(old), now)
  BY <1>0, MergingExists
<1>2. merged = MergedBy(merged, all, Len(old), now)
  BY <1>1
<1>3. Merge(old, new, now) = merged[Len(all)]
  BY DEF Merge, LeftOut, MergedBy
<1>4. Merging(merged, all, Len(old), now)
  <2>1. merged[0] = <<>>
    <3>1. 0 \in 0..Len(all)
      BY <1>0
    <3>2. MergedBy(merged, all, Len(old), now)[0] = <<>>
      BY <3>1 DEF MergedBy
    <3> QED BY <1>2, <3>2
  <2>2. \A i \in 1..Len(all) : i \in 0..Len(all) /\ i # 0
    OBVIOUS
  <2>3. \A i \in 1..Len(all) :
            merged[i] = IF LeftOut(all, i, Len(old), now, merged[i - 1])
                        THEN merged[i - 1] ELSE Append(merged[i - 1], all[i])
    BY <1>2, <2>2 DEF MergedBy
  <2> QED BY <2>1, <2>3 DEF Merging
<1> QED BY <1>3, <1>4

\* what has been merged of the first i salts
Merged(f, all, i, now, m) ==
    /\ f[i] \in Seq(AllSalts)
    /\ \A j \in 1..i : all[j].until > now => all[j] \in SaltsIn(f[i])
    /\ Linked(f[i], m)

LEMMA MergingKeeps ==
    ASSUME NEW all \in Seq(AllSalts), NEW n \in Nat, NEW now \in Int, NEW m \in Int, now <= m,
           \A i \in DOMAIN all : i > n => all[i] \in Listed,
           Linked(all, m),
           NEW f, Merging(f, all, n, now)
    PROVE  Merged(f, all, Len(all), now, m)
<1> DEFINE Failing == {i \in 0..Len(all) : ~Merged(f, all, i, now, m)}
<1> SUFFICES ASSUME Failing # {} PROVE FALSE
  BY Len(all) \in Nat
<1>1. Failing \in SUBSET Nat
  OBVIOUS
<1>2. PICK i \in Failing : \A j \in Failing : i <= j
  <2> HIDE DEF Failing
  <2> QED BY <1>1, LeastExists
<1>3. i \in 0..Len(all) /\ ~Merged(f, all, i, now, m)
  OBVIOUS
<1>4. i # 0
  <2>1. f[0] = <<>>
    BY DEF Merging
  <2>2. <<>> \in Seq(AllSalts) /\ Linked(<<>>, m)
    BY DEF Linked
  <2>3. Merged(f, all, 0, now, m)
    BY <2>1, <2>2 DEF Merged
  <2> HIDE DEF Failing
  <2> QED BY <1>3, <2>3
<1>5. i \in 1..Len(all) /\ i - 1 \in 0..Len(all) /\ i - 1 < i
  BY <1>3, <1>4
<1>6. Merged(f, all, i - 1, now, m)
  BY <1>2, <1>5
<1> HIDE DEF Failing
<1> DEFINE was == f[i - 1]
           salt == all[i]
<1>7. was \in Seq(AllSalts) /\ Linked(was, m)
  BY <1>6 DEF Merged
<1>8. \A j \in 1..i : j # i => j \in 1..(i - 1)
  BY <1>5
<1>9. \A j \in 1..i : j # i /\ all[j].until > now => all[j] \in SaltsIn(was)
  BY <1>6, <1>8 DEF Merged
<1>10. salt \in AllSalts /\ salt.since \in Int /\ salt.until \in Int /\ i \in DOMAIN all
  BY <1>5, ElementOfSeq, SaltsAreNumbers
<1>11. CASE LeftOut(all, i, n, now, was)
  <2>1. f[i] = was
    BY <1>5, <1>11 DEF Merging
  <2>2. salt.until > now => salt \in SaltsIn(was)
    <3> SUFFICES ASSUME salt.until > now PROVE salt \in SaltsIn(was)
      OBVIOUS
    <3>1. i > n /\ \E s \in SaltsIn(was) : s.since = salt.since
      BY <1>10, <1>11 DEF LeftOut
    <3>2. PICK s \in SaltsIn(was) : s.since = salt.since
      BY <3>1
    <3>3. s \in AllSalts
      BY <1>7, ElementOfSeq DEF SaltsIn
    <3>4. salt \in Listed
      BY <1>10, <3>1
    <3> QED BY <3>2, <3>3, <3>4, FirstIdIsOwn
  <2>3. \A j \in 1..i : all[j].until > now => all[j] \in SaltsIn(f[i])
    BY <1>9, <2>1, <2>2
  <2> QED BY <1>3, <1>7, <2>1, <2>3 DEF Merged
<1>12. CASE ~LeftOut(all, i, n, now, was)
  <2> DEFINE l == Len(was)
  <2>1. f[i] = Append(was, salt)
    BY <1>5, <1>12 DEF Merging
  <2>2. /\ Append(was, salt) \in Seq(AllSalts) /\ Len(Append(was, salt)) = l + 1
        /\ \A j \in 1..l : Append(was, salt)[j] = was[j]
        /\ Append(was, salt)[l + 1] = salt
    BY <1>7, <1>10, AppendProperties
  <2>3. DOMAIN was = 1..l /\ l \in Nat /\ DOMAIN Append(was, salt) = 1..(l + 1)
    BY <1>7, <2>2, LenProperties
  <2>4. SaltsIn(was) \subseteq SaltsIn(f[i]) /\ salt \in SaltsIn(f[i])
    <3> HIDE DEF was, salt, l
    <3>1. \A j \in 1..l : j \in 1..(l + 1)
      BY <2>3
    <3>2. l + 1 \in 1..(l + 1)
      BY <2>3
    <3> QED BY <2>1, <2>2, <2>3, <3>1, <3>2 DEF SaltsIn
  <2>5. \A j \in 1..i : all[j].until > now => all[j] \in SaltsIn(f[i])
    BY <1>9, <2>4
  <2>6. ~(salt.since <= m) => \E j \in 1..l : was[j].until = salt.since
    <3> SUFFICES ASSUME ~(salt.since <= m) PROVE \E j \in 1..l : was[j].until = salt.since
      OBVIOUS
    <3>1. PICK j \in DOMAIN all : j < i /\ all[j].until = salt.since
      BY <1>10 DEF Linked
    <3>2. j \in 1..i /\ j # i
      BY <1>5, <3>1
    <3>3. all[j].until > now
      BY <1>10, <3>1
    <3>4. all[j] \in SaltsIn(was)
      BY <1>9, <3>2, <3>3
    <3> HIDE DEF was, salt, l
    <3> QED BY <2>3, <3>1, <3>4 DEF SaltsIn
  <2>7. Linked(f[i], m)
    <3> HIDE DEF was, salt, l
    <3> SUFFICES ASSUME NEW k \in 1..(l + 1), ~(f[i][k].since <= m)
                 PROVE  \E j \in 1..(l + 1) : j < k /\ f[i][j].until = f[i][k].since
      BY <2>1, <2>3, Zenon DEF Linked
    <3>1. CASE k = l + 1
      <4>1. PICK j \in 1..l : was[j].until = salt.since
        BY <2>1, <2>2, <2>6, <3>1
      <4>2. j \in 1..(l + 1) /\ j < k
        BY <2>3, <3>1
      <4> QED BY <2>1, <2>2, <3>1, <4>1, <4>2
    <3>2. CASE k # l + 1
      <4>1. k \in 1..l /\ f[i][k] = was[k]
        BY <2>1, <2>2, <2>3, <3>2
      <4>2. PICK j \in 1..l : j < k /\ was[j].until = was[k].since
        BY <1>7, <2>3, <4>1 DEF Linked
      <4>3. j \in 1..(l + 1) /\ f[i][j] = was[j]
        BY <2>1, <2>2, <2>3
      <4> QED BY <4>1, <4>2, <4>3
    <3> QED BY <3>1, <3>2
  <2> QED BY <1>3, <2>1, <2>2, <2>5, <2>7 DEF Merged
<1> QED BY <1>11, <1>12

LEMMA MergeKeeps ==
    ASSUME NEW old \in Seq(AllSalts), NEW new \in Seq(Listed), NEW now \in Int, NEW m \in Int,
           now <= m, Linked(old, m), Linked(new, m)
    PROVE  /\ Linked(Merge(old, new, now), m)
           /\ \A s \in SaltsIn(old) \cup SaltsIn(new) :
                  s.until > now => s \in SaltsIn(Merge(old, new, now))
<1> DEFINE all == old \o new
           n == Len(old)
           k == Len(new)
<1>0. new \in Seq(AllSalts)
  BY SeqMonotonic DEF AllSalts
<1>1. /\ all \in Seq(AllSalts) /\ Len(all) = n + k
      /\ \A i \in 1..n + k : all[i] = IF i <= n THEN old[i] ELSE new[i - n]
  BY <1>0, ConcatProperties
<1>2. n \in Nat /\ k \in Nat /\ DOMAIN old = 1..n /\ DOMAIN new = 1..k /\ DOMAIN all = 1..n + k
  BY <1>0, <1>1, LenProperties
<1>3. Linked(all, m)
  BY <1>0, ConcatIsLinked
<1>4. Len(all) \in Nat
  BY <1>1, <1>2
<1>5. PICK f : Merging(f, all, n, now) /\ Merge(old, new, now) = f[Len(all)]
  BY <1>4, MergeIsMerging
<1> HIDE DEF all, n, k
<1>6. \A i \in DOMAIN all : i > n => all[i] \in Listed
  <2> SUFFICES ASSUME NEW i \in DOMAIN all, i > n PROVE all[i] \in Listed
    OBVIOUS
  <2>1. i - n \in DOMAIN new /\ all[i] = new[i - n]
    BY <1>1, <1>2
  <2> QED BY <1>2, <2>1, ElementOfSeq DEF k
<1>7. Merged(f, all, Len(all), now, m)
  BY <1>1, <1>2, <1>3, <1>5, <1>6, MergingKeeps
<1>8. \A s \in SaltsIn(old) \cup SaltsIn(new) : \E i \in 1..Len(all) : s = all[i]
  <2>1. ASSUME NEW i \in DOMAIN old
        PROVE  i \in 1..Len(all) /\ old[i] = all[i]
    BY <1>1, <1>2
  <2>2. ASSUME NEW i \in DOMAIN new
        PROVE  i + n \in 1..Len(all) /\ new[i] = all[i + n]
    BY <1>1, <1>2
  <2> QED BY <2>1, <2>2 DEF SaltsIn
<1> QED BY <1>5, <1>7, <1>8 DEF Merged

\* the types only, whatever the order of the salts
LEMMA MergeIsTyped ==
    ASSUME NEW old \in Seq(AllSalts), NEW new \in Seq(Listed), NEW now \in Int
    PROVE  Merge(old, new, now) \in Seq(AllSalts)
<1> DEFINE all == old \o new
           n == Len(old)
<1>0. new \in Seq(AllSalts)
  BY SeqMonotonic DEF AllSalts
<1>1. all \in Seq(AllSalts) /\ Len(all) \in Nat /\ DOMAIN all = 1..Len(all)
  BY <1>0, ConcatProperties, LenProperties
<1>2. PICK f : Merging(f, all, n, now) /\ Merge(old, new, now) = f[Len(all)]
  BY <1>1, MergeIsMerging
<1> HIDE DEF all, n
<1> DEFINE Failing == {i \in 0..Len(all) : f[i] \notin Seq(AllSalts)}
<1>3. Failing = {}
  <2> SUFFICES ASSUME Failing # {} PROVE FALSE
    OBVIOUS
  <2>1. Failing \in SUBSET Nat
    BY <1>1
  <2>2. PICK i \in Failing : \A j \in Failing : i <= j
    <3> HIDE DEF Failing
    <3> QED BY <2>1, LeastExists
  <2>3. i \in 0..Len(all) /\ f[i] \notin Seq(AllSalts)
    OBVIOUS
  <2>4. i # 0
    <3>1. f[0] = <<>> /\ <<>> \in Seq(AllSalts)
      BY <1>2 DEF Merging
    <3> HIDE DEF Failing
    <3> QED BY <2>3, <3>1
  <2>5. i \in 1..Len(all) /\ i - 1 \in 0..Len(all) /\ ~(i <= i - 1)
    BY <1>1, <2>3, <2>4
  <2>6. f[i - 1] \in Seq(AllSalts)
    BY <2>2, <2>5
  <2>7. all[i] \in AllSalts
    BY <1>1, <2>5, ElementOfSeq
  <2>8. f[i] = f[i - 1] \/ f[i] = Append(f[i - 1], all[i])
    BY <1>2, <2>5 DEF Merging
  <2>9. Append(f[i - 1], all[i]) \in Seq(AllSalts)
    BY <2>6, <2>7, AppendProperties
  <2> HIDE DEF Failing
  <2> QED BY <2>3, <2>6, <2>8, <2>9
<1> QED BY <1>1, <1>2, <1>3

-----------------------------------------------------------------------------
(* What is known of the salts.                                             *)

SaltType ==
    /\ salts \in Seq(AllSalts) /\ heard \in Seq(Listed) /\ given \subseteq AllSalts

\* those collected come one after the other up to the time of the request that
\* is on its way, so that its answer, which is no older, goes on from there
HeardInOrder ==
    /\ asked <= time
    /\ Linked(heard, InIds(time))
    /\ sync = "asked" => Linked(heard, InIds(asked))

SaltInv ==
    /\ SaltType
    /\ HeardInOrder
    /\ ~turnedBack => Linked(salts, RoundUp(Reading)) /\ SaltsAreKept

LEMMA SaltInit ==
    ASSUME Init
    PROVE  SaltInv
<1>1. <<>> \in Seq(AllSalts) /\ <<>> \in Seq(Listed)
  OBVIOUS
<1>2. \A m : Linked(<<>>, m)
  BY DEF Linked
<1>3. asked <= time
  BY NumberingAssumption DEF Init
<1> QED BY <1>1, <1>2, <1>3 DEF Init, SaltInv, SaltType, HeardInOrder, SaltsAreKept

\* the clock, the salts and the requests for them are left alone
SaltsQuiet ==
    /\ UNCHANGED <<time, off, salts, heard, given, turnedBack, asked>>
    /\ sync' = "asked" => sync = "asked"

LEMMA SaltsQuietStep ==
    ASSUME SaltInv, SaltsQuiet
    PROVE  SaltInv'
<1>1. Reading' = Reading
  BY DEF SaltsQuiet, Reading
<1>2. SaltType'
  BY DEF SaltInv, SaltType, SaltsQuiet
<1>3. HeardInOrder'
  BY DEF SaltInv, HeardInOrder, SaltsQuiet, Linked
<1>4. ~turnedBack' => Linked(salts, RoundUp(Reading))' /\ SaltsAreKept'
  BY <1>1 DEF SaltInv, SaltsQuiet, Linked, SaltsAreKept
<1> QED BY <1>2, <1>3, <1>4 DEF SaltInv

\* the reading goes on
LEMMA ReadingOnStep ==
    ASSUME TypeOK, TypeOK', SaltType, UNCHANGED <<salts, given>>, Reading <= Reading',
           Linked(salts, RoundUp(Reading)), ~turnedBack, SaltsAreKept
    PROVE  Linked(salts, RoundUp(Reading))' /\ SaltsAreKept'
<1>1. Reading \in Nat
  BY ReadingIsId
<1>2. Reading' \in Nat
  <2>1. time' + off' \in Nat /\ Grain \in Nat
    BY NumberingAssumption DEF TypeOK
  <2> QED BY <2>1 DEF Reading
<1>3. RoundUp(Reading) \in Int /\ RoundUp(Reading') \in Int /\ RoundUp(Reading) <= RoundUp(Reading')
  BY <1>1, <1>2, RoundUpIsMonotone
<1>4. Linked(salts, RoundUp(Reading'))
  BY <1>3, LinkedIsMonotone DEF SaltType
<1>5. \A s \in given : s.until \in Int
  BY SaltsAreNumbers DEF SaltType
<1>6. \A s \in given : s.until > RoundUp(Reading') => s \in SaltsIn(salts)
  BY <1>3, <1>5 DEF SaltsAreKept
<1> QED BY <1>4, <1>6 DEF SaltsAreKept, Linked, SaltsIn

LEMMA TickKeepsSalts ==
    ASSUME TypeOK, TypeOK', SaltInv, Tick
    PROVE  SaltInv'
<1> USE DEF saltVars, syncVars, sentVars
<1>1. time' = time + 1 /\ UNCHANGED <<off, salts, given, heard, sync, asked, turnedBack>>
  BY DEF Tick
<1>2. time \in Nat /\ asked \in Nat /\ off \in Int
  BY DEF TypeOK
<1>3. InIds(time) \in Int /\ InIds(time + 1) \in Int /\ InIds(time) <= InIds(time + 1)
  BY <1>2, InIdsIsMonotone
<1>4. heard \in Seq(AllSalts)
  BY SeqMonotonic DEF SaltInv, SaltType, AllSalts
<1>5. Linked(heard, InIds(time + 1))
  BY <1>3, <1>4, LinkedIsMonotone DEF SaltInv, HeardInOrder
<1>6. HeardInOrder'
  BY <1>1, <1>2, <1>5 DEF SaltInv, HeardInOrder, Linked, InIds
<1>7. Reading <= Reading'
  <2>1. Reading = InIds(time + off) /\ Reading' = InIds(time + off + 1)
    BY <1>1, <1>2 DEF Reading, InIds
  <2> QED BY <1>2, <2>1, InIdsIsMonotone
<1>8. ~turnedBack' => Linked(salts, RoundUp(Reading))' /\ SaltsAreKept'
  BY <1>1, <1>7, ReadingOnStep DEF SaltInv
<1>9. SaltType'
  BY <1>1 DEF SaltInv, SaltType
<1> QED BY <1>6, <1>8, <1>9 DEF SaltInv

LEMMA SkewKeepsSalts ==
    ASSUME TypeOK, TypeOK', SaltInv, Skew
    PROVE  SaltInv'
<1> USE DEF saltVars, syncVars, sentVars
<1>1. PICK s \in Skews : off' = off + s /\ turnedBack' = (turnedBack \/ s < 0)
  BY DEF Skew
<1>2. UNCHANGED <<time, salts, given, heard, sync, asked>>
  BY DEF Skew
<1>3. time \in Nat /\ off \in Int /\ s \in Int
  BY NumberingAssumption DEF TypeOK
<1>4. HeardInOrder'
  BY <1>2 DEF SaltInv, HeardInOrder, Linked
<1>5. ~turnedBack' => Reading <= Reading'
  <2>1. Reading = InIds(time + off) /\ Reading' = InIds(time + off + s)
    BY <1>1, <1>2, <1>3 DEF Reading, InIds
  <2>2. ~(s < 0) => time + off <= time + off + s
    BY <1>3
  <2>3. ~turnedBack' => ~(s < 0)
    BY <1>1, Zenon
  <2>4. ~(s < 0) => InIds(time + off) <= InIds(time + off + s)
    BY <1>3, <2>2, InIdsIsMonotone
  <2> QED BY <2>1, <2>3, <2>4
<1>6. ~turnedBack' => Linked(salts, RoundUp(Reading))' /\ SaltsAreKept'
  BY <1>1, <1>2, <1>5, ReadingOnStep DEF SaltInv
<1>7. SaltType'
  BY <1>2 DEF SaltInv, SaltType
<1> QED BY <1>4, <1>6, <1>7 DEF SaltInv

LEMMA BeginBatchKeepsSalts ==
    ASSUME TypeOK, SaltInv, BeginBatch
    PROVE  SaltInv'
<1> USE DEF syncVars, sentVars, clockVars
<1> DEFINE m == RoundUp(Reading)
<1>1. salts' = SaltsFrom(m) /\ UNCHANGED <<time, off, given, heard, sync, asked, turnedBack>>
  BY DEF BeginBatch
<1>2. m \in Int /\ Reading' = Reading
  BY <1>1, ReadingIsId, RoundUpIsUp DEF Reading
<1>3. SaltType'
  BY <1>1, <1>2, LookupIsTyped DEF SaltInv, SaltType
<1>4. HeardInOrder'
  BY <1>1 DEF SaltInv, HeardInOrder, Linked
<1>5. ASSUME ~turnedBack
      PROVE  Linked(salts, RoundUp(Reading))' /\ SaltsAreKept'
  <2>1. Linked(salts, m) /\ SaltsAreKept /\ salts \in Seq(AllSalts)
    BY <1>5 DEF SaltInv, SaltType
  <2>2. /\ Linked(SaltsFrom(m), m)
        /\ \A s \in SaltsIn(salts) : s.until > m => s \in SaltsIn(SaltsFrom(m))
    BY <1>2, <2>1, LookupKeeps
  <2>3. Linked(salts, RoundUp(Reading))'
    BY <1>1, <1>2, <2>2 DEF Linked
  <2>4. SaltsAreKept'
    BY <1>1, <1>2, <2>1, <2>2 DEF SaltsAreKept, SaltsIn
  <2> QED BY <2>3, <2>4
<1> QED BY <1>1, <1>3, <1>4, <1>5 DEF SaltInv

LEMMA CompleteKeepsSalts ==
    ASSUME SaltInv, TypeOK, Complete
    PROVE  SaltInv'
<1> USE DEF saltVars, clockVars
<1>1. UNCHANGED <<time, off, salts, given, heard, turnedBack>>
  BY DEF Complete
<1>2. \/ asked' = time
      \/ asked' = asked /\ (sync' = "asked" => sync = "asked")
  BY DEF Complete, Asking
<1>3. CASE asked' = time
  <2>1. HeardInOrder'
    BY <1>1, <1>3 DEF SaltInv, HeardInOrder, Linked, TypeOK
  <2>2. Reading' = Reading /\ SaltType'
    BY <1>1 DEF Reading, SaltInv, SaltType
  <2>3. ~turnedBack' => Linked(salts, RoundUp(Reading))' /\ SaltsAreKept'
    BY <1>1, <2>2 DEF SaltInv, Linked, SaltsAreKept
  <2> QED BY <2>1, <2>2, <2>3 DEF SaltInv
<1>4. CASE asked' = asked /\ (sync' = "asked" => sync = "asked")
  BY <1>1, <1>4, SaltsQuietStep DEF SaltsQuiet
<1> QED BY <1>2, <1>3, <1>4

LEMMA FixTimeKeepsSalts ==
    ASSUME TypeOK, SaltInv, FixTime
    PROVE  SaltInv'
<1> USE DEF sentVars
<1>1. PICK d \in 0..Delay :
          /\ SetGlobalTimeDifference(d)
          /\ salts' = <<[since |-> ServerId(time - d), until |-> ServerId(time - d + Grace)]>>
  BY DEF FixTime
<1> DEFINE t == time - d
           salt == [since |-> ServerId(t), until |-> ServerId(t + Grace)]
<1>2. UNCHANGED <<time, heard, asked>> /\ given' = SaltsIn(salts') /\ off' = -d
  BY <1>1 DEF FixTime, SetGlobalTimeDifference
<1>3. t \in Nat /\ time \in Nat /\ d \in Nat
  BY NumberingAssumption DEF TypeOK
<1>4. salt \in AllSalts
  BY <1>3 DEF AllSalts, Graced
<1>5. salts' = <<salt>>
  BY <1>1
<1>6. Reading' = InIds(t)
  BY <1>2, <1>3 DEF Reading, InIds
<1>7. salt.since <= RoundUp(Reading')
  <2>1. InIds(t) \in Int /\ salt.since = InIds(t) - 3
    BY <1>3, InIdsIsMonotone DEF ServerId
  <2>2. RoundUp(InIds(t)) \in Int /\ RoundUp(InIds(t)) >= InIds(t)
    BY <2>1, RoundUpIsMonotone
  <2> HIDE DEF salt, t
  <2> QED BY <1>6, <2>1, <2>2
<1> HIDE DEF salt
<1>8. /\ <<salt>> \in Seq(AllSalts) /\ SaltsIn(<<salt>>) = {salt}
      /\ DOMAIN <<salt>> = {1} /\ <<salt>>[1] = salt
  BY <1>4 DEF SaltsIn
<1>9. SaltType'
  BY <1>2, <1>4, <1>5, <1>8 DEF SaltInv, SaltType, SaltsIn
<1>10. Linked(salts, RoundUp(Reading))'
  BY <1>5, <1>7, <1>8 DEF Linked
<1>11. SaltsAreKept'
  BY <1>2, <1>5 DEF SaltsAreKept, SaltsIn
<1>12. sync' = "asked" => sync = "asked"
  BY DEF FixTime, ResetSessionInfo
<1>13. HeardInOrder'
  BY <1>2, <1>12 DEF SaltInv, HeardInOrder, Linked
<1> QED BY <1>9, <1>10, <1>11, <1>13 DEF SaltInv

\* The answer goes on from what has been heard.
LEMMA FutureSaltsKeepsSalts ==
    ASSUME TypeOK, SaltInv, FutureSalts
    PROVE  SaltInv'
<1> USE DEF sentVars, saltVars, clockVars
<1>1. PICK d \in 0..Delay, e \in 0..Delay, enough \in BOOLEAN :
          LET list == heard \o Windows(time - d, IF heard = <<>> THEN Given ELSE 1)
          IN /\ d <= time - asked
             /\ heard = <<>> => e = d
             /\ IF enough
                THEN /\ SetGlobalTimeDifference(e)
                     /\ salts' = Merge(salts, list, InIds(time - e))
                     /\ given' = given \cup SaltsIn(list)
                     /\ turnedBack' = (turnedBack \/ off > -e \/ e > d)
                     /\ sync' = "none" /\ heard' = <<>> /\ fixing' = FALSE
                ELSE /\ sync' = "wanted" /\ heard' = list
                     /\ UNCHANGED <<clockVars, saltVars, turnedBack, fixing>>
  BY DEF FutureSalts
<1>2. sync = "asked" /\ asked' = asked
  BY DEF FutureSalts
<1> DEFINE t == time - d
           n == IF heard = <<>> THEN Given ELSE 1
           list == heard \o Windows(t, n)
           now == InIds(time - e)
<1>3. /\ t \in Nat /\ time - e \in Nat /\ n \in Nat /\ time \in Nat /\ asked \in Nat
      /\ d \in Nat /\ e \in Nat /\ off \in Int /\ asked <= t /\ t <= time
  BY <1>1, NumberingAssumption DEF TypeOK
<1>4. Windows(t, n) \in Seq(Listed) /\ Linked(Windows(t, n), InIds(t))
  BY <1>3, WindowsAreLinked
<1>5. heard \in Seq(Listed) /\ salts \in Seq(AllSalts) /\ given \subseteq AllSalts
  BY DEF SaltInv, SaltType
<1>6. heard \in Seq(AllSalts) /\ Windows(t, n) \in Seq(AllSalts)
  BY <1>4, <1>5, SeqMonotonic DEF AllSalts
<1>7. list \in Seq(Listed) /\ list \in Seq(AllSalts)
  BY <1>4, <1>5, <1>6, ConcatProperties
<1>8. Linked(list, InIds(t))
  <2>1. InIds(asked) \in Int /\ InIds(t) \in Int /\ InIds(asked) <= InIds(t)
    BY <1>3, InIdsIsMonotone
  <2>2. Linked(heard, InIds(asked))
    BY <1>2 DEF SaltInv, HeardInOrder
  <2>3. Linked(heard, InIds(t))
    BY <1>6, <2>1, <2>2, LinkedIsMonotone
  <2> QED BY <1>4, <1>6, <2>1, <2>3, ConcatIsLinked
<1>9. CASE ~enough
  <2> HIDE DEF t, n, list
  <2>1. sync' = "wanted" /\ heard' = list /\ UNCHANGED <<time, off, salts, given, turnedBack>>
    BY <1>1, <1>9 DEF t, n, list
  <2>2. InIds(t) \in Int /\ InIds(time) \in Int /\ InIds(t) <= InIds(time)
    BY <1>3, InIdsIsMonotone
  <2>3. Linked(list, InIds(time))
    BY <1>7, <1>8, <2>2, LinkedIsMonotone
  <2>4. HeardInOrder'
    BY <1>2, <2>1, <2>3 DEF SaltInv, HeardInOrder, Linked
  <2>5. SaltType'
    BY <1>5, <1>7, <2>1 DEF SaltType
  <2>6. Reading' = Reading
    BY <2>1 DEF Reading
  <2>7. ~turnedBack' => Linked(salts, RoundUp(Reading))' /\ SaltsAreKept'
    BY <2>1, <2>6 DEF SaltInv, Linked, SaltsAreKept
  <2> QED BY <2>4, <2>5, <2>7 DEF SaltInv
<1>10. CASE enough
  <2> HIDE DEF t, n, list
  <2>1. /\ off' = -e /\ time' = time
        /\ salts' = Merge(salts, list, now)
        /\ given' = given \cup SaltsIn(list)
        /\ turnedBack' = (turnedBack \/ off > -e \/ e > d)
        /\ sync' = "none" /\ heard' = <<>>
    BY <1>1, <1>10 DEF t, n, list, SetGlobalTimeDifference
  <2>2. Reading' = now /\ now \in Int
    BY <1>3, <2>1, InIdsIsMonotone DEF Reading, InIds
  <2>3. SaltsIn(list) \subseteq AllSalts
    BY <1>7, ElementOfSeq DEF SaltsIn
  <2>4. Merge(salts, list, now) \in Seq(AllSalts)
    BY <1>5, <1>7, <2>2, MergeIsTyped
  <2>5. SaltType'
    BY <1>5, <2>1, <2>3, <2>4 DEF SaltType
  <2>6. HeardInOrder'
    BY <1>2, <2>1 DEF SaltInv, HeardInOrder, Linked
  <2>7. ASSUME ~turnedBack'
        PROVE  Linked(salts, RoundUp(Reading))' /\ SaltsAreKept'
    <3>1. ~turnedBack /\ off <= -e /\ e <= d
      <4>1. ~turnedBack /\ ~(off > -e) /\ ~(e > d)
        BY <2>1, <2>7, Zenon
      <4> QED BY <1>3, <4>1
    <3> DEFINE m == RoundUp(now)
               was == RoundUp(Reading)
    <3>2. m \in Int /\ was \in Int /\ was <= m /\ now <= m /\ InIds(t) \in Int /\ InIds(t) <= m
      <4>1. Reading = InIds(time + off) /\ time + off \in Int
        BY <1>3 DEF Reading, InIds
      <4>2. Reading \in Int /\ Reading <= now
        <5>1. time + off <= time - e
          BY <1>3, <3>1
        <5> QED BY <1>3, <4>1, <5>1, InIdsIsMonotone
      <4>3. InIds(t) \in Int /\ InIds(t) <= now
        <5>1. t <= time - e
          BY <1>3, <3>1 DEF t
        <5> QED BY <1>3, <5>1, InIdsIsMonotone
      <4> HIDE DEF now
      <4>4. m \in Int /\ now <= m
        BY <2>2, RoundUpIsMonotone
      <4>5. was \in Int /\ was <= m
        BY <2>2, <4>2, RoundUpIsMonotone
      <4> QED BY <2>2, <4>3, <4>4, <4>5
    <3>3. Linked(salts, was) /\ SaltsAreKept
      BY <3>1 DEF SaltInv
    <3>4. Linked(salts, m) /\ Linked(list, m)
      <4> HIDE DEF m, was
      <4> QED BY <1>5, <1>7, <1>8, <3>2, <3>3, LinkedIsMonotone
    <3>5. /\ Linked(Merge(salts, list, now), m)
          /\ \A s \in SaltsIn(salts) \cup SaltsIn(list) :
                 s.until > now => s \in SaltsIn(Merge(salts, list, now))
      <4> HIDE DEF m, was, now
      <4> QED BY <1>5, <1>7, <2>2, <3>2, <3>4, MergeKeeps
    <3>6. Linked(salts, RoundUp(Reading))'
      <4> HIDE DEF now
      <4> QED BY <2>1, <2>2, <3>5 DEF Linked
    <3>7. \A s \in given : s.until > m => s \in SaltsIn(salts)
      <4>1. \A s \in given : s.until \in Int
        BY <1>5, SaltsAreNumbers
      <4> HIDE DEF m
      <4>2. \A s \in given : s.until > was => s \in SaltsIn(salts)
        BY <3>1, <3>3 DEF SaltsAreKept
      <4> HIDE DEF was
      <4> QED BY <3>2, <4>1, <4>2
    <3>8. \A s \in given \cup SaltsIn(list) : s.until > m => s \in SaltsIn(Merge(salts, list, now))
      <4>1. \A s \in given \cup SaltsIn(list) : s.until \in Int
        BY <1>5, <2>3, SaltsAreNumbers
      <4> HIDE DEF m, was, now
      <4> QED BY <2>2, <3>2, <3>5, <3>7, <4>1
    <3>9. SaltsAreKept'
      <4> HIDE DEF now
      <4> QED BY <2>1, <2>2, <3>8 DEF SaltsAreKept, SaltsIn
    <3> QED BY <3>6, <3>9
  <2> QED BY <2>5, <2>6, <2>7 DEF SaltInv
<1> QED BY <1>9, <1>10

LEMMA SaltStep ==
    ASSUME TypeOK, TypeOK', SaltInv, [Next]_vars
    PROVE  SaltInv'
<1> USE DEF clockVars, sentVars, sessionVars, saltVars, syncVars, countVars
<1>1. CASE Tick
  BY <1>1, TickKeepsSalts
<1>2. CASE Skew
  BY <1>2, SkewKeepsSalts
<1>3. CASE BeginBatch
  BY <1>3, BeginBatchKeepsSalts
<1>4. CASE Complete
  BY <1>4, CompleteKeepsSalts
<1>5. CASE FixTime
  BY <1>5, FixTimeKeepsSalts
<1>6. CASE FutureSalts
  BY <1>6, FutureSaltsKeepsSalts
<1>7. CASE LockExpires \/ \E r \in Requests : AddRequest(r)
  BY <1>7, SaltsQuietStep DEF SaltsQuiet, LockExpires, AddRequest
<1>8. CASE TransactionsMayHaveFailed
  BY <1>8, SaltsQuietStep DEF SaltsQuiet, TransactionsMayHaveFailed
<1>9. CASE Number
  BY <1>9, SaltsQuietStep DEF SaltsQuiet, Number, NumberKept, NumberNew
<1>10. CASE DiscardViolated
  <2>1. Asking("lost") = "asked" => sync = "asked"
    BY DEF Asking
  <2> QED BY <1>10, <2>1, SaltsQuietStep DEF SaltsQuiet, DiscardViolated, ResetSessionInfo
<1>11. CASE DiscardSaltless
  <2>1. Asking("lost") = "asked" => sync = "asked"
    BY DEF Asking
  <2> QED BY <1>11, <2>1, SaltsQuietStep DEF SaltsQuiet, DiscardSaltless
<1>12. CASE SendTimeFix
  BY <1>12, SaltsQuietStep DEF SaltsQuiet, SendTimeFix
<1>13. CASE Reject
  BY <1>13, SaltsQuietStep DEF SaltsQuiet, Reject, ResetSessionInfo
<1>14. CASE UNCHANGED vars
  BY <1>14, SaltsQuietStep DEF SaltsQuiet, vars
<1> QED BY <1>1, <1>2, <1>3, <1>4, <1>5, <1>6, <1>7, <1>8, <1>9, <1>10, <1>11, <1>12, <1>13,
           <1>14 DEF Next, Discard

\* The salts have their type, and come one after the other: each that is not
\* good yet follows one that is kept.
THEOREM SaltsInOrderAlways == Spec => []SaltInv
<1>1. Init => SaltInv
  BY SaltInit
<1>2. TypeOK /\ TypeOK' /\ SaltInv /\ [Next]_vars => SaltInv'
  BY SaltStep
<1> QED BY <1>1, <1>2, TypeCorrect, PTL DEF Spec

\* AuthKeyInfo::authSaltForClientMessageId erases, and mergeSaltset leaves out,
\* no salt that is still good (SaltsAreKept), until the clock goes back.
THEOREM SaltsAreKeptAlways == Spec => []SaltsAreKept
<1>1. SaltInv => SaltsAreKept
  BY DEF SaltInv, SaltsAreKept
<1> QED BY SaltsInOrderAlways, <1>1, PTL
=============================================================================
