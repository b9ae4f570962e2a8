----------------------------- MODULE ContextProofs -----------------------------
(***************************************************************************)
(* Theorems about Context and its keychain, for any clients, processes and *)
(* time differences: the key in use is not replaced by another, what is    *)
(* stored is on the disk, and a key that was stored is lost to the next    *)
(* process only by a crash during a store.                                 *)
(***************************************************************************)
EXTENDS Context, FiniteSetTheorems, TLAPS

-----------------------------------------------------------------------------
(* Types.                                                                  *)

Infos == 1..Len(past.infos)

\* jobs of Context's queue, of Proto's queue, whose infos are in I
CtxJobs(I) ==
    [op : {"setKeychain", "required", "peek", "completed"}, arg : {0}]
    \cup [op : {"read", "listen"}, arg : Clients]
    \cup [op : {"difference"}, arg : Nat]
    \cup [op : {"update"}, arg : I]

ProtoJobs(I) ==
    [op : {"reset", "resetting", "hasKey", "hasNone", "ready", "fix", "fixed", "fixing"},
     arg : Clients]
    \cup [op : {"told", "resetting", "hasKey", "hasNone"}, arg : Clients, info : I]

Places == {"none", "reading", "read", "constructed", "made", "asked", "serves"}
Contents(values) == {NoFile, Torn} \cup [state : {"whole"}, value : values]
Files == {"none", "closed", "reading", "writing", "broken"}

PastOK ==
    /\ past.infos \in Seq(Nat) /\ past.fixes \in Nat
    /\ past.sinceLoad \in [Groups -> Nat] /\ past.stored \in BOOLEAN
    /\ past = [infos |-> past.infos, fixes |-> past.fixes, runs |-> past.runs,
               missed |-> past.missed, stored |-> past.stored, dropped |-> past.dropped,
               sinceLoad |-> past.sinceLoad]
DiskOK ==
    /\ disk = [g \in Groups |-> disk[g]]
    /\ disk["persistent"] \in Contents(Infos) /\ disk["temp"] \in Contents(Nat)
KeychainOK ==
    /\ keychain \in [file : [Groups -> Files], dict : [Groups -> Seq(Nat)],
                     holder : Groups \cup {"none"}]
    /\ keychain.dict["persistent"] \in Seq(Infos)
Contexts(I) ==
    [made : BOOLEAN, loaded : BOOLEAN, info : {0} \cup I, difference : Nat,
     action : {"none", "running", "made"}, listeners : SUBSET Clients, jobs : Seq(CtxJobs(I))]
ContextOK == context \in Contexts(Infos)
ProtoOK == proto \in Seq(ProtoJobs(Infos))
ClientOK ==
    client \in [Clients -> [at : Places, info : {0} \cup Infos, awaiting : BOOLEAN,
                            transport : BOOLEAN]]

TypeOK ==
    /\ up \in BOOLEAN /\ folder \in {"private", "shared"}
    /\ PastOK /\ DiskOK /\ KeychainOK /\ ContextOK /\ ProtoOK /\ ClientOK

-----------------------------------------------------------------------------
(* The inductive invariant.                                                *)

\* before the first client, nothing has happened
FreshInv ==
    /\ ~up => ~context.made
    /\ ~context.made =>
        /\ context = NewContext /\ keychain = NewKeychain /\ proto = <<>>
        /\ client = [c \in Clients |-> NewClient]
        /\ past.sinceLoad = [g \in Groups |-> 0]

\* until the keychain is loaded, only constructors wait for it
LoadInv ==
    /\ (context.made /\ ~context.loaded) =>
        /\ keychain = [NewKeychain EXCEPT !.file = Listed]
        /\ proto = <<>>
        /\ context.info = 0 /\ context.action = "none"
        /\ \A c \in Clients : client[c].info = 0 /\ client[c].at \in {"none", "reading"}
        /\ context.jobs # <<>> /\ context.jobs[1].op = "setKeychain"
        /\ \A i \in 2..Len(context.jobs) : context.jobs[i].op = "read"
    /\ context.loaded =>
        /\ context.made
        /\ \A i \in 1..Len(context.jobs) : context.jobs[i].op # "setKeychain"

\* a file in the hands of a store, and one that has been stored
FileInv ==
    \A g \in Groups :
        /\ keychain.holder = g =>
            /\ keychain.file[g] \in {"writing", "broken"} /\ keychain.dict[g] # <<>>
            /\ keychain.file[g] = "broken" => folder = "shared" /\ past.sinceLoad[g] = 0
        /\ keychain.holder # g =>
            /\ keychain.file[g] \in {"none", "closed", "reading"}
            /\ past.sinceLoad[g] > 0 => keychain.file[g] = "closed" /\ keychain.dict[g] # <<>>

\* the store of a key is in the middle of its update
HolderInv ==
    keychain.holder = "persistent" => CtxOp = "update" /\ context.info = CtxArg

\* a key stored is not absent; a key not known is not on the disk
DiskInv ==
    /\ past.stored => disk["persistent"].state # "absent"
    /\ (context.loaded /\ context.info = 0) => disk["persistent"].state # "whole"

\* Proto's job that waits for an answer waits for one
PeekInv ==
    \A i \in 1..Len(context.jobs) : context.jobs[i].op = "peek" =>
        /\ ProtoOp = "resetting"
        /\ \A j \in 1..Len(context.jobs) : context.jobs[j].op = "peek" => i = j

\* the constructor asks once
ReadInv ==
    \A i \in 1..Len(context.jobs) : context.jobs[i].op = "read" =>
        /\ client[context.jobs[i].arg].at = "reading"
        /\ \A j \in 1..Len(context.jobs) :
            context.jobs[j].op = "read" /\ context.jobs[j].arg = context.jobs[i].arg => i = j

\* only a client with a key serves, and only one that serves is told the time
Fixes == {"fix", "fixed", "fixing"}
ServeInv ==
    /\ \A c \in Clients : client[c].at = "serves" => client[c].info # 0
    /\ \A i \in 1..Len(proto) : proto[i].op \in Fixes => client[proto[i].arg].at = "serves"

\* only a client that has read calls Proto's queue, or is told
HasRead(c) == client[c].at \notin {"none", "reading"}
CallerInv ==
    /\ \A i \in 1..Len(proto) : HasRead(proto[i].arg)
    /\ \A c \in context.listeners : HasRead(c)
    /\ \A i \in 1..Len(context.jobs) :
        context.jobs[i].op = "listen" => HasRead(context.jobs[i].arg)

\* where an info may come from, or be on its way
InUse(info) ==
    /\ info \in Infos
    /\ \/ context.info = info
       \/ \E i \in 1..Len(context.jobs) :
            context.jobs[i].op = "update" /\ context.jobs[i].arg = info
       \/ \E c \in Clients : client[c].info = info
       \/ \E i \in 1..Len(proto) : proto[i].op = "told" /\ proto[i].info = info

KeyInv ==
    /\ \A m, n \in Infos : InUse(m) /\ InUse(n) => KeyOf(m) = KeyOf(n)
    /\ context.action = "running" => \A m \in Infos : ~InUse(m)
    /\ (context.info = 0 /\ \E m \in Infos : InUse(m)) => context.action = "made"
    /\ \A i \in 1..Len(context.jobs) : context.jobs[i].op = "completed" =>
        \/ context.info # 0
        \/ \E j \in 1..(i - 1) : context.jobs[j].op = "update"

IInv ==
    /\ TypeOK /\ FreshInv /\ LoadInv /\ FileInv /\ HolderInv /\ DiskInv
    /\ PeekInv /\ ReadInv /\ CallerInv /\ ServeInv /\ KeyInv

-----------------------------------------------------------------------------
(* Sequences.                                                              *)

LEMMA TailFacts ==
    ASSUME NEW S, NEW s \in Seq(S), s # <<>>
    PROVE  /\ Tail(s) \in Seq(S) /\ Len(s) \in Nat \ {0}
           /\ Len(Tail(s)) = Len(s) - 1
           /\ \A i \in 1..(Len(s) - 1) : Tail(s)[i] = s[i + 1]
           /\ Head(s) = s[1] /\ s[1] \in S
  OBVIOUS

\* t is s with e at its end
OneMore(s, e, t) ==
    /\ Len(s) \in Nat /\ Len(t) = Len(s) + 1
    /\ \A i \in 1..Len(s) : t[i] = s[i]
    /\ t[Len(t)] = e

LEMMA AppendFacts ==
    ASSUME NEW S, NEW s \in Seq(S), NEW e \in S
    PROVE  /\ Append(s, e) \in Seq(S) /\ OneMore(s, e, Append(s, e))
           /\ s \o <<e>> \in Seq(S) /\ OneMore(s, e, s \o <<e>>)
  <1>1. Append(s, e) \in Seq(S) /\ Len(s) \in Nat /\ Len(Append(s, e)) = Len(s) + 1
    OBVIOUS
  <1>2. <<e>> \in Seq(S) /\ Len(<<e>>) = 1 /\ <<e>>[1] = e
    OBVIOUS
  <1>3. s \o <<e>> \in Seq(S) /\ Len(s \o <<e>>) = Len(s) + 1
    BY <1>2
  <1>4. /\ \A i \in 1..Len(s) : (s \o <<e>>)[i] = s[i]
        /\ (s \o <<e>>)[Len(s) + 1] = e
    BY <1>1, <1>2
  <1>5. /\ \A i \in 1..Len(s) : Append(s, e)[i] = s[i]
        /\ Append(s, e)[Len(s) + 1] = e
    BY <1>1
  <1> QED BY <1>1, <1>3, <1>4, <1>5 DEF OneMore

LEMMA TwoMoreFacts ==
    ASSUME NEW S, NEW s \in Seq(S), NEW d \in S, NEW e \in S
    PROVE  /\ s \o <<d, e>> \in Seq(S) /\ Len(s) \in Nat
           /\ Len(s \o <<d, e>>) = Len(s) + 2
           /\ \A i \in 1..Len(s) : (s \o <<d, e>>)[i] = s[i]
           /\ (s \o <<d, e>>)[Len(s) + 1] = d /\ (s \o <<d, e>>)[Len(s) + 2] = e
  <1>1. <<d, e>> \in Seq(S) /\ Len(<<d, e>>) = 2 /\ <<d, e>>[1] = d /\ <<d, e>>[2] = e
    OBVIOUS
  <1>2. s \o <<d, e>> \in Seq(S) /\ Len(s) \in Nat /\ Len(s \o <<d, e>>) = Len(s) + 2
    BY <1>1
  <1> QED BY <1>1, <1>2

\* h in place of the head
LEMMA HeadFacts ==
    ASSUME NEW S, NEW s \in Seq(S), s # <<>>, NEW h \in S
    PROVE  LET t == <<h>> \o Tail(s)
           IN /\ t \in Seq(S) /\ Len(t) = Len(s) /\ Len(s) \in Nat \ {0}
              /\ t[1] = h /\ t # <<>> /\ Head(t) = h
              /\ \A i \in 2..Len(s) : t[i] = s[i]
  <1>1. Tail(s) \in Seq(S) /\ Len(Tail(s)) = Len(s) - 1 /\ Len(s) \in Nat \ {0}
    OBVIOUS
  <1>2. <<h>> \in Seq(S) /\ Len(<<h>>) = 1 /\ <<h>>[1] = h
    OBVIOUS
  <1>3. <<h>> \o Tail(s) \in Seq(S) /\ Len(<<h>> \o Tail(s)) = Len(s)
    BY <1>1, <1>2
  <1>4. (<<h>> \o Tail(s))[1] = h
    BY <1>1, <1>2
  <1>5. \A i \in 2..Len(s) : (<<h>> \o Tail(s))[i] = s[i]
    BY <1>1, <1>2
  <1>6. <<h>> \o Tail(s) # <<>> /\ Head(<<h>> \o Tail(s)) = h
    BY <1>1, <1>3, <1>4
  <1> QED BY <1>1, <1>3, <1>4, <1>5, <1>6

LEMMA JoinFacts ==
    ASSUME NEW S, NEW s \in Seq(S), NEW t \in Seq(S)
    PROVE  /\ s \o t \in Seq(S) /\ Len(s) \in Nat /\ Len(t) \in Nat
           /\ Len(s \o t) = Len(s) + Len(t)
           /\ \A i \in 1..Len(s) : (s \o t)[i] = s[i]
           /\ \A i \in 1..Len(t) : (s \o t)[Len(s) + i] = t[i]
  OBVIOUS

LEMMA OneSeq ==
    ASSUME NEW S, NEW e \in S
    PROVE  <<e>> \in Seq(S)
  OBVIOUS

LEMMA WiderSeq ==
    ASSUME NEW S, NEW T, S \subseteq T, NEW s \in Seq(S)
    PROVE  s \in Seq(T)
  OBVIOUS

\* the listeners, in some order
LEMMA ListenersInOrder ==
    ASSUME NEW S, S \subseteq Clients
    PROVE  SetToSeq(S) \in Seq(S)
  <1>1. IsFiniteSet(S)
    BY ContextAssumption, FS_Subset
  <1>2. Cardinality(S) \in Nat /\ ExistsBijection(1..Cardinality(S), S)
    BY <1>1, FS_CardinalityType
  <1>3. \E f \in [1..Cardinality(S) -> S] : IsInjective(f)
    BY <1>2 DEF ExistsBijection, Bijection, Injection, IsInjective
  <1>4. SetToSeq(S) \in [1..Cardinality(S) -> S]
    BY <1>3 DEF SetToSeq
  <1> QED BY <1>2, <1>4

-----------------------------------------------------------------------------
(* The actions, one by one.                                                *)

LEMMA NextCases ==
    ASSUME Next
    PROVE  \/ \E c \in Clients : \/ Create(c) \/ Constructed(c) \/ Initialize(c)
                                 \/ Request(c) \/ Connected(c) \/ Synced(c)
           \/ /\ up /\ up' = up /\ folder' = folder
              /\ \/ SetKeychain \/ Read \/ Required \/ Listen \/ Difference
                 \/ UpdateBegins \/ UpdateEnds \/ ActionCompleted
                 \/ ResetBegins \/ ResetEnds \/ Told \/ ReadyJob \/ FixBegins \/ FixEnds
           \/ KeyMade \/ Crash \/ Boot
  BY DEF Next, ContextStep, ProtoStep

LEMMA HeadOfJobs ==
    ASSUME ContextOK, CtxOp # "idle"
    PROVE  /\ context.jobs # <<>> /\ Len(context.jobs) \in Nat \ {0}
           /\ context.jobs[1] \in CtxJobs(Infos)
           /\ CtxOp = context.jobs[1].op /\ CtxArg = context.jobs[1].arg
  <1>1. context.jobs \in Seq(CtxJobs(Infos)) /\ context.jobs # <<>>
    BY DEF ContextOK, Contexts, CtxOp
  <1> QED BY <1>1, TailFacts DEF CtxOp, CtxArg

LEMMA HeadOfProto ==
    ASSUME ProtoOK, ProtoOp # "idle"
    PROVE  /\ proto # <<>> /\ Len(proto) \in Nat \ {0}
           /\ proto[1] \in ProtoJobs(Infos) /\ Head(proto) = proto[1]
           /\ ProtoOp = proto[1].op /\ ProtoArg = proto[1].arg
           /\ ProtoArg \in Clients
  <1>1. proto \in Seq(ProtoJobs(Infos)) /\ proto # <<>>
    BY DEF ProtoOK, ProtoOp
  <1>2. /\ proto # <<>> /\ Len(proto) \in Nat \ {0}
        /\ proto[1] \in ProtoJobs(Infos) /\ Head(proto) = proto[1]
    BY <1>1, TailFacts
  <1> QED BY <1>2 DEF ProtoOp, ProtoArg, ProtoJobs

LEMMA UpdateArg ==
    ASSUME ContextOK, CtxOp = "update"
    PROVE  CtxArg \in Infos /\ context.jobs # <<>>
  BY HeadOfJobs DEF CtxJobs

LEMMA ToldInfo ==
    ASSUME ProtoOK, ProtoOp = "told"
    PROVE  Head(proto).info \in Infos
  BY HeadOfProto DEF ProtoJobs

\* Context's job as posted and dequeued, field by field
LEMMA PostedFields ==
    ASSUME ContextOK, NEW js
    PROVE  /\ Posted(js) = [context EXCEPT !.jobs = context.jobs \o js]
           /\ Posted(js).jobs = context.jobs \o js
           /\ Posted(js).made = context.made /\ Posted(js).loaded = context.loaded
           /\ Posted(js).info = context.info /\ Posted(js).action = context.action
           /\ Posted(js).listeners = context.listeners
           /\ Posted(js).difference = context.difference
  BY DEF ContextOK, Contexts, Posted

LEMMA DequeuedFields ==
    ASSUME ContextOK
    PROVE  /\ CtxDequeued.jobs = Tail(context.jobs)
           /\ CtxDequeued.made = context.made /\ CtxDequeued.loaded = context.loaded
           /\ CtxDequeued.info = context.info /\ CtxDequeued.action = context.action
           /\ CtxDequeued.listeners = context.listeners
           /\ CtxDequeued.difference = context.difference
  BY DEF ContextOK, Contexts, CtxDequeued

-----------------------------------------------------------------------------
(* The history: infos are only added.                                      *)

InfosGrow ==
    /\ Infos \subseteq Infos'
    /\ \A m \in Infos : past'.infos[m] = past.infos[m]

LEMMA NoInfos ==
    ASSUME PastOK, past'.infos = past.infos
    PROVE  InfosGrow
  BY DEF InfosGrow, Infos

LEMMA OneInfo ==
    ASSUME PastOK, NEW k \in Nat, past'.infos = Append(past.infos, k)
    PROVE  /\ InfosGrow /\ past'.infos \in Seq(Nat)
           /\ Infos' = Infos \cup {Len(past.infos) + 1}
           /\ Len(past.infos) + 1 \notin Infos /\ Len(past.infos) + 1 # 0
           /\ Len(past'.infos) = Len(past.infos) + 1
           /\ past'.infos[Len(past.infos) + 1] = k
  <1>1. past.infos \in Seq(Nat)
    BY DEF PastOK
  <1>2. past'.infos \in Seq(Nat) /\ OneMore(past.infos, k, past'.infos)
    BY <1>1, AppendFacts
  <1>3. Len(past.infos) \in Nat
    BY <1>1
  <1> QED BY <1>2, <1>3 DEF InfosGrow, Infos, OneMore

LEMMA EndedFields ==
    ASSUME PastOK, NEW g \in Groups
    PROVE  LET p == Ended(g, past)
           IN /\ p.infos = past.infos /\ p.fixes = past.fixes
              /\ p.runs = past.runs /\ p.missed = past.missed
              /\ p.stored = (past.stored \/ (g = "persistent" /\ keychain.file[g] = "writing"))
              /\ p.dropped = IF keychain.file[g] = "writing" THEN past.dropped \ {g}
                             ELSE past.dropped \cup {g}
              /\ p.sinceLoad = [past.sinceLoad EXCEPT ![g] = 1 + @]
              /\ p.sinceLoad \in [Groups -> Nat]
              /\ p = [infos |-> p.infos, fixes |-> p.fixes, runs |-> p.runs,
                      missed |-> p.missed, stored |-> p.stored, dropped |-> p.dropped,
                      sinceLoad |-> p.sinceLoad]
  <1> DEFINE b == past.stored \/ (g = "persistent" /\ keychain.file[g] = "writing")
             d == IF keychain.file[g] = "writing" THEN past.dropped \ {g}
                  ELSE past.dropped \cup {g}
             n == [past.sinceLoad EXCEPT ![g] = 1 + @]
  <1>1. Ended(g, past) = [infos |-> past.infos, fixes |-> past.fixes, runs |-> past.runs,
                          missed |-> past.missed, stored |-> b, dropped |-> d, sinceLoad |-> n]
    <2>1. Ended(g, past) = [past EXCEPT !.stored = b, !.dropped = d, !.sinceLoad = n]
      BY DEF PastOK, Ended
    <2> HIDE DEF b, d, n
    <2> QED BY <2>1 DEF PastOK
  <1>2. n \in [Groups -> Nat]
    BY DEF PastOK
  <1> HIDE DEF b, d, n
  <1>3. /\ Ended(g, past).stored = b /\ Ended(g, past).dropped = d
        /\ Ended(g, past).sinceLoad = n
    BY <1>1
  <1> QED BY <1>1, <1>2, <1>3 DEF b, d, n

\* the info a time fix makes is of the key its client has
LEMMA FixedKey ==
    ASSUME TypeOK, ServeInv, ProtoOp = "fixing"
    PROVE  /\ ProtoArg \in Clients /\ client[ProtoArg].info \in Infos
           /\ client[ProtoArg].at = "serves"
           /\ KeyOf(client[ProtoArg].info) \in Nat
  <1>1. proto[1].op = "fixing" /\ ProtoArg = proto[1].arg /\ ProtoArg \in Clients
        /\ 1 \in 1..Len(proto)
    BY HeadOfProto DEF TypeOK
  <1>2. client[ProtoArg].at = "serves"
    BY <1>1 DEF ServeInv, Fixes
  <1>3. client[ProtoArg].info \in Infos
    BY <1>1, <1>2 DEF ServeInv, TypeOK, ClientOK
  <1> QED BY <1>1, <1>2, <1>3 DEF KeyOf, Infos, TypeOK, PastOK

LEMMA PastStep ==
    ASSUME TypeOK, ServeInv, Next
    PROVE  PastOK' /\ InfosGrow
  <1> USE DEF TypeOK
  <1>1. CASE past' = past
    BY <1>1, NoInfos DEF PastOK
  <1>2. CASE UpdateEnds
    <2>1. PICK p : p = Ended("persistent", past)
      OBVIOUS
    <2>2. /\ past'.infos = p.infos /\ past'.fixes = p.fixes /\ past'.stored = p.stored
          /\ past'.sinceLoad = p.sinceLoad
          /\ past' = [infos |-> past'.infos, fixes |-> past'.fixes, runs |-> past'.runs,
               missed |-> past'.missed, stored |-> past'.stored, dropped |-> past'.dropped,
               sinceLoad |-> past'.sinceLoad]
      BY <1>2, <2>1, EndedFields DEF UpdateEnds, Groups
    <2> QED BY <2>1, <2>2, EndedFields, NoInfos DEF PastOK, Groups
  <1>3. CASE FixBegins
    <2>1. CASE past' = past
      BY <2>1, NoInfos DEF PastOK
    <2>2. CASE past' = [past EXCEPT !.fixes = 1 + @]
      <3>1. PastOK'
        BY <2>2 DEF PastOK
      <3> QED BY <2>2, <3>1, NoInfos DEF PastOK
    <2> QED BY <1>3, <2>1, <2>2 DEF FixBegins
  <1>4. CASE FixEnds
    <2>1. PICK p : p = Ended("temp", past)
      OBVIOUS
    <2>2. CASE past' = p
      BY <2>1, <2>2, EndedFields, NoInfos DEF PastOK, Groups
    <2>3. CASE past' = [p EXCEPT !.infos = Append(@, KeyOf(client[ProtoArg].info))]
      <3>1. KeyOf(client[ProtoArg].info) \in Nat
        BY <1>4, FixedKey DEF FixEnds
      <3>2. /\ past'.infos = Append(past.infos, KeyOf(client[ProtoArg].info))
            /\ past'.fixes = p.fixes /\ past'.stored = p.stored
            /\ past'.sinceLoad = p.sinceLoad
            /\ past' = [infos |-> past'.infos, fixes |-> past'.fixes, runs |-> past'.runs,
               missed |-> past'.missed, stored |-> past'.stored, dropped |-> past'.dropped,
               sinceLoad |-> past'.sinceLoad]
        BY <2>1, <2>3, EndedFields DEF Groups
      <3>3. InfosGrow /\ past'.infos \in Seq(Nat)
        BY <3>1, <3>2, OneInfo
      <3> QED BY <2>1, <3>2, <3>3, EndedFields DEF PastOK, Groups
    <2> QED BY <1>4, <2>1, <2>2, <2>3 DEF FixEnds
  <1>5. CASE KeyMade
    <2>1. past' = [past EXCEPT !.infos = Append(past.infos, Len(past.infos) + 1)]
      BY <1>5 DEF KeyMade
    <2>2. Len(past.infos) + 1 \in Nat
      BY DEF PastOK
    <2>3. past'.infos = Append(past.infos, Len(past.infos) + 1)
      BY <2>1 DEF PastOK
    <2>4. InfosGrow /\ past'.infos \in Seq(Nat)
      BY <2>2, <2>3, OneInfo
    <2> QED BY <2>1, <2>4 DEF PastOK
  <1>6. CASE Crash
    <2>1. PastOK' /\ past'.infos = past.infos
      BY <1>6 DEF Crash, PastOK
    <2> QED BY <2>1, NoInfos
  <1>7. CASE Boot
    <2>1. PastOK' /\ past'.infos = past.infos
      BY <1>7 DEF Boot, PastOK
    <2> QED BY <2>1, NoInfos
  <1> QED
    BY NextCases, <1>1, <1>2, <1>3, <1>4, <1>5, <1>6, <1>7
    DEF Create, Constructed, Initialize, Request, Connected, Synced, SetKeychain, Read, Required,
        Listen, Difference, UpdateBegins, ActionCompleted, ResetBegins, ResetEnds, Told, ReadyJob

-----------------------------------------------------------------------------
(* The keychain and its files.                                             *)

\* a store that begins has the mutex and the file, or a file it cannot open
LEMMA StoreBeginsFacts ==
    ASSUME TypeOK, FileInv, NEW g \in Groups, NEW v \in Nat, StoreBegins(g, v)
    PROVE  /\ keychain.holder = "none"
           /\ keychain' \in [file : [Groups -> Files], dict : [Groups -> Seq(Nat)],
                             holder : Groups \cup {"none"}]
           /\ keychain'.holder = g /\ keychain'.dict[g] = <<v>>
           /\ keychain'.file[g] \in {"writing", "broken"}
           /\ keychain'.file[g] = "broken" => folder = "shared" /\ past.sinceLoad[g] = 0
           /\ \A h \in Groups \ {g} : /\ keychain'.file[h] = keychain.file[h]
                                      /\ keychain'.dict[h] = keychain.dict[h]
           /\ disk' = disk \/ disk' = [disk EXCEPT ![g] = Torn]
  <1> DEFINE file == Opened(Removed(FileLoaded(g)))
  <1>1. file \in {"writing", "broken"}
    BY DEF Opened
  <1>2. file = "broken" => folder = "shared" /\ past.sinceLoad[g] = 0
    <2>1. ASSUME file = "broken"
          PROVE  folder = "shared" /\ FileLoaded(g) = "reading"
      BY <2>1 DEF Opened, Removed
    <2>2. ASSUME past.sinceLoad[g] > 0, keychain.holder = "none"
          PROVE  FileLoaded(g) = "closed"
      BY <2>2 DEF FileInv, FileLoaded, MustLoad, Groups
    <2>3. past.sinceLoad[g] \in Nat /\ keychain.holder = "none"
      BY DEF TypeOK, PastOK, StoreBegins
    <2> QED BY <2>1, <2>2, <2>3
  <1>3. <<v>> \in Seq(Nat) /\ file \in Files
    BY <1>1 DEF Files
  <1> HIDE DEF file
  <1>4. /\ keychain.holder = "none"
        /\ keychain' = [keychain EXCEPT !.holder = g, !.file[g] = file, !.dict[g] = <<v>>]
        /\ disk' = disk \/ disk' = [disk EXCEPT ![g] = Torn]
    BY DEF StoreBegins, file
  <1>5. keychain \in [file : [Groups -> Files], dict : [Groups -> Seq(Nat)],
                      holder : Groups \cup {"none"}]
    BY DEF TypeOK, KeychainOK
  <1>6. /\ keychain'.holder = g
        /\ keychain'.file = [keychain.file EXCEPT ![g] = file]
        /\ keychain'.dict = [keychain.dict EXCEPT ![g] = <<v>>]
        /\ keychain' \in [file : [Groups -> Files], dict : [Groups -> Seq(Nat)],
                          holder : Groups \cup {"none"}]
    BY <1>3, <1>4, <1>5
  <1> QED BY <1>1, <1>2, <1>4, <1>5, <1>6

LEMMA StoreEndsFacts ==
    ASSUME TypeOK, FileInv, NEW g \in Groups, StoreEnds(g)
    PROVE  /\ keychain.holder = g /\ keychain'.holder = "none"
           /\ keychain' \in [file : [Groups -> Files], dict : [Groups -> Seq(Nat)],
                             holder : Groups \cup {"none"}]
           /\ keychain'.dict = keychain.dict
           /\ keychain'.file[g] = "closed"
           /\ \A h \in Groups \ {g} : keychain'.file[h] = keychain.file[h]
           /\ keychain.dict[g] # <<>> /\ keychain.dict[g][1] \in Nat
           /\ disk' = IF keychain.file[g] = "writing"
                      THEN [disk EXCEPT ![g] = Whole(keychain.dict[g][1])] ELSE disk
  <1>1. /\ keychain.holder = g
        /\ keychain' = [keychain EXCEPT !.holder = "none", !.file[g] = "closed"]
        /\ disk' = IF keychain.file[g] = "writing"
                   THEN [disk EXCEPT ![g] = Whole(keychain.dict[g][1])] ELSE disk
    BY DEF StoreEnds
  <1>2. keychain \in [file : [Groups -> Files], dict : [Groups -> Seq(Nat)],
                      holder : Groups \cup {"none"}]
    BY DEF TypeOK, KeychainOK
  <1>3. /\ keychain'.holder = "none" /\ keychain'.dict = keychain.dict
        /\ keychain'.file = [keychain.file EXCEPT ![g] = "closed"]
        /\ keychain' \in [file : [Groups -> Files], dict : [Groups -> Seq(Nat)],
                          holder : Groups \cup {"none"}]
    BY <1>1, <1>2 DEF Files
  <1>4. keychain.dict[g] # <<>>
    BY <1>1 DEF FileInv
  <1>5. keychain.dict[g] \in Seq(Nat)
    BY <1>2
  <1> QED BY <1>1, <1>2, <1>3, <1>4, <1>5

\* the keychain before it is loaded, and what the load makes of it
LEMMA LoadFacts ==
    ASSUME TypeOK, SetKeychain
    PROVE  /\ keychain.holder = "none" /\ keychain'.holder = "none"
           /\ keychain' \in [file : [Groups -> Files], dict : [Groups -> Seq(Nat)],
                             holder : Groups \cup {"none"}]
           /\ keychain'.dict["persistent"] \in Seq(Infos)
           /\ \A g \in Groups : /\ keychain'.file[g] = FileLoaded(g)
                                /\ keychain'.dict[g] = DictLoaded(g)
           /\ context'.info = Stored("persistent") /\ context'.info \in {0} \cup Infos
           /\ context'.difference \in Nat
  <1>1. keychain \in [file : [Groups -> Files], dict : [Groups -> Seq(Nat)],
                      holder : Groups \cup {"none"}]
    BY DEF TypeOK, KeychainOK
  <1>2. \A g \in Groups : DictLoaded(g) \in Seq(Nat) /\ FileLoaded(g) \in Files
    <2> SUFFICES ASSUME NEW g \in Groups
                 PROVE  DictLoaded(g) \in Seq(Nat) /\ FileLoaded(g) \in Files
      OBVIOUS
    <2>1. disk[g].state = "whole" => <<disk[g].value>> \in Seq(Nat)
      <3>1. disk[g].state = "whole" => disk[g].value \in Nat
        BY DEF TypeOK, DiskOK, Contents, Groups, NoFile, Torn, Infos
      <3> QED BY <3>1
    <2> QED BY <1>1, <2>1 DEF DictLoaded, FileLoaded, Files
  <1>3. DictLoaded("persistent") \in Seq(Infos)
    <2>1. disk["persistent"].state = "whole" => <<disk["persistent"].value>> \in Seq(Infos)
      <3>1. disk["persistent"].state = "whole" => disk["persistent"].value \in Infos
        BY DEF TypeOK, DiskOK, Contents, NoFile, Torn
      <3> QED BY <3>1
    <2> QED BY <2>1 DEF DictLoaded, TypeOK, KeychainOK
  <1>4. /\ keychain.holder = "none"
        /\ keychain' = [keychain EXCEPT !.file = [g \in Groups |-> FileLoaded(g)],
                                        !.dict = [g \in Groups |-> DictLoaded(g)]]
    BY DEF SetKeychain
  <1>5. context'.info = Stored("persistent") /\ context'.difference = Stored("temp")
    BY DEF SetKeychain, CtxDequeued, TypeOK, ContextOK, Contexts
  <1>6. Stored("persistent") \in {0} \cup Infos
    BY <1>3 DEF Stored
  <1>7. DictLoaded("temp") \in Seq(Nat)
    BY <1>2 DEF Groups
  <1>8. Stored("temp") \in Nat
    BY <1>7 DEF Stored
  <1>9. [g \in Groups |-> FileLoaded(g)] \in [Groups -> Files]
        /\ [g \in Groups |-> DictLoaded(g)] \in [Groups -> Seq(Nat)]
    BY <1>2
  <1>10. /\ keychain'.holder = "none"
         /\ keychain'.file = [g \in Groups |-> FileLoaded(g)]
         /\ keychain'.dict = [g \in Groups |-> DictLoaded(g)]
         /\ keychain' \in [file : [Groups -> Files], dict : [Groups -> Seq(Nat)],
                           holder : Groups \cup {"none"}]
    BY <1>1, <1>4, <1>9
  <1>11. "persistent" \in Groups
    BY DEF Groups
  <1> QED BY <1>3, <1>4, <1>5, <1>6, <1>8, <1>10, <1>11

-----------------------------------------------------------------------------
(* The keychain, its files and the disk are as they should be.             *)

\* the steps after which the keychain and the disk are not what they were
FilesAlike ==
    /\ UNCHANGED <<keychain, disk>> /\ past'.sinceLoad = past.sinceLoad
    /\ past'.stored = past.stored /\ past'.dropped = past.dropped
FirstCreate ==
    /\ \E c \in Clients : Create(c)
    /\ ~context.made /\ keychain' = [keychain EXCEPT !.file = Listed] /\ UNCHANGED <<disk, past>>
FixStores ==
    /\ StoreBegins("temp", past.fixes) /\ ProtoOp = "fixed" /\ UNCHANGED <<past, context>>

LEMMA KeychainCases ==
    ASSUME PastOK, Next
    PROVE  /\ folder' = folder
           /\ \/ FilesAlike \/ FirstCreate \/ SetKeychain \/ UpdateBegins \/ UpdateEnds
              \/ FixStores \/ FixEnds \/ Crash
  <1>1. folder' = folder
    BY NextCases
    DEF Create, Constructed, Initialize, Request, Connected, Synced, KeyMade, Crash, Boot
  <1>2. ASSUME NEW c \in Clients, Create(c)
        PROVE  FilesAlike \/ FirstCreate
    BY <1>2 DEF Create, FilesAlike, FirstCreate
  <1>3. ASSUME FixBegins
        PROVE  FilesAlike \/ FixStores
    BY <1>3 DEF FixBegins, FilesAlike, FixStores, PastOK
  <1>4. ASSUME KeyMade \/ Boot
        PROVE  FilesAlike
    BY <1>4 DEF KeyMade, Boot, FilesAlike, PastOK
  <1> QED
    BY NextCases, <1>1, <1>2, <1>3, <1>4
    DEF FilesAlike, Constructed, Initialize, Request, Connected, Synced, Read, Required,
        Listen, Difference, ActionCompleted, ResetBegins, ResetEnds, Told, ReadyJob

LEMMA KeychainStep ==
    ASSUME IInv, Next
    PROVE  KeychainOK' /\ DiskOK'
  <1> USE DEF IInv, TypeOK
  <1>1. PastOK' /\ InfosGrow
    BY PastStep
  <1>2. \A s \in Seq(Infos) : s \in Seq(Infos')
    BY <1>1, WiderSeq DEF InfosGrow
  <1>3. Contents(Infos) \subseteq Contents(Infos')
    BY <1>1 DEF InfosGrow, Contents
  <1>4. "persistent" \in Groups /\ "temp" \in Groups
    BY DEF Groups
  <1>5. CASE FilesAlike
    BY <1>2, <1>3, <1>5 DEF FilesAlike, KeychainOK, DiskOK
  <1>6. CASE FirstCreate
    <2>1. Listed \in [Groups -> Files]
      BY DEF Listed, Files
    <2>2. /\ keychain' \in [file : [Groups -> Files], dict : [Groups -> Seq(Nat)],
                            holder : Groups \cup {"none"}]
          /\ keychain'.dict = keychain.dict
      BY <1>6, <2>1 DEF FirstCreate, KeychainOK
    <2> QED BY <1>2, <1>3, <1>6, <2>2 DEF FirstCreate, KeychainOK, DiskOK
  <1>7. CASE SetKeychain
    <2>1. disk' = disk
      BY <1>7 DEF SetKeychain
    <2> QED BY <1>2, <1>3, <1>7, <2>1, LoadFacts DEF KeychainOK, DiskOK
  <1>8. ASSUME NEW g \in Groups, NEW v \in Nat, StoreBegins(g, v), g = "persistent" => v \in Infos
        PROVE  KeychainOK' /\ DiskOK'
    <2>1. /\ keychain' \in [file : [Groups -> Files], dict : [Groups -> Seq(Nat)],
                             holder : Groups \cup {"none"}]
          /\ keychain'.dict[g] = <<v>>
          /\ \A h \in Groups \ {g} : keychain'.dict[h] = keychain.dict[h]
          /\ disk' = disk \/ disk' = [disk EXCEPT ![g] = Torn]
      BY <1>8, StoreBeginsFacts
    <2>2. keychain'.dict["persistent"] \in Seq(Infos)
      <3>1. CASE g = "persistent"
        <4>1. v \in Infos
          BY <1>8, <3>1
        <4>2. <<v>> \in Seq(Infos)
          BY <4>1, OneSeq
        <4> QED BY <2>1, <3>1, <4>2
      <3>2. CASE g # "persistent"
        BY <1>4, <2>1, <3>2 DEF KeychainOK
      <3> QED BY <3>1, <3>2
    <2>3. DiskOK'
      BY <1>3, <1>4, <2>1 DEF DiskOK, Contents
    <2> QED BY <1>2, <2>1, <2>2, <2>3 DEF KeychainOK
  <1>9. ASSUME NEW g \in Groups, StoreEnds(g)
        PROVE  KeychainOK' /\ DiskOK'
    <2>1. /\ keychain' \in [file : [Groups -> Files], dict : [Groups -> Seq(Nat)],
                            holder : Groups \cup {"none"}]
          /\ keychain'.dict = keychain.dict
          /\ keychain.dict[g] # <<>> /\ keychain.dict[g][1] \in Nat
          /\ \/ disk' = [disk EXCEPT ![g] = Whole(keychain.dict[g][1])]
             \/ disk' = disk
      BY <1>9, StoreEndsFacts
    <2>2. g = "persistent" => keychain.dict[g][1] \in Infos
      BY <2>1 DEF KeychainOK
    <2>3. Whole(keychain.dict[g][1]) \in IF g = "persistent" THEN Contents(Infos) ELSE Contents(Nat)
      BY <2>1, <2>2 DEF Whole, Contents
    <2>4. DiskOK'
      BY <1>3, <1>4, <2>1, <2>3 DEF DiskOK
    <2> QED BY <1>2, <2>1, <2>4 DEF KeychainOK
  <1>10. CASE UpdateBegins
    <2>1. CtxArg \in Infos /\ StoreBegins("persistent", CtxArg)
      BY <1>10, UpdateArg DEF UpdateBegins
    <2>2. CtxArg \in Nat
      BY <2>1 DEF Infos
    <2> QED BY <1>4, <1>8, <2>1, <2>2
  <1>11. CASE FixStores
    <2>1. past.fixes \in Nat /\ StoreBegins("temp", past.fixes)
      BY <1>11 DEF FixStores, PastOK
    <2> QED BY <1>4, <1>8, <2>1
  <1>12. CASE UpdateEnds
    BY <1>4, <1>9, <1>12 DEF UpdateEnds
  <1>13. CASE FixEnds
    BY <1>4, <1>9, <1>13 DEF FixEnds
  <1>14. CASE Crash
    <2>1. NewKeychain \in [file : [Groups -> Files], dict : [Groups -> Seq(Nat)],
                           holder : Groups \cup {"none"}]
          /\ NewKeychain.dict["persistent"] \in Seq(Infos')
      BY DEF NewKeychain, Files, Groups
    <2>2. keychain' = NewKeychain /\ disk' = disk
      BY <1>14 DEF Crash
    <2> QED BY <1>3, <2>1, <2>2 DEF KeychainOK, DiskOK
  <1> QED
    BY KeychainCases, <1>5, <1>6, <1>7, <1>10, <1>11, <1>12, <1>13, <1>14

LEMMA FileStep ==
    ASSUME IInv, Next
    PROVE  FileInv'
  <1> USE DEF IInv, TypeOK
  <1>1. "persistent" \in Groups /\ "temp" \in Groups /\ "none" \notin Groups
    BY DEF Groups
  <1>2. folder' = folder
    BY KeychainCases
  <1>3. CASE FilesAlike
    BY <1>2, <1>3 DEF FilesAlike, FileInv
  <1>4. CASE FirstCreate
    <2>1. keychain = NewKeychain /\ past.sinceLoad = [g \in Groups |-> 0]
      BY <1>4 DEF FirstCreate, FreshInv
    <2>2. keychain'.holder = "none" /\ keychain'.file = Listed
      BY <1>4, <2>1 DEF FirstCreate, NewKeychain
    <2>3. \A g \in Groups : Listed[g] \in {"none", "closed"} /\ past'.sinceLoad[g] = 0
      BY <1>4, <2>1 DEF Listed, FirstCreate
    <2> QED BY <1>1, <2>2, <2>3 DEF FileInv
  <1>5. CASE SetKeychain
    <2> SUFFICES ASSUME NEW g \in Groups
                 PROVE  /\ keychain'.file[g] \in {"none", "closed", "reading"}
                        /\ past.sinceLoad[g] > 0 =>
                            keychain'.file[g] = "closed" /\ keychain'.dict[g] # <<>>
      <3>1. past' = past /\ keychain'.holder = "none"
        BY <1>5, LoadFacts DEF SetKeychain
      <3> QED BY <1>1, <3>1 DEF FileInv
    <2>1. /\ keychain.file[g] \in {"none", "closed", "reading"}
          /\ past.sinceLoad[g] > 0 => keychain.file[g] = "closed" /\ keychain.dict[g] # <<>>
      BY <1>1, <1>5, LoadFacts DEF FileInv
    <2>2. keychain'.file[g] = FileLoaded(g) /\ keychain'.dict[g] = DictLoaded(g)
      BY <1>5, LoadFacts
    <2> QED BY <2>1, <2>2 DEF FileLoaded, DictLoaded, MustLoad
  <1>6. ASSUME NEW g \in Groups, NEW v \in Nat, StoreBegins(g, v),
               past'.sinceLoad = past.sinceLoad
        PROVE  FileInv'
    <2>1. /\ keychain.holder = "none"
          /\ keychain'.holder = g /\ keychain'.dict[g] = <<v>>
          /\ keychain'.file[g] \in {"writing", "broken"}
          /\ keychain'.file[g] = "broken" => folder = "shared" /\ past.sinceLoad[g] = 0
          /\ \A h \in Groups \ {g} : /\ keychain'.file[h] = keychain.file[h]
                                     /\ keychain'.dict[h] = keychain.dict[h]
      BY <1>6, StoreBeginsFacts
    <2>2. <<v>> # <<>>
      OBVIOUS
    <2> QED BY <1>1, <1>2, <1>6, <2>1, <2>2 DEF FileInv
  <1>7. ASSUME NEW g \in Groups, StoreEnds(g),
               \A h \in Groups \ {g} : past'.sinceLoad[h] = past.sinceLoad[h]
        PROVE  FileInv'
    <2>1. /\ keychain.holder = g /\ keychain'.holder = "none"
          /\ keychain'.dict = keychain.dict
          /\ keychain'.file[g] = "closed"
          /\ \A h \in Groups \ {g} : keychain'.file[h] = keychain.file[h]
          /\ keychain.dict[g] # <<>>
      BY <1>7, StoreEndsFacts
    <2> QED BY <1>1, <1>7, <2>1 DEF FileInv
  <1>8. CASE UpdateBegins
    <2>1. CtxArg \in Infos /\ StoreBegins("persistent", CtxArg) /\ past' = past
      BY <1>8, UpdateArg DEF UpdateBegins
    <2> QED BY <1>1, <1>6, <2>1 DEF Infos
  <1>9. CASE FixStores
    BY <1>1, <1>6, <1>9 DEF FixStores, PastOK
  <1>10. CASE UpdateEnds
    <2>1. past'.sinceLoad = Ended("persistent", past).sinceLoad
      BY <1>1, <1>10, EndedFields DEF UpdateEnds
    <2>2. past'.sinceLoad = [past.sinceLoad EXCEPT !["persistent"] = 1 + @]
      BY <1>1, <2>1, EndedFields
    <2>3. \A h \in Groups \ {"persistent"} : past'.sinceLoad[h] = past.sinceLoad[h]
      BY <2>2 DEF PastOK
    <2> QED BY <1>1, <1>7, <1>10, <2>3 DEF UpdateEnds
  <1>11. CASE FixEnds
    <2>1. past'.sinceLoad = Ended("temp", past).sinceLoad
      BY <1>1, <1>11, EndedFields DEF FixEnds
    <2>2. past'.sinceLoad = [past.sinceLoad EXCEPT !["temp"] = 1 + @]
      BY <1>1, <2>1, EndedFields
    <2>3. \A h \in Groups \ {"temp"} : past'.sinceLoad[h] = past.sinceLoad[h]
      BY <2>2 DEF PastOK
    <2> QED BY <1>1, <1>7, <1>11, <2>3 DEF FixEnds
  <1>12. CASE Crash
    <2>1. keychain' = NewKeychain /\ past'.sinceLoad = [g \in Groups |-> 0]
      BY <1>12 DEF Crash, PastOK
    <2> QED BY <1>1, <2>1 DEF FileInv, NewKeychain
  <1> QED
    BY KeychainCases, <1>3, <1>4, <1>5, <1>8, <1>9, <1>10, <1>11, <1>12

-----------------------------------------------------------------------------
(* The types of the jobs.                                                  *)

LEMMA JobsWiden ==
    ASSUME InfosGrow
    PROVE  /\ CtxJobs(Infos) \subseteq CtxJobs(Infos')
           /\ ProtoJobs(Infos) \subseteq ProtoJobs(Infos')
  BY DEF InfosGrow, CtxJobs, ProtoJobs

LEMMA ContextWidens ==
    ASSUME ContextOK, InfosGrow
    PROVE  context \in Contexts(Infos')
  <1>1. context.jobs \in Seq(CtxJobs(Infos'))
    <2>1. context.jobs \in Seq(CtxJobs(Infos))
      BY DEF ContextOK, Contexts
    <2> QED BY <2>1, JobsWiden, WiderSeq
  <1>2. context.info \in {0} \cup Infos'
    BY DEF ContextOK, Contexts, InfosGrow
  <1> QED BY <1>1, <1>2 DEF ContextOK, Contexts

LEMMA PostedOK ==
    ASSUME ContextOK, InfosGrow, NEW e \in CtxJobs(Infos')
    PROVE  Posted(<<e>>) \in Contexts(Infos')
  <1>1. context \in Contexts(Infos')
    BY ContextWidens
  <1>2. context.jobs \in Seq(CtxJobs(Infos'))
    BY <1>1 DEF Contexts
  <1>3. context.jobs \o <<e>> \in Seq(CtxJobs(Infos'))
    BY <1>2, AppendFacts
  <1> QED BY <1>1, <1>3 DEF Contexts, Posted

LEMMA PostedTwoOK ==
    ASSUME ContextOK, InfosGrow, NEW d \in CtxJobs(Infos'), NEW e \in CtxJobs(Infos')
    PROVE  Posted(<<d, e>>) \in Contexts(Infos')
  <1>1. context \in Contexts(Infos')
    BY ContextWidens
  <1>2. context.jobs \in Seq(CtxJobs(Infos'))
    BY <1>1 DEF Contexts
  <1>3. context.jobs \o <<d, e>> \in Seq(CtxJobs(Infos'))
    BY <1>2, TwoMoreFacts
  <1> QED BY <1>1, <1>3 DEF Contexts, Posted

LEMMA DequeuedOK ==
    ASSUME ContextOK, InfosGrow, CtxOp # "idle"
    PROVE  CtxDequeued \in Contexts(Infos')
  <1>1. context \in Contexts(Infos')
    BY ContextWidens
  <1>2. context.jobs \in Seq(CtxJobs(Infos')) /\ context.jobs # <<>>
    BY <1>1, HeadOfJobs DEF Contexts
  <1>3. Tail(context.jobs) \in Seq(CtxJobs(Infos'))
    BY <1>2, TailFacts
  <1> QED BY <1>1, <1>3 DEF Contexts, CtxDequeued

LEMMA ContextStepOK ==
    ASSUME IInv, Next
    PROVE  ContextOK'
  <1> USE DEF IInv, TypeOK
  <1>1. PastOK' /\ InfosGrow
    BY PastStep
  <1>2. SUFFICES context' \in Contexts(Infos')
    BY DEF ContextOK
  <1>3. \A op \in {"setKeychain", "required", "peek", "completed"} : Job(op, 0) \in CtxJobs(Infos')
    BY DEF Job, CtxJobs
  <1>4. \A op \in {"read", "listen"} : \A c \in Clients : Job(op, c) \in CtxJobs(Infos')
    BY DEF Job, CtxJobs
  <1>5. ASSUME NEW c \in Clients, Create(c)
        PROVE  context' \in Contexts(Infos')
    <2>1. CASE context.made
      BY <1>1, <1>4, <1>5, <2>1, PostedOK DEF Create
    <2>2. CASE ~context.made
      <3>1. Posted(<<Job("setKeychain", 0), Job("read", c)>>) \in Contexts(Infos')
        BY <1>1, <1>3, <1>4, PostedTwoOK
      <3>2. context' = [Posted(<<Job("setKeychain", 0), Job("read", c)>>) EXCEPT !.made = TRUE]
        BY <1>5, <2>2 DEF Create
      <3> QED BY <3>1, <3>2 DEF Contexts
    <2> QED BY <2>1, <2>2
  <1>6. ASSUME NEW c \in Clients, Constructed(c)
        PROVE  context' \in Contexts(Infos')
    BY <1>1, <1>3, <1>6, PostedOK DEF Constructed
  <1>7. ASSUME NEW c \in Clients, Initialize(c)
        PROVE  context' \in Contexts(Infos')
    BY <1>1, <1>4, <1>7, PostedOK DEF Initialize
  <1>8. CASE SetKeychain
    <2>1. CtxDequeued \in Contexts(Infos')
      BY <1>1, <1>8, DequeuedOK DEF SetKeychain
    <2>2. context' = [CtxDequeued EXCEPT !.loaded = TRUE, !.difference = Stored("temp"),
                                         !.info = Stored("persistent")]
      BY <1>8 DEF SetKeychain
    <2>3. context'.info \in {0} \cup Infos' /\ context'.difference \in Nat
      BY <1>1, <1>8, LoadFacts DEF InfosGrow
    <2> QED BY <2>1, <2>2, <2>3 DEF Contexts
  <1>9. CASE Read
    BY <1>1, <1>9, DequeuedOK DEF Read
  <1>10. CASE Required
    <2>1. CtxDequeued \in Contexts(Infos')
      BY <1>1, <1>10, DequeuedOK DEF Required
    <2> QED BY <1>10, <2>1 DEF Required, Contexts
  <1>11. CASE Listen
    <2>1. CtxDequeued \in Contexts(Infos')
      BY <1>1, <1>11, DequeuedOK DEF Listen
    <2>2. CtxArg \in Clients
      BY <1>11, HeadOfJobs DEF Listen, CtxJobs
    <2> QED BY <1>11, <2>1, <2>2 DEF Listen, Contexts
  <1>12. CASE Difference
    <2>1. CtxDequeued \in Contexts(Infos')
      BY <1>1, <1>12, DequeuedOK DEF Difference
    <2>2. CtxArg \in Nat
      BY <1>12, HeadOfJobs DEF Difference, CtxJobs
    <2> QED BY <1>12, <2>1, <2>2 DEF Difference, Contexts
  <1>13. CASE UpdateBegins
    <2>1. context \in Contexts(Infos')
      BY <1>1, ContextWidens
    <2>2. CtxArg \in Infos'
      BY <1>1, <1>13, UpdateArg DEF UpdateBegins, InfosGrow
    <2> QED BY <1>13, <2>1, <2>2 DEF UpdateBegins, Contexts
  <1>14. CASE UpdateEnds
    BY <1>1, <1>14, DequeuedOK DEF UpdateEnds
  <1>15. CASE ActionCompleted
    <2>1. CtxDequeued \in Contexts(Infos')
      BY <1>1, <1>15, DequeuedOK DEF ActionCompleted
    <2> QED BY <1>15, <2>1 DEF ActionCompleted, Contexts
  <1>16. CASE ResetBegins
    BY <1>1, <1>3, <1>16, PostedOK, ContextWidens DEF ResetBegins
  <1>17. CASE ResetEnds
    BY <1>1, <1>3, <1>17, PostedOK, ContextWidens DEF ResetEnds
  <1>18. CASE Told
    BY <1>1, <1>3, <1>18, PostedOK, ContextWidens DEF Told
  <1>19. CASE FixBegins
    <2>1. Job("difference", past'.fixes) \in CtxJobs(Infos')
      BY <1>1 DEF Job, CtxJobs, PastOK
    <2> QED BY <1>1, <1>19, <2>1, PostedOK, ContextWidens DEF FixBegins
  <1>20. CASE FixEnds
    <2>1. CASE context' = context
      BY <1>1, <2>1, ContextWidens
    <2>2. CASE /\ context' = Posted(<<Job("update", Len(past.infos) + 1)>>)
               /\ past' = [Ended("temp", past) EXCEPT !.infos =
                            Append(@, KeyOf(client[ProtoArg].info))]
      <3>1. past'.infos = Append(past.infos, KeyOf(client[ProtoArg].info))
        BY <2>2, EndedFields DEF Groups
      <3>2. KeyOf(client[ProtoArg].info) \in Nat
        BY <1>20, FixedKey DEF FixEnds
      <3>3. Len(past.infos) + 1 \in Infos'
        BY <3>1, <3>2, OneInfo
      <3>4. Job("update", Len(past.infos) + 1) \in CtxJobs(Infos')
        BY <3>3 DEF Job, CtxJobs
      <3> QED BY <1>1, <2>2, <3>4, PostedOK
    <2> QED BY <1>20, <2>1, <2>2 DEF FixEnds
  <1>21. CASE KeyMade
    <2>1. past' = [past EXCEPT !.infos = Append(@, Len(@) + 1)]
      BY <1>21 DEF KeyMade
    <2>2. past'.infos = Append(past.infos, Len(past.infos) + 1) /\ Len(past.infos) + 1 \in Nat
      BY <2>1 DEF PastOK
    <2>3. Len(past'.infos) \in Infos'
      BY <2>2, OneInfo
    <2>4. Job("update", Len(past'.infos)) \in CtxJobs(Infos')
      BY <2>3 DEF Job, CtxJobs
    <2>5. Posted(<<Job("update", Len(past'.infos)), Job("completed", 0)>>) \in Contexts(Infos')
      BY <1>1, <1>3, <2>4, PostedTwoOK
    <2> QED BY <1>21, <2>5 DEF KeyMade, Contexts
  <1>22. CASE Crash
    BY <1>22 DEF Crash, NewContext, Contexts
  <1>23. CASE context' = context
    BY <1>1, <1>23, ContextWidens
  <1> QED
    BY NextCases, <1>5, <1>6, <1>7, <1>8, <1>9, <1>10, <1>11, <1>12, <1>13, <1>14, <1>15,
       <1>16, <1>17, <1>18, <1>19, <1>20, <1>21, <1>22, <1>23
    DEF Request, Connected, Synced, ReadyJob, Boot

LEMMA ProtoWidens ==
    ASSUME ProtoOK, InfosGrow
    PROVE  proto \in Seq(ProtoJobs(Infos'))
  <1>1. proto \in Seq(ProtoJobs(Infos))
    BY DEF ProtoOK
  <1> QED BY <1>1, JobsWiden, WiderSeq

\* the head of Proto's queue goes on, and the rest waits
LEMMA GoesOnFacts ==
    ASSUME ProtoOK, InfosGrow, ProtoOp # "idle", NEW op, ProtoGoesOn(op),
           \/ op \in {"resetting", "hasKey", "hasNone"}
           \/ op \in {"fixed", "fixing"} /\ ProtoOp \in {"fix", "fixed"}
    PROVE  /\ proto' \in Seq(ProtoJobs(Infos'))
           /\ Len(proto') = Len(proto) /\ Len(proto) \in Nat \ {0}
           /\ proto'[1].op = op /\ proto'[1].arg = proto[1].arg
           /\ \A i \in 2..Len(proto) : proto'[i] = proto[i]
           /\ ProtoOp' = op /\ ProtoArg' = ProtoArg
  <1> DEFINE h == [Head(proto) EXCEPT !.op = op]
  <1>1. proto \in Seq(ProtoJobs(Infos')) /\ proto # <<>>
    BY ProtoWidens, HeadOfProto
  <1>2. Head(proto) \in ProtoJobs(Infos) /\ Head(proto).op = ProtoOp /\ Head(proto).arg = ProtoArg
    BY HeadOfProto
  <1>3. h \in ProtoJobs(Infos) /\ h.op = op /\ h.arg = Head(proto).arg
    BY <1>2 DEF ProtoJobs
  <1>4. h \in ProtoJobs(Infos')
    BY <1>3, JobsWiden
  <1>5. proto' = <<h>> \o Tail(proto)
    BY DEF ProtoGoesOn
  <1> HIDE DEF h
  <1>6. /\ proto' \in Seq(ProtoJobs(Infos')) /\ Len(proto') = Len(proto) /\ Len(proto) \in Nat \ {0}
        /\ proto'[1] = h /\ proto' # <<>> /\ Head(proto') = h
        /\ \A i \in 2..Len(proto) : proto'[i] = proto[i]
    BY <1>1, <1>4, <1>5, HeadFacts
  <1> QED BY <1>2, <1>3, <1>6, HeadOfProto DEF ProtoOp, ProtoArg

LEMMA ProtoTail ==
    ASSUME ProtoOK, InfosGrow, ProtoOp # "idle", proto' = Tail(proto)
    PROVE  /\ proto' \in Seq(ProtoJobs(Infos'))
           /\ Len(proto') = Len(proto) - 1 /\ Len(proto) \in Nat \ {0}
           /\ \A i \in 1..Len(proto') : i + 1 \in 1..Len(proto) /\ proto'[i] = proto[i + 1]
  <1>1. proto \in Seq(ProtoJobs(Infos')) /\ proto # <<>>
    BY ProtoWidens, HeadOfProto
  <1> QED BY <1>1, TailFacts

LEMMA ProtoAppended ==
    ASSUME ProtoOK, InfosGrow, NEW c \in Clients, NEW op \in {"reset", "ready", "fix"},
           proto' = Append(proto, Job(op, c))
    PROVE  proto' \in Seq(ProtoJobs(Infos')) /\ OneMore(proto, Job(op, c), proto')
  <1>1. proto \in Seq(ProtoJobs(Infos'))
    BY ProtoWidens
  <1>2. Job(op, c) \in ProtoJobs(Infos')
    BY DEF Job, ProtoJobs
  <1> QED BY <1>1, <1>2, AppendFacts

\* the listeners' jobs that an update adds
Tells ==
    [i \in DOMAIN SetToSeq(context.listeners) |->
        [op |-> "told", arg |-> SetToSeq(context.listeners)[i], info |-> CtxArg]]

LEMMA TellsFacts ==
    ASSUME ContextOK, ProtoOK, InfosGrow, CtxOp = "update", proto' = proto \o Tells
    PROVE  /\ proto' \in Seq(ProtoJobs(Infos')) /\ Len(proto) \in Nat /\ Len(proto') \in Nat
           /\ Len(proto') >= Len(proto)
           /\ \A i \in 1..Len(proto) : proto'[i] = proto[i]
           /\ \A i \in (Len(proto) + 1)..Len(proto') :
                /\ proto'[i].op = "told" /\ proto'[i].info = CtxArg
                /\ proto'[i].arg \in context.listeners
  <1> DEFINE l == SetToSeq(context.listeners)
  <1>1. context.listeners \subseteq Clients
    BY DEF ContextOK, Contexts
  <1>2. l \in Seq(context.listeners)
    BY <1>1, ListenersInOrder
  <1>3. CtxArg \in Infos'
    BY UpdateArg DEF InfosGrow
  <1>4. Tells = [i \in DOMAIN l |-> [op |-> "told", arg |-> l[i], info |-> CtxArg]]
    BY DEF Tells
  <1> HIDE DEF l
  <1>5. Len(l) \in Nat /\ DOMAIN l = 1..Len(l) /\ \A i \in 1..Len(l) : l[i] \in context.listeners
    BY <1>2
  <1>6. \A i \in 1..Len(l) : [op |-> "told", arg |-> l[i], info |-> CtxArg] \in ProtoJobs(Infos')
    BY <1>1, <1>3, <1>5 DEF ProtoJobs
  <1>7. Tells \in Seq(ProtoJobs(Infos')) /\ Len(Tells) = Len(l)
    BY <1>4, <1>5, <1>6
  <1>8. \A i \in 1..Len(Tells) :
            Tells[i].op = "told" /\ Tells[i].info = CtxArg /\ Tells[i].arg \in context.listeners
    BY <1>4, <1>5, <1>7
  <1>9. /\ proto' \in Seq(ProtoJobs(Infos')) /\ Len(proto) \in Nat /\ Len(Tells) \in Nat
        /\ Len(proto') = Len(proto) + Len(Tells)
        /\ \A i \in 1..Len(proto) : proto'[i] = proto[i]
        /\ \A i \in 1..Len(Tells) : proto'[Len(proto) + i] = Tells[i]
    <2>1. proto \in Seq(ProtoJobs(Infos'))
      BY ProtoWidens
    <2>2. Tells \in Seq(ProtoJobs(Infos'))
      BY <1>7
    <2>3. /\ proto \o Tells \in Seq(ProtoJobs(Infos')) /\ Len(proto) \in Nat /\ Len(Tells) \in Nat
          /\ Len(proto \o Tells) = Len(proto) + Len(Tells)
          /\ \A i \in 1..Len(proto) : (proto \o Tells)[i] = proto[i]
          /\ \A i \in 1..Len(Tells) : (proto \o Tells)[Len(proto) + i] = Tells[i]
      BY <2>1, <2>2, JoinFacts
    <2> QED BY <2>3
  <1>10. ASSUME NEW i \in (Len(proto) + 1)..Len(proto')
         PROVE  /\ proto'[i].op = "told" /\ proto'[i].info = CtxArg
                /\ proto'[i].arg \in context.listeners
    <2>1. i - Len(proto) \in 1..Len(Tells) /\ Len(proto) + (i - Len(proto)) = i
      BY <1>9, <1>10
    <2> QED BY <1>8, <1>9, <2>1
  <1> QED BY <1>9, <1>10

LEMMA UpdateTells ==
    ASSUME UpdateEnds
    PROVE  proto' = proto \o Tells
  BY DEF UpdateEnds, Tells

\* Proto's job waits while it asks
LEMMA PeekAsks ==
    ASSUME ContextOK, PeekInv, CtxOp = "peek"
    PROVE  ProtoOp = "resetting"
  <1>1. 1 \in 1..Len(context.jobs) /\ context.jobs[1].op = "peek"
    BY HeadOfJobs
  <1> QED BY <1>1 DEF PeekInv

LEMMA ProtoStepOK ==
    ASSUME IInv, Next
    PROVE  ProtoOK'
  <1> USE DEF IInv, TypeOK
  <1>1. PastOK' /\ InfosGrow
    BY PastStep
  <1>2. SUFFICES proto' \in Seq(ProtoJobs(Infos'))
    BY DEF ProtoOK
  <1>3. CASE UNCHANGED proto
    BY <1>1, <1>3, ProtoWidens
  <1>4. ASSUME NEW c \in Clients, Request(c) \/ Connected(c) \/ Synced(c)
        PROVE  proto' \in Seq(ProtoJobs(Infos'))
    BY <1>1, <1>4, ProtoAppended DEF Request, Connected, Synced
  <1>5. CASE Read
    <2>1. CASE CtxOp = "peek" /\ ProtoGoesOn(IF context.info = 0 THEN "hasNone" ELSE "hasKey")
      BY <1>1, <2>1, PeekAsks, GoesOnFacts
    <2> QED BY <1>3, <1>5, <2>1 DEF Read
  <1>6. CASE UpdateEnds
    BY <1>1, <1>6, UpdateTells, TellsFacts DEF UpdateEnds
  <1>7. CASE ResetBegins
    BY <1>1, <1>7, GoesOnFacts, ProtoTail DEF ResetBegins
  <1>8. CASE Told
    BY <1>1, <1>8, GoesOnFacts, ProtoTail DEF Told
  <1>9. CASE FixBegins
    BY <1>1, <1>9, GoesOnFacts DEF FixBegins
  <1>10. CASE ResetEnds \/ ReadyJob \/ FixEnds
    BY <1>1, <1>10, ProtoTail DEF ResetEnds, ReadyJob, FixEnds
  <1>11. CASE Crash
    BY <1>11 DEF Crash
  <1> QED
    BY NextCases, <1>3, <1>4, <1>5, <1>6, <1>7, <1>8, <1>9, <1>10, <1>11
    DEF Create, Constructed, Initialize, SetKeychain, Required, Listen, Difference, UpdateBegins,
        ActionCompleted, KeyMade, Boot

LEMMA ClientStepOK ==
    ASSUME IInv, Next
    PROVE  ClientOK'
  <1> USE DEF IInv, TypeOK
  <1>1. PastOK' /\ InfosGrow
    BY PastStep
  <1>2. client \in [Clients -> [at : Places, info : {0} \cup Infos', awaiting : BOOLEAN,
                                transport : BOOLEAN]]
    BY <1>1 DEF ClientOK, InfosGrow
  <1>3. CASE UNCHANGED client
    BY <1>2, <1>3 DEF ClientOK
  <1>4. ASSUME NEW c \in Clients, Create(c) \/ Constructed(c) \/ Initialize(c) \/ Request(c)
        PROVE  ClientOK'
    <2>1. CASE Create(c)
      <3>1. NewClient \in [at : Places, info : {0} \cup Infos', awaiting : BOOLEAN,
                           transport : BOOLEAN]
        BY DEF NewClient, Places
      <3>2. client' = [client EXCEPT ![c] = [NewClient EXCEPT !.at = "reading"]]
        BY <2>1 DEF Create
      <3> QED BY <1>2, <3>1, <3>2 DEF ClientOK, Places
    <2>2. CASE \E at \in Places : client' = [client EXCEPT ![c].at = at]
      BY <1>2, <2>2 DEF ClientOK
    <2> QED BY <1>4, <2>1, <2>2 DEF Constructed, Initialize, Request, Places
  <1>5. CASE Read
    <2>1. CASE CtxOp = "read" /\ client' = [client EXCEPT ![CtxArg] =
                                    [@ EXCEPT !.at = "read", !.info = context.info]]
      <3>1. CtxArg \in Clients
        BY <2>1, HeadOfJobs DEF CtxJobs
      <3>2. context.info \in {0} \cup Infos'
        BY <1>1 DEF ContextOK, Contexts, InfosGrow
      <3> QED BY <1>2, <2>1, <3>1, <3>2 DEF ClientOK, Places
    <2> QED BY <1>3, <1>5, <2>1 DEF Read
  <1>6. CASE ResetEnds
    <2>1. ProtoArg \in Clients
      BY <1>6, HeadOfProto DEF ResetEnds
    <2>2. \/ client' = [client EXCEPT ![ProtoArg].transport = TRUE]
          \/ client' = [client EXCEPT ![ProtoArg].awaiting = TRUE]
      BY <1>6 DEF ResetEnds
    <2> QED BY ZenonT(30), <1>2, <2>1, <2>2 DEF ClientOK
  <1>7. CASE Told
    <2>1. ProtoArg \in Clients /\ Head(proto).info \in Infos'
      BY <1>1, <1>7, HeadOfProto, ToldInfo DEF Told, InfosGrow
    <2> QED BY <1>2, <1>7, <2>1 DEF Told, ClientOK
  <1>8. CASE ReadyJob
    <2>1. ProtoArg \in Clients
      BY <1>8, HeadOfProto DEF ReadyJob
    <2> QED BY <1>2, <1>8, <2>1 DEF ReadyJob, ClientOK, Places
  <1>9. CASE FixEnds
    <2>1. CASE /\ past' = [Ended("temp", past) EXCEPT !.infos =
                            Append(@, KeyOf(client[ProtoArg].info))]
               /\ client' = [client EXCEPT ![ProtoArg].info = Len(past.infos) + 1]
      <3>1. past'.infos = Append(past.infos, KeyOf(client[ProtoArg].info))
        BY <2>1, EndedFields DEF Groups
      <3>2. KeyOf(client[ProtoArg].info) \in Nat /\ ProtoArg \in Clients
        BY <1>9, FixedKey DEF FixEnds
      <3>3. Len(past.infos) + 1 \in Infos'
        BY <3>1, <3>2, OneInfo
      <3> QED BY <1>2, <2>1, <3>2, <3>3 DEF ClientOK
    <2> QED BY <1>3, <1>9, <2>1 DEF FixEnds
  <1>10. CASE Crash
    BY <1>10 DEF Crash, NewClient, ClientOK, Places
  <1> QED
    BY NextCases, <1>3, <1>4, <1>5, <1>6, <1>7, <1>8, <1>9, <1>10
    DEF Connected, Synced, SetKeychain, Required, Listen, Difference, UpdateBegins, UpdateEnds,
        ActionCompleted, ResetBegins, FixBegins, KeyMade, Boot

LEMMA TypeStep ==
    ASSUME IInv, Next
    PROVE  TypeOK'
  <1>1. PastOK' /\ folder' = folder
    BY PastStep, KeychainCases DEF IInv, TypeOK
  <1>2. up' \in BOOLEAN
    BY NextCases
    DEF IInv, TypeOK, Create, Constructed, Initialize, Request, Connected, Synced, KeyMade,
        Crash, Boot
  <1> QED
    BY <1>1, <1>2, KeychainStep, ContextStepOK, ProtoStepOK, ClientStepOK DEF IInv, TypeOK

-----------------------------------------------------------------------------
(* What a step does to Context's jobs.                                     *)

Posts(e) == OneMore(context.jobs, e, context'.jobs)
PostsTwo(d, e) ==
    /\ Len(context.jobs) \in Nat /\ Len(context'.jobs) = Len(context.jobs) + 2
    /\ \A i \in 1..Len(context.jobs) : context'.jobs[i] = context.jobs[i]
    /\ context'.jobs[Len(context.jobs) + 1] = d /\ context'.jobs[Len(context.jobs) + 2] = e
Dequeues ==
    /\ Len(context.jobs) \in Nat \ {0} /\ Len(context'.jobs) = Len(context.jobs) - 1
    /\ \A i \in 1..Len(context'.jobs) :
        i + 1 \in 1..Len(context.jobs) /\ context'.jobs[i] = context.jobs[i + 1]

LEMMA Posting ==
    ASSUME ContextOK, NEW e, context'.jobs = Posted(<<e>>).jobs
    PROVE  Posts(e)
  <1> DEFINE S == CtxJobs(Infos) \cup {e}
  <1>1. context.jobs \in Seq(CtxJobs(Infos))
    BY DEF ContextOK, Contexts
  <1>2. context.jobs \in Seq(S) /\ e \in S
    BY <1>1
  <1>3. context'.jobs = context.jobs \o <<e>>
    BY PostedFields
  <1> QED BY <1>2, <1>3, AppendFacts DEF Posts

LEMMA PostingTwo ==
    ASSUME ContextOK, NEW d, NEW e, context'.jobs = Posted(<<d, e>>).jobs
    PROVE  PostsTwo(d, e)
  <1> DEFINE S == CtxJobs(Infos) \cup {d, e}
  <1>1. context.jobs \in Seq(CtxJobs(Infos))
    BY DEF ContextOK, Contexts
  <1>2. context.jobs \in Seq(S) /\ d \in S /\ e \in S
    BY <1>1
  <1>3. context'.jobs = context.jobs \o <<d, e>>
    BY PostedFields
  <1> HIDE DEF S
  <1>4. /\ Len(context.jobs) \in Nat
        /\ Len(context.jobs \o <<d, e>>) = Len(context.jobs) + 2
        /\ \A i \in 1..Len(context.jobs) : (context.jobs \o <<d, e>>)[i] = context.jobs[i]
        /\ (context.jobs \o <<d, e>>)[Len(context.jobs) + 1] = d
        /\ (context.jobs \o <<d, e>>)[Len(context.jobs) + 2] = e
    BY <1>2, TwoMoreFacts
  <1> QED BY <1>3, <1>4 DEF PostsTwo

LEMMA Dequeuing ==
    ASSUME ContextOK, CtxOp # "idle", context'.jobs = CtxDequeued.jobs
    PROVE  Dequeues
  <1>1. context.jobs \in Seq(CtxJobs(Infos)) /\ context.jobs # <<>>
    BY HeadOfJobs DEF ContextOK, Contexts
  <1>2. context'.jobs = Tail(context.jobs)
    BY DequeuedFields
  <1> QED BY <1>1, <1>2, TailFacts DEF Dequeues

\* the jobs of Context's queue that no invariant is about
Plain == {Job("required", 0)} \cup {Job("difference", n) : n \in Nat}

\* an info is made of the key of a client
FixTells ==
    /\ FixEnds
    /\ past' = [Ended("temp", past) EXCEPT !.infos = Append(@, KeyOf(client[ProtoArg].info))]
    /\ context' = Posted(<<Job("update", Len(past.infos) + 1)>>)
    /\ client' = [client EXCEPT ![ProtoArg].info = Len(past.infos) + 1]

Fields == {"made", "loaded", "info", "action", "listeners"}
SameFields(fields) == \A f \in fields : context'[f] = context[f]

LEMMA JobsCases ==
    ASSUME IInv, Next
    PROVE  \/ \E c \in Clients : Create(c) /\ context.made /\ Posts(Job("read", c)) /\ SameFields(Fields)
           \/ \E c \in Clients :
                /\ Create(c) /\ ~context.made /\ context'.made
                /\ PostsTwo(Job("setKeychain", 0), Job("read", c)) /\ SameFields(Fields \ {"made"})
           \/ \E e \in Plain : Posts(e) /\ SameFields(Fields)
           \/ \E c \in Clients : Initialize(c) /\ Posts(Job("listen", c)) /\ SameFields(Fields)
           \/ (ResetBegins \/ Told) /\ Posts(Job("peek", 0)) /\ SameFields(Fields)
           \/ FixTells /\ Posts(Job("update", Len(past.infos) + 1)) /\ SameFields(Fields)
           \/ /\ KeyMade /\ context'.action = "made" /\ SameFields(Fields \ {"action"})
              /\ PostsTwo(Job("update", Len(past.infos) + 1), Job("completed", 0))
           \/ /\ CtxOp # "idle" /\ Dequeues
              /\ \/ Read /\ SameFields(Fields)
                 \/ SetKeychain /\ context'.loaded /\ SameFields({"made", "action", "listeners"})
                 \/ Required /\ SameFields(Fields \ {"action"})
                 \/ Listen /\ SameFields(Fields \ {"listeners"})
                 \/ Difference /\ SameFields(Fields)
                 \/ UpdateEnds /\ SameFields(Fields)
                 \/ ActionCompleted /\ SameFields(Fields \ {"action"})
           \/ /\ UpdateBegins /\ SameFields(Fields \ {"info"})
              /\ context'.jobs = context.jobs /\ context'.info = CtxArg
           \/ context' = context
           \/ Crash
  <1> USE DEF IInv, TypeOK
  <1>0. ASSUME NEW e, context' = Posted(<<e>>)
        PROVE  Posts(e) /\ SameFields(Fields)
    <2>1. Posts(e)
      BY <1>0, Posting
    <2>2. SameFields(Fields)
      <3>1. /\ context'.made = context.made /\ context'.loaded = context.loaded
            /\ context'.info = context.info /\ context'.action = context.action
            /\ context'.listeners = context.listeners
        BY <1>0, PostedFields
      <3> QED BY <3>1 DEF SameFields, Fields
    <2> QED BY <2>1, <2>2
  <1>1. ASSUME NEW c \in Clients, Create(c), context.made
        PROVE  Posts(Job("read", c)) /\ SameFields(Fields)
    <2>1. context' = Posted(<<Job("read", c)>>)
      BY <1>1 DEF Create
    <2> QED BY <1>0, <2>1
  <1>2. ASSUME NEW c \in Clients, Create(c), ~context.made
        PROVE  /\ context'.made /\ SameFields(Fields \ {"made"})
               /\ PostsTwo(Job("setKeychain", 0), Job("read", c))
    <2> DEFINE p == Posted(<<Job("setKeychain", 0), Job("read", c)>>)
    <2>1. context' = [p EXCEPT !.made = TRUE]
      BY <1>2 DEF Create
    <2>2. DOMAIN p = DOMAIN context
      BY PostedFields DEF ContextOK, Contexts
    <2>3. /\ context'.jobs = p.jobs /\ context'.made /\ context'.loaded = p.loaded
          /\ context'.info = p.info /\ context'.action = p.action /\ context'.listeners = p.listeners
      BY <2>1, <2>2 DEF ContextOK, Contexts
    <2>4. PostsTwo(Job("setKeychain", 0), Job("read", c))
      BY <2>3, PostingTwo
    <2>5. /\ p.loaded = context.loaded /\ p.info = context.info /\ p.action = context.action
          /\ p.listeners = context.listeners
      BY PostedFields
    <2> HIDE DEF p
    <2> QED BY <2>3, <2>4, <2>5 DEF SameFields, Fields
  <1>3. ASSUME NEW c \in Clients, Constructed(c)
        PROVE  \E e \in Plain : Posts(e) /\ SameFields(Fields)
    <2>1. context' = Posted(<<Job("required", 0)>>) /\ Job("required", 0) \in Plain
      BY <1>3 DEF Constructed, Plain
    <2> QED BY <1>0, <2>1
  <1>4. ASSUME NEW c \in Clients, Initialize(c)
        PROVE  Posts(Job("listen", c)) /\ SameFields(Fields)
    <2>1. context' = Posted(<<Job("listen", c)>>)
      BY <1>4 DEF Initialize
    <2> QED BY <1>0, <2>1
  <1>5. ASSUME ResetBegins \/ Told
        PROVE  \/ context' = context
               \/ Posts(Job("peek", 0)) /\ SameFields(Fields)
    <2>1. context' = context \/ context' = Posted(<<Job("peek", 0)>>)
      BY <1>5 DEF ResetBegins, Told
    <2> QED BY <1>0, <2>1
  <1>6. ASSUME ResetEnds
        PROVE  context' = context \/ \E e \in Plain : Posts(e) /\ SameFields(Fields)
    <2>1. context' = context \/ context' = Posted(<<Job("required", 0)>>)
      BY <1>6 DEF ResetEnds
    <2>2. Job("required", 0) \in Plain
      BY DEF Plain
    <2> QED BY <1>0, <2>1, <2>2
  <1>7. ASSUME FixBegins
        PROVE  context' = context \/ \E e \in Plain : Posts(e) /\ SameFields(Fields)
    <2>1. CASE /\ past' = [past EXCEPT !.fixes = 1 + @]
               /\ context' = Posted(<<Job("difference", past'.fixes)>>)
      <3>1. Job("difference", past'.fixes) \in Plain
        BY <2>1 DEF Plain, PastOK
      <3> QED BY <1>0, <2>1, <3>1
    <2> QED BY <1>7, <2>1 DEF FixBegins
  <1>8. ASSUME FixEnds
        PROVE  \/ context' = context
               \/ /\ FixTells /\ Posts(Job("update", Len(past.infos) + 1)) /\ SameFields(Fields)
    <2>1. FixTells \/ context' = context
      BY <1>8 DEF FixEnds, FixTells
    <2>2. FixTells => context' = Posted(<<Job("update", Len(past.infos) + 1)>>)
      BY DEF FixTells
    <2> QED BY <1>0, <2>1, <2>2
  <1>9. ASSUME KeyMade
        PROVE  /\ context'.action = "made" /\ SameFields(Fields \ {"action"})
               /\ PostsTwo(Job("update", Len(past.infos) + 1), Job("completed", 0))
    <2> DEFINE n == Len(past.infos) + 1
               p == Posted(<<Job("update", n), Job("completed", 0)>>)
    <2>1. past'.infos = Append(past.infos, n) /\ n \in Nat
      BY <1>9 DEF KeyMade, PastOK
    <2>2. Len(past'.infos) = n
      BY <2>1, OneInfo
    <2>3. context' = [p EXCEPT !.action = "made"]
      BY <1>9, <2>2 DEF KeyMade
    <2>4. DOMAIN p = DOMAIN context
      BY PostedFields DEF ContextOK, Contexts
    <2>5. /\ context'.jobs = p.jobs /\ context'.action = "made" /\ context'.loaded = p.loaded
          /\ context'.info = p.info /\ context'.made = p.made /\ context'.listeners = p.listeners
      BY <2>3, <2>4 DEF ContextOK, Contexts
    <2>6. PostsTwo(Job("update", n), Job("completed", 0))
      BY <2>5, PostingTwo
    <2>7. /\ p.loaded = context.loaded /\ p.info = context.info /\ p.made = context.made
          /\ p.listeners = context.listeners
      BY PostedFields
    <2> HIDE DEF p
    <2> QED BY <2>5, <2>6, <2>7 DEF SameFields, Fields
  <1>10. DOMAIN CtxDequeued = DOMAIN context
    BY DEF CtxDequeued, ContextOK, Contexts
  <1>11. ASSUME Read \/ Difference \/ UpdateEnds
         PROVE  CtxOp # "idle" /\ Dequeues /\ SameFields(Fields)
    <2>1. /\ CtxOp # "idle" /\ context'.jobs = CtxDequeued.jobs
          /\ \A f \in Fields : context'[f] = CtxDequeued[f]
      BY <1>10, <1>11 DEF Read, Difference, UpdateEnds, ContextOK, Contexts, Fields
    <2> QED BY <2>1, Dequeuing, DequeuedFields DEF SameFields, Fields
  <1>12. ASSUME SetKeychain
         PROVE  /\ CtxOp # "idle" /\ Dequeues
                /\ context'.loaded /\ SameFields({"made", "action", "listeners"})
    <2>1. /\ CtxOp # "idle" /\ context'.jobs = CtxDequeued.jobs /\ context'.loaded
          /\ \A f \in {"made", "action", "listeners"} : context'[f] = CtxDequeued[f]
      BY <1>10, <1>12 DEF SetKeychain, ContextOK, Contexts
    <2> QED BY <2>1, Dequeuing, DequeuedFields DEF SameFields
  <1>13. ASSUME Required \/ ActionCompleted
         PROVE  CtxOp # "idle" /\ Dequeues /\ SameFields(Fields \ {"action"})
    <2>1. /\ CtxOp # "idle" /\ context'.jobs = CtxDequeued.jobs
          /\ \A f \in Fields \ {"action"} : context'[f] = CtxDequeued[f]
      BY <1>10, <1>13 DEF Required, ActionCompleted, ContextOK, Contexts, Fields
    <2> QED BY <2>1, Dequeuing, DequeuedFields DEF SameFields, Fields
  <1>14. ASSUME Listen
         PROVE  CtxOp # "idle" /\ Dequeues /\ SameFields(Fields \ {"listeners"})
    <2>1. /\ CtxOp # "idle" /\ context'.jobs = CtxDequeued.jobs
          /\ \A f \in Fields \ {"listeners"} : context'[f] = CtxDequeued[f]
      BY <1>10, <1>14 DEF Listen, ContextOK, Contexts, Fields
    <2> QED BY <2>1, Dequeuing, DequeuedFields DEF SameFields, Fields
  <1>15. ASSUME UpdateBegins
         PROVE  /\ SameFields(Fields \ {"info"})
                /\ context'.jobs = context.jobs /\ context'.info = CtxArg
    BY <1>15 DEF UpdateBegins, SameFields, Fields, ContextOK, Contexts
  <1>16. ASSUME NEW c \in Clients, Request(c) \/ Connected(c) \/ Synced(c)
         PROVE  context' = context
    BY <1>16 DEF Request, Connected, Synced
  <1>17. ASSUME ReadyJob \/ Boot
         PROVE  context' = context
    BY <1>17 DEF ReadyJob, Boot
  <1> QED
    BY NextCases, <1>1, <1>2, <1>3, <1>4, <1>5, <1>6, <1>7, <1>8, <1>9, <1>11, <1>12, <1>13,
       <1>14, <1>15, <1>16, <1>17

-----------------------------------------------------------------------------
(* What a step does to Proto's jobs, and to where a client is.             *)

Adds(e) == OneMore(proto, e, proto')
GoesOn(op) ==
    /\ ProtoOp # "idle" /\ ProtoOp' = op
    /\ Len(proto') = Len(proto) /\ Len(proto) \in Nat \ {0}
    /\ proto'[1].op = op /\ proto'[1].arg = proto[1].arg
    /\ \A i \in 2..Len(proto) : proto'[i] = proto[i]
Drops ==
    /\ Len(proto) \in Nat \ {0} /\ Len(proto') = Len(proto) - 1
    /\ \A i \in 1..Len(proto') : i + 1 \in 1..Len(proto) /\ proto'[i] = proto[i + 1]
AddsTells ==
    /\ Len(proto) \in Nat /\ Len(proto') \in Nat /\ Len(proto') >= Len(proto)
    /\ \A i \in 1..Len(proto) : proto'[i] = proto[i]
    /\ \A i \in (Len(proto) + 1)..Len(proto') :
        /\ proto'[i].op = "told" /\ proto'[i].info = CtxArg
        /\ proto'[i].arg \in context.listeners

LEMMA ProtoCases ==
    ASSUME IInv, Next
    PROVE  \/ \E c \in Clients : \/ Request(c) /\ Adds(Job("reset", c))
                                 \/ Connected(c) /\ Adds(Job("ready", c))
                                 \/ Synced(c) /\ Adds(Job("fix", c))
           \/ (ResetBegins \/ Told) /\ GoesOn("resetting")
           \/ Read /\ CtxOp = "peek" /\ (GoesOn("hasNone") \/ GoesOn("hasKey"))
           \/ FixBegins /\ ProtoOp \in Fixes /\ (GoesOn("fixed") \/ GoesOn("fixing"))
           \/ UpdateEnds /\ AddsTells
           \/ (ResetBegins \/ ResetEnds \/ Told \/ ReadyJob \/ FixEnds) /\ Drops
           \/ proto' = proto /\ ~(Read /\ CtxOp = "peek")
           \/ Crash
  <1> USE DEF IInv, TypeOK
  <1>1. PastOK' /\ InfosGrow
    BY PastStep
  <1>2. ASSUME NEW c \in Clients, Request(c)
        PROVE  Adds(Job("reset", c))
    BY <1>1, <1>2, ProtoAppended DEF Request, Adds
  <1>3. ASSUME NEW c \in Clients, Connected(c)
        PROVE  Adds(Job("ready", c))
    BY <1>1, <1>3, ProtoAppended DEF Connected, Adds
  <1>4. ASSUME NEW c \in Clients, Synced(c)
        PROVE  Adds(Job("fix", c))
    BY <1>1, <1>4, ProtoAppended DEF Synced, Adds
  <1>5. ASSUME ResetBegins \/ Told
        PROVE  GoesOn("resetting") \/ Drops
    BY <1>1, <1>5, GoesOnFacts, ProtoTail DEF ResetBegins, Told, GoesOn, Drops
  <1>6. ASSUME Read, CtxOp = "peek"
        PROVE  GoesOn("hasNone") \/ GoesOn("hasKey")
    BY <1>1, <1>6, PeekAsks, GoesOnFacts DEF Read, GoesOn
  <1>7. ASSUME Read, CtxOp # "peek"
        PROVE  proto' = proto
    BY <1>7 DEF Read
  <1>8. ASSUME FixBegins
        PROVE  ProtoOp \in Fixes /\ (GoesOn("fixed") \/ GoesOn("fixing"))
    BY <1>1, <1>8, GoesOnFacts DEF FixBegins, GoesOn, Fixes
  <1>9. ASSUME UpdateEnds
        PROVE  AddsTells
    BY <1>1, <1>9, UpdateTells, TellsFacts DEF UpdateEnds, AddsTells
  <1>10. ASSUME ResetEnds \/ ReadyJob \/ FixEnds
         PROVE  Drops
    BY <1>1, <1>10, ProtoTail DEF ResetEnds, ReadyJob, FixEnds, Drops
  <1>11. ASSUME UNCHANGED proto, ~Read
         PROVE  proto' = proto /\ ~(Read /\ CtxOp = "peek")
    BY <1>11
  <1>12. ASSUME \/ \E c \in Clients : Create(c) \/ Constructed(c) \/ Initialize(c)
                \/ SetKeychain \/ Required \/ Listen \/ Difference \/ UpdateBegins
                \/ ActionCompleted \/ KeyMade \/ Boot
         PROVE  proto' = proto
    BY <1>12 DEF Create, Constructed, Initialize, SetKeychain, Required, Listen, Difference,
        UpdateBegins, ActionCompleted, KeyMade, Boot
  <1> QED
    BY NextCases, <1>2, <1>3, <1>4, <1>5, <1>6, <1>7, <1>8, <1>9, <1>10, <1>11, <1>12

\* the client of a job of Proto's has read
LEMMA CallerHasRead ==
    ASSUME IInv, ProtoOp # "idle"
    PROVE  ProtoArg \in Clients /\ HasRead(ProtoArg)
  BY HeadOfProto DEF IInv, TypeOK, CallerInv

LEMMA AtCases ==
    ASSUME IInv, Next, NEW c \in Clients
    PROVE  \/ client'[c].at = client[c].at
           \/ Create(c) /\ client[c].at = "none" /\ client'[c].at = "reading"
           \/ Read /\ CtxOp = "read" /\ CtxArg = c /\ HasRead(c)'
           \/ HasRead(c) /\ HasRead(c)'
           \/ Crash
  <1> USE DEF IInv, TypeOK
  <1>1. CASE UNCHANGED client
    BY <1>1
  <1>2. ASSUME NEW d \in Clients, Create(d)
        PROVE  \/ client'[c].at = client[c].at
               \/ Create(c) /\ client[c].at = "none" /\ client'[c].at = "reading"
    <2>1. client' = [client EXCEPT ![d] = [NewClient EXCEPT !.at = "reading"]]
          /\ client[d].at = "none"
      BY <1>2 DEF Create
    <2> QED BY <1>2, <2>1 DEF ClientOK, NewClient
  <1>3. ASSUME NEW d \in Clients, Constructed(d) \/ Initialize(d) \/ Request(d)
        PROVE  \/ client'[c].at = client[c].at
               \/ HasRead(c) /\ HasRead(c)'
    BY <1>3 DEF Constructed, Initialize, Request, ClientOK, HasRead
  <1>4. ASSUME Read
        PROVE  \/ client'[c].at = client[c].at
               \/ Read /\ CtxOp = "read" /\ CtxArg = c /\ HasRead(c)'
    BY <1>4 DEF Read, ClientOK, HasRead
  <1>5. ASSUME ResetEnds \/ Told
        PROVE  client'[c].at = client[c].at
    <2>1. CASE ResetEnds
      BY <2>1 DEF ResetEnds, ClientOK
    <2>2. CASE Told
      <3>1. ProtoArg \in Clients
        BY <2>2, CallerHasRead DEF Told
      <3> DEFINE r == [client[ProtoArg] EXCEPT !.info = Head(proto).info, !.awaiting = FALSE]
      <3>2. client' = [client EXCEPT ![ProtoArg] = r] /\ r.at = client[ProtoArg].at
        BY <2>2, <3>1 DEF Told, ClientOK
      <3> HIDE DEF r
      <3> QED BY <3>1, <3>2 DEF ClientOK
    <2> QED BY <1>5, <2>1, <2>2
  <1>6. ASSUME FixEnds
        PROVE  client'[c].at = client[c].at
    BY <1>6 DEF FixEnds, ClientOK
  <1>7. ASSUME ReadyJob
        PROVE  \/ client'[c].at = client[c].at
               \/ HasRead(c) /\ HasRead(c)'
    BY <1>7, CallerHasRead DEF ReadyJob, ClientOK, HasRead
  <1> QED
    BY NextCases, <1>1, <1>2, <1>3, <1>4, <1>5, <1>6, <1>7
    DEF Connected, Synced, SetKeychain, Required, Listen, Difference, UpdateBegins, UpdateEnds,
        ActionCompleted, ResetBegins, FixBegins, KeyMade, Boot

\* who has read, has read
LEMMA ReadIsKept ==
    ASSUME IInv, Next, ~Crash, NEW c \in Clients, HasRead(c)
    PROVE  HasRead(c)'
  <1>1. \A d \in Clients : HasRead(d)' = (client'[d].at \notin {"none", "reading"})
    BY DEF HasRead
  <1> QED BY <1>1, AtCases DEF HasRead

-----------------------------------------------------------------------------
(* Peeks, reads and calls.                                                 *)

LEMMA PeekStep ==
    ASSUME IInv, Next
    PROVE  PeekInv'
  <1> USE DEF IInv
  <1> DEFINE s == context.jobs
             t == context'.jobs
  <1>1. SUFFICES \A i \in 1..Len(t) : t[i].op = "peek" =>
                    /\ ProtoOp' = "resetting"
                    /\ \A j \in 1..Len(t) : t[j].op = "peek" => i = j
    BY DEF PeekInv
  <1>2. \A i \in 1..Len(s) : s[i].op = "peek" =>
            /\ ProtoOp = "resetting"
            /\ \A j \in 1..Len(s) : s[j].op = "peek" => i = j
    BY DEF PeekInv
  <1>3. ASSUME ProtoOp = "resetting", ~(Read /\ CtxOp = "peek"), ~Crash
        PROVE  ProtoOp' = "resetting"
    <2>1. proto # <<>> /\ Len(proto) \in Nat \ {0} /\ ProtoOp = proto[1].op
      BY <1>3, HeadOfProto DEF TypeOK
    <2>2. ~ResetBegins /\ ~Told /\ ~FixBegins /\ ~ResetEnds /\ ~ReadyJob /\ ~FixEnds
      BY <1>3 DEF ResetBegins, Told, FixBegins, ResetEnds, ReadyJob, FixEnds
    <2>3. ASSUME proto'[1] = proto[1], Len(proto') >= 1
          PROVE  ProtoOp' = "resetting"
      <3>1. proto' \in Seq(ProtoJobs(Infos'))
        BY TypeStep DEF TypeOK, ProtoOK
      <3>2. proto' # <<>> /\ Head(proto') = proto'[1]
        BY <2>3, <3>1
      <3> QED BY <1>3, <2>1, <2>3, <3>2 DEF ProtoOp
    <2>4. CASE proto' = proto
      BY <1>3, <2>4 DEF ProtoOp
    <2> QED
      BY <1>3, <2>1, <2>2, <2>3, <2>4, ProtoCases DEF Adds, OneMore, AddsTells
  <1>4. ASSUME Read, CtxOp = "peek"
        PROVE  \A i \in 1..Len(t) : t[i].op # "peek"
    <2>1. Dequeues
      BY <1>4, Dequeuing DEF Read, TypeOK
    <2>2. s[1].op = "peek" /\ 1 \in 1..Len(s)
      BY <1>4, HeadOfJobs DEF TypeOK
    <2>3. \A i \in 2..Len(s) : s[i].op # "peek"
      BY <1>2, <2>2
    <2> QED BY <2>1, <2>3 DEF Dequeues
  <1>5. ASSUME ~(Read /\ CtxOp = "peek"), ~Crash, Dequeues
        PROVE  \A i \in 1..Len(t) : t[i].op = "peek" =>
                    /\ ProtoOp' = "resetting"
                    /\ \A j \in 1..Len(t) : t[j].op = "peek" => i = j
    BY SMTT(30), <1>2, <1>3, <1>5 DEF Dequeues
  <1>6. ASSUME ~(Read /\ CtxOp = "peek"), ~Crash, NEW e, Posts(e), e.op # "peek"
        PROVE  \A i \in 1..Len(t) : t[i].op = "peek" =>
                    /\ ProtoOp' = "resetting"
                    /\ \A j \in 1..Len(t) : t[j].op = "peek" => i = j
    <2>1. \A i \in 1..Len(t) : t[i].op = "peek" => i \in 1..Len(s) /\ t[i] = s[i]
      BY <1>6 DEF Posts, OneMore
    <2> QED BY <1>2, <1>3, <1>6, <2>1
  <1>7. ASSUME ~(Read /\ CtxOp = "peek"), ~Crash, NEW d, NEW e, PostsTwo(d, e),
               d.op # "peek", e.op # "peek"
        PROVE  \A i \in 1..Len(t) : t[i].op = "peek" =>
                    /\ ProtoOp' = "resetting"
                    /\ \A j \in 1..Len(t) : t[j].op = "peek" => i = j
    <2>0. \A i \in 1..Len(t) : (i \in 1..Len(s) /\ t[i] = s[i]) \/ t[i] = d \/ t[i] = e
      BY SMTT(30), <1>7 DEF PostsTwo
    <2>1. \A i \in 1..Len(t) : t[i].op = "peek" => i \in 1..Len(s) /\ t[i] = s[i]
      BY <1>7, <2>0
    <2> QED BY <1>2, <1>3, <1>7, <2>1
  <1>8. ASSUME ResetBegins \/ Told, Posts(Job("peek", 0))
        PROVE  \A i \in 1..Len(t) : t[i].op = "peek" =>
                    /\ ProtoOp' = "resetting"
                    /\ \A j \in 1..Len(t) : t[j].op = "peek" => i = j
    <2>1. \A i \in 1..Len(s) : s[i].op # "peek"
      BY <1>2, <1>8 DEF ResetBegins, Told
    <2>2. context' # context
      BY <1>8 DEF Posts, OneMore
    <2>3. ProtoOp # "idle" /\ ProtoGoesOn("resetting")
      BY <1>8, <2>2 DEF ResetBegins, Told
    <2>4. ProtoOp' = "resetting"
      BY <2>3, GoesOnFacts, PastStep DEF TypeOK
    <2>5. \A i \in 1..Len(t) : (i \in 1..Len(s) /\ t[i] = s[i]) \/ i = Len(t)
      BY <1>8 DEF Posts, OneMore
    <2>6. \A i \in 1..Len(t) : t[i].op = "peek" => i = Len(t)
      BY <2>1, <2>5
    <2> QED BY <2>4, <2>6
  <1>9. CASE Crash
    BY <1>9 DEF Crash, NewContext
  <1>10. ASSUME ~(Read /\ CtxOp = "peek"), ~Crash, t = s
         PROVE  \A i \in 1..Len(t) : t[i].op = "peek" =>
                    /\ ProtoOp' = "resetting"
                    /\ \A j \in 1..Len(t) : t[j].op = "peek" => i = j
    BY <1>2, <1>3, <1>10
  <1>11. /\ \A op, a : Job(op, a).op = op
         /\ \A e \in Plain : e.op # "peek"
    BY DEF Job, Plain
  <1> HIDE DEF s, t
  <1> QED BY JobsCases, <1>4, <1>5, <1>6, <1>7, <1>8, <1>9, <1>10, <1>11 DEF s, t

LEMMA ReadStep ==
    ASSUME IInv, Next
    PROVE  ReadInv'
  <1> USE DEF IInv
  <1> DEFINE s == context.jobs
             t == context'.jobs
             Once(i) == /\ client'[t[i].arg].at = "reading"
                        /\ \A j \in 1..Len(t) : t[j].op = "read" /\ t[j].arg = t[i].arg => i = j
  <1>1. SUFFICES \A i \in 1..Len(t) : t[i].op = "read" => Once(i)
    BY DEF ReadInv
  <1>2. \A i \in 1..Len(s) : s[i].op = "read" =>
            /\ client[s[i].arg].at = "reading" /\ s[i].arg \in Clients
            /\ \A j \in 1..Len(s) : s[j].op = "read" /\ s[j].arg = s[i].arg => i = j
    <2>1. context.jobs \in Seq(CtxJobs(Infos))
      BY DEF TypeOK, ContextOK, Contexts
    <2>2. \A i \in 1..Len(s) : s[i] \in CtxJobs(Infos)
      BY <2>1
    <2> QED BY <2>2 DEF ReadInv, CtxJobs
  <1>3. ASSUME NEW c \in Clients, client[c].at = "reading",
               ~(Read /\ CtxOp = "read" /\ CtxArg = c), ~Crash
        PROVE  client'[c].at = "reading"
    BY <1>3, AtCases DEF HasRead
  <1>4. ASSUME \A i \in 1..Len(t) : t[i].op = "read" =>
                    /\ t[i].arg \in Clients /\ client'[t[i].arg].at = "reading",
               NEW n \in Nat,
               \A i \in 1..Len(t) : t[i].op = "read" => i + n \in 1..Len(s) /\ t[i] = s[i + n],
               Len(t) \in Nat, Len(s) \in Nat
        PROVE  \A i \in 1..Len(t) : t[i].op = "read" => Once(i)
    <2>1. ASSUME NEW i \in 1..Len(t), t[i].op = "read",
                 NEW j \in 1..Len(t), t[j].op = "read", t[j].arg = t[i].arg
          PROVE  i = j
      <3>1. i + n = j + n
        BY <1>2, <1>4, <2>1
      <3> QED BY <1>4, <3>1
    <2> QED BY <1>4, <2>1
  <1>5. Len(t) \in Nat /\ Len(s) \in Nat
    BY TypeStep DEF TypeOK, ContextOK, Contexts
  <1>6. ASSUME ~Read, ~Crash, Dequeues
        PROVE  \A i \in 1..Len(t) : t[i].op = "read" => Once(i)
    <2>1. \A i \in 1..Len(t) : t[i].op = "read" => i + 1 \in 1..Len(s) /\ t[i] = s[i + 1]
      BY <1>6 DEF Dequeues
    <2>2. \A i \in 1..Len(t) : t[i].op = "read" =>
                t[i].arg \in Clients /\ client'[t[i].arg].at = "reading"
      BY <1>2, <1>3, <1>6, <2>1
    <2> QED BY <1>4, <1>5, <2>1, <2>2
  <1>7. ASSUME Read, ~Crash
        PROVE  \A i \in 1..Len(t) : t[i].op = "read" => Once(i)
    <2>1. Dequeues
      BY <1>7, Dequeuing DEF Read, TypeOK
    <2>2. \A i \in 1..Len(t) : t[i].op = "read" => i + 1 \in 1..Len(s) /\ t[i] = s[i + 1]
      BY <2>1 DEF Dequeues
    <2>3. CtxOp = s[1].op /\ CtxArg = s[1].arg /\ 1 \in 1..Len(s)
      BY <1>7, HeadOfJobs DEF Read, TypeOK
    <2>4. ASSUME NEW i \in 1..Len(t), t[i].op = "read", CtxOp = "read"
          PROVE  t[i].arg # CtxArg
      <3>1. i + 1 # 1
        BY <2>4
      <3> QED BY <1>2, <2>2, <2>3, <2>4, <3>1
    <2>5. \A i \in 1..Len(t) : t[i].op = "read" =>
                t[i].arg \in Clients /\ client'[t[i].arg].at = "reading"
      BY <1>2, <1>3, <1>7, <2>2, <2>4
    <2> QED BY <1>4, <1>5, <2>2, <2>5
  <1>8. ASSUME ~Read, ~Crash, \A i \in 1..Len(t) : t[i].op = "read" => i \in 1..Len(s) /\ t[i] = s[i]
        PROVE  \A i \in 1..Len(t) : t[i].op = "read" => Once(i)
    <2>1. \A i \in 1..Len(t) : t[i].op = "read" => i + 0 \in 1..Len(s) /\ t[i] = s[i + 0]
      BY <1>5, <1>8
    <2>2. \A i \in 1..Len(t) : t[i].op = "read" =>
                t[i].arg \in Clients /\ client'[t[i].arg].at = "reading"
      BY <1>2, <1>3, <1>8
    <2> QED BY <1>4, <1>5, <2>1, <2>2
  <1>9. ASSUME ~Read, ~Crash, NEW e, Posts(e), e.op # "read"
        PROVE  \A i \in 1..Len(t) : t[i].op = "read" => Once(i)
    <2>1. \A i \in 1..Len(t) : t[i].op = "read" => i \in 1..Len(s) /\ t[i] = s[i]
      BY <1>9 DEF Posts, OneMore
    <2> QED BY <1>8, <1>9, <2>1
  <1>10. ASSUME ~Read, ~Crash, NEW d, NEW e, PostsTwo(d, e), d.op # "read", e.op # "read"
         PROVE  \A i \in 1..Len(t) : t[i].op = "read" => Once(i)
    <2>1. \A i \in 1..Len(t) : t[i].op = "read" => i \in 1..Len(s) /\ t[i] = s[i]
      BY <1>10 DEF PostsTwo
    <2> QED BY <1>8, <1>10, <2>1
  <1>11. ASSUME NEW c \in Clients, Create(c)
         PROVE  \A i \in 1..Len(t) : t[i].op = "read" => Once(i)
    <2>1. /\ client[c].at = "none" /\ client'[c].at = "reading"
          /\ \A d \in Clients \ {c} : client'[d] = client[d]
      BY <1>11 DEF Create, TypeOK, ClientOK, NewClient
    <2>2. Len(s) \in Nat /\ \A i \in 1..Len(s) : s[i].op = "read" => s[i].arg # c
      BY <1>2, <1>5, <2>1
    <2>3. \/ Posts(Job("read", c))
          \/ PostsTwo(Job("setKeychain", 0), Job("read", c)) /\ Len(s) = 0
      <3>1. CASE context.made
        BY <1>11, <3>1, Posting DEF Create, TypeOK
      <3>2. CASE ~context.made
        <4>1. context'.jobs = Posted(<<Job("setKeychain", 0), Job("read", c)>>).jobs
          BY <1>11, <3>2, PostedFields DEF Create, TypeOK, ContextOK, Contexts, Posted
        <4>2. Len(s) = 0
          BY <3>2 DEF FreshInv, NewContext
        <4> QED BY <4>1, <4>2, PostingTwo DEF TypeOK
      <3> QED BY <3>1, <3>2
    <2>4. Job("read", c).op = "read" /\ Job("read", c).arg = c /\ Job("setKeychain", 0).op # "read"
      BY DEF Job
    <2>5. CASE Posts(Job("read", c))
      <3>1. /\ Len(t) = Len(s) + 1 /\ t[Len(t)].op = "read" /\ t[Len(t)].arg = c
            /\ \A i \in 1..Len(s) : t[i] = s[i]
        BY <2>4, <2>5 DEF Posts, OneMore
      <3>2. ASSUME NEW i \in 1..Len(t), t[i].op = "read"
            PROVE  Once(i)
        <4>1. CASE i = Len(t)
          BY SMTT(30), <2>1, <2>2, <3>1, <4>1
        <4>2. CASE i # Len(t)
          <5>1. i \in 1..Len(s) /\ t[i] = s[i]
            BY <2>2, <3>1, <4>2
          <5>2. s[i].arg # c /\ client'[s[i].arg].at = "reading"
            BY <1>2, <2>1, <2>2, <3>2, <5>1
          <5>3. \A j \in 1..Len(t) : t[j].op = "read" /\ t[j].arg = t[i].arg => i = j
            BY <1>2, <2>2, <3>1, <3>2, <5>1, <5>2
          <5> QED BY <5>1, <5>2, <5>3
        <4> QED BY <4>1, <4>2
      <3> QED BY <3>2
    <2>6. CASE PostsTwo(Job("setKeychain", 0), Job("read", c)) /\ Len(s) = 0
      <3>1. Len(t) = 2 /\ t[1].op # "read" /\ t[2].op = "read" /\ t[2].arg = c
        BY <2>4, <2>6 DEF PostsTwo
      <3> QED BY <2>1, <3>1
    <2> QED BY <2>3, <2>5, <2>6
  <1>12. CASE Crash
    BY <1>12 DEF Crash, NewContext
  <1>13. CASE t = s /\ ~Read /\ ~Crash
    BY <1>8, <1>13
  <1>14. /\ \A op, a : Job(op, a).op = op
         /\ \A e \in Plain : e.op # "read"
    BY DEF Job, Plain
  <1> HIDE DEF s, t, Once
  <1> QED
    BY JobsCases, <1>6, <1>7, <1>9, <1>10, <1>11, <1>12, <1>13, <1>14 DEF s, t

LEMMA CallerStep ==
    ASSUME IInv, Next
    PROVE  CallerInv'
  <1> USE DEF IInv
  <1>1. CASE Crash
    BY <1>1 DEF Crash, CallerInv, NewContext
  <1> SUFFICES ASSUME ~Crash
               PROVE  CallerInv'
    BY <1>1
  <1>2. \A c \in Clients : HasRead(c) => HasRead(c)'
    BY ReadIsKept
  <1>3. \A i \in 1..Len(proto) : proto[i].arg \in Clients /\ HasRead(proto[i].arg)
    <2>1. proto \in Seq(ProtoJobs(Infos))
      BY DEF TypeOK, ProtoOK
    <2>2. \A i \in 1..Len(proto) : proto[i] \in ProtoJobs(Infos)
      BY <2>1
    <2> QED BY <2>2 DEF CallerInv, ProtoJobs
  <1>4. \A c \in context.listeners : c \in Clients /\ HasRead(c)
    BY DEF CallerInv, TypeOK, ContextOK, Contexts
  <1>5. \A i \in 1..Len(proto') : client'[proto'[i].arg].at \notin {"none", "reading"}
    <2> DEFINE In(c) == client'[c].at \notin {"none", "reading"}
    <2>1. \A c \in Clients : HasRead(c) => In(c)
      BY <1>2 DEF HasRead
    <2>2. \A op, c : Job(op, c).arg = c
      BY DEF Job
    <2>3. ASSUME NEW c \in Clients, NEW op, Adds(Job(op, c)), HasRead(c)
          PROVE  \A i \in 1..Len(proto') : In(proto'[i].arg)
      BY <1>3, <2>1, <2>2, <2>3 DEF Adds, OneMore
    <2>4. ASSUME NEW c \in Clients, Request(c) \/ Connected(c) \/ Synced(c)
          PROVE  HasRead(c)
      BY <2>4 DEF Request, Connected, Synced, HasRead
    <2>5. ASSUME NEW op, GoesOn(op)
          PROVE  \A i \in 1..Len(proto') : In(proto'[i].arg)
      BY <1>3, <2>1, <2>5 DEF GoesOn
    <2>6. CASE Drops
      BY <1>3, <2>1, <2>6 DEF Drops
    <2>7. CASE AddsTells
      BY <1>3, <1>4, <2>1, <2>7 DEF AddsTells
    <2>8. CASE proto' = proto
      BY <1>3, <2>1, <2>8
    <2> HIDE DEF In
    <2> QED BY ProtoCases, <2>3, <2>4, <2>5, <2>6, <2>7, <2>8 DEF In
  <1>6. \A i \in 1..Len(context.jobs) : context.jobs[i].op = "listen" =>
            context.jobs[i].arg \in Clients /\ HasRead(context.jobs[i].arg)
    <2>1. context.jobs \in Seq(CtxJobs(Infos))
      BY DEF TypeOK, ContextOK, Contexts
    <2>2. \A i \in 1..Len(context.jobs) : context.jobs[i] \in CtxJobs(Infos)
      BY <2>1
    <2> QED BY <2>2 DEF CallerInv, CtxJobs
  <1>7. \A c \in context'.listeners : client'[c].at \notin {"none", "reading"}
    <2>1. CASE context'.listeners = context.listeners
      BY <1>2, <1>4, <2>1 DEF HasRead
    <2>2. CASE Listen
      <3>1. context'.listeners = context.listeners \cup {CtxArg}
        BY <2>2 DEF Listen, CtxDequeued, TypeOK, ContextOK, Contexts
      <3>2. CtxArg \in Clients /\ HasRead(CtxArg)
        BY <1>6, <2>2, HeadOfJobs DEF Listen, TypeOK
      <3> QED BY <1>2, <1>4, <3>1, <3>2 DEF HasRead
    <2> QED BY JobsCases, <2>1, <2>2 DEF SameFields, Fields
  <1>8. \A i \in 1..Len(context'.jobs) : context'.jobs[i].op = "listen" =>
            client'[context'.jobs[i].arg].at \notin {"none", "reading"}
    <2> DEFINE s == context.jobs
               t == context'.jobs
               In(c) == client'[c].at \notin {"none", "reading"}
    <2>1. \A i \in 1..Len(s) : s[i].op = "listen" => In(s[i].arg)
      BY <1>2, <1>6 DEF HasRead
    <2>2. \A op, a : Job(op, a).op = op /\ Job(op, a).arg = a
      BY DEF Job
    <2>3. \A e \in Plain : e.op # "listen"
      BY DEF Plain, Job
    <2>4. ASSUME NEW e, Posts(e), e.op = "listen" => In(e.arg)
          PROVE  \A i \in 1..Len(t) : t[i].op = "listen" => In(t[i].arg)
      <3>1. \A i \in 1..Len(t) : \/ i \in 1..Len(s) /\ t[i] = s[i]
                                 \/ t[i] = e
        BY <2>4 DEF Posts, OneMore
      <3> QED BY <2>1, <2>4, <3>1
    <2>5. ASSUME NEW d, NEW e, PostsTwo(d, e), d.op # "listen", e.op # "listen"
          PROVE  \A i \in 1..Len(t) : t[i].op = "listen" => In(t[i].arg)
      <3>1. \A i \in 1..Len(t) : \/ i \in 1..Len(s) /\ t[i] = s[i]
                                 \/ t[i] = d \/ t[i] = e
        BY <2>5 DEF PostsTwo
      <3> QED BY <2>1, <2>5, <3>1
    <2>6. CASE Dequeues
      BY <2>1, <2>6 DEF Dequeues
    <2>7. CASE t = s
      BY <2>1, <2>7
    <2>8. ASSUME NEW c \in Clients, Initialize(c)
          PROVE  In(c)
      <3>1. HasRead(c)
        BY <2>8 DEF Initialize, HasRead
      <3> QED BY <1>2, <3>1 DEF HasRead
    <2> HIDE DEF s, t, In
    <2> QED BY JobsCases, <2>2, <2>3, <2>4, <2>5, <2>6, <2>7, <2>8 DEF s, t, In
  <1> QED BY <1>5, <1>7, <1>8 DEF CallerInv, HasRead

LEMMA ServeStep ==
    ASSUME IInv, Next
    PROVE  ServeInv'
  <1> USE DEF IInv
  <1>1. CASE Crash
    BY <1>1 DEF Crash, ServeInv, NewClient
  <1> SUFFICES ASSUME ~Crash
               PROVE  ServeInv'
    BY <1>1
  <1>2. \A c \in Clients : client[c].at = "serves" => client[c].info # 0
    BY DEF ServeInv
  <1>3. \A i \in 1..Len(proto) :
            proto[i].arg \in Clients
            /\ (proto[i].op \in Fixes => client[proto[i].arg].at = "serves")
    <2>1. proto \in Seq(ProtoJobs(Infos))
      BY DEF TypeOK, ProtoOK
    <2>2. \A i \in 1..Len(proto) : proto[i] \in ProtoJobs(Infos)
      BY <2>1
    <2> QED BY <2>2 DEF ServeInv, ProtoJobs
  <1>4. ASSUME NEW c \in Clients
        PROVE  /\ client[c].at = "serves" => client'[c].at = "serves"
               /\ client'[c].at = "serves" => client'[c].info # 0
    <2>1. CASE UNCHANGED client
      BY <1>2, <2>1
    <2>2. ASSUME NEW d \in Clients, Create(d) \/ Constructed(d) \/ Initialize(d) \/ Request(d)
          PROVE  /\ client[c].at = "serves" => client'[c].at = "serves"
                 /\ client'[c].at = "serves" => client'[c].info # 0
      BY <1>2, <2>2
      DEF Create, Constructed, Initialize, Request, TypeOK, ClientOK, NewClient
    <2>3. CASE Read
      <3>1. CASE CtxOp = "read" /\ client' = [client EXCEPT ![CtxArg] =
                                    [@ EXCEPT !.at = "read", !.info = context.info]]
        <4>1. client[CtxArg].at = "reading"
          BY <3>1, HeadOfJobs DEF TypeOK, ReadInv
        <4> QED BY <1>2, <3>1, <4>1 DEF TypeOK, ClientOK
      <3> QED BY <1>2, <2>3, <3>1 DEF Read
    <2>4. CASE ResetEnds
      BY <1>2, <2>4 DEF ResetEnds, TypeOK, ClientOK
    <2>5. CASE Told
      <3>1. ProtoArg \in Clients /\ Head(proto).info \in Infos
        BY <2>5, CallerHasRead, ToldInfo DEF Told, TypeOK
      <3> DEFINE r == [client[ProtoArg] EXCEPT !.info = Head(proto).info, !.awaiting = FALSE]
      <3>2. client' = [client EXCEPT ![ProtoArg] = r] /\ r.at = client[ProtoArg].at
            /\ r.info # 0
        BY <2>5, <3>1 DEF Told, TypeOK, ClientOK, Infos
      <3> HIDE DEF r
      <3> QED BY <1>2, <3>1, <3>2 DEF TypeOK, ClientOK
    <2>6. CASE ReadyJob
      <3>1. ProtoArg \in Clients
        BY <2>6, CallerHasRead DEF ReadyJob
      <3>2. CASE UNCHANGED client
        BY <1>2, <3>2
      <3>3. CASE client[ProtoArg].info # 0 /\ client' = [client EXCEPT ![ProtoArg].at = "serves"]
        BY <1>2, <3>1, <3>3 DEF TypeOK, ClientOK
      <3> QED BY <2>6, <3>2, <3>3 DEF ReadyJob
    <2>7. CASE FixEnds
      <3>1. Len(past.infos) + 1 # 0
        BY DEF TypeOK, PastOK
      <3>2. UNCHANGED client \/ client' = [client EXCEPT ![ProtoArg].info = Len(past.infos) + 1]
        BY <2>7 DEF FixEnds
      <3> QED BY <1>2, <3>1, <3>2 DEF TypeOK, ClientOK
    <2> QED
      BY NextCases, <2>1, <2>2, <2>3, <2>4, <2>5, <2>6, <2>7
      DEF Connected, Synced, SetKeychain, Required, Listen, Difference, UpdateBegins, UpdateEnds,
        ActionCompleted, ResetBegins, FixBegins, KeyMade, Boot
  <1>5. \A i \in 1..Len(proto') :
            proto'[i].op \in Fixes => client'[proto'[i].arg].at = "serves"
    <2> DEFINE In(c) == client'[c].at = "serves"
    <2>1. \A i \in 1..Len(proto) : proto[i].op \in Fixes => In(proto[i].arg)
      BY <1>3, <1>4
    <2>2. \A op, c : Job(op, c).op = op /\ Job(op, c).arg = c
      BY DEF Job
    <2>3. ASSUME NEW e, Adds(e), e.op \in Fixes => In(e.arg)
          PROVE  \A i \in 1..Len(proto') : proto'[i].op \in Fixes => In(proto'[i].arg)
      <3>1. \A i \in 1..Len(proto') : \/ i \in 1..Len(proto) /\ proto'[i] = proto[i]
                                      \/ proto'[i] = e
        BY <2>3 DEF Adds, OneMore
      <3> QED BY <2>1, <2>3, <3>1
    <2>4. ASSUME NEW c \in Clients, Synced(c)
          PROVE  In(c)
      BY <1>4, <2>4 DEF Synced
    <2>5. ASSUME NEW op, GoesOn(op), op \in Fixes => ProtoOp \in Fixes
          PROVE  \A i \in 1..Len(proto') : proto'[i].op \in Fixes => In(proto'[i].arg)
      <3>1. ProtoOp = proto[1].op
        BY <2>5, HeadOfProto DEF GoesOn, TypeOK
      <3> QED BY <2>1, <2>5, <3>1 DEF GoesOn
    <2>6. CASE Drops
      BY <2>1, <2>6 DEF Drops
    <2>7. CASE AddsTells
      BY <2>1, <2>7 DEF AddsTells, Fixes
    <2>8. CASE proto' = proto
      BY <2>1, <2>8
    <2>9. "reset" \notin Fixes /\ "ready" \notin Fixes
          /\ "resetting" \notin Fixes /\ "hasKey" \notin Fixes /\ "hasNone" \notin Fixes
      BY DEF Fixes
    <2> HIDE DEF In
    <2> QED BY ProtoCases, <2>2, <2>3, <2>4, <2>5, <2>6, <2>7, <2>8, <2>9 DEF In
  <1> QED BY <1>4, <1>5 DEF ServeInv

-----------------------------------------------------------------------------
(* Before the first client, and until the keychain is loaded.              *)

LEMMA FreshMoves ==
    ASSUME IInv, Next, ~context.made
    PROVE  (\E c \in Clients : Create(c)) \/ Crash \/ Boot
  <1>1. /\ CtxOp = "idle" /\ ProtoOp = "idle" /\ context.action = "none"
        /\ \A c \in Clients : client[c].at = "none"
    BY DEF IInv, FreshInv, NewContext, NewClient, CtxOp, ProtoOp
  <1> QED
    BY <1>1, NextCases
    DEF Constructed, Initialize, Request, Connected, Synced, SetKeychain, Read, Required,
        Listen, Difference, UpdateBegins, UpdateEnds, ActionCompleted, ResetBegins, ResetEnds,
        Told, ReadyJob, FixBegins, FixEnds, KeyMade

LEMMA FreshStep ==
    ASSUME IInv, Next
    PROVE  FreshInv'
  <1> USE DEF IInv
  <1>1. CASE Crash
    BY <1>1 DEF Crash, FreshInv, NewContext, TypeOK, PastOK
  <1>2. CASE Boot
    <2>1. /\ up' /\ ~context.made
          /\ UNCHANGED <<keychain, context, proto, client>> /\ past'.sinceLoad = past.sinceLoad
      BY <1>2 DEF Boot, FreshInv, TypeOK, PastOK
    <2> QED BY <2>1 DEF FreshInv
  <1>3. ASSUME ~Crash, ~Boot
        PROVE  up' = up
    BY <1>3, NextCases DEF Create, Constructed, Initialize, Request, Connected, Synced, KeyMade
  <1>4. ASSUME NEW c \in Clients, Create(c)
        PROVE  up /\ context'.made
    BY <1>4, PostedFields DEF Create, TypeOK, ContextOK, Contexts, Posted
  <1>5. ASSUME ~Crash, context.made
        PROVE  context'.made
    BY <1>5, JobsCases DEF SameFields, Fields
  <1> QED BY <1>1, <1>2, <1>3, <1>4, <1>5, FreshMoves DEF FreshInv

LEMMA LoadMoves ==
    ASSUME IInv, Next, context.made, ~context.loaded
    PROVE  (\E c \in Clients : Create(c)) \/ SetKeychain \/ Crash
  <1>1. /\ CtxOp = "setKeychain" /\ ProtoOp = "idle" /\ context.action = "none" /\ up
        /\ \A c \in Clients : client[c].at \in {"none", "reading"}
    <2>1. context.jobs \in Seq(CtxJobs(Infos)) /\ context.jobs # <<>>
          /\ context.jobs[1].op = "setKeychain"
      BY DEF IInv, LoadInv, TypeOK, ContextOK, Contexts
    <2>2. CtxOp = "setKeychain"
      BY <2>1, TailFacts DEF CtxOp
    <2> QED BY <2>2 DEF IInv, LoadInv, FreshInv, ProtoOp
  <1> QED
    BY <1>1, NextCases
    DEF Constructed, Initialize, Request, Connected, Synced, Read, Required,
        Listen, Difference, UpdateBegins, UpdateEnds, ActionCompleted, ResetBegins, ResetEnds,
        Told, ReadyJob, FixBegins, FixEnds, KeyMade, Boot

LEMMA LoadStep ==
    ASSUME IInv, Next
    PROVE  LoadInv'
  <1> USE DEF IInv
  <1> DEFINE s == context.jobs
             t == context'.jobs
  <1>1. CASE Crash
    BY <1>1 DEF Crash, LoadInv, NewContext
  <1> SUFFICES ASSUME ~Crash
               PROVE  LoadInv'
    BY <1>1
  <1>2. /\ \A op, a : Job(op, a).op = op
        /\ \A e \in Plain : e.op # "setKeychain"
    BY DEF Job, Plain
  <1>3. Len(s) \in Nat /\ Len(t) \in Nat /\ (t # <<>> <=> Len(t) > 0)
    <2>1. s \in Seq(CtxJobs(Infos)) /\ t \in Seq(CtxJobs(Infos'))
      BY TypeStep DEF TypeOK, ContextOK, Contexts
    <2> QED BY <2>1
  <1>4. CASE ~context.made
    <2>1. CASE Boot
      BY <1>4, <2>1 DEF Boot, FreshInv, NewContext, LoadInv
    <2>2. ASSUME NEW c \in Clients, Create(c)
          PROVE  LoadInv'
      <3>1. /\ keychain = NewKeychain /\ context = NewContext /\ proto = <<>>
            /\ client = [d \in Clients |-> NewClient]
        BY <1>4 DEF FreshInv
      <3>2. context'.jobs = Posted(<<Job("setKeychain", 0), Job("read", c)>>).jobs
            /\ ~context'.loaded /\ context'.info = 0 /\ context'.action = "none"
        <4> DEFINE p == Posted(<<Job("setKeychain", 0), Job("read", c)>>)
        <4>1. context' = [p EXCEPT !.made = TRUE]
          BY <1>4, <2>2 DEF Create
        <4>2. p = [NewContext EXCEPT !.jobs = p.jobs]
          BY <3>1, PostedFields DEF TypeOK, Posted, NewContext
        <4> HIDE DEF p
        <4>3. context'.jobs = p.jobs /\ ~context'.loaded /\ context'.info = 0
              /\ context'.action = "none"
          BY <4>1, <4>2 DEF NewContext
        <4> QED BY <4>3 DEF p
      <3>3. PostsTwo(Job("setKeychain", 0), Job("read", c)) /\ Len(s) = 0
        BY <3>1, <3>2, PostingTwo DEF TypeOK, NewContext
      <3>4. Len(t) = 2 /\ t[1].op = "setKeychain" /\ t[2].op = "read"
        BY <1>2, <3>3 DEF PostsTwo
      <3>5. \A d \in Clients : client'[d].info = 0 /\ client'[d].at \in {"none", "reading"}
        BY <2>2, <3>1 DEF Create, NewClient
      <3>6. keychain' = [NewKeychain EXCEPT !.file = Listed] /\ Listed' = Listed /\ proto' = <<>>
        BY <1>4, <2>2, <3>1 DEF Create, Listed
      <3>7. \A i \in 2..Len(t) : t[i].op = "read"
        BY <3>4
      <3>8. t # <<>>
        BY <1>3, <3>4
      <3> QED BY <3>2, <3>4, <3>5, <3>6, <3>7, <3>8 DEF LoadInv
    <2> QED BY <1>4, <2>1, <2>2, FreshMoves
  <1>5. CASE context.made /\ ~context.loaded
    <2>0. /\ keychain = [NewKeychain EXCEPT !.file = Listed]
          /\ proto = <<>> /\ context.info = 0 /\ context.action = "none"
          /\ \A c \in Clients : client[c].info = 0 /\ client[c].at \in {"none", "reading"}
          /\ Len(s) > 0 /\ s[1].op = "setKeychain"
          /\ \A i \in 2..Len(s) : s[i].op = "read"
      <3>1. s \in Seq(CtxJobs(Infos)) /\ s # <<>>
        BY <1>5 DEF LoadInv, TypeOK, ContextOK, Contexts
      <3>2. Len(s) > 0
        BY <3>1
      <3> QED BY <1>5, <3>2 DEF LoadInv
    <2>1. ASSUME NEW c \in Clients, Create(c)
          PROVE  LoadInv'
      <3>1. Posts(Job("read", c))
        BY <1>5, <2>1, Posting DEF Create, TypeOK
      <3>2. /\ ~context'.loaded /\ context'.info = 0 /\ context'.action = "none"
        <4>1. context' = Posted(<<Job("read", c)>>)
          BY <1>5, <2>1 DEF Create
        <4>2. /\ context'.loaded = context.loaded /\ context'.info = context.info
              /\ context'.action = context.action
          BY <4>1, PostedFields DEF TypeOK
        <4> QED BY <1>5, <2>0, <4>2
      <3>5. UNCHANGED <<keychain, disk, proto>> /\ Listed' = Listed
        BY <1>5, <2>1 DEF Create, Listed
      <3>3. \A d \in Clients : client'[d].info = 0 /\ client'[d].at \in {"none", "reading"}
        BY <2>0, <2>1 DEF Create, NewClient, TypeOK, ClientOK
      <3>4. Len(t) > 0 /\ t[1].op = "setKeychain" /\ \A i \in 2..Len(t) : t[i].op = "read"
        <4>1. \A i \in 1..Len(t) : (i \in 1..Len(s) /\ t[i] = s[i]) \/ i = Len(t)
          BY <3>1 DEF Posts, OneMore
        <4>2. t[Len(t)].op = "read" /\ Len(t) = Len(s) + 1
          BY <1>2, <3>1 DEF Posts, OneMore
        <4>3. Len(t) > 1 /\ t[1] = s[1]
          BY <1>3, <2>0, <4>1, <4>2
        <4>4. ASSUME NEW i \in 2..Len(t)
              PROVE  t[i].op = "read"
          BY <1>3, <2>0, <4>1, <4>2, <4>4
        <4> QED BY <2>0, <4>3, <4>4
      <3> QED BY <1>3, <2>0, <3>2, <3>3, <3>4, <3>5 DEF LoadInv
    <2>2. CASE SetKeychain
      <3>1. Dequeues /\ context'.loaded /\ context'.made
        BY <1>5, <2>2, Dequeuing DEF SetKeychain, TypeOK, ContextOK, Contexts, CtxDequeued
      <3>2. \A i \in 1..Len(t) : t[i].op = "read"
        BY <2>0, <3>1 DEF Dequeues
      <3> QED BY <3>1, <3>2 DEF LoadInv
    <2> QED BY <1>5, <2>1, <2>2, LoadMoves
  <1>6. CASE context.made /\ context.loaded
    <2>1. context'.made /\ context'.loaded
      BY <1>6, JobsCases DEF SameFields, Fields
    <2>2. \A i \in 1..Len(s) : s[i].op # "setKeychain"
      BY <1>6 DEF LoadInv
    <2>3. ASSUME NEW e, Posts(e), e.op # "setKeychain"
          PROVE  \A i \in 1..Len(t) : t[i].op # "setKeychain"
      <3>1. \A i \in 1..Len(t) : (i \in 1..Len(s) /\ t[i] = s[i]) \/ t[i] = e
        BY <2>3 DEF Posts, OneMore
      <3> QED BY <2>2, <2>3, <3>1
    <2>4. ASSUME NEW d, NEW e, PostsTwo(d, e), d.op # "setKeychain", e.op # "setKeychain"
          PROVE  \A i \in 1..Len(t) : t[i].op # "setKeychain"
      <3>1. \A i \in 1..Len(t) : (i \in 1..Len(s) /\ t[i] = s[i]) \/ t[i] = d \/ t[i] = e
        BY <2>4 DEF PostsTwo
      <3> QED BY <2>2, <2>4, <3>1
    <2>5. ASSUME Dequeues \/ t = s
          PROVE  \A i \in 1..Len(t) : t[i].op # "setKeychain"
      BY <2>2, <2>5 DEF Dequeues
    <2>7. \A i \in 1..Len(t) : t[i].op # "setKeychain"
      <3> HIDE DEF s, t
      <3> QED BY <1>2, <1>6, <2>3, <2>4, <2>5, JobsCases DEF s, t
    <2> QED BY <2>1, <2>7 DEF LoadInv
  <1> QED BY <1>4, <1>5, <1>6

-----------------------------------------------------------------------------
(* A store in its job, and what the disk holds.                            *)

LEMMA HolderStep ==
    ASSUME IInv, Next
    PROVE  HolderInv'
  <1> USE DEF IInv
  <1> SUFFICES ASSUME keychain'.holder = "persistent"
               PROVE  CtxOp' = "update" /\ context'.info = CtxArg'
    BY DEF HolderInv
  <1>1. CASE UpdateBegins
    <2>1. context' = [context EXCEPT !.info = CtxArg] /\ CtxOp = "update"
      BY <1>1 DEF UpdateBegins
    <2>2. context'.jobs = context.jobs /\ context'.info = CtxArg
      BY <2>1 DEF TypeOK, ContextOK, Contexts
    <2> QED BY <2>1, <2>2 DEF CtxOp, CtxArg
  <1>2. ASSUME keychain.holder = "persistent", ~UpdateBegins, ~UpdateEnds, ~Crash
        PROVE  CtxOp' = "update" /\ context'.info = CtxArg'
    <2>1. CtxOp = "update" /\ context.info = CtxArg
      BY <1>2 DEF HolderInv
    <2>2. /\ context.jobs # <<>> /\ Len(context.jobs) \in Nat \ {0}
          /\ CtxOp = context.jobs[1].op /\ CtxArg = context.jobs[1].arg
      BY <2>1, HeadOfJobs DEF TypeOK
    <2>3. context'.info = context.info /\ context'.jobs[1] = context.jobs[1] /\ Len(context'.jobs) >= 1
      <3>1. ~Read /\ ~SetKeychain /\ ~Required /\ ~Listen /\ ~Difference /\ ~ActionCompleted
        BY <2>1 DEF Read, SetKeychain, Required, Listen, Difference, ActionCompleted
      <3> QED
        BY <1>2, <2>2, <3>1, JobsCases DEF Posts, PostsTwo, OneMore, SameFields, Fields
    <2>4. context'.jobs \in Seq(CtxJobs(Infos'))
      BY TypeStep DEF TypeOK, ContextOK, Contexts
    <2>5. context'.jobs # <<>> /\ Head(context'.jobs) = context'.jobs[1]
      BY <2>3, <2>4
    <2> QED BY <2>1, <2>2, <2>3, <2>5 DEF CtxOp, CtxArg
  <1>3. ASSUME UpdateEnds \/ FixEnds
        PROVE  FALSE
    <2>1. ASSUME NEW g \in Groups, StoreEnds(g)
          PROVE  FALSE
      BY <2>1, StoreEndsFacts
    <2> QED BY <1>3, <2>1 DEF UpdateEnds, FixEnds, Groups
  <1>4. CASE Crash
    BY <1>4 DEF Crash, NewKeychain
  <1>5. ~UpdateBegins => keychain.holder = "persistent"
    <2>1. CASE FilesAlike
      BY <2>1 DEF FilesAlike
    <2>2. CASE FirstCreate
      BY <2>2 DEF FirstCreate, TypeOK, KeychainOK
    <2>3. CASE SetKeychain
      BY <2>3, LoadFacts
    <2>4. CASE FixStores
      <3>1. past.fixes \in Nat /\ "temp" \in Groups
        BY DEF TypeOK, PastOK, Groups
      <3> QED BY <2>4, <3>1, StoreBeginsFacts DEF FixStores
    <2>5. CASE Crash
      <3>1. keychain'.holder = "none"
        BY <2>5 DEF Crash, NewKeychain
      <3> QED BY <3>1
    <2> QED BY <1>3, <2>1, <2>2, <2>3, <2>4, <2>5, KeychainCases DEF TypeOK
  <1> QED BY <1>1, <1>2, <1>3, <1>4, <1>5

LEMMA DiskStep ==
    ASSUME IInv, Next
    PROVE  DiskInv'
  <1> USE DEF IInv
  <1> DEFINE d == disk["persistent"]
             e == disk'["persistent"]
  <1>1. "persistent" \in Groups /\ "temp" \in Groups
    BY DEF Groups
  <1>2. past.stored => d.state # "absent"
    BY DEF DiskInv
  <1>3. (context.loaded /\ context.info = 0) => d.state # "whole"
    BY DEF DiskInv
  <1>4. Torn.state = "torn" /\ \A v : Whole(v).state = "whole"
    BY DEF Torn, Whole
  <1>5. past'.stored => e.state # "absent"
    <2>1. CASE FilesAlike
      BY <1>2, <2>1 DEF FilesAlike
    <2>2. CASE FirstCreate
      BY <1>2, <2>2 DEF FirstCreate
    <2>3. CASE SetKeychain
      BY <1>2, <2>3 DEF SetKeychain
    <2>4. ASSUME NEW g \in Groups, NEW v \in Nat, StoreBegins(g, v), past' = past
          PROVE  past'.stored => e.state # "absent"
      BY <1>1, <1>2, <1>4, <2>4, StoreBeginsFacts DEF TypeOK, DiskOK
    <2>5. CASE UpdateBegins
      BY <1>1, <2>4, <2>5, UpdateArg DEF UpdateBegins, TypeOK, Infos
    <2>6. CASE FixStores
      BY <1>1, <2>4, <2>6 DEF FixStores, TypeOK, PastOK
    <2>7. CASE UpdateEnds
      <3>1. past'.stored = Ended("persistent", past).stored
        BY <1>1, <2>7, EndedFields DEF UpdateEnds, TypeOK
      <3>2. past'.stored = (past.stored \/ keychain.file["persistent"] = "writing")
        BY <1>1, <3>1, EndedFields DEF TypeOK
      <3>3. disk' = IF keychain.file["persistent"] = "writing"
                    THEN [disk EXCEPT !["persistent"] = Whole(keychain.dict["persistent"][1])]
                    ELSE disk
        BY <1>1, <2>7, StoreEndsFacts DEF UpdateEnds
      <3>4. keychain.file["persistent"] = "writing" => e.state = "whole"
        BY <1>1, <1>4, <3>3 DEF TypeOK, DiskOK
      <3>5. keychain.file["persistent"] # "writing" => e = d
        BY <3>3
      <3>6. past'.stored => past.stored \/ keychain.file["persistent"] = "writing"
        BY <3>2
      <3> QED BY <1>2, <3>4, <3>5, <3>6
    <2>8. CASE FixEnds
      <3>1. past'.stored = Ended("temp", past).stored
        BY <1>1, <2>8, EndedFields DEF FixEnds, TypeOK
      <3>2. past'.stored = past.stored
        BY <1>1, <3>1, EndedFields DEF TypeOK, PastOK
      <3>3. e = d
        BY <1>1, <2>8, StoreEndsFacts DEF FixEnds, TypeOK, DiskOK
      <3> QED BY <1>2, <3>2, <3>3
    <2>9. CASE Crash
      BY <1>2, <2>9 DEF Crash, TypeOK, PastOK
    <2> QED
      BY KeychainCases, <2>1, <2>2, <2>3, <2>5, <2>6, <2>7, <2>8, <2>9 DEF TypeOK
  <1>6. ASSUME context'.loaded, context'.info = 0
        PROVE  e.state # "whole"
    <2>1. ~Crash
      BY <1>6 DEF Crash, NewContext
    <2>2. CASE SetKeychain
      <3>1. context.made /\ ~context.loaded
        <4>1. 1 \in 1..Len(context.jobs) /\ context.jobs[1].op = "setKeychain"
          BY <2>2, HeadOfJobs DEF SetKeychain, TypeOK
        <4>2. ~context.loaded
          BY <4>1 DEF LoadInv
        <4>3. context.made
          BY <2>2 DEF FreshInv, NewContext, SetKeychain, CtxOp
        <4> QED BY <4>2, <4>3
      <3>2. keychain = [NewKeychain EXCEPT !.file = Listed]
        BY <3>1 DEF LoadInv
      <3>3. /\ keychain.dict["persistent"] = <<>>
            /\ keychain.file["persistent"] =
                    IF d.state = "absent" THEN "none" ELSE "closed"
        BY <1>1, <3>2 DEF NewKeychain, Listed
      <3>4. d.state = "whole" => DictLoaded("persistent") = <<d.value>> /\ d.value # 0
        BY <3>3 DEF DictLoaded, MustLoad, TypeOK, DiskOK, Contents, NoFile, Torn, Infos
      <3>5. \A v : <<v>> # <<>> /\ <<v>>[1] = v
        OBVIOUS
      <3>6. d.state # "whole"
        BY <1>6, <2>2, <3>4, <3>5, LoadFacts DEF Stored
      <3> QED BY <2>2, <3>6 DEF SetKeychain
    <2>3. ASSUME ~SetKeychain
          PROVE  context.loaded /\ context.info = 0 /\ ~UpdateBegins
      <3>1. ASSUME UpdateBegins
            PROVE  FALSE
        <4>1. CtxArg \in Infos /\ context' = [context EXCEPT !.info = CtxArg]
          BY <3>1, UpdateArg DEF UpdateBegins, TypeOK
        <4>2. context'.info = CtxArg
          BY <4>1 DEF TypeOK, ContextOK, Contexts
        <4> QED BY <1>6, <4>1, <4>2 DEF Infos
      <3> QED BY <1>6, <2>1, <2>3, <3>1, JobsCases DEF SameFields, Fields
    <2>4. ASSUME ~SetKeychain
          PROVE  e = d
      <3>1. CASE FilesAlike
        BY <3>1 DEF FilesAlike
      <3>2. CASE FirstCreate
        BY <3>2 DEF FirstCreate
      <3>3. CASE FixStores
        <4>1. past.fixes \in Nat
          BY DEF TypeOK, PastOK
        <4> QED BY <1>1, <3>3, <4>1, StoreBeginsFacts DEF FixStores, TypeOK, DiskOK
      <3>4. CASE FixEnds
        BY <1>1, <3>4, StoreEndsFacts DEF FixEnds, TypeOK, DiskOK
      <3>5. CASE UpdateEnds
        <4>1. keychain.holder = "persistent" /\ CtxOp = "update"
          BY <3>5 DEF UpdateEnds, StoreEnds
        <4>2. context.info \in Infos
          BY <4>1, UpdateArg DEF HolderInv, TypeOK
        <4> QED BY <2>3, <2>4, <4>2 DEF Infos
      <3> QED BY <2>1, <2>3, <2>4, <3>1, <3>2, <3>3, <3>4, <3>5, KeychainCases DEF TypeOK
    <2> QED BY <1>3, <2>2, <2>3, <2>4
  <1> QED BY <1>5, <1>6 DEF DiskInv

-----------------------------------------------------------------------------
(* Keys.                                                                   *)

\* the load of the keychain comes before there are keys
LEMMA LoadsFirst ==
    ASSUME IInv, SetKeychain
    PROVE  /\ context.made /\ ~context.loaded /\ context.info = 0 /\ context.action = "none"
           /\ \A i \in 1..Len(context.jobs) : context.jobs[i].op \in {"setKeychain", "read"}
           /\ \A m : ~InUse(m)
  <1> USE DEF IInv
  <1>1. Len(context.jobs) \in Nat \ {0} /\ context.jobs[1].op = "setKeychain"
        /\ context.jobs # <<>>
    BY HeadOfJobs DEF SetKeychain, TypeOK
  <1>2. ~context.loaded
    BY <1>1 DEF LoadInv
  <1>3. context.made
    BY <1>1 DEF FreshInv, NewContext
  <1>4. /\ context.info = 0 /\ context.action = "none" /\ proto = <<>>
        /\ \A c \in Clients : client[c].info = 0
        /\ \A i \in 2..Len(context.jobs) : context.jobs[i].op = "read"
    BY <1>2, <1>3 DEF LoadInv
  <1>5. \A i \in 1..Len(context.jobs) : context.jobs[i].op \in {"setKeychain", "read"}
    BY <1>1, <1>4
  <1>6. \A m : ~InUse(m)
    BY <1>4, <1>5 DEF InUse, Infos
  <1> QED BY <1>2, <1>3, <1>4, <1>5, <1>6

\* the info of the update that is executed
LEMMA UpdateInUse ==
    ASSUME IInv, CtxOp = "update"
    PROVE  CtxArg \in Infos /\ InUse(CtxArg)
  <1>1. 1 \in 1..Len(context.jobs) /\ context.jobs[1].op = "update" /\ context.jobs[1].arg = CtxArg
    BY HeadOfJobs DEF IInv, TypeOK
  <1> QED BY <1>1, UpdateArg DEF InUse, IInv, TypeOK

LEMMA ToldInUse ==
    ASSUME IInv, ProtoOp = "told"
    PROVE  Head(proto).info \in Infos /\ InUse(Head(proto).info)
  <1>1. 1 \in 1..Len(proto) /\ proto[1].op = "told" /\ Head(proto) = proto[1]
    BY HeadOfProto DEF IInv, TypeOK
  <1> QED BY <1>1, ToldInfo DEF InUse, IInv, TypeOK

\* where an info in use came from
LEMMA UseCases ==
    ASSUME IInv, Next, NEW m \in Infos', InUse(m)'
    PROVE  \/ InUse(m)
           \/ SetKeychain /\ m = context'.info
           \/ (FixTells \/ KeyMade) /\ m = Len(past.infos) + 1
  <1> USE DEF IInv
  <1> DEFINE Came == \/ InUse(m)
                     \/ SetKeychain /\ m = context'.info
                     \/ (FixTells \/ KeyMade) /\ m = Len(past.infos) + 1
             s == context.jobs
             t == context'.jobs
  <1>1. ~Crash /\ m # 0
    <2>1. m # 0
      BY DEF Infos
    <2>2. ASSUME Crash
          PROVE  FALSE
      <3>1. context'.info = 0 /\ context'.jobs = <<>> /\ proto' = <<>>
            /\ \A c \in Clients : client'[c].info = 0
        BY <2>2 DEF Crash, NewContext, NewClient
      <3> QED BY <2>1, <3>1 DEF InUse
    <2> QED BY <2>1, <2>2
  <1>2. ASSUME context'.info = m
        PROVE  Came
    <2>1. CASE context'.info = context.info
      BY <1>1, <1>2, <2>1 DEF InUse, TypeOK, ContextOK, Contexts
    <2>2. CASE UpdateBegins /\ context'.info = CtxArg
      BY <1>2, <2>2, UpdateInUse DEF UpdateBegins
    <2>3. CASE SetKeychain
      BY <1>2, <2>3
    <2> HIDE DEF Came
    <2> QED BY <1>1, <2>1, <2>2, <2>3, JobsCases DEF SameFields, Fields
  <1>3. ASSUME NEW i \in 1..Len(t), t[i].op = "update", t[i].arg = m
        PROVE  Came
    <2>1. \A j \in 1..Len(s) : s[j].op = "update" /\ s[j].arg = m => InUse(m)
      <3>1. \A j \in 1..Len(s) : s[j] \in CtxJobs(Infos)
        <4>1. context.jobs \in Seq(CtxJobs(Infos))
          BY DEF TypeOK, ContextOK, Contexts
        <4> QED BY <4>1
      <3>2. \A j \in 1..Len(s) : s[j].op = "update" => s[j].arg \in Infos
        BY <3>1 DEF CtxJobs
      <3> QED BY <3>2 DEF InUse
    <2>2. \A op, a : Job(op, a).op = op /\ Job(op, a).arg = a
      BY DEF Job
    <2>3. \A e \in Plain : e.op # "update"
      BY DEF Plain, Job
    <2>4. ASSUME NEW e, Posts(e), e.op # "update"
          PROVE  Came
      <3>1. (i \in 1..Len(s) /\ t[i] = s[i]) \/ t[i] = e
        BY <2>4 DEF Posts, OneMore
      <3> QED BY <1>3, <2>1, <2>4, <3>1
    <2>5. ASSUME NEW n, Posts(Job("update", n))
          PROVE  InUse(m) \/ m = n
      <3>1. (i \in 1..Len(s) /\ t[i] = s[i]) \/ t[i] = Job("update", n)
        BY <2>5 DEF Posts, OneMore
      <3> QED BY <1>3, <2>1, <2>2, <3>1
    <2>6. ASSUME NEW d, NEW e, PostsTwo(d, e)
          PROVE  InUse(m) \/ t[i] = d \/ t[i] = e
      <3>1. (i \in 1..Len(s) /\ t[i] = s[i]) \/ t[i] = d \/ t[i] = e
        BY SMTT(30), <2>6 DEF PostsTwo
      <3> QED BY <1>3, <2>1, <3>1
    <2>7. CASE Dequeues \/ t = s
      <3>1. \E j \in 1..Len(s) : t[i] = s[j]
        BY <2>7 DEF Dequeues
      <3> QED BY <1>3, <2>1, <3>1
    <2> HIDE DEF s, t
    <2> QED
      BY <1>1, <1>3, <2>2, <2>3, <2>4, <2>5, <2>6, <2>7, JobsCases DEF s, t
  <1>4. ASSUME NEW c \in Clients, client'[c].info = m
        PROVE  Came
    <2>1. CASE client'[c].info = client[c].info
      BY <1>1, <1>4, <2>1 DEF InUse, TypeOK, ClientOK
    <2>2. ASSUME NEW d \in Clients, Create(d) \/ Constructed(d) \/ Initialize(d) \/ Request(d)
          PROVE  client'[c].info = client[c].info \/ client'[c].info = 0
      <3>1. CASE Create(d)
        <4>1. client' = [client EXCEPT ![d] = [NewClient EXCEPT !.at = "reading"]]
              /\ [NewClient EXCEPT !.at = "reading"].info = 0
          BY <3>1 DEF Create, NewClient
        <4> QED BY <4>1 DEF TypeOK, ClientOK
      <3>2. CASE \E at \in Places : client' = [client EXCEPT ![d].at = at]
        BY <3>2 DEF TypeOK, ClientOK
      <3> QED BY <2>2, <3>1, <3>2 DEF Constructed, Initialize, Request, Places
    <2>3. CASE Read
      <3>1. client'[c].info = client[c].info \/ client'[c].info = context.info
        BY <2>3 DEF Read, TypeOK, ClientOK
      <3> QED BY <1>1, <1>4, <2>1, <3>1 DEF InUse, TypeOK, ContextOK, Contexts
    <2>4. CASE ResetEnds \/ ReadyJob
      <3>1. ProtoArg \in Clients
        BY <2>4, CallerHasRead DEF ResetEnds, ReadyJob
      <3>2. client'[c].info = client[c].info
        BY <2>4, <3>1 DEF ResetEnds, ReadyJob, TypeOK, ClientOK
      <3> QED BY <2>1, <3>2
    <2>5. CASE Told
      <3>1. ProtoArg \in Clients
        BY <2>5, CallerHasRead DEF Told
      <3> DEFINE r == [client[ProtoArg] EXCEPT !.info = Head(proto).info, !.awaiting = FALSE]
      <3>2. client' = [client EXCEPT ![ProtoArg] = r] /\ r.info = Head(proto).info
        BY <2>5, <3>1 DEF Told, TypeOK, ClientOK
      <3> HIDE DEF r
      <3>3. client'[c].info = client[c].info \/ client'[c].info = Head(proto).info
        BY <3>1, <3>2 DEF TypeOK, ClientOK
      <3> QED BY <1>4, <2>1, <2>5, <3>3, ToldInUse DEF Told
    <2>6. CASE FixEnds
      <3>0. UNCHANGED client \/ FixTells
        BY <2>6 DEF FixEnds, FixTells
      <3>1. FixTells => client' = [client EXCEPT ![ProtoArg].info = Len(past.infos) + 1]
        BY DEF FixTells
      <3>2. \/ client'[c].info = client[c].info
            \/ FixTells /\ client'[c].info = Len(past.infos) + 1
        BY <3>0, <3>1 DEF TypeOK, ClientOK
      <3> QED BY <1>4, <2>1, <3>2
    <2>7. CASE UNCHANGED client
      BY <2>1, <2>7
    <2> HIDE DEF Came
    <2> QED
      BY NextCases, <1>1, <1>4, <2>1, <2>2, <2>3, <2>4, <2>5, <2>6, <2>7
      DEF Connected, Synced, SetKeychain, Required, Listen, Difference, UpdateBegins, UpdateEnds,
        ActionCompleted, ResetBegins, FixBegins, KeyMade, Boot
  <1>5. ASSUME NEW i \in 1..Len(proto'), proto'[i].op = "told", proto'[i].info = m
        PROVE  Came
    <2>1. \A j \in 1..Len(proto) : proto[j].op = "told" /\ proto[j].info = m => InUse(m)
      <3>1. \A j \in 1..Len(proto) : proto[j] \in ProtoJobs(Infos)
        <4>1. proto \in Seq(ProtoJobs(Infos))
          BY DEF TypeOK, ProtoOK
        <4> QED BY <4>1
      <3>2. \A j \in 1..Len(proto) : proto[j].op = "told" => proto[j].info \in Infos
        BY <3>1 DEF ProtoJobs
      <3> QED BY <3>2 DEF InUse
    <2>2. \A op, a : Job(op, a).op = op
      BY DEF Job
    <2>3. ASSUME NEW e, Adds(e), e.op # "told"
          PROVE  Came
      <3>1. (i \in 1..Len(proto) /\ proto'[i] = proto[i]) \/ proto'[i] = e
        BY <2>3 DEF Adds, OneMore
      <3> QED BY <1>5, <2>1, <2>3, <3>1
    <2>4. ASSUME NEW op, GoesOn(op), op # "told"
          PROVE  Came
      <3>1. i \in 1..Len(proto) /\ proto'[i] = proto[i]
        BY <1>5, <2>4 DEF GoesOn
      <3> QED BY <1>5, <2>1, <3>1
    <2>5. CASE Drops \/ proto' = proto
      <3>1. \E j \in 1..Len(proto) : proto'[i] = proto[j]
        BY <2>5 DEF Drops
      <3> QED BY <1>5, <2>1, <3>1
    <2>6. CASE UpdateEnds /\ AddsTells
      <3>1. (i \in 1..Len(proto) /\ proto'[i] = proto[i]) \/ proto'[i].info = CtxArg
        BY <2>6 DEF AddsTells
      <3> QED BY <1>5, <2>1, <2>6, <3>1, UpdateInUse DEF UpdateEnds
    <2> HIDE DEF Came
    <2> QED BY <1>1, <2>2, <2>3, <2>4, <2>5, <2>6, ProtoCases
  <1>6. \/ context'.info = m
        \/ \E i \in 1..Len(t) : t[i].op = "update" /\ t[i].arg = m
        \/ \E c \in Clients : client'[c].info = m
        \/ \E i \in 1..Len(proto') : proto'[i].op = "told" /\ proto'[i].info = m
    BY DEF InUse
  <1> QED BY <1>2, <1>3, <1>4, <1>5, <1>6

LEMMA KeyStep ==
    ASSUME IInv, Next
    PROVE  KeyInv'
  <1> USE DEF IInv
  <1> DEFINE s == context.jobs
             t == context'.jobs
             new == Len(past.infos) + 1
  <1>1. PastOK' /\ InfosGrow /\ new \notin Infos
    BY PastStep DEF TypeOK, PastOK, Infos
  <1>2. \A m \in Infos : InUse(m) => \A n \in Infos : InUse(n) => KeyOf(m) = KeyOf(n)
    BY DEF KeyInv
  <1>3. context.action = "running" => \A m \in Infos : ~InUse(m)
    BY DEF KeyInv
  <1>4. \A m \in Infos : context.info = 0 /\ InUse(m) => context.action = "made"
    BY DEF KeyInv
  <1>5. \A m : InUse(m) => m \in Infos
    BY DEF InUse
  <1>6. ASSUME KeyMade
        PROVE  context.action = "running" /\ context'.action = "made" /\ ~FixTells /\ ~SetKeychain
    <2>1. context.action = "running" /\ proto' = proto /\ keychain' = keychain /\ client' = client
      BY <1>6 DEF KeyMade
    <2>2. context'.action = "made"
      <3>1. context' = [Posted(<<Job("update", Len(past'.infos)), Job("completed", 0)>>) EXCEPT
                            !.action = "made"]
        BY <1>6 DEF KeyMade
      <3> QED BY <3>1 DEF Posted, TypeOK, ContextOK, Contexts
    <2>3. ~FixTells
      <3>1. FixEnds => keychain.holder = "temp" /\ keychain'.holder = "none"
        BY StoreEndsFacts DEF FixEnds, TypeOK, Groups
      <3> QED BY <2>1, <3>1 DEF FixTells
    <2>4. ~SetKeychain
      BY <2>1, LoadsFirst
    <2> QED BY <2>1, <2>2, <2>3, <2>4
  <1>7. ASSUME FixTells
        PROVE  /\ client[ProtoArg].info \in Infos /\ InUse(client[ProtoArg].info)
               /\ past'.infos[new] = KeyOf(client[ProtoArg].info)
    <2>1. /\ ProtoArg \in Clients /\ client[ProtoArg].info \in Infos
          /\ KeyOf(client[ProtoArg].info) \in Nat
      BY <1>7, FixedKey DEF FixTells, FixEnds, TypeOK
    <2>2. past'.infos = Append(past.infos, KeyOf(client[ProtoArg].info))
      BY <1>7, EndedFields DEF FixTells, TypeOK, Groups
    <2>3. past'.infos[new] = KeyOf(client[ProtoArg].info)
      BY <2>1, <2>2, OneInfo DEF TypeOK
    <2> QED BY <2>1, <2>3 DEF InUse
  <1>8. \A m \in Infos' : InUse(m)' =>
            \/ InUse(m)
            \/ SetKeychain /\ m = context'.info /\ \A n : ~InUse(n)
            \/ FixTells /\ m = new
            \/ KeyMade /\ m = new /\ \A n : ~InUse(n)
    BY UseCases, LoadsFirst, <1>3, <1>5, <1>6
  <1>9. \A m, n \in Infos' : InUse(m)' /\ InUse(n)' => past'.infos[m] = past'.infos[n]
    <2> SUFFICES ASSUME NEW m \in Infos', NEW n \in Infos', InUse(m)', InUse(n)'
                 PROVE  past'.infos[m] = past'.infos[n]
      OBVIOUS
    <2>1. \A k \in Infos : past'.infos[k] = KeyOf(k)
      BY <1>1 DEF InfosGrow, KeyOf
    <2>2. CASE InUse(m) /\ InUse(n)
      BY <1>2, <1>5, <2>1, <2>2
    <2>3. CASE FixTells
      BY <1>2, <1>5, <1>6, <1>7, <1>8, <2>1, <2>3
    <2>4. CASE ~FixTells /\ \A k : ~InUse(k)
      BY <1>6, <1>8, <2>4
    <2> QED BY <1>8, <2>2, <2>3, <2>4
  <1>10. ASSUME context'.action = "running", NEW m \in Infos', InUse(m)'
         PROVE  FALSE
    <2>1. CASE InUse(m)
      <3>1. context.action # "running"
        BY <1>3, <1>5, <2>1
      <3>2. Required /\ context.action = "none" /\ context.info = 0
        <4>1. context'.action # context.action
          BY <1>10, <3>1
        <4>2. Required \/ KeyMade \/ ActionCompleted \/ Crash
          BY <4>1, JobsCases DEF SameFields, Fields
        <4>3. ~KeyMade
          BY <1>6, <1>10
        <4>4. ~ActionCompleted /\ ~Crash
          <5>1. ActionCompleted => context'.action = "none"
            BY DEF ActionCompleted, CtxDequeued, TypeOK, ContextOK, Contexts
          <5>2. Crash => context'.action = "none"
            BY DEF Crash, NewContext
          <5> QED BY <1>10, <5>1, <5>2
        <4>5. Required
          BY <4>2, <4>3, <4>4
        <4> QED
          BY <1>10, <3>1, <4>5
          DEF Required, NeedsExchange, CtxDequeued, TypeOK, ContextOK, Contexts
      <3> QED BY <1>4, <1>5, <2>1, <3>2
    <2>2. CASE SetKeychain
      <3>1. context'.action = context.action
        BY <2>2 DEF SetKeychain, CtxDequeued, TypeOK, ContextOK, Contexts
      <3> QED BY <1>10, <2>2, <3>1, LoadsFirst
    <2>3. CASE FixTells
      <3>1. context'.action = context.action
        BY <2>3, PostedFields DEF FixTells, TypeOK
      <3> QED BY <1>3, <1>7, <1>10, <2>3, <3>1
    <2>4. ~KeyMade
      BY <1>6, <1>10
    <2> QED BY <1>8, <1>10, <2>1, <2>2, <2>3, <2>4
  <1>11. ASSUME context'.info = 0, NEW m \in Infos', InUse(m)'
         PROVE  context'.action = "made"
    <2>1. m # 0
      BY DEF Infos
    <2>2. ~SetKeychain
      BY <1>5, <1>6, <1>7, <1>8, <1>11, <2>1, LoadsFirst
    <2>3. ~Crash
      <3>1. Crash => context'.jobs = <<>> /\ proto' = <<>> /\ \A c \in Clients : client'[c].info = 0
        BY DEF Crash, NewContext, NewClient
      <3> QED BY <1>11, <2>1, <3>1 DEF InUse
    <2>4. context.info = 0
      <3>1. UpdateBegins => CtxArg # 0
        BY UpdateArg DEF UpdateBegins, TypeOK, Infos
      <3> QED BY <1>11, <2>2, <2>3, <3>1, JobsCases DEF SameFields, Fields
    <2>5. CASE KeyMade
      BY <1>6, <2>5
    <2>6. CASE ~KeyMade
      <3>1. \E n \in Infos : InUse(n)
        BY <1>5, <1>7, <1>8, <1>11, <2>2, <2>6
      <3>2. context.action = "made"
        BY <1>4, <2>4, <3>1
      <3>3. ~ActionCompleted
        <4>1. ASSUME CtxOp = "completed"
              PROVE  FALSE
          <5>1. 1 \in 1..Len(s) /\ s[1].op = "completed"
            BY <4>1, HeadOfJobs DEF TypeOK
          <5> QED BY <2>4, <5>1 DEF KeyInv
        <4> QED BY <4>1 DEF ActionCompleted
      <3>4. Required => context'.action = context.action
        BY <3>2 DEF Required, CtxDequeued, TypeOK, ContextOK, Contexts
      <3> QED BY <2>2, <2>3, <2>6, <3>2, <3>3, <3>4, JobsCases DEF SameFields, Fields
    <2> QED BY <2>5, <2>6
  <1>12. ASSUME NEW i \in 1..Len(t), t[i].op = "completed"
         PROVE  \/ context'.info # 0
                \/ \E j \in 1..(i - 1) : t[j].op = "update"
    <2> DEFINE Before == \/ context'.info # 0
                         \/ \E j \in 1..(i - 1) : t[j].op = "update"
    <2>1. \A k \in 1..Len(s) : s[k].op = "completed" =>
            context.info # 0 \/ \E j \in 1..(k - 1) : s[j].op = "update"
      BY DEF KeyInv
    <2>2. /\ \A op, a : Job(op, a).op = op
          /\ \A e \in Plain : e.op # "completed"
      BY DEF Job, Plain
    <2>3. ~Crash
      BY <1>12 DEF Crash, NewContext
    <2>4. ASSUME SetKeychain
          PROVE  Before
      <3>1. Dequeues
        BY <2>4, Dequeuing DEF SetKeychain, CtxDequeued, TypeOK, ContextOK, Contexts
      <3>2. \E k \in 1..Len(s) : t[i] = s[k]
        BY <3>1 DEF Dequeues
      <3> QED BY <1>12, <2>4, <3>2, LoadsFirst
    <2>5. ASSUME ~SetKeychain, context.info # 0
          PROVE  context'.info # 0
      <3>1. UpdateBegins => CtxArg # 0
        BY UpdateArg DEF UpdateBegins, TypeOK, Infos
      <3> QED BY <2>3, <2>5, <3>1, JobsCases DEF SameFields, Fields
    <2>6. ASSUME ~SetKeychain, i \in 1..Len(s), \A j \in 1..i : t[j] = s[j]
          PROVE  Before
      BY <1>12, <2>1, <2>5, <2>6
    <2>7. ASSUME ~SetKeychain, NEW e, Posts(e), e.op # "completed"
          PROVE  Before
      <3>1. i \in 1..Len(s) /\ \A j \in 1..i : t[j] = s[j]
        BY <1>12, <2>7 DEF Posts, OneMore
      <3> QED BY <2>6, <2>7, <3>1
    <2>8. ASSUME ~SetKeychain, NEW d, NEW e, PostsTwo(d, e), d.op = "update"
          PROVE  Before
      <3>1. CASE i \in 1..Len(s)
        <4>1. \A j \in 1..i : t[j] = s[j]
          BY <2>8, <3>1 DEF PostsTwo
        <4> QED BY <2>6, <2>8, <3>1, <4>1
      <3>2. CASE i = Len(s) + 1
        BY <1>12, <2>8, <3>2 DEF PostsTwo
      <3>3. CASE i = Len(s) + 2
        BY <2>8, <3>3 DEF PostsTwo
      <3> QED BY <2>8, <3>1, <3>2, <3>3 DEF PostsTwo
    <2>9. ASSUME ~SetKeychain, NEW d, NEW e, PostsTwo(d, e), d.op = "setKeychain", e.op = "read"
          PROVE  Before
      <3>1. i \in 1..Len(s) \/ t[i] = d \/ t[i] = e
        BY <2>9 DEF PostsTwo
      <3>2. i \in 1..Len(s)
        BY <1>12, <2>9, <3>1
      <3>3. \A j \in 1..i : t[j] = s[j]
        BY <2>9, <3>2 DEF PostsTwo
      <3> QED BY <2>6, <2>9, <3>2, <3>3
    <2>10. ASSUME ~SetKeychain, Dequeues, CtxOp # "idle", CtxOp = "update" => context'.info # 0
           PROVE  Before
      <3>1. /\ i + 1 \in 1..Len(s) /\ t[i] = s[i + 1]
            /\ \A j \in 2..i : j - 1 \in 1..(i - 1) /\ t[j - 1] = s[j]
        BY <2>10 DEF Dequeues
      <3>2. context.info # 0 \/ \E j \in 1..i : s[j].op = "update"
        BY <1>12, <2>1, <3>1
      <3>3. CtxOp = s[1].op
        BY <2>10, HeadOfJobs DEF TypeOK
      <3>4. CASE context.info # 0
        BY <2>5, <2>10, <3>4
      <3>5. CASE \E j \in 1..i : s[j].op = "update"
        <4>1. PICK j \in 1..i : s[j].op = "update"
          BY <3>5
        <4>2. CASE j = 1
          BY <2>10, <3>3, <4>1, <4>2
        <4>3. CASE j # 1
          <5>1. j \in 2..i
            BY <4>1, <4>3
          <5>2. j - 1 \in 1..(i - 1) /\ t[j - 1].op = "update"
            BY <3>1, <4>1, <5>1
          <5> QED BY <5>2
        <4> QED BY <4>2, <4>3
      <3> QED BY <3>2, <3>4, <3>5
    <2>11. ASSUME Dequeues, CtxOp = "update", UpdateEnds
           PROVE  context'.info # 0
      <3>1. context.info = CtxArg /\ CtxArg \in Infos
        BY <2>11, UpdateArg DEF UpdateEnds, StoreEnds, HolderInv, TypeOK
      <3>2. context'.info = context.info
        BY <2>11, DequeuedFields DEF UpdateEnds, TypeOK
      <3> QED BY <3>1, <3>2 DEF Infos
    <2>12. CtxOp = "update" => ~Read /\ ~Required /\ ~Listen /\ ~Difference /\ ~ActionCompleted
      BY DEF Read, Required, Listen, Difference, ActionCompleted
    <2>13. ASSUME ~SetKeychain, t = s
           PROVE  Before
      BY <2>6, <2>13
    <2> HIDE DEF s, t, Before
    <2>14. Before
      BY <2>2, <2>3, <2>4, <2>7, <2>8, <2>9, <2>10, <2>11, <2>12, <2>13, JobsCases DEF s, t
    <2> QED BY <2>14 DEF Before
  <1> QED BY <1>9, <1>10, <1>11, <1>12 DEF KeyInv, KeyOf

-----------------------------------------------------------------------------
(* What is stored is on the disk.                                          *)

LEMMA StoredStep ==
    ASSUME IInv, StoredIsOnDisk, Next
    PROVE  StoredIsOnDisk'
  <1> USE DEF IInv
  <1> DEFINE On(g) == \/ disk'[g] = Whole(keychain'.dict[g][1])
                      \/ g \in past'.dropped /\ folder' = "shared" /\ past'.sinceLoad[g] = 1
  <1> SUFFICES ASSUME NEW g \in Groups, keychain'.holder # g, past'.sinceLoad[g] > 0
               PROVE  On(g)
    BY DEF StoredIsOnDisk
  <1>1. "persistent" \in Groups /\ "temp" \in Groups /\ folder' = folder /\ past.sinceLoad[g] \in Nat
    BY KeychainCases DEF TypeOK, PastOK, Groups
  <1>2. (keychain.holder # g /\ past.sinceLoad[g] > 0) =>
            \/ disk[g] = Whole(keychain.dict[g][1])
            \/ g \in past.dropped /\ folder = "shared" /\ past.sinceLoad[g] = 1
    BY DEF StoredIsOnDisk
  <1>3. (keychain.holder # g /\ past.sinceLoad[g] > 0) =>
            keychain.file[g] = "closed" /\ keychain.dict[g] # <<>>
    BY DEF FileInv
  <1>4. CASE FilesAlike
    BY <1>1, <1>2, <1>4 DEF FilesAlike
  <1>5. CASE FirstCreate
    BY <1>5 DEF FirstCreate, FreshInv
  <1>6. CASE SetKeychain
    <2>1. past' = past /\ disk' = disk
      BY <1>6 DEF SetKeychain
    <2>2. keychain.holder # g /\ keychain'.dict[g] = DictLoaded(g)
      BY <1>6, LoadFacts DEF Groups
    <2>3. DictLoaded(g) = keychain.dict[g]
      BY <1>3, <2>1, <2>2 DEF DictLoaded, MustLoad
    <2> QED BY <1>1, <1>2, <2>1, <2>2, <2>3
  <1>7. ASSUME NEW h \in Groups, NEW v \in Nat, StoreBegins(h, v), past' = past
        PROVE  On(g)
    <2>1. /\ keychain.holder = "none" /\ keychain'.holder = h
          /\ \A k \in Groups \ {h} : keychain'.dict[k] = keychain.dict[k]
          /\ disk' = disk \/ disk' = [disk EXCEPT ![h] = Torn]
      BY <1>7, StoreBeginsFacts
    <2>2. g # h /\ keychain.holder # g
      BY <2>1 DEF Groups
    <2>3. disk'[g] = disk[g] /\ keychain'.dict[g] = keychain.dict[g]
      BY <2>1, <2>2 DEF TypeOK, DiskOK
    <2> QED BY <1>1, <1>2, <1>7, <2>2, <2>3
  <1>8. ASSUME NEW h \in Groups, StoreEnds(h),
               past'.dropped = Ended(h, past).dropped, past'.sinceLoad = Ended(h, past).sinceLoad
        PROVE  On(g)
    <2>1. /\ keychain.holder = h /\ keychain'.dict = keychain.dict
          /\ disk' = IF keychain.file[h] = "writing"
                     THEN [disk EXCEPT ![h] = Whole(keychain.dict[h][1])] ELSE disk
      BY <1>8, StoreEndsFacts
    <2>2. /\ past'.dropped = IF keychain.file[h] = "writing" THEN past.dropped \ {h}
                             ELSE past.dropped \cup {h}
          /\ past'.sinceLoad = [past.sinceLoad EXCEPT ![h] = 1 + @]
      BY <1>8, EndedFields DEF TypeOK
    <2>3. CASE g = h /\ keychain.file[h] = "writing"
      BY <2>1, <2>3 DEF TypeOK, DiskOK
    <2>4. CASE g = h /\ keychain.file[h] # "writing"
      <3>1. folder = "shared" /\ past.sinceLoad[h] = 0
        BY <2>1, <2>4 DEF FileInv
      <3>2. past'.sinceLoad[g] = 1 /\ g \in past'.dropped
        BY <2>2, <2>4, <3>1 DEF TypeOK, PastOK
      <3> QED BY <1>1, <3>1, <3>2
    <2>5. CASE g # h
      <3>1. keychain.holder # g /\ disk'[g] = disk[g] /\ keychain'.dict[g] = keychain.dict[g]
        BY <2>1, <2>5 DEF TypeOK, DiskOK
      <3>2. past'.sinceLoad[g] = past.sinceLoad[g] /\ (g \in past'.dropped <=> g \in past.dropped)
        BY <2>2, <2>5 DEF TypeOK, PastOK
      <3> QED BY <1>1, <1>2, <3>1, <3>2
    <2> QED BY <2>3, <2>4, <2>5
  <1>9. CASE UpdateBegins
    <2>1. StoreBegins("persistent", CtxArg) /\ past' = past /\ CtxArg \in Infos
      BY <1>9, UpdateArg DEF UpdateBegins, TypeOK
    <2>2. CtxArg \in Nat
      BY <2>1 DEF Infos
    <2> QED BY <1>1, <1>7, <2>1, <2>2
  <1>10. CASE FixStores
    BY <1>1, <1>7, <1>10 DEF FixStores, TypeOK, PastOK
  <1>11. CASE UpdateEnds
    <2>1. /\ past'.dropped = Ended("persistent", past).dropped
          /\ past'.sinceLoad = Ended("persistent", past).sinceLoad
      BY <1>1, <1>11, EndedFields DEF UpdateEnds, TypeOK
    <2> QED BY <1>1, <1>8, <1>11, <2>1 DEF UpdateEnds
  <1>12. CASE FixEnds
    <2>1. /\ past'.dropped = Ended("temp", past).dropped
          /\ past'.sinceLoad = Ended("temp", past).sinceLoad
      BY <1>1, <1>12, EndedFields DEF FixEnds, TypeOK
    <2> QED BY <1>1, <1>8, <1>12, <2>1 DEF FixEnds
  <1>13. CASE Crash
    <2>1. past'.sinceLoad = [h \in Groups |-> 0]
      BY <1>13 DEF Crash, TypeOK, PastOK
    <2> QED BY <2>1
  <1> QED
    BY KeychainCases, <1>4, <1>5, <1>6, <1>9, <1>10, <1>11, <1>12, <1>13 DEF TypeOK

-----------------------------------------------------------------------------
(* The theorems.                                                           *)

LEMMA Starts ==
    ASSUME Init
    PROVE  IInv /\ StoredIsOnDisk
  <1> USE DEF Init
  <1>1. PastOK
    BY DEF PastOK, Groups
  <1>2. Infos = {}
    BY DEF Infos
  <1>3. TypeOK
    BY <1>1, <1>2
    DEF TypeOK, DiskOK, KeychainOK, ContextOK, Contexts, ProtoOK, ClientOK, Contents, Files,
        Places, Groups, NewKeychain, NewContext, NewClient
  <1>4. FreshInv
    BY DEF FreshInv, NewContext, NewKeychain, NewClient
  <1>5. LoadInv
    BY DEF LoadInv, NewContext
  <1>6. FileInv
    BY DEF FileInv, NewKeychain, Groups
  <1>7. HolderInv /\ DiskInv
    BY DEF HolderInv, DiskInv, NewKeychain, NewContext
  <1>8. PeekInv /\ ReadInv
    BY DEF PeekInv, ReadInv, NewContext
  <1>9. CallerInv /\ ServeInv
    BY DEF CallerInv, ServeInv, NewContext, NewClient
  <1>10. KeyInv
    BY <1>2 DEF KeyInv, NewContext
  <1>11. StoredIsOnDisk
    BY DEF StoredIsOnDisk
  <1> QED BY <1>3, <1>4, <1>5, <1>6, <1>7, <1>8, <1>9, <1>10, <1>11 DEF IInv

LEMMA Inductive ==
    ASSUME IInv, StoredIsOnDisk, [Next]_vars
    PROVE  IInv' /\ StoredIsOnDisk'
  <1>1. CASE Next
    BY <1>1, TypeStep, FreshStep, LoadStep, FileStep, HolderStep, DiskStep, PeekStep, ReadStep,
       CallerStep, ServeStep, KeyStep, StoredStep DEF IInv
  <1>2. CASE UNCHANGED vars
    <2>1. UNCHANGED <<up, folder, disk, keychain, context, proto, client, past>>
      BY <1>2 DEF vars
    <2>2. TypeOK'
      BY <2>1 DEF IInv, TypeOK, PastOK, DiskOK, KeychainOK, ContextOK, ProtoOK, ClientOK, Infos
    <2>3. FreshInv' /\ LoadInv' /\ FileInv' /\ HolderInv' /\ DiskInv'
      BY <2>1 DEF IInv, FreshInv, LoadInv, Listed, FileInv, HolderInv, DiskInv, CtxOp, CtxArg
    <2>4. PeekInv' /\ ReadInv' /\ CallerInv' /\ ServeInv'
      BY <2>1 DEF IInv, PeekInv, ProtoOp, ReadInv, CallerInv, HasRead, ServeInv
    <2>5. KeyInv'
      BY <2>1 DEF IInv, KeyInv, InUse, Infos, KeyOf
    <2>6. StoredIsOnDisk'
      BY <2>1 DEF StoredIsOnDisk
    <2> QED BY <2>2, <2>3, <2>4, <2>5, <2>6 DEF IInv
  <1> QED BY <1>1, <1>2

\* All parts of the invariant hold, whatever the clients, processes and fixes.
THEOREM IInvHolds == Spec => []IInv
  <1>1. Init => IInv /\ StoredIsOnDisk
    BY Starts
  <1>2. IInv /\ StoredIsOnDisk /\ [Next]_vars => IInv' /\ StoredIsOnDisk'
    BY Inductive
  <1> QED BY <1>1, <1>2, PTL DEF Spec

\* What the program stored last is on the disk, the first store of a process in
\* a shared folder excepted (SecureKeychain::storeKeychain).
THEOREM StoreReachesDisk == Spec => []StoredIsOnDisk
  <1>1. Init => IInv /\ StoredIsOnDisk
    BY Starts
  <1>2. IInv /\ StoredIsOnDisk /\ [Next]_vars => IInv' /\ StoredIsOnDisk'
    BY Inductive
  <1> QED BY <1>1, <1>2, PTL DEF Spec

\* A key that was stored is lost to the next process only by a crash while it
\* was being stored again (SecureKeychain::loadKeychainIfNeeded).
THEOREM OnlyCrashLosesKey == Spec => []KeySurvivesRestart
  <1>1. IInv => KeySurvivesRestart
    <2> SUFFICES ASSUME IInv, past.stored, context.loaded, context.info = 0
                 PROVE  disk["persistent"] = Torn
      BY DEF KeySurvivesRestart
    <2>1. disk["persistent"].state \notin {"absent", "whole"}
      BY DEF IInv, DiskInv
    <2>2. disk["persistent"] \in Contents(Infos)
      BY DEF IInv, TypeOK, DiskOK
    <2> QED BY <2>1, <2>2 DEF Contents, NoFile
  <1> QED BY <1>1, IInvHolds, PTL

\* While a process runs, the key it has is not replaced by another
\* (Context::authInfoForDatacenterWithIdRequired, DatacenterAuthAction::execute).
THEOREM KeyStays == Spec => KeyIsNotReplaced
  <1>1. IInv /\ [Next]_vars =>
            [(up' /\ context.info # 0) => past'.infos[context'.info] = KeyOf(context.info)]_vars
    <2> SUFFICES ASSUME IInv, Next, up', context.info # 0
                 PROVE  past'.infos[context'.info] = KeyOf(context.info)
      OBVIOUS
    <2> USE DEF IInv
    <2>1. context.info \in Infos /\ InUse(context.info)
      BY DEF TypeOK, ContextOK, Contexts, InUse
    <2>2. \A m \in Infos : past'.infos[m] = KeyOf(m)
      BY PastStep DEF InfosGrow, KeyOf
    <2>3. ~Crash
      BY DEF Crash
    <2>4. CASE UpdateBegins /\ context'.info = CtxArg
      <3>1. CtxArg \in Infos /\ InUse(CtxArg)
        BY <2>4, UpdateInUse DEF UpdateBegins
      <3> QED BY <2>1, <2>2, <2>4, <3>1 DEF KeyInv
    <2>5. ~SetKeychain
      BY LoadsFirst
    <2>6. CASE context'.info = context.info
      BY <2>1, <2>2, <2>6
    <2> QED BY <2>3, <2>4, <2>5, <2>6, JobsCases DEF SameFields, Fields
  <1> QED BY <1>1, IInvHolds, PTL DEF Spec, KeyIsNotReplaced

=============================================================================
