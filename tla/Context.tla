-------------------------------- MODULE Context --------------------------------
(***************************************************************************)
(* Context and its SecureKeychain: how the authorization key of the        *)
(* datacenter comes to the clients of a folder, and to the next process.   *)
(*                                                                         *)
(* Clients of one folder share a Context.  They are made on the threads of *)
(* the application, Context::queue() and Proto::queue() are serial queues  *)
(* (DispatchQueue) whose jobs are taken from the head of a sequence, and   *)
(* the last two share the keychain under its mutex.  The exchange that     *)
(* makes a key is DatacenterAuth's; of a Proto's transport only that it    *)
(* exists and asks for messages is left (ProtoSystem has the rest).        *)
(*                                                                         *)
(* Key infos are numbered as they are made, 0 is none; so are the time     *)
(* differences.  The key of an info is what KeyOf says, the rest is salts. *)
(***************************************************************************)
EXTENDS Naturals, Sequences, SequencesExt

CONSTANTS
    Clients,
    MaxRuns,   \* bound: processes, one after the other
    MaxFixes   \* bound: time differences learned from the server

ASSUME ContextAssumption ==
    IsFiniteSet(Clients) /\ MaxRuns \in Nat \ {0} /\ MaxFixes \in Nat

VARIABLES
    up,        \* the process runs
    folder,    \* "shared": its group may write to it
    disk,      \* the file of each group, as the next process will find it
    keychain,  \* SecureKeychain: its file list, dictByGroup and mutex
    context,   \* Context: its fields and the jobs of its queue
    proto,     \* the jobs of Proto::queue()
    client,    \* ClientSync and its Proto
    past       \* history: infos and differences drawn, who missed what, ...

vars == <<up, folder, disk, keychain, context, proto, client, past>>

Groups == {"persistent", "temp"}
KeyOf(info) == past.infos[info]

NoFile == [state |-> "absent", value |-> 0]
Torn == [state |-> "torn", value |-> 0]
Whole(value) == [state |-> "whole", value |-> value]

\* nothing read yet, no file known, the mutex free
NewKeychain == [file |-> [g \in Groups |-> "none"], dict |-> [g \in Groups |-> <<>>],
                holder |-> "none"]
NewContext == [made |-> FALSE, loaded |-> FALSE, info |-> 0, difference |-> 0,
               action |-> "none", listeners |-> {}, jobs |-> <<>>]
NewClient == [at |-> "none", info |-> 0, awaiting |-> FALSE, transport |-> FALSE]

Init ==
    /\ up = TRUE
    /\ folder \in {"private", "shared"}
    /\ disk = [g \in Groups |-> NoFile]
    /\ keychain = NewKeychain /\ context = NewContext
    /\ proto = <<>>
    /\ client = [c \in Clients |-> NewClient]
    /\ past = [infos |-> <<>>, fixes |-> 0, runs |-> 1, missed |-> {},
               stored |-> FALSE, dropped |-> {}, sinceLoad |-> [g \in Groups |-> 0]]

Posted(jobs) == [context EXCEPT !.jobs = @ \o jobs]
CtxOp == IF context.jobs = <<>> THEN "idle" ELSE Head(context.jobs).op
CtxArg == Head(context.jobs).arg
CtxDequeued == [context EXCEPT !.jobs = Tail(@)]
ProtoOp == IF proto = <<>> THEN "idle" ELSE Head(proto).op
ProtoArg == Head(proto).arg
Job(op, arg) == [op |-> op, arg |-> arg]

\* the job at the head of Proto's queue goes on to its next step
ProtoGoesOn(op) == proto' = <<[Head(proto) EXCEPT !.op = op]>> \o Tail(proto)

-----------------------------------------------------------------------------
(* SecureKeychain, over NativeFileSystem and NativeFile.                   *)

\* (slip: the folder is not listed)
ListedNever == [g \in Groups |-> "none"]

\* Initialize: the files found in the folder
Listed == [g \in Groups |-> IF disk[g].state = "absent" THEN "none" ELSE "closed"]

\* loadKeychainIfNeeded: a file that is read stays open; one that is torn
\* leaves nothing, or an empty object, which its callers cannot tell apart
MustLoad(g) == keychain.dict[g] = <<>> /\ keychain.file[g] # "none"
FileLoaded(g) == IF MustLoad(g) THEN "reading" ELSE keychain.file[g]
DictLoaded(g) == IF MustLoad(g) /\ disk[g].state = "whole" THEN <<disk[g].value>>
                 ELSE keychain.dict[g]

\* getObject, 0 for null
Stored(g) == IF DictLoaded(g) = <<>> THEN 0 ELSE DictLoaded(g)[1]

\* (slip: the entry is erased when the file was removed, which it never is)
RemovedProperly(file) == file

\* RemoveFile names a file that does not exist: remove() fails, and that is
\* when the entry is erased.  In a shared folder IsReadOnly() says it is.
Removed(file) == IF folder = "shared" THEN file ELSE "none"

\* OpenFile(write) truncates, but a stream that is open cannot be opened
Opened(file) == IF file = "reading" THEN "broken" ELSE "writing"

\* setObject up to the write, with the mutex taken
StoreBegins(g, value) ==
    /\ keychain.holder = "none"
    /\ LET file == Opened(Removed(FileLoaded(g)))
       IN /\ keychain' = [keychain EXCEPT !.holder = g, !.file[g] = file, !.dict[g] = <<value>>]
          /\ disk' = IF file = "writing" THEN [disk EXCEPT ![g] = Torn] ELSE disk

\* Write and Close: what was buffered is in the file
StoreEnds(g) ==
    /\ keychain.holder = g
    /\ keychain' = [keychain EXCEPT !.holder = "none", !.file[g] = "closed"]
    /\ disk' = IF keychain.file[g] = "writing"
               THEN [disk EXCEPT ![g] = Whole(keychain.dict[g][1])] ELSE disk

\* the history of a store that has ended
Ended(g, p) ==
    [p EXCEPT !.stored = @ \/ (g = "persistent" /\ keychain.file[g] = "writing"),
              !.dropped = IF keychain.file[g] = "writing" THEN @ \ {g} ELSE @ \cup {g},
              !.sinceLoad[g] = 1 + @]

-----------------------------------------------------------------------------
(* The application's threads: gp_client_create.                            *)

\* obtainContext, and the constructor of Proto waits for what is known
Create(c) ==
    /\ up /\ client[c].at = "none"
    /\ client' = [client EXCEPT ![c] = [NewClient EXCEPT !.at = "reading"]]
    /\ IF context.made
       THEN /\ context' = Posted(<<Job("read", c)>>)
            /\ UNCHANGED keychain
       ELSE /\ context' = [Posted(<<Job("setKeychain", 0), Job("read", c)>>) EXCEPT !.made = TRUE]
            /\ keychain' = [keychain EXCEPT !.file = Listed]
    /\ UNCHANGED <<up, folder, disk, proto, past>>

\* the rest of the constructor: the key is asked for, known or not
Constructed(c) ==
    /\ up /\ client[c].at = "read"
    /\ client' = [client EXCEPT ![c].at = "constructed"]
    /\ context' = Posted(<<Job("required", 0)>>)
    /\ UNCHANGED <<up, folder, disk, keychain, proto, past>>

Initialize(c) ==
    /\ up /\ client[c].at = "constructed"
    /\ client' = [client EXCEPT ![c].at = "made"]
    /\ context' = Posted(<<Job("listen", c)>>)
    /\ UNCHANGED <<up, folder, disk, keychain, proto, past>>

HasJob(c, ops) == \E i \in DOMAIN proto : proto[i].op \in ops /\ proto[i].arg = c

\* a request of the user comes round to the transport
Request(c) ==
    /\ up /\ client[c].at \in {"made", "asked"} /\ ~client[c].transport
    /\ ~HasJob(c, {"reset", "resetting", "hasKey", "hasNone"})
    /\ client' = [client EXCEPT ![c].at = "asked"]
    /\ proto' = Append(proto, Job("reset", c))
    /\ UNCHANGED <<up, folder, disk, keychain, context, past>>

-----------------------------------------------------------------------------
(* Context::queue().                                                       *)

SetKeychain ==
    /\ CtxOp = "setKeychain" /\ keychain.holder = "none"
    /\ keychain' = [keychain EXCEPT !.file = [g \in Groups |-> FileLoaded(g)],
                                    !.dict = [g \in Groups |-> DictLoaded(g)]]
    /\ context' = [CtxDequeued EXCEPT !.loaded = TRUE, !.difference = Stored("temp"),
                                      !.info = Stored("persistent")]
    /\ UNCHANGED <<disk, proto, client, past>>

\* getAuthKeyInfoForDatacenterId, for the constructor and for resetTransport
Read ==
    /\ \/ /\ CtxOp = "read"
          /\ client' = [client EXCEPT ![CtxArg] = [@ EXCEPT !.at = "read", !.info = context.info]]
          /\ UNCHANGED proto
       \/ /\ CtxOp = "peek"
          /\ ProtoGoesOn(IF context.info = 0 THEN "hasNone" ELSE "hasKey")
          /\ UNCHANGED client
    /\ context' = CtxDequeued
    /\ UNCHANGED <<disk, keychain, past>>

\* execute: with a key there is nothing to do, the action completes at once
NeedsExchange == context.info = 0

\* (slip: one exchange for each time it is asked)
RequiredAlways ==
    /\ CtxOp = "required"
    /\ context' = IF NeedsExchange
                  THEN [CtxDequeued EXCEPT !.action = "running"] ELSE CtxDequeued
    /\ UNCHANGED <<disk, keychain, proto, client, past>>

\* one action at a time; one that completes at once is erased at once
Required ==
    /\ CtxOp = "required"
    /\ context' = IF context.action = "none" /\ NeedsExchange
                  THEN [CtxDequeued EXCEPT !.action = "running"] ELSE CtxDequeued
    /\ UNCHANGED <<disk, keychain, proto, client, past>>

Listen ==
    /\ CtxOp = "listen"
    /\ context' = [CtxDequeued EXCEPT !.listeners = @ \cup {CtxArg}]
    /\ UNCHANGED <<disk, keychain, proto, client, past>>

Difference ==
    /\ CtxOp = "difference"
    /\ context' = [CtxDequeued EXCEPT !.difference = CtxArg]
    /\ UNCHANGED <<disk, keychain, proto, client, past>>

\* updateAuthKeyInfoForDatacenterId: the info is set and stored ...
UpdateBegins ==
    /\ CtxOp = "update"
    /\ StoreBegins("persistent", CtxArg)
    /\ context' = [context EXCEPT !.info = CtxArg]
    /\ UNCHANGED <<proto, client, past>>

\* ... then the listeners are told
UpdateEnds ==
    /\ CtxOp = "update"
    /\ StoreEnds("persistent")
    /\ context' = CtxDequeued
    /\ proto' = proto \o [i \in DOMAIN SetToSeq(context.listeners) |->
                    [op |-> "told", arg |-> SetToSeq(context.listeners)[i], info |-> CtxArg]]
    /\ past' = [Ended("persistent", past) EXCEPT !.missed = @ \cup
                    {c \in Clients \ context.listeners :
                        client[c].at \notin {"none", "reading"} /\ client[c].info = 0}]
    /\ UNCHANGED client

ActionCompleted ==
    /\ CtxOp = "completed"
    /\ context' = [CtxDequeued EXCEPT !.action = "none"]
    /\ UNCHANGED <<disk, keychain, proto, client, past>>

ContextStep ==
    /\ up
    /\ SetKeychain \/ Read \/ Required \/ Listen \/ Difference
       \/ UpdateBegins \/ UpdateEnds \/ ActionCompleted
    /\ UNCHANGED <<up, folder>>

-----------------------------------------------------------------------------
(* Proto::queue().                                                         *)

\* resetTransport waits for Context's answer in the middle of the job
ResetBegins ==
    /\ ProtoOp = "reset"
    /\ IF client[ProtoArg].transport
       THEN proto' = Tail(proto) /\ UNCHANGED context
       ELSE /\ ProtoGoesOn("resetting")
            /\ context' = Posted(<<Job("peek", 0)>>)
    /\ UNCHANGED <<disk, keychain, client, past>>

ResetEnds ==
    /\ \/ /\ ProtoOp = "hasKey"
          /\ client' = [client EXCEPT ![ProtoArg].transport = TRUE]
          /\ UNCHANGED context
       \/ /\ ProtoOp = "hasNone"
          /\ client' = [client EXCEPT ![ProtoArg].awaiting = TRUE]
          /\ context' = IF client[ProtoArg].awaiting THEN context
                        ELSE Posted(<<Job("required", 0)>>)
    /\ proto' = Tail(proto)
    /\ UNCHANGED <<disk, keychain, past>>

\* (slip: the transport is not made when the key comes)
ToldOnly ==
    /\ ProtoOp = "told"
    /\ client' = [client EXCEPT ![ProtoArg].info = Head(proto).info]
    /\ proto' = Tail(proto)
    /\ UNCHANGED <<disk, keychain, context, past>>

\* contextDatacenterAuthInfoUpdated
Told ==
    /\ ProtoOp = "told"
    /\ client' = [client EXCEPT ![ProtoArg] =
                    [@ EXCEPT !.info = Head(proto).info, !.awaiting = FALSE]]
    /\ IF client[ProtoArg].awaiting
       THEN /\ ProtoGoesOn("resetting")
            /\ context' = Posted(<<Job("peek", 0)>>)
       ELSE proto' = Tail(proto) /\ UNCHANGED context
    /\ UNCHANGED <<disk, keychain, past>>

\* transportReadyForTransaction uses authInfo whether there is one or not
\* (without, the process dies: Crash has what becomes of it)
UsesKey(c) == client[c].transport /\ ~client[c].awaiting
ReadyJob ==
    /\ ProtoOp = "ready"
    /\ UsesKey(ProtoArg) => client[ProtoArg].info # 0
    /\ proto' = Tail(proto)
    /\ client' = IF UsesKey(ProtoArg) THEN [client EXCEPT ![ProtoArg].at = "serves"] ELSE client
    /\ UNCHANGED <<disk, keychain, context, past>>

\* timeSyncInfoChanged: the difference is posted to Context's queue and
\* stored from this one ...
FixBegins ==
    /\ \/ /\ ProtoOp = "fix"
          /\ past' = [past EXCEPT !.fixes = 1 + @]
          /\ context' = Posted(<<Job("difference", past'.fixes)>>)
          /\ ProtoGoesOn("fixed")
          /\ UNCHANGED <<disk, keychain>>
       \/ /\ ProtoOp = "fixed"
          /\ StoreBegins("temp", past.fixes)
          /\ ProtoGoesOn("fixing")
          /\ UNCHANGED <<context, past>>
    /\ UNCHANGED client

\* ... and the salts that came with it, if any, make an info of the same key
FixEnds ==
    /\ ProtoOp = "fixing"
    /\ StoreEnds("temp")
    /\ proto' = Tail(proto)
    /\ \/ /\ past' = Ended("temp", past)
          /\ UNCHANGED <<context, client>>
       \/ LET info == Len(past.infos) + 1
          IN /\ past' = [Ended("temp", past) EXCEPT !.infos =
                            Append(@, KeyOf(client[ProtoArg].info))]
             /\ context' = Posted(<<Job("update", info)>>)
             /\ client' = [client EXCEPT ![ProtoArg].info = info]

ProtoStep ==
    /\ up
    /\ ResetBegins \/ ResetEnds \/ Told \/ ReadyJob \/ FixBegins \/ FixEnds
    /\ UNCHANGED <<up, folder>>

BetweenJobs == ProtoOp \in {"idle", "reset", "told", "ready", "fix"}

\* DatacenterAuthAction: the exchange ends with a key no other exchange made
KeyMade ==
    /\ up /\ BetweenJobs /\ context.action = "running"
    /\ past' = [past EXCEPT !.infos = Append(@, Len(@) + 1)]
    /\ context' = [Posted(<<Job("update", Len(past'.infos)), Job("completed", 0)>>) EXCEPT
                        !.action = "made"]
    /\ UNCHANGED <<up, folder, disk, keychain, proto, client>>

\* a connection of c opens, and it is asked for what there is to send
Connected(c) ==
    /\ up /\ client[c].at = "asked" /\ client[c].transport /\ ~HasJob(c, {"ready"})
    /\ proto' = Append(proto, Job("ready", c))
    /\ UNCHANGED <<up, folder, disk, keychain, context, client, past>>

\* the server tells c the time
Synced(c) ==
    /\ up /\ client[c].at = "serves" /\ ~HasJob(c, {"fix", "fixed", "fixing"})
    /\ past.fixes < MaxFixes
    /\ proto' = Append(proto, Job("fix", c))
    /\ UNCHANGED <<up, folder, disk, keychain, context, client, past>>

\* the process ends: what it was writing stays torn
Crash ==
    /\ up /\ up' = FALSE
    /\ keychain' = NewKeychain /\ context' = NewContext
    /\ proto' = <<>> /\ client' = [c \in Clients |-> NewClient]
    /\ past' = [past EXCEPT !.missed = {}, !.dropped = {}, !.sinceLoad = [g \in Groups |-> 0]]
    /\ UNCHANGED <<folder, disk>>

Boot ==
    /\ ~up /\ past.runs < MaxRuns
    /\ up' = TRUE /\ past' = [past EXCEPT !.runs = 1 + @]
    /\ UNCHANGED <<folder, disk, keychain, context, proto, client>>

-----------------------------------------------------------------------------

Next ==
    \/ \E c \in Clients : Create(c) \/ Constructed(c) \/ Initialize(c) \/ Request(c)
                          \/ Connected(c) \/ Synced(c)
    \/ ContextStep \/ ProtoStep \/ KeyMade \/ Crash \/ Boot

Spec == Init /\ [][Next]_vars

\* The threads of the queues and those that make a client run on; exchanges
\* and connections are assumed to succeed, processes need not start.  The job
\* that ends an exchange gets its turn, however many others come (SF).
FairSpec ==
    /\ Spec
    /\ WF_vars(ContextStep) /\ WF_vars(ProtoStep) /\ SF_vars(KeyMade)
    /\ \A c \in Clients : WF_vars(Constructed(c)) /\ WF_vars(Initialize(c))
                          /\ WF_vars(Connected(c))

-----------------------------------------------------------------------------

\* What the program stored last is on the disk once the store has ended, except
\* the first store of a process that found a file, in a shared folder: it
\* is dropped in silence, as the file is still open for reading
\* (SecureKeychain::storeKeychain, NativeFileSystem::RemoveFile).
StoredIsOnDisk ==
    \A g \in Groups :
        (keychain.holder # g /\ past.sinceLoad[g] > 0) =>
            \/ disk[g] = Whole(keychain.dict[g][1])
            \/ g \in past.dropped /\ folder = "shared" /\ past.sinceLoad[g] = 1

\* A process that starts without a key, though one had been stored, found the
\* file torn by a crash during a store: nothing else loses a key
\* (SecureKeychain::loadKeychainIfNeeded).
KeySurvivesRestart ==
    (past.stored /\ context.loaded /\ context.info = 0) => disk["persistent"] = Torn

\* While the process runs, the key of the datacenter is never replaced by
\* another, however many clients ask for one and whenever they do
\* (Context::authInfoForDatacenterWithIdRequired, DatacenterAuthAction::execute).
KeyIsNotReplaced ==
    [][(up' /\ context.info # 0) => past'.infos[context'.info] = KeyOf(context.info)]_vars

NullKey(c) == ProtoOp = "ready" /\ ProtoArg = c /\ UsesKey(c) /\ client[c].info = 0

\* A client with a request comes to have the key and to serve, unless the
\* process ends, by itself or for want of a key (Proto::resetTransport,
\* contextDatacenterAuthInfoUpdated), which only a client can want that missed
\* the news of it, between its constructor's question and its becoming a
\* listener (Proto::Proto, Proto::initialize).
AskedIsServed ==
    \A c \in Clients :
        client[c].at = "asked" ~>
            (client[c].at \in {"serves", "none"} \/ \E d \in past.missed : NullKey(d))
=============================================================================
