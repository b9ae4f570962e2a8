# TLA+ verification of gpproto

gpproto is a client library for a request/response protocol over TCP (an
MTProto descendant). Its core is a set of objects that live on serial dispatch
queues and talk to each other by posting closures: the messages of one request
cross four queues, a connection that may close at any point, an encryption
session that may be replaced, server salts that run out, and a key that has to
be agreed on first and kept over restarts. Almost nothing of this can be
reached by a unit test, because what goes wrong is the order of steps of
several threads. This directory models that core, checks it with TLC and proves
about it what TLAPS can prove.

Contents: [the system](#1-the-system), [hazards](#2-what-is-hard),
[modules](#3-modules-and-code), [runs](#4-runs), [bounds](#5-bounds),
[fairness](#6-fairness), [proofs](#7-proofs),
[what the code turned out to do](#8-what-the-code-turned-out-to-do),
[what is not modelled](#9-not-modelled), [plan](#10-plan).

To check a run: `tlc -config Runloop.cfg MCRunloop.tla`. To check the proofs:
`tlapm X.tla` for each module `X` whose name ends in `Proofs`. `PROJECT.json` maps
every definition to the lines it was translated from, gives each property of
each run a mutation of the code under which it fails, and lists the hazards
with the properties that cover them.

## 1. The system

    application threads
       | gp_client_* / ClientSync::send, cancel, pause, resume, stop
       v
    ClientSync --async--> Proto::queue:   Proto, its Session,
       ^ receive: a deque   |   ^         RequestMessageService,
                            |   |         TimeSyncMessageService,
                            |   |         UpdateMessageService
              TcpTransport::queue          ^ |  key, salts, time difference
                            |   ^          | v
                            v   |        Context::queue: Context
              TcpConnection::queue         | \--> DatacenterAuthAction: a Proto
                            |   ^          v      of its own, unauthorized, with
                            v   |       SecureKeychain   DatacenterAuthMessageService
              NetworkSocket::queue      (mutex, files)
                            |   ^
                            v   |            Runloop: loopQueue, workerQueue
              a receive queue per socket      (timers of the transport)

Every box is one thread at a time; every arrow is a posted closure, except that
Proto and SecureKeychain are also called synchronously in a few places, named
below. What each component keeps, does and must guarantee:

| component | state | operations | what makes it correct |
|---|---|---|---|
| DispatchQueue, Semaphore | two deques, `_finished`, a counting semaphore, the thread | `async`, `asyncForce`, `sync`, worker loop, destructor | order kept, nothing lost or run twice, no lost wakeup, `sync` and `join` return |
| Proto | `protoState`, transport, session, services, `timeFixContext`, `authInfo`, reset lock, coalescing flag | life cycle, key and transport notices, ready-for-transaction, incoming packets, time fix | never sends in a wrong state, finds its way out of every waiting state, always notices a lost transmission |
| Session | processed ids, pending confirmations, containers, clock of ids | prepare ids, confirm, forget | ids unused and growing, each server message confirmed |
| RequestMessageService | requests with their context (id, transaction) | add, remove, the `MessageService` callbacks | each request answered at most once and, if it can be, at least once |
| TimeSyncMessageService | message id, samples taken and required | same callbacks | ends, with time and salts |
| TcpTransport | connection, back-off counters and timer, flags; its ping, the server's ping | connect, reconnect, flush, stop, valid; keep-alive, pongs | tells each end of a connection, asks for messages once per need, pings and answers pings |
| TcpConnection, NetworkSocket | delegate, socket, descriptor, buffers, pending read | open, read, write, close over two static queues and one per socket | own descriptor only, everything told and in order, descriptors released |
| DatacenterAuth service and action | stage, nonces, key, "was sent" | the three exchanges, reset, completion | the key is one the server has agreed to, the exchange ends |
| Context | key infos and time difference per datacenter, listeners, actions | load, ask, update, tell | one key in use; all clients have it |
| SecureKeychain, files | file list, loaded dictionaries, open file | load, get, set with a store | what was stored last survives |
| Runloop, Timer | sorted list, tick count | schedule, invalidate, chain of sleeps | timers due, neither early nor very late, silent when invalidated |
| AuthKeyInfo, salts | key with a set of salts | lookup, merge, replace | a salt valid for the present is used |
| ClientSync, C interface | the Proto, event queue of `receive`, the event returned last, the table of clients | calls that post jobs, `receive`, `gp_destroy` | contract of a call; an event is taken, and deleted once |
| UpdateMessageService | none | filters updates | each update becomes one event |
| DispatchQueuePool | free queues | get, return | a queue has one user |
| Crypto, BigNum, streams, parsers, logging, C interface, JNI | - | - | pure, generated or I/O |

## 2. What is hard

- *Interleaving*: `DispatchQueue` publishes work with a push and a notify that
  are two steps (`DispatchQueue.cpp:77`); `recv` is called with a descriptor
  another thread may have closed (`NetworkSocketPosix.cpp:187`); a client is
  made on a thread that races the announcement of a key (`Proto.cpp:52`).
- *Stale state*: notices of replaced transports and results of old transmissions
  arrive behind the events that made them void (`Proto.cpp:755, 805`,
  `RequestMessageService.cpp:57`); new salts go round through two queues
  (`Proto.cpp:767`).
- *Lost messages*: a close drops everything in flight, and each service has its
  own notion of when a message was sent (`Proto.cpp:1015`,
  `DatacenterAuthMessageService.cpp:98`).
- *Waiting states with one way out*: awaiting time and salts ends only by a
  ping, its rejection, a new session and a salts request, in that order.
- *Crash*: the keychain truncates its file before it writes
  (`SecureKeychain.cpp:209`).
- *Time*: an absolute list of timers over a count that restarts
  (`Runloop.cpp:74`); ids, sequence numbers and the lookup of a salt are all
  functions of a clock that the server corrects and anybody may set
  (`Session.cpp:15`, `AuthKeyInfo.cpp:58`).
- *Ownership across threads*: an event is deleted by the call of `receive` after
  the one that returned it (`ClientSync.cpp:176`); what the server's ping was is
  written on one queue and cleared on another (`TcpTransport.cpp:200`).

The full list, each with its line and its properties, is under "hazards" in
`PROJECT.json`; those without a property say why.

## 3. Modules and code

| module | models | extends / composes |
|---|---|---|
| `SerialQueue` | abstract: what a dispatch queue promises | - |
| `DispatchQueue` | `DispatchQueue`, `Semaphore` | implements `SerialQueue` |
| `ProtoState` | the state of one Proto and its services as a record; jobs, messages, ids | - |
| `RequestMessageService` | that service's callbacks | `ProtoState` |
| `TimeSyncMessageService` | that service's callbacks | `ProtoState` |
| `Proto` | all jobs of `Proto::queue` | both services |
| `ProtoSystem` | user, Context, TcpTransport, connections and server beside it; properties | `Proto`, implements `CallContract` |
| `CallContract` | abstract: what a caller may rely on | - |
| `Numbering` | `Session`'s ids and sequence numbers, the salt set of `AuthKeyInfo`, the clock of `Context` | - |
| `TransportPings` | the keep-alive and the pongs of `TcpTransport`, on its queue and Proto's | - |
| `DatacenterAuth` | the key exchange over an unauthorized Proto | - |
| `Context` | `Context` and `SecureKeychain`, for two clients of a folder, over restarts | - |
| `Connection` | `TcpConnection` over `NetworkSocketPosix` | - |
| `Runloop` | `Runloop` and `Timer` | - |
| `ClientSync` | `ClientSync`'s events and `receive`, behind the C interface | - |
| `ProtoInvariants` | what an operator of `Proto` may do, what each turn of its queue does, the inductive invariants: the definitions `ProtoProofs` is about | `ProtoSystem` |
| `*Proofs` | theorems | the module they are named after |
| `MC*` | constants for TLC | - |

A definition followed or preceded by one with a longer name of the same stem
(`Offered`/`OfferedAgain`, `DoTick`/`DoTickIdle`, ...) and a comment "slip" is
a mutation: a plausible bug, in no behaviour of the model, that shows the
property named in `PROJECT.json` can fail.

**DispatchQueue.** One step per critical section of `_mutex`; every read of the
volatile `_finished` and every operation of the semaphore, made outside the
mutex, is a step of its own. `worker` is the program counter of the thread
(`check`: loop head; `swap`: take a batch; `gate`: second test of `_finished`;
`run`: over `_tempJobs`; `wait`: in the semaphore). Jobs nest: `async` from the
queue's own thread runs in place (`InlineCall`), `asyncForce` queues
(`ForceCall`). `sync` is push, notify, a test of `_finished`, and a wait on its
own semaphore. The destructor clears `_jobs`, sets `_finished`, notifies, joins.
History variables record acceptance and start of jobs.

**Why the other modules take a job as one step.** `DispatchQueue` is checked to
implement `SerialQueue`: jobs run one at a time, in order. A job of `Proto::queue`
touches only state of that queue, and what it calls with `async` on the same queue runs
in place, so a whole job, nested calls included, is one step: an operator that
maps the record `proto` to its next value. Jobs posted to other queues are
appended to their sequences. Two things are not like that and are steps of
their own: a packet of several messages (the rest of the loop, `DoMessage`, is
put back at the *head* of the queue, so that only other queues may
interleave, as they can in the code), and in `Context` the waits for the
keychain's mutex.

**ProtoSystem.** `proto.jobs`, `proto.tcpJobs` and `proto.ctxJobs` are the three
queues; `net` the transports not stopped yet; `wire` the messages with the
network or the server, with the connection they went out on; `lapsed` the key
infos without a salt for the present; `client` what the user has done. A message id
is a batch number and what it carries, so ids are unique and grow;
an order that is not monotonic, which `Session` detects, is a choice of the
model (`ReadyViolated`). The lock of
`requestTransactionFromDelegate` is set and cleared within one job, so no job finds it
set and the model has no variable for it. When a connection ends, what was on it is lost, or
had arrived (`Severed`). The server answers a request once, on any later
connection; it may reject what it gets with each code; it may send updates,
repetitions and packets that cannot be read. A rejection or an answer takes the
message, and the messages in it if it is a container, off the wire; so may a rejection take the
ping with salt 0. A key may have been announced before the Proto is a listener, between the question of its
constructor (`Proto.cpp:46`) and the job of line 52: such a Proto begins with Context's key and `authInfo` null
(`missed`). It begins so at rest, since before it is a listener nothing but a transport of its own
could tell it more. Where the code then dereferences the null (`NullKey`) no action is enabled and nothing is
owed: the process ends there.

**DatacenterAuth.** Nonces and keys are numbers; a hash or ciphertext is the
numbers it was made of, so that a handler's comparison is a comparison of
numbers. The Proto under the service is reduced to `link` (asked, ready, valid),
since with a single message in transmission the order of the queues does not
show. What differs between the stages in the code differs here: the first
message counts as sent when it is prepared, the second when it is written, the
last never.

**Connection.** `ConnHeld` and `SockHeld` say whether anything refers strongly to
the objects (`tcpJobs` and `netJobs` are the two static queues, `ConnSpec` the specification): a job of the socket's queue that captures a `weak_ptr` finds
nothing once the connection has let go. `owner` is the system's descriptor
table, lowest number first. `recv` takes two steps, the load of `fd` and the call, and
returns data, or fails: the peer closed, the descriptor was shut down, or
`SO_RCVTIMEO` passed. The users of a connection are transports. One in use holds a connection at a time
(`Begin`) and stops it (`Quit`) or forgets it when it is told of its end (`Drop`). One that has been stopped may
still be held by a job it has queued, and connect once more (`BeginBehindStop`, at most `MaxLate` times); when it
ends, it takes its delegate away and closes nothing (`Abandon`).

**Context.** Clients are made on threads of the application; their calls of
`Context`, its queue and the Protos' queue are interleaved, and the keychain is
held under its mutex (`holder`) from a load or the opening for a store to the
close. `disk` is what the next process finds. `folder` is the mode of the
documents folder, which decides what `RemoveFile` does.

**Runloop.** `worker` is `workerQueue`, `sleeps` the jobs of `loopQueue`,
`posted` the actions on their way to the queues of the timers' owners. `schedule`
starts one more chain of sleeps and ticks each time, as the code does.

**ClientSync.** An event is a number; `queue` is the deque (changed under its
mutex) and `count` the semaphore that is notified after the mutex is let go, so that
`push_back` and `pop_front` are two steps each. `receive` has five, since the
fields it reads and writes, `currentReceiveEvent` among them, are under no lock: the deletion of
the event returned last, the wait, the removal, the assignment, and the second
read of the field for the result. `Exists` says how long the object lives:
as long as the table of clients or a call inside it refers to it. Several threads
may receive; histories note whether their calls overlapped (`overlapped`) or followed
each other in a way that takes the event from a thread (`disturbed`).

**Numbering.** The part of `Proto` that `ProtoSystem` leaves to choices. Time
is counted in ticks of which each holds `Grain` ids; `off` is by how much the
client's reading of the server's time is off, which `Skew` (the user sets the
clock) and the server's answers change. A batch is numbered message by message
(`NumberNew`, `NumberKept`), with the clock going on in between, then sent,
discarded because of its order, or discarded because no salt was found
(`Complete`, `DiscardViolated`, `DiscardSaltless`). `SaltsFrom` is the lookup declared
`const` that erases what it passes; `Merge` is `mergeSaltset`. An answer is some ticks old, but no
older than what it answers (`asked`, `pinged`); after several samples the clock is set by their trimmed
mean, so that it may end up behind the answer that completes them. Whatever resets the session goes through
`ResetSessionInfo` with its lock of one second.

**TransportPings.** `context` is the `TcpTransportContext` with what the two
pings need; `tcp` and `proto` are the queues of TcpTransport and Proto. The
lock that guards the making of a transaction is not in the model: it is
taken and released in a closure that runs in place on the current queue, so
that it holds for no time (`TcpTransport.cpp:118-141, 226-233`). What a completion of
Proto's writes into the context on Proto's thread is done field by field
(`Sent`, `ClearPingId`), and so is the recording of a server's ping on the transport's
(`RecordMessageId`, `RecordPingId`). Ids of pings are `latest` or `older`:
nothing else of them matters (`Aged`).

## 4. Runs

| run | module, cfg | shows | distinct states |
|---|---|---|---|
| `queue` | `MCDispatchQueue`, `DispatchQueue.cfg` | `Fifo`: no job lost, repeated, overtaken. `NoLostWakeup`. `SyncMeansDone`, `SyncReturns`, `DestructorReturns`. `ImplementsSerialQueue`: safety and liveness of the contract | 25,583 |
| `proto_packets` | `MCProto`, `Proto_packets.cfg` | two requests; a close, or acknowledgements, updates, duplicates, results without a payload and unreadable packets, or an order of ids that is not monotonic: `NoRequestStranded`, `NoRequestIgnored` | 1,044,501 |
| `proto_faults` | `MCProto`, `Proto_faults.cfg` | one request, everything fair; two closes; or a close and salts that run out; or rejections with each code, of the ping with salt 0 too, or salts that run out, with clocks that go back and locks that expire: `KeptIdsAreUnused`, `AuthInfoSettles`, `ConnectionReportSettles`; `TimeIsFixed`, and every call is over in the end (`ImplementsFairCallContract`), but for the silences these name, see 8 | 525,201 |
| `proto_lifecycle` | `MCProto`, `Proto_lifecycle.cfg` | start without a key, which the client may miss; pause, resume, cancel, stop: `ReadyHasKey`, `StoppedIsFinal`, `PausedSendsNothing`, `ImplementsCallContract` | 145,877 |
| `proto_lostping` | `MCProto`, `Proto_lostping.cfg` | *violated*: `PingIsAnswered`, see 8 | about 8,000 until found |
| `numbering` | `MCNumbering`, `Numbering.cfg` | `IdsAreDistinct`, `SeqNosFollowIds` with kept ids, resets and a clock that is set; `SaltsAreKept` by the lookup that erases and the merge | 3,229,919 |
| `pings` | `MCTransportPings`, `TransportPings.cfg` | `PongsAreOwed` through refusals, closes and new sessions; `KeepAliveGoesOn` | 1,117,169 |
| `auth` | `MCDatacenterAuth`, `DatacenterAuth.cfg` | `KeyIsShared`; `StrandedOnlyByLoss` says exactly when the exchange stops for good; `KeyIsMade`, `LastStageRecovers` that otherwise it ends | 128,058 |
| `connection` | `MCConnection`, `Connection.cfg` | `DescriptorsAreOwn`, which also says when a descriptor is left open, `ToldInOrder`, and, under fairness, `FailureIsTold`, with connections that are begun behind a stop | 1,516,296 |
| `runloop` | `MCRunloop`, `Runloop.cfg` | `ChainAlive`, `NeverEarly`, `NeverLate`, `SilencedStaysSilent` | 134,838 |
| `context` | `MCContext`, `Context.cfg` | `StoredIsOnDisk`, `KeySurvivesRestart`, `KeyIsNotReplaced`, `AskedIsServed` | 109,949 |
| `clientsync` | `MCClientSync`, `ClientSync.cfg` | `FreedOnce` and `HeldIsIntact` with two receivers, `EventsAreTaken` also while pause, stop and destroy wake them | 199,867 |

The type invariants are not checked by these runs; where a module has proofs its
type invariant is a theorem (for `Runloop` it is part of `ListInv`). `TypeOK` of
`ProtoSystem` has been checked with its three passing configurations;
`Context`'s is the one of `ContextProofs`, that of `Connection` is `ConnType` of `TransportProofs`.

The refinement mappings. `DispatchQueue` to `SerialQueue`: what is pending are
the jobs of the batch not begun and `_jobs`; once `_finished` is set a worker
that has not passed the second test forgets them all, one that has finishes its
batch. `ProtoSystem` to `CallContract`: a call is *posted* while its job is in
Proto's queue, *held* while the service has it, then *over*; the contract
allows one callback, none after the call is over or the service removed. Under
fairness (`proto_faults`) the contract also says that each call ends, unless the client falls
silent for ever (`FallsSilent`).

`CHECK_DEADLOCK FALSE` in every cfg: each system may come to rest, with the
queue destroyed, the client stopped, the key made, the connections closed, the
timers due, or simply with nothing asked of it and the bounded
events used up. That it does not rest where it should go on is what the
properties about settled states (`NoRequestIgnored`, `ConnectionReportSettles`,
`AuthInfoSettles`, `StrandedOnlyByLoss`, `ChainAlive`, `NoLostWakeup`) and the
liveness properties say.

## 5. Bounds

| bound | value | why it is enough |
|---|---|---|
| `DispatchQueue` `Clients`, `Jobs` | 2, 2 | two pushes may fall on both sides of the batch swap and of the destructor, a job may nest another, each of `async` and `sync` may meet the other. Three jobs (573,300 states) give no error either; the theorems cover any number |
| `Requests` | 1, or 2 in `proto_packets` | two requests share a container, differ in state (bound, offered, answered) and in what a close does to them; requests do not interact otherwise |
| `Budgets` | `LifecycleBudgets`, `PacketBudgets`, `FaultBudgets`, `LostPingBudgets` in `MCProto` | how often each event of `Events` happens in one behaviour. `close`: up to 2, the first reconnects at once, the second through the timer. `packet`: one unasked message, alone or with an answer behind it, against every state. `lapse`, `expiry`, `violation`: one lapse of the salts, one expiry of the one-second lock, one batch of ids out of order. `pause`, `cancel`: one each, at any point of the life of the first transport; a resume may follow. Each budget is a mixture: `proto_packets` takes one kind at a time, `proto_faults` a close with a lapse, and a lapse or a packet with clocks and locks; all at once is out of TLC's reach in minutes. A silence takes two kinds at most: a lapse or a rejection brings on the ping, and a close or a rejection, which the server may answer it with at any time, undoes it. A close beside a packet (743,731 states) gives no error either |
| `Stopping` | TRUE in `proto_lifecycle` | stop at any point |
| `InitialKey` | 0 in `proto_lifecycle`, else 1 | 0: without a key, which arrives later or has been missed |
| `Threshold` | 0 (2 in the code) | an acknowledgement is due with the first message that needs one |
| `SlowSamples` | 2, 1 in `proto_faults` (6 in the code) | more than one sample; in `proto_faults` these would only lengthen the exchange (1,695,970 states, no error) |
| `Numbering` `Grain`, `MaxTime` | 8, 6 | a tick holds two ids, so that a third message violates the order, a container included; with more ids violations only become rarer |
| `Numbering` `Delay`, `Window`, `Grace`, `Given` | 2, 2, 1, 2 | answers that are late, also by more than another's, windows of salts that are passed while time goes on, a grace shorter than a window, a list longer than one |
| `Numbering` `Skews`, `MaxFaults`, `MaxBatches`, `MaxAnswers` | -1 and 1, 1, 4, 3 | one setting of the clock or failure or rejection, before, in and behind a batch; a time fix, two lists of salts; a request that keeps its id over a batch |
| `TransportPings` `MaxPings`, others, `MaxFaults` | 2, 1 each, 2 | a ping behind another's pong; two of: close, refusal, rejection, call, new session |
| `ClientSync` `Receivers`, `MaxEvents`, `MaxCalls` | 2, 2, 2 | two calls of `receive` that overlap or alternate; two events and two empty ones |
| `DatacenterAuth` `MaxCloses`, `MaxFaults` | 1, 2 | two faults of six kinds and a close in every order: an abandoned exchange with answers still on their way, reset inside the lock and after it |
| `Connection` `NumConns`, `MaxTraffic`, `MaxLate` | 2, 1, 1 | the second connection is given the first one's descriptor; one packet of each framing; one of the two is begun behind a stop, before or after the other |
| `Runloop` timers | of 0, 1 and 2 ticks, the second repeating; `MaxEnds` 1, `MaxRestarts` 2 | due together, behind each other and after a restart of the count |
| `Context` `Clients`, `MaxRuns`, `MaxFixes` | 2, 2, 1 | a client that asks before, during and after the exchange of another; one crash with a load after it. Two fixes (264,422 states) give no error either |

Counters that only record (`batch`, `created`, `infos`, `answered`, ...) are
bounded by these. No symmetry is used, since most runs check liveness.

## 6. Fairness

Only what the program and its environment owe:

- *Threads run*: weak fairness of each queue's step. `ProtoQueueRuns` is weak
  fairness of `ProtoStep`, stated through the queue (the step is enabled when a job
  is queued, except for `NullKey`), which TLC evaluates much faster.
- *The network connects in the end and the timer of the transport runs out*
  (`Runloop` checks its own timers); nothing is assumed of closes, whose
  number is bounded. *The server answers* what has reached it.
- `TransportPings`: the two queues run, the network opens a connection that has been
  started, the timers of the ping and of the reconnection fire, and a server that
  is there sends something. `KeepAliveGoesOn` assumes the rest itself: a
  connection that stays, with no refusal and no rejection on it.
- `ClientSync`: calls that have begun go on, and a job that has been posted runs. Nobody has to
  call `receive`. `Numbering` has no liveness property.
- `Connection`: a blocked `recv` returns, since the socket is given a receive
  timeout. `DispatchQueue`: nobody has to call the queue or to destroy it.
- `Context`: strong fairness of `KeyMade`, whose guard (between two jobs of the Proto
  queue) comes and goes though in the program the exchange has a queue of its
  own; the exchange and connections are assumed to succeed. Nothing of crashes or restarts.
- The user does nothing he does not want to.

The properties are stated so that what the code cannot guarantee is said: for
instance a request ends unless cancelled or stopped, an exchange unless a
message was lost.

## 7. Proofs

22334 obligations in eight modules, all proved, none assumed beyond the `ASSUME`s on constants
(which TLC evaluates in each run).

**`DispatchQueueProofs`, any sets of threads and jobs.**

| theorem | says |
|---|---|
| `TypeCorrect` | `Spec => []TypeOK` |
| `WakeupsAreNotLost` | `Spec => []NoLostWakeup` |
| `SyncReturnsAreDone` | `Spec => SyncMeansDone` |
| `WaitersAreServed` | `Spec => []SyncWaiterServed`: a thread blocked in `sync` is owed its notify until the destructor begins |
| `JobsKeepTheirOrder` | `Spec => []Fifo` |
| `BatchInvariant` | `Spec => []BatchInv` |
| `QueueKeepsItsContract` | `Spec => SQ!Init /\ [][SQ!Next]_(SQ!vars)`: the safety of implementing `SerialQueue` under the mapping of section 4 |

None of these is inductive alone. `StackInv` ties the job that executes to the
head of the batch (without it a job's end could be that of a job that is not in
the batch); `BatchInv` says the swap never overwrites work unless the
queue is finished. The argument for wakeups is `WakeInv`: from the moment the
worker has *passed the swap* (`gate`, `run`, `wait`), anything in `_jobs` came
after it, so its pusher has left a count on the semaphore or is still to notify;
likewise the destructor from the moment the worker has passed its test.
`NoLostWakeup` is the instance `worker = "wait"`, `sem = 0`. `SyncMeansDone` rests
on `SignalInv`: nobody is notified of a job that has not ended. `Fifo` needs
`OwnerInv` (what `dropped` and `_jobs` are before and after the destructor) and
lemmas on how `Ids`, the names of the jobs of a deque, commutes with appending
and taking the tail. `QueueKeepsItsContract` goes through the actions: a push, a begin and an
end are the contract's, the swap moves jobs from one part of what is pending to the other, and every
other step leaves the mapped variables alone.

**`RunloopProofs`, any timers, timeouts and numbers of restarts.**

| theorem | says |
|---|---|
| `TimersOnList` | `Spec => []ListInv` |
| `TimersAreNeverEarly` | `Spec => NeverEarly` |
| `AChainIsAlive` | `Spec => []ChainAlive` |
| `TimersAreNeverLate` | `Spec => []NeverLate` |
| `TheSilencedStaySilent` | `Spec => SilencedStaysSilent` |

`ListInv` is `TypeInv`, `Once` (no timer is on the list twice) and `AgeInv`: for a
timer on the list, what it has waited plus its target is its timeout plus the
count of ticks. That relation survives the reset of the count exactly because
the reset happens only on an empty list; from it, a timer that is due has waited its
timeout. `Once` is needed because a tick ages each timer once. `SilentInv`
orders the worker's jobs: for a timer that does not repeat no schedule is queued
behind its invalidation. `NeverLate` rests on `LateInv`: the list
is sorted by target, and a timer that is overdue by some ticks stands no further from the head than the
number of timers less these. A tick takes one timer at most, the head, which brings all others one place
forward for the tick by which they are later; and nothing is put before one that is overdue, since a new
target lies ahead.

**`ClientSyncProofs`, any receivers, any numbers of events and calls.**

| theorem | says |
|---|---|
| `TypeCorrect` | `Spec => []TypeOK` |
| `CountsCorrect` | `Spec => []CountsAgree`: the semaphore counts what is in the deque, up to those between the two |
| `FreedOnceCorrect` | `Spec => []FreedOnce` |
| `HeldIsIntactCorrect` | `Spec => []HeldIsIntact` |

`PlaceInv` says that an event is in one place: the deque, with no event twice, the
hands of one receiver, or behind it; `FreshInv` that what has not been stored
in `currentReceiveEvent` has not been deleted; `AloneInv`, while no two calls
have overlapped, at which points of the one call inside the current event is deleted
already; `HeldInv` the same for what a thread holds. `CountsAgree` is needed
since `pop_front` would return without an event from an empty deque.

**`NumberingProofs`, any requests, clock and bounds.**

| theorem | says |
|---|---|
| `TypeCorrect` | `Spec => []TypeOK` |
| `InvariantHolds` | `Spec => []IInv` |
| `IdsAreDistinctAlways` | `Spec => []IdsAreDistinct` |
| `SeqNosFollowIdsAlways` | `Spec => []SeqNosFollowIds` |
| `SaltsInOrderAlways` | `Spec => []SaltInv` |
| `SaltsAreKeptAlways` | `Spec => []SaltsAreKept` |

`IInv` is `TypeOK`, `BatchesInTurn` (messages of a batch carry its number, earlier ones
an earlier one) and `Ordered`: in a session without an ignored violation, what was
sent, the ids requests have kept from batches that were discarded, and the messages of
the open batch are pairwise apart, in one order of ids and sequence
numbers, and behind `lastClientMessageId` and `seqNo`. The kept ids are the reason
it has to speak of all three: an id may come back batches later, with newer
ones sent in between.

`SaltInv` says that the salts are `Linked`: each that is not good yet comes after one that is good until then.
So the lookup, which erases all that it passes, passes none that is still good: before the first
salt of the future that it passed it would have found one for the present. A merge keeps the links of what it is
given, though it leaves out what is over and what has the first id of another; that two salts with one first id
are the same salt is a lemma on the numbers of the server (`FirstIdIsOwn`). The
salts that the service has collected are linked up to the time of the request that is on its way
(`HeardInOrder`), and its answer, which is no older, goes on from there. This is what the property rests on
with several samples: were an answer older than its request, its salts could begin before
the present one and leave a gap behind. `Merge` is a recursive function; that it exists, and what its steps
do, is shown by the least number for which it fails.

**`TransportProofs`, any numbers of pings, closes, refusals, rejections and calls; any number of
connections and of data.**

| theorem | says |
|---|---|
| `TypeCorrect` | `Spec => []TypeOK` |
| `PongsAreAlwaysOwed` | `Spec => []PongsAreOwed` |
| `ConnInvHolds` | `ConnSpec => []ConnInv`, of `Connection` |
| `DescriptorsStayOwn` | `ConnSpec => []DescriptorsAreOwn` |
| `DataIsToldInOrder` | `ConnSpec => ToldInOrder` |

`RecordingInv` adds what holds between the writing of the two fields of a ping,
and while a completion on the other thread has cleared one of them.

`ConnInv` is `ConnType`, the types; `JobsInOrder`, which jobs may stand behind which in the two static
queues (of a connection: its delegate first, then its start, its opening ahead of its data; of two: the earlier one gives up its
delegate before the later one starts, unless it was begun behind a stop, and connects are in the order of the connections); and `ConnSafe`, with a part for each question:
that nothing of a connection happens before it is started, or before it is connected (`Begun`); how long it has
its socket, and that a read queued behind the connect keeps this alive (`SocketKept`); that a connection owns
no descriptor but its socket's, and is there to close it (`OwnerKnows`); that an opening is told or is about to be
(`OpenedIsTold`); that a connection that was not begun behind a stop listens no more when a later one starts (`InTurn`); and that such a one whose connect
failed, while it listens, meets nobody who could be given the number it keeps (`HearsNothing`). The last two are what
makes `ToldInOrder` hold also after a connect has failed, when `DescriptorsAreOwn` says nothing.
A connect takes the lowest free descriptor; that there always is one (`FreeDescriptor`) is the pigeonhole principle:
every other connection owns one at most.

**`DatacenterAuthProofs`, any numbers of faults and closes.**

| theorem | says |
|---|---|
| `TypeCorrect` | `Spec => []TypeOK` |
| `KeyIsSharedAlways` | `Spec => []KeyIsShared` |
| `StrandedOnlyByLossAlways` | `Spec => []StrandedOnlyByLoss` |

`SharedInv` says that an answer which confirms a key carries a hash of a key the
server agreed to: that is what makes late answers of abandoned exchanges
harmless. `ProgressInv` says that in each stage the exchange is awaited, about
to be asked on, or one of the events of `StrandedOnlyByLoss` has happened
(`Awaited`, `WillAsk`).

**`ProtoProofs`, any requests and any numbers of closes, packets, lapses, violations,
pauses, cancels and expiries.**

| theorem | says |
|---|---|
| `IInvHolds` | `Spec => []IInv` |
| `StopIsFinal` | `Spec => StoppedIsFinal` |
| `PauseIsSilent` | `Spec => PausedSendsNothing` |
| `KeyIsThere` | `Spec => []ReadyHasKey` |
| `FInvHolds` | `Spec => []FInv` |
| `NewestKeySettles` | `Spec => []AuthInfoSettles` |
| `CallsKeepTheirContract` | `Spec => CC!Init /\ [][CC!Next]_(CC!vars)`: the safety of implementing `CallContract` under the mapping of section 4 |
| `SInvHolds` | `Spec => []SInv` |
| `KeptIdsStayUnused` | `Spec => []KeptIdsAreUnused` |
| `NoRequestIsStranded` | `Spec => []NoRequestStranded` |
| `ReportSettles` | `Spec => []ConnectionReportSettles` |
| `NoRequestIsIgnored` | `Spec => []NoRequestIgnored` |

The proof has two layers. First, what any operator of `Proto` and its services may do to
the record, in one relation, `Grows`: its queues get longer by jobs of certain kinds,
the transport stays, is dropped or is a new one, the latter only with a key and
never when stopped, and callbacks are made only while the service is
registered. It is reflexive and transitive, so that each operator needs one short
lemma, nested calls included. Then `IInv`, which speaks of the order of the jobs: `RemovalComesFirst`
(the service is removed ahead of every stop, which is why a stopped client makes no callback),
`KeyComesFirst` (a key that Context has and Proto does not is queued ahead of the readiness of
the transport in use, unless the Proto missed it; a Proto whose key Context has not got has no transport)
and `Resting` (a transport that comes into being in a pause is asked for nothing, so it never
connects and is never ready). Every job takes the head of the queue (`Taken`) and then
grows; every other step posts jobs that are `Harmless`.

The other theorems need to know more of each operator than `Grows` says. `Moves` adds the requests
and their contexts, the session, the transports and the key: attempts are given up and none is made
(`Fades`), none outlives its session or transport while the service is there to hear of the change
(`Renews`), a transport stays or is succeeded by one that is asked for its state after all earlier ones
have been stopped, and `authInfo` is set only to what Context is told last (`KeyMoves`). `Asks` says
that what can be sent now and could not before has been asked for. From these, one lemma
for each operator, comes `Turn`: what each of the fourteen jobs of Proto's queue does. It is
the whole basis of what follows, and nothing below it opens an operator of `Proto` again.

- `FInv` is `IInv`, the types of all that, and that a flush asked for is queued.
- `NewestKeySettles` needs `NewestIsLast`: the newest info is the last one in Context's queue, or the one
  Context holds, and the same on the way back.
- `CallsKeepTheirContract` needs `CInv`: no call is posted twice, and only calls whose job is not
  queued any more are held or over. Each turn is then one of the contract's steps or several calls of
  one kind (`CallTurn`, `CallStep`).
- `SInv` follows each message. Its parts: what arrives speaks of ids that have been given and comes
  once (`ServedFits`, `PacketsFit`, `MessagesFit`), what is out belongs to the session in use (`WireFits`),
  and the containers and contexts name given ids (`ContainersFit`, `ContextsFit`, `SessionIds`);
  the transport in use reports to Proto and is not about to be stopped (`NetFits`, `InUse`);
  a kept id is in nothing that is out or has arrived (`KeptUnused`); and what a request in transmission
  waits for is out, has arrived and will be heard, or its failure is queued (`InHand`). A turn may make
  attempts for several requests at once and let out one message for them (`TurnAttempts`); a packet is
  heard message by message, so the invariant speaks of *spots*, the places of the messages in
  queued packets, which move when the head of the queue is replaced by the rest of it. A connection that
  closes takes its messages with it but tells of their failure first (`StillOut`).
  `NoRequestStranded` is `InHand` read in the terms of the run.
- `ReportSettles` needs `RInv`, of a client that has not stopped: the stops of all transports but the one in
  use are queued (`OthersEnd`), the newest one is never detached (`NewestIsHeard`), and either it is going to
  be asked for its state behind all those stops (`IsAsked`) or it is the only one left and what was last
  said, made known already or queued, is its state (`IsAlone`). Without the order of the stops and the
  `update`, the notice that an old connection is gone could come last. A transport that was dropped in a
  pause may stay open for a while without being reported so; then there is none in use.
- `NoRequestIsIgnored` needs `GInv`, of a client that has not stopped: when there are requests to offer and
  Proto may ask for a transaction (`Eager`), a `flush` is queued, or there is a transport that is going to ask
  (`Followed`, `Wanted`): the job `needs` or `flush` of its queue is still ahead, or its `ready` is on
  its way to Proto, or its connection is not open, and opening makes a `ready`. What a transport says of
  itself must be true for that (`NetSpent`): its flag that a flush is queued, and that a connection is gone, with
  none being made, only after a second failure. For each turn it is shown which of these it leaves
  (`Wakes`), and for each step beside Proto's queue that it gives up none without another.

These need the assumption that `None` is no context (`NoneAssumption`); like the others it is evaluated by
TLC in each run.

**`ContextProofs`, any finite set of clients and any numbers of processes and time differences.**

| theorem | says |
|---|---|
| `IInvHolds` | `Spec => []IInv` |
| `StoreReachesDisk` | `Spec => []StoredIsOnDisk` |
| `OnlyCrashLosesKey` | `Spec => []KeySurvivesRestart` |
| `KeyStays` | `Spec => KeyIsNotReplaced` |

That `Clients` is finite is assumed because a job of the context calls the listeners one
after the other. The heart of `IInv` is `KeyInv`: all infos in use or on their way (the one Context
has, those of queued updates, the clients', those they are being told of) have one key; while the
exchange runs there is none; if Context has none although one is on its way, the action is `made`,
which keeps a second exchange from beginning; and the action's end is queued behind its update, so
that the action is forgotten only once the info is there. The other parts say who waits for
what: `LoadInv` that until the keychain is loaded there is no job ahead of `setKeychain`
and all others are questions of constructors; `PeekInv`, `ReadInv` and `CallerInv` which job
of one queue belongs to which place in the other or in a constructor; `ServeInv` that
only a client with a key changes the time difference; `HolderInv` that a store of the key is in the
middle of its update, so that a key not known is not half stored (`DiskInv`). `FileInv` is about
the keychain alone: a file is open for writing exactly in a store's hands, and a store fails to open
it only in a shared folder before the first success.

**Only model-checked.** Liveness and what involves ENABLED: `SyncReturns`,
`DestructorReturns`, `KeyIsMade`, `LastStageRecovers`, `TimeIsFixed`,
`FailureIsTold`, `AskedIsServed`, `EventsAreTaken`, `KeepAliveGoesOn`, and the liveness of both
refinements. All other properties of the passing runs are theorems. Induction over data is done where it is needed
as a search for a least counterexample, in the well-founded order of the naturals.
No module declares a RECURSIVE operator.

## 8. What the code turned out to do

**A lost ping is never sent again** (finding; run `proto_lostping`). In the state of
waiting for time and salts, Proto sends a ping with salt 0 in order "to receive
bad messageNotification" (comment at `Proto.cpp:1036`). It does so only while
`timeFixContext` is null (1015), sets it when the ping has been written (1065),
and clears it only in the handler of the notification (542). If the connection
closes first, the notification never comes and no ping is sent any more: without
a valid salt the client stays silent.

Properties that hold only in the form given, because of what the code does:

- `TimeIsFixed`: Proto may wait for time and salts for ever (`TimeIsLost`). The ping with salt 0 is lost
  with its connection (above); or it is rejected with `bad_msg`, a branch (`Proto.cpp:549-571`) that, other than
  that of `bad_server_salt` (530-543), does not clear `timeFixContext`, so that no other ping is sent although
  nothing was lost. Or, without a ping, the request for salts that the time service waits for is gone: lost with its
  connection, or prepared and dropped since salts just received had lapsed; `initiateTimeSync` with that service
  already there (`requestTimeResync`, 666-686) asks for no transaction.
- `TimeIsFixed` and `ImplementsFairCallContract` also except a client without a connection and without a timer to
  make one (`NoConnection`), which takes two closes, see `NoRequestIgnored`.
- `ImplementsFairCallContract`: every call is over in the end unless the client falls silent for ever in one of the ways
  named (`FallsSilent`). The safety of the contract has no exception.
- `ReadyHasKey`, `AuthInfoSettles` except a Proto that missed the announcement of its key. Context has the key, so the
  Proto makes a transport; when this is ready `authInfo` is null and is dereferenced (885, 1049), see also
  `AskedIsServed`. For any other key the order of three queues sees to it that it is there.
- `StrandedOnlyByLoss`: `protoTransactionsMayHaveFailed` of the authorization
  service is empty, so a message of its first two stages that is lost with its
  connection is not sent again; an answer that changes nothing (unreadable
  while the reset lock is held) has the same effect. The last stage's message goes
  out with every transaction, since its callback tests for the previous stage.
- `LastStageRecovers` excepts a transport that has stopped its own reconnection:
  `connectionIsValid` that runs after the close invalidates the timer that was to reconnect.
- `DescriptorsAreOwn` is for runs in which no connect has failed: a failed connect
  closes the descriptor and keeps its number, so a later connection's may be
  read, written and closed by it.
  Its second conjunct is about a connection closed by the client between two receives: it lets go of
  its socket before the weak job that closes the descriptor runs; the
  descriptor is then not released. And it excepts a connection begun behind `stop`: the inner job of
  `setDelegateNeedsTransaction` (TcpTransport.cpp:99) may come behind it, `stop` leaves `stopped` FALSE (55), and the
  transport that only this job still holds connects. `~TcpTransport` takes the delegate away and stops nothing, the
  read job queued behind the connect keeps the socket until this has been opened, and the descriptor outlives it.
- `ToldInOrder` lets such a connection be told of data without having been told of its opening: it may listen
  while the next transport's connection opens, and if its own connect has failed, with the number of that one's descriptor.
- `NoRequestIgnored` excepts a connection that has failed at least twice, when a `connectionIsValid` that was still
  queued then invalidates the timer that was to reconnect: nothing is left to wake the transport until the
  next request asks for a transaction. With two closes it meets a request that was refused by that transport. With
  three it meets one that was never offered: its own flush comes at the back-off and starts the connection, which
  fails once more before `connectionIsValid`, posted for a packet of acknowledgements, runs.
  `proto_packets` has one close, so there the property holds without the exception.
- `AskedIsServed` excepts a client that missed the announcement: a client asks for the key in its constructor and becomes
  a listener in a later job. A key announced in between does not reach it; its
  transport is made, and `authInfo` is null when it is ready.
- `StoredIsOnDisk`: a loaded file stays open for reading, and an `Open` for
  writing of an open file does nothing. In a private folder `RemoveFile`, which
  names the wrong path, erases the entry and the store goes on with a new one; in a
  folder its group may write to it does not, and the first store after a load
  is dropped.
- `SilencedStaysSilent` is for timers that do not repeat: a repeating timer
  invalidated between being due and its action restarts itself.
- `FreedOnce` and `HeldIsIntact` are for calls of `receive` that do not overlap:
  two that do delete the same event twice, since `currentReceiveEvent`
  still points to it while the first one sleeps. After `gp_destroy` the event a thread holds
  goes with the ClientSync, and the data of events still in the deque is never
  deleted.
- `EventsAreTaken`: `pause`, `stop` and `gp_destroy` wake one sleeping receiver,
  not all of them; `receive` ignores its timeout.
- `IdsAreDistinct`, `SeqNosFollowIds`: a container's id is made last and is not
  looked at (`Proto.cpp:1144-1146`), nor is that of the ping of the time fix
  (1018-1020), and a violation that is seen changes nothing while the reset lock
  is held (692-700). Such a session (`tainted`) goes on with ids that ran backwards.
  Three ids within one tick of the clock are enough.
- `SaltsAreKept` is for a clock that does not go back: an id before the first salt
  makes the lookup erase them all. With several samples (an answer took more than a second) the trimmed mean
  may also set the clock behind the time of the last answer, whose salts then begin in the future; this counts as going back (`turnedBack`).
- `PongsAreOwed` has `overtaken`: a completion clears the ping that is written
  down without looking which it is. A ping that came between the asking for an
  older one's pong and its completion is forgotten.
- `KeepAliveGoesOn` has `spoilt`: the flag `didSendActualizationPingAfterConnection` is set when
  the ping is asked for. If Proto then refuses the transaction, or if the ping is rejected, no
  further ping is sent on that connection, since the timer does its work only while
  the id of a ping is known.
- `TimeIsFixed` does not say how often the salts request goes unanswered on the way. It is bound
  to its message id before it is written (`TimeSyncMessageService.cpp:157`), and
  stays unanswered after a close, after a batch dropped while the reset lock is
  held, or when salts lapse again; the next time fix frees it, if there is one.

## 9. Not modelled

More than three quarters of the lines of C and C++ in this repository are not the program's:
most are the OpenSSL headers under `src/example/android` and two copies of a generated JNI wrapper. The map is of
the program's own code, in `src/gp`, `src/gpnet` and `src/gputils`, of which what is left out is:

- Cryptography, big numbers, random bytes, byte streams and parsers, logging,
  and the generated JNI wrapper: pure, I/O, or forwarding.
- The arithmetic on time samples (any value from none to the longest delay stands for their mean). In `ProtoSystem` an order of ids that is not
  monotonic and salts that lapse are choices; their causes are in `Numbering`.
- `willInitializeApi` and `decorateRequestData`; results for requests of an old
  session other than as unreadable packets.
- Unauthorized mode in `ProtoSystem`: it is in `DatacenterAuth`, whose `cancel` and
  completions without an exchange are left out.
- UDP and name resolution; a
  `socket()` that fails; more than one datacenter, addresses and transport
  schemes (set once, before a Proto exists); more than one client of the C
  interface; `removeObject`, `dropGroup`,
  `resetTimeout`, `TcpTransport::reset`, none of which the program calls; the free
  list of `DispatchQueuePool`.
- Of a connection begun behind a stop: its transport sends nothing on it, and does not connect again while another
  transport has a connection (the job that connects it stands ahead of the next transport's in the queue they
  share, its timers may fire later). In `ProtoSystem` it is not followed at all: Proto has detached the transport, which can tell it
  nothing. A transport that `pause` stops is not detached; that one is taken to end with the last job that holds it, before
  such a connection opens.
- What the build does with references that may dangle: jobs of a transport that has been replaced capture
  `&transport`, those of its context `&context` and `&connection`. `TcpConnection.cpp:80` reads past the end of a
  packet by the length of its header; the bytes are not looked at here.
- `~DispatchQueue` with a thread blocked in `sync` on a dropped job, which
  `SyncReturns` excepts; the data race on a salt set between Proto's and Context's
  queues, since infos are values here.
- The chains of sleeps that each restart of a repeating timer adds are in
  `Runloop`, but no property bounds them. Their sleeps follow each other on
  `loopQueue`, so that no tick comes sooner for it; but the queue of sleeps grows.

## 10. Plan

Done, in this order: the queue all else rests on and its contract; Proto with its
services, transport and server; the key exchange; the connection below; the
timers; the context and keychain; the events of `receive`; ids, sequence numbers
and salts; the pings of the transport; proofs of the queue, the timers, the events, the numbers, the
pings, the connections, the salts, Proto's life cycle and messages, the key exchange and the context.

Next, the model:
1. `Proto` in unauthorized mode as an instance under `DatacenterAuth`, with the action's
   `cancel`.
2. The free list of `DispatchQueuePool`; removal and drop in the keychain.

Of the proofs nothing is left that the prover can reach: what is only model-checked is liveness.
