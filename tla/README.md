# A verification project for the msm8917-common device tree

The repository is the device tree of a family of Samsung phones. Most of it is configuration;
its own logic is the Qualcomm GNSS HAL under `gps/` and the radio interface layer under
`ril/libril/`. This directory holds TLA+ models of the parts of that code that keep state across
threads and messages, the TLC configurations that check them, and TLAPS proofs.

## Inventory

Paths are relative to `src/`. "M" marks a modelled component.

| Component | State it keeps | Operations | What is hard |
|---|---|---|---|
| M AGPS manager, `gps/gnss/Agps.*` and the AGPS part of `GnssAdapter` | per machine: state, subscriber list with `mWaitForCloseComplete` / `mIsInactive`; DS retries | request/release ATL, granted/denied/released, DS retry and fall-back | answers of cancelled attempts, shared connections, partial failure of the DS client |
| M timer service, `gps/utils/LocTimer.*` | heap of delegates, timerfd, poll set, `mTimer`/`mClient` pointers | start, stop, delete, expire | three threads, lock held only in part of `expire()` |
| M heap, `gps/utils/LocHeap.*` | binary tree sorted vertically | push, peek, pop, remove | equal ranks, pruned search |
| M message task, `gps/utils/{MsgTask,LocThread,msg_q,linked_list}.*` | queue, condition variable, runnable, reference count | send, receive, unblock, flush, destroy | lost wake-ups, lifetime of task and delegate |
| M (in part) GNSS adapter, `gps/gnss/GnssAdapter.*` | tracking sessions, client callbacks, NI data, ODCPI, configuration | start/stop/update tracking, NI response, ODCPI, engine restart | asynchronous engine responses, session multiplexing |
| M (in part) HIDL service, `gps/android/**` | callback objects, pending configuration, `mApi` | set callbacks, start/stop, configure, death | a client that is made late and told everything that came before |
| M (in part) Location API, `gps/location/LocationAPI.*` | interface table, client-to-callbacks map | create/update clients, start/stop/update sessions, control client | order of messages to the adapter |
| M (in part) client base, `gps/location/LocationAPIClientBase.*` | request queues, session ids | tracking, NI, control calls and their answers | matching an answer with its request |
| M (in part) system status, `gps/core/SystemStatus.*` | last report of each item, history | event reports, merging of network bits | a report that changes the item it came with |
| M (in part) OS observer, `gps/core/SystemStatusOsObserver.*`, `gps/utils/LocUnorderedSetMap.h`, `gps/gnss/XtraSystemStatusObserver.*` | client ↔ data item relation, cache, XTRA status | subscribe, update, unsubscribe, notify, answer the daemon | two maps that mirror each other, a framework that comes late |
| M (in part) RIL core, `ril/libril/{ril.cpp,ril_event.cpp}` | pending requests, wake-lock count, timer list, pending events | complete, acknowledge, indicate, timed callbacks | vendor threads, the wake-up pipe, the lock nobody gives back |
| M (in part) RIL service, `ril/libril/ril_service.*` | callback proxies, their counter, a read-write lock | set callbacks, call them, reset them after a failure | calls to a proxy that was replaced |
| M SAP, `ril/libril/{sap_service,RilSapSocket}.*`, `rilSocketQueue.h` | callback proxy, pending requests, blocks of memory | the eight requests, completion, events | every failure path frees something else |
| LocApi and contexts, `gps/core/{LocApiBase,LocAdapterBase,LocDualContext}.*` | adapter table, event mask | add/remove adapter, events, engine up/down | mask union, bounded table |
| NMEA, configuration reader, local IPC, PPS, logging, shims | little or none | text, sockets, device I/O | outside a state model |

**How the parts meet.** Android calls the HIDL service, which calls `GnssAPIClient`
(`LocationAPIClientBase`), which calls `LocationAPI`, which posts messages to the adapters.
Each adapter owns a `MsgTask`; every handler of an adapter runs on that thread. The modem
side (`LocApiBase`) posts its reports to the same queue. `GnssAdapter` forwards ATL requests
of the modem to the AGPS manager, and the connection state of the framework to its machines.
`LocTimer` has a `MsgTask` and a poll thread of its own; the AGPS retry, ODCPI and NI time-outs use it.
The OS observer has a `MsgTask` too; the framework (or `AGnssRil`) reports networks and cells to it, and it tells
its clients and the XTRA daemon. The telephony framework calls `ril_service` and `sap_service` through Binder; these
call the vendor library, whose threads answer through `ril.cpp` and `RilSapSocket`.

## Modules

| Module | Models | State ↔ code | Actions ↔ code |
|---|---|---|---|
| `Agps` | `Agps.cpp`, `Agps.h`, `GnssAdapter` lines 2741–3001 | `mState`, `mSubscriberList`, `waits`, `inactive`, `mRetries` are the members of the machines; `queue` is the adapter's MsgTask; `cmds`, `link`, `atl` are the framework, the connection and the modem | one action per message (`requestATL`, `releaseATL`, `reportOpened`, `reportFailed`, `reportClosed`), the retry callback, and the environment (`modemOpen`, `modemClose`, `linkCommand`, `linkAnswer`, `linkLost`) |
| `MCAgps` | the symmetry of the handles | | |
| `AgpsProofs` | theorems about `Agps` | | |
| `LocTimer` | `LocTimer.cpp` | `mTimer`, `mClient`, `mFutureTime`, the heap (`mTree`, `top`), `armed`, `polled`, both threads' program counters | client calls `start`, `stop`, `deleteLocTimer`; poll thread `epollWait`, `pollDisarm`, `pollRemove`, `pollSend`; message thread `procPush`, `procRemove`, `settime`, `procExpire`, `expireNext`, `expireStop`, `timeOutCallback` |
| `LocTimerProofs` | theorems about `LocTimer` | | |
| `LocHeap` | `LocHeap.cpp` | `mTree` is the tree itself, nodes as records | `push`, `pop`, `remove`, over the recursive methods of the node |
| `RankedSet` | what `LocTimer` needs of the heap (`LocHeap.cpp:166`, not `LocHeap.h:84`) | a set and its top | |
| `MsgTask` | `MsgTask.cpp`, `LocThread.cpp`, `msg_q.c`, `linked_list.c` | list, `unblocked`, the wake-up of `list_cond`, `mRunnable`, `mJoinable`, `mRefCount`, both threads | the critical sections of `msg_q`, the steps of `threadMain` and of `MsgTask::destroy` |
| `MsgTaskProofs` | theorems about `MsgTask`, its refinement of `MsgQueue`, and about `GnssClient`; it extends both | | |
| `MsgQueue` | what a MsgTask's queue promises the adapters | pending, taken, open | |
| `GnssTracking` | sessions and ODCPI of `GnssAdapter.cpp` | `mClientData`, `mTrackingSessions`, `mOdcpiRequestActive`, the two fields of `OdcpiTimer`; `fix` and `up` are the modem; `owner`, `caller`, `view` the clients | one action per command, per message handler (`startSession` is `MsgStartTracking::proc`, ...), `stopClientSessions` one session at a time; `engineDown`, `handleEngineUpEvent`, `odcpiTimerExpireEvent` |
| `GnssTrackingProofs` | theorems about `GnssTracking` | | |
| `GnssNi` | NI requests of `GnssAdapter.cpp` | the two `NiSession`s of `NiData`; `payload` is the life of the modem's data, `thread` the NI thread of each request | the handlers of the adapter's thread, cut where they read a session without `tLock` (`gnssNiResponse`, `ignoreSession`, `recordResponse`; `requestNiNotify`, `spawn`), and `niThreadProc` cut at its lock (`niStart`, `niWake`, `niTimeout`, `niClear`, `niSend`) |
| `GnssNiProofs` | theorems about `GnssNi` | | |
| `GnssClient` | `Gnss.cpp`, `GnssAPIClient.cpp`, `LocationAPIClientBase.cpp`, `LocationAPI.cpp` | `rq` are the `mRequestQueues`; `todo` is the rest of a framework call, at each post to the adapter a step; `at`, `answer`, `request` the call-back of an answer; `told`, `status`, `inForce` what framework and modem know | the calls of the framework (`setCallback`, `setGnssNiCb`, `locAPIStartTracking`, `updateConfiguration`, `serviceDied`, ...), the adapter's handlers (`startTracking`, `enableGnss`, `gnssUpdateConfig`, ...), the call-back of an answer cut where it lets go of its mutex (`getRequest`, `onResponse`), and the NI requests of the network |
| `SystemStatus` | `SystemStatus.cpp`, `SystemStatusOsObserver.cpp`, `XtraSystemStatusObserver.cpp`, `LocUnorderedSetMap.h` | `mCache` is the last report of each item, `mDataItemCache` and the two maps are the observer's; `asked` the calls to the framework for each item since it was last unsubscribed, `phantoms` the types a first disconnection named; `xtra`, `mReqStatusReceived` and `view` the XTRA observer and its daemon | one action per message of the task (`subscribe`, ..., `handleNotify`, `xtraNotify`, `onStatusRequested`), the calls that post them, the framework that gives its object (`frameworkComes`), start and death of the daemon |
| `SystemStatusProofs` | theorems about `SystemStatus` | | |
| `RilRequests` | `ril.cpp`, callbacks of `ril_service.cpp` | `pending` is `s_pendingRequests`, `proxy` and `counter` the callbacks and `mCounterRadio`, `readers` and `writer` the lock of the slot, `th` the program counter of each thread, `lastNitz` the NITZ message kept | `dispatch`, `refuse`, `drop` (the three outcomes of a request), `requestComplete`, `requestAck`, `unsolicited`, and the steps of a call of the framework: `lock`, `respond`/`indicate`, `checkReturnStatus`, `resetCallbacks`, `relock`, `finish` |
| `RilRequestsProofs` | theorems about `RilRequests` and about `RilWakeLock`; it extends both | | |
| `RilWakeLock` | `ril.cpp`, `ril_event.cpp` | `count`, `last` and `mutex` of the wake lock, `timers` and `fire` (`timer_list`, `pending_list`), the pipe, and where the event thread is | `grab`, `releaseWakeLock`, `unsolicited`, `requestTimedCallback` cut at mutex and pipe; `eventLoop` cut at `calcNextTimeout`, `select`, `processTimeouts`, `firePending` |
| `RilSap` | `sap_service.cpp`, `RilSapSocket.cpp`, `rilSocketQueue.h` | `mem` says which blocks a request holds, `queue` is `pendingResponseQueue`, `binder`, `vendor`, `unsol` where each thread is | the steps of a request, each of which may fail (`encode`, `addPayload`, `dispatchRequest`, `onRequest`, `freePayload`, `sendFailedResponse`), its completion (`onRequestComplete`, `response`, `checkAndDequeue`), events, set and reset of the callbacks, death of framework and process |
| `RilSapProofs` | theorems about `RilSap` | | |

How the modules compose: `LocHeap` implements `RankedSet`, whose behaviour is what `LocTimer`
assumes of its heap; `MsgTask` implements `MsgQueue`, a FIFO, which is what the `queue`
variables of `Agps`, `LocTimer`, `GnssTracking`, `GnssNi`, `GnssClient` and `SystemStatus` assume. `GnssTracking` sees of its
`LocTimer` what `LocTimer` is checked to do: a running timer expires unless it is stopped, and an expiry
that has been reported can no longer be stopped. `GnssClient` is what stands above the adapter, and sees of
`GnssTracking` and `GnssNi` their answers: a session starts and stops when the modem lets it. `RilRequests` and `RilWakeLock`
are two halves of libril that meet in one place: each message to the framework in `RilRequests` takes the wake lock of `RilWakeLock`.

Definitions commented as mutants (`transitionOnlyFromPending`, `SideAlwaysLeft`, ...) are
plausible mistakes in one function each. They take part in nothing; each shows, put in the place
of the definition it is a variant of, that a property notices it.

## Runs

`tlc -workers 2 -config <cfg> <module>`

Where several invariants (or several liveness properties) belong together, a run checks their conjunction under one name; the
conjuncts, named here in parentheses, have their comments in the module.

* `agps_ds` (MCAgps, AgpsDs.cfg) — two sessions, ordinary or emergency, with the emergency PDN:
  all four kinds of answer of the DS client, one retry, the fall-back to SUPL. Checks the conjuncts of the inductive
  invariant: a machine that is PENDING or ACQUIRED has an active subscriber, and RELEASING has one waiting (`ForSomeone`; of RELEASED
  nothing is said), a subscriber marked inactive asked to wait for the close, and its session is one the modem is closing, has closed or
  was refused (`InactiveIsLeaving`; the machine may be in any state), an open session is an active subscriber of an
  ACQUIRED machine (`OpenIsBacked`).
* `agps_plain` (AgpsPlain.cfg) — three sessions, ordinary or emergency, sharing the SUPL machine
  (no emergency PDN). A pending request or release is always somewhere from where it will be answered, and no list keeps a
  session that was told it is closed (`AnswersTracked`); the comment "Subscriber list should be empty if we are in released state"
  (`PlainReleasedEmpty`); under fairness every request and every release is answered (`SessionsAnswered`).
* `loc_timer` (LocTimer.cfg) — two clients, one of which may be deleted, three starts, three instants.
  No pointer to a freed delegate is followed, a running timer is never lost, the timerfd never misses
  the soonest one (`TimersTracked`), an outcome is final; under fairness every timer ends and every delegate is freed (`TimersEnd`).
* `loc_heap` (LocHeap.cfg) — all sequences of operations on five objects, for all assignments of three
  ranks, ties included: `checkTree` holds and the tree is balanced until the first removal (`TreeIsSound`), and the heap
  implements `RankedSet`, where a removal takes the very object it is given, never one of the same rank.
* `msg_task` (MsgTask.cfg) — three messages, detached or joinable thread: nobody uses a deleted
  delegate, which the last of its users deletes, messages are deleted exactly once (`OwnedOnce`, which of the runnable says only that it is deleted in the end), no wake-up is lost, the queue is a FIFO, and `destroy()` ends
  with the runnable deleted (`TaskEnds`).
* `gnss_tracking` (GnssTracking.cfg) — two clients start and update sessions, stop them and go away, while any
  call of the modem may fail and the modem may restart. The modem's fix always has the smallest interval of all
  sessions (`RunningIsSmallest`); without a restart sessions are never without a fix (`ServedWithoutRestart`); what a
  client was told agrees with the session map (`ResponseIsTrue`). For ODCPI: a timer that is marked active will expire
  (`OdcpiTimerWillFire`), and every START reaches the framework unless the modem takes it back (`OdcpiAsked`).
* `gnss_ni` (GnssNi.cfg) — three NI requests, ordinary or emergency, with a late or missing response, a
  client that unregisters, and threads that cannot be created. The data of a request always has exactly one holder and
  is freed once, a busy session has a thread that will end it (`RequestsHeld`), no answer is made
  up (`AnswerIsFromUser`), and every request with a thread ends (`RequestEnds`).
* `gnss_client` (GnssClient.cfg) — four calls of the framework in any order, two callback objects, an NI request, a modem that may
  refuse. An answer of the adapter is taken for the request it answers (`AnswersFit`); once all is handled, no session runs that the
  client does not know of and the framework was told of the one that runs (`SessionsAgree`); the power vote, the capabilities
  told and the configuration in force are what the framework asked for, whether it asked before or after there was a client
  (`ControlAgrees`). The exception is the host of a SUPL server that was set before there was a client: the code loses it, and the property
  says that such a server is in force without a host until it is set again.
* `system_status` (SystemStatus.cfg) — two events of the framework, two calls of a client, three starts or questions of the daemon, and a
  framework that gives its subscription object at any time or never (8.0 million states). The items are two XTRA asks for, one in each way, and one
  (`screen`) that only clients ask for and leave. The two maps agree, and once the framework gave its object, the items it was asked for
  and not told to unsubscribe are those somebody is entered for (`SubscriptionsAgree`); what is distributed is what was
  recorded, and the connections told are those that are up and the types a first disconnection named (`ReportsAgree`); every client and the daemon know the
  last value (`EverybodyTold`).
* `ril_requests` (RilRequests.cfg) — one request, two vendor threads and the Binder thread, two frameworks one after the other, two unsolicited
  messages. A request is answered at most once and a NITZ time is never told twice (`HeardOnce`); a thread that drops the
  callbacks of a dead framework never drops those of a new one (`NewCallbacksKept`); a request the vendor was given is answered, unless
  the read lock that `resendLastNITZTimeData` keeps when the data is gone, or the one that a refusal, which never
  held it, takes at the end of `checkReturnStatus`, stops everybody (`LockLeaked`, which `RequestEnds` excuses).
* `ril_sap` (RilSap.cfg) — two requests, two frameworks. No block is freed twice, none is used after that but the message whose
  payload is freed last, a request that is over has left no memory but the command of `apduReq`, the list holds what the
  vendor has (`MemorySound`); every request is answered once or given up on a path that is meant to (`AnsweredOnce`); a
  framework that registered is heard (`LivingIsHeard`); requests end (`RequestEnds`).
* `ril_wake_lock` (RilWakeLock.cfg) — two threads, three messages, two timers. The lock is never held without a timer that will release it,
  and is free when all is acknowledged (`WakeLockGuarded`); the loop never sleeps over a timer, none is called after it was
  freed (`TimersKept`); every timer is called and the lock is released (`EventsEnd`).

**Bounds.** Two sessions are enough for one to leave while the other stays, three for the case that an
attempt is cancelled, a second fails and a third shares the outcome; `MaxRetries = 1` has a first attempt, a retry, and
the exhausted case. Three timer starts allow a stop, a restart and a second client in one execution; times only matter
through their order. Five heap objects give a tree of depth three with both shapes of a removal. Three messages
fill, drain and refill the queue around a wake-up. Two sessions with two intervals give every outcome of the
comparisons of the multiplexer, ties included; the queue of two lets a command, an expiry or a restart wait behind another
message; the theorems remove these bounds. Three NI requests let an emergency interrupt an ordinary request and a third find either
session busy or stale. Its run has one response (`MaxReplies = 1`; with two, liveness takes more than five minutes), so that repeated ones are left to the two theorems. Four calls of the framework with three session ids allow a start that overtakes the answer to a stop of the one
before, with an NI request that has the number of a session. A configuration of a server
and another item, each set at most once or twice, comes before or after the client. Two network events connect two types, or connect and drop one, or begin with a
disconnection; two calls enter and leave `screen` with the framework's object before, between or after them; a queue of two
puts an event between a subscription and its handling. Two frameworks are an old and a new one; with two NITZ messages one is kept while the other
is resent. A third wake-lock message comes when one timer was cancelled and one runs.
CHECK_DEADLOCK is off where the program may come to rest (all
sessions over, all timers ended, task destroyed) and on for the heap, which never does.

**Fairness.** Weak fairness of each thread of the process: the scheduler runs them, and none of them
waits except on what the model shows. For `Agps` also: commands reach the framework and every connection
attempt ends, with success or failure. Nothing forces the modem to open or close a session, the network to
drop, or an owner to destroy a task. In `GnssTracking` a running timer expires, in `GnssNi` a waiting NI thread
is woken or times out. In `LocTimer` and `RilWakeLock` the clock advances; the framework need not acknowledge. The vendor completes what it was given:
in `RilRequests` with strong fairness, since its threads may be busy with something else again and again, in `RilSap` on a thread
of each request. `GnssClient` and `SystemStatus` have no liveness properties: theirs are stated of the states where all is handled.

## Proofs

`tlapm GnssTrackingProofs.tla`. For any sets of clients and intervals and any bounds (`ClientsAssumption`,
`IntervalsAssumption`, `BoundsAssumption`):

* `TrackInvariant` — `Spec => []TrackInv`, the inductive invariant;
* `TypeCorrect`, `SmallestRuns`, `SessionsServed`, `OdcpiTimerLives` — its parts, the last three being the
  properties `RunningIsSmallest`, `ServedWithoutRestart` and `OdcpiTimerWillFire` of the run.

`RunningIsSmallest` is not inductive: a start that overwrote an existing session could raise the smallest interval
without the multiplexer noticing. `StartIsFresh` excludes this: the id of a waiting start is given out, is no session
yet, and is shared with no other start. `ServedWithoutRestart` needs `UpWithoutRestart`, and both need the typing of the
messages (`Proper`). The argument about the multiplexer is in the lemmas `SmallestAfterStart`, `SmallestOfOthers` and
`SmallestAfterUpdate`, which say of the pure operator `smallestOf` what saving, changing or erasing one
session does to the smallest interval; `StartStep`, `UpdateStep`, `StopStep` and `RestartStep` apply them to the outcomes of
the calls to the modem, and there is one lemma per action above them.

* `ResponsesTrue` — `Spec => []ResponseIsTrue`, on top of `TrackInv`.

`ResponseInv` adds what `ResponseIsTrue` leaves open, since it speaks only of registered clients that are not being removed. A client that is to be
registered (`Newcomer`) must have no session and must have been told of none, or its registration would make the claim false; that holds because a start
handled for an unknown client is neither told nor tracked. Its `addClient` message is the only one, and a start names the client that owns its id.

`tlapm AgpsProofs.tla`. For every finite set of handles, every set of served types, every behaviour of the DS
client and every retry bound (`HandlesAssumption`, `TypesAssumption`, `ConfAssumption`):

* `AgpsSafety` — `Spec => []AgpsInv`;
* `TypeCorrect`, `NeverHeldForNobody`, `NeverReleasingForNobody`, `PlainReleasedIsEmpty`,
  `OpenSessionsAreBacked` — its parts; `NeverForNobody` is the second and third together, as the run has them.

`AgpsInv` is inductive as the conjunction of the six. No part is inductive alone: `HeldForSomeone` needs
`ReleasingForSomeone` (a close in RELEASING starts a new attempt for those who came meanwhile) and the type of
the list; `OpenIsBacked` needs `InactiveIsLeaving`, since a session that the modem believes open must not be
among the inactive ones, which are dropped when a close is reported; `InactiveIsLeaving` needs its clause about
releases in the queue, for only a release makes a subscriber inactive. The proof has one lemma per event handler
(`processAgpsEventSubscribe` and so on), on top of lemmas on the subscriber list (`InOrder`, `addSubscriber`,
`keepSubscribers`), and one per action; environment steps share `EnvironmentInv`.

* `InactiveOnlyLeaving` — `Spec => []InactiveIsLeaving`, a part of `AgpsInv` (a bound on who is inactive, not on the state of the machine);
* `AnswersAlwaysTracked` — `DsUnused => (Spec => []AnswersTracked)`.

The second one is about configurations that never start the DS client: no emergency PDN is configured, or the modem asks for no emergency
connection. With it the claim is not made (see below: emergency sessions can be left behind). Its invariant is `TrackedInv`, on top of
`AgpsInv`: a session is in one place only, either its request is still queued or it is in the list of one machine, and its release is queued behind its
request (`MessagesInv`, `HandleInv`). An opening session in a list is active there, and its machine is PENDING or RELEASING. That a report which
is handled in another state cannot answer for it follows from `AgpsInv`.

`tlapm SystemStatusProofs.tla`. For any clients, network types, cells, locks and bounds (`UnknownAssumption`, that no value stands
for the lack of one):

* `MapsAlwaysAgree` — `Spec => []SubscriptionsAgree`;
* `ReportsAlwaysAgree` — `Spec => []ReportsAgree`;
* `EveryoneAlwaysTold` — `Spec => []EverybodyTold`, where `ClientsAssumption` says that the observer for XTRA is none of the clients.

What `MapsAlwaysAgree` says of the two maps excludes clients that called `updateSubscription`; what it says of the framework holds for them too. It does not
say in which of the two ways an item was asked for.

`SSInv` is the inductive invariant. `FrameworkFollows` needs `AskedInv` (nothing is asked before the framework gave its object): with the object, an item is asked for
when the first client is entered for it and unsubscribed when the last one leaves, so that each handler is followed item by item (`AskFollows`).
`ConnectionsFollow` needs `LinksInv` (before the first event nothing is connected and nothing left over) and `CacheIsReport`. The messages in the queue are
typed with it (`Fits`), since a handler does to the maps what its message says. One lemma per handler computes both maps and what is
asked as functions of the old ones; the three conjuncts then follow item by item.

`EverybodyTold` claims of the observer for XTRA only what holds when the queue is empty, which is not inductive. `ToldInv` says what is on its way: the
last message in the queue that carries an item carries its present value, and without such a message the observer knows it (`WillHear`). As long as it
is not subscribed, its subscription is queued, and what it is to know is nothing (`Due`). `HearTail` and `HearAppend` say of `WillHear` what taking and
posting a message do, for any queue; the handlers then only differ in what they send (`SendFlight`, `TakeFlight`).

`tlapm RilRequestsProofs.tla`. For any requests, frameworks and messages and any finite number of vendor threads (`ThreadsAssumption`,
`BoundsAssumption`):

* `NothingToldTwice` — `Spec => []HeardOnce`;
* `RunningKeepsCallbacks` — `Spec => NewCallbacksKept`.

`RilInv` has five parts. `AnswerInv`: whoever is about to answer a request is the only one, and a request still in the list and given to
the vendor has no such thread. `NitzInv`: a NITZ message is with one thread, or kept, or told; the one kept was told only
if the Binder thread is on its way to free it. `ProxyInv`: a thread that may still drop the callbacks has seen a framework that is
dead, and frameworks do not come back under their number. It needs `LockInv`: the callbacks are replaced under the write lock, and then nobody
may be between a failed call and `checkReturnStatus`, which notes the counter. Not every thread there holds the lock: a refusal never took
it, but gives up that of another and takes it again later (`Debt`). The threads that believe they have a read lock are thus at most the
read locks and that one, and the refusal's thread is the one that replaces the callbacks, so that the debt is paid by then.

The second part of `RilRequestsProofs` is about the wake lock. For any workers, delay and numbers of timers and messages (`WakeBounds`, what the assumptions of `RilWakeLock` say: they are numbers, and no worker is `Nil`):

* `WakeInvariant` — `WakeSpec => []WakeInv`, the inductive invariant;
* `WakeLockIsGuarded` — `WakeSpec => []WakeLockGuarded`;
* `TimersAreKept` — `WakeSpec => []TimersKept`.

`WakeLockGuarded` claims a releasing timer only while no worker is in the middle of a message. What holds in between is `MutexInv` (the mutex belongs to the one worker that is) and
`GuardInv`: its own timer will release the lock, and it is about to cancel another one. The count may be one ahead of what is owed only while that worker has not sent its message
(`CountInv`). A timer that will release the lock stays where the event loop finds it: the list is in the order of expiry (`Sorted`), a timer is in one list or in the callback, once
(`OnePlace`), and the pending list is empty when the loop sleeps (`LoopInv`). `CutList` and the lemmas after it say what inserting at the first later timer and removing the expired ones do to any
list; the least expired and the least later timer are taken with `WFMin`, since the prover has no induction.

`tlapm MsgTaskProofs.tla`. For any messages, and whether or not the task is destroyed:

* `EverythingOwnedOnce` — `Spec => []OwnedOnce`, the delegate and the messages; that nobody uses a deleted runnable is not part of it, and `MsgTask.cpp:69` may (see below);
* `WakeupNeverLost` — `Spec => []NoLostWakeup`;
* `TaskImplementsQueue` — `Spec => ImplementsQueue`, the refinement of `MsgQueue`: `Init` implies its `Init`, and each step is one of its steps or a stutter.

`TaskInv` is `TypeOK`, `DelegateInv` (the reference count is the number of users left: the owner, and the thread until it deletes its runnable), `LeavingInv`
(the thread leaves its loop only after `destroy` unblocked the queue), `MessageInv` (an accepted message is in the list, in the thread's hands or deleted, once) and
`NoLostWakeup`. That nobody uses a deleted delegate needs the exact count, not only that it is positive.

The second part of `MsgTaskProofs` is about `GnssClient`, which posts to such a task. For any items of the configuration and any bounds (`ClientBounds`, what `BoundsAssumption` and `ServerAssumption` say: they are numbers, and the server is one of the items):

* `ClientInvariant` — `ClientSpec => []ClientInv`, the inductive invariant;
* `AnswersAreFitting` — `ClientSpec => []AnswersFit`;
* `SessionsDoAgree` — `ClientSpec => []SessionsAgree`;
* `ControlDoesAgree` — `ClientSpec => []ControlAgrees`.

`SessionsAgree` and `ControlAgrees` speak of states where all is handled, so `ClientInv` has to say what is still on its way. `TrackingMatch` and `ControlMatch`: the requests that wait in a queue
are, in order, those of the messages about its session (`Matches`, an increasing function from requests to messages), after the one whose answer the adapter's thread carries. The lemmas
`MatchOther`, `MatchMine`, `MatchTailOther` and `MatchTailMine` say what posting and handling a message do to that, for any lists. Tracking needs two exceptions. A session is excused
once an NI request has its number (`Confused`); and an update of a session that the adapter does not have is never answered, so the match is claimed of a session only while it runs or its
start is in the queue (`Live`), ahead of all else about it (`OrderInv`). The queues of the control client and of aiding data are searched together, so their ids must differ (`Apart`): they are drawn from one
counter. `RunsAreWished` and `RunIsTold` are the two claims about the session while its stop or its report is on the way; `CallbacksInv` says that who asked for positions has a callback
object, without which the report would be dropped. `VotesInv` gives the vote after each prefix of the queue (`VoteAt`), `ConfigInv` the last message that sets an item to what can arrive of it (`due`: what the framework set, the server without its host if it was set too early), `CapabilitiesInv` the call of the
framework that will still store or tell a callback object. `ClientlessInv` covers the time before there is a client, when the pending configuration is `due`. Each part has one lemma for the step; they share `BinderExchange`,
`AdapterExchange` and `StepCases`, which reduce the thirty actions to what each sends, takes or answers.

`tlapm LocTimerProofs.tla`. For any clients, instants and numbers of starts (`BoundsAssumption`: `MaxTime` is at least 1):

* `TimersNeverLost` — `Spec => []TimersTracked`;
* `TimerEndsOnce` — `Spec => OutcomeIsFinal`.

`LTInv` has seven parts. `MessagesInv` and `OrderInv` say which messages may wait: of one delegate a push and a remove, each at most once, the push first; without the
order a removal could find nothing and the push that follows put a freed delegate into the heap. `LifeInv` says who holds a delegate (the client, the messages, the heap, one of
the threads), `RunningIsQueued` that a running timer is in the heap or about to be pushed. `ArmedInv` and `SoonestIsArmed` are about the timerfd: it is set for the top of the heap, or a
step of one of the threads that will set it is under way. `OutcomeIsFinal` then follows step by step.

`tlapm GnssNiProofs.tla`. For any number of requests and responses:

* `RequestHeldOnce` — `Spec => []RequestsHeld`;
* `AnswersAreTheUsers` — `Spec => []AnswerIsFromUser`.

`NiInv` follows the data of a request from the message that brings it (`MessagesInv`) through the session that keeps it (`SessionInv`) to the thread that answers (`ThreadInv`), with `PairsInv`
(a request is in one message, one session, one thread), `PayloadInv` (exactly one holder until it is freed; lemma `HoldersOnce`) and `AdapterInv` for the handlers of
the adapter's thread that were cut where they read a session without its lock. `IdInv` bounds which ids a session and its request may show, and `AnswerInv` says where a recorded
response came from. The proof of `AnswerIsFromUser` failed at first, for a good reason: see the divergence of `GnssAdapter.cpp:2402` below. The theorem states what is true for any number
of requests; it takes four to see the difference, the run has three.

`tlapm RilSapProofs.tla`. For any number of requests and of frameworks (`BoundsAssumption`: at least one request):

* `MemoryAlwaysSound` — `Spec => []MemorySound`;
* `EveryRequestAnsweredOnce` — `Spec => []AnsweredOnce`;
* `RegisteredStaysHeard` — `Spec => []LivingIsHeard`.

`IInv` has four parts: `TypeInv`, `MemoryInv`, `AnswerInv`, `HeardInv`. Within `MemoryInv`, some parts hold whatever the tokens are: `QueueInv` (an entry of the
list is there once and its wrapper is not freed) and `HeldInv` (the least the two threads hold, so that nothing is freed twice even if the wrong
entry is taken). The others hold while no token was used twice (`~reused`): `KeysInv` says that entries can be told apart and which requests they are, `ReturnedInv` what a
request holds at most where it is (`OnceHeld`). `DequeueTakes` shows that the first entry found is then the request's own; `PushedList` and `TakenList` say what adding and
removing an entry do to any list. `AnswerInv` is `AnsweredOnce` with the requests that are still `Open`; `HeardInv` adds that nobody is about to reset the callbacks
of a framework that registered in time. The death of the process is one lemma (`CrashStep`), for whichever thread causes it; `FailureFreesAll` is the lemma about the
failure paths of the eight requests.

Only model-checked: the liveness properties (temporal reasoning under fairness is out of the prover's reach); `LocHeap` (`TreeIsSound`) and its refinement of `RankedSet`, since its methods are
recursive operators, about which the prover cannot reason; `AnswersTracked` where the DS client is used, of which the claim is not made. Every other safety property a run checks is a theorem.

## Abstractions, and what is left out

* `Agps`: APN and bearer strings; the return value of `loc_timer_start`; `handleModemSSR`, which nothing calls;
  the close function of the DS client. `agpsOpenResultCb` drops a result without an APN, which would leave a
  machine PENDING; the fairness of the framework assumes that results carry one. A handler is one step: the retry callback, which
  walks the subscriber list on the timer thread, is taken as atomic too.
* `LocTimer`: one container of the two (they share only their threads); the C wrapper. A call on a deleted
  client ends the run in the state `crashed`.
* `MsgTask`: `pthread_create` failures, `linked_list_search`. A message that an unblocked queue refuses is
  neither queued nor deleted, as in the code; `MessageOwnedOnce` is about accepted messages. A joinable task that is
  destroyed before its thread first runs is not deleted by it: `RunnableDeleted` speaks of tasks that have received a message.
* `GnssTracking`: no ULP library is part of the tree, so the proxy is `UlpProxyBase`, which declines every call. Of
  `LocationOptions` only `minInterval` matters (0 stands for options whose size is 0). A client's callbacks are those
  it was created with, the ODCPI callback is registered from the start. `LocationAPI` calls the adapter under one
  mutex, so ids are given out one by one; their wrap after 2^32 sessions is left out. A call of the modem that fails
  leaves the fix as it was. Event masks, the power vote and the configuration sent on engine up are left out.
* `GnssNi`: time is not measured, a waiting thread may time out whenever it waits (`respTimeLeft` is left out). One client's
  registration stands for all. A request refused for want of clients is marked leaked, since nothing frees its data.
* `GnssClient`: the service has one Binder thread (`service.cpp`). `libflp` and `libgeofence` are no part of the tree, so batching and
  geofences are left out; a client is never destroyed, since the framework never calls what would. `setCallback(nullptr)` is not
  enumerated. A configuration is a value per item; the server has a host and a port, and without a host it is the value `NoHost`.
  `AGPS_CONFIG_INJECT` is taken to be on, and a C2K server without a host (`inet_aton(NULL)`) not to crash. Two configurations with a host name never
  compare equal, since the names are in blocks of their own (`AGnss.cpp:194`). The adapter is reduced to what its answers tell the client.
* `SystemStatus`: the data-item library is no part of the tree; `copy()` is taken to copy and to say whether it changed something. Of a
  report only the last entry is kept. `trimOrRemove` reads an iterator after erasing it; the entry is taken to be intact. The calls to the framework's object are
  recorded with their way, but a second call for the same item in the other way is not required, as the code does not make it. `turnOn`,
  `turnOff`, the backhaul and the XTRA throttle are left out, and so are the reports parsed from NMEA.
* `RilRequests`: one slot (slots 0 and 1 share a lock); of the 200 requests and 60 indications what they share. `onRequest` completes on a thread
  of the vendor, never before it returns. A token is not used again for another request.
* `RilWakeLock`: memory and mutex failures of `UserCallbackInfo` but for `grabFails`; file descriptors other than the pipe. A message is
  acknowledged at most once.
* `RilSap`: one slot; a completed answer decodes or does not, one that is empty crashes the process as the null pointer does; `uimFuncs`
  is there (the vendor's `Init` succeeded).
* Not claimed, because the code does not do it: that a timer never expires early (an expiry message pops the first timer
  without a look at its time, and the timer it was meant for may have been stopped); that sessions are served again after a restart
  of the modem whose `startFix` fails; that a session whose stop fails while its client is removed is ever stopped; that a
  request whose NI thread could not be created ends; that the timerfd is disarmed when the last timer is stopped
  (`updateSoonestTime(NULL)` on an empty heap returns early); that all emergency subscribers fall back when the DS
  client is exhausted (only the first does); that an emergency session which waits for the close of a connection
  is told of it when stale reports have made the machine ACQUIRED over a dead connection; that answers are told apart when
  an NI request has the number of a tracking session; that the client of an `updateSubscription` hears the items it keeps
  (`LocUnorderedSetMap::update` returns those that stay, and the observer unsubscribes them); that a wake lock is given back before
  version 13, where two threads may cancel each other's timers; that every SAP request is answered (without memory nobody is told).

## Known divergences

Places where a comment of the code says something else than the code does. They were met while modelling, and each property above is stated so
that it does not depend on them; they are not runs.

* `Agps.cpp:121`: a release during a DS retry is confirmed, but the subscriber stays, and the retry opens a data call for it; `Agps.h:135`
  says that a subscriber is deleted once it was notified.
* `Agps.cpp:255`: reports carry no attempt number. A late failure of a cancelled attempt denies the next one, whose connection then comes up for
  nobody; `Agps.cpp:140` says that a connection without subscribers is released.
* `LocHeap.h:84`: "find the node that ranks the same as the input data, then remove it". The code, and the comment at `LocHeap.cpp:166`, remove the
  node that holds the input itself, by address; an object that is not in the heap removes nothing and NULL is returned, though another of its rank is
  there. `RankedSet` states the latter, since `LocTimer.cpp:342` goes on to delete the object it gave; `ImplementsRankedSet` shows that the sentence of the header does not hold.
* `LocTimer.cpp:530`: the unlocked copy of `mClient` in `expire()` can outlive the client, which the comment at line 493 means to prevent.
* `MsgTask.cpp:69`: `destroy()` writes `mThread` after `msg_q_unblock`, when the thread may have deleted the MsgTask (`MsgTask.h:50`).
* `GnssAdapter.cpp:1891`: a response that is recorded after its request timed out stays, and the next request is answered with it (line 2379: "Reset the user response flag for the next session").
* `GnssAdapter.cpp:2402`: `niThreadProc` clears the id of its session after it gave the lock back, when the next request may be in the session already. Line 2457 then shows that request with id 0,
  as `LocationAPI.h:903` ("LOCATION_ERROR_ID_UNKNOWN if id does not match a gnssNiCallback") does not foresee: an ordinary and an emergency request may both be
  shown as 0, and the response to one be recorded for the other. `AnswerIsFromUser` excuses a request shown without its id.
* `Agps.cpp:208`: "Subscriber list should be empty if we are in released state". The DS machine stays in RELEASED with a subscriber when its data call could not
  be started (line 86); `PlainReleasedEmpty` claims it of the two other machines.
* `Gnss.cpp:164`: "update mPendingConfig with gnssConfig" (line 149), but the host name of a server is copied only in the place of another, and there is none at first. A
  server set before there is a client reaches the adapter without its host, which then clears the SUPL URL (`GnssAdapter.cpp:603`). `ConfigApplied` expects it so.
* `SystemStatus.cpp:1311`: a first network event that is a disconnection is recorded with the bit of its type set (`SystemStatus.h:495` collates later ones only);
  `ConnectionsFollow` says that such a type is told as connected until it is heard of again (`phantoms`).
* `SystemStatusOsObserver.cpp:114`: the framework is called only for items that are new to the map. An item that was first requested is never subscribed when another client
  subscribes to it, though `IDataItemSubscription.h:50` has a subscription extend the list. `FrameworkFollows` claims that an item was asked for, not in which way.
* `IDataItemSubscription.h:66`: after `updateSubscription` the list is to contain the new items only; the observer unsubscribes the client from the ones it keeps (next entry).
* `LocUnorderedSetMap.h`: `update` says that it returns the values removed, and returns those that stay.
* `ril_service.cpp`: the comment of `checkReturnStatus` says that the caller holds the read lock; `sendErrorResponse` calls a response function
  without it, and never takes the request out of the list. `nitzTimeReceivedInd` returns 0 also when the call failed.
* `ril.cpp:303`: `resendLastNITZTimeData` keeps its read lock if the data is gone (part of `LockLeaked`); the data is stored and freed under no common lock.
* `ril_service.cpp:3264`: `hangupForegroundResumeBackgroundResponse` calls the response of `hangupWaitingOrBackground`.
* `sap_service.cpp:128`: the payload is freed through a message that the completion may have freed; `sapCallback` is tested and read again.
* `sap_service.cpp:80`: the comment expects the client to call `setCallback` again; a thread that saw a call to the old one fail resets those of the new.

## Not modelled, and what is left

About 14% of the lines of the repository are mapped. Most of the rest holds no state of its own: `ril.h`, `loc_gps.h`, `gps_extended_c.h` and other
headers declare types and constants; about 260 functions of `ril_service.cpp` marshal one request or response each, and differ only in types;
NMEA, configuration files and debug reports are text; the camera, init and RIL shims are symbols for vendor binaries.

1. `LocApiBase`, `ContextBase` and `LocDualContext`: the adapter table, the union of event masks, engine up and down.
2. The rest of `GnssAdapter`: reports to clients, aiding data, the parts of the configuration that are answered collectively.
3. The fragments of `LocIpc`; `turnOn` and the backhaul of the OS observer.
