------------------------------ MODULE LocTimer ------------------------------
(***************************************************************************)
(* The timer service of gps/utils/LocTimer.cpp: LocTimer objects, their    *)
(* LocTimerDelegates, one LocTimerContainer (heap and timerfd), the poll   *)
(* thread and the MsgTask thread.  A client thread may call start(),       *)
(* stop() and delete a LocTimer at any time, each under the LocTimer's own *)
(* lock; LocTimerDelegate::expire() takes that lock only inside stop().    *)
(*                                                                         *)
(* One container is modelled (the alarm container shares only the threads).*)
(* The heap is the set of its delegates and its top, with the behaviour    *)
(* that RankedSet promises and LocHeap implements: among delegates that    *)
(* expire at the same time any may be the top.                             *)
(***************************************************************************)
EXTENDS Naturals, Sequences

CONSTANTS
  Clients,     \* LocTimer objects
  Deletable,   \* the ones their owner may delete
  MaxStarts,   \* bound: successful calls of start()
  MaxTime,     \* bound: the clock stops here
  NoClient     \* NULL

ASSUME ClientsAssumption == Deletable \subseteq Clients /\ NoClient \notin Clients
ASSUME BoundsAssumption  == MaxStarts \in Nat /\ MaxTime \in Nat \ {0}

Delegates == 1..MaxStarts
NULL      == 0                \* no delegate; as a time, a disarmed timerfd
Times     == 1..MaxTime

VARIABLES
  now,          \* CLOCK_BOOTTIME
  mTimer,       \* [Clients -> Delegates \cup {NULL}], LocTimer::mTimer
  alive,        \* the LocTimer objects not deleted
  starts,       \* delegates created so far
  mClient,      \* [Delegates -> Clients \cup {NoClient}]
  mFutureTime,  \* [Delegates -> Times \cup {NULL}]
  deleted,      \* delegates whose memory is freed
  mTree,        \* the delegates in the heap
  top,          \* the one at its root, getSoonestTimer()
  armed,        \* time the timerfd is set to
  polled,       \* the timerfd is in the epoll set
  pollPc,       \* the poll thread
  queue,        \* messages of the MsgTask
  msgPc,        \* the MsgTask thread
  timerOfNow,   \* MsgTimerExpire::proc, time read at its start
  client,       \* LocTimerDelegate::expire, its copy of mClient
  outcome       \* [Delegates -> Outcomes], how a start() ended

clientVars == <<mTimer, alive, starts, mClient, mFutureTime>>
heap       == <<mTree, top>>
fdVars     == <<armed, polled>>
procVars   == <<msgPc, timerOfNow, client>>
vars == <<now, clientVars, deleted, heap, fdVars, pollPc, queue, procVars, outcome>>

Outcomes == {"none", "running", "stopped", "expired"}
Msg      == [proc : {"push", "remove"}, timer : Delegates] \cup [proc : {"expire"}]

MsgTimerPush(d)   == [proc |-> "push", timer |-> d]
MsgTimerRemove(d) == [proc |-> "remove", timer |-> d]
MsgTimerExpire    == [proc |-> "expire"]

-----------------------------------------------------------------------------
(* The heap.                                                               *)

(* LocTimerDelegate::ranks: the sooner one outranks.                       *)
outRanks(d, e) == mFutureTime[d] < mFutureTime[e]

(* The delegates that may be at the top of a heap.                         *)
Tops(tree) == IF tree = {} THEN {NULL}
              ELSE {d \in tree : \A e \in tree : ~outRanks(e, d)}

(* LocHeap::push and the removal of a delegate by pop or remove.           *)
heapPush(d) ==
  /\ mTree' = mTree \cup {d}
  /\ top' = IF top = NULL \/ outRanks(d, top) THEN d ELSE top

heapTake(d) ==
  /\ mTree' = mTree \ {d}
  /\ top' \in IF d = top THEN Tops(mTree') ELSE {top}

updateOnlyIfSooner(prior) ==   \* mutant: a heap that was empty is left unarmed
  IF top' # NULL /\ prior # NULL /\ outRanks(top', prior)
  THEN polled' = TRUE /\ msgPc' = "settime"
  ELSE UNCHANGED polled /\ msgPc' = "idle"

(* updateSoonestTime(prior) on the new heap, up to addPoll; the            *)
(* timerfd_settime call follows as a step of its own.  With both tops NULL *)
(* it does nothing.                                                        *)
updateSoonestTime(prior) ==
  IF top' # NULL /\ (prior = NULL \/ outRanks(top', prior))
  THEN polled' = TRUE /\ msgPc' = "settime"
  ELSE UNCHANGED polled /\ msgPc' = "idle"

-----------------------------------------------------------------------------
(* Client threads.                                                         *)

destroyKeepsTimer(c, q, how) ==   \* mutant: mTimer keeps its pointer
  /\ mTimer' = mTimer
  /\ mClient' = [mClient EXCEPT ![mTimer[c]] = NoClient]
  /\ queue' = Append(q, MsgTimerRemove(mTimer[c]))
  /\ outcome' = [outcome EXCEPT ![mTimer[c]] = how]

(* destroyLocked of the delegate of c, with the outcome its start() gets;  *)
(* the message goes behind q.                                              *)
destroyLocked(c, q, how) ==
  /\ mTimer' = [mTimer EXCEPT ![c] = NULL]
  /\ mClient' = [mClient EXCEPT ![mTimer[c]] = NoClient]
  /\ queue' = Append(q, MsgTimerRemove(mTimer[c]))
  /\ outcome' = [outcome EXCEPT ![mTimer[c]] = how]

(* The absolute time a delegate expires at.                                *)
futureTime(delay) == now + delay

(* LocTimer::start: a new delegate, pushed by message.                     *)
start(c, delay) ==
  /\ c \in alive /\ mTimer[c] = NULL
  /\ starts < MaxStarts /\ now + delay <= MaxTime
  /\ starts' = starts + 1
  /\ mTimer' = [mTimer EXCEPT ![c] = starts']
  /\ mClient' = [mClient EXCEPT ![starts'] = c]
  /\ mFutureTime' = [mFutureTime EXCEPT ![starts'] = futureTime(delay)]
  /\ outcome' = [outcome EXCEPT ![starts'] = "running"]
  /\ queue' = Append(queue, MsgTimerPush(starts'))
  /\ UNCHANGED <<now, alive, deleted, heap, fdVars, pollPc, procVars>>

(* LocTimer::stop by a client, when it returns true.                       *)
stop(c) ==
  /\ c \in alive /\ mTimer[c] # NULL
  /\ destroyLocked(c, queue, "stopped")
  /\ UNCHANGED <<now, alive, starts, mFutureTime, deleted, heap, fdVars, pollPc, procVars>>

(* LocTimer::~LocTimer: stop(), then the object is gone.                   *)
deleteLocTimer(c) ==
  /\ c \in alive \cap Deletable
  /\ alive' = alive \ {c}
  /\ IF mTimer[c] # NULL THEN destroyLocked(c, queue, "stopped")
                         ELSE UNCHANGED <<mTimer, mClient, queue, outcome>>
  /\ UNCHANGED <<now, starts, mFutureTime, deleted, heap, fdVars, pollPc, procVars>>

-----------------------------------------------------------------------------
(* LocTimerPollTask::run: epoll_wait, then LocTimerContainer::expire.      *)

pollVars == <<now, clientVars, deleted, heap, procVars, outcome>>

epollWait ==
  /\ pollPc = "wait"
  /\ polled /\ armed # NULL /\ armed <= now
  /\ pollPc' = "disarm"
  /\ UNCHANGED <<pollVars, fdVars, queue>>

pollDisarm ==
  /\ pollPc = "disarm"
  /\ armed' = NULL
  /\ pollPc' = "removePoll"
  /\ UNCHANGED <<pollVars, polled, queue>>

pollRemove ==
  /\ pollPc = "removePoll"
  /\ polled' = FALSE
  /\ pollPc' = "send"
  /\ UNCHANGED <<pollVars, armed, queue>>

pollSend ==
  /\ pollPc = "send"
  /\ queue' = Append(queue, MsgTimerExpire)
  /\ pollPc' = "wait"
  /\ UNCHANGED <<pollVars, fdVars>>

-----------------------------------------------------------------------------
(* The MsgTask thread.                                                     *)

Received(m) == msgPc = "idle" /\ queue # <<>> /\ Head(queue).proc = m

procPush ==
  /\ Received("push")
  /\ heapPush(Head(queue).timer)
  /\ updateSoonestTime(top)
  /\ queue' = Tail(queue)
  /\ UNCHANGED <<now, clientVars, deleted, armed, pollPc, timerOfNow, client, outcome>>

(* LocHeap::remove returns NULL for a delegate that is not there, which is *)
(* also the top of an empty heap.                                          *)
procRemove ==
  /\ Received("remove")
  /\ LET d       == Head(queue).timer
         removed == IF d \in mTree THEN d ELSE NULL
     IN  /\ heapTake(d)
         /\ IF top = removed
            THEN updateSoonestTime(NULL)
            ELSE UNCHANGED <<polled, msgPc>>
         /\ deleted' = deleted \cup {d}
  /\ queue' = Tail(queue)
  /\ UNCHANGED <<now, clientVars, armed, pollPc, timerOfNow, client, outcome>>

settime ==
  /\ msgPc = "settime"
  /\ armed' = mFutureTime[top]
  /\ msgPc' = "idle"
  /\ UNCHANGED <<now, clientVars, deleted, heap, polled, pollPc, queue, timerOfNow, client,
                 outcome>>

popAndForget ==   \* mutant: the client is not stopped
  /\ heapTake(top)
  /\ client' = mClient[top]
  /\ msgPc' = "next"
  /\ UNCHANGED polled

(* Pop the top and begin its expire(): without a client there is nothing   *)
(* more to do with it.                                                     *)
popAndExpire ==
  /\ heapTake(top)
  /\ client' = mClient[top]
  /\ msgPc' = IF client' = NoClient THEN "next" ELSE "stop"
  /\ UNCHANGED polled

(* MsgTimerExpire::proc: the first pop is unconditional.                   *)
procExpire ==
  /\ Received("expire")
  /\ queue' = Tail(queue)
  /\ timerOfNow' = now
  /\ IF mTree # {}
     THEN popAndExpire
     ELSE UNCHANGED <<heap, client>> /\ updateSoonestTime(NULL)
  /\ UNCHANGED <<now, clientVars, deleted, armed, pollPc, outcome>>

(* popIfOutRanks, and updateSoonestTime when the loop ends.                *)
expireNext ==
  /\ msgPc = "next"
  /\ IF mTree # {} /\ mFutureTime[top] <= timerOfNow
     THEN popAndExpire
     ELSE UNCHANGED <<heap, client>> /\ updateSoonestTime(NULL)
  /\ UNCHANGED <<now, clientVars, deleted, armed, pollPc, queue, timerOfNow, outcome>>

(* client->stop() in LocTimerDelegate::expire.  On a deleted client it     *)
(* locks a freed mutex: the process dies.                                  *)
expireStop ==
  /\ msgPc = "stop"
  /\ IF client \notin alive
     THEN /\ msgPc' = "crashed"
          /\ UNCHANGED <<mTimer, mClient, queue, outcome>>
     ELSE IF mTimer[client] # NULL
     THEN /\ destroyLocked(client, queue, "expired")
          /\ msgPc' = "callback"
     ELSE /\ msgPc' = "next"
          /\ UNCHANGED <<mTimer, mClient, queue, outcome>>
  /\ UNCHANGED <<now, alive, starts, mFutureTime, deleted, heap, fdVars, pollPc, timerOfNow,
                 client>>

(* client->timeOutCallback().                                              *)
timeOutCallback ==
  /\ msgPc = "callback"
  /\ msgPc' = IF client \in alive THEN "next" ELSE "crashed"
  /\ UNCHANGED <<now, clientVars, deleted, heap, fdVars, pollPc, queue, timerOfNow, client,
                 outcome>>

tick ==
  /\ now < MaxTime
  /\ now' = now + 1
  /\ UNCHANGED <<clientVars, deleted, heap, fdVars, pollPc, queue, procVars, outcome>>

-----------------------------------------------------------------------------
Init ==
  /\ now = 1
  /\ mTimer = [c \in Clients |-> NULL]
  /\ alive = Clients
  /\ starts = 0
  /\ mClient = [d \in Delegates |-> NoClient]
  /\ mFutureTime = [d \in Delegates |-> NULL]
  /\ deleted = {}
  /\ mTree = {} /\ top = NULL
  /\ armed = NULL /\ polled = FALSE
  /\ pollPc = "wait"
  /\ queue = <<>>
  /\ msgPc = "idle" /\ timerOfNow = NULL /\ client = NoClient
  /\ outcome = [d \in Delegates |-> "none"]

PollThread == epollWait \/ pollDisarm \/ pollRemove \/ pollSend
MsgThread  == \/ procPush \/ procRemove \/ settime
              \/ procExpire \/ expireNext \/ expireStop \/ timeOutCallback

Next ==
  \/ \E c \in Clients : stop(c) \/ deleteLocTimer(c) \/ \E delay \in Times : start(c, delay)
  \/ epollWait \/ pollDisarm \/ pollRemove \/ pollSend
  \/ procPush \/ procRemove \/ settime
  \/ procExpire \/ expireNext \/ expireStop \/ timeOutCallback
  \/ tick

(* Time passes and both threads of the service run.                        *)
Fairness == WF_vars(tick) /\ WF_vars(PollThread) /\ WF_vars(MsgThread)

Spec     == Init /\ [][Next]_vars
FairSpec == Spec /\ Fairness

-----------------------------------------------------------------------------
(* Every variable has its type; in particular a timer is never given a     *)
(* time beyond the longest time-out (LocTimer::start).                     *)
TypeOK ==
  /\ now \in Times
  /\ mTimer \in [Clients -> Delegates \cup {NULL}]
  /\ alive \subseteq Clients
  /\ starts \in 0..MaxStarts
  /\ mClient \in [Delegates -> Clients \cup {NoClient}]
  /\ mFutureTime \in [Delegates -> Times \cup {NULL}]
  /\ deleted \subseteq Delegates
  /\ mTree \subseteq Delegates /\ top \in Tops(mTree)
  /\ armed \in Times \cup {NULL}
  /\ polled \in BOOLEAN
  /\ pollPc \in {"wait", "disarm", "removePoll", "send"}
  /\ queue \in Seq(Msg)
  /\ msgPc \in {"idle", "settime", "next", "stop", "callback", "crashed"}
  /\ timerOfNow \in Times \cup {NULL}
  /\ client \in Clients \cup {NoClient}
  /\ outcome \in [Delegates -> Outcomes]

(* "all timers are deleted here, and only here" (MsgTimerRemove): no       *)
(* pointer the service will still follow is to a freed delegate, and none  *)
(* is freed twice.                                                         *)
NoDanglingDelegate ==
  /\ mTree \cap deleted = {}
  /\ \A c \in Clients : mTimer[c] \notin deleted
  /\ \A i \in DOMAIN queue : queue[i].proc # "expire" => queue[i].timer \notin deleted
  /\ \A i, j \in DOMAIN queue : i # j /\ queue[i].proc # "expire" => queue[i] # queue[j]

(* A started timer stays reachable: the delegate is with its client, and   *)
(* in the heap or on its way there.                                        *)
RunningIsQueued ==
  \A d \in Delegates : outcome[d] = "running" =>
    /\ mClient[d] \in alive /\ mTimer[mClient[d]] = d
    /\ \/ d \in mTree
       \/ \E i \in DOMAIN queue : queue[i] = MsgTimerPush(d)
       \/ msgPc = "stop" /\ client = mClient[d]

(* The timerfd cannot miss the soonest timer, whatever the poll thread's   *)
(* disarm and removePoll overtake: it is armed in time and polled, or the  *)
(* poll thread or the MsgTask is about to look at the heap again.          *)
SoonestIsArmed ==
  mTree # {} =>
    \/ polled /\ armed # NULL /\ armed <= mFutureTime[top]
    \/ pollPc # "wait"
    \/ msgPc # "idle"
    \/ \E i \in DOMAIN queue : queue[i].proc = "expire"

(* A call of stop() that returned true, or an expiry, is final: a start()  *)
(* is reported at most once, and never after it was stopped.               *)
OutcomeIsFinal ==
  [][\A d \in Delegates : outcome[d] \in {"stopped", "expired"} => outcome'[d] = outcome[d]]_vars

(* Every timer that is started expires or is stopped, unless the process   *)
(* dies in the callback of a deleted client.                               *)
TimerEnds ==
  \A d \in Delegates : outcome[d] = "running" ~> outcome[d] # "running" \/ msgPc = "crashed"

(* No delegate leaks: each one is deleted after its timer has ended.       *)
DelegateFreed ==
  \A d \in Delegates :
    outcome[d] \in {"stopped", "expired"} ~> d \in deleted \/ msgPc = "crashed"

\* A running timer is in the heap or about to be, its delegate lives, and the timerfd is
\* armed for the soonest.
TimersTracked == TypeOK /\ NoDanglingDelegate /\ RunningIsQueued /\ SoonestIsArmed

\* Timers end, and their delegates with them.
TimersEnd == TimerEnds /\ DelegateFreed
=============================================================================
