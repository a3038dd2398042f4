---------------------------- MODULE RilWakeLock ----------------------------
(***************************************************************************)
(* The wake lock of libril (ril.cpp) on top of its event loop              *)
(* (ril_event.cpp).  Messages to the framework take the lock; the          *)
(* acknowledgement of the framework or a timer gives it back.              *)
(*                                                                         *)
(* The Workers are the threads of the vendor and the one that serves the   *)
(* framework.  The event thread sleeps in select(), moves the expired      *)
(* timers to the pending list and calls them.  A worker that adds a timer  *)
(* writes to the wake-up pipe.  Clearing s_last_wake_timeout_info on the   *)
(* event thread takes no mutex.                                            *)
(*                                                                         *)
(* The names that RilRequests has too are others here, most begin with     *)
(* Wake: RilRequestsProofs extends both.                                   *)
(***************************************************************************)
EXTENDS Integers, SequencesExt

CONSTANTS
    Workers,     \* threads that send messages or add timers
    WakeDelay,   \* TIMEVAL_WAKE_TIMEOUT, in ticks
    MaxTimers,   \* bound: timers ever created
    MaxMessages  \* bound: messages that take the wake lock

ASSUME DelayAssumption == WakeDelay \in Nat
ASSUME WakeBoundsAssumption == MaxTimers \in Nat /\ MaxMessages \in Nat

Timers == 1 .. MaxTimers
Nil == 0               \* no timer, no owner of the mutex

\* A thread is never the mark of a free mutex.
ASSUME WorkersAssumption == Nil \notin Workers

Wakeup == 0            \* s_wakeupfd_event in the pending list
Forever == WakeDelay + 1

VARIABLES
    acked,     \* s_callbacks.version >= 13: messages are acknowledged
    held,      \* the partial wake lock of the kernel
    count,     \* s_wakelock_count
    last,      \* s_last_wake_timeout_info
    mutex,     \* who has s_wakeLockCountMutex
    info,      \* UserCallbackInfo of each timer
    created,   \* how many there are
    timers,    \* timer_list
    fire,      \* pending_list
    pipe,      \* the wake-up pipe has something to read
    pc,        \* where the event thread is
    current,   \* the timer whose callback it runs
    nap,       \* how long select() will still sleep
    ready,     \* select() found the pipe readable
    worker,    \* what the workers are doing
    sent,      \* messages so far
    owing      \* messages the framework has not acknowledged

loopVars == <<pc, current, nap, ready, fire>>
wakeLockVars == <<held, count, mutex>>
msgVars == <<sent, owing>>
wakeVars == <<acked, wakeLockVars, last, info, created, timers, pipe, loopVars, worker, msgVars>>

Free == [pc |-> "idle", new |-> Nil, old |-> Nil]
IdleWorker(w) == worker[w].pc = "idle"
SetWorker(w, r) == worker' = [worker EXCEPT ![w] = r]

NewInfo(wake, delay) ==
    [wake |-> wake, left |-> delay, cancelled |-> FALSE, freed |-> FALSE]

----------------------------------------------------------------------------
(* Timers *)

\* ril_timer_add: in front of the first timer that is not sooner.
insertTimer(i, delay) ==
    LET sooner == {k \in DOMAIN timers : info[timers[k]].left < delay}
    IN  InsertAt(timers, Cardinality(sooner) + 1, i)

\* internalRequestTimedCallback, up to the write to the pipe.
addTimer(wake, delay) ==
    /\ created < MaxTimers
    /\ created' = created + 1
    /\ info' = [info EXCEPT ![created + 1] = NewInfo(wake, delay)]
    /\ timers' = insertTimer(created + 1, delay)

\* userParam = 1: the timer will do nothing.  A freed one is written to in vain.
Cancelled(i) ==
    IF i = Nil \/ info[i].freed THEN info ELSE [info EXCEPT ![i].cancelled = TRUE]

----------------------------------------------------------------------------
(* Workers *)

\* grabPartialWakeLock takes the mutex and the lock, and adds a timer ...
grab(w) ==
    /\ acked /\ IdleWorker(w) /\ mutex = Nil /\ sent < MaxMessages
    /\ sent' = sent + 1
    /\ held' = TRUE
    /\ mutex' = w
    /\ addTimer(TRUE, WakeDelay)
    /\ SetWorker(w, [Free EXCEPT !.pc = "trigger", !.new = created + 1])
    /\ UNCHANGED <<acked, count, last, pipe, loopVars, owing>>

\* ... or finds no memory for one, and gives the lock back at once.
grabFails(w) ==
    /\ acked /\ IdleWorker(w) /\ mutex = Nil /\ sent < MaxMessages
    /\ sent' = sent + 1
    /\ held' = FALSE
    /\ owing' = owing + 1
    /\ UNCHANGED <<acked, count, last, mutex, info, created, timers, pipe, loopVars, worker>>

\* triggerEvLoop, and the test of s_last_wake_timeout_info that follows it.
trigger(w) ==
    /\ worker[w].pc = "trigger"
    /\ pipe' = TRUE
    /\ count' = IF acked THEN count + 1 ELSE count
    /\ SetWorker(w, [worker[w] EXCEPT !.pc = "cancel", !.old = last])
    /\ UNCHANGED <<acked, held, last, mutex, info, created, timers, loopVars, msgVars>>

\* The timer of the previous message is cancelled ...
cancelOld(w) ==
    /\ worker[w].pc = "cancel"
    /\ info' = Cancelled(worker[w].old)
    /\ SetWorker(w, [worker[w] EXCEPT !.pc = "setLast"])
    /\ UNCHANGED <<acked, wakeLockVars, last, created, timers, pipe, loopVars, msgVars>>

\* ... and the new one replaces it; then the message goes out.
setLast(w) ==
    /\ worker[w].pc = "setLast"
    /\ last' = worker[w].new
    /\ mutex' = Nil
    /\ owing' = owing + 1
    /\ SetWorker(w, Free)
    /\ UNCHANGED <<acked, held, count, info, created, timers, pipe, loopVars, sent>>

\* Mutant of releaseWakeLock. every acknowledgement cancels the timer.
releaseWakeLockCancels(w) ==
    /\ acked /\ IdleWorker(w) /\ mutex = Nil /\ owing > 0
    /\ owing' = owing - 1
    /\ IF count > 1
       THEN count' = count - 1 /\ UNCHANGED held /\ mutex' = w
            /\ SetWorker(w, [Free EXCEPT !.pc = "cancelLast", !.old = last])
       ELSE /\ count' = 0
            /\ held' = FALSE
            /\ mutex' = w
            /\ SetWorker(w, [Free EXCEPT !.pc = "cancelLast", !.old = last])
    /\ UNCHANGED <<acked, last, info, created, timers, pipe, loopVars, sent>>

\* releaseWakeLock, when the framework acknowledges a message.
releaseWakeLock(w) ==
    /\ acked /\ IdleWorker(w) /\ mutex = Nil /\ owing > 0
    /\ owing' = owing - 1
    /\ IF count > 1
       THEN count' = count - 1 /\ UNCHANGED <<held, mutex, worker>>
       ELSE /\ count' = 0
            /\ held' = FALSE
            /\ mutex' = w
            /\ SetWorker(w, [Free EXCEPT !.pc = "cancelLast", !.old = last])
    /\ UNCHANGED <<acked, last, info, created, timers, pipe, loopVars, sent>>

cancelLast(w) ==
    /\ worker[w].pc = "cancelLast"
    /\ info' = Cancelled(worker[w].old)
    /\ mutex' = Nil
    /\ SetWorker(w, Free)
    /\ UNCHANGED <<acked, held, count, last, created, timers, pipe, loopVars, msgVars>>

\* RIL_onUnsolicitedResponse of older vendors: take the lock, send the message ...
unsolicitedResponse(w) ==
    /\ ~acked /\ IdleWorker(w) /\ sent < MaxMessages
    /\ sent' = sent + 1
    /\ held' = TRUE
    /\ SetWorker(w, [Free EXCEPT !.pc = "schedule"])
    /\ UNCHANGED <<acked, count, mutex, last, info, created, timers, pipe, loopVars, owing>>

\* ... and add the timer, without a mutex; without memory the lock goes back.
schedule(w) ==
    /\ worker[w].pc = "schedule"
    /\ \/ /\ addTimer(TRUE, WakeDelay)
          /\ SetWorker(w, [worker[w] EXCEPT !.pc = "trigger", !.new = created + 1])
          /\ UNCHANGED held
       \/ /\ held' = FALSE
          /\ SetWorker(w, Free)
          /\ UNCHANGED <<info, created, timers>>
    /\ UNCHANGED <<acked, count, mutex, last, pipe, loopVars, msgVars>>

\* RIL_requestTimedCallback on a thread of the vendor.
requestTimedCallback(w) ==
    /\ IdleWorker(w)
    /\ \E delay \in {0, WakeDelay} : addTimer(FALSE, delay)
    /\ SetWorker(w, [Free EXCEPT !.pc = "wake"])
    /\ UNCHANGED <<acked, wakeLockVars, last, pipe, loopVars, msgVars>>

\* Mutant of wakeLoop. the loop is not woken.
wakeLoopNot(w) ==
    /\ worker[w].pc = "wake"
    /\ SetWorker(w, Free)
    /\ UNCHANGED <<acked, wakeLockVars, last, info, created, timers, pipe, loopVars, msgVars>>

wakeLoop(w) ==
    /\ worker[w].pc = "wake"
    /\ pipe' = TRUE
    /\ SetWorker(w, Free)
    /\ UNCHANGED <<acked, wakeLockVars, last, info, created, timers, loopVars, msgVars>>

workerStep(w) ==
    \/ trigger(w) \/ cancelOld(w) \/ setLast(w) \/ cancelLast(w)
    \/ schedule(w) \/ wakeLoop(w)

----------------------------------------------------------------------------
(* The event thread *)

\* Mutant of calcNextTimeout. a timer that is already late does not shorten the sleep.
calcNextTimeoutLate ==
    /\ pc = "calc"
    /\ nap' = IF timers = <<>> \/ info[Head(timers)].left <= 0 THEN Forever
              ELSE info[Head(timers)].left
    /\ pc' = "select"
    /\ UNCHANGED <<acked, wakeLockVars, last, info, created, timers, pipe, current, ready, fire, worker, msgVars>>

calcNextTimeout ==
    /\ pc = "calc"
    /\ nap' = IF timers = <<>> THEN Forever
              ELSE IF info[Head(timers)].left > 0 THEN info[Head(timers)].left ELSE 0
    /\ pc' = "select"
    /\ UNCHANGED <<acked, wakeLockVars, last, info, created, timers, pipe, current, ready, fire, worker, msgVars>>

selectReturns ==
    /\ pc = "select" /\ (pipe \/ nap = 0)
    /\ ready' = pipe
    /\ nap' = 0
    /\ pc' = "timeouts"
    /\ UNCHANGED <<acked, wakeLockVars, last, info, created, timers, pipe, current, fire, worker, msgVars>>

Expired(i) == info[i].left < 0

\* The timers at the front of the list that have expired go to the pending list ...
processTimeouts ==
    /\ pc = "timeouts"
    /\ LET due == SelectInSeq(Append(timers, Nil), LAMBDA i : i = Nil \/ ~Expired(i)) - 1
       IN  /\ fire' = SubSeq(timers, 1, due)
           /\ timers' = SubSeq(timers, due + 1, Len(timers))
    /\ pc' = "reads"
    /\ UNCHANGED <<acked, wakeLockVars, last, info, created, pipe, current, nap, ready, worker, msgVars>>

\* ... followed by what select() found readable.
processReadReadies ==
    /\ pc = "reads"
    /\ fire' = IF ready THEN Append(fire, Wakeup) ELSE fire
    /\ ready' = FALSE
    /\ pc' = "fire"
    /\ UNCHANGED <<acked, wakeLockVars, last, info, created, timers, pipe, current, nap, worker, msgVars>>

firePending ==
    /\ pc = "fire" /\ fire = <<>>
    /\ pc' = "calc"
    /\ UNCHANGED <<acked, wakeLockVars, last, info, created, timers, pipe, current, nap, ready, fire, worker, msgVars>>

processWakeupCallback ==
    /\ pc = "fire" /\ fire # <<>> /\ Head(fire) = Wakeup
    /\ pipe' = FALSE
    /\ fire' = Tail(fire)
    /\ UNCHANGED <<acked, wakeLockVars, last, info, created, timers, pc, current, nap, ready, worker, msgVars>>

\* userTimerCallback reads userParam when it calls wakeTimeoutCallback; a
\* callback of the vendor may ask for another timer, on this thread.
userTimerCallback ==
    /\ pc = "fire" /\ fire # <<>> /\ Head(fire) # Wakeup
    /\ current' = Head(fire)
    /\ fire' = Tail(fire)
    /\ pc' = IF info[current'].wake /\ ~info[current'].cancelled THEN "expire" ELSE "clear"
    /\ \/ UNCHANGED <<info, created, timers>>
       \/ ~info[current'].wake /\ addTimer(FALSE, WakeDelay)
    /\ UNCHANGED <<acked, wakeLockVars, last, pipe, nap, ready, worker, msgVars>>

wakeTimeoutCallback ==
    /\ pc = "expire" /\ (acked => mutex = Nil)
    /\ count' = 0
    /\ held' = FALSE
    /\ pc' = "clear"
    /\ UNCHANGED <<acked, mutex, last, info, created, timers, pipe, current, nap, ready, fire, worker, msgVars>>

testLast ==
    /\ pc = "clear"
    /\ pc' = IF last = current THEN "unset" ELSE "free"
    /\ UNCHANGED <<acked, wakeLockVars, last, info, created, timers, pipe, current, nap, ready, fire, worker, msgVars>>

clearLast ==
    /\ pc = "unset"
    /\ last' = Nil
    /\ pc' = "free"
    /\ UNCHANGED <<acked, wakeLockVars, info, created, timers, pipe, current, nap, ready, fire, worker, msgVars>>

freeInfo ==
    /\ pc = "free"
    /\ info' = [info EXCEPT ![current] = [NewInfo(FALSE, 0) EXCEPT !.freed = TRUE]]
    /\ current' = Nil
    /\ pc' = "fire"
    /\ UNCHANGED <<acked, wakeLockVars, last, created, timers, pipe, nap, ready, fire, worker, msgVars>>

eventLoop ==
    \/ calcNextTimeout \/ selectReturns \/ processTimeouts \/ processReadReadies
    \/ firePending \/ processWakeupCallback \/ userTimerCallback
    \/ wakeTimeoutCallback \/ testLast \/ clearLast \/ freeInfo

\* CLOCK_MONOTONIC: what is left of timers in the list and of the sleep.
tick ==
    LET Left(i) == IF i \in ToSet(timers) /\ info[i].left >= 0 THEN info[i].left - 1 ELSE info[i].left
    IN  /\ info' = [i \in Timers |-> [info[i] EXCEPT !.left = Left(i)]]
        /\ nap' = IF pc = "select" /\ nap \in 1 .. WakeDelay THEN nap - 1 ELSE nap
        /\ UNCHANGED <<acked, wakeLockVars, last, created, timers, pipe, pc, current, ready, fire, worker, msgVars>>

----------------------------------------------------------------------------

WakeInit ==
    /\ acked \in BOOLEAN
    /\ held = FALSE /\ count = 0 /\ last = Nil /\ mutex = Nil
    /\ info = [i \in Timers |-> NewInfo(FALSE, 0)]
    /\ created = 0 /\ timers = <<>> /\ fire = <<>>
    /\ pipe = FALSE
    /\ pc = "calc" /\ current = Nil /\ nap = 0 /\ ready = FALSE
    /\ worker = [w \in Workers |-> Free]
    /\ sent = 0 /\ owing = 0

WakeNext ==
    \/ \E w \in Workers :
          \/ grab(w) \/ grabFails(w) \/ releaseWakeLock(w)
          \/ unsolicitedResponse(w) \/ requestTimedCallback(w)
          \/ workerStep(w)
    \/ eventLoop
    \/ tick

WakeSpec == WakeInit /\ [][WakeNext]_wakeVars

\* Every thread runs and the clock advances; the framework need not acknowledge.
FairWakeSpec ==
    /\ WakeSpec
    /\ \A w \in Workers : WF_wakeVars(workerStep(w))
    /\ WF_wakeVars(eventLoop) /\ WF_wakeVars(tick)

----------------------------------------------------------------------------
(* Properties *)

WakeTypeOK ==
    /\ acked \in BOOLEAN /\ held \in BOOLEAN /\ count \in 0 .. MaxMessages
    /\ last \in Timers \cup {Nil} /\ current \in Timers \cup {Nil}
    /\ mutex \in Workers \cup {Nil}
    /\ timers \in Seq(1 .. created) /\ fire \in Seq(0 .. created)
    /\ nap \in 0 .. Forever /\ pipe \in BOOLEAN /\ ready \in BOOLEAN
    /\ sent \in 0 .. MaxMessages /\ owing \in 0 .. sent

\* A timer that will still release the wake lock.
WillRelease(i) ==
    /\ info[i].wake
    /\ \/ i \in ToSet(timers) \cup ToSet(fire) /\ ~info[i].cancelled
       \/ i = current /\ pc = "expire"

\* The wake lock never stays behind: while it is held and no worker is at it, a
\* timer that has not been cancelled will release it.  Without acknowledgements
\* two threads may cancel each other's timers, which no mutex prevents.
HeldIsGuarded ==
    acked /\ held /\ (\A w \in Workers : worker[w].pc \in {"idle", "wake"})
        => \E i \in 1 .. created : WillRelease(i)

\* With acknowledgements: once the framework has acknowledged all, the lock is free.
AllAckedIsFree == acked /\ owing = 0 /\ mutex = Nil => ~held

\* A select() that sleeps longer than a timer has left will be woken by the pipe:
\* calcNextTimeout reads the list without its mutex, then the loop goes to sleep.
NoTimerOverslept ==
    pc = "select" /\ (\A w \in Workers : worker[w].pc \notin {"trigger", "wake"})
        => pipe \/ \A i \in ToSet(timers) : info[i].left >= 0 => nap <= info[i].left

\* The loop never calls a timer whose UserCallbackInfo was freed.
FiredOnce == \A i \in 1 .. created : info[i].freed => i \notin ToSet(timers) \cup ToSet(fire) \cup {current}

\* Every timer is called in the end.
TimerFires == \A i \in Timers : i <= created ~> info[i].freed

\* The wake lock is released in the end, acknowledged or not.
WakeEnds == acked /\ held ~> ~held

\* The wake lock is held no longer than somebody will release it.
WakeLockGuarded == WakeTypeOK /\ HeldIsGuarded /\ AllAckedIsFree

\* No timer is slept over, or called after its end.
TimersKept == NoTimerOverslept /\ FiredOnce

\* Timers are called and the wake lock is released.
EventsEnd == TimerFires /\ WakeEnds
=============================================================================
