---------------------------- MODULE RilRequests ----------------------------
(***************************************************************************)
(* Requests, answers and indications of one slot of libril (ril.cpp,       *)
(* ril_service.cpp): the list of pending requests, the callbacks of the    *)
(* framework behind the read-write lock of the slot, their loss when the   *)
(* framework dies, and the NITZ time kept for a framework to come.         *)
(*                                                                         *)
(* The Binder thread (there is one, registerService asks for no more)      *)
(* serves the framework, the Vendors threads call back.  A thread that     *)
(* calls the framework walks through "lock", "call", and, when the call    *)
(* finds the framework dead, "check", "reset" and "relock".                *)
(***************************************************************************)
EXTENDS Naturals, FiniteSets

CONSTANTS
    Serials,     \* the requests the framework makes
    Vendors,     \* threads of the vendor library
    Binder,      \* the thread that serves the framework
    MaxClients,  \* bound: how often the framework starts
    MaxNews      \* bound: unsolicited messages of the vendor

ASSUME BoundsAssumption == MaxClients \in Nat /\ MaxNews \in Nat

None == 0  \* no process, no callbacks, no NITZ data, no lock owner
Threads == Vendors \cup {Binder}

ASSUME ThreadsAssumption == Binder \notin Vendors /\ None \notin Threads /\ IsFiniteSet(Vendors)

VARIABLES
    alive,       \* the running framework, by number, or None
    started,     \* how many frameworks have run
    proxy,       \* mRadioResponse, mRadioIndication: whose callbacks, or None
    counter,     \* mCounterRadio
    readers,     \* read locks on radioServiceRwlock
    writer,      \* the thread with the write lock, or None
    th,          \* what each thread is doing
    requested,   \* requests the framework has made
    pending,     \* s_pendingRequests
    given,       \* requests handed to the vendor's onRequest
    wasAckSent,  \* requests acknowledged
    answers,     \* calls of the response function, per request
    news,        \* unsolicited messages so far
    lastNitz,    \* s_lastNITZTimeData: the number of the message, or None
    heard        \* NITZ messages that reached a framework, how often

clientVars == <<alive, started>>
lockVars == <<readers, writer>>
requestVars == <<requested, pending, given, wasAckSent>>
nitzVars == <<news, lastNitz>>
vars == <<clientVars, proxy, counter, lockVars, th, requestVars, answers, nitzVars, heard>>

\* A thread at pc, for what it calls the framework, about which request or message.
Doing(pc, job, of) == [pc |-> pc, job |-> job, of |-> of, cnt |-> 0, ret |-> 0]
Idle == Doing("idle", "none", None)
Calling(job, of) == Doing("lock", job, of)
Jobs == {"ack", "answer", "error", "news", "nitz", "connected", "radioState", "resend"}

IdleThread(t) == th[t].pc = "idle"
SetThread(t, r) == th' = [th EXCEPT ![t] = r]
Goto(t, pc) == th' = [th EXCEPT ![t].pc = pc]

----------------------------------------------------------------------------
(* The read-write lock *)

CanRead == writer = None
CanWrite == writer = None /\ readers = 0

readLock == CanRead /\ readers' = readers + 1 /\ UNCHANGED writer

\* pthread_rwlock_unlock: gives up the write lock of its caller, else a read
\* lock, whoever took it; with neither it fails, and the assert is compiled out.
unlockBy(t) ==
    /\ writer' = IF writer = t THEN None ELSE writer
    /\ readers' = IF writer = None /\ readers > 0 THEN readers - 1 ELSE readers

----------------------------------------------------------------------------
(* The framework *)

clientStart ==
    /\ alive = None /\ started < MaxClients
    /\ started' = started + 1
    /\ alive' = started + 1
    /\ UNCHANGED <<proxy, counter, lockVars, th, requestVars, answers, nitzVars, heard>>

clientDies ==
    /\ alive # None
    /\ alive' = None
    /\ UNCHANGED <<started, proxy, counter, lockVars, th, requestVars, answers, nitzVars, heard>>

\* RadioImpl::x: the request enters the list and goes to the vendor.
dispatch(s) ==
    /\ alive # None /\ IdleThread(Binder) /\ s \notin requested
    /\ requested' = requested \cup {s}
    /\ pending' = pending \cup {s}
    /\ given' = given \cup {s}
    /\ UNCHANGED <<clientVars, proxy, counter, lockVars, th, wasAckSent, answers, nitzVars, heard>>

\* Arguments that cannot be converted, or a request older vendors do not know:
\* sendErrorResponse answers without a lock, and the request stays in the list.
refuse(s) ==
    /\ alive # None /\ IdleThread(Binder) /\ s \notin requested
    /\ requested' = requested \cup {s}
    /\ pending' = pending \cup {s}
    /\ SetThread(Binder, Doing("call", "error", s))
    /\ UNCHANGED <<clientVars, proxy, counter, lockVars, given, wasAckSent, answers, nitzVars, heard>>

\* addRequestToList has no memory: the request is gone, and nobody is told.
drop(s) ==
    /\ alive # None /\ IdleThread(Binder) /\ s \notin requested
    /\ requested' = requested \cup {s}
    /\ UNCHANGED <<clientVars, proxy, counter, lockVars, th, pending, given, wasAckSent, answers, nitzVars, heard>>

setResponseFunctions ==
    /\ alive # None /\ IdleThread(Binder) /\ proxy # alive
    /\ SetThread(Binder, Doing("set", "none", alive))
    /\ UNCHANGED <<clientVars, proxy, counter, lockVars, requestVars, answers, nitzVars, heard>>

\* The write-locked part, after which onNewCommandConnect begins.
replaceCallbacks ==
    /\ th[Binder].pc = "set" /\ CanWrite
    /\ proxy' = th[Binder].of
    /\ counter' = counter + 1
    /\ SetThread(Binder, Calling("connected", None))
    /\ UNCHANGED <<clientVars, lockVars, requestVars, answers, nitzVars, heard>>

\* onNewCommandConnect looks at s_lastNITZTimeData before it takes the lock.
testNitz ==
    /\ th[Binder].pc = "test"
    /\ SetThread(Binder, IF lastNitz = None THEN Idle ELSE Calling("resend", None))
    /\ UNCHANGED <<clientVars, proxy, counter, lockVars, requestVars, answers, nitzVars, heard>>

----------------------------------------------------------------------------
(* The vendor *)

\* A request that is not in the list is an "invalid RIL_Token".  The vendor
\* acknowledges a request once.
requestAck(v, s) ==
    /\ IdleThread(v) /\ s \in given \ wasAckSent /\ s \in pending
    /\ wasAckSent' = wasAckSent \cup {s}
    /\ SetThread(v, Calling("ack", s))
    /\ UNCHANGED <<clientVars, proxy, counter, lockVars, requested, pending, given, answers, nitzVars, heard>>

\* Mutant of requestComplete. The completion leaves the request in the list, as an acknowledgement does.
requestCompleteKept(v, s) ==
    /\ IdleThread(v) /\ s \in given /\ s \in pending
    /\ SetThread(v, Calling("answer", s))
    /\ UNCHANGED <<clientVars, proxy, counter, lockVars, requestVars, answers, nitzVars, heard>>

\* Mutant of requestComplete. The completion of an acknowledged request is taken for a late acknowledgement.
requestCompleteLost(v, s) ==
    /\ IdleThread(v) /\ s \in given /\ s \in pending
    /\ \A u \in Vendors : th[u].job = "ack" => th[u].of # s
    /\ pending' = pending \ {s}
    /\ SetThread(v, IF s \in wasAckSent THEN Idle ELSE Calling("answer", s))
    /\ UNCHANGED <<clientVars, proxy, counter, lockVars, requested, given, wasAckSent, answers, nitzVars, heard>>

\* The vendor does not complete a request while it acknowledges it.
requestComplete(v, s) ==
    /\ IdleThread(v) /\ s \in given /\ s \in pending
    /\ \A u \in Vendors : th[u].job = "ack" => th[u].of # s
    /\ pending' = pending \ {s}
    /\ SetThread(v, Calling("answer", s))
    /\ UNCHANGED <<clientVars, proxy, counter, lockVars, requested, given, wasAckSent, answers, nitzVars, heard>>

unsolicited(v) ==
    /\ IdleThread(v) /\ news < MaxNews
    /\ news' = news + 1
    /\ \/ SetThread(v, Calling("news", None))
       \/ SetThread(v, Calling("nitz", news + 1))
    /\ UNCHANGED <<clientVars, proxy, counter, lockVars, requestVars, answers, lastNitz, heard>>

\* No framework has taken the NITZ time: what was kept is freed ...
freeNitz(v) ==
    /\ th[v].pc = "store"
    /\ lastNitz' = None
    /\ Goto(v, "keep")
    /\ UNCHANGED <<clientVars, proxy, counter, lockVars, requestVars, answers, news, heard>>

\* ... and this one kept, if there is memory.  The lock is released already.
keepNitz(v) ==
    /\ th[v].pc = "keep"
    /\ \E memory \in BOOLEAN : lastNitz' = IF memory THEN th[v].of ELSE lastNitz
    /\ SetThread(v, Idle)
    /\ UNCHANGED <<clientVars, proxy, counter, lockVars, requestVars, answers, news, heard>>

----------------------------------------------------------------------------
(* A call of the framework, by any thread *)

lock(t) ==
    /\ th[t].pc = "lock"
    /\ IF th[t].job = "nitz"
       THEN CanWrite /\ writer' = t /\ UNCHANGED readers
       ELSE readLock
    /\ Goto(t, "call")
    /\ UNCHANGED <<clientVars, proxy, counter, requestVars, answers, nitzVars, heard>>

\* What the call of the framework comes to: without callbacks nothing is done, a
\* call of a dead framework fails and its status is looked at.
Called(t, ret) ==
    th' = [th EXCEPT ![t].pc = IF proxy \in {None, alive} THEN "unlock" ELSE "check", ![t].ret = ret]

\* acknowledgeRequest and the functions xResponse.
respond(t) ==
    /\ th[t].pc = "call" /\ th[t].job \in {"ack", "answer", "error"}
    /\ Called(t, 0)
    /\ answers' = IF th[t].job = "ack" THEN answers ELSE [answers EXCEPT ![th[t].of] = @ + 1]
    /\ UNCHANGED <<clientVars, proxy, counter, lockVars, requestVars, nitzVars, heard>>

\* The functions xInd of everything but NITZ.
indicate(t) ==
    /\ th[t].pc = "call" /\ th[t].job \in {"news", "connected", "radioState"}
    /\ Called(t, 0)
    /\ UNCHANGED <<clientVars, proxy, counter, lockVars, requestVars, answers, nitzVars, heard>>

\* The NITZ message that t is about.
NitzOf(t) == IF th[t].job = "resend" THEN lastNitz ELSE th[t].of

\* The one indication that tells whether there was somebody to call.
nitzTimeReceivedInd(t) ==
    /\ th[t].pc = "call"
    /\ th[t].job = "nitz" \/ (th[t].job = "resend" /\ lastNitz # None)
    /\ Called(t, IF proxy = None THEN 1 ELSE 0)
    /\ heard' = IF proxy # None /\ proxy = alive
                THEN [heard EXCEPT ![NitzOf(t)] = @ + 1] ELSE heard
    /\ UNCHANGED <<clientVars, proxy, counter, lockVars, requestVars, answers, nitzVars>>

\* resendLastNITZTimeData releases its read lock only if it found the data.
resendNothing(t) ==
    /\ th[t].pc = "call" /\ th[t].job = "resend" /\ lastNitz = None
    /\ SetThread(t, Idle)
    /\ UNCHANGED <<clientVars, proxy, counter, lockVars, requestVars, answers, nitzVars, heard>>

\* checkReturnStatus of a failed call: note the counter, give up the lock ...
checkReturnStatus(t) ==
    /\ th[t].pc = "check"
    /\ unlockBy(t)
    /\ th' = [th EXCEPT ![t].pc = "reset", ![t].cnt = counter]
    /\ UNCHANGED <<clientVars, proxy, counter, requestVars, answers, nitzVars, heard>>

\* Mutant of resetCallbacks. The callbacks are reset without a look at the counter.
resetAlways(t) ==
    /\ th[t].pc = "reset" /\ CanWrite
    /\ proxy' = None /\ counter' = counter + 1
    /\ Goto(t, "relock")
    /\ UNCHANGED <<clientVars, lockVars, requestVars, answers, nitzVars, heard>>

\* ... drop the callbacks under the write lock unless they were replaced ...
resetCallbacks(t) ==
    /\ th[t].pc = "reset" /\ CanWrite
    /\ IF th[t].cnt = counter
       THEN proxy' = None /\ counter' = counter + 1
       ELSE UNCHANGED <<proxy, counter>>
    /\ Goto(t, "relock")
    /\ UNCHANGED <<clientVars, lockVars, requestVars, answers, nitzVars, heard>>

\* ... and take the read lock that the caller believes it has.
relock(t) ==
    /\ th[t].pc = "relock"
    /\ readLock
    /\ Goto(t, "unlock")
    /\ UNCHANGED <<clientVars, proxy, counter, requestVars, answers, nitzVars, heard>>

\* The caller goes on: onNewCommandConnect with its next indication, NITZ that
\* nobody took is kept, NITZ that was resent is freed.
Resume(r) ==
    CASE r.job = "connected" -> Calling("radioState", None)
      [] r.job = "radioState" -> Doing("test", "none", None)
      [] r.job = "nitz" /\ r.ret # 0 -> [r EXCEPT !.pc = "store"]
      [] OTHER -> Idle

finish(t) ==
    /\ th[t].pc = "unlock"
    /\ IF th[t].job = "error" THEN UNCHANGED lockVars ELSE unlockBy(t)
    /\ lastNitz' = IF th[t].job = "resend" /\ th[t].ret = 0 THEN None ELSE lastNitz
    /\ SetThread(t, Resume(th[t]))
    /\ UNCHANGED <<clientVars, proxy, counter, requestVars, answers, news, heard>>

threadStep(t) ==
    \/ lock(t) \/ respond(t) \/ indicate(t) \/ nitzTimeReceivedInd(t) \/ resendNothing(t)
    \/ checkReturnStatus(t) \/ resetCallbacks(t) \/ relock(t) \/ finish(t)
    \/ t = Binder /\ (replaceCallbacks \/ testNitz)
    \/ t \in Vendors /\ (freeNitz(t) \/ keepNitz(t))

----------------------------------------------------------------------------

Init ==
    /\ alive = None /\ started = 0
    /\ proxy = None /\ counter = 0
    /\ readers = 0 /\ writer = None
    /\ th = [t \in Threads |-> Idle]
    /\ requested = {} /\ pending = {} /\ given = {} /\ wasAckSent = {}
    /\ answers = [s \in Serials |-> 0]
    /\ news = 0 /\ lastNitz = None
    /\ heard = [n \in 1 .. MaxNews |-> 0]

Next ==
    \/ clientStart \/ clientDies \/ setResponseFunctions
    \/ \E s \in Serials : dispatch(s) \/ refuse(s) \/ drop(s)
    \/ \E v \in Vendors : unsolicited(v)
    \/ \E v \in Vendors, s \in Serials : requestAck(v, s) \/ requestComplete(v, s)
    \/ \E t \in Threads : threadStep(t)

Spec == Init /\ [][Next]_vars

\* Every thread runs, and the vendor completes what it was given.
FairSpec ==
    /\ Spec
    /\ \A t \in Threads : WF_vars(threadStep(t))
    /\ \A s \in Serials : SF_vars(\E v \in Vendors : requestComplete(v, s))

----------------------------------------------------------------------------
(* Properties *)

TypeOK ==
    /\ alive \in 0 .. MaxClients /\ started \in 0 .. MaxClients
    /\ proxy \in 0 .. MaxClients /\ counter \in Nat
    /\ readers \in Nat /\ writer \in Threads \cup {None}
    /\ \A t \in Threads :
          /\ th[t].pc \in {"idle", "set", "test", "lock", "call", "check", "reset", "relock", "unlock", "store",
                         "keep"}
          /\ th[t].job \in Jobs \cup {"none"}
    /\ requested \subseteq Serials /\ pending \subseteq requested
    /\ given \subseteq requested /\ wasAckSent \subseteq given
    /\ answers \in [Serials -> Nat]
    /\ news \in 0 .. MaxNews /\ lastNitz \in 0 .. news
    /\ heard \in [1 .. MaxNews -> Nat]

\* A request is answered at most once, however often the vendor completes it
\* and although refused requests stay in the list (checkAndDequeueRequestInfoIfAck).
AnsweredOnce == \A s \in Serials : answers[s] <= 1

\* A NITZ time never reaches the framework twice, whatever connects and dies
\* while it is stored, resent and freed without a common lock.
NitzHeardOnce == \A n \in 1 .. news : heard[n] <= 1

\* The thread that resets the callbacks never drops those of a running
\* framework that has registered meanwhile (mCounterRadio).
NewCallbacksKept == [][proxy # None /\ proxy' = None => proxy # alive]_<<proxy, alive>>

\* More read locks are out than there are threads to give them back.
Holds(t) ==
    th[t].job \notin {"none", "error"} /\ th[t].pc \in {"call", "check", "unlock"} /\ writer # t
LockLeaked == readers > Cardinality({t \in Threads : Holds(t)})

\* Every request that the vendor was given is answered, unless a leaked lock
\* stops a vendor thread.
RequestEnds ==
    \A s \in Serials : s \in given ~> (answers[s] > 0 \/ LockLeaked)

\* Nothing is told twice.
HeardOnce == TypeOK /\ AnsweredOnce /\ NitzHeardOnce
=============================================================================
