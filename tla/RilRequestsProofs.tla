-------------------------- MODULE RilRequestsProofs --------------------------
(***************************************************************************)
(* RilRequests for any requests, vendor threads, frameworks and messages:  *)
(* nothing is told twice, and a thread that drops the callbacks of a dead  *)
(* framework never drops those of the one that has registered meanwhile.   *)
(* The second part is about the wake lock of the library, RilWakeLock.     *)
(***************************************************************************)
EXTENDS RilRequests, RilWakeLock, FiniteSetTheorems, SequenceTheorems, WellFoundedInduction, TLAPS

Pcs == {"idle", "set", "test", "lock", "call", "check", "reset", "relock", "unlock", "store", "keep"}
AfterCall == {"check", "reset", "relock", "unlock"}
Rec == [pc : Pcs, job : Jobs \cup {"none"}, of : Serials \cup Nat, cnt : Nat, ret : Nat]

VarType ==
    /\ alive \in 0 .. MaxClients /\ started \in 0 .. MaxClients /\ alive <= started
    /\ proxy \in 0 .. MaxClients /\ proxy <= started /\ counter \in Nat
    /\ readers \in Nat /\ writer \in Threads \cup {None}
    /\ requested \subseteq Serials /\ pending \subseteq requested
    /\ given \subseteq requested /\ wasAckSent \subseteq given
    /\ answers \in [Serials -> Nat]
    /\ news \in 0 .. MaxNews /\ lastNitz \in 0 .. news
    /\ heard \in [1 .. MaxNews -> Nat]

\* What a thread does fits what it does it for.
FitsJob(t) ==
    /\ th[t].job \in {"ack", "answer", "error"} => th[t].of \in Serials
    /\ th[t].job = "nitz" => th[t].of \in 1 .. news /\ t \in Vendors
    /\ th[t].job \in {"error", "resend"} => t = Binder
    /\ th[t].job = "error" => th[t].pc # "lock"
    /\ th[t].pc \in {"store", "keep"} => th[t].job = "nitz"
    /\ th[t].pc \in {"lock", "call"} \cup AfterCall => th[t].job # "none"
    /\ th[t].pc \in {"idle", "set", "test"} => th[t].job = "none"
    /\ th[t].pc = "set" => t = Binder /\ th[t].of \in 1 .. started

TypeInv ==
    /\ VarType
    /\ th \in [Threads -> Rec]
    /\ \A t \in Threads : FitsJob(t)

LEMMA BinderIsThread == Binder \in Threads /\ Vendors \subseteq Threads
  BY DEF Threads

LEMMA TypeInit == Init => TypeInv
  BY BoundsAssumption DEF Init, TypeInv, VarType, Rec, Pcs, Jobs, Idle, Doing, FitsJob, None, AfterCall

\* A thread does something else now, and the rest is as it was.
LEMMA ThreadStep ==
  ASSUME TypeInv, VarType', NEW t \in Threads, NEW r \in Rec, th' = [th EXCEPT ![t] = r],
         news' \in Nat, news <= news', started' = started, FitsJob(t)'
  PROVE  TypeInv'
<1>1. th' \in [Threads -> Rec]
  BY DEF TypeInv
<1>2. ASSUME NEW u \in Threads, u # t
      PROVE  FitsJob(u)'
  <2>1. th'[u] = th[u] /\ FitsJob(u)
    BY <1>2 DEF TypeInv
  <2>2. news \in Nat
    BY BoundsAssumption DEF TypeInv, VarType
  <2>. QED
    BY <2>1, <2>2 DEF FitsJob
<1>. QED
  BY <1>1, <1>2 DEF TypeInv

LEMMA FrameworkType ==
  ASSUME TypeInv, clientStart \/ clientDies \/ (\E s \in Serials : dispatch(s) \/ drop(s))
  PROVE  TypeInv'
<1>1. VarType'
  BY BoundsAssumption DEF TypeInv, VarType, clientStart, clientDies, dispatch, drop, None,
     clientVars, lockVars, requestVars, nitzVars
<1>2. th' = th /\ news' = news /\ started <= started' /\ started \in Nat /\ started' \in Nat
  BY BoundsAssumption DEF TypeInv, VarType, clientStart, clientDies, dispatch, drop,
     clientVars, lockVars, requestVars, nitzVars
<1>3. ASSUME NEW t \in Threads
      PROVE  FitsJob(t)'
  <2>1. FitsJob(t)
    BY DEF TypeInv
  <2>. QED
    BY <1>2, <2>1 DEF FitsJob
<1>. QED
  BY <1>1, <1>2, <1>3 DEF TypeInv

LEMMA RecEdit ==
  ASSUME NEW r \in Rec
  PROVE  /\ \A point \in Pcs : [r EXCEPT !.pc = point] \in Rec
         /\ \A point \in Pcs, cnt \in Nat : [r EXCEPT !.pc = point, !.cnt = cnt] \in Rec
         /\ \A point \in Pcs, ret \in Nat : [r EXCEPT !.pc = point, !.ret = ret] \in Rec
  BY DEF Rec

LEMMA CallingType ==
  ASSUME NEW job \in Jobs, NEW of \in Serials \cup Nat
  PROVE  /\ Idle \in Rec
         /\ Calling(job, of) \in Rec
         /\ Calling(job, of) = [pc |-> "lock", job |-> job, of |-> of, cnt |-> 0, ret |-> 0]
  BY DEF Idle, Calling, Doing, Rec, Pcs, Jobs, None

LEMMA RefuseType ==
  ASSUME TypeInv, NEW s \in Serials, refuse(s)
  PROVE  TypeInv'
<1>. DEFINE r == [pc |-> "call", job |-> "error", of |-> s, cnt |-> 0, ret |-> 0]
<1>1. r \in Rec
  BY DEF Rec, Pcs, Jobs
<1>2. th' = [th EXCEPT ![Binder] = r]
  BY DEF refuse, SetThread, Doing
<1>3. VarType' /\ news' \in Nat /\ news <= news' /\ started' = started
  BY BoundsAssumption DEF TypeInv, VarType, refuse, clientVars, lockVars, nitzVars
<1>4. FitsJob(Binder)'
  BY <1>2, BinderIsThread DEF TypeInv, FitsJob, AfterCall
<1>. HIDE DEF r
<1>. QED
  BY <1>1, <1>2, <1>3, <1>4, BinderIsThread, ThreadStep

LEMMA SetResponseType ==
  ASSUME TypeInv, setResponseFunctions
  PROVE  TypeInv'
<1>. DEFINE r == [pc |-> "set", job |-> "none", of |-> alive, cnt |-> 0, ret |-> 0]
<1>1. r \in Rec
  BY BoundsAssumption DEF Rec, Pcs, Jobs, TypeInv, VarType
<1>2. th' = [th EXCEPT ![Binder] = r]
  BY DEF setResponseFunctions, SetThread, Doing
<1>3. VarType' /\ news' \in Nat /\ news <= news' /\ started' = started
  BY BoundsAssumption DEF TypeInv, VarType, setResponseFunctions, clientVars, lockVars, nitzVars,
     requestVars
<1>4. FitsJob(Binder)'
  BY <1>2, <1>3, BinderIsThread, BoundsAssumption
     DEF TypeInv, VarType, FitsJob, AfterCall, setResponseFunctions, clientVars, None
<1>. HIDE DEF r
<1>. QED
  BY <1>1, <1>2, <1>3, <1>4, BinderIsThread, ThreadStep

LEMMA ReplaceType ==
  ASSUME TypeInv, replaceCallbacks
  PROVE  TypeInv'
<1>. DEFINE r == Calling("connected", None)
<1>1. r \in Rec /\ r = [pc |-> "lock", job |-> "connected", of |-> None, cnt |-> 0, ret |-> 0]
  BY CallingType DEF Jobs, None
<1>2. th' = [th EXCEPT ![Binder] = r]
  BY DEF replaceCallbacks, SetThread
<1>3. VarType' /\ news' \in Nat /\ news <= news' /\ started' = started
  <2>1. th[Binder].of \in 1 .. started
    BY BinderIsThread DEF TypeInv, FitsJob, replaceCallbacks
  <2>. QED
    BY <2>1, BoundsAssumption DEF TypeInv, VarType, replaceCallbacks, clientVars, lockVars,
       nitzVars, requestVars
<1>. HIDE DEF r
<1>4. FitsJob(Binder)'
  BY <1>1, <1>2, <1>3, BinderIsThread DEF TypeInv, FitsJob, AfterCall
<1>. QED
  BY <1>1, <1>2, <1>3, <1>4, BinderIsThread, ThreadStep

LEMMA TestNitzType ==
  ASSUME TypeInv, testNitz
  PROVE  TypeInv'
<1>. DEFINE r == IF lastNitz = None THEN Idle ELSE Calling("resend", None)
<1>1. r \in Rec /\ r.pc \in {"idle", "lock"}
      /\ r.job = (IF lastNitz = None THEN "none" ELSE "resend")
      /\ r.pc = (IF lastNitz = None THEN "idle" ELSE "lock")
  BY CallingType DEF Jobs, None, Idle, Doing
<1>2. th' = [th EXCEPT ![Binder] = r]
  BY DEF testNitz, SetThread
<1>3. VarType' /\ news' \in Nat /\ news <= news' /\ started' = started
  BY BoundsAssumption DEF TypeInv, VarType, testNitz, clientVars, lockVars, nitzVars, requestVars
<1>. HIDE DEF r
<1>4. FitsJob(Binder)'
  BY <1>1, <1>2, <1>3, BinderIsThread DEF TypeInv, FitsJob, AfterCall
<1>. QED
  BY <1>1, <1>2, <1>3, <1>4, BinderIsThread, ThreadStep

LEMMA VendorType ==
  ASSUME TypeInv, NEW v \in Vendors,
         (\E s \in Serials : requestAck(v, s) \/ requestComplete(v, s)) \/ unsolicited(v)
  PROVE  TypeInv'
<1>1. VarType' /\ news' \in Nat /\ news <= news' /\ started' = started
  <2>1. CASE \E s \in Serials : requestAck(v, s) \/ requestComplete(v, s)
    BY <2>1 DEF TypeInv, VarType, requestAck, requestComplete, clientVars, lockVars, nitzVars, requestVars
  <2>2. CASE unsolicited(v)
    BY <2>2, BoundsAssumption DEF TypeInv, VarType, unsolicited, clientVars, lockVars, requestVars
  <2>. QED
    BY <2>1, <2>2
<1>2. ASSUME NEW s \in Serials, NEW job \in {"ack", "answer"}, SetThread(v, Calling(job, s))
      PROVE  TypeInv'
  <2>1. /\ Calling(job, s) \in Rec
        /\ Calling(job, s) = [pc |-> "lock", job |-> job, of |-> s, cnt |-> 0, ret |-> 0]
    BY CallingType DEF Jobs
  <2>2. FitsJob(v)'
    BY <1>2, <2>1, BinderIsThread DEF TypeInv, FitsJob, AfterCall, SetThread
  <2>. QED
    BY <1>1, <1>2, <2>1, <2>2, BinderIsThread, ThreadStep DEF SetThread
<1>3. ASSUME unsolicited(v)
      PROVE  TypeInv'
  <2>1. /\ Calling("news", None) \in Rec /\ Calling("nitz", news + 1) \in Rec
        /\ Calling("news", None) = [pc |-> "lock", job |-> "news", of |-> None, cnt |-> 0, ret |-> 0]
        /\ Calling("nitz", news + 1) =
              [pc |-> "lock", job |-> "nitz", of |-> news + 1, cnt |-> 0, ret |-> 0]
    <3>1. None \in Serials \cup Nat /\ news + 1 \in Serials \cup Nat
      BY BoundsAssumption DEF None, TypeInv, VarType
    <3>2. "news" \in Jobs /\ "nitz" \in Jobs
      BY DEF Jobs
    <3>. QED
      BY <3>1, <3>2, CallingType
  <2>2. PICK r \in {Calling("news", None), Calling("nitz", news + 1)} : th' = [th EXCEPT ![v] = r]
    BY <1>3 DEF unsolicited, SetThread
  <2>3. news' = news + 1
    BY <1>3 DEF unsolicited
  <2>4. FitsJob(v)'
    <3>1. th'[v] = r
      BY <2>2, BinderIsThread DEF TypeInv
    <3>. QED
      BY <1>1, <2>1, <2>3, <3>1, BoundsAssumption DEF FitsJob, AfterCall, TypeInv, VarType
  <2>. QED
    BY <1>1, <2>1, <2>2, <2>4, BinderIsThread, ThreadStep
<1>. QED
  BY <1>2, <1>3 DEF requestAck, requestComplete

\* A thread takes the lock, calls, unlocks and locks again: its job stays.
LEMMA GotoType ==
  ASSUME TypeInv, NEW t \in Threads, th[t].pc \in {"lock", "call"} \cup AfterCall,
         NEW point \in {"call"} \cup AfterCall, NEW r \in Rec,
         th' = [th EXCEPT ![t] = r], r.pc = point, r.job = th[t].job, r.of = th[t].of,
         VarType', news' = news, started' = started
  PROVE  TypeInv'
<1>1. FitsJob(t)'
  BY DEF TypeInv, FitsJob, AfterCall
<1>2. news' \in Nat /\ news <= news'
  BY BoundsAssumption DEF TypeInv, VarType
<1>. QED
  BY <1>1, <1>2, ThreadStep

LEMMA CallType ==
  ASSUME TypeInv, NEW t \in Threads,
         lock(t) \/ respond(t) \/ indicate(t) \/ nitzTimeReceivedInd(t)
                \/ checkReturnStatus(t) \/ resetCallbacks(t) \/ relock(t)
  PROVE  TypeInv'
<1>1. th[t] \in Rec /\ FitsJob(t)
  BY DEF TypeInv
<1>2. news' = news /\ started' = started
  BY DEF lock, respond, indicate, nitzTimeReceivedInd, checkReturnStatus, resetCallbacks, relock,
     clientVars, nitzVars
<1>3. \E point \in {"call"} \cup AfterCall, cnt \in Nat, ret \in Nat :
         th' = [th EXCEPT ![t] = [pc |-> point, job |-> th[t].job, of |-> th[t].of, cnt |-> cnt, ret |-> ret]]
  <2>1. counter \in Nat /\ th[t].cnt \in Nat /\ th[t].ret \in Nat
    BY <1>1 DEF TypeInv, VarType, Rec
  <2>2. th[t] = [pc |-> th[t].pc, job |-> th[t].job, of |-> th[t].of, cnt |-> th[t].cnt, ret |-> th[t].ret]
    BY <1>1 DEF Rec
  <2>. QED
    BY <2>1, <2>2 DEF TypeInv, lock, respond, indicate, nitzTimeReceivedInd, checkReturnStatus,
       resetCallbacks, relock, Goto, Called, AfterCall
<1>4. VarType'
  <2>1. CASE lock(t) \/ relock(t) \/ checkReturnStatus(t) \/ resetCallbacks(t) \/ indicate(t)
    BY <2>1, BoundsAssumption DEF TypeInv, VarType, lock, relock, checkReturnStatus, resetCallbacks,
       indicate, readLock, unlockBy, clientVars, lockVars, nitzVars, requestVars, None
  <2>2. CASE respond(t)
    BY <1>1, <2>2, BoundsAssumption DEF TypeInv, VarType, respond, FitsJob, clientVars, lockVars,
       nitzVars, requestVars
  <2>3. CASE nitzTimeReceivedInd(t)
    <3>1. NitzOf(t) \in 1 .. MaxNews
      BY <1>1, <2>3, BoundsAssumption DEF TypeInv, VarType, nitzTimeReceivedInd, NitzOf, FitsJob, None
    <3>2. heard' \in [1 .. MaxNews -> Nat]
      BY <2>3, <3>1 DEF TypeInv, VarType, nitzTimeReceivedInd
    <3>. QED
      BY <2>3, <3>2 DEF TypeInv, VarType, nitzTimeReceivedInd, clientVars, lockVars, nitzVars,
         requestVars
  <2>. QED
    BY <2>1, <2>2, <2>3
<1>5. th[t].pc \in {"lock", "call"} \cup AfterCall
  BY DEF lock, respond, indicate, nitzTimeReceivedInd, checkReturnStatus, resetCallbacks, relock,
     AfterCall
<1>6. PICK point \in {"call"} \cup AfterCall, cnt \in Nat, ret \in Nat :
         th' = [th EXCEPT ![t] = [pc |-> point, job |-> th[t].job, of |-> th[t].of, cnt |-> cnt, ret |-> ret]]
  BY <1>3
<1>. DEFINE r == [pc |-> point, job |-> th[t].job, of |-> th[t].of, cnt |-> cnt, ret |-> ret]
<1>7. r \in Rec /\ r.pc = point /\ r.job = th[t].job /\ r.of = th[t].of
  BY <1>1 DEF Rec, Pcs, AfterCall
<1>. HIDE DEF r
<1>. QED
  BY <1>2, <1>4, <1>5, <1>6, <1>7, GotoType DEF r

LEMMA EndType ==
  ASSUME TypeInv, NEW t \in Threads, resendNothing(t) \/ finish(t)
  PROVE  TypeInv'
<1>1. th[t] \in Rec /\ FitsJob(t)
  BY DEF TypeInv
<1>2. VarType' /\ news' \in Nat /\ news <= news' /\ started' = started /\ news' = news
  BY BoundsAssumption DEF TypeInv, VarType, resendNothing, finish, unlockBy, clientVars, lockVars,
     nitzVars, requestVars, None
<1>3. CASE resendNothing(t)
  <2>1. Idle \in Rec
    BY DEF Idle, Doing, Rec, Pcs, None
  <2>2. th' = [th EXCEPT ![t] = Idle]
    BY <1>3 DEF resendNothing, SetThread
  <2>3. FitsJob(t)'
    BY <2>2 DEF TypeInv, FitsJob, Idle, Doing, AfterCall
  <2>. QED
    BY <1>2, <2>1, <2>2, <2>3, ThreadStep
<1>4. CASE finish(t)
  <2>. DEFINE r == Resume(th[t])
  <2>1. th' = [th EXCEPT ![t] = r]
    BY <1>4 DEF finish, SetThread
  <2>2. /\ r \in Rec
        /\ \/ r \in {Idle, Doing("test", "none", None), Calling("radioState", None)}
           \/ th[t].job = "nitz" /\ r = [th[t] EXCEPT !.pc = "store"]
    <3>1. /\ Idle \in Rec /\ Doing("test", "none", None) \in Rec
          /\ Calling("radioState", None) \in Rec
          /\ [th[t] EXCEPT !.pc = "store"] \in Rec
      BY <1>1 DEF Idle, Calling, Doing, Rec, Pcs, Jobs, None
    <3>2. CASE th[t].job = "connected"
      BY <3>1, <3>2 DEF Resume
    <3>3. CASE th[t].job = "radioState"
      BY <3>1, <3>3 DEF Resume
    <3>4. CASE th[t].job = "nitz" /\ th[t].ret # 0
      BY <3>1, <3>4 DEF Resume
    <3>5. CASE th[t].job \notin {"connected", "radioState"} /\ ~(th[t].job = "nitz" /\ th[t].ret # 0)
      BY <3>1, <3>5 DEF Resume
    <3>. QED
      BY <3>2, <3>3, <3>4, <3>5
  <2>3. th'[t] = r
    BY <2>1 DEF TypeInv
  <2>. HIDE DEF r
  <2>4. FitsJob(t)'
    <3>1. CASE r \in {Idle, Doing("test", "none", None), Calling("radioState", None)}
      BY <2>3, <3>1 DEF FitsJob, Idle, Calling, Doing, AfterCall
    <3>2. CASE th[t].job = "nitz" /\ r = [th[t] EXCEPT !.pc = "store"]
      BY <1>1, <1>2, <2>3, <3>2 DEF FitsJob, Rec, AfterCall
    <3>. QED
      BY <2>2, <3>1, <3>2
  <2>. QED
    BY <1>2, <2>1, <2>2, <2>4, ThreadStep
<1>. QED
  BY <1>3, <1>4

LEMMA KeepType ==
  ASSUME TypeInv, NEW v \in Vendors, freeNitz(v) \/ keepNitz(v)
  PROVE  TypeInv'
<1>. v \in Threads
  BY BinderIsThread
<1>1. th[v] \in Rec /\ FitsJob(v)
  BY DEF TypeInv
<1>2. VarType' /\ news' \in Nat /\ news <= news' /\ started' = started /\ news' = news
  BY <1>1, BoundsAssumption DEF TypeInv, VarType, freeNitz, keepNitz, clientVars, lockVars, nitzVars,
     requestVars, None, FitsJob
<1>. DEFINE r == IF freeNitz(v) THEN [th[v] EXCEPT !.pc = "keep"] ELSE Idle
<1>3. th' = [th EXCEPT ![v] = r]
  BY <1>1 DEF freeNitz, keepNitz, Goto, SetThread, TypeInv
<1>4. r \in Rec
  BY <1>1 DEF Rec, Pcs, Idle, Doing, None
<1>5. FitsJob(v)'
  BY <1>1, <1>2, <1>3 DEF FitsJob, freeNitz, TypeInv, Idle, Doing, AfterCall, Rec
<1>. HIDE DEF r
<1>. QED
  BY <1>2, <1>3, <1>4, <1>5, ThreadStep

LEMMA TypeNext == TypeInv /\ [Next]_vars => TypeInv'
<1>. SUFFICES ASSUME TypeInv, [Next]_vars PROVE TypeInv'
  OBVIOUS
<1>1. CASE UNCHANGED vars
  BY <1>1 DEF vars, TypeInv, VarType, FitsJob, clientVars, lockVars, requestVars, nitzVars
<1>2. CASE clientStart \/ clientDies \/ setResponseFunctions
  BY <1>2, FrameworkType, SetResponseType
<1>3. ASSUME NEW s \in Serials, dispatch(s) \/ refuse(s) \/ drop(s)
      PROVE  TypeInv'
  BY <1>3, FrameworkType, RefuseType
<1>4. ASSUME NEW v \in Vendors,
             unsolicited(v) \/ \E s \in Serials : requestAck(v, s) \/ requestComplete(v, s)
      PROVE  TypeInv'
  BY <1>4, VendorType
<1>5. ASSUME NEW t \in Threads, threadStep(t)
      PROVE  TypeInv'
  BY <1>5, CallType, EndType, KeepType, ReplaceType, TestNitzType DEF threadStep
<1>. QED
  BY <1>1, <1>2, <1>3, <1>4, <1>5 DEF Next

----------------------------------------------------------------------------
(* What a step does to its thread *)

LEMMA OtherThreads ==
  ASSUME TypeInv, NEW t \in Threads, threadStep(t)
  PROVE  \A u \in Threads : u # t => th'[u] = th[u]
  BY DEF TypeInv, threadStep, lock, respond, indicate, nitzTimeReceivedInd, resendNothing,
     checkReturnStatus, resetCallbacks, relock, finish, replaceCallbacks, testNitz, freeNitz, keepNitz,
     SetThread, Goto, Called

\* Between call and unlock a thread keeps its job and what the call returned.
LEMMA CallKept ==
  ASSUME TypeInv, NEW t \in Threads,
         lock(t) \/ checkReturnStatus(t) \/ resetCallbacks(t) \/ relock(t)
  PROVE  /\ th'[t].job = th[t].job /\ th'[t].of = th[t].of /\ th'[t].ret = th[t].ret
         /\ lock(t) => th[t].pc = "lock" /\ th'[t].pc = "call"
         /\ ~lock(t) => th[t].pc \in AfterCall /\ th'[t].pc \in AfterCall
<1>1. th[t] \in Rec /\ th \in [Threads -> Rec]
  BY DEF TypeInv
<1>2. CASE lock(t)
  BY <1>1, <1>2 DEF lock, Goto, Rec
<1>3. CASE checkReturnStatus(t)
  BY <1>1, <1>3 DEF checkReturnStatus, Rec, AfterCall, lock
<1>4. CASE resetCallbacks(t) \/ relock(t)
  BY <1>1, <1>4 DEF resetCallbacks, relock, Goto, Rec, AfterCall, lock
<1>. QED
  BY <1>2, <1>3, <1>4

LEMMA CalledShape ==
  ASSUME TypeInv, NEW t \in Threads, NEW ret, Called(t, ret)
  PROVE  /\ th'[t].job = th[t].job /\ th'[t].of = th[t].of /\ th'[t].ret = ret
         /\ th'[t].pc = IF proxy \in {None, alive} THEN "unlock" ELSE "check"
<1>1. th[t] \in Rec /\ th \in [Threads -> Rec]
  BY DEF TypeInv
<1>. QED
  BY <1>1 DEF Called, Rec

LEMMA FinishShape ==
  ASSUME TypeInv, NEW t \in Threads, finish(t)
  PROVE  \/ th[t].job = "nitz" /\ th[t].ret # 0 /\ th'[t] = [th[t] EXCEPT !.pc = "store"]
         \/ th[t].job = "connected" /\ th'[t] = Calling("radioState", None)
         \/ th[t].job = "radioState" /\ th'[t] = Doing("test", "none", None)
         \/ /\ th'[t] = Idle
            /\ th[t].job \notin {"connected", "radioState"}
            /\ ~(th[t].job = "nitz" /\ th[t].ret # 0)
<1>1. th'[t] = Resume(th[t])
  BY DEF TypeInv, finish, SetThread
<1>. QED
  BY <1>1 DEF Resume

----------------------------------------------------------------------------
(* Answers *)

\* Thread t has taken the request out of the list, or refused it, and will answer.
WillAnswer(t, s) ==
    th[t].job \in {"answer", "error"} /\ th[t].of = s /\ th[t].pc \in {"lock", "call"}

Unanswered(s) == answers[s] = 0 /\ \A t \in Threads : ~WillAnswer(t, s)

AnswerInv ==
    \A s \in Serials :
        /\ answers[s] <= 1
        /\ s \notin requested \/ s \in given \cap pending => Unanswered(s)
        /\ \A t \in Threads : WillAnswer(t, s) =>
              answers[s] = 0 /\ \A u \in Threads : WillAnswer(u, s) => u = t

LEMMA AnswerInit == Init => AnswerInv
  BY DEF Init, AnswerInv, Unanswered, WillAnswer, Idle, Doing

\* No answer is begun, none is given, and no request is made.
LEMMA AnswerSame ==
  ASSUME AnswerInv, answers' = answers, requested \subseteq requested',
         given' \cap pending' \subseteq given \cap pending,
         \A t \in Threads, s \in Serials : WillAnswer(t, s)' => WillAnswer(t, s)
  PROVE  AnswerInv'
  BY DEF AnswerInv, Unanswered

LEMMA AnswerEnvironment ==
  ASSUME TypeInv, AnswerInv,
         \/ clientStart \/ clientDies \/ setResponseFunctions
         \/ \E s \in Serials : drop(s)
         \/ \E v \in Vendors : unsolicited(v) \/ \E s \in Serials : requestAck(v, s)
         \/ UNCHANGED vars
  PROVE  AnswerInv'
<1>1. /\ answers' = answers /\ requested \subseteq requested'
      /\ given' \cap pending' = given \cap pending
  BY DEF clientStart, clientDies, setResponseFunctions, drop, unsolicited, requestAck, vars,
     clientVars, requestVars
<1>2. \A t \in Threads, s \in Serials : WillAnswer(t, s)' => WillAnswer(t, s)
  BY BinderIsThread DEF TypeInv, WillAnswer, clientStart, clientDies, setResponseFunctions, drop,
     unsolicited, requestAck, vars, SetThread, Calling, Doing
<1>. QED
  BY <1>1, <1>2, AnswerSame

LEMMA AnswerRequest ==
  ASSUME TypeInv, AnswerInv, NEW s \in Serials, dispatch(s) \/ refuse(s)
  PROVE  AnswerInv'
<1>1. answers' = answers /\ requested' = requested \cup {s} /\ Unanswered(s) /\ s \notin given
  BY DEF dispatch, refuse, AnswerInv, TypeInv, VarType
<1>2. CASE dispatch(s)
  <2>1. th' = th /\ given' \cap pending' \subseteq (given \cap pending) \cup {s}
    BY <1>2 DEF dispatch, TypeInv, VarType
  <2>2. \A t \in Threads, r \in Serials : WillAnswer(t, r)' <=> WillAnswer(t, r)
    BY <2>1 DEF WillAnswer
  <2>. QED
    BY <1>1, <2>1, <2>2 DEF AnswerInv, Unanswered
<1>3. CASE refuse(s)
  <2>1. given' = given /\ pending' = pending \cup {s}
    BY <1>3 DEF refuse
  <2>2. \A t \in Threads, r \in Serials :
          WillAnswer(t, r)' => WillAnswer(t, r) \/ (t = Binder /\ r = s)
    BY <1>3, BinderIsThread DEF TypeInv, refuse, SetThread, Doing, WillAnswer
  <2>3. s \notin given' /\ ~WillAnswer(Binder, s)
    BY <1>1, <2>1, BinderIsThread DEF Unanswered
  <2>. QED
    BY <1>1, <2>1, <2>2, <2>3 DEF AnswerInv, Unanswered
<1>. QED
  BY <1>2, <1>3

LEMMA AnswerComplete ==
  ASSUME TypeInv, AnswerInv, NEW v \in Vendors, NEW s \in Serials, requestComplete(v, s)
  PROVE  AnswerInv'
<1>1. /\ answers' = answers /\ requested' = requested /\ given' = given /\ pending' = pending \ {s}
      /\ Unanswered(s)
  BY DEF requestComplete, AnswerInv
<1>2. \A t \in Threads, r \in Serials : WillAnswer(t, r)' => WillAnswer(t, r) \/ (t = v /\ r = s)
  BY BinderIsThread DEF TypeInv, requestComplete, SetThread, Calling, Doing, WillAnswer
<1>3. s \in requested'
  BY <1>1 DEF requestComplete, TypeInv, VarType
<1>. QED
  BY <1>1, <1>2, <1>3 DEF AnswerInv, Unanswered

LEMMA AnswerRespond ==
  ASSUME TypeInv, AnswerInv, NEW t \in Threads, respond(t)
  PROVE  AnswerInv'
<1>1. requested' = requested /\ given' = given /\ pending' = pending
  BY DEF respond, requestVars
<1>2. \A u \in Threads, s \in Serials : WillAnswer(u, s)' => WillAnswer(u, s) /\ u # t
  BY DEF TypeInv, respond, Called, WillAnswer
<1>3. CASE th[t].job = "ack"
  <2>1. answers' = answers
    BY <1>3 DEF respond
  <2>. QED
    BY <1>1, <1>2, <2>1, AnswerSame
<1>4. CASE th[t].job # "ack"
  <2>1. PICK s \in Serials : s = th[t].of /\ WillAnswer(t, s)
    BY <1>4 DEF respond, TypeInv, FitsJob, WillAnswer
  <2>2. answers' = [answers EXCEPT ![s] = @ + 1] /\ answers \in [Serials -> Nat]
    BY <1>4, <2>1 DEF respond, TypeInv, VarType
  <2>3. answers'[s] = 1 /\ \A r \in Serials : r # s => answers'[r] = answers[r]
    BY <2>1, <2>2 DEF AnswerInv
  <2>4. s \in requested /\ s \notin given \cap pending
    BY <2>1 DEF AnswerInv, Unanswered
  <2>5. \A u \in Threads : ~WillAnswer(u, s)'
    BY <1>2, <2>1 DEF AnswerInv
  <2>. QED
    BY <1>1, <1>2, <2>3, <2>4, <2>5 DEF AnswerInv, Unanswered
<1>. QED
  BY <1>3, <1>4

\* The other steps of a thread.
LEMMA AnswerThread ==
  ASSUME TypeInv, AnswerInv, NEW t \in Threads, threadStep(t), ~respond(t)
  PROVE  AnswerInv'
<1>1. /\ answers' = answers /\ requested' = requested /\ given' = given /\ pending' = pending
  BY DEF threadStep, lock, indicate, nitzTimeReceivedInd, resendNothing, checkReturnStatus,
     resetCallbacks, relock, finish, replaceCallbacks, testNitz, freeNitz, keepNitz, requestVars
<1>2. th[t] \in Rec /\ th \in [Threads -> Rec]
  BY DEF TypeInv
<1>3. \A u \in Threads : u # t => th'[u] = th[u]
  BY <1>2 DEF threadStep, lock, indicate, nitzTimeReceivedInd, resendNothing, checkReturnStatus,
     resetCallbacks, relock, finish, replaceCallbacks, testNitz, freeNitz, keepNitz, SetThread, Goto,
     Called
<1>4. \A s \in Serials : WillAnswer(t, s)' => WillAnswer(t, s)
  <2>1. CASE lock(t)
    <3>1. th[t].pc = "lock" /\ th'[t] = [th[t] EXCEPT !.pc = "call"]
      BY <1>2, <2>1 DEF lock, Goto
    <3>. QED
      BY <1>2, <3>1 DEF WillAnswer, Rec
  <2>2. CASE checkReturnStatus(t) \/ resetCallbacks(t) \/ relock(t) \/ indicate(t)
             \/ nitzTimeReceivedInd(t)
    <3>1. th'[t].pc \in AfterCall
      BY <1>2, <2>2 DEF checkReturnStatus, resetCallbacks, relock, indicate, nitzTimeReceivedInd,
         Goto, Called, Rec, AfterCall
    <3>. QED
      BY <3>1 DEF WillAnswer, AfterCall
  <2>3. CASE resendNothing(t) \/ (t \in Vendors /\ (freeNitz(t) \/ keepNitz(t)))
    <3>1. th'[t].pc \in {"idle", "keep"}
      BY <1>2, <2>3 DEF resendNothing, freeNitz, keepNitz, SetThread, Goto, Idle, Doing, Rec
    <3>. QED
      BY <3>1 DEF WillAnswer
  <2>4. CASE t = Binder /\ (replaceCallbacks \/ testNitz)
    BY <1>2, <2>4 DEF replaceCallbacks, testNitz, SetThread, WillAnswer, Idle, Calling, Doing
  <2>5. CASE finish(t)
    <3>1. th'[t] = Resume(th[t])
      BY <1>2, <2>5 DEF finish, SetThread
    <3>. QED
      BY <1>2, <3>1 DEF Resume, WillAnswer, Idle, Calling, Doing, Rec
  <2>. QED
    BY <2>1, <2>2, <2>3, <2>4, <2>5 DEF threadStep
<1>. QED
  BY <1>1, <1>3, <1>4, AnswerSame DEF WillAnswer

LEMMA AnswerNext == TypeInv /\ AnswerInv /\ [Next]_vars => AnswerInv'
<1>. SUFFICES ASSUME TypeInv, AnswerInv, [Next]_vars PROVE AnswerInv'
  OBVIOUS
<1>1. ASSUME NEW s \in Serials, dispatch(s) \/ refuse(s)
      PROVE  AnswerInv'
  BY <1>1, AnswerRequest
<1>2. ASSUME NEW v \in Vendors, NEW s \in Serials, requestComplete(v, s)
      PROVE  AnswerInv'
  BY <1>2, AnswerComplete
<1>3. ASSUME NEW t \in Threads, threadStep(t)
      PROVE  AnswerInv'
  BY <1>3, AnswerRespond, AnswerThread
<1>. QED
  BY <1>1, <1>2, <1>3, AnswerEnvironment DEF Next

----------------------------------------------------------------------------
(* NITZ *)

\* Thread t has NITZ message n, which nobody heard.
Carries(t, n) ==
    /\ th[t].job = "nitz" /\ th[t].of = n
    /\ \/ th[t].pc \in {"lock", "call", "store", "keep"}
       \/ th[t].pc \in AfterCall /\ th[t].ret # 0

\* The message kept was told, and is about to be freed.
Resent == th[Binder].job = "resend" /\ th[Binder].ret = 0 /\ th[Binder].pc \in AfterCall

NitzInv ==
    \A n \in 1 .. MaxNews :
        /\ heard[n] <= 1
        /\ n > news => heard[n] = 0
        /\ lastNitz = n => heard[n] = 0 \/ Resent
        /\ \A t \in Threads : Carries(t, n) =>
              /\ heard[n] = 0 /\ lastNitz # n
              /\ \A u \in Threads : Carries(u, n) => u = t

LEMMA NitzInit == Init => NitzInv
  BY DEF Init, NitzInv, Carries, Idle, Doing, None, AfterCall

LEMMA NitzSame ==
  ASSUME NitzInv, heard' = heard, news' = news,
         lastNitz' \in {lastNitz, None},
         \A t \in Threads : \A n \in 1 .. MaxNews : Carries(t, n)' => Carries(t, n),
         Resent => Resent' \/ lastNitz' = None
  PROVE  NitzInv'
  BY DEF NitzInv, None

LEMMA NitzEnvironment ==
  ASSUME TypeInv, NitzInv,
         \/ clientStart \/ clientDies \/ setResponseFunctions
         \/ \E s \in Serials : dispatch(s) \/ refuse(s) \/ drop(s)
         \/ \E v \in Vendors, s \in Serials : requestAck(v, s) \/ requestComplete(v, s)
         \/ UNCHANGED vars
  PROVE  NitzInv'
<1>1. heard' = heard /\ news' = news /\ lastNitz' = lastNitz
  BY DEF clientStart, clientDies, setResponseFunctions, dispatch, refuse, drop, requestAck,
     requestComplete, vars, nitzVars
<1>2. \A t \in Threads : \A n \in 1 .. MaxNews : Carries(t, n)' => Carries(t, n)
  BY BinderIsThread DEF TypeInv, Carries, clientStart, clientDies, setResponseFunctions, dispatch,
     refuse, drop, requestAck, requestComplete, vars, SetThread, Calling, Doing
<1>3. Resent => Resent'
  <2>1. \/ th' = th
        \/ IdleThread(Binder)
        \/ \E v \in Vendors : \E r : th' = [th EXCEPT ![v] = r]
    BY DEF clientStart, clientDies, setResponseFunctions, dispatch, refuse, drop, requestAck,
       requestComplete, vars, SetThread
  <2>. QED
    BY <2>1, BinderIsThread, ThreadsAssumption DEF TypeInv, Resent, IdleThread, AfterCall
<1>. QED
  BY <1>1, <1>2, <1>3, NitzSame

LEMMA NitzUnsolicited ==
  ASSUME TypeInv, NitzInv, NEW v \in Vendors, unsolicited(v)
  PROVE  NitzInv'
<1>1. heard' = heard /\ news' = news + 1 /\ lastNitz' = lastNitz /\ news \in Nat /\ lastNitz <= news
      /\ lastNitz \in Nat
  BY BoundsAssumption DEF unsolicited, TypeInv, VarType
<1>2. \A t \in Threads : \A n \in 1 .. MaxNews :
         Carries(t, n)' => Carries(t, n) \/ (t = v /\ n = news + 1)
  BY BinderIsThread DEF TypeInv, Carries, unsolicited, SetThread, Calling, Doing
<1>3. \A t \in Threads : ~Carries(t, news + 1)
  BY <1>1 DEF TypeInv, FitsJob, Carries
<1>4. Resent' <=> Resent
  BY BinderIsThread, ThreadsAssumption DEF TypeInv, Resent, unsolicited, SetThread
<1>. QED
  BY <1>1, <1>2, <1>3, <1>4 DEF NitzInv

LEMMA NitzTold ==
  ASSUME TypeInv, NitzInv, NEW t \in Threads, nitzTimeReceivedInd(t)
  PROVE  NitzInv'
<1>1. news' = news /\ lastNitz' = lastNitz /\ th[t].pc = "call"
  BY DEF nitzTimeReceivedInd, nitzVars
<1>2. PICK n \in 1 .. MaxNews : n = NitzOf(t)
  <2>1. news \in Nat /\ news <= MaxNews /\ lastNitz \in Nat /\ lastNitz <= news
    BY BoundsAssumption DEF TypeInv, VarType
  <2>2. CASE th[t].job = "nitz"
    BY <2>1, <2>2, BoundsAssumption DEF TypeInv, FitsJob, NitzOf
  <2>3. CASE th[t].job = "resend" /\ lastNitz # None
    BY <2>1, <2>3, BoundsAssumption DEF NitzOf, None
  <2>. QED
    BY <2>2, <2>3 DEF nitzTimeReceivedInd
<1>3. th'[t].job = th[t].job /\ th'[t].of = th[t].of /\ th'[t].pc \in AfterCall
      /\ th'[t].ret = (IF proxy = None THEN 1 ELSE 0)
  BY CalledShape DEF nitzTimeReceivedInd, AfterCall
<1>4. \A u \in Threads : u # t => th'[u] = th[u]
  BY DEF TypeInv, nitzTimeReceivedInd, Called
<1>5. heard[n] = 0
  BY <1>1, <1>2, BinderIsThread
     DEF nitzTimeReceivedInd, NitzOf, NitzInv, Carries, Resent, AfterCall, TypeInv, FitsJob
<1>6. \A u \in Threads : \A k \in 1 .. MaxNews : Carries(u, k)' => Carries(u, k)
  BY <1>1, <1>3, <1>4 DEF Carries, AfterCall
<1>7. Resent => Resent'
  BY <1>1, <1>3, <1>4, BinderIsThread DEF Resent, AfterCall
<1>8. CASE heard' = heard
  BY <1>1, <1>6, <1>7, <1>8, NitzSame
<1>9. CASE heard' # heard
  <2>1. proxy # None /\ heard' = [heard EXCEPT ![n] = @ + 1] /\ heard \in [1 .. MaxNews -> Nat]
    BY <1>2, <1>9 DEF nitzTimeReceivedInd, TypeInv, VarType
  <2>2. heard'[n] = 1 /\ \A k \in 1 .. MaxNews : k # n => heard'[k] = heard[k]
    BY <1>5, <2>1
  <2>3. n <= news
    BY <1>2, BoundsAssumption DEF TypeInv, VarType, FitsJob, nitzTimeReceivedInd, NitzOf, None
  <2>4. \A u \in Threads : ~Carries(u, n)'
    <3>1. CASE th[t].job = "nitz"
      <4>1. Carries(t, n) /\ ~Carries(t, n)'
        BY <1>1, <1>2, <1>3, <2>1, <3>1 DEF Carries, NitzOf, AfterCall
      <4>. QED
        BY <1>6, <4>1 DEF NitzInv
    <3>2. CASE th[t].job # "nitz"
      BY <1>2, <1>6, <3>2 DEF nitzTimeReceivedInd, NitzOf, NitzInv
    <3>. QED
      BY <3>1, <3>2
  <2>5. lastNitz = n => Resent'
    <3>1. CASE th[t].job = "nitz"
      <4>1. Carries(t, n)
        BY <1>1, <1>2, <3>1 DEF Carries, NitzOf
      <4>. QED
        BY <4>1 DEF NitzInv
    <3>2. CASE th[t].job # "nitz"
      BY <1>3, <2>1, <3>2 DEF nitzTimeReceivedInd, TypeInv, FitsJob, Resent
    <3>. QED
      BY <3>1, <3>2
  <2>6. ASSUME NEW k \in 1 .. MaxNews, k # n
        PROVE  /\ heard'[k] <= 1
               /\ k > news' => heard'[k] = 0
               /\ lastNitz' = k => heard'[k] = 0 \/ Resent'
               /\ \A u \in Threads : Carries(u, k)' =>
                     /\ heard'[k] = 0 /\ lastNitz' # k
                     /\ \A w \in Threads : Carries(w, k)' => w = u
    BY <1>1, <1>6, <1>7, <2>2, <2>6 DEF NitzInv
  <2>7. /\ heard'[n] <= 1 /\ ~(n > news')
        /\ lastNitz' = n => Resent'
    BY <1>1, <2>2, <2>3, <2>5, BoundsAssumption DEF TypeInv, VarType
  <2>. QED
    BY <2>4, <2>6, <2>7 DEF NitzInv
<1>. QED
  BY <1>8, <1>9

LEMMA NitzKept ==
  ASSUME TypeInv, NitzInv, NEW v \in Vendors, keepNitz(v)
  PROVE  NitzInv'
<1>. v \in Threads
  BY BinderIsThread
<1>1. heard' = heard /\ news' = news /\ lastNitz' \in {lastNitz, th[v].of}
  BY DEF keepNitz
<1>2. th'[v] = Idle /\ \A u \in Threads : u # v => th'[u] = th[u]
  BY DEF TypeInv, keepNitz, SetThread
<1>3. \A u \in Threads : \A n \in 1 .. MaxNews : Carries(u, n)' => Carries(u, n) /\ u # v
  BY <1>2 DEF Carries, Idle, Doing, AfterCall
<1>4. Resent' <=> Resent
  BY <1>2, BinderIsThread, ThreadsAssumption DEF Resent
<1>5. PICK n \in 1 .. MaxNews : n = th[v].of /\ Carries(v, n)
  <2>1. news <= MaxNews /\ news \in Nat
    BY BoundsAssumption DEF TypeInv, VarType
  <2>. QED
    BY <2>1, BoundsAssumption DEF TypeInv, FitsJob, keepNitz, Carries
<1>. QED
  BY <1>1, <1>3, <1>4, <1>5 DEF NitzInv

\* The other steps of a thread.
LEMMA NitzThread ==
  ASSUME TypeInv, NitzInv, NEW t \in Threads, threadStep(t), ~nitzTimeReceivedInd(t),
         ~(t \in Vendors /\ keepNitz(t))
  PROVE  NitzInv'
<1>1. th[t] \in Rec /\ \A u \in Threads : u # t => th'[u] = th[u]
  BY OtherThreads DEF TypeInv
<1>2. heard' = heard /\ news' = news /\ lastNitz' \in {lastNitz, None}
  BY DEF threadStep, lock, respond, indicate, resendNothing, checkReturnStatus, resetCallbacks, relock,
     finish, replaceCallbacks, testNitz, freeNitz, nitzVars
<1>3. /\ \A n \in 1 .. MaxNews : Carries(t, n)' => Carries(t, n)
      /\ (t = Binder /\ Resent) => Resent' \/ lastNitz' = None
  <2>1. CASE lock(t) \/ checkReturnStatus(t) \/ resetCallbacks(t) \/ relock(t)
    BY <2>1, CallKept DEF Carries, Resent, AfterCall
  <2>2. CASE respond(t) \/ indicate(t)
    BY <2>2, CalledShape DEF respond, indicate, Carries, Resent, AfterCall
  <2>3. CASE resendNothing(t) \/ (t = Binder /\ (replaceCallbacks \/ testNitz))
    <3>1. th'[t].job # "nitz" /\ th[t].pc \notin AfterCall
      BY <2>3 DEF TypeInv, resendNothing, replaceCallbacks, testNitz, SetThread, Calling, Doing, Idle,
         AfterCall
    <3>. QED
      BY <3>1 DEF Carries, Resent
  <2>4. CASE t \in Vendors /\ freeNitz(t)
    <3>1. /\ th'[t].job = th[t].job /\ th'[t].of = th[t].of
          /\ th[t].pc = "store" /\ th'[t].pc = "keep" /\ t # Binder
      BY <1>1, <2>4, ThreadsAssumption DEF TypeInv, freeNitz, Goto, Rec
    <3>. QED
      BY <3>1 DEF Carries
  <2>5. CASE finish(t)
    <3>1. \A n \in 1 .. MaxNews : Carries(t, n)' => Carries(t, n)
      <4>1. CASE th[t].job = "nitz" /\ th[t].ret # 0 /\ th'[t] = [th[t] EXCEPT !.pc = "store"]
        BY <1>1, <2>5, <4>1 DEF finish, Carries, AfterCall, Rec
      <4>2. CASE th'[t] \in {Calling("radioState", None), Doing("test", "none", None), Idle}
        BY <4>2 DEF Carries, Calling, Doing, Idle
      <4>. QED
        BY <2>5, <4>1, <4>2, FinishShape
    <3>2. (t = Binder /\ Resent) => lastNitz' = None
      BY <2>5 DEF finish, Resent
    <3>. QED
      BY <3>1, <3>2
  <2>. QED
    BY <2>1, <2>2, <2>3, <2>4, <2>5 DEF threadStep
<1>4. \A u \in Threads : \A n \in 1 .. MaxNews : Carries(u, n)' => Carries(u, n)
  BY <1>1, <1>3 DEF Carries
<1>5. Resent => Resent' \/ lastNitz' = None
  BY <1>1, <1>3, BinderIsThread DEF Resent
<1>. QED
  BY <1>2, <1>4, <1>5, NitzSame

LEMMA NitzNext == TypeInv /\ NitzInv /\ [Next]_vars => NitzInv'
<1>. SUFFICES ASSUME TypeInv, NitzInv, [Next]_vars PROVE NitzInv'
  OBVIOUS
<1>1. ASSUME NEW v \in Vendors, unsolicited(v)
      PROVE  NitzInv'
  BY <1>1, NitzUnsolicited
<1>2. ASSUME NEW t \in Threads, threadStep(t)
      PROVE  NitzInv'
  BY <1>2, NitzTold, NitzKept, NitzThread
<1>. QED
  BY <1>1, <1>2, NitzEnvironment DEF Next

----------------------------------------------------------------------------
(* The lock *)

Holders == {t \in Threads : Holds(t)}

\* A refusal has no lock, but checkReturnStatus gives one up for it, and takes
\* it again: meanwhile somebody may hold one that is not counted.
Debt == IF th[Binder].job = "error" /\ th[Binder].pc \in {"reset", "relock"} THEN 1 ELSE 0

LockInv ==
    /\ Cardinality(Holders) <= readers + Debt
    /\ writer # Binder

LEMMA HoldersFinite == IsFiniteSet(Holders) /\ Cardinality(Holders) \in Nat
<1>1. IsFiniteSet(Threads)
  BY FS_AddElement, ThreadsAssumption DEF Threads
<1>2. Holders \in SUBSET Threads
  BY DEF Holders
<1>3. IsFiniteSet(Holders)
  BY <1>1, <1>2, FS_Subset
<1>. QED
  BY <1>3, FS_CardinalityType

\* What becomes of the number of holders.
LEMMA HoldersFewer ==
  ASSUME Holders' \subseteq Holders
  PROVE  Cardinality(Holders)' <= Cardinality(Holders) /\ Cardinality(Holders)' \in Nat
<1>1. Holders' \in SUBSET Holders
  OBVIOUS
<1>. QED
  BY <1>1, HoldersFinite, FS_Subset, FS_CardinalityType

LEMMA HoldersOneLess ==
  ASSUME NEW t \in Holders, Holders' \subseteq Holders \ {t}
  PROVE  Cardinality(Holders)' <= Cardinality(Holders) - 1 /\ Cardinality(Holders)' \in Nat
<1>1. /\ IsFiniteSet(Holders \ {t})
      /\ Cardinality(Holders \ {t}) = Cardinality(Holders) - 1
  BY HoldersFinite, FS_RemoveElement
<1>2. Holders' \in SUBSET (Holders \ {t})
  OBVIOUS
<1>. QED
  BY <1>1, <1>2, FS_Subset, FS_CardinalityType

LEMMA HoldersOneMore ==
  ASSUME NEW t, Holders' \subseteq Holders \cup {t}
  PROVE  Cardinality(Holders)' <= Cardinality(Holders) + 1 /\ Cardinality(Holders)' \in Nat
<1>1. /\ IsFiniteSet(Holders \cup {t})
      /\ Cardinality(Holders \cup {t}) <= Cardinality(Holders) + 1
  BY HoldersFinite, FS_AddElement
<1>2. Holders' \in SUBSET (Holders \cup {t})
  OBVIOUS
<1>3. /\ Cardinality(Holders') <= Cardinality(Holders \cup {t})
      /\ Cardinality(Holders') \in Nat /\ Cardinality(Holders \cup {t}) \in Nat
  BY <1>1, <1>2, FS_Subset, FS_CardinalityType
<1>. QED
  BY <1>1, <1>3, HoldersFinite

LEMMA LockInit == Init => LockInv
<1>. SUFFICES ASSUME Init PROVE LockInv
  OBVIOUS
<1>1. Holders = {}
  BY DEF Init, Holders, Holds, Idle, Doing
<1>2. th[Binder].job # "error"
  BY BinderIsThread DEF Init, Idle, Doing
<1>3. Debt = 0 /\ readers = 0 /\ writer # Binder
  BY <1>2, BinderIsThread, ThreadsAssumption DEF Init, Debt
<1>4. Cardinality(Holders) = 0
  BY <1>1, FS_EmptySet
<1>. QED
  BY <1>3, <1>4 DEF LockInv

\* No lock is taken, and none is given up but by those that had one.
LEMMA LockSame ==
  ASSUME TypeInv, LockInv, readers' = readers, writer' # Binder, Debt <= Debt', Debt \in Nat, Debt' \in Nat,
         Holders' \subseteq Holders
  PROVE  LockInv'
<1>1. readers \in Nat
  BY DEF TypeInv, VarType
<1>. QED
  BY <1>1, HoldersFewer, HoldersFinite DEF LockInv

LEMMA DebtType == Debt \in Nat /\ Debt' \in Nat /\ Debt \in {0, 1}
  BY DEF Debt

\* An idle thread begins with something, and has no lock yet.
Begins ==
    \E t \in Threads : \E r :
        /\ th' = [th EXCEPT ![t] = r] /\ IdleThread(t)
        /\ r.pc \in {"set", "lock"} \/ r.job = "error"

LEMMA LockEnvironment ==
  ASSUME TypeInv, LockInv,
         \/ clientStart \/ clientDies \/ setResponseFunctions
         \/ \E s \in Serials : dispatch(s) \/ refuse(s) \/ drop(s)
         \/ \E v \in Vendors : \/ unsolicited(v)
                               \/ \E s \in Serials : requestAck(v, s) \/ requestComplete(v, s)
         \/ UNCHANGED vars
  PROVE  LockInv'
<1>1. readers' = readers /\ writer' = writer /\ writer' # Binder
  BY DEF LockInv, clientStart, clientDies, setResponseFunctions, dispatch, refuse, drop, requestAck,
     requestComplete, unsolicited, vars, lockVars
<1>2. th' = th \/ Begins
  <2>1. CASE \/ clientStart \/ clientDies \/ (\E s \in Serials : dispatch(s) \/ drop(s)) \/ UNCHANGED vars
    BY <2>1 DEF clientStart, clientDies, dispatch, drop, vars
  <2>2. CASE setResponseFunctions
    <3>. DEFINE r == Doing("set", "none", alive)
    <3>1. r.pc = "set" /\ th' = [th EXCEPT ![Binder] = r] /\ IdleThread(Binder)
      BY <2>2 DEF setResponseFunctions, SetThread, Doing
    <3>. HIDE DEF r
    <3>. QED
      BY <3>1, BinderIsThread DEF Begins
  <2>3. ASSUME NEW s \in Serials, refuse(s)
        PROVE  Begins
    <3>. DEFINE r == Doing("call", "error", s)
    <3>1. r.job = "error" /\ th' = [th EXCEPT ![Binder] = r] /\ IdleThread(Binder)
      BY <2>3 DEF refuse, SetThread, Doing
    <3>. HIDE DEF r
    <3>. QED
      BY <3>1, BinderIsThread DEF Begins
  <2>4. ASSUME NEW v \in Vendors, NEW job, NEW of, IdleThread(v), SetThread(v, Calling(job, of))
        PROVE  Begins
    <3>. DEFINE r == Calling(job, of)
    <3>1. r.pc = "lock" /\ th' = [th EXCEPT ![v] = r]
      BY <2>4 DEF SetThread, Calling, Doing
    <3>. HIDE DEF r
    <3>. QED
      BY <2>4, <3>1, BinderIsThread DEF Begins
  <2>5. ASSUME NEW v \in Vendors,
               unsolicited(v) \/ \E s \in Serials : requestAck(v, s) \/ requestComplete(v, s)
        PROVE  Begins
    BY <2>4, <2>5 DEF unsolicited, requestAck, requestComplete
  <2>. QED
    BY <2>1, <2>2, <2>3, <2>5
<1>3. CASE th' = th
  <2>1. Holders' = Holders /\ Debt' = Debt
    BY <1>1, <1>3 DEF Holders, Holds, Debt
  <2>. QED
    BY <1>1, <2>1, LockSame, DebtType
<1>4. CASE th' # th
  <2>0. PICK t \in Threads : \E r :
           /\ th' = [th EXCEPT ![t] = r] /\ IdleThread(t)
           /\ r.pc \in {"set", "lock"} \/ r.job = "error"
    BY <1>2, <1>4 DEF Begins
  <2>1. PICK r :
           /\ th' = [th EXCEPT ![t] = r] /\ IdleThread(t)
           /\ r.pc \in {"set", "lock"} \/ r.job = "error"
    BY <2>0
  <2>2. th'[t] = r /\ \A u \in Threads : u # t => th'[u] = th[u]
    BY <2>1 DEF TypeInv
  <2>3. Holders' \subseteq Holders
    BY <1>1, <2>1, <2>2 DEF Holders, Holds
  <2>4. Debt <= Debt'
    BY <2>1, <2>2, BinderIsThread DEF Debt, IdleThread
  <2>. QED
    BY <1>1, <2>3, <2>4, LockSame, DebtType
<1>. QED
  BY <1>3, <1>4

\* A thread takes a read lock, or the write lock when there is no other.
LEMMA LockTaken ==
  ASSUME TypeInv, LockInv, NEW t \in Threads, lock(t) \/ relock(t)
  PROVE  LockInv'
<1>1. th[t] \in Rec /\ FitsJob(t) /\ \A u \in Threads : u # t => th'[u] = th[u]
  BY OtherThreads DEF TypeInv, threadStep
<1>2. th'[t].job = th[t].job /\ writer = None /\ readers \in Nat
  BY CallKept DEF lock, relock, readLock, CanRead, CanWrite, TypeInv, VarType
<1>3. CASE lock(t) /\ th[t].job = "nitz"
  <2>1. readers' = readers /\ writer' = t
    BY <1>3 DEF lock
  <2>2. Holders' \subseteq Holders
    BY <1>1, <1>2, <2>1, ThreadsAssumption DEF Holders, Holds
  <2>3. t # Binder
    BY <1>1, <1>3, ThreadsAssumption DEF FitsJob
  <2>4. Debt' = Debt
    BY <1>1, <2>3, BinderIsThread DEF Debt
  <2>. QED
    BY <2>1, <2>2, <2>3, <2>4, LockSame, DebtType
<1>4. CASE lock(t) /\ th[t].job # "nitz"
  <2>1. readers' = readers + 1 /\ writer' = writer
    BY <1>4 DEF lock, readLock
  <2>2. Holders' \subseteq Holders \cup {t}
    BY <1>1, <2>1 DEF Holders, Holds
  <2>3. Debt' = Debt
    BY <1>1, <1>2, <1>4, BinderIsThread DEF Debt, FitsJob, lock
  <2>. QED
    BY <1>2, <2>1, <2>2, <2>3, HoldersOneMore, HoldersFinite, DebtType DEF LockInv
<1>5. CASE relock(t)
  <2>1. readers' = readers + 1 /\ writer' = writer
    BY <1>5 DEF relock, readLock
  <2>2. CASE th[t].job = "error"
    <3>1. Holders' \subseteq Holders
      BY <1>1, <1>2, <2>1, <2>2 DEF Holders, Holds
    <3>2. Cardinality(Holders)' <= Cardinality(Holders) /\ Cardinality(Holders)' \in Nat
      BY <3>1, HoldersFewer
    <3>. QED
      BY <1>2, <2>1, <3>2, HoldersFinite, DebtType DEF LockInv, Debt
  <2>3. CASE th[t].job # "error"
    <3>1. Holders' \subseteq Holders \cup {t}
      BY <1>1, <2>1 DEF Holders, Holds
    <3>2. Debt' = Debt
      BY <1>1, <1>2, <2>3, BinderIsThread DEF Debt
    <3>. QED
      BY <1>2, <2>1, <3>1, <3>2, HoldersOneMore, HoldersFinite, DebtType DEF LockInv
  <2>. QED
    BY <2>2, <2>3
<1>. QED
  BY <1>3, <1>4, <1>5

\* A thread gives up its lock; a refusal gives up that of another.
LEMMA LockGiven ==
  ASSUME TypeInv, LockInv, NEW t \in Threads, checkReturnStatus(t) \/ finish(t)
  PROVE  LockInv'
<1>1. th[t] \in Rec /\ FitsJob(t) /\ \A u \in Threads : u # t => th'[u] = th[u]
  BY OtherThreads DEF TypeInv, threadStep
<1>2. readers \in Nat /\ writer \in Threads \cup {None}
  BY DEF TypeInv, VarType
<1>3. th'[t].pc \notin {"call", "check", "unlock"}
  <2>1. CASE checkReturnStatus(t)
    BY <1>1, <2>1 DEF TypeInv, checkReturnStatus, Rec
  <2>2. CASE finish(t)
    <3>1. CASE th'[t] = [th[t] EXCEPT !.pc = "store"]
      BY <1>1, <3>1 DEF Rec
    <3>2. CASE th'[t] \in {Calling("radioState", None), Doing("test", "none", None), Idle}
      BY <3>2 DEF Calling, Doing, Idle
    <3>. QED
      BY <2>2, <3>1, <3>2, FinishShape
  <2>. QED
    BY <2>1, <2>2
<1>4. CASE th[t].job = "error" /\ finish(t)
  <2>1. readers' = readers /\ writer' = writer
    BY <1>4 DEF finish, lockVars
  <2>2. Holders' \subseteq Holders
    BY <1>1, <1>3, <2>1 DEF Holders, Holds
  <2>3. Debt <= Debt'
    BY <1>1, <1>4, BinderIsThread DEF Debt, FitsJob, finish
  <2>. QED
    BY <2>1, <2>2, <2>3, LockSame, DebtType DEF LockInv
<1>5. CASE th[t].job = "error" /\ checkReturnStatus(t)
  <2>1. t = Binder /\ th[t].pc = "check"
    BY <1>1, <1>5 DEF FitsJob, checkReturnStatus
  <2>2. th'[t].job = "error" /\ th'[t].pc = "reset"
    BY <1>1, <1>5 DEF TypeInv, checkReturnStatus, Rec
  <2>3. Debt = 0 /\ Debt' = 1
    BY <2>1, <2>2 DEF Debt
  <2>4. writer' = writer /\ readers' \in Nat /\ readers <= readers' + 1
    BY <1>2, <1>5, <2>1 DEF checkReturnStatus, unlockBy, LockInv
  <2>5. Holders' \subseteq Holders
    BY <1>1, <1>3, <2>4 DEF Holders, Holds
  <2>6. Cardinality(Holders)' <= Cardinality(Holders) /\ Cardinality(Holders)' \in Nat
    BY <2>5, HoldersFewer
  <2>7. Cardinality(Holders) <= readers
    <3>1. Cardinality(Holders) <= readers + Debt
      BY DEF LockInv
    <3>2. Cardinality(Holders) <= readers + 0
      BY <2>3, <3>1
    <3>. QED
      BY <1>2, <3>2, HoldersFinite
  <2>8. Cardinality(Holders)' <= readers' + 1
    <3>1. Cardinality(Holders) \in Nat
      BY HoldersFinite
    <3>2. Cardinality(Holders)' <= readers
      BY <1>2, <2>6, <2>7, <3>1
    <3>3. \A c, r, q \in Nat : c <= r /\ r <= q + 1 => c <= q + 1
      OBVIOUS
    <3>. QED
      BY <1>2, <2>4, <2>6, <3>2, <3>3
  <2>. QED
    BY <2>3, <2>4, <2>8 DEF LockInv
<1>6. CASE th[t].job # "error"
  <2>1. unlockBy(t) /\ th[t].pc \in {"check", "unlock"}
    BY <1>6 DEF checkReturnStatus, finish
  <2>2. Debt <= Debt'
    BY <1>1, <1>6, BinderIsThread DEF Debt
  <2>3. CASE writer = t
    <3>1. readers' = readers /\ writer' = None
      BY <2>1, <2>3, ThreadsAssumption DEF unlockBy
    <3>2. Holders' \subseteq Holders
      BY <1>1, <1>3, <2>3, <3>1 DEF Holders, Holds
    <3>. QED
      BY <2>2, <3>1, <3>2, LockSame, DebtType, ThreadsAssumption, BinderIsThread
  <2>4. CASE writer # t
    <3>1. writer' = writer /\ readers' \in Nat
          /\ (readers' = readers - 1 \/ (readers' = readers /\ (readers = 0 \/ writer # None)))
      BY <1>2, <2>1, <2>4 DEF unlockBy
    <3>2. t \in Holders
      BY <1>1, <1>6, <2>1, <2>4 DEF Holders, Holds, FitsJob, AfterCall
    <3>3. Holders' \subseteq Holders \ {t}
      BY <1>1, <1>3, <3>1 DEF Holders, Holds
    <3>4. Cardinality(Holders)' <= Cardinality(Holders) - 1 /\ Cardinality(Holders)' \in Nat
      BY <3>2, <3>3, HoldersOneLess
    <3>5. Cardinality(Holders)' <= readers' + Debt'
      BY <1>2, <2>2, <3>1, <3>4, HoldersFinite, DebtType DEF LockInv
    <3>. QED
      BY <3>1, <3>5 DEF LockInv
  <2>. QED
    BY <2>3, <2>4
<1>. QED
  BY <1>4, <1>5, <1>6

\* The other steps of a thread leave the lock alone.
LEMMA LockThread ==
  ASSUME TypeInv, LockInv, NEW t \in Threads, threadStep(t), ~lock(t), ~relock(t),
         ~checkReturnStatus(t), ~finish(t)
  PROVE  LockInv'
<1>1. th[t] \in Rec /\ FitsJob(t) /\ \A u \in Threads : u # t => th'[u] = th[u]
  BY OtherThreads DEF TypeInv
<1>2. readers' = readers /\ writer' = writer
  BY DEF threadStep, respond, indicate, nitzTimeReceivedInd, resendNothing, resetCallbacks,
     replaceCallbacks, testNitz, freeNitz, keepNitz, lockVars
<1>3. /\ Holds(t)' => Holds(t)
      /\ t = Binder => Debt <= Debt'
  <2>1. CASE respond(t) \/ indicate(t) \/ nitzTimeReceivedInd(t)
    <3>1. /\ th[t].pc = "call" /\ th'[t].pc \in {"unlock", "check"} /\ th'[t].job = th[t].job
      BY <2>1, CalledShape DEF respond, indicate, nitzTimeReceivedInd
    <3>. QED
      BY <1>2, <3>1 DEF Holds, Debt
  <2>2. CASE resetCallbacks(t)
    <3>1. th[t].pc = "reset" /\ th'[t].pc = "relock" /\ th'[t].job = th[t].job
      BY <1>1, <2>2 DEF TypeInv, resetCallbacks, Goto, Rec
    <3>. QED
      BY <1>2, <3>1 DEF Holds, Debt
  <2>3. CASE \/ resendNothing(t) \/ (t = Binder /\ (replaceCallbacks \/ testNitz))
             \/ (t \in Vendors /\ (freeNitz(t) \/ keepNitz(t)))
    <3>1. th[t].pc \in {"call", "set", "test", "store", "keep"} /\ th'[t].pc \in {"idle", "lock", "keep"}
      BY <1>1, <2>3 DEF TypeInv, resendNothing, replaceCallbacks, testNitz, freeNitz, keepNitz, SetThread,
         Goto, Calling, Doing, Idle, Rec
    <3>. QED
      BY <3>1 DEF Holds, Debt
  <2>. QED
    BY <2>1, <2>2, <2>3 DEF threadStep
<1>4. Holders' \subseteq Holders
  BY <1>1, <1>2, <1>3 DEF Holders, Holds
<1>5. Debt <= Debt'
  BY <1>1, <1>3, BinderIsThread DEF Debt
<1>. QED
  BY <1>2, <1>4, <1>5, LockSame, DebtType DEF LockInv

LEMMA LockNext == TypeInv /\ LockInv /\ [Next]_vars => LockInv'
<1>. SUFFICES ASSUME TypeInv, LockInv, [Next]_vars PROVE LockInv'
  OBVIOUS
<1>1. ASSUME NEW t \in Threads, threadStep(t)
      PROVE  LockInv'
  BY <1>1, LockTaken, LockGiven, LockThread
<1>. QED
  BY <1>1, LockEnvironment DEF Next

----------------------------------------------------------------------------
(* The callbacks *)

\* A thread that may drop the callbacks has seen those of a dead framework.
MayDrop(t) == th[t].pc = "check" \/ (th[t].pc = "reset" /\ th[t].cnt = counter)

ProxyInv ==
    \A t \in Threads :
        /\ MayDrop(t) => proxy = None \/ proxy # alive
        /\ th[t].pc = "reset" => th[t].cnt <= counter

LEMMA ProxyInit == Init => ProxyInv
  BY DEF Init, ProxyInv, MayDrop, Idle, Doing

LEMMA ProxyEnvironment ==
  ASSUME TypeInv, ProxyInv,
         \/ clientStart \/ clientDies \/ setResponseFunctions
         \/ \E s \in Serials : dispatch(s) \/ refuse(s) \/ drop(s)
         \/ \E v \in Vendors : \/ unsolicited(v)
                               \/ \E s \in Serials : requestAck(v, s) \/ requestComplete(v, s)
         \/ UNCHANGED vars
  PROVE  ProxyInv'
<1>1. proxy' = proxy /\ counter' = counter
  BY DEF clientStart, clientDies, setResponseFunctions, dispatch, refuse, drop, requestAck,
     requestComplete, unsolicited, vars
<1>2. alive' \in {alive, None} \/ (proxy <= started /\ alive' = started + 1)
  BY DEF TypeInv, VarType, clientStart, clientDies, setResponseFunctions, dispatch, refuse, drop,
     requestAck, requestComplete, unsolicited, vars, clientVars
<1>3. proxy = None \/ proxy # alive => proxy' = None \/ proxy' # alive'
  BY <1>1, <1>2, BoundsAssumption DEF TypeInv, VarType, None
<1>4. \A t \in Threads : th'[t].pc \in {"check", "reset"} => th'[t] = th[t]
  BY BinderIsThread DEF TypeInv, clientStart, clientDies, setResponseFunctions, dispatch, refuse, drop,
     requestAck, requestComplete, unsolicited, vars, SetThread, Calling, Doing
<1>. QED
  BY <1>1, <1>3, <1>4 DEF ProxyInv, MayDrop

\* When the Binder thread may replace the callbacks nobody is between a failed
\* call and checkReturnStatus: all of them hold the lock, or owe it.
LEMMA NobodyChecks ==
  ASSUME TypeInv, LockInv, replaceCallbacks
  PROVE  \A t \in Threads : th[t].pc # "check"
<1>1. th[Binder].pc = "set" /\ writer = None /\ readers = 0
  BY DEF replaceCallbacks, CanWrite
<1>2. Debt = 0
  BY <1>1 DEF Debt
<1>3. Cardinality(Holders) <= readers + Debt
  BY DEF LockInv
<1>4. Cardinality(Holders) <= 0 + 0
  BY <1>1, <1>2, <1>3
<1>5. Cardinality(Holders) = 0
  BY <1>4, HoldersFinite
<1>6. Holders = {}
  BY <1>5, HoldersFinite, FS_EmptySet
<1>7. ASSUME NEW t \in Threads, th[t].pc = "check"
      PROVE  t \in Holders
  <2>1. FitsJob(t)
    BY DEF TypeInv
  <2>2. t # Binder
    BY <1>1, <1>7
  <2>. QED
    BY <1>1, <1>7, <2>1, <2>2, ThreadsAssumption DEF FitsJob, Holders, Holds, AfterCall
<1>. QED
  BY <1>6, <1>7

LEMMA ProxyReplaced ==
  ASSUME TypeInv, LockInv, ProxyInv, replaceCallbacks
  PROVE  ProxyInv'
<1>1. counter' = counter + 1 /\ counter \in Nat
  BY DEF replaceCallbacks, TypeInv, VarType
<1>2. ASSUME NEW t \in Threads, th'[t].pc \in {"check", "reset"}
      PROVE  /\ th[t] = th'[t] /\ th[t].pc = "reset" /\ th[t].cnt \in Nat
  <2>1. th[t] = th'[t]
    BY <1>2, BinderIsThread DEF replaceCallbacks, SetThread, Calling, Doing, TypeInv
  <2>2. th[t].cnt \in Nat
    BY DEF TypeInv, Rec
  <2>. QED
    BY <1>2, <2>1, <2>2, NobodyChecks
<1>. QED
  BY <1>1, <1>2 DEF ProxyInv, MayDrop

LEMMA ProxyThread ==
  ASSUME TypeInv, ProxyInv, NEW t \in Threads, threadStep(t), ~(t = Binder /\ replaceCallbacks)
  PROVE  ProxyInv'
<1>1. th[t] \in Rec /\ \A u \in Threads : u # t => th'[u] = th[u]
  BY OtherThreads DEF TypeInv
<1>2. alive' = alive /\ counter \in Nat
  BY DEF TypeInv, VarType, threadStep, lock, respond, indicate, nitzTimeReceivedInd, resendNothing,
     checkReturnStatus, resetCallbacks, relock, finish, replaceCallbacks, testNitz, freeNitz, keepNitz,
     clientVars
<1>3. CASE resetCallbacks(t)
  <2>1. th[t].pc = "reset" /\ th'[t].pc = "relock"
    BY <1>1, <1>3 DEF TypeInv, resetCallbacks, Goto, Rec
  <2>2. (proxy' = None /\ counter' = counter + 1) \/ (proxy' = proxy /\ counter' = counter)
    BY <1>3 DEF resetCallbacks
  <2>3. \A u \in Threads : th[u].cnt \in Nat
    BY DEF TypeInv, Rec
  <2>. QED
    BY <1>1, <1>2, <2>1, <2>2, <2>3 DEF ProxyInv, MayDrop
<1>4. CASE ~resetCallbacks(t)
  <2>1. proxy' = proxy /\ counter' = counter
    BY <1>4 DEF threadStep, lock, respond, indicate, nitzTimeReceivedInd, resendNothing,
       checkReturnStatus, relock, finish, replaceCallbacks, testNitz, freeNitz, keepNitz
  <2>2. CASE checkReturnStatus(t)
    <3>1. th[t].pc = "check" /\ th'[t].pc = "reset" /\ th'[t].cnt = counter
      BY <1>1, <2>2 DEF TypeInv, checkReturnStatus, Rec
    <3>. QED
      BY <1>1, <1>2, <2>1, <3>1 DEF ProxyInv, MayDrop
  <2>3. CASE respond(t) \/ indicate(t) \/ nitzTimeReceivedInd(t)
    <3>1. th'[t].pc = IF proxy \in {None, alive} THEN "unlock" ELSE "check"
      BY <2>3, CalledShape DEF respond, indicate, nitzTimeReceivedInd
    <3>. QED
      BY <1>1, <1>2, <2>1, <3>1 DEF ProxyInv, MayDrop
  <2>4. CASE ~checkReturnStatus(t) /\ ~(respond(t) \/ indicate(t) \/ nitzTimeReceivedInd(t))
    <3>1. th'[t].pc \notin {"check", "reset"}
      <4>1. CASE lock(t) \/ relock(t)
        BY <1>1, <4>1 DEF TypeInv, lock, relock, Goto, Rec
      <4>2. CASE finish(t)
        <5>1. CASE th'[t] = [th[t] EXCEPT !.pc = "store"]
          BY <1>1, <5>1 DEF Rec
        <5>2. CASE th'[t] \in {Calling("radioState", None), Doing("test", "none", None), Idle}
          BY <5>2 DEF Calling, Doing, Idle
        <5>. QED
          BY <4>2, <5>1, <5>2, FinishShape
      <4>3. CASE \/ resendNothing(t) \/ (t = Binder /\ testNitz)
                 \/ (t \in Vendors /\ (freeNitz(t) \/ keepNitz(t)))
        BY <1>1, <4>3 DEF TypeInv, resendNothing, testNitz, freeNitz, keepNitz, SetThread, Goto,
           Calling, Doing, Idle, Rec
      <4>. QED
        BY <1>4, <2>4, <4>1, <4>2, <4>3 DEF threadStep
    <3>. QED
      BY <1>1, <1>2, <2>1, <3>1 DEF ProxyInv, MayDrop
  <2>. QED
    BY <2>2, <2>3, <2>4
<1>. QED
  BY <1>3, <1>4

LEMMA ProxyNext == TypeInv /\ LockInv /\ ProxyInv /\ [Next]_vars => ProxyInv'
<1>. SUFFICES ASSUME TypeInv, LockInv, ProxyInv, [Next]_vars PROVE ProxyInv'
  OBVIOUS
<1>1. ASSUME NEW t \in Threads, threadStep(t)
      PROVE  ProxyInv'
  BY <1>1, ProxyReplaced, ProxyThread
<1>. QED
  BY <1>1, ProxyEnvironment DEF Next

----------------------------------------------------------------------------
(* The theorems *)

RilInv == TypeInv /\ AnswerInv /\ NitzInv /\ LockInv /\ ProxyInv

LEMMA RilInvariant == Spec => []RilInv
<1>1. Init => RilInv
  BY TypeInit, AnswerInit, NitzInit, LockInit, ProxyInit DEF RilInv
<1>2. RilInv /\ [Next]_vars => RilInv'
  BY TypeNext, AnswerNext, NitzNext, LockNext, ProxyNext DEF RilInv
<1>. QED
  BY <1>1, <1>2, PTL DEF Spec

\* No request is answered twice and no NITZ time reaches a framework twice,
\* whatever the vendor's threads complete, the framework dies and registers, and
\* NITZ data is stored, resent and freed without a common lock.
THEOREM NothingToldTwice == Spec => []HeardOnce
<1>1. RilInv => HeardOnce
  <2>. SUFFICES ASSUME RilInv PROVE HeardOnce
    OBVIOUS
  <2>1. TypeOK
    <3>1. \A t \in Threads : th[t].pc \in Pcs /\ th[t].job \in Jobs \cup {"none"}
      BY DEF RilInv, TypeInv, Rec
    <3>. QED
      BY <3>1 DEF RilInv, TypeInv, VarType, TypeOK, Pcs
  <2>2. AnsweredOnce
    BY DEF RilInv, AnswerInv, AnsweredOnce
  <2>3. NitzHeardOnce
    <3>1. 1 .. news \subseteq 1 .. MaxNews
      BY BoundsAssumption DEF RilInv, TypeInv, VarType
    <3>. QED
      BY <3>1 DEF RilInv, NitzInv, NitzHeardOnce
  <2>. QED
    BY <2>1, <2>2, <2>3 DEF HeardOnce
<1>. QED
  BY <1>1, RilInvariant, PTL

\* checkReturnStatus and mCounterRadio: a thread that drops the callbacks of a
\* dead framework never drops those of one that is running.
THEOREM RunningKeepsCallbacks == Spec => NewCallbacksKept
<1>1. RilInv /\ [Next]_vars => [proxy # None /\ proxy' = None => proxy # alive]_<<proxy, alive>>
  <2>. SUFFICES ASSUME RilInv, Next, proxy # None, proxy' = None
                PROVE  proxy # alive
    BY DEF vars, clientVars
  <2>1. PICK t \in Threads : threadStep(t)
    BY DEF Next, clientStart, clientDies, setResponseFunctions, dispatch, refuse, drop, unsolicited,
       requestAck, requestComplete
  <2>2. CASE t = Binder /\ replaceCallbacks
    <3>1. proxy' # None
      BY <2>2 DEF RilInv, TypeInv, VarType, FitsJob, replaceCallbacks, None
    <3>. QED
      BY <3>1
  <2>3. CASE resetCallbacks(t)
    <3>1. MayDrop(t)
      BY <2>3 DEF resetCallbacks, MayDrop
    <3>. QED
      BY <3>1 DEF RilInv, ProxyInv
  <2>4. CASE ~(t = Binder /\ replaceCallbacks) /\ ~resetCallbacks(t)
    BY <2>1, <2>4 DEF threadStep, lock, respond, indicate, nitzTimeReceivedInd, resendNothing,
       checkReturnStatus, relock, finish, testNitz, freeNitz, keepNitz
  <2>. QED
    BY <2>2, <2>3, <2>4
<1>. QED
  BY <1>1, RilInvariant, PTL DEF Spec, NewCallbacksKept

----------------------------------------------------------------------------
(***************************************************************************)
(* The wake lock (RilWakeLock) for any workers, delay, timers and messages: *)
(* while it is held somebody will release it, and no timer is slept over    *)
(* or called after its end.                                                 *)
(***************************************************************************)

\* The delay and the bounds are numbers, and no worker is 0.
WakeBounds ==
    /\ WakeDelay \in Nat /\ MaxTimers \in Nat /\ MaxMessages \in Nat
    /\ Nil \notin Workers

LEMMA WakeBoundsHold == WakeBounds
  BY DelayAssumption, WakeBoundsAssumption, WorkersAssumption DEF WakeBounds

WorkerPcs == {"idle", "wake", "schedule", "trigger", "cancel", "setLast", "cancelLast"}
LoopPcs == {"calc", "select", "timeouts", "reads", "fire", "expire", "clear", "unset", "free"}
TimerInfo == [wake : BOOLEAN, left : -1 .. WakeDelay, cancelled : BOOLEAN, freed : BOOLEAN]
Work(n) == [pc : WorkerPcs, new : 0 .. n, old : 0 .. n]

\* What the event thread and the timers hold.
LoopType ==
    /\ created \in 0 .. MaxTimers
    /\ info \in [Timers -> TimerInfo]
    /\ timers \in Seq(1 .. created) /\ fire \in Seq(0 .. created)
    /\ current \in 0 .. created /\ last \in 0 .. created
    /\ pc \in LoopPcs /\ nap \in 0 .. Forever /\ pipe \in BOOLEAN /\ ready \in BOOLEAN

\* What the workers and the wake lock hold.
LockType ==
    /\ acked \in BOOLEAN /\ held \in BOOLEAN /\ count \in Nat
    /\ mutex \in Workers \cup {Nil}
    /\ sent \in 0 .. MaxMessages /\ owing \in Nat
    /\ worker \in [Workers -> Work(created)]

\* Timers are in the order of their expiry.
Sorted == \A j, k \in DOMAIN timers : j < k => info[timers[j]].left <= info[timers[k]].left

\* A timer is in one place, once.
Once(s) == \A j, k \in DOMAIN s : s[j] = s[k] /\ s[j] # Nil => j = k
OnePlace ==
    /\ Once(timers) /\ Once(fire)
    /\ ToSet(timers) \cap ToSet(fire) = {}
    /\ current \notin ToSet(timers) /\ (current # Nil => current \notin ToSet(fire))

\* The pending list is empty when the loop goes to sleep, and a callback is
\* running between two entries of it only.
LoopInv ==
    /\ pc \in {"calc", "select", "timeouts"} => fire = <<>>
    /\ current = Nil <=> pc \in {"calc", "select", "timeouts", "reads", "fire"}

\* Messages that have taken the lock and are not out yet.
InFlight == {w \in Workers : worker[w].pc \in {"schedule", "trigger", "cancel", "setLast"}}
Counted == IsFiniteSet(InFlight) /\ owing + Cardinality(InFlight) <= sent

\* With acknowledgements the mutex belongs to the worker that is in the middle
\* of a message; without them there are no mutex and no count.
MutexInv ==
    /\ acked => \A w \in Workers :
          /\ worker[w].pc # "schedule"
          /\ mutex = w <=> worker[w].pc \in {"trigger", "cancel", "setLast", "cancelLast"}
    /\ ~acked => count = 0 /\ mutex = Nil /\ \A w \in Workers : worker[w].pc # "cancelLast"

\* The timer of a message will release the lock, and nobody is about to cancel it.
Guards(w) ==
    /\ worker[w].pc \in {"trigger", "cancel", "setLast"} =>
          worker[w].new \in 1 .. created /\ WillRelease(worker[w].new)
    /\ worker[w].pc = "trigger" => last # worker[w].new
    /\ worker[w].pc = "cancel" => worker[w].old # worker[w].new
    /\ worker[w].pc = "cancelLast" => ~held /\ count = 0

HeldInv == acked /\ held /\ mutex = Nil => owing > 0 /\ \E i \in 1 .. created : WillRelease(i)
GuardInv == acked => \A w \in Workers : Guards(w)

\* A message that is counted is owed or about to go out.
CountInv ==
    acked => count <= owing \/ (count = owing + 1 /\ \E w \in Workers : worker[w].pc \in {"cancel", "setLast"})

LoopWakeInv == LoopType /\ Sorted /\ OnePlace /\ LoopInv
WakeInv ==
    /\ WakeBounds /\ LoopWakeInv /\ LockType
    /\ NoTimerOverslept /\ FiredOnce
    /\ Counted /\ MutexInv /\ HeldInv /\ GuardInv /\ CountInv

----------------------------------------------------------------------------
(* Lists *)

LEMMA WakeLeast ==
  ASSUME NEW T, T \subseteq Nat, T # {}
  PROVE  \E x \in T : \A y \in T : x <= y
<1>1. PICK x \in T : \A y \in T : ~ (<<y, x>> \in OpToRel(<, Nat))
  BY NatLessThanWellFounded, WFMin
<1>2. ASSUME NEW y \in T PROVE x <= y
  <2>1. x \in Nat /\ y \in Nat /\ ~(y < x)
    BY <1>1 DEF OpToRel
  <2> QED BY <2>1
<1> QED BY <1>2

(* A list cut in two. *)
LEMMA CutList ==
  ASSUME NEW S, NEW list \in Seq(S), NEW c \in 0 .. Len(list)
  PROVE  LET left == SubSeq(list, 1, c)
             right == SubSeq(list, c + 1, Len(list))
         IN /\ Len(list) \in Nat /\ DOMAIN list = 1 .. Len(list)
            /\ left \in Seq(S) /\ Len(left) = c /\ \A j \in 1 .. c : left[j] = list[j]
            /\ right \in Seq(S) /\ Len(right) = Len(list) - c
            /\ \A j \in 1 .. Len(list) - c : right[j] = list[c + j]
            /\ ToSet(left) \cup ToSet(right) = ToSet(list)
<1> DEFINE n == Len(list)
           left == SubSeq(list, 1, c)
           right == SubSeq(list, c + 1, n)
<1>1. n \in Nat /\ c \in Nat /\ c <= n /\ DOMAIN list = 1 .. n /\ \A k \in 1 .. n : list[k] \in S
  OBVIOUS
<1> HIDE DEF n
<1>2. left \in Seq(S) /\ Len(left) = c /\ \A j \in 1 .. c : left[j] = list[j]
  <2>1. 1 \in Int /\ c \in Int /\ \A j \in 1 .. c : list[j] \in S
    BY <1>1
  <2>2. /\ left \in Seq(S)
        /\ Len(left) = IF 1 <= c THEN c - 1 + 1 ELSE 0
        /\ \A j \in 1 .. c - 1 + 1 : left[j] = list[1 + j - 1]
    BY <2>1, SubSeqProperties
  <2> HIDE DEF left
  <2>3. \A j \in 1 .. c : j \in 1 .. c - 1 + 1 /\ 1 + j - 1 = j
    BY <1>1
  <2>4. Len(left) = c
    BY <1>1, <2>2
  <2> QED BY <2>2, <2>3, <2>4
<1>3. right \in Seq(S) /\ Len(right) = n - c /\ \A j \in 1 .. n - c : right[j] = list[c + j]
  <2>1. c + 1 \in Int /\ n \in Int /\ \A j \in c + 1 .. n : list[j] \in S
    BY <1>1
  <2>2. /\ right \in Seq(S)
        /\ Len(right) = IF c + 1 <= n THEN n - (c + 1) + 1 ELSE 0
        /\ \A j \in 1 .. n - (c + 1) + 1 : right[j] = list[c + 1 + j - 1]
    BY <2>1, SubSeqProperties
  <2> HIDE DEF right
  <2>3. \A j \in 1 .. n - c : j \in 1 .. n - (c + 1) + 1 /\ c + 1 + j - 1 = c + j
    BY <1>1
  <2>4. Len(right) = n - c
    BY <1>1, <2>2
  <2> QED BY <2>2, <2>3, <2>4
<1> HIDE DEF left, right
<1>4. ToSet(left) \cup ToSet(right) = ToSet(list)
  <2>1. DOMAIN left = 1 .. c /\ DOMAIN right = 1 .. n - c
    BY <1>1, <1>2, <1>3
  <2>2. ToSet(left) \subseteq ToSet(list) /\ ToSet(right) \subseteq ToSet(list)
    <3>1. \A j \in 1 .. c : j \in 1 .. n
      BY <1>1
    <3>2. \A j \in 1 .. n - c : c + j \in 1 .. n
      BY <1>1
    <3>3. ToSet(left) = {left[j] : j \in 1 .. c} /\ ToSet(right) = {right[j] : j \in 1 .. n - c}
      BY <2>1 DEF ToSet
    <3>4. ToSet(list) = {list[j] : j \in 1 .. n}
      BY <1>1 DEF ToSet
    <3> QED BY <1>2, <1>3, <3>1, <3>2, <3>3, <3>4
  <2>3. ASSUME NEW k \in 1 .. n PROVE list[k] \in ToSet(left) \cup ToSet(right)
    <3>1. CASE k <= c
      BY <3>1, <1>1, <1>2, <2>1 DEF ToSet
    <3>2. CASE ~(k <= c)
      <4>1. k - c \in 1 .. n - c /\ c + (k - c) = k
        BY <3>2, <1>1
      <4>2. right[k - c] = list[k]
        BY <4>1, <1>3
      <4> QED BY <4>1, <4>2, <2>1 DEF ToSet
    <3> QED BY <3>1, <3>2
  <2> QED BY <2>2, <2>3, <1>1 DEF ToSet
<1> QED BY <1>1, <1>2, <1>3, <1>4 DEF n, left, right

(* An entry put at a place of its own. *)
LEMMA InsertedList ==
  ASSUME NEW S, NEW list \in Seq(S), NEW at \in 1 .. Len(list) + 1, NEW x \in S
  PROVE  LET new == InsertAt(list, at, x)
         IN /\ new \in Seq(S) /\ DOMAIN new = 1 .. Len(list) + 1 /\ DOMAIN list = 1 .. Len(list)
            /\ Len(list) \in Nat /\ new[at] = x
            /\ \A j \in 1 .. at - 1 : new[j] = list[j]
            /\ \A j \in at + 1 .. Len(list) + 1 : new[j] = list[j - 1]
            /\ ToSet(new) = ToSet(list) \cup {x}
<1>0. PICK c \in 0 .. Len(list) : c = at - 1 /\ at = c + 1
  OBVIOUS
<1> DEFINE n == Len(list)
           left == SubSeq(list, 1, c)
           right == SubSeq(list, c + 1, n)
           mid == left \o <<x>>
           new == mid \o right
<1>1. /\ n \in Nat /\ DOMAIN list = 1 .. n
      /\ left \in Seq(S) /\ Len(left) = c /\ \A j \in 1 .. c : left[j] = list[j]
      /\ right \in Seq(S) /\ Len(right) = n - c /\ \A j \in 1 .. n - c : right[j] = list[c + j]
      /\ ToSet(left) \cup ToSet(right) = ToSet(list)
  BY CutList
<1>2. c \in Nat /\ c <= n /\ c \in Int /\ n \in Int
  BY <1>0
<1>3. InsertAt(list, at, x) = new
  BY <1>0 DEF InsertAt
<1> HIDE DEF n, left, right
<1>4. <<x>> \in Seq(S) /\ Len(<<x>>) = 1 /\ <<x>>[1] = x
  OBVIOUS
<1>5. /\ mid \in Seq(S) /\ Len(mid) = c + 1
      /\ \A i \in 1 .. c + 1 : mid[i] = IF i <= c THEN left[i] ELSE <<x>>[i - c]
  BY <1>1, <1>4, ConcatProperties
<1>6. mid[c + 1] = x /\ \A i \in 1 .. c : mid[i] = list[i]
  <2>1. (c + 1) - c = 1 /\ ~(c + 1 <= c) /\ c + 1 \in 1 .. c + 1
    BY <1>2
  <2>2. \A i \in 1 .. c : i <= c /\ i \in 1 .. c + 1
    BY <1>2
  <2> HIDE DEF mid
  <2> QED BY <1>1, <1>4, <1>5, <2>1, <2>2
<1> HIDE DEF mid
<1>7. /\ new \in Seq(S) /\ Len(new) = (c + 1) + (n - c)
      /\ \A i \in 1 .. (c + 1) + (n - c) : new[i] = IF i <= c + 1 THEN mid[i] ELSE right[i - (c + 1)]
  <2>1. Len(mid) = c + 1 /\ Len(right) = n - c /\ mid \in Seq(S) /\ right \in Seq(S)
    BY <1>1, <1>5
  <2>2. /\ new \in Seq(S) /\ Len(new) = Len(mid) + Len(right)
        /\ \A i \in 1 .. Len(mid) + Len(right) : new[i] = IF i <= Len(mid) THEN mid[i] ELSE right[i - Len(mid)]
    BY <2>1, ConcatProperties
  <2> HIDE DEF new
  <2> QED BY <2>1, <2>2
<1> HIDE DEF new
<1>8. DOMAIN new = 1 .. n + 1
  BY <1>2, <1>7
<1>9. /\ new[c + 1] = x
      /\ \A j \in 1 .. c : new[j] = list[j]
      /\ \A j \in c + 2 .. n + 1 : new[j] = right[j - (c + 1)]
  <2>1. \A j \in 1 .. c + 1 : j \in 1 .. (c + 1) + (n - c) /\ j <= c + 1
    BY <1>2
  <2>2. \A j \in c + 2 .. n + 1 : j \in 1 .. (c + 1) + (n - c) /\ ~(j <= c + 1)
    BY <1>2
  <2>3. c + 1 \in 1 .. c + 1 /\ \A j \in 1 .. c : j \in 1 .. c + 1
    BY <1>2
  <2> QED BY <1>6, <1>7, <2>1, <2>2, <2>3
<1>10. \A j \in c + 2 .. n + 1 : new[j] = list[j - 1]
  <2>1. \A j \in c + 2 .. n + 1 : j - (c + 1) \in 1 .. n - c /\ c + (j - (c + 1)) = j - 1
    BY <1>2
  <2> QED BY <2>1, <1>1, <1>9
<1>11. ToSet(new) = ToSet(list) \cup {x}
  <2>1. ASSUME NEW j \in 1 .. n + 1 PROVE new[j] \in ToSet(list) \cup {x}
    <3>1. j \in 1 .. c \/ j = c + 1 \/ (j \in c + 2 .. n + 1 /\ j - 1 \in 1 .. n)
      BY <1>2
    <3>2. j \in 1 .. c => j \in 1 .. n
      BY <1>2
    <3> QED BY <3>1, <3>2, <1>1, <1>9, <1>10 DEF ToSet
  <2>2. ASSUME NEW k \in 1 .. n PROVE list[k] \in ToSet(new)
    <3>1. k \in 1 .. c \/ (k + 1 \in c + 2 .. n + 1 /\ (k + 1) - 1 = k)
      BY <1>2
    <3>2. k \in 1 .. n + 1 /\ k + 1 \in 1 .. n + 1
      BY <1>2
    <3> QED BY <3>1, <3>2, <1>8, <1>9, <1>10 DEF ToSet
  <2>3. c + 1 \in 1 .. n + 1
    BY <1>2
  <2>4. ToSet(new) = {new[j] : j \in 1 .. n + 1} /\ ToSet(list) = {list[j] : j \in 1 .. n}
    BY <1>1, <1>8 DEF ToSet
  <2>5. x \in ToSet(new)
    BY <2>3, <2>4, <1>9
  <2>6. ToSet(new) \subseteq ToSet(list) \cup {x}
    BY <2>1, <2>4
  <2>7. ToSet(list) \subseteq ToSet(new)
    BY <2>2, <2>4
  <2> QED BY <2>5, <2>6, <2>7
<1>12. at + 1 = c + 2 /\ at - 1 = c /\ at = c + 1
  BY <1>0
<1> QED BY <1>1, <1>3, <1>7, <1>8, <1>9, <1>10, <1>11, <1>12 DEF n

----------------------------------------------------------------------------
(* Timers *)

LEMMA TimerListFacts ==
  ASSUME WakeBounds, LoopType
  PROVE  /\ Len(timers) \in Nat /\ DOMAIN timers = 1 .. Len(timers)
         /\ Len(fire) \in Nat /\ DOMAIN fire = 1 .. Len(fire)
         /\ created \in Nat /\ Timers = 1 .. MaxTimers /\ 1 .. created \subseteq Timers
         /\ \A j \in DOMAIN timers : timers[j] \in 1 .. created /\ timers[j] \in ToSet(timers)
         /\ \A j \in DOMAIN fire : fire[j] \in 0 .. created /\ fire[j] \in ToSet(fire)
         /\ ToSet(timers) \subseteq 1 .. created /\ ToSet(fire) \subseteq 0 .. created
         /\ \A i \in 1 .. created : info[i] \in TimerInfo /\ info[i].left \in Int
         /\ \A j \in DOMAIN timers : info[timers[j]].left \in Int
<1>1. created \in Nat /\ Timers = 1 .. MaxTimers /\ 1 .. created \subseteq Timers
  BY DEF WakeBounds, LoopType, Timers
<1>2. Len(timers) \in Nat /\ DOMAIN timers = 1 .. Len(timers) /\ \A j \in DOMAIN timers : timers[j] \in 1 .. created
  BY DEF LoopType
<1>3. Len(fire) \in Nat /\ DOMAIN fire = 1 .. Len(fire) /\ \A j \in DOMAIN fire : fire[j] \in 0 .. created
  BY DEF LoopType
<1>4. \A i \in 1 .. created : info[i] \in TimerInfo
  BY <1>1 DEF LoopType
<1>5. \A i \in 1 .. created : info[i].left \in Int
  BY <1>4 DEF TimerInfo, WakeBounds
<1> QED BY <1>1, <1>2, <1>3, <1>4, <1>5 DEF ToSet

(* The timers that are sooner are the first of the list. *)
LEMMA SoonerIsPrefix ==
  ASSUME WakeBounds, LoopType, Sorted, NEW delay \in Int
  PROVE  LET sooner == {k \in DOMAIN timers : info[timers[k]].left < delay}
         IN  Cardinality(sooner) \in 0 .. Len(timers) /\ sooner = 1 .. Cardinality(sooner)
<1> DEFINE n == Len(timers)
           at(k) == info[timers[k]].left
           sooner == {k \in DOMAIN timers : at(k) < delay}
           rest == {k \in DOMAIN timers : ~(at(k) < delay)}
<1>1. n \in Nat /\ DOMAIN timers = 1 .. n /\ \A k \in 1 .. n : at(k) \in Int
  BY TimerListFacts
<1>2. \A j, k \in 1 .. n : j < k => at(j) <= at(k)
  BY <1>1 DEF Sorted
<1>3. \E c \in 0 .. n : sooner = 1 .. c
  <2> HIDE DEF at
  <2>1. CASE rest = {}
    <3>1. sooner = 1 .. n
      BY <2>1, <1>1
    <3> QED BY <3>1, <1>1
  <2>2. CASE rest # {}
    <3>1. rest \subseteq Nat
      BY <1>1
    <3>2. PICK m \in rest : \A y \in rest : m <= y
      BY <2>2, <3>1, WakeLeast
    <3>3. m \in 1 .. n /\ ~(at(m) < delay)
      BY <3>2, <1>1
    <3>4. ASSUME NEW k \in 1 .. n PROVE k \in sooner <=> k \in 1 .. m - 1
      <4>1. CASE k < m
        <5>1. k \notin rest
          BY <3>1, <3>2, <4>1, <1>1
        <5> QED BY <5>1, <4>1, <3>3, <1>1
      <4>2. CASE k = m
        BY <4>2, <3>3, <1>1
      <4>3. CASE m < k
        <5>1. at(m) <= at(k) /\ at(m) \in Int /\ at(k) \in Int
          BY <4>3, <1>1, <1>2, <3>3
        <5> QED BY <5>1, <3>3, <4>3, <1>1
      <4> QED BY <4>1, <4>2, <4>3, <3>3, <1>1
    <3>5. sooner \subseteq 1 .. n /\ 1 .. m - 1 \subseteq 1 .. n /\ m - 1 \in 0 .. n
      BY <3>3, <1>1
    <3> HIDE DEF sooner
    <3>6. sooner = 1 .. m - 1
      BY <3>4, <3>5
    <3> QED BY <3>5, <3>6
  <2> QED BY <2>1, <2>2
<1>4. PICK c \in 0 .. n : sooner = 1 .. c
  BY <1>3
<1>5. Cardinality(1 .. c) = c
  <2>1. 1 \in Int /\ c \in Int /\ c \in Nat
    BY <1>1
  <2>2. Cardinality(1 .. c) = IF 1 > c THEN 0 ELSE c - 1 + 1
    BY <2>1, FS_Interval
  <2> QED BY <2>1, <2>2
<1> QED BY <1>4, <1>5

(* A new timer is in the list once, at its place. *)
LEMMA TimerAdded ==
  ASSUME WakeBounds, LoopType, Sorted, OnePlace, NEW wake \in BOOLEAN, NEW delay \in 0 .. WakeDelay,
         addTimer(wake, delay)
  PROVE  /\ created \in Nat /\ created' = created + 1 /\ created' \in 0 .. MaxTimers
         /\ info' \in [Timers -> TimerInfo]
         /\ info'[created + 1] = NewInfo(wake, delay)
         /\ \A i \in Timers : i # created + 1 => info'[i] = info[i]
         /\ timers' \in Seq(1 .. created')
         /\ ToSet(timers') = ToSet(timers) \cup {created + 1}
         /\ Sorted' /\ Once(timers')
<1> DEFINE new == created + 1
           sooner == {k \in DOMAIN timers : info[timers[k]].left < delay}
<1>1. /\ created \in Nat /\ created' = new /\ new \in Timers /\ new \in 0 .. MaxTimers
  BY DEF addTimer, LoopType, WakeBounds, Timers
<1>2. NewInfo(wake, delay) \in TimerInfo
  BY DEF NewInfo, TimerInfo, WakeBounds
<1>3. /\ info' \in [Timers -> TimerInfo] /\ info'[new] = NewInfo(wake, delay)
      /\ \A i \in Timers : i # new => info'[i] = info[i]
  BY <1>1, <1>2 DEF addTimer, LoopType
<1>4. delay \in Int
  BY DEF WakeBounds
<1>5. PICK c \in 0 .. Len(timers) : c = Cardinality(sooner) /\ sooner = 1 .. c
  BY <1>4, SoonerIsPrefix
<1>6. timers' = InsertAt(timers, c + 1, new)
  BY <1>5 DEF addTimer, insertTimer
<1>7. timers \in Seq(1 .. new) /\ new \in 1 .. new
  BY <1>1 DEF LoopType
<1>8. /\ timers' \in Seq(1 .. new) /\ DOMAIN timers' = 1 .. Len(timers) + 1 /\ DOMAIN timers = 1 .. Len(timers)
      /\ Len(timers) \in Nat /\ timers'[c + 1] = new
      /\ \A j \in 1 .. c : timers'[j] = timers[j]
      /\ \A j \in c + 2 .. Len(timers) + 1 : timers'[j] = timers[j - 1]
      /\ ToSet(timers') = ToSet(timers) \cup {new}
  <2> DEFINE Ids == 1 .. new
  <2>0. Len(timers) \in Nat
    BY TimerListFacts
  <2>1. PICK k \in 1 .. Len(timers) + 1 : k = c + 1
    BY <2>0
  <2>2. timers \in Seq(Ids) /\ new \in Ids
    BY <1>7
  <2> HIDE DEF Ids, new
  <2>3. LET list == InsertAt(timers, k, new)
        IN /\ list \in Seq(Ids) /\ DOMAIN list = 1 .. Len(timers) + 1 /\ DOMAIN timers = 1 .. Len(timers)
           /\ Len(timers) \in Nat /\ list[k] = new
           /\ \A j \in 1 .. k - 1 : list[j] = timers[j]
           /\ \A j \in k + 1 .. Len(timers) + 1 : list[j] = timers[j - 1]
           /\ ToSet(list) = ToSet(timers) \cup {new}
    BY <2>2, InsertedList
  <2>4. k - 1 = c /\ k + 1 = c + 2
    BY <2>0, <2>1
  <2> QED BY <1>6, <2>1, <2>3, <2>4 DEF Ids
<1>9. \A j \in 1 .. Len(timers) + 1 :
         \/ j \in 1 .. c /\ j \in DOMAIN timers
         \/ j = c + 1
         \/ j \in c + 2 .. Len(timers) + 1 /\ j - 1 \in DOMAIN timers /\ ~(j - 1 \in 1 .. c)
  BY <1>8
<1>10. \A j \in DOMAIN timers : timers[j] \in 1 .. created /\ timers[j] \in Timers /\ timers[j] # new
  BY <1>1, TimerListFacts
<1> DEFINE at(j) == info'[timers'[j]].left
<1>11. at(c + 1) = delay
  BY <1>3, <1>8 DEF NewInfo
<1>12. \A j \in 1 .. c : at(j) = info[timers[j]].left
  <2>1. \A j \in 1 .. c : j \in DOMAIN timers
    BY <1>8
  <2> QED BY <2>1, <1>3, <1>8, <1>10
<1>13. \A j \in c + 2 .. Len(timers) + 1 : at(j) = info[timers[j - 1]].left
  <2>1. \A j \in c + 2 .. Len(timers) + 1 : j - 1 \in DOMAIN timers
    BY <1>8
  <2> QED BY <2>1, <1>3, <1>8, <1>10
<1>14. Sorted'
  <2>1. SUFFICES ASSUME NEW j \in 1 .. Len(timers) + 1, NEW k \in 1 .. Len(timers) + 1, j < k
                 PROVE  at(j) <= at(k)
    BY <1>8 DEF Sorted
  <2> HIDE DEF at
  <2>2. \A i \in DOMAIN timers : info[timers[i]].left \in Int
    BY TimerListFacts
  <2>3. \A i \in DOMAIN timers : info[timers[i]].left < delay <=> i \in 1 .. c
    BY <1>5
  <2>4. \A a, b \in DOMAIN timers : a < b => info[timers[a]].left <= info[timers[b]].left
    BY DEF Sorted
  <2>5. CASE j \in 1 .. c /\ k \in 1 .. c
    BY <2>1, <2>4, <2>5, <1>9, <1>12
  <2>6. CASE j \in 1 .. c /\ k = c + 1
    BY <2>2, <2>3, <2>6, <1>4, <1>8, <1>11, <1>12
  <2>7. CASE j \in 1 .. c /\ k \in c + 2 .. Len(timers) + 1
    <3>1. j \in DOMAIN timers /\ k - 1 \in DOMAIN timers /\ j < k - 1
      BY <2>7, <1>8
    <3> QED BY <3>1, <2>4, <2>7, <1>12, <1>13
  <2>8. CASE j = c + 1 /\ k \in c + 2 .. Len(timers) + 1
    <3>1. k - 1 \in DOMAIN timers /\ ~(k - 1 \in 1 .. c)
      BY <2>8, <1>8
    <3>2. delay <= info[timers[k - 1]].left
      BY <3>1, <2>2, <2>3, <1>4
    <3> QED BY <3>2, <2>8, <1>11, <1>13
  <2>9. CASE j \in c + 2 .. Len(timers) + 1 /\ k \in c + 2 .. Len(timers) + 1
    <3>1. k - 1 \in DOMAIN timers /\ j - 1 \in DOMAIN timers /\ j - 1 < k - 1
      BY <2>9, <2>1, <1>8
    <3> QED BY <3>1, <2>4, <2>9, <1>13
  <2> QED BY <2>1, <2>5, <2>6, <2>7, <2>8, <2>9, <1>8
<1>15. Once(timers')
  <2>1. SUFFICES ASSUME NEW j \in 1 .. Len(timers) + 1, NEW k \in 1 .. Len(timers) + 1, timers'[j] = timers'[k]
                 PROVE  j = k
    BY <1>8 DEF Once
  <2>2. \A a, b \in DOMAIN timers : timers[a] = timers[b] => a = b
    BY <1>10, <1>1 DEF OnePlace, Once, Nil
  <2>3. ASSUME NEW m \in 1 .. Len(timers) + 1, m # c + 1
        PROVE  LET old == IF m <= c THEN m ELSE m - 1 IN old \in DOMAIN timers /\ timers'[m] = timers[old]
    <3>1. CASE m \in 1 .. c /\ m \in DOMAIN timers
      BY <3>1, <1>8
    <3>2. CASE m \in c + 2 .. Len(timers) + 1 /\ m - 1 \in DOMAIN timers
      BY <3>2, <1>8
    <3> QED BY <2>3, <3>1, <3>2, <1>9
  <2>4. CASE j = c + 1 \/ k = c + 1
    BY <2>1, <2>3, <2>4, <1>8, <1>10
  <2>5. CASE j # c + 1 /\ k # c + 1
    <3>1. (IF j <= c THEN j ELSE j - 1) = (IF k <= c THEN k ELSE k - 1)
      BY <2>1, <2>2, <2>3, <2>5
    <3> QED BY <3>1, <2>5, <1>8
  <2> QED BY <2>4, <2>5
<1> QED BY <1>1, <1>3, <1>8, <1>14, <1>15

LEMMA CancelledFacts ==
  ASSUME WakeBounds, LoopType
  PROVE  \A x \in 0 .. created : info' = Cancelled(x) =>
           /\ info' \in [Timers -> TimerInfo]
           /\ \A i \in Timers :
                /\ info'[i].left = info[i].left /\ info'[i].wake = info[i].wake
                /\ info'[i].freed = info[i].freed
                /\ i # x => info'[i] = info[i]
<1>. SUFFICES ASSUME NEW x \in 0 .. created, info' = Cancelled(x)
              PROVE  /\ info' \in [Timers -> TimerInfo]
                     /\ \A i \in Timers :
                          /\ info'[i].left = info[i].left /\ info'[i].wake = info[i].wake
                          /\ info'[i].freed = info[i].freed
                          /\ i # x => info'[i] = info[i]
  OBVIOUS
<1>1. CASE x = Nil \/ info[x].freed
  BY <1>1 DEF Cancelled, LoopType
<1>2. CASE ~(x = Nil \/ info[x].freed)
  <2>1. x \in Timers /\ info[x] \in TimerInfo
    BY <1>2, TimerListFacts DEF Nil, LoopType, WakeBounds
  <2>2. info' = [info EXCEPT ![x].cancelled = TRUE] /\ info \in [Timers -> TimerInfo]
    BY <1>2 DEF Cancelled, LoopType
  <2>3. [info[x] EXCEPT !.cancelled = TRUE] \in TimerInfo
    BY <2>1 DEF TimerInfo
  <2>4. info' = [info EXCEPT ![x] = [info[x] EXCEPT !.cancelled = TRUE]]
    BY <2>2
  <2>5. \A i \in Timers : i # x => info'[i] = info[i]
    BY <2>1, <2>2, <2>4
  <2>6. info'[x] = [info[x] EXCEPT !.cancelled = TRUE]
    BY <2>1, <2>2, <2>4
  <2>7. info'[x].left = info[x].left /\ info'[x].wake = info[x].wake /\ info'[x].freed = info[x].freed
    BY <2>1, <2>6 DEF TimerInfo
  <2>. QED BY <2>2, <2>3, <2>4, <2>5, <2>7
<1> QED BY <1>1, <1>2

(* The head of the pending list is in it once. *)
LEMMA HeadOnce ==
  ASSUME NEW S, NEW list \in Seq(S), list # <<>>, Once(list)
  PROVE  /\ Tail(list) \in Seq(S) /\ Once(Tail(list)) /\ Head(list) \in S
         /\ ToSet(list) = {Head(list)} \cup ToSet(Tail(list))
         /\ Head(list) # Nil => Head(list) \notin ToSet(Tail(list))
<1> DEFINE rest == Tail(list)
           n == Len(rest)
<1>1. /\ Head(list) \in S /\ rest \in Seq(S) /\ n = Len(list) - 1
      /\ \A i \in 1 .. n : rest[i] = list[i + 1]
  BY HeadTailProperties
<1>2. Len(list) \in Nat /\ Len(list) >= 1 /\ DOMAIN list = 1 .. Len(list) /\ Head(list) = list[1]
  BY EmptySeq
<1> HIDE DEF rest
<1>3. n \in Nat /\ DOMAIN rest = 1 .. n
  BY <1>1
<1> HIDE DEF n
<1>4. \A i \in 1 .. n : i + 1 \in DOMAIN list /\ i + 1 # 1 /\ i \in Int
  BY <1>1, <1>2, <1>3
<1>5. \A k \in DOMAIN list : k = 1 \/ (k - 1 \in 1 .. n /\ (k - 1) + 1 = k)
  BY <1>1, <1>2, <1>3
<1>6. 1 \in DOMAIN list
  BY <1>2
<1>7. Once(rest)
  <2>1. SUFFICES ASSUME NEW j \in 1 .. n, NEW k \in 1 .. n, rest[j] = rest[k], rest[j] # Nil
                 PROVE  j = k
    BY <1>3 DEF Once
  <2>2. j + 1 = k + 1
    BY <2>1, <1>1, <1>4 DEF Once
  <2> QED BY <2>2, <1>4
<1>8. Head(list) # Nil => Head(list) \notin ToSet(rest)
  BY <1>1, <1>2, <1>3, <1>4, <1>6 DEF Once, ToSet
<1>9. ToSet(list) = {Head(list)} \cup ToSet(rest)
  <2>1. ToSet(list) = {list[k] : k \in DOMAIN list} /\ ToSet(rest) = {rest[j] : j \in 1 .. n}
    BY <1>3 DEF ToSet
  <2>2. ASSUME NEW k \in DOMAIN list PROVE list[k] \in {Head(list)} \cup ToSet(rest)
    <3>1. CASE k = 1
      BY <3>1, <1>2
    <3>2. CASE k - 1 \in 1 .. n /\ (k - 1) + 1 = k
      <4>1. rest[k - 1] = list[k]
        BY <3>2, <1>1
      <4> QED BY <4>1, <3>2, <2>1
    <3> QED BY <3>1, <3>2, <1>5
  <2>3. ToSet(rest) \subseteq ToSet(list)
    BY <2>1, <1>1, <1>4
  <2>4. Head(list) \in ToSet(list)
    BY <2>1, <1>2, <1>6
  <2> QED BY <2>1, <2>2, <2>3, <2>4
<1> QED BY <1>1, <1>7, <1>8, <1>9 DEF rest

(* The expired timers that are taken off the list are a part of its front. *)
Due == SelectInSeq(Append(timers, Nil), LAMBDA i : i = Nil \/ ~Expired(i)) - 1

LEMMA DueBound ==
  ASSUME WakeBounds, LoopType
  PROVE  Due \in 0 .. Len(timers)
<1> DEFINE list == Append(timers, Nil)
           stay(i) == i = Nil \/ ~Expired(i)
           I == {k \in 1 .. Len(list) : stay(list[k])}
<1>1. Len(timers) \in Nat /\ Len(list) = Len(timers) + 1 /\ list[Len(timers) + 1] = Nil
  <2>1. timers \in Seq(0 .. created) /\ Nil \in 0 .. created
    BY DEF LoopType, WakeBounds, Nil
  <2> HIDE DEF Nil
  <2> QED BY <2>1, AppendProperties
<1> HIDE DEF list
<1>2. Len(timers) + 1 \in I
  BY <1>1
<1>3. I \subseteq Nat /\ I \subseteq 1 .. Len(timers) + 1
  BY <1>1
<1>4. \E m \in I : \A y \in I : m <= y
  <2> HIDE DEF I
  <2> QED BY <1>2, <1>3, WakeLeast
<1>5. Min(I) \in I
  <2> HIDE DEF I
  <2>1. Min(I) = CHOOSE m \in I : \A y \in I : m <= y
    BY DEF Min
  <2> QED BY <2>1, <1>4
<1>6. Due = Min(I) - 1
  BY <1>2 DEF Due, SelectInSeq, list
<1> QED BY <1>1, <1>3, <1>5, <1>6

----------------------------------------------------------------------------
(* The event thread and its lists *)

\* Nothing the lists are made of changes.
SameLists == UNCHANGED <<info, created, timers, loopVars>>

LEMMA SameListsStep ==
  ASSUME WakeBounds, LoopWakeInv, SameLists, last' \in 0 .. created, pipe' \in BOOLEAN
  PROVE  LoopWakeInv'
  BY DEF LoopWakeInv, SameLists, loopVars, LoopType, Sorted, OnePlace, LoopInv, Once

LEMMA AddedStep ==
  ASSUME WakeBounds, LoopWakeInv, NEW wake \in BOOLEAN, NEW delay \in 0 .. WakeDelay, addTimer(wake, delay),
         UNCHANGED <<last, pipe, loopVars>>
  PROVE  LoopWakeInv'
<1>1. /\ created \in Nat /\ created' = created + 1 /\ created' \in 0 .. MaxTimers
      /\ info' \in [Timers -> TimerInfo] /\ timers' \in Seq(1 .. created')
      /\ ToSet(timers') = ToSet(timers) \cup {created + 1}
      /\ Sorted' /\ Once(timers')
  BY TimerAdded DEF LoopWakeInv
<1>2. created + 1 \notin ToSet(fire) /\ created + 1 # current /\ fire \in Seq(0 .. created + 1)
  <2>1. ToSet(fire) \subseteq 0 .. created
    BY TimerListFacts DEF LoopWakeInv
  <2>2. current \in 0 .. created /\ fire \in Seq(0 .. created)
    BY DEF LoopWakeInv, LoopType
  <2> QED BY <2>1, <2>2, <1>1
<1>3. LoopType'
  <2>1. /\ current \in 0 .. created + 1 /\ last \in 0 .. created + 1 /\ pc \in LoopPcs
        /\ nap \in 0 .. Forever /\ pipe \in BOOLEAN /\ ready \in BOOLEAN
    BY <1>1 DEF LoopWakeInv, LoopType
  <2> QED BY <2>1, <1>1, <1>2 DEF LoopType, loopVars
<1>4. OnePlace'
  <2>1. /\ Once(fire) /\ ToSet(timers) \cap ToSet(fire) = {} /\ current \notin ToSet(timers)
        /\ (current # Nil => current \notin ToSet(fire))
    BY DEF LoopWakeInv, OnePlace
  <2>2. UNCHANGED <<fire, current>>
    BY DEF loopVars
  <2>3. Once(fire')
    BY <2>1, <2>2
  <2>4. ToSet(fire') = ToSet(fire)
    BY <2>2
  <2> QED BY <2>1, <2>2, <2>3, <2>4, <1>1, <1>2 DEF OnePlace
<1> QED BY <1>1, <1>3, <1>4 DEF LoopWakeInv, LoopInv, loopVars

LEMMA CancelledStep ==
  ASSUME WakeBounds, LoopWakeInv, NEW x \in 0 .. created, info' = Cancelled(x),
         UNCHANGED <<last, created, timers, pipe, loopVars>>
  PROVE  LoopWakeInv'
<1>1. info' \in [Timers -> TimerInfo] /\ \A i \in Timers : info'[i].left = info[i].left
  BY CancelledFacts DEF LoopWakeInv
<1>2. LoopType'
  BY <1>1 DEF LoopWakeInv, LoopType, loopVars
<1>3. Sorted'
  <2>1. \A j \in DOMAIN timers : timers[j] \in Timers
    BY TimerListFacts DEF LoopWakeInv
  <2> QED BY <2>1, <1>1 DEF LoopWakeInv, Sorted
<1> QED BY <1>2, <1>3 DEF LoopWakeInv, OnePlace, LoopInv, loopVars, Once

(* The first timers go to the pending list: what is left is in order still.  *)
LEMMA ExpiredStep ==
  ASSUME WakeBounds, LoopWakeInv, processTimeouts
  PROVE  LoopWakeInv' /\ ToSet(timers') \cup ToSet(fire') = ToSet(timers) \cup ToSet(fire)
<1> DEFINE n == Len(timers)
           c == Due
<1>1. fire = <<>> /\ pc' = "reads" /\ current' = current /\ current = Nil /\ info' = info /\ created' = created
  BY DEF processTimeouts, LoopWakeInv, LoopInv
<1>2. fire' = SubSeq(timers, 1, c) /\ timers' = SubSeq(timers, c + 1, n)
  BY DEF processTimeouts, Due
<1>3. c \in 0 .. n /\ timers \in Seq(1 .. created)
  BY DueBound DEF LoopWakeInv, LoopType
<1> HIDE DEF c
<1>4. /\ n \in Nat /\ DOMAIN timers = 1 .. n
      /\ fire' \in Seq(1 .. created) /\ Len(fire') = c /\ \A j \in 1 .. c : fire'[j] = timers[j]
      /\ timers' \in Seq(1 .. created) /\ Len(timers') = n - c /\ \A j \in 1 .. n - c : timers'[j] = timers[c + j]
      /\ ToSet(fire') \cup ToSet(timers') = ToSet(timers)
  <2> DEFINE Ids == 1 .. created
  <2>1. timers \in Seq(Ids)
    BY <1>3
  <2> HIDE DEF Ids
  <2>2. LET left == SubSeq(timers, 1, c)
            right == SubSeq(timers, c + 1, n)
        IN /\ n \in Nat /\ DOMAIN timers = 1 .. n
           /\ left \in Seq(Ids) /\ Len(left) = c /\ \A j \in 1 .. c : left[j] = timers[j]
           /\ right \in Seq(Ids) /\ Len(right) = n - c
           /\ \A j \in 1 .. n - c : right[j] = timers[c + j]
           /\ ToSet(left) \cup ToSet(right) = ToSet(timers)
    BY <2>1, <1>3, CutList
  <2> QED BY <2>2, <1>2 DEF Ids
<1>5. DOMAIN fire' = 1 .. c /\ DOMAIN timers' = 1 .. n - c
  BY <1>3, <1>4
<1>6. \A j \in 1 .. c : j \in 1 .. n
  BY <1>3, <1>4
<1>7. \A j \in 1 .. n - c : c + j \in 1 .. n /\ c + j \notin 1 .. c
  BY <1>3, <1>4
<1>8. \A j, k \in 1 .. n : timers[j] = timers[k] => j = k
  <2>1. \A j \in 1 .. n : timers[j] # Nil
    <3>1. \A j \in DOMAIN timers : timers[j] \in 1 .. created
      BY TimerListFacts DEF LoopWakeInv
    <3> QED BY <1>4, <3>1 DEF Nil
  <2> QED BY <2>1, <1>4 DEF LoopWakeInv, OnePlace, Once
<1>9. Once(fire')
  BY <1>4, <1>5, <1>6, <1>8 DEF Once
<1>10. Once(timers')
  <2>1. SUFFICES ASSUME NEW j \in 1 .. n - c, NEW k \in 1 .. n - c, timers'[j] = timers'[k] PROVE j = k
    BY <1>5 DEF Once
  <2>2. c + j = c + k
    BY <2>1, <1>4, <1>7, <1>8
  <2> QED BY <2>2, <1>3, <1>4
<1>11. ToSet(timers') \cap ToSet(fire') = {}
  BY <1>4, <1>5, <1>6, <1>7, <1>8 DEF ToSet
<1>12. Sorted'
  <2>1. SUFFICES ASSUME NEW j \in 1 .. n - c, NEW k \in 1 .. n - c, j < k
                 PROVE  info[timers'[j]].left <= info[timers'[k]].left
    BY <1>1, <1>5 DEF Sorted
  <2>2. c + j < c + k /\ c + j \in DOMAIN timers /\ c + k \in DOMAIN timers
    BY <2>1, <1>3, <1>4, <1>7
  <2> QED BY <2>1, <2>2, <1>4 DEF LoopWakeInv, Sorted
<1>13. LoopType'
  <2>1. fire' \in Seq(0 .. created)
    BY <1>4 DEF LoopWakeInv, LoopType
  <2> QED BY <2>1, <1>1, <1>4 DEF LoopWakeInv, LoopType, LoopPcs, processTimeouts
<1>14. OnePlace'
  <2>1. Nil \notin ToSet(timers')
    <3>1. ToSet(timers) \subseteq 1 .. created /\ created \in Nat
      BY TimerListFacts DEF LoopWakeInv
    <3> QED BY <3>1, <1>4 DEF Nil
  <2> QED BY <2>1, <1>1, <1>9, <1>10, <1>11 DEF OnePlace
<1>15. LoopInv'
  BY <1>1 DEF LoopInv
<1>16. ToSet(fire) = {}
  BY <1>1 DEF ToSet
<1> QED BY <1>4, <1>12, <1>13, <1>14, <1>15, <1>16 DEF LoopWakeInv

LEMMA ReadyStep ==
  ASSUME WakeBounds, LoopWakeInv, processReadReadies
  PROVE  LoopWakeInv' /\ ToSet(fire) \subseteq ToSet(fire') /\ ToSet(fire') \subseteq ToSet(fire) \cup {Nil}
<1>1. UNCHANGED <<info, created, timers, current, nap, last, pipe>> /\ pc = "reads" /\ pc' = "fire" /\ ready' = FALSE
  BY DEF processReadReadies
<1>2. /\ fire' \in Seq(0 .. created) /\ Once(fire')
      /\ ToSet(fire) \subseteq ToSet(fire') /\ ToSet(fire') \subseteq ToSet(fire) \cup {Nil}
  <2>1. fire \in Seq(0 .. created) /\ Once(fire) /\ Len(fire) \in Nat /\ DOMAIN fire = 1 .. Len(fire)
    BY TimerListFacts DEF LoopWakeInv, LoopType, OnePlace
  <2>2. CASE fire' = fire
    BY <2>1, <2>2
  <2>3. CASE fire' = Append(fire, Nil)
    <3> DEFINE Ids == 0 .. created
    <3>1. Nil \in Ids /\ fire \in Seq(Ids)
      BY <2>1 DEF Nil, LoopWakeInv, LoopType, WakeBounds
    <3> HIDE DEF Ids
    <3>2. /\ fire' \in Seq(Ids) /\ Len(fire') = Len(fire) + 1
          /\ \A i \in 1 .. Len(fire) : fire'[i] = fire[i]
          /\ fire'[Len(fire) + 1] = Nil
      BY <2>3, <3>1, AppendProperties
    <3>3. DOMAIN fire' = 1 .. Len(fire) + 1
      BY <2>1, <3>2
    <3>4. Once(fire')
      BY <2>1, <3>2, <3>3 DEF Once
    <3>5. \A i \in 1 .. Len(fire) + 1 : i \in 1 .. Len(fire) \/ i = Len(fire) + 1
      BY <2>1
    <3>6. \A i \in 1 .. Len(fire) : i \in 1 .. Len(fire) + 1
      BY <2>1
    <3>7. ToSet(fire) \subseteq ToSet(fire') /\ ToSet(fire') \subseteq ToSet(fire) \cup {Nil}
      BY <2>1, <3>2, <3>3, <3>5, <3>6 DEF ToSet
    <3> QED BY <3>2, <3>4, <3>7 DEF Ids
  <2> QED BY <2>2, <2>3 DEF processReadReadies, Wakeup, Nil
<1>3. LoopType'
  BY <1>1, <1>2 DEF LoopWakeInv, LoopType, LoopPcs
<1>4. OnePlace'
  <2>1. Nil \notin ToSet(timers)
    BY TimerListFacts DEF LoopWakeInv, Nil
  <2>2. current = Nil
    BY <1>1 DEF LoopWakeInv, LoopInv
  <2> QED BY <2>1, <2>2, <1>1, <1>2 DEF LoopWakeInv, OnePlace
<1>5. Sorted'
  BY <1>1 DEF LoopWakeInv, Sorted
<1>6. LoopInv'
  BY <1>1 DEF LoopWakeInv, LoopInv
<1> QED BY <1>2, <1>3, <1>4, <1>5, <1>6 DEF LoopWakeInv

LEMMA PendingHead ==
  ASSUME WakeBounds, LoopWakeInv, fire # <<>>
  PROVE  /\ Head(fire) \in 0 .. created /\ Tail(fire) \in Seq(0 .. created) /\ Once(Tail(fire))
         /\ ToSet(fire) = {Head(fire)} \cup ToSet(Tail(fire))
         /\ Head(fire) # Nil => Head(fire) \notin ToSet(Tail(fire))
         /\ Head(fire) \notin ToSet(timers)
<1> DEFINE Ids == 0 .. created
<1>1. fire \in Seq(Ids) /\ Once(fire)
  BY DEF LoopWakeInv, LoopType, OnePlace
<1> HIDE DEF Ids
<1>2. /\ Tail(fire) \in Seq(Ids) /\ Once(Tail(fire)) /\ Head(fire) \in Ids
      /\ ToSet(fire) = {Head(fire)} \cup ToSet(Tail(fire))
      /\ Head(fire) # Nil => Head(fire) \notin ToSet(Tail(fire))
  BY <1>1, HeadOnce
<1>3. ToSet(timers) \cap ToSet(fire) = {}
  BY DEF LoopWakeInv, OnePlace
<1> QED BY <1>2, <1>3 DEF Ids

LEMMA WokenStep ==
  ASSUME WakeBounds, LoopWakeInv, processWakeupCallback
  PROVE  LoopWakeInv' /\ ToSet(fire) = {Nil} \cup ToSet(fire')
<1>1. /\ UNCHANGED <<info, created, timers, current, nap, last, pc, ready>>
      /\ pc = "fire" /\ pipe' = FALSE /\ fire # <<>> /\ Head(fire) = Nil /\ fire' = Tail(fire)
  BY DEF processWakeupCallback, Wakeup, Nil
<1>2. /\ fire' \in Seq(0 .. created) /\ Once(fire') /\ ToSet(fire) = {Nil} \cup ToSet(fire')
  BY <1>1, PendingHead
<1>3. LoopType'
  BY <1>1, <1>2 DEF LoopWakeInv, LoopType
<1>4. OnePlace'
  BY <1>1, <1>2 DEF LoopWakeInv, OnePlace
<1> QED BY <1>1, <1>2, <1>3, <1>4 DEF LoopWakeInv, Sorted, LoopInv

LEMMA CalledStep ==
  ASSUME WakeBounds, LoopWakeInv, userTimerCallback
  PROVE  /\ LoopWakeInv'
         /\ current' # Nil /\ ToSet(fire) = {current'} \cup ToSet(fire') /\ current' \in 1 .. created
         /\ \/ info' = info /\ created' = created /\ timers' = timers
            \/ addTimer(FALSE, WakeDelay)
<1>1. /\ pc = "fire" /\ fire # <<>> /\ Head(fire) # Nil
      /\ current' = Head(fire) /\ fire' = Tail(fire) /\ pc' \in {"expire", "clear"}
      /\ UNCHANGED <<last, pipe, nap, ready>>
      /\ \/ info' = info /\ created' = created /\ timers' = timers
         \/ addTimer(FALSE, WakeDelay)
  BY DEF userTimerCallback, Wakeup, Nil
<1>2. /\ current' \in 0 .. created /\ fire' \in Seq(0 .. created) /\ Once(fire')
      /\ ToSet(fire) = {current'} \cup ToSet(fire')
      /\ current' \notin ToSet(fire') /\ current' \notin ToSet(timers)
  BY <1>1, PendingHead
<1>3. created \in Nat /\ current' \in 1 .. created
  BY <1>1, <1>2 DEF LoopWakeInv, LoopType, Nil, WakeBounds
<1>4. LoopInv'
  BY <1>1 DEF LoopInv
<1>5. ToSet(timers) \cap ToSet(fire') = {}
  BY <1>2 DEF LoopWakeInv, OnePlace
<1>6. CASE info' = info /\ created' = created /\ timers' = timers
  <2>1. LoopType'
    BY <1>1, <1>2, <1>6 DEF LoopWakeInv, LoopType, LoopPcs
  <2>2. OnePlace'
    BY <1>2, <1>5, <1>6 DEF LoopWakeInv, OnePlace
  <2>3. Sorted'
    BY <1>6 DEF LoopWakeInv, Sorted
  <2> QED BY <1>1, <1>2, <1>3, <1>4, <1>6, <2>1, <2>2, <2>3 DEF LoopWakeInv
<1>7. CASE addTimer(FALSE, WakeDelay)
  <2>1. FALSE \in BOOLEAN /\ WakeDelay \in 0 .. WakeDelay
    BY DEF WakeBounds
  <2>2. /\ created' = created + 1 /\ created' \in 0 .. MaxTimers
        /\ info' \in [Timers -> TimerInfo] /\ timers' \in Seq(1 .. created')
        /\ ToSet(timers') = ToSet(timers) \cup {created + 1}
        /\ Sorted' /\ Once(timers')
    BY <1>7, <2>1, TimerAdded DEF LoopWakeInv
  <2>3. ToSet(fire') \subseteq 0 .. created
    BY <1>2, TimerListFacts DEF LoopWakeInv
  <2>4. created + 1 \notin ToSet(fire') /\ created + 1 # current'
    BY <1>3, <2>3
  <2>5. /\ fire' \in Seq(0 .. created + 1) /\ current' \in 0 .. created + 1 /\ last \in 0 .. created + 1
    <3>1. last \in 0 .. created
      BY DEF LoopWakeInv, LoopType
    <3> QED BY <1>2, <1>3, <3>1
  <2>6. LoopType'
    BY <1>1, <2>2, <2>5 DEF LoopWakeInv, LoopType, LoopPcs
  <2>7. OnePlace'
    BY <1>2, <1>5, <2>2, <2>4 DEF OnePlace
  <2> QED BY <1>1, <1>2, <1>3, <1>4, <2>2, <2>6, <2>7 DEF LoopWakeInv
<1> QED BY <1>1, <1>6, <1>7

LEMMA FreedStep ==
  ASSUME WakeBounds, LoopWakeInv, freeInfo
  PROVE  /\ LoopWakeInv'
         /\ current \in 1 .. created /\ info'[current].freed /\ \A i \in Timers : i # current => info'[i] = info[i]
<1>1. /\ info' = [info EXCEPT ![current] = [NewInfo(FALSE, 0) EXCEPT !.freed = TRUE]]
      /\ pc = "free" /\ pc' = "fire" /\ current' = Nil
      /\ UNCHANGED <<last, created, timers, pipe, nap, ready, fire>>
  BY DEF freeInfo
<1>2. current \in 1 .. created /\ current \in Timers
  <2>1. current # Nil
    BY <1>1 DEF LoopWakeInv, LoopInv
  <2>2. current \in 0 .. created /\ created \in Nat /\ 1 .. created \subseteq Timers
    BY TimerListFacts DEF LoopWakeInv, LoopType
  <2> QED BY <2>1, <2>2 DEF Nil
<1>3. [NewInfo(FALSE, 0) EXCEPT !.freed = TRUE] \in TimerInfo /\ [NewInfo(FALSE, 0) EXCEPT !.freed = TRUE].freed
  <2> DEFINE r == NewInfo(FALSE, 0)
  <2>1. r \in TimerInfo
    BY DEF NewInfo, TimerInfo, WakeBounds
  <2> HIDE DEF r
  <2>2. [r EXCEPT !.freed = TRUE] \in TimerInfo /\ [r EXCEPT !.freed = TRUE].freed
    BY <2>1 DEF TimerInfo
  <2> QED BY <2>2 DEF r
<1>4. /\ info' \in [Timers -> TimerInfo] /\ info'[current].freed
      /\ \A i \in Timers : i # current => info'[i] = info[i]
  BY <1>1, <1>2, <1>3 DEF LoopWakeInv, LoopType
<1>5. LoopType'
  BY <1>1, <1>4 DEF LoopWakeInv, LoopType, LoopPcs, Nil, WakeBounds
<1>6. Sorted'
  <2>1. \A j \in DOMAIN timers : timers[j] \in Timers /\ timers[j] # current
    BY TimerListFacts DEF LoopWakeInv, OnePlace
  <2> QED BY <2>1, <1>1, <1>4 DEF LoopWakeInv, Sorted
<1>7. OnePlace'
  <2>1. Nil \notin ToSet(timers)
    BY TimerListFacts DEF LoopWakeInv, Nil
  <2> QED BY <2>1, <1>1 DEF LoopWakeInv, OnePlace
<1> QED BY <1>1, <1>2, <1>4, <1>5, <1>6, <1>7 DEF LoopWakeInv, LoopInv

(* Time passes for the timers in the list and for the sleep. *)
LEMMA TickFacts ==
  ASSUME WakeBounds, LoopWakeInv, tick
  PROVE  /\ info' \in [Timers -> TimerInfo]
         /\ \A i \in Timers :
              /\ info'[i].wake = info[i].wake /\ info'[i].freed = info[i].freed
              /\ info'[i].cancelled = info[i].cancelled
              /\ info'[i].left = IF i \in ToSet(timers) /\ info[i].left >= 0
                                 THEN info[i].left - 1 ELSE info[i].left
<1> DEFINE Left(i) == IF i \in ToSet(timers) /\ info[i].left >= 0 THEN info[i].left - 1 ELSE info[i].left
<1>1. info' = [i \in Timers |-> [info[i] EXCEPT !.left = Left(i)]]
  BY DEF tick
<1>2. ASSUME NEW i \in Timers
      PROVE  /\ info[i] \in TimerInfo /\ Left(i) \in -1 .. WakeDelay
  BY DEF LoopWakeInv, LoopType, TimerInfo, WakeBounds
<1> HIDE DEF Left
<1>3. ASSUME NEW i \in Timers
      PROVE  /\ info'[i] \in TimerInfo /\ info'[i].left = Left(i)
             /\ info'[i].wake = info[i].wake /\ info'[i].freed = info[i].freed
             /\ info'[i].cancelled = info[i].cancelled
  <2>1. info'[i] = [info[i] EXCEPT !.left = Left(i)]
    BY <1>1
  <2> QED BY <2>1, <1>2 DEF TimerInfo
<1>4. info' \in [Timers -> TimerInfo]
  BY <1>1, <1>3
<1> QED BY <1>3, <1>4 DEF Left

LEMMA TickStep ==
  ASSUME WakeBounds, LoopWakeInv, tick
  PROVE  LoopWakeInv'
<1>1. info' \in [Timers -> TimerInfo]
  BY TickFacts
<1>2. nap' \in 0 .. Forever
  BY DEF tick, LoopWakeInv, LoopType, Forever, WakeBounds
<1>3. UNCHANGED <<last, created, timers, pipe, pc, current, ready, fire>>
  BY DEF tick
<1>4. LoopType'
  BY <1>1, <1>2, <1>3 DEF LoopWakeInv, LoopType
<1>5. Sorted'
  <2>1. SUFFICES ASSUME NEW j \in DOMAIN timers, NEW k \in DOMAIN timers, j < k
                 PROVE  info'[timers[j]].left <= info'[timers[k]].left
    BY <1>3 DEF Sorted
  <2> DEFINE a == info[timers[j]].left
             b == info[timers[k]].left
  <2>2. a <= b
    BY <2>1 DEF LoopWakeInv, Sorted
  <2>3. /\ timers[j] \in ToSet(timers) /\ timers[k] \in ToSet(timers)
        /\ timers[j] \in Timers /\ timers[k] \in Timers
    BY TimerListFacts DEF LoopWakeInv
  <2>4. a \in -1 .. WakeDelay /\ b \in -1 .. WakeDelay
    BY <2>3 DEF LoopWakeInv, LoopType, TimerInfo
  <2>5. /\ info'[timers[j]].left = IF a >= 0 THEN a - 1 ELSE a
        /\ info'[timers[k]].left = IF b >= 0 THEN b - 1 ELSE b
    BY <2>3, TickFacts
  <2> QED BY <2>2, <2>4, <2>5 DEF WakeBounds
<1>6. OnePlace'
  BY <1>3 DEF LoopWakeInv, OnePlace
<1> QED BY <1>3, <1>4, <1>5, <1>6 DEF LoopWakeInv, LoopInv

LEMMA WorkerFacts ==
  ASSUME LockType, NEW w \in Workers
  PROVE  worker[w].pc \in WorkerPcs /\ worker[w].new \in 0 .. created /\ worker[w].old \in 0 .. created
  BY DEF LockType, Work

LEMMA LoopWakeStep ==
  ASSUME WakeInv, [WakeNext]_wakeVars
  PROVE  LoopWakeInv'
<1>. USE DEF WakeInv
<1>1. last \in 0 .. created /\ pipe \in BOOLEAN /\ WakeDelay \in 0 .. WakeDelay /\ 0 \in 0 .. WakeDelay
  BY DEF LoopWakeInv, LoopType, WakeBounds
<1>2. ASSUME NEW w \in Workers, grab(w) PROVE LoopWakeInv'
  BY <1>1, <1>2, AddedStep DEF grab
<1>3. ASSUME NEW w \in Workers, grabFails(w) PROVE LoopWakeInv'
  BY <1>1, <1>3, SameListsStep DEF grabFails, SameLists
<1>4. ASSUME NEW w \in Workers, releaseWakeLock(w) PROVE LoopWakeInv'
  BY <1>1, <1>4, SameListsStep DEF releaseWakeLock, SameLists
<1>5. ASSUME NEW w \in Workers, unsolicitedResponse(w) PROVE LoopWakeInv'
  BY <1>1, <1>5, SameListsStep DEF unsolicitedResponse, SameLists
<1>6. ASSUME NEW w \in Workers, requestTimedCallback(w) PROVE LoopWakeInv'
  <2>1. PICK delay \in {0, WakeDelay} : addTimer(FALSE, delay)
    BY <1>6 DEF requestTimedCallback
  <2>2. delay \in 0 .. WakeDelay
    BY <1>1
  <2> QED BY <2>1, <2>2, <1>6, AddedStep DEF requestTimedCallback
<1>7. ASSUME NEW w \in Workers, trigger(w) PROVE LoopWakeInv'
  BY <1>1, <1>7, SameListsStep DEF trigger, SameLists
<1>8. ASSUME NEW w \in Workers, cancelOld(w) PROVE LoopWakeInv'
  BY <1>8, WorkerFacts, CancelledStep DEF cancelOld
<1>9. ASSUME NEW w \in Workers, setLast(w) PROVE LoopWakeInv'
  BY <1>1, <1>9, WorkerFacts, SameListsStep DEF setLast, SameLists
<1>10. ASSUME NEW w \in Workers, cancelLast(w) PROVE LoopWakeInv'
  BY <1>10, WorkerFacts, CancelledStep DEF cancelLast
<1>11. ASSUME NEW w \in Workers, schedule(w) PROVE LoopWakeInv'
  <2>1. CASE addTimer(TRUE, WakeDelay)
    BY <2>1, <1>1, <1>11, AddedStep DEF schedule
  <2>2. CASE UNCHANGED <<info, created, timers>>
    BY <2>2, <1>1, <1>11, SameListsStep DEF schedule, SameLists
  <2> QED BY <2>1, <2>2, <1>11 DEF schedule
<1>12. ASSUME NEW w \in Workers, wakeLoop(w) PROVE LoopWakeInv'
  BY <1>1, <1>12, SameListsStep DEF wakeLoop, SameLists
<1>13. ASSUME calcNextTimeout PROVE LoopWakeInv'
  <2>1. nap' \in 0 .. Forever
    <3>1. ASSUME timers # <<>> PROVE info[Head(timers)].left \in -1 .. WakeDelay
      <4>1. Head(timers) = timers[1] /\ 1 \in DOMAIN timers
        BY <3>1, EmptySeq DEF LoopWakeInv, LoopType
      <4>2. timers[1] \in Timers
        BY <4>1, TimerListFacts DEF LoopWakeInv
      <4> QED BY <4>1, <4>2 DEF LoopWakeInv, LoopType, TimerInfo
    <3> QED BY <3>1, <1>13 DEF calcNextTimeout, Forever, WakeBounds
  <2> QED BY <2>1, <1>13 DEF calcNextTimeout, LoopWakeInv, LoopType, Sorted, OnePlace, LoopInv, LoopPcs
<1>14. ASSUME selectReturns PROVE LoopWakeInv'
  BY <1>14 DEF selectReturns, LoopWakeInv, LoopType, Sorted, OnePlace, LoopInv, LoopPcs, Forever, WakeBounds
<1>15. ASSUME processTimeouts PROVE LoopWakeInv'
  BY <1>15, ExpiredStep
<1>16. ASSUME processReadReadies PROVE LoopWakeInv'
  BY <1>16, ReadyStep
<1>17. ASSUME firePending PROVE LoopWakeInv'
  BY <1>17 DEF firePending, LoopWakeInv, LoopType, Sorted, OnePlace, LoopInv, LoopPcs
<1>18. ASSUME processWakeupCallback PROVE LoopWakeInv'
  BY <1>18, WokenStep
<1>19. ASSUME userTimerCallback PROVE LoopWakeInv'
  BY <1>19, CalledStep
<1>20. ASSUME wakeTimeoutCallback PROVE LoopWakeInv'
  BY <1>20 DEF wakeTimeoutCallback, LoopWakeInv, LoopType, Sorted, OnePlace, LoopInv, LoopPcs
<1>21. ASSUME testLast PROVE LoopWakeInv'
  BY <1>21 DEF testLast, LoopWakeInv, LoopType, Sorted, OnePlace, LoopInv, LoopPcs
<1>22. ASSUME clearLast PROVE LoopWakeInv'
  BY <1>22 DEF clearLast, LoopWakeInv, LoopType, Sorted, OnePlace, LoopInv, LoopPcs, Nil, WakeBounds
<1>23. ASSUME freeInfo PROVE LoopWakeInv'
  BY <1>23, FreedStep
<1>24. ASSUME tick PROVE LoopWakeInv'
  BY <1>24, TickStep
<1>25. ASSUME UNCHANGED wakeVars PROVE LoopWakeInv'
  BY <1>1, <1>25, SameListsStep DEF wakeVars, SameLists
<1> QED BY <1>2, <1>3, <1>4, <1>5, <1>6, <1>7, <1>8, <1>9, <1>10, <1>11, <1>12, <1>13, <1>14, <1>15, <1>16,
           <1>17, <1>18, <1>19, <1>20, <1>21, <1>22, <1>23, <1>24, <1>25 DEF WakeNext, workerStep, eventLoop

----------------------------------------------------------------------------
(* Timers are called once and are not slept over *)

(* A new timer is not freed, and the others are as they were. *)
LEMMA FiredAdded ==
  ASSUME WakeInv, NEW wake \in BOOLEAN, NEW delay \in 0 .. WakeDelay, addTimer(wake, delay),
         (ToSet(fire) \cup {current})' \subseteq ToSet(fire) \cup {current}
  PROVE  FiredOnce'
<1>1. /\ created \in Nat /\ created' = created + 1 /\ info'[created + 1] = NewInfo(wake, delay)
      /\ \A i \in Timers : i # created + 1 => info'[i] = info[i]
      /\ ToSet(timers') = ToSet(timers) \cup {created + 1}
  BY TimerAdded DEF WakeInv, LoopWakeInv
<1>2. ~info'[created + 1].freed
  BY <1>1 DEF NewInfo
<1>3. 1 .. created \subseteq Timers
  BY TimerListFacts DEF WakeInv, LoopWakeInv
<1>4. SUFFICES ASSUME NEW i \in 1 .. created + 1, info'[i].freed
               PROVE  i \notin (ToSet(timers) \cup ToSet(fire) \cup {current})'
  BY <1>1 DEF FiredOnce
<1>5. i \in 1 .. created /\ i # created + 1 /\ i \in Timers
  BY <1>1, <1>2, <1>3, <1>4
<1>6. i \notin ToSet(timers) \cup ToSet(fire) \cup {current}
  BY <1>1, <1>4, <1>5 DEF WakeInv, FiredOnce
<1> QED BY <1>1, <1>5, <1>6

LEMMA FiredStep ==
  ASSUME WakeInv, [WakeNext]_wakeVars
  PROVE  FiredOnce'
<1>0. WakeDelay \in 0 .. WakeDelay /\ 0 \in 0 .. WakeDelay /\ 1 .. created \subseteq Timers
  BY TimerListFacts DEF WakeInv, WakeBounds, LoopWakeInv
<1>1. CASE UNCHANGED <<info, created, timers, fire, current>>
  BY <1>1 DEF FiredOnce, WakeInv
<1>2. ASSUME NEW w \in Workers, grab(w) PROVE FiredOnce'
  BY <1>0, <1>2, FiredAdded DEF grab, loopVars
<1>3. ASSUME NEW w \in Workers, requestTimedCallback(w) PROVE FiredOnce'
  <2>1. PICK delay \in {0, WakeDelay} : addTimer(FALSE, delay)
    BY <1>3 DEF requestTimedCallback
  <2> QED BY <2>1, <1>0, <1>3, FiredAdded DEF requestTimedCallback, loopVars
<1>4. ASSUME NEW w \in Workers, schedule(w), addTimer(TRUE, WakeDelay) PROVE FiredOnce'
  BY <1>0, <1>4, FiredAdded DEF schedule, loopVars
<1>5. ASSUME NEW x \in 0 .. created, info' = Cancelled(x), UNCHANGED <<created, timers, fire, current>>
      PROVE  FiredOnce'
  BY <1>0, <1>5, CancelledFacts DEF FiredOnce, WakeInv, LoopWakeInv
<1>6. ASSUME NEW w \in Workers, cancelOld(w) \/ cancelLast(w) PROVE FiredOnce'
  BY <1>5, <1>6, WorkerFacts DEF cancelOld, cancelLast, loopVars, WakeInv
<1>7. ASSUME processTimeouts PROVE FiredOnce'
  <2>1. ToSet(timers') \cup ToSet(fire') = ToSet(timers) \cup ToSet(fire)
    BY <1>7, ExpiredStep DEF WakeInv
  <2> QED BY <2>1, <1>7 DEF processTimeouts, FiredOnce, WakeInv
<1>8. ASSUME processReadReadies PROVE FiredOnce'
  <2>1. ToSet(fire') \subseteq ToSet(fire) \cup {Nil}
    BY <1>8, ReadyStep DEF WakeInv
  <2> QED BY <2>1, <1>8 DEF processReadReadies, FiredOnce, WakeInv, Nil
<1>9. ASSUME processWakeupCallback PROVE FiredOnce'
  <2>1. ToSet(fire') \subseteq ToSet(fire)
    BY <1>9, WokenStep DEF WakeInv
  <2> QED BY <2>1, <1>9 DEF processWakeupCallback, FiredOnce, WakeInv
<1>10. ASSUME userTimerCallback PROVE FiredOnce'
  <2>1. /\ (ToSet(fire) \cup {current})' \subseteq ToSet(fire) \cup {current}
        /\ \/ info' = info /\ created' = created /\ timers' = timers
           \/ addTimer(FALSE, WakeDelay)
    BY <1>10, CalledStep DEF WakeInv
  <2>2. CASE info' = info /\ created' = created /\ timers' = timers
    BY <2>1, <2>2 DEF FiredOnce, WakeInv
  <2> QED BY <2>1, <2>2, <1>0, FiredAdded
<1>11. ASSUME freeInfo PROVE FiredOnce'
  <2>1. /\ current \in 1 .. created /\ \A i \in Timers : i # current => info'[i] = info[i]
        /\ UNCHANGED <<created, timers, fire>> /\ current' = Nil
    BY <1>11, FreedStep DEF WakeInv, freeInfo
  <2>2. current \notin ToSet(timers) \cup ToSet(fire) /\ current # Nil
    BY <2>1 DEF WakeInv, LoopWakeInv, OnePlace, Nil
  <2> QED BY <2>1, <2>2, <1>0 DEF FiredOnce, WakeInv, Nil
<1>12. ASSUME tick PROVE FiredOnce'
  <2>1. \A i \in Timers : info'[i].freed = info[i].freed
    BY <1>12, TickFacts DEF WakeInv
  <2> QED BY <2>1, <1>0, <1>12 DEF tick, FiredOnce, WakeInv
<1>13. ASSUME NEW w \in Workers, schedule(w) PROVE FiredOnce'
  BY <1>1, <1>4, <1>13 DEF schedule, loopVars
<1>14. ASSUME NEW w \in Workers,
              grabFails(w) \/ releaseWakeLock(w) \/ unsolicitedResponse(w) \/ trigger(w) \/ setLast(w) \/ wakeLoop(w)
       PROVE  FiredOnce'
  BY <1>1, <1>14 DEF grabFails, releaseWakeLock, unsolicitedResponse, trigger, setLast, wakeLoop, loopVars
<1>15. ASSUME calcNextTimeout \/ selectReturns \/ firePending \/ wakeTimeoutCallback \/ testLast \/ clearLast
       PROVE  FiredOnce'
  BY <1>1, <1>15 DEF calcNextTimeout, selectReturns, firePending, wakeTimeoutCallback, testLast, clearLast
<1>16. CASE UNCHANGED wakeVars
  BY <1>1, <1>16 DEF wakeVars, loopVars
<1> QED BY <1>2, <1>3, <1>6, <1>7, <1>8, <1>9, <1>10, <1>11, <1>12, <1>13, <1>14, <1>15, <1>16
        DEF WakeNext, workerStep, eventLoop

(* The sleep is as short as the first timer asks for. *)
LEMMA SleptStep ==
  ASSUME WakeInv, [WakeNext]_wakeVars
  PROVE  NoTimerOverslept'
<1>. DEFINE Awake == \E w \in Workers : worker[w].pc \in {"trigger", "wake"}
            Short == pipe \/ Awake \/ \A i \in ToSet(timers) : info[i].left >= 0 => nap <= info[i].left
<1>0. NoTimerOverslept <=> (pc = "select" => Short)
  BY DEF NoTimerOverslept
<1>00. NoTimerOverslept' <=> (pc' = "select" => Short')
  BY DEF NoTimerOverslept
<1>000. pc = "select" => Short
  BY <1>0 DEF WakeInv
<1>1. ASSUME NEW w \in Workers, NEW r, worker' = [worker EXCEPT ![w] = r], r.pc \in {"trigger", "wake"}
      PROVE  NoTimerOverslept'
  <2>1. worker'[w] = r
    BY <1>1 DEF WakeInv, LockType
  <2> QED BY <2>1, <1>1, <1>00
<1>2. ASSUME NEW w \in Workers, NEW r, worker' = [worker EXCEPT ![w] = r],
             worker[w].pc \notin {"trigger", "wake"}, UNCHANGED <<pipe, pc, nap, timers>>,
             \A i \in ToSet(timers) : info'[i].left = info[i].left
      PROVE  NoTimerOverslept'
  <2>1. \A v \in Workers : v # w => worker'[v] = worker[v]
    BY <1>2 DEF WakeInv, LockType
  <2>2. Awake => Awake'
    BY <2>1, <1>2
  <2> QED BY <2>2, <1>00, <1>000, <1>2
<1>3. CASE pipe' = TRUE
  BY <1>3, <1>00
<1>4. CASE pc' # "select"
  BY <1>4, <1>00
<1>5. CASE UNCHANGED <<pipe, pc, nap, timers, info, worker>>
  BY <1>5, <1>00, <1>000
<1>6. ASSUME NEW w \in Workers, grab(w) \/ requestTimedCallback(w) PROVE NoTimerOverslept'
  BY <1>1, <1>6 DEF grab, requestTimedCallback, SetWorker, Free
<1>7. ASSUME NEW w \in Workers, schedule(w) PROVE NoTimerOverslept'
  <2>1. CASE SetWorker(w, [worker[w] EXCEPT !.pc = "trigger", !.new = created + 1])
    <3>1. worker[w] \in Work(created)
      BY DEF WakeInv, LockType
    <3>2. [worker[w] EXCEPT !.pc = "trigger", !.new = created + 1].pc = "trigger"
      BY <3>1 DEF Work
    <3> QED BY <3>2, <2>1, <1>1 DEF SetWorker
  <2>2. CASE SetWorker(w, Free) /\ UNCHANGED <<info, created, timers>>
    BY <2>2, <1>2, <1>7 DEF schedule, SetWorker, loopVars
  <2> QED BY <2>1, <2>2, <1>7 DEF schedule
<1>8. ASSUME NEW w \in Workers, trigger(w) \/ wakeLoop(w) PROVE NoTimerOverslept'
  BY <1>3, <1>8 DEF trigger, wakeLoop
<1>9. ASSUME NEW w \in Workers, cancelOld(w) \/ cancelLast(w) PROVE NoTimerOverslept'
  <2>1. worker[w].old \in 0 .. created /\ info' = Cancelled(worker[w].old)
    BY <1>9, WorkerFacts DEF cancelOld, cancelLast, WakeInv
  <2>2. \A i \in ToSet(timers) : info'[i].left = info[i].left
    BY <2>1, CancelledFacts, TimerListFacts DEF WakeInv, LoopWakeInv
  <2> QED BY <2>2, <1>2, <1>9 DEF cancelOld, cancelLast, SetWorker, loopVars
<1>10. ASSUME NEW w \in Workers, setLast(w) PROVE NoTimerOverslept'
  BY <1>2, <1>10 DEF setLast, SetWorker, loopVars
<1>11. ASSUME NEW w \in Workers, grabFails(w) PROVE NoTimerOverslept'
  BY <1>5, <1>11 DEF grabFails, loopVars
<1>12. ASSUME NEW w \in Workers, releaseWakeLock(w) PROVE NoTimerOverslept'
  BY <1>2, <1>5, <1>12 DEF releaseWakeLock, IdleWorker, SetWorker, loopVars
<1>13. ASSUME NEW w \in Workers, unsolicitedResponse(w) PROVE NoTimerOverslept'
  BY <1>2, <1>13 DEF unsolicitedResponse, IdleWorker, SetWorker, loopVars
<1>14. ASSUME calcNextTimeout PROVE NoTimerOverslept'
  <2>1. ASSUME NEW i \in ToSet(timers), info[i].left >= 0 PROVE nap' <= info[i].left
    <3>1. PICK k \in DOMAIN timers : i = timers[k]
      BY DEF ToSet
    <3>2. /\ Len(timers) \in Nat /\ DOMAIN timers = 1 .. Len(timers)
          /\ \A j \in DOMAIN timers : info[timers[j]].left \in Int
      BY TimerListFacts DEF WakeInv, LoopWakeInv
    <3>3. 1 \in DOMAIN timers /\ timers # <<>> /\ Head(timers) = timers[1] /\ (k = 1 \/ 1 < k)
      BY <3>1, <3>2 DEF WakeInv, LoopWakeInv, LoopType
    <3>4. info[timers[1]].left <= info[i].left
      BY <3>1, <3>2, <3>3 DEF WakeInv, LoopWakeInv, Sorted
    <3>5. nap' = IF info[timers[1]].left > 0 THEN info[timers[1]].left ELSE 0
      BY <3>3, <1>14 DEF calcNextTimeout
    <3> QED BY <2>1, <3>1, <3>2, <3>3, <3>4, <3>5
  <2> QED BY <2>1, <1>00, <1>14 DEF calcNextTimeout
<1>15. ASSUME selectReturns \/ processTimeouts \/ processReadReadies \/ firePending \/ processWakeupCallback
              \/ userTimerCallback \/ wakeTimeoutCallback \/ testLast \/ clearLast \/ freeInfo
       PROVE  NoTimerOverslept'
  BY <1>4, <1>15 DEF selectReturns, processTimeouts, processReadReadies, firePending, processWakeupCallback,
     userTimerCallback, wakeTimeoutCallback, testLast, clearLast, freeInfo
<1>16. ASSUME tick PROVE NoTimerOverslept'
  <2>1. UNCHANGED <<pc, pipe, timers, worker>>
    BY <1>16 DEF tick
  <2>2. CASE pc = "select" /\ \A i \in ToSet(timers) : info[i].left >= 0 => nap <= info[i].left
    <3>1. ASSUME NEW i \in ToSet(timers), info'[i].left >= 0 PROVE nap' <= info'[i].left
      <4>1. i \in Timers
        BY TimerListFacts DEF WakeInv, LoopWakeInv
      <4>2. info[i].left \in -1 .. WakeDelay
        BY <4>1 DEF WakeInv, LoopWakeInv, LoopType, TimerInfo
      <4>3. info'[i].left = IF info[i].left >= 0 THEN info[i].left - 1 ELSE info[i].left
        BY <4>1, <1>16, TickFacts DEF WakeInv
      <4>4. info[i].left >= 1 /\ info'[i].left = info[i].left - 1 /\ nap <= info[i].left
        BY <2>2, <3>1, <4>2, <4>3 DEF WakeInv, WakeBounds
      <4>5. nap \in 0 .. WakeDelay + 1 /\ nap' = IF nap \in 1 .. WakeDelay THEN nap - 1 ELSE nap
        BY <2>2, <1>16 DEF tick, WakeInv, LoopWakeInv, LoopType, Forever
      <4> QED BY <4>2, <4>4, <4>5 DEF WakeInv, WakeBounds
    <3> QED BY <3>1, <2>1, <1>00
  <2> QED BY <2>1, <2>2, <1>00, <1>000
<1>17. CASE UNCHANGED wakeVars
  BY <1>5, <1>17 DEF wakeVars, loopVars
<1> QED BY <1>6, <1>7, <1>8, <1>9, <1>10, <1>11, <1>12, <1>13, <1>14, <1>15, <1>16, <1>17
        DEF WakeNext, workerStep, eventLoop

----------------------------------------------------------------------------
(* The workers, the mutex and the messages on their way *)

Busy == {"schedule", "trigger", "cancel", "setLast"}

(* What a worker turns to, and what becomes of it. *)
LEMMA FreeWork ==
  ASSUME NEW n \in Nat, NEW x \in 0 .. n
  PROVE  /\ Free \in Work(n) /\ Free.pc = "idle"
         /\ [Free EXCEPT !.pc = "wake"] \in Work(n) /\ [Free EXCEPT !.pc = "wake"].pc = "wake"
         /\ [Free EXCEPT !.pc = "schedule"] \in Work(n) /\ [Free EXCEPT !.pc = "schedule"].pc = "schedule"
         /\ LET r == [Free EXCEPT !.pc = "trigger", !.new = x]
            IN  r \in Work(n) /\ r.pc = "trigger" /\ r.new = x
         /\ LET r == [Free EXCEPT !.pc = "cancelLast", !.old = x]
            IN  r \in Work(n) /\ r.pc = "cancelLast"
<1> DEFINE r == Free
<1>1. r \in Work(n) /\ r.pc = "idle"
  BY DEF Free, Work, WorkerPcs, Nil
<1> HIDE DEF r
<1>2. /\ [r EXCEPT !.pc = "wake"] \in Work(n) /\ [r EXCEPT !.pc = "wake"].pc = "wake"
      /\ [r EXCEPT !.pc = "schedule"] \in Work(n) /\ [r EXCEPT !.pc = "schedule"].pc = "schedule"
      /\ [r EXCEPT !.pc = "trigger", !.new = x] \in Work(n)
      /\ [r EXCEPT !.pc = "trigger", !.new = x].pc = "trigger" /\ [r EXCEPT !.pc = "trigger", !.new = x].new = x
      /\ [r EXCEPT !.pc = "cancelLast", !.old = x] \in Work(n)
      /\ [r EXCEPT !.pc = "cancelLast", !.old = x].pc = "cancelLast"
  BY <1>1 DEF Work, WorkerPcs
<1> QED BY <1>1, <1>2 DEF r

LEMMA NextWork ==
  ASSUME NEW n \in Nat, NEW r \in Work(n), NEW x \in 0 .. n
  PROVE  /\ [r EXCEPT !.pc = "setLast"] \in Work(n) /\ [r EXCEPT !.pc = "setLast"].pc = "setLast"
         /\ [r EXCEPT !.pc = "setLast"].new = r.new
         /\ [r EXCEPT !.pc = "cancel", !.old = x] \in Work(n) /\ [r EXCEPT !.pc = "cancel", !.old = x].pc = "cancel"
         /\ [r EXCEPT !.pc = "cancel", !.old = x].new = r.new /\ [r EXCEPT !.pc = "cancel", !.old = x].old = x
         /\ [r EXCEPT !.pc = "trigger", !.new = x] \in Work(n) /\ [r EXCEPT !.pc = "trigger", !.new = x].pc = "trigger"
  BY DEF Work, WorkerPcs

LEMMA WorkGrows ==
  ASSUME WakeInv, NEW w \in Workers, NEW n \in Nat, created <= n
  PROVE  worker[w] \in Work(n)
  BY DEF WakeInv, LockType, LoopWakeInv, LoopType, WakeBounds, Work

(* A worker does something else now, and the others go on. *)
LEMMA WorkerSet ==
  ASSUME WakeInv, NEW n \in Nat, created <= n, NEW w \in Workers, NEW r \in Work(n),
         worker' = [worker EXCEPT ![w] = r]
  PROVE  /\ worker' \in [Workers -> Work(n)]
         /\ worker'[w] = r /\ \A v \in Workers : v # w => worker'[v] = worker[v]
         /\ r.pc \in Busy /\ worker[w].pc \in Busy => InFlight' = InFlight
         /\ r.pc \notin Busy /\ worker[w].pc \notin Busy => InFlight' = InFlight
         /\ r.pc \in Busy /\ worker[w].pc \notin Busy =>
               IsFiniteSet(InFlight') /\ Cardinality(InFlight') = Cardinality(InFlight) + 1
         /\ r.pc \notin Busy /\ worker[w].pc \in Busy =>
               IsFiniteSet(InFlight') /\ Cardinality(InFlight') = Cardinality(InFlight) - 1
<1>1. worker \in [Workers -> Work(created)] /\ created \in Nat /\ IsFiniteSet(InFlight)
  BY DEF WakeInv, LockType, Counted, LoopWakeInv, LoopType, WakeBounds
<1>2. Work(created) \subseteq Work(n)
  BY <1>1 DEF Work
<1>3. worker' \in [Workers -> Work(n)]
  BY <1>1, <1>2
<1>4. worker'[w] = r /\ \A v \in Workers : v # w => worker'[v] = worker[v]
  BY <1>1
<1>5. r.pc \in Busy => InFlight' = InFlight \cup {w}
  BY <1>4 DEF InFlight, Busy
<1>6. r.pc \notin Busy => InFlight' = InFlight \ {w}
  BY <1>4 DEF InFlight, Busy
<1>7. w \in InFlight <=> worker[w].pc \in Busy
  BY DEF InFlight, Busy
<1>8. w \in InFlight => InFlight \cup {w} = InFlight
  OBVIOUS
<1>9. w \notin InFlight => InFlight \ {w} = InFlight
  OBVIOUS
<1>10. /\ IsFiniteSet(InFlight \cup {w})
       /\ Cardinality(InFlight \cup {w}) = IF w \in InFlight THEN Cardinality(InFlight) ELSE Cardinality(InFlight) + 1
  BY <1>1, FS_AddElement
<1>11. /\ IsFiniteSet(InFlight \ {w})
       /\ Cardinality(InFlight \ {w}) = IF w \in InFlight THEN Cardinality(InFlight) - 1 ELSE Cardinality(InFlight)
  BY <1>1, FS_RemoveElement
<1> QED BY <1>3, <1>4, <1>5, <1>6, <1>7, <1>8, <1>9, <1>10, <1>11

WorkersInv == LockType /\ Counted /\ MutexInv /\ CountInv

(* The event thread and those who leave the lock alone; the timer may take it. *)
LEMMA LockKept ==
  ASSUME WakeInv, UNCHANGED <<acked, mutex, sent, owing, worker>>, created' \in Nat, created <= created',
         (UNCHANGED <<held, count>>) \/ (held' = FALSE /\ count' = 0)
  PROVE  WorkersInv'
<1>1. worker \in [Workers -> Work(created)] /\ created \in Nat
  BY DEF WakeInv, LockType, LoopWakeInv, LoopType, WakeBounds
<1>2. worker' \in [Workers -> Work(created')]
  BY <1>1 DEF Work
<1>3. LockType'
  <2>1. held' \in BOOLEAN /\ count' \in Nat
    <3>1. held \in BOOLEAN /\ count \in Nat
      BY DEF WakeInv, LockType
    <3>2. CASE UNCHANGED <<held, count>>
      BY <3>1, <3>2
    <3>3. CASE held' = FALSE /\ count' = 0
      BY <3>3
    <3> QED BY <3>2, <3>3
  <2>2. acked' \in BOOLEAN /\ mutex' \in Workers \cup {Nil} /\ sent' \in 0 .. MaxMessages /\ owing' \in Nat
    BY DEF WakeInv, LockType
  <2> QED BY <2>1, <2>2, <1>2 DEF LockType
<1>4. InFlight' = InFlight
  BY DEF InFlight
<1>5. Counted'
  BY <1>4 DEF WakeInv, Counted
<1>6. MutexInv'
  BY DEF WakeInv, MutexInv
<1>7. CountInv'
  BY DEF WakeInv, CountInv, LockType
<1> QED BY <1>3, <1>5, <1>6, <1>7 DEF WorkersInv

LEMMA CountFacts ==
  ASSUME WakeInv
  PROVE  /\ created \in Nat /\ sent \in Nat /\ owing \in Nat /\ count \in Nat
         /\ MaxMessages \in Nat /\ sent <= MaxMessages
         /\ IsFiniteSet(InFlight) /\ Cardinality(InFlight) \in Nat /\ owing + Cardinality(InFlight) <= sent
  BY FS_CardinalityType DEF WakeInv, LockType, Counted, LoopWakeInv, LoopType, WakeBounds

LEMMA GrabLock ==
  ASSUME WakeInv, NEW w \in Workers, grab(w)
  PROVE  WorkersInv'
<1> DEFINE r == [Free EXCEPT !.pc = "trigger", !.new = created + 1]
<1>1. /\ acked /\ worker[w].pc = "idle" /\ mutex = Nil /\ sent < MaxMessages /\ sent' = sent + 1
      /\ held' = TRUE /\ mutex' = w /\ created' = created + 1 /\ worker' = [worker EXCEPT ![w] = r]
      /\ UNCHANGED <<acked, count, owing>>
  BY DEF grab, addTimer, SetWorker, IdleWorker
<1>2. created + 1 \in Nat /\ created <= created + 1 /\ r \in Work(created + 1) /\ r.pc = "trigger"
  <2>1. created + 1 \in Nat /\ created <= created + 1 /\ created + 1 \in 0 .. created + 1
    BY CountFacts
  <2> QED BY <2>1, FreeWork
<1> HIDE DEF r
<1>3. /\ worker' \in [Workers -> Work(created')]
      /\ worker'[w] = r /\ \A v \in Workers : v # w => worker'[v] = worker[v]
      /\ IsFiniteSet(InFlight') /\ Cardinality(InFlight') = Cardinality(InFlight) + 1
  BY <1>1, <1>2, WorkerSet DEF Busy
<1>4. LockType'
  BY <1>1, <1>3, CountFacts DEF LockType, WakeInv
<1>5. Counted'
  BY <1>1, <1>3, CountFacts DEF Counted
<1>6. MutexInv'
  BY <1>1, <1>2, <1>3 DEF MutexInv, WakeInv, WakeBounds
<1>7. CountInv'
  BY <1>1, <1>3 DEF CountInv, MutexInv, WakeInv, WakeBounds
<1> QED BY <1>4, <1>5, <1>6, <1>7 DEF WorkersInv

LEMMA GrabFailsLock ==
  ASSUME WakeInv, NEW w \in Workers, grabFails(w)
  PROVE  WorkersInv'
<1>1. /\ acked /\ mutex = Nil /\ sent < MaxMessages /\ sent' = sent + 1 /\ held' = FALSE /\ owing' = owing + 1
      /\ UNCHANGED <<acked, count, mutex, created, worker>>
  BY DEF grabFails
<1>2. InFlight' = InFlight
  BY <1>1 DEF InFlight
<1>3. LockType'
  <2>1. worker' \in [Workers -> Work(created')]
    BY <1>1 DEF LockType, WakeInv
  <2>2. sent' \in 0 .. MaxMessages /\ owing' \in Nat
    BY <1>1, CountFacts
  <2> QED BY <2>1, <2>2, <1>1 DEF LockType, WakeInv
<1>4. Counted'
  BY <1>1, <1>2, CountFacts DEF Counted
<1>5. MutexInv'
  BY <1>1 DEF MutexInv, WakeInv
<1>6. CountInv'
  BY <1>1, CountFacts DEF CountInv, MutexInv, WakeInv, WakeBounds
<1> QED BY <1>3, <1>4, <1>5, <1>6 DEF WorkersInv

LEMMA ReleaseLock ==
  ASSUME WakeInv, NEW w \in Workers, releaseWakeLock(w)
  PROVE  WorkersInv'
<1> DEFINE r == [Free EXCEPT !.pc = "cancelLast", !.old = last]
<1>1. /\ acked /\ worker[w].pc = "idle" /\ mutex = Nil /\ owing > 0 /\ owing' = owing - 1
      /\ UNCHANGED <<acked, sent, created>>
  BY DEF releaseWakeLock, IdleWorker
<1>2. count <= owing
  BY <1>1 DEF CountInv, MutexInv, WakeInv, WakeBounds
<1>3. CASE count > 1
  <2>1. count' = count - 1 /\ UNCHANGED <<held, mutex, worker>>
    BY <1>3 DEF releaseWakeLock
  <2>2. InFlight' = InFlight
    BY <2>1 DEF InFlight
  <2>3. LockType'
    BY <1>1, <1>3, <2>1, CountFacts DEF LockType, WakeInv
  <2>4. Counted'
    BY <1>1, <2>2, CountFacts DEF Counted
  <2>5. MutexInv'
    BY <1>1, <2>1 DEF MutexInv, WakeInv
  <2>6. CountInv'
    BY <1>1, <1>2, <2>1, CountFacts DEF CountInv
  <2> QED BY <2>3, <2>4, <2>5, <2>6 DEF WorkersInv
<1>4. CASE ~(count > 1)
  <2>1. count' = 0 /\ held' = FALSE /\ mutex' = w /\ worker' = [worker EXCEPT ![w] = r]
    BY <1>4 DEF releaseWakeLock, SetWorker
  <2>2. r \in Work(created) /\ r.pc = "cancelLast" /\ created \in Nat /\ created <= created
    <3>1. last \in 0 .. created /\ created \in Nat /\ created <= created
      BY CountFacts DEF WakeInv, LoopWakeInv, LoopType
    <3> QED BY <3>1, FreeWork
  <2> HIDE DEF r
  <2>3. /\ worker' \in [Workers -> Work(created')]
        /\ worker'[w] = r /\ \A v \in Workers : v # w => worker'[v] = worker[v]
        /\ InFlight' = InFlight
    BY <1>1, <2>1, <2>2, WorkerSet DEF Busy
  <2>4. LockType'
    <3>1. count' \in Nat /\ held' \in BOOLEAN /\ mutex' \in Workers \cup {Nil}
      BY <2>1
    <3>3. owing' \in Nat
      BY <1>1, CountFacts
    <3>2. acked' \in BOOLEAN /\ sent' \in 0 .. MaxMessages
      BY <1>1 DEF LockType, WakeInv
    <3> QED BY <3>1, <3>2, <3>3, <2>3 DEF LockType
  <2>5. Counted'
    BY <1>1, <2>3, CountFacts DEF Counted
  <2>6. MutexInv'
    BY <1>1, <2>1, <2>2, <2>3 DEF MutexInv, WakeInv, WakeBounds
  <2>7. CountInv'
    BY <1>1, <2>1, CountFacts DEF CountInv
  <2> QED BY <2>4, <2>5, <2>6, <2>7 DEF WorkersInv
<1> QED BY <1>3, <1>4

LEMMA UnsolicitedLock ==
  ASSUME WakeInv, NEW w \in Workers, unsolicitedResponse(w)
  PROVE  WorkersInv'
<1> DEFINE r == [Free EXCEPT !.pc = "schedule"]
<1>1. /\ ~acked /\ worker[w].pc = "idle" /\ sent < MaxMessages /\ sent' = sent + 1
      /\ held' = TRUE /\ worker' = [worker EXCEPT ![w] = r]
      /\ UNCHANGED <<acked, count, mutex, owing, created>>
  BY DEF unsolicitedResponse, SetWorker, IdleWorker
<1>2. r \in Work(created) /\ r.pc = "schedule" /\ created \in Nat /\ created <= created
  <2>1. 0 \in 0 .. created /\ created \in Nat /\ created <= created
    BY CountFacts
  <2> QED BY <2>1, FreeWork
<1> HIDE DEF r
<1>3. /\ worker' \in [Workers -> Work(created')]
      /\ worker'[w] = r /\ \A v \in Workers : v # w => worker'[v] = worker[v]
      /\ IsFiniteSet(InFlight') /\ Cardinality(InFlight') = Cardinality(InFlight) + 1
  BY <1>1, <1>2, WorkerSet DEF Busy
<1>4. LockType'
  BY <1>1, <1>3, CountFacts DEF LockType, WakeInv
<1>5. Counted'
  BY <1>1, <1>3, CountFacts DEF Counted
<1>6. MutexInv'
  BY <1>1, <1>2, <1>3 DEF MutexInv, WakeInv, WakeBounds
<1> QED BY <1>1, <1>4, <1>5, <1>6 DEF WorkersInv, CountInv

LEMMA TriggerLock ==
  ASSUME WakeInv, NEW w \in Workers, trigger(w)
  PROVE  WorkersInv'
<1> DEFINE r == [worker[w] EXCEPT !.pc = "cancel", !.old = last]
<1>1. /\ worker[w].pc = "trigger" /\ worker' = [worker EXCEPT ![w] = r]
      /\ count' = IF acked THEN count + 1 ELSE count
      /\ UNCHANGED <<acked, held, mutex, sent, owing, created>>
  BY DEF trigger, SetWorker, msgVars
<1>2. created \in Nat /\ created <= created /\ last \in 0 .. created
  BY CountFacts DEF WakeInv, LoopWakeInv, LoopType
<1>3. r \in Work(created) /\ r.pc = "cancel"
  <2> DEFINE q == worker[w]
  <2>1. q \in Work(created)
    BY <1>2, WorkGrows
  <2> HIDE DEF q
  <2>2. [q EXCEPT !.pc = "cancel", !.old = last] \in Work(created)
        /\ [q EXCEPT !.pc = "cancel", !.old = last].pc = "cancel"
    BY <1>2, <2>1 DEF Work, WorkerPcs
  <2> QED BY <2>2 DEF q
<1> HIDE DEF r
<1>4. /\ worker' \in [Workers -> Work(created')]
      /\ worker'[w] = r /\ \A v \in Workers : v # w => worker'[v] = worker[v]
      /\ InFlight' = InFlight
  BY <1>1, <1>2, <1>3, WorkerSet DEF Busy
<1>5. LockType'
  <2>1. count' \in Nat
    BY <1>1, CountFacts
  <2>2. acked' \in BOOLEAN /\ held' \in BOOLEAN /\ mutex' \in Workers \cup {Nil}
        /\ sent' \in 0 .. MaxMessages /\ owing' \in Nat
    BY <1>1 DEF LockType, WakeInv
  <2> QED BY <2>1, <2>2, <1>4 DEF LockType
<1>6. Counted'
  BY <1>1, <1>4 DEF Counted, WakeInv
<1>7. MutexInv'
  BY <1>1, <1>3, <1>4 DEF MutexInv, WakeInv
<1>8. ASSUME acked PROVE CountInv'
  <2>1. \A v \in Workers : worker[v].pc \notin {"cancel", "setLast"}
    BY <1>1, <1>8 DEF MutexInv, WakeInv
  <2>2. count <= owing
    BY <2>1, <1>8 DEF CountInv, WakeInv
  <2>3. count' = count + 1 /\ owing' = owing /\ worker'[w].pc = "cancel"
    BY <1>1, <1>3, <1>4, <1>8
  <2>4. count' <= owing' \/ count' = owing' + 1
    BY <2>2, <2>3, CountFacts
  <2> QED BY <2>3, <2>4 DEF CountInv
<1>9. CountInv'
  BY <1>1, <1>8 DEF CountInv
<1> QED BY <1>5, <1>6, <1>7, <1>9 DEF WorkersInv

LEMMA CancelOldLock ==
  ASSUME WakeInv, NEW w \in Workers, cancelOld(w)
  PROVE  WorkersInv'
<1> DEFINE r == [worker[w] EXCEPT !.pc = "setLast"]
<1>1. /\ worker[w].pc = "cancel" /\ worker' = [worker EXCEPT ![w] = r]
      /\ UNCHANGED <<acked, held, count, mutex, sent, owing, created>>
  BY DEF cancelOld, SetWorker, wakeLockVars, msgVars
<1>2. created \in Nat /\ created <= created /\ 0 \in 0 .. created
  BY CountFacts
<1>3. r \in Work(created) /\ r.pc = "setLast"
  BY <1>2, NextWork, WorkGrows
<1> HIDE DEF r
<1>4. /\ worker' \in [Workers -> Work(created')]
      /\ worker'[w] = r /\ \A v \in Workers : v # w => worker'[v] = worker[v]
      /\ InFlight' = InFlight
  BY <1>1, <1>2, <1>3, WorkerSet DEF Busy
<1>5. LockType'
  BY <1>1, <1>4 DEF LockType, WakeInv
<1>6. Counted'
  BY <1>1, <1>4 DEF Counted, WakeInv
<1>7. MutexInv'
  BY <1>1, <1>3, <1>4 DEF MutexInv, WakeInv
<1>8. CountInv'
  BY <1>1, <1>3, <1>4 DEF CountInv, WakeInv
<1> QED BY <1>5, <1>6, <1>7, <1>8 DEF WorkersInv

LEMMA SetLastLock ==
  ASSUME WakeInv, NEW w \in Workers, setLast(w)
  PROVE  WorkersInv'
<1>1. /\ worker[w].pc = "setLast" /\ worker' = [worker EXCEPT ![w] = Free]
      /\ mutex' = Nil /\ owing' = owing + 1
      /\ UNCHANGED <<acked, held, count, sent, created>>
  BY DEF setLast, SetWorker
<1>2. created \in Nat /\ created <= created /\ 0 \in 0 .. created
  BY CountFacts
<1>3. Free \in Work(created) /\ Free.pc = "idle"
  BY <1>2, FreeWork
<1>4. /\ worker' \in [Workers -> Work(created')]
      /\ worker'[w] = Free /\ \A v \in Workers : v # w => worker'[v] = worker[v]
      /\ IsFiniteSet(InFlight') /\ Cardinality(InFlight') = Cardinality(InFlight) - 1
  BY <1>1, <1>2, <1>3, WorkerSet DEF Busy
<1>5. LockType'
  <2>1. owing' \in Nat /\ mutex' \in Workers \cup {Nil}
    BY <1>1, CountFacts
  <2>2. acked' \in BOOLEAN /\ held' \in BOOLEAN /\ count' \in Nat /\ sent' \in 0 .. MaxMessages
    BY <1>1 DEF LockType, WakeInv
  <2> QED BY <2>1, <2>2, <1>4 DEF LockType
<1>6. Counted'
  BY <1>1, <1>4, CountFacts DEF Counted
<1>7. MutexInv'
  BY <1>1, <1>3, <1>4 DEF MutexInv, WakeInv, WakeBounds
<1>8. CountInv'
  BY <1>1, CountFacts DEF CountInv, WakeInv
<1> QED BY <1>5, <1>6, <1>7, <1>8 DEF WorkersInv

LEMMA CancelLastLock ==
  ASSUME WakeInv, NEW w \in Workers, cancelLast(w)
  PROVE  WorkersInv'
<1>1. /\ worker[w].pc = "cancelLast" /\ worker' = [worker EXCEPT ![w] = Free]
      /\ mutex' = Nil
      /\ UNCHANGED <<acked, held, count, sent, owing, created>>
  BY DEF cancelLast, SetWorker, msgVars
<1>2. created \in Nat /\ created <= created /\ 0 \in 0 .. created
  BY CountFacts
<1>3. Free \in Work(created) /\ Free.pc = "idle"
  BY <1>2, FreeWork
<1>4. /\ worker' \in [Workers -> Work(created')]
      /\ worker'[w] = Free /\ \A v \in Workers : v # w => worker'[v] = worker[v]
      /\ InFlight' = InFlight
  BY <1>1, <1>2, <1>3, WorkerSet DEF Busy
<1>5. LockType'
  BY <1>1, <1>4 DEF LockType, WakeInv
<1>6. Counted'
  BY <1>1, <1>4 DEF Counted, WakeInv
<1>7. MutexInv'
  BY <1>1, <1>3, <1>4 DEF MutexInv, WakeInv, WakeBounds
<1>8. CountInv'
  BY <1>1, <1>4 DEF CountInv, WakeInv
<1> QED BY <1>5, <1>6, <1>7, <1>8 DEF WorkersInv

LEMMA ScheduleLock ==
  ASSUME WakeInv, NEW w \in Workers, schedule(w)
  PROVE  WorkersInv'
<1>1. /\ worker[w].pc = "schedule" /\ ~acked
      /\ UNCHANGED <<acked, count, mutex, sent, owing>>
  BY DEF schedule, msgVars, WakeInv, MutexInv
<1>2. created \in Nat
  BY CountFacts
<1>3. CASE addTimer(TRUE, WakeDelay) /\ UNCHANGED held
           /\ SetWorker(w, [worker[w] EXCEPT !.pc = "trigger", !.new = created + 1])
  <2> DEFINE r == [worker[w] EXCEPT !.pc = "trigger", !.new = created + 1]
  <2>1. created' = created + 1 /\ worker' = [worker EXCEPT ![w] = r] /\ held' = held
    BY <1>3 DEF addTimer, SetWorker
  <2>2. created + 1 \in Nat /\ created <= created + 1 /\ created + 1 \in 0 .. created + 1
    BY <1>2
  <2>3. r \in Work(created + 1) /\ r.pc = "trigger"
    <3> DEFINE q == worker[w]
    <3>1. q \in Work(created + 1)
      BY <2>2, WorkGrows
    <3> HIDE DEF q
    <3>2. [q EXCEPT !.pc = "trigger", !.new = created + 1] \in Work(created + 1)
          /\ [q EXCEPT !.pc = "trigger", !.new = created + 1].pc = "trigger"
      BY <2>2, <3>1 DEF Work, WorkerPcs
    <3> QED BY <3>2 DEF q
  <2> HIDE DEF r
  <2>4. /\ worker' \in [Workers -> Work(created')]
        /\ worker'[w] = r /\ \A v \in Workers : v # w => worker'[v] = worker[v]
        /\ InFlight' = InFlight
    BY <1>1, <2>1, <2>2, <2>3, WorkerSet DEF Busy
  <2>5. LockType'
    BY <1>1, <2>1, <2>4 DEF LockType, WakeInv
  <2>6. Counted'
    BY <1>1, <2>4 DEF Counted, WakeInv
  <2>7. MutexInv'
    BY <1>1, <2>3, <2>4 DEF MutexInv, WakeInv
  <2> QED BY <1>1, <2>5, <2>6, <2>7 DEF WorkersInv, CountInv
<1>4. CASE held' = FALSE /\ SetWorker(w, Free) /\ UNCHANGED <<info, created, timers>>
  <2>1. created' = created /\ worker' = [worker EXCEPT ![w] = Free] /\ held' = FALSE
    BY <1>4 DEF SetWorker
  <2>2. created \in Nat /\ created <= created /\ 0 \in 0 .. created
    BY <1>2
  <2>3. Free \in Work(created) /\ Free.pc = "idle"
    BY <2>2, FreeWork
  <2>4. /\ worker' \in [Workers -> Work(created')]
        /\ worker'[w] = Free /\ \A v \in Workers : v # w => worker'[v] = worker[v]
        /\ IsFiniteSet(InFlight') /\ Cardinality(InFlight') = Cardinality(InFlight) - 1
    BY <1>1, <2>1, <2>2, <2>3, WorkerSet DEF Busy
  <2>5. LockType'
    BY <1>1, <2>1, <2>4 DEF LockType, WakeInv
  <2>6. Counted'
    BY <1>1, <2>4, CountFacts DEF Counted
  <2>7. MutexInv'
    BY <1>1, <2>3, <2>4 DEF MutexInv, WakeInv
  <2> QED BY <1>1, <2>5, <2>6, <2>7 DEF WorkersInv, CountInv
<1> QED BY <1>3, <1>4 DEF schedule

(* A thread of the vendor asks for a timer, and wakes the loop. *)
LEMMA CallbackLock ==
  ASSUME WakeInv, NEW w \in Workers, requestTimedCallback(w) \/ wakeLoop(w)
  PROVE  WorkersInv'
<1>1. PICK r \in {Free, [Free EXCEPT !.pc = "wake"]} :
         /\ worker' = [worker EXCEPT ![w] = r] /\ worker[w].pc \in {"idle", "wake"}
         /\ UNCHANGED <<acked, held, count, mutex, sent, owing>>
  <2>1. CASE requestTimedCallback(w)
    BY <2>1 DEF requestTimedCallback, SetWorker, IdleWorker, wakeLockVars, msgVars
  <2>2. CASE wakeLoop(w)
    BY <2>2 DEF wakeLoop, SetWorker, wakeLockVars, msgVars
  <2> QED BY <2>1, <2>2
<1>2. created \in Nat /\ created' \in Nat /\ created <= created' /\ 0 \in 0 .. created'
  <2>1. created' \in {created, created + 1}
    BY DEF requestTimedCallback, wakeLoop, addTimer
  <2> QED BY <2>1, CountFacts
<1>3. r \in Work(created') /\ r.pc \in {"idle", "wake"}
  <2> DEFINE s == [Free EXCEPT !.pc = "wake"]
  <2>1. Free \in Work(created') /\ Free.pc = "idle" /\ s \in Work(created') /\ s.pc = "wake"
    BY <1>2, FreeWork
  <2>2. r = Free \/ r = s
    BY <1>1
  <2> HIDE DEF s
  <2> QED BY <2>1, <2>2
<1>4. /\ worker' \in [Workers -> Work(created')]
      /\ worker'[w] = r /\ \A v \in Workers : v # w => worker'[v] = worker[v]
      /\ InFlight' = InFlight
  BY <1>1, <1>2, <1>3, WorkerSet DEF Busy
<1>5. LockType'
  BY <1>1, <1>4 DEF LockType, WakeInv
<1>6. Counted'
  BY <1>1, <1>4 DEF Counted, WakeInv
<1>7. MutexInv'
  BY <1>1, <1>3, <1>4 DEF MutexInv, WakeInv
<1>8. CountInv'
  BY <1>1, <1>3, <1>4 DEF CountInv, WakeInv
<1> QED BY <1>5, <1>6, <1>7, <1>8 DEF WorkersInv

LEMMA LockStep ==
  ASSUME WakeInv, [WakeNext]_wakeVars
  PROVE  WorkersInv'
<1>0. created \in Nat
  BY CountFacts
<1>1. ASSUME eventLoop PROVE WorkersInv'
  <2>1. CASE calcNextTimeout \/ selectReturns \/ processTimeouts \/ processReadReadies \/ firePending
             \/ processWakeupCallback \/ testLast \/ clearLast \/ freeInfo
    <3>1. UNCHANGED <<acked, mutex, sent, owing, worker, held, count, created>>
      BY <2>1 DEF calcNextTimeout, selectReturns, processTimeouts, processReadReadies, firePending,
         processWakeupCallback, testLast, clearLast, freeInfo, wakeLockVars, msgVars
    <3> QED BY <3>1, <1>0, LockKept
  <2>2. CASE userTimerCallback
    <3>1. UNCHANGED <<acked, mutex, sent, owing, worker, held, count>> /\ created' \in {created, created + 1}
      BY <2>2 DEF userTimerCallback, addTimer, wakeLockVars, msgVars
    <3>2. created' \in Nat /\ created <= created'
      BY <3>1, <1>0
    <3> QED BY <3>1, <3>2, LockKept
  <2>3. CASE wakeTimeoutCallback
    <3>1. UNCHANGED <<acked, mutex, sent, owing, worker, created>> /\ held' = FALSE /\ count' = 0
      BY <2>3 DEF wakeTimeoutCallback, msgVars
    <3>2. created' \in Nat /\ created <= created'
      BY <3>1, <1>0
    <3> QED BY <3>1, <3>2, LockKept
  <2> QED BY <1>1, <2>1, <2>2, <2>3 DEF eventLoop
<1>2. CASE tick
  BY <1>0, <1>2, LockKept DEF tick, wakeLockVars, msgVars
<1>3. CASE UNCHANGED wakeVars
  BY <1>0, <1>3, LockKept DEF wakeVars, wakeLockVars, msgVars
<1>4. ASSUME NEW w \in Workers, workerStep(w) PROVE WorkersInv'
  BY <1>4, TriggerLock, CancelOldLock, SetLastLock, CancelLastLock, ScheduleLock, CallbackLock DEF workerStep
<1> QED BY <1>1, <1>2, <1>3, <1>4, GrabLock, GrabFailsLock, ReleaseLock, UnsolicitedLock, CallbackLock DEF WakeNext

----------------------------------------------------------------------------
(* The timer that will release the lock *)

LEMMA ReleaseAdded ==
  ASSUME WakeInv, NEW wake \in BOOLEAN, NEW delay \in 0 .. WakeDelay, addTimer(wake, delay),
         NEW i \in 1 .. created
  PROVE  info'[i] = info[i] /\ ToSet(timers) \subseteq ToSet(timers') /\ i \in 1 .. created'
<1>1. /\ created \in Nat /\ created' = created + 1
      /\ \A j \in Timers : j # created + 1 => info'[j] = info[j]
      /\ ToSet(timers') = ToSet(timers) \cup {created + 1}
  BY TimerAdded DEF WakeInv, LoopWakeInv
<1>2. i \in Timers /\ i # created + 1
  BY <1>1, TimerListFacts DEF WakeInv, LoopWakeInv
<1> QED BY <1>1, <1>2

(* It goes on to release it, unless somebody cancels it or it does so now.   *)
LEMMA ReleaseKept ==
  ASSUME WakeInv, [WakeNext]_wakeVars, NEW i \in 1 .. created, WillRelease(i), ~wakeTimeoutCallback,
         \A w \in Workers : cancelOld(w) \/ cancelLast(w) => i # worker[w].old
  PROVE  WillRelease(i)' /\ i \in 1 .. created'
<1> DEFINE Goal == WillRelease(i)' /\ i \in 1 .. created'
<1>0. /\ WakeDelay \in 0 .. WakeDelay /\ 0 \in 0 .. WakeDelay /\ i \in Timers /\ i # Nil /\ created \in Nat
      /\ TRUE \in BOOLEAN /\ FALSE \in BOOLEAN
  BY TimerListFacts DEF WakeInv, WakeBounds, LoopWakeInv, Nil
<1>1. ASSUME info'[i] = info[i], ToSet(timers) \cup ToSet(fire) \subseteq ToSet(timers') \cup ToSet(fire'),
             current' = current, pc' = pc \/ pc # "expire", i \in 1 .. created'
      PROVE  Goal
  BY <1>1 DEF WillRelease
<1>2. CASE UNCHANGED <<info, created, timers, fire, current>> /\ (pc' = pc \/ pc # "expire")
  BY <1>1, <1>2
<1>3. ASSUME NEW delay \in 0 .. WakeDelay, NEW wake \in BOOLEAN, addTimer(wake, delay),
             UNCHANGED <<fire, current, pc>>
      PROVE  Goal
  BY <1>1, <1>3, ReleaseAdded
<1>4. ASSUME NEW w \in Workers, grab(w) PROVE Goal
  BY <1>0, <1>3, <1>4 DEF grab, loopVars
<1>5. ASSUME NEW w \in Workers, requestTimedCallback(w) PROVE Goal
  <2>1. PICK delay \in {0, WakeDelay} : addTimer(FALSE, delay)
    BY <1>5 DEF requestTimedCallback
  <2> QED BY <2>1, <1>0, <1>3, <1>5 DEF requestTimedCallback, loopVars
<1>6. ASSUME NEW w \in Workers, schedule(w) PROVE Goal
  BY <1>0, <1>2, <1>3, <1>6 DEF schedule, loopVars
<1>7. ASSUME NEW w \in Workers, cancelOld(w) \/ cancelLast(w) PROVE Goal
  <2>1. worker[w].old \in 0 .. created /\ i # worker[w].old /\ info' = Cancelled(worker[w].old)
    BY <1>7, WorkerFacts DEF cancelOld, cancelLast, WakeInv
  <2>2. info'[i] = info[i]
    BY <2>1, <1>0, CancelledFacts DEF WakeInv, LoopWakeInv
  <2>3. UNCHANGED <<created, timers, fire, current, pc>>
    BY <1>7 DEF cancelOld, cancelLast, loopVars
  <2> QED BY <2>2, <2>3, <1>1
<1>8. ASSUME NEW w \in Workers,
             grabFails(w) \/ releaseWakeLock(w) \/ unsolicitedResponse(w) \/ trigger(w) \/ setLast(w) \/ wakeLoop(w)
      PROVE  Goal
  BY <1>2, <1>8 DEF grabFails, releaseWakeLock, unsolicitedResponse, trigger, setLast, wakeLoop, loopVars
<1>9. ASSUME calcNextTimeout \/ selectReturns \/ firePending \/ testLast \/ clearLast PROVE Goal
  BY <1>2, <1>9 DEF calcNextTimeout, selectReturns, firePending, testLast, clearLast
<1>10. ASSUME processTimeouts PROVE Goal
  <2>1. ToSet(timers') \cup ToSet(fire') = ToSet(timers) \cup ToSet(fire)
    BY <1>10, ExpiredStep DEF WakeInv
  <2> QED BY <2>1, <1>1, <1>10 DEF processTimeouts
<1>11. ASSUME processReadReadies PROVE Goal
  <2>1. ToSet(fire) \subseteq ToSet(fire')
    BY <1>11, ReadyStep DEF WakeInv
  <2> QED BY <2>1, <1>1, <1>11 DEF processReadReadies
<1>12. ASSUME processWakeupCallback PROVE Goal
  <2>1. ToSet(fire) = {Nil} \cup ToSet(fire')
    BY <1>12, WokenStep DEF WakeInv
  <2>2. UNCHANGED <<info, created, timers, current, pc>> /\ pc = "fire"
    BY <1>12 DEF processWakeupCallback
  <2> QED BY <2>1, <2>2, <1>0 DEF WillRelease
<1>13. ASSUME userTimerCallback PROVE Goal
  <2>1. /\ ToSet(fire) = {current'} \cup ToSet(fire')
        /\ (info' = info /\ created' = created /\ timers' = timers) \/ addTimer(FALSE, WakeDelay)
    BY <1>13, CalledStep DEF WakeInv
  <2>2. pc = "fire" /\ pc' = IF info[current'].wake /\ ~info[current'].cancelled THEN "expire" ELSE "clear"
    BY <1>13 DEF userTimerCallback
  <2>3. info'[i] = info[i] /\ ToSet(timers) \subseteq ToSet(timers') /\ i \in 1 .. created'
    <3>1. CASE info' = info /\ created' = created /\ timers' = timers
      BY <3>1
    <3>2. CASE addTimer(FALSE, WakeDelay)
      BY <3>2, <1>0, ReleaseAdded
    <3> QED BY <2>1, <3>1, <3>2
  <2>4. info[i].wake /\ ~info[i].cancelled /\ i \in ToSet(timers) \cup ToSet(fire)
    BY <2>2 DEF WillRelease
  <2>5. i = current' \/ i \in ToSet(timers') \cup ToSet(fire')
    BY <2>1, <2>3, <2>4
  <2>6. i = current' => pc' = "expire"
    BY <2>2, <2>4
  <2> QED BY <2>3, <2>4, <2>5, <2>6 DEF WillRelease
<1>14. ASSUME freeInfo PROVE Goal
  <2>1. /\ \A j \in Timers : j # current => info'[j] = info[j]
        /\ UNCHANGED <<created, timers, fire>> /\ pc = "free"
    BY <1>14, FreedStep DEF WakeInv, freeInfo
  <2>2. i \in ToSet(timers) \cup ToSet(fire)
    BY <2>1 DEF WillRelease
  <2>3. i # current
    BY <2>2, <1>0 DEF WakeInv, LoopWakeInv, OnePlace
  <2> QED BY <2>1, <2>2, <2>3, <1>0 DEF WillRelease
<1>15. ASSUME tick PROVE Goal
  <2>1. info'[i].wake = info[i].wake /\ info'[i].cancelled = info[i].cancelled
    BY <1>0, <1>15, TickFacts DEF WakeInv
  <2>2. UNCHANGED <<created, timers, fire, current, pc>>
    BY <1>15 DEF tick
  <2> QED BY <2>1, <2>2 DEF WillRelease
<1>16. CASE UNCHANGED wakeVars
  BY <1>2, <1>16 DEF wakeVars, loopVars
<1> QED BY <1>4, <1>5, <1>6, <1>7, <1>8, <1>9, <1>10, <1>11, <1>12, <1>13, <1>14, <1>15, <1>16
        DEF WakeNext, workerStep, eventLoop

(* The lock that nobody is at is owed an acknowledgement and has a timer.    *)
LEMMA HeldStep ==
  ASSUME WakeInv, [WakeNext]_wakeVars
  PROVE  HeldInv'
<1>1. SUFFICES ASSUME acked', held', mutex' = Nil
               PROVE  owing' > 0 /\ (\E i \in 1 .. created : WillRelease(i))'
  BY DEF HeldInv
<1>2. ASSUME held, mutex = Nil, acked, owing' > 0, ~wakeTimeoutCallback,
             \A w \in Workers : ~cancelOld(w) /\ ~cancelLast(w)
      PROVE  owing' > 0 /\ (\E i \in 1 .. created : WillRelease(i))'
  <2>1. PICK i \in 1 .. created : WillRelease(i)
    BY <1>2 DEF WakeInv, HeldInv
  <2>2. WillRelease(i)' /\ i \in 1 .. created'
    BY <2>1, <1>2, ReleaseKept
  <2> QED BY <2>2, <1>2
<1>3. acked
  BY <1>1 DEF WakeNext, wakeVars, grab, grabFails, releaseWakeLock, unsolicitedResponse, requestTimedCallback, workerStep, trigger,
     cancelOld, setLast, cancelLast, schedule, wakeLoop, eventLoop, calcNextTimeout, selectReturns, processTimeouts,
     processReadReadies, firePending, processWakeupCallback, userTimerCallback, wakeTimeoutCallback, testLast,
     clearLast, freeInfo, tick
<1>4. \A w \in Workers : worker[w].pc \in {"trigger", "cancel", "setLast", "cancelLast"} => mutex = w /\ w # Nil
  BY <1>3 DEF WakeInv, MutexInv, WakeBounds
<1>5. \A w \in Workers : ~trigger(w) /\ ~cancelOld(w)
  BY <1>1, <1>4 DEF trigger, cancelOld, wakeLockVars
<1>6. \A w \in Workers : ~cancelLast(w)
  BY <1>1, <1>3 DEF cancelLast, WakeInv, GuardInv, Guards
<1>7. ~wakeTimeoutCallback
  BY <1>1 DEF wakeTimeoutCallback
<1>8. \A w \in Workers : ~grab(w) /\ ~grabFails(w) /\ ~unsolicitedResponse(w) /\ ~schedule(w)
  BY <1>1, <1>3 DEF grab, grabFails, unsolicitedResponse, schedule, WakeInv, WakeBounds, MutexInv
<1>9. ASSUME NEW w \in Workers, setLast(w)
      PROVE  owing' > 0 /\ (\E i \in 1 .. created : WillRelease(i))'
  <2>1. worker[w].pc = "setLast" /\ owing' = owing + 1
    BY <1>9 DEF setLast
  <2>2. worker[w].new \in 1 .. created /\ WillRelease(worker[w].new)
    BY <2>1, <1>3 DEF WakeInv, GuardInv, Guards
  <2>3. PICK i \in 1 .. created : i = worker[w].new
    BY <2>2
  <2>4. WillRelease(i)' /\ i \in 1 .. created'
    BY <2>2, <2>3, <1>5, <1>6, <1>7, ReleaseKept
  <2> QED BY <2>1, <2>4, CountFacts
<1>10. ASSUME NEW w \in Workers, releaseWakeLock(w)
       PROVE  owing' > 0 /\ (\E i \in 1 .. created : WillRelease(i))'
  <2>1. count > 1 /\ mutex = Nil /\ held' = held /\ owing' = owing - 1
    BY <1>1, <1>10 DEF releaseWakeLock, WakeBounds, WakeInv
  <2>2. count <= owing
    BY <2>1, <1>3 DEF CountInv, MutexInv, WakeInv, WakeBounds
  <2>3. owing' > 0
    BY <2>1, <2>2, CountFacts
  <2> QED BY <2>1, <2>3, <1>1, <1>2, <1>3, <1>5, <1>6, <1>7
<1>11. ASSUME UNCHANGED <<held, mutex, owing>>
       PROVE  owing' > 0 /\ (\E i \in 1 .. created : WillRelease(i))'
  <2>1. owing > 0
    BY <1>1, <1>3, <1>11 DEF WakeInv, HeldInv
  <2> QED BY <2>1, <1>1, <1>2, <1>3, <1>5, <1>6, <1>7, <1>11
<1>12. ASSUME NEW w \in Workers, requestTimedCallback(w) \/ wakeLoop(w)
       PROVE  UNCHANGED <<held, mutex, owing>>
  BY <1>12 DEF requestTimedCallback, wakeLoop, wakeLockVars, msgVars
<1>13. ASSUME eventLoop PROVE UNCHANGED <<held, mutex, owing>>
  BY <1>7, <1>13 DEF eventLoop, calcNextTimeout, selectReturns, processTimeouts, processReadReadies, firePending,
     processWakeupCallback, userTimerCallback, testLast, clearLast, freeInfo, wakeLockVars, msgVars
<1>14. ASSUME tick \/ UNCHANGED wakeVars PROVE UNCHANGED <<held, mutex, owing>>
  BY <1>14 DEF tick, wakeVars, wakeLockVars, msgVars
<1> QED BY <1>5, <1>6, <1>8, <1>9, <1>10, <1>11, <1>12, <1>13, <1>14 DEF WakeNext, workerStep

(* A worker that goes on is guarded still, whatever the others do.          *)
LEMMA GuardKept ==
  ASSUME WakeInv, [WakeNext]_wakeVars, acked, NEW v \in Workers, worker'[v] = worker[v],
         worker[v].pc = "trigger" => last' = last \/ last' = Nil,
         worker[v].pc = "cancelLast" => held' = held \/ held' = FALSE,
         worker[v].pc = "cancelLast" => count' = count \/ count' = 0,
         \A w \in Workers : cancelOld(w) \/ cancelLast(w) => w # v
  PROVE  Guards(v)'
<1>1. Guards(v)
  BY DEF WakeInv, GuardInv
<1>2. \A w \in Workers : mutex = w <=> worker[w].pc \in {"trigger", "cancel", "setLast", "cancelLast"}
  BY DEF WakeInv, MutexInv
<1>3. ASSUME worker[v].pc \in {"trigger", "cancel", "setLast"}
      PROVE  worker[v].new \in 1 .. created' /\ WillRelease(worker[v].new)'
  <2>1. mutex = v /\ v # Nil
    BY <1>2, <1>3 DEF WakeInv, WakeBounds
  <2>2. ~wakeTimeoutCallback
    BY <2>1 DEF wakeTimeoutCallback
  <2>3. \A w \in Workers : ~cancelOld(w) /\ ~cancelLast(w)
    BY <1>2, <2>1 DEF cancelOld, cancelLast
  <2>4. PICK i \in 1 .. created : i = worker[v].new /\ WillRelease(i)
    BY <1>1, <1>3 DEF Guards
  <2>5. WillRelease(i)' /\ i \in 1 .. created'
    BY <2>2, <2>3, <2>4, ReleaseKept
  <2>6. worker'[v].new = i
    BY <2>4
  <2> QED BY <2>4, <2>5 DEF WillRelease
<1>4. worker[v].pc = "trigger" => last' # worker[v].new
  BY <1>1, CountFacts DEF Guards, Nil
<1> QED BY <1>1, <1>3, <1>4 DEF Guards, WillRelease

LEMMA CancelMoves ==
  ASSUME WakeInv, NEW v \in Workers, cancelOld(v) \/ cancelLast(v)
  PROVE  worker'[v].pc \in {"idle", "setLast"} /\ worker[v].pc \in {"cancel", "cancelLast"}
<1> DEFINE q == worker[v]
<1>1. q \in Work(created) /\ worker \in [Workers -> Work(created)]
  BY DEF WakeInv, LockType
<1>2. CASE cancelOld(v)
  <2>1. q.pc = "cancel" /\ worker' = [worker EXCEPT ![v] = [q EXCEPT !.pc = "setLast"]]
    BY <1>2 DEF cancelOld, SetWorker
  <2>2. worker'[v] = [q EXCEPT !.pc = "setLast"]
    BY <1>1, <2>1
  <2> HIDE DEF q
  <2>3. [q EXCEPT !.pc = "setLast"].pc = "setLast"
    BY <1>1 DEF Work
  <2> QED BY <2>1, <2>2, <2>3 DEF q
<1>3. CASE cancelLast(v)
  BY <1>1, <1>3 DEF cancelLast, SetWorker, Free
<1> QED BY <1>2, <1>3

LEMMA GuardStep ==
  ASSUME WakeInv, [WakeNext]_wakeVars
  PROVE  GuardInv'
<1>1. SUFFICES ASSUME acked' PROVE \A v \in Workers : Guards(v)'
  BY DEF GuardInv
<1>2. acked
  BY <1>1 DEF WakeNext, wakeVars, grab, grabFails, releaseWakeLock, unsolicitedResponse, requestTimedCallback, workerStep, trigger,
     cancelOld, setLast, cancelLast, schedule, wakeLoop, eventLoop, calcNextTimeout, selectReturns, processTimeouts,
     processReadReadies, firePending, processWakeupCallback, userTimerCallback, wakeTimeoutCallback, testLast,
     clearLast, freeInfo, tick
<1>3. \A w \in Workers : mutex = w <=> worker[w].pc \in {"trigger", "cancel", "setLast", "cancelLast"}
  BY <1>2 DEF WakeInv, MutexInv
<1>4. worker \in [Workers -> Work(created)] /\ Nil \notin Workers /\ created \in Nat
  BY CountFacts DEF WakeInv, LockType, WakeBounds
<1>5. ASSUME NEW w \in Workers, NEW r, worker' = [worker EXCEPT ![w] = r], Guards(w)',
             mutex = Nil \/ mutex = w,
             \A v \in Workers : cancelOld(v) \/ cancelLast(v) => v = w
      PROVE  \A v \in Workers : Guards(v)'
  <2>1. ASSUME NEW v \in Workers, v # w PROVE Guards(v)'
    <3>1. worker'[v] = worker[v]
      BY <1>4, <1>5, <2>1
    <3>2. worker[v].pc \notin {"trigger", "cancelLast"}
      BY <1>3, <1>4, <1>5, <2>1
    <3> QED BY <1>2, <1>5, <2>1, <3>1, <3>2, GuardKept
  <2> QED BY <1>5, <2>1
<1>6. ASSUME \A v \in Workers : worker'[v] = worker[v] /\ ~cancelOld(v) /\ ~cancelLast(v),
             last' = last \/ last' = Nil, held' = held \/ held' = FALSE, count' = count \/ count' = 0
      PROVE  \A v \in Workers : Guards(v)'
  BY <1>2, <1>6, GuardKept
<1>7. ASSUME NEW w \in Workers, grab(w) PROVE \A v \in Workers : Guards(v)'
  <2> DEFINE r == [Free EXCEPT !.pc = "trigger", !.new = created + 1]
  <2>1. worker' = [worker EXCEPT ![w] = r] /\ mutex = Nil /\ last' = last /\ addTimer(TRUE, WakeDelay)
    BY <1>7 DEF grab, SetWorker
  <2>2. r.pc = "trigger" /\ r.new = created + 1
    <3>1. created + 1 \in Nat /\ created + 1 \in 0 .. created + 1
      BY <1>4
    <3> QED BY <3>1, FreeWork
  <2> HIDE DEF r
  <2>3. /\ created' = created + 1 /\ info'[created + 1] = NewInfo(TRUE, WakeDelay)
        /\ ToSet(timers') = ToSet(timers) \cup {created + 1}
    <3>1. WakeDelay \in 0 .. WakeDelay /\ TRUE \in BOOLEAN
      BY DEF WakeInv, WakeBounds
    <3> QED BY <2>1, <3>1, TimerAdded DEF WakeInv, LoopWakeInv
  <2>4. worker'[w] = r /\ last \in 0 .. created
    BY <1>4, <2>1 DEF WakeInv, LoopWakeInv, LoopType
  <2>5. created + 1 \in 1 .. created' /\ last' # created + 1
    BY <1>4, <2>1, <2>3, <2>4
  <2>6. Guards(w)'
    BY <2>2, <2>3, <2>4, <2>5 DEF Guards, WillRelease, NewInfo
  <2>7. \A v \in Workers : ~cancelOld(v) /\ ~cancelLast(v)
    BY <1>3, <1>4, <2>1 DEF cancelOld, cancelLast
  <2> QED BY <1>5, <2>1, <2>6, <2>7
<1>8. ASSUME NEW w \in Workers, trigger(w) PROVE \A v \in Workers : Guards(v)'
  <2> DEFINE r == [worker[w] EXCEPT !.pc = "cancel", !.old = last]
  <2>1. /\ worker[w].pc = "trigger" /\ worker' = [worker EXCEPT ![w] = r] /\ last \in 0 .. created
    BY <1>8 DEF trigger, SetWorker, WakeInv, LoopWakeInv, LoopType
  <2>2. r.pc = "cancel" /\ r.new = worker[w].new /\ r.old = last
    <3> DEFINE q == worker[w]
    <3>1. q \in Work(created)
      BY <1>4
    <3> HIDE DEF q
    <3>2. [q EXCEPT !.pc = "cancel", !.old = last].pc = "cancel" /\ [q EXCEPT !.pc = "cancel", !.old = last].new = q.new
          /\ [q EXCEPT !.pc = "cancel", !.old = last].old = last
      BY <3>1 DEF Work
    <3> QED BY <3>2 DEF q
  <2> HIDE DEF r
  <2>3. worker'[w] = r
    BY <1>4, <2>1
  <2>4. mutex = w
    BY <1>3, <2>1
  <2>5. \A v \in Workers : ~cancelOld(v) /\ ~cancelLast(v)
    BY <1>3, <2>1, <2>4 DEF cancelOld, cancelLast
  <2>6. ~wakeTimeoutCallback
    BY <1>2, <1>4, <2>4 DEF wakeTimeoutCallback
  <2>7. PICK i \in 1 .. created : i = worker[w].new /\ WillRelease(i) /\ last # i
    BY <1>2, <2>1 DEF WakeInv, GuardInv, Guards
  <2>8. WillRelease(i)' /\ i \in 1 .. created'
    BY <2>5, <2>6, <2>7, ReleaseKept
  <2>9. Guards(w)'
    BY <2>2, <2>3, <2>7, <2>8 DEF Guards, WillRelease
  <2> QED BY <1>5, <2>1, <2>4, <2>5, <2>9
<1>9. ASSUME NEW w \in Workers, cancelOld(w) PROVE \A v \in Workers : Guards(v)'
  <2> DEFINE r == [worker[w] EXCEPT !.pc = "setLast"]
  <2>1. /\ worker[w].pc = "cancel" /\ worker' = [worker EXCEPT ![w] = r]
    BY <1>9 DEF cancelOld, SetWorker
  <2>2. r.pc = "setLast" /\ r.new = worker[w].new
    <3> DEFINE q == worker[w]
    <3>1. q \in Work(created)
      BY <1>4
    <3> HIDE DEF q
    <3>2. [q EXCEPT !.pc = "setLast"].pc = "setLast" /\ [q EXCEPT !.pc = "setLast"].new = q.new
      BY <3>1 DEF Work
    <3> QED BY <3>2 DEF q
  <2> HIDE DEF r
  <2>3. worker'[w] = r
    BY <1>4, <2>1
  <2>4. mutex = w
    BY <1>3, <2>1
  <2>5. \A v \in Workers : cancelOld(v) \/ cancelLast(v) => v = w
    BY <1>3, <2>4 DEF cancelOld, cancelLast
  <2>6. ~wakeTimeoutCallback
    BY <1>2, <1>4, <2>4 DEF wakeTimeoutCallback
  <2>7. PICK i \in 1 .. created : i = worker[w].new /\ WillRelease(i) /\ worker[w].old # i
    BY <1>2, <2>1 DEF WakeInv, GuardInv, Guards
  <2>8. WillRelease(i)' /\ i \in 1 .. created'
    BY <2>5, <2>6, <2>7, ReleaseKept
  <2>9. Guards(w)'
    BY <2>2, <2>3, <2>7, <2>8 DEF Guards, WillRelease
  <2> QED BY <1>5, <2>1, <2>4, <2>5, <2>9
<1>10. ASSUME NEW w \in Workers, setLast(w) \/ cancelLast(w) PROVE \A v \in Workers : Guards(v)'
  <2>1. worker' = [worker EXCEPT ![w] = Free] /\ worker[w].pc \in {"setLast", "cancelLast"}
    BY <1>10 DEF setLast, cancelLast, SetWorker
  <2>2. worker'[w] = Free /\ mutex = w
    BY <1>3, <1>4, <2>1
  <2>3. Guards(w)'
    BY <2>2 DEF Guards, Free
  <2>4. \A v \in Workers : cancelOld(v) \/ cancelLast(v) => v = w
    BY <1>3, <2>2 DEF cancelOld, cancelLast
  <2> QED BY <1>5, <2>1, <2>2, <2>3, <2>4
<1>11. ASSUME NEW w \in Workers, releaseWakeLock(w) PROVE \A v \in Workers : Guards(v)'
  <2>1. mutex = Nil /\ last' = last
    BY <1>11 DEF releaseWakeLock
  <2>2. \A v \in Workers : ~cancelOld(v) /\ ~cancelLast(v)
    BY <1>3, <1>4, <2>1 DEF cancelOld, cancelLast
  <2>3. CASE count > 1
    <3>1. \A v \in Workers : worker[v].pc \notin {"trigger", "cancelLast"}
      BY <1>3, <1>4, <2>1
    <3> QED BY <1>2, <1>11, <2>1, <2>2, <2>3, <3>1, GuardKept DEF releaseWakeLock
  <2>4. CASE ~(count > 1)
    <3> DEFINE r == [Free EXCEPT !.pc = "cancelLast", !.old = last]
    <3>1. worker' = [worker EXCEPT ![w] = r] /\ count' = 0 /\ held' = FALSE
      BY <2>4, <1>11 DEF releaseWakeLock, SetWorker
    <3>2. r.pc = "cancelLast"
      BY <1>4, FreeWork DEF WakeInv, LoopWakeInv, LoopType
    <3> HIDE DEF r
    <3>3. worker'[w] = r
      BY <1>4, <3>1
    <3>4. Guards(w)'
      BY <3>1, <3>2, <3>3 DEF Guards
    <3> QED BY <1>5, <2>1, <2>2, <3>1, <3>4
  <2> QED BY <2>3, <2>4
<1>12. ASSUME NEW w \in Workers, grabFails(w) PROVE \A v \in Workers : Guards(v)'
  <2>1. mutex = Nil /\ last' = last /\ held' = FALSE /\ count' = count /\ worker' = worker
    BY <1>12 DEF grabFails
  <2>2. \A v \in Workers : ~cancelOld(v) /\ ~cancelLast(v)
    BY <1>3, <1>4, <2>1 DEF cancelOld, cancelLast
  <2> QED BY <2>1, <2>2, <1>6
<1>13. ASSUME NEW w \in Workers, requestTimedCallback(w) \/ wakeLoop(w) PROVE \A v \in Workers : Guards(v)'
  <2>1. PICK r \in {Free, [Free EXCEPT !.pc = "wake"]} :
           worker' = [worker EXCEPT ![w] = r] /\ worker[w].pc \in {"idle", "wake"}
    <3>1. CASE requestTimedCallback(w)
      BY <3>1 DEF requestTimedCallback, SetWorker, IdleWorker
    <3>2. CASE wakeLoop(w)
      BY <3>2 DEF wakeLoop, SetWorker
    <3> QED BY <1>13, <3>1, <3>2
  <2>2. UNCHANGED <<held, count, mutex, last>>
    BY <1>13 DEF requestTimedCallback, wakeLoop, wakeLockVars
  <2>3. r.pc \in {"idle", "wake"}
    <3> DEFINE s == [Free EXCEPT !.pc = "wake"]
    <3>1. 0 \in 0 .. created
      BY <1>4
    <3>2. Free.pc = "idle" /\ s.pc = "wake"
      BY <1>4, <3>1, FreeWork
    <3>3. r = Free \/ r = s
      BY <2>1
    <3> HIDE DEF s
    <3> QED BY <3>2, <3>3
  <2>4. ASSUME NEW v \in Workers, cancelOld(v) \/ cancelLast(v) PROVE FALSE
    <3>1. v # w /\ worker'[v].pc # worker[v].pc
      BY <2>1, <2>4, CancelMoves
    <3>2. worker'[v] = worker[v]
      BY <1>4, <2>1, <3>1
    <3> QED BY <3>1, <3>2
  <2>5. ASSUME NEW v \in Workers PROVE Guards(v)'
    <3>1. CASE v = w
      <4>1. worker'[w] = r
        BY <1>4, <2>1
      <4> QED BY <2>3, <3>1, <4>1 DEF Guards
    <3>2. CASE v # w
      <4>1. worker'[v] = worker[v]
        BY <1>4, <2>1, <3>2
      <4> QED BY <1>2, <2>2, <2>4, <4>1, GuardKept
    <3> QED BY <3>1, <3>2
  <2> QED BY <2>5
<1>14. \A w \in Workers : ~unsolicitedResponse(w) /\ ~schedule(w)
  BY <1>2 DEF unsolicitedResponse, schedule, WakeInv, MutexInv
<1>15. ASSUME eventLoop \/ tick \/ UNCHANGED wakeVars PROVE \A v \in Workers : Guards(v)'
  <2>1. /\ worker' = worker
        /\ last' = last \/ last' = Nil
        /\ held' = held \/ held' = FALSE
        /\ count' = count \/ count' = 0
    BY <1>15 DEF eventLoop, calcNextTimeout, selectReturns, processTimeouts, processReadReadies, firePending,
       processWakeupCallback, userTimerCallback, wakeTimeoutCallback, testLast, clearLast, freeInfo, tick, wakeVars,
       wakeLockVars, msgVars
  <2>2. ASSUME NEW v \in Workers, cancelOld(v) \/ cancelLast(v) PROVE FALSE
    <3>1. worker'[v].pc # worker[v].pc
      BY <2>2, CancelMoves
    <3> QED BY <2>1, <3>1
  <2> QED BY <2>1, <2>2, <1>6
<1> QED BY <1>7, <1>8, <1>9, <1>10, <1>11, <1>12, <1>13, <1>14, <1>15 DEF WakeNext, workerStep

----------------------------------------------------------------------------
(* Theorems *)

LEMMA WakeStarts == WakeInit => WakeInv
<1> SUFFICES ASSUME WakeBounds, WakeInit PROVE WakeInv
  BY WakeBoundsHold
<1>1. LoopType
  <2>1. NewInfo(FALSE, 0) \in TimerInfo
    BY DEF NewInfo, TimerInfo, WakeBounds
  <2>2. info \in [Timers -> TimerInfo]
    BY <2>1 DEF WakeInit
  <2>3. created \in 0 .. MaxTimers /\ current \in 0 .. created /\ last \in 0 .. created /\ nap \in 0 .. Forever
    BY DEF WakeInit, Forever, WakeBounds, Nil
  <2>4. timers \in Seq(1 .. created) /\ fire \in Seq(0 .. created)
    BY DEF WakeInit
  <2> QED BY <2>2, <2>3, <2>4 DEF WakeInit, LoopType, LoopPcs
<1>2. LockType
  <2>1. 0 \in Nat /\ 0 \in 0 .. 0
    OBVIOUS
  <2>2. Free \in Work(created) /\ created = 0
    BY <2>1, FreeWork DEF WakeInit
  <2>3. worker \in [Workers -> Work(created)]
    BY <2>2 DEF WakeInit
  <2>4. sent \in 0 .. MaxMessages /\ owing \in Nat /\ count \in Nat
    BY DEF WakeInit, WakeBounds
  <2>5. acked \in BOOLEAN /\ held \in BOOLEAN /\ mutex \in Workers \cup {Nil}
    BY DEF WakeInit
  <2> QED BY <2>3, <2>4, <2>5 DEF LockType
<1>3. ToSet(timers) = {} /\ ToSet(fire) = {}
  BY DEF WakeInit, ToSet
<1>4. Sorted /\ OnePlace /\ LoopInv
  BY <1>3 DEF WakeInit, Sorted, OnePlace, Once, LoopInv
<1>5. NoTimerOverslept /\ FiredOnce
  BY <1>3 DEF WakeInit, NoTimerOverslept, FiredOnce
<1>6. \A w \in Workers : worker[w].pc = "idle"
  BY DEF WakeInit, Free
<1>7. Counted
  <2>1. InFlight = {}
    BY <1>6 DEF InFlight
  <2> QED BY <2>1, FS_EmptySet DEF Counted, WakeInit
<1>8. MutexInv /\ HeldInv /\ GuardInv /\ CountInv
  BY <1>6 DEF WakeInit, MutexInv, HeldInv, GuardInv, Guards, CountInv, WakeBounds
<1> QED BY <1>1, <1>2, <1>4, <1>5, <1>7, <1>8 DEF WakeInv, LoopWakeInv

LEMMA WakeStep == WakeInv /\ [WakeNext]_wakeVars => WakeInv'
<1> SUFFICES ASSUME WakeInv, [WakeNext]_wakeVars PROVE WakeInv'
  OBVIOUS
<1>1. WakeBounds'
  BY DEF WakeInv, WakeBounds, Nil
<1> QED BY <1>1, LoopWakeStep, FiredStep, SleptStep, LockStep, HeldStep, GuardStep DEF WakeInv, WorkersInv

(* What the threads of the vendor, the one that serves the framework and the *)
(* event thread of libril keep together: the timers are sorted and each is   *)
(* in one place (ril_timer_add, processTimeouts, firePending), the mutex has *)
(* one owner (grabPartialWakeLock, releaseWakeLock), and every wake lock     *)
(* that is held has a timer or an acknowledgement coming for it.             *)
THEOREM WakeInvariant == WakeSpec => []WakeInv
BY WakeStarts, WakeStep, PTL DEF WakeSpec

(* The count of messages is no more than were sent. *)
LEMMA WakeTypes ==
  ASSUME WakeInv
  PROVE  WakeTypeOK
<1>1. count \in 0 .. MaxMessages
  <2>1. CASE ~acked
    BY <2>1, CountFacts DEF WakeInv, MutexInv
  <2>2. CASE acked /\ count <= owing
    BY <2>2, CountFacts
  <2>3. CASE acked /\ count = owing + 1 /\ \E w \in Workers : worker[w].pc \in {"cancel", "setLast"}
    <3>1. PICK w \in Workers : worker[w].pc \in {"cancel", "setLast"}
      BY <2>3
    <3>2. InFlight # {}
      BY <3>1 DEF InFlight
    <3>3. Cardinality(InFlight) # 0
      BY <3>2, CountFacts, FS_EmptySet
    <3> QED BY <2>3, <3>3, CountFacts
  <2> QED BY <2>1, <2>2, <2>3 DEF WakeInv, CountInv
<1>2. owing \in 0 .. sent
  BY CountFacts
<1>3. current \in Timers \cup {Nil} /\ last \in Timers \cup {Nil}
  BY DEF WakeInv, LoopWakeInv, LoopType, Timers, Nil, WakeBounds
<1> QED BY <1>1, <1>2, <1>3 DEF WakeTypeOK, WakeInv, LoopWakeInv, LoopType, LockType

(* The wake lock of grabPartialWakeLock never stays behind: while it is held *)
(* and no thread is between taking the lock and sending the message, a timer *)
(* that nobody has cancelled will release it in wakeTimeoutCallback, however *)
(* acknowledgements (releaseWakeLock), new messages and the timers of older  *)
(* ones interleave; and when the framework has acknowledged every message,   *)
(* the lock is free.                                                         *)
THEOREM WakeLockIsGuarded == WakeSpec => []WakeLockGuarded
<1>1. ASSUME WakeInv PROVE HeldIsGuarded
  <2>1. SUFFICES ASSUME acked, held, \A w \in Workers : worker[w].pc \in {"idle", "wake"}
                 PROVE  \E i \in 1 .. created : WillRelease(i)
    BY DEF HeldIsGuarded
  <2>2. mutex = Nil
    BY <1>1, <2>1 DEF WakeInv, MutexInv, LockType
  <2> QED BY <1>1, <2>1, <2>2 DEF WakeInv, HeldInv
<1>2. ASSUME WakeInv PROVE AllAckedIsFree
  BY <1>2 DEF WakeInv, HeldInv, AllAckedIsFree
<1>3. WakeInv => WakeLockGuarded
  BY <1>1, <1>2, WakeTypes DEF WakeLockGuarded
<1> QED BY <1>3, WakeInvariant, PTL

(* The event loop (ril_event_loop) never sleeps in select() beyond a timer:  *)
(* calcNextTimeout reads the list before it sleeps, and a timer added in     *)
(* between by internalRequestTimedCallback is followed by a write to the     *)
(* wake-up pipe.  And userTimerCallback never calls a timer it has freed.    *)
THEOREM TimersAreKept == WakeSpec => []TimersKept
<1>1. WakeInv => TimersKept
  BY DEF WakeInv, TimersKept
<1> QED BY <1>1, WakeInvariant, PTL
=============================================================================
