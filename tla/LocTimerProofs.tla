---------------------------- MODULE LocTimerProofs ---------------------------
(***************************************************************************)
(* The timer service for any clients, any number of timers and any times:  *)
(* no timer and no delegate is lost or freed too early, the timerfd is     *)
(* armed for the soonest, and a timer ends once.                           *)
(***************************************************************************)
EXTENDS LocTimer, SequenceTheorems, TLAPS

-----------------------------------------------------------------------------
(* The queue.                                                              *)

LEMMA AppendQueue ==
  ASSUME NEW S, NEW q \in Seq(S), NEW m \in S
  PROVE  /\ Append(q, m) \in Seq(S) /\ Len(q) \in Nat
         /\ DOMAIN q = 1 .. Len(q) /\ DOMAIN Append(q, m) = 1 .. Len(q) + 1
         /\ \A i \in 1 .. Len(q) : Append(q, m)[i] = q[i]
         /\ Append(q, m)[Len(q) + 1] = m
  BY AppendProperties, LenProperties

LEMMA TailQueue ==
  ASSUME NEW S, NEW q \in Seq(S), q # <<>>
  PROVE  /\ Tail(q) \in Seq(S) /\ Len(q) \in Nat \ {0} /\ Head(q) \in S /\ Head(q) = q[1]
         /\ DOMAIN q = 1 .. Len(q) /\ DOMAIN Tail(q) = 1 .. Len(q) - 1
         /\ \A i \in 1 .. Len(q) - 1 : Tail(q)[i] = q[i + 1]
  BY HeadTailProperties, LenProperties, EmptySeq

-----------------------------------------------------------------------------
(* The inductive invariant.                                                *)

Ended == {"stopped", "expired"}

(* LocTimer and LocTimerDelegate point at each other as long as the timer  *)
(* runs; a delegate is freed, and not before it has left the heap, when    *)
(* its timer has ended.                                                    *)
LifeInv ==
  /\ \A d \in Delegates : d > starts => outcome[d] = "none" /\ d \notin mTree
  /\ \A d \in Delegates : d <= starts => outcome[d] # "none" /\ mFutureTime[d] \in Times
  /\ \A d \in Delegates :
       outcome[d] = "running" => mClient[d] \in alive /\ mTimer[mClient[d]] = d
  /\ \A c \in Clients :
       mTimer[c] # NULL => mClient[mTimer[c]] = c /\ outcome[mTimer[c]] = "running"
  /\ \A d \in deleted : outcome[d] \in Ended /\ d \notin mTree

(* What the messages about a delegate promise.  At most two of them are in *)
(* the queue, its push before its removal.                                 *)
PushOrRemove(m) == m.proc # "expire"

MessagesInv ==
  \A i \in DOMAIN queue :
    LET m == queue[i]
    IN /\ m.proc = "push" => m.timer <= starts /\ m.timer \notin mTree \cup deleted
       /\ m.proc = "remove" => outcome[m.timer] \in Ended /\ m.timer \notin deleted

OrderInv ==
  \A i, j \in DOMAIN queue :
    /\ i < j /\ PushOrRemove(queue[i]) /\ PushOrRemove(queue[j])
    /\ queue[i].timer = queue[j].timer
    => queue[i].proc = "push" /\ queue[j].proc = "remove"

(* Before timerfd_settime, the timerfd is in the epoll set; if the poll    *)
(* thread took it out again, its message makes the MsgTask look once more. *)
ExpireQueued == \E i \in DOMAIN queue : queue[i] = MsgTimerExpire

ArmedInv == msgPc = "settime" => top # NULL /\ (polled \/ pollPc = "send" \/ ExpireQueued)

LTInv == /\ TypeOK /\ LifeInv /\ MessagesInv /\ OrderInv
         /\ RunningIsQueued /\ ArmedInv /\ SoonestIsArmed

LEMMA MsgType ==
  /\ \A d \in Delegates : /\ MsgTimerPush(d) \in Msg /\ MsgTimerPush(d).proc = "push"
                          /\ MsgTimerPush(d).timer = d
                          /\ MsgTimerRemove(d) \in Msg /\ MsgTimerRemove(d).proc = "remove"
                          /\ MsgTimerRemove(d).timer = d
  /\ MsgTimerExpire \in Msg /\ MsgTimerExpire.proc = "expire"
  /\ \A m \in Msg : /\ m.proc \in {"push", "remove", "expire"}
                    /\ m.proc = "push" => m.timer \in Delegates /\ m = MsgTimerPush(m.timer)
                    /\ m.proc = "remove" => m.timer \in Delegates /\ m = MsgTimerRemove(m.timer)
                    /\ m.proc = "expire" => m = MsgTimerExpire
<1>1. ASSUME NEW m \in Msg
      PROVE  \/ m.proc \in {"push", "remove"} /\ m.timer \in Delegates
                /\ m = [proc |-> m.proc, timer |-> m.timer]
             \/ m = [proc |-> "expire"]
  BY DEF Msg
<1>. QED
  BY <1>1 DEF Msg, MsgTimerPush, MsgTimerRemove, MsgTimerExpire

-----------------------------------------------------------------------------
(* The heap.                                                               *)

(* The top of a heap is NULL exactly when it is empty. *)
LEMMA TopFacts ==
  ASSUME TypeOK
  PROVE  /\ top = NULL <=> mTree = {}
         /\ top # NULL => top \in mTree
         /\ \A d \in Delegates : d # NULL /\ mFutureTime[d] \in Nat
  BY BoundsAssumption DEF TypeOK, Tops, NULL, Delegates, Times

LEMMA PushKeepsTop ==
  ASSUME TypeOK, NEW d \in Delegates, heapPush(d), UNCHANGED mFutureTime
  PROVE  mTree' \subseteq Delegates /\ top' \in Tops(mTree)' /\ top' # NULL
<1>1. \A e \in Delegates : mFutureTime[e] \in Nat /\ e # NULL
  BY TopFacts
<1>2. CASE top = NULL
  <2>1. mTree' = {d} /\ top' = d
    BY <1>2, TopFacts DEF heapPush
  <2>. QED
    BY <1>1, <2>1 DEF Tops, outRanks
<1>3. CASE top # NULL
  <2>1. top \in mTree /\ mTree \subseteq Delegates /\ \A e \in mTree : ~outRanks(e, top)
    BY <1>3, TopFacts DEF TypeOK, Tops
  <2>2. mTree' = mTree \cup {d} /\ top' = IF outRanks(d, top) THEN d ELSE top
    BY <1>3 DEF heapPush
  <2>3. top' \in mTree' /\ \A e \in mTree' : ~outRanks(e, top')
    BY <1>1, <2>1, <2>2 DEF outRanks
  <2>. QED
    BY <1>1, <2>1, <2>2, <2>3 DEF Tops, outRanks
<1>. QED
  BY <1>2, <1>3

LEMMA TakeKeepsTop ==
  ASSUME TypeOK, NEW d, heapTake(d), UNCHANGED mFutureTime
  PROVE  /\ mTree' \subseteq Delegates /\ top' \in Tops(mTree)'
         /\ d # top => top' = top
<1>1. CASE d = top
  <2>1. mTree' = mTree \ {d} /\ top' \in Tops(mTree')
    BY <1>1 DEF heapTake
  <2>. QED
    BY <1>1, <2>1 DEF TypeOK, Tops, outRanks
<1>2. CASE d # top
  <2>1. mTree' = mTree \ {d} /\ top' = top
    BY <1>2 DEF heapTake
  <2>. QED
    BY <1>2, <2>1 DEF TypeOK, Tops, outRanks
<1>. QED
  BY <1>1, <1>2


-----------------------------------------------------------------------------
(* Each action preserves the invariant.                                    *)

LEMMA LTInit == Init => LTInv
<1>. SUFFICES ASSUME Init PROVE LTInv
  OBVIOUS
<1>1. <<>> \in Seq(Msg) /\ DOMAIN <<>> = {}
  BY EmptySeq, LenProperties
<1>2. TypeOK
  <2>1. 1 \in Times /\ 0 \in 0 .. MaxStarts
    BY BoundsAssumption DEF Times
  <2>. QED
    BY <1>1, <2>1 DEF Init, TypeOK, Tops, Outcomes
<1>3. LifeInv
  BY BoundsAssumption DEF Init, LifeInv, Delegates
<1>4. MessagesInv /\ OrderInv /\ RunningIsQueued /\ ArmedInv /\ SoonestIsArmed
  BY <1>1 DEF Init, MessagesInv, OrderInv, RunningIsQueued, ArmedInv, SoonestIsArmed
<1>. QED
  BY <1>2, <1>3, <1>4 DEF LTInv

(* A client's timer is given up, by the client or by its expiry: only its  *)
(* own timer ends, and its removal goes behind everything queued for it.   *)
LEMMA DestroyStep ==
  ASSUME LTInv, NEW c \in Clients, mTimer[c] # NULL, NEW how \in Ended,
         destroyLocked(c, queue, how),
         alive' = alive \/ alive' = alive \ {c},
         UNCHANGED <<starts, mFutureTime, deleted, mTree, top>>
  PROVE  /\ mTimer' \in [Clients -> Delegates \cup {NULL}]
         /\ mClient' \in [Delegates -> Clients \cup {NoClient}]
         /\ queue' \in Seq(Msg) /\ outcome' \in [Delegates -> Outcomes]
         /\ LifeInv' /\ MessagesInv' /\ OrderInv'
         /\ \A i \in DOMAIN queue : i \in DOMAIN queue' /\ queue'[i] = queue[i]
         /\ \A d \in Delegates :
              outcome'[d] = "running" =>
                outcome[d] = "running" /\ mClient'[d] = mClient[d] /\ mClient[d] # c
<1>. DEFINE d == mTimer[c]
            m == MsgTimerRemove(d)
<1>1. d \in Delegates /\ mClient[d] = c /\ outcome[d] = "running"
  BY DEF LTInv, TypeOK, LifeInv
<1>2. /\ queue' = Append(queue, m) /\ queue \in Seq(Msg)
      /\ m \in Msg /\ m.proc = "remove" /\ m.timer = d
  BY <1>1, MsgType DEF destroyLocked, LTInv, TypeOK
<1>3. /\ queue' \in Seq(Msg) /\ Len(queue) \in Nat
      /\ DOMAIN queue = 1 .. Len(queue) /\ DOMAIN queue' = 1 .. Len(queue) + 1
      /\ \A i \in 1 .. Len(queue) : queue'[i] = queue[i]
      /\ queue'[Len(queue) + 1] = m
  BY <1>2, AppendQueue
<1>4. /\ mTimer' = [mTimer EXCEPT ![c] = NULL]
      /\ mClient' = [mClient EXCEPT ![d] = NoClient]
      /\ outcome' = [outcome EXCEPT ![d] = how]
  BY DEF destroyLocked
<1>5. /\ mTimer' \in [Clients -> Delegates \cup {NULL}]
      /\ mClient' \in [Delegates -> Clients \cup {NoClient}]
      /\ outcome' \in [Delegates -> Outcomes]
  BY <1>1, <1>4 DEF LTInv, TypeOK, Ended, Outcomes
<1>6. /\ \A b \in Clients : mTimer'[b] = IF b = c THEN NULL ELSE mTimer[b]
      /\ \A e \in Delegates : /\ mClient'[e] = IF e = d THEN NoClient ELSE mClient[e]
                              /\ outcome'[e] = IF e = d THEN how ELSE outcome[e]
  BY <1>1, <1>4 DEF LTInv, TypeOK
<1>. HIDE DEF d, m
<1>7. ASSUME NEW e \in Delegates, outcome'[e] = "running"
      PROVE  e # d /\ outcome[e] = "running" /\ mClient'[e] = mClient[e] /\ mClient[e] # c
  <2>1. e # d /\ outcome[e] = "running" /\ mClient'[e] = mClient[e]
    BY <1>6, <1>7 DEF Ended
  <2>2. mTimer[mClient[e]] = e
    BY <2>1 DEF LTInv, LifeInv
  <2>. QED
    BY <2>1, <2>2 DEF d
<1>8. LifeInv'
  <2>1. \A e \in Delegates : e > starts' => outcome'[e] = "none" /\ e \notin mTree'
    BY <1>1, <1>6 DEF LTInv, LifeInv
  <2>2. \A e \in Delegates : e <= starts' => outcome'[e] # "none" /\ mFutureTime'[e] \in Times
    BY <1>6 DEF LTInv, LifeInv, Ended
  <2>3. ASSUME NEW e \in Delegates, outcome'[e] = "running"
        PROVE  mClient'[e] \in alive' /\ mTimer'[mClient'[e]] = e
    <3>1. mClient[e] \in alive /\ mTimer[mClient[e]] = e /\ alive \subseteq Clients
      BY <1>7, <2>3 DEF LTInv, LifeInv, TypeOK
    <3>. QED
      BY <1>6, <1>7, <2>3, <3>1
  <2>4. ASSUME NEW b \in Clients, mTimer'[b] # NULL
        PROVE  mClient'[mTimer'[b]] = b /\ outcome'[mTimer'[b]] = "running"
    <3>1. b # c /\ mTimer'[b] = mTimer[b] /\ mTimer[b] \in Delegates
      BY <1>5, <1>6, <2>4
    <3>2. mClient[mTimer[b]] = b /\ outcome[mTimer[b]] = "running"
      BY <2>4, <3>1 DEF LTInv, LifeInv
    <3>. QED
      BY <1>1, <1>6, <3>1, <3>2
  <2>5. \A e \in deleted' : outcome'[e] \in Ended /\ e \notin mTree'
    BY <1>6 DEF LTInv, LifeInv, TypeOK
  <2>. QED
    BY <2>1, <2>2, <2>3, <2>4, <2>5 DEF LifeInv
<1>9. MessagesInv'
  <2>. SUFFICES ASSUME NEW i \in DOMAIN queue'
       PROVE  /\ queue'[i].proc = "push" => /\ queue'[i].timer <= starts
                                            /\ queue'[i].timer \notin mTree \cup deleted
              /\ queue'[i].proc = "remove" => /\ outcome'[queue'[i].timer] \in Ended
                                              /\ queue'[i].timer \notin deleted
    BY DEF MessagesInv
  <2>1. CASE i = Len(queue) + 1
    <3>1. d \notin deleted
      BY <1>1 DEF LTInv, LifeInv, Ended
    <3>. QED
      BY <1>1, <1>2, <1>3, <1>6, <2>1, <3>1
  <2>2. CASE i # Len(queue) + 1
    <3>1. i \in DOMAIN queue /\ queue'[i] = queue[i] /\ queue[i] \in Msg
      BY <1>2, <1>3, <2>2, ElementOfSeq
    <3>2. queue[i].proc = "remove" => queue[i].timer \in Delegates
      BY <3>1, MsgType
    <3>. QED
      BY <1>6, <3>1, <3>2 DEF LTInv, MessagesInv
  <2>. QED
    BY <2>1, <2>2
<1>10. OrderInv'
  <2>. SUFFICES ASSUME NEW i \in DOMAIN queue', NEW j \in DOMAIN queue', i < j,
                       PushOrRemove(queue'[i]), PushOrRemove(queue'[j]),
                       queue'[i].timer = queue'[j].timer
       PROVE  queue'[i].proc = "push" /\ queue'[j].proc = "remove"
    BY DEF OrderInv
  <2>1. i \in DOMAIN queue /\ queue'[i] = queue[i] /\ queue[i] \in Msg
    BY <1>2, <1>3, ElementOfSeq
  <2>2. CASE j = Len(queue) + 1
    <3>1. queue'[j].proc = "remove" /\ queue[i].timer = d
      BY <1>2, <1>3, <2>1, <2>2
    <3>2. queue[i].proc # "remove"
      BY <1>1, <2>1, <3>1 DEF LTInv, MessagesInv, Ended
    <3>. QED
      BY <2>1, <3>1, <3>2, MsgType DEF PushOrRemove
  <2>3. CASE j # Len(queue) + 1
    BY <1>3, <2>1, <2>3 DEF LTInv, OrderInv
  <2>. QED
    BY <2>2, <2>3
<1>. QED
  BY <1>3, <1>5, <1>7, <1>8, <1>9, <1>10

(* What is left of the invariant after a step of a client. *)
LEMMA ClientRest ==
  ASSUME LTInv,
         \A i \in DOMAIN queue : i \in DOMAIN queue' /\ queue'[i] = queue[i],
         UNCHANGED <<heap, fdVars, pollPc, msgPc, client>>,
         \A d \in mTree : mFutureTime'[d] = mFutureTime[d],
         \A d \in Delegates :
           outcome'[d] = "running" =>
             \/ outcome[d] = "running" /\ mClient'[d] = mClient[d]
             \/ \E i \in DOMAIN queue' : queue'[i] = MsgTimerPush(d),
         LifeInv'
  PROVE  RunningIsQueued' /\ ArmedInv' /\ SoonestIsArmed'
<1>1. ExpireQueued => ExpireQueued'
  BY DEF ExpireQueued
<1>2. ArmedInv'
  BY <1>1 DEF LTInv, ArmedInv, heap, fdVars
<1>3. (\E i \in DOMAIN queue : queue[i].proc = "expire")
      => \E i \in DOMAIN queue' : queue'[i].proc = "expire"
  OBVIOUS
<1>4. SoonestIsArmed'
  <2>1. mTree # {} => top \in mTree
    BY TopFacts DEF LTInv
  <2>. QED
    BY <1>3, <2>1 DEF LTInv, SoonestIsArmed, heap, fdVars
<1>5. RunningIsQueued'
  <2>. SUFFICES ASSUME NEW d \in Delegates, outcome'[d] = "running"
       PROVE  /\ mClient'[d] \in alive' /\ mTimer'[mClient'[d]] = d
              /\ \/ d \in mTree'
                 \/ \E i \in DOMAIN queue' : queue'[i] = MsgTimerPush(d)
                 \/ msgPc' = "stop" /\ client' = mClient'[d]
    BY DEF RunningIsQueued
  <2>1. mClient'[d] \in alive' /\ mTimer'[mClient'[d]] = d
    BY DEF LifeInv
  <2>2. CASE outcome[d] = "running" /\ mClient'[d] = mClient[d]
    <3>1. \/ d \in mTree
          \/ \E i \in DOMAIN queue : queue[i] = MsgTimerPush(d)
          \/ msgPc = "stop" /\ client = mClient[d]
      BY <2>2 DEF LTInv, RunningIsQueued
    <3>. QED
      BY <2>1, <2>2, <3>1 DEF heap
  <2>. QED
    BY <2>1, <2>2
<1>. QED
  BY <1>2, <1>4, <1>5

LEMMA StopStep ==
  ASSUME LTInv, NEW c \in Clients, stop(c) \/ deleteLocTimer(c)
  PROVE  LTInv'
<1>1. CASE /\ mTimer[c] # NULL /\ destroyLocked(c, queue, "stopped")
           /\ alive' = alive \/ alive' = alive \ {c}
           /\ UNCHANGED <<now, starts, mFutureTime, deleted, heap, fdVars, pollPc, procVars>>
  <2>1. /\ mTimer' \in [Clients -> Delegates \cup {NULL}]
        /\ mClient' \in [Delegates -> Clients \cup {NoClient}]
        /\ queue' \in Seq(Msg) /\ outcome' \in [Delegates -> Outcomes]
        /\ LifeInv' /\ MessagesInv' /\ OrderInv'
        /\ \A i \in DOMAIN queue : i \in DOMAIN queue' /\ queue'[i] = queue[i]
        /\ \A d \in Delegates :
             outcome'[d] = "running" =>
               outcome[d] = "running" /\ mClient'[d] = mClient[d] /\ mClient[d] # c
    BY <1>1, DestroyStep DEF Ended, heap
  <2>2. TypeOK'
    BY <1>1, <2>1 DEF LTInv, TypeOK, heap, fdVars, procVars, Tops, outRanks
  <2>3. RunningIsQueued' /\ ArmedInv' /\ SoonestIsArmed'
    BY <1>1, <2>1, ClientRest DEF procVars
  <2>. QED
    BY <2>1, <2>2, <2>3 DEF LTInv
<1>2. CASE /\ mTimer[c] = NULL /\ c \in alive /\ alive' = alive \ {c}
           /\ UNCHANGED <<now, mTimer, mClient, queue, outcome, starts, mFutureTime, deleted, heap,
                          fdVars, pollPc, procVars>>
  <2>1. TypeOK'
    BY <1>2 DEF LTInv, TypeOK, heap, fdVars, procVars, Tops, outRanks
  <2>2. \A d \in Delegates : outcome[d] = "running" => mClient[d] # c
    BY <1>2 DEF LTInv, LifeInv, NULL, Delegates
  <2>3. LifeInv'
    BY <1>2, <2>2 DEF LTInv, LifeInv, heap
  <2>4. MessagesInv' /\ OrderInv'
    BY <1>2 DEF LTInv, MessagesInv, OrderInv, heap
  <2>5. RunningIsQueued' /\ ArmedInv' /\ SoonestIsArmed'
    BY <1>2, <2>3, ClientRest DEF procVars
  <2>. QED
    BY <2>1, <2>3, <2>4, <2>5 DEF LTInv
<1>. QED
  BY <1>1, <1>2 DEF stop, deleteLocTimer


LEMMA StartStep ==
  ASSUME LTInv, NEW c \in Clients, NEW delay \in Times, start(c, delay)
  PROVE  LTInv'
<1>. DEFINE d == starts + 1
            m == MsgTimerPush(d)
<1>1. /\ d \in Delegates /\ starts \in Nat /\ now + delay \in Times /\ starts' = d /\ d # NULL
      /\ outcome[d] = "none" /\ d \notin mTree /\ d \notin deleted
  <2>1. d \in Delegates /\ starts \in Nat /\ now + delay \in Times /\ starts' = d /\ d # NULL
    BY BoundsAssumption DEF start, LTInv, TypeOK, Delegates, Times, NULL
  <2>. QED
    BY <2>1 DEF LTInv, LifeInv, Ended
<1>2. /\ queue' = Append(queue, m) /\ queue \in Seq(Msg)
      /\ m \in Msg /\ m.proc = "push" /\ m.timer = d
  BY <1>1, MsgType DEF start, LTInv, TypeOK
<1>3. /\ queue' \in Seq(Msg) /\ Len(queue) \in Nat
      /\ DOMAIN queue = 1 .. Len(queue) /\ DOMAIN queue' = 1 .. Len(queue) + 1
      /\ \A i \in 1 .. Len(queue) : queue'[i] = queue[i]
      /\ queue'[Len(queue) + 1] = m
  BY <1>2, AppendQueue
<1>4. /\ mTimer' = [mTimer EXCEPT ![c] = d]
      /\ mClient' = [mClient EXCEPT ![d] = c]
      /\ mFutureTime' = [mFutureTime EXCEPT ![d] = now + delay]
      /\ outcome' = [outcome EXCEPT ![d] = "running"]
      /\ c \in alive /\ mTimer[c] = NULL
      /\ UNCHANGED <<now, alive, deleted, heap, fdVars, pollPc, procVars>>
  BY <1>1 DEF start, futureTime
<1>5. /\ mTimer' \in [Clients -> Delegates \cup {NULL}]
      /\ mClient' \in [Delegates -> Clients \cup {NoClient}]
      /\ mFutureTime' \in [Delegates -> Times \cup {NULL}]
      /\ outcome' \in [Delegates -> Outcomes]
      /\ starts' \in 0 .. MaxStarts
  BY <1>1, <1>4, BoundsAssumption DEF LTInv, TypeOK, Outcomes, Delegates
<1>6. /\ \A b \in Clients : mTimer'[b] = IF b = c THEN d ELSE mTimer[b]
      /\ \A e \in Delegates : /\ mClient'[e] = IF e = d THEN c ELSE mClient[e]
                              /\ mFutureTime'[e] = IF e = d THEN now + delay ELSE mFutureTime[e]
                              /\ outcome'[e] = IF e = d THEN "running" ELSE outcome[e]
  BY <1>1, <1>4 DEF LTInv, TypeOK
<1>. HIDE DEF m
<1>7. TypeOK'
  <2>1. mTree \subseteq Delegates /\ top \in Tops(mTree)
    BY DEF LTInv, TypeOK
  <2>2. \A e \in mTree : mFutureTime'[e] = mFutureTime[e]
    BY <1>1, <1>6, <2>1
  <2>3. top' \in Tops(mTree)'
    BY <1>4, <2>1, <2>2 DEF Tops, outRanks, heap
  <2>. QED
    BY <1>3, <1>4, <1>5, <2>3 DEF LTInv, TypeOK, heap, fdVars, procVars
<1>8. LifeInv'
  <2>1. \A e \in Delegates : e > starts' => e > starts /\ e # d
    BY <1>1 DEF Delegates
  <2>2. \A e \in Delegates : e > starts' => outcome'[e] = "none" /\ e \notin mTree'
    BY <1>4, <1>6, <2>1 DEF LTInv, LifeInv, heap
  <2>3. \A e \in Delegates : e <= starts' => e <= starts \/ e = d
    BY <1>1 DEF Delegates
  <2>4. \A e \in Delegates : e <= starts' => outcome'[e] # "none" /\ mFutureTime'[e] \in Times
    BY <1>1, <1>6, <2>3 DEF LTInv, LifeInv
  <2>5. ASSUME NEW e \in Delegates, outcome'[e] = "running"
        PROVE  mClient'[e] \in alive' /\ mTimer'[mClient'[e]] = e
    <3>1. CASE e = d
      BY <1>4, <1>6, <3>1
    <3>2. CASE e # d
      <4>1. mClient[e] \in alive /\ mTimer[mClient[e]] = e /\ alive \subseteq Clients
        BY <1>6, <2>5, <3>2 DEF LTInv, LifeInv, TypeOK
      <4>2. mClient[e] # c
        BY <1>4, <4>1 DEF NULL, Delegates
      <4>. QED
        BY <1>4, <1>6, <3>2, <4>1, <4>2
    <3>. QED
      BY <3>1, <3>2
  <2>6. ASSUME NEW b \in Clients, mTimer'[b] # NULL
        PROVE  mClient'[mTimer'[b]] = b /\ outcome'[mTimer'[b]] = "running"
    <3>1. CASE b = c
      BY <1>1, <1>6, <3>1
    <3>2. CASE b # c
      <4>1. mTimer'[b] = mTimer[b] /\ mTimer[b] \in Delegates
        BY <1>5, <1>6, <2>6, <3>2
      <4>2. mClient[mTimer[b]] = b /\ outcome[mTimer[b]] = "running"
        BY <2>6, <4>1 DEF LTInv, LifeInv
      <4>. QED
        BY <1>1, <1>6, <4>1, <4>2
    <3>. QED
      BY <3>1, <3>2
  <2>7. \A e \in deleted' : outcome'[e] \in Ended /\ e \notin mTree'
    BY <1>1, <1>4, <1>6 DEF LTInv, LifeInv, TypeOK, heap
  <2>. QED
    BY <2>2, <2>4, <2>5, <2>6, <2>7 DEF LifeInv
<1>9. \A i \in DOMAIN queue :
        /\ i \in DOMAIN queue' /\ queue'[i] = queue[i] /\ queue[i] \in Msg
        /\ PushOrRemove(queue[i]) => queue[i].timer \in Delegates /\ queue[i].timer # d
  <2>1. \A i \in DOMAIN queue :
          /\ i \in DOMAIN queue' /\ queue'[i] = queue[i] /\ queue[i] \in Msg
          /\ PushOrRemove(queue[i]) => queue[i].timer \in Delegates
    BY <1>2, <1>3, ElementOfSeq, MsgType DEF PushOrRemove
  <2>2. \A i \in DOMAIN queue : queue[i].proc = "push" => queue[i].timer # d
    BY <1>1 DEF LTInv, MessagesInv
  <2>3. \A i \in DOMAIN queue : queue[i].proc = "remove" => queue[i].timer # d
    BY <1>1 DEF LTInv, MessagesInv, Ended
  <2>. QED
    BY <2>1, <2>2, <2>3, MsgType DEF PushOrRemove
<1>10. MessagesInv'
  <2>. SUFFICES ASSUME NEW i \in DOMAIN queue'
       PROVE  /\ queue'[i].proc = "push" => /\ queue'[i].timer <= d
                                            /\ queue'[i].timer \notin mTree \cup deleted
              /\ queue'[i].proc = "remove" => /\ outcome'[queue'[i].timer] \in Ended
                                              /\ queue'[i].timer \notin deleted
    BY <1>1, <1>4 DEF MessagesInv, heap
  <2>1. CASE i = Len(queue) + 1
    BY <1>1, <1>2, <1>3, <2>1
  <2>2. CASE i # Len(queue) + 1
    <3>1. i \in DOMAIN queue /\ queue'[i] = queue[i]
      BY <1>3, <2>2
    <3>2. CASE queue[i].proc = "push"
      <4>1. /\ queue[i].timer <= starts /\ queue[i].timer \notin mTree \cup deleted
            /\ queue[i].timer \in Delegates
        BY <1>9, <3>1, <3>2 DEF LTInv, MessagesInv, PushOrRemove
      <4>. QED
        BY <1>1, <3>1, <3>2, <4>1 DEF Delegates
    <3>3. CASE queue[i].proc = "remove"
      BY <1>6, <1>9, <3>1, <3>3 DEF LTInv, MessagesInv, PushOrRemove
    <3>. QED
      BY <3>1, <3>2, <3>3
  <2>. QED
    BY <2>1, <2>2
<1>11. OrderInv'
  <2>. SUFFICES ASSUME NEW i \in DOMAIN queue', NEW j \in DOMAIN queue', i < j,
                       PushOrRemove(queue'[i]), PushOrRemove(queue'[j]),
                       queue'[i].timer = queue'[j].timer
       PROVE  queue'[i].proc = "push" /\ queue'[j].proc = "remove"
    BY DEF OrderInv
  <2>1. i \in DOMAIN queue
    BY <1>3
  <2>2. j # Len(queue) + 1
    BY <1>2, <1>3, <1>9, <2>1
  <2>. QED
    BY <1>3, <2>1, <2>2 DEF LTInv, OrderInv
<1>12. RunningIsQueued' /\ ArmedInv' /\ SoonestIsArmed'
  <2>1. \A e \in mTree : mFutureTime'[e] = mFutureTime[e]
    BY <1>1, <1>6 DEF LTInv, TypeOK
  <2>2. \E i \in DOMAIN queue' : queue'[i] = MsgTimerPush(d)
    BY <1>3 DEF m
  <2>3. \A e \in Delegates :
          outcome'[e] = "running" =>
            \/ outcome[e] = "running" /\ mClient'[e] = mClient[e]
            \/ \E i \in DOMAIN queue' : queue'[i] = MsgTimerPush(e)
    BY <1>6, <2>2
  <2>. QED
    BY <1>4, <1>8, <1>9, <2>1, <2>3, ClientRest DEF procVars
<1>. QED
  BY <1>7, <1>8, <1>10, <1>11, <1>12 DEF LTInv


(* The poll thread and the clock. *)
LEMMA PollStep ==
  ASSUME LTInv, epollWait \/ pollDisarm \/ pollRemove \/ pollSend \/ tick
  PROVE  LTInv'
<1>1. UNCHANGED <<clientVars, deleted, heap, procVars, outcome>>
  BY DEF epollWait, pollDisarm, pollRemove, pollSend, tick, pollVars
<1>2. LifeInv'
  BY <1>1 DEF LTInv, LifeInv, clientVars, heap
<1>3. CASE pollSend
  <2>1. /\ queue' = Append(queue, MsgTimerExpire) /\ queue \in Seq(Msg)
        /\ MsgTimerExpire \in Msg /\ MsgTimerExpire.proc = "expire"
        /\ pollPc' = "wait" /\ UNCHANGED <<fdVars, now>>
    BY <1>3, MsgType DEF pollSend, pollVars, LTInv, TypeOK
  <2>2. /\ queue' \in Seq(Msg) /\ Len(queue) \in Nat
        /\ DOMAIN queue = 1 .. Len(queue) /\ DOMAIN queue' = 1 .. Len(queue) + 1
        /\ \A i \in 1 .. Len(queue) : queue'[i] = queue[i]
        /\ queue'[Len(queue) + 1] = MsgTimerExpire
    BY <2>1, AppendQueue
  <2>3. TypeOK'
    BY <1>1, <2>1, <2>2 DEF LTInv, TypeOK, clientVars, heap, fdVars, procVars, Tops, outRanks
  <2>4. \A i \in DOMAIN queue' :
          \/ i \in DOMAIN queue /\ queue'[i] = queue[i]
          \/ queue'[i].proc = "expire"
    BY <2>1, <2>2
  <2>5. MessagesInv'
    BY <1>1, <2>4 DEF LTInv, MessagesInv, clientVars, heap
  <2>6. OrderInv'
    BY <1>1, <2>4 DEF LTInv, OrderInv, PushOrRemove
  <2>7. RunningIsQueued'
    <3>1. \A i \in DOMAIN queue : i \in DOMAIN queue' /\ queue'[i] = queue[i]
      BY <2>2
    <3>. QED
      BY <1>1, <3>1 DEF LTInv, RunningIsQueued, clientVars, heap, procVars
  <2>8. ExpireQueued' /\ \E i \in DOMAIN queue' : queue'[i].proc = "expire"
    <3>1. Len(queue) + 1 \in DOMAIN queue' /\ queue'[Len(queue) + 1].proc = "expire"
      BY <2>1, <2>2
    <3>. QED
      BY <2>2, <3>1 DEF ExpireQueued
  <2>9. ArmedInv' /\ SoonestIsArmed'
    BY <1>1, <2>8 DEF LTInv, ArmedInv, SoonestIsArmed, heap, procVars
  <2>. QED
    BY <1>2, <2>3, <2>5, <2>6, <2>7, <2>9 DEF LTInv
<1>4. CASE epollWait \/ pollDisarm \/ pollRemove \/ tick
  <2>1. UNCHANGED queue
    BY <1>4 DEF epollWait, pollDisarm, pollRemove, tick
  <2>2. MessagesInv' /\ OrderInv'
    BY <1>1, <2>1 DEF LTInv, MessagesInv, OrderInv, clientVars, heap
  <2>3. RunningIsQueued'
    BY <1>1, <2>1 DEF LTInv, RunningIsQueued, clientVars, heap, procVars
  <2>4. now' \in Times
    BY <1>4, BoundsAssumption DEF LTInv, TypeOK, Times, epollWait, pollDisarm, pollRemove, tick, pollVars
  <2>5. armed' \in Times \cup {NULL} /\ polled' \in BOOLEAN
        /\ pollPc' \in {"wait", "disarm", "removePoll", "send"}
    BY <1>4 DEF LTInv, TypeOK, epollWait, pollDisarm, pollRemove, tick, fdVars
  <2>6. TypeOK'
    BY <1>1, <2>1, <2>4, <2>5 DEF LTInv, TypeOK, clientVars, heap, procVars, Tops, outRanks
  <2>7. ArmedInv' /\ SoonestIsArmed'
    <3>1. CASE tick
      BY <1>1, <2>1, <3>1 DEF LTInv, ArmedInv, SoonestIsArmed, ExpireQueued, tick, fdVars, heap,
         clientVars, procVars
    <3>2. CASE epollWait \/ pollDisarm \/ pollRemove
      <4>1. pollPc' # "wait"
        BY <3>2 DEF epollWait, pollDisarm, pollRemove
      <4>2. polled => polled' \/ pollPc' = "send"
        BY <3>2 DEF epollWait, pollDisarm, pollRemove, fdVars
      <4>3. pollPc # "send"
        BY <3>2 DEF epollWait, pollDisarm, pollRemove
      <4>. QED
        BY <1>1, <2>1, <4>1, <4>2, <4>3 DEF LTInv, ArmedInv, SoonestIsArmed, ExpireQueued, heap, procVars
    <3>. QED
      BY <1>4, <3>1, <3>2
  <2>. QED
    BY <1>2, <2>2, <2>3, <2>6, <2>7 DEF LTInv
<1>. QED
  BY <1>3, <1>4

(* The oldest message is received; another one about its delegate can only *)
(* be the removal of what was to be pushed.                                *)
LEMMA ReceiveShape ==
  ASSUME LTInv, queue # <<>>, queue' = Tail(queue)
  PROVE  /\ queue' \in Seq(Msg) /\ Head(queue) \in Msg /\ OrderInv'
         /\ 1 \in DOMAIN queue /\ queue[1] = Head(queue)
         /\ \A i \in DOMAIN queue' : \E j \in DOMAIN queue : queue'[i] = queue[j] /\ queue[j] \in Msg
         /\ \A i \in DOMAIN queue' :
              /\ PushOrRemove(Head(queue)) /\ PushOrRemove(queue'[i])
              /\ queue'[i].timer = Head(queue).timer
              => Head(queue).proc = "push" /\ queue'[i].proc = "remove"
         /\ \A m : (\E i \in DOMAIN queue : queue[i] = m)
                   => m = Head(queue) \/ \E i \in DOMAIN queue' : queue'[i] = m
<1>1. /\ queue' \in Seq(Msg) /\ Len(queue) \in Nat \ {0}
      /\ Head(queue) \in Msg /\ Head(queue) = queue[1]
      /\ DOMAIN queue = 1 .. Len(queue) /\ DOMAIN queue' = 1 .. Len(queue) - 1
      /\ \A i \in 1 .. Len(queue) - 1 : queue'[i] = queue[i + 1]
  BY TailQueue DEF LTInv, TypeOK
<1>2. \A i \in DOMAIN queue' : i + 1 \in DOMAIN queue /\ queue'[i] = queue[i + 1] /\ 1 < i + 1
  BY <1>1
<1>3. 1 \in DOMAIN queue
  BY <1>1
<1>4. OrderInv'
  <2>1. \A i, j \in DOMAIN queue' : i < j => i + 1 < j + 1
    BY <1>1
  <2>. QED
    BY <1>2, <2>1 DEF LTInv, OrderInv
<1>5. ASSUME NEW i \in DOMAIN queue', PushOrRemove(Head(queue)), PushOrRemove(queue'[i]),
             queue'[i].timer = Head(queue).timer
      PROVE  Head(queue).proc = "push" /\ queue'[i].proc = "remove"
  BY <1>1, <1>2, <1>3, <1>5 DEF LTInv, OrderInv
<1>6. ASSUME NEW m, NEW i \in DOMAIN queue, queue[i] = m, m # Head(queue)
      PROVE  \E j \in DOMAIN queue' : queue'[j] = m
  <2>1. i - 1 \in DOMAIN queue' /\ queue'[i - 1] = queue[i]
    BY <1>1, <1>6
  <2>. QED
    BY <1>6, <2>1
<1>7. \A j \in DOMAIN queue : queue[j] \in Msg
  BY ElementOfSeq DEF LTInv, TypeOK
<1>8. \A i \in DOMAIN queue' : \E j \in DOMAIN queue : queue'[i] = queue[j] /\ queue[j] \in Msg
  BY <1>2, <1>7
<1>. QED
  BY <1>1, <1>3, <1>4, <1>5, <1>6, <1>8


LEMMA PushStep ==
  ASSUME LTInv, procPush
  PROVE  LTInv'
<1>. DEFINE d == Head(queue).timer
<1>1. /\ queue # <<>> /\ queue' = Tail(queue) /\ Head(queue).proc = "push"
      /\ heapPush(d) /\ updateSoonestTime(top) /\ msgPc = "idle"
      /\ UNCHANGED <<now, clientVars, deleted, armed, pollPc, timerOfNow, client, outcome>>
  BY DEF procPush, Received
<1>2. /\ queue' \in Seq(Msg) /\ Head(queue) \in Msg /\ OrderInv'
      /\ 1 \in DOMAIN queue /\ queue[1] = Head(queue)
      /\ \A i \in DOMAIN queue' : \E j \in DOMAIN queue : queue'[i] = queue[j] /\ queue[j] \in Msg
      /\ \A i \in DOMAIN queue' :
           PushOrRemove(queue'[i]) /\ queue'[i].timer = d => queue'[i].proc = "remove"
      /\ \A m : (\E i \in DOMAIN queue : queue[i] = m)
                => m = Head(queue) \/ \E i \in DOMAIN queue' : queue'[i] = m
  BY <1>1, ReceiveShape DEF PushOrRemove
<1>3. d \in Delegates /\ Head(queue) = MsgTimerPush(d)
  BY <1>1, <1>2, MsgType
<1>4. d <= starts /\ d \notin mTree \cup deleted
  BY <1>1, <1>2 DEF LTInv, MessagesInv
<1>. HIDE DEF d
<1>5. UNCHANGED mFutureTime /\ mTree' = mTree \cup {d}
  BY <1>1 DEF clientVars, heapPush
<1>6. mTree' \subseteq Delegates /\ top' \in Tops(mTree)' /\ top' # NULL
  BY <1>1, <1>3, <1>5, PushKeepsTop DEF LTInv
<1>7. polled' \in BOOLEAN /\ msgPc' \in {"idle", "settime"}
  BY <1>1 DEF updateSoonestTime, LTInv, TypeOK
<1>8. TypeOK'
  BY <1>1, <1>2, <1>6, <1>7 DEF LTInv, TypeOK, clientVars
<1>9. LifeInv'
  <2>1. \A e \in Delegates : e > starts => e # d
    BY <1>3, <1>4 DEF LTInv, TypeOK, Delegates
  <2>. QED
    BY <1>1, <1>4, <1>5, <2>1 DEF LTInv, LifeInv, clientVars
<1>10. MessagesInv'
  BY <1>1, <1>2, <1>4, <1>5 DEF LTInv, MessagesInv, PushOrRemove, clientVars
<1>11. RunningIsQueued'
  <2>. SUFFICES ASSUME NEW e \in Delegates, outcome[e] = "running"
       PROVE  /\ mClient[e] \in alive /\ mTimer[mClient[e]] = e
              /\ e \in mTree' \/ \E i \in DOMAIN queue' : queue'[i] = MsgTimerPush(e)
    BY <1>1 DEF RunningIsQueued, clientVars
  <2>1. /\ mClient[e] \in alive /\ mTimer[mClient[e]] = e
        /\ e \in mTree \/ \E i \in DOMAIN queue : queue[i] = MsgTimerPush(e)
    BY <1>1 DEF LTInv, RunningIsQueued
  <2>2. MsgTimerPush(e) = MsgTimerPush(d) => e = d
    BY <1>3, MsgType
  <2>. QED
    BY <1>2, <1>3, <1>5, <2>1, <2>2
<1>12. ArmedInv' /\ SoonestIsArmed'
  <2>1. CASE top = NULL \/ outRanks(top', top)
    BY <1>1, <1>6, <2>1 DEF updateSoonestTime, ArmedInv, SoonestIsArmed
  <2>2. CASE top # NULL /\ ~outRanks(top', top)
    <3>1. msgPc' = "idle" /\ UNCHANGED polled
      BY <1>1, <2>2 DEF updateSoonestTime
    <3>2. top' = top
      BY <1>1, <2>2 DEF heapPush
    <3>3. mTree # {}
      BY <2>2, TopFacts DEF LTInv
    <3>4. (\E i \in DOMAIN queue : queue[i].proc = "expire")
          => \E i \in DOMAIN queue' : queue'[i].proc = "expire"
      BY <1>1, <1>2
    <3>. QED
      BY <1>1, <1>5, <3>1, <3>2, <3>3, <3>4 DEF LTInv, ArmedInv, SoonestIsArmed
  <2>. QED
    BY <2>1, <2>2
<1>. QED
  BY <1>2, <1>8, <1>9, <1>10, <1>11, <1>12 DEF LTInv

LEMMA RemoveStep ==
  ASSUME LTInv, procRemove
  PROVE  LTInv'
<1>. DEFINE d == Head(queue).timer
            removed == IF d \in mTree THEN d ELSE NULL
<1>1. /\ queue # <<>> /\ queue' = Tail(queue) /\ Head(queue).proc = "remove" /\ msgPc = "idle"
      /\ heapTake(d) /\ deleted' = deleted \cup {d}
      /\ IF top = removed THEN updateSoonestTime(NULL) ELSE UNCHANGED <<polled, msgPc>>
      /\ UNCHANGED <<now, clientVars, armed, pollPc, timerOfNow, client, outcome>>
  BY DEF procRemove, Received
<1>2. /\ queue' \in Seq(Msg) /\ Head(queue) \in Msg /\ OrderInv'
      /\ 1 \in DOMAIN queue /\ queue[1] = Head(queue)
      /\ \A i \in DOMAIN queue' : \E j \in DOMAIN queue : queue'[i] = queue[j] /\ queue[j] \in Msg
      /\ \A i \in DOMAIN queue' : PushOrRemove(queue'[i]) => queue'[i].timer # d
      /\ \A m : (\E i \in DOMAIN queue : queue[i] = m)
                => m = Head(queue) \/ \E i \in DOMAIN queue' : queue'[i] = m
  BY <1>1, ReceiveShape DEF PushOrRemove
<1>3. d \in Delegates /\ outcome[d] \in Ended /\ d # NULL
  <2>1. d \in Delegates
    BY <1>1, <1>2, MsgType
  <2>2. outcome[d] \in Ended
    BY <1>1, <1>2 DEF LTInv, MessagesInv
  <2>. QED
    BY <2>1, <2>2 DEF Delegates, NULL
<1>. HIDE DEF d
<1>4. UNCHANGED mFutureTime /\ mTree' = mTree \ {d}
  BY <1>1 DEF clientVars, heapTake
<1>5. mTree' \subseteq Delegates /\ top' \in Tops(mTree)' /\ (d # top => top' = top)
  BY <1>1, <1>4, TakeKeepsTop DEF LTInv
<1>6. polled' \in BOOLEAN /\ msgPc' \in {"idle", "settime"}
  BY <1>1 DEF updateSoonestTime, LTInv, TypeOK
<1>7. TypeOK'
  BY <1>1, <1>2, <1>3, <1>5, <1>6 DEF LTInv, TypeOK, clientVars
<1>8. LifeInv'
  BY <1>1, <1>3, <1>4 DEF LTInv, LifeInv, clientVars
<1>9. MessagesInv'
  BY <1>1, <1>2, <1>4 DEF LTInv, MessagesInv, PushOrRemove, clientVars
<1>10. RunningIsQueued'
  <2>. SUFFICES ASSUME NEW e \in Delegates, outcome[e] = "running"
       PROVE  /\ mClient[e] \in alive /\ mTimer[mClient[e]] = e
              /\ e \in mTree' \/ \E i \in DOMAIN queue' : queue'[i] = MsgTimerPush(e)
    BY <1>1 DEF RunningIsQueued, clientVars
  <2>1. /\ mClient[e] \in alive /\ mTimer[mClient[e]] = e
        /\ e \in mTree \/ \E i \in DOMAIN queue : queue[i] = MsgTimerPush(e)
    BY <1>1 DEF LTInv, RunningIsQueued
  <2>2. e # d /\ MsgTimerPush(e) # Head(queue)
    BY <1>1, <1>3, MsgType DEF Ended
  <2>. QED
    BY <1>2, <1>4, <2>1, <2>2
<1>11. ArmedInv' /\ SoonestIsArmed'
  <2>0. top' = NULL <=> mTree' = {}
    BY <1>5 DEF Tops, NULL, Delegates
  <2>1. CASE top = removed
    BY <1>1, <2>0, <2>1 DEF updateSoonestTime, ArmedInv, SoonestIsArmed
  <2>2. CASE top # removed
    <3>1. d # top
      BY <1>3, <2>2, TopFacts DEF LTInv
    <3>2. top' = top /\ msgPc' = "idle" /\ UNCHANGED polled
      BY <1>1, <1>5, <2>2, <3>1
    <3>3. (\E i \in DOMAIN queue : queue[i].proc = "expire")
          => \E i \in DOMAIN queue' : queue'[i].proc = "expire"
      BY <1>1, <1>2
    <3>. QED
      BY <1>1, <1>4, <3>2, <3>3 DEF LTInv, ArmedInv, SoonestIsArmed
  <2>. QED
    BY <2>1, <2>2
<1>. QED
  BY <1>2, <1>7, <1>8, <1>9, <1>10, <1>11 DEF LTInv


LEMMA SettimeStep ==
  ASSUME LTInv, settime
  PROVE  LTInv'
<1>1. /\ msgPc = "settime" /\ msgPc' = "idle" /\ armed' = mFutureTime[top]
      /\ UNCHANGED <<now, clientVars, deleted, heap, polled, pollPc, queue, timerOfNow, client,
                     outcome>>
  BY DEF settime
<1>2. top \in mTree /\ mTree \subseteq Delegates
  BY <1>1, TopFacts DEF LTInv, ArmedInv, TypeOK
<1>3. mFutureTime[top] \in Times
  <2>1. top <= starts
    BY <1>2 DEF LTInv, LifeInv, TypeOK, Delegates
  <2>. QED
    BY <1>2, <2>1 DEF LTInv, LifeInv
<1>4. TypeOK'
  BY <1>1, <1>3 DEF LTInv, TypeOK, clientVars, heap, Tops, outRanks
<1>5. LifeInv' /\ MessagesInv' /\ OrderInv'
  BY <1>1 DEF LTInv, LifeInv, MessagesInv, OrderInv, clientVars, heap
<1>6. RunningIsQueued'
  BY <1>1 DEF LTInv, RunningIsQueued, clientVars, heap
<1>7. ArmedInv'
  BY <1>1 DEF ArmedInv
<1>8. SoonestIsArmed'
  <2>1. mFutureTime[top] # NULL /\ mFutureTime[top] <= mFutureTime[top]
    BY <1>3 DEF Times, NULL
  <2>2. polled \/ pollPc # "wait" \/ \E i \in DOMAIN queue : queue[i].proc = "expire"
    BY <1>1, MsgType DEF LTInv, ArmedInv, ExpireQueued
  <2>. QED
    BY <1>1, <2>1, <2>2 DEF SoonestIsArmed, clientVars, heap
<1>. QED
  BY <1>4, <1>5, <1>6, <1>7, <1>8 DEF LTInv

(* The start of a round of expiries or its continuation: the top is popped *)
(* and its client, if it still has one, is about to be stopped; or there   *)
(* is nothing to pop and the timerfd is to be armed again.                 *)
LEMMA PopStep ==
  ASSUME LTInv, msgPc \in {"idle", "next"},
         \/ mTree # {} /\ popAndExpire
         \/ UNCHANGED <<heap, client>> /\ updateSoonestTime(NULL),
         queue' \in Seq(Msg), MessagesInv', OrderInv',
         \A d \in Delegates : (\E i \in DOMAIN queue : queue[i] = MsgTimerPush(d))
                              => \E i \in DOMAIN queue' : queue'[i] = MsgTimerPush(d),
         timerOfNow' \in Times \cup {NULL},
         UNCHANGED <<now, clientVars, deleted, armed, pollPc, outcome>>
  PROVE  LTInv'
<1>1. CASE mTree # {} /\ popAndExpire
  <2>1. /\ heapTake(top) /\ client' = mClient[top] /\ polled' = polled
        /\ msgPc' = IF client' = NoClient THEN "next" ELSE "stop"
        /\ UNCHANGED mFutureTime /\ mTree' = mTree \ {top}
    BY <1>1 DEF popAndExpire, heapTake, clientVars
  <2>2. top \in Delegates
    BY <1>1, TopFacts DEF LTInv, TypeOK
  <2>3. mTree' \subseteq Delegates /\ top' \in Tops(mTree)'
    BY <2>1, TakeKeepsTop DEF LTInv
  <2>4. client' \in Clients \cup {NoClient} /\ msgPc' \in {"next", "stop"}
    BY <2>1, <2>2 DEF LTInv, TypeOK
  <2>5. TypeOK'
    BY <2>1, <2>3, <2>4 DEF LTInv, TypeOK, clientVars
  <2>6. LifeInv'
    BY <2>1 DEF LTInv, LifeInv, clientVars
  <2>7. RunningIsQueued'
    <3>. SUFFICES ASSUME NEW e \in Delegates, outcome[e] = "running"
         PROVE  /\ mClient[e] \in alive /\ mTimer[mClient[e]] = e
                /\ \/ e \in mTree' \/ \E i \in DOMAIN queue' : queue'[i] = MsgTimerPush(e)
                   \/ msgPc' = "stop" /\ client' = mClient[e]
      BY DEF RunningIsQueued, clientVars
    <3>1. /\ mClient[e] \in alive /\ mTimer[mClient[e]] = e
          /\ e \in mTree \/ \E i \in DOMAIN queue : queue[i] = MsgTimerPush(e)
      BY DEF LTInv, RunningIsQueued
    <3>2. mClient[e] # NoClient
      BY <3>1, ClientsAssumption DEF LTInv, TypeOK
    <3>. QED
      BY <2>1, <3>1, <3>2
  <2>8. ArmedInv' /\ SoonestIsArmed'
    BY <2>4 DEF ArmedInv, SoonestIsArmed
  <2>. QED
    BY <2>5, <2>6, <2>7, <2>8 DEF LTInv
<1>2. CASE UNCHANGED <<heap, client>> /\ updateSoonestTime(NULL)
  <2>1. polled' \in BOOLEAN /\ msgPc' \in {"idle", "settime"}
    BY <1>2 DEF updateSoonestTime, LTInv, TypeOK
  <2>2. TypeOK'
    BY <1>2, <2>1 DEF LTInv, TypeOK, clientVars, heap, Tops, outRanks
  <2>3. LifeInv'
    BY <1>2 DEF LTInv, LifeInv, clientVars, heap
  <2>4. RunningIsQueued'
    BY <1>2 DEF LTInv, RunningIsQueued, clientVars, heap
  <2>5. ArmedInv' /\ SoonestIsArmed'
    <3>1. top = NULL <=> mTree = {}
      BY TopFacts DEF LTInv
    <3>2. top' = top /\ mTree' = mTree
      BY <1>2 DEF heap
    <3>3. IF top' # NULL THEN polled' = TRUE /\ msgPc' = "settime"
                         ELSE UNCHANGED polled /\ msgPc' = "idle"
      BY <1>2 DEF updateSoonestTime
    <3>. QED
      BY <3>1, <3>2, <3>3 DEF ArmedInv, SoonestIsArmed
  <2>. QED
    BY <2>2, <2>3, <2>4, <2>5 DEF LTInv
<1>. QED
  BY <1>1, <1>2

LEMMA ExpireStep ==
  ASSUME LTInv, procExpire \/ expireNext
  PROVE  LTInv'
<1>1. CASE procExpire
  <2>1. /\ queue # <<>> /\ queue' = Tail(queue) /\ Head(queue).proc = "expire"
        /\ msgPc = "idle" /\ timerOfNow' = now
        /\ \/ mTree # {} /\ popAndExpire
           \/ UNCHANGED <<heap, client>> /\ updateSoonestTime(NULL)
        /\ UNCHANGED <<now, clientVars, deleted, armed, pollPc, outcome>>
    BY <1>1 DEF procExpire, Received
  <2>2. /\ queue' \in Seq(Msg) /\ Head(queue) \in Msg /\ OrderInv'
        /\ \A i \in DOMAIN queue' : \E j \in DOMAIN queue : queue'[i] = queue[j] /\ queue[j] \in Msg
        /\ \A m : (\E i \in DOMAIN queue : queue[i] = m)
                  => m = Head(queue) \/ \E i \in DOMAIN queue' : queue'[i] = m
    BY <2>1, ReceiveShape
  <2>3. mTree' \subseteq mTree
    BY <2>1 DEF popAndExpire, heapTake, heap
  <2>4. MessagesInv'
    BY <2>1, <2>2, <2>3 DEF LTInv, MessagesInv, clientVars
  <2>5. \A d \in Delegates : Head(queue) # MsgTimerPush(d)
    BY <2>1, MsgType
  <2>6. timerOfNow' \in Times \cup {NULL}
    BY <2>1 DEF LTInv, TypeOK
  <2>. QED
    BY <2>1, <2>2, <2>4, <2>5, <2>6, PopStep
<1>2. CASE expireNext
  <2>1. /\ msgPc = "next"
        /\ \/ mTree # {} /\ popAndExpire
           \/ UNCHANGED <<heap, client>> /\ updateSoonestTime(NULL)
        /\ UNCHANGED <<now, clientVars, deleted, armed, pollPc, queue, timerOfNow, outcome>>
    BY <1>2 DEF expireNext
  <2>2. mTree' \subseteq mTree
    BY <2>1 DEF popAndExpire, heapTake, heap
  <2>3. MessagesInv' /\ OrderInv'
    BY <2>1, <2>2 DEF LTInv, MessagesInv, OrderInv, clientVars
  <2>4. timerOfNow' \in Times \cup {NULL} /\ queue' \in Seq(Msg)
    BY <2>1 DEF LTInv, TypeOK
  <2>. QED
    BY <2>1, <2>3, <2>4, PopStep
<1>. QED
  BY <1>1, <1>2

(* LocTimerDelegate::expire stops the timer of its client, which may be a  *)
(* later one than the delegate's own.                                      *)
LEMMA CallbackStep ==
  ASSUME LTInv, expireStop \/ timeOutCallback
  PROVE  LTInv'
<1>1. CASE /\ expireStop /\ client \in alive /\ mTimer[client] # NULL
  <2>1. /\ msgPc = "stop" /\ msgPc' = "callback" /\ destroyLocked(client, queue, "expired")
        /\ UNCHANGED <<now, alive, starts, mFutureTime, deleted, heap, fdVars, pollPc, timerOfNow,
                       client>>
    BY <1>1 DEF expireStop
  <2>2. client \in Clients
    BY <1>1 DEF LTInv, TypeOK
  <2>3. /\ mTimer' \in [Clients -> Delegates \cup {NULL}]
        /\ mClient' \in [Delegates -> Clients \cup {NoClient}]
        /\ queue' \in Seq(Msg) /\ outcome' \in [Delegates -> Outcomes]
        /\ LifeInv' /\ MessagesInv' /\ OrderInv'
        /\ \A i \in DOMAIN queue : i \in DOMAIN queue' /\ queue'[i] = queue[i]
        /\ \A d \in Delegates :
             outcome'[d] = "running" =>
               outcome[d] = "running" /\ mClient'[d] = mClient[d] /\ mClient[d] # client
    BY <1>1, <2>1, <2>2, DestroyStep DEF Ended, heap
  <2>4. TypeOK'
    BY <2>1, <2>3 DEF LTInv, TypeOK, heap, fdVars, Tops, outRanks
  <2>5. ArmedInv' /\ SoonestIsArmed'
    BY <2>1 DEF ArmedInv, SoonestIsArmed
  <2>6. RunningIsQueued'
    <3>. SUFFICES ASSUME NEW d \in Delegates, outcome'[d] = "running"
         PROVE  /\ mClient'[d] \in alive' /\ mTimer'[mClient'[d]] = d
                /\ d \in mTree' \/ \E i \in DOMAIN queue' : queue'[i] = MsgTimerPush(d)
      BY DEF RunningIsQueued
    <3>1. d \in mTree \/ \E i \in DOMAIN queue : queue[i] = MsgTimerPush(d)
      BY <2>3 DEF LTInv, RunningIsQueued
    <3>2. mClient'[d] \in alive' /\ mTimer'[mClient'[d]] = d
      BY <2>3 DEF LifeInv
    <3>. QED
      BY <2>1, <2>3, <3>1, <3>2 DEF heap
  <2>. QED
    BY <2>3, <2>4, <2>5, <2>6 DEF LTInv
<1>2. CASE /\ msgPc' \in {"next", "crashed"}
           /\ UNCHANGED <<now, clientVars, deleted, heap, fdVars, pollPc, queue, timerOfNow, client,
                          outcome>>
           /\ msgPc = "stop" => client \notin alive \/ mTimer[client] = NULL
  <2>1. TypeOK'
    BY <1>2 DEF LTInv, TypeOK, clientVars, heap, fdVars, Tops, outRanks
  <2>2. LifeInv' /\ MessagesInv' /\ OrderInv'
    BY <1>2 DEF LTInv, LifeInv, MessagesInv, OrderInv, clientVars, heap
  <2>3. ArmedInv' /\ SoonestIsArmed'
    BY <1>2 DEF ArmedInv, SoonestIsArmed
  <2>4. RunningIsQueued'
    <3>. SUFFICES ASSUME NEW d \in Delegates, outcome[d] = "running"
         PROVE  /\ mClient[d] \in alive /\ mTimer[mClient[d]] = d
                /\ d \in mTree \/ \E i \in DOMAIN queue : queue[i] = MsgTimerPush(d)
      BY <1>2 DEF RunningIsQueued, clientVars, heap
    <3>1. mClient[d] \in alive /\ mTimer[mClient[d]] = d /\ d # NULL
      BY DEF LTInv, RunningIsQueued, Delegates, NULL
    <3>. QED
      BY <1>2, <3>1 DEF LTInv, RunningIsQueued
  <2>. QED
    BY <2>1, <2>2, <2>3, <2>4 DEF LTInv
<1>3. CASE timeOutCallback
  BY <1>2, <1>3 DEF timeOutCallback
<1>4. CASE expireStop /\ (client \notin alive \/ mTimer[client] = NULL)
  <2>1. /\ msgPc' \in {"next", "crashed"}
        /\ UNCHANGED <<mTimer, mClient, queue, outcome, now, alive, starts, mFutureTime, deleted, heap,
                       fdVars, pollPc, timerOfNow, client>>
    BY <1>4 DEF expireStop
  <2>. QED
    BY <1>2, <1>4, <2>1 DEF clientVars
<1>. QED
  BY <1>1, <1>3, <1>4

LEMMA LTNext == LTInv /\ [Next]_vars => LTInv'
<1>. SUFFICES ASSUME LTInv, [Next]_vars PROVE LTInv'
  OBVIOUS
<1>1. CASE UNCHANGED vars
  <2>1. TypeOK'
    BY <1>1 DEF vars, LTInv, TypeOK, clientVars, heap, fdVars, procVars, Tops, outRanks
  <2>. QED
    BY <1>1, <2>1 DEF vars, LTInv, LifeInv, MessagesInv, OrderInv, RunningIsQueued, ArmedInv,
       SoonestIsArmed, ExpireQueued, clientVars, heap, fdVars, procVars
<1>. QED
  BY <1>1, StopStep, StartStep, PollStep, PushStep, RemoveStep, SettimeStep, ExpireStep,
     CallbackStep DEF Next

LEMMA LTInvariant == Spec => []LTInv
  BY LTInit, LTNext, PTL DEF Spec

-----------------------------------------------------------------------------
(* The theorems.                                                           *)

(* LocTimer::start, stop and expire, the container's messages and the      *)
(* timerfd: a running timer is in the heap or on its way there, no         *)
(* delegate is freed while it is still pointed to, and the timerfd cannot  *)
(* miss the soonest timer.                                                 *)
THEOREM TimersNeverLost == Spec => []TimersTracked
<1>1. LTInv => TimersTracked
  <2>. SUFFICES ASSUME LTInv PROVE TimersTracked
    OBVIOUS
  <2>1. mTree \cap deleted = {} /\ \A c \in Clients : mTimer[c] \notin deleted
    <3>1. ASSUME NEW c \in Clients PROVE mTimer[c] \notin deleted
      <4>1. CASE mTimer[c] = NULL
        BY <4>1 DEF LTInv, TypeOK, NULL, Delegates
      <4>2. CASE mTimer[c] # NULL
        BY <4>2 DEF LTInv, LifeInv, Ended
      <4>. QED
        BY <4>1, <4>2
    <3>. QED
      BY <3>1 DEF LTInv, LifeInv
  <2>2. \A i \in DOMAIN queue : queue[i] \in Msg
    BY ElementOfSeq DEF LTInv, TypeOK
  <2>3. \A i \in DOMAIN queue : queue[i].proc # "expire" => queue[i].timer \notin deleted
    BY <2>2, MsgType DEF LTInv, MessagesInv
  <2>4. ASSUME NEW i \in DOMAIN queue, NEW j \in DOMAIN queue, i # j, queue[i].proc # "expire"
        PROVE  queue[i] # queue[j]
    <3>1. i \in Nat /\ j \in Nat
      BY LenProperties DEF LTInv, TypeOK
    <3>. QED
      BY <2>4, <3>1 DEF LTInv, OrderInv, PushOrRemove
  <2>. QED
    BY <2>1, <2>3, <2>4 DEF LTInv, NoDanglingDelegate, TimersTracked
<1>. QED
  BY <1>1, LTInvariant, PTL

(* LocTimer::stop returns true, or the expiry calls back, once for a       *)
(* start: what ended a timer is final.                                     *)
THEOREM TimerEndsOnce == Spec => OutcomeIsFinal
<1>. DEFINE Final == \A d \in Delegates :
                       outcome[d] \in {"stopped", "expired"} => outcome'[d] = outcome[d]
<1>1. LTInv /\ [Next]_vars => [Final]_vars
  <2>. SUFFICES ASSUME LTInv, [Next]_vars PROVE Final
    OBVIOUS
  <2>1. ASSUME NEW c \in Clients, NEW how, mTimer[c] # NULL, destroyLocked(c, queue, how)
        PROVE  Final
    <3>1. outcome[mTimer[c]] = "running" /\ outcome' = [outcome EXCEPT ![mTimer[c]] = how]
      BY <2>1 DEF destroyLocked, LTInv, LifeInv
    <3>. QED
      BY <3>1 DEF LTInv, TypeOK
  <2>2. ASSUME NEW c \in Clients, NEW delay \in Times, start(c, delay)
        PROVE  Final
    <3>1. outcome' = [outcome EXCEPT ![starts + 1] = "running"] /\ starts + 1 \in Delegates
      BY <2>2, BoundsAssumption DEF start, LTInv, TypeOK, Delegates
    <3>2. starts + 1 > starts
      BY DEF LTInv, TypeOK
    <3>3. outcome[starts + 1] = "none"
      BY <3>1, <3>2 DEF LTInv, LifeInv
    <3>. QED
      BY <3>1, <3>3 DEF LTInv, TypeOK
  <2>3. CASE UNCHANGED outcome
    BY <2>3
  <2>4. ASSUME NEW c \in Clients, stop(c) \/ deleteLocTimer(c) PROVE Final
    BY <2>1, <2>3, <2>4 DEF stop, deleteLocTimer
  <2>5. CASE expireStop
    <3>1. client \in alive => client \in Clients
      BY DEF LTInv, TypeOK
    <3>. QED
      BY <2>1, <2>3, <2>5, <3>1 DEF expireStop
  <2>6. CASE \/ epollWait \/ pollDisarm \/ pollRemove \/ pollSend \/ procPush \/ procRemove
             \/ settime \/ procExpire \/ expireNext \/ timeOutCallback \/ tick \/ UNCHANGED vars
    BY <2>3, <2>6 DEF epollWait, pollDisarm, pollRemove, pollSend, pollVars, procPush, procRemove,
       settime, procExpire, expireNext, timeOutCallback, tick, vars
  <2>. QED
    BY <2>2, <2>4, <2>5, <2>6 DEF Next
<1>. QED
  BY <1>1, LTInvariant, PTL DEF Spec, OutcomeIsFinal
=============================================================================
