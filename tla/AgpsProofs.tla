----------------------------- MODULE AgpsProofs -----------------------------
(***************************************************************************)
(* Proofs about Agps, for every set of handles, every configuration and    *)
(* every answer of the DS client.                                          *)
(***************************************************************************)
EXTENDS Agps, FiniteSetTheorems, TLAPS

-----------------------------------------------------------------------------
(* The subscriber list.                                                    *)

(* The empty list is the one without members.                              *)
LEMMA RangeHandles ==
  ASSUME NEW s \in Seq(Handles)
  PROVE  /\ Range(s) \subseteq Handles
         /\ s = <<>> <=> Range(s) = {}
<1>1. Range(s) \subseteq Handles
  BY DEF Range
<1>2. ASSUME s # <<>> PROVE Range(s) # {}
  <2>1. 1 \in DOMAIN s  BY <1>2
  <2>. QED  BY <2>1 DEF Range
<1>3. ASSUME s = <<>> PROVE Range(s) = {}
  BY <1>3 DEF Range
<1>. QED  BY <1>1, <1>2, <1>3

(* What keepSubscribers leaves is a list of exactly the handles it keeps.  *)
LEMMA InOrderFacts ==
  ASSUME NEW s, NEW K, K \subseteq Handles, NEW t \in InOrder(s, K)
  PROVE  /\ t \in Seq(Handles)
         /\ Range(t) = K
         /\ t = <<>> <=> K = {}
<1>1. IsFiniteSet(K)
  BY HandlesAssumption, FS_Subset
<1>2. Cardinality(K) \in Nat
  BY <1>1, FS_CardinalityType
<1>3. t \in [1..Cardinality(K) -> K] /\ Range(t) = K
  BY DEF InOrder
<1>4. t \in Seq(Handles)
  BY <1>2, <1>3
<1>5. t = <<>> <=> K = {}
  BY <1>3, <1>4, RangeHandles
<1>. QED  BY <1>3, <1>4, <1>5

(* What addSubscriber leaves has one more member.                          *)
LEMMA RangeAppend ==
  ASSUME NEW s \in Seq(Handles), NEW h \in Handles
  PROVE  Append(s, h) \in Seq(Handles) /\ Range(Append(s, h)) = Range(s) \cup {h}
<1>1. Append(s, h) \in Seq(Handles)
  OBVIOUS
<1>2. \A x \in Range(Append(s, h)) : x \in Range(s) \cup {h}
  BY DEF Range
<1>3. \A x \in Range(s) : x \in Range(Append(s, h))
  <2>. TAKE x \in Range(s)
  <2>1. PICK i \in DOMAIN s : s[i] = x  BY DEF Range
  <2>2. i \in DOMAIN Append(s, h) /\ Append(s, h)[i] = x  BY <2>1
  <2>. QED  BY <2>2 DEF Range
<1>4. h \in Range(Append(s, h))
  <2>1. Len(s) + 1 \in DOMAIN Append(s, h) /\ Append(s, h)[Len(s) + 1] = h  OBVIOUS
  <2>. QED  BY <2>1 DEF Range
<1>. QED  BY <1>1, <1>2, <1>3, <1>4


SubTypes ==
  /\ mSubscriberList \in [Machines -> Seq(Handles)]
  /\ waits \in [Machines -> SUBSET Handles]
  /\ inactive \in [Machines -> SUBSET Handles]

(* A step that leaves the lists of the machines other than sm alone.       *)
OtherLists(sm) ==
  \A m \in Machines \ {sm} : /\ mSubscriberList'[m] = mSubscriberList[m]
                             /\ waits'[m] = waits[m]
                             /\ inactive'[m] = inactive[m]

(* addSubscriber adds exactly one active handle to one list.               *)
LEMMA AddFacts ==
  ASSUME SubTypes, NEW sm \in Machines, NEW h \in Handles, NEW w \in BOOLEAN,
         addSubscriber(sm, h, w)
  PROVE  /\ SubTypes'
         /\ OtherLists(sm)
         /\ Subscribers(sm)' = Subscribers(sm) \cup {h}
         /\ inactive'[sm] \subseteq inactive[sm]
         /\ Subscribers(sm) \cap inactive'[sm] = Subscribers(sm) \cap inactive[sm]
         /\ h \notin Subscribers(sm) => h \notin inactive'[sm]
         /\ inactive[sm] \subseteq waits[sm] => inactive'[sm] \subseteq waits'[sm]
<1>1. CASE h \in Subscribers(sm)
  BY <1>1 DEF addSubscriber, subVars, SubTypes, OtherLists, Subscribers
<1>2. CASE h \notin Subscribers(sm)
  <2>1. mSubscriberList[sm] \in Seq(Handles)
    BY DEF SubTypes
  <2>2. /\ Append(mSubscriberList[sm], h) \in Seq(Handles)
        /\ Range(Append(mSubscriberList[sm], h)) = Range(mSubscriberList[sm]) \cup {h}
    BY <2>1, RangeAppend
  <2>3. /\ mSubscriberList' = [mSubscriberList EXCEPT ![sm] = Append(mSubscriberList[sm], h)]
        /\ waits' = [waits EXCEPT ![sm] = IF w THEN waits[sm] \cup {h} ELSE waits[sm] \ {h}]
        /\ inactive' = [inactive EXCEPT ![sm] = inactive[sm] \ {h}]
    BY <1>2 DEF addSubscriber
  <2>4. SubTypes'
    BY <2>2, <2>3 DEF SubTypes
  <2>5. OtherLists(sm)
    BY <2>3 DEF SubTypes, OtherLists
  <2>6. /\ mSubscriberList'[sm] = Append(mSubscriberList[sm], h)
        /\ inactive'[sm] = inactive[sm] \ {h}
        /\ waits[sm] \ {h} \subseteq waits'[sm]
    BY <2>3 DEF SubTypes
  <2>. QED  BY <1>2, <2>2, <2>4, <2>5, <2>6 DEF Subscribers
<1>. QED  BY <1>1, <1>2

(* keepSubscribers(sm, K) leaves exactly K in the list of sm.              *)
LEMMA KeepFacts ==
  ASSUME SubTypes, NEW sm \in Machines, NEW K, K \subseteq Subscribers(sm),
         keepSubscribers(sm, K)
  PROVE  /\ SubTypes'
         /\ OtherLists(sm)
         /\ Subscribers(sm)' = K
         /\ mSubscriberList'[sm] = <<>> <=> K = {}
         /\ inactive'[sm] = inactive[sm] \cap K
         /\ waits'[sm] = waits[sm] \cap K
<1>1. K \subseteq Handles
  BY RangeHandles DEF SubTypes, Subscribers
<1>2. PICK t \in InOrder(mSubscriberList[sm], K) :
        mSubscriberList' = [mSubscriberList EXCEPT ![sm] = t]
  BY DEF keepSubscribers
<1>3. t \in Seq(Handles) /\ Range(t) = K /\ (t = <<>> <=> K = {})
  BY <1>1, InOrderFacts
<1>4. /\ waits' = [waits EXCEPT ![sm] = waits[sm] \cap K]
      /\ inactive' = [inactive EXCEPT ![sm] = inactive[sm] \cap K]
  BY DEF keepSubscribers
<1>5. SubTypes'
  BY <1>2, <1>3, <1>4 DEF SubTypes
<1>6. OtherLists(sm)
  BY <1>2, <1>4 DEF SubTypes, OtherLists
<1>7. mSubscriberList'[sm] = t
  BY <1>2 DEF SubTypes
<1>8. inactive'[sm] = inactive[sm] \cap K /\ waits'[sm] = waits[sm] \cap K
  BY <1>4 DEF SubTypes
<1>. QED  BY <1>3, <1>5, <1>6, <1>7, <1>8 DEF Subscribers

-----------------------------------------------------------------------------
(* One event on one machine.                                               *)

(* The releases in the queue q belong to sessions that, in the modem's     *)
(* view a, are on their way out.                                           *)
Leaving(q, a) ==
  \A i \in DOMAIN q : q[i].msg = "releaseATL" => a[q[i].handle] \in {"closing", "closed", "failed"}

(* What a step on machine sm has to show of sm, of the modem's sessions    *)
(* and of the queue for the invariant to hold again.                       *)
LEMMA MachineStep ==
  ASSUME AgpsInv, NEW sm \in Machines, TypeOK', OtherLists(sm),
         \A m \in Machines \ {sm} : mState'[m] = mState[m],
         mState'[sm] \in {"PENDING", "ACQUIRED"} => Active(sm)' # {},
         mState'[sm] = "RELEASING" => Subscribers(sm)' \cap inactive'[sm] # {},
         sm \in PlainMachines /\ mState'[sm] = "RELEASED" => Subscribers(sm)' = {},
         inactive'[sm] \subseteq waits'[sm],
         \A h \in inactive'[sm] : atl'[h] \in {"closing", "closed", "failed"},
         Leaving(queue', atl'),
         \A h \in Handles : atl[h] \in {"closing", "closed", "failed"} => atl'[h] \in {"closing", "closed", "failed"},
         \A h \in Handles : atl'[h] = "open" =>
            \/ mState'[sm] = "ACQUIRED" /\ h \in Active(sm)'
            \/ atl[h] = "open" /\ ~(mState[sm] = "ACQUIRED" /\ h \in Active(sm))
  PROVE  AgpsInv'
<1>1. \A m \in Machines \ {sm} : /\ Subscribers(m)' = Subscribers(m)
                                 /\ Active(m)' = Active(m)
  BY DEF OtherLists, Subscribers, Active
<1>2. HeldForSomeone'
  BY <1>1 DEF AgpsInv, HeldForSomeone
<1>3. ReleasingForSomeone'
  BY <1>1 DEF AgpsInv, ReleasingForSomeone, OtherLists
<1>4. PlainReleasedEmpty'
  BY <1>1 DEF AgpsInv, PlainReleasedEmpty, Machines
<1>5. InactiveIsLeaving'
  <2>1. \A m \in Machines : inactive'[m] \subseteq waits'[m]
    BY DEF AgpsInv, InactiveIsLeaving, OtherLists
  <2>2. \A m \in Machines : \A h \in inactive'[m] : atl'[h] \in {"closing", "closed", "failed"}
    BY DEF AgpsInv, InactiveIsLeaving, OtherLists, TypeOK
  <2>. QED  BY <2>1, <2>2 DEF InactiveIsLeaving, Leaving
<1>6. OpenIsBacked'
  BY <1>1 DEF AgpsInv, OpenIsBacked
<1>. QED  BY <1>2, <1>3, <1>4, <1>5, <1>6 DEF AgpsInv

(* The two callbacks into the modem.                                       *)
LEMMA AtlTypes ==
  ASSUME atl \in [Handles -> AtlState], NEW H, NEW ok \in BOOLEAN
  PROVE  /\ AtlOpenStatus(H, ok) \in [Handles -> AtlState]
         /\ AtlCloseStatus(H) \in [Handles -> AtlState]
  BY DEF AtlOpenStatus, AtlCloseStatus, AtlState

(* FirstActive returns a member of the list that is not inactive.          *)
LEMMA FirstActiveFacts ==
  ASSUME NEW s \in Seq(Handles), NEW out, NEW h \in FirstActive(s, out)
  PROVE  h \in Handles /\ h \in Range(s) /\ h \notin out
  BY DEF FirstActive, Range

(* A queue that grows by a request, or by the requests of FallBack, keeps  *)
(* its type and its releases.                                              *)
LEMMA RequestPosted ==
  ASSUME NEW q \in Seq(Msg), NEW a, Leaving(q, a), NEW h \in Handles,
         NEW t \in {"SUPL", "WWAN_ANY", "SUPL_ES"}
  PROVE  Append(q, RequestMsg(h, t)) \in Seq(Msg) /\ Leaving(Append(q, RequestMsg(h, t)), a)
<1>1. RequestMsg(h, t) \in Msg /\ RequestMsg(h, t).msg # "releaseATL"
  BY DEF RequestMsg, Msg
<1>2. Append(q, RequestMsg(h, t)) \in Seq(Msg)
  BY <1>1
<1>3. ASSUME NEW i \in DOMAIN Append(q, RequestMsg(h, t)),
             Append(q, RequestMsg(h, t))[i].msg = "releaseATL"
      PROVE  a[Append(q, RequestMsg(h, t))[i].handle] \in {"closing", "closed", "failed"}
  <2>1. i \in 1..(Len(q) + 1)  OBVIOUS
  <2>2. i # Len(q) + 1  BY <1>1, <1>3
  <2>3. i \in DOMAIN q /\ Append(q, RequestMsg(h, t))[i] = q[i]  BY <2>1, <2>2
  <2>. QED  BY <1>3, <2>3 DEF Leaving
<1>. QED  BY <1>2, <1>3 DEF Leaving

(* The same for the requests a denial posts (FallBack).                    *)
LEMMA FallBackPosted ==
  ASSUME NEW q \in Seq(Msg), NEW a, Leaving(q, a), NEW s \in Seq(Handles)
  PROVE  q \o FallBack(s) \in Seq(Msg) /\ Leaving(q \o FallBack(s), a)
<1>. DEFINE f == FallBack(s)
<1>1. f \in Seq(Msg) /\ \A i \in DOMAIN f : f[i].msg = "requestATL"
  BY DEF FallBack, RequestMsg, Msg
<1>. HIDE DEF f
<1>2. q \o f \in Seq(Msg)
  BY <1>1
<1>3. ASSUME NEW i \in DOMAIN (q \o f), (q \o f)[i].msg = "releaseATL"
      PROVE  a[(q \o f)[i].handle] \in {"closing", "closed", "failed"}
  <2>1. i \in 1..(Len(q) + Len(f)) /\ Len(q) \in Nat /\ Len(f) \in Nat  BY <1>1
  <2>2. CASE i > Len(q)
    <3>1. i - Len(q) \in DOMAIN f /\ (q \o f)[i] = f[i - Len(q)]  BY <1>1, <2>1, <2>2
    <3>. QED  BY <1>1, <1>3, <3>1
  <2>3. CASE i <= Len(q)
    <3>1. i \in DOMAIN q /\ (q \o f)[i] = q[i]  BY <1>1, <2>1, <2>3
    <3>. QED  BY <1>3, <3>1 DEF Leaving
  <2>. QED  BY <2>1, <2>2, <2>3
<1>. QED  BY <1>2, <1>3 DEF Leaving, f

(* A request for a data connection.  Only the DS machine's can fail, and   *)
(* it succeeds only for an active subscriber.                              *)
LEMMA RequestFacts ==
  ASSUME TypeOK, NEW sm \in Machines, NEW s \in Seq(Handles), NEW out,
         NEW q \in Seq(Msg), NEW a, Leaving(q, a), NEW ok \in BOOLEAN,
         RequestDataConn(sm, s, out, q, ok)
  PROVE  /\ cmds' \in [Machines -> Seq({"REQUEST", "RELEASE"})]
         /\ mRetries' \in 0..MaxRetries
         /\ retryTimers' \in Nat
         /\ queue' \in Seq(Msg)
         /\ Leaving(queue', a)
         /\ ok /\ sm = "ds" => Range(s) \ out # {}
         /\ sm # "ds" => ok
<1>0. /\ cmds \in [Machines -> Seq({"REQUEST", "RELEASE"})]
      /\ mRetries \in 0..MaxRetries /\ retryTimers \in Nat /\ MaxRetries \in Nat
      /\ \A m \in Machines : [cmds EXCEPT ![m] = Append(cmds[m], "REQUEST")]
                               \in [Machines -> Seq({"REQUEST", "RELEASE"})]
      /\ "ds" \in Machines
  BY ConfAssumption DEF TypeOK, Machines
<1>1. CASE sm # "ds"
  BY <1>0, <1>1 DEF RequestDataConn, retryVars
<1>2. CASE sm = "ds"
  <2>1. StartDataCall(s, out, q, ok)
    BY <1>2 DEF RequestDataConn
  <2>2. CASE FirstActive(s, out) = {} /\ ok = FALSE /\ queue' = q
             /\ UNCHANGED <<cmds, retryVars>>
    BY <1>0, <1>2, <2>2 DEF retryVars
  <2>3. ASSUME NEW first \in FirstActive(s, out), NEW ret \in DsAnswers,
               ok = (ret = "SUCCESS"),
               cmds' = IF ok THEN [cmds EXCEPT !["ds"] = Append(cmds["ds"], "REQUEST")] ELSE cmds,
               mRetries' \in {0, mRetries} \/ (RetriesLeft /\ mRetries' = mRetries + 1),
               retryTimers' \in {retryTimers, retryTimers + 1},
               queue' \in {q, Append(q, RequestMsg(first, "SUPL"))}
        PROVE  /\ cmds' \in [Machines -> Seq({"REQUEST", "RELEASE"})]
               /\ mRetries' \in 0..MaxRetries
               /\ retryTimers' \in Nat
               /\ queue' \in Seq(Msg)
               /\ Leaving(queue', a)
               /\ ok => Range(s) \ out # {}
    <3>1. first \in Handles /\ first \in Range(s) /\ first \notin out
      BY FirstActiveFacts
    <3>2. queue' \in Seq(Msg) /\ Leaving(queue', a)
      BY <2>3, <3>1, RequestPosted
    <3>3. cmds' \in [Machines -> Seq({"REQUEST", "RELEASE"})]
      BY <1>0, <2>3
    <3>4. mRetries' \in 0..MaxRetries /\ retryTimers' \in Nat
      BY <1>0, <2>3 DEF RetriesLeft
    <3>. QED  BY <3>1, <3>2, <3>3, <3>4
  <2>4. CASE \E first \in FirstActive(s, out), ret \in DsAnswers :
               /\ ok = (ret = "SUCCESS")
               /\ cmds' = IF ok THEN [cmds EXCEPT !["ds"] = Append(cmds["ds"], "REQUEST")] ELSE cmds
               /\ mRetries' \in {0, mRetries} \/ (RetriesLeft /\ mRetries' = mRetries + 1)
               /\ retryTimers' \in {retryTimers, retryTimers + 1}
               /\ queue' \in {q, Append(q, RequestMsg(first, "SUPL"))}
    BY <1>2, <2>3, <2>4
  <2>5. \/ FirstActive(s, out) = {} /\ ok = FALSE /\ queue' = q
             /\ UNCHANGED <<cmds, retryVars>>
        \/ \E first \in FirstActive(s, out), ret \in DsAnswers :
               /\ ok = (ret = "SUCCESS")
               /\ cmds' = IF ok THEN [cmds EXCEPT !["ds"] = Append(cmds["ds"], "REQUEST")] ELSE cmds
               /\ mRetries' \in {0, mRetries} \/ (RetriesLeft /\ mRetries' = mRetries + 1)
               /\ retryTimers' \in {retryTimers, retryTimers + 1}
               /\ queue' \in {q, Append(q, RequestMsg(first, "SUPL"))}
    BY <2>1 DEF StartDataCall
  <2>. QED  BY <2>2, <2>4, <2>5
<1>. QED  BY <1>1, <1>2

(* processAgpsEventSubscribe.                                              *)
LEMMA SubscribeInv ==
  ASSUME AgpsInv, NEW sm \in Machines, NEW h \in Handles, NEW w \in BOOLEAN,
         NEW q \in Seq(Msg), Leaving(q, atl), nifs' \subseteq Machines,
         processAgpsEventSubscribe(sm, h, w, q)
  PROVE  AgpsInv'
<1>0. TypeOK /\ SubTypes /\ inactive[sm] \subseteq waits[sm] /\ mState \in [Machines -> AgpsState]
  BY DEF AgpsInv, TypeOK, SubTypes, InactiveIsLeaving
<1>1. addSubscriber(sm, h, w)
  BY DEF processAgpsEventSubscribe
<1>2. /\ SubTypes'
      /\ OtherLists(sm)
      /\ Subscribers(sm)' = Subscribers(sm) \cup {h}
      /\ inactive'[sm] \subseteq inactive[sm]
      /\ Subscribers(sm) \cap inactive'[sm] = Subscribers(sm) \cap inactive[sm]
      /\ h \notin Subscribers(sm) => h \notin inactive'[sm]
      /\ inactive'[sm] \subseteq waits'[sm]
  BY <1>0, <1>1, AddFacts
<1>3. Active(sm) \subseteq Active(sm)'
  BY <1>2 DEF Active
<1>4. Subscribers(sm)' \subseteq Handles /\ mSubscriberList'[sm] \in Seq(Handles)
  BY <1>2, RangeHandles DEF SubTypes, Subscribers
<1>5. CASE mState[sm] = "RELEASED"
  <2>1. PICK ok \in BOOLEAN :
          /\ RequestDataConn(sm, mSubscriberList'[sm], inactive'[sm], q, ok)
          /\ IF ok THEN transitionState(sm, "PENDING") ELSE UNCHANGED mState
    BY <1>5 DEF processAgpsEventSubscribe
  <2>2. UNCHANGED <<link, atl>>
    BY <1>5 DEF processAgpsEventSubscribe
  <2>3. /\ cmds' \in [Machines -> Seq({"REQUEST", "RELEASE"})]
        /\ mRetries' \in 0..MaxRetries
        /\ retryTimers' \in Nat
        /\ queue' \in Seq(Msg)
        /\ Leaving(queue', atl)
        /\ ok /\ sm = "ds" => Range(mSubscriberList'[sm]) \ inactive'[sm] # {}
        /\ sm # "ds" => ok
    <3>1. /\ TypeOK
          /\ mSubscriberList'[sm] \in Seq(Handles)
          /\ RequestDataConn(sm, mSubscriberList'[sm], inactive'[sm], q, ok)
      BY <1>0, <1>4, <2>1
    <3>. QED  BY ONLY <3>1, sm \in Machines, q \in Seq(Msg), Leaving(q, atl), ok \in BOOLEAN, RequestFacts
  <2>4. mState' = IF ok THEN [mState EXCEPT ![sm] = "PENDING"] ELSE mState
    BY <2>1 DEF transitionState
  <2>5. TypeOK'
    BY <1>0, <1>2, <2>2, <2>3, <2>4 DEF TypeOK, SubTypes, AgpsState
  <2>6. /\ mState'[sm] = IF ok THEN "PENDING" ELSE "RELEASED"
        /\ \A m \in Machines \ {sm} : mState'[m] = mState[m]
    BY <1>0, <1>5, <2>4
  <2>7. sm \in PlainMachines => Subscribers(sm) = {} /\ ok
    BY <1>5, <2>3 DEF AgpsInv, PlainReleasedEmpty, PlainMachines
  <2>8. ok => Active(sm)' # {}
    BY <1>2, <2>3, <2>7 DEF Active, Subscribers, Machines
  <2>9. \A x \in inactive'[sm] : atl'[x] \in {"closing", "closed", "failed"}
    BY <1>2, <2>2 DEF AgpsInv, InactiveIsLeaving
  <2>10. \A x \in Handles : atl'[x] = "open" =>
            atl[x] = "open" /\ ~(mState[sm] = "ACQUIRED" /\ x \in Active(sm))
    BY <1>5, <2>2
  <2>. QED  BY <1>2, <2>2, <2>3, <2>5, <2>6, <2>7, <2>8, <2>9, <2>10, MachineStep
<1>6. CASE mState[sm] \in {"PENDING", "RELEASING"}
  <2>1. queue' = q /\ UNCHANGED <<mState, retryVars, cmds, link, atl>>
    BY <1>6 DEF processAgpsEventSubscribe
  <2>2. TypeOK'
    BY <1>0, <1>2, <2>1 DEF TypeOK, SubTypes, retryVars
  <2>3. mState'[sm] = "PENDING" => Active(sm)' # {}
    BY <1>3, <2>1 DEF AgpsInv, HeldForSomeone
  <2>4. mState'[sm] = "RELEASING" => Subscribers(sm)' \cap inactive'[sm] # {}
    BY <1>2, <2>1 DEF AgpsInv, ReleasingForSomeone
  <2>5. \A x \in inactive'[sm] : atl'[x] \in {"closing", "closed", "failed"}
    BY <1>2, <2>1 DEF AgpsInv, InactiveIsLeaving
  <2>6. mState' = mState /\ atl' = atl /\ Leaving(queue', atl')
    BY <2>1
  <2>. QED  BY <1>2, <1>6, <2>2, <2>3, <2>4, <2>5, <2>6, MachineStep
<1>7. CASE mState[sm] = "ACQUIRED"
  <2>1. /\ queue' = q /\ UNCHANGED <<mState, retryVars, cmds, link>>
        /\ atl' = AtlOpenStatus({h}, TRUE)
    BY <1>7 DEF processAgpsEventSubscribe
  <2>2. atl' \in [Handles -> AtlState]
    BY <1>0, <2>1, AtlTypes DEF TypeOK
  <2>3. TypeOK'
    BY <1>0, <1>2, <2>1, <2>2 DEF TypeOK, SubTypes, retryVars
  <2>4. \A x \in Handles : /\ atl[x] \in {"closing", "closed", "failed"} => atl'[x] = atl[x]
                           /\ atl'[x] = "open" => atl[x] = "open" \/ (x = h /\ atl[x] = "opening")
    BY <2>1 DEF AtlOpenStatus
  <2>5. \A x \in inactive[sm] : x \in Handles /\ atl[x] \in {"closing", "closed", "failed"}
    BY <1>0 DEF AgpsInv, InactiveIsLeaving, TypeOK
  <2>6. atl[h] = "opening" => h \in Active(sm)'
    BY <1>2, <2>5 DEF Active
  <2>7. Leaving(queue', atl')
    <3>. SUFFICES ASSUME NEW i \in DOMAIN q, q[i].msg = "releaseATL"
                  PROVE  atl'[q[i].handle] \in {"closing", "closed", "failed"}
      BY <2>1 DEF Leaving
    <3>1. q[i].handle \in Handles
      BY DEF Msg, Reports
    <3>. QED  BY <3>1, <2>4 DEF Leaving
  <2>8. Active(sm)' # {}
    BY <1>3, <1>7 DEF AgpsInv, HeldForSomeone
  <2>9. \A x \in inactive'[sm] : atl'[x] \in {"closing", "closed", "failed"}
    BY <1>2, <2>4, <2>5
  <2>10. \A x \in Handles : atl'[x] = "open" =>
            \/ mState'[sm] = "ACQUIRED" /\ x \in Active(sm)'
            \/ atl[x] = "open" /\ ~(mState[sm] = "ACQUIRED" /\ x \in Active(sm))
    BY <1>3, <1>7, <2>1, <2>4, <2>6
  <2>11. mState' = mState
    BY <2>1
  <2>. QED  BY <1>2, <1>7, <2>3, <2>4, <2>7, <2>8, <2>9, <2>10, <2>11, MachineStep
<1>. QED  BY <1>0, <1>5, <1>6, <1>7 DEF AgpsState

(* Telling sessions that they are closed keeps the leaving ones leaving.   *)
LEMMA CloseFacts ==
  ASSUME TypeOK, NEW H, NEW q \in Seq(Msg), Leaving(q, atl), atl' = AtlCloseStatus(H)
  PROVE  /\ atl' \in [Handles -> AtlState]
         /\ \A x \in Handles : atl[x] \in {"closing", "closed", "failed"} => atl'[x] \in {"closing", "closed", "failed"}
         /\ \A x \in Handles : x \in H => atl'[x] = "closed"
         /\ \A x \in Handles : atl'[x] = "open" => atl[x] = "open" /\ x \notin H
         /\ Leaving(q, atl')
<1>1. atl' \in [Handles -> AtlState]
  BY AtlTypes DEF TypeOK
<1>2. \A x \in Handles : /\ atl[x] \in {"closing", "closed", "failed"} => atl'[x] \in {"closing", "closed", "failed"}
                         /\ x \in H => atl'[x] = "closed"
                         /\ atl'[x] = "open" => atl[x] = "open" /\ x \notin H
  BY DEF AtlCloseStatus
<1>3. \A i \in DOMAIN q : q[i].msg = "releaseATL" => q[i].handle \in Handles
  BY DEF Msg, Reports
<1>. QED  BY <1>1, <1>2, <1>3 DEF Leaving

(* An open status opens only the sessions it names.                        *)
LEMMA OpenFacts ==
  ASSUME TypeOK, NEW H, NEW ok \in BOOLEAN, NEW q \in Seq(Msg), Leaving(q, atl),
         atl' = AtlOpenStatus(H, ok)
  PROVE  /\ atl' \in [Handles -> AtlState]
         /\ \A x \in Handles : atl[x] \in {"closing", "closed", "failed"} => atl'[x] \in {"closing", "closed", "failed"}
         /\ \A x \in Handles : atl'[x] = "open" => atl[x] = "open" \/ (x \in H /\ ok)
         /\ Leaving(q, atl')
<1>1. atl' \in [Handles -> AtlState]
  BY AtlTypes DEF TypeOK
<1>2. \A x \in Handles : /\ atl[x] \in {"closing", "closed", "failed"} => atl'[x] \in {"closing", "closed", "failed"}
                         /\ atl'[x] = "open" => atl[x] = "open" \/ (x \in H /\ ok)
  BY DEF AtlOpenStatus
<1>3. \A i \in DOMAIN q : q[i].msg = "releaseATL" => q[i].handle \in Handles
  BY DEF Msg, Reports
<1>. QED  BY <1>1, <1>2, <1>3 DEF Leaving

(* A release on a list: its subscriber becomes inactive or is gone.        *)
LEMMA LeaveFacts ==
  ASSUME TypeOK, InactiveIsLeaving, NEW sm \in Machines, NEW h \in Subscribers(sm),
         atl[h] \in {"closing", "closed", "failed"}, NEW q \in Seq(Msg), Leaving(q, atl), leaveList(sm, h)
  PROVE  /\ SubTypes'
         /\ OtherLists(sm)
         /\ mSubscriberList'[sm] = <<>> <=> Subscribers(sm)' = {}
         /\ inactive'[sm] \subseteq waits'[sm]
         /\ Active(sm) \ {h} \subseteq Active(sm)'
         /\ (Subscribers(sm) \cap inactive[sm]) \subseteq Subscribers(sm)' \cap inactive'[sm]
         /\ atl' \in [Handles -> AtlState]
         /\ \A x \in inactive'[sm] : atl'[x] \in {"closing", "closed", "failed"}
         /\ \A x \in Handles : atl[x] \in {"closing", "closed", "failed"} => atl'[x] \in {"closing", "closed", "failed"}
         /\ \A x \in Handles : atl'[x] = "open" => atl[x] = "open" /\ x # h
         /\ Leaving(q, atl')
<1>0. /\ SubTypes /\ inactive[sm] \subseteq waits[sm] /\ inactive[sm] \subseteq Handles
      /\ \A x \in inactive[sm] : atl[x] \in {"closing", "closed", "failed"}
  BY DEF TypeOK, SubTypes, InactiveIsLeaving
<1>1. h \in Handles
  BY <1>0, RangeHandles DEF SubTypes, Subscribers
<1>2. CASE h \in waits[sm]
  <2>1. /\ inactive' = [inactive EXCEPT ![sm] = inactive[sm] \cup {h}]
        /\ UNCHANGED <<mSubscriberList, waits, atl>>
    BY <1>2 DEF leaveList
  <2>2. inactive'[sm] = inactive[sm] \cup {h} /\ SubTypes' /\ OtherLists(sm)
    BY <1>0, <1>1, <2>1 DEF SubTypes, OtherLists
  <2>3. Subscribers(sm)' = Subscribers(sm) /\ mSubscriberList'[sm] = mSubscriberList[sm]
    BY <2>1 DEF Subscribers
  <2>4. mSubscriberList[sm] = <<>> <=> Subscribers(sm) = {}
    BY <1>0, RangeHandles DEF SubTypes, Subscribers
  <2>. QED  BY <1>0, <1>2, <2>1, <2>2, <2>3, <2>4 DEF Active, TypeOK
<1>3. CASE h \notin waits[sm]
  <2>1. keepSubscribers(sm, Subscribers(sm) \ {h}) /\ atl' = AtlCloseStatus({h})
    BY <1>3 DEF leaveList
  <2>2. /\ SubTypes'
        /\ OtherLists(sm)
        /\ Subscribers(sm)' = Subscribers(sm) \ {h}
        /\ mSubscriberList'[sm] = <<>> <=> Subscribers(sm) \ {h} = {}
        /\ inactive'[sm] = inactive[sm] \cap (Subscribers(sm) \ {h})
        /\ waits'[sm] = waits[sm] \cap (Subscribers(sm) \ {h})
    BY <1>0, <2>1, KeepFacts
  <2>3. /\ atl' \in [Handles -> AtlState]
        /\ \A x \in Handles : atl[x] \in {"closing", "closed", "failed"} => atl'[x] \in {"closing", "closed", "failed"}
        /\ \A x \in Handles : atl'[x] = "open" => atl[x] = "open" /\ x \notin {h}
        /\ Leaving(q, atl')
    BY <2>1, CloseFacts
  <2>4. h \notin inactive[sm]
    BY <1>0, <1>3
  <2>. QED  BY <1>0, <2>2, <2>3, <2>4 DEF Active
<1>. QED  BY <1>2, <1>3

(* processAgpsEventUnsubscribe.                                            *)
LEMMA UnsubscribeInv ==
  ASSUME AgpsInv, NEW sm \in Machines, NEW h \in Subscribers(sm),
         atl[h] \in {"closing", "closed", "failed"},
         NEW q \in Seq(Msg), Leaving(q, atl), UNCHANGED nifs,
         processAgpsEventUnsubscribe(sm, h, q)
  PROVE  AgpsInv'
<1>0. /\ TypeOK /\ SubTypes /\ InactiveIsLeaving /\ mState \in [Machines -> AgpsState]
      /\ cmds \in [Machines -> Seq({"REQUEST", "RELEASE"})]
  BY DEF AgpsInv, TypeOK, SubTypes
<1>1. queue' = q /\ UNCHANGED <<retryVars, link>>
  BY DEF processAgpsEventUnsubscribe
<1>2. CASE mState[sm] = "RELEASED"
  <2>1. atl' = AtlCloseStatus({h}) /\ UNCHANGED <<mState, subVars, cmds>>
    BY <1>2 DEF processAgpsEventUnsubscribe
  <2>2. /\ atl' \in [Handles -> AtlState]
        /\ \A x \in Handles : atl[x] \in {"closing", "closed", "failed"} => atl'[x] \in {"closing", "closed", "failed"}
        /\ \A x \in Handles : atl'[x] = "open" => atl[x] = "open" /\ x \notin {h}
        /\ Leaving(q, atl')
    BY <1>0, <2>1, CloseFacts
  <2>3. TypeOK'
    BY <1>0, <1>1, <2>1, <2>2 DEF TypeOK, subVars, retryVars
  <2>4. /\ OtherLists(sm) /\ Subscribers(sm)' = Subscribers(sm) /\ mState' = mState
        /\ inactive'[sm] = inactive[sm] /\ waits'[sm] = waits[sm]
    BY <2>1 DEF subVars, OtherLists, Subscribers
  <2>5. sm \in PlainMachines => Subscribers(sm)' = {}
    BY <1>2, <2>4 DEF AgpsInv, PlainReleasedEmpty
  <2>6. /\ inactive'[sm] \subseteq waits'[sm]
        /\ \A x \in inactive'[sm] : atl'[x] \in {"closing", "closed", "failed"}
    BY <1>0, <2>2, <2>4 DEF InactiveIsLeaving, TypeOK
  <2>. QED  BY <1>1, <1>2, <2>2, <2>3, <2>4, <2>5, <2>6, MachineStep
<1>3. CASE mState[sm] # "RELEASED"
  <2>1. leaveList(sm, h)
    BY <1>0, <1>3 DEF processAgpsEventUnsubscribe
  <2>2. /\ SubTypes'
        /\ OtherLists(sm)
        /\ mSubscriberList'[sm] = <<>> <=> Subscribers(sm)' = {}
        /\ inactive'[sm] \subseteq waits'[sm]
        /\ Active(sm) \ {h} \subseteq Active(sm)'
        /\ (Subscribers(sm) \cap inactive[sm]) \subseteq Subscribers(sm)' \cap inactive'[sm]
        /\ atl' \in [Handles -> AtlState]
        /\ \A x \in inactive'[sm] : atl'[x] \in {"closing", "closed", "failed"}
        /\ \A x \in Handles : atl[x] \in {"closing", "closed", "failed"} => atl'[x] \in {"closing", "closed", "failed"}
        /\ \A x \in Handles : atl'[x] = "open" => atl[x] = "open" /\ x # h
        /\ Leaving(q, atl')
    BY <1>0, <2>1, LeaveFacts
  <2>3. CASE mState[sm] \in {"PENDING", "ACQUIRED"}
    <3>1. \/ /\ Subscribers(sm)' = {}
             /\ mState' = [mState EXCEPT ![sm] = "RELEASED"]
             /\ cmds' = [cmds EXCEPT ![sm] = Append(cmds[sm], "RELEASE")]
          \/ /\ Subscribers(sm)' # {} /\ Subscribers(sm)' \subseteq inactive'[sm]
             /\ mState' = [mState EXCEPT ![sm] = "RELEASING"]
             /\ cmds' = [cmds EXCEPT ![sm] = Append(cmds[sm], "RELEASE")]
          \/ /\ ~(Subscribers(sm)' \subseteq inactive'[sm])
             /\ mState' = mState /\ cmds' = cmds
      BY <2>2, <2>3 DEF processAgpsEventUnsubscribe, transitionState, ReleaseDataConn, Subscribers
    <3>2. cmds' \in [Machines -> Seq({"REQUEST", "RELEASE"})] /\ mState' \in [Machines -> AgpsState]
      <4>1. Append(cmds[sm], "RELEASE") \in Seq({"REQUEST", "RELEASE"})
        BY <1>0
      <4>2. cmds' \in [Machines -> Seq({"REQUEST", "RELEASE"})]
        BY <1>0, <3>1, <4>1
      <4>3. mState' \in [Machines -> AgpsState]
        BY <1>0, <3>1 DEF AgpsState
      <4>. QED  BY <4>2, <4>3
    <3>3. TypeOK'
      BY <1>0, <1>1, <2>2, <3>2 DEF TypeOK, SubTypes, retryVars
    <3>4. /\ \A m \in Machines \ {sm} : mState'[m] = mState[m]
          /\ \/ mState'[sm] = "RELEASED" /\ Subscribers(sm)' = {}
             \/ /\ mState'[sm] = "RELEASING" /\ Subscribers(sm)' # {}
                /\ Subscribers(sm)' \subseteq inactive'[sm]
             \/ mState'[sm] = mState[sm] /\ ~(Subscribers(sm)' \subseteq inactive'[sm])
      BY <1>0, <3>1
    <3>5. /\ mState'[sm] \in {"PENDING", "ACQUIRED"} => Active(sm)' # {}
          /\ mState'[sm] = "RELEASING" => Subscribers(sm)' \cap inactive'[sm] # {}
          /\ mState'[sm] = "RELEASED" => Subscribers(sm)' = {}
      BY <2>3, <3>4 DEF Active
    <3>6. \A x \in Handles : atl'[x] = "open" =>
            \/ mState'[sm] = "ACQUIRED" /\ x \in Active(sm)'
            \/ atl[x] = "open" /\ ~(mState[sm] = "ACQUIRED" /\ x \in Active(sm))
      BY <2>2, <3>4 DEF Active
    <3>. QED  BY <1>1, <2>2, <3>3, <3>4, <3>5, <3>6, MachineStep
  <2>4. CASE mState[sm] = "RELEASING"
    <3>1. /\ UNCHANGED cmds
          /\ IF mSubscriberList'[sm] = <<>>
             THEN mState' = [mState EXCEPT ![sm] = "RELEASED"] ELSE mState' = mState
      BY <2>4 DEF processAgpsEventUnsubscribe, transitionState
    <3>2. TypeOK'
      <4>1. mState' \in [Machines -> AgpsState]
        BY <1>0, <3>1 DEF AgpsState
      <4>. QED  BY <1>0, <1>1, <2>2, <3>1, <4>1 DEF TypeOK, SubTypes, retryVars
    <3>3. /\ \A m \in Machines \ {sm} : mState'[m] = mState[m]
          /\ mState'[sm] = IF Subscribers(sm)' = {} THEN "RELEASED" ELSE "RELEASING"
      BY <1>0, <2>2, <2>4, <3>1
    <3>4. Subscribers(sm)' \cap inactive'[sm] # {}
      BY <2>2, <2>4 DEF AgpsInv, ReleasingForSomeone
    <3>. QED  BY <1>1, <2>2, <2>4, <3>2, <3>3, <3>4, MachineStep
  <2>. QED  BY <1>0, <1>3, <2>3, <2>4 DEF AgpsState
<1>. QED  BY <1>2, <1>3

(* processAgpsEventGranted.                                                *)
LEMMA GrantedInv ==
  ASSUME AgpsInv, NEW sm \in Machines, NEW q \in Seq(Msg), Leaving(q, atl),
         UNCHANGED nifs, processAgpsEventGranted(sm, q)
  PROVE  AgpsInv'
<1>0. TypeOK /\ mState \in [Machines -> AgpsState] /\ InactiveIsLeaving
  BY DEF AgpsInv, TypeOK
<1>1. queue' = q /\ UNCHANGED <<subVars, retryVars, cmds, link>>
  BY DEF processAgpsEventGranted
<1>2. PICK H : /\ atl' = AtlOpenStatus(H, TRUE)
               /\ \/ /\ mState[sm] = "PENDING" /\ H = Active(sm)
                     /\ mState' = [mState EXCEPT ![sm] = "ACQUIRED"]
                  \/ mState[sm] # "PENDING" /\ H = {} /\ mState' = mState
  <2>1. CASE mState[sm] = "PENDING"
    <3>1. /\ atl' = AtlOpenStatus(Active(sm), TRUE)
          /\ mState' = [mState EXCEPT ![sm] = "ACQUIRED"]
      BY <2>1 DEF processAgpsEventGranted, transitionState
    <3>. QED  BY <2>1, <3>1
  <2>2. CASE mState[sm] # "PENDING"
    <3>1. atl' = atl /\ mState' = mState
      BY <2>2 DEF processAgpsEventGranted
    <3>2. atl' = AtlOpenStatus({}, TRUE)
      BY <1>0, <3>1 DEF TypeOK, AtlOpenStatus
    <3>. QED  BY <2>2, <3>1, <3>2
  <2>. QED  BY <2>1, <2>2
<1>3. /\ atl' \in [Handles -> AtlState]
      /\ \A x \in Handles : atl[x] \in {"closing", "closed", "failed"} => atl'[x] \in {"closing", "closed", "failed"}
      /\ \A x \in Handles : atl'[x] = "open" => atl[x] = "open" \/ x \in H
      /\ Leaving(q, atl')
  BY <1>0, <1>2, OpenFacts
<1>4. TypeOK'
  BY <1>0, <1>1, <1>2, <1>3 DEF TypeOK, subVars, retryVars, AgpsState
<1>5. /\ OtherLists(sm) /\ Subscribers(sm)' = Subscribers(sm) /\ Active(sm)' = Active(sm)
      /\ inactive'[sm] = inactive[sm] /\ waits'[sm] = waits[sm]
  BY <1>1 DEF subVars, OtherLists, Subscribers, Active
<1>6. /\ \A m \in Machines \ {sm} : mState'[m] = mState[m]
      /\ \/ mState[sm] = "PENDING" /\ H = Active(sm) /\ mState'[sm] = "ACQUIRED"
         \/ H = {} /\ mState'[sm] = mState[sm]
  BY <1>0, <1>2
<1>7. /\ inactive'[sm] \subseteq waits'[sm]
      /\ \A x \in inactive'[sm] : atl'[x] \in {"closing", "closed", "failed"}
  BY <1>0, <1>3, <1>5 DEF InactiveIsLeaving, TypeOK
<1>8. /\ mState'[sm] \in {"PENDING", "ACQUIRED"} => Active(sm)' # {}
      /\ mState'[sm] = "RELEASING" => Subscribers(sm)' \cap inactive'[sm] # {}
      /\ sm \in PlainMachines /\ mState'[sm] = "RELEASED" => Subscribers(sm)' = {}
  BY <1>5, <1>6 DEF AgpsInv, HeldForSomeone, ReleasingForSomeone, PlainReleasedEmpty
<1>9. \A x \in Handles : atl'[x] = "open" =>
        \/ mState'[sm] = "ACQUIRED" /\ x \in Active(sm)'
        \/ atl[x] = "open" /\ ~(mState[sm] = "ACQUIRED" /\ x \in Active(sm))
  BY <1>3, <1>5, <1>6
<1>. QED  BY <1>1, <1>3, <1>4, <1>5, <1>6, <1>7, <1>8, <1>9, MachineStep

(* The close of the connection in the RELEASING state.                     *)
LEMMA ConnectionClosedInv ==
  ASSUME AgpsInv, NEW sm \in Machines, mState[sm] = "RELEASING",
         NEW q \in Seq(Msg), Leaving(q, atl), UNCHANGED <<nifs, link>>, connectionClosed(sm, q)
  PROVE  AgpsInv'
<1>0. /\ TypeOK /\ SubTypes /\ InactiveIsLeaving /\ mState \in [Machines -> AgpsState]
      /\ inactive[sm] \subseteq Handles
  BY DEF AgpsInv, TypeOK, SubTypes
<1>1. /\ atl' = AtlCloseStatus(Subscribers(sm) \ Active(sm))
      /\ keepSubscribers(sm, Active(sm))
  BY DEF connectionClosed
<1>2. /\ SubTypes'
      /\ OtherLists(sm)
      /\ Subscribers(sm)' = Active(sm)
      /\ inactive'[sm] = inactive[sm] \cap Active(sm)
      /\ waits'[sm] = waits[sm] \cap Active(sm)
  <2>1. Active(sm) \subseteq Subscribers(sm)
    BY DEF Active
  <2>. QED  BY <1>0, <1>1, <2>1, KeepFacts
<1>3. /\ atl' \in [Handles -> AtlState]
      /\ \A x \in Handles : atl[x] \in {"closing", "closed", "failed"} => atl'[x] \in {"closing", "closed", "failed"}
      /\ \A x \in Handles : atl'[x] = "open" => atl[x] = "open"
      /\ Leaving(q, atl')
  BY <1>0, <1>1, CloseFacts
<1>4. /\ inactive'[sm] \subseteq waits'[sm]
      /\ \A x \in inactive'[sm] : atl'[x] \in {"closing", "closed", "failed"}
  BY <1>0, <1>2, <1>3 DEF InactiveIsLeaving
<1>5. Active(sm)' = Active(sm)
  BY <1>2 DEF Active
<1>6. CASE Active(sm) # {}
  <2>1. PICK ok \in BOOLEAN : RequestDataConn(sm, mSubscriberList'[sm], inactive'[sm], q, ok)
    BY <1>6 DEF connectionClosed
  <2>2. mState' = [mState EXCEPT ![sm] = "PENDING"]
    BY <1>6 DEF connectionClosed, transitionState
  <2>3. mSubscriberList'[sm] \in Seq(Handles)
    BY <1>2 DEF SubTypes
  <2>4. /\ cmds' \in [Machines -> Seq({"REQUEST", "RELEASE"})]
        /\ mRetries' \in 0..MaxRetries
        /\ retryTimers' \in Nat
        /\ queue' \in Seq(Msg)
        /\ Leaving(queue', atl')
    <3>1. TypeOK /\ Leaving(q, atl')
      BY <1>0, <1>3
    <3>. QED  BY ONLY <2>1, <2>3, <3>1, sm \in Machines, q \in Seq(Msg), ok \in BOOLEAN, RequestFacts
  <2>5. TypeOK'
    <3>1. mState' \in [Machines -> AgpsState]
      BY <1>0, <2>2 DEF AgpsState
    <3>. QED  BY <1>0, <1>2, <1>3, <2>4, <3>1 DEF TypeOK, SubTypes
  <2>6. mState'[sm] = "PENDING" /\ \A m \in Machines \ {sm} : mState'[m] = mState[m]
    BY <1>0, <2>2
  <2>. QED  BY <1>2, <1>3, <1>4, <1>5, <1>6, <2>4, <2>5, <2>6, MachineStep
<1>7. CASE Active(sm) = {}
  <2>1. queue' = q /\ UNCHANGED <<retryVars, cmds>> /\ mState' = [mState EXCEPT ![sm] = "RELEASED"]
    BY <1>7 DEF connectionClosed, transitionState
  <2>2. TypeOK'
    <3>1. mState' \in [Machines -> AgpsState]
      BY <1>0, <2>1 DEF AgpsState
    <3>. QED  BY <1>0, <1>2, <1>3, <2>1, <3>1 DEF TypeOK, SubTypes, retryVars
  <2>3. mState'[sm] = "RELEASED" /\ \A m \in Machines \ {sm} : mState'[m] = mState[m]
    BY <1>0, <2>1
  <2>. QED  BY <1>2, <1>3, <1>4, <1>7, <2>1, <2>2, <2>3, MachineStep
<1>. QED  BY <1>6, <1>7

(* An event a machine ignores.                                             *)
LEMMA IgnoredInv ==
  ASSUME AgpsInv, NEW q \in Seq(Msg), Leaving(q, atl), queue' = q,
         UNCHANGED <<nifs, mState, subVars, retryVars, cmds, link, atl>>
  PROVE  AgpsInv'
<1>1. TypeOK'
  BY DEF AgpsInv, TypeOK, subVars, retryVars
<1>. QED
  BY <1>1 DEF AgpsInv, HeldForSomeone, ReleasingForSomeone, PlainReleasedEmpty, InactiveIsLeaving,
              OpenIsBacked, Leaving, subVars, Active, Subscribers

(* A machine that empties its list and goes to RELEASED.                   *)
LEMMA DroppedInv ==
  ASSUME AgpsInv, NEW sm \in Machines, keepSubscribers(sm, {}),
         transitionState(sm, "RELEASED"), UNCHANGED <<nifs, link, cmds, retryTimers>>,
         mRetries' \in {0, mRetries}, atl' \in [Handles -> AtlState],
         queue' \in Seq(Msg), Leaving(queue', atl'),
         \A x \in Handles : atl[x] \in {"closing", "closed", "failed"} => atl'[x] \in {"closing", "closed", "failed"},
         \A x \in Handles : atl'[x] = "open" =>
            atl[x] = "open" /\ ~(mState[sm] = "ACQUIRED" /\ x \in Active(sm))
  PROVE  AgpsInv'
<1>0. TypeOK /\ SubTypes /\ mState \in [Machines -> AgpsState] /\ MaxRetries \in Nat
  BY ConfAssumption DEF AgpsInv, TypeOK, SubTypes
<1>1. SubTypes' /\ OtherLists(sm) /\ Subscribers(sm)' = {} /\ inactive'[sm] = {}
  BY <1>0, KeepFacts
<1>2. mState' = [mState EXCEPT ![sm] = "RELEASED"]
  BY DEF transitionState
<1>3. mState'[sm] = "RELEASED" /\ \A m \in Machines \ {sm} : mState'[m] = mState[m]
  BY <1>0, <1>2
<1>4. TypeOK'
  <2>1. mState' \in [Machines -> AgpsState]
    BY <1>0, <1>2 DEF AgpsState
  <2>2. mRetries' \in 0..MaxRetries
    BY <1>0 DEF TypeOK
  <2>. QED  BY <1>0, <1>1, <2>1, <2>2 DEF TypeOK, SubTypes
<1>. QED  BY <1>1, <1>3, <1>4, MachineStep

(* processAgpsEventReleased.                                               *)
LEMMA ReleasedInv ==
  ASSUME AgpsInv, NEW sm \in Machines, NEW q \in Seq(Msg), Leaving(q, atl),
         UNCHANGED nifs, processAgpsEventReleased(sm, q)
  PROVE  AgpsInv'
<1>0. TypeOK /\ link' = link
  BY DEF AgpsInv, processAgpsEventReleased
<1>1. CASE /\ mState[sm] = "ACQUIRED"
           /\ transitionState(sm, "RELEASED")
           /\ atl' = AtlCloseStatus(Subscribers(sm))
           /\ keepSubscribers(sm, {})
           /\ queue' = q
           /\ UNCHANGED <<retryVars, cmds>>
  <2>1. /\ atl' \in [Handles -> AtlState]
        /\ \A x \in Handles : atl[x] \in {"closing", "closed", "failed"} => atl'[x] \in {"closing", "closed", "failed"}
        /\ \A x \in Handles : atl'[x] = "open" => atl[x] = "open" /\ x \notin Subscribers(sm)
        /\ Leaving(q, atl')
    BY <1>0, <1>1, CloseFacts
  <2>2. \A x \in Handles : atl'[x] = "open" =>
          atl[x] = "open" /\ ~(mState[sm] = "ACQUIRED" /\ x \in Active(sm))
    BY <2>1 DEF Active
  <2>. QED  BY <1>0, <1>1, <2>1, <2>2, DroppedInv DEF retryVars
<1>2. CASE mState[sm] = "RELEASING" /\ connectionClosed(sm, q)
  BY <1>0, <1>2, ConnectionClosedInv
<1>3. CASE queue' = q /\ UNCHANGED <<mState, subVars, retryVars, cmds, atl>>
  BY <1>0, <1>3, IgnoredInv
<1>. QED  BY <1>1, <1>2, <1>3 DEF processAgpsEventReleased

(* processAgpsEventDenied.                                                 *)
LEMMA DeniedInv ==
  ASSUME AgpsInv, NEW sm \in Machines, NEW q \in Seq(Msg), Leaving(q, atl),
         UNCHANGED nifs, processAgpsEventDenied(sm, q)
  PROVE  AgpsInv'
<1>0. TypeOK /\ link' = link /\ mSubscriberList[sm] \in Seq(Handles)
  BY DEF AgpsInv, TypeOK, processAgpsEventDenied
<1>1. CASE mState[sm] = "PENDING"
  <2>1. /\ transitionState(sm, "RELEASED") /\ keepSubscribers(sm, {})
        /\ UNCHANGED <<retryTimers, cmds>>
    BY <1>1 DEF processAgpsEventDenied
  <2>2. CASE sm = "ds"
    <3>1. queue' = q \o FallBack(mSubscriberList[sm]) /\ mRetries' = 0 /\ UNCHANGED atl
      BY <1>1, <2>2 DEF processAgpsEventDenied
    <3>2. queue' \in Seq(Msg) /\ Leaving(queue', atl')
      BY <1>0, <3>1, FallBackPosted
    <3>3. /\ atl' \in [Handles -> AtlState]
          /\ \A x \in Handles : atl[x] \in {"closing", "closed", "failed"} => atl'[x] \in {"closing", "closed", "failed"}
          /\ \A x \in Handles : atl'[x] = "open" =>
               atl[x] = "open" /\ ~(mState[sm] = "ACQUIRED" /\ x \in Active(sm))
          /\ mRetries' \in {0, mRetries}
          /\ UNCHANGED <<nifs, link, cmds, retryTimers>>
      BY <1>0, <1>1, <2>1, <3>1 DEF TypeOK
    <3>. QED  BY <2>1, <3>2, <3>3, DroppedInv
  <2>3. CASE sm # "ds"
    <3>1. queue' = q /\ UNCHANGED mRetries /\ atl' = AtlOpenStatus(Subscribers(sm), FALSE)
      BY <1>1, <2>3 DEF processAgpsEventDenied
    <3>2. /\ atl' \in [Handles -> AtlState]
          /\ \A x \in Handles : atl[x] \in {"closing", "closed", "failed"} => atl'[x] \in {"closing", "closed", "failed"}
          /\ \A x \in Handles : atl'[x] = "open" => atl[x] = "open"
          /\ Leaving(q, atl')
      BY <1>0, <3>1, OpenFacts
    <3>3. /\ \A x \in Handles : atl'[x] = "open" =>
               atl[x] = "open" /\ ~(mState[sm] = "ACQUIRED" /\ x \in Active(sm))
          /\ mRetries' \in {0, mRetries}
          /\ queue' \in Seq(Msg) /\ Leaving(queue', atl')
          /\ UNCHANGED <<nifs, link, cmds, retryTimers>>
      BY <1>0, <1>1, <2>1, <3>1, <3>2
    <3>. QED  BY <2>1, <3>2, <3>3, DroppedInv
  <2>. QED  BY <2>2, <2>3
<1>2. CASE mState[sm] = "RELEASING" /\ connectionClosed(sm, q)
  BY <1>0, <1>2, ConnectionClosedInv
<1>3. CASE queue' = q /\ UNCHANGED <<mState, subVars, retryVars, cmds, atl>>
  BY <1>0, <1>3, IgnoredInv
<1>. QED  BY <1>1, <1>2, <1>3 DEF processAgpsEventDenied

-----------------------------------------------------------------------------
(* The actions.                                                            *)

(* The message at the head of the queue, and the queue behind it.          *)
LEMMA HeadFacts ==
  ASSUME AgpsInv, queue # <<>>
  PROVE  /\ Head(queue) \in Msg
         /\ Tail(queue) \in Seq(Msg)
         /\ Leaving(Tail(queue), atl)
         /\ Head(queue).msg = "releaseATL" =>
              /\ Head(queue).handle \in Handles
              /\ atl[Head(queue).handle] \in {"closing", "closed", "failed"}
         /\ Head(queue).msg = "requestATL" =>
              Head(queue).handle \in Handles /\ Head(queue).agps \in {"SUPL", "WWAN_ANY", "SUPL_ES"}
         /\ Head(queue).msg \in Reports => Head(queue).sm \in Machines
<1>1. queue \in Seq(Msg) /\ Leaving(queue, atl)
  BY DEF AgpsInv, TypeOK, InactiveIsLeaving, Leaving
<1>2. Head(queue) \in Msg /\ Tail(queue) \in Seq(Msg)
  BY <1>1
<1>3. Leaving(Tail(queue), atl)
  BY <1>1 DEF Leaving
<1>4. Head(queue).msg = "releaseATL" => atl[Head(queue).handle] \in {"closing", "closed", "failed"}
  <2>1. 1 \in DOMAIN queue /\ Head(queue) = queue[1]
    BY <1>1
  <2>. QED  BY <1>1, <2>1 DEF Leaving
<1>5. /\ Head(queue).msg = "releaseATL" => Head(queue).handle \in Handles
      /\ Head(queue).msg = "requestATL" =>
           Head(queue).handle \in Handles /\ Head(queue).agps \in {"SUPL", "WWAN_ANY", "SUPL_ES"}
      /\ Head(queue).msg \in Reports => Head(queue).sm \in Machines
  BY <1>2 DEF Msg, Reports
<1>. QED  BY <1>2, <1>3, <1>4, <1>5

(* The invariant holds before initAgps.                                    *)
LEMMA InitInv == Init => AgpsInv
<1>. SUFFICES ASSUME Init PROVE AgpsInv
  OBVIOUS
<1>1. TypeOK
  BY ConfAssumption DEF Init, TypeOK, AgpsState, LinkState, AtlState
<1>2. HeldForSomeone /\ ReleasingForSomeone
  BY DEF Init, HeldForSomeone, ReleasingForSomeone
<1>3. \A sm \in Machines : Subscribers(sm) = {}
  <2>1. \A sm \in Machines : mSubscriberList[sm] = <<>>  BY DEF Init
  <2>. QED  BY <2>1 DEF Subscribers, Range
<1>4. PlainReleasedEmpty
  BY <1>3 DEF PlainReleasedEmpty, Machines
<1>5. InactiveIsLeaving
  BY DEF Init, InactiveIsLeaving
<1>6. OpenIsBacked
  BY DEF Init, OpenIsBacked
<1>. QED  BY <1>1, <1>2, <1>4, <1>5, <1>6 DEF AgpsInv

(* A step that leaves the machines alone: the modem, the framework and the *)
(* timer only post messages.                                               *)
LEMMA EnvironmentInv ==
  ASSUME AgpsInv, TypeOK', UNCHANGED <<mState, subVars>>,
         Leaving(queue', atl'),
         \A h \in Handles : atl[h] \in {"closing", "closed", "failed"} => atl'[h] \in {"closing", "closed", "failed"},
         \A h \in Handles : atl'[h] = "open" => atl[h] = "open"
  PROVE  AgpsInv'
<1>1. HeldForSomeone' /\ ReleasingForSomeone' /\ PlainReleasedEmpty'
  BY DEF AgpsInv, HeldForSomeone, ReleasingForSomeone, PlainReleasedEmpty, Active, Subscribers, subVars
<1>2. InactiveIsLeaving'
  BY DEF AgpsInv, InactiveIsLeaving, Leaving, subVars, TypeOK
<1>3. OpenIsBacked'
  BY DEF AgpsInv, OpenIsBacked, Active, Subscribers, subVars
<1>. QED  BY <1>1, <1>2, <1>3 DEF AgpsInv

(* requestATL keeps the invariant, with or without a machine.              *)
LEMMA RequestATLInv == AgpsInv /\ requestATL => AgpsInv'
<1>. SUFFICES ASSUME AgpsInv, requestATL PROVE AgpsInv'
  OBVIOUS
<1>. DEFINE h  == Head(queue).handle
            t  == Head(queue).agps
            sm == MachineFor(t)
<1>0. TypeOK /\ nifs \subseteq Machines
  BY DEF AgpsInv, TypeOK
<1>1. queue # <<>> /\ Head(queue).msg = "requestATL"
  BY DEF requestATL, Received
<1>2. Tail(queue) \in Seq(Msg) /\ Leaving(Tail(queue), atl) /\ h \in Handles
  BY <1>1, HeadFacts
<1>3. sm \in Machines
  BY DEF MachineFor, Machines, PlainMachines
<1>4. nifs' \subseteq Machines
  BY <1>0 DEF requestATL, createAgpsStateMachines, Machines
<1>5. CASE sm \in nifs'
  <2>1. processAgpsEventSubscribe(sm, h, t = "SUPL_ES", Tail(queue))
    BY <1>5 DEF requestATL
  <2>2. (t = "SUPL_ES") \in BOOLEAN
    OBVIOUS
  <2>. HIDE DEF h, t, sm
  <2>. QED  BY <1>2, <1>3, <1>4, <2>1, <2>2, SubscribeInv
<1>6. CASE sm \notin nifs'
  <2>1. /\ atl' = AtlOpenStatus({h}, FALSE) /\ queue' = Tail(queue)
        /\ UNCHANGED <<mState, subVars, retryVars, cmds, link>>
    BY <1>6 DEF requestATL
  <2>2. /\ atl' \in [Handles -> AtlState]
        /\ \A x \in Handles : atl[x] \in {"closing", "closed", "failed"} => atl'[x] \in {"closing", "closed", "failed"}
        /\ \A x \in Handles : atl'[x] = "open" => atl[x] = "open"
        /\ Leaving(Tail(queue), atl')
    BY <1>0, <1>2, <2>1, OpenFacts
  <2>3. TypeOK'
    BY <1>0, <1>2, <1>4, <2>1, <2>2 DEF TypeOK, subVars, retryVars
  <2>. QED  BY <2>1, <2>2, <2>3, EnvironmentInv
<1>. QED  BY <1>5, <1>6

(* releaseATL keeps the invariant, known handle or not.                    *)
LEMMA ReleaseATLInv == AgpsInv /\ releaseATL => AgpsInv'
<1>. SUFFICES ASSUME AgpsInv, releaseATL PROVE AgpsInv'
  OBVIOUS
<1>. DEFINE h == Head(queue).handle
<1>0. TypeOK /\ nifs' = nifs
  BY DEF AgpsInv, releaseATL
<1>1. queue # <<>> /\ Head(queue).msg = "releaseATL"
  BY DEF releaseATL, Received
<1>2. /\ Tail(queue) \in Seq(Msg) /\ Leaving(Tail(queue), atl) /\ h \in Handles
      /\ atl[h] \in {"closing", "closed", "failed"}
  BY <1>1, HeadFacts
<1>3. CASE MachineOf(h) = "none"
  <2>1. /\ atl' = AtlCloseStatus({h}) /\ queue' = Tail(queue)
        /\ UNCHANGED <<mState, subVars, retryVars, cmds, link>>
    BY <1>3 DEF releaseATL
  <2>2. /\ atl' \in [Handles -> AtlState]
        /\ \A x \in Handles : atl[x] \in {"closing", "closed", "failed"} => atl'[x] \in {"closing", "closed", "failed"}
        /\ \A x \in Handles : atl'[x] = "open" => atl[x] = "open"
        /\ Leaving(Tail(queue), atl')
    BY <1>0, <1>2, <2>1, CloseFacts
  <2>3. TypeOK'
    BY <1>0, <1>2, <2>1, <2>2 DEF TypeOK, subVars, retryVars
  <2>. QED  BY <2>1, <2>2, <2>3, EnvironmentInv
<1>4. CASE MachineOf(h) # "none"
  <2>1. processAgpsEventUnsubscribe(MachineOf(h), h, Tail(queue))
    BY <1>4 DEF releaseATL
  <2>2. MachineOf(h) \in Machines /\ h \in Subscribers(MachineOf(h))
    BY <1>4 DEF MachineOf, Machines, PlainMachines
  <2>. HIDE DEF h
  <2>. QED  BY <1>0, <1>2, <2>1, <2>2, UnsubscribeInv
<1>. QED  BY <1>3, <1>4

(* The reports of the data connection keep the invariant.                  *)
LEMMA ReportInv == AgpsInv /\ (reportOpened \/ reportFailed \/ reportClosed) => AgpsInv'
<1>. SUFFICES ASSUME AgpsInv, reportOpened \/ reportFailed \/ reportClosed PROVE AgpsInv'
  OBVIOUS
<1>. DEFINE sm == Head(queue).sm
<1>1. queue # <<>> /\ Head(queue).msg \in Reports /\ UNCHANGED nifs
  BY DEF reportOpened, reportFailed, reportClosed, Received, Reports
<1>2. Tail(queue) \in Seq(Msg) /\ Leaving(Tail(queue), atl) /\ sm \in Machines
  BY <1>1, HeadFacts
<1>3. \/ processAgpsEventGranted(sm, Tail(queue))
      \/ processAgpsEventDenied(sm, Tail(queue))
      \/ processAgpsEventReleased(sm, Tail(queue))
  BY DEF reportOpened, reportFailed, reportClosed
<1>. HIDE DEF sm
<1>. QED  BY <1>1, <1>2, <1>3, GrantedInv, DeniedInv, ReleasedInv

(* A queue that grows by a report keeps its type and its releases.         *)
LEMMA ReportPosted ==
  ASSUME NEW q \in Seq(Msg), NEW a, Leaving(q, a), NEW m \in Reports, NEW sm \in Machines
  PROVE  Append(q, ReportMsg(m, sm)) \in Seq(Msg) /\ Leaving(Append(q, ReportMsg(m, sm)), a)
<1>1. ReportMsg(m, sm) \in Msg /\ ReportMsg(m, sm).msg # "releaseATL"
  BY DEF ReportMsg, Msg, Reports
<1>2. Append(q, ReportMsg(m, sm)) \in Seq(Msg)
  BY <1>1
<1>3. ASSUME NEW i \in DOMAIN Append(q, ReportMsg(m, sm)),
             Append(q, ReportMsg(m, sm))[i].msg = "releaseATL"
      PROVE  a[Append(q, ReportMsg(m, sm))[i].handle] \in {"closing", "closed", "failed"}
  <2>1. i \in 1..(Len(q) + 1)  OBVIOUS
  <2>2. i # Len(q) + 1  BY <1>1, <1>3
  <2>3. i \in DOMAIN q /\ Append(q, ReportMsg(m, sm))[i] = q[i]  BY <2>1, <2>2
  <2>. QED  BY <1>3, <2>3 DEF Leaving
<1>. QED  BY <1>2, <1>3 DEF Leaving

(* The modem opening or closing a session keeps the invariant.             *)
LEMMA ModemInv ==
  ASSUME AgpsInv, NEW h \in Handles,
         (\E t \in ModemTypes : modemOpen(h, t)) \/ modemClose(h)
  PROVE  AgpsInv'
<1>0. TypeOK /\ queue \in Seq(Msg) /\ Leaving(queue, atl) /\ atl \in [Handles -> AtlState]
  BY DEF AgpsInv, TypeOK, InactiveIsLeaving, Leaving
<1>1. UNCHANGED <<nifs, mState, subVars, retryVars, cmds, link>>
  BY DEF modemOpen, modemClose
<1>2. ASSUME NEW t \in ModemTypes, modemOpen(h, t) PROVE AgpsInv'
  <2>1. /\ atl[h] = "idle" /\ atl' = [atl EXCEPT ![h] = "opening"]
        /\ queue' = Append(queue, RequestMsg(h, t))
    BY <1>2 DEF modemOpen
  <2>2. t \in {"SUPL", "WWAN_ANY", "SUPL_ES"}
    BY TypesAssumption
  <2>3. queue' \in Seq(Msg) /\ Leaving(queue', atl)
    BY <1>0, <2>1, <2>2, RequestPosted
  <2>4. atl' \in [Handles -> AtlState]
    BY <1>0, <2>1 DEF AtlState
  <2>5. \A x \in Handles : /\ atl[x] \in {"closing", "closed", "failed"} => atl'[x] \in {"closing", "closed", "failed"}
                           /\ atl'[x] = "open" => atl[x] = "open"
    BY <1>0, <2>1
  <2>6. Leaving(queue', atl')
    <3>. SUFFICES ASSUME NEW i \in DOMAIN queue', queue'[i].msg = "releaseATL"
                  PROVE  atl'[queue'[i].handle] \in {"closing", "closed", "failed"}
      BY DEF Leaving
    <3>1. queue'[i].handle \in Handles
      BY <2>3 DEF Msg, Reports
    <3>. QED  BY <2>3, <2>5, <3>1 DEF Leaving
  <2>7. TypeOK'
    BY <1>0, <1>1, <2>3, <2>4 DEF TypeOK, subVars, retryVars
  <2>. QED  BY <1>1, <2>5, <2>6, <2>7, EnvironmentInv
<1>3. CASE modemClose(h)
  <2>1. /\ atl[h] \in {"opening", "open"} /\ atl' = [atl EXCEPT ![h] = "closing"]
        /\ queue' = Append(queue, ReleaseMsg(h))
    BY <1>3 DEF modemClose
  <2>2. ReleaseMsg(h) \in Msg /\ ReleaseMsg(h).handle = h
    BY DEF ReleaseMsg, Msg
  <2>3. queue' \in Seq(Msg)
    BY <1>0, <2>1, <2>2
  <2>4. atl' \in [Handles -> AtlState] /\ atl'[h] = "closing"
    BY <1>0, <2>1 DEF AtlState
  <2>5. \A x \in Handles : /\ atl[x] \in {"closing", "closed", "failed"} => atl'[x] \in {"closing", "closed", "failed"}
                           /\ atl'[x] = "open" => atl[x] = "open"
    BY <1>0, <2>1
  <2>6. Leaving(queue', atl')
    <3>. SUFFICES ASSUME NEW i \in DOMAIN queue', queue'[i].msg = "releaseATL"
                  PROVE  atl'[queue'[i].handle] \in {"closing", "closed", "failed"}
      BY DEF Leaving
    <3>1. queue'[i].handle \in Handles
      BY <2>3 DEF Msg, Reports
    <3>2. CASE i = Len(queue) + 1
      <4>1. queue'[i] = ReleaseMsg(h)
        BY <1>0, <2>1, <3>2
      <4>. QED  BY <2>2, <2>4, <4>1
    <3>3. CASE i # Len(queue) + 1
      <4>1. i \in DOMAIN queue /\ queue'[i] = queue[i]
        BY <1>0, <2>1, <2>2, <3>3
      <4>. QED  BY <1>0, <2>5, <3>1, <4>1 DEF Leaving
    <3>. QED  BY <3>2, <3>3
  <2>7. TypeOK'
    BY <1>0, <1>1, <2>3, <2>4 DEF TypeOK, subVars, retryVars
  <2>. QED  BY <1>1, <2>5, <2>6, <2>7, EnvironmentInv
<1>. QED  BY <1>2, <1>3

(* Whatever the data connection does keeps the invariant.                  *)
LEMMA LinkInv ==
  ASSUME AgpsInv, NEW sm \in Machines, linkCommand(sm) \/ linkAnswer(sm) \/ linkLost(sm)
  PROVE  AgpsInv'
<1>0. /\ TypeOK /\ queue \in Seq(Msg) /\ Leaving(queue, atl) /\ link \in [Machines -> LinkState]
      /\ cmds \in [Machines -> Seq({"REQUEST", "RELEASE"})]
  BY DEF AgpsInv, TypeOK, InactiveIsLeaving, Leaving
<1>1. UNCHANGED <<nifs, mState, subVars, retryVars, atl>>
  BY DEF linkCommand, linkAnswer, linkLost
<1>2. queue' = queue \/ \E m \in Reports : queue' = Append(queue, ReportMsg(m, sm))
  BY DEF linkCommand, linkAnswer, linkLost, Post, Reports
<1>3. queue' \in Seq(Msg) /\ Leaving(queue', atl)
  BY <1>0, <1>2, ReportPosted
<1>4. link' \in [Machines -> LinkState]
  <2>1. link' = link \/ \E l \in LinkState : link' = [link EXCEPT ![sm] = l]
    BY DEF linkCommand, linkAnswer, linkLost, LinkState
  <2>. QED  BY <1>0, <2>1
<1>5. cmds' \in [Machines -> Seq({"REQUEST", "RELEASE"})]
  <2>1. cmds' = cmds \/ (cmds[sm] # <<>> /\ cmds' = [cmds EXCEPT ![sm] = Tail(cmds[sm])])
    BY DEF linkCommand, linkAnswer, linkLost
  <2>2. cmds[sm] # <<>> => Tail(cmds[sm]) \in Seq({"REQUEST", "RELEASE"})
    BY <1>0
  <2>. QED  BY <1>0, <2>1, <2>2
<1>6. TypeOK'
  BY <1>0, <1>1, <1>3, <1>4, <1>5 DEF TypeOK, subVars, retryVars
<1>7. UNCHANGED <<mState, subVars>> /\ Leaving(queue', atl')
      /\ \A h \in Handles : atl'[h] = atl[h]
  BY <1>1, <1>3
<1>. QED  BY <1>6, <1>7, EnvironmentInv

(* The retry timer keeps the invariant: it only posts a request.           *)
LEMMA TimerInv == AgpsInv /\ retryCallback => AgpsInv'
<1>. SUFFICES ASSUME AgpsInv, retryCallback PROVE AgpsInv'
  OBVIOUS
<1>0. /\ TypeOK /\ queue \in Seq(Msg) /\ Leaving(queue, atl) /\ retryTimers \in Nat
      /\ mSubscriberList["ds"] \in Seq(Handles)
  BY DEF AgpsInv, TypeOK, InactiveIsLeaving, Leaving, Machines
<1>1. /\ retryTimers > 0 /\ retryTimers' = retryTimers - 1
      /\ UNCHANGED <<nifs, mState, subVars, mRetries, cmds, link, atl>>
  BY DEF retryCallback
<1>2. \/ queue' = queue
      \/ \E h \in FirstActive(mSubscriberList["ds"], inactive["ds"]) :
           queue' = Append(queue, RequestMsg(h, "SUPL_ES"))
  BY DEF retryCallback
<1>3. queue' \in Seq(Msg) /\ Leaving(queue', atl)
  <2>1. CASE queue' = queue
    BY <1>0, <2>1
  <2>2. ASSUME NEW h \in FirstActive(mSubscriberList["ds"], inactive["ds"]),
               queue' = Append(queue, RequestMsg(h, "SUPL_ES"))
        PROVE  queue' \in Seq(Msg) /\ Leaving(queue', atl)
    <3>1. h \in Handles
      BY <1>0, FirstActiveFacts
    <3>. QED  BY <1>0, <2>2, <3>1, RequestPosted
  <2>. QED  BY <1>2, <2>1, <2>2
<1>4. retryTimers' \in Nat
  BY <1>0, <1>1
<1>5. TypeOK'
  BY <1>0, <1>1, <1>3, <1>4 DEF TypeOK, subVars
<1>. QED  BY <1>1, <1>3, <1>5, EnvironmentInv

(* Creating the machines keeps the invariant.                              *)
LEMMA InitAgpsInv == AgpsInv /\ initAgps => AgpsInv'
<1>. SUFFICES ASSUME AgpsInv, initAgps PROVE AgpsInv'
  OBVIOUS
<1>0. TypeOK /\ Leaving(queue, atl)
  BY DEF AgpsInv, InactiveIsLeaving, Leaving
<1>1. nifs' \subseteq Machines
  BY <1>0 DEF initAgps, createAgpsStateMachines, TypeOK, Machines
<1>2. UNCHANGED <<mState, subVars, retryVars, queue, cmds, link, atl>>
  BY DEF initAgps
<1>3. TypeOK'
  BY <1>0, <1>1, <1>2 DEF TypeOK, subVars, retryVars
<1>. QED  BY <1>0, <1>2, <1>3, EnvironmentInv

(* So does a step that changes nothing.                                    *)
LEMMA StutterInv == AgpsInv /\ UNCHANGED vars => AgpsInv'
<1>. SUFFICES ASSUME AgpsInv, UNCHANGED vars PROVE AgpsInv'
  OBVIOUS
<1>1. TypeOK'
  BY DEF AgpsInv, TypeOK, vars
<1>2. Leaving(queue', atl') /\ UNCHANGED <<mState, subVars, atl>>
  BY DEF AgpsInv, InactiveIsLeaving, Leaving, vars, subVars
<1>. QED  BY <1>1, <1>2, EnvironmentInv

-----------------------------------------------------------------------------
(* The theorems.                                                           *)

(* No sequence of modem requests, framework reports, DS client answers and *)
(* retries takes the machines out of the invariant.                        *)
THEOREM AgpsSafety == Spec => []AgpsInv
<1>1. AgpsInv /\ [Next]_vars => AgpsInv'
  <2>. SUFFICES ASSUME AgpsInv, [Next]_vars PROVE AgpsInv'
    OBVIOUS
  <2>1. CASE initAgps  BY <2>1, InitAgpsInv
  <2>2. CASE requestATL  BY <2>2, RequestATLInv
  <2>3. CASE releaseATL  BY <2>3, ReleaseATLInv
  <2>4. CASE reportOpened \/ reportFailed \/ reportClosed  BY <2>4, ReportInv
  <2>5. CASE retryCallback  BY <2>5, TimerInv
  <2>6. ASSUME NEW h \in Handles, modemClose(h) \/ \E t \in ModemTypes : modemOpen(h, t)
        PROVE  AgpsInv'
    BY <2>6, ModemInv
  <2>7. ASSUME NEW sm \in Machines, linkCommand(sm) \/ linkAnswer(sm) \/ linkLost(sm)
        PROVE  AgpsInv'
    BY <2>7, LinkInv
  <2>8. CASE UNCHANGED vars  BY <2>8, StutterInv
  <2>. QED  BY <2>1, <2>2, <2>3, <2>4, <2>5, <2>6, <2>7, <2>8 DEF Next
<1>. QED  BY InitInv, <1>1, PTL DEF Spec

(* Type correctness: in particular the DS client's retries stay within     *)
(* MAX_START_DATA_CALL_RETRIES.                                            *)
THEOREM TypeCorrect == Spec => []TypeOK
  BY AgpsSafety, PTL DEF AgpsInv

(* A data connection is asked for, or held, only for an active subscriber. *)
THEOREM NeverHeldForNobody == Spec => []HeldForSomeone
  BY AgpsSafety, PTL DEF AgpsInv

(* A close that is awaited has a subscriber to be reported to.             *)
THEOREM NeverReleasingForNobody == Spec => []ReleasingForSomeone
  BY AgpsSafety, PTL DEF AgpsInv

(* Neither is done for nobody: no connection is asked for, held or given   *)
(* back without a subscriber.                                              *)
THEOREM NeverForNobody == Spec => []ForSomeone
  BY NeverHeldForNobody, NeverReleasingForNobody, PTL DEF ForSomeone

(* The two plain machines keep no subscriber in the RELEASED state.        *)
THEOREM PlainReleasedIsEmpty == Spec => []PlainReleasedEmpty
  BY AgpsSafety, PTL DEF AgpsInv

(* No session is closed behind the modem's back.                           *)
THEOREM OpenSessionsAreBacked == Spec => []OpenIsBacked
  BY AgpsSafety, PTL DEF AgpsInv

(* The release makes a subscriber inactive (deleteSubscriber) only if it   *)
(* asked to wait for the close, and only for a session the modem is        *)
(* closing, has closed or was refused; so are the releases that are still  *)
(* queued.  The machine itself may be in any state.                        *)
THEOREM InactiveOnlyLeaving == Spec => []InactiveIsLeaving
  BY AgpsSafety, PTL DEF AgpsInv

-----------------------------------------------------------------------------
(* Where the DS client is not used, no request and no release is lost.     *)

(* The DS client is not used: no emergency PDN, or no emergency request.   *)
DsUnused == ~UseEmergencyPdn \/ "SUPL_ES" \notin ModemTypes

DsIdle == mState["ds"] = "RELEASED" /\ Subscribers("ds") = {} /\ retryTimers = 0

Requested(h)     == \E i \in DOMAIN queue : queue[i].msg = "requestATL" /\ queue[i].handle = h
ReleaseQueued(h) == \E i \in DOMAIN queue : queue[i] = ReleaseMsg(h)

(* A session is requested once, and its release comes behind the request.  *)
MessagesInv ==
  /\ \A i \in DOMAIN queue : queue[i].msg = "requestATL" => MachineFor(queue[i].agps) # "ds"
  /\ \A i, j \in DOMAIN queue :
       i < j /\ queue[j].msg = "requestATL" /\ queue[i].msg \in {"requestATL", "releaseATL"}
         => queue[i].handle # queue[j].handle

(* A session is in the queue, in the list of one machine, or over.         *)
HandleInv(h) ==
  /\ Requested(h) => /\ atl[h] \in {"opening", "closing"}
                     /\ \A sm \in Machines : h \notin Subscribers(sm)
  /\ \A sm \in Machines :
       h \in Subscribers(sm) => /\ atl[h] \in {"opening", "open", "closing"}
                                /\ \A m \in Machines : h \in Subscribers(m) => m = sm
  /\ atl[h] = "opening" =>
       \/ Requested(h)
       \/ \E sm \in Machines : mState[sm] \in {"PENDING", "RELEASING"} /\ h \in Active(sm)
  /\ atl[h] = "closing" => ReleaseQueued(h) \/ \E sm \in Machines : h \in Subscribers(sm)

TrackedInv == DsUnused /\ DsIdle /\ MessagesInv /\ \A h \in Handles : HandleInv(h)

LEMMA ReceiveQueue ==
  ASSUME queue \in Seq(Msg), MessagesInv, queue # <<>>, queue' = Tail(queue)
  PROVE  /\ MessagesInv'
         /\ \A h : Requested(h)' =>
              /\ Requested(h)
              /\ Head(queue).msg \in {"requestATL", "releaseATL"} => h # Head(queue).handle
         /\ \A h : Requested(h) =>
              Requested(h)' \/ (Head(queue).msg = "requestATL" /\ Head(queue).handle = h)
         /\ \A h : ReleaseQueued(h) => ReleaseQueued(h)' \/ Head(queue) = ReleaseMsg(h)
<1>1. /\ Len(queue) \in Nat \ {0} /\ Head(queue) = queue[1]
      /\ DOMAIN queue = 1 .. Len(queue) /\ DOMAIN queue' = 1 .. Len(queue) - 1
      /\ \A i \in 1 .. Len(queue) - 1 : queue'[i] = queue[i + 1]
  OBVIOUS
<1>2. \A i \in DOMAIN queue' : /\ i + 1 \in DOMAIN queue /\ queue'[i] = queue[i + 1] /\ 1 < i + 1
                               /\ \A j \in DOMAIN queue' : i < j => i + 1 < j + 1
  BY <1>1
<1>3. 1 \in DOMAIN queue /\ \A i \in DOMAIN queue : i # 1 => i - 1 \in DOMAIN queue' /\ queue'[i - 1] = queue[i]
  BY <1>1
<1>4. MessagesInv'
  BY <1>2 DEF MessagesInv
<1>5. ASSUME NEW h, Requested(h)'
      PROVE  /\ Requested(h)
             /\ Head(queue).msg \in {"requestATL", "releaseATL"} => h # Head(queue).handle
  <2>1. PICK i \in DOMAIN queue' : queue'[i].msg = "requestATL" /\ queue'[i].handle = h
    BY <1>5 DEF Requested
  <2>. QED
    BY <1>1, <1>2, <1>3, <2>1 DEF Requested, MessagesInv
<1>6. ASSUME NEW h, Requested(h)
      PROVE  Requested(h)' \/ (Head(queue).msg = "requestATL" /\ Head(queue).handle = h)
  BY <1>1, <1>3, <1>6 DEF Requested
<1>7. ASSUME NEW h, ReleaseQueued(h) PROVE ReleaseQueued(h)' \/ Head(queue) = ReleaseMsg(h)
  <2>1. PICK i \in DOMAIN queue : queue[i] = ReleaseMsg(h)
    BY <1>7 DEF ReleaseQueued
  <2>2. i # 1 => ReleaseQueued(h)'
    <3>. SUFFICES ASSUME i # 1 PROVE \E j \in DOMAIN queue' : queue'[j] = ReleaseMsg(h)
      BY DEF ReleaseQueued, ReleaseMsg
    <3>. QED
      BY <1>3, <2>1
  <2>. QED
    BY <1>1, <2>1, <2>2
<1>. QED
  BY <1>4, <1>5, <1>6, <1>7

LEMMA PostQueue ==
  ASSUME queue \in Seq(Msg), MessagesInv, NEW m \in Msg, queue' = Append(queue, m),
         m.msg = "requestATL" =>
           /\ MachineFor(m.agps) # "ds"
           /\ \A i \in DOMAIN queue :
                queue[i].msg \in {"requestATL", "releaseATL"} => queue[i].handle # m.handle
  PROVE  /\ MessagesInv'
         /\ \A h : Requested(h)' <=> Requested(h) \/ (m.msg = "requestATL" /\ m.handle = h)
         /\ \A h : ReleaseQueued(h) \/ m = ReleaseMsg(h) => ReleaseQueued(h)'
<1>1. /\ Len(queue) \in Nat
      /\ DOMAIN queue = 1 .. Len(queue) /\ DOMAIN queue' = 1 .. Len(queue) + 1
      /\ \A i \in DOMAIN queue : queue'[i] = queue[i]
      /\ queue'[Len(queue) + 1] = m
  OBVIOUS
<1>2. /\ \A i \in DOMAIN queue' : i \in DOMAIN queue \/ i = Len(queue) + 1
      /\ \A i \in DOMAIN queue : i \in DOMAIN queue' /\ ~(Len(queue) + 1 < i) /\ i # Len(queue) + 1
      /\ Len(queue) + 1 \in DOMAIN queue'
  BY <1>1
<1>3. MessagesInv'
  <2>1. \A i \in DOMAIN queue' : queue'[i].msg = "requestATL" => MachineFor(queue'[i].agps) # "ds"
    BY <1>1, <1>2 DEF MessagesInv, MachineFor
  <2>2. ASSUME NEW i \in DOMAIN queue', NEW j \in DOMAIN queue', i < j,
               queue'[j].msg = "requestATL", queue'[i].msg \in {"requestATL", "releaseATL"}
        PROVE  queue'[i].handle # queue'[j].handle
    <3>1. i \in DOMAIN queue /\ queue'[i] = queue[i]
      BY <1>1, <2>2
    <3>2. CASE j \in DOMAIN queue
      BY <1>1, <2>2, <3>1, <3>2 DEF MessagesInv
    <3>3. CASE j = Len(queue) + 1
      BY <1>1, <2>2, <3>1, <3>3
    <3>. QED
      BY <1>2, <3>2, <3>3
  <2>. QED
    BY <2>1, <2>2 DEF MessagesInv, MachineFor
<1>4. \A h : Requested(h)' <=> Requested(h) \/ (m.msg = "requestATL" /\ m.handle = h)
  BY <1>1, <1>2 DEF Requested
<1>5. ASSUME NEW h, ReleaseQueued(h) \/ m = ReleaseMsg(h) PROVE ReleaseQueued(h)'
  <2>1. \E j \in DOMAIN queue' : queue'[j] = ReleaseMsg(h)
    BY <1>1, <1>2, <1>5 DEF ReleaseQueued
  <2>. QED
    BY <2>1 DEF ReleaseQueued, ReleaseMsg
<1>. QED
  BY <1>3, <1>4, <1>5

(* What a step on machine sm can do to a session h: nothing, ...           *)
LEMMA HandleUnmoved ==
  ASSUME NEW sm \in Machines, NEW h \in Handles, HandleInv(h), OtherLists(sm),
         \A m \in Machines \ {sm} : mState'[m] = mState[m],
         atl'[h] = atl[h], Requested(h)' <=> Requested(h),
         ReleaseQueued(h) => ReleaseQueued(h)',
         h \in Subscribers(sm)' <=> h \in Subscribers(sm),
         h \in Active(sm) /\ mState[sm] \in {"PENDING", "RELEASING"} =>
           h \in Active(sm)' /\ mState'[sm] \in {"PENDING", "RELEASING"}
  PROVE  HandleInv(h)'
<1>1. \A m \in Machines \ {sm} : Subscribers(m)' = Subscribers(m) /\ Active(m)' = Active(m)
  BY DEF OtherLists, Subscribers, Active
<1>2. \A m \in Machines : h \in Subscribers(m)' <=> h \in Subscribers(m)
  BY <1>1
<1>3. \A m \in Machines :
        h \in Active(m) /\ mState[m] \in {"PENDING", "RELEASING"} =>
          h \in Active(m)' /\ mState'[m] \in {"PENDING", "RELEASING"}
  BY <1>1
<1>. QED
  BY <1>2, <1>3 DEF HandleInv

(* ... have it in the list of sm, ...                                      *)
LEMMA HandleListed ==
  ASSUME NEW sm \in Machines, NEW h \in Handles, ~Requested(h)', h \in Subscribers(sm)',
         \A m \in Machines : h \in Subscribers(m)' => m = sm,
         \/ atl'[h] \in {"open", "closing"}
         \/ /\ atl'[h] = "opening"
            /\ h \in Active(sm)' /\ mState'[sm] \in {"PENDING", "RELEASING"}
  PROVE  HandleInv(h)'
  BY DEF HandleInv

(* ... or end it.                                                          *)
LEMMA HandleOver ==
  ASSUME NEW h \in Handles, ~Requested(h)', atl'[h] \in {"closed", "failed"},
         \A m \in Machines : h \notin Subscribers(m)'
  PROVE  HandleInv(h)'
  BY DEF HandleInv

(* In the list of one machine, a session is in no other, nor in the queue. *)
LEMMA ListedFacts ==
  ASSUME AgpsInv, TrackedInv, NEW sm \in Machines, NEW h \in Subscribers(sm)
  PROVE  /\ h \in Handles /\ ~Requested(h) /\ atl[h] \in {"opening", "open", "closing"}
         /\ \A m \in Machines : h \in Subscribers(m) => m = sm
         /\ atl[h] = "opening" => h \in Active(sm) /\ mState[sm] \in {"PENDING", "RELEASING"}
         /\ atl[h] = "open" => h \in Active(sm) /\ mState[sm] = "ACQUIRED"
<1>1. h \in Handles
  BY RangeHandles DEF AgpsInv, TypeOK, Subscribers
<1>2. HandleInv(h)
  BY <1>1 DEF TrackedInv
<1>3. ~Requested(h) /\ atl[h] \in {"opening", "open", "closing"} /\ \A m \in Machines : h \in Subscribers(m) => m = sm
  BY <1>2 DEF HandleInv
<1>4. \A m \in Machines : h \in Active(m) => m = sm
  BY <1>3 DEF Active
<1>5. atl[h] = "opening" => h \in Active(sm) /\ mState[sm] \in {"PENDING", "RELEASING"}
  BY <1>2, <1>3, <1>4 DEF HandleInv
<1>6. atl[h] = "open" => h \in Active(sm) /\ mState[sm] = "ACQUIRED"
  BY <1>1, <1>4 DEF AgpsInv, OpenIsBacked
<1>. QED
  BY <1>1, <1>3, <1>5, <1>6

(* A step on a plain machine that receives a message.                      *)
LEMMA PlainStep ==
  ASSUME TrackedInv, NEW sm \in PlainMachines, OtherLists(sm), retryTimers' = retryTimers,
         \A m \in Machines \ {sm} : mState'[m] = mState[m],
         MessagesInv', \A h \in Handles : HandleInv(h)'
  PROVE  TrackedInv'
<1>1. "ds" \in Machines \ {sm}
  BY DEF PlainMachines, Machines
<1>2. DsIdle'
  BY <1>1 DEF TrackedInv, DsIdle, OtherLists, Subscribers
<1>. QED
  BY <1>2 DEF TrackedInv, DsUnused

(* A step that leaves the machines and the sessions alone.                 *)
LEMMA QuietStep ==
  ASSUME TrackedInv, UNCHANGED <<mState, subVars, retryTimers>>, MessagesInv',
         \A h \in Handles : \/ HandleInv(h)'
                            \/ /\ atl'[h] = atl[h] /\ (Requested(h)' <=> Requested(h))
                               /\ ReleaseQueued(h) => ReleaseQueued(h)'
  PROVE  TrackedInv'
<1>1. \A m \in Machines : Subscribers(m)' = Subscribers(m) /\ Active(m)' = Active(m)
  BY DEF subVars, Subscribers, Active
<1>2. DsIdle'
  BY DEF TrackedInv, DsIdle, subVars, Subscribers
<1>3. ASSUME NEW h \in Handles PROVE HandleInv(h)'
  BY <1>1 DEF TrackedInv, HandleInv
<1>. QED
  BY <1>2, <1>3 DEF TrackedInv, DsUnused

(* A step that moves no machine, list, message or answer.                  *)
LEMMA StillStep ==
  ASSUME TrackedInv, UNCHANGED <<mState, subVars, retryTimers, queue, atl>>
  PROVE  TrackedInv'
<1>1. MessagesInv'
  BY DEF TrackedInv, MessagesInv, MachineFor
<1>2. \A h : Requested(h)' <=> Requested(h)
  BY DEF Requested
<1>3. ASSUME NEW h PROVE ReleaseQueued(h) => ReleaseQueued(h)'
  BY DEF ReleaseQueued, ReleaseMsg
<1>. QED
  BY <1>1, <1>2, <1>3, QuietStep

(* Who is told: the sessions of H.                                         *)
LEMMA ToldFacts ==
  ASSUME NEW h \in Handles, NEW H
  PROVE  /\ AtlOpenStatus(H, TRUE)[h] = IF h \in H /\ atl[h] = "opening" THEN "open" ELSE atl[h]
         /\ AtlOpenStatus(H, FALSE)[h] = IF h \in H /\ atl[h] = "opening" THEN "closed"
                                         ELSE IF h \in H /\ atl[h] = "closing" THEN "failed" ELSE atl[h]
         /\ AtlCloseStatus(H)[h] = IF h \in H THEN "closed" ELSE atl[h]
  BY DEF AtlOpenStatus, AtlCloseStatus

(* What the machine's handlers are given: the message h0's is the only one *)
(* that leaves the queue.                                                  *)
LEMMA QueueFacts ==
  ASSUME AgpsInv, TrackedInv, queue # <<>>, queue' = Tail(queue)
  PROVE  /\ MessagesInv'
         /\ \A h : Requested(h)' => Requested(h)
         /\ \A h : Head(queue).msg \in {"requestATL", "releaseATL"} /\ h = Head(queue).handle
                   => ~Requested(h)'
         /\ \A h : Head(queue).msg \notin {"requestATL", "releaseATL"} \/ h # Head(queue).handle
                   => (Requested(h)' <=> Requested(h)) /\ (ReleaseQueued(h) => ReleaseQueued(h)')
<1>1. queue \in Seq(Msg) /\ MessagesInv
  BY DEF AgpsInv, TypeOK, TrackedInv
<1>2. /\ MessagesInv'
      /\ \A h : Requested(h)' =>
           /\ Requested(h)
           /\ Head(queue).msg \in {"requestATL", "releaseATL"} => h # Head(queue).handle
      /\ \A h : Requested(h) =>
           Requested(h)' \/ (Head(queue).msg = "requestATL" /\ Head(queue).handle = h)
      /\ \A h : ReleaseQueued(h) => ReleaseQueued(h)' \/ Head(queue) = ReleaseMsg(h)
  BY <1>1, ReceiveQueue
<1>3. \A h : Head(queue) = ReleaseMsg(h) => Head(queue).msg = "releaseATL" /\ Head(queue).handle = h
  BY DEF ReleaseMsg
<1>. QED
  BY <1>2, <1>3

(* An event the machine ignores.                                           *)
LEMMA IgnoredTracked ==
  ASSUME AgpsInv, TrackedInv, queue # <<>>, queue' = Tail(queue), Head(queue).msg \in Reports,
         UNCHANGED <<mState, subVars, retryTimers, atl>>
  PROVE  TrackedInv'
<1>1. Head(queue).msg \notin {"requestATL", "releaseATL"}
  BY DEF Reports
<1>. QED
  BY <1>1, QueueFacts, QuietStep

(* A request that is answered or subscribes.                               *)
LEMMA RequestTracked ==
  ASSUME AgpsInv, TrackedInv, requestATL
  PROVE  TrackedInv'
<1>1. queue # <<>> /\ Head(queue).msg = "requestATL"
  BY DEF requestATL, Received
<1>2. PICK h0 \in Handles : h0 = Head(queue).handle
  BY <1>1, HeadFacts
<1>9. PICK sm \in Machines : sm = MachineFor(Head(queue).agps)
  BY DEF MachineFor, Machines, PlainMachines
<1>10. PICK w \in BOOLEAN : w = (Head(queue).agps = "SUPL_ES")
  OBVIOUS
<1>3. 1 \in DOMAIN queue /\ queue[1] = Head(queue)
  BY <1>1 DEF AgpsInv, TypeOK
<1>4. Requested(h0) /\ HandleInv(h0) /\ sm # "ds"
  BY <1>1, <1>2, <1>3, <1>9 DEF Requested, TrackedInv, MessagesInv
<1>5. sm \in PlainMachines
  BY <1>4 DEF PlainMachines, Machines
<1>6. atl[h0] \in {"opening", "closing"} /\ \A m \in Machines : h0 \notin Subscribers(m)
  BY <1>4 DEF HandleInv
<1>7. CASE sm \notin nifs'
  <2>1. /\ atl' = AtlOpenStatus({h0}, FALSE) /\ queue' = Tail(queue)
        /\ UNCHANGED <<mState, subVars, retryVars>>
    BY <1>2, <1>7, <1>9 DEF requestATL
  <2>2. /\ MessagesInv' /\ ~Requested(h0)'
        /\ \A h : h # h0 => (Requested(h)' <=> Requested(h)) /\ (ReleaseQueued(h) => ReleaseQueued(h)')
    BY <1>1, <1>2, <2>1, QueueFacts
  <2>3. HandleInv(h0)'
    <3>1. \A m \in Machines : Subscribers(m)' = Subscribers(m)
      BY <2>1 DEF subVars, Subscribers
    <3>2. atl'[h0] \in {"closed", "failed"}
      BY <1>2, <1>6, <2>1, ToldFacts
    <3>. QED
      BY <1>2, <1>6, <2>2, <3>1, <3>2, HandleOver
  <2>4. \A h \in Handles : h # h0 => atl'[h] = atl[h]
    BY <2>1, ToldFacts
  <2>. QED
    BY <2>1, <2>2, <2>3, <2>4, QuietStep DEF retryVars
<1>8. CASE sm \in nifs'
  <2>1. processAgpsEventSubscribe(sm, h0, w, Tail(queue))
    BY <1>2, <1>8, <1>9, <1>10 DEF requestATL
  <2>2. SubTypes /\ mState \in [Machines -> AgpsState]
    BY DEF AgpsInv, TypeOK, SubTypes
  <2>3. addSubscriber(sm, h0, w)
    BY <2>1 DEF processAgpsEventSubscribe
  <2>4. /\ OtherLists(sm)
        /\ Subscribers(sm)' = Subscribers(sm) \cup {h0}
        /\ Subscribers(sm) \cap inactive'[sm] = Subscribers(sm) \cap inactive[sm]
        /\ h0 \notin inactive'[sm]
    BY <1>6, <2>2, <2>3, AddFacts
  <2>5. /\ queue' = Tail(queue) /\ retryTimers' = retryTimers
        /\ \/ /\ mState[sm] = "RELEASED" /\ atl' = atl
              /\ mState' = [mState EXCEPT ![sm] = "PENDING"]
           \/ mState[sm] \in {"PENDING", "RELEASING"} /\ atl' = atl /\ mState' = mState
           \/ mState[sm] = "ACQUIRED" /\ mState' = mState /\ atl' = AtlOpenStatus({h0}, TRUE)
    BY <1>4, <2>1 DEF processAgpsEventSubscribe, RequestDataConn, transitionState, retryVars
  <2>6. /\ MessagesInv' /\ ~Requested(h0)'
        /\ \A h : h # h0 => (Requested(h)' <=> Requested(h)) /\ (ReleaseQueued(h) => ReleaseQueued(h)')
    BY <1>1, <1>2, <2>5, QueueFacts
  <2>7. /\ \A m \in Machines \ {sm} : mState'[m] = mState[m]
        /\ mState[sm] \in {"PENDING", "RELEASING"} => mState'[sm] = mState[sm]
        /\ mState[sm] = "RELEASED" => mState'[sm] = "PENDING"
    BY <1>5, <2>2, <2>5
  <2>8. HandleInv(h0)'
    <3>1. h0 \in Subscribers(sm)' /\ h0 \in Active(sm)'
      BY <2>4 DEF Active
    <3>2. \A m \in Machines : h0 \in Subscribers(m)' => m = sm
      BY <1>6, <2>4 DEF OtherLists, Subscribers
    <3>3. atl'[h0] \in {"open", "closing"} \/ (atl'[h0] = "opening" /\ mState'[sm] \in {"PENDING", "RELEASING"})
      <4>1. AtlOpenStatus({h0}, TRUE)[h0] \in {"open", "closing"}
        BY <1>2, <1>6, ToldFacts
      <4>. QED
        BY <1>6, <2>5, <2>7, <4>1
    <3>. QED
      BY <1>2, <1>5, <2>6, <3>1, <3>2, <3>3, HandleListed
  <2>9. ASSUME NEW h \in Handles, h # h0 PROVE HandleInv(h)'
    <3>1. atl'[h] = atl[h]
      <4>1. AtlOpenStatus({h0}, TRUE)[h] = atl[h]
        BY <2>9, ToldFacts
      <4>. QED
        BY <2>5, <4>1
    <3>2. h \in Subscribers(sm)' <=> h \in Subscribers(sm)
      BY <2>4, <2>9
    <3>3. h \in Active(sm) => h \in Active(sm)'
      BY <2>4 DEF Active
    <3>. QED
      BY <1>5, <2>4, <2>6, <2>7, <2>9, <3>1, <3>2, <3>3, HandleUnmoved DEF TrackedInv
  <2>. QED
    BY <1>5, <2>4, <2>5, <2>6, <2>7, <2>8, <2>9, PlainStep
<1>. QED
  BY <1>7, <1>8

(* A release that is confirmed, or whose subscriber waits for the close.   *)
LEMMA ReleaseTracked ==
  ASSUME AgpsInv, TrackedInv, releaseATL
  PROVE  TrackedInv'
<1>1. queue # <<>> /\ Head(queue).msg = "releaseATL"
  BY DEF releaseATL, Received
<1>2. PICK h0 \in Handles : h0 = Head(queue).handle /\ atl[h0] \in {"closing", "closed", "failed"}
  BY <1>1, HeadFacts
<1>3. queue' = Tail(queue) /\ UNCHANGED retryTimers
  BY DEF releaseATL, processAgpsEventUnsubscribe, retryVars
<1>4. /\ MessagesInv' /\ ~Requested(h0)'
      /\ \A h : h # h0 => (Requested(h)' <=> Requested(h)) /\ (ReleaseQueued(h) => ReleaseQueued(h)')
  BY <1>1, <1>2, <1>3, QueueFacts
<1>5. CASE MachineOf(h0) = "none"
  <2>1. /\ atl' = AtlCloseStatus({h0}) /\ UNCHANGED <<mState, subVars>>
    BY <1>2, <1>5 DEF releaseATL
  <2>2. \A m \in Machines : h0 \notin Subscribers(m)
    BY <1>5 DEF MachineOf, Machines, PlainMachines
  <2>3. HandleInv(h0)'
    <3>1. \A m \in Machines : Subscribers(m)' = Subscribers(m)
      BY <2>1 DEF subVars, Subscribers
    <3>2. atl'[h0] \in {"closed", "failed"}
      BY <1>2, <2>1, ToldFacts
    <3>. QED
      BY <1>2, <1>4, <2>2, <3>1, <3>2, HandleOver
  <2>4. \A h \in Handles : h # h0 => atl'[h] = atl[h]
    BY <2>1, ToldFacts
  <2>. QED
    BY <1>3, <1>4, <2>1, <2>3, <2>4, QuietStep
<1>6. CASE MachineOf(h0) # "none"
  <2>1. PICK sm \in Machines : sm = MachineOf(h0) /\ h0 \in Subscribers(sm)
    BY <1>6 DEF MachineOf, Machines, PlainMachines
  <2>2. processAgpsEventUnsubscribe(sm, h0, Tail(queue))
    BY <1>2, <1>6, <2>1 DEF releaseATL
  <2>3. sm \in PlainMachines
    BY <2>1 DEF TrackedInv, DsIdle, Machines, PlainMachines
  <2>4. mState[sm] \in {"PENDING", "ACQUIRED", "RELEASING"}
    BY <2>1, <2>3 DEF AgpsInv, TypeOK, PlainReleasedEmpty, AgpsState
  <2>5. SubTypes /\ mState \in [Machines -> AgpsState]
    BY DEF AgpsInv, TypeOK, SubTypes
  <2>6. leaveList(sm, h0)
    BY <2>2, <2>4 DEF processAgpsEventUnsubscribe
  <2>7. /\ OtherLists(sm) /\ Active(sm) \ {h0} \subseteq Active(sm)'
        /\ \/ Subscribers(sm)' = Subscribers(sm) /\ atl' = atl
           \/ Subscribers(sm)' = Subscribers(sm) \ {h0} /\ atl' = AtlCloseStatus({h0})
    <3>1. CASE h0 \in waits[sm]
      <4>1. /\ inactive' = [inactive EXCEPT ![sm] = inactive[sm] \cup {h0}]
            /\ UNCHANGED <<mSubscriberList, waits, atl>>
        BY <2>6, <3>1 DEF leaveList
      <4>. QED
        BY <2>1, <2>5, <4>1 DEF SubTypes, OtherLists, Active, Subscribers
    <3>2. CASE h0 \notin waits[sm]
      <4>1. keepSubscribers(sm, Subscribers(sm) \ {h0}) /\ atl' = AtlCloseStatus({h0})
        BY <2>6, <3>2 DEF leaveList
      <4>2. /\ OtherLists(sm) /\ Subscribers(sm)' = Subscribers(sm) \ {h0}
            /\ inactive'[sm] = inactive[sm] \cap (Subscribers(sm) \ {h0})
        BY <2>1, <2>5, <4>1, KeepFacts
      <4>. QED
        BY <4>1, <4>2 DEF Active
    <3>. QED
      BY <3>1, <3>2
  <2>8. /\ \A m \in Machines \ {sm} : mState'[m] = mState[m]
        /\ mState[sm] \in {"PENDING", "RELEASING"} /\ Active(sm)' # {}
           => mState'[sm] \in {"PENDING", "RELEASING"}
    <3>1. Active(sm)' # {} => mSubscriberList'[sm] # <<>>
      BY DEF Active, Subscribers, Range
    <3>2. \/ mState' = mState
          \/ mState' = [mState EXCEPT ![sm] = "RELEASING"]
          \/ mState' = [mState EXCEPT ![sm] = "RELEASED"] /\ mSubscriberList'[sm] = <<>>
      BY <2>2, <2>4 DEF processAgpsEventUnsubscribe, transitionState
    <3>. QED
      BY <2>1, <2>5, <3>1, <3>2
  <2>9. HandleInv(h0)'
    <3>1. atl[h0] = "closing" /\ \A m \in Machines : h0 \in Subscribers(m) => m = sm
      BY <1>2, <2>1, ListedFacts
    <3>2. \A m \in Machines : h0 \in Subscribers(m)' => m = sm
      BY <2>7, <3>1 DEF OtherLists, Subscribers
    <3>3. CASE Subscribers(sm)' = Subscribers(sm) /\ atl' = atl
      BY <1>2, <1>4, <2>1, <3>1, <3>2, <3>3, HandleListed
    <3>4. CASE Subscribers(sm)' = Subscribers(sm) \ {h0} /\ atl' = AtlCloseStatus({h0})
      <4>1. \A m \in Machines : h0 \notin Subscribers(m)'
        BY <3>2, <3>4
      <4>2. atl'[h0] = "closed"
        BY <1>2, <3>4, ToldFacts
      <4>. QED
        BY <1>2, <1>4, <4>1, <4>2, HandleOver
    <3>. QED
      BY <2>7, <3>3, <3>4
  <2>10. ASSUME NEW h \in Handles, h # h0 PROVE HandleInv(h)'
    <3>1. atl'[h] = atl[h]
      <4>1. AtlCloseStatus({h0})[h] = atl[h]
        BY <2>10, ToldFacts
      <4>. QED
        BY <2>7, <4>1
    <3>2. h \in Subscribers(sm)' <=> h \in Subscribers(sm)
      BY <2>7, <2>10
    <3>3. h \in Active(sm) => h \in Active(sm)'
      BY <2>7, <2>10
    <3>. QED
      BY <1>4, <2>1, <2>7, <2>8, <2>10, <3>1, <3>2, <3>3, HandleUnmoved DEF TrackedInv
  <2>. QED
    BY <1>3, <1>4, <2>3, <2>7, <2>8, <2>9, <2>10, PlainStep
<1>. QED
  BY <1>5, <1>6

(* The subscribers outside K are told and deleted; those in K stay as they *)
(* are, and if one of them waits the machine asks again for them.          *)
LEMMA KeptTracked ==
  ASSUME AgpsInv, TrackedInv, NEW sm \in PlainMachines, NEW K, K \subseteq Subscribers(sm),
         keepSubscribers(sm, K), queue # <<>>, queue' = Tail(queue), Head(queue).msg \in Reports,
         retryTimers' = retryTimers, \A m \in Machines \ {sm} : mState'[m] = mState[m],
         \A h \in Handles : h \notin Subscribers(sm) \/ h \in K => atl'[h] = atl[h],
         \A h \in Subscribers(sm) \ K : atl'[h] \in {"closed", "failed"},
         K = {} \/ (mState[sm] = "RELEASING" /\ mState'[sm] = "PENDING" /\ K = Active(sm))
  PROVE  TrackedInv'
<1>1. sm \in Machines /\ SubTypes
  BY DEF Machines, AgpsInv, TypeOK, SubTypes
<1>2. /\ OtherLists(sm) /\ Subscribers(sm)' = K
      /\ inactive'[sm] = inactive[sm] \cap K
  BY <1>1, KeepFacts
<1>3. /\ MessagesInv' /\ \A h : Requested(h)' => Requested(h)
      /\ \A h : (Requested(h)' <=> Requested(h)) /\ (ReleaseQueued(h) => ReleaseQueued(h)')
  <2>1. Head(queue).msg \notin {"requestATL", "releaseATL"}
    BY DEF Reports
  <2>. QED
    BY <2>1, QueueFacts
<1>4. ASSUME NEW h \in Handles PROVE HandleInv(h)'
  <2>1. CASE h \notin Subscribers(sm)
    <3>1. h \notin Active(sm) /\ h \notin Subscribers(sm)' /\ atl'[h] = atl[h]
      BY <1>2, <2>1 DEF Active
    <3>. QED
      BY <1>1, <1>2, <1>3, <2>1, <3>1, HandleUnmoved DEF TrackedInv
  <2>2. CASE h \in Subscribers(sm)
    <3>1. /\ ~Requested(h)' /\ atl[h] \in {"opening", "open", "closing"}
          /\ \A m \in Machines : h \in Subscribers(m) => m = sm
          /\ atl[h] = "open" => mState[sm] = "ACQUIRED"
      BY <1>1, <1>3, <2>2, ListedFacts
    <3>2. \A m \in Machines : h \in Subscribers(m)' => m = sm
      BY <1>2, <3>1 DEF OtherLists, Subscribers
    <3>3. CASE h \in K
      <4>1. atl'[h] = atl[h] /\ h \in Subscribers(sm)' /\ h \in Active(sm)'
        BY <1>2, <3>3 DEF Active
      <4>. QED
        BY <1>1, <3>1, <3>2, <3>3, <4>1, HandleListed
    <3>4. CASE h \notin K
      <4>1. atl'[h] \in {"closed", "failed"} /\ \A m \in Machines : h \notin Subscribers(m)'
        BY <1>2, <2>2, <3>2, <3>4
      <4>. QED
        BY <3>1, <4>1, HandleOver
    <3>. QED
      BY <3>3, <3>4
  <2>. QED
    BY <2>1, <2>2
<1>. QED
  BY <1>2, <1>3, <1>4, PlainStep

(* The reports of the data connection.                                     *)
LEMMA GrantedTracked ==
  ASSUME AgpsInv, TrackedInv, NEW sm \in Machines, queue # <<>>, Head(queue).msg \in Reports,
         processAgpsEventGranted(sm, Tail(queue))
  PROVE  TrackedInv'
<1>1. queue' = Tail(queue) /\ UNCHANGED <<subVars, retryTimers>>
  BY DEF processAgpsEventGranted, retryVars
<1>2. CASE mState[sm] # "PENDING"
  BY <1>1, <1>2, IgnoredTracked DEF processAgpsEventGranted
<1>3. CASE mState[sm] = "PENDING"
  <2>1. /\ mState' = [mState EXCEPT ![sm] = "ACQUIRED"]
        /\ atl' = AtlOpenStatus(Active(sm), TRUE)
    BY <1>3 DEF processAgpsEventGranted, transitionState
  <2>2. sm \in PlainMachines
    BY <1>3 DEF TrackedInv, DsIdle, Machines, PlainMachines
  <2>3. /\ OtherLists(sm) /\ \A m \in Machines : Subscribers(m)' = Subscribers(m)
    BY <1>1 DEF OtherLists, Subscribers, subVars
  <2>4. \A m \in Machines \ {sm} : mState'[m] = mState[m]
    BY <2>1 DEF AgpsInv, TypeOK
  <2>5. /\ MessagesInv'
        /\ \A h : (Requested(h)' <=> Requested(h)) /\ (ReleaseQueued(h) => ReleaseQueued(h)')
    <3>1. Head(queue).msg \notin {"requestATL", "releaseATL"}
      BY DEF Reports
    <3>. QED
      BY <1>1, <3>1, QueueFacts
  <2>6. ASSUME NEW h \in Handles PROVE HandleInv(h)'
    <3>1. CASE h \notin Subscribers(sm)
      <4>1. h \notin Active(sm)
        BY <3>1 DEF Active
      <4>2. AtlOpenStatus(Active(sm), TRUE)[h] = atl[h]
        BY <4>1, ToldFacts
      <4>. QED
        BY <2>1, <2>3, <2>4, <2>5, <4>1, <4>2, HandleUnmoved DEF TrackedInv
    <3>2. CASE h \in Subscribers(sm)
      <4>1. /\ ~Requested(h)' /\ atl[h] \in {"opening", "open", "closing"}
            /\ \A m \in Machines : h \in Subscribers(m)' => m = sm
            /\ atl[h] = "opening" => h \in Active(sm)
        BY <2>3, <2>5, <3>2, ListedFacts
      <4>2. AtlOpenStatus(Active(sm), TRUE)[h] \in {"open", "closing"}
        BY <4>1, ToldFacts
      <4>. QED
        BY <2>1, <2>3, <3>2, <4>1, <4>2, HandleListed
    <3>. QED
      BY <3>1, <3>2
  <2>. QED
    BY <1>1, <2>2, <2>3, <2>4, <2>5, <2>6, PlainStep
<1>. QED
  BY <1>2, <1>3

LEMMA ClosedTracked ==
  ASSUME AgpsInv, TrackedInv, NEW sm \in PlainMachines, mState[sm] = "RELEASING",
         queue # <<>>, Head(queue).msg \in Reports, connectionClosed(sm, Tail(queue))
  PROVE  TrackedInv'
<1>1. Active(sm) \subseteq Subscribers(sm) /\ sm # "ds"
  BY DEF Active, PlainMachines
<1>2. /\ atl' = AtlCloseStatus(Subscribers(sm) \ Active(sm))
      /\ keepSubscribers(sm, Active(sm))
      /\ queue' = Tail(queue) /\ retryTimers' = retryTimers
      /\ IF Active(sm) # {} THEN mState' = [mState EXCEPT ![sm] = "PENDING"]
                            ELSE mState' = [mState EXCEPT ![sm] = "RELEASED"]
  BY <1>1 DEF connectionClosed, RequestDataConn, transitionState, retryVars
<1>3. /\ \A m \in Machines \ {sm} : mState'[m] = mState[m]
      /\ Active(sm) # {} => mState'[sm] = "PENDING"
  BY <1>2 DEF AgpsInv, TypeOK, Machines
<1>4. Subscribers(sm) \subseteq Handles
  BY RangeHandles DEF AgpsInv, TypeOK, Subscribers, Machines
<1>5. \A h \in Handles : atl'[h] = IF h \in Subscribers(sm) \ Active(sm) THEN "closed" ELSE atl[h]
  BY <1>2, ToldFacts
<1>. QED
  BY <1>1, <1>2, <1>3, <1>4, <1>5, KeptTracked

LEMMA ReleasedTracked ==
  ASSUME AgpsInv, TrackedInv, NEW sm \in Machines, queue # <<>>, Head(queue).msg \in Reports,
         processAgpsEventReleased(sm, Tail(queue))
  PROVE  TrackedInv'
<1>1. mState[sm] \in AgpsState /\ (mState[sm] # "RELEASED" => sm \in PlainMachines)
  BY DEF AgpsInv, TypeOK, TrackedInv, DsIdle, Machines, PlainMachines
<1>2. CASE mState[sm] \in {"RELEASED", "PENDING"}
  <2>1. queue' = Tail(queue) /\ UNCHANGED <<mState, subVars, retryTimers, atl>>
    BY <1>2 DEF processAgpsEventReleased, retryVars
  <2>. QED
    BY <2>1, IgnoredTracked
<1>3. CASE mState[sm] = "RELEASING"
  <2>1. connectionClosed(sm, Tail(queue))
    BY <1>3 DEF processAgpsEventReleased
  <2>. QED
    BY <1>1, <1>3, <2>1, ClosedTracked
<1>4. CASE mState[sm] = "ACQUIRED"
  <2>1. /\ keepSubscribers(sm, {}) /\ queue' = Tail(queue) /\ retryTimers' = retryTimers
        /\ atl' = AtlCloseStatus(Subscribers(sm))
        /\ mState' = [mState EXCEPT ![sm] = "RELEASED"]
    BY <1>4 DEF processAgpsEventReleased, transitionState, retryVars
  <2>2. \A h \in Handles : atl'[h] = IF h \in Subscribers(sm) THEN "closed" ELSE atl[h]
    BY <2>1, ToldFacts
  <2>3. Subscribers(sm) \subseteq Handles /\ \A m \in Machines \ {sm} : mState'[m] = mState[m]
    BY <2>1, RangeHandles DEF AgpsInv, TypeOK, Subscribers
  <2>. QED
    BY <1>1, <1>4, <2>1, <2>2, <2>3, KeptTracked
<1>. QED
  BY <1>1, <1>2, <1>3, <1>4 DEF AgpsState

LEMMA DeniedTracked ==
  ASSUME AgpsInv, TrackedInv, NEW sm \in Machines, queue # <<>>, Head(queue).msg \in Reports,
         processAgpsEventDenied(sm, Tail(queue))
  PROVE  TrackedInv'
<1>1. mState[sm] \in AgpsState /\ (mState[sm] # "RELEASED" => sm \in PlainMachines /\ sm # "ds")
  BY DEF AgpsInv, TypeOK, TrackedInv, DsIdle, Machines, PlainMachines
<1>2. CASE mState[sm] \in {"RELEASED", "ACQUIRED"}
  <2>1. queue' = Tail(queue) /\ UNCHANGED <<mState, subVars, retryTimers, atl>>
    BY <1>2 DEF processAgpsEventDenied, retryVars
  <2>. QED
    BY <2>1, IgnoredTracked
<1>3. CASE mState[sm] = "RELEASING"
  <2>1. connectionClosed(sm, Tail(queue))
    BY <1>3 DEF processAgpsEventDenied
  <2>. QED
    BY <1>1, <1>3, <2>1, ClosedTracked
<1>4. CASE mState[sm] = "PENDING"
  <2>1. /\ keepSubscribers(sm, {}) /\ queue' = Tail(queue) /\ retryTimers' = retryTimers
        /\ atl' = AtlOpenStatus(Subscribers(sm), FALSE)
        /\ mState' = [mState EXCEPT ![sm] = "RELEASED"]
    BY <1>1, <1>4 DEF processAgpsEventDenied, transitionState
  <2>2. \A h \in Subscribers(sm) : h \in Handles /\ atl[h] \in {"opening", "closing"}
    BY <1>4, ListedFacts
  <2>3. ASSUME NEW h \in Subscribers(sm) PROVE atl'[h] \in {"closed", "failed"}
    <3>1. AtlOpenStatus(Subscribers(sm), FALSE)[h] \in {"closed", "failed"}
      BY <2>2, ToldFacts
    <3>. QED
      BY <2>1, <3>1
  <2>4. ASSUME NEW h \in Handles, h \notin Subscribers(sm) PROVE atl'[h] = atl[h]
    <3>1. AtlOpenStatus(Subscribers(sm), FALSE)[h] = atl[h]
      BY <2>4, ToldFacts
    <3>. QED
      BY <2>1, <3>1
  <2>5. \A m \in Machines \ {sm} : mState'[m] = mState[m]
    BY <2>1 DEF AgpsInv, TypeOK
  <2>6. PICK K : K = {}
    OBVIOUS
  <2>7. sm \in PlainMachines /\ K \subseteq Subscribers(sm) /\ Subscribers(sm) \ K = Subscribers(sm)
    BY <1>1, <1>4, <2>6
  <2>8. /\ keepSubscribers(sm, K) /\ queue' = Tail(queue) /\ retryTimers' = retryTimers
        /\ \A h \in Handles : h \notin Subscribers(sm) \/ h \in K => atl'[h] = atl[h]
        /\ \A h \in Subscribers(sm) \ K : atl'[h] \in {"closed", "failed"}
    BY <2>1, <2>3, <2>4, <2>6, <2>7
  <2>. QED
    BY <2>5, <2>6, <2>7, <2>8, KeptTracked
<1>. QED
  BY <1>1, <1>2, <1>3, <1>4 DEF AgpsState

(* The modem and the data connection only post messages.                   *)
LEMMA OpenTracked ==
  ASSUME AgpsInv, TrackedInv, NEW h0 \in Handles, NEW t \in ModemTypes, modemOpen(h0, t)
  PROVE  TrackedInv'
<1>1. /\ atl[h0] = "idle" /\ atl' = [atl EXCEPT ![h0] = "opening"]
      /\ queue' = Append(queue, RequestMsg(h0, t))
      /\ UNCHANGED <<mState, subVars, retryTimers>>
  BY DEF modemOpen, retryVars
<1>2. /\ RequestMsg(h0, t) \in Msg /\ RequestMsg(h0, t).msg = "requestATL"
      /\ RequestMsg(h0, t).handle = h0 /\ RequestMsg(h0, t).agps = t
  BY TypesAssumption DEF RequestMsg, Msg
<1>3. MachineFor(t) # "ds"
  BY TypesAssumption DEF TrackedInv, DsUnused, MachineFor
<1>4. ~Requested(h0) /\ \A m \in Machines : h0 \notin Subscribers(m)
  BY <1>1 DEF TrackedInv, HandleInv
<1>5. \A i \in DOMAIN queue : queue[i].msg \in {"requestATL", "releaseATL"} => queue[i].handle # h0
  BY <1>1, <1>4 DEF Requested, AgpsInv, InactiveIsLeaving
<1>6. /\ MessagesInv'
      /\ \A h : Requested(h)' <=> Requested(h) \/ h = h0
      /\ \A h : ReleaseQueued(h) => ReleaseQueued(h)'
  <2>1. queue \in Seq(Msg) /\ MessagesInv
    BY DEF AgpsInv, TypeOK, TrackedInv
  <2>. QED
    BY <1>1, <1>2, <1>3, <1>5, <2>1, PostQueue
<1>7. \A h \in Handles : atl'[h] = IF h = h0 THEN "opening" ELSE atl[h]
  BY <1>1 DEF AgpsInv, TypeOK
<1>8. HandleInv(h0)'
  <2>1. \A m \in Machines : Subscribers(m)' = Subscribers(m)
    BY <1>1 DEF subVars, Subscribers
  <2>. QED
    BY <1>4, <1>6, <1>7, <2>1 DEF HandleInv
<1>. QED
  BY <1>1, <1>6, <1>7, <1>8, QuietStep

LEMMA CloseTracked ==
  ASSUME AgpsInv, TrackedInv, NEW h0 \in Handles, modemClose(h0)
  PROVE  TrackedInv'
<1>1. /\ atl[h0] \in {"opening", "open"} /\ atl' = [atl EXCEPT ![h0] = "closing"]
      /\ queue' = Append(queue, ReleaseMsg(h0))
      /\ UNCHANGED <<mState, subVars, retryTimers>>
  BY DEF modemClose, retryVars
<1>2. ReleaseMsg(h0) \in Msg /\ ReleaseMsg(h0).msg = "releaseATL"
  BY DEF ReleaseMsg, Msg
<1>3. /\ MessagesInv'
      /\ \A h : Requested(h)' <=> Requested(h)
      /\ \A h : ReleaseQueued(h) => ReleaseQueued(h)'
      /\ ReleaseQueued(h0)'
  <2>1. queue \in Seq(Msg) /\ MessagesInv
    BY DEF AgpsInv, TypeOK, TrackedInv
  <2>. QED
    BY <1>1, <1>2, <2>1, PostQueue
<1>4. \A h \in Handles : atl'[h] = IF h = h0 THEN "closing" ELSE atl[h]
  BY <1>1 DEF AgpsInv, TypeOK
<1>5. HandleInv(h0)'
  <2>1. \A m \in Machines : Subscribers(m)' = Subscribers(m)
    BY <1>1 DEF subVars, Subscribers
  <2>2. HandleInv(h0)
    BY DEF TrackedInv
  <2>. QED
    BY <1>3, <1>4, <2>1, <2>2 DEF HandleInv
<1>. QED
  BY <1>1, <1>3, <1>4, <1>5, QuietStep

LEMMA LinkTracked ==
  ASSUME AgpsInv, TrackedInv, NEW sm \in Machines, linkCommand(sm) \/ linkAnswer(sm) \/ linkLost(sm)
  PROVE  TrackedInv'
<1>1. UNCHANGED <<mState, subVars, retryTimers, atl>>
  BY DEF linkCommand, linkAnswer, linkLost, retryVars
<1>2. queue' = queue \/ \E m \in Reports : queue' = Append(queue, ReportMsg(m, sm))
  BY DEF linkCommand, linkAnswer, linkLost, Post, Reports
<1>3. CASE queue' = queue
  BY <1>1, <1>3, StillStep
<1>4. ASSUME NEW m \in Reports, queue' = Append(queue, ReportMsg(m, sm)) PROVE TrackedInv'
  <2>1. ReportMsg(m, sm) \in Msg /\ ReportMsg(m, sm).msg # "requestATL"
    BY DEF ReportMsg, Msg, Reports
  <2>2. queue \in Seq(Msg) /\ MessagesInv
    BY DEF AgpsInv, TypeOK, TrackedInv
  <2>3. /\ MessagesInv' /\ \A h : Requested(h)' <=> Requested(h)
        /\ \A h : ReleaseQueued(h) => ReleaseQueued(h)'
    BY <1>4, <2>1, <2>2, PostQueue
  <2>. QED
    BY <1>1, <2>3, QuietStep
<1>. QED
  BY <1>2, <1>3, <1>4

LEMMA TrackedNext == AgpsInv /\ TrackedInv /\ [Next]_vars => TrackedInv'
<1>. SUFFICES ASSUME AgpsInv, TrackedInv, [Next]_vars PROVE TrackedInv'
  OBVIOUS
<1>1. CASE requestATL  BY <1>1, RequestTracked
<1>2. CASE releaseATL  BY <1>2, ReleaseTracked
<1>3. CASE reportOpened \/ reportFailed \/ reportClosed
  <2>1. queue # <<>> /\ Head(queue).msg \in Reports
    BY <1>3 DEF reportOpened, reportFailed, reportClosed, Received, Reports
  <2>2. PICK sm \in Machines : sm = Head(queue).sm
    BY <2>1, HeadFacts
  <2>3. \/ processAgpsEventGranted(sm, Tail(queue))
        \/ processAgpsEventDenied(sm, Tail(queue))
        \/ processAgpsEventReleased(sm, Tail(queue))
    BY <1>3, <2>2 DEF reportOpened, reportFailed, reportClosed
  <2>. QED  BY <2>1, <2>3, GrantedTracked, DeniedTracked, ReleasedTracked
<1>4. CASE retryCallback
  BY <1>4 DEF retryCallback, TrackedInv, DsIdle
<1>5. ASSUME NEW h \in Handles, modemClose(h) \/ \E t \in ModemTypes : modemOpen(h, t)
      PROVE  TrackedInv'
  BY <1>5, OpenTracked, CloseTracked
<1>6. ASSUME NEW sm \in Machines, linkCommand(sm) \/ linkAnswer(sm) \/ linkLost(sm)
      PROVE  TrackedInv'
  BY <1>6, LinkTracked
<1>7. CASE initAgps \/ UNCHANGED vars
  <2>1. UNCHANGED <<mState, subVars, retryTimers, queue, atl>>
    <3>1. CASE initAgps  BY <3>1 DEF initAgps, subVars, retryVars
    <3>2. CASE UNCHANGED vars  BY <3>2 DEF vars, subVars, retryVars
    <3>. QED  BY <1>7, <3>1, <3>2
  <2>. QED
    BY <2>1, StillStep
<1>. QED  BY <1>1, <1>2, <1>3, <1>4, <1>5, <1>6, <1>7 DEF Next

LEMMA TrackedInit == DsUnused /\ Init => TrackedInv
<1>. SUFFICES ASSUME DsUnused, Init PROVE TrackedInv
  OBVIOUS
<1>1. "ds" \in Machines /\ DOMAIN queue = {} /\ \A m \in Machines : Subscribers(m) = {}
  BY DEF Init, Machines, Subscribers, Range
<1>2. \A h \in Handles : HandleInv(h)
  BY <1>1 DEF Init, HandleInv, Requested
<1>. QED
  BY <1>1, <1>2 DEF TrackedInv, DsIdle, MessagesInv, Init

(* Where the DS client is not used, every ATL request of the modem is      *)
(* queued, in the list of one machine or answered, whatever the framework  *)
(* reports and however releases overtake answers; so is every release.     *)
THEOREM AnswersAlwaysTracked == DsUnused => (Spec => []AnswersTracked)
<1>1. TrackedInv => AnswersTracked
  <2>. SUFFICES ASSUME TrackedInv PROVE AnswersTracked
    OBVIOUS
  <2>1. OpeningIsTracked
    BY DEF OpeningIsTracked, TrackedInv, HandleInv, Requested
  <2>2. CloseIsTracked
    BY DEF CloseIsTracked, TrackedInv, HandleInv, ReleaseQueued
  <2>3. ClosedIsDeleted
    BY DEF ClosedIsDeleted, TrackedInv, HandleInv
  <2>. QED
    BY <2>1, <2>2, <2>3 DEF AnswersTracked
<1>. QED
  BY <1>1, AgpsSafety, TrackedInit, TrackedNext, PTL DEF Spec
=============================================================================
