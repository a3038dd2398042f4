----------------------------- MODULE GnssNiProofs ----------------------------
(***************************************************************************)
(* Network-initiated requests for any number of requests, threads and      *)
(* responses: the data of a request has one holder, a session that holds   *)
(* one is waited for, and the modem is told what the user said.            *)
(***************************************************************************)
EXTENDS GnssNi, SequenceTheorems, FiniteSetTheorems, TLAPS

-----------------------------------------------------------------------------
(* The inductive invariant.                                                *)

NiMsg == [op : {"notify"}, arg : Requests, resp : {None}]
         \cup [op : {"respond"}, arg : 0 .. MaxRequests, resp : Responses]
         \cup [op : {"inform"}, arg : Requests, resp : Responses \cup {"NO_RESPONSE"}]

Queued(m)      == \E i \in DOMAIN queue : queue[i] = m
CarriesData(m) == m.op # "respond"
InQueue(n)     == \E m \in NiMsg : Queued(m) /\ CarriesData(m) /\ m.arg = n

(* A response the user gave that session s may record. *)
Meant(s, r) == \E m \in Requests : r \in given[m] /\ (kind[m] = s \/ 0 \in shown[m])

(* What a message in the queue promises: the data it carries is nobody     *)
(* else's, a request to come is later than all that were shown, an answer  *)
(* is the user's.                                                          *)
MessageInv(m) ==
  /\ CarriesData(m) => /\ payload[m.arg] = "alive" /\ taken[m.arg] = 0
                       /\ \A s \in Sessions : rawRequest[s] # m.arg
  /\ m.op = "notify" => /\ thread[m.arg] = "none" /\ reqIDCounter < m.arg
                        /\ \A k \in Requests : shown[k] # {} => k < m.arg
                        /\ \A s \in Sessions : rawRequest[s] < m.arg
  /\ m.op = "inform" => /\ thread[m.arg] = "done"
                        /\ m.resp = "NO_RESPONSE" \/ UserSaid(m.arg, m.resp)
  /\ m.op = "respond" => \E k \in Requests : m.arg \in shown[k] /\ m.resp \in given[k]

MessagesInv == \A m \in NiMsg : Queued(m) => MessageInv(m)

(* The queue carries data once, and new requests in their order. *)
PairsInv ==
  \A i, j \in DOMAIN queue :
    i < j => /\ CarriesData(queue[i]) /\ CarriesData(queue[j]) => queue[i].arg # queue[j].arg
             /\ queue[i].op = "notify" /\ queue[j].op = "notify" => queue[i].arg < queue[j].arg

(* A session's request is of its kind, the latest of it that was shown,    *)
(* and its thread has not ended its locked part.                           *)
Spawning(s) == adapter.pc = "spawn" /\ adapter.s = s

SessionInv ==
  \A s \in Sessions :
    LET n == rawRequest[s]
    IN n # 0 =>
       /\ payload[n] = "alive" /\ kind[n] = s
       /\ Spawning(s) => thread[n] = "none"
       /\ ~Spawning(s) => thread[n] \in {"new", "waiting", "failed"}
       /\ \A k \in Requests : kind[k] = s /\ shown[k] # {} => k <= n

AdapterInv ==
  /\ adapter.pc = "idle" => adapter = Idle
  /\ adapter.pc = "spawn" =>
       /\ rawRequest[adapter.s] # 0
       /\ reqID[adapter.s] \in {0, reqIDCounter}
       /\ \A t \in Sessions : reqID[t] = reqIDCounter => t = adapter.s
  /\ adapter.pc \in {"ignore", "record"} =>
       adapter.resp \in Responses /\ Meant(adapter.s, adapter.resp)

(* A thread that waits does so for the request of its session; what it     *)
(* takes out is the data of its own request.                               *)
ThreadInv ==
  \A n \in Requests :
    /\ thread[n] \in {"new", "waiting"} => rawRequest[kind[n]] = n
    /\ thread[n] = "none" => shown[n] = {}
    /\ thread[n] = "sending" => taken[n] # 0
    /\ taken[n] # 0 => /\ taken[n] = n /\ payload[n] = "alive"
                       /\ thread[n] \in {"clearing", "sending"}
                       /\ takenResp[n] \in Responses \cup {"NO_RESPONSE"}
                       /\ takenResp[n] = "NO_RESPONSE" \/ UserSaid(n, takenResp[n])

PayloadInv ==
  \A n \in Requests :
    /\ payload[n] # "corrupt"
    /\ payload[n] = "alive" => InQueue(n) \/ rawRequest[kind[n]] = n \/ taken[n] = n
    /\ payload[n] = "unsent" => /\ thread[n] = "none" /\ informed[n] = {} /\ reqIDCounter < n
                                /\ \A m \in Requests : m > n => payload[m] = "unsent"

(* Whose response is whose: an id other than 0 belongs to the session that *)
(* has it, and a response is given to a request that was shown.            *)
IdInv ==
  /\ \A n \in Requests : /\ given[n] # {} => shown[n] # {}
                         /\ \A id \in shown[n] : id <= reqIDCounter
  /\ \A s \in Sessions : /\ reqID[s] <= reqIDCounter
                         /\ \A n \in Requests :
                              reqID[s] # 0 /\ reqID[s] \in shown[n] => kind[n] = s

AnswerInv ==
  /\ \A s \in Sessions :
       respRecvd[s] => resp[s] = "IGNORE" \/ (resp[s] \in Responses /\ Meant(s, resp[s]))
  /\ \A n \in Requests : \A r \in informed[n] : r = "NO_RESPONSE" \/ UserSaid(n, r)

NiInv == /\ TypeOK /\ queue \in Seq(NiMsg)
         /\ MessagesInv /\ PairsInv /\ SessionInv /\ AdapterInv /\ ThreadInv
         /\ PayloadInv /\ IdInv /\ AnswerInv

-----------------------------------------------------------------------------
(* Constants and messages.                                                 *)

LEMMA RequestFacts ==
  /\ MaxRequests \in Nat /\ 0 \notin Requests /\ Requests \subseteq Nat
  /\ "IGNORE" \notin Responses /\ None \notin Responses
  BY BoundsAssumption, ResponsesAssumption DEF Requests, None

LEMMA MsgFacts ==
  /\ \A n \in Requests : /\ NotifyMsg(n) \in NiMsg /\ NotifyMsg(n).op = "notify"
                         /\ NotifyMsg(n).arg = n
  /\ \A i \in 0 .. MaxRequests, r \in Responses :
       /\ RespondMsg(i, r) \in NiMsg /\ RespondMsg(i, r).op = "respond"
       /\ RespondMsg(i, r).arg = i /\ RespondMsg(i, r).resp = r
  /\ \A n \in Requests, r \in Responses \cup {"NO_RESPONSE"} :
       /\ InformMsg(n, r) \in NiMsg /\ InformMsg(n, r).op = "inform"
       /\ InformMsg(n, r).arg = n /\ InformMsg(n, r).resp = r
  /\ \A m \in NiMsg :
       \/ m.op = "notify" /\ m.arg \in Requests
       \/ m.op = "respond" /\ m.arg \in 0 .. MaxRequests /\ m.resp \in Responses
       \/ m.op = "inform" /\ m.arg \in Requests /\ m.resp \in Responses \cup {"NO_RESPONSE"}
  BY DEF NiMsg, NotifyMsg, RespondMsg, InformMsg

(* The oldest message is received: the others carry other data, and        *)
(* requests that are later.                                                *)
LEMMA PopQueue ==
  ASSUME queue \in Seq(NiMsg), PairsInv, queue # <<>>, Pop
  PROVE  /\ queue' \in Seq(NiMsg) /\ PairsInv'
         /\ Head(queue) \in NiMsg /\ Queued(Head(queue))
         /\ \A m : Queued(m)' => Queued(m)
         /\ \A m : Queued(m) => m = Head(queue) \/ Queued(m)'
         /\ \A m : Queued(m)' =>
              /\ CarriesData(Head(queue)) /\ CarriesData(m) => m.arg # Head(queue).arg
              /\ Head(queue).op = "notify" /\ m.op = "notify" => Head(queue).arg < m.arg
<1>1. /\ queue' \in Seq(NiMsg) /\ Len(queue) \in Nat \ {0}
      /\ Head(queue) \in NiMsg /\ Head(queue) = queue[1]
      /\ DOMAIN queue = 1 .. Len(queue) /\ DOMAIN queue' = 1 .. Len(queue) - 1
      /\ \A i \in 1 .. Len(queue) - 1 : queue'[i] = queue[i + 1]
  BY HeadTailProperties, LenProperties, EmptySeq DEF Pop
<1>2. \A i \in DOMAIN queue' : i + 1 \in DOMAIN queue /\ queue'[i] = queue[i + 1] /\ 1 < i + 1
  BY <1>1
<1>3. 1 \in DOMAIN queue
  BY <1>1
<1>4. PairsInv'
  <2>1. \A i, j \in DOMAIN queue' : i < j => i + 1 < j + 1
    BY <1>1
  <2>. QED
    BY <1>2, <2>1 DEF PairsInv
<1>5. ASSUME NEW i \in DOMAIN queue, queue[i] # Head(queue)
      PROVE  \E j \in DOMAIN queue' : queue'[j] = queue[i]
  <2>1. i - 1 \in DOMAIN queue' /\ queue'[i - 1] = queue[i]
    BY <1>1, <1>5
  <2>. QED
    BY <2>1
<1>6. ASSUME NEW i \in DOMAIN queue'
      PROVE  /\ CarriesData(Head(queue)) /\ CarriesData(queue'[i]) => queue'[i].arg # Head(queue).arg
             /\ Head(queue).op = "notify" /\ queue'[i].op = "notify"
                => Head(queue).arg < queue'[i].arg
  BY <1>1, <1>2, <1>3 DEF PairsInv
<1>. QED
  BY <1>1, <1>2, <1>3, <1>4, <1>5, <1>6 DEF Queued

LEMMA SendQueue ==
  ASSUME queue \in Seq(NiMsg), PairsInv, NEW m \in NiMsg, queue' = Append(queue, m),
         \A k \in NiMsg : Queued(k) =>
           /\ CarriesData(k) /\ CarriesData(m) => k.arg # m.arg
           /\ k.op = "notify" /\ m.op = "notify" => k.arg < m.arg
  PROVE  /\ queue' \in Seq(NiMsg) /\ PairsInv'
         /\ \A k : Queued(k)' <=> Queued(k) \/ k = m
<1>1. /\ queue' \in Seq(NiMsg) /\ Len(queue) \in Nat
      /\ DOMAIN queue = 1 .. Len(queue) /\ DOMAIN queue' = 1 .. Len(queue) + 1
      /\ \A i \in 1 .. Len(queue) : queue'[i] = queue[i] /\ queue[i] \in NiMsg
      /\ queue'[Len(queue) + 1] = m
  BY AppendProperties, LenProperties, ElementOfSeq
<1>2. \A k : Queued(k)' <=> Queued(k) \/ k = m
  <2>1. ASSUME NEW k, Queued(k) PROVE Queued(k)'
    BY <1>1, <2>1 DEF Queued
  <2>2. Queued(m)'
    BY <1>1 DEF Queued
  <2>3. ASSUME NEW k, Queued(k)' PROVE Queued(k) \/ k = m
    BY <1>1, <2>3 DEF Queued
  <2>. QED
    BY <2>1, <2>2, <2>3
<1>3. PairsInv'
  <2>. SUFFICES ASSUME NEW i \in DOMAIN queue', NEW j \in DOMAIN queue', i < j
       PROVE  /\ CarriesData(queue'[i]) /\ CarriesData(queue'[j]) => queue'[i].arg # queue'[j].arg
              /\ queue'[i].op = "notify" /\ queue'[j].op = "notify"
                 => queue'[i].arg < queue'[j].arg
    BY DEF PairsInv
  <2>1. i \in DOMAIN queue /\ queue'[i] = queue[i] /\ queue[i] \in NiMsg
    BY <1>1
  <2>2. CASE j = Len(queue) + 1
    BY <1>1, <2>1, <2>2 DEF Queued
  <2>3. CASE j # Len(queue) + 1
    BY <1>1, <2>1, <2>3 DEF PairsInv
  <2>. QED
    BY <2>2, <2>3
<1>. QED
  BY <1>1, <1>2, <1>3

(* What the user said stays said: requests keep their kind and their id,   *)
(* and responses are only added.                                           *)
AnswersKept ==
  \A m \in Requests :
    shown[m] # {} => shown'[m] = shown[m] /\ kind'[m] = kind[m] /\ given[m] \subseteq given'[m]

LEMMA SaidStays ==
  ASSUME IdInv, AnswersKept
  PROVE  /\ \A n \in Requests :
              kind'[n] = kind[n] => \A r : UserSaid(n, r) => UserSaid(n, r)'
         /\ \A s \in Sessions : \A r : Meant(s, r) => Meant(s, r)'
<1>1. \A m \in Requests : given[m] # {} =>
        shown'[m] = shown[m] /\ kind'[m] = kind[m] /\ given[m] \subseteq given'[m]
  BY DEF IdInv, AnswersKept
<1>2. ASSUME NEW n \in Requests, NEW r, UserSaid(n, r), kind'[n] = kind[n]
      PROVE  UserSaid(n, r)'
  BY <1>1, <1>2 DEF UserSaid
<1>3. ASSUME NEW s \in Sessions, NEW r, Meant(s, r) PROVE Meant(s, r)'
  BY <1>1, <1>3 DEF Meant
<1>. QED
  BY <1>2, <1>3


-----------------------------------------------------------------------------
(* The modem and the user.                                                 *)

LEMMA NiInit == Init => NiInv
<1>. SUFFICES ASSUME Init PROVE NiInv
  OBVIOUS
<1>1. <<>> \in Seq(NiMsg) /\ DOMAIN <<>> = {}
  BY EmptySeq, LenProperties
<1>2. TypeOK
  BY RequestFacts DEF Init, TypeOK, Idle, ThreadPc, Sessions, None
<1>3. MessagesInv /\ PairsInv
  BY <1>1 DEF Init, MessagesInv, PairsInv, Queued
<1>4. SessionInv /\ AdapterInv
  BY DEF Init, SessionInv, AdapterInv, Idle
<1>5. ThreadInv
  BY DEF Init, ThreadInv
<1>6. PayloadInv
  BY BoundsAssumption DEF Init, PayloadInv, Requests
<1>7. IdInv
  BY DEF Init, IdInv
<1>8. AnswerInv
  BY DEF Init, AnswerInv
<1>. QED
  BY <1>1, <1>2, <1>3, <1>4, <1>5, <1>6, <1>7, <1>8 DEF NiInv, Init

(* A new request is later than all others, and nobody knows it yet. *)
LEMMA NotifyEventStep ==
  ASSUME NiInv, requestNiNotifyEvent
  PROVE  NiInv'
<1>1. PICK n \in Requests : \E s \in Sessions :
        /\ payload[n] = "unsent" /\ \A m \in 1 .. n - 1 : payload[m] # "unsent"
        /\ kind' = [kind EXCEPT ![n] = s]
        /\ payload' = [payload EXCEPT ![n] = "alive"]
        /\ queue' = Append(queue, NotifyMsg(n))
        /\ UNCHANGED <<niCb, sessionVars, reqIDCounter, adapter, threadVars, userVars, informed>>
  BY DEF requestNiNotifyEvent
<1>2. PICK s \in Sessions :
        /\ payload[n] = "unsent" /\ \A m \in 1 .. n - 1 : payload[m] # "unsent"
        /\ kind' = [kind EXCEPT ![n] = s]
        /\ payload' = [payload EXCEPT ![n] = "alive"]
        /\ queue' = Append(queue, NotifyMsg(n))
        /\ UNCHANGED <<niCb, sessionVars, reqIDCounter, adapter, threadVars, userVars, informed>>
  BY <1>1
<1>3. /\ \A m \in Requests : kind'[m] = IF m = n THEN s ELSE kind[m]
      /\ \A m \in Requests : payload'[m] = IF m = n THEN "alive" ELSE payload[m]
      /\ kind' \in [Requests -> Sessions]
      /\ payload' \in [Requests -> {"unsent", "alive", "freed", "leaked", "corrupt"}]
  BY <1>2 DEF NiInv, TypeOK
<1>4. /\ thread[n] = "none" /\ shown[n] = {} /\ informed[n] = {} /\ taken[n] = 0
      /\ reqIDCounter < n
  BY <1>2 DEF NiInv, PayloadInv, ThreadInv
<1>5. \A m \in Requests : payload[m] # "unsent" => m < n
  BY <1>2, RequestFacts DEF NiInv, PayloadInv
<1>6. \A t \in Sessions : rawRequest[t] < n /\ rawRequest[t] # n
  <2>. SUFFICES ASSUME NEW t \in Sessions PROVE rawRequest[t] < n /\ rawRequest[t] # n
    OBVIOUS
  <2>1. CASE rawRequest[t] = 0
    BY <2>1, RequestFacts
  <2>2. CASE rawRequest[t] # 0
    <3>1. rawRequest[t] \in Requests /\ payload[rawRequest[t]] = "alive"
      BY <2>2 DEF NiInv, TypeOK, SessionInv
    <3>2. rawRequest[t] < n
      BY <1>5, <3>1
    <3>3. rawRequest[t] # n
      BY <1>2, <3>1
    <3>. QED
      BY <3>2, <3>3
  <2>. QED
    BY <2>1, <2>2
<1>7. \A k \in Requests : shown[k] # {} => k < n
  BY <1>5 DEF NiInv, ThreadInv, PayloadInv
<1>8. \A k \in NiMsg : Queued(k) /\ CarriesData(k) => k.arg \in Requests /\ k.arg < n
  BY <1>5, MsgFacts DEF NiInv, MessagesInv, MessageInv, CarriesData
<1>9. NotifyMsg(n) \in NiMsg /\ NotifyMsg(n).op = "notify" /\ NotifyMsg(n).arg = n
  BY MsgFacts
<1>10. /\ queue' \in Seq(NiMsg) /\ PairsInv'
       /\ \A k : Queued(k)' <=> Queued(k) \/ k = NotifyMsg(n)
  <2>1. \A k \in NiMsg : Queued(k) =>
          /\ CarriesData(k) /\ CarriesData(NotifyMsg(n)) => k.arg # NotifyMsg(n).arg
          /\ k.op = "notify" /\ NotifyMsg(n).op = "notify" => k.arg < NotifyMsg(n).arg
    BY <1>8, <1>9, RequestFacts DEF CarriesData
  <2>. QED
    BY <1>2, <1>9, <2>1, SendQueue DEF NiInv
<1>11. /\ \A m \in Requests : kind'[m] = kind[m] => \A r : UserSaid(m, r) => UserSaid(m, r)'
       /\ \A t \in Sessions : \A r : Meant(t, r) => Meant(t, r)'
  <2>1. AnswersKept
    BY <1>2, <1>3, <1>4 DEF AnswersKept, userVars
  <2>. QED
    BY <2>1, SaidStays DEF NiInv
<1>. USE <1>2 DEF sessionVars, threadVars, userVars
<1>12. TypeOK'
  BY <1>3 DEF NiInv, TypeOK
<1>13. MessagesInv'
  <2>. SUFFICES ASSUME NEW m \in NiMsg, Queued(m)' PROVE MessageInv(m)'
    BY DEF MessagesInv
  <2>1. CASE m = NotifyMsg(n)
    BY <1>3, <1>4, <1>6, <1>7, <1>9, <2>1 DEF MessageInv, CarriesData
  <2>2. CASE Queued(m)
    <3>1. MessageInv(m)
      BY <2>2 DEF NiInv, MessagesInv
    <3>2. CarriesData(m) => m.arg \in Requests /\ m.arg # n
      BY <1>8, <2>2, RequestFacts
    <3>3. m.op = "inform" => CarriesData(m)
      BY DEF CarriesData
    <3>. QED
      BY <1>3, <1>11, <3>1, <3>2, <3>3 DEF MessageInv, CarriesData
  <2>. QED
    BY <1>10, <2>1, <2>2
<1>14. SessionInv'
  BY <1>3, <1>4, <1>6, RequestFacts DEF NiInv, SessionInv, Spawning, TypeOK
<1>15. AdapterInv'
  BY <1>11 DEF NiInv, AdapterInv, TypeOK, Meant
<1>16. ThreadInv'
  BY <1>3, <1>4, <1>11 DEF NiInv, ThreadInv
<1>17. PayloadInv'
  <2>. SUFFICES ASSUME NEW m \in Requests
       PROVE  /\ payload'[m] # "corrupt"
              /\ payload'[m] = "alive" => InQueue(m)' \/ rawRequest[kind'[m]] = m \/ taken[m] = m
              /\ payload'[m] = "unsent" => /\ thread[m] = "none" /\ informed[m] = {}
                                           /\ reqIDCounter < m
                                           /\ \A k \in Requests : k > m => payload'[k] = "unsent"
    BY DEF PayloadInv
  <2>1. CASE m = n
    BY <1>3, <1>9, <1>10, <2>1 DEF InQueue, CarriesData
  <2>2. CASE m # n
    <3>1. InQueue(m) => InQueue(m)'
      BY <1>10 DEF InQueue
    <3>2. payload[m] = "unsent" => m > n
      BY <1>2, <2>2, RequestFacts DEF NiInv, PayloadInv, Requests
    <3>. QED
      BY <1>3, <2>2, <3>1, <3>2, RequestFacts DEF NiInv, PayloadInv
  <2>. QED
    BY <2>1, <2>2
<1>18. IdInv'
  BY <1>3, <1>4 DEF NiInv, IdInv
<1>19. AnswerInv'
  BY <1>3, <1>4, <1>11 DEF NiInv, AnswerInv
<1>. QED
  BY <1>10, <1>12, <1>13, <1>14, <1>15, <1>16, <1>17, <1>18, <1>19 DEF NiInv

LEMMA RespondStep ==
  ASSUME NiInv, gnssNiRespond
  PROVE  NiInv'
<1>1. PICK n \in Requests : \E r \in Responses : respondWith(n, r)
  BY DEF gnssNiRespond
<1>2. PICK r \in Responses : respondWith(n, r)
  BY <1>1
<1>3. PICK id \in shown[n] :
        /\ queue' = Append(queue, RespondMsg(id, r))
        /\ given' = [given EXCEPT ![n] = @ \cup {r}]
        /\ UNCHANGED <<niCb, sessionVars, reqIDCounter, adapter, threadVars, kind, payload, shown,
                       informed>>
  BY <1>2 DEF respondWith
<1>4. /\ id \in 0 .. MaxRequests
      /\ given' \in [Requests -> SUBSET Responses]
      /\ \A m \in Requests : given'[m] = IF m = n THEN given[n] \cup {r} ELSE given[m]
  BY <1>3 DEF NiInv, TypeOK
<1>. DEFINE msg == RespondMsg(id, r)
<1>5. msg \in NiMsg /\ msg.op = "respond" /\ msg.arg = id /\ msg.resp = r
  BY <1>4, MsgFacts
<1>6. queue' = Append(queue, msg)
  BY <1>3
<1>. HIDE DEF msg
<1>7. /\ queue' \in Seq(NiMsg) /\ PairsInv'
      /\ \A k : Queued(k)' <=> Queued(k) \/ k = msg
  BY <1>5, <1>6, SendQueue DEF NiInv, CarriesData
<1>8. /\ \A m \in Requests : kind'[m] = kind[m] => \A q : UserSaid(m, q) => UserSaid(m, q)'
      /\ \A t \in Sessions : \A q : Meant(t, q) => Meant(t, q)'
  <2>1. AnswersKept
    BY <1>3, <1>4 DEF AnswersKept
  <2>. QED
    BY <2>1, SaidStays DEF NiInv
<1>. USE <1>3 DEF sessionVars, threadVars
<1>9. TypeOK'
  BY <1>4 DEF NiInv, TypeOK
<1>10. MessagesInv'
  <2>. SUFFICES ASSUME NEW m \in NiMsg, Queued(m)' PROVE MessageInv(m)'
    BY DEF MessagesInv
  <2>1. CASE m = msg
    BY <1>4, <1>5, <2>1 DEF MessageInv, CarriesData
  <2>2. CASE Queued(m)
    <3>1. MessageInv(m) /\ (m.op = "inform" => m.arg \in Requests)
      BY <2>2, MsgFacts DEF NiInv, MessagesInv
    <3>2. m.op = "respond" => \E k \in Requests : m.arg \in shown'[k] /\ m.resp \in given'[k]
      BY <1>4, <3>1 DEF MessageInv
    <3>. QED
      BY <1>8, <3>1, <3>2 DEF MessageInv
  <2>. QED
    BY <1>7, <2>1, <2>2
<1>11. SessionInv' /\ IdInv'
  BY <1>4 DEF NiInv, SessionInv, Spawning, IdInv
<1>12. AdapterInv'
  BY <1>8 DEF NiInv, AdapterInv, TypeOK
<1>13. ThreadInv'
  BY <1>8 DEF NiInv, ThreadInv
<1>14. PayloadInv'
  <2>1. \A m \in Requests : InQueue(m) => InQueue(m)'
    BY <1>7 DEF InQueue
  <2>. QED
    BY <2>1 DEF NiInv, PayloadInv
<1>15. AnswerInv'
  BY <1>8 DEF NiInv, AnswerInv
<1>. QED
  BY <1>7, <1>9, <1>10, <1>11, <1>12, <1>13, <1>14, <1>15 DEF NiInv


-----------------------------------------------------------------------------
(* The adapter's thread.                                                   *)

(* Messages keep their promise when nothing they speak of changes. *)
LEMMA MessagesStay ==
  ASSUME NiInv, NEW m \in NiMsg, Queued(m),
         UNCHANGED <<reqIDCounter, thread, shown, kind, given>>,
         CarriesData(m) => /\ payload'[m.arg] = payload[m.arg] /\ taken'[m.arg] = taken[m.arg]
                           /\ \A s \in Sessions : rawRequest'[s] = rawRequest[s]
  PROVE  MessageInv(m)'
  BY DEF NiInv, MessagesInv, MessageInv, UserSaid, CarriesData

(* A client comes or goes, or a response is received that is for nobody or *)
(* is about to be recorded.                                                *)
LEMMA ClientsStep ==
  ASSUME NiInv, updateClients
  PROVE  NiInv'
<1>1. UNCHANGED <<queue, sessionVars, reqIDCounter, adapter, threadVars, kind, payload, userVars,
                  informed>>
  BY DEF updateClients
<1>2. niCb' \in BOOLEAN
  BY Zenon DEF updateClients
<1>3. TypeOK'
  BY <1>1, <1>2 DEF NiInv, TypeOK, sessionVars, threadVars, userVars
<1>. QED
  BY <1>1, <1>3 DEF NiInv, MessagesInv, MessageInv, PairsInv, SessionInv, Spawning, AdapterInv,
     ThreadInv, PayloadInv, IdInv, AnswerInv, Queued, InQueue, UserSaid, Meant, sessionVars,
     threadVars, userVars

LEMMA NotifyStep ==
  ASSUME NiInv, requestNiNotify
  PROVE  NiInv'
<1>. DEFINE msg == Head(queue)
            n   == msg.arg
            s   == kind[n]
<1>1. /\ adapter = Idle /\ queue # <<>> /\ msg.op = "notify" /\ Pop
      /\ UNCHANGED <<niCb, resp, respRecvd, threadVars, kind, userVars, informed>>
  BY DEF requestNiNotify
<1>2. /\ queue' \in Seq(NiMsg) /\ PairsInv' /\ msg \in NiMsg /\ Queued(msg)
      /\ \A m : Queued(m)' => Queued(m)
      /\ \A m : Queued(m) => m = msg \/ Queued(m)'
      /\ \A m : Queued(m)' =>
           /\ CarriesData(msg) /\ CarriesData(m) => m.arg # n
           /\ msg.op = "notify" /\ m.op = "notify" => n < m.arg
  BY <1>1, PopQueue DEF NiInv
<1>3. n \in Requests /\ s \in Sessions /\ CarriesData(msg)
  BY <1>1, <1>2, MsgFacts DEF NiInv, TypeOK, CarriesData
<1>4. /\ payload[n] = "alive" /\ taken[n] = 0 /\ thread[n] = "none" /\ reqIDCounter < n
      /\ \A k \in Requests : shown[k] # {} => k < n
      /\ \A t \in Sessions : rawRequest[t] # n /\ rawRequest[t] < n
  BY <1>1, <1>2, <1>3 DEF NiInv, MessagesInv, MessageInv
<1>5. \A m \in Requests : InQueue(m) /\ m # n => InQueue(m)'
  BY <1>2 DEF InQueue
<1>6. \A m \in NiMsg : Queued(m)' =>
        /\ MessageInv(m) /\ Queued(m)
        /\ CarriesData(m) => m.arg # n /\ m.arg \in Requests
        /\ m.op = "notify" => n < m.arg
  BY <1>1, <1>2, <1>3, MsgFacts DEF NiInv, MessagesInv, CarriesData
<1>. HIDE DEF msg, n, s
<1>7. CASE /\ \/ payload' = [payload EXCEPT ![n] = "leaked"]
              \/ payload' = free(payload, n)
           /\ UNCHANGED <<rawRequest, reqID, reqIDCounter, adapter>>
  <2>1. /\ payload' \in [Requests -> {"unsent", "alive", "freed", "leaked", "corrupt"}]
        /\ payload'[n] \in {"leaked", "freed"}
        /\ \A m \in Requests : m # n => payload'[m] = payload[m]
    BY <1>3, <1>4, <1>7 DEF NiInv, TypeOK, free
  <2>2. TypeOK'
    BY <1>1, <1>7, <2>1 DEF NiInv, TypeOK, threadVars, userVars
  <2>3. MessagesInv'
    BY <1>1, <1>2, <1>6, <1>7, <2>1, MessagesStay DEF MessagesInv, threadVars, userVars
  <2>4. SessionInv'
    <3>1. \A t \in Sessions : rawRequest[t] # 0 => payload'[rawRequest[t]] = payload[rawRequest[t]]
      BY <1>4, <2>1 DEF NiInv, TypeOK
    <3>. QED
      BY <1>1, <1>7, <3>1 DEF NiInv, SessionInv, Spawning, threadVars, userVars
  <2>5. AdapterInv' /\ IdInv' /\ AnswerInv'
    BY <1>1, <1>7 DEF NiInv, AdapterInv, IdInv, AnswerInv, Meant, UserSaid, threadVars, userVars
  <2>6. ThreadInv'
    BY <1>1, <1>4, <1>7, <2>1 DEF NiInv, ThreadInv, UserSaid, threadVars, userVars
  <2>7. PayloadInv'
    <3>1. \A m \in Requests : payload'[m] = "unsent" <=> payload[m] = "unsent"
      BY <1>4, <2>1
    <3>. QED
      BY <1>1, <1>5, <1>7, <2>1, <3>1 DEF NiInv, PayloadInv, threadVars, userVars
  <2>. QED
    BY <1>2, <2>2, <2>3, <2>4, <2>5, <2>6, <2>7 DEF NiInv
<1>8. CASE /\ ~Busy(s)
           /\ rawRequest' = [rawRequest EXCEPT ![s] = n]
           /\ reqIDCounter' = reqIDCounter + 1
           /\ reqID' = [reqID EXCEPT ![s] = reqIDCounter + 1]
           /\ adapter' = [pc |-> "spawn", s |-> s, resp |-> None]
           /\ UNCHANGED payload
  <2>1. /\ \A t \in Sessions : rawRequest'[t] = IF t = s THEN n ELSE rawRequest[t]
        /\ \A t \in Sessions : reqID'[t] = IF t = s THEN reqIDCounter + 1 ELSE reqID[t]
        /\ rawRequest' \in [Sessions -> {0} \cup Requests]
        /\ rawRequest[s] = 0
    BY <1>3, <1>8 DEF NiInv, TypeOK, Busy
  <2>2. reqIDCounter' \in 0 .. MaxRequests /\ reqIDCounter' <= n /\ reqIDCounter \in Nat
    BY <1>3, <1>4, <1>8, BoundsAssumption DEF NiInv, TypeOK, Requests
  <2>3. reqID' \in [Sessions -> 0 .. MaxRequests]
    BY <1>8, <2>2 DEF NiInv, TypeOK
  <2>4. /\ adapter'.pc = "spawn" /\ adapter'.s = s
        /\ adapter' \in [pc : {"idle", "spawn", "ignore", "record"}, s : Sessions,
                         resp : Responses \cup {None}]
    BY <1>3, <1>8
  <2>5. TypeOK'
    BY <1>1, <1>8, <2>1, <2>2, <2>3, <2>4 DEF NiInv, TypeOK, threadVars, userVars
  <2>6. MessagesInv'
    <3>. SUFFICES ASSUME NEW m \in NiMsg, Queued(m)' PROVE MessageInv(m)'
      BY DEF MessagesInv
    <3>1. MessageInv(m) /\ (CarriesData(m) => m.arg # n /\ m.arg \in Requests)
          /\ (m.op = "notify" => n < m.arg)
      BY <1>6
    <3>2. CarriesData(m) => \A t \in Sessions : rawRequest'[t] # m.arg
      BY <2>1, <3>1 DEF MessageInv
    <3>3. m.op = "notify" => reqIDCounter' < m.arg /\ \A t \in Sessions : rawRequest'[t] < m.arg
      <4>. SUFFICES ASSUME m.op = "notify"
           PROVE  reqIDCounter' < m.arg /\ \A t \in Sessions : rawRequest'[t] < m.arg
        OBVIOUS
      <4>1. n < m.arg /\ n \in Nat /\ m.arg \in Nat
        BY <1>3, <3>1, RequestFacts DEF CarriesData
      <4>2. \A t \in Sessions : rawRequest[t] < m.arg
        BY <3>1 DEF MessageInv
      <4>3. reqIDCounter' < m.arg
        BY <2>2, <4>1
      <4>. QED
        BY <2>1, <4>1, <4>2, <4>3
    <3>. QED
      BY <1>1, <1>8, <3>1, <3>2, <3>3 DEF MessageInv, UserSaid, threadVars, userVars
  <2>7. SessionInv'
    <3>. SUFFICES ASSUME NEW t \in Sessions, rawRequest'[t] # 0
         PROVE  /\ payload[rawRequest'[t]] = "alive" /\ kind[rawRequest'[t]] = t
                /\ Spawning(t)' => thread[rawRequest'[t]] = "none"
                /\ ~Spawning(t)' => thread[rawRequest'[t]] \in {"new", "waiting", "failed"}
                /\ \A k \in Requests : kind[k] = t /\ shown[k] # {} => k <= rawRequest'[t]
      BY <1>1, <1>8 DEF SessionInv, threadVars, userVars
    <3>1. CASE t = s
      <4>1. rawRequest'[t] = n /\ Spawning(t)'
        BY <2>1, <2>4, <3>1 DEF Spawning
      <4>2. \A k \in Requests : shown[k] # {} => k <= n
        BY <1>3, <1>4, RequestFacts
      <4>. QED
        BY <1>4, <3>1, <4>1, <4>2 DEF s
    <3>2. CASE t # s
      <4>1. rawRequest'[t] = rawRequest[t] /\ ~Spawning(t)' /\ ~Spawning(t)
        BY <1>1, <2>1, <2>4, <3>2 DEF Spawning, Idle
      <4>. QED
        BY <4>1 DEF NiInv, SessionInv
    <3>. QED
      BY <3>1, <3>2
  <2>8. AdapterInv'
    <3>1. rawRequest'[s] # 0 /\ reqID'[s] = reqIDCounter'
      BY <1>3, <1>8, <2>1, RequestFacts
    <3>2. \A t \in Sessions : reqID'[t] = reqIDCounter' => t = s
      BY <1>8, <2>1, <2>2 DEF NiInv, IdInv, TypeOK
    <3>. QED
      BY <2>4, <3>1, <3>2 DEF AdapterInv
  <2>9. ThreadInv'
    <3>1. \A m \in Requests : thread[m] \in {"new", "waiting"} => rawRequest'[kind[m]] = m
      <4>1. \A m \in Requests : thread[m] \in {"new", "waiting"} =>
              rawRequest[kind[m]] = m /\ kind[m] \in Sessions
        BY DEF NiInv, ThreadInv, TypeOK
      <4>2. \A m \in Requests : thread[m] \in {"new", "waiting"} => kind[m] # s
        BY <2>1, <4>1, RequestFacts
      <4>. QED
        BY <2>1, <4>1, <4>2
    <3>. QED
      BY <1>1, <1>8, <3>1 DEF NiInv, ThreadInv, UserSaid, threadVars, userVars
  <2>10. PayloadInv'
    <3>. SUFFICES ASSUME NEW m \in Requests
         PROVE  /\ payload[m] # "corrupt"
                /\ payload[m] = "alive" => InQueue(m)' \/ rawRequest'[kind[m]] = m \/ taken[m] = m
                /\ payload[m] = "unsent" => /\ thread[m] = "none" /\ informed[m] = {}
                                            /\ reqIDCounter' < m
                                            /\ \A k \in Requests : k > m => payload[k] = "unsent"
      BY <1>1, <1>8 DEF PayloadInv, threadVars
    <3>1. rawRequest[kind[m]] = m => rawRequest'[kind[m]] = m
      BY <2>1, RequestFacts DEF NiInv, TypeOK
    <3>2. m = n => rawRequest'[kind[m]] = m
      BY <1>3, <2>1 DEF s
    <3>3. payload[m] = "unsent" => n < m
      BY <1>3, <1>4, RequestFacts DEF NiInv, PayloadInv, Requests
    <3>4. payload[m] = "unsent" => reqIDCounter' < m
      BY <1>3, <2>2, <3>3, RequestFacts
    <3>. QED
      BY <1>5, <3>1, <3>2, <3>4 DEF NiInv, PayloadInv
  <2>11. IdInv'
    <3>1. \A m \in Requests : \A id \in shown[m] : id <= reqIDCounter'
      BY <1>8, <2>2 DEF NiInv, IdInv, TypeOK
    <3>2. ASSUME NEW t \in Sessions, NEW m \in Requests, reqID'[t] # 0, reqID'[t] \in shown[m]
          PROVE  kind[m] = t
      <4>1. t # s
        BY <1>8, <2>1, <2>2, <3>2 DEF NiInv, IdInv
      <4>. QED
        BY <2>1, <3>2, <4>1 DEF NiInv, IdInv
    <3>3. \A t \in Sessions : reqID'[t] <= reqIDCounter'
      BY <1>8, <2>1, <2>2 DEF NiInv, IdInv, TypeOK
    <3>. QED
      BY <1>1, <3>1, <3>2, <3>3 DEF NiInv, IdInv, userVars
  <2>12. AnswerInv'
    BY <1>1, <1>8 DEF NiInv, AnswerInv, Meant, UserSaid, userVars
  <2>. QED
    BY <1>2, <2>5, <2>6, <2>7, <2>8, <2>9, <2>10, <2>11, <2>12 DEF NiInv
<1>. QED
  BY <1>7, <1>8 DEF requestNiNotify, msg, n, s


(* The user is shown the request; its id is the counter's, or lost. *)
LEMMA SpawnStep ==
  ASSUME NiInv, spawn
  PROVE  NiInv'
<1>. DEFINE s == adapter.s
            n == rawRequest[s]
<1>1. /\ adapter.pc = "spawn" /\ adapter' = Idle
      /\ UNCHANGED <<queue, niCb, sessionVars, reqIDCounter, taken, takenResp, kind, payload, given,
                     replies, informed>>
  BY DEF spawn
<1>2. /\ s \in Sessions /\ n \in Requests /\ kind[n] = s /\ payload[n] = "alive"
      /\ thread[n] = "none" /\ shown[n] = {} /\ given[n] = {} /\ taken[n] = 0
      /\ \A k \in Requests : kind[k] = s /\ shown[k] # {} => k <= n
  <2>1. s \in Sessions /\ n \in Requests
    BY <1>1 DEF NiInv, TypeOK, AdapterInv
  <2>2. n # 0
    BY <1>1 DEF NiInv, AdapterInv
  <2>3. /\ kind[n] = s /\ payload[n] = "alive" /\ thread[n] = "none"
        /\ \A k \in Requests : kind[k] = s /\ shown[k] # {} => k <= n
    BY <1>1, <2>1, <2>2 DEF NiInv, SessionInv, Spawning
  <2>4. shown[n] = {} /\ taken[n] = 0
    BY <2>1, <2>3 DEF NiInv, ThreadInv
  <2>5. given[n] = {}
    BY <2>1, <2>4 DEF NiInv, IdInv
  <2>. QED
    BY <2>1, <2>3, <2>4, <2>5
<1>3. PICK pc \in {"new", "failed"} : thread' = [thread EXCEPT ![n] = pc]
  BY DEF spawn
<1>4. PICK id \in {reqIDCounter, reqID[s]} : shown' = [shown EXCEPT ![n] = {id}]
  BY DEF spawn
<1>5. id \in {0, reqIDCounter} /\ \A t \in Sessions : reqID[t] = reqIDCounter => t = s
  BY <1>1, <1>4 DEF NiInv, AdapterInv
<1>. HIDE DEF n, s
<1>6. /\ \A m \in Requests : thread'[m] = IF m = n THEN pc ELSE thread[m]
      /\ \A m \in Requests : shown'[m] = IF m = n THEN {id} ELSE shown[m]
      /\ thread' \in [Requests -> ThreadPc]
      /\ reqIDCounter \in 0 .. MaxRequests
  BY <1>2, <1>3, <1>4 DEF NiInv, TypeOK, ThreadPc
<1>7. shown' \in [Requests -> SUBSET (0 .. MaxRequests)]
  BY <1>2, <1>4, <1>5, <1>6, RequestFacts DEF NiInv, TypeOK
<1>8. /\ \A m \in Requests : kind'[m] = kind[m] => \A r : UserSaid(m, r) => UserSaid(m, r)'
      /\ \A t \in Sessions : \A r : Meant(t, r) => Meant(t, r)'
  <2>1. AnswersKept
    BY <1>1, <1>2, <1>6 DEF AnswersKept
  <2>. QED
    BY <2>1, SaidStays DEF NiInv
<1>. USE <1>1 DEF sessionVars
<1>9. TypeOK'
  BY <1>6, <1>7 DEF NiInv, TypeOK, Idle, Sessions
<1>10. MessagesInv'
  <2>. SUFFICES ASSUME NEW m \in NiMsg, Queued(m) PROVE MessageInv(m)'
    BY DEF MessagesInv, Queued
  <2>1. MessageInv(m) /\ (CarriesData(m) => m.arg \in Requests) /\ (m.op = "notify" => CarriesData(m))
        /\ (m.op = "inform" => CarriesData(m))
    BY MsgFacts DEF NiInv, MessagesInv, CarriesData
  <2>2. CarriesData(m) => m.arg # n
    BY <1>2, <2>1 DEF MessageInv, n
  <2>3. m.op = "notify" => n < m.arg
    BY <1>2, <2>1 DEF MessageInv, n
  <2>4. m.op = "notify" => /\ thread'[m.arg] = "none"
                           /\ \A k \in Requests : shown'[k] # {} => k < m.arg
    BY <1>6, <2>1, <2>2, <2>3 DEF MessageInv
  <2>5. m.op = "inform" => /\ thread'[m.arg] = "done"
                           /\ m.resp = "NO_RESPONSE" \/ UserSaid(m.arg, m.resp)'
    BY <1>6, <1>8, <2>1, <2>2 DEF MessageInv
  <2>6. m.op = "respond" => \E k \in Requests : m.arg \in shown'[k] /\ m.resp \in given[k]
    BY <1>2, <1>6, <2>1 DEF MessageInv
  <2>. QED
    BY <2>1, <2>4, <2>5, <2>6 DEF MessageInv
<1>11. SessionInv'
  <2>. SUFFICES ASSUME NEW t \in Sessions, rawRequest[t] # 0
       PROVE  /\ payload[rawRequest[t]] = "alive" /\ kind[rawRequest[t]] = t
              /\ thread'[rawRequest[t]] \in {"new", "waiting", "failed"}
              /\ \A k \in Requests : kind[k] = t /\ shown'[k] # {} => k <= rawRequest[t]
    BY DEF SessionInv, Spawning, Idle
  <2>1. rawRequest[t] \in Requests
    BY DEF NiInv, TypeOK
  <2>2. CASE t = s
    <3>1. rawRequest[t] = n
      BY <2>2 DEF n
    <3>2. \A k \in Requests : kind[k] = t /\ shown'[k] # {} => k <= n
      BY <1>2, <1>6, <2>2, RequestFacts
    <3>. QED
      BY <1>2, <1>6, <2>2, <3>1, <3>2
  <2>3. CASE t # s
    <3>1. /\ payload[rawRequest[t]] = "alive" /\ kind[rawRequest[t]] = t /\ rawRequest[t] # n
          /\ thread[rawRequest[t]] \in {"new", "waiting", "failed"}
      BY <1>2, <2>3 DEF NiInv, SessionInv, Spawning, s
    <3>2. \A k \in Requests : kind[k] = t => shown'[k] = shown[k]
      BY <1>2, <1>6, <2>3
    <3>3. \A k \in Requests : kind[k] = t /\ shown[k] # {} => k <= rawRequest[t]
      BY DEF NiInv, SessionInv
    <3>. QED
      BY <1>6, <2>1, <3>1, <3>2, <3>3
  <2>. QED
    BY <2>2, <2>3
<1>12. AdapterInv'
  BY DEF AdapterInv, Idle
<1>13. ThreadInv'
  <2>. SUFFICES ASSUME NEW m \in Requests
       PROVE  /\ thread'[m] \in {"new", "waiting"} => rawRequest[kind[m]] = m
              /\ thread'[m] = "none" => shown'[m] = {}
              /\ thread'[m] = "sending" => taken[m] # 0
              /\ taken[m] # 0 => /\ taken[m] = m /\ payload[m] = "alive"
                                 /\ thread'[m] \in {"clearing", "sending"}
                                 /\ takenResp[m] \in Responses \cup {"NO_RESPONSE"}
                                 /\ takenResp[m] = "NO_RESPONSE" \/ UserSaid(m, takenResp[m])'
    BY DEF ThreadInv
  <2>1. CASE m = n
    <3>1. rawRequest[kind[m]] = m /\ taken[m] = 0 /\ thread'[m] = pc
      BY <1>2, <1>6, <2>1 DEF n
    <3>. QED
      BY <3>1
  <2>2. CASE m # n
    BY <1>6, <1>8, <2>2 DEF NiInv, ThreadInv
  <2>. QED
    BY <2>1, <2>2
<1>14. PayloadInv'
  <2>1. \A m \in Requests : InQueue(m) => InQueue(m)'
    BY DEF InQueue, Queued
  <2>2. \A m \in Requests : payload[m] = "unsent" => thread'[m] = "none"
    BY <1>2, <1>6 DEF NiInv, PayloadInv
  <2>. QED
    BY <2>1, <2>2 DEF NiInv, PayloadInv
<1>15. IdInv'
  <2>1. \A m \in Requests : given[m] # {} => shown'[m] # {}
    BY <1>6 DEF NiInv, IdInv
  <2>2. \A m \in Requests : \A i \in shown'[m] : i <= reqIDCounter
    BY <1>5, <1>6 DEF NiInv, IdInv
  <2>3. ASSUME NEW t \in Sessions, NEW m \in Requests, reqID[t] # 0, reqID[t] \in shown'[m]
        PROVE  kind[m] = t
    <3>1. CASE m = n
      BY <1>2, <1>5, <1>6, <2>3, <3>1
    <3>2. CASE m # n
      BY <1>6, <2>3, <3>2 DEF NiInv, IdInv
    <3>. QED
      BY <3>1, <3>2
  <2>. QED
    BY <2>1, <2>2, <2>3 DEF NiInv, IdInv
<1>16. AnswerInv'
  BY <1>8 DEF NiInv, AnswerInv
<1>. QED
  BY <1>9, <1>10, <1>11, <1>12, <1>13, <1>14, <1>15, <1>16 DEF NiInv, PairsInv

(* The session a response is recorded in has the id it was given to. *)
LEMMA ResponseStep ==
  ASSUME NiInv, gnssNiResponse
  PROVE  NiInv'
<1>. DEFINE msg    == Head(queue)
            active == ActiveSession(msg.arg)
            s      == IF "sessionEs" \in active THEN "sessionEs" ELSE "session"
<1>1. /\ adapter = Idle /\ queue # <<>> /\ msg.op = "respond" /\ Pop
      /\ adapter' = IF ~niCb \/ active = {}
                    THEN Idle
                    ELSE [pc |-> IF s = "sessionEs" /\ msg.resp = "ACCEPT" /\ rawRequest["session"] # 0
                                 THEN "ignore" ELSE "record",
                          s |-> s, resp |-> msg.resp]
      /\ UNCHANGED <<niCb, sessionVars, reqIDCounter, threadVars, kind, payload, userVars, informed>>
  BY DEF gnssNiResponse
<1>2. /\ queue' \in Seq(NiMsg) /\ PairsInv' /\ msg \in NiMsg /\ Queued(msg)
      /\ \A m : Queued(m)' => Queued(m)
      /\ \A m : Queued(m) => m = msg \/ Queued(m)'
  BY <1>1, PopQueue DEF NiInv
<1>3. msg.resp \in Responses /\ ~CarriesData(msg)
  BY <1>1, <1>2, MsgFacts DEF CarriesData
<1>4. PICK k \in Requests : msg.arg \in shown[k] /\ msg.resp \in given[k]
  BY <1>1, <1>2 DEF NiInv, MessagesInv, MessageInv
<1>5. active # {} => s \in active /\ s \in Sessions /\ Meant(s, msg.resp)
  <2>. SUFFICES ASSUME active # {} PROVE s \in active /\ s \in Sessions /\ Meant(s, msg.resp)
    OBVIOUS
  <2>1. s \in active /\ s \in Sessions
    BY DEF ActiveSession, Sessions
  <2>2. reqID[s] = msg.arg
    BY <2>1 DEF ActiveSession
  <2>3. msg.arg # 0 => kind[k] = s
    BY <1>4, <2>1, <2>2 DEF NiInv, IdInv
  <2>. QED
    BY <1>4, <2>1, <2>3 DEF Meant
<1>. HIDE DEF msg, active, s
<1>6. \/ adapter' = Idle
      \/ /\ adapter'.pc \in {"ignore", "record"} /\ adapter'.resp = msg.resp /\ adapter'.s = s
         /\ adapter' \in [pc : {"idle", "spawn", "ignore", "record"}, s : Sessions,
                          resp : Responses \cup {None}]
         /\ Meant(s, msg.resp)
  BY <1>1, <1>3, <1>5
<1>. USE <1>1 DEF sessionVars, threadVars, userVars
<1>7. TypeOK'
  BY <1>6 DEF NiInv, TypeOK, Idle
<1>8. MessagesInv'
  BY <1>2, MessagesStay DEF MessagesInv
<1>9. SessionInv'
  BY <1>6 DEF NiInv, SessionInv, Spawning, Idle
<1>10. AdapterInv'
  BY <1>3, <1>6 DEF AdapterInv, Meant, Idle
<1>11. ThreadInv' /\ IdInv' /\ AnswerInv'
  BY DEF NiInv, ThreadInv, IdInv, AnswerInv, Meant, UserSaid
<1>12. PayloadInv'
  <2>1. \A m \in Requests : InQueue(m) => InQueue(m)'
    BY <1>2, <1>3 DEF InQueue
  <2>. QED
    BY <2>1 DEF NiInv, PayloadInv
<1>. QED
  BY <1>2, <1>7, <1>8, <1>9, <1>10, <1>11, <1>12 DEF NiInv


LEMMA RecordStep ==
  ASSUME NiInv, ignoreSession \/ recordResponse
  PROVE  NiInv'
<1>1. /\ adapter.pc \in {"ignore", "record"}
      /\ UNCHANGED <<queue, niCb, rawRequest, reqID, reqIDCounter, threadVars, kind, payload, userVars,
                     informed>>
  BY DEF ignoreSession, recordResponse
<1>2. /\ adapter.resp \in Responses /\ Meant(adapter.s, adapter.resp)
      /\ adapter.s \in Sessions /\ "session" \in Sessions
  BY <1>1 DEF NiInv, AdapterInv, TypeOK, Sessions
<1>3. /\ adapter' \in [pc : {"idle", "spawn", "ignore", "record"}, s : Sessions,
                       resp : Responses \cup {None}]
      /\ adapter' = Idle \/ (/\ adapter'.pc = "record" /\ adapter'.s = adapter.s
                             /\ adapter'.resp = adapter.resp)
  BY <1>1, <1>2 DEF ignoreSession, recordResponse, Idle, NiInv, TypeOK
<1>4. PICK s \in Sessions, r \in Responses \cup {"IGNORE"} :
        /\ resp' = [resp EXCEPT ![s] = r] /\ respRecvd' = [respRecvd EXCEPT ![s] = TRUE]
        /\ r = "IGNORE" \/ (r \in Responses /\ Meant(s, r))
  BY <1>2 DEF ignoreSession, recordResponse
<1>. USE <1>1 DEF threadVars, userVars
<1>5. TypeOK'
  <2>1. respRecvd' \in [Sessions -> BOOLEAN]
    BY <1>4 DEF NiInv, TypeOK
  <2>2. resp' \in [Sessions -> Responses \cup {"NO_RESPONSE", "IGNORE", None}]
    BY <1>4 DEF NiInv, TypeOK
  <2>. QED
    BY <1>3, <2>1, <2>2 DEF NiInv, TypeOK
<1>6. MessagesInv' /\ PairsInv' /\ ThreadInv' /\ PayloadInv' /\ IdInv'
  BY DEF NiInv, MessagesInv, MessageInv, PairsInv, ThreadInv, PayloadInv, IdInv, Queued, InQueue,
     UserSaid
<1>7. SessionInv'
  BY <1>3 DEF NiInv, SessionInv, Spawning, Idle
<1>8. AdapterInv'
  BY <1>2, <1>3 DEF AdapterInv, Meant, Idle
<1>9. AnswerInv'
  <2>1. ASSUME NEW t \in Sessions, respRecvd'[t]
        PROVE  resp'[t] = "IGNORE" \/ (resp'[t] \in Responses /\ Meant(t, resp'[t]))
    <3>1. CASE t = s
      <4>1. resp'[t] = r
        BY <1>4, <3>1 DEF NiInv, TypeOK
      <4>. QED
        BY <1>4, <3>1, <4>1
    <3>2. CASE t # s
      <4>1. resp'[t] = resp[t] /\ respRecvd'[t] = respRecvd[t]
        BY <1>4, <3>2 DEF NiInv, TypeOK
      <4>2. respRecvd[t]
        BY <2>1, <4>1
      <4>. QED
        BY <4>1, <4>2 DEF NiInv, AnswerInv
    <3>. QED
      BY <3>1, <3>2
  <2>. QED
    BY <2>1 DEF NiInv, AnswerInv, Meant, UserSaid
<1>. QED
  BY <1>5, <1>6, <1>7, <1>8, <1>9 DEF NiInv

LEMMA InformStep ==
  ASSUME NiInv, informNiResponse
  PROVE  NiInv'
<1>. DEFINE msg == Head(queue)
            n   == msg.arg
<1>1. /\ adapter = Idle /\ queue # <<>> /\ msg.op = "inform" /\ Pop
      /\ informed' = [informed EXCEPT ![n] = @ \cup {msg.resp}]
      /\ payload' = free(payload, n)
      /\ UNCHANGED <<niCb, sessionVars, reqIDCounter, adapter, threadVars, kind, userVars>>
  BY DEF informNiResponse
<1>2. /\ queue' \in Seq(NiMsg) /\ PairsInv' /\ msg \in NiMsg /\ Queued(msg)
      /\ \A m : Queued(m)' => Queued(m)
      /\ \A m : Queued(m) => m = msg \/ Queued(m)'
      /\ \A m : Queued(m)' => (CarriesData(msg) /\ CarriesData(m) => m.arg # n)
  BY <1>1, PopQueue DEF NiInv
<1>3. n \in Requests /\ CarriesData(msg) /\ msg.resp \in Responses \cup {"NO_RESPONSE"}
  BY <1>1, <1>2, MsgFacts DEF CarriesData
<1>4. /\ payload[n] = "alive" /\ taken[n] = 0 /\ thread[n] = "done"
      /\ \A t \in Sessions : rawRequest[t] # n
      /\ msg.resp = "NO_RESPONSE" \/ UserSaid(n, msg.resp)
  BY <1>1, <1>2, <1>3 DEF NiInv, MessagesInv, MessageInv
<1>5. \A m \in Requests : InQueue(m) /\ m # n => InQueue(m)'
  BY <1>2 DEF InQueue
<1>. HIDE DEF msg, n
<1>6. /\ payload' \in [Requests -> {"unsent", "alive", "freed", "leaked", "corrupt"}]
      /\ payload'[n] = "freed"
      /\ \A m \in Requests : m # n => payload'[m] = payload[m]
      /\ informed' \in [Requests -> SUBSET (Responses \cup {"NO_RESPONSE"})]
      /\ \A m \in Requests : informed'[m] = IF m = n THEN informed[n] \cup {msg.resp} ELSE informed[m]
  BY <1>1, <1>3, <1>4 DEF NiInv, TypeOK, free
<1>. USE <1>1 DEF sessionVars, threadVars, userVars
<1>7. TypeOK'
  BY <1>6 DEF NiInv, TypeOK
<1>8. MessagesInv'
  <2>1. \A m \in NiMsg : Queued(m)' => Queued(m) /\ (CarriesData(m) => m.arg # n /\ m.arg \in Requests)
    BY <1>2, <1>3, MsgFacts DEF CarriesData
  <2>. QED
    BY <1>6, <2>1, MessagesStay DEF MessagesInv
<1>9. SessionInv'
  <2>1. \A t \in Sessions : rawRequest[t] # 0 => payload'[rawRequest[t]] = payload[rawRequest[t]]
    BY <1>4, <1>6 DEF NiInv, TypeOK
  <2>. QED
    BY <2>1 DEF NiInv, SessionInv, Spawning
<1>10. AdapterInv' /\ IdInv'
  BY DEF NiInv, AdapterInv, IdInv, Meant
<1>11. ThreadInv'
  BY <1>4, <1>6 DEF NiInv, ThreadInv, UserSaid
<1>12. PayloadInv'
  <2>1. \A m \in Requests : payload'[m] = "unsent" <=> payload[m] = "unsent"
    BY <1>4, <1>6
  <2>2. \A m \in Requests : payload'[m] = "unsent" => informed'[m] = {}
    BY <1>6 DEF NiInv, PayloadInv
  <2>. QED
    BY <1>5, <1>6, <2>1, <2>2 DEF NiInv, PayloadInv
<1>13. AnswerInv'
  <2>1. \A m \in Requests : \A r \in informed'[m] : r = "NO_RESPONSE" \/ UserSaid(m, r)
    BY <1>4, <1>6 DEF NiInv, AnswerInv
  <2>. QED
    BY <2>1 DEF NiInv, AnswerInv, Meant, UserSaid
<1>. QED
  BY <1>2, <1>7, <1>8, <1>9, <1>10, <1>11, <1>12, <1>13 DEF NiInv

-----------------------------------------------------------------------------
(* The threads of the requests.                                            *)

(* The locked part of niThreadProc ends: the data goes from the session to *)
(* the thread, or is freed.  The response is the session's or a time-out.  *)
LEMMA EndStep ==
  ASSUME NiInv, NEW n \in Requests, thread[n] \in {"new", "waiting"},
         NEW r \in Responses \cup {"NO_RESPONSE", "IGNORE"}, endSession(n, r),
         r \in {"NO_RESPONSE", "IGNORE"} \/ Meant(kind[n], r)
  PROVE  NiInv'
<1>. DEFINE s == kind[n]
<1>1. /\ s \in Sessions /\ rawRequest[s] = n /\ n # 0 /\ payload[n] = "alive"
      /\ taken[n] = 0 /\ ~Spawning(s)
      /\ \A k \in Requests : kind[k] = s /\ shown[k] # {} => k <= n
  <2>1. s \in Sessions
    BY DEF NiInv, TypeOK
  <2>2. n # 0
    BY RequestFacts
  <2>3. rawRequest[s] = n /\ taken[n] = 0
    BY DEF NiInv, ThreadInv
  <2>. QED
    BY <2>1, <2>2, <2>3 DEF NiInv, SessionInv
<1>2. /\ resp' = [resp EXCEPT ![s] = r]
      /\ respRecvd' = [respRecvd EXCEPT ![s] = FALSE]
      /\ rawRequest' = [rawRequest EXCEPT ![s] = 0]
      /\ taken' = [taken EXCEPT ![n] = IF r # "IGNORE" THEN n ELSE 0]
      /\ takenResp' = [takenResp EXCEPT ![n] = r]
      /\ payload' = IF r = "IGNORE" THEN free(payload, n) ELSE payload
      /\ thread' = [thread EXCEPT ![n] = "clearing"]
      /\ UNCHANGED <<queue, niCb, reqID, reqIDCounter, adapter, kind, userVars, informed>>
  BY <1>1 DEF endSession
<1>. HIDE DEF s
<1>3. /\ \A t \in Sessions : rawRequest'[t] = IF t = s THEN 0 ELSE rawRequest[t]
      /\ \A t \in Sessions : t # s => resp'[t] = resp[t]
      /\ \A m \in Requests : /\ thread'[m] = IF m = n THEN "clearing" ELSE thread[m]
                             /\ m # n => taken'[m] = taken[m] /\ takenResp'[m] = takenResp[m]
                             /\ m # n => payload'[m] = payload[m]
      /\ taken'[n] = IF r = "IGNORE" THEN 0 ELSE n
      /\ takenResp'[n] = r
      /\ payload'[n] = IF r = "IGNORE" THEN "freed" ELSE "alive"
  BY <1>1, <1>2 DEF NiInv, TypeOK, free
<1>4. /\ rawRequest' \in [Sessions -> {0} \cup Requests]
      /\ resp' \in [Sessions -> Responses \cup {"NO_RESPONSE", "IGNORE", None}]
      /\ respRecvd' \in [Sessions -> BOOLEAN]
      /\ thread' \in [Requests -> ThreadPc]
      /\ taken' \in [Requests -> {0} \cup Requests]
      /\ takenResp' \in [Requests -> Responses \cup {"NO_RESPONSE", "IGNORE", None}]
      /\ payload' \in [Requests -> {"unsent", "alive", "freed", "leaked", "corrupt"}]
  BY <1>1, <1>2 DEF NiInv, TypeOK, ThreadPc, free
<1>14. \A t \in Sessions : respRecvd'[t] => t # s /\ respRecvd[t]
  <2>1. respRecvd \in [Sessions -> BOOLEAN]
    BY DEF NiInv, TypeOK
  <2>2. ~respRecvd'[s]
    BY <1>1, <1>2, <2>1, Zenon
  <2>3. ASSUME NEW t \in Sessions, t # s, respRecvd'[t] PROVE respRecvd[t]
    BY <1>2, <2>1, <2>3, Zenon
  <2>. QED
    BY <2>2, <2>3
<1>. USE <1>2 DEF userVars
<1>5. TypeOK'
  BY <1>4 DEF NiInv, TypeOK
<1>6. r \notin {"NO_RESPONSE", "IGNORE"} => UserSaid(n, r)
  BY <1>1 DEF NiInv, IdInv, Meant, UserSaid, s
<1>7. MessagesInv'
  <2>. SUFFICES ASSUME NEW m \in NiMsg, Queued(m) PROVE MessageInv(m)'
    BY DEF MessagesInv, Queued
  <2>1. /\ MessageInv(m) /\ (CarriesData(m) => m.arg \in Requests /\ m.arg # n)
        /\ (m.op = "notify" => CarriesData(m)) /\ (m.op = "inform" => CarriesData(m))
    BY <1>1, MsgFacts DEF NiInv, MessagesInv, MessageInv, CarriesData
  <2>2. m.op = "notify" => \A t \in Sessions : rawRequest'[t] < m.arg
    BY <1>3, <2>1, RequestFacts DEF MessageInv
  <2>3. CarriesData(m) => \A t \in Sessions : rawRequest'[t] # m.arg
    BY <1>3, <2>1, RequestFacts DEF MessageInv
  <2>. QED
    BY <1>3, <2>1, <2>2, <2>3 DEF MessageInv, UserSaid
<1>8. SessionInv'
  <2>1. \A t \in Sessions : rawRequest'[t] # 0 =>
          t # s /\ rawRequest'[t] = rawRequest[t] /\ rawRequest[t] # n /\ rawRequest[t] \in Requests
    BY <1>1, <1>3 DEF NiInv, SessionInv, TypeOK, s
  <2>. QED
    BY <1>3, <2>1 DEF NiInv, SessionInv, Spawning
<1>9. AdapterInv'
  <2>1. adapter.pc = "spawn" => adapter.s # s /\ adapter.s \in Sessions
    BY <1>1 DEF Spawning, NiInv, TypeOK
  <2>. QED
    BY <1>3, <2>1 DEF NiInv, AdapterInv, Meant
<1>10. ThreadInv'
  <2>. SUFFICES ASSUME NEW m \in Requests
       PROVE  /\ thread'[m] \in {"new", "waiting"} => rawRequest'[kind[m]] = m
              /\ thread'[m] = "none" => shown[m] = {}
              /\ thread'[m] = "sending" => taken'[m] # 0
              /\ taken'[m] # 0 => /\ taken'[m] = m /\ payload'[m] = "alive"
                                  /\ thread'[m] \in {"clearing", "sending"}
                                  /\ takenResp'[m] \in Responses \cup {"NO_RESPONSE"}
                                  /\ takenResp'[m] = "NO_RESPONSE" \/ UserSaid(m, takenResp'[m])
    BY DEF ThreadInv, UserSaid
  <2>1. CASE m = n
    BY <1>1, <1>3, <1>6, <2>1
  <2>2. CASE m # n
    <3>1. thread[m] \in {"new", "waiting"} => rawRequest'[kind[m]] = m
      <4>1. thread[m] \in {"new", "waiting"} => rawRequest[kind[m]] = m /\ kind[m] \in Sessions
        BY DEF NiInv, ThreadInv, TypeOK
      <4>. QED
        BY <1>1, <1>3, <2>2, <4>1
    <3>. QED
      BY <1>3, <2>2, <3>1 DEF NiInv, ThreadInv
  <2>. QED
    BY <2>1, <2>2
<1>11. PayloadInv'
  <2>. SUFFICES ASSUME NEW m \in Requests
       PROVE  /\ payload'[m] # "corrupt"
              /\ payload'[m] = "alive" => InQueue(m) \/ rawRequest'[kind[m]] = m \/ taken'[m] = m
              /\ payload'[m] = "unsent" => /\ thread'[m] = "none" /\ informed[m] = {}
                                           /\ reqIDCounter < m
                                           /\ \A k \in Requests : k > m => payload'[k] = "unsent"
    BY DEF PayloadInv, InQueue, Queued
  <2>1. CASE m = n
    BY <1>3, <2>1
  <2>2. CASE m # n
    <3>1. rawRequest[kind[m]] = m => rawRequest'[kind[m]] = m
      BY <1>1, <1>3, <2>2 DEF NiInv, TypeOK
    <3>2. payload[m] = "unsent" => ~(n > m)
      BY <1>1 DEF NiInv, PayloadInv
    <3>. QED
      BY <1>3, <2>2, <3>1, <3>2 DEF NiInv, PayloadInv
  <2>. QED
    BY <2>1, <2>2
<1>12. IdInv'
  BY DEF NiInv, IdInv
<1>13. AnswerInv'
  <2>1. \A t \in Sessions : respRecvd'[t] =>
          resp'[t] = "IGNORE" \/ (resp'[t] \in Responses /\ Meant(t, resp'[t]))
    <3>. SUFFICES ASSUME NEW t \in Sessions, respRecvd'[t]
         PROVE  resp'[t] = "IGNORE" \/ (resp'[t] \in Responses /\ Meant(t, resp'[t]))
      OBVIOUS
    <3>1. t # s /\ respRecvd[t]
      BY <1>14
    <3>2. resp'[t] = resp[t]
      BY <1>3, <3>1
    <3>. QED
      BY <3>1, <3>2 DEF NiInv, AnswerInv
  <2>. QED
    BY <2>1 DEF NiInv, AnswerInv, Meant, UserSaid
<1>. QED
  BY <1>5, <1>7, <1>8, <1>9, <1>10, <1>11, <1>12, <1>13 DEF NiInv, PairsInv

(* The first test of respRecvd fails: the thread waits. *)
LEMMA WaitStep ==
  ASSUME NiInv, NEW n \in Requests, thread[n] = "new",
         thread' = [thread EXCEPT ![n] = "waiting"],
         UNCHANGED <<queue, niCb, sessionVars, reqIDCounter, adapter, taken, takenResp, kind,
                     payload, userVars, informed>>
  PROVE  NiInv'
<1>1. /\ \A m \in Requests : thread'[m] = IF m = n THEN "waiting" ELSE thread[m]
      /\ thread' \in [Requests -> ThreadPc]
  BY DEF NiInv, TypeOK, ThreadPc
<1>. USE DEF sessionVars, userVars
<1>2. TypeOK'
  BY <1>1 DEF NiInv, TypeOK
<1>3. MessagesInv'
  <2>. SUFFICES ASSUME NEW m \in NiMsg, Queued(m) PROVE MessageInv(m)'
    BY DEF MessagesInv, Queued
  <2>1. MessageInv(m)
    BY DEF NiInv, MessagesInv
  <2>2. m.op \in {"notify", "inform"} => thread'[m.arg] = thread[m.arg]
    BY <1>1, <2>1, MsgFacts DEF MessageInv
  <2>. QED
    BY <2>1, <2>2 DEF MessageInv, UserSaid
<1>4. SessionInv'
  <2>1. \A t \in Sessions : rawRequest[t] # 0 =>
          /\ thread'[rawRequest[t]] = "none" <=> thread[rawRequest[t]] = "none"
          /\ thread[rawRequest[t]] \in {"new", "waiting", "failed"}
             => thread'[rawRequest[t]] \in {"new", "waiting", "failed"}
    BY <1>1 DEF NiInv, TypeOK
  <2>. QED
    BY <2>1 DEF NiInv, SessionInv, Spawning
<1>5. AdapterInv' /\ IdInv' /\ AnswerInv' /\ PairsInv'
  BY DEF NiInv, AdapterInv, IdInv, AnswerInv, PairsInv, Meant, UserSaid
<1>6. ThreadInv'
  BY <1>1 DEF NiInv, ThreadInv, UserSaid
<1>7. PayloadInv'
  BY <1>1 DEF NiInv, PayloadInv, InQueue, Queued
<1>. QED
  BY <1>2, <1>3, <1>4, <1>5, <1>6, <1>7 DEF NiInv

(* pSession->reqID = 0, whatever the session is used for by now. *)
LEMMA ClearStep ==
  ASSUME NiInv, NEW n \in Requests, niClear(n)
  PROVE  NiInv'
<1>1. /\ thread[n] = "clearing"
      /\ reqID' = [reqID EXCEPT ![kind[n]] = 0]
      /\ thread' = [thread EXCEPT ![n] = IF taken[n] # 0 THEN "sending" ELSE "done"]
      /\ UNCHANGED <<queue, niCb, rawRequest, resp, respRecvd, reqIDCounter, adapter, taken,
                     takenResp, kind, payload, userVars, informed>>
  BY DEF niClear
<1>2. /\ \A m \in Requests : thread'[m] = IF m = n THEN (IF taken[n] # 0 THEN "sending" ELSE "done")
                                          ELSE thread[m]
      /\ thread' \in [Requests -> ThreadPc]
      /\ \A t \in Sessions : reqID'[t] \in {0, reqID[t]}
      /\ reqID' \in [Sessions -> 0 .. MaxRequests]
  BY <1>1, BoundsAssumption DEF NiInv, TypeOK, ThreadPc
<1>. USE <1>1 DEF userVars
<1>3. TypeOK'
  BY <1>2 DEF NiInv, TypeOK
<1>4. MessagesInv'
  <2>. SUFFICES ASSUME NEW m \in NiMsg, Queued(m) PROVE MessageInv(m)'
    BY DEF MessagesInv, Queued
  <2>1. MessageInv(m)
    BY DEF NiInv, MessagesInv
  <2>2. m.op \in {"notify", "inform"} => thread'[m.arg] = thread[m.arg]
    BY <1>2, <2>1, MsgFacts DEF MessageInv
  <2>. QED
    BY <2>1, <2>2 DEF MessageInv, UserSaid
<1>5. SessionInv'
  <2>1. \A t \in Sessions : rawRequest[t] # 0 => thread'[rawRequest[t]] = thread[rawRequest[t]]
    BY <1>2 DEF NiInv, SessionInv, TypeOK
  <2>. QED
    BY <2>1 DEF NiInv, SessionInv, Spawning
<1>6. AdapterInv'
  <2>1. ASSUME adapter.pc = "spawn"
        PROVE  /\ reqID'[adapter.s] \in {0, reqIDCounter}
               /\ \A t \in Sessions : reqID'[t] = reqIDCounter => t = adapter.s
    <3>1. reqIDCounter # 0
      <4>1. \A t \in Sessions : reqIDCounter = 0 => reqID[t] = reqIDCounter
        BY DEF NiInv, IdInv, TypeOK
      <4>. QED
        BY <2>1, <4>1 DEF NiInv, AdapterInv, Sessions
    <3>. QED
      BY <1>2, <2>1, <3>1 DEF NiInv, AdapterInv, TypeOK
  <2>. QED
    BY <2>1 DEF NiInv, AdapterInv, Meant
<1>7. ThreadInv'
  BY <1>2 DEF NiInv, ThreadInv, UserSaid
<1>8. PayloadInv'
  BY <1>2 DEF NiInv, PayloadInv, InQueue, Queued
<1>9. IdInv'
  <2>1. \A t \in Sessions : reqID'[t] <= reqIDCounter
    BY <1>2 DEF NiInv, IdInv, TypeOK
  <2>. QED
    BY <1>2, <2>1 DEF NiInv, IdInv
<1>10. AnswerInv' /\ PairsInv'
  BY DEF NiInv, AnswerInv, PairsInv, Meant, UserSaid
<1>. QED
  BY <1>3, <1>4, <1>5, <1>6, <1>7, <1>8, <1>9, <1>10 DEF NiInv

(* The data goes from the thread to a message. *)
LEMMA SendStep ==
  ASSUME NiInv, NEW n \in Requests, niSend(n)
  PROVE  NiInv'
<1>. DEFINE msg == InformMsg(n, takenResp[n])
<1>1. /\ taken[n] = n /\ n # 0 /\ payload[n] = "alive" /\ thread[n] = "sending"
      /\ takenResp[n] \in Responses \cup {"NO_RESPONSE"}
      /\ takenResp[n] = "NO_RESPONSE" \/ UserSaid(n, takenResp[n])
  BY RequestFacts DEF niSend, NiInv, ThreadInv
<1>2. /\ queue' = Append(queue, msg)
      /\ taken' = [taken EXCEPT ![n] = 0]
      /\ thread' = [thread EXCEPT ![n] = "done"]
      /\ UNCHANGED <<niCb, sessionVars, reqIDCounter, adapter, takenResp, kind, payload, userVars,
                     informed>>
  BY <1>1 DEF niSend
<1>3. msg \in NiMsg /\ msg.op = "inform" /\ msg.arg = n /\ msg.resp = takenResp[n]
  BY <1>1, MsgFacts
<1>. HIDE DEF msg
<1>4. \A k \in NiMsg : Queued(k) /\ CarriesData(k) => k.arg # n
  BY <1>1 DEF NiInv, MessagesInv, MessageInv
<1>5. /\ queue' \in Seq(NiMsg) /\ PairsInv'
      /\ \A k : Queued(k)' <=> Queued(k) \/ k = msg
  <2>1. \A k \in NiMsg : Queued(k) =>
          /\ CarriesData(k) /\ CarriesData(msg) => k.arg # msg.arg
          /\ k.op = "notify" /\ msg.op = "notify" => k.arg < msg.arg
    BY <1>3, <1>4
  <2>. QED
    BY <1>2, <1>3, <2>1, SendQueue DEF NiInv
<1>6. /\ \A m \in Requests : /\ thread'[m] = IF m = n THEN "done" ELSE thread[m]
                             /\ taken'[m] = IF m = n THEN 0 ELSE taken[m]
      /\ thread' \in [Requests -> ThreadPc] /\ taken' \in [Requests -> {0} \cup Requests]
  BY <1>2 DEF NiInv, TypeOK, ThreadPc
<1>7. \A t \in Sessions : rawRequest[t] # n
  BY <1>1 DEF NiInv, SessionInv, Spawning
<1>. USE <1>2 DEF sessionVars, userVars
<1>8. TypeOK'
  BY <1>6 DEF NiInv, TypeOK
<1>9. MessagesInv'
  <2>. SUFFICES ASSUME NEW m \in NiMsg, Queued(m)' PROVE MessageInv(m)'
    BY DEF MessagesInv
  <2>1. CASE m = msg
    BY <1>1, <1>3, <1>6, <1>7, <2>1 DEF MessageInv, UserSaid
  <2>2. CASE Queued(m)
    <3>1. /\ MessageInv(m) /\ (CarriesData(m) => m.arg \in Requests /\ m.arg # n)
          /\ (m.op \in {"notify", "inform"} => CarriesData(m))
      BY <1>4, <2>2, MsgFacts DEF NiInv, MessagesInv, CarriesData
    <3>. QED
      BY <1>6, <3>1 DEF MessageInv, UserSaid
  <2>. QED
    BY <1>5, <2>1, <2>2
<1>10. SessionInv'
  <2>1. \A t \in Sessions : rawRequest[t] # 0 => thread'[rawRequest[t]] = thread[rawRequest[t]]
    BY <1>6, <1>7 DEF NiInv, TypeOK
  <2>. QED
    BY <2>1 DEF NiInv, SessionInv, Spawning
<1>11. AdapterInv' /\ IdInv' /\ AnswerInv'
  BY DEF NiInv, AdapterInv, IdInv, AnswerInv, Meant, UserSaid
<1>12. ThreadInv'
  BY <1>6 DEF NiInv, ThreadInv, UserSaid
<1>13. PayloadInv'
  <2>1. \A m \in Requests : InQueue(m) => InQueue(m)'
    BY <1>5 DEF InQueue
  <2>2. InQueue(n)'
    BY <1>3, <1>5 DEF InQueue, CarriesData
  <2>. QED
    BY <1>1, <1>6, <2>1, <2>2 DEF NiInv, PayloadInv
<1>. QED
  BY <1>5, <1>8, <1>9, <1>10, <1>11, <1>12, <1>13 DEF NiInv

LEMMA ThreadStep ==
  ASSUME NiInv, NEW n \in Requests, niThreadProc(n)
  PROVE  NiInv'
<1>1. kind[n] \in Sessions
  BY DEF NiInv, TypeOK
<1>2. respRecvd[kind[n]] => /\ resp[kind[n]] \in Responses \cup {"NO_RESPONSE", "IGNORE"}
                            /\ \/ resp[kind[n]] \in {"NO_RESPONSE", "IGNORE"}
                               \/ Meant(kind[n], resp[kind[n]])
  BY <1>1 DEF NiInv, AnswerInv
<1>3. ASSUME thread[n] \in {"new", "waiting"}, respRecvd[kind[n]], endSession(n, resp[kind[n]])
      PROVE  NiInv'
  BY <1>2, <1>3, EndStep
<1>4. CASE niStart(n)
  <2>1. CASE respRecvd[kind[n]]
    BY <1>3, <1>4, <2>1 DEF niStart
  <2>2. CASE ~respRecvd[kind[n]]
    BY <1>4, <2>2, WaitStep DEF niStart
  <2>. QED
    BY <2>1, <2>2
<1>5. CASE niWake(n)
  BY <1>3, <1>5 DEF niWake
<1>6. CASE niTimeout(n)
  BY <1>6, EndStep DEF niTimeout
<1>7. CASE niClear(n)
  BY <1>7, ClearStep
<1>8. CASE niSend(n)
  BY <1>8, SendStep
<1>. QED
  BY <1>4, <1>5, <1>6, <1>7, <1>8 DEF niThreadProc

LEMMA NiNext == NiInv /\ [Next]_vars => NiInv'
<1>. SUFFICES ASSUME NiInv, [Next]_vars PROVE NiInv'
  OBVIOUS
<1>1. CASE requestNiNotifyEvent
  BY <1>1, NotifyEventStep
<1>2. CASE gnssNiRespond
  BY <1>2, RespondStep
<1>3. CASE updateClients
  BY <1>3, ClientsStep
<1>4. CASE adapterThread
  BY <1>4, NotifyStep, SpawnStep, ResponseStep, RecordStep, InformStep DEF adapterThread
<1>5. CASE \E n \in Requests : niThreadProc(n)
  BY <1>5, ThreadStep
<1>6. CASE UNCHANGED vars
  <2>. USE <1>6 DEF vars, sessionVars, threadVars, userVars
  <2>1. TypeOK' /\ SessionInv' /\ AdapterInv'
    BY DEF NiInv, TypeOK, SessionInv, AdapterInv, Spawning, Meant
  <2>2. MessagesInv' /\ PairsInv' /\ PayloadInv'
    BY DEF NiInv, MessagesInv, MessageInv, PairsInv, PayloadInv, Queued, InQueue, UserSaid
  <2>3. ThreadInv' /\ IdInv' /\ AnswerInv'
    BY DEF NiInv, ThreadInv, IdInv, AnswerInv, Meant, UserSaid
  <2>. QED
    BY <2>1, <2>2, <2>3 DEF NiInv
<1>. QED
  BY <1>1, <1>2, <1>3, <1>4, <1>5, <1>6 DEF Next

LEMMA NiInvariant == Spec => []NiInv
  BY NiInit, NiNext, PTL DEF Spec

-----------------------------------------------------------------------------
(* What the invariant says of the data and of the answers.                 *)

(* The holders of a request's data, whatever it holds them. *)
LEMMA HoldersOnce ==
  ASSUME NiInv, NEW n \in Requests
  PROVE  /\ payload[n] = "alive" => \E h : Holders(n) = {h}
         /\ payload[n] # "alive" => Holders(n) = {}
<1>. DEFINE Q == {j \in DOMAIN queue : queue[j].op # "respond" /\ queue[j].arg = n}
            S == {t \in Sessions : rawRequest[t] = n}
            T == {k \in Requests : taken[k] = n}
<1>1. Holders(n) = {<<"msg", i>> : i \in Q} \cup {<<"session", s>> : s \in S}
                   \cup {<<"thread", m>> : m \in T}
  BY DEF Holders
<1>2. \A i \in DOMAIN queue : queue[i] \in NiMsg /\ Queued(queue[i])
  BY ElementOfSeq, LenProperties DEF NiInv, Queued
<1>3. n # 0
  BY RequestFacts
<1>4. Q # {} => payload[n] = "alive" /\ S = {} /\ T = {}
  <2>. SUFFICES ASSUME NEW i \in Q PROVE payload[n] = "alive" /\ S = {} /\ T = {}
    OBVIOUS
  <2>1. payload[n] = "alive" /\ taken[n] = 0 /\ \A t \in Sessions : rawRequest[t] # n
    BY <1>2 DEF NiInv, MessagesInv, MessageInv, CarriesData
  <2>2. \A k \in Requests : taken[k] = n => k = n
    BY <1>3 DEF NiInv, ThreadInv
  <2>. QED
    BY <1>3, <2>1, <2>2
<1>5. S # {} => payload[n] = "alive" /\ T = {} /\ S = {kind[n]}
  <2>. SUFFICES ASSUME NEW t \in S PROVE payload[n] = "alive" /\ T = {} /\ S = {kind[n]}
    OBVIOUS
  <2>1. \A u \in S : payload[n] = "alive" /\ kind[n] = u /\ thread[n] \in {"none", "new", "waiting", "failed"}
    BY <1>3 DEF NiInv, SessionInv
  <2>2. S = {kind[n]}
    BY <2>1
  <2>3. \A k \in Requests : taken[k] = n => k = n /\ thread[k] \in {"clearing", "sending"}
    BY <1>3 DEF NiInv, ThreadInv
  <2>. QED
    BY <2>1, <2>2, <2>3
<1>6. T # {} => payload[n] = "alive" /\ T = {n}
  <2>1. \A k \in Requests : taken[k] = n => k = n /\ payload[n] = "alive"
    BY <1>3 DEF NiInv, ThreadInv
  <2>. QED
    BY <2>1
<1>7. \A i, j \in Q : i = j
  <2>1. \A i, j \in DOMAIN queue : i \in Nat /\ j \in Nat
    BY LenProperties DEF NiInv
  <2>. SUFFICES ASSUME NEW i \in Q, NEW j \in Q, i # j PROVE FALSE
    OBVIOUS
  <2>2. i < j \/ j < i
    BY <2>1
  <2>3. CarriesData(queue[i]) /\ CarriesData(queue[j]) /\ queue[i].arg = queue[j].arg
    BY DEF CarriesData
  <2>. QED
    BY <2>2, <2>3 DEF NiInv, PairsInv
<1>8. payload[n] = "alive" => Q # {} \/ S # {} \/ T # {}
  <2>. SUFFICES ASSUME payload[n] = "alive" PROVE Q # {} \/ S # {} \/ T # {}
    OBVIOUS
  <2>1. InQueue(n) => Q # {}
    BY DEF InQueue, Queued, CarriesData
  <2>2. kind[n] \in Sessions
    BY DEF NiInv, TypeOK
  <2>. QED
    BY <2>1, <2>2 DEF NiInv, PayloadInv
<1>. HIDE DEF Q, S, T
<1>9. ASSUME NEW i \in Q PROVE Q = {i}
  BY <1>7
<1>10. payload[n] # "alive" => Holders(n) = {}
  BY <1>1, <1>4, <1>5, <1>6
<1>11. CASE Q # {}
  <2>1. PICK i \in Q : Q = {i}
    BY <1>9, <1>11
  <2>2. Holders(n) = {<<"msg", i>>}
    BY <1>1, <1>4, <1>11, <2>1
  <2>. QED
    BY <1>10, <2>2
<1>12. CASE Q = {} /\ S # {}
  <2>1. Holders(n) = {<<"session", kind[n]>>}
    BY <1>1, <1>5, <1>12
  <2>. QED
    BY <1>10, <2>1
<1>13. CASE Q = {} /\ S = {} /\ T # {}
  <2>1. Holders(n) = {<<"thread", n>>}
    BY <1>1, <1>6, <1>13
  <2>. QED
    BY <1>10, <2>1
<1>. QED
  BY <1>8, <1>10, <1>11, <1>12, <1>13

(* The data of a request of the modem passes from the message of           *)
(* requestNiNotifyEvent to the session, to the thread and to the message   *)
(* that informs the modem; always exactly one of them will free it, and a  *)
(* session that holds a request has a thread that still waits for it.      *)
THEOREM RequestHeldOnce == Spec => []RequestsHeld
<1>1. NiInv => RequestsHeld
  <2>. SUFFICES ASSUME NiInv PROVE RequestsHeld
    OBVIOUS
  <2>1. DataHeldOnce
    <3>. SUFFICES ASSUME NEW n \in Requests
         PROVE  /\ payload[n] # "corrupt"
                /\ Cardinality(Holders(n)) = IF payload[n] = "alive" THEN 1 ELSE 0
      BY DEF DataHeldOnce
    <3>1. \A h : Cardinality({h}) = 1
      BY FS_Singleton
    <3>2. Cardinality({}) = 0
      BY FS_EmptySet
    <3>3. payload[n] # "corrupt"
      BY DEF NiInv, PayloadInv
    <3>. QED
      BY <3>1, <3>2, <3>3, HoldersOnce
  <2>2. HeldIsWaitedFor
    BY DEF HeldIsWaitedFor, NiInv, SessionInv, Spawning
  <2>. QED
    BY <2>1, <2>2 DEF RequestsHeld, NiInv
<1>. QED
  BY <1>1, NiInvariant, PTL

(* niThreadProc tells the modem NO_RESPONSE after a time-out; any other    *)
(* answer is a response the framework gave to a request of the same kind,  *)
(* or to one it was shown without its id.                                  *)
THEOREM AnswersAreTheUsers == Spec => []AnswerIsFromUser
<1>1. NiInv => AnswerIsFromUser
  BY DEF NiInv, AnswerInv, AnswerIsFromUser
<1>. QED
  BY <1>1, NiInvariant, PTL
=============================================================================
