----------------------------- MODULE RilSapProofs ----------------------------
(***************************************************************************)
(* SIM access for any number of requests and frameworks: the memory of a   *)
(* request is freed once and in time, it is answered once, and a framework *)
(* that registered is heard.                                               *)
(***************************************************************************)
EXTENDS RilSap, SequenceTheorems, WellFoundedInduction, TLAPS

-----------------------------------------------------------------------------
(* The inductive invariant.                                                *)

Names == {"none", "connect", "disconnect", "apdu", "transferAtr", "power", "resetSim",
          "transferCardReaderStatus", "setTransferProtocol"}
BinderSteps == {"idle", "fail", "payload", "dispatch", "onRequest", "free", "reset"}
VendorSteps == {"none", "has", "call", "reset", "dequeue", "done"}
WithVendor(r) == vendor[r] \notin {"none", "done"}
OnBinder(r, at) == Binder(at) /\ binder.of = r

TypeInv ==
  /\ stage \in {"starting", "listed", "serving"} /\ hasSocket \in BOOLEAN
  /\ framework \in 0 .. MaxFrameworks /\ sapCallback \in 0 .. framework
  /\ alive \in BOOLEAN /\ told \in BOOLEAN /\ raced \in BOOLEAN
  /\ serial \in Nat /\ made \in 0 .. Calls
  /\ binder \in [at : BinderSteps, of : 0 .. Calls]
  /\ request \in [Requests -> [id : Names, token : Nat]]
  /\ mem \in [Requests -> SUBSET Blocks] /\ twice \in BOOLEAN
  /\ stale \subseteq {"msg", "wrapper", "listed"}
  /\ queue \in Seq(Requests)
  /\ vendor \in [Requests -> VendorSteps]
  /\ unsol \in {"idle", "call", "reset"}
  /\ answers \in [Requests -> Nat] /\ lost \subseteq Requests /\ reused \in BOOLEAN

(* Where a request is.  The Binder thread has one that was made; the       *)
(* vendor gets it when the Binder thread gives it away.                    *)
PlaceInv ==
  /\ ~Binder("idle") => /\ binder.of \in 1 .. made
                        /\ ~Binder("free") => vendor[binder.of] = "none"
  /\ \A r \in Requests : r > made => vendor[r] = "none" /\ mem[r] = {}

(* The list holds each request once, and only one the vendor has, had or   *)
(* is about to get.                                                        *)
QueueInv ==
  /\ \A i, j \in DOMAIN queue : queue[i] = queue[j] => i = j
  /\ \A i \in DOMAIN queue : /\ "wrapper" \in mem[queue[i]]
                             /\ vendor[queue[i]] # "none" \/ OnBinder(queue[i], "onRequest")

(* What the request on the Binder thread, or with the vendor, holds,       *)
(* whatever became of its list entry.                                      *)
HeldInv ==
  /\ Binder("payload") => {"msg", "buffer"} \subseteq mem[binder.of]
  /\ Binder("dispatch") \/ Binder("onRequest") =>
       {"msg", "buffer", "payload"} \subseteq mem[binder.of]
  /\ Binder("free") => {"buffer", "payload"} \subseteq mem[binder.of]
  /\ \A r \in Requests : WithVendor(r) => "msg" \in mem[r]

(* While no token is used twice, entries can be told apart, and the list   *)
(* is that of the requests with the vendor.                                *)
KeysInv ==
  ~reused =>
    /\ \A i, j \in DOMAIN queue : SameKey(queue[i], queue[j]) => i = j
    /\ ToSet(queue) = {r \in Requests : WithVendor(r) \/ OnBinder(r, "onRequest")}

(* What a request may hold at most, by where it is: the Binder thread has  *)
(* the payload and its buffer, the vendor the message and the list entry.  *)
OnceHeld(r) ==
  {"command"}
  \cup (IF OnBinder(r, "payload") THEN {"msg", "buffer"} ELSE {})
  \cup (IF OnBinder(r, "dispatch") \/ OnBinder(r, "onRequest")
        THEN {"msg", "buffer", "payload"} ELSE {})
  \cup (IF OnBinder(r, "free") THEN {"buffer", "payload"} ELSE {})
  \cup (IF WithVendor(r) THEN {"msg"} ELSE {})
  \cup (IF r \in ToSet(queue) THEN {"wrapper"} ELSE {})

ReturnedInv == ~reused => \A r \in Requests : mem[r] \subseteq OnceHeld(r)

StaleInv == ~reused => stale \subseteq {"msg"}

MemoryInv == PlaceInv /\ QueueInv /\ HeldInv /\ ~twice /\ KeysInv /\ ReturnedInv /\ StaleInv

(* A request is open until its answer is given or given up.                *)
Open(r) ==
  \/ r > made
  \/ vendor[r] \in {"has", "call"}
  \/ ~Binder("idle") /\ ~Binder("reset") /\ ~Binder("free") /\ binder.of = r

AnswerInv ==
  \A r \in Requests :
    IF Open(r) THEN answers[r] = 0 /\ r \notin lost
               ELSE \/ answers[r] = 1 /\ r \notin lost
                    \/ answers[r] = 0 /\ r \in lost

(* Nobody is about to reset the callbacks of a framework that registered.  *)
Resetting == Binder("reset") \/ unsol = "reset" \/ \E r \in Requests : vendor[r] = "reset"

HeardInv ==
  /\ told => Running
  /\ alive /\ told /\ ~raced => sapCallback = framework /\ ~Resetting

IInv == TypeInv /\ MemoryInv /\ AnswerInv /\ HeardInv

-----------------------------------------------------------------------------
(* The steps, told apart once.                                             *)

Ids == [name : Names \ {"none"}, command : {{}, {"command"}}]

(* Whichever step of a request fails, what it held is freed.               *)
LEMMA FailureFreesAll ==
  ASSUME NEW id \in Ids, NEW step \in Steps(id)
  PROVE  Held(id, step) = FreedBy(id, step)
<1>1. step \in {"header", "command", "size", "buffer", "encode"}
  BY DEF Steps, Ids
<1>2. CASE step = "header"
  BY <1>2 DEF Held, FreedBy
<1>3. CASE step = "command"
  BY <1>3 DEF Held, FreedBy
<1>4. CASE step = "size"
  BY <1>4 DEF Held, FreedBy
<1>5. CASE step = "buffer"
  BY <1>5 DEF Held, FreedBy
<1>6. CASE step = "encode"
  BY <1>6 DEF Held, FreedBy
<1> QED BY <1>1, <1>2, <1>3, <1>4, <1>5, <1>6

(* The memory a request has when its encoding ends, and where it goes on.  *)
Encoded(r) ==
  \/ mem' = [mem EXCEPT ![r] = {}] /\ binder' = [at |-> "fail", of |-> r]
  \/ \E c \in {{}, {"command"}} :
       /\ mem' = [mem EXCEPT ![r] = @ \cup {"msg", "buffer"} \cup c]
       /\ binder' = [at |-> "payload", of |-> r]

RequestMade ==
  /\ Running /\ Binder("idle") /\ alive /\ told /\ made < Calls
  /\ made' = made + 1 /\ serial' = serial + 1
  /\ \E name \in Names : request' = [request EXCEPT ![made + 1] = [id |-> name, token |-> serial + 1]]
  /\ Encoded(made + 1) /\ twice' = twice
  /\ UNCHANGED <<processVars, framework, alive, told, sapCallback, raced, unsol, queue,
                 vendor, stale, answerVars, reused>>

LEMMA EncodeMakes ==
  ASSUME TypeInv, NEW id \in Ids, encode(id)
  PROVE  RequestMade
<1>1. id.name \in Names /\ id.command \in {{}, {"command"}}
  BY DEF Ids
<1>2. Encoded(made + 1) /\ twice' = twice
  <2>1. ASSUME NEW step \in Steps(id),
               mem' = [mem EXCEPT ![made + 1] = Held(id, step) \ FreedBy(id, step)],
               twice' = (twice \/ ~(FreedBy(id, step) \subseteq Held(id, step))),
               binder' = [at |-> "fail", of |-> made + 1]
        PROVE  Encoded(made + 1) /\ twice' = twice
    <3>1. Held(id, step) = FreedBy(id, step)
      BY FailureFreesAll
    <3>2. Held(id, step) \ FreedBy(id, step) = {} /\ FreedBy(id, step) \subseteq Held(id, step)
      BY <3>1
    <3>3. twice' = twice
      BY <2>1, <3>2 DEF TypeInv
    <3>4. mem' = [mem EXCEPT ![made + 1] = {}]
      BY <2>1, <3>2
    <3> QED BY <2>1, <3>3, <3>4 DEF Encoded
  <2>2. ASSUME Alloc(made + 1, {"msg", "buffer"} \cup id.command),
               binder' = [at |-> "payload", of |-> made + 1]
        PROVE  Encoded(made + 1) /\ twice' = twice
    <3>1. mem' = [mem EXCEPT ![made + 1] = @ \cup {"msg", "buffer"} \cup id.command]
      BY <2>2 DEF Alloc
    <3> QED BY <1>1, <2>2, <3>1 DEF Encoded, Alloc
  <2> QED BY <2>1, <2>2 DEF encode
<1> QED BY <1>1, <1>2 DEF encode, RequestMade

LEMMA RequestsMake ==
  ASSUME TypeInv,
         connectReq \/ disconnectReq \/ apduReq \/ transferAtrReq \/ powerReq \/ resetSimReq
           \/ transferCardReaderStatusReq \/ setTransferProtocolReq
  PROVE  RequestMade
<1>1. \A name \in Names \ {"none"}, c \in {{}, {"command"}} : [name |-> name, command |-> c] \in Ids
  BY DEF Ids
<1>2. PICK id \in Ids : encode(id)
  BY <1>1 DEF connectReq, disconnectReq, apduReq, transferAtrReq, powerReq, resetSimReq,
              transferCardReaderStatusReq, setTransferProtocolReq, Plain, Names
<1> QED BY <1>2, EncodeMakes


LEMMA StaleStep ==
  ASSUME TypeInv, MemoryInv, Next
  PROVE  /\ stale' \subseteq {"msg", "wrapper", "listed"}
         /\ ~reused => stale' \subseteq {"msg"}
<1>1. stale \subseteq {"msg", "wrapper", "listed"} /\ (~reused => stale \subseteq {"msg"})
  BY DEF TypeInv, MemoryInv, StaleInv
<1>2. CASE stale' = stale
  BY <1>1, <1>2
<1>3. CASE freePayload
  BY <1>1, <1>3 DEF freePayload
<1>4. ASSUME NEW r \in Requests, onRequestComplete(r)
      PROVE  stale' \subseteq {"msg", "wrapper", "listed"} /\ (~reused => stale' \subseteq {"msg"})
  <2>1. stale' = stale \cup ({"wrapper"} \ mem[r])
    BY <1>4 DEF onRequestComplete
  <2>2. ASSUME ~reused PROVE "wrapper" \in mem[r]
    <3>1. WithVendor(r)
      BY <1>4 DEF onRequestComplete, VendorAt, WithVendor
    <3>2. r \in ToSet(queue)
      BY <2>2, <3>1 DEF MemoryInv, KeysInv
    <3> QED BY <3>2 DEF MemoryInv, QueueInv, ToSet
  <2> QED BY <1>1, <2>1, <2>2
<1>5. ASSUME NEW r \in Requests, checkAndDequeue(r)
      PROVE  stale' \subseteq {"msg", "wrapper", "listed"} /\ (~reused => stale' \subseteq {"msg"})
  <2> DEFINE found == {i \in 1 .. Len(queue) : SameKey(queue[i], r)}
             first == CHOOSE i \in found : \A j \in found : i <= j
             read  == {queue[i] : i \in 1 .. (IF found = {} THEN Len(queue) ELSE first)}
  <2>1. stale' = stale \cup (IF \A q \in read : "msg" \in mem[q] THEN {} ELSE {"listed"})
    BY <1>5 DEF checkAndDequeue
  <2>2. ASSUME ~reused PROVE \A q \in read : "msg" \in mem[q]
    <3>1. r \in ToSet(queue)
      BY <1>5, <2>2 DEF checkAndDequeue, VendorAt, WithVendor, MemoryInv, KeysInv
    <3>2. PICK k \in 1 .. Len(queue) : queue[k] = r
      BY <3>1 DEF ToSet, TypeInv
    <3>3. found = {k}
      <4>1. k \in found
        BY <3>2 DEF SameKey
      <4>2. ASSUME NEW i \in found PROVE i = k
        <5>1. DOMAIN queue = 1 .. Len(queue)
          BY DEF TypeInv
        <5>2. i \in DOMAIN queue /\ k \in DOMAIN queue /\ SameKey(queue[i], queue[k])
          BY <3>2, <5>1
        <5> QED BY <2>2, <5>2 DEF MemoryInv, KeysInv
      <4> QED BY <4>1, <4>2
    <3>4. first = k
      BY <3>2, <3>3
    <3>5. \A q \in read : q \in ToSet(queue)
      <4> HIDE DEF found, first
      <4>1. read = {queue[i] : i \in 1 .. k} /\ DOMAIN queue = 1 .. Len(queue)
        BY <3>3, <3>4 DEF TypeInv
      <4>2. 1 .. k \subseteq 1 .. Len(queue)
        BY DEF TypeInv
      <4> HIDE DEF read
      <4> QED BY <4>1, <4>2 DEF ToSet
    <3>6. \A q \in ToSet(queue) : "msg" \in mem[q]
      BY <2>2 DEF MemoryInv, KeysInv, HeldInv, OnBinder
    <3> QED BY <3>5, <3>6
  <2> QED BY <1>1, <2>1, <2>2
<1>6. CASE processNext \/ frameworkNext \/ unsolNext
  <2>1. ASSUME RequestMade PROVE stale' = stale
    BY <2>1 DEF RequestMade
  <2> QED BY <1>2, <1>6, <2>1, RequestsMake
          DEF processNext, initSapSocket, registerService, frameworkNext, frameworkStarts, frameworkDies,
              setCallback, memoryVars, unsolNext, onUnsolicitedResponse, indication, unsolResets, unsolFrame
<1>7. CASE binderNext
  BY <1>2, <1>3, <1>7 DEF binderNext, addPayload, dispatchRequest, onRequest, sendFailedResponse,
                          binderResets, memoryVars
<1>8. ASSUME NEW r \in Requests, vendorNext(r)
      PROVE  stale' \subseteq {"msg", "wrapper", "listed"} /\ (~reused => stale' \subseteq {"msg"})
  BY <1>2, <1>4, <1>5, <1>8 DEF vendorNext, response, vendorResets, memoryVars
<1> QED BY <1>6, <1>7, <1>8 DEF Next

-----------------------------------------------------------------------------
(* The process dies: nothing is held, nothing is open.                     *)

LEMMA CrashStep ==
  ASSUME IInv, Next, crash
  PROVE  IInv'
<1>1. TypeInv'
  <2>1. TypeInv /\ stale' \subseteq {"msg", "wrapper", "listed"}
    BY StaleStep DEF IInv
  <2>2. binder' \in [at : BinderSteps, of : 0 .. Calls]
    BY BoundsAssumption DEF crash, Idle, BinderSteps
  <2>6. sapCallback' \in 0 .. framework' /\ raced' \in BOOLEAN
    <3>1. framework \in Nat
      BY BoundsAssumption, <2>1 DEF TypeInv
    <3>2. sapCallback' = 0 /\ framework' = framework
      BY DEF crash, None
    <3>3. raced' \in BOOLEAN
      BY DEF crash
    <3> QED BY <3>1, <3>2, <3>3
  <2>3. request' \in [Requests -> [id : Names, token : Nat]]
    BY DEF crash, NoRequest, Names
  <2>4. mem' \in [Requests -> SUBSET Blocks] /\ vendor' \in [Requests -> VendorSteps] /\ lost' \subseteq Requests
    <3>1. made \in Nat /\ made <= Calls /\ Calls \in Nat /\ lost \subseteq Requests
      BY BoundsAssumption, <2>1 DEF TypeInv
    <3>2. 1 .. made \subseteq Requests
      BY <3>1 DEF Requests
    <3> QED BY <3>1, <3>2 DEF crash, VendorSteps
  <2>5. queue' \in Seq(Requests)
    BY DEF crash
  <2> QED BY <2>1, <2>2, <2>3, <2>4, <2>5, <2>6 DEF TypeInv, crash, frameworkVars, answerVars
<1>2. PlaceInv'
  BY DEF IInv, TypeInv, crash, PlaceInv, Binder, Idle, Requests
<1>3. queue' = <<>> /\ DOMAIN queue' = {} /\ ToSet(queue') = {}
  BY DEF crash, ToSet
<1>4. QueueInv'
  BY <1>3 DEF QueueInv
<1>5. \A r \in Requests : (~WithVendor(r) /\ ~Binder("onRequest"))' /\ mem'[r] = {}
  BY DEF crash, WithVendor, Binder, Idle
<1>6. HeldInv'
  BY <1>5 DEF HeldInv, crash, Binder, Idle
<1>7. KeysInv'
  BY <1>3, <1>5 DEF KeysInv, OnBinder
<1>8. ReturnedInv'
  BY <1>5 DEF ReturnedInv
<1>9. StaleInv' /\ twice' = FALSE
  BY StaleStep DEF IInv, TypeInv, MemoryInv, StaleInv, crash
<1>10. AnswerInv'
  <2>1. ASSUME NEW r \in Requests, r > made
        PROVE  Open(r) /\ Open(r)' /\ answers'[r] = answers[r] /\ (r \in lost' <=> r \in lost)
    BY <2>1 DEF Open, crash, Requests, IInv, TypeInv
  <2>2. ASSUME NEW r \in Requests, r <= made
        PROVE  ~Open(r)' /\ answers'[r] = answers[r] /\ (r \in lost' <=> r \in lost \/ answers[r] = 0)
    BY <2>2 DEF Open, crash, Binder, Idle, Requests, IInv, TypeInv
  <2>3. \A r \in Requests : r > made \/ r <= made
    BY DEF IInv, TypeInv, Requests
  <2> QED BY <2>1, <2>2, <2>3 DEF AnswerInv, IInv
<1>11. HeardInv'
  BY DEF HeardInv, crash
<1> QED BY <1>1, <1>2, <1>4, <1>6, <1>7, <1>8, <1>9, <1>10, <1>11 DEF IInv, MemoryInv

-----------------------------------------------------------------------------
(* The types, and the steps that touch no memory.                          *)

LEMMA BinderType ==
  ASSUME TypeInv, PlaceInv
  PROVE  /\ DOMAIN queue = 1 .. Len(queue) /\ Len(queue) \in Nat
         /\ made \in Nat /\ made <= Calls /\ Calls \in Nat
         /\ ~Binder("idle") => binder.of \in Requests /\ binder.of <= made
         /\ made < Calls => made + 1 \in Requests
BY BoundsAssumption DEF TypeInv, PlaceInv, Requests

LEMMA GoType ==
  ASSUME TypeInv, NEW at \in BinderSteps, Go(at)
  PROVE  /\ binder' = [at |-> at, of |-> binder.of]
         /\ binder' \in [at : BinderSteps, of : 0 .. Calls]
BY DEF TypeInv, Go

(* Every non-empty set of naturals has a least element: the first entry    *)
(* that checkAndDequeue looks for.                                         *)
LEMMA LeastNatural ==
  ASSUME NEW T, T \subseteq Nat, T # {}
  PROVE  \E x \in T : \A y \in T : x <= y
<1>1. PICK x \in T : \A y \in T : ~ (<<y, x>> \in OpToRel(<, Nat))
  BY NatLessThanWellFounded, WFMin
<1>2. ASSUME NEW y \in T PROVE x <= y
  <2>1. x \in Nat /\ y \in Nat /\ ~(y < x)
    BY <1>1 DEF OpToRel
  <2> QED BY <2>1
<1> QED BY <1>2

(* A new entry at the head of a list, and an entry taken out of it.        *)
LEMMA PushedList ==
  ASSUME NEW S, NEW list \in Seq(S), NEW x \in S
  PROVE  LET new == <<x>> \o list
         IN /\ new \in Seq(S) /\ DOMAIN new = 1 .. Len(list) + 1 /\ Len(list) \in Nat
            /\ new[1] = x /\ \A j \in 1 .. Len(list) : new[j + 1] = list[j]
            /\ \A j \in DOMAIN new : j = 1 \/ (j - 1 \in DOMAIN list /\ new[j] = list[j - 1])
            /\ ToSet(new) = ToSet(list) \cup {x}
<1> DEFINE new == <<x>> \o list
<1>1. <<x>> \in Seq(S) /\ Len(<<x>>) = 1 /\ <<x>>[1] = x /\ Len(list) \in Nat
  OBVIOUS
<1>2. /\ new \in Seq(S) /\ Len(new) = 1 + Len(list)
      /\ \A i \in 1 .. 1 + Len(list) : new[i] = IF i <= 1 THEN <<x>>[i] ELSE list[i - 1]
  BY <1>1, ConcatProperties
<1> HIDE DEF new
<1>3. DOMAIN new = 1 .. Len(list) + 1 /\ DOMAIN list = 1 .. Len(list)
  BY <1>1, <1>2
<1>4. new[1] = x /\ \A j \in 1 .. Len(list) : new[j + 1] = list[j]
  BY <1>1, <1>2
<1>5. \A j \in DOMAIN new : j = 1 \/ (j - 1 \in DOMAIN list /\ new[j] = list[j - 1])
  <2>1. ASSUME NEW j \in DOMAIN new, j # 1 PROVE j - 1 \in 1 .. Len(list) /\ j \in 1 .. 1 + Len(list) /\ ~(j <= 1)
    BY <1>1, <1>3, <2>1
  <2> QED BY <1>2, <1>3, <2>1
<1>6. ToSet(new) \subseteq ToSet(list) \cup {x}
  BY <1>4, <1>5 DEF ToSet
<1>7. \A j \in DOMAIN list : j + 1 \in DOMAIN new /\ new[j + 1] = list[j]
  BY <1>1, <1>3, <1>4
<1>8. ToSet(list) \cup {x} \subseteq ToSet(new)
  <2>1. 1 \in DOMAIN new
    BY <1>1, <1>3
  <2> QED BY <2>1, <1>4, <1>7 DEF ToSet
<1>9. ToSet(new) = ToSet(list) \cup {x}
  BY <1>6, <1>8
<1> QED BY <1>1, <1>2, <1>3, <1>4, <1>5, <1>9 DEF new

LEMMA TakenList ==
  ASSUME NEW S, NEW list \in Seq(S), NEW i \in DOMAIN list
  PROVE  LET new == RemoveAt(list, i)
             from(j) == IF j < i THEN j ELSE j + 1
         IN /\ new \in Seq(S)
            /\ \A j \in DOMAIN new : from(j) \in DOMAIN list \ {i} /\ new[j] = list[from(j)] /\ j \in Nat
            /\ \A k \in DOMAIN list \ {i} : \E j \in DOMAIN new : from(j) = k
<1> DEFINE new == RemoveAt(list, i)
           from(j) == IF j < i THEN j ELSE j + 1
           n == Len(list)
           left == SubSeq(list, 1, i - 1)
           right == SubSeq(list, i + 1, n)
<1>1. n \in Nat /\ i \in 1 .. n /\ DOMAIN list = 1 .. n /\ \A k \in 1 .. n : list[k] \in S
  OBVIOUS
<1> HIDE DEF n
<1>2. /\ left \in Seq(S) /\ Len(left) = i - 1
      /\ \A j \in 1 .. i - 1 : left[j] = list[j]
  <2>1. 1 \in Int /\ i - 1 \in Int /\ \A j \in 1 .. i - 1 : list[j] \in S
    BY <1>1
  <2>2. /\ left \in Seq(S)
        /\ Len(left) = IF 1 <= i - 1 THEN i - 1 - 1 + 1 ELSE 0
        /\ \A j \in 1 .. i - 1 - 1 + 1 : left[j] = list[1 + j - 1]
    BY <2>1, SubSeqProperties
  <2> HIDE DEF left
  <2>3. \A j \in 1 .. i - 1 : j \in 1 .. i - 1 - 1 + 1 /\ 1 + j - 1 = j
    BY <1>1
  <2>4. Len(left) = i - 1
    BY <1>1, <2>2
  <2> QED BY <2>2, <2>3, <2>4
<1>3. /\ right \in Seq(S) /\ Len(right) = n - i
      /\ \A j \in 1 .. n - i : right[j] = list[j + i]
  <2>1. i + 1 \in Int /\ n \in Int /\ \A j \in i + 1 .. n : list[j] \in S
    BY <1>1
  <2>2. /\ right \in Seq(S)
        /\ Len(right) = IF i + 1 <= n THEN n - (i + 1) + 1 ELSE 0
        /\ \A j \in 1 .. n - (i + 1) + 1 : right[j] = list[i + 1 + j - 1]
    BY <2>1, SubSeqProperties
  <2> HIDE DEF right
  <2>3. \A j \in 1 .. n - i : j \in 1 .. n - (i + 1) + 1 /\ i + 1 + j - 1 = j + i
    BY <1>1
  <2>4. Len(right) = n - i
    BY <1>1, <2>2
  <2> QED BY <2>2, <2>3, <2>4
<1>4. new = left \o right
  BY DEF RemoveAt, n
<1> HIDE DEF left, right
<1>5. /\ new \in Seq(S) /\ Len(new) = i - 1 + (n - i)
      /\ \A j \in 1 .. i - 1 + (n - i) : new[j] = IF j <= i - 1 THEN left[j] ELSE right[j - (i - 1)]
  BY <1>2, <1>3, <1>4, ConcatProperties
<1> HIDE DEF new
<1>6. DOMAIN new = 1 .. n - 1
  BY <1>1, <1>5
<1>7. ASSUME NEW j \in DOMAIN new PROVE from(j) \in DOMAIN list \ {i} /\ new[j] = list[from(j)] /\ j \in Nat
  <2>1. j \in 1 .. n - 1 /\ j \in 1 .. i - 1 + (n - i)
    BY <1>1, <1>6
  <2>2. CASE j < i
    <3>1. j \in 1 .. i - 1 /\ j <= i - 1
      BY <1>1, <2>1, <2>2
    <3> QED BY <1>1, <1>2, <1>5, <2>1, <2>2, <3>1
  <2>3. CASE ~(j < i)
    <3>1. j - (i - 1) \in 1 .. n - i /\ ~(j <= i - 1) /\ j - (i - 1) + i = j + 1 /\ j + 1 \in 1 .. n
      BY <1>1, <2>1, <2>3
    <3>2. new[j] = list[j + 1]
      BY <1>3, <1>5, <2>1, <3>1
    <3> QED BY <1>1, <2>1, <2>3, <3>1, <3>2
  <2> QED BY <2>2, <2>3
<1>8. ASSUME NEW k \in DOMAIN list \ {i} PROVE \E j \in DOMAIN new : from(j) = k
  <2>1. CASE k < i
    BY <1>1, <1>6, <2>1
  <2>2. CASE ~(k < i)
    <3>1. k - 1 \in DOMAIN new /\ from(k - 1) = k
      BY <1>1, <1>6, <2>2
    <3> QED BY <3>1
  <2> QED BY <2>1, <2>2
<1> QED BY <1>5, <1>7, <1>8 DEF new

(* The memory and the answers do not change hands: nothing about them does.  *)
LEMMA QuietMemory ==
  ASSUME MemoryInv, StaleInv',
         UNCHANGED <<binder, made, request, mem, twice, queue, vendor, reused>>
  PROVE  MemoryInv'
<1>1. \A r \in Requests : WithVendor(r)' = WithVendor(r)
  BY DEF WithVendor
<1> QED BY <1>1 DEF MemoryInv, PlaceInv, QueueInv, HeldInv, KeysInv, ReturnedInv, OnceHeld, OnBinder,
               Binder, SameKey, WithVendor, ToSet

(* The Binder thread moves on, with nothing in its hands.                  *)
LEMMA BinderMoves ==
  ASSUME TypeInv, MemoryInv, StaleInv', Binder("fail") \/ Binder("reset"),
         binder'.of = binder.of, binder'.at \in {"idle", "reset"},
         UNCHANGED <<made, request, mem, twice, queue, vendor, reused>>
  PROVE  MemoryInv'
<1>1. PlaceInv'
  BY DEF MemoryInv, PlaceInv, Binder
<1>2. \A r : ~OnBinder(r, "onRequest") /\ ~OnBinder(r, "onRequest")'
  BY DEF OnBinder, Binder
<1>3. QueueInv'
  BY <1>2 DEF MemoryInv, QueueInv
<1>4. HeldInv'
  BY DEF MemoryInv, HeldInv, Binder, WithVendor
<1>5. KeysInv'
  BY <1>2 DEF MemoryInv, KeysInv, SameKey, WithVendor, ToSet
<1>6. ReturnedInv'
  BY DEF MemoryInv, ReturnedInv, OnceHeld, OnBinder, Binder, WithVendor, ToSet
<1> QED BY <1>1, <1>3, <1>4, <1>5, <1>6 DEF MemoryInv

(* A vendor thread moves on with its request.                              *)
LEMMA VendorMoves ==
  ASSUME TypeInv, MemoryInv, StaleInv', NEW r \in Requests, WithVendor(r),
         NEW at \in {"call", "reset", "dequeue"}, VendorGo(r, at),
         UNCHANGED <<binder, made, request, mem, twice, queue, reused>>
  PROVE  MemoryInv'
<1>1. \A q \in Requests : WithVendor(q)' <=> WithVendor(q)
  BY DEF WithVendor, VendorGo, TypeInv
<1>2. \A q \in Requests : vendor'[q] = "none" <=> vendor[q] = "none"
  BY DEF WithVendor, VendorGo, TypeInv
<1>3. PlaceInv'
  BY <1>2, BinderType DEF MemoryInv, PlaceInv, Binder
<1>4. QueueInv'
  BY <1>2, BinderType DEF MemoryInv, QueueInv, OnBinder, Binder, TypeInv
<1>5. HeldInv'
  BY <1>1 DEF MemoryInv, HeldInv, Binder
<1>6. KeysInv'
  BY <1>1 DEF MemoryInv, KeysInv, SameKey, OnBinder, Binder, ToSet
<1>7. ReturnedInv'
  BY <1>1 DEF MemoryInv, ReturnedInv, OnceHeld, OnBinder, Binder, ToSet
<1> QED BY <1>3, <1>4, <1>5, <1>6, <1>7 DEF MemoryInv

-----------------------------------------------------------------------------
(* The steps that take or free memory.                                     *)

LEMMA MakeStep ==
  ASSUME TypeInv, MemoryInv, RequestMade, StaleInv'
  PROVE  MemoryInv'
<1>1. PICK r \in Requests : r = made + 1 /\ made' = r /\ made \in Nat /\ vendor[r] = "none" /\ mem[r] = {}
  BY BinderType DEF RequestMade, MemoryInv, PlaceInv
<1>2. /\ binder'.of = r /\ binder'.at \in {"fail", "payload"} /\ Binder("idle")
      /\ \/ Binder("fail")' /\ mem'[r] = {}
         \/ /\ Binder("payload")'
            /\ {"msg", "buffer"} \subseteq mem'[r] /\ mem'[r] \subseteq {"msg", "buffer", "command"}
      /\ \A q \in Requests \ {r} : mem'[q] = mem[q]
  <2>1. Binder("idle") /\ Encoded(r) /\ mem \in [Requests -> SUBSET Blocks]
    BY <1>1 DEF RequestMade, TypeInv
  <2>2. CASE mem' = [mem EXCEPT ![r] = {}] /\ binder' = [at |-> "fail", of |-> r]
    BY <1>1, <2>1, <2>2 DEF Binder
  <2>3. ASSUME NEW c \in {{}, {"command"}}, mem' = [mem EXCEPT ![r] = @ \cup {"msg", "buffer"} \cup c],
               binder' = [at |-> "payload", of |-> r]
        PROVE  /\ binder'.of = r /\ Binder("payload")'
               /\ {"msg", "buffer"} \subseteq mem'[r] /\ mem'[r] \subseteq {"msg", "buffer", "command"}
               /\ \A q \in Requests \ {r} : mem'[q] = mem[q]
    BY <1>1, <2>1, <2>3 DEF Binder
  <2> QED BY <2>1, <2>2, <2>3 DEF Encoded, Binder
<1>10. /\ \A q \in Requests \ {r} : request'[q] = request[q]
       /\ UNCHANGED <<twice, queue, vendor, reused>>
  BY <1>1 DEF RequestMade, TypeInv
<1>3. \A i \in DOMAIN queue : queue[i] \in Requests \ {r}
  BY <1>1, <1>2 DEF MemoryInv, QueueInv, OnBinder, Binder, TypeInv
<1>4. \A q \in Requests : ~OnBinder(q, "onRequest") /\ ~OnBinder(q, "onRequest")'
  BY <1>2 DEF OnBinder, Binder
<1>5. PlaceInv'
  BY <1>1, <1>2, <1>10 DEF MemoryInv, PlaceInv, Binder, Requests
<1>6. QueueInv'
  BY <1>2, <1>10, <1>3, <1>4 DEF MemoryInv, QueueInv
<1>7. HeldInv'
  BY <1>1, <1>2, <1>10 DEF MemoryInv, HeldInv, Binder, WithVendor
<1>8. KeysInv'
  BY <1>2, <1>10, <1>3, <1>4 DEF MemoryInv, KeysInv, SameKey, WithVendor, ToSet
<1>9. ReturnedInv'
  <2>1. ASSUME NEW q \in Requests \ {r}, ~reused PROVE mem'[q] \subseteq OnceHeld(q)'
    BY <1>2, <1>10, <2>1 DEF MemoryInv, ReturnedInv, OnceHeld, OnBinder, Binder, WithVendor, ToSet
  <2>2. mem'[r] \subseteq OnceHeld(r)'
    BY <1>2 DEF OnceHeld, OnBinder, Binder
  <2> QED BY <1>10, <2>1, <2>2 DEF ReturnedInv
<1> QED BY <1>10, <1>5, <1>6, <1>7, <1>8, <1>9 DEF MemoryInv

LEMMA AddStep ==
  ASSUME TypeInv, MemoryInv, addPayload, StaleInv'
  PROVE  MemoryInv'
<1>1. PICK r \in Requests : binder.of = r /\ r <= made /\ vendor[r] = "none" /\ Binder("payload") /\ {"msg", "buffer"} \subseteq mem[r]
  BY BinderType DEF addPayload, MemoryInv, PlaceInv, HeldInv, Binder
<1>2. /\ binder'.of = r
      /\ \/ Binder("fail")' /\ mem'[r] = mem[r] \ {"buffer", "msg"}
         \/ Binder("dispatch")' /\ mem'[r] = mem[r] \cup {"payload"}
      /\ \A q \in Requests \ {r} : mem'[q] = mem[q]
      /\ twice' = twice
      /\ UNCHANGED <<made, request, queue, vendor, reused>>
  BY <1>1, GoType DEF addPayload, Release, Alloc, Binder, TypeInv, BinderSteps
<1>3. \A i \in DOMAIN queue : queue[i] \in Requests \ {r}
  BY <1>1 DEF MemoryInv, QueueInv, OnBinder, Binder, TypeInv
<1>4. \A q \in Requests : ~OnBinder(q, "onRequest") /\ ~OnBinder(q, "onRequest")'
  BY <1>1, <1>2 DEF OnBinder, Binder
<1>5. PlaceInv'
  BY <1>1, <1>2 DEF MemoryInv, PlaceInv, Binder, Requests
<1>6. QueueInv'
  BY <1>2, <1>3, <1>4 DEF MemoryInv, QueueInv
<1>7. HeldInv'
  BY <1>1, <1>2 DEF MemoryInv, HeldInv, Binder, WithVendor
<1>8. KeysInv'
  BY <1>2, <1>4 DEF MemoryInv, KeysInv, SameKey, WithVendor, ToSet
<1>9. ReturnedInv'
  BY <1>1, <1>2 DEF MemoryInv, ReturnedInv, OnceHeld, OnBinder, Binder, WithVendor, ToSet
<1> QED BY <1>2, <1>5, <1>6, <1>7, <1>8, <1>9 DEF MemoryInv

LEMMA DispatchStep ==
  ASSUME TypeInv, MemoryInv, dispatchRequest, StaleInv'
  PROVE  MemoryInv'
<1>1. PICK r \in Requests : binder.of = r /\ r <= made /\ vendor[r] = "none" /\ Binder("dispatch") /\ {"msg", "buffer", "payload"} \subseteq mem[r]
  BY BinderType DEF dispatchRequest, MemoryInv, PlaceInv, HeldInv, Binder
<1>2. \A i \in DOMAIN queue : queue[i] \in Requests \ {r}
  BY <1>1 DEF MemoryInv, QueueInv, OnBinder, Binder, TypeInv
<1>3. \A q \in Requests : ~OnBinder(q, "onRequest")
  BY <1>1 DEF OnBinder, Binder
<1>4. UNCHANGED <<made, request, vendor>>
  BY DEF dispatchRequest
<1>5. CASE Release(r, {"msg"}) /\ Go("free") /\ UNCHANGED <<queue, reused>>
  <2>1. /\ binder'.of = r /\ Binder("free")' /\ mem'[r] = mem[r] \ {"msg"}
        /\ \A q \in Requests \ {r} : mem'[q] = mem[q]
        /\ twice' = twice
        /\ UNCHANGED <<queue, reused>>
    BY <1>1, <1>5, GoType DEF Release, Binder, TypeInv, BinderSteps
  <2>2. \A q \in Requests : ~OnBinder(q, "onRequest")'
    BY <2>1 DEF OnBinder, Binder
  <2>5. PlaceInv'
    BY <1>1, <1>4, <2>1 DEF MemoryInv, PlaceInv, Binder, Requests
  <2>6. QueueInv'
    BY <1>2, <1>3, <1>4, <2>1, <2>2 DEF MemoryInv, QueueInv
  <2>7. HeldInv'
    BY <1>1, <1>4, <2>1 DEF MemoryInv, HeldInv, Binder, WithVendor
  <2>8. KeysInv'
    BY <1>3, <1>4, <2>1, <2>2 DEF MemoryInv, KeysInv, SameKey, WithVendor, ToSet
  <2>9. ReturnedInv'
    BY <1>1, <1>4, <2>1 DEF MemoryInv, ReturnedInv, OnceHeld, OnBinder, Binder, WithVendor, ToSet
  <2> QED BY <2>1, <2>5, <2>6, <2>7, <2>8, <2>9 DEF MemoryInv
<1>6. CASE /\ Alloc(r, {"wrapper"}) /\ queue' = <<r>> \o queue
           /\ reused' = (reused \/ \E q \in ToSet(queue) : SameKey(q, r))
           /\ Go("onRequest")
  <2>1. /\ binder'.of = r /\ Binder("onRequest")' /\ mem'[r] = mem[r] \cup {"wrapper"}
        /\ \A q \in Requests \ {r} : mem'[q] = mem[q]
        /\ twice' = twice
    BY <1>1, <1>6, GoType DEF Alloc, Binder, TypeInv, BinderSteps
  <2>2. \A q \in Requests : OnBinder(q, "onRequest")' <=> q = r
    BY <2>1 DEF OnBinder, Binder
  <2>3. /\ DOMAIN queue' = 1 .. Len(queue) + 1 /\ Len(queue) \in Nat
        /\ queue'[1] = r
        /\ \A j \in DOMAIN queue' : j = 1 \/ (j - 1 \in DOMAIN queue /\ queue'[j] = queue[j - 1])
        /\ ToSet(queue') = ToSet(queue) \cup {r}
    BY <1>1, <1>6, PushedList DEF TypeInv
  <2>5. PlaceInv'
    BY <1>1, <1>4, <2>1 DEF MemoryInv, PlaceInv, Binder, Requests
  <2>6. QueueInv'
    <3>1. ASSUME NEW i \in DOMAIN queue', NEW j \in DOMAIN queue', queue'[i] = queue'[j] PROVE i = j
      <4>1. CASE i = 1 \/ j = 1
        BY <1>2, <2>3, <3>1, <4>1
      <4>2. CASE i # 1 /\ j # 1
        <5>1. /\ i - 1 \in DOMAIN queue /\ j - 1 \in DOMAIN queue /\ queue[i - 1] = queue[j - 1]
              /\ i \in Nat /\ j \in Nat
          BY <2>3, <3>1, <4>2
        <5>2. i - 1 = j - 1
          BY <5>1 DEF MemoryInv, QueueInv
        <5> QED BY <5>1, <5>2
      <4> QED BY <4>1, <4>2
    <3>2. ASSUME NEW i \in DOMAIN queue'
          PROVE  "wrapper" \in mem'[queue'[i]] /\ (vendor'[queue'[i]] # "none" \/ queue'[i] = r)
      <4>1. CASE i = 1
        BY <1>1, <2>1, <2>2, <2>3, <4>1
      <4>2. CASE i # 1
        <5>1. i - 1 \in DOMAIN queue /\ queue'[i] = queue[i - 1] /\ queue[i - 1] \in Requests \ {r}
          BY <1>2, <2>3, <4>2
        <5> QED BY <1>3, <1>4, <2>1, <5>1 DEF MemoryInv, QueueInv
      <4> QED BY <4>1, <4>2
    <3> QED BY <2>1, <3>1, <3>2 DEF QueueInv, OnBinder
  <2>7. HeldInv'
    BY <1>1, <1>4, <2>1 DEF MemoryInv, HeldInv, Binder, WithVendor
  <2>8. KeysInv'
    <3>1. SUFFICES ASSUME ~reused'
                   PROVE  /\ \A i, j \in DOMAIN queue' : SameKey(queue'[i], queue'[j]) => i = j
                          /\ ToSet(queue') = {q \in Requests : WithVendor(q)' \/ OnBinder(q, "onRequest")'}
      BY <1>4 DEF KeysInv, SameKey
    <3>2. ~reused /\ \A q \in ToSet(queue) : ~SameKey(q, r) /\ ~SameKey(r, q)
      BY <1>6, <3>1 DEF TypeInv, SameKey
    <3>3. ToSet(queue) = {q \in Requests : WithVendor(q)}
      BY <1>3, <3>2 DEF MemoryInv, KeysInv
    <3>4. ASSUME NEW i \in DOMAIN queue', NEW j \in DOMAIN queue', SameKey(queue'[i], queue'[j]) PROVE i = j
      <4>2. CASE i = 1 \/ j = 1
        BY <2>3, <3>2, <3>4, <4>2 DEF ToSet
      <4>3. CASE i # 1 /\ j # 1
        <5>1. /\ i - 1 \in DOMAIN queue /\ j - 1 \in DOMAIN queue /\ SameKey(queue[i - 1], queue[j - 1])
              /\ i \in Nat /\ j \in Nat
          BY <2>3, <3>4, <4>3
        <5>2. i - 1 = j - 1
          BY <3>2, <5>1 DEF MemoryInv, KeysInv
        <5> QED BY <5>1, <5>2
      <4> QED BY <4>2, <4>3
    <3>5. ToSet(queue') = {q \in Requests : WithVendor(q)' \/ OnBinder(q, "onRequest")'}
      BY <1>1, <1>4, <2>2, <2>3, <3>3 DEF WithVendor
    <3> QED BY <3>4, <3>5
  <2>9. ReturnedInv'
    <3>1. ~reused' => ~reused
      BY <1>6 DEF TypeInv
    <3>2. ASSUME NEW q \in Requests, ~reused PROVE mem'[q] \subseteq OnceHeld(q)'
      BY <1>1, <1>4, <2>1, <2>3, <3>2 DEF MemoryInv, ReturnedInv, OnceHeld, OnBinder, Binder, WithVendor
    <3> QED BY <3>1, <3>2 DEF ReturnedInv
  <2> QED BY <2>1, <2>5, <2>6, <2>7, <2>8, <2>9 DEF MemoryInv
<1> QED BY <1>1, <1>5, <1>6 DEF dispatchRequest

LEMMA GiveStep ==
  ASSUME TypeInv, MemoryInv, onRequest, StaleInv'
  PROVE  MemoryInv'
<1>1. PICK r \in Requests : binder.of = r /\ r <= made /\ vendor[r] = "none" /\ Binder("onRequest")
                            /\ {"msg", "buffer", "payload"} \subseteq mem[r]
  BY BinderType DEF onRequest, MemoryInv, PlaceInv, HeldInv, Binder
<1>2. /\ binder'.of = r /\ Binder("free")' /\ vendor'[r] = "has"
      /\ \A q \in Requests \ {r} : vendor'[q] = vendor[q]
      /\ UNCHANGED <<made, request, mem, twice, queue, reused>>
  BY <1>1, GoType DEF onRequest, memoryVars, Binder, TypeInv, BinderSteps
<1>3. /\ \A q \in Requests : OnBinder(q, "onRequest") <=> q = r
      /\ \A q \in Requests : ~OnBinder(q, "onRequest")'
      /\ \A q \in Requests : WithVendor(q)' <=> WithVendor(q) \/ q = r
  BY <1>1, <1>2 DEF OnBinder, Binder, WithVendor
<1>4. \A i \in DOMAIN queue : queue[i] \in Requests
  BY DEF TypeInv
<1>5. PlaceInv'
  BY <1>1, <1>2 DEF MemoryInv, PlaceInv, Binder, Requests
<1>6. QueueInv'
  BY <1>2, <1>3, <1>4 DEF MemoryInv, QueueInv
<1>7. HeldInv'
  BY <1>1, <1>2, <1>3 DEF MemoryInv, HeldInv, Binder
<1>8. KeysInv'
  BY <1>2, <1>3 DEF MemoryInv, KeysInv, SameKey, ToSet
<1>9. ReturnedInv'
  BY <1>1, <1>2, <1>3 DEF MemoryInv, ReturnedInv, OnceHeld, OnBinder, Binder, ToSet
<1> QED BY <1>2, <1>5, <1>6, <1>7, <1>8, <1>9 DEF MemoryInv

LEMMA FreeStep ==
  ASSUME TypeInv, MemoryInv, freePayload, ~crash, StaleInv'
  PROVE  MemoryInv'
<1>1. PICK r \in Requests : binder.of = r /\ r <= made /\ Binder("free")
                            /\ {"buffer", "payload"} \subseteq mem[r]
  BY BinderType DEF freePayload, MemoryInv, PlaceInv, HeldInv, Binder
<1>2. /\ binder'.of = r /\ Binder("idle")'
      /\ mem'[r] = mem[r] \ {"payload", "buffer"}
      /\ \A q \in Requests \ {r} : mem'[q] = mem[q]
      /\ twice' = twice
      /\ UNCHANGED <<made, request, queue, vendor, reused>>
  BY <1>1, GoType DEF freePayload, Release, Binder, TypeInv, BinderSteps
<1>3. /\ \A q \in Requests : ~OnBinder(q, "onRequest") /\ ~OnBinder(q, "onRequest")'
      /\ \A q \in Requests : WithVendor(q)' <=> WithVendor(q)
  BY <1>1, <1>2 DEF OnBinder, Binder, WithVendor
<1>4. \A i \in DOMAIN queue : queue[i] \in Requests
  BY DEF TypeInv
<1>5. PlaceInv'
  BY <1>1, <1>2 DEF MemoryInv, PlaceInv, Binder, Requests
<1>6. QueueInv'
  BY <1>2, <1>3, <1>4 DEF MemoryInv, QueueInv
<1>7. HeldInv'
  BY <1>1, <1>2, <1>3 DEF MemoryInv, HeldInv, Binder
<1>8. KeysInv'
  BY <1>2, <1>3 DEF MemoryInv, KeysInv, SameKey, ToSet
<1>9. ReturnedInv'
  BY <1>1, <1>2, <1>3 DEF MemoryInv, ReturnedInv, OnceHeld, OnBinder, Binder, ToSet
<1> QED BY <1>2, <1>5, <1>6, <1>7, <1>8, <1>9 DEF MemoryInv

(* What checkAndDequeue does to the list: it takes out one entry, which is *)
(* the request's own while no token was used twice, or finds none.         *)
Dequeues(r) ==
  \/ /\ reused /\ UNCHANGED queue
     /\ mem' = [mem EXCEPT ![r] = @ \ {"msg"}] /\ twice' = (twice \/ "msg" \notin mem[r])
  \/ \E k \in DOMAIN queue :
       /\ SameKey(queue[k], r)
       /\ queue' = RemoveAt(queue, k)
       /\ mem' = [q \in Requests |-> mem[q] \ ((IF q = queue[k] THEN {"wrapper"} ELSE {})
                                               \cup (IF q = r THEN {"msg"} ELSE {}))]
       /\ twice' = (twice \/ "wrapper" \notin mem[queue[k]] \/ "msg" \notin mem[r])

LEMMA DequeueTakes ==
  ASSUME TypeInv, MemoryInv, NEW r \in Requests, checkAndDequeue(r), ~crash
  PROVE  /\ Dequeues(r) /\ VendorAt(r, "dequeue") /\ VendorGo(r, "done")
         /\ UNCHANGED <<binder, made, request, reused>>
<1> DEFINE found == {i \in 1 .. Len(queue) : SameKey(queue[i], r)}
           first == CHOOSE i \in found : \A j \in found : i <= j
<1>1. /\ VendorAt(r, "dequeue") /\ VendorGo(r, "done")
      /\ UNCHANGED <<binder, made, request, reused>>
      /\ IF found = {}
         THEN Release(r, {"msg"}) /\ UNCHANGED queue
         ELSE /\ queue' = RemoveAt(queue, first)
              /\ mem' = [q \in Requests |->
                    mem[q] \ ((IF q = queue[first] THEN {"wrapper"} ELSE {})
                              \cup (IF q = r THEN {"msg"} ELSE {}))]
              /\ twice' = (twice \/ "wrapper" \notin mem[queue[first]] \/ "msg" \notin mem[r])
  BY DEF checkAndDequeue, vendorFrame
<1>2. DOMAIN queue = 1 .. Len(queue) /\ Len(queue) \in Nat /\ found \subseteq DOMAIN queue
  BY DEF TypeInv
<1>3. CASE found = {}
  <2>1. reused
    <3>1. SUFFICES ASSUME ~reused PROVE FALSE
      BY DEF TypeInv
    <3>2. r \in ToSet(queue)
      BY <1>1, <3>1 DEF VendorAt, WithVendor, MemoryInv, KeysInv
    <3>3. PICK k \in DOMAIN queue : queue[k] = r
      BY <3>2 DEF ToSet
    <3>4. k \in found
      BY <1>2, <3>3 DEF SameKey
    <3> QED BY <1>3, <3>4
  <2>2. mem' = [mem EXCEPT ![r] = @ \ {"msg"}] /\ twice' = (twice \/ "msg" \notin mem[r]) /\ UNCHANGED queue
    BY <1>1, <1>3 DEF Release
  <2> QED BY <1>1, <2>1, <2>2 DEF Dequeues
<1>4. CASE found # {}
  <2>1. first \in found
    <3>1. found \subseteq Nat
      BY <1>2
    <3>2. PICK m \in found : \A j \in found : m <= j
      BY <1>4, <3>1, LeastNatural
    <3> QED BY <3>2
  <2>2. SameKey(queue[first], r) /\ first \in DOMAIN queue
    BY <1>2, <2>1
  <2> HIDE DEF first, found
  <2> QED BY <1>1, <1>4, <2>2 DEF Dequeues
<1> QED BY <1>3, <1>4

LEMMA DequeueStep ==
  ASSUME TypeInv, MemoryInv, NEW r \in Requests, checkAndDequeue(r), ~crash, StaleInv'
  PROVE  MemoryInv'
<1>1. /\ vendor[r] = "dequeue" /\ vendor'[r] = "done" /\ r <= made /\ "msg" \in mem[r]
      /\ \A q \in Requests \ {r} : vendor'[q] = vendor[q]
      /\ UNCHANGED <<binder, made, request, reused>>
  <2>1. VendorAt(r, "dequeue") /\ VendorGo(r, "done") /\ UNCHANGED <<binder, made, request, reused>>
    BY DequeueTakes
  <2>2. /\ vendor[r] = "dequeue" /\ vendor'[r] = "done"
        /\ \A q \in Requests \ {r} : vendor'[q] = vendor[q]
    BY <2>1 DEF VendorAt, VendorGo, TypeInv
  <2>3. ~(r > made) /\ "msg" \in mem[r]
    BY <2>2 DEF MemoryInv, PlaceInv, HeldInv, WithVendor
  <2>4. r \in Nat /\ made \in Nat
    BY BinderType DEF MemoryInv, Requests
  <2> QED BY <2>1, <2>2, <2>3, <2>4
<1>2. /\ ~WithVendor(r)' /\ WithVendor(r)
      /\ \A q \in Requests \ {r} : WithVendor(q)' <=> WithVendor(q)
      /\ \A q \in Requests : OnBinder(q, "onRequest")' <=> OnBinder(q, "onRequest")
      /\ binder.of = r => Binder("idle") \/ Binder("free")
  BY <1>1 DEF WithVendor, OnBinder, Binder, MemoryInv, PlaceInv
<1>3. \A i \in DOMAIN queue : queue[i] \in Requests
  BY DEF TypeInv
<1>4. \A q \in Requests : mem'[q] \subseteq mem[q] /\ mem[q] \ {"wrapper"} \subseteq mem'[q] \cup (IF q = r THEN {"msg"} ELSE {})
  <2>1. mem \in [Requests -> SUBSET Blocks] /\ Dequeues(r)
    BY DequeueTakes DEF TypeInv
  <2>2. CASE mem' = [mem EXCEPT ![r] = @ \ {"msg"}]
    BY <2>1, <2>2
  <2>3. ASSUME NEW k, mem' = [q \in Requests |-> mem[q] \ ((IF q = queue[k] THEN {"wrapper"} ELSE {})
                                                           \cup (IF q = r THEN {"msg"} ELSE {}))]
        PROVE  \A q \in Requests : /\ mem'[q] \subseteq mem[q]
                                   /\ mem[q] \ {"wrapper"} \subseteq mem'[q] \cup (IF q = r THEN {"msg"} ELSE {})
    BY <2>3
  <2> QED BY <2>1, <2>2, <2>3 DEF Dequeues
<1>5. twice' = FALSE
  BY <1>1, DequeueTakes DEF Dequeues, MemoryInv, QueueInv
<1>6. PlaceInv'
  BY <1>1, <1>2, <1>4 DEF MemoryInv, PlaceInv, Binder, Requests, TypeInv
<1>7. HeldInv'
  <2>1. \A q \in Requests : WithVendor(q)' => "msg" \in mem'[q]
    BY <1>2, <1>4 DEF MemoryInv, HeldInv
  <2>2. ~Binder("idle") => binder.of \in Requests
    BY BinderType DEF MemoryInv
  <2> QED BY <1>1, <1>2, <1>4, <2>1, <2>2 DEF MemoryInv, HeldInv, Binder
<1>8. CASE reused /\ UNCHANGED queue /\ mem' = [mem EXCEPT ![r] = @ \ {"msg"}]
  <2>1. QueueInv'
    BY <1>1, <1>2, <1>3, <1>8 DEF MemoryInv, QueueInv, TypeInv
  <2> QED BY <1>1, <1>5, <1>6, <1>7, <1>8, <2>1 DEF MemoryInv, KeysInv, ReturnedInv
<1>9. ASSUME NEW k \in DOMAIN queue, SameKey(queue[k], r), queue' = RemoveAt(queue, k),
             mem' = [q \in Requests |-> mem[q] \ ((IF q = queue[k] THEN {"wrapper"} ELSE {})
                                                  \cup (IF q = r THEN {"msg"} ELSE {}))]
      PROVE  MemoryInv'
  <2> DEFINE from(j) == IF j < k THEN j ELSE j + 1
  <2>1. /\ \A j \in DOMAIN queue' : from(j) \in DOMAIN queue \ {k} /\ queue'[j] = queue[from(j)] /\ j \in Nat
        /\ \A m \in DOMAIN queue \ {k} : \E j \in DOMAIN queue' : from(j) = m
    <3> DEFINE new == RemoveAt(queue, k)
    <3>1. queue \in Seq(Requests)
      BY DEF TypeInv
    <3>2. /\ \A j \in DOMAIN new : from(j) \in DOMAIN queue \ {k} /\ new[j] = queue[from(j)] /\ j \in Nat
          /\ \A m \in DOMAIN queue \ {k} : \E j \in DOMAIN new : from(j) = m
      BY <3>1, TakenList
    <3>3. queue' = new
      BY <1>9
    <3> HIDE DEF new, from
    <3> QED BY <3>2, <3>3
  <2>2. \A i, j \in DOMAIN queue' : from(i) = from(j) => i = j
    <3>1. k \in Nat
      BY DEF TypeInv
    <3> QED BY <2>1, <3>1
  <2> HIDE DEF from
  <2>3. QueueInv'
    <3>1. ASSUME NEW i \in DOMAIN queue', NEW j \in DOMAIN queue', queue'[i] = queue'[j] PROVE i = j
      BY <2>1, <2>2, <3>1 DEF MemoryInv, QueueInv
    <3>2. ASSUME NEW i \in DOMAIN queue'
          PROVE  "wrapper" \in mem'[queue'[i]] /\ (vendor'[queue'[i]] # "none" \/ OnBinder(queue'[i], "onRequest"))
      <4>1. from(i) \in DOMAIN queue /\ queue'[i] = queue[from(i)] /\ queue[from(i)] # queue[k] /\ queue'[i] \in Requests
        BY <1>3, <2>1 DEF MemoryInv, QueueInv
      <4>2. "wrapper" \in mem'[queue'[i]]
        BY <1>9, <4>1 DEF MemoryInv, QueueInv
      <4>3. vendor'[queue'[i]] # "none" \/ OnBinder(queue'[i], "onRequest")
        BY <1>1, <4>1 DEF MemoryInv, QueueInv
      <4> QED BY <4>2, <4>3
    <3> QED BY <1>1, <3>1, <3>2 DEF QueueInv, OnBinder, Binder
  <2>4. ASSUME ~reused
        PROVE  queue[k] = r /\ ToSet(queue') = ToSet(queue) \ {r}
    <3>1. r \in ToSet(queue)
      BY <1>2, <2>4 DEF MemoryInv, KeysInv
    <3>2. PICK m \in DOMAIN queue : queue[m] = r
      BY <3>1 DEF ToSet
    <3>3. k = m
      BY <1>9, <2>4, <3>2 DEF MemoryInv, KeysInv
    <3>4. \A m1 \in DOMAIN queue \ {k} : queue[m1] # r
      BY <3>2, <3>3 DEF MemoryInv, QueueInv
    <3>5. ToSet(queue') \subseteq ToSet(queue) \ {r}
      BY <2>1, <3>4 DEF ToSet
    <3>6. ToSet(queue) \ {r} \subseteq ToSet(queue')
      <4>1. ASSUME NEW m1 \in DOMAIN queue, queue[m1] # r PROVE queue[m1] \in ToSet(queue')
        <5>1. m1 # k
          BY <3>2, <3>3, <4>1
        <5>2. PICK j \in DOMAIN queue' : from(j) = m1
          BY <2>1, <5>1
        <5> QED BY <2>1, <5>2 DEF ToSet
      <4> QED BY <4>1 DEF ToSet
    <3> QED BY <3>2, <3>3, <3>5, <3>6
  <2>5. KeysInv'
    <3>1. SUFFICES ASSUME ~reused
                   PROVE  /\ \A i, j \in DOMAIN queue' : SameKey(queue'[i], queue'[j]) => i = j
                          /\ ToSet(queue') = {q \in Requests : WithVendor(q)' \/ OnBinder(q, "onRequest")'}
      BY <1>1 DEF KeysInv, SameKey
    <3>2. ASSUME NEW i \in DOMAIN queue', NEW j \in DOMAIN queue', SameKey(queue'[i], queue'[j]) PROVE i = j
      BY <2>1, <2>2, <3>1, <3>2 DEF MemoryInv, KeysInv
    <3>3. ~OnBinder(r, "onRequest")
      BY <1>2 DEF OnBinder, Binder
    <3>4. ToSet(queue) = {q \in Requests : WithVendor(q) \/ OnBinder(q, "onRequest")}
      BY <3>1 DEF MemoryInv, KeysInv
    <3>5. ToSet(queue') = {q \in Requests : WithVendor(q)' \/ OnBinder(q, "onRequest")'}
      BY <1>2, <2>4, <3>1, <3>3, <3>4
    <3> QED BY <3>2, <3>5
  <2>6. ReturnedInv'
    <3>1. ASSUME NEW q \in Requests, ~reused PROVE mem'[q] \subseteq OnceHeld(q)'
      <4>1. mem[q] \subseteq OnceHeld(q)
        BY <3>1 DEF MemoryInv, ReturnedInv
      <4>2. CASE q = r
        <5>1. mem'[r] = mem[r] \ {"wrapper", "msg"}
          BY <1>9, <2>4, <3>1
        <5> QED BY <1>1, <1>2, <4>1, <4>2, <5>1 DEF OnceHeld, OnBinder, Binder
      <4>3. CASE q # r
        BY <1>1, <1>2, <1>4, <2>4, <3>1, <4>1, <4>3 DEF OnceHeld, OnBinder, Binder
      <4> QED BY <4>2, <4>3
    <3> QED BY <1>1, <3>1 DEF ReturnedInv
  <2> QED BY <1>5, <1>6, <1>7, <2>3, <2>5, <2>6 DEF MemoryInv
<1> QED BY <1>8, <1>9, DequeueTakes DEF Dequeues

-----------------------------------------------------------------------------
(* The types, and each invariant, from step to step.                       *)

LEMMA BlocksKept ==
  ASSUME TypeInv, NEW r \in Requests, NEW blocks \in SUBSET Blocks
  PROVE  /\ Alloc(r, blocks) => mem' \in [Requests -> SUBSET Blocks] /\ twice' \in BOOLEAN
         /\ Release(r, blocks) => mem' \in [Requests -> SUBSET Blocks] /\ twice' \in BOOLEAN
<1>1. mem \in [Requests -> SUBSET Blocks] /\ twice \in BOOLEAN
  BY DEF TypeInv
<1>2. ASSUME Alloc(r, blocks) PROVE mem' \in [Requests -> SUBSET Blocks] /\ twice' \in BOOLEAN
  <2>1. mem' = [mem EXCEPT ![r] = @ \cup blocks] /\ twice' = twice
    BY <1>2 DEF Alloc
  <2> QED BY <1>1, <2>1
<1>3. ASSUME Release(r, blocks) PROVE mem' \in [Requests -> SUBSET Blocks] /\ twice' \in BOOLEAN
  <2>1. mem' \in [Requests -> SUBSET Blocks]
    BY <1>1, <1>3 DEF Release
  <2>2. twice' \in BOOLEAN
    BY <1>3 DEF Release
  <2> QED BY <2>1, <2>2
<1> QED BY <1>2, <1>3

LEMMA AnswersKept ==
  ASSUME TypeInv, NEW r \in Requests, Answer(r) \/ GiveUp(r)
  PROVE  answers' \in [Requests -> Nat] /\ lost' \subseteq Requests
<1>1. answers \in [Requests -> Nat] /\ lost \subseteq Requests
  BY DEF TypeInv
<1>2. CASE Answer(r)
  BY <1>1, <1>2 DEF Answer
<1>3. CASE GiveUp(r)
  BY <1>1, <1>3 DEF GiveUp
<1> QED BY <1>2, <1>3

LEMMA VendorKept ==
  ASSUME TypeInv, NEW r \in Requests, NEW at \in VendorSteps, VendorGo(r, at)
  PROVE  vendor' \in [Requests -> VendorSteps]
BY DEF TypeInv, VendorGo

LEMMA TypeStep ==
  ASSUME TypeInv, MemoryInv, Next, ~crash
  PROVE  TypeInv'
<1> USE DEF frameworkVars, processVars, memoryVars, answerVars
<1>1. stale' \subseteq {"msg", "wrapper", "listed"}
  BY StaleStep
<1>2. /\ framework \in Nat /\ MaxFrameworks \in Nat
      /\ ~Binder("idle") => binder.of \in Requests
  BY BinderType, BoundsAssumption DEF TypeInv, MemoryInv
<1>3. CASE processNext
  <2>1. stage' \in {"starting", "listed", "serving"} /\ hasSocket' \in BOOLEAN
    BY <1>3 DEF TypeInv, processNext, initSapSocket, registerService
  <2>2. UNCHANGED <<frameworkVars, sapCallback, raced, binder, made, request, memoryVars, queue,
                    vendor, unsol, answerVars, reused>>
    BY <1>3 DEF processNext, initSapSocket, registerService
  <2> QED BY <2>1, <2>2 DEF TypeInv
<1>4. CASE frameworkStarts \/ frameworkDies
  <2>1. framework' \in 0 .. MaxFrameworks /\ sapCallback' \in 0 .. framework'
    BY <1>2, <1>4 DEF TypeInv, frameworkStarts, frameworkDies
  <2>2. alive' \in BOOLEAN
    BY <1>4 DEF frameworkStarts, frameworkDies
  <2>4. told' \in BOOLEAN
    BY <1>4 DEF TypeInv, frameworkStarts, frameworkDies
  <2>5. serial' \in Nat
    BY <1>4 DEF TypeInv, frameworkStarts, frameworkDies
  <2>3. UNCHANGED <<processVars, raced, binder, made, request, memoryVars, queue, vendor, unsol,
                    answerVars, reused>>
    BY <1>4 DEF frameworkStarts, frameworkDies
  <2> QED BY <2>1, <2>2, <2>3, <2>4, <2>5 DEF TypeInv
<1>5. CASE setCallback
  BY <1>2, <1>5 DEF TypeInv, setCallback
<1>6. CASE RequestMade
  <2>1. made' \in 0 .. Calls /\ serial' \in Nat /\ made + 1 \in Requests /\ made + 1 \in 0 .. Calls
    BY <1>6, BoundsAssumption DEF TypeInv, RequestMade, Requests
  <2>2. request' \in [Requests -> [id : Names, token : Nat]]
    BY <1>6, <2>1 DEF TypeInv, RequestMade
  <2>3. mem' \in [Requests -> SUBSET Blocks] /\ binder' \in [at : BinderSteps, of : 0 .. Calls]
    <3>1. Encoded(made + 1) /\ mem \in [Requests -> SUBSET Blocks]
      BY <1>6 DEF RequestMade, TypeInv
    <3> QED BY <2>1, <3>1 DEF Encoded, BinderSteps, Blocks
  <2> QED BY <1>6, <2>1, <2>2, <2>3 DEF TypeInv, RequestMade
<1>7. CASE addPayload
  <2>1. binder.of \in Requests
    BY <1>2, <1>7 DEF addPayload, Binder
  <2>2. mem' \in [Requests -> SUBSET Blocks] /\ twice' \in BOOLEAN
    BY <1>7, <2>1, BlocksKept DEF addPayload, Blocks
  <2>3. binder' \in [at : BinderSteps, of : 0 .. Calls]
    BY <1>7, GoType DEF addPayload, BinderSteps
  <2> QED BY <1>7, <2>2, <2>3 DEF TypeInv, addPayload, binderFrame
<1>8. CASE dispatchRequest
  <2>1. binder.of \in Requests
    BY <1>2, <1>8 DEF dispatchRequest, Binder
  <2>2. mem' \in [Requests -> SUBSET Blocks] /\ twice' \in BOOLEAN
    BY <1>8, <2>1, BlocksKept DEF dispatchRequest, Blocks
  <2>3. binder' \in [at : BinderSteps, of : 0 .. Calls]
    BY <1>8, GoType DEF dispatchRequest, BinderSteps
  <2>4. queue' \in Seq(Requests) /\ reused' \in BOOLEAN
    <3>1. <<binder.of>> \o queue \in Seq(Requests) /\ queue \in Seq(Requests) /\ reused \in BOOLEAN
      BY <2>1, PushedList DEF TypeInv
    <3> QED BY <1>8, <3>1 DEF dispatchRequest
  <2>5. answers' \in [Requests -> Nat] /\ lost' \subseteq Requests
    <3>1. CASE GiveUp(binder.of)
      BY <2>1, <3>1, AnswersKept
    <3>2. CASE UNCHANGED answerVars
      BY <3>2 DEF TypeInv
    <3> QED BY <1>8, <3>1, <3>2 DEF dispatchRequest
  <2> QED BY <1>8, <2>2, <2>3, <2>4, <2>5 DEF TypeInv, dispatchRequest, binderFrame
<1>9. CASE onRequest
  <2>1. binder.of \in Requests
    BY <1>2, <1>9 DEF onRequest, Binder
  <2>2. vendor' \in [Requests -> VendorSteps]
    BY <1>9, <2>1 DEF TypeInv, onRequest, VendorSteps
  <2>3. binder' \in [at : BinderSteps, of : 0 .. Calls]
    BY <1>9, GoType DEF onRequest, BinderSteps
  <2> QED BY <1>9, <2>2, <2>3 DEF TypeInv, onRequest, binderFrame
<1>10. CASE freePayload
  <2>1. binder.of \in Requests
    BY <1>2, <1>10 DEF freePayload, Binder
  <2>2. mem' \in [Requests -> SUBSET Blocks] /\ twice' \in BOOLEAN
    BY <1>10, <2>1, BlocksKept DEF freePayload, Blocks
  <2>3. binder' \in [at : BinderSteps, of : 0 .. Calls]
    BY <1>10, GoType DEF freePayload, BinderSteps
  <2> QED BY <1>1, <1>10, <2>2, <2>3 DEF TypeInv, freePayload, binderFrame
<1>11. CASE sendFailedResponse
  <2>1. binder.of \in Requests
    BY <1>2, <1>11 DEF sendFailedResponse, Binder
  <2>2. answers' \in [Requests -> Nat] /\ lost' \subseteq Requests
    BY <1>11, <2>1, AnswersKept DEF sendFailedResponse
  <2>3. binder' \in [at : BinderSteps, of : 0 .. Calls]
    BY <1>11, GoType DEF sendFailedResponse, BinderSteps
  <2> QED BY <1>11, <2>2, <2>3 DEF TypeInv, sendFailedResponse, binderFrame
<1>12. CASE binderResets
  <2>1. binder' \in [at : BinderSteps, of : 0 .. Calls] /\ sapCallback' \in 0 .. framework
    BY <1>2, <1>12, GoType DEF binderResets, BinderSteps, None
  <2> QED BY <1>12, <2>1 DEF TypeInv, binderResets
<1>13. ASSUME NEW r \in Requests, onRequestComplete(r) PROVE TypeInv'
  <2>1. vendor' \in [Requests -> VendorSteps] /\ lost' \subseteq Requests
    <3>1. VendorGo(r, "call") \/ VendorGo(r, "dequeue")
      BY <1>13 DEF onRequestComplete
    <3>2. lost' \subseteq Requests
      BY <1>13 DEF onRequestComplete, TypeInv
    <3> QED BY <3>1, <3>2, VendorKept DEF VendorSteps
  <2> QED BY <1>1, <1>13, <2>1 DEF TypeInv, onRequestComplete, vendorFrame
<1>14. ASSUME NEW r \in Requests, response(r) PROVE TypeInv'
  <2>1. vendor' \in [Requests -> VendorSteps] /\ answers' \in [Requests -> Nat] /\ lost' \subseteq Requests
    BY <1>14, VendorKept, AnswersKept DEF response, VendorSteps
  <2> QED BY <1>14, <2>1 DEF TypeInv, response, vendorFrame
<1>15. ASSUME NEW r \in Requests, vendorResets(r) PROVE TypeInv'
  <2>1. vendor' \in [Requests -> VendorSteps] /\ sapCallback' \in 0 .. framework
    BY <1>2, <1>15, VendorKept DEF vendorResets, VendorSteps, None
  <2> QED BY <1>15, <2>1 DEF TypeInv, vendorResets, vendorFrame
<1>16. ASSUME NEW r \in Requests, checkAndDequeue(r) PROVE TypeInv'
  <2>1. vendor' \in [Requests -> VendorSteps]
    BY <1>16, DequeueTakes, VendorKept DEF VendorSteps
  <2>2. queue' \in Seq(Requests) /\ mem' \in [Requests -> SUBSET Blocks] /\ twice' \in BOOLEAN
    <3>1. Dequeues(r) /\ queue \in Seq(Requests) /\ mem \in [Requests -> SUBSET Blocks] /\ twice \in BOOLEAN
      BY <1>16, DequeueTakes DEF TypeInv
    <3>2. \A k \in DOMAIN queue : RemoveAt(queue, k) \in Seq(Requests)
      BY <3>1, TakenList
    <3>3. queue' \in Seq(Requests)
      BY <3>1, <3>2 DEF Dequeues
    <3>4. twice' \in BOOLEAN
      BY <3>1 DEF Dequeues
    <3>5. mem' \in [Requests -> SUBSET Blocks]
      <4>1. CASE mem' = [mem EXCEPT ![r] = @ \ {"msg"}]
        BY <3>1, <4>1
      <4>2. ASSUME NEW k, mem' = [q \in Requests |-> mem[q] \ ((IF q = queue[k] THEN {"wrapper"} ELSE {})
                                                               \cup (IF q = r THEN {"msg"} ELSE {}))]
            PROVE  mem' \in [Requests -> SUBSET Blocks]
        BY <3>1, <4>2
      <4> QED BY <3>1, <4>1, <4>2 DEF Dequeues
    <3> QED BY <3>3, <3>4, <3>5
  <2>3. UNCHANGED <<processVars, frameworkVars, sapCallback, raced, binder, made, request, unsol, answerVars, reused>>
    BY <1>16 DEF checkAndDequeue, vendorFrame
  <2> QED BY <1>1, <2>1, <2>2, <2>3 DEF TypeInv
<1>17. CASE unsolNext
  <2>1. unsol' \in {"idle", "call", "reset"} /\ (sapCallback' = sapCallback \/ sapCallback' = 0)
    BY <1>17 DEF unsolNext, onUnsolicitedResponse, indication, unsolResets, None
  <2>2. UNCHANGED <<stage, hasSocket, framework, alive, told, serial, raced, binder, made, request, mem, twice,
                    queue, vendor, answers, lost, reused>>
    BY <1>17 DEF unsolNext, onUnsolicitedResponse, indication, unsolResets, unsolFrame, vendorFrame
  <2>3. sapCallback' \in 0 .. framework
    BY <1>2, <2>1 DEF TypeInv
  <2> QED BY <1>1, <2>1, <2>2, <2>3 DEF TypeInv
<1> QED BY <1>3, <1>4, <1>5, <1>6, <1>7, <1>8, <1>9, <1>10, <1>11, <1>12, <1>13, <1>14, <1>15, <1>16, <1>17,
           RequestsMake DEF Next, frameworkNext, binderNext, vendorNext

LEMMA MemoryStep ==
  ASSUME TypeInv, MemoryInv, Next, ~crash
  PROVE  MemoryInv'
<1>1. reused' = reused \/ dispatchRequest
  <2>1. RequestMade => reused' = reused
    BY DEF RequestMade
  <2> QED BY <2>1, RequestsMake
          DEF Next, processNext, initSapSocket, registerService, frameworkNext, frameworkStarts,
              frameworkDies, setCallback, binderNext, addPayload, onRequest, freePayload, sendFailedResponse,
              binderResets, vendorNext, onRequestComplete, response, vendorResets, checkAndDequeue,
              unsolNext, onUnsolicitedResponse, indication, unsolResets, unsolFrame
<1>2. StaleInv'
  <2>1. ~reused' => ~reused
    BY <1>1 DEF dispatchRequest, TypeInv
  <2> QED BY <2>1, StaleStep DEF StaleInv
<1>3. CASE processNext \/ frameworkStarts \/ frameworkDies \/ setCallback \/ unsolNext
  <2>1. UNCHANGED <<binder, made, request, mem, twice, queue, vendor, reused>>
    BY <1>3 DEF processNext, initSapSocket, registerService, frameworkStarts, frameworkDies, setCallback,
                unsolNext, onUnsolicitedResponse, indication, unsolResets, unsolFrame, vendorFrame, memoryVars
  <2> QED BY <1>2, <2>1, QuietMemory
<1>4. CASE sendFailedResponse \/ binderResets
  <2>1. /\ Binder("fail") \/ Binder("reset")
        /\ binder'.of = binder.of /\ binder'.at \in {"idle", "reset"}
        /\ UNCHANGED <<made, request, mem, twice, queue, vendor, reused>>
    BY <1>4, GoType DEF sendFailedResponse, binderResets, memoryVars, BinderSteps
  <2> QED BY <1>2, <2>1, BinderMoves
<1>5. ASSUME NEW r \in Requests, onRequestComplete(r) \/ response(r) \/ vendorResets(r) PROVE MemoryInv'
  <2>1. /\ WithVendor(r) /\ \E at \in {"call", "reset", "dequeue"} : VendorGo(r, at)
        /\ UNCHANGED <<binder, made, request, mem, twice, queue, reused>>
    BY <1>5 DEF onRequestComplete, response, vendorResets, vendorFrame, memoryVars, VendorAt, WithVendor
  <2> QED BY <1>2, <2>1, VendorMoves
<1> QED BY <1>2, <1>3, <1>4, <1>5, RequestsMake, MakeStep, AddStep, DispatchStep, GiveStep, FreeStep, DequeueStep
        DEF Next, frameworkNext, binderNext, vendorNext

(* A request that is not touched is as open and as answered as it was.     *)
AnswerOf(r) ==
  IF Open(r) THEN answers[r] = 0 /\ r \notin lost
             ELSE \/ answers[r] = 1 /\ r \notin lost
                  \/ answers[r] = 0 /\ r \in lost

LEMMA AnswersAside ==
  ASSUME AnswerInv, NEW r \in Requests, Open(r)' = Open(r),
         answers'[r] = answers[r], r \in lost' <=> r \in lost
  PROVE  AnswerOf(r)'
BY DEF AnswerInv, AnswerOf

(* An open request is answered, or its answer is given up.                 *)
LEMMA AnswersOne ==
  ASSUME TypeInv, AnswerInv, NEW r \in Requests, Open(r), Answer(r) \/ GiveUp(r),
         ~Open(r)', \A q \in Requests \ {r} : Open(q)' = Open(q)
  PROVE  AnswerInv'
<1>1. answers[r] = 0 /\ r \notin lost
  BY DEF AnswerInv
<1>2. AnswerOf(r)'
  BY <1>1 DEF Answer, GiveUp, AnswerOf, TypeInv
<1>3. ASSUME NEW q \in Requests \ {r} PROVE AnswerOf(q)'
  <2>1. answers'[q] = answers[q] /\ (q \in lost' <=> q \in lost)
    BY DEF Answer, GiveUp, TypeInv
  <2> QED BY <2>1, AnswersAside
<1> QED BY <1>2, <1>3 DEF AnswerInv, AnswerOf

LEMMA AnswersAllAside ==
  ASSUME AnswerInv, \A q \in Requests : Open(q)' = Open(q), UNCHANGED answerVars
  PROVE  AnswerInv'
<1>1. \A q \in Requests : answers'[q] = answers[q] /\ (q \in lost' <=> q \in lost)
  BY DEF answerVars
<1> QED BY <1>1, AnswersAside DEF AnswerInv, AnswerOf

LEMMA AnswerStep ==
  ASSUME TypeInv, MemoryInv, AnswerInv, Next, ~crash
  PROVE  AnswerInv'
<1> USE DEF answerVars
<1>1. /\ made \in Nat /\ Requests \subseteq Nat
      /\ ~Binder("idle") => binder.of \in Requests /\ binder.of <= made
  BY BinderType DEF MemoryInv, Requests
<1>2. /\ ~Binder("idle") /\ ~Binder("free") => vendor[binder.of] = "none"
      /\ \A r \in Requests : r > made => vendor[r] = "none"
  BY DEF MemoryInv, PlaceInv
<1>3. CASE processNext \/ frameworkStarts \/ frameworkDies \/ setCallback \/ unsolNext
  <2>1. UNCHANGED <<binder, made, vendor, answers, lost>>
    BY <1>3 DEF processNext, initSapSocket, registerService, frameworkStarts, frameworkDies, setCallback,
                unsolNext, onUnsolicitedResponse, indication, unsolResets, unsolFrame, vendorFrame
  <2> QED BY <2>1, AnswersAllAside DEF Open, Binder
<1>4. CASE RequestMade
  <2>1. /\ made' = made + 1 /\ UNCHANGED <<vendor, answers, lost>> /\ Binder("idle")
        /\ binder'.of = made + 1 /\ binder'.at \in {"fail", "payload"}
    BY <1>4 DEF RequestMade, Encoded, Binder
  <2>2. \A q \in Requests : Open(q)' = Open(q)
    <3>1. ASSUME NEW q \in Requests PROVE Open(q)' <=> Open(q)
      BY <1>1, <2>1 DEF Open, Binder
    <3> QED BY <3>1 DEF Open
  <2> QED BY <2>1, <2>2, AnswersAllAside
<1>5. CASE addPayload
  <2>1. /\ UNCHANGED <<made, vendor, answers, lost>> /\ Binder("payload")
        /\ binder'.of = binder.of /\ binder'.at \in {"fail", "dispatch"}
    BY <1>5, GoType DEF addPayload, Binder, BinderSteps
  <2>2. \A q \in Requests : Open(q)' = Open(q)
    BY <2>1 DEF Open, Binder
  <2> QED BY <2>1, <2>2, AnswersAllAside
<1>6. CASE dispatchRequest
  <2>1. /\ UNCHANGED <<made, vendor>> /\ Binder("dispatch") /\ binder'.of = binder.of
        /\ binder.of \in Requests /\ binder.of <= made /\ vendor[binder.of] = "none"
    BY <1>1, <1>2, <1>6, GoType DEF dispatchRequest, Binder, BinderSteps
  <2>2. CASE GiveUp(binder.of) /\ Go("free")
    <3>1. Binder("free")'
      BY <2>2, GoType DEF Binder, BinderSteps
    <3>2. PICK r \in Requests : r = binder.of
      BY <2>1
    <3>3. Open(r) /\ ~Open(r)' /\ \A q \in Requests \ {r} : Open(q)' = Open(q)
      BY <1>1, <2>1, <3>1, <3>2 DEF Open, Binder
    <3> QED BY <2>2, <3>2, <3>3, AnswersOne
  <2>3. CASE Go("onRequest") /\ UNCHANGED answerVars
    <3>1. Binder("onRequest")'
      BY <2>3, GoType DEF Binder, BinderSteps
    <3>2. \A q \in Requests : Open(q)' = Open(q)
      BY <2>1, <3>1 DEF Open, Binder
    <3> QED BY <2>3, <3>2, AnswersAllAside
  <2> QED BY <1>6, <2>2, <2>3 DEF dispatchRequest
<1>7. CASE onRequest
  <2>1. PICK r \in Requests : r = binder.of /\ r <= made /\ vendor[r] = "none" /\ Binder("onRequest")
    BY <1>1, <1>2, <1>7 DEF onRequest, Binder
  <2>2. /\ UNCHANGED <<made, answers, lost>> /\ vendor'[r] = "has" /\ binder'.of = r /\ Binder("free")'
        /\ \A q \in Requests \ {r} : vendor'[q] = vendor[q]
    BY <1>7, <2>1, GoType DEF onRequest, Binder, BinderSteps, TypeInv
  <2>3. \A q \in Requests : Open(q)' = Open(q)
    BY <2>1, <2>2 DEF Open, Binder
  <2> QED BY <2>2, <2>3, AnswersAllAside
<1>8. CASE freePayload \/ binderResets
  <2>1. /\ UNCHANGED <<made, vendor, answers, lost>> /\ (Binder("free") \/ Binder("reset"))
        /\ Binder("idle")'
    BY <1>8, GoType DEF freePayload, binderResets, Binder, BinderSteps
  <2>2. \A q \in Requests : Open(q)' = Open(q)
    BY <2>1 DEF Open, Binder
  <2> QED BY <2>1, <2>2, AnswersAllAside
<1>9. CASE sendFailedResponse
  <2>1. PICK r \in Requests : r = binder.of /\ r <= made /\ vendor[r] = "none" /\ Binder("fail")
    BY <1>1, <1>2, <1>9 DEF sendFailedResponse, Binder
  <2>2. /\ UNCHANGED <<made, vendor>> /\ (Answer(r) \/ GiveUp(r))
        /\ Binder("idle")' \/ Binder("reset")'
    BY <1>9, <2>1, GoType DEF sendFailedResponse, Binder, BinderSteps
  <2>3. Open(r) /\ ~Open(r)' /\ \A q \in Requests \ {r} : Open(q)' = Open(q)
    BY <1>1, <2>1, <2>2 DEF Open, Binder
  <2> QED BY <2>2, <2>3, AnswersOne
<1>10. ASSUME NEW r \in Requests, onRequestComplete(r) PROVE AnswerInv'
  <2>1. /\ vendor[r] = "has" /\ UNCHANGED <<binder, made, answers>>
        /\ \A q \in Requests \ {r} : vendor'[q] = vendor[q]
        /\ \/ vendor'[r] = "call" /\ UNCHANGED lost
           \/ vendor'[r] = "dequeue" /\ lost' = lost \cup {r}
    BY <1>10 DEF onRequestComplete, VendorAt, VendorGo, vendorFrame, TypeInv
  <2>2. \A q \in Requests \ {r} : Open(q)' = Open(q)
    BY <2>1 DEF Open, Binder
  <2>3. CASE vendor'[r] = "call" /\ UNCHANGED lost
    <3>1. Open(r)' = Open(r)
      BY <2>1, <2>3 DEF Open
    <3> QED BY <2>1, <2>2, <2>3, <3>1, AnswersAllAside
  <2>4. CASE vendor'[r] = "dequeue" /\ lost' = lost \cup {r}
    <3>1. Open(r) /\ ~Open(r)'
      BY <1>1, <1>2, <2>1, <2>4 DEF Open, Binder
    <3> QED BY <2>1, <2>2, <2>4, <3>1, AnswersOne DEF GiveUp
  <2> QED BY <2>1, <2>3, <2>4
<1>11. ASSUME NEW r \in Requests, response(r) PROVE AnswerInv'
  <2>1. /\ vendor[r] = "call" /\ UNCHANGED <<binder, made>> /\ (Answer(r) \/ GiveUp(r))
        /\ \A q \in Requests \ {r} : vendor'[q] = vendor[q]
        /\ vendor'[r] \in {"dequeue", "reset"}
    BY <1>11 DEF response, VendorAt, VendorGo, vendorFrame, TypeInv
  <2>2. Open(r) /\ ~Open(r)' /\ \A q \in Requests \ {r} : Open(q)' = Open(q)
    BY <1>1, <1>2, <2>1 DEF Open, Binder
  <2> QED BY <2>1, <2>2, AnswersOne
<1>12. ASSUME NEW r \in Requests, vendorResets(r) \/ checkAndDequeue(r) PROVE AnswerInv'
  <2>1. /\ vendor[r] \in {"reset", "dequeue"} /\ UNCHANGED <<binder, made, answers, lost>>
        /\ \A q \in Requests \ {r} : vendor'[q] = vendor[q]
        /\ vendor'[r] \in {"dequeue", "done"}
    BY <1>12 DEF vendorResets, checkAndDequeue, VendorAt, VendorGo, vendorFrame, TypeInv
  <2>2. \A q \in Requests : Open(q)' = Open(q)
    BY <2>1 DEF Open, Binder
  <2> QED BY <2>1, <2>2, AnswersAllAside
<1> QED BY <1>3, <1>4, <1>5, <1>6, <1>7, <1>8, <1>9, <1>10, <1>11, <1>12, RequestsMake
        DEF Next, frameworkNext, binderNext, vendorNext

(* What a step does to those who would reset the callbacks: a thread turns *)
(* to that only when the one it calls is not there.                        *)
LEMMA HeardStep ==
  ASSUME TypeInv, MemoryInv, HeardInv, Next, ~crash
  PROVE  HeardInv'
<1>1. ASSUME NEW r \in Requests, NEW at \in VendorSteps, VendorGo(r, at), at = "reset" => ~Reaches,
             UNCHANGED <<stage, framework, alive, told, sapCallback, raced, binder, unsol>>
      PROVE  HeardInv'
  <2>1. /\ vendor'[r] = at
        /\ \A q \in Requests \ {r} : vendor'[q] = vendor[q]
    BY <1>1 DEF VendorGo, TypeInv
  <2> QED BY <1>1, <2>1 DEF HeardInv, Running, Resetting, Binder, Reaches
<1>2. CASE processNext
  BY <1>2 DEF processNext, initSapSocket, registerService, frameworkVars, HeardInv, Running, Resetting, Binder
<1>3. CASE frameworkStarts \/ frameworkDies
  BY <1>3 DEF frameworkStarts, frameworkDies, processVars, HeardInv, Running, Resetting, Binder
<1>4. CASE setCallback
  BY <1>4 DEF setCallback, processVars, HeardInv, Running, Resetting, Binder
<1>5. CASE RequestMade
  <2>1. /\ UNCHANGED <<stage, framework, alive, told, sapCallback, raced, unsol, vendor>>
        /\ binder'.at \in {"fail", "payload"}
    BY <1>5 DEF RequestMade, Encoded, processVars
  <2> QED BY <2>1 DEF HeardInv, Running, Resetting, Binder
<1>6. CASE addPayload \/ dispatchRequest \/ freePayload
  <2>1. /\ UNCHANGED <<stage, framework, alive, told, sapCallback, raced, unsol, vendor>>
        /\ binder'.at \in {"fail", "dispatch", "onRequest", "free", "idle"}
    BY <1>6, GoType DEF addPayload, dispatchRequest, freePayload, binderFrame, processVars, frameworkVars, BinderSteps
  <2> QED BY <2>1 DEF HeardInv, Running, Resetting, Binder
<1>7. CASE onRequest
  <2>1. /\ UNCHANGED <<stage, framework, alive, told, sapCallback, raced, unsol>>
        /\ binder'.at = "free" /\ VendorGo(binder.of, "has") /\ binder.of \in Requests
    BY <1>7, GoType, BinderType
       DEF onRequest, binderFrame, processVars, frameworkVars, BinderSteps, VendorGo, MemoryInv, Binder
  <2>2. PICK r \in Requests : vendor'[r] = "has" /\ \A q \in Requests \ {r} : vendor'[q] = vendor[q]
    BY <2>1 DEF VendorGo, TypeInv
  <2> QED BY <2>1, <2>2 DEF HeardInv, Running, Resetting, Binder
<1>8. CASE sendFailedResponse
  <2>1. /\ UNCHANGED <<stage, framework, alive, told, sapCallback, raced, unsol, vendor>>
        /\ binder'.at = IF Reaches THEN "idle" ELSE "reset"
    BY <1>8, GoType DEF sendFailedResponse, statusOk, binderFrame, processVars, frameworkVars, BinderSteps
  <2> QED BY <2>1 DEF HeardInv, Running, Resetting, Binder, Reaches
<1>9. CASE binderResets \/ \E r \in Requests : vendorResets(r)
  <2>1. /\ Resetting /\ UNCHANGED <<stage, framework, alive, told, raced>>
    BY <1>9 DEF binderResets, vendorResets, VendorAt, vendorFrame, Resetting, processVars, frameworkVars
  <2> QED BY <2>1 DEF HeardInv, Running
<1>10. ASSUME NEW r \in Requests, onRequestComplete(r) \/ response(r) \/ checkAndDequeue(r) PROVE HeardInv'
  <2>1. /\ UNCHANGED <<stage, framework, alive, told, sapCallback, raced, binder, unsol>>
        /\ \E at \in VendorSteps : VendorGo(r, at) /\ (at = "reset" => ~Reaches)
    BY <1>10 DEF onRequestComplete, response, checkAndDequeue, statusOk, vendorFrame, processVars, frameworkVars,
                 VendorSteps
  <2> QED BY <1>1, <2>1
<1>11. CASE onUnsolicitedResponse \/ indication
  <2>1. /\ UNCHANGED <<stage, framework, alive, told, sapCallback, raced, binder, vendor>>
        /\ unsol' = "reset" => ~Reaches
    BY <1>11 DEF onUnsolicitedResponse, indication, statusOk, unsolFrame, vendorFrame, processVars, frameworkVars
  <2> QED BY <2>1 DEF HeardInv, Running, Resetting, Binder, Reaches
<1>12. CASE unsolResets
  <2>1. /\ Resetting /\ UNCHANGED <<stage, framework, alive, told, raced>>
    BY <1>12 DEF unsolResets, unsolFrame, vendorFrame, Resetting, processVars, frameworkVars
  <2> QED BY <2>1 DEF HeardInv, Running
<1> QED BY <1>2, <1>3, <1>4, <1>5, <1>6, <1>7, <1>8, <1>9, <1>10, <1>11, <1>12, RequestsMake
        DEF Next, frameworkNext, binderNext, vendorNext, unsolNext

-----------------------------------------------------------------------------
(* The theorems.                                                           *)

LEMMA InitOk == Init => IInv
<1> SUFFICES ASSUME Init PROVE IInv
  OBVIOUS
<1>1. TypeInv
  <2>1. framework \in 0 .. MaxFrameworks /\ made \in 0 .. Calls /\ sapCallback \in 0 .. framework
    BY BoundsAssumption DEF Init, None
  <2>2. binder \in [at : BinderSteps, of : 0 .. Calls]
    BY BoundsAssumption DEF Init, Idle, BinderSteps
  <2>3. request \in [Requests -> [id : Names, token : Nat]] /\ mem \in [Requests -> SUBSET Blocks]
    BY DEF Init, NoRequest, Names
  <2>4. vendor \in [Requests -> VendorSteps] /\ answers \in [Requests -> Nat] /\ queue \in Seq(Requests)
    BY DEF Init, VendorSteps
  <2> QED BY <2>1, <2>2, <2>3, <2>4 DEF Init, TypeInv
<1>2. DOMAIN queue = {} /\ ToSet(queue) = {} /\ Binder("idle")
  BY DEF Init, ToSet, Idle, Binder
<1>3. \A r \in Requests : vendor[r] = "none" /\ mem[r] = {} /\ answers[r] = 0 /\ r \notin lost /\ r > made
  BY DEF Init, Requests
<1>4. PlaceInv /\ QueueInv /\ HeldInv /\ KeysInv /\ ReturnedInv
  BY <1>2, <1>3 DEF PlaceInv, QueueInv, HeldInv, KeysInv, ReturnedInv, WithVendor, OnBinder, Binder
<1>5. StaleInv /\ ~twice
  BY DEF Init, StaleInv
<1>6. AnswerInv
  BY <1>3 DEF AnswerInv, Open
<1>7. HeardInv
  BY DEF Init, HeardInv
<1> QED BY <1>1, <1>4, <1>5, <1>6, <1>7 DEF IInv, MemoryInv

LEMMA Inductive == IInv /\ [Next]_vars => IInv'
<1>1. ASSUME IInv, Next PROVE IInv'
  <2>1. CASE crash
    BY <1>1, <2>1, CrashStep
  <2>2. CASE ~crash
    BY <1>1, <2>2, TypeStep, MemoryStep, AnswerStep, HeardStep DEF IInv
  <2> QED BY <2>1, <2>2
<1>2. ASSUME IInv, UNCHANGED vars PROVE IInv'
  <2>1. UNCHANGED <<stage, hasSocket, framework, alive, told, serial, sapCallback, raced, binder, made, request,
                    mem, stale, twice, queue, vendor, unsol, answers, lost, reused>>
    BY <1>2 DEF vars, processVars, frameworkVars, memoryVars, answerVars
  <2>2. TypeInv'
    BY <1>2, <2>1 DEF IInv, TypeInv
  <2>3. MemoryInv'
    BY <1>2, <2>1, QuietMemory DEF IInv, MemoryInv, StaleInv
  <2>4. AnswerInv'
    BY <1>2, <2>1 DEF IInv, AnswerInv, Open, Binder
  <2>5. HeardInv'
    BY <1>2, <2>1 DEF IInv, HeardInv, Resetting, Running, Binder
  <2> QED BY <2>2, <2>3, <2>4, <2>5 DEF IInv
<1> QED BY <1>1, <1>2

LEMMA InvariantHolds == Spec => []IInv
BY InitOk, Inductive, PTL DEF Spec

(* An over request is with neither thread, so nothing but the command of   *)
(* apduReq can be left of it, and it is not open any more.                 *)
LEMMA OverIsClosed ==
  ASSUME IInv, NEW r \in Requests, Over(r)
  PROVE  ~Open(r) /\ (~reused => mem[r] \subseteq {"command"})
<1>1. r <= made /\ ~(r > made) /\ ~WithVendor(r) /\ \A at \in BinderSteps \ {"idle"} : ~OnBinder(r, at)
  BY BinderType DEF Over, WithVendor, OnBinder, Binder, IInv, MemoryInv, Requests
<1>2. ~Open(r)
  BY <1>1 DEF Over, Open
<1>3. ASSUME ~reused PROVE mem[r] \subseteq {"command"}
  <2>1. r \notin ToSet(queue)
    BY <1>1, <1>3 DEF IInv, MemoryInv, KeysInv, BinderSteps
  <2> QED BY <1>1, <1>3, <2>1 DEF IInv, MemoryInv, ReturnedInv, OnceHeld, BinderSteps
<1> QED BY <1>2, <1>3

(* Every block of a request is freed, and once, on each of its ways: failed *)
(* at any step, or completed by a vendor thread before onRequest returns.   *)
THEOREM MemoryAlwaysSound == Spec => []MemorySound
<1>1. ASSUME IInv PROVE MemorySound
  <2>1. TypeOK
    BY <1>1 DEF IInv, TypeInv, TypeOK, BinderSteps, VendorSteps
  <2>2. PendingIsHeld
    BY <1>1 DEF IInv, MemoryInv, KeysInv, PendingIsHeld, WithVendor, OnBinder
  <2>3. FreedOnce /\ StaleOnlyByReuse
    BY <1>1 DEF IInv, MemoryInv, StaleInv, FreedOnce, StaleOnlyByReuse
  <2>4. MemoryReturned
    BY <1>1, OverIsClosed DEF MemoryReturned
  <2> QED BY <2>1, <2>2, <2>3, <2>4 DEF MemorySound
<1> QED BY <1>1, InvariantHolds, PTL

(* The framework gets at most one answer to a request, and when nobody has  *)
(* the request any more it got one, or the answer was given up.             *)
THEOREM EveryRequestAnsweredOnce == Spec => []AnsweredOnce
<1>1. ASSUME IInv PROVE AnsweredOnce
  BY <1>1, OverIsClosed DEF IInv, AnswerInv, AnsweredOnce
<1> QED BY <1>1, InvariantHolds, PTL

(* The callbacks of a framework that registered stay, unless a thread was   *)
(* about to reset those of its predecessor when it did.                     *)
THEOREM RegisteredStaysHeard == Spec => []LivingIsHeard
<1>1. ASSUME IInv PROVE LivingIsHeard
  BY <1>1 DEF IInv, HeardInv, LivingIsHeard
<1> QED BY <1>1, InvariantHolds, PTL
=============================================================================
