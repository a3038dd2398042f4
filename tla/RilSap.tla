------------------------------- MODULE RilSap -------------------------------
(***************************************************************************)
(* SIM access for Bluetooth: the ISap service of one slot (sap_service.cpp) *)
(* and the RilSapSocket behind it, which hands requests to the vendor and   *)
(* keeps them in a list until they are completed.                           *)
(*                                                                          *)
(* The Binder thread serves one call of the framework at a time.  Vendor    *)
(* threads complete requests and report events whenever they like, also     *)
(* before onRequest has returned.  Nothing but the list has a mutex: the    *)
(* callbacks of the framework are read and reset by all of them.            *)
(*                                                                          *)
(* Memory is modelled by who holds which block: a path that frees too much  *)
(* or too little shows.  Reading a freed block either crashes the process   *)
(* or finds it intact.  What is encoded and decoded is left out, but that   *)
(* either may fail; the decoded message, which nobody frees, is too.        *)
(***************************************************************************)
EXTENDS Naturals, FiniteSets, Sequences, SequencesExt

CONSTANTS
    Calls,         \* the requests that may be made, one after the other
    MaxFrameworks  \* bound: how often the framework starts

ASSUME BoundsAssumption == Calls \in Nat \ {0} /\ MaxFrameworks \in Nat

Requests == 1 .. Calls
None == 0   \* no framework, no callback object

VARIABLES
    stage,      \* of the process: "starting", "listed" or "serving"
    hasSocket,  \* the list of sockets has the one of this slot
    framework,  \* how many frameworks have run; the last may be alive
    alive,
    told,       \* it called setCallback since it and the service are up
    sapCallback,
    raced,      \* a thread was about to reset the callbacks when they were set
    binder,     \* where the Binder thread is
    serial,     \* the token it used last
    made,       \* number of requests made
    request,    \* MsgId and token of each
    mem,        \* blocks each request holds
    queue,      \* pendingResponseQueue, the newest first
    vendor,     \* where the vendor thread is that has the request
    unsol,      \* where the vendor thread is that reports an event
    answers,    \* answers the framework got to each request
    lost,       \* requests whose answer was given up, knowingly or not
    stale,      \* blocks that were read after they were freed
    twice,      \* a block was freed twice
    reused      \* two requests were pending with one MsgId and token

frameworkVars == <<framework, alive, told, serial>>
processVars == <<stage, hasSocket>>
answerVars == <<answers, lost>>
memoryVars == <<mem, stale, twice>>
vars == <<processVars, frameworkVars, sapCallback, raced, binder, made, request, memoryVars,
          queue, vendor, unsol, answerVars, reused>>

Blocks == {"msg", "command", "buffer", "payload", "wrapper"}
Idle == [at |-> "idle", of |-> 0]
Binder(at) == binder.at = at
Go(at) == binder' = [binder EXCEPT !.at = at]
Running == stage = "serving"

----------------------------------------------------------------------------
(* The process and the framework *)

\* RIL_register_socket: the vendor's Init has run and may report events; the
\* socket is listed if there is memory for it, then the service is registered.
initSapSocket ==
    /\ stage = "starting" /\ stage' = "listed"
    /\ hasSocket' \in BOOLEAN
    /\ UNCHANGED <<frameworkVars, sapCallback, raced, binder, made, request, memoryVars, queue,
                   vendor, unsol, answerVars, reused>>

registerService ==
    /\ stage = "listed" /\ stage' = "serving"
    /\ UNCHANGED <<hasSocket, frameworkVars, sapCallback, raced, binder, made, request,
                   memoryVars, queue, vendor, unsol, answerVars, reused>>

Over(r) == r <= made /\ ~(binder.of = r /\ ~Binder("idle")) /\ vendor[r] \in {"none", "done"}
NoRequest == [id |-> "none", token |-> 0]

\* A null callback, a null message or freed memory was used: init starts the
\* process again, and the framework learns that its service died.
crash ==
    /\ stage' = "starting" /\ hasSocket' = FALSE
    /\ told' = FALSE /\ sapCallback' = None /\ raced' = FALSE
    /\ binder' = Idle /\ unsol' = "idle" /\ queue' = <<>>
    /\ request' = [r \in Requests |-> NoRequest]
    /\ mem' = [r \in Requests |-> {}]
    /\ vendor' = [r \in Requests |-> IF r <= made THEN "done" ELSE "none"]
    /\ lost' = lost \cup {r \in 1 .. made : answers[r] = 0}
    /\ UNCHANGED <<framework, alive, serial, made, twice, answers, reused>>

frameworkStarts ==
    /\ ~alive /\ framework < MaxFrameworks
    /\ framework' = framework + 1 /\ alive' = TRUE /\ told' = FALSE /\ serial' = 0
    /\ UNCHANGED <<processVars, sapCallback, raced, binder, made, request, memoryVars, queue,
                   vendor, unsol, answerVars, reused>>

frameworkDies ==
    /\ alive
    /\ alive' = FALSE
    /\ UNCHANGED <<processVars, framework, told, serial, sapCallback, raced, binder, made, request,
                   memoryVars, queue, vendor, unsol, answerVars, reused>>

setCallback ==
    /\ Running /\ Binder("idle") /\ alive /\ ~told
    /\ sapCallback' = framework /\ told' = TRUE
    /\ raced' = \/ unsol = "reset"
                \/ \E r \in Requests : vendor[r] = "reset"
    /\ UNCHANGED <<processVars, framework, alive, serial, binder, made, request, memoryVars, queue,
                   vendor, unsol, answerVars, reused>>

----------------------------------------------------------------------------
(* Memory and answers *)

Alloc(r, blocks) == mem' = [mem EXCEPT ![r] = @ \cup blocks] /\ UNCHANGED twice
Release(r, blocks) ==
    /\ mem' = [mem EXCEPT ![r] = @ \ blocks]
    /\ twice' = (twice \/ ~(blocks \subseteq mem[r]))

Answer(r) == answers' = [answers EXCEPT ![r] = @ + 1] /\ UNCHANGED lost
GiveUp(r) == lost' = lost \cup {r} /\ UNCHANGED answers

\* A call reaches the framework if the object is that of the one alive.
Reaches == alive /\ sapCallback = framework

\* Mutant of statusOk.  The status is taken for a failure.
statusOkMutant == FALSE

\* checkReturnStatus: only a failed call resets the callbacks, whosever they are then.
statusOk == Reaches

----------------------------------------------------------------------------
(* Requests, on the Binder thread *)

binderFrame == UNCHANGED <<processVars, frameworkVars, sapCallback, raced, unsol>>

\* What a request holds when a step of it fails, and what sendFailedResponse is given to free.
Held(id, step) ==
    CASE step = "header"  -> {}
      [] step = "command" -> {"msg"}
      [] step = "size"    -> {"msg"} \cup id.command
      [] step = "buffer"  -> {"msg"} \cup id.command
      [] step = "encode"  -> {"msg", "buffer"} \cup id.command

FreedBy(id, step) ==
    CASE step = "header"           -> {}
      [] step = "command"          -> {"msg"}
      [] step \in {"size", "buffer"} -> {"msg"} \cup id.command
      [] step = "encode"           -> {"msg", "buffer"} \cup id.command

Steps(id) == {"header", "size", "buffer", "encode"} \cup (IF id.command = {} THEN {} ELSE {"command"})

\* createMsgHeader and the encoding: a request is encoded, or fails on the way.
encode(id) ==
    LET r == made + 1
    IN  /\ Running /\ Binder("idle") /\ alive /\ told /\ made < Calls
        /\ made' = r
        /\ request' = [request EXCEPT ![r] = [id |-> id.name, token |-> serial + 1]]
        /\ serial' = serial + 1
        /\ \/ \E step \in Steps(id) :
                 /\ mem' = [mem EXCEPT ![r] = Held(id, step) \ FreedBy(id, step)]
                 /\ twice' = (twice \/ ~(FreedBy(id, step) \subseteq Held(id, step)))
                 /\ binder' = [at |-> "fail", of |-> r]
           \/ /\ Alloc(r, {"msg", "buffer"} \cup id.command)
              /\ binder' = [at |-> "payload", of |-> r]
        /\ UNCHANGED <<processVars, framework, alive, told, sapCallback, raced, unsol, queue,
                       vendor, stale, answerVars, reused>>

Plain(name) == [name |-> name, command |-> {}]
connectReq == encode(Plain("connect"))
disconnectReq == encode(Plain("disconnect"))
apduReq == encode([name |-> "apdu", command |-> {}]) \/ encode([name |-> "apdu", command |-> {"command"}])
transferAtrReq == encode(Plain("transferAtr"))
powerReq == encode(Plain("power"))
resetSimReq == encode(Plain("resetSim"))
transferCardReaderStatusReq == encode(Plain("transferCardReaderStatus"))
setTransferProtocolReq == encode(Plain("setTransferProtocol"))

\* Mutant of addPayload.  Without memory it returns, and tells nobody.
addPayloadSilent ==
    LET r == binder.of
    IN  /\ Running /\ Binder("payload")
        /\ \/ Release(r, {"buffer", "msg"}) /\ Go("idle")
           \/ ~hasSocket /\ Release(r, {"buffer", "msg"}) /\ Go("fail")
           \/ hasSocket /\ Alloc(r, {"payload"}) /\ Go("dispatch")
        /\ binderFrame /\ UNCHANGED <<made, request, queue, vendor, stale, answerVars, reused>>

\* addPayloadAndDispatchRequest, up to the call of the socket.
addPayload ==
    LET r == binder.of
    IN  /\ Running /\ Binder("payload")
        /\ \/ Release(r, {"buffer", "msg"}) /\ Go("fail")
           \/ /\ ~hasSocket
              /\ Release(r, {"buffer", "msg"}) /\ Go("fail")
           \/ /\ hasSocket
              /\ Alloc(r, {"payload"}) /\ Go("dispatch")
        /\ binderFrame /\ UNCHANGED <<made, request, queue, vendor, stale, answerVars, reused>>

SameKey(q, r) == request[q].id = request[r].id /\ request[q].token = request[r].token

\* Without memory for the list entry the message is freed, and nobody is told.
dispatchRequest ==
    LET r == binder.of
    IN  /\ Running /\ Binder("dispatch")
        /\ \/ /\ Release(r, {"msg"})
              /\ GiveUp(r) /\ Go("free")
              /\ UNCHANGED <<queue, reused>>
           \/ /\ Alloc(r, {"wrapper"})
              /\ queue' = <<r>> \o queue
              /\ reused' = (reused \/ \E q \in ToSet(queue) : SameKey(q, r))
              /\ Go("onRequest") /\ UNCHANGED answerVars
        /\ binderFrame /\ UNCHANGED <<made, request, vendor, stale>>

\* The vendor has the request, and may complete it at once.
onRequest ==
    /\ Running /\ Binder("onRequest")
    /\ vendor' = [vendor EXCEPT ![binder.of] = "has"]
    /\ Go("free")
    /\ binderFrame /\ UNCHANGED <<made, request, memoryVars, queue, answerVars, reused>>

\* The end of addPayloadAndDispatchRequest: free(msg->payload), whoever freed msg.
freePayload ==
    LET r == binder.of
    IN  /\ Running /\ Binder("free")
        /\ stale' = stale \cup ({"msg"} \ mem[r])
        /\ \/ Release(r, {"payload", "buffer"})
              /\ Go("idle")
              /\ binderFrame /\ UNCHANGED <<made, request, queue, vendor, answerVars, reused>>
           \/ "msg" \notin mem[r] /\ crash

\* sendFailedResponse calls without a look at the callback object.
sendFailedResponse ==
    /\ Running /\ Binder("fail")
    /\ \/ /\ sapCallback = None
          /\ crash /\ UNCHANGED stale
       \/ /\ sapCallback # None
          /\ IF Reaches THEN Answer(binder.of) ELSE GiveUp(binder.of)
          /\ Go(IF statusOk THEN "idle" ELSE "reset")
          /\ binderFrame /\ UNCHANGED <<made, request, memoryVars, queue, vendor, reused>>

binderResets ==
    /\ Running /\ Binder("reset")
    /\ sapCallback' = None
    /\ Go("idle")
    /\ UNCHANGED <<processVars, frameworkVars, raced, made, request, memoryVars, queue, vendor,
                   unsol, answerVars, reused>>

----------------------------------------------------------------------------
(* Answers and events, on threads of the vendor *)

vendorFrame == UNCHANGED <<processVars, frameworkVars, raced, binder, made, request>>
VendorAt(r, at) == Running /\ vendor[r] = at
VendorGo(r, at) == vendor' = [vendor EXCEPT ![r] = at]

\* MsgIds of answers that are not looked at.
Undecoded == {"disconnect"}

\* sOnRequestComplete, onRequestComplete and processResponse, up to the test
\* of the callback.  There may be no memory for the answer; an answer that
\* cannot be decoded is a null pointer, which is followed after the test.
onRequestComplete(r) ==
    /\ VendorAt(r, "has")
    /\ stale' = stale \cup ({"wrapper"} \ mem[r])
    /\ \/ /\ \/ sapCallback # None /\ VendorGo(r, "call") /\ UNCHANGED lost
             \/ VendorGo(r, "dequeue") /\ lost' = lost \cup {r}
          /\ vendorFrame /\ UNCHANGED <<sapCallback, mem, twice, queue, unsol, answers, reused>>
       \/ /\ \/ "wrapper" \notin mem[r]
             \/ sapCallback # None /\ request[r].id \notin Undecoded
          /\ crash

\* Mutant of response.  It waits for callbacks instead of crashing.
responseWaits(r) ==
    /\ VendorAt(r, "call") /\ sapCallback # None
    /\ IF Reaches THEN Answer(r) ELSE GiveUp(r)
    /\ VendorGo(r, IF statusOk THEN "dequeue" ELSE "reset")
    /\ vendorFrame /\ UNCHANGED <<sapCallback, memoryVars, queue, unsol, reused>>

\* The call of processResponse reads the callback again.
response(r) ==
    /\ VendorAt(r, "call")
    /\ \/ sapCallback = None /\ crash /\ UNCHANGED stale
       \/ /\ sapCallback # None
          /\ IF Reaches THEN Answer(r) ELSE GiveUp(r)
          /\ VendorGo(r, IF statusOk THEN "dequeue" ELSE "reset")
          /\ vendorFrame /\ UNCHANGED <<sapCallback, memoryVars, queue, unsol, reused>>

vendorResets(r) ==
    /\ VendorAt(r, "reset")
    /\ sapCallback' = None
    /\ VendorGo(r, "dequeue")
    /\ vendorFrame /\ UNCHANGED <<memoryVars, queue, unsol, answerVars, reused>>

\* Mutant of checkAndDequeue.  The newest entry is taken, whose it is is not compared.
checkAndDequeueNewest(r) ==
    /\ VendorAt(r, "dequeue") /\ queue # <<>>
    /\ queue' = Tail(queue)
    /\ mem' = [q \in Requests |-> mem[q] \ ((IF q = Head(queue) THEN {"wrapper"} ELSE {})
                                            \cup (IF q = r THEN {"msg"} ELSE {}))]
    /\ UNCHANGED <<twice, stale>>
    /\ VendorGo(r, "done")
    /\ vendorFrame /\ UNCHANGED <<sapCallback, unsol, answerVars, reused>>

\* checkAndDequeue frees the first entry with the MsgId and the token, having
\* read the messages of those before it; onRequestComplete frees the message.
checkAndDequeue(r) ==
    LET found == {i \in 1 .. Len(queue) : SameKey(queue[i], r)}
        first == CHOOSE i \in found : \A j \in found : i <= j
        read == {queue[i] : i \in 1 .. (IF found = {} THEN Len(queue) ELSE first)}
    IN  /\ VendorAt(r, "dequeue")
        /\ stale' = stale \cup (IF \A q \in read : "msg" \in mem[q] THEN {} ELSE {"listed"})
        /\ \/ /\ IF found = {}
                 THEN Release(r, {"msg"}) /\ UNCHANGED queue
                 ELSE /\ queue' = RemoveAt(queue, first)
                      /\ mem' = [q \in Requests |->
                            mem[q] \ ((IF q = queue[first] THEN {"wrapper"} ELSE {})
                                      \cup (IF q = r THEN {"msg"} ELSE {}))]
                      /\ twice' = (twice \/ "wrapper" \notin mem[queue[first]] \/ "msg" \notin mem[r])
              /\ VendorGo(r, "done")
              /\ vendorFrame /\ UNCHANGED <<sapCallback, unsol, answerVars, reused>>
           \/ stale' # stale /\ crash

unsolFrame == vendorFrame /\ UNCHANGED <<memoryVars, queue, vendor, answerVars, reused>>

\* onUnsolicitedResponse: before the socket is listed nothing happens, before
\* the service is registered there is no object to look for callbacks in, and
\* what cannot be decoded is a null pointer.
onUnsolicitedResponse ==
    /\ unsol = "idle" /\ hasSocket
    /\ \/ /\ stage = "listed" \/ sapCallback # None
          /\ crash /\ UNCHANGED stale
       \/ /\ Running /\ sapCallback # None
          /\ unsol' = "call"
          /\ UNCHANGED sapCallback /\ unsolFrame

indication ==
    /\ unsol = "call"
    /\ \/ sapCallback = None /\ crash /\ UNCHANGED stale
       \/ /\ sapCallback # None
          /\ unsol' = IF statusOk THEN "idle" ELSE "reset"
          /\ UNCHANGED sapCallback /\ unsolFrame

unsolResets ==
    /\ Running /\ unsol = "reset"
    /\ sapCallback' = None /\ unsol' = "idle"
    /\ unsolFrame

----------------------------------------------------------------------------

Init ==
    /\ stage = "starting" /\ hasSocket = FALSE
    /\ framework = 0 /\ alive = FALSE /\ told = FALSE /\ serial = 0
    /\ sapCallback = None /\ raced = FALSE
    /\ binder = Idle /\ made = 0
    /\ request = [r \in Requests |-> NoRequest]
    /\ mem = [r \in Requests |-> {}] /\ stale = {} /\ twice = FALSE
    /\ queue = <<>> /\ vendor = [r \in Requests |-> "none"] /\ unsol = "idle"
    /\ answers = [r \in Requests |-> 0] /\ lost = {} /\ reused = FALSE

processNext == initSapSocket \/ registerService
frameworkNext ==
    \/ frameworkStarts \/ frameworkDies \/ setCallback
    \/ connectReq \/ disconnectReq \/ apduReq \/ transferAtrReq \/ powerReq \/ resetSimReq
    \/ transferCardReaderStatusReq \/ setTransferProtocolReq
binderNext ==
    addPayload \/ dispatchRequest \/ onRequest \/ freePayload \/ sendFailedResponse \/ binderResets
vendorNext(r) ==
    onRequestComplete(r) \/ response(r) \/ vendorResets(r) \/ checkAndDequeue(r)
unsolNext == onUnsolicitedResponse \/ indication \/ unsolResets

Next ==
    \/ processNext \/ frameworkNext \/ binderNext \/ unsolNext
    \/ \E r \in Requests : vendorNext(r)

Spec == Init /\ [][Next]_vars

\* The threads run, and the vendor completes what it was given.
FairSpec ==
    /\ Spec
    /\ WF_vars(binderNext)
    /\ \A r \in Requests : WF_vars(vendorNext(r))

----------------------------------------------------------------------------
(* Properties *)

TypeOK ==
    /\ stage \in {"starting", "listed", "serving"}
    /\ framework \in 0 .. MaxFrameworks /\ sapCallback \in 0 .. framework
    /\ binder.at \in {"idle", "fail", "payload", "dispatch", "onRequest", "free", "reset"}
    /\ made \in 0 .. Calls
    /\ \A r \in Requests :
          /\ mem[r] \subseteq Blocks
          /\ vendor[r] \in {"none", "has", "call", "reset", "dequeue", "done"}
    /\ unsol \in {"idle", "call", "reset"}
    /\ stale \subseteq {"msg", "wrapper", "listed"}

\* The list holds what the vendor has, or is about to get, unless a framework
\* that was started again used the token of a request still pending.
PendingIsHeld ==
    ~reused =>
        ToSet(queue) = {r \in Requests : \/ vendor[r] \notin {"none", "done"}
                                         \/ Binder("onRequest") /\ binder.of = r}

\* No block is freed twice, on any path of a request that fails.
FreedOnce == ~twice

\* The vendor's token and the list entries are used only while they live; what
\* is read after it was freed is the message whose payload is freed last.
StaleOnlyByReuse == ~reused => stale \subseteq {"msg"}

\* A request that is over has left no memory, but for the command of apduReq.
MemoryReturned ==
    ~reused => \A r \in Requests : Over(r) => mem[r] \subseteq {"command"}

\* A request is answered once, or its answer was given up.
AnsweredOnce ==
    \A r \in Requests :
        /\ answers[r] <= 1
        /\ Over(r) => answers[r] = 1 \/ r \in lost
        /\ answers[r] = 1 => r \notin lost

\* A framework that registered is heard, unless its callbacks came just when
\* a call to its predecessor had failed and was about to reset them.
LivingIsHeard == Running /\ alive /\ told /\ ~raced => sapCallback = framework

\* A request comes to an end, be it that of the process.
RequestEnds == \A r \in Requests : r = made ~> Over(r)

\* The memory of requests is freed once, in time and not too early.
MemorySound == TypeOK /\ PendingIsHeld /\ FreedOnce /\ StaleOnlyByReuse /\ MemoryReturned
=============================================================================
