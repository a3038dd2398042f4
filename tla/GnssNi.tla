------------------------------- MODULE GnssNi -------------------------------
(***************************************************************************)
(* Network-initiated (NI) requests in gps/gnss/GnssAdapter.cpp.  The modem *)
(* asks whether it may disclose the position; the adapter keeps at most    *)
(* one ordinary and one emergency request, starts a thread for each that   *)
(* waits for the user's response or for a time-out, and hands the answer   *)
(* back to the modem.                                                      *)
(*                                                                         *)
(* The adapter's MsgTask thread reads reqID and rawRequest without tLock,  *)
(* and niThreadProc clears reqID after it has released tLock, so both      *)
(* threads are cut at these points.  The sections under tLock are atomic.  *)
(* Time is not measured: a waiting thread may time out at any moment.      *)
(***************************************************************************)
EXTENDS Naturals, Sequences, FiniteSets

CONSTANTS
  MaxRequests,   \* bound: NI requests of the modem
  MaxReplies,    \* bound: responses of the framework
  Responses      \* the responses gnssNiRespond lets through

ASSUME BoundsAssumption == MaxRequests \in Nat /\ MaxReplies \in Nat
ASSUME ResponsesAssumption == Responses \subseteq {"ACCEPT", "DENY", "NO_RESPONSE"}

Requests  == 1 .. MaxRequests
Sessions  == {"session", "sessionEs"}   \* the two members of NiData
None      == "none"

VARIABLES
  queue,        \* the MsgTask of the adapter
  niCb,         \* a client has registered gnssNiCb
  rawRequest,   \* per session: the request whose data it holds, 0 for NULL
  reqID,        \* per session
  resp,         \* per session
  respRecvd,    \* per session
  reqIDCounter,
  adapter,      \* where the adapter's thread is: [pc, s, resp]
  thread,       \* per request: where its NI thread is
  taken,        \* per request: the data its thread took out of the session, 0 for none
  takenResp,    \* per request: the response taken with it
  kind,         \* per request: the session it is for
  payload,      \* per request: the life of its data
  shown,        \* per request: the id the user was shown, as a set
  given,        \* per request: the responses the user gave to it
  replies,      \* number of responses so far
  informed      \* per request: what informNiResponse told the modem

sessionVars == <<rawRequest, reqID, resp, respRecvd>>
threadVars  == <<thread, taken, takenResp>>
userVars    == <<shown, given, replies>>
vars == <<queue, niCb, sessionVars, reqIDCounter, adapter, threadVars, kind, payload, userVars,
          informed>>

ThreadPc == {"none", "failed", "new", "waiting", "clearing", "sending", "done"}
Idle     == [pc |-> "idle", s |-> "session", resp |-> None]

NotifyMsg(n)     == [op |-> "notify", arg |-> n, resp |-> None]
RespondMsg(i, r) == [op |-> "respond", arg |-> i, resp |-> r]
InformMsg(n, r)  == [op |-> "inform", arg |-> n, resp |-> r]

(* free() of the data of request n, given the life of all data.            *)
free(life, n) == [life EXCEPT ![n] = IF @ = "alive" THEN "freed" ELSE "corrupt"]

Pop == queue' = Tail(queue)

-----------------------------------------------------------------------------
(* The modem and the user.                                                 *)

(* GnssAdapter::requestNiNotifyEvent, called by the modem's thread.        *)
requestNiNotifyEvent ==
  \E n \in Requests, s \in Sessions :
    /\ payload[n] = "unsent" /\ \A m \in 1 .. n - 1 : payload[m] # "unsent"
    /\ kind' = [kind EXCEPT ![n] = s]
    /\ payload' = [payload EXCEPT ![n] = "alive"]
    /\ queue' = Append(queue, NotifyMsg(n))
    /\ UNCHANGED <<niCb, sessionVars, reqIDCounter, adapter, threadVars, userVars, informed>>

(* GnssAPIClient::gnssNiRespond: late and repeated responses are possible, *)
(* an unknown response type is dropped.                                    *)
respondWith(n, r) ==
  /\ replies < MaxReplies
  /\ \E id \in shown[n] : queue' = Append(queue, RespondMsg(id, r))
  /\ replies' = replies + 1
  /\ given' = [given EXCEPT ![n] = @ \cup {r}]
  /\ UNCHANGED <<niCb, sessionVars, reqIDCounter, adapter, threadVars, kind, payload, shown,
                 informed>>

gnssNiRespond == \E n \in Requests, r \in Responses : respondWith(n, r)

-----------------------------------------------------------------------------
(* The adapter's thread.                                                   *)

(* saveClient and eraseClient change which client has a gnssNiCb.          *)
updateClients ==
  /\ adapter = Idle
  /\ niCb' = ~niCb
  /\ UNCHANGED <<queue, sessionVars, reqIDCounter, adapter, threadVars, kind, payload, userVars,
                 informed>>

(* requestNiNotify ignores a request of a busy session; an ordinary one    *)
(* also while an emergency request is in progress.                         *)
Busy(s) == rawRequest[s] # 0 \/ rawRequest["sessionEs"] # 0

(* requestNiNotify up to the request being saved.                          *)
requestNiNotify ==
  /\ adapter = Idle /\ queue # <<>> /\ Head(queue).op = "notify"
  /\ LET n == Head(queue).arg
         s == kind[n]
     IN \/ /\ ~niCb   \* returns without freeing the data
           /\ payload' = [payload EXCEPT ![n] = "leaked"]
           /\ UNCHANGED <<rawRequest, reqID, reqIDCounter, adapter>>
        \/ /\ niCb /\ Busy(s)
           /\ payload' = free(payload, n)
           /\ UNCHANGED <<rawRequest, reqID, reqIDCounter, adapter>>
        \/ /\ niCb /\ ~Busy(s)
           /\ rawRequest' = [rawRequest EXCEPT ![s] = n]
           /\ reqIDCounter' = reqIDCounter + 1
           /\ reqID' = [reqID EXCEPT ![s] = reqIDCounter + 1]
           /\ adapter' = [pc |-> "spawn", s |-> s, resp |-> None]
           /\ UNCHANGED payload
  /\ Pop
  /\ UNCHANGED <<niCb, resp, respRecvd, threadVars, kind, userVars, informed>>

(* The rest of requestNiNotify: the id is read back, the thread created,   *)
(* the user notified.  A failure of pthread_create is only logged.  The id *)
(* may be read from memory again, where the thread of the request before   *)
(* may have cleared it.                                                    *)
spawn ==
  /\ adapter.pc = "spawn"
  /\ LET n == rawRequest[adapter.s]
     IN /\ \E ok \in BOOLEAN : thread' = [thread EXCEPT ![n] = IF ok THEN "new" ELSE "failed"]
        /\ \E id \in {reqIDCounter, reqID[adapter.s]} : shown' = [shown EXCEPT ![n] = {id}]
  /\ adapter' = Idle
  /\ UNCHANGED <<queue, niCb, sessionVars, reqIDCounter, taken, takenResp, kind, payload, given,
                 replies, informed>>

(* The session a response is for: the one with this id and a request.      *)
ActiveSession(id) == {s \in Sessions : reqID[s] = id /\ rawRequest[s] # 0}

(* MsgGnssNiResponse::proc up to the first lock.  The emergency session    *)
(* is tried first.                                                         *)
gnssNiResponse ==
  /\ adapter = Idle /\ queue # <<>> /\ Head(queue).op = "respond"
  /\ LET m      == Head(queue)
         active == ActiveSession(m.arg)
         s      == IF "sessionEs" \in active THEN "sessionEs" ELSE "session"
     IN adapter' = IF ~niCb \/ active = {}
                   THEN Idle   \* reportResponse(LOCATION_ERROR_ID_UNKNOWN)
                   ELSE [pc |-> IF s = "sessionEs" /\ m.resp = "ACCEPT"
                                   /\ rawRequest["session"] # 0
                                THEN "ignore" ELSE "record",
                         s |-> s, resp |-> m.resp]
  /\ Pop
  /\ UNCHANGED <<niCb, sessionVars, reqIDCounter, threadVars, kind, payload, userVars, informed>>

(* ignore any SUPL NI non-Es session if a SUPL NI ES is accepted           *)
ignoreSession ==
  /\ adapter.pc = "ignore"
  /\ resp' = [resp EXCEPT !["session"] = "IGNORE"]
  /\ respRecvd' = [respRecvd EXCEPT !["session"] = TRUE]
  /\ adapter' = [adapter EXCEPT !.pc = "record"]
  /\ UNCHANGED <<queue, niCb, rawRequest, reqID, reqIDCounter, threadVars, kind, payload,
                 userVars, informed>>

recordEverywhere ==   \* mutant: the response is recorded in the wrong session
  /\ adapter.pc = "record"
  /\ resp' = [s \in Sessions |-> adapter.resp]
  /\ respRecvd' = [s \in Sessions |-> TRUE]
  /\ adapter' = Idle
  /\ UNCHANGED <<queue, niCb, rawRequest, reqID, reqIDCounter, threadVars, kind, payload,
                 userVars, informed>>

recordResponse ==
  /\ adapter.pc = "record"
  /\ resp' = [resp EXCEPT ![adapter.s] = adapter.resp]
  /\ respRecvd' = [respRecvd EXCEPT ![adapter.s] = TRUE]
  /\ adapter' = Idle
  /\ UNCHANGED <<queue, niCb, rawRequest, reqID, reqIDCounter, threadVars, kind, payload,
                 userVars, informed>>

(* The message niThreadProc sends: the modem is informed, and the message  *)
(* frees the data when it is deleted.                                      *)
informNiResponse ==
  /\ adapter = Idle /\ queue # <<>> /\ Head(queue).op = "inform"
  /\ LET m == Head(queue)
     IN /\ informed' = [informed EXCEPT ![m.arg] = @ \cup {m.resp}]
        /\ payload' = free(payload, m.arg)
  /\ Pop
  /\ UNCHANGED <<niCb, sessionVars, reqIDCounter, adapter, threadVars, kind, userVars>>

-----------------------------------------------------------------------------
(* niThreadProc, for the request n.                                        *)

(* The end of the locked part, when the session's response is r.           *)
endSessionKeepRequest(n, r) ==   \* mutant: rawRequest stays set when it is ignored
  LET s == kind[n]
      d == rawRequest[s]
  IN /\ resp' = [resp EXCEPT ![s] = r]
     /\ respRecvd' = [respRecvd EXCEPT ![s] = FALSE]
     /\ rawRequest' = [rawRequest EXCEPT ![s] = IF r # "IGNORE" THEN 0 ELSE @]
     /\ taken' = [taken EXCEPT ![n] = IF r # "IGNORE" THEN d ELSE 0]
     /\ takenResp' = [takenResp EXCEPT ![n] = r]
     /\ payload' = IF d # 0 /\ r = "IGNORE" THEN free(payload, d) ELSE payload
     /\ thread' = [thread EXCEPT ![n] = "clearing"]
     /\ UNCHANGED <<queue, niCb, reqID, reqIDCounter, adapter, kind, userVars, informed>>

endSession(n, r) ==
  LET s == kind[n]
      d == rawRequest[s]
  IN /\ resp' = [resp EXCEPT ![s] = r]
     /\ respRecvd' = [respRecvd EXCEPT ![s] = FALSE]
     /\ rawRequest' = [rawRequest EXCEPT ![s] = 0]
     /\ taken' = [taken EXCEPT ![n] = IF r # "IGNORE" THEN d ELSE 0]
     /\ takenResp' = [takenResp EXCEPT ![n] = r]
     /\ payload' = IF d # 0 /\ r = "IGNORE" THEN free(payload, d) ELSE payload
     /\ thread' = [thread EXCEPT ![n] = "clearing"]
     /\ UNCHANGED <<queue, niCb, reqID, reqIDCounter, adapter, kind, userVars, informed>>

(* The first test of respRecvd.                                            *)
niStart(n) ==
  /\ thread[n] = "new"
  /\ IF respRecvd[kind[n]]
     THEN endSession(n, resp[kind[n]])
     ELSE /\ thread' = [thread EXCEPT ![n] = "waiting"]
          /\ UNCHANGED <<queue, niCb, sessionVars, reqIDCounter, adapter, taken, takenResp, kind,
                         payload, userVars, informed>>

niWake(n) ==
  /\ thread[n] = "waiting" /\ respRecvd[kind[n]]
  /\ endSession(n, resp[kind[n]])

niTimeoutIgnored(n) ==   \* mutant: the loop goes on after a time-out
  /\ thread[n] = "waiting" /\ respRecvd[kind[n]]
  /\ endSession(n, "NO_RESPONSE")

(* ETIMEDOUT, possibly although a response has just been recorded.         *)
niTimeout(n) ==
  /\ thread[n] = "waiting"
  /\ endSession(n, "NO_RESPONSE")

(* pSession->reqID = 0, after the lock was released.                       *)
niClear(n) ==
  /\ thread[n] = "clearing"
  /\ reqID' = [reqID EXCEPT ![kind[n]] = 0]
  /\ thread' = [thread EXCEPT ![n] = IF taken[n] # 0 THEN "sending" ELSE "done"]
  /\ UNCHANGED <<queue, niCb, rawRequest, resp, respRecvd, reqIDCounter, adapter, taken,
                 takenResp, kind, payload, userVars, informed>>

niSend(n) ==
  /\ thread[n] = "sending"
  /\ queue' = Append(queue, InformMsg(taken[n], takenResp[n]))
  /\ taken' = [taken EXCEPT ![n] = 0]
  /\ thread' = [thread EXCEPT ![n] = "done"]
  /\ UNCHANGED <<niCb, sessionVars, reqIDCounter, adapter, takenResp, kind, payload, userVars,
                 informed>>

niThreadProc(n) == niStart(n) \/ niWake(n) \/ niTimeout(n) \/ niClear(n) \/ niSend(n)

-----------------------------------------------------------------------------
Init ==
  /\ queue = <<>> /\ niCb = TRUE
  /\ rawRequest = [s \in Sessions |-> 0]
  /\ reqID = [s \in Sessions |-> 0]
  /\ resp = [s \in Sessions |-> None]
  /\ respRecvd = [s \in Sessions |-> FALSE]
  /\ reqIDCounter = 0
  /\ adapter = Idle
  /\ thread = [n \in Requests |-> "none"]
  /\ taken = [n \in Requests |-> 0]
  /\ takenResp = [n \in Requests |-> None]
  /\ kind = [n \in Requests |-> "session"]
  /\ payload = [n \in Requests |-> "unsent"]
  /\ shown = [n \in Requests |-> {}]
  /\ given = [n \in Requests |-> {}]
  /\ replies = 0
  /\ informed = [n \in Requests |-> {}]

adapterThread == requestNiNotify \/ spawn \/ gnssNiResponse \/ ignoreSession \/ recordResponse
                 \/ informNiResponse

Next ==
  \/ requestNiNotifyEvent \/ gnssNiRespond \/ updateClients
  \/ adapterThread
  \/ \E n \in Requests : niThreadProc(n)

Spec == Init /\ [][Next]_vars

(* Both kinds of thread are scheduled, and a wait ends by its time-out.    *)
FairSpec == Spec /\ WF_vars(adapterThread) /\ \A n \in Requests : WF_vars(niThreadProc(n))

-----------------------------------------------------------------------------
TypeOK ==
  /\ niCb \in BOOLEAN
  /\ rawRequest \in [Sessions -> {0} \cup Requests]
  /\ reqID \in [Sessions -> 0 .. MaxRequests]
  /\ resp \in [Sessions -> Responses \cup {"NO_RESPONSE", "IGNORE", None}]
  /\ respRecvd \in [Sessions -> BOOLEAN]
  /\ reqIDCounter \in 0 .. MaxRequests
  /\ adapter \in [pc : {"idle", "spawn", "ignore", "record"}, s : Sessions,
                  resp : Responses \cup {None}]
  /\ thread \in [Requests -> ThreadPc]
  /\ taken \in [Requests -> {0} \cup Requests]
  /\ takenResp \in [Requests -> Responses \cup {"NO_RESPONSE", "IGNORE", None}]
  /\ kind \in [Requests -> Sessions]
  /\ payload \in [Requests -> {"unsent", "alive", "freed", "leaked", "corrupt"}]
  /\ shown \in [Requests -> SUBSET (0 .. MaxRequests)]
  /\ given \in [Requests -> SUBSET Responses]
  /\ informed \in [Requests -> SUBSET (Responses \cup {"NO_RESPONSE"})]

(* Who holds the data of request n: messages, sessions, threads.           *)
Holders(n) ==
  {<<"msg", i>> : i \in {j \in DOMAIN queue : queue[j].op # "respond" /\ queue[j].arg = n}}
  \cup {<<"session", s>> : s \in {t \in Sessions : rawRequest[t] = n}}
  \cup {<<"thread", m>> : m \in {k \in Requests : taken[k] = n}}

(* The data of a request, which passes from message to session to thread   *)
(* to message, has exactly one holder until it is freed and none           *)
(* afterwards: it is neither freed twice nor lost on the way (but for the  *)
(* early return of requestNiNotify without clients).                       *)
DataHeldOnce ==
  \A n \in Requests :
    /\ payload[n] # "corrupt"
    /\ Cardinality(Holders(n)) = IF payload[n] = "alive" THEN 1 ELSE 0

(* A session that holds a request is not forgotten: the thread of this     *)
(* request has not yet left its locked part (or is about to be created),   *)
(* unless pthread_create failed.                                           *)
HeldIsWaitedFor ==
  \A s \in Sessions :
    rawRequest[s] # 0 =>
      \/ adapter.pc = "spawn" /\ adapter.s = s
      \/ thread[rawRequest[s]] \in {"new", "waiting", "failed"} /\ kind[rawRequest[s]] = s

(* No answer but a time-out is made up: what the modem is told is what the *)
(* user said to a request of the same kind, this one or an earlier one (a  *)
(* response recorded after its request has timed out answers the next), or *)
(* to a request that was shown without its id.                             *)
UserSaid(n, r) ==
  \E m \in Requests : r \in given[m] /\ ((m <= n /\ kind[m] = kind[n]) \/ 0 \in shown[m])

AnswerIsFromUser ==
  \A n \in Requests : \A r \in informed[n] \ {"NO_RESPONSE"} : UserSaid(n, r)

(* Every request the adapter has accepted is over some time: the thread    *)
(* answers it or the request is ignored in favour of an emergency.         *)
RequestEnds ==
  \A n \in Requests : (thread[n] = "new") ~> (payload[n] = "freed")

\* The data of a request has one holder, and a session that holds one has a thread that waits.
RequestsHeld == TypeOK /\ DataHeldOnce /\ HeldIsWaitedFor
=============================================================================
