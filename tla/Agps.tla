-------------------------------- MODULE Agps --------------------------------
(***************************************************************************)
(* The AGPS manager of the GNSS HAL (gps/gnss/Agps.{h,cpp}) and the part   *)
(* of GnssAdapter that feeds it.  The modem asks for an ATL ("assistance   *)
(* transport link") under a connection handle; the manager owns one state  *)
(* machine per network interface and multiplexes the handles over one      *)
(* data connection per machine.  Every handler runs on the adapter's       *)
(* message thread; the modem (QMI thread), the Android framework (binder   *)
(* thread), the DS client and the retry timer only post messages.          *)
(*                                                                         *)
(* Left out: the APN and bearer strings a GRANTED callback carries, and    *)
(* handleModemSSR, which nothing in the repository calls.                  *)
(***************************************************************************)
EXTENDS Naturals, Sequences, FiniteSets, Functions

CONSTANTS
  Handles,          \* connection handles; the modem uses each for one session
  ModemTypes,       \* the AGpsExtTypes the modem asks for
  ServedTypes,      \* the AGpsExtTypes the framework callback acts upon
  DsAnswers,        \* what openAndStartDataCall returns
  UseEmergencyPdn,  \* USE_EMERGENCY_PDN_FOR_EMERGENCY_SUPL in gps.conf
  MaxRetries        \* MAX_START_DATA_CALL_RETRIES

ASSUME HandlesAssumption == IsFiniteSet(Handles)
ASSUME TypesAssumption   == /\ ModemTypes \subseteq {"SUPL", "WWAN_ANY", "SUPL_ES"}
                            /\ ServedTypes \subseteq {"SUPL", "WWAN_ANY"}
                            /\ DsAnswers \subseteq {"SUCCESS", "BUSY", "UNSUPPORTED", "OTHER"}
ASSUME ConfAssumption    == UseEmergencyPdn \in BOOLEAN /\ MaxRetries \in Nat

(* mAgnssNif, mInternetNif and mDsNif.  The first two are instances of     *)
(* AgpsStateMachine, the third is the DSStateMachine subclass.             *)
PlainMachines == {"agnss", "internet"}
Machines      == PlainMachines \cup {"ds"}
AgpsState     == {"RELEASED", "PENDING", "ACQUIRED", "RELEASING"}

VARIABLES
  nifs,             \* the machines that have been created
  mState,           \* [Machines -> AgpsState]
  mSubscriberList,  \* [Machines -> Seq(Handles)], the handles of the list
  waits,            \* [Machines -> SUBSET Handles], mWaitForCloseComplete
  inactive,         \* [Machines -> SUBSET Handles], mIsInactive
  mRetries,         \* DSStateMachine::mRetries
  retryTimers,      \* retry timers running
  queue,            \* the adapter's message queue
  cmds,             \* [Machines -> Seq], requests and releases under way to the framework
  link,             \* [Machines -> LinkState], the data connection itself
  atl               \* [Handles -> AtlState], the modem's view of its sessions

vars  == <<nifs, mState, mSubscriberList, waits, inactive, mRetries,
           retryTimers, queue, cmds, link, atl>>
subVars   == <<mSubscriberList, waits, inactive>>
retryVars == <<mRetries, retryTimers>>

LinkState == {"down", "opening", "up"}
AtlState  == {"idle", "opening", "open", "closing", "closed", "failed"}

RequestMsg(h, t) == [msg |-> "requestATL", handle |-> h, agps |-> t]
ReleaseMsg(h)    == [msg |-> "releaseATL", handle |-> h]
ReportMsg(m, sm) == [msg |-> m, sm |-> sm]

Reports == {"opened", "failed", "closed"}
Msg == [msg : {"requestATL"}, handle : Handles, agps : {"SUPL", "WWAN_ANY", "SUPL_ES"}]
         \cup [msg : {"releaseATL"}, handle : Handles]
         \cup [msg : Reports, sm : Machines]

-----------------------------------------------------------------------------
(* The subscriber list.                                                    *)

Subscribers(sm) == Range(mSubscriberList[sm])

(* anyActiveSubscribers() is  Active(sm) # {}.                             *)
Active(sm) == Subscribers(sm) \ inactive[sm]

(* The lists that hold exactly K, in the order of list s: one list, given  *)
(* as a set so that its members can be reasoned about directly.            *)
InOrder(s, K) ==
  {t \in [1..Cardinality(K) -> K] :
     /\ Range(t) = K
     /\ \A i, j \in DOMAIN t :
          i < j => \E p, q \in DOMAIN s : p < q /\ s[p] = t[i] /\ s[q] = t[j]}

(* addSubscriber: append unless a subscriber with this handle is there.    *)
addSubscriber(sm, h, w) ==
  IF h \in Subscribers(sm)
  THEN UNCHANGED subVars
  ELSE /\ mSubscriberList' = [mSubscriberList EXCEPT ![sm] = Append(@, h)]
       /\ waits' = [waits EXCEPT ![sm] = IF w THEN @ \cup {h} ELSE @ \ {h}]
       /\ inactive' = [inactive EXCEPT ![sm] = @ \ {h}]

(* Mutant: the entries are never erased.                                   *)
keepEverySubscriber(sm, K) == UNCHANGED subVars

(* Keep the subscribers in K, delete the others.                           *)
keepSubscribers(sm, K) ==
  /\ \E t \in InOrder(mSubscriberList[sm], K) :
       mSubscriberList' = [mSubscriberList EXCEPT ![sm] = t]
  /\ waits' = [waits EXCEPT ![sm] = @ \cap K]
  /\ inactive' = [inactive EXCEPT ![sm] = @ \cap K]

(* getFirstSubscriber(false) on the list s, the inactive ones being out:   *)
(* the empty set stands for NULL.                                          *)
FirstActive(s, out) ==
  {s[i] : i \in {k \in DOMAIN s : /\ s[k] \notin out
                                  /\ \A j \in DOMAIN s : j < k => s[j] \in out}}

-----------------------------------------------------------------------------
(* Callbacks into the modem: mLocApi->atlOpenStatus and atlCloseStatus     *)
(* for every handle of H.  A session whose close is due may be told that   *)
(* its open failed ("failed"): for the modem too it is over.  Any other    *)
(* callback that the modem is not waiting for leaves a session as it is.   *)
AtlOpenOnlySuccess(H, success) ==  \* mutant: a failure is not reported
  [h \in Handles |-> IF h \in H /\ atl[h] = "opening" /\ success THEN "open" ELSE atl[h]]

AtlOpenStatus(H, success) ==
  [h \in Handles |->
     CASE h \in H /\ atl[h] = "opening" -> IF success THEN "open" ELSE "closed"
       [] h \in H /\ atl[h] = "closing" /\ ~success -> "failed"
       [] OTHER -> atl[h]]

AtlCloseOnlyAsked(H) ==    \* mutant: a forced release is not reported
  [h \in Handles |-> IF h \in H /\ atl[h] = "closing" THEN "closed" ELSE atl[h]]

AtlCloseOnlyForced(H) ==   \* mutant: a release that was asked for is not confirmed
  [h \in Handles |-> IF h \in H /\ atl[h] = "open" THEN "closed" ELSE atl[h]]

AtlCloseStatus(H) == [h \in Handles |-> IF h \in H THEN "closed" ELSE atl[h]]

(* requestOrReleaseDataConn(false): the framework callback, or for the DS  *)
(* machine mDSClientStopDataCallFn.                                        *)
ReleaseDataConn(sm) == cmds' = [cmds EXCEPT ![sm] = Append(@, "RELEASE")]

(* DSStateMachine::notifyEventToSubscriber(DENIED): fall back to SUPL.     *)
FallBack(s) == [i \in DOMAIN s |-> RequestMsg(s[i], "SUPL")]

RetriesLeftOffByOne == mRetries <= MaxRetries   \* mutant

(* The ENGINE_BUSY case: mRetries > MAX_START_DATA_CALL_RETRIES after the  *)
(* increment means exhausted.                                              *)
RetriesLeft == mRetries < MaxRetries

(* requestOrReleaseDataConn(true) of the DS machine on the list s, the     *)
(* inactive ones being out; posted messages go behind q.  The DS client's  *)
(* answer is its own; ok says whether 0 is returned.                       *)
StartDataCall(s, out, q, ok) ==
  \/ /\ FirstActive(s, out) = {}
     /\ ok = FALSE
     /\ queue' = q
     /\ UNCHANGED <<cmds, retryVars>>
  \/ \E first \in FirstActive(s, out), ret \in DsAnswers :
       LET retry    == ret = "BUSY" /\ RetriesLeft
           fallBack == ret = "UNSUPPORTED" \/ (ret = "BUSY" /\ ~RetriesLeft)
       IN  /\ ok = (ret = "SUCCESS")
           /\ cmds' = IF ok THEN [cmds EXCEPT !["ds"] = Append(@, "REQUEST")] ELSE cmds
           /\ mRetries' = IF fallBack THEN 0 ELSE IF retry THEN mRetries + 1 ELSE mRetries
           /\ retryTimers' = IF retry THEN retryTimers + 1 ELSE retryTimers
           /\ queue' = IF fallBack THEN Append(q, RequestMsg(first, "SUPL")) ELSE q

RequestDataConn(sm, s, out, q, ok) ==
  IF sm = "ds"
  THEN StartDataCall(s, out, q, ok)
  ELSE /\ ok = TRUE
       /\ cmds' = [cmds EXCEPT ![sm] = Append(@, "REQUEST")]
       /\ queue' = q
       /\ UNCHANGED retryVars

transitionOnlyFromPending(sm, s) ==   \* mutant: RELEASED only after a denial
  mState' = IF s = "RELEASED" /\ mState[sm] # "PENDING"
            THEN mState ELSE [mState EXCEPT ![sm] = s]

transitionState(sm, s) == mState' = [mState EXCEPT ![sm] = s]

-----------------------------------------------------------------------------
(* processAgpsEvent, one operator per event.  Each is the whole handler on *)
(* machine sm; q is the queue without the message being handled.           *)

processAgpsEventSubscribe(sm, h, w, q) ==
  \/ /\ mState[sm] = "RELEASED"
     /\ addSubscriber(sm, h, w)
     /\ \E ok \in BOOLEAN :
          /\ RequestDataConn(sm, mSubscriberList'[sm], inactive'[sm], q, ok)
          /\ IF ok THEN transitionState(sm, "PENDING") ELSE UNCHANGED mState
     /\ UNCHANGED <<link, atl>>
  \/ /\ mState[sm] \in {"PENDING", "RELEASING"}
     /\ addSubscriber(sm, h, w)
     /\ queue' = q
     /\ UNCHANGED <<mState, retryVars, cmds, link, atl>>
  \/ /\ mState[sm] = "ACQUIRED"
     /\ atl' = AtlOpenStatus({h}, TRUE)
     /\ addSubscriber(sm, h, w)
     /\ queue' = q
     /\ UNCHANGED <<mState, retryVars, cmds, link>>

leaveMarked(sm, h) ==   \* mutant: mWaitForCloseComplete is not looked at
  /\ inactive' = [inactive EXCEPT ![sm] = @ \cup {h}]
  /\ UNCHANGED <<mSubscriberList, waits, atl>>

(* A subscriber that waits for the close becomes inactive; any other is    *)
(* told at once and deleted.  The second read deleteSubscriber makes of    *)
(* the freed handle matches no other entry: handles in a list differ.      *)
leaveList(sm, h) ==
  IF h \in waits[sm]
  THEN /\ inactive' = [inactive EXCEPT ![sm] = @ \cup {h}]
       /\ UNCHANGED <<mSubscriberList, waits, atl>>
  ELSE /\ keepSubscribers(sm, Subscribers(sm) \ {h})
       /\ atl' = AtlCloseStatus({h})

processAgpsEventUnsubscribe(sm, h, q) ==
  /\ queue' = q
  /\ UNCHANGED <<retryVars, link>>
  /\ \/ /\ mState[sm] = "RELEASED"
        /\ atl' = AtlCloseStatus({h})
        /\ UNCHANGED <<mState, subVars, cmds>>
     \/ /\ mState[sm] \in {"PENDING", "ACQUIRED"}
        /\ leaveList(sm, h)
        /\ IF mSubscriberList'[sm] = <<>>
           THEN transitionState(sm, "RELEASED") /\ ReleaseDataConn(sm)
           ELSE IF Range(mSubscriberList'[sm]) \subseteq inactive'[sm]
                THEN transitionState(sm, "RELEASING") /\ ReleaseDataConn(sm)
                ELSE UNCHANGED <<mState, cmds>>
     \/ /\ mState[sm] = "RELEASING"
        /\ leaveList(sm, h)
        /\ IF mSubscriberList'[sm] = <<>>
           THEN transitionState(sm, "RELEASED")
           ELSE UNCHANGED mState
        /\ UNCHANGED cmds

processAgpsEventGranted(sm, q) ==
  /\ queue' = q
  /\ UNCHANGED <<subVars, retryVars, cmds, link>>
  /\ IF mState[sm] = "PENDING"
     THEN /\ transitionState(sm, "ACQUIRED")
          /\ atl' = AtlOpenStatus(Active(sm), TRUE)
     ELSE UNCHANGED <<mState, atl>>   \* "Unexpected event GRANTED"

(* The data connection is gone while RELEASING: the inactive subscribers   *)
(* are told and deleted, and the others get a new connection.  The result  *)
(* of that request is not looked at.                                       *)
connectionClosed(sm, q) ==
  LET rest == Active(sm) IN
  /\ atl' = AtlCloseStatus(Subscribers(sm) \ rest)
  /\ keepSubscribers(sm, rest)
  /\ IF rest # {}
     THEN /\ transitionState(sm, "PENDING")
          /\ \E ok \in BOOLEAN :
               RequestDataConn(sm, mSubscriberList'[sm], inactive'[sm], q, ok)
     ELSE /\ transitionState(sm, "RELEASED")
          /\ queue' = q
          /\ UNCHANGED <<retryVars, cmds>>

processAgpsEventReleased(sm, q) ==
  /\ UNCHANGED link
  /\ \/ /\ mState[sm] = "ACQUIRED"    \* "Force RELEASED event"
        /\ transitionState(sm, "RELEASED")
        /\ atl' = AtlCloseStatus(Subscribers(sm))
        /\ keepSubscribers(sm, {})
        /\ queue' = q
        /\ UNCHANGED <<retryVars, cmds>>
     \/ mState[sm] = "RELEASING" /\ connectionClosed(sm, q)
     \/ /\ mState[sm] \in {"RELEASED", "PENDING"}
        /\ queue' = q
        /\ UNCHANGED <<mState, subVars, retryVars, cmds, atl>>

(* A plain machine tells every subscriber that the open failed; the DS     *)
(* machine posts a SUPL request for each of them instead.                  *)
processAgpsEventDenied(sm, q) ==
  /\ UNCHANGED link
  /\ \/ /\ mState[sm] = "PENDING"
        /\ transitionState(sm, "RELEASED")
        /\ keepSubscribers(sm, {})
        /\ IF sm = "ds"
           THEN /\ queue' = q \o FallBack(mSubscriberList[sm])
                /\ mRetries' = 0
                /\ UNCHANGED atl
           ELSE /\ atl' = AtlOpenStatus(Subscribers(sm), FALSE)
                /\ queue' = q
                /\ UNCHANGED mRetries
        /\ UNCHANGED <<retryTimers, cmds>>
     \/ mState[sm] = "RELEASING" /\ connectionClosed(sm, q)
     \/ /\ mState[sm] \in {"RELEASED", "ACQUIRED"}
        /\ queue' = q
        /\ UNCHANGED <<mState, subVars, retryVars, cmds, atl>>

-----------------------------------------------------------------------------
(* The manager: one action per message of the adapter's queue.             *)

(* getAgpsStateMachine, without the lazy creation.                         *)
MachineFor(t) ==
  CASE t = "SUPL_ES" -> IF UseEmergencyPdn THEN "ds" ELSE "agnss"
    [] t = "SUPL"    -> "agnss"
    [] OTHER         -> "internet"

(* createAgpsStateMachines on an AGPS-capable build: the DS machine exists *)
(* only once initDataServiceClient has succeeded.                          *)
createAgpsStateMachines ==
  {nifs \cup PlainMachines} \cup
     IF UseEmergencyPdn THEN {nifs \cup Machines} ELSE {}

Received(m) == queue # <<>> /\ Head(queue).msg = m

(* initAgps: the first framework callback creates the machines and turns   *)
(* on LOCATION_SERVER_REQUEST events.                                      *)
initAgps ==
  /\ nifs = {}
  /\ nifs' \in createAgpsStateMachines
  /\ UNCHANGED <<mState, subVars, retryVars, queue, cmds, link, atl>>

requestATL ==
  /\ Received("requestATL")
  /\ LET h  == Head(queue).handle
         t  == Head(queue).agps
         sm == MachineFor(t)
     IN  /\ nifs' \in IF sm = "ds" /\ "ds" \notin nifs
                      THEN createAgpsStateMachines ELSE {nifs}
         /\ IF sm \in nifs'
            THEN processAgpsEventSubscribe(sm, h, t = "SUPL_ES", Tail(queue))
            ELSE /\ atl' = AtlOpenStatus({h}, FALSE)
                 /\ queue' = Tail(queue)
                 /\ UNCHANGED <<mState, subVars, retryVars, cmds, link>>

(* The machine whose list holds h, in the order releaseATL looks.          *)
MachineOf(h) ==
  CASE h \in Subscribers("agnss")    -> "agnss"
    [] h \in Subscribers("internet") -> "internet"
    [] h \in Subscribers("ds")       -> "ds"
    [] OTHER                         -> "none"

releaseATL ==
  /\ Received("releaseATL")
  /\ LET h == Head(queue).handle IN
     IF MachineOf(h) = "none"
     THEN /\ atl' = AtlCloseStatus({h})
          /\ queue' = Tail(queue)
          /\ UNCHANGED <<mState, subVars, retryVars, cmds, link>>
     ELSE processAgpsEventUnsubscribe(MachineOf(h), h, Tail(queue))
  /\ UNCHANGED nifs

(* reportAtlOpenSuccess and reportDataCallOpened.                          *)
reportOpened ==
  /\ Received("opened")
  /\ processAgpsEventGranted(Head(queue).sm, Tail(queue))
  /\ UNCHANGED nifs

(* reportAtlOpenFailed.                                                    *)
reportFailed ==
  /\ Received("failed")
  /\ processAgpsEventDenied(Head(queue).sm, Tail(queue))
  /\ UNCHANGED nifs

(* reportAtlClosed and reportDataCallClosed.  The DS client reports a call *)
(* that failed as closed: DSStateMachine::processAgpsEvent translates.     *)
reportClosed ==
  /\ Received("closed")
  /\ LET sm == Head(queue).sm IN
     IF sm = "ds" /\ mState[sm] = "PENDING"
     THEN processAgpsEventDenied(sm, Tail(queue))
     ELSE processAgpsEventReleased(sm, Tail(queue))
  /\ UNCHANGED nifs

(* The retry timer: DSStateMachine::retryCallback on the timer thread.     *)
retryCallback ==
  /\ retryTimers > 0
  /\ retryTimers' = retryTimers - 1
  /\ LET first == FirstActive(mSubscriberList["ds"], inactive["ds"]) IN
     IF first = {}
     THEN UNCHANGED queue
     ELSE \E h \in first : queue' = Append(queue, RequestMsg(h, "SUPL_ES"))
  /\ UNCHANGED <<nifs, mState, subVars, mRetries, cmds, link, atl>>

-----------------------------------------------------------------------------
(* The modem, through GnssAdapter::requestATL, requestSuplES, releaseATL.  *)

modemOpen(h, t) ==
  /\ nifs # {}
  /\ atl[h] = "idle"
  /\ atl' = [atl EXCEPT ![h] = "opening"]
  /\ queue' = Append(queue, RequestMsg(h, t))
  /\ UNCHANGED <<nifs, mState, subVars, retryVars, cmds, link>>

modemClose(h) ==
  /\ atl[h] \in {"opening", "open"}
  /\ atl' = [atl EXCEPT ![h] = "closing"]
  /\ queue' = Append(queue, ReleaseMsg(h))
  /\ UNCHANGED <<nifs, mState, subVars, retryVars, cmds, link>>

(* The framework (AGnss::statusIpV4Cb, then the Java side or               *)
(* libloc_net_iface) and the DS client take the commands in order.  A      *)
(* command for a type the callback does not know is dropped.               *)
Served(sm) == \/ sm = "ds"
              \/ sm = "agnss" /\ "SUPL" \in ServedTypes
              \/ sm = "internet" /\ "WWAN_ANY" \in ServedTypes

Post(m, sm) == queue' = Append(queue, ReportMsg(m, sm))

linkCommand(sm) ==
  /\ cmds[sm] # <<>>
  /\ cmds' = [cmds EXCEPT ![sm] = Tail(@)]
  /\ \/ /\ Head(cmds[sm]) = "REQUEST" /\ Served(sm)
        /\ link' = [link EXCEPT ![sm] = "opening"]
        /\ UNCHANGED queue
     \/ /\ Head(cmds[sm]) = "RELEASE" /\ Served(sm) /\ link[sm] # "down"
        /\ link' = [link EXCEPT ![sm] = "down"]
        /\ \/ Post("closed", sm)
           \/ sm # "ds" /\ link[sm] = "opening" /\ Post("failed", sm)
     \/ /\ ~Served(sm) \/ (Head(cmds[sm]) = "RELEASE" /\ link[sm] = "down")
        /\ UNCHANGED <<link, queue>>
  /\ UNCHANGED <<nifs, mState, subVars, retryVars, atl>>

(* dataConnOpenCommand / dataConnFailedCommand, or the DS client's         *)
(* reportDataCallOpened / reportDataCallClosed.                            *)
linkAnswer(sm) ==
  /\ link[sm] = "opening"
  /\ \/ link' = [link EXCEPT ![sm] = "up"] /\ Post("opened", sm)
     \/ /\ link' = [link EXCEPT ![sm] = "down"]
        /\ Post(IF sm = "ds" THEN "closed" ELSE "failed", sm)
  /\ UNCHANGED <<nifs, mState, subVars, retryVars, cmds, atl>>

(* The network goes away under an open connection.                         *)
linkLost(sm) ==
  /\ link[sm] = "up"
  /\ link' = [link EXCEPT ![sm] = "down"]
  /\ Post("closed", sm)
  /\ UNCHANGED <<nifs, mState, subVars, retryVars, cmds, atl>>

-----------------------------------------------------------------------------
Init ==
  /\ nifs = {}
  /\ mState = [sm \in Machines |-> "RELEASED"]
  /\ mSubscriberList = [sm \in Machines |-> <<>>]
  /\ waits = [sm \in Machines |-> {}]
  /\ inactive = [sm \in Machines |-> {}]
  /\ mRetries = 0
  /\ retryTimers = 0
  /\ queue = <<>>
  /\ cmds = [sm \in Machines |-> <<>>]
  /\ link = [sm \in Machines |-> "down"]
  /\ atl = [h \in Handles |-> "idle"]

AdapterThread == requestATL \/ releaseATL \/ reportOpened \/ reportFailed \/ reportClosed

Next ==
  \/ initAgps
  \/ requestATL
  \/ releaseATL
  \/ reportOpened
  \/ reportFailed
  \/ reportClosed
  \/ retryCallback
  \/ \E h \in Handles : modemClose(h) \/ \E t \in ModemTypes : modemOpen(h, t)
  \/ \E sm \in Machines : linkCommand(sm) \/ linkAnswer(sm) \/ linkLost(sm)

(* The message thread and the timer thread run; every command reaches the  *)
(* framework and every connection attempt comes to an end.  Nothing makes  *)
(* the modem open or close a session, or the network drop.                 *)
Fairness ==
  /\ WF_vars(AdapterThread)
  /\ WF_vars(retryCallback)
  /\ \A sm \in Machines : WF_vars(linkCommand(sm)) /\ WF_vars(linkAnswer(sm))

Spec     == Init /\ [][Next]_vars
FairSpec == Spec /\ Fairness

-----------------------------------------------------------------------------
(* Every variable has its type; in particular mRetries never goes beyond   *)
(* MAX_START_DATA_CALL_RETRIES, whatever the DS client answers.            *)
TypeOK ==
  /\ nifs \subseteq Machines
  /\ mState \in [Machines -> AgpsState]
  /\ mSubscriberList \in [Machines -> Seq(Handles)]
  /\ waits \in [Machines -> SUBSET Handles]
  /\ inactive \in [Machines -> SUBSET Handles]
  /\ mRetries \in 0..MaxRetries
  /\ retryTimers \in Nat
  /\ queue \in Seq(Msg)
  /\ cmds \in [Machines -> Seq({"REQUEST", "RELEASE"})]
  /\ link \in [Machines -> LinkState]
  /\ atl \in [Handles -> AtlState]

(* A machine that asked for a data connection, or holds one, does it for   *)
(* an active subscriber (processAgpsEventUnsubscribe releases it with the  *)
(* last one, and a denial or a forced release empties the list).           *)
HeldForSomeone ==
  \A sm \in Machines :
    mState[sm] \in {"PENDING", "ACQUIRED"} => Active(sm) # {}

(* RELEASING is entered, and kept, only while some subscriber still waits  *)
(* for the close; so a close that is reported always reaches somebody.     *)
ReleasingForSomeone ==
  \A sm \in Machines :
    mState[sm] = "RELEASING" => Subscribers(sm) \cap inactive[sm] # {}

(* "Subscriber list should be empty if we are in released state"           *)
(* (processAgpsEventReleased), for the two plain machines.                 *)
PlainReleasedEmpty ==
  \A sm \in PlainMachines : mState[sm] = "RELEASED" => Subscribers(sm) = {}

(* Only a subscriber that asked to wait for the close is ever inactive,    *)
(* and only once the modem has asked for its release or was refused the    *)
(* session; a queued release is for such a session too.                    *)
InactiveIsLeaving ==
  /\ \A sm \in Machines : inactive[sm] \subseteq waits[sm]
  /\ \A sm \in Machines : \A h \in inactive[sm] :
       atl[h] \in {"closing", "closed", "failed"}
  /\ \A i \in DOMAIN queue :
       queue[i].msg = "releaseATL" => atl[queue[i].handle] \in {"closing", "closed", "failed"}

(* A session the modem believes open is an active subscriber of a machine  *)
(* that holds the connection: nothing closes it behind the modem's back.   *)
OpenIsBacked ==
  \A h \in Handles : atl[h] = "open" =>
    \E sm \in Machines : mState[sm] = "ACQUIRED" /\ h \in Active(sm)

(* The inductive invariant of the machines, for every configuration.       *)
AgpsInv ==
  /\ TypeOK
  /\ HeldForSomeone
  /\ ReleasingForSomeone
  /\ PlainReleasedEmpty
  /\ InactiveIsLeaving
  /\ OpenIsBacked

(* A release the modem asked for is still in the queue, or its subscriber  *)
(* is in a list and gets the close when the connection closes.             *)
CloseIsTracked ==
  \A h \in Handles : atl[h] = "closing" =>
    \/ \E i \in DOMAIN queue : queue[i] = ReleaseMsg(h)
    \/ \E sm \in Machines : h \in Subscribers(sm)

(* A request the modem waits for is in the queue, or is an active          *)
(* subscriber of a machine from which an answer or a new connection        *)
(* attempt is still due; so no interleaving of events loses one (where the *)
(* DS client is not used).                                                 *)
OpeningIsTracked ==
  \A h \in Handles : atl[h] = "opening" =>
    \/ \E i \in DOMAIN queue : queue[i].msg = "requestATL" /\ queue[i].handle = h
    \/ \E sm \in Machines : mState[sm] \in {"PENDING", "RELEASING"} /\ h \in Active(sm)

(* "Once a subscriber is notified for ATL open/close status, it is         *)
(* deleted" (Agps.h): no list keeps a session whose close was confirmed.   *)
ClosedIsDeleted ==
  \A h \in Handles, sm \in Machines : atl[h] \in {"closed", "failed"} => h \notin Subscribers(sm)

(* Every ATL request is answered, with success or with failure.            *)
RequestAnswered == \A h \in Handles : atl[h] = "opening" ~> atl[h] # "opening"

(* Every ATL release is answered, with atlCloseStatus or (a session that   *)
(* waits for the close of a connection that fails) as an open failure,     *)
(* unless the session is one that waits for the close of the connection.   *)
ReleaseAnswered ==
  \A h \in Handles : atl[h] = "closing" ~>
    atl[h] \in {"closed", "failed"} \/ \E sm \in Machines : h \in inactive[sm]

\* No machine asks for, holds or gives back a connection for nobody.
ForSomeone == HeldForSomeone /\ ReleasingForSomeone

\* Whoever waits for a connection, or for its end, is still known to its machine.
AnswersTracked == OpeningIsTracked /\ CloseIsTracked /\ ClosedIsDeleted

\* Requests and releases of the modem are answered.
SessionsAnswered == RequestAnswered /\ ReleaseAnswered
=============================================================================
