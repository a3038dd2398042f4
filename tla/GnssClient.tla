----------------------------- MODULE GnssClient -----------------------------
(***************************************************************************)
(* From the HIDL service down to the messages of GnssAdapter: Gnss         *)
(* (gps/android/Gnss.cpp), GnssAPIClient, LocationAPIClientBase with its   *)
(* control client, and LocationAPI, which posts to the adapter.            *)
(*                                                                         *)
(* The Binder thread (the service has one) runs the calls of the           *)
(* framework, todo holds what is left of one.  The adapter's thread        *)
(* handles the messages in order and calls back; an answer looks for its   *)
(* request under mMutex and is acted on afterwards.  What a call does      *)
(* under mMutex or gDataMutex is one step.                                 *)
(*                                                                         *)
(* libgnss.so loads, libflp.so and libgeofence.so are no part of the tree  *)
(* and do not.  The adapter is GnssTracking and GnssNi reduced to what the *)
(* client sees: a call of the modem may fail, and the NI ids count from 1. *)
(*                                                                         *)
(* The names that MsgTask has too begin with Client: MsgTaskProofs extends *)
(* both.                                                                   *)
(***************************************************************************)
EXTENDS Naturals, Sequences

CONSTANTS
    Fields,      \* items of GnssConfig
    Server,      \* the item among them that is the SUPL server
    MaxIds,      \* bound: values of generateSessionId
    MaxNi,       \* bound: NI requests of the network
    MaxFaces,    \* bound: callback objects of the framework
    MaxValue,    \* bound: values of a configuration item, from 1
    MaxCalls     \* bound: calls of the framework, setCallback aside

ASSUME BoundsAssumption ==
    /\ MaxIds \in Nat /\ MaxNi \in Nat /\ MaxFaces \in Nat
    /\ MaxValue \in Nat /\ MaxCalls \in Nat

ASSUME ServerAssumption == Server \in Fields

None == 0
Faces == 0 .. MaxFaces                    \* IGnssCallback objects
NoHost == MaxValue + 1                    \* a server without a host name
Configs == [Fields -> 0 .. NoHost]        \* 0: the flag of the item is not set
NoConfig == [f \in Fields |-> 0]
Queues == {"tracking", "ni", "aiding", "control", "config"}

VARIABLES
    extended,   \* hasAgpsExtendedCapabilities: NI is handled elsewhere
    iface,      \* Gnss::mGnssCbIface
    niIface,    \* Gnss::mGnssNiCbIface is set
    pendingConfig,
    api,        \* mApi exists
    todo,       \* what the Binder thread still has to do
    calls,      \* calls of the framework
    cbIface,    \* GnssAPIClient::mGnssCbIface
    cached,     \* mLocationCapabilitiesCached
    mTracking, mEnabled, mConfig,
    rq,         \* mRequestQueues of the client and its control client
    nextId,     \* mSessionIdCounter
    started,    \* the sessions among them that were tracking sessions
    queue,      \* the MsgTask of the adapter
    clientData, \* mClientData: the callbacks of the client
    sessions,   \* mTrackingSessions
    refused,    \* sessions the modem did not stop when asked to
    power,      \* mPowerVoteId
    inForce,    \* the configuration the adapter applied
    niCount,    \* reqIDCounter
    at,         \* where the adapter's thread is
    answer,     \* the answer it reports
    request,    \* the request it found for that
    told,       \* callback objects told the capabilities
    status,     \* the framework was told ENGINE_ON and SESSION_BEGIN last
    wanted,     \* the configuration the framework set
    early       \* its server was set before there was a client

wishVars == <<wanted, early>>
hidlVars == <<iface, niIface, pendingConfig, api, calls, wishVars>>
faceVars == <<cbIface, cached>>
baseVars == <<mTracking, mEnabled, mConfig, rq, nextId, started>>
adapterVars == <<clientData, sessions, refused, power, inForce, niCount>>
threadVars == <<at, answer, request>>
seenVars == <<told, status>>
clientVars == <<extended, hidlVars, todo, faceVars, baseVars, queue, adapterVars, threadVars, seenVars>>

Nothing == [kind |-> "none", id |-> None, ok |-> FALSE]
Request(kind, id) == [kind |-> kind, id |-> id]
Msg(op, id, arg) == [op |-> op, id |-> id, arg |-> arg]

----------------------------------------------------------------------------
(* RequestQueue *)

\* Mutant of reset. the requests of the session before stay in the queue.
resetMutant(q, session) == [q EXCEPT !.session = session]

reset(q, session) == [q EXCEPT !.session = session, !.waiting = <<>>]
push(q, kind, id) == [q EXCEPT !.waiting = Append(@, Request(kind, id))]
pop(q) == [q EXCEPT !.waiting = IF @ = <<>> THEN @ ELSE Tail(@)]

\* The queue for the answer: that of the session, the first one if it is in two.
queueOf(a) ==
    LET InOrder == CASE a.kind \in {"start", "update", "stop", "ni"} -> <<"tracking", "ni">>
                     [] a.kind \in {"aiding", "enable", "disable"}   -> <<"aiding", "control">>
                     [] OTHER                                        -> <<"config">>
        Fits == {i \in DOMAIN InOrder : InOrder[i] = "config" \/ rq[InOrder[i]].session = a.id}
    IN  IF Fits = {} THEN "none" ELSE InOrder[CHOOSE i \in Fits : \A j \in Fits : i <= j]

----------------------------------------------------------------------------
(* The Binder thread: Gnss, its client, LocationAPI *)

Idle == todo = <<>>
Doing(step) == todo # <<>> /\ Head(todo) = step
Called == Idle /\ calls < MaxCalls /\ calls' = calls + 1

\* Gnss::start, stop, cleanup, ...: nothing without a client.
ApiCalled == Called /\ api
Done == todo' = Tail(todo) /\ UNCHANGED calls

\* generateSessionId.  Those of configuration items are left out, nothing compares them.
Fresh == nextId < MaxIds /\ nextId' = nextId + 1

\* The callbacks gnssUpdateCallbacks registers.
Callbacks ==
    (IF iface # None THEN {"tracking"} ELSE {})
        \cup (IF niIface /\ ~extended THEN {"ni"} ELSE {})
isGnssClient(callbacks) == callbacks # {}

\* LocationAPI::createInstance, updateCallbacks and LocationControlAPI::createInstance:
\* what the adapter is sent.
clientMsgs == IF isGnssClient(Callbacks) THEN <<Msg("client", None, Callbacks)>> ELSE <<>>
createInstance ==
    clientMsgs \o (IF isGnssClient(Callbacks) THEN <<Msg("capabilities", None, NoConfig)>> ELSE <<>>)
createControl == <<Msg("control", None, NoConfig)>>

\* Mutant of setCallback. asks for the capabilities before the callback object is stored.
setCallbackMutant ==
    /\ Idle /\ iface < MaxFaces
    /\ iface' = iface + 1
    /\ todo' = <<"getApi", "capabilities", "update", "enable">>
    /\ UNCHANGED <<extended, niIface, pendingConfig, api, calls, wishVars, faceVars, baseVars,
                   queue, adapterVars, threadVars, seenVars>>

setCallback ==
    /\ Idle /\ iface < MaxFaces
    /\ iface' = iface + 1
    /\ todo' = <<"getApi", "update", "enable", "capabilities">>
    /\ UNCHANGED <<extended, niIface, pendingConfig, api, calls, wishVars, faceVars, baseVars,
                   queue, adapterVars, threadVars, seenVars>>

setGnssNiCb ==
    /\ Idle /\ ~niIface
    /\ niIface' = TRUE
    /\ todo' = <<"getApi", "update">>
    /\ UNCHANGED <<extended, iface, pendingConfig, api, calls, wishVars, faceVars, baseVars,
                   queue, adapterVars, threadVars, seenVars>>

\* locAPIGnssUpdateConfig: nothing to do for the configuration sent last.  The
\* bytes are compared, and a host name is in a block of its own each time.
identical(config) == config = mConfig /\ config[Server] = 0
configMsgs(config) ==
    IF identical(config) THEN <<>> ELSE <<Msg("config", None, config)>>

\* GnssAPIClient is created, with its control client and its callbacks, and
\* given the configuration that waited for it.
getApi ==
    /\ Doing("getApi") /\ Done
    /\ IF api
       THEN UNCHANGED <<pendingConfig, api, cbIface, mConfig, rq, queue>>
       ELSE /\ api' = TRUE
            /\ cbIface' = iface
            /\ queue' = queue \o createControl \o createInstance \o configMsgs(pendingConfig)
            /\ mConfig' = pendingConfig
            /\ rq' = IF identical(pendingConfig) THEN rq
                     ELSE [rq EXCEPT !["config"] = push(@, "config", None)]
            /\ pendingConfig' = NoConfig
    /\ UNCHANGED <<extended, iface, niIface, wishVars, cached, mTracking, mEnabled, nextId, started,
                   adapterVars, threadVars, seenVars>>

\* gnssUpdateCallbacks, locAPISetCallbacks, updateCallbacks.
updateCallbacks ==
    /\ Doing("update") /\ Done
    /\ cbIface' = iface
    /\ queue' = queue \o clientMsgs
    /\ UNCHANGED <<extended, iface, niIface, pendingConfig, api, wishVars, cached, baseVars,
                   adapterVars, threadVars, seenVars>>

locAPIEnable ==
    /\ Doing("enable") /\ Done
    /\ IF mEnabled
       THEN UNCHANGED <<mEnabled, rq, nextId, queue>>
       ELSE /\ Fresh
            /\ mEnabled' = TRUE
            /\ rq' = [rq EXCEPT !["control"] = push(reset(@, nextId'), "enable", nextId')]
            /\ queue' = Append(queue, Msg("enable", nextId', NoConfig))
    /\ UNCHANGED <<extended, iface, niIface, pendingConfig, api, wishVars, faceVars, mTracking, mConfig,
                   started, adapterVars, threadVars, seenVars>>

\* onCapabilitiesCb on this thread, if the adapter has answered before.
requestCapabilities ==
    /\ Doing("capabilities") /\ Done
    /\ told' = IF cached THEN told \cup {cbIface} ELSE told
    /\ UNCHANGED <<extended, iface, niIface, pendingConfig, api, wishVars, faceVars, baseVars,
                   queue, adapterVars, threadVars, status>>

serviceDied ==
    /\ ApiCalled
    /\ todo' = <<"stop", "disable">>
    /\ UNCHANGED <<extended, iface, niIface, pendingConfig, api, wishVars, faceVars, baseVars,
                   queue, adapterVars, threadVars, seenVars>>

\* Mutant of locAPIStartTracking. starts again while a session runs.
locAPIStartTrackingMutant ==
    /\ ApiCalled /\ Fresh
    /\ mTracking' = TRUE
    /\ started' = started \cup {nextId'}
    /\ rq' = [rq EXCEPT !["tracking"] = push(reset(@, nextId'), "start", nextId')]
    /\ queue' = Append(queue, Msg("start", nextId', NoConfig))
    /\ UNCHANGED <<extended, iface, niIface, pendingConfig, api, wishVars, todo, faceVars, mEnabled,
                   mConfig, adapterVars, threadVars, seenVars>>

\* Gnss::start: no second session while the client believes in one.
locAPIStartTracking ==
    /\ ApiCalled /\ ~mTracking /\ Fresh
    /\ mTracking' = TRUE
    /\ started' = started \cup {nextId'}
    /\ rq' = [rq EXCEPT !["tracking"] = push(reset(@, nextId'), "start", nextId')]
    /\ queue' = Append(queue, Msg("start", nextId', NoConfig))
    /\ UNCHANGED <<extended, iface, niIface, pendingConfig, api, wishVars, todo, faceVars, mEnabled,
                   mConfig, adapterVars, threadVars, seenVars>>

\* Gnss::stop, called by the framework or for its death.
locAPIStopTracking ==
    /\ (ApiCalled /\ UNCHANGED todo) \/ (Doing("stop") /\ Done)
    /\ LET session == rq["tracking"].session
       IN  IF session = None
           THEN UNCHANGED <<mTracking, rq, queue>>
           ELSE /\ mTracking' = FALSE
                /\ rq' = [rq EXCEPT !["tracking"] = push(@, "stop", session)]
                /\ queue' = Append(queue, Msg("stop", session, NoConfig))
    /\ UNCHANGED <<extended, iface, niIface, pendingConfig, api, wishVars, faceVars, mEnabled, mConfig,
                   nextId, started, adapterVars, threadVars, seenVars>>

\* Gnss::setPositionMode
locAPIUpdateTrackingOptions ==
    /\ ApiCalled
    /\ LET session == rq["tracking"].session
       IN  /\ session # None
           /\ rq' = [rq EXCEPT !["tracking"] = push(@, "update", session)]
           /\ queue' = Append(queue, Msg("update", session, NoConfig))
    /\ UNCHANGED <<extended, iface, niIface, pendingConfig, api, wishVars, todo, faceVars, mTracking,
                   mEnabled, mConfig, nextId, started, adapterVars, threadVars, seenVars>>

\* Gnss::cleanup
locAPIDisable ==
    /\ (ApiCalled /\ UNCHANGED todo) \/ (Doing("disable") /\ Done)
    /\ LET session == rq["control"].session
       IN  IF ~mEnabled
           THEN UNCHANGED <<mEnabled, rq, queue>>
           ELSE /\ mEnabled' = FALSE
                /\ rq' = [rq EXCEPT !["control"] = push(@, "disable", session)]
                /\ queue' = Append(queue, Msg("disable", session, NoConfig))
    /\ UNCHANGED <<extended, iface, niIface, pendingConfig, api, wishVars, faceVars, mTracking, mConfig,
                   nextId, started, adapterVars, threadVars, seenVars>>

locAPIGnssNiResponse ==
    \E id \in 1 .. niCount :
        /\ ApiCalled
        /\ rq' = [rq EXCEPT !["ni"] = push(reset(@, id), "ni", id)]
        /\ queue' = Append(queue, Msg("ni", id, NoConfig))
        /\ UNCHANGED <<extended, iface, niIface, pendingConfig, api, wishVars, todo, faceVars, mTracking,
                       mEnabled, mConfig, nextId, started, adapterVars, threadVars, seenVars>>

locAPIGnssDeleteAidingData ==
    /\ ApiCalled /\ Fresh
    /\ rq' = [rq EXCEPT !["aiding"] = push(reset(@, nextId'), "aiding", nextId')]
    /\ queue' = Append(queue, Msg("aiding", nextId', NoConfig))
    /\ UNCHANGED <<extended, iface, niIface, pendingConfig, api, wishVars, todo, faceVars, mTracking,
                   mEnabled, mConfig, started, adapterVars, threadVars, seenVars>>

\* What is stored of an item before there is a client: a host name is copied
\* only in the place of another.
collected(f, v) == IF f = Server /\ pendingConfig[f] \in {0, NoHost} THEN NoHost ELSE v

\* One item; before there is a client the items are collected.
updateConfiguration ==
    \E f \in Fields, v \in 1 .. MaxValue :
        LET config == [NoConfig EXCEPT ![f] = v]
        IN  /\ Called
            /\ wanted' = [wanted EXCEPT ![f] = v]
            /\ early' = IF f = Server THEN ~api ELSE early
            /\ IF api
               THEN /\ mConfig' = config
                    /\ queue' = queue \o configMsgs(config)
                    /\ rq' = IF identical(config) THEN rq
                             ELSE [rq EXCEPT !["config"] = push(@, "config", None)]
                    /\ UNCHANGED pendingConfig
               ELSE /\ pendingConfig' = [pendingConfig EXCEPT ![f] = collected(f, v)]
                    /\ UNCHANGED <<mConfig, queue, rq>>
            /\ UNCHANGED <<extended, iface, niIface, api, todo, faceVars, mTracking, mEnabled, nextId,
                           started, adapterVars, threadVars, seenVars>>

binderThread ==
    \/ setCallback \/ setGnssNiCb \/ getApi \/ updateCallbacks \/ locAPIEnable
    \/ requestCapabilities \/ serviceDied \/ locAPIStartTracking \/ locAPIStopTracking
    \/ locAPIUpdateTrackingOptions \/ locAPIDisable \/ locAPIGnssNiResponse
    \/ locAPIGnssDeleteAidingData \/ updateConfiguration

----------------------------------------------------------------------------
(* The thread of GnssAdapter *)

\* The next message is handled; report(kind, ok) is the answer to it.
Handle(op) == at = "idle" /\ queue # <<>> /\ Head(queue).op = op /\ queue' = Tail(queue)
message == Head(queue)
report(kind, ok) ==
    /\ at' = "answer" /\ answer' = [kind |-> kind, id |-> message.id, ok |-> ok]
    /\ UNCHANGED request
silent == UNCHANGED threadVars
clientSide == UNCHANGED <<extended, hidlVars, todo, faceVars, baseVars, seenVars>>

setControlCallbacks == Handle("control") /\ silent /\ clientSide /\ UNCHANGED adapterVars

saveClient ==
    /\ Handle("client") /\ silent /\ clientSide
    /\ clientData' = message.arg
    /\ UNCHANGED <<sessions, refused, power, inForce, niCount>>

sendCapabilities ==
    /\ Handle("capabilities") /\ clientSide
    /\ at' = "cache"
    /\ UNCHANGED <<answer, request, adapterVars>>

startTracking ==
    /\ Handle("start") /\ clientSide
    /\ \/ sessions' = sessions \cup {message.id} /\ "tracking" \in clientData /\ report("start", TRUE)
       \/ UNCHANGED sessions /\ report("start", FALSE)
    /\ UNCHANGED <<clientData, refused, power, inForce, niCount>>

\* No answer for a session the adapter does not have: it may be one of libflp.
updateTracking ==
    /\ Handle("update") /\ clientSide
    /\ IF message.id \in sessions THEN \E ok \in BOOLEAN : report("update", ok) ELSE silent
    /\ UNCHANGED adapterVars

stopTracking ==
    /\ Handle("stop") /\ clientSide
    /\ \/ message.id \notin sessions /\ silent /\ UNCHANGED <<sessions, refused>>
       \/ /\ message.id \in sessions /\ report("stop", TRUE)
          /\ sessions' = sessions \ {message.id} /\ refused' = refused \ {message.id}
       \/ /\ message.id \in sessions /\ report("stop", FALSE)
          /\ refused' = refused \cup {message.id} /\ UNCHANGED sessions
    /\ UNCHANGED <<clientData, power, inForce, niCount>>

niNotify ==
    /\ at = "idle" /\ "ni" \in clientData /\ niCount < MaxNi
    /\ niCount' = niCount + 1
    /\ clientSide /\ silent /\ UNCHANGED <<queue, clientData, sessions, refused, power, inForce>>

niResponse ==
    /\ Handle("ni") /\ clientSide
    /\ \E ok \in BOOLEAN : (ok => "ni" \in clientData) /\ report("ni", ok)
    /\ UNCHANGED adapterVars

deleteAidingData ==
    /\ Handle("aiding") /\ clientSide
    /\ \E ok \in BOOLEAN : report("aiding", ok)
    /\ UNCHANGED adapterVars

enableGnss ==
    /\ Handle("enable") /\ clientSide
    /\ power' = IF power = None THEN message.id ELSE power
    /\ report("enable", power = None)
    /\ UNCHANGED <<clientData, sessions, refused, inForce, niCount>>

disableGnss ==
    /\ Handle("disable") /\ clientSide
    /\ power' = IF power = message.id THEN None ELSE power
    /\ report("disable", power = message.id)
    /\ UNCHANGED <<clientData, sessions, refused, inForce, niCount>>

\* A changed SUPL mode changes the capabilities, which go to the client first.
gnssUpdateConfig ==
    /\ Handle("config") /\ clientSide
    /\ inForce' = [f \in Fields |-> IF message.arg[f] = 0 THEN inForce[f] ELSE message.arg[f]]
    /\ answer' = [kind |-> "config", id |-> None, ok |-> TRUE]
    /\ at' \in {"answer"} \cup (IF clientData = {} THEN {} ELSE {"cache"})
    /\ UNCHANGED <<request, clientData, sessions, refused, power, niCount>>

adapterSide == UNCHANGED <<extended, hidlVars, todo, mTracking, mEnabled, mConfig, nextId, started, queue, adapterVars>>

\* onCapabilitiesCb notes the capabilities ...
cacheCapabilities ==
    /\ at = "cache"
    /\ cached' = TRUE
    /\ at' = "tell"
    /\ adapterSide /\ UNCHANGED <<cbIface, rq, answer, request, seenVars>>

\* ... and tells the callback object of this moment.
tellCapabilities ==
    /\ at = "tell"
    /\ told' = told \cup {cbIface}
    /\ at' = IF answer = Nothing THEN "idle" ELSE "answer"
    /\ adapterSide /\ UNCHANGED <<faceVars, rq, answer, request, status>>

\* getRequestBySession, or the collective response, takes the request out.
getRequest ==
    /\ at = "answer"
    /\ LET n == queueOf(answer)
           found == n # "none" /\ rq[n].waiting # <<>>
       IN  IF found
           THEN /\ request' = Head(rq[n].waiting)
                /\ rq' = [rq EXCEPT ![n] = pop(@)]
                /\ at' = "respond" /\ UNCHANGED answer
           ELSE /\ at' = "idle" /\ answer' = Nothing
                /\ UNCHANGED <<request, rq>>
    /\ adapterSide /\ UNCHANGED <<faceVars, seenVars>>

\* onResponse, which tells the framework of a start or a stop that succeeded.
onResponse ==
    /\ at = "respond"
    /\ status' = CASE request.kind = "start" /\ answer.ok /\ cbIface # None -> TRUE
                  [] request.kind = "stop" /\ answer.ok /\ cbIface # None  -> FALSE
                  [] OTHER -> status
    /\ at' = "idle" /\ answer' = Nothing /\ request' = Request("none", None)
    /\ adapterSide /\ UNCHANGED <<faceVars, rq, told>>

adapterThread ==
    \/ setControlCallbacks \/ saveClient \/ sendCapabilities \/ startTracking
    \/ updateTracking \/ stopTracking \/ niResponse \/ deleteAidingData
    \/ enableGnss \/ disableGnss \/ gnssUpdateConfig
    \/ cacheCapabilities \/ tellCapabilities \/ getRequest \/ onResponse

----------------------------------------------------------------------------

ClientInit ==
    /\ extended \in BOOLEAN
    /\ iface = None /\ niIface = FALSE /\ pendingConfig = NoConfig /\ api = FALSE
    /\ todo = <<>> /\ calls = 0
    /\ cbIface = None /\ cached = FALSE
    /\ mTracking = FALSE /\ mEnabled = FALSE /\ mConfig = NoConfig
    /\ rq = [n \in Queues |-> [session |-> None, waiting |-> <<>>]]
    /\ nextId = 0 /\ started = {}
    /\ queue = <<>>
    /\ clientData = {} /\ sessions = {} /\ refused = {} /\ power = None
    /\ inForce = NoConfig /\ niCount = 0
    /\ at = "idle" /\ answer = Nothing /\ request = Request("none", None)
    /\ told = {} /\ status = FALSE
    /\ wanted = NoConfig /\ early = FALSE

ClientNext == binderThread \/ adapterThread \/ niNotify

ClientSpec == ClientInit /\ [][ClientNext]_clientVars

----------------------------------------------------------------------------
(* Properties *)

Kinds == {"start", "update", "stop", "ni", "aiding", "enable", "disable", "config"}

ClientTypeOK ==
    /\ extended \in BOOLEAN /\ iface \in Faces /\ niIface \in BOOLEAN /\ api \in BOOLEAN
    /\ {pendingConfig, mConfig, inForce, wanted} \subseteq Configs
    /\ cbIface \in Faces /\ cached \in BOOLEAN /\ mTracking \in BOOLEAN /\ mEnabled \in BOOLEAN
    /\ \A n \in Queues : /\ rq[n].session \in 0 .. MaxIds + MaxNi
                         /\ \A i \in DOMAIN rq[n].waiting : rq[n].waiting[i].kind \in Kinds
    /\ clientData \subseteq {"tracking", "ni"} /\ sessions \subseteq 1 .. nextId
    /\ refused \subseteq sessions /\ power \in 0 .. nextId
    /\ at \in {"idle", "answer", "respond", "cache", "tell"}
    /\ told \subseteq Faces /\ status \in BOOLEAN /\ early \in BOOLEAN

\* An NI request may have the number of a tracking session, the two are drawn
\* from different counters: then their answers cannot be told apart.
Confused(id) == id \in started /\ id \in 1 .. niCount

\* An answer is acted on by the request it answers, in whatever order starts,
\* stops and updates overtake their answers.
AnswerFits ==
    at = "respond" /\ ~Confused(answer.id) => request = Request(answer.kind, answer.id)

Quiet == todo = <<>> /\ queue = <<>> /\ at = "idle"

\* When all is handled, no session runs that the client does not know of,
\* unless the modem refused to stop it.
NoSessionLeft == Quiet => sessions \ refused \subseteq (IF mTracking THEN {rq["tracking"].session} ELSE {})

\* A session that runs was reported to the framework.
RunningIsTold ==
    Quiet /\ mTracking /\ rq["tracking"].session \in sessions
        /\ ~Confused(rq["tracking"].session) => status

\* The power vote of the adapter is what the control client believes.
VoteFollowsEnable == Quiet => power = (IF mEnabled THEN rq["control"].session ELSE None)

\* Once the capabilities are known, every callback object set was told them,
\* whichever of the adapter's answer and setCallback came first.
CapabilitiesTold == Quiet /\ cached /\ iface # None => iface \in told

\* What can reach the adapter of the configuration the framework set: a server
\* set before there was a client comes without its host, until it is set again.
due == [f \in Fields |-> IF f = Server /\ early THEN NoHost ELSE wanted[f]]

\* The configuration in force is the one the framework set last, also if it was
\* set before there was a client, but for the host of a server set that early.
ConfigApplied == Quiet /\ api => inForce = due

\* Answers are taken for the requests they are for.
AnswersFit == ClientTypeOK /\ AnswerFits

\* Framework, client and adapter agree on the session that runs.
SessionsAgree == NoSessionLeft /\ RunningIsTold

\* So do they on power, capabilities and configuration.
ControlAgrees == VoteFollowsEnable /\ CapabilitiesTold /\ ConfigApplied
=============================================================================
