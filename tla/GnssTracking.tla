---------------------------- MODULE GnssTracking ----------------------------
(***************************************************************************)
(* The sessions of GnssAdapter (gps/gnss/GnssAdapter.cpp): the tracking    *)
(* sessions of all clients, which share the one fix the modem can run, and *)
(* the on-demand position requests (ODCPI) of the modem to the framework.  *)
(* Clients call through LocationAPI, the modem and the timer report; all   *)
(* of them only post messages, which the MsgTask thread handles in order.  *)
(* The modem may restart: its fix is lost and the adapter starts it anew.  *)
(*                                                                         *)
(* The proxy is UlpProxyBase, whose methods return false, as no ULP        *)
(* library is part of this tree.  Of LocationOptions only minInterval      *)
(* matters; intervals are numbered from 1.  A call of LocApi may fail.     *)
(***************************************************************************)
EXTENDS Naturals, Sequences

CONSTANTS
  Clients,       \* LocationAPI objects
  Trackers,      \* those with a trackingCb or gnssMeasurementsCb
  Intervals,     \* values of minInterval
  MaxSessions,   \* bound: startTracking calls
  MaxCalls,      \* bound: updateTrackingOptions and stopTracking calls
  MaxRestarts,   \* bound: restarts of the modem
  MaxOdcpi,      \* bound: ODCPI reports of the modem
  MaxQueue,      \* bound: messages that wait to be handled
  NoClient

ASSUME ClientsAssumption == Trackers \subseteq Clients /\ NoClient \notin Clients
ASSUME IntervalsAssumption == Intervals \subseteq Nat \ {0}
ASSUME BoundsAssumption ==
  /\ MaxSessions \in Nat /\ MaxCalls \in Nat /\ MaxRestarts \in Nat
  /\ MaxOdcpi \in Nat /\ MaxQueue \in Nat

Ids     == 1 .. MaxSessions       \* values of generateSessionId
Options == Intervals \cup {0}     \* 0 stands for options whose size is 0

VARIABLES
  queue,               \* the MsgTask of the adapter
  mClientData,         \* the registered clients
  mTrackingSessions,   \* per id: its minInterval, 0 if there is no such session
  removing,            \* the client whose sessions removeClient is stopping
  cursor,              \* stopClientSessions: the last id it has looked at
  caller,              \* per client: "new", "open" or "closed"
  owner,               \* per id: the client that got it
  calls,               \* calls of the clients so far
  view,                \* per id: what responseCb told the client
  up,                  \* the modem runs
  fix,                 \* the interval of the fix the modem runs, 0 if none
  restarts,            \* restarts of the modem so far
  mOdcpiRequestActive,
  isEmergencyMode,     \* of mOdcpiRequest
  timerActive,         \* OdcpiTimer::mActive
  timerRunning,        \* its LocTimer is running
  odcpis,              \* ODCPI reports so far
  unasked              \* a START was handled that the framework has not been asked for

clientVars == <<caller, owner, calls, view>>
modemVars  == <<up, fix, restarts>>
trackVars  == <<mClientData, mTrackingSessions, removing, cursor>>
odcpiVars  == <<mOdcpiRequestActive, isEmergencyMode, timerActive, timerRunning, odcpis, unasked>>
vars == <<queue, trackVars, clientVars, modemVars, odcpiVars>>

Msg(op, c, id, arg) == [op |-> op, client |-> c, id |-> id, arg |-> arg]
Post(m) == Len(queue) < MaxQueue /\ queue' = Append(queue, m)

Used    == {id \in Ids : owner[id] # NoClient}
Tracked == {id \in Ids : mTrackingSessions[id] # 0}

-----------------------------------------------------------------------------
(* The clients.                                                            *)

(* LocationAPI::createInstance                                             *)
addClientCommand(c) ==
  /\ caller[c] = "new"
  /\ caller' = [caller EXCEPT ![c] = "open"]
  /\ Post(Msg("addClient", c, 0, 0))
  /\ UNCHANGED <<trackVars, owner, calls, view, modemVars, odcpiVars>>

(* LocationAPI::~LocationAPI                                               *)
removeClientCommand(c) ==
  /\ caller[c] = "open"
  /\ caller' = [caller EXCEPT ![c] = "closed"]
  /\ Post(Msg("removeClient", c, 0, 0))
  /\ UNCHANGED <<trackVars, owner, calls, view, modemVars, odcpiVars>>

startTrackingCommand(c) ==
  \E id \in Ids \ Used, o \in Options :
    /\ caller[c] = "open"
    /\ \A other \in Ids \ Used : id <= other   \* generateSessionId
    /\ owner' = [owner EXCEPT ![id] = c]
    /\ Post(Msg("start", c, id, o))
    /\ UNCHANGED <<trackVars, caller, calls, view, modemVars, odcpiVars>>

updateTrackingOptionsCommand(c) ==
  \E id \in Used, o \in Options :
    /\ caller[c] = "open" /\ owner[id] = c /\ calls < MaxCalls
    /\ calls' = calls + 1
    /\ Post(Msg("update", c, id, o))
    /\ UNCHANGED <<trackVars, caller, owner, view, modemVars, odcpiVars>>

stopTrackingCommand(c) ==
  \E id \in Used :
    /\ caller[c] = "open" /\ owner[id] = c /\ calls < MaxCalls
    /\ calls' = calls + 1
    /\ Post(Msg("stop", c, id, 0))
    /\ UNCHANGED <<trackVars, caller, owner, view, modemVars, odcpiVars>>

-----------------------------------------------------------------------------
(* Multiplexing.  An outcome of a call is whether it succeeded, and the    *)
(* fix the modem runs afterwards.                                          *)

Outcome(ok, f) == [ok |-> ok, fix |-> f]

(* startTracking and stopTracking call LocApi, which refuses to start      *)
(* while the modem is down; a refused call leaves the fix as it was.       *)
startTracking(interval) ==
  {Outcome(FALSE, fix)} \cup (IF up THEN {Outcome(TRUE, interval)} ELSE {})
stopTracking == {Outcome(FALSE, fix), Outcome(TRUE, 0)}
NoCall       == {Outcome(TRUE, fix)}

(* The smallest interval among some sessions (there is one).               *)
smallestOf(sessions, ids) ==
  CHOOSE i \in {sessions[id] : id \in ids} : \A id \in ids : i <= sessions[id]

smallestInterval(ids) == smallestOf(mTrackingSessions, ids)

startTrackingMultiplex(o) ==
  IF Tracked = {} \/ o < smallestInterval(Tracked) THEN startTracking(o) ELSE NoCall

updateTrackingMultiplexRaise(id, o) ==   \* mutant: a raised interval is only stored
  IF Tracked = {id} \/ o < smallestInterval(Tracked \ {id}) THEN startTracking(o) ELSE NoCall

updateTrackingMultiplex(id, o) ==
  LET others == Tracked \ {id}
  IN IF others = {} \/ o < smallestInterval(others) THEN startTracking(o)
     ELSE IF mTrackingSessions[id] < smallestInterval(others)
          THEN startTracking(smallestInterval(others))
          ELSE NoCall

stopTrackingMultiplexAll(id) ==   \* mutant: any stop stops the fix
  stopTracking

stopTrackingMultiplex(id) ==
  LET others == Tracked \ {id}
  IN IF others = {} THEN stopTracking
     ELSE IF mTrackingSessions[id] < smallestInterval(others)
          THEN startTracking(smallestInterval(others))
          ELSE NoCall

-----------------------------------------------------------------------------
(* The message handlers of the clients' commands.                          *)

Handle(op) ==
  /\ removing = NoClient
  /\ queue # <<>> /\ Head(queue).op = op
  /\ queue' = Tail(queue)

saveClient ==
  /\ Handle("addClient")
  /\ mClientData' = mClientData \cup {Head(queue).client}
  /\ UNCHANGED <<mTrackingSessions, removing, cursor, clientVars, modemVars, odcpiVars>>

(* MsgStartTracking::proc                                                  *)
startSession ==
  /\ Handle("start")
  /\ LET m      == Head(queue)
         listed == m.client \in mClientData
         told   == [view EXCEPT ![m.id] = IF listed THEN "refused" ELSE @]
     IN \/ /\ ~(listed /\ m.client \in Trackers) \/ m.arg = 0
           /\ view' = told
           /\ UNCHANGED <<mTrackingSessions, fix>>
        \/ /\ listed /\ m.client \in Trackers /\ m.arg # 0
           /\ \E r \in startTrackingMultiplex(m.arg) :
                /\ fix' = r.fix
                /\ mTrackingSessions' =
                     IF r.ok THEN [mTrackingSessions EXCEPT ![m.id] = m.arg] ELSE mTrackingSessions
                /\ view' = IF r.ok THEN [view EXCEPT ![m.id] = "started"] ELSE told
  /\ UNCHANGED <<mClientData, removing, cursor, caller, owner, calls, up, restarts, odcpiVars>>

(* MsgUpdateTracking::proc does nothing if there is no such session.       *)
updateSession ==
  /\ Handle("update")
  /\ LET m == Head(queue)
     IN \/ /\ m.id \notin Tracked \/ m.arg = 0
           /\ UNCHANGED <<mTrackingSessions, fix>>
        \/ /\ m.id \in Tracked /\ m.arg # 0
           /\ \E r \in updateTrackingMultiplex(m.id, m.arg) :
                /\ fix' = r.fix
                /\ mTrackingSessions' =
                     IF r.ok THEN [mTrackingSessions EXCEPT ![m.id] = m.arg] ELSE mTrackingSessions
  /\ UNCHANGED <<mClientData, removing, cursor, clientVars, up, restarts, odcpiVars>>

(* eraseTrackingSession, when the stop of the session succeeded.           *)
eraseAnyway(ok, id) ==   \* mutant: the error is not looked at
  mTrackingSessions' = [mTrackingSessions EXCEPT ![id] = 0]

eraseStopped(ok, id) ==
  mTrackingSessions' = [mTrackingSessions EXCEPT ![id] = IF ok THEN 0 ELSE @]

(* MsgStopTracking::proc                                                   *)
stopSession ==
  /\ Handle("stop")
  /\ LET m == Head(queue)
     IN \/ /\ m.id \notin Tracked
           /\ UNCHANGED <<mTrackingSessions, view, fix>>
        \/ /\ m.id \in Tracked
           /\ \E r \in stopTrackingMultiplex(m.id) :
                /\ fix' = r.fix
                /\ eraseStopped(r.ok, m.id)
                /\ view' = [view EXCEPT ![m.id] = IF r.ok THEN "stopped" ELSE @]
  /\ UNCHANGED <<mClientData, removing, cursor, caller, owner, calls, up, restarts, odcpiVars>>

(* MsgRemoveClient::proc: stopClientSessions walks the map in the order of *)
(* the ids and stops the client's sessions one by one; then eraseClient.   *)
removeClient ==
  /\ Handle("removeClient")
  /\ removing' = Head(queue).client
  /\ cursor' = 0
  /\ UNCHANGED <<mClientData, mTrackingSessions, clientVars, modemVars, odcpiVars>>

Remaining == {id \in Tracked : id > cursor /\ owner[id] = removing}

stopClientSessions ==
  /\ removing # NoClient
  /\ \E id \in Remaining :
       /\ \A other \in Remaining : id <= other
       /\ cursor' = id
       /\ \E r \in stopTrackingMultiplex(id) : fix' = r.fix /\ eraseStopped(r.ok, id)
  /\ UNCHANGED <<queue, mClientData, removing, clientVars, up, restarts, odcpiVars>>

eraseClient ==
  /\ removing # NoClient /\ Remaining = {}
  /\ mClientData' = mClientData \ {removing}
  /\ removing' = NoClient
  /\ cursor' = 0
  /\ UNCHANGED <<queue, mTrackingSessions, clientVars, modemVars, odcpiVars>>

-----------------------------------------------------------------------------
(* The modem restarts.                                                     *)

engineDown ==
  /\ up /\ restarts < MaxRestarts
  /\ up' = FALSE /\ fix' = 0 /\ restarts' = restarts + 1
  /\ UNCHANGED <<queue, trackVars, clientVars, odcpiVars>>

(* GnssAdapter::handleEngineUpEvent                                        *)
handleEngineUpEvent ==
  /\ ~up
  /\ up' = TRUE
  /\ Post(Msg("restart", NoClient, 0, 0))
  /\ UNCHANGED <<trackVars, clientVars, fix, restarts, odcpiVars>>

(* restartSessions; the result of startFix is not looked at.               *)
restartSessions ==
  /\ Handle("restart")
  /\ mOdcpiRequestActive' = FALSE
  /\ unasked' = FALSE
  /\ \/ Tracked = {} /\ UNCHANGED fix
     \/ Tracked # {} /\ \E r \in startTracking(smallestInterval(Tracked)) : fix' = r.fix
  /\ UNCHANGED <<trackVars, clientVars, up, restarts, isEmergencyMode, timerActive, timerRunning,
                 odcpis>>

-----------------------------------------------------------------------------
(* ODCPI.                                                                  *)

(* GnssAdapter::reportOdcpiRequestEvent: START, ordinary or emergency, or  *)
(* STOP.                                                                   *)
reportOdcpiRequestEvent ==
  \E type \in {"START", "EMERGENCY", "STOP"} :
    /\ up /\ odcpis < MaxOdcpi
    /\ odcpis' = odcpis + 1
    /\ Post(Msg(type, NoClient, 0, 0))
    /\ UNCHANGED <<trackVars, clientVars, modemVars, mOdcpiRequestActive, isEmergencyMode,
                   timerActive, timerRunning, unasked>>

(* A START is passed on at once, passed on in place of an ordinary one, or *)
(* left to the timer.                                                      *)
PassOn(emergency) ==
  \/ ~mOdcpiRequestActive /\ ~timerActive
  \/ ~isEmergencyMode /\ emergency

odcpiStart(emergency) ==
  /\ Handle(IF emergency THEN "EMERGENCY" ELSE "START")
  /\ mOdcpiRequestActive' = TRUE
  /\ isEmergencyMode' = emergency
  /\ IF PassOn(emergency)
     THEN timerActive' = TRUE /\ timerRunning' = TRUE /\ unasked' = FALSE
     ELSE unasked' = TRUE /\ UNCHANGED <<timerActive, timerRunning>>
  /\ UNCHANGED <<trackVars, clientVars, modemVars, odcpis>>

odcpiStopTimer ==   \* mutant: the timer is stopped with the request, not its flag
  /\ Handle("STOP")
  /\ mOdcpiRequestActive' = FALSE
  /\ timerRunning' = FALSE
  /\ unasked' = FALSE
  /\ UNCHANGED <<trackVars, clientVars, modemVars, isEmergencyMode, timerActive, odcpis>>

odcpiStop ==
  /\ Handle("STOP")
  /\ mOdcpiRequestActive' = FALSE
  /\ unasked' = FALSE
  /\ UNCHANGED <<trackVars, clientVars, modemVars, isEmergencyMode, timerActive, timerRunning,
                 odcpis>>

(* OdcpiTimer::timeOutCallback, on the timer thread.                       *)
odcpiTimerExpireEvent ==
  /\ timerRunning
  /\ timerRunning' = FALSE
  /\ Post(Msg("odcpiExpire", NoClient, 0, 0))
  /\ UNCHANGED <<trackVars, clientVars, modemVars, mOdcpiRequestActive, isEmergencyMode,
                 timerActive, odcpis, unasked>>

odcpiTimerExpireOnce ==   \* mutant: the framework is asked once only
  /\ Handle("odcpiExpire")
  /\ timerActive' = FALSE /\ timerRunning' = FALSE
  /\ UNCHANGED <<trackVars, clientVars, modemVars, mOdcpiRequestActive, isEmergencyMode, odcpis,
                 unasked>>

(* odcpiTimerExpire: ask again and restart the timer, or let it be.  The   *)
(* timer may be running, if a request in an emergency has restarted it.    *)
odcpiTimerExpire ==
  /\ Handle("odcpiExpire")
  /\ timerActive' = mOdcpiRequestActive
  /\ timerRunning' = mOdcpiRequestActive
  /\ unasked' = FALSE
  /\ UNCHANGED <<trackVars, clientVars, modemVars, mOdcpiRequestActive, isEmergencyMode, odcpis>>

-----------------------------------------------------------------------------
Init ==
  /\ queue = <<>>
  /\ mClientData = {}
  /\ mTrackingSessions = [id \in Ids |-> 0]
  /\ removing = NoClient
  /\ cursor = 0
  /\ caller = [c \in Clients |-> "new"]
  /\ owner = [id \in Ids |-> NoClient]
  /\ calls = 0
  /\ view = [id \in Ids |-> "unknown"]
  /\ up = TRUE
  /\ fix = 0
  /\ restarts = 0
  /\ mOdcpiRequestActive = FALSE
  /\ isEmergencyMode = FALSE
  /\ timerActive = FALSE
  /\ timerRunning = FALSE
  /\ odcpis = 0
  /\ unasked = FALSE

clientCommand(c) ==
  \/ addClientCommand(c) \/ removeClientCommand(c)
  \/ startTrackingCommand(c) \/ updateTrackingOptionsCommand(c) \/ stopTrackingCommand(c)

adapterThread ==
  \/ saveClient \/ startSession \/ updateSession \/ stopSession
  \/ removeClient \/ stopClientSessions \/ eraseClient
  \/ restartSessions
  \/ (\E emergency \in BOOLEAN : odcpiStart(emergency)) \/ odcpiStop \/ odcpiTimerExpire

Next ==
  \/ \E c \in Clients : clientCommand(c)
  \/ adapterThread
  \/ engineDown \/ handleEngineUpEvent
  \/ reportOdcpiRequestEvent \/ odcpiTimerExpireEvent

Spec == Init /\ [][Next]_vars

(* The message thread is scheduled and a running timer expires.            *)
FairSpec == Spec /\ WF_vars(adapterThread) /\ WF_vars(odcpiTimerExpireEvent)

-----------------------------------------------------------------------------
Ops == {"addClient", "removeClient", "start", "update", "stop", "restart",
        "START", "EMERGENCY", "STOP", "odcpiExpire"}
Message == [op : Ops, client : Clients \cup {NoClient}, id : Ids \cup {0}, arg : Options]

NeedsId == {"start", "update", "stop"}
Proper(m) ==
  /\ m.op \in NeedsId => m.id \in Ids
  /\ m.op = "addClient" => m.client \in Clients

TypeOK ==
  /\ queue \in Seq(Message)
  /\ \A i \in DOMAIN queue : Proper(queue[i])
  /\ mClientData \subseteq Clients
  /\ mTrackingSessions \in [Ids -> Options]
  /\ removing \in Clients \cup {NoClient}
  /\ cursor \in {0} \cup Ids
  /\ caller \in [Clients -> {"new", "open", "closed"}]
  /\ owner \in [Ids -> Clients \cup {NoClient}]
  /\ view \in [Ids -> {"unknown", "started", "refused", "stopped"}]
  /\ up \in BOOLEAN
  /\ fix \in Options
  /\ calls \in Nat /\ restarts \in Nat /\ odcpis \in Nat
  /\ mOdcpiRequestActive \in BOOLEAN
  /\ isEmergencyMode \in BOOLEAN
  /\ timerActive \in BOOLEAN
  /\ timerRunning \in BOOLEAN
  /\ unasked \in BOOLEAN

(* "the smallest interval, which should be the active one": whenever the   *)
(* modem runs a fix there is a session, and the fix has the smallest       *)
(* interval of all sessions, whatever calls failed and whatever restarts   *)
(* happened on the way.                                                    *)
RunningIsSmallest ==
  fix # 0 => Tracked # {} /\ fix = smallestInterval(Tracked)

(* The fix only rests while sessions exist if the modem restarted and its  *)
(* restart has not been handled, or restartSessions failed to start it.    *)
(* Without restarts the sessions are always served.                        *)
ServedWithoutRestart ==
  restarts = 0 /\ Tracked # {} => fix # 0

(* What a registered client was told agrees with the session map: started  *)
(* and not stopped means there is a session, and the other way round.      *)
ResponseIsTrue ==
  \A id \in Used :
    owner[id] \in mClientData /\ owner[id] # removing
      => (view[id] = "started" <=> id \in Tracked)

(* While mActive says that the ODCPI timer will expire, it will: it runs,  *)
(* or its expiry is queued.  Otherwise reportOdcpiRequest would wait for   *)
(* it for ever.  And an active request always has such a timer.            *)
OdcpiTimerWillFire ==
  /\ mOdcpiRequestActive => timerActive
  /\ timerActive => timerRunning \/ \E i \in DOMAIN queue : queue[i].op = "odcpiExpire"

(* Every START of the modem is passed on to the framework, at once or when *)
(* the timer expires, unless the modem stops the request or restarts.      *)
OdcpiAsked == unasked ~> ~unasked

=============================================================================
