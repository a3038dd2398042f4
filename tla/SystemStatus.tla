---------------------------- MODULE SystemStatus ----------------------------
(***************************************************************************)
(* What the framework says of network and cell, on its way to those who    *)
(* asked: SystemStatus (gps/core/SystemStatus.cpp) keeps a report of each  *)
(* data item, SystemStatusOsObserver distributes the items to observers,   *)
(* and one of them, XtraSystemStatusObserver, passes them on to the XTRA   *)
(* daemon over a socket.                                                   *)
(*                                                                         *)
(* All of it runs on one MsgTask: a call posts a message, an action        *)
(* handles one.  An observer that is notified posts to the same task.      *)
(* Maps of sets are functions, a key without an entry has the empty set.   *)
(* Of a report only the last entry is kept, the older are for debugging.   *)
(* The concrete data items are in a library that is no part of the tree;   *)
(* copy() is taken to copy, and to say whether it changed something.       *)
(***************************************************************************)
EXTENDS Naturals, Sequences, TLC

CONSTANTS
    Clients,     \* observers besides that for XTRA
    Types,       \* network types with a bit in mAllTypes
    Tacs,        \* values of the item "tac"
    Screens,     \* values of the item "screen"
    Locks,       \* values of the GPS lock
    MaxEvents,   \* bound: items of the framework, and locks
    MaxCalls,    \* bound: subscriptions of the clients
    MaxAsks,     \* bound: starts and questions of the XTRA daemon
    MaxQueue     \* bound: messages that wait when another is posted

ASSUME BoundsAssumption ==
    MaxEvents \in Nat /\ MaxCalls \in Nat /\ MaxAsks \in Nat /\ MaxQueue \in Nat

\* XTRA subscribes to "network", as it does to "mccmnc", and requests "tac".
\* "screen" stands for the items it never asks for: those are entered and
\* left by clients alone.
XtraItems == {"network", "tac"}
Items == XtraItems \cup {"screen"}
XTRA == "xtra"
Observers == Clients \cup {XTRA}
ASSUME ClientsAssumption == XTRA \notin Clients
Shown == XtraItems \cup {"lock"} \* what the daemon is told
Unknown == {"unknown"}           \* no value yet; the values are sets
ValuesOf(d) == {Unknown} \cup CASE d = "network" -> SUBSET Types
                                [] d = "tac"     -> {{v} : v \in Tacs}
                                [] d = "screen"  -> {{v} : v \in Screens}
                                [] OTHER         -> {{v} : v \in Locks}

\* The calls that tell the framework which items are wanted.
Ways == {"subscribe", "requestData"}

\* No value is taken for the lack of one.
ASSUME UnknownAssumption == "unknown" \notin Types \cup Tacs \cup Screens \cup Locks

VARIABLES
    queue,               \* the MsgTask
    mCache,              \* the last report of each item
    mDataItemCache,      \* the item the observer keeps
    mClientToDataItems,
    mDataItemToClients,
    mSubscriptionObj,    \* the framework's subscription object is set
    asked,               \* the calls for each item since it was last unsubscribed
    heard,               \* what each client was notified of last
    updaters,            \* clients that called updateSubscription
    xtra,                \* mConnections, mTac and mGpsLock of the XTRA observer
    mReqStatusReceived,
    daemon,              \* the XTRA daemon listens
    view,                \* what it was told
    synced,              \* it was sent the whole status
    links,               \* network types connected, as far as handled
    phantoms,            \* types the first event said are down, not heard of since
    events, calls, asks  \* for the bounds

reportVars == <<mCache, mDataItemCache, links, phantoms>>
mapVars == <<mClientToDataItems, mDataItemToClients, mSubscriptionObj, asked, updaters>>
xtraVars == <<xtra, mReqStatusReceived>>
daemonVars == <<daemon, view, synced>>
boundVars == <<events, calls, asks>>
vars == <<queue, reportVars, mapVars, heard, xtraVars, daemonVars, boundVars>>

Message(op, who, items, value) == [op |-> op, who |-> who, items |-> items, value |-> value]
Post(m) == Len(queue) < MaxQueue /\ queue' = Append(queue, m)
NoArg == Unknown

----------------------------------------------------------------------------
(* LocUnorderedSetMap *)

add(map, keys, vals) == [k \in DOMAIN map |-> IF k \in keys THEN map[k] \cup vals ELSE map[k]]
newKeys(map, keys) == {k \in keys : map[k] = {}}
trimOrRemove(map, keys, vals) ==
    [k \in DOMAIN map |-> IF k \in keys THEN map[k] \ vals ELSE map[k]]
goneKeys(map, keys, vals) == {k \in keys : map[k] # {} /\ map[k] \subseteq vals}

\* The values update() returns: those the entry had and keeps.
updateReturns(map, key, vals) == map[key] \cap vals

----------------------------------------------------------------------------
(* Calls, on threads of their own *)

\* From the framework or, for the network, AGnssRil.  No bit is a type without one.
notify ==
    /\ events < MaxEvents /\ events' = events + 1
    /\ \/ \E bits \in {{}} \cup {{t} : t \in Types}, connected \in BOOLEAN :
             Post(Message("notify", connected, {"network"}, bits))
       \/ \E v \in Tacs : Post(Message("notify", FALSE, {"tac"}, {v}))
       \/ \E v \in Screens : Post(Message("notify", FALSE, {"screen"}, {v}))
       \/ \E v \in Locks : Post(Message("lock", FALSE, {"lock"}, {v}))
    /\ UNCHANGED <<reportVars, mapVars, heard, xtraVars, daemonVars, calls, asks>>

\* An empty list is refused.
clientCall ==
    /\ calls < MaxCalls /\ calls' = calls + 1
    /\ \E c \in Clients :
          \/ \E s \in SUBSET Items \ {{}}, op \in Ways \cup {"updateSubscription", "unsubscribe"} :
                Post(Message(op, c, s, NoArg))
          \/ Post(Message("unsubscribeAll", c, {}, NoArg))
    /\ UNCHANGED <<reportVars, mapVars, heard, xtraVars, daemonVars, events, asks>>

\* The framework gives its object once.
frameworkComes ==
    /\ ~mSubscriptionObj /\ \A i \in 1..Len(queue) : queue[i].op # "setSubscriptionObj"
    /\ Post(Message("setSubscriptionObj", "framework", {}, NoArg))
    /\ UNCHANGED <<reportVars, mapVars, heard, xtraVars, daemonVars, boundVars>>

\* The daemon asks for the status, or says that it still has it.
requestStatus ==
    /\ daemon /\ asks < MaxAsks /\ asks' = asks + 1
    /\ \E updated \in BOOLEAN : Post(Message("status", updated, {}, NoArg))
    /\ UNCHANGED <<reportVars, mapVars, heard, xtraVars, daemonVars, events, calls>>

daemonStarts ==
    /\ ~daemon /\ asks < MaxAsks /\ asks' = asks + 1
    /\ daemon' = TRUE
    /\ UNCHANGED <<queue, reportVars, mapVars, heard, xtraVars, view, synced, events, calls>>

daemonDies ==
    /\ daemon
    /\ daemon' = FALSE /\ synced' = FALSE
    /\ view' = [d \in Shown |-> Unknown]
    /\ UNCHANGED <<queue, reportVars, mapVars, heard, xtraVars, boundVars>>

----------------------------------------------------------------------------
(* The message thread *)

Handle(op) == queue # <<>> /\ Head(queue).op = op
m == Head(queue)

\* Mutant of send. what was notified before is not repeated to a new subscriber.
sendMutant(cache, who) ==
    LET With(c) == {d \in who[c] : cache[d] # Unknown /\ cache[d] # mDataItemCache[d]}
    IN  /\ heard' = [c \in Clients |->
               [d \in Items |-> IF d \in With(c) THEN cache[d] ELSE heard[c][d]]]
        /\ queue' = Tail(queue) \o
               (IF With(XTRA) = {} THEN <<>>
                ELSE <<Message("xtra", XTRA, With(XTRA), [d \in With(XTRA) |-> cache[d]])>>)

\* sendCachedDataItems: observer c is notified of the items who[c] with a value.
send(cache, who) ==
    LET With(c) == {d \in who[c] : cache[d] # Unknown}
    IN  /\ heard' = [c \in Clients |->
               [d \in Items |-> IF d \in With(c) THEN cache[d] ELSE heard[c][d]]]
        /\ queue' = Tail(queue) \o
               (IF With(XTRA) = {} THEN <<>>
                ELSE <<Message("xtra", XTRA, With(XTRA), [d \in With(XTRA) |-> cache[d]])>>)
Only(c, items) == [o \in Observers |-> IF o = c THEN items ELSE {}]

\* The framework hears of it once it gave its object: it is called in the way
\* given for the items in more, and unsubscribe is called for those in less.
ask(way, more, less) ==
    asked' = [d \in Items |-> CASE ~mSubscriptionObj -> asked[d]
                                [] mSubscriptionObj /\ d \in less -> {}
                                [] mSubscriptionObj /\ d \in more \ less -> asked[d] \cup {way}
                                [] OTHER -> asked[d]]

handlerFrame == UNCHANGED <<xtraVars, daemonVars, boundVars>>

\* subscribe and requestData differ in the call for the items that are new.
subscribe(way) ==
    /\ Handle(way)
    /\ mDataItemToClients' = add(mDataItemToClients, m.items, {m.who})
    /\ mClientToDataItems' = add(mClientToDataItems, {m.who}, m.items)
    /\ send(mDataItemCache, Only(m.who, m.items))
    /\ ask(way, newKeys(mDataItemToClients, m.items), {})
    /\ handlerFrame /\ UNCHANGED <<reportVars, mSubscriptionObj, updaters>>

updateSubscription ==
    /\ Handle("updateSubscription")
    /\ LET returned == updateReturns(mClientToDataItems, m.who, m.items)
           fresh == m.items \ mClientToDataItems[m.who]
           trimmed == trimOrRemove(mDataItemToClients, returned, {m.who})
       IN  /\ mClientToDataItems' = [mClientToDataItems EXCEPT ![m.who] = m.items]
           /\ mDataItemToClients' = add(trimmed, fresh, {m.who})
           /\ send(mDataItemCache, Only(m.who, fresh))
           /\ ask("subscribe", newKeys(trimmed, fresh), goneKeys(mDataItemToClients, returned, {m.who}))
    /\ updaters' = updaters \cup {m.who}
    /\ handlerFrame /\ UNCHANGED <<reportVars, mSubscriptionObj>>

\* Mutant of drop. nothing is unsubscribed in the framework.
dropMutant(items) ==
    /\ mDataItemToClients' = trimOrRemove(mDataItemToClients, items, {m.who})
    /\ UNCHANGED asked

drop(items) ==
    /\ mDataItemToClients' = trimOrRemove(mDataItemToClients, items, {m.who})
    /\ ask("unsubscribe", {}, goneKeys(mDataItemToClients, items, {m.who}))

unsubscribe ==
    /\ Handle("unsubscribe")
    /\ mClientToDataItems' = trimOrRemove(mClientToDataItems, {m.who}, m.items)
    /\ drop(mClientToDataItems[m.who] \cap m.items)
    /\ queue' = Tail(queue)
    /\ handlerFrame /\ UNCHANGED <<reportVars, heard, mSubscriptionObj, updaters>>

unsubscribeAll ==
    /\ Handle("unsubscribeAll")
    /\ mClientToDataItems' = [mClientToDataItems EXCEPT ![m.who] = {}]
    /\ drop(mClientToDataItems[m.who])
    /\ queue' = Tail(queue)
    /\ handlerFrame /\ UNCHANGED <<reportVars, heard, mSubscriptionObj, updaters>>

setSubscriptionObj ==
    /\ Handle("setSubscriptionObj")
    /\ mSubscriptionObj' = TRUE
    /\ asked' = [d \in Items |-> IF mDataItemToClients[d] # {} THEN Ways ELSE asked[d]]
    /\ queue' = Tail(queue)
    /\ handlerFrame
    /\ UNCHANGED <<reportVars, heard, mClientToDataItems, mDataItemToClients, updaters>>

\* Network bits are merged with the last report; that also changes the item.
collate(bits, connected, last) ==
    IF connected THEN last \cup bits ELSE IF bits # {} THEN last \ bits ELSE {}

\* eventDataItemNotify: what the item is after it was recorded.
recorded(d, value, connected) ==
    IF d = "network" /\ mCache[d] # Unknown THEN collate(value, connected, mCache[d]) ELSE value

\* Mutant of copied. merging does not reach the item.
copiedMutant(d, value, connected) == value

\* The item in the observer's own cache.
copied(d, value, connected) == recorded(d, value, connected)

\* HandleNotify, with updateCache; a report that does not change ends here.
handleNotify ==
    /\ Handle("notify")
    /\ \E d \in m.items :
          LET connected == m.who
              value == recorded(d, m.value, connected)
              item == copied(d, m.value, connected)
              changed == mCache[d] # value /\ mDataItemCache[d] # item
          IN  /\ mCache' = [mCache EXCEPT ![d] = value]
              /\ mDataItemCache' = IF changed THEN [mDataItemCache EXCEPT ![d] = item]
                                   ELSE mDataItemCache
              /\ send(mDataItemCache', [o \in Observers |->
                     IF changed /\ o \in mDataItemToClients[d]
                     THEN mClientToDataItems[o] \cap {d} ELSE {}])
              /\ links' = IF d # "network" THEN links
                          ELSE IF connected THEN links \cup m.value
                          ELSE links \ (IF m.value = {} THEN Types ELSE m.value)
              /\ phantoms' = CASE d = "network" /\ mCache[d] = Unknown ->
                                     IF connected THEN {} ELSE m.value
                               [] d = "network" /\ mCache[d] # Unknown ->
                                     IF ~connected /\ m.value = {} THEN {}
                                     ELSE phantoms \ m.value
                               [] OTHER -> phantoms
    /\ handlerFrame /\ UNCHANGED mapVars

----------------------------------------------------------------------------
(* XtraSystemStatusObserver, on the same thread *)

xtraFrame == UNCHANGED <<reportVars, mapVars, heard, daemon, boundVars>>
Merge(old, items, value) == [d \in Shown |-> IF d \in items THEN value[d] ELSE old[d]]

\* updateConnections, updateTac, updateLockStatus: nothing is sent before the daemon asked.
update(items, value) ==
    /\ xtra' = Merge(xtra, items, value)
    /\ view' = IF mReqStatusReceived /\ daemon THEN Merge(view, items, value) ELSE view
    /\ queue' = Tail(queue)
    /\ xtraFrame /\ UNCHANGED <<mReqStatusReceived, synced>>

xtraNotify == Handle("xtra") /\ update(m.items, m.value)
updateLockStatus == Handle("lock") /\ update({"lock"}, [d \in {"lock"} |-> m.value])

onStatusRequested ==
    /\ Handle("status")
    /\ mReqStatusReceived' = TRUE
    /\ IF ~m.who /\ daemon
       THEN view' = xtra /\ synced' = TRUE
       ELSE UNCHANGED <<view, synced>>
    /\ queue' = Tail(queue)
    /\ xtraFrame /\ UNCHANGED xtra

----------------------------------------------------------------------------

\* The XTRA observer subscribes when it is made.
Init ==
    /\ queue = <<Message("subscribe", XTRA, {"network"}, NoArg),
                 Message("requestData", XTRA, {"tac"}, NoArg)>>
    /\ mCache = [d \in Items |-> Unknown] /\ mDataItemCache = [d \in Items |-> Unknown]
    /\ mClientToDataItems = [c \in Observers |-> {}]
    /\ mDataItemToClients = [d \in Items |-> {}]
    /\ mSubscriptionObj = FALSE /\ asked = [d \in Items |-> {}]
    /\ heard = [c \in Clients |-> [d \in Items |-> Unknown]] /\ updaters = {}
    /\ xtra = [d \in Shown |-> Unknown] /\ mReqStatusReceived = FALSE
    /\ daemon = FALSE /\ view = [d \in Shown |-> Unknown] /\ synced = FALSE
    /\ links = {} /\ phantoms = {}
    /\ events = 0 /\ calls = 0 /\ asks = 0

messageThread ==
    \/ \E way \in Ways : subscribe(way)
    \/ updateSubscription \/ unsubscribe \/ unsubscribeAll \/ setSubscriptionObj
    \/ handleNotify \/ xtraNotify \/ updateLockStatus \/ onStatusRequested

Next ==
    \/ notify \/ clientCall \/ frameworkComes \/ requestStatus \/ daemonStarts \/ daemonDies \/ messageThread

Spec == Init /\ [][Next]_vars

----------------------------------------------------------------------------
(* Properties *)

\* For the run: no network type is treated differently from another.
TypeSymmetry == Permutations(Types)

TypeOK ==
    /\ \A d \in Items : mCache[d] \in ValuesOf(d) /\ mDataItemCache[d] \in ValuesOf(d)
    /\ \A c \in Observers : mClientToDataItems[c] \subseteq Items
    /\ \A d \in Items : mDataItemToClients[d] \subseteq Observers
    /\ \A d \in Items : asked[d] \subseteq Ways
    /\ updaters \subseteq Clients
    /\ \A d \in Shown : xtra[d] \in ValuesOf(d) /\ view[d] \in ValuesOf(d)
    /\ synced => daemon
    /\ links \subseteq Types /\ phantoms \subseteq Types

Quiet == queue = <<>>

\* The item that is distributed is the report that was recorded: merging the
\* bits of a network into the report reaches the item by a pointer into it.
CacheIsReport == mDataItemCache = mCache

\* Who subscribed to an item was notified of the value it has now, whether the
\* value came before or after the subscription.  updateSubscription loses items.
ClientsHear ==
    \A c \in Clients \ updaters, d \in Items :
        d \in mClientToDataItems[c] /\ mDataItemCache[d] # Unknown => heard[c][d] = mDataItemCache[d]

\* The two maps agree, but for clients that called updateSubscription.
MapsAgree ==
    \A c \in Observers \ updaters, d \in Items :
        d \in mClientToDataItems[c] <=> c \in mDataItemToClients[d]

\* Once the framework gave its object it has been asked, by subscribe or by
\* requestData, for the items some client is entered for, also for those entered
\* before, and it has been told to unsubscribe every other: no order of
\* subscriptions, updates and withdrawals forgets a call.  In which of the two
\* ways is not claimed: an item that was requested when it was entered is not
\* subscribed when a second client subscribes to it.
FrameworkFollows ==
    mSubscriptionObj => \A d \in Items : asked[d] # {} <=> mDataItemToClients[d] # {}

\* A daemon that was answered knows what the XTRA observer knows, and that
\* is what the items are.
DaemonUpToDate ==
    /\ synced => view = xtra
    /\ Quiet => \A d \in XtraItems : xtra[d] = mDataItemCache[d]

\* Once there was an event, the connections told are the types that are connected,
\* and those the first event said are down, until they are heard of again: the
\* first event is recorded as it came, with the bit of its type, and not collated.
ConnectionsFollow ==
    mDataItemCache["network"] # Unknown => mDataItemCache["network"] = links \cup phantoms

\* Both maps and the framework agree on who is subscribed to what.
SubscriptionsAgree == TypeOK /\ MapsAgree /\ FrameworkFollows

\* What is distributed is what was reported.
ReportsAgree == CacheIsReport /\ ConnectionsFollow

\* Whoever asked was told.
EverybodyTold == ClientsHear /\ DaemonUpToDate
=============================================================================
