------------------------- MODULE SystemStatusProofs -------------------------
(***************************************************************************)
(* SystemStatus for any clients, network types and bounds: the maps of     *)
(* subscriptions mirror each other and the framework follows them, and the *)
(* item that is distributed is the report that was recorded.               *)
(*                                                                         *)
(* SSInv is the inductive invariant.  The messages in the queue have to be *)
(* typed with it, since what a handler does to the maps depends on the     *)
(* client and the items its message names.                                 *)
(*                                                                         *)
(* ToldInv, on top of it, says that whoever subscribed is told: clients    *)
(* at once, the observer for XTRA by the last message in the queue that    *)
(* carries the item.                                                       *)
(***************************************************************************)
EXTENDS SystemStatus, TLAPS

Things == Items \cup {"lock"}
AllValues == UNION {ValuesOf(d) : d \in Things}
ValueMaps == UNION {[S -> AllValues] : S \in SUBSET Things}
Subscribing == Ways \cup {"updateSubscription", "unsubscribe", "unsubscribeAll"}

\* v is a value the framework reports of item d.
Reported(d, v) ==
    /\ d = "network" => v \in SUBSET Types
    /\ d = "tac" => v \in {{w} : w \in Tacs}
    /\ d = "screen" => v \in {{w} : w \in Screens}

\* What the handler of a message relies on.
Fits(x) ==
    /\ x.op \in Subscribing => x.who \in Observers /\ x.items \subseteq Items
    /\ x.op = "updateSubscription" => x.who \in Clients
    /\ x.op = "notify" =>
          x.who \in BOOLEAN /\ \E d \in Items : x.items = {d} /\ Reported(d, x.value)
    /\ x.op = "lock" => x.value \in {{v} : v \in Locks}
    /\ x.op = "xtra" => x.items \subseteq Items /\ \A d \in x.items : x.value[d] \in ValuesOf(d)

Ops == Subscribing \cup {"setSubscriptionObj", "status", "notify", "lock", "xtra"}
Callers == Observers \cup BOOLEAN \cup {"framework"}
Messages ==
    {x \in [op : Ops, who : Callers, items : SUBSET Things, value : AllValues \cup ValueMaps] :
        Fits(x)}

QueueType == queue \in Seq(Messages)

MapType ==
    /\ mClientToDataItems \in [Observers -> SUBSET Items]
    /\ mDataItemToClients \in [Items -> SUBSET Observers]
    /\ mSubscriptionObj \in BOOLEAN

ReportType ==
    /\ mCache \in [Items -> AllValues] /\ mDataItemCache \in [Items -> AllValues]
    /\ \A d \in Items : mCache[d] \in ValuesOf(d)

\* Before the first network event nothing is connected.
LinksInv ==
    /\ mCache["network"] = Unknown => links = {} /\ phantoms = {}
    /\ links \subseteq Types /\ phantoms \subseteq Types

\* Nothing is asked of a framework that did not give its object.
AskedInv ==
    /\ asked \in [Items -> SUBSET Ways]
    /\ ~mSubscriptionObj => \A d \in Items : asked[d] = {}

DaemonType ==
    /\ \A d \in Shown : xtra[d] \in ValuesOf(d) /\ view[d] \in ValuesOf(d)
    /\ synced => daemon

\* The subscriptions, and the reports.
MapInv ==
    /\ MapType /\ updaters \subseteq Clients
    /\ MapsAgree /\ AskedInv /\ FrameworkFollows

ReportInv == ReportType /\ CacheIsReport /\ LinksInv /\ ConnectionsFollow

SSInv == QueueType /\ MapInv /\ ReportInv /\ DaemonType

----------------------------------------------------------------------------
(* Messages *)

LEMMA ValuesInAll == \A d \in Things : ValuesOf(d) \subseteq AllValues
  BY DEF AllValues

LEMMA UnknownIsValue == \A d \in Things : Unknown \in ValuesOf(d)
  BY DEF ValuesOf, Things, Items, XtraItems

LEMMA ItemsAreThings == Items \subseteq Things /\ Shown \subseteq Things /\ XtraItems \subseteq Items
  BY DEF Items, Shown, Things, XtraItems

\* The first message is one, and so are the others.
LEMMA HeadType ==
  ASSUME QueueType, queue # <<>>
  PROVE  Head(queue) \in Messages /\ Tail(queue) \in Seq(Messages)
  BY DEF QueueType

\* A posted message keeps the queue typed.
LEMMA PostType ==
  ASSUME QueueType, NEW x \in Messages, Post(x)
  PROVE  QueueType'
  BY DEF QueueType, Post

LEMMA MessageType ==
  ASSUME NEW op \in Ops, NEW c \in Callers, NEW s \in SUBSET Things,
         NEW v \in AllValues \cup ValueMaps, Fits(Message(op, c, s, v))
  PROVE  Message(op, c, s, v) \in Messages
  BY DEF Message, Messages

\* A message about subscriptions.
LEMMA SubscribingMessage ==
  ASSUME NEW op \in Subscribing, NEW c \in Observers, NEW s \in SUBSET Items,
         op = "updateSubscription" => c \in Clients
  PROVE  Message(op, c, s, NoArg) \in Messages
<1>1. NoArg \in AllValues
  BY UnknownIsValue DEF NoArg, AllValues, Things
<1>2. op \in Ops /\ c \in Callers /\ s \in SUBSET Things
  BY ItemsAreThings DEF Ops, Callers
<1>3. Fits(Message(op, c, s, NoArg))
  BY DEF Fits, Message, Subscribing, Ways
<1>. QED
  BY <1>1, <1>2, <1>3, MessageType

LEMMA PlainMessage ==
  ASSUME NEW op \in {"setSubscriptionObj", "status"}, NEW c \in BOOLEAN \cup {"framework"}
  PROVE  Message(op, c, {}, NoArg) \in Messages
<1>1. NoArg \in AllValues
  BY UnknownIsValue DEF NoArg, AllValues, Things
<1>2. op \in Ops /\ c \in Callers
  BY DEF Ops, Callers
<1>3. Fits(Message(op, c, {}, NoArg))
  BY DEF Fits, Message, Subscribing, Ways
<1>. QED
  BY <1>1, <1>2, <1>3, MessageType

LEMMA NotifyMessage ==
  ASSUME NEW c \in BOOLEAN, NEW v, NEW d \in Items, Reported(d, v)
  PROVE  Message("notify", c, {d}, v) \in Messages
<1>1. v \in AllValues
  <2>1. v \in ValuesOf(d)
    BY DEF ValuesOf, Reported, Items, XtraItems
  <2>. QED
    BY <2>1, ValuesInAll, ItemsAreThings
<1>2. "notify" \in Ops /\ c \in Callers /\ {d} \in SUBSET Things
  BY ItemsAreThings DEF Ops, Callers
<1>3. Fits(Message("notify", c, {d}, v))
  BY DEF Fits, Message, Subscribing, Ways
<1>. QED
  BY <1>1, <1>2, <1>3, MessageType

LEMMA LockMessage ==
  ASSUME NEW v \in {{w} : w \in Locks}
  PROVE  Message("lock", FALSE, {"lock"}, v) \in Messages
<1>1. v \in AllValues
  <2>1. v \in ValuesOf("lock")
    BY DEF ValuesOf
  <2>. QED
    BY <2>1, ValuesInAll DEF Things
<1>2. "lock" \in Ops /\ FALSE \in Callers /\ {"lock"} \in SUBSET Things
  BY DEF Ops, Callers, Things
<1>3. Fits(Message("lock", FALSE, {"lock"}, v))
  BY DEF Fits, Message, Subscribing, Ways
<1>. QED
  BY <1>1, <1>2, <1>3, MessageType

LEMMA XtraMessage ==
  ASSUME NEW S \in SUBSET Items, NEW cache \in [Items -> AllValues],
         \A d \in Items : cache[d] \in ValuesOf(d)
  PROVE  Message("xtra", XTRA, S, [d \in S |-> cache[d]]) \in Messages
<1>. DEFINE f == [d \in S |-> cache[d]]
<1>1. f \in ValueMaps
  <2>1. f \in [S -> AllValues]
    OBVIOUS
  <2>2. S \in SUBSET Things
    BY ItemsAreThings
  <2>. HIDE DEF f
  <2>. QED
    BY <2>1, <2>2 DEF ValueMaps
<1>2. \A d \in S : f[d] \in ValuesOf(d)
  OBVIOUS
<1>. HIDE DEF f
<1>3. "xtra" \in Ops /\ XTRA \in Callers /\ S \in SUBSET Things
  BY ItemsAreThings DEF Ops, Callers, Observers
<1>4. Fits(Message("xtra", XTRA, S, f))
  BY <1>2 DEF Fits, Message, Subscribing, Ways
<1>5. Message("xtra", XTRA, S, f) \in Messages
  BY <1>1, <1>3, <1>4, MessageType
<1>. QED
  BY <1>5 DEF f

\* Notifying observers appends at most one message, for the XTRA observer.
LEMMA SendType ==
  ASSUME QueueType, queue # <<>>, NEW cache \in [Items -> AllValues],
         \A d \in Items : cache[d] \in ValuesOf(d),
         NEW who \in [Observers -> SUBSET Items], send(cache, who)
  PROVE  QueueType'
<1>. DEFINE W == {d \in who[XTRA] : cache[d] # Unknown}
            x == Message("xtra", XTRA, W, [d \in W |-> cache[d]])
<1>1. W \in SUBSET Items
  BY DEF Observers
<1>2. x \in Messages
  BY <1>1, XtraMessage
<1>3. queue' = Tail(queue) \o (IF W = {} THEN <<>> ELSE <<x>>)
  BY DEF send
<1>4. Tail(queue) \in Seq(Messages)
  BY HeadType
<1>. HIDE DEF W, x
<1>. QED
  BY <1>2, <1>3, <1>4 DEF QueueType

\* What the message at hand carries.
LEMMA MType ==
  ASSUME QueueType, queue # <<>>
  PROVE  m \in Messages /\ Fits(m) /\ Tail(queue) \in Seq(Messages)
  BY HeadType DEF m, Messages

LEMMA TailType ==
  ASSUME QueueType, queue # <<>>, queue' = Tail(queue)
  PROVE  QueueType'
  BY HeadType DEF QueueType

LEMMA OnlyType ==
  ASSUME NEW c, NEW s \in SUBSET Items
  PROVE  Only(c, s) \in [Observers -> SUBSET Items]
  BY DEF Only

----------------------------------------------------------------------------
(* The maps of subscriptions *)

\* An item is asked for when its first client is entered, and given up with its last.
LEMMA AskFollows ==
  ASSUME AskedInv, FrameworkFollows, NEW way, NEW more, NEW less, ask(way, more, less),
         more # {} => way \in Ways, mSubscriptionObj' = mSubscriptionObj,
         \A d \in Items :
            /\ d \in less => mDataItemToClients'[d] = {}
            /\ d \in more \ less => mDataItemToClients'[d] # {}
            /\ d \notin more \cup less =>
                  (mDataItemToClients'[d] = {} <=> mDataItemToClients[d] = {})
  PROVE  AskedInv' /\ FrameworkFollows'
<1>1. \A d \in Items :
         asked'[d] = IF ~mSubscriptionObj THEN asked[d] ELSE IF d \in less THEN {}
                     ELSE IF d \in more THEN asked[d] \cup {way} ELSE asked[d]
  BY DEF ask
<1>2. asked' \in [Items -> SUBSET Ways]
  <2>1. \A d \in Items : asked'[d] \in SUBSET Ways
    BY <1>1 DEF AskedInv
  <2>2. asked' = [d \in Items |-> asked'[d]]
    BY DEF ask
  <2>. QED
    BY <2>1, <2>2
<1>3. ~mSubscriptionObj => \A d \in Items : asked'[d] = {}
  BY <1>1 DEF AskedInv
<1>4. ASSUME mSubscriptionObj, NEW d \in Items
      PROVE  asked'[d] # {} <=> mDataItemToClients'[d] # {}
  BY <1>1, <1>4 DEF FrameworkFollows
<1>. QED
  BY <1>2, <1>3, <1>4 DEF AskedInv, FrameworkFollows

LEMMA SubscribeMaps ==
  ASSUME MapInv, QueueType, NEW way \in Ways, subscribe(way)
  PROVE  MapInv'
<1>1. m.who \in Observers /\ m.items \subseteq Items
  BY MType DEF subscribe, Handle, m, Fits, Subscribing
<1>2. /\ mClientToDataItems' = [c \in Observers |->
            IF c = m.who THEN mClientToDataItems[c] \cup m.items ELSE mClientToDataItems[c]]
      /\ mDataItemToClients' = [d \in Items |->
            IF d \in m.items THEN mDataItemToClients[d] \cup {m.who} ELSE mDataItemToClients[d]]
      /\ mSubscriptionObj' = mSubscriptionObj /\ updaters' = updaters
      /\ ask(way, {d \in m.items : mDataItemToClients[d] = {}}, {})
  BY DEF subscribe, add, newKeys, MapInv, MapType
<1>. HIDE DEF m
<1>3. MapType' /\ updaters' \subseteq Clients
  BY <1>1, <1>2 DEF MapInv, MapType
<1>4. MapsAgree'
  BY <1>1, <1>2 DEF MapInv, MapsAgree
<1>5. AskedInv' /\ FrameworkFollows'
  BY <1>1, <1>2, AskFollows DEF MapInv
<1>. QED
  BY <1>3, <1>4, <1>5 DEF MapInv

LEMMA UpdateMaps ==
  ASSUME MapInv, QueueType, updateSubscription
  PROVE  MapInv'
<1>1. m.who \in Clients /\ m.who \in Observers /\ m.items \subseteq Items
  BY MType DEF updateSubscription, Handle, m, Fits, Subscribing
<1>. DEFINE kept == mClientToDataItems[m.who] \cap m.items
            fresh == m.items \ mClientToDataItems[m.who]
            left(d) == IF d \in kept THEN mDataItemToClients[d] \ {m.who}
                       ELSE mDataItemToClients[d]
            more == {d \in fresh : left(d) = {}}
            less == {d \in kept : mDataItemToClients[d] # {} /\ mDataItemToClients[d] \subseteq {m.who}}
<1>2. /\ mClientToDataItems' = [c \in Observers |->
            IF c = m.who THEN m.items ELSE mClientToDataItems[c]]
      /\ mDataItemToClients' = [d \in Items |->
            IF d \in fresh THEN left(d) \cup {m.who} ELSE left(d)]
      /\ mSubscriptionObj' = mSubscriptionObj /\ updaters' = updaters \cup {m.who}
  BY <1>1 DEF updateSubscription, add, trimOrRemove, updateReturns, MapInv, MapType
<1>3. ask("subscribe", more, less)
  <2>1. \A d \in m.items : trimOrRemove(mDataItemToClients, kept, {m.who})[d] = left(d)
    BY <1>1 DEF trimOrRemove, MapInv, MapType
  <2>2. newKeys(trimOrRemove(mDataItemToClients, kept, {m.who}), fresh) = more
    BY <2>1 DEF newKeys
  <2>3. goneKeys(mDataItemToClients, kept, {m.who}) = less
    BY DEF goneKeys
  <2>4. updateReturns(mClientToDataItems, m.who, m.items) = kept
    BY DEF updateReturns
  <2>5. ask("subscribe", newKeys(trimOrRemove(mDataItemToClients, kept, {m.who}), fresh),
            goneKeys(mDataItemToClients, kept, {m.who}))
    BY <2>4 DEF updateSubscription
  <2>. QED
    BY <2>2, <2>3, <2>5
<1>. HIDE DEF m
<1>4. MapType' /\ updaters' \subseteq Clients
  BY <1>1, <1>2 DEF MapInv, MapType
<1>5. MapsAgree'
  BY <1>1, <1>2 DEF MapInv, MapsAgree
<1>6. AskedInv' /\ FrameworkFollows'
  <2>1. ASSUME NEW d \in Items
        PROVE  /\ d \in less => mDataItemToClients'[d] = {}
               /\ d \in more \ less => mDataItemToClients'[d] # {}
               /\ d \notin more \cup less =>
                     (mDataItemToClients'[d] = {} <=> mDataItemToClients[d] = {})
    BY <1>2
  <2>. HIDE DEF more, less
  <2>. QED
    BY <1>2, <1>3, <2>1, AskFollows DEF MapInv, Ways
<1>. QED
  BY <1>4, <1>5, <1>6 DEF MapInv

\* Taking a client out of some of the items it is entered for.
LEMMA DropMaps ==
  ASSUME MapInv, NEW who \in Observers, NEW s \in SUBSET Items,
         mClientToDataItems' = [c \in Observers |->
            IF c = who THEN mClientToDataItems[c] \ s ELSE mClientToDataItems[c]],
         mDataItemToClients' = [d \in Items |->
            IF d \in mClientToDataItems[who] \cap s
            THEN mDataItemToClients[d] \ {who} ELSE mDataItemToClients[d]],
         mSubscriptionObj' = mSubscriptionObj, updaters' = updaters,
         ask("unsubscribe", {}, {d \in mClientToDataItems[who] \cap s :
                                    /\ mDataItemToClients[d] # {}
                                    /\ mDataItemToClients[d] \subseteq {who}})
  PROVE  MapInv'
<1>1. MapType' /\ updaters' \subseteq Clients
  BY DEF MapInv, MapType
<1>2. MapsAgree'
  BY DEF MapInv, MapsAgree
<1>3. AskedInv' /\ FrameworkFollows'
  BY AskFollows DEF MapInv
<1>. QED
  BY <1>1, <1>2, <1>3 DEF MapInv

LEMMA UnsubscribeMaps ==
  ASSUME MapInv, QueueType, unsubscribe
  PROVE  MapInv'
<1>1. m.who \in Observers /\ m.items \subseteq Items
  BY MType DEF unsubscribe, Handle, m, Fits, Subscribing
<1>2. mClientToDataItems[m.who] \subseteq Items
  BY <1>1 DEF MapInv, MapType
<1>3. mClientToDataItems' = [c \in Observers |->
         IF c = m.who THEN mClientToDataItems[c] \ m.items ELSE mClientToDataItems[c]]
  BY DEF unsubscribe, trimOrRemove, MapInv, MapType
<1>4. /\ mDataItemToClients' = [d \in Items |->
            IF d \in mClientToDataItems[m.who] \cap m.items
            THEN mDataItemToClients[d] \ {m.who} ELSE mDataItemToClients[d]]
      /\ mSubscriptionObj' = mSubscriptionObj /\ updaters' = updaters
      /\ ask("unsubscribe", {}, {d \in mClientToDataItems[m.who] \cap m.items :
                                    /\ mDataItemToClients[d] # {}
                                    /\ mDataItemToClients[d] \subseteq {m.who}})
  BY DEF unsubscribe, drop, goneKeys, trimOrRemove, MapInv, MapType
<1>. HIDE DEF m
<1>. QED
  BY <1>1, <1>3, <1>4, DropMaps

LEMMA UnsubscribeAllMaps ==
  ASSUME MapInv, QueueType, unsubscribeAll
  PROVE  MapInv'
<1>1. m.who \in Observers
  BY MType DEF unsubscribeAll, Handle, m, Fits, Subscribing
<1>2. mClientToDataItems[m.who] \subseteq Items
  BY <1>1 DEF MapInv, MapType
<1>. DEFINE s == mClientToDataItems[m.who]
<1>3. mClientToDataItems' = [c \in Observers |->
         IF c = m.who THEN mClientToDataItems[c] \ s ELSE mClientToDataItems[c]]
  BY DEF unsubscribeAll, MapInv, MapType
<1>4. /\ mDataItemToClients' = [d \in Items |->
            IF d \in mClientToDataItems[m.who] \cap s
            THEN mDataItemToClients[d] \ {m.who} ELSE mDataItemToClients[d]]
      /\ mSubscriptionObj' = mSubscriptionObj /\ updaters' = updaters
      /\ ask("unsubscribe", {}, {d \in mClientToDataItems[m.who] \cap s :
                                    /\ mDataItemToClients[d] # {}
                                    /\ mDataItemToClients[d] \subseteq {m.who}})
  BY DEF unsubscribeAll, drop, goneKeys, trimOrRemove, MapInv, MapType
<1>5. s \in SUBSET Items
  BY <1>2
<1>. HIDE DEF m, s
<1>. QED
  BY <1>1, <1>3, <1>4, <1>5, DropMaps

\* The framework is asked for what was subscribed before it came.
LEMMA ObjectMaps ==
  ASSUME MapInv, setSubscriptionObj
  PROVE  MapInv'
<1>1. /\ mClientToDataItems' = mClientToDataItems /\ mDataItemToClients' = mDataItemToClients
      /\ mSubscriptionObj' = TRUE /\ updaters' = updaters
      /\ asked' = [d \in Items |-> IF mDataItemToClients[d] # {} THEN Ways ELSE asked[d]]
  BY DEF setSubscriptionObj
<1>2. MapType' /\ updaters' \subseteq Clients /\ AskedInv'
  BY <1>1 DEF MapInv, MapType, AskedInv
<1>3. MapsAgree'
  BY <1>1 DEF MapInv, MapsAgree
<1>4. FrameworkFollows'
  BY <1>1 DEF MapInv, FrameworkFollows, AskedInv, MapType, Ways
<1>. QED
  BY <1>2, <1>3, <1>4 DEF MapInv

LEMMA OtherMaps ==
  ASSUME MapInv, UNCHANGED mapVars
  PROVE  MapInv'
  BY DEF MapInv, mapVars, MapType, MapsAgree, AskedInv, FrameworkFollows

----------------------------------------------------------------------------
(* The reports *)

\* What is recorded is a value of the item.
LEMMA RecordedType ==
  ASSUME ReportInv, NEW d \in Items, NEW v, NEW up \in BOOLEAN, Reported(d, v)
  PROVE  recorded(d, v, up) \in ValuesOf(d) /\ recorded(d, v, up) # Unknown
<1>1. ASSUME d = "tac"
      PROVE  recorded(d, v, up) \in {{w} : w \in Tacs}
  BY <1>1 DEF recorded, Reported
<1>2. ASSUME d = "screen"
      PROVE  recorded(d, v, up) \in {{w} : w \in Screens}
  BY <1>2 DEF recorded, Reported
<1>3. ASSUME d = "network"
      PROVE  recorded(d, v, up) \in SUBSET Types
  <2>1. CASE mCache[d] = Unknown
    BY <1>3, <2>1 DEF recorded, Reported
  <2>2. CASE mCache[d] # Unknown
    <3>1. mCache[d] \in SUBSET Types
      BY <1>3, <2>2 DEF ReportInv, ReportType, ValuesOf
    <3>. QED
      BY <1>3, <2>2, <3>1 DEF recorded, collate, Reported
  <2>. QED
    BY <2>1, <2>2
<1>. HIDE DEF recorded
<1>4. d = "tac" => recorded(d, v, up) \in ValuesOf(d) /\ recorded(d, v, up) # Unknown
  BY <1>1, UnknownAssumption DEF ValuesOf, Unknown
<1>5. d = "screen" => recorded(d, v, up) \in ValuesOf(d) /\ recorded(d, v, up) # Unknown
  BY <1>2, UnknownAssumption DEF ValuesOf, Unknown
<1>6. d = "network" => recorded(d, v, up) \in ValuesOf(d) /\ recorded(d, v, up) # Unknown
  BY <1>3, UnknownAssumption DEF ValuesOf, Unknown
<1>. QED
  BY <1>4, <1>5, <1>6 DEF Items, XtraItems

\* What handleNotify does, its item picked.
HandleOne(d) ==
    LET value == recorded(d, m.value, m.who)
        changed == mCache[d] # value /\ mDataItemCache[d] # value
    IN  /\ mCache' = [mCache EXCEPT ![d] = value]
        /\ mDataItemCache' = IF changed THEN [mDataItemCache EXCEPT ![d] = value]
                             ELSE mDataItemCache
        /\ send(mDataItemCache', [o \in Observers |->
               IF changed /\ o \in mDataItemToClients[d]
               THEN mClientToDataItems[o] \cap {d} ELSE {}])
        /\ links' = IF d # "network" THEN links
                    ELSE IF m.who THEN links \cup m.value
                    ELSE links \ (IF m.value = {} THEN Types ELSE m.value)
        /\ phantoms' = CASE d = "network" /\ mCache[d] = Unknown ->
                               IF m.who THEN {} ELSE m.value
                         [] d = "network" /\ mCache[d] # Unknown ->
                               IF ~m.who /\ m.value = {} THEN {} ELSE phantoms \ m.value
                         [] OTHER -> phantoms

LEMMA NotifyOne ==
  ASSUME QueueType, handleNotify
  PROVE  \E d \in Items : m.who \in BOOLEAN /\ HandleOne(d) /\ Reported(d, m.value)
<1>1. PICK d \in m.items : HandleOne(d)
  BY DEF handleNotify, HandleOne, copied
<1>2. m.who \in BOOLEAN /\ \E e \in Items : m.items = {e} /\ Reported(e, m.value)
  BY MType DEF handleNotify, Handle, m, Fits
<1>. HIDE DEF m, HandleOne, Reported
<1>. QED
  BY <1>1, <1>2

LEMMA NotifyReports ==
  ASSUME ReportInv, QueueType, handleNotify
  PROVE  ReportInv'
<1>1. PICK d \in Items : m.who \in BOOLEAN /\ HandleOne(d) /\ Reported(d, m.value)
  BY NotifyOne
<1>. DEFINE value == recorded(d, m.value, m.who)
<1>2. value \in ValuesOf(d) /\ value # Unknown /\ value \in AllValues
  BY <1>1, RecordedType, ValuesInAll, ItemsAreThings
<1>3. mCache' = [mCache EXCEPT ![d] = value]
  BY <1>1 DEF HandleOne
<1>4. mDataItemCache' = mCache'
  <2>1. mDataItemCache = mCache /\ mCache \in [Items -> AllValues]
    BY DEF ReportInv, CacheIsReport, ReportType
  <2>2. mDataItemCache' = IF mCache[d] # value THEN [mDataItemCache EXCEPT ![d] = value]
                          ELSE mDataItemCache
    BY <1>1, <2>1 DEF HandleOne
  <2>. HIDE DEF value
  <2>. QED
    BY <1>3, <2>1, <2>2
<1>5. ReportType'
  <2>. HIDE DEF value
  <2>. QED
    BY <1>2, <1>3, <1>4 DEF ReportInv, ReportType
<1>6. CASE d # "network"
  <2>. HIDE DEF value
  <2>1. mCache'["network"] = mCache["network"] /\ links' = links /\ phantoms' = phantoms
    BY <1>1, <1>3, <1>6 DEF HandleOne, ReportInv, ReportType, Items, XtraItems
  <2>2. mDataItemCache'["network"] = mDataItemCache["network"]
    BY <1>4, <2>1 DEF ReportInv, CacheIsReport
  <2>. QED
    BY <1>4, <1>5, <2>1, <2>2 DEF ReportInv, LinksInv, ConnectionsFollow, CacheIsReport
<1>7. CASE d = "network"
  <2>1. m.value \in SUBSET Types /\ m.who \in BOOLEAN
    BY <1>1, <1>7 DEF Reported
  <2>2. links' = IF m.who THEN links \cup m.value
                 ELSE links \ (IF m.value = {} THEN Types ELSE m.value)
    BY <1>1, <1>7 DEF HandleOne
  <2>3. phantoms' = IF mCache["network"] = Unknown THEN IF m.who THEN {} ELSE m.value
                    ELSE IF ~m.who /\ m.value = {} THEN {} ELSE phantoms \ m.value
    BY <1>1, <1>7 DEF HandleOne
  <2>4. links \subseteq Types /\ phantoms \subseteq Types
    BY DEF ReportInv, LinksInv
  <2>5. mCache'["network"] = value
    BY <1>3, <1>7 DEF ReportInv, ReportType, Items, XtraItems
  <2>6. value = links' \cup phantoms'
    <3>1. CASE mCache["network"] = Unknown
      <4>1. value = m.value /\ links = {}
        BY <1>7, <3>1 DEF recorded, ReportInv, LinksInv
      <4>. HIDE DEF value, m
      <4>. QED
        BY <2>1, <2>2, <2>3, <3>1, <4>1
    <3>2. CASE mCache["network"] # Unknown
      <4>1. mCache["network"] = links \cup phantoms
        BY <3>2 DEF ReportInv, CacheIsReport, ConnectionsFollow
      <4>2. value = collate(m.value, m.who, links \cup phantoms)
        BY <1>7, <3>2, <4>1 DEF recorded
      <4>. HIDE DEF value, m
      <4>. QED
        BY <2>1, <2>2, <2>3, <2>4, <3>2, <4>2 DEF collate
    <3>. QED
      BY <3>1, <3>2
  <2>. HIDE DEF value, m
  <2>7. LinksInv'
    BY <1>2, <2>1, <2>2, <2>3, <2>4, <2>5 DEF LinksInv
  <2>. QED
    BY <1>4, <1>5, <2>5, <2>6, <2>7 DEF ReportInv, CacheIsReport, ConnectionsFollow
<1>. QED
  BY <1>6, <1>7

LEMMA OtherReports ==
  ASSUME ReportInv, UNCHANGED reportVars
  PROVE  ReportInv'
  BY DEF ReportInv, reportVars, ReportType, CacheIsReport, LinksInv, ConnectionsFollow

----------------------------------------------------------------------------
(* The queue *)

\* An observer is notified of the items with a value, from a typed cache.
LEMMA SubscribeQueue ==
  ASSUME ReportInv, MapInv, QueueType, (\E way \in Ways : subscribe(way)) \/ updateSubscription
  PROVE  QueueType'
<1>1. queue # <<>> /\ m.items \subseteq Items
  BY MType DEF subscribe, updateSubscription, Handle, m, Fits, Subscribing
<1>2. PICK s \in SUBSET Items : send(mDataItemCache, Only(m.who, s))
  BY <1>1 DEF subscribe, updateSubscription
<1>3. /\ mDataItemCache \in [Items -> AllValues]
      /\ \A d \in Items : mDataItemCache[d] \in ValuesOf(d)
  BY DEF ReportInv, ReportType, CacheIsReport
<1>. QED
  BY <1>1, <1>2, <1>3, OnlyType, SendType

LEMMA NotifyQueue ==
  ASSUME ReportInv, MapInv, QueueType, handleNotify
  PROVE  QueueType'
<1>1. PICK d \in Items : HandleOne(d)
  BY NotifyOne
<1>. DEFINE changed == mCache[d] # recorded(d, m.value, m.who)
                       /\ mDataItemCache[d] # recorded(d, m.value, m.who)
            who == [o \in Observers |-> IF changed /\ o \in mDataItemToClients[d]
                                        THEN mClientToDataItems[o] \cap {d} ELSE {}]
<1>2. send(mDataItemCache', who)
  BY <1>1 DEF HandleOne
<1>3. who \in [Observers -> SUBSET Items]
  BY DEF MapInv, MapType
<1>4. /\ mDataItemCache' \in [Items -> AllValues]
      /\ \A e \in Items : mDataItemCache'[e] \in ValuesOf(e)
  BY NotifyReports DEF ReportInv, ReportType, CacheIsReport
<1>5. queue # <<>>
  BY DEF handleNotify, Handle
<1>. HIDE DEF who
<1>. QED
  BY <1>2, <1>3, <1>4, <1>5, SendType

LEMMA PostQueue ==
  ASSUME QueueType, notify \/ clientCall \/ frameworkComes \/ requestStatus
  PROVE  QueueType'
<1>1. CASE notify
  <2>1. ASSUME NEW bits \in {{}} \cup {{t} : t \in Types}, NEW up \in BOOLEAN,
               Post(Message("notify", up, {"network"}, bits))
        PROVE  QueueType'
    <3>1. bits \in SUBSET Types /\ "network" \in Items
      BY DEF Items, XtraItems
    <3>2. Message("notify", up, {"network"}, bits) \in Messages
      BY <3>1, NotifyMessage DEF Reported
    <3>. QED
      BY <2>1, <3>2, PostType
  <2>2. ASSUME NEW v \in Tacs, Post(Message("notify", FALSE, {"tac"}, {v}))
        PROVE  QueueType'
    <3>1. "tac" \in Items /\ {v} \in {{w} : w \in Tacs}
      BY DEF Items, XtraItems
    <3>2. Message("notify", FALSE, {"tac"}, {v}) \in Messages
      BY <3>1, NotifyMessage DEF Reported
    <3>. QED
      BY <2>2, <3>2, PostType
  <2>3. ASSUME NEW v \in Screens, Post(Message("notify", FALSE, {"screen"}, {v}))
        PROVE  QueueType'
    <3>1. "screen" \in Items /\ {v} \in {{w} : w \in Screens}
      BY DEF Items
    <3>2. Message("notify", FALSE, {"screen"}, {v}) \in Messages
      BY <3>1, NotifyMessage DEF Reported
    <3>. QED
      BY <2>3, <3>2, PostType
  <2>4. ASSUME NEW v \in Locks, Post(Message("lock", FALSE, {"lock"}, {v}))
        PROVE  QueueType'
    <3>1. Message("lock", FALSE, {"lock"}, {v}) \in Messages
      BY LockMessage
    <3>. QED
      BY <2>4, <3>1, PostType
  <2>. QED
    BY <1>1, <2>1, <2>2, <2>3, <2>4 DEF notify
<1>2. CASE clientCall
  <2>1. ASSUME NEW c \in Clients, NEW s \in SUBSET Items,
               NEW op \in Ways \cup {"updateSubscription", "unsubscribe"},
               Post(Message(op, c, s, NoArg))
        PROVE  QueueType'
    <3>1. Message(op, c, s, NoArg) \in Messages
      BY SubscribingMessage DEF Subscribing, Observers
    <3>. QED
      BY <2>1, <3>1, PostType
  <2>2. ASSUME NEW c \in Clients, Post(Message("unsubscribeAll", c, {}, NoArg))
        PROVE  QueueType'
    <3>1. Message("unsubscribeAll", c, {}, NoArg) \in Messages
      BY SubscribingMessage DEF Subscribing, Observers
    <3>. QED
      BY <2>2, <3>1, PostType
  <2>. QED
    BY <1>2, <2>1, <2>2 DEF clientCall
<1>3. CASE frameworkComes
  <2>1. Message("setSubscriptionObj", "framework", {}, NoArg) \in Messages
    BY PlainMessage
  <2>. QED
    BY <1>3, <2>1, PostType DEF frameworkComes
<1>4. CASE requestStatus
  <2>1. PICK updated \in BOOLEAN : Post(Message("status", updated, {}, NoArg))
    BY <1>4 DEF requestStatus
  <2>2. Message("status", updated, {}, NoArg) \in Messages
    BY PlainMessage
  <2>. QED
    BY <2>1, <2>2, PostType
<1>. QED
  BY <1>1, <1>2, <1>3, <1>4

\* The other handlers take the message out and post nothing.
LEMMA TakenQueue ==
  ASSUME QueueType,
         \/ unsubscribe \/ unsubscribeAll \/ setSubscriptionObj
         \/ xtraNotify \/ updateLockStatus \/ onStatusRequested
  PROVE  QueueType'
<1>1. queue # <<>> /\ queue' = Tail(queue)
  BY DEF unsubscribe, unsubscribeAll, setSubscriptionObj, xtraNotify, updateLockStatus,
         update, onStatusRequested, Handle
<1>. QED
  BY <1>1, TailType

----------------------------------------------------------------------------
(* The XTRA observer and its daemon *)

LEMMA UpdateDaemon ==
  ASSUME DaemonType, NEW items, NEW value,
         \A d \in items : value[d] \in ValuesOf(d), update(items, value)
  PROVE  DaemonType'
<1>1. \A d \in Shown : Merge(xtra, items, value)[d] \in ValuesOf(d)
  BY DEF DaemonType, Merge
<1>2. \A d \in Shown : Merge(view, items, value)[d] \in ValuesOf(d)
  BY DEF DaemonType, Merge
<1>3. /\ xtra' = Merge(xtra, items, value)
      /\ view' = view \/ view' = Merge(view, items, value)
      /\ synced' = synced /\ daemon' = daemon
  BY DEF update, xtraFrame
<1>. QED
  BY <1>1, <1>2, <1>3 DEF DaemonType

LEMMA XtraDaemon ==
  ASSUME DaemonType, QueueType, xtraNotify \/ updateLockStatus
  PROVE  DaemonType'
<1>1. CASE xtraNotify
  <2>1. m.items \subseteq Items /\ \A d \in m.items : m.value[d] \in ValuesOf(d)
    BY <1>1, MType DEF xtraNotify, Handle, m, Fits
  <2>2. update(m.items, m.value)
    BY <1>1 DEF xtraNotify
  <2>. QED
    BY <2>1, <2>2, UpdateDaemon
<1>2. CASE updateLockStatus
  <2>. DEFINE f == [d \in {"lock"} |-> m.value]
  <2>1. m.value \in {{v} : v \in Locks}
    BY <1>2, MType DEF updateLockStatus, Handle, m, Fits
  <2>2. \A d \in {"lock"} : f[d] \in ValuesOf(d)
    BY <2>1 DEF ValuesOf
  <2>3. update({"lock"}, f)
    BY <1>2 DEF updateLockStatus
  <2>. HIDE DEF f
  <2>. QED
    BY <2>2, <2>3, UpdateDaemon
<1>. QED
  BY <1>1, <1>2

LEMMA OtherDaemon ==
  ASSUME DaemonType,
         \/ daemonStarts \/ daemonDies \/ onStatusRequested
         \/ UNCHANGED <<xtra, daemonVars>>
  PROVE  DaemonType'
  BY UnknownIsValue, ItemsAreThings DEF DaemonType, daemonStarts, daemonDies, onStatusRequested, xtraFrame,
     daemonVars, xtraVars

----------------------------------------------------------------------------
(* The specification *)

LEMMA SSInit == Init => SSInv
<1>. SUFFICES ASSUME Init PROVE SSInv
  OBVIOUS
<1>1. QueueType
  <2>1. /\ Message("subscribe", XTRA, {"network"}, NoArg) \in Messages
        /\ Message("requestData", XTRA, {"tac"}, NoArg) \in Messages
    <3>1. {"subscribe", "requestData"} \subseteq Subscribing /\ XTRA \in Observers
          /\ {"network"} \in SUBSET Items /\ {"tac"} \in SUBSET Items
      BY DEF Subscribing, Ways, Observers, Items, XtraItems
    <3>. QED
      BY <3>1, SubscribingMessage
  <2>. QED
    BY <2>1 DEF Init, QueueType
<1>2. MapInv
  BY DEF Init, MapInv, MapType, MapsAgree, AskedInv, FrameworkFollows
<1>3. ReportInv
  <2>1. \A d \in Items : Unknown \in ValuesOf(d) /\ Unknown \in AllValues
    BY UnknownIsValue, ValuesInAll, ItemsAreThings
  <2>. QED
    BY <2>1 DEF Init, ReportInv, ReportType, CacheIsReport, LinksInv, ConnectionsFollow, Items,
           XtraItems
<1>4. DaemonType
  BY UnknownIsValue, ItemsAreThings DEF Init, DaemonType
<1>. QED
  BY <1>1, <1>2, <1>3, <1>4 DEF SSInv

LEMMA SSNext == SSInv /\ [Next]_vars => SSInv'
<1>. SUFFICES ASSUME SSInv, [Next]_vars PROVE SSInv'
  OBVIOUS
<1>. QueueType /\ MapInv /\ ReportInv /\ DaemonType
  BY DEF SSInv
<1>1. CASE notify \/ clientCall \/ frameworkComes \/ requestStatus
  <2>1. UNCHANGED reportVars /\ UNCHANGED mapVars /\ UNCHANGED <<xtra, daemonVars>>
    BY <1>1 DEF notify, clientCall, frameworkComes, requestStatus, xtraVars
  <2>. QED
    BY <1>1, <2>1, PostQueue, OtherMaps, OtherReports, OtherDaemon DEF SSInv
<1>2. CASE daemonStarts \/ daemonDies
  <2>1. UNCHANGED reportVars /\ UNCHANGED mapVars /\ queue' = queue
    BY <1>2 DEF daemonStarts, daemonDies
  <2>2. QueueType'
    BY <2>1 DEF QueueType
  <2>. QED
    BY <1>2, <2>1, <2>2, OtherMaps, OtherReports, OtherDaemon DEF SSInv
<1>3. CASE (\E way \in Ways : subscribe(way)) \/ updateSubscription
  <2>1. UNCHANGED reportVars /\ UNCHANGED <<xtra, daemonVars>>
    BY <1>3 DEF subscribe, updateSubscription, handlerFrame, xtraVars
  <2>. QED
    BY <1>3, <2>1, SubscribeQueue, SubscribeMaps, UpdateMaps, OtherReports, OtherDaemon DEF SSInv
<1>4. CASE unsubscribe \/ unsubscribeAll \/ setSubscriptionObj
  <2>1. UNCHANGED reportVars /\ UNCHANGED <<xtra, daemonVars>>
    BY <1>4 DEF unsubscribe, unsubscribeAll, setSubscriptionObj, handlerFrame, xtraVars
  <2>. QED
    BY <1>4, <2>1, TakenQueue, UnsubscribeMaps, UnsubscribeAllMaps, ObjectMaps, OtherReports,
       OtherDaemon DEF SSInv
<1>5. CASE handleNotify
  <2>1. UNCHANGED mapVars /\ UNCHANGED <<xtra, daemonVars>>
    BY <1>5 DEF handleNotify, handlerFrame, xtraVars
  <2>. QED
    BY <1>5, <2>1, NotifyQueue, NotifyReports, OtherMaps, OtherDaemon DEF SSInv
<1>6. CASE xtraNotify \/ updateLockStatus
  <2>1. UNCHANGED reportVars /\ UNCHANGED mapVars
    BY <1>6 DEF xtraNotify, updateLockStatus, update, xtraFrame
  <2>. QED
    BY <1>6, <2>1, TakenQueue, XtraDaemon, OtherMaps, OtherReports DEF SSInv
<1>7. CASE onStatusRequested
  <2>1. UNCHANGED reportVars /\ UNCHANGED mapVars
    BY <1>7 DEF onStatusRequested, xtraFrame
  <2>. QED
    BY <1>7, <2>1, TakenQueue, OtherMaps, OtherReports, OtherDaemon DEF SSInv
<1>8. CASE UNCHANGED vars
  <2>1. /\ queue' = queue /\ UNCHANGED reportVars /\ UNCHANGED mapVars
        /\ UNCHANGED <<xtra, daemonVars>>
    BY <1>8 DEF vars, xtraVars
  <2>2. QueueType'
    BY <2>1 DEF QueueType
  <2>. QED
    BY <2>1, <2>2, OtherMaps, OtherReports, OtherDaemon DEF SSInv
<1>. QED
  BY <1>1, <1>2, <1>3, <1>4, <1>5, <1>6, <1>7, <1>8 DEF Next, messageThread

LEMMA SSAlways == Spec => []SSInv
  BY SSInit, SSNext, PTL DEF Spec

\* What the invariant says of the two properties.
LEMMA SSImplies == SSInv => SubscriptionsAgree /\ ReportsAgree
<1>. SUFFICES ASSUME SSInv PROVE SubscriptionsAgree /\ ReportsAgree
  OBVIOUS
<1>1. ReportInv /\ MapInv /\ DaemonType
  BY DEF SSInv
<1>2. TypeOK
  BY <1>1 DEF TypeOK, ReportInv, ReportType, CacheIsReport, LinksInv, MapInv, MapType, AskedInv,
              DaemonType
<1>. QED
  BY <1>1, <1>2 DEF SubscriptionsAgree, ReportsAgree, ReportInv, MapInv

\* For any clients, and for items that clients alone ask for: the two maps of
\* SystemStatusOsObserver mirror each other, but for clients that called
\* updateSubscription, and once the framework gave its object it has been asked,
\* in one way or the other, for exactly the items somebody is entered for,
\* whatever was subscribed, requested, updated and unsubscribed before and after.
THEOREM MapsAlwaysAgree == Spec => []SubscriptionsAgree
  BY SSAlways, SSImplies, PTL

\* The item that is distributed is the report SystemStatus recorded, merged
\* network bits included; the connections in it are those that are up, and those
\* a first event that was a disconnection named, until they are heard of again.
THEOREM ReportsAlwaysAgree == Spec => []ReportsAgree
  BY SSAlways, SSImplies, PTL
----------------------------------------------------------------------------
(* What is on its way to the XTRA observer *)

\* A message that tells it of item d.
Carries(x, d) == x.op = "xtra" /\ d \in x.items

\* Once the messages q are handled, an observer that knows known of d knows value.
WillHear(q, d, known, value) ==
    \/ known = value /\ \A j \in DOMAIN q : ~Carries(q[j], d)
    \/ \E i \in DOMAIN q : /\ Carries(q[i], d) /\ q[i].value[d] = value
                           /\ \A j \in DOMAIN q : i < j => ~Carries(q[j], d)

SubscribeQueued(d) ==
    \E i \in DOMAIN queue : queue[i].op \in Ways /\ queue[i].who = XTRA /\ d \in queue[i].items

\* What it is to know: nothing before it is subscribed.
Due(d) == IF d \in mClientToDataItems[XTRA] THEN mDataItemCache[d] ELSE Unknown

OnlySubscribes ==
    \A i \in DOMAIN queue :
        queue[i].op \in Subscribing /\ queue[i].who = XTRA => queue[i].op \in Ways

FlightInv ==
    /\ OnlySubscribes
    /\ \A d \in XtraItems : /\ WillHear(queue, d, xtra[d], Due(d))
                            /\ d \in mClientToDataItems[XTRA] \/ SubscribeQueued(d)

SyncedInv == synced => view = xtra /\ mReqStatusReceived

ToldInv == ClientsHear /\ FlightInv /\ SyncedInv

\* The first message is handled.
LEMMA HearTail ==
  ASSUME NEW q \in Seq(Messages), q # <<>>, NEW d, NEW known, NEW value,
         WillHear(q, d, known, value)
  PROVE  WillHear(Tail(q), d, IF Carries(Head(q), d) THEN Head(q).value[d] ELSE known, value)
<1>1. /\ Len(q) \in Nat \ {0} /\ Head(q) = q[1] /\ DOMAIN q = 1 .. Len(q)
      /\ DOMAIN Tail(q) = 1 .. Len(q) - 1 /\ \A j \in 1 .. Len(q) - 1 : Tail(q)[j] = q[j + 1]
  OBVIOUS
<1>2. \A j \in DOMAIN Tail(q) : /\ j + 1 \in DOMAIN q /\ Tail(q)[j] = q[j + 1] /\ 1 < j + 1
                                /\ j \in Nat
  BY <1>1
<1>3. CASE known = value /\ \A j \in DOMAIN q : ~Carries(q[j], d)
  <2>1. ~Carries(Head(q), d) /\ \A j \in DOMAIN Tail(q) : ~Carries(Tail(q)[j], d)
    BY <1>1, <1>2, <1>3
  <2>. QED
    BY <1>3, <2>1 DEF WillHear
<1>4. ASSUME NEW i \in DOMAIN q, Carries(q[i], d), q[i].value[d] = value,
             \A j \in DOMAIN q : i < j => ~Carries(q[j], d)
      PROVE  WillHear(Tail(q), d, IF Carries(Head(q), d) THEN Head(q).value[d] ELSE known, value)
  <2>1. CASE i = 1
    <3>1. \A j \in DOMAIN Tail(q) : ~Carries(Tail(q)[j], d)
      BY <1>2, <1>4, <2>1
    <3>2. Carries(Head(q), d) /\ Head(q).value[d] = value
      BY <1>1, <1>4, <2>1
    <3>. QED
      BY <3>1, <3>2 DEF WillHear
  <2>2. CASE i # 1
    <3>1. i - 1 \in DOMAIN Tail(q) /\ Tail(q)[i - 1] = q[i]
      BY <1>1, <2>2
    <3>2. \A j \in DOMAIN Tail(q) : i - 1 < j => ~Carries(Tail(q)[j], d)
      <4>1. \A j \in DOMAIN Tail(q) : i - 1 < j => i < j + 1
        BY <1>1, <1>2
      <4>. QED
        BY <1>2, <1>4, <4>1
    <3>. QED
      BY <1>4, <3>1, <3>2 DEF WillHear
  <2>. QED
    BY <2>1, <2>2
<1>. QED
  BY <1>3, <1>4 DEF WillHear

\* A message is put behind the others.
LEMMA HearAppend ==
  ASSUME NEW q \in Seq(Messages), NEW x \in Messages, NEW d, NEW known, NEW old, NEW value,
         WillHear(q, d, known, old), IF Carries(x, d) THEN x.value[d] = value ELSE value = old
  PROVE  WillHear(Append(q, x), d, known, value)
<1>1. /\ Len(q) \in Nat /\ DOMAIN q = 1 .. Len(q)
      /\ DOMAIN Append(q, x) = 1 .. Len(q) + 1 /\ Append(q, x)[Len(q) + 1] = x
      /\ \A j \in 1 .. Len(q) : Append(q, x)[j] = q[j]
  OBVIOUS
<1>2. /\ \A j \in DOMAIN Append(q, x) : \/ j \in DOMAIN q /\ Append(q, x)[j] = q[j]
                                        \/ j = Len(q) + 1 /\ Append(q, x)[j] = x
      /\ \A j \in DOMAIN q : j \in DOMAIN Append(q, x) /\ Append(q, x)[j] = q[j]
      /\ Len(q) + 1 \in DOMAIN Append(q, x)
      /\ \A j \in DOMAIN Append(q, x) : ~(Len(q) + 1 < j)
  BY <1>1
<1>3. CASE Carries(x, d)
  BY <1>1, <1>2, <1>3 DEF WillHear
<1>4. CASE ~Carries(x, d)
  BY <1>1, <1>2, <1>4 DEF WillHear
<1>. QED
  BY <1>3, <1>4

\* The subscription of d is handled, or it is still queued.
LEMMA SubscribeWaits ==
  ASSUME QueueType, queue # <<>>, NEW x, queue' = Tail(queue) \/ queue' = Append(Tail(queue), x),
         NEW d, SubscribeQueued(d)
  PROVE  SubscribeQueued(d)' \/ (m.op \in Ways /\ m.who = XTRA /\ d \in m.items)
<1>1. /\ Len(queue) \in Nat \ {0} /\ Head(queue) = queue[1] /\ DOMAIN queue = 1 .. Len(queue)
      /\ \A i \in 1 .. Len(queue) - 1 : i \in DOMAIN queue' /\ queue'[i] = queue[i + 1]
  BY DEF QueueType
<1>2. PICK i \in DOMAIN queue :
        queue[i].op \in Ways /\ queue[i].who = XTRA /\ d \in queue[i].items
  BY DEF SubscribeQueued
<1>3. CASE i = 1
  BY <1>1, <1>2, <1>3 DEF m
<1>4. CASE i # 1
  <2>1. i - 1 \in DOMAIN queue' /\ queue'[i - 1] = queue[i]
    BY <1>1, <1>4
  <2>. QED
    BY <1>2, <2>1 DEF SubscribeQueued
<1>. QED
  BY <1>3, <1>4

\* Only its subscriptions are added for the XTRA observer.
LEMMA SubscribesKept ==
  ASSUME QueueType, OnlySubscribes, NEW q \in {queue, Tail(queue)}, NEW x \in Messages,
         q # queue => queue # <<>>,
         queue' = q \/ queue' = Append(q, x),
         x.op \in Subscribing /\ x.who = XTRA => x.op \in Ways
  PROVE  OnlySubscribes'
<1>1. q \in Seq(Messages)
  BY DEF QueueType
<1>2. \A j \in DOMAIN q : \E i \in DOMAIN queue : q[j] = queue[i]
  <2>1. CASE q = queue
    BY <2>1
  <2>2. CASE q = Tail(queue) /\ queue # <<>>
    <3>1. \A j \in DOMAIN q : j + 1 \in DOMAIN queue /\ q[j] = queue[j + 1]
      BY <2>2 DEF QueueType
    <3>. QED
      BY <3>1
  <2>. QED
    BY <2>1, <2>2
<1>3. \A j \in DOMAIN queue' : (j \in DOMAIN q /\ queue'[j] = q[j]) \/ queue'[j] = x
  BY <1>1
<1>. QED
  BY <1>2, <1>3 DEF OnlySubscribes

\* A call posts a message that is not for the XTRA observer.
LEMMA PostTold ==
  ASSUME SSInv, ToldInv, NEW x \in Messages, Post(x), x.op # "xtra",
         x.op \in Subscribing => x.who # XTRA,
         UNCHANGED <<mDataItemCache, mClientToDataItems, heard, updaters, xtra, view, synced,
                     mReqStatusReceived>>
  PROVE  ToldInv'
<1>1. queue \in Seq(Messages) /\ queue' = Append(queue, x)
  BY DEF SSInv, QueueType, Post
<1>2. OnlySubscribes'
  BY <1>1, SubscribesKept DEF SSInv, QueueType, ToldInv, FlightInv
<1>3. ASSUME NEW d \in XtraItems
      PROVE  /\ WillHear(queue', d, xtra'[d], Due(d)')
             /\ d \in mClientToDataItems'[XTRA] \/ SubscribeQueued(d)'
  <2>1. Due(d)' = Due(d) /\ ~Carries(x, d)
    BY DEF Due, Carries
  <2>2. WillHear(queue', d, xtra[d], Due(d))
    BY <1>1, <2>1, HearAppend DEF ToldInv, FlightInv
  <2>3. \A i \in DOMAIN queue : i \in DOMAIN queue' /\ queue'[i] = queue[i]
    BY <1>1
  <2>. QED
    BY <2>1, <2>2, <2>3 DEF ToldInv, FlightInv, SubscribeQueued
<1>4. ClientsHear' /\ SyncedInv'
  BY DEF ToldInv, ClientsHear, SyncedInv
<1>. QED
  BY <1>2, <1>3, <1>4 DEF ToldInv, FlightInv, WillHear, Carries

LEMMA CallsTold ==
  ASSUME SSInv, ToldInv, notify \/ clientCall \/ frameworkComes \/ requestStatus
  PROVE  ToldInv'
<1>1. UNCHANGED <<mDataItemCache, mClientToDataItems, heard, updaters, xtra, view, synced,
                  mReqStatusReceived>>
  BY DEF notify, clientCall, frameworkComes, requestStatus, reportVars, mapVars, xtraVars, daemonVars
<1>2. PICK x : /\ Post(x) /\ x.op # "xtra" /\ (x.op \in Subscribing => x.who # XTRA)
               /\ x \in Messages
  <2>1. CASE notify
    <3>1. ASSUME NEW bits \in {{}} \cup {{t} : t \in Types}, NEW up \in BOOLEAN
          PROVE  Message("notify", up, {"network"}, bits) \in Messages
      BY NotifyMessage DEF Reported, Items, XtraItems
    <3>2. ASSUME NEW v \in Tacs PROVE Message("notify", FALSE, {"tac"}, {v}) \in Messages
      BY NotifyMessage DEF Reported, Items, XtraItems
    <3>3. ASSUME NEW v \in Screens PROVE Message("notify", FALSE, {"screen"}, {v}) \in Messages
      BY NotifyMessage DEF Reported, Items
    <3>4. ASSUME NEW v \in Locks PROVE Message("lock", FALSE, {"lock"}, {v}) \in Messages
      BY LockMessage
    <3>. QED
      BY <2>1, <3>1, <3>2, <3>3, <3>4 DEF notify, Message, Subscribing, Ways
  <2>2. CASE clientCall
    <3>1. ASSUME NEW c \in Clients, NEW s \in SUBSET Items,
                 NEW op \in Subscribing
          PROVE  Message(op, c, s, NoArg) \in Messages
      BY SubscribingMessage DEF Observers
    <3>2. ASSUME NEW c \in Clients, NEW s \in SUBSET Items,
                 NEW op \in Subscribing,
                 Post(Message(op, c, s, NoArg))
          PROVE  \E x : /\ Post(x) /\ x.op # "xtra" /\ (x.op \in Subscribing => x.who # XTRA)
                        /\ x \in Messages
      <4>1. op # "xtra"
        BY DEF Subscribing, Ways
      <4>. QED
        BY <3>1, <3>2, <4>1, ClientsAssumption DEF Message
    <3>. QED
      BY <2>2, <3>2 DEF clientCall, Subscribing
  <2>3. CASE frameworkComes
    BY <2>3, PlainMessage DEF frameworkComes, Message, Subscribing, Ways
  <2>4. CASE requestStatus
    BY <2>4, PlainMessage DEF requestStatus, Message, Subscribing, Ways
  <2>. QED
    BY <2>1, <2>2, <2>3, <2>4
<1>. QED
  BY <1>1, <1>2, PostTold

\* A handler that posts nothing.  The value the XTRA observer is to know of an
\* item does not change, and it learns what its message carries.
LEMMA TakeFlight ==
  ASSUME SSInv, FlightInv, queue # <<>>, queue' = Tail(queue),
         m.op \notin Ways \/ m.who # XTRA,
         mClientToDataItems'[XTRA] = mClientToDataItems[XTRA], mDataItemCache' = mDataItemCache,
         \A d \in XtraItems : xtra'[d] = IF Carries(m, d) THEN m.value[d] ELSE xtra[d]
  PROVE  FlightInv'
<1>1. queue \in Seq(Messages) /\ QueueType
  BY DEF SSInv, QueueType
<1>2. OnlySubscribes'
  BY <1>1, MType, SubscribesKept DEF FlightInv, OnlySubscribes
<1>3. ASSUME NEW d \in XtraItems
      PROVE  /\ WillHear(queue', d, xtra'[d], Due(d)')
             /\ d \in mClientToDataItems'[XTRA] \/ SubscribeQueued(d)'
  <2>1. Due(d)' = Due(d)
    BY DEF Due
  <2>2. WillHear(Tail(queue), d, IF Carries(Head(queue), d) THEN Head(queue).value[d] ELSE xtra[d],
                 Due(d))
    BY <1>1, HearTail DEF FlightInv
  <2>3. d \in mClientToDataItems[XTRA] \/ SubscribeQueued(d)'
    BY <1>1, SubscribeWaits DEF FlightInv
  <2>. QED
    BY <2>1, <2>2, <2>3 DEF m
<1>. QED
  BY <1>2, <1>3 DEF FlightInv, WillHear, Carries

\* A handler that notifies observers posts what the XTRA observer is to know.
LEMMA SendFlight ==
  ASSUME SSInv, FlightInv, queue # <<>>, m.op # "xtra", NEW who \in [Observers -> SUBSET Items],
         send(mDataItemCache', who), mDataItemCache' \in [Items -> AllValues],
         \A d \in Items : mDataItemCache'[d] \in ValuesOf(d),
         xtra' = xtra, mClientToDataItems[XTRA] \subseteq mClientToDataItems'[XTRA],
         m.op \in Ways /\ m.who = XTRA => m.items \subseteq mClientToDataItems'[XTRA],
         who[XTRA] \subseteq mClientToDataItems'[XTRA],
         \A d \in Items \ who[XTRA] : Due(d)' = Due(d),
         \A d \in who[XTRA] : mDataItemCache'[d] = Unknown => Due(d) = Unknown
  PROVE  FlightInv'
<1>. DEFINE W == {d \in who[XTRA] : mDataItemCache'[d] # Unknown}
            x == Message("xtra", XTRA, W, [d \in W |-> mDataItemCache'[d]])
<1>1. W \subseteq Items /\ who[XTRA] \subseteq Items
  BY DEF Observers
<1>2. x \in Messages /\ \A d : Carries(x, d) <=> d \in W
  BY <1>1, XtraMessage DEF Message, Carries
<1>3. \A d \in W : x.value[d] = mDataItemCache'[d]
  BY DEF Message
<1>4. queue' = Tail(queue) \o (IF W = {} THEN <<>> ELSE <<x>>)
  BY DEF send
<1>5. \A d \in W : d \in who[XTRA] /\ mDataItemCache'[d] # Unknown
  OBVIOUS
<1>6. \A d \in who[XTRA] \ W : mDataItemCache'[d] = Unknown
  OBVIOUS
<1>7. x.op \notin Subscribing
  BY DEF Message, Subscribing, Ways
<1>. HIDE DEF W, x
<1>8. queue \in Seq(Messages) /\ QueueType /\ Tail(queue) \in Seq(Messages)
  BY MType DEF SSInv, QueueType
<1>9. /\ W = {} => queue' = Tail(queue)
      /\ W # {} => queue' = Append(Tail(queue), x)
  BY <1>4, <1>8
<1>10. OnlySubscribes'
  BY <1>2, <1>7, <1>8, <1>9, SubscribesKept DEF FlightInv
<1>11. ASSUME NEW d \in XtraItems
       PROVE  /\ WillHear(queue', d, xtra'[d], Due(d)')
              /\ d \in mClientToDataItems'[XTRA] \/ SubscribeQueued(d)'
  <2>1. WillHear(Tail(queue), d, xtra[d], Due(d))
    <3>1. ~Carries(Head(queue), d)
      BY DEF Carries, m
    <3>. QED
      BY <1>8, <3>1, HearTail DEF FlightInv
  <2>2. d \in W => Due(d)' = mDataItemCache'[d]
    BY <1>5 DEF Due
  <2>3. d \notin W => Due(d)' = Due(d)
    BY <1>6, ItemsAreThings DEF Due
  <2>4. WillHear(queue', d, xtra[d], Due(d)')
    <3>1. CASE W = {}
      BY <1>9, <2>1, <2>3, <3>1
    <3>2. CASE W # {}
      <4>1. IF Carries(x, d) THEN x.value[d] = Due(d)' ELSE Due(d)' = Due(d)
        BY <1>2, <1>3, <2>2, <2>3
      <4>2. WillHear(Append(Tail(queue), x), d, xtra[d], Due(d)')
        BY <1>2, <1>8, <2>1, <4>1, HearAppend
      <4>. QED
        BY <1>9, <3>2, <4>2
    <3>. QED
      BY <3>1, <3>2
  <2>5. d \in mClientToDataItems'[XTRA] \/ SubscribeQueued(d)'
    BY <1>8, <1>9, SubscribeWaits DEF FlightInv
  <2>. QED
    BY <2>4, <2>5
<1>. QED
  BY <1>10, <1>11 DEF FlightInv, WillHear, Carries

\* Clients hear what is sent to them, and had heard the rest.
LEMMA SendHear ==
  ASSUME ClientsHear, NEW who, send(mDataItemCache', who), updaters \subseteq updaters',
         \A c \in Clients \ updaters', d \in Items :
           d \in mClientToDataItems'[c] =>
             \/ d \in who[c]
             \/ d \in mClientToDataItems[c] /\ mDataItemCache'[d] = mDataItemCache[d]
  PROVE  ClientsHear'
<1>. SUFFICES ASSUME NEW c \in Clients \ updaters', NEW d \in Items,
                     d \in mClientToDataItems'[c], mDataItemCache'[d] # Unknown
              PROVE  heard'[c][d] = mDataItemCache'[d]
  BY DEF ClientsHear
<1>1. heard'[c][d] = IF d \in who[c] /\ mDataItemCache'[d] # Unknown THEN mDataItemCache'[d]
                     ELSE heard[c][d]
  BY DEF send
<1>. QED
  BY <1>1 DEF ClientsHear

LEMMA SubscribeTold ==
  ASSUME SSInv, ToldInv, (\E way \in Ways : subscribe(way)) \/ updateSubscription
  PROVE  ToldInv'
<1>1. /\ queue # <<>> /\ QueueType /\ m.op # "xtra"
      /\ UNCHANGED <<mDataItemCache, xtra, view, synced, mReqStatusReceived>>
      /\ mDataItemCache' \in [Items -> AllValues]
      /\ \A d \in Items : mDataItemCache'[d] \in ValuesOf(d)
  BY DEF Ways, subscribe, updateSubscription, Handle, m, handlerFrame, xtraVars, daemonVars,
         reportVars, SSInv, ReportInv, ReportType, CacheIsReport
<1>2. SyncedInv'
  BY <1>1 DEF ToldInv, SyncedInv
<1>3. mClientToDataItems \in [Observers -> SUBSET Items]
  BY DEF SSInv, MapInv, MapType
<1>4. ASSUME NEW way \in Ways, subscribe(way)
      PROVE  ToldInv'
  <2>1. m.who \in Observers /\ m.items \in SUBSET Items
    BY <1>1, <1>4, MType DEF subscribe, Handle, m, Fits, Subscribing
  <2>2. /\ \A c \in Observers : mClientToDataItems'[c] =
             IF c = m.who THEN mClientToDataItems[c] \cup m.items ELSE mClientToDataItems[c]
        /\ send(mDataItemCache', Only(m.who, m.items)) /\ updaters' = updaters
    BY <1>1, <1>3, <1>4 DEF subscribe, add
  <2>3. /\ Only(m.who, m.items) \in [Observers -> SUBSET Items]
        /\ \A c \in Observers : Only(m.who, m.items)[c] = IF c = m.who THEN m.items ELSE {}
    BY <2>1, OnlyType DEF Only
  <2>. HIDE DEF m
  <2>4. ClientsHear'
    <3>1. ASSUME NEW c \in Clients \ updaters', NEW d \in Items, d \in mClientToDataItems'[c]
          PROVE  \/ d \in Only(m.who, m.items)[c]
                 \/ d \in mClientToDataItems[c] /\ mDataItemCache'[d] = mDataItemCache[d]
      BY <1>1, <2>2, <2>3, <3>1 DEF Observers
    <3>. QED
      BY <2>2, <3>1, SendHear DEF ToldInv
  <2>5. /\ mClientToDataItems[XTRA] \subseteq mClientToDataItems'[XTRA]
        /\ m.who = XTRA => m.items \subseteq mClientToDataItems'[XTRA]
        /\ Only(m.who, m.items)[XTRA] \subseteq mClientToDataItems'[XTRA]
        /\ \A d \in Items \ Only(m.who, m.items)[XTRA] : Due(d)' = Due(d)
        /\ \A d \in Only(m.who, m.items)[XTRA] : mDataItemCache'[d] = Unknown => Due(d) = Unknown
    BY <1>1, <2>2, <2>3 DEF Due, Observers
  <2>6. FlightInv'
    <3>1. PICK who : who = Only(m.who, m.items)
      OBVIOUS
    <3>2. who \in [Observers -> SUBSET Items] /\ send(mDataItemCache', who)
      BY <2>2, <2>3, <3>1
    <3>. QED
      BY <1>1, <2>5, <3>1, <3>2, SendFlight DEF ToldInv
  <2>. QED
    BY <1>2, <2>4, <2>6 DEF ToldInv
<1>5. CASE updateSubscription
  <2>1. m.who \in Clients /\ m.who # XTRA /\ m.items \in SUBSET Items /\ m.op \notin Ways
    BY <1>1, <1>5, MType, ClientsAssumption DEF updateSubscription, Handle, m, Fits, Subscribing, Ways
  <2>. DEFINE fresh == m.items \ mClientToDataItems[m.who]
  <2>2. /\ \A c \in Observers : c # m.who => mClientToDataItems'[c] = mClientToDataItems[c]
        /\ send(mDataItemCache', Only(m.who, fresh)) /\ updaters' = updaters \cup {m.who}
    BY <1>1, <1>3, <1>5 DEF updateSubscription
  <2>3. /\ Only(m.who, fresh) \in [Observers -> SUBSET Items]
        /\ \A c \in Observers : Only(m.who, fresh)[c] = IF c = m.who THEN fresh ELSE {}
    BY <2>1, OnlyType DEF Only
  <2>. HIDE DEF m, fresh
  <2>4. ClientsHear'
    BY <1>1, <2>2, <2>3, SendHear DEF ToldInv, Observers
  <2>5. Only(m.who, fresh)[XTRA] = {} /\ mClientToDataItems'[XTRA] = mClientToDataItems[XTRA]
    BY <2>1, <2>2, <2>3 DEF Observers
  <2>6. \A d \in Items : Due(d)' = Due(d)
    BY <1>1, <2>5 DEF Due
  <2>7. FlightInv'
    BY <1>1, <2>1, <2>2, <2>3, <2>5, <2>6, SendFlight DEF ToldInv
  <2>. QED
    BY <1>2, <2>4, <2>7 DEF ToldInv
<1>. QED
  BY <1>4, <1>5

LEMMA NotifyTold ==
  ASSUME SSInv, SSInv', ToldInv, handleNotify
  PROVE  ToldInv'
<1>1. PICK d \in Items : m.who \in BOOLEAN /\ HandleOne(d) /\ Reported(d, m.value)
  BY NotifyOne DEF SSInv
<1>2. recorded(d, m.value, m.who) # Unknown
  BY <1>1, RecordedType DEF SSInv, ReportInv
<1>. DEFINE value == recorded(d, m.value, m.who)
            changed == mCache[d] # value /\ mDataItemCache[d] # value
            who == [o \in Observers |-> IF changed /\ o \in mDataItemToClients[d]
                                        THEN mClientToDataItems[o] \cap {d} ELSE {}]
<1>3. /\ send(mDataItemCache', who)
      /\ mDataItemCache' = IF changed THEN [mDataItemCache EXCEPT ![d] = value] ELSE mDataItemCache
  BY <1>1 DEF HandleOne
<1>4. /\ queue # <<>> /\ m.op = "notify"
      /\ UNCHANGED <<mClientToDataItems, updaters, xtra, view, synced, mReqStatusReceived>>
  BY DEF handleNotify, Handle, m, handlerFrame, xtraVars, daemonVars, mapVars
<1>5. /\ mDataItemCache' \in [Items -> AllValues] /\ mDataItemCache \in [Items -> AllValues]
      /\ \A e \in Items : mDataItemCache'[e] \in ValuesOf(e)
  BY DEF SSInv, ReportInv, ReportType, CacheIsReport
<1>6. /\ mClientToDataItems \in [Observers -> SUBSET Items] /\ updaters \subseteq Clients
      /\ \A c \in Observers \ updaters : d \in mClientToDataItems[c] <=> c \in mDataItemToClients[d]
  BY DEF SSInv, MapInv, MapType, MapsAgree
<1>7. /\ who \in [Observers -> SUBSET Items]
      /\ \A c \in Observers \ updaters :
           who[c] = IF changed /\ d \in mClientToDataItems[c] THEN {d} ELSE {}
  BY <1>6
<1>8. /\ \A e \in Items : e # d => mDataItemCache'[e] = mDataItemCache[e]
      /\ changed => mDataItemCache'[d] # Unknown
      /\ ~changed => mDataItemCache' = mDataItemCache
  <2>. HIDE DEF changed
  <2>. QED
    BY <1>2, <1>3, <1>5
<1>. HIDE DEF value, changed, who, m
<1>9. ClientsHear'
  <2>1. ASSUME NEW c \in Clients \ updaters', NEW e \in Items, e \in mClientToDataItems'[c]
        PROVE  \/ e \in who[c]
               \/ e \in mClientToDataItems[c] /\ mDataItemCache'[e] = mDataItemCache[e]
    BY <1>4, <1>7, <1>8, <2>1 DEF Observers
  <2>. QED
    BY <1>3, <1>4, <2>1, SendHear DEF ToldInv
<1>10. FlightInv'
  <2>1. XTRA \in Observers \ updaters
    BY <1>6, ClientsAssumption DEF Observers
  <2>2. /\ who[XTRA] \subseteq mClientToDataItems'[XTRA]
        /\ \A e \in Items \ who[XTRA] : Due(e)' = Due(e)
        /\ \A e \in who[XTRA] : mDataItemCache'[e] # Unknown
    BY <1>4, <1>7, <1>8, <2>1 DEF Due
  <2>. QED
    BY <1>3, <1>4, <1>5, <1>7, <2>2, SendFlight DEF ToldInv, Ways
<1>. QED
  BY <1>4, <1>9, <1>10 DEF ToldInv, SyncedInv

\* The other handlers of the maps concern clients.
LEMMA DropTold ==
  ASSUME SSInv, ToldInv, unsubscribe \/ unsubscribeAll \/ setSubscriptionObj
  PROVE  ToldInv'
<1>1. /\ queue # <<>> /\ queue' = Tail(queue) /\ QueueType
      /\ m.op \in {"unsubscribe", "unsubscribeAll", "setSubscriptionObj"}
      /\ UNCHANGED <<mDataItemCache, heard, updaters, xtra, view, synced, mReqStatusReceived>>
  BY DEF unsubscribe, unsubscribeAll, setSubscriptionObj, Handle, m, handlerFrame, xtraVars,
         daemonVars, reportVars, SSInv
<1>2. m.op # "setSubscriptionObj" => m.who # XTRA
  <2>1. 1 \in DOMAIN queue /\ m = queue[1]
    BY <1>1 DEF QueueType, m
  <2>. HIDE DEF m
  <2>. QED
    BY <1>1, <2>1 DEF ToldInv, FlightInv, OnlySubscribes, Subscribing, Ways
<1>3. mClientToDataItems \in [Observers -> SUBSET Items]
  BY DEF SSInv, MapInv, MapType
<1>4. /\ \A c \in Observers : mClientToDataItems'[c] \subseteq mClientToDataItems[c]
      /\ mClientToDataItems'[XTRA] = mClientToDataItems[XTRA]
  <2>1. CASE m.op = "unsubscribe"
    <3>1. unsubscribe
      BY <2>1 DEF unsubscribeAll, setSubscriptionObj, Handle, m
    <3>. QED
      BY <1>2, <1>3, <2>1, <3>1 DEF unsubscribe, trimOrRemove, Observers
  <2>2. CASE m.op = "unsubscribeAll"
    <3>1. unsubscribeAll
      BY <2>2 DEF unsubscribe, setSubscriptionObj, Handle, m
    <3>. QED
      BY <1>2, <1>3, <2>2, <3>1 DEF unsubscribeAll, Observers
  <2>3. CASE m.op = "setSubscriptionObj"
    BY <2>3 DEF unsubscribe, unsubscribeAll, setSubscriptionObj, Handle, m
  <2>. QED
    BY <1>1, <2>1, <2>2, <2>3
<1>5. ClientsHear' /\ SyncedInv'
  BY <1>1, <1>4 DEF ToldInv, ClientsHear, SyncedInv, Observers
<1>6. FlightInv'
  BY <1>1, <1>4, TakeFlight DEF ToldInv, Ways, Carries
<1>. QED
  BY <1>5, <1>6 DEF ToldInv

LEMMA XtraTold ==
  ASSUME SSInv, ToldInv, xtraNotify \/ updateLockStatus \/ onStatusRequested
  PROVE  ToldInv'
<1>1. /\ queue # <<>> /\ queue' = Tail(queue) /\ QueueType
      /\ m.op \in {"xtra", "lock", "status"}
      /\ UNCHANGED <<mDataItemCache, mClientToDataItems, heard, updaters>>
  BY DEF xtraNotify, updateLockStatus, onStatusRequested, update, xtraFrame, Handle, m,
         reportVars, mapVars, SSInv
<1>2. \A d \in XtraItems : xtra'[d] = IF Carries(m, d) THEN m.value[d] ELSE xtra[d]
  <2>1. CASE xtraNotify
    BY <2>1 DEF xtraNotify, update, Merge, Handle, m, Carries, Shown
  <2>2. CASE updateLockStatus
    BY <2>2 DEF updateLockStatus, update, Merge, Handle, m, Carries, Shown, XtraItems
  <2>3. CASE onStatusRequested
    BY <2>3 DEF onStatusRequested, Handle, m, Carries
  <2>. QED
    BY <2>1, <2>2, <2>3
<1>3. FlightInv'
  BY <1>1, <1>2, TakeFlight DEF ToldInv, Ways
<1>4. SyncedInv'
  <2>1. synced => daemon
    BY DEF SSInv, DaemonType
  <2>2. ASSUME NEW items, NEW value, update(items, value) PROVE SyncedInv'
    BY <2>1, <2>2 DEF update, ToldInv, SyncedInv
  <2>3. CASE onStatusRequested
    BY <2>3 DEF onStatusRequested, ToldInv, SyncedInv
  <2>. QED
    BY <2>2, <2>3 DEF xtraNotify, updateLockStatus
<1>5. ClientsHear'
  BY <1>1 DEF ToldInv, ClientsHear
<1>. QED
  BY <1>3, <1>4, <1>5 DEF ToldInv

\* Nothing is handled; the daemon may start, or die and forget.
LEMMA DaemonTold ==
  ASSUME ToldInv, daemonStarts \/ daemonDies \/ UNCHANGED vars
  PROVE  ToldInv'
<1>1. UNCHANGED <<queue, mDataItemCache, mClientToDataItems, heard, updaters, xtra>>
  BY DEF daemonStarts, daemonDies, vars, reportVars, mapVars, xtraVars
<1>2. SyncedInv'
  BY DEF daemonStarts, daemonDies, vars, xtraVars, daemonVars, ToldInv, SyncedInv
<1>3. ClientsHear'
  BY <1>1 DEF ToldInv, ClientsHear
<1>4. OnlySubscribes' /\ \A d \in XtraItems : SubscribeQueued(d)' <=> SubscribeQueued(d)
  BY <1>1 DEF ToldInv, FlightInv, OnlySubscribes, SubscribeQueued
<1>5. \A d \in XtraItems : WillHear(queue', d, xtra'[d], Due(d)')
  BY <1>1 DEF ToldInv, FlightInv, Due
<1>6. FlightInv'
  BY <1>1, <1>4, <1>5 DEF ToldInv, FlightInv, WillHear, Carries
<1>. QED
  BY <1>2, <1>3, <1>6 DEF ToldInv

LEMMA ToldInit == Init => ToldInv
<1>. SUFFICES ASSUME Init PROVE ToldInv
  OBVIOUS
<1>1. /\ DOMAIN queue = {1, 2}
      /\ queue[1] = Message("subscribe", XTRA, {"network"}, NoArg)
      /\ queue[2] = Message("requestData", XTRA, {"tac"}, NoArg)
  BY DEF Init
<1>2. OnlySubscribes /\ \A d \in XtraItems : SubscribeQueued(d)
  BY <1>1 DEF OnlySubscribes, SubscribeQueued, Message, Ways, XtraItems
<1>3. \A d \in XtraItems : WillHear(queue, d, xtra[d], Due(d))
  <2>1. \A d \in XtraItems : xtra[d] = Unknown /\ Due(d) = Unknown
    BY ItemsAreThings DEF Init, Due, Shown
  <2>2. \A d \in XtraItems, j \in DOMAIN queue : ~Carries(queue[j], d)
    BY <1>1 DEF Carries, Message
  <2>. QED
    BY <2>1, <2>2 DEF WillHear
<1>4. ClientsHear /\ SyncedInv
  BY DEF Init, ClientsHear, SyncedInv
<1>. QED
  BY <1>2, <1>3, <1>4 DEF ToldInv, FlightInv

LEMMA ToldNext == SSInv /\ SSInv' /\ ToldInv /\ [Next]_vars => ToldInv'
<1>. SUFFICES ASSUME SSInv, SSInv', ToldInv, [Next]_vars PROVE ToldInv'
  OBVIOUS
<1>. QED
  BY CallsTold, DaemonTold, SubscribeTold, DropTold, NotifyTold, XtraTold DEF Next, messageThread

\* Whoever subscribed knows the value an item has, whether it came before or
\* after the subscription, and once the queue is empty so does the observer for
\* XTRA; a daemon that was answered knows what the observer knows.
THEOREM EveryoneAlwaysTold == Spec => []EverybodyTold
<1>1. ToldInv => EverybodyTold
  <2>. SUFFICES ASSUME ToldInv PROVE EverybodyTold
    OBVIOUS
  <2>1. ASSUME Quiet, NEW d \in XtraItems PROVE xtra[d] = mDataItemCache[d]
    <3>1. DOMAIN queue = {}
      BY <2>1 DEF Quiet
    <3>2. d \in mClientToDataItems[XTRA] /\ WillHear(queue, d, xtra[d], Due(d))
      BY <3>1 DEF ToldInv, FlightInv, SubscribeQueued
    <3>. QED
      BY <3>1, <3>2 DEF WillHear, Due
  <2>. QED
    BY <2>1 DEF ToldInv, SyncedInv, EverybodyTold, DaemonUpToDate
<1>. QED
  BY <1>1, SSAlways, ToldInit, ToldNext, PTL DEF Spec

=============================================================================
