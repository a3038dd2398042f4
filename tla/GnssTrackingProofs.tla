------------------------- MODULE GnssTrackingProofs -------------------------
(***************************************************************************)
(* Theorems about GnssTracking, for any number of clients, sessions and    *)
(* intervals, any bounds, and any failures of the modem.                   *)
(***************************************************************************)
EXTENDS GnssTracking, TLAPS, WellFoundedInduction, SequenceTheorems

(* The id of a start command that waits is used by nothing else yet: ids   *)
(* of sessions are given out, and no two commands or sessions share one.   *)
StartIsFresh ==
  /\ Tracked \subseteq Used
  /\ \A i \in DOMAIN queue : queue[i].op = "start" => queue[i].id \in Used \ Tracked
  /\ \A i, j \in DOMAIN queue :
       queue[i].op = "start" /\ queue[j].op = "start" /\ queue[i].id = queue[j].id => i = j

UpWithoutRestart == restarts = 0 => up

TrackInv ==
  /\ TypeOK
  /\ StartIsFresh
  /\ RunningIsSmallest
  /\ UpWithoutRestart
  /\ ServedWithoutRestart
  /\ OdcpiTimerWillFire

-----------------------------------------------------------------------------
(* The smallest interval.                                                  *)

(* Every non-empty set of naturals has a least element, which is what the  *)
(* loops over the sessions look for.                                       *)
LEMMA LeastNatural ==
  ASSUME NEW T, T \subseteq Nat, T # {}
  PROVE  \E x \in T : \A y \in T : x <= y
<1>1. PICK x \in T : \A y \in T : ~ (<<y, x>> \in OpToRel(<, Nat))
  BY NatLessThanWellFounded, WFMin
<1>2. \A y \in T : x <= y
  <2>1. TAKE y \in T
  <2>2. x \in Nat /\ y \in Nat
    OBVIOUS
  <2>3. ~ (y < x)
    BY <1>1, <2>2 DEF OpToRel
  <2>4. QED
    BY <2>2, <2>3
<1>3. QED
  BY <1>2

LEMMA OptionsAreNatural == Options \subseteq Nat
BY IntervalsAssumption DEF Options

(* smallestOf is the interval of one of the sessions and at most that of   *)
(* every other.                                                            *)
LEMMA SmallestOf ==
  ASSUME NEW f \in [Ids -> Options], NEW ids, ids \subseteq Ids, ids # {}
  PROVE  /\ \E id \in ids : smallestOf(f, ids) = f[id]
         /\ \A id \in ids : smallestOf(f, ids) <= f[id]
<1> DEFINE T == {f[id] : id \in ids}
<1>1. T \subseteq Options
  OBVIOUS
<1>2. T # {}
  OBVIOUS
<1>3. PICK x \in T : \A y \in T : x <= y
  <2> HIDE DEF T
  <2> QED
    BY <1>1, <1>2, LeastNatural, OptionsAreNatural
<1>4. \A id \in ids : x <= f[id]
  BY <1>3
<1>5. QED
  BY <1>4 DEF smallestOf

(* It is the only such value.                                              *)
LEMMA SmallestIs ==
  ASSUME NEW f \in [Ids -> Options], NEW ids, ids \subseteq Ids, NEW k \in ids,
         \A id \in ids : f[k] <= f[id]
  PROVE  smallestOf(f, ids) = f[k]
<1>1. PICK m \in ids : smallestOf(f, ids) = f[m]
  BY SmallestOf
<1>2. f[m] <= f[k]
  BY <1>1, SmallestOf
<1>3. f[m] \in Nat /\ f[k] \in Nat
  BY OptionsAreNatural
<1>4. QED
  BY <1>1, <1>2, <1>3

SessionsOf(f) == {id \in Ids : f[id] # 0}

(* startTrackingMultiplex: what the smallest interval is once the new      *)
(* session is saved.                                                       *)
LEMMA SmallestAfterStart ==
  ASSUME NEW f \in [Ids -> Options], NEW id \in Ids, f[id] = 0, NEW o \in Intervals,
         NEW g \in [Ids -> Options], g[id] = o, \A x \in Ids \ {id} : g[x] = f[x]
  PROVE  /\ SessionsOf(g) = SessionsOf(f) \cup {id}
         /\ SessionsOf(f) = {} \/ o < smallestOf(f, SessionsOf(f))
              => smallestOf(g, SessionsOf(g)) = o
         /\ SessionsOf(f) # {} /\ ~(o < smallestOf(f, SessionsOf(f)))
              => smallestOf(g, SessionsOf(g)) = smallestOf(f, SessionsOf(f))
<1> DEFINE T == SessionsOf(f)
           U == SessionsOf(g)
<1>1. o \in Nat /\ o # 0 /\ o \in Options
  BY IntervalsAssumption DEF Options
<1>2. g \in [Ids -> Options] /\ g[id] = o /\ \A x \in Ids \ {id} : g[x] = f[x]
  OBVIOUS
<1>3. U = T \cup {id} /\ T \subseteq Ids /\ U \subseteq Ids /\ id \notin T
  BY <1>1, <1>2 DEF SessionsOf
<1>4. ASSUME T = {} \/ o < smallestOf(f, T)
      PROVE  smallestOf(g, U) = o
  <2>1. \A x \in U : g[id] <= g[x]
    <3>1. TAKE x \in U
    <3>2. CASE x = id
      BY <3>2, <1>1, <1>2
    <3>3. CASE x # id
      <4>1. x \in T
        BY <3>3, <1>3
      <4>2. o < smallestOf(f, T) /\ smallestOf(f, T) <= f[x]
        BY <4>1, <1>3, <1>4, SmallestOf
      <4>3. smallestOf(f, T) \in Nat /\ f[x] \in Nat
        BY <4>1, <1>3, SmallestOf, OptionsAreNatural
      <4>4. g[x] = f[x]
        BY <3>3, <1>2, <1>3, <4>1
      <4>5. QED
        BY <4>2, <4>3, <4>4, <1>1, <1>2
    <3>4. QED
      BY <3>2, <3>3
  <2>2. id \in U
    BY <1>3
  <2>3. QED
    <3> HIDE DEF T, U
    <3> QED
      BY <2>1, <2>2, <1>2, <1>3, SmallestIs
<1>5. ASSUME T # {}, ~(o < smallestOf(f, T))
      PROVE  smallestOf(g, U) = smallestOf(f, T)
  <2>1. PICK k \in T : smallestOf(f, T) = f[k] /\ \A x \in T : f[k] <= f[x]
    BY <1>3, <1>5, SmallestOf
  <2>2. k \in U /\ k # id /\ g[k] = f[k] /\ f[k] \in Nat
    BY <2>1, <1>2, <1>3, OptionsAreNatural
  <2>3. \A x \in U : g[k] <= g[x]
    <3>1. TAKE x \in U
    <3>2. CASE x = id
      BY <3>2, <1>1, <1>2, <1>5, <2>1, <2>2
    <3>3. CASE x # id
      BY <3>3, <1>2, <1>3, <2>1, <2>2
    <3>4. QED
      BY <3>2, <3>3
  <2>4. smallestOf(g, U) = g[k]
    <3> HIDE DEF T, U
    <3> QED
      BY <2>2, <2>3, <1>2, <1>3, SmallestIs
  <2>5. QED
    BY <2>1, <2>2, <2>4
<1>6. QED
  BY <1>3, <1>4, <1>5

(* stopTrackingMultiplex and updateTrackingMultiplex compare with the      *)
(* other sessions: if the session in question does not have the smallest   *)
(* interval, the others have; and once it is erased only they count.       *)
LEMMA SmallestOfOthers ==
  ASSUME NEW f \in [Ids -> Options], NEW id \in SessionsOf(f),
         NEW others, others = SessionsOf(f) \ {id}, others # {},
         NEW g \in [Ids -> Options], g[id] = 0, \A x \in Ids \ {id} : g[x] = f[x]
  PROVE  /\ smallestOf(f, others) \in Intervals
         /\ SessionsOf(g) = others
         /\ smallestOf(g, others) = smallestOf(f, others)
         /\ ~(f[id] < smallestOf(f, others))
              => smallestOf(f, SessionsOf(f)) = smallestOf(f, others)
<1> DEFINE T == SessionsOf(f)
<1>1. T \subseteq Ids /\ others \subseteq Ids /\ id \in T /\ others \subseteq T /\ others # {}
  BY DEF SessionsOf
<1>2. PICK k \in others : smallestOf(f, others) = f[k] /\ \A x \in others : f[k] <= f[x]
  <2> HIDE DEF T
  <2> QED
    BY <1>1, SmallestOf
<1>3. f[k] \in Intervals /\ \A x \in T : f[x] \in Nat
  BY <1>1, <1>2, OptionsAreNatural DEF SessionsOf, Options
<1>5. SessionsOf(g) = others
  BY <1>1 DEF SessionsOf
<1>6. smallestOf(g, others) = g[k]
  <2>1. \A x \in others : g[k] <= g[x]
    BY <1>1, <1>2
  <2>2. QED
    <3> HIDE DEF T
    <3> QED
      BY <2>1, <1>1, <1>2, SmallestIs
<1>7. ASSUME ~(f[id] < smallestOf(f, others))
      PROVE  smallestOf(f, T) = smallestOf(f, others)
  <2>1. \A x \in T : f[k] <= f[x]
    <3>1. TAKE x \in T
    <3>2. CASE x = id
      BY <3>2, <1>1, <1>2, <1>3, <1>7
    <3>3. CASE x # id
      BY <3>3, <1>2
    <3>4. QED
      BY <3>2, <3>3
  <2>2. QED
    <3> HIDE DEF T
    <3> QED
      BY <2>1, <1>1, <1>2, SmallestIs
<1>8. QED
  BY <1>1, <1>2, <1>3, <1>5, <1>6, <1>7

(* updateTrackingMultiplex: what the smallest interval is once the new     *)
(* interval is saved.                                                      *)
LEMMA SmallestAfterUpdate ==
  ASSUME NEW f \in [Ids -> Options], NEW id \in SessionsOf(f), NEW o \in Intervals,
         NEW others, others = SessionsOf(f) \ {id},
         NEW g \in [Ids -> Options], g[id] = o, \A x \in Ids \ {id} : g[x] = f[x]
  PROVE  /\ SessionsOf(g) = SessionsOf(f)
         /\ others = {} \/ o < smallestOf(f, others)
              => smallestOf(g, SessionsOf(g)) = o
         /\ others # {} /\ ~(o < smallestOf(f, others))
              => smallestOf(g, SessionsOf(g)) = smallestOf(f, others)
<1> DEFINE h == [f EXCEPT ![id] = 0]
<1>1. id \in Ids /\ 0 \in Options /\ o \in Options /\ o # 0
  BY IntervalsAssumption DEF SessionsOf, Options
<1>2. /\ h \in [Ids -> Options] /\ h[id] = 0
      /\ (\A x \in Ids \ {id} : h[x] = f[x])
      /\ \A x \in Ids \ {id} : g[x] = h[x]
  BY <1>1
<1>3. SessionsOf(h) = others
  BY <1>1, <1>2 DEF SessionsOf
<1>4. SessionsOf(g) = others \cup {id}
  BY <1>1 DEF SessionsOf
<1> HIDE DEF h
<1>5. ASSUME others # {}
      PROVE  smallestOf(h, others) = smallestOf(f, others)
  BY <1>2, <1>5, SmallestOfOthers
<1>6. ASSUME others = {} \/ o < smallestOf(h, others)
      PROVE  smallestOf(g, SessionsOf(g)) = o
  <2>1. SessionsOf(h) = {} \/ o < smallestOf(h, SessionsOf(h))
    BY <1>3, <1>6
  <2>2. QED
    BY <1>1, <1>2, <2>1, SmallestAfterStart
<1>7. ASSUME others # {}, ~(o < smallestOf(h, others))
      PROVE  smallestOf(g, SessionsOf(g)) = smallestOf(h, others)
  <2>1. SessionsOf(h) # {} /\ ~(o < smallestOf(h, SessionsOf(h)))
    BY <1>3, <1>7
  <2>2. QED
    BY <1>1, <1>2, <1>3, <2>1, SmallestAfterStart
<1>8. SessionsOf(g) = SessionsOf(f)
  BY <1>4 DEF SessionsOf
<1>9. QED
  BY <1>5, <1>6, <1>7, <1>8

-----------------------------------------------------------------------------
(* The queue.                                                              *)

ExpiryQueued == \E i \in DOMAIN queue : queue[i].op = "odcpiExpire"

(* A message is put at the end; the others stay where they are.            *)
LEMMA PostFacts ==
  ASSUME TypeOK, NEW m \in Message, Proper(m), Post(m)
  PROVE  /\ queue' \in Seq(Message)
         /\ \A i \in DOMAIN queue' : Proper(queue'[i])
         /\ \A i \in DOMAIN queue' : (i \in DOMAIN queue /\ queue'[i] = queue[i]) \/ queue'[i] = m
         /\ \A i \in DOMAIN queue : i \in DOMAIN queue' /\ queue'[i] = queue[i]
         /\ Len(queue) + 1 \in DOMAIN queue' /\ queue'[Len(queue) + 1] = m
<1>1. queue \in Seq(Message) /\ queue' = Append(queue, m)
  BY DEF TypeOK, Post
<1>2. /\ queue' \in Seq(Message)
      /\ Len(queue') = Len(queue) + 1 /\ Len(queue) \in Nat
      /\ DOMAIN queue = 1 .. Len(queue) /\ DOMAIN queue' = 1 .. Len(queue) + 1
      /\ \A i \in 1 .. Len(queue) : queue'[i] = queue[i]
      /\ queue'[Len(queue) + 1] = m
  BY <1>1
<1>3. \A i \in DOMAIN queue : Proper(queue[i])
  BY DEF TypeOK
<1>4. \A i \in DOMAIN queue' : (i \in DOMAIN queue /\ queue'[i] = queue[i]) \/ queue'[i] = m
  BY <1>2
<1>5. QED
  BY <1>2, <1>3, <1>4

(* The oldest message is taken; the others move up by one.                 *)
LEMMA HandleFacts ==
  ASSUME TypeOK, NEW op, Handle(op)
  PROVE  /\ Head(queue) \in Message /\ Head(queue) = queue[1] /\ 1 \in DOMAIN queue
         /\ Head(queue).op = op
         /\ Proper(Head(queue))
         /\ queue' \in Seq(Message)
         /\ \A i \in DOMAIN queue' : Proper(queue'[i])
         /\ \A i \in DOMAIN queue' : i + 1 \in DOMAIN queue /\ queue'[i] = queue[i + 1] /\ i + 1 # 1
         /\ \A i \in DOMAIN queue : i # 1 => i - 1 \in DOMAIN queue' /\ queue'[i - 1] = queue[i]
         /\ DOMAIN queue' \subseteq Nat
<1>1. queue \in Seq(Message) /\ queue # <<>> /\ queue' = Tail(queue) /\ Head(queue).op = op
  BY DEF TypeOK, Handle
<1>2. /\ Len(queue) \in Nat /\ Len(queue) # 0
      /\ DOMAIN queue = 1 .. Len(queue)
      /\ Head(queue) = queue[1] /\ queue[1] \in Message
  BY <1>1
<1>3. /\ queue' \in Seq(Message) /\ Len(queue') = Len(queue) - 1
      /\ DOMAIN queue' = 1 .. Len(queue) - 1
      /\ \A i \in 1 .. Len(queue) - 1 : queue'[i] = queue[i + 1]
  BY <1>1, <1>2
<1>4. \A i \in DOMAIN queue : Proper(queue[i])
  BY DEF TypeOK
<1>5. \A i \in DOMAIN queue' : i + 1 \in DOMAIN queue /\ queue'[i] = queue[i + 1] /\ i + 1 # 1
  BY <1>2, <1>3
<1>6. \A i \in DOMAIN queue : i # 1 => i - 1 \in DOMAIN queue' /\ queue'[i - 1] = queue[i]
  <2>1. TAKE i \in DOMAIN queue
  <2>2. HAVE i # 1
  <2>3. i - 1 \in 1 .. Len(queue) - 1 /\ (i - 1) + 1 = i
    BY <1>2, <2>2
  <2>4. QED
    BY <1>3, <2>3
<1>7. \A i \in DOMAIN queue' : Proper(queue'[i])
  BY <1>4, <1>5
<1>8. Proper(Head(queue))
  BY <1>1, <1>2, <1>4
<1>9. QED
  BY <1>1, <1>2, <1>3, <1>5, <1>6, <1>7, <1>8

(* A message that is not a start keeps the starts fresh.                   *)
LEMMA PostKeepsFresh ==
  ASSUME TypeOK, StartIsFresh, NEW m \in Message, m.op # "start",
         Proper(m), Post(m), UNCHANGED <<owner, mTrackingSessions>>
  PROVE  StartIsFresh'
<1>1. Used' = Used /\ Tracked' = Tracked
  BY DEF Used, Tracked
<1>2. \A i \in DOMAIN queue' : queue'[i].op = "start" => i \in DOMAIN queue /\ queue'[i] = queue[i]
  BY PostFacts
<1>3. QED
  BY <1>1, <1>2 DEF StartIsFresh

(* Handling a message keeps them fresh, if at most the id of the start     *)
(* that was handled becomes a session.                                     *)
LEMMA HandleKeepsFresh ==
  ASSUME TypeOK, StartIsFresh, NEW op, Handle(op), owner' = owner,
         \/ Tracked' \subseteq Tracked
         \/ (op = "start" /\ Tracked' \subseteq Tracked \cup {Head(queue).id})
  PROVE  StartIsFresh'
<1>1. Used' = Used
  BY DEF Used
<1>2. \A i \in DOMAIN queue' : i + 1 \in DOMAIN queue /\ queue'[i] = queue[i + 1] /\ i + 1 # 1
  BY HandleFacts
<1>3. DOMAIN queue' \subseteq Nat
  BY HandleFacts
<1>4. op = "start" => Head(queue).op = "start" /\ 1 \in DOMAIN queue /\ Head(queue) = queue[1]
  BY HandleFacts
<1>5. Tracked' \subseteq Used
  BY <1>4 DEF StartIsFresh
<1>6. ASSUME NEW i \in DOMAIN queue', queue'[i].op = "start"
      PROVE  queue'[i].id \in Used \ Tracked'
  <2>1. queue[i + 1].op = "start" /\ i + 1 \in DOMAIN queue /\ i + 1 # 1
    BY <1>2, <1>6
  <2>2. queue[i + 1].id \in Used \ Tracked
    BY <2>1 DEF StartIsFresh
  <2>3. op = "start" => queue[i + 1].id # Head(queue).id
    BY <1>4, <2>1 DEF StartIsFresh
  <2>4. QED
    BY <1>2, <2>2, <2>3
<1>7. ASSUME NEW i \in DOMAIN queue', NEW j \in DOMAIN queue',
             queue'[i].op = "start", queue'[j].op = "start", queue'[i].id = queue'[j].id
      PROVE  i = j
  <2>1. i + 1 = j + 1
    BY <1>2, <1>7 DEF StartIsFresh
  <2>2. QED
    BY <1>3, <2>1
<1>8. QED
  BY <1>1, <1>5, <1>6, <1>7 DEF StartIsFresh

-----------------------------------------------------------------------------
(* The handlers that change sessions or the fix.                           *)

SessionInv == TypeOK /\ RunningIsSmallest /\ UpWithoutRestart /\ ServedWithoutRestart

Sessions == SessionsOf(mTrackingSessions)

LEMMA TrackedIsSessions == Tracked = Sessions /\ Tracked' = SessionsOf(mTrackingSessions')
BY DEF Tracked, Sessions, SessionsOf

(* A call of LocApi that fails, or none, leaves the fix alone.             *)
LEMMA SameFix ==
  ASSUME SessionInv, fix' = fix, mTrackingSessions' = mTrackingSessions,
         UNCHANGED <<up, restarts>>
  PROVE  /\ mTrackingSessions' \in [Ids -> Options] /\ fix' \in Options
         /\ RunningIsSmallest' /\ ServedWithoutRestart' /\ Tracked' = Tracked
BY DEF SessionInv, TypeOK, RunningIsSmallest, ServedWithoutRestart, Tracked, smallestInterval,
       smallestOf

(* The fix runs with an interval that is the smallest of the new map.      *)
LEMMA NewFix ==
  ASSUME SessionInv, UNCHANGED <<up, restarts>>,
         mTrackingSessions' \in [Ids -> Options], fix' \in Options,
         SessionsOf(mTrackingSessions') # {},
         fix' = smallestOf(mTrackingSessions', SessionsOf(mTrackingSessions')),
         fix' = 0 => fix = 0 /\ Tracked # {}
  PROVE  RunningIsSmallest' /\ ServedWithoutRestart'
<1>1. RunningIsSmallest'
  BY TrackedIsSessions DEF RunningIsSmallest, smallestInterval
<1>2. ServedWithoutRestart'
  BY DEF SessionInv, ServedWithoutRestart
<1>3. QED
  BY <1>1, <1>2

(* The fix goes on as it is, and so does the smallest interval.            *)
LEMMA SameInterval ==
  ASSUME SessionInv, UNCHANGED <<up, restarts>>, fix' = fix, Tracked # {}, Tracked' # {},
         smallestOf(mTrackingSessions', Tracked') = smallestOf(mTrackingSessions, Tracked)
  PROVE  RunningIsSmallest' /\ ServedWithoutRestart'
<1>1. RunningIsSmallest'
  BY DEF SessionInv, RunningIsSmallest, smallestInterval
<1>2. ServedWithoutRestart'
  BY DEF SessionInv, ServedWithoutRestart
<1>3. QED
  BY <1>1, <1>2

(* MsgStartTracking: the session is saved when the multiplexer agrees.     *)
LEMMA StartStep ==
  ASSUME SessionInv, NEW id \in Ids \ Tracked, NEW o \in Intervals,
         NEW r \in startTrackingMultiplex(o), fix' = r.fix,
         mTrackingSessions' = IF r.ok THEN [mTrackingSessions EXCEPT ![id] = o]
                              ELSE mTrackingSessions,
         UNCHANGED <<up, restarts>>
  PROVE  /\ mTrackingSessions' \in [Ids -> Options] /\ fix' \in Options
         /\ RunningIsSmallest' /\ ServedWithoutRestart' /\ Tracked' \subseteq Tracked \cup {id}
<1> DEFINE f == mTrackingSessions
           g == mTrackingSessions'
<1>1. /\ f \in [Ids -> Options] /\ fix \in Options /\ f[id] = 0 /\ id \in Ids
      /\ o \in Options /\ o # 0
  BY IntervalsAssumption DEF SessionInv, TypeOK, Options, Tracked
<1>2. r \in {Outcome(FALSE, fix), Outcome(TRUE, fix), Outcome(TRUE, o)}
  BY DEF startTrackingMultiplex, startTracking, NoCall
<1>3. CASE r = Outcome(FALSE, fix)
  BY <1>3, SameFix DEF Outcome
<1>4. CASE r \in {Outcome(TRUE, fix), Outcome(TRUE, o)}
  <2>1. r.ok = TRUE
    BY <1>4 DEF Outcome
  <2>2. g \in [Ids -> Options] /\ g[id] = o /\ \A x \in Ids \ {id} : g[x] = f[x]
    BY <1>1, <2>1
  <2>3. Tracked = SessionsOf(f) /\ Tracked' = SessionsOf(g)
    BY TrackedIsSessions DEF Sessions
  <2> HIDE DEF f, g
  <2>4. Tracked' = Tracked \cup {id}
    BY <1>1, <2>2, <2>3, SmallestAfterStart
  <2>5. CASE Tracked = {} \/ o < smallestOf(f, Tracked)
    <3>1. r.fix = o
      BY <2>1, <2>5 DEF startTrackingMultiplex, smallestInterval, startTracking, Outcome, f
    <3>2. smallestOf(g, Tracked') = o
      BY <1>1, <2>2, <2>3, <2>5, SmallestAfterStart
    <3>3. QED
      BY <1>1, <2>2, <2>3, <2>4, <3>1, <3>2, NewFix DEF g
  <2>6. CASE Tracked # {} /\ ~(o < smallestOf(f, Tracked))
    <3>1. r.fix = fix
      BY <2>6 DEF startTrackingMultiplex, smallestInterval, NoCall, Outcome, f
    <3>2. smallestOf(g, Tracked') = smallestOf(f, Tracked)
      BY <1>1, <2>2, <2>3, <2>6, SmallestAfterStart
    <3>3. QED
      BY <1>1, <2>2, <2>4, <2>6, <3>1, <3>2, SameInterval DEF f, g
  <2>7. QED
    BY <2>5, <2>6
<1>5. QED
  BY <1>2, <1>3, <1>4

(* MsgUpdateTracking: a larger interval may hand the fix to another        *)
(* session, a smaller one may take it over.                                *)
LEMMA UpdateStep ==
  ASSUME SessionInv, NEW id \in Tracked, NEW o \in Intervals,
         NEW r \in updateTrackingMultiplex(id, o), fix' = r.fix,
         mTrackingSessions' = IF r.ok THEN [mTrackingSessions EXCEPT ![id] = o]
                              ELSE mTrackingSessions,
         UNCHANGED <<up, restarts>>
  PROVE  /\ mTrackingSessions' \in [Ids -> Options] /\ fix' \in Options
         /\ RunningIsSmallest' /\ ServedWithoutRestart' /\ Tracked' = Tracked
<1> DEFINE f == mTrackingSessions
           g == mTrackingSessions'
           others == Tracked \ {id}
           smallest == smallestOf(f, others)
           h == [f EXCEPT ![id] = 0]
<1>1. /\ f \in [Ids -> Options] /\ fix \in Options /\ id \in Ids
      /\ o \in Options /\ o # 0 /\ 0 \in Options
  BY IntervalsAssumption DEF SessionInv, TypeOK, Options, Tracked
<1>2. r \in {Outcome(FALSE, fix), Outcome(TRUE, fix), Outcome(TRUE, o), Outcome(TRUE, smallest)}
  BY DEF updateTrackingMultiplex, startTracking, NoCall, smallestInterval
<1>3. CASE r = Outcome(FALSE, fix)
  BY <1>3, SameFix DEF Outcome
<1>4. CASE r \in {Outcome(TRUE, fix), Outcome(TRUE, o), Outcome(TRUE, smallest)}
  <2>1. r.ok = TRUE
    BY <1>4 DEF Outcome
  <2>2. g \in [Ids -> Options] /\ g[id] = o /\ \A x \in Ids \ {id} : g[x] = f[x]
    BY <1>1, <2>1
  <2>3. Tracked = SessionsOf(f) /\ Tracked' = SessionsOf(g)
    BY TrackedIsSessions DEF Sessions
  <2>4. h \in [Ids -> Options] /\ h[id] = 0 /\ \A x \in Ids \ {id} : h[x] = f[x]
    BY <1>1
  <2> HIDE DEF f, g, h
  <2>5. Tracked' = Tracked
    BY <1>1, <2>2, <2>3, SmallestAfterUpdate
  <2>6. CASE others = {} \/ o < smallest
    <3>1. r.fix = o
      BY <2>1, <2>6 DEF updateTrackingMultiplex, smallestInterval, startTracking, Outcome, f
    <3>2. smallestOf(g, Tracked') = o
      BY <1>1, <2>2, <2>3, <2>6, SmallestAfterUpdate
    <3>3. QED
      BY <1>1, <2>2, <2>3, <2>5, <3>1, <3>2, NewFix DEF g
  <2>7. CASE others # {} /\ ~(o < smallest)
    <3>1. smallestOf(g, Tracked') = smallest
      BY <1>1, <2>2, <2>3, <2>7, SmallestAfterUpdate
    <3>2. /\ smallest \in Intervals
          /\ ~(f[id] < smallest) => smallestOf(f, Tracked) = smallest
      BY <1>1, <2>3, <2>4, <2>7, SmallestOfOthers
    <3>3. CASE f[id] < smallest
      <4>1. r.fix = smallest
        BY <2>1, <2>7, <3>3
           DEF updateTrackingMultiplex, smallestInterval, startTracking, Outcome, f
      <4>2. smallest \in Options /\ smallest # 0
        BY <3>2, IntervalsAssumption DEF Options
      <4>3. QED
        BY <1>1, <2>2, <2>3, <2>5, <3>1, <4>1, <4>2, NewFix DEF g
    <3>4. CASE ~(f[id] < smallest)
      <4>1. r.fix = fix
        BY <2>7, <3>4 DEF updateTrackingMultiplex, smallestInterval, NoCall, Outcome, f
      <4>2. QED
        BY <1>1, <2>2, <2>5, <3>1, <3>2, <3>4, <4>1, SameInterval DEF f, g
    <3>5. QED
      BY <3>3, <3>4
  <2>8. QED
    BY <2>6, <2>7
<1>5. QED
  BY <1>2, <1>3, <1>4

(* MsgStopTracking, and one session of stopClientSessions: the fix is      *)
(* stopped with the last session, and handed to the next interval if the   *)
(* stopped session alone had the smallest.                                 *)
LEMMA StopStep ==
  ASSUME SessionInv, NEW id \in Tracked,
         NEW r \in stopTrackingMultiplex(id), fix' = r.fix, eraseStopped(r.ok, id),
         UNCHANGED <<up, restarts>>
  PROVE  /\ mTrackingSessions' \in [Ids -> Options] /\ fix' \in Options
         /\ RunningIsSmallest' /\ ServedWithoutRestart' /\ Tracked' \subseteq Tracked
<1> DEFINE f == mTrackingSessions
           g == mTrackingSessions'
           others == Tracked \ {id}
           smallest == smallestOf(f, others)
<1>1. f \in [Ids -> Options] /\ fix \in Options /\ id \in Ids /\ 0 \in Options
  BY DEF SessionInv, TypeOK, Options, Tracked
<1>2. r \in {Outcome(FALSE, fix), Outcome(TRUE, 0), Outcome(TRUE, fix), Outcome(TRUE, smallest)}
  BY DEF stopTrackingMultiplex, startTracking, stopTracking, NoCall, smallestInterval
<1>3. CASE r = Outcome(FALSE, fix)
  <2>1. r.ok = FALSE /\ r.fix = fix
    BY <1>3 DEF Outcome
  <2>2. mTrackingSessions' = mTrackingSessions
    BY <1>1, <2>1 DEF eraseStopped
  <2>3. QED
    BY <2>1, <2>2, SameFix
<1>4. CASE r \in {Outcome(TRUE, 0), Outcome(TRUE, fix), Outcome(TRUE, smallest)}
  <2>1. r.ok = TRUE
    BY <1>4 DEF Outcome
  <2>2. g \in [Ids -> Options] /\ g[id] = 0 /\ \A x \in Ids \ {id} : g[x] = f[x]
    BY <1>1, <2>1 DEF eraseStopped
  <2>3. Tracked = SessionsOf(f) /\ Tracked' = SessionsOf(g)
    BY TrackedIsSessions DEF Sessions
  <2> HIDE DEF f, g
  <2>4. Tracked' = others
    BY <1>1, <2>2, <2>3 DEF SessionsOf
  <2>5. CASE others = {}
    <3>1. r.fix = 0
      BY <2>1, <2>5 DEF stopTrackingMultiplex, stopTracking, Outcome
    <3>2. QED
      BY <1>1, <2>2, <2>4, <2>5, <3>1 DEF RunningIsSmallest, ServedWithoutRestart, g
  <2>6. CASE others # {}
    <3>1. /\ smallest \in Intervals
          /\ smallestOf(g, Tracked') = smallest
          /\ ~(f[id] < smallest) => smallestOf(f, Tracked) = smallest
      BY <1>1, <2>2, <2>3, <2>4, <2>6, SmallestOfOthers
    <3>2. CASE f[id] < smallest
      <4>1. r.fix = smallest
        BY <2>1, <2>6, <3>2
           DEF stopTrackingMultiplex, smallestInterval, startTracking, Outcome, f
      <4>2. smallest \in Options /\ smallest # 0
        BY <3>1, IntervalsAssumption DEF Options
      <4>3. QED
        BY <1>1, <2>2, <2>3, <2>4, <2>6, <3>1, <4>1, <4>2, NewFix DEF g
    <3>3. CASE ~(f[id] < smallest)
      <4>1. r.fix = fix
        BY <2>6, <3>3 DEF stopTrackingMultiplex, smallestInterval, NoCall, Outcome, f
      <4>2. QED
        BY <1>1, <2>2, <2>4, <2>6, <3>1, <3>3, <4>1, SameInterval DEF f, g
    <3>4. QED
      BY <3>2, <3>3
  <2>7. QED
    BY <2>5, <2>6
<1>5. QED
  BY <1>2, <1>3, <1>4

(* restartSessions starts the smallest interval.                           *)
LEMMA RestartStep ==
  ASSUME SessionInv, Tracked # {},
         NEW r \in startTracking(smallestInterval(Tracked)), fix' = r.fix,
         UNCHANGED <<up, restarts, mTrackingSessions>>
  PROVE  fix' \in Options /\ RunningIsSmallest' /\ ServedWithoutRestart'
<1> DEFINE smallest == smallestOf(mTrackingSessions, Tracked)
<1>1. /\ mTrackingSessions \in [Ids -> Options] /\ fix \in Options
      /\ Tracked' = Tracked /\ Tracked \subseteq Ids
  BY DEF SessionInv, TypeOK, Tracked
<1>2. r \in {Outcome(FALSE, fix), Outcome(TRUE, smallest)}
  BY DEF startTracking, smallestInterval
<1>3. CASE r = Outcome(FALSE, fix)
  BY <1>3, SameFix DEF Outcome
<1>4. CASE r = Outcome(TRUE, smallest)
  <2>1. fix' = smallest
    BY <1>4 DEF Outcome
  <2>2. PICK id \in Tracked : smallest = mTrackingSessions[id]
    BY <1>1, SmallestOf
  <2>3. fix' \in Options /\ fix' # 0
    BY <1>1, <2>1, <2>2 DEF Tracked
  <2>4. smallestOf(mTrackingSessions', SessionsOf(mTrackingSessions')) = smallest
    BY <1>1, TrackedIsSessions
  <2>5. QED
    BY <1>1, <2>1, <2>3, <2>4, TrackedIsSessions, NewFix
<1>5. QED
  BY <1>2, <1>3, <1>4

-----------------------------------------------------------------------------
(* The steps, grouped by what they touch.                                  *)

QueueOK ==
  /\ queue \in Seq(Message)
  /\ \A i \in DOMAIN queue : Proper(queue[i])

RestVars == <<mTrackingSessions, owner, up, fix, restarts>>

LEMMA MsgTyped ==
  ASSUME NEW op \in Ops, NEW c \in Clients \cup {NoClient}, NEW id \in Ids \cup {0},
         NEW arg \in Options
  PROVE  /\ Msg(op, c, id, arg) \in Message
         /\ Msg(op, c, id, arg).op = op /\ Msg(op, c, id, arg).id = id
         /\ Msg(op, c, id, arg).client = c
BY DEF Msg, Message

LEMMA ZeroIsOption == 0 \in Options
BY DEF Options

(* Sessions and fix stay, so do the invariants about them.                 *)
LEMMA RestUnchanged ==
  ASSUME TrackInv, UNCHANGED RestVars
  PROVE  RunningIsSmallest' /\ UpWithoutRestart' /\ ServedWithoutRestart'
BY DEF RestVars, TrackInv, RunningIsSmallest, UpWithoutRestart, ServedWithoutRestart, Tracked,
       smallestInterval, smallestOf

(* A message other than a start is queued.                                 *)
LEMMA PostStep ==
  ASSUME TrackInv, NEW m \in Message, m.op # "start", Proper(m), Post(m),
         UNCHANGED <<owner, mTrackingSessions>>
  PROVE  QueueOK' /\ StartIsFresh' /\ (ExpiryQueued => ExpiryQueued')
                  /\ (m.op = "odcpiExpire" => ExpiryQueued')
<1>1. QueueOK'
  BY PostFacts DEF TrackInv, QueueOK
<1>2. StartIsFresh'
  BY PostKeepsFresh DEF TrackInv
<1>3. (ExpiryQueued => ExpiryQueued') /\ (m.op = "odcpiExpire" => ExpiryQueued')
  BY PostFacts DEF TrackInv, ExpiryQueued
<1>4. QED
  BY <1>1, <1>2, <1>3

(* A message is handled.                                                   *)
LEMMA HandleStep ==
  ASSUME TrackInv, NEW op, Handle(op), owner' = owner,
         \/ Tracked' \subseteq Tracked
         \/ (op = "start" /\ Tracked' \subseteq Tracked \cup {Head(queue).id})
  PROVE  QueueOK' /\ StartIsFresh' /\ (op # "odcpiExpire" /\ ExpiryQueued => ExpiryQueued')
<1>1. QueueOK'
  BY HandleFacts DEF TrackInv, QueueOK
<1>2. StartIsFresh'
  BY HandleKeepsFresh DEF TrackInv
<1>3. ASSUME op # "odcpiExpire", NEW i \in DOMAIN queue, queue[i].op = "odcpiExpire"
      PROVE  ExpiryQueued'
  <2>1. i # 1
    BY <1>3, HandleFacts DEF TrackInv
  <2>2. i - 1 \in DOMAIN queue' /\ queue'[i - 1] = queue[i]
    BY <2>1, HandleFacts DEF TrackInv
  <2>3. QED
    BY <1>3, <2>2 DEF ExpiryQueued
<1>4. QED
  BY <1>1, <1>2, <1>3 DEF ExpiryQueued

LEMMA QueueOfType == ASSUME TypeOK PROVE QueueOK
BY DEF TypeOK, QueueOK

(* The timer clause, when the ODCPI variables stay.                        *)
LEMMA OdcpiUnchanged ==
  ASSUME TrackInv, ExpiryQueued => ExpiryQueued',
         UNCHANGED <<mOdcpiRequestActive, timerActive, timerRunning>>
  PROVE  OdcpiTimerWillFire'
BY DEF TrackInv, OdcpiTimerWillFire, ExpiryQueued

LEMMA AddClient == ASSUME TrackInv, NEW c \in Clients, addClientCommand(c) PROVE TrackInv'
<1> DEFINE m == Msg("addClient", c, 0, 0)
<1>1. m \in Message /\ m.op = "addClient" /\ m.client = c
  BY MsgTyped, ZeroIsOption DEF Ops
<1>2. Post(m)
  BY DEF addClientCommand
<1>3. UNCHANGED RestVars
  BY DEF addClientCommand, RestVars, trackVars, modemVars
<1> HIDE DEF m
<1>4. QueueOK' /\ StartIsFresh' /\ (ExpiryQueued => ExpiryQueued')
  BY <1>1, <1>2, <1>3, PostStep DEF Proper, NeedsId, RestVars
<1>5. TypeOK'
  BY <1>4 DEF TrackInv, TypeOK, QueueOK, addClientCommand, trackVars, modemVars, odcpiVars
<1>6. OdcpiTimerWillFire'
  BY <1>4, OdcpiUnchanged DEF addClientCommand, odcpiVars
<1>7. QED
  BY <1>3, <1>4, <1>5, <1>6, RestUnchanged DEF TrackInv

LEMMA RemoveClientCommand ==
  ASSUME TrackInv, NEW c \in Clients, removeClientCommand(c) PROVE TrackInv'
<1> DEFINE m == Msg("removeClient", c, 0, 0)
<1>1. m \in Message /\ m.op = "removeClient"
  BY MsgTyped, ZeroIsOption DEF Ops
<1>2. Post(m)
  BY DEF removeClientCommand
<1>3. UNCHANGED RestVars
  BY DEF removeClientCommand, RestVars, trackVars, modemVars
<1> HIDE DEF m
<1>4. QueueOK' /\ StartIsFresh' /\ (ExpiryQueued => ExpiryQueued')
  BY <1>1, <1>2, <1>3, PostStep DEF Proper, NeedsId, RestVars
<1>5. TypeOK'
  BY <1>4 DEF TrackInv, TypeOK, QueueOK, removeClientCommand, trackVars, modemVars,
              odcpiVars
<1>6. OdcpiTimerWillFire'
  BY <1>4, OdcpiUnchanged DEF removeClientCommand, odcpiVars
<1>7. QED
  BY <1>3, <1>4, <1>5, <1>6, RestUnchanged DEF TrackInv

(* The id of the new start was not used, so no session and no other start  *)
(* has it.                                                                 *)
LEMMA StartCommand ==
  ASSUME TrackInv, NEW c \in Clients, startTrackingCommand(c) PROVE TrackInv'
<1>1. PICK id \in Ids \ Used, o \in Options :
        /\ owner' = [owner EXCEPT ![id] = c]
        /\ Post(Msg("start", c, id, o))
        /\ UNCHANGED <<trackVars, caller, calls, view, modemVars, odcpiVars>>
  BY DEF startTrackingCommand
<1> DEFINE m == Msg("start", c, id, o)
<1>2. m \in Message /\ m.op = "start" /\ m.id = id /\ Post(m)
  BY <1>1, MsgTyped DEF Ops
<1> HIDE DEF m
<1>3. /\ QueueOK'
      /\ \A i \in DOMAIN queue' : (i \in DOMAIN queue /\ queue'[i] = queue[i])
                                  \/ (queue'[i] = m /\ i = Len(queue) + 1)
      /\ ExpiryQueued => ExpiryQueued'
  <2>1. queue \in Seq(Message) /\ queue' = Append(queue, m)
    BY <1>2 DEF TrackInv, TypeOK, Post
  <2>2. \A i \in DOMAIN queue' : (i \in DOMAIN queue /\ queue'[i] = queue[i])
                                  \/ (queue'[i] = m /\ i = Len(queue) + 1)
    BY <2>1
  <2>3. QueueOK' /\ \A i \in DOMAIN queue : i \in DOMAIN queue' /\ queue'[i] = queue[i]
    BY <1>2, PostFacts DEF TrackInv, QueueOK, Proper
  <2>4. QED
    BY <2>2, <2>3 DEF ExpiryQueued
<1>4. /\ Used' = Used \cup {id} /\ id \notin Used /\ Tracked' = Tracked
      /\ owner' \in [Ids -> Clients \cup {NoClient}]
  BY <1>1, ClientsAssumption DEF Used, Tracked, TrackInv, TypeOK, trackVars
<1>5. StartIsFresh'
  <2>1. Tracked \subseteq Used
    BY DEF TrackInv, StartIsFresh
  <2>2. \A i \in DOMAIN queue : queue[i].op = "start" => queue[i].id \in Used \ Tracked
    BY DEF TrackInv, StartIsFresh
  <2>3. \A i \in DOMAIN queue' : queue'[i].op = "start" => queue'[i].id \in Used' \ Tracked'
    BY <1>2, <1>3, <1>4, <2>1, <2>2
  <2>4. ASSUME NEW i \in DOMAIN queue', NEW j \in DOMAIN queue',
               queue'[i].op = "start", queue'[j].op = "start", queue'[i].id = queue'[j].id
        PROVE  i = j
    BY <1>2, <1>3, <1>4, <2>2, <2>4 DEF TrackInv, StartIsFresh
  <2>5. QED
    BY <1>4, <2>1, <2>3, <2>4 DEF StartIsFresh
<1>6. TypeOK'
  BY <1>1, <1>3, <1>4 DEF TrackInv, TypeOK, QueueOK, trackVars, modemVars, odcpiVars
<1>7. OdcpiTimerWillFire'
  BY <1>1, <1>3, OdcpiUnchanged DEF odcpiVars
<1>8. RunningIsSmallest' /\ UpWithoutRestart' /\ ServedWithoutRestart'
  BY <1>1, <1>4 DEF TrackInv, RunningIsSmallest, UpWithoutRestart, ServedWithoutRestart,
                    smallestInterval, smallestOf, trackVars, modemVars
<1>9. QED
  BY <1>5, <1>6, <1>7, <1>8 DEF TrackInv

LEMMA UpdateCommand ==
  ASSUME TrackInv, NEW c \in Clients, updateTrackingOptionsCommand(c) PROVE TrackInv'
<1>1. PICK id \in Used, o \in Options :
        /\ calls' = calls + 1
        /\ Post(Msg("update", c, id, o))
        /\ UNCHANGED <<trackVars, caller, owner, view, modemVars, odcpiVars>>
  BY DEF updateTrackingOptionsCommand
<1> DEFINE m == Msg("update", c, id, o)
<1>2. m \in Message /\ m.op = "update" /\ m.id = id /\ Post(m) /\ id \in Ids
  BY <1>1, MsgTyped DEF Ops, Used
<1> HIDE DEF m
<1>3. UNCHANGED RestVars
  BY <1>1 DEF RestVars, trackVars, modemVars
<1>4. QueueOK' /\ StartIsFresh' /\ (ExpiryQueued => ExpiryQueued')
  BY <1>2, <1>3, PostStep DEF Proper, NeedsId, RestVars
<1>5. TypeOK'
  BY <1>1, <1>4 DEF TrackInv, TypeOK, QueueOK, trackVars, modemVars, odcpiVars
<1>6. OdcpiTimerWillFire'
  BY <1>1, <1>4, OdcpiUnchanged DEF odcpiVars
<1>7. QED
  BY <1>3, <1>4, <1>5, <1>6, RestUnchanged DEF TrackInv

LEMMA StopCommand ==
  ASSUME TrackInv, NEW c \in Clients, stopTrackingCommand(c) PROVE TrackInv'
<1>1. PICK id \in Used :
        /\ calls' = calls + 1
        /\ Post(Msg("stop", c, id, 0))
        /\ UNCHANGED <<trackVars, caller, owner, view, modemVars, odcpiVars>>
  BY DEF stopTrackingCommand
<1> DEFINE m == Msg("stop", c, id, 0)
<1>2. m \in Message /\ m.op = "stop" /\ m.id = id /\ Post(m) /\ id \in Ids
  BY <1>1, MsgTyped, ZeroIsOption DEF Ops, Used
<1> HIDE DEF m
<1>3. UNCHANGED RestVars
  BY <1>1 DEF RestVars, trackVars, modemVars
<1>4. QueueOK' /\ StartIsFresh' /\ (ExpiryQueued => ExpiryQueued')
  BY <1>2, <1>3, PostStep DEF Proper, NeedsId, RestVars
<1>5. TypeOK'
  BY <1>1, <1>4 DEF TrackInv, TypeOK, QueueOK, trackVars, modemVars, odcpiVars
<1>6. OdcpiTimerWillFire'
  BY <1>1, <1>4, OdcpiUnchanged DEF odcpiVars
<1>7. QED
  BY <1>3, <1>4, <1>5, <1>6, RestUnchanged DEF TrackInv

(* A handler that leaves sessions and fix alone.                           *)
LEMMA PlainHandler ==
  ASSUME TrackInv, NEW op, Handle(op), UNCHANGED RestVars
  PROVE  /\ QueueOK' /\ StartIsFresh' /\ (op # "odcpiExpire" /\ ExpiryQueued => ExpiryQueued')
         /\ RunningIsSmallest' /\ UpWithoutRestart' /\ ServedWithoutRestart'
         /\ Head(queue) \in Message /\ Head(queue).op = op /\ Proper(Head(queue))
<1>1. owner' = owner /\ Tracked' \subseteq Tracked
  BY DEF RestVars, Tracked
<1>2. QueueOK' /\ StartIsFresh' /\ (op # "odcpiExpire" /\ ExpiryQueued => ExpiryQueued')
  BY <1>1, HandleStep
<1>3. Head(queue) \in Message /\ Head(queue).op = op /\ Proper(Head(queue))
  BY HandleFacts DEF TrackInv
<1>4. QED
  BY <1>2, <1>3, RestUnchanged

LEMMA SaveClient == ASSUME TrackInv, saveClient PROVE TrackInv'
<1>1. Handle("addClient") /\ UNCHANGED RestVars
  BY DEF saveClient, RestVars, clientVars, modemVars
<1>2. /\ QueueOK' /\ StartIsFresh' /\ (ExpiryQueued => ExpiryQueued')
      /\ RunningIsSmallest' /\ UpWithoutRestart' /\ ServedWithoutRestart'
      /\ Head(queue).op = "addClient" /\ Proper(Head(queue))
  BY <1>1, PlainHandler
<1>3. mClientData' \subseteq Clients
  BY <1>2 DEF saveClient, TrackInv, TypeOK, Proper
<1>4. TypeOK'
  BY <1>2, <1>3 DEF TrackInv, TypeOK, QueueOK, saveClient, clientVars, modemVars, odcpiVars
<1>5. OdcpiTimerWillFire'
  BY <1>2, OdcpiUnchanged DEF saveClient, odcpiVars
<1>6. QED
  BY <1>2, <1>4, <1>5 DEF TrackInv

LEMMA RemoveClient == ASSUME TrackInv, removeClient PROVE TrackInv'
<1>1. Handle("removeClient") /\ UNCHANGED RestVars
  BY DEF removeClient, RestVars, clientVars, modemVars
<1>2. /\ QueueOK' /\ StartIsFresh' /\ (ExpiryQueued => ExpiryQueued')
      /\ RunningIsSmallest' /\ UpWithoutRestart' /\ ServedWithoutRestart'
      /\ Head(queue) \in Message
  BY <1>1, PlainHandler
<1>3. removing' \in Clients \cup {NoClient} /\ cursor' = 0
  BY <1>2 DEF removeClient, Message
<1>4. TypeOK'
  BY <1>2, <1>3 DEF TrackInv, TypeOK, QueueOK, removeClient, clientVars, modemVars, odcpiVars
<1>5. OdcpiTimerWillFire'
  BY <1>2, OdcpiUnchanged DEF removeClient, odcpiVars
<1>6. QED
  BY <1>2, <1>4, <1>5 DEF TrackInv

(* Once the sessions are stopped nothing but the client data changes.      *)
LEMMA EraseClient == ASSUME TrackInv, eraseClient PROVE TrackInv'
<1>1. UNCHANGED RestVars /\ UNCHANGED queue
  BY DEF eraseClient, RestVars, clientVars, modemVars
<1>2. RunningIsSmallest' /\ UpWithoutRestart' /\ ServedWithoutRestart'
  BY <1>1, RestUnchanged
<1>3. StartIsFresh' /\ (ExpiryQueued => ExpiryQueued')
  BY <1>1 DEF TrackInv, StartIsFresh, Tracked, Used, RestVars, ExpiryQueued
<1>4. TypeOK'
  BY DEF TrackInv, TypeOK, eraseClient, clientVars, modemVars, odcpiVars
<1>5. OdcpiTimerWillFire'
  BY <1>3, OdcpiUnchanged DEF eraseClient, odcpiVars
<1>6. QED
  BY <1>2, <1>3, <1>4, <1>5 DEF TrackInv

LEMMA StartSession == ASSUME TrackInv, startSession PROVE TrackInv'
<1> DEFINE m == Head(queue)
           told == [view EXCEPT ![m.id] = IF m.client \in mClientData THEN "refused" ELSE @]
           views == {"unknown", "started", "refused", "stopped"}
<1>1. /\ Handle("start") /\ UNCHANGED <<up, restarts>> /\ owner' = owner
  BY DEF startSession
<1>2. m \in Message /\ m.op = "start" /\ m.id \in Ids /\ m = queue[1] /\ 1 \in DOMAIN queue
  BY <1>1, HandleFacts DEF TrackInv, Proper, NeedsId
<1>3. m.id \in Ids \ Tracked /\ m.arg \in Options
  BY <1>2 DEF TrackInv, StartIsFresh, Message
<1>4. told \in [Ids -> views] /\ [view EXCEPT ![m.id] = "started"] \in [Ids -> views]
  BY <1>2 DEF TrackInv, TypeOK
<1>5. SessionInv
  BY DEF SessionInv, TrackInv
<1>6. /\ mTrackingSessions' \in [Ids -> Options] /\ fix' \in Options /\ view' \in [Ids -> views]
      /\ RunningIsSmallest' /\ ServedWithoutRestart' /\ Tracked' \subseteq Tracked \cup {m.id}
  <2>1. CASE view' = told /\ UNCHANGED <<mTrackingSessions, fix>>
    BY <1>1, <1>4, <1>5, <2>1, SameFix
  <2>2. CASE /\ m.arg # 0
             /\ \E r \in startTrackingMultiplex(m.arg) :
                  /\ fix' = r.fix
                  /\ mTrackingSessions' =
                       IF r.ok THEN [mTrackingSessions EXCEPT ![m.id] = m.arg]
                       ELSE mTrackingSessions
                  /\ view' = IF r.ok THEN [view EXCEPT ![m.id] = "started"] ELSE told
    <3>1. m.arg \in Intervals
      BY <1>3, <2>2 DEF Options
    <3>2. view' \in [Ids -> views]
      BY <1>4, <2>2
    <3> HIDE DEF m, told, views
    <3>3. QED
      BY <1>1, <1>3, <1>5, <2>2, <3>1, <3>2, StartStep
  <2>3. QED
    BY <2>1, <2>2 DEF startSession
<1> HIDE DEF m
<1>7. QueueOK' /\ StartIsFresh' /\ (ExpiryQueued => ExpiryQueued')
  BY <1>1, <1>6, HandleStep DEF m
<1>8. TypeOK'
  BY <1>6, <1>7 DEF TrackInv, TypeOK, QueueOK, startSession, odcpiVars
<1>9. OdcpiTimerWillFire'
  BY <1>7, OdcpiUnchanged DEF startSession, odcpiVars
<1>10. QED
  BY <1>1, <1>6, <1>7, <1>8, <1>9 DEF TrackInv, UpWithoutRestart

LEMMA UpdateSession == ASSUME TrackInv, updateSession PROVE TrackInv'
<1> DEFINE m == Head(queue)
<1>1. Handle("update") /\ UNCHANGED <<up, restarts>> /\ owner' = owner
  BY DEF updateSession, clientVars
<1>2. m \in Message /\ m.arg \in Options
  BY <1>1, HandleFacts DEF TrackInv, Message
<1>3. SessionInv
  BY DEF SessionInv, TrackInv
<1>4. /\ mTrackingSessions' \in [Ids -> Options] /\ fix' \in Options
      /\ RunningIsSmallest' /\ ServedWithoutRestart' /\ Tracked' \subseteq Tracked
  <2>1. CASE UNCHANGED <<mTrackingSessions, fix>>
    BY <1>1, <1>3, <2>1, SameFix
  <2>2. CASE /\ m.id \in Tracked /\ m.arg # 0
             /\ \E r \in updateTrackingMultiplex(m.id, m.arg) :
                  /\ fix' = r.fix
                  /\ mTrackingSessions' =
                       IF r.ok THEN [mTrackingSessions EXCEPT ![m.id] = m.arg]
                       ELSE mTrackingSessions
    <3>1. m.arg \in Intervals
      BY <1>2, <2>2 DEF Options
    <3> HIDE DEF m
    <3>2. QED
      BY <1>1, <1>3, <2>2, <3>1, UpdateStep
  <2>3. QED
    BY <2>1, <2>2 DEF updateSession
<1>5. QueueOK' /\ StartIsFresh' /\ (ExpiryQueued => ExpiryQueued')
  BY <1>1, <1>4, HandleStep
<1>6. TypeOK'
  BY <1>4, <1>5 DEF TrackInv, TypeOK, QueueOK, updateSession, clientVars, odcpiVars
<1>7. OdcpiTimerWillFire'
  BY <1>5, OdcpiUnchanged DEF updateSession, odcpiVars
<1>8. QED
  BY <1>1, <1>4, <1>5, <1>6, <1>7 DEF TrackInv, UpWithoutRestart

LEMMA StopSession == ASSUME TrackInv, stopSession PROVE TrackInv'
<1> DEFINE m == Head(queue)
           views == {"unknown", "started", "refused", "stopped"}
<1>1. Handle("stop") /\ UNCHANGED <<up, restarts>> /\ owner' = owner
  BY DEF stopSession
<1>2. m \in Message /\ m.id \in Ids
  BY <1>1, HandleFacts DEF TrackInv, Proper, NeedsId
<1>3. SessionInv /\ view \in [Ids -> views]
  BY DEF SessionInv, TrackInv, TypeOK
<1>4. /\ mTrackingSessions' \in [Ids -> Options] /\ fix' \in Options /\ view' \in [Ids -> views]
      /\ RunningIsSmallest' /\ ServedWithoutRestart' /\ Tracked' \subseteq Tracked
  <2>1. CASE UNCHANGED <<mTrackingSessions, view, fix>>
    BY <1>1, <1>3, <2>1, SameFix
  <2>2. CASE /\ m.id \in Tracked
             /\ \E r \in stopTrackingMultiplex(m.id) :
                  /\ fix' = r.fix
                  /\ eraseStopped(r.ok, m.id)
                  /\ view' = [view EXCEPT ![m.id] = IF r.ok THEN "stopped" ELSE @]
    <3>1. view' \in [Ids -> views]
      BY <1>2, <1>3, <2>2
    <3> HIDE DEF m, views
    <3>2. QED
      BY <1>1, <1>3, <2>2, <3>1, StopStep
  <2>3. QED
    BY <2>1, <2>2 DEF stopSession
<1>5. QueueOK' /\ StartIsFresh' /\ (ExpiryQueued => ExpiryQueued')
  BY <1>1, <1>4, HandleStep
<1>6. TypeOK'
  BY <1>4, <1>5 DEF TrackInv, TypeOK, QueueOK, stopSession, odcpiVars
<1>7. OdcpiTimerWillFire'
  BY <1>5, OdcpiUnchanged DEF stopSession, odcpiVars
<1>8. QED
  BY <1>1, <1>4, <1>5, <1>6, <1>7 DEF TrackInv, UpWithoutRestart

LEMMA StopClientSessions == ASSUME TrackInv, stopClientSessions PROVE TrackInv'
<1>1. UNCHANGED <<up, restarts>> /\ owner' = owner /\ queue' = queue
  BY DEF stopClientSessions, clientVars
<1>2. PICK id \in Remaining :
        /\ cursor' = id
        /\ \E r \in stopTrackingMultiplex(id) : fix' = r.fix /\ eraseStopped(r.ok, id)
  BY DEF stopClientSessions
<1>3. SessionInv /\ id \in Tracked /\ id \in Ids
  BY <1>2 DEF SessionInv, TrackInv, Remaining, Tracked
<1>4. /\ mTrackingSessions' \in [Ids -> Options] /\ fix' \in Options
      /\ RunningIsSmallest' /\ ServedWithoutRestart' /\ Tracked' \subseteq Tracked
  BY <1>1, <1>2, <1>3, StopStep
<1>5. StartIsFresh' /\ (ExpiryQueued => ExpiryQueued')
  BY <1>1, <1>4 DEF TrackInv, StartIsFresh, Used, ExpiryQueued
<1>6. TypeOK'
  BY <1>1, <1>2, <1>3, <1>4 DEF TrackInv, TypeOK, stopClientSessions, clientVars, odcpiVars
<1>7. OdcpiTimerWillFire'
  BY <1>5, OdcpiUnchanged DEF stopClientSessions, odcpiVars
<1>8. QED
  BY <1>1, <1>4, <1>5, <1>6, <1>7 DEF TrackInv, UpWithoutRestart

(* A restart of the modem loses the fix and is counted.                    *)
LEMMA EngineDown == ASSUME TrackInv, engineDown PROVE TrackInv'
<1>1. fix' = 0 /\ restarts' = restarts + 1 /\ restarts \in Nat
  BY DEF engineDown, TrackInv, TypeOK
<1>2. RunningIsSmallest' /\ UpWithoutRestart' /\ ServedWithoutRestart'
  BY <1>1 DEF RunningIsSmallest, UpWithoutRestart, ServedWithoutRestart
<1>3. StartIsFresh' /\ (ExpiryQueued => ExpiryQueued')
  BY DEF engineDown, trackVars, clientVars, TrackInv, StartIsFresh, Used, Tracked, ExpiryQueued
<1>4. fix' \in Options /\ up' = FALSE /\ restarts' \in Nat
  <2>1. fix' \in Options
    BY <1>1, ZeroIsOption
  <2>2. up' = FALSE
    BY DEF engineDown
  <2>3. restarts' \in Nat
    BY <1>1
  <2>4. QED
    BY <2>1, <2>2, <2>3
<1>5. TypeOK'
  BY <1>4 DEF engineDown, TrackInv, TypeOK, trackVars, clientVars, odcpiVars
<1>6. OdcpiTimerWillFire'
  BY <1>3, OdcpiUnchanged DEF engineDown, odcpiVars
<1>7. QED
  BY <1>2, <1>3, <1>5, <1>6 DEF TrackInv

LEMMA EngineUp == ASSUME TrackInv, handleEngineUpEvent PROVE TrackInv'
<1> DEFINE m == Msg("restart", NoClient, 0, 0)
<1>1. m \in Message /\ m.op = "restart"
  BY MsgTyped, ZeroIsOption DEF Ops
<1>2. Post(m) /\ UNCHANGED <<owner, mTrackingSessions, fix, restarts>> /\ up' = TRUE
  BY DEF handleEngineUpEvent, trackVars, clientVars
<1> HIDE DEF m
<1>3. QueueOK' /\ StartIsFresh' /\ (ExpiryQueued => ExpiryQueued')
  BY <1>1, <1>2, PostStep DEF Proper, NeedsId
<1>4. RunningIsSmallest' /\ UpWithoutRestart' /\ ServedWithoutRestart'
  BY <1>2 DEF TrackInv, RunningIsSmallest, UpWithoutRestart, ServedWithoutRestart, Tracked,
              smallestInterval, smallestOf
<1>5. TypeOK'
  BY <1>3 DEF handleEngineUpEvent, TrackInv, TypeOK, QueueOK, trackVars, clientVars, odcpiVars
<1>6. OdcpiTimerWillFire'
  BY <1>3, OdcpiUnchanged DEF handleEngineUpEvent, odcpiVars
<1>7. QED
  BY <1>3, <1>4, <1>5, <1>6 DEF TrackInv

LEMMA RestartSessions == ASSUME TrackInv, restartSessions PROVE TrackInv'
<1>1. /\ Handle("restart") /\ UNCHANGED <<up, restarts, owner, mTrackingSessions>>
      /\ Tracked' \subseteq Tracked
  BY DEF restartSessions, trackVars, clientVars, Tracked
<1>2. SessionInv
  BY DEF SessionInv, TrackInv
<1>3. fix' \in Options /\ RunningIsSmallest' /\ ServedWithoutRestart'
  <2>1. CASE UNCHANGED fix
    BY <1>1, <1>2, <2>1, SameFix
  <2>2. CASE Tracked # {} /\ \E r \in startTracking(smallestInterval(Tracked)) : fix' = r.fix
    BY <1>1, <1>2, <2>2, RestartStep
  <2>3. QED
    BY <2>1, <2>2 DEF restartSessions
<1>4. QueueOK' /\ StartIsFresh' /\ (ExpiryQueued => ExpiryQueued')
  BY <1>1, HandleStep
<1>5. TypeOK'
  BY <1>3, <1>4 DEF restartSessions, TrackInv, TypeOK, QueueOK, trackVars, clientVars
<1>6. OdcpiTimerWillFire'
  BY <1>4 DEF restartSessions, TrackInv, OdcpiTimerWillFire, ExpiryQueued
<1>7. QED
  BY <1>1, <1>3, <1>4, <1>5, <1>6 DEF TrackInv, UpWithoutRestart

LEMMA OdcpiReport == ASSUME TrackInv, reportOdcpiRequestEvent PROVE TrackInv'
<1>1. PICK type \in {"START", "EMERGENCY", "STOP"} :
        /\ odcpis' = odcpis + 1
        /\ Post(Msg(type, NoClient, 0, 0))
        /\ UNCHANGED <<trackVars, clientVars, modemVars, mOdcpiRequestActive, isEmergencyMode,
                       timerActive, timerRunning, unasked>>
  BY DEF reportOdcpiRequestEvent
<1> DEFINE m == Msg(type, NoClient, 0, 0)
<1>2. m \in Message /\ m.op = type /\ Post(m)
  BY <1>1, MsgTyped, ZeroIsOption DEF Ops
<1> HIDE DEF m
<1>3. UNCHANGED RestVars
  BY <1>1 DEF RestVars, trackVars, clientVars, modemVars
<1>4. QueueOK' /\ StartIsFresh' /\ (ExpiryQueued => ExpiryQueued')
  BY <1>2, <1>3, PostStep DEF Proper, NeedsId, RestVars
<1>5. TypeOK'
  BY <1>1, <1>4 DEF TrackInv, TypeOK, QueueOK, trackVars, clientVars, modemVars
<1>6. OdcpiTimerWillFire'
  BY <1>1, <1>4, OdcpiUnchanged
<1>7. QED
  BY <1>3, <1>4, <1>5, <1>6, RestUnchanged DEF TrackInv

LEMMA OdcpiStart ==
  ASSUME TrackInv, NEW emergency \in BOOLEAN, odcpiStart(emergency) PROVE TrackInv'
<1> DEFINE op == IF emergency THEN "EMERGENCY" ELSE "START"
<1>1. Handle(op) /\ UNCHANGED RestVars /\ op # "odcpiExpire"
  BY DEF odcpiStart, RestVars, trackVars, clientVars, modemVars
<1> HIDE DEF op
<1>2. /\ QueueOK' /\ StartIsFresh' /\ (ExpiryQueued => ExpiryQueued')
      /\ RunningIsSmallest' /\ UpWithoutRestart' /\ ServedWithoutRestart'
  BY <1>1, PlainHandler
<1>3. mOdcpiRequestActive' = TRUE /\ isEmergencyMode' = emergency /\ odcpis' = odcpis
  BY DEF odcpiStart
<1>4. CASE PassOn(emergency)
  <2>1. timerActive' = TRUE /\ timerRunning' = TRUE /\ unasked' = FALSE
    BY <1>4 DEF odcpiStart
  <2>2. TypeOK'
    BY <1>2, <1>3, <2>1
       DEF odcpiStart, TrackInv, TypeOK, QueueOK, trackVars, clientVars, modemVars
  <2>3. OdcpiTimerWillFire'
    BY <2>1 DEF OdcpiTimerWillFire
  <2>4. QED
    BY <1>2, <2>2, <2>3 DEF TrackInv
<1>5. CASE ~PassOn(emergency)
  <2>1. unasked' = TRUE /\ UNCHANGED <<timerActive, timerRunning>>
    BY <1>5 DEF odcpiStart
  <2>2. TypeOK'
    BY <1>2, <1>3, <2>1
       DEF odcpiStart, TrackInv, TypeOK, QueueOK, trackVars, clientVars, modemVars
  <2>3. timerActive = TRUE
    BY <1>5 DEF PassOn, TrackInv, TypeOK, OdcpiTimerWillFire
  <2>4. OdcpiTimerWillFire'
    BY <1>2, <2>1, <2>3 DEF TrackInv, OdcpiTimerWillFire, ExpiryQueued
  <2>5. QED
    BY <1>2, <2>2, <2>4 DEF TrackInv
<1>6. QED
  BY <1>4, <1>5

LEMMA OdcpiStop == ASSUME TrackInv, odcpiStop PROVE TrackInv'
<1>1. Handle("STOP") /\ UNCHANGED RestVars
  BY DEF odcpiStop, RestVars, trackVars, clientVars, modemVars
<1>2. /\ QueueOK' /\ StartIsFresh' /\ (ExpiryQueued => ExpiryQueued')
      /\ RunningIsSmallest' /\ UpWithoutRestart' /\ ServedWithoutRestart'
  BY <1>1, PlainHandler
<1>3. TypeOK'
  BY <1>2 DEF odcpiStop, TrackInv, TypeOK, QueueOK, trackVars, clientVars, modemVars
<1>4. OdcpiTimerWillFire'
  BY <1>2 DEF odcpiStop, TrackInv, OdcpiTimerWillFire, ExpiryQueued
<1>5. QED
  BY <1>2, <1>3, <1>4 DEF TrackInv

(* The expiry is queued as the timer stops running.                        *)
LEMMA OdcpiExpireEvent == ASSUME TrackInv, odcpiTimerExpireEvent PROVE TrackInv'
<1> DEFINE m == Msg("odcpiExpire", NoClient, 0, 0)
<1>1. m \in Message /\ m.op = "odcpiExpire"
  BY MsgTyped, ZeroIsOption DEF Ops
<1>2. Post(m) /\ UNCHANGED RestVars
  BY DEF odcpiTimerExpireEvent, RestVars, trackVars, clientVars, modemVars
<1> HIDE DEF m
<1>3. QueueOK' /\ StartIsFresh' /\ ExpiryQueued'
  BY <1>1, <1>2, PostStep DEF Proper, NeedsId, RestVars
<1>4. TypeOK'
  BY <1>3 DEF odcpiTimerExpireEvent, TrackInv, TypeOK, QueueOK, trackVars, clientVars, modemVars
<1>5. OdcpiTimerWillFire'
  BY <1>3 DEF odcpiTimerExpireEvent, TrackInv, OdcpiTimerWillFire, ExpiryQueued
<1>6. QED
  BY <1>2, <1>3, <1>4, <1>5, RestUnchanged DEF TrackInv

LEMMA OdcpiExpire == ASSUME TrackInv, odcpiTimerExpire PROVE TrackInv'
<1>1. Handle("odcpiExpire") /\ UNCHANGED RestVars
  BY DEF odcpiTimerExpire, RestVars, trackVars, clientVars, modemVars
<1>2. /\ QueueOK' /\ StartIsFresh'
      /\ RunningIsSmallest' /\ UpWithoutRestart' /\ ServedWithoutRestart'
  BY <1>1, PlainHandler
<1>3. TypeOK'
  BY <1>2 DEF odcpiTimerExpire, TrackInv, TypeOK, QueueOK, trackVars, clientVars, modemVars
<1>4. OdcpiTimerWillFire'
  BY DEF odcpiTimerExpire, OdcpiTimerWillFire
<1>5. QED
  BY <1>2, <1>3, <1>4 DEF TrackInv

-----------------------------------------------------------------------------
LEMMA InitTrackInv == Init => TrackInv
<1> SUFFICES ASSUME Init PROVE TrackInv
  OBVIOUS
<1>2. queue = <<>> /\ queue \in Seq(Message)
  BY DEF Init
<1>3. DOMAIN queue = {}
  BY <1>2
<1>4. mTrackingSessions = [id \in Ids |-> 0]
  BY DEF Init
<1>5. Tracked = {} /\ mTrackingSessions \in [Ids -> Options]
  BY <1>4, ZeroIsOption DEF Tracked
<1>6. TypeOK
  BY <1>2, <1>3, <1>5, ZeroIsOption DEF Init, TypeOK
<1>7. StartIsFresh
  BY <1>3, <1>5 DEF StartIsFresh
<1>8. RunningIsSmallest /\ UpWithoutRestart /\ ServedWithoutRestart /\ OdcpiTimerWillFire
  BY <1>5 DEF Init, RunningIsSmallest, UpWithoutRestart, ServedWithoutRestart, OdcpiTimerWillFire
<1>9. QED
  BY <1>6, <1>7, <1>8 DEF TrackInv

LEMMA TrackStep == TrackInv /\ [Next]_vars => TrackInv'
<1> SUFFICES ASSUME TrackInv, [Next]_vars PROVE TrackInv'
  OBVIOUS
<1>2. CASE UNCHANGED vars
  <2>1. UNCHANGED RestVars
    BY <1>2 DEF vars, RestVars, trackVars, clientVars, modemVars
  <2>2. RunningIsSmallest' /\ UpWithoutRestart' /\ ServedWithoutRestart'
    BY <2>1, RestUnchanged
  <2>3. TypeOK' /\ OdcpiTimerWillFire'
    BY <1>2 DEF vars, trackVars, clientVars, modemVars, odcpiVars, TrackInv, TypeOK,
                OdcpiTimerWillFire
  <2>4. StartIsFresh'
    BY <1>2 DEF vars, trackVars, clientVars, TrackInv, StartIsFresh, Tracked, Used
  <2>5. QED
    BY <2>2, <2>3, <2>4 DEF TrackInv
<1>3. ASSUME NEW c \in Clients, clientCommand(c)
      PROVE  TrackInv'
  BY <1>3, AddClient, RemoveClientCommand, StartCommand, UpdateCommand, StopCommand
     DEF clientCommand
<1>4. CASE adapterThread
  BY <1>4, SaveClient, StartSession, UpdateSession, StopSession, RemoveClient, StopClientSessions,
     EraseClient, RestartSessions, OdcpiStart, OdcpiStop, OdcpiExpire DEF adapterThread
<1>5. QED
  BY <1>2, <1>3, <1>4, EngineDown, EngineUp, OdcpiReport, OdcpiExpireEvent DEF Next

THEOREM TrackInvariant == Spec => []TrackInv
<1>1. QED
  BY InitTrackInv, TrackStep, PTL DEF Spec

(* The state of the adapter stays well typed, whatever the messages.       *)
THEOREM TypeCorrect == Spec => []TypeOK
<1>1. TrackInv => TypeOK
  BY DEF TrackInv
<1>2. QED
  BY <1>1, TrackInvariant, PTL

(* startTrackingMultiplex, updateTrackingMultiplex and                     *)
(* stopTrackingMultiplex keep the fix at the smallest interval, for any    *)
(* number of sessions and any failures and restarts of the modem.          *)
THEOREM SmallestRuns == Spec => []RunningIsSmallest
<1>1. TrackInv => RunningIsSmallest
  BY DEF TrackInv
<1>2. QED
  BY <1>1, TrackInvariant, PTL

(* No failed call of LocApi leaves a session without a fix, as long as the *)
(* modem does not restart.                                                 *)
THEOREM SessionsServed == Spec => []ServedWithoutRestart
<1>1. TrackInv => ServedWithoutRestart
  BY DEF TrackInv
<1>2. QED
  BY <1>1, TrackInvariant, PTL

(* OdcpiTimer::mActive never promises an expiry that will not come.        *)
THEOREM OdcpiTimerLives == Spec => []OdcpiTimerWillFire
<1>1. TrackInv => OdcpiTimerWillFire
  BY DEF TrackInv
<1>2. QED
  BY <1>1, TrackInvariant, PTL

-----------------------------------------------------------------------------
(* What a client was told agrees with the session map.                     *)

(* A client that is not registered yet has no session and was told of      *)
(* none; its addClient message is the only one.                            *)
Unserved(c) == \A id \in Ids : owner[id] = c => view[id] # "started" /\ id \notin Tracked
Newcomer(c) == c \notin mClientData /\ caller[c] # "new" /\ Unserved(c)

AddQueued(c) == \E i \in DOMAIN queue : queue[i].op = "addClient" /\ queue[i].client = c

CommandsInv ==
  /\ \A i \in DOMAIN queue : queue[i].op = "start" => owner[queue[i].id] = queue[i].client
  /\ \A c \in Clients : AddQueued(c) => Newcomer(c)
  /\ \A i, j \in DOMAIN queue :
       queue[i].op = "addClient" /\ queue[j].op = "addClient" /\ queue[i].client = queue[j].client
         => i = j

CallersInv ==
  /\ \A c \in Clients : caller[c] = "new" => c \notin mClientData /\ \A id \in Ids : owner[id] # c
  /\ \A id \in Ids : owner[id] = NoClient => view[id] = "unknown"

ResponseInv == ResponseIsTrue /\ CommandsInv /\ CallersInv

(* A message other than addClient and start is posted.                     *)
LEMMA PostKeepsCommands ==
  ASSUME TypeOK, CommandsInv, NEW m \in Message, m.op \notin {"addClient", "start"},
         Proper(m), Post(m), owner' = owner, \A c \in Clients : Newcomer(c) => Newcomer(c)'
  PROVE  CommandsInv'
<1>1. \A i \in DOMAIN queue' :
        queue'[i].op \in {"addClient", "start"} => i \in DOMAIN queue /\ queue'[i] = queue[i]
  BY PostFacts
<1>2. \A c \in Clients : AddQueued(c)' => Newcomer(c)'
  BY <1>1 DEF AddQueued, CommandsInv
<1>. QED
  BY <1>1, <1>2 DEF CommandsInv

(* A message is handled; the newcomer it is about may cease to be one.     *)
LEMMA HandleKeepsCommands ==
  ASSUME TypeOK, CommandsInv, NEW op, Handle(op), owner' = owner,
         \A c \in Clients : Newcomer(c) /\ (op = "addClient" => c # Head(queue).client)
                              => Newcomer(c)'
  PROVE  CommandsInv'
<1>1. /\ \A i \in DOMAIN queue' : i + 1 \in DOMAIN queue /\ queue'[i] = queue[i + 1] /\ i + 1 # 1
      /\ DOMAIN queue' \subseteq Nat
      /\ Head(queue).op = op /\ 1 \in DOMAIN queue /\ Head(queue) = queue[1]
  BY HandleFacts
<1>3. ASSUME NEW c \in Clients, AddQueued(c)' PROVE Newcomer(c)'
  <2>1. PICK i \in DOMAIN queue' : queue'[i].op = "addClient" /\ queue'[i].client = c
    BY <1>3 DEF AddQueued
  <2>2. Newcomer(c)
    BY <1>1, <2>1 DEF CommandsInv, AddQueued
  <2>3. op = "addClient" => c # Head(queue).client
    BY <1>1, <2>1 DEF CommandsInv
  <2>. QED
    BY <2>2, <2>3
<1>4. ASSUME NEW i \in DOMAIN queue', NEW j \in DOMAIN queue',
             queue'[i].op = "addClient", queue'[j].op = "addClient",
             queue'[i].client = queue'[j].client
      PROVE  i = j
  <2>1. i + 1 = j + 1
    BY <1>1, <1>4 DEF CommandsInv
  <2>. QED
    BY <1>1, <2>1
<1>5. \A i \in DOMAIN queue' : queue'[i].op = "start" => owner'[queue'[i].id] = queue'[i].client
  BY <1>1 DEF CommandsInv
<1>. QED
  BY <1>3, <1>4, <1>5 DEF CommandsInv

(* Neither sessions, clients nor answers change.                           *)
LEMMA SameResponses ==
  ASSUME ResponseInv, UNCHANGED <<mClientData, mTrackingSessions, owner, caller, view>>,
         removing' = removing \/ removing = NoClient
  PROVE  /\ ResponseIsTrue' /\ CallersInv'
         /\ \A c \in Clients : Newcomer(c) => Newcomer(c)'
<1>1. Tracked' = Tracked /\ Used' = Used
  BY DEF Tracked, Used
<1>2. ResponseIsTrue'
  <2>. SUFFICES ASSUME NEW id \in Used, owner[id] \in mClientData, owner[id] # removing'
                PROVE  view[id] = "started" <=> id \in Tracked
    BY <1>1 DEF ResponseIsTrue
  <2>1. owner[id] # removing
    BY DEF Used
  <2>. QED
    BY <2>1 DEF ResponseInv, ResponseIsTrue
<1>3. CallersInv'
  BY DEF ResponseInv, CallersInv
<1>4. \A c \in Clients : Newcomer(c) => Newcomer(c)'
  BY <1>1 DEF Newcomer, Unserved
<1>. QED
  BY <1>2, <1>3, <1>4

LEMMA AddClientTold ==
  ASSUME TrackInv, ResponseInv, NEW c \in Clients, addClientCommand(c) PROVE ResponseInv'
<1> DEFINE m == Msg("addClient", c, 0, 0)
<1>1. m \in Message /\ m.op = "addClient" /\ m.client = c /\ Post(m)
  BY MsgTyped, ZeroIsOption DEF Ops, addClientCommand
<1> HIDE DEF m
<1>2. /\ caller[c] = "new" /\ caller' = [caller EXCEPT ![c] = "open"]
      /\ UNCHANGED <<mClientData, mTrackingSessions, removing, owner, view>>
  BY DEF addClientCommand, trackVars
<1>3. Tracked' = Tracked /\ Used' = Used
  BY <1>2 DEF Tracked, Used
<1>4. \A d \in Clients : caller'[d] = IF d = c THEN "open" ELSE caller[d]
  BY <1>2 DEF TrackInv, TypeOK
<1>5. Newcomer(c)' /\ \A d \in Clients : Newcomer(d) => Newcomer(d)' /\ d # c
  <2>1. \A id \in Ids : owner[id] # c
    BY <1>2 DEF ResponseInv, CallersInv
  <2>2. c \notin mClientData
    BY <1>2 DEF ResponseInv, CallersInv
  <2>. QED
    BY <1>2, <1>3, <1>4, <2>1, <2>2 DEF Newcomer, Unserved
<1>6. CommandsInv'
  <2>1. /\ \A i \in DOMAIN queue' : (i \in DOMAIN queue /\ queue'[i] = queue[i])
                                   \/ (queue'[i] = m /\ i = Len(queue) + 1)
    <3>1. queue \in Seq(Message) /\ queue' = Append(queue, m)
      BY <1>1 DEF TrackInv, TypeOK, Post
    <3>. QED
      BY <3>1
  <2>2. \A d \in Clients : AddQueued(d) => Newcomer(d)
    BY DEF ResponseInv, CommandsInv
  <2>3. ASSUME NEW d \in Clients, AddQueued(d)' PROVE Newcomer(d)'
    <3>1. d = c \/ AddQueued(d)
      BY <1>1, <2>1, <2>3 DEF AddQueued
    <3>. QED
      BY <1>5, <2>2, <3>1
  <2>4. ASSUME NEW i \in DOMAIN queue', NEW j \in DOMAIN queue',
               queue'[i].op = "addClient", queue'[j].op = "addClient",
               queue'[i].client = queue'[j].client
        PROVE  i = j
    <3>1. \A k \in DOMAIN queue : queue[k].op = "addClient" => queue[k].client # c
      BY <1>5, <2>2 DEF AddQueued
    <3>. QED
      BY <1>1, <2>1, <2>4, <3>1 DEF ResponseInv, CommandsInv
  <2>5. \A i \in DOMAIN queue' : queue'[i].op = "start" => owner'[queue'[i].id] = queue'[i].client
    BY <1>1, <1>2, <2>1 DEF ResponseInv, CommandsInv
  <2>. QED
    BY <2>3, <2>4, <2>5 DEF CommandsInv
<1>7. ResponseIsTrue' /\ CallersInv'
  BY <1>2, <1>3, <1>4 DEF ResponseInv, ResponseIsTrue, CallersInv
<1>. QED
  BY <1>6, <1>7 DEF ResponseInv

LEMMA StartTold ==
  ASSUME TrackInv, ResponseInv, NEW c \in Clients, startTrackingCommand(c) PROVE ResponseInv'
<1>1. PICK id \in Ids \ Used, o \in Options :
        /\ caller[c] = "open"
        /\ owner' = [owner EXCEPT ![id] = c]
        /\ Post(Msg("start", c, id, o))
        /\ UNCHANGED <<trackVars, caller, calls, view, modemVars, odcpiVars>>
  BY DEF startTrackingCommand
<1> DEFINE m == Msg("start", c, id, o)
<1>2. m \in Message /\ m.op = "start" /\ m.id = id /\ m.client = c /\ Post(m)
  BY <1>1, MsgTyped DEF Ops
<1> HIDE DEF m
<1>3. \A i \in DOMAIN queue' : (i \in DOMAIN queue /\ queue'[i] = queue[i])
                              \/ (queue'[i] = m /\ i = Len(queue) + 1)
  <2>1. queue \in Seq(Message) /\ queue' = Append(queue, m)
    BY <1>2 DEF TrackInv, TypeOK, Post
  <2>. QED
    BY <2>1
<1>4. /\ \A k \in Ids : owner'[k] = IF k = id THEN c ELSE owner[k]
      /\ owner[id] = NoClient /\ id \notin Tracked /\ view[id] = "unknown"
      /\ Used' = Used \cup {id} /\ Tracked' = Tracked
      /\ UNCHANGED <<mClientData, removing, caller, view>>
  <2>1. id \in Ids /\ owner[id] = NoClient
    BY DEF Used
  <2>2. \A k \in Ids : owner'[k] = IF k = id THEN c ELSE owner[k]
    BY <1>1 DEF TrackInv, TypeOK
  <2>3. id \notin Tracked /\ view[id] = "unknown"
    BY <2>1 DEF TrackInv, StartIsFresh, ResponseInv, CallersInv
  <2>4. Used' = Used \cup {id} /\ Tracked' = Tracked
    BY <1>1, <2>2, ClientsAssumption DEF Used, Tracked, trackVars
  <2>. QED
    BY <1>1, <2>1, <2>2, <2>3, <2>4 DEF trackVars
<1>5. \A d \in Clients : Newcomer(d) => Newcomer(d)'
  BY <1>4 DEF Newcomer, Unserved
<1>6. CommandsInv'
  <2>1. ASSUME NEW i \in DOMAIN queue', queue'[i].op = "start"
        PROVE  owner'[queue'[i].id] = queue'[i].client
    <3>1. CASE queue'[i] = m
      BY <1>2, <1>4, <3>1
    <3>2. CASE i \in DOMAIN queue /\ queue'[i] = queue[i]
      <4>1. queue[i].id \in Used /\ owner[queue[i].id] = queue[i].client
        BY <2>1, <3>2 DEF TrackInv, StartIsFresh, ResponseInv, CommandsInv
      <4>. QED
        BY <1>4, <3>2, <4>1 DEF Used
    <3>. QED
      BY <1>3, <3>1, <3>2
  <2>2. ASSUME NEW d \in Clients, AddQueued(d)' PROVE Newcomer(d)'
    <3>1. AddQueued(d)
      BY <1>2, <1>3, <2>2 DEF AddQueued
    <3>. QED
      BY <1>5, <3>1 DEF ResponseInv, CommandsInv
  <2>3. \A i, j \in DOMAIN queue' :
          queue'[i].op = "addClient" /\ queue'[j].op = "addClient"
            /\ queue'[i].client = queue'[j].client => i = j
    BY <1>2, <1>3 DEF ResponseInv, CommandsInv
  <2>. QED
    BY <2>1, <2>2, <2>3 DEF CommandsInv
<1>7. ResponseIsTrue' /\ CallersInv'
  BY <1>1, <1>4, ClientsAssumption DEF ResponseInv, ResponseIsTrue, CallersInv, Used
<1>. QED
  BY <1>6, <1>7 DEF ResponseInv

(* A handler that leaves sessions, clients and answers alone.              *)
LEMMA QuietHandler ==
  ASSUME TrackInv, ResponseInv, NEW op, Handle(op),
         UNCHANGED <<mClientData, mTrackingSessions, owner, caller, view>>,
         removing' = removing \/ removing = NoClient
  PROVE  ResponseInv'
<1>1. /\ ResponseIsTrue' /\ CallersInv'
      /\ \A c \in Clients : Newcomer(c) => Newcomer(c)'
  BY SameResponses
<1>2. CommandsInv'
  BY <1>1, HandleKeepsCommands DEF TrackInv, ResponseInv
<1>. QED
  BY <1>1, <1>2 DEF ResponseInv

(* A message is posted that is neither about a new client nor a new session. *)
LEMMA QuietPost ==
  ASSUME TrackInv, ResponseInv, NEW m \in Message, m.op \notin {"addClient", "start"}, Proper(m),
         Post(m), UNCHANGED <<mClientData, mTrackingSessions, owner, caller, view, removing>>
  PROVE  ResponseInv'
<1>1. /\ ResponseIsTrue' /\ CallersInv'
      /\ \A c \in Clients : Newcomer(c) => Newcomer(c)'
  BY SameResponses
<1>2. CommandsInv'
  BY <1>1, PostKeepsCommands DEF TrackInv, ResponseInv
<1>. QED
  BY <1>1, <1>2 DEF ResponseInv

LEMMA RemoveTold ==
  ASSUME TrackInv, ResponseInv, NEW c \in Clients, removeClientCommand(c) PROVE ResponseInv'
<1> DEFINE m == Msg("removeClient", c, 0, 0)
<1>1. m \in Message /\ m.op = "removeClient" /\ Post(m) /\ Proper(m)
  BY MsgTyped, ZeroIsOption DEF Ops, removeClientCommand, Proper, NeedsId
<1> HIDE DEF m
<1>2. /\ caller[c] = "open" /\ caller' = [caller EXCEPT ![c] = "closed"]
      /\ UNCHANGED <<mClientData, mTrackingSessions, removing, owner, view>>
  BY DEF removeClientCommand, trackVars
<1>3. Tracked' = Tracked /\ Used' = Used
  BY <1>2 DEF Tracked, Used
<1>4. \A d \in Clients : caller'[d] = IF d = c THEN "closed" ELSE caller[d]
  BY <1>2 DEF TrackInv, TypeOK
<1>5. \A d \in Clients : Newcomer(d) => Newcomer(d)'
  BY <1>2, <1>3, <1>4 DEF Newcomer, Unserved
<1>6. CommandsInv'
  BY <1>1, <1>2, <1>5, PostKeepsCommands DEF TrackInv, ResponseInv
<1>7. ResponseIsTrue' /\ CallersInv'
  BY <1>2, <1>3, <1>4 DEF ResponseInv, ResponseIsTrue, CallersInv
<1>. QED
  BY <1>6, <1>7 DEF ResponseInv

LEMMA SaveTold == ASSUME TrackInv, ResponseInv, saveClient PROVE ResponseInv'
<1>1. PICK c : c = Head(queue).client
  OBVIOUS
<1>2. /\ Handle("addClient") /\ mClientData' = mClientData \cup {c}
      /\ UNCHANGED <<mTrackingSessions, removing, owner, caller, view>>
  BY <1>1 DEF saveClient, clientVars
<1>3. c \in Clients /\ Newcomer(c)
  <2>1. /\ Head(queue) = queue[1] /\ 1 \in DOMAIN queue
        /\ Head(queue).op = "addClient" /\ c \in Clients
    BY <1>1, <1>2, HandleFacts DEF TrackInv, Proper
  <2>. QED
    BY <1>1, <2>1 DEF ResponseInv, CommandsInv, AddQueued
<1>4. Tracked' = Tracked /\ Used' = Used
  BY <1>2 DEF Tracked, Used
<1>5. CommandsInv'
  <2>1. \A d \in Clients : Newcomer(d) /\ d # c => Newcomer(d)'
    BY <1>2, <1>4 DEF Newcomer, Unserved
  <2>. QED
    BY <1>1, <1>2, <2>1, HandleKeepsCommands DEF TrackInv, ResponseInv
<1>6. ResponseIsTrue'
  BY <1>2, <1>3, <1>4 DEF ResponseInv, ResponseIsTrue, Newcomer, Unserved, Used
<1>7. CallersInv'
  BY <1>2, <1>3 DEF ResponseInv, CallersInv, Newcomer
<1>. QED
  BY <1>5, <1>6, <1>7 DEF ResponseInv

(* One session id is started, stopped or refused, and its client told so.  *)
LEMMA SessionTold ==
  ASSUME TrackInv, ResponseInv, NEW id \in Ids, NEW op, Handle(op), op # "addClient",
         UNCHANGED <<mClientData, removing, owner, caller>>,
         \A k \in Ids \ {id} : view'[k] = view[k] /\ (k \in Tracked' <=> k \in Tracked),
         \/ view'[id] = view[id] /\ (id \in Tracked' <=> id \in Tracked)
         \/ view'[id] = "started" /\ id \in Tracked' /\ owner[id] \in mClientData
         \/ view'[id] # "started" /\ id \notin Tracked',
         owner[id] = NoClient => view'[id] = view[id]
  PROVE  ResponseInv'
<1>1. Used' = Used /\ Used \subseteq Ids
  BY DEF Used
<1>2. ResponseIsTrue'
  BY <1>1 DEF ResponseInv, ResponseIsTrue
<1>3. CallersInv'
  BY DEF ResponseInv, CallersInv
<1>4. \A c \in Clients : Newcomer(c) => Newcomer(c)'
  BY DEF Newcomer, Unserved
<1>5. CommandsInv'
  BY <1>4, HandleKeepsCommands DEF TrackInv, ResponseInv
<1>. QED
  BY <1>2, <1>3, <1>5 DEF ResponseInv

(* A session of f is set to n.                                             *)
LEMMA TrackedExcept ==
  ASSUME TypeOK, NEW id \in Ids, NEW n, mTrackingSessions' = [mTrackingSessions EXCEPT ![id] = n]
  PROVE  \A k \in Ids : k \in Tracked' <=> IF k = id THEN n # 0 ELSE k \in Tracked
BY DEF TypeOK, Tracked

LEMMA StartSessionTold == ASSUME TrackInv, ResponseInv, startSession PROVE ResponseInv'
<1>1. PICK m : m = Head(queue)
  OBVIOUS
<1>2. /\ Handle("start") /\ UNCHANGED <<mClientData, removing, owner, caller>>
      /\ view \in [Ids -> {"unknown", "started", "refused", "stopped"}]
  BY DEF startSession, TrackInv, TypeOK
<1>3. m.op = "start" /\ m.id \in Ids /\ m = queue[1] /\ 1 \in DOMAIN queue
  BY <1>1, <1>2, HandleFacts DEF TrackInv, Proper, NeedsId
<1>4. owner[m.id] = m.client /\ owner[m.id] # NoClient /\ m.id \notin Tracked
  BY <1>3 DEF TrackInv, StartIsFresh, Used, ResponseInv, CommandsInv
<1>5. CASE /\ view' = [view EXCEPT ![m.id] = IF m.client \in mClientData THEN "refused" ELSE @]
           /\ mTrackingSessions' = mTrackingSessions
  <2>1. Tracked' = Tracked
    BY <1>5 DEF Tracked
  <2>2. /\ \A k \in Ids \ {m.id} : view'[k] = view[k]
        /\ view'[m.id] = view[m.id] \/ view'[m.id] = "refused"
    BY <1>2, <1>3, <1>5
  <2>. QED
    BY <1>2, <1>3, <1>4, <2>1, <2>2, SessionTold
<1>6. CASE /\ view' = [view EXCEPT ![m.id] = "started"]
           /\ mTrackingSessions' = [mTrackingSessions EXCEPT ![m.id] = m.arg]
           /\ m.arg # 0 /\ m.client \in mClientData
  <2>1. \A k \in Ids : k \in Tracked' <=> IF k = m.id THEN m.arg # 0 ELSE k \in Tracked
    BY <1>3, <1>6, TrackedExcept DEF TrackInv
  <2>2. \A k \in Ids : view'[k] = IF k = m.id THEN "started" ELSE view[k]
    BY <1>2, <1>3, <1>6
  <2>. QED
    BY <1>2, <1>3, <1>4, <1>6, <2>1, <2>2, SessionTold
<1>. QED
  BY <1>1, <1>5, <1>6 DEF startSession

LEMMA UpdateSessionTold == ASSUME TrackInv, ResponseInv, updateSession PROVE ResponseInv'
<1>1. PICK m : m = Head(queue)
  OBVIOUS
<1>2. Handle("update") /\ UNCHANGED <<mClientData, removing, owner, caller, view>>
  BY DEF updateSession, clientVars
<1>3. m.id \in Ids
  BY <1>1, <1>2, HandleFacts DEF TrackInv, Proper, NeedsId
<1>4. \A k \in Ids : k \in Tracked' <=> k \in Tracked
  <2>1. CASE mTrackingSessions' = mTrackingSessions
    BY <2>1 DEF Tracked
  <2>2. CASE /\ m.id \in Tracked /\ m.arg # 0
             /\ mTrackingSessions' = [mTrackingSessions EXCEPT ![m.id] = m.arg]
    <3>1. \A k \in Ids : k \in Tracked' <=> IF k = m.id THEN m.arg # 0 ELSE k \in Tracked
      BY <1>3, <2>2, TrackedExcept DEF TrackInv
    <3>. QED
      BY <2>2, <3>1
  <2>. QED
    <3>1. CASE m.id \in Tracked /\ m.arg # 0
      <4>1. PICK r \in updateTrackingMultiplex(m.id, m.arg) :
              mTrackingSessions' = IF r.ok THEN [mTrackingSessions EXCEPT ![m.id] = m.arg]
                                   ELSE mTrackingSessions
        BY <1>1, <3>1 DEF updateSession
      <4>. QED
        BY <2>1, <2>2, <3>1, <4>1
    <3>2. CASE ~(m.id \in Tracked /\ m.arg # 0)
      BY <1>1, <2>1, <3>2 DEF updateSession
    <3>. QED
      BY <3>1, <3>2
<1>. QED
  BY <1>2, <1>3, <1>4, SessionTold

LEMMA StopSessionTold == ASSUME TrackInv, ResponseInv, stopSession PROVE ResponseInv'
<1>1. PICK m : m = Head(queue)
  OBVIOUS
<1>2. /\ Handle("stop") /\ UNCHANGED <<mClientData, removing, owner, caller>>
      /\ view \in [Ids -> {"unknown", "started", "refused", "stopped"}]
  BY DEF stopSession, TrackInv, TypeOK
<1>3. m.id \in Ids
  BY <1>1, <1>2, HandleFacts DEF TrackInv, Proper, NeedsId
<1>4. CASE UNCHANGED <<mTrackingSessions, view>>
  BY <1>2, <1>3, <1>4, SessionTold DEF Tracked
<1>5. CASE /\ m.id \in Tracked
           /\ \E ok : /\ eraseStopped(ok, m.id)
                      /\ view' = [view EXCEPT ![m.id] = IF ok THEN "stopped" ELSE @]
  <2>1. PICK ok : /\ eraseStopped(ok, m.id)
                  /\ view' = [view EXCEPT ![m.id] = IF ok THEN "stopped" ELSE @]
    BY <1>5
  <2>2. \A k \in Ids \ {m.id} : view'[k] = view[k] /\ (k \in Tracked' <=> k \in Tracked)
    BY <1>2, <1>3, <2>1 DEF eraseStopped, Tracked, TrackInv, TypeOK
  <2>3. \/ view'[m.id] = view[m.id] /\ (m.id \in Tracked' <=> m.id \in Tracked)
        \/ view'[m.id] = "stopped" /\ m.id \notin Tracked'
    BY <1>2, <1>3, <2>1 DEF eraseStopped, Tracked, TrackInv, TypeOK
  <2>4. owner[m.id] # NoClient
    BY <1>5 DEF TrackInv, StartIsFresh, Used
  <2>. QED
    BY <1>2, <1>3, <2>2, <2>3, <2>4, SessionTold
<1>. QED
  BY <1>1, <1>4, <1>5 DEF stopSession

(* The client whose sessions are stopped is not told, and not looked at.   *)
LEMMA StopClientTold == ASSUME TrackInv, ResponseInv, stopClientSessions PROVE ResponseInv'
<1>1. PICK id \in Remaining : \E ok : eraseStopped(ok, id)
  BY DEF stopClientSessions
<1>2. UNCHANGED <<queue, mClientData, removing, owner, caller, view>>
  BY DEF stopClientSessions, clientVars
<1>3. id \in Ids /\ owner[id] = removing
  BY <1>1 DEF Remaining, Tracked
<1>4. /\ \A k \in Ids \ {id} : k \in Tracked' <=> k \in Tracked
      /\ id \in Tracked' => id \in Tracked
  BY <1>1, <1>3 DEF eraseStopped, Tracked, TrackInv, TypeOK
<1>5. Used' = Used /\ Used \subseteq Ids
  BY <1>2 DEF Used
<1>6. ResponseIsTrue' /\ CallersInv'
  BY <1>2, <1>3, <1>4, <1>5 DEF ResponseInv, ResponseIsTrue, CallersInv
<1>7. \A c \in Clients : Newcomer(c) => Newcomer(c)'
  BY <1>2, <1>4 DEF Newcomer, Unserved
<1>8. \A c \in Clients : AddQueued(c)' <=> AddQueued(c)
  BY <1>2 DEF AddQueued
<1>9. CommandsInv'
  BY <1>2, <1>7, <1>8 DEF ResponseInv, CommandsInv
<1>. QED
  BY <1>6, <1>9 DEF ResponseInv

LEMMA EraseTold == ASSUME TrackInv, ResponseInv, eraseClient PROVE ResponseInv'
<1>1. /\ UNCHANGED <<queue, mTrackingSessions, owner, caller, view>>
      /\ mClientData' = mClientData \ {removing} /\ removing' = NoClient
  BY DEF eraseClient, clientVars
<1>2. Tracked' = Tracked /\ Used' = Used
  BY <1>1 DEF Tracked, Used
<1>3. ResponseIsTrue' /\ CallersInv'
  BY <1>1, <1>2 DEF ResponseInv, ResponseIsTrue, CallersInv
<1>4. \A c \in Clients : Newcomer(c) => Newcomer(c)'
  BY <1>1, <1>2 DEF Newcomer, Unserved
<1>5. \A c \in Clients : AddQueued(c)' <=> AddQueued(c)
  BY <1>1 DEF AddQueued
<1>6. CommandsInv'
  BY <1>1, <1>4, <1>5 DEF ResponseInv, CommandsInv
<1>. QED
  BY <1>3, <1>6 DEF ResponseInv

(* Nothing that clients see changes, and no message.                       *)
LEMMA NothingTold ==
  ASSUME TrackInv, ResponseInv,
         UNCHANGED <<queue, mClientData, mTrackingSessions, owner, caller, view, removing>>
  PROVE  ResponseInv'
<1>1. /\ ResponseIsTrue' /\ CallersInv'
      /\ \A c \in Clients : Newcomer(c) => Newcomer(c)'
  BY SameResponses
<1>2. \A c \in Clients : AddQueued(c)' <=> AddQueued(c)
  BY DEF AddQueued
<1>3. CommandsInv'
  BY <1>1, <1>2 DEF ResponseInv, CommandsInv
<1>. QED
  BY <1>1, <1>3 DEF ResponseInv

LEMMA CommandTold ==
  ASSUME TrackInv, ResponseInv, NEW c \in Clients, clientCommand(c) PROVE ResponseInv'
<1>1. ASSUME NEW op \in {"update", "stop"}, NEW id \in Used, NEW o \in Options,
             Post(Msg(op, c, id, o)), UNCHANGED <<trackVars, owner, caller, view>>
      PROVE  ResponseInv'
  <2>1. PICK m : m = Msg(op, c, id, o)
    OBVIOUS
  <2>2. m \in Message /\ m.op = op /\ m.id = id /\ id \in Ids
    BY <2>1, MsgTyped DEF Ops, Used
  <2>3. Proper(m) /\ Post(m)
    BY <1>1, <2>1, <2>2 DEF Proper
  <2>. QED
    BY <1>1, <2>2, <2>3, QuietPost DEF trackVars
<1>2. CASE updateTrackingOptionsCommand(c)
  BY <1>1, <1>2 DEF updateTrackingOptionsCommand
<1>3. CASE stopTrackingCommand(c)
  BY <1>1, <1>3, ZeroIsOption DEF stopTrackingCommand
<1>. QED
  BY <1>2, <1>3, AddClientTold, RemoveTold, StartTold DEF clientCommand

LEMMA HandlerTold == ASSUME TrackInv, ResponseInv, adapterThread PROVE ResponseInv'
<1>1. CASE removeClient
  BY <1>1, QuietHandler DEF removeClient, Handle, clientVars
<1>2. CASE restartSessions
  BY <1>2, QuietHandler DEF restartSessions, trackVars, clientVars
<1>3. ASSUME NEW emergency \in BOOLEAN, odcpiStart(emergency) PROVE ResponseInv'
  BY <1>3, QuietHandler DEF odcpiStart, trackVars, clientVars
<1>4. CASE odcpiStop
  BY <1>4, QuietHandler DEF odcpiStop, trackVars, clientVars
<1>5. CASE odcpiTimerExpire
  BY <1>5, QuietHandler DEF odcpiTimerExpire, trackVars, clientVars
<1>. QED
  BY <1>1, <1>2, <1>3, <1>4, <1>5, SaveTold, StartSessionTold, UpdateSessionTold, StopSessionTold,
     StopClientTold, EraseTold DEF adapterThread

LEMMA ModemTold ==
  ASSUME TrackInv, ResponseInv,
         engineDown \/ handleEngineUpEvent \/ reportOdcpiRequestEvent \/ odcpiTimerExpireEvent
  PROVE  ResponseInv'
<1>1. UNCHANGED <<mClientData, mTrackingSessions, owner, caller, view, removing>>
  BY DEF engineDown, handleEngineUpEvent, reportOdcpiRequestEvent, odcpiTimerExpireEvent,
         trackVars, clientVars
<1>2. \/ queue' = queue
      \/ \E op \in Ops \ ({"addClient"} \cup NeedsId) : Post(Msg(op, NoClient, 0, 0))
  BY DEF engineDown, handleEngineUpEvent, reportOdcpiRequestEvent, odcpiTimerExpireEvent, Ops,
         NeedsId
<1>3. ASSUME NEW op \in Ops \ ({"addClient"} \cup NeedsId), Post(Msg(op, NoClient, 0, 0))
      PROVE  ResponseInv'
  <2>1. PICK m : m = Msg(op, NoClient, 0, 0)
    OBVIOUS
  <2>2. m \in Message /\ m.op = op
    BY <2>1, MsgTyped, ZeroIsOption
  <2>3. Proper(m) /\ m.op \notin {"addClient", "start"}
    BY <2>2 DEF Proper, NeedsId
  <2>. QED
    BY <1>1, <1>3, <2>1, <2>2, <2>3, QuietPost
<1>. QED
  BY <1>1, <1>2, <1>3, NothingTold

LEMMA ResponseStep == TrackInv /\ ResponseInv /\ [Next]_vars => ResponseInv'
<1>. SUFFICES ASSUME TrackInv, ResponseInv, [Next]_vars PROVE ResponseInv'
  OBVIOUS
<1>1. CASE UNCHANGED vars
  BY <1>1, NothingTold DEF vars, trackVars, clientVars
<1>. QED
  BY <1>1, CommandTold, HandlerTold, ModemTold DEF Next

LEMMA ResponseInit == Init => ResponseInv
<1>. SUFFICES ASSUME Init PROVE ResponseInv
  OBVIOUS
<1>1. DOMAIN queue = {}
  BY DEF Init
<1>. QED
  BY <1>1, ClientsAssumption
     DEF Init, ResponseInv, ResponseIsTrue, CommandsInv, CallersInv, AddQueued

(* responseCb tells a registered client the truth about its sessions, for  *)
(* any number of clients and sessions, while others come, start, stop and  *)
(* leave and the modem refuses, fails and restarts.                        *)
THEOREM ResponsesTrue == Spec => []ResponseIsTrue
<1>1. ResponseInv => ResponseIsTrue
  BY DEF ResponseInv
<1>. QED
  BY <1>1, TrackInvariant, ResponseInit, ResponseStep, PTL DEF Spec

=============================================================================
