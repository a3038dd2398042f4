---------------------------- MODULE MsgTaskProofs ---------------------------
(***************************************************************************)
(* MsgTask for any set of messages: who owns delegate, runnable and        *)
(* messages, no lost wake-up, and that the task is the queue of MsgQueue.  *)
(* The second part is about who fills and empties it: the client and the   *)
(* adapter of GnssClient.                                                  *)
(***************************************************************************)
EXTENDS MsgTask, GnssClient, SequenceTheorems, TLAPS

-----------------------------------------------------------------------------
(* The list.                                                               *)

Distinct(s) == \A i, j \in DOMAIN s : i # j => s[i] # s[j]

LEMMA ReverseType ==
  ASSUME NEW S, NEW s \in Seq(S)
  PROVE  /\ Reverse(s) \in Seq(S) /\ Len(Reverse(s)) = Len(s)
         /\ \A i \in 1 .. Len(s) : Reverse(s)[i] = s[Len(s) - i + 1]
<1>1. Len(s) \in Nat /\ \A i \in 1 .. Len(s) : s[Len(s) - i + 1] \in S
  BY LenProperties, ElementOfSeq
<1>. QED
  BY <1>1 DEF Reverse

(* linked_list_add: the new element is at the head, and the last to be taken. *)
LEMMA ListAdd ==
  ASSUME NEW S, NEW list \in Seq(S), NEW m \in S
  PROVE  LET new == linked_list_add(list, m)
         IN  /\ new \in Seq(S)
             /\ ToSet(new) = ToSet(list) \cup {m}
             /\ Reverse(new) = Append(Reverse(list), m)
             /\ Distinct(list) /\ m \notin ToSet(list) => Distinct(new)
<1>. DEFINE new == linked_list_add(list, m)
<1>1. <<m>> \in Seq(S) /\ Len(<<m>>) = 1 /\ <<m>>[1] = m
  OBVIOUS
<1>2. Len(list) \in Nat /\ DOMAIN list = 1 .. Len(list)
  BY LenProperties
<1>3. /\ new \in Seq(S) /\ Len(new) = Len(list) + 1
      /\ \A i \in 1 .. Len(list) + 1 : new[i] = IF i = 1 THEN m ELSE list[i - 1]
  BY <1>1, <1>2, ConcatProperties DEF linked_list_add
<1>4. DOMAIN new = 1 .. Len(list) + 1
  BY <1>3, LenProperties
<1>. HIDE DEF new
<1>5. ToSet(new) = ToSet(list) \cup {m}
  <2>1. ASSUME NEW i \in 1 .. Len(list) PROVE list[i] \in ToSet(new)
    <3>1. new[i + 1] = list[i] /\ i + 1 \in DOMAIN new
      BY <1>2, <1>3, <1>4
    <3>. QED
      BY <3>1 DEF ToSet
  <2>2. m \in ToSet(new)
    BY <1>2, <1>3, <1>4 DEF ToSet
  <2>3. ASSUME NEW i \in DOMAIN new PROVE new[i] \in ToSet(list) \cup {m}
    <3>1. CASE i = 1
      BY <1>2, <1>3, <1>4, <3>1
    <3>2. CASE i # 1
      <4>1. i - 1 \in DOMAIN list /\ new[i] = list[i - 1]
        BY <1>2, <1>3, <1>4, <3>2
      <4>. QED
        BY <4>1 DEF ToSet
    <3>. QED
      BY <3>1, <3>2
  <2>4. ToSet(new) \subseteq ToSet(list) \cup {m}
    BY <2>3 DEF ToSet
  <2>5. ASSUME NEW x \in ToSet(list) PROVE x \in ToSet(new)
    <3>1. PICK i \in 1 .. Len(list) : x = list[i]
      BY <1>2 DEF ToSet
    <3>. QED
      BY <2>1, <3>1
  <2>. QED
    BY <2>2, <2>4, <2>5
<1>6. Reverse(new) = Append(Reverse(list), m)
  <2>1. Reverse(list) \in Seq(S) /\ Len(Reverse(list)) = Len(list)
    BY ReverseType
  <2>2. Reverse(new) \in Seq(S) /\ Len(Reverse(new)) = Len(list) + 1
    BY <1>3, ReverseType
  <2>3. /\ Append(Reverse(list), m) \in Seq(S)
        /\ Len(Append(Reverse(list), m)) = Len(list) + 1
        /\ \A i \in 1 .. Len(list) : Append(Reverse(list), m)[i] = Reverse(list)[i]
        /\ Append(Reverse(list), m)[Len(list) + 1] = m
    BY <2>1, AppendProperties
  <2>4. ASSUME NEW i \in 1 .. Len(list) + 1
        PROVE  Reverse(new)[i] = Append(Reverse(list), m)[i]
    <3>1. Reverse(new)[i] = new[Len(list) + 1 - i + 1]
      BY <1>3, ReverseType
    <3>2. CASE i = Len(list) + 1
      BY <1>2, <1>3, <2>3, <3>1, <3>2
    <3>3. CASE i # Len(list) + 1
      <4>1. i \in 1 .. Len(list) /\ Len(list) + 1 - i + 1 \in 2 .. Len(list) + 1
        BY <1>2, <3>3
      <4>2. new[Len(list) + 1 - i + 1] = list[Len(list) - i + 1]
        BY <1>2, <1>3, <4>1
      <4>3. Reverse(list)[i] = list[Len(list) - i + 1]
        BY <4>1, ReverseType
      <4>. QED
        BY <2>3, <3>1, <4>1, <4>2, <4>3
    <3>. QED
      BY <3>2, <3>3
  <2>. QED
    BY <2>2, <2>3, <2>4, SeqEqual
<1>7. ASSUME Distinct(list), m \notin ToSet(list) PROVE Distinct(new)
  <2>. SUFFICES ASSUME NEW i \in DOMAIN new, NEW j \in DOMAIN new, i < j
                PROVE  new[i] # new[j]
    BY <1>2, <1>4 DEF Distinct
  <2>1. j - 1 \in DOMAIN list /\ new[j] = list[j - 1]
    BY <1>2, <1>3, <1>4
  <2>2. CASE i = 1
    BY <1>2, <1>3, <1>4, <1>7, <2>1, <2>2 DEF ToSet
  <2>3. CASE i # 1
    <3>1. i - 1 \in DOMAIN list /\ new[i] = list[i - 1] /\ i - 1 # j - 1
      BY <1>2, <1>3, <1>4, <2>3
    <3>. QED
      BY <1>7, <2>1, <3>1 DEF Distinct
  <2>. QED
    BY <2>2, <2>3
<1>. QED
  BY <1>3, <1>5, <1>6, <1>7 DEF new

(* linked_list_remove takes the element that was added first. *)
LEMMA ListRemove ==
  ASSUME NEW S, NEW list \in Seq(S), list # <<>>
  PROVE  LET rest == linked_list_remove(list)
         IN  /\ rest \in Seq(S) /\ Last(list) \in S
             /\ ToSet(list) = ToSet(rest) \cup {Last(list)}
             /\ Reverse(list) # <<>> /\ Head(Reverse(list)) = Last(list)
             /\ Tail(Reverse(list)) = Reverse(rest)
             /\ Distinct(list) => Distinct(rest) /\ Last(list) \notin ToSet(rest)
<1>. DEFINE rest == linked_list_remove(list)
            n == Len(list)
<1>1. n \in Nat \ {0} /\ DOMAIN list = 1 .. n
  BY EmptySeq, LenProperties
<1>2. \A i \in 1 .. n : list[i] \in S
  BY ElementOfSeq
<1>3. /\ rest \in Seq(S) /\ Len(rest) = n - 1
      /\ \A i \in 1 .. n - 1 : rest[i] = list[i]
  <2>1. 1 \in Int /\ n - 1 \in Int /\ \A i \in 1 .. n - 1 : list[i] \in S
    BY <1>1, <1>2
  <2>2. /\ SubSeq(list, 1, n - 1) \in Seq(S)
        /\ Len(SubSeq(list, 1, n - 1)) = IF 1 <= n - 1 THEN n - 1 - 1 + 1 ELSE 0
        /\ \A i \in 1 .. n - 1 - 1 + 1 : SubSeq(list, 1, n - 1)[i] = list[1 + i - 1]
    BY <2>1, SubSeqProperties
  <2>. QED
    BY <1>1, <2>2 DEF linked_list_remove, Front
<1>4. DOMAIN rest = 1 .. n - 1
  BY <1>3, LenProperties
<1>5. Last(list) = list[n] /\ Last(list) \in S
  BY <1>1, <1>2 DEF Last
<1>. HIDE DEF rest, n
<1>6. ToSet(list) = ToSet(rest) \cup {Last(list)}
  <2>1. ASSUME NEW i \in 1 .. n PROVE list[i] \in ToSet(rest) \cup {Last(list)}
    BY <1>1, <1>3, <1>4, <1>5 DEF ToSet
  <2>2. ASSUME NEW i \in 1 .. n - 1 PROVE rest[i] \in ToSet(list)
    BY <1>1, <1>3, <1>4 DEF ToSet
  <2>3. Last(list) \in ToSet(list)
    BY <1>1, <1>5 DEF ToSet
  <2>. QED
    BY <1>1, <1>4, <2>1, <2>2, <2>3 DEF ToSet
<1>7. /\ Reverse(list) \in Seq(S) /\ Len(Reverse(list)) = n
      /\ \A i \in 1 .. n : Reverse(list)[i] = list[n - i + 1]
  BY ReverseType DEF n
<1>8. Reverse(list) # <<>> /\ Head(Reverse(list)) = Last(list)
  <2>1. Reverse(list) # <<>>
    BY <1>1, <1>7, EmptySeq
  <2>2. Head(Reverse(list)) = Reverse(list)[1]
    BY <1>7, <2>1
  <2>. QED
    BY <1>1, <1>5, <1>7, <2>1, <2>2
<1>9. Tail(Reverse(list)) = Reverse(rest)
  <2>1. /\ Tail(Reverse(list)) \in Seq(S)
        /\ Len(Tail(Reverse(list))) = n - 1
        /\ \A i \in 1 .. n - 1 : Tail(Reverse(list))[i] = Reverse(list)[i + 1]
    BY <1>7, <1>8, HeadTailProperties
  <2>2. /\ Reverse(rest) \in Seq(S) /\ Len(Reverse(rest)) = n - 1
        /\ \A i \in 1 .. n - 1 : Reverse(rest)[i] = rest[n - 1 - i + 1]
    BY <1>3, ReverseType
  <2>3. ASSUME NEW i \in 1 .. n - 1 PROVE Tail(Reverse(list))[i] = Reverse(rest)[i]
    <3>1. i + 1 \in 1 .. n /\ n - 1 - i + 1 \in 1 .. n - 1 /\ n - (i + 1) + 1 = n - 1 - i + 1
      BY <1>1
    <3>. QED
      BY <1>3, <1>7, <2>1, <2>2, <3>1
  <2>. QED
    BY <2>1, <2>2, <2>3, SeqEqual
<1>10. Distinct(list) => Distinct(rest) /\ Last(list) \notin ToSet(rest)
  BY <1>1, <1>3, <1>4, <1>5 DEF Distinct, ToSet
<1>. QED
  BY <1>3, <1>5, <1>6, <1>8, <1>9, <1>10 DEF rest

-----------------------------------------------------------------------------
(* The inductive invariant.                                                *)

(* The delegate counts the two that will still destroy it.                 *)
Users == (IF threadPc = "done" THEN 0 ELSE 1) + (IF ownerPc = "done" THEN 0 ELSE 1)

DelegateInv ==
  /\ mRefCount = Users
  /\ delegateAlive <=> mRefCount > 0

(* The thread leaves its loop because of destroy(), and no other way: the  *)
(* queue is unblocked before mRunnable is cleared.  One that found it      *)
(* cleared at the start has received nothing; the others have deleted the  *)
(* task on their way out.                                                  *)
LeavingInv ==
  /\ ownerPc # "idle" => unblocked
  /\ threadPc \in {"exit", "deleteRunnable"} => unblocked
  /\ ~mRunnable => unblocked
  /\ threadPc = "start" => taken = <<>>
  /\ threadPc \in {"bye", "done"} => taken = <<>> \/ ~taskAlive
  /\ threadPc \in {"start", "loop", "rcv", "waiting", "proc"} => taskAlive

(* A message is in the list, with the thread, or deleted, and what has     *)
(* been sent is one of these until the queue is closed.                    *)
MessageInv ==
  /\ ToSet(msg_list) \subseteq sent /\ ToSet(msg) \subseteq sent /\ freed \subseteq sent
  /\ freed \cap ToSet(msg_list) = {} /\ freed \cap ToSet(msg) = {}
  /\ ToSet(msg) \cap ToSet(msg_list) = {}
  /\ Distinct(msg_list)
  /\ threadPc # "proc" => msg = <<>>
  /\ ~unblocked => sent = ToSet(msg_list) \cup ToSet(msg) \cup freed

TaskInv == TypeOK /\ DelegateInv /\ LeavingInv /\ MessageInv /\ NoLostWakeup

LEMMA ToSetEmpty == ToSet(<<>>) = {}
  BY DEF ToSet

LEMMA ToSetOne == \A m : ToSet(<<m>>) = {m}
  BY DEF ToSet

LEMMA TaskInit == Init => TaskInv
<1>. SUFFICES ASSUME Init PROVE TaskInv
  OBVIOUS
<1>0. <<>> \in Seq(Messages) /\ Len(<<>>) = 0
  BY EmptySeq
<1>1. TypeOK
  <2>1. msg \in Seq(Messages) /\ Len(msg) <= 1
    BY <1>0 DEF Init
  <2>2. msg_list \in Seq(Messages) /\ taken \in Seq(Messages)
    BY <1>0 DEF Init
  <2>. QED
    <3>1. unblocked \in BOOLEAN /\ signaled \in BOOLEAN /\ taskAlive \in BOOLEAN
      BY DEF Init
    <3>2. mRunnable \in BOOLEAN /\ mJoinable \in BOOLEAN /\ delegateAlive \in BOOLEAN
      BY DEF Init
    <3>3. mRefCount \in 0..2 /\ threadPc \in ThreadPc /\ ownerPc \in OwnerPc
      BY DEF Init, ThreadPc, OwnerPc
    <3>4. sent \subseteq Messages /\ freed \subseteq Messages
      BY DEF Init
    <3>. QED
      BY <2>1, <2>2, <3>1, <3>2, <3>3, <3>4 DEF TypeOK
<1>2. DelegateInv
  BY DEF Init, DelegateInv, Users
<1>3. LeavingInv /\ NoLostWakeup
  BY DEF Init, LeavingInv, NoLostWakeup
<1>4. MessageInv
  BY ToSetEmpty DEF Init, MessageInv, Distinct
<1>. QED
  BY <1>1, <1>2, <1>3, <1>4 DEF TaskInv

LEMMA SendStep ==
  ASSUME TaskInv, NEW m \in Messages, sendMsg(m)
  PROVE  TaskInv'
<1>1. /\ m \notin sent /\ sent' = sent \cup {m} /\ taskAlive
      /\ UNCHANGED <<unblocked, taskAlive, delegateVars, threadPc, msg, ownerPc, taken, freed>>
  BY DEF sendMsg
<1>2. DelegateInv' /\ LeavingInv'
  BY <1>1 DEF TaskInv, DelegateInv, Users, LeavingInv, delegateVars
<1>3. CASE unblocked
  BY <1>1, <1>2, <1>3 DEF sendMsg, TaskInv, TypeOK, MessageInv, NoLostWakeup, delegateVars, Distinct
<1>4. CASE ~unblocked
  <2>1. msg_list' = linked_list_add(msg_list, m) /\ signaled' = (threadPc = "waiting")
    BY <1>4 DEF sendMsg
  <2>2. /\ msg_list' \in Seq(Messages)
        /\ ToSet(msg_list') = ToSet(msg_list) \cup {m}
        /\ Distinct(msg_list) /\ m \notin ToSet(msg_list) => Distinct(msg_list')
    BY <2>1, ListAdd DEF TaskInv, TypeOK
  <2>3. TypeOK'
    BY <1>1, <2>1, <2>2 DEF TaskInv, TypeOK, delegateVars
  <2>4. Distinct(msg_list')
    BY <1>1, <2>2 DEF TaskInv, MessageInv
  <2>5. MessageInv'
    BY <1>1, <1>4, <2>2, <2>4 DEF TaskInv, MessageInv, Distinct
  <2>6. NoLostWakeup'
    BY <1>1, <2>1 DEF NoLostWakeup
  <2>. QED
    BY <1>2, <2>3, <2>5, <2>6 DEF TaskInv
<1>. QED
  BY <1>3, <1>4

LEMMA TakeStep ==
  ASSUME TaskInv, threadPc \in {"rcv", "waiting"}, takeOldest, msg_list = <<>> => unblocked,
         UNCHANGED <<unblocked, taskAlive, delegateVars, ownerPc, sent, freed>>, signaled' = FALSE
  PROVE  TaskInv'
<1>1. /\ threadPc' \in {"exit", "proc"}
      /\ threadPc' = "exit" => unblocked
  BY DEF takeOldest
<1>2. DelegateInv'
  BY <1>1 DEF TaskInv, DelegateInv, Users, delegateVars
<1>3. LeavingInv'
  BY <1>1 DEF TaskInv, LeavingInv, delegateVars
<1>4. NoLostWakeup'
  BY <1>1 DEF NoLostWakeup
<1>5. CASE msg_list = <<>>
  BY <1>1, <1>2, <1>3, <1>4, <1>5 DEF takeOldest, TaskInv, TypeOK, ThreadPc, MessageInv, delegateVars, Distinct
<1>6. CASE msg_list # <<>>
  <2>1. /\ threadPc' = "proc" /\ msg' = <<Last(msg_list)>>
        /\ msg_list' = linked_list_remove(msg_list) /\ taken' = Append(taken, Last(msg_list))
    BY <1>6 DEF takeOldest
  <2>2. /\ msg_list' \in Seq(Messages) /\ Last(msg_list) \in Messages
        /\ ToSet(msg_list) = ToSet(msg_list') \cup {Last(msg_list)}
        /\ Distinct(msg_list) => Distinct(msg_list') /\ Last(msg_list) \notin ToSet(msg_list')
    BY <1>6, <2>1, ListRemove DEF TaskInv, TypeOK
  <2>3. TypeOK'
    <3>1. msg' \in Seq(Messages) /\ Len(msg') <= 1
      BY <2>1, <2>2
    <3>2. taken' \in Seq(Messages)
      BY <2>1, <2>2, AppendProperties DEF TaskInv, TypeOK
    <3>. QED
      BY <1>1, <2>2, <3>1, <3>2 DEF TaskInv, TypeOK, ThreadPc, delegateVars
  <2>4. ToSet(msg) = {} /\ ToSet(msg') = {Last(msg_list)}
    BY <2>1, ToSetEmpty, ToSetOne DEF TaskInv, MessageInv
  <2>5. Distinct(msg_list') /\ Last(msg_list) \notin ToSet(msg_list')
    BY <2>2 DEF TaskInv, MessageInv
  <2>6. MessageInv'
    BY <2>1, <2>2, <2>4, <2>5 DEF TaskInv, MessageInv, Distinct
  <2>. QED
    BY <1>2, <1>3, <1>4, <2>3, <2>6 DEF TaskInv
<1>. QED
  BY <1>5, <1>6

LEMMA ReceiveStep ==
  ASSUME TaskInv, msg_q_rcv \/ msg_q_wake
  PROVE  TaskInv'
<1>1. UNCHANGED <<unblocked, taskAlive, delegateVars, ownerPc, sent, freed>> /\ signaled' = FALSE
  BY DEF msg_q_rcv, msg_q_wake
<1>2. CASE takeOldest /\ threadPc \in {"rcv", "waiting"} /\ (msg_list = <<>> => unblocked)
  BY <1>1, <1>2, TakeStep
<1>3. CASE /\ threadPc' \in {"exit", "waiting"} /\ threadPc \in {"rcv", "waiting"}
           /\ threadPc' = "exit" => unblocked
           /\ threadPc' = "waiting" => ~unblocked /\ msg_list = <<>>
           /\ UNCHANGED <<msg_list, msg, taken>>
  <2>1. TypeOK'
    BY <1>1, <1>3 DEF TaskInv, TypeOK, ThreadPc, delegateVars
  <2>2. DelegateInv'
    BY <1>1, <1>3 DEF TaskInv, DelegateInv, Users, delegateVars
  <2>3. LeavingInv' /\ NoLostWakeup'
    BY <1>1, <1>3 DEF TaskInv, LeavingInv, NoLostWakeup, delegateVars
  <2>4. MessageInv'
    BY <1>1, <1>3 DEF TaskInv, MessageInv, Distinct
  <2>. QED
    BY <2>1, <2>2, <2>3, <2>4 DEF TaskInv
<1>. QED
  BY <1>2, <1>3 DEF msg_q_rcv, msg_q_wake

(* LocThreadDelegate::destroy by one of the two that still use it. *)
LEMMA DestroyShape ==
  ASSUME TaskInv, delegateDestroy, threadPc # "done" \/ ownerPc # "done"
  PROVE  /\ mRefCount' = mRefCount - 1 /\ mRefCount' \in 0 .. 2
         /\ delegateAlive' \in BOOLEAN /\ (delegateAlive' <=> mRefCount' > 0)
         /\ UNCHANGED <<mRunnable, mJoinable>>
<1>1. mRefCount \in 1 .. 2 /\ delegateAlive = TRUE
  BY DEF TaskInv, TypeOK, DelegateInv, Users
<1>2. mRefCount > 0
  BY <1>1
<1>3. mRefCount' = mRefCount - 1
  BY <1>2 DEF delegateDestroy
<1>4. mRunnable' = mRunnable /\ mJoinable' = mJoinable
  BY Zenon DEF delegateDestroy
<1>5. delegateAlive' = IF mRefCount = 1 THEN FALSE ELSE delegateAlive
  BY <1>2, Zenon DEF delegateDestroy
<1>6. ASSUME mRefCount = 1 PROVE delegateAlive' \in BOOLEAN /\ (delegateAlive' <=> mRefCount' > 0)
  <2>1. mRefCount' = 0 /\ ~(mRefCount' > 0)
    BY <1>3, <1>6
  <2>2. delegateAlive' = FALSE
    BY <1>5, <1>6, Zenon
  <2>3. delegateAlive' \in BOOLEAN /\ (delegateAlive' <=> mRefCount' > 0)
    BY <2>1, <2>2, Zenon
  <2>. QED
    BY <2>3, Zenon
<1>7. ASSUME mRefCount = 2 PROVE delegateAlive' \in BOOLEAN /\ (delegateAlive' <=> mRefCount' > 0)
  <2>1. mRefCount' = 1 /\ mRefCount' > 0 /\ mRefCount # 1
    BY <1>3, <1>7
  <2>2. delegateAlive' = TRUE
    BY <1>1, <1>5, <2>1, Zenon
  <2>3. delegateAlive' \in BOOLEAN /\ (delegateAlive' <=> mRefCount' > 0)
    BY <2>1, <2>2, Zenon
  <2>. QED
    BY <2>3, Zenon
<1>8. mRefCount' \in 0 .. 2
  BY <1>1, <1>3
<1>9. delegateAlive' \in BOOLEAN /\ (delegateAlive' <=> mRefCount' > 0)
  <2>1. mRefCount = 1 \/ mRefCount = 2
    BY <1>1
  <2>. QED
    BY <2>1, <1>6, <1>7, Zenon
<1>. QED
  BY <1>3, <1>4, <1>8, <1>9, Zenon

LEMMA ThreadStep ==
  ASSUME TaskInv,
         threadStart \/ threadLoop \/ procMsg \/ threadExit \/ deleteRunnable \/ threadBye
  PROVE  TaskInv'
<1>1. TypeOK' /\ DelegateInv'
  <2>1. CASE threadBye
    <3>1. /\ threadPc = "bye" /\ threadPc' = "done" /\ delegateDestroy
          /\ UNCHANGED <<queueVars, taskAlive, msg, ownerPc, sent, taken, freed>>
      BY <2>1 DEF threadBye
    <3>2. TypeOK'
      BY <3>1, DestroyShape DEF TaskInv, TypeOK, queueVars, ThreadPc
    <3>3. DelegateInv'
      BY <3>1, DestroyShape DEF TaskInv, DelegateInv, Users
    <3>. QED
      BY <3>2, <3>3
  <2>2. CASE threadStart \/ threadLoop \/ threadExit
    <3>1. TypeOK'
      BY <2>2 DEF TaskInv, TypeOK, threadStart, threadLoop, threadExit, queueVars, delegateVars, ThreadPc
    <3>2. DelegateInv'
      BY <2>2 DEF TaskInv, DelegateInv, Users, threadStart, threadLoop, threadExit, delegateVars
    <3>. QED
      BY <3>1, <3>2
  <2>3. CASE procMsg \/ deleteRunnable
    <3>1. ToSet(msg) \subseteq Messages /\ ToSet(msg_list) \subseteq Messages
      BY DEF TaskInv, TypeOK, MessageInv
    <3>2. <<>> \in Seq(Messages) /\ Len(<<>>) = 0
      BY EmptySeq
    <3>3. TypeOK'
      <4>1. CASE procMsg
        BY <3>1, <3>2, <4>1 DEF TaskInv, TypeOK, procMsg, queueVars, delegateVars, ThreadPc
      <4>2. CASE deleteRunnable
        BY <3>1, <3>2, <4>2 DEF TaskInv, TypeOK, deleteRunnable, delegateVars, ThreadPc
      <4>. QED
        BY <2>3, <4>1, <4>2
    <3>4. DelegateInv'
      BY <2>3 DEF TaskInv, DelegateInv, Users, procMsg, deleteRunnable, delegateVars
    <3>. QED
      BY <3>3, <3>4
  <2>. QED
    BY <2>1, <2>2, <2>3
<1>3. LeavingInv' /\ NoLostWakeup'
  <2>1. threadBye => UNCHANGED mRunnable
    BY DEF threadBye, delegateDestroy
  <2>. QED
    BY <2>1 DEF TaskInv, LeavingInv, NoLostWakeup, threadStart, threadLoop, procMsg, threadExit,
       deleteRunnable, threadBye, queueVars, delegateVars
<1>4. MessageInv'
  <2>1. CASE threadStart \/ threadLoop \/ threadExit \/ threadBye
    BY <2>1 DEF TaskInv, MessageInv, Distinct, threadStart, threadLoop, threadExit, threadBye, queueVars
  <2>2. CASE procMsg
    BY <2>2, ToSetEmpty DEF TaskInv, MessageInv, Distinct, procMsg, queueVars
  <2>3. CASE deleteRunnable
    BY <2>3, ToSetEmpty DEF TaskInv, LeavingInv, MessageInv, Distinct, deleteRunnable
  <2>. QED
    BY <2>1, <2>2, <2>3
<1>. QED
  BY <1>1, <1>3, <1>4 DEF TaskInv

LEMMA OwnerStep ==
  ASSUME TaskInv, unblock \/ clearThread \/ bye \/ join \/ release
  PROVE  TaskInv'
<1>1. TypeOK' /\ DelegateInv'
  <2>1. CASE release
    <3>1. /\ ownerPc = "release" /\ ownerPc' = "done" /\ delegateDestroy
          /\ UNCHANGED <<queueVars, ownerVars>>
      BY <2>1 DEF release
    <3>2. TypeOK'
      BY <3>1, DestroyShape DEF TaskInv, TypeOK, queueVars, ownerVars, OwnerPc
    <3>3. DelegateInv'
      BY <3>1, DestroyShape DEF TaskInv, DelegateInv, Users, ownerVars
    <3>. QED
      BY <3>2, <3>3
  <2>2. CASE unblock \/ clearThread \/ bye \/ join
    <3>1. TypeOK'
      BY <2>2 DEF TaskInv, TypeOK, unblock, clearThread, bye, join, queueVars, delegateVars,
         ownerVars, OwnerPc
    <3>2. DelegateInv'
      BY <2>2 DEF TaskInv, DelegateInv, Users, unblock, clearThread, bye, join, queueVars,
         delegateVars, ownerVars
    <3>. QED
      BY <3>1, <3>2
  <2>. QED
    BY <2>1, <2>2
<1>2. release => UNCHANGED mRunnable
  BY Zenon DEF release, delegateDestroy
<1>3. LeavingInv'
  <2>1. CASE release
    BY <1>2, <2>1 DEF TaskInv, LeavingInv, release, queueVars, ownerVars
  <2>2. CASE unblock \/ clearThread \/ join
    BY <2>2 DEF TaskInv, LeavingInv, unblock, clearThread, join, queueVars, delegateVars, ownerVars
  <2>3. CASE bye
    BY <2>3 DEF TaskInv, LeavingInv, bye, queueVars, ownerVars
  <2>. QED
    BY <2>1, <2>2, <2>3
<1>4. NoLostWakeup'
  BY DEF TaskInv, NoLostWakeup, unblock, clearThread, bye, join, release, queueVars, ownerVars
<1>5. MessageInv'
  BY DEF TaskInv, MessageInv, Distinct, unblock, clearThread, bye, join, release, queueVars, ownerVars
<1>. QED
  BY <1>1, <1>3, <1>4, <1>5 DEF TaskInv

LEMMA TaskNext == TaskInv /\ [Next]_vars => TaskInv'
<1>. SUFFICES ASSUME TaskInv, [Next]_vars PROVE TaskInv'
  OBVIOUS
<1>1. CASE UNCHANGED vars
  BY <1>1 DEF vars, queueVars, delegateVars, TaskInv, TypeOK, DelegateInv, Users, LeavingInv,
     MessageInv, Distinct, NoLostWakeup
<1>. QED
  BY <1>1, SendStep, ReceiveStep, ThreadStep, OwnerStep DEF Next

LEMMA TaskInvariant == Spec => []TaskInv
  BY TaskInit, TaskNext, PTL DEF Spec

-----------------------------------------------------------------------------
(* The theorems.                                                           *)

(* LocThreadDelegate, MsgTask::destroy and the flush of the queue: nobody  *)
(* uses a deleted delegate, the last of its two users deletes it, a        *)
(* deleted message is in no queue and not handled, and none is lost while  *)
(* the queue is open.  Of the runnable only its end: deleted when a task   *)
(* that received a message is over.                                        *)
THEOREM EverythingOwnedOnce == Spec => []OwnedOnce
<1>1. TaskInv => OwnedOnce
  <2>. SUFFICES ASSUME TaskInv PROVE OwnedOnce
    OBVIOUS
  <2>1. DelegateOutlivesUse /\ DelegateFreed
    BY DEF TaskInv, DelegateInv, Users, DelegateOutlivesUse, DelegateFreed
  <2>2. MessageOwnedOnce
    BY DEF TaskInv, MessageInv, Distinct, MessageOwnedOnce
  <2>3. RunnableDeleted
    BY DEF TaskInv, LeavingInv, RunnableDeleted
  <2>. QED
    BY <2>1, <2>2, <2>3 DEF TaskInv, OwnedOnce
<1>. QED
  BY <1>1, TaskInvariant, PTL

(* msg_q_rcv: a thread that waits on list_cond although there is something *)
(* to receive, or the queue was unblocked, has been signalled.             *)
THEOREM WakeupNeverLost == Spec => []NoLostWakeup
<1>1. TaskInv => NoLostWakeup
  BY DEF TaskInv
<1>. QED
  BY <1>1, TaskInvariant, PTL

(* linked_list, msg_q and MsgTask together are the queue that MsgQueue     *)
(* specifies: every step of theirs accepts a message, takes the oldest,    *)
(* closes the queue, discards what is left, or leaves the queue alone.     *)
THEOREM TaskImplementsQueue == Spec => ImplementsQueue
<1>1. Init => Queue!Init
  <2>. SUFFICES ASSUME Init PROVE Queue!Init
    OBVIOUS
  <2>1. Reverse(<<>>) = <<>>
    BY DEF Reverse
  <2>. QED
    BY <2>1 DEF Init, Queue!Init
<1>2. TaskInv /\ [Next]_vars => [Queue!Next]_Queue!qvars
  <2>. SUFFICES ASSUME TaskInv, [Next]_vars PROVE [Queue!Next]_Queue!qvars
    OBVIOUS
  <2>1. ASSUME NEW m \in Messages, sendMsg(m)
        PROVE  Queue!Accept(m) \/ UNCHANGED Queue!qvars
    <3>1. CASE unblocked
      BY <2>1, <3>1 DEF sendMsg, Queue!qvars
    <3>2. CASE ~unblocked
      <4>0. msg_list' = linked_list_add(msg_list, m) /\ msg_list \in Seq(Messages)
        BY <2>1, <3>2 DEF sendMsg, TaskInv, TypeOK
      <4>1. Reverse(msg_list') = Append(Reverse(msg_list), m)
        BY <4>0, ListAdd
      <4>. QED
        BY <2>1, <3>2, <4>1 DEF sendMsg, Queue!Accept
    <3>. QED
      BY <3>1, <3>2
  <2>2. ASSUME takeOldest, unblocked' = unblocked
        PROVE  Queue!Take \/ UNCHANGED Queue!qvars
    <3>1. CASE msg_list = <<>>
      BY <2>2, <3>1 DEF takeOldest, Queue!qvars
    <3>2. CASE msg_list # <<>>
      <4>1. /\ Reverse(msg_list) # <<>> /\ Head(Reverse(msg_list)) = Last(msg_list)
            /\ Tail(Reverse(msg_list)) = Reverse(msg_list')
        BY <2>2, <3>2, ListRemove DEF takeOldest, TaskInv, TypeOK
      <4>. QED
        BY <2>2, <3>2, <4>1 DEF takeOldest, Queue!Take
    <3>. QED
      BY <3>1, <3>2
  <2>3. CASE msg_q_rcv \/ msg_q_wake
    BY <2>2, <2>3 DEF msg_q_rcv, msg_q_wake, Queue!qvars, Queue!Next
  <2>4. CASE unblock
    BY <2>4 DEF unblock, ownerVars, Queue!Next, Queue!Close
  <2>5. CASE deleteRunnable
    <3>1. Reverse(<<>>) = <<>>
      BY DEF Reverse
    <3>. QED
      BY <2>5, <3>1 DEF deleteRunnable, TaskInv, LeavingInv, Queue!Next, Queue!Discard
  <2>6. CASE \/ threadStart \/ threadLoop \/ procMsg \/ threadExit \/ threadBye
             \/ clearThread \/ bye \/ join \/ release \/ UNCHANGED vars
    BY <2>6 DEF threadStart, threadLoop, procMsg, threadExit, threadBye, clearThread, bye, join,
       release, vars, queueVars, ownerVars, Queue!qvars
  <2>. QED
    BY <2>1, <2>3, <2>4, <2>5, <2>6 DEF Next, Queue!Next
<1>. QED
  BY <1>1, <1>2, TaskInvariant, PTL DEF Spec, ImplementsQueue, Queue!Spec

-----------------------------------------------------------------------------
(***************************************************************************)
(* GnssClient for any items of the configuration and any bounds: answers   *)
(* find the requests they are for, and client, adapter and framework agree *)
(* on session, power, capabilities and configuration.                      *)
(***************************************************************************)

\* The bounds are numbers.
ClientBounds ==
    /\ MaxIds \in Nat /\ MaxNi \in Nat /\ MaxFaces \in Nat
    /\ MaxValue \in Nat /\ MaxCalls \in Nat /\ Server \in Fields

LEMMA ClientBoundsHold == ClientBounds
  BY BoundsAssumption, ServerAssumption DEF ClientBounds

TrackOps == {"start", "update", "stop"}
VoteOps == {"enable", "disable"}
Interfaces == {"tracking", "ni"}
AnyMsg == [op : Kinds \cup {"control", "client", "capabilities"}, id : Nat,
           arg : Configs \cup SUBSET Interfaces]
AnyRequest == [kind : Kinds, id : Nat]

\* What is left of a call of the framework.
Todos == {<<>>,
          <<"getApi", "update", "enable", "capabilities">>, <<"update", "enable", "capabilities">>,
          <<"enable", "capabilities">>, <<"capabilities">>,
          <<"getApi", "update">>, <<"update">>,
          <<"stop", "disable">>, <<"disable">>}

BinderType ==
    /\ extended \in BOOLEAN /\ iface \in Faces /\ niIface \in BOOLEAN /\ api \in BOOLEAN
    /\ pendingConfig \in Configs /\ mConfig \in Configs /\ wanted \in Configs
    /\ todo \in Todos /\ calls \in Nat
    /\ cbIface \in 0 .. iface /\ cached \in BOOLEAN
    /\ mTracking \in BOOLEAN /\ mEnabled \in BOOLEAN
    /\ nextId \in 0 .. MaxIds /\ started \subseteq 1 .. nextId
    /\ told \subseteq Faces /\ status \in BOOLEAN /\ early \in BOOLEAN

AdapterType ==
    /\ clientData \subseteq Interfaces
    /\ sessions \subseteq started /\ refused \subseteq sessions /\ power \in 0 .. nextId
    /\ inForce \in Configs /\ niCount \in 0 .. MaxNi
    /\ at \in {"idle", "answer", "respond", "cache", "tell"}
    /\ answer \in [kind : Kinds \cup {"none"}, id : Nat, ok : BOOLEAN]
    /\ request \in [kind : Kinds \cup {"none"}, id : Nat]

QueueType ==
    /\ queue \in Seq(AnyMsg)
    /\ rq \in [Queues -> [session : Nat, waiting : Seq(AnyRequest)]]

Session(n) == rq[n].session
Waiting(n) == rq[n].waiting

\* What the identifiers of messages and answers are drawn from.
ValidId(kind, id) ==
    /\ kind \in TrackOps => id \in started
    /\ kind = "ni" => id \in 1 .. niCount
    /\ kind \in VoteOps \cup {"aiding"} => id \in 1 .. nextId
    /\ kind \notin TrackOps \cup VoteOps \cup {"ni", "aiding"} => id = None

MessagesValid ==
    \A j \in 1 .. Len(queue) :
        /\ ValidId(queue[j].op, queue[j].id)
        /\ queue[j].op = "config" => queue[j].arg \in Configs
        /\ queue[j].op = "client" => queue[j].arg \in SUBSET Interfaces

AnswerValid ==
    /\ answer.kind = "none" <=> answer = Nothing
    /\ ValidId(answer.kind, answer.id)
    /\ at = "idle" => answer.kind = "none"
    /\ at \in {"cache", "tell"} => answer.kind \in {"none", "config"}
    /\ at \in {"answer", "respond"} => answer.kind # "none"

SessionsValid ==
    /\ Session("tracking") \in started \cup {None} /\ Session("ni") \in 0 .. niCount
    /\ Session("control") \in 0 .. nextId /\ Session("aiding") \in 0 .. nextId
    /\ Session("config") = None
    /\ mTracking => Session("tracking") # None
    /\ mEnabled => Session("control") # None

\* Before there is a client nothing was sent.
ClientlessInv ==
    ~api => /\ queue = <<>> /\ ~mTracking /\ ~mEnabled
            /\ Session("tracking") = None /\ Session("control") = None
            /\ mConfig = NoConfig /\ inForce = NoConfig /\ pendingConfig = due
            /\ pendingConfig[Server] \in {0, NoHost}
            /\ todo \in {<<>>, <<"getApi", "update">>, <<"getApi", "update", "enable", "capabilities">>}

\* Which requests wait in which queue.
Elements(n) == {Waiting(n)[k] : k \in 1 .. Len(Waiting(n))}
WaitingInv ==
    /\ \A r \in Elements("tracking") : r.kind \in TrackOps /\ (mTracking => r.kind # "stop")
    /\ \A r \in Elements("control") : r.kind \in VoteOps
    /\ Elements("ni") \subseteq {Request("ni", Session("ni"))}
    /\ Elements("aiding") \subseteq {Request("aiding", Session("aiding"))}
    /\ Elements("config") \subseteq {Request("config", None)}

\* The identifiers of the control client are never those of a deletion of aiding data.
Used(n, ops, i) ==
    \/ i = Session(n)
    \/ answer.kind \in ops /\ answer.id = i
    \/ \E j \in 1 .. Len(queue) : queue[j].op \in ops /\ queue[j].id = i
Apart == \A i \in 1 .. nextId : ~(Used("control", VoteOps, i) /\ Used("aiding", {"aiding"}, i))

\* The start of a session precedes all else about it.
StartsFirst ==
    \A j, k \in 1 .. Len(queue) :
        queue[j].op = "start" /\ queue[k].op \in TrackOps /\ queue[k].id = queue[j].id => j <= k
StartsFresh ==
    \A j \in 1 .. Len(queue) : queue[j].op = "start" => queue[j].id \notin sessions

\* The requests w are those of the messages of q about s, in their order.
Matches(w, q, ops, s) ==
    \E h \in [1 .. Len(w) -> 1 .. Len(q)] :
        /\ \A i, j \in 1 .. Len(w) : i < j => h[i] < h[j]
        /\ \A i \in 1 .. Len(w) : w[i] = Request(q[h[i]].op, s)
        /\ \A j \in 1 .. Len(q) : q[j].op \in ops /\ q[j].id = s <=> \E i \in 1 .. Len(w) : h[i] = j

\* A request waits for the answer on its way, and one for each message to come.
Answering(n, ops) == at = "answer" /\ answer.kind \in ops /\ answer.id = Session(n)
Rest(n, ops) == IF Answering(n, ops) THEN Tail(Waiting(n)) ELSE Waiting(n)
HeadWaits(n, ops) ==
    Answering(n, ops) => Waiting(n) # <<>> /\ Head(Waiting(n)) = Request(answer.kind, Session(n))

\* Messages about session s will be answered.
StartComes(s) == \E j \in 1 .. Len(queue) : queue[j].op = "start" /\ queue[j].id = s
StopComes(s) == \E j \in 1 .. Len(queue) : queue[j].op = "stop" /\ queue[j].id = s
Live(s) == s \in sessions \/ StartComes(s)

TrackingMatch ==
    Session("tracking") # None /\ ~Confused(Session("tracking")) =>
        /\ HeadWaits("tracking", TrackOps)
        /\ Live(Session("tracking")) => Matches(Rest("tracking", TrackOps), queue, TrackOps, Session("tracking"))
ControlMatch ==
    Session("control") # None =>
        /\ HeadWaits("control", VoteOps)
        /\ Matches(Rest("control", VoteOps), queue, VoteOps, Session("control"))

\* A session that runs or will is the client's, or a stop for it is on its way.
Wished(s) == (mTracking /\ s = Session("tracking")) \/ StopComes(s)
RunsAreWished == \A s \in started : s \in sessions \ refused \/ StartComes(s) => Wished(s)

\* Who asked for positions has a callback object.
CallbacksInv ==
    /\ "tracking" \in clientData => cbIface # None
    /\ \A j \in 1 .. Len(queue) : queue[j].op = "client" /\ "tracking" \in queue[j].arg => cbIface # None
    /\ answer.kind = "start" /\ answer.ok => cbIface # None

\* The start of a session that runs is reported, or about to be.
Reporting(s) ==
    /\ answer.kind = "start" /\ answer.id = s /\ answer.ok
    /\ at = "answer" \/ (at = "respond" /\ request.kind = "start")
RunIsTold ==
    mTracking /\ Session("tracking") \in sessions =>
        /\ ~Confused(Session("tracking")) => status \/ Reporting(Session("tracking"))
        /\ at = "respond" => request.kind # "stop"

\* The vote when the messages before the k-th are handled is p.
IsVote(j) == queue[j].op \in VoteOps
VoteAt(k, p) ==
    /\ \A j \in 1 .. k - 1 :
          IsVote(j) /\ (\A i \in j + 1 .. k - 1 : ~IsVote(i))
              => p = (IF queue[j].op = "enable" THEN queue[j].id ELSE None)
    /\ (\A j \in 1 .. k - 1 : ~IsVote(j)) => p = power
VotesInv ==
    /\ VoteAt(Len(queue) + 1, IF mEnabled THEN Session("control") ELSE None)
    /\ \A k \in 1 .. Len(queue) :
          /\ queue[k].op = "enable" => VoteAt(k, None)
          /\ queue[k].op = "disable" => VoteAt(k, queue[k].id)

\* A new callback object will be stored and told the capabilities.
CapabilitiesInv ==
    /\ cbIface # iface =>
          todo \in {<<"getApi", "update", "enable", "capabilities">>, <<"update", "enable", "capabilities">>}
    /\ cached /\ iface # None =>
          \/ iface \in told
          \/ todo \in {<<"getApi", "update", "enable", "capabilities">>, <<"update", "enable", "capabilities">>,
                       <<"enable", "capabilities">>, <<"capabilities">>}
          \/ at = "tell" /\ cbIface = iface

\* The last message that sets an item sets it as the framework wants it.
Sets(j, f) == queue[j].op = "config" /\ queue[j].arg[f] # 0
ConfigInv ==
    \A f \in Fields :
        /\ \A j \in 1 .. Len(queue) :
              Sets(j, f) /\ (\A i \in j + 1 .. Len(queue) : ~Sets(i, f)) => queue[j].arg[f] = due[f]
        /\ api /\ (\A j \in 1 .. Len(queue) : ~Sets(j, f)) => inForce[f] = due[f]
        /\ api => mConfig[f] \in {0, due[f]}

ClientTypes == ClientBounds /\ BinderType /\ AdapterType /\ QueueType
IdsInv == MessagesValid /\ AnswerValid /\ SessionsValid
OrderInv == StartsFirst /\ StartsFresh
ClientInv ==
    /\ ClientTypes /\ IdsInv /\ ClientlessInv /\ WaitingInv /\ Apart /\ OrderInv
    /\ TrackingMatch /\ ControlMatch /\ AnswerFits
    /\ RunsAreWished /\ CallbacksInv /\ RunIsTold
    /\ VotesInv /\ CapabilitiesInv /\ ConfigInv

----------------------------------------------------------------------------
(* Lists *)

LEMMA AppendedList ==
  ASSUME NEW S, NEW q \in Seq(S), NEW x \in S
  PROVE  /\ Append(q, x) \in Seq(S) /\ Len(Append(q, x)) = Len(q) + 1 /\ Append(q, x) # <<>>
         /\ \A j \in 1 .. Len(q) : Append(q, x)[j] = q[j]
         /\ Append(q, x)[Len(q) + 1] = x
  BY AppendProperties

LEMMA TailOfList ==
  ASSUME NEW S, NEW q \in Seq(S), q # <<>>
  PROVE  /\ Len(q) \in Nat /\ Len(q) >= 1 /\ q[1] = Head(q) /\ Head(q) \in S
         /\ Tail(q) \in Seq(S) /\ Len(Tail(q)) = Len(q) - 1
         /\ \A j \in 1 .. Len(q) - 1 : Tail(q)[j] = q[j + 1]
  BY HeadTailProperties, EmptySeq

LEMMA OneElement ==
  ASSUME NEW S, NEW x \in S
  PROVE  Append(<<>>, x) \in Seq(S) /\ Len(Append(<<>>, x)) = 1 /\ Append(<<>>, x)[1] = x
         /\ Append(<<>>, x) = <<x>>
  OBVIOUS

(* The head of a longer list is that of the shorter one. *)
LEMMA AppendedTail ==
  ASSUME NEW S, NEW q \in Seq(S), NEW x \in S, q # <<>>
  PROVE  Head(Append(q, x)) = Head(q) /\ Tail(Append(q, x)) = Append(Tail(q), x)
<1> DEFINE n == Len(q)
           p == Append(q, x)
<1>1. /\ n \in Nat /\ n >= 1 /\ q[1] = Head(q) /\ Tail(q) \in Seq(S) /\ Len(Tail(q)) = n - 1
      /\ \A j \in 1 .. n - 1 : Tail(q)[j] = q[j + 1]
  BY TailOfList
<1>2. /\ p \in Seq(S) /\ p # <<>> /\ Len(p) = n + 1 /\ \A j \in 1 .. n : p[j] = q[j]
      /\ p[n + 1] = x
  BY AppendedList
<1>3. /\ p[1] = Head(p) /\ Tail(p) \in Seq(S) /\ Len(Tail(p)) = Len(p) - 1
      /\ \A j \in 1 .. Len(p) - 1 : Tail(p)[j] = p[j + 1]
  BY <1>2, TailOfList
<1>4. /\ Append(Tail(q), x) \in Seq(S) /\ Len(Append(Tail(q), x)) = n
      /\ \A j \in 1 .. n - 1 : Append(Tail(q), x)[j] = Tail(q)[j]
      /\ Append(Tail(q), x)[n] = x
  BY <1>1, AppendedList
<1> HIDE DEF n, p
<1>5. Len(Tail(p)) = n /\ n \in Nat
  BY <1>1, <1>2, <1>3
<1>6. \A j \in 1 .. n : Tail(p)[j] = Append(Tail(q), x)[j]
  <2>1. ASSUME NEW j \in 1 .. n PROVE Tail(p)[j] = Append(Tail(q), x)[j]
    <3>1. Tail(p)[j] = p[j + 1]
      BY <1>1, <1>2, <1>3
    <3>2. CASE j = n
      BY <3>1, <3>2, <1>1, <1>2, <1>4
    <3>3. CASE j \in 1 .. n - 1
      <4>1. j + 1 \in 1 .. n
        BY <1>1, <3>3
      <4> QED BY <4>1, <3>1, <3>3, <1>1, <1>2, <1>4
    <3>4. j = n \/ j \in 1 .. n - 1
      BY <1>5
    <3> QED BY <3>2, <3>3, <3>4
  <2> QED BY <2>1
<1>7. Head(p) = Head(q)
  BY <1>1, <1>2, <1>3
<1>8. Tail(p) = Append(Tail(q), x)
  <2>1. Tail(p) \in Seq(S) /\ Append(Tail(q), x) \in Seq(S) /\ Len(Tail(p)) = Len(Append(Tail(q), x))
    BY <1>3, <1>4, <1>5
  <2> HIDE DEF p
  <2>2. \A j \in 1 .. Len(Tail(p)) : Tail(p)[j] = Append(Tail(q), x)[j]
    BY <1>5, <1>6
  <2> QED BY <2>1, <2>2, SeqEqual
<1> QED BY <1>7, <1>8 DEF p

----------------------------------------------------------------------------
(* Requests and the messages they wait for *)

LEMMA MatchOther ==
  ASSUME NEW w \in Seq(AnyRequest), NEW q \in Seq(AnyMsg), NEW ops, NEW s, Matches(w, q, ops, s),
         NEW x \in AnyMsg, ~(x.op \in ops /\ x.id = s)
  PROVE  Matches(w, Append(q, x), ops, s)
<1> DEFINE n == Len(w)
           k == Len(q)
           p == Append(q, x)
<1>1. PICK h \in [1 .. n -> 1 .. k] :
        /\ \A i, j \in 1 .. n : i < j => h[i] < h[j]
        /\ \A i \in 1 .. n : w[i] = Request(q[h[i]].op, s)
        /\ \A j \in 1 .. k : q[j].op \in ops /\ q[j].id = s <=> \E i \in 1 .. n : h[i] = j
  BY DEF Matches
<1>2. /\ n \in Nat /\ k \in Nat /\ Len(p) = k + 1 /\ \A j \in 1 .. k : p[j] = q[j]
      /\ p[k + 1] = x
  BY AppendedList
<1> HIDE DEF n, k, p
<1>3. h \in [1 .. n -> 1 .. Len(p)] /\ \A i \in 1 .. n : h[i] \in 1 .. k
  <2>1. \A i \in 1 .. n : h[i] \in 1 .. k
    OBVIOUS
  <2>2. 1 .. k \subseteq 1 .. Len(p)
    BY <1>2
  <2> QED BY <2>1, <2>2
<1>4. \A i \in 1 .. n : w[i] = Request(p[h[i]].op, s)
  BY <1>1, <1>2, <1>3
<1>5. \A j \in 1 .. Len(p) : p[j].op \in ops /\ p[j].id = s <=> \E i \in 1 .. n : h[i] = j
  <2>1. ASSUME NEW j \in 1 .. Len(p)
        PROVE  p[j].op \in ops /\ p[j].id = s <=> \E i \in 1 .. n : h[i] = j
    <3>1. CASE j \in 1 .. k
      BY <3>1, <1>1, <1>2
    <3>2. CASE j = k + 1
      <4>1. \A i \in 1 .. n : h[i] # j
        BY <3>2, <1>3, <1>2
      <4> QED BY <4>1, <3>2, <1>2
    <3> QED BY <3>1, <3>2, <1>2
  <2> QED BY <2>1
<1>6. \E g \in [1 .. n -> 1 .. Len(p)] :
        /\ \A i, j \in 1 .. n : i < j => g[i] < g[j]
        /\ \A i \in 1 .. n : w[i] = Request(p[g[i]].op, s)
        /\ \A j \in 1 .. Len(p) : p[j].op \in ops /\ p[j].id = s <=> \E i \in 1 .. n : g[i] = j
  BY <1>1, <1>3, <1>4, <1>5
<1> QED BY <1>6 DEF Matches, n, p

LEMMA MatchMine ==
  ASSUME NEW w \in Seq(AnyRequest), NEW q \in Seq(AnyMsg), NEW ops, NEW s, Matches(w, q, ops, s),
         NEW x \in AnyMsg, x.op \in ops, x.id = s, Request(x.op, s) \in AnyRequest
  PROVE  Matches(Append(w, Request(x.op, s)), Append(q, x), ops, s)
<1> DEFINE n == Len(w)
           k == Len(q)
           p == Append(q, x)
           v == Append(w, Request(x.op, s))
<1>1. PICK h \in [1 .. n -> 1 .. k] :
        /\ \A i, j \in 1 .. n : i < j => h[i] < h[j]
        /\ \A i \in 1 .. n : w[i] = Request(q[h[i]].op, s)
        /\ \A j \in 1 .. k : q[j].op \in ops /\ q[j].id = s <=> \E i \in 1 .. n : h[i] = j
  BY DEF Matches
<1>2. /\ n \in Nat /\ k \in Nat /\ Len(p) = k + 1 /\ \A j \in 1 .. k : p[j] = q[j]
      /\ p[k + 1] = x
  BY AppendedList
<1>3. Len(v) = n + 1 /\ (\A j \in 1 .. n : v[j] = w[j]) /\ v[n + 1] = Request(x.op, s)
  BY AppendedList
<1> HIDE DEF n, k, p, v
<1> DEFINE g == [i \in 1 .. Len(v) |-> IF i = n + 1 THEN k + 1 ELSE h[i]]
<1>4. /\ g \in [1 .. Len(v) -> 1 .. Len(p)] /\ g[n + 1] = k + 1
      /\ \A i \in 1 .. n : g[i] = h[i] /\ h[i] \in 1 .. k
  <2>1. n \in Nat /\ k \in Nat /\ Len(p) = k + 1 /\ Len(v) = n + 1 /\ \A i \in 1 .. n : h[i] \in 1 .. k
    BY <1>1, <1>2, <1>3
  <2>2. n + 1 \in 1 .. Len(v) /\ \A i \in 1 .. n : i \in 1 .. Len(v) /\ i # n + 1
    BY <2>1
  <2>3. \A i \in 1 .. Len(v) : (IF i = n + 1 THEN k + 1 ELSE h[i]) \in 1 .. Len(p)
    BY <2>1
  <2> QED BY <2>1, <2>2, <2>3
<1> HIDE DEF g
<1>5. ASSUME NEW i \in 1 .. Len(v), NEW j \in 1 .. Len(v), i < j PROVE g[i] < g[j]
  <2>1. i \in 1 .. n /\ (j \in 1 .. n \/ j = n + 1)
    BY <1>2, <1>3, <1>5
  <2>2. CASE j \in 1 .. n
    BY <2>1, <2>2, <1>1, <1>4, <1>5
  <2>3. CASE j = n + 1
    BY <2>1, <2>3, <1>4, <1>2
  <2> QED BY <2>1, <2>2, <2>3
<1>6. ASSUME NEW i \in 1 .. Len(v) PROVE v[i] = Request(p[g[i]].op, s)
  <2>1. CASE i \in 1 .. n
    <3>1. v[i] = w[i] /\ w[i] = Request(q[h[i]].op, s)
      BY <2>1, <1>1, <1>3
    <3>2. g[i] = h[i] /\ p[h[i]] = q[h[i]]
      BY <2>1, <1>2, <1>4
    <3> QED BY <3>1, <3>2
  <2>2. CASE i = n + 1
    BY <2>2, <1>2, <1>3, <1>4
  <2> QED BY <2>1, <2>2, <1>2, <1>3
<1>7. ASSUME NEW j \in 1 .. Len(p)
      PROVE  p[j].op \in ops /\ p[j].id = s <=> \E i \in 1 .. Len(v) : g[i] = j
  <2>1. CASE j \in 1 .. k
    <3>1. p[j].op \in ops /\ p[j].id = s <=> \E i \in 1 .. n : h[i] = j
      BY <2>1, <1>1, <1>2
    <3>2. (\E i \in 1 .. n : h[i] = j) <=> \E i \in 1 .. Len(v) : g[i] = j
      <4>1. 1 .. Len(v) = 1 .. n \cup {n + 1} /\ j # k + 1
        BY <1>2, <1>3, <2>1
      <4> QED BY <4>1, <1>4
    <3> QED BY <3>1, <3>2
  <2>2. CASE j = k + 1
    <3>1. n + 1 \in 1 .. Len(v)
      BY <1>2, <1>3
    <3> QED BY <2>2, <3>1, <1>2, <1>4
  <2>3. j \in 1 .. k \/ j = k + 1
    BY <1>2
  <2> QED BY <2>1, <2>2, <2>3
<1>8. \E f \in [1 .. Len(v) -> 1 .. Len(p)] :
        /\ \A i, j \in 1 .. Len(v) : i < j => f[i] < f[j]
        /\ \A i \in 1 .. Len(v) : v[i] = Request(p[f[i]].op, s)
        /\ \A j \in 1 .. Len(p) : p[j].op \in ops /\ p[j].id = s <=> \E i \in 1 .. Len(v) : f[i] = j
  BY <1>4, <1>5, <1>6, <1>7
<1> QED BY <1>8 DEF Matches, v, p

LEMMA MatchNone ==
  ASSUME NEW q \in Seq(AnyMsg), NEW ops, NEW s,
         \A j \in 1 .. Len(q) : ~(q[j].op \in ops /\ q[j].id = s)
  PROVE  Matches(<<>>, q, ops, s)
<1>1. Len(<<>>) = 0 /\ 1 .. 0 = {}
  OBVIOUS
<1> DEFINE h == [i \in 1 .. 0 |-> 1]
<1>2. h \in [1 .. 0 -> 1 .. Len(q)]
  BY <1>1
<1>3. \E f \in [1 .. 0 -> 1 .. Len(q)] :
        /\ \A i, j \in 1 .. 0 : i < j => f[i] < f[j]
        /\ \A i \in 1 .. 0 : <<>>[i] = Request(q[f[i]].op, s)
        /\ \A j \in 1 .. Len(q) : q[j].op \in ops /\ q[j].id = s <=> \E i \in 1 .. 0 : f[i] = j
  BY <1>1, <1>2
<1> QED BY <1>3, <1>1 DEF Matches

LEMMA MatchTailOther ==
  ASSUME NEW w \in Seq(AnyRequest), NEW q \in Seq(AnyMsg), NEW ops, NEW s, Matches(w, q, ops, s),
         q # <<>>, ~(Head(q).op \in ops /\ Head(q).id = s)
  PROVE  Matches(w, Tail(q), ops, s)
<1> DEFINE n == Len(w)
           k == Len(q)
           p == Tail(q)
<1>1. PICK h \in [1 .. n -> 1 .. k] :
        /\ \A i, j \in 1 .. n : i < j => h[i] < h[j]
        /\ \A i \in 1 .. n : w[i] = Request(q[h[i]].op, s)
        /\ \A j \in 1 .. k : q[j].op \in ops /\ q[j].id = s <=> \E i \in 1 .. n : h[i] = j
  BY DEF Matches
<1>2. /\ n \in Nat /\ k \in Nat /\ k >= 1 /\ q[1] = Head(q) /\ Len(p) = k - 1
      /\ \A j \in 1 .. k - 1 : p[j] = q[j + 1]
  BY TailOfList
<1> HIDE DEF n, k, p
<1>3. \A i \in 1 .. n : h[i] \in 2 .. k
  <2>1. ASSUME NEW i \in 1 .. n PROVE h[i] # 1
    BY <1>1, <1>2, <2>1
  <2>2. ASSUME NEW i \in 1 .. n PROVE h[i] \in 1 .. k
    BY <1>1, <2>2
  <2> QED BY <1>2, <2>1, <2>2
<1> DEFINE g == [i \in 1 .. n |-> h[i] - 1]
<1>4. g \in [1 .. n -> 1 .. Len(p)] /\ \A i \in 1 .. n : g[i] = h[i] - 1 /\ h[i] \in Nat
  BY <1>1, <1>2, <1>3
<1> HIDE DEF g
<1>5. \A i, j \in 1 .. n : i < j => g[i] < g[j]
  BY <1>1, <1>4
<1>6. ASSUME NEW i \in 1 .. n PROVE w[i] = Request(p[g[i]].op, s)
  <2>1. g[i] \in 1 .. k - 1 /\ g[i] + 1 = h[i]
    BY <1>2, <1>4
  <2> QED BY <2>1, <1>1, <1>2
<1>7. ASSUME NEW j \in 1 .. Len(p) PROVE p[j].op \in ops /\ p[j].id = s <=> \E i \in 1 .. n : g[i] = j
  <2>1. j \in 1 .. k - 1 /\ j + 1 \in 1 .. k
    BY <1>2
  <2>2. p[j].op \in ops /\ p[j].id = s <=> \E i \in 1 .. n : h[i] = j + 1
    BY <2>1, <1>1, <1>2
  <2>3. \A i \in 1 .. n : h[i] = j + 1 <=> g[i] = j
    <3>1. j \in Int
      BY <2>1
    <3> QED BY <3>1, <1>4
  <2> QED BY <2>2, <2>3
<1>8. \E f \in [1 .. n -> 1 .. Len(p)] :
        /\ \A i, j \in 1 .. n : i < j => f[i] < f[j]
        /\ \A i \in 1 .. n : w[i] = Request(p[f[i]].op, s)
        /\ \A j \in 1 .. Len(p) : p[j].op \in ops /\ p[j].id = s <=> \E i \in 1 .. n : f[i] = j
  BY <1>4, <1>5, <1>6, <1>7
<1> QED BY <1>8 DEF Matches, n, p

LEMMA MatchTailMine ==
  ASSUME NEW w \in Seq(AnyRequest), NEW q \in Seq(AnyMsg), NEW ops, NEW s, Matches(w, q, ops, s),
         q # <<>>, Head(q).op \in ops, Head(q).id = s
  PROVE  w # <<>> /\ Head(w) = Request(Head(q).op, s) /\ Matches(Tail(w), Tail(q), ops, s)
<1> DEFINE n == Len(w)
           k == Len(q)
           p == Tail(q)
           v == Tail(w)
<1>1. PICK h \in [1 .. n -> 1 .. k] :
        /\ \A i, j \in 1 .. n : i < j => h[i] < h[j]
        /\ \A i \in 1 .. n : w[i] = Request(q[h[i]].op, s)
        /\ \A j \in 1 .. k : q[j].op \in ops /\ q[j].id = s <=> \E i \in 1 .. n : h[i] = j
  BY DEF Matches
<1>2. /\ n \in Nat /\ k \in Nat /\ k >= 1 /\ q[1] = Head(q) /\ Len(p) = k - 1
      /\ \A j \in 1 .. k - 1 : p[j] = q[j + 1]
  BY TailOfList
<1>3. PICK i1 \in 1 .. n : h[i1] = 1
  BY <1>1, <1>2
<1>4. n >= 1 /\ w # <<>>
  BY <1>3, EmptySeq
<1>5. w[1] = Head(w) /\ Len(v) = n - 1 /\ \A j \in 1 .. n - 1 : v[j] = w[j + 1]
  BY <1>4, TailOfList
<1> HIDE DEF n, k, p, v
<1>6. i1 = 1 /\ h[1] = 1
  <2>1. 1 \in 1 .. n /\ h[1] \in 1 .. k
    BY <1>1, <1>2, <1>4
  <2>2. 1 < i1 => h[1] < 1
    BY <2>1, <1>1, <1>3
  <2> QED BY <2>1, <2>2, <1>2, <1>3
<1>7. Head(w) = Request(Head(q).op, s)
  BY <1>1, <1>2, <1>4, <1>5, <1>6
<1>8. \A i \in 2 .. n : h[i] \in 2 .. k
  <2>1. ASSUME NEW i \in 2 .. n PROVE h[i] \in 2 .. k
    <3>1. 1 \in 1 .. n /\ i \in 1 .. n /\ 1 < i
      BY <1>2, <1>4
    <3>2. h[1] < h[i] /\ h[i] \in 1 .. k
      BY <3>1, <1>1
    <3> QED BY <3>2, <1>6, <1>2
  <2> QED BY <2>1
<1> DEFINE g == [i \in 1 .. Len(v) |-> h[i + 1] - 1]
<1>9. /\ g \in [1 .. Len(v) -> 1 .. Len(p)]
      /\ \A i \in 1 .. Len(v) : g[i] = h[i + 1] - 1 /\ i + 1 \in 2 .. n /\ i + 1 \in 1 .. n /\ h[i + 1] \in 2 .. k
  <2>1. \A i \in 1 .. Len(v) : i + 1 \in 2 .. n /\ i + 1 \in 1 .. n
    BY <1>2, <1>5
  <2>2. \A i \in 1 .. Len(v) : h[i + 1] \in 2 .. k /\ h[i + 1] - 1 \in 1 .. Len(p)
    BY <2>1, <1>8, <1>2
  <2> QED BY <2>1, <2>2
<1> HIDE DEF g
<1>10. ASSUME NEW i \in 1 .. Len(v), NEW j \in 1 .. Len(v), i < j PROVE g[i] < g[j]
  <2>1. i \in Int /\ j \in Int /\ i + 1 < j + 1
    BY <1>10, <1>2, <1>5
  <2>2. h[i + 1] < h[j + 1]
    BY <2>1, <1>1, <1>9
  <2> QED BY <2>2, <1>9, <1>2
<1>11. ASSUME NEW i \in 1 .. Len(v) PROVE v[i] = Request(p[g[i]].op, s)
  <2>1. v[i] = w[i + 1] /\ w[i + 1] = Request(q[h[i + 1]].op, s)
    BY <1>1, <1>2, <1>5, <1>9
  <2>2. g[i] \in 1 .. k - 1 /\ g[i] + 1 = h[i + 1]
    BY <1>2, <1>9
  <2> QED BY <2>1, <2>2, <1>2
<1>12. ASSUME NEW j \in 1 .. Len(p) PROVE p[j].op \in ops /\ p[j].id = s <=> \E i \in 1 .. Len(v) : g[i] = j
  <2>1. j \in 1 .. k - 1 /\ j + 1 \in 1 .. k /\ j \in Int /\ j >= 1
    BY <1>2
  <2>2. p[j].op \in ops /\ p[j].id = s <=> \E i \in 1 .. n : h[i] = j + 1
    BY <2>1, <1>1, <1>2
  <2>3. ASSUME NEW i \in 1 .. n, h[i] = j + 1 PROVE \E e \in 1 .. Len(v) : g[e] = j
    <3>1. i # 1
      BY <2>1, <2>3, <1>6
    <3>2. i - 1 \in 1 .. Len(v) /\ i - 1 + 1 = i
      BY <3>1, <1>2, <1>5
    <3>3. g[i - 1] = h[i] - 1
      BY <3>2, <1>9
    <3> QED BY <3>2, <3>3, <2>1, <2>3
  <2>4. ASSUME NEW i \in 1 .. Len(v), g[i] = j PROVE \E e \in 1 .. n : h[e] = j + 1
    <3>1. i + 1 \in 1 .. n /\ g[i] = h[i + 1] - 1 /\ h[i + 1] \in 2 .. k
      BY <1>9, <2>4
    <3>2. h[i + 1] = j + 1
      BY <2>1, <2>4, <3>1, <1>2
    <3> QED BY <3>1, <3>2
  <2> QED BY <2>2, <2>3, <2>4
<1>13. \E f \in [1 .. Len(v) -> 1 .. Len(p)] :
        /\ \A i, j \in 1 .. Len(v) : i < j => f[i] < f[j]
        /\ \A i \in 1 .. Len(v) : v[i] = Request(p[f[i]].op, s)
        /\ \A j \in 1 .. Len(p) : p[j].op \in ops /\ p[j].id = s <=> \E i \in 1 .. Len(v) : f[i] = j
  BY <1>9, <1>10, <1>11, <1>12
<1>14. Matches(v, p, ops, s)
  BY <1>13 DEF Matches
<1> QED BY <1>4, <1>7, <1>14 DEF v, p

----------------------------------------------------------------------------
(* What a step does with the queues *)

RequestQueue == [session : Nat, waiting : Seq(AnyRequest)]
Keeping == UNCHANGED <<queue, rq, nextId, started, mTracking, mEnabled>>
Sending(op, id, arg) == queue' = Append(queue, Msg(op, id, arg)) /\ Msg(op, id, arg) \in AnyMsg
Asking(n, kind, id) ==
    /\ Request(kind, id) \in AnyRequest
    /\ rq' \in [Queues -> RequestQueue]
    /\ Session(n)' = Session(n) /\ Waiting(n)' = Append(Waiting(n), Request(kind, id))
    /\ \A k \in Queues : k # n => rq'[k] = rq[k]
Renewing(n, kind, id) ==
    /\ Request(kind, id) \in AnyRequest
    /\ rq' \in [Queues -> RequestQueue]
    /\ Session(n)' = id /\ Waiting(n)' = <<Request(kind, id)>>
    /\ \A k \in Queues : k # n => rq'[k] = rq[k]

Creating == ~api /\ getApi
Registering ==
    /\ Sending("client", None, Callbacks) /\ cbIface' = iface
    /\ UNCHANGED <<rq, nextId, started, mTracking, mEnabled>>
Enabling ==
    /\ ~mEnabled /\ mEnabled' /\ nextId' = nextId + 1 /\ nextId' \in 1 .. MaxIds
    /\ Sending("enable", nextId', NoConfig) /\ Renewing("control", "enable", nextId')
    /\ UNCHANGED <<started, mTracking>>
Starting ==
    /\ ~mTracking /\ mTracking' /\ nextId' = nextId + 1 /\ nextId' \in 1 .. MaxIds
    /\ started' = started \cup {nextId'}
    /\ Sending("start", nextId', NoConfig) /\ Renewing("tracking", "start", nextId')
    /\ UNCHANGED mEnabled
Stopping ==
    /\ Session("tracking") # None /\ ~mTracking'
    /\ Sending("stop", Session("tracking"), NoConfig)
    /\ Asking("tracking", "stop", Session("tracking"))
    /\ UNCHANGED <<nextId, started, mEnabled>>
Updating ==
    /\ Session("tracking") # None
    /\ Sending("update", Session("tracking"), NoConfig)
    /\ Asking("tracking", "update", Session("tracking"))
    /\ UNCHANGED <<nextId, started, mTracking, mEnabled>>
Disabling ==
    /\ mEnabled /\ ~mEnabled'
    /\ Sending("disable", Session("control"), NoConfig)
    /\ Asking("control", "disable", Session("control"))
    /\ UNCHANGED <<nextId, started, mTracking>>
Responding ==
    /\ \E id \in 1 .. niCount : Sending("ni", id, NoConfig) /\ Renewing("ni", "ni", id)
    /\ UNCHANGED <<nextId, started, mTracking, mEnabled>>
Deleting ==
    /\ nextId' = nextId + 1 /\ nextId' \in 1 .. MaxIds
    /\ Sending("aiding", nextId', NoConfig) /\ Renewing("aiding", "aiding", nextId')
    /\ UNCHANGED <<started, mTracking, mEnabled>>
Configuring ==
    /\ \E config \in Configs : Sending("config", None, config)
    /\ Asking("config", "config", None)
    /\ UNCHANGED <<nextId, started, mTracking, mEnabled>>

AdapterKept == UNCHANGED <<adapterVars, threadVars>>
ClientKept == UNCHANGED <<extended, hidlVars, todo, nextId, started, mTracking, mEnabled, mConfig>>

Handling == at = "idle" /\ queue # <<>> /\ queue' = Tail(queue)
\* A message that is answered, and one that is not.
Answers ==
    /\ Handling /\ UNCHANGED <<rq, request, cbIface, cached, told, status>>
    /\ message.op \in Kinds /\ answer'.kind = message.op /\ answer'.id = message.id
    /\ answer' \in [kind : Kinds, id : Nat, ok : BOOLEAN]
    /\ at' = "answer" \/ (at' = "cache" /\ message.op = "config")
    /\ message.op \in {"update", "stop"} => message.id \in sessions
Ignores ==
    /\ Handling /\ UNCHANGED <<rq, answer, request, cbIface, cached, told, status>>
    /\ at' = "idle" \/ (at' = "cache" /\ message.op = "capabilities")
    /\ \/ message.op \in {"control", "client", "capabilities"}
       \/ message.op \in {"update", "stop"} /\ message.id \notin sessions
Caches == cacheCapabilities \/ tellCapabilities

LEMMA RequestFacts ==
  ASSUME NEW kind, NEW id
  PROVE  /\ Request(kind, id).kind = kind /\ Request(kind, id).id = id
         /\ kind \in Kinds /\ id \in Nat => Request(kind, id) \in AnyRequest
  BY DEF Request, AnyRequest

LEMMA MsgFacts ==
  ASSUME NEW op, NEW id, NEW arg
  PROVE  /\ Msg(op, id, arg).op = op /\ Msg(op, id, arg).id = id /\ Msg(op, id, arg).arg = arg
         /\ op \in Kinds /\ id \in Nat /\ arg \in Configs => Msg(op, id, arg) \in AnyMsg
         /\ op = "client" /\ id \in Nat /\ arg \in SUBSET Interfaces => Msg(op, id, arg) \in AnyMsg
         /\ op \in {"control", "capabilities"} /\ id \in Nat /\ arg \in Configs => Msg(op, id, arg) \in AnyMsg
  BY DEF Msg, AnyMsg

LEMMA PushFacts ==
  ASSUME NEW q \in RequestQueue, NEW kind \in Kinds, NEW id \in Nat
  PROVE  /\ push(q, kind, id) \in RequestQueue /\ push(q, kind, id).session = q.session
         /\ push(q, kind, id).waiting = Append(q.waiting, Request(kind, id))
         /\ push(reset(q, id), kind, id) \in RequestQueue /\ push(reset(q, id), kind, id).session = id
         /\ push(reset(q, id), kind, id).waiting = <<Request(kind, id)>>
<1>1. Request(kind, id) \in AnyRequest
  BY RequestFacts
<1>2. Append(q.waiting, Request(kind, id)) \in Seq(AnyRequest) /\ Append(<<>>, Request(kind, id)) \in Seq(AnyRequest)
  <2>1. q.waiting \in Seq(AnyRequest) /\ <<>> \in Seq(AnyRequest)
    BY DEF RequestQueue
  <2> QED BY <2>1, <1>1, AppendedList
<1> HIDE DEF Request, AnyRequest
<1>3. /\ push(q, kind, id) \in RequestQueue /\ push(q, kind, id).session = q.session
      /\ push(q, kind, id).waiting = Append(q.waiting, Request(kind, id))
  <2> DEFINE x == Append(q.waiting, Request(kind, id))
  <2>1. push(q, kind, id) = [q EXCEPT !.waiting = x] /\ x \in Seq(AnyRequest)
    BY <1>2 DEF push
  <2> HIDE DEF x
  <2>2. q \in [session : Nat, waiting : Seq(AnyRequest)]
    BY DEF RequestQueue
  <2> QED BY <2>1, <2>2 DEF RequestQueue, x
<1>4. reset(q, id) \in RequestQueue /\ reset(q, id).session = id /\ reset(q, id).waiting = <<>>
  <2> DEFINE x == [q EXCEPT !.session = id]
  <2>1. x \in RequestQueue /\ x.session = id
    BY DEF RequestQueue
  <2>2. reset(q, id) = [x EXCEPT !.waiting = <<>>]
    BY DEF reset
  <2> HIDE DEF x
  <2>3. x \in [session : Nat, waiting : Seq(AnyRequest)] /\ <<>> \in Seq(AnyRequest)
    BY <2>1 DEF RequestQueue
  <2> QED BY <2>1, <2>2, <2>3 DEF RequestQueue
<1> DEFINE r == reset(q, id)
<1> HIDE DEF r
<1>5. /\ push(r, kind, id) \in RequestQueue /\ push(r, kind, id).session = r.session
      /\ push(r, kind, id).waiting = Append(r.waiting, Request(kind, id))
  <2>1. r \in RequestQueue /\ r.waiting = <<>>
    BY <1>4 DEF r
  <2> QED BY <1>2, <2>1 DEF push, RequestQueue
<1>6. Append(<<>>, Request(kind, id)) = <<Request(kind, id)>>
  BY <1>1, OneElement
<1> QED BY <1>3, <1>4, <1>5, <1>6 DEF r

LEMMA PopFacts ==
  ASSUME NEW q \in RequestQueue, q.waiting # <<>>
  PROVE  pop(q) \in RequestQueue /\ pop(q).session = q.session /\ pop(q).waiting = Tail(q.waiting)
<1>1. q.waiting \in Seq(AnyRequest)
  BY DEF RequestQueue
<1>2. Tail(q.waiting) \in Seq(AnyRequest)
  BY <1>1, TailOfList
<1> QED BY <1>2 DEF pop, RequestQueue

LEMMA AskFacts ==
  ASSUME QueueType, NEW n \in Queues, NEW kind \in Kinds, NEW id \in Nat,
         rq' = [rq EXCEPT ![n] = push(@, kind, id)]
  PROVE  Asking(n, kind, id)
<1>1. rq \in [Queues -> RequestQueue] /\ rq[n] \in RequestQueue
  BY DEF QueueType, RequestQueue
<1> DEFINE r == push(rq[n], kind, id)
<1>2. r \in RequestQueue /\ r.session = rq[n].session /\ r.waiting = Append(rq[n].waiting, Request(kind, id))
  BY <1>1, PushFacts
<1>3. rq' = [rq EXCEPT ![n] = r]
  OBVIOUS
<1> HIDE DEF r
<1>4. Request(kind, id) \in AnyRequest
  BY RequestFacts
<1> QED BY <1>1, <1>2, <1>3, <1>4 DEF Asking, Session, Waiting

LEMMA RenewFacts ==
  ASSUME QueueType, NEW n \in Queues, NEW kind \in Kinds, NEW id \in Nat,
         rq' = [rq EXCEPT ![n] = push(reset(@, id), kind, id)]
  PROVE  Renewing(n, kind, id)
<1>1. rq \in [Queues -> RequestQueue] /\ rq[n] \in RequestQueue
  BY DEF QueueType, RequestQueue
<1> DEFINE r == push(reset(rq[n], id), kind, id)
<1>2. r \in RequestQueue /\ r.session = id /\ r.waiting = <<Request(kind, id)>>
  BY <1>1, PushFacts
<1>3. rq' = [rq EXCEPT ![n] = r]
  OBVIOUS
<1> HIDE DEF r
<1>4. Request(kind, id) \in AnyRequest
  BY RequestFacts
<1> QED BY <1>1, <1>2, <1>3, <1>4 DEF Renewing, Session, Waiting

LEMMA ConfigFacts ==
  ASSUME ClientBounds
  PROVE  /\ NoConfig \in Configs
         /\ \A f \in Fields, v \in 1 .. MaxValue : [NoConfig EXCEPT ![f] = v] \in Configs
         /\ \A c \in Configs, f \in Fields, v \in 1 .. NoHost : [c EXCEPT ![f] = v] \in Configs
         /\ \A v \in 1 .. MaxValue : v \in 1 .. NoHost
         /\ NoHost \in 1 .. NoHost
  BY DEF ClientBounds, NoConfig, NoHost, Configs

LEMMA DueType ==
  ASSUME ClientBounds, BinderType
  PROVE  due \in Configs
  BY DEF due, ClientBounds, BinderType, NoHost, Configs

LEMMA DueKept ==
  ASSUME UNCHANGED wishVars
  PROVE  due' = due
  BY DEF wishVars, due

\* A client hears of the server with its host.
LEMMA DueSet ==
  ASSUME wanted \in Configs, NEW g \in Fields, NEW v,
         wanted' = [wanted EXCEPT ![g] = v], early' = IF g = Server THEN ~api ELSE early
  PROVE  /\ \A f \in Fields : f # g => due'[f] = due[f]
         /\ due'[g] = IF g = Server /\ ~api THEN NoHost ELSE v
         /\ due = [f \in Fields |-> due[f]] /\ due' = [f \in Fields |-> due'[f]]
  BY DEF due, Configs

LEMMA CallbackFacts == Callbacks \in SUBSET Interfaces /\ ("tracking" \in Callbacks => iface # None)
  BY DEF Callbacks, Interfaces

LEMMA TodoFacts ==
  ASSUME todo \in Todos
  PROVE  /\ Idle <=> todo = <<>>
         /\ Doing("getApi") =>
              \/ /\ todo = <<"getApi", "update", "enable", "capabilities">>
                 /\ Tail(todo) = <<"update", "enable", "capabilities">>
              \/ todo = <<"getApi", "update">> /\ Tail(todo) = <<"update">>
         /\ Doing("update") =>
              \/ /\ todo = <<"update", "enable", "capabilities">>
                 /\ Tail(todo) = <<"enable", "capabilities">>
              \/ todo = <<"update">> /\ Tail(todo) = <<>>
         /\ Doing("enable") =>
              todo = <<"enable", "capabilities">> /\ Tail(todo) = <<"capabilities">>
         /\ Doing("capabilities") => todo = <<"capabilities">> /\ Tail(todo) = <<>>
         /\ Doing("stop") => todo = <<"stop", "disable">> /\ Tail(todo) = <<"disable">>
         /\ Doing("disable") => todo = <<"disable">> /\ Tail(todo) = <<>>
<1>1. /\ Idle <=> todo = <<>>
      /\ \A x \in {"getApi", "update", "enable", "capabilities", "stop", "disable"} :
            Doing(x) => todo # <<>> /\ Head(todo) = x
  BY DEF Idle, Doing
<1>2. CASE todo = <<>>
  BY <1>1, <1>2
<1>3. CASE todo = <<"getApi", "update", "enable", "capabilities">>
  <2>1. Head(todo) = "getApi" /\ Tail(todo) = <<"update", "enable", "capabilities">>
    BY <1>3
  <2> QED BY <1>1, <1>3, <2>1
<1>4. CASE todo = <<"update", "enable", "capabilities">>
  <2>1. Head(todo) = "update" /\ Tail(todo) = <<"enable", "capabilities">>
    BY <1>4
  <2> QED BY <1>1, <1>4, <2>1
<1>5. CASE todo = <<"enable", "capabilities">>
  <2>1. Head(todo) = "enable" /\ Tail(todo) = <<"capabilities">>
    BY <1>5
  <2> QED BY <1>1, <1>5, <2>1
<1>6. CASE todo = <<"capabilities">>
  <2>1. Head(todo) = "capabilities" /\ Tail(todo) = <<>>
    BY <1>6
  <2> QED BY <1>1, <1>6, <2>1
<1>7. CASE todo = <<"getApi", "update">>
  <2>1. Head(todo) = "getApi" /\ Tail(todo) = <<"update">>
    BY <1>7
  <2> QED BY <1>1, <1>7, <2>1
<1>8. CASE todo = <<"update">>
  <2>1. Head(todo) = "update" /\ Tail(todo) = <<>>
    BY <1>8
  <2> QED BY <1>1, <1>8, <2>1
<1>9. CASE todo = <<"stop", "disable">>
  <2>1. Head(todo) = "stop" /\ Tail(todo) = <<"disable">>
    BY <1>9
  <2> QED BY <1>1, <1>9, <2>1
<1>10. CASE todo = <<"disable">>
  <2>1. Head(todo) = "disable" /\ Tail(todo) = <<>>
    BY <1>10
  <2> QED BY <1>1, <1>10, <2>1
<1> QED BY <1>2, <1>3, <1>4, <1>5, <1>6, <1>7, <1>8, <1>9, <1>10 DEF Todos

LEMMA BinderExchange ==
  ASSUME ClientTypes, IdsInv, binderThread
  PROVE  /\ AdapterKept
         /\ \/ Keeping \/ Creating \/ Registering \/ Enabling \/ Starting \/ Stopping
            \/ Updating \/ Disabling \/ Responding \/ Deleting \/ Configuring
<1> USE DEF ClientTypes
<1>1. CASE setCallback \/ setGnssNiCb \/ requestCapabilities \/ serviceDied
  BY <1>1 DEF setCallback, setGnssNiCb, requestCapabilities, serviceDied,
     Keeping, AdapterKept, baseVars
<1>2. CASE getApi
  BY <1>2 DEF getApi, Keeping, Creating, AdapterKept
<1>3. CASE updateCallbacks
  <2>1. AdapterKept /\ UNCHANGED <<rq, nextId, started, mTracking, mEnabled>> /\ cbIface' = iface
        /\ queue' = queue \o clientMsgs
    BY <1>3 DEF updateCallbacks, AdapterKept, baseVars
  <2>2. CASE isGnssClient(Callbacks)
    <3> DEFINE x == Msg("client", None, Callbacks)
    <3>1. x \in AnyMsg
      BY MsgFacts, CallbackFacts DEF None
    <3>2. queue' = queue \o <<x>>
      BY <2>1, <2>2 DEF clientMsgs
    <3> HIDE DEF x
    <3>3. queue' = Append(queue, x)
      BY <3>1, <3>2 DEF QueueType
    <3> QED BY <3>1, <3>3, <2>1 DEF Registering, Sending, x
  <2>3. CASE ~isGnssClient(Callbacks)
    <3>1. queue' = queue \o <<>>
      BY <2>1, <2>3 DEF clientMsgs
    <3>2. queue' = queue
      BY <3>1 DEF QueueType
    <3> QED BY <3>2, <2>1 DEF Keeping
  <2> QED BY <2>2, <2>3
<1>4. CASE locAPIEnable
  <2>1. CASE mEnabled
    BY <1>4, <2>1 DEF locAPIEnable, Keeping, AdapterKept
  <2>2. CASE ~mEnabled
    <3>1. /\ AdapterKept /\ UNCHANGED <<started, mTracking>> /\ mEnabled' = TRUE
          /\ nextId < MaxIds /\ nextId' = nextId + 1
          /\ rq' = [rq EXCEPT !["control"] = push(reset(@, nextId'), "enable", nextId')]
          /\ queue' = Append(queue, Msg("enable", nextId', NoConfig))
      BY <1>4, <2>2 DEF locAPIEnable, Fresh, AdapterKept
    <3>2. nextId' \in 1 .. MaxIds /\ nextId' \in Nat
      BY <3>1 DEF BinderType, ClientBounds
    <3>3. Msg("enable", nextId', NoConfig) \in AnyMsg
      BY <3>2, MsgFacts, ConfigFacts DEF Kinds
    <3>4. Renewing("control", "enable", nextId')
      <4>1. "control" \in Queues /\ "enable" \in Kinds
        BY DEF Queues, Kinds
      <4> QED BY <3>1, <3>2, <4>1, RenewFacts
    <3> QED BY <3>1, <3>2, <3>3, <3>4, <2>2 DEF Enabling, Sending
  <2> QED BY <2>1, <2>2
<1>5. CASE locAPIStartTracking
  <2>1. /\ AdapterKept /\ UNCHANGED mEnabled /\ ~mTracking /\ mTracking' = TRUE
        /\ nextId < MaxIds /\ nextId' = nextId + 1 /\ started' = started \cup {nextId'}
        /\ rq' = [rq EXCEPT !["tracking"] = push(reset(@, nextId'), "start", nextId')]
        /\ queue' = Append(queue, Msg("start", nextId', NoConfig))
    BY <1>5 DEF locAPIStartTracking, Fresh, AdapterKept
  <2>2. nextId' \in 1 .. MaxIds /\ nextId' \in Nat
    BY <2>1 DEF BinderType, ClientBounds
  <2>3. Msg("start", nextId', NoConfig) \in AnyMsg
    BY <2>2, MsgFacts, ConfigFacts DEF Kinds
  <2>4. Renewing("tracking", "start", nextId')
    <3>1. "tracking" \in Queues /\ "start" \in Kinds
      BY DEF Queues, Kinds
    <3> QED BY <2>1, <2>2, <3>1, RenewFacts
  <2> QED BY <2>1, <2>2, <2>3, <2>4 DEF Starting, Sending
<1>6. CASE locAPIStopTracking
  <2>1. AdapterKept /\ UNCHANGED <<nextId, started, mEnabled>>
    BY <1>6 DEF locAPIStopTracking, AdapterKept
  <2>2. CASE Session("tracking") = None
    BY <1>6, <2>1, <2>2 DEF locAPIStopTracking, Keeping, Session
  <2>3. CASE Session("tracking") # None
    <3>1. /\ mTracking' = FALSE
          /\ rq' = [rq EXCEPT !["tracking"] = push(@, "stop", Session("tracking"))]
          /\ queue' = Append(queue, Msg("stop", Session("tracking"), NoConfig))
      BY <1>6, <2>3 DEF locAPIStopTracking, Session
    <3>2. Session("tracking") \in Nat
      BY DEF QueueType, Queues, Session
    <3>3. Msg("stop", Session("tracking"), NoConfig) \in AnyMsg
      BY <3>2, MsgFacts, ConfigFacts DEF Kinds
    <3>4. Asking("tracking", "stop", Session("tracking"))
      <4>1. "tracking" \in Queues /\ "stop" \in Kinds
        BY DEF Queues, Kinds
      <4> QED BY <3>1, <3>2, <4>1, AskFacts
    <3> QED BY <2>1, <2>3, <3>1, <3>3, <3>4 DEF Stopping, Sending
  <2> QED BY <2>2, <2>3
<1>7. CASE locAPIUpdateTrackingOptions
  <2>1. /\ AdapterKept /\ UNCHANGED <<nextId, started, mTracking, mEnabled>>
        /\ Session("tracking") # None
        /\ rq' = [rq EXCEPT !["tracking"] = push(@, "update", Session("tracking"))]
        /\ queue' = Append(queue, Msg("update", Session("tracking"), NoConfig))
    BY <1>7 DEF locAPIUpdateTrackingOptions, Session, AdapterKept
  <2>2. Session("tracking") \in Nat
    BY DEF QueueType, Queues, Session
  <2>3. Msg("update", Session("tracking"), NoConfig) \in AnyMsg
    BY <2>2, MsgFacts, ConfigFacts DEF Kinds
  <2>4. Asking("tracking", "update", Session("tracking"))
    <3>1. "tracking" \in Queues /\ "update" \in Kinds
      BY DEF Queues, Kinds
    <3> QED BY <2>1, <2>2, <3>1, AskFacts
  <2> QED BY <2>1, <2>3, <2>4 DEF Updating, Sending
<1>8. CASE locAPIDisable
  <2>1. AdapterKept /\ UNCHANGED <<nextId, started, mTracking>>
    BY <1>8 DEF locAPIDisable, AdapterKept
  <2>2. CASE ~mEnabled
    BY <1>8, <2>1, <2>2 DEF locAPIDisable, Keeping
  <2>3. CASE mEnabled
    <3>1. /\ mEnabled' = FALSE
          /\ rq' = [rq EXCEPT !["control"] = push(@, "disable", Session("control"))]
          /\ queue' = Append(queue, Msg("disable", Session("control"), NoConfig))
      BY <1>8, <2>3 DEF locAPIDisable, Session
    <3>2. Session("control") \in Nat
      BY DEF QueueType, Queues, Session
    <3>3. Msg("disable", Session("control"), NoConfig) \in AnyMsg
      BY <3>2, MsgFacts, ConfigFacts DEF Kinds
    <3>4. Asking("control", "disable", Session("control"))
      <4>1. "control" \in Queues /\ "disable" \in Kinds
        BY DEF Queues, Kinds
      <4> QED BY <3>1, <3>2, <4>1, AskFacts
    <3> QED BY <2>1, <2>3, <3>1, <3>3, <3>4 DEF Disabling, Sending
  <2> QED BY <2>2, <2>3
<1>9. CASE locAPIGnssNiResponse
  <2>1. PICK id \in 1 .. niCount :
          /\ rq' = [rq EXCEPT !["ni"] = push(reset(@, id), "ni", id)]
          /\ queue' = Append(queue, Msg("ni", id, NoConfig))
          /\ AdapterKept /\ UNCHANGED <<nextId, started, mTracking, mEnabled>>
    BY <1>9 DEF locAPIGnssNiResponse, AdapterKept
  <2>2. id \in Nat
    BY DEF AdapterType, ClientBounds
  <2>3. Msg("ni", id, NoConfig) \in AnyMsg
    BY <2>2, MsgFacts, ConfigFacts DEF Kinds
  <2>4. Renewing("ni", "ni", id)
    <3>1. "ni" \in Queues /\ "ni" \in Kinds
      BY DEF Queues, Kinds
    <3> QED BY <2>1, <2>2, <3>1, RenewFacts
  <2> QED BY <2>1, <2>3, <2>4 DEF Responding, Sending
<1>10. CASE locAPIGnssDeleteAidingData
  <2>1. /\ AdapterKept /\ UNCHANGED <<started, mTracking, mEnabled>>
        /\ nextId < MaxIds /\ nextId' = nextId + 1
        /\ rq' = [rq EXCEPT !["aiding"] = push(reset(@, nextId'), "aiding", nextId')]
        /\ queue' = Append(queue, Msg("aiding", nextId', NoConfig))
    BY <1>10 DEF locAPIGnssDeleteAidingData, Fresh, AdapterKept
  <2>2. nextId' \in 1 .. MaxIds /\ nextId' \in Nat
    BY <2>1 DEF BinderType, ClientBounds
  <2>3. Msg("aiding", nextId', NoConfig) \in AnyMsg
    BY <2>2, MsgFacts, ConfigFacts DEF Kinds
  <2>4. Renewing("aiding", "aiding", nextId')
    <3>1. "aiding" \in Queues /\ "aiding" \in Kinds
      BY DEF Queues, Kinds
    <3> QED BY <2>1, <2>2, <3>1, RenewFacts
  <2> QED BY <2>1, <2>2, <2>3, <2>4 DEF Deleting, Sending
<1>11. CASE updateConfiguration
  <2>1. AdapterKept /\ UNCHANGED <<nextId, started, mTracking, mEnabled>>
    BY <1>11 DEF updateConfiguration, AdapterKept
  <2>2. PICK f \in Fields, v \in 1 .. MaxValue :
          LET config == [NoConfig EXCEPT ![f] = v]
          IN  IF api
              THEN /\ queue' = queue \o configMsgs(config)
                   /\ rq' = IF identical(config) THEN rq
                            ELSE [rq EXCEPT !["config"] = push(@, "config", None)]
              ELSE UNCHANGED <<queue, rq>>
    BY <1>11 DEF updateConfiguration
  <2> DEFINE config == [NoConfig EXCEPT ![f] = v]
             x == Msg("config", None, config)
  <2>3. config \in Configs /\ None \in Nat
    BY ConfigFacts DEF None
  <2>4. x \in AnyMsg
    BY <2>3, MsgFacts DEF Kinds
  <2>5. /\ ~api => UNCHANGED <<queue, rq>>
        /\ api => /\ queue' = queue \o configMsgs(config)
                  /\ rq' = IF identical(config) THEN rq
                           ELSE [rq EXCEPT !["config"] = push(@, "config", None)]
    BY <2>2
  <2> HIDE DEF config
  <2>6. CASE ~api
    BY <2>1, <2>5, <2>6 DEF Keeping
  <2>7. CASE api /\ identical(config)
    <3>1. queue' = queue \o <<>> /\ rq' = rq
      BY <2>5, <2>7 DEF configMsgs
    <3>2. queue' = queue
      BY <3>1 DEF QueueType
    <3> QED BY <3>1, <3>2, <2>1 DEF Keeping
  <2>8. CASE api /\ ~identical(config)
    <3>1. queue' = queue \o <<x>> /\ rq' = [rq EXCEPT !["config"] = push(@, "config", None)]
      BY <2>5, <2>8 DEF configMsgs
    <3> HIDE DEF x
    <3>2. queue' = Append(queue, x)
      BY <3>1, <2>4 DEF QueueType
    <3>3. Asking("config", "config", None)
      <4>1. "config" \in Queues /\ "config" \in Kinds
        BY DEF Queues, Kinds
      <4> QED BY <3>1, <2>3, <4>1, AskFacts
    <3> QED BY <3>2, <3>3, <2>1, <2>3, <2>4 DEF Configuring, Sending, x
  <2> QED BY <2>6, <2>7, <2>8
<1> QED BY <1>1, <1>2, <1>3, <1>4, <1>5, <1>6, <1>7, <1>8, <1>9, <1>10, <1>11 DEF binderThread

LEMMA AdapterExchange ==
  ASSUME ClientTypes, IdsInv, adapterThread
  PROVE  /\ ClientKept
         /\ \/ Answers \/ Ignores
            \/ Caches /\ UNCHANGED <<adapterVars, queue, rq, answer, request>>
            \/ getRequest \/ onResponse
<1>1. message.op = Head(queue).op /\ message.id = Head(queue).id
  BY DEF message
<1>2. ASSUME queue # <<>>, message.op \in Kinds
      PROVE  message.id \in Nat /\ \A ok \in BOOLEAN :
               LET a == [kind |-> message.op, id |-> message.id, ok |-> ok]
               IN  a.kind = message.op /\ a.id = message.id /\ a \in [kind : Kinds, id : Nat, ok : BOOLEAN]
  <2>1. message \in AnyMsg
    BY <1>2, TailOfList DEF ClientTypes, QueueType, message
  <2>2. message.id \in Nat
    BY <2>1 DEF AnyMsg
  <2> QED BY <1>2, <2>2
<1>3. CASE setControlCallbacks \/ saveClient \/ sendCapabilities
  BY <1>1, <1>3 DEF setControlCallbacks, saveClient, sendCapabilities,
     Handle, Handling, silent, clientSide,
     threadVars, faceVars, baseVars, seenVars, ClientKept, Ignores
<1>4. CASE startTracking \/ niResponse \/ deleteAidingData \/ enableGnss \/ disableGnss
  <2>1. Handling /\ UNCHANGED <<rq, request, cbIface, cached, told, status>> /\ ClientKept
        /\ at' = "answer" /\ message.op \in Kinds \ {"update", "stop"}
        /\ \E ok \in BOOLEAN : answer' = [kind |-> message.op, id |-> message.id, ok |-> ok]
    BY <1>1, <1>4 DEF startTracking, niResponse, deleteAidingData,
       enableGnss, disableGnss, Handle, Handling,
       report, clientSide, faceVars, baseVars, seenVars, ClientKept,
       Kinds
  <2> QED BY <1>2, <2>1 DEF Answers, Handling
<1>5. CASE updateTracking \/ stopTracking
  <2>1. Handling /\ UNCHANGED <<rq, request, cbIface, cached, told, status>> /\ ClientKept
        /\ message.op \in {"update", "stop"}
    BY <1>1, <1>5 DEF updateTracking, stopTracking, Handle, Handling,
       report, silent, clientSide,
       threadVars, faceVars, baseVars, seenVars, ClientKept
  <2>2. \/ message.id \notin sessions /\ UNCHANGED <<at, answer>>
        \/ /\ message.id \in sessions /\ at' = "answer"
           /\ \E ok \in BOOLEAN : answer' = [kind |-> message.op, id |-> message.id, ok |-> ok]
    BY <1>1, <1>5 DEF updateTracking, stopTracking, Handle, report,
       silent, threadVars
  <2> QED BY <1>2, <2>1, <2>2 DEF Answers, Ignores, Handling, Kinds
<1>6. CASE gnssUpdateConfig
  <2>1. Handling /\ UNCHANGED <<rq, request, cbIface, cached, told, status>> /\ ClientKept
        /\ message.op = "config" /\ at' \in {"answer", "cache"}
        /\ answer' = [kind |-> "config", id |-> None, ok |-> TRUE]
    BY <1>1, <1>6 DEF gnssUpdateConfig, Handle, Handling, clientSide,
       faceVars, baseVars, seenVars, ClientKept
  <2>2. message.id = None
    <3>1. queue[1] = message /\ 1 \in 1 .. Len(queue)
      BY <2>1, TailOfList DEF ClientTypes, QueueType, Handling, message
    <3>2. ValidId(message.op, message.id)
      BY <3>1 DEF IdsInv, MessagesValid
    <3> QED BY <3>2, <2>1 DEF ValidId, TrackOps, VoteOps
  <2> QED BY <1>2, <2>1, <2>2 DEF Answers, Handling, Kinds
<1>7. CASE cacheCapabilities \/ tellCapabilities
  BY <1>7 DEF Caches, cacheCapabilities, tellCapabilities, adapterSide, ClientKept,
     faceVars
<1>8. CASE getRequest \/ onResponse
  BY <1>8 DEF getRequest, onResponse, adapterSide, ClientKept
<1> QED BY <1>3, <1>4, <1>5, <1>6, <1>7, <1>8 DEF adapterThread

----------------------------------------------------------------------------
(* Types *)

LEMMA JoinedMessages ==
  ASSUME NEW S, NEW a \in S, NEW b \in S, NEW c \in S, NEW d \in S
  PROVE  /\ <<>> \o <<a>> = <<a>>
         /\ <<a>> \o (<<b>> \o <<c>>) \o <<d>> = <<a, b, c, d>>
         /\ <<a>> \o (<<b>> \o <<c>>) \o <<>> = <<a, b, c>>
         /\ <<a>> \o (<<>> \o <<>>) \o <<d>> = <<a, d>>
         /\ <<a>> \o (<<>> \o <<>>) \o <<>> = <<a>>
<1>1. /\ <<a>> \in Seq(S) /\ <<b>> \in Seq(S) /\ <<c>> \in Seq(S) /\ <<d>> \in Seq(S)
      /\ <<a, b>> \in Seq(S) /\ <<a, b, c>> \in Seq(S) /\ <<>> \in Seq(S)
  OBVIOUS
<1>2. \A q \in Seq(S), x \in S : q \o <<x>> = Append(q, x)
  OBVIOUS
<1>3. \A q \in Seq(S) : q \o <<>> = q /\ <<>> \o q = q
  BY ConcatEmptySeq
<1>4. <<a>> \o (<<b>> \o <<c>>) = (<<a>> \o <<b>>) \o <<c>>
  BY <1>1, ConcatAssociative
<1>5. <<a>> \o <<b>> = <<a, b>>
  <2>1. <<a>> \o <<b>> = Append(<<a>>, b)
    BY <1>1, <1>2
  <2> DEFINE p == Append(<<a>>, b)
  <2>2. p \in Seq(S) /\ Len(p) = 2 /\ p[2] = b /\ \A j \in 1 .. 1 : p[j] = <<a>>[j]
    BY <1>1, AppendedList
  <2>3. <<a, b>> \in Seq(S) /\ Len(<<a, b>>) = 2 /\ <<a, b>>[1] = a /\ <<a, b>>[2] = b
    OBVIOUS
  <2> HIDE DEF p
  <2>4. \A j \in 1 .. Len(p) : p[j] = <<a, b>>[j]
    <3>1. \A j \in 1 .. Len(p) : j = 1 \/ j = 2
      BY <2>2
    <3> QED BY <2>2, <2>3, <3>1
  <2>5. p = <<a, b>>
    BY <2>2, <2>3, <2>4, SeqEqual
  <2> QED BY <2>1, <2>5 DEF p
<1>6. <<a, b>> \o <<c>> = <<a, b, c>>
  <2>1. <<a, b>> \o <<c>> = Append(<<a, b>>, c)
    BY <1>1, <1>2
  <2> DEFINE p == Append(<<a, b>>, c)
  <2>2. p \in Seq(S) /\ Len(p) = 3 /\ p[3] = c /\ \A j \in 1 .. 2 : p[j] = <<a, b>>[j]
    BY <1>1, AppendedList
  <2>3. <<a, b, c>> \in Seq(S) /\ Len(<<a, b, c>>) = 3 /\ <<a, b, c>>[1] = a /\ <<a, b, c>>[2] = b /\ <<a, b, c>>[3] = c
    OBVIOUS
  <2> HIDE DEF p
  <2>4. \A j \in 1 .. Len(p) : p[j] = <<a, b, c>>[j]
    <3>1. \A j \in 1 .. Len(p) : j = 1 \/ j = 2 \/ j = 3
      BY <2>2
    <3> QED BY <2>2, <2>3, <3>1
  <2>5. p = <<a, b, c>>
    BY <2>2, <2>3, <2>4, SeqEqual
  <2> QED BY <2>1, <2>5 DEF p
<1>7. <<a, b, c>> \o <<d>> = <<a, b, c, d>>
  <2>1. <<a, b, c>> \o <<d>> = Append(<<a, b, c>>, d)
    BY <1>1, <1>2
  <2> DEFINE p == Append(<<a, b, c>>, d)
  <2>2. p \in Seq(S) /\ Len(p) = 4 /\ p[4] = d /\ \A j \in 1 .. 3 : p[j] = <<a, b, c>>[j]
    BY <1>1, AppendedList
  <2>3. <<a, b, c, d>> \in Seq(S) /\ Len(<<a, b, c, d>>) = 4 /\ <<a, b, c, d>>[1] = a /\ <<a, b, c, d>>[2] = b /\ <<a, b, c, d>>[3] = c /\ <<a, b, c, d>>[4] = d
    OBVIOUS
  <2> HIDE DEF p
  <2>4. \A j \in 1 .. Len(p) : p[j] = <<a, b, c, d>>[j]
    <3>1. \A j \in 1 .. Len(p) : j = 1 \/ j = 2 \/ j = 3 \/ j = 4
      BY <2>2
    <3> QED BY <2>2, <2>3, <3>1
  <2>5. p = <<a, b, c, d>>
    BY <2>2, <2>3, <2>4, SeqEqual
  <2> QED BY <2>1, <2>5 DEF p
<1>8. <<a>> \o <<d>> = <<a, d>>
  <2>1. <<a>> \o <<d>> = Append(<<a>>, d)
    BY <1>1, <1>2
  <2> DEFINE p == Append(<<a>>, d)
  <2>2. p \in Seq(S) /\ Len(p) = 2 /\ p[2] = d /\ \A j \in 1 .. 1 : p[j] = <<a>>[j]
    BY <1>1, AppendedList
  <2>3. <<a, d>> \in Seq(S) /\ Len(<<a, d>>) = 2 /\ <<a, d>>[1] = a /\ <<a, d>>[2] = d
    OBVIOUS
  <2> HIDE DEF p
  <2>4. \A j \in 1 .. Len(p) : p[j] = <<a, d>>[j]
    <3>1. \A j \in 1 .. Len(p) : j = 1 \/ j = 2
      BY <2>2
    <3> QED BY <2>2, <2>3, <3>1
  <2>5. p = <<a, d>>
    BY <2>2, <2>3, <2>4, SeqEqual
  <2> QED BY <2>1, <2>5 DEF p
<1>9. <<a>> \o (<<b>> \o <<c>>) = <<a, b, c>>
  BY <1>4, <1>5, <1>6
<1>10. <<>> \o <<>> = <<>> /\ <<a>> \o <<>> = <<a>> /\ <<>> \o <<a>> = <<a>>
       /\ <<a, b, c>> \o <<>> = <<a, b, c>>
  BY <1>1, <1>3
<1> QED BY <1>7, <1>8, <1>9, <1>10

LEMMA FewMessages ==
  ASSUME NEW S, NEW a \in S, NEW b \in S, NEW c \in S, NEW d \in S,
         NEW q, q \in {<<a, b, c, d>>, <<a, b, c>>, <<a, d>>, <<a>>}
  PROVE  /\ q \in Seq(S)
         /\ \A j \in 1 .. Len(q) : q[j] \in {a, b, c, d}
         /\ q \in {<<a, b, c, d>>, <<a, d>>} => \E j \in 1 .. Len(q) : q[j] = d
         /\ q \in {<<a, b, c>>, <<a>>} => \A j \in 1 .. Len(q) : q[j] \in {a, b, c}
<1>1. CASE q = <<a, b, c, d>>
  <2>1. Len(q) = 4 /\ q[1] = a /\ q[2] = b /\ q[3] = c /\ q[4] = d /\ q \in Seq(S)
    BY <1>1
  <2>2. \A j \in 1 .. Len(q) : j = 1 \/ j = 2 \/ j = 3 \/ j = 4
    BY <2>1
  <2>3. 4 \in 1 .. Len(q)
    BY <2>1
  <2>4. q \notin {<<a, b, c>>, <<a>>}
    BY <2>1
  <2>5. \A j \in 1 .. Len(q) : q[j] \in {a, b, c, d}
    BY <2>1, <2>2
  <2> QED BY <2>1, <2>3, <2>4, <2>5
<1>2. CASE q = <<a, b, c>>
  <2>1. Len(q) = 3 /\ q[1] = a /\ q[2] = b /\ q[3] = c /\ q \in Seq(S)
    BY <1>2
  <2>2. \A j \in 1 .. Len(q) : j = 1 \/ j = 2 \/ j = 3
    BY <2>1
  <2>3. q \notin {<<a, b, c, d>>, <<a, d>>}
    BY <2>1
  <2>4. \A j \in 1 .. Len(q) : q[j] \in {a, b, c} /\ q[j] \in {a, b, c, d}
    BY <2>1, <2>2
  <2> QED BY <2>1, <2>3, <2>4
<1>3. CASE q = <<a, d>>
  <2>1. Len(q) = 2 /\ q[1] = a /\ q[2] = d /\ q \in Seq(S)
    BY <1>3
  <2>2. \A j \in 1 .. Len(q) : j = 1 \/ j = 2
    BY <2>1
  <2>3. 2 \in 1 .. Len(q)
    BY <2>1
  <2>4. q \notin {<<a, b, c>>, <<a>>}
    BY <2>1
  <2>5. \A j \in 1 .. Len(q) : q[j] \in {a, b, c, d}
    BY <2>1, <2>2
  <2> QED BY <2>1, <2>3, <2>4, <2>5
<1>4. CASE q = <<a>>
  <2>1. Len(q) = 1 /\ q[1] = a /\ q \in Seq(S)
    BY <1>4
  <2>2. \A j \in 1 .. Len(q) : j = 1
    BY <2>1
  <2>3. q \notin {<<a, b, c, d>>, <<a, d>>}
    BY <2>1
  <2>4. \A j \in 1 .. Len(q) : q[j] \in {a, b, c} /\ q[j] \in {a, b, c, d}
    BY <2>1, <2>2
  <2> QED BY <2>1, <2>3, <2>4
<1> QED BY <1>1, <1>2, <1>3, <1>4

\* What getApi sends when it creates the client.
Created ==
    /\ queue' \in Seq(AnyMsg)
    /\ \A j \in 1 .. Len(queue') :
          /\ queue'[j].op \in {"control", "client", "capabilities", "config"} /\ queue'[j].id = None
          /\ queue'[j].op = "client" => queue'[j].arg = Callbacks
          /\ queue'[j].op = "config" => queue'[j].arg = due /\ due # NoConfig
    /\ due # NoConfig => \E j \in 1 .. Len(queue') : queue'[j].op = "config"
    /\ rq' \in [Queues -> RequestQueue]
    /\ \A n \in Queues : Session(n)' = Session(n) /\ (n # "config" => rq'[n] = rq[n])
    /\ \/ Waiting("config")' = Waiting("config")
       \/ Waiting("config")' = Append(Waiting("config"), Request("config", None))
    /\ ~api /\ api' /\ cbIface' = iface /\ mConfig' = due /\ pendingConfig' = NoConfig
    /\ UNCHANGED <<extended, iface, niIface, due, calls, cached, mTracking, mEnabled, nextId, started>>
    /\ UNCHANGED <<adapterVars, threadVars, told, status>>

LEMMA CreatedFacts ==
  ASSUME ClientTypes, IdsInv, ClientlessInv, Creating
  PROVE  Created
<1> DEFINE a == Msg("control", None, NoConfig)
           b == Msg("client", None, Callbacks)
           c == Msg("capabilities", None, NoConfig)
           d == Msg("config", None, due)
<1>1. /\ ~api /\ queue = <<>> /\ mConfig = NoConfig /\ pendingConfig = due
      /\ api' = TRUE /\ cbIface' = iface /\ mConfig' = pendingConfig /\ pendingConfig' = NoConfig
      /\ queue' = queue \o createControl \o createInstance \o configMsgs(pendingConfig)
      /\ rq' = IF identical(pendingConfig) THEN rq
               ELSE [rq EXCEPT !["config"] = push(@, "config", None)]
      /\ UNCHANGED <<extended, iface, niIface, due, calls, cached, mTracking, mEnabled, nextId, started>>
      /\ UNCHANGED <<adapterVars, threadVars, told, status>>
  BY DueKept DEF Creating, getApi, Done, ClientlessInv, seenVars
<1>2. NoConfig \in Configs /\ due \in Configs /\ None \in Nat
  BY ConfigFacts, DueType DEF ClientTypes, None
<1>3. a \in AnyMsg /\ b \in AnyMsg /\ c \in AnyMsg /\ d \in AnyMsg
  BY <1>2, MsgFacts, CallbackFacts DEF Kinds
<1>4. /\ a.op = "control" /\ a.id = None /\ b.op = "client" /\ b.id = None /\ b.arg = Callbacks
      /\ c.op = "capabilities" /\ c.id = None /\ d.op = "config" /\ d.id = None /\ d.arg = due
  BY MsgFacts
<1>5. /\ createControl = <<a>>
      /\ createInstance = IF isGnssClient(Callbacks) THEN <<b>> \o <<c>> ELSE <<>> \o <<>>
      /\ configMsgs(due) = IF due = NoConfig THEN <<>> ELSE <<d>>
  <2>1. identical(due) <=> due = NoConfig
    BY <1>1 DEF identical, NoConfig, ClientTypes, ClientBounds
  <2> QED BY <1>1, <2>1 DEF createControl, createInstance, clientMsgs, configMsgs
<1> HIDE DEF a, b, c, d
<1>6. /\ queue' \in {<<a, b, c, d>>, <<a, b, c>>, <<a, d>>, <<a>>}
      /\ due = NoConfig => queue' \in {<<a, b, c>>, <<a>>}
      /\ due # NoConfig => queue' \in {<<a, b, c, d>>, <<a, d>>}
  <2>1. <<>> \o <<a>> = <<a>>
    BY <1>3, JoinedMessages
  <2>2. queue' = (<<a>> \o createInstance) \o configMsgs(due)
    <3>1. queue' = <<>> \o createControl \o createInstance \o configMsgs(pendingConfig)
      BY <1>1
    <3>2. configMsgs(pendingConfig) = configMsgs(due) /\ createControl = <<a>>
      BY <1>1, <1>5
    <3> QED BY <3>1, <3>2, <2>1, Zenon
  <2>3. CASE isGnssClient(Callbacks) /\ due = NoConfig
    BY <2>2, <2>3, <1>3, <1>5, JoinedMessages
  <2>4. CASE isGnssClient(Callbacks) /\ due # NoConfig
    <3>1. <<a>> \o (<<b>> \o <<c>>) \o <<d>> = <<a, b, c, d>>
      BY <1>3, JoinedMessages
    <3>2. queue' = <<a>> \o (<<b>> \o <<c>>) \o <<d>>
      BY <2>2, <2>4, <1>5
    <3>3. queue' = <<a, b, c, d>>
      BY <3>1, <3>2
    <3> QED BY <2>4, <3>3
  <2>5. CASE ~isGnssClient(Callbacks) /\ due = NoConfig
    BY <2>2, <2>5, <1>3, <1>5, JoinedMessages
  <2>6. CASE ~isGnssClient(Callbacks) /\ due # NoConfig
    BY <2>2, <2>6, <1>3, <1>5, JoinedMessages
  <2> QED BY <2>3, <2>4, <2>5, <2>6
<1>7. /\ queue' \in Seq(AnyMsg)
      /\ \A j \in 1 .. Len(queue') : queue'[j] \in {a, b, c, d}
      /\ due # NoConfig => \E j \in 1 .. Len(queue') : queue'[j] = d
      /\ due = NoConfig => \A j \in 1 .. Len(queue') : queue'[j] \in {a, b, c}
  BY <1>3, <1>6, FewMessages
<1>8. \A j \in 1 .. Len(queue') :
          /\ queue'[j].op \in {"control", "client", "capabilities", "config"} /\ queue'[j].id = None
          /\ queue'[j].op = "client" => queue'[j].arg = Callbacks
          /\ queue'[j].op = "config" => queue'[j].arg = due /\ due # NoConfig
  <2>1. ASSUME NEW j \in 1 .. Len(queue')
        PROVE  /\ queue'[j].op \in {"control", "client", "capabilities", "config"} /\ queue'[j].id = None
               /\ queue'[j].op = "client" => queue'[j].arg = Callbacks
               /\ queue'[j].op = "config" => queue'[j].arg = due /\ due # NoConfig
    <3>1. queue'[j] \in {a, b, c, d} /\ (due = NoConfig => queue'[j] \in {a, b, c})
      BY <1>7
    <3> QED BY <3>1, <1>4
  <2> QED BY <2>1
<1>9. due # NoConfig => \E j \in 1 .. Len(queue') : queue'[j].op = "config"
  BY <1>4, <1>7
<1>10. /\ rq' \in [Queues -> RequestQueue]
       /\ \A n \in Queues : Session(n)' = Session(n) /\ (n # "config" => rq'[n] = rq[n])
       /\ \/ Waiting("config")' = Waiting("config")
          \/ Waiting("config")' = Append(Waiting("config"), Request("config", None))
  <2>1. CASE rq' = rq
    BY <2>1 DEF ClientTypes, QueueType, RequestQueue, Session, Waiting
  <2>2. CASE rq' # rq
    <3>1. rq' = [rq EXCEPT !["config"] = push(@, "config", None)]
      BY <1>1, <2>2
    <3>2. "config" \in Queues /\ "config" \in Kinds /\ QueueType
      BY DEF Queues, Kinds, ClientTypes
    <3>3. Asking("config", "config", None)
      BY <3>1, <3>2, <1>2, AskFacts
    <3> QED BY <3>3 DEF Asking, Session, Waiting
  <2> QED BY <2>1, <2>2
<1> QED BY <1>1, <1>7, <1>8, <1>9, <1>10 DEF Created

LEMMA NumbersGrow ==
  ASSUME ClientTypes, IdsInv, ClientlessInv, [ClientNext]_clientVars
  PROVE  /\ nextId' \in 0 .. MaxIds /\ started' \subseteq 1 .. nextId' /\ niCount' \in 0 .. MaxNi
         /\ nextId <= nextId' /\ started \subseteq started' /\ niCount <= niCount'
         /\ nextId \in Nat /\ nextId' \in Nat /\ niCount \in Nat /\ niCount' \in Nat
<1>0. /\ nextId \in 0 .. MaxIds /\ started \subseteq 1 .. nextId /\ niCount \in 0 .. MaxNi
      /\ MaxIds \in Nat /\ MaxNi \in Nat
  BY DEF ClientTypes, BinderType, AdapterType, ClientBounds
<1>1. CASE binderThread
  <2>1. niCount' = niCount
    BY <1>1, BinderExchange DEF AdapterKept, adapterVars
  <2>2. \/ nextId' = nextId /\ started' = started
        \/ nextId' = nextId + 1 /\ nextId' \in 1 .. MaxIds /\ started' = started
        \/ nextId' = nextId + 1 /\ nextId' \in 1 .. MaxIds /\ started' = started \cup {nextId'}
    BY <1>1, BinderExchange, CreatedFacts DEF Created, Keeping, Registering, Enabling, Starting, Stopping,
       Updating, Disabling, Responding, Deleting, Configuring
  <2>3. CASE nextId' = nextId /\ started' = started
    BY <1>0, <2>1, <2>3
  <2>4. CASE nextId' = nextId + 1 /\ nextId' \in 1 .. MaxIds /\ started' \subseteq started \cup {nextId'}
                /\ started \subseteq started'
    <3>1. nextId \in Nat /\ 1 .. nextId \subseteq 1 .. nextId' /\ nextId' \in 1 .. nextId'
      BY <1>0, <2>4
    <3> QED BY <1>0, <2>1, <2>4, <3>1
  <2> QED BY <2>2, <2>3, <2>4
<1>2. CASE adapterThread
  <2>1. nextId' = nextId /\ started' = started
    BY <1>2, AdapterExchange DEF ClientKept
  <2>2. niCount' = niCount
    BY <1>2 DEF adapterThread, setControlCallbacks, saveClient,
       sendCapabilities, startTracking, updateTracking,
       stopTracking, niResponse, deleteAidingData, enableGnss,
       disableGnss, gnssUpdateConfig, cacheCapabilities,
       tellCapabilities, getRequest, onResponse, adapterSide, adapterVars
  <2> QED BY <1>0, <2>1, <2>2
<1>3. CASE niNotify
  BY <1>0, <1>3 DEF niNotify, clientSide, baseVars
<1>4. CASE UNCHANGED clientVars
  BY <1>0, <1>4 DEF clientVars, baseVars, adapterVars
<1> QED BY <1>1, <1>2, <1>3, <1>4 DEF ClientNext

LEMMA TodoStep ==
  ASSUME todo \in Todos
  PROVE  todo # <<>> => Tail(todo) \in Todos
<1>1. CASE Doing("getApi")
  BY <1>1, TodoFacts DEF Todos
<1>2. CASE Doing("update")
  BY <1>2, TodoFacts DEF Todos
<1>3. CASE Doing("enable")
  BY <1>3, TodoFacts DEF Todos
<1>4. CASE Doing("capabilities")
  BY <1>4, TodoFacts DEF Todos
<1>5. CASE Doing("stop")
  BY <1>5, TodoFacts DEF Todos
<1>6. CASE Doing("disable")
  BY <1>6, TodoFacts DEF Todos
<1>7. todo # <<>> => Doing("getApi") \/ Doing("update") \/ Doing("enable") \/ Doing("capabilities") \/ Doing("stop") \/ Doing("disable")
  BY DEF Todos, Doing
<1> QED BY <1>1, <1>2, <1>3, <1>4, <1>5, <1>6, <1>7

LEMMA BinderTypeStep ==
  ASSUME ClientTypes, IdsInv, ClientlessInv, [ClientNext]_clientVars
  PROVE  BinderType'
<1>0. nextId' \in 0 .. MaxIds /\ started' \subseteq 1 .. nextId'
  BY NumbersGrow
<1>1. /\ BinderType /\ ClientBounds /\ NoConfig \in Configs
      /\ \A f \in Fields, v \in 1 .. MaxValue : [NoConfig EXCEPT ![f] = v] \in Configs
      /\ \A c \in Configs, f \in Fields, v \in 1 .. NoHost : [c EXCEPT ![f] = v] \in Configs
      /\ (\A v \in 1 .. MaxValue : v \in 1 .. NoHost) /\ NoHost \in 1 .. NoHost
      /\ iface \in Nat /\ MaxFaces \in Nat /\ 0 .. iface \subseteq Faces /\ calls \in Nat /\ calls + 1 \in Nat
  BY ConfigFacts DEF ClientTypes, BinderType, ClientBounds, Faces
<1>2. Doing("getApi") \/ Doing("update") \/ Doing("enable") \/ Doing("capabilities") \/ Doing("stop") \/ Doing("disable")
        => Tail(todo) \in Todos
  BY <1>1, TodoStep DEF BinderType, Doing
<1>3. CASE setCallback
  <2>1. iface' \in Faces /\ cbIface \in 0 .. iface'
    BY <1>1, <1>3 DEF setCallback, BinderType, Faces
  <2> QED BY <1>0, <1>1, <1>3, <2>1 DEF setCallback, BinderType, Todos, faceVars,
     baseVars, seenVars, wishVars
<1>4. CASE setGnssNiCb
  BY <1>0, <1>1, <1>4 DEF setGnssNiCb, BinderType, Todos, faceVars, baseVars,
     seenVars, wishVars
<1>5. CASE getApi
  <2>1. cbIface' \in 0 .. iface
    BY <1>1, <1>5 DEF getApi, BinderType
  <2> QED BY <1>0, <1>1, <1>2, <1>5, <2>1 DEF getApi, BinderType, Done, seenVars, wishVars
<1>6. CASE updateCallbacks
  BY <1>0, <1>1, <1>2, <1>6 DEF updateCallbacks, BinderType, Done, baseVars,
     seenVars, wishVars
<1>7. CASE locAPIEnable
  BY <1>0, <1>1, <1>2, <1>7 DEF locAPIEnable, BinderType, Done, faceVars,
     seenVars, wishVars
<1>8. CASE requestCapabilities
  <2>1. cbIface \in Faces
    BY <1>1 DEF BinderType
  <2> QED BY <1>0, <1>1, <1>2, <1>8, <2>1 DEF requestCapabilities, BinderType, Done,
     faceVars, baseVars, wishVars
<1>9. CASE serviceDied
  BY <1>0, <1>1, <1>9 DEF serviceDied, BinderType, Todos, ApiCalled, Called,
     faceVars, baseVars, seenVars, wishVars
<1>10. CASE locAPIStartTracking
  BY <1>0, <1>1, <1>10 DEF locAPIStartTracking, BinderType, ApiCalled, Called,
     faceVars, seenVars, wishVars
<1>11. CASE locAPIStopTracking
  <2>1. todo' \in Todos /\ calls' \in Nat
    BY <1>1, <1>2, <1>11 DEF locAPIStopTracking, ApiCalled, Called, Done,
       BinderType
  <2> QED BY <1>0, <1>1, <1>11, <2>1 DEF locAPIStopTracking, BinderType, faceVars,
     seenVars, wishVars
<1>12. CASE locAPIUpdateTrackingOptions
  BY <1>0, <1>1, <1>12 DEF locAPIUpdateTrackingOptions, BinderType, ApiCalled,
     Called, faceVars, seenVars, wishVars
<1>13. CASE locAPIDisable
  <2>1. todo' \in Todos /\ calls' \in Nat
    BY <1>1, <1>2, <1>13 DEF locAPIDisable, ApiCalled, Called, Done, BinderType
  <2> QED BY <1>0, <1>1, <1>13, <2>1 DEF locAPIDisable, BinderType, faceVars, seenVars, wishVars
<1>14. CASE locAPIGnssNiResponse
  BY <1>0, <1>1, <1>14 DEF locAPIGnssNiResponse, BinderType, ApiCalled, Called,
     faceVars, seenVars, wishVars
<1>15. CASE locAPIGnssDeleteAidingData
  BY <1>0, <1>1, <1>15 DEF locAPIGnssDeleteAidingData, BinderType, ApiCalled,
     Called, faceVars, seenVars, wishVars
<1>16. CASE updateConfiguration
  <2>1. /\ calls' = calls + 1
        /\ UNCHANGED <<extended, iface, niIface, api, todo, cbIface, cached, mTracking, mEnabled, told, status>>
    BY <1>16 DEF updateConfiguration, Called, faceVars, seenVars
  <2>2. PICK f \in Fields, v \in 1 .. MaxValue :
          /\ wanted' = [wanted EXCEPT ![f] = v]
          /\ mConfig' = mConfig \/ mConfig' = [NoConfig EXCEPT ![f] = v]
          /\ pendingConfig' = pendingConfig \/ pendingConfig' = [pendingConfig EXCEPT ![f] = collected(f, v)]
          /\ early' = IF f = Server THEN ~api ELSE early
    BY <1>16 DEF updateConfiguration
  <2>3. wanted' \in Configs /\ mConfig' \in Configs /\ pendingConfig' \in Configs
    <3>1. wanted \in Configs /\ mConfig \in Configs /\ pendingConfig \in Configs
      BY <1>1 DEF BinderType
    <3>2. [wanted EXCEPT ![f] = v] \in Configs /\ [pendingConfig EXCEPT ![f] = collected(f, v)] \in Configs
          /\ [NoConfig EXCEPT ![f] = v] \in Configs
      <4>1. v \in 1 .. NoHost /\ collected(f, v) \in 1 .. NoHost
        BY <1>1 DEF collected
      <4> QED BY <1>1, <3>1, <4>1
    <3> QED BY <2>2, <3>1, <3>2
  <2>4. early' \in BOOLEAN
    BY <1>1, <2>2 DEF BinderType
  <2> QED BY <1>0, <1>1, <2>1, <2>3, <2>4 DEF BinderType
<1>17. CASE adapterThread
  <2>1. ClientKept
    BY <1>17, AdapterExchange
  <2>2. cbIface' = cbIface /\ cached' \in BOOLEAN /\ told' \subseteq Faces /\ status' \in BOOLEAN
    <3>1. CASE cacheCapabilities \/ tellCapabilities \/ getRequest \/ onResponse
      BY <1>1, <3>1 DEF cacheCapabilities, tellCapabilities, getRequest,
         onResponse, BinderType, faceVars, seenVars, wishVars
    <3>2. CASE Answers \/ Ignores
      BY <1>1, <3>2 DEF Answers, Ignores, BinderType
    <3> QED BY <3>1, <3>2, <1>17, AdapterExchange DEF Caches
  <2> QED BY <1>0, <1>1, <2>1, <2>2 DEF ClientKept, BinderType, hidlVars, wishVars
<1>18. CASE niNotify
  BY <1>0, <1>1, <1>18 DEF niNotify, clientSide, BinderType, hidlVars,
     faceVars, baseVars, seenVars, wishVars
<1>19. CASE UNCHANGED clientVars
  BY <1>0, <1>1, <1>19 DEF clientVars, BinderType, hidlVars, faceVars, baseVars,
     seenVars, wishVars
<1> QED BY <1>3, <1>4, <1>5, <1>6, <1>7, <1>8, <1>9, <1>10, <1>11, <1>12, <1>13, <1>14, <1>15, <1>16,
           <1>17, <1>18, <1>19 DEF ClientNext, binderThread

LEMMA QueueTypeStep ==
  ASSUME ClientTypes, IdsInv, ClientlessInv, [ClientNext]_clientVars
  PROVE  QueueType'
<1>0. queue \in Seq(AnyMsg) /\ rq \in [Queues -> RequestQueue]
  BY DEF ClientTypes, QueueType, RequestQueue
<1>1. SUFFICES queue' \in Seq(AnyMsg) /\ rq' \in [Queues -> RequestQueue]
  BY DEF QueueType, RequestQueue
<1>2. ASSUME NEW op, NEW id, NEW arg, Sending(op, id, arg) PROVE queue' \in Seq(AnyMsg)
  BY <1>0, <1>2, AppendedList DEF Sending
<1>3. CASE binderThread
  <2>1. CASE Creating
    BY <2>1, CreatedFacts DEF Created
  <2>2. CASE ~Creating
    BY <1>0, <1>2, <1>3, <2>2, BinderExchange DEF Keeping, Registering, Enabling, Starting, Stopping,
       Updating, Disabling, Responding, Deleting, Configuring, Asking, Renewing
  <2> QED BY <2>1, <2>2
<1>4. CASE adapterThread
  <2>1. CASE Answers \/ Ignores
    BY <1>0, <2>1, TailOfList DEF Answers, Ignores, Handling
  <2>2. CASE getRequest
    <3>1. queue' = queue
      BY <2>2 DEF getRequest, adapterSide
    <3>2. CASE rq' = rq
      BY <1>0, <3>1, <3>2
    <3>3. CASE rq' # rq
      <4> DEFINE n == queueOf(answer)
      <4>1. n # "none" /\ rq[n].waiting # <<>> /\ rq' = [rq EXCEPT ![n] = pop(@)]
        BY <2>2, <3>3 DEF getRequest
      <4> HIDE DEF n
      <4>2. CASE n \in Queues
        <5>1. pop(rq[n]) \in RequestQueue
          BY <1>0, <4>1, <4>2, PopFacts
        <5> QED BY <1>0, <3>1, <4>1, <5>1
      <4>3. CASE n \notin Queues
        BY <1>0, <3>1, <3>3, <4>1, <4>3
      <4> QED BY <4>2, <4>3
    <3> QED BY <3>2, <3>3
  <2>3. CASE Caches \/ onResponse
    BY <1>0, <2>3 DEF Caches, cacheCapabilities, tellCapabilities, onResponse,
       adapterSide
  <2> QED BY <1>4, <2>1, <2>2, <2>3, AdapterExchange
<1>5. CASE niNotify \/ UNCHANGED clientVars
  BY <1>0, <1>5 DEF niNotify, clientSide, clientVars, baseVars
<1> QED BY <1>3, <1>4, <1>5 DEF ClientNext

----------------------------------------------------------------------------
(* Identifiers *)

LEMMA HeadFacts ==
  ASSUME ClientTypes, IdsInv, queue # <<>>
  PROVE  /\ message \in AnyMsg /\ ValidId(message.op, message.id) /\ queue[1] = message /\ message.id \in Nat
         /\ message.op = "config" => message.arg \in Configs
         /\ message.op = "client" => message.arg \in SUBSET Interfaces
         /\ Len(queue) \in Nat /\ Len(queue) >= 1 /\ 1 \in 1 .. Len(queue)
         /\ Tail(queue) \in Seq(AnyMsg) /\ Len(Tail(queue)) = Len(queue) - 1
         /\ \A j \in 1 .. Len(queue) - 1 : Tail(queue)[j] = queue[j + 1] /\ j + 1 \in 1 .. Len(queue)
<1>1. /\ Len(queue) \in Nat /\ Len(queue) >= 1 /\ queue[1] = message /\ message \in AnyMsg
      /\ Tail(queue) \in Seq(AnyMsg) /\ Len(Tail(queue)) = Len(queue) - 1
      /\ \A j \in 1 .. Len(queue) - 1 : Tail(queue)[j] = queue[j + 1]
  BY TailOfList DEF ClientTypes, QueueType, message
<1>2. 1 \in 1 .. Len(queue) /\ \A j \in 1 .. Len(queue) - 1 : j + 1 \in 1 .. Len(queue)
  BY <1>1
<1>3. message.id \in Nat
  BY <1>1 DEF AnyMsg
<1>4. /\ ValidId(message.op, message.id) /\ (message.op = "config" => message.arg \in Configs)
      /\ (message.op = "client" => message.arg \in SUBSET Interfaces)
  BY <1>1, <1>2 DEF IdsInv, MessagesValid
<1> QED BY <1>1, <1>2, <1>3, <1>4

LEMMA QueueOfFacts ==
  ASSUME rq \in [Queues -> RequestQueue]
  PROVE  /\ answer.kind \in TrackOps \cup {"ni"} =>
              queueOf(answer) = IF Session("tracking") = answer.id THEN "tracking"
                                ELSE IF Session("ni") = answer.id THEN "ni" ELSE "none"
         /\ answer.kind \in VoteOps \cup {"aiding"} =>
              queueOf(answer) = IF Session("aiding") = answer.id THEN "aiding"
                                ELSE IF Session("control") = answer.id THEN "control" ELSE "none"
         /\ answer.kind = "config" => queueOf(answer) = "config"
<1> DEFINE Fits(order) == {i \in DOMAIN order : order[i] = "config" \/ rq[order[i]].session = answer.id}
           First(order) == IF Fits(order) = {} THEN "none"
                           ELSE order[CHOOSE i \in Fits(order) : \A j \in Fits(order) : i <= j]
<1>1. ASSUME NEW a, NEW b, a # "config", b # "config"
      PROVE  First(<<a, b>>) = IF rq[a].session = answer.id THEN a
                               ELSE IF rq[b].session = answer.id THEN b ELSE "none"
  <2> DEFINE F == Fits(<<a, b>>)
  <2>1. /\ F \subseteq {1, 2} /\ (1 \in F <=> rq[a].session = answer.id)
        /\ (2 \in F <=> rq[b].session = answer.id) /\ <<a, b>>[1] = a /\ <<a, b>>[2] = b
    <3>1. DOMAIN <<a, b>> = {1, 2} /\ <<a, b>>[1] = a /\ <<a, b>>[2] = b
      OBVIOUS
    <3>2. F = {i \in {1, 2} : <<a, b>>[i] = "config" \/ rq[<<a, b>>[i]].session = answer.id}
      BY <3>1
    <3> HIDE DEF F
    <3> QED BY <3>1, <3>2, <1>1
  <2>2. First(<<a, b>>) = IF F = {} THEN "none" ELSE <<a, b>>[CHOOSE i \in F : \A j \in F : i <= j]
    OBVIOUS
  <2> HIDE DEF F, First
  <2>3. CASE 1 \in F
    <3>1. \E i \in F : \A j \in F : i <= j
      BY <2>1, <2>3
    <3>2. PICK i \in F : i = (CHOOSE k \in F : \A j \in F : k <= j) /\ \A j \in F : i <= j
      BY <3>1
    <3>3. i = 1
      BY <3>2, <2>1, <2>3
    <3> QED BY <2>1, <2>2, <2>3, <3>2, <3>3
  <2>4. CASE 1 \notin F /\ 2 \in F
    <3>1. F = {2}
      BY <2>1, <2>4
    <3>2. (CHOOSE i \in F : \A j \in F : i <= j) = 2
      BY <3>1
    <3> QED BY <2>1, <2>2, <2>4, <3>2
  <2>5. CASE F = {}
    BY <2>1, <2>2, <2>5
  <2> QED BY <2>1, <2>3, <2>4, <2>5
<1>2. First(<<"config">>) = "config"
  <2>1. Fits(<<"config">>) = {1}
    OBVIOUS
  <2>2. (CHOOSE i \in {1} : \A j \in {1} : i <= j) = 1
    OBVIOUS
  <2> QED BY <2>1, <2>2
<1>3. queueOf(answer) = First(CASE answer.kind \in {"start", "update", "stop", "ni"} -> <<"tracking", "ni">>
                                [] answer.kind \in {"aiding", "enable", "disable"}   -> <<"aiding", "control">>
                                [] OTHER                                        -> <<"config">>)
  BY DEF queueOf
<1> HIDE DEF First
<1>4. CASE answer.kind \in TrackOps \cup {"ni"}
  <2>1. queueOf(answer) = First(<<"tracking", "ni">>)
    BY <1>3, <1>4 DEF TrackOps
  <2> QED BY <1>1, <1>4, <2>1 DEF Session, TrackOps, VoteOps
<1>5. CASE answer.kind \in VoteOps \cup {"aiding"}
  <2>1. queueOf(answer) = First(<<"aiding", "control">>)
    BY <1>3, <1>5 DEF VoteOps
  <2> QED BY <1>1, <1>5, <2>1 DEF Session, TrackOps, VoteOps
<1>6. CASE answer.kind = "config"
  <2>1. queueOf(answer) = First(<<"config">>)
    BY <1>3, <1>6
  <2> QED BY <1>2, <1>6, <2>1 DEF TrackOps, VoteOps
<1> QED BY <1>4, <1>5, <1>6

\* The request for an answer is found and taken out, or there is none.
Finds(n) ==
    /\ Waiting(n) # <<>> /\ Waiting(n) \in Seq(AnyRequest)
    /\ request' = Head(Waiting(n)) /\ Head(Waiting(n)) \in AnyRequest /\ Waiting(n)[1] = Head(Waiting(n))
    /\ at' = "respond" /\ answer' = answer
    /\ Session(n)' = Session(n) /\ Waiting(n)' = Tail(Waiting(n))
    /\ \A k \in Queues : k # n => rq'[k] = rq[k]
Misses == at' = "idle" /\ answer' = Nothing /\ UNCHANGED <<request, rq>>

LEMMA GetFacts ==
  ASSUME ClientTypes, IdsInv, getRequest
  PROVE  /\ at = "answer" /\ UNCHANGED <<queue, adapterVars, cbIface, cached, told, status>>
         /\ rq' \in [Queues -> RequestQueue]
         /\ \/ Misses /\ (queueOf(answer) \in Queues => Waiting(queueOf(answer)) = <<>>)
            \/ /\ answer.kind \in TrackOps \cup {"ni"} /\ Session("tracking") = answer.id
               /\ Finds("tracking")
            \/ /\ answer.kind \in TrackOps \cup {"ni"} /\ Session("ni") = answer.id
               /\ Session("tracking") # answer.id /\ Finds("ni")
            \/ /\ answer.kind \in VoteOps \cup {"aiding"} /\ Session("aiding") = answer.id
               /\ Finds("aiding")
            \/ /\ answer.kind \in VoteOps \cup {"aiding"} /\ Session("control") = answer.id
               /\ Session("aiding") # answer.id /\ Finds("control")
            \/ answer.kind = "config" /\ Finds("config")
<1> DEFINE n == queueOf(answer)
<1>1. at = "answer" /\ UNCHANGED <<queue, adapterVars, cbIface, cached, told, status>>
  BY DEF getRequest, adapterSide, faceVars, seenVars
<1>2. rq \in [Queues -> RequestQueue]
  BY DEF ClientTypes, QueueType, RequestQueue
<1>3. CASE n # "none" /\ rq[n].waiting # <<>>
  <2>1. /\ request' = Head(rq[n].waiting) /\ rq' = [rq EXCEPT ![n] = pop(@)]
        /\ at' = "respond" /\ answer' = answer
    BY <1>3 DEF getRequest
  <2>2. answer.kind \in Kinds
    BY <1>1 DEF IdsInv, AnswerValid, ClientTypes, AdapterType
  <2>3. \/ /\ answer.kind \in TrackOps \cup {"ni"} /\ Session("tracking") = answer.id /\ n = "tracking"
        \/ /\ answer.kind \in TrackOps \cup {"ni"} /\ Session("ni") = answer.id
           /\ Session("tracking") # answer.id /\ n = "ni"
        \/ /\ answer.kind \in VoteOps \cup {"aiding"} /\ Session("aiding") = answer.id /\ n = "aiding"
        \/ /\ answer.kind \in VoteOps \cup {"aiding"} /\ Session("control") = answer.id
           /\ Session("aiding") # answer.id /\ n = "control"
        \/ answer.kind = "config" /\ n = "config"
    BY <1>2, <1>3, <2>2, QueueOfFacts DEF Kinds, TrackOps, VoteOps
  <2> HIDE DEF n
  <2>4. PICK c \in Queues : c = n
    BY <2>3 DEF Queues
  <2>5. /\ rq[c] \in RequestQueue /\ pop(rq[c]) \in RequestQueue /\ pop(rq[c]).session = rq[c].session
        /\ pop(rq[c]).waiting = Tail(rq[c].waiting)
    BY <1>2, <1>3, <2>4, PopFacts
  <2>6. rq[c].waiting \in Seq(AnyRequest)
    BY <2>5 DEF RequestQueue
  <2>7. Head(rq[c].waiting) \in AnyRequest /\ rq[c].waiting[1] = Head(rq[c].waiting)
    BY <1>3, <2>4, <2>6, TailOfList
  <2>8. /\ rq' \in [Queues -> RequestQueue] /\ rq'[c] = pop(rq[c])
        /\ \A k \in Queues : k # c => rq'[k] = rq[k]
    BY <1>2, <2>1, <2>4, <2>5
  <2>9. Finds(c)
    BY <1>3, <2>1, <2>4, <2>5, <2>6, <2>7, <2>8 DEF Finds, Session, Waiting
  <2>10. \/ /\ answer.kind \in TrackOps \cup {"ni"} /\ Session("tracking") = answer.id /\ c = "tracking"
         \/ /\ answer.kind \in TrackOps \cup {"ni"} /\ Session("ni") = answer.id
            /\ Session("tracking") # answer.id /\ c = "ni"
         \/ /\ answer.kind \in VoteOps \cup {"aiding"} /\ Session("aiding") = answer.id /\ c = "aiding"
         \/ /\ answer.kind \in VoteOps \cup {"aiding"} /\ Session("control") = answer.id
            /\ Session("aiding") # answer.id /\ c = "control"
         \/ answer.kind = "config" /\ c = "config"
    BY <2>3, <2>4
  <2> QED BY <1>1, <2>8, <2>9, <2>10
<1>4. CASE ~(n # "none" /\ rq[n].waiting # <<>>)
  <2>1. Misses
    BY <1>4 DEF getRequest, Misses
  <2>2. n \in Queues => Waiting(n) = <<>>
    BY <1>4 DEF Queues, Waiting
  <2> QED BY <1>1, <1>2, <2>1, <2>2 DEF Misses
<1> QED BY <1>3, <1>4

LEMMA AdapterTypeStep ==
  ASSUME ClientTypes, IdsInv, ClientlessInv, [ClientNext]_clientVars
  PROVE  AdapterType'
<1>0. /\ AdapterType /\ niCount' \in 0 .. MaxNi /\ nextId <= nextId' /\ started \subseteq started'
      /\ nextId \in Nat /\ nextId' \in Nat
  BY NumbersGrow DEF ClientTypes
<1>1. power \in 0 .. nextId' /\ sessions \subseteq started'
  BY <1>0 DEF AdapterType
<1>2. CASE binderThread
  BY <1>0, <1>1, <1>2, BinderExchange DEF AdapterKept, adapterVars, threadVars, AdapterType
<1>3. CASE adapterThread
  <2>1. nextId' = nextId /\ started' = started
    BY <1>3, AdapterExchange DEF ClientKept
  <2>2. CASE Answers \/ Ignores
    <3>1. /\ message.id \in Nat /\ (message.op = "start" => message.id \in started)
          /\ (message.op = "enable" => message.id \in 0 .. nextId)
          /\ (message.op = "config" => message.arg \in Configs) /\ (message.op = "client" => message.arg \in SUBSET Interfaces)
      BY <2>2, HeadFacts DEF Answers, Ignores, Handling, ValidId, TrackOps, VoteOps
    <3>2. /\ at' \in {"idle", "answer", "respond", "cache", "tell"}
          /\ answer' \in [kind : Kinds \cup {"none"}, id : Nat, ok : BOOLEAN]
          /\ request' \in [kind : Kinds \cup {"none"}, id : Nat]
      BY <1>0, <2>2 DEF Answers, Ignores, AdapterType
    <3>3. ~(cacheCapabilities \/ tellCapabilities \/ getRequest \/ onResponse)
      BY <2>2 DEF Answers, Ignores, Handling, cacheCapabilities, tellCapabilities,
         getRequest, onResponse
    <3>4. CASE saveClient
      BY <1>0, <2>1, <3>1, <3>2, <3>4 DEF saveClient, Handle, AdapterType, message
    <3>5. CASE startTracking
      <4>1. message.op = "start"
        BY <3>5 DEF startTracking, Handle, message
      <4>2. sessions' \subseteq started
        BY <1>0, <3>1, <3>5, <4>1 DEF startTracking, AdapterType
      <4>3. refused' \subseteq sessions'
        BY <1>0, <3>5 DEF startTracking, AdapterType
      <4> QED BY <1>0, <2>1, <3>2, <3>5, <4>2, <4>3 DEF startTracking, AdapterType
    <3>6. CASE stopTracking
      BY <1>0, <2>1, <3>2, <3>6 DEF stopTracking, AdapterType
    <3>7. CASE enableGnss
      <4>1. message.op = "enable"
        BY <3>7 DEF enableGnss, Handle, message
      <4> QED BY <1>0, <2>1, <3>1, <3>2, <3>7, <4>1 DEF enableGnss, AdapterType
    <3>8. CASE disableGnss
      <4>1. power' \in 0 .. nextId
        BY <1>0, <3>8 DEF disableGnss, AdapterType, None
      <4> QED BY <1>0, <2>1, <3>2, <3>8, <4>1 DEF disableGnss, AdapterType
    <3>9. CASE gnssUpdateConfig
      <4>1. message.arg \in Configs
        BY <3>1, <3>9 DEF gnssUpdateConfig, Handle, message
      <4>2. inForce' \in Configs
        BY <1>0, <3>9, <4>1 DEF gnssUpdateConfig, AdapterType, Configs
      <4> QED BY <1>0, <2>1, <3>2, <3>9, <4>2 DEF gnssUpdateConfig, AdapterType
    <3>10. CASE setControlCallbacks \/ sendCapabilities \/ updateTracking \/ niResponse \/ deleteAidingData
      BY <1>0, <2>1, <3>2, <3>10 DEF setControlCallbacks, sendCapabilities,
         updateTracking, niResponse,
         deleteAidingData, adapterVars, AdapterType
    <3> QED BY <1>3, <3>3, <3>4, <3>5, <3>6, <3>7, <3>8, <3>9, <3>10 DEF adapterThread
  <2>3. CASE Caches /\ UNCHANGED <<adapterVars, queue, rq, answer, request>>
    BY <1>0, <2>1, <2>3 DEF Caches, cacheCapabilities, tellCapabilities,
       adapterVars, AdapterType
  <2>4. CASE getRequest
    <3>1. Nothing \in [kind : Kinds \cup {"none"}, id : Nat, ok : BOOLEAN]
          /\ AnyRequest \subseteq [kind : Kinds \cup {"none"}, id : Nat]
      BY DEF Nothing, None, AnyRequest
    <3> QED BY <1>0, <2>1, <2>4, <3>1, GetFacts DEF Misses, Finds, adapterVars, AdapterType
  <2>5. CASE onResponse
    <3>1. Nothing \in [kind : Kinds \cup {"none"}, id : Nat, ok : BOOLEAN]
          /\ Request("none", None) \in [kind : Kinds \cup {"none"}, id : Nat]
      BY DEF Nothing, Request, None
    <3> QED BY <1>0, <2>1, <2>5, <3>1 DEF onResponse, adapterSide, adapterVars,
       AdapterType
  <2> QED BY <1>3, <2>2, <2>3, <2>4, <2>5, AdapterExchange
<1>4. CASE niNotify
  BY <1>0, <1>1, <1>4 DEF niNotify, silent, threadVars, AdapterType
<1>5. CASE UNCHANGED clientVars
  BY <1>0, <1>1, <1>5 DEF clientVars, adapterVars, threadVars, AdapterType
<1> QED BY <1>2, <1>3, <1>4, <1>5 DEF ClientNext

LEMMA TypesStep ==
  ASSUME ClientTypes, IdsInv, ClientlessInv, [ClientNext]_clientVars
  PROVE  ClientTypes'
<1>1. ClientBounds'
  BY DEF ClientTypes, ClientBounds
<1> QED BY <1>1, BinderTypeStep, AdapterTypeStep, QueueTypeStep DEF ClientTypes

\* What handling a message does to the adapter.
Handled ==
    /\ clientData' = IF message.op = "client" THEN message.arg ELSE clientData
    /\ message.op \notin {"start", "stop"} => UNCHANGED <<sessions, refused>>
    /\ message.op = "start" =>
          /\ refused' = refused
          /\ \/ sessions' = sessions \cup {message.id} /\ "tracking" \in clientData /\ answer'.ok /\ at' = "answer"
             \/ sessions' = sessions /\ ~answer'.ok
    /\ message.op = "stop" =>
          /\ sessions' \subseteq sessions /\ sessions' \ refused' \subseteq (sessions \ refused) \ {message.id}
          /\ sessions \ {message.id} \subseteq sessions'
    /\ power' = CASE message.op = "enable" -> (IF power = None THEN message.id ELSE power)
                  [] message.op = "disable" -> (IF power = message.id THEN None ELSE power)
                  [] OTHER -> power
    /\ inForce' = IF message.op = "config" THEN [f \in Fields |-> IF message.arg[f] = 0 THEN inForce[f] ELSE message.arg[f]]
                  ELSE inForce
    /\ niCount' = niCount

LEMMA HandleFacts ==
  ASSUME ClientTypes, adapterThread, Answers \/ Ignores
  PROVE  Handled
<1>0. message.op = Head(queue).op /\ refused \subseteq sessions
  BY DEF message, ClientTypes, AdapterType
<1>1. ~(cacheCapabilities \/ tellCapabilities \/ getRequest \/ onResponse)
  BY DEF Answers, Ignores, Handling, cacheCapabilities, tellCapabilities,
     getRequest, onResponse
<1>2. CASE setControlCallbacks
  <2>1. message.op = "control"
    BY <1>0, <1>2 DEF setControlCallbacks, Handle
  <2> QED BY <2>1, <1>2 DEF setControlCallbacks, adapterVars, Handled
<1>3. CASE saveClient
  <2>1. message.op = "client"
    BY <1>0, <1>3 DEF saveClient, Handle
  <2> QED BY <2>1, <1>3 DEF saveClient, Handled
<1>4. CASE sendCapabilities
  <2>1. message.op = "capabilities"
    BY <1>0, <1>4 DEF sendCapabilities, Handle
  <2> QED BY <2>1, <1>4 DEF sendCapabilities, adapterVars, Handled
<1>5. CASE startTracking
  <2>1. message.op = "start"
    BY <1>0, <1>5 DEF startTracking, Handle
  <2> QED BY <2>1, <1>5 DEF startTracking, report, Handled
<1>6. CASE updateTracking
  <2>1. message.op = "update"
    BY <1>0, <1>6 DEF updateTracking, Handle
  <2> QED BY <2>1, <1>6 DEF updateTracking, adapterVars, Handled
<1>7. CASE stopTracking
  <2>1. message.op = "stop"
    BY <1>0, <1>7 DEF stopTracking, Handle
  <2>2. UNCHANGED <<clientData, power, inForce, niCount>>
    BY <1>7 DEF stopTracking
  <2>3. /\ sessions' \subseteq sessions /\ sessions' \ refused' \subseteq (sessions \ refused) \ {message.id}
        /\ sessions \ {message.id} \subseteq sessions'
    BY <1>0, <1>7 DEF stopTracking
  <2> QED BY <2>1, <2>2, <2>3 DEF Handled
<1>8. CASE niResponse
  <2>1. message.op = "ni"
    BY <1>0, <1>8 DEF niResponse, Handle
  <2> QED BY <2>1, <1>8 DEF niResponse, adapterVars, Handled
<1>9. CASE deleteAidingData
  <2>1. message.op = "aiding"
    BY <1>0, <1>9 DEF deleteAidingData, Handle
  <2> QED BY <2>1, <1>9 DEF deleteAidingData, adapterVars, Handled
<1>10. CASE enableGnss
  <2>1. message.op = "enable"
    BY <1>0, <1>10 DEF enableGnss, Handle
  <2> QED BY <2>1, <1>10 DEF enableGnss, Handled
<1>11. CASE disableGnss
  <2>1. message.op = "disable"
    BY <1>0, <1>11 DEF disableGnss, Handle
  <2> QED BY <2>1, <1>11 DEF disableGnss, Handled
<1>12. CASE gnssUpdateConfig
  <2>1. message.op = "config"
    BY <1>0, <1>12 DEF gnssUpdateConfig, Handle
  <2> QED BY <2>1, <1>12 DEF gnssUpdateConfig, Handled
<1> QED BY <1>1, <1>2, <1>3, <1>4, <1>5, <1>6, <1>7, <1>8, <1>9, <1>10, <1>11,
   <1>12 DEF adapterThread

\* The steps, as the invariants see them.
Resting ==
    /\ UNCHANGED <<queue, rq, nextId, started, mTracking, mEnabled, sessions, refused, power, clientData>>
    /\ UNCHANGED <<at, answer, request, inForce>>
Sends == Registering \/ Enabling \/ Starting \/ Stopping \/ Updating \/ Disabling \/ Responding \/ Deleting \/ Configuring
Calls == Caches /\ UNCHANGED <<adapterVars, queue, rq, answer, request>>

LEMMA StepCases ==
  ASSUME ClientTypes, IdsInv, ClientlessInv, [ClientNext]_clientVars
  PROVE  \/ Resting
         \/ Created
         \/ Sends /\ AdapterKept /\ binderThread
         \/ (Answers \/ Ignores) /\ Handled /\ ClientKept
         \/ Calls /\ ClientKept
         \/ getRequest /\ ClientKept
         \/ onResponse /\ ClientKept
<1>1. CASE binderThread
  BY <1>1, BinderExchange, CreatedFacts DEF AdapterKept, adapterVars, threadVars, Keeping,
     Resting, Sends
<1>2. CASE adapterThread
  BY <1>2, AdapterExchange, HandleFacts DEF Calls
<1>3. CASE niNotify \/ UNCHANGED clientVars
  BY <1>3 DEF niNotify, clientVars, clientSide, silent, baseVars,
     adapterVars, threadVars, Resting
<1> QED BY <1>1, <1>2, <1>3 DEF ClientNext

LEMMA ValidGrows ==
  ASSUME ClientTypes, IdsInv, ClientlessInv, [ClientNext]_clientVars
  PROVE  \A kind, id : ValidId(kind, id) => ValidId(kind, id)'
<1>1. /\ started \subseteq started' /\ 1 .. nextId \subseteq 1 .. nextId' /\ 1 .. niCount \subseteq 1 .. niCount'
  BY NumbersGrow
<1> QED BY <1>1 DEF ValidId

\* The message a client sends is well formed.
LEMMA SentValid ==
  ASSUME ClientTypes, IdsInv, ClientlessInv, [ClientNext]_clientVars, Sends
  PROVE  \E op, id, arg : /\ Sending(op, id, arg) /\ ValidId(op, id)'
                          /\ op = "config" => arg \in Configs
                          /\ op = "client" => arg \in SUBSET Interfaces
<1>0. /\ nextId \in Nat /\ started \subseteq started' /\ niCount <= niCount'
      /\ niCount \in Nat /\ niCount' \in Nat /\ nextId' \in Nat /\ nextId <= nextId'
  BY NumbersGrow
<1>1. \A s \in started : ValidId("stop", s)' /\ ValidId("update", s)'
  BY <1>0 DEF ValidId, TrackOps, VoteOps
<1>2. \A s \in 1 .. nextId : ValidId("disable", s)'
  BY <1>0 DEF ValidId, TrackOps, VoteOps
<1>3. \A s \in 1 .. niCount : ValidId("ni", s)'
  BY <1>0 DEF ValidId, TrackOps, VoteOps
<1>4. \A i \in 1 .. nextId' : ValidId("enable", i)' /\ ValidId("aiding", i)'
  BY <1>0 DEF ValidId, TrackOps, VoteOps
<1>5. \A i \in started' : ValidId("start", i)'
  BY DEF ValidId, TrackOps, VoteOps
<1>6. ValidId("client", None)' /\ ValidId("config", None)'
  BY DEF ValidId, TrackOps, VoteOps
<1>7. /\ Session("tracking") # None => Session("tracking") \in started
      /\ mEnabled => Session("control") \in 1 .. nextId
  BY <1>0 DEF IdsInv, SessionsValid, None
<1>8. CASE Registering
  BY <1>6, <1>8, CallbackFacts DEF Registering
<1>9. CASE Enabling
  <2>1. nextId' \in 1 .. nextId' /\ Sending("enable", nextId', NoConfig)
    BY <1>0, <1>9 DEF Enabling
  <2> QED BY <1>4, <2>1
<1>10. CASE Starting
  <2>1. nextId' \in started' /\ Sending("start", nextId', NoConfig)
    BY <1>0, <1>10 DEF Starting
  <2> QED BY <1>5, <2>1
<1>11. CASE Stopping
  BY <1>1, <1>7, <1>11 DEF Stopping
<1>12. CASE Updating
  BY <1>1, <1>7, <1>12 DEF Updating
<1>13. CASE Disabling
  BY <1>2, <1>7, <1>13 DEF Disabling
<1>14. CASE Responding
  BY <1>3, <1>14 DEF Responding
<1>15. CASE Deleting
  <2>1. nextId' \in 1 .. nextId' /\ Sending("aiding", nextId', NoConfig)
    BY <1>0, <1>15 DEF Deleting
  <2> QED BY <1>4, <2>1
<1>16. CASE Configuring
  BY <1>6, <1>16 DEF Configuring
<1> QED BY <1>8, <1>9, <1>10, <1>11, <1>12, <1>13, <1>14, <1>15, <1>16 DEF Sends

LEMMA MessagesStep ==
  ASSUME ClientTypes, IdsInv, ClientlessInv, [ClientNext]_clientVars
  PROVE  MessagesValid'
<1>0. /\ queue \in Seq(AnyMsg) /\ \A kind, id : ValidId(kind, id) => ValidId(kind, id)'
      /\ \A j \in 1 .. Len(queue) :
            /\ ValidId(queue[j].op, queue[j].id)
            /\ queue[j].op = "config" => queue[j].arg \in Configs
            /\ queue[j].op = "client" => queue[j].arg \in SUBSET Interfaces
      /\ \A x : x \in Configs <=> x \in Configs'
  BY ValidGrows DEF ClientTypes, QueueType, IdsInv, MessagesValid, Configs
<1>1. SUFFICES ASSUME NEW j \in 1 .. Len(queue')
               PROVE  \E x : /\ x = queue'[j] /\ ValidId(x.op, x.id)'
                             /\ x.op = "config" => x.arg \in Configs
                             /\ x.op = "client" => x.arg \in SUBSET Interfaces
  BY DEF MessagesValid
<1>2. ASSUME NEW x, x = queue'[j],
             \E k \in 1 .. Len(queue) : x = queue[k]
      PROVE  /\ ValidId(x.op, x.id)'
             /\ x.op = "config" => x.arg \in Configs
             /\ x.op = "client" => x.arg \in SUBSET Interfaces
  BY <1>0, <1>2
<1>3. CASE queue' = queue
  BY <1>0, <1>2, <1>3
<1>4. CASE Created
  <2> PICK x : x = queue'[j]
    OBVIOUS
  <2>1. /\ x.op \in {"control", "client", "capabilities", "config"} /\ x.id = None
        /\ x.op = "client" => x.arg = Callbacks
        /\ x.op = "config" => x.arg = due
    BY <1>4 DEF Created
  <2>2. due \in Configs /\ Callbacks \in SUBSET Interfaces
    BY CallbackFacts, DueType DEF ClientTypes
  <2>3. ValidId(x.op, x.id)'
    BY <2>1 DEF ValidId, TrackOps, VoteOps
  <2> QED BY <2>1, <2>2, <2>3
<1>5. CASE Sends
  <2>1. PICK op, id, arg : /\ Sending(op, id, arg) /\ ValidId(op, id)'
                           /\ op = "config" => arg \in Configs
                           /\ op = "client" => arg \in SUBSET Interfaces
    BY <1>5, SentValid
  <2> DEFINE new == Msg(op, id, arg)
  <2>2. queue' = Append(queue, new) /\ new \in AnyMsg /\ new.op = op /\ new.id = id /\ new.arg = arg
    BY <2>1, MsgFacts DEF Sending
  <2> HIDE DEF new
  <2>3. /\ Len(queue') = Len(queue) + 1 /\ queue'[Len(queue) + 1] = new /\ Len(queue) \in Nat
        /\ \A k \in 1 .. Len(queue) : queue'[k] = queue[k]
    BY <1>0, <2>2, AppendedList
  <2>4. CASE j \in 1 .. Len(queue)
    BY <1>2, <2>3, <2>4
  <2>5. CASE j = Len(queue) + 1
    BY <2>1, <2>2, <2>3, <2>5
  <2> QED BY <2>3, <2>4, <2>5
<1>6. CASE Answers \/ Ignores
  <2>1. queue # <<>> /\ queue' = Tail(queue)
    BY <1>6 DEF Answers, Ignores, Handling
  <2>2. j + 1 \in 1 .. Len(queue) /\ queue'[j] = queue[j + 1]
    BY <2>1, HeadFacts
  <2> QED BY <1>2, <2>2
<1>7. getRequest \/ onResponse => queue' = queue
  BY DEF getRequest, onResponse, adapterSide
<1> QED BY <1>3, <1>4, <1>5, <1>6, <1>7, StepCases DEF Resting, Calls

LEMMA AnswerStep ==
  ASSUME ClientTypes, IdsInv, ClientlessInv, [ClientNext]_clientVars
  PROVE  AnswerValid'
<1>0. AnswerValid /\ \A kind, id : ValidId(kind, id) => ValidId(kind, id)'
  BY ValidGrows DEF IdsInv
<1>1. CASE answer' = answer /\ at' = at
  BY <1>0, <1>1 DEF AnswerValid, Nothing
<1>2. /\ Nothing.kind = "none" /\ Nothing' = Nothing
      /\ \A x : Nothing.kind = x => ValidId(x, Nothing.id)'
  BY DEF Nothing, ValidId, TrackOps, VoteOps
<1>3. CASE Answers
  <2>1. /\ message.op \in Kinds /\ answer'.kind = message.op /\ answer'.id = message.id
        /\ at' = "answer" \/ (at' = "cache" /\ message.op = "config")
    BY <1>3 DEF Answers
  <2>2. PICK op, id : op = message.op /\ id = message.id
    OBVIOUS
  <2>3. ValidId(op, id)'
    BY <1>0, <1>3, <2>2, HeadFacts DEF Answers, Handling
  <2>4. op # "none" /\ answer'.kind = op /\ answer'.id = id
    BY <2>1, <2>2 DEF Kinds
  <2>5. ValidId(answer.kind, answer.id)'
    BY <2>3, <2>4
  <2> QED BY <1>2, <2>1, <2>2, <2>4, <2>5 DEF AnswerValid
<1>4. CASE Ignores
  <2>1. answer' = answer /\ at' \in {"idle", "cache"} /\ at = "idle"
    BY <1>4 DEF Ignores, Handling
  <2> QED BY <1>0, <2>1 DEF AnswerValid, Nothing
<1>5. CASE Calls
  <2>1. /\ answer' = answer /\ at \in {"cache", "tell"}
        /\ at' = "tell" \/ (at' = "idle" /\ answer = Nothing) \/ (at' = "answer" /\ answer # Nothing)
    BY <1>5 DEF Calls, Caches, cacheCapabilities, tellCapabilities
  <2> QED BY <1>0, <2>1 DEF AnswerValid, Nothing
<1>6. CASE getRequest \/ onResponse
  <2>1. \/ answer' = Nothing /\ at' = "idle"
        \/ answer' = answer /\ at = "answer" /\ at' = "respond"
    BY <1>6 DEF getRequest, onResponse
  <2>2. CASE answer' = Nothing /\ at' = "idle"
    BY <1>2, <2>2 DEF AnswerValid
  <2>3. CASE answer' = answer /\ at = "answer" /\ at' = "respond"
    BY <1>0, <2>3 DEF AnswerValid, Nothing
  <2> QED BY <2>1, <2>2, <2>3
<1> QED BY <1>1, <1>3, <1>4, <1>5, <1>6, StepCases DEF Resting, Created, AdapterKept, threadVars

LEMMA SessionsStep ==
  ASSUME ClientTypes, IdsInv, ClientlessInv, [ClientNext]_clientVars
  PROVE  SessionsValid'
<1>0. /\ started \subseteq started' /\ 0 .. nextId \subseteq 0 .. nextId' /\ 0 .. niCount \subseteq 0 .. niCount'
      /\ nextId' \in Nat /\ niCount \in Nat /\ SessionsValid
  BY NumbersGrow DEF IdsInv
<1>1. /\ "tracking" \in Queues /\ "ni" \in Queues /\ "control" \in Queues
      /\ "aiding" \in Queues /\ "config" \in Queues
  BY DEF Queues
<1>2. CASE (\A n \in Queues : Session(n)' = Session(n)) /\ (mTracking' => mTracking) /\ (mEnabled' => mEnabled)
  BY <1>0, <1>1, <1>2 DEF SessionsValid
<1>3. CASE Sends
  <2>1. CASE Registering
    BY <2>1, <1>2 DEF Registering, Session
  <2>2. CASE Enabling
    <3>1. /\ Session("control")' = nextId' /\ nextId' \in 0 .. nextId' /\ nextId' # None
          /\ \A n \in Queues : n # "control" => Session(n)' = Session(n)
      BY <1>0, <2>2 DEF Enabling, Renewing, Session, None
    <3> QED BY <1>0, <1>1, <2>2, <3>1 DEF Enabling, SessionsValid
  <2>3. CASE Starting
    <3>1. /\ Session("tracking")' = nextId' /\ nextId' \in started' /\ nextId' # None
          /\ \A n \in Queues : n # "tracking" => Session(n)' = Session(n)
      BY <1>0, <2>3 DEF Starting, Renewing, Session, None
    <3> QED BY <1>0, <1>1, <2>3, <3>1 DEF Starting, SessionsValid
  <2>4. CASE Stopping \/ Updating \/ Disabling \/ Configuring
    <3>1. /\ \A n \in Queues : Session(n)' = Session(n)
          /\ (mTracking' => mTracking) /\ (mEnabled' => mEnabled)
      BY <1>1, <2>4 DEF Stopping, Updating, Disabling, Configuring, Asking, Session
    <3> QED BY <3>1, <1>2
  <2>5. CASE Responding
    <3>1. /\ Session("ni")' \in 0 .. niCount
          /\ \A n \in Queues : n # "ni" => Session(n)' = Session(n)
      BY <1>0, <2>5 DEF Responding, Renewing, Session
    <3> QED BY <1>0, <1>1, <2>5, <3>1 DEF Responding, SessionsValid
  <2>6. CASE Deleting
    <3>1. /\ Session("aiding")' \in 0 .. nextId'
          /\ \A n \in Queues : n # "aiding" => Session(n)' = Session(n)
      BY <1>0, <2>6 DEF Deleting, Renewing, Session
    <3> QED BY <1>0, <1>1, <2>6, <3>1 DEF Deleting, SessionsValid
  <2> QED BY <1>3, <2>1, <2>2, <2>3, <2>4, <2>5, <2>6 DEF Sends
<1>4. CASE getRequest /\ ClientKept
  <2>1. \A n \in Queues : Session(n)' = Session(n)
    BY <1>4, GetFacts DEF Misses, Finds, Session
  <2> QED BY <1>2, <1>4, <2>1 DEF ClientKept
<1>5. CASE Resting \/ Created
  BY <1>2, <1>5 DEF Resting, Created, Session
<1>6. CASE rq' = rq /\ ClientKept
  BY <1>2, <1>6 DEF ClientKept, Session
<1>7. onResponse => rq' = rq
  BY DEF onResponse
<1> QED BY <1>3, <1>4, <1>5, <1>6, <1>7, StepCases DEF Answers, Ignores, Calls

LEMMA IdsStep ==
  ASSUME ClientTypes, IdsInv, ClientlessInv, [ClientNext]_clientVars
  PROVE  IdsInv'
  BY MessagesStep, AnswerStep, SessionsStep DEF IdsInv

LEMMA ClientlessStep ==
  ASSUME ClientTypes, IdsInv, ClientlessInv, [ClientNext]_clientVars
  PROVE  ClientlessInv'
<1>1. SUFFICES ASSUME ~api' PROVE ClientlessInv'
  BY DEF ClientlessInv
<1>2. CASE binderThread
  <2>1. ~api
    BY <1>1, <1>2 DEF binderThread, setCallback, setGnssNiCb, getApi,
       updateCallbacks, locAPIEnable,
       requestCapabilities, serviceDied, locAPIStartTracking,
       locAPIStopTracking,
       locAPIUpdateTrackingOptions, locAPIDisable, locAPIGnssNiResponse,
       locAPIGnssDeleteAidingData, updateConfiguration, ApiCalled, ClientTypes,
       BinderType
  <2>2. /\ todo \in Todos /\ wanted \in Configs /\ Server \in Fields
        /\ todo \in {<<>>, <<"getApi", "update">>, <<"getApi", "update", "enable", "capabilities">>}
    BY <2>1 DEF ClientTypes, ClientBounds, BinderType, ClientlessInv
  <2>3. ~(Doing("update") \/ Doing("enable") \/ Doing("capabilities") \/ Doing("stop") \/ Doing("disable"))
    BY <2>2, TodoFacts
  <2>4. ~ApiCalled
    BY <2>1 DEF ApiCalled
  <2>5. ~(updateCallbacks \/ locAPIEnable \/ requestCapabilities \/ serviceDied \/ locAPIStartTracking
            \/ locAPIStopTracking \/ locAPIUpdateTrackingOptions \/ locAPIDisable
            \/ locAPIGnssNiResponse \/ locAPIGnssDeleteAidingData)
    BY <2>3, <2>4 DEF updateCallbacks, locAPIEnable, requestCapabilities,
       serviceDied, locAPIStartTracking,
       locAPIStopTracking, locAPIUpdateTrackingOptions, locAPIDisable,
       locAPIGnssNiResponse,
       locAPIGnssDeleteAidingData
  <2>6. ~getApi
    BY <1>1, <2>1 DEF getApi
  <2>7. CASE setCallback
    BY <2>1, <2>2, <2>7, DueKept DEF setCallback, ClientlessInv, baseVars, adapterVars, Session
  <2>8. CASE setGnssNiCb
    BY <2>1, <2>2, <2>8, DueKept DEF setGnssNiCb, ClientlessInv, baseVars, adapterVars, Session
  <2>9. CASE updateConfiguration
    <3>1. PICK f \in Fields, v \in 1 .. MaxValue :
            /\ wanted' = [wanted EXCEPT ![f] = v] /\ early' = IF f = Server THEN ~api ELSE early
            /\ pendingConfig' = [pendingConfig EXCEPT ![f] = collected(f, v)]
      BY <2>1, <2>9 DEF updateConfiguration
    <3>2. /\ \A e \in Fields : e # f => due'[e] = due[e]
          /\ due'[f] = IF f = Server THEN NoHost ELSE v
          /\ due = [e \in Fields |-> due[e]] /\ due' = [e \in Fields |-> due'[e]]
      BY <2>1, <2>2, <3>1, DueSet
    <3>3. collected(f, v) = due'[f] /\ pendingConfig = due
      BY <2>1, <3>2 DEF collected, ClientlessInv
    <3>4. pendingConfig' = due' /\ pendingConfig'[Server] \in {0, NoHost}
      BY <2>1, <2>2, <3>1, <3>2, <3>3 DEF ClientlessInv
    <3> QED BY <2>1, <2>2, <2>9, <3>4 DEF updateConfiguration, ClientlessInv, adapterVars,
       Session
  <2> QED BY <1>2, <2>5, <2>6, <2>7, <2>8, <2>9 DEF binderThread
<1>3. CASE adapterThread
  <2>1. ClientKept
    BY <1>3, AdapterExchange
  <2>2. ~api /\ queue = <<>>
    BY <1>1, <2>1 DEF ClientKept, hidlVars, ClientlessInv
  <2>3. ~(Answers \/ Ignores)
    BY <2>2 DEF Answers, Ignores, Handling
  <2>4. queue' = queue /\ inForce' = inForce /\ \A n \in Queues : Session(n)' = Session(n)
    BY <1>3, <2>3, AdapterExchange, GetFacts DEF Misses, Finds, adapterVars, onResponse,
       adapterSide, Session
  <2>5. "tracking" \in Queues /\ "control" \in Queues
    BY DEF Queues
  <2> QED BY <2>1, <2>2, <2>4, <2>5, DueKept DEF ClientKept, hidlVars, ClientlessInv
<1>4. CASE niNotify
  BY <1>1, <1>4, DueKept DEF niNotify, clientSide, hidlVars, baseVars, ClientlessInv,
     Session
<1>5. CASE UNCHANGED clientVars
  BY <1>1, <1>5, DueKept DEF clientVars, hidlVars, baseVars, adapterVars, ClientlessInv,
     Session
<1> QED BY <1>2, <1>3, <1>4, <1>5 DEF ClientNext

----------------------------------------------------------------------------
(* Requests that wait *)

LEMMA ElementsFacts ==
  ASSUME QueueType, NEW n \in Queues
  PROVE  /\ Waiting(n) \in Seq(AnyRequest)
         /\ \A r \in AnyRequest : Waiting(n)' = Append(Waiting(n), r) => Elements(n)' = Elements(n) \cup {r}
         /\ \A r \in AnyRequest : Waiting(n)' = <<r>> => Elements(n)' = {r}
         /\ Waiting(n) # <<>> /\ Waiting(n)' = Tail(Waiting(n)) => Elements(n)' \subseteq Elements(n)
         /\ Waiting(n)' = Waiting(n) => Elements(n)' = Elements(n)
         /\ Waiting(n) # <<>> => Head(Waiting(n)) \in Elements(n)
<1> DEFINE w == Waiting(n)
<1>1. w \in Seq(AnyRequest)
  BY DEF QueueType, Waiting
<1>2. Elements(n) = {w[k] : k \in 1 .. Len(w)} /\ Elements(n)' = {w'[k] : k \in 1 .. Len(w')}
  BY DEF Elements
<1> HIDE DEF w
<1>3. ASSUME NEW r \in AnyRequest, w' = Append(w, r) PROVE Elements(n)' = Elements(n) \cup {r}
  <2>1. Len(w') = Len(w) + 1 /\ w'[Len(w) + 1] = r /\ Len(w) \in Nat /\ \A k \in 1 .. Len(w) : w'[k] = w[k]
    BY <1>1, <1>3, AppendedList
  <2>2. 1 .. Len(w') = 1 .. Len(w) \cup {Len(w) + 1}
    BY <2>1
  <2> QED BY <1>2, <2>1, <2>2
<1>4. ASSUME NEW r \in AnyRequest, w' = <<r>> PROVE Elements(n)' = {r}
  <2>1. Len(w') = 1 /\ w'[1] = r /\ 1 .. 1 = {1}
    BY <1>4
  <2> QED BY <1>2, <2>1
<1>5. ASSUME w # <<>>, w' = Tail(w) PROVE Elements(n)' \subseteq Elements(n)
  <2>1. Len(w) \in Nat /\ Len(w') = Len(w) - 1 /\ \A k \in 1 .. Len(w) - 1 : w'[k] = w[k + 1]
    BY <1>1, <1>5, TailOfList
  <2>2. \A k \in 1 .. Len(w') : k + 1 \in 1 .. Len(w)
    BY <2>1
  <2> QED BY <1>2, <2>1, <2>2
<1>6. w # <<>> => Head(w) \in Elements(n)
  <2>1. w # <<>> => w[1] = Head(w) /\ 1 \in 1 .. Len(w)
    BY <1>1, TailOfList
  <2> QED BY <1>2, <2>1
<1> QED BY <1>1, <1>2, <1>3, <1>4, <1>5, <1>6 DEF w

LEMMA WaitingStep ==
  ASSUME ClientTypes, IdsInv, ClientlessInv, WaitingInv, [ClientNext]_clientVars
  PROVE  WaitingInv'
<1>0. /\ "tracking" \in Queues /\ "ni" \in Queues /\ "control" \in Queues
      /\ "aiding" \in Queues /\ "config" \in Queues /\ QueueType
  BY DEF Queues, ClientTypes
<1>1. \A n \in Queues : rq'[n] = rq[n] => Session(n)' = Session(n) /\ Elements(n)' = Elements(n)
  BY <1>0, ElementsFacts DEF Session, Waiting
<1>2. CASE /\ \A n \in Queues : Session(n)' = Session(n) /\ Elements(n)' \subseteq Elements(n)
           /\ mTracking' => mTracking
  <2>1. \A n \in Queues : \A r \in Elements(n)' : r \in Elements(n)
    BY <1>2
  <2> QED BY <1>0, <1>2, <2>1 DEF WaitingInv
<1>3. ASSUME NEW n \in Queues, NEW kind, NEW id, Asking(n, kind, id)
      PROVE  /\ Session(n)' = Session(n) /\ Elements(n)' = Elements(n) \cup {Request(kind, id)}
             /\ Request(kind, id).kind = kind
             /\ \A k \in Queues : k # n => Session(k)' = Session(k) /\ Elements(k)' = Elements(k)
  BY <1>0, <1>1, <1>3, ElementsFacts, RequestFacts DEF Asking
<1>4. ASSUME NEW n \in Queues, NEW kind, NEW id, Renewing(n, kind, id)
      PROVE  /\ Session(n)' = id /\ Elements(n)' = {Request(kind, id)}
             /\ Request(kind, id).kind = kind
             /\ \A k \in Queues : k # n => Session(k)' = Session(k) /\ Elements(k)' = Elements(k)
  BY <1>0, <1>1, <1>4, ElementsFacts, RequestFacts DEF Renewing
<1>5. CASE Sends
  <2>1. CASE Registering
    BY <2>1, <1>1, <1>2 DEF Registering
  <2>2. CASE Enabling
    <3>1. PICK i : i = nextId'
      OBVIOUS
    <3>2. Renewing("control", "enable", i) /\ mTracking' = mTracking
      BY <2>2, <3>1 DEF Enabling
    <3>3. /\ Elements("control")' = {Request("enable", i)} /\ Request("enable", i).kind = "enable"
          /\ \A k \in Queues : k # "control" => Session(k)' = Session(k) /\ Elements(k)' = Elements(k)
      BY <1>0, <1>4, <3>2
    <3> QED BY <1>0, <3>2, <3>3 DEF WaitingInv, VoteOps
  <2>3. CASE Starting
    <3>1. PICK i : i = nextId'
      OBVIOUS
    <3>2. Renewing("tracking", "start", i)
      BY <2>3, <3>1 DEF Starting
    <3>3. /\ Elements("tracking")' = {Request("start", i)} /\ Request("start", i).kind = "start"
          /\ \A k \in Queues : k # "tracking" => Session(k)' = Session(k) /\ Elements(k)' = Elements(k)
      BY <1>0, <1>4, <3>2
    <3> QED BY <1>0, <3>3 DEF WaitingInv, TrackOps
  <2>4. CASE Stopping
    <3>1. PICK i : i = Session("tracking")
      OBVIOUS
    <3>2. Asking("tracking", "stop", i) /\ ~mTracking'
      BY <2>4, <3>1 DEF Stopping
    <3>3. /\ Elements("tracking")' = Elements("tracking") \cup {Request("stop", i)}
          /\ Request("stop", i).kind = "stop"
          /\ \A k \in Queues : k # "tracking" => Session(k)' = Session(k) /\ Elements(k)' = Elements(k)
      BY <1>0, <1>3, <3>2
    <3> QED BY <1>0, <3>2, <3>3 DEF WaitingInv, TrackOps
  <2>5. CASE Updating
    <3>1. PICK i : i = Session("tracking")
      OBVIOUS
    <3>2. Asking("tracking", "update", i) /\ mTracking' = mTracking
      BY <2>5, <3>1 DEF Updating
    <3>3. /\ Elements("tracking")' = Elements("tracking") \cup {Request("update", i)}
          /\ Request("update", i).kind = "update"
          /\ \A k \in Queues : k # "tracking" => Session(k)' = Session(k) /\ Elements(k)' = Elements(k)
      BY <1>0, <1>3, <3>2
    <3> QED BY <1>0, <3>2, <3>3 DEF WaitingInv, TrackOps
  <2>6. CASE Disabling
    <3>1. PICK i : i = Session("control")
      OBVIOUS
    <3>2. Asking("control", "disable", i) /\ mTracking' = mTracking
      BY <2>6, <3>1 DEF Disabling
    <3>3. /\ Elements("control")' = Elements("control") \cup {Request("disable", i)}
          /\ Request("disable", i).kind = "disable"
          /\ \A k \in Queues : k # "control" => Session(k)' = Session(k) /\ Elements(k)' = Elements(k)
      BY <1>0, <1>3, <3>2
    <3> QED BY <1>0, <3>2, <3>3 DEF WaitingInv, VoteOps
  <2>7. CASE Responding
    <3>1. PICK i : Renewing("ni", "ni", i) /\ mTracking' = mTracking
      BY <2>7 DEF Responding
    <3>2. /\ Elements("ni")' = {Request("ni", i)} /\ Session("ni")' = i
          /\ \A k \in Queues : k # "ni" => Session(k)' = Session(k) /\ Elements(k)' = Elements(k)
      BY <1>0, <1>4, <3>1
    <3> QED BY <1>0, <3>1, <3>2 DEF WaitingInv
  <2>8. CASE Deleting
    <3>1. PICK i : i = nextId'
      OBVIOUS
    <3>2. Renewing("aiding", "aiding", i) /\ mTracking' = mTracking
      BY <2>8, <3>1 DEF Deleting
    <3>3. /\ Elements("aiding")' = {Request("aiding", i)} /\ Session("aiding")' = i
          /\ \A k \in Queues : k # "aiding" => Session(k)' = Session(k) /\ Elements(k)' = Elements(k)
      BY <1>0, <1>4, <3>2
    <3> QED BY <1>0, <3>2, <3>3 DEF WaitingInv
  <2>9. CASE Configuring
    <3>1. Asking("config", "config", None) /\ mTracking' = mTracking
      BY <2>9 DEF Configuring
    <3>2. /\ Elements("config")' = Elements("config") \cup {Request("config", None)}
          /\ \A k \in Queues : k # "config" => Session(k)' = Session(k) /\ Elements(k)' = Elements(k)
      BY <1>0, <1>3, <3>1
    <3> QED BY <1>0, <3>1, <3>2 DEF WaitingInv
  <2> QED BY <1>5, <2>1, <2>2, <2>3, <2>4, <2>5, <2>6, <2>7, <2>8, <2>9 DEF Sends
<1>6. CASE Created
  <2>1. /\ \A k \in Queues : k # "config" => Session(k)' = Session(k) /\ Elements(k)' = Elements(k)
        /\ mTracking' = mTracking
    BY <1>1, <1>6 DEF Created
  <2>2. Elements("config")' \subseteq Elements("config") \cup {Request("config", None)}
    <3>1. Request("config", None) \in AnyRequest
      BY RequestFacts DEF Kinds, None
    <3> QED BY <1>0, <1>6, <3>1, ElementsFacts DEF Created
  <2> QED BY <1>0, <2>1, <2>2 DEF WaitingInv
<1>7. CASE getRequest /\ ClientKept
  <2>1. /\ mTracking' = mTracking
        /\ \A n \in Queues : Session(n)' = Session(n) /\ Elements(n)' \subseteq Elements(n)
    <3>1. ASSUME NEW c \in Queues, Finds(c)
          PROVE  \A n \in Queues : Session(n)' = Session(n) /\ Elements(n)' \subseteq Elements(n)
      BY <1>0, <1>1, <3>1, ElementsFacts DEF Finds
    <3>2. CASE rq' = rq
      BY <1>1, <1>7, <3>2 DEF ClientKept
    <3> QED BY <1>0, <1>7, <3>1, <3>2, GetFacts DEF Misses, ClientKept
  <2> QED BY <1>2, <2>1
<1>8. CASE rq' = rq /\ mTracking' = mTracking
  BY <1>1, <1>2, <1>8
<1>9. (Answers \/ Ignores \/ Calls \/ onResponse) => rq' = rq
  BY DEF Answers, Ignores, Calls, onResponse
<1> QED BY <1>5, <1>6, <1>7, <1>8, <1>9, StepCases DEF Resting, ClientKept

----------------------------------------------------------------------------
(* Identifiers of sessions of the control client *)

\* How a step changes the list of messages.
Appends(x) ==
    /\ x \in AnyMsg /\ queue' = Append(queue, x) /\ Len(queue') = Len(queue) + 1
    /\ queue'[Len(queue) + 1] = x /\ Len(queue) \in Nat
    /\ \A j \in 1 .. Len(queue) : queue'[j] = queue[j]
Shrinks ==
    /\ queue # <<>> /\ queue' = Tail(queue) /\ Len(queue') = Len(queue) - 1 /\ Len(queue) \in Nat
    /\ queue[1] = message /\ Head(queue) = message /\ 1 \in 1 .. Len(queue) /\ message \in AnyMsg
    /\ \A j \in 1 .. Len(queue') : queue'[j] = queue[j + 1] /\ j + 1 \in 1 .. Len(queue)

LEMMA SendingFacts ==
  ASSUME ClientTypes, NEW op, NEW id, NEW arg, Sending(op, id, arg)
  PROVE  Appends(Msg(op, id, arg)) /\ Msg(op, id, arg).op = op /\ Msg(op, id, arg).id = id
         /\ Msg(op, id, arg).arg = arg
<1> DEFINE x == Msg(op, id, arg)
<1>1. x \in AnyMsg /\ queue' = Append(queue, x) /\ queue \in Seq(AnyMsg)
  BY DEF Sending, ClientTypes, QueueType
<1>2. x.op = op /\ x.id = id /\ x.arg = arg
  BY MsgFacts
<1> HIDE DEF x
<1>3. Appends(x)
  BY <1>1, AppendedList DEF Appends
<1> QED BY <1>2, <1>3 DEF x

LEMMA HandlingFacts ==
  ASSUME ClientTypes, IdsInv, Answers \/ Ignores
  PROVE  Shrinks /\ ValidId(message.op, message.id) /\ message.id \in Nat /\ at = "idle" /\ answer.kind = "none"
         /\ rq' = rq /\ request' = request /\ UNCHANGED <<cbIface, cached, told, status>>
<1>1. Handling /\ rq' = rq /\ request' = request /\ UNCHANGED <<cbIface, cached, told, status>>
  BY DEF Answers, Ignores
<1>2. Shrinks /\ ValidId(message.op, message.id) /\ message.id \in Nat
  <2>1. queue # <<>> /\ queue' = Tail(queue)
    BY <1>1 DEF Handling
  <2>2. Head(queue) = message
    BY DEF message
  <2> QED BY <2>1, <2>2, HeadFacts DEF Shrinks
<1>3. at = "idle" /\ answer.kind = "none"
  BY <1>1 DEF Handling, IdsInv, AnswerValid
<1> QED BY <1>1, <1>2, <1>3

LEMMA UsedStep ==
  ASSUME ClientTypes, IdsInv, ClientlessInv, [ClientNext]_clientVars,
         NEW n \in Queues, NEW ops \in {VoteOps, {"aiding"}}, NEW i, Used(n, ops, i)'
  PROVE  Used(n, ops, i)
         \/ (Sends /\ (Session(n)' = i \/ \E op \in ops : \E arg : Sending(op, i, arg)))
<1>1. Nothing.kind \notin ops /\ "none" \notin ops
  BY DEF Nothing, VoteOps
<1>2. \/ Session(n)' = i
      \/ answer'.kind \in ops /\ answer'.id = i
      \/ \E j \in 1 .. Len(queue') : queue'[j].op \in ops /\ queue'[j].id = i
  BY DEF Used
<1>3. CASE UNCHANGED <<queue, answer>> /\ Session(n)' = Session(n)
  BY <1>2, <1>3 DEF Used
<1>4. CASE Created
  <2>1. answer' = answer /\ Session(n)' = Session(n)
    BY <1>4 DEF Created, threadVars
  <2>2. \A j \in 1 .. Len(queue') : queue'[j].op \notin ops
    BY <1>4 DEF Created, VoteOps
  <2> QED BY <1>2, <2>1, <2>2 DEF Used
<1>5. CASE Sends /\ AdapterKept
  <2>1. answer' = answer
    BY <1>5 DEF AdapterKept, threadVars
  <2>2. PICK op, id, arg : Sending(op, id, arg)
    BY <1>5, SentValid
  <2> PICK x : x = Msg(op, id, arg)
    OBVIOUS
  <2>3. Appends(x) /\ x.op = op /\ x.id = id
    BY <2>2, SendingFacts
  <2>4. CASE \E j \in 1 .. Len(queue') : queue'[j].op \in ops /\ queue'[j].id = i
    <3>1. PICK j \in 1 .. Len(queue') : queue'[j].op \in ops /\ queue'[j].id = i
      BY <2>4
    <3>2. CASE j \in 1 .. Len(queue)
      BY <2>3, <3>1, <3>2 DEF Appends, Used
    <3>3. CASE j = Len(queue) + 1
      <4>1. op \in ops /\ id = i
        BY <2>3, <3>1, <3>3 DEF Appends
      <4> QED BY <1>5, <2>2, <4>1
    <3> QED BY <2>3, <3>2, <3>3 DEF Appends
  <2> QED BY <1>2, <1>5, <2>1, <2>4 DEF Used
<1>6. CASE Answers \/ Ignores
  <2>1. Shrinks /\ Session(n)' = Session(n) /\ answer.kind = "none"
    BY <1>6, HandlingFacts DEF Session
  <2>2. \/ answer' = answer
        \/ answer'.kind = message.op /\ answer'.id = message.id
    BY <1>6 DEF Answers, Ignores
  <2>3. CASE answer'.kind \in ops /\ answer'.id = i
    <3>1. queue[1] = message /\ 1 \in 1 .. Len(queue) /\ message.op \in ops /\ message.id = i
      BY <2>1, <2>2, <2>3, <1>1 DEF Shrinks
    <3> QED BY <3>1 DEF Used
  <2>4. CASE \E j \in 1 .. Len(queue') : queue'[j].op \in ops /\ queue'[j].id = i
    BY <2>1, <2>4 DEF Shrinks, Used
  <2> QED BY <1>2, <2>1, <2>3, <2>4 DEF Used
<1>7. CASE getRequest \/ onResponse
  <2>1. queue' = queue /\ Session(n)' = Session(n)
    BY <1>7, GetFacts DEF Misses, Finds, Session, onResponse, adapterSide
  <2>2. answer' = answer \/ answer' = Nothing
    BY <1>7 DEF getRequest, onResponse
  <2> QED BY <1>1, <1>2, <2>1, <2>2 DEF Used
<1> QED BY <1>3, <1>4, <1>5, <1>6, <1>7, StepCases DEF Resting, Calls, Session

LEMMA UsedBounds ==
  ASSUME ClientTypes, IdsInv, NEW n \in {"control", "aiding"}, NEW ops \in {VoteOps, {"aiding"}},
         NEW i, Used(n, ops, i)
  PROVE  i \in 0 .. nextId
<1>1. /\ nextId \in Nat /\ Session(n) \in 0 .. nextId
  BY DEF ClientTypes, BinderType, IdsInv, SessionsValid
<1>2. \A kind \in ops : \A id : ValidId(kind, id) => id \in 1 .. nextId
  BY DEF ValidId, VoteOps
<1>3. 1 .. nextId \subseteq 0 .. nextId
  BY <1>1
<1> QED BY <1>1, <1>2, <1>3 DEF Used, IdsInv, AnswerValid, MessagesValid

LEMMA ApartStep ==
  ASSUME ClientTypes, IdsInv, ClientlessInv, Apart, [ClientNext]_clientVars
  PROVE  Apart'
<1>0. nextId \in Nat /\ nextId' \in Nat
  BY NumbersGrow
<1>1. "control" \in Queues /\ "aiding" \in Queues /\ "tracking" \in Queues /\ "ni" \in Queues /\ "config" \in Queues
  BY DEF Queues
<1>2. SUFFICES ASSUME NEW i \in 1 .. nextId', Used("control", VoteOps, i)', Used("aiding", {"aiding"}, i)'
               PROVE  FALSE
  BY DEF Apart
<1> DEFINE OfControl == Session("control")' = i \/ \E op \in VoteOps : \E arg : Sending(op, i, arg)
           OfAiding == Session("aiding")' = i \/ \E op \in {"aiding"} : \E arg : Sending(op, i, arg)
<1>3. Used("control", VoteOps, i) \/ (Sends /\ OfControl)
  BY <1>1, <1>2, UsedStep
<1>4. Used("aiding", {"aiding"}, i) \/ (Sends /\ OfAiding)
  BY <1>1, <1>2, UsedStep
<1> HIDE DEF OfControl, OfAiding
<1>5. /\ Used("control", VoteOps, i) => i \in 0 .. nextId
      /\ Used("aiding", {"aiding"}, i) => i \in 0 .. nextId
  BY UsedBounds
<1>6. ~(Used("control", VoteOps, i) /\ Used("aiding", {"aiding"}, i))
  BY <1>0, <1>2, <1>5 DEF Apart
<1>7. \A op, id, arg, op2, id2, arg2 : Sending(op, id, arg) /\ Sending(op2, id2, arg2) => op = op2 /\ id = id2
  <2>1. ASSUME NEW op, NEW id, NEW arg, NEW op2, NEW id2, NEW arg2,
               Sending(op, id, arg), Sending(op2, id2, arg2)
        PROVE  op = op2 /\ id = id2
    BY <2>1, SendingFacts DEF Appends
  <2> QED BY <2>1
<1>8. /\ Session("control") = i => Used("control", VoteOps, i)
      /\ Session("aiding") = i => Used("aiding", {"aiding"}, i)
  BY DEF Used
<1>9. CASE Enabling
  <2>1. /\ Sending("enable", nextId', NoConfig) /\ nextId' = nextId + 1
        /\ Session("control")' = nextId' /\ Session("aiding")' = Session("aiding")
    BY <1>1, <1>9 DEF Enabling, Renewing, Session
  <2>2. OfAiding => Used("aiding", {"aiding"}, i)
    BY <1>7, <1>8, <2>1 DEF OfAiding
  <2>3. OfControl => i = nextId + 1
    <3>1. \A op, arg : Sending(op, i, arg) => i = nextId'
      BY <1>7, <2>1
    <3> QED BY <3>1, <2>1 DEF OfControl
  <2> QED BY <1>0, <1>3, <1>4, <1>5, <1>6, <2>2, <2>3
<1>10. CASE Deleting
  <2>1. /\ Sending("aiding", nextId', NoConfig) /\ nextId' = nextId + 1
        /\ Session("aiding")' = nextId' /\ Session("control")' = Session("control")
    BY <1>1, <1>10 DEF Deleting, Renewing, Session
  <2>2. OfControl => Used("control", VoteOps, i)
    <3>1. \A op \in VoteOps : \A arg : ~Sending(op, i, arg)
      BY <1>7, <2>1 DEF VoteOps
    <3> QED BY <3>1, <1>8, <2>1 DEF OfControl
  <2>3. OfAiding => i = nextId + 1
    <3>1. \A op, arg : Sending(op, i, arg) => i = nextId'
      BY <1>7, <2>1
    <3> QED BY <3>1, <2>1 DEF OfAiding
  <2> QED BY <1>0, <1>3, <1>4, <1>5, <1>6, <2>2, <2>3
<1>11. CASE Disabling
  <2>1. /\ Sending("disable", Session("control"), NoConfig)
        /\ Session("control")' = Session("control") /\ Session("aiding")' = Session("aiding")
    BY <1>1, <1>11 DEF Disabling, Asking, Session
  <2>2. OfAiding => Used("aiding", {"aiding"}, i)
    BY <1>7, <1>8, <2>1 DEF OfAiding
  <2>3. OfControl => Used("control", VoteOps, i)
    <3>1. \A op, arg : Sending(op, i, arg) => i = Session("control")
      BY <1>7, <2>1
    <3> QED BY <3>1, <1>8, <2>1 DEF OfControl
  <2> QED BY <1>3, <1>4, <1>6, <2>2, <2>3
<1>12. CASE Registering \/ Starting \/ Stopping \/ Updating \/ Responding \/ Configuring
  <2>1. Session("control")' = Session("control") /\ Session("aiding")' = Session("aiding")
    BY <1>1, <1>12 DEF Registering, Starting, Stopping, Updating, Responding, Configuring, Asking,
       Renewing, Session
  <2>2. \E op, id, arg : Sending(op, id, arg) /\ op \notin VoteOps /\ op # "aiding"
    BY <1>12 DEF Registering, Starting, Stopping, Updating, Responding, Configuring, VoteOps
  <2>3. \A op \in VoteOps \cup {"aiding"} : \A arg : ~Sending(op, i, arg)
    BY <1>7, <2>2
  <2> QED BY <1>3, <1>4, <1>6, <1>8, <2>1, <2>3 DEF OfControl, OfAiding
<1> QED BY <1>3, <1>4, <1>6, <1>9, <1>10, <1>11, <1>12 DEF Sends

----------------------------------------------------------------------------
(* The order of messages *)

\* A message that is sent, and when it is a start.
LEMMA SentFacts ==
  ASSUME ClientTypes, IdsInv, ClientlessInv, [ClientNext]_clientVars, Sends
  PROVE  \E x : /\ Appends(x)
                /\ x.op = "start" => Starting /\ x.id = nextId + 1
                /\ x.op = "stop" => Stopping /\ x.id = Session("tracking")
                /\ x.op = "update" => Updating /\ x.id = Session("tracking")
                /\ x.op = "enable" => Enabling /\ x.id = nextId + 1
                /\ x.op = "disable" => Disabling /\ x.id = Session("control")
                /\ x.op = "client" => Registering /\ x.arg = Callbacks
                /\ x.op = "config" => Configuring
                /\ x.op = "ni" => Responding
                /\ x.op = "aiding" => Deleting
                /\ x.op \in Kinds \cup {"client"}
<1>1. ASSUME NEW op, NEW id, NEW arg, Sending(op, id, arg)
      PROVE  \E x : Appends(x) /\ x.op = op /\ x.id = id /\ x.arg = arg
  BY <1>1, SendingFacts
<1>2. CASE Registering
  <2>1. PICK x : Appends(x) /\ x.op = "client" /\ x.id = None /\ x.arg = Callbacks
    BY <1>1, <1>2 DEF Registering
  <2> QED BY <1>2, <2>1
<1>3. CASE Enabling
  <2>1. PICK i : i = nextId' /\ i = nextId + 1 /\ Sending("enable", i, NoConfig)
    BY <1>3 DEF Enabling
  <2>2. PICK x : Appends(x) /\ x.op = "enable" /\ x.id = i
    BY <1>1, <2>1
  <2> QED BY <1>3, <2>1, <2>2 DEF Kinds
<1>4. CASE Starting
  <2>1. PICK i : i = nextId' /\ i = nextId + 1 /\ Sending("start", i, NoConfig)
    BY <1>4 DEF Starting
  <2>2. PICK x : Appends(x) /\ x.op = "start" /\ x.id = i
    BY <1>1, <2>1
  <2> QED BY <1>4, <2>1, <2>2 DEF Kinds
<1>5. CASE Stopping
  <2>1. PICK x : Appends(x) /\ x.op = "stop" /\ x.id = Session("tracking")
    BY <1>1, <1>5 DEF Stopping
  <2> QED BY <1>5, <2>1 DEF Kinds
<1>6. CASE Updating
  <2>1. PICK x : Appends(x) /\ x.op = "update" /\ x.id = Session("tracking")
    BY <1>1, <1>6 DEF Updating
  <2> QED BY <1>6, <2>1 DEF Kinds
<1>7. CASE Disabling
  <2>1. PICK x : Appends(x) /\ x.op = "disable" /\ x.id = Session("control")
    BY <1>1, <1>7 DEF Disabling
  <2> QED BY <1>7, <2>1 DEF Kinds
<1>8. CASE Responding
  <2>1. PICK x : Appends(x) /\ x.op = "ni"
    BY <1>1, <1>8 DEF Responding
  <2> QED BY <1>8, <2>1 DEF Kinds
<1>9. CASE Deleting
  <2>1. PICK i : Sending("aiding", i, NoConfig)
    BY <1>9 DEF Deleting
  <2>2. PICK x : Appends(x) /\ x.op = "aiding"
    BY <1>1, <2>1
  <2> QED BY <1>9, <2>2 DEF Kinds
<1>10. CASE Configuring
  <2>1. PICK x : Appends(x) /\ x.op = "config"
    BY <1>1, <1>10 DEF Configuring
  <2> QED BY <1>10, <2>1 DEF Kinds
<1> QED BY <1>2, <1>3, <1>4, <1>5, <1>6, <1>7, <1>8, <1>9, <1>10 DEF Sends

LEMMA IdFacts ==
  ASSUME ClientTypes, IdsInv
  PROVE  /\ nextId \in Nat /\ started \subseteq 1 .. nextId /\ sessions \subseteq started /\ refused \subseteq sessions
         /\ nextId + 1 \notin started
         /\ \A j \in 1 .. Len(queue) : queue[j].op \in TrackOps => queue[j].id \in started
         /\ answer.kind \in TrackOps => answer.id \in started
         /\ Session("tracking") # None => Session("tracking") \in started
         /\ None \notin started
<1>1. nextId \in Nat /\ started \subseteq 1 .. nextId /\ sessions \subseteq started /\ refused \subseteq sessions
  BY DEF ClientTypes, BinderType, AdapterType
<1>2. nextId + 1 \notin started /\ None \notin started
  BY <1>1 DEF None
<1> QED BY <1>1, <1>2 DEF IdsInv, MessagesValid, AnswerValid, SessionsValid, ValidId

LEMMA OrderStep ==
  ASSUME ClientTypes, IdsInv, ClientlessInv, OrderInv, [ClientNext]_clientVars
  PROVE  OrderInv'
<1>0. StartsFirst /\ StartsFresh
  BY DEF OrderInv
<1>1. CASE queue' = queue /\ sessions' = sessions
  BY <1>0, <1>1 DEF OrderInv, StartsFirst, StartsFresh
<1>2. CASE Created
  <2>1. \A j \in 1 .. Len(queue') : queue'[j].op # "start"
    BY <1>2 DEF Created
  <2> QED BY <2>1 DEF OrderInv, StartsFirst, StartsFresh
<1>3. CASE Sends /\ AdapterKept
  <2>1. PICK x : Appends(x) /\ (x.op = "start" => x.id = nextId + 1)
    BY <1>3, SentFacts
  <2>2. sessions' = sessions
    BY <1>3 DEF AdapterKept, adapterVars
  <2>3. ASSUME NEW j \in 1 .. Len(queue'), NEW k \in 1 .. Len(queue'),
               queue'[j].op = "start", queue'[k].op \in TrackOps, queue'[k].id = queue'[j].id
        PROVE  j <= k
    <3>1. CASE j \in 1 .. Len(queue) /\ k \in 1 .. Len(queue)
      BY <3>1, <2>1, <2>3, <1>0 DEF Appends, StartsFirst
    <3>2. CASE k = Len(queue) + 1
      BY <3>2, <2>1 DEF Appends
    <3>3. CASE j = Len(queue) + 1 /\ k \in 1 .. Len(queue)
      <4>1. queue'[j].id = nextId + 1 /\ queue'[k] = queue[k]
        BY <3>3, <2>1, <2>3 DEF Appends
      <4> QED BY <4>1, <3>3, <2>3, IdFacts
    <3> QED BY <3>1, <3>2, <3>3, <2>1 DEF Appends
  <2>4. ASSUME NEW j \in 1 .. Len(queue'), queue'[j].op = "start" PROVE queue'[j].id \notin sessions'
    <3>1. CASE j \in 1 .. Len(queue)
      BY <3>1, <2>1, <2>2, <2>4, <1>0 DEF Appends, StartsFresh
    <3>2. CASE j = Len(queue) + 1
      BY <3>2, <2>1, <2>2, <2>4, IdFacts DEF Appends
    <3> QED BY <3>1, <3>2, <2>1 DEF Appends
  <2> QED BY <2>3, <2>4 DEF OrderInv, StartsFirst, StartsFresh
<1>4. CASE (Answers \/ Ignores) /\ Handled
  <2>1. Shrinks
    BY <1>4, HandlingFacts
  <2>2. ASSUME NEW j \in 1 .. Len(queue'), NEW k \in 1 .. Len(queue'),
               queue'[j].op = "start", queue'[k].op \in TrackOps, queue'[k].id = queue'[j].id
        PROVE  j <= k
    <3>1. j + 1 <= k + 1
      BY <2>1, <2>2, <1>0 DEF Shrinks, StartsFirst
    <3> QED BY <3>1
  <2>3. ASSUME NEW j \in 1 .. Len(queue'), queue'[j].op = "start" PROVE queue'[j].id \notin sessions'
    <3>1. queue[j + 1].op = "start" /\ queue[j + 1].id = queue'[j].id /\ queue[j + 1].id \notin sessions
      BY <2>1, <2>3, <1>0 DEF Shrinks, StartsFresh
    <3>2. sessions' \subseteq sessions \/ (message.op = "start" /\ sessions' = sessions \cup {message.id})
      BY <1>4 DEF Handled
    <3>3. CASE message.op = "start" /\ message.id = queue[j + 1].id
      <4>1. "start" \in TrackOps
        BY DEF TrackOps
      <4>2. j + 1 <= 1
        BY <2>1, <3>1, <3>3, <4>1, <1>0 DEF Shrinks, StartsFirst
      <4> QED BY <4>2
    <3> QED BY <3>1, <3>2, <3>3
  <2> QED BY <2>2, <2>3 DEF OrderInv, StartsFirst, StartsFresh
<1>5. getRequest \/ onResponse => queue' = queue /\ sessions' = sessions
  BY DEF getRequest, onResponse, adapterSide, adapterVars
<1> QED BY <1>1, <1>2, <1>3, <1>4, <1>5, StepCases DEF Resting, Calls, adapterVars

----------------------------------------------------------------------------
(* Requests and messages *)

Matched(n, ops) == Matches(Rest(n, ops), queue, ops, Session(n))

LEMMA MatchedKept ==
  ASSUME NEW n, NEW ops, queue' = queue, rq'[n] = rq[n], ~Answering(n, ops), ~Answering(n, ops)'
  PROVE  HeadWaits(n, ops)' /\ (Matched(n, ops) => Matched(n, ops)')
<1>1. Session(n)' = Session(n) /\ Waiting(n)' = Waiting(n)
  BY DEF Session, Waiting
<1>2. Rest(n, ops)' = Rest(n, ops)
  BY <1>1 DEF Rest
<1> QED BY <1>1, <1>2 DEF HeadWaits, Matched

LEMMA MatchedTaken ==
  ASSUME NEW n, NEW ops, queue' = queue, Session(n)' = Session(n), Waiting(n)' = Tail(Waiting(n)),
         Answering(n, ops), ~Answering(n, ops)'
  PROVE  HeadWaits(n, ops)' /\ (Matched(n, ops) => Matched(n, ops)')
<1>1. Rest(n, ops)' = Rest(n, ops)
  BY DEF Rest
<1> QED BY <1>1 DEF HeadWaits, Matched

LEMMA RestFacts ==
  ASSUME ClientTypes, NEW n \in Queues, NEW ops, HeadWaits(n, ops)
  PROVE  /\ Waiting(n) \in Seq(AnyRequest) /\ Rest(n, ops) \in Seq(AnyRequest) /\ queue \in Seq(AnyMsg)
         /\ Session(n) \in Nat
<1>1. Waiting(n) \in Seq(AnyRequest) /\ queue \in Seq(AnyMsg) /\ Session(n) \in Nat
  BY DEF ClientTypes, QueueType, Waiting, Session
<1>2. Answering(n, ops) => Tail(Waiting(n)) \in Seq(AnyRequest)
  BY <1>1, TailOfList DEF HeadWaits
<1> QED BY <1>1, <1>2 DEF Rest

LEMMA MatchedSent ==
  ASSUME ClientTypes, NEW n \in Queues, NEW ops, HeadWaits(n, ops),
         NEW x, Appends(x), UNCHANGED <<at, answer>>, rq'[n] = rq[n], ~(x.op \in ops /\ x.id = Session(n))
  PROVE  HeadWaits(n, ops)' /\ (Matched(n, ops) => Matched(n, ops)')
<1>1. Session(n)' = Session(n) /\ Waiting(n)' = Waiting(n) /\ (Answering(n, ops)' <=> Answering(n, ops))
  BY DEF Session, Waiting, Answering
<1>2. Rest(n, ops)' = Rest(n, ops)
  BY <1>1 DEF Rest
<1>3. HeadWaits(n, ops)'
  BY <1>1 DEF HeadWaits
<1>4. PICK w, s, q, p : w = Rest(n, ops) /\ s = Session(n) /\ q = queue /\ p = queue'
  OBVIOUS
<1>5. Matches(w, q, ops, s) => Matches(w, p, ops, s)
  BY <1>4, RestFacts, MatchOther DEF Appends
<1> QED BY <1>1, <1>2, <1>3, <1>4, <1>5 DEF Matched

LEMMA MatchedAsked ==
  ASSUME ClientTypes, NEW n \in Queues, NEW ops, HeadWaits(n, ops),
         NEW x, Appends(x), UNCHANGED <<at, answer>>, x.op \in ops, x.id = Session(n), x.op \in Kinds,
         Session(n)' = Session(n), Waiting(n)' = Append(Waiting(n), Request(x.op, Session(n)))
  PROVE  HeadWaits(n, ops)' /\ (Matched(n, ops) => Matched(n, ops)')
<1>1. PICK s, r : s = Session(n) /\ r = Request(x.op, s)
  OBVIOUS
<1>2. /\ r \in AnyRequest /\ Waiting(n) \in Seq(AnyRequest) /\ Rest(n, ops) \in Seq(AnyRequest)
      /\ queue \in Seq(AnyMsg)
  BY <1>1, RestFacts, RequestFacts
<1>3. Waiting(n)' = Append(Waiting(n), r) /\ (Answering(n, ops)' <=> Answering(n, ops))
  BY <1>1 DEF Answering
<1>4. Rest(n, ops)' = Append(Rest(n, ops), r) /\ HeadWaits(n, ops)'
  <2>1. CASE Answering(n, ops)
    <3>1. Waiting(n) # <<>> /\ Head(Waiting(n)) = Request(answer.kind, Session(n))
      BY <2>1 DEF HeadWaits
    <3>2. Head(Waiting(n)') = Head(Waiting(n)) /\ Tail(Waiting(n)') = Append(Tail(Waiting(n)), r)
      BY <3>1, <1>2, <1>3, AppendedTail
    <3>3. Waiting(n)' # <<>>
      BY <1>2, <1>3, AppendedList
    <3>4. HeadWaits(n, ops)'
      BY <3>1, <3>2, <3>3 DEF HeadWaits
    <3>5. Rest(n, ops)' = Tail(Waiting(n)') /\ Rest(n, ops) = Tail(Waiting(n))
      BY <2>1, <1>3 DEF Rest
    <3> QED BY <3>2, <3>4, <3>5
  <2>2. CASE ~Answering(n, ops)
    BY <2>2, <1>3 DEF Rest, HeadWaits
  <2> QED BY <2>1, <2>2
<1>5. PICK w, q, p : w = Rest(n, ops) /\ q = queue /\ p = queue'
  OBVIOUS
<1>6. Matches(w, q, ops, s) => Matches(Append(w, r), p, ops, s)
  BY <1>1, <1>2, <1>5, MatchMine DEF Appends
<1> QED BY <1>1, <1>4, <1>5, <1>6 DEF Matched

LEMMA MatchedRenewed ==
  ASSUME ClientTypes, NEW n \in Queues, NEW ops,
         NEW x, Appends(x), UNCHANGED <<at, answer>>, x.op \in ops, x.op \in Kinds,
         Session(n)' = x.id, Waiting(n)' = <<Request(x.op, x.id)>>,
         \A j \in 1 .. Len(queue) : ~(queue[j].op \in ops /\ queue[j].id = x.id),
         ~(answer.kind \in ops /\ answer.id = x.id)
  PROVE  HeadWaits(n, ops)' /\ Matched(n, ops)'
<1>1. PICK s, r, q, p : s = x.id /\ r = Request(x.op, s) /\ q = queue /\ p = queue'
  OBVIOUS
<1>2. q \in Seq(AnyMsg) /\ x \in AnyMsg /\ p = Append(q, x)
  BY <1>1 DEF ClientTypes, QueueType, Appends
<1>3. r \in AnyRequest
  BY <1>1, <1>2, RequestFacts DEF AnyMsg
<1>4. ~Answering(n, ops)'
  BY DEF Answering
<1>5. Rest(n, ops)' = <<r>> /\ HeadWaits(n, ops)' /\ Session(n)' = s
  BY <1>1, <1>4 DEF Rest, HeadWaits
<1>6. Matches(<<>>, q, ops, s)
  BY <1>1, <1>2, MatchNone
<1>7. Append(<<>>, r) = <<r>> /\ <<>> \in Seq(AnyRequest)
  BY <1>3, OneElement
<1>8. Matches(Append(<<>>, r), p, ops, s)
  BY <1>1, <1>2, <1>3, <1>6, <1>7, MatchMine
<1>9. Matches(<<r>>, p, ops, s)
  BY <1>7, <1>8
<1> QED BY <1>1, <1>5, <1>9 DEF Matched

LEMMA MatchedHandled ==
  ASSUME ClientTypes, NEW n \in Queues, NEW ops, Shrinks, at = "idle", rq'[n] = rq[n],
         message.op \in ops /\ message.id = Session(n) =>
            Matched(n, ops) /\ at' = "answer" /\ answer'.kind = message.op /\ answer'.id = message.id,
         ~(message.op \in ops /\ message.id = Session(n)) => ~Answering(n, ops)'
  PROVE  HeadWaits(n, ops)' /\ (Matched(n, ops) => Matched(n, ops)')
<1>1. PICK w, s, q, p, x : w = Waiting(n) /\ s = Session(n) /\ q = queue /\ p = queue' /\ x = message
  OBVIOUS
<1>2. /\ w \in Seq(AnyRequest) /\ q \in Seq(AnyMsg) /\ q # <<>> /\ p = Tail(q) /\ Head(q) = x
      /\ Waiting(n)' = w /\ Session(n)' = s
  BY <1>1 DEF ClientTypes, QueueType, Waiting, Session, Shrinks
<1>3. ~Answering(n, ops) /\ Rest(n, ops) = w
  BY <1>1 DEF Answering, Rest
<1>4. Matched(n, ops) <=> Matches(w, q, ops, s)
  BY <1>1, <1>3 DEF Matched
<1>5. CASE x.op \in ops /\ x.id = s
  <2>0. Matches(w, q, ops, s) /\ Head(q).op \in ops /\ Head(q).id = s
    <3>1. Matched(n, ops)
      BY <1>1, <1>5
    <3> QED BY <3>1, <1>2, <1>4, <1>5
  <2>1. w # <<>> /\ Head(w) = Request(x.op, s) /\ Matches(Tail(w), p, ops, s)
    <3>0. w \in Seq(AnyRequest) /\ q \in Seq(AnyMsg) /\ q # <<>>
      BY <1>2
    <3>1. w # <<>> /\ Head(w) = Request(Head(q).op, s) /\ Matches(Tail(w), Tail(q), ops, s)
      BY <3>0, <2>0, MatchTailMine, Zenon
    <3> QED BY <3>1, <1>2
  <2>2. Answering(n, ops)' /\ answer'.kind = x.op
    BY <1>1, <1>2, <1>5 DEF Answering
  <2>3. Rest(n, ops)' = Tail(w)
    BY <2>2, <1>2 DEF Rest
  <2>4. HeadWaits(n, ops)'
    BY <2>1, <2>2, <1>2 DEF HeadWaits
  <2> QED BY <2>1, <2>3, <2>4, <1>1, <1>2 DEF Matched
<1>6. CASE ~(x.op \in ops /\ x.id = s)
  <2>1. ~Answering(n, ops)'
    BY <1>1, <1>6
  <2>2. Rest(n, ops)' = w /\ HeadWaits(n, ops)'
    BY <2>1, <1>2 DEF Rest, HeadWaits
  <2>3. Matches(w, q, ops, s) => Matches(w, p, ops, s)
    BY <1>2, <1>6, MatchTailOther
  <2> QED BY <2>2, <2>3, <1>1, <1>2, <1>4 DEF Matched
<1> QED BY <1>5, <1>6

LEMMA TrackingStep ==
  ASSUME ClientTypes, IdsInv, ClientlessInv, OrderInv, TrackingMatch, [ClientNext]_clientVars
  PROVE  TrackingMatch'
<1> DEFINE mine == Session("tracking")
<1>0. /\ "tracking" \in Queues /\ TrackOps \subseteq Kinds /\ started \subseteq started' /\ niCount <= niCount'
      /\ niCount \in Nat /\ niCount' \in Nat
  BY NumbersGrow DEF Queues, Kinds, TrackOps
<1>1. TrackingMatch <=>
        (mine # None /\ ~Confused(mine) =>
            HeadWaits("tracking", TrackOps) /\ (Live(mine) => Matched("tracking", TrackOps)))
  BY DEF TrackingMatch, Matched
<1>2. SUFFICES ASSUME mine' # None, ~Confused(mine)'
               PROVE  HeadWaits("tracking", TrackOps)' /\ (Live(mine)' => Matched("tracking", TrackOps)')
  BY DEF TrackingMatch, Matched
<1>3. ASSUME mine' = mine
      PROVE  HeadWaits("tracking", TrackOps) /\ (Live(mine) => Matched("tracking", TrackOps))
  <2>1. ~Confused(mine)
    BY <1>0, <1>2, <1>3 DEF Confused
  <2> QED BY <1>1, <1>2, <1>3, <2>1
<1>4. /\ "none" \notin TrackOps /\ Nothing.kind = "none" /\ (answer.kind \in TrackOps => answer.id \in started)
      /\ (at # "answer" => ~Answering("tracking", TrackOps))
  BY IdFacts DEF TrackOps, Nothing, Answering
<1> HIDE DEF mine
<1>5. CASE UNCHANGED <<queue, rq, sessions, at, answer>>
  <2>1. /\ mine' = mine
        /\ HeadWaits("tracking", TrackOps)' <=> HeadWaits("tracking", TrackOps)
        /\ Matched("tracking", TrackOps)' <=> Matched("tracking", TrackOps)
        /\ Live(mine)' <=> Live(mine)
    BY <1>5 DEF mine, Session, HeadWaits, Matched, Live, StartComes, Answering, Rest, Waiting
  <2> QED BY <1>3, <2>1
<1>6. CASE Created
  <2>1. mine' = mine /\ mine = None
    BY <1>0, <1>6 DEF mine, Created, ClientlessInv
  <2> QED BY <1>2, <2>1 DEF None
<1>7. CASE Sends /\ AdapterKept
  <2>1. UNCHANGED <<at, answer, sessions>>
    BY <1>7 DEF AdapterKept, threadVars, adapterVars
  <2>2. PICK x : /\ Appends(x)
                 /\ x.op = "start" => Starting /\ x.id = nextId + 1
                 /\ x.op = "stop" => Stopping /\ x.id = mine
                 /\ x.op = "update" => Updating /\ x.id = mine
                 /\ x.op = "enable" => Enabling
                 /\ x.op = "disable" => Disabling
                 /\ x.op = "client" => Registering
                 /\ x.op = "config" => Configuring
                 /\ x.op = "ni" => Responding
                 /\ x.op = "aiding" => Deleting
                 /\ x.op \in Kinds \cup {"client"}
    BY <1>7, SentFacts DEF mine
  <2>3. x.op # "start" /\ mine' = mine => (Live(mine)' => Live(mine))
    BY <2>1, <2>2 DEF Live, StartComes, Appends
  <2>4. CASE x.op = "start"
    <3>1. /\ mine' = nextId + 1 /\ Waiting("tracking")' = <<Request("start", nextId + 1)>>
          /\ x.op \in TrackOps /\ x.op \in Kinds
      BY <1>0, <2>2, <2>4 DEF Starting, Renewing, mine, TrackOps
    <3>2. /\ \A j \in 1 .. Len(queue) : ~(queue[j].op \in TrackOps /\ queue[j].id = x.id)
          /\ ~(answer.kind \in TrackOps /\ answer.id = x.id)
      BY <2>2, <2>4, IdFacts
    <3>3. Session("tracking")' = x.id /\ Waiting("tracking")' = <<Request(x.op, x.id)>>
      BY <2>2, <2>4, <3>1 DEF mine
    <3> QED BY <1>0, <2>1, <2>2, <3>1, <3>2, <3>3, MatchedRenewed
  <2>5. CASE x.op \in {"stop", "update"}
    <3>1. /\ mine' = mine /\ Waiting("tracking")' = Append(Waiting("tracking"), Request(x.op, mine))
          /\ x.op \in TrackOps /\ x.op \in Kinds
      BY <1>0, <2>2, <2>5 DEF Stopping, Updating, Asking, mine, TrackOps
    <3>2. HeadWaits("tracking", TrackOps)
      BY <1>3, <3>1
    <3>3. HeadWaits("tracking", TrackOps)' /\ (Matched("tracking", TrackOps) => Matched("tracking", TrackOps)')
      <4>1. /\ x.id = Session("tracking") /\ Session("tracking")' = Session("tracking")
            /\ Waiting("tracking")' = Append(Waiting("tracking"), Request(x.op, Session("tracking")))
        BY <2>2, <2>5, <3>1 DEF mine
      <4> QED BY <1>0, <2>1, <2>2, <3>1, <3>2, <4>1, MatchedAsked
    <3> QED BY <1>3, <2>3, <2>5, <3>1, <3>3
  <2>6. CASE x.op \notin TrackOps
    <3>1. rq'["tracking"] = rq["tracking"]
      BY <1>0, <2>2, <2>6 DEF Registering, Enabling, Disabling, Configuring, Responding, Deleting,
         Asking, Renewing, Kinds, TrackOps
    <3>2. mine' = mine /\ x.op # "start"
      BY <2>6, <3>1 DEF mine, Session, TrackOps
    <3>3. HeadWaits("tracking", TrackOps)
      BY <1>3, <3>2
    <3>4. HeadWaits("tracking", TrackOps)' /\ (Matched("tracking", TrackOps) => Matched("tracking", TrackOps)')
      BY <1>0, <2>1, <2>2, <2>6, <3>1, <3>3, MatchedSent
    <3> QED BY <1>3, <2>3, <3>2, <3>4
  <2> QED BY <2>4, <2>5, <2>6 DEF TrackOps
<1>8. CASE (Answers \/ Ignores) /\ Handled
  <2>1. Shrinks /\ at = "idle" /\ answer.kind = "none" /\ rq' = rq
    BY <1>8, HandlingFacts
  <2>2. mine' = mine
    BY <2>1 DEF mine, Session
  <2>3. sessions' \subseteq sessions \/ (message.op = "start" /\ sessions' = sessions \cup {message.id})
    BY <1>8 DEF Handled
  <2>4. StartComes(mine)' => \E j \in 1 .. Len(queue) : j > 1 /\ queue[j].op = "start" /\ queue[j].id = mine
    <3>1. ASSUME NEW j \in 1 .. Len(queue'), queue'[j].op = "start", queue'[j].id = mine'
          PROVE  j + 1 \in 1 .. Len(queue) /\ j + 1 > 1 /\ queue[j + 1].op = "start" /\ queue[j + 1].id = mine
      BY <2>1, <2>2, <3>1 DEF Shrinks
    <3> QED BY <3>1 DEF StartComes
  <2>5. StartComes(mine)' => ~(message.op \in TrackOps /\ message.id = mine)
    <3>1. SUFFICES ASSUME NEW j \in 1 .. Len(queue), j > 1, queue[j].op = "start", queue[j].id = mine,
                          message.op \in TrackOps, message.id = mine
                   PROVE  FALSE
      BY <2>4
    <3>2. j <= 1
      BY <2>1, <3>1 DEF OrderInv, StartsFirst, Shrinks
    <3> QED BY <3>1, <3>2
  <2>6. CASE message.op \in TrackOps /\ message.id = mine /\ Answers
    <3>1. /\ at' = "answer" /\ answer'.kind = message.op /\ answer'.id = message.id
          /\ message.op \in {"update", "stop"} => message.id \in sessions
      BY <2>6 DEF Answers, TrackOps
    <3>2. Live(mine)
      BY <2>1, <2>6, <3>1 DEF Live, StartComes, Shrinks, TrackOps
    <3>3. Matched("tracking", TrackOps)
      BY <1>3, <2>2, <3>2
    <3>4. message.op \in TrackOps /\ message.id = Session("tracking") /\ rq'["tracking"] = rq["tracking"]
      BY <2>1, <2>6 DEF mine
    <3> QED BY <1>0, <2>1, <3>1, <3>3, <3>4, MatchedHandled
  <2>7. CASE message.op \in TrackOps /\ message.id = mine /\ Ignores
    <3>1. mine \notin sessions /\ message.op \in {"update", "stop"}
      BY <2>7 DEF Ignores, TrackOps
    <3>2. ~Live(mine)'
      BY <2>2, <2>3, <2>5, <2>7, <3>1 DEF Live
    <3>3. ~Answering("tracking", TrackOps)'
      BY <2>1, <2>7, <1>4 DEF Ignores, Answering
    <3> QED BY <3>2, <3>3 DEF HeadWaits
  <2>8. CASE ~(message.op \in TrackOps /\ message.id = mine)
    <3>1. ~Answering("tracking", TrackOps)'
      <4>1. CASE Answers
        BY <4>1, <2>2, <2>8 DEF Answers, Answering, mine
      <4>2. CASE Ignores
        BY <4>2, <2>1, <1>4 DEF Ignores, Answering
      <4> QED BY <1>8, <4>1, <4>2
    <3>2. HeadWaits("tracking", TrackOps)' /\ (Matched("tracking", TrackOps) => Matched("tracking", TrackOps)')
      <4>1. ~(message.op \in TrackOps /\ message.id = Session("tracking")) /\ rq'["tracking"] = rq["tracking"]
        BY <2>1, <2>8 DEF mine
      <4> QED BY <1>0, <2>1, <3>1, <4>1, MatchedHandled
    <3>3. Live(mine)' => Live(mine)
      <4>1. mine \in sessions' => mine \in sessions
        BY <2>3, <2>8 DEF TrackOps
      <4> QED BY <2>2, <2>4, <4>1 DEF Live, StartComes
    <3> QED BY <1>3, <2>2, <3>2, <3>3
  <2> QED BY <1>8, <2>6, <2>7, <2>8
<1>9. ASSUME UNCHANGED <<queue, sessions>>, rq'["tracking"] = rq["tracking"],
             ~Answering("tracking", TrackOps), ~Answering("tracking", TrackOps)'
      PROVE  HeadWaits("tracking", TrackOps)' /\ (Live(mine)' => Matched("tracking", TrackOps)')
  <2>1. mine' = mine /\ (Live(mine)' => Live(mine))
    BY <1>9 DEF mine, Session, Live, StartComes
  <2>2. HeadWaits("tracking", TrackOps)' /\ (Matched("tracking", TrackOps) => Matched("tracking", TrackOps)')
    BY <1>9, MatchedKept
  <2> QED BY <1>3, <2>1, <2>2
<1>10. CASE Calls
  <2>1. /\ UNCHANGED <<queue, sessions, rq, answer>> /\ at \in {"cache", "tell"}
    BY <1>10 DEF Calls, Caches, cacheCapabilities, tellCapabilities, adapterVars
  <2>2. answer.kind \notin TrackOps
    BY <2>1 DEF IdsInv, AnswerValid, TrackOps
  <2> QED BY <1>9, <2>1, <2>2 DEF Answering
<1>11. CASE onResponse
  <2>1. UNCHANGED <<queue, sessions, rq>> /\ at = "respond" /\ at' = "idle"
    BY <1>11 DEF onResponse, adapterSide, adapterVars
  <2> QED BY <1>9, <2>1 DEF Answering
<1>12. CASE getRequest
  <2>1. at = "answer" /\ UNCHANGED <<queue, sessions>> /\ at' # "answer" /\ rq' \in [Queues -> RequestQueue]
    BY <1>12, GetFacts DEF Misses, Finds, adapterVars
  <2>2. ~Answering("tracking", TrackOps)'
    BY <2>1 DEF Answering
  <2>3. CASE Misses /\ (queueOf(answer) \in Queues => Waiting(queueOf(answer)) = <<>>)
    <3>1. rq' = rq /\ mine' = mine
      BY <2>3 DEF Misses, mine, Session
    <3>2. ~Answering("tracking", TrackOps)
      <4>1. SUFFICES ASSUME Answering("tracking", TrackOps) PROVE FALSE
        OBVIOUS
      <4>2. Waiting("tracking") # <<>>
        BY <1>3, <3>1, <4>1 DEF HeadWaits
      <4>3. queueOf(answer) = "tracking"
        <5>1. rq \in [Queues -> RequestQueue]
          BY DEF ClientTypes, QueueType, RequestQueue
        <5> QED BY <5>1, <4>1, QueueOfFacts DEF Answering
      <4> QED BY <1>0, <2>3, <4>2, <4>3
    <3> QED BY <1>9, <2>1, <2>2, <3>1, <3>2
  <2>4. CASE Session("tracking") = answer.id /\ answer.kind \in TrackOps \cup {"ni"} /\ Finds("tracking")
    <3>1. mine' = mine /\ Session("tracking")' = Session("tracking") /\ Waiting("tracking")' = Tail(Waiting("tracking"))
      BY <2>4 DEF Finds, mine
    <3>2. answer.kind # "ni"
      <4>1. SUFFICES ASSUME answer.kind = "ni" PROVE FALSE
        OBVIOUS
      <4>2. mine \in 1 .. niCount
        BY <2>4, <4>1 DEF mine, IdsInv, AnswerValid, ValidId
      <4>3. mine \in started
        BY <1>2, <3>1, IdFacts DEF mine
      <4> QED BY <1>0, <1>2, <3>1, <4>2, <4>3 DEF Confused
    <3>3. Answering("tracking", TrackOps)
      BY <2>1, <2>4, <3>2 DEF Answering
    <3>4. HeadWaits("tracking", TrackOps)' /\ (Matched("tracking", TrackOps) => Matched("tracking", TrackOps)')
      BY <2>1, <2>2, <3>1, <3>3, MatchedTaken
    <3>5. Live(mine)' => Live(mine)
      BY <2>1, <3>1 DEF Live, StartComes
    <3> QED BY <1>3, <3>1, <3>4, <3>5
  <2>5. ASSUME NEW c \in Queues, c # "tracking", Finds(c), ~(answer.kind \in TrackOps /\ Session("tracking") = answer.id)
        PROVE  HeadWaits("tracking", TrackOps)' /\ (Live(mine)' => Matched("tracking", TrackOps)')
    <3>1. rq'["tracking"] = rq["tracking"] /\ ~Answering("tracking", TrackOps)
      BY <1>0, <2>5 DEF Finds, Answering
    <3> QED BY <1>9, <2>1, <2>2, <3>1
  <2>6. /\ "ni" \in Queues \ {"tracking"} /\ "aiding" \in Queues \ {"tracking"}
        /\ "control" \in Queues \ {"tracking"} /\ "config" \in Queues \ {"tracking"}
        /\ (VoteOps \cup {"aiding", "config"}) \cap TrackOps = {}
    BY DEF Queues, VoteOps, TrackOps
  <2> QED BY <1>12, <2>3, <2>4, <2>5, <2>6, GetFacts
<1> QED BY <1>5, <1>6, <1>7, <1>8, <1>10, <1>11, <1>12, StepCases DEF Resting

LEMMA ControlStep ==
  ASSUME ClientTypes, IdsInv, ClientlessInv, Apart, ControlMatch, [ClientNext]_clientVars
  PROVE  ControlMatch'
<1> DEFINE mine == Session("control")
<1>0. /\ "control" \in Queues /\ VoteOps \subseteq Kinds /\ nextId \in Nat /\ rq \in [Queues -> RequestQueue]
  BY DEF Queues, Kinds, VoteOps, ClientTypes, QueueType, RequestQueue, BinderType
<1>1. SUFFICES ASSUME mine' # None
               PROVE  HeadWaits("control", VoteOps)' /\ Matched("control", VoteOps)'
  BY DEF ControlMatch, Matched
<1>2. ASSUME mine' = mine PROVE HeadWaits("control", VoteOps) /\ Matched("control", VoteOps)
  BY <1>1, <1>2 DEF ControlMatch, Matched
<1>3. /\ "none" \notin VoteOps /\ (answer.kind \in VoteOps \cup {"aiding"} => answer.id \in 1 .. nextId)
      /\ (at # "answer" => ~Answering("control", VoteOps))
      /\ \A j \in 1 .. Len(queue) : queue[j].op \in VoteOps => queue[j].id \in 1 .. nextId
  BY DEF VoteOps, Answering, IdsInv, AnswerValid, MessagesValid, ValidId
<1> HIDE DEF mine
<1>4. CASE UNCHANGED <<queue, rq, at, answer>>
  <2>1. /\ mine' = mine
        /\ HeadWaits("control", VoteOps)' <=> HeadWaits("control", VoteOps)
        /\ Matched("control", VoteOps)' <=> Matched("control", VoteOps)
    BY <1>4 DEF mine, Session, HeadWaits, Matched, Answering, Rest, Waiting
  <2> QED BY <1>2, <2>1
<1>5. CASE Created
  <2>1. mine' = mine /\ mine = None
    BY <1>0, <1>5 DEF mine, Created, ClientlessInv
  <2> QED BY <1>1, <2>1 DEF None
<1>6. CASE Sends /\ AdapterKept
  <2>1. UNCHANGED <<at, answer>>
    BY <1>6 DEF AdapterKept, threadVars
  <2>2. PICK x : /\ Appends(x)
                 /\ x.op = "start" => Starting
                 /\ x.op = "stop" => Stopping
                 /\ x.op = "update" => Updating
                 /\ x.op = "enable" => Enabling /\ x.id = nextId + 1
                 /\ x.op = "disable" => Disabling /\ x.id = mine
                 /\ x.op = "client" => Registering
                 /\ x.op = "config" => Configuring
                 /\ x.op = "ni" => Responding
                 /\ x.op = "aiding" => Deleting
                 /\ x.op \in Kinds \cup {"client"}
    BY <1>6, SentFacts DEF mine
  <2>3. CASE x.op = "enable"
    <3>1. /\ mine' = nextId + 1 /\ Waiting("control")' = <<Request("enable", nextId + 1)>>
          /\ x.op \in VoteOps /\ x.op \in Kinds /\ nextId + 1 \notin 1 .. nextId
      BY <1>0, <2>2, <2>3 DEF Enabling, Renewing, mine, VoteOps
    <3>2. /\ \A j \in 1 .. Len(queue) : ~(queue[j].op \in VoteOps /\ queue[j].id = x.id)
          /\ ~(answer.kind \in VoteOps /\ answer.id = x.id)
      BY <1>3, <2>2, <2>3, <3>1
    <3>3. Session("control")' = x.id /\ Waiting("control")' = <<Request(x.op, x.id)>>
      BY <2>2, <2>3, <3>1 DEF mine
    <3> QED BY <1>0, <2>1, <2>2, <3>1, <3>2, <3>3, MatchedRenewed
  <2>4. CASE x.op = "disable"
    <3>1. /\ mine' = mine /\ Waiting("control")' = Append(Waiting("control"), Request(x.op, mine))
          /\ x.op \in VoteOps /\ x.op \in Kinds
      BY <1>0, <2>2, <2>4 DEF Disabling, Asking, mine, VoteOps
    <3>2. HeadWaits("control", VoteOps)
      BY <1>2, <3>1
    <3>3. /\ x.id = Session("control") /\ Session("control")' = Session("control")
          /\ Waiting("control")' = Append(Waiting("control"), Request(x.op, Session("control")))
      BY <2>2, <2>4, <3>1 DEF mine
    <3>4. HeadWaits("control", VoteOps)' /\ (Matched("control", VoteOps) => Matched("control", VoteOps)')
      BY <1>0, <2>1, <2>2, <3>1, <3>2, <3>3, MatchedAsked
    <3> QED BY <1>2, <3>1, <3>4
  <2>5. CASE x.op \notin VoteOps
    <3>1. rq'["control"] = rq["control"]
      BY <1>0, <2>2, <2>5 DEF Registering, Starting, Stopping, Updating, Configuring, Responding, Deleting,
         Asking, Renewing, Kinds, VoteOps
    <3>2. mine' = mine
      BY <3>1 DEF mine, Session
    <3>3. HeadWaits("control", VoteOps)
      BY <1>2, <3>2
    <3>4. HeadWaits("control", VoteOps)' /\ (Matched("control", VoteOps) => Matched("control", VoteOps)')
      BY <1>0, <2>1, <2>2, <2>5, <3>1, <3>3, MatchedSent
    <3> QED BY <1>2, <3>2, <3>4
  <2> QED BY <2>3, <2>4, <2>5 DEF VoteOps
<1>7. CASE Answers \/ Ignores
  <2>1. Shrinks /\ at = "idle" /\ answer.kind = "none" /\ rq' = rq
    BY <1>7, HandlingFacts
  <2>2. mine' = mine
    BY <2>1 DEF mine, Session
  <2>3. CASE message.op \in VoteOps /\ message.id = mine
    <3>1. at' = "answer" /\ answer'.kind = message.op /\ answer'.id = message.id
      BY <1>7, <2>3 DEF Answers, Ignores, VoteOps
    <3>2. Matched("control", VoteOps)
      BY <1>2, <2>2
    <3>3. message.op \in VoteOps /\ message.id = Session("control") /\ rq'["control"] = rq["control"]
      BY <2>1, <2>3 DEF mine
    <3> QED BY <1>0, <2>1, <3>1, <3>2, <3>3, MatchedHandled
  <2>4. CASE ~(message.op \in VoteOps /\ message.id = mine)
    <3>1. ~Answering("control", VoteOps)'
      <4>1. CASE Answers
        BY <4>1, <2>2, <2>4 DEF Answers, Answering, mine
      <4>2. CASE Ignores
        BY <4>2, <2>1, <1>3 DEF Ignores, Answering
      <4> QED BY <1>7, <4>1, <4>2
    <3>2. HeadWaits("control", VoteOps)' /\ (Matched("control", VoteOps) => Matched("control", VoteOps)')
      <4>1. ~(message.op \in VoteOps /\ message.id = Session("control")) /\ rq'["control"] = rq["control"]
        BY <2>1, <2>4 DEF mine
      <4> QED BY <1>0, <2>1, <3>1, <4>1, MatchedHandled
    <3> QED BY <1>2, <2>2, <3>2
  <2> QED BY <2>3, <2>4
<1>8. ASSUME queue' = queue, rq'["control"] = rq["control"],
             ~Answering("control", VoteOps), ~Answering("control", VoteOps)'
      PROVE  HeadWaits("control", VoteOps)' /\ Matched("control", VoteOps)'
  <2>1. mine' = mine
    BY <1>8 DEF mine, Session
  <2>2. HeadWaits("control", VoteOps)' /\ (Matched("control", VoteOps) => Matched("control", VoteOps)')
    BY <1>8, MatchedKept
  <2> QED BY <1>2, <2>1, <2>2
<1>9. CASE Calls
  <2>1. UNCHANGED <<queue, rq, answer>> /\ at \in {"cache", "tell"}
    BY <1>9 DEF Calls, Caches, cacheCapabilities, tellCapabilities
  <2>2. answer.kind \notin VoteOps
    BY <2>1 DEF IdsInv, AnswerValid, VoteOps
  <2> QED BY <1>8, <2>1, <2>2 DEF Answering
<1>10. CASE onResponse
  <2>1. UNCHANGED <<queue, rq>> /\ at = "respond" /\ at' = "idle"
    BY <1>10 DEF onResponse, adapterSide
  <2> QED BY <1>8, <2>1 DEF Answering
<1>11. CASE getRequest
  <2>1. at = "answer" /\ queue' = queue /\ at' # "answer" /\ rq' \in [Queues -> RequestQueue]
    BY <1>11, GetFacts DEF Misses, Finds
  <2>2. ~Answering("control", VoteOps)'
    BY <2>1 DEF Answering
  <2>3. answer.kind \in VoteOps /\ answer.id = mine => Session("aiding") # answer.id
    <3>1. SUFFICES ASSUME answer.kind \in VoteOps, answer.id = mine, Session("aiding") = answer.id
                   PROVE  FALSE
      OBVIOUS
    <3>2. Used("control", VoteOps, answer.id) /\ Used("aiding", {"aiding"}, answer.id)
      BY <3>1 DEF Used, mine
    <3> QED BY <3>1, <3>2, <1>3 DEF Apart
  <2>4. CASE Misses /\ (queueOf(answer) \in Queues => Waiting(queueOf(answer)) = <<>>)
    <3>1. rq' = rq /\ mine' = mine
      BY <2>4 DEF Misses, mine, Session
    <3>2. ~Answering("control", VoteOps)
      <4>1. SUFFICES ASSUME Answering("control", VoteOps) PROVE FALSE
        OBVIOUS
      <4>2. Waiting("control") # <<>>
        BY <1>2, <3>1, <4>1 DEF HeadWaits
      <4>3. answer.kind \in VoteOps \cup {"aiding"} /\ Session("aiding") # answer.id /\ Session("control") = answer.id
        BY <2>3, <4>1 DEF Answering, mine
      <4>4. queueOf(answer) = "control"
        BY <1>0, <4>3, QueueOfFacts
      <4> QED BY <1>0, <2>4, <4>2, <4>4
    <3> QED BY <1>8, <2>1, <2>2, <3>1, <3>2
  <2>5. CASE answer.kind \in VoteOps \cup {"aiding"} /\ Session("control") = answer.id /\ Finds("control")
    <3>1. mine' = mine /\ Session("control")' = Session("control") /\ Waiting("control")' = Tail(Waiting("control"))
      BY <2>5 DEF Finds, mine
    <3>2. answer.kind # "aiding"
      <4>1. SUFFICES ASSUME answer.kind = "aiding" PROVE FALSE
        OBVIOUS
      <4>2. Used("control", VoteOps, answer.id) /\ Used("aiding", {"aiding"}, answer.id)
        BY <2>5, <4>1 DEF Used
      <4> QED BY <4>1, <4>2, <1>3 DEF Apart
    <3>3. Answering("control", VoteOps)
      BY <2>1, <2>5, <3>2 DEF Answering
    <3>4. HeadWaits("control", VoteOps)' /\ (Matched("control", VoteOps) => Matched("control", VoteOps)')
      BY <2>1, <2>2, <3>1, <3>3, MatchedTaken
    <3> QED BY <1>2, <3>1, <3>4
  <2>6. ASSUME NEW c \in Queues, c # "control", Finds(c), ~(answer.kind \in VoteOps /\ Session("control") = answer.id)
        PROVE  HeadWaits("control", VoteOps)' /\ Matched("control", VoteOps)'
    <3>1. rq'["control"] = rq["control"] /\ ~Answering("control", VoteOps)
      BY <1>0, <2>6 DEF Finds, Answering
    <3> QED BY <1>8, <2>1, <2>2, <3>1
  <2>7. /\ "ni" \in Queues \ {"control"} /\ "aiding" \in Queues \ {"control"}
        /\ "tracking" \in Queues \ {"control"} /\ "config" \in Queues \ {"control"}
        /\ (TrackOps \cup {"ni", "config"}) \cap VoteOps = {}
    BY DEF Queues, VoteOps, TrackOps
  <2>8. Session("aiding") = answer.id => ~(answer.kind \in VoteOps /\ Session("control") = answer.id)
    BY <2>3 DEF mine
  <2> QED BY <1>11, <2>4, <2>5, <2>6, <2>7, <2>8, GetFacts
<1> QED BY <1>4, <1>5, <1>6, <1>7, <1>9, <1>10, <1>11, StepCases DEF Resting

LEMMA AnswerFitsStep ==
  ASSUME ClientTypes, IdsInv, ClientlessInv, WaitingInv, Apart, TrackingMatch, ControlMatch, AnswerFits, [ClientNext]_clientVars
  PROVE  AnswerFits'
<1>1. SUFFICES ASSUME at' = "respond", ~Confused(answer.id)' PROVE request' = Request(answer'.kind, answer'.id)
  BY DEF AnswerFits
<1>2. /\ started \subseteq started' /\ niCount <= niCount' /\ niCount \in Nat /\ niCount' \in Nat
  BY NumbersGrow
<1>3. CASE UNCHANGED <<at, answer, request>>
  <2>1. ~Confused(answer.id)
    BY <1>1, <1>2, <1>3 DEF Confused
  <2> QED BY <1>1, <1>3, <2>1 DEF AnswerFits
<1>4. CASE getRequest
  <2>1. at = "answer" /\ answer' = answer /\ ~Misses
    BY <1>1, <1>4 DEF getRequest, Misses
  <2>2. ~Confused(answer.id)
    BY <1>1, <1>2, <2>1 DEF Confused
  <2>3. ASSUME NEW c \in Queues, Finds(c) PROVE request' \in Elements(c) /\ request' = Head(Waiting(c))
    BY <2>3, ElementsFacts DEF Finds, ClientTypes
  <2>4. /\ "tracking" \in Queues /\ "ni" \in Queues /\ "control" \in Queues
        /\ "aiding" \in Queues /\ "config" \in Queues
    BY DEF Queues
  <2>5. ValidId(answer.kind, answer.id)
    BY DEF IdsInv, AnswerValid
  <2>6. CASE answer.kind \in TrackOps \cup {"ni"} /\ Session("tracking") = answer.id /\ Finds("tracking")
    <3>1. Session("tracking") # None => Session("tracking") \in started
      BY IdFacts
    <3>2. CASE answer.kind = "ni"
      <4>1. answer.id \in 1 .. niCount /\ answer.id # None
        BY <1>2, <2>5, <3>2 DEF ValidId, None
      <4> QED BY <2>2, <2>6, <3>1, <4>1 DEF Confused
    <3>3. CASE answer.kind \in TrackOps
      <4>1. Session("tracking") # None
        BY <2>6, <3>3, IdFacts
      <4>2. HeadWaits("tracking", TrackOps) /\ Answering("tracking", TrackOps)
        BY <2>1, <2>2, <2>6, <3>3, <4>1 DEF TrackingMatch, Answering
      <4>3. Head(Waiting("tracking")) = Request(answer.kind, answer.id)
        BY <2>6, <4>2 DEF HeadWaits
      <4> QED BY <2>1, <2>3, <2>4, <2>6, <4>3
    <3> QED BY <2>6, <3>2, <3>3
  <2>7. CASE answer.kind \in TrackOps \cup {"ni"} /\ Session("ni") = answer.id /\ Finds("ni")
    <3>1. request' = Request("ni", answer.id)
      BY <2>3, <2>4, <2>7 DEF WaitingInv
    <3>2. answer.kind = "ni"
      <4>1. SUFFICES ASSUME answer.kind \in TrackOps PROVE FALSE
        BY <2>7
      <4>2. answer.id \in started /\ answer.id \in 0 .. niCount /\ answer.id # None
        BY <2>7, <4>1, IdFacts DEF IdsInv, SessionsValid
      <4> QED BY <1>2, <2>2, <4>2 DEF Confused, None
    <3> QED BY <2>1, <3>1, <3>2
  <2>8. CASE answer.kind \in VoteOps \cup {"aiding"} /\ Session("aiding") = answer.id /\ Finds("aiding")
    <3>1. request' = Request("aiding", answer.id)
      BY <2>3, <2>4, <2>8 DEF WaitingInv
    <3>2. answer.kind = "aiding"
      <4>1. SUFFICES ASSUME answer.kind \in VoteOps PROVE FALSE
        BY <2>8
      <4>2. answer.id \in 1 .. nextId
        BY <2>5, <4>1 DEF ValidId
      <4>3. CASE Session("control") = answer.id
        BY <4>1, <4>2, <4>3, <2>8 DEF Used, Apart
      <4>4. Used("control", VoteOps, answer.id) /\ Used("aiding", {"aiding"}, answer.id)
        BY <4>1, <2>8 DEF Used
      <4> QED BY <4>2, <4>4 DEF Apart
    <3> QED BY <2>1, <3>1, <3>2
  <2>9. CASE answer.kind \in VoteOps \cup {"aiding"} /\ Session("control") = answer.id /\ Finds("control")
    <3>1. answer.id \in 1 .. nextId
      BY <2>5, <2>9 DEF ValidId
    <3>2. answer.kind \in VoteOps
      <4>1. SUFFICES ASSUME answer.kind = "aiding" PROVE FALSE
        BY <2>9
      <4>2. Used("control", VoteOps, answer.id) /\ Used("aiding", {"aiding"}, answer.id)
        BY <4>1, <2>9 DEF Used
      <4> QED BY <3>1, <4>2 DEF Apart
    <3>3. HeadWaits("control", VoteOps) /\ Answering("control", VoteOps)
      <4>1. Session("control") # None
        BY <2>9, <3>1 DEF None
      <4> QED BY <2>1, <2>9, <3>2, <4>1 DEF ControlMatch, Answering
    <3>4. Head(Waiting("control")) = Request(answer.kind, answer.id)
      BY <2>9, <3>3 DEF HeadWaits
    <3> QED BY <2>1, <2>3, <2>4, <2>9, <3>4
  <2>10. CASE answer.kind = "config" /\ Finds("config")
    <3>1. request' = Request("config", None) /\ answer.id = None
      BY <2>3, <2>4, <2>5, <2>10 DEF WaitingInv, ValidId, TrackOps, VoteOps
    <3> QED BY <2>1, <2>10, <3>1
  <2> QED BY <1>4, <2>1, <2>6, <2>7, <2>8, <2>9, <2>10, GetFacts
<1>5. (Answers \/ Ignores \/ Calls \/ onResponse) => at' # "respond"
  BY DEF Answers, Ignores, Calls, Caches, cacheCapabilities, tellCapabilities,
     onResponse
<1> QED BY <1>1, <1>3, <1>4, <1>5, StepCases DEF Resting, Created, AdapterKept, threadVars

----------------------------------------------------------------------------
(* What runs, and who knows *)

LEMMA RunsStep ==
  ASSUME ClientTypes, IdsInv, ClientlessInv, OrderInv, RunsAreWished, [ClientNext]_clientVars
  PROVE  RunsAreWished'
<1> DEFINE Runs(s) == s \in sessions \ refused \/ StartComes(s)
<1>0. "tracking" \in Queues /\ started \subseteq started'
  BY NumbersGrow DEF Queues
<1>1. SUFFICES ASSUME NEW s \in started', Runs(s)' PROVE Wished(s)'
  BY DEF RunsAreWished
<1>2. s \in started /\ Runs(s) => Wished(s)
  BY DEF RunsAreWished
<1> HIDE DEF Runs
<1>3. ASSUME Session("tracking")' = Session("tracking"), mTracking' = mTracking, started' = started,
             Runs(s), StopComes(s) => StopComes(s)'
      PROVE  Wished(s)'
  BY <1>1, <1>2, <1>3 DEF Wished
<1>4. CASE UNCHANGED <<queue, sessions, refused, mTracking, started>> /\ Session("tracking")' = Session("tracking")
  BY <1>1, <1>3, <1>4 DEF StopComes, StartComes, Runs
<1>5. CASE Created
  <2>1. /\ UNCHANGED <<sessions, refused, mTracking, started>> /\ queue = <<>>
        /\ Session("tracking")' = Session("tracking")
        /\ \A j \in 1 .. Len(queue') : queue'[j].op # "start"
    BY <1>0, <1>5 DEF Created, adapterVars, ClientlessInv
  <2>2. ~StartComes(s)' /\ ~StopComes(s)
    BY <2>1 DEF StartComes, StopComes
  <2>3. Runs(s)
    BY <1>1, <2>1, <2>2 DEF Runs
  <2> QED BY <1>3, <2>1, <2>2, <2>3
<1>6. CASE Sends /\ AdapterKept
  <2>1. UNCHANGED <<sessions, refused>>
    BY <1>6 DEF AdapterKept, adapterVars
  <2>2. PICK x : /\ Appends(x)
                 /\ x.op = "start" => Starting /\ x.id = nextId + 1
                 /\ x.op = "stop" => Stopping /\ x.id = Session("tracking")
                 /\ x.op = "update" => Updating
                 /\ x.op = "enable" => Enabling
                 /\ x.op = "disable" => Disabling
                 /\ x.op = "client" => Registering
                 /\ x.op = "config" => Configuring
                 /\ x.op = "ni" => Responding
                 /\ x.op = "aiding" => Deleting
                 /\ x.op \in Kinds \cup {"client"}
    BY <1>6, SentFacts
  <2>3. /\ StopComes(s) => StopComes(s)'
        /\ StartComes(s)' => StartComes(s) \/ (x.op = "start" /\ x.id = s)
        /\ x.op = "stop" /\ x.id = s => StopComes(s)'
    <3>1. /\ 1 .. Len(queue') = 1 .. Len(queue) \cup {Len(queue) + 1}
          /\ \A j \in 1 .. Len(queue) : queue'[j] = queue[j]
          /\ queue'[Len(queue) + 1] = x
      BY <2>2 DEF Appends
    <3> QED BY <3>1 DEF StopComes, StartComes
  <2>4. CASE x.op = "start"
    <3>1. ~mTracking /\ mTracking' /\ started' = started \cup {nextId + 1} /\ Session("tracking")' = nextId + 1
      BY <2>2, <2>4 DEF Starting, Renewing
    <3>2. CASE s = nextId + 1
      BY <3>1, <3>2 DEF Wished
    <3>3. CASE s \in started /\ s # nextId + 1
      <4>1. Runs(s)
        BY <1>1, <2>1, <2>2, <2>3, <2>4, <3>3 DEF Runs
      <4>2. StopComes(s)
        BY <1>2, <3>1, <3>3, <4>1 DEF Wished
      <4> QED BY <2>3, <4>2 DEF Wished
    <3> QED BY <3>1, <3>2, <3>3
  <2>5. CASE x.op # "start"
    <3>1. Runs(s)
      BY <1>1, <2>1, <2>3, <2>5 DEF Runs
    <3>2. CASE x.op = "stop"
      <4>1. started' = started
        BY <2>2, <3>2 DEF Stopping
      <4> QED BY <1>1, <1>2, <2>2, <2>3, <3>1, <3>2, <4>1 DEF Wished
    <3>3. CASE x.op # "stop"
      <4>1. mTracking' = mTracking /\ started' = started /\ Session("tracking")' = Session("tracking")
        BY <1>0, <2>2, <2>5, <3>3 DEF Registering, Enabling, Updating, Disabling, Configuring,
           Responding, Deleting,
           Asking, Renewing, Kinds, Session
      <4> QED BY <1>3, <2>3, <3>1, <4>1
    <3> QED BY <3>2, <3>3
  <2> QED BY <2>4, <2>5
<1>7. CASE (Answers \/ Ignores) /\ Handled /\ ClientKept
  <2>1. Shrinks /\ rq' = rq
    BY <1>7, HandlingFacts
  <2>2. mTracking' = mTracking /\ started' = started /\ Session("tracking")' = Session("tracking")
    BY <1>7, <2>1 DEF ClientKept, Session
  <2>3. /\ StartComes(s)' => \E j \in 1 .. Len(queue) : j > 1 /\ queue[j].op = "start" /\ queue[j].id = s
        /\ StopComes(s) => StopComes(s)' \/ (message.op = "stop" /\ message.id = s)
    <3>1. ASSUME NEW j \in 1 .. Len(queue') PROVE j + 1 > 1 /\ j + 1 \in 1 .. Len(queue) /\ queue'[j] = queue[j + 1]
      BY <2>1 DEF Shrinks
    <3>2. ASSUME NEW j \in 1 .. Len(queue), j # 1 PROVE j - 1 \in 1 .. Len(queue') /\ queue'[j - 1] = queue[j]
      <4>1. j - 1 \in 1 .. Len(queue') /\ (j - 1) + 1 = j
        BY <2>1, <3>2 DEF Shrinks
      <4> QED BY <4>1, <2>1 DEF Shrinks
    <3>3. queue[1] = message
      BY <2>1 DEF Shrinks
    <3> QED BY <3>1, <3>2, <3>3 DEF StartComes, StopComes
  <2>4. CASE message.op = "stop" /\ message.id = s
    <3>1. s \notin sessions' \ refused'
      BY <1>7, <2>4 DEF Handled
    <3>2. ~StartComes(s)'
      <4>1. SUFFICES ASSUME NEW j \in 1 .. Len(queue), j > 1, queue[j].op = "start", queue[j].id = s PROVE FALSE
        BY <2>3
      <4>2. j <= 1
        BY <2>1, <2>4, <4>1 DEF OrderInv, StartsFirst, Shrinks, TrackOps
      <4> QED BY <4>1, <4>2
    <3> QED BY <1>1, <3>1, <3>2 DEF Runs
  <2>5. CASE ~(message.op = "stop" /\ message.id = s)
    <3>1. Runs(s)
      <4>1. CASE StartComes(s)'
        BY <4>1, <2>3 DEF Runs, StartComes
      <4>2. CASE s \in sessions' \ refused'
        <5>1. s \in sessions \ refused \/ (message.op = "start" /\ message.id = s)
          BY <1>7, <4>2 DEF Handled
        <5>2. message.op = "start" /\ message.id = s => StartComes(s)
          BY <2>1 DEF StartComes, Shrinks
        <5> QED BY <5>1, <5>2 DEF Runs
      <4> QED BY <1>1, <4>1, <4>2 DEF Runs
    <3> QED BY <1>3, <2>2, <2>3, <2>5, <3>1
  <2> QED BY <2>4, <2>5
<1>8. CASE (Calls \/ getRequest \/ onResponse) /\ ClientKept
  <2>1. UNCHANGED <<queue, sessions, refused, mTracking, started>> /\ Session("tracking")' = Session("tracking")
    BY <1>0, <1>8, GetFacts DEF ClientKept, Calls, onResponse, adapterSide,
       adapterVars, Misses, Finds, Session
  <2> QED BY <2>1, <1>4
<1> QED BY <1>4, <1>5, <1>6, <1>7, <1>8, StepCases DEF Resting, Session

\* Who has a callback object keeps one.
LEMMA FaceStep ==
  ASSUME ClientTypes, IdsInv, ClientlessInv, [ClientNext]_clientVars
  PROVE  cbIface # None => cbIface' # None
<1>1. cbIface # None => iface # None
  BY DEF ClientTypes, BinderType, Faces, ClientBounds, None
<1>2. CASE binderThread
  <2>1. cbIface' = cbIface \/ cbIface' = iface
    BY <1>2 DEF binderThread, setCallback, setGnssNiCb, getApi,
       updateCallbacks, locAPIEnable,
       requestCapabilities, serviceDied, locAPIStartTracking,
       locAPIStopTracking,
       locAPIUpdateTrackingOptions, locAPIDisable, locAPIGnssNiResponse,
       locAPIGnssDeleteAidingData, updateConfiguration, faceVars
  <2> QED BY <1>1, <2>1
<1>3. CASE adapterThread
  <2>1. cbIface' = cbIface
    BY <1>3, AdapterExchange DEF Answers, Ignores, Caches, cacheCapabilities,
       tellCapabilities,
       getRequest, onResponse, faceVars
  <2> QED BY <2>1
<1>4. CASE niNotify \/ UNCHANGED clientVars
  BY <1>4 DEF niNotify, clientSide, clientVars, faceVars
<1> QED BY <1>2, <1>3, <1>4 DEF ClientNext

LEMMA CallbacksStep ==
  ASSUME ClientTypes, IdsInv, ClientlessInv, CallbacksInv, [ClientNext]_clientVars
  PROVE  CallbacksInv'
<1>0. cbIface # None => cbIface' # None
  BY FaceStep
<1>1. CASE UNCHANGED <<queue, clientData, answer>>
  BY <1>0, <1>1 DEF CallbacksInv
<1>2. CASE Created
  <2>1. /\ UNCHANGED <<clientData, answer>> /\ cbIface' = iface
        /\ \A j \in 1 .. Len(queue') : queue'[j].op = "client" => queue'[j].arg = Callbacks
    BY <1>2 DEF Created, adapterVars, threadVars
  <2> QED BY <1>0, <2>1, CallbackFacts DEF CallbacksInv
<1>3. CASE Sends /\ AdapterKept
  <2>1. UNCHANGED <<clientData, answer>>
    BY <1>3 DEF AdapterKept, adapterVars, threadVars
  <2>2. PICK x : Appends(x) /\ (x.op = "client" => Registering /\ x.arg = Callbacks)
    BY <1>3, SentFacts
  <2>3. x.op = "client" /\ "tracking" \in x.arg => cbIface' # None
    BY <2>2, CallbackFacts DEF Registering
  <2>4. \A j \in 1 .. Len(queue') : queue'[j].op = "client" /\ "tracking" \in queue'[j].arg => cbIface' # None
    <3>1. ASSUME NEW j \in 1 .. Len(queue'), queue'[j].op = "client", "tracking" \in queue'[j].arg PROVE cbIface' # None
      <4>1. CASE j \in 1 .. Len(queue)
        BY <1>0, <2>2, <3>1, <4>1 DEF Appends, CallbacksInv
      <4>2. CASE j = Len(queue) + 1
        BY <2>2, <2>3, <3>1, <4>2 DEF Appends
      <4> QED BY <2>2, <4>1, <4>2 DEF Appends
    <3> QED BY <3>1
  <2> QED BY <1>0, <2>1, <2>4 DEF CallbacksInv
<1>4. CASE (Answers \/ Ignores) /\ Handled
  <2>1. Shrinks
    BY <1>4, HandlingFacts
  <2>2. \A j \in 1 .. Len(queue') : queue'[j].op = "client" /\ "tracking" \in queue'[j].arg => cbIface' # None
    BY <1>0, <2>1 DEF Shrinks, CallbacksInv
  <2>3. "tracking" \in clientData' => cbIface' # None
    <3>1. CASE message.op = "client"
      BY <1>0, <1>4, <2>1, <3>1 DEF Handled, Shrinks, CallbacksInv
    <3>2. CASE message.op # "client"
      BY <1>0, <1>4, <3>2 DEF Handled, CallbacksInv
    <3> QED BY <3>1, <3>2
  <2>4. answer'.kind = "start" /\ answer'.ok => cbIface' # None
    <3>1. CASE Answers
      BY <1>0, <1>4, <3>1 DEF Answers, Handled, CallbacksInv
    <3>2. CASE Ignores
      BY <1>0, <3>2 DEF Ignores, CallbacksInv
    <3> QED BY <1>4, <3>1, <3>2
  <2> QED BY <2>2, <2>3, <2>4 DEF CallbacksInv
<1>5. CASE Calls
  BY <1>1, <1>5 DEF Calls, adapterVars
<1>6. CASE getRequest \/ onResponse
  <2>1. UNCHANGED <<queue, clientData>> /\ (answer' = answer \/ answer' = Nothing)
    BY <1>6 DEF getRequest, onResponse, adapterSide, adapterVars
  <2>2. Nothing.kind # "start"
    BY DEF Nothing
  <2> QED BY <1>0, <1>1, <2>1, <2>2 DEF CallbacksInv
<1> QED BY <1>1, <1>2, <1>3, <1>4, <1>5, <1>6, StepCases DEF Resting

LEMMA StatusStep ==
  ASSUME ClientTypes, IdsInv, ClientlessInv, [ClientNext]_clientVars
  PROVE  status' = status \/ onResponse
<1>1. CASE binderThread
  BY <1>1 DEF binderThread, setCallback, setGnssNiCb, getApi,
     updateCallbacks, locAPIEnable,
     requestCapabilities, serviceDied, locAPIStartTracking, locAPIStopTracking,
     locAPIUpdateTrackingOptions, locAPIDisable, locAPIGnssNiResponse,
     locAPIGnssDeleteAidingData, updateConfiguration, seenVars
<1>2. CASE adapterThread
  <2>1. Answers \/ Ignores => status' = status
    BY DEF Answers, Ignores
  <2>2. Caches \/ getRequest => status' = status
    BY DEF Caches, cacheCapabilities, tellCapabilities, getRequest, seenVars
  <2> QED BY <1>2, <2>1, <2>2, AdapterExchange
<1>3. CASE niNotify \/ UNCHANGED clientVars
  BY <1>3 DEF niNotify, clientSide, clientVars, seenVars
<1> QED BY <1>1, <1>2, <1>3 DEF ClientNext

LEMMA ToldStep ==
  ASSUME ClientTypes, IdsInv, ClientlessInv, WaitingInv, TrackingMatch, CallbacksInv, RunIsTold, [ClientNext]_clientVars
  PROVE  RunIsTold'
<1> DEFINE mine == Session("tracking")
<1>0. /\ "tracking" \in Queues /\ started \subseteq started' /\ niCount <= niCount'
      /\ niCount \in Nat /\ niCount' \in Nat
  BY NumbersGrow DEF Queues
<1>1. SUFFICES ASSUME mTracking', mine' \in sessions'
               PROVE  /\ ~Confused(mine)' => status' \/ Reporting(mine)'
                      /\ at' = "respond" => request'.kind # "stop"
  BY DEF RunIsTold
<1>2. mine' = mine => (~Confused(mine)' => ~Confused(mine))
  BY <1>0 DEF Confused
<1>3. mTracking /\ mine \in sessions =>
         /\ ~Confused(mine) => status \/ Reporting(mine)
         /\ at = "respond" => request.kind # "stop"
  BY DEF RunIsTold
<1>4. status' = status \/ onResponse
  BY StatusStep
<1> HIDE DEF mine
<1>5. CASE UNCHANGED <<at, answer, request, sessions>> /\ mTracking' = mTracking /\ mine' = mine /\ status' = status
  <2>1. Reporting(mine)' <=> Reporting(mine)
    BY <1>5 DEF Reporting
  <2> QED BY <1>1, <1>2, <1>3, <1>5, <2>1
<1>6. CASE Resting /\ status' = status
  BY <1>5, <1>6 DEF Resting, mine, Session
<1>7. CASE Created /\ status' = status
  <2>1. mine' = mine /\ mTracking' = mTracking /\ UNCHANGED <<at, answer, request, sessions>>
    BY <1>0, <1>7 DEF Created, adapterVars, threadVars, mine
  <2> QED BY <2>1, <1>5, <1>7
<1>8. CASE Sends /\ AdapterKept /\ status' = status
  <2>1. UNCHANGED <<at, answer, request, sessions>>
    BY <1>8 DEF AdapterKept, adapterVars, threadVars
  <2>2. CASE Starting
    <3>1. mine' = nextId + 1
      BY <2>2 DEF Starting, Renewing, mine
    <3>2. nextId + 1 \notin sessions
      BY IdFacts
    <3> QED BY <1>1, <2>1, <3>1, <3>2
  <2>3. CASE Stopping
    BY <1>1, <2>3 DEF Stopping
  <2>4. CASE Sends /\ ~Starting /\ ~Stopping
    <3>1. mTracking' = mTracking /\ mine' = mine
      BY <1>0, <2>4 DEF Sends, Registering, Enabling, Updating, Disabling, Configuring, Responding,
         Deleting,
         Asking, Renewing, mine, Session
    <3> QED BY <1>5, <1>8, <2>1, <3>1
  <2> QED BY <1>8, <2>2, <2>3, <2>4
<1>9. CASE (Answers \/ Ignores) /\ Handled /\ ClientKept /\ status' = status
  <2>1. Shrinks /\ at = "idle" /\ rq' = rq
    BY <1>9, HandlingFacts
  <2>2. mTracking' = mTracking /\ mine' = mine /\ ~Reporting(mine)
    BY <1>9, <2>1 DEF ClientKept, mine, Session, Reporting
  <2>3. at' # "respond"
    BY <1>9 DEF Answers, Ignores
  <2>4. CASE mine \in sessions
    BY <1>1, <1>2, <1>3, <1>9, <2>2, <2>3, <2>4
  <2>5. CASE mine \notin sessions
    <3>1. message.op = "start" /\ message.id = mine /\ sessions' # sessions
      BY <1>1, <1>9, <2>2, <2>5 DEF Handled
    <3>2. answer'.ok /\ at' = "answer" /\ Answers
      BY <1>9, <3>1 DEF Handled, Ignores
    <3>3. Reporting(mine)'
      BY <2>2, <3>1, <3>2 DEF Reporting, Answers
    <3> QED BY <2>3, <3>3
  <2> QED BY <2>4, <2>5
<1>10. CASE Calls /\ ClientKept /\ status' = status
  <2>1. /\ UNCHANGED <<sessions, rq, answer, request, mTracking>> /\ at \in {"cache", "tell"}
        /\ at' \in {"tell", "idle", "answer"}
    BY <1>10 DEF Calls, Caches, cacheCapabilities, tellCapabilities, adapterVars,
       ClientKept
  <2>2. mine' = mine /\ ~Reporting(mine)
    BY <2>1 DEF mine, Session, Reporting
  <2> QED BY <1>1, <1>2, <1>3, <1>10, <2>1, <2>2
<1>11. CASE onResponse /\ ClientKept
  <2>1. /\ UNCHANGED <<sessions, rq, mTracking>> /\ at = "respond" /\ at' = "idle"
        /\ status' = CASE request.kind = "start" /\ answer.ok /\ cbIface # None -> TRUE
                       [] request.kind = "stop" /\ answer.ok /\ cbIface # None  -> FALSE
                       [] OTHER -> status
    BY <1>11 DEF onResponse, adapterSide, adapterVars
  <2>2. mine' = mine
    BY <2>1 DEF mine, Session
  <2>3. request.kind # "stop"
    BY <1>1, <1>3, <2>1, <2>2
  <2>4. Reporting(mine) => request.kind = "start" /\ answer.ok /\ cbIface # None
    BY <2>1 DEF Reporting, CallbacksInv
  <2>5. request.kind = "start" /\ answer.ok /\ cbIface # None => status' = TRUE
    BY <2>1, <2>3
  <2>6. ~(request.kind = "start" /\ answer.ok /\ cbIface # None) => status' = status
    BY <2>1, <2>3
  <2> QED BY <1>1, <1>2, <1>3, <2>1, <2>2, <2>4, <2>5, <2>6
<1>12. CASE getRequest /\ ClientKept
  <2>1. at = "answer" /\ UNCHANGED <<sessions, status, mTracking>>
    BY <1>12, GetFacts DEF adapterVars, ClientKept
  <2>2. mine' = mine
    BY <1>0, <1>12, GetFacts DEF Misses, Finds, mine, Session
  <2>3. ~Confused(mine)' /\ Reporting(mine) => Answering("tracking", TrackOps) /\ HeadWaits("tracking", TrackOps)
    <3>1. SUFFICES ASSUME ~Confused(mine)', Reporting(mine)
                   PROVE  Answering("tracking", TrackOps) /\ HeadWaits("tracking", TrackOps)
      OBVIOUS
    <3>2. Answering("tracking", TrackOps)
      BY <2>1, <3>1 DEF Reporting, Answering, TrackOps, mine
    <3>3. mine # None
      BY <3>1, IdFacts DEF Reporting, TrackOps
    <3> QED BY <1>2, <2>2, <3>1, <3>2, <3>3 DEF TrackingMatch, mine
  <2>4. CASE Misses /\ (queueOf(answer) \in Queues => Waiting(queueOf(answer)) = <<>>)
    <3>1. at' # "respond"
      BY <2>4 DEF Misses
    <3>2. ~Confused(mine)' => ~Reporting(mine)
      <4>1. SUFFICES ASSUME ~Confused(mine)', Reporting(mine) PROVE FALSE
        OBVIOUS
      <4>2. Waiting("tracking") # <<>> /\ answer.kind \in TrackOps /\ Session("tracking") = answer.id
        BY <2>3, <4>1 DEF HeadWaits, Answering
      <4>3. queueOf(answer) = "tracking"
        <5>1. rq \in [Queues -> RequestQueue]
          BY DEF ClientTypes, QueueType, RequestQueue
        <5> QED BY <5>1, <4>2, QueueOfFacts
      <4> QED BY <1>0, <2>4, <4>2, <4>3
    <3> QED BY <1>1, <1>2, <1>3, <2>1, <2>2, <3>1, <3>2
  <2>5. ASSUME NEW c \in Queues, Finds(c), c = "tracking" \/ ~(answer.kind \in TrackOps /\ Session("tracking") = answer.id)
        PROVE  /\ ~Confused(mine)' => status' \/ Reporting(mine)'
               /\ at' = "respond" => request'.kind # "stop"
    <3>1. /\ request' = Head(Waiting(c)) /\ request' \in Elements(c)
          /\ at' = "respond" /\ answer' = answer
      BY <2>5, ElementsFacts DEF Finds, ClientTypes
    <3>2. request'.kind # "stop"
      <4>1. c = "tracking" \/ request'.kind \in VoteOps \cup {"ni", "aiding", "config"}
        BY <3>1, RequestFacts DEF WaitingInv, Queues
      <4>2. c = "tracking" => request'.kind # "stop"
        BY <1>1, <2>1, <3>1 DEF WaitingInv
      <4> QED BY <4>1, <4>2 DEF VoteOps
    <3>3. ~Confused(mine)' /\ Reporting(mine) => Reporting(mine)'
      <4>1. SUFFICES ASSUME ~Confused(mine)', Reporting(mine) PROVE Reporting(mine)'
        OBVIOUS
      <4>2. /\ answer.kind = "start" /\ Answering("tracking", TrackOps)
            /\ Head(Waiting("tracking")) = Request(answer.kind, Session("tracking"))
        BY <2>3, <4>1 DEF HeadWaits, Reporting
      <4>3. c = "tracking"
        BY <2>5, <4>2 DEF Answering
      <4>4. request'.kind = "start"
        BY <3>1, <4>2, <4>3, RequestFacts
      <4> QED BY <2>2, <3>1, <4>1, <4>4 DEF Reporting
    <3> QED BY <1>1, <1>2, <1>3, <2>1, <2>2, <3>2, <3>3
  <2>6. /\ "ni" \in Queues /\ "aiding" \in Queues /\ "control" \in Queues /\ "config" \in Queues
        /\ (VoteOps \cup {"aiding", "config"}) \cap TrackOps = {}
    BY DEF Queues, VoteOps, TrackOps
  <2> QED BY <1>0, <1>12, <2>4, <2>5, <2>6, GetFacts
<1>13. onResponse => at = "respond" /\ at' = "idle"
  BY DEF onResponse
<1>14. Resting \/ Created \/ (Sends /\ AdapterKept) => at' = at
  BY DEF Resting, Created, AdapterKept, threadVars
<1>15. Answers \/ Ignores \/ Calls \/ getRequest => at # "respond"
  BY DEF Answers, Ignores, Handling, Calls, Caches, cacheCapabilities, tellCapabilities,
     getRequest
<1>16. status' \in BOOLEAN /\ (~onResponse => status' = status)
  <2>1. status' \in BOOLEAN /\ status \in BOOLEAN
    BY TypesStep DEF ClientTypes, BinderType
  <2> QED BY <1>4, <2>1
<1>17. CASE onResponse
  BY <1>11, <1>13, <1>14, <1>15, <1>17, StepCases
<1>18. CASE ~onResponse
  BY <1>6, <1>7, <1>8, <1>9, <1>10, <1>12, <1>16, <1>18, StepCases
<1> QED BY <1>17, <1>18

----------------------------------------------------------------------------
(* Power votes *)

LEMMA VoteKept ==
  ASSUME ClientTypes, power' = power, NEW k \in 1 .. Len(queue) + 1, NEW p,
         \A j \in 1 .. k - 1 : queue'[j] = queue[j], VoteAt(k, p)
  PROVE  VoteAt(k, p)'
<1>1. k \in Nat /\ \A j \in 1 .. k - 1 : IsVote(j)' <=> IsVote(j)
  BY DEF IsVote, ClientTypes, QueueType
<1>2. \A j \in 1 .. k - 1 : \A i \in j + 1 .. k - 1 : i \in 1 .. k - 1
  BY <1>1
<1> QED BY <1>1, <1>2 DEF VoteAt

LEMMA VoteShift ==
  ASSUME ClientTypes, Shrinks, NEW k \in 1 .. Len(queue), NEW p, VoteAt(k + 1, p),
         power' = CASE message.op = "enable" -> message.id [] message.op = "disable" -> None [] OTHER -> power
  PROVE  VoteAt(k, p)'
<1>1. /\ k \in Nat /\ Len(queue) \in Nat /\ k + 1 - 1 = k /\ queue[1] = message
      /\ \A j \in 1 .. k - 1 : queue'[j] = queue[j + 1] /\ j + 1 \in 1 .. k
  BY DEF Shrinks
<1>2. \A j \in 1 .. k - 1 : IsVote(j)' <=> IsVote(j + 1)
  BY <1>1 DEF IsVote
<1>3. ASSUME NEW j \in 1 .. k - 1, IsVote(j)', \A i \in j + 1 .. k - 1 : ~IsVote(i)'
      PROVE  p = (IF queue'[j].op = "enable" THEN queue'[j].id ELSE None)
  <2>1. j + 1 \in 1 .. k /\ IsVote(j + 1) /\ queue'[j] = queue[j + 1]
    BY <1>1, <1>2, <1>3
  <2>2. \A i \in (j + 1) + 1 .. k : ~IsVote(i)
    <3>1. ASSUME NEW i \in (j + 1) + 1 .. k PROVE ~IsVote(i)
      <4>0. k \in Nat /\ j \in Nat /\ j >= 1
        BY <1>1
      <4>1. i - 1 \in j + 1 .. k - 1 /\ i - 1 \in 1 .. k - 1 /\ (i - 1) + 1 = i
        BY <4>0, <3>1
      <4> QED BY <4>1, <1>2, <1>3
    <3> QED BY <3>1
  <2> QED BY <2>1, <2>2, <1>1 DEF VoteAt
<1>4. ASSUME \A j \in 1 .. k - 1 : ~IsVote(j)' PROVE p = power'
  <2>1. \A i \in 2 .. k : ~IsVote(i)
    <3>1. ASSUME NEW i \in 2 .. k PROVE ~IsVote(i)
      <4>1. i - 1 \in 1 .. k - 1 /\ (i - 1) + 1 = i
        BY <1>1, <3>1
      <4> QED BY <4>1, <1>2, <1>4
    <3> QED BY <3>1
  <2>2. CASE IsVote(1)
    <3>1. 1 \in 1 .. k /\ \A i \in 1 + 1 .. k : ~IsVote(i)
      BY <1>1, <2>1
    <3>2. p = (IF message.op = "enable" THEN message.id ELSE None)
      BY <1>1, <2>2, <3>1 DEF VoteAt
    <3>3. message.op \in VoteOps
      BY <1>1, <2>2 DEF IsVote
    <3> QED BY <3>2, <3>3 DEF VoteOps
  <2>3. CASE ~IsVote(1)
    <3>1. \A i \in 1 .. k : ~IsVote(i)
      <4>1. \A i \in 1 .. k : i = 1 \/ i \in 2 .. k
        BY <1>1
      <4> QED BY <2>1, <2>3, <4>1
    <3>2. p = power
      BY <1>1, <3>1 DEF VoteAt
    <3>3. message.op \notin VoteOps
      BY <1>1, <2>3 DEF IsVote
    <3> QED BY <3>2, <3>3 DEF VoteOps
  <2> QED BY <2>2, <2>3
<1>5. VoteAt(k, p)' <=> /\ \A j \in 1 .. k - 1 :
                             IsVote(j)' /\ (\A i \in j + 1 .. k - 1 : ~IsVote(i)')
                                => p = (IF queue'[j].op = "enable" THEN queue'[j].id ELSE None)
                        /\ (\A j \in 1 .. k - 1 : ~IsVote(j)') => p = power'
  BY DEF VoteAt
<1> QED BY <1>3, <1>4, <1>5

LEMMA VoteAdded ==
  ASSUME ClientTypes, power' = power, NEW x, Appends(x),
         NEW k, NEW e, NEW p, e = Len(queue) + 1, k = Len(queue) + 2,
         x.op \in VoteOps => p = (IF x.op = "enable" THEN x.id ELSE None),
         x.op \notin VoteOps => VoteAt(e, p)
  PROVE  VoteAt(k, p)'
<1>0. PICK n : n = Len(queue)
  OBVIOUS
<1>1. /\ n \in Nat /\ k - 1 = e /\ e - 1 = n /\ e = n + 1 /\ queue'[e] = x
      /\ \A j \in 1 .. n : queue'[j] = queue[j]
  BY <1>0 DEF Appends
<1>2. /\ \A j \in 1 .. n : IsVote(j)' <=> IsVote(j)
      /\ IsVote(e)' <=> x.op \in VoteOps
  BY <1>1 DEF IsVote
<1>3. /\ \A j \in 1 .. e : j \in 1 .. n \/ j = e
      /\ e \in 1 .. e
      /\ \A j \in 1 .. n : j \in 1 .. e /\ e \in j + 1 .. e
      /\ \A j \in 1 .. n : \A i \in j + 1 .. n : i \in j + 1 .. e /\ i \in 1 .. n
  BY <1>1
<1>4. x.op \notin VoteOps =>
         /\ \A j \in 1 .. n : IsVote(j) /\ (\A i \in j + 1 .. n : ~IsVote(i))
                 => p = (IF queue[j].op = "enable" THEN queue[j].id ELSE None)
         /\ (\A j \in 1 .. n : ~IsVote(j)) => p = power
  BY <1>1 DEF VoteAt
<1>5. ASSUME NEW j \in 1 .. e, IsVote(j)', \A i \in j + 1 .. e : ~IsVote(i)'
      PROVE  p = (IF queue'[j].op = "enable" THEN queue'[j].id ELSE None)
  <2>1. CASE j = e
    BY <1>1, <1>2, <1>5, <2>1
  <2>2. CASE j \in 1 .. n
    <3>1. ~IsVote(e)' /\ x.op \notin VoteOps /\ IsVote(j)
      BY <1>2, <1>3, <1>5, <2>2
    <3>2. \A i \in j + 1 .. n : ~IsVote(i)
      BY <1>2, <1>3, <1>5, <2>2
    <3> QED BY <1>1, <1>4, <2>2, <3>1, <3>2
  <2> QED BY <1>3, <1>5, <2>1, <2>2
<1>6. ASSUME \A j \in 1 .. e : ~IsVote(j)' PROVE p = power'
  <2>1. x.op \notin VoteOps /\ \A j \in 1 .. n : ~IsVote(j)
    BY <1>2, <1>3, <1>6
  <2> QED BY <1>4, <2>1
<1>7. VoteAt(k, p)' <=> /\ \A j \in 1 .. e :
                             IsVote(j)' /\ (\A i \in j + 1 .. e : ~IsVote(i)')
                                => p = (IF queue'[j].op = "enable" THEN queue'[j].id ELSE None)
                        /\ (\A j \in 1 .. e : ~IsVote(j)') => p = power'
  BY <1>1 DEF VoteAt
<1> QED BY <1>5, <1>6, <1>7

LEMMA VotesStep ==
  ASSUME ClientTypes, IdsInv, ClientlessInv, VotesInv, [ClientNext]_clientVars
  PROVE  VotesInv'
<1> DEFINE believed == IF mEnabled THEN Session("control") ELSE None
           n == Len(queue)
<1>0. "control" \in Queues /\ n \in Nat /\ VoteOps = {"enable", "disable"}
  BY DEF Queues, ClientTypes, QueueType, VoteOps
<1>1. /\ VoteAt(n + 1, believed)
      /\ \A k \in 1 .. n : /\ queue[k].op = "enable" => VoteAt(k, None)
                           /\ queue[k].op = "disable" => VoteAt(k, queue[k].id)
  BY DEF VotesInv
<1>2. SUFFICES /\ \E k, p : k = n' + 1 /\ p = believed' /\ VoteAt(k, p)'
               /\ \A k \in 1 .. n' : /\ queue'[k].op = "enable" => VoteAt(k, None)'
                                     /\ queue'[k].op = "disable" => \E p : p = queue'[k].id /\ VoteAt(k, p)'
  BY DEF VotesInv, VoteAt, IsVote, None
<1> HIDE DEF believed, n
<1>3. CASE queue' = queue /\ power' = power /\ believed' = believed
  <2>1. \A k \in 1 .. n + 1 : \A p : VoteAt(k, p) => VoteAt(k, p)'
    BY <1>3, VoteKept DEF n
  <2>2. n' = n /\ n + 1 \in 1 .. n + 1 /\ \A k \in 1 .. n : k \in 1 .. n + 1
    BY <1>0, <1>3 DEF n
  <2> QED BY <1>1, <1>3, <2>1, <2>2
<1>4. CASE Created
  <2>1. /\ queue = <<>> /\ ~mEnabled /\ mEnabled' = mEnabled /\ power' = power
        /\ \A j \in 1 .. Len(queue') : queue'[j].op \notin VoteOps
    BY <1>4 DEF Created, ClientlessInv, adapterVars, VoteOps
  <2>2. n = 0 /\ believed = None /\ believed' = None /\ queue' \in Seq(AnyMsg)
    BY <1>4, <2>1 DEF n, believed, Created, None
  <2>3. power = None
    <3>1. n + 1 = 1 /\ 1 .. 1 - 1 = {}
      BY <2>2
    <3>2. VoteAt(1, None)
      BY <1>1, <2>2, <3>1
    <3> QED BY <3>1, <3>2 DEF VoteAt
  <2>4. PICK k : k = n' + 1
    OBVIOUS
  <2>5. k - 1 = Len(queue') /\ Len(queue') \in Nat
    BY <2>2, <2>4 DEF n
  <2>6. VoteAt(k, None)'
    <3>1. \A j \in 1 .. k - 1 : ~IsVote(j)'
      BY <2>1, <2>5 DEF IsVote
    <3> QED BY <2>1, <2>3, <3>1 DEF VoteAt, None
  <2>7. \A j \in 1 .. n' : queue'[j].op \notin {"enable", "disable"}
    BY <1>0, <2>1 DEF n
  <2> QED BY <2>2, <2>4, <2>6, <2>7
<1>5. CASE Sends /\ AdapterKept
  <2>1. power' = power
    BY <1>5 DEF AdapterKept, adapterVars
  <2>2. PICK x : /\ Appends(x)
                 /\ x.op = "start" => Starting
                 /\ x.op = "stop" => Stopping
                 /\ x.op = "update" => Updating
                 /\ x.op = "enable" => Enabling /\ x.id = nextId + 1
                 /\ x.op = "disable" => Disabling /\ x.id = Session("control")
                 /\ x.op = "client" => Registering
                 /\ x.op = "config" => Configuring
                 /\ x.op = "ni" => Responding
                 /\ x.op = "aiding" => Deleting
                 /\ x.op \in Kinds \cup {"client"}
    BY <1>5, SentFacts
  <2>3. n' = n + 1 /\ queue'[n + 1] = x /\ \A j \in 1 .. n : queue'[j] = queue[j]
    BY <2>2 DEF Appends, n
  <2>4. \A k \in 1 .. n + 1 : \A p : VoteAt(k, p) => VoteAt(k, p)'
    <3>1. \A k \in 1 .. n + 1 : \A j \in 1 .. k - 1 : queue'[j] = queue[j]
      BY <1>0, <2>3
    <3> QED BY <2>1, <3>1, VoteKept DEF n
  <2>5. /\ x.op = "enable" => believed = None
        /\ x.op = "disable" => believed = x.id
    BY <2>2 DEF believed, Enabling, Disabling
  <2>6. \A k \in 1 .. n' : /\ queue'[k].op = "enable" => VoteAt(k, None)'
                           /\ queue'[k].op = "disable" => \E p : p = queue'[k].id /\ VoteAt(k, p)'
    <3>1. ASSUME NEW k \in 1 .. n'
          PROVE  /\ queue'[k].op = "enable" => VoteAt(k, None)'
                 /\ queue'[k].op = "disable" => \E p : p = queue'[k].id /\ VoteAt(k, p)'
      <4>1. CASE k \in 1 .. n
        <5>1. k \in 1 .. n + 1 /\ queue'[k] = queue[k]
          BY <1>0, <2>3, <4>1
        <5> QED BY <1>1, <2>4, <4>1, <5>1
      <4>2. CASE k = n + 1
        <5>1. VoteAt(k, believed) /\ k \in 1 .. n + 1 /\ queue'[k] = x
          BY <1>0, <1>1, <2>3, <4>2
        <5>2. VoteAt(k, believed)  => \A p : p = believed => VoteAt(k, p)'
          BY <2>4, <5>1
        <5> QED BY <2>5, <5>1, <5>2
      <4> QED BY <1>0, <2>3, <4>1, <4>2
    <3> QED BY <3>1
  <2>7. \E k, p : k = n' + 1 /\ p = believed' /\ VoteAt(k, p)'
    <3>1. PICK k, e, p : k = n + 2 /\ e = n + 1 /\ p = believed'
      OBVIOUS
    <3>2. k = n' + 1
      BY <1>0, <2>3, <3>1
    <3>3. x.op = "enable" => p = x.id
      BY <1>0, <2>2, <3>1 DEF believed, Enabling, Renewing
    <3>4. x.op = "disable" => p = None
      BY <2>2, <3>1 DEF believed, Disabling
    <3>5. x.op \notin VoteOps => p = believed
      <4>1. SUFFICES ASSUME x.op \notin VoteOps PROVE p = believed
        OBVIOUS
      <4>2. Registering \/ Starting \/ Stopping \/ Updating \/ Configuring \/ Responding \/ Deleting
        BY <1>0, <2>2, <4>1 DEF Kinds
      <4>3. (mEnabled' <=> mEnabled) /\ Session("control")' = Session("control")
        BY <1>0, <4>2 DEF Registering, Starting, Stopping, Updating, Configuring, Responding, Deleting,
           Asking, Renewing, Session, Queues
      <4> QED BY <3>1, <4>3 DEF believed
    <3>6. x.op \notin VoteOps => VoteAt(e, p)
      BY <1>1, <3>1, <3>5
    <3>7. x.op \in VoteOps => p = (IF x.op = "enable" THEN x.id ELSE None)
      BY <1>0, <3>3, <3>4
    <3>8. VoteAt(k, p)'
      BY <2>1, <2>2, <3>1, <3>6, <3>7, VoteAdded DEF n
    <3> QED BY <3>1, <3>2, <3>8
  <2> QED BY <2>6, <2>7
<1>6. CASE (Answers \/ Ignores) /\ Handled /\ ClientKept
  <2>1. Shrinks /\ rq' = rq
    BY <1>6, HandlingFacts
  <2>2. believed' = believed
    BY <1>6, <2>1 DEF ClientKept, believed, Session
  <2>3. power' = CASE message.op = "enable" -> message.id [] message.op = "disable" -> None [] OTHER -> power
    <3>1. /\ message.op = "enable" => VoteAt(1, None)
          /\ message.op = "disable" => VoteAt(1, message.id)
      BY <1>1, <2>1 DEF Shrinks, n
    <3>2. \A p : VoteAt(1, p) => p = power
      <4>1. 1 .. 1 - 1 = {}
        OBVIOUS
      <4> QED BY <4>1 DEF VoteAt
    <3>3. message.op = "enable" => power = None
      BY <3>1, <3>2
    <3>4. message.op = "disable" => power = message.id
      BY <3>1, <3>2
    <3> QED BY <1>6, <3>3, <3>4 DEF Handled
  <2>4. \A k \in 1 .. n : \A p : VoteAt(k + 1, p) => VoteAt(k, p)'
    BY <2>1, <2>3, VoteShift DEF n
  <2>5. n' = n - 1 /\ n >= 1 /\ \A k \in 1 .. n' : queue'[k] = queue[k + 1] /\ k + 1 \in 1 .. n /\ k \in 1 .. n
    BY <1>0, <2>1 DEF n, Shrinks
  <2>6. n' + 1 \in 1 .. n /\ n' + 1 = n
    BY <1>0, <2>5
  <2> QED BY <1>1, <2>2, <2>4, <2>5, <2>6
<1>7. CASE (Calls \/ getRequest \/ onResponse) /\ ClientKept
  <2>1. UNCHANGED <<queue, power, mEnabled>> /\ Session("control")' = Session("control")
    BY <1>0, <1>7, GetFacts DEF ClientKept, Calls, onResponse, adapterSide,
       adapterVars, Misses, Finds, Session
  <2> QED BY <2>1, <1>3 DEF believed
<1>8. Resting => queue' = queue /\ power' = power /\ believed' = believed
  BY DEF Resting, believed, Session
<1> QED BY <1>3, <1>4, <1>5, <1>6, <1>7, <1>8, StepCases

----------------------------------------------------------------------------
(* Capabilities *)

EarlyTodos == {<<"getApi", "update", "enable", "capabilities">>, <<"update", "enable", "capabilities">>}
LateTodos == EarlyTodos \cup {<<"enable", "capabilities">>, <<"capabilities">>}

LEMMA EarlyFacts ==
  /\ <<>> \notin LateTodos /\ EarlyTodos \subseteq LateTodos
  /\ \A t \in {<<"stop", "disable">>, <<"disable">>, <<"getApi", "update">>, <<"update">>} : t \notin LateTodos
  /\ \A t \in {<<"enable", "capabilities">>, <<"capabilities">>} : t \notin EarlyTodos
  BY DEF EarlyTodos, LateTodos

LEMMA BinderCapabilities ==
  ASSUME ClientTypes, CapabilitiesInv, binderThread
  PROVE  CapabilitiesInv'
<1>1. /\ cbIface # iface => todo \in EarlyTodos
      /\ cached /\ iface # None => iface \in told \/ todo \in LateTodos \/ (at = "tell" /\ cbIface = iface)
  BY DEF CapabilitiesInv, EarlyTodos, LateTodos
<1>2. SUFFICES /\ cbIface' # iface' => todo' \in EarlyTodos
               /\ cached' /\ iface' # None =>
                     iface' \in told' \/ todo' \in LateTodos \/ (at' = "tell" /\ cbIface' = iface')
  BY DEF CapabilitiesInv, EarlyTodos, LateTodos
<1>3. todo \in Todos
  BY DEF ClientTypes, BinderType
<1> DEFINE here == UNCHANGED <<iface, cached, at>>
<1>4. CASE setCallback
  <2>1. todo' \in EarlyTodos
    BY <1>4 DEF setCallback, EarlyTodos
  <2> QED BY <2>1, EarlyFacts
<1>5. CASE setGnssNiCb \/ serviceDied
  <2>1. todo \notin LateTodos /\ here /\ UNCHANGED <<told, cbIface>>
    BY <1>3, <1>5, TodoFacts, EarlyFacts DEF setGnssNiCb, serviceDied, ApiCalled,
       Called,
       faceVars, threadVars, seenVars
  <2> QED BY <1>1, <2>1, EarlyFacts
<1>6. CASE getApi
  <2>1. here /\ told' = told /\ (cbIface' = cbIface \/ cbIface' = iface)
    BY <1>6 DEF getApi, threadVars, seenVars
  <2>2. (todo \in EarlyTodos /\ todo' \in EarlyTodos) \/ todo \notin LateTodos
    <3>1. /\ todo' = Tail(todo)
          /\ \/ /\ todo = <<"getApi", "update", "enable", "capabilities">>
                /\ Tail(todo) = <<"update", "enable", "capabilities">>
             \/ todo = <<"getApi", "update">>
      BY <1>3, <1>6, TodoFacts DEF getApi, Done
    <3> QED BY <3>1, EarlyFacts DEF EarlyTodos, LateTodos
  <2> QED BY <1>1, <2>1, <2>2, EarlyFacts
<1>7. CASE updateCallbacks
  <2>1. here /\ told' = told /\ cbIface' = iface
    BY <1>7 DEF updateCallbacks, threadVars, seenVars
  <2>2. (todo \in EarlyTodos /\ todo' \in LateTodos) \/ todo \notin LateTodos
    <3>1. /\ todo' = Tail(todo)
          /\ \/ todo = <<"update", "enable", "capabilities">> /\ Tail(todo) = <<"enable", "capabilities">>
             \/ todo = <<"update">>
      BY <1>3, <1>7, TodoFacts DEF updateCallbacks, Done
    <3> QED BY <3>1, EarlyFacts DEF EarlyTodos, LateTodos
  <2> QED BY <1>1, <2>1, <2>2, EarlyFacts
<1>8. CASE locAPIEnable
  <2>1. here /\ told' = told /\ cbIface' = cbIface
    BY <1>8 DEF locAPIEnable, threadVars, seenVars, faceVars
  <2>2. todo \notin EarlyTodos /\ todo' \in LateTodos
    BY <1>3, <1>8, TodoFacts DEF locAPIEnable, Done, EarlyTodos, LateTodos
  <2> QED BY <1>1, <2>1, <2>2
<1>9. CASE requestCapabilities
  <2>1. here /\ cbIface' = cbIface /\ told' = (IF cached THEN told \cup {cbIface} ELSE told)
    BY <1>9 DEF requestCapabilities, threadVars, faceVars
  <2>2. todo \notin EarlyTodos
    BY <1>3, <1>9, TodoFacts DEF requestCapabilities, EarlyTodos
  <2> QED BY <1>1, <2>1, <2>2
<1>10. CASE \/ locAPIStartTracking \/ locAPIStopTracking \/ locAPIUpdateTrackingOptions \/ locAPIDisable
            \/ locAPIGnssNiResponse \/ locAPIGnssDeleteAidingData \/ updateConfiguration
  <2>1. here /\ UNCHANGED <<told, cbIface>>
    BY <1>10 DEF locAPIStartTracking, locAPIStopTracking,
       locAPIUpdateTrackingOptions, locAPIDisable,
       locAPIGnssNiResponse, locAPIGnssDeleteAidingData, updateConfiguration,
       threadVars, seenVars, faceVars
  <2>2. Idle \/ Doing("stop") \/ Doing("disable")
    BY <1>10 DEF locAPIStartTracking, locAPIStopTracking,
       locAPIUpdateTrackingOptions, locAPIDisable,
       locAPIGnssNiResponse, locAPIGnssDeleteAidingData, updateConfiguration,
       ApiCalled, Called
  <2>3. todo \notin LateTodos
    BY <1>3, <2>2, TodoFacts, EarlyFacts
  <2> QED BY <1>1, <2>1, <2>3, EarlyFacts
<1> QED BY <1>4, <1>5, <1>6, <1>7, <1>8, <1>9, <1>10 DEF binderThread

LEMMA AdapterCapabilities ==
  ASSUME ClientTypes, IdsInv, CapabilitiesInv, adapterThread
  PROVE  CapabilitiesInv'
<1>1. UNCHANGED <<iface, todo>>
  BY AdapterExchange DEF ClientKept, hidlVars
<1>2. cbIface' = cbIface
  <2>1. Answers \/ Ignores => cbIface' = cbIface
    BY DEF Answers, Ignores
  <2>2. Caches => cbIface' = cbIface
    BY DEF Caches, cacheCapabilities, tellCapabilities, faceVars
  <2>3. getRequest \/ onResponse => cbIface' = cbIface
    BY GetFacts DEF onResponse, faceVars
  <2> QED BY <2>1, <2>2, <2>3, AdapterExchange
<1>3. CASE Answers \/ Ignores \/ getRequest \/ onResponse
  <2>1. Answers \/ Ignores => UNCHANGED <<cached, told>> /\ at # "tell"
    BY DEF Answers, Ignores, Handling
  <2>2. getRequest => UNCHANGED <<cached, told>> /\ at # "tell"
    BY GetFacts
  <2>3. onResponse => UNCHANGED <<cached, told>> /\ at # "tell"
    BY DEF onResponse, faceVars
  <2> QED BY <1>1, <1>2, <1>3, <2>1, <2>2, <2>3 DEF CapabilitiesInv
<1>4. CASE cacheCapabilities
  <2>1. at' = "tell" /\ told' = told
    BY <1>4 DEF cacheCapabilities, seenVars
  <2> QED BY <1>1, <1>2, <2>1 DEF CapabilitiesInv
<1>5. CASE tellCapabilities
  <2>1. told' = told \cup {cbIface} /\ cached' = cached
    BY <1>5 DEF tellCapabilities, faceVars
  <2> QED BY <1>1, <1>2, <2>1 DEF CapabilitiesInv
<1> QED BY <1>3, <1>4, <1>5, AdapterExchange DEF Caches

LEMMA CapabilitiesStep ==
  ASSUME ClientTypes, IdsInv, CapabilitiesInv, [ClientNext]_clientVars
  PROVE  CapabilitiesInv'
<1>1. CASE niNotify
  BY <1>1 DEF CapabilitiesInv, niNotify, clientSide, hidlVars, faceVars,
     seenVars, silent, threadVars
<1>2. CASE UNCHANGED clientVars
  BY <1>2 DEF CapabilitiesInv, clientVars, hidlVars, faceVars, seenVars,
     threadVars
<1> QED BY <1>1, <1>2, BinderCapabilities, AdapterCapabilities DEF ClientNext

----------------------------------------------------------------------------
(* Configuration *)

\* What ConfigInv says of one item.
LastSets(f) ==
    \A j \in 1 .. Len(queue) :
        Sets(j, f) /\ (\A i \in j + 1 .. Len(queue) : ~Sets(i, f)) => queue[j].arg[f] = due[f]
NoneSets(f) == \A j \in 1 .. Len(queue) : ~Sets(j, f)
ItemInv(f) ==
    /\ LastSets(f)
    /\ api /\ NoneSets(f) => inForce[f] = due[f]
    /\ api => mConfig[f] \in {0, due[f]}

LEMMA ItemsInv == ConfigInv <=> \A f \in Fields : ItemInv(f)
  BY DEF ConfigInv, ItemInv, LastSets, NoneSets

LEMMA ItemsNext == (\A f \in Fields : ItemInv(f)') => ConfigInv'
  BY DEF ConfigInv, ItemInv, LastSets, NoneSets

LEMMA SetsKept ==
  ASSUME NEW f, queue' = queue, due'[f] = due[f]
  PROVE  (LastSets(f) => LastSets(f)') /\ (NoneSets(f)' <=> NoneSets(f))
<1>1. PICK n : n = Len(queue)
  OBVIOUS
<1>2. n = Len(queue') /\ \A j \in 1 .. n : Sets(j, f)' <=> Sets(j, f)
  BY <1>1 DEF Sets
<1>3. \A j : Sets(j, f)' <=> Sets(j, f)
  BY DEF Sets
<1> QED BY <1>1, <1>2, <1>3 DEF LastSets, NoneSets

LEMMA SetsAdded ==
  ASSUME ClientTypes, NEW f, NEW x, Appends(x)
  PROVE  /\ ~(x.op = "config" /\ x.arg[f] # 0) /\ due'[f] = due[f] =>
              (LastSets(f) => LastSets(f)') /\ (NoneSets(f)' => NoneSets(f))
         /\ x.op = "config" /\ x.arg[f] # 0 /\ x.arg[f] = due'[f] => LastSets(f)' /\ ~NoneSets(f)'
<1>0. PICK n, e : n = Len(queue) /\ e = n + 1
  OBVIOUS
<1>1. /\ n \in Nat /\ Len(queue') = e /\ queue'[e] = x
      /\ \A j \in 1 .. n : queue'[j] = queue[j]
  BY <1>0 DEF Appends
<1>2. /\ \A j \in 1 .. n : Sets(j, f)' <=> Sets(j, f)
      /\ Sets(e, f)' <=> x.op = "config" /\ x.arg[f] # 0
  BY <1>1 DEF Sets
<1>3. /\ \A j \in 1 .. e : j \in 1 .. n \/ j = e
      /\ e \in 1 .. e
      /\ \A j \in 1 .. n : j \in 1 .. e /\ e \in j + 1 .. e
      /\ \A j \in 1 .. n : \A i \in j + 1 .. e : i = e \/ (i \in j + 1 .. n /\ i \in 1 .. n)
      /\ \A j \in 1 .. n : \A i \in j + 1 .. n : i \in j + 1 .. e /\ i \in 1 .. n
  BY <1>0, <1>1
<1>4. /\ LastSets(f) <=>
           \A j \in 1 .. n : Sets(j, f) /\ (\A i \in j + 1 .. n : ~Sets(i, f)) => queue[j].arg[f] = due[f]
      /\ NoneSets(f) <=> \A j \in 1 .. n : ~Sets(j, f)
  BY <1>0 DEF LastSets, NoneSets
<1>5. /\ LastSets(f)' <=>
           \A j \in 1 .. e : Sets(j, f)' /\ (\A i \in j + 1 .. e : ~Sets(i, f)') => queue'[j].arg[f] = due'[f]
      /\ NoneSets(f)' <=> \A j \in 1 .. e : ~Sets(j, f)'
  BY <1>1 DEF LastSets, NoneSets
<1>6. ASSUME ~(x.op = "config" /\ x.arg[f] # 0), due'[f] = due[f]
      PROVE  (LastSets(f) => LastSets(f)') /\ (NoneSets(f)' => NoneSets(f))
  <2>1. ~Sets(e, f)'
    BY <1>2, <1>6
  <2>2. ASSUME LastSets(f), NEW j \in 1 .. e, Sets(j, f)', \A i \in j + 1 .. e : ~Sets(i, f)'
        PROVE  queue'[j].arg[f] = due'[f]
    <3>1. j \in 1 .. n
      BY <1>3, <2>1, <2>2
    <3>2. Sets(j, f) /\ \A i \in j + 1 .. n : ~Sets(i, f)
      BY <1>2, <1>3, <2>2, <3>1
    <3> QED BY <1>1, <1>4, <1>6, <2>2, <3>1, <3>2
  <2> QED BY <1>2, <1>3, <1>4, <1>5, <2>2
<1>7. ASSUME x.op = "config", x.arg[f] # 0, x.arg[f] = due'[f]
      PROVE  LastSets(f)' /\ ~NoneSets(f)'
  <2>1. Sets(e, f)'
    BY <1>2, <1>7
  <2>2. ASSUME NEW j \in 1 .. e, Sets(j, f)', \A i \in j + 1 .. e : ~Sets(i, f)'
        PROVE  queue'[j].arg[f] = due'[f]
    <3>1. j = e
      BY <1>3, <2>1, <2>2
    <3> QED BY <1>1, <1>7, <3>1
  <2> QED BY <1>3, <1>5, <2>1, <2>2
<1> QED BY <1>6, <1>7

LEMMA SetsHandled ==
  ASSUME ClientTypes, NEW f, Shrinks, due' = due
  PROVE  /\ LastSets(f) => LastSets(f)'
         /\ NoneSets(f)' => \/ message.op = "config" /\ message.arg[f] # 0 /\ (LastSets(f) => message.arg[f] = due[f])
                            \/ ~(message.op = "config" /\ message.arg[f] # 0) /\ NoneSets(f)
<1>0. PICK n, l : n = Len(queue) /\ l = Len(queue')
  OBVIOUS
<1>1. /\ n \in Nat /\ l = n - 1 /\ n >= 1 /\ queue[1] = message
      /\ \A j \in 1 .. l : queue'[j] = queue[j + 1] /\ j + 1 \in 1 .. n
  BY <1>0 DEF Shrinks
<1>2. /\ \A j \in 1 .. l : Sets(j, f)' <=> Sets(j + 1, f)
      /\ Sets(1, f) <=> message.op = "config" /\ message.arg[f] # 0
  BY <1>1 DEF Sets
<1>3. /\ \A j \in 2 .. n : j - 1 \in 1 .. l /\ (j - 1) + 1 = j
      /\ 1 \in 1 .. n /\ \A j \in 1 .. n : j = 1 \/ j \in 2 .. n
      /\ 1 + 1 = 2
      /\ \A j \in 1 .. l : \A i \in (j + 1) + 1 .. n : i \in 2 .. n /\ i - 1 \in j + 1 .. l
  BY <1>1
<1>4. \A j \in 2 .. n : Sets(j, f) <=> Sets(j - 1, f)'
  <2>1. ASSUME NEW j \in 2 .. n PROVE Sets(j, f) <=> Sets(j - 1, f)'
    <3>1. PICK i : i = j - 1
      OBVIOUS
    <3>2. i \in 1 .. l /\ i + 1 = j
      BY <1>3, <3>1
    <3>3. Sets(i, f)' <=> Sets(i + 1, f)
      BY <1>2, <3>2
    <3> QED BY <3>1, <3>2, <3>3
  <2> QED BY <2>1
<1>5. /\ LastSets(f) <=>
           \A j \in 1 .. n : Sets(j, f) /\ (\A i \in j + 1 .. n : ~Sets(i, f)) => queue[j].arg[f] = due[f]
      /\ NoneSets(f) <=> \A j \in 1 .. n : ~Sets(j, f)
  BY <1>0 DEF LastSets, NoneSets
<1>6. /\ LastSets(f)' <=>
           \A j \in 1 .. l : Sets(j, f)' /\ (\A i \in j + 1 .. l : ~Sets(i, f)') => queue'[j].arg[f] = due'[f]
      /\ NoneSets(f)' <=> \A j \in 1 .. l : ~Sets(j, f)'
  BY <1>0 DEF LastSets, NoneSets
<1>7. ASSUME LastSets(f), NEW j \in 1 .. l, Sets(j, f)', \A i \in j + 1 .. l : ~Sets(i, f)'
      PROVE  queue'[j].arg[f] = due'[f]
  <2>1. PICK k : k = j + 1
    OBVIOUS
  <2>2. k \in 1 .. n /\ Sets(k, f) /\ queue'[j] = queue[k]
    BY <1>1, <1>2, <1>7, <2>1
  <2>3. \A i \in k + 1 .. n : ~Sets(i, f)
    BY <1>3, <1>4, <1>7, <2>1
  <2> QED BY <1>5, <1>7, <2>2, <2>3
<1>8. ASSUME NoneSets(f)'
      PROVE  \/ message.op = "config" /\ message.arg[f] # 0 /\ (LastSets(f) => message.arg[f] = due[f])
             \/ ~(message.op = "config" /\ message.arg[f] # 0) /\ NoneSets(f)
  <2>1. \A i \in 2 .. n : ~Sets(i, f)
    BY <1>3, <1>4, <1>6, <1>8
  <2>2. CASE Sets(1, f)
    BY <1>1, <1>2, <1>3, <1>5, <2>1, <2>2
  <2>3. CASE ~Sets(1, f)
    BY <1>2, <1>3, <1>5, <2>1, <2>3
  <2> QED BY <2>2, <2>3
<1> QED BY <1>6, <1>7, <1>8

LEMMA ConfigQueueKept ==
  ASSUME ClientTypes, binderThread, ~updateConfiguration, ~Creating
  PROVE  /\ rq'["config"] = rq["config"]
         /\ UNCHANGED <<due, api, mConfig>>
<1>1. /\ rq \in [Queues -> RequestQueue]
      /\ \A n \in Queues : \A q : n # "config" => [rq EXCEPT ![n] = q]["config"] = rq["config"]
  BY DEF ClientTypes, QueueType, RequestQueue, Queues
<1>2. /\ "tracking" \in Queues \ {"config"} /\ "ni" \in Queues \ {"config"}
      /\ "aiding" \in Queues \ {"config"} /\ "control" \in Queues \ {"config"}
  BY DEF Queues
<1>3. CASE setCallback \/ setGnssNiCb \/ updateCallbacks \/ requestCapabilities \/ serviceDied
  BY <1>3, DueKept DEF setCallback, setGnssNiCb, updateCallbacks,
     requestCapabilities, serviceDied, baseVars
<1>4. CASE getApi
  BY <1>4, DueKept DEF getApi, Creating
<1>5. CASE locAPIEnable
  <2>1. rq' = rq \/ \E q : rq' = [rq EXCEPT !["control"] = q]
    BY <1>5 DEF locAPIEnable
  <2>2. UNCHANGED <<due, api, mConfig>>
    BY <1>5, DueKept DEF locAPIEnable
  <2>3. \A q : [rq EXCEPT !["control"] = q]["config"] = rq["config"]
    BY <1>1, <1>2
  <2>4. rq'["config"] = rq["config"]
    BY <2>1, <2>3
  <2> QED BY <2>2, <2>4
<1>6. CASE locAPIStartTracking
  BY <1>1, <1>2, <1>6, DueKept DEF locAPIStartTracking
<1>7. CASE locAPIStopTracking
  BY <1>1, <1>2, <1>7, DueKept DEF locAPIStopTracking
<1>8. CASE locAPIUpdateTrackingOptions
  BY <1>1, <1>2, <1>8, DueKept DEF locAPIUpdateTrackingOptions
<1>9. CASE locAPIDisable
  <2>1. rq' = rq \/ \E q : rq' = [rq EXCEPT !["control"] = q]
    BY <1>9 DEF locAPIDisable
  <2>2. UNCHANGED <<due, api, mConfig>>
    BY <1>9, DueKept DEF locAPIDisable
  <2>3. \A q : [rq EXCEPT !["control"] = q]["config"] = rq["config"]
    BY <1>1, <1>2
  <2>4. rq'["config"] = rq["config"]
    BY <2>1, <2>3
  <2> QED BY <2>2, <2>4
<1>10. CASE locAPIGnssNiResponse
  BY <1>1, <1>2, <1>10, DueKept DEF locAPIGnssNiResponse
<1>11. CASE locAPIGnssDeleteAidingData
  BY <1>1, <1>2, <1>11, DueKept DEF locAPIGnssDeleteAidingData
<1> QED BY <1>3, <1>4, <1>5, <1>6, <1>7, <1>8, <1>9, <1>10, <1>11 DEF binderThread

LEMMA ConfigSent ==
  ASSUME ClientTypes, IdsInv, ClientlessInv, ConfigInv, binderThread, ~updateConfiguration, ~Creating
  PROVE  ConfigInv'
<1>1. rq'["config"] = rq["config"] /\ UNCHANGED <<due, api, mConfig>> /\ inForce' = inForce
  BY ConfigQueueKept, BinderExchange DEF AdapterKept, adapterVars
<1>2. SUFFICES ASSUME NEW f \in Fields PROVE ItemInv(f)'
  BY ItemsNext
<1>3. ItemInv(f) /\ due'[f] = due[f]
  BY <1>1, ItemsInv
<1>4. CASE queue' = queue
  <2>1. (LastSets(f) => LastSets(f)') /\ (NoneSets(f)' <=> NoneSets(f))
    BY <1>3, <1>4, SetsKept
  <2> QED BY <1>1, <1>3, <2>1 DEF ItemInv
<1>5. CASE Sends
  <2>1. PICK x : Appends(x) /\ (x.op = "config" => Configuring)
    BY <1>5, SentFacts DEF ClientNext
  <2>2. ~Configuring
    <3>1. "config" \in Queues /\ rq \in [Queues -> RequestQueue]
      BY DEF ClientTypes, QueueType, RequestQueue, Queues
    <3>2. Waiting("config")' = Waiting("config") /\ Waiting("config") \in Seq(AnyRequest)
      BY <1>1, <3>1 DEF Waiting, RequestQueue
    <3>3. ASSUME Configuring PROVE FALSE
      <4>1. PICK r \in AnyRequest : Waiting("config")' = Append(Waiting("config"), r)
        BY <3>3 DEF Configuring, Asking
      <4>2. Len(Append(Waiting("config"), r)) = Len(Waiting("config")) + 1 /\ Len(Waiting("config")) \in Nat
        BY <3>2, AppendedList
      <4> QED BY <3>2, <4>1, <4>2
    <3> QED BY <3>3
  <2>3. (LastSets(f) => LastSets(f)') /\ (NoneSets(f)' => NoneSets(f))
    BY <1>3, <2>1, <2>2, SetsAdded
  <2> QED BY <1>1, <1>3, <2>3 DEF ItemInv
<1> QED BY <1>4, <1>5, BinderExchange DEF Keeping, Sends

LEMMA ConfigCreated ==
  ASSUME ClientTypes, IdsInv, ClientlessInv, Creating
  PROVE  ConfigInv'
<1>1. Created
  BY CreatedFacts
<1>2. SUFFICES ASSUME NEW f \in Fields PROVE ItemInv(f)'
  BY ItemsNext
<1>3. /\ UNCHANGED <<due, inForce>> /\ inForce = NoConfig /\ mConfig' = due
      /\ inForce[f] = 0 /\ (due[f] # 0 => due # NoConfig)
  BY <1>1 DEF Created, adapterVars, ClientlessInv, NoConfig
<1>4. LastSets(f)'
  <2>1. \A j \in 1 .. Len(queue') : Sets(j, f)' => queue'[j].arg = due
    BY <1>1 DEF Created, Sets
  <2> QED BY <1>3, <2>1 DEF LastSets
<1>5. NoneSets(f)' => due[f] = 0
  <2>1. ASSUME due[f] # 0 PROVE \E j \in 1 .. Len(queue') : Sets(j, f)'
    <3>1. PICK j \in 1 .. Len(queue') : queue'[j].op = "config"
      BY <1>1, <1>3, <2>1 DEF Created
    <3>2. queue'[j].arg = due
      BY <1>1, <3>1 DEF Created
    <3> QED BY <2>1, <3>1, <3>2 DEF Sets
  <2> QED BY <2>1 DEF NoneSets
<1> QED BY <1>3, <1>4, <1>5 DEF ItemInv

LEMMA ConfigUpdated ==
  ASSUME ClientTypes, IdsInv, ClientlessInv, ConfigInv, updateConfiguration
  PROVE  ConfigInv'
<1>1. SUFFICES ASSUME NEW f \in Fields PROVE ItemInv(f)'
  BY ItemsNext
<1>2. ItemInv(f)
  BY ItemsInv
<1>3. PICK g \in Fields, v \in 1 .. MaxValue :
        /\ wanted' = [wanted EXCEPT ![g] = v] /\ early' = IF g = Server THEN ~api ELSE early
        /\ api => /\ mConfig' = [NoConfig EXCEPT ![g] = v]
                  /\ queue' = queue \o configMsgs([NoConfig EXCEPT ![g] = v])
        /\ ~api => UNCHANGED <<mConfig, queue>>
        /\ api' = api /\ inForce' = inForce
  BY DEF updateConfiguration, adapterVars
<1> DEFINE config == [NoConfig EXCEPT ![g] = v]
<1>4. /\ config \in Configs /\ config[g] = v /\ v # 0 /\ (f # g => config[f] = 0)
      /\ mConfig \in Configs
      /\ api => due'[g] = v /\ (f # g => due'[f] = due[f])
  <2>1. wanted \in Configs /\ mConfig \in Configs
    BY DEF ClientTypes, BinderType
  <2>2. api => due'[g] = v /\ (f # g => due'[f] = due[f])
    BY <1>3, <2>1, DueSet
  <2> QED BY <1>3, <2>1, <2>2, ConfigFacts DEF ClientTypes, ClientBounds, Configs, NoConfig
<1> HIDE DEF config
<1>5. CASE ~api
  <2>1. queue = <<>> /\ queue' = <<>> /\ ~api'
    BY <1>3, <1>5 DEF ClientlessInv
  <2>2. Len(queue') = 0
    BY <2>1
  <2>3. LastSets(f)'
    BY <2>2 DEF LastSets
  <2> QED BY <2>1, <2>3 DEF ItemInv
<1>6. CASE api /\ identical(config)
  <2>1. due[g] = v
    <3>1. ItemInv(g)
      BY ItemsInv
    <3> QED BY <1>4, <1>6, <3>1 DEF ItemInv, identical
  <2>2. due'[f] = due[f] /\ mConfig' = mConfig
    BY <1>3, <1>4, <1>6, <2>1 DEF config, identical
  <2>3. queue' = queue
    <3>1. queue \in Seq(AnyMsg)
      BY DEF ClientTypes, QueueType
    <3>2. queue' = queue \o <<>>
      BY <1>3, <1>6 DEF config, configMsgs
    <3> QED BY <3>1, <3>2
  <2>4. (LastSets(f) => LastSets(f)') /\ (NoneSets(f)' <=> NoneSets(f))
    BY <2>2, <2>3, SetsKept
  <2> QED BY <1>2, <1>3, <1>6, <2>2, <2>4 DEF ItemInv
<1>7. CASE api /\ ~identical(config)
  <2> DEFINE x == Msg("config", None, config)
  <2>1. Appends(x) /\ x.op = "config" /\ x.arg = config
    <3>1. x \in AnyMsg /\ queue \in Seq(AnyMsg)
      BY <1>4, MsgFacts DEF Kinds, None, ClientTypes, QueueType
    <3>2. queue' = queue \o <<x>>
      BY <1>3, <1>7 DEF config, configMsgs
    <3>3. Sending("config", None, config)
      BY <3>1, <3>2 DEF Sending
    <3> QED BY <3>3, SendingFacts
  <2> HIDE DEF x
  <2>2. mConfig'[f] \in {0, due'[f]}
    BY <1>3, <1>4, <1>7 DEF config
  <2>3. CASE f = g
    <3>1. x.op = "config" /\ x.arg[f] # 0 /\ x.arg[f] = due'[f]
      BY <1>4, <1>7, <2>1, <2>3
    <3>2. LastSets(f)' /\ ~NoneSets(f)'
      BY <2>1, <3>1, SetsAdded
    <3> QED BY <2>2, <3>2 DEF ItemInv
  <2>4. CASE f # g
    <3>1. ~(x.op = "config" /\ x.arg[f] # 0) /\ due'[f] = due[f]
      BY <1>4, <1>7, <2>1, <2>4
    <3>2. (LastSets(f) => LastSets(f)') /\ (NoneSets(f)' => NoneSets(f))
      BY <2>1, <3>1, SetsAdded
    <3> QED BY <1>2, <1>3, <1>4, <1>7, <2>2, <2>4, <3>2 DEF ItemInv
  <2> QED BY <2>3, <2>4
<1> QED BY <1>5, <1>6, <1>7

LEMMA ConfigHandled ==
  ASSUME ClientTypes, IdsInv, ClientlessInv, ConfigInv, adapterThread
  PROVE  ConfigInv'
<1>1. UNCHANGED <<due, api, mConfig>>
  BY AdapterExchange, DueKept DEF ClientKept, hidlVars
<1>2. SUFFICES ASSUME NEW f \in Fields PROVE ItemInv(f)'
  BY ItemsNext
<1>3. ItemInv(f) /\ due'[f] = due[f]
  BY <1>1, ItemsInv
<1>4. CASE queue' = queue /\ inForce' = inForce
  <2>1. (LastSets(f) => LastSets(f)') /\ (NoneSets(f)' <=> NoneSets(f))
    BY <1>3, <1>4, SetsKept
  <2> QED BY <1>1, <1>3, <1>4, <2>1 DEF ItemInv
<1>5. CASE Answers \/ Ignores
  <2>1. Shrinks
    BY <1>5, HandlingFacts
  <2>2. /\ LastSets(f) => LastSets(f)'
        /\ NoneSets(f)' => \/ message.op = "config" /\ message.arg[f] # 0 /\ (LastSets(f) => message.arg[f] = due[f])
                           \/ ~(message.op = "config" /\ message.arg[f] # 0) /\ NoneSets(f)
    BY <1>1, <2>1, SetsHandled
  <2>3. inForce'[f] = IF message.op = "config" /\ message.arg[f] # 0 THEN message.arg[f] ELSE inForce[f]
    <3>1. CASE gnssUpdateConfig
      BY <3>1 DEF gnssUpdateConfig, Handle, message
    <3>2. CASE setControlCallbacks \/ saveClient \/ sendCapabilities \/ startTracking \/ updateTracking
      BY <3>2 DEF setControlCallbacks, saveClient, sendCapabilities,
         startTracking, updateTracking,
         Handle, message, adapterVars
    <3>3. CASE stopTracking \/ niResponse \/ deleteAidingData \/ enableGnss \/ disableGnss
      BY <3>3 DEF stopTracking, niResponse, deleteAidingData, enableGnss,
         disableGnss,
         Handle, message, adapterVars
    <3>4. ~cacheCapabilities /\ ~tellCapabilities /\ ~getRequest /\ ~onResponse
      BY <1>5 DEF Answers, Ignores, Handling, cacheCapabilities, tellCapabilities,
         getRequest, onResponse
    <3> QED BY <3>1, <3>2, <3>3, <3>4 DEF adapterThread
  <2> QED BY <1>1, <1>3, <2>2, <2>3 DEF ItemInv
<1>6. Caches \/ getRequest \/ onResponse => queue' = queue /\ inForce' = inForce
  BY GetFacts DEF Caches, cacheCapabilities, tellCapabilities, onResponse,
     adapterSide, adapterVars
<1> QED BY <1>4, <1>5, <1>6, AdapterExchange

LEMMA ConfigStep ==
  ASSUME ClientTypes, IdsInv, ClientlessInv, ConfigInv, [ClientNext]_clientVars
  PROVE  ConfigInv'
<1>1. CASE niNotify \/ UNCHANGED clientVars
  <2>1. UNCHANGED <<queue, due, api, mConfig, inForce>>
    BY <1>1, DueKept DEF niNotify, clientSide, hidlVars, baseVars, clientVars,
       adapterVars
  <2>2. ASSUME NEW f \in Fields PROVE ItemInv(f)'
    <3>1. (LastSets(f) => LastSets(f)') /\ (NoneSets(f)' <=> NoneSets(f))
      BY <2>1, SetsKept
    <3> QED BY <2>1, <3>1, ItemsInv DEF ItemInv
  <2> QED BY <2>2, ItemsNext
<1> QED BY <1>1, ConfigSent, ConfigCreated, ConfigUpdated, ConfigHandled DEF ClientNext

----------------------------------------------------------------------------
(* Theorems *)

LEMMA ClientStarts == ClientInit => ClientInv
<1>1. SUFFICES ASSUME ClientBounds, ClientInit PROVE ClientInv
  BY ClientBoundsHold
<1>2. /\ NoConfig \in Configs /\ queue = <<>> /\ queue \in Seq(AnyMsg) /\ Len(queue) = 0 /\ nextId = 0
      /\ <<>> \in Seq(AnyRequest) /\ Len(<<>>) = 0
  BY <1>1, ConfigFacts DEF ClientInit
<1>3. ClientTypes
  <2>1. BinderType
    <3>1. todo \in Todos /\ 0 \in 0 .. 0 /\ {} \subseteq 1 .. nextId
      BY <1>1 DEF ClientInit, Todos
    <3>2. /\ extended \in BOOLEAN /\ niIface \in BOOLEAN /\ api \in BOOLEAN /\ cached \in BOOLEAN
          /\ mTracking \in BOOLEAN /\ mEnabled \in BOOLEAN /\ status \in BOOLEAN /\ early \in BOOLEAN
      BY <1>1 DEF ClientInit
    <3>3. iface = 0 /\ cbIface = 0 /\ calls = 0 /\ started = {} /\ told = {}
      BY <1>1 DEF ClientInit, None
    <3>4. 0 \in 0 .. MaxFaces /\ 0 \in 0 .. MaxIds /\ 0 \in Nat
      BY <1>1 DEF ClientBounds
    <3>5. pendingConfig \in Configs /\ mConfig \in Configs /\ wanted \in Configs
      BY <1>1, <1>2 DEF ClientInit
    <3> QED BY <1>2, <3>1, <3>2, <3>3, <3>4, <3>5 DEF BinderType, Faces
  <2>2. AdapterType
    BY <1>1, <1>2 DEF ClientInit, ClientBounds, AdapterType, Nothing, Request, None
  <2>3. QueueType
    BY <1>1, <1>2 DEF ClientInit, QueueType, None
  <2> QED BY <1>1, <2>1, <2>2, <2>3 DEF ClientTypes
<1>4. \A n \in Queues : Session(n) = None /\ Waiting(n) = <<>> /\ Elements(n) = {}
  BY <1>1, <1>2 DEF ClientInit, Session, Waiting, Elements
<1>5. /\ "tracking" \in Queues /\ "ni" \in Queues /\ "aiding" \in Queues /\ "control" \in Queues
      /\ "config" \in Queues
  BY DEF Queues
<1>6. /\ answer = Nothing /\ answer.kind = "none" /\ answer.id = None /\ at = "idle"
      /\ ~mTracking /\ ~mEnabled /\ ~api /\ todo = <<>> /\ started = {} /\ sessions = {}
      /\ ~cached /\ cbIface = None /\ iface = None /\ power = None /\ clientData = {} /\ answer.ok = FALSE
      /\ mConfig = NoConfig /\ inForce = NoConfig /\ pendingConfig = NoConfig /\ due = NoConfig
      /\ niCount = 0
  BY <1>1 DEF ClientInit, Nothing, NoConfig, due
<1>7. \A j \in 1 .. Len(queue) : FALSE
  BY <1>2
<1>8. IdsInv
  BY <1>2, <1>4, <1>5, <1>6, <1>7 DEF IdsInv, MessagesValid, AnswerValid, SessionsValid, ValidId,
     None,
     TrackOps, VoteOps
<1>9. ClientlessInv /\ WaitingInv /\ Apart
  <2>1. pendingConfig = NoConfig /\ pendingConfig[Server] = 0
    BY <1>1, <1>6 DEF ClientBounds, NoConfig
  <2>2. WaitingInv /\ Apart
    BY <1>2, <1>4, <1>5, <1>6 DEF WaitingInv, Apart
  <2> QED BY <1>2, <1>4, <1>5, <1>6, <2>1, <2>2 DEF ClientlessInv
<1>10. OrderInv /\ TrackingMatch /\ ControlMatch /\ AnswerFits
  BY <1>4, <1>5, <1>6, <1>7 DEF OrderInv, StartsFirst, StartsFresh, TrackingMatch, ControlMatch,
     AnswerFits
<1>11. RunsAreWished /\ CallbacksInv /\ RunIsTold
  BY <1>6, <1>7 DEF RunsAreWished, CallbacksInv, RunIsTold
<1>12. VotesInv
  <2>1. PICK k, p : k = Len(queue) + 1 /\ p = (IF mEnabled THEN Session("control") ELSE None)
    OBVIOUS
  <2>2. k - 1 = 0 /\ p = None
    BY <1>2, <1>6, <2>1
  <2>3. VoteAt(k, p)
    BY <1>6, <2>2 DEF VoteAt
  <2> QED BY <1>7, <2>1, <2>3 DEF VotesInv
<1>13. CapabilitiesInv
  BY <1>6 DEF CapabilitiesInv
<1>14. ConfigInv
  BY <1>6, <1>7 DEF ConfigInv
<1> QED BY <1>3, <1>8, <1>9, <1>10, <1>11, <1>12, <1>13, <1>14 DEF ClientInv

LEMMA ClientStep == ClientInv /\ [ClientNext]_clientVars => ClientInv'
<1>1. SUFFICES ASSUME ClientInv, [ClientNext]_clientVars PROVE ClientInv'
  OBVIOUS
<1>2. /\ ClientTypes /\ IdsInv /\ ClientlessInv /\ WaitingInv /\ Apart /\ OrderInv
      /\ TrackingMatch /\ ControlMatch /\ AnswerFits /\ RunsAreWished /\ CallbacksInv /\ RunIsTold
      /\ VotesInv /\ CapabilitiesInv /\ ConfigInv
  BY <1>1 DEF ClientInv
<1>3. ClientTypes' /\ IdsInv' /\ ClientlessInv' /\ WaitingInv' /\ Apart' /\ OrderInv'
  BY <1>1, <1>2, TypesStep, IdsStep, ClientlessStep, WaitingStep, ApartStep, OrderStep
<1>4. TrackingMatch' /\ ControlMatch' /\ AnswerFits'
  BY <1>1, <1>2, TrackingStep, ControlStep, AnswerFitsStep
<1>5. RunsAreWished' /\ CallbacksInv' /\ RunIsTold'
  BY <1>1, <1>2, RunsStep, CallbacksStep, ToldStep
<1>6. VotesInv' /\ CapabilitiesInv' /\ ConfigInv'
  BY <1>1, <1>2, VotesStep, CapabilitiesStep, ConfigStep
<1> QED BY <1>3, <1>4, <1>5, <1>6 DEF ClientInv

(* Whatever the framework calls, and however the answers of the adapter   *)
(* are overtaken by what it calls next: each request of the client that    *)
(* waits has its message or its answer on the way, the session that runs   *)
(* or will is the one the client means, and the votes, capabilities and    *)
(* items of the configuration still on the way end as the framework wants. *)
THEOREM ClientInvariant == ClientSpec => []ClientInv
BY ClientStarts, ClientStep, PTL DEF ClientSpec

LEMMA ClientTypesHold ==
  ASSUME ClientInv
  PROVE  ClientTypeOK
<1>1. ClientTypes /\ IdsInv
  BY DEF ClientInv
<1>2. /\ nextId \in 0 .. MaxIds /\ niCount \in 0 .. MaxNi /\ MaxIds \in Nat /\ MaxNi \in Nat /\ iface \in Nat
      /\ iface <= MaxFaces /\ started \subseteq 1 .. nextId /\ MaxFaces \in Nat
  BY <1>1 DEF ClientTypes, ClientBounds, BinderType, AdapterType, Faces
<1>3. ASSUME NEW n \in Queues
      PROVE  /\ rq[n].session \in 0 .. MaxIds + MaxNi
             /\ \A i \in DOMAIN rq[n].waiting : rq[n].waiting[i].kind \in Kinds
  <2>1. rq[n].session \in 0 .. MaxIds + MaxNi
    <3>1. /\ 0 .. niCount \subseteq 0 .. MaxIds + MaxNi /\ 0 .. nextId \subseteq 0 .. MaxIds + MaxNi
          /\ started \cup {0} \subseteq 0 .. MaxIds + MaxNi /\ 0 \in 0 .. MaxIds + MaxNi
      BY <1>2
    <3> QED BY <1>1, <3>1 DEF IdsInv, SessionsValid, Session, Queues, None
  <2>2. rq[n].waiting \in Seq(AnyRequest)
    BY <1>1 DEF ClientTypes, QueueType
  <2>3. \A r \in AnyRequest : r.kind \in Kinds
    BY DEF AnyRequest
  <2>4. \A i \in DOMAIN rq[n].waiting : rq[n].waiting[i] \in AnyRequest
    BY <2>2
  <2> QED BY <2>1, <2>3, <2>4
<1>4. sessions \subseteq 1 .. nextId /\ cbIface \in Faces
  BY <1>1, <1>2 DEF ClientTypes, BinderType, AdapterType, Faces
<1> QED BY <1>1, <1>3, <1>4 DEF ClientTypeOK, ClientTypes, BinderType, AdapterType, Interfaces

(* The thread of the adapter acts on an answer by the request it answers,  *)
(* unless an NI request has the number of a tracking session.  So a stop    *)
(* that overtakes the answer to a start is not taken for it, and an answer  *)
(* to a session that is over finds no request of the next one.              *)
THEOREM AnswersAreFitting == ClientSpec => []AnswersFit
<1>1. ClientInv => AnswersFit
  BY ClientTypesHold DEF ClientInv, AnswersFit
<1> QED BY <1>1, ClientInvariant, PTL

(* When all is handled no session runs that the client does not know of,   *)
(* unless the modem refused to stop it, and the framework was told of the   *)
(* one that runs.                                                           *)
THEOREM SessionsDoAgree == ClientSpec => []SessionsAgree
<1>1. ASSUME ClientInv PROVE SessionsAgree
  <2>1. IdsInv /\ ClientTypes /\ RunsAreWished /\ RunIsTold
    BY <1>1 DEF ClientInv
  <2>2. SUFFICES ASSUME Quiet PROVE SessionsAgree
    BY DEF SessionsAgree, NoSessionLeft, RunningIsTold
  <2>3. Len(queue) = 0 /\ at = "idle" /\ \A j \in 1 .. Len(queue) : FALSE
    BY <2>2 DEF Quiet
  <2>4. NoSessionLeft
    <3>1. ASSUME NEW s \in sessions \ refused PROVE mTracking /\ s = rq["tracking"].session
      <4>1. s \in started
        BY <2>1, <3>1 DEF ClientTypes, AdapterType
      <4>2. Wished(s)
        BY <2>1, <3>1, <4>1 DEF RunsAreWished
      <4> QED BY <2>3, <4>2 DEF Wished, StopComes, Session
    <3> QED BY <3>1 DEF NoSessionLeft
  <2>5. RunningIsTold
    BY <2>1, <2>3 DEF RunningIsTold, RunIsTold, Reporting, IdsInv, AnswerValid, Session
  <2> QED BY <2>4, <2>5 DEF SessionsAgree
<1> QED BY <1>1, ClientInvariant, PTL

(* When all is handled the adapter's power vote is what the control client  *)
(* believes, the callback object of the framework was told the capabilities *)
(* once they are known, and every item of the configuration in force is the *)
(* one the framework set last, before or after there was a client; but a    *)
(* server set before there was one (Gnss::updateConfiguration copies a host *)
(* only in the place of another) is in force without its host, until it is  *)
(* set again.                                                               *)
THEOREM ControlDoesAgree == ClientSpec => []ControlAgrees
<1>1. ASSUME ClientInv PROVE ControlAgrees
  <2>1. ClientTypes /\ VotesInv /\ CapabilitiesInv /\ ConfigInv
    BY <1>1 DEF ClientInv
  <2>2. SUFFICES ASSUME Quiet PROVE ControlAgrees
    BY DEF ControlAgrees, VoteFollowsEnable, CapabilitiesTold, ConfigApplied
  <2>3. Len(queue) = 0 /\ at = "idle" /\ todo = <<>> /\ \A j \in 1 .. Len(queue) : FALSE
    BY <2>2 DEF Quiet
  <2>4. VoteFollowsEnable
    <3>1. PICK k, p : k = Len(queue) + 1 /\ p = (IF mEnabled THEN Session("control") ELSE None)
      OBVIOUS
    <3>2. VoteAt(k, p) /\ 1 .. k - 1 = {}
      BY <2>1, <2>3, <3>1 DEF VotesInv
    <3>3. p = power
      BY <3>2 DEF VoteAt
    <3> QED BY <3>1, <3>3 DEF VoteFollowsEnable, Session
  <2>5. CapabilitiesTold
    BY <2>1, <2>3 DEF CapabilitiesTold, CapabilitiesInv
  <2>6. ConfigApplied
    <3>1. SUFFICES ASSUME api PROVE inForce = due
      BY DEF ConfigApplied
    <3>2. inForce \in Configs /\ due \in Configs
      BY <2>1, DueType DEF ClientTypes, AdapterType
    <3>3. \A f \in Fields : inForce[f] = due[f]
      BY <2>1, <2>3, <3>1 DEF ConfigInv
    <3> QED BY <3>2, <3>3 DEF Configs
  <2> QED BY <2>4, <2>5, <2>6 DEF ControlAgrees
<1> QED BY <1>1, ClientInvariant, PTL
=============================================================================
