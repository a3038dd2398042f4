------------------------------- MODULE MsgTask ------------------------------
(***************************************************************************)
(* A MsgTask (gps/utils/MsgTask.cpp) with its message queue (msg_q.c, over *)
(* linked_list.c) and its thread (LocThread.cpp).  Any thread may send;    *)
(* the spawned thread runs LocThreadDelegate::threadMain, whose run() is   *)
(* MsgTask::run; the owner may call destroy().  The critical sections of   *)
(* msg_q's mutex are atomic; everything between them interleaves.          *)
(*                                                                         *)
(* Callers are trusted on one point: they do not send to a MsgTask whose   *)
(* memory is already freed.                                                *)
(***************************************************************************)
EXTENDS Naturals, Sequences, SequencesExt

CONSTANT Messages   \* LocMsg objects; each is sent at most once

VARIABLES
  msg_list,       \* the linked list, from p_head to p_tail
  unblocked,      \* msg_q::unblocked
  signaled,       \* the thread waiting on list_cond has been woken
  taskAlive,      \* the MsgTask, and its queue, are not deleted
  mRunnable,      \* LocThreadDelegate::mRunnable is not NULL
  mJoinable,      \* pthread_join is due
  mRefCount,
  delegateAlive,  \* the LocThreadDelegate is not deleted
  threadPc,       \* the spawned thread
  msg,            \* MsgTask::run's message, as a sequence of at most one
  ownerPc,        \* the owner in MsgTask::destroy
  sent,           \* messages given to sendMsg
  taken,          \* messages received, oldest first
  freed           \* messages deleted

queueVars    == <<msg_list, unblocked, signaled>>
delegateVars == <<mRunnable, mJoinable, mRefCount, delegateAlive>>
vars == <<queueVars, taskAlive, delegateVars, threadPc, msg, ownerPc, sent, taken, freed>>

ThreadPc == {"start", "loop", "rcv", "waiting", "proc", "exit", "deleteRunnable", "bye", "done"}
OwnerPc  == {"idle", "clearThread", "bye", "join", "release", "done"}

-----------------------------------------------------------------------------
(* msg_q.c and linked_list.c.                                              *)

linked_list_add_tail(list, m) == Append(list, m)   \* mutant: at the wrong end

(* linked_list_add puts the element at the head, linked_list_remove takes  *)
(* it from the tail.                                                       *)
linked_list_add(list, m) == <<m>> \o list
linked_list_remove(list) == Front(list)

(* MsgTask::sendMsg: the result of msg_q_snd is not looked at, so a        *)
(* message refused by an unblocked queue is neither queued nor deleted.    *)
sendMsgSilently(m) ==   \* mutant: no pthread_cond_signal
  /\ taskAlive /\ m \notin sent
  /\ sent' = sent \cup {m}
  /\ msg_list' = IF unblocked THEN msg_list ELSE linked_list_add(msg_list, m)
  /\ UNCHANGED <<unblocked, signaled, taskAlive, delegateVars, threadPc, msg, ownerPc, taken,
                 freed>>

sendMsg(m) ==
  /\ taskAlive /\ m \notin sent
  /\ sent' = sent \cup {m}
  /\ IF unblocked
     THEN UNCHANGED <<msg_list, signaled>>
     ELSE /\ msg_list' = linked_list_add(msg_list, m)
          /\ signaled' = (threadPc = "waiting")
  /\ UNCHANGED <<unblocked, taskAlive, delegateVars, threadPc, msg, ownerPc, taken, freed>>

-----------------------------------------------------------------------------
(* The spawned thread: LocThreadDelegate::threadMain.                      *)

threadStart ==
  /\ threadPc = "start"
  /\ threadPc' = IF mRunnable THEN "loop" ELSE "bye"
  /\ UNCHANGED <<queueVars, taskAlive, delegateVars, msg, ownerPc, sent, taken, freed>>

(* while (isRunning() && runnable->run())                                  *)
threadLoop ==
  /\ threadPc = "loop"
  /\ threadPc' = IF mRunnable THEN "rcv" ELSE "exit"
  /\ UNCHANGED <<queueVars, taskAlive, delegateVars, msg, ownerPc, sent, taken, freed>>

(* linked_list_remove in msg_q_rcv, and the end of run() when it fails.    *)
takeOldest ==
  IF msg_list = <<>>
  THEN /\ threadPc' = "exit"
       /\ UNCHANGED <<msg_list, msg, taken>>
  ELSE /\ threadPc' = "proc"
       /\ msg' = <<Last(msg_list)>>
       /\ msg_list' = linked_list_remove(msg_list)
       /\ taken' = Append(taken, Last(msg_list))

(* msg_q_rcv up to the wait, or to its end.                                *)
msg_q_rcv ==
  /\ threadPc = "rcv"
  /\ \/ /\ unblocked
        /\ threadPc' = "exit"
        /\ UNCHANGED <<msg_list, msg, taken>>
     \/ /\ ~unblocked /\ msg_list = <<>>
        /\ threadPc' = "waiting"
        /\ UNCHANGED <<msg_list, msg, taken>>
     \/ /\ ~unblocked /\ msg_list # <<>>
        /\ takeOldest
  /\ signaled' = FALSE
  /\ UNCHANGED <<unblocked, taskAlive, delegateVars, ownerPc, sent, freed>>

(* pthread_cond_wait returns.                                              *)
msg_q_wake ==
  /\ threadPc = "waiting" /\ signaled
  /\ signaled' = FALSE
  /\ IF msg_list = <<>> /\ ~unblocked
     THEN UNCHANGED <<threadPc, msg_list, msg, taken>>
     ELSE takeOldest
  /\ UNCHANGED <<unblocked, taskAlive, delegateVars, ownerPc, sent, freed>>

(* msg->proc(), delete msg.                                                *)
procMsg ==
  /\ threadPc = "proc"
  /\ freed' = freed \cup ToSet(msg)
  /\ msg' = <<>>
  /\ threadPc' = "loop"
  /\ UNCHANGED <<queueVars, taskAlive, delegateVars, ownerPc, sent, taken>>

threadExit ==
  /\ threadPc = "exit"
  /\ mRunnable' = FALSE
  /\ threadPc' = "deleteRunnable"
  /\ UNCHANGED <<queueVars, taskAlive, mJoinable, mRefCount, delegateAlive, msg, ownerPc, sent,
                 taken, freed>>

(* delete runnable: ~MsgTask flushes the queue and destroys it.            *)
deleteRunnable ==
  /\ threadPc = "deleteRunnable"
  /\ freed' = freed \cup ToSet(msg_list)
  /\ taskAlive' = FALSE
  /\ msg_list' = <<>>
  /\ threadPc' = "bye"
  /\ UNCHANGED <<unblocked, signaled, delegateVars, msg, ownerPc, sent, taken>>

deleteAtFirstRelease ==   \* mutant: callDelete without the count
  /\ mRefCount' = mRefCount - 1
  /\ delegateAlive' = FALSE
  /\ UNCHANGED <<mRunnable, mJoinable>>

(* LocThreadDelegate::destroy.                                             *)
delegateDestroy ==
  /\ IF mRefCount > 0
     THEN /\ mRefCount' = mRefCount - 1
          /\ delegateAlive' = IF mRefCount = 1 THEN FALSE ELSE delegateAlive
     ELSE UNCHANGED <<mRefCount, delegateAlive>>
  /\ UNCHANGED <<mRunnable, mJoinable>>

threadBye ==
  /\ threadPc = "bye"
  /\ delegateDestroy
  /\ threadPc' = "done"
  /\ UNCHANGED <<queueVars, taskAlive, msg, ownerPc, sent, taken, freed>>

-----------------------------------------------------------------------------
(* The owner: MsgTask::destroy.                                            *)

ownerVars == <<taskAlive, threadPc, msg, sent, taken, freed>>

unblockSilently ==   \* mutant: no pthread_cond_broadcast
  /\ ownerPc = "idle" /\ taskAlive
  /\ unblocked' = TRUE
  /\ signaled' = signaled
  /\ ownerPc' = "clearThread"
  /\ UNCHANGED <<msg_list, delegateVars, ownerVars>>

(* msg_q_unblock broadcasts.                                               *)
unblock ==
  /\ ownerPc = "idle" /\ taskAlive
  /\ unblocked' = TRUE
  /\ signaled' = (threadPc = "waiting")
  /\ ownerPc' = "clearThread"
  /\ UNCHANGED <<msg_list, delegateVars, ownerVars>>

(* mThread = NULL, a write to the MsgTask.                                 *)
clearThread ==
  /\ ownerPc = "clearThread"
  /\ ownerPc' = "bye"
  /\ UNCHANGED <<queueVars, delegateVars, ownerVars>>

(* delete thread: LocThreadDelegate::bye, and stop() of a joinable one.    *)
bye ==
  /\ ownerPc = "bye"
  /\ IF mJoinable
     THEN ownerPc' = "join" /\ mRunnable' = FALSE /\ mJoinable' = FALSE
     ELSE ownerPc' = "release" /\ UNCHANGED <<mRunnable, mJoinable>>
  /\ UNCHANGED <<queueVars, mRefCount, delegateAlive, ownerVars>>

(* pthread_join.                                                           *)
join ==
  /\ ownerPc = "join" /\ threadPc = "done"
  /\ ownerPc' = "release"
  /\ UNCHANGED <<queueVars, delegateVars, ownerVars>>

release ==
  /\ ownerPc = "release"
  /\ delegateDestroy
  /\ ownerPc' = "done"
  /\ UNCHANGED <<queueVars, ownerVars>>

-----------------------------------------------------------------------------
Init ==
  /\ msg_list = <<>> /\ unblocked = FALSE /\ signaled = FALSE
  /\ taskAlive = TRUE
  /\ mRunnable = TRUE /\ mJoinable \in BOOLEAN /\ mRefCount = 2 /\ delegateAlive = TRUE
  /\ threadPc = "start" /\ msg = <<>>
  /\ ownerPc = "idle"
  /\ sent = {} /\ taken = <<>> /\ freed = {}

Thread == \/ threadStart \/ threadLoop \/ msg_q_rcv \/ msg_q_wake \/ procMsg
          \/ threadExit \/ deleteRunnable \/ threadBye
Owner  == clearThread \/ bye \/ join \/ release

Next ==
  \/ \E m \in Messages : sendMsg(m)
  \/ threadStart \/ threadLoop \/ msg_q_rcv \/ msg_q_wake \/ procMsg
  \/ threadExit \/ deleteRunnable \/ threadBye
  \/ unblock \/ clearThread \/ bye \/ join \/ release

(* The spawned thread runs, and an owner that has begun destroy() goes on. *)
Fairness == WF_vars(Thread) /\ WF_vars(Owner)

Spec     == Init /\ [][Next]_vars
FairSpec == Spec /\ Fairness

-----------------------------------------------------------------------------
(* Every variable has its type; in particular the reference count of the   *)
(* delegate never goes below zero (LocThreadDelegate::destroy).            *)
TypeOK ==
  /\ msg_list \in Seq(Messages)
  /\ unblocked \in BOOLEAN /\ signaled \in BOOLEAN /\ taskAlive \in BOOLEAN
  /\ mRunnable \in BOOLEAN /\ mJoinable \in BOOLEAN /\ delegateAlive \in BOOLEAN
  /\ mRefCount \in 0..2
  /\ threadPc \in ThreadPc
  /\ ownerPc \in OwnerPc
  /\ msg \in Seq(Messages) /\ Len(msg) <= 1
  /\ sent \subseteq Messages
  /\ taken \in Seq(Messages)
  /\ freed \subseteq Messages

(* The queue of a MsgTask: the oldest message is at the tail of the list.  *)
Queue == INSTANCE MsgQueue WITH
           pending <- Reverse(msg_list), taken <- taken, open <- ~unblocked

(* msg_q_rcv: "msg_obj is the oldest message received"; linked_list, msg_q *)
(* and MsgTask together are a FIFO that is closed by destroy().            *)
ImplementsQueue == Queue!Spec

(* Neither thread touches the LocThreadDelegate after the other has        *)
(* deleted it ("both try to destroy() asynchronously").                    *)
DelegateOutlivesUse ==
  /\ threadPc \in {"start", "loop", "exit", "bye"} => delegateAlive
  /\ ownerPc \in {"idle", "clearThread", "bye", "join", "release"} => delegateAlive

(* The delegate is deleted by the last of the two.                         *)
DelegateFreed == threadPc = "done" /\ ownerPc = "done" => ~delegateAlive

(* A message is deleted once, after its proc() or by the flush: one that   *)
(* is deleted is not in the list, and one that was accepted does not       *)
(* vanish.                                                                 *)
MessageOwnedOnce ==
  /\ freed \cap ToSet(msg_list) = {} /\ freed \cap ToSet(msg) = {}
  /\ ~unblocked => sent = ToSet(msg_list) \cup ToSet(msg) \cup freed
  /\ \A i, j \in DOMAIN msg_list : i # j => msg_list[i] # msg_list[j]

(* A thread that waits on list_cond with something to receive is woken.    *)
NoLostWakeup == threadPc = "waiting" /\ (msg_list # <<>> \/ unblocked) => signaled

(* "The obj will be deleted by LocThread if start() returns true"          *)
(* (LocThread.h): so it is once the task has received a message.  (A       *)
(* joinable thread that first runs after stop() finds mRunnable NULL and   *)
(* deletes nothing.)                                                       *)
RunnableDeleted == threadPc = "done" /\ taken # <<>> => ~taskAlive

(* Every message that is accepted is handled or, after destroy(), flushed, *)
(* unless the task itself is never deleted.                                *)
MessageEnds ==
  \A m \in Messages : m \in ToSet(msg_list) ~> m \in freed \/ (threadPc = "done" /\ taskAlive)

(* destroy() ends: nobody waits for ever in msg_q_rcv or pthread_join, and *)
(* the delegate is deleted.                                                *)
DestroyEnds == ownerPc # "idle" ~> ~delegateAlive

\* Delegate and messages have an owner until they are deleted, once; the
\* runnable is deleted in the end (its use after that is no part of it).
OwnedOnce == TypeOK /\ DelegateOutlivesUse /\ DelegateFreed /\ MessageOwnedOnce /\ RunnableDeleted

\* Accepted messages end, and so does a task that is destroyed.
TaskEnds == MessageEnds /\ DestroyEnds
=============================================================================
