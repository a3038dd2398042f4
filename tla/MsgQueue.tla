------------------------------ MODULE MsgQueue ------------------------------
(***************************************************************************)
(* What a MsgTask promises its callers: messages are handled one at a      *)
(* time, in the order in which they were accepted, each at most once; once *)
(* the queue is closed it accepts no more, and what is left is discarded.  *)
(***************************************************************************)
EXTENDS Naturals, Sequences

CONSTANT Messages

VARIABLES pending,   \* accepted and not yet taken
          taken,     \* taken by the thread, oldest first
          open

qvars == <<pending, taken, open>>

Accept(m) == /\ open
             /\ pending' = Append(pending, m)
             /\ UNCHANGED <<taken, open>>

Take == /\ pending # <<>>
        /\ taken' = Append(taken, Head(pending))
        /\ pending' = Tail(pending)
        /\ UNCHANGED open

Close == open' = FALSE /\ UNCHANGED <<pending, taken>>

Discard == ~open /\ pending' = <<>> /\ UNCHANGED <<taken, open>>

Init == pending = <<>> /\ taken = <<>> /\ open = TRUE
Next == (\E m \in Messages : Accept(m)) \/ Take \/ Close \/ Discard
Spec == Init /\ [][Next]_qvars
=============================================================================
