----------------------------- MODULE RankedSet ------------------------------
(***************************************************************************)
(* What the heap is to LocTimer: a collection whose top is a highest       *)
(* ranking object, from which the top can be popped and an object can be   *)
(* removed.  Among equally ranked objects any may be the top, but an       *)
(* object keeps that place until it leaves or is outranked.                *)
(*                                                                         *)
(* The source describes remove() twice, and differently.  LocHeap.h        *)
(* (lines 84-87) takes the node that ranks the same as the argument out of *)
(* the heap; LocHeap.cpp (above LocHeapNode::remove) takes the node that   *)
(* has the argument itself, or none and returns NULL.  They differ as soon *)
(* as two objects rank equally.  Remove says the second: LocTimer deletes  *)
(* the object it gave, so that one must have left, and no other.           *)
(***************************************************************************)
EXTENDS Naturals

CONSTANTS Data, Ranks, NULL

VARIABLES contents,   \* the objects in the heap
          top,        \* what peek() returns
          rank,       \* their ranks, which do not change while they are in it
          ret         \* the pointer the last pop() or remove() returned

rvars == <<contents, top, rank, ret>>

Tops(S) == IF S = {} THEN {NULL} ELSE {d \in S : \A e \in S : rank[e] <= rank[d]}

Push(d) ==
  /\ d \notin contents
  /\ contents' = contents \cup {d}
  /\ top' = IF top = NULL THEN d ELSE IF rank[d] > rank[top] THEN d ELSE top
  /\ UNCHANGED <<rank, ret>>

Take(d) ==
  /\ ret' = d
  /\ contents' = contents \ {d}
  /\ IF d = top THEN top' \in Tops(contents') ELSE UNCHANGED top
  /\ UNCHANGED rank

Pop       == Take(top)

\* By address: an equal of d stays, also when d itself is not there.
Remove(d) == IF d \in contents THEN Take(d) ELSE ret' = NULL /\ UNCHANGED <<contents, top, rank>>

Init == contents = {} /\ top = NULL /\ rank \in [Data -> Ranks] /\ ret = NULL
Next == Pop \/ \E d \in Data : Push(d) \/ Remove(d)
Spec == Init /\ [][Next]_rvars
=============================================================================
