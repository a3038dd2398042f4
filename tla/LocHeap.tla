------------------------------ MODULE LocHeap -------------------------------
(***************************************************************************)
(* The heap of gps/utils/LocHeap.cpp, a binary tree sorted only            *)
(* vertically.  A LocHeapNode is a record; the recursive methods return    *)
(* the new subtree instead of changing it through a reference.  Data are   *)
(* the client's LocRankable objects, told apart by address; several may    *)
(* rank equally.                                                           *)
(***************************************************************************)
EXTENDS Naturals

CONSTANTS Data,    \* LocRankable objects
          Ranks,   \* a set of numbers; the larger outranks
          NULL     \* not an object

ASSUME RanksAssumption == Ranks \subseteq Nat /\ NULL \notin Data

VARIABLES mTree,   \* the root
          rank,    \* [Data -> Ranks]
          ret,     \* what the last pop() or remove() returned
          shrunk   \* a node has been taken out since the heap was empty

vars == <<mTree, rank, ret, shrunk>>

(* No node has mSize 0; a new one has 1.                                   *)
Nil            == [mSize |-> 0]
LocHeapNode(d) == [mSize |-> 1, mLeft |-> Nil, mRight |-> Nil, mData |-> d]

outRanks(d, e) == rank[d] > rank[e]

RECURSIVE DataIn(_)
DataIn(t) == IF t = Nil THEN {} ELSE {t.mData} \cup DataIn(t.mLeft) \cup DataIn(t.mRight)

-----------------------------------------------------------------------------
(* LocHeapNode::push, with the side the new node goes down.                *)
SideToGrow(t) ==
  IF t.mLeft = Nil THEN "mLeft"
  ELSE IF t.mRight = Nil THEN "mRight"
  ELSE IF t.mLeft.mSize <= t.mRight.mSize THEN "mLeft" ELSE "mRight"

RECURSIVE nodePush(_, _)
nodePush(t, d) ==
  LET stay == IF outRanks(d, t.mData) THEN d ELSE t.mData
      drop == IF outRanks(d, t.mData) THEN t.mData ELSE d
      side == SideToGrow(t)
  IN  [t EXCEPT !.mData = stay,
                ![side] = IF @ = Nil THEN LocHeapNode(drop) ELSE nodePush(@, drop),
                !.mSize = @ + 1]

(* LocHeapNode::pop: the child that takes the place of the top.            *)
SideToRaiseWrong(t) ==   \* mutant: the lower ranking child
  IF t.mLeft = Nil THEN "mRight"
  ELSE IF t.mRight = Nil THEN "mLeft"
  ELSE IF outRanks(t.mLeft.mData, t.mRight.mData) THEN "mRight" ELSE "mLeft"

SideToRaise(t) ==
  IF t.mLeft = Nil THEN "mRight"
  ELSE IF t.mRight = Nil THEN "mLeft"
  ELSE IF outRanks(t.mLeft.mData, t.mRight.mData) THEN "mLeft" ELSE "mRight"

RECURSIVE nodePop(_)
nodePop(t) ==
  IF t.mLeft = Nil /\ t.mRight = Nil
  THEN Nil
  ELSE LET side == SideToRaise(t)
       IN  [t EXCEPT !.mData = t[side].mData, ![side] = nodePop(@), !.mSize = @ - 1]

(* LocHeapNode::remove: subtrees the datum outranks are not searched.      *)
MayHoldStrictly(t, d) == t # Nil /\ outRanks(t.mData, d)   \* mutant: ties are cut off
MayHold(t, d) == t # Nil /\ ~outRanks(d, t.mData)

RECURSIVE nodeRemove(_, _)
nodeRemove(t, d) ==
  IF t.mData = d THEN nodePop(t)
  ELSE IF ~MayHold(t, d) THEN t
  ELSE LET left  == IF t.mLeft = Nil THEN Nil ELSE nodeRemove(t.mLeft, d)
           right == IF left # t.mLeft \/ t.mRight = Nil THEN t.mRight
                    ELSE nodeRemove(t.mRight, d)
           lost  == left # t.mLeft \/ right # t.mRight
       IN  [t EXCEPT !.mLeft = left, !.mRight = right, !.mSize = IF lost THEN @ - 1 ELSE @]

-----------------------------------------------------------------------------
(* The LocHeap.  A client does not push an object that is in the heap.     *)

push(d) ==
  /\ d \notin DataIn(mTree)
  /\ mTree' = IF mTree = Nil THEN LocHeapNode(d) ELSE nodePush(mTree, d)
  /\ UNCHANGED <<rank, ret, shrunk>>

peek == IF mTree = Nil THEN NULL ELSE mTree.mData

(* Was the heap smaller before, and is it not empty now?                   *)
Shrink == shrunk' = (mTree' # Nil /\ (shrunk \/ mTree' # mTree))

pop ==
  /\ ret' = peek
  /\ mTree' = IF mTree = Nil THEN Nil ELSE nodePop(mTree)
  /\ Shrink
  /\ UNCHANGED rank

remove(d) ==
  /\ mTree' = IF mTree = Nil THEN Nil ELSE nodeRemove(mTree, d)
  /\ ret' = IF mTree' = mTree THEN NULL ELSE d
  /\ Shrink
  /\ UNCHANGED rank

Init == /\ mTree = Nil /\ ret = NULL /\ shrunk = FALSE
        /\ rank \in [Data -> Ranks]

Next == pop \/ \E d \in Data : push(d) \/ remove(d)

Spec == Init /\ [][Next]_vars

-----------------------------------------------------------------------------
(* checkNodes: no child outranks its parent, and mSize counts the nodes.   *)
RECURSIVE checkNodes(_)
checkNodes(t) ==
  t = Nil \/ /\ t.mSize = t.mLeft.mSize + t.mRight.mSize + 1
             /\ \A c \in {t.mLeft, t.mRight} \ {Nil} : ~outRanks(c.mData, t.mData)
             /\ checkNodes(t.mLeft) /\ checkNodes(t.mRight)

(* LocHeap::checkTree holds after any sequence of push, pop and remove.    *)
checkTree == mTree = Nil \/ checkNodes(mTree)

RECURSIVE Even(_)
Even(t) ==
  t = Nil \/ /\ t.mLeft.mSize <= t.mRight.mSize + 1
             /\ t.mRight.mSize <= t.mLeft.mSize
             /\ Even(t.mLeft) /\ Even(t.mRight)

(* "it is guaranteed that the subtree that is smaller gets to have the new *)
(* node": until the first pop or remove the tree is balanced everywhere,   *)
(* so the recursions are logarithmic.                                      *)
GrowsBalanced == ~shrunk => Even(mTree)

(* push, peek, pop and remove are those of a collection ordered by rank,   *)
(* from which remove() takes the very object it is given: what LocTimer    *)
(* needs and LocHeap.cpp says.  LocHeap.h:84-87 says that it takes one of  *)
(* the same rank, which it does not do.                                    *)
Contents == INSTANCE RankedSet WITH contents <- DataIn(mTree), top <- peek
ImplementsRankedSet == Contents!Spec

\* The tree is a heap with right sizes, and grows on its smaller side.
TreeIsSound == checkTree /\ GrowsBalanced
=============================================================================
