SPECIFICATION FairSpec
INVARIANTS OwnedOnce NoLostWakeup
PROPERTIES ImplementsQueue TaskEnds
CONSTANT Messages = {m1, m2, m3}
CHECK_DEADLOCK FALSE
