CONSTANTS
    Workers = {w1, w2}
    WakeDelay = 1
    MaxTimers = 2
    MaxMessages = 3
SPECIFICATION FairWakeSpec
INVARIANTS WakeLockGuarded TimersKept
PROPERTY EventsEnd
CHECK_DEADLOCK FALSE
