CONSTANTS
    Calls = 2
    MaxFrameworks = 2
SPECIFICATION FairSpec
INVARIANTS MemorySound AnsweredOnce LivingIsHeard
PROPERTY RequestEnds
CHECK_DEADLOCK FALSE
