SPECIFICATION FairSpec
INVARIANT TimersTracked
PROPERTIES OutcomeIsFinal TimersEnd
CONSTANTS
  Clients = {c1, c2}
  Deletable = {c2}
  MaxStarts = 3
  MaxTime = 3
  NoClient = NoClient
CHECK_DEADLOCK FALSE
