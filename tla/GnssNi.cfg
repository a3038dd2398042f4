SPECIFICATION FairSpec
INVARIANTS RequestsHeld AnswerIsFromUser
PROPERTY RequestEnds
CONSTANTS
  MaxRequests = 3
  MaxReplies = 1
  Responses = {"ACCEPT", "DENY"}
CHECK_DEADLOCK FALSE
