SPECIFICATION FairSpec
INVARIANTS PlainReleasedEmpty AnswersTracked
PROPERTY SessionsAnswered
CONSTANTS
  Handles = {h1, h2, h3}
  ModemTypes = {"SUPL", "SUPL_ES"}
  ServedTypes = {"SUPL"}
  DsAnswers = {"SUCCESS"}
  UseEmergencyPdn = FALSE
  MaxRetries = 1
CHECK_DEADLOCK FALSE
