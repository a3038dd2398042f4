SPECIFICATION Spec
INVARIANTS TypeOK ForSomeone InactiveIsLeaving OpenIsBacked
CONSTANTS
  Handles = {h1, h2}
  ModemTypes = {"SUPL", "SUPL_ES"}
  ServedTypes = {"SUPL"}
  DsAnswers = {"SUCCESS", "BUSY", "UNSUPPORTED", "OTHER"}
  UseEmergencyPdn = TRUE
  MaxRetries = 1
SYMMETRY HandleSymmetry
CHECK_DEADLOCK FALSE
