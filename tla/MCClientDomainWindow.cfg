CONSTANTS
  None = none
  Window <- LocalWindows
  Tab <- LocalIds
  Pane <- LocalIds
  Remote <- LocalIds
  SwitchToLastActive = TRUE
  MaxMade = 2
  MaxMoves = 1
  MaxInFlight = 2
SPECIFICATION Spec
CHECK_DEADLOCK FALSE
INVARIANT NeverPanics
