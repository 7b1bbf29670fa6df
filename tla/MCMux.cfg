CONSTANTS
  None = none
  Window = {w1, w2}
  Tab = {t1, t2}
  Pane = {p1, p2}
  Remote = {p2}
  SwitchToLastActive = TRUE
  MaxSplits = 1
  SplitsAlone = TRUE
  ResizeFails = FALSE
SYMMETRY IdSymmetry
SPECIFICATION Spec
INVARIANTS TypeOK OneHomeEach CleanupNotLost EmptyIsTold
