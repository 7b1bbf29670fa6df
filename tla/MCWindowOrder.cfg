CONSTANTS
  None = none
  Tab = {t1, t2, t3, t4, t5, t6}
  SwitchToLastActive = TRUE
SYMMETRY TabSymmetry
SPECIFICATION WindowSpec
INVARIANT WindowTypeOK
PROPERTIES OthersGoActiveStays MoveOnlyReorders GoesBack
