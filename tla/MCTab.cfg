CONSTANTS
  Pane = {p1, p2, p3, p4}
  None = None
  MaxGroups = 2
  MaxVictims = 1
  UnzoomOnSwitch = TRUE
  HidePanes = FALSE
  SwapByIndex = FALSE
SYMMETRY PaneSymmetry
SPECIFICATION Spec
INVARIANTS GroupsAreSubtrees StacksShowOneUnit StacksNameUnits
PROPERTY KeepsPromise
