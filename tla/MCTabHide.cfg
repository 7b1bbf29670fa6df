CONSTANTS
  Pane = {p1, p2, p3}
  None = None
  MaxGroups = 2
  MaxVictims = 1
  UnzoomOnSwitch = FALSE
  HidePanes = TRUE
  SwapByIndex = TRUE
SYMMETRY PaneSymmetry
SPECIFICATION Spec
INVARIANTS TypeOK ActiveNamesPane GroupFocusIsMember
PROPERTY FocusSurvivesClose
