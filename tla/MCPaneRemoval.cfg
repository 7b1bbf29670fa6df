CONSTANTS
  Pane = {p1, p2, p3, p4, p5}
  MaxNamed = 5
SPECIFICATION WalkSpec
INVARIANTS WalkTypeOK NothingLost OneVictimIsExact EachCallRemovesSome
PROPERTY LoopEnds
CHECK_DEADLOCK FALSE
