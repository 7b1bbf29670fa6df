CONSTANT Pane = {p1, p2, p3, p4, p5}
SYMMETRY PaneSymmetry
SPECIFICATION Spec
INVARIANTS TypeOK GroupsAreSubtrees StacksShowOneUnit OnlyStacksHide
