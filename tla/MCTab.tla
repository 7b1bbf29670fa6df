------------------------------- MODULE MCTab -------------------------------
(* Instances of Tab for TLC.  Every definition treats all panes alike, so  *)
(* permuting them is a symmetry; the runs that use it check safety only.   *)
EXTENDS Tab

PaneSymmetry == Permutations(Pane)
=============================================================================
