---------------------------- MODULE MCPaneGroups ----------------------------
(* Instance of PaneGroups for TLC; all panes are alike.                    *)
EXTENDS PaneGroups, TLC

PaneSymmetry == Permutations(Pane)
=============================================================================
