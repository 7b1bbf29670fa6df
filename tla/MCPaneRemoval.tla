--------------------------- MODULE MCPaneRemoval ---------------------------
(* Instance of PaneRemoval for TLC: every tree of up to Cardinality(Pane)  *)
(* leaves, every choice of victims, every active index.                    *)
EXTENDS PaneRemoval
=============================================================================
