--------------------------- MODULE MCWindowOrder ---------------------------
(* Instance of WindowOrder for TLC; all tabs are alike.                    *)
EXTENDS WindowOrder, TLC

TabSymmetry == Permutations(Tab)
=============================================================================
