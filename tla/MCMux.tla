------------------------------- MODULE MCMux -------------------------------
(* Instance of Mux for TLC; windows, tabs, and panes of a kind are alike.  *)
EXTENDS Mux, TLC

IdSymmetry ==
  Permutations(Window) \cup Permutations(Tab)
    \cup Permutations(Remote) \cup Permutations(Pane \ Remote)
=============================================================================
