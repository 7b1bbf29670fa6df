---------------------------- MODULE MCMainThread ----------------------------
(* Instance of MainThread for TLC: one task of each kind.                  *)
EXTENDS MainThread

Tasks == {"promise", "thread", "plain", "low"}
=============================================================================
