--------------------------- MODULE MCClientDomain ---------------------------
(* Instance of ClientDomain for TLC.  Local ids are picked in a fixed way, *)
(* so there is no symmetry to use; those of windows differ from the        *)
(* server's.                                                               *)
EXTENDS ClientDomain

LocalIds == 1 .. 6
LocalWindows == 11 .. 14
=============================================================================
