--------------------------- MODULE MCRemoteScreens ---------------------------
(* A small instance of RemoteScreens. *)
EXTENDS RemoteScreens
=============================================================================
