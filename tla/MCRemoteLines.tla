---------------------------- MODULE MCRemoteLines ----------------------------
(* A small instance of RemoteLines. *)
EXTENDS RemoteLines
=============================================================================
