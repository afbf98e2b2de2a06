-------------------------- MODULE MCRemoteDirectory --------------------------
(* The RemoteDirectory models.                                             *)
EXTENDS RemoteDirectory, TLC
=============================================================================
