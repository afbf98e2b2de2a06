---------------------------- MODULE MCRPCChannel ----------------------------
(* TLC instances of RPCChannel; no symmetry, the run checks liveness. *)
EXTENDS RPCChannel
=============================================================================
