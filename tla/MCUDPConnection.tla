---------------------------- MODULE MCUDPConnection ----------------------------
(* TLC instances of UDPConnection; no symmetry, the run checks liveness. *)
EXTENDS UDPConnection
=============================================================================
