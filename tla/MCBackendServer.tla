-------------------------- MODULE MCBackendServer --------------------------
(* The BackendServer model for TLC; no symmetry, the run checks liveness. *)
EXTENDS BackendServer
=============================================================================
