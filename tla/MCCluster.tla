------------------------------ MODULE MCCluster ------------------------------
(* TLC instances of Cluster; no symmetry, the run checks liveness. *)
EXTENDS Cluster
=============================================================================
