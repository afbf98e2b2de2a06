------------------------------ MODULE MCMaster ------------------------------
(* TLC instances of Master; no symmetry, servers are numbered. *)
EXTENDS Master
TwoServers == 1 .. 2
OneSticky == {1}
=============================================================================
