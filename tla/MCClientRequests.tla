--------------------------- MODULE MCClientRequests ---------------------------
(* TLC instances of ClientRequests; no symmetry, the run checks liveness. *)
EXTENDS ClientRequests
\* Ids that grow by a byte after one or two attempts, from one to two and from four to five.
BoundaryIds == {126, 268435454}
=============================================================================
