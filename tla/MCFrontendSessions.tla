------------------------- MODULE MCFrontendSessions -------------------------
(* Constants of the FrontendSessions models.                               *)
EXTENDS FrontendSessions, TLC

SidSymmetry == Permutations(Sids)
SidUidSymmetry == Permutations(Sids) \cup Permutations(Uids)
=============================================================================
