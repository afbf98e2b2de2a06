---------------------------- MODULE MCMailstation ----------------------------
(* Constants of the Mailstation models: calls are interchangeable.         *)
EXTENDS Mailstation, TLC

CallSymmetry == Permutations(Calls)
AllFaults == FaultKinds
OneServer == {"s1"}
TwoInfos == {"v1", "v2"}
OneInfo == {"v1"}
=============================================================================
