--------------------------- MODULE MCCapacityGate ---------------------------
(* Instances of CapacityGate for TLC. *)
EXTENDS CapacityGate, TLC

CONSTANTS c1, c2, n1

OneEach == n1 :> 1
Unreported == n1 :> 0
ClientSymmetry == Permutations(Clients)
=============================================================================
