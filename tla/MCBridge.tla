------------------------------ MODULE MCBridge ------------------------------
(* Instances of Bridge for TLC. *)
EXTENDS Bridge, TLC

DepositorSymmetry == Permutations(Depositors) \cup Permutations(L2Tokens)
=============================================================================
