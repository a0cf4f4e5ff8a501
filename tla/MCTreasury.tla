----------------------------- MODULE MCTreasury -----------------------------
(* Instances of Treasury for TLC. *)
EXTENDS Treasury, TLC

AccountSymmetry == Permutations(Accounts)
=============================================================================
