-------------------------- MODULE MCLiquidityPool --------------------------
(* Instances of LiquidityPool for TLC.                                     *)
EXTENDS LiquidityPool, TLC

Symmetry == Permutations(NoteIds) \cup Permutations(Wallets)

MCDeltas ==
  { [bucket_id |-> 0, reserve_add |-> Pair(1, 0), reserve_sub |-> Pair(0, 1),
     cum_fee_increment |-> Pair(1, 0)],
    [bucket_id |-> 0, reserve_add |-> Pair(0, 1), reserve_sub |-> Pair(1, 0),
     cum_fee_increment |-> Pair(0, 0)],
    [bucket_id |-> 1, reserve_add |-> Pair(0, 0), reserve_sub |-> Pair(1, 0),
     cum_fee_increment |-> Pair(1, 0)] }


MCStaleDeltas ==
  { [bucket_id |-> 0, reserve_add |-> Pair(1, 0), reserve_sub |-> Pair(0, 0),
     cum_fee_increment |-> Pair(1, 0)] }

\* No clearing touches a bucket.
MCDeltas0 == {}

============================================================================
