-------------------------- MODULE MCClearingRounds --------------------------
(* Instances of ClearingRounds for TLC.  Prices around 1 = SCALE. *)
EXTENDS ClearingRounds

B(lo, hi) == [lower |-> lo, upper |-> hi]
MCGrid == <<B(8000, 10000), B(10000, 12500)>>

D(bucket, a, b) == [bucket |-> bucket, a |-> a, b |-> b]
Low == D(1, 3000, 3000)
High == D(2, 3000, 3000)
MCDeposits == {High}

Launch(sqrtP, funding) == [sqrtP |-> sqrtP, funding |-> funding]

\* The first pool unfunded, with an empty bucket above its price, at it or at
\* an edge, or with both buckets, also at the bottom where a pool is created;
\* the second always funded.
MCLaunches ==
  {<<l, Launch(10000, <<Low, High>>)>> : l \in
     {Launch(10000, <<>>), Launch(10000, <<Low>>), Launch(11000, <<Low>>)}
     \cup {Launch(p, <<Low, High>>) : p \in {8000, 9000, 10000, 11000}}}

\* A price close to the edge between two funded buckets.
EdgeLaunches == {<<Launch(10200, <<Low, High>>), Launch(10000, <<Low, High>>)>>}

Order(n, side, in, limit, hops) ==
  [nonce |-> n, side |-> side, amountIn |-> in, limit |-> limit, at |-> n, hops |-> hops]

MCOrders ==
  {Order(n, side, in, limit, <<1>>) :
     n \in 1..2, side \in BOOLEAN, in \in {1000, 3000}, limit \in {9000, 10000, 11000}}
  \cup {Order(3, FALSE, 50, 10000, <<1>>), Order(3, TRUE, 1500, 9500, <<2>>),
        Order(3, FALSE, 1500, 20000, <<1, 2>>)}

\* Orders the dust guard lets through.
LargeOrders == {o \in MCOrders : o.amountIn >= MIN_FILL_AMOUNT_IN /\ Len(o.hops) = 1}
=============================================================================
