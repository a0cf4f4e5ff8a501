--------------------------- MODULE ClearingCircuit ---------------------------
(***************************************************************************)
(* What the clearing circuit (circuits/clearing/src) asserts of the fills, *)
(* the prices and the buckets of an epoch, as a predicate on what the      *)
(* aggregator feeds it, in integers of its widths.  The accumulators, the  *)
(* Merkle root of the fills and the state commitment it asserts too are in *)
(* Orderbook and AggregatorProofs; two-hop fills it rejects, and none is   *)
(* built here.  That the growing per-share fee counters fit is left out.   *)
(***************************************************************************)
EXTENDS ClearingEngine

CONSTANT TWO_POW_64      \* what half a u128 holds

ASSUME WidthConstants ==
  TWO_POW_64 \in Nat /\ SCALE < TWO_POW_64 /\ FEE_SCALE < TWO_POW_64

FitsU128(n) == n < TWO_POW_64 * TWO_POW_64

\* What mul_div takes: its halves are multiplied out and added without a carry,
\* and it divides by no more than 64 bits.
mul_div_fits(x, y, z) ==
  LET lo(n) == n % TWO_POW_64
      hi(n) == n \div TWO_POW_64
  IN /\ FitsU128(x) /\ FitsU128(y)
     /\ z \in 1..(TWO_POW_64 - 1)
     /\ hi(lo(x) * lo(y)) + lo(lo(x) * hi(y)) + lo(hi(x) * lo(y)) < TWO_POW_64
     /\ FitsU128(mulDiv(x, y, z))

saturating_sub(x, y) == IF x > y THEN x - y ELSE 0

\* Mutant: the floor that made net is not undone.
CeilWithoutFloor(net) ==
  (net * FEE_BPS + (FEE_SCALE - FEE_BPS) - 1) \div (FEE_SCALE - FEE_BPS)

\* The most a fee can have been whose swap brought net into the pool: net was
\* floored, hence the unit.
ceil_fee_from_net(net) ==
  ((net + 1) * FEE_BPS + (FEE_SCALE - FEE_BPS) - 1) \div (FEE_SCALE - FEE_BPS)

-----------------------------------------------------------------------------
(* B, B', C: who is filled *)

\* Every fill is eligible, and every eligible order that is not cancelled and
\* whose pool is active is filled.
FillsAreTheEligible(orders, i, r) ==
  /\ \A o \in DOMAIN r.fills : Eligible(o, r.price)
  /\ {o \in orders : o.hops = <<i>> /\ Eligible(o, r.price)} \subseteq DOMAIN r.fills

-----------------------------------------------------------------------------
(* C2: what is paid *)

Paid(r, side) == SumFunctionOnSet(r.fills, side)

token_solvent(pay, to_pool, from_pool, escrow) == pay + to_pool <= from_pool + escrow

PaysNoMoreThanItHas(pool, r) ==
  LET buys == Buys(DOMAIN r.fills)
      sells == Sells(DOMAIN r.fills)
      flows == deriveAggregateFlows(pool, r.trace)
  IN /\ token_solvent(Paid(r, sells), flows.aToPool, flows.aFromPool, AmountIn(buys))
     /\ token_solvent(Paid(r, buys), flows.bToPool, flows.bFromPool, AmountIn(sells))

\* The least a side is owed together: what is left of its token, less the
\* rounding of the fee.
AvailFloor(from_pool, escrow, to_pool, fee_rec) ==
  LET avail == saturating_sub(from_pool + escrow, to_pool)
      net == saturating_sub(to_pool, fee_rec)
  IN saturating_sub(avail, saturating_sub(ceil_fee_from_net(net), fee_rec))

FloorA(pool, r) ==
  LET flows == deriveAggregateFlows(pool, r.trace)
      fee == IF r.trace.up THEN 0 ELSE recoverForwardedFee(pool, r.trace)
  IN AvailFloor(flows.aFromPool, AmountIn(Buys(DOMAIN r.fills)), flows.aToPool, fee)

FloorB(pool, r) ==
  LET flows == deriveAggregateFlows(pool, r.trace)
      fee == IF r.trace.up THEN recoverForwardedFee(pool, r.trace) ELSE 0
  IN AvailFloor(flows.bFromPool, AmountIn(Sells(DOMAIN r.fills)), flows.bToPool, fee)

NobodyIsShorted(pool, r) ==
  LET buys == Buys(DOMAIN r.fills)
      sells == Sells(DOMAIN r.fills)
  IN /\ \A o \in sells : r.fills[o] >= Share(FloorA(pool, r), sells, o)
     /\ \A o \in buys : r.fills[o] >= Share(FloorB(pool, r), buys, o)

\* What there is of a token to pay with, added up, and the share of each maker.
SharesFitWidths(pool, r) ==
  LET flows == deriveAggregateFlows(pool, r.trace)
      buys == Buys(DOMAIN r.fills)
      sells == Sells(DOMAIN r.fills)
  IN /\ FitsU128(flows.aFromPool + AmountIn(buys)) /\ FitsU128(flows.bFromPool + AmountIn(sells))
     /\ \A o \in sells : mul_div_fits(FloorA(pool, r), o.amountIn, AmountIn(sells))
     /\ \A o \in buys : mul_div_fits(FloorB(pool, r), o.amountIn, AmountIn(buys))

-----------------------------------------------------------------------------
(* D: how the pool moves *)

next_sqrt_p_up(l, p, delta_b) == p + mulDiv(delta_b, SCALE, l)

next_sqrt_p_down(l, p, delta_a) == mulDiv(p, l, l + mulDiv(delta_a, p, SCALE))

swap_step_out_a(l, p, q) == mulDiv(l, q - p, mulDiv(p, q, SCALE))
swap_step_out_b(l, p, q) == mulDiv(l, p - q, SCALE)

\* The price after a bucket's step, from the price before it.
BucketStep(pool, trace, p, d) ==
  LET l == pool.buckets[d.bucket].liquidity
  IN IF d.in = 0 THEN p
     ELSE IF trace.up THEN next_sqrt_p_up(l, p, d.in)
     ELSE next_sqrt_p_down(l, p, d.in)

ExpectedOut(pool, trace, p, d) ==
  LET l == pool.buckets[d.bucket].liquidity
      q == BucketStep(pool, trace, p, d)
  IN IF trace.up THEN swap_step_out_a(l, p, q) ELSE swap_step_out_b(l, p, q)

\* The step is computed within the widths.
StepFits(pool, trace, p, d) ==
  LET bucket == pool.buckets[d.bucket]
      l == bucket.liquidity
      q == BucketStep(pool, trace, p, d)
  IN IF trace.up
     THEN /\ FitsU128(bucket.b + d.in)
          /\ mul_div_fits(d.in, SCALE, l) /\ FitsU128(q)
          /\ mul_div_fits(p, q, SCALE) /\ mul_div_fits(l, q - p, mulDiv(p, q, SCALE))
     ELSE /\ FitsU128(bucket.a + d.in)
          /\ mul_div_fits(d.in, p, SCALE) /\ mul_div_fits(p, l, l + mulDiv(d.in, p, SCALE))
          /\ mul_div_fits(l, p - q, SCALE)

IsNoOp(d) == d.in = 0 /\ d.out = 0 /\ d.feeInc = 0

\* Mutant: the reserves after a step wrap instead of failing.
StepUnbacked(pool, trace, p, d) ==
  LET due == ExpectedOut(pool, trace, p, d)
  IN \/ IsNoOp(d)
     \/ d.in > 0 /\ StepFits(pool, trace, p, d) /\ d.out \in (due - 1)..(due + 1)

\* The reserves cover what came out, and that is what the formula gives, a
\* unit aside.
assert_bucket_step(pool, trace, p, d) ==
  LET bucket == pool.buckets[d.bucket]
      due == ExpectedOut(pool, trace, p, d)
  IN /\ d.out <= IF trace.up THEN bucket.a ELSE bucket.b
     /\ \/ IsNoOp(d)
        \/ d.in > 0 /\ StepFits(pool, trace, p, d) /\ d.out \in (due - 1)..(due + 1)

PoolEvolves(pool, trace) ==
  LET chain[k \in 0..Len(trace.deltas)] ==
        IF k = 0 THEN pool.sqrtP ELSE BucketStep(pool, trace, chain[k - 1], trace.deltas[k])
  IN /\ \A k \in 1..Len(trace.deltas) : assert_bucket_step(pool, trace, chain[k - 1], trace.deltas[k])
     /\ chain[Len(trace.deltas)] = trace.sqrtP

FeesWereCollected(pool, trace) ==
  /\ \A k \in DOMAIN trace.deltas :
       mul_div_fits(trace.deltas[k].feeInc, pool.buckets[trace.deltas[k].bucket].liquidity, SCALE)
  /\ FitsU128((TotalIn(trace) + 1) * FEE_BPS + (FEE_SCALE - FEE_BPS) - 1)
  /\ recoverForwardedFee(pool, trace) <= ceil_fee_from_net(TotalIn(trace))

-----------------------------------------------------------------------------

CircuitAccepts(orders, pools, clearing) ==
  \A i \in DOMAIN clearing :
    LET r == clearing[i]
    IN /\ FitsU128(r.price) /\ FillsAreTheEligible(orders, i, r)
       /\ PaysNoMoreThanItHas(pools[i], r)
       /\ NobodyIsShorted(pools[i], r) /\ SharesFitWidths(pools[i], r)
       /\ PoolEvolves(pools[i], r.trace)
       /\ FeesWereCollected(pools[i], r.trace)

=============================================================================
