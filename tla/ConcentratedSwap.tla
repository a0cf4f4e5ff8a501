-------------------------- MODULE ConcentratedSwap --------------------------
(***************************************************************************)
(* The swap arithmetic of a pool with concentrated liquidity, as the       *)
(* aggregator computes it (aggregator/src/buckets.ts, fixed-point.ts and   *)
(* the bucket trace of clearing.ts).  A pool is a square-root price and a  *)
(* grid of adjoining buckets:                                              *)
(*   [sqrtP, bounds : Seq([lower, upper]), buckets : Seq([a, b, liquidity])]*)
(* Prices are fixed-point numbers of SCALE; every quotient is floored, as  *)
(* in the code.  The per-share fee counters only grow, so a trace names    *)
(* what it adds to them.                                                   *)
(***************************************************************************)
EXTENDS Integers, Sequences, SequencesExt, FiniteSetsExt

CONSTANTS
  SCALE,
  FEE_BPS, FEE_SCALE,      \* the fee withheld from what a swap puts in
  MAX_BUCKET_HOPS

ASSUME SwapConstants ==
  /\ SCALE \in Nat \ {0} /\ MAX_BUCKET_HOPS \in Nat
  /\ FEE_SCALE \in Nat \ {0} /\ FEE_BPS \in 0..(FEE_SCALE - 1)

mulDiv(a, b, c) == (a * b) \div c

AfterFee(amount) == (amount * (FEE_SCALE - FEE_BPS)) \div FEE_SCALE

-----------------------------------------------------------------------------
(* Deposits *)

computeDeposit(x_a, x_b, p, bounds) ==
  LET lo == bounds.lower
      hi == bounds.upper
      liquidityA(from) == mulDiv(x_a, mulDiv(from, hi, SCALE), hi - from)
      liquidityB(to) == mulDiv(x_b, SCALE, to - lo)
      l == Min({liquidityA(p), liquidityB(p)})
  IN IF p <= lo THEN [liquidity |-> liquidityA(lo), a |-> x_a, b |-> 0]
     ELSE IF p >= hi THEN [liquidity |-> liquidityB(hi), a |-> 0, b |-> x_b]
     ELSE [liquidity |-> l,
           a |-> mulDiv(l, hi - p, mulDiv(p, hi, SCALE)),
           b |-> mulDiv(l, p - lo, SCALE)]

-----------------------------------------------------------------------------
(* One step inside a bucket: up puts token B in and takes A out, down puts *)
(* A in and takes B out.                                                   *)

nextSqrtPUp(l, p, in) == p + mulDiv(in, SCALE, l)
nextSqrtPDown(l, p, in) == mulDiv(p, l, l + mulDiv(in, p, SCALE))
NextSqrtP(up, l, p, in) == IF up THEN nextSqrtPUp(l, p, in) ELSE nextSqrtPDown(l, p, in)

swapStepOutA(l, p, q) == mulDiv(l, q - p, mulDiv(p, q, SCALE))
swapStepOutB(l, p, q) == mulDiv(l, p - q, SCALE)
StepOut(up, l, p, q) == IF up THEN swapStepOutA(l, p, q) ELSE swapStepOutB(l, p, q)

\* stepInMax: what the bucket takes until the price is at its edge.
Room(up, l, p, bounds) ==
  IF up THEN mulDiv(l, bounds.upper - p, SCALE)
  ELSE mulDiv(l, p - bounds.lower, mulDiv(p, bounds.lower, SCALE))

-----------------------------------------------------------------------------
(* The trace of a swap through the buckets *)

\* The grid has no gaps; its top edge belongs to the last bucket.
StartBucket(pool) ==
  LET at == {i \in DOMAIN pool.bounds :
               pool.bounds[i].lower <= pool.sqrtP /\ pool.sqrtP < pool.bounds[i].upper}
  IN IF at # {} THEN Min(at)
     ELSE IF pool.sqrtP < pool.bounds[1].lower THEN 1 ELSE Len(pool.bounds)

\* The containment guard of the walk.  It can only fire in its first bucket, at
\* a price that has slipped out of the grid; then the trace throws.
Contained(pool) ==
  LET bounds == pool.bounds[StartBucket(pool)]
  IN bounds.lower <= pool.sqrtP /\ pool.sqrtP <= bounds.upper

\* The walk s after bucket s.at has taken in, for the fee given.
Step(pool, up, s, in, sqrtP, fee) ==
  LET l == pool.buckets[s.at].liquidity
      delta == [bucket |-> s.at, in |-> in, out |-> StepOut(up, l, s.sqrtP, sqrtP),
                feeInc |-> mulDiv(fee, SCALE, l)]
  IN [s EXCEPT !.sqrtP = sqrtP, !.left = @ - in, !.feeDistributed = @ + fee,
               !.deltas = Append(@, delta)]

\* One turn of the loop.  The bucket that ends the swap takes what is left of
\* the fee, so that the parts add up to it.
Visit(pool, up, s) ==
  LET l == pool.buckets[s.at].liquidity
      edge == IF up THEN pool.bounds[s.at].upper ELSE pool.bounds[s.at].lower
      room == Room(up, l, s.sqrtP, pool.bounds[s.at])
      next == IF up THEN s.at + 1 ELSE s.at - 1
  IN IF l = 0 THEN [s EXCEPT !.sqrtP = edge, !.at = next]
     ELSE IF s.left <= room
       THEN Step(pool, up, s, s.left, NextSqrtP(up, l, s.sqrtP, s.left), s.fee - s.feeDistributed)
       ELSE [Step(pool, up, s, room, edge, mulDiv(s.fee, room, s.total)) EXCEPT !.at = next]

\* Deltas are handed on by bucket number.
Trace(up, end) ==
  [feasible |-> end.left = 0 /\ Len(end.deltas) <= MAX_BUCKET_HOPS,
   up |-> up,
   sqrtP |-> end.sqrtP,
   fee |-> end.fee,
   deltas |-> IF up THEN end.deltas ELSE Reverse(end.deltas)]

\* The walk from the current price.
traceBucketSwap(pool, up, gross) ==
  LET start == [sqrtP |-> pool.sqrtP, at |-> StartBucket(pool), left |-> AfterFee(gross),
                total |-> AfterFee(gross), fee |-> gross - AfterFee(gross),
                feeDistributed |-> 0, deltas |-> <<>>]
      walk[n \in 0..Len(pool.bounds)] ==
        IF n = 0 THEN start
        ELSE LET s == walk[n - 1]
             IN IF s.left = 0 \/ s.at \notin DOMAIN pool.bounds THEN s
                ELSE Visit(pool, up, s)
  IN Trace(up, walk[Len(pool.bounds)])

NoTrace(pool) == [feasible |-> TRUE, up |-> FALSE, sqrtP |-> pool.sqrtP, fee |-> 0,
                  deltas |-> <<>>]

Ins(trace) == [k \in DOMAIN trace.deltas |-> trace.deltas[k].in]
Outs(trace) == [k \in DOMAIN trace.deltas |-> trace.deltas[k].out]
TotalIn(trace) == SumFunction(Ins(trace))
TotalOut(trace) == SumFunction(Outs(trace))

-----------------------------------------------------------------------------
(* The net flow of a batch, routed at a candidate price of B in A *)

NoSwap(pool, saturated, p) ==
  [saturated |-> saturated, trace |-> NoTrace(pool), realizedP |-> p,
   ammAIn |-> 0, ammAOut |-> 0, ammBIn |-> 0, ammBOut |-> 0]
Untraded(pool, p) == NoSwap(pool, FALSE, p)
Saturated(pool) == NoSwap(pool, TRUE, 0)

\* What the trace of a swap exchanges, and at which price.
Traded(t, gross) ==
  LET out == TotalOut(t)
      a == IF t.up THEN out ELSE gross
      b == IF t.up THEN gross ELSE out
  IN [saturated |-> FALSE, trace |-> t,
      realizedP |-> IF b = 0 THEN 0 ELSE mulDiv(a, SCALE, b),
      ammAIn |-> IF t.up THEN 0 ELSE gross, ammAOut |-> IF t.up THEN out ELSE 0,
      ammBIn |-> IF t.up THEN gross ELSE 0, ammBOut |-> IF t.up THEN 0 ELSE out]

Routed(pool, t, gross) == IF t.feasible THEN Traded(t, gross) ELSE Saturated(pool)

bucketNetSwap(pool, netA, p) ==
  LET up == netA < 0
      gross == IF up THEN mulDiv(-netA, SCALE, p) ELSE netA
  IN IF netA = 0 THEN Untraded(pool, p)
     ELSE Routed(pool, traceBucketSwap(pool, up, gross), gross)

-----------------------------------------------------------------------------
(* What a trace moves between the orderbook and the pool *)

\* The fee that reaches the pool is what its per-share counters will pay out.
recoverForwardedFee(pool, trace) ==
  SumFunction([k \in DOMAIN trace.deltas |->
    mulDiv(trace.deltas[k].feeInc, pool.buckets[trace.deltas[k].bucket].liquidity, SCALE)])

deriveAggregateFlows(pool, trace) ==
  LET in == TotalIn(trace) + recoverForwardedFee(pool, trace)
      out == TotalOut(trace)
  IN [aToPool |-> IF trace.up THEN 0 ELSE in, bToPool |-> IF trace.up THEN in ELSE 0,
      aFromPool |-> IF trace.up THEN out ELSE 0, bFromPool |-> IF trace.up THEN 0 ELSE out]

\* The pool after the trace, as apply_clearing leaves it.
ApplyTrace(pool, trace) ==
  LET visits(i) == {k \in DOMAIN trace.deltas : trace.deltas[k].bucket = i}
      in(i) == SumFunctionOnSet(Ins(trace), visits(i))
      out(i) == SumFunctionOnSet(Outs(trace), visits(i))
      moved(i, b) == IF trace.up THEN [b EXCEPT !.a = b.a - out(i), !.b = b.b + in(i)]
                     ELSE [b EXCEPT !.a = b.a + in(i), !.b = b.b - out(i)]
  IN [pool EXCEPT
        !.sqrtP = trace.sqrtP,
        !.buckets = [i \in DOMAIN pool.buckets |-> moved(i, pool.buckets[i])]]

=============================================================================
