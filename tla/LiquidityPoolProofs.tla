-------------------------- MODULE LiquidityPoolProofs --------------------------
(* Theorems about LiquidityPool, for every value of its constants.          *)
EXTENDS LiquidityPool, SumTheorems

-----------------------------------------------------------------------------
(* Arithmetic.                                                              *)

\* A floored quotient is a natural number, and times its divisor at most the
\* dividend, which it misses by less than the divisor.
LEMMA DivFacts ==
  ASSUME NEW n \in Nat, NEW d \in Nat \ {0}
  PROVE  /\ n \div d \in Nat
         /\ (n \div d) * d <= n
         /\ n < (n \div d) * d + d
OBVIOUS

\* The same of mul_div.
LEMMA MulDivFacts ==
  ASSUME NEW x \in Nat, NEW y \in Nat, NEW d \in Nat \ {0}
  PROVE  /\ mul_div(x, y, d) \in Nat
         /\ mul_div(x, y, d) * d <= x * y
         /\ x * y < mul_div(x, y, d) * d + d
<1>1. x * y \in Nat
  OBVIOUS
<1> QED BY <1>1, DivFacts DEF mul_div

\* A part of x in proportion s/d, with s at most d, is at most x.
LEMMA PartIsSmaller ==
  ASSUME NEW x \in Nat, NEW s \in Nat, NEW d \in Nat \ {0}, s <= d
  PROVE  mul_div(s, x, d) <= x
<1> DEFINE m == mul_div(s, x, d)
<1>1. m \in Nat /\ m * d <= s * x
  BY MulDivFacts
<1> HIDE DEF m
<1>2. s * x <= d * x
  OBVIOUS
<1>3. SUFFICES ASSUME m > x PROVE FALSE
  BY <1>1 DEF m
<1>4. m * d >= (x + 1) * d
  BY <1>1, <1>3
<1>5. (x + 1) * d = d * x + d
  OBVIOUS
<1>6. m * d \in Nat /\ s * x \in Nat /\ d * x \in Nat
  BY <1>1
<1> QED BY <1>1, <1>2, <1>4, <1>5, <1>6

-----------------------------------------------------------------------------
(* Types of what a deposit, a withdrawal and a clearing compute.            *)

\* u128 values are natural numbers.
LEMMA U128IsNat == U128 \subseteq Nat
BY PoolConstants DEF U128

\* The amounts in a bucket's state are natural numbers.
LEMMA BucketNats ==
  \A b \in BucketStates : /\ b.liquidity \in Nat
                          /\ \A t \in Sides : b.reserve[t] \in Nat /\ b.cum_fee_per_share[t] \in Nat
BY U128IsNat DEF BucketStates, Amounts2

\* The amounts in a delta are natural numbers.
LEMMA DeltaNats ==
  \A d \in BucketDeltas : \A t \in Sides :
    d.reserve_add[t] \in Nat /\ d.reserve_sub[t] \in Nat /\ d.cum_fee_increment[t] \in Nat
BY U128IsNat DEF BucketDeltas, Amounts2

\* The share of a position, and the fee growth it records, are natural numbers.
LEMMA NoteNats ==
  \A p \in PositionNotes : /\ p.lp_share \in Nat
                           /\ \A t \in Sides : p.cum_fee_at_deposit[t] \in Nat
BY U128IsNat DEF PositionNotes, Amounts2

\* There are finitely many buckets.
LEMMA BucketsAreFinite == IsFiniteSet(BucketIds)
BY FS_Interval, PoolConstants DEF BucketIds

\* The mathematics of deposit returns natural numbers.
LEMMA DepositType ==
  ASSUME NEW x \in Amounts2, NEW sqrt_p \in U128, NEW k \in BucketIds,
         DepositFits(x, sqrt_p, k)
  PROVE  /\ compute_deposit(x, sqrt_p, k).l_used \in Nat
         /\ compute_deposit(x, sqrt_p, k).used \in [Sides -> Nat]
<1> DEFINE lower == sqrt_lower[k]
           upper == sqrt_upper(k)
<1>1. lower \in Nat /\ upper \in Nat /\ lower < upper
  BY BucketsHaveWidth
<1>2. sqrt_p \in Nat /\ x["a"] \in Nat /\ x["b"] \in Nat /\ SCALE \in Nat \ {0}
  BY U128IsNat, PoolConstants DEF Amounts2, Sides
<1>3. DepositFits(x, sqrt_p, k) =>
        \/ sqrt_p <= lower \/ sqrt_p >= upper
        \/ lower < sqrt_p /\ sqrt_p < upper /\ mul_div(sqrt_p, upper, SCALE) # 0
  BY DEF DepositFits
<1> HIDE DEF lower, upper
<1>4. ASSUME NEW y \in Nat, NEW z \in Nat PROVE Pair(y, z) \in [Sides -> Nat]
  BY DEF Pair
<1>5. upper - lower \in Nat \ {0}
  BY <1>1
<1>6. CASE sqrt_p <= lower
  <2>1. mul_div(lower, upper, SCALE) \in Nat
    BY <1>1, <1>2, MulDivFacts
  <2>2. mul_div(x["a"], mul_div(lower, upper, SCALE), upper - lower) \in Nat
    BY <1>2, <1>5, <2>1, MulDivFacts
  <2>3. Pair(x["a"], 0) \in [Sides -> Nat]
    BY <1>2, <1>4
  <2>4. compute_deposit(x, sqrt_p, k) = compute_deposit_below_range(x["a"], lower, upper)
    BY <1>6 DEF compute_deposit, lower, upper
  <2> QED BY <2>2, <2>3, <2>4 DEF compute_deposit_below_range
<1>7. CASE ~ (sqrt_p <= lower) /\ sqrt_p >= upper
  <2>1. mul_div(x["b"], SCALE, upper - lower) \in Nat
    BY <1>2, <1>5, MulDivFacts
  <2>2. Pair(0, x["b"]) \in [Sides -> Nat]
    BY <1>2, <1>4
  <2>3. compute_deposit(x, sqrt_p, k) = compute_deposit_above_range(x["b"], lower, upper)
    BY <1>7 DEF compute_deposit, lower, upper
  <2> QED BY <2>1, <2>2, <2>3 DEF compute_deposit_above_range
<1>8. CASE ~ (sqrt_p <= lower) /\ ~ (sqrt_p >= upper)
  <2> DEFINE p == mul_div(sqrt_p, upper, SCALE)
             l_a == mul_div(x["a"], p, upper - sqrt_p)
             l_b == mul_div(x["b"], SCALE, sqrt_p - lower)
             l == IF l_a < l_b THEN l_a ELSE l_b
             used == Pair(mul_div(l, upper - sqrt_p, p), mul_div(l, sqrt_p - lower, SCALE))
  <2>1. upper - sqrt_p \in Nat \ {0} /\ sqrt_p - lower \in Nat \ {0}
    BY <1>1, <1>2, <1>8
  <2>2. p \in Nat /\ p # 0
    BY <1>1, <1>2, <1>3, <1>8, MulDivFacts
  <2>3. compute_deposit(x, sqrt_p, k) = [l_used |-> l, used |-> used]
    <3>1. compute_deposit(x, sqrt_p, k) = compute_deposit_in_range(x, sqrt_p, lower, upper)
      BY <1>8 DEF compute_deposit, lower, upper
    <3> QED BY <3>1 DEF compute_deposit_in_range
  <2> HIDE DEF p
  <2>4. l_a \in Nat /\ l_b \in Nat
    BY <1>2, <2>1, <2>2, MulDivFacts
  <2> HIDE DEF l_a, l_b
  <2>5. l \in Nat
    BY <2>4
  <2> HIDE DEF l
  <2>6. mul_div(l, upper - sqrt_p, p) \in Nat /\ mul_div(l, sqrt_p - lower, SCALE) \in Nat
    BY <1>2, <2>1, <2>2, <2>5, MulDivFacts
  <2>7. used \in [Sides -> Nat]
    BY <1>4, <2>6
  <2> HIDE DEF used
  <2> QED BY <2>3, <2>5, <2>7
<1> QED BY <1>6, <1>7, <1>8

\* What a position of natural size is worth is a natural number, and its
\* principal at most the reserves if its share is at most the liquidity.
LEMMA PrincipalFacts ==
  ASSUME NEW p \in PositionNotes, NEW b \in BucketStates, NEW t \in Sides
  PROVE  /\ principal(p, b, t) \in Nat
         /\ p.lp_share <= b.liquidity => principal(p, b, t) <= b.reserve[t]
<1>1. p.lp_share \in Nat /\ b.reserve[t] \in Nat /\ b.liquidity \in Nat
  BY U128IsNat DEF PositionNotes, BucketStates, Amounts2
<1>2. CASE b.liquidity = 0
  BY <1>1, <1>2 DEF principal
<1>3. CASE b.liquidity # 0
  <2>1. principal(p, b, t) = mul_div(p.lp_share, b.reserve[t], b.liquidity)
    BY <1>3 DEF principal
  <2>2. mul_div(p.lp_share, b.reserve[t], b.liquidity) \in Nat
    BY <1>1, <1>3, MulDivFacts
  <2>3. p.lp_share <= b.liquidity => mul_div(p.lp_share, b.reserve[t], b.liquidity) <= b.reserve[t]
    BY <1>1, <1>3, PartIsSmaller
  <2> QED BY <2>1, <2>2, <2>3
<1> QED BY <1>2, <1>3

\* What a position has grown by since its deposit, in units of 1/SCALE.
growth(p, b, t) == p.lp_share * (b.cum_fee_per_share[t] - p.cum_fee_at_deposit[t])

\* The fees of a position are a natural number, capped at the pot and, scaled
\* up again, at most its growth.
LEMMA EarnedFacts ==
  ASSUME NEW p \in PositionNotes, NEW b \in BucketStates, NEW t \in Sides,
         NEW pot \in Amounts2, b.cum_fee_per_share[t] >= p.cum_fee_at_deposit[t]
  PROVE  /\ growth(p, b, t) \in Nat
         /\ earned_claim(p, b, t) \in Nat
         /\ earned(p, b, pot, t) \in Nat
         /\ earned(p, b, pot, t) <= pot[t]
         /\ earned_claim(p, b, t) * SCALE <= growth(p, b, t)
         /\ earned(p, b, pot, t) * SCALE <= growth(p, b, t)
<1> DEFINE c == b.cum_fee_per_share[t] - p.cum_fee_at_deposit[t]
           e == earned_claim(p, b, t)
           g == earned(p, b, pot, t)
<1>1. p.lp_share \in Nat /\ c \in Nat /\ pot[t] \in Nat /\ SCALE \in Nat \ {0}
  <2>1. /\ p.lp_share \in Nat /\ p.cum_fee_at_deposit[t] \in Nat
        /\ b.cum_fee_per_share[t] \in Nat /\ pot[t] \in Nat
    BY U128IsNat DEF PositionNotes, BucketStates, Amounts2
  <2> QED BY <2>1, PoolConstants
<1>2. growth(p, b, t) = p.lp_share * c
  BY DEF growth
<1>3. e = mul_div(p.lp_share, c, SCALE)
  BY DEF earned_claim
<1>4. g = IF e > pot[t] THEN pot[t] ELSE e
  BY DEF earned, Capped
<1> HIDE DEF c, e, g
<1>5. growth(p, b, t) \in Nat
  BY <1>1, <1>2
<1>6. e \in Nat /\ e * SCALE <= growth(p, b, t)
  BY <1>1, <1>2, <1>3, MulDivFacts
<1>7. g \in Nat /\ g <= pot[t] /\ g <= e
  BY <1>1, <1>4, <1>6
<1>8. g * SCALE <= e * SCALE
  BY <1>1, <1>6, <1>7
<1>9. g * SCALE \in Nat /\ e * SCALE \in Nat
  BY <1>1, <1>6, <1>7
<1>10. g * SCALE <= growth(p, b, t)
  BY <1>5, <1>6, <1>8, <1>9
<1> QED BY <1>5, <1>6, <1>7, <1>10 DEF e, g

-----------------------------------------------------------------------------
(* One iteration of apply_clearing's loop over the bucket deltas.           *)

Totals(bs, pots, t) == [k \in BucketIds |-> bs[k].reserve[t] + pots[k][t]]

Total(bs, pots, t) == Sum(Totals(bs, pots, t), BucketIds)

Shares == [p \in positions |-> p.lp_share]

Growths(b, t) == [p \in positions |-> growth(p, b, t)]

\* The shares of the open positions of a bucket make up its liquidity, and no
\* position has seen more fees than its bucket.
PositionsInv ==
  /\ IsFiniteSet(positions)
  /\ \A p \in positions :
       /\ p.nonce # 0
       /\ \A t \in Sides :
            p.cum_fee_at_deposit[t] <= buckets[p.bucket_id].cum_fee_per_share[t]
  /\ \A k \in BucketIds : Sum(Shares, InBucket(k)) = buckets[k].liquidity

\* A bucket's open positions have grown by no more than its pot covers, up to
\* one unit per clearing.
Covered(b, pot, n, k) ==
  \A t \in Sides : Sum(Growths(b, t), InBucket(k)) <= (pot[t] + n) * SCALE

\* What holds between two iterations, of the buckets, pots and counts so far.
Midway(bs, pots, n) ==
  /\ bs \in [BucketIds -> BucketStates]
  /\ pots \in [BucketIds -> [Sides -> Nat]]
  /\ n \in [BucketIds -> Nat]
  /\ \A k \in BucketIds :
       /\ bs[k].liquidity = buckets[k].liquidity
       /\ \A t \in Sides : buckets[k].cum_fee_per_share[t] <= bs[k].cum_fee_per_share[t]
       /\ Covered(bs[k], pots[k], n[k], k)

\* Amounts of two tokens are added and subtracted token by token.
LEMMA PlusMinus ==
  \A x, y : \A t \in Sides : Plus(x, y)[t] = x[t] + y[t] /\ Minus(x, y)[t] = x[t] - y[t]
BY DEF Plus, Minus

\* The deltas of a clearing are BucketDeltas.
LEMMA DeltaType ==
  ASSUME NEW deltas \in DeltaLists, NEW i \in DOMAIN deltas
  PROVE  deltas[i] \in BucketDeltas
BY PoolConstants DEF DeltaLists

\* An iteration changes the reserves and fee growth of the delta's bucket only,
\* by what the delta says.
LEMMA DeltaOnBuckets ==
  ASSUME NEW deltas \in DeltaLists, NEW i \in DOMAIN deltas,
         NEW bs \in [BucketIds -> BucketStates], DeltaPasses(bs, deltas, i),
         NEW d, d = deltas[i], NEW bs1, bs1 = BucketsAfter(bs, deltas, i)
  PROVE  /\ d \in BucketDeltas /\ d.bucket_id \in BucketIds
         /\ bs1 \in [BucketIds -> BucketStates]
         /\ \A k \in BucketIds \ {d.bucket_id} : bs1[k] = bs[k]
         /\ bs1[d.bucket_id].liquidity = bs[d.bucket_id].liquidity
         /\ \A t \in Sides :
              /\ bs1[d.bucket_id].reserve[t]
                   = bs[d.bucket_id].reserve[t] + d.reserve_add[t] - d.reserve_sub[t]
              /\ bs1[d.bucket_id].cum_fee_per_share[t]
                   = bs[d.bucket_id].cum_fee_per_share[t] + d.cum_fee_increment[t]
<1> DEFINE k == d.bucket_id
           reserve == Minus(Plus(bs[k].reserve, d.reserve_add), d.reserve_sub)
           cum == Plus(bs[k].cum_fee_per_share, d.cum_fee_increment)
<1>1. d \in BucketDeltas /\ k \in BucketIds
  BY DeltaType DEF BucketDeltas
<1>2. bs[k] \in BucketStates
  BY <1>1
<1>3. bs1 = [bs EXCEPT ![k] = [@ EXCEPT !.reserve = reserve, !.cum_fee_per_share = cum]]
  BY <1>2 DEF BucketsAfter, BucketStates
<1> HIDE DEF reserve, cum
<1>4. /\ bs1[k].reserve = reserve /\ bs1[k].cum_fee_per_share = cum
      /\ bs1[k].liquidity = bs[k].liquidity
  BY <1>1, <1>2, <1>3 DEF BucketStates
<1>5. \A j \in BucketIds \ {k} : bs1[j] = bs[j]
  BY <1>3
<1>6. bs1[k] \in BucketStates
  BY DEF DeltaPasses
<1>7. bs1 \in [BucketIds -> BucketStates]
  BY <1>1, <1>3, <1>5, <1>6
<1>8. ASSUME NEW t \in Sides
      PROVE  /\ reserve[t] = bs[k].reserve[t] + d.reserve_add[t] - d.reserve_sub[t]
             /\ cum[t] = bs[k].cum_fee_per_share[t] + d.cum_fee_increment[t]
  <2>1. cum[t] = bs[k].cum_fee_per_share[t] + d.cum_fee_increment[t]
    BY PlusMinus DEF cum
  <2>2. reserve[t] = Plus(bs[k].reserve, d.reserve_add)[t] - d.reserve_sub[t]
    BY PlusMinus DEF reserve
  <2>3. Plus(bs[k].reserve, d.reserve_add)[t] = bs[k].reserve[t] + d.reserve_add[t]
    BY PlusMinus
  <2>4. bs[k].reserve[t] \in Int /\ d.reserve_add[t] \in Int /\ d.reserve_sub[t] \in Int
    BY <1>1, <1>2, BucketNats, DeltaNats
  <2> QED BY <2>1, <2>2, <2>3, <2>4
<1> QED BY <1>1, <1>4, <1>5, <1>7, <1>8

\* The fee an iteration forwards is a natural number, short of what the bucket's
\* positions grow by in total by less than one unit.
LEMMA ForwardedFee ==
  ASSUME TypeOK, NEW d \in BucketDeltas, NEW t \in Sides
  PROVE  /\ forwarded_fee(d, t) \in Nat
         /\ d.cum_fee_increment[t] * buckets[d.bucket_id].liquidity
              < (forwarded_fee(d, t) + 1) * SCALE
<1> DEFINE x == d.cum_fee_increment[t]
           y == buckets[d.bucket_id].liquidity
           f == forwarded_fee(d, t)
<1>1. x \in Nat /\ y \in Nat /\ SCALE \in Nat \ {0}
  <2>1. buckets[d.bucket_id] \in BucketStates
    BY DEF TypeOK, BucketDeltas
  <2> QED BY <2>1, U128IsNat, PoolConstants DEF BucketDeltas, Amounts2, BucketStates
<1>2. f = mul_div(x, y, SCALE)
  BY DEF forwarded_fee
<1> HIDE DEF x, y, f
<1>3. f \in Nat /\ x * y < f * SCALE + SCALE
  BY <1>1, <1>2, MulDivFacts
<1>4. f * SCALE + SCALE = (f + 1) * SCALE
  BY <1>1, <1>3
<1>5. x * y < (f + 1) * SCALE
  BY <1>3, <1>4
<1> QED BY <1>3, <1>5 DEF x, y, f

\* When every share of a bucket gains c, its positions grow by c per unit of
\* liquidity.
LEMMA GrowthIsLinear ==
  ASSUME TypeOK, PositionsInv, NEW k \in BucketIds, NEW t \in Sides, NEW c \in Nat,
         NEW b \in BucketStates, NEW b1 \in BucketStates,
         b1.cum_fee_per_share[t] = b.cum_fee_per_share[t] + c
  PROVE  /\ Sum(Growths(b, t), InBucket(k)) \in Int
         /\ Sum(Growths(b1, t), InBucket(k))
              = Sum(Growths(b, t), InBucket(k)) + buckets[k].liquidity * c
<1> DEFINE S == InBucket(k)
           f == Growths(b, t)
           f1 == Growths(b1, t)
           g == [p \in positions |-> p.lp_share * c]
<1>1. IsFiniteSet(S) /\ S \subseteq positions
  BY FS_Subset DEF PositionsInv, InBucket
<1>2. ASSUME NEW p \in S
      PROVE  /\ f[p] \in Int /\ g[p] \in Int /\ Shares[p] \in Int
             /\ g[p] = Shares[p] * c
             /\ f1[p] = f[p] + g[p]
  <2> DEFINE s == p.lp_share
             z == p.cum_fee_at_deposit[t]
             x == b.cum_fee_per_share[t]
  <2>1. p \in positions /\ p \in PositionNotes
    BY <1>1 DEF TypeOK
  <2>2. s \in Nat /\ z \in Nat /\ x \in Nat
    BY <2>1, U128IsNat DEF PositionNotes, BucketStates, Amounts2
  <2>3. /\ f[p] = s * (x - z) /\ f1[p] = s * ((x + c) - z)
        /\ g[p] = s * c /\ Shares[p] = s
    BY <2>1 DEF Growths, growth, Shares
  <2> HIDE DEF s, z, x, f, f1, g
  <2>4. s * ((x + c) - z) = s * (x - z) + s * c
    BY <2>2
  <2> QED BY <2>2, <2>3, <2>4
<1> HIDE DEF f, f1, g
<1>3. IntOn(f, S) /\ IntOn(g, S) /\ IntOn(Shares, S)
  BY <1>2 DEF IntOn
<1> HIDE DEF S
<1>4. Sum(f, S) \in Int
  BY <1>1, <1>3, SumType
<1>5. Sum(g, S) = Sum(Shares, S) * c
  BY <1>1, <1>2, <1>3, SumScale
<1>6. Sum(f1, S) = Sum(f, S) + Sum(g, S)
  BY <1>1, <1>2, <1>3, SumPlus
<1>7. Sum(Shares, S) = buckets[k].liquidity
  BY DEF PositionsInv, S
<1> QED BY <1>4, <1>5, <1>6, <1>7 DEF f, f1, S

\* An iteration keeps what holds between iterations, and moves the total by
\* what the delta adds, gross of the fee, less what it takes.
LEMMA DeltaStep ==
  ASSUME TypeOK, PositionsInv, NEW deltas \in DeltaLists, NEW i \in Nat,
         NEW bs, NEW pots, NEW n, Midway(bs, pots, n), DeltaPasses(bs, deltas, i),
         NEW bs1, bs1 = BucketsAfter(bs, deltas, i),
         NEW pots1, pots1 = PotsAfter(pots, deltas, i),
         NEW n1, n1 = CountAfter(n, deltas, i)
  PROVE  /\ Midway(bs1, pots1, n1)
         /\ \A t \in Sides :
              /\ Total(bs, pots, t) \in Int
              /\ Adds(deltas, i, t) \in Int /\ Subs(deltas, i, t) \in Int
              /\ Total(bs1, pots1, t) = Total(bs, pots, t) + Adds(deltas, i, t) - Subs(deltas, i, t)
<1>1. /\ bs \in [BucketIds -> BucketStates]
      /\ pots \in [BucketIds -> [Sides -> Nat]]
      /\ n \in [BucketIds -> Nat]
  BY DEF Midway
<1>2. ASSUME NEW t \in Sides, NEW b \in [BucketIds -> BucketStates],
             NEW q \in [BucketIds -> [Sides -> Nat]]
      PROVE  /\ IntOn(Totals(b, q, t), BucketIds)
             /\ Total(b, q, t) \in Int
  <2>1. ASSUME NEW k \in BucketIds PROVE Totals(b, q, t)[k] \in Int
    <3>1. b[k].reserve[t] \in Nat /\ q[k][t] \in Nat
      BY <1>2, BucketNats
    <3>2. Totals(b, q, t)[k] = b[k].reserve[t] + q[k][t]
      BY DEF Totals
    <3> QED BY <3>1, <3>2
  <2>2. IntOn(Totals(b, q, t), BucketIds)
    BY <2>1 DEF IntOn
  <2> QED BY <2>2, BucketsAreFinite, SumType DEF Total
<1>3. CASE i \notin DOMAIN deltas
  <2>1. bs1 = bs /\ pots1 = pots /\ n1 = n
    BY <1>3 DEF BucketsAfter, PotsAfter, CountAfter
  <2>2. ASSUME NEW t \in Sides
        PROVE  /\ Adds(deltas, i, t) = 0 /\ Subs(deltas, i, t) = 0
               /\ Total(bs, pots, t) \in Int
    BY <1>1, <1>2, <1>3 DEF Adds, Subs
  <2>3. ASSUME NEW t \in Sides
        PROVE  Total(bs1, pots1, t) = Total(bs, pots, t) + Adds(deltas, i, t) - Subs(deltas, i, t)
    BY <2>1, <2>2
  <2> QED BY <2>1, <2>2, <2>3
<1>4. CASE i \in DOMAIN deltas
  <2> DEFINE d == deltas[i]
             k == d.bucket_id
             fee(t) == forwarded_fee(d, t)
  <2>1. /\ d \in BucketDeltas /\ k \in BucketIds
        /\ bs1 \in [BucketIds -> BucketStates]
        /\ \A j \in BucketIds \ {k} : bs1[j] = bs[j]
        /\ bs1[k].liquidity = bs[k].liquidity
        /\ \A t \in Sides :
             /\ bs1[k].reserve[t] = bs[k].reserve[t] + d.reserve_add[t] - d.reserve_sub[t]
             /\ bs1[k].cum_fee_per_share[t] = bs[k].cum_fee_per_share[t] + d.cum_fee_increment[t]
    BY <1>1, <1>4, DeltaOnBuckets
  <2>2. \A t \in Sides :
          /\ fee(t) \in Nat
          /\ d.cum_fee_increment[t] * buckets[k].liquidity < (fee(t) + 1) * SCALE
    BY <2>1, ForwardedFee
  <2>3. /\ pots1 = [pots EXCEPT ![k] = Plus(@, Fees(d))]
        /\ n1 = [n EXCEPT ![k] = @ + 1]
    BY <1>4 DEF PotsAfter, CountAfter
  <2>4. \A t \in Sides : /\ Adds(deltas, i, t) = d.reserve_add[t] + fee(t)
                         /\ Subs(deltas, i, t) = d.reserve_sub[t]
    BY <1>4 DEF Adds, Subs
  <2>5. Fees(d) = [t \in Sides |-> fee(t)]
    BY DEF Fees
  <2>6. \A t \in Sides : /\ d.reserve_add[t] \in Nat /\ d.reserve_sub[t] \in Nat
                         /\ d.cum_fee_increment[t] \in Nat
    BY <2>1, DeltaNats
  <2>7. /\ buckets[k].liquidity \in Nat /\ bs[k].liquidity = buckets[k].liquidity
        /\ SCALE \in Nat \ {0}
    BY <2>1, BucketNats, PoolConstants DEF TypeOK, Midway
  <2>8. \A t \in Sides : pots1[k][t] = pots[k][t] + fee(t) /\ pots[k][t] \in Nat
    BY <1>1, <2>1, <2>3, <2>5 DEF Plus
  <2>9. n1[k] = n[k] + 1 /\ n[k] \in Nat
    BY <1>1, <2>1, <2>3
  <2>10. \A j \in BucketIds \ {k} : pots1[j] = pots[j] /\ n1[j] = n[j]
    BY <1>1, <2>3
  <2>11. /\ pots1 \in [BucketIds -> [Sides -> Nat]]
         /\ n1 \in [BucketIds -> Nat]
    <3>1. Plus(pots[k], Fees(d)) \in [Sides -> Nat]
      BY <2>2, <2>5, <2>8 DEF Plus
    <3> QED BY <1>1, <2>1, <2>3, <2>9, <3>1
  <2> HIDE DEF d, k, fee
  <2>12. Covered(bs1[k], pots1[k], n1[k], k)
    <3> SUFFICES ASSUME NEW t \in Sides
                 PROVE  Sum(Growths(bs1[k], t), InBucket(k)) <= (pots1[k][t] + n1[k]) * SCALE
      BY DEF Covered
    <3> DEFINE inc == d.cum_fee_increment[t]
               L == buckets[k].liquidity
               f == fee(t)
               before == Sum(Growths(bs[k], t), InBucket(k))
               after == Sum(Growths(bs1[k], t), InBucket(k))
    <3>1. bs[k] \in BucketStates /\ bs1[k] \in BucketStates
      BY <1>1, <2>1
    <3>2. bs1[k].cum_fee_per_share[t] = bs[k].cum_fee_per_share[t] + inc /\ inc \in Nat
      BY <2>1, <2>6
    <3>3. before \in Int /\ after = before + L * inc
      BY <2>1, <3>1, <3>2, GrowthIsLinear
    <3>4. before <= (pots[k][t] + n[k]) * SCALE
      BY <2>1 DEF Midway, Covered
    <3>5. inc * L < (f + 1) * SCALE /\ f \in Nat /\ L \in Nat
      BY <2>2, <2>7
    <3>6. pots1[k][t] = pots[k][t] + f /\ pots[k][t] \in Nat
      BY <2>8
    <3> HIDE DEF inc, L, f, before, after
    <3>7. L * inc = inc * L /\ L * inc \in Int
      BY <3>2, <3>5
    <3>8. (pots1[k][t] + n1[k]) * SCALE = (pots[k][t] + n[k]) * SCALE + (f + 1) * SCALE
      BY <2>7, <2>9, <3>5, <3>6
    <3>9. (pots[k][t] + n[k]) * SCALE \in Int /\ (f + 1) * SCALE \in Int
      BY <2>7, <2>9, <3>5, <3>6
    <3>10. after <= (pots1[k][t] + n1[k]) * SCALE
      BY <3>3, <3>4, <3>5, <3>7, <3>8, <3>9
    <3> QED BY <3>10 DEF after
  <2>13. \A j \in BucketIds :
           /\ bs1[j].liquidity = buckets[j].liquidity
           /\ \A t \in Sides : buckets[j].cum_fee_per_share[t] <= bs1[j].cum_fee_per_share[t]
           /\ Covered(bs1[j], pots1[j], n1[j], j)
    <3> TAKE j \in BucketIds
    <3>1. CASE j # k
      BY <2>1, <2>10, <3>1 DEF Midway
    <3>2. CASE j = k
      <4>1. ASSUME NEW t \in Sides
            PROVE  buckets[k].cum_fee_per_share[t] <= bs1[k].cum_fee_per_share[t]
        <5>1. /\ buckets[k].cum_fee_per_share[t] \in Nat
              /\ bs[k].cum_fee_per_share[t] \in Nat
          BY <1>1, <2>1, BucketNats DEF TypeOK
        <5>2. buckets[k].cum_fee_per_share[t] <= bs[k].cum_fee_per_share[t]
          BY <2>1 DEF Midway
        <5> QED BY <2>1, <2>6, <5>1, <5>2
      <4> QED BY <2>1, <2>7, <2>12, <3>2, <4>1
    <3> QED BY <3>1, <3>2
  <2>14. Midway(bs1, pots1, n1)
    BY <2>1, <2>11, <2>13 DEF Midway
  <2>15. ASSUME NEW t \in Sides
         PROVE  /\ Adds(deltas, i, t) \in Int /\ Subs(deltas, i, t) \in Int
                /\ Total(bs1, pots1, t) = Total(bs, pots, t) + Adds(deltas, i, t) - Subs(deltas, i, t)
    <3> DEFINE f == Totals(bs, pots, t)
               g == Totals(bs1, pots1, t)
               a == Adds(deltas, i, t)
               s == Subs(deltas, i, t)
    <3>1. IntOn(f, BucketIds) /\ IntOn(g, BucketIds) /\ Sum(f, BucketIds) \in Int
      BY <1>1, <1>2, <2>1, <2>11 DEF Total
    <3>2. \A j \in BucketIds \ {k} : g[j] = f[j]
      BY <2>1, <2>10 DEF Totals
    <3>3. f[k] = bs[k].reserve[t] + pots[k][t] /\ g[k] = bs1[k].reserve[t] + pots1[k][t]
      BY <2>1 DEF Totals
    <3>4. a = d.reserve_add[t] + fee(t) /\ s = d.reserve_sub[t]
      BY <2>4
    <3>5. bs[k].reserve[t] \in Nat
      BY <1>1, <2>1, BucketNats
    <3> HIDE DEF f, g, a, s
    <3>6. a \in Int /\ s \in Int
      BY <2>2, <2>6, <3>4
    <3>7. g[k] = f[k] + a - s /\ f[k] \in Int
      BY <2>1, <2>2, <2>6, <2>8, <3>3, <3>4, <3>5
    <3>8. Sum(g, BucketIds) = Sum(f, BucketIds) - f[k] + g[k]
      BY <2>1, <3>1, <3>2, BucketsAreFinite, SumUpdate
    <3>9. Sum(g, BucketIds) = Sum(f, BucketIds) + a - s
      BY <3>1, <3>6, <3>7, <3>8
    <3> QED BY <3>6, <3>9 DEF Total, f, g, a, s
  <2> QED BY <1>1, <1>2, <2>14, <2>15
<1> QED BY <1>3, <1>4

\* What the four iterations do together.
LEMMA DeltasApplied ==
  ASSUME TypeOK, PositionsInv, NEW deltas \in DeltaLists, ApplyDeltas(deltas),
         Midway(buckets, fee_pot, clearings)
  PROVE  /\ Midway(buckets', fee_pot', clearings')
         /\ \A t \in Sides :
              Total(buckets', fee_pot', t) = Total(buckets, fee_pot, t)
                + (Adds(deltas, 1, t) + Adds(deltas, 2, t) + Adds(deltas, 3, t) + Adds(deltas, 4, t))
                - (Subs(deltas, 1, t) + Subs(deltas, 2, t) + Subs(deltas, 3, t) + Subs(deltas, 4, t))
<1> DEFINE bs1 == BucketsAfter(buckets, deltas, 1)
           bs2 == BucketsAfter(bs1, deltas, 2)
           bs3 == BucketsAfter(bs2, deltas, 3)
           pots1 == PotsAfter(fee_pot, deltas, 1)
           pots2 == PotsAfter(pots1, deltas, 2)
           pots3 == PotsAfter(pots2, deltas, 3)
           n1 == CountAfter(clearings, deltas, 1)
           n2 == CountAfter(n1, deltas, 2)
           n3 == CountAfter(n2, deltas, 3)
           Moves(i, before, after) ==
             \A t \in Sides : /\ before[t] \in Int
                              /\ Adds(deltas, i, t) \in Int /\ Subs(deltas, i, t) \in Int
                              /\ after[t] = before[t] + Adds(deltas, i, t) - Subs(deltas, i, t)
           T(b, q) == [t \in Sides |-> Total(b, q, t)]
<1>1. /\ buckets' = BucketsAfter(bs3, deltas, 4)
      /\ fee_pot' = PotsAfter(pots3, deltas, 4)
      /\ clearings' = CountAfter(n3, deltas, 4)
      /\ DeltaPasses(buckets, deltas, 1) /\ DeltaPasses(bs1, deltas, 2)
      /\ DeltaPasses(bs2, deltas, 3) /\ DeltaPasses(bs3, deltas, 4)
  BY DEF ApplyDeltas
<1>2. Midway(bs1, pots1, n1) /\ Moves(1, T(buckets, fee_pot), T(bs1, pots1))
  <2> HIDE DEF bs1, pots1, n1
  <2>1. bs1 = BucketsAfter(buckets, deltas, 1) /\ pots1 = PotsAfter(fee_pot, deltas, 1)
        /\ n1 = CountAfter(clearings, deltas, 1)
    BY DEF bs1, pots1, n1
  <2> QED BY <1>1, <2>1, DeltaStep
<1> HIDE DEF bs1, pots1, n1
<1>3. Midway(bs2, pots2, n2) /\ Moves(2, T(bs1, pots1), T(bs2, pots2))
  BY <1>1, <1>2, DeltaStep
<1> HIDE DEF bs2, pots2, n2
<1>4. Midway(bs3, pots3, n3) /\ Moves(3, T(bs2, pots2), T(bs3, pots3))
  BY <1>1, <1>3, DeltaStep
<1> HIDE DEF bs3, pots3, n3
<1>5. Midway(buckets', fee_pot', clearings')
      /\ Moves(4, T(bs3, pots3), T(buckets', fee_pot'))
  BY <1>1, <1>4, DeltaStep
<1>6. ASSUME NEW t \in Sides
      PROVE  Total(buckets', fee_pot', t) = Total(buckets, fee_pot, t)
               + (Adds(deltas, 1, t) + Adds(deltas, 2, t) + Adds(deltas, 3, t) + Adds(deltas, 4, t))
               - (Subs(deltas, 1, t) + Subs(deltas, 2, t) + Subs(deltas, 3, t) + Subs(deltas, 4, t))
  <2> DEFINE x0 == T(buckets, fee_pot)[t]
             x1 == T(bs1, pots1)[t]
             x2 == T(bs2, pots2)[t]
             x3 == T(bs3, pots3)[t]
             x4 == T(buckets', fee_pot')[t]
             a(i) == Adds(deltas, i, t)
             s(i) == Subs(deltas, i, t)
  <2>1. /\ x0 \in Int /\ a(1) \in Int /\ s(1) \in Int /\ x1 = x0 + a(1) - s(1)
        /\ a(2) \in Int /\ s(2) \in Int /\ x2 = x1 + a(2) - s(2)
        /\ a(3) \in Int /\ s(3) \in Int /\ x3 = x2 + a(3) - s(3)
        /\ a(4) \in Int /\ s(4) \in Int /\ x4 = x3 + a(4) - s(4)
    BY <1>2, <1>3, <1>4, <1>5
  <2>2. x0 = Total(buckets, fee_pot, t) /\ x4 = Total(buckets', fee_pot', t)
    OBVIOUS
  <2> HIDE DEF x0, x1, x2, x3, x4
  <2>3. x4 = x0 + (a(1) + a(2) + a(3) + a(4)) - (s(1) + s(2) + s(3) + s(4))
    BY <2>1
  <2> QED BY <2>2, <2>3
<1> QED BY <1>5, <1>6

-----------------------------------------------------------------------------
(* Opening and closing a position.                                          *)

\* The members of ps in bucket k.
Among(ps, k) == { p \in ps : p.bucket_id = k }

\* The open positions of a bucket, before and after a step.
LEMMA InBucketIsAmong ==
  \A k : InBucket(k) = Among(positions, k) /\ InBucket(k)' = Among(positions', k)
BY DEF InBucket, Among

\* A position that is opened adds its value to the sum over its bucket, and to
\* no other.
LEMMA PositionOpened ==
  ASSUME NEW ps, IsFiniteSet(ps), NEW n, n \notin ps, NEW qs, qs = ps \cup {n},
         NEW f, NEW g, IntOn(g, qs), \A p \in ps : g[p] = f[p], NEW k
  PROVE  /\ Sum(f, Among(ps, k)) \in Int
         /\ n.bucket_id = k => Sum(g, Among(qs, k)) = Sum(f, Among(ps, k)) + g[n]
         /\ n.bucket_id # k => Sum(g, Among(qs, k)) = Sum(f, Among(ps, k))
<1> DEFINE S == Among(ps, k)
<1>1. IsFiniteSet(S) /\ S \subseteq ps /\ n \notin S
  BY FS_Subset DEF Among
<1>2. Among(qs, k) = IF n.bucket_id = k THEN S \cup {n} ELSE S
  BY DEF Among
<1> HIDE DEF S
<1>3. Sum(g, S) = Sum(f, S)
  BY <1>1, SumAgree
<1>4. IntOn(g, S) /\ g[n] \in Int
  BY <1>1 DEF IntOn
<1>5. Sum(g, S) \in Int
  BY <1>1, <1>4, SumType
<1>6. CASE n.bucket_id = k
  <2>1. IntOn(g, S \cup {n})
    BY <1>4 DEF IntOn
  <2>2. Sum(g, S \cup {n}) = Sum(g, S) + g[n]
    BY <1>1, <2>1, SumAdd
  <2> QED BY <1>2, <1>3, <1>5, <1>6, <2>2 DEF S
<1>7. CASE n.bucket_id # k
  BY <1>2, <1>3, <1>5, <1>7 DEF S
<1> QED BY <1>6, <1>7

\* A position that is closed takes its value out of the sum over its bucket.
LEMMA PositionClosed ==
  ASSUME NEW ps, IsFiniteSet(ps), NEW n \in ps, NEW qs, qs = ps \ {n},
         NEW f, NEW g, IntOn(f, ps), \A p \in qs : g[p] = f[p], NEW k
  PROVE  /\ Sum(f, Among(ps, k)) \in Int
         /\ n.bucket_id = k => Sum(g, Among(qs, k)) = Sum(f, Among(ps, k)) - f[n]
         /\ n.bucket_id # k => Sum(g, Among(qs, k)) = Sum(f, Among(ps, k))
<1> DEFINE S == Among(ps, k)
           R == Among(qs, k)
<1>1. IsFiniteSet(S) /\ S \subseteq ps
  BY FS_Subset DEF Among
<1>2. R = S \ {n} /\ (n \in S <=> n.bucket_id = k)
  BY DEF Among
<1>3. IsFiniteSet(R) /\ R \subseteq qs
  BY <1>1, <1>2, FS_Subset DEF Among
<1>4. IntOn(f, S) /\ IntOn(f, R)
  BY <1>1, <1>2 DEF IntOn
<1> HIDE DEF S, R
<1>5. Sum(g, R) = Sum(f, R)
  BY <1>3, SumAgree
<1>6. Sum(f, S) \in Int /\ Sum(f, R) \in Int
  BY <1>1, <1>3, <1>4, SumType
<1>7. CASE n.bucket_id = k
  <2>1. Sum(f, S) = f[n] + Sum(f, R) /\ f[n] \in Int
    BY <1>1, <1>2, <1>4, <1>7, SumRemove DEF IntOn
  <2>2. Sum(f, R) = Sum(f, S) - f[n]
    BY <1>6, <2>1
  <2> QED BY <1>5, <1>6, <1>7, <2>2 DEF S, R
<1>8. CASE n.bucket_id # k
  <2>1. R = S
    BY <1>2, <1>8
  <2> QED BY <1>5, <1>6, <1>8, <2>1 DEF S, R
<1> QED BY <1>7, <1>8

-----------------------------------------------------------------------------
(* The inductive invariant.                                                 *)

PoolInv ==
  /\ TypeOK
  /\ PositionsInv
  /\ \A k \in BucketIds : Covered(buckets[k], fee_pot[k], clearings[k], k)
  /\ CacheIsSum
  /\ balance = pool_state.reserve

\* The cached total is the total the iterations track.
LEMMA CacheIsTotal ==
  CacheIsSum <=> \A t \in Sides : pool_state.reserve[t] = Total(buckets, fee_pot, t)
BY DEF CacheIsSum, Total, Totals, Accounted, Sum

\* Between transactions the state is as between iterations.
LEMMA InvIsMidway ==
  ASSUME PoolInv
  PROVE  Midway(buckets, fee_pot, clearings)
<1>1. /\ buckets \in [BucketIds -> BucketStates]
      /\ fee_pot \in [BucketIds -> [Sides -> Nat]]
      /\ clearings \in [BucketIds -> Nat]
  <2>1. ASSUME NEW x \in Amounts2 PROVE x \in [Sides -> Nat]
    BY U128IsNat DEF Amounts2
  <2>2. 0..MaxClearings \subseteq Nat
    BY PoolConstants
  <2>3. \A k \in BucketIds : fee_pot[k] \in [Sides -> Nat]
    BY <2>1 DEF PoolInv, TypeOK
  <2> QED BY <2>2, <2>3 DEF PoolInv, TypeOK
<1>2. ASSUME NEW k \in BucketIds, NEW t \in Sides
      PROVE  buckets[k].cum_fee_per_share[t] <= buckets[k].cum_fee_per_share[t]
  BY <1>1, BucketNats
<1> QED BY <1>1, <1>2 DEF Midway, PoolInv

\* The pool starts in the invariant.
LEMMA InitInv == Init => PoolInv
<1> SUFFICES ASSUME Init PROVE PoolInv
  OBVIOUS
<1>1. Zero \in Amounts2 /\ \A t \in Sides : Zero[t] = 0
  BY PoolConstants DEF Zero, Amounts2, U128
<1> DEFINE b == [reserve |-> Zero, liquidity |-> 0, cum_fee_per_share |-> Zero]
<1>2. b \in BucketStates
  BY <1>1, PoolConstants DEF BucketStates, U128
<1>3. /\ buckets = [k \in BucketIds |-> b]
      /\ fee_pot = [k \in BucketIds |-> Zero]
      /\ clearings = [k \in BucketIds |-> 0]
      /\ positions = {}
      /\ pool_state = [reserve |-> Zero, current_sqrt_price |-> p_min_sqrt]
      /\ balance = Zero
  BY DEF Init
<1>4. TypeOK
  <2>1. /\ buckets \in [BucketIds -> BucketStates]
        /\ fee_pot \in [BucketIds -> Amounts2]
        /\ clearings \in [BucketIds -> 0..MaxClearings]
        /\ pool_state \in PoolStates
        /\ balance \in Amounts2
    BY <1>1, <1>2, <1>3, PoolConstants DEF PoolStates
  <2>2. Live \in [pool: PoolStates, buckets: [BucketIds -> BucketStates],
                  fee_pot: [BucketIds -> Amounts2]]
    BY <2>1 DEF Live
  <2>3. positions \subseteq PositionNotes /\ orderbook_addr \subseteq Accounts
    BY <1>3 DEF Init
  <2>4. hint = [w \in Wallets |-> Live]
    BY DEF Init
  <2> QED BY <2>1, <2>2, <2>3, <2>4 DEF TypeOK
<1>5. ASSUME NEW f, NEW k PROVE Sum(f, InBucket(k)) = 0
  <2>1. InBucket(k) = {}
    BY <1>3 DEF InBucket
  <2> QED BY <2>1, SumEmpty
<1>6. PositionsInv
  <2>1. \A k \in BucketIds : Sum(Shares, InBucket(k)) = buckets[k].liquidity
    BY <1>3, <1>5
  <2> QED BY <1>3, <2>1, FS_EmptySet DEF PositionsInv
<1>7. ASSUME NEW k \in BucketIds
      PROVE  Covered(buckets[k], fee_pot[k], clearings[k], k)
  <2>1. \A t \in Sides : (fee_pot[k][t] + clearings[k]) * SCALE = 0
    BY <1>1, <1>3, PoolConstants
  <2> QED BY <1>5, <2>1 DEF Covered
<1>8. CacheIsSum
  <2>1. ASSUME NEW t \in Sides PROVE Total(buckets, fee_pot, t) = 0
    <3> DEFINE f == Totals(buckets, fee_pot, t)
    <3>1. \A k \in BucketIds : f[k] = 0
      BY <1>1, <1>3 DEF Totals
    <3> HIDE DEF f
    <3>2. IntOn(f, BucketIds) /\ \A k \in BucketIds : f[k] = f[k] * 0
      BY <3>1 DEF IntOn
    <3>3. Sum(f, BucketIds) = Sum(f, BucketIds) * 0 /\ Sum(f, BucketIds) \in Int
      BY <3>2, BucketsAreFinite, SumScale, SumType
    <3>4. Sum(f, BucketIds) = 0
      BY <3>3
    <3> QED BY <3>4 DEF Total, f
  <2> QED BY <1>1, <1>3, <2>1, CacheIsTotal
<1>9. balance = pool_state.reserve
  BY <1>3
<1> QED BY <1>4, <1>6, <1>7, <1>8, <1>9 DEF PoolInv

\* A clearing keeps the invariant.
LEMMA ClearingInv ==
  ASSUME PoolInv, NEW w \in Wallets, NEW caller \in Accounts, NEW deltas \in DeltaLists,
         NEW price \in SqrtPrices, ApplyClearing(w, caller, deltas, price)
  PROVE  PoolInv'
<1>1. PICK to_pool \in FlowPairs, from_pool \in FlowPairs :
        /\ ToPoolIsBound(deltas, to_pool) /\ FromPoolIsBound(deltas, from_pool)
        /\ ApplyFlows(to_pool, from_pool, price)
  BY DEF ApplyClearing
<1>2. /\ positions' = positions /\ orderbook_addr' = orderbook_addr /\ hint' = hint
      /\ ApplyDeltas(deltas)
  BY DEF ApplyClearing
<1>3. TypeOK /\ PositionsInv
  BY DEF PoolInv
<1>4. /\ Midway(buckets', fee_pot', clearings')
      /\ \A t \in Sides :
           Total(buckets', fee_pot', t) = Total(buckets, fee_pot, t) + to_pool[t] - from_pool[t]
  BY <1>1, <1>2, <1>3, InvIsMidway, DeltasApplied DEF ToPoolIsBound, FromPoolIsBound
<1>5. TypeOK'
  <2>1. buckets' \in [BucketIds -> BucketStates]
    BY <1>4 DEF Midway
  <2>2. fee_pot' \in [BucketIds -> Amounts2] /\ clearings' \in [BucketIds -> 0..MaxClearings]
    BY <1>2 DEF ApplyDeltas
  <2>3. pool_state' \in PoolStates /\ balance' \in Amounts2
    BY <1>1, PoolConstants DEF ApplyFlows, PoolStates
  <2> QED BY <1>2, <1>3, <2>1, <2>2, <2>3 DEF TypeOK
<1>6. \A k : InBucket(k)' = InBucket(k)
  BY <1>2 DEF InBucket
<1>7. PositionsInv'
  <2>1. Shares' = Shares
    BY <1>2 DEF Shares
  <2>2. \A k \in BucketIds : Sum(Shares', InBucket(k)') = buckets'[k].liquidity
    BY <1>3, <1>4, <1>6, <2>1 DEF Midway, PositionsInv
  <2>3. ASSUME NEW p \in positions, NEW t \in Sides
        PROVE  p.cum_fee_at_deposit[t] <= buckets'[p.bucket_id].cum_fee_per_share[t]
    <3>1. p \in PositionNotes /\ p.bucket_id \in BucketIds
      BY <1>3 DEF TypeOK, PositionNotes
    <3>2. /\ p.cum_fee_at_deposit[t] \in Nat
          /\ buckets[p.bucket_id].cum_fee_per_share[t] \in Nat
          /\ buckets'[p.bucket_id].cum_fee_per_share[t] \in Nat
      BY <1>3, <1>5, <3>1, NoteNats, BucketNats DEF TypeOK
    <3>3. p.cum_fee_at_deposit[t] <= buckets[p.bucket_id].cum_fee_per_share[t]
      BY <1>3 DEF PositionsInv
    <3>4. buckets[p.bucket_id].cum_fee_per_share[t] <= buckets'[p.bucket_id].cum_fee_per_share[t]
      BY <1>4, <3>1 DEF Midway
    <3> QED BY <3>2, <3>3, <3>4
  <2> QED BY <1>2, <1>3, <2>2, <2>3 DEF PositionsInv
<1>8. ASSUME NEW k \in BucketIds
      PROVE  Covered(buckets[k], fee_pot[k], clearings[k], k)'
  <2>1. Covered(buckets'[k], fee_pot'[k], clearings'[k], k)
    BY <1>4 DEF Midway
  <2>2. \A t : Growths(buckets[k], t)' = Growths(buckets'[k], t)
    BY <1>2 DEF Growths
  <2> QED BY <1>6, <2>1, <2>2 DEF Covered
<1>9. \A t \in Sides : pool_state'.reserve[t] = pool_state.reserve[t] + to_pool[t] - from_pool[t]
  <2> TAKE t \in Sides
  <2>1. pool_state'.reserve = Minus(Plus(pool_state.reserve, to_pool), from_pool)
    BY <1>1 DEF ApplyFlows
  <2>2. /\ pool_state'.reserve[t] = Plus(pool_state.reserve, to_pool)[t] - from_pool[t]
        /\ Plus(pool_state.reserve, to_pool)[t] = pool_state.reserve[t] + to_pool[t]
    BY <2>1, PlusMinus
  <2>3. pool_state.reserve[t] \in Nat
    BY <1>3, U128IsNat DEF TypeOK, PoolStates, Amounts2
  <2>4. to_pool[t] \in Nat /\ from_pool[t] \in Nat
    BY U128IsNat, PoolConstants DEF FlowPairs
  <2> QED BY <2>2, <2>3, <2>4
<1>10. CacheIsSum'
  <2>1. \A t \in Sides : pool_state.reserve[t] = Total(buckets, fee_pot, t)
    BY CacheIsTotal DEF PoolInv
  <2>2. \A t \in Sides : pool_state'.reserve[t] = Total(buckets', fee_pot', t)
    BY <1>4, <1>9, <2>1
  <2> QED BY <2>2, CacheIsTotal DEF CacheIsSum, Total, Totals, Accounted, Sum
<1>11. balance' = pool_state'.reserve
  BY <1>1 DEF ApplyFlows, PoolInv
<1> QED BY <1>5, <1>7, <1>8, <1>10, <1>11 DEF PoolInv

\* What a position has grown by is an integer.
LEMMA GrowthType ==
  ASSUME NEW p \in PositionNotes, NEW b \in BucketStates, NEW t \in Sides
  PROVE  growth(p, b, t) \in Int
<1>1. p.lp_share \in Nat /\ p.cum_fee_at_deposit[t] \in Nat /\ b.cum_fee_per_share[t] \in Nat
  BY NoteNats, BucketNats
<1> QED BY <1>1 DEF growth

\* A deposit keeps the invariant.
LEMMA DepositInv ==
  ASSUME PoolInv, NEW w \in Wallets, NEW id \in NoteIds, NEW k \in BucketIds,
         NEW amount \in [Sides -> Amounts], NEW nonce \in Nonces,
         Deposit(w, id, k, amount, nonce)
  PROVE  PoolInv'
<1> DEFINE sqrt_p == hint[w].pool.current_sqrt_price
           l == compute_deposit(amount, sqrt_p, k).l_used
           used == compute_deposit(amount, sqrt_p, k).used
           n == [id |-> id, bucket_id |-> k, lp_share |-> l,
                 cum_fee_at_deposit |-> hint[w].buckets[k].cum_fee_per_share, nonce |-> nonce]
<1>1. TypeOK /\ PositionsInv /\ CacheIsSum /\ balance = pool_state.reserve
  BY DEF PoolInv
<1>2. /\ \A p \in positions : p.id # id
      /\ nonce # 0
      /\ DepositFits(amount, sqrt_p, k)
      /\ hint[w].buckets[k] = buckets[k]
      /\ positions' = positions \cup {n}
      /\ buckets' = [buckets EXCEPT ![k].reserve = Plus(@, used), ![k].liquidity = @ + l]
      /\ pool_state' = [pool_state EXCEPT !.reserve = Plus(@, used)]
      /\ balance' = Plus(balance, used)
      /\ l \in U128 /\ buckets'[k] \in BucketStates /\ pool_state' \in PoolStates
      /\ balance' \in Amounts2
      /\ fee_pot' = fee_pot /\ orderbook_addr' = orderbook_addr /\ hint' = hint
      /\ clearings' = clearings
  BY DEF Deposit, BucketIsLive
<1>3. l \in Nat /\ used \in [Sides -> Nat]
  <2>1. amount \in Amounts2
    BY PoolConstants DEF Amounts2
  <2>2. sqrt_p \in U128
    BY <1>1 DEF TypeOK, PoolStates
  <2> QED BY <1>2, <2>1, <2>2, DepositType
<1>4. n \in PositionNotes /\ n \notin positions
  <2>1. hint[w].buckets[k].cum_fee_per_share \in Amounts2
    BY <1>1, <1>2 DEF TypeOK, BucketStates
  <2>2. nonce \in Nat
    BY PoolConstants
  <2> QED BY <1>2, <2>1, <2>2 DEF PositionNotes
<1>5. /\ n.bucket_id = k /\ n.lp_share = l /\ n.nonce # 0
      /\ n.cum_fee_at_deposit = buckets[k].cum_fee_per_share
  BY <1>2
<1> HIDE DEF l, used, n, sqrt_p
<1>6. /\ buckets'[k].reserve = Plus(buckets[k].reserve, used)
      /\ buckets'[k].liquidity = buckets[k].liquidity + l
      /\ buckets'[k].cum_fee_per_share = buckets[k].cum_fee_per_share
      /\ \A j \in BucketIds \ {k} : buckets'[j] = buckets[j]
      /\ buckets' \in [BucketIds -> BucketStates]
  <2>1. buckets \in [BucketIds -> BucketStates] /\ buckets[k] \in BucketStates
    BY <1>1 DEF TypeOK
  <2>2. \A j \in BucketIds \ {k} : buckets'[j] = buckets[j]
    BY <1>2, <2>1
  <2>3. buckets'[k] = [buckets[k] EXCEPT !.reserve = Plus(@, used), !.liquidity = @ + l]
    BY <1>2, <2>1
  <2>4. buckets' \in [BucketIds -> BucketStates]
    BY <1>2, <2>1, <2>2
  <2> QED BY <2>1, <2>2, <2>3, <2>4 DEF BucketStates
<1>7. TypeOK'
  BY <1>1, <1>2, <1>4, <1>6 DEF TypeOK
<1>8. \A j \in BucketIds : buckets'[j].cum_fee_per_share = buckets[j].cum_fee_per_share
  BY <1>6
<1>9. PositionsInv'
  <2>1. IsFiniteSet(positions')
    BY <1>1, <1>2, FS_AddElement DEF PositionsInv
  <2>2. ASSUME NEW p \in positions', NEW t \in Sides
        PROVE  /\ p.nonce # 0
               /\ p.cum_fee_at_deposit[t] <= buckets'[p.bucket_id].cum_fee_per_share[t]
    <3>1. CASE p \in positions
      <4>1. p.bucket_id \in BucketIds
        BY <1>1, <3>1 DEF TypeOK, PositionNotes
      <4> QED BY <1>1, <1>8, <3>1, <4>1 DEF PositionsInv
    <3>2. CASE p = n
      <4>1. buckets[k].cum_fee_per_share[t] \in Nat
        BY <1>1, BucketNats DEF TypeOK
      <4> QED BY <1>5, <1>8, <3>2, <4>1
    <3> QED BY <1>2, <3>1, <3>2
  <2>3. \A p \in positions' : p.nonce # 0
    BY <1>1, <1>2, <1>5 DEF PositionsInv
  <2>4. ASSUME NEW j \in BucketIds PROVE Sum(Shares', InBucket(j)') = buckets'[j].liquidity
    <3> DEFINE g == [p \in positions' |-> p.lp_share]
    <3>1. IntOn(g, positions') /\ \A p \in positions : g[p] = Shares[p]
      BY <1>2, <1>7, NoteNats DEF IntOn, TypeOK, Shares
    <3>2. g[n] = l
      BY <1>2, <1>5
    <3>3. Shares' = g
      BY DEF Shares
    <3> HIDE DEF g
    <3>4. /\ Sum(Shares, InBucket(j)) \in Int
          /\ j = k => Sum(g, InBucket(j)') = Sum(Shares, InBucket(j)) + l
          /\ j # k => Sum(g, InBucket(j)') = Sum(Shares, InBucket(j))
      <4>1. /\ Sum(Shares, Among(positions, j)) \in Int
            /\ n.bucket_id = j => Sum(g, Among(positions', j)) = Sum(Shares, Among(positions, j)) + g[n]
            /\ n.bucket_id # j => Sum(g, Among(positions', j)) = Sum(Shares, Among(positions, j))
        <5>1. IsFiniteSet(positions) /\ n \notin positions /\ positions' = positions \cup {n}
          BY <1>1, <1>2, <1>4 DEF PositionsInv
        <5> QED BY <3>1, <5>1, PositionOpened
      <4> QED BY <1>5, <3>2, <4>1, InBucketIsAmong
    <3>5. Sum(Shares, InBucket(j)) = buckets[j].liquidity
      BY <1>1 DEF PositionsInv
    <3> QED BY <1>6, <3>3, <3>4, <3>5
  <2> QED BY <2>1, <2>2, <2>3, <2>4 DEF PositionsInv
<1>10. ASSUME NEW j \in BucketIds, NEW t \in Sides
       PROVE  Sum(Growths(buckets[j], t)', InBucket(j)') <= (fee_pot'[j][t] + clearings'[j]) * SCALE
  <2> DEFINE f == Growths(buckets[j], t)
             g == [p \in positions' |-> growth(p, buckets'[j], t)]
  <2>1. Growths(buckets[j], t)' = g
    BY DEF Growths
  <2>2. IntOn(g, positions')
    BY <1>6, <1>7, GrowthType DEF IntOn, TypeOK
  <2>3. \A p \in positions : g[p] = f[p]
    <3> TAKE p \in positions
    <3>1. f[p] = growth(p, buckets[j], t) /\ g[p] = growth(p, buckets'[j], t)
      BY <1>2 DEF Growths
    <3>2. buckets'[j].cum_fee_per_share = buckets[j].cum_fee_per_share
      BY <1>8
    <3> QED BY <3>1, <3>2 DEF growth
  <2>4. n.bucket_id = j => g[n] = 0
    <3>1. SUFFICES ASSUME j = k PROVE g[n] = 0
      BY <1>5
    <3>2. l \in Nat /\ buckets[k].cum_fee_per_share[t] \in Nat
      BY <1>1, <1>3, BucketNats DEF TypeOK
    <3>3. g[n] = l * (buckets[k].cum_fee_per_share[t] - buckets[k].cum_fee_per_share[t])
      BY <1>2, <1>5, <1>8, <3>1 DEF growth
    <3> QED BY <3>2, <3>3
  <2> HIDE DEF f, g
  <2>5. /\ Sum(f, InBucket(j)) \in Int
        /\ n.bucket_id = j => Sum(g, InBucket(j)') = Sum(f, InBucket(j)) + g[n]
        /\ n.bucket_id # j => Sum(g, InBucket(j)') = Sum(f, InBucket(j))
    <3>1. IsFiniteSet(positions) /\ n \notin positions /\ positions' = positions \cup {n}
      BY <1>1, <1>2, <1>4 DEF PositionsInv
    <3>2. /\ Sum(f, Among(positions, j)) \in Int
          /\ n.bucket_id = j => Sum(g, Among(positions', j)) = Sum(f, Among(positions, j)) + g[n]
          /\ n.bucket_id # j => Sum(g, Among(positions', j)) = Sum(f, Among(positions, j))
      BY <2>2, <2>3, <3>1, PositionOpened
    <3> QED BY <3>2, InBucketIsAmong
  <2>6. Sum(g, InBucket(j)') = Sum(f, InBucket(j))
    BY <2>4, <2>5
  <2>7. Sum(f, InBucket(j)) <= (fee_pot[j][t] + clearings[j]) * SCALE
    BY DEF PoolInv, Covered, f
  <2> QED BY <1>2, <2>1, <2>6, <2>7
<1>11. CacheIsSum'
  <2>1. ASSUME NEW t \in Sides
        PROVE  pool_state'.reserve[t] = Total(buckets', fee_pot', t)
    <3> DEFINE f == Totals(buckets, fee_pot, t)
               g == Totals(buckets', fee_pot', t)
    <3>1. /\ pool_state.reserve \in Amounts2
          /\ \A j \in BucketIds : /\ fee_pot[j][t] \in Nat /\ buckets[j].reserve[t] \in Nat
                                  /\ buckets'[j].reserve[t] \in Nat
      <4>1. buckets \in [BucketIds -> BucketStates] /\ fee_pot \in [BucketIds -> Amounts2]
            /\ pool_state \in PoolStates
        BY <1>1 DEF TypeOK
      <4>2. \A x \in Amounts2 : x[t] \in Nat
        BY U128IsNat DEF Amounts2
      <4>3. \A j \in BucketIds : fee_pot[j] \in Amounts2
        BY <4>1
      <4>4. \A j \in BucketIds : buckets[j].reserve[t] \in Nat /\ buckets'[j].reserve[t] \in Nat
        BY <1>6, <4>1, BucketNats
      <4> QED BY <4>1, <4>2, <4>3, <4>4 DEF PoolStates
    <3>2. /\ \A j \in BucketIds : f[j] = buckets[j].reserve[t] + fee_pot[j][t]
          /\ \A j \in BucketIds : g[j] = buckets'[j].reserve[t] + fee_pot[j][t]
      BY <1>2 DEF Totals
    <3>3. buckets'[k].reserve[t] = buckets[k].reserve[t] + used[t] /\ used[t] \in Nat
      BY <1>3, <1>6, PlusMinus
    <3> HIDE DEF f, g
    <3>4. IntOn(f, BucketIds) /\ IntOn(g, BucketIds)
      BY <3>1, <3>2 DEF IntOn
    <3>5. \A j \in BucketIds \ {k} : g[j] = f[j]
      BY <1>6, <3>2
    <3>6. g[k] = f[k] + used[t] /\ f[k] \in Int
      BY <3>1, <3>2, <3>3
    <3>7. Sum(g, BucketIds) = Sum(f, BucketIds) - f[k] + g[k]
      BY <3>4, <3>5, BucketsAreFinite, SumUpdate
    <3>8. Sum(f, BucketIds) \in Int
      BY <3>4, BucketsAreFinite, SumType
    <3>9. Sum(g, BucketIds) = Sum(f, BucketIds) + used[t]
      BY <3>3, <3>6, <3>7, <3>8
    <3>10. pool_state.reserve[t] = Sum(f, BucketIds)
      BY <1>1, CacheIsTotal DEF Total, f
    <3>11. pool_state'.reserve[t] = pool_state.reserve[t] + used[t]
      <4>1. pool_state'.reserve = Plus(pool_state.reserve, used)
        BY <1>1, <1>2 DEF TypeOK, PoolStates
      <4> QED BY <4>1, PlusMinus
    <3> QED BY <3>9, <3>10, <3>11 DEF Total, g
  <2> QED BY <2>1 DEF CacheIsSum, Total, Totals, Accounted, Sum
<1>12. balance' = pool_state'.reserve
  BY <1>1, <1>2 DEF TypeOK, PoolStates
<1> QED BY <1>7, <1>9, <1>10, <1>11, <1>12 DEF PoolInv, Covered

\* A withdrawal keeps the invariant.
LEMMA WithdrawInv ==
  ASSUME PoolInv, NEW w \in Wallets, NEW p \in positions, Withdraw(w, p)
  PROVE  PoolInv'
<1> DEFINE k == p.bucket_id
           P == Principal(p, buckets[k])
           E == Earned(p, buckets[k], fee_pot[k])
           out == Plus(P, E)
<1>1. TypeOK /\ PositionsInv /\ CacheIsSum /\ balance = pool_state.reserve
  BY DEF PoolInv
<1>2. /\ hint[w].buckets[k] = buckets[k] /\ hint[w].fee_pot[k] = fee_pot[k]
      /\ WithdrawIsCovered(p, buckets[k], fee_pot[k])
      /\ positions' = positions \ {p}
      /\ buckets' = [buckets EXCEPT ![k].reserve = Minus(@, P), ![k].liquidity = @ - p.lp_share]
      /\ fee_pot' = [fee_pot EXCEPT ![k] = Minus(@, E)]
      /\ pool_state' = [pool_state EXCEPT !.reserve = Minus(@, out)]
      /\ balance' = Minus(balance, out)
      /\ orderbook_addr' = orderbook_addr /\ hint' = hint /\ clearings' = clearings
  BY DEF Withdraw, BucketIsLive, PotsAreLive
<1>3. /\ p \in PositionNotes /\ k \in BucketIds /\ buckets[k] \in BucketStates
      /\ fee_pot[k] \in Amounts2 /\ p.lp_share \in Nat
  BY <1>1, NoteNats DEF TypeOK, PositionNotes
<1>4. ASSUME NEW t \in Sides
      PROVE  /\ P[t] \in Nat /\ E[t] \in Nat
             /\ E[t] * SCALE <= growth(p, buckets[k], t) /\ growth(p, buckets[k], t) \in Nat
             /\ out[t] = P[t] + E[t]
             /\ P[t] <= buckets[k].reserve[t] /\ E[t] <= fee_pot[k][t]
             /\ out[t] <= pool_state.reserve[t]
  <2>1. P[t] = principal(p, buckets[k], t) /\ E[t] = earned(p, buckets[k], fee_pot[k], t)
    BY DEF Principal, Earned
  <2>2. out[t] = P[t] + E[t]
    BY PlusMinus
  <2>3. /\ buckets[k].cum_fee_per_share[t] >= p.cum_fee_at_deposit[t]
        /\ buckets[k].reserve[t] >= P[t]
        /\ fee_pot[k][t] >= E[t]
        /\ pool_state.reserve[t] >= P[t] + E[t]
    BY <1>2, <2>1 DEF WithdrawIsCovered
  <2>4. /\ P[t] \in Nat /\ E[t] \in Nat /\ E[t] * SCALE <= growth(p, buckets[k], t)
        /\ growth(p, buckets[k], t) \in Nat
    BY <1>3, <2>1, <2>3, PrincipalFacts, EarnedFacts
  <2>5. /\ buckets[k].reserve[t] \in Nat /\ fee_pot[k][t] \in Nat /\ pool_state.reserve[t] \in Nat
    <3>1. pool_state.reserve \in Amounts2
      BY <1>1 DEF TypeOK, PoolStates
    <3>2. \A x \in Amounts2 : x[t] \in Nat
      BY U128IsNat DEF Amounts2
    <3> QED BY <1>3, <3>1, <3>2, BucketNats
  <2> HIDE DEF P, E, out, k
  <2>6. P[t] <= buckets[k].reserve[t] /\ E[t] <= fee_pot[k][t]
    BY <2>3, <2>4, <2>5
  <2>7. out[t] <= pool_state.reserve[t]
    BY <2>2, <2>3, <2>4, <2>5
  <2> QED BY <2>2, <2>4, <2>6, <2>7
<1>5. ASSUME NEW x \in Amounts2, NEW y, \A t \in Sides : y[t] \in Nat /\ y[t] <= x[t]
      PROVE  Minus(x, y) \in Amounts2
  <2>1. ASSUME NEW t \in Sides PROVE x[t] - y[t] \in U128
    <3>1. x[t] \in U128 /\ y[t] \in Nat /\ y[t] <= x[t]
      BY <1>5 DEF Amounts2
    <3> QED BY <3>1, PoolConstants DEF U128
  <2> QED BY <2>1 DEF Minus, Amounts2
<1> HIDE DEF P, E, out, k
<1>6. /\ buckets'[k].reserve = Minus(buckets[k].reserve, P)
      /\ buckets'[k].liquidity = buckets[k].liquidity - p.lp_share
      /\ buckets'[k].cum_fee_per_share = buckets[k].cum_fee_per_share
      /\ \A j \in BucketIds \ {k} : buckets'[j] = buckets[j]
      /\ buckets' \in [BucketIds -> BucketStates]
  <2>1. buckets \in [BucketIds -> BucketStates]
    BY <1>1 DEF TypeOK
  <2>2. \A j \in BucketIds \ {k} : buckets'[j] = buckets[j]
    BY <1>2, <2>1
  <2>3. buckets'[k] = [buckets[k] EXCEPT !.reserve = Minus(@, P), !.liquidity = @ - p.lp_share]
    BY <1>2, <1>3, <2>1
  <2>4. Minus(buckets[k].reserve, P) \in Amounts2
    BY <1>3, <1>4, <1>5 DEF BucketStates
  <2>5. buckets[k].liquidity - p.lp_share \in U128
    <3>1. buckets[k].liquidity >= p.lp_share
      BY <1>2 DEF WithdrawIsCovered, k
    <3>2. buckets[k].liquidity \in U128
      BY <1>3 DEF BucketStates
    <3> QED BY <1>3, <3>1, <3>2, PoolConstants DEF U128
  <2>6. buckets'[k] \in BucketStates
    BY <1>3, <2>3, <2>4, <2>5 DEF BucketStates
  <2>7. buckets' \in [BucketIds -> BucketStates]
    BY <1>2, <2>1, <2>2, <2>6
  <2> QED BY <1>3, <2>2, <2>3, <2>7 DEF BucketStates
<1>7. /\ fee_pot'[k] = Minus(fee_pot[k], E)
      /\ \A j \in BucketIds \ {k} : fee_pot'[j] = fee_pot[j]
      /\ fee_pot' \in [BucketIds -> Amounts2]
  <2>1. Minus(fee_pot[k], E) \in Amounts2
    BY <1>3, <1>4, <1>5
  <2> QED BY <1>1, <1>2, <1>3, <2>1 DEF TypeOK
<1>8. /\ pool_state'.reserve = Minus(pool_state.reserve, out)
      /\ pool_state' \in PoolStates /\ balance' \in Amounts2
      /\ balance' = pool_state'.reserve
  <2>1. pool_state \in PoolStates /\ pool_state.reserve \in Amounts2
    BY <1>1 DEF TypeOK, PoolStates
  <2>2. \A t \in Sides : out[t] \in Nat /\ out[t] <= pool_state.reserve[t]
    <3> TAKE t \in Sides
    <3>1. P[t] \in Nat /\ E[t] \in Nat /\ out[t] = P[t] + E[t] /\ out[t] <= pool_state.reserve[t]
      BY <1>4
    <3> QED BY <3>1
  <2>3. Minus(pool_state.reserve, out) \in Amounts2
    BY <1>5, <2>1, <2>2
  <2> QED BY <1>1, <1>2, <2>1, <2>3 DEF PoolStates
<1>9. TypeOK'
  BY <1>1, <1>2, <1>6, <1>7, <1>8 DEF TypeOK
<1>10. \A j \in BucketIds : buckets'[j].cum_fee_per_share = buckets[j].cum_fee_per_share
  BY <1>6
<1>11. IsFiniteSet(positions)
  BY <1>1 DEF PositionsInv
<1>12. PositionsInv'
  <2>1. IsFiniteSet(positions')
    BY <1>2, <1>11, FS_RemoveElement
  <2>2. ASSUME NEW q \in positions', NEW t \in Sides
        PROVE  q.cum_fee_at_deposit[t] <= buckets'[q.bucket_id].cum_fee_per_share[t]
    <3>1. q \in positions /\ q.bucket_id \in BucketIds
      BY <1>1, <1>2 DEF TypeOK, PositionNotes
    <3> QED BY <1>1, <1>10, <3>1 DEF PositionsInv
  <2>3. \A q \in positions' : q.nonce # 0
    BY <1>1, <1>2 DEF PositionsInv
  <2>4. ASSUME NEW j \in BucketIds PROVE Sum(Shares', InBucket(j)') = buckets'[j].liquidity
    <3> DEFINE g == [q \in positions' |-> q.lp_share]
               f == Shares
    <3>1. IntOn(f, positions) /\ \A q \in positions' : g[q] = f[q]
      BY <1>1, <1>2, NoteNats DEF IntOn, TypeOK, Shares
    <3>2. f[p] = p.lp_share
      BY DEF Shares
    <3>3. Shares' = g
      BY DEF Shares
    <3> HIDE DEF f, g
    <3>4. /\ Sum(f, Among(positions, j)) \in Int
          /\ p.bucket_id = j => Sum(g, Among(positions', j)) = Sum(f, Among(positions, j)) - f[p]
          /\ p.bucket_id # j => Sum(g, Among(positions', j)) = Sum(f, Among(positions, j))
      BY <1>2, <1>11, <3>1, PositionClosed
    <3>5. Sum(f, Among(positions, j)) = buckets[j].liquidity
      BY <1>1, InBucketIsAmong DEF PositionsInv, f
    <3>6. Sum(g, Among(positions', j)) = buckets'[j].liquidity
      BY <1>6, <3>2, <3>4, <3>5 DEF k
    <3> QED BY <3>3, <3>6, InBucketIsAmong
  <2> QED BY <2>1, <2>2, <2>3, <2>4 DEF PositionsInv
<1>13. ASSUME NEW j \in BucketIds, NEW t \in Sides
       PROVE  Sum(Growths(buckets[j], t)', InBucket(j)') <= (fee_pot'[j][t] + clearings'[j]) * SCALE
  <2> DEFINE f == Growths(buckets[j], t)
             g == [q \in positions' |-> growth(q, buckets'[j], t)]
             x == fee_pot[j][t]
             y == clearings[j]
  <2>1. Growths(buckets[j], t)' = g
    BY DEF Growths
  <2>2. IntOn(f, positions) /\ f[p] = growth(p, buckets[j], t)
    BY <1>1, GrowthType DEF IntOn, TypeOK, Growths
  <2>3. \A q \in positions' : g[q] = f[q]
    <3> TAKE q \in positions'
    <3>1. f[q] = growth(q, buckets[j], t) /\ g[q] = growth(q, buckets'[j], t)
      BY <1>2 DEF Growths
    <3>2. buckets'[j].cum_fee_per_share = buckets[j].cum_fee_per_share
      BY <1>10
    <3> QED BY <3>1, <3>2 DEF growth
  <2>4. x \in Nat /\ y \in Nat /\ SCALE \in Nat
    <3>1. fee_pot[j] \in Amounts2 /\ clearings[j] \in 0..MaxClearings
      BY <1>1 DEF TypeOK
    <3>2. x \in Nat
      BY <3>1, U128IsNat DEF Amounts2
    <3>3. y \in Nat /\ SCALE \in Nat
      BY <3>1, PoolConstants
    <3> QED BY <3>2, <3>3
  <2>5. Sum(f, Among(positions, j)) <= (x + y) * SCALE
    BY InBucketIsAmong DEF PoolInv, Covered
  <2>6. clearings'[j] = y
    BY <1>2
  <2> HIDE DEF f, g, x, y
  <2>7. /\ Sum(f, Among(positions, j)) \in Int
        /\ p.bucket_id = j => Sum(g, Among(positions', j)) = Sum(f, Among(positions, j)) - f[p]
        /\ p.bucket_id # j => Sum(g, Among(positions', j)) = Sum(f, Among(positions, j))
    BY <1>2, <1>11, <2>2, <2>3, PositionClosed
  <2>8. CASE k # j
    <3>1. fee_pot'[j][t] = x
      BY <1>7, <2>8 DEF x
    <3> QED BY <2>1, <2>5, <2>6, <2>7, <2>8, <3>1, InBucketIsAmong DEF k
  <2>9. CASE k = j
    <3>1. fee_pot'[j][t] = x - E[t]
      BY <1>7, <2>9, PlusMinus DEF x
    <3>2. E[t] \in Nat /\ E[t] * SCALE <= f[p] /\ f[p] \in Int
      BY <1>4, <2>2, <2>9
    <3>3. ((x - E[t]) + y) * SCALE = (x + y) * SCALE - E[t] * SCALE
      BY <2>4, <3>2
    <3>4. (x + y) * SCALE \in Int /\ E[t] * SCALE \in Int
      BY <2>4, <3>2
    <3>5. Sum(g, Among(positions', j)) = Sum(f, Among(positions, j)) - f[p]
      BY <2>7, <2>9 DEF k
    <3>6. Sum(g, Among(positions', j)) <= (x + y) * SCALE - E[t] * SCALE
      BY <2>5, <2>7, <3>2, <3>4, <3>5
    <3> QED BY <2>1, <2>6, <3>1, <3>3, <3>6, InBucketIsAmong
  <2> QED BY <2>8, <2>9
<1>14. CacheIsSum'
  <2>1. ASSUME NEW t \in Sides
        PROVE  pool_state'.reserve[t] = Total(buckets', fee_pot', t)
    <3> DEFINE f == Totals(buckets, fee_pot, t)
               g == Totals(buckets', fee_pot', t)
    <3>1. \A j \in BucketIds : /\ fee_pot[j][t] \in Nat /\ fee_pot'[j][t] \in Nat
                               /\ buckets[j].reserve[t] \in Nat /\ buckets'[j].reserve[t] \in Nat
      <4>1. /\ buckets \in [BucketIds -> BucketStates] /\ fee_pot \in [BucketIds -> Amounts2]
        BY <1>1 DEF TypeOK
      <4>2. \A x \in Amounts2 : x[t] \in Nat
        BY U128IsNat DEF Amounts2
      <4>3. \A j \in BucketIds : fee_pot[j] \in Amounts2 /\ fee_pot'[j] \in Amounts2
        BY <1>7, <4>1
      <4>4. \A j \in BucketIds : buckets[j].reserve[t] \in Nat /\ buckets'[j].reserve[t] \in Nat
        BY <1>6, <4>1, BucketNats
      <4> QED BY <4>2, <4>3, <4>4
    <3>2. /\ \A j \in BucketIds : f[j] = buckets[j].reserve[t] + fee_pot[j][t]
          /\ \A j \in BucketIds : g[j] = buckets'[j].reserve[t] + fee_pot'[j][t]
      BY DEF Totals
    <3>3. /\ buckets'[k].reserve[t] = buckets[k].reserve[t] - P[t]
          /\ fee_pot'[k][t] = fee_pot[k][t] - E[t]
      BY <1>6, <1>7, PlusMinus
    <3>4. P[t] \in Nat /\ E[t] \in Nat /\ out[t] = P[t] + E[t]
      BY <1>4
    <3> HIDE DEF f, g
    <3>5. IntOn(f, BucketIds) /\ IntOn(g, BucketIds)
      BY <3>1, <3>2 DEF IntOn
    <3>6. \A j \in BucketIds \ {k} : g[j] = f[j]
      BY <1>6, <1>7, <3>2
    <3>7. f[k] = buckets[k].reserve[t] + fee_pot[k][t] /\ g[k] = buckets'[k].reserve[t] + fee_pot'[k][t]
      BY <1>3, <3>2
    <3>8. g[k] = f[k] - out[t] /\ f[k] \in Int
      BY <1>3, <3>1, <3>3, <3>4, <3>7
    <3>9. Sum(g, BucketIds) = Sum(f, BucketIds) - f[k] + g[k]
      BY <1>3, <3>5, <3>6, BucketsAreFinite, SumUpdate
    <3>10. Sum(f, BucketIds) \in Int
      BY <3>5, BucketsAreFinite, SumType
    <3>11. Sum(g, BucketIds) = Sum(f, BucketIds) - out[t]
      BY <3>4, <3>8, <3>9, <3>10
    <3>12. pool_state.reserve[t] = Sum(f, BucketIds)
      BY <1>1, CacheIsTotal DEF Total, f
    <3>13. pool_state'.reserve[t] = pool_state.reserve[t] - out[t]
      BY <1>8, PlusMinus
    <3> QED BY <3>11, <3>12, <3>13 DEF Total, g
  <2> QED BY <2>1 DEF CacheIsSum, Total, Totals, Accounted, Sum
<1> QED BY <1>8, <1>9, <1>12, <1>13, <1>14 DEF PoolInv, Covered

\* A step that leaves all but the views and the orderbook alone keeps the
\* invariant.
LEMMA QuietInv ==
  ASSUME PoolInv,
         UNCHANGED <<pool_state, buckets, fee_pot, positions, balance, clearings>>,
         orderbook_addr' \subseteq Accounts,
         hint' \in [Wallets -> [pool: PoolStates, buckets: [BucketIds -> BucketStates],
                                fee_pot: [BucketIds -> Amounts2]]]
  PROVE  PoolInv'
<1>1. TypeOK'
  BY DEF PoolInv, TypeOK
<1>2. /\ Shares' = Shares /\ \A k : InBucket(k)' = InBucket(k)
      /\ \A k, t : Growths(buckets[k], t)' = Growths(buckets[k], t)
  BY DEF Shares, InBucket, Growths
<1>3. PositionsInv'
  <2>1. PositionsInv
    BY DEF PoolInv
  <2>2. \A k \in BucketIds : Sum(Shares', InBucket(k)') = buckets'[k].liquidity
    BY <1>2, <2>1 DEF PositionsInv
  <2> QED BY <2>1, <2>2 DEF PositionsInv
<1>4. ASSUME NEW k \in BucketIds
      PROVE  Covered(buckets[k], fee_pot[k], clearings[k], k)'
  <2>1. Covered(buckets[k], fee_pot[k], clearings[k], k)
    BY DEF PoolInv
  <2> QED BY <1>2, <2>1 DEF Covered
<1>5. CacheIsSum'
  <2>1. \A t : Accounted(t)' = Accounted(t)
    BY DEF Accounted
  <2> QED BY <2>1 DEF CacheIsSum, PoolInv
<1>6. balance' = pool_state'.reserve
  BY DEF PoolInv
<1> QED BY <1>1, <1>3, <1>4, <1>5, <1>6 DEF PoolInv

\* Every step keeps the invariant.
LEMMA NextInv == PoolInv /\ [Next]_vars => PoolInv'
<1> SUFFICES ASSUME PoolInv, [Next]_vars PROVE PoolInv'
  OBVIOUS
<1>1. TypeOK
  BY DEF PoolInv
<1>2. ASSUME NEW w \in Wallets, ReadState(w) PROVE PoolInv'
  <2>1. Live \in [pool: PoolStates, buckets: [BucketIds -> BucketStates],
                  fee_pot: [BucketIds -> Amounts2]]
    BY <1>1 DEF Live, TypeOK
  <2>2. hint' \in [Wallets -> [pool: PoolStates, buckets: [BucketIds -> BucketStates],
                              fee_pot: [BucketIds -> Amounts2]]]
    BY <1>1, <1>2, <2>1 DEF ReadState, TypeOK
  <2> QED BY <1>1, <1>2, <2>2, QuietInv DEF ReadState, TypeOK
<1>3. ASSUME NEW caller \in Accounts, NEW orderbook \in Accounts,
             SetOrderbook(caller, orderbook)
      PROVE  PoolInv'
  BY <1>1, <1>3, QuietInv DEF SetOrderbook, TypeOK
<1>4. CASE UNCHANGED vars
  BY <1>1, <1>4, QuietInv DEF vars, TypeOK
<1> QED BY <1>2, <1>3, <1>4, DepositInv, WithdrawInv, ClearingInv DEF Next

-----------------------------------------------------------------------------
(* The theorems.                                                            *)

\* The inductive invariant holds throughout.
THEOREM InvCorrect == Spec => []PoolInv
BY InitInv, NextInv, PTL DEF Spec

\* The state keeps its types: no reserve, pot, liquidity, fee growth or balance
\* ever leaves the u128 range (contracts/pool/src/main.nr).
THEOREM TypeCorrect == Spec => []TypeOK
<1>1. PoolInv => TypeOK
  BY DEF PoolInv
<1> QED BY <1>1, InvCorrect, PTL

\* The cached total stays the sum of the buckets' reserves and fee pots.
THEOREM CacheIsSumCorrect == Spec => []CacheIsSum
<1>1. PoolInv => CacheIsSum
  BY DEF PoolInv
<1> QED BY <1>1, InvCorrect, PTL

\* The pool always holds the tokens that its buckets and pots account for.
THEOREM BackedCorrect == Spec => []Backed
<1>1. PoolInv => Backed
  <2> SUFFICES ASSUME PoolInv, NEW t \in Sides
               PROVE  SumFunctionOnSet(Accounted(t), BucketIds) <= balance[t]
    BY DEF Backed
  <2>1. balance[t] = SumFunctionOnSet(Accounted(t), BucketIds)
    BY DEF PoolInv, CacheIsSum
  <2>2. balance \in Amounts2
    BY DEF PoolInv, TypeOK
  <2>3. balance[t] \in Nat
    BY <2>2, U128IsNat DEF Amounts2
  <2> QED BY <2>1, <2>3
<1> QED BY <1>1, InvCorrect, PTL

\* M17: the claims of a bucket's open positions exceed its fee pot by at most
\* one unit per clearing that touched it.
THEOREM ShortfallIsDustCorrect == Spec => []ShortfallIsDust
<1>1. PoolInv => ShortfallIsDust
  <2> SUFFICES ASSUME PoolInv, NEW k \in BucketIds, NEW t \in Sides
               PROVE  SumFunctionOnSet(Claims(k, t), InBucket(k)) <= fee_pot[k][t] + clearings[k]
    BY DEF ShortfallIsDust
  <2> DEFINE S == InBucket(k)
             f == Claims(k, t)
             g == Growths(buckets[k], t)
             h == [p \in positions |-> f[p] * SCALE]
             x == fee_pot[k][t] + clearings[k]
  <2>1. TypeOK /\ PositionsInv
    BY DEF PoolInv
  <2>2. IsFiniteSet(S) /\ S \subseteq positions
    BY <2>1, FS_Subset DEF PositionsInv, InBucket
  <2>3. SCALE \in Nat \ {0}
    BY PoolConstants
  <2>4. x \in Nat
    <3>1. fee_pot[k] \in Amounts2 /\ clearings[k] \in 0..MaxClearings
      BY <2>1 DEF TypeOK
    <3>2. fee_pot[k][t] \in Nat
      BY <3>1, U128IsNat DEF Amounts2
    <3>3. clearings[k] \in Nat
      BY <3>1, PoolConstants
    <3> QED BY <3>2, <3>3
  <2>5. ASSUME NEW p \in S
        PROVE  f[p] \in Nat /\ g[p] \in Nat /\ h[p] = f[p] * SCALE /\ f[p] * SCALE <= g[p]
    <3>1. p \in positions /\ p \in PositionNotes /\ p.bucket_id = k
      BY <2>1, <2>2 DEF TypeOK, InBucket
    <3>2. buckets[k] \in BucketStates /\ fee_pot[k] \in Amounts2
      BY <2>1 DEF TypeOK
    <3>3. buckets[k].cum_fee_per_share[t] >= p.cum_fee_at_deposit[t]
      <4>1. p.cum_fee_at_deposit[t] <= buckets[k].cum_fee_per_share[t]
        BY <2>1, <3>1 DEF PositionsInv
      <4>2. p.cum_fee_at_deposit[t] \in Nat /\ buckets[k].cum_fee_per_share[t] \in Nat
        BY <3>1, <3>2, NoteNats, BucketNats
      <4> QED BY <4>1, <4>2
    <3>4. f[p] = earned_claim(p, buckets[k], t) /\ g[p] = growth(p, buckets[k], t)
      BY <3>1 DEF Claims, Growths
    <3>5. h[p] = f[p] * SCALE
      BY <3>1
    <3> HIDE DEF f, g, h
    <3> QED BY <3>1, <3>2, <3>3, <3>4, <3>5, EarnedFacts
  <2>6. Sum(g, S) <= x * SCALE
    BY DEF PoolInv, Covered
  <2> HIDE DEF S, f, g, h, x
  <2>7. \A p \in S : f[p] \in Int /\ h[p] \in Int /\ g[p] \in Int /\ h[p] <= g[p]
    <3> TAKE p \in S
    <3>1. f[p] \in Nat /\ g[p] \in Nat /\ h[p] = f[p] * SCALE /\ f[p] * SCALE <= g[p]
      BY <2>5
    <3> QED BY <2>3, <3>1
  <2>8. IntOn(f, S) /\ IntOn(g, S) /\ IntOn(h, S)
    BY <2>7 DEF IntOn
  <2>9. Sum(h, S) = Sum(f, S) * SCALE
    BY <2>2, <2>3, <2>5, <2>8, SumScale
  <2>10. Sum(h, S) <= Sum(g, S)
    BY <2>2, <2>7, <2>8, SumMonotone
  <2>11. Sum(f, S) \in Int /\ Sum(g, S) \in Int /\ Sum(h, S) \in Int
    BY <2>2, <2>8, SumType
  <2>12. Sum(f, S) * SCALE <= x * SCALE
    <3>1. x * SCALE \in Int
      BY <2>3, <2>4
    <3> QED BY <2>6, <2>9, <2>10, <2>11, <3>1
  <2>13. Sum(f, S) <= x
    <3> DEFINE s == Sum(f, S)
    <3>1. s \in Int /\ s * SCALE <= x * SCALE
      BY <2>11, <2>12
    <3> HIDE DEF s
    <3>2. SUFFICES ASSUME s >= x + 1 PROVE FALSE
      BY <2>4, <3>1 DEF s
    <3>3. s * SCALE >= (x + 1) * SCALE
      BY <2>3, <2>4, <3>1, <3>2
    <3>4. (x + 1) * SCALE = x * SCALE + SCALE /\ x * SCALE \in Int /\ s * SCALE \in Int
      BY <2>3, <2>4, <3>1
    <3> QED BY <2>3, <3>1, <3>3, <3>4
  <2> QED BY <2>13 DEF Sum, S, f, x
<1> QED BY <1>1, InvCorrect, PTL

\* With live hints every open position can be withdrawn: none of the
\* subtractions of withdraw underflows, whatever happened since its deposit.
THEOREM EveryPositionCanLeaveCorrect == Spec => []EveryPositionCanLeave
<1>1. PoolInv => EveryPositionCanLeave
  <2> SUFFICES ASSUME PoolInv, NEW p \in positions
               PROVE  /\ p.nonce # 0
                      /\ WithdrawIsCovered(p, buckets[p.bucket_id], fee_pot[p.bucket_id])
    BY DEF EveryPositionCanLeave
  <2> DEFINE k == p.bucket_id
             S == InBucket(k)
  <2>1. TypeOK /\ PositionsInv /\ balance = pool_state.reserve
    BY DEF PoolInv
  <2>2. /\ p \in PositionNotes /\ k \in BucketIds /\ buckets[k] \in BucketStates
        /\ fee_pot[k] \in Amounts2
    BY <2>1 DEF TypeOK, PositionNotes
  <2>3. buckets[k].liquidity >= p.lp_share
    <3>1. IsFiniteSet(S) /\ S \subseteq positions /\ p \in S
      BY <2>1, FS_Subset DEF PositionsInv, InBucket
    <3>2. \A q \in S : Shares[q] \in Nat
      BY <2>1, <3>1, NoteNats DEF TypeOK, Shares
    <3>3. Sum(Shares, S) = buckets[k].liquidity /\ Shares[p] = p.lp_share
      BY <2>1, <2>2 DEF PositionsInv, Shares
    <3> HIDE DEF S
    <3>4. Shares[p] <= Sum(Shares, S)
      BY <3>1, <3>2, SumBound
    <3>5. p.lp_share \in Nat /\ buckets[k].liquidity \in Nat
      BY <2>2, NoteNats, BucketNats
    <3> QED BY <3>3, <3>4, <3>5
  <2>4. ASSUME NEW t \in Sides
        PROVE  LET out == principal(p, buckets[k], t) + earned(p, buckets[k], fee_pot[k], t) IN
               /\ buckets[k].cum_fee_per_share[t] >= p.cum_fee_at_deposit[t]
               /\ buckets[k].reserve[t] >= principal(p, buckets[k], t)
               /\ fee_pot[k][t] >= earned(p, buckets[k], fee_pot[k], t)
               /\ pool_state.reserve[t] >= out
               /\ balance[t] >= out
    <3> DEFINE P == principal(p, buckets[k], t)
               E == earned(p, buckets[k], fee_pot[k], t)
               f == Totals(buckets, fee_pot, t)
               r == buckets[k].reserve[t]
               x == fee_pot[k][t]
    <3>1. r \in Nat /\ x \in Nat
      <4>1. x \in Nat
        BY <2>2, U128IsNat DEF Amounts2
      <4> QED BY <2>2, <4>1, BucketNats
    <3>2. buckets[k].cum_fee_per_share[t] >= p.cum_fee_at_deposit[t]
      <4>1. p.cum_fee_at_deposit[t] <= buckets[k].cum_fee_per_share[t]
        BY <2>1 DEF PositionsInv
      <4>2. p.cum_fee_at_deposit[t] \in Nat /\ buckets[k].cum_fee_per_share[t] \in Nat
        BY <2>2, NoteNats, BucketNats
      <4> QED BY <4>1, <4>2
    <3>3. P \in Nat /\ P <= r
      <4>1. p.lp_share <= buckets[k].liquidity
        <5>1. p.lp_share \in Nat /\ buckets[k].liquidity \in Nat
          BY <2>2, NoteNats, BucketNats
        <5> QED BY <2>3, <5>1
      <4> QED BY <2>2, <4>1, PrincipalFacts
    <3>4. E \in Nat /\ E <= x
      BY <2>2, <3>2, EarnedFacts
    <3>5. \A j \in BucketIds : f[j] \in Nat
      <4> TAKE j \in BucketIds
      <4>1. buckets[j] \in BucketStates /\ fee_pot[j] \in Amounts2
        BY <2>1 DEF TypeOK
      <4>2. fee_pot[j][t] \in Nat
        BY <4>1, U128IsNat DEF Amounts2
      <4>3. buckets[j].reserve[t] \in Nat
        BY <4>1, BucketNats
      <4>4. f[j] = buckets[j].reserve[t] + fee_pot[j][t]
        BY DEF Totals
      <4> QED BY <4>2, <4>3, <4>4
    <3>6. f[k] = r + x
      BY <2>2 DEF Totals
    <3>7. pool_state.reserve[t] = Sum(f, BucketIds)
      BY CacheIsTotal DEF PoolInv, Total
    <3> HIDE DEF P, E, f, r, x
    <3>8. f[k] <= Sum(f, BucketIds) /\ Sum(f, BucketIds) \in Nat
      BY <2>2, <3>5, BucketsAreFinite, SumBound, SumNat
    <3>9. r >= P /\ x >= E /\ pool_state.reserve[t] >= P + E
      BY <3>1, <3>3, <3>4, <3>6, <3>7, <3>8
    <3> QED BY <2>1, <3>2, <3>9 DEF P, E, r, x
  <2>5. p.nonce # 0
    BY <2>1 DEF PositionsInv
  <2> QED BY <2>3, <2>4, <2>5 DEF WithdrawIsCovered
<1> QED BY <1>1, InvCorrect, PTL

\* A step that opens a position is a deposit, and the position has no claim on
\* the fees credited before it.
LEMMA NewcomersStep == PoolInv /\ [Next]_vars => [NewcomersEarnedNothing]_vars
<1> SUFFICES ASSUME PoolInv, [Next]_vars PROVE NewcomersEarnedNothing \/ UNCHANGED vars
  OBVIOUS
<1>1. ASSUME NEW w \in Wallets, NEW id \in NoteIds, NEW k \in BucketIds,
             NEW amount \in [Sides -> Amounts], NEW nonce \in Nonces,
             Deposit(w, id, k, amount, nonce)
      PROVE  NewcomersEarnedNothing
  <2>1. PoolInv' /\ TypeOK'
    BY <1>1, DepositInv DEF PoolInv
  <2> SUFFICES ASSUME NEW p \in positions' \ positions, NEW t \in Sides
               PROVE  earned_claim(p, buckets'[p.bucket_id], t) = 0
    BY DEF NewcomersEarnedNothing
  <2>2. p.bucket_id = k /\ p.cum_fee_at_deposit = buckets[k].cum_fee_per_share
    <3> DEFINE math == compute_deposit(amount, hint[w].pool.current_sqrt_price, k)
               note == [id |-> id, bucket_id |-> k, lp_share |-> math.l_used,
                        cum_fee_at_deposit |-> hint[w].buckets[k].cum_fee_per_share, nonce |-> nonce]
    <3>1. positions' = positions \cup {note}
      BY <1>1, Zenon DEF Deposit
    <3>2. hint[w].buckets[k] = buckets[k]
      BY <1>1, Zenon DEF Deposit, BucketIsLive
    <3> HIDE DEF math
    <3>3. note.bucket_id = k /\ note.cum_fee_at_deposit = hint[w].buckets[k].cum_fee_per_share
      OBVIOUS
    <3> HIDE DEF note
    <3> QED BY <3>1, <3>2, <3>3
  <2>3. buckets'[k].cum_fee_per_share = buckets[k].cum_fee_per_share
    <3>1. buckets \in [BucketIds -> BucketStates] /\ buckets[k] \in BucketStates
      BY DEF PoolInv, TypeOK
    <3> DEFINE credit == compute_deposit(amount, hint[w].pool.current_sqrt_price, k)
    <3>2. buckets' = [buckets EXCEPT ![k].reserve = Plus(@, credit.used),
                                     ![k].liquidity = @ + credit.l_used]
      BY <1>1 DEF Deposit
    <3> HIDE DEF credit
    <3> QED BY <3>1, <3>2 DEF BucketStates
  <2>4. p \in PositionNotes
    BY <2>1 DEF TypeOK
  <2>5. p.lp_share \in Nat /\ p.cum_fee_at_deposit[t] \in Nat /\ SCALE \in Nat \ {0}
    BY <2>4, NoteNats, PoolConstants
  <2>6. earned_claim(p, buckets'[p.bucket_id], t)
          = mul_div(p.lp_share, p.cum_fee_at_deposit[t] - p.cum_fee_at_deposit[t], SCALE)
    BY <2>2, <2>3 DEF earned_claim
  <2>7. p.cum_fee_at_deposit[t] - p.cum_fee_at_deposit[t] = 0
    BY <2>5
  <2>8. mul_div(p.lp_share, 0, SCALE) = 0
    <3>1. p.lp_share * 0 = 0 /\ 0 \div SCALE = 0
      BY <2>5
    <3> QED BY <3>1 DEF mul_div
  <2> QED BY <2>6, <2>7, <2>8
<1>2. CASE positions' \subseteq positions
  BY <1>2 DEF NewcomersEarnedNothing
<1>3. ASSUME NEW w \in Wallets, NEW p \in positions, Withdraw(w, p)
      PROVE  positions' \subseteq positions
  BY <1>3 DEF Withdraw
<1>4. ASSUME NEW w \in Wallets, ReadState(w) PROVE positions' \subseteq positions
  BY <1>4 DEF ReadState
<1>5. ASSUME NEW w \in Wallets, NEW caller \in Accounts, NEW deltas \in DeltaLists,
             NEW price \in SqrtPrices, ApplyClearing(w, caller, deltas, price)
      PROVE  positions' \subseteq positions
  BY <1>5 DEF ApplyClearing
<1>6. ASSUME NEW caller \in Accounts, NEW orderbook \in Accounts,
             SetOrderbook(caller, orderbook)
      PROVE  positions' \subseteq positions
  BY <1>6 DEF SetOrderbook
<1> QED BY <1>1, <1>2, <1>3, <1>4, <1>5, <1>6 DEF Next

\* A position starts without a claim on fees credited before its deposit, since
\* the public half of deposit rejects a snapshot with another fee growth.
THEOREM NoFeesBeforeDepositCorrect == Spec => NoFeesBeforeDeposit
BY NewcomersStep, InvCorrect, PTL DEF Spec, NoFeesBeforeDeposit

\* A common positive factor may be dropped from an inequality.
LEMMA CancelFactor ==
  ASSUME NEW a \in Int, NEW b \in Int, NEW d \in Nat \ {0}, a * d <= b * d
  PROVE  a <= b
<1>1. SUFFICES ASSUME a >= b + 1 PROVE FALSE
  OBVIOUS
<1>2. a * d >= (b + 1) * d
  BY <1>1
<1>3. (b + 1) * d = b * d + d /\ a * d \in Int /\ b * d \in Int
  OBVIOUS
<1> QED BY <1>2, <1>3

\* When s of L shares leave with f, at most their part of R, what s2 shares were
\* worth is at most their part of what remains.
LEMMA FairShare ==
  ASSUME NEW R \in Nat, NEW L \in Nat \ {0}, NEW s \in Nat, NEW s2 \in Nat,
         NEW f \in Nat, NEW g \in Nat, s <= L, f <= R, f * L <= s * R, g * L <= s2 * R
  PROVE  g * (L - s) <= s2 * (R - f)
<1> DEFINE D == L - s
           x == s2 * R
<1>1. D \in Nat /\ x \in Nat
  OBVIOUS
<1>2. x * D = x * L - x * s
  BY <1>1
<1> HIDE DEF D, x
<1>3. (g * L) * D <= x * D
  <2>1. g * L \in Nat /\ g * L <= x
    BY DEF x
  <2> QED BY <1>1, <2>1
<1>4. s2 * (f * L) <= s2 * (s * R)
  <2>1. f * L \in Nat /\ s * R \in Nat
    OBVIOUS
  <2> QED BY <2>1
<1>5. s2 * (s * R) = x * s
  BY DEF x
<1>6. (s2 * (R - f)) * L = x * L - s2 * (f * L)
  BY DEF x
<1>7. (g * D) * L = (g * L) * D
  BY <1>1
<1>8. /\ (g * L) * D \in Int /\ x * D \in Int /\ x * L \in Int /\ x * s \in Int
      /\ s2 * (f * L) \in Int /\ g * D \in Int /\ s2 * (R - f) \in Int
  BY <1>1
<1>9. (g * D) * L <= (s2 * (R - f)) * L
  BY <1>2, <1>3, <1>4, <1>5, <1>6, <1>7, <1>8
<1>10. g * D <= s2 * (R - f)
  BY <1>8, <1>9, CancelFactor
<1> QED BY <1>10 DEF D

\* A floored quotient is at least every integer whose product with the divisor
\* the dividend reaches.
LEMMA QuotientReaches ==
  ASSUME NEW g \in Nat, NEW x \in Nat, NEW y \in Nat, NEW d \in Nat \ {0}, g * d <= x * y
  PROVE  mul_div(x, y, d) >= g
<1> DEFINE m == mul_div(x, y, d)
<1>1. m \in Nat /\ x * y < m * d + d
  BY MulDivFacts
<1> HIDE DEF m
<1>2. SUFFICES ASSUME g >= m + 1 PROVE FALSE
  BY <1>1 DEF m
<1>3. g * d >= (m + 1) * d
  BY <1>1, <1>2
<1>4. (m + 1) * d = m * d + d /\ g * d \in Int /\ m * d \in Int /\ x * y \in Int
  BY <1>1
<1> QED BY <1>1, <1>3, <1>4

\* A withdrawal leaves every other position of its bucket worth at least what
\* it was worth.
LEMMA WithdrawIsFair ==
  ASSUME PoolInv, NEW w \in Wallets, NEW p \in positions, Withdraw(w, p),
         NEW q \in positions', NEW t \in Sides
  PROVE  principal(q, buckets'[q.bucket_id], t) >= principal(q, buckets[q.bucket_id], t)
<1> DEFINE k == p.bucket_id
           b == buckets[k]
           b1 == buckets'[k]
           L == b.liquidity
           L1 == b1.liquidity
           R == b.reserve[t]
           R1 == b1.reserve[t]
           s == p.lp_share
           s2 == q.lp_share
           f == principal(p, b, t)
           g == principal(q, b, t)
<1>1. TypeOK /\ PositionsInv /\ TypeOK' /\ PositionsInv'
  BY WithdrawInv DEF PoolInv
<1>2. /\ q \in positions /\ q # p /\ positions' = positions \ {p}
      /\ p \in PositionNotes /\ q \in PositionNotes /\ k \in BucketIds
      /\ q.bucket_id \in BucketIds
      /\ b \in BucketStates /\ b1 \in BucketStates
  BY <1>1 DEF TypeOK, PositionNotes, Withdraw
<1>3. /\ buckets' = [buckets EXCEPT ![k].reserve = Minus(@, Principal(p, b)),
                                    ![k].liquidity = @ - s]
      /\ s <= L /\ f <= R
  <2>1. hint[w].buckets[k] = b
    BY DEF Withdraw, BucketIsLive
  <2>2. WithdrawIsCovered(p, b, hint[w].fee_pot[k])
    BY <2>1 DEF Withdraw
  <2>3. L >= s /\ R >= f
    BY <2>2 DEF WithdrawIsCovered
  <2>4. s \in Nat /\ L \in Nat /\ f \in Nat /\ R \in Nat
    BY <1>2, NoteNats, BucketNats, PrincipalFacts
  <2>5. buckets' = [buckets EXCEPT ![k].reserve = Minus(@, Principal(p, b)),
                                   ![k].liquidity = @ - s]
    BY <2>1 DEF Withdraw
  <2> HIDE DEF L, R, s, f
  <2>6. s <= L /\ f <= R
    BY <2>3, <2>4
  <2> QED BY <2>5, <2>6
<1>4. CASE q.bucket_id # k
  <2>1. buckets'[q.bucket_id] = buckets[q.bucket_id]
    BY <1>1, <1>2, <1>3, <1>4 DEF TypeOK
  <2>2. principal(q, buckets[q.bucket_id], t) \in Nat
    BY <1>1, <1>2, PrincipalFacts DEF TypeOK
  <2> QED BY <2>1, <2>2
<1>5. CASE q.bucket_id = k
  <2>1. /\ s \in Nat /\ s2 \in Nat /\ L \in Nat /\ L1 \in Nat /\ R \in Nat /\ R1 \in Nat
        /\ f \in Nat /\ g \in Nat /\ principal(q, b1, t) \in Nat
    BY <1>2, NoteNats, BucketNats, PrincipalFacts
  <2>2. L1 = L - s /\ R1 = R - f
    <3>1. b1 = [b EXCEPT !.reserve = Minus(@, Principal(p, b)), !.liquidity = @ - s]
      BY <1>1, <1>2, <1>3 DEF TypeOK
    <3>2. b1.reserve = Minus(b.reserve, Principal(p, b)) /\ b1.liquidity = b.liquidity - s
      BY <1>2, <3>1 DEF BucketStates
    <3>3. Principal(p, b)[t] = f
      BY DEF Principal
    <3> QED BY <3>2, <3>3, PlusMinus
  <2>3. s2 <= L1
    <3> DEFINE S1 == InBucket(k)'
               h == Shares'
    <3>1. IsFiniteSet(S1) /\ S1 \subseteq positions' /\ q \in S1
      BY <1>1, <1>5, FS_Subset DEF PositionsInv, InBucket
    <3>2. h = [x \in positions' |-> x.lp_share]
      BY DEF Shares
    <3>3. h[q] = s2 /\ Sum(h, S1) = L1
      BY <1>1, <1>2, <3>2 DEF PositionsInv
    <3>4. \A x \in S1 : h[x] \in Nat
      BY <1>1, <3>1, <3>2, NoteNats DEF TypeOK
    <3> HIDE DEF S1, h
    <3>5. h[q] <= Sum(h, S1)
      BY <3>1, <3>4, SumBound
    <3> QED BY <3>3, <3>5
  <2>4. CASE s2 = 0
    <3>1. g = 0
      <4>1. CASE L = 0
        BY <4>1 DEF principal
      <4>2. CASE L # 0
        <5>1. g = mul_div(s2, R, L)
          BY <4>2 DEF principal
        <5>2. s2 * R = 0 /\ 0 \div L = 0
          BY <2>1, <2>4, <4>2
        <5> QED BY <5>1, <5>2 DEF mul_div
      <4> QED BY <4>1, <4>2
    <3> QED BY <1>5, <2>1, <3>1
  <2>5. CASE s2 # 0
    <3>1. L1 # 0 /\ L # 0
      BY <2>1, <2>2, <2>3, <2>5, <1>3
    <3>2. f = mul_div(s, R, L) /\ g = mul_div(s2, R, L)
      BY <3>1 DEF principal
    <3>3. principal(q, b1, t) = mul_div(s2, R1, L1)
      BY <3>1 DEF principal
    <3> HIDE DEF s, s2, L, L1, R, R1, f, g
    <3>4. f * L <= s * R /\ g * L <= s2 * R
      BY <2>1, <3>1, <3>2, MulDivFacts
    <3>5. g * (L - s) <= s2 * (R - f)
      BY <1>3, <2>1, <3>1, <3>4, FairShare
    <3>6. mul_div(s2, R1, L1) >= g
      BY <2>1, <2>2, <3>1, <3>5, QuotientReaches
    <3> QED BY <1>5, <3>3, <3>6 DEF g
  <2> QED BY <2>4, <2>5
<1> QED BY <1>4, <1>5

\* A step after which positions are missing is a withdrawal, and fair.
LEMMA FairStep == PoolInv /\ [Next]_vars => [OthersKeepTheirPrincipal]_vars
<1> SUFFICES ASSUME PoolInv, [Next]_vars PROVE OthersKeepTheirPrincipal \/ UNCHANGED vars
  OBVIOUS
<1>1. ASSUME NEW w \in Wallets, NEW p \in positions, Withdraw(w, p)
      PROVE  OthersKeepTheirPrincipal
  BY <1>1, WithdrawIsFair DEF OthersKeepTheirPrincipal
<1>2. CASE positions' = positions
  BY <1>2 DEF OthersKeepTheirPrincipal
<1>3. ASSUME NEW w \in Wallets, NEW id \in NoteIds, NEW k \in BucketIds,
             NEW amount \in [Sides -> Amounts], NEW nonce \in Nonces,
             Deposit(w, id, k, amount, nonce)
      PROVE  OthersKeepTheirPrincipal
  <2> DEFINE n == [id |-> id, bucket_id |-> k,
                   lp_share |-> compute_deposit(amount, hint[w].pool.current_sqrt_price, k).l_used,
                   cum_fee_at_deposit |-> hint[w].buckets[k].cum_fee_per_share, nonce |-> nonce]
  <2>1. positions' = positions \cup {n} /\ n.id = id
    BY <1>3 DEF Deposit
  <2> HIDE DEF n
  <2>2. n \notin positions
    BY <1>3, <2>1 DEF Deposit
  <2> QED BY <2>1, <2>2 DEF OthersKeepTheirPrincipal
<1>4. ASSUME NEW w \in Wallets, ReadState(w) PROVE positions' = positions
  BY <1>4 DEF ReadState
<1>5. ASSUME NEW w \in Wallets, NEW caller \in Accounts, NEW deltas \in DeltaLists,
             NEW price \in SqrtPrices, ApplyClearing(w, caller, deltas, price)
      PROVE  positions' = positions
  BY <1>5 DEF ApplyClearing
<1>6. ASSUME NEW caller \in Accounts, NEW orderbook \in Accounts,
             SetOrderbook(caller, orderbook)
      PROVE  positions' = positions
  BY <1>6 DEF SetOrderbook
<1> QED BY <1>1, <1>2, <1>3, <1>4, <1>5, <1>6 DEF Next

\* The flooring of principal in withdraw favours those who stay: no withdrawal
\* lowers what another position of the bucket is worth.
THEOREM WithdrawalsAreFairCorrect == Spec => WithdrawalsAreFair
BY FairStep, InvCorrect, PTL DEF Spec, WithdrawalsAreFair

=============================================================================
