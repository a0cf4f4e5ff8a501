---------------------------- MODULE LiquidityPool ----------------------------
(***************************************************************************)
(* The LiquidityPool contract (contracts/pool/src/main.nr): concentrated   *)
(* liquidity in price buckets.  LPs deposit into one bucket and later      *)
(* withdraw a pro-rata share of its reserves and their fees; the orderbook *)
(* moves reserves and credits fees when an epoch is cleared.               *)
(*                                                                         *)
(* deposit and withdraw compute everything privately, on a snapshot of the *)
(* public state passed in as hints; the public half of the transaction     *)
(* asserts that the snapshot is still the state.  A clearing is bound to a *)
(* snapshot in the same way, through pool_state_commitment.                *)
(*                                                                         *)
(* Amounts of the two tokens are functions of t, which is "a" or "b".      *)
(***************************************************************************)
EXTENDS Integers, Sequences, FiniteSetsExt

CONSTANTS
  Wallets,        \* LPs and aggregators, each with its own view of the state
  NoteIds,        \* identities of position notes
  Nonces,         \* position nonces (0 is refused)
  NUM_BUCKETS,
  Amounts,        \* amounts an LP may offer of a token
  Deltas,         \* bucket deltas (struct BucketDelta) a clearing may carry
  Flows,          \* aggregate flows of one token a clearing may carry
  SqrtPrices,     \* prices a clearing may leave
  Accounts, Admin,
  p_min_sqrt, bucket_growth_num,
  SCALE,          \* FEE_SCALE, the fixed point (10^18 in the code)
  MAX_ACTIVE_BUCKETS_PER_EPOCH,
  MAX_U128,       \* u128 arithmetic is checked: a result above it reverts
  MaxClearings    \* bound: clearings that touch one bucket

U128 == 0..MAX_U128
BucketIds == 0..(NUM_BUCKETS - 1)
Sides == {"a", "b"}
Amounts2 == [Sides -> U128]

PoolStates == [reserve: Amounts2, current_sqrt_price: U128]

BucketStates == [reserve: Amounts2, liquidity: U128, cum_fee_per_share: Amounts2]

PositionNotes ==
  [id: NoteIds, bucket_id: BucketIds, lp_share: U128,
   cum_fee_at_deposit: Amounts2, nonce: Nat]

BucketDeltas ==
  [bucket_id: BucketIds, reserve_add: Amounts2, reserve_sub: Amounts2,
   cum_fee_increment: Amounts2]

\* The bounds of a bucket are the geometric series the constructor fixes.
sqrt_lower[k \in Nat] ==
  IF k = 0 THEN p_min_sqrt ELSE (sqrt_lower[k - 1] * bucket_growth_num) \div SCALE

sqrt_upper(k) == (sqrt_lower[k] * bucket_growth_num) \div SCALE

ASSUME PoolConstants ==
  /\ NUM_BUCKETS \in Nat \ {0} /\ SCALE \in Nat \ {0} /\ MAX_U128 \in Nat
  /\ p_min_sqrt \in U128 /\ bucket_growth_num \in Nat
  /\ Nonces \subseteq Nat /\ Amounts \subseteq U128 /\ Flows \subseteq U128
  /\ SqrtPrices \subseteq U128 /\ Deltas \subseteq BucketDeltas
  /\ MAX_ACTIVE_BUCKETS_PER_EPOCH \in 0..4 /\ MaxClearings \in Nat

ASSUME BucketsHaveWidth ==
  \A k \in BucketIds : /\ sqrt_lower[k] \in Nat /\ sqrt_upper(k) \in Nat
                       /\ sqrt_lower[k] < sqrt_upper(k)

VARIABLES
  pool_state,     \* the cached total of the reserves, and the price
  buckets,        \* the state of each bucket
  fee_pot,        \* fee_pot_a/fee_pot_b: forwarded LP fees, per bucket
  positions,      \* the PositionNotes not yet popped
  orderbook_addr, \* {} until wired, then the one account in it
  balance,        \* the pool's public balance of each token
  hint,           \* hint[w]: the snapshot w builds its next transaction on
  clearings       \* ghost: deltas applied to each bucket so far

vars == <<pool_state, buckets, fee_pot, positions, orderbook_addr, balance,
          hint, clearings>>

Live == [pool |-> pool_state, buckets |-> buckets, fee_pot |-> fee_pot]

Zero == [t \in Sides |-> 0]

\* x_a of token a and x_b of token b.
Pair(x_a, x_b) == [t \in Sides |-> IF t = "a" THEN x_a ELSE x_b]

Plus(x, y) == [t \in Sides |-> x[t] + y[t]]

Minus(x, y) == [t \in Sides |-> x[t] - y[t]]

-----------------------------------------------------------------------------
(* Deposit mathematics (pool/src/buckets.nr).                              *)

\* mul_div floors; Fits says its product did not overflow.
mul_div(x, y, z) == (x * y) \div z

Fits(x, y) == x * y <= MAX_U128

compute_deposit_below_range(x_a, lower, upper) ==
  [l_used |-> mul_div(x_a, mul_div(lower, upper, SCALE), upper - lower),
   used |-> Pair(x_a, 0)]

compute_deposit_above_range(x_b, lower, upper) ==
  [l_used |-> mul_div(x_b, SCALE, upper - lower), used |-> Pair(0, x_b)]

compute_deposit_in_range(x, sqrt_p, lower, upper) ==
  LET sqrt_p_x_upper == mul_div(sqrt_p, upper, SCALE)
      l_a == mul_div(x["a"], sqrt_p_x_upper, upper - sqrt_p)
      l_b == mul_div(x["b"], SCALE, sqrt_p - lower)
      l_used == IF l_a < l_b THEN l_a ELSE l_b
  IN  [l_used |-> l_used,
       used |-> Pair(mul_div(l_used, upper - sqrt_p, sqrt_p_x_upper),
                     mul_div(l_used, sqrt_p - lower, SCALE))]

compute_deposit(x, sqrt_p, k) ==
  IF sqrt_p <= sqrt_lower[k]
  THEN compute_deposit_below_range(x["a"], sqrt_lower[k], sqrt_upper(k))
  ELSE IF sqrt_p >= sqrt_upper(k)
  THEN compute_deposit_above_range(x["b"], sqrt_lower[k], sqrt_upper(k))
  ELSE compute_deposit_in_range(x, sqrt_p, sqrt_lower[k], sqrt_upper(k))

\* No product of compute_deposit overflows (those of used are smaller), and no
\* divisor of it is zero.
DepositFits(x, sqrt_p, k) ==
  LET lower == sqrt_lower[k]
      upper == sqrt_upper(k)
  IN  \/ sqrt_p <= lower /\ Fits(lower, upper) /\ Fits(x["a"], mul_div(lower, upper, SCALE))
      \/ sqrt_p >= upper /\ Fits(x["b"], SCALE)
      \/ /\ lower < sqrt_p /\ sqrt_p < upper
         /\ Fits(sqrt_p, upper) /\ mul_div(sqrt_p, upper, SCALE) # 0
         /\ Fits(x["a"], mul_div(sqrt_p, upper, SCALE)) /\ Fits(x["b"], SCALE)

-----------------------------------------------------------------------------
(* Hints and what a position is worth.                                     *)

PoolIsLive(w) == hint[w].pool = pool_state

\* Mutant: the public half trusts the snapshot's bucket.
AnyBucket(w, k) == TRUE

BucketIsLive(w, k) == hint[w].buckets[k] = buckets[k]

PotsAreLive(w, k) == hint[w].fee_pot[k] = fee_pot[k]

\* Mutant: principal is rounded up.
RoundedUp(p, bucket, t) ==
  IF bucket.liquidity = 0 THEN 0
  ELSE (p.lp_share * bucket.reserve[t] + bucket.liquidity - 1) \div bucket.liquidity

principal(p, bucket, t) ==
  IF bucket.liquidity = 0 THEN 0
  ELSE mul_div(p.lp_share, bucket.reserve[t], bucket.liquidity)

earned_claim(p, bucket, t) ==
  mul_div(p.lp_share, bucket.cum_fee_per_share[t] - p.cum_fee_at_deposit[t], SCALE)

\* Mutant: the claim is not capped at the pot.
Uncapped(claim, pot) == claim

\* M17: what is earned is paid from the pot, as far as it goes.
Capped(claim, pot) == IF claim > pot THEN pot ELSE claim

\* What a withdrawal of p pays of t, computed on `bucket` and `pot`.
earned(p, bucket, pot, t) == Capped(earned_claim(p, bucket, t), pot[t])

Principal(p, bucket) == [t \in Sides |-> principal(p, bucket, t)]

Earned(p, bucket, pot) == [t \in Sides |-> earned(p, bucket, pot, t)]

\* No product of the private half overflows.
WithdrawFits(p, bucket) ==
  \A t \in Sides :
    /\ Fits(p.lp_share, bucket.cum_fee_per_share[t] - p.cum_fee_at_deposit[t])
    /\ Fits(p.lp_share, bucket.reserve[t])

\* No subtraction underflows: the fee growth in the private half, what the
\* public half takes from the bucket, its pot and the cached total, and the
\* transfer from the pool's balance.
WithdrawIsCovered(p, bucket, pot) ==
  LET k == p.bucket_id IN
  /\ buckets[k].liquidity >= p.lp_share
  /\ \A t \in Sides :
       LET out == principal(p, bucket, t) + earned(p, bucket, pot, t) IN
       /\ bucket.cum_fee_per_share[t] >= p.cum_fee_at_deposit[t]
       /\ buckets[k].reserve[t] >= principal(p, bucket, t)
       /\ fee_pot[k][t] >= earned(p, bucket, pot, t)
       /\ pool_state.reserve[t] >= out
       /\ balance[t] >= out

-----------------------------------------------------------------------------
(* LPs.                                                                    *)

\* A wallet or an aggregator reads the public state.
ReadState(w) ==
  /\ hint[w] # Live
  /\ hint' = [hint EXCEPT ![w] = Live]
  /\ UNCHANGED <<pool_state, buckets, fee_pot, positions, orderbook_addr, balance,
                 clearings>>

\* deposit and _apply_deposit_to_bucket.
Deposit(w, id, k, amount, nonce) ==
  LET math == compute_deposit(amount, hint[w].pool.current_sqrt_price, k) IN
  /\ \A p \in positions : p.id # id
  /\ amount["a"] > 0 \/ amount["b"] > 0
  /\ nonce # 0
  /\ DepositFits(amount, hint[w].pool.current_sqrt_price, k)
  /\ math.l_used > 0
  /\ \A t \in Sides : math.used[t] <= amount[t]
  /\ PoolIsLive(w)
  /\ BucketIsLive(w, k)
  /\ positions' = positions \cup
       {[id |-> id, bucket_id |-> k, lp_share |-> math.l_used,
         cum_fee_at_deposit |-> hint[w].buckets[k].cum_fee_per_share, nonce |-> nonce]}
  /\ buckets' = [buckets EXCEPT ![k].reserve = Plus(@, math.used),
                                ![k].liquidity = @ + math.l_used]
  /\ pool_state' = [pool_state EXCEPT !.reserve = Plus(@, math.used)]
  /\ balance' = Plus(balance, math.used)
  /\ math.l_used \in U128
  /\ buckets'[k] \in BucketStates
  /\ pool_state' \in PoolStates
  /\ balance' \in Amounts2
  /\ UNCHANGED <<fee_pot, orderbook_addr, hint, clearings>>

\* withdraw and _apply_withdraw_from_bucket: any note with the nonce is popped,
\* and the caller's hints are those of its bucket.
Withdraw(w, p) ==
  LET k == p.bucket_id
      bucket == hint[w].buckets[k]
      pot == hint[w].fee_pot[k]
      out == Plus(Principal(p, bucket), Earned(p, bucket, pot)) IN
  /\ p \in positions
  /\ p.nonce # 0
  /\ PoolIsLive(w)
  /\ BucketIsLive(w, k)
  /\ PotsAreLive(w, k)
  /\ WithdrawFits(p, bucket)
  /\ WithdrawIsCovered(p, bucket, pot)
  /\ positions' = positions \ {p}
  /\ buckets' = [buckets EXCEPT ![k].reserve = Minus(@, Principal(p, bucket)),
                                ![k].liquidity = @ - p.lp_share]
  /\ fee_pot' = [fee_pot EXCEPT ![k] = Minus(@, Earned(p, bucket, pot))]
  /\ pool_state' = [pool_state EXCEPT !.reserve = Minus(@, out)]
  /\ balance' = Minus(balance, out)
  /\ UNCHANGED <<orderbook_addr, hint, clearings>>

-----------------------------------------------------------------------------
(* Clearings.  A swap carries the aggregate flows (to_pool, from_pool), the *)
(* deltas of up to four buckets and the price after; its                   *)
(* pool_state_commitment is the snapshot its proof was built on, restricted *)
(* to the price and the named buckets.                                     *)

CommitmentIsLive(w, deltas) ==
  /\ hint[w].pool.current_sqrt_price = pool_state.current_sqrt_price
  /\ \A i \in DOMAIN deltas : BucketIsLive(w, deltas[i].bucket_id)

\* Mutant: no fee is forwarded for the credit in cum_fee_per_share.
NoFee(d, t) == 0

forwarded_fee(d, t) ==
  mul_div(d.cum_fee_increment[t], buckets[d.bucket_id].liquidity, SCALE)

Fees(d) == [t \in Sides |-> forwarded_fee(d, t)]

\* What delta i adds of t, gross of the LP fee, and takes (0 past the count).
Adds(deltas, i, t) ==
  IF i \in DOMAIN deltas THEN deltas[i].reserve_add[t] + forwarded_fee(deltas[i], t) ELSE 0

Subs(deltas, i, t) == IF i \in DOMAIN deltas THEN deltas[i].reserve_sub[t] ELSE 0

\* Mutant: the first bucket's flows are bound, the others' are not.
FirstAddIsBound(deltas, to_pool) ==
  \A t \in Sides : to_pool[t] = Adds(deltas, 1, t)

ToPoolIsBound(deltas, to_pool) ==
  \A t \in Sides :
    to_pool[t] = Adds(deltas, 1, t) + Adds(deltas, 2, t)
                 + Adds(deltas, 3, t) + Adds(deltas, 4, t)

FromPoolIsBound(deltas, from_pool) ==
  \A t \in Sides :
    from_pool[t] = Subs(deltas, 1, t) + Subs(deltas, 2, t)
                   + Subs(deltas, 3, t) + Subs(deltas, 4, t)

\* One iteration of the loop over active_bucket_deltas, on buckets bs.
BucketsAfter(bs, deltas, i) ==
  IF i \notin DOMAIN deltas THEN bs
  ELSE LET d == deltas[i] IN
       [bs EXCEPT ![d.bucket_id].reserve = Minus(Plus(@, d.reserve_add), d.reserve_sub),
                  ![d.bucket_id].cum_fee_per_share = Plus(@, d.cum_fee_increment)]

PotsAfter(pots, deltas, i) ==
  IF i \notin DOMAIN deltas THEN pots
  ELSE [pots EXCEPT ![deltas[i].bucket_id] = Plus(@, Fees(deltas[i]))]

CountAfter(n, deltas, i) ==
  IF i \notin DOMAIN deltas THEN n ELSE [n EXCEPT ![deltas[i].bucket_id] = @ + 1]

\* Mutant: a bucket's reserves may underflow as long as the pool's do not.
NoUnderflowCheck(bs, deltas, i) == TRUE

\* The checked arithmetic of that iteration.
DeltaPasses(bs, deltas, i) ==
  i \in DOMAIN deltas =>
    LET d == deltas[i] IN
    /\ \A t \in Sides : /\ Fits(d.cum_fee_increment[t], buckets[d.bucket_id].liquidity)
                        /\ bs[d.bucket_id].reserve[t] + d.reserve_add[t] \in U128
    /\ BucketsAfter(bs, deltas, i)[d.bucket_id] \in BucketStates

\* The four iterations, once their arithmetic has passed.
ApplyDeltas(deltas) ==
  LET buckets1 == BucketsAfter(buckets, deltas, 1)
      buckets2 == BucketsAfter(buckets1, deltas, 2)
      buckets3 == BucketsAfter(buckets2, deltas, 3)
      Four(F(_, _, _), x) == F(F(F(F(x, deltas, 1), deltas, 2), deltas, 3), deltas, 4) IN
  /\ DeltaPasses(buckets, deltas, 1) /\ DeltaPasses(buckets1, deltas, 2)
  /\ DeltaPasses(buckets2, deltas, 3) /\ DeltaPasses(buckets3, deltas, 4)
  /\ buckets' = BucketsAfter(buckets3, deltas, 4)
  /\ fee_pot' = Four(PotsAfter, fee_pot)
  /\ clearings' = Four(CountAfter, clearings)
  /\ fee_pot' \in [BucketIds -> Amounts2]
  /\ clearings' \in [BucketIds -> 0..MaxClearings]

\* The orderbook's push of to_pool, the pull of from_pool, the cached total.
ApplyFlows(to_pool, from_pool, price) ==
  LET gross == Plus(balance, to_pool)
      cached == Plus(pool_state.reserve, to_pool) IN
  /\ gross \in Amounts2 /\ Minus(gross, from_pool) \in Amounts2
  /\ cached \in Amounts2 /\ Minus(cached, from_pool) \in Amounts2
  /\ balance' = Minus(gross, from_pool)
  /\ pool_state' = [reserve |-> Minus(cached, from_pool), current_sqrt_price |-> price]

FlowPairs == [Sides -> Flows]

\* apply_clearing, called by the orderbook after it pushed to_pool.
ApplyClearing(w, caller, deltas, price) ==
  /\ caller \in orderbook_addr
  /\ CommitmentIsLive(w, deltas)
  /\ ApplyDeltas(deltas)
  /\ \E to_pool \in FlowPairs :
       /\ ToPoolIsBound(deltas, to_pool)
       /\ \E from_pool \in FlowPairs :
            /\ FromPoolIsBound(deltas, from_pool)
            /\ ApplyFlows(to_pool, from_pool, price)
  /\ UNCHANGED <<positions, orderbook_addr, hint>>

SetOrderbook(caller, orderbook) ==
  /\ caller = Admin
  /\ orderbook_addr = {}
  /\ orderbook_addr' = {orderbook}
  /\ UNCHANGED <<pool_state, buckets, fee_pot, positions, balance, hint, clearings>>

Init ==
  /\ pool_state = [reserve |-> Zero, current_sqrt_price |-> p_min_sqrt]
  /\ buckets = [k \in BucketIds |->
       [reserve |-> Zero, liquidity |-> 0, cum_fee_per_share |-> Zero]]
  /\ fee_pot = [k \in BucketIds |-> Zero]
  /\ positions = {}
  /\ orderbook_addr = {}
  /\ balance = Zero
  /\ hint = [w \in Wallets |-> Live]
  /\ clearings = [k \in BucketIds |-> 0]

DeltaLists == UNION { [1..n -> Deltas] : n \in 0..MAX_ACTIVE_BUCKETS_PER_EPOCH }

Next ==
  \/ \E w \in Wallets : ReadState(w)
  \/ \E w \in Wallets, id \in NoteIds, k \in BucketIds, amount \in [Sides -> Amounts],
        nonce \in Nonces : Deposit(w, id, k, amount, nonce)
  \/ \E w \in Wallets, p \in positions : Withdraw(w, p)
  \/ \E w \in Wallets, caller \in Accounts, deltas \in DeltaLists, price \in SqrtPrices :
       ApplyClearing(w, caller, deltas, price)
  \/ \E caller, orderbook \in Accounts : SetOrderbook(caller, orderbook)

Spec == Init /\ [][Next]_vars

-----------------------------------------------------------------------------
(* Properties.                                                             *)

\* The types of the state: among them, that no reserve, pot, liquidity or
\* balance leaves the u128 range.
TypeOK ==
  /\ pool_state \in PoolStates
  /\ buckets \in [BucketIds -> BucketStates]
  /\ fee_pot \in [BucketIds -> Amounts2]
  /\ positions \subseteq PositionNotes
  /\ orderbook_addr \subseteq Accounts
  /\ balance \in Amounts2
  /\ hint \in [Wallets -> [pool: PoolStates, buckets: [BucketIds -> BucketStates],
                           fee_pot: [BucketIds -> Amounts2]]]
  /\ clearings \in [BucketIds -> 0..MaxClearings]

\* What the pool accounts for of t, bucket by bucket.
Accounted(t) == [k \in BucketIds |-> buckets[k].reserve[t] + fee_pot[k][t]]

\* The cached total is the sum of the buckets' reserves and pots: deposits,
\* clearings (also of one bucket twice) and withdrawals keep them in step.
CacheIsSum ==
  \A t \in Sides :
    pool_state.reserve[t] = SumFunctionOnSet(Accounted(t), BucketIds)

\* Every reserve and every pot is backed by tokens the pool holds.
Backed ==
  \A t \in Sides : SumFunctionOnSet(Accounted(t), BucketIds) <= balance[t]

InBucket(k) == { p \in positions : p.bucket_id = k }

Claims(k, t) == [p \in positions |-> earned_claim(p, buckets[k], t)]

\* M17: what all LPs of a bucket may claim exceeds its pot by at most one unit
\* per clearing, whoever deposits and withdraws in between.
ShortfallIsDust ==
  \A k \in BucketIds, t \in Sides :
    SumFunctionOnSet(Claims(k, t), InBucket(k)) <= fee_pot[k][t] + clearings[k]

\* With hints that are live, every open position can be withdrawn at once, if
\* its products fit: no deposit, clearing or other LP's withdrawal makes one of
\* the subtractions underflow and so bricks it.
EveryPositionCanLeave ==
  \A p \in positions :
    /\ p.nonce # 0
    /\ WithdrawIsCovered(p, buckets[p.bucket_id], fee_pot[p.bucket_id])

NewcomersEarnedNothing ==
  \A p \in positions' \ positions, t \in Sides :
    earned_claim(p, buckets'[p.bucket_id], t) = 0

\* A position starts with no claim on fees credited before its deposit, though
\* its note records whatever snapshot the LP computed it on.
NoFeesBeforeDeposit == [][NewcomersEarnedNothing]_vars

OthersKeepTheirPrincipal ==
  positions' \subseteq positions /\ positions' # positions =>
    \A p \in positions', t \in Sides :
      principal(p, buckets'[p.bucket_id], t) >= principal(p, buckets[p.bucket_id], t)

\* A withdrawal never lowers what another position of the bucket is worth.
WithdrawalsAreFair == [][OthersKeepTheirPrincipal]_vars

\* Claimed by the doc of deposit: a deposit so large that its share mathematics
\* overflows reverts, "a safe failure - no fund loss"; so what is deposited can
\* be withdrawn.
OverflowIsSafe ==
  \A p \in positions : WithdrawFits(p, buckets[p.bucket_id])

=============================================================================
