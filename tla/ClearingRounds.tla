--------------------------- MODULE ClearingRounds ---------------------------
(***************************************************************************)
(* Epochs as the aggregator clears them (aggregator/src/clearing-cycle.ts):*)
(* orders arrive, the cycle reads the pools and computes a clearing, the   *)
(* circuit accepts it or not, and the pools take it if they still are as   *)
(* they were read; liquidity may be added in between.                      *)
(***************************************************************************)
EXTENDS ClearingCircuit

CONSTANTS
  Grid,            \* the buckets' bounds
  PoolIds,
  Launches,        \* how the pools may be launched: [PoolIds -> [sqrtP, funding]]
  Deposits,        \* what may be deposited: [bucket, a, b]
  OrderBook,       \* the orders that may be submitted
  MaxOrders,       \* bound: orders in an epoch
  MaxEpochs,       \* bound: epochs
  MaxDeposits      \* bound: deposits made after the launch

\* Adjoining buckets, from a price up at which the divisors of the arithmetic
\* are not zero.
ASSUME GridAssumption ==
  /\ Grid \in Seq([lower : Nat, upper : Nat]) /\ Grid # <<>>
  /\ \A i \in DOMAIN Grid :
       /\ Grid[i].lower < Grid[i].upper /\ Grid[i].lower * Grid[i].lower >= SCALE
       /\ i + 1 \in DOMAIN Grid => Grid[i].upper = Grid[i + 1].lower
  /\ \A i, j \in DOMAIN Grid : i < j => Grid[i].upper <= Grid[j].lower

DepositRecords == [bucket : DOMAIN Grid, a : Nat, b : Nat]

OrderRecords ==
  [nonce : Int, side : BOOLEAN, amountIn : Nat \ {0}, limit : Nat, at : Int,
   hops : Seq(PoolIds) \ {<<>>}]

\* The contract caps an epoch's orders, so the engine's batch is all of them.
ASSUME RoundConstants ==
  /\ PoolIds # {}
  /\ Launches \subseteq [PoolIds -> [sqrtP : Grid[1].lower..Grid[Len(Grid)].upper,
                                     funding : Seq(DepositRecords)]]
  /\ Deposits \subseteq DepositRecords /\ OrderBook \subseteq OrderRecords
  /\ MaxOrders \in 0..MAX_ORDERS_PER_EPOCH /\ MaxEpochs \in Nat /\ MaxDeposits \in Nat

VARIABLES
  pools,
  orders,          \* of the current epoch
  priced,          \* the pools as the cycle read them; <<>> when none runs
  clearing,        \* what it computed
  epoch, deposited

vars == <<pools, orders, priced, clearing, epoch, deposited>>

NoClearing == <<>>

AddLiquidity(pool, d) ==
  LET used == computeDeposit(d.a, d.b, pool.sqrtP, pool.bounds[d.bucket])
  IN [pool EXCEPT !.buckets[d.bucket] =
        [a |-> @.a + used.a, b |-> @.b + used.b, liquidity |-> @.liquidity + used.liquidity]]

EmptyPool(sqrtP) ==
  [sqrtP |-> sqrtP, bounds |-> Grid,
   buckets |-> [i \in DOMAIN Grid |-> [a |-> 0, b |-> 0, liquidity |-> 0]]]

\* A pool is created empty with its price at the bottom of the grid; positions
\* that came, were traded and left have brought it anywhere before the launch.
Launched(launch) ==
  LET pool[n \in 0..Len(launch.funding)] ==
        IF n = 0 THEN EmptyPool(launch.sqrtP)
        ELSE AddLiquidity(pool[n - 1], launch.funding[n])
  IN pool[Len(launch.funding)]

Init ==
  /\ \E launch \in Launches : pools = [i \in PoolIds |-> Launched(launch[i])]
  /\ orders = {} /\ priced = <<>> /\ clearing = NoClearing
  /\ epoch = 1 /\ deposited = 0

\* In the order of their blocks.
submit(o) ==
  /\ priced = <<>> /\ Cardinality(orders) < MaxOrders /\ epoch <= MaxEpochs
  /\ \A x \in orders : x.at < o.at
  /\ orders' = orders \cup {o}
  /\ UNCHANGED <<pools, priced, clearing, epoch, deposited>>

deposit(i, d) ==
  /\ deposited < MaxDeposits
  /\ pools' = [pools EXCEPT ![i] = AddLiquidity(pools[i], d)]
  /\ deposited' = deposited + 1
  /\ UNCHANGED <<orders, priced, clearing, epoch>>

compute ==
  /\ priced = <<>> /\ orders # {}
  /\ ~ Throws(orders, pools)
  /\ priced' = pools
  /\ clearing' = computeClearingMultiPair(orders, pools)
  /\ UNCHANGED <<pools, orders, epoch, deposited>>

\* Mutant: only the price is committed to.
PriceOnly(pool, trace) == pool.sqrtP

\* What the pool contract compares with its state: the price and the buckets
\* the clearing touches.
Commitment(pool, trace) ==
  <<pool.sqrtP, [k \in DOMAIN trace.deltas |-> pool.buckets[trace.deltas[k].bucket]]>>

StillAsPriced ==
  \A i \in DOMAIN clearing :
    Commitment(pools[i], clearing[i].trace) = Commitment(priced[i], clearing[i].trace)

NextEpoch == orders' = {} /\ epoch' = epoch + 1

settle ==
  /\ priced # <<>> /\ DOMAIN clearing # {}
  /\ CircuitAccepts(orders, priced, clearing)
  /\ StillAsPriced
  /\ pools' = [i \in PoolIds |->
       IF i \in DOMAIN clearing THEN ApplyTrace(pools[i], clearing[i].trace) ELSE pools[i]]
  /\ NextEpoch
  /\ priced' = <<>> /\ clearing' = NoClearing
  /\ UNCHANGED deposited

\* Nothing crosses: the epoch is closed without a clearing.
closeOnly ==
  /\ priced # <<>> /\ DOMAIN clearing = {}
  /\ NextEpoch
  /\ priced' = <<>> /\ clearing' = NoClearing
  /\ UNCHANGED <<pools, deposited>>

\* The proof or the transaction fails: the reveals are queued again, and the
\* next cycle reads the pools anew.
retry ==
  /\ priced # <<>> /\ DOMAIN clearing # {}
  /\ ~ (CircuitAccepts(orders, priced, clearing) /\ StillAsPriced)
  /\ priced' = <<>> /\ clearing' = NoClearing
  /\ UNCHANGED <<pools, orders, epoch, deposited>>

Next ==
  \/ \E o \in OrderBook : submit(o)
  \/ \E i \in PoolIds, d \in Deposits : deposit(i, d)
  \/ compute \/ settle \/ closeOnly \/ retry

Spec == Init /\ [][Next]_vars

-----------------------------------------------------------------------------
(* Properties *)

\* Types: the price does not rise above the grid (the floors of a step down may
\* take it under), no reserve and no fill is negative.
TypeOK ==
  /\ \A i \in PoolIds :
       /\ pools[i].sqrtP \in 0..Grid[Len(Grid)].upper
       /\ \A k \in DOMAIN Grid :
            /\ pools[i].buckets[k].a \in Nat /\ pools[i].buckets[k].b \in Nat
            /\ pools[i].buckets[k].liquidity \in Nat
  /\ orders \subseteq OrderBook
  /\ \A i \in DOMAIN clearing : \A o \in DOMAIN clearing[i].fills : clearing[i].fills[o] \in Nat
  /\ epoch \in 1..(MaxEpochs + 1) /\ deposited \in 0..MaxDeposits

\* The price moves inside one bucket and does not empty it to the last unit.
StaysInABucket(pool, trace) ==
  LET moved == {k \in DOMAIN trace.deltas : trace.deltas[k].in > 0}
  IN /\ Cardinality(moved) <= 1
     /\ \A k \in moved :
          LET d == trace.deltas[k]
              bucket == pool.buckets[d.bucket]
          IN /\ pool.sqrtP \in pool.bounds[d.bucket].lower..pool.bounds[d.bucket].upper
             /\ d.out <= IF trace.up THEN bucket.a ELSE bucket.b

DustAt(i, price) ==
  {o \in orders : o.amountIn < MIN_FILL_AMOUNT_IN /\ o.hops = <<i>> /\ Eligible(o, price)}

\* What there is of each token, the buckets gone through and the prices on the
\* way are within 64 bits, which no contract sees to: liquidity and prices are
\* bounded by nothing but u128.
WithinWidths(pool, r) ==
  LET flows == deriveAggregateFlows(pool, r.trace)
  IN /\ FitsU128(r.price)
     /\ flows.aFromPool + AmountIn(Buys(DOMAIN r.fills)) < TWO_POW_64
     /\ flows.bFromPool + AmountIn(Sells(DOMAIN r.fills)) < TWO_POW_64
     /\ pool.sqrtP < TWO_POW_64 /\ r.trace.sqrtP < TWO_POW_64
     /\ mulDiv(pool.sqrtP, r.trace.sqrtP, SCALE) < TWO_POW_64
     /\ \A k \in DOMAIN r.trace.deltas :
          LET d == r.trace.deltas[k]
              bucket == pool.buckets[d.bucket]
          IN /\ bucket.a < TWO_POW_64 /\ bucket.b < TWO_POW_64
             /\ bucket.liquidity + mulDiv(d.in, pool.sqrtP, SCALE) < TWO_POW_64

\* What the aggregator computes, the circuit accepts: TypeScript and Noir
\* floor the same quotients in the same order, pay the same people and agree
\* on the price the pool moves to, whatever the book, as long as the price
\* stays in its bucket, no order at the price is dust, and the numbers stay
\* within the widths of the circuit's arithmetic (bigints have none).
ClearingsProve ==
  /\ \A i \in DOMAIN clearing :
       /\ StaysInABucket(priced[i], clearing[i].trace)
       /\ DustAt(i, clearing[i].price) = {}
       /\ WithinWidths(priced[i], clearing[i])
  => CircuitAccepts(orders, priced, clearing)

\* The same without the conditions: what the aggregator computes can be
\* proved, so that an honest epoch always ends.
EveryClearingProves == CircuitAccepts(orders, priced, clearing)

\* What a clearing pays out and sends to the pool is there: every token that
\* leaves the orderbook was escrowed by an order it fills or came out of the
\* pool, whatever was rounded on the way.
PayoutsAreFunded ==
  \A i \in DOMAIN clearing : PaysNoMoreThanItHas(priced[i], clearing[i])

\* A bucket can pay for any move of its price: what the formula gives out up
\* to either edge is in its reserves, after any clearings and deposits.  Each
\* of them may leave behind what two units of the price are worth.
PriceFrom(pool, k) ==
  Max({pool.bounds[k].lower, Min({pool.sqrtP, pool.bounds[k].upper})})

BucketsCoverTheirCurve ==
  \A i \in PoolIds : \A k \in DOMAIN Grid :
    LET bucket == pools[i].buckets[k]
        p == PriceFrom(pools[i], k)
        slack == (epoch - 1 + deposited) * 2 * (1 + bucket.liquidity \div SCALE)
    IN bucket.liquidity > 0 =>
         /\ bucket.a + slack >= swapStepOutA(bucket.liquidity, p, Grid[k].upper)
         /\ bucket.b + slack >= swapStepOutB(bucket.liquidity, p, Grid[k].lower)

\* Within its limit, but for the fee and a unit or two: a buyer pays at most limit
\* for what it gets, a seller gets at least limit for what it pays.
WithinLimit(o, out) ==
  IF o.side THEN (out + 2) * SCALE >= AfterFee(o.amountIn) * (o.limit - 2)
            ELSE (AfterFee(o.amountIn) - 1) * SCALE <= (out + 1) * (o.limit + 1)

KeepsLimits(i) ==
  \A o \in DOMAIN clearing[i].fills : WithinLimit(o, clearing[i].fills[o])

\* In a book of buys, whose only counterparty is the pool, no buyer pays more
\* than its limit: the orders the price found drops, or lets in again, are those
\* it is no good for.
BuyersKeepLimits ==
  \A i \in DOMAIN clearing : Sells(Book(orders, i)) = {} => KeepsLimits(i)

\* And in a book of one side no order is filled beyond its limit, whichever side
\* that is.
OneSidedFillsRespectLimits ==
  /\ BuyersKeepLimits
  /\ \A i \in DOMAIN clearing : Buys(Book(orders, i)) = {} => KeepsLimits(i)

\* The same of every book.
FillsRespectLimits ==
  \A i \in DOMAIN clearing : KeepsLimits(i)

=============================================================================
