--------------------------- MODULE ClearingEngine ---------------------------
(***************************************************************************)
(* The aggregator's frequent batch auction (aggregator/src/clearing.ts):   *)
(* which orders of an epoch are filled, at which uniform price, and what   *)
(* each maker receives.  An order is                                       *)
(*   [nonce, side, amountIn, limit, at, hops]                              *)
(* where side FALSE buys (pays token A), side TRUE sells (pays token B),   *)
(* limit is in A per B, and hops are the pools its path resolves to.       *)
(***************************************************************************)
EXTENDS ConcentratedSwap, FiniteSets

CONSTANTS
  MAX_ORDERS_PER_EPOCH,
  PRICE_BAND, TOLERANCE, MAX_ITERS,
  MIN_FILL_AMOUNT_IN

ASSUME EngineConstants ==
  /\ MAX_ORDERS_PER_EPOCH \in Nat /\ MAX_ITERS \in Nat
  /\ PRICE_BAND \in Nat \ {0} /\ TOLERANCE \in Nat /\ MIN_FILL_AMOUNT_IN \in Nat

NoPrice == -1

-----------------------------------------------------------------------------
(* The batch *)

Before(x, y) == x.at < y.at \/ (x.at = y.at /\ x.nonce < y.nonce)

selectBatch(orders) ==
  {o \in orders : Cardinality({x \in orders : Before(x, o)}) < MAX_ORDERS_PER_EPOCH}

Buys(orders) == {o \in orders : ~ o.side}
Sells(orders) == {o \in orders : o.side}
AmountIn(orders) == SumFunctionOnSet([o \in orders |-> o.amountIn], orders)

Eligible(o, p) == IF o.side THEN o.limit <= p ELSE o.limit >= p

clearingAt(pool, batch, p) ==
  LET buys == {o \in Buys(batch) : Eligible(o, p)}
      sells == {o \in Sells(batch) : Eligible(o, p)}
      netA == AmountIn(buys) - mulDiv(AmountIn(sells), p, SCALE)
  IN [buys |-> buys, sells |-> sells, netA |-> netA,
      swap |-> bucketNetSwap(pool, netA, p)]

-----------------------------------------------------------------------------
(* The price of a book with both sides: bisection on the price the net     *)
(* flow would get.                                                         *)

\* residual > 0: the price is too low.  A price no order is eligible at is a
\* gap; one the buckets cannot serve has a direction and no residual.
Probe(ev, p) ==
  LET gap == ev.buys \cup ev.sells = {}
  IN [gap |-> gap,
      priced |-> ~ gap /\ ~ ev.swap.saturated,
      residual |-> IF ~ ev.swap.saturated THEN ev.swap.realizedP - p
                   ELSE IF ev.netA > 0 THEN 1 ELSE -1]

probe(pool, batch, p) == Probe(clearingAt(pool, batch, p), p)

\* Adjacent prices: the lower one that has eligible orders, whatever its
\* residual.
Settle(pool, batch, lo, hi) ==
  IF probe(pool, batch, lo).priced THEN lo
  ELSE IF probe(pool, batch, hi).priced THEN hi ELSE NoPrice

Ended(s, price) == [s EXCEPT !.open = FALSE, !.price = price]

\* What the search s makes of the probe m at its middle.
Narrow(pool, batch, s, mid, m) ==
  LET lo == IF m.residual > 0 THEN mid ELSE s.lo
      hi == IF m.residual > 0 THEN s.hi ELSE mid
  IN IF m.gap THEN Ended(s, NoPrice)
     ELSE IF m.priced /\ m.residual \in -TOLERANCE..TOLERANCE THEN Ended(s, mid)
     ELSE IF hi - lo <= 1 THEN Ended(s, Settle(pool, batch, lo, hi))
     ELSE [s EXCEPT !.lo = lo, !.hi = hi]

Halve(pool, batch, s) ==
  LET mid == (s.lo + s.hi) \div 2
  IN Narrow(pool, batch, s, mid, probe(pool, batch, mid))

priceAt(sqrtP) == mulDiv(sqrtP, sqrtP, SCALE)
Funded(pool) == {i \in DOMAIN pool.buckets : pool.buckets[i].liquidity > 0}
BandLow(pool) ==
  Max({1, Min({priceAt(pool.bounds[i].lower) : i \in Funded(pool)}) \div PRICE_BAND})
BandHigh(pool) == Max({priceAt(pool.bounds[i].upper) : i \in Funded(pool)}) * PRICE_BAND

crossingPrice(pool, batch) ==
  LET lo == BandLow(pool)
      hi == BandHigh(pool)
      atLo == probe(pool, batch, lo)
      atHi == probe(pool, batch, hi)
      start == [lo |-> lo, hi |-> hi, open |-> TRUE, price |-> NoPrice]
      search[n \in 0..MAX_ITERS] ==
        IF n = 0 THEN start
        ELSE LET s == search[n - 1]
             IN IF s.open THEN Halve(pool, batch, s) ELSE s
  IN IF atLo.gap \/ atHi.gap \/ atLo.residual < 0 \/ atHi.residual > 0 THEN NoPrice
     ELSE search[MAX_ITERS].price

-----------------------------------------------------------------------------
(* The price of a one-sided book: what the pool pays for it *)

\* Mutant: orders only ever drop out of the refinement.
RefilterCurrent(book, current, p) == {o \in current : Eligible(o, p)}

\* Who is eligible at the price found, of the whole book: orders may re-enter.
Refilter(book, current, p) == {o \in book : Eligible(o, p)}

\* The book priced at what out buys of its input, or what its input buys.
RefineAt(book, s, p) ==
  LET next == Refilter(book, s.current, p)
  IN IF Cardinality(next) = Cardinality(s.current) THEN Ended(s, p)
     ELSE IF Cardinality(next) \in s.seenSizes THEN Ended(s, NoPrice)
     ELSE [s EXCEPT !.current = next, !.seenSizes = @ \cup {Cardinality(next)}]

RefineWith(book, isSellBook, s, sumIn, swap) ==
  LET out == IF isSellBook THEN swap.ammAOut ELSE swap.ammBOut
      net == AfterFee(sumIn)
  IN IF net <= 0 \/ swap.saturated \/ out = 0 THEN Ended(s, NoPrice)
     ELSE RefineAt(book, s, IF isSellBook THEN mulDiv(out, SCALE, net)
                                          ELSE mulDiv(net, SCALE, out))

Refine(pool, book, isSellBook, s) ==
  LET sumIn == AmountIn(s.current)
  IN RefineWith(book, isSellBook, s, sumIn,
                bucketNetSwap(pool, IF isSellBook THEN -sumIn ELSE sumIn, SCALE))

oneSidedClearingPrice(pool, book, isSellBook) ==
  LET start == [current |-> book, seenSizes |-> {Cardinality(book)},
                open |-> TRUE, price |-> NoPrice]
      pass[n \in 0..(Cardinality(book) + 2)] ==
        IF n = 0 THEN start
        ELSE LET s == pass[n - 1]
             IN IF s.open THEN Refine(pool, book, isSellBook, s) ELSE s
  IN pass[Cardinality(book) + 2].price

findClearingPrice(pool, batch) ==
  IF Funded(pool) = {} THEN NoPrice
  ELSE IF Buys(batch) = {} THEN oneSidedClearingPrice(pool, batch, TRUE)
  ELSE IF Sells(batch) = {} THEN oneSidedClearingPrice(pool, batch, FALSE)
  ELSE crossingPrice(pool, batch)

-----------------------------------------------------------------------------
(* Clearing one pool *)

Latest(side) == CHOOSE o \in side : \A x \in side \ {o} : Before(x, o)

Share(total, side, o) == mulDiv(total, o.amountIn, AmountIn(side))

\* Mutant: the last of a side is paid like the others, rounded up.
ProRataUp(total, side) ==
  [o \in side |-> Share(total, side, o) + IF o = Latest(side) THEN Cardinality(side) ELSE 0]

\* A side shares its total by what each order paid in; its last order takes
\* the remainder.
ProRata(total, side) ==
  LET last == Latest(side)
      others == [o \in side \ {last} |-> Share(total, side, o)]
  IN [o \in side |-> IF o = last THEN total - SumFunctionOnSet(others, side \ {last}) ELSE others[o]]

Skipped == [cleared |-> FALSE]

\* The trace at the clearing price is the one the bucket deltas come from
\* (computeClearingV2): tracing again would withhold the fee again.
Filled(ev, p) ==
  LET totalA == AmountIn(ev.buys) - ev.swap.ammAIn + ev.swap.ammAOut
      totalB == AmountIn(ev.sells) - ev.swap.ammBIn + ev.swap.ammBOut
      payA == ProRata(totalA, ev.sells)
      payB == ProRata(totalB, ev.buys)
  IN IF ev.buys \cup ev.sells = {} \/ ev.swap.saturated THEN Skipped
     ELSE [cleared |-> TRUE,
           price |-> p,
           trace |-> ev.swap.trace,
           fills |-> [o \in ev.buys \cup ev.sells |-> IF o.side THEN payA[o] ELSE payB[o]]]

FilledAt(pool, batch, p) ==
  IF batch = {} \/ p = NoPrice THEN Skipped ELSE Filled(clearingAt(pool, batch, p), p)

computeClearing(pool, orders) ==
  LET batch == selectBatch(orders)
  IN FilledAt(pool, batch, findClearingPrice(pool, batch))

-----------------------------------------------------------------------------
(* Clearing all pools.  Two-hop orders and dust are dropped before the     *)
(* first pass; the composite-price check only concerns two-hop orders, so  *)
(* the passes that follow repeat the first.                                *)

Alive(orders) ==
  {o \in orders : Len(o.hops) = 1 /\ o.amountIn >= MIN_FILL_AMOUNT_IN}

Book(orders, i) == {o \in Alive(orders) : o.hops[1] = i}

computeClearingMultiPair(orders, pools) ==
  LET result == [i \in DOMAIN pools |-> computeClearing(pools[i], Book(orders, i))]
      active == {i \in DOMAIN pools : result[i].cleared}
  IN [i \in active |-> result[i]]

\* A book of one side is traced whole, as it holds no dust; the search for a
\* crossing price first probes the ends of the band, where a book nobody in which
\* is eligible is not traced, and ends it.
Traces(pool, book) ==
  \/ Buys(book) = {} \/ Sells(book) = {}
  \/ \E o \in book, p \in {BandLow(pool), BandHigh(pool)} : Eligible(o, p)

\* A trace that throws takes the whole computation with it.  (One of nothing,
\* the sides being equal at the end of the band, would not throw.)
Throws(orders, pools) ==
  \E i \in DOMAIN pools :
    /\ Book(orders, i) # {} /\ Funded(pools[i]) # {} /\ Traces(pools[i], Book(orders, i))
    /\ ~ Contained(pools[i])

=============================================================================
