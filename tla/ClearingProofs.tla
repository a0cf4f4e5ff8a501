---------------------------- MODULE ClearingProofs ----------------------------
(* Theorems about the clearing engine and its circuit, for amounts of any  *)
(* size: what a side shares is what it is paid, nobody is paid less than   *)
(* the floor of its share, a trace takes its whole input and moves the     *)
(* price where the circuit says it does; and, from these, the invariants   *)
(* of ClearingRounds for any grid, fees, pools and orders.                 *)
EXTENDS ClearingRounds, SumTheorems

-----------------------------------------------------------------------------
(* Quotients.                                                              *)

\* The floor of a quotient.
LEMMA Floor ==
  ASSUME NEW a \in Nat, NEW d \in Nat \ {0}
  PROVE  /\ a \div d \in Nat
         /\ (a \div d) * d <= a
         /\ a < (a \div d) * d + d
OBVIOUS

\* A product of a natural number and a difference.
LEMMA FactorOut ==
  ASSUME NEW a \in Int, NEW b \in Int, NEW c \in Int
  PROVE  /\ a * (b + c) = a * b + a * c
         /\ (a + b) * c = a * c + b * c
         /\ a * b = b * a
OBVIOUS

\* Products of natural numbers are ordered as their factors.
LEMMA ProductOrder ==
  ASSUME NEW a \in Int, NEW b \in Int, NEW c \in Nat, a <= b
  PROVE  a * c <= b * c
OBVIOUS

\* A positive factor cancels in an inequality.
LEMMA CancelFactor ==
  ASSUME NEW a \in Int, NEW b \in Int, NEW c \in Nat \ {0}, a * c <= b * c
  PROVE  a <= b
OBVIOUS

\* A factor cancels in a strict inequality.
LEMMA CancelStrict ==
  ASSUME NEW a \in Int, NEW b \in Int, NEW c \in Nat \ {0}, a * c < b * c
  PROVE  a < b
OBVIOUS

\* Products of natural numbers are natural numbers.
LEMMA ProductNat ==
  ASSUME NEW a \in Nat, NEW b \in Nat
  PROVE  a * b \in Nat
OBVIOUS

\* What is not above a floor's dividend is not above the floor.
LEMMA FloorIsLargest ==
  ASSUME NEW a \in Nat, NEW d \in Nat \ {0}, NEW x \in Int, x * d <= a
  PROVE  x <= a \div d
<1> DEFINE q == a \div d
<1>1. q \in Nat /\ a < q * d + d
  BY Floor
<1> HIDE DEF q
<1>2. q * d + d = (q + 1) * d /\ (q + 1) * d \in Int /\ x * d \in Int
  BY <1>1
<1>3. x * d < (q + 1) * d
  BY <1>1, <1>2
<1>4. x < q + 1
  BY <1>1, <1>3, CancelStrict
<1> QED BY <1>1, <1>4 DEF q

\* mulDiv gives a natural number, the floor of the quotient.
LEMMA MulDivNat ==
  ASSUME NEW a \in Nat, NEW b \in Nat, NEW c \in Nat \ {0}
  PROVE  /\ mulDiv(a, b, c) \in Nat /\ mulDiv(a, b, c) * c <= a * b
BY ProductNat, Floor DEF mulDiv

\* Factors may be taken in any order.
LEMMA Reorder ==
  ASSUME NEW a \in Int, NEW b \in Int, NEW c \in Int
  PROVE  /\ (a * b) * c \in Int
         /\ (a * b) * c = (b * a) * c /\ (a * b) * c = (a * c) * b /\ (a * b) * c = (b * c) * a
OBVIOUS

\* Products associate.
LEMMA Associates ==
  ASSUME NEW a \in Int, NEW b \in Int, NEW c \in Int
  PROVE  a * (b * c) = (a * b) * c
OBVIOUS

-----------------------------------------------------------------------------
(* The fee.                                                                *)

\* Whatever an order book puts into a pool, the fee the engine withholds from
\* it (AfterFee of clearing.ts) is within the ceiling the circuit computes
\* from the rest (ceil_fee_from_net of pricing.nr): a clearing is never
\* rejected for having withheld its own fee.
THEOREM FeeIsWithinCeiling ==
  ASSUME NEW gross \in Nat
  PROVE  /\ AfterFee(gross) \in 0..gross
         /\ ceil_fee_from_net(AfterFee(gross)) \in Nat
         /\ gross - AfterFee(gross) <= ceil_fee_from_net(AfterFee(gross))
<1> DEFINE S == FEE_SCALE
           F == FEE_BPS
           k == S - F
           q == (gross * k) \div S
           n == (q + 1) * F + k - 1
           c == n \div k
<1>1. S \in Nat \ {0} /\ F \in Nat /\ k \in Nat \ {0} /\ k <= S /\ S = k + F
  BY SwapConstants
<1> HIDE DEF S, F, k
<1>2. /\ gross * k \in Nat
      /\ q \in Nat /\ q * S <= gross * k /\ gross * k < q * S + S
  BY <1>1, ProductNat, Floor
<1> HIDE DEF q
<1>3. q <= gross
  <2>1. gross * k <= gross * S
    BY <1>1, ProductOrder, FactorOut
  <2>2. q * S <= gross * S
    BY <1>1, <1>2, <2>1
  <2> QED BY <1>1, <1>2, <2>2, CancelFactor
<1>4. (q + 1) * F \in Nat /\ n \in Nat
  BY <1>1, <1>2, ProductNat
<1>5. c \in Nat /\ n < c * k + k
  BY <1>1, <1>4, Floor
<1> HIDE DEF c
<1>6. (q + 1) * F <= c * k
  <2>1. c * k \in Int
    BY <1>1, <1>5
  <2> QED BY <1>1, <1>4, <1>5, <2>1
<1>7. gross * k < (q + 1 + c) * k
  <2>1. q * S + S = (q + 1) * S /\ (q + 1) * S = (q + 1) * k + (q + 1) * F
    BY <1>1, <1>2
  <2>2. (q + 1 + c) * k = (q + 1) * k + c * k
    BY <1>1, <1>2, <1>5
  <2>3. /\ (q + 1) * k \in Int /\ c * k \in Int /\ gross * k \in Int
        /\ (q + 1) * S \in Int
    BY <1>1, <1>2, <1>5
  <2> QED BY <1>2, <1>4, <1>6, <2>1, <2>2, <2>3
<1>8. gross < q + 1 + c
  BY <1>1, <1>2, <1>5, <1>7, CancelStrict
<1>9. AfterFee(gross) = q /\ ceil_fee_from_net(q) = c
  BY DEF AfterFee, ceil_fee_from_net, S, F, k, q, c
<1> QED BY <1>2, <1>3, <1>5, <1>8, <1>9

\* The part of a fee that reaches a bucket through its per-share counter
\* (recoverForwardedFee) is never more than the part that was withheld for it.
THEOREM RecoveredFeeIsWithheld ==
  ASSUME NEW fee \in Nat, NEW l \in Nat \ {0}
  PROVE  /\ mulDiv(mulDiv(fee, SCALE, l), l, SCALE) \in Nat
         /\ mulDiv(mulDiv(fee, SCALE, l), l, SCALE) <= fee
<1> DEFINE inc == (fee * SCALE) \div l
           rec == (inc * l) \div SCALE
<1>1. SCALE \in Nat \ {0}
  BY SwapConstants
<1>2. fee * SCALE \in Nat /\ inc \in Nat /\ inc * l <= fee * SCALE
  BY <1>1, ProductNat, Floor
<1> HIDE DEF inc
<1>3. inc * l \in Nat /\ rec \in Nat /\ rec * SCALE <= inc * l
  BY <1>1, <1>2, ProductNat, Floor
<1> HIDE DEF rec
<1>4. rec * SCALE <= fee * SCALE
  BY <1>1, <1>2, <1>3
<1>5. rec <= fee
  BY <1>1, <1>3, <1>4, CancelFactor
<1> QED BY <1>3, <1>5 DEF mulDiv, rec, inc

-----------------------------------------------------------------------------
(* The shares of a side.                                                   *)

\* A side of a clearing: finitely many orders, none of nothing.
IsSide(side) ==
  /\ IsFiniteSet(side) /\ side # {}
  /\ \A o \in side : o.amountIn \in Nat \ {0}
  /\ Latest(side) \in side

\* Orders of different places in the queue have a last one.
LEMMA LatestExists ==
  ASSUME NEW side, IsFiniteSet(side), side # {},
         \A o \in side : o.at \in Int /\ o.nonce \in Int,
         \A x, y \in side : x # y => x.at # y.at \/ x.nonce # y.nonce
  PROVE  Latest(side) \in side /\ \A x \in side \ {Latest(side)} : Before(x, Latest(side))
<1> DEFINE P == {s \in SUBSET side : s = {} \/ \E o \in s : \A x \in s \ {o} : Before(x, o)}
<1>1. {} \in P
  OBVIOUS
<1>2. ASSUME NEW s \in SUBSET side, NEW y \in s, s \ {y} \in P PROVE s \in P
  <2>1. CASE s \ {y} = {}
    <3>1. \A x \in s \ {y} : Before(x, y)
      BY <2>1
    <3> QED BY <3>1
  <2>2. CASE s \ {y} # {}
    <3>1. PICK o \in s \ {y} : \A x \in (s \ {y}) \ {o} : Before(x, o)
      BY <1>2, <2>2
    <3>2. CASE Before(y, o)
      <4>1. \A x \in s \ {o} : Before(x, o)
        BY <3>1, <3>2
      <4> QED BY <3>1, <4>1
    <3>3. CASE ~ Before(y, o)
      <4>1. Before(o, y)
        BY <3>1, <3>3 DEF Before
      <4>2. \A x \in s \ {y} : Before(x, y)
        <5>1. ASSUME NEW x \in s \ {y}, x # o PROVE Before(x, y)
          <6>1. Before(x, o)
            BY <3>1, <5>1
          <6> QED BY <4>1, <6>1, <5>1, <3>1 DEF Before
        <5> QED BY <4>1, <5>1
      <4> QED BY <4>2
    <3> QED BY <3>2, <3>3
  <2> QED BY <2>1, <2>2
<1>3. side \in P
  <2>1. \A s \in SUBSET side : \A y \in s : s \ {y} \in P => s \in P
    BY <1>2
  <2> HIDE DEF P
  <2> QED BY <1>1, <2>1, ElementInduction
<1>4. \E o \in side : \A x \in side \ {o} : Before(x, o)
  BY <1>3
<1> QED BY <1>4 DEF Latest

amounts(side) == [o \in side |-> o.amountIn]
shares(total, side) == [o \in side |-> Share(total, side, o)]

\* The amounts of a side are summed to a positive number, and a share is a
\* natural number.
LEMMA SideFacts ==
  ASSUME NEW side, IsSide(side), NEW total \in Nat
  PROVE  /\ AmountIn(side) \in Nat \ {0} /\ AmountIn(side) = Sum(amounts(side), side)
         /\ \A o \in side : /\ Share(total, side, o) \in Nat
                            /\ Share(total, side, o) * AmountIn(side) <= total * o.amountIn
<1>1. AmountIn(side) = Sum(amounts(side), side)
  BY DEF AmountIn, Sum, amounts
<1>2. \A o \in side : amounts(side)[o] \in Nat /\ amounts(side)[o] # 0
  BY DEF IsSide, amounts
<1>3. Sum(amounts(side), side) \in Nat
  BY <1>2, SumNat DEF IsSide
<1>4. PICK o \in side : TRUE
  BY DEF IsSide
<1>5. amounts(side)[o] <= Sum(amounts(side), side)
  BY <1>2, SumBound DEF IsSide
<1>6. AmountIn(side) \in Nat \ {0}
  BY <1>1, <1>2, <1>3, <1>4, <1>5
<1>7. ASSUME NEW x \in side
      PROVE  /\ Share(total, side, x) \in Nat
             /\ Share(total, side, x) * AmountIn(side) <= total * x.amountIn
  <2>1. x.amountIn \in Nat
    BY DEF IsSide
  <2>2. total * x.amountIn \in Nat
    BY <2>1, ProductNat
  <2> QED BY <1>6, <2>2, Floor DEF Share, mulDiv
<1> QED BY <1>1, <1>6, <1>7

\* All the shares of a total together are at most the total.
LEMMA SharesFit ==
  ASSUME NEW side, IsSide(side), NEW total \in Nat
  PROVE  Sum(shares(total, side), side) \in Nat /\ Sum(shares(total, side), side) <= total
<1> DEFINE D == AmountIn(side)
           sh == shares(total, side)
           am == amounts(side)
           scaled == [o \in side |-> sh[o] * D]
           due == [o \in side |-> am[o] * total]
<1>1. /\ D \in Nat \ {0} /\ D = Sum(am, side) /\ IsFiniteSet(side)
      /\ \A o \in side : sh[o] \in Nat /\ sh[o] * D <= total * o.amountIn
  BY SideFacts DEF IsSide, shares
<1>2. \A o \in side : am[o] \in Nat /\ am[o] = o.amountIn
  BY DEF IsSide, amounts
<1> HIDE DEF D, sh, am
<1>3. \A o \in side : scaled[o] \in Int /\ due[o] \in Int /\ scaled[o] <= due[o]
  <2>1. ASSUME NEW o \in side PROVE scaled[o] \in Int /\ due[o] \in Int /\ scaled[o] <= due[o]
    <3>1. sh[o] \in Nat /\ am[o] \in Nat /\ sh[o] * D <= total * am[o]
      BY <1>1, <1>2
    <3>2. sh[o] * D \in Int /\ am[o] * total \in Int /\ total * am[o] = am[o] * total
      BY <1>1, <3>1
    <3> QED BY <3>1, <3>2
  <2> QED BY <2>1
<1>4. Sum(scaled, side) <= Sum(due, side)
  <2> HIDE DEF scaled, due
  <2> QED BY <1>1, <1>3, SumMonotone DEF IntOn
<1>5. Sum(scaled, side) = Sum(sh, side) * D
  <2>1. IntOn(sh, side) /\ \A o \in side : scaled[o] = sh[o] * D
    BY <1>1 DEF IntOn
  <2> HIDE DEF scaled
  <2> QED BY <1>1, <2>1, SumScale
<1>6. Sum(due, side) = D * total
  <2>1. IntOn(am, side) /\ \A o \in side : due[o] = am[o] * total
    BY <1>2 DEF IntOn
  <2> HIDE DEF due
  <2> QED BY <1>1, <2>1, SumScale
<1>7. Sum(sh, side) \in Nat
  BY <1>1, SumNat
<1> HIDE DEF scaled, due
<1>8. Sum(sh, side) * D <= total * D
  BY <1>1, <1>4, <1>5, <1>6, FactorOut
<1>9. Sum(sh, side) <= total
  BY <1>1, <1>7, <1>8, CancelFactor
<1> QED BY <1>7, <1>9 DEF sh

\* A side is paid its whole total (computeClearing of clearing.ts gives the
\* remainder to the last order), and no order of it less than the floor of its
\* share.
THEOREM SharesAreWholeAndFair ==
  ASSUME NEW side, IsSide(side), NEW total \in Nat
  PROVE  /\ Sum(ProRata(total, side), side) = total
         /\ \A o \in side : /\ ProRata(total, side)[o] \in Nat
                            /\ ProRata(total, side)[o] >= Share(total, side, o)
<1> DEFINE last == Latest(side)
           rest == side \ {last}
           sh == shares(total, side)
           others == [o \in rest |-> Share(total, side, o)]
           pay == ProRata(total, side)
<1>1. last \in side /\ IsFiniteSet(side) /\ IsFiniteSet(rest)
  BY FS_RemoveElement DEF IsSide
<1>2. \A o \in side : sh[o] \in Nat /\ sh[o] = Share(total, side, o)
  BY SideFacts DEF shares
<1>3. Sum(others, rest) = Sum(sh, rest)
  <2>1. \A o \in rest : others[o] = sh[o]
    BY <1>2
  <2> HIDE DEF others, rest, sh
  <2> QED BY <1>1, <2>1, SumAgree
<1>4. pay = [o \in side |-> IF o = last THEN total - Sum(others, rest) ELSE others[o]]
  BY DEF ProRata, Sum
<1>5. Sum(sh, side) = sh[last] + Sum(sh, rest) /\ Sum(sh, rest) \in Int
  <2>1. IntOn(sh, side) /\ IntOn(sh, rest)
    BY <1>2 DEF IntOn
  <2> HIDE DEF sh, last
  <2> QED BY <1>1, <2>1, SumRemove, SumType
<1>6. Sum(sh, side) \in Nat /\ Sum(sh, side) <= total
  BY SharesFit
<1> HIDE DEF sh, pay
<1>7. \A o \in rest : o \in side /\ o # last /\ pay[o] = sh[o]
  BY <1>2, <1>4
<1>8. pay[last] = total - Sum(sh, rest)
  BY <1>1, <1>3, <1>4
<1> HIDE DEF others, last
<1>9. pay[last] \in Nat /\ pay[last] >= sh[last]
  BY <1>1, <1>2, <1>5, <1>6, <1>8
<1>10. \A o \in side : pay[o] \in Nat /\ pay[o] >= sh[o]
  <2>1. ASSUME NEW o \in side PROVE pay[o] \in Nat /\ pay[o] >= sh[o]
    <3>1. CASE o = last
      BY <1>9, <3>1
    <3>2. CASE o # last
      BY <1>2, <1>7, <3>2
    <3> QED BY <3>1, <3>2
  <2> QED BY <2>1
<1>11. Sum(pay, side) = pay[last] + Sum(pay, rest)
  <2>1. IntOn(pay, side)
    BY <1>10 DEF IntOn
  <2> QED BY <1>1, <2>1, SumRemove
<1>12. Sum(pay, rest) = Sum(sh, rest)
  <2> HIDE DEF rest
  <2> QED BY <1>1, <1>7, SumAgree
<1>13. Sum(pay, side) = total
  BY <1>5, <1>8, <1>11, <1>12
<1> QED BY <1>2, <1>10, <1>13 DEF pay

-----------------------------------------------------------------------------
(* The widths of the circuit.                                              *)

LEMMA WidthFacts ==
  /\ TWO_POW_64 \in Nat \ {0} /\ SCALE \in 1..(TWO_POW_64 - 1)
  /\ \A x \in Nat : x < TWO_POW_64 => FitsU128(x)
<1>1. TWO_POW_64 \in Nat \ {0} /\ SCALE \in 1..(TWO_POW_64 - 1)
  BY WidthConstants, SwapConstants
<1>2. 1 * TWO_POW_64 <= TWO_POW_64 * TWO_POW_64 /\ TWO_POW_64 * TWO_POW_64 \in Nat
  BY <1>1, ProductOrder, ProductNat
<1>3. \A x \in Nat : x < TWO_POW_64 => x < TWO_POW_64 * TWO_POW_64
  BY <1>1, <1>2
<1> QED BY <1>1, <1>3 DEF FitsU128

\* mul_div divides a product of two halves: what it adds up under 128 bits is part
\* of the product.
LEMMA SmallProductFits ==
  ASSUME NEW x \in Nat, NEW y \in Nat, NEW z \in 1..(TWO_POW_64 - 1),
         FitsU128(x), FitsU128(y), FitsU128(x * y)
  PROVE  mul_div_fits(x, y, z)
<1> DEFINE W == TWO_POW_64
           xl == x % W
           xh == x \div W
           yl == y % W
           yh == y \div W
           p0 == xl * yl
           p1 == xl * yh
           p2 == xh * yl
           p3 == xh * yh
<1>1. W \in Nat \ {0}
  BY WidthFacts
<1>2. x * y < W * W
  BY DEF FitsU128
<1> HIDE DEF W
<1>3. /\ xl \in Nat /\ xh \in Nat /\ x = xh * W + xl
      /\ yl \in Nat /\ yh \in Nat /\ y = yh * W + yl
  BY <1>1
<1> HIDE DEF xl, xh, yl, yh
<1>4. p0 \in Nat /\ p1 \in Nat /\ p2 \in Nat /\ p3 \in Nat
  BY <1>3, ProductNat
<1>5. x * y = (p3 * W) * W + (p1 + p2) * W + p0
  <2>1. x * y = (xh * W) * (yh * W) + (xh * W) * yl + xl * (yh * W) + xl * yl
    <3> DEFINE a == xh * W
               b == yh * W
    <3>1. a \in Int /\ b \in Int /\ x = a + xl /\ y = b + yl
      BY <1>1, <1>3
    <3> HIDE DEF a, b
    <3>2. (a + xl) * (b + yl) = a * b + a * yl + xl * b + xl * yl
      BY <1>3, <3>1
    <3> QED BY <3>1, <3>2 DEF a, b
  <2>2. (xh * W) * yl = p2 * W
    BY <1>1, <1>3, Reorder
  <2>3. xl * (yh * W) = p1 * W
    BY <1>1, <1>3, Associates
  <2>4. (xh * W) * (yh * W) = (p3 * W) * W
    <3>1. (xh * W) * (yh * W) = ((xh * W) * yh) * W
      BY <1>1, <1>3, Associates
    <3>2. (xh * W) * yh = p3 * W
      BY <1>1, <1>3, Reorder
    <3> QED BY <3>1, <3>2
  <2>5. (p1 + p2) * W = p1 * W + p2 * W
    BY <1>1, <1>4, FactorOut
  <2>6. p1 * W \in Int /\ p2 * W \in Int /\ p0 \in Int /\ (p3 * W) * W \in Int
    BY <1>1, <1>4, ProductNat
  <2> DEFINE t == (p3 * W) * W
             u == p1 * W
             v == p2 * W
  <2>7. /\ x * y = t + v + u + p0 /\ (p1 + p2) * W = u + v
        /\ t \in Int /\ u \in Int /\ v \in Int /\ p0 \in Int
    BY <2>1, <2>2, <2>3, <2>4, <2>5, <2>6
  <2> HIDE DEF t, u, v, p0, p1, p2, p3
  <2>8. x * y = t + (p1 + p2) * W + p0
    BY <2>7
  <2> QED BY <2>8 DEF t
<1> DEFINE a == p0 \div W
           b == p1 % W
           c == p2 % W
<1>6. /\ a \in Nat /\ a * W <= p0 /\ b \in Nat /\ b <= p1 /\ c \in Nat /\ c <= p2
  <2> HIDE DEF p0, p1, p2
  <2> QED BY <1>1, <1>4, Floor
<1> HIDE DEF a, b, c, p0, p1, p2, p3
<1>7. a + b + c < W
  <2>1. (p3 * W) * W \in Nat
    BY <1>1, <1>4, ProductNat
  <2>2. (b + c) * W <= (p1 + p2) * W
    BY <1>1, <1>4, <1>6, ProductOrder
  <2>3. (a + (b + c)) * W = a * W + (b + c) * W
    BY <1>1, <1>6, FactorOut
  <2>4. a * W \in Int /\ (b + c) * W \in Int /\ (p1 + p2) * W \in Int /\ (a + (b + c)) * W \in Int
    BY <1>1, <1>4, <1>6
  <2>5. (a + (b + c)) * W <= x * y
    <3> DEFINE e == x * y
               f == (p3 * W) * W
               g == (p1 + p2) * W
               h == (b + c) * W
               i == a * W
    <3>1. e = f + g + p0 /\ f \in Nat /\ h <= g /\ i <= p0 /\ g \in Int /\ h \in Int /\ i \in Int
          /\ (a + (b + c)) * W = i + h
      BY <1>5, <1>6, <2>1, <2>2, <2>3, <2>4
    <3> HIDE DEF e, f, g, h, i
    <3>2. i + h <= e
      BY <1>4, <3>1
    <3> QED BY <3>1, <3>2 DEF e
  <2>6. (a + (b + c)) * W < W * W
    <3>1. x * y \in Int /\ W * W \in Int
      BY <1>1, ProductNat
    <3> QED BY <1>2, <2>4, <2>5, <3>1
  <2>7. a + (b + c) < W
    BY <1>1, <1>6, <2>6, CancelStrict
  <2> QED BY <1>6, <2>7
<1>8. FitsU128(mulDiv(x, y, z))
  <2> DEFINE q == mulDiv(x, y, z)
             w == x * y
  <2>1. z \in Nat \ {0}
    BY WidthFacts
  <2>2. q \in Nat /\ q * z <= w /\ w \in Nat
    BY <2>1, MulDivNat, ProductNat
  <2> HIDE DEF q, w
  <2>3. 1 * q <= z * q /\ z * q = q * z /\ q * z \in Int
    BY <2>1, <2>2, ProductOrder, FactorOut
  <2>4. q <= w
    BY <2>2, <2>3
  <2>5. w < W * W /\ W * W \in Int
    BY <1>1, <1>2 DEF w
  <2>6. q < W * W
    BY <2>2, <2>4, <2>5
  <2> QED BY <2>6 DEF FitsU128, W, q
<1> QED BY <1>7, <1>8 DEF mul_div_fits, a, b, c, p0, p1, p2, xl, xh, yl, yh, W

\* Two factors of 64 bits are taken.
LEMMA FactorsFit ==
  ASSUME NEW x \in Nat, NEW y \in Nat, x < TWO_POW_64, y < TWO_POW_64,
         NEW z \in 1..(TWO_POW_64 - 1)
  PROVE  mul_div_fits(x, y, z)
<1> DEFINE W == TWO_POW_64
<1>1. W \in Nat \ {0} /\ FitsU128(x) /\ FitsU128(y)
  BY WidthFacts
<1>2. x < W /\ y < W
  OBVIOUS
<1> HIDE DEF W
<1>3. x * y <= W * y /\ y * W <= (W - 1) * W /\ W * y = y * W
  BY <1>1, <1>2, ProductOrder, FactorOut
<1>4. (W - 1) * W = W * W - W /\ W * W \in Int /\ x * y \in Int /\ y * W \in Int
  BY <1>1
<1>5. x * y < W * W
  BY <1>1, <1>3, <1>4
<1> QED BY <1>1, <1>5, SmallProductFits DEF FitsU128, W

\* Nor does the sum of two such amounts overflow.
LEMMA SumFits ==
  ASSUME NEW x \in Nat, NEW y \in Nat, x < TWO_POW_64, y < TWO_POW_64
  PROVE  FitsU128(x + y)
<1> DEFINE W == TWO_POW_64
<1>1. W \in Nat \ {0, 1}
  BY WidthFacts, SwapConstants
<1>2. x + y < 2 * W
  BY <1>1
<1> HIDE DEF W
<1>3. 2 * W <= W * W /\ W * W \in Int
  BY <1>1, ProductOrder
<1>4. x + y < W * W
  BY <1>1, <1>2, <1>3
<1> QED BY <1>4 DEF FitsU128, W

-----------------------------------------------------------------------------
(* The engine and the circuit.                                             *)

\* What the engine shares among a side, the circuit accepts (section C2 of its
\* main.nr): gross went to the pool from this token, net of the fee, of which
\* rec was recovered, from_pool came back, and the side shares what is left of
\* the escrow.  The orderbook can pay it, nobody is paid less than the circuit's
\* floor, and where what there is of either token has 64 bits the circuit's mul_div
\* can compute that floor.
THEOREM EngineMeetsCircuit ==
  ASSUME NEW side, IsSide(side),
         NEW gross \in Nat, NEW from_pool \in Nat, NEW escrow \in Nat, gross <= escrow + from_pool,
         NEW rec \in Nat, rec <= gross - AfterFee(gross),
         NEW total, total = escrow - gross + from_pool,
         NEW to_pool, to_pool = AfterFee(gross) + rec
  PROVE  /\ token_solvent(Sum(ProRata(total, side), side), to_pool, from_pool, escrow)
         /\ \A o \in side :
              ProRata(total, side)[o] >= Share(AvailFloor(from_pool, escrow, to_pool, rec), side, o)
         /\ from_pool + escrow < TWO_POW_64 /\ AmountIn(side) < TWO_POW_64 =>
              \A o \in side :
                mul_div_fits(AvailFloor(from_pool, escrow, to_pool, rec), o.amountIn, AmountIn(side))
<1> DEFINE net == AfterFee(gross)
           ceil == ceil_fee_from_net(net)
           floor == AvailFloor(from_pool, escrow, to_pool, rec)
<1>1. net \in Nat /\ net <= gross /\ ceil \in Nat /\ gross - net <= ceil
  BY FeeIsWithinCeiling
<1> HIDE DEF net, ceil
<1>2. total \in Nat /\ to_pool \in Nat /\ to_pool = net + rec /\ rec <= gross - net
  BY <1>1 DEF net
<1>3. Sum(ProRata(total, side), side) = total
  BY <1>2, SharesAreWholeAndFair
<1>4. token_solvent(Sum(ProRata(total, side), side), to_pool, from_pool, escrow)
  BY <1>1, <1>2, <1>3 DEF token_solvent
<1>5. saturating_sub(to_pool, rec) = net
  BY <1>1, <1>2 DEF saturating_sub
<1>6. floor = saturating_sub(saturating_sub(from_pool + escrow, to_pool),
                             saturating_sub(ceil, rec))
  BY <1>5 DEF AvailFloor, ceil
<1>7. floor \in Nat /\ floor <= total
  BY <1>1, <1>2, <1>6 DEF saturating_sub
<1> HIDE DEF floor
<1>8. ASSUME NEW o \in side PROVE ProRata(total, side)[o] >= Share(floor, side, o)
  <2> DEFINE f == Share(floor, side, o)
             t == Share(total, side, o)
             D == AmountIn(side)
  <2>1. /\ D \in Nat \ {0} /\ f \in Nat /\ f * D <= floor * o.amountIn /\ t \in Nat
    BY <1>2, <1>7, SideFacts
  <2>2. o.amountIn \in Nat
    BY DEF IsSide
  <2>3. floor * o.amountIn <= total * o.amountIn
    BY <1>2, <1>7, <2>2, ProductOrder
  <2>4. total * o.amountIn \in Nat /\ floor * o.amountIn \in Nat /\ f * D \in Nat
    BY <1>2, <1>7, <2>1, <2>2, ProductNat
  <2>5. f * D <= total * o.amountIn
    BY <2>1, <2>3, <2>4
  <2>6. f <= (total * o.amountIn) \div D
    <3> HIDE DEF f, D
    <3> QED BY <2>1, <2>4, <2>5, FloorIsLargest
  <2>7. f <= t
    BY <2>6 DEF Share, mulDiv
  <2>8. ProRata(total, side)[o] \in Nat /\ ProRata(total, side)[o] >= t
    BY <1>2, SharesAreWholeAndFair
  <2> HIDE DEF f, t
  <2>9. ProRata(total, side)[o] >= f
    BY <2>1, <2>7, <2>8
  <2> QED BY <2>9 DEF f
<1>9. ASSUME NEW o \in side, from_pool + escrow < TWO_POW_64, AmountIn(side) < TWO_POW_64
      PROVE  mul_div_fits(floor, o.amountIn, AmountIn(side))
  <2>1. AmountIn(side) \in Nat \ {0} /\ AmountIn(side) = Sum(amounts(side), side)
    BY <1>2, SideFacts
  <2>2. o.amountIn \in Nat /\ o.amountIn <= AmountIn(side)
    <3>1. \A x \in side : amounts(side)[x] \in Nat
      BY DEF IsSide, amounts
    <3>2. amounts(side)[o] <= Sum(amounts(side), side)
      BY <3>1, SumBound DEF IsSide
    <3>3. amounts(side)[o] = o.amountIn
      BY DEF amounts
    <3> QED BY <2>1, <3>1, <3>2, <3>3
  <2>3. floor < TWO_POW_64 /\ o.amountIn < TWO_POW_64 /\ AmountIn(side) \in 1..(TWO_POW_64 - 1)
    BY <1>2, <1>7, <1>9, <2>1, <2>2, WidthFacts
  <2> QED BY <1>7, <2>2, <2>3, FactorsFit
<1> QED BY <1>4, <1>8, <1>9 DEF floor

\* Two steps down the price of a bucket pay out, together, at most what one
\* would pay: a bucket that covers its curve down to an edge still covers it
\* after any step towards the edge (swapStepOutB of buckets.ts).
THEOREM StepsDownNeverOverdraw ==
  ASSUME NEW l \in Nat, NEW p \in Nat, NEW q \in Nat, NEW lower \in Nat,
         lower <= q, q <= p,
         NEW reserve \in Nat, reserve >= swapStepOutB(l, p, lower)
  PROVE  /\ swapStepOutB(l, p, q) \in 0..reserve
         /\ reserve - swapStepOutB(l, p, q) >= swapStepOutB(l, q, lower)
<1> DEFINE a == l * (p - q)
           b == l * (q - lower)
           x == a \div SCALE
           y == b \div SCALE
           z == (l * (p - lower)) \div SCALE
<1>0. SCALE \in Nat \ {0}
  BY SwapConstants
<1>1. a \in Nat /\ b \in Nat /\ l * (p - lower) = a + b
  <2>1. p - q \in Nat /\ q - lower \in Nat /\ p - lower = (p - q) + (q - lower)
    OBVIOUS
  <2> QED BY <2>1, ProductNat, FactorOut
<1>2. z = (a + b) \div SCALE
  BY <1>1
<1> HIDE DEF a, b
<1>3. x \in Nat /\ x * SCALE <= a /\ y \in Nat /\ y * SCALE <= b
  BY <1>0, <1>1, Floor
<1> HIDE DEF x, y
<1>4. (x + y) * SCALE <= a + b
  BY <1>0, <1>1, <1>3
<1>5. x + y <= z
  <2>1. a + b \in Nat /\ x + y \in Nat
    BY <1>1, <1>3
  <2>2. x + y <= (a + b) \div SCALE
    <3> HIDE DEF z
    <3> QED BY <1>0, <1>4, <2>1, FloorIsLargest
  <2> QED BY <1>2, <2>2
<1>6. swapStepOutB(l, p, q) = x /\ swapStepOutB(l, q, lower) = y /\ swapStepOutB(l, p, lower) = z
  BY DEF swapStepOutB, mulDiv, a, b, x, y
<1>7. z \in Int
  BY <1>0, <1>1, <1>2
<1> HIDE DEF z
<1> QED BY <1>3, <1>5, <1>6, <1>7

-----------------------------------------------------------------------------
(* The grid and the pools.                                                 *)

\* Pools on the grid, with natural prices and reserves.
PoolRecords ==
  [sqrtP : Nat, bounds : {Grid},
   buckets : [DOMAIN Grid -> [a : Nat, b : Nat, liquidity : Nat]]]

\* The highest price of the grid.
Top == Grid[Len(Grid)].upper

\* The grid's prices are positive, each bucket has a width, and a price times
\* itself is worth at least one unit of a price.
LEMMA GridFacts ==
  /\ Len(Grid) \in Nat \ {0} /\ DOMAIN Grid = 1..Len(Grid) /\ Top \in Nat
  /\ \A i \in DOMAIN Grid :
       /\ Grid[i].lower \in Nat /\ Grid[i].upper \in Nat /\ Grid[i].lower < Grid[i].upper
       /\ Grid[i].lower * Grid[i].lower >= SCALE /\ Grid[i].upper <= Top
<1>1. Len(Grid) \in Nat \ {0} /\ DOMAIN Grid = 1..Len(Grid)
  BY GridAssumption
<1>2. \A i \in DOMAIN Grid : Grid[i] \in [lower : Nat, upper : Nat]
  <2> DEFINE T == [lower : Nat, upper : Nat]
  <2>1. Grid \in Seq(T)
    BY GridAssumption
  <2> HIDE DEF T
  <2>2. \A i \in DOMAIN Grid : Grid[i] \in T
    BY <2>1
  <2> QED BY <2>2 DEF T
<1>3. Len(Grid) \in DOMAIN Grid
  BY <1>1
<1>4. ASSUME NEW i \in DOMAIN Grid PROVE Grid[i].upper <= Top
  <2>1. CASE i = Len(Grid)
    BY <1>2, <2>1 DEF Top
  <2>2. CASE i # Len(Grid)
    <3>1. i < Len(Grid)
      BY <1>1, <2>2
    <3>2. Grid[i].upper <= Grid[Len(Grid)].lower
      BY <1>3, <3>1, GridAssumption
    <3>3. Grid[Len(Grid)].lower < Grid[Len(Grid)].upper
      BY <1>3, GridAssumption
    <3>4. Grid[i].upper \in Nat /\ Grid[Len(Grid)] \in [lower : Nat, upper : Nat]
      BY <1>2, <1>3
    <3> QED BY <3>2, <3>3, <3>4 DEF Top
  <2> QED BY <2>1, <2>2
<1> QED BY <1>1, <1>2, <1>3, <1>4, GridAssumption DEF Top

\* From the bottom of the grid up, the product of two prices is not floored to
\* zero.
LEMMA PricesDivide ==
  ASSUME NEW e \in Nat, e * e >= SCALE, NEW p \in Nat, NEW q \in Nat, e <= p, e <= q
  PROVE  mulDiv(p, q, SCALE) \in Nat \ {0}
<1>1. SCALE \in Nat \ {0}
  BY SwapConstants
<1>2. e * e <= p * e /\ e * p <= q * p /\ p * e = e * p /\ q * p = p * q
  BY ProductOrder
<1>3. p * q \in Nat /\ e * e \in Int /\ p * e \in Int
  BY ProductNat
<1>4. 1 * SCALE <= p * q
  BY <1>1, <1>2, <1>3
<1>5. 1 <= (p * q) \div SCALE /\ (p * q) \div SCALE \in Nat
  BY <1>1, <1>3, <1>4, FloorIsLargest, Floor
<1> QED BY <1>5 DEF mulDiv

\* What a bucket has room for, at a price in it.
LEMMA RoomNat ==
  ASSUME NEW up \in BOOLEAN, NEW l \in Nat, NEW i \in DOMAIN Grid, NEW p \in Nat,
         Grid[i].lower <= p, p <= Grid[i].upper
  PROVE  /\ Room(up, l, p, Grid[i]) \in Nat
         /\ p = (IF up THEN Grid[i].upper ELSE Grid[i].lower) => Room(up, l, p, Grid[i]) = 0
<1>1. SCALE \in Nat \ {0}
  BY SwapConstants
<1>2. Grid[i].lower \in Nat /\ Grid[i].upper \in Nat /\ Grid[i].lower * Grid[i].lower >= SCALE
  BY GridFacts
<1> DEFINE m == mulDiv(p, Grid[i].lower, SCALE)
<1>3. m \in Nat \ {0}
  BY <1>2, PricesDivide
<1> HIDE DEF m
<1>4. Grid[i].upper - p \in Nat /\ p - Grid[i].lower \in Nat
  BY <1>2
<1>5. mulDiv(l, Grid[i].upper - p, SCALE) \in Nat /\ mulDiv(l, p - Grid[i].lower, m) \in Nat
  BY <1>1, <1>3, <1>4, MulDivNat
<1>6. l * 0 = 0 /\ 0 \div SCALE = 0 /\ 0 \div m = 0
  BY <1>1, <1>3
<1>7. mulDiv(l, 0, SCALE) = 0 /\ mulDiv(l, 0, m) = 0
  BY <1>6 DEF mulDiv
<1>8. /\ p = Grid[i].upper => Grid[i].upper - p = 0
      /\ p = Grid[i].lower => p - Grid[i].lower = 0
  BY <1>2
<1>9. Room(up, l, p, Grid[i]) = IF up THEN mulDiv(l, Grid[i].upper - p, SCALE)
                                ELSE mulDiv(l, p - Grid[i].lower, m)
  BY DEF Room, m
<1> QED BY <1>5, <1>7, <1>8, <1>9

\* What a step to the price q takes out.
LEMMA StepOutNat ==
  ASSUME NEW up \in BOOLEAN, NEW l \in Nat, NEW e \in Nat, e * e >= SCALE,
         NEW p \in Nat, NEW q \in Nat, e <= p,
         up => p <= q, ~ up => q <= p
  PROVE  StepOut(up, l, p, q) \in Nat /\ (q = p => StepOut(up, l, p, q) = 0)
<1>1. SCALE \in Nat \ {0}
  BY SwapConstants
<1>2. CASE up
  <2>1. e <= q /\ q - p \in Nat /\ p <= q
    BY <1>2
  <2> DEFINE m == mulDiv(p, q, SCALE)
  <2>2. m \in Nat \ {0}
    BY <2>1, PricesDivide
  <2> HIDE DEF m
  <2>3. mulDiv(l, q - p, m) \in Nat
    BY <2>1, <2>2, MulDivNat
  <2>4. q = p => mulDiv(l, q - p, m) = 0
    <3>1. l * 0 = 0 /\ 0 \div m = 0
      BY <2>2
    <3>2. q = p => q - p = 0
      OBVIOUS
    <3> QED BY <3>1, <3>2 DEF mulDiv
  <2>5. StepOut(up, l, p, q) = mulDiv(l, q - p, m)
    BY <1>2 DEF StepOut, swapStepOutA, m
  <2> QED BY <2>3, <2>4, <2>5
<1>3. CASE ~ up
  <2>1. p - q \in Nat
    BY <1>3
  <2>2. mulDiv(l, p - q, SCALE) \in Nat
    BY <1>1, <2>1, MulDivNat
  <2>3. q = p => mulDiv(l, p - q, SCALE) = 0
    <3>1. l * 0 = 0 /\ 0 \div SCALE = 0
      BY <1>1
    <3>2. q = p => p - q = 0
      OBVIOUS
    <3> QED BY <3>1, <3>2 DEF mulDiv
  <2>4. StepOut(up, l, p, q) = mulDiv(l, p - q, SCALE)
    BY <1>3 DEF StepOut, swapStepOutB
  <2> QED BY <2>2, <2>3, <2>4
<1> QED BY <1>2, <1>3

\* A step that the bucket has room for goes in its direction, and not over the
\* upper edge.
LEMMA NextPrice ==
  ASSUME NEW up \in BOOLEAN, NEW l \in Nat \ {0}, NEW i \in DOMAIN Grid, NEW p \in Nat,
         Grid[i].lower <= p, p <= Grid[i].upper,
         NEW in \in Nat, in <= Room(up, l, p, Grid[i])
  PROVE  /\ NextSqrtP(up, l, p, in) \in 0..Grid[i].upper
         /\ up => p <= NextSqrtP(up, l, p, in)
         /\ ~ up => NextSqrtP(up, l, p, in) <= p
<1>1. SCALE \in Nat \ {0} /\ Grid[i].upper \in Nat
  BY SwapConstants, GridFacts
<1>2. CASE up
  <2> DEFINE d == Grid[i].upper - p
             x == mulDiv(in, SCALE, l)
  <2>1. d \in Nat
    BY <1>1
  <2>2. Room(up, l, p, Grid[i]) = mulDiv(l, d, SCALE)
    BY <1>2 DEF Room
  <2>3. NextSqrtP(up, l, p, in) = p + x
    BY <1>2 DEF NextSqrtP, nextSqrtPUp
  <2> DEFINE room == mulDiv(l, d, SCALE)
  <2> HIDE DEF d, x
  <2>4. x \in Nat /\ x * l <= in * SCALE
    BY <1>1, MulDivNat DEF x
  <2>5. room \in Nat /\ room * SCALE <= l * d
    BY <1>1, <2>1, MulDivNat
  <2>6. in <= room
    BY <2>2
  <2> HIDE DEF room
  <2>7. in * SCALE <= room * SCALE
    BY <1>1, <2>5, <2>6, ProductOrder
  <2>8. x * l <= d * l
    <3>1. x * l \in Int /\ in * SCALE \in Int /\ room * SCALE \in Int /\ l * d \in Int /\ l * d = d * l
      BY <1>1, <2>1, <2>4, <2>5
    <3> QED BY <2>4, <2>5, <2>7, <3>1
  <2>9. x <= d
    BY <2>1, <2>4, <2>8, CancelFactor
  <2>10. p + x \in 0..Grid[i].upper /\ p <= p + x
    BY <1>1, <2>4, <2>9 DEF d
  <2> QED BY <1>2, <2>3, <2>10
<1>3. CASE ~ up
  <2> DEFINE g == mulDiv(in, p, SCALE)
             q == mulDiv(p, l, l + g)
  <2>1. NextSqrtP(up, l, p, in) = q
    BY <1>3 DEF NextSqrtP, nextSqrtPDown
  <2>2. g \in Nat
    BY <1>1, MulDivNat
  <2> HIDE DEF g
  <2>3. l + g \in Nat \ {0} /\ l <= l + g
    BY <2>2
  <2>4. q \in Nat /\ q * (l + g) <= p * l
    BY <2>3, MulDivNat
  <2> HIDE DEF q
  <2>5. l * q <= (l + g) * q
    BY <2>3, <2>4, ProductOrder
  <2>6. q * l <= p * l
    <3>1. l * q = q * l /\ (l + g) * q = q * (l + g) /\ q * l \in Int /\ q * (l + g) \in Int /\ p * l \in Int
      BY <2>3, <2>4
    <3> QED BY <2>4, <2>5, <3>1
  <2>7. q <= p
    BY <2>4, <2>6, CancelFactor
  <2> QED BY <1>1, <1>3, <2>1, <2>4, <2>7
<1> QED BY <1>2, <1>3

-----------------------------------------------------------------------------
(* Sums along a sequence.                                                  *)

\* A sum along a sequence that is one longer.
LEMMA SumNext ==
  ASSUME NEW n \in Nat, NEW f, NEW g, \A k \in 1..n : f[k] \in Int /\ g[k] = f[k],
         g[n + 1] \in Int
  PROVE  Sum(g, 1..(n + 1)) = Sum(f, 1..n) + g[n + 1]
<1> DEFINE U == 1..n
<1>1. 1..(n + 1) = U \cup {n + 1} /\ n + 1 \notin U
  OBVIOUS
<1>2. IsFiniteSet(U)
  BY FS_Interval
<1>3. \A k \in U : f[k] \in Int /\ g[k] = f[k]
  OBVIOUS
<1> HIDE DEF U
<1>4. IntOn(g, U \cup {n + 1})
  BY <1>3 DEF IntOn
<1>5. Sum(g, U \cup {n + 1}) = Sum(g, U) + g[n + 1]
  BY <1>1, <1>2, <1>4, SumAdd
<1>6. Sum(g, U) = Sum(f, U)
  BY <1>2, <1>3, SumAgree
<1> QED BY <1>1, <1>5, <1>6 DEF U

\* A sum along a sequence read backwards.
LEMMA SumBackwards ==
  ASSUME NEW n \in Nat, NEW f, NEW g, \A k \in 1..n : f[k] \in Int /\ g[k] = f[(n - k) + 1]
  PROVE  Sum(g, 1..n) = Sum(f, 1..n)
<1> DEFINE U == 1..n
           h == [k \in U |-> (n - k) + 1]
<1>1. /\ \A x, y \in U : h[x] = h[y] => x = y
      /\ \A x \in U : f[h[x]] = g[x] /\ g[x] \in Int
  OBVIOUS
<1>2. {h[x] : x \in U} = U
  <2>1. \A x \in U : h[x] \in U
    OBVIOUS
  <2>2. \A y \in U : h[(n - y) + 1] = y /\ (n - y) + 1 \in U
    OBVIOUS
  <2> HIDE DEF h
  <2> QED BY <2>1, <2>2
<1>3. IsFiniteSet(U)
  BY FS_Interval
<1> HIDE DEF U, h
<1>4. IntOn(g, U)
  BY <1>1 DEF IntOn
<1>5. Sum(f, {h[x] : x \in U}) = Sum(g, U)
  BY <1>1, <1>3, <1>4, SumRename
<1> QED BY <1>2, <1>5 DEF U

-----------------------------------------------------------------------------
(* The steps of a walk.                                                    *)

DeltaRecords == [bucket : DOMAIN Grid, in : Nat, out : Nat, feeInc : Nat]

ins(ds) == [k \in DOMAIN ds |-> ds[k].in]
outs(ds) == [k \in DOMAIN ds |-> ds[k].out]
recovered(pool, ds) ==
  [k \in DOMAIN ds |-> mulDiv(ds[k].feeInc, pool.buckets[ds[k].bucket].liquidity, SCALE)]

InSum(ds) == Sum(ins(ds), DOMAIN ds)
OutSum(ds) == Sum(outs(ds), DOMAIN ds)
RecoveredSum(pool, ds) == Sum(recovered(pool, ds), DOMAIN ds)

\* The steps of a sequence.
LEMMA DeltaTypes ==
  ASSUME NEW pool \in PoolRecords, NEW ds \in Seq(DeltaRecords)
  PROVE  /\ Len(ds) \in Nat /\ DOMAIN ds = 1..Len(ds)
         /\ \A k \in 1..Len(ds) : /\ ds[k] \in DeltaRecords
                                  /\ ins(ds)[k] \in Nat /\ outs(ds)[k] \in Nat
                                  /\ recovered(pool, ds)[k] \in Nat
<1>1. Len(ds) \in Nat /\ DOMAIN ds = 1..Len(ds)
  OBVIOUS
<1>2. \A k \in 1..Len(ds) : ds[k] \in DeltaRecords
  <2> HIDE DEF DeltaRecords
  <2> QED OBVIOUS
<1>3. ASSUME NEW k \in 1..Len(ds)
      PROVE  ins(ds)[k] \in Nat /\ outs(ds)[k] \in Nat /\ recovered(pool, ds)[k] \in Nat
  <2>1. ds[k].bucket \in DOMAIN Grid /\ ds[k].in \in Nat /\ ds[k].out \in Nat /\ ds[k].feeInc \in Nat
    BY <1>2 DEF DeltaRecords
  <2>2. pool.buckets[ds[k].bucket].liquidity \in Nat
    BY <2>1 DEF PoolRecords
  <2>3. mulDiv(ds[k].feeInc, pool.buckets[ds[k].bucket].liquidity, SCALE) \in Nat
    BY <2>1, <2>2, MulDivNat, SwapConstants
  <2> QED BY <1>1, <2>1, <2>3 DEF ins, outs, recovered
<1> QED BY <1>1, <1>2, <1>3

\* What goes in, what comes out and the fee recovered are natural numbers.
LEMMA SumsNat ==
  ASSUME NEW pool \in PoolRecords, NEW ds \in Seq(DeltaRecords)
  PROVE  InSum(ds) \in Nat /\ OutSum(ds) \in Nat /\ RecoveredSum(pool, ds) \in Nat
<1>1. /\ Len(ds) \in Nat /\ DOMAIN ds = 1..Len(ds)
      /\ \A k \in 1..Len(ds) : /\ ins(ds)[k] \in Nat /\ outs(ds)[k] \in Nat
                               /\ recovered(pool, ds)[k] \in Nat
  BY DeltaTypes
<1>2. IsFiniteSet(1..Len(ds))
  BY <1>1, FS_Interval
<1> QED BY <1>1, <1>2, SumNat DEF InSum, OutSum, RecoveredSum

\* Nothing moves along the empty sequence.
LEMMA SumsEmpty ==
  ASSUME NEW pool
  PROVE  InSum(<<>>) = 0 /\ OutSum(<<>>) = 0 /\ RecoveredSum(pool, <<>>) = 0
<1>1. DOMAIN <<>> = {}
  OBVIOUS
<1> QED BY <1>1, SumEmpty DEF InSum, OutSum, RecoveredSum

\* One step more.
LEMMA SumsAppend ==
  ASSUME NEW pool \in PoolRecords, NEW ds \in Seq(DeltaRecords), NEW d \in DeltaRecords
  PROVE  /\ Append(ds, d) \in Seq(DeltaRecords)
         /\ InSum(Append(ds, d)) = InSum(ds) + d.in
         /\ RecoveredSum(pool, Append(ds, d))
              = RecoveredSum(pool, ds)
                + mulDiv(d.feeInc, pool.buckets[d.bucket].liquidity, SCALE)
<1> DEFINE n == Len(ds)
           more == Append(ds, d)
<1>1. /\ n \in Nat /\ DOMAIN ds = 1..n
      /\ \A k \in 1..n : ins(ds)[k] \in Nat /\ recovered(pool, ds)[k] \in Nat
  BY DeltaTypes
<1>2. /\ more \in Seq(DeltaRecords) /\ Len(more) = n + 1 /\ DOMAIN more = 1..(n + 1)
      /\ more[n + 1] = d /\ \A k \in 1..n : more[k] = ds[k]
  <2> HIDE DEF DeltaRecords
  <2> QED OBVIOUS
<1>3. \A k \in 1..(n + 1) : ins(more)[k] \in Nat /\ recovered(pool, more)[k] \in Nat
  <2> HIDE DEF more, n
  <2> QED BY <1>2, DeltaTypes
<1>4. n + 1 \in 1..(n + 1) /\ 1..n \subseteq 1..(n + 1)
  BY <1>1
<1>5. \A k \in 1..n : ins(more)[k] = ins(ds)[k] /\ recovered(pool, more)[k] = recovered(pool, ds)[k]
  <2> HIDE DEF more, n
  <2> QED BY <1>1, <1>2, <1>4 DEF ins, recovered
<1>6. /\ ins(more)[n + 1] = d.in
      /\ recovered(pool, more)[n + 1] = mulDiv(d.feeInc, pool.buckets[d.bucket].liquidity, SCALE)
  <2> HIDE DEF more, n
  <2> QED BY <1>2, <1>4 DEF ins, recovered
<1> HIDE DEF more, n
<1>7. Sum(ins(more), 1..(n + 1)) = Sum(ins(ds), 1..n) + ins(more)[n + 1]
  <2> DEFINE f == ins(ds)
             g == ins(more)
  <2>1. g[n + 1] \in Int /\ \A k \in 1..n : f[k] \in Int /\ g[k] = f[k]
    BY <1>1, <1>3, <1>4, <1>5
  <2> HIDE DEF f, g
  <2>2. Sum(g, 1..(n + 1)) = Sum(f, 1..n) + g[n + 1]
    BY <1>1, <2>1, SumNext
  <2> QED BY <2>2 DEF f, g
<1>8. Sum(recovered(pool, more), 1..(n + 1)) = Sum(recovered(pool, ds), 1..n) + recovered(pool, more)[n + 1]
  <2> DEFINE f == recovered(pool, ds)
             g == recovered(pool, more)
  <2>1. g[n + 1] \in Int /\ \A k \in 1..n : f[k] \in Int /\ g[k] = f[k]
    BY <1>1, <1>3, <1>4, <1>5
  <2> HIDE DEF f, g
  <2>2. Sum(g, 1..(n + 1)) = Sum(f, 1..n) + g[n + 1]
    BY <1>1, <2>1, SumNext
  <2> QED BY <2>2 DEF f, g
<1>9. more \in Seq(DeltaRecords)
  BY <1>2
<1> QED BY <1>1, <1>2, <1>6, <1>7, <1>8, <1>9 DEF InSum, RecoveredSum, more

\* The order of the steps does not matter.
LEMMA SumsReverse ==
  ASSUME NEW pool \in PoolRecords, NEW ds \in Seq(DeltaRecords)
  PROVE  /\ Reverse(ds) \in Seq(DeltaRecords) /\ Len(Reverse(ds)) = Len(ds)
         /\ \A k \in 1..Len(ds) : Reverse(ds)[k] = ds[(Len(ds) - k) + 1]
         /\ InSum(Reverse(ds)) = InSum(ds)
         /\ OutSum(Reverse(ds)) = OutSum(ds)
         /\ RecoveredSum(pool, Reverse(ds)) = RecoveredSum(pool, ds)
<1> DEFINE n == Len(ds)
           back == Reverse(ds)
<1>1. /\ n \in Nat /\ DOMAIN ds = 1..n
      /\ \A k \in 1..n : /\ ds[k] \in DeltaRecords
                         /\ ins(ds)[k] \in Nat /\ outs(ds)[k] \in Nat
                         /\ recovered(pool, ds)[k] \in Nat
  BY DeltaTypes
<1>2. /\ back \in Seq(DeltaRecords) /\ Len(back) = n /\ DOMAIN back = 1..n
      /\ \A k \in 1..n : back[k] = ds[(n - k) + 1]
  <2>1. back = [k \in 1..n |-> ds[(n - k) + 1]]
    BY DEF Reverse
  <2>2. \A k \in 1..n : (n - k) + 1 \in 1..n
    BY <1>1
  <2> HIDE DEF DeltaRecords, back, n
  <2>3. back \in [1..n -> DeltaRecords]
    BY <1>1, <2>1, <2>2
  <2>4. back \in Seq(DeltaRecords) /\ Len(back) = n
    BY <1>1, <2>3
  <2> QED BY <2>1, <2>4
<1>3. \A k \in 1..n : (n - k) + 1 \in 1..n
  BY <1>1
<1> HIDE DEF back, n
<1>4. \A k \in 1..n : ins(back)[k] = ins(ds)[(n - k) + 1]
  BY <1>1, <1>2, <1>3 DEF ins
<1>5. \A k \in 1..n : outs(back)[k] = outs(ds)[(n - k) + 1]
  BY <1>1, <1>2, <1>3 DEF outs
<1>6. \A k \in 1..n : recovered(pool, back)[k] = recovered(pool, ds)[(n - k) + 1]
  BY <1>1, <1>2, <1>3 DEF recovered
<1>7. Sum(ins(back), 1..n) = Sum(ins(ds), 1..n)
  <2> DEFINE f == ins(ds)
             g == ins(back)
  <2>1. n \in Nat /\ \A k \in 1..n : f[k] \in Int /\ g[k] = f[(n - k) + 1]
    BY <1>1, <1>4
  <2> HIDE DEF f, g
  <2>2. Sum(g, 1..n) = Sum(f, 1..n)
    BY <2>1, SumBackwards
  <2> QED BY <2>2 DEF f, g
<1>8. Sum(outs(back), 1..n) = Sum(outs(ds), 1..n)
  <2> DEFINE f == outs(ds)
             g == outs(back)
  <2>1. n \in Nat /\ \A k \in 1..n : f[k] \in Int /\ g[k] = f[(n - k) + 1]
    BY <1>1, <1>5
  <2> HIDE DEF f, g
  <2>2. Sum(g, 1..n) = Sum(f, 1..n)
    BY <2>1, SumBackwards
  <2> QED BY <2>2 DEF f, g
<1>9. Sum(recovered(pool, back), 1..n) = Sum(recovered(pool, ds), 1..n)
  <2> DEFINE f == recovered(pool, ds)
             g == recovered(pool, back)
  <2>1. n \in Nat /\ \A k \in 1..n : f[k] \in Int /\ g[k] = f[(n - k) + 1]
    BY <1>1, <1>6
  <2> HIDE DEF f, g
  <2>2. Sum(g, 1..n) = Sum(f, 1..n)
    BY <2>1, SumBackwards
  <2> QED BY <2>2 DEF f, g
<1> QED BY <1>1, <1>2, <1>7, <1>9, <1>8 DEF InSum, OutSum, RecoveredSum, back, n

-----------------------------------------------------------------------------
(* The walk.                                                               *)

WalkStates ==
  [sqrtP : Nat, at : Int, left : Nat, total : Nat, fee : Nat, feeDistributed : Nat,
   deltas : Seq(DeltaRecords)]

Inside(p, i) == Grid[i].lower <= p /\ p <= Grid[i].upper

\* The walk has left p behind before bucket i.
Past(up, p, i) == IF up THEN p < Grid[i].lower ELSE Grid[i].upper < p

\* The input goes into the buckets or is left, none of it into an empty one, and
\* no bucket gets more of the fee than its part.
Accounts(pool, total, fee, s) ==
  /\ s.total = total /\ s.fee = fee
  /\ InSum(s.deltas) + s.left = total
  /\ s.feeDistributed <= fee
  /\ s.feeDistributed * total <= fee * (total - s.left)
  /\ RecoveredSum(pool, s.deltas) <= s.feeDistributed
  /\ \A k \in DOMAIN s.deltas : pool.buckets[s.deltas[k].bucket].liquidity # 0

\* The walk visits each bucket once, in order.
Placed(up, s) ==
  /\ s.sqrtP <= Top
  /\ \A j, k \in DOMAIN s.deltas : s.deltas[j].bucket = s.deltas[k].bucket => j = k
  /\ s.left > 0 =>
       /\ s.at \in DOMAIN Grid => Inside(s.sqrtP, s.at)
       /\ \A k \in DOMAIN s.deltas :
            IF up THEN s.deltas[k].bucket < s.at ELSE s.at < s.deltas[k].bucket

\* Before the last step nothing has moved, or the first price is left behind.
Underway(pool, up, s) ==
  s.left > 0 =>
    \/ s.sqrtP = pool.sqrtP /\ \A k \in DOMAIN s.deltas : IsNoOp(s.deltas[k])
    \/ s.at \in DOMAIN Grid => Past(up, pool.sqrtP, s.at)

\* The last step moves.  If it is in the bucket of the first price, it is the
\* only one and starts there.
OneStep(pool, up, sqrtP, ds) ==
  LET n == Len(ds)
      l == pool.buckets[ds[n].bucket].liquidity
  IN /\ n > 0 /\ ds[n].in > 0
     /\ Inside(pool.sqrtP, ds[n].bucket) =>
          /\ \A k \in 1..(n - 1) : IsNoOp(ds[k])
          /\ sqrtP = NextSqrtP(up, l, pool.sqrtP, ds[n].in)
          /\ ds[n].out = StepOut(up, l, pool.sqrtP, sqrtP)

Finished(pool, up, total, s) ==
  s.left = 0 => IF total = 0 THEN s.deltas = <<>> /\ s.sqrtP = pool.sqrtP
                ELSE OneStep(pool, up, s.sqrtP, s.deltas)

Walks(pool, up, total, fee) ==
  {s \in WalkStates : /\ Accounts(pool, total, fee, s) /\ Placed(up, s)
                      /\ Underway(pool, up, s) /\ Finished(pool, up, total, s)}

NextBucket(up, i) == IF up THEN i + 1 ELSE i - 1

EdgeOf(up, i) == IF up THEN Grid[i].upper ELSE Grid[i].lower

\* The edge of a bucket is the next one's edge, and behind what was behind.
LEMMA Adjoining ==
  ASSUME NEW up \in BOOLEAN, NEW i \in DOMAIN Grid
  PROVE  /\ EdgeOf(up, i) \in Nat /\ EdgeOf(up, i) <= Top /\ NextBucket(up, i) \in Int
         /\ NextBucket(up, i) \in DOMAIN Grid => Inside(EdgeOf(up, i), NextBucket(up, i))
         /\ \A p \in Nat :
              /\ NextBucket(up, i) \in DOMAIN Grid /\ Past(up, p, i) => Past(up, p, NextBucket(up, i))
              /\ NextBucket(up, i) \in DOMAIN Grid /\ Inside(p, i) /\ p # EdgeOf(up, i)
                   => Past(up, p, NextBucket(up, i))
<1>1. /\ DOMAIN Grid = 1..Len(Grid) /\ Len(Grid) \in Nat
      /\ \A j \in DOMAIN Grid :
           /\ Grid[j].lower \in Nat /\ Grid[j].upper \in Nat /\ Grid[j].lower < Grid[j].upper
           /\ Grid[j].upper <= Top
      /\ Top \in Nat
  BY GridFacts
<1>2. EdgeOf(up, i) \in Nat /\ EdgeOf(up, i) <= Top /\ NextBucket(up, i) \in Int
  BY <1>1 DEF EdgeOf, NextBucket
<1>3. CASE up
  <2>1. NextBucket(up, i) = i + 1 /\ EdgeOf(up, i) = Grid[i].upper
    BY <1>3 DEF NextBucket, EdgeOf
  <2>2. i + 1 \in DOMAIN Grid => Grid[i].upper = Grid[i + 1].lower
    BY GridAssumption
  <2>3. /\ Grid[i].lower \in Nat /\ Grid[i].upper \in Nat /\ Grid[i].lower < Grid[i].upper
        /\ i + 1 \in DOMAIN Grid => /\ Grid[i + 1].lower \in Nat /\ Grid[i + 1].upper \in Nat
                                    /\ Grid[i + 1].lower < Grid[i + 1].upper
    BY <1>1
  <2>4. i + 1 \in DOMAIN Grid => Inside(Grid[i].upper, i + 1)
    BY <2>2, <2>3 DEF Inside
  <2>5. ASSUME NEW p \in Nat, i + 1 \in DOMAIN Grid
        PROVE  /\ p < Grid[i].lower => p < Grid[i + 1].lower
               /\ Inside(p, i) /\ p # Grid[i].upper => p < Grid[i + 1].lower
    BY <2>2, <2>3, <2>5 DEF Inside
  <2> QED BY <1>2, <1>3, <2>1, <2>4, <2>5 DEF Past
<1>4. CASE ~ up
  <2>1. NextBucket(up, i) = i - 1 /\ EdgeOf(up, i) = Grid[i].lower
    BY <1>4 DEF NextBucket, EdgeOf
  <2>2. i - 1 \in DOMAIN Grid => Grid[i - 1].upper = Grid[i].lower
    <3>1. i - 1 \in DOMAIN Grid => (i - 1) + 1 \in DOMAIN Grid /\ (i - 1) + 1 = i
      BY <1>1
    <3> QED BY <3>1, GridAssumption
  <2>3. /\ Grid[i].lower \in Nat /\ Grid[i].upper \in Nat /\ Grid[i].lower < Grid[i].upper
        /\ i - 1 \in DOMAIN Grid => /\ Grid[i - 1].lower \in Nat /\ Grid[i - 1].upper \in Nat
                                    /\ Grid[i - 1].lower < Grid[i - 1].upper
    BY <1>1
  <2>4. i - 1 \in DOMAIN Grid => Inside(Grid[i].lower, i - 1)
    BY <2>2, <2>3 DEF Inside
  <2>5. ASSUME NEW p \in Nat, i - 1 \in DOMAIN Grid
        PROVE  /\ Grid[i].upper < p => Grid[i - 1].upper < p
               /\ Inside(p, i) /\ p # Grid[i].lower => Grid[i - 1].upper < p
    BY <2>2, <2>3, <2>5 DEF Inside
  <2> QED BY <1>2, <1>4, <2>1, <2>4, <2>5 DEF Past
<1> QED BY <1>2, <1>3, <1>4

\* The part of the fee that goes with a part of the input.
LEMMA FeeParts ==
  ASSUME NEW fee \in Nat, NEW total \in Nat, NEW left \in Nat, left <= total, left > 0,
         NEW part \in Nat, part <= left, NEW given \in Nat,
         given * total <= fee * (total - left)
  PROVE  /\ mulDiv(fee, part, total) \in Nat
         /\ (given + mulDiv(fee, part, total)) * total <= fee * (total - (left - part))
         /\ given + mulDiv(fee, part, total) <= fee
<1> DEFINE x == mulDiv(fee, part, total)
<1>1. total \in Nat \ {0}
  OBVIOUS
<1>2. x \in Nat /\ x * total <= fee * part
  BY <1>1, MulDivNat
<1> HIDE DEF x
<1>3. (given + x) * total = given * total + x * total
  BY <1>2, FactorOut
<1>4. fee * (total - (left - part)) = fee * (total - left) + fee * part
  <2>1. total - left \in Int /\ total - (left - part) = (total - left) + part
    OBVIOUS
  <2> QED BY <2>1, FactorOut
<1>5. /\ given * total \in Int /\ x * total \in Int /\ fee * (total - left) \in Int /\ fee * part \in Int
  BY <1>2
<1>6. (given + x) * total <= fee * (total - (left - part))
  BY <1>2, <1>3, <1>4, <1>5
<1>7. fee * (total - (left - part)) <= fee * total
  <2>1. total - (left - part) \in Int /\ total - (left - part) <= total
    OBVIOUS
  <2>2. (total - (left - part)) * fee <= total * fee
    BY <2>1, ProductOrder
  <2> QED BY <2>1, <2>2, FactorOut
<1>8. (given + x) * total <= fee * total
  <2>1. (given + x) * total \in Int /\ fee * (total - (left - part)) \in Int /\ fee * total \in Int
    BY <1>2
  <2> QED BY <1>6, <1>7, <2>1
<1>9. given + x <= fee
  BY <1>1, <1>2, <1>8, CancelFactor
<1> QED BY <1>2, <1>6, <1>9 DEF x

-----------------------------------------------------------------------------

\* What Step appends.
DeltaOf(pool, up, s, in, sqrtP, part) ==
  LET l == pool.buckets[s.at].liquidity
  IN [bucket |-> s.at, in |-> in, out |-> StepOut(up, l, s.sqrtP, sqrtP),
      feeInc |-> mulDiv(part, SCALE, l)]

\* A step takes its input into the sums.
CanStep(pool, up, total, fee, s, in, sqrtP, part) ==
  /\ pool \in PoolRecords /\ up \in BOOLEAN /\ total \in Nat /\ fee \in Nat
  /\ s \in Walks(pool, up, total, fee) /\ s.left > 0 /\ s.at \in DOMAIN Grid
  /\ pool.buckets[s.at].liquidity # 0
  /\ in \in Nat /\ in <= s.left /\ sqrtP \in Nat /\ part \in Nat
  /\ s.feeDistributed + part <= fee
  /\ (s.feeDistributed + part) * total <= fee * (total - (s.left - in))
  /\ StepOut(up, pool.buckets[s.at].liquidity, s.sqrtP, sqrtP) \in Nat

Stepped(pool, up, total, fee, s, in, sqrtP, part, r) ==
  LET d == DeltaOf(pool, up, s, in, sqrtP, part)
  IN /\ d \in DeltaRecords
     /\ r = [sqrtP |-> sqrtP, at |-> s.at, left |-> s.left - in, total |-> total,
             fee |-> fee, feeDistributed |-> s.feeDistributed + part,
             deltas |-> Append(s.deltas, d)]
     /\ r \in WalkStates /\ Accounts(pool, total, fee, r)
     /\ \A j, k \in DOMAIN r.deltas : r.deltas[j].bucket = r.deltas[k].bucket => j = k
     /\ \A k \in DOMAIN r.deltas :
          \/ k \in DOMAIN s.deltas /\ r.deltas[k] = s.deltas[k]
          \/ k = Len(s.deltas) + 1 /\ r.deltas[k] = d

\* One step of the walk keeps its books.
LEMMA StepBooks ==
  ASSUME NEW pool, NEW up, NEW total, NEW fee, NEW s, NEW in, NEW sqrtP, NEW part,
         CanStep(pool, up, total, fee, s, in, sqrtP, part)
  PROVE  Stepped(pool, up, total, fee, s, in, sqrtP, part, Step(pool, up, s, in, sqrtP, part))
<1>0. /\ pool \in PoolRecords /\ up \in BOOLEAN /\ total \in Nat /\ fee \in Nat
      /\ s \in Walks(pool, up, total, fee) /\ s.left > 0 /\ s.at \in DOMAIN Grid
      /\ pool.buckets[s.at].liquidity # 0
      /\ in \in Nat /\ in <= s.left /\ sqrtP \in Nat /\ part \in Nat
      /\ s.feeDistributed + part <= fee
      /\ (s.feeDistributed + part) * total <= fee * (total - (s.left - in))
      /\ StepOut(up, pool.buckets[s.at].liquidity, s.sqrtP, sqrtP) \in Nat
  BY DEF CanStep
<1> DEFINE l == pool.buckets[s.at].liquidity
           out == StepOut(up, l, s.sqrtP, sqrtP)
           feeInc == mulDiv(part, SCALE, l)
           d == DeltaOf(pool, up, s, in, sqrtP, part)
           more == Append(s.deltas, d)
           r == Step(pool, up, s, in, sqrtP, part)
<1>1. /\ s \in WalkStates /\ Accounts(pool, total, fee, s)
      /\ \A j, k \in DOMAIN s.deltas : s.deltas[j].bucket = s.deltas[k].bucket => j = k
      /\ \A k \in DOMAIN s.deltas :
           IF up THEN s.deltas[k].bucket < s.at ELSE s.at < s.deltas[k].bucket
  BY <1>0 DEF Walks, Placed
<1>2. l \in Nat \ {0} /\ SCALE \in Nat \ {0}
  BY <1>0, SwapConstants DEF PoolRecords
<1>3. feeInc \in Nat /\ mulDiv(feeInc, l, SCALE) \in Nat /\ mulDiv(feeInc, l, SCALE) <= part
  BY <1>0, <1>2, MulDivNat, RecoveredFeeIsWithheld
<1> HIDE DEF l, feeInc
<1>4. out \in Nat
  BY <1>0 DEF l
<1> HIDE DEF out
<1>5. d \in DeltaRecords /\ d.in = in /\ d.bucket = s.at /\ d.feeInc = feeInc
  <2>1. d = [bucket |-> s.at, in |-> in, out |-> out, feeInc |-> feeInc]
    BY DEF DeltaOf, out, feeInc, l
  <2> HIDE DEF d
  <2> QED BY <1>0, <1>3, <1>4, <2>1 DEF DeltaRecords
<1>6. /\ s.deltas \in Seq(DeltaRecords) /\ s.sqrtP \in Nat /\ s.left \in Nat /\ s.at \in Int
      /\ s.feeDistributed \in Nat /\ in \in Nat /\ in <= s.left /\ part \in Nat
  BY <1>0, <1>1, Zenon DEF WalkStates
<1> HIDE DEF d
<1>7. /\ more \in Seq(DeltaRecords) /\ InSum(more) = InSum(s.deltas) + in
      /\ RecoveredSum(pool, more) = RecoveredSum(pool, s.deltas) + mulDiv(feeInc, l, SCALE)
  BY <1>0, <1>5, <1>6, SumsAppend DEF l
<1>8. InSum(s.deltas) \in Nat /\ RecoveredSum(pool, s.deltas) \in Nat
  BY <1>0, <1>6, SumsNat
<1>9. r = [sqrtP |-> sqrtP, at |-> s.at, left |-> s.left - in, total |-> total,
           fee |-> fee, feeDistributed |-> s.feeDistributed + part, deltas |-> more]
  <2>1. s = [sqrtP |-> s.sqrtP, at |-> s.at, left |-> s.left, total |-> total, fee |-> fee,
             feeDistributed |-> s.feeDistributed, deltas |-> s.deltas]
    BY <1>1 DEF WalkStates, Accounts
  <2>2. r = [s EXCEPT !.sqrtP = sqrtP, !.left = s.left - in,
                      !.feeDistributed = s.feeDistributed + part, !.deltas = more]
    BY DEF Step, more, d, DeltaOf
  <2> HIDE DEF more
  <2> DEFINE a == s.sqrtP
             b == s.at
             c == s.left
             e == s.feeDistributed
             g == s.deltas
  <2>3. /\ s = [sqrtP |-> a, at |-> b, left |-> c, total |-> total, fee |-> fee,
                feeDistributed |-> e, deltas |-> g]
        /\ r = [s EXCEPT !.sqrtP = sqrtP, !.left = c - in, !.feeDistributed = e + part,
                         !.deltas = more]
    BY <2>1, <2>2
  <2> HIDE DEF a, b, c, e, g
  <2>4. r = [sqrtP |-> sqrtP, at |-> b, left |-> c - in, total |-> total,
             fee |-> fee, feeDistributed |-> e + part, deltas |-> more]
    BY <2>3
  <2> QED BY <2>4 DEF b, c, e
<1> HIDE DEF more
<1>10. r \in WalkStates
  <2>1. s.left - in \in Nat /\ s.feeDistributed + part \in Nat /\ s.at \in Int
    BY <1>6
  <2> QED BY <1>0, <1>7, <1>9, <2>1 DEF WalkStates
<1>11. /\ Len(s.deltas) \in Nat /\ DOMAIN s.deltas = 1..Len(s.deltas)
       /\ DOMAIN more = 1..(Len(s.deltas) + 1)
       /\ \A k \in DOMAIN s.deltas : more[k] = s.deltas[k]
       /\ more[Len(s.deltas) + 1] = d
  <2> DEFINE g == s.deltas
             n == Len(g)
  <2>1. g \in Seq(DeltaRecords) /\ more = Append(g, d) /\ d \in DeltaRecords
    BY <1>5, <1>6 DEF more
  <2> HIDE DEF g, DeltaRecords
  <2>2. /\ n \in Nat /\ DOMAIN g = 1..n /\ DOMAIN more = 1..(n + 1)
        /\ \A k \in DOMAIN g : more[k] = g[k]
        /\ more[n + 1] = d
    BY <2>1
  <2> QED BY <2>2 DEF g
<1>12. \A k \in DOMAIN more :
         \/ k \in DOMAIN s.deltas /\ more[k] = s.deltas[k]
         \/ k = Len(s.deltas) + 1 /\ more[k] = d
  BY <1>11
<1>13. Accounts(pool, total, fee, r)
  <2>1. InSum(s.deltas) + s.left = total /\ RecoveredSum(pool, s.deltas) <= s.feeDistributed
    BY <1>1 DEF Accounts
  <2>2. InSum(more) + (s.left - in) = total
    BY <1>0, <1>6, <1>7, <1>8, <2>1
  <2>3. RecoveredSum(pool, more) <= s.feeDistributed + part
    <3> DEFINE given == RecoveredSum(pool, s.deltas)
               share == mulDiv(feeInc, l, SCALE)
    <3>1. given \in Nat /\ given <= s.feeDistributed /\ share \in Nat /\ share <= part
      BY <1>3, <1>8, <2>1
    <3>2. RecoveredSum(pool, more) = given + share
      BY <1>7
    <3> HIDE DEF given, share
    <3> QED BY <1>6, <3>1, <3>2
  <2>4. \A k \in DOMAIN more : pool.buckets[more[k].bucket].liquidity # 0
    <3>1. \A k \in DOMAIN s.deltas : pool.buckets[s.deltas[k].bucket].liquidity # 0
      BY <1>1 DEF Accounts
    <3> QED BY <1>0, <1>5, <1>12, <3>1
  <2> QED BY <1>0, <1>9, <2>2, <2>3, <2>4 DEF Accounts
<1>14. \A k \in DOMAIN s.deltas : s.deltas[k].bucket # s.at
  <2>1. ASSUME NEW k \in DOMAIN s.deltas PROVE s.deltas[k].bucket # s.at
    <3>1. s.deltas[k] \in DeltaRecords
      BY <1>0, <1>6, <1>11, DeltaTypes
    <3>2. s.deltas[k].bucket \in Int /\ s.at \in Int
      BY <1>0, <3>1, GridFacts DEF DeltaRecords
    <3> QED BY <1>1, <3>2
  <2> QED BY <2>1
<1>15. \A j, k \in DOMAIN more : more[j].bucket = more[k].bucket => j = k
  BY <1>1, <1>5, <1>12, <1>14
<1> QED BY <1>5, <1>9, <1>10, <1>12, <1>13, <1>15 DEF d, more, Stepped

\* An empty bucket is passed over.
LEMMA VisitEmpty ==
  ASSUME NEW pool \in PoolRecords, NEW up \in BOOLEAN, NEW total \in Nat, NEW fee \in Nat,
         NEW s \in Walks(pool, up, total, fee), s.left # 0, s.at \in DOMAIN Grid,
         pool.buckets[s.at].liquidity = 0
  PROVE  Visit(pool, up, s) \in Walks(pool, up, total, fee)
<1> DEFINE r == Visit(pool, up, s)
<1>1. /\ s \in WalkStates /\ Accounts(pool, total, fee, s) /\ Placed(up, s)
      /\ Underway(pool, up, s)
  BY DEF Walks
<1>2. pool.bounds = Grid
  BY DEF PoolRecords
<1>3. r = [s EXCEPT !.sqrtP = EdgeOf(up, s.at), !.at = NextBucket(up, s.at)]
  BY <1>2 DEF Visit, EdgeOf, NextBucket
<1> DEFINE edge == EdgeOf(up, s.at)
           next == NextBucket(up, s.at)
<1>4. /\ edge \in Nat /\ edge <= Top /\ next \in Int
      /\ next \in DOMAIN Grid => Inside(edge, next)
      /\ \A p \in Nat :
              /\ next \in DOMAIN Grid /\ Past(up, p, s.at) => Past(up, p, next)
              /\ next \in DOMAIN Grid /\ Inside(p, s.at) /\ p # edge => Past(up, p, next)
  BY Adjoining
<1>5. next = IF up THEN s.at + 1 ELSE s.at - 1
  BY DEF NextBucket
<1> HIDE DEF edge, next
<1>6. /\ r \in WalkStates /\ r.sqrtP = edge /\ r.at = next /\ r.left = s.left
      /\ r.total = s.total /\ r.fee = s.fee /\ r.feeDistributed = s.feeDistributed
      /\ r.deltas = s.deltas
  BY <1>1, <1>3, <1>4 DEF WalkStates, edge, next
<1> HIDE DEF r
<1>7. s.left \in Nat /\ s.left > 0 /\ s.at \in Int /\ pool.sqrtP \in Nat
  BY <1>1 DEF WalkStates, PoolRecords
<1>8. Accounts(pool, total, fee, r)
  BY <1>1, <1>6 DEF Accounts
<1>9. Placed(up, r)
  <2>1. ASSUME NEW k \in DOMAIN s.deltas
        PROVE  IF up THEN s.deltas[k].bucket < next ELSE next < s.deltas[k].bucket
    <3>1. s.deltas[k] \in DeltaRecords
      BY <1>1, DeltaTypes DEF WalkStates
    <3>2. s.deltas[k].bucket \in Int
      BY <3>1, GridFacts DEF DeltaRecords
    <3>3. IF up THEN s.deltas[k].bucket < s.at ELSE s.at < s.deltas[k].bucket
      BY <1>1, <1>7 DEF Placed
    <3> QED BY <1>5, <1>7, <3>2, <3>3
  <2> QED BY <1>1, <1>4, <1>6, <2>1 DEF Placed
<1>10. Underway(pool, up, r)
  <2>1. CASE s.sqrtP = pool.sqrtP /\ \A k \in DOMAIN s.deltas : IsNoOp(s.deltas[k])
    <3>1. Inside(pool.sqrtP, s.at)
      BY <1>1, <1>7, <2>1 DEF Placed
    <3>2. pool.sqrtP = edge \/ (next \in DOMAIN Grid => Past(up, pool.sqrtP, next))
      BY <1>4, <1>7, <3>1
    <3> QED BY <1>6, <2>1, <3>2 DEF Underway
  <2>2. CASE s.at \in DOMAIN Grid => Past(up, pool.sqrtP, s.at)
    <3>1. next \in DOMAIN Grid => Past(up, pool.sqrtP, next)
      BY <1>4, <1>7, <2>2
    <3> QED BY <1>6, <3>1 DEF Underway
  <2> QED BY <1>1, <1>7, <2>1, <2>2 DEF Underway
<1>11. Finished(pool, up, total, r)
  BY <1>6 DEF Finished
<1> QED BY <1>6, <1>8, <1>9, <1>10, <1>11 DEF Walks, r

\* A bucket with room for all that is left ends the walk.
LEMMA VisitLast ==
  ASSUME NEW pool \in PoolRecords, NEW up \in BOOLEAN, NEW total \in Nat, NEW fee \in Nat,
         NEW s \in Walks(pool, up, total, fee), s.left # 0, s.at \in DOMAIN Grid,
         pool.buckets[s.at].liquidity # 0,
         s.left <= Room(up, pool.buckets[s.at].liquidity, s.sqrtP, Grid[s.at])
  PROVE  Visit(pool, up, s) \in Walks(pool, up, total, fee)
<1> DEFINE l == pool.buckets[s.at].liquidity
           q == NextSqrtP(up, l, s.sqrtP, s.left)
           out == StepOut(up, l, s.sqrtP, q)
           part == s.fee - s.feeDistributed
           r == Visit(pool, up, s)
           d == DeltaOf(pool, up, s, s.left, q, part)
<1>1. /\ s \in WalkStates /\ Accounts(pool, total, fee, s) /\ Placed(up, s)
      /\ Underway(pool, up, s)
  BY DEF Walks
<1>2. pool.bounds = Grid /\ l \in Nat \ {0} /\ pool.sqrtP \in Nat
  BY DEF PoolRecords
<1>3. /\ s.left \in Nat /\ s.left > 0 /\ s.sqrtP \in Nat /\ s.at \in Int
      /\ s.feeDistributed \in Nat /\ s.fee = fee /\ s.feeDistributed <= fee
      /\ InSum(s.deltas) + s.left = total /\ s.deltas \in Seq(DeltaRecords)
  BY <1>1 DEF WalkStates, Accounts
<1>4. Inside(s.sqrtP, s.at)
  BY <1>1, <1>3 DEF Placed
<1>5. /\ Grid[s.at].lower \in Nat /\ Grid[s.at].lower * Grid[s.at].lower >= SCALE
      /\ Grid[s.at].upper \in Nat /\ Grid[s.at].upper <= Top /\ Top \in Nat
  BY GridFacts
<1>6. r = Step(pool, up, s, s.left, q, part)
  BY <1>2 DEF Visit
<1>7. q \in 0..Grid[s.at].upper /\ (up => s.sqrtP <= q) /\ (~ up => q <= s.sqrtP)
  BY <1>2, <1>3, <1>4, NextPrice DEF Inside
<1> HIDE DEF q
<1>8. out \in Nat
  <2> DEFINE e == Grid[s.at].lower
             p == s.sqrtP
  <2>1. e \in Nat /\ e * e >= SCALE /\ p \in Nat /\ q \in Nat /\ e <= p
        /\ (up => p <= q) /\ (~ up => q <= p) /\ l \in Nat
    BY <1>2, <1>3, <1>4, <1>5, <1>7 DEF Inside
  <2> HIDE DEF e, p, l
  <2>2. StepOut(up, l, p, q) \in Nat
    BY <2>1, StepOutNat
  <2> QED BY <2>2 DEF p
<1>9. part \in Nat /\ s.feeDistributed + part = fee /\ s.left - s.left = 0
  BY <1>3
<1>10. fee * total <= fee * (total - 0)
  OBVIOUS
<1> HIDE DEF part, out, r
<1>11. /\ d \in DeltaRecords
       /\ r = [sqrtP |-> q, at |-> s.at, left |-> s.left - s.left, total |-> total,
               fee |-> fee, feeDistributed |-> s.feeDistributed + part,
               deltas |-> Append(s.deltas, d)]
       /\ r \in WalkStates /\ Accounts(pool, total, fee, r)
       /\ \A j, k \in DOMAIN r.deltas : r.deltas[j].bucket = r.deltas[k].bucket => j = k
  <2> HIDE DEF l
  <2>1. CanStep(pool, up, total, fee, s, s.left, q, part)
    <3>1. /\ s.left <= s.left /\ s.feeDistributed + part <= fee
          /\ (s.feeDistributed + part) * total <= fee * (total - (s.left - s.left))
      BY <1>3, <1>9, <1>10
    <3>2. q \in Nat
      BY <1>5, <1>7
    <3>3. pool.buckets[s.at].liquidity # 0 /\ StepOut(up, pool.buckets[s.at].liquidity, s.sqrtP, q) \in Nat
      BY <1>8 DEF out, l
    <3> QED BY <1>3, <1>9, <3>1, <3>2, <3>3, Zenon DEF CanStep
  <2>2. Stepped(pool, up, total, fee, s, s.left, q, part, r)
    BY <1>6, <2>1, StepBooks
  <2> QED BY <2>2 DEF Stepped
<1> HIDE DEF d
<1>12. r.sqrtP = q /\ r.left = 0 /\ r.deltas = Append(s.deltas, d)
  BY <1>9, <1>11
<1>13. Placed(up, r)
  <2>1. r.sqrtP <= Top /\ ~ (r.left > 0)
    BY <1>5, <1>7, <1>12
  <2>2. \A j, k \in DOMAIN r.deltas : r.deltas[j].bucket = r.deltas[k].bucket => j = k
    BY <1>11
  <2> QED BY <2>1, <2>2, Zenon DEF Placed
<1>14. Underway(pool, up, r)
  BY <1>12 DEF Underway
<1>15. Finished(pool, up, total, r)
  <2> DEFINE n == Len(s.deltas)
             ds == r.deltas
  <2>1. /\ n \in Nat /\ DOMAIN s.deltas = 1..n /\ Len(ds) = n + 1 /\ ds[n + 1] = d
        /\ \A k \in 1..n : ds[k] = s.deltas[k]
    <3> DEFINE g == s.deltas
    <3>1. g \in Seq(DeltaRecords) /\ ds = Append(g, d) /\ d \in DeltaRecords
      BY <1>3, <1>11, <1>12
    <3> HIDE DEF g, DeltaRecords, ds
    <3> QED BY <3>1 DEF g
  <2> HIDE DEF n, ds
  <2>2. d.bucket = s.at /\ d.in = s.left /\ d.out = out
    BY DEF d, DeltaOf, out, l
  <2>3. total # 0
    <3>1. InSum(s.deltas) \in Nat
      BY <1>3, SumsNat
    <3> QED BY <1>3, <3>1
  <2>4. ASSUME Inside(pool.sqrtP, s.at)
        PROVE  /\ \A k \in 1..n : IsNoOp(ds[k])
               /\ s.sqrtP = pool.sqrtP
    <3>1. ~ Past(up, pool.sqrtP, s.at)
      BY <1>2, <1>5, <2>4 DEF Inside, Past
    <3>2. s.sqrtP = pool.sqrtP /\ \A k \in DOMAIN s.deltas : IsNoOp(s.deltas[k])
      BY <1>1, <1>3, <3>1 DEF Underway
    <3> QED BY <2>1, <3>2
  <2>5. n + 1 > 0 /\ (n + 1) - 1 = n
    BY <2>1
  <2>6. OneStep(pool, up, q, ds)
    BY <1>3, <2>1, <2>2, <2>4, <2>5 DEF OneStep, q, out, l
  <2> QED BY <1>12, <2>3, <2>6 DEF Finished, ds
<1> QED BY <1>11, <1>13, <1>14, <1>15 DEF Walks, r

\* A finite set of numbers has its least and its greatest member.
LEMMA LeastIn ==
  ASSUME NEW S, S \subseteq Int, IsFiniteSet(S), S # {}
  PROVE  Min(S) \in S /\ \A x \in S : Min(S) <= x
<1> DEFINE P == {s \in SUBSET S : s = {} \/ \E x \in s : \A y \in s : x <= y}
<1>1. {} \in P
  OBVIOUS
<1>2. ASSUME NEW s \in SUBSET S, NEW x \in s, s \ {x} \in P PROVE s \in P
  <2>1. CASE s \ {x} = {}
    <3>1. \A y \in s : x <= y
      BY <2>1
    <3> QED BY <3>1
  <2>2. CASE s \ {x} # {}
    <3>1. PICK z \in s \ {x} : \A y \in s \ {x} : z <= y
      BY <1>2, <2>2
    <3>2. x \in Int /\ z \in Int
      OBVIOUS
    <3>3. CASE z <= x
      <4>1. \A y \in s : z <= y
        BY <3>1, <3>3
      <4> QED BY <4>1
    <3>4. CASE ~ (z <= x)
      <4>1. \A y \in s : x <= y
        <5>1. ASSUME NEW y \in s, y # x PROVE x <= y
          <6>1. z <= y /\ y \in Int
            BY <3>1, <5>1
          <6> QED BY <3>2, <3>4, <6>1
        <5> QED BY <3>2, <5>1
      <4> QED BY <4>1
    <3> QED BY <3>3, <3>4
  <2> QED BY <2>1, <2>2
<1>3. S \in P
  <2>1. \A s \in SUBSET S : \A x \in s : s \ {x} \in P => s \in P
    BY <1>2
  <2> HIDE DEF P
  <2> QED BY <1>1, <2>1, ElementInduction
<1>4. \E x \in S : \A y \in S : x <= y
  BY <1>3
<1> QED BY <1>4 DEF Min

\* A bucket without the room takes what it can, up to its edge.
LEMMA VisitPass ==
  ASSUME NEW pool \in PoolRecords, NEW up \in BOOLEAN, NEW total \in Nat, NEW fee \in Nat,
         NEW s \in Walks(pool, up, total, fee), s.left # 0, s.at \in DOMAIN Grid,
         pool.buckets[s.at].liquidity # 0,
         ~ (s.left <= Room(up, pool.buckets[s.at].liquidity, s.sqrtP, Grid[s.at]))
  PROVE  Visit(pool, up, s) \in Walks(pool, up, total, fee)
<1> DEFINE l == pool.buckets[s.at].liquidity
           room == Room(up, l, s.sqrtP, Grid[s.at])
           edge == EdgeOf(up, s.at)
           next == NextBucket(up, s.at)
           out == StepOut(up, l, s.sqrtP, edge)
           part == mulDiv(s.fee, room, s.total)
           m == Step(pool, up, s, room, edge, part)
           r == Visit(pool, up, s)
           d == DeltaOf(pool, up, s, room, edge, part)
<1>1. /\ s \in WalkStates /\ Accounts(pool, total, fee, s) /\ Placed(up, s)
      /\ Underway(pool, up, s)
  BY DEF Walks
<1>2. pool.bounds = Grid /\ l \in Nat \ {0} /\ pool.sqrtP \in Nat
  BY DEF PoolRecords
<1>3. /\ s.left \in Nat /\ s.left > 0 /\ s.sqrtP \in Nat /\ s.at \in Int
      /\ s.feeDistributed \in Nat /\ s.fee = fee /\ s.total = total /\ s.feeDistributed <= fee
      /\ s.feeDistributed * total <= fee * (total - s.left)
      /\ InSum(s.deltas) + s.left = total /\ s.deltas \in Seq(DeltaRecords)
  BY <1>1 DEF WalkStates, Accounts
<1>4. Inside(s.sqrtP, s.at)
  BY <1>1, <1>3 DEF Placed
<1>5. /\ Grid[s.at].lower \in Nat /\ Grid[s.at].lower * Grid[s.at].lower >= SCALE
      /\ Grid[s.at].upper \in Nat
  BY GridFacts
<1>6. r = [m EXCEPT !.at = next]
  BY <1>2 DEF Visit, EdgeOf, NextBucket
<1>7. /\ edge \in Nat /\ edge <= Top /\ next \in Int
      /\ next \in DOMAIN Grid => Inside(edge, next)
      /\ \A p \in Nat :
              /\ next \in DOMAIN Grid /\ Past(up, p, s.at) => Past(up, p, next)
              /\ next \in DOMAIN Grid /\ Inside(p, s.at) /\ p # edge => Past(up, p, next)
  BY Adjoining
<1>8. edge = (IF up THEN Grid[s.at].upper ELSE Grid[s.at].lower)
  BY DEF EdgeOf
<1>9. room \in Nat /\ (s.sqrtP = edge => room = 0)
  <2> DEFINE p == s.sqrtP
             i == s.at
  <2>1. /\ l \in Nat /\ i \in DOMAIN Grid /\ p \in Nat /\ Grid[i].lower <= p /\ p <= Grid[i].upper
    BY <1>2, <1>3, <1>4 DEF Inside
  <2> HIDE DEF p, i, l
  <2>2. /\ Room(up, l, p, Grid[i]) \in Nat
        /\ p = (IF up THEN Grid[i].upper ELSE Grid[i].lower) => Room(up, l, p, Grid[i]) = 0
    BY <2>1, RoomNat
  <2> QED BY <1>8, <2>2 DEF p, i
<1>10. next = IF up THEN s.at + 1 ELSE s.at - 1
  BY DEF NextBucket
<1>11. room < s.left
  BY <1>3, <1>9
<1> HIDE DEF room, edge, next
<1>12. out \in Nat /\ (s.sqrtP = edge => out = 0)
  <2> DEFINE e == Grid[s.at].lower
             p == s.sqrtP
  <2>1. /\ e \in Nat /\ e * e >= SCALE /\ p \in Nat /\ edge \in Nat /\ e <= p
        /\ (up => p <= edge) /\ (~ up => edge <= p) /\ l \in Nat
    BY <1>2, <1>3, <1>4, <1>5, <1>7, <1>8 DEF Inside
  <2> HIDE DEF e, p, l
  <2>2. StepOut(up, l, p, edge) \in Nat /\ (edge = p => StepOut(up, l, p, edge) = 0)
    BY <2>1, StepOutNat
  <2> QED BY <2>2 DEF p
<1>13. InSum(s.deltas) \in Nat
  BY <1>3, SumsNat
<1>14. total \in Nat \ {0} /\ s.left <= total
  BY <1>3, <1>13
<1>15. /\ part \in Nat
       /\ (s.feeDistributed + part) * total <= fee * (total - (s.left - room))
       /\ s.feeDistributed + part <= fee
  <2> DEFINE left == s.left
             given == s.feeDistributed
  <2>1. /\ left \in Nat /\ left <= total /\ left > 0 /\ room \in Nat /\ room <= left
        /\ given \in Nat /\ given * total <= fee * (total - left)
    BY <1>3, <1>9, <1>11, <1>14
  <2> HIDE DEF left, given
  <2>2. /\ mulDiv(fee, room, total) \in Nat
        /\ (given + mulDiv(fee, room, total)) * total <= fee * (total - (left - room))
        /\ given + mulDiv(fee, room, total) <= fee
    BY <2>1, FeeParts
  <2>3. part = mulDiv(fee, room, total)
    BY <1>3
  <2> QED BY <2>2, <2>3 DEF left, given
<1>16. room = 0 => part = 0
  <2>1. fee * 0 = 0 /\ 0 \div total = 0
    BY <1>14
  <2> QED BY <1>3, <2>1 DEF mulDiv
<1> HIDE DEF part, out, r
<1>17. /\ d \in DeltaRecords
       /\ m = [sqrtP |-> edge, at |-> s.at, left |-> s.left - room, total |-> total,
               fee |-> fee, feeDistributed |-> s.feeDistributed + part,
               deltas |-> Append(s.deltas, d)]
       /\ m \in WalkStates /\ Accounts(pool, total, fee, m)
       /\ \A j, k \in DOMAIN m.deltas : m.deltas[j].bucket = m.deltas[k].bucket => j = k
       /\ \A k \in DOMAIN m.deltas :
            \/ k \in DOMAIN s.deltas /\ m.deltas[k] = s.deltas[k]
            \/ k = Len(s.deltas) + 1 /\ m.deltas[k] = d
  <2> HIDE DEF l, m
  <2>1. CanStep(pool, up, total, fee, s, room, edge, part)
    BY <1>2, <1>3, <1>7, <1>9, <1>11, <1>12, <1>15 DEF out, l, CanStep
  <2>2. Stepped(pool, up, total, fee, s, room, edge, part, m)
    BY <2>1, StepBooks DEF m
  <2> QED BY <2>2 DEF Stepped
<1>18. d.bucket = s.at /\ d.in = room /\ d.out = out /\ (room = 0 => d.feeInc = 0)
  <2>1. d = [bucket |-> s.at, in |-> room, out |-> out, feeInc |-> mulDiv(part, SCALE, l)]
    BY DEF d, DeltaOf, out, l
  <2>2. part = 0 => mulDiv(part, SCALE, l) = 0
    <3>1. 0 * SCALE = 0 /\ 0 \div l = 0
      BY <1>2, SwapConstants
    <3> QED BY <3>1 DEF mulDiv
  <2> HIDE DEF d
  <2> QED BY <1>16, <2>1, <2>2
<1> HIDE DEF d, m
<1>19. /\ r \in WalkStates /\ r.sqrtP = edge /\ r.at = next /\ r.left = s.left - room
       /\ r.total = m.total /\ r.fee = m.fee /\ r.feeDistributed = m.feeDistributed
       /\ r.deltas = m.deltas
  BY <1>6, <1>7, <1>17 DEF WalkStates
<1>20. r.left > 0
  BY <1>3, <1>9, <1>11, <1>19
<1>21. Accounts(pool, total, fee, r)
  <2>1. m.left = r.left
    BY <1>17, <1>19
  <2> QED BY <1>17, <1>19, <2>1 DEF Accounts
<1>22. Placed(up, r)
  <2>1. ASSUME NEW k \in DOMAIN m.deltas
        PROVE  IF up THEN m.deltas[k].bucket < next ELSE next < m.deltas[k].bucket
    <3>1. CASE k \in DOMAIN s.deltas /\ m.deltas[k] = s.deltas[k]
      <4>1. s.deltas[k] \in DeltaRecords
        BY <1>3, <3>1, DeltaTypes
      <4>2. s.deltas[k].bucket \in Int
        BY <4>1, GridFacts DEF DeltaRecords
      <4>3. IF up THEN s.deltas[k].bucket < s.at ELSE s.at < s.deltas[k].bucket
        BY <1>1, <1>3, <3>1 DEF Placed
      <4> QED BY <1>3, <1>10, <3>1, <4>2, <4>3
    <3>2. CASE m.deltas[k] = d
      BY <1>3, <1>10, <1>18, <3>2
    <3> QED BY <1>17, <3>1, <3>2
  <2> QED BY <1>7, <1>17, <1>19, <2>1 DEF Placed
<1>23. Underway(pool, up, r)
  <2>1. CASE s.sqrtP = pool.sqrtP /\ \A k \in DOMAIN s.deltas : IsNoOp(s.deltas[k])
    <3>1. CASE pool.sqrtP = edge
      <4>1. IsNoOp(d)
        BY <1>9, <1>12, <1>18, <2>1, <3>1 DEF IsNoOp
      <4>2. \A k \in DOMAIN m.deltas : IsNoOp(m.deltas[k])
        BY <1>17, <2>1, <4>1
      <4> QED BY <1>19, <3>1, <4>2 DEF Underway
    <3>2. CASE pool.sqrtP # edge
      <4>1. next \in DOMAIN Grid => Past(up, pool.sqrtP, next)
        BY <1>2, <1>4, <1>7, <2>1, <3>2
      <4> QED BY <1>19, <4>1 DEF Underway
    <3> QED BY <3>1, <3>2
  <2>2. CASE s.at \in DOMAIN Grid => Past(up, pool.sqrtP, s.at)
    <3>1. next \in DOMAIN Grid => Past(up, pool.sqrtP, next)
      BY <1>2, <1>7, <2>2
    <3> QED BY <1>19, <3>1 DEF Underway
  <2> QED BY <1>1, <1>3, <2>1, <2>2 DEF Underway
<1>24. Finished(pool, up, total, r)
  BY <1>20 DEF Finished
<1> QED BY <1>19, <1>21, <1>22, <1>23, <1>24 DEF Walks, r

\* Whatever the bucket holds, visiting it keeps what is known of the walk.
LEMMA VisitKeeps ==
  ASSUME NEW pool \in PoolRecords, NEW up \in BOOLEAN, NEW total \in Nat, NEW fee \in Nat,
         NEW s \in Walks(pool, up, total, fee), s.left # 0, s.at \in DOMAIN Grid
  PROVE  Visit(pool, up, s) \in Walks(pool, up, total, fee)
BY VisitEmpty, VisitLast, VisitPass

\* The walk starts where the price is.
LEMMA WalkStart ==
  ASSUME NEW pool \in PoolRecords, Contained(pool), NEW up \in BOOLEAN,
         NEW total \in Nat, NEW fee \in Nat, NEW s,
         s = [sqrtP |-> pool.sqrtP, at |-> StartBucket(pool), left |-> total,
              total |-> total, fee |-> fee, feeDistributed |-> 0, deltas |-> <<>>]
  PROVE  s \in Walks(pool, up, total, fee)
<1> DEFINE i == StartBucket(pool)
<1>1. pool.bounds = Grid /\ pool.sqrtP \in Nat
  BY DEF PoolRecords
<1>2. /\ DOMAIN Grid = 1..Len(Grid) /\ Len(Grid) \in Nat \ {0} /\ Top \in Nat
      /\ \A j \in DOMAIN Grid : /\ Grid[j].lower \in Nat /\ Grid[j].upper \in Nat
                                /\ Grid[j].upper <= Top
  BY GridFacts
<1>3. i \in DOMAIN Grid
  <2> DEFINE at == {j \in DOMAIN Grid : Grid[j].lower <= pool.sqrtP /\ pool.sqrtP < Grid[j].upper}
  <2>1. i = IF at # {} THEN Min(at)
            ELSE IF pool.sqrtP < Grid[1].lower THEN 1 ELSE Len(Grid)
    BY <1>1 DEF StartBucket
  <2>2. 1 \in DOMAIN Grid /\ Len(Grid) \in DOMAIN Grid
    BY <1>2
  <2>3. at # {} => Min(at) \in at
    <3>1. at \subseteq 1..Len(Grid) /\ IsFiniteSet(1..Len(Grid))
      BY <1>2, FS_Interval
    <3>2. at \subseteq Int /\ IsFiniteSet(at)
      BY <3>1, FS_Subset
    <3> HIDE DEF at
    <3> QED BY <3>2, LeastIn
  <2> QED BY <2>1, <2>2, <2>3
<1>4. Inside(pool.sqrtP, i)
  BY <1>1 DEF Contained, Inside
<1> HIDE DEF i
<1>5. /\ s \in WalkStates /\ s.sqrtP = pool.sqrtP /\ s.at = i /\ s.left = total
      /\ s.total = total /\ s.fee = fee /\ s.feeDistributed = 0 /\ s.deltas = <<>>
  <2>1. <<>> \in Seq(DeltaRecords) /\ i \in Int
    BY <1>2, <1>3
  <2> HIDE DEF DeltaRecords
  <2> QED BY <1>1, <2>1 DEF WalkStates, i
<1>6. Accounts(pool, total, fee, s)
  <2>1. InSum(<<>>) = 0 /\ RecoveredSum(pool, <<>>) = 0
    BY SumsEmpty
  <2>2. 0 * total <= fee * (total - total)
    OBVIOUS
  <2> QED BY <1>5, <2>1, <2>2 DEF Accounts
<1>7. pool.sqrtP <= Top
  BY <1>1, <1>2, <1>3, <1>4 DEF Inside
<1>8. DOMAIN s.deltas = {}
  BY <1>5
<1>9. Placed(up, s)
  BY <1>4, <1>5, <1>7, <1>8 DEF Placed
<1>10. Underway(pool, up, s)
  BY <1>5, <1>8 DEF Underway
<1>11. Finished(pool, up, total, s)
  BY <1>5 DEF Finished
<1> QED BY <1>5, <1>6, <1>9, <1>10, <1>11 DEF Walks

-----------------------------------------------------------------------------
(* Traces.                                                                 *)

IsWalk(pool, up, gross, walk) ==
  LET start == [sqrtP |-> pool.sqrtP, at |-> StartBucket(pool), left |-> AfterFee(gross),
                total |-> AfterFee(gross), fee |-> gross - AfterFee(gross),
                feeDistributed |-> 0, deltas |-> <<>>]
  IN walk = [n \in 0..Len(pool.bounds) |->
       IF n = 0 THEN start
       ELSE LET s == walk[n - 1]
            IN IF s.left = 0 \/ s.at \notin DOMAIN pool.bounds THEN s
               ELSE Visit(pool, up, s)]

\* traceBucketSwap returns the last state of its walk.
LEMMA TraceIsWalk ==
  ASSUME NEW pool, NEW up, NEW gross
  PROVE  traceBucketSwap(pool, up, gross)
           = Trace(up, (CHOOSE walk : IsWalk(pool, up, gross, walk))[Len(pool.bounds)])
BY DEF traceBucketSwap, IsWalk

\* A trace is where the walk ends.
LEMMA WalkEnds ==
  ASSUME NEW pool \in PoolRecords, Contained(pool), NEW up \in BOOLEAN, NEW gross \in Nat
  PROVE  \E s \in Walks(pool, up, AfterFee(gross), gross - AfterFee(gross)) :
           traceBucketSwap(pool, up, gross) = Trace(up, s)
<1> DEFINE total == AfterFee(gross)
           fee == gross - total
           D == Walks(pool, up, total, fee)
           start == [sqrtP |-> pool.sqrtP, at |-> StartBucket(pool), left |-> total,
                     total |-> total, fee |-> fee, feeDistributed |-> 0, deltas |-> <<>>]
           n == Len(Grid)
           turn == [s \in D |-> IF s.left = 0 \/ s.at \notin DOMAIN Grid THEN s
                                ELSE Visit(pool, up, s)]
           next == [k \in 1..n |-> turn]
<1>1. total \in Nat /\ fee \in Nat
  BY FeeIsWithinCeiling
<1>2. pool.bounds = Grid /\ n \in Nat
  BY GridFacts DEF PoolRecords
<1> HIDE DEF total, fee
<1>3. start \in D
  BY <1>1, WalkStart
<1>4. turn \in [D -> D]
  <2>1. ASSUME NEW s \in D
        PROVE  (IF s.left = 0 \/ s.at \notin DOMAIN Grid THEN s ELSE Visit(pool, up, s)) \in D
    BY <1>1, VisitKeeps
  <2> HIDE DEF D
  <2> QED BY <2>1
<1> HIDE DEF turn
<1>5. next \in [1..n -> [D -> D]]
  BY <1>4
<1> HIDE DEF D, start, next, n
<1>6. Recursion(n, D, start, next)
  BY <1>2, <1>3, <1>5 DEF Recursion
<1>7. PICK r : Follows(r, n, D, start, next)
  BY <1>6, Iterates
<1>8. r \in [0..n -> D] /\ r[0] = start /\ \A k \in 1..n : r[k] = next[k][r[k - 1]]
  BY <1>7 DEF Follows
<1>9. ASSUME NEW k \in 0..n
      PROVE  r[k] = IF k = 0 THEN start
                    ELSE LET s == r[k - 1]
                         IN IF s.left = 0 \/ s.at \notin DOMAIN Grid THEN s ELSE Visit(pool, up, s)
  <2>1. CASE k = 0
    BY <1>8, <2>1
  <2>2. CASE k # 0
    <3>1. k \in 1..n /\ k - 1 \in 0..n
      BY <1>2, <2>2
    <3>2. r[k] = turn[r[k - 1]] /\ r[k - 1] \in D
      BY <1>8, <3>1 DEF next
    <3> QED BY <2>2, <3>2 DEF turn
  <2> QED BY <2>1, <2>2
<1>10. IsWalk(pool, up, gross, r)
  <2>1. r = [k \in 0..n |-> r[k]]
    BY <1>8
  <2> QED BY <1>2, <1>9, <2>1 DEF IsWalk, start, total, fee, n
<1> DEFINE w == CHOOSE walk : IsWalk(pool, up, gross, walk)
<1>11. IsWalk(pool, up, gross, w)
  BY <1>10
<1> HIDE DEF w
<1>12. \A k \in 0..n : w[k] = IF k = 0 THEN start
                    ELSE LET s == w[k - 1]
                         IN IF s.left = 0 \/ s.at \notin DOMAIN Grid THEN s ELSE Visit(pool, up, s)
  <2> DEFINE W(k) == IF k = 0 THEN start
                    ELSE LET s == w[k - 1]
                         IN IF s.left = 0 \/ s.at \notin DOMAIN Grid THEN s ELSE Visit(pool, up, s)
  <2>1. w = [k \in 0..n |-> W(k)]
    BY <1>2, <1>11 DEF IsWalk, start, total, fee, n
  <2> HIDE DEF W
  <2>2. \A k \in 0..n : w[k] = W(k)
    BY <2>1
  <2> QED BY <2>2 DEF W
<1>13. w[0] \in D
  BY <1>2, <1>3, <1>12
<1>14. ASSUME NEW k \in 1..n, w[k - 1] \in D PROVE w[k] \in D
  <2>1. k \in 0..n /\ k # 0
    BY <1>2
  <2>2. w[k] = IF w[k - 1].left = 0 \/ w[k - 1].at \notin DOMAIN Grid THEN w[k - 1]
               ELSE Visit(pool, up, w[k - 1])
    BY <1>12, <2>1
  <2> QED BY <1>1, <1>14, <2>2, VisitKeeps DEF D
<1>15. w[n] \in D
  <2>1. \A k \in 1..n : w[k - 1] \in D => w[k] \in D
    BY <1>14
  <2>2. \A k \in 0..n : w[k] \in D
    BY <1>2, <1>13, <2>1, StaysIn
  <2> QED BY <1>2, <2>2
<1>16. traceBucketSwap(pool, up, gross) = Trace(up, w[n])
  BY <1>2, TraceIsWalk DEF w, n
<1> QED BY <1>15, <1>16 DEF D, total, fee

\* What a step of the trace does when it is the one that moves the price.
Moves(pool, t, k) ==
  LET d == t.deltas[k]
      l == pool.buckets[d.bucket].liquidity
  IN /\ \A j \in DOMAIN t.deltas : j # k => IsNoOp(t.deltas[j])
     /\ t.sqrtP = NextSqrtP(t.up, l, pool.sqrtP, d.in)
     /\ d.out = StepOut(t.up, l, pool.sqrtP, t.sqrtP)

\* What is known of the trace of a swap that puts gross in, fee included.
TraceOf(pool, t, gross) ==
  /\ t.up \in BOOLEAN /\ t.sqrtP \in 0..Top /\ t.deltas \in Seq(DeltaRecords)
  /\ \A j, k \in DOMAIN t.deltas : t.deltas[j].bucket = t.deltas[k].bucket => j = k
  /\ \A k \in DOMAIN t.deltas : pool.buckets[t.deltas[k].bucket].liquidity # 0
  /\ TotalIn(t) = AfterFee(gross) /\ TotalOut(t) \in Nat
  /\ recoverForwardedFee(pool, t) \in 0..(gross - AfterFee(gross))
  /\ IF AfterFee(gross) = 0 THEN t.deltas = <<>> /\ t.sqrtP = pool.sqrtP
     ELSE \E k \in DOMAIN t.deltas :
            /\ t.deltas[k].in > 0
            /\ Inside(pool.sqrtP, t.deltas[k].bucket) => Moves(pool, t, k)

\* The engine's totals are the sums of the steps.
LEMMA TraceSums ==
  ASSUME NEW pool, NEW t
  PROVE  /\ TotalIn(t) = InSum(t.deltas) /\ TotalOut(t) = OutSum(t.deltas)
         /\ recoverForwardedFee(pool, t) = RecoveredSum(pool, t.deltas)
<1>1. TotalIn(t) = InSum(t.deltas)
  BY DEF TotalIn, Ins, InSum, ins, Sum, SumFunction
<1>2. TotalOut(t) = OutSum(t.deltas)
  BY DEF TotalOut, Outs, OutSum, outs, Sum, SumFunction
<1>3. recoverForwardedFee(pool, t) = RecoveredSum(pool, t.deltas)
  BY DEF recoverForwardedFee, RecoveredSum, recovered, Sum, SumFunction
<1> QED BY <1>1, <1>2, <1>3

\* traceBucketSwap: a feasible trace takes the whole net input, forwards no more
\* than the fee, and moves the price within the bucket it starts in.
THEOREM TraceFacts ==
  ASSUME NEW pool \in PoolRecords, Contained(pool), NEW up \in BOOLEAN, NEW gross \in Nat,
         traceBucketSwap(pool, up, gross).feasible
  PROVE  /\ TraceOf(pool, traceBucketSwap(pool, up, gross), gross)
         /\ traceBucketSwap(pool, up, gross).up = up
<1> DEFINE total == AfterFee(gross)
           fee == gross - total
           t == traceBucketSwap(pool, up, gross)
<1>1. PICK s \in Walks(pool, up, total, fee) : t = Trace(up, s)
  BY WalkEnds
<1>2. total \in Nat /\ fee \in Nat
  BY FeeIsWithinCeiling
<1> HIDE DEF total, fee
<1> DEFINE ds == s.deltas
           n == Len(ds)
<1>3. /\ t.up = up /\ t.sqrtP = s.sqrtP /\ s.left = 0
      /\ t.deltas = IF up THEN ds ELSE Reverse(ds)
  <2>1. /\ t.up = up /\ t.sqrtP = s.sqrtP
        /\ t.deltas = IF up THEN ds ELSE Reverse(ds)
    BY <1>1 DEF Trace
  <2> DEFINE ok == s.left = 0 /\ Len(s.deltas) <= MAX_BUCKET_HOPS
             steps == IF up THEN s.deltas ELSE Reverse(s.deltas)
  <2>2. t = [feasible |-> ok, up |-> up, sqrtP |-> s.sqrtP, fee |-> s.fee, deltas |-> steps]
    BY <1>1, Zenon DEF Trace
  <2>3. t.feasible
    OBVIOUS
  <2> HIDE DEF t, ok, steps
  <2>4. ok
    BY <2>2, <2>3
  <2>5. s.left = 0
    BY <2>4 DEF ok
  <2> QED BY <2>1, <2>5 DEF t
<1> HIDE DEF t
<1>4. /\ s \in WalkStates /\ Accounts(pool, total, fee, s) /\ Placed(up, s)
      /\ Finished(pool, up, total, s)
  BY DEF Walks
<1>5. /\ ds \in Seq(DeltaRecords) /\ s.sqrtP \in 0..Top /\ InSum(ds) = total
      /\ s.feeDistributed <= fee /\ RecoveredSum(pool, ds) <= s.feeDistributed
      /\ s.feeDistributed \in Nat
      /\ \A j, k \in DOMAIN ds : ds[j].bucket = ds[k].bucket => j = k
      /\ \A k \in DOMAIN ds : pool.buckets[ds[k].bucket].liquidity # 0
  <2>1. /\ s.deltas \in Seq(DeltaRecords) /\ s.sqrtP \in Nat /\ s.feeDistributed \in Nat
    BY <1>4 DEF WalkStates
  <2>2. InSum(ds) \in Nat
    BY <2>1, SumsNat
  <2>3. InSum(ds) = total
    BY <1>3, <1>4, <2>2 DEF Accounts
  <2>4. s.sqrtP \in 0..Top
    BY <1>4, <2>1, GridFacts DEF Placed
  <2> QED BY <1>4, <2>1, <2>3, <2>4 DEF Accounts, Placed
<1>6. InSum(ds) \in Nat /\ OutSum(ds) \in Nat /\ RecoveredSum(pool, ds) \in Nat
  BY <1>5, SumsNat
<1>7. /\ Reverse(ds) \in Seq(DeltaRecords) /\ Len(Reverse(ds)) = n
      /\ \A k \in 1..n : Reverse(ds)[k] = ds[(n - k) + 1]
      /\ InSum(Reverse(ds)) = InSum(ds) /\ OutSum(Reverse(ds)) = OutSum(ds)
      /\ RecoveredSum(pool, Reverse(ds)) = RecoveredSum(pool, ds)
  BY <1>5, SumsReverse
<1>8. /\ n \in Nat /\ DOMAIN ds = 1..n /\ DOMAIN Reverse(ds) = 1..n
      /\ \A k \in 1..n : (n - k) + 1 \in 1..n
  <2>1. n \in Nat /\ DOMAIN ds = 1..n
    BY <1>5, DeltaTypes
  <2>2. DOMAIN Reverse(ds) = 1..n
    BY <1>7, DeltaTypes
  <2> QED BY <2>1, <2>2
<1> HIDE DEF ds, n
<1>9. /\ TotalIn(t) = total /\ TotalOut(t) \in Nat
      /\ recoverForwardedFee(pool, t) \in 0..fee
  <2>1. /\ InSum(t.deltas) = InSum(ds) /\ OutSum(t.deltas) = OutSum(ds)
        /\ RecoveredSum(pool, t.deltas) = RecoveredSum(pool, ds)
    BY <1>3, <1>7
  <2>2. RecoveredSum(pool, ds) \in 0..fee
    BY <1>2, <1>5, <1>6
  <2> QED BY <1>5, <1>6, <2>1, <2>2, TraceSums
<1>10. t.deltas \in Seq(DeltaRecords)
  BY <1>3, <1>5, <1>7
<1>11. \A j, k \in DOMAIN t.deltas : t.deltas[j].bucket = t.deltas[k].bucket => j = k
  <2>1. CASE up
    BY <1>3, <1>5, <2>1
  <2>2. CASE ~ up
    <3>1. ASSUME NEW j \in 1..n, NEW k \in 1..n,
                 ds[(n - j) + 1].bucket = ds[(n - k) + 1].bucket
          PROVE  j = k
      <4>1. (n - j) + 1 = (n - k) + 1
        BY <1>5, <1>8, <3>1
      <4> QED BY <1>8, <4>1
    <3>2. DOMAIN t.deltas = 1..n /\ \A k \in 1..n : t.deltas[k] = ds[(n - k) + 1]
      BY <1>3, <1>7, <1>8, <2>2
    <3> HIDE DEF t
    <3>3. ASSUME NEW j \in 1..n, NEW k \in 1..n, t.deltas[j].bucket = t.deltas[k].bucket
          PROVE  j = k
      BY <3>1, <3>2, <3>3
    <3> QED BY <3>2, <3>3
  <2> QED BY <2>1, <2>2
<1>12. \A k \in DOMAIN t.deltas : pool.buckets[t.deltas[k].bucket].liquidity # 0
  <2>1. \A k \in 1..n : pool.buckets[ds[k].bucket].liquidity # 0
    BY <1>5, <1>8
  <2>2. CASE up
    BY <1>3, <1>8, <2>1, <2>2
  <2>3. CASE ~ up
    <3>1. \A k \in 1..n : pool.buckets[ds[(n - k) + 1].bucket].liquidity # 0
      BY <1>8, <2>1
    <3>2. DOMAIN t.deltas = 1..n /\ \A k \in 1..n : t.deltas[k] = ds[(n - k) + 1]
      BY <1>3, <1>7, <1>8, <2>3
    <3> HIDE DEF t
    <3> QED BY <3>1, <3>2
  <2> QED BY <2>2, <2>3
<1>13. ASSUME total = 0 PROVE TraceOf(pool, t, gross)
  <2>1. ds = <<>> /\ s.sqrtP = pool.sqrtP
    BY <1>3, <1>4, <1>13 DEF Finished, ds
  <2>2. Reverse(ds) = <<>>
    <3>1. n = 0
      BY <2>1 DEF n
    <3> QED BY <1>7, <3>1
  <2> QED BY <1>3, <1>5, <1>9, <1>10, <1>11, <1>13, <1>12, <2>1, <2>2 DEF TraceOf, total, fee
<1>14. ASSUME total # 0 PROVE TraceOf(pool, t, gross)
  <2>1. OneStep(pool, up, s.sqrtP, ds)
    BY <1>3, <1>4, <1>14 DEF Finished, ds
  <2> DEFINE k == IF up THEN n ELSE 1
  <2>2. n > 0 /\ ds[n].in > 0
    BY <2>1 DEF OneStep, n
  <2>3. k \in DOMAIN t.deltas /\ t.deltas[k] = ds[n]
    <3>1. (n - 1) + 1 = n /\ 1 \in 1..n /\ n \in 1..n
      BY <1>8, <2>2
    <3> QED BY <1>3, <1>7, <1>8, <3>1
  <2>4. ASSUME Inside(pool.sqrtP, ds[n].bucket) PROVE Moves(pool, t, k)
    <3>1. /\ \A j \in 1..(n - 1) : IsNoOp(ds[j])
          /\ s.sqrtP = NextSqrtP(up, pool.buckets[ds[n].bucket].liquidity, pool.sqrtP, ds[n].in)
          /\ ds[n].out = StepOut(up, pool.buckets[ds[n].bucket].liquidity, pool.sqrtP, s.sqrtP)
      BY <2>1, <2>4 DEF OneStep, n
    <3>2. ASSUME NEW j \in DOMAIN t.deltas, j # k PROVE IsNoOp(t.deltas[j])
      <4>1. CASE up
        <5>1. j \in 1..(n - 1) /\ t.deltas[j] = ds[j]
          BY <1>3, <1>8, <3>2, <4>1
        <5> QED BY <3>1, <5>1
      <4>2. CASE ~ up
        <5>1. (n - j) + 1 \in 1..(n - 1) /\ t.deltas[j] = ds[(n - j) + 1]
          BY <1>3, <1>7, <1>8, <3>2, <4>2
        <5> QED BY <3>1, <5>1
      <4> QED BY <4>1, <4>2
    <3> HIDE DEF k
    <3> QED BY <1>3, <2>3, <3>1, <3>2 DEF Moves
  <2> HIDE DEF k
  <2>5. \E j \in DOMAIN t.deltas :
            /\ t.deltas[j].in > 0
            /\ Inside(pool.sqrtP, t.deltas[j].bucket) => Moves(pool, t, j)
    BY <2>2, <2>3, <2>4
  <2> QED BY <1>3, <1>5, <1>9, <1>10, <1>11, <1>14, <1>12, <2>5 DEF TraceOf, total, fee
<1> QED BY <1>2, <1>3, <1>13, <1>14 DEF t

-----------------------------------------------------------------------------
(* Swaps.                                                                  *)

\* The pools an epoch is cleared against.
GoodPools == {pool \in PoolRecords : pool.sqrtP <= Top}

\* The swap of the net flow netA at the price p.
SwapOf(pool, netA, p, swap, gross) ==
  /\ swap.saturated = FALSE /\ gross \in Nat /\ TraceOf(pool, swap.trace, gross)
  /\ IF swap.trace.up
     THEN /\ netA < 0 /\ gross = mulDiv(-netA, SCALE, p)
          /\ swap.ammAIn = 0 /\ swap.ammAOut = TotalOut(swap.trace)
          /\ swap.ammBIn = gross /\ swap.ammBOut = 0
     ELSE /\ netA >= 0 /\ gross = netA
          /\ swap.ammAIn = gross /\ swap.ammAOut = 0
          /\ swap.ammBIn = 0 /\ swap.ammBOut = TotalOut(swap.trace)

\* Of nothing, nothing is left after the fee.
LEMMA NothingIsFree == AfterFee(0) = 0
<1>1. FEE_SCALE \in Nat \ {0} /\ FEE_BPS \in Nat
  BY SwapConstants
<1>2. 0 * (FEE_SCALE - FEE_BPS) = 0 /\ 0 \div FEE_SCALE = 0
  BY <1>1
<1> QED BY <1>2 DEF AfterFee

\* bucketNetSwap: what a swap that is not saturated says of its trace.
LEMMA SwapFacts ==
  ASSUME NEW pool \in GoodPools, Contained(pool), NEW netA \in Int, NEW p \in Nat,
         netA < 0 => p > 0
  PROVE  \/ bucketNetSwap(pool, netA, p).saturated = TRUE
         \/ \E gross : SwapOf(pool, netA, p, bucketNetSwap(pool, netA, p), gross)
<1> DEFINE up == netA < 0
           gross == IF up THEN mulDiv(-netA, SCALE, p) ELSE netA
           t == traceBucketSwap(pool, up, gross)
           swap == bucketNetSwap(pool, netA, p)
<1>1. pool \in PoolRecords /\ pool.sqrtP \in 0..Top
  BY GridFacts DEF GoodPools, PoolRecords
<1>2. gross \in Nat
  <2>1. CASE up
    <3>1. -netA \in Nat /\ p \in Nat \ {0} /\ SCALE \in Nat
      BY <2>1, SwapConstants
    <3>2. mulDiv(-netA, SCALE, p) \in Nat
      BY <3>1, MulDivNat
    <3> QED BY <2>1, <3>2
  <2>2. CASE ~ up
    BY <2>2
  <2> QED BY <2>1, <2>2
<1>3. CASE netA = 0
  <2>1. swap = NoSwap(pool, FALSE, p)
    BY <1>3 DEF bucketNetSwap, Untraded
  <2> DEFINE none == NoTrace(pool)
  <2>2. none.up = FALSE /\ none.sqrtP = pool.sqrtP /\ none.deltas = <<>>
    BY DEF NoTrace
  <2>3. /\ swap.saturated = FALSE /\ swap.trace = none /\ swap.ammAIn = 0 /\ swap.ammAOut = 0
        /\ swap.ammBIn = 0 /\ swap.ammBOut = 0
    BY <2>1 DEF NoSwap
  <2> HIDE DEF none, swap
  <2>4. /\ TotalIn(none) = 0 /\ TotalOut(none) = 0 /\ recoverForwardedFee(pool, none) = 0
    BY <2>2, TraceSums, SumsEmpty
  <2>5. none.deltas \in Seq(DeltaRecords) /\ DOMAIN none.deltas = {}
    BY <2>2
  <2>6. TraceOf(pool, none, 0)
    <3>1. none.up \in BOOLEAN /\ none.sqrtP \in 0..Top
      BY <1>1, <2>2
    <3>2. \A j, k \in DOMAIN none.deltas : none.deltas[j].bucket = none.deltas[k].bucket => j = k
      BY <2>5
    <3>3. /\ TotalIn(none) = AfterFee(0) /\ TotalOut(none) \in Nat
          /\ recoverForwardedFee(pool, none) \in 0..(0 - AfterFee(0))
      BY <2>4, NothingIsFree
    <3> QED BY <2>2, <2>5, <3>1, <3>2, <3>3, NothingIsFree DEF TraceOf
  <2>7. SwapOf(pool, netA, p, swap, 0)
    BY <1>3, <2>2, <2>3, <2>4, <2>6 DEF SwapOf
  <2> QED BY <2>7 DEF swap
<1>4. CASE netA # 0 /\ ~ t.feasible
  <2>1. swap = NoSwap(pool, TRUE, 0)
    BY <1>4 DEF bucketNetSwap, Routed, Saturated
  <2>2. swap.saturated = TRUE
    BY <2>1 DEF NoSwap
  <2> QED BY <2>2
<1>5. CASE netA # 0 /\ t.feasible
  <2>1. swap = Traded(t, gross)
    BY <1>5 DEF bucketNetSwap, Routed
  <2>2. up \in BOOLEAN
    OBVIOUS
  <2>3. TraceOf(pool, t, gross) /\ t.up = up
    <3> HIDE DEF up, gross
    <3> QED BY <1>1, <1>2, <1>5, <2>2, TraceFacts
  <2> HIDE DEF t, gross, swap
  <2>4. /\ swap.saturated = FALSE /\ swap.trace = t
        /\ swap.ammAIn = (IF t.up THEN 0 ELSE gross)
        /\ swap.ammAOut = (IF t.up THEN TotalOut(t) ELSE 0)
        /\ swap.ammBIn = (IF t.up THEN gross ELSE 0)
        /\ swap.ammBOut = (IF t.up THEN 0 ELSE TotalOut(t))
    BY <2>1 DEF Traded
  <2>5. gross = IF up THEN mulDiv(-netA, SCALE, p) ELSE netA
    BY DEF gross
  <2>6. SwapOf(pool, netA, p, swap, gross)
    <3>1. CASE netA < 0
      <4>1. t.up = TRUE /\ gross = mulDiv(-netA, SCALE, p)
        BY <2>3, <2>5, <3>1
      <4> HIDE DEF up
      <4> QED BY <1>2, <2>3, <2>4, <3>1, <4>1 DEF SwapOf
    <3>2. CASE ~ (netA < 0)
      <4>1. t.up = FALSE /\ gross = netA /\ netA >= 0
        <5>1. up = FALSE /\ netA >= 0
          BY <3>2
        <5> HIDE DEF up
        <5> QED BY <2>3, <2>5, <5>1
      <4> HIDE DEF up
      <4> QED BY <1>2, <2>3, <2>4, <3>2, <4>1 DEF SwapOf
    <3> QED BY <3>1, <3>2
  <2> QED BY <2>6 DEF swap
<1> QED BY <1>3, <1>4, <1>5

\* What the two sides of a book have left over is there to be swapped.
LEMMA NetFlow ==
  ASSUME NEW buys \in Nat, NEW sells \in Nat, NEW p \in Nat, NEW netA,
         netA = buys - mulDiv(sells, p, SCALE)
  PROVE  /\ netA \in Int /\ netA <= buys
         /\ netA < 0 => p > 0 /\ mulDiv(-netA, SCALE, p) <= sells
<1> DEFINE x == mulDiv(sells, p, SCALE)
<1>1. SCALE \in Nat \ {0}
  BY SwapConstants
<1>2. x \in Nat /\ x * SCALE <= sells * p
  BY <1>1, MulDivNat
<1>3. p = 0 => x = 0
  <2>1. sells * 0 = 0 /\ 0 \div SCALE = 0
    BY <1>1
  <2> QED BY <2>1 DEF mulDiv
<1> HIDE DEF x
<1>4. netA = buys - x
  BY DEF x
<1>5. netA \in Int /\ netA <= buys /\ (netA < 0 => p > 0)
  BY <1>2, <1>3, <1>4
<1>6. ASSUME netA < 0 PROVE mulDiv(-netA, SCALE, p) <= sells
  <2> DEFINE n == -netA
             y == mulDiv(n, SCALE, p)
  <2>1. n \in Nat /\ n <= x /\ p \in Nat \ {0}
    BY <1>2, <1>4, <1>5, <1>6
  <2> HIDE DEF n
  <2>2. y \in Nat /\ y * p <= n * SCALE
    BY <1>1, <2>1, MulDivNat
  <2>3. n * SCALE <= x * SCALE
    BY <1>1, <1>2, <2>1, ProductOrder
  <2> HIDE DEF y
  <2>4. y * p <= sells * p
    <3>1. y * p \in Int /\ n * SCALE \in Int /\ x * SCALE \in Int /\ sells * p \in Int
      BY <1>1, <1>2, <2>1, <2>2
    <3> QED BY <1>2, <2>2, <2>3, <3>1
  <2>5. y <= sells
    BY <2>1, <2>2, <2>4, CancelFactor
  <2> QED BY <2>5 DEF y, n
<1> QED BY <1>5, <1>6

-----------------------------------------------------------------------------
(* The price search.                                                       *)

Prices == Nat \cup {NoPrice}

\* A finite set of numbers has its greatest member.
LEMMA GreatestIn ==
  ASSUME NEW S, S \subseteq Int, IsFiniteSet(S), S # {}
  PROVE  Max(S) \in S
<1> DEFINE P == {s \in SUBSET S : s = {} \/ \E x \in s : \A y \in s : x >= y}
<1>1. {} \in P
  OBVIOUS
<1>2. ASSUME NEW s \in SUBSET S, NEW x \in s, s \ {x} \in P PROVE s \in P
  <2>1. CASE s \ {x} = {}
    <3>1. \A y \in s : x >= y
      BY <2>1
    <3> QED BY <3>1
  <2>2. CASE s \ {x} # {}
    <3>1. PICK z \in s \ {x} : \A y \in s \ {x} : z >= y
      BY <1>2, <2>2
    <3>2. x \in Int /\ z \in Int
      OBVIOUS
    <3>3. CASE z >= x
      <4>1. \A y \in s : z >= y
        BY <3>1, <3>3
      <4> QED BY <4>1
    <3>4. CASE ~ (z >= x)
      <4>1. \A y \in s : x >= y
        <5>1. ASSUME NEW y \in s, y # x PROVE x >= y
          <6>1. z >= y /\ y \in Int
            BY <3>1, <5>1
          <6> QED BY <3>2, <3>4, <6>1
        <5> QED BY <3>2, <5>1
      <4> QED BY <4>1
    <3> QED BY <3>3, <3>4
  <2> QED BY <2>1, <2>2
<1>3. S \in P
  <2>1. \A s \in SUBSET S : \A x \in s : s \ {x} \in P => s \in P
    BY <1>2
  <2> HIDE DEF P
  <2> QED BY <1>1, <2>1, ElementInduction
<1>4. \E x \in S : \A y \in S : x >= y
  BY <1>3
<1> QED BY <1>4 DEF Max

\* The values of a function on a finite set.
LEMMA FiniteImage ==
  ASSUME NEW S, IsFiniteSet(S), NEW f
  PROVE  IsFiniteSet({f[x] : x \in S})
<1> DEFINE Image(s) == {f[x] : x \in s}
           P == {s \in SUBSET S : IsFiniteSet(Image(s))}
<1>1. {} \in P
  <2>1. Image({}) = {}
    OBVIOUS
  <2> QED BY <2>1, FS_EmptySet
<1>2. ASSUME NEW s \in SUBSET S, NEW x \in s, s \ {x} \in P PROVE s \in P
  <2>1. Image(s) = Image(s \ {x}) \cup {f[x]}
    OBVIOUS
  <2>2. IsFiniteSet(Image(s \ {x}))
    BY <1>2
  <2> DEFINE T == Image(s \ {x})
  <2>3. IsFiniteSet(T \cup {f[x]})
    <3> HIDE DEF T
    <3> QED BY <2>2, FS_AddElement DEF T
  <2> QED BY <2>1, <2>3
<1>3. S \in P
  <2>1. \A s \in SUBSET S : \A x \in s : s \ {x} \in P => s \in P
    BY <1>2
  <2> HIDE DEF P
  <2> QED BY <1>1, <2>1, ElementInduction
<1> QED BY <1>3

\* The ends of the band the search covers.
LEMMA BandFacts ==
  ASSUME NEW pool \in PoolRecords, Funded(pool) # {}
  PROVE  BandLow(pool) \in Nat /\ BandHigh(pool) \in Nat
<1> DEFINE F == Funded(pool)
           L == {priceAt(pool.bounds[i].lower) : i \in F}
           H == {priceAt(pool.bounds[i].upper) : i \in F}
<1>1. /\ pool.bounds = Grid /\ DOMAIN Grid = 1..Len(Grid) /\ Len(Grid) \in Nat
      /\ F \subseteq DOMAIN Grid
      /\ \A i \in F : Grid[i].lower \in Nat /\ Grid[i].upper \in Nat
  BY GridFacts DEF PoolRecords, Funded
<1>2. IsFiniteSet(F)
  <2>1. F \subseteq 1..Len(Grid) /\ IsFiniteSet(1..Len(Grid))
    BY <1>1, FS_Interval
  <2> HIDE DEF F
  <2> QED BY <2>1, FS_Subset
<1>3. \A x \in Nat : priceAt(x) \in Nat
  BY MulDivNat, SwapConstants DEF priceAt
<1> HIDE DEF F
<1>4. L \subseteq Nat /\ H \subseteq Nat
  BY <1>1, <1>3
<1>5. IsFiniteSet(L) /\ IsFiniteSet(H)
  <2> DEFINE lows == [i \in F |-> priceAt(pool.bounds[i].lower)]
             highs == [i \in F |-> priceAt(pool.bounds[i].upper)]
  <2>1. L = {lows[i] : i \in F} /\ H = {highs[i] : i \in F}
    OBVIOUS
  <2> HIDE DEF lows, highs, L, H
  <2> QED BY <1>2, <2>1, FiniteImage
<1>6. L # {} /\ H # {}
  BY DEF F
<1> HIDE DEF L, H
<1>7. Min(L) \in Nat /\ Max(H) \in Nat
  <2>1. L \subseteq Int /\ H \subseteq Int
    BY <1>4
  <2>2. Min(L) \in L /\ Max(H) \in H
    BY <1>5, <1>6, <2>1, LeastIn, GreatestIn
  <2> QED BY <1>4, <2>2
<1>8. BandLow(pool) = Max({1, Min(L) \div PRICE_BAND}) /\ BandHigh(pool) = Max(H) * PRICE_BAND
  BY DEF BandLow, BandHigh, L, H, F
<1> DEFINE low == Min(L) \div PRICE_BAND
           ends == {1, low}
<1>9. PRICE_BAND \in Nat \ {0}
  BY EngineConstants
<1>10. low \in Nat /\ Max(H) * PRICE_BAND \in Nat
  BY <1>7, <1>9, Floor, ProductNat
<1> HIDE DEF low
<1>11. Max(ends) \in Nat
  <2>1. ends \subseteq Nat /\ ends \subseteq Int /\ ends # {}
    BY <1>10
  <2>2. IsFiniteSet({}) /\ IsFiniteSet({} \cup {1}) /\ IsFiniteSet(({} \cup {1}) \cup {low})
    BY FS_EmptySet, FS_AddElement
  <2>3. ends = ({} \cup {1}) \cup {low}
    OBVIOUS
  <2>4. IsFiniteSet(ends)
    BY <2>2, <2>3
  <2> HIDE DEF ends
  <2> QED BY <2>1, <2>4, GreatestIn
<1> QED BY <1>8, <1>10, <1>11 DEF low

\* The states of the bisection.
Searches == [lo : Nat, hi : Nat, open : BOOLEAN, price : Prices]

\* Halving the search's interval keeps it one of natural numbers.
LEMMA HalveKeeps ==
  ASSUME NEW pool, NEW batch, NEW s \in Searches
  PROVE  Halve(pool, batch, s) \in Searches
<1> DEFINE mid == (s.lo + s.hi) \div 2
           m == probe(pool, batch, mid)
           lo == IF m.residual > 0 THEN mid ELSE s.lo
           hi == IF m.residual > 0 THEN s.hi ELSE mid
           r == Halve(pool, batch, s)
<1>1. mid \in Nat /\ s.lo \in Nat /\ s.hi \in Nat
  BY DEF Searches
<1>2. \A x \in Prices : Ended(s, x) \in Searches
  BY DEF Ended, Searches
<1>3. NoPrice \in Prices /\ mid \in Prices /\ lo \in Nat /\ hi \in Nat
  BY <1>1 DEF Prices
<1>4. Settle(pool, batch, lo, hi) \in Prices
  <2> HIDE DEF lo, hi, mid
  <2> QED BY <1>3 DEF Settle, Prices
<1>5. [s EXCEPT !.lo = lo, !.hi = hi] \in Searches
  <2> HIDE DEF lo, hi, mid
  <2> QED BY <1>3 DEF Searches
<1>6. \/ r = Ended(s, NoPrice) \/ r = Ended(s, mid) \/ r = Ended(s, Settle(pool, batch, lo, hi))
      \/ r = [s EXCEPT !.lo = lo, !.hi = hi]
  BY DEF Halve, Narrow
<1> HIDE DEF lo, hi, mid, r
<1>7. r \in Searches
  BY <1>2, <1>3, <1>4, <1>5, <1>6
<1> QED BY <1>7 DEF r

IsSearch(pool, batch, search) ==
  LET lo == BandLow(pool)
      hi == BandHigh(pool)
      start == [lo |-> lo, hi |-> hi, open |-> TRUE, price |-> NoPrice]
  IN search = [n \in 0..MAX_ITERS |->
       IF n = 0 THEN start
       ELSE LET s == search[n - 1]
            IN IF s.open THEN Halve(pool, batch, s) ELSE s]

\* crossingPrice returns what its last round holds, or no price.
LEMMA CrossingIsSearch ==
  ASSUME NEW pool, NEW batch
  PROVE  crossingPrice(pool, batch) \in
           {NoPrice, (CHOOSE search : IsSearch(pool, batch, search))[MAX_ITERS].price}
BY DEF crossingPrice, IsSearch

\* A crossing price is a price or none.
LEMMA CrossingTypes ==
  ASSUME NEW pool \in PoolRecords, NEW batch, Funded(pool) # {}
  PROVE  crossingPrice(pool, batch) \in Prices
<1> DEFINE D == Searches
           n == MAX_ITERS
           start == [lo |-> BandLow(pool), hi |-> BandHigh(pool), open |-> TRUE, price |-> NoPrice]
           turn == [s \in D |-> IF s.open THEN Halve(pool, batch, s) ELSE s]
           next == [k \in 1..n |-> turn]
<1>1. n \in Nat
  BY EngineConstants
<1>2. start \in D
  BY BandFacts DEF Searches, Prices
<1>3. turn \in [D -> D]
  <2>1. \A s \in D : (IF s.open THEN Halve(pool, batch, s) ELSE s) \in D
    BY HalveKeeps
  <2> HIDE DEF D
  <2> QED BY <2>1
<1> HIDE DEF turn, start
<1>4. next \in [1..n -> [D -> D]]
  BY <1>3
<1> HIDE DEF D, next, n
<1>5. Recursion(n, D, start, next)
  BY <1>1, <1>2, <1>4 DEF Recursion
<1>6. PICK r : Follows(r, n, D, start, next)
  BY <1>5, Iterates
<1>7. r \in [0..n -> D] /\ r[0] = start /\ \A k \in 1..n : r[k] = next[k][r[k - 1]]
  BY <1>6 DEF Follows
<1> DEFINE W(w, k) == IF k = 0 THEN start
                      ELSE LET s == w[k - 1] IN IF s.open THEN Halve(pool, batch, s) ELSE s
<1>8. ASSUME NEW k \in 0..n PROVE r[k] = W(r, k)
  <2>1. CASE k = 0
    BY <1>7, <2>1
  <2>2. CASE k # 0
    <3>1. k \in 1..n /\ k - 1 \in 0..n
      BY <1>1, <2>2
    <3>2. r[k] = turn[r[k - 1]] /\ r[k - 1] \in D
      BY <1>7, <3>1 DEF next
    <3> QED BY <2>2, <3>2 DEF turn
  <2> QED BY <2>1, <2>2
<1>9. \A w : IsSearch(pool, batch, w) = (w = [k \in 0..n |-> W(w, k)])
  BY DEF IsSearch, start, n
<1> DEFINE w == CHOOSE search : IsSearch(pool, batch, search)
<1>10. IsSearch(pool, batch, r)
  <2> HIDE DEF W
  <2>1. r = [k \in 0..n |-> r[k]]
    BY <1>7
  <2>2. r = [k \in 0..n |-> W(r, k)]
    BY <1>8, <2>1
  <2> QED BY <1>9, <2>2
<1>11. IsSearch(pool, batch, w)
  BY <1>10
<1> HIDE DEF w
<1>12. \A k \in 0..n : w[k] = W(w, k)
  <2> HIDE DEF W
  <2>1. w = [k \in 0..n |-> W(w, k)]
    BY <1>9, <1>11
  <2> QED BY <2>1
<1>13. w[0] \in D
  BY <1>1, <1>2, <1>12
<1>14. ASSUME NEW k \in 1..n, w[k - 1] \in D PROVE w[k] \in D
  <2>1. k \in 0..n /\ k # 0
    BY <1>1
  <2>2. w[k] = IF w[k - 1].open THEN Halve(pool, batch, w[k - 1]) ELSE w[k - 1]
    BY <1>12, <2>1
  <2> QED BY <1>14, <2>2, HalveKeeps DEF D
<1>15. w[n] \in D
  <2>1. \A k \in 1..n : w[k - 1] \in D => w[k] \in D
    BY <1>14
  <2>2. \A k \in 0..n : w[k] \in D
    BY <1>1, <1>13, <2>1, StaysIn
  <2> QED BY <1>1, <2>2
<1>16. w[n].price \in Prices /\ NoPrice \in Prices
  BY <1>15 DEF D, Searches, Prices
<1>17. crossingPrice(pool, batch) \in {NoPrice, w[n].price}
  BY CrossingIsSearch DEF w, n
<1> QED BY <1>16, <1>17

\* The orders of an epoch that one pool fills.
IsBook(book) ==
  /\ IsFiniteSet(book)
  /\ \A o \in book : /\ o.amountIn \in Nat \ {0} /\ o.limit \in Nat /\ o.side \in BOOLEAN
                     /\ o.at \in Int /\ o.nonce \in Int
  /\ \A x, y \in book : x # y => x.at # y.at

\* The input of a side is a natural number, the sum of its amounts.
LEMMA AmountNat ==
  ASSUME NEW side, IsFiniteSet(side), \A o \in side : o.amountIn \in Nat
  PROVE  AmountIn(side) \in Nat /\ AmountIn(side) = Sum(amounts(side), side)
<1>1. AmountIn(side) = Sum(amounts(side), side)
  BY DEF AmountIn, Sum, amounts
<1>2. \A o \in side : amounts(side)[o] \in Nat
  BY DEF amounts
<1> QED BY <1>1, <1>2, SumNat

\* The states of the refinement.
Passes(book) ==
  [current : SUBSET book, seenSizes : SUBSET Nat, open : BOOLEAN, price : Prices]

\* A pass that drops orders from a one-sided book keeps the rest of it.
LEMMA RefineKeeps ==
  ASSUME NEW pool \in GoodPools, Contained(pool), NEW book, IsBook(book),
         NEW isSellBook \in BOOLEAN, NEW s \in Passes(book)
  PROVE  Refine(pool, book, isSellBook, s) \in Passes(book)
<1> DEFINE sumIn == AmountIn(s.current)
           netA == IF isSellBook THEN -sumIn ELSE sumIn
           swap == bucketNetSwap(pool, netA, SCALE)
           out == IF isSellBook THEN swap.ammAOut ELSE swap.ammBOut
           net == AfterFee(sumIn)
           p == IF isSellBook THEN mulDiv(out, SCALE, net) ELSE mulDiv(net, SCALE, out)
           next == Refilter(book, s.current, p)
           r == Refine(pool, book, isSellBook, s)
<1>1. SCALE \in Nat \ {0}
  BY SwapConstants
<1>2. s.current \subseteq book /\ s.seenSizes \in SUBSET Nat
  BY DEF Passes
<1>3. sumIn \in Nat
  <2>1. IsFiniteSet(s.current) /\ \A o \in s.current : o.amountIn \in Nat
    BY <1>2, FS_Subset DEF IsBook
  <2> QED BY <2>1, AmountNat
<1>4. net \in Nat
  BY <1>3, FeeIsWithinCeiling
<1>5. NoPrice \in Prices /\ \A x \in Prices : Ended(s, x) \in Passes(book)
  BY DEF Ended, Passes, Prices
<1>6. r = RefineWith(book, isSellBook, s, sumIn, swap)
  BY DEF Refine
<1> HIDE DEF r, sumIn
<1>7. netA \in Int /\ SCALE \in Nat /\ (netA < 0 => SCALE > 0)
  BY <1>1, <1>3
<1> HIDE DEF netA
<1>8. swap.saturated = TRUE \/ \E gross : SwapOf(pool, netA, SCALE, swap, gross)
  BY <1>7, SwapFacts
<1> HIDE DEF swap
<1>9. CASE net <= 0 \/ swap.saturated \/ out = 0
  <2>1. r = Ended(s, NoPrice)
    BY <1>6, <1>9 DEF RefineWith
  <2> QED BY <1>5, <2>1 DEF r
<1>10. CASE ~ (net <= 0 \/ swap.saturated \/ out = 0)
  <2>1. PICK gross : SwapOf(pool, netA, SCALE, swap, gross)
    BY <1>8, <1>10
  <2>2. out \in Nat
    BY <2>1 DEF SwapOf, TraceOf
  <2>3. net \in Nat \ {0} /\ out \in Nat \ {0}
    BY <1>4, <1>10, <2>2
  <2>4. r = RefineAt(book, s, p)
    BY <1>6, <1>10 DEF RefineWith
  <2> HIDE DEF net, out
  <2>5. p \in Nat
    BY <1>1, <2>3, MulDivNat
  <2> HIDE DEF p
  <2>6. p \in Prices
    BY <2>5 DEF Prices
  <2>7. next \subseteq book
    BY DEF Refilter
  <2> HIDE DEF next
  <2>8. Cardinality(next) \in Nat
    BY <2>7, FS_Subset, FS_CardinalityType DEF IsBook
  <2> DEFINE c == Cardinality(next)
             seen == s.seenSizes \cup {c}
  <2>9. \/ r = Ended(s, p) \/ r = Ended(s, NoPrice)
        \/ r = [s EXCEPT !.current = next, !.seenSizes = seen]
    BY <2>4 DEF RefineAt, next
  <2>10. seen \in SUBSET Nat
    BY <1>2, <2>8
  <2> HIDE DEF seen
  <2>11. [s EXCEPT !.current = next, !.seenSizes = seen] \in Passes(book)
    BY <2>7, <2>10 DEF Passes
  <2> QED BY <1>5, <2>6, <2>9, <2>11 DEF r
<1> QED BY <1>9, <1>10

\* The pass before the first one.
FirstPass(book) ==
  [current |-> book, seenSizes |-> {Cardinality(book)}, open |-> TRUE, price |-> NoPrice]

IsPass(pool, book, isSellBook, pass) ==
  LET start == [current |-> book, seenSizes |-> {Cardinality(book)},
                open |-> TRUE, price |-> NoPrice]
  IN pass = [n \in 0..(Cardinality(book) + 2) |->
       IF n = 0 THEN start
       ELSE LET s == pass[n - 1]
            IN IF s.open THEN Refine(pool, book, isSellBook, s) ELSE s]

\* oneSidedClearingPrice returns what its last pass holds.
LEMMA OneSidedIsPass ==
  ASSUME NEW pool, NEW book, NEW isSellBook
  PROVE  oneSidedClearingPrice(pool, book, isSellBook)
           = (CHOOSE pass : IsPass(pool, book, isSellBook, pass))[Cardinality(book) + 2].price
BY DEF oneSidedClearingPrice, IsPass

\* What every pass keeps, the last one holds.
LEMMA PassEnds ==
  ASSUME NEW pool, NEW book, IsBook(book), NEW isSellBook, NEW D, FirstPass(book) \in D,
         \A s \in D : s.open => Refine(pool, book, isSellBook, s) \in D
  PROVE  \E s \in D : oneSidedClearingPrice(pool, book, isSellBook) = s.price
<1> DEFINE n == Cardinality(book) + 2
           start == [current |-> book, seenSizes |-> {Cardinality(book)},
                     open |-> TRUE, price |-> NoPrice]
           turn == [s \in D |-> IF s.open THEN Refine(pool, book, isSellBook, s) ELSE s]
           next == [k \in 1..n |-> turn]
<1>1. Cardinality(book) \in Nat /\ n \in Nat
  BY FS_CardinalityType DEF IsBook
<1>2. start \in D
  BY DEF FirstPass
<1>3. turn \in [D -> D]
  <2>1. \A s \in D : (IF s.open THEN Refine(pool, book, isSellBook, s) ELSE s) \in D
    OBVIOUS
  <2> QED BY <2>1
<1> HIDE DEF turn, start
<1>4. next \in [1..n -> [D -> D]]
  BY <1>3
<1> HIDE DEF next, n
<1>5. Recursion(n, D, start, next)
  BY <1>1, <1>2, <1>4 DEF Recursion
<1>6. PICK r : Follows(r, n, D, start, next)
  BY <1>5, Iterates
<1>7. r \in [0..n -> D] /\ r[0] = start /\ \A k \in 1..n : r[k] = next[k][r[k - 1]]
  BY <1>6 DEF Follows
<1> DEFINE W(w, k) == IF k = 0 THEN start
                      ELSE LET s == w[k - 1]
                           IN IF s.open THEN Refine(pool, book, isSellBook, s) ELSE s
<1>8. ASSUME NEW k \in 0..n PROVE r[k] = W(r, k)
  <2>1. CASE k = 0
    BY <1>7, <2>1
  <2>2. CASE k # 0
    <3>1. k \in 1..n /\ k - 1 \in 0..n
      BY <1>1, <2>2
    <3>2. r[k] = turn[r[k - 1]] /\ r[k - 1] \in D
      BY <1>7, <3>1 DEF next
    <3> QED BY <2>2, <3>2 DEF turn
  <2> QED BY <2>1, <2>2
<1>9. \A w : IsPass(pool, book, isSellBook, w) = (w = [k \in 0..n |-> W(w, k)])
  BY DEF IsPass, start, n
<1> DEFINE w == CHOOSE pass : IsPass(pool, book, isSellBook, pass)
<1>10. IsPass(pool, book, isSellBook, r)
  <2> HIDE DEF W
  <2>1. r = [k \in 0..n |-> r[k]]
    BY <1>7
  <2>2. r = [k \in 0..n |-> W(r, k)]
    BY <1>8, <2>1
  <2> QED BY <1>9, <2>2
<1>11. IsPass(pool, book, isSellBook, w)
  BY <1>10
<1> HIDE DEF w
<1>12. \A k \in 0..n : w[k] = W(w, k)
  <2> HIDE DEF W
  <2>1. w = [k \in 0..n |-> W(w, k)]
    BY <1>9, <1>11
  <2> QED BY <2>1
<1>13. w[0] \in D
  BY <1>1, <1>2, <1>12
<1>14. ASSUME NEW k \in 1..n, w[k - 1] \in D PROVE w[k] \in D
  <2>1. k \in 0..n /\ k # 0
    BY <1>1
  <2>2. w[k] = IF w[k - 1].open THEN Refine(pool, book, isSellBook, w[k - 1]) ELSE w[k - 1]
    BY <1>12, <2>1
  <2> QED BY <1>14, <2>2
<1>15. w[n] \in D
  <2>1. \A k \in 1..n : w[k - 1] \in D => w[k] \in D
    BY <1>14
  <2>2. \A k \in 0..n : w[k] \in D
    BY <1>1, <1>13, <2>1, StaysIn
  <2> QED BY <1>1, <2>2
<1> QED BY <1>15, OneSidedIsPass DEF w, n

\* A one-sided price is a price or none.
LEMMA OneSidedTypes ==
  ASSUME NEW pool \in GoodPools, Contained(pool), NEW book, IsBook(book),
         NEW isSellBook \in BOOLEAN
  PROVE  oneSidedClearingPrice(pool, book, isSellBook) \in Prices
<1> DEFINE D == Passes(book)
<1>1. FirstPass(book) \in D
  BY FS_CardinalityType DEF FirstPass, Passes, Prices, IsBook
<1>2. \A s \in D : Refine(pool, book, isSellBook, s) \in D
  BY RefineKeeps
<1> HIDE DEF D
<1>3. PICK s \in D : oneSidedClearingPrice(pool, book, isSellBook) = s.price
  BY <1>1, <1>2, PassEnds
<1> QED BY <1>3 DEF D, Passes

\* The orders of a book that are eligible at p.
EligibleAt(book, p) == {o \in book : Eligible(o, p)}

\* p is what the pool pays for the orders side, or takes for them.
PricedOn(pool, side, isSellBook, p) ==
  LET sumIn == AmountIn(side)
      swap == bucketNetSwap(pool, IF isSellBook THEN -sumIn ELSE sumIn, SCALE)
      out == IF isSellBook THEN swap.ammAOut ELSE swap.ammBOut
      net == AfterFee(sumIn)
  IN /\ swap.saturated = FALSE /\ net > 0 /\ out > 0
     /\ p = IF isSellBook THEN mulDiv(out, SCALE, net) ELSE mulDiv(net, SCALE, out)

\* The orders a pass holds: the whole book or those eligible at some price.
Holds(book, current) == current = book \/ \E q \in Nat : current = EligibleAt(book, q)

\* The price it ends at, if any: that of the orders eligible at it.
Fixed(pool, book, isSellBook, p) ==
  p # NoPrice => p \in Nat /\ PricedOn(pool, EligibleAt(book, p), isSellBook, p)

FixedPasses(pool, book, isSellBook) ==
  {s \in Passes(book) : Holds(book, s.current) /\ Fixed(pool, book, isSellBook, s.price)}

OneSide(book, isSellBook) == \A o \in book : o.side = isSellBook

\* As many orders of one side are the same orders: who is eligible at one price
\* is so at any better one.
LEMMA SameNumberSameOrders ==
  ASSUME NEW book, IsBook(book), NEW isSellBook \in BOOLEAN, OneSide(book, isSellBook),
         NEW p \in Nat, NEW current, Holds(book, current),
         Cardinality(EligibleAt(book, p)) = Cardinality(current)
  PROVE  EligibleAt(book, p) = current
<1>1. \A q \in Nat : IsFiniteSet(EligibleAt(book, q)) /\ EligibleAt(book, q) \subseteq book
  BY FS_Subset DEF EligibleAt, IsBook
<1>2. CASE current = book
  BY <1>1, <1>2, FS_Subset DEF IsBook
<1>3. ASSUME NEW q \in Nat, current = EligibleAt(book, q) PROVE EligibleAt(book, p) = current
  <2>1. EligibleAt(book, p) \subseteq current \/ current \subseteq EligibleAt(book, p)
    <3>1. \A o \in book : o.limit \in Nat /\ o.side = isSellBook
      BY DEF IsBook, OneSide
    <3>2. CASE isSellBook = TRUE
      <4>1. \A o \in book : /\ Eligible(o, p) <=> o.limit <= p
                            /\ Eligible(o, q) <=> o.limit <= q
        BY <3>1, <3>2 DEF Eligible
      <4>2. CASE p <= q
        BY <1>3, <3>1, <4>1, <4>2 DEF EligibleAt
      <4>3. CASE q <= p
        BY <1>3, <3>1, <4>1, <4>3 DEF EligibleAt
      <4> QED BY <4>2, <4>3
    <3>3. CASE isSellBook = FALSE
      <4>1. \A o \in book : /\ Eligible(o, p) <=> o.limit >= p
                            /\ Eligible(o, q) <=> o.limit >= q
        BY <3>1, <3>3 DEF Eligible
      <4>2. CASE p <= q
        BY <1>3, <3>1, <4>1, <4>2 DEF EligibleAt
      <4>3. CASE q <= p
        BY <1>3, <3>1, <4>1, <4>3 DEF EligibleAt
      <4> QED BY <4>2, <4>3
    <3> QED BY <3>2, <3>3
  <2>2. IsFiniteSet(EligibleAt(book, p)) /\ IsFiniteSet(current)
    BY <1>1, <1>3
  <2> QED BY <2>1, <2>2, FS_Subset
<1> QED BY <1>2, <1>3 DEF Holds

\* A pass keeps this.
LEMMA RefineFixes ==
  ASSUME NEW pool \in GoodPools, Contained(pool), NEW book, IsBook(book),
         NEW isSellBook \in BOOLEAN, OneSide(book, isSellBook),
         NEW s \in FixedPasses(pool, book, isSellBook)
  PROVE  Refine(pool, book, isSellBook, s) \in FixedPasses(pool, book, isSellBook)
<1> DEFINE sumIn == AmountIn(s.current)
           swap == bucketNetSwap(pool, IF isSellBook THEN -sumIn ELSE sumIn, SCALE)
           out == IF isSellBook THEN swap.ammAOut ELSE swap.ammBOut
           net == AfterFee(sumIn)
           p == IF isSellBook THEN mulDiv(out, SCALE, net) ELSE mulDiv(net, SCALE, out)
           next == EligibleAt(book, p)
           r == Refine(pool, book, isSellBook, s)
           F == FixedPasses(pool, book, isSellBook)
<1>1. /\ s \in Passes(book) /\ s.current \subseteq book
      /\ Holds(book, s.current) /\ Fixed(pool, book, isSellBook, s.price)
  BY DEF FixedPasses, Passes
<1>2. r \in Passes(book)
  BY <1>1, RefineKeeps
<1>3. ASSUME r = Ended(s, NoPrice) PROVE r \in F
  <2>1. r.current = s.current /\ r.price = NoPrice
    BY <1>1, <1>3 DEF Ended, Passes
  <2>2. Fixed(pool, book, isSellBook, NoPrice)
    BY DEF Fixed
  <2> HIDE DEF r
  <2> QED BY <1>1, <1>2, <2>1, <2>2 DEF FixedPasses
<1>4. r = RefineWith(book, isSellBook, s, sumIn, swap)
  BY DEF Refine
<1>5. CASE net <= 0 \/ swap.saturated \/ out = 0
  <2>1. r = Ended(s, NoPrice)
    BY <1>4, <1>5 DEF RefineWith
  <2> QED BY <1>3, <2>1
<1>6. CASE ~ (net <= 0 \/ swap.saturated \/ out = 0)
  <2>1. r = RefineAt(book, s, p)
    BY <1>4, <1>6 DEF RefineWith
  <2>2. swap.saturated = FALSE /\ net \in Nat \ {0} /\ out \in Nat \ {0}
    <3>1. IsFiniteSet(s.current) /\ \A o \in s.current : o.amountIn \in Nat
      BY <1>1, FS_Subset DEF IsBook
    <3>2. sumIn \in Nat
      BY <3>1, AmountNat
    <3>3. net \in Nat
      BY <3>2, FeeIsWithinCeiling
    <3> DEFINE netA == IF isSellBook THEN -sumIn ELSE sumIn
    <3>4. netA \in Int /\ SCALE \in Nat /\ (netA < 0 => SCALE > 0)
      BY <3>2, SwapConstants
    <3>5. swap = bucketNetSwap(pool, netA, SCALE)
      OBVIOUS
    <3> HIDE DEF netA, swap, net, sumIn
    <3>6. swap.saturated = TRUE \/ \E gross : SwapOf(pool, netA, SCALE, swap, gross)
      BY <3>4, <3>5, SwapFacts
    <3>7. PICK gross : SwapOf(pool, netA, SCALE, swap, gross)
      BY <1>6, <3>6
    <3>8. swap.saturated = FALSE /\ out \in Nat
      BY <3>7 DEF SwapOf, TraceOf
    <3> QED BY <1>6, <3>3, <3>8
  <2>3. p \in Nat
    <3> HIDE DEF net, out
    <3> QED BY <2>2, SwapConstants, MulDivNat
  <2>4. PricedOn(pool, s.current, isSellBook, p)
    <3> HIDE DEF sumIn
    <3>1. net > 0 /\ out > 0
      <4> HIDE DEF net, out
      <4> QED BY <2>2
    <3> QED BY <2>2, <3>1 DEF PricedOn, sumIn
  <2> HIDE DEF p
  <2>5. Refilter(book, s.current, p) = next
    BY DEF Refilter, EligibleAt
  <2>6. \/ r = Ended(s, p) /\ Cardinality(next) = Cardinality(s.current)
        \/ r = Ended(s, NoPrice)
        \/ r = [s EXCEPT !.current = next, !.seenSizes = s.seenSizes \cup {Cardinality(next)}]
    BY <2>1, <2>5 DEF RefineAt
  <2> HIDE DEF next, r
  <2>7. CASE r = Ended(s, p) /\ Cardinality(next) = Cardinality(s.current)
    <3>1. next = s.current
      <4> DEFINE current == s.current
      <4>1. /\ Holds(book, current)
            /\ Cardinality(EligibleAt(book, p)) = Cardinality(current)
        BY <1>1, <2>7 DEF next
      <4> HIDE DEF current
      <4>2. EligibleAt(book, p) = current
        BY <2>3, <4>1, SameNumberSameOrders
      <4> QED BY <4>2 DEF current, next
    <3>2. r.current = s.current /\ r.price = p
      BY <1>1, <2>7 DEF Ended, Passes
    <3>3. PricedOn(pool, EligibleAt(book, p), isSellBook, p)
      BY <2>4, <3>1 DEF next
    <3>4. Holds(book, r.current) /\ Fixed(pool, book, isSellBook, r.price)
      BY <1>1, <2>3, <3>2, <3>3 DEF Fixed
    <3> QED BY <1>2, <3>4 DEF FixedPasses, r
  <2>8. CASE r = Ended(s, NoPrice)
    BY <1>3, <2>8 DEF r
  <2>9. CASE r = [s EXCEPT !.current = next, !.seenSizes = s.seenSizes \cup {Cardinality(next)}]
    <3>1. r.current = next /\ r.price = s.price
      BY <1>1, <2>9 DEF Passes
    <3>2. r.current = EligibleAt(book, p)
      BY <3>1 DEF next
    <3>3. Holds(book, r.current) /\ Fixed(pool, book, isSellBook, r.price)
      BY <1>1, <2>3, <3>1, <3>2 DEF Holds
    <3> QED BY <1>2, <3>3 DEF FixedPasses, r
  <2> QED BY <2>6, <2>7, <2>8, <2>9 DEF r
<1> QED BY <1>5, <1>6

\* The price of a one-sided book is a fixed point (clearing.ts, "the set eligible at
\* P* equals the set P* was computed over"): it is what the pool pays for, or takes
\* for, the orders eligible at it, and nobody else.
THEOREM OneSidedPriceIsFixedPoint ==
  ASSUME NEW pool \in GoodPools, Contained(pool), NEW book, IsBook(book),
         NEW isSellBook \in BOOLEAN, OneSide(book, isSellBook),
         NEW p, p = oneSidedClearingPrice(pool, book, isSellBook), p # NoPrice
  PROVE  p \in Nat /\ PricedOn(pool, EligibleAt(book, p), isSellBook, p)
<1> DEFINE D == FixedPasses(pool, book, isSellBook)
<1>1. FirstPass(book) \in D
  <2>1. FirstPass(book) \in Passes(book)
    BY FS_CardinalityType DEF FirstPass, Passes, Prices, IsBook
  <2>2. FirstPass(book).current = book /\ FirstPass(book).price = NoPrice
    BY DEF FirstPass
  <2>3. Holds(book, FirstPass(book).current) /\ Fixed(pool, book, isSellBook, FirstPass(book).price)
    BY <2>2 DEF Holds, Fixed
  <2> QED BY <2>1, <2>3 DEF FixedPasses
<1>2. \A s \in D : Refine(pool, book, isSellBook, s) \in D
  BY RefineFixes
<1> HIDE DEF D
<1>3. PICK s \in D : oneSidedClearingPrice(pool, book, isSellBook) = s.price
  BY <1>1, <1>2, PassEnds
<1>4. Fixed(pool, book, isSellBook, s.price)
  BY <1>3 DEF D, FixedPasses
<1> QED BY <1>3, <1>4 DEF Fixed

\* findClearingPrice gives a price or none.
LEMMA PriceTypes ==
  ASSUME NEW pool \in GoodPools, NEW book, IsBook(book), Funded(pool) # {} => Contained(pool)
  PROVE  findClearingPrice(pool, book) \in Prices
<1>1. NoPrice \in Prices /\ pool \in PoolRecords
  BY DEF Prices, GoodPools
<1>2. CASE Funded(pool) = {}
  BY <1>1, <1>2 DEF findClearingPrice
<1>3. CASE Funded(pool) # {}
  <2>1. Contained(pool)
    BY <1>3
  <2>2. /\ crossingPrice(pool, book) \in Prices
        /\ oneSidedClearingPrice(pool, book, TRUE) \in Prices
        /\ oneSidedClearingPrice(pool, book, FALSE) \in Prices
    BY <1>1, <1>3, <2>1, CrossingTypes, OneSidedTypes
  <2> QED BY <1>3, <2>2 DEF findClearingPrice
<1> QED BY <1>2, <1>3

\* Where a book is not traced, it has no price.
LEMMA UntracedHasNoPrice ==
  ASSUME NEW pool, NEW book, Funded(pool) # {}, ~ Traces(pool, book)
  PROVE  findClearingPrice(pool, book) = NoPrice
<1>1. Buys(book) # {} /\ Sells(book) # {} /\ \A o \in book : ~ Eligible(o, BandLow(pool))
  BY DEF Traces
<1>2. LET ev == clearingAt(pool, book, BandLow(pool)) IN ev.buys \cup ev.sells = {}
  BY <1>1 DEF clearingAt, Buys, Sells
<1>3. probe(pool, book, BandLow(pool)).gap = TRUE
  BY <1>2, Zenon DEF probe, Probe
<1>4. crossingPrice(pool, book) = NoPrice
  BY <1>3, Zenon DEF crossingPrice
<1> QED BY <1>1, <1>4 DEF findClearingPrice

-----------------------------------------------------------------------------
(* The clearing of a pool.                                                 *)

\* A side that may be empty, what is there for it, and what it is given.
Sharing(side, gross, from_pool, escrow, rec, total, to_pool, f) ==
  /\ side = {} \/ IsSide(side)
  /\ gross \in Nat /\ from_pool \in Nat /\ escrow \in Nat /\ gross <= escrow
  /\ rec \in Nat /\ rec <= gross - AfterFee(gross)
  /\ total = escrow - gross + from_pool /\ to_pool = AfterFee(gross) + rec
  /\ \A o \in side : f[o] = ProRata(total, side)[o]

SharedOut(side, from_pool, escrow, rec, to_pool, f) ==
  /\ token_solvent(Sum(f, side), to_pool, from_pool, escrow)
  /\ \A o \in side :
       f[o] \in Nat /\ f[o] >= Share(AvailFloor(from_pool, escrow, to_pool, rec), side, o)
  /\ from_pool + escrow < TWO_POW_64 /\ AmountIn(side) < TWO_POW_64 =>
       \A o \in side :
         mul_div_fits(AvailFloor(from_pool, escrow, to_pool, rec), o.amountIn, AmountIn(side))

\* The pro-rata payment of a side passes the circuit's two checks of a token.
LEMMA SideIsPaid ==
  ASSUME NEW side, NEW gross, NEW from_pool, NEW escrow, NEW rec, NEW total, NEW to_pool, NEW f,
         Sharing(side, gross, from_pool, escrow, rec, total, to_pool, f)
  PROVE  SharedOut(side, from_pool, escrow, rec, to_pool, f)
<1>1. /\ side = {} \/ IsSide(side)
      /\ gross \in Nat /\ from_pool \in Nat /\ escrow \in Nat /\ gross <= escrow
      /\ rec \in Nat /\ rec <= gross - AfterFee(gross)
      /\ total = escrow - gross + from_pool /\ to_pool = AfterFee(gross) + rec
      /\ \A o \in side : f[o] = ProRata(total, side)[o]
  BY DEF Sharing
<1>2. AfterFee(gross) \in 0..gross /\ total \in Nat
  BY <1>1, FeeIsWithinCeiling
<1>3. CASE side = {}
  <2>1. Sum(f, side) = 0
    BY <1>3, SumEmpty
  <2>2. token_solvent(Sum(f, side), to_pool, from_pool, escrow)
    BY <1>1, <1>2, <2>1 DEF token_solvent
  <2> QED BY <1>3, <2>2 DEF SharedOut
<1>4. CASE IsSide(side)
  <2> DEFINE g == ProRata(total, side)
  <2>1. /\ token_solvent(Sum(g, side), to_pool, from_pool, escrow)
        /\ \A o \in side : g[o] >= Share(AvailFloor(from_pool, escrow, to_pool, rec), side, o)
        /\ from_pool + escrow < TWO_POW_64 /\ AmountIn(side) < TWO_POW_64 =>
             \A o \in side :
               mul_div_fits(AvailFloor(from_pool, escrow, to_pool, rec), o.amountIn, AmountIn(side))
    <3>1. gross <= escrow + from_pool
      BY <1>1
    <3> QED BY <1>1, <1>4, <3>1, EngineMeetsCircuit
  <2>2. \A o \in side : g[o] \in Nat
    BY <1>2, <1>4, SharesAreWholeAndFair
  <2>3. \A o \in side : f[o] = g[o]
    BY <1>1
  <2> HIDE DEF g
  <2>4. Sum(f, side) = Sum(g, side)
    BY <1>4, <2>3, SumAgree DEF IsSide
  <2> QED BY <2>1, <2>2, <2>3, <2>4 DEF SharedOut
<1> QED BY <1>1, <1>3, <1>4

\* The contract's cap on an epoch leaves no order out of the batch.
LEMMA BatchIsBook ==
  ASSUME NEW book, IsBook(book), Cardinality(book) <= MAX_ORDERS_PER_EPOCH
  PROVE  selectBatch(book) = book
<1>1. ASSUME NEW o \in book PROVE Cardinality({x \in book : Before(x, o)}) < MAX_ORDERS_PER_EPOCH
  <2> DEFINE ahead == {x \in book : Before(x, o)}
             rest == book \ {o}
  <2>1. IsFiniteSet(book) /\ o.at \in Int /\ o.nonce \in Int
    BY DEF IsBook
  <2>2. ahead \subseteq rest
    BY <2>1 DEF Before
  <2> HIDE DEF ahead
  <2>3. /\ IsFiniteSet(rest) /\ Cardinality(rest) = Cardinality(book) - 1
        /\ Cardinality(book) \in Nat
    BY <2>1, FS_RemoveElement, FS_CardinalityType
  <2> HIDE DEF rest
  <2>4. Cardinality(ahead) <= Cardinality(rest) /\ Cardinality(ahead) \in Nat
    BY <2>2, <2>3, FS_Subset, FS_CardinalityType
  <2>5. MAX_ORDERS_PER_EPOCH \in Nat
    BY EngineConstants
  <2>6. Cardinality(ahead) < MAX_ORDERS_PER_EPOCH
    BY <2>3, <2>4, <2>5
  <2> QED BY <2>6 DEF ahead
<1> QED BY <1>1 DEF selectBatch

\* Part of a book is empty or has a last order.
LEMMA SideOfBook ==
  ASSUME NEW book, IsBook(book), NEW side, side \subseteq book
  PROVE  /\ side = {} \/ IsSide(side)
         /\ IsFiniteSet(side) /\ AmountIn(side) \in Nat
<1>1. /\ IsFiniteSet(side)
      /\ \A o \in side : o.amountIn \in Nat \ {0} /\ o.at \in Int /\ o.nonce \in Int
      /\ \A x, y \in side : x # y => x.at # y.at
  BY FS_Subset DEF IsBook
<1>2. AmountIn(side) \in Nat
  BY <1>1, AmountNat
<1>3. ASSUME side # {} PROVE IsSide(side)
  <2>1. Latest(side) \in side
    BY <1>1, <1>3, LatestExists
  <2> QED BY <1>1, <1>3, <2>1 DEF IsSide
<1> QED BY <1>1, <1>2, <1>3

\* Who is paid its share of what the pool pays for all of a side's input pays, after
\* the fee, at most a unit more than a limit that the price does not exceed.
LEMMA ShareKeepsLimit ==
  ASSUME NEW sum \in Nat \ {0}, NEW x \in Nat, x <= sum, NEW out \in Nat \ {0},
         NEW limit \in Nat, NEW f \in Nat,
         mulDiv(AfterFee(sum), SCALE, out) <= limit, mulDiv(out, x, sum) <= f
  PROVE  (AfterFee(x) - 1) * SCALE <= (f + 1) * (limit + 1)
<1> DEFINE S == SCALE
           m == FEE_SCALE
           k == FEE_SCALE - FEE_BPS
           n == AfterFee(sum)
           a == AfterFee(x)
           p == (n * S) \div out
           share == (out * x) \div sum
<1>1. S \in Nat \ {0} /\ m \in Nat \ {0} /\ k \in Nat
  BY SwapConstants
<1>2. n \in Nat /\ a \in Nat
  BY FeeIsWithinCeiling
<1>3. p <= limit /\ share <= f
  BY DEF mulDiv
<1>4. sum * a <= (n + 1) * x
  <2>1. x * k \in Nat /\ sum * k \in Nat
    BY <1>1, ProductNat
  <2>2. a * m <= x * k /\ sum * k < n * m + m
    BY <1>1, <2>1, Floor DEF AfterFee
  <2> HIDE DEF n, a, m, k
  <2>3. n * m + m = (n + 1) * m /\ (n + 1) * m \in Int
    BY <1>1, <1>2
  <2>4. (a * m) * sum <= (x * k) * sum /\ (sum * k) * x <= ((n + 1) * m) * x
    BY <1>1, <1>2, <2>1, <2>2, <2>3, ProductOrder
  <2>5. (x * k) * sum = (sum * k) * x /\ (a * m) * sum = (sum * a) * m
        /\ ((n + 1) * m) * x = ((n + 1) * x) * m
    BY <1>1, <1>2, Reorder
  <2>6. (sum * a) * m <= ((n + 1) * x) * m
    <3>1. (x * k) * sum \in Int /\ (sum * a) * m \in Int /\ ((n + 1) * x) * m \in Int
      BY <1>1, <1>2, Reorder
    <3> QED BY <2>4, <2>5, <3>1
  <2>7. sum * a \in Int /\ (n + 1) * x \in Int
    BY <1>2
  <2> QED BY <1>1, <2>6, <2>7, CancelFactor
<1> HIDE DEF n, a
<1>5. (a - 1) * sum <= n * x
  <2>1. (a - 1) * sum = sum * a - sum /\ (n + 1) * x = n * x + x
        /\ n * x \in Int /\ sum * a \in Int
    BY <1>2
  <2> QED BY <1>4, <2>1
<1>6. n * S \in Nat /\ out * x \in Nat
  BY <1>1, <1>2, ProductNat
<1>7. p \in Nat /\ n * S < p * out + out /\ share \in Nat /\ out * x < share * sum + sum
  BY <1>6, Floor
<1> HIDE DEF S, p, share
<1>8. n * S <= (limit + 1) * out /\ out * x <= (f + 1) * sum
  <2>1. p * out + out = (p + 1) * out /\ share * sum + sum = (share + 1) * sum
    BY <1>7
  <2>2. (p + 1) * out <= (limit + 1) * out /\ (share + 1) * sum <= (f + 1) * sum
    BY <1>3, <1>7, ProductOrder
  <2>3. /\ (p + 1) * out \in Int /\ (limit + 1) * out \in Int
        /\ (share + 1) * sum \in Int /\ (f + 1) * sum \in Int
    BY <1>7
  <2> QED BY <1>6, <1>7, <2>1, <2>2, <2>3
<1>9. ((a - 1) * S) * sum <= ((f + 1) * (limit + 1)) * sum
  <2> DEFINE u == a - 1
             v == limit + 1
             w == f + 1
  <2>1. u \in Int /\ v \in Nat /\ w \in Nat
    BY <1>2
  <2>2. u * sum <= n * x /\ n * S <= v * out /\ out * x <= w * sum
    BY <1>5, <1>8
  <2> HIDE DEF u, v, w
  <2>3. /\ u * sum \in Int /\ n * x \in Int /\ v * out \in Int /\ w * sum \in Int
    BY <1>2, <2>1
  <2>4. /\ (u * sum) * S <= (n * x) * S
        /\ (n * S) * x <= (v * out) * x
        /\ (out * x) * v <= (w * sum) * v
    BY <1>1, <1>6, <2>1, <2>2, <2>3, ProductOrder
  <2>5. /\ (u * sum) * S = (u * S) * sum /\ (n * x) * S = (n * S) * x
        /\ (v * out) * x = (out * x) * v /\ (w * sum) * v = (w * v) * sum
    BY <1>1, <1>2, <2>1, Reorder
  <2>6. /\ (u * S) * sum \in Int /\ (n * S) * x \in Int /\ (out * x) * v \in Int
        /\ (w * v) * sum \in Int
    BY <1>1, <1>2, <2>1, Reorder
  <2>7. (u * S) * sum <= (w * v) * sum
    BY <2>4, <2>5, <2>6
  <2> QED BY <2>7 DEF u, v, w
<1>10. (a - 1) * S <= (f + 1) * (limit + 1)
  <2>1. (a - 1) * S \in Int /\ (f + 1) * (limit + 1) \in Int
    BY <1>1, <1>2
  <2> QED BY <1>9, <2>1, CancelFactor
<1> QED BY <1>10 DEF a, S

\* A clearing in which no order is filled beyond its limit.
WithinLimits(r) == \A o \in DOMAIN r.fills : WithinLimit(o, r.fills[o])

\* A price on the buy side, without the choice of side.
LEMMA PricedOnBuys ==
  ASSUME NEW pool, NEW side, NEW p, PricedOn(pool, side, FALSE, p)
  PROVE  LET swap == bucketNetSwap(pool, AmountIn(side), SCALE)
         IN /\ swap.saturated = FALSE /\ AfterFee(AmountIn(side)) > 0 /\ swap.ammBOut > 0
            /\ p = mulDiv(AfterFee(AmountIn(side)), SCALE, swap.ammBOut)
<1> DEFINE sum == AmountIn(side)
           swap == bucketNetSwap(pool, sum, SCALE)
<1>1. (IF FALSE THEN -sum ELSE sum) = sum
  OBVIOUS
<1> QED BY <1>1, Zenon DEF PricedOn

\* computeClearing of a book of buys: the pool's payment for the whole input of those
\* eligible at the price is shared by what each paid in.
LEMMA BuyBookKeepsLimits ==
  ASSUME NEW pool \in GoodPools, NEW book, IsBook(book),
         Cardinality(book) <= MAX_ORDERS_PER_EPOCH,
         book # {} /\ Funded(pool) # {} /\ Traces(pool, book) => Contained(pool),
         computeClearing(pool, book).cleared, Sells(book) = {}
  PROVE  WithinLimits(computeClearing(pool, book))
<1> DEFINE p == findClearingPrice(pool, book)
           ev == clearingAt(pool, book, p)
           r == computeClearing(pool, book)
           buys == EligibleAt(book, p)
           sum == AmountIn(buys)
           t == traceBucketSwap(pool, FALSE, sum)
           swap == bucketNetSwap(pool, sum, p)
           out == swap.ammBOut
           pay == ProRata(out, buys)
<1>1. Skipped.cleared = FALSE /\ r.cleared /\ r = FilledAt(pool, book, p)
  BY BatchIsBook DEF computeClearing, Skipped
<1> HIDE DEF r
<1>2. book # {} /\ p # NoPrice /\ r = Filled(ev, p)
  BY <1>1 DEF FilledAt
<1>3. Funded(pool) # {} /\ Contained(pool)
  <2>1. Funded(pool) # {}
    BY <1>2 DEF findClearingPrice
  <2> QED BY <1>2, <2>1, UntracedHasNoPrice
<1>4. OneSide(book, FALSE) /\ Buys(book) = book
  <2>1. \A o \in book : o.side \in BOOLEAN
    BY DEF IsBook
  <2>2. \A o \in book : ~ o.side
    BY DEF Sells
  <2> QED BY <2>1, <2>2 DEF OneSide, Buys
<1>5. p = oneSidedClearingPrice(pool, book, FALSE)
  BY <1>2, <1>3, <1>4 DEF findClearingPrice
<1>6. p \in Nat /\ PricedOn(pool, buys, FALSE, p)
  <2> HIDE DEF p
  <2> QED BY <1>2, <1>3, <1>4, <1>5, OneSidedPriceIsFixedPoint
<1> HIDE DEF p
<1>7. /\ ev.buys = buys /\ ev.sells = {}
      /\ ev.swap = bucketNetSwap(pool, AmountIn(buys) - mulDiv(AmountIn({}), p, SCALE), p)
  <2>1. {o \in Buys(book) : Eligible(o, p)} = buys /\ {o \in Sells(book) : Eligible(o, p)} = {}
    BY <1>4 DEF EligibleAt
  <2> QED BY <2>1 DEF clearingAt
<1>8. IsFiniteSet(buys) /\ buys \subseteq book /\ \A o \in buys : o.amountIn \in Nat \ {0}
  BY FS_Subset DEF EligibleAt, IsBook
<1>9. sum \in Nat /\ sum = Sum(amounts(buys), buys)
  BY <1>8, AmountNat
<1>10. AmountIn({}) = 0 /\ mulDiv(0, p, SCALE) = 0
  <2>1. AmountIn({}) = 0
    BY SumEmpty DEF AmountIn, Sum
  <2>2. 0 * p = 0 /\ 0 \div SCALE = 0
    BY <1>6, SwapConstants
  <2> QED BY <2>1, <2>2 DEF mulDiv
<1>11. ev.swap = swap
  BY <1>7, <1>9, <1>10
<1> HIDE DEF ev
<1>12. sum > 0 /\ AfterFee(sum) > 0
  <2>1. AfterFee(sum) > 0
    BY <1>6 DEF PricedOn
  <2>2. AfterFee(sum) \in 0..sum
    BY <1>9, FeeIsWithinCeiling
  <2> QED BY <1>9, <2>1, <2>2
<1>13. \A x : bucketNetSwap(pool, sum, x) = Routed(pool, t, sum)
  <2> HIDE DEF sum
  <2>1. (sum < 0) = FALSE /\ sum # 0
    BY <1>9, <1>12
  <2>2. traceBucketSwap(pool, sum < 0, sum) = t
    BY <2>1, Zenon DEF t
  <2> HIDE DEF t
  <2> QED BY <2>1, <2>2, Zenon DEF bucketNetSwap
<1>14. swap.saturated = FALSE /\ out > 0 /\ p = mulDiv(AfterFee(sum), SCALE, out)
  <2>1. bucketNetSwap(pool, sum, SCALE) = swap
    BY <1>13
  <2>2. LET at == bucketNetSwap(pool, sum, SCALE)
        IN /\ at.saturated = FALSE /\ at.ammBOut > 0
           /\ p = mulDiv(AfterFee(sum), SCALE, at.ammBOut)
    BY <1>6, PricedOnBuys, Zenon
  <2> HIDE DEF swap, sum
  <2> QED BY <2>1, <2>2
<1>15. swap.ammBIn = 0 /\ out \in Nat
  <2>1. PICK gross : SwapOf(pool, sum, p, swap, gross)
    <3>1. sum \in Int /\ (sum < 0 => p > 0) /\ p \in Nat /\ swap.saturated = FALSE
      BY <1>6, <1>9, <1>14
    <3> HIDE DEF sum
    <3>2. swap.saturated = TRUE \/ \E gross : SwapOf(pool, sum, p, swap, gross)
      BY <1>3, <3>1, SwapFacts
    <3> HIDE DEF swap
    <3> QED BY <3>1, <3>2
  <2> HIDE DEF swap, sum
  <2>2. swap.trace.up = FALSE /\ TotalOut(swap.trace) \in Nat
    BY <1>9, <2>1 DEF SwapOf, TraceOf
  <2> QED BY <2>1, <2>2 DEF SwapOf
<1>16. r.fills = [o \in buys |-> IF o.side THEN ProRata(AmountIn(buys) - swap.ammAIn + swap.ammAOut, {})[o]
                                 ELSE ProRata(AmountIn({}) - swap.ammBIn + swap.ammBOut, buys)[o]]
  <2> HIDE DEF buys, swap
  <2>1. buys \cup {} = buys /\ ev.buys = buys /\ ev.sells = {} /\ ev.swap = swap
    BY <1>7, <1>11
  <2>2. ~ (ev.buys \cup ev.sells = {} \/ ev.swap.saturated)
    BY <1>1, <1>2 DEF Filled
  <2> QED BY <1>2, <2>1, <2>2 DEF Filled
<1>17. DOMAIN r.fills = buys /\ \A o \in buys : o.side = FALSE /\ r.fills[o] = pay[o]
  <2>1. \A o \in buys : o.side = FALSE
    BY <1>4, <1>8 DEF OneSide
  <2>2. AmountIn({}) - swap.ammBIn + swap.ammBOut = out
    BY <1>10, <1>15
  <2> HIDE DEF buys, swap
  <2> QED BY <1>16, <2>1, <2>2
<1> HIDE DEF buys, swap, sum
<1>18. IsSide(buys) \/ buys = {}
  BY <1>8, SideOfBook
<1>19. ASSUME NEW o \in buys PROVE WithinLimit(o, r.fills[o])
  <2>1. IsSide(buys)
    BY <1>18
  <2>2. pay[o] \in Nat /\ pay[o] >= Share(out, buys, o)
    BY <1>15, <2>1, SharesAreWholeAndFair
  <2>3. o.amountIn \in Nat /\ o.amountIn <= sum
    <3>1. o.amountIn \in Nat /\ \A x \in buys : amounts(buys)[x] \in Nat
      BY <1>8 DEF amounts
    <3>2. amounts(buys)[o] <= Sum(amounts(buys), buys)
      BY <1>8, <3>1, SumBound
    <3> QED BY <1>9, <3>1, <3>2 DEF amounts
  <2>4. o.limit \in Nat /\ p <= o.limit /\ o.side = FALSE
    <3>1. o \in book /\ Eligible(o, p) /\ o.limit \in Nat
      BY DEF buys, EligibleAt, IsBook
    <3> QED BY <1>6, <1>17, <3>1 DEF Eligible
  <2>5. Share(out, buys, o) = mulDiv(out, o.amountIn, sum)
    BY DEF Share, sum
  <2> DEFINE x == o.amountIn
             limit == o.limit
             f == pay[o]
  <2>6. /\ sum \in Nat \ {0} /\ x \in Nat /\ x <= sum /\ out \in Nat \ {0}
        /\ limit \in Nat /\ f \in Nat
        /\ mulDiv(AfterFee(sum), SCALE, out) <= limit
    BY <1>9, <1>12, <1>14, <1>15, <2>2, <2>3, <2>4
  <2>7. mulDiv(out, x, sum) \in Nat
    BY <2>6, MulDivNat
  <2>8. mulDiv(out, x, sum) <= f
    BY <2>2, <2>5, <2>7
  <2> HIDE DEF x, limit, f, out
  <2>9. (AfterFee(x) - 1) * SCALE <= (f + 1) * (limit + 1)
    BY <2>6, <2>8, ShareKeepsLimit
  <2> QED BY <1>17, <2>4, <2>9 DEF WithinLimit, x, limit, f
<1> QED BY <1>17, <1>19 DEF WithinLimits, r

\* There is no more of either token than 64 bits hold.
AmountsWithin(pool, r) ==
  LET flows == deriveAggregateFlows(pool, r.trace)
  IN /\ flows.aFromPool + AmountIn(Buys(DOMAIN r.fills)) < TWO_POW_64
     /\ flows.bFromPool + AmountIn(Sells(DOMAIN r.fills)) < TWO_POW_64

\* What the widths of the amounts are good for.
AmountsFit(pool, r) ==
  /\ SharesFitWidths(pool, r)
  /\ TotalIn(r.trace) + recoverForwardedFee(pool, r.trace) < TWO_POW_64

\* What is known of a clearing of the orders of a book.
ClearingOf(pool, book, r) ==
  /\ DOMAIN r.fills = {o \in book : Eligible(o, r.price)}
  /\ \A o \in DOMAIN r.fills : r.fills[o] \in Nat
  /\ \E gross \in Nat : TraceOf(pool, r.trace, gross)
  /\ PaysNoMoreThanItHas(pool, r) /\ NobodyIsShorted(pool, r)
  /\ AmountsWithin(pool, r) => AmountsFit(pool, r)
  /\ Sells(book) = {} => WithinLimits(r)

\* computeClearing: what is known of the clearing of a book that clears.
LEMMA ClearingFacts ==
  ASSUME NEW pool \in GoodPools, NEW book, IsBook(book),
         Cardinality(book) <= MAX_ORDERS_PER_EPOCH,
         book # {} /\ Funded(pool) # {} /\ Traces(pool, book) => Contained(pool),
         computeClearing(pool, book).cleared
  PROVE  ClearingOf(pool, book, computeClearing(pool, book))
<1> DEFINE p == findClearingPrice(pool, book)
           ev == clearingAt(pool, book, p)
           r == computeClearing(pool, book)
<1>1. r = FilledAt(pool, book, p)
  BY BatchIsBook DEF computeClearing
<1>2. r.cleared /\ (Sells(book) = {} => WithinLimits(r))
  BY BuyBookKeepsLimits
<1>3. Skipped.cleared = FALSE
  BY DEF Skipped
<1> HIDE DEF r
<1>4. book # {} /\ p # NoPrice /\ r = Filled(ev, p)
  BY <1>1, <1>2, <1>3 DEF FilledAt
<1>5. Funded(pool) # {} /\ Contained(pool)
  <2>1. Funded(pool) # {}
    BY <1>4 DEF findClearingPrice
  <2> QED BY <1>4, <2>1, UntracedHasNoPrice
<1>6. p \in Nat
  BY <1>4, <1>5, PriceTypes DEF Prices
<1> HIDE DEF p
<1> DEFINE buys == {o \in Buys(book) : Eligible(o, p)}
           sells == {o \in Sells(book) : Eligible(o, p)}
           bA == AmountIn(buys)
           sA == AmountIn(sells)
           netA == bA - mulDiv(sA, p, SCALE)
           swap == bucketNetSwap(pool, netA, p)
           totalA == bA - swap.ammAIn + swap.ammAOut
           totalB == sA - swap.ammBIn + swap.ammBOut
           payA == ProRata(totalA, sells)
           payB == ProRata(totalB, buys)
<1>7. ev.buys = buys /\ ev.sells = sells /\ ev.swap = swap
  BY DEF clearingAt
<1> HIDE DEF ev
<1>8. /\ ~ ev.swap.saturated
      /\ r = [cleared |-> TRUE, price |-> p, trace |-> swap.trace,
              fills |-> [o \in buys \cup sells |-> IF o.side THEN payA[o] ELSE payB[o]]]
  <2> HIDE DEF buys, sells, swap
  <2> QED BY <1>2, <1>3, <1>4, <1>7 DEF Filled
<1>9. /\ buys \subseteq book /\ sells \subseteq book
      /\ \A o \in buys : o.side = FALSE
      /\ \A o \in sells : o.side = TRUE
      /\ buys \cup sells = {o \in book : Eligible(o, p)}
  <2>1. \A o \in book : o.side = TRUE \/ o.side = FALSE
    BY DEF IsBook
  <2> QED BY <2>1 DEF Buys, Sells
<1> HIDE DEF payA, payB
<1>10. /\ r.price = p /\ r.trace = swap.trace /\ DOMAIN r.fills = buys \cup sells
       /\ \A o \in sells : r.fills[o] = payA[o]
       /\ \A o \in buys : r.fills[o] = payB[o]
  <2>0. r.price = p /\ r.trace = swap.trace
    BY <1>8
  <2> HIDE DEF buys, sells, swap
  <2>1. r.fills = [o \in buys \cup sells |-> IF o.side THEN payA[o] ELSE payB[o]]
    BY <1>8
  <2> QED BY <1>9, <2>0, <2>1
<1> HIDE DEF r, buys, sells
<1>11. /\ buys = {} \/ IsSide(buys)
       /\ sells = {} \/ IsSide(sells)
       /\ bA \in Nat /\ sA \in Nat
  BY <1>9, SideOfBook
<1> HIDE DEF bA, sA
<1>12. /\ netA \in Int /\ netA <= bA
       /\ netA < 0 => p > 0 /\ mulDiv(-netA, SCALE, p) <= sA
  BY <1>6, <1>11, NetFlow
<1> HIDE DEF netA
<1>13. PICK gross : SwapOf(pool, netA, p, swap, gross)
  <2>1. swap.saturated # TRUE
    BY <1>7, <1>8
  <2> QED BY <1>5, <1>6, <1>12, <2>1, SwapFacts
<1> HIDE DEF swap
<1> DEFINE t == swap.trace
           rec == recoverForwardedFee(pool, t)
           flows == deriveAggregateFlows(pool, t)
<1>14. /\ gross \in Nat /\ TraceOf(pool, t, gross)
       /\ t.up => /\ netA < 0 /\ gross = mulDiv(-netA, SCALE, p)
                  /\ swap.ammAIn = 0 /\ swap.ammAOut = TotalOut(t)
                  /\ swap.ammBIn = gross /\ swap.ammBOut = 0
       /\ ~ t.up => /\ gross = netA
                    /\ swap.ammAIn = gross /\ swap.ammAOut = 0
                    /\ swap.ammBIn = 0 /\ swap.ammBOut = TotalOut(t)
  BY <1>13 DEF SwapOf
<1> HIDE DEF t
<1>15. /\ t.up \in BOOLEAN /\ TotalIn(t) = AfterFee(gross) /\ TotalOut(t) \in Nat
       /\ rec \in Nat /\ rec <= gross - AfterFee(gross)
  <2>1. AfterFee(gross) \in 0..gross
    BY <1>14, FeeIsWithinCeiling
  <2> QED BY <1>14, <2>1 DEF TraceOf
<1>16. /\ t.up => /\ flows.aToPool = 0 /\ flows.bToPool = AfterFee(gross) + rec
                  /\ flows.aFromPool = TotalOut(t) /\ flows.bFromPool = 0
       /\ ~ t.up => /\ flows.aToPool = AfterFee(gross) + rec /\ flows.bToPool = 0
                    /\ flows.aFromPool = 0 /\ flows.bFromPool = TotalOut(t)
  BY <1>15 DEF deriveAggregateFlows
<1> HIDE DEF rec, flows
<1> DEFINE feeA == IF t.up THEN 0 ELSE rec
           feeB == IF t.up THEN rec ELSE 0
<1>17. /\ Sharing(sells, swap.ammAIn, flows.aFromPool, bA, feeA, totalA, flows.aToPool, r.fills)
       /\ Sharing(buys, swap.ammBIn, flows.bFromPool, sA, feeB, totalB, flows.bToPool, r.fills)
  <2>1. /\ \A o \in sells : r.fills[o] = ProRata(totalA, sells)[o]
        /\ \A o \in buys : r.fills[o] = ProRata(totalB, buys)[o]
    BY <1>10 DEF payA, payB
  <2> HIDE DEF totalA, totalB
  <2>2. totalA = bA - swap.ammAIn + swap.ammAOut /\ totalB = sA - swap.ammBIn + swap.ammBOut
    BY DEF totalA, totalB
  <2>3. CASE t.up = TRUE
    <3>1. /\ feeA = 0 /\ feeB = rec /\ swap.ammAIn = 0 /\ swap.ammBIn = gross /\ gross <= sA
          /\ flows.aFromPool = swap.ammAOut /\ flows.bFromPool = swap.ammBOut
          /\ flows.aFromPool \in Nat /\ flows.bFromPool \in Nat
          /\ flows.aToPool = 0 /\ flows.bToPool = AfterFee(gross) + rec
      BY <1>12, <1>14, <1>15, <1>16, <2>3
    <3> HIDE DEF feeA, feeB
    <3>2. Sharing(sells, swap.ammAIn, flows.aFromPool, bA, feeA, totalA, flows.aToPool, r.fills)
      <4>1. 0 <= bA /\ 0 <= 0 - 0 /\ 0 = 0 + 0
        BY <1>11
      <4> QED BY <1>11, <2>1, <2>2, <3>1, <4>1, NothingIsFree DEF Sharing
    <3>3. Sharing(buys, swap.ammBIn, flows.bFromPool, sA, feeB, totalB, flows.bToPool, r.fills)
      BY <1>11, <1>14, <1>15, <2>1, <2>2, <3>1 DEF Sharing
    <3> QED BY <3>2, <3>3
  <2>4. CASE t.up = FALSE
    <3>1. /\ feeA = rec /\ feeB = 0 /\ swap.ammAIn = gross /\ swap.ammBIn = 0 /\ gross <= bA
          /\ flows.aFromPool = swap.ammAOut /\ flows.bFromPool = swap.ammBOut
          /\ flows.aFromPool \in Nat /\ flows.bFromPool \in Nat
          /\ flows.bToPool = 0 /\ flows.aToPool = AfterFee(gross) + rec
      BY <1>12, <1>14, <1>15, <1>16, <2>4
    <3> HIDE DEF feeA, feeB
    <3>2. Sharing(sells, swap.ammAIn, flows.aFromPool, bA, feeA, totalA, flows.aToPool, r.fills)
      BY <1>11, <1>14, <1>15, <2>1, <2>2, <3>1 DEF Sharing
    <3>3. Sharing(buys, swap.ammBIn, flows.bFromPool, sA, feeB, totalB, flows.bToPool, r.fills)
      <4>1. 0 <= sA /\ 0 <= 0 - 0 /\ 0 = 0 + 0
        BY <1>11
      <4> QED BY <1>11, <2>1, <2>2, <3>1, <4>1, NothingIsFree DEF Sharing
    <3> QED BY <3>2, <3>3
  <2> QED BY <1>15, <2>3, <2>4
<1>18. /\ SharedOut(sells, flows.aFromPool, bA, feeA, flows.aToPool, r.fills)
       /\ SharedOut(buys, flows.bFromPool, sA, feeB, flows.bToPool, r.fills)
  <2> HIDE DEF feeA, feeB, totalA, totalB
  <2> QED BY <1>17, SideIsPaid
<1>19. Buys(DOMAIN r.fills) = buys /\ Sells(DOMAIN r.fills) = sells
  BY <1>9, <1>10 DEF Buys, Sells
<1>20. r.trace = t
  BY <1>10 DEF t
<1>21. PaysNoMoreThanItHas(pool, r)
  <2>1. Paid(r, sells) = Sum(r.fills, sells) /\ Paid(r, buys) = Sum(r.fills, buys)
    BY DEF Paid, Sum
  <2> HIDE DEF feeA, feeB
  <2> QED BY <1>18, <1>19, <1>20, <2>1 DEF PaysNoMoreThanItHas, SharedOut, flows, bA, sA
<1>22. /\ FloorA(pool, r) = AvailFloor(flows.aFromPool, bA, flows.aToPool, feeA)
       /\ FloorB(pool, r) = AvailFloor(flows.bFromPool, sA, flows.bToPool, feeB)
  BY <1>19, <1>20 DEF FloorA, FloorB, flows, rec, bA, sA
<1>23. NobodyIsShorted(pool, r)
  <2> HIDE DEF feeA, feeB
  <2> QED BY <1>18, <1>19, <1>22 DEF NobodyIsShorted, SharedOut
<1>24. ASSUME AmountsWithin(pool, r) PROVE AmountsFit(pool, r)
  <2>1. flows.aFromPool + bA < TWO_POW_64 /\ flows.bFromPool + sA < TWO_POW_64
    BY <1>19, <1>20, <1>24 DEF AmountsWithin, flows, bA, sA
  <2>2. flows.aFromPool \in Nat /\ flows.bFromPool \in Nat
    BY <1>15, <1>16
  <2>3. TWO_POW_64 \in Nat /\ \A x \in Nat : x < TWO_POW_64 => FitsU128(x)
    BY WidthFacts
  <2>4. FitsU128(flows.aFromPool + bA) /\ FitsU128(flows.bFromPool + sA)
    BY <1>11, <2>1, <2>2, <2>3
  <2>5. bA < TWO_POW_64 /\ sA < TWO_POW_64
    BY <1>11, <2>1, <2>2, <2>3
  <2>6. /\ \A o \in sells : mul_div_fits(FloorA(pool, r), o.amountIn, sA)
        /\ \A o \in buys : mul_div_fits(FloorB(pool, r), o.amountIn, bA)
    <3> HIDE DEF feeA, feeB
    <3> QED BY <1>18, <1>22, <2>1, <2>5 DEF SharedOut, bA, sA
  <2>7. SharesFitWidths(pool, r)
    BY <1>19, <1>20, <2>4, <2>6 DEF SharesFitWidths, flows, bA, sA
  <2>8. gross <= bA \/ gross <= sA
    BY <1>12, <1>14, <1>15
  <2>9. AfterFee(gross) \in 0..gross
    BY <1>14, FeeIsWithinCeiling
  <2>10. AfterFee(gross) + rec < TWO_POW_64
    BY <1>11, <1>14, <1>15, <2>3, <2>5, <2>8, <2>9
  <2>11. TotalIn(r.trace) + recoverForwardedFee(pool, r.trace) < TWO_POW_64
    BY <1>15, <1>20, <2>10 DEF rec
  <2> QED BY <2>7, <2>11 DEF AmountsFit
<1>25. \A o \in DOMAIN r.fills : r.fills[o] \in Nat
  BY <1>10, <1>18 DEF SharedOut
<1>26. DOMAIN r.fills = {o \in book : Eligible(o, r.price)}
  BY <1>9, <1>10
<1>27. \E x \in Nat : TraceOf(pool, r.trace, x)
  BY <1>14, <1>20
<1>28. ClearingOf(pool, book, r)
  BY <1>2, <1>21, <1>23, <1>24, <1>25, <1>26, <1>27 DEF ClearingOf
<1> QED BY <1>28 DEF r

-----------------------------------------------------------------------------
(* Deposits.                                                               *)

\* computeDeposit uses natural numbers of each token.
LEMMA DepositNat ==
  ASSUME NEW x_a \in Nat, NEW x_b \in Nat, NEW p \in Nat, NEW i \in DOMAIN Grid
  PROVE  computeDeposit(x_a, x_b, p, Grid[i]) \in [liquidity : Nat, a : Nat, b : Nat]
<1> DEFINE lo == Grid[i].lower
           hi == Grid[i].upper
           liquidityA(from) == mulDiv(x_a, mulDiv(from, hi, SCALE), hi - from)
           liquidityB(to) == mulDiv(x_b, SCALE, to - lo)
           l == Min({liquidityA(p), liquidityB(p)})
           used == computeDeposit(x_a, x_b, p, Grid[i])
<1>1. SCALE \in Nat \ {0}
  BY SwapConstants
<1>2. lo \in Nat /\ hi \in Nat /\ lo < hi /\ lo * lo >= SCALE
  BY GridFacts
<1>3. used = IF p <= lo THEN [liquidity |-> liquidityA(lo), a |-> x_a, b |-> 0]
             ELSE IF p >= hi THEN [liquidity |-> liquidityB(hi), a |-> 0, b |-> x_b]
             ELSE [liquidity |-> l,
                   a |-> mulDiv(l, hi - p, mulDiv(p, hi, SCALE)),
                   b |-> mulDiv(l, p - lo, SCALE)]
  BY DEF computeDeposit
<1> HIDE DEF lo, hi, used
<1>4. \A q \in Nat : q < hi => liquidityA(q) \in Nat
  <2>1. ASSUME NEW q \in Nat, q < hi PROVE liquidityA(q) \in Nat
    <3>1. hi - q \in Nat \ {0} /\ mulDiv(q, hi, SCALE) \in Nat
      BY <1>1, <1>2, <2>1, MulDivNat
    <3> QED BY <3>1, MulDivNat
  <2> QED BY <2>1
<1>5. \A q \in Nat : lo < q => liquidityB(q) \in Nat
  <2>1. ASSUME NEW q \in Nat, lo < q PROVE liquidityB(q) \in Nat
    <3>1. q - lo \in Nat \ {0}
      BY <1>2, <2>1
    <3> QED BY <1>1, <3>1, MulDivNat
  <2> QED BY <2>1
<1> HIDE DEF liquidityA, liquidityB
<1>6. CASE p <= lo
  <2>1. liquidityA(lo) \in Nat
    BY <1>2, <1>4
  <2> QED BY <1>3, <1>6, <2>1 DEF used
<1>7. CASE p > lo /\ p >= hi
  <2>1. liquidityB(hi) \in Nat
    BY <1>2, <1>5
  <2> QED BY <1>2, <1>3, <1>7, <2>1 DEF used
<1>8. CASE p > lo /\ p < hi
  <2> DEFINE x == liquidityA(p)
             y == liquidityB(p)
             two == {x, y}
             g == mulDiv(p, hi, SCALE)
  <2>1. x \in Nat /\ y \in Nat
    BY <1>4, <1>5, <1>8
  <2> HIDE DEF x, y
  <2>2. l \in Nat
    <3>1. two \subseteq Nat /\ two \subseteq Int /\ two # {}
      BY <2>1
    <3>2. IsFiniteSet(({} \cup {x}) \cup {y}) /\ two = ({} \cup {x}) \cup {y}
      BY FS_EmptySet, FS_AddElement
    <3>3. IsFiniteSet(two)
      BY <3>2
    <3> HIDE DEF two
    <3>4. Min(two) \in Nat
      BY <3>1, <3>3, LeastIn
    <3> QED BY <3>4 DEF two, x, y
  <2> HIDE DEF l
  <2>3. g \in Nat \ {0}
    <3>1. lo <= p /\ lo <= hi
      BY <1>2, <1>8
    <3> QED BY <1>2, <3>1, PricesDivide
  <2> HIDE DEF g
  <2>4. hi - p \in Nat /\ p - lo \in Nat
    BY <1>2, <1>8
  <2>5. mulDiv(l, hi - p, g) \in Nat /\ mulDiv(l, p - lo, SCALE) \in Nat
    BY <1>1, <2>2, <2>3, <2>4, MulDivNat
  <2>6. used = [liquidity |-> l, a |-> mulDiv(l, hi - p, g), b |-> mulDiv(l, p - lo, SCALE)]
    BY <1>2, <1>3, <1>8 DEF g
  <2> QED BY <2>2, <2>5, <2>6 DEF used
<1> QED BY <1>2, <1>6, <1>7, <1>8

\* A deposit leaves a pool of the kind an epoch is cleared against.
LEMMA DepositKeeps ==
  ASSUME NEW pool \in GoodPools, NEW d \in DepositRecords
  PROVE  AddLiquidity(pool, d) \in GoodPools
<1> DEFINE used == computeDeposit(d.a, d.b, pool.sqrtP, pool.bounds[d.bucket])
           i == d.bucket
           old == pool.buckets[i]
           new == [a |-> old.a + used.a, b |-> old.b + used.b,
                   liquidity |-> old.liquidity + used.liquidity]
           B == [a : Nat, b : Nat, liquidity : Nat]
           r == AddLiquidity(pool, d)
<1>1. /\ pool \in [sqrtP : Nat, bounds : {Grid}, buckets : [DOMAIN Grid -> B]]
      /\ pool.bounds = Grid /\ pool.sqrtP \in Nat /\ pool.sqrtP <= Top
  BY DEF GoodPools, PoolRecords
<1>2. i \in DOMAIN Grid /\ d.a \in Nat /\ d.b \in Nat
  BY DEF DepositRecords
<1>3. used \in [liquidity : Nat, a : Nat, b : Nat]
  <2> DEFINE x == d.a
             y == d.b
             p == pool.sqrtP
  <2>1. x \in Nat /\ y \in Nat /\ p \in Nat /\ i \in DOMAIN Grid
    BY <1>1, <1>2
  <2>2. used = computeDeposit(x, y, p, Grid[i])
    BY <1>1
  <2> HIDE DEF x, y, p, i, used
  <2> QED BY <2>1, <2>2, DepositNat
<1>4. r = [pool EXCEPT !.buckets = [pool.buckets EXCEPT ![i] = new]]
  BY DEF AddLiquidity
<1> HIDE DEF used
<1>5. old \in B
  BY <1>1, <1>2
<1> HIDE DEF old, r
<1>6. new \in B
  BY <1>3, <1>5
<1> HIDE DEF new, B, i
<1>7. [pool.buckets EXCEPT ![i] = new] \in [DOMAIN Grid -> B]
  BY <1>1, <1>2, <1>6
<1>8. r \in [sqrtP : Nat, bounds : {Grid}, buckets : [DOMAIN Grid -> B]] /\ r.sqrtP = pool.sqrtP
  BY <1>1, <1>4, <1>7
<1> QED BY <1>1, <1>8 DEF GoodPools, PoolRecords, B, r

IsLaunch(launch, pool) ==
  pool = [n \in 0..Len(launch.funding) |->
    IF n = 0 THEN EmptyPool(launch.sqrtP)
    ELSE AddLiquidity(pool[n - 1], launch.funding[n])]

\* A launched pool is what its last deposit leaves.
LEMMA LaunchedIsLaunch ==
  ASSUME NEW launch
  PROVE  Launched(launch) = (CHOOSE pool : IsLaunch(launch, pool))[Len(launch.funding)]
BY DEF Launched, IsLaunch

\* A launched pool is one of the kind an epoch is cleared against.
LEMMA LaunchTypes ==
  ASSUME NEW launch \in [sqrtP : Grid[1].lower..Grid[Len(Grid)].upper,
                         funding : Seq(DepositRecords)]
  PROVE  Launched(launch) \in GoodPools
<1> DEFINE D == GoodPools
           funding == launch.funding
           n == Len(funding)
           start == EmptyPool(launch.sqrtP)
           next == [k \in 1..n |-> [s \in D |-> AddLiquidity(s, funding[k])]]
<1>1. n \in Nat /\ \A k \in 1..n : funding[k] \in DepositRecords
  <2>1. funding \in Seq(DepositRecords)
    OBVIOUS
  <2> HIDE DEF funding
  <2> QED BY <2>1
<1>2. start \in D
  <2>1. /\ launch.sqrtP \in Nat /\ launch.sqrtP <= Top
    <3>1. 1 \in DOMAIN Grid /\ Top \in Nat
      BY GridFacts
    <3>2. Grid[1].lower \in Nat
      BY <3>1, GridFacts
    <3> QED BY <3>1, <3>2 DEF Top
  <2> QED BY <2>1 DEF EmptyPool, GoodPools, PoolRecords
<1> HIDE DEF funding, n, start
<1>3. next \in [1..n -> [D -> D]]
  <2>1. \A k \in 1..n : \A s \in D : AddLiquidity(s, funding[k]) \in D
    BY <1>1, DepositKeeps
  <2> HIDE DEF D
  <2> QED BY <2>1
<1> HIDE DEF D
<1>4. \A k \in 1..n : \A s \in D : next[k][s] = AddLiquidity(s, funding[k])
  OBVIOUS
<1> HIDE DEF next
<1>5. Recursion(n, D, start, next)
  BY <1>1, <1>2, <1>3 DEF Recursion
<1>6. PICK r : Follows(r, n, D, start, next)
  BY <1>5, Iterates
<1>7. r \in [0..n -> D] /\ r[0] = start /\ \A k \in 1..n : r[k] = next[k][r[k - 1]]
  BY <1>6 DEF Follows
<1> DEFINE W(w, k) == IF k = 0 THEN start ELSE AddLiquidity(w[k - 1], funding[k])
<1>8. ASSUME NEW k \in 0..n PROVE r[k] = W(r, k)
  <2>1. CASE k = 0
    BY <1>7, <2>1
  <2>2. CASE k # 0
    <3>1. k \in 1..n /\ k - 1 \in 0..n
      BY <1>1, <2>2
    <3>2. r[k] = AddLiquidity(r[k - 1], funding[k])
      BY <1>4, <1>7, <3>1
    <3> QED BY <2>2, <3>2
  <2> QED BY <2>1, <2>2
<1>9. \A w : IsLaunch(launch, w) = (w = [k \in 0..n |-> W(w, k)])
  BY DEF IsLaunch, start, n, funding
<1> DEFINE w == CHOOSE pool : IsLaunch(launch, pool)
<1>10. IsLaunch(launch, r)
  <2> HIDE DEF W
  <2>1. r = [k \in 0..n |-> r[k]]
    BY <1>7
  <2>2. r = [k \in 0..n |-> W(r, k)]
    BY <1>8, <2>1
  <2> QED BY <1>9, <2>2
<1>11. IsLaunch(launch, w)
  BY <1>10
<1> HIDE DEF w
<1>12. \A k \in 0..n : w[k] = W(w, k)
  <2> HIDE DEF W
  <2>1. w = [k \in 0..n |-> W(w, k)]
    BY <1>9, <1>11
  <2> QED BY <2>1
<1>13. w[0] \in D
  BY <1>1, <1>2, <1>12
<1>14. ASSUME NEW k \in 1..n, w[k - 1] \in D PROVE w[k] \in D
  <2>1. k \in 0..n /\ k # 0
    BY <1>1
  <2>2. w[k] = AddLiquidity(w[k - 1], funding[k])
    BY <1>12, <2>1
  <2> QED BY <1>1, <1>14, <2>2, DepositKeeps DEF D
<1>15. w[n] \in D
  <2>1. \A k \in 1..n : w[k - 1] \in D => w[k] \in D
    BY <1>14
  <2>2. \A k \in 0..n : w[k] \in D
    BY <1>1, <1>13, <2>1, StaysIn
  <2> QED BY <1>1, <2>2
<1> QED BY <1>15, LaunchedIsLaunch DEF w, n, D, funding

-----------------------------------------------------------------------------
(* The circuit's view of a trace.                                          *)

IsChain(pool, trace, chain) ==
  chain = [k \in 0..Len(trace.deltas) |->
    IF k = 0 THEN pool.sqrtP ELSE BucketStep(pool, trace, chain[k - 1], trace.deltas[k])]

ChainAccepted(pool, trace, chain) ==
  /\ \A k \in 1..Len(trace.deltas) : assert_bucket_step(pool, trace, chain[k - 1], trace.deltas[k])
  /\ chain[Len(trace.deltas)] = trace.sqrtP

\* The circuit accepts a trace whose steps follow from one another.
LEMMA EvolvesIsChain ==
  ASSUME NEW pool, NEW trace,
         ChainAccepted(pool, trace, CHOOSE chain : IsChain(pool, trace, chain))
  PROVE  PoolEvolves(pool, trace)
BY DEF PoolEvolves, IsChain, ChainAccepted

\* A step at which nothing moves.
LEMMA NoOpStep ==
  ASSUME NEW pool \in PoolRecords, NEW t, NEW d \in DeltaRecords, IsNoOp(d), NEW p
  PROVE  BucketStep(pool, t, p, d) = p /\ assert_bucket_step(pool, t, p, d)
<1>1. BucketStep(pool, t, p, d) = p
  BY DEF BucketStep, IsNoOp
<1>2. d.out = 0 /\ d.bucket \in DOMAIN Grid
  BY DEF IsNoOp, DeltaRecords
<1>3. pool.buckets[d.bucket].a \in Nat /\ pool.buckets[d.bucket].b \in Nat
  BY <1>2 DEF PoolRecords
<1>4. d.out <= IF t.up THEN pool.buckets[d.bucket].a ELSE pool.buckets[d.bucket].b
  BY <1>2, <1>3
<1> QED BY <1>1, <1>4 DEF assert_bucket_step

\* The numbers of a step are within 64 bits.
StepWithin(pool, sqrtP, d) ==
  LET bucket == pool.buckets[d.bucket]
  IN /\ d.in < TWO_POW_64 /\ bucket.a < TWO_POW_64 /\ bucket.b < TWO_POW_64
     /\ pool.sqrtP < TWO_POW_64 /\ sqrtP < TWO_POW_64
     /\ mulDiv(pool.sqrtP, sqrtP, SCALE) < TWO_POW_64
     /\ bucket.liquidity + mulDiv(d.in, pool.sqrtP, SCALE) < TWO_POW_64

\* A step within a bucket is computed within the widths.
LEMMA StepFitsWidths ==
  ASSUME NEW up \in BOOLEAN, NEW l \in Nat \ {0}, NEW i \in DOMAIN Grid, NEW p \in Nat,
         Grid[i].lower <= p, NEW in \in Nat, NEW q, q = NextSqrtP(up, l, p, in),
         in < TWO_POW_64, p < TWO_POW_64, q < TWO_POW_64,
         mulDiv(p, q, SCALE) < TWO_POW_64, l + mulDiv(in, p, SCALE) < TWO_POW_64
  PROVE  /\ up => /\ mul_div_fits(in, SCALE, l) /\ FitsU128(q)
                  /\ mul_div_fits(p, q, SCALE) /\ mul_div_fits(l, q - p, mulDiv(p, q, SCALE))
         /\ ~ up => /\ mul_div_fits(in, p, SCALE) /\ mul_div_fits(p, l, l + mulDiv(in, p, SCALE))
                    /\ mul_div_fits(l, p - q, SCALE)
<1> DEFINE g == mulDiv(in, p, SCALE)
           m == mulDiv(p, q, SCALE)
           e == Grid[i].lower
<1>1. /\ SCALE \in Nat \ {0} /\ SCALE \in 1..(TWO_POW_64 - 1) /\ TWO_POW_64 \in Nat
      /\ SCALE < TWO_POW_64
  BY SwapConstants, WidthFacts
<1>2. e \in Nat /\ e * e >= SCALE /\ e <= p
  BY GridFacts
<1> HIDE DEF e
<1>3. g \in Nat
  BY <1>1, MulDivNat
<1>4. l < TWO_POW_64 /\ l \in 1..(TWO_POW_64 - 1) /\ l + g \in 1..(TWO_POW_64 - 1)
  BY <1>1, <1>3
<1>5. CASE up
  <2> DEFINE x == mulDiv(in, SCALE, l)
  <2>1. q = p + x
    BY <1>5 DEF NextSqrtP, nextSqrtPUp
  <2>2. x \in Nat
    BY <1>1, MulDivNat
  <2> HIDE DEF x
  <2>3. q \in Nat /\ p <= q /\ q - p \in Nat /\ q - p < TWO_POW_64
    BY <1>1, <2>1, <2>2
  <2>4. m \in Nat \ {0} /\ m < TWO_POW_64
    BY <1>2, <2>3, PricesDivide
  <2> HIDE DEF m
  <2>5. m \in 1..(TWO_POW_64 - 1)
    BY <1>1, <2>4
  <2>6. mul_div_fits(in, SCALE, l) /\ mul_div_fits(p, q, SCALE) /\ mul_div_fits(l, q - p, m)
    BY <1>1, <1>4, <2>3, <2>5, FactorsFit
  <2>7. FitsU128(q)
    BY <2>3, WidthFacts
  <2> QED BY <1>5, <2>6, <2>7 DEF m
<1>6. CASE ~ up
  <2>1. q = mulDiv(p, l, l + g)
    BY <1>6 DEF NextSqrtP, nextSqrtPDown
  <2> HIDE DEF g
  <2>2. q \in Nat /\ q * (l + g) <= p * l
    BY <1>3, <2>1, MulDivNat
  <2>3. l * q <= (l + g) * q
    BY <1>3, <2>2, ProductOrder
  <2>4. q * l <= p * l
    <3>1. l * q = q * l /\ (l + g) * q = q * (l + g) /\ q * l \in Int /\ q * (l + g) \in Int /\ p * l \in Int
      BY <1>3, <2>2
    <3> QED BY <2>2, <2>3, <3>1
  <2>5. q <= p
    BY <2>2, <2>4, CancelFactor
  <2>6. p - q \in Nat /\ p - q < TWO_POW_64
    BY <1>1, <2>2, <2>5
  <2>7. mul_div_fits(in, p, SCALE) /\ mul_div_fits(p, l, l + g) /\ mul_div_fits(l, p - q, SCALE)
    BY <1>1, <1>4, <2>6, FactorsFit
  <2> QED BY <1>6, <2>7 DEF g
<1> QED BY <1>5, <1>6

\* The step at which the price moves.
LEMMA MovingStep ==
  ASSUME NEW pool \in PoolRecords, NEW t, t.up \in BOOLEAN, NEW d \in DeltaRecords, d.in > 0,
         d.out <= IF t.up THEN pool.buckets[d.bucket].a ELSE pool.buckets[d.bucket].b,
         t.sqrtP = NextSqrtP(t.up, pool.buckets[d.bucket].liquidity, pool.sqrtP, d.in),
         d.out = StepOut(t.up, pool.buckets[d.bucket].liquidity, pool.sqrtP, t.sqrtP),
         pool.buckets[d.bucket].liquidity # 0, Grid[d.bucket].lower <= pool.sqrtP,
         StepWithin(pool, t.sqrtP, d)
  PROVE  /\ BucketStep(pool, t, pool.sqrtP, d) = t.sqrtP
         /\ assert_bucket_step(pool, t, pool.sqrtP, d)
<1> DEFINE l == pool.buckets[d.bucket].liquidity
           p == pool.sqrtP
           due == ExpectedOut(pool, t, p, d)
<1>1. d.in \in Nat /\ d.in # 0 /\ d.out \in Nat /\ d.bucket \in DOMAIN Grid
  BY DEF DeltaRecords
<1>2. BucketStep(pool, t, p, d) = t.sqrtP
  BY <1>1 DEF BucketStep, NextSqrtP, nextSqrtPUp, nextSqrtPDown, next_sqrt_p_up, next_sqrt_p_down
<1>3. due = StepOut(t.up, l, p, t.sqrtP)
  BY <1>2 DEF ExpectedOut, StepOut, swapStepOutA, swapStepOutB, swap_step_out_a, swap_step_out_b
<1>4. due = d.out
  BY <1>3
<1> HIDE DEF due
<1>5. d.out \in (due - 1)..(due + 1)
  BY <1>1, <1>4
<1>6. StepFits(pool, t, p, d)
  <2> DEFINE q == t.sqrtP
             in == d.in
             i == d.bucket
             up == t.up
  <2>1. /\ p \in Nat /\ pool.buckets[i].a \in Nat /\ pool.buckets[i].b \in Nat /\ l \in Nat \ {0}
    <3>1. pool.buckets[i] \in [a : Nat, b : Nat, liquidity : Nat] /\ pool.sqrtP \in Nat
      BY <1>1 DEF PoolRecords
    <3> QED BY <3>1
  <2>2. /\ up \in BOOLEAN /\ i \in DOMAIN Grid /\ Grid[i].lower <= p /\ in \in Nat
        /\ q = NextSqrtP(up, l, p, in)
        /\ in < TWO_POW_64 /\ p < TWO_POW_64 /\ q < TWO_POW_64
        /\ mulDiv(p, q, SCALE) < TWO_POW_64 /\ l + mulDiv(in, p, SCALE) < TWO_POW_64
        /\ pool.buckets[i].a < TWO_POW_64 /\ pool.buckets[i].b < TWO_POW_64
    BY <1>1 DEF StepWithin
  <2>3. BucketStep(pool, t, p, d) = q
    BY <1>2
  <2>4. StepFits(pool, t, p, d) =
          IF up
          THEN /\ FitsU128(pool.buckets[i].b + in)
               /\ mul_div_fits(in, SCALE, l) /\ FitsU128(q)
               /\ mul_div_fits(p, q, SCALE) /\ mul_div_fits(l, q - p, mulDiv(p, q, SCALE))
          ELSE /\ FitsU128(pool.buckets[i].a + in)
               /\ mul_div_fits(in, p, SCALE) /\ mul_div_fits(p, l, l + mulDiv(in, p, SCALE))
               /\ mul_div_fits(l, p - q, SCALE)
    BY <2>3 DEF StepFits
  <2>5. FitsU128(pool.buckets[i].a + in) /\ FitsU128(pool.buckets[i].b + in)
    BY <2>1, <2>2, SumFits
  <2> HIDE DEF q, in, i, up, l, p
  <2>6. /\ up => /\ mul_div_fits(in, SCALE, l) /\ FitsU128(q)
                 /\ mul_div_fits(p, q, SCALE) /\ mul_div_fits(l, q - p, mulDiv(p, q, SCALE))
        /\ ~ up => /\ mul_div_fits(in, p, SCALE) /\ mul_div_fits(p, l, l + mulDiv(in, p, SCALE))
                   /\ mul_div_fits(l, p - q, SCALE)
    BY <2>1, <2>2, StepFitsWidths
  <2> QED BY <2>2, <2>4, <2>5, <2>6
<1> QED BY <1>1, <1>2, <1>5, <1>6 DEF assert_bucket_step, due

\* The numbers of a trace are within 64 bits.
TraceWithin(pool, t) ==
  /\ TotalIn(t) + recoverForwardedFee(pool, t) < TWO_POW_64
  /\ pool.sqrtP < TWO_POW_64 /\ t.sqrtP < TWO_POW_64
  /\ mulDiv(pool.sqrtP, t.sqrtP, SCALE) < TWO_POW_64
  /\ \A k \in DOMAIN t.deltas :
       LET bucket == pool.buckets[t.deltas[k].bucket]
       IN /\ bucket.a < TWO_POW_64 /\ bucket.b < TWO_POW_64
          /\ bucket.liquidity + mulDiv(t.deltas[k].in, pool.sqrtP, SCALE) < TWO_POW_64

\* What a step puts in, and what is recovered of its fee, is part of the whole.
LEMMA StepOfTrace ==
  ASSUME NEW pool \in PoolRecords, NEW t, t.deltas \in Seq(DeltaRecords), TraceWithin(pool, t),
         NEW k \in 1..Len(t.deltas)
  PROVE  /\ t.deltas[k].in < TWO_POW_64
         /\ recovered(pool, t.deltas)[k] \in Nat /\ recovered(pool, t.deltas)[k] < TWO_POW_64
<1> DEFINE ds == t.deltas
           n == Len(ds)
<1>1. /\ n \in Nat /\ DOMAIN ds = 1..n
      /\ \A j \in 1..n : ds[j] \in DeltaRecords /\ ins(ds)[j] \in Nat /\ recovered(pool, ds)[j] \in Nat
  BY DeltaTypes
<1>2. InSum(ds) + RecoveredSum(pool, ds) < TWO_POW_64
  BY TraceSums DEF TraceWithin
<1>3. InSum(ds) \in Nat /\ RecoveredSum(pool, ds) \in Nat
  BY SumsNat
<1>4. ins(ds)[k] = ds[k].in
  BY <1>1 DEF ins
<1> HIDE DEF ds
<1>5. IsFiniteSet(1..n)
  BY <1>1, FS_Interval
<1>6. k \in 1..n
  BY DEF ds
<1>7. ins(ds)[k] <= InSum(ds) /\ recovered(pool, ds)[k] <= RecoveredSum(pool, ds)
  BY <1>1, <1>5, <1>6, SumBound DEF InSum, RecoveredSum
<1>8. ins(ds)[k] < TWO_POW_64 /\ recovered(pool, ds)[k] < TWO_POW_64
  BY <1>1, <1>2, <1>3, <1>6, <1>7, WidthFacts
<1> QED BY <1>1, <1>4, <1>6, <1>8 DEF ds

\* The circuit follows a trace that moves in the bucket of its first price, and whose
\* numbers its arithmetic holds.
THEOREM TraceEvolves ==
  ASSUME NEW pool \in GoodPools, NEW t, NEW gross \in Nat, TraceOf(pool, t, gross),
         StaysInABucket(pool, t), TraceWithin(pool, t)
  PROVE  PoolEvolves(pool, t)
<1> DEFINE n == Len(t.deltas)
           w == CHOOSE chain : IsChain(pool, t, chain)
           W(c, k) == IF k = 0 THEN pool.sqrtP ELSE BucketStep(pool, t, c[k - 1], t.deltas[k])
<1>1. pool \in PoolRecords /\ pool.bounds = Grid
  BY DEF GoodPools, PoolRecords
<1>2. /\ t.up \in BOOLEAN /\ n \in Nat /\ DOMAIN t.deltas = 1..n
      /\ \A k \in 1..n : t.deltas[k] \in DeltaRecords
  <2>1. t.deltas \in Seq(DeltaRecords) /\ t.up \in BOOLEAN
    BY DEF TraceOf
  <2> QED BY <1>1, <2>1, DeltaTypes
<1>3. \A c : IsChain(pool, t, c) = (c = [k \in 0..n |-> W(c, k)])
  BY DEF IsChain
<1>4. CASE AfterFee(gross) = 0
  <2>1. t.deltas = <<>> /\ t.sqrtP = pool.sqrtP
    BY <1>4 DEF TraceOf
  <2>2. n = 0
    BY <2>1
  <2> DEFINE c == [k \in 0..n |-> pool.sqrtP]
  <2>3. IsChain(pool, t, c)
    <3>1. \A k \in 0..n : W(c, k) = pool.sqrtP
      BY <2>2
    <3>2. c = [k \in 0..n |-> W(c, k)]
      <4> HIDE DEF W
      <4> QED BY <3>1
    <3> HIDE DEF c, W
    <3> QED BY <1>3, <3>2
  <2>4. IsChain(pool, t, w)
    <3> HIDE DEF c
    <3> QED BY <2>3
  <2> HIDE DEF w
  <2>5. w[0] = pool.sqrtP
    <3>1. 0 \in 0..n
      BY <2>2
    <3> HIDE DEF W
    <3>2. w[0] = W(w, 0)
      BY <1>3, <2>4, <3>1
    <3> QED BY <3>2 DEF W
  <2>6. ChainAccepted(pool, t, w)
    BY <2>1, <2>2, <2>5 DEF ChainAccepted
  <2> QED BY <2>6, EvolvesIsChain DEF w
<1>5. CASE AfterFee(gross) # 0
  <2>1. PICK m \in 1..n : /\ t.deltas[m].in > 0
                          /\ Inside(pool.sqrtP, t.deltas[m].bucket) => Moves(pool, t, m)
    BY <1>2, <1>5 DEF TraceOf
  <2> DEFINE d == t.deltas[m]
  <2>2. d \in DeltaRecords /\ d.bucket \in DOMAIN Grid
    BY <1>2 DEF DeltaRecords
  <2>3. /\ pool.sqrtP \in Grid[d.bucket].lower..Grid[d.bucket].upper
        /\ d.out <= IF t.up THEN pool.buckets[d.bucket].a ELSE pool.buckets[d.bucket].b
    BY <1>1, <1>2, <2>1 DEF StaysInABucket
  <2>4. Moves(pool, t, m)
    BY <2>1, <2>3 DEF Inside
  <2>5. /\ \A j \in 1..n : j # m => IsNoOp(t.deltas[j])
        /\ t.sqrtP = NextSqrtP(t.up, pool.buckets[d.bucket].liquidity, pool.sqrtP, d.in)
        /\ d.out = StepOut(t.up, pool.buckets[d.bucket].liquidity, pool.sqrtP, t.sqrtP)
    BY <1>2, <2>4 DEF Moves
  <2>6. /\ BucketStep(pool, t, pool.sqrtP, d) = t.sqrtP
        /\ assert_bucket_step(pool, t, pool.sqrtP, d)
    <3>1. t.up \in BOOLEAN /\ d \in DeltaRecords /\ d.in > 0
      BY <1>2, <2>1, <2>2
    <3>2. /\ d.out <= IF t.up THEN pool.buckets[d.bucket].a ELSE pool.buckets[d.bucket].b
          /\ t.sqrtP = NextSqrtP(t.up, pool.buckets[d.bucket].liquidity, pool.sqrtP, d.in)
          /\ d.out = StepOut(t.up, pool.buckets[d.bucket].liquidity, pool.sqrtP, t.sqrtP)
      BY <2>3, <2>5
    <3>3. pool.buckets[d.bucket].liquidity # 0
      BY <1>2 DEF TraceOf
    <3>4. Grid[d.bucket].lower <= pool.sqrtP
      BY <2>3
    <3>5. StepWithin(pool, t.sqrtP, d)
      <4>1. d.in < TWO_POW_64
        BY <1>1, StepOfTrace DEF TraceOf
      <4> QED BY <1>2, <4>1 DEF TraceWithin, StepWithin
    <3> HIDE DEF d
    <3> QED BY <1>1, <3>1, <3>2, <3>3, <3>4, <3>5, MovingStep
  <2>7. ASSUME NEW j \in 1..n, j # m, NEW p
        PROVE  BucketStep(pool, t, p, t.deltas[j]) = p /\ assert_bucket_step(pool, t, p, t.deltas[j])
    BY <1>1, <1>2, <2>5, <2>7, NoOpStep
  <2> DEFINE c == [k \in 0..n |-> IF k < m THEN pool.sqrtP ELSE t.sqrtP]
  <2>8. \A k \in 0..n : W(c, k) = c[k]
    <3>1. ASSUME NEW k \in 0..n PROVE W(c, k) = c[k]
      <4>1. CASE k = 0
        BY <4>1
      <4>2. CASE k # 0 /\ k = m
        <5>1. k - 1 \in 0..n /\ k - 1 < m /\ c[k - 1] = pool.sqrtP /\ c[k] = t.sqrtP
          BY <1>2, <4>2
        <5> HIDE DEF c
        <5> QED BY <2>6, <4>2, <5>1
      <4>3. CASE k # 0 /\ k # m
        <5>1. k - 1 \in 0..n /\ c[k - 1] = c[k] /\ k \in 1..n
          BY <1>2, <4>3
        <5> HIDE DEF c
        <5> QED BY <2>7, <4>3, <5>1
      <4> QED BY <4>1, <4>2, <4>3
    <3> QED BY <3>1
  <2>9. IsChain(pool, t, c)
    <3> HIDE DEF W
    <3>1. c = [k \in 0..n |-> c[k]]
      OBVIOUS
    <3>2. c = [k \in 0..n |-> W(c, k)]
      <4> HIDE DEF c
      <4> QED BY <2>8, <3>1
    <3> HIDE DEF c
    <3> QED BY <1>3, <3>2
  <2>10. IsChain(pool, t, w)
    <3> HIDE DEF c
    <3> QED BY <2>9
  <2>11. \A k \in 0..n : c[k] = IF k < m THEN pool.sqrtP ELSE t.sqrtP
    OBVIOUS
  <2> HIDE DEF w, c
  <2>12. \A k \in 0..n : w[k] = W(w, k)
    <3> HIDE DEF W
    <3>1. w = [k \in 0..n |-> W(w, k)]
      BY <1>3, <2>10
    <3> QED BY <3>1
  <2> DEFINE P == {k \in 0..n : w[k] = c[k]}
  <2>13. 0 \in P
    <3>1. 0 \in 0..n
      BY <1>2
    <3> QED BY <2>8, <2>12, <3>1
  <2>14. ASSUME NEW k \in 1..n, k - 1 \in P PROVE k \in P
    <3>1. k \in 0..n /\ k # 0 /\ w[k - 1] = c[k - 1]
      BY <1>2, <2>14
    <3>2. W(w, k) = W(c, k)
      BY <3>1
    <3> HIDE DEF W
    <3> QED BY <2>8, <2>12, <3>1, <3>2
  <2>15. \A k \in 0..n : w[k] = c[k]
    <3>1. \A k \in 1..n : k - 1 \in P => k \in P
      BY <2>14
    <3> HIDE DEF P
    <3>2. 0..n \subseteq P
      BY <1>2, <2>13, <3>1, CountUp
    <3> QED BY <3>2 DEF P
  <2>16. \A k \in 1..n : assert_bucket_step(pool, t, w[k - 1], t.deltas[k])
    <3>1. ASSUME NEW k \in 1..n PROVE assert_bucket_step(pool, t, w[k - 1], t.deltas[k])
      <4>1. CASE k = m
        <5>1. k - 1 \in 0..n /\ k - 1 < m
          BY <1>2, <4>1
        <5>2. w[k - 1] = pool.sqrtP
          BY <2>11, <2>15, <5>1
        <5> QED BY <2>6, <4>1, <5>2
      <4>2. CASE k # m
        BY <2>7, <4>2
      <4> QED BY <4>1, <4>2
    <3> QED BY <3>1
  <2>17. w[n] = t.sqrtP
    <3>1. n \in 0..n /\ ~ (n < m)
      BY <1>2
    <3> QED BY <2>11, <2>15, <3>1
  <2>18. ChainAccepted(pool, t, w)
    BY <2>16, <2>17 DEF ChainAccepted
  <2> QED BY <2>18, EvolvesIsChain DEF w
<1> QED BY <1>4, <1>5

\* A counter that recovers a fee of 64 bits is multiplied out within the widths.
LEMMA RecoveryFits ==
  ASSUME NEW inc \in Nat, NEW l \in Nat \ {0}, l < TWO_POW_64,
         mulDiv(inc, l, SCALE) < TWO_POW_64
  PROVE  mul_div_fits(inc, l, SCALE)
<1> DEFINE W == TWO_POW_64
           x == inc * l
           rec == x \div SCALE
<1>1. W \in Nat \ {0} /\ SCALE \in 1..(W - 1) /\ SCALE \in Nat \ {0} /\ SCALE <= W /\ l < W
  BY WidthFacts, SwapConstants
<1>2. x \in Nat /\ inc <= x
  <2>1. x \in Nat /\ 1 * inc <= l * inc /\ l * inc = x
    BY ProductNat, ProductOrder
  <2> QED BY <2>1
<1>3. rec < W
  BY DEF mulDiv
<1> HIDE DEF W, x
<1>4. rec \in Nat /\ x < rec * SCALE + SCALE
  BY <1>1, <1>2, Floor
<1> HIDE DEF rec
<1>5. /\ rec * SCALE + SCALE = (rec + 1) * SCALE
      /\ (rec + 1) * SCALE <= W * SCALE /\ SCALE * W <= W * W /\ W * SCALE = SCALE * W
  <2>1. rec + 1 <= W /\ rec + 1 \in Nat
    BY <1>1, <1>3, <1>4
  <2>2. (rec + 1) * SCALE <= W * SCALE
    BY <1>1, <2>1, ProductOrder
  <2>3. SCALE * W <= W * W
    BY <1>1, ProductOrder
  <2> QED BY <1>1, <1>4, <2>2, <2>3, FactorOut
<1>6. x < W * W
  <2>1. (rec + 1) * SCALE \in Int /\ W * SCALE \in Int /\ W * W \in Int /\ rec * SCALE \in Int
    BY <1>1, <1>4
  <2> QED BY <1>2, <1>4, <1>5, <2>1
<1>7. inc < W * W
  <2>1. W * W \in Int
    BY <1>1
  <2> QED BY <1>2, <1>6, <2>1
<1>8. FitsU128(inc * l) /\ FitsU128(inc) /\ FitsU128(l)
  <2>1. l < TWO_POW_64 => FitsU128(l)
    BY WidthFacts
  <2> QED BY <1>6, <1>7, <2>1 DEF FitsU128, W, x
<1> QED BY <1>1, <1>8, SmallProductFits DEF W

\* Nor does it reject the fee.
LEMMA TraceFeesAccepted ==
  ASSUME NEW pool \in PoolRecords, NEW t, NEW gross \in Nat, TraceOf(pool, t, gross),
         TraceWithin(pool, t)
  PROVE  FeesWereCollected(pool, t)
<1>1. /\ AfterFee(gross) \in 0..gross /\ ceil_fee_from_net(AfterFee(gross)) \in Nat
      /\ gross - AfterFee(gross) <= ceil_fee_from_net(AfterFee(gross))
  BY FeeIsWithinCeiling
<1>2. TotalIn(t) = AfterFee(gross) /\ recoverForwardedFee(pool, t) \in 0..(gross - AfterFee(gross))
  BY DEF TraceOf
<1>3. recoverForwardedFee(pool, t) <= ceil_fee_from_net(AfterFee(gross))
  <2> DEFINE net == AfterFee(gross)
             ceil == ceil_fee_from_net(net)
             rec == recoverForwardedFee(pool, t)
  <2>1. /\ net \in 0..gross /\ ceil \in Nat /\ gross - net <= ceil /\ rec \in 0..(gross - net)
    BY <1>1, <1>2
  <2> HIDE DEF net, ceil, rec
  <2>2. rec <= ceil
    BY <2>1
  <2> QED BY <2>2 DEF net, ceil, rec
<1>4. ASSUME NEW k \in DOMAIN t.deltas
      PROVE  mul_div_fits(t.deltas[k].feeInc, pool.buckets[t.deltas[k].bucket].liquidity, SCALE)
  <2> DEFINE inc == t.deltas[k].feeInc
             l == pool.buckets[t.deltas[k].bucket].liquidity
  <2>1. t.deltas \in Seq(DeltaRecords)
    BY DEF TraceOf
  <2>2. k \in 1..Len(t.deltas) /\ t.deltas[k] \in DeltaRecords
    BY <2>1, DeltaTypes
  <2>3. /\ inc \in Nat /\ t.deltas[k].in \in Nat /\ t.deltas[k].bucket \in DOMAIN Grid
    BY <2>2 DEF DeltaRecords
  <2>4. l \in Nat \ {0} /\ pool.sqrtP \in Nat
    BY <2>3 DEF PoolRecords, TraceOf
  <2>5. mulDiv(t.deltas[k].in, pool.sqrtP, SCALE) \in Nat
    BY <2>3, <2>4, MulDivNat, SwapConstants
  <2>6. l + mulDiv(t.deltas[k].in, pool.sqrtP, SCALE) < TWO_POW_64
    BY DEF TraceWithin
  <2>7. recovered(pool, t.deltas)[k] < TWO_POW_64
    BY <2>1, <2>2, StepOfTrace
  <2>8. mulDiv(inc, l, SCALE) < TWO_POW_64
    BY <2>7 DEF recovered
  <2> HIDE DEF inc, l
  <2>9. l < TWO_POW_64
    BY <2>4, <2>5, <2>6, WidthFacts
  <2>10. mul_div_fits(inc, l, SCALE)
    BY <2>3, <2>4, <2>8, <2>9, RecoveryFits
  <2> QED BY <2>10 DEF inc, l
<1>5. FitsU128((TotalIn(t) + 1) * FEE_BPS + (FEE_SCALE - FEE_BPS) - 1)
  <2> DEFINE W == TWO_POW_64
             x == TotalIn(t) + 1
             S == FEE_SCALE
             F == FEE_BPS
  <2>1. W \in Nat /\ S \in Nat /\ S < W /\ F \in Nat /\ F < S
    BY WidthConstants, SwapConstants
  <2>2. x \in Nat /\ x <= W
    <3>1. TotalIn(t) \in Nat /\ recoverForwardedFee(pool, t) \in Nat
      BY <1>1, <1>2
    <3> QED BY <2>1, <3>1 DEF TraceWithin
  <2> HIDE DEF W, x, S, F
  <2>3. x * F <= W * F /\ F * W = W * F /\ x * F \in Int
    BY <2>1, <2>2, ProductOrder
  <2>4. (F + (S - F)) * W <= W * W /\ (F + (S - F)) * W = F * W + (S - F) * W
    BY <2>1, ProductOrder, FactorOut
  <2>5. 1 * (S - F) <= W * (S - F) /\ W * (S - F) = (S - F) * W
    BY <2>1, ProductOrder
  <2>6. W * F \in Int /\ F * W \in Int /\ (S - F) * W \in Int /\ W * (S - F) \in Int /\ W * W \in Int
        /\ (F + (S - F)) * W \in Int
    BY <2>1
  <2>7. x * F + (S - F) - 1 < W * W
    BY <2>1, <2>3, <2>4, <2>5, <2>6
  <2> QED BY <2>7 DEF FitsU128, W, x, S, F
<1> QED BY <1>2, <1>3, <1>4, <1>5 DEF FeesWereCollected

-----------------------------------------------------------------------------
(* The pool after a trace.                                                 *)

\* A sum of one term.
LEMMA SumOne ==
  ASSUME NEW f, NEW x, f[x] \in Int
  PROVE  Sum(f, {x}) = f[x]
<1>1. IsFiniteSet({}) /\ x \notin {} /\ IntOn(f, {} \cup {x}) /\ {} \cup {x} = {x}
  BY FS_EmptySet DEF IntOn
<1>2. Sum(f, {} \cup {x}) = Sum(f, {}) + f[x]
  BY <1>1, SumAdd
<1> QED BY <1>1, <1>2, SumEmpty

\* What the steps of a bucket, of which there is one at most, sum to.
LEMMA VisitSum ==
  ASSUME NEW V, NEW f, NEW bound \in Nat,
         \A j, k \in V : j = k,
         \A k \in V : f[k] \in Nat /\ f[k] <= bound
  PROVE  Sum(f, V) \in Nat /\ Sum(f, V) <= bound
<1>1. CASE V = {}
  BY <1>1, SumEmpty
<1>2. CASE V # {}
  <2>1. PICK k \in V : V = {k}
    BY <1>2
  <2>2. Sum(f, {k}) = f[k]
    <3>1. f[k] \in Int
      OBVIOUS
    <3> QED BY <3>1, SumOne
  <2> QED BY <2>1, <2>2
<1> QED BY <1>1, <1>2

\* No step takes out what its bucket has not got.
Backed(pool, t) ==
  \A k \in DOMAIN t.deltas :
    LET bucket == pool.buckets[t.deltas[k].bucket]
    IN t.deltas[k].out <= IF t.up THEN bucket.a ELSE bucket.b

\* Applying a trace that its buckets back leaves a pool of the kind an epoch is
\* cleared against.
LEMMA ApplyKeeps ==
  ASSUME NEW pool \in GoodPools, NEW t, NEW old, NEW gross, TraceOf(old, t, gross),
         Backed(pool, t)
  PROVE  ApplyTrace(pool, t) \in GoodPools
<1> DEFINE visits(i) == {k \in DOMAIN t.deltas : t.deltas[k].bucket = i}
           in(i) == SumFunctionOnSet(Ins(t), visits(i))
           out(i) == SumFunctionOnSet(Outs(t), visits(i))
           moved(i, b) == IF t.up THEN [b EXCEPT !.a = b.a - out(i), !.b = b.b + in(i)]
                          ELSE [b EXCEPT !.a = b.a + in(i), !.b = b.b - out(i)]
           B == [a : Nat, b : Nat, liquidity : Nat]
           buckets == [i \in DOMAIN Grid |-> moved(i, pool.buckets[i])]
           r == ApplyTrace(pool, t)
<1>1. /\ pool \in PoolRecords
      /\ pool \in [sqrtP : Nat, bounds : {Grid}, buckets : [DOMAIN Grid -> B]]
      /\ DOMAIN pool.buckets = DOMAIN Grid
  BY DEF GoodPools, PoolRecords
<1>2. /\ t.up \in BOOLEAN /\ t.sqrtP \in 0..Top /\ Top \in Nat
      /\ DOMAIN t.deltas = 1..Len(t.deltas) /\ Len(t.deltas) \in Nat
      /\ \A k \in DOMAIN t.deltas : t.deltas[k] \in DeltaRecords
      /\ \A j, k \in DOMAIN t.deltas : t.deltas[j].bucket = t.deltas[k].bucket => j = k
  <2>1. t.deltas \in Seq(DeltaRecords)
    BY DEF TraceOf
  <2>2. DOMAIN t.deltas = 1..Len(t.deltas) /\ Len(t.deltas) \in Nat
        /\ \A k \in 1..Len(t.deltas) : t.deltas[k] \in DeltaRecords
    BY <1>1, <2>1, DeltaTypes
  <2> QED BY <2>2, GridFacts DEF TraceOf
<1>3. r = [pool EXCEPT !.sqrtP = t.sqrtP, !.buckets = buckets]
  BY <1>1 DEF ApplyTrace
<1>4. ASSUME NEW i \in DOMAIN Grid PROVE moved(i, pool.buckets[i]) \in B
  <2> DEFINE V == visits(i)
             b == pool.buckets[i]
             f == Ins(t)
             g == Outs(t)
  <2>1. \A k \in V : /\ k \in DOMAIN t.deltas /\ t.deltas[k].bucket = i
                     /\ f[k] = t.deltas[k].in /\ g[k] = t.deltas[k].out
                     /\ f[k] \in Nat /\ g[k] \in Nat
    BY <1>2 DEF Ins, Outs, DeltaRecords
  <2>2. \A j, k \in V : j = k
    BY <1>2
  <2>3. b \in B
    BY <1>1
  <2>4. \A k \in V : g[k] <= IF t.up THEN b.a ELSE b.b
    BY <2>1 DEF Backed
  <2> HIDE DEF V, b, f, g
  <2>5. Sum(f, V) \in Nat
    <3>1. CASE V = {}
      BY <3>1, SumEmpty
    <3>2. CASE V # {}
      <4>1. PICK k \in V : V = {k}
        BY <2>2, <3>2
      <4>2. f[k] \in Nat /\ \A j \in V : f[j] <= f[k]
        BY <2>1, <2>2
      <4> QED BY <2>1, <2>2, <4>2, VisitSum
    <3> QED BY <3>1, <3>2
  <2>6. b.a \in Nat /\ b.b \in Nat /\ b.liquidity \in Nat
    BY <2>3
  <2>7. Sum(g, V) \in Nat /\ Sum(g, V) <= IF t.up THEN b.a ELSE b.b
    <3> DEFINE bound == IF t.up THEN b.a ELSE b.b
    <3>1. bound \in Nat /\ \A k \in V : g[k] \in Nat /\ g[k] <= bound
      BY <2>1, <2>4, <2>6
    <3> HIDE DEF bound
    <3>2. Sum(g, V) \in Nat /\ Sum(g, V) <= bound
      BY <2>2, <3>1, VisitSum
    <3> QED BY <3>2 DEF bound
  <2>8. in(i) = Sum(f, V) /\ out(i) = Sum(g, V)
    BY DEF Sum, f, g, V
  <2> DEFINE x == in(i)
             y == out(i)
  <2>9. x \in Nat /\ y \in Nat /\ y <= IF t.up THEN b.a ELSE b.b
    BY <2>5, <2>7, <2>8
  <2>10. moved(i, b) = IF t.up THEN [b EXCEPT !.a = b.a - y, !.b = b.b + x]
                       ELSE [b EXCEPT !.a = b.a + x, !.b = b.b - y]
    OBVIOUS
  <2> HIDE DEF x, y, moved
  <2>11. moved(i, b) \in B
    <3>1. CASE t.up = TRUE
      <4>1. b.a - y \in Nat /\ b.b + x \in Nat
        BY <2>6, <2>9, <3>1
      <4> QED BY <2>3, <2>10, <3>1, <4>1
    <3>2. CASE t.up = FALSE
      <4>1. b.a + x \in Nat /\ b.b - y \in Nat
        BY <2>6, <2>9, <3>2
      <4> QED BY <2>3, <2>10, <3>2, <4>1
    <3> QED BY <1>2, <3>1, <3>2
  <2> QED BY <2>11 DEF b
<1> HIDE DEF moved, r
<1>5. buckets \in [DOMAIN Grid -> B]
  <2> HIDE DEF B
  <2> QED BY <1>4
<1> HIDE DEF buckets, B
<1>6. r \in [sqrtP : Nat, bounds : {Grid}, buckets : [DOMAIN Grid -> B]] /\ r.sqrtP = t.sqrtP
  <2>1. t.sqrtP \in Nat
    BY <1>2
  <2> QED BY <1>1, <1>3, <1>5, <2>1
<1> QED BY <1>2, <1>6 DEF GoodPools, PoolRecords, B, r

-----------------------------------------------------------------------------
(* The clearing of all pools.                                              *)

\* The orders of an epoch.
IsEpoch(epochOrders) ==
  /\ epochOrders \subseteq OrderBook /\ IsFiniteSet(epochOrders)
  /\ Cardinality(epochOrders) <= MaxOrders
  /\ \A x, y \in epochOrders : x # y => x.at # y.at

\* The orders of an epoch that a pool fills are a book the circuit has room for.
LEMMA EpochBooks ==
  ASSUME NEW os, IsEpoch(os), NEW i
  PROVE  IsBook(Book(os, i)) /\ Cardinality(Book(os, i)) <= MAX_ORDERS_PER_EPOCH
<1> DEFINE book == Book(os, i)
<1>1. book \subseteq os /\ os \subseteq OrderRecords /\ IsFiniteSet(os)
      /\ Cardinality(os) <= MaxOrders /\ MaxOrders \in 0..MAX_ORDERS_PER_EPOCH
  BY RoundConstants DEF Book, Alive, IsEpoch
<1>2. MAX_ORDERS_PER_EPOCH \in Nat
  BY EngineConstants
<1> HIDE DEF book
<1>3. IsFiniteSet(book) /\ Cardinality(book) <= Cardinality(os)
      /\ Cardinality(book) \in Nat /\ Cardinality(os) \in Nat
  BY <1>1, FS_Subset, FS_CardinalityType
<1>4. \A o \in book : /\ o.amountIn \in Nat \ {0} /\ o.limit \in Nat /\ o.side \in BOOLEAN
                      /\ o.at \in Int /\ o.nonce \in Int
  <2>1. ASSUME NEW o \in OrderRecords
        PROVE  /\ o.amountIn \in Nat \ {0} /\ o.limit \in Nat /\ o.side \in BOOLEAN
               /\ o.at \in Int /\ o.nonce \in Int
    BY DEF OrderRecords
  <2>2. book \subseteq OrderRecords
    BY <1>1
  <2> QED BY <2>1, <2>2
<1>5. \A x, y \in book : x # y => x.at # y.at
  BY <1>1 DEF IsEpoch
<1>6. IsBook(book)
  BY <1>3, <1>4, <1>5 DEF IsBook
<1>7. Cardinality(book) <= MAX_ORDERS_PER_EPOCH
  BY <1>1, <1>2, <1>3
<1> QED BY <1>6, <1>7 DEF book

\* computeClearingMultiPair: every pool that clears does so as known above.
LEMMA MultiPairFacts ==
  ASSUME NEW os, IsEpoch(os), NEW ps \in [PoolIds -> GoodPools], ~ Throws(os, ps)
  PROVE  /\ DOMAIN computeClearingMultiPair(os, ps) \subseteq PoolIds
         /\ \A i \in DOMAIN computeClearingMultiPair(os, ps) :
              ClearingOf(ps[i], Book(os, i), computeClearingMultiPair(os, ps)[i])
<1> DEFINE result == [i \in DOMAIN ps |-> computeClearing(ps[i], Book(os, i))]
           active == {i \in DOMAIN ps : result[i].cleared}
           c == computeClearingMultiPair(os, ps)
<1>1. DOMAIN ps = PoolIds
  OBVIOUS
<1>2. c = [i \in active |-> result[i]]
  BY DEF computeClearingMultiPair
<1> HIDE DEF c
<1>3. DOMAIN c = active /\ active \subseteq PoolIds
  BY <1>2
<1>4. ASSUME NEW i \in active PROVE ClearingOf(ps[i], Book(os, i), c[i])
  <2>1. i \in PoolIds /\ ps[i] \in GoodPools /\ result[i] = computeClearing(ps[i], Book(os, i))
        /\ result[i].cleared /\ c[i] = result[i]
    BY <1>2, <1>3
  <2>2. Book(os, i) # {} /\ Funded(ps[i]) # {} /\ Traces(ps[i], Book(os, i)) => Contained(ps[i])
    BY <1>1, <2>1 DEF Throws
  <2>3. IsBook(Book(os, i)) /\ Cardinality(Book(os, i)) <= MAX_ORDERS_PER_EPOCH
    BY EpochBooks
  <2> DEFINE pool == ps[i]
             book == Book(os, i)
  <2>4. computeClearing(pool, book).cleared
    BY <2>1
  <2> HIDE DEF pool, book, active, result
  <2>5. ClearingOf(pool, book, computeClearing(pool, book))
    BY <2>1, <2>2, <2>3, <2>4, ClearingFacts DEF pool, book
  <2> QED BY <2>1, <2>5 DEF pool, book
<1> QED BY <1>3, <1>4 DEF c

\* A step the circuit accepts takes out what its bucket has.
LEMMA EvolvesBacked ==
  ASSUME NEW pool, NEW t, t.deltas \in Seq(DeltaRecords), PoolEvolves(pool, t)
  PROVE  Backed(pool, t)
<1>1. DOMAIN t.deltas = 1..Len(t.deltas)
  OBVIOUS
<1>2. \A k \in 1..Len(t.deltas) :
        t.deltas[k].out <= IF t.up THEN pool.buckets[t.deltas[k].bucket].a
                           ELSE pool.buckets[t.deltas[k].bucket].b
  BY DEF PoolEvolves, assert_bucket_step
<1> QED BY <1>1, <1>2 DEF Backed

-----------------------------------------------------------------------------
(* The inductive invariant.                                                *)

\* A clearing is what the pools that were read give for the orders there are.
ClearingInv ==
  /\ pools \in [PoolIds -> GoodPools]
  /\ IsEpoch(orders)
  /\ epoch \in 1..(MaxEpochs + 1) /\ (orders # {} => epoch <= MaxEpochs)
  /\ deposited \in 0..MaxDeposits
  /\ \/ priced = <<>> /\ clearing = <<>>
     \/ /\ priced \in [PoolIds -> GoodPools] /\ orders # {} /\ ~ Throws(orders, priced)
        /\ clearing = computeClearingMultiPair(orders, priced)

\* Pools that were read are told from none read.
LEMMA NotPriced ==
  ASSUME NEW ps \in [PoolIds -> GoodPools]
  PROVE  ps # <<>>
<1>1. DOMAIN ps # {} /\ DOMAIN <<>> = {}
  BY RoundConstants
<1> QED BY <1>1

\* The initial states satisfy the invariant.
LEMMA ClearingInvInit == Init => ClearingInv
<1> SUFFICES ASSUME Init PROVE ClearingInv
  OBVIOUS
<1>1. PICK launch \in Launches : pools = [i \in PoolIds |-> Launched(launch[i])]
  BY DEF Init
<1>2. pools \in [PoolIds -> GoodPools]
  <2>1. ASSUME NEW i \in PoolIds PROVE Launched(launch[i]) \in GoodPools
    <3>1. launch[i] \in [sqrtP : Grid[1].lower..Grid[Len(Grid)].upper,
                         funding : Seq(DepositRecords)]
      <4> DEFINE R == [sqrtP : Grid[1].lower..Grid[Len(Grid)].upper,
                         funding : Seq(DepositRecords)]
      <4>1. launch \in [PoolIds -> R]
        BY RoundConstants
      <4> HIDE DEF R
      <4>2. launch[i] \in R
        BY <4>1
      <4> QED BY <4>2 DEF R
    <3> QED BY <3>1, LaunchTypes
  <2> QED BY <1>1, <2>1
<1>3. IsEpoch(orders)
  <2>1. orders = {} /\ IsFiniteSet({}) /\ Cardinality({}) = 0 /\ 0 <= MaxOrders
    BY FS_EmptySet, RoundConstants, EngineConstants DEF Init
  <2> QED BY <2>1 DEF IsEpoch
<1>4. epoch \in 1..(MaxEpochs + 1) /\ deposited \in 0..MaxDeposits /\ orders = {}
  BY RoundConstants DEF Init
<1>5. priced = <<>> /\ clearing = <<>>
  BY DEF Init, NoClearing
<1> QED BY <1>2, <1>3, <1>4, <1>5 DEF ClearingInv

\* Settling an accepted clearing leaves pools of the kind the next epoch is
\* cleared against: the circuit has checked that each step is backed.
LEMMA SettledPools ==
  ASSUME ClearingInv, settle
  PROVE  pools' \in [PoolIds -> GoodPools]
<1>1. /\ priced # <<>> /\ CircuitAccepts(orders, priced, clearing) /\ StillAsPriced
      /\ pools' = [i \in PoolIds |->
           IF i \in DOMAIN clearing THEN ApplyTrace(pools[i], clearing[i].trace) ELSE pools[i]]
  BY DEF settle
<1>2. /\ pools \in [PoolIds -> GoodPools] /\ IsEpoch(orders)
      /\ priced \in [PoolIds -> GoodPools] /\ ~ Throws(orders, priced)
      /\ clearing = computeClearingMultiPair(orders, priced)
  BY <1>1 DEF ClearingInv
<1>3. ASSUME NEW i \in PoolIds, i \in DOMAIN clearing
      PROVE  ApplyTrace(pools[i], clearing[i].trace) \in GoodPools
  <2> DEFINE t == clearing[i].trace
             old == priced[i]
             new == pools[i]
  <2>1. ClearingOf(old, Book(orders, i), clearing[i])
    BY <1>2, <1>3, MultiPairFacts
  <2>2. PICK gross \in Nat : TraceOf(old, t, gross)
    BY <2>1 DEF ClearingOf
  <2>3. PoolEvolves(old, t)
    BY <1>1, <1>3 DEF CircuitAccepts
  <2>4. Commitment(new, t) = Commitment(old, t)
    BY <1>1, <1>3 DEF StillAsPriced
  <2>5. new \in GoodPools
    BY <1>2
  <2> HIDE DEF t, old, new
  <2>6. Backed(old, t)
    BY <2>2, <2>3, EvolvesBacked DEF TraceOf
  <2>7. \A k \in DOMAIN t.deltas :
          new.buckets[t.deltas[k].bucket] = old.buckets[t.deltas[k].bucket]
    <3> DEFINE f == [k \in DOMAIN t.deltas |-> new.buckets[t.deltas[k].bucket]]
               g == [k \in DOMAIN t.deltas |-> old.buckets[t.deltas[k].bucket]]
    <3>1. <<new.sqrtP, f>> = <<old.sqrtP, g>>
      BY <2>4 DEF Commitment
    <3> HIDE DEF f, g
    <3>2. f = g
      BY <3>1
    <3> QED BY <3>2 DEF f, g
  <2>8. Backed(new, t)
    BY <2>6, <2>7 DEF Backed
  <2>9. ApplyTrace(new, t) \in GoodPools
    BY <2>2, <2>5, <2>8, ApplyKeeps
  <2> QED BY <2>9 DEF t, new
<1>4. \A i \in PoolIds :
        (IF i \in DOMAIN clearing THEN ApplyTrace(pools[i], clearing[i].trace) ELSE pools[i])
          \in GoodPools
  BY <1>2, <1>3
<1> QED BY <1>1, <1>4

\* Every step keeps the invariant.
LEMMA ClearingInvStep == ClearingInv /\ [Next]_vars => ClearingInv'
<1> SUFFICES ASSUME ClearingInv, [Next]_vars PROVE ClearingInv'
  OBVIOUS
<1>1. /\ pools \in [PoolIds -> GoodPools]
      /\ IsEpoch(orders)
      /\ epoch \in 1..(MaxEpochs + 1) /\ (orders # {} => epoch <= MaxEpochs)
      /\ deposited \in 0..MaxDeposits
      /\ \/ priced = <<>> /\ clearing = <<>>
         \/ /\ priced \in [PoolIds -> GoodPools] /\ orders # {} /\ ~ Throws(orders, priced)
            /\ clearing = computeClearingMultiPair(orders, priced)
  BY DEF ClearingInv
<1>2. MaxOrders \in Nat /\ MaxEpochs \in Nat /\ MaxDeposits \in Nat
      /\ Deposits \subseteq DepositRecords /\ OrderBook \subseteq OrderRecords
  BY RoundConstants, EngineConstants
<1>3. IsEpoch({})
  <2>1. IsFiniteSet({}) /\ Cardinality({}) = 0 /\ 0 <= MaxOrders
    BY <1>2, FS_EmptySet
  <2> QED BY <2>1 DEF IsEpoch
<1>4. ASSUME NEW o \in OrderBook, submit(o) PROVE ClearingInv'
  <2>1. /\ priced = <<>> /\ Cardinality(orders) < MaxOrders /\ epoch <= MaxEpochs
        /\ \A x \in orders : x.at < o.at
        /\ orders' = orders \cup {o}
        /\ pools' = pools /\ priced' = priced /\ clearing' = clearing /\ epoch' = epoch
        /\ deposited' = deposited
    BY <1>4 DEF submit
  <2>2. priced' = <<>> /\ clearing' = <<>>
    BY <1>1, <2>1, NotPriced
  <2>3. IsEpoch(orders')
    <3>1. orders \subseteq OrderBook /\ IsFiniteSet(orders)
          /\ \A x, y \in orders : x # y => x.at # y.at
      BY <1>1 DEF IsEpoch
    <3>2. \A x \in OrderBook : x.at \in Int
      <4>1. \A x \in OrderRecords : x.at \in Int
        BY DEF OrderRecords
      <4> QED BY <1>2, <4>1
    <3> DEFINE more == orders \cup {o}
    <3>3. IsFiniteSet(more) /\ Cardinality(more) <= MaxOrders
      <4>1. o \notin orders
        BY <2>1, <3>1, <3>2
      <4>2. IsFiniteSet(more) /\ Cardinality(more) = Cardinality(orders) + 1
            /\ Cardinality(orders) \in Nat
        BY <3>1, <4>1, FS_AddElement, FS_CardinalityType
      <4> QED BY <1>2, <2>1, <4>2
    <3>4. more \subseteq OrderBook /\ \A x, y \in more : x # y => x.at # y.at
      <4>1. \A x \in orders : x.at # o.at
        BY <2>1, <3>1, <3>2
      <4> QED BY <3>1, <4>1
    <3> QED BY <2>1, <3>3, <3>4 DEF IsEpoch
  <2> QED BY <1>1, <2>1, <2>2, <2>3 DEF ClearingInv
<1>5. ASSUME NEW i \in PoolIds, NEW d \in Deposits, deposit(i, d) PROVE ClearingInv'
  <2>1. /\ deposited < MaxDeposits /\ deposited' = deposited + 1
        /\ pools' = [pools EXCEPT ![i] = AddLiquidity(pools[i], d)]
        /\ orders' = orders /\ priced' = priced /\ clearing' = clearing /\ epoch' = epoch
    BY <1>5 DEF deposit
  <2>2. AddLiquidity(pools[i], d) \in GoodPools
    BY <1>1, <1>2, DepositKeeps
  <2>3. pools' \in [PoolIds -> GoodPools]
    BY <1>1, <2>1, <2>2
  <2>4. deposited' \in 0..MaxDeposits
    BY <1>1, <1>2, <2>1
  <2> QED BY <1>1, <2>1, <2>3, <2>4 DEF ClearingInv
<1>6. CASE compute
  <2>1. /\ orders # {} /\ ~ Throws(orders, pools) /\ priced' = pools
        /\ clearing' = computeClearingMultiPair(orders, pools)
        /\ pools' = pools /\ orders' = orders /\ epoch' = epoch /\ deposited' = deposited
    BY <1>6 DEF compute
  <2> QED BY <1>1, <2>1 DEF ClearingInv
<1>7. ASSUME orders' = {}, epoch' = epoch + 1, priced' = <<>>, clearing' = <<>>,
             deposited' = deposited, pools' \in [PoolIds -> GoodPools], priced # <<>>
      PROVE  ClearingInv'
  <2>1. epoch' \in 1..(MaxEpochs + 1)
    BY <1>1, <1>2, <1>7
  <2> QED BY <1>1, <1>3, <1>7, <2>1 DEF ClearingInv
<1>8. CASE settle
  <2>1. pools' \in [PoolIds -> GoodPools]
    BY <1>8, SettledPools
  <2> QED BY <1>7, <1>8, <2>1 DEF settle, NextEpoch, NoClearing
<1>9. CASE closeOnly
  BY <1>1, <1>7, <1>9 DEF closeOnly, NextEpoch, NoClearing
<1>10. CASE retry
  BY <1>1, <1>10 DEF retry, NoClearing, ClearingInv
<1>11. CASE UNCHANGED vars
  BY <1>1, <1>11 DEF vars, ClearingInv
<1> QED BY <1>4, <1>5, <1>6, <1>8, <1>9, <1>10, <1>11 DEF Next

\* What the clearing at hand is.
LEMMA InvClears ==
  ASSUME ClearingInv
  PROVE  \A i \in DOMAIN clearing :
           /\ i \in PoolIds /\ priced[i] \in GoodPools
           /\ ClearingOf(priced[i], Book(orders, i), clearing[i])
<1>1. CASE priced = <<>> /\ clearing = <<>>
  BY <1>1
<1>2. CASE /\ priced \in [PoolIds -> GoodPools] /\ ~ Throws(orders, priced)
           /\ clearing = computeClearingMultiPair(orders, priced)
  <2>1. IsEpoch(orders)
    BY DEF ClearingInv
  <2> QED BY <1>2, <2>1, MultiPairFacts
<1> QED BY <1>1, <1>2 DEF ClearingInv

\* The invariant implies the types.
LEMMA InvTypeOK == ClearingInv => TypeOK
<1> SUFFICES ASSUME ClearingInv PROVE TypeOK
  OBVIOUS
<1>1. \A i \in PoolIds :
        /\ pools[i].sqrtP \in 0..Grid[Len(Grid)].upper
        /\ \A k \in DOMAIN Grid :
             /\ pools[i].buckets[k].a \in Nat /\ pools[i].buckets[k].b \in Nat
             /\ pools[i].buckets[k].liquidity \in Nat
  <2>1. ASSUME NEW pool \in GoodPools
        PROVE  /\ pool.sqrtP \in 0..Grid[Len(Grid)].upper
               /\ \A k \in DOMAIN Grid :
                    /\ pool.buckets[k].a \in Nat /\ pool.buckets[k].b \in Nat
                    /\ pool.buckets[k].liquidity \in Nat
    <3>1. pool.sqrtP \in Nat /\ pool.sqrtP <= Top /\ Top \in Nat
      BY GridFacts DEF GoodPools, PoolRecords
    <3>2. \A k \in DOMAIN Grid : pool.buckets[k] \in [a : Nat, b : Nat, liquidity : Nat]
      BY DEF GoodPools, PoolRecords
    <3> QED BY <3>1, <3>2 DEF Top
  <2>2. pools \in [PoolIds -> GoodPools]
    BY DEF ClearingInv
  <2> QED BY <2>1, <2>2
<1>2. \A i \in DOMAIN clearing : \A o \in DOMAIN clearing[i].fills : clearing[i].fills[o] \in Nat
  BY InvClears DEF ClearingOf
<1>3. /\ orders \subseteq OrderBook
      /\ epoch \in 1..(MaxEpochs + 1) /\ deposited \in 0..MaxDeposits
  BY DEF ClearingInv, IsEpoch
<1> QED BY <1>1, <1>2, <1>3 DEF TypeOK

\* The invariant implies that payouts are funded.
LEMMA InvFunded == ClearingInv => PayoutsAreFunded
BY InvClears DEF ClearingOf, PayoutsAreFunded

\* The invariant implies that the circuit accepts what the engine computes.
LEMMA InvProves == ClearingInv => ClearingsProve
<1> SUFFICES ASSUME ClearingInv,
                    \A i \in DOMAIN clearing :
                      /\ StaysInABucket(priced[i], clearing[i].trace)
                      /\ DustAt(i, clearing[i].price) = {}
                      /\ WithinWidths(priced[i], clearing[i])
             PROVE  CircuitAccepts(orders, priced, clearing)
  BY DEF ClearingsProve
<1>1. ASSUME NEW i \in DOMAIN clearing
      PROVE  /\ FitsU128(clearing[i].price) /\ FillsAreTheEligible(orders, i, clearing[i])
             /\ PaysNoMoreThanItHas(priced[i], clearing[i])
             /\ NobodyIsShorted(priced[i], clearing[i]) /\ SharesFitWidths(priced[i], clearing[i])
             /\ PoolEvolves(priced[i], clearing[i].trace)
             /\ FeesWereCollected(priced[i], clearing[i].trace)
  <2> DEFINE r == clearing[i]
             pool == priced[i]
             book == Book(orders, i)
  <2>1. /\ StaysInABucket(pool, r.trace) /\ DustAt(i, r.price) = {} /\ WithinWidths(pool, r)
        /\ pool \in GoodPools /\ ClearingOf(pool, book, r)
    BY InvClears
  <2> HIDE DEF r, pool
  <2>2. PICK gross \in Nat : TraceOf(pool, r.trace, gross)
    BY <2>1 DEF ClearingOf
  <2>3. AmountsFit(pool, r)
    <3>1. AmountsWithin(pool, r)
      BY <2>1 DEF WithinWidths, AmountsWithin
    <3> QED BY <2>1, <3>1 DEF ClearingOf
  <2>4. PoolEvolves(pool, r.trace) /\ FeesWereCollected(pool, r.trace)
    <3> DEFINE t == r.trace
    <3>1. StaysInABucket(pool, t) /\ TraceOf(pool, t, gross)
      BY <2>1, <2>2
    <3>2. TraceWithin(pool, t)
      BY <2>1, <2>3 DEF AmountsFit, WithinWidths, TraceWithin
    <3> HIDE DEF t
    <3>3. pool \in PoolRecords
      BY <2>1 DEF GoodPools
    <3>4. PoolEvolves(pool, t) /\ FeesWereCollected(pool, t)
      BY <2>1, <3>1, <3>2, <3>3, TraceEvolves, TraceFeesAccepted
    <3> QED BY <3>4 DEF t
  <2>5. FillsAreTheEligible(orders, i, r)
    <3>1. DOMAIN r.fills = {o \in book : Eligible(o, r.price)}
      BY <2>1 DEF ClearingOf
    <3>2. ASSUME NEW o \in orders, o.hops = <<i>>, Eligible(o, r.price) PROVE o \in book
      <4>1. ~ (o.amountIn < MIN_FILL_AMOUNT_IN)
        BY <2>1, <3>2 DEF DustAt
      <4>2. o.amountIn \in Nat /\ MIN_FILL_AMOUNT_IN \in Nat
        <5>1. \A x \in OrderRecords : x.amountIn \in Nat
          BY DEF OrderRecords
        <5>2. orders \subseteq OrderRecords
          BY RoundConstants DEF ClearingInv, IsEpoch
        <5> QED BY <5>1, <5>2, EngineConstants
      <4>3. Len(o.hops) = 1 /\ o.hops[1] = i
        BY <3>2
      <4> QED BY <4>1, <4>2, <4>3 DEF Book, Alive
    <3>3. {o \in orders : o.hops = <<i>> /\ Eligible(o, r.price)} \subseteq DOMAIN r.fills
      BY <3>1, <3>2
    <3>4. \A o \in DOMAIN r.fills : Eligible(o, r.price)
      BY <3>1
    <3> QED BY <3>3, <3>4 DEF FillsAreTheEligible
  <2>6. FitsU128(r.price) /\ SharesFitWidths(pool, r)
    BY <2>1, <2>3 DEF WithinWidths, AmountsFit
  <2> QED BY <2>1, <2>4, <2>5, <2>6 DEF ClearingOf, r, pool
<1> QED BY <1>1 DEF CircuitAccepts

\* The invariant implies that buyers' limits are kept.
LEMMA InvBuyers == ClearingInv => BuyersKeepLimits
BY InvClears DEF ClearingOf, BuyersKeepLimits, KeepsLimits, WithinLimits

\* Deposits, clearings and settlements leave every pool with natural reserves and
\* a price on the grid (contracts/liquidity-pool/src/main.nr: settle subtracts
\* what a trace takes out, in u128), for any grid, fees, pools and orders.
THEOREM TypeOKCorrect == Spec => []TypeOK
<1>1. ClearingInv => TypeOK
  BY InvTypeOK
<1> QED BY <1>1, ClearingInvInit, ClearingInvStep, PTL DEF Spec

\* What computeClearing hands out of a token is covered by what its escrow and its
\* pool hold of it, net of what goes to the pool, whatever orders an epoch holds
\* and in whatever state the pools were read.
THEOREM PayoutsAreFundedCorrect == Spec => []PayoutsAreFunded
<1>1. ClearingInv => PayoutsAreFunded
  BY InvFunded
<1> QED BY <1>1, ClearingInvInit, ClearingInvStep, PTL DEF Spec

\* What computeClearing returns is what circuits/clearing accepts, provided every
\* trace stays in one bucket, no eligible order is shared out to nothing, and the
\* numbers stay within what pricing.nr's mul_div can multiply out: the aggregator
\* then does not spend an epoch on a clearing that cannot be proved.
THEOREM ClearingsProveCorrect == Spec => []ClearingsProve
<1>1. ClearingInv => ClearingsProve
  BY InvProves
<1> QED BY <1>1, ClearingInvInit, ClearingInvStep, PTL DEF Spec

\* In an epoch of buys no buyer pays more than its limit, but for the fee and a unit
\* of each: whom oneSidedClearingPrice drops or lets in again, the price it ends at
\* is good for everybody computeClearing fills, on any grid and after any history.
THEOREM BuyersKeepLimitsCorrect == Spec => []BuyersKeepLimits
<1>1. ClearingInv => BuyersKeepLimits
  BY InvBuyers
<1> QED BY <1>1, ClearingInvInit, ClearingInvStep, PTL DEF Spec

=============================================================================
