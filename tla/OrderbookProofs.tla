---------------------------- MODULE OrderbookProofs ----------------------------
(* Theorems about Orderbook, for every value of its constants.              *)
EXTENDS Orderbook, SumTheorems, TLAPS

-----------------------------------------------------------------------------
(* Sequences of orders: what appending does to their elements.              *)

\* The elements of a concatenation are those of its two parts.
LEMMA RangeOfConcat ==
  ASSUME NEW s \in Seq(Orders), NEW t \in Seq(Orders)
  PROVE  Range(s \o t) = Range(s) \cup Range(t)
<1>1. Range(s \o t) \subseteq Range(s) \cup Range(t)
  BY DEF Range
<1>2. \A i \in DOMAIN s : s[i] = (s \o t)[i] /\ i \in DOMAIN (s \o t)
  OBVIOUS
<1>3. \A i \in DOMAIN t : t[i] = (s \o t)[Len(s) + i] /\ Len(s) + i \in DOMAIN (s \o t)
  OBVIOUS
<1>4. Range(s) \subseteq Range(s \o t)
  BY <1>2 DEF Range
<1>5. Range(t) \subseteq Range(s \o t)
  BY <1>3 DEF Range
<1> QED BY <1>1, <1>4, <1>5

\* Concatenating two injective sequences without a common element.
LEMMA InjectiveConcat ==
  ASSUME NEW s \in Seq(Orders), NEW t \in Seq(Orders),
         IsInjective(s), IsInjective(t), Range(s) \cap Range(t) = {}
  PROVE  IsInjective(s \o t)
<1> SUFFICES ASSUME NEW a \in DOMAIN (s \o t), NEW b \in DOMAIN (s \o t),
                    (s \o t)[a] = (s \o t)[b]
             PROVE  a = b
  BY DEF IsInjective
<1>1. CASE a \in DOMAIN s /\ b \in DOMAIN s
  BY <1>1 DEF IsInjective
<1>2. CASE a \notin DOMAIN s /\ b \notin DOMAIN s
  <2>1. a - Len(s) \in DOMAIN t /\ b - Len(s) \in DOMAIN t
    BY <1>2
  <2>2. t[a - Len(s)] = t[b - Len(s)]
    BY <1>2
  <2> QED BY <2>1, <2>2, <1>2 DEF IsInjective
<1>3. CASE a \in DOMAIN s /\ b \notin DOMAIN s
  <2>1. s[a] \in Range(s) /\ t[b - Len(s)] \in Range(t) /\ s[a] = t[b - Len(s)]
    BY <1>3 DEF Range
  <2> QED BY <2>1
<1>4. CASE a \notin DOMAIN s /\ b \in DOMAIN s
  <2>1. s[b] \in Range(s) /\ t[a - Len(s)] \in Range(t) /\ s[b] = t[a - Len(s)]
    BY <1>4 DEF Range
  <2> QED BY <2>1
<1> QED BY <1>1, <1>2, <1>3, <1>4

\* Appending an order adds exactly that order.
LEMMA AppendFacts ==
  ASSUME NEW s \in Seq(Orders), NEW o \in Orders
  PROVE  /\ Append(s, o) \in Seq(Orders)
         /\ Len(Append(s, o)) = Len(s) + 1
         /\ Range(Append(s, o)) = Range(s) \cup {o}
         /\ IsInjective(s) /\ o \notin Range(s) => IsInjective(Append(s, o))
<1>1. Append(s, o) \in Seq(Orders) /\ Len(Append(s, o)) = Len(s) + 1
  OBVIOUS
<1>2. \A i \in DOMAIN s : Append(s, o)[i] = s[i] /\ i \in DOMAIN Append(s, o)
  OBVIOUS
<1>3. Append(s, o)[Len(s) + 1] = o /\ Len(s) + 1 \in DOMAIN Append(s, o)
  OBVIOUS
<1>4. \A i \in DOMAIN Append(s, o) : i \in DOMAIN s \/ i = Len(s) + 1
  OBVIOUS
<1>5. Range(Append(s, o)) = Range(s) \cup {o}
  BY <1>2, <1>3, <1>4 DEF Range
<1>6. IsInjective(s) /\ o \notin Range(s) => IsInjective(Append(s, o))
  BY <1>2, <1>3, <1>4 DEF Range, IsInjective
<1> QED BY <1>1, <1>5, <1>6

\* What a submission batch is.
LEMMA BatchFacts ==
  ASSUME NEW b \in Batches
  PROVE  /\ b \in Seq(Orders)
         /\ IsInjective(b)
         /\ Range(b) \subseteq Orders
<1>1. PICK n \in 1..MAX_ORDERS_PER_BULK : b \in Injection(1..n, Orders)
  BY DEF Batches
<1>2. b \in [1..n -> Orders] /\ IsInjective(b)
  BY <1>1 DEF Injection
<1>3. b \in Seq(Orders)
  BY <1>2, NumberAssumption
<1> QED BY <1>2, <1>3 DEF Range

\* What a chain a prover replays is.
LEMMA ChainFacts ==
  ASSUME NEW S, S \subseteq Orders, NEW c \in Chains(S)
  PROVE  /\ c \in Seq(Orders)
         /\ Range(c) \subseteq S
<1>1. PICK n \in 0..MAX_ORDERS_PER_EPOCH : c \in Injection(1..n, S)
  BY DEF Chains
<1>2. c \in [1..n -> S]
  BY <1>1 DEF Injection
<1> QED BY <1>2, NumberAssumption DEF Range

-----------------------------------------------------------------------------
(* The clearing proof.                                                     *)

\* A non-empty set of slots has a last one.
LEMMA MaxIsMember ==
  ASSUME NEW S, S \subseteq 1..3, S # {}
  PROVE  Max(S) \in S
<1>1. CASE 3 \in S
  <2>1. \A y \in S : 3 >= y
    OBVIOUS
  <2> QED BY <1>1, <2>1 DEF Max
<1>2. CASE 3 \notin S /\ 2 \in S
  <2>1. \A y \in S : 2 >= y
    BY <1>2
  <2> QED BY <1>2, <2>1 DEF Max
<1>3. CASE 3 \notin S /\ 2 \notin S
  <2>1. \A y \in S : y = 1
    BY <1>3
  <2>2. PICK x \in S : x = 1
    BY <2>1
  <2>3. \A y \in S : 1 >= y
    BY <2>1
  <2> QED BY <2>2, <2>3 DEF Max
<1> QED BY <1>1, <1>2, <1>3

\* An order's slot is an active one: a proof has at most three of them.
LEMMA SlotIsActive ==
  ASSUME NEW p, NEW o, p.active_pools \in ActivePools, PoolSlot(p, o) # 0
  PROVE  PoolSlot(p, o) \in DOMAIN p.active_pools /\ PoolSlot(p, o) \in 1..3
<1> DEFINE path == Note[o].path
           H == { k \in DOMAIN p.active_pools : p.active_pools[k].pair = <<path[1], path[2]>> }
<1>1. PICK n \in 0..MAX_ACTIVE_POOLS_PER_EPOCH : p.active_pools \in [1..n -> PoolSlots]
  BY DEF ActivePools
<1>2. H \subseteq 1..3 /\ H \subseteq DOMAIN p.active_pools
  BY <1>1, NumberAssumption
<1>3. PoolSlot(p, o) = IF H = {} THEN 0 ELSE Max(H)
  BY DEF PoolSlot
<1> HIDE DEF H
<1>4. H # {} /\ PoolSlot(p, o) = Max(H)
  BY <1>3
<1>5. Max(H) \in H
  BY <1>2, <1>4, MaxIsMember
<1> QED BY <1>2, <1>4, <1>5

\* The slot an order's fill is charged to is 0 (none) or an active slot.
LEMMA PoolSlotType ==
  ASSUME NEW p, NEW o, p.active_pools \in ActivePools
  PROVE  PoolSlot(p, o) \in Nat
<1>1. CASE PoolSlot(p, o) = 0
  BY <1>1
<1>2. CASE PoolSlot(p, o) # 0
  <2>1. PoolSlot(p, o) \in 1..3
    BY <1>2, SlotIsActive
  <2> QED BY <2>1
<1> QED BY <1>1, <1>2

\* The swap amounts of an active slot are natural numbers.
LEMMA FlowType ==
  ASSUME NEW p, NEW k, NEW pair, NEW t, p.active_pools \in ActivePools
  PROVE  ToPool(p, k, pair, t) \in Nat /\ FromPool(p, k, pair, t) \in Nat
<1>1. CASE k \notin DOMAIN p.active_pools
  BY <1>1 DEF ToPool, FromPool
<1>2. CASE k \in DOMAIN p.active_pools
  <2>1. PICK n \in 0..MAX_ACTIVE_POOLS_PER_EPOCH : p.active_pools \in [1..n -> PoolSlots]
    BY DEF ActivePools
  <2>2. p.active_pools[k] \in PoolSlots
    BY <2>1, <1>2
  <2>3. p.active_pools[k].swap \in ClearingSwaps
    BY <2>2, ProofAssumption DEF PoolSlots
  <2> DEFINE w == p.active_pools[k].swap
  <2>4. w.a_to_pool \in Nat /\ w.b_to_pool \in Nat /\ w.a_from_pool \in Nat /\ w.b_from_pool \in Nat
    BY <2>3, NumberAssumption DEF ClearingSwaps, U128
  <2> QED BY <2>4, <1>2 DEF ToPool, FromPool
<1> QED BY <1>1, <1>2

\* The leaves a clearing records are well formed.
LEMMA FillLeavesType ==
  ASSUME NEW p, p.active_pools \in ActivePools, p.filled \subseteq Orders,
         NEW amount_out \in [p.filled -> Payouts]
  PROVE  FillLeaves(p, amount_out) \subseteq Leaves
<1>1. \A o \in p.filled : PoolSlot(p, o) \in Nat
  BY PoolSlotType
<1> QED BY <1>1, ProofAssumption DEF FillLeaves, Leaves

\* What close_epoch_and_clear_verified has established of the proof p and the
\* amounts amount_out it is called with.
ClearsWith(p, amount_out) ==
  /\ p.order_acc \in Chains(notes)
  /\ p.active_pools \in ActivePools
  /\ p.filled \subseteq Range(p.order_acc)
  /\ OrdersAreFresh(p.order_acc)
  /\ CancelsAreFresh(p.cancel_acc)
  /\ CircuitFills(p)
  /\ CircuitCompleteness(p)
  /\ amount_out \in [p.filled -> Payouts]
  /\ CircuitSolvency(p, amount_out)
  /\ ApplyVerifiedClearing(p, amount_out)

\* A clearing transaction carries a proof that is fresh and satisfies every
\* constraint of the circuit, and applies that proof's flows and fills.
LEMMA ClearingWitness ==
  ASSUME NEW caller, CloseEpochAndClearVerified(caller)
  PROVE  \E p, amount_out : ClearsWith(p, amount_out)
<1>1. PICK order_acc \in Chains(notes), cancel_acc \in Chains(notes) :
        /\ OrdersAreFresh(order_acc)
        /\ CancelsAreFresh(cancel_acc)
        /\ \E active_pools \in ActivePools, filled \in SUBSET Range(order_acc) :
             LET p == [order_acc |-> order_acc, cancel_acc |-> cancel_acc,
                       active_pools |-> active_pools, filled |-> filled] IN
             /\ CircuitBinding(p)
             /\ CircuitFills(p)
             /\ CircuitCompleteness(p)
             /\ \E amount_out \in [filled -> Payouts] :
                  /\ CircuitSolvency(p, amount_out)
                  /\ ApplyVerifiedClearing(p, amount_out)
  BY DEF CloseEpochAndClearVerified
<1>2. PICK active_pools \in ActivePools, filled \in SUBSET Range(order_acc) :
        LET p == [order_acc |-> order_acc, cancel_acc |-> cancel_acc,
                  active_pools |-> active_pools, filled |-> filled] IN
        /\ CircuitFills(p)
        /\ CircuitCompleteness(p)
        /\ \E amount_out \in [filled -> Payouts] :
             CircuitSolvency(p, amount_out) /\ ApplyVerifiedClearing(p, amount_out)
  BY <1>1
<1> DEFINE p == [order_acc |-> order_acc, cancel_acc |-> cancel_acc,
                 active_pools |-> active_pools, filled |-> filled]
<1>3. PICK amount_out \in [filled -> Payouts] :
        CircuitSolvency(p, amount_out) /\ ApplyVerifiedClearing(p, amount_out)
  BY <1>2
<1>4. /\ p.order_acc = order_acc /\ p.cancel_acc = cancel_acc
      /\ p.active_pools = active_pools /\ p.filled = filled
      /\ CircuitFills(p) /\ CircuitCompleteness(p)
  BY <1>2
<1> HIDE DEF p
<1>5. ClearsWith(p, amount_out)
  BY <1>1, <1>3, <1>4 DEF ClearsWith
<1> QED BY <1>5

-----------------------------------------------------------------------------
(* Type correctness.                                                       *)

\* The next epoch is well formed when its id fits.
LEMMA NextEpochType ==
  ASSUME TypeOK, NextEpoch.epoch_id \in EpochIds
  PROVE  NextEpoch \in EpochStates
<1>1. block \in Blocks /\ block + EPOCH_LENGTH \in Nat
  BY NumberAssumption DEF TypeOK, Blocks
<1>2. epoch.epoch_id + 1 \in EpochIds
  BY DEF NextEpoch
<1> QED BY <1>1, <1>2, NumberAssumption DEF NextEpoch, EpochStates

\* A verified clearing keeps the types of everything it writes.
LEMMA ClearingType ==
  ASSUME TypeOK, NEW caller, CloseEpochAndClearVerified(caller)
  PROVE  TypeOK'
<1>1. PICK p, amount_out : ClearsWith(p, amount_out)
  BY ClearingWitness
<1>2. /\ p.order_acc \in Chains(notes)
      /\ p.active_pools \in ActivePools
      /\ p.filled \subseteq Range(p.order_acc)
      /\ amount_out \in [p.filled -> Payouts]
      /\ CircuitSolvency(p, amount_out)
      /\ ApplyVerifiedClearing(p, amount_out)
  BY <1>1 DEF ClearsWith
<1>3. p.order_acc \in Seq(Orders) /\ p.filled \subseteq Orders
  BY <1>2, ChainFacts DEF TypeOK
<1>4. FillLeaves(p, amount_out) \subseteq Leaves
  BY <1>2, <1>3, FillLeavesType
<1>5. NextEpoch.epoch_id \in EpochIds /\ NextEpoch \in EpochStates
  BY NextEpochType DEF CloseEpochAndClearVerified
<1>6. epoch.epoch_id \in EpochIds
  BY DEF TypeOK, EpochStates
<1>7. custody' \in [Tokens -> U128]
  BY <1>2 DEF ApplyVerifiedClearing, SlotIsFunded, Settle
<1>8. owed' \in [Tokens -> Int]
  <2>1. \A k \in 1..3, t \in Tokens :
          EscrowIn(p, k, t) \in Nat /\ PayOut(p, amount_out, k, t) \in Nat
    BY <1>2, NumberAssumption DEF CircuitSolvency, U128
  <2>2. \A t \in Tokens :
          /\ EscrowIn(p, 1, t) \in Nat /\ EscrowIn(p, 2, t) \in Nat
          /\ EscrowIn(p, 3, t) \in Nat
          /\ PayOut(p, amount_out, 1, t) \in Nat /\ PayOut(p, amount_out, 2, t) \in Nat
          /\ PayOut(p, amount_out, 3, t) \in Nat
    BY <2>1
  <2> QED BY <1>2, <2>2 DEF ApplyVerifiedClearing, TypeOK
<1>9. /\ fills_root' \in [EpochIds -> SUBSET Leaves]
      /\ cleared' \subseteq EpochIds
      /\ settled' \in [EpochIds -> Seq(Orders)]
      /\ epoch' \in EpochStates
  BY <1>2, <1>3, <1>4, <1>5, <1>6 DEF ApplyVerifiedClearing, TypeOK
<1> QED BY <1>7, <1>8, <1>9 DEF CloseEpochAndClearVerified, TypeOK

\* Paying out of a balance that covers the amount stays in range.
LEMMA TakeFromBalance ==
  ASSUME NEW f \in [Tokens -> U128], NEW t, NEW amount \in U128, f[t] >= amount
  PROVE  [f EXCEPT ![t] = @ - amount] \in [Tokens -> U128]
<1> DEFINE g == [f EXCEPT ![t] = @ - amount]
<1>1. CASE t \notin Tokens
  BY <1>1
<1>2. CASE t \in Tokens
  <2>1. f[t] - amount \in U128
    BY <1>2, NumberAssumption DEF U128
  <2> QED BY <2>1
<1> QED BY <1>1, <1>2

\* Subtracting an amount from one token's total leaves totals integers.
LEMMA TakeFromTotal ==
  ASSUME NEW f \in [Tokens -> Int], NEW t, NEW amount \in U128
  PROVE  [f EXCEPT ![t] = @ - amount] \in [Tokens -> Int]
<1>1. CASE t \notin Tokens
  BY <1>1
<1>2. CASE t \in Tokens
  <2>1. f[t] - amount \in Int
    BY <1>2, NumberAssumption DEF U128
  <2> QED BY <2>1
<1> QED BY <1>1, <1>2

\* Every step keeps the types.
LEMMA TypeInductive == TypeOK /\ [Next]_vars => TypeOK'
<1> SUFFICES ASSUME TypeOK, [Next]_vars PROVE TypeOK'
  OBVIOUS
<1>1. ASSUME NEW batch \in Batches, NEW anchor \in AnchorBlocks,
             SubmitOrders(batch, anchor)
      PROVE  TypeOK'
  <2>1. batch \in Seq(Orders) /\ Range(batch) \subseteq Orders
    BY BatchFacts
  <2>2. anchor \in Blocks
    BY DEF AnchorBlocks
  <2>3. epoch' \in EpochStates
    <3>1. epoch.order_acc \o batch \in Seq(Orders)
      BY <2>1 DEF TypeOK, EpochStates
    <3>2. epoch.order_count + Len(batch) \in 0..MAX_ORDERS_PER_EPOCH
      <4>1. epoch.order_count + Len(batch) <= MAX_ORDERS_PER_EPOCH
        BY <1>1 DEF SubmitOrders, EpochHasRoom
      <4>2. epoch.order_count \in Nat /\ Len(batch) \in Nat
        BY <2>1, NumberAssumption DEF TypeOK, EpochStates
      <4>3. MAX_ORDERS_PER_EPOCH \in Nat
        BY NumberAssumption
      <4> QED BY <4>1, <4>2, <4>3
    <3>3. epoch' = [epoch EXCEPT !.order_acc = epoch.order_acc \o batch,
                                 !.order_count = epoch.order_count + Len(batch)]
      BY <1>1 DEF SubmitOrders
    <3>4. epoch \in EpochStates
      BY DEF TypeOK
    <3> QED BY <3>1, <3>2, <3>3, <3>4 DEF EpochStates
  <2>4. custody' \in [Tokens -> U128]
    BY <1>1 DEF SubmitOrders
  <2>5. owed' \in [Tokens -> Int]
    BY <1>1, NumberAssumption DEF SubmitOrders, TypeOK, U128
  <2>6. notes' \subseteq Orders /\ submitted_at_block' \in [Orders -> Blocks]
    BY <1>1, <2>1, <2>2 DEF SubmitOrders, TypeOK
  <2> QED BY <1>1, <2>3, <2>4, <2>5, <2>6 DEF SubmitOrders, TypeOK
<1>2. ASSUME NEW o \in Orders, CancelOrder(o)
      PROVE  TypeOK'
  <2>1. Note[o].amount_in \in U128
    BY NoteAssumption DEF OrderNotes
  <2>2. epoch' \in EpochStates
    <3>1. Append(epoch.cancel_acc, o) \in Seq(Orders)
      BY DEF TypeOK, EpochStates
    <3>2. epoch.cancel_count + 1 \in Nat
      BY DEF TypeOK, EpochStates
    <3>3. EpochWithCancel(o) \in EpochStates
      BY <3>1, <3>2 DEF EpochWithCancel, TypeOK, EpochStates
    <3> QED BY <1>2, <3>3 DEF CancelOrder
  <2>3. custody' \in [Tokens -> U128]
    BY <1>2, <2>1, TakeFromBalance DEF CancelOrder, TypeOK
  <2>4. owed' \in [Tokens -> Int]
    BY <1>2, <2>1, TakeFromTotal DEF CancelOrder, TypeOK
  <2> QED BY <1>2, <2>2, <2>3, <2>4 DEF CancelOrder, TypeOK
<1>3. ASSUME NEW e \in EpochIds, NEW leaf \in fills_root[e], NEW n \in Orders,
             ClaimFill(e, leaf, n)
      PROVE  TypeOK'
  <2>1. leaf \in Leaves
    BY DEF TypeOK
  <2>2. leaf.amount_out \in U128
    BY <2>1 DEF Leaves
  <2>3. custody' \in [Tokens -> U128]
    BY <1>3, <2>2, TakeFromBalance DEF ClaimFill, TypeOK
  <2>4. owed' \in [Tokens -> Int]
    BY <1>3, <2>2, TakeFromTotal DEF ClaimFill, TypeOK
  <2>5. claimed' \subseteq EpochIds \X Leaves
    BY <1>3, <2>1 DEF ClaimFill, TypeOK
  <2> QED BY <1>3, <2>3, <2>4, <2>5 DEF ClaimFill, TypeOK
<1>4. ASSUME NEW caller \in Callers, CloseEpoch(caller)
      PROVE  TypeOK'
  <2>1. NextEpoch \in EpochStates
    BY <1>4, NextEpochType DEF CloseEpoch
  <2> QED BY <1>4, <2>1 DEF CloseEpoch, TypeOK
<1>5. ASSUME NEW caller \in Callers, CloseEpochAndClearVerified(caller)
      PROVE  TypeOK'
  BY <1>5, ClearingType
<1>6. CASE SetTreasury
  BY <1>6 DEF SetTreasury, TypeOK
<1>7. ASSUME NEW pair \in Pairs, AddPool(pair)
      PROVE  TypeOK'
  <2>1. Canonical(pair) \in Pairs
    BY DEF Canonical, Pairs
  <2>2. pools' \in Seq(Pairs) /\ Len(pools') = Len(pools) + 1
    BY <1>7, <2>1 DEF AddPool, TypeOK
  <2> QED BY <1>7, <2>2, NumberAssumption DEF AddPool, TypeOK
<1>8. ASSUME NEW caller \in Callers, Bond(caller) \/ Unbond(caller)
      PROVE  TypeOK'
  BY <1>8 DEF Bond, Unbond, contract, TypeOK
<1>9. CASE NextBlock
  BY <1>9 DEF NextBlock, contract, TypeOK
<1>10. CASE UNCHANGED vars
  BY <1>10 DEF vars, contract, TypeOK
<1> QED BY <1>1, <1>2, <1>3, <1>4, <1>5, <1>6, <1>7, <1>8, <1>9, <1>10 DEF Next

\* The state keeps its types: an epoch never exceeds the circuit's capacity and
\* no balance leaves the u128 range, whatever the amounts, pools and bounds.
THEOREM TypeCorrect == Spec => []TypeOK
<1>1. Init => TypeOK
  <2> SUFFICES ASSUME Init PROVE TypeOK
    OBVIOUS
  <2>1. 0 \in EpochIds /\ 1 \in Blocks /\ 0 \in U128 /\ 1 + EPOCH_LENGTH \in Nat
    BY NumberAssumption DEF EpochIds, Blocks, U128
  <2>2. <<>> \in Seq(Orders) /\ 0 \in 0..MAX_ORDERS_PER_EPOCH
    BY NumberAssumption
  <2>3. epoch \in EpochStates
    BY <2>1, <2>2 DEF Init, EpochStates, DeployBlock
  <2>4. pools \in Seq(Pairs) /\ Len(pools) <= MAX_NUM_POOLS
    BY PoolAssumption, NumberAssumption DEF Init
  <2>5. fills_root \in [EpochIds -> SUBSET Leaves] /\ settled \in [EpochIds -> Seq(Orders)]
    BY <2>2 DEF Init
  <2>6. block \in Blocks
    BY <2>1 DEF Init, DeployBlock
  <2>9. /\ treasury_set \in BOOLEAN /\ bonded \subseteq Callers
        /\ notes \subseteq Orders /\ cancelled \subseteq notes
        /\ cleared \subseteq EpochIds
    BY DEF Init
  <2>10. claimed \subseteq EpochIds \X Leaves
    BY DEF Init
  <2>7. submitted_at_block \in [Orders -> Blocks]
    <3>1. 0 \in Blocks
      BY NumberAssumption DEF Blocks
    <3> QED BY <3>1 DEF Init
  <2>8. custody \in [Tokens -> U128] /\ owed \in [Tokens -> Int]
    BY <2>1 DEF Init
  <2> QED BY <2>3, <2>4, <2>5, <2>6, <2>7, <2>8, <2>9, <2>10 DEF TypeOK
<1> QED BY <1>1, TypeInductive, PTL DEF Spec

-----------------------------------------------------------------------------
(* The chains of the epoch.                                                *)

\* What the two chains hold and why: an order anchored after the epoch opened
\* is of this epoch, because every note of an earlier epoch was anchored
\* before the block in which this one was opened.
ChainInv ==
  /\ CancelsReplay
  /\ Range(epoch.cancel_acc) \subseteq cancelled
  /\ Range(epoch.order_acc) \subseteq notes
  /\ IsInjective(epoch.order_acc)
  /\ epoch.opened_at_block <= block
  /\ \A o \in notes : submitted_at_block[o] < block
  /\ \A o \in notes : submitted_at_block[o] >= epoch.opened_at_block
                        => o \in Range(epoch.order_acc)

\* Empty chains satisfy whatever is asked of chains.
LEMMA EmptyChain == Range(<<>>) = {} /\ IsInjective(<<>>) /\ Len(<<>>) = 0
BY DEF Range, IsInjective

\* A new epoch starts with empty chains, opened after every note's anchor.
LEMMA NextEpochChains ==
  ASSUME TypeOK, ChainInv, epoch' = NextEpoch,
         UNCHANGED <<block, notes, submitted_at_block, cancelled>>
  PROVE  ChainInv'
<1>1. /\ epoch'.order_acc = <<>> /\ epoch'.cancel_acc = <<>>
      /\ epoch'.order_count = 0 /\ epoch'.cancel_count = 0
      /\ epoch'.opened_at_block = block
  BY DEF NextEpoch
<1>2. CancelsReplay'
  BY <1>1, EmptyChain DEF CancelsReplay
<1>3. \A o \in notes : ~(submitted_at_block[o] >= block)
  BY DEF ChainInv, TypeOK, Blocks
<1>4. block <= block
  BY DEF TypeOK, Blocks
<1> QED BY <1>1, <1>2, <1>3, <1>4, EmptyChain DEF ChainInv

\* A submission extends the order chain by orders that were not notes before.
LEMMA SubmitChains ==
  ASSUME TypeOK, ChainInv, NEW batch \in Batches, NEW anchor \in AnchorBlocks,
         SubmitOrders(batch, anchor)
  PROVE  ChainInv'
<1>1. batch \in Seq(Orders) /\ IsInjective(batch) /\ Range(batch) \subseteq Orders
  BY BatchFacts
<1>2. epoch.order_acc \in Seq(Orders) /\ epoch.cancel_acc \in Seq(Orders)
  BY DEF TypeOK, EpochStates
<1>3. /\ epoch'.order_acc = epoch.order_acc \o batch
      /\ epoch'.cancel_acc = epoch.cancel_acc
      /\ epoch'.order_count = epoch.order_count + Len(batch)
      /\ epoch'.cancel_count = epoch.cancel_count
      /\ epoch'.opened_at_block = epoch.opened_at_block
  BY DEF SubmitOrders, TypeOK, EpochStates
<1>4. Range(epoch'.order_acc) = Range(epoch.order_acc) \cup Range(batch)
  BY <1>1, <1>2, <1>3, RangeOfConcat
<1>5. Range(epoch.order_acc) \cap Range(batch) = {}
  BY DEF SubmitOrders, ChainInv
<1>6. IsInjective(epoch'.order_acc)
  BY <1>1, <1>2, <1>3, <1>5, InjectiveConcat DEF ChainInv
<1>7. Len(epoch'.order_acc) = epoch'.order_count
  <2>1. Len(epoch.order_acc \o batch) = Len(epoch.order_acc) + Len(batch)
    BY <1>1, <1>2
  <2> QED BY <2>1, <1>3 DEF ChainInv, CancelsReplay
<1>8. CancelsReplay'
  BY <1>3, <1>4, <1>7 DEF ChainInv, CancelsReplay
<1>9. notes' = notes \cup Range(batch) /\ Range(epoch'.order_acc) \subseteq notes'
  BY <1>4 DEF SubmitOrders, ChainInv
<1>10. /\ \A o \in Range(batch) : submitted_at_block'[o] = anchor
       /\ \A o \in notes : o \notin Range(batch) /\ submitted_at_block'[o] = submitted_at_block[o]
  BY <1>1 DEF SubmitOrders, TypeOK
<1>11. anchor < block /\ block' = block /\ cancelled' = cancelled
  BY DEF AnchorBlocks, SubmitOrders
<1>12. \A o \in notes' : submitted_at_block'[o] < block'
  BY <1>9, <1>10, <1>11 DEF ChainInv
<1>13. \A o \in notes' : submitted_at_block'[o] >= epoch'.opened_at_block
                           => o \in Range(epoch'.order_acc)
  BY <1>3, <1>4, <1>9, <1>10 DEF ChainInv
<1> QED BY <1>3, <1>6, <1>8, <1>9, <1>11, <1>12, <1>13 DEF ChainInv

\* A cancellation folds an order of the chain that was not folded before.
LEMMA CancelChains ==
  ASSUME TypeOK, ChainInv, NEW o \in Orders, CancelOrder(o)
  PROVE  ChainInv'
<1>1. /\ UNCHANGED <<block, notes, submitted_at_block>>
      /\ cancelled' = cancelled \cup {o}
      /\ o \in notes /\ o \notin cancelled
      /\ epoch' = EpochWithCancel(o)
  BY DEF CancelOrder
<1>2. CASE submitted_at_block[o] >= epoch.opened_at_block
  <2>1. /\ epoch'.cancel_acc = Append(epoch.cancel_acc, o)
        /\ epoch'.cancel_count = epoch.cancel_count + 1
        /\ epoch'.order_acc = epoch.order_acc
        /\ epoch'.order_count = epoch.order_count
        /\ epoch'.opened_at_block = epoch.opened_at_block
    BY <1>1, <1>2 DEF EpochWithCancel, should_fold_cancel, TypeOK, EpochStates
  <2>2. o \in Range(epoch.order_acc) /\ o \notin Range(epoch.cancel_acc)
    BY <1>1, <1>2 DEF ChainInv
  <2>3. /\ Len(epoch'.cancel_acc) = Len(epoch.cancel_acc) + 1
        /\ Range(epoch'.cancel_acc) = Range(epoch.cancel_acc) \cup {o}
        /\ IsInjective(epoch'.cancel_acc)
    BY <2>1, <2>2, AppendFacts DEF ChainInv, CancelsReplay, TypeOK, EpochStates
  <2>4. CancelsReplay'
    BY <2>1, <2>2, <2>3 DEF ChainInv, CancelsReplay
  <2> QED BY <1>1, <2>1, <2>3, <2>4 DEF ChainInv
<1>3. CASE ~(submitted_at_block[o] >= epoch.opened_at_block)
  <2>1. epoch' = epoch
    BY <1>1, <1>3 DEF EpochWithCancel, should_fold_cancel
  <2> QED BY <1>1, <2>1 DEF ChainInv, CancelsReplay
<1> QED BY <1>2, <1>3

\* Steps that only let blocks pass.
LEMMA QuietChains ==
  ASSUME TypeOK, ChainInv, UNCHANGED <<epoch, notes, submitted_at_block, cancelled>>,
         block' \in Blocks, block' >= block
  PROVE  ChainInv'
<1>1. CancelsReplay'
  BY DEF ChainInv, CancelsReplay
<1>2. epoch.opened_at_block \in Int /\ submitted_at_block \in [Orders -> Int] /\ notes \subseteq Orders
  BY DEF TypeOK, EpochStates, Blocks
<1>3. block \in Int /\ block' \in Int
  BY DEF TypeOK, Blocks
<1>4. epoch'.opened_at_block <= block' /\ \A o \in notes' : submitted_at_block'[o] < block'
  BY <1>2, <1>3 DEF ChainInv
<1> QED BY <1>1, <1>4 DEF ChainInv

\* Every step keeps the chains in order.
LEMMA ChainInductive == TypeOK /\ ChainInv /\ [Next]_vars => ChainInv'
<1> SUFFICES ASSUME TypeOK, ChainInv, [Next]_vars PROVE ChainInv'
  OBVIOUS
<1>1. ASSUME NEW batch \in Batches, NEW anchor \in AnchorBlocks,
             SubmitOrders(batch, anchor)
      PROVE  ChainInv'
  BY <1>1, SubmitChains
<1>2. ASSUME NEW o \in Orders, CancelOrder(o)
      PROVE  ChainInv'
  BY <1>2, CancelChains
<1>3. ASSUME NEW e \in EpochIds, NEW leaf \in fills_root[e], NEW n \in Orders,
             ClaimFill(e, leaf, n)
      PROVE  ChainInv'
  <2>1. UNCHANGED <<block, epoch, notes, submitted_at_block, cancelled>>
    BY <1>3 DEF ClaimFill
  <2> QED BY <2>1, QuietChains DEF TypeOK, Blocks
<1>4. ASSUME NEW caller \in Callers, CloseEpoch(caller)
      PROVE  ChainInv'
  BY <1>4, NextEpochChains DEF CloseEpoch
<1>5. ASSUME NEW caller \in Callers, CloseEpochAndClearVerified(caller)
      PROVE  ChainInv'
  <2>1. PICK p, amount_out : ClearsWith(p, amount_out)
    BY <1>5, ClearingWitness
  <2>2. epoch' = NextEpoch
    BY <2>1 DEF ClearsWith, ApplyVerifiedClearing
  <2>3. UNCHANGED <<block, notes, submitted_at_block, cancelled>>
    BY <1>5 DEF CloseEpochAndClearVerified
  <2> QED BY <2>2, <2>3, NextEpochChains
<1>6. CASE SetTreasury \/ (\E pair \in Pairs : AddPool(pair)) \/ UNCHANGED vars
           \/ (\E caller \in Callers : Bond(caller) \/ Unbond(caller))
  <2>1. UNCHANGED <<block, epoch, notes, submitted_at_block, cancelled>>
    BY <1>6 DEF SetTreasury, AddPool, Bond, Unbond, vars, contract
  <2> QED BY <2>1, QuietChains DEF TypeOK, Blocks
<1>7. CASE NextBlock
  <2>1. UNCHANGED <<epoch, notes, submitted_at_block, cancelled>>
    BY <1>7 DEF NextBlock, contract
  <2>2. block' \in Blocks /\ block' >= block
    BY <1>7 DEF NextBlock, TypeOK, Blocks
  <2> QED BY <2>1, <2>2, QuietChains
<1> QED BY <1>1, <1>2, <1>3, <1>4, <1>5, <1>6, <1>7 DEF Next

\* In every reachable state the chains are those of the notes submitted since
\* the epoch opened.
LEMMA ChainsCorrect == Spec => []ChainInv
<1>1. Init => ChainInv
  BY EmptyChain, NumberAssumption DEF Init, ChainInv, CancelsReplay, DeployBlock
<1> QED BY <1>1, TypeCorrect, ChainInductive, PTL DEF Spec

\* H13: however submissions, cancellations and epoch transitions interleave and
\* whatever blocks the transactions are anchored at, the cancel chain stays one
\* the circuit can replay against the order chain: no cancellation bricks the
\* epoch's clearing.
THEOREM CancelsReplayCorrect == Spec => []CancelsReplay
<1>1. ChainInv => CancelsReplay
  BY DEF ChainInv
<1> QED BY <1>1, ChainsCorrect, PTL

-----------------------------------------------------------------------------
(* The recorded fills.                                                     *)

\* Roots exist only for epochs that are over, and what they fill is neither in
\* the open epoch's chain nor filled by another root.
SettledInv ==
  /\ \A e \in cleared : e < epoch.epoch_id
  /\ \A e \in EpochIds : e \notin cleared => fills_root[e] = {}
  /\ \A e \in EpochIds : \A l \in fills_root[e] :
       l.order \in notes /\ l.order \notin Range(epoch.order_acc)
  /\ FilledOnce

\* A clearing's new leaves fill orders of the epoch's chain, one leaf each.
LEMMA NewLeaves ==
  ASSUME TypeOK, ChainInv, SettledInv, NEW p, NEW amount_out, ClearsWith(p, amount_out)
  PROVE  /\ fills_root' = [fills_root EXCEPT ![epoch.epoch_id] = FillLeaves(p, amount_out)]
         /\ \A l \in FillLeaves(p, amount_out) :
              l.order \in Range(epoch.order_acc) \ Range(epoch.cancel_acc)
         /\ \A l, m \in FillLeaves(p, amount_out) : l.order = m.order => l = m
<1>1. p.order_acc = epoch.order_acc /\ p.cancel_acc = epoch.cancel_acc
  BY DEF ClearsWith, OrdersAreFresh, CancelsAreFresh
<1>2. p.filled \subseteq Range(epoch.order_acc) \ Range(epoch.cancel_acc)
  BY <1>1 DEF ClearsWith, CircuitFills, MustFill, Live
<1>3. \A l \in FillLeaves(p, amount_out) :
        /\ l.order \in p.filled
        /\ l = [order |-> l.order, amount_out |-> amount_out[l.order],
                pool_id |-> PoolSlot(p, l.order)]
  BY DEF FillLeaves
<1> QED BY <1>2, <1>3 DEF ClearsWith, ApplyVerifiedClearing

\* A clearing settles the open epoch only, and its orders for the first time.
LEMMA ClearingSettled ==
  ASSUME TypeOK, ChainInv, SettledInv, NEW p, NEW amount_out, ClearsWith(p, amount_out),
         notes' = notes
  PROVE  SettledInv'
<1> DEFINE now == epoch.epoch_id
           L == FillLeaves(p, amount_out)
<1>1. /\ fills_root' = [fills_root EXCEPT ![now] = L]
      /\ \A l \in L : l.order \in Range(epoch.order_acc) \ Range(epoch.cancel_acc)
      /\ \A l, m \in L : l.order = m.order => l = m
  BY NewLeaves
<1>2. now \in EpochIds /\ fills_root \in [EpochIds -> SUBSET Leaves]
  BY DEF TypeOK, EpochStates
<1>3. /\ cleared' = cleared \cup {now}
      /\ epoch'.epoch_id = now + 1 /\ epoch'.order_acc = <<>>
  BY DEF ClearsWith, ApplyVerifiedClearing, NextEpoch
<1>4. /\ fills_root'[now] = L
      /\ \A e \in EpochIds : e # now => fills_root'[e] = fills_root[e]
  BY <1>1, <1>2
<1> HIDE DEF L, now
<1>5. \A e \in cleared' : e < epoch'.epoch_id
  <2>1. \A e \in cleared : e < now /\ e \in Int /\ now \in Int
    BY <1>2 DEF SettledInv, now, TypeOK, EpochIds
  <2>2. now < now + 1 /\ \A e \in cleared : e < now + 1
    BY <2>1, <1>2 DEF EpochIds
  <2> QED BY <2>2, <1>3
<1>6. \A e \in EpochIds : e \notin cleared' => fills_root'[e] = {}
  BY <1>3, <1>4 DEF SettledInv
<1>7. \A e \in EpochIds : \A l \in fills_root'[e] :
        l.order \in notes' /\ l.order \notin Range(epoch'.order_acc)
  BY <1>1, <1>3, <1>4, EmptyChain DEF SettledInv, ChainInv
<1>8. FilledOnce'
  <2> SUFFICES ASSUME NEW d \in EpochIds, NEW e \in EpochIds,
                      NEW l \in fills_root'[d], NEW m \in fills_root'[e],
                      l.order = m.order
               PROVE  d = e /\ l = m
    BY DEF FilledOnce
  <2>1. CASE d # now /\ e # now
    BY <2>1, <1>4 DEF SettledInv, FilledOnce
  <2>2. CASE d = now /\ e = now
    BY <2>2, <1>1, <1>4
  <2>3. CASE (d = now) # (e = now)
    BY <2>3, <1>1, <1>4 DEF SettledInv
  <2> QED BY <2>1, <2>2, <2>3
<1> QED BY <1>5, <1>6, <1>7, <1>8 DEF SettledInv

\* Steps that leave the roots alone and put only new notes in the chain.
LEMMA QuietSettled ==
  ASSUME TypeOK, SettledInv, UNCHANGED <<cleared, fills_root>>,
         notes \subseteq notes',
         epoch'.epoch_id \in Nat, epoch'.epoch_id >= epoch.epoch_id,
         \A o \in Range(epoch'.order_acc) : o \in Range(epoch.order_acc) \/ o \notin notes
  PROVE  SettledInv'
<1>1. \A e \in cleared' : e < epoch'.epoch_id
  BY DEF SettledInv, TypeOK, EpochStates, EpochIds
<1>2. \A e \in EpochIds : \A l \in fills_root'[e] :
        l.order \in notes' /\ l.order \notin Range(epoch'.order_acc)
  BY DEF SettledInv
<1>3. FilledOnce'
  BY DEF SettledInv, FilledOnce
<1> QED BY <1>1, <1>2, <1>3 DEF SettledInv

\* Every step keeps the recorded fills apart.
LEMMA SettledInductive == TypeOK /\ ChainInv /\ SettledInv /\ [Next]_vars => SettledInv'
<1> SUFFICES ASSUME TypeOK, ChainInv, SettledInv, [Next]_vars PROVE SettledInv'
  OBVIOUS
<1>0. epoch.epoch_id \in Nat
  BY DEF TypeOK, EpochStates, EpochIds
<1>1. ASSUME NEW batch \in Batches, NEW anchor \in AnchorBlocks,
             SubmitOrders(batch, anchor)
      PROVE  SettledInv'
  <2>1. batch \in Seq(Orders) /\ epoch.order_acc \in Seq(Orders)
    BY BatchFacts DEF TypeOK, EpochStates
  <2>2. epoch'.order_acc = epoch.order_acc \o batch /\ epoch'.epoch_id = epoch.epoch_id
    BY <1>1 DEF SubmitOrders, TypeOK, EpochStates
  <2>3. Range(epoch'.order_acc) = Range(epoch.order_acc) \cup Range(batch)
    BY <2>1, <2>2, RangeOfConcat
  <2>4. UNCHANGED <<cleared, fills_root>> /\ notes \subseteq notes' /\ Range(batch) \cap notes = {}
    BY <1>1 DEF SubmitOrders
  <2> QED BY <1>0, <2>2, <2>3, <2>4, QuietSettled
<1>2. ASSUME NEW o \in Orders, CancelOrder(o)
      PROVE  SettledInv'
  <2>1. UNCHANGED <<cleared, fills_root, notes>>
    BY <1>2 DEF CancelOrder
  <2>2. epoch'.epoch_id = epoch.epoch_id /\ epoch'.order_acc = epoch.order_acc
    BY <1>2 DEF CancelOrder, EpochWithCancel, TypeOK, EpochStates
  <2> QED BY <1>0, <2>1, <2>2, QuietSettled
<1>3. ASSUME NEW caller \in Callers, CloseEpoch(caller)
      PROVE  SettledInv'
  <2>1. UNCHANGED <<cleared, fills_root, notes>>
    BY <1>3 DEF CloseEpoch
  <2>2. epoch'.epoch_id = epoch.epoch_id + 1 /\ Range(epoch'.order_acc) = {}
    BY <1>3, EmptyChain DEF CloseEpoch, NextEpoch
  <2> QED BY <1>0, <2>1, <2>2, QuietSettled
<1>4. ASSUME NEW caller \in Callers, CloseEpochAndClearVerified(caller)
      PROVE  SettledInv'
  <2>1. PICK p, amount_out : ClearsWith(p, amount_out)
    BY <1>4, ClearingWitness
  <2>2. notes' = notes
    BY <1>4 DEF CloseEpochAndClearVerified
  <2> QED BY <2>1, <2>2, ClearingSettled
<1>5. CASE UNCHANGED <<epoch, cleared, fills_root, notes>>
  BY <1>0, <1>5, QuietSettled
<1>6. ASSUME NEW e \in EpochIds, NEW leaf \in fills_root[e], NEW n \in Orders,
             ClaimFill(e, leaf, n)
      PROVE  UNCHANGED <<epoch, cleared, fills_root, notes>>
  BY <1>6 DEF ClaimFill
<1>7. CASE SetTreasury \/ (\E pair \in Pairs : AddPool(pair)) \/ NextBlock
           \/ UNCHANGED vars \/ (\E caller \in Callers : Bond(caller) \/ Unbond(caller))
  BY <1>5, <1>7 DEF SetTreasury, AddPool, Bond, Unbond, NextBlock, vars, contract
<1> QED BY <1>1, <1>2, <1>3, <1>4, <1>5, <1>6, <1>7 DEF Next

\* In every reachable state the filled orders are those of the settled epochs.
LEMMA SettledCorrect == Spec => []SettledInv
<1>1. Init => SettledInv
  BY EmptyChain DEF Init, SettledInv, FilledOnce
<1> QED BY <1>1, TypeCorrect, ChainsCorrect, SettledInductive, PTL DEF Spec

\* No order is filled by two clearings or twice by one: notes are never popped
\* and a proof may replay any chain, so only the accumulators' freshness and
\* the notes' nullifiers stand in the way.
THEOREM FilledOnceCorrect == Spec => []FilledOnce
<1>1. SettledInv => FilledOnce
  BY DEF SettledInv
<1> QED BY <1>1, SettledCorrect, PTL

-----------------------------------------------------------------------------
(* What a step may never do.                                               *)

\* What every step does to the roots: nothing, or ClearsWith records one.
LEMMA RootSteps ==
  ASSUME [Next]_vars
  PROVE  \/ UNCHANGED <<cleared, fills_root>>
         \/ \E p, amount_out : ClearsWith(p, amount_out)
<1>1. CASE \E caller \in Callers : CloseEpochAndClearVerified(caller)
  BY <1>1, ClearingWitness
<1>2. CASE UNCHANGED vars
  BY <1>2 DEF vars, contract
<1>3. CASE Next /\ ~(\E caller \in Callers : CloseEpochAndClearVerified(caller))
  BY <1>3 DEF Next, SubmitOrders, CancelOrder, ClaimFill, CloseEpoch, SetTreasury,
              AddPool, Bond, Unbond, NextBlock, contract
<1> QED BY <1>1, <1>2, <1>3

\* A proof built before a cancellation, or for another epoch, settles nothing:
\* every new fill is of an order in the open epoch's chain whose cancellation
\* was not folded.
THEOREM SettlesOnlyLiveOrdersCorrect == Spec => SettlesOnlyLiveOrders
<1>1. TypeOK /\ ChainInv /\ SettledInv /\ [Next]_vars => [NewFillsAreLive]_vars
  <2> SUFFICES ASSUME TypeOK, ChainInv, SettledInv, [Next]_vars,
                      NEW e \in EpochIds, NEW l \in fills_root'[e] \ fills_root[e]
               PROVE  l.order \in Range(epoch.order_acc) \ Range(epoch.cancel_acc)
    BY DEF NewFillsAreLive
  <2>1. PICK p, amount_out : ClearsWith(p, amount_out)
    BY RootSteps
  <2>2. fills_root' = [fills_root EXCEPT ![epoch.epoch_id] = FillLeaves(p, amount_out)]
    BY <2>1, NewLeaves
  <2>3. l \in FillLeaves(p, amount_out)
    BY <2>2 DEF TypeOK
  <2> QED BY <2>1, <2>3, NewLeaves
<1> QED BY <1>1, TypeCorrect, ChainsCorrect, SettledCorrect, PTL DEF Spec, SettlesOnlyLiveOrders

\* No later step rewrites a recorded root, and none is recorded for an epoch
\* that is still to come.
THEOREM RootsAreFinalCorrect == Spec => RootsAreFinal
<1>1. TypeOK /\ ChainInv /\ SettledInv /\ [Next]_vars => [RootsAreKept]_vars
  <2> SUFFICES ASSUME TypeOK, ChainInv, SettledInv, [Next]_vars
               PROVE  RootsAreKept
    OBVIOUS
  <2>1. CASE UNCHANGED <<cleared, fills_root>>
    BY <2>1 DEF RootsAreKept
  <2>2. ASSUME NEW p, NEW amount_out, ClearsWith(p, amount_out)
        PROVE  RootsAreKept
    <3>1. fills_root' = [fills_root EXCEPT ![epoch.epoch_id] = FillLeaves(p, amount_out)]
      BY <2>2, NewLeaves
    <3>2. cleared' = cleared \cup {epoch.epoch_id} /\ epoch'.epoch_id = epoch.epoch_id + 1
      BY <2>2 DEF ClearsWith, ApplyVerifiedClearing, NextEpoch
    <3>3. epoch.epoch_id \in Nat /\ \A e \in cleared : e \in Nat /\ e < epoch.epoch_id
      BY DEF SettledInv, TypeOK, EpochStates, EpochIds
    <3>4. epoch'.epoch_id \notin cleared'
      BY <3>2, <3>3
    <3>5. \A e \in cleared : fills_root'[e] = fills_root[e]
      BY <3>1, <3>3 DEF TypeOK
    <3> QED BY <3>2, <3>4, <3>5 DEF RootsAreKept
  <2> QED BY <2>1, <2>2, RootSteps
<1> QED BY <1>1, TypeCorrect, ChainsCorrect, SettledCorrect, PTL DEF Spec, RootsAreFinal

\* M16: an epoch that has orders never ends without a root before its window
\* has passed, nor within the grace blocks unless an aggregator is bonded.
THEOREM OrphaningIsGatedCorrect == Spec => OrphaningIsGated
<1>1. TypeOK /\ ChainInv /\ SettledInv /\ [Next]_vars => [Orphans => MayOrphan]_vars
  <2> SUFFICES ASSUME TypeOK, ChainInv, SettledInv, [Next]_vars, Orphans
               PROVE  MayOrphan
    OBVIOUS
  <2>1. epoch.order_count # 0
    BY DEF Orphans, ChainInv, CancelsReplay, TypeOK, EpochStates, Range
  <2>2. ASSUME NEW caller \in Callers, CloseEpoch(caller)
        PROVE  MayOrphan
    <3>1. CASE caller \in bonded
      BY <2>2, <3>1 DEF CloseEpoch, EpochHasExpired, MayOrphan
    <3>2. CASE ~(block < epoch.closes_at_block + CLEAR_GRACE_BLOCKS)
      BY <3>2, NumberAssumption DEF MayOrphan, TypeOK, EpochStates, Blocks
    <3> QED BY <2>1, <2>2, <3>1, <3>2 DEF CloseEpoch, bare_close_needs_bond
  <2>3. ASSUME NEW p, NEW amount_out, ClearsWith(p, amount_out)
        PROVE  FALSE
    <3>1. cleared' = cleared \cup {epoch.epoch_id}
      BY <2>3 DEF ClearsWith, ApplyVerifiedClearing
    <3>2. epoch.epoch_id \notin cleared
      BY DEF SettledInv, TypeOK, EpochStates, EpochIds
    <3> QED BY <3>1, <3>2 DEF Orphans
  <2>4. ASSUME NEW batch \in Batches, NEW anchor \in AnchorBlocks, SubmitOrders(batch, anchor)
        PROVE  epoch'.epoch_id = epoch.epoch_id
    BY <2>4 DEF SubmitOrders, TypeOK, EpochStates
  <2>5. ASSUME NEW o \in Orders, CancelOrder(o)
        PROVE  epoch'.epoch_id = epoch.epoch_id
    BY <2>5 DEF CancelOrder, EpochWithCancel, TypeOK, EpochStates
  <2>6. CASE UNCHANGED epoch
    BY <2>6 DEF Orphans
  <2> QED BY <2>2, <2>3, <2>4, <2>5, <2>6, ClearingWitness
          DEF Orphans, Next, ClaimFill, SetTreasury, AddPool, Bond, Unbond,
              NextBlock, vars, contract
<1> QED BY <1>1, TypeCorrect, ChainsCorrect, SettledCorrect, PTL DEF Spec, OrphaningIsGated

-----------------------------------------------------------------------------
(* Solvency.                                                               *)

\* The registry holds pairs in canonical order, so the tokens a slot moves are
\* the tokens the circuit priced and charged.
RegistryInv == \A i \in DOMAIN pools : Canonical(pools[i]) = pools[i]

\* Putting a pair in canonical order twice changes nothing more.
LEMMA CanonicalIsFixed ==
  ASSUME NEW pair \in Pairs
  PROVE  Canonical(Canonical(pair)) = Canonical(pair)
<1>1. pair[1] \in Nat /\ pair[2] \in Nat
  BY TokenAssumption DEF Pairs
<1>2. CASE pair[1] < pair[2]
  BY <1>2 DEF Canonical
<1>3. CASE ~(pair[1] < pair[2])
  <2>1. Canonical(pair) = <<pair[2], pair[1]>>
    BY <1>3 DEF Canonical
  <2>2. CASE pair[2] < pair[1]
    BY <2>1, <2>2 DEF Canonical
  <2>3. CASE pair[1] = pair[2]
    BY <2>1, <2>3 DEF Canonical
  <2> QED BY <1>1, <1>3, <2>2, <2>3
<1> QED BY <1>2, <1>3

\* Every registered pair is in canonical order: the constructor's by its
\* callers' duty, the others because add_pool sorts them.
LEMMA RegistryCorrect == Spec => []RegistryInv
<1>1. Init => RegistryInv
  BY PoolAssumption DEF Init, RegistryInv, Canonical
<1>2. TypeOK /\ RegistryInv /\ [Next]_vars => RegistryInv'
  <2> SUFFICES ASSUME TypeOK, RegistryInv, [Next]_vars PROVE RegistryInv'
    OBVIOUS
  <2>1. ASSUME NEW pair \in Pairs, AddPool(pair)
        PROVE  RegistryInv'
    <3>1. Canonical(pair) \in Pairs
      BY DEF Canonical, Pairs
    <3>2. pools' = Append(pools, Canonical(pair))
      BY <2>1 DEF AddPool
    <3>3. \A i \in DOMAIN pools' :
            \/ i \in DOMAIN pools /\ pools'[i] = pools[i]
            \/ pools'[i] = Canonical(pair)
      BY <3>1, <3>2 DEF TypeOK
    <3> QED BY <3>3, CanonicalIsFixed DEF RegistryInv
  <2>2. CASE UNCHANGED pools
    BY <2>2 DEF RegistryInv
  <2>3. ASSUME NEW caller, CloseEpochAndClearVerified(caller)
        PROVE  UNCHANGED pools
    BY <2>3 DEF CloseEpochAndClearVerified
  <2> QED BY <2>1, <2>2, <2>3
          DEF Next, SubmitOrders, CancelOrder, ClaimFill, CloseEpoch,
              SetTreasury, Bond, Unbond, NextBlock, vars, contract
<1> QED BY <1>1, <1>2, TypeCorrect, PTL DEF Spec

\* The contract moves the tokens the circuit charged for.
LEMMA PairsAgree ==
  ASSUME RegistryInv, NEW p, NEW k, p.active_pools \in ActivePools
  PROVE  RegistryPair(p, k) = PricedPair(p, k)
<1>1. PICK n \in 0..MAX_ACTIVE_POOLS_PER_EPOCH : p.active_pools \in [1..n -> PoolSlots]
  BY DEF ActivePools
<1>2. CASE k \in DOMAIN p.active_pools
  <2>1. p.active_pools[k] \in PoolSlots
    BY <1>1, <1>2
  <2>2. p.active_pools[k].pool_id \in DOMAIN pools /\ PairIsBound(p.active_pools[k])
    BY <2>1 DEF PoolSlots
  <2> QED BY <1>2, <2>2 DEF RegistryInv, PairIsBound, RegistryPair, PricedPair
<1>3. CASE k \notin DOMAIN p.active_pools
  BY <1>3 DEF RegistryPair, PricedPair
<1> QED BY <1>2, <1>3

\* A clearing pays the pools no more than the circuit charged the fills for.
LEMMA ClearingMargin ==
  ASSUME TypeOK, RegistryInv, NEW p, NEW amount_out, ClearsWith(p, amount_out),
         NEW t \in Tokens
  PROVE  /\ custody[t] \in Int /\ owed[t] \in Int /\ custody'[t] \in Int /\ owed'[t] \in Int
         /\ custody'[t] - owed'[t] >= custody[t] - owed[t]
<1> DEFINE To(k) == ToPool(p, k, PricedPair(p, k), t)
           From(k) == FromPool(p, k, PricedPair(p, k), t)
           In(k) == EscrowIn(p, k, t)
           Pay(k) == PayOut(p, amount_out, k, t)
<1>1. custody'[t] = custody[t] - To(1) + From(1) - To(2) + From(2) - To(3) + From(3)
  <2> DEFINE after1 == Settle(custody, p, 1)
             after2 == Settle(after1, p, 2)
             after3 == Settle(after2, p, 3)
  <2>1. custody' = after3
    BY DEF ClearsWith, ApplyVerifiedClearing
  <2>2. \A k \in 1..3 : RegistryPair(p, k) = PricedPair(p, k)
    BY PairsAgree DEF ClearsWith
  <2>3. /\ after1[t] = custody[t] - To(1) + From(1)
        /\ after2[t] = after1[t] - To(2) + From(2)
        /\ after3[t] = after2[t] - To(3) + From(3)
    BY <2>2 DEF Settle
  <2>4. custody'[t] = after3[t]
    BY <2>1
  <2>5. /\ custody[t] \in Int
        /\ To(1) \in Int /\ To(2) \in Int /\ To(3) \in Int
        /\ From(1) \in Int /\ From(2) \in Int /\ From(3) \in Int
    BY FlowType, NumberAssumption DEF ClearsWith, TypeOK, U128
  <2> HIDE DEF after1, after2, after3, To, From
  <2> QED BY <2>3, <2>4, <2>5
<1>2. owed'[t] = owed[t] - (In(1) + In(2) + In(3)) + (Pay(1) + Pay(2) + Pay(3))
  BY DEF ClearsWith, ApplyVerifiedClearing
<1>3. ASSUME NEW k \in 1..3
      PROVE  /\ To(k) \in Nat /\ From(k) \in Nat /\ In(k) \in Nat /\ Pay(k) \in Nat
             /\ Pay(k) + To(k) <= From(k) + In(k)
  <2>1. To(k) \in Nat /\ From(k) \in Nat
    BY FlowType DEF ClearsWith
  <2>2. In(k) \in Nat /\ Pay(k) \in Nat
    BY NumberAssumption DEF ClearsWith, CircuitSolvency, U128
  <2>3. Pay(k) + To(k) <= From(k) + In(k)
    BY DEF ClearsWith, CircuitSolvency, token_solvent
  <2> QED BY <2>1, <2>2, <2>3
<1>4. /\ To(1) \in Nat /\ From(1) \in Nat /\ In(1) \in Nat /\ Pay(1) \in Nat
      /\ To(2) \in Nat /\ From(2) \in Nat /\ In(2) \in Nat /\ Pay(2) \in Nat
      /\ To(3) \in Nat /\ From(3) \in Nat /\ In(3) \in Nat /\ Pay(3) \in Nat
      /\ Pay(1) + To(1) <= From(1) + In(1)
      /\ Pay(2) + To(2) <= From(2) + In(2)
      /\ Pay(3) + To(3) <= From(3) + In(3)
  BY <1>3
<1>5. custody[t] \in Int /\ owed[t] \in Int
  BY NumberAssumption DEF TypeOK, U128
<1> HIDE DEF To, From, In, Pay
<1> QED BY <1>1, <1>2, <1>4, <1>5

\* A clearing keeps the contract solvent.
LEMMA ClearingSolvent ==
  ASSUME TypeOK, RegistryInv, Solvency, NEW p, NEW amount_out, ClearsWith(p, amount_out)
  PROVE  Solvency'
<1> SUFFICES ASSUME NEW t \in Tokens PROVE custody'[t] >= owed'[t]
  BY DEF Solvency
<1>1. custody[t] >= owed[t]
  BY DEF Solvency
<1> QED BY <1>1, ClearingMargin

\* Every step keeps the contract solvent.
LEMMA SolvencyInductive ==
  ASSUME UniqueNonces
  PROVE  TypeOK /\ RegistryInv /\ Solvency /\ [Next]_vars => Solvency'
<1> SUFFICES ASSUME TypeOK, RegistryInv, Solvency, [Next]_vars PROVE Solvency'
  OBVIOUS
<1>0. \A t \in Tokens : custody[t] \in Int /\ owed[t] \in Int /\ custody[t] >= owed[t]
  BY NumberAssumption DEF TypeOK, Solvency, U128
<1>1. ASSUME NEW batch \in Batches, NEW anchor \in AnchorBlocks,
             SubmitOrders(batch, anchor)
      PROVE  Solvency'
  <2> SUFFICES ASSUME NEW t \in Tokens PROVE custody'[t] >= owed'[t]
    BY DEF Solvency
  <2>1. Escrow(Range(batch), t) \in Int
    BY <1>1, NumberAssumption DEF SubmitOrders, U128
  <2>2. /\ custody'[t] = custody[t] + Escrow(Range(batch), t)
        /\ owed'[t] = owed[t] + Escrow(Range(batch), t)
    BY <1>1 DEF SubmitOrders
  <2> QED BY <1>0, <2>1, <2>2
<1>2. ASSUME NEW o \in Orders, CancelOrder(o)
      PROVE  Solvency'
  <2> SUFFICES ASSUME NEW t \in Tokens PROVE custody'[t] >= owed'[t]
    BY DEF Solvency
  <2>1. Note[o].amount_in \in Int
    BY NoteAssumption, NumberAssumption DEF OrderNotes, U128
  <2>2. /\ custody' = [custody EXCEPT ![InputToken(o)] = @ - Note[o].amount_in]
        /\ owed' = [owed EXCEPT ![InputToken(o)] = @ - Note[o].amount_in]
    BY <1>2 DEF CancelOrder
  <2> QED BY <1>0, <2>1, <2>2 DEF TypeOK
<1>3. ASSUME NEW e \in EpochIds, NEW leaf \in fills_root[e], NEW n \in Orders,
             ClaimFill(e, leaf, n)
      PROVE  Solvency'
  <2> SUFFICES ASSUME NEW t \in Tokens PROVE custody'[t] >= owed'[t]
    BY DEF Solvency
  <2>1. leaf.order \in Orders /\ leaf.amount_out \in Int
    BY NumberAssumption DEF TypeOK, Leaves, U128
  <2>2. n = leaf.order
    BY <1>3, <2>1, UniqueNonces DEF ClaimFill, NoteMatchesLeaf, UniqueNonces
  <2>3. /\ custody' = [custody EXCEPT ![OutputToken(n)] = @ - leaf.amount_out]
        /\ owed' = [owed EXCEPT ![OutputToken(n)] = @ - leaf.amount_out]
    BY <1>3, <2>2 DEF ClaimFill
  <2> QED BY <1>0, <2>1, <2>3 DEF TypeOK
<1>4. ASSUME NEW caller \in Callers, CloseEpochAndClearVerified(caller)
      PROVE  Solvency'
  BY <1>4, ClearingWitness, ClearingSolvent
<1>5. CASE UNCHANGED <<custody, owed>>
  BY <1>5 DEF Solvency
<1> QED BY <1>1, <1>2, <1>3, <1>4, <1>5
        DEF Next, CloseEpoch, SetTreasury, AddPool, Bond, Unbond, NextBlock, vars, contract

\* The public balance of every token covers what the makers are owed in it, for
\* any orders, pools, prices and flows, as long as no maker reuses a nonce.
THEOREM SolvencyCorrect ==
  ASSUME UniqueNonces
  PROVE  Spec => []Solvency
<1>1. Init => Solvency
  BY DEF Init, Solvency
<1>2. TypeOK /\ RegistryInv /\ Solvency /\ [Next]_vars => Solvency'
  BY SolvencyInductive
<1> QED BY <1>1, <1>2, TypeCorrect, RegistryCorrect, PTL DEF Spec

-----------------------------------------------------------------------------
(* What is owed: the running total of Solvency is the makers' claims.      *)

Amounts == [o \in Orders |-> Note[o].amount_in]

Bringing(S, t) == { o \in S : InputToken(o) = t }

Payments == [c \in EpochIds \X Leaves |-> c[2].amount_out]

PaidIn(U, t) == { c \in U : OutputToken(c[2].order) = t }

\* The fills of U that pay token t, summed.
Payable(U, t) == SumFunctionOnSet([c \in U |-> c[2].amount_out], PaidIn(U, t))

\* The amounts summed are integers.
LEMMA AmountsType ==
  /\ \A S \in SUBSET Orders : IntOn(Amounts, S)
  /\ \A U \in SUBSET (EpochIds \X Leaves) : IntOn(Payments, U)
<1>1. \A o \in Orders : Amounts[o] \in Int
  BY NoteAssumption, NumberAssumption DEF Amounts, OrderNotes, U128
<1>2. \A c \in EpochIds \X Leaves : Payments[c] \in Int
  BY NumberAssumption DEF Payments, Leaves, U128
<1> QED BY <1>1, <1>2 DEF IntOn

\* The escrow of a set of orders is an integer.
LEMMA EscrowType ==
  ASSUME NEW S \in SUBSET Orders, IsFiniteSet(S), NEW t
  PROVE  Escrow(S, t) \in Int
<1>1. Bringing(S, t) \in SUBSET Orders /\ IsFiniteSet(Bringing(S, t))
  BY FS_Subset DEF Bringing
<1>2. Sum(Amounts, Bringing(S, t)) \in Int
  BY <1>1, AmountsType, SumType
<1> QED BY <1>2 DEF Escrow, Sum, Amounts, Bringing

\* The escrow of two sets without a common order.
LEMMA EscrowUnion ==
  ASSUME NEW S \in SUBSET Orders, IsFiniteSet(S), NEW T \in SUBSET Orders, IsFiniteSet(T),
         S \cap T = {}, NEW t
  PROVE  Escrow(S \cup T, t) = Escrow(S, t) + Escrow(T, t)
<1>1. /\ Bringing(S, t) \in SUBSET Orders /\ IsFiniteSet(Bringing(S, t))
      /\ Bringing(T, t) \in SUBSET Orders /\ IsFiniteSet(Bringing(T, t))
      /\ Bringing(S, t) \cap Bringing(T, t) = {}
      /\ Bringing(S \cup T, t) = Bringing(S, t) \cup Bringing(T, t)
  BY FS_Subset DEF Bringing
<1>2. IntOn(Amounts, Bringing(S, t) \cup Bringing(T, t))
  BY <1>1, AmountsType
<1>3. Sum(Amounts, Bringing(S, t) \cup Bringing(T, t))
        = Sum(Amounts, Bringing(S, t)) + Sum(Amounts, Bringing(T, t))
  BY <1>1, <1>2, SumUnion
<1>4. \A R : Escrow(R, t) = Sum(Amounts, Bringing(R, t))
  BY DEF Escrow, Sum, Amounts, Bringing
<1> QED BY <1>1, <1>3, <1>4

\* The escrow of one order.
LEMMA EscrowOne ==
  ASSUME NEW o \in Orders, NEW t
  PROVE  Escrow({o}, t) = IF InputToken(o) = t THEN Note[o].amount_in ELSE 0
<1>1. Escrow({o}, t) = Sum(Amounts, Bringing({o}, t))
  BY DEF Escrow, Sum, Amounts, Bringing
<1>2. CASE InputToken(o) # t
  <2>1. Bringing({o}, t) = {}
    BY <1>2 DEF Bringing
  <2> QED BY <1>1, <1>2, <2>1, SumEmpty
<1>3. CASE InputToken(o) = t
  <2>1. Bringing({o}, t) = {} \cup {o}
    BY <1>3 DEF Bringing
  <2>2. IntOn(Amounts, {} \cup {o}) /\ IsFiniteSet({})
    BY AmountsType, FS_EmptySet
  <2>3. Sum(Amounts, {} \cup {o}) = Sum(Amounts, {}) + Amounts[o]
    BY <2>2, SumAdd
  <2>4. Sum(Amounts, {}) = 0 /\ Note[o].amount_in \in Int
    BY SumEmpty, NoteAssumption, NumberAssumption DEF OrderNotes, U128
  <2>5. Amounts[o] = Note[o].amount_in
    BY DEF Amounts
  <2>6. Escrow({o}, t) = Sum(Amounts, {} \cup {o})
    BY <1>1, <2>1
  <2> QED BY <1>3, <2>3, <2>4, <2>5, <2>6
<1> QED BY <1>2, <1>3

\* What is payable is a sum of one fixed function, whatever the set of fills.
LEMMA PayableIsSum ==
  ASSUME NEW U \in SUBSET (EpochIds \X Leaves), IsFiniteSet(U), NEW t
  PROVE  /\ Payable(U, t) = Sum(Payments, PaidIn(U, t))
         /\ PaidIn(U, t) \in SUBSET (EpochIds \X Leaves)
         /\ IsFiniteSet(PaidIn(U, t))
         /\ Payable(U, t) \in Int
<1>1. IsFiniteSet(PaidIn(U, t)) /\ PaidIn(U, t) \in SUBSET (EpochIds \X Leaves)
  BY FS_Subset DEF PaidIn
<1> DEFINE f == [c \in U |-> c[2].amount_out]
<1>2. \A c \in PaidIn(U, t) : f[c] = Payments[c]
  BY DEF PaidIn, Payments
<1>3. Payable(U, t) = Sum(f, PaidIn(U, t))
  BY DEF Payable, Sum
<1> HIDE DEF f
<1>4. Sum(f, PaidIn(U, t)) = Sum(Payments, PaidIn(U, t))
  BY <1>1, <1>2, SumAgree
<1>5. Sum(Payments, PaidIn(U, t)) \in Int
  BY <1>1, AmountsType, SumType
<1> QED BY <1>1, <1>3, <1>4, <1>5

\* What is payable on two sets without a common fill.
LEMMA PayableUnion ==
  ASSUME NEW U \in SUBSET (EpochIds \X Leaves), IsFiniteSet(U),
         NEW V \in SUBSET (EpochIds \X Leaves), IsFiniteSet(V), U \cap V = {}, NEW t
  PROVE  Payable(U \cup V, t) = Payable(U, t) + Payable(V, t)
<1>1. /\ Payable(U, t) = Sum(Payments, PaidIn(U, t)) /\ IsFiniteSet(PaidIn(U, t))
      /\ Payable(V, t) = Sum(Payments, PaidIn(V, t)) /\ IsFiniteSet(PaidIn(V, t))
  BY PayableIsSum
<1>2. IsFiniteSet(U \cup V) /\ U \cup V \in SUBSET (EpochIds \X Leaves)
  BY FS_Union
<1>3. Payable(U \cup V, t) = Sum(Payments, PaidIn(U \cup V, t))
  BY <1>2, PayableIsSum
<1>4. /\ PaidIn(U, t) \cap PaidIn(V, t) = {}
      /\ PaidIn(U \cup V, t) = PaidIn(U, t) \cup PaidIn(V, t)
      /\ PaidIn(U, t) \cup PaidIn(V, t) \in SUBSET (EpochIds \X Leaves)
  BY DEF PaidIn
<1>5. IntOn(Payments, PaidIn(U, t) \cup PaidIn(V, t))
  BY <1>4, AmountsType
<1>6. Sum(Payments, PaidIn(U, t) \cup PaidIn(V, t))
        = Sum(Payments, PaidIn(U, t)) + Sum(Payments, PaidIn(V, t))
  BY <1>1, <1>4, <1>5, SumUnion
<1> QED BY <1>1, <1>3, <1>4, <1>6

\* What is payable on one fill.
LEMMA PayableOne ==
  ASSUME NEW c \in EpochIds \X Leaves, NEW t
  PROVE  Payable({c}, t) = IF OutputToken(c[2].order) = t THEN c[2].amount_out ELSE 0
<1>1. IsFiniteSet({c}) /\ IsFiniteSet({}) /\ {c} \in SUBSET (EpochIds \X Leaves)
  BY FS_EmptySet, FS_Singleton
<1>2. Payable({c}, t) = Sum(Payments, PaidIn({c}, t))
  BY <1>1, PayableIsSum
<1>3. CASE OutputToken(c[2].order) # t
  <2>1. PaidIn({c}, t) = {}
    BY <1>3 DEF PaidIn
  <2> QED BY <1>2, <1>3, <2>1, SumEmpty
<1>4. CASE OutputToken(c[2].order) = t
  <2>1. PaidIn({c}, t) = {} \cup {c}
    BY <1>4 DEF PaidIn
  <2>2. IntOn(Payments, {} \cup {c})
    BY <1>1, AmountsType
  <2>3. Sum(Payments, {} \cup {c}) = Sum(Payments, {}) + Payments[c]
    BY <1>1, <2>2, SumAdd
  <2>4. Sum(Payments, {}) = 0
    BY SumEmpty
  <2>5. Payments[c] = c[2].amount_out /\ Payments[c] \in Int
    BY <2>2 DEF Payments, IntOn
  <2>6. Payable({c}, t) = Sum(Payments, {} \cup {c})
    BY <1>2, <2>1
  <2> QED BY <1>4, <2>3, <2>4, <2>5, <2>6
<1> QED BY <1>3, <1>4

\* Every fill is charged to one of the three slots.
LEMMA FillsPartition ==
  ASSUME NEW p, p.active_pools \in ActivePools, CircuitFills(p)
  PROVE  /\ p.filled = FillsOf(p, 1) \cup FillsOf(p, 2) \cup FillsOf(p, 3)
         /\ FillsOf(p, 1) \cap FillsOf(p, 2) = {}
         /\ (FillsOf(p, 1) \cup FillsOf(p, 2)) \cap FillsOf(p, 3) = {}
<1>1. \A o \in p.filled : PoolSlot(p, o) # 0
  BY DEF CircuitFills, MustFill
<1>2. \A o \in p.filled : PoolSlot(p, o) \in 1..3
  BY <1>1, SlotIsActive
<1>3. \A o \in p.filled : PoolSlot(p, o) = 1 \/ PoolSlot(p, o) = 2 \/ PoolSlot(p, o) = 3
  BY <1>2
<1> QED BY <1>3 DEF FillsOf

\* The slots' escrows add up to that of all the fills.
LEMMA ClearingEscrow ==
  ASSUME NEW p, p.active_pools \in ActivePools, CircuitFills(p),
         p.filled \in SUBSET Orders, IsFiniteSet(p.filled), NEW t
  PROVE  EscrowIn(p, 1, t) + EscrowIn(p, 2, t) + EscrowIn(p, 3, t) = Escrow(p.filled, t)
<1> DEFINE F(k) == FillsOf(p, k)
<1>1. \A k : F(k) \in SUBSET Orders /\ IsFiniteSet(F(k))
  BY FS_Subset DEF FillsOf
<1>2. /\ p.filled = F(1) \cup F(2) \cup F(3)
      /\ F(1) \cap F(2) = {} /\ (F(1) \cup F(2)) \cap F(3) = {}
  BY FillsPartition
<1>3. \A k : EscrowIn(p, k, t) = Escrow(F(k), t)
  BY DEF EscrowIn
<1> HIDE DEF F
<1>4. F(1) \cup F(2) \in SUBSET Orders /\ IsFiniteSet(F(1) \cup F(2))
  BY <1>1, FS_Union
<1>5. Escrow(F(1) \cup F(2), t) = Escrow(F(1), t) + Escrow(F(2), t)
  BY <1>1, <1>2, EscrowUnion
<1>6. Escrow(F(1) \cup F(2) \cup F(3), t) = Escrow(F(1) \cup F(2), t) + Escrow(F(3), t)
  BY <1>1, <1>2, <1>4, EscrowUnion
<1> QED BY <1>2, <1>3, <1>5, <1>6

\* The fills of S that pay token t.
Paying(S, t) == { o \in S : OutputToken(o) = t }

\* The slots' payouts add up to those of all the fills.
LEMMA ClearingPayout ==
  ASSUME NEW p, p.active_pools \in ActivePools, CircuitFills(p), IsFiniteSet(p.filled),
         NEW amount_out, IntOn(amount_out, p.filled), NEW t
  PROVE  PayOut(p, amount_out, 1, t) + PayOut(p, amount_out, 2, t)
           + PayOut(p, amount_out, 3, t) = Sum(amount_out, Paying(p.filled, t))
<1> DEFINE F(k) == Paying(FillsOf(p, k), t)
<1>1. \A k : F(k) \in SUBSET p.filled
  BY DEF FillsOf, Paying
<1>2. \A k : IsFiniteSet(F(k))
  BY <1>1, FS_Subset
<1>3. /\ Paying(p.filled, t) = F(1) \cup F(2) \cup F(3)
      /\ F(1) \cap F(2) = {} /\ (F(1) \cup F(2)) \cap F(3) = {}
  BY FillsPartition DEF Paying
<1>4. \A k : PayOut(p, amount_out, k, t) = Sum(amount_out, F(k))
  BY DEF PayOut, Sum, Paying
<1> HIDE DEF F
<1>5. IsFiniteSet(F(1) \cup F(2))
  BY <1>2, FS_Union
<1>6. IntOn(amount_out, F(1) \cup F(2)) /\ IntOn(amount_out, F(1) \cup F(2) \cup F(3))
  BY <1>1 DEF IntOn
<1>7. Sum(amount_out, F(1) \cup F(2)) = Sum(amount_out, F(1)) + Sum(amount_out, F(2))
  BY <1>2, <1>3, <1>6, SumUnion
<1>8. Sum(amount_out, F(1) \cup F(2) \cup F(3))
        = Sum(amount_out, F(1) \cup F(2)) + Sum(amount_out, F(3))
  BY <1>2, <1>3, <1>5, <1>6, SumUnion
<1> QED BY <1>3, <1>4, <1>7, <1>8

\* What a clearing makes payable is what it pays out.
LEMMA ClearingPayable ==
  ASSUME NEW p, p.active_pools \in ActivePools, p.filled \in SUBSET Orders,
         IsFiniteSet(p.filled), NEW amount_out \in [p.filled -> Payouts],
         NEW now \in EpochIds, NEW t
  PROVE  /\ IsFiniteSet({now} \X FillLeaves(p, amount_out))
         /\ Payable({now} \X FillLeaves(p, amount_out), t)
              = Sum(amount_out, Paying(p.filled, t))
<1> DEFINE L == FillLeaves(p, amount_out)
           h == [o \in p.filled |->
                   <<now, [order |-> o, amount_out |-> amount_out[o],
                           pool_id |-> PoolSlot(p, o)]>>]
           S == Paying(p.filled, t)
<1>1. L \subseteq Leaves /\ {now} \X L \in SUBSET (EpochIds \X Leaves)
  BY FillLeavesType
<1>2. {now} \X L = { h[o] : o \in p.filled }
  <2> DEFINE leaf(o) == [order |-> o, amount_out |-> amount_out[o], pool_id |-> PoolSlot(p, o)]
  <2>1. L = { leaf(o) : o \in p.filled } /\ \A o \in p.filled : h[o] = <<now, leaf(o)>>
    BY DEF FillLeaves
  <2> HIDE DEF L, h, leaf
  <2>2. \A x \in {now} \X L : \E o \in p.filled : x = h[o]
    BY <2>1
  <2>3. \A o \in p.filled : h[o] \in {now} \X L
    BY <2>1
  <2> QED BY <2>2, <2>3
<1>3. \A o \in p.filled : h[o][2].order = o /\ h[o][2].amount_out = amount_out[o]
  OBVIOUS
<1>4. S \subseteq p.filled /\ IsFiniteSet(S)
  BY FS_Subset DEF Paying
<1>5. IsFiniteSet({now} \X L)
  <2>1. h \in Surjection(p.filled, {now} \X L)
    <3>1. h \in [p.filled -> { h[o] : o \in p.filled }]
      OBVIOUS
    <3> HIDE DEF h, L
    <3> QED BY <1>2, <3>1 DEF Surjection
  <2> HIDE DEF h, L
  <2> QED BY <2>1, FS_Surjection
<1>6. IntOn(amount_out, S)
  <2>1. Payouts \subseteq Int
    BY ProofAssumption, NumberAssumption DEF U128
  <2>2. \A o \in S : amount_out[o] \in Payouts
    BY <1>4
  <2> QED BY <2>1, <2>2 DEF IntOn
<1> HIDE DEF h, L
<1>7. PaidIn({now} \X L, t) = { h[o] : o \in S }
  BY <1>2, <1>3 DEF PaidIn, Paying
<1>8. \A o \in S : Payments[h[o]] = amount_out[o]
  <2>1. \A o \in S : h[o] \in EpochIds \X Leaves
    BY <1>1, <1>2, <1>4
  <2> QED BY <1>3, <1>4, <2>1 DEF Payments
<1>9. \A x, y \in S : h[x] = h[y] => x = y
  BY <1>3, <1>4
<1> HIDE DEF S
<1>10. Sum(Payments, { h[o] : o \in S }) = Sum(amount_out, S)
  BY <1>4, <1>6, <1>8, <1>9, SumRename
<1>11. Payable({now} \X L, t) = Sum(Payments, PaidIn({now} \X L, t))
  BY <1>1, <1>5, PayableIsSum
<1> QED BY <1>5, <1>7, <1>10, <1>11 DEF L, S

\* The books: the sets the total is taken over are finite, only fills of
\* settled epochs have been claimed, and the total is the makers' claims.
BooksInv ==
  /\ IsFiniteSet(notes)
  /\ IsFiniteSet(Unclaimed)
  /\ \A c \in claimed : c[1] \in cleared
  /\ OwedIsClaims

\* The orders whose escrow is still due, and those refunded though filled.
Outstanding == notes \ (cancelled \cup Filled)

FilledAndRefunded == cancelled \cap Filled

\* What the sets of the books are made of.
LEMMA BooksType ==
  ASSUME TypeOK, SettledInv, BooksInv
  PROVE  /\ Outstanding \in SUBSET Orders /\ IsFiniteSet(Outstanding)
         /\ FilledAndRefunded \in SUBSET Orders /\ IsFiniteSet(FilledAndRefunded)
         /\ Unclaimed \in SUBSET (EpochIds \X Leaves)
         /\ Filled \subseteq notes
<1>1. Filled \subseteq notes
  BY DEF Filled, SettledInv
<1>2. Outstanding \subseteq notes /\ FilledAndRefunded \subseteq notes /\ notes \subseteq Orders
  BY <1>1 DEF Outstanding, FilledAndRefunded, TypeOK
<1>3. IsFiniteSet(Outstanding) /\ IsFiniteSet(FilledAndRefunded)
  BY <1>2, FS_Subset DEF BooksInv
<1>4. Unclaimed \subseteq EpochIds \X Leaves
  BY DEF Unclaimed, TypeOK
<1> QED BY <1>1, <1>2, <1>3, <1>4

\* The total in the books' terms.
LEMMA OwedIs ==
  OwedIsClaims <=> \A t \in Tokens :
    owed[t] = Escrow(Outstanding, t) + Payable(Unclaimed, t) - Escrow(FilledAndRefunded, t)
BY DEF OwedIsClaims, Payable, PaidIn, Outstanding, FilledAndRefunded

\* A submission adds the escrow it brings in.
LEMMA SubmitBooks ==
  ASSUME TypeOK, SettledInv, BooksInv, NEW batch \in Batches, NEW anchor,
         SubmitOrders(batch, anchor)
  PROVE  BooksInv'
<1> DEFINE new == Range(batch)
<1>1. new \in SUBSET Orders /\ IsFiniteSet(new)
  <2>1. batch \in Seq(Orders) /\ new \subseteq Orders
    BY BatchFacts
  <2>2. batch \in Surjection(1..Len(batch), new)
    BY <2>1 DEF Surjection, Range
  <2>3. IsFiniteSet(1..Len(batch))
    BY <2>1, FS_Interval
  <2> QED BY <2>1, <2>2, <2>3, FS_Surjection
<1>2. /\ notes' = notes \cup new /\ new \cap notes = {}
      /\ UNCHANGED <<cancelled, cleared, fills_root, claimed>>
      /\ owed' = [t \in Tokens |-> owed[t] + Escrow(new, t)]
  BY DEF SubmitOrders
<1> HIDE DEF new
<1>3. Filled' = Filled /\ Unclaimed' = Unclaimed
  BY <1>2 DEF Filled, Unclaimed
<1>4. /\ Outstanding' = Outstanding \cup new /\ Outstanding \cap new = {}
      /\ FilledAndRefunded' = FilledAndRefunded
  BY <1>2, <1>3, BooksType DEF Outstanding, FilledAndRefunded, TypeOK
<1>5. ASSUME NEW t \in Tokens
      PROVE  owed'[t] = Escrow(Outstanding', t) + Payable(Unclaimed', t)
                          - Escrow(FilledAndRefunded', t)
  <2>1. Escrow(Outstanding \cup new, t) = Escrow(Outstanding, t) + Escrow(new, t)
    BY <1>1, <1>4, BooksType, EscrowUnion
  <2>2. /\ Escrow(Outstanding, t) \in Int /\ Escrow(new, t) \in Int
        /\ Escrow(FilledAndRefunded, t) \in Int /\ Payable(Unclaimed, t) \in Int
    BY <1>1, BooksType, EscrowType, PayableIsSum DEF BooksInv
  <2>3. owed[t] = Escrow(Outstanding, t) + Payable(Unclaimed, t) - Escrow(FilledAndRefunded, t)
    BY OwedIs DEF BooksInv
  <2>4. owed'[t] = owed[t] + Escrow(new, t)
    BY <1>2
  <2> QED BY <1>3, <1>4, <2>1, <2>2, <2>3, <2>4
<1>6. OwedIsClaims'
  BY <1>5 DEF OwedIsClaims, Payable, PaidIn, Outstanding, FilledAndRefunded
<1>7. IsFiniteSet(notes')
  BY <1>1, <1>2, FS_Union DEF BooksInv
<1> QED BY <1>2, <1>3, <1>6, <1>7 DEF BooksInv

\* A refund takes the order's escrow from what is outstanding or, when a
\* clearing had filled the order, adds it to what was both filled and refunded.
LEMMA CancelBooks ==
  ASSUME TypeOK, SettledInv, BooksInv, NEW o \in Orders, CancelOrder(o)
  PROVE  BooksInv'
<1>1. /\ o \in notes /\ o \notin cancelled /\ cancelled' = cancelled \cup {o}
      /\ UNCHANGED <<notes, cleared, fills_root, claimed>>
      /\ owed' = [owed EXCEPT ![InputToken(o)] = @ - Note[o].amount_in]
  BY DEF CancelOrder
<1>2. Filled' = Filled /\ Unclaimed' = Unclaimed
  BY <1>1 DEF Filled, Unclaimed
<1>3. IsFiniteSet({o}) /\ {o} \in SUBSET Orders
  BY FS_Singleton
<1>4. Note[o].amount_in \in Int
  BY NoteAssumption, NumberAssumption DEF OrderNotes, U128
<1>5. ASSUME NEW t \in Tokens
      PROVE  owed'[t] = Escrow(Outstanding', t) + Payable(Unclaimed', t)
                          - Escrow(FilledAndRefunded', t)
  <2>1. owed[t] = Escrow(Outstanding, t) + Payable(Unclaimed, t) - Escrow(FilledAndRefunded, t)
    BY OwedIs DEF BooksInv
  <2>2. owed'[t] = owed[t] - Escrow({o}, t)
    <3>1. Escrow({o}, t) = IF InputToken(o) = t THEN Note[o].amount_in ELSE 0
      BY EscrowOne
    <3>2. owed \in [Tokens -> Int]
      BY DEF TypeOK
    <3> QED BY <1>1, <1>4, <3>1, <3>2
  <2>3. /\ Escrow(Outstanding, t) \in Int /\ Escrow({o}, t) \in Int
        /\ Escrow(FilledAndRefunded, t) \in Int /\ Payable(Unclaimed, t) \in Int
    BY <1>3, BooksType, EscrowType, PayableIsSum DEF BooksInv
  <2>4. CASE o \in Filled
    <3>1. /\ Outstanding' = Outstanding
          /\ FilledAndRefunded' = FilledAndRefunded \cup {o} /\ FilledAndRefunded \cap {o} = {}
      BY <1>1, <1>2, <2>4 DEF Outstanding, FilledAndRefunded
    <3>2. Escrow(FilledAndRefunded \cup {o}, t) = Escrow(FilledAndRefunded, t) + Escrow({o}, t)
      BY <1>3, <3>1, BooksType, EscrowUnion
    <3> QED BY <1>2, <2>1, <2>2, <2>3, <3>1, <3>2
  <2>5. CASE o \notin Filled
    <3> DEFINE rest == Outstanding \ {o}
    <3>1. /\ Outstanding' = rest /\ Outstanding = rest \cup {o} /\ rest \cap {o} = {}
          /\ FilledAndRefunded' = FilledAndRefunded
      BY <1>1, <1>2, <2>5 DEF Outstanding, FilledAndRefunded
    <3>2. rest \in SUBSET Orders /\ IsFiniteSet(rest)
      BY BooksType, FS_RemoveElement
    <3> HIDE DEF rest
    <3>3. Escrow(rest \cup {o}, t) = Escrow(rest, t) + Escrow({o}, t)
      BY <1>3, <3>1, <3>2, EscrowUnion
    <3>4. Escrow(rest, t) \in Int
      BY <3>2, EscrowType
    <3> QED BY <1>2, <2>1, <2>2, <2>3, <3>1, <3>3, <3>4
  <2> QED BY <2>4, <2>5
<1>6. OwedIsClaims'
  BY <1>5 DEF OwedIsClaims, Payable, PaidIn, Outstanding, FilledAndRefunded
<1> QED BY <1>1, <1>2, <1>6 DEF BooksInv

\* A claim takes its leaf, and nothing else, off what is payable.
LEMMA ClaimBooks ==
  ASSUME TypeOK, SettledInv, BooksInv, NEW e \in EpochIds, NEW leaf \in fills_root[e],
         NEW n \in Orders, ClaimFill(e, leaf, n)
  PROVE  BooksInv'
<1> DEFINE c == <<e, leaf>>
           rest == Unclaimed \ {c}
<1>1. /\ e \in cleared /\ c \notin claimed /\ claimed' = claimed \cup {c}
      /\ UNCHANGED <<notes, cancelled, cleared, fills_root>>
      /\ owed' = [owed EXCEPT ![OutputToken(leaf.order)] = @ - leaf.amount_out]
  BY DEF ClaimFill, Nullified
<1>2. Filled' = Filled /\ Outstanding' = Outstanding /\ FilledAndRefunded' = FilledAndRefunded
  BY <1>1 DEF Filled, Outstanding, FilledAndRefunded
<1>3. c \in EpochIds \X Leaves /\ leaf.amount_out \in Int
        /\ c[1] = e /\ c[2] = leaf
  BY NumberAssumption DEF TypeOK, Leaves, U128
<1> HIDE DEF c
<1>4. c \in Unclaimed
  <2>1. leaf \in UNION { fills_root[d] : d \in cleared }
    BY <1>1
  <2>2. c \in cleared \X UNION { fills_root[d] : d \in cleared }
    BY <1>1, <2>1 DEF c
  <2> QED BY <1>1, <1>3, <2>2 DEF Unclaimed
<1>5. Unclaimed' = rest /\ Unclaimed = rest \cup {c} /\ rest \cap {c} = {}
  BY <1>1, <1>4 DEF Unclaimed
<1>6. /\ rest \in SUBSET (EpochIds \X Leaves) /\ IsFiniteSet(rest)
      /\ {c} \in SUBSET (EpochIds \X Leaves) /\ IsFiniteSet({c})
  BY <1>3, BooksType, FS_RemoveElement, FS_Singleton DEF BooksInv
<1> HIDE DEF rest
<1>7. ASSUME NEW t \in Tokens
      PROVE  owed'[t] = Escrow(Outstanding', t) + Payable(Unclaimed', t)
                          - Escrow(FilledAndRefunded', t)
  <2>1. owed[t] = Escrow(Outstanding, t) + Payable(Unclaimed, t) - Escrow(FilledAndRefunded, t)
    BY OwedIs DEF BooksInv
  <2>2. Payable({c}, t) = IF OutputToken(leaf.order) = t THEN leaf.amount_out ELSE 0
    BY <1>3, PayableOne
  <2>3. owed'[t] = owed[t] - Payable({c}, t) /\ Payable({c}, t) \in Int
    BY <1>1, <1>3, <2>2 DEF TypeOK
  <2>4. Payable(rest \cup {c}, t) = Payable(rest, t) + Payable({c}, t)
    BY <1>5, <1>6, PayableUnion
  <2>5. Payable(rest, t) \in Int
    BY <1>6, PayableIsSum
  <2>6. Escrow(Outstanding, t) \in Int /\ Escrow(FilledAndRefunded, t) \in Int
    BY BooksType, EscrowType
  <2> QED BY <1>2, <1>5, <2>1, <2>3, <2>4, <2>5, <2>6
<1>8. OwedIsClaims'
  BY <1>7 DEF OwedIsClaims, Payable, PaidIn, Outstanding, FilledAndRefunded
<1>9. \A d \in claimed' : d[1] \in cleared'
  BY <1>1, <1>3 DEF BooksInv
<1> QED BY <1>1, <1>5, <1>6, <1>8, <1>9 DEF BooksInv

\* What a clearing does to the fills: it fills its orders for the first time, and
\* their leaves, none of them claimed, are added to the claims.
LEMMA ClearingFills ==
  ASSUME TypeOK, ChainInv, SettledInv, BooksInv, NEW p, NEW amount_out,
         ClearsWith(p, amount_out), UNCHANGED <<notes, cancelled, claimed>>
  PROVE  LET now == epoch.epoch_id
             L == FillLeaves(p, amount_out)
             F == p.filled IN
         /\ now \in EpochIds
         /\ F \subseteq notes /\ F \cap Filled = {}
         /\ { l.order : l \in L } = F
         /\ Filled' = Filled \cup F
         /\ Unclaimed' = Unclaimed \cup ({now} \X L) /\ Unclaimed \cap ({now} \X L) = {}
<1> DEFINE now == epoch.epoch_id
           L == FillLeaves(p, amount_out)
           F == p.filled
           made == {now} \X L
<1>1. /\ fills_root' = [fills_root EXCEPT ![now] = L]
      /\ cleared' = cleared \cup {now}
      /\ now \in EpochIds /\ now \notin cleared
  <2>1. now \notin cleared /\ now \in EpochIds
    BY DEF SettledInv, TypeOK, EpochStates, EpochIds
  <2> QED BY <2>1 DEF ClearsWith, ApplyVerifiedClearing
<1>2. /\ p.active_pools \in ActivePools /\ CircuitFills(p)
      /\ amount_out \in [F -> Payouts]
      /\ F \subseteq Range(epoch.order_acc)
  BY DEF ClearsWith, OrdersAreFresh
<1>3. F \subseteq notes /\ F \cap Filled = {}
  BY <1>2 DEF ChainInv, SettledInv, Filled
<1>4. { l.order : l \in L } = F
  <2>1. \A o \in F : [order |-> o, amount_out |-> amount_out[o], pool_id |-> PoolSlot(p, o)] \in L
    BY DEF FillLeaves
  <2>2. \A l \in L : l.order \in F
    BY DEF FillLeaves
  <2> HIDE DEF L, F
  <2>3. \A o \in F : \E l \in L : l.order = o
    BY <2>1
  <2> QED BY <2>2, <2>3
<1> HIDE DEF L, F, now
<1>5. Filled' = Filled \cup F
  <2>0. fills_root \in [EpochIds -> SUBSET Leaves] /\ fills_root[now] = {}
    BY <1>1 DEF TypeOK, SettledInv
  <2>1. \A e \in EpochIds : fills_root'[e] = IF e = now THEN L ELSE fills_root[e]
    BY <1>1, <2>0
  <2>2. \A o : o \in Filled <=> \E e \in EpochIds : \E l \in fills_root[e] : l.order = o
    BY DEF Filled
  <2>3. \A o : o \in Filled' <=> \E e \in EpochIds : \E l \in fills_root'[e] : l.order = o
    BY DEF Filled
  <2>4. \A o : o \in F <=> \E l \in L : l.order = o
    BY <1>4
  <2>5. \A o : o \in Filled' <=> o \in Filled \/ o \in F
    BY <1>1, <2>0, <2>1, <2>2, <2>3, <2>4
  <2> QED BY <2>5
<1>6. Unclaimed' = Unclaimed \cup made /\ Unclaimed \cap made = {}
  <2>0. fills_root \in [EpochIds -> SUBSET Leaves] /\ cleared \subseteq EpochIds
    BY DEF TypeOK
  <2>1. \A e \in cleared : e # now /\ fills_root'[e] = fills_root[e]
    BY <1>1, <2>0
  <2>2. fills_root'[now] = L
    BY <1>1, <2>0
  <2>3. \A c \in claimed : c[1] \in cleared
    BY DEF BooksInv
  <2>4. \A x : x \in Unclaimed <=> \E e \in cleared : \E l \in fills_root[e] :
                                     x = <<e, l>> /\ x \notin claimed
    BY DEF Unclaimed
  <2>5. \A x : x \in Unclaimed' <=> \E e \in cleared' : \E l \in fills_root'[e] :
                                      x = <<e, l>> /\ x \notin claimed
    BY DEF Unclaimed
  <2>6. \A x : x \in made <=> \E l \in L : x = <<now, l>> /\ x \notin claimed
    BY <1>1, <2>3
  <2> HIDE DEF made
  <2>7. \A x : x \in Unclaimed' <=> x \in Unclaimed \/ x \in made
    BY <1>1, <2>1, <2>2, <2>4, <2>5, <2>6
  <2>8. \A x : ~(x \in Unclaimed /\ x \in made)
    BY <2>1, <2>4, <2>6
  <2> QED BY <2>7, <2>8
<1> QED BY <1>1, <1>3, <1>4, <1>5, <1>6 DEF L, F, now, made

\* A clearing settles the escrow of its fills and makes their payouts payable.
LEMMA ClearingBooks ==
  ASSUME TypeOK, ChainInv, SettledInv, BooksInv, NEW p, NEW amount_out,
         ClearsWith(p, amount_out), UNCHANGED <<notes, cancelled, claimed>>
  PROVE  BooksInv'
<1> DEFINE now == epoch.epoch_id
           L == FillLeaves(p, amount_out)
           F == p.filled
           made == {now} \X L
<1>1. /\ fills_root' = [fills_root EXCEPT ![now] = L]
      /\ cleared' = cleared \cup {now}
      /\ now \in EpochIds /\ now \notin cleared
  <2>1. now \notin cleared /\ now \in EpochIds
    BY DEF SettledInv, TypeOK, EpochStates, EpochIds
  <2> QED BY <2>1 DEF ClearsWith, ApplyVerifiedClearing
<1>2. /\ p.active_pools \in ActivePools /\ CircuitFills(p)
      /\ amount_out \in [F -> Payouts]
      /\ F \subseteq Range(epoch.order_acc)
  BY DEF ClearsWith, OrdersAreFresh
<1>3. F \subseteq notes /\ F \cap Filled = {}
  BY ClearingFills
<1>4. F \in SUBSET Orders /\ IsFiniteSet(F)
  BY <1>3, FS_Subset DEF TypeOK, BooksInv
<1>6. IsFiniteSet(made) /\ \A t : Payable(made, t) = Sum(amount_out, Paying(F, t))
  BY <1>1, <1>2, <1>4, ClearingPayable
<1>7. IntOn(amount_out, F)
  <2>1. Payouts \subseteq Int
    BY ProofAssumption, NumberAssumption DEF U128
  <2> QED BY <1>2, <2>1 DEF IntOn
<1>8. L \subseteq Leaves
  BY <1>2, <1>4, FillLeavesType
<1>9. \A t \in Tokens :
        owed'[t] = owed[t] - (EscrowIn(p, 1, t) + EscrowIn(p, 2, t) + EscrowIn(p, 3, t))
                   + (PayOut(p, amount_out, 1, t) + PayOut(p, amount_out, 2, t)
                      + PayOut(p, amount_out, 3, t))
  BY DEF ClearsWith, ApplyVerifiedClearing
<1>10. Filled' = Filled \cup F
  BY ClearingFills
<1>11. Unclaimed' = Unclaimed \cup made /\ Unclaimed \cap made = {}
  BY ClearingFills
<1> HIDE DEF L, F, now
<1>12. made \in SUBSET (EpochIds \X Leaves)
  BY <1>1, <1>8
<1> HIDE DEF made
<1> DEFINE kept == F \cap cancelled
           settledNow == F \ cancelled
<1>13. /\ Outstanding = Outstanding' \cup settledNow /\ Outstanding' \cap settledNow = {}
       /\ FilledAndRefunded' = FilledAndRefunded \cup kept /\ FilledAndRefunded \cap kept = {}
       /\ F = settledNow \cup kept /\ settledNow \cap kept = {}
       /\ Outstanding' \subseteq Outstanding
  BY <1>3, <1>10 DEF Outstanding, FilledAndRefunded
<1>14. /\ kept \in SUBSET Orders /\ IsFiniteSet(kept)
       /\ settledNow \in SUBSET Orders /\ IsFiniteSet(settledNow)
       /\ Outstanding' \in SUBSET Orders /\ IsFiniteSet(Outstanding')
  BY <1>4, <1>13, BooksType, FS_Subset
<1> HIDE DEF kept, settledNow
<1>15. ASSUME NEW t \in Tokens
       PROVE  owed'[t] = Escrow(Outstanding', t) + Payable(Unclaimed', t)
                           - Escrow(FilledAndRefunded', t)
  <2>1. owed[t] = Escrow(Outstanding, t) + Payable(Unclaimed, t) - Escrow(FilledAndRefunded, t)
    BY OwedIs DEF BooksInv
  <2>2. owed'[t] = owed[t] - Escrow(F, t) + Payable(made, t)
    <3>1. EscrowIn(p, 1, t) + EscrowIn(p, 2, t) + EscrowIn(p, 3, t) = Escrow(F, t)
      BY <1>2, <1>4, ClearingEscrow DEF F
    <3>2. PayOut(p, amount_out, 1, t) + PayOut(p, amount_out, 2, t)
            + PayOut(p, amount_out, 3, t) = Payable(made, t)
      BY <1>2, <1>4, <1>6, <1>7, ClearingPayout DEF F
    <3> QED BY <1>9, <3>1, <3>2
  <2>3. Escrow(Outstanding, t) = Escrow(Outstanding', t) + Escrow(settledNow, t)
    BY <1>13, <1>14, EscrowUnion
  <2>4. Escrow(FilledAndRefunded', t) = Escrow(FilledAndRefunded, t) + Escrow(kept, t)
    BY <1>13, <1>14, BooksType, EscrowUnion
  <2>5. Escrow(F, t) = Escrow(settledNow, t) + Escrow(kept, t)
    BY <1>13, <1>14, EscrowUnion
  <2>6. Payable(Unclaimed', t) = Payable(Unclaimed, t) + Payable(made, t)
    BY <1>6, <1>11, <1>12, BooksType, PayableUnion DEF BooksInv
  <2>7. /\ Escrow(Outstanding', t) \in Int /\ Escrow(FilledAndRefunded, t) \in Int
        /\ Escrow(settledNow, t) \in Int /\ Escrow(kept, t) \in Int
        /\ Payable(Unclaimed, t) \in Int /\ Payable(made, t) \in Int
    BY <1>6, <1>12, <1>14, BooksType, EscrowType, PayableIsSum DEF BooksInv
  <2> QED BY <2>1, <2>2, <2>3, <2>4, <2>5, <2>6, <2>7
<1>16. OwedIsClaims'
  BY <1>15 DEF OwedIsClaims, Payable, PaidIn, Outstanding, FilledAndRefunded
<1>17. IsFiniteSet(Unclaimed')
  BY <1>6, <1>11, FS_Union DEF BooksInv
<1> QED BY <1>1, <1>16, <1>17 DEF BooksInv

\* Steps that move no order, fill or balance.
LEMMA QuietBooks ==
  ASSUME BooksInv, UNCHANGED <<notes, cancelled, cleared, fills_root, claimed, owed>>
  PROVE  BooksInv'
<1>1. Filled' = Filled /\ Unclaimed' = Unclaimed
  BY DEF Filled, Unclaimed
<1>2. Outstanding' = Outstanding /\ FilledAndRefunded' = FilledAndRefunded
  BY <1>1 DEF Outstanding, FilledAndRefunded
<1>3. \A t \in Tokens :
        owed'[t] = Escrow(Outstanding', t) + Payable(Unclaimed', t)
                     - Escrow(FilledAndRefunded', t)
  BY <1>1, <1>2, OwedIs DEF BooksInv
<1>4. OwedIsClaims'
  BY <1>3 DEF OwedIsClaims, Payable, PaidIn, Outstanding, FilledAndRefunded
<1> QED BY <1>1, <1>4 DEF BooksInv

\* Every step keeps the books.
LEMMA BooksInductive ==
  TypeOK /\ ChainInv /\ SettledInv /\ BooksInv /\ [Next]_vars => BooksInv'
<1> SUFFICES ASSUME TypeOK, ChainInv, SettledInv, BooksInv, [Next]_vars PROVE BooksInv'
  OBVIOUS
<1>1. ASSUME NEW batch \in Batches, NEW anchor \in AnchorBlocks,
             SubmitOrders(batch, anchor)
      PROVE  BooksInv'
  BY <1>1, SubmitBooks
<1>2. ASSUME NEW o \in Orders, CancelOrder(o)
      PROVE  BooksInv'
  BY <1>2, CancelBooks
<1>3. ASSUME NEW e \in EpochIds, NEW leaf \in fills_root[e], NEW n \in Orders,
             ClaimFill(e, leaf, n)
      PROVE  BooksInv'
  BY <1>3, ClaimBooks
<1>4. ASSUME NEW caller \in Callers, CloseEpochAndClearVerified(caller)
      PROVE  BooksInv'
  <2>1. PICK p, amount_out : ClearsWith(p, amount_out)
    BY <1>4, ClearingWitness
  <2>2. UNCHANGED <<notes, cancelled, claimed>>
    BY <1>4 DEF CloseEpochAndClearVerified
  <2> QED BY <2>1, <2>2, ClearingBooks
<1>5. CASE UNCHANGED <<notes, cancelled, cleared, fills_root, claimed, owed>>
  BY <1>5, QuietBooks
<1> QED BY <1>1, <1>2, <1>3, <1>4, <1>5
        DEF Next, CloseEpoch, SetTreasury, AddPool, Bond, Unbond, NextBlock, vars, contract

\* The books are right in every reachable state.
LEMMA BooksCorrect == Spec => []BooksInv
<1>1. Init => BooksInv
  <2> SUFFICES ASSUME Init PROVE BooksInv
    OBVIOUS
  <2>1. notes = {} /\ cancelled = {} /\ cleared = {} /\ claimed = {} /\ fills_root = [e \in EpochIds |-> {}]
    BY DEF Init
  <2>2. Filled = {} /\ Unclaimed = {} /\ Outstanding = {} /\ FilledAndRefunded = {}
    BY <2>1 DEF Filled, Unclaimed, Outstanding, FilledAndRefunded
  <2>3. ASSUME NEW t \in Tokens
        PROVE  Escrow({}, t) = 0 /\ Payable({}, t) = 0
    <3>1. Bringing({}, t) = {} /\ PaidIn({}, t) = {}
      BY DEF Bringing, PaidIn
    <3>2. Escrow({}, t) = Sum(Amounts, {})
      BY <3>1 DEF Escrow, Sum, Amounts, Bringing
    <3>3. Payable({}, t) = Sum([c \in {} |-> c[2].amount_out], {})
      BY <3>1 DEF Payable, Sum
    <3> QED BY <3>2, <3>3, SumEmpty
  <2>4. OwedIsClaims
    BY <2>2, <2>3, OwedIs DEF Init
  <2> QED BY <2>1, <2>2, <2>4, FS_EmptySet DEF BooksInv
<1> QED BY <1>1, BooksInductive, TypeCorrect, ChainsCorrect, SettledCorrect, PTL DEF Spec

\* The running total the balance covers is what the makers can claim: the
\* escrow of the orders neither cancelled nor filled, plus the fills not yet
\* redeemed, less what was refunded on orders a clearing filled as well.
THEOREM OwedIsClaimsCorrect == Spec => []OwedIsClaims
<1>1. BooksInv => OwedIsClaims
  BY DEF BooksInv
<1> QED BY <1>1, BooksCorrect, PTL

\* All the contract can ever be short of is the escrow refunded on orders that a
\* clearing filled as well: with it, the balance covers every open order's escrow
\* and every unclaimed fill, as long as no maker reuses a nonce.
THEOREM ShortfallIsDoubleRefunds ==
  ASSUME UniqueNonces
  PROVE  Spec => [](\A t \in Tokens :
           custody[t] + Escrow(FilledAndRefunded, t)
             >= Escrow(Outstanding, t) + Payable(Unclaimed, t))
<1> DEFINE Covered == \A t \in Tokens :
             custody[t] + Escrow(FilledAndRefunded, t)
               >= Escrow(Outstanding, t) + Payable(Unclaimed, t)
<1>1. TypeOK /\ SettledInv /\ BooksInv /\ Solvency => Covered
  <2> SUFFICES ASSUME TypeOK, SettledInv, BooksInv, Solvency, NEW t \in Tokens
               PROVE  custody[t] + Escrow(FilledAndRefunded, t)
                        >= Escrow(Outstanding, t) + Payable(Unclaimed, t)
    OBVIOUS
  <2>1. owed[t] = Escrow(Outstanding, t) + Payable(Unclaimed, t) - Escrow(FilledAndRefunded, t)
    BY OwedIs DEF BooksInv
  <2>2. /\ Escrow(Outstanding, t) \in Int /\ Escrow(FilledAndRefunded, t) \in Int
        /\ Payable(Unclaimed, t) \in Int
    BY BooksType, EscrowType, PayableIsSum DEF BooksInv
  <2>3. custody[t] \in Int /\ custody[t] >= owed[t]
    BY NumberAssumption DEF TypeOK, Solvency, U128
  <2> QED BY <2>1, <2>2, <2>3
<1>2. Spec => []Solvency
  BY SolvencyCorrect
<1> HIDE DEF Covered
<1>3. Spec => []Covered
  BY <1>1, <1>2, BooksCorrect, TypeCorrect, SettledCorrect, PTL
<1> QED BY <1>3 DEF Covered

-----------------------------------------------------------------------------
(* Fair treatment.                                                         *)

\* An order of the same market with at least as good a limit is eligible
\* wherever the other one is.
LEMMA EligibleTogether ==
  ASSUME NEW o \in Orders, NEW n \in Orders, NEW p, n \in MustFill(p), o \in Live(p),
         SameMarket(o, n), AtLeastAsGood(o, n), p.active_pools \in ActivePools
  PROVE  o \in MustFill(p)
<1>1. Note[o].path = Note[n].path /\ Note[o].side = Note[n].side
  BY DEF SameMarket
<1>2. PoolSlot(p, o) = PoolSlot(p, n)
  BY <1>1 DEF PoolSlot
<1> DEFINE slot == PoolSlot(p, n)
           price == p.active_pools[slot].clearing_price
<1>3. Len(Note[n].path) = 2 /\ slot # 0 /\ EligibleAt(n, price)
  BY DEF MustFill
<1>4. price \in Int
  <2>1. PICK m \in 0..MAX_ACTIVE_POOLS_PER_EPOCH : p.active_pools \in [1..m -> PoolSlots]
    BY DEF ActivePools
  <2>2. slot \in DOMAIN p.active_pools
    BY <1>3, SlotIsActive
  <2>3. p.active_pools[slot] \in PoolSlots
    BY <2>1, <2>2
  <2>4. price \in Prices
    BY <2>3 DEF PoolSlots
  <2>5. Prices \subseteq Int
    BY ProofAssumption, NumberAssumption DEF U128
  <2> QED BY <2>4, <2>5
<1>5. Note[o].limit_price \in Int /\ Note[n].limit_price \in Int
  BY NoteAssumption, NumberAssumption DEF OrderNotes, U128
<1> HIDE DEF slot, price
<1>6. EligibleAt(o, price)
  BY <1>1, <1>3, <1>4, <1>5 DEF EligibleAt, AtLeastAsGood
<1> QED BY <1>1, <1>2, <1>3, <1>6 DEF MustFill, slot, price

\* No clearing passes over a live order of the market whose limit is at least
\* as good as that of an order it fills.
THEOREM NoOrderPassedOverCorrect == Spec => NoOrderPassedOver
<1>1. TypeOK /\ ChainInv /\ SettledInv /\ [Next]_vars => [NobodyPassedOver]_vars
  <2> SUFFICES ASSUME TypeOK, ChainInv, SettledInv, [Next]_vars,
                      NEW e \in cleared' \ cleared, NEW l \in fills_root'[e],
                      NEW o \in Range(epoch.order_acc) \ Range(epoch.cancel_acc),
                      SameMarket(o, l.order), AtLeastAsGood(o, l.order)
               PROVE  \E m \in fills_root'[e] : m.order = o
    BY DEF NobodyPassedOver
  <2>1. PICK p, amount_out : ClearsWith(p, amount_out)
    BY RootSteps
  <2>2. e = epoch.epoch_id /\ e \in EpochIds
    BY <2>1 DEF ClearsWith, ApplyVerifiedClearing, TypeOK, EpochStates
  <2>3. fills_root'[e] = FillLeaves(p, amount_out)
    BY <2>1, <2>2, NewLeaves DEF TypeOK
  <2>4. l.order \in p.filled /\ p.filled \subseteq MustFill(p) /\ MustFill(p) \subseteq p.filled
    BY <2>1, <2>3 DEF FillLeaves, ClearsWith, CircuitFills, CircuitCompleteness
  <2>5. o \in Live(p) /\ o \in Orders /\ l.order \in Orders
    <3>1. Range(epoch.order_acc) \subseteq Orders
      BY DEF TypeOK, EpochStates, Range
    <3>2. p.order_acc = epoch.order_acc /\ p.cancel_acc = epoch.cancel_acc
      BY <2>1 DEF ClearsWith, OrdersAreFresh, CancelsAreFresh
    <3> QED BY <2>4, <3>1, <3>2 DEF Live, MustFill
  <2>6. o \in p.filled
    BY <2>1, <2>4, <2>5, EligibleTogether DEF ClearsWith
  <2> DEFINE leaf == [order |-> o, amount_out |-> amount_out[o], pool_id |-> PoolSlot(p, o)]
  <2>7. leaf \in FillLeaves(p, amount_out) /\ leaf.order = o
    BY <2>6 DEF FillLeaves
  <2> QED BY <2>3, <2>7
<1> QED BY <1>1, TypeCorrect, ChainsCorrect, SettledCorrect, PTL DEF Spec, NoOrderPassedOver

-----------------------------------------------------------------------------
(* The contract implements MakersLedger.                                   *)

\* The ledger sums as the books do.
LEMMA SumsAgree == \A f, S : Ledger!SumFunctionOnSet(f, S) = SumFunctionOnSet(f, S)
<1>1. \A f, S : Ledger!SumFunctionOnSet(f, S) = (CHOOSE it : IsIter(it, f, S))[S]
  BY DEF Ledger!SumFunctionOnSet, Ledger!FoldFunctionOnSet, Ledger!MapThenFoldSet, IsIter
<1> QED BY <1>1, SumIsIter DEF Sum

\* The ledger's costs and claims are the books' escrow and payables.
LEMMA LedgerSums ==
  /\ \A S \in SUBSET Orders : \A t : Ledger!CostOf(S, t) = Escrow(S, t)
  /\ Unclaimed \subseteq EpochIds \X Leaves
       => \A t : Ledger!DueIn(t) = Payable(Unclaimed, t)
<1>1. ASSUME NEW S \in SUBSET Orders, NEW t
      PROVE  Ledger!CostOf(S, t) = Escrow(S, t)
  <2>1. { o \in S : [n \in Orders |-> InputToken(n)][o] = t } = { o \in S : InputToken(o) = t }
    OBVIOUS
  <2> QED BY <2>1, SumsAgree DEF Ledger!CostOf, Escrow
<1>2. ASSUME Unclaimed \subseteq EpochIds \X Leaves, NEW t
      PROVE  Ledger!DueIn(t) = Payable(Unclaimed, t)
  <2>1. \A c \in Unclaimed : c[2].order \in Orders
    BY <1>2 DEF Leaves
  <2>2. { c \in Unclaimed : [n \in Orders |-> OutputToken(n)][c[2].order] = t }
          = PaidIn(Unclaimed, t)
    BY <2>1 DEF PaidIn
  <2> QED BY <2>2, SumsAgree DEF Ledger!DueIn, Payable
<1> QED BY <1>1, <1>2

\* The ledger's margin is the balance less the running total of Solvency.
MarginIsSurplus == \A t \in Tokens : Ledger!Margin(t) = custody[t] - owed[t]

\* The books say what the margin is.
LEMMA MarginIs == TypeOK /\ SettledInv /\ BooksInv => MarginIsSurplus
<1> SUFFICES ASSUME TypeOK, SettledInv, BooksInv, NEW t \in Tokens
             PROVE  Ledger!Margin(t) = custody[t] - owed[t]
  BY DEF MarginIsSurplus
<1>1. owed[t] = Escrow(Outstanding, t) + Payable(Unclaimed, t) - Escrow(FilledAndRefunded, t)
  BY OwedIs DEF BooksInv
<1>2. /\ Ledger!CostOf(Outstanding, t) = Escrow(Outstanding, t)
      /\ Ledger!CostOf(FilledAndRefunded, t) = Escrow(FilledAndRefunded, t)
      /\ Ledger!DueIn(t) = Payable(Unclaimed, t)
  BY BooksType, LedgerSums
<1>3. Ledger!Margin(t) = custody[t] + Ledger!CostOf(FilledAndRefunded, t)
                           - Ledger!CostOf(Outstanding, t) - Ledger!DueIn(t)
  BY DEF Ledger!Margin, FilledAndRefunded, Outstanding
<1>4. /\ Escrow(Outstanding, t) \in Int /\ Escrow(FilledAndRefunded, t) \in Int
      /\ Payable(Unclaimed, t) \in Int
  BY BooksType, EscrowType, PayableIsSum DEF BooksInv
<1>5. custody[t] \in Int
  BY NumberAssumption DEF TypeOK, U128
<1> QED BY <1>1, <1>2, <1>3, <1>4, <1>5

\* The same of the state a step leads to.
LEMMA NextMargin == (TypeOK /\ SettledInv /\ BooksInv)' => MarginIsSurplus'
BY MarginIs, PTL

\* The contract is deployed with an empty ledger.
LEMMA LedgerInit == Init => Ledger!Init
<1> SUFFICES ASSUME Init PROVE Ledger!Init
  OBVIOUS
<1>1. Filled = {} /\ Unclaimed = {}
  BY DEF Init, Filled, Unclaimed
<1>2. Range(epoch.order_acc) \ Range(epoch.cancel_acc) = {}
  BY EmptyChain DEF Init
<1>3. /\ epoch.epoch_id = 0 /\ notes = {} /\ cancelled = {}
      /\ custody = [t \in Tokens |-> 0]
  BY DEF Init
<1> QED BY <1>1, <1>2, <1>3 DEF Ledger!Init

\* A submission places its orders.
LEMMA SubmitPlaces ==
  ASSUME TypeOK, ChainInv, NEW batch \in Batches, NEW anchor, SubmitOrders(batch, anchor)
  PROVE  Range(batch) \in SUBSET Orders /\ Ledger!Place(Range(batch))
<1> DEFINE new == Range(batch)
<1>1. batch \in Seq(Orders) /\ new \in SUBSET Orders
  BY BatchFacts
<1>2. new # {}
  <2>1. PICK n \in 1..MAX_ORDERS_PER_BULK : batch \in Injection(1..n, Orders)
    BY DEF Batches
  <2>2. DOMAIN batch = 1..n /\ 1 \in 1..n
    BY <2>1, NumberAssumption DEF Injection
  <2> QED BY <2>2 DEF Range
<1>3. /\ new \cap notes = {} /\ notes' = notes \cup new
      /\ epoch' = [epoch EXCEPT !.order_acc = @ \o batch, !.order_count = @ + Len(batch)]
      /\ custody' = [t \in Tokens |-> custody[t] + Escrow(new, t)]
      /\ UNCHANGED <<cancelled, cleared, fills_root, claimed>>
  BY DEF SubmitOrders
<1>4. /\ epoch'.epoch_id = epoch.epoch_id /\ epoch'.cancel_acc = epoch.cancel_acc
      /\ epoch'.order_acc = epoch.order_acc \o batch
      /\ epoch.order_acc \in Seq(Orders)
  BY <1>3 DEF TypeOK, EpochStates
<1>5. Range(epoch'.order_acc) = Range(epoch.order_acc) \cup new
  BY <1>1, <1>4, RangeOfConcat
<1>6. Filled' = Filled /\ Unclaimed' = Unclaimed
  BY <1>3 DEF Filled, Unclaimed
<1>7. Range(epoch.cancel_acc) \cap new = {}
  BY <1>3 DEF ChainInv, CancelsReplay
<1>8. \A t \in Tokens : Ledger!CostOf(new, t) = Escrow(new, t)
  BY <1>1, LedgerSums
<1> HIDE DEF new
<1>9. custody' = [t \in Tokens |-> custody[t] + Ledger!CostOf(new, t)]
  BY <1>3, <1>8
<1>10. Range(epoch'.order_acc) \ Range(epoch'.cancel_acc)
         = (Range(epoch.order_acc) \ Range(epoch.cancel_acc)) \cup new
  BY <1>4, <1>5, <1>7
<1>11. Ledger!Place(new)
  BY <1>2, <1>3, <1>4, <1>6, <1>9, <1>10 DEF Ledger!Place
<1> QED BY <1>1, <1>11 DEF new

\* A cancellation refunds its order, which leaves the round when it is folded.
LEMMA CancelRefunds ==
  ASSUME TypeOK, ChainInv, NEW o \in Orders, CancelOrder(o)
  PROVE  Ledger!Refund(o)
<1> DEFINE open == Range(epoch.order_acc) \ Range(epoch.cancel_acc)
<1>1. /\ o \in notes \ cancelled /\ cancelled' = cancelled \cup {o}
      /\ epoch' = EpochWithCancel(o)
      /\ custody[InputToken(o)] >= Note[o].amount_in
      /\ custody' = [custody EXCEPT ![InputToken(o)] = @ - Note[o].amount_in]
      /\ UNCHANGED <<notes, cleared, fills_root, claimed>>
  BY DEF CancelOrder
<1>2. Filled' = Filled /\ Unclaimed' = Unclaimed
  BY <1>1 DEF Filled, Unclaimed
<1>3. epoch'.epoch_id = epoch.epoch_id /\ epoch'.order_acc = epoch.order_acc
  BY <1>1 DEF EpochWithCancel, TypeOK, EpochStates
<1>4. \/ epoch'.cancel_acc = epoch.cancel_acc
      \/ epoch'.cancel_acc = Append(epoch.cancel_acc, o)
  BY <1>1 DEF EpochWithCancel, TypeOK, EpochStates
<1>5. epoch.cancel_acc \in Seq(Orders)
  BY DEF TypeOK, EpochStates
<1>6. open' \in {open, open \ {o}}
  BY <1>3, <1>4, <1>5, AppendFacts
<1>7. /\ [n \in Orders |-> InputToken(n)][o] = InputToken(o)
      /\ [n \in Orders |-> Note[n].amount_in][o] = Note[o].amount_in
  OBVIOUS
<1> QED BY <1>1, <1>2, <1>3, <1>6, <1>7 DEF Ledger!Refund, Ledger!Pay

\* A claim redeems its leaf, in the token of the leaf's own order.
LEMMA ClaimRedeems ==
  ASSUME UniqueNonces, TypeOK, NEW e \in EpochIds, NEW leaf \in fills_root[e],
         NEW n \in Orders, ClaimFill(e, leaf, n)
  PROVE  <<e, leaf>> \in Unclaimed /\ Ledger!Redeem(<<e, leaf>>)
<1> DEFINE c == <<e, leaf>>
<1>1. leaf.order \in Orders
  BY DEF TypeOK, Leaves
<1>2. n = leaf.order
  BY <1>1 DEF ClaimFill, NoteMatchesLeaf, UniqueNonces
<1>3. /\ e \in cleared /\ c \notin claimed /\ claimed' = claimed \cup {c}
      /\ custody[OutputToken(leaf.order)] >= leaf.amount_out
      /\ custody' = [custody EXCEPT ![OutputToken(leaf.order)] = @ - leaf.amount_out]
      /\ UNCHANGED <<notes, epoch, cancelled, cleared, fills_root>>
  BY <1>2 DEF ClaimFill, Nullified
<1>4. c[1] = e /\ c[2] = leaf
  OBVIOUS
<1>5. c \in Unclaimed
  <2>1. leaf \in UNION { fills_root[d] : d \in cleared }
    BY <1>3
  <2> QED BY <1>3, <2>1 DEF Unclaimed
<1> HIDE DEF c
<1>6. Unclaimed' = Unclaimed \ {c}
  BY <1>3 DEF Unclaimed
<1>7. Filled' = Filled
  BY <1>3 DEF Filled
<1>8. [o \in Orders |-> OutputToken(o)][c[2].order] = OutputToken(leaf.order)
  BY <1>1, <1>4
<1>9. Ledger!Redeem(c)
  BY <1>3, <1>4, <1>5, <1>6, <1>7, <1>8 DEF Ledger!Redeem, Ledger!Pay
<1> QED BY <1>5, <1>9 DEF c

\* A new epoch ends the round if its new claims are of open orders, one each,
\* and the contract's surplus does not shrink.
LEMMA RoundEnds ==
  ASSUME TypeOK', epoch' = NextEpoch, UNCHANGED <<notes, cancelled>>,
         MarginIsSurplus, MarginIsSurplus',
         \A t \in Tokens : custody'[t] - owed'[t] >= custody[t] - owed[t],
         NEW made, Unclaimed' = Unclaimed \cup made, Unclaimed \cap made = {},
         Filled' = Filled \cup { c[2].order : c \in made },
         \A c \in made :
           /\ c[1] = epoch.epoch_id
           /\ c[2].order \in Range(epoch.order_acc) \ Range(epoch.cancel_acc)
           /\ c[2].order \notin Filled,
         \A c, d \in made : c[2].order = d[2].order => c = d
  PROVE  Ledger!EndRound
<1>1. Unclaimed' \ Unclaimed = made /\ Unclaimed \subseteq Unclaimed'
  OBVIOUS
<1>2. /\ epoch'.epoch_id = epoch.epoch_id + 1
      /\ Range(epoch'.order_acc) \ Range(epoch'.cancel_acc) = {}
  BY EmptyChain DEF NextEpoch
<1>3. custody' \in [Tokens -> Nat]
  BY NumberAssumption DEF TypeOK, U128
<1>4. \A t \in Tokens : Ledger!Margin(t)' >= Ledger!Margin(t)
  BY DEF MarginIsSurplus
<1> QED BY <1>1, <1>2, <1>3, <1>4 DEF Ledger!EndRound

\* Closing an epoch bare ends the round without a fill.
LEMMA CloseEnds ==
  ASSUME TypeOK', MarginIsSurplus, MarginIsSurplus', TypeOK, NEW caller, CloseEpoch(caller)
  PROVE  Ledger!EndRound
<1>1. /\ epoch' = NextEpoch
      /\ UNCHANGED <<notes, cancelled, cleared, fills_root, claimed, custody, owed>>
  BY DEF CloseEpoch
<1>2. Filled' = Filled /\ Unclaimed' = Unclaimed
  BY <1>1 DEF Filled, Unclaimed
<1>3. \A t \in Tokens : custody'[t] - owed'[t] >= custody[t] - owed[t]
  <2>1. \A t \in Tokens : custody[t] \in Int /\ owed[t] \in Int
    BY NumberAssumption DEF TypeOK, U128
  <2> QED BY <1>1, <2>1
<1> DEFINE made == {}
<1>4. /\ Unclaimed' = Unclaimed \cup made /\ Unclaimed \cap made = {}
      /\ Filled' = Filled \cup { c[2].order : c \in made }
  BY <1>2
<1> QED BY <1>1, <1>3, <1>4, RoundEnds

\* A clearing ends the round with its fills.
LEMMA ClearingEnds ==
  ASSUME TypeOK, ChainInv, SettledInv, RegistryInv, BooksInv, TypeOK',
         MarginIsSurplus, MarginIsSurplus',
         NEW p, NEW amount_out, ClearsWith(p, amount_out),
         UNCHANGED <<notes, cancelled, claimed>>
  PROVE  Ledger!EndRound
<1> DEFINE now == epoch.epoch_id
           L == FillLeaves(p, amount_out)
           F == p.filled
           made == {now} \X L
<1>1. /\ F \cap Filled = {} /\ { l.order : l \in L } = F /\ Filled' = Filled \cup F
      /\ Unclaimed' = Unclaimed \cup made /\ Unclaimed \cap made = {}
  BY ClearingFills
<1>2. /\ \A l \in L : l.order \in Range(epoch.order_acc) \ Range(epoch.cancel_acc)
      /\ \A l, m \in L : l.order = m.order => l = m
  BY NewLeaves
<1>3. epoch' = NextEpoch
  BY DEF ClearsWith, ApplyVerifiedClearing
<1>4. \A t \in Tokens : custody'[t] - owed'[t] >= custody[t] - owed[t]
  BY ClearingMargin
<1> HIDE DEF L, F, now
<1>5. \A c \in made : c[1] = now /\ c[2] \in L /\ c = <<now, c[2]>>
  OBVIOUS
<1>6. \A l \in L : <<now, l>> \in made
  OBVIOUS
<1> HIDE DEF made
<1>7. { c[2].order : c \in made } = F
  <2>1. \A c \in made : c[2].order \in F
    BY <1>1, <1>5
  <2>2. \A l \in L : \E c \in made : c[2] = l
    BY <1>6
  <2>3. \A o \in F : \E c \in made : c[2].order = o
    BY <1>1, <2>2
  <2> QED BY <2>1, <2>3
<1>8. \A c \in made :
        /\ c[1] = now
        /\ c[2].order \in Range(epoch.order_acc) \ Range(epoch.cancel_acc)
        /\ c[2].order \notin Filled
  <2>1. \A c \in made : c[2].order \in F
    BY <1>7
  <2> QED BY <1>1, <1>2, <1>5, <2>1
<1>9. \A c, d \in made : c[2].order = d[2].order => c = d
  BY <1>2, <1>5
<1> QED BY <1>1, <1>3, <1>4, <1>7, <1>8, <1>9, RoundEnds DEF now

\* Every step of the contract is one of its ledger, or one it does not see.
LEMMA LedgerStep ==
  ASSUME UniqueNonces
  PROVE  /\ TypeOK /\ ChainInv /\ SettledInv /\ RegistryInv /\ BooksInv
         /\ TypeOK' /\ SettledInv' /\ BooksInv' /\ [Next]_vars
         => [Ledger!Next]_(Ledger!ledgerVars)
<1> SUFFICES ASSUME TypeOK, ChainInv, SettledInv, RegistryInv, BooksInv,
                    TypeOK', SettledInv', BooksInv', [Next]_vars
             PROVE  Ledger!Next \/ UNCHANGED Ledger!ledgerVars
  OBVIOUS
<1>0. MarginIsSurplus /\ MarginIsSurplus'
  BY MarginIs, NextMargin
<1>1. ASSUME NEW batch \in Batches, NEW anchor \in AnchorBlocks,
             SubmitOrders(batch, anchor)
      PROVE  Ledger!Next
  BY <1>1, SubmitPlaces DEF Ledger!Next
<1>2. ASSUME NEW o \in Orders, CancelOrder(o)
      PROVE  Ledger!Next
  BY <1>2, CancelRefunds DEF Ledger!Next
<1>3. ASSUME NEW e \in EpochIds, NEW leaf \in fills_root[e], NEW n \in Orders,
             ClaimFill(e, leaf, n)
      PROVE  Ledger!Next
  BY <1>3, ClaimRedeems DEF Ledger!Next
<1>4. ASSUME NEW caller \in Callers, CloseEpoch(caller)
      PROVE  Ledger!Next
  BY <1>0, <1>4, CloseEnds DEF Ledger!Next
<1>5. ASSUME NEW caller \in Callers, CloseEpochAndClearVerified(caller)
      PROVE  Ledger!Next
  <2>1. PICK p, amount_out : ClearsWith(p, amount_out)
    BY <1>5, ClearingWitness
  <2>2. UNCHANGED <<notes, cancelled, claimed>>
    BY <1>5 DEF CloseEpochAndClearVerified
  <2> QED BY <1>0, <2>1, <2>2, ClearingEnds DEF Ledger!Next
<1>6. CASE UNCHANGED <<epoch, notes, cancelled, cleared, fills_root, claimed, custody>>
  <2>1. Filled' = Filled /\ Unclaimed' = Unclaimed
    BY <1>6 DEF Filled, Unclaimed
  <2> QED BY <1>6, <2>1 DEF Ledger!ledgerVars
<1>7. CASE SetTreasury \/ (\E pair \in Pairs : AddPool(pair)) \/ NextBlock
           \/ UNCHANGED vars \/ (\E caller \in Callers : Bond(caller) \/ Unbond(caller))
  BY <1>6, <1>7 DEF SetTreasury, AddPool, Bond, Unbond, NextBlock, vars, contract
<1> QED BY <1>1, <1>2, <1>3, <1>4, <1>5, <1>7 DEF Next

\* The contract keeps its promise to the makers, as long as none of them reuses
\* a nonce: each of its steps places, refunds, redeems or ends a round of the
\* ledger, or is not seen there.
THEOREM OrderbookKeepsLedger ==
  ASSUME UniqueNonces
  PROVE  Spec => ImplementsLedger
<1>1. /\ TypeOK /\ ChainInv /\ SettledInv /\ RegistryInv /\ BooksInv
      /\ TypeOK' /\ SettledInv' /\ BooksInv' /\ [Next]_vars
      => [Ledger!Next]_(Ledger!ledgerVars)
  BY LedgerStep
<1> QED BY <1>1, LedgerInit, TypeCorrect, ChainsCorrect, SettledCorrect, RegistryCorrect,
           BooksCorrect, PTL DEF Spec, ImplementsLedger, Ledger!LedgerSpec

\* No step takes from the surplus: what the contract holds of each token beyond
\* its debts never shrinks, as long as no maker reuses a nonce.  Submissions,
\* refunds and claims leave it as it is (a second payment of a filled order is
\* charged to the makers as a whole), and a clearing may only add to it.
THEOREM MarginNeverShrinks ==
  ASSUME UniqueNonces
  PROVE  Spec => [][\A t \in Tokens : Ledger!Margin(t)' >= Ledger!Margin(t)]_vars
<1> DEFINE Kept == \A t \in Tokens : Ledger!Margin(t)' >= Ledger!Margin(t)
<1>1. ASSUME TypeOK, SettledInv, RegistryInv, BooksInv, TypeOK', SettledInv', BooksInv',
             [Next]_vars
      PROVE  [Kept]_vars
  <2>0. MarginIsSurplus /\ MarginIsSurplus'
    BY <1>1, MarginIs, NextMargin
  <2>1. SUFFICES ASSUME NEW t \in Tokens
                 PROVE  custody'[t] - owed'[t] >= custody[t] - owed[t]
    BY <2>0 DEF MarginIsSurplus
  <2>2. custody[t] \in Int /\ owed[t] \in Int
    BY <1>1, NumberAssumption DEF TypeOK, U128
  <2>3. custody \in [Tokens -> U128] /\ owed \in [Tokens -> Int]
    BY <1>1 DEF TypeOK
  <2>4. ASSUME NEW batch \in Batches, NEW anchor \in AnchorBlocks,
               SubmitOrders(batch, anchor)
        PROVE  custody'[t] - owed'[t] >= custody[t] - owed[t]
    <3>1. Escrow(Range(batch), t) \in Int
      BY <2>4, NumberAssumption DEF SubmitOrders, U128
    <3>2. /\ custody'[t] = custody[t] + Escrow(Range(batch), t)
          /\ owed'[t] = owed[t] + Escrow(Range(batch), t)
      BY <2>4 DEF SubmitOrders
    <3> QED BY <2>2, <3>1, <3>2
  <2>5. ASSUME NEW o \in Orders, CancelOrder(o)
        PROVE  custody'[t] - owed'[t] >= custody[t] - owed[t]
    <3>1. Note[o].amount_in \in Int
      BY NoteAssumption, NumberAssumption DEF OrderNotes, U128
    <3>2. /\ custody' = [custody EXCEPT ![InputToken(o)] = @ - Note[o].amount_in]
          /\ owed' = [owed EXCEPT ![InputToken(o)] = @ - Note[o].amount_in]
      BY <2>5 DEF CancelOrder
    <3> QED BY <2>2, <2>3, <3>1, <3>2
  <2>6. ASSUME NEW e \in EpochIds, NEW leaf \in fills_root[e], NEW n \in Orders,
               ClaimFill(e, leaf, n)
        PROVE  custody'[t] - owed'[t] >= custody[t] - owed[t]
    <3>1. leaf.order \in Orders /\ leaf.amount_out \in Int
      BY <1>1, NumberAssumption DEF TypeOK, Leaves, U128
    <3>2. n = leaf.order
      BY <2>6, <3>1 DEF ClaimFill, NoteMatchesLeaf, UniqueNonces
    <3>3. /\ custody' = [custody EXCEPT ![OutputToken(n)] = @ - leaf.amount_out]
          /\ owed' = [owed EXCEPT ![OutputToken(n)] = @ - leaf.amount_out]
      BY <2>6, <3>2 DEF ClaimFill
    <3> QED BY <2>2, <2>3, <3>1, <3>3
  <2>7. ASSUME NEW caller \in Callers, CloseEpochAndClearVerified(caller)
        PROVE  custody'[t] - owed'[t] >= custody[t] - owed[t]
    BY <1>1, <2>7, ClearingWitness, ClearingMargin
  <2>8. CASE UNCHANGED <<custody, owed>>
    BY <2>2, <2>8
  <2> QED BY <1>1, <2>4, <2>5, <2>6, <2>7, <2>8
          DEF Next, CloseEpoch, SetTreasury, AddPool, Bond, Unbond, NextBlock, vars, contract
<1>2. /\ TypeOK /\ SettledInv /\ RegistryInv /\ BooksInv
      /\ TypeOK' /\ SettledInv' /\ BooksInv' /\ [Next]_vars
      => [Kept]_vars
  BY <1>1
<1> QED BY <1>2, TypeCorrect, SettledCorrect, RegistryCorrect, BooksCorrect, PTL DEF Spec

=============================================================================
