------------------------------ MODULE Orderbook ------------------------------
(***************************************************************************)
(* The Orderbook contract (contracts/orderbook/src/main.nr): the custodian *)
(* of every maker's escrow.  Makers submit private orders into the current *)
(* epoch and may cancel them; when the epoch's window has passed a bonded  *)
(* aggregator settles it with one proof of the clearing circuit            *)
(* (circuits/clearing/src/main.nr), or the epoch is closed bare; makers    *)
(* then redeem their fills from the stored root.                           *)
(*                                                                         *)
(* Every private call and the public calls it enqueues are one transaction *)
(* and one action here: any failed assertion reverts the whole of it.      *)
(* Hash chains and Merkle roots are collision free and are modelled by     *)
(* what they commit to: order_acc and cancel_acc by the sequence folded    *)
(* into them, fills_root by the set of its leaves.                         *)
(***************************************************************************)
EXTENDS Integers, Sequences, FiniteSetsExt

CONSTANTS
  Makers,         \* accounts that submit orders
  Orders,         \* the order notes the makers may create
  Note,           \* Note[o]: the fields of order note o (struct OrderNote)
  Tokens,         \* token addresses, compared as numbers
  InitialPools,   \* the constructor's pool registry: a sequence of token pairs
  Callers,        \* accounts that may bond and may close an epoch
  Prices,         \* clearing prices a proof may carry
  Swaps,          \* pool flows (ClearingSwap) a proof may carry
  Payouts,        \* amount_out values a fill may carry
  EPOCH_LENGTH, CLEAR_GRACE_BLOCKS,
  MAX_ORDERS_PER_EPOCH, MAX_ORDERS_PER_BULK,
  MAX_ACTIVE_POOLS_PER_EPOCH, MAX_NUM_POOLS,
  MAX_U128,       \* amounts and balances are checked u128
  MaxBlock,       \* bound: the last block of the chain (u32 in the code)
  MaxEpochId,     \* bound: the last epoch id (u32 in the code)
  MaxAnchorAge    \* how old the anchor block of a transaction may be

U128 == 0..MAX_U128
Blocks == 0..MaxBlock
EpochIds == 0..MaxEpochId
Pairs == Tokens \X Tokens

OrderNotes == [owner: Makers, side: {"bid", "ask"}, amount_in: U128,
               limit_price: U128, nonce: Nat, path: Seq(Tokens)]

ClearingSwaps == [a_to_pool: U128, b_to_pool: U128,
                  a_from_pool: U128, b_from_pool: U128]

Leaves == [order: Orders, amount_out: U128, pool_id: Nat]

ASSUME NoteAssumption ==
  /\ Note \in [Orders -> OrderNotes]
  /\ \A o \in Orders : Len(Note[o].path) \in {2, 3}

ASSUME TokenAssumption == Tokens \subseteq Nat

ASSUME PoolAssumption ==
  /\ InitialPools \in Seq(Pairs)
  /\ Len(InitialPools) \in 1..MAX_NUM_POOLS
  /\ \A i \in DOMAIN InitialPools : InitialPools[i][1] < InitialPools[i][2]

ASSUME ProofAssumption ==
  /\ Prices \subseteq U128
  /\ Swaps \subseteq ClearingSwaps
  /\ Payouts \subseteq U128

ASSUME NumberAssumption ==
  /\ EPOCH_LENGTH \in Nat \ {0} /\ CLEAR_GRACE_BLOCKS \in Nat
  /\ MAX_ORDERS_PER_EPOCH \in Nat /\ MAX_ORDERS_PER_BULK \in Nat
  /\ MAX_ACTIVE_POOLS_PER_EPOCH \in 0..3 /\ MAX_NUM_POOLS \in Nat
  /\ MAX_U128 \in Nat /\ MaxBlock \in Nat \ {0}
  /\ MaxEpochId \in Nat /\ MaxAnchorAge \in Nat

VARIABLES
  block,              \* the block being built
  epoch,              \* storage.current_epoch (EpochState; it is always OPEN)
  pools,              \* storage.pools/pool_token_a/pool_token_b/pool_count
  treasury_set,       \* storage.treasury is not the zero address
  bonded,             \* callers with a bond in the AggregatorRegistry
  notes,              \* order notes inserted in storage.orders (never popped)
  submitted_at_block, \* the anchor block written into each note
  cancelled,          \* notes whose cancel nullifier was pushed
  cleared,            \* epochs with a non-zero storage.fills_root
  fills_root,         \* the leaves under each epoch's root
  claimed,            \* settlement nullifiers <<epoch_id, leaf>>
  custody,            \* the contract's public balance of each token
  owed,               \* ghost: what the contract owes its makers (OwedIsClaims)
  settled             \* ghost: the order chain each cleared epoch settled

contract == <<epoch, pools, treasury_set, notes, submitted_at_block, cancelled,
              cleared, fills_root, claimed, custody, owed, settled>>
vars == <<block, bonded, contract>>

-----------------------------------------------------------------------------
(* Orders.                                                                 *)

InputToken(o) ==
  IF Note[o].side = "bid" THEN Note[o].path[1] ELSE Note[o].path[Len(Note[o].path)]

\* What a one-hop fill pays in: claim_fill derives it from the note.
OutputToken(o) ==
  IF Note[o].side = "bid" THEN Note[o].path[2] ELSE Note[o].path[Len(Note[o].path) - 1]

Canonical(pair) == IF pair[1] < pair[2] THEN pair ELSE <<pair[2], pair[1]>>

PathIsValid(path) ==
  /\ \A i, j \in DOMAIN path : i # j => path[i] # path[j]
  /\ path[1] < path[Len(path)]

OrderIsValid(o) ==
  /\ Note[o].amount_in > 0
  /\ Note[o].limit_price > 0
  /\ PathIsValid(Note[o].path)

\* The orders of one transaction: one maker, no note inserted twice.
Batches ==
  { b \in UNION { Injection(1..n, Orders) : n \in 1..MAX_ORDERS_PER_BULK } :
      \A i \in DOMAIN b : Note[b[i]].owner = Note[b[1]].owner }

\* claim_fill finds the maker's note by (owner, nonce): a maker who reuses a
\* nonce may be shown either of the two notes.
UniqueNonces ==
  \A o, n \in Orders :
    Note[o].owner = Note[n].owner /\ Note[o].nonce = Note[n].nonce => o = n

Escrow(S, t) ==
  SumFunctionOnSet([o \in Orders |-> Note[o].amount_in],
                   { o \in S : InputToken(o) = t })

-----------------------------------------------------------------------------
(* Guards of the contract.                                                 *)

\* Mutant: the gate added for H13 is missing, every cancel folds.
FoldEveryCancel(submitted_at, opened_at) == TRUE

should_fold_cancel(submitted_at, opened_at) == submitted_at >= opened_at

\* Mutant: the grace window is forgotten.
BondNeededBeforeExpiry(order_count, now, closes_at, grace) ==
  order_count # 0 /\ now < closes_at

bare_close_needs_bond(order_count, now, closes_at, grace) ==
  order_count # 0 /\ now < closes_at + grace

EpochIsOpen == block < epoch.closes_at_block

EpochHasExpired == block >= epoch.closes_at_block

\* Mutant: the capacity is compared before the order is counted.
EpochHasRoomForOneMore(n) == epoch.order_count + n <= MAX_ORDERS_PER_EPOCH + 1

EpochHasRoom(n) == epoch.order_count + n <= MAX_ORDERS_PER_EPOCH

PathPoolsRegistered(path) ==
  \A i \in 1..(Len(path) - 1) :
    Canonical(<<path[i], path[i + 1]>>) \in Range(pools)

\* The block the contract is deployed in (it opens epoch 0 there).
DeployBlock == 1

\* A transaction is proved against an already mined block that has the contract.
AnchorBlocks ==
  { b \in Blocks : DeployBlock <= b /\ b < block /\ b >= block - MaxAnchorAge }

Filled == { l.order : l \in UNION { fills_root[e] : e \in EpochIds } }

NextEpoch ==
  [epoch_id |-> epoch.epoch_id + 1, opened_at_block |-> block,
   closes_at_block |-> block + EPOCH_LENGTH,
   order_acc |-> <<>>, cancel_acc |-> <<>>, order_count |-> 0, cancel_count |-> 0]

-----------------------------------------------------------------------------
(* The clearing proof.  p and amount_out stand for the circuit's public    *)
(* inputs and the part of the witness they commit to:                      *)
(*   p.order_acc, p.cancel_acc  the chains replayed (with their counts)    *)
(*   p.active_pools             the active slots: registry pool_id, priced *)
(*                              pair, clearing price and swap              *)
(*   p.filled, amount_out       the fills under fills_root                 *)

\* The last active slot holding the order's (canonical) pair, 0 if none.
PoolSlot(p, o) ==
  LET path == Note[o].path
      holding == { k \in DOMAIN p.active_pools : p.active_pools[k].pair = <<path[1], path[2]>> }
  IN  IF holding = {} THEN 0 ELSE Max(holding)

EligibleAt(o, price) ==
  IF Note[o].side = "bid" THEN Note[o].limit_price >= price
                          ELSE Note[o].limit_price <= price

Live(p) == Range(p.order_acc) \ Range(p.cancel_acc)

MustFill(p) ==
  { o \in Live(p) : /\ Len(Note[o].path) = 2
                    /\ PoolSlot(p, o) # 0
                    /\ EligibleAt(o, p.active_pools[PoolSlot(p, o)].clearing_price) }

FillsOf(p, k) == { o \in p.filled : PoolSlot(p, o) = k }

\* Swap amounts in token t of slot k, when the slot's pair is `pair`.
ToPool(p, k, pair, t) ==
  IF k \notin DOMAIN p.active_pools THEN 0
  ELSE (IF t = pair[1] THEN p.active_pools[k].swap.a_to_pool ELSE 0)
       + (IF t = pair[2] THEN p.active_pools[k].swap.b_to_pool ELSE 0)

FromPool(p, k, pair, t) ==
  IF k \notin DOMAIN p.active_pools THEN 0
  ELSE (IF t = pair[1] THEN p.active_pools[k].swap.a_from_pool ELSE 0)
       + (IF t = pair[2] THEN p.active_pools[k].swap.b_from_pool ELSE 0)

EscrowIn(p, k, t) == Escrow(FillsOf(p, k), t)

PayOut(p, amount_out, k, t) ==
  SumFunctionOnSet(amount_out, { o \in FillsOf(p, k) : OutputToken(o) = t })

PricedPair(p, k) ==
  IF k \in DOMAIN p.active_pools THEN p.active_pools[k].pair ELSE <<0, 0>>

\* Mutant: the tokens pushed into the pool are not charged.
SolventBeforePush(pay, to_pool, from_pool, escrow) == pay <= from_pool + escrow

token_solvent(pay, to_pool, from_pool, escrow) ==
  pay + to_pool <= from_pool + escrow

\* Block A: both chains replay, every cancelled index is a submitted order.
CircuitBinding(p) ==
  /\ Range(p.cancel_acc) \subseteq Range(p.order_acc)
  /\ Len(p.cancel_acc) <= Len(p.order_acc)

\* Blocks B and C: a fill is of a live, eligible, one-hop order.
CircuitFills(p) == p.filled \subseteq MustFill(p)

\* Mutant: block B' is dropped, as it once was in the multi-pool rewrite.
AnyFills(p) == TRUE

\* Block B': every live eligible order of an active pool is filled.
CircuitCompleteness(p) == MustFill(p) \subseteq p.filled

\* Block C2 (c), in checked u128 arithmetic.
CircuitSolvency(p, amount_out) ==
  \A k \in 1..3, t \in Tokens :
    /\ EscrowIn(p, k, t) \in U128
    /\ PayOut(p, amount_out, k, t) \in U128
    /\ token_solvent(PayOut(p, amount_out, k, t), ToPool(p, k, PricedPair(p, k), t),
                     FromPool(p, k, PricedPair(p, k), t), EscrowIn(p, k, t))

FillLeaves(p, amount_out) ==
  { [order |-> o, amount_out |-> amount_out[o], pool_id |-> PoolSlot(p, o)] :
      o \in p.filled }

\* Mutants: only the counts of the chains are compared.
OrderCountIsFresh(order_acc) == Len(order_acc) = epoch.order_count

CancelCountIsFresh(cancel_acc) == Len(cancel_acc) = epoch.cancel_count

\* Freshness: the proof is bound to the chains of the epoch it settles.
OrdersAreFresh(order_acc) ==
  order_acc = epoch.order_acc /\ Len(order_acc) = epoch.order_count

CancelsAreFresh(cancel_acc) ==
  cancel_acc = epoch.cancel_acc /\ Len(cancel_acc) = epoch.cancel_count

\* Mutant: any registered pool is accepted for the priced pair.
AnyPool(slot) == TRUE

\* The registry pool a slot names trades the pair the circuit priced.
PairIsBound(slot) == Canonical(pools[slot.pool_id]) = slot.pair

RegistryPair(p, k) ==
  IF k \in DOMAIN p.active_pools THEN pools[p.active_pools[k].pool_id] ELSE <<0, 0>>

\* One iteration of the loop over active_pools: push *_to_pool, then
\* apply_clearing pulls *_from_pool.
Settle(balance, p, k) ==
  [t \in Tokens |-> balance[t] - ToPool(p, k, RegistryPair(p, k), t)
                               + FromPool(p, k, RegistryPair(p, k), t)]

SlotIsFunded(balance, p, k) ==
  \A t \in Tokens : /\ balance[t] >= ToPool(p, k, RegistryPair(p, k), t)
                    /\ Settle(balance, p, k)[t] \in U128

\* What a prover may prove: a proof can replay any chain of known orders.
Chains(S) == UNION { Injection(1..n, S) : n \in 0..MAX_ORDERS_PER_EPOCH }

PoolSlots ==
  { slot \in [pool_id: DOMAIN pools, pair: Range(pools),
              clearing_price: Prices, swap: Swaps] : PairIsBound(slot) }

ActivePools ==
  UNION { [1..n -> PoolSlots] : n \in 0..MAX_ACTIVE_POOLS_PER_EPOCH }

-----------------------------------------------------------------------------
(* Transactions of the makers.                                             *)

\* submit_order (a batch of one) and submit_order_bulk.
SubmitOrders(batch, anchor) ==
  LET new == Range(batch) IN
  /\ new \cap notes = {}
  /\ \A o \in new : OrderIsValid(o) /\ PathPoolsRegistered(Note[o].path)
  /\ EpochIsOpen
  /\ EpochHasRoom(Len(batch))
  /\ \A t \in Tokens : Escrow(new, t) \in U128 /\ custody[t] + Escrow(new, t) \in U128
  /\ notes' = notes \cup new
  /\ submitted_at_block' =
       [o \in Orders |-> IF o \in new THEN anchor ELSE submitted_at_block[o]]
  /\ epoch' = [epoch EXCEPT !.order_acc = @ \o batch, !.order_count = @ + Len(batch)]
  /\ custody' = [t \in Tokens |-> custody[t] + Escrow(new, t)]
  /\ owed' = [t \in Tokens |-> owed[t] + Escrow(new, t)]
  /\ UNCHANGED <<block, bonded, pools, treasury_set, cancelled, cleared,
                 fills_root, claimed, settled>>

\* _append_cancel
EpochWithCancel(o) ==
  IF should_fold_cancel(submitted_at_block[o], epoch.opened_at_block)
  THEN [epoch EXCEPT !.cancel_acc = Append(@, o), !.cancel_count = @ + 1]
  ELSE epoch

\* cancel_order: any note of the maker's with the nonce may be the one found.
CancelOrder(o) ==
  LET t == InputToken(o)
      amount == Note[o].amount_in IN
  /\ o \in notes
  /\ o \notin cancelled
  /\ EpochIsOpen
  /\ custody[t] >= amount
  /\ cancelled' = cancelled \cup {o}
  /\ epoch' = EpochWithCancel(o)
  /\ custody' = [custody EXCEPT ![t] = @ - amount]
  /\ owed' = [owed EXCEPT ![t] = @ - amount]
  /\ UNCHANGED <<block, bonded, pools, treasury_set, notes, submitted_at_block,
                 cleared, fills_root, claimed, settled>>

\* The note n the claimant's query returns, for a leaf bound to the claimant.
NoteMatchesLeaf(n, leaf) ==
  /\ Note[n].owner = Note[leaf.order].owner
  /\ Note[n].nonce = Note[leaf.order].nonce

\* Mutant: a claim does not look at earlier claims.
NeverNullified(e, leaf) == FALSE

Nullified(e, leaf) == <<e, leaf>> \in claimed

\* claim_fill: n is the note whose path decides the token paid.
ClaimFill(e, leaf, n) ==
  LET t == OutputToken(n) IN
  /\ e \in cleared
  /\ ~Nullified(e, leaf)
  /\ n \in notes
  /\ NoteMatchesLeaf(n, leaf)
  /\ custody[t] >= leaf.amount_out
  /\ claimed' = claimed \cup {<<e, leaf>>}
  /\ custody' = [custody EXCEPT ![t] = @ - leaf.amount_out]
  /\ owed' = [owed EXCEPT ![OutputToken(leaf.order)] = @ - leaf.amount_out]
  /\ UNCHANGED <<block, bonded, epoch, pools, treasury_set, notes,
                 submitted_at_block, cancelled, cleared, fills_root, settled>>

-----------------------------------------------------------------------------
(* Epoch transitions.                                                      *)

CloseEpoch(caller) ==
  /\ EpochHasExpired
  /\ bare_close_needs_bond(epoch.order_count, block, epoch.closes_at_block,
                           CLEAR_GRACE_BLOCKS) => caller \in bonded
  /\ NextEpoch.epoch_id \in EpochIds
  /\ epoch' = NextEpoch
  /\ UNCHANGED <<block, bonded, pools, treasury_set, notes, submitted_at_block,
                 cancelled, cleared, fills_root, claimed, custody, owed, settled>>

\* _apply_verified_clearing, for a proof that verified.
ApplyVerifiedClearing(p, amount_out) ==
  LET after1 == Settle(custody, p, 1)
      after2 == Settle(after1, p, 2)
      after3 == Settle(after2, p, 3) IN
  /\ SlotIsFunded(custody, p, 1)
  /\ SlotIsFunded(after1, p, 2)
  /\ SlotIsFunded(after2, p, 3)
  /\ custody' = after3
  /\ fills_root' = [fills_root EXCEPT ![epoch.epoch_id] = FillLeaves(p, amount_out)]
  /\ cleared' = cleared \cup {epoch.epoch_id}
  /\ settled' = [settled EXCEPT ![epoch.epoch_id] = p.order_acc]
  /\ epoch' = NextEpoch
  /\ owed' = [t \in Tokens |->
       owed[t] - (EscrowIn(p, 1, t) + EscrowIn(p, 2, t) + EscrowIn(p, 3, t))
       + (PayOut(p, amount_out, 1, t) + PayOut(p, amount_out, 2, t)
          + PayOut(p, amount_out, 3, t))]

\* close_epoch_and_clear_verified.  pay_aggregator is called on the treasury
\* address, so the call reverts while that address is zero.
CloseEpochAndClearVerified(caller) ==
  /\ caller \in bonded
  /\ EpochHasExpired
  /\ treasury_set
  /\ NextEpoch.epoch_id \in EpochIds
  /\ \E order_acc \in Chains(notes), cancel_acc \in Chains(notes) :
       /\ OrdersAreFresh(order_acc)
       /\ CancelsAreFresh(cancel_acc)
       /\ \E active_pools \in ActivePools, filled \in SUBSET Range(order_acc) :
            LET p == [order_acc |-> order_acc, cancel_acc |-> cancel_acc,
                      active_pools |-> active_pools, filled |-> filled] IN
            /\ CircuitBinding(p)
            /\ CircuitFills(p)
            /\ CircuitCompleteness(p)
            /\ \E amount_out \in [filled -> Payouts] :
                 /\ CircuitSolvency(p, amount_out)
                 /\ ApplyVerifiedClearing(p, amount_out)
  /\ UNCHANGED <<block, bonded, pools, treasury_set, notes, submitted_at_block,
                 cancelled, claimed>>

-----------------------------------------------------------------------------
(* The admin, the registry and the chain.                                  *)

SetTreasury ==
  /\ ~treasury_set
  /\ treasury_set' = TRUE
  /\ UNCHANGED <<block, bonded, epoch, pools, notes, submitted_at_block, cancelled,
                 cleared, fills_root, claimed, custody, owed, settled>>

AddPool(pair) ==
  /\ Len(pools) < MAX_NUM_POOLS
  /\ Canonical(pair) \notin Range(pools)
  /\ pools' = Append(pools, Canonical(pair))
  /\ UNCHANGED <<block, bonded, epoch, treasury_set, notes, submitted_at_block,
                 cancelled, cleared, fills_root, claimed, custody, owed, settled>>

\* AggregatorRegistry.register and unregister, as view_bonded_amount shows them.
Bond(caller) ==
  /\ caller \notin bonded
  /\ bonded' = bonded \cup {caller}
  /\ UNCHANGED <<block, contract>>

Unbond(caller) ==
  /\ caller \in bonded
  /\ bonded' = bonded \ {caller}
  /\ UNCHANGED <<block, contract>>

NextBlock ==
  /\ block + 1 \in Blocks
  /\ block' = block + 1
  /\ UNCHANGED <<bonded, contract>>

Init ==
  /\ block = DeployBlock
  /\ epoch = [epoch_id |-> 0, opened_at_block |-> DeployBlock,
              closes_at_block |-> DeployBlock + EPOCH_LENGTH,
              order_acc |-> <<>>, cancel_acc |-> <<>>,
              order_count |-> 0, cancel_count |-> 0]
  /\ pools = InitialPools
  /\ treasury_set = FALSE
  /\ bonded = {}
  /\ notes = {}
  /\ submitted_at_block = [o \in Orders |-> 0]
  /\ cancelled = {}
  /\ cleared = {}
  /\ fills_root = [e \in EpochIds |-> {}]
  /\ claimed = {}
  /\ custody = [t \in Tokens |-> 0]
  /\ owed = [t \in Tokens |-> 0]
  /\ settled = [e \in EpochIds |-> <<>>]

Next ==
  \/ \E batch \in Batches, anchor \in AnchorBlocks : SubmitOrders(batch, anchor)
  \/ \E o \in Orders : CancelOrder(o)
  \/ \E e \in EpochIds : \E leaf \in fills_root[e], n \in Orders : ClaimFill(e, leaf, n)
  \/ \E caller \in Callers : CloseEpoch(caller)
  \/ \E caller \in Callers : CloseEpochAndClearVerified(caller)
  \/ SetTreasury
  \/ \E pair \in Pairs : AddPool(pair)
  \/ \E caller \in Callers : Bond(caller)
  \/ \E caller \in Callers : Unbond(caller)
  \/ NextBlock

Spec == Init /\ [][Next]_vars
-----------------------------------------------------------------------------
(* Properties.                                                             *)

EpochStates ==
  [epoch_id: EpochIds, opened_at_block: Blocks, closes_at_block: Nat,
   order_acc: Seq(Orders), cancel_acc: Seq(Orders),
   order_count: 0..MAX_ORDERS_PER_EPOCH, cancel_count: Nat]

\* The type of the state; among it, that an epoch never holds more than
\* MAX_ORDERS_PER_EPOCH orders (the circuit's capacity) and that no balance
\* leaves the u128 range, whatever batches and clearings are interleaved.
TypeOK ==
  /\ block \in Blocks
  /\ epoch \in EpochStates
  /\ pools \in Seq(Pairs) /\ Len(pools) <= MAX_NUM_POOLS
  /\ treasury_set \in BOOLEAN
  /\ bonded \subseteq Callers
  /\ notes \subseteq Orders /\ cancelled \subseteq notes
  /\ submitted_at_block \in [Orders -> Blocks]
  /\ cleared \subseteq EpochIds
  /\ fills_root \in [EpochIds -> SUBSET Leaves]
  /\ claimed \subseteq EpochIds \X Leaves
  /\ custody \in [Tokens -> U128]
  /\ owed \in [Tokens -> Int]
  /\ settled \in [EpochIds -> Seq(Orders)]

\* Solvency (circuit block C2 with the contract's transfers): the public
\* balance covers the running total of what is owed to the makers, through
\* every interleaving of submissions, refunds, clearings and claims.
Solvency == \A t \in Tokens : custody[t] >= owed[t]

Unclaimed ==
  { c \in (cleared \X UNION { fills_root[e] : e \in cleared }) :
      c[2] \in fills_root[c[1]] /\ c \notin claimed }

\* The running total of Solvency is the right one: the escrow of the notes
\* neither cancelled nor filled, plus the fills not yet redeemed, less the
\* escrow refunded on orders a clearing filled as well.  That last term is all
\* the contract can ever be short of: no fill is paid twice, and no refund or
\* payout is charged to the wrong token.
OwedIsClaims ==
  \A t \in Tokens :
    owed[t] = Escrow(notes \ (cancelled \cup Filled), t)
              + SumFunctionOnSet([c \in Unclaimed |-> c[2].amount_out],
                                 { c \in Unclaimed : OutputToken(c[2].order) = t })
              - Escrow(cancelled \cap Filled, t)

\* H13: the epoch's cancel chain only folds orders of the epoch's own order
\* chain, each once, so the circuit's replay (block A) can always be satisfied
\* and a cancellation can never brick the epoch's clearing.
CancelsReplay ==
  /\ Range(epoch.cancel_acc) \subseteq Range(epoch.order_acc)
  /\ IsInjective(epoch.cancel_acc)
  /\ epoch.cancel_count = Len(epoch.cancel_acc)
  /\ epoch.order_count = Len(epoch.order_acc)

\* No order is filled in two epochs or twice in one, although notes are never
\* popped and proofs may replay any chain a prover knows.
FilledOnce ==
  \A d, e \in EpochIds : \A l \in fills_root[d], m \in fills_root[e] :
    l.order = m.order => d = e /\ l = m

NewFillsAreLive ==
  \A e \in EpochIds : \A l \in fills_root'[e] \ fills_root[e] :
    l.order \in Range(epoch.order_acc) \ Range(epoch.cancel_acc)

\* A clearing fills only orders of the epoch it settles, and none whose
\* cancellation the epoch folded: a proof built before a cancellation, or for
\* another epoch, is not accepted.
SettlesOnlyLiveOrders == [][NewFillsAreLive]_vars

SameMarket(o, n) ==
  Note[o].side = Note[n].side /\ Note[o].path = Note[n].path

AtLeastAsGood(o, n) ==
  IF Note[o].side = "bid" THEN Note[o].limit_price >= Note[n].limit_price
                          ELSE Note[o].limit_price <= Note[n].limit_price

NobodyPassedOver ==
  \A e \in cleared' \ cleared :
    \A l \in fills_root'[e], o \in Range(epoch.order_acc) \ Range(epoch.cancel_acc) :
      SameMarket(o, l.order) /\ AtLeastAsGood(o, l.order) =>
        \E m \in fills_root'[e] : m.order = o

\* A uniform price auction passes nobody over: when an order is filled, every
\* live order of the epoch on the same side of the same market with at least
\* as good a limit is filled too, those submitted last included.
NoOrderPassedOver == [][NobodyPassedOver]_vars

RootsAreKept ==
  /\ cleared \subseteq cleared'
  /\ \A e \in cleared : fills_root'[e] = fills_root[e]
  /\ cleared' # cleared => epoch'.epoch_id \notin cleared'

\* Once recorded, an epoch's fills root never changes, and a root is recorded
\* only for the epoch that ends: makers can redeem in any later block.
RootsAreFinal == [][RootsAreKept]_vars

\* The step ends an epoch that has orders without a root for it.
Orphans ==
  /\ Range(epoch.order_acc) # {}
  /\ epoch'.epoch_id # epoch.epoch_id
  /\ cleared' = cleared

MayOrphan ==
  \/ block >= epoch.closes_at_block + CLEAR_GRACE_BLOCKS
  \/ block >= epoch.closes_at_block /\ bonded # {}

\* M16: orders are dropped from clearing (their epoch ends with no fills root)
\* within the grace window only while some aggregator is bonded, and never
\* before the window has passed.
OrphaningIsGated == [][Orphans => MayOrphan]_vars

\* Claimed by the doc of cancel_order: cancellation is rejected once an order
\* has been filled by a clearing.
CancelRejectedOnceFilled == \A o \in Filled : ~ENABLED CancelOrder(o)

\* Claimed by the doc of should_fold_cancel: comparing the anchor block with
\* the epoch's opening is the exact same-epoch membership test, so cancelling
\* an order of the epoch's chain always folds.
CancelOfEpochOrderFolds ==
  cancelled \cap Range(epoch.order_acc) \subseteq Range(epoch.cancel_acc)

\* Claimed by the doc of close_epoch_and_clear_verified: an old proof's chain
\* cannot match a later epoch's, so no proof settles two epochs.
ProofSettlesOneEpoch ==
  \A d, e \in cleared : settled[d] = settled[e] => d = e

-----------------------------------------------------------------------------
(* The contract implements what MakersLedger promises the makers.          *)

Ledger == INSTANCE MakersLedger WITH
  cost <- [o \in Orders |-> Note[o].amount_in],
  costIn <- [o \in Orders |-> InputToken(o)],
  paidIn <- [o \in Orders |-> OutputToken(o)],
  round <- epoch.epoch_id,
  open <- Range(epoch.order_acc) \ Range(epoch.cancel_acc),
  placed <- notes,
  refunded <- cancelled,
  filled <- Filled,
  due <- Unclaimed,
  held <- custody

\* Refinement: whatever the makers, the aggregators and the provers do, an
\* order is escrowed once, refunded at most once and filled at most once, in
\* the epoch it was submitted to; a fill stays claimable, at its amount, until
\* it is claimed; and no clearing leaves the contract with less beyond its
\* debts than it had before, whatever it sends to the pools and pulls back.
ImplementsLedger == Ledger!LedgerSpec

=============================================================================
