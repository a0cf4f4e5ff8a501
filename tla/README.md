# Quetzal in TLA+

Quetzal is a private order book with batch auctions on Aztec.  Makers escrow
tokens with private orders; orders accumulate in an *epoch*; when the epoch's
window has passed, a bonded aggregator settles the whole epoch with one proof of
a clearing circuit, which fills orders at one price per pool and trades the
residue against concentrated-liquidity pools; makers then redeem their fills
from a recorded root.  This directory holds the specifications of the program,
the TLC instances that check them and the TLAPS proofs about them.

Paths below are relative to the repository's root as it appears in `src/`.

## 1. Inventory

| Component | State it keeps | Operations | Talks to |
|---|---|---|---|
| Orderbook contract, `contracts/orderbook/src/main.nr` | `current_epoch` (id, window, order and cancel hash chains with counts), pool registry, order notes, cancel and claim nullifiers, `fills_root` per epoch, the escrow of all makers as its public token balance | `submit_order`, `submit_order_bulk`, `cancel_order`, `claim_fill`, `close_epoch`, `close_epoch_and_clear_verified`, `add_pool`, `set_treasury` | Token (escrow in and out), LiquidityPool (`apply_clearing`), AggregatorRegistry (view), Treasury (`pay_aggregator`), the circuit (proof) |
| Clearing circuit, `circuits/clearing/src/` | none: a relation between public inputs and a witness | replay of both chains, eligibility, completeness (B'), solvency (C2), pool state (D), fill leaves | its public inputs are `_apply_verified_clearing`'s arguments |
| LiquidityPool contract, `contracts/pool/src/main.nr`, `buckets.nr` | `pool_state` (cached total and price), 16 buckets, fee pots, position notes | `deposit`, `withdraw`, `apply_clearing`, `set_orderbook` | Token; called by the orderbook |
| AggregatorRegistry, `contracts/aggregator-registry/src/main.nr` | ids, bonds, endpoint hashes | `register`, `unregister`, `update_endpoint` | Token; read by orderbook and treasury |
| Treasury, `contracts/treasury/src/main.nr` | `tracked_balance`, queue of relayer claims, claims per sender | `pay_aggregator`, `deposit`, `seed_public`, `queue_relayer_claim`, `consume_relayer_claim` | Token, registry; called by the orderbook |
| Token, `contracts/token/src/main.nr` | public and private balances, supply, L1 portal | transfers, `mint_*`, `burn_*`, `claim_*`, `exit_to_l1_*` | everybody |
| Aggregator daemon, `aggregator/src/` | in-memory reveal queue, `CYCLE_IN_FLIGHT`, `clearingInFlight`, auto-roll cooldown, snapshots on disk | `POST /reveal`, watcher poll, clearing cycle, auto-roll, `GET /proof` | chain through the SDK, makers through HTTP, prover processes |
| Clearing engine, `aggregator/src/clearing.ts`, `buckets.ts`, `fixed-point.ts`, `clearing-cycle.ts` | none of its own: a function of the epoch's orders and the pools' public state | batch, price search, swap trace through the buckets, pro-rata shares, routing over pools, flows for the proof | called by the daemon's cycle; its result must satisfy the circuit and be applied by the pools |
| Relayer mode, `aggregator/src/relayer-mode.ts` | none of its own | poll the treasury queue, withdraw on L1, consume on L2 | Treasury, TokenBridge |
| L1 TokenBridge, `contracts-l1/src/TokenBridge.sol` | escrow, deposit records, recoveries with their requests and approvals, allowed senders, target rollup, cap, pause | `depositToL2Public/Private`, `withdraw`, `withdrawPrivate`, `requestRecovery`, `approveRecovery`, `revokeRecoveryApproval`, `executeRecovery`, governance setters | Inbox/Outbox, Token |
| SDK, `sdk/src/` | `~/.quetzal/bridge-state.json` (split exits), note caches | client side of the contracts; `exit --split-into`, `tick` | contracts, file system |
| CLI, `cli/src/` | the same file | commands; `bridge tick --auto-claim`, `bridge claim-l1` | SDK, L1 |
| Frontend, API functions, faucet, scripts | browser caches, a drip log | client side, test-token drips, deployment | the contracts |

What makes each of them correct, and hard:

* **Orderbook.**  Every private function is proved against an *anchor* block and
  its public half runs later, at inclusion, interleaved with everybody else's.
  The contract must never pay out more than it holds (solvency), fill an order
  twice or after its cancellation, let an epoch become impossible to clear, pass
  an order over, or lose a root makers still claim from.
* **Pool.**  Private halves compute on snapshots; the public half accepts them
  only if the snapshot is still live.  Every division rounds down, arithmetic is
  checked `u128`.  The cache must equal the sum, everything must be backed by
  tokens, LPs must always be able to leave, nobody earns from before they came.
* **Registry and Treasury.**  A queue compacted by swap-remove while other
  parties remember slots, two counters that must agree, and a balance that is
  tracked rather than read.
* **Aggregator.**  One process interleaving HTTP enqueues, a poll loop and a
  long-running background cycle, whose queue is volatile, open to everybody and drained
  destructively, racing other aggregators for the same epoch.
* **Bridge.**  Messages between two chains, one of which never lets them expire,
  and a manual recovery path that overlaps with them.  No escrow may leave without
  a burn or a lost deposit behind it, nobody's deposit record may be overwritten,
  a recovery must wait and an approval must end, and a token rotation or a reset of
  the rollup must not strand what is in flight.
* **Clearing engine and circuit.**  Two programs compute the same numbers, one
  with searches and one with checks, each rounding where it stands.  What the
  engine computes must be provable, in integers of the circuit's widths (or the epoch is
  orphaned), must be paid for, must keep every order's limit, and must leave the pools on their curve.
* **Split exits.**  A state file read whole and rewritten in place by commands that may
  overlap, lose answers and be killed, around transactions that cannot be undone.

`PROJECT.json` lists these parts under `components` and the places where the
code is hard to test under `hazards`, each with the properties aimed at it.

## 2. Modules

| Module | Models | Checked by | Proved in |
|---|---|---|---|
| `Orderbook` | orderbook contract and what the circuit guarantees it | `MCOrderbook` | `OrderbookProofs` |
| `MakersLedger` | what the contract promises the makers whose money it holds, which `Orderbook` implements | through `MCOrderbook` | `OrderbookProofs` |
| `LiquidityPool` | pool contract and its deposit mathematics | `MCLiquidityPool` | `LiquidityPoolProofs`, `SumTheorems` |
| `AggregatorRegistry` | registry contract | `MCTreasury` | `TreasuryProofs` |
| `Treasury` (extends it) | treasury contract, the payment at the end of a clearing, the treasury steps of the deploy script | `MCTreasury` | `TreasuryProofs` |
| `Aggregator` | aggregator daemon: queue, watcher, cycle, snapshots, its transactions; with the chain as the daemon sees it, makers, a rival and whoever posts to `/reveal` | `MCAggregator` | `AggregatorProofs` |
| `Bridge` | L1 TokenBridge, the bridge half of the L2 Token, inbox, outbox and rollup resets | `MCBridge` | `BridgeProofs` |
| `BridgeLedger` | what a lock-and-mint bridge promises, which `Bridge` implements | through `Bridge` | `BridgeProofs` |
| `ConcentratedSwap` | the arithmetic of a swap through the buckets | through `ClearingRounds` | `ClearingProofs` |
| `ClearingEngine` (extends it) | the off-chain engine: batch, price search, shares, routing | through `ClearingRounds` | `ClearingProofs` |
| `ClearingCircuit` (extends it) | the arithmetic constraints of the circuit | through `ClearingRounds` | `ClearingProofs` |
| `ClearingRounds` (extends both) | epochs in which the engine clears, the circuit judges and the pools apply | `MCClearingRounds` | `ClearingProofs` |
| `ExitSchedule` | split exits: SDK schedule and tick, CLI auto-claim and manual claim | `MCExitSchedule` | `ExitScheduleProofs` |

`SumTheorems` is a small library of facts about `SumFunctionOnSet` over finite
sets (empty, added element, removed element, renaming, congruence, monotonicity, bounds),
proved by induction over sets of subsets, for five proof modules.

### 2.1 Orderbook and MakersLedger

*One transaction is one action.*  An Aztec transaction is a private half and the
public calls it enqueues; a failed assertion anywhere reverts all of it.  What
does not become atomic is the distance between anchor block and inclusion:
`SubmitOrders` takes the anchor as a parameter (any earlier block, at most
`MaxAnchorAge` old and not before the deployment), writes it to
`submitted_at_block` as the code does, and checks the epoch at the current
`block`.

| Code | Model |
|---|---|
| `current_epoch.order_acc`, `cancel_acc` (Poseidon chains) | the sequence folded into them; the hash is collision free |
| `fills_root` | the set of leaves under it |
| `OrderNote`, read by `(owner, nonce)` and never popped | `notes`, `Note[o]`; a claim may be shown any of the maker's notes with that nonce |
| settlement nullifier `(epoch, leaf_index)` | `claimed`, a set of `<<epoch, leaf>>`; the leaf stands for its index |
| cancel nullifier | `cancelled` |
| the public balance at the Token contract | `custody` |
| `submit_order`, `submit_order_bulk` | `SubmitOrders` |
| `cancel_order`, `_append_cancel` | `CancelOrder`, `EpochWithCancel` |
| `claim_fill` | `ClaimFill` |
| `close_epoch` | `CloseEpoch` |
| `close_epoch_and_clear_verified`, `_apply_verified_clearing` | `CloseEpochAndClearVerified`, `ApplyVerifiedClearing` |
| the circuit's blocks A, B/C, B', C2(c), the fill leaves and D'' | `CircuitBinding`, `CircuitFills`, `CircuitCompleteness`, `CircuitSolvency`, `FillLeaves`, `PairIsBound` |

A proof may be about anything a prover can prove: all chains of known notes are
enumerated, and only the contract's freshness checks tie the proof to the epoch.
That is why a mutant that weakens one of them is caught.  The circuit's bounds on
the pools' price movement (C2(b), D and D') restrict which swaps are provable;
leaving them out only adds behaviours, which the properties survive.

Two ghosts: `owed` is the running total of what makers are due (raised by a
submission, lowered by refund, fill and claim, moved by a clearing from input
escrow to payouts), and `settled` remembers which chain each clearing settled.
`Solvency` says that the custody covers `owed`; `OwedIsClaims` says that `owed` is
what it is meant to be.  Its last term, the escrow refunded on orders that were
also filled, is negative: that is the effect of the first finding below, and the
reading of `Solvency` must take it into account.

`MakersLedger` forgets blocks, chains, anchors, proofs, prices, pools and the ghosts.
What is left is rounds of orders: an order is placed at its cost, refunded at most
once, filled at most once and only in the round it is open in; a fill is due, at its
amount, until it is redeemed; and `EndRound` leaves the custody free as long as
`Margin`, what the house holds of a token beyond its debts, does not shrink.
`ImplementsLedger` says that `Orderbook` implements it:

| MakersLedger | Orderbook |
|---|---|
| `round` | `epoch.epoch_id` |
| `open` | the orders of the epoch's order chain that its cancel chain does not hold |
| `placed`, `refunded` | `notes`, `cancelled` |
| `filled`, `due` | `Filled`, `Unclaimed` |
| `held` | `custody` |
| `Place`, `Refund`, `Redeem` | `SubmitOrders`, `CancelOrder`, `ClaimFill` |
| `EndRound` | `CloseEpoch` (no fill) and `CloseEpochAndClearVerified` |

`Refund` may leave its order open, since a cancellation is not always folded, and may refund a
filled order: these are findings of section 6, and the ledger says what they cost.

### 2.2 LiquidityPool

Amounts are functions of the token (`"a"` or `"b"`), so that every rule is
stated once.  Each wallet (LP or aggregator) keeps in `hint` the snapshot it last
read; `ReadState` refreshes it.  `Deposit` and `Withdraw` compute on the snapshot
and check, as the public halves do, that it still is the state; `ApplyClearing`
does the same through `CommitmentIsLive`.  `compute_deposit` and its three cases
are translated with their floors, and `DepositFits`/`WithdrawFits` say when no
`u128` product overflows (checked arithmetic reverts).  A clearing carries up to
`MAX_ACTIVE_BUCKETS_PER_EPOCH` deltas, possibly of one bucket twice, unrolled as
in the code, and aggregate flows that must equal the deltas' sums plus the
forwarded fees; the circuit's rules on deltas are not assumed.

`balance` counts the tokens the pool's own operations moved (a donation would
only raise it).  `clearings` is a ghost counting the deltas a bucket has received.

### 2.3 AggregatorRegistry and Treasury

What the private halves of these contracts read is immutable or part of the
sender's own transaction, so an action is a whole transaction and there is no
snapshot to grow stale.

| Code | Model |
|---|---|
| the registry's maps and `next_id` | variables of the same names; `registered_addrs` starts at slot 0, which no id uses |
| the bonds held at the Token contract | `registry_balance` |
| `register`, `update_endpoint`, `unregister` | the same |
| `tracked_balance`, the tokens held at the Token contract | `tracked_balance`, `treasury_balance` |
| `pending_relayer_claims[0..count-1]` with its count | a sequence; the slots beyond it are dead |
| `RelayerClaim` | `id`, `amount`, `fee`, `submitter`: the fields the contract reads |
| `pay_aggregator`, called by the orderbook | `pay_aggregator`, guarded by the orderbook's own bond and wiring checks |
| `deposit`, `queue_relayer_claim`, `consume_relayer_claim` | the same |
| `scripts/redeploy-testnet.ts`: `set_treasury`, mint, `seed_public`, its state file | `set_treasury`, `MintSeed`, `seed_public`, `script_done`, `SaveStep` |

The accounts' own balances are not kept: a caller may always have the funds it
spends.  The deploy script saves each step's flag after the transaction is mined;
`CrashAfter` is the set of steps after which it may die in between, to be resumed
and to send the transaction again.  A repeated `set_treasury` reverts on chain
(the setter is one-shot) and the script stays there.  `consumed` is a history
variable: how often each claim id was paid.

### 2.4 Aggregator

The daemon is one JavaScript thread: whatever stands between two `await`s is one
action, and everything else may happen at an `await`.

| Code | Model |
|---|---|
| `RevealQueue.byEpoch`, `currentEpoch` | the same; a reveal is the order it reveals |
| `clearingInFlight`, `lastAutoRollAt` | `clearingInFlight`; `cooling`, until 90 s have passed |
| where the watcher's loop stands | `watcher.pc`: asleep, has read the epoch (`decide`), checks the fee payer (`fee`) |
| `runOneClearingCycleMP` and its locals | `cycle`: before the block number (`block`), the epoch (`epoch`), the fee check and drain (`fee`), the pools (`pools`), the proof (`proving`), awaiting `close_epoch` (`closing`) or the clearing (`submitting`) |
| `CYCLE_IN_FLIGHT` | none: `clearingInFlight` is held whenever a cycle runs (`RollsAndCyclesExclude`), so the second flag never decides |
| an auto-roll in the background | `rolling` |
| `snapshots/epoch-N.json` | `snapshots[N]`: the pool state its fills were computed from |
| transactions sent and not mined, which survive the process | `txs` |
| `POST /reveal`, of an order | `Reveal`; the label is the epoch the maker's client read before it submitted (`placeOrder`), which may be an earlier one |
| `POST /reveal`, of anything else that has the shape of a reveal | `StrayArrives`: a stray may take the nonce of an order (`StrayNonce`), so that the queue keeps whichever comes first, or may not parse (`Unparsable`) |
| `enqueue`, `setCurrentEpoch`, `drainEpoch`, `sizeForEpoch` | `Enqueue`, `SetCurrentEpoch`, inside `CycleDrains`, `NothingQueued` |
| `validateReveals`, `repairReveals` | `Replays`: the reveals that parse are exactly the epoch's orders and none has drifted beyond repair |
| `nargo execute` and its exit code | `Rejected`: the circuit rejects the clearing of these orders on these pools (`Unprovable`), at every attempt; section 6 says which clearings these are |

`complete` is a history variable: the epochs that expired with exactly their
reveals in the queue and for which no stray was queued since.  `no_cross` remembers
where a cycle found nothing to cross.
Block numbers are abstracted to `Clock`, the epochs whose windows they prove
over; a clearing is valid if its epoch is current and expired and the pools are
as the proof has them; it changes the pools.  A bonded daemon is not held up by
the grace period, so `close_epoch` is valid as soon as the epoch has expired.

`EpochExpires` assumes that polls, and what follows on reading an expired epoch up
to the end of a bare close, are shorter than an epoch's window.  Proving is not: a
cycle may come out of its proof in any later epoch.

Faults: the node or a subprocess fails, the fee payer runs low, the disk is full,
a transaction is dropped, the answer to a pending one is lost, the process
restarts.  They may happen at any await until `FaultsEnd`.

### 2.5 Bridge and BridgeLedger

A deposit is a message to the rollup, an exit a message back; a message is its
fields, since the content hash binds amount, mode, recipient and version.  Both
are delivered in any order, any time later, or never.

| Code | Model |
|---|---|
| `deposits`, `pendingRecoveries`, `approvedRecoveries`, `approvalTimestamps` | the same, by key: the pair of depositor and secret hash; the two flags are sets |
| `l1Token.balanceOf(bridge)` | `escrow` |
| `allowedL2Senders`, `l2TokenAddress`, `l2Version`, `maxTvl`, paused | the same |
| `depositToL2Public`, `depositToL2Private` | `depositToL2`, with the mode as a parameter |
| `claim_public`, `claim_private`; `exit_to_l1_public`, `exit_to_l1_private`; the minter's functions | `claim`, `exit_to_l1`, `mint` (and `burn_private`, `burn_public`: `burn`), on the token's total `supply`: the balances of its holders are cut down to their sum |
| `withdraw`, `withdrawPrivate` | the same, over `Withdraw` |
| a transfer of L1 tokens to the bridge, without a call of it | `giveToBridge` (external) |
| the three steps of a recovery and the revocation | the same |
| governance's check that the message was not consumed, made by hand | `VerifiedUnclaimed`, part of `approveRecovery`: an assumption about people |
| the Aztec inbox and outbox, proofs of epochs, testnet resets | `SendL2Message`, `Claimable`, `Consume`, `ProveExit`, `Reset` (external) |

`claimedAt` and `refundedAt` record when each message was claimed and refunded,
`minted` what the minter issued.  `lost` counts the escrow nobody can claim any more: a
reset wipes the supply, `burn_private` and `burn_public` lower it without an exit message, and
tokens sent to the bridge belong to no deposit.

`BridgeLedger` forgets messages, records and clocks: amounts are locked, arrive,
circulate, leave and are released, and a *debt* counts what was issued or released
with nothing behind it.  `ImplementsLedger` says that `Bridge` implements it with
`arriving` as the messages neither claimed nor refunded, `leaving` as the exits not
consumed, and `debt` as the messages both claimed and refunded plus what was minted.  The escrow behind a burn
or a gift stays locked: the ledger's steps `Destroy` and `Give` move it to `lost`, as `Wipe` does.
Debt can only grow by the three steps the ledger names (a mint, a claim after a
refund, a refund after a claim), and nothing is ever overdrawn (`Solvent`).

### 2.6 Clearing: engine, circuit and the rounds they play

Four modules of operators and one state machine.  `ConcentratedSwap` is one swap:
the fee off the top, the walk through at most `MAX_BUCKET_HOPS` buckets, the step
to an edge or inside a bucket, the parts of the fee, the floors.  `ClearingEngine`
adds the batch (earliest orders first, dust left out), the price search (bisection
on the residual, the refinement of one-sided books), the shares (floored, the last
fill takes the rest) and the routing of orders over pools.  `ClearingCircuit`
translates the constraints, written once more in Noir and rounded differently.
Loops of the code are recursive functions over the number of turns.

`ClearingRounds` is what happens around them: orders arrive (`submit`), the cycle
reads the pools and computes (`compute`), liquidity may be added meanwhile
(`deposit`), the clearing is proved and applied, if the pools still are as priced
(`settle`, otherwise `retry`), or the epoch is closed without one (`closeOnly`).

The floors of `nextSqrtPDown` can take a price one unit below the bucket it was in, even though
the input fits (`SCALE` 10000, a bucket from 8000, price 8148, liquidity 131727, input 2991: the
new price is 7999).  Such a step asks for more than the bucket owes at that price, so the circuit
lets it pass only where the reserve has units to spare.  If the bucket was the lowest, the price
is then outside the grid: the walk's containment guard throws (`Contained`), `bucketNetSwap` rethrows,
and every cycle that traces such a pool fails and queues its reveals again, so `compute`
is guarded by `~ Throws`.

| Code | Model |
|---|---|
| `MultiPoolState` as the daemon reads it | `[sqrtP, bounds, buckets]`; fee counters only grow, so a trace names what it adds |
| `traceBucketSwap`, `bucketNetSwap`, `deriveAggregateFlows`, `recoverForwardedFee` | the same |
| `selectBatch`, `clearingAt`, `findClearingPrice`, `oneSidedClearingPrice`, `computeClearing`, `computeClearingMultiPair` | the same |
| `assert_bucket_step`, `ceil_fee_from_net`, `token_solvent`, blocks C2(a), C2(b), D, B' of `main` | the same and `PaysNoMoreThanItHas`, `NobodyIsShorted`, `PoolEvolves`, `FillsAreTheEligible` |
| `mul_div` with its assertions, and the checked `u128` sums around it | `mul_div_fits`, asked of every product of a share (`SharesFitWidths`), a step (`StepFits`) and a recovered fee (`FeesWereCollected`) |
| `Pool.apply_clearing` | `ApplyTrace`: deltas added to the buckets, the price set; it fails if a bucket would go below zero |

The engine computes in unbounded integers, the circuit in `u128`: `mul_div` adds partial
products without a carry, takes no divisor of more than 64 bits and asserts that the quotient has
128.  `TWO_POW_64` is the constant 2^64 of the code, made small in the run.  That the sums of the
per-share fee counters, which only grow, fit their 128 bits is left out.

`LiquidityPool` (2.2) treats a clearing's deltas as anything the circuit might let
through; here they are what the engine computes.

Limits and prices are A-per-B fixed-point numbers of `SCALE`; the band in which the
search starts is computed from `sqrt^2 / SCALE` as in the code.

### 2.7 ExitSchedule

`exit --split-into` writes legs of uneven amounts into a state file; `tick` reads the
file, burns the legs that are due one transaction at a time and writes the file at the
end, if it burned any; `tick --auto-claim` then reads it again, withdraws on L1 what is proven,
and writes it once more.  Each of them is a process that holds the copy it read
(`process[p].state`).  `saveBridgeState` is `writeFileSync` in place, so the writing is two steps:
`openFile` empties the file, `writeFile` fills it.  `file` is what the last complete writing
meant, `text` what can be read: the whole of it; nothing, between the two steps or after a kill
there; or a mixture, when a kill lands inside the writing or two commands write at once.
`JSON.parse` of anything but the whole throws (`loadThrows`), in this and in every later
command, until the owner mends the file by hand, which is not modelled (`Lost`).
A send that throws may or may not have been mined (`submitFails`, `claimThrows`), a process may
be `killed` anywhere, another command may start meanwhile.
`claimByHand` is `bridge claim-l1`, which changes no file.  `SplitAmount` is the amount of
a leg, with the noise of the code and its truncating division, and the last leg the rest.

`exits`, `proven` stand for `Bridge`'s exits as far as the schedule sees them.

## 3. Runs

| Run | Shows | Instance |
|---|---|---|
| `orderbook_epochs` | types, solvency, its meaning, replayable cancels, single fills, only live orders settled, nobody passed over, gated orphaning | three orders of two makers in one market (two bids with different limits, an ask with a reused nonce under another owner), two orders per epoch, 5 blocks, 3 epochs |
| `orderbook_routed` | the makers' ledger is implemented, across pools | three tokens, a second pool registered while orders rest, two active slots, a two-hop order |
| `pool` | types and widths, backing, dust bound, every position can leave | two buckets, two positions, one wallet, clearings of up to two deltas |
| `pool_stale_hints` | no fees from before a deposit; fair withdrawals | two wallets with snapshots of different ages, one bucket |
| `treasury` | widths, every claim pending or paid once, tracked balance backed | two accounts (interchangeable), five ids, five claims in three slots with a cap of two per sender, balances up to 6, a script that may die after `set_treasury` or after the mint |
| `daemon` | every root of ours has a snapshot; complete epochs are not rolled away; reveals survive failures; expired epochs end | two orders, one of them through a pool that was added after the daemon started; two epochs that expire and one that stays open; reveals kept for one epoch around; a stray with the nonce of the first order, posted any number of times for the second epoch; the clearing of the first order alone rejected on the pools as they are at first; one change of the pools besides those by clearings |
| `bridge` | records survive, recoveries wait, approvals end, exits survive rotations, the ledger is implemented | one depositor with one key, two L2 tokens (interchangeable), two messages, one exit, one unit minted, burned or given, a wait of 1, a lifetime of 0, times 0 to 2, one reset |
| `clearing_rounds` | what the engine clears the circuit accepts within its widths, payouts are funded, buckets keep covering their curve, one-sided fills keep their limits | `SCALE` 10000, words of 15 bits for the code's 64, two pools of two buckets, seven launches, orders of three sizes with limits around the price and one through both pools, up to three orders, two epochs, one later deposit |
| `exit_schedule` | submitted legs are burned, done plans are paid in full, extra burns have a cause, statuses only advance, public legs are paid in the end, unless the file is lost in the writing | two legs, a total of 11, two processes, one fault, one overlap, six exits |
| `cancel_after_fill`, `clearing_crossing`, `clearing_limits` | three claims of the documentation that the code does not keep (section 6) | small |

Each property of a passing run has a mutant in `PROJECT.json`: one plausible
mistake in one definition that makes the run fail on exactly that property.
Invariants that are proved and need no run are `RootsAreFinal`, `CacheIsSum`,
`EscrowIsBonds`, `IdsNameAccounts`, `CountersMatchSlots` and `RollsAndCyclesExclude`; a reader
may add them to the cfg of their module.

*Why the bounds suffice.*  In `orderbook_epochs`, an epoch of length 2 with grace 1 within 5 blocks lets
an order be submitted from an anchor before its epoch, be cancelled in its epoch
and in the next, miss a clearing by bare close before and after grace, be filled
and claimed two epochs later.  Three orders and capacity two exercise a full
epoch and both sides of a market.  `MaxBlock`, `MaxEpochId`, `MaxClearings`
bound counters that are `u32`/unbounded in the code; `MAX_U128` is small so that the
checked arithmetic matters.  In the pool, `SCALE = 2` makes every floor visible
with amounts of one digit.  In the treasury, three slots and a cap of two let the
swap-remove move another sender's claim, free the last slot and meet both caps;
`MAX_U32 = 4` lets an account leave, return under a new id and run out of ids;
`MAX_U128 = 6` lets bonds and balances reach their width; `MaxClaimId` bounds the
claims.  Ids, claims and funds are used up within these bounds, so the treasury
runs may end and do not check deadlock.

In `daemon`, two orders make an epoch incomplete, mislabelled, unroutable or
complete; two expiring epochs let leftovers of one meet the other and, with a
window of one, be evicted; one change of the pools makes a proof stale.  The cap of
reveals per epoch is met but not exceeded: it is far above what an epoch holds in
the code as well (512 reveals against 32 orders).  The
stray may come before or after the reveal whose nonce it takes, while that is queued, drained or
put back.  Its epoch is the second so that the first one also runs undisturbed.  `AggregatorStrays.cfg`
(module `MCAggregator`) has two strays, one of them beyond parsing, and no pool changes; it passes in
two minutes.  Both orders routable and drifting reveals were checked with fewer pool changes; they
find nothing else.

In `bridge`, two messages let one key be used, recovered or claimed, and used again,
so that a flag or a clock left behind by the first deposit would meet the second;
a wait of 1 and a lifetime of 0 within times 0 to 2 put every step before, at and
after each deadline; one extra unit (`MaxExtra`) is issued without a lock, or ends without an
exit; one reset puts a message and an exit into a version that ends.
Amounts are 1 since no step compares amounts but through sums, widths (`MAX_U128 = 2`) and
the cap.  A second key would share nothing with the first but the escrow.

In `clearing_rounds`, prices of four decimals with orders of up to 0.3 of a bucket
make every floor visible: shares, fee, price and step round differently in engine and
circuit.  The launches are a pool without funds, one with an empty bucket above, at or
below its price, one at an inner edge, at the bottom, and inside either bucket.  A
two-sided book, a one-sided book that loses orders, dust, and a two-hop order fit into
three orders; a second epoch starts from whatever the first left.  Clearings that cross
a bucket's edge, that start in an empty bucket or that end one unit above what the bucket
holds are not provable (section 6), and nor are those with dust among the eligible orders:
`ClearingsProve` excepts them by name (`StaysInABucket`, `DustAt`), and the numbers beyond the widths
(`WithinWidths`), and holds everywhere else.  `TWO_POW_64` is 32768: the launched buckets are below it,
and the later deposit can bring the upper one above, where the circuit rejects what the engine computes.
`MAX_ITERS` is 24 instead of the code's 128: the band has fewer than 2^18 prices, so the search ends
by itself before either.  `BucketsCoverTheirCurve` allows each clearing and each deposit what two units of the price are
worth; `OneSidedFillsRespectLimits` allows the fee and, for the floors of price and share, a
unit of each to a buyer and two to a seller.

In `exit_schedule`, one overlap and one fault are what it takes for two processes to hold
copies of different age, for a burned leg to be forgotten, and for the file to be lost; the amounts of 11 over
two legs are 4 and 7.  That the parts add
up, and that none of them is negative, is proved for 2 to 20 legs and every total
(`PartsAddUp`, `PartsAreNatural`).

*Fairness.*  The contracts are passive, and their properties are safety
properties.  In `Aggregator` the watcher, the cycle, the answers to transactions
and the end of the cooldown are weakly fair: the event loop runs on, each await
settles, a transaction is included or fails.  `FaultsEnd` is weakly fair: the fee
payer is topped up and the node comes back some day; before, they may fail any
number of times.  A clearing the circuit rejects fails after it as before.  Nothing is assumed of
makers, of strays, of the rival, of the passing of epochs or of restarts not happening.
`ExpiredEpochsEnd` excepts the three wedges the code does not resolve by itself (`Wedged`, section
6), and strays for the epoch queued again and again, each of which keeps the auto-roll away.

`ExitSchedule` assumes that the owner runs `tick --auto-claim` again and again (strong
fairness of starting one: a process is free infinitely often, not always), that a running
tick takes its next step unless it is killed or a send fails, that the rollup proves what is
in its outbox and that time passes.  Faults and overlaps are bounded in number.  Nothing is
assumed of claims by hand, and `PublicLegsArePaid` excludes runs with overlapping commands,
in which a stale write may put a leg's record back, and those that lost the file (section 6).  `Bridge` and `ClearingRounds`
are passive and state safety only.

*Symmetry.*  The bridge's depositors and tokens are permuted; no definition tells them apart
and the run's only temporal property is a safety property, so this is sound.

## 4. Proofs

All with TLAPS, for every value of the constants under the named `ASSUME`s (which
TLC evaluates on the instances).

**Orderbook** (`OrderbookProofs`).  `TypeCorrect`; `CancelsReplayCorrect`;
`FilledOnceCorrect`; `SettlesOnlyLiveOrdersCorrect`; `NoOrderPassedOverCorrect`;
`RootsAreFinalCorrect`; `OrphaningIsGatedCorrect`; `SolvencyCorrect`; `OwedIsClaimsCorrect`;
`ShortfallIsDoubleRefunds`; `OrderbookKeepsLedger`; `MarginNeverShrinks`.

* `ChainInv` strengthens `CancelsReplay`: the order chain is injective and made
  of notes; every cancelled order of the chain with an anchor in the epoch is in
  the cancel chain; and, the fact the H13 gate rests on, a note whose anchor is
  not before the epoch's opening is in the epoch's order chain (an anchor block
  is always older than the block of inclusion).
* `SettledInv` strengthens `FilledOnce`: the filled orders are those of closed
  epochs, and so disjoint from the open chain.
* `RegistryInv` says that registered pairs are canonical; with it a slot's priced
  pair is the registry's, and the contract's pushes and pulls are those the
  circuit balanced.  `SolvencyCorrect` carries the hypothesis `UniqueNonces`
  (no maker reuses a nonce), which the contract does not enforce: with a reused
  nonce `claim_fill` may pay another token than the fill's.
* `BooksInv` makes `OwedIsClaims` inductive: the sets it sums over are finite, and only fills of
  cleared epochs have been claimed.  Each action moves the sums by the orders or the leaf it
  touches; a clearing moves the filled orders' escrow into payouts, one leaf per order
  (`SumRename`).  No hypothesis on nonces is needed here.
* `ShortfallIsDoubleRefunds` combines the two: what the balance can be short of is bounded by the
  escrow refunded on filled orders, which is the first finding of section 6, and nothing else.
* `OrderbookKeepsLedger` is the refinement: `LedgerInit` maps the initial state, and one lemma per
  action maps its step (`SubmitPlaces`, `CancelRefunds`, `ClaimRedeems`, `CloseEnds`,
  `ClearingEnds`), the other steps being ones the ledger does not see.  It needs all the invariants
  above: `ChainInv` so that a new order was in no chain, `SettledInv` and `BooksInv` so that a
  clearing's leaves are new claims of orders not filled before (`ClearingFills`), and
  `RegistryInv` for `ClearingMargin`, the circuit's inequalities added up over three slots.
  `MarginIs` is where the abstract and the concrete meet: the ledger's margin, a sum over its
  sets, is the custody less the ghost `owed`.  `UniqueNonces` is its only hypothesis.
* `MarginNeverShrinks` is the same fact as an action property, of which solvency is a
  consequence: no step takes from the surplus of any token.

**LiquidityPool** (`LiquidityPoolProofs`).  `PoolInv` is one inductive invariant:
types; shares of a bucket's positions add up to its liquidity; a position's
recorded growth is at most the bucket's; the growth all positions can claim,
before flooring, is at most `(pot + clearings) * SCALE`; the cache is the sum; the
balance is the cache.  Linearity (`GrowthIsLinear`) turns a clearing's credit into
liquidity times increment; flooring loses less than one unit, hence the one unit
per clearing.  From it follow `TypeCorrect`, `CacheIsSumCorrect`, `BackedCorrect`,
`ShortfallIsDustCorrect`, `EveryPositionCanLeaveCorrect`,
`NoFeesBeforeDepositCorrect` and, with the arithmetic lemma `FairShare`,
`WithdrawalsAreFairCorrect`.

**Registry and Treasury** (`TreasuryProofs`).  `EscrowCorrect`, `IdsCorrect`,
`TypeCorrect`, `CountersCorrect`, `ClaimsCorrect`, `BackedCorrect`,
`PaymentsCorrect`, for any set of accounts, finite or not.

* `RegistryInv` carries the finiteness of the registered accounts, without which
  the cardinality in `EscrowIsBonds` could not be counted up and down.
* `TreasuryInv` adds the types, `CountersMatchSlots` and `ClaimsOnce`, which are
  inductive together; that a swap-remove keeps both is the heart of
  `CountersCorrect` and `ClaimsCorrect`.
* `BackedInv` adds to the tracked balance the seed that is minted and not yet
  recorded, and orders the script's flags.  `BackedCorrect` and `PaymentsCorrect` have the
  hypothesis `"seed" \notin CrashAfter`: the script does not die between seeding
  and saving the flag.  Without it they are false, as `TreasuryResumed.cfg` shows.

**Aggregator** (`AggregatorProofs`).  `TypeCorrect`, `RollsAndCyclesExcludeCorrect`,
`OwnRootsHaveSnapshotsCorrect`, `MatchingRevealsSurviveCorrect` (an action
property), `CompleteEpochsAreNotRolledCorrect`, for any orders, window, cap and
number of epochs.

* `TypeInv` consists of the queue (`QueueInv`), the process and the chain, each kept
  given the others.  `EnqueueQueues` says what `enqueue` promises; that it loses nothing
  within the window and the cap is what a retry rests on.
* `RollsAndCyclesExclude` is inductive as it stands: the flag is tested by both
  decisions and held by whoever runs.
* `SnapshotInv` adds that pending clearings have snapshots, too.
* `EpochInv` says what the loops know: a cycle has drained only reveals of epochs
  whose windows had passed, and while an epoch is expired, watcher and cycle up to its
  proof look at no other; drained reveals of the current epoch are its order chain.
  Then a throwing cycle puts back no more than it drained, within a window that has not
  moved (`ThrowKeeps`).  `MatchingRevealsSurvive` speaks of epochs for which no stray is held: with
  one, the drained reveals do not replay and are lost, in the code as in the model.
* `CompleteInv` adds that a complete epoch is `Protected`: held reveals and no stray, no roll
  decided, no bare close pending.
* The assumption on times in `EpochExpires` is used in `EpochInv`: with polls or bare
  closes slower than an epoch, a stale decision could close the next one.

**Bridge** (`BridgeProofs`).  `BridgeTypeCorrect`, `DepositsAreRecoverable`, `RecoveriesWait`,
`RecoveriesAreFresh`, `RotationIsSafe`, `BridgeKeepsLedger`, `BridgeBalances`, for any number of
depositors, tokens, messages, exits and resets.

* `RecoveryInv` is the inductive invariant behind `DepositsAreRecoverable`, `RecoveriesWait` and
  `RecoveriesAreFresh`, which are not inductive by themselves.  It adds that messages are numbered
  in the order of their deposits; that of the deposits under one key all but the last were
  refunded, so that a record is the last one's and governance looks at the right message; that a
  request belongs to a recorded deposit and was made after its wait; and that an approval came
  before the claim, if there is one.
* `RotationIsSafe` needs that the current token is always among the accepted ones.
* `BridgeKeepsLedger` is the refinement: `LedgerInit` maps the initial state, `LedgerStep` maps
  each action to the ledger's step or to a stutter, and `NextSolvent` shows that what the step
  leaves is not overdrawn.  Sums over messages are moved by one summand with `SumTheorems`.
* `BridgeBalances` is the ledger's invariant seen through the refinement: what is in escrow and has no
  claimant (wiped, burned, given) is its term `lost`, which no step lowers.
* The assumption about people is `VerifiedUnclaimed`.  Without it `RefundsAreFresh` is false.

**Clearing** (`ClearingProofs`).  First the operators, for all values of their arguments:

* `FeeIsWithinCeiling`: the fee withheld by the engine from a gross amount is at most the
  ceiling the circuit derives from the net amount; `RecoveredFeeIsWithheld`: what a bucket's
  counter returns is at most what it was given.  Together they make the circuit's bound on the
  minted fee one that an honest clearing meets.
* `SharesAreWholeAndFair`, `EngineMeetsCircuit`: shares add up to the total, are natural numbers
  and at least the pro-rata floor; hence each side passes the circuit's solvency and fairness
  tests, and those are computed within the widths where what there is of the tokens has 64 bits.
* `StepsDownNeverOverdraw`: reserves that cover the curve down to an edge cover every step down.
  (A step up rounds the other way and may ask for one unit more than the bucket has, section 6.)
* `TraceFacts`: what a feasible trace of any size through any grid says (`TraceOf`).  `Walks` is the
  loop's invariant: what has gone in, the fee given out, the buckets behind and ahead.
* `TraceEvolves`: a trace that moves in one bucket, and whose numbers keep within the widths
  (`TraceWithin`), is replayed by the circuit to the same price.
* The widths: `WidthConstants` assumes that the scales have 64 bits.  `SmallProductFits` says that
  `mul_div` computes every product of 128 bits, `FactorsFit` every one of two factors of 64 bits,
  `SumFits` that their sum fits; with them `StepFitsWidths`, `TraceWithin` and `RecoveryFits` bring the circuit's
  products of a step and of a fee down to the bounds `WithinWidths` names.
* `OneSidedPriceIsFixedPoint`: the price a one-sided book ends at is what the pool pays for, or
  takes for, the orders eligible at it.  The code stops at as *many* eligible orders as
  before; `SameNumberSameOrders` shows that they are the same ones, since of one side who is
  eligible at a price is so at any better one.  `FixedPasses` is the loop's invariant.

Then the states of `ClearingRounds`: `TypeOKCorrect`, `PayoutsAreFundedCorrect`,
`ClearingsProveCorrect`, `BuyersKeepLimitsCorrect`.

* `ClearingsProveCorrect` has the three conditions of `ClearingsProve`; none is implied by the code.
* None of the four is inductive: what a clearing says depends on the pools it was computed for.
  `ClearingInv` says that the pools are on the grid with natural reserves (`GoodPools`), that the
  orders of an epoch are distinct and fit a batch, and that a clearing in flight is what
  `computeClearingMultiPair` returns for the orders there are and the pools that were read.  It also
  holds of every state of the run.
* What it implies goes the way the code does: `TraceFacts`, then `SwapFacts` of `bucketNetSwap`,
  `CrossingTypes` and `OneSidedTypes` of the two price searches, `ClearingFacts` of
  `computeClearing`, `MultiPairFacts` of all pools.  `ClearingFacts` is where the engine's numbers
  meet the circuit's.
* `BuyersKeepLimits` is the buyers' half of `OneSidedFillsRespectLimits`.  What is put into the
  pool for a book of buys does not depend on the price, so the swap that fills the book is the
  one the fixed point was computed from (`BuyBookKeepsLimits`); `ShareKeepsLimit` then follows
  the floors of fee, price and share to one order.
* The loops are recursive functions.  `Iterates` says that one whose step stays in a set exists,
  and `StaysIn`, by induction over a set of numbers (`CountUp`), that its values do.
* A settled clearing leaves good pools (`SettledPools`) only because the circuit has checked that
  each step is backed by its bucket (`EvolvesBacked`) and the pools compared the buckets with their
  own (`StillAsPriced`).
* The assumptions are those of the code: a fee below one, adjoining buckets (`GridAssumption`), a
  lowest price at which no divisor is zero (`sqrt_lower^2 >= SCALE`; the deployed grids start far
  above), an epoch that fits a batch (the contract's cap, `RoundConstants`).

**Split exits** (`ExitScheduleProofs`).  `CopiesAreSound`, `SubmittedLegsAreBurnedCorrect`,
`DonePlansArePaidCorrect`, `StatusOnlyAdvancesCorrect`, for any plans and number of legs (the 2 to
20 the code allows), processes, faults and overlaps.  `ScheduleConstants` is all they assume.

* A property of the file alone is not inductive, for a tick writes the copy it read some time
  ago.  `CopiesInv` says the same of the file and of every copy in flight, whatever its age: what
  it says of a leg agrees with the request, names an exit of that leg and calls done only what
  was paid.  Exits only grow and get paid (`Grown`), which keeps old copies sound
  (`SoundGrows`); `TodoFits` says that what a tick has left to do is still as it was when chosen.
* `PartsAddUp` shows that the amounts of the legs add up to the total, whatever the noise, with
  the lemma `SumRename` of `SumTheorems`.  `PartsAreNatural`: the noise of one
  part is at most a fifth of an even share and that of all parts together adds less than one
  share (`NoiseIsLessThanAPart`), so the last leg, which takes the rest, is never left negative.
* `BurnInv` counts, for `ExtraExitsHaveACause`: the exits of a leg plus the running commands that
  are about to burn it, plus one if the file or a stale copy could still have it burned again, is
  at most one more than the faults and overlaps so far.
* `RecordsInv` keeps the records and the counters typed, for `TypeOKCorrect`.
* `AloneInv`, for `StatusOnlyAdvances`: as long as nothing overlapped there is one running
  command, its copy is never behind the file, and the file is open only while that command is in
  its writing.  So the file is lost by a kill there and in no other way.

*Only model-checked*: the liveness properties `ExpiredEpochsEnd` and `PublicLegsArePaid`, which
are out of the prover's reach; and of `ClearingRounds` `BucketsCoverTheirCurve` and the sellers'
half of `OneSidedFillsRespectLimits`.  These two name slacks of two units, which suit the run's
prices and are not true of every grid.  What a bucket must hold is a quotient floored in its
divisors too, and what that is worth depends on the price and on the bucket's liquidity.  The
swap that fills a book of sells is sized from the rounded price, not from what the price was
computed from, and how far apart the two end depends on the liquidity as well.

## 5. Plan

In order, most important first:

1. `Orderbook` with `OrderbookProofs`: done.
2. `LiquidityPool` with `SumTheorems`, `LiquidityPoolProofs`: done.
3. `AggregatorRegistry` and `Treasury` with `TreasuryProofs`: done.
4. `Aggregator` with `AggregatorProofs`: done.
5. `Bridge`, `BridgeLedger` with `BridgeProofs`: done.
6. `ConcentratedSwap`, `ClearingEngine`, `ClearingCircuit`, `ClearingRounds` with
   `ClearingProofs`: done.
7. `ExitSchedule` with `ExitScheduleProofs`: done.
8. `MakersLedger`, which `Orderbook` implements: done.

Not done: the orderbook, the pools and the treasury in one state, for the conservation of
every token across the contracts.  Each contract is checked with the others' calls as its
environment (any flows a proof may carry for the orderbook, any clearing for a pool), and a
token leaves one contract for another only by those calls, so what a composition would add is
the sum over contracts; its state space is the product of theirs.  The faucet's drip pipeline
is left out too: it hands out test tokens.

## 6. Disagreements between the code and its documentation

* `cancel_after_fill`: a filled order can be cancelled in a later epoch, and the
  refund is paid while other makers' escrow covers it.  The comment relies on the
  contract's balance being short, but the balance is pooled.
* `clearing_crossing`: a swap that crosses from one bucket into the next cannot be
  proved.  The engine takes the edge as the price after an exhausted bucket and hands the
  deltas on by bucket number; the circuit recomputes the price from each floored input and
  chains the deltas in the order given.
* `clearing_limits`: next to a price at which orders drop out of the book the residual jumps
  over zero, and the search takes the lower of two adjacent prices whatever its
  residual.  In the trace a buyer with limit 1.0 pays 3000 and receives 2948 at
  `P* = 0.9999`, after the seller dropped out: 1.8 % above its limit, with a fee of 0.3 %.

Five more have an instance that shows them (`tlc -config <cfg> <module>`):

| cfg | module | property | what it shows |
|---|---|---|---|
| `OrderbookAnchor.cfg` | `MCOrderbook` | `CancelOfEpochOrderFolds` | the test for an order of the same epoch compares the anchor block, so an order anchored before the epoch opened and included in it is cancelled without being folded; a clearing may then fill it |
| `OrderbookReplay.cfg` | `MCOrderbook` | `ProofSettlesOneEpoch` | two epochs without orders have the same accumulators, and one proof settles both (the aggregator's fee is paid twice) |
| `LiquidityPoolWidth.cfg` | `MCLiquidityPool` | `OverflowIsSafe` | a deposit large enough that only its withdrawal's product overflows is accepted |
| `TreasuryResumed.cfg` | `MCTreasury` | `PayNeverReverts` | the deploy script calls itself idempotent, but a run that dies after `seed_public` is mined and before its flag is saved seeds again when resumed; the treasury then tracks tokens it does not own, and once its balance is spent `pay_aggregator`, which the contract's comment says never reverts for lack of funds, reverts with every clearing |
| `AggregatorSnapshot.cfg` | `MCAggregator` | `SnapshotsProveRoots` | a cycle whose answer was lost while its clearing is pending queues its reveals again; the next cycle of the same epoch may read the pools after that clearing was mined, and overwrites the snapshot of the recorded root with one that proves nothing, before its own submission reverts |

Seen while modelling the clearing and the exits, without runs of their own:

* A swap that starts in an empty bucket, and one that steps up to within a unit of what the
  bucket holds, give traces the circuit rejects too; `ClearingsProve` excepts them by name.
* The engine drops orders below `MIN_FILL_AMOUNT_IN` from the batch, while the circuit's
  completeness check (`circuits/clearing/src/main.nr:180`) demands every eligible order: an
  epoch with an eligible dust order cannot be cleared.
* The circuit divides by at most 64 bits (`circuits/clearing/src/pricing.nr:99`), which a comment
  there calls enough for "our use case"; bucket liquidity is such a divisor and the pool bounds it by
  `u128` only.  A bucket of 2^64 units makes every clearing through it unprovable; only
  `scripts/deepen-pools.ts:82` knows the bound (`WithinWidths`).
* The price of a one-sided book is sized after the fee, so that a fill may be 0.3 %
  beyond its limit where the comment says "none is filled below limit"
  (`aggregator/src/clearing.ts:344`); `OneSidedFillsRespectLimits` allows for the fee.
* The band of the search is `sqrt^2 / SCALE`, a price of A in B, while limits and `P*` are
  prices of B in A (`aggregator/src/clearing.ts:238-239`); it holds the price as long as that
  is within the band's factor of 1.
* `bridge tick --auto-claim` always derives the content of a public exit and calls
  `withdraw` (`cli/src/commands/bridge.ts:446-480`); legs are private by default, and those are
  never claimed by it (`PublicLegsArePaid` is about the others).
* Two commands at the same time lose each other's writes: a leg can be burned again
  because a tick wrote its older copy over the newer one (`ExtraExitsHaveACause` counts these).
* `saveBridgeState` (`sdk/src/privacy/bridge-schedule.ts:30`) truncates the state file before it
  writes it: a kill in between loses every leg, and every later command throws in
  `JSON.parse` (`StatusOnlyAdvances` and `PublicLegsArePaid` except this kill by name).

Seen while modelling the daemon, without runs of their own:

* An epoch with a folded cancellation and queued reveals is skipped by every cycle
  and never rolled.  One with an order through a pool that was added after the daemon started, or
  whose clearing the circuit rejects (a swap across buckets, dust, numbers beyond its widths;
  `aggregator/src/clearing-cycle.ts:696`), is not rolled either: every cycle throws and queues its
  reveals again.  Only another aggregator's close gets past it, or a change of the pools in the last
  case (`Wedged`).
* `/reveal` is unauthenticated, as `aggregator/src/queue.ts:35` says, which bounds the queue for that
  reason.  But one stray for an expired epoch makes the replay mismatch, the cycle return at
  `clearing-cycle.ts:481`, and the drained reveals of that epoch be lost; the queue being empty then, the
  epoch is rolled though it was complete.  Strays under the nonces of drained reveals, or filling the
  queue, make a throwing cycle lose them as well (`MatchingRevealsSurvive` and
  `CompleteEpochsAreNotRolled` speak of epochs without strays).
* `docs/mainnet-lessons.md` (85-86) wants the drain after all gates and says that it is; the
  fee check comes before it, validation after, and the reveals of an epoch that does
  not validate, because one of them is still missing, are gone.
* The SDK's comment that a successful submission "is in the epoch read here"
  (`sdk/src/orders.ts`, 409-411) fails if the epoch turns in between; the reveal is then
  labelled with an epoch whose orders it does not belong to (`SubmitOrder`).
* A roll whose answer is lost stays pending while the next cycle runs; the two then
  race on the chain though `clearingInFlight` keeps them apart in the process.

## 7. Not modelled, and why

*By decision.*  Privacy (what observers learn), proof systems, hashing and note encryption are
outside: hashes are collision free and proofs sound.  Liveness and anything that needs
`ENABLED` in an invariant stay with TLC.

*Of modelled components.*  Of the circuit: Merkle paths, hashing, and the constant-product helpers
of `amm.nr`, which no constraint uses.  Of the aggregator: `witness.ts`, `proof.ts`, `merkle.ts`
(encodings for the prover), `path.ts` (a table lookup; orders carry the pools it finds), the
constant-product code in `clearing.ts` that no caller reaches, and the older single-pool
`daemon.ts` and `server.ts`.  Of the token: private notes, transfers, authorisation.  Of the
TokenBridge: `withdrawTreasuryDust`, which cannot touch the bridged token, and upgrades, which
replace the program.

*Components.*  The relayer mode never learns the bridge's address (`relayer-mode.ts:226`:
`bridgeAddr` stays empty), so its loop changes nothing; what it would call is
`consume_relayer_claim`, which, unlike its header says, is open to bonded aggregators only.
The frontend, the API functions, most scripts and most of SDK and CLI are user interface,
wallet plumbing, network I/O and formatting: they keep no protocol state, and what they submit
is among the inputs the contract modules enumerate.  They are most of the repository's lines, which
is why the share of lines the modules cover is small although every contract operation is
modelled.  The faucet hands out test tokens and is not part of the exchange.
