----------------------------- MODULE Aggregator -----------------------------
(***************************************************************************)
(* The aggregator daemon (aggregator/src): a reveal queue in memory, a     *)
(* watcher that polls the chain, clearing cycles and auto-rolls in the     *)
(* background, and a directory of claim snapshots.  One JavaScript thread  *)
(* interleaves them: a step of this specification is what runs between two *)
(* awaits.                                                                 *)
(*                                                                         *)
(* Around it stand the chain, as far as the daemon can tell (see module    *)
(* Orderbook), makers whose clients label each reveal with the epoch read  *)
(* before submitting, liquidity providers, a rival aggregator, and anybody *)
(* who posts to /reveal, which takes whatever has the shape of a reveal.   *)
(*                                                                         *)
(* The reveal of an order is named by the order, an order's nonce being    *)
(* its name; a stray is a reveal that no order on the chain matches.  A    *)
(* pool state is named by the number of changes that led to it.            *)
(***************************************************************************)
EXTENDS Integers, FiniteSets

CONSTANTS
  Orders,
  Drifted,         \* orders whose reveals never replay, even repaired
  Unroutable,      \* orders through a pool that is not in the daemon's registry
  Strays,          \* reveals of no order: an order never mined, wrong fields, junk
  StrayNonce,      \* the order_nonce of each, maybe that of an order
  Unparsable,      \* strays whose fields are no field elements
  Unprovable,      \* <<orders, pool state>> whose clearing the circuit rejects
  EPOCH_WINDOW, MAX_PER_EPOCH,
  MaxEpoch,        \* bound: the last epoch, which does not expire
  StrayEpochs,     \* bound: the epochs strays are labelled with
  MaxPoolChanges   \* bound

ASSUME AggregatorConstants ==
  /\ Drifted \subseteq Orders /\ Unroutable \subseteq Orders
  /\ Strays \cap Orders = {} /\ Unparsable \subseteq Strays
  /\ StrayEpochs \subseteq 0..MaxEpoch
  /\ EPOCH_WINDOW \in Nat /\ MAX_PER_EPOCH \in Nat
  /\ MaxEpoch \in Nat /\ MaxPoolChanges \in Nat

Epochs == 0..MaxEpoch
Reveals == Orders \cup Strays
Nonce(r) == IF r \in Orders THEN r ELSE StrayNonce[r]
None == -1

VARIABLES
  (* the chain *)
  epoch_id, expired,    \* the current epoch; has its window passed?
  cancels,              \* a cancellation is folded into it
  home,                 \* the epoch each order is folded into, or None
  pool_version,
  outcome,              \* how each epoch ended, or "open"
  fills_root,           \* the pool state of each clearing of ours, or None
  txs,                  \* the daemon's transactions that are not mined
  (* reveals *)
  label,                \* the epoch on the reveal of each order, while it is
                        \* under way, or None
  (* the daemon's memory *)
  byEpoch, currentEpoch,  \* the queue
  clearingInFlight, cooling,
  watcher, cycle,
  rolling,              \* an auto-roll awaits its close_epoch
  (* its disk *)
  snapshots,            \* per epoch: the pool state of the snapshot, or None
  (* the environment and histories *)
  stable,               \* no more faults
  no_cross,             \* epochs a cycle found nothing to cross in
  complete              \* epochs that expired with exactly their reveals queued,
                        \* and for which no stray was queued since

chainVars == <<epoch_id, expired, cancels, home, pool_version, outcome, fills_root>>
queueVars == <<byEpoch, currentEpoch>>
flagVars == <<clearingInFlight, cooling, rolling>>
historyVars == <<no_cross, complete>>
vars == <<chainVars, txs, label, queueVars, flagVars, watcher, cycle,
          snapshots, stable, historyVars>>

Asleep == [pc |-> "sleep", epoch |-> 0]

\* clock: what the block number read at the start of the cycle tells.
Idle == [pc |-> "idle", clock |-> 0, epoch |-> 0, reveals |-> {}, pools |-> 0]

Init ==
  /\ epoch_id = 0 /\ expired = FALSE /\ cancels = FALSE
  /\ home = [o \in Orders |-> None] /\ label = home
  /\ pool_version = 0 /\ txs = {}
  /\ outcome = [e \in Epochs |-> "open"]
  /\ fills_root = [e \in Epochs |-> None] /\ snapshots = fills_root
  /\ byEpoch = [e \in Epochs |-> {}] /\ currentEpoch = None
  /\ clearingInFlight = FALSE /\ cooling = FALSE /\ rolling = FALSE
  /\ watcher = Asleep /\ cycle = Idle
  /\ stable = FALSE /\ no_cross = {} /\ complete = {}

(***************************************************************************)
(* Reading the chain.                                                      *)

OrdersOf(e) == {o \in Orders : home[o] = e}

\* A block number tells which epochs' windows have passed: those before Clock.
Clock == IF expired THEN epoch_id + 1 ELSE epoch_id

(***************************************************************************)
(* The queue.                                                              *)

Distance(d, e) == IF d > e THEN d - e ELSE e - d

WithinWindow(e) == currentEpoch = None \/ Distance(e, currentEpoch) <= EPOCH_WINDOW

NoncesDiffer(reveals) == \A r, s \in reveals : Nonce(r) = Nonce(s) => r = s

\* One after the other, in any order: a reveal is dropped outside the window,
\* when another one with its nonce is there, or when the epoch is at its cap.
Enqueue(e, reveals) ==
  IF WithinWindow(e)
    THEN \E queue \in SUBSET (byEpoch[e] \cup reveals) :
           /\ byEpoch[e] \subseteq queue
           /\ Cardinality(queue) <= MAX_PER_EPOCH /\ NoncesDiffer(queue)
           /\ \/ Cardinality(queue) = MAX_PER_EPOCH
              \/ \A r \in reveals : \E s \in queue : Nonce(s) = Nonce(r)
           /\ byEpoch' = [byEpoch EXCEPT ![e] = queue]
    ELSE byEpoch' = byEpoch

\* Mutant: what left the window is kept.
WithoutEviction(e) == currentEpoch' = e /\ UNCHANGED byEpoch

SetCurrentEpoch(e) ==
  /\ currentEpoch' = e
  /\ byEpoch' = [d \in Epochs |-> IF Distance(d, e) > EPOCH_WINDOW THEN {} ELSE byEpoch[d]]

(***************************************************************************)
(* The chain, as far as it matters here.                                   *)

\* An epoch ends with outcome how; the next one begins.
EndEpoch(how) ==
  /\ epoch_id' = epoch_id + 1 /\ expired' = FALSE /\ cancels' = FALSE
  /\ outcome' = [outcome EXCEPT ![epoch_id] = how]

\* A close_epoch of the daemon (bonded, so grace is no matter) names no epoch.
CloseTx(sender) == [kind |-> sender, epoch |-> None, pools |-> None]
ClearTx(e, v) == [kind |-> "clear", epoch |-> e, pools |-> v]

Awaited(tx) == cycle.pc = "submitting" /\ tx = ClearTx(cycle.epoch, cycle.pools)

CloseTxs == {CloseTx("roll"), CloseTx("no-cross")}

\* Would tx succeed now?  The proof is bound to the order chain of its epoch,
\* which does not grow once expired, and to the state of the pools.
Valid(tx) ==
  /\ expired
  /\ tx.kind = "clear" => tx.epoch = epoch_id /\ tx.pools = pool_version

\* Clearings of the epoch that nobody awaits: once it is over they cannot
\* succeed and are forgotten.
Void(pending) == {tx \in pending : tx.kind = "clear" /\ ~Awaited(tx)}

\* Blocks pass.  Assumption: what is short is shorter than an epoch, that is a
\* poll, and anything between reading an expired epoch and the end of a
\* close_epoch for it (proving is not short).
EpochExpires ==
  /\ epoch_id < MaxEpoch /\ ~expired
  /\ watcher.pc = "sleep" /\ txs \cap CloseTxs = {}
  /\ cycle.pc \notin {"fee", "pools", "closing"}
  /\ expired' = TRUE
  /\ complete' = IF /\ OrdersOf(epoch_id) # {} /\ ~cancels
                    /\ byEpoch[epoch_id] = OrdersOf(epoch_id)
                    /\ OrdersOf(epoch_id) \cap (Drifted \cup Unroutable) = {}
                   THEN complete \cup {epoch_id} ELSE complete
  /\ UNCHANGED <<epoch_id, cancels, home, pool_version, outcome, fills_root, txs,
                 label, queueVars, flagVars, watcher, cycle, snapshots, stable,
                 no_cross>>

\* A deposit, a withdrawal.
PoolsChange ==
  /\ pool_version < MaxPoolChanges
  /\ pool_version' = pool_version + 1
  /\ UNCHANGED <<epoch_id, expired, cancels, home, outcome, fills_root, txs,
                 label, queueVars, flagVars, watcher, cycle, snapshots, stable,
                 historyVars>>

\* Another aggregator closes the epoch or clears it.  (What that does to the
\* pools could only matter to proofs for the epoch that is over.)
RivalEndsEpoch ==
  /\ expired
  /\ EndEpoch("rival")
  /\ txs' = txs \ Void(txs)
  /\ UNCHANGED <<home, pool_version, fills_root, label, queueVars,
                 flagVars, watcher, cycle, snapshots, stable, historyVars>>

(***************************************************************************)
(* Makers.                                                                 *)

\* submit_order is mined; the client read the epoch id before it proved, maybe
\* in an earlier epoch.  (Bound: no orders in the last epoch, which stays open.)
SubmitOrder(o) ==
  /\ home[o] = None
  /\ ~expired /\ epoch_id < MaxEpoch
  /\ home' = [home EXCEPT ![o] = epoch_id]
  /\ \E e \in 0..epoch_id : label' = [label EXCEPT ![o] = e]
  /\ UNCHANGED <<epoch_id, expired, cancels, pool_version, outcome, fills_root, txs,
                 queueVars, flagVars, watcher, cycle, snapshots, stable,
                 historyVars>>

\* POST /reveal arrives.  A client sends a reveal once.
Reveal(o) ==
  /\ label[o] # None
  /\ label' = [label EXCEPT ![o] = None]
  /\ Enqueue(label[o], {o})
  /\ UNCHANGED <<chainVars, txs, currentEpoch, flagVars, watcher, cycle,
                 snapshots, stable, historyVars>>

\* Anybody posts a reveal that no order matches, for any epoch, any number of
\* times.
StrayArrives(s, e) ==
  /\ Enqueue(e, {s})
  /\ complete' = IF byEpoch' = byEpoch THEN complete ELSE complete \ {e}
  /\ UNCHANGED <<chainVars, txs, label, currentEpoch, flagVars, watcher, cycle,
                 snapshots, stable, no_cross>>

CancellationIsMined ==
  /\ ~expired /\ ~cancels /\ OrdersOf(epoch_id) # {}
  /\ cancels' = TRUE
  /\ UNCHANGED <<epoch_id, expired, home, pool_version, outcome, fills_root, txs,
                 label, queueVars, flagVars, watcher, cycle, snapshots, stable,
                 historyVars>>

(***************************************************************************)
(* The watcher.                                                            *)

PollEpoch ==
  /\ watcher.pc = "sleep"
  /\ watcher' = [pc |-> "decide", epoch |-> epoch_id]
  /\ UNCHANGED <<chainVars, txs, label, queueVars, flagVars, cycle, snapshots,
                 stable, historyVars>>

\* Mutant: reveals of any epoch count (H4).
WholeQueueIsEmpty(e) == e \in Epochs /\ \A d \in Epochs : byEpoch'[d] = {}

\* queue.sizeForEpoch(e) = 0, after setCurrentEpoch.
NothingQueued(e) == byEpoch'[e] = {}

\* Mutant: the auto-roll does not look at the flag (the race of epoch 45).
RollAnyway == clearingInFlight \in BOOLEAN

MayRoll == ~clearingInFlight

\* The block number is read and everything up to the next await is done.
Decide ==
  LET e == watcher.epoch
      is_over == e < Clock
      clears == is_over /\ byEpoch'[e] # {} /\ ~clearingInFlight
      rolls == is_over /\ NothingQueued(e) /\ MayRoll /\ ~cooling IN
  /\ watcher.pc = "decide"
  /\ SetCurrentEpoch(e)
  /\ clearingInFlight' = (clears \/ clearingInFlight)
  /\ cycle' = IF clears THEN [Idle EXCEPT !.pc = "block"] ELSE cycle
  /\ cooling' = (rolls \/ cooling)
  /\ watcher' = IF rolls THEN [watcher EXCEPT !.pc = "fee"] ELSE Asleep
  /\ UNCHANGED <<chainVars, txs, label, rolling, snapshots, stable, historyVars>>

\* The fee payer's balance is too low, or a poll failed.
PollFails ==
  /\ watcher.pc # "sleep" /\ ~stable
  /\ watcher' = Asleep
  /\ UNCHANGED <<chainVars, txs, label, queueVars, flagVars, cycle, snapshots,
                 stable, historyVars>>

RollTakesFlag == clearingInFlight' = TRUE

SendRoll ==
  /\ watcher.pc = "fee"
  /\ watcher' = Asleep
  /\ RollTakesFlag
  /\ rolling' = TRUE
  /\ txs' = txs \cup {CloseTx("roll")}
  /\ UNCHANGED <<chainVars, label, queueVars, cooling, cycle, snapshots, stable,
                 historyVars>>

\* 90 s have passed since the last attempt.
CooldownEnds ==
  /\ cooling
  /\ cooling' = FALSE
  /\ UNCHANGED <<chainVars, txs, label, queueVars, clearingInFlight, rolling,
                 watcher, cycle, snapshots, stable, historyVars>>

(***************************************************************************)
(* The clearing cycle.                                                     *)

EndCycle == cycle' = Idle /\ clearingInFlight' = FALSE

\* Mutant: the drained reveals are forgotten (M2).
ForgetReveals(c) == byEpoch' = [byEpoch EXCEPT ![c.epoch] = @ \ c.reveals]

Requeue(c) == Enqueue(c.epoch, c.reveals)

Throw == EndCycle /\ Requeue(cycle)

CycleReadsBlock ==
  /\ cycle.pc = "block"
  /\ cycle' = [cycle EXCEPT !.pc = "epoch", !.clock = Clock]
  /\ UNCHANGED <<chainVars, txs, label, queueVars, flagVars, watcher, snapshots,
                 stable, historyVars>>

CycleReadsEpoch ==
  LET not_closed == epoch_id >= cycle.clock
      empty_epoch == OrdersOf(epoch_id) = {} /\ \A e \in Epochs : byEpoch[e] = {}
      skips == not_closed \/ empty_epoch \/ cancels IN
  /\ cycle.pc = "epoch"
  /\ \/ skips /\ EndCycle
     \/ /\ ~skips
        /\ cycle' = [cycle EXCEPT !.pc = "fee", !.clock = 0, !.epoch = epoch_id]
        /\ UNCHANGED clearingInFlight
  /\ UNCHANGED <<chainVars, txs, label, queueVars, cooling, rolling, watcher,
                 snapshots, stable, historyVars>>

\* validateReveals and repairReveals: the reveals that can be parsed replay to
\* the order chain.
Replays(e, reveals) ==
  reveals \ Unparsable = OrdersOf(e) /\ reveals \cap Drifted = {}

\* The reveals are drained before they are validated; those that do not
\* replay, and those of an incomplete epoch, are gone.
CycleDrains ==
  LET e == cycle.epoch
      reveals == byEpoch[e] IN
  /\ cycle.pc = "fee"
  /\ byEpoch' = [byEpoch EXCEPT ![e] = {}]
  /\ IF OrdersOf(e) = {} \/ Replays(e, reveals)
       THEN /\ cycle' = [cycle EXCEPT !.pc = "pools", !.reveals = reveals]
            /\ UNCHANGED clearingInFlight
       ELSE EndCycle
  /\ UNCHANGED <<chainVars, txs, label, currentEpoch, cooling, rolling, watcher,
                 snapshots, stable, historyVars>>

\* Of the reveals, those that go into the clearing.
Validated == cycle.reveals \cap OrdersOf(cycle.epoch)

\* nargo execute rejects the witness: so it does at every attempt, as long as
\* the orders and the pools are the same.
Rejected == <<Validated, cycle.pools>> \in Unprovable

\* Low fees, an unreachable node, a failing subprocess.  An order through an
\* unknown pool, or a clearing the circuit rejects, makes every attempt fail.
CycleFails ==
  /\ \/ cycle.pc \in {"block", "epoch", "fee", "pools", "proving"} /\ ~stable
     \/ cycle.pc = "pools" /\ Validated \cap Unroutable # {}
     \/ cycle.pc = "proving" /\ Rejected
  /\ Throw
  /\ UNCHANGED <<chainVars, txs, label, currentEpoch, cooling, rolling, watcher,
                 snapshots, stable, historyVars>>

\* Nothing crosses: the epoch is closed bare, unless the queue was empty.
CycleFindsNoCross ==
  /\ cycle.pc = "pools" /\ Validated \cap Unroutable = {}
  /\ no_cross' = no_cross \cup {cycle.epoch}
  /\ IF cycle.reveals = {}
       THEN EndCycle /\ UNCHANGED txs
       ELSE /\ cycle' = [Idle EXCEPT !.pc = "closing"]
            /\ txs' = txs \cup {CloseTx("no-cross")}
            /\ UNCHANGED clearingInFlight
  /\ UNCHANGED <<chainVars, label, queueVars, cooling, rolling, watcher,
                 snapshots, stable, complete>>

\* The pools are read and the clearing computed.  They are read one after the
\* other; what changes meanwhile makes the proof as stale as what changes later.
CycleComputes ==
  /\ cycle.pc = "pools" /\ Validated # {} /\ Validated \cap Unroutable = {}
  /\ cycle' = [cycle EXCEPT !.pc = "proving", !.pools = pool_version]
  /\ UNCHANGED <<chainVars, txs, label, queueVars, flagVars, watcher, snapshots,
                 stable, historyVars>>

\* Mutant: a snapshot that cannot be written is only logged (M4).
SubmitAnyway(written) == written \in BOOLEAN

MaySubmit(written) == written

\* The proof is there: write the snapshot, then submit.
CycleSubmits(written) ==
  /\ cycle.pc = "proving" /\ ~Rejected
  /\ written \/ ~stable
  /\ snapshots' = IF written THEN [snapshots EXCEPT ![cycle.epoch] = cycle.pools]
                             ELSE snapshots
  /\ IF MaySubmit(written)
       THEN /\ cycle' = [cycle EXCEPT !.pc = "submitting"]
            /\ txs' = txs \cup {ClearTx(cycle.epoch, cycle.pools)}
            /\ UNCHANGED <<clearingInFlight, byEpoch>>
       ELSE Throw /\ UNCHANGED txs
  /\ UNCHANGED <<chainVars, label, currentEpoch, cooling, rolling, watcher,
                 stable, historyVars>>

(***************************************************************************)
(* Transactions.  The sender awaits its transaction; the answer may be     *)
(* lost (a request to the node fails) while the transaction is pending.    *)

\* What awaits tx goes on; a cycle whose clearing failed throws.
Answer(tx, ok) ==
  LET roll == tx.kind = "roll" /\ rolling
      close == tx.kind = "no-cross" /\ cycle.pc = "closing"
      clear == Awaited(tx) IN
  /\ rolling' = (rolling /\ ~roll)
  /\ IF roll \/ close \/ clear THEN clearingInFlight' = FALSE ELSE UNCHANGED clearingInFlight
  /\ cycle' = IF close \/ clear THEN Idle ELSE cycle
  /\ IF clear /\ ~ok THEN Requeue(cycle) ELSE UNCHANGED byEpoch

TxIsMined(tx) ==
  /\ Valid(tx)
  /\ txs' = txs \ (Void(txs) \cup {tx})
  /\ IF tx.kind = "clear"
       THEN /\ EndEpoch("cleared")
            /\ fills_root' = [fills_root EXCEPT ![epoch_id] = tx.pools]
            /\ pool_version' = pool_version + 1
       ELSE EndEpoch("closed") /\ UNCHANGED <<fills_root, pool_version>>
  /\ Answer(tx, TRUE)
  /\ UNCHANGED <<home, label, currentEpoch, cooling, watcher, snapshots, stable,
                 historyVars>>

\* It reverts, or is dropped.
TxFails(tx) ==
  /\ ~Valid(tx) \/ ~stable
  /\ txs' = txs \ {tx}
  /\ Answer(tx, FALSE)
  /\ UNCHANGED <<chainVars, label, currentEpoch, cooling, watcher, snapshots,
                 stable, historyVars>>

AnswerIsLost(tx) ==
  /\ ~stable
  /\ Answer(tx, FALSE)
  /\ UNCHANGED <<chainVars, txs, label, currentEpoch, cooling, watcher, snapshots,
                 stable, historyVars>>

(***************************************************************************)
(* Faults.                                                                 *)

Crash ==
  /\ ~stable
  /\ byEpoch' = [e \in Epochs |-> {}] /\ currentEpoch' = None
  /\ clearingInFlight' = FALSE /\ cooling' = FALSE /\ rolling' = FALSE
  /\ watcher' = Asleep /\ cycle' = Idle
  /\ complete' = {}
  /\ UNCHANGED <<chainVars, txs, label, snapshots, stable, no_cross>>

FaultsEnd ==
  /\ ~stable
  /\ stable' = TRUE
  /\ UNCHANGED <<chainVars, txs, label, queueVars, flagVars, watcher, cycle,
                 snapshots, historyVars>>

Environment ==
  \/ EpochExpires \/ PoolsChange \/ RivalEndsEpoch \/ CancellationIsMined
  \/ \E o \in Orders : SubmitOrder(o) \/ Reveal(o)
  \/ \E s \in Strays, e \in StrayEpochs : StrayArrives(s, e)
  \/ Crash

Watcher == PollEpoch \/ Decide \/ SendRoll

Cycle ==
  \/ CycleReadsBlock \/ CycleReadsEpoch \/ CycleDrains
  \/ CycleFindsNoCross \/ CycleComputes
  \/ \E written \in BOOLEAN : CycleSubmits(written)

Failure == PollFails \/ CycleFails \/ \E tx \in txs : AnswerIsLost(tx)

Inclusion == \E tx \in txs : TxIsMined(tx) \/ TxFails(tx)

Next ==
  \/ Environment \/ Watcher \/ Cycle \/ Failure \/ Inclusion
  \/ CooldownEnds \/ FaultsEnd

\* The daemon goes on, transactions are answered, and faults end some day:
\* the fee payer is topped up, the node reachable, the prover works.  Nothing
\* is assumed of makers, of the rival or of the passing of epochs.
Fairness ==
  /\ WF_vars(Watcher) /\ WF_vars(Cycle \/ CycleFails) /\ WF_vars(Inclusion)
  /\ WF_vars(CooldownEnds) /\ WF_vars(FaultsEnd)

Spec == Init /\ [][Next]_vars /\ Fairness

(***************************************************************************)
(* Properties.                                                             *)

Watchers == [pc : {"sleep", "decide", "fee"}, epoch : Epochs]

Cycles ==
  [pc : {"idle", "block", "epoch", "fee", "pools", "closing", "proving", "submitting"},
   clock : 0..(MaxEpoch + 1), epoch : Epochs, reveals : SUBSET Reveals, pools : Nat]

TypeOK ==
  /\ epoch_id \in Epochs /\ expired \in BOOLEAN /\ cancels \in BOOLEAN
  /\ home \in [Orders -> Epochs \cup {None}]
  /\ label \in [Orders -> Epochs \cup {None}]
  /\ pool_version \in 0..(MaxPoolChanges + MaxEpoch)
  /\ outcome \in [Epochs -> {"open", "closed", "cleared", "rival"}]
  /\ fills_root \in [Epochs -> Nat \cup {None}]
  /\ snapshots \in [Epochs -> Nat \cup {None}]
  /\ \A tx \in txs : tx \in CloseTxs \/ \E e \in Epochs : tx = ClearTx(e, tx.pools)
  /\ byEpoch \in [Epochs -> SUBSET Reveals]
  /\ \A e \in Epochs : Cardinality(byEpoch[e]) <= MAX_PER_EPOCH /\ NoncesDiffer(byEpoch[e])
  /\ \A e \in Epochs : byEpoch[e] # {} => WithinWindow(e)
  /\ currentEpoch \in Epochs \cup {None}
  /\ clearingInFlight \in BOOLEAN /\ cooling \in BOOLEAN /\ rolling \in BOOLEAN
  /\ watcher \in Watchers /\ cycle \in Cycles
  /\ stable \in BOOLEAN /\ no_cross \subseteq Epochs /\ complete \subseteq Epochs

\* M5: an auto-roll (from its decision on, across the fee check) and a clearing
\* cycle never overlap, in either direction, and a cycle never loses the flag
\* that keeps a second one out.
RollsAndCyclesExclude ==
  /\ (rolling \/ watcher.pc = "fee") => cycle.pc = "idle"
  /\ (rolling \/ cycle.pc # "idle") => clearingInFlight

\* The reveals the daemon holds for an epoch: queued, or drained by the cycle.
Held(e) == byEpoch[e] \cup (IF cycle.epoch = e THEN cycle.reveals ELSE {})

\* M2: while the daemon holds the reveals of all orders of the expired epoch and
\* no stray for it, no failure of a cycle, no lost answer, eviction or re-enqueue
\* at the cap makes it lose a reveal before the epoch ends; only a restart does,
\* or a clearing that crosses nothing.  The exception is real: with one stray
\* queued, the next drain does not replay and all that was drained is gone, and
\* what a cycle puts back may find its nonce taken or the queue at its cap.
MatchingRevealsSurvive ==
  [][\A e \in Epochs :
       (/\ expired /\ epoch_id = e /\ epoch_id' = e
        /\ OrdersOf(e) # {} /\ Replays(e, Held(e)) /\ Held(e) \cap Strays = {}
        /\ e \notin no_cross' /\ ~Crash)
       => Held(e) \subseteq Held(e)']_vars

\* M4: an epoch of ours with a root has a snapshot: the daemon never submits
\* what makers could not claim from.
OwnRootsHaveSnapshots ==
  \A e \in Epochs : fills_root[e] # None => snapshots[e] # None

\* What the comment above writeHopSnapshot says: the snapshot is of the SAME
\* tree whose root was committed on-chain.
SnapshotsProveRoots ==
  \A e \in Epochs : fills_root[e] # None => snapshots[e] = fills_root[e]

\* The three ways in which the daemon alone cannot get past an epoch: cancels are
\* not supported by the cycle and reveals keep the auto-roll away; a reveal
\* makes every cycle throw, and is queued again; or so does a clearing of the
\* reveals on the pools as they are, because the circuit rejects it.
Wedged(e) ==
  \/ cancels /\ byEpoch[e] # {}
  \/ Held(e) \cap Unroutable # {}
  \/ <<Held(e) \cap OrdersOf(e), pool_version>> \in Unprovable

\* The keep-alive: an expired epoch ends, whoever is active, unless it is wedged
\* for ever or strays for it are queued again and again, each keeping the
\* auto-roll away; reveals left over from other epochs do not matter (H4).
ExpiredEpochsEnd ==
  \A e \in 0..(MaxEpoch - 1) :
    <>[](epoch_id = e /\ expired)
      => \/ <>[]Wedged(e)
         \/ []<><<\E s \in Strays : StrayArrives(s, e)>>_vars

\* An epoch all of whose reveals, and only they, were queued when it expired is
\* never rolled away by the daemon itself, whatever fails and is retried (epoch
\* 45): it ends bare only after a cycle found nothing to cross.  A restart loses
\* the reveals, and with them the promise; so may a stray queued for the epoch
\* before it ends: the next drain does not replay, and an empty queue is rolled.
CompleteEpochsAreNotRolled ==
  \A e \in complete : outcome[e] = "closed" => e \in no_cross

=============================================================================
