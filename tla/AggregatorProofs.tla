-------------------------- MODULE AggregatorProofs --------------------------
(* Theorems about Aggregator, for every value of its constants. *)
EXTENDS Aggregator, FiniteSetTheorems, TLAPS

-----------------------------------------------------------------------------
(* The queue.                                                               *)

QueueInv ==
  /\ byEpoch \in [Epochs -> SUBSET Reveals]
  /\ currentEpoch \in Epochs \cup {None}
  /\ \A e \in Epochs : /\ IsFiniteSet(byEpoch[e])
                       /\ Cardinality(byEpoch[e]) <= MAX_PER_EPOCH
                       /\ NoncesDiffer(byEpoch[e])
                       /\ byEpoch[e] # {} => WithinWindow(e)

\* What RevealQueue.enqueue promises: it takes nothing out, puts nothing else
\* in, leaves other epochs alone and respects window and cap; and within the
\* window and the cap it loses nothing but what shares a nonce.
LEMMA EnqueueQueues ==
  ASSUME QueueInv, NEW e \in Epochs, NEW R \in SUBSET Reveals, IsFiniteSet(R),
         Enqueue(e, R), UNCHANGED currentEpoch
  PROVE  /\ QueueInv'
         /\ byEpoch[e] \subseteq byEpoch'[e]
         /\ byEpoch'[e] \subseteq byEpoch[e] \cup R
         /\ \A d \in Epochs \ {e} : byEpoch'[d] = byEpoch[d]
         /\ (/\ WithinWindow(e) /\ Cardinality(byEpoch[e] \cup R) <= MAX_PER_EPOCH
             /\ NoncesDiffer(byEpoch[e] \cup R))
              => byEpoch'[e] = byEpoch[e] \cup R
<1>1. CASE ~WithinWindow(e)
  BY <1>1 DEF QueueInv, Enqueue, WithinWindow
<1>2. CASE WithinWindow(e)
  <2>1. PICK queue \in SUBSET (byEpoch[e] \cup R) :
          /\ byEpoch[e] \subseteq queue
          /\ Cardinality(queue) <= MAX_PER_EPOCH /\ NoncesDiffer(queue)
          /\ \/ Cardinality(queue) = MAX_PER_EPOCH
             \/ \A r \in R : \E s \in queue : Nonce(s) = Nonce(r)
          /\ byEpoch' = [byEpoch EXCEPT ![e] = queue]
    BY <1>2 DEF Enqueue
  <2>2. /\ byEpoch'[e] = queue
        /\ \A d \in Epochs \ {e} : byEpoch'[d] = byEpoch[d]
        /\ byEpoch' \in [Epochs -> SUBSET Reveals]
    BY <2>1 DEF QueueInv
  <2>3. IsFiniteSet(byEpoch[e] \cup R) /\ IsFiniteSet(queue)
    BY <2>1, FS_Subset, FS_Union DEF QueueInv
  <2>4. QueueInv'
    <3>1. ASSUME NEW d \in Epochs
          PROVE  /\ IsFiniteSet(byEpoch'[d])
                 /\ Cardinality(byEpoch'[d]) <= MAX_PER_EPOCH
                 /\ NoncesDiffer(byEpoch'[d])
                 /\ byEpoch'[d] # {} => WithinWindow(d)'
      <4>1. CASE d = e
        BY <1>2, <2>1, <2>2, <2>3, <4>1 DEF WithinWindow
      <4>2. CASE d # e
        BY <2>2, <4>2 DEF QueueInv, WithinWindow
      <4> QED BY <4>1, <4>2
    <3> QED BY <2>2, <3>1 DEF QueueInv, NoncesDiffer
  <2>5. ASSUME Cardinality(byEpoch[e] \cup R) <= MAX_PER_EPOCH, NoncesDiffer(byEpoch[e] \cup R)
        PROVE  queue = byEpoch[e] \cup R
    <3>1. CASE \A r \in R : \E s \in queue : Nonce(s) = Nonce(r)
      BY <3>1, <2>1, <2>5 DEF NoncesDiffer
    <3>2. CASE Cardinality(queue) = MAX_PER_EPOCH
      <4>1. /\ Cardinality(queue) <= Cardinality(byEpoch[e] \cup R)
            /\ Cardinality(byEpoch[e] \cup R) = Cardinality(queue) => byEpoch[e] \cup R = queue
            /\ Cardinality(byEpoch[e] \cup R) \in Nat
        BY <2>1, <2>3, FS_Subset, FS_CardinalityType
      <4> QED BY <4>1, <3>2, <2>5, AggregatorConstants
    <3> QED BY <3>1, <3>2, <2>1
  <2> QED BY <2>1, <2>2, <2>4, <2>5
<1> QED BY <1>1, <1>2

\* The reveals of orders have nonces of their own.
LEMMA OrdersNoncesDiffer == \A R \in SUBSET Orders : NoncesDiffer(R)
  BY DEF NoncesDiffer, Nonce

\* setCurrentEpoch evicts what is outside the new window, and nothing else.
LEMMA SetCurrentEpochEvicts ==
  ASSUME QueueInv, NEW e \in Epochs, SetCurrentEpoch(e)
  PROVE  QueueInv' /\ byEpoch'[e] = byEpoch[e]
<1>1. \A d \in Epochs : byEpoch'[d] = (IF Distance(d, e) > EPOCH_WINDOW THEN {} ELSE byEpoch[d])
  BY DEF SetCurrentEpoch, QueueInv
<1>2. byEpoch' \in [Epochs -> SUBSET Reveals] /\ currentEpoch' \in Epochs \cup {None}
  BY DEF SetCurrentEpoch, QueueInv
<1>3. Distance(e, e) = 0
  BY DEF Distance, Epochs
<1>4. byEpoch'[e] = byEpoch[e]
  BY <1>1, <1>3, AggregatorConstants
<1>5. ASSUME NEW d \in Epochs
      PROVE  /\ IsFiniteSet(byEpoch'[d])
             /\ Cardinality(byEpoch'[d]) <= MAX_PER_EPOCH
             /\ NoncesDiffer(byEpoch'[d])
             /\ byEpoch'[d] # {} => WithinWindow(d)'
  <2>1. byEpoch'[d] # {} => WithinWindow(d)'
    <3> HAVE byEpoch'[d] # {}
    <3>1. ~(Distance(d, e) > EPOCH_WINDOW)
      BY <1>1
    <3>2. Distance(d, e) \in Int
      BY DEF Distance, Epochs
    <3> QED BY <3>1, <3>2, AggregatorConstants DEF WithinWindow, SetCurrentEpoch, Distance
  <2> QED BY <1>1, <2>1, FS_EmptySet, AggregatorConstants DEF QueueInv, NoncesDiffer
<1> QED BY <1>2, <1>4, <1>5 DEF QueueInv, NoncesDiffer

-----------------------------------------------------------------------------
(* Types.                                                                   *)

\* The process, and what makers have under way.  Only a cycle past its drain
\* holds reveals.
ProcessInv ==
  /\ clearingInFlight \in BOOLEAN /\ cooling \in BOOLEAN /\ rolling \in BOOLEAN
  /\ watcher \in Watchers /\ cycle \in Cycles /\ stable \in BOOLEAN
  /\ IsFiniteSet(cycle.reveals) /\ Cardinality(cycle.reveals) <= MAX_PER_EPOCH
  /\ cycle.pc \notin {"pools", "proving", "submitting"} => cycle.reveals = {}
  /\ home \in [Orders -> Epochs \cup {None}]
  /\ label \in [Orders -> Epochs \cup {None}]

\* The chain, the transactions and the disk.  The last epoch does not expire;
\* every epoch changes the pools at most once.
ChainInv ==
  /\ epoch_id \in Epochs /\ expired \in BOOLEAN /\ cancels \in BOOLEAN
  /\ expired => epoch_id < MaxEpoch
  /\ pool_version \in Nat /\ pool_version <= MaxPoolChanges + epoch_id
  /\ outcome \in [Epochs -> {"open", "closed", "cleared", "rival"}]
  /\ fills_root \in [Epochs -> Nat \cup {None}]
  /\ snapshots \in [Epochs -> Nat \cup {None}]
  /\ \A tx \in txs : tx \in CloseTxs \/ \E e \in Epochs : tx = ClearTx(e, tx.pools)
  /\ no_cross \subseteq Epochs /\ complete \subseteq Epochs

TypeInv == QueueInv /\ ProcessInv /\ ChainInv

\* The daemon starts with an empty queue and nothing under way.
LEMMA TypeInit == Init => TypeInv
<1> SUFFICES ASSUME Init PROVE TypeInv
  OBVIOUS
<1> USE AggregatorConstants DEF Init, Epochs, None
<1>1. QueueInv
  BY FS_EmptySet DEF QueueInv, NoncesDiffer
<1>2. ProcessInv
  <2>1. /\ cycle.reveals = {} /\ cycle \in Cycles /\ watcher \in Watchers
    BY DEF Asleep, Idle, Watchers, Cycles
  <2>2. home \in [Orders -> Epochs \cup {None}] /\ label = home
    BY DEF Init
  <2>3. IsFiniteSet(cycle.reveals) /\ Cardinality(cycle.reveals) <= MAX_PER_EPOCH
    BY <2>1, FS_EmptySet
  <2> QED BY <2>1, <2>2, <2>3 DEF ProcessInv
<1>3. ChainInv
  <2>1. /\ outcome \in [Epochs -> {"open", "closed", "cleared", "rival"}]
        /\ fills_root \in [Epochs -> Nat \cup {None}]
        /\ snapshots \in [Epochs -> Nat \cup {None}]
    OBVIOUS
  <2>2. /\ epoch_id \in Epochs
        /\ pool_version \in Nat /\ pool_version <= MaxPoolChanges + epoch_id
    OBVIOUS
  <2> QED BY <2>1, <2>2 DEF ChainInv
<1> QED BY <1>1, <1>2, <1>3 DEF TypeInv

\* What a requeue does: it is an enqueue of the cycle's reveals.
LEMMA RequeueQueues ==
  ASSUME TypeInv, Requeue(cycle), UNCHANGED currentEpoch
  PROVE  QueueInv'
<1>1. /\ cycle.epoch \in Epochs
      /\ cycle.reveals \in SUBSET Reveals
      /\ IsFiniteSet(cycle.reveals)
  BY DEF TypeInv, ProcessInv, Cycles
<1> QED BY <1>1, EnqueueQueues DEF TypeInv, Requeue

\* Every step keeps the queue within its bounds.
LEMMA QueueStep ==
  ASSUME TypeInv, [Next]_vars
  PROVE  QueueInv'
<1> USE DEF TypeInv
<1>1. CASE UNCHANGED queueVars
  BY <1>1 DEF queueVars, QueueInv, WithinWindow, NoncesDiffer
<1>2. ASSUME NEW o \in Orders, Reveal(o)
      PROVE  QueueInv'
  <2>1. label[o] \in Epochs /\ IsFiniteSet({o}) /\ {o} \in SUBSET Reveals
    BY <1>2, FS_Singleton DEF ProcessInv, Reveal, Reveals
  <2> QED BY <1>2, <2>1, EnqueueQueues DEF Reveal
<1>12. ASSUME NEW s \in Strays, NEW d \in StrayEpochs, StrayArrives(s, d)
       PROVE  QueueInv'
  <2>1. d \in Epochs /\ IsFiniteSet({s}) /\ {s} \in SUBSET Reveals
    BY FS_Singleton, AggregatorConstants DEF Epochs, Reveals
  <2>2. Enqueue(d, {s}) /\ UNCHANGED currentEpoch
    BY <1>12 DEF StrayArrives
  <2> QED BY <2>1, <2>2, EnqueueQueues
<1>3. CASE Decide
  <2>1. watcher.epoch \in Epochs
    BY DEF ProcessInv, Watchers
  <2> QED BY <1>3, <2>1, SetCurrentEpochEvicts DEF Decide
<1>4. CASE CycleDrains
  <2>1. /\ byEpoch' = [byEpoch EXCEPT ![cycle.epoch] = {}]
        /\ currentEpoch' = currentEpoch
    BY <1>4 DEF CycleDrains
  <2>2. byEpoch' \in [Epochs -> SUBSET Reveals]
    BY <2>1 DEF QueueInv
  <2>3. \A d \in Epochs : byEpoch'[d] = byEpoch[d] \/ byEpoch'[d] = {}
    BY <2>1 DEF QueueInv
  <2> QED
    BY <2>1, <2>2, <2>3, FS_EmptySet, AggregatorConstants DEF QueueInv, WithinWindow, NoncesDiffer
<1>5. CASE CycleFails
  BY <1>5, RequeueQueues DEF CycleFails, Throw
<1>6. ASSUME NEW written \in BOOLEAN, CycleSubmits(written)
      PROVE  QueueInv'
  <2>1. CASE UNCHANGED byEpoch
    BY <2>1, <1>6, <1>1 DEF CycleSubmits, queueVars
  <2>2. CASE Throw
    BY <2>2, <1>6, RequeueQueues DEF CycleSubmits, Throw
  <2> QED BY <2>1, <2>2, <1>6 DEF CycleSubmits
<1>7. ASSUME NEW tx \in txs, NEW ok \in BOOLEAN, Answer(tx, ok), UNCHANGED currentEpoch
      PROVE  QueueInv'
  <2>1. CASE UNCHANGED byEpoch
    BY <2>1, <1>7, <1>1 DEF queueVars
  <2>2. CASE Requeue(cycle)
    BY <2>2, <1>7, RequeueQueues
  <2> QED BY <2>1, <2>2, <1>7 DEF Answer
<1>8. ASSUME NEW tx \in txs, TxIsMined(tx) \/ TxFails(tx) \/ AnswerIsLost(tx)
      PROVE  QueueInv'
  BY <1>7, <1>8 DEF TxIsMined, TxFails, AnswerIsLost
<1>9. CASE Crash
  <2>1. byEpoch' = [e \in Epochs |-> {}] /\ currentEpoch' = None
    BY <1>9 DEF Crash
  <2> QED BY <2>1, FS_EmptySet, AggregatorConstants DEF QueueInv, NoncesDiffer
<1>10. CASE \/ EpochExpires \/ PoolsChange \/ RivalEndsEpoch \/ CancellationIsMined
            \/ (\E o \in Orders : SubmitOrder(o))
            \/ PollEpoch \/ PollFails \/ SendRoll \/ CooldownEnds \/ FaultsEnd
            \/ CycleReadsBlock \/ CycleReadsEpoch \/ CycleFindsNoCross \/ CycleComputes
  BY <1>10, <1>1 DEF EpochExpires, PoolsChange, RivalEndsEpoch, CancellationIsMined,
     SubmitOrder, PollEpoch, PollFails, SendRoll, CooldownEnds, FaultsEnd, CycleReadsBlock,
     CycleReadsEpoch, CycleFindsNoCross, CycleComputes
<1>11. CASE UNCHANGED vars
  BY <1>11, <1>1 DEF vars
<1> QED
  BY <1>2, <1>3, <1>4, <1>5, <1>6, <1>8, <1>9, <1>10, <1>11, <1>12
  DEF Next, Environment, Watcher, Cycle, Failure, Inclusion

\* A step of the watcher or of a cycle goes from one of its states to another.
LEMMA ProcessStep ==
  ASSUME TypeInv, [Next]_vars
  PROVE  ProcessInv'
<1> USE AggregatorConstants DEF TypeInv
<1>0. /\ Idle \in Cycles /\ Idle.reveals = {} /\ Asleep \in Watchers
      /\ IsFiniteSet({}) /\ Cardinality({}) = 0 /\ Clock \in 0..(MaxEpoch + 1)
  BY FS_EmptySet DEF Idle, Asleep, Cycles, Watchers, Epochs, ChainInv, Clock
<1>1. ASSUME UNCHANGED <<home, label, flagVars, watcher, cycle, stable>>
      PROVE  ProcessInv'
  BY <1>1 DEF ProcessInv, flagVars
<1>a. ASSUME /\ clearingInFlight' \in BOOLEAN /\ cooling' \in BOOLEAN /\ rolling' \in BOOLEAN
             /\ watcher' \in Watchers /\ cycle' \in Cycles /\ stable' \in BOOLEAN,
             cycle'.reveals = {}, UNCHANGED <<home, label>>
      PROVE  ProcessInv'
  <2>1. IsFiniteSet(cycle'.reveals) /\ Cardinality(cycle'.reveals) <= MAX_PER_EPOCH
    BY <1>0, <1>a
  <2> QED BY <1>a, <2>1 DEF ProcessInv
<1>2. CASE \/ EpochExpires \/ PoolsChange \/ RivalEndsEpoch \/ CancellationIsMined
           \/ (\E s \in Strays, d \in StrayEpochs : StrayArrives(s, d))
           \/ UNCHANGED vars
  BY <1>1, <1>2 DEF EpochExpires, PoolsChange, RivalEndsEpoch, CancellationIsMined,
     StrayArrives, vars, chainVars
<1>3. ASSUME NEW o \in Orders, SubmitOrder(o) \/ Reveal(o)
      PROVE  ProcessInv'
  <2>1. UNCHANGED <<flagVars, watcher, cycle, stable>>
    BY <1>3 DEF SubmitOrder, Reveal
  <2>2. \A e \in 0..epoch_id : e \in Epochs
    BY DEF ChainInv, Epochs
  <2>3. /\ home' \in [Orders -> Epochs \cup {None}]
        /\ label' \in [Orders -> Epochs \cup {None}]
    BY <1>3, <2>2 DEF SubmitOrder, Reveal, ProcessInv, ChainInv, chainVars
  <2> QED BY <2>1, <2>3 DEF ProcessInv, flagVars
<1>4. CASE PollEpoch
  BY <1>4 DEF PollEpoch, ProcessInv, ChainInv, Watchers, flagVars, chainVars
<1>5. CASE Decide
  <2>1. /\ clearingInFlight' \in BOOLEAN /\ cooling' \in BOOLEAN
        /\ UNCHANGED <<home, label, rolling, stable>>
    BY <1>5 DEF Decide, ProcessInv, chainVars
  <2>2. watcher' \in Watchers
    BY <1>5, <1>0 DEF Decide, ProcessInv, Watchers
  <2>3. cycle' \in {[Idle EXCEPT !.pc = "block"], cycle}
    BY <1>5 DEF Decide
  <2>4. /\ [Idle EXCEPT !.pc = "block"] \in Cycles
        /\ [Idle EXCEPT !.pc = "block"].reveals = {}
    BY <1>0 DEF Idle, Cycles
  <2>5. CASE cycle' = cycle
    BY <2>1, <2>2, <2>5 DEF ProcessInv
  <2>6. CASE cycle' = [Idle EXCEPT !.pc = "block"]
    BY <2>1, <2>2, <2>4, <2>6, <1>a DEF ProcessInv
  <2> QED BY <2>3, <2>5, <2>6
<1>6. CASE PollFails \/ SendRoll
  <2>1. UNCHANGED <<home, label, cooling, cycle, stable>> /\ watcher' = Asleep
    BY <1>6 DEF PollFails, SendRoll, chainVars, flagVars
  <2>2. clearingInFlight' \in BOOLEAN /\ rolling' \in BOOLEAN
    BY <1>6 DEF PollFails, SendRoll, RollTakesFlag, flagVars, ProcessInv
  <2> QED BY <1>0, <2>1, <2>2 DEF ProcessInv
<1>7. CASE CooldownEnds \/ FaultsEnd
  BY <1>7 DEF CooldownEnds, FaultsEnd, ProcessInv, chainVars, flagVars
<1>8. ASSUME EndCycle, UNCHANGED <<home, label, cooling, rolling, watcher, stable>>
      PROVE  ProcessInv'
  BY <1>0, <1>8, <1>a DEF EndCycle, ProcessInv
<1>9. ASSUME cycle' \in Cycles, clearingInFlight' = clearingInFlight,
             UNCHANGED <<home, label, cooling, rolling, watcher, stable>>,
             cycle'.reveals = cycle.reveals,
             \/ cycle'.reveals = {}
             \/ cycle'.pc \in {"pools", "proving", "submitting"}
      PROVE  ProcessInv'
  BY <1>9 DEF ProcessInv
<1>10. CASE CycleReadsBlock
  BY <1>0, <1>9, <1>10 DEF CycleReadsBlock, ProcessInv, Cycles, chainVars, flagVars
<1>11. CASE CycleReadsEpoch
  <2>1. UNCHANGED <<home, label, cooling, rolling, watcher, stable>>
    BY <1>11 DEF CycleReadsEpoch, chainVars
  <2>2. CASE EndCycle
    BY <2>1, <2>2, <1>8
  <2>3. CASE /\ cycle' = [cycle EXCEPT !.pc = "fee", !.clock = 0, !.epoch = epoch_id]
             /\ UNCHANGED clearingInFlight
    <3>1. cycle.reveals = {}
      BY <1>11 DEF CycleReadsEpoch, ProcessInv
    <3>2. cycle' \in Cycles /\ cycle'.reveals = cycle.reveals
      <4>1. epoch_id \in Epochs /\ 0 \in 0..(MaxEpoch + 1)
        BY DEF ChainInv
      <4> QED BY <4>1, <2>3 DEF ProcessInv, Cycles
    <3> QED BY <2>1, <2>3, <3>1, <3>2, <1>9
  <2> QED BY <2>2, <2>3, <1>11 DEF CycleReadsEpoch
<1>12. CASE CycleDrains
  <2>1. UNCHANGED <<home, label, cooling, rolling, watcher, stable>>
    BY <1>12 DEF CycleDrains, chainVars
  <2>2. CASE EndCycle
    BY <2>1, <2>2, <1>8
  <2>3. CASE /\ cycle' = [cycle EXCEPT !.pc = "pools", !.reveals = byEpoch[cycle.epoch]]
             /\ UNCHANGED clearingInFlight
    <3>1. cycle.epoch \in Epochs
      BY DEF ProcessInv, Cycles
    <3>2. cycle' \in Cycles /\ cycle'.reveals = byEpoch[cycle.epoch] /\ cycle'.pc = "pools"
      BY <2>3, <3>1 DEF ProcessInv, QueueInv, Cycles
    <3> QED BY <2>1, <2>3, <3>1, <3>2 DEF ProcessInv, QueueInv
  <2> QED BY <2>2, <2>3, <1>12 DEF CycleDrains
<1>13. CASE CycleFails
  BY <1>13, <1>8 DEF CycleFails, Throw, chainVars
<1>14. CASE CycleFindsNoCross
  <2>1. UNCHANGED <<home, label, cooling, rolling, watcher, stable>>
    BY <1>14 DEF CycleFindsNoCross, chainVars
  <2>2. CASE EndCycle
    BY <2>1, <2>2, <1>8
  <2>3. CASE cycle' = [Idle EXCEPT !.pc = "closing"] /\ UNCHANGED clearingInFlight
    <3>1. cycle' \in Cycles /\ cycle'.reveals = {}
      BY <2>3, <1>0 DEF Idle, Cycles
    <3> QED BY <2>1, <2>3, <3>1, <1>a DEF ProcessInv
  <2> QED BY <2>2, <2>3, <1>14 DEF CycleFindsNoCross
<1>15. CASE CycleComputes
  BY <1>9, <1>15 DEF CycleComputes, ProcessInv, ChainInv, Cycles, chainVars, flagVars
<1>16. ASSUME NEW written \in BOOLEAN, CycleSubmits(written)
       PROVE  ProcessInv'
  <2>1. UNCHANGED <<home, label, cooling, rolling, watcher, stable>>
    BY <1>16 DEF CycleSubmits, chainVars
  <2>2. CASE Throw
    BY <2>1, <2>2, <1>8 DEF Throw
  <2>3. CASE cycle' = [cycle EXCEPT !.pc = "submitting"] /\ UNCHANGED clearingInFlight
    BY <2>1, <2>3, <1>9 DEF ProcessInv, Cycles
  <2> QED BY <2>2, <2>3, <1>16 DEF CycleSubmits
<1>17. ASSUME NEW tx \in txs, NEW ok \in BOOLEAN, Answer(tx, ok),
              UNCHANGED <<home, label, cooling, watcher, stable>>
       PROVE  ProcessInv'
  <2>1. /\ clearingInFlight' \in BOOLEAN /\ rolling' \in BOOLEAN
        /\ cycle' = Idle \/ cycle' = cycle
    BY <1>17 DEF Answer, ProcessInv
  <2>2. CASE cycle' = Idle
    <3>1. cycle'.reveals = {} /\ cycle' \in Cycles
      BY <1>0, <2>2
    <3>2. watcher' \in Watchers /\ cooling' \in BOOLEAN /\ stable' \in BOOLEAN
      BY <1>17 DEF ProcessInv
    <3> QED BY <1>17, <2>1, <3>1, <3>2, <1>a
  <2>3. CASE cycle' = cycle
    BY <1>17, <2>1, <2>3 DEF ProcessInv
  <2> QED BY <2>1, <2>2, <2>3
<1>18. ASSUME NEW tx \in txs, TxIsMined(tx) \/ TxFails(tx) \/ AnswerIsLost(tx)
       PROVE  ProcessInv'
  BY <1>17, <1>18 DEF TxIsMined, TxFails, AnswerIsLost, chainVars
<1>19. CASE Crash
  BY <1>19, <1>0, <1>a DEF Crash, ProcessInv, chainVars
<1> QED
  BY <1>2, <1>3, <1>4, <1>5, <1>6, <1>7, <1>10, <1>11, <1>12, <1>13, <1>14, <1>15, <1>16,
     <1>18, <1>19 DEF Next, Environment, Watcher, Cycle, Failure, Inclusion

\* An epoch that ends is followed by one that has not expired.
LEMMA EndEpochAdvances ==
  ASSUME ChainInv, expired, NEW how \in {"closed", "cleared", "rival"}, EndEpoch(how)
  PROVE  /\ epoch_id' \in Epochs /\ epoch_id' = epoch_id + 1
         /\ expired' = FALSE /\ cancels' = FALSE
         /\ outcome' \in [Epochs -> {"open", "closed", "cleared", "rival"}]
<1>1. epoch_id \in Nat /\ epoch_id < MaxEpoch
  BY AggregatorConstants DEF ChainInv, Epochs
<1>2. epoch_id' = epoch_id + 1 /\ expired' = FALSE /\ cancels' = FALSE
  BY DEF EndEpoch
<1>3. epoch_id' \in Epochs
  BY <1>1, <1>2, AggregatorConstants DEF Epochs
<1>4. outcome' \in [Epochs -> {"open", "closed", "cleared", "rival"}]
  BY DEF EndEpoch, ChainInv
<1> QED BY <1>2, <1>3, <1>4

\* Every step keeps the types of the chain and the bound on pool states.
LEMMA ChainStep ==
  ASSUME TypeInv, [Next]_vars
  PROVE  ChainInv'
<1> USE AggregatorConstants DEF TypeInv
<1>1. ASSUME UNCHANGED <<epoch_id, expired, cancels, pool_version, outcome, fills_root,
                         snapshots, txs, historyVars>>
      PROVE  ChainInv'
  BY <1>1 DEF ChainInv, historyVars
<1>2. CASE \/ (\E o \in Orders : SubmitOrder(o) \/ Reveal(o))
           \/ PollEpoch \/ Decide \/ PollFails \/ CooldownEnds \/ FaultsEnd
           \/ CycleReadsBlock \/ CycleReadsEpoch \/ CycleDrains \/ CycleFails \/ CycleComputes
           \/ (\E tx \in txs : AnswerIsLost(tx)) \/ UNCHANGED vars
  BY <1>1, <1>2 DEF SubmitOrder, Reveal, PollEpoch, Decide, PollFails, CooldownEnds,
     FaultsEnd, CycleReadsBlock, CycleReadsEpoch, CycleDrains, CycleFails, CycleComputes,
     AnswerIsLost, vars, chainVars
<1>3. CASE EpochExpires
  <2>1. complete' \subseteq Epochs /\ expired' = TRUE /\ epoch_id < MaxEpoch
    BY <1>3 DEF EpochExpires, ChainInv
  <2> QED BY <1>3, <2>1 DEF EpochExpires, ChainInv
<1>13. CASE \E s \in Strays, d \in StrayEpochs : StrayArrives(s, d)
  <2>1. complete' \subseteq Epochs
    BY <1>13 DEF StrayArrives, ChainInv
  <2> QED BY <1>13, <2>1 DEF StrayArrives, ChainInv, chainVars
<1>4. CASE PoolsChange
  <2>1. pool_version' \in Nat /\ pool_version' <= MaxPoolChanges + epoch_id
    BY <1>4 DEF PoolsChange, ChainInv, Epochs
  <2> QED BY <1>4, <2>1 DEF PoolsChange, ChainInv, historyVars
<1>5. CASE RivalEndsEpoch
  <2>1. pool_version' \in Nat /\ pool_version' <= MaxPoolChanges + epoch_id + 1
    BY <1>5 DEF RivalEndsEpoch, ChainInv, Epochs
  <2>2. txs' \subseteq txs
    BY <1>5 DEF RivalEndsEpoch
  <2>3. expired /\ EndEpoch("rival")
        /\ UNCHANGED <<fills_root, snapshots, historyVars>>
    BY <1>5 DEF RivalEndsEpoch
  <2>4. /\ epoch_id' \in Epochs /\ epoch_id' = epoch_id + 1
        /\ expired' = FALSE /\ cancels' = FALSE
        /\ outcome' \in [Epochs -> {"open", "closed", "cleared", "rival"}]
    BY <2>3, EndEpochAdvances
  <2>5. pool_version' <= MaxPoolChanges + epoch_id'
    BY <2>1, <2>3, <2>4 DEF ChainInv, Epochs
  <2> QED BY <2>1, <2>2, <2>3, <2>4, <2>5 DEF ChainInv, historyVars
<1>6. CASE CancellationIsMined
  BY <1>6 DEF CancellationIsMined, ChainInv, historyVars
<1>7. CASE SendRoll
  BY <1>7 DEF SendRoll, ChainInv, CloseTxs, chainVars, historyVars
<1>8. CASE CycleFindsNoCross
  <2>1. /\ UNCHANGED <<chainVars, snapshots, complete>>
        /\ no_cross' = no_cross \cup {cycle.epoch}
        /\ txs' \subseteq txs \cup CloseTxs
    BY <1>8 DEF CycleFindsNoCross, CloseTxs
  <2>2. cycle.epoch \in Epochs
    BY DEF ProcessInv, Cycles
  <2> QED BY <2>1, <2>2 DEF ChainInv, chainVars
<1>9. ASSUME NEW written \in BOOLEAN, CycleSubmits(written)
      PROVE  ChainInv'
  <2>1. cycle.epoch \in Epochs /\ cycle.pools \in Nat
    BY DEF ProcessInv, Cycles
  <2>2. /\ UNCHANGED <<chainVars, historyVars>>
        /\ txs' \subseteq txs \cup {ClearTx(cycle.epoch, cycle.pools)}
    BY <1>9 DEF CycleSubmits
  <2>3. snapshots' \in [Epochs -> Nat \cup {None}]
    BY <1>9, <2>1 DEF CycleSubmits, ChainInv
  <2>4. ClearTx(cycle.epoch, cycle.pools)
          = ClearTx(cycle.epoch, ClearTx(cycle.epoch, cycle.pools).pools)
    BY DEF ClearTx
  <2> QED BY <2>1, <2>2, <2>3, <2>4 DEF ChainInv, chainVars, historyVars
<1>10. ASSUME NEW tx \in txs, TxIsMined(tx)
       PROVE  ChainInv'
  <2>1. /\ expired /\ txs' \subseteq txs
        /\ UNCHANGED <<snapshots, historyVars>>
    BY <1>10 DEF TxIsMined, Valid
  <2>2. \E how \in {"closed", "cleared", "rival"} : EndEpoch(how)
    BY <1>10 DEF TxIsMined
  <2>3. /\ pool_version' \in Nat /\ pool_version' <= MaxPoolChanges + epoch_id + 1
        /\ fills_root' \in [Epochs -> Nat \cup {None}]
    BY <1>10 DEF TxIsMined, Valid, ChainInv, Epochs
  <2>4. /\ epoch_id' \in Epochs /\ epoch_id' = epoch_id + 1
        /\ expired' = FALSE /\ cancels' = FALSE
        /\ outcome' \in [Epochs -> {"open", "closed", "cleared", "rival"}]
    BY <2>1, <2>2, EndEpochAdvances
  <2>5. pool_version' <= MaxPoolChanges + epoch_id'
    BY <2>1, <2>3, <2>4 DEF ChainInv, Epochs
  <2> QED BY <2>1, <2>3, <2>4, <2>5 DEF ChainInv, historyVars
<1>11. ASSUME NEW tx \in txs, TxFails(tx)
       PROVE  ChainInv'
  <2>1. txs' \subseteq txs /\ UNCHANGED <<chainVars, snapshots, historyVars>>
    BY <1>11 DEF TxFails
  <2> QED BY <2>1 DEF ChainInv, chainVars, historyVars
<1>12. CASE Crash
  BY <1>12 DEF Crash, ChainInv, chainVars
<1> QED
  BY <1>2, <1>3, <1>4, <1>5, <1>6, <1>7, <1>8, <1>9, <1>10, <1>11, <1>12, <1>13
  DEF Next, Environment, Watcher, Cycle, Failure, Inclusion

\* The three parts are inductive together.
LEMMA TypeStep == TypeInv /\ [Next]_vars => TypeInv'
  BY QueueStep, ProcessStep, ChainStep DEF TypeInv

\* The parts say what TypeOK says.
LEMMA TypeInvTypes == TypeInv => TypeOK
<1> SUFFICES ASSUME TypeInv PROVE TypeOK
  OBVIOUS
<1>1. pool_version \in 0..(MaxPoolChanges + MaxEpoch)
  BY AggregatorConstants DEF TypeInv, ChainInv, Epochs
<1> QED BY <1>1 DEF TypeInv, QueueInv, ProcessInv, ChainInv, TypeOK

\* The daemon, its queue, its disk and the chain keep their types: no epoch
\* holds more reveals than the cap, none outside the window holds any.
THEOREM TypeCorrect == Spec => []TypeOK
<1>1. Spec => []TypeInv
  BY TypeInit, TypeStep, PTL DEF Spec
<1> QED BY <1>1, TypeInvTypes, PTL

-----------------------------------------------------------------------------
(* The flag.                                                                *)

\* A roll and a cycle exclude each other, and whichever runs has the flag: the
\* flag tells exactly what RollsAndCyclesExclude needs, so it is inductive.
LEMMA FlagStep ==
  ASSUME TypeInv, RollsAndCyclesExclude, [Next]_vars
  PROVE  RollsAndCyclesExclude'
<1> USE DEF RollsAndCyclesExclude
<1>0. Idle.pc = "idle" /\ Asleep.pc = "sleep"
  BY DEF Idle, Asleep
<1>1. CASE UNCHANGED <<rolling, clearingInFlight, watcher, cycle>>
  BY <1>1
<1>2. CASE \/ EpochExpires \/ PoolsChange \/ RivalEndsEpoch \/ CancellationIsMined
           \/ (\E o \in Orders : SubmitOrder(o) \/ Reveal(o))
           \/ (\E s \in Strays, d \in StrayEpochs : StrayArrives(s, d))
           \/ CooldownEnds \/ FaultsEnd \/ UNCHANGED vars
  BY <1>1, <1>2 DEF EpochExpires, PoolsChange, RivalEndsEpoch, CancellationIsMined,
     SubmitOrder, Reveal, StrayArrives, CooldownEnds, FaultsEnd, vars, flagVars
<1>3. CASE PollEpoch \/ PollFails \/ SendRoll
  BY <1>0, <1>3 DEF PollEpoch, PollFails, SendRoll, RollTakesFlag, flagVars
<1>4. CASE Decide
  \* Both decisions look at the flag; a cycle needs reveals and a roll none.
  BY <1>0, <1>4 DEF Decide, MayRoll, NothingQueued, Idle, TypeInv, ProcessInv, Watchers
<1>5. ASSUME cycle.pc # "idle", EndCycle, UNCHANGED <<rolling, watcher>>
      PROVE  RollsAndCyclesExclude'
  BY <1>0, <1>5 DEF EndCycle
<1>6. ASSUME cycle.pc # "idle", UNCHANGED <<rolling, watcher, clearingInFlight>>
      PROVE  RollsAndCyclesExclude'
  BY <1>6
<1>7. CASE CycleReadsBlock \/ CycleReadsEpoch \/ CycleDrains \/ CycleFails
           \/ CycleFindsNoCross \/ CycleComputes
           \/ (\E written \in BOOLEAN : CycleSubmits(written))
  <2>1. cycle.pc # "idle" /\ UNCHANGED <<rolling, watcher>>
    BY <1>7 DEF CycleReadsBlock, CycleReadsEpoch, CycleDrains, CycleFails,
       CycleFindsNoCross, CycleComputes, CycleSubmits, flagVars
  <2>2. EndCycle \/ UNCHANGED clearingInFlight
    BY <1>7 DEF CycleReadsBlock, CycleReadsEpoch, CycleDrains, CycleFails,
       CycleFindsNoCross, CycleComputes, CycleSubmits, Throw, flagVars
  <2> QED BY <2>1, <2>2, <1>5, <1>6
<1>8. ASSUME NEW tx \in txs, NEW ok \in BOOLEAN, Answer(tx, ok), UNCHANGED watcher
      PROVE  RollsAndCyclesExclude'
  BY <1>0, <1>8 DEF Answer, Awaited, TypeInv, ProcessInv
<1>9. ASSUME NEW tx \in txs, TxIsMined(tx) \/ TxFails(tx) \/ AnswerIsLost(tx)
      PROVE  RollsAndCyclesExclude'
  BY <1>8, <1>9 DEF TxIsMined, TxFails, AnswerIsLost
<1>10. CASE Crash
  BY <1>0, <1>10 DEF Crash
<1> QED
  BY <1>2, <1>3, <1>4, <1>7, <1>9, <1>10
  DEF Next, Environment, Watcher, Cycle, Failure, Inclusion

\* M5: at no time do a roll and a clearing cycle overlap, whatever fails, is
\* retried or restarts.
THEOREM RollsAndCyclesExcludeCorrect == Spec => []RollsAndCyclesExclude
<1>1. Init => RollsAndCyclesExclude
  BY DEF Init, Idle, Asleep, RollsAndCyclesExclude
<1>2. Spec => []TypeInv
  BY TypeInit, TypeStep, PTL DEF Spec
<1>3. TypeInv /\ RollsAndCyclesExclude /\ [Next]_vars => RollsAndCyclesExclude'
  BY FlagStep
<1> QED BY <1>1, <1>2, <1>3, PTL DEF Spec

-----------------------------------------------------------------------------
(* Snapshots.                                                               *)

\* A clearing that may still be mined has a snapshot, too: a pending transaction
\* survives everything the process does, and so must the snapshot.
SnapshotInv ==
  /\ OwnRootsHaveSnapshots
  /\ \A tx \in txs : tx.kind = "clear" => snapshots[tx.epoch] # None

\* A bare close is no clearing.
LEMMA ClosesAreBare == \A tx \in CloseTxs : tx.kind # "clear"
  BY DEF CloseTxs, CloseTx

\* Every step keeps the snapshots that makers need.
LEMMA SnapshotStep ==
  ASSUME TypeInv, SnapshotInv, [Next]_vars
  PROVE  SnapshotInv'
<1>1. ASSUME UNCHANGED <<fills_root, snapshots>>, txs' \subseteq txs \cup CloseTxs
      PROVE  SnapshotInv'
  BY <1>1, ClosesAreBare DEF SnapshotInv, OwnRootsHaveSnapshots
<1>2. CASE \/ EpochExpires \/ PoolsChange \/ RivalEndsEpoch \/ CancellationIsMined
           \/ (\E o \in Orders : SubmitOrder(o) \/ Reveal(o))
           \/ (\E s \in Strays, d \in StrayEpochs : StrayArrives(s, d))
           \/ PollEpoch \/ Decide \/ PollFails \/ SendRoll \/ CooldownEnds \/ FaultsEnd
           \/ CycleReadsBlock \/ CycleReadsEpoch \/ CycleDrains \/ CycleFails \/ CycleComputes
           \/ CycleFindsNoCross \/ Crash
           \/ (\E tx \in txs : AnswerIsLost(tx) \/ TxFails(tx)) \/ UNCHANGED vars
  <2>1. UNCHANGED <<fills_root, snapshots>>
    BY <1>2 DEF EpochExpires, PoolsChange, RivalEndsEpoch, CancellationIsMined, SubmitOrder,
       Reveal, StrayArrives, PollEpoch, Decide, PollFails, SendRoll, CooldownEnds, FaultsEnd,
       CycleReadsBlock, CycleReadsEpoch, CycleDrains, CycleFails, CycleComputes,
       CycleFindsNoCross, Crash, AnswerIsLost, TxFails, vars, chainVars
  <2>2. txs' \subseteq txs \cup CloseTxs
    BY <1>2 DEF EpochExpires, PoolsChange, RivalEndsEpoch, CancellationIsMined, SubmitOrder,
       Reveal, StrayArrives, PollEpoch, Decide, PollFails, SendRoll, CooldownEnds, FaultsEnd,
       CycleReadsBlock, CycleReadsEpoch, CycleDrains, CycleFails, CycleComputes,
       CycleFindsNoCross, Crash, AnswerIsLost, TxFails, vars, CloseTxs
  <2> QED BY <2>1, <2>2, <1>1
<1>3. ASSUME NEW written \in BOOLEAN, CycleSubmits(written)
      PROVE  SnapshotInv'
  <2>1. /\ cycle.epoch \in Epochs /\ cycle.pools # None
        /\ snapshots \in [Epochs -> Nat \cup {None}]
    BY DEF TypeInv, ProcessInv, ChainInv, Cycles, None
  <2>2. fills_root' = fills_root
    BY <1>3 DEF CycleSubmits, chainVars
  <2>3. \A e : snapshots[e] # None => snapshots'[e] # None
    BY <1>3, <2>1 DEF CycleSubmits
  <2>4. CASE written
    <3>1. /\ snapshots'[cycle.epoch] # None
          /\ txs' \subseteq txs \cup {ClearTx(cycle.epoch, cycle.pools)}
      BY <1>3, <2>1, <2>4 DEF CycleSubmits, MaySubmit
    <3>2. ClearTx(cycle.epoch, cycle.pools).epoch = cycle.epoch
      BY DEF ClearTx
    <3> QED BY <2>2, <2>3, <3>1, <3>2 DEF SnapshotInv, OwnRootsHaveSnapshots
  <2>5. CASE ~written
    <3>1. txs' = txs
      BY <1>3, <2>5 DEF CycleSubmits, MaySubmit
    <3> QED BY <2>2, <2>3, <3>1 DEF SnapshotInv, OwnRootsHaveSnapshots
  <2> QED BY <2>4, <2>5
<1>4. ASSUME NEW tx \in txs, TxIsMined(tx)
      PROVE  SnapshotInv'
  <2>1. UNCHANGED snapshots /\ txs' \subseteq txs
    BY <1>4 DEF TxIsMined
  <2>2. CASE tx.kind = "clear"
    <3>1. /\ fills_root' = [fills_root EXCEPT ![epoch_id] = tx.pools]
          /\ tx.epoch = epoch_id
      BY <1>4, <2>2 DEF TxIsMined, Valid
    <3>2. snapshots[epoch_id] # None
      BY <2>2, <3>1 DEF SnapshotInv
    <3> QED BY <2>1, <3>1, <3>2 DEF SnapshotInv, OwnRootsHaveSnapshots, TypeInv, ChainInv
  <2>3. CASE tx.kind # "clear"
    BY <1>1, <1>4, <2>1, <2>3 DEF TxIsMined
  <2> QED BY <2>2, <2>3
<1> QED BY <1>2, <1>3, <1>4 DEF Next, Environment, Watcher, Cycle, Failure, Inclusion

\* M4: whenever a clearing of ours is recorded, its epoch has a snapshot,
\* whichever write failed before and however often it was retried.
THEOREM OwnRootsHaveSnapshotsCorrect == Spec => []OwnRootsHaveSnapshots
<1>1. Init => SnapshotInv
  BY DEF Init, SnapshotInv, OwnRootsHaveSnapshots
<1>2. Spec => []TypeInv
  BY TypeInit, TypeStep, PTL DEF Spec
<1>3. TypeInv /\ SnapshotInv /\ [Next]_vars => SnapshotInv'
  BY SnapshotStep
<1>4. SnapshotInv => OwnRootsHaveSnapshots
  BY DEF SnapshotInv
<1> QED BY <1>1, <1>2, <1>3, <1>4, PTL DEF Spec

-----------------------------------------------------------------------------
(* Epochs.                                                                  *)

\* What the loops know of the current epoch.  A cycle only gets past its reads
\* for an epoch whose window has passed, so it never has drained the reveals of
\* an open one; while an epoch is expired, the watcher and the cycle up to its
\* proof look at no other; and drained reveals replay to the order chain.
EpochInv ==
  /\ cycle.pc = "epoch" => cycle.clock <= Clock
  /\ cycle.pc \in {"fee", "pools", "proving", "submitting"} => cycle.epoch < Clock
  /\ expired /\ watcher.pc # "sleep" => watcher.epoch = epoch_id
  /\ expired /\ cycle.pc \in {"fee", "pools"} => cycle.epoch = epoch_id
  /\ \A o \in Orders : home[o] <= epoch_id /\ label[o] <= home[o]
  /\ (expired /\ cycle.epoch = epoch_id /\ cycle.reveals # {} /\ OrdersOf(epoch_id) # {})
       => cycle.reveals \ Unparsable = OrdersOf(epoch_id) /\ WithinWindow(epoch_id)

\* The epoch expires or ends after it has expired, or the step leaves it alone.
LEMMA EpochMoves ==
  ASSUME TypeInv, [Next]_vars
  PROVE  \/ UNCHANGED <<epoch_id, expired>>
         \/ EpochExpires
         \/ expired /\ epoch_id' = epoch_id + 1 /\ expired' = FALSE
<1>1. CASE RivalEndsEpoch \/ \E tx \in txs : TxIsMined(tx)
  BY <1>1 DEF RivalEndsEpoch, TxIsMined, Valid, EndEpoch
<1>2. CASE \/ PoolsChange \/ CancellationIsMined
           \/ (\E o \in Orders : SubmitOrder(o) \/ Reveal(o))
           \/ (\E s \in Strays, d \in StrayEpochs : StrayArrives(s, d))
           \/ PollEpoch \/ Decide \/ PollFails \/ SendRoll \/ CooldownEnds \/ FaultsEnd
           \/ CycleReadsBlock \/ CycleReadsEpoch \/ CycleDrains \/ CycleFails \/ CycleComputes
           \/ CycleFindsNoCross \/ (\E written \in BOOLEAN : CycleSubmits(written)) \/ Crash
           \/ (\E tx \in txs : AnswerIsLost(tx) \/ TxFails(tx)) \/ UNCHANGED vars
  BY <1>2 DEF PoolsChange, CancellationIsMined, SubmitOrder,
     Reveal, StrayArrives, PollEpoch, Decide, PollFails, SendRoll, CooldownEnds, FaultsEnd,
     CycleReadsBlock, CycleReadsEpoch, CycleDrains, CycleFails, CycleComputes,
     CycleFindsNoCross, CycleSubmits, Crash, AnswerIsLost, TxFails, vars, chainVars
<1> QED BY <1>1, <1>2 DEF Next, Environment, Watcher, Cycle, Failure, Inclusion

\* The windows that have passed stay passed.
LEMMA ClockAdvances ==
  ASSUME TypeInv, [Next]_vars
  PROVE  Clock \in Nat /\ Clock' \in Nat /\ Clock <= Clock'
<1>1. epoch_id \in Nat /\ expired \in BOOLEAN
  BY AggregatorConstants DEF TypeInv, ChainInv, Epochs
<1>2. CASE UNCHANGED <<epoch_id, expired>>
  BY <1>1, <1>2 DEF Clock
<1>3. CASE EpochExpires
  BY <1>1, <1>3 DEF Clock, EpochExpires
<1>4. CASE expired /\ epoch_id' = epoch_id + 1 /\ expired' = FALSE
  BY <1>1, <1>4 DEF Clock
<1> QED BY <1>2, <1>3, <1>4, EpochMoves

\* A cycle goes from await to await, while the rest of the world stands still.
CycleAdvances ==
  /\ UNCHANGED <<chainVars, currentEpoch, watcher, complete>>
  /\ \/ /\ cycle.pc = "block"
        /\ cycle' = [cycle EXCEPT !.pc = "epoch", !.clock = Clock]
     \/ /\ cycle.pc = "epoch" /\ epoch_id < cycle.clock
        /\ cycle' = [cycle EXCEPT !.pc = "fee", !.clock = 0, !.epoch = epoch_id]
     \/ /\ cycle.pc = "fee"
        /\ \/ OrdersOf(cycle.epoch) = {}
           \/ Replays(cycle.epoch, byEpoch[cycle.epoch])
        /\ cycle' = [cycle EXCEPT !.pc = "pools", !.reveals = byEpoch[cycle.epoch]]
     \/ /\ cycle.pc = "pools"
        /\ cycle' = [cycle EXCEPT !.pc = "proving", !.pools = pool_version]
     \/ /\ cycle.pc = "proving"
        /\ cycle' = [cycle EXCEPT !.pc = "submitting"]

\* Otherwise it starts afresh, ends or gives the epoch up.
CycleRests == cycle'.pc \in {"idle", "block", "closing"} /\ cycle'.reveals = {}

\* There is nothing else a cycle does.
LEMMA CycleMoves ==
  ASSUME TypeInv, [Next]_vars
  PROVE  cycle' = cycle \/ CycleRests \/ CycleAdvances
<1>0. /\ Idle.pc = "idle" /\ Idle.reveals = {}
      /\ \A pc : [Idle EXCEPT !.pc = pc].pc = pc /\ [Idle EXCEPT !.pc = pc].reveals = {}
  BY DEF Idle
<1>1. CASE \/ EpochExpires \/ PoolsChange \/ RivalEndsEpoch \/ CancellationIsMined
           \/ (\E o \in Orders : SubmitOrder(o) \/ Reveal(o))
           \/ (\E s \in Strays, d \in StrayEpochs : StrayArrives(s, d))
           \/ PollEpoch \/ PollFails \/ SendRoll \/ CooldownEnds \/ FaultsEnd
           \/ UNCHANGED vars
  BY <1>1 DEF EpochExpires, PoolsChange, RivalEndsEpoch, CancellationIsMined, SubmitOrder,
     Reveal, StrayArrives, PollEpoch, PollFails, SendRoll, CooldownEnds, FaultsEnd, vars
<1>2. CASE Decide
  BY <1>0, <1>2 DEF Decide, CycleRests
<1>3. CASE CycleReadsBlock
  BY <1>3 DEF CycleReadsBlock, CycleAdvances, queueVars, historyVars
<1>4. CASE EndCycle \/ Throw
  BY <1>0, <1>4 DEF EndCycle, Throw, CycleRests
<1>5. CASE CycleReadsEpoch
  <2>1. CASE EndCycle
    BY <2>1, <1>4
  <2>2. CASE ~EndCycle
    <3>1. epoch_id < cycle.clock
      BY <1>5, <2>2 DEF CycleReadsEpoch, TypeInv, ProcessInv, ChainInv, Cycles, Epochs
    <3> QED BY <1>5, <2>2, <3>1 DEF CycleReadsEpoch, CycleAdvances, queueVars, historyVars
  <2> QED BY <2>1, <2>2
<1>6. CASE CycleDrains
  <2>1. CASE EndCycle
    BY <2>1, <1>4
  <2>2. CASE ~EndCycle
    BY <1>6, <2>2 DEF CycleDrains, CycleAdvances, historyVars
  <2> QED BY <2>1, <2>2
<1>7. CASE CycleFails
  BY <1>4, <1>7 DEF CycleFails
<1>8. CASE CycleFindsNoCross
  BY <1>0, <1>4, <1>8 DEF CycleFindsNoCross, CycleRests
<1>9. CASE CycleComputes
  BY <1>9 DEF CycleComputes, CycleAdvances, queueVars, historyVars
<1>10. ASSUME NEW written \in BOOLEAN, CycleSubmits(written)
       PROVE  cycle' = cycle \/ CycleRests \/ CycleAdvances
  BY <1>4, <1>10 DEF CycleSubmits, CycleAdvances, historyVars
<1>11. ASSUME NEW tx \in txs, TxIsMined(tx) \/ TxFails(tx) \/ AnswerIsLost(tx)
       PROVE  cycle' = cycle \/ CycleRests \/ CycleAdvances
  BY <1>0, <1>11 DEF TxIsMined, TxFails, AnswerIsLost, Answer, CycleRests
<1>12. CASE Crash
  BY <1>0, <1>12 DEF Crash, CycleRests
<1> QED
  BY <1>1, <1>2, <1>3, <1>5, <1>6, <1>7, <1>8, <1>9, <1>10, <1>11, <1>12
  DEF Next, Environment, Watcher, Cycle, Failure, Inclusion

\* The watcher's epoch is one it has just read, or the one it had.
LEMMA WatcherMoves ==
  ASSUME TypeInv, [Next]_vars
  PROVE  /\ \/ watcher' = watcher
            \/ watcher'.pc = "sleep"
            \/ watcher'.epoch = epoch_id /\ watcher'.pc # "fee"
            \/ /\ watcher.pc # "sleep" /\ watcher'.epoch = watcher.epoch
               /\ byEpoch'[watcher.epoch] = {} /\ ~clearingInFlight
               /\ UNCHANGED <<chainVars, cycle>>
         /\ \/ currentEpoch' = currentEpoch
            \/ currentEpoch' = None
            \/ watcher.pc # "sleep" /\ currentEpoch' = watcher.epoch
<1>0. Asleep.pc = "sleep"
  BY DEF Asleep
<1>1. CASE Decide
  <2>1. watcher.pc # "sleep" /\ currentEpoch' = watcher.epoch
    BY <1>1 DEF Decide, SetCurrentEpoch
  <2>2. CASE watcher' = Asleep
    BY <1>0, <2>1, <2>2
  <2>3. CASE watcher' # Asleep
    BY <1>1, <2>1, <2>3 DEF Decide, NothingQueued, MayRoll, TypeInv, ProcessInv, Watchers
  <2> QED BY <2>2, <2>3
<1>2. CASE PollEpoch \/ PollFails \/ SendRoll \/ Crash
  BY <1>0, <1>2 DEF PollEpoch, PollFails, SendRoll, Crash, queueVars
<1>3. CASE \/ EpochExpires \/ PoolsChange \/ RivalEndsEpoch \/ CancellationIsMined
           \/ (\E o \in Orders : SubmitOrder(o) \/ Reveal(o))
           \/ (\E s \in Strays, d \in StrayEpochs : StrayArrives(s, d))
           \/ CooldownEnds \/ FaultsEnd
           \/ CycleReadsBlock \/ CycleReadsEpoch \/ CycleDrains \/ CycleFails \/ CycleComputes
           \/ CycleFindsNoCross \/ (\E written \in BOOLEAN : CycleSubmits(written))
           \/ (\E tx \in txs : TxIsMined(tx) \/ AnswerIsLost(tx) \/ TxFails(tx))
           \/ UNCHANGED vars
  BY <1>3 DEF EpochExpires, PoolsChange, RivalEndsEpoch, CancellationIsMined, SubmitOrder,
     Reveal, StrayArrives, CooldownEnds, FaultsEnd, CycleReadsBlock, CycleReadsEpoch, CycleDrains,
     CycleFails, CycleComputes, CycleFindsNoCross, CycleSubmits, TxIsMined, AnswerIsLost,
     TxFails, vars, queueVars
<1> QED BY <1>1, <1>2, <1>3 DEF Next, Environment, Watcher, Cycle, Failure, Inclusion

\* Orders join the epoch that is current and open; their labels are not later.
LEMMA OrdersMove ==
  ASSUME TypeInv, [Next]_vars
  PROVE  \/ UNCHANGED <<home, label>>
         \/ /\ ~expired /\ UNCHANGED <<epoch_id, expired>>
            /\ \E o \in Orders, e \in 0..epoch_id :
                 /\ home' = [home EXCEPT ![o] = epoch_id]
                 /\ label' = [label EXCEPT ![o] = e]
         \/ /\ UNCHANGED chainVars
            /\ \E o \in Orders : label' = [label EXCEPT ![o] = None]
<1>1. ASSUME NEW o \in Orders, SubmitOrder(o) \/ Reveal(o)
      PROVE  \/ /\ ~expired /\ UNCHANGED <<epoch_id, expired>>
                /\ \E e \in 0..epoch_id :
                     /\ home' = [home EXCEPT ![o] = epoch_id]
                     /\ label' = [label EXCEPT ![o] = e]
             \/ UNCHANGED chainVars /\ label' = [label EXCEPT ![o] = None]
  BY <1>1 DEF SubmitOrder, Reveal
<1>2. CASE \/ EpochExpires \/ PoolsChange \/ RivalEndsEpoch \/ CancellationIsMined
           \/ (\E s \in Strays, d \in StrayEpochs : StrayArrives(s, d))
           \/ PollEpoch \/ Decide \/ PollFails \/ SendRoll \/ CooldownEnds \/ FaultsEnd
           \/ CycleReadsBlock \/ CycleReadsEpoch \/ CycleDrains \/ CycleFails \/ CycleComputes
           \/ CycleFindsNoCross \/ (\E written \in BOOLEAN : CycleSubmits(written)) \/ Crash
           \/ (\E tx \in txs : TxIsMined(tx) \/ AnswerIsLost(tx) \/ TxFails(tx))
           \/ UNCHANGED vars
  BY <1>2 DEF EpochExpires, PoolsChange, RivalEndsEpoch, CancellationIsMined, PollEpoch,
     Decide, PollFails, SendRoll, CooldownEnds, FaultsEnd, CycleReadsBlock, CycleReadsEpoch,
     CycleDrains, CycleFails, CycleComputes, CycleFindsNoCross, CycleSubmits, Crash,
     TxIsMined, AnswerIsLost, TxFails, vars, chainVars, StrayArrives
<1> QED BY <1>1, <1>2 DEF Next, Environment, Watcher, Cycle, Failure, Inclusion

\* What the loops know of the current epoch stays true.
LEMMA EpochStep ==
  ASSUME TypeInv, EpochInv, [Next]_vars
  PROVE  EpochInv'
<1>1. /\ cycle \in Cycles /\ epoch_id \in Epochs /\ epoch_id \in Nat
      /\ Clock \in Nat /\ Clock' \in Nat /\ Clock <= Clock'
  BY ClockAdvances, AggregatorConstants DEF TypeInv, ProcessInv, ChainInv, Epochs
<1>2. /\ cycle'.pc = "epoch" => cycle'.clock <= Clock'
      /\ cycle'.pc \in {"fee", "pools", "proving", "submitting"} => cycle'.epoch < Clock'
  <2>1. CASE cycle' = cycle
    BY <1>1, <2>1, AggregatorConstants DEF EpochInv, Cycles, Epochs
  <2>2. CASE CycleRests
    BY <2>2 DEF CycleRests
  <2>3. CASE CycleAdvances
    <3>1. Clock' = Clock
      BY <2>3 DEF CycleAdvances, Clock, chainVars
    <3>2. CASE cycle.pc = "block"
      BY <1>1, <2>3, <3>1, <3>2 DEF CycleAdvances, Cycles
    <3>3. CASE cycle.pc = "epoch"
      <4>1. cycle.clock \in Nat /\ cycle.clock <= Clock /\ epoch_id < cycle.clock
        BY <1>1, <2>3, <3>3, AggregatorConstants DEF CycleAdvances, EpochInv, Cycles
      <4>2. cycle'.pc = "fee" /\ cycle'.epoch = epoch_id
        BY <1>1, <2>3, <3>3 DEF CycleAdvances, Cycles
      <4> QED BY <1>1, <3>1, <4>1, <4>2
    <3>4. CASE cycle.pc \in {"fee", "pools", "proving"}
      <4>1. cycle.epoch < Clock /\ cycle'.epoch = cycle.epoch /\ cycle'.pc # "epoch"
        BY <1>1, <2>3, <3>4 DEF CycleAdvances, EpochInv, Cycles
      <4> QED BY <3>1, <4>1
    <3> QED BY <2>3, <3>2, <3>3, <3>4 DEF CycleAdvances
  <2> QED BY <2>1, <2>2, <2>3, CycleMoves
<1>3. expired' /\ watcher'.pc # "sleep" => watcher'.epoch = epoch_id'
  <2> SUFFICES ASSUME expired', watcher'.pc # "sleep" PROVE watcher'.epoch = epoch_id'
    OBVIOUS
  <2>1. CASE UNCHANGED <<epoch_id, expired>>
    BY <2>1, WatcherMoves DEF EpochInv
  <2>2. CASE EpochExpires
    BY <2>2 DEF EpochExpires
  <2> QED BY <2>1, <2>2, EpochMoves
<1>4. expired' /\ cycle'.pc \in {"fee", "pools"} => cycle'.epoch = epoch_id'
  <2> SUFFICES ASSUME expired', cycle'.pc \in {"fee", "pools"} PROVE cycle'.epoch = epoch_id'
    OBVIOUS
  <2>1. CASE EpochExpires
    BY <2>1 DEF EpochExpires
  <2>2. CASE UNCHANGED <<epoch_id, expired>>
    <3>1. CASE cycle' = cycle
      BY <2>2, <3>1 DEF EpochInv
    <3>2. CASE CycleAdvances
      <4>1. CASE cycle.pc = "epoch"
        BY <1>1, <2>2, <3>2, <4>1 DEF CycleAdvances, Cycles
      <4>2. CASE cycle.pc = "fee"
        BY <1>1, <2>2, <3>2, <4>2 DEF CycleAdvances, EpochInv, Cycles
      <4>3. CASE cycle.pc \in {"block", "pools", "proving"}
        BY <1>1, <3>2, <4>3 DEF CycleAdvances, Cycles
      <4> QED BY <3>2, <4>1, <4>2, <4>3 DEF CycleAdvances
    <3> QED BY <3>1, <3>2, CycleMoves DEF CycleRests
  <2> QED BY <2>1, <2>2, EpochMoves
<1>5. \A o \in Orders : home'[o] <= epoch_id' /\ label'[o] <= home'[o]
  <2>1. epoch_id' \in Nat /\ epoch_id <= epoch_id'
    <3>1. CASE UNCHANGED epoch_id
      BY <1>1, <3>1
    <3>2. CASE epoch_id' = epoch_id + 1
      BY <1>1, <3>2
    <3> QED BY <3>1, <3>2, EpochMoves DEF EpochExpires
  <2>2. \A o \in Orders : home[o] \in Int /\ label[o] \in Int /\ home[o] >= None
    BY AggregatorConstants DEF TypeInv, ProcessInv, Epochs, None
  <2>3. CASE UNCHANGED <<home, label>>
    BY <1>1, <2>1, <2>2, <2>3 DEF EpochInv
  <2>4. ASSUME UNCHANGED epoch_id, NEW p \in Orders, NEW e \in 0..epoch_id,
               home' = [home EXCEPT ![p] = epoch_id], label' = [label EXCEPT ![p] = e]
        PROVE  \A o \in Orders : home'[o] <= epoch_id' /\ label'[o] <= home'[o]
    BY <1>1, <2>2, <2>4 DEF EpochInv, TypeInv, ProcessInv
  <2>5. ASSUME UNCHANGED <<epoch_id, home>>, NEW p \in Orders,
               label' = [label EXCEPT ![p] = None]
        PROVE  \A o \in Orders : home'[o] <= epoch_id' /\ label'[o] <= home'[o]
    BY <1>1, <2>2, <2>5 DEF EpochInv, TypeInv, ProcessInv
  <2> QED BY <2>3, <2>4, <2>5, OrdersMove DEF chainVars
<1>6. (expired /\ cycle.epoch = epoch_id /\ cycle.reveals # {} /\ OrdersOf(epoch_id) # {})'
        => (cycle.reveals \ Unparsable = OrdersOf(epoch_id) /\ WithinWindow(epoch_id))'
  <2> SUFFICES ASSUME expired', cycle'.epoch = epoch_id', cycle'.reveals # {},
                      OrdersOf(epoch_id)' # {}
               PROVE  cycle'.reveals \ Unparsable = OrdersOf(epoch_id)' /\ WithinWindow(epoch_id)'
    OBVIOUS
  <2>1. CASE CycleAdvances
    <3>1. /\ UNCHANGED <<epoch_id, expired, home, currentEpoch>>
          /\ OrdersOf(epoch_id)' = OrdersOf(epoch_id)
          /\ WithinWindow(epoch_id)' = WithinWindow(epoch_id)
      BY <2>1 DEF CycleAdvances, chainVars, OrdersOf, WithinWindow
    <3>2. CASE cycle.pc = "fee"
      <4>1. cycle.epoch = epoch_id /\ cycle'.reveals = byEpoch[epoch_id]
        BY <1>1, <2>1, <3>1, <3>2 DEF CycleAdvances, EpochInv, Cycles
      <4>2. Replays(epoch_id, byEpoch[epoch_id])
        BY <2>1, <3>1, <3>2, <4>1 DEF CycleAdvances
      <4> QED BY <1>1, <3>1, <4>1, <4>2 DEF Replays, TypeInv, QueueInv
    <3>3. CASE cycle.pc \in {"pools", "proving"}
      <4>1. cycle.epoch = cycle'.epoch /\ cycle'.reveals = cycle.reveals
        BY <1>1, <2>1, <3>3 DEF CycleAdvances, Cycles
      <4> QED BY <3>1, <4>1 DEF EpochInv
    <3>4. CASE cycle.pc \in {"block", "epoch"}
      BY <1>1, <2>1, <3>4 DEF CycleAdvances, Cycles, TypeInv, ProcessInv
    <3> QED BY <2>1, <3>2, <3>3, <3>4 DEF CycleAdvances
  <2>2. CASE cycle' = cycle
    <3>1. CASE EpochExpires
      \* Drained reveals are of an epoch whose window had passed before.
      <4>1. cycle.pc \in {"pools", "proving", "submitting"}
        BY <2>2 DEF TypeInv, ProcessInv
      <4>2. cycle.epoch < epoch_id /\ epoch_id' = epoch_id
        BY <3>1, <4>1 DEF EpochInv, EpochExpires, Clock
      <4> QED BY <1>1, <2>2, <4>2
    <3>2. CASE UNCHANGED <<epoch_id, expired>>
      <4>1. OrdersOf(epoch_id)' = OrdersOf(epoch_id)
        BY <3>2, OrdersMove DEF OrdersOf, chainVars
      <4>2. cycle.reveals \ Unparsable = OrdersOf(epoch_id) /\ WithinWindow(epoch_id)
        BY <2>2, <3>2, <4>1 DEF EpochInv
      <4>3. currentEpoch' \in {currentEpoch, None, epoch_id}
        BY <3>2, WatcherMoves DEF EpochInv
      <4>4. WithinWindow(epoch_id)'
        BY <1>1, <3>2, <4>2, <4>3, AggregatorConstants DEF WithinWindow, Distance
      <4> QED BY <2>2, <4>1, <4>2, <4>4
    <3> QED BY <3>1, <3>2, EpochMoves
  <2> QED BY <2>1, <2>2, CycleMoves DEF CycleRests
<1> QED BY <1>2, <1>3, <1>4, <1>5, <1>6 DEF EpochInv

-----------------------------------------------------------------------------
(* Reveals.                                                                 *)

\* A cycle that throws puts everything back: its reveals are of the order chain,
\* as many as were drained within the cap, and the window has not moved away.
LEMMA ThrowKeeps ==
  ASSUME TypeInv, EpochInv, NEW e \in Epochs, expired, epoch_id = e, OrdersOf(e) # {},
         Replays(e, Held(e)), Held(e) \cap Strays = {}, Requeue(cycle), UNCHANGED currentEpoch, cycle'.reveals = {}
  PROVE  Held(e)' = Held(e)
<1>1. /\ cycle.epoch \in Epochs /\ cycle.reveals \in SUBSET Reveals
      /\ IsFiniteSet(cycle.reveals) /\ Cardinality(cycle.reveals) <= MAX_PER_EPOCH
      /\ QueueInv
  BY DEF TypeInv, ProcessInv, Cycles
<1>2. Enqueue(cycle.epoch, cycle.reveals)
  BY DEF Requeue
<1>3. Held(e)' = byEpoch'[e]
  BY DEF Held
<1>4. CASE cycle.epoch # e
  <2>1. \A d \in Epochs \ {cycle.epoch} : byEpoch'[d] = byEpoch[d]
    BY <1>1, <1>2, EnqueueQueues
  <2> QED BY <1>3, <1>4, <2>1 DEF Held
<1>5. CASE cycle.epoch = e /\ cycle.reveals = {}
  <2>0. Enqueue(e, {}) /\ IsFiniteSet({})
    BY <1>2, <1>5, FS_EmptySet
  <2>1. byEpoch'[e] = byEpoch[e]
    <3>1. byEpoch[e] \subseteq byEpoch'[e] /\ byEpoch'[e] \subseteq byEpoch[e] \cup {}
      BY <1>1, <2>0, EnqueueQueues
    <3> QED BY <3>1
  <2> QED BY <1>3, <1>5, <2>1 DEF Held
<1>6. CASE cycle.epoch = e /\ cycle.reveals # {}
  <2>1. cycle.reveals \ Unparsable = OrdersOf(e) /\ WithinWindow(e)
    BY <1>6 DEF EpochInv
  <2>2. byEpoch[e] \cup cycle.reveals = cycle.reveals /\ Held(e) = cycle.reveals
    BY <1>6, <2>1, AggregatorConstants DEF Held, Replays
  <2>3. NoncesDiffer(cycle.reveals)
    <3>1. cycle.reveals \in SUBSET Orders
      BY <2>1, <2>2, AggregatorConstants DEF OrdersOf
    <3> QED BY <3>1, OrdersNoncesDiffer
  <2>4. byEpoch'[e] = byEpoch[e] \cup cycle.reveals
    BY <1>1, <1>2, <1>6, <2>1, <2>2, <2>3, EnqueueQueues
  <2> QED BY <1>3, <2>2, <2>4
<1> QED BY <1>4, <1>5, <1>6

\* A stray is queued for epoch e.
StrayQueued(e) == byEpoch' # byEpoch /\ \E s \in Strays : StrayArrives(s, e)

\* No step but a restart, and the arrival of a stray, changes the reveals held for
\* the expired epoch when they are those of the order chain and no others.
LEMMA RevealsSurvive ==
  ASSUME TypeInv, EpochInv, RollsAndCyclesExclude, [Next]_vars, ~Crash,
         NEW e \in Epochs, expired, epoch_id = e, epoch_id' = e,
         OrdersOf(e) # {}, Replays(e, Held(e)), Held(e) \cap Strays = {},
         ~StrayQueued(e), e \notin no_cross'
  PROVE  Held(e)' = Held(e)
<1>0. /\ cycle \in Cycles /\ QueueInv /\ Idle.reveals = {} /\ e \in Nat
      /\ cycle.epoch \in Epochs /\ cycle.reveals \in SUBSET Reveals
  BY AggregatorConstants DEF TypeInv, ProcessInv, Cycles, Idle, Epochs
<1>1. ASSUME byEpoch' = byEpoch,
             \/ cycle' = cycle
             \/ cycle.reveals = {} /\ cycle'.reveals = {}
             \/ cycle'.reveals = cycle.reveals /\ cycle'.epoch = cycle.epoch
      PROVE  Held(e)' = Held(e)
  BY <1>1 DEF Held
<1>2. CASE \/ PoolsChange \/ CancellationIsMined \/ PollEpoch \/ PollFails \/ SendRoll
           \/ CooldownEnds \/ FaultsEnd \/ UNCHANGED vars
  BY <1>1, <1>2 DEF PoolsChange, CancellationIsMined, PollEpoch, PollFails, SendRoll,
     CooldownEnds, FaultsEnd, vars, queueVars
<1>3. CASE EpochExpires \/ RivalEndsEpoch \/ \E o \in Orders : SubmitOrder(o)
  <2>1. CASE RivalEndsEpoch
    BY <1>0, <2>1 DEF RivalEndsEpoch, EndEpoch
  <2>2. CASE EpochExpires \/ \E o \in Orders : SubmitOrder(o)
    BY <2>2 DEF EpochExpires, SubmitOrder
  <2> QED BY <1>3, <2>1, <2>2
<1>4. ASSUME NEW o \in Orders, Reveal(o)
      PROVE  Held(e)' = Held(e)
  <2>1. /\ label[o] \in Epochs /\ home[o] \in Int /\ IsFiniteSet({o})
        /\ label[o] <= home[o] /\ home[o] <= e
    <3>1. label[o] \in Epochs
      BY <1>4 DEF Reveal, TypeInv, ProcessInv
    <3>2. home[o] \in Int
      BY AggregatorConstants DEF TypeInv, ProcessInv, Epochs, None
    <3> QED BY <3>1, <3>2, FS_Singleton DEF EpochInv
  <2>2. cycle' = cycle /\ currentEpoch' = currentEpoch
    BY <1>4 DEF Reveal
  <2>3. Enqueue(label[o], {o}) /\ {o} \in SUBSET Reveals
    BY <1>4 DEF Reveal, Reveals
  <2>4. CASE label[o] # e
    <3>1. \A d \in Epochs \ {label[o]} : byEpoch'[d] = byEpoch[d]
      BY <1>0, <2>1, <2>2, <2>3, EnqueueQueues
    <3> QED BY <2>2, <2>4, <3>1 DEF Held
  <2>5. CASE label[o] = e
    <3>0. home[o] = e
      BY <2>1, <2>5, <1>0
    <3>1. o \in Held(e)
      BY <3>0 DEF Replays, OrdersOf
    <3>2. byEpoch[e] \subseteq byEpoch'[e] /\ byEpoch'[e] \subseteq byEpoch[e] \cup {o}
      <4>1. Enqueue(e, {o})
        BY <2>3, <2>5
      <4> QED BY <1>0, <2>1, <2>2, <2>3, <4>1, EnqueueQueues
    <3> QED BY <2>2, <3>1, <3>2 DEF Held
  <2> QED BY <2>4, <2>5
<1>14. ASSUME NEW s \in Strays, NEW d \in StrayEpochs, StrayArrives(s, d)
       PROVE  Held(e)' = Held(e)
  <2>1. cycle' = cycle /\ currentEpoch' = currentEpoch /\ Enqueue(d, {s})
    BY <1>14 DEF StrayArrives
  <2>2. d \in Epochs /\ IsFiniteSet({s}) /\ {s} \in SUBSET Reveals
    BY FS_Singleton, AggregatorConstants DEF Epochs, Reveals
  <2>3. CASE d = e
    BY <1>1, <1>14, <2>1, <2>3 DEF StrayQueued
  <2>4. CASE d # e
    <3>1. \A c \in Epochs \ {d} : byEpoch'[c] = byEpoch[c]
      BY <1>0, <2>1, <2>2, EnqueueQueues
    <3> QED BY <2>1, <2>4, <3>1 DEF Held
  <2> QED BY <2>3, <2>4
<1>5. CASE Decide
  \* An expired epoch is the one the watcher has read.
  <2>1. watcher.epoch = e
    BY <1>5 DEF Decide, EpochInv
  <2>2. byEpoch'[e] = byEpoch[e]
    BY <1>0, <1>5, <2>1, SetCurrentEpochEvicts DEF Decide
  <2>3. CASE cycle' = cycle
    BY <2>2, <2>3 DEF Held
  <2>4. CASE cycle' # cycle
    <3>1. ~clearingInFlight /\ cycle'.reveals = {}
      BY <1>5, <2>4 DEF Decide, Idle
    <3>2. cycle.reveals = {}
      BY <3>1 DEF RollsAndCyclesExclude, TypeInv, ProcessInv
    <3> QED BY <2>2, <3>1, <3>2 DEF Held
  <2> QED BY <2>3, <2>4
<1>6. CASE CycleReadsBlock \/ CycleReadsEpoch
  <2>1. byEpoch' = byEpoch /\ cycle.reveals = {}
    BY <1>6 DEF CycleReadsBlock, CycleReadsEpoch, queueVars, TypeInv, ProcessInv
  <2>2. cycle'.reveals = {}
    BY <1>0, <1>6, <2>1 DEF CycleReadsBlock, CycleReadsEpoch, EndCycle, Cycles
  <2> QED BY <1>1, <2>1, <2>2
<1>7. CASE CycleDrains
  <2>1. cycle.epoch = e /\ cycle.reveals = {}
    BY <1>7 DEF CycleDrains, EpochInv, TypeInv, ProcessInv
  <2>2. Replays(e, byEpoch[e]) /\ Held(e) = byEpoch[e]
    BY <2>1 DEF Held
  <2>3. /\ byEpoch' = [byEpoch EXCEPT ![e] = {}]
        /\ cycle' = [cycle EXCEPT !.pc = "pools", !.reveals = byEpoch[e]]
    BY <1>7, <2>1, <2>2 DEF CycleDrains
  <2>4. byEpoch'[e] = {} /\ cycle'.reveals = byEpoch[e] /\ cycle'.epoch = e
    BY <1>0, <2>1, <2>3 DEF QueueInv, Cycles
  <2> QED BY <2>2, <2>4 DEF Held
<1>8. CASE CycleFails
  BY <1>0, <1>8, ThrowKeeps DEF CycleFails, Throw, EndCycle
<1>9. CASE CycleFindsNoCross
  \* Then the epoch is one that nothing crosses in.
  BY <1>9 DEF CycleFindsNoCross, EpochInv
<1>10. CASE CycleComputes
  BY <1>0, <1>1, <1>10 DEF CycleComputes, queueVars, Cycles
<1>11. ASSUME NEW written \in BOOLEAN, CycleSubmits(written)
       PROVE  Held(e)' = Held(e)
  <2>1. CASE Throw
    BY <1>0, <1>11, <2>1, ThrowKeeps DEF CycleSubmits, Throw, EndCycle
  <2>2. CASE cycle' = [cycle EXCEPT !.pc = "submitting"] /\ UNCHANGED byEpoch
    BY <1>0, <1>1, <2>2 DEF Cycles
  <2> QED BY <1>11, <2>1, <2>2 DEF CycleSubmits
<1>12. ASSUME NEW tx \in txs, TxIsMined(tx)
       PROVE  Held(e)' = Held(e)
  BY <1>0, <1>12 DEF TxIsMined, EndEpoch
<1>13. ASSUME NEW tx \in txs, TxFails(tx) \/ AnswerIsLost(tx)
       PROVE  Held(e)' = Held(e)
  <2>1. Answer(tx, FALSE) /\ UNCHANGED currentEpoch
    BY <1>13 DEF TxFails, AnswerIsLost
  <2>2. CASE Awaited(tx)
    BY <1>0, <2>1, <2>2, ThrowKeeps DEF Answer
  <2>3. CASE ~Awaited(tx)
    <3>1. byEpoch' = byEpoch
      BY <2>1, <2>3 DEF Answer
    <3>2. cycle' = cycle \/ (cycle' = Idle /\ cycle.pc = "closing")
      BY <2>1, <2>3 DEF Answer
    <3> QED BY <1>0, <1>1, <3>1, <3>2 DEF TypeInv, ProcessInv
  <2> QED BY <2>2, <2>3
<1> QED
  BY <1>2, <1>3, <1>4, <1>5, <1>6, <1>7, <1>8, <1>9, <1>10, <1>11, <1>12, <1>13, <1>14
  DEF Next, Environment, Watcher, Cycle, Failure, Inclusion

\* A stray is put beside what is queued, at worst instead of nothing.
LEMMA StraysAddOnly ==
  ASSUME TypeInv, NEW e \in Epochs, StrayQueued(e)
  PROVE  Held(e) \subseteq Held(e)'
<1>1. PICK s \in Strays : StrayArrives(s, e)
  BY DEF StrayQueued
<1>2. cycle' = cycle /\ currentEpoch' = currentEpoch /\ Enqueue(e, {s})
  BY <1>1 DEF StrayArrives
<1>3. IsFiniteSet({s}) /\ {s} \in SUBSET Reveals
  BY FS_Singleton DEF Reveals
<1>4. byEpoch[e] \subseteq byEpoch'[e]
  BY <1>2, <1>3, EnqueueQueues DEF TypeInv
<1> QED BY <1>2, <1>4 DEF Held

\* The three invariants on which the reveals rest hold in every behaviour.
LEMMA EpochCorrect == Spec => [](TypeInv /\ EpochInv /\ RollsAndCyclesExclude)
<1>1. Init => EpochInv
  <2> SUFFICES ASSUME Init PROVE EpochInv
    OBVIOUS
  <2>1. \A o \in Orders : home[o] <= epoch_id /\ label[o] <= home[o]
    BY DEF Init, None
  <2> QED BY <2>1 DEF Init, EpochInv, Idle, Asleep
<1>2. Spec => []TypeInv
  BY TypeInit, TypeStep, PTL DEF Spec
<1>3. TypeInv /\ EpochInv /\ [Next]_vars => EpochInv'
  BY EpochStep
<1> QED BY <1>1, <1>2, <1>3, RollsAndCyclesExcludeCorrect, PTL DEF Spec

\* M2: reveals that suffice to clear the expired epoch are lost neither by a
\* failing cycle nor by a lost answer, an eviction or the cap: the daemon retries
\* with all of them, as long as no stray is held beside them.
THEOREM MatchingRevealsSurviveCorrect == Spec => MatchingRevealsSurvive
<1>1. TypeInv /\ EpochInv /\ RollsAndCyclesExclude /\ [Next]_vars
        => \A e \in Epochs :
             (/\ expired /\ epoch_id = e /\ epoch_id' = e
              /\ OrdersOf(e) # {} /\ Replays(e, Held(e)) /\ Held(e) \cap Strays = {}
              /\ e \notin no_cross' /\ ~Crash)
             => Held(e) \subseteq Held(e)'
  BY RevealsSurvive, StraysAddOnly
<1> QED BY <1>1, EpochCorrect, PTL DEF Spec, MatchingRevealsSurvive

-----------------------------------------------------------------------------
(* Complete epochs.                                                         *)

\* While it is expired, a complete epoch without a cycle that found nothing to
\* cross has its reveals in the daemon and no bare close on its way.
Protected(e) ==
  /\ OrdersOf(e) # {} /\ Replays(e, Held(e)) /\ Held(e) \cap Strays = {}
  /\ watcher.pc # "fee" /\ txs \cap CloseTxs = {}

CompleteInv ==
  /\ \A e \in complete : e <= epoch_id /\ (e = epoch_id => expired)
  /\ \A e \in Epochs : e >= epoch_id => outcome[e] = "open"
  /\ (epoch_id \in complete /\ epoch_id \notin no_cross) => Protected(epoch_id)
  /\ CompleteEpochsAreNotRolled

\* How an epoch ends, and what is remembered of it.
LEMMA OutcomeMoves ==
  ASSUME TypeInv, [Next]_vars
  PROVE  /\ no_cross \subseteq no_cross'
         /\ EpochExpires \/ complete' \subseteq complete
         /\ \/ UNCHANGED outcome
            \/ expired /\ EndEpoch("rival")
            \/ expired /\ EndEpoch("cleared")
            \/ expired /\ EndEpoch("closed") /\ txs \cap CloseTxs # {}
<1>1. CASE EpochExpires \/ RivalEndsEpoch \/ Crash \/ CycleFindsNoCross
  BY <1>1 DEF EpochExpires, RivalEndsEpoch, Crash, CycleFindsNoCross, chainVars, historyVars
<1>2. ASSUME NEW tx \in txs, TxIsMined(tx)
      PROVE  /\ UNCHANGED historyVars /\ expired
             /\ \/ EndEpoch("cleared")
                \/ EndEpoch("closed") /\ txs \cap CloseTxs # {}
  <2>1. UNCHANGED historyVars /\ expired
    BY <1>2 DEF TxIsMined, Valid
  <2>2. tx.kind = "clear" \/ tx \in CloseTxs
    BY DEF TypeInv, ChainInv, ClearTx
  <2>3. EndEpoch("cleared") \/ (EndEpoch("closed") /\ tx.kind # "clear")
    BY <1>2 DEF TxIsMined
  <2> QED BY <2>1, <2>2, <2>3
<1>3. CASE \/ PoolsChange \/ CancellationIsMined
           \/ (\E o \in Orders : SubmitOrder(o) \/ Reveal(o))
           \/ (\E s \in Strays, d \in StrayEpochs : StrayArrives(s, d))
           \/ PollEpoch \/ Decide \/ PollFails \/ SendRoll \/ CooldownEnds \/ FaultsEnd
           \/ CycleReadsBlock \/ CycleReadsEpoch \/ CycleDrains \/ CycleFails \/ CycleComputes
           \/ (\E written \in BOOLEAN : CycleSubmits(written))
           \/ (\E tx \in txs : AnswerIsLost(tx) \/ TxFails(tx)) \/ UNCHANGED vars
  BY <1>3 DEF PoolsChange, CancellationIsMined, SubmitOrder, Reveal, StrayArrives, PollEpoch, Decide,
     PollFails, SendRoll, CooldownEnds, FaultsEnd, CycleReadsBlock, CycleReadsEpoch,
     CycleDrains, CycleFails, CycleComputes, CycleSubmits, AnswerIsLost, TxFails, vars,
     chainVars, historyVars
<1> QED
  BY <1>1, <1>2, <1>3 DEF Next, Environment, Watcher, Cycle, Failure, Inclusion, historyVars

\* A bare close is sent by a roll, or by a cycle that found nothing to cross.
LEMMA ClosesAreSent ==
  ASSUME TypeInv, [Next]_vars
  PROVE  \/ txs' \cap CloseTxs \subseteq txs
         \/ watcher.pc = "fee"
         \/ cycle.pc = "pools" /\ cycle.epoch \in no_cross'
<1>1. CASE SendRoll
  BY <1>1 DEF SendRoll
<1>2. CASE CycleFindsNoCross
  BY <1>2 DEF CycleFindsNoCross
<1>3. ASSUME NEW written \in BOOLEAN, CycleSubmits(written)
      PROVE  txs' \cap CloseTxs \subseteq txs
  <2>1. ClearTx(cycle.epoch, cycle.pools) \notin CloseTxs
    BY DEF ClearTx, CloseTxs, CloseTx
  <2> QED BY <1>3, <2>1 DEF CycleSubmits
<1>4. CASE \/ EpochExpires \/ PoolsChange \/ RivalEndsEpoch \/ CancellationIsMined
           \/ (\E o \in Orders : SubmitOrder(o) \/ Reveal(o))
           \/ (\E s \in Strays, d \in StrayEpochs : StrayArrives(s, d))
           \/ PollEpoch \/ Decide \/ PollFails \/ CooldownEnds \/ FaultsEnd \/ Crash
           \/ CycleReadsBlock \/ CycleReadsEpoch \/ CycleDrains \/ CycleFails \/ CycleComputes
           \/ (\E tx \in txs : TxIsMined(tx) \/ AnswerIsLost(tx) \/ TxFails(tx))
           \/ UNCHANGED vars
  BY <1>4 DEF EpochExpires, PoolsChange, RivalEndsEpoch, CancellationIsMined, SubmitOrder,
     Reveal, StrayArrives, PollEpoch, Decide, PollFails, CooldownEnds, FaultsEnd, Crash, CycleReadsBlock,
     CycleReadsEpoch, CycleDrains, CycleFails, CycleComputes, TxIsMined, AnswerIsLost,
     TxFails, vars
<1> QED
  BY <1>1, <1>2, <1>3, <1>4 DEF Next, Environment, Watcher, Cycle, Failure, Inclusion

\* Nothing the daemon does takes the protection from the current epoch.
LEMMA ProtectedStep ==
  ASSUME TypeInv, EpochInv, RollsAndCyclesExclude, CompleteInv, [Next]_vars,
         epoch_id' \in complete', epoch_id' \notin no_cross'
  PROVE  Protected(epoch_id)'
<1>0. epoch_id \in Epochs /\ epoch_id \in Nat /\ complete \subseteq Epochs
  BY AggregatorConstants DEF TypeInv, ChainInv, Epochs
<1>1. CASE EpochExpires
  <2>1. /\ UNCHANGED <<epoch_id, home, byEpoch, cycle, watcher, txs>> /\ ~expired
        /\ watcher.pc = "sleep" /\ txs \cap CloseTxs = {}
    BY <1>1 DEF EpochExpires, queueVars
  <2>2. /\ OrdersOf(epoch_id) # {} /\ byEpoch[epoch_id] = OrdersOf(epoch_id)
        /\ OrdersOf(epoch_id) \cap Drifted = {}
    BY <1>1, <2>1 DEF EpochExpires, CompleteInv
  <2>3. Held(epoch_id) = byEpoch[epoch_id]
    \* The reveals of an epoch are not drained before it has expired.
    BY <1>0, <2>1 DEF Held, EpochInv, Clock, TypeInv, ProcessInv
  <2>4. OrdersOf(epoch_id)' = OrdersOf(epoch_id) /\ Held(epoch_id)' = Held(epoch_id)
    BY <2>1 DEF OrdersOf, Held
  <2>5. epoch_id' = epoch_id /\ OrdersOf(epoch_id) \subseteq Orders
    BY <2>1 DEF OrdersOf
  <2> QED BY <2>1, <2>2, <2>3, <2>4, <2>5, AggregatorConstants DEF Protected, Replays
<1>2. CASE UNCHANGED <<epoch_id, expired>> /\ ~EpochExpires
  <2>1. epoch_id \in complete /\ epoch_id \notin no_cross /\ expired /\ ~Crash
    BY <1>2, OutcomeMoves DEF CompleteInv, Crash
  <2>2. /\ OrdersOf(epoch_id) # {} /\ Replays(epoch_id, Held(epoch_id))
        /\ Held(epoch_id) \cap Strays = {}
        /\ watcher.pc # "fee" /\ txs \cap CloseTxs = {}
    BY <2>1 DEF CompleteInv, Protected
  <2>3. OrdersOf(epoch_id)' = OrdersOf(epoch_id)
    BY <1>2, <2>1, OrdersMove DEF OrdersOf, chainVars
  <2>4. Held(epoch_id)' = Held(epoch_id)
    <3>1. ASSUME NEW e \in Epochs, epoch_id = e
          PROVE  Held(e)' = Held(e)
      \* A stray queued for the epoch would have ended the promise.
      <4>1. ~StrayQueued(e)
        BY <1>2, <3>1 DEF StrayQueued, StrayArrives
      <4> QED BY <1>2, <2>1, <2>2, <3>1, <4>1, RevealsSurvive
    <3> QED BY <1>0, <1>2, <3>1 DEF Held
  <2>5. watcher'.pc # "fee"
    <3>1. ASSUME watcher.pc # "sleep", byEpoch'[watcher.epoch] = {}, ~clearingInFlight,
                 UNCHANGED cycle
          PROVE  FALSE
      \* A roll needs an empty queue and no cycle: then nothing is held.
      <4>1. watcher.epoch = epoch_id /\ cycle.reveals = {}
        BY <2>1, <3>1 DEF EpochInv, RollsAndCyclesExclude, TypeInv, ProcessInv
      <4>2. Held(epoch_id)' = {}
        BY <1>2, <3>1, <4>1 DEF Held
      <4> QED BY <2>2, <2>4, <4>2 DEF Replays
    <3> QED BY <2>2, <3>1, WatcherMoves
  <2>6. txs' \cap CloseTxs = {}
    BY <1>2, <2>1, <2>2, ClosesAreSent DEF EpochInv
  <2> QED BY <1>2, <2>2, <2>3, <2>4, <2>5, <2>6 DEF Protected, Replays
<1>3. CASE expired /\ epoch_id' = epoch_id + 1 /\ expired' = FALSE /\ ~EpochExpires
  BY <1>0, <1>3, OutcomeMoves DEF CompleteInv
<1> QED BY <1>1, <1>2, <1>3, EpochMoves

\* Protection is inductive, and it keeps complete epochs from being rolled.
LEMMA CompleteStep ==
  ASSUME TypeInv, EpochInv, RollsAndCyclesExclude, CompleteInv, [Next]_vars
  PROVE  CompleteInv'
<1>0. /\ epoch_id \in Nat /\ epoch_id' \in Nat /\ complete \subseteq Epochs
      /\ \A e \in Epochs : e \in Nat
      /\ outcome \in [Epochs -> {"open", "closed", "cleared", "rival"}]
  BY ChainStep, AggregatorConstants DEF TypeInv, ChainInv, Epochs
<1>1. \A e \in complete' : e <= epoch_id' /\ (e = epoch_id' => expired')
  <2>1. CASE EpochExpires
    BY <1>0, <2>1 DEF EpochExpires, CompleteInv
  <2>2. CASE ~EpochExpires
    <3>1. complete' \subseteq complete
      BY <2>2, OutcomeMoves
    <3>2. CASE UNCHANGED <<epoch_id, expired>>
      BY <3>1, <3>2 DEF CompleteInv
    <3>3. CASE epoch_id' = epoch_id + 1
      BY <1>0, <3>1, <3>3 DEF CompleteInv
    <3> QED BY <2>2, <3>2, <3>3, EpochMoves
  <2> QED BY <2>1, <2>2
<1>2. \A e \in Epochs : e >= epoch_id' => outcome'[e] = "open"
  <2>1. CASE UNCHANGED outcome
    <3>1. epoch_id <= epoch_id'
      <4>1. CASE UNCHANGED epoch_id
        BY <1>0, <4>1
      <4>2. CASE epoch_id' = epoch_id + 1
        BY <1>0, <4>2
      <4> QED BY <4>1, <4>2, EpochMoves DEF EpochExpires
    <3> QED BY <1>0, <2>1, <3>1 DEF CompleteInv
  <2>2. ASSUME NEW how, EndEpoch(how)
        PROVE  \A e \in Epochs : e >= epoch_id' => outcome'[e] = "open"
    BY <1>0, <2>2 DEF EndEpoch, CompleteInv
  <2> QED BY <2>1, <2>2, OutcomeMoves
<1>3. CompleteEpochsAreNotRolled'
  <2> SUFFICES ASSUME NEW e \in complete', outcome'[e] = "closed"
               PROVE  e \in no_cross'
    BY DEF CompleteEpochsAreNotRolled
  <2>1. e \in Epochs
    BY ChainStep DEF ChainInv
  <2>2. CASE outcome'[e] = outcome[e]
    <3>1. e \in complete
      <4>1. CASE EpochExpires
        <5>1. e \in complete \cup {epoch_id} /\ outcome[epoch_id] = "open"
          BY <1>0, <4>1 DEF EpochExpires, CompleteInv, TypeInv, ChainInv
        <5> QED BY <2>2, <5>1
      <4>2. CASE ~EpochExpires
        BY <4>2, OutcomeMoves
      <4> QED BY <4>1, <4>2
    <3> QED BY <2>2, <3>1, OutcomeMoves DEF CompleteInv, CompleteEpochsAreNotRolled
  <2>3. CASE outcome'[e] # outcome[e]
    <3>1. e = epoch_id /\ txs \cap CloseTxs # {} /\ ~EpochExpires
      BY <1>0, <2>1, <2>3, OutcomeMoves DEF EndEpoch, EpochExpires
    <3>2. e \in complete
      BY <3>1, OutcomeMoves
    <3> QED BY <3>1, <3>2, OutcomeMoves DEF CompleteInv, Protected
  <2> QED BY <2>2, <2>3
<1>4. (epoch_id \in complete /\ epoch_id \notin no_cross)' => Protected(epoch_id)'
  BY ProtectedStep
<1> QED BY <1>1, <1>2, <1>3, <1>4 DEF CompleteInv

\* Epoch 45: if all its reveals and only they were queued when it expired, and no
\* stray since, the daemon does not close an epoch bare, unless a cycle found
\* nothing to cross.
THEOREM CompleteEpochsAreNotRolledCorrect == Spec => []CompleteEpochsAreNotRolled
<1>1. Init => CompleteInv
  BY DEF Init, CompleteInv, CompleteEpochsAreNotRolled
<1>2. TypeInv /\ EpochInv /\ RollsAndCyclesExclude /\ CompleteInv /\ [Next]_vars
        => CompleteInv'
  BY CompleteStep
<1>3. CompleteInv => CompleteEpochsAreNotRolled
  BY DEF CompleteInv
<1> QED BY <1>1, <1>2, <1>3, EpochCorrect, PTL DEF Spec
=============================================================================
