------------------------------ MODULE Treasury ------------------------------
(***************************************************************************)
(* The Treasury contract (contracts/treasury/src/main.nr) on top of the    *)
(* AggregatorRegistry: it pays the winner of each clearing and keeps the   *)
(* queue of relayer claims.  What it believes it owns, tracked_balance, is *)
(* kept apart from its balance in the Token and credited by a deploy       *)
(* script (scripts/redeploy-testnet.ts) that can be resumed after a crash. *)
(*                                                                         *)
(* A RelayerClaim is cut down to the fields the contract reads.            *)
(***************************************************************************)
EXTENDS AggregatorRegistry, Sequences, FiniteSetsExt

CONSTANTS
  Amounts,                   \* amounts deposited, claimed and asked as a fee
  aggregator_fee,            \* of the Orderbook
  TREASURY_SEED,             \* of the deploy script
  CrashAfter,                \* steps whose "done" flag may fail to be saved
  MAX_PENDING_RELAYER_CLAIMS, MAX_PENDING_PER_SENDER,
  MaxClaimId                 \* bound: claims queued

Steps == {"set_treasury", "mint", "seed"}

ASSUME TreasuryConstants ==
  /\ Amounts \subseteq Nat /\ aggregator_fee \in Nat /\ TREASURY_SEED \in Nat
  /\ CrashAfter \subseteq Steps
  /\ MAX_PENDING_RELAYER_CLAIMS \in Nat /\ MAX_PENDING_PER_SENDER \in Nat
  /\ MaxClaimId \in Nat

VARIABLES
  tracked_balance,
  treasury_balance,       \* bond tokens the treasury owns (Token.public_balances)
  pending_relayer_claims, \* slots 0..count-1, as a sequence
  pending_relayer_claims_next_id,
  pending_by_sender,
  treasury_wired,         \* Orderbook.treasury # ZERO
  script_done,            \* the "done" flags in the deploy script's state file
  consumed                \* history: times each claim id was consumed

fundVars == <<tracked_balance, treasury_balance>>
queueVars == <<pending_relayer_claims, pending_relayer_claims_next_id,
               pending_by_sender, consumed>>
deployVars == <<treasury_wired, script_done>>
treasuryVars == <<fundVars, queueVars, deployVars>>
vars == <<registryVars, treasuryVars>>

RelayerClaims ==
  [id : 0..MaxClaimId, amount : Amounts, fee : Amounts, submitter : Accounts]

Init ==
  /\ RegistryInit
  /\ tracked_balance = 0 /\ treasury_balance = 0
  /\ pending_relayer_claims = <<>> /\ pending_relayer_claims_next_id = 0
  /\ pending_by_sender = [a \in Accounts |-> 0]
  /\ treasury_wired = FALSE /\ script_done = {}
  /\ consumed = [i \in 0..MaxClaimId |-> 0]

Smaller(m, n) == IF m < n THEN m ELSE n

(* Payments *)

\* Mutant: the transfer is made and not written down.
PayOutUntracked(pay) ==
  /\ treasury_balance >= pay
  /\ treasury_balance' = treasury_balance - pay
  /\ UNCHANGED tracked_balance

\* transfer_public_to_public to an account, with the decrement of what the
\* treasury tracks; the transfer reverts if the balance cannot cover it.
PayOut(pay) ==
  /\ treasury_balance >= pay
  /\ treasury_balance' = treasury_balance - pay
  /\ tracked_balance' = tracked_balance - pay

\* The end of the Orderbook's verified clearing by a bonded aggregator; the
\* call reverts as long as no treasury is wired.
pay_aggregator(winner) ==
  /\ IsRegistered(winner)
  /\ treasury_wired
  /\ PayOut(Smaller(aggregator_fee, tracked_balance))
  /\ UNCHANGED <<registryVars, queueVars, deployVars>>

deposit(amount) ==
  /\ treasury_balance + amount <= MAX_U128
  /\ tracked_balance + amount <= MAX_U128
  /\ treasury_balance' = treasury_balance + amount
  /\ tracked_balance' = tracked_balance + amount
  /\ UNCHANGED <<registryVars, queueVars, deployVars>>

(* The deploy script: a step is skipped if its flag is in the state file.  *)
(* The script saves the flag after the transaction is mined; if it dies in *)
(* between, the resumed script sends the transaction again.                *)

SaveStep(step) ==
  \/ script_done' = script_done \cup {step}
  \/ step \in CrashAfter /\ UNCHANGED script_done

\* set_treasury is one-shot: a resumed script that repeats it stops there.
set_treasury ==
  /\ "set_treasury" \notin script_done
  /\ ~ treasury_wired
  /\ treasury_wired' = TRUE
  /\ SaveStep("set_treasury")
  /\ UNCHANGED <<registryVars, fundVars, queueVars>>

MintSeed ==
  /\ "set_treasury" \in script_done /\ "mint" \notin script_done
  /\ treasury_balance + TREASURY_SEED <= MAX_U128
  /\ treasury_balance' = treasury_balance + TREASURY_SEED
  /\ SaveStep("mint")
  /\ UNCHANGED <<registryVars, tracked_balance, queueVars, treasury_wired>>

\* Trusts that the deployer minted `amount` before.
seed_public ==
  /\ "mint" \in script_done /\ "seed" \notin script_done
  /\ tracked_balance + TREASURY_SEED <= MAX_U128
  /\ tracked_balance' = tracked_balance + TREASURY_SEED
  /\ SaveStep("seed")
  /\ UNCHANGED <<registryVars, treasury_balance, queueVars, treasury_wired>>

(* The relayer claim queue *)

count == Len(pending_relayer_claims)

\* Mutant: the cap is inclusive.
under_or_at_sender_cap(sender) == pending_by_sender[sender] <= MAX_PENDING_PER_SENDER

under_sender_cap(sender) == pending_by_sender[sender] < MAX_PENDING_PER_SENDER

queue_relayer_claim(sender, amount, fee) ==
  /\ amount > 0 /\ fee > 0 /\ fee <= amount
  /\ count < MAX_PENDING_RELAYER_CLAIMS
  /\ under_sender_cap(sender)
  /\ pending_relayer_claims_next_id < MaxClaimId
  /\ pending_relayer_claims' =
       Append(pending_relayer_claims,
              [id |-> pending_relayer_claims_next_id, amount |-> amount,
               fee |-> fee, submitter |-> sender])
  /\ pending_relayer_claims_next_id' = pending_relayer_claims_next_id + 1
  /\ pending_by_sender' = [pending_by_sender EXCEPT ![sender] = @ + 1]
  /\ UNCHANGED <<registryVars, fundVars, consumed, deployVars>>

SlotsOf(claim_id) == {k \in 1..count : pending_relayer_claims[k].id = claim_id}

\* Mutant: the last slot is dropped without being moved.
DropLast(slot) == [k \in 1..(count - 1) |-> pending_relayer_claims[k]]

\* Move the last claim into the freed slot and forget the last slot.
Compact(slot) ==
  [k \in 1..(count - 1) |->
     IF k = slot THEN pending_relayer_claims[count] ELSE pending_relayer_claims[k]]

\* Whose counter a consumed claim gives back.
FreedSender(relayer, entry) == entry.submitter

consume_relayer_claim(relayer, claim_id) ==
  /\ IsRegistered(relayer)
  /\ SlotsOf(claim_id) # {}
  /\ LET slot == Max(SlotsOf(claim_id))
         entry == pending_relayer_claims[slot]
         submitter == FreedSender(relayer, entry)
     IN /\ pending_by_sender' =
             [pending_by_sender EXCEPT ![submitter] = IF @ > 0 THEN @ - 1 ELSE @]
        /\ pending_relayer_claims' = Compact(slot)
        /\ PayOut(Smaller(Smaller(entry.fee, entry.amount), tracked_balance))
  /\ consumed' = [consumed EXCEPT ![claim_id] = @ + 1]
  /\ UNCHANGED <<registryVars, pending_relayer_claims_next_id, deployVars>>

Next ==
  \/ RegistryNext /\ UNCHANGED treasuryVars
  \/ \E amount \in Amounts : deposit(amount)
  \/ set_treasury \/ MintSeed \/ seed_public
  \/ \E a \in Accounts :
       \/ pay_aggregator(a)
       \/ \E amount, fee \in Amounts : queue_relayer_claim(a, amount, fee)
       \/ \E i \in 0..MaxClaimId : consume_relayer_claim(a, i)

Spec == Init /\ [][Next]_vars

(* Properties *)

TypeOK ==
  /\ RegistryTypeOK
  /\ tracked_balance \in 0..MAX_U128 /\ treasury_balance \in 0..MAX_U128
  /\ pending_relayer_claims \in Seq(RelayerClaims)
  /\ count <= MAX_PENDING_RELAYER_CLAIMS
  /\ pending_relayer_claims_next_id \in 0..MaxClaimId
  /\ pending_by_sender \in [Accounts -> 0..MAX_PENDING_PER_SENDER]
  /\ treasury_wired \in BOOLEAN /\ script_done \subseteq Steps
  /\ consumed \in [0..MaxClaimId -> Nat]

SlotsBy(a) == {k \in 1..count : pending_relayer_claims[k].submitter = a}

\* The counter of a submitter is the number of slots its claims occupy, however
\* consumption reorders the slots and whoever consumes: no slot is lost to its
\* submitter's cap for ever, and no submitter gets more than its share.
CountersMatchSlots ==
  \A a \in Accounts : pending_by_sender[a] = Cardinality(SlotsBy(a))

\* Every claim ever queued is pending in exactly one slot or was consumed
\* exactly once: moving the last claim into a freed slot neither loses a claim
\* nor lets one be paid twice.
ClaimsOnce ==
  \A i \in 0..MaxClaimId :
    Cardinality(SlotsOf(i)) + consumed[i] =
      IF i < pending_relayer_claims_next_id THEN 1 ELSE 0

\* The treasury owns what it thinks it owns.
TrackedIsBacked == tracked_balance <= treasury_balance

\* What pay_aggregator's comment promises: it never reverts for lack of funds,
\* so a dry treasury does not block clearing.
PayNeverReverts == Smaller(aggregator_fee, tracked_balance) <= treasury_balance

=============================================================================
