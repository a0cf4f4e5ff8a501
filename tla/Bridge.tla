------------------------------- MODULE Bridge -------------------------------
(***************************************************************************)
(* The L1 TokenBridge (contracts-l1/src/TokenBridge.sol), the bridge half  *)
(* of the L2 Token (contracts/token/src/main.nr), and between them the     *)
(* Aztec rollup, its inbox and its outbox, which are not in this           *)
(* repository: a deposit is a message that can be consumed once, an exit   *)
(* is a message that can be consumed once proven, and a reset starts a new *)
(* version of the rollup and ends the old one.                             *)
(*                                                                         *)
(* Content hashes bind amount and mode, so a message is its fields.  L2    *)
(* balances are cut down to each token's supply.                           *)
(***************************************************************************)
EXTENDS Integers, FiniteSets, FiniteSetsExt, Functions

CONSTANTS
  Depositors, SecretHashes,
  L2Tokens, ZERO,            \* L2 token addresses; bytes32(0)
  Amounts, Caps,             \* amounts moved; values of maxTvl, 0 = unlimited
  MAX_U128,
  RECOVERY_WAIT,             \* 90 days
  APPROVAL_TTL,              \* 48 hours
  MaxTime, MaxVersion,       \* bounds: clock, rollup deployments
  MaxMessages, MaxExits,     \* bounds: deposits and exits made
  MaxExtra                   \* bound: issued by the minter, given or lost, when
                             \* more is issued or given

Never == -1
Messages == 1..MaxMessages
Exits == 1..MaxExits
Keys == Depositors \X SecretHashes

ASSUME BridgeConstants ==
  /\ IsFiniteSet(L2Tokens) /\ ZERO \notin L2Tokens
  /\ Amounts \subseteq 1..MAX_U128 /\ Caps \subseteq Nat
  /\ MAX_U128 \in Nat /\ RECOVERY_WAIT \in Nat /\ APPROVAL_TTL \in Nat
  /\ MaxTime \in Nat /\ MaxVersion \in Nat
  /\ MaxMessages \in Nat /\ MaxExits \in Nat /\ MaxExtra \in Nat

VARIABLES
  escrow,              \* l1Token.balanceOf(bridge)
  deposits,            \* by key; amount 0 = no record
  pendingRecoveries, approvedRecoveries, approvalTimestamps,
  allowedL2Senders, l2TokenAddress, l2Version, maxTvl, paused,
  now,
  rollup,              \* the version of the live rollup
  message,             \* in the inbox; amount 0 = not sent
  claimedAt,           \* when a message was consumed on L2
  refundedAt,          \* history: when the deposit of a message was recovered
  supply,              \* total_supply of each L2 token
  exit,                \* in the outbox; amount 0 = not made
  minted,              \* history: issued by minters
  lost                 \* history: supply ended by resets and burns, escrow given

recoveryVars == <<deposits, pendingRecoveries, approvedRecoveries,
                  approvalTimestamps>>
targetVars == <<allowedL2Senders, l2TokenAddress, l2Version>>
settingVars == <<targetVars, maxTvl, paused>>
inboxVars == <<message, claimedAt, refundedAt>>
chainVars == <<now, rollup, supply, minted, lost>>
vars == <<escrow, recoveryVars, settingVars, inboxVars, chainVars, exit>>

NoDeposit == [amount |-> 0, timestamp |-> 0, isPrivate |-> FALSE]
NoKey == <<ZERO, ZERO>>
NoMessage == [key |-> NoKey, token |-> ZERO, version |-> 0,
              amount |-> 0, isPrivate |-> FALSE, at |-> 0]
NoExit == [token |-> ZERO, version |-> 0, amount |-> 0, isPrivate |-> FALSE,
           proven |-> FALSE, paid |-> FALSE]

Init ==
  /\ escrow = 0
  /\ deposits = [k \in Keys |-> NoDeposit]
  /\ pendingRecoveries = {} /\ approvedRecoveries = {}
  /\ approvalTimestamps = [k \in Keys |-> 0]
  /\ l2TokenAddress \in L2Tokens \cup {ZERO}
  /\ allowedL2Senders = {l2TokenAddress} \ {ZERO}
  /\ l2Version = 1 /\ maxTvl \in Caps /\ paused = FALSE
  /\ now = 0 /\ rollup = 1
  /\ message = [i \in Messages |-> NoMessage]
  /\ claimedAt = [i \in Messages |-> Never]
  /\ refundedAt = [i \in Messages |-> Never]
  /\ supply = [t \in L2Tokens |-> 0]
  /\ exit = [j \in Exits |-> NoExit]
  /\ minted = 0 /\ lost = 0

Sent == {i \in Messages : message[i].amount > 0}
Made == {j \in Exits : exit[j].amount > 0}

-----------------------------------------------------------------------------
(* Deposits *)

WithinTvlCap(amount) == maxTvl = 0 \/ escrow + amount <= maxTvl

\* Mutant: a second deposit under a key overwrites the first one's record.
KeyIsAny(k) == TRUE

KeyIsFree(k) == deposits[k].amount = 0

\* Aztec's inbox: the next message index.
SendL2Message(i, m) ==
  /\ i \notin Sent /\ (1..(i - 1)) \subseteq Sent
  /\ message' = [message EXCEPT ![i] = m]
  /\ UNCHANGED <<claimedAt, refundedAt>>

depositToL2(k, amount, isPrivate) ==
  /\ ~ paused /\ l2TokenAddress # ZERO
  /\ WithinTvlCap(amount) /\ amount <= MAX_U128
  /\ KeyIsFree(k)
  /\ deposits' = [deposits EXCEPT ![k] =
       [amount |-> amount, timestamp |-> now, isPrivate |-> isPrivate]]
  /\ escrow' = escrow + amount
  /\ \E i \in Messages :
       SendL2Message(i, [key |-> k, token |-> l2TokenAddress, version |-> l2Version,
                         amount |-> amount, isPrivate |-> isPrivate, at |-> now])
  /\ UNCHANGED <<pendingRecoveries, approvedRecoveries, approvalTimestamps,
                 settingVars, chainVars, exit>>

(* The L2 token.  claim_public and claim_private differ in the tag they    *)
(* expect and the balance they credit; so do the exits in what they burn.  *)

\* Aztec's inbox: a message of the live rollup is consumed once, and never
\* expires.
Claimable(i) == i \in Sent /\ message[i].version = rollup /\ claimedAt[i] = Never

\* Mutant: the supply is not held to its width.
FitsAlways(total) == TRUE

\* Additions of u128 revert on overflow.
Fits(total) == total <= MAX_U128

claim(i) ==
  /\ Claimable(i)
  /\ LET m == message[i] IN
       /\ Fits(supply[m.token] + m.amount)
       /\ supply' = [supply EXCEPT ![m.token] = @ + m.amount]
  /\ claimedAt' = [claimedAt EXCEPT ![i] = now]
  /\ UNCHANGED <<escrow, recoveryVars, settingVars, message, refundedAt,
                 now, rollup, minted, lost, exit>>

\* Mutant: an exit that burns nothing.
NothingBurned(t, amount) == supply

Burned(t, amount) == [supply EXCEPT ![t] = @ - amount]

exit_to_l1(t, amount, isPrivate) ==
  /\ supply[t] >= amount
  /\ supply' = Burned(t, amount)
  /\ \E j \in Exits :
       /\ j \notin Made /\ (1..(j - 1)) \subseteq Made
       /\ exit' = [exit EXCEPT ![j] =
            [token |-> t, version |-> rollup, amount |-> amount,
             isPrivate |-> isPrivate, proven |-> FALSE, paid |-> FALSE]]
  /\ UNCHANGED <<escrow, recoveryVars, settingVars, inboxVars, now, rollup, minted, lost>>

\* The token keeps its minter beside the portal.
mint(t, amount) ==
  /\ minted + lost + amount <= MaxExtra
  /\ Fits(supply[t] + amount)
  /\ supply' = [supply EXCEPT ![t] = @ + amount]
  /\ minted' = minted + amount
  /\ UNCHANGED <<escrow, recoveryVars, settingVars, inboxVars, now, rollup, lost, exit>>

\* burn_private and burn_public: no message leaves, so the escrow behind what is
\* burned stays.
burn(t, amount) ==
  /\ supply[t] >= amount
  /\ supply' = Burned(t, amount)
  /\ lost' = lost + amount
  /\ UNCHANGED <<escrow, recoveryVars, settingVars, inboxVars, now, rollup, minted, exit>>

-----------------------------------------------------------------------------
(* Withdrawals *)

\* Aztec's outbox of the version the bridge is pointed at.
Consume(j) ==
  /\ j \in Made /\ exit[j].proven /\ exit[j].version = l2Version
  /\ ~ exit[j].paid
  /\ exit' = [exit EXCEPT ![j].paid = TRUE]

Accepted(t) == t = l2TokenAddress \/ t \in allowedL2Senders

Withdraw(j, isPrivate) ==
  /\ ~ paused
  /\ exit[j].isPrivate = isPrivate
  /\ Accepted(exit[j].token)
  /\ Consume(j)
  /\ escrow >= exit[j].amount
  /\ escrow' = escrow - exit[j].amount
  /\ UNCHANGED <<recoveryVars, settingVars, inboxVars, chainVars>>

withdraw(j) == Withdraw(j, FALSE)
withdrawPrivate(j) == Withdraw(j, TRUE)

-----------------------------------------------------------------------------
(* Recovery of a deposit that was never claimed *)

requestRecovery(k) ==
  /\ deposits[k].amount # 0
  /\ now >= deposits[k].timestamp + RECOVERY_WAIT
  /\ pendingRecoveries' = pendingRecoveries \cup {k}
  /\ UNCHANGED <<escrow, deposits, approvedRecoveries, approvalTimestamps,
                 settingVars, inboxVars, chainVars, exit>>

LatestMessage(k) == Max({i \in Sent : message[i].key = k})

\* What governance makes sure of by hand, L1 being unable to read L2.
VerifiedUnclaimed(k) == claimedAt[LatestMessage(k)] = Never

approveRecovery(k) ==
  /\ k \in pendingRecoveries
  /\ approvedRecoveries' = approvedRecoveries \cup {k}
  /\ approvalTimestamps' = [approvalTimestamps EXCEPT ![k] = now]
  /\ UNCHANGED <<escrow, deposits, pendingRecoveries, settingVars, inboxVars,
                 chainVars, exit>>

revokeRecoveryApproval(k) ==
  /\ approvedRecoveries' = approvedRecoveries \ {k}
  /\ approvalTimestamps' = [approvalTimestamps EXCEPT ![k] = 0]
  /\ UNCHANGED <<escrow, deposits, pendingRecoveries, settingVars, inboxVars,
                 chainVars, exit>>

\* Mutant: the approval has no term.
ApprovedOnce(k) == k \in approvedRecoveries

ApprovalIsFresh(k) ==
  /\ k \in approvedRecoveries
  /\ now <= approvalTimestamps[k] + APPROVAL_TTL

\* Mutant: the request outlives the deposit it was made for.
ForgetApproval(k) ==
  /\ deposits' = [deposits EXCEPT ![k] = NoDeposit]
  /\ approvedRecoveries' = approvedRecoveries \ {k}
  /\ approvalTimestamps' = [approvalTimestamps EXCEPT ![k] = 0]
  /\ UNCHANGED pendingRecoveries

ForgetDeposit(k) ==
  /\ deposits' = [deposits EXCEPT ![k] = NoDeposit]
  /\ pendingRecoveries' = pendingRecoveries \ {k}
  /\ approvedRecoveries' = approvedRecoveries \ {k}
  /\ approvalTimestamps' = [approvalTimestamps EXCEPT ![k] = 0]

executeRecovery(k) ==
  /\ ~ paused
  /\ ApprovalIsFresh(k)
  /\ escrow >= deposits[k].amount
  /\ escrow' = escrow - deposits[k].amount
  /\ ForgetDeposit(k)
  /\ refundedAt' = [refundedAt EXCEPT ![LatestMessage(k)] = now]
  /\ UNCHANGED <<settingVars, message, claimedAt, chainVars, exit>>

-----------------------------------------------------------------------------
(* Governance and emergency *)

SettingsFrame == UNCHANGED <<escrow, recoveryVars, inboxVars, chainVars, exit>>

pause ==
  /\ ~ paused /\ paused' = TRUE
  /\ UNCHANGED <<targetVars, maxTvl>> /\ SettingsFrame

unpause ==
  /\ paused /\ paused' = FALSE
  /\ UNCHANGED <<targetVars, maxTvl>> /\ SettingsFrame

setMaxTvl(cap) ==
  /\ maxTvl' = cap
  /\ UNCHANGED <<targetVars, paused>> /\ SettingsFrame

\* Mutant: only the new token may send exits.
OnlyNewSender(t) == {t}

SendersAfter(t) == allowedL2Senders \cup ({l2TokenAddress} \ {ZERO}) \cup {t}

setL2TokenAddress(t) ==
  /\ allowedL2Senders' = SendersAfter(t)
  /\ l2TokenAddress' = t
  /\ UNCHANGED <<l2Version, maxTvl, paused>> /\ SettingsFrame

setAztecTarget(version) ==
  /\ l2Version' = version
  /\ UNCHANGED <<allowedL2Senders, l2TokenAddress, maxTvl, paused>> /\ SettingsFrame

-----------------------------------------------------------------------------
(* The rollup *)

ProveExit(j) ==
  /\ j \in Made /\ exit[j].version = rollup /\ ~ exit[j].proven
  /\ exit' = [exit EXCEPT ![j].proven = TRUE]
  /\ UNCHANGED <<escrow, recoveryVars, settingVars, inboxVars, chainVars>>

\* Anyone may transfer tokens of the L1 token to the bridge's address.
giveToBridge(amount) ==
  /\ minted + lost + amount <= MaxExtra
  /\ escrow' = escrow + amount
  /\ lost' = lost + amount
  /\ UNCHANGED <<recoveryVars, settingVars, inboxVars, now, rollup, supply, minted, exit>>

Total(f) == SumFunctionOnSet(f, DOMAIN f)

\* A testnet reset: tokens are deployed anew, and messages of the old version
\* are neither delivered nor proven any more.
Reset ==
  /\ rollup < MaxVersion /\ rollup' = rollup + 1
  /\ supply' = [t \in L2Tokens |-> 0]
  /\ lost' = lost + Total(supply)
  /\ UNCHANGED <<escrow, recoveryVars, settingVars, inboxVars, now, minted, exit>>

Tick ==
  /\ now < MaxTime /\ now' = now + 1
  /\ UNCHANGED <<escrow, recoveryVars, settingVars, inboxVars, rollup, supply,
                 minted, lost, exit>>

\* Everyone but the governance that decides on recoveries.
OthersNext ==
  \/ \E k \in Keys :
       \/ \E a \in Amounts, p \in BOOLEAN : depositToL2(k, a, p)
       \/ requestRecovery(k) \/ executeRecovery(k)
  \/ \E i \in Messages : claim(i)
  \/ \E t \in L2Tokens, a \in Amounts :
       \/ mint(t, a) \/ burn(t, a)
       \/ \E p \in BOOLEAN : exit_to_l1(t, a, p)
  \/ \E j \in Exits : withdraw(j) \/ withdrawPrivate(j) \/ ProveExit(j)
  \/ \E a \in Amounts : giveToBridge(a)
  \/ pause \/ unpause
  \/ \E cap \in Caps : setMaxTvl(cap)
  \/ \E t \in L2Tokens : setL2TokenAddress(t)
  \/ \E v \in 1..rollup : setAztecTarget(v)
  \/ Reset \/ Tick

\* Governance verifies and calls in one step: it holds the role itself.
Next ==
  \/ OthersNext
  \/ \E k \in Keys :
       \/ k \in pendingRecoveries /\ VerifiedUnclaimed(k) /\ approveRecovery(k)
       \/ revokeRecoveryApproval(k)

Spec == Init /\ [][Next]_vars

-----------------------------------------------------------------------------
(* Properties *)

DepositRecords == [amount : Amounts \cup {0}, timestamp : 0..MaxTime, isPrivate : BOOLEAN]
MessageRecords == [key : Keys \cup {NoKey}, token : L2Tokens \cup {ZERO}, version : Nat,
                   amount : Amounts \cup {0}, isPrivate : BOOLEAN, at : 0..MaxTime]
ExitRecords == [token : L2Tokens \cup {ZERO}, version : Nat, amount : Amounts \cup {0},
                isPrivate : BOOLEAN, proven : BOOLEAN, paid : BOOLEAN]

\* The records and messages have their shape, the supply of every token is kept
\* to its 128 bits, and the escrow never goes below nothing.
TypeOK ==
  /\ escrow \in Nat
  /\ deposits \in [Keys -> DepositRecords]
  /\ pendingRecoveries \subseteq Keys /\ approvedRecoveries \subseteq Keys
  /\ approvalTimestamps \in [Keys -> 0..MaxTime]
  /\ allowedL2Senders \subseteq L2Tokens /\ l2TokenAddress \in L2Tokens \cup {ZERO}
  /\ l2Version \in 1..rollup /\ maxTvl \in Caps /\ paused \in BOOLEAN
  /\ now \in 0..MaxTime /\ rollup \in 1..(MaxVersion + 1)
  /\ message \in [Messages -> MessageRecords]
  /\ claimedAt \in [Messages -> 0..MaxTime \cup {Never}]
  /\ refundedAt \in [Messages -> 0..MaxTime \cup {Never}]
  /\ supply \in [L2Tokens -> 0..MAX_U128]
  /\ exit \in [Exits -> ExitRecords]
  /\ minted \in 0..MaxExtra /\ lost \in Nat

\* Every deposit that was not recovered still has its own record, as it was
\* made: whatever else happens under its key, claimed or lost, the depositor's
\* right to ask for this amount, from this time, is kept.
EveryDepositIsRecoverable ==
  \A i \in Sent :
    refundedAt[i] = Never =>
      deposits[message[i].key] = [amount |-> message[i].amount,
                                  timestamp |-> message[i].at,
                                  isPrivate |-> message[i].isPrivate]

\* A recovery is paid only after the full wait of the deposit it returns, also
\* when the key was used, recovered and used again.
RefundsWait ==
  \A i \in Sent : refundedAt[i] # Never => refundedAt[i] >= message[i].at + RECOVERY_WAIT

\* What the term of an approval is for: a deposit that was claimed is not
\* refunded later than APPROVAL_TTL after the claim.
RefundsAreFresh ==
  \A i \in Sent :
    claimedAt[i] # Never /\ refundedAt[i] # Never =>
      refundedAt[i] <= claimedAt[i] + APPROVAL_TTL

\* Whatever token a deposit was ever sent to, exits of that token are accepted
\* for good: what a rotation leaves on the old token can still come home.
RotationKeepsExits == \A i \in Sent : Accepted(message[i].token)

\* What is on its way to L2, what was both issued there and refunded here, and
\* what is on its way back.
arrivingOf == [i \in Messages |->
  IF claimedAt[i] = Never /\ refundedAt[i] = Never THEN message[i].amount ELSE 0]
doubledOf == [i \in Messages |->
  IF claimedAt[i] # Never /\ refundedAt[i] # Never THEN message[i].amount ELSE 0]
leavingOf == [j \in Exits |-> IF exit[j].paid THEN 0 ELSE exit[j].amount]

Ledger == INSTANCE BridgeLedger WITH
  Quantities <- Amounts,
  locked <- escrow,
  arriving <- Total(arrivingOf),
  circulating <- Total(supply),
  leaving <- Total(leavingOf),
  lost <- lost,
  debt <- minted + Total(doubledOf)

\* The bridge keeps its ledger: escrow and debt are at any time what is on its
\* way to L2, on L2, on its way back, or has no claimant any more (lost with a
\* rollup, burned on L2, given to the bridge), and the debt grows only by what
\* the minter issues and by refunds of claimed deposits and claims of refunded
\* ones.
ImplementsLedger == Ledger!LedgerSpec

=============================================================================
