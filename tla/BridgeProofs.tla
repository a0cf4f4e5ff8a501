---------------------------- MODULE BridgeProofs ----------------------------
(* Theorems about Bridge, for every value of its constants: the records    *)
(* the recovery of a deposit rests on, the tokens the bridge accepts, and  *)
(* that the bridge implements its ledger.                                  *)
EXTENDS Bridge, SumTheorems

-----------------------------------------------------------------------------
(* Types.                                                                  *)

\* A bridge that was just initialized.
LEMMA InitType == Init => TypeOK
<1> USE BridgeConstants DEF Never
<1>1. /\ NoDeposit \in DepositRecords /\ NoMessage \in MessageRecords
      /\ NoExit \in ExitRecords
  BY DEF NoDeposit, NoMessage, NoExit, DepositRecords, MessageRecords, ExitRecords
<1>2. Init => paused \in BOOLEAN
  BY Zenon DEF Init
<1>3. Init => l2Version \in 1..rollup /\ maxTvl \in Caps /\ l2TokenAddress \in L2Tokens \cup {ZERO}
  BY DEF Init
<1>4. Init => allowedL2Senders \subseteq L2Tokens
  BY DEF Init
<1>5. Init => /\ deposits \in [Keys -> DepositRecords] /\ message \in [Messages -> MessageRecords]
              /\ exit \in [Exits -> ExitRecords]
  BY <1>1 DEF Init
<1> QED BY <1>2, <1>3, <1>4, <1>5 DEF Init, TypeOK

\* Every amount is a natural number.
LEMMA AmountsAreNat == \A a \in Amounts \cup {0} : a \in Nat
BY BridgeConstants

\* What the fields of the records are.
LEMMA Fields ==
  ASSUME TypeOK
  PROVE  /\ \A k \in Keys : /\ deposits[k].amount \in Amounts \cup {0}
                            /\ deposits[k].amount \in Nat
                            /\ deposits[k].timestamp \in 0..MaxTime
                            /\ deposits[k].isPrivate \in BOOLEAN
         /\ \A i \in Messages : /\ message[i].key \in Keys \cup {NoKey}
                                /\ message[i].token \in L2Tokens \cup {ZERO}
                                /\ message[i].amount \in Amounts \cup {0}
                                /\ message[i].amount \in Nat
                                /\ message[i].at \in 0..MaxTime
         /\ \A j \in Exits : /\ exit[j].token \in L2Tokens \cup {ZERO}
                             /\ exit[j].amount \in Amounts \cup {0}
                             /\ exit[j].amount \in Nat
                             /\ exit[j].paid \in BOOLEAN
BY AmountsAreNat DEF TypeOK, DepositRecords, MessageRecords, ExitRecords

\* Deposits, claims, exits, the minter, burns and gifts.
LEMMA TransferType ==
  ASSUME TypeOK,
         \/ \E k \in Keys, a \in Amounts, p \in BOOLEAN : depositToL2(k, a, p)
         \/ \E i \in Messages : claim(i)
         \/ \E t \in L2Tokens, a \in Amounts : mint(t, a)
         \/ \E t \in L2Tokens, a \in Amounts, p \in BOOLEAN : exit_to_l1(t, a, p)
         \/ \E t \in L2Tokens, a \in Amounts : burn(t, a)
         \/ \E a \in Amounts : giveToBridge(a)
  PROVE  TypeOK'
<1> USE BridgeConstants DEF TypeOK, Never, recoveryVars, targetVars, settingVars, inboxVars, chainVars
<1>1. ASSUME NEW k \in Keys, NEW a \in Amounts, NEW p \in BOOLEAN, depositToL2(k, a, p)
      PROVE  TypeOK'
  <2>1. l2TokenAddress \in L2Tokens
    BY <1>1 DEF depositToL2
  <2>2. [amount |-> a, timestamp |-> now, isPrivate |-> p]
          \in DepositRecords
    BY DEF DepositRecords
  <2>3. PICK i \in Messages :
          SendL2Message(i, [key |-> k, token |-> l2TokenAddress, version |-> l2Version,
                            amount |-> a, isPrivate |-> p, at |-> now])
    BY <1>1 DEF depositToL2
  <2>4. [key |-> k, token |-> l2TokenAddress, version |-> l2Version,
         amount |-> a, isPrivate |-> p, at |-> now]
          \in MessageRecords
    BY <2>1 DEF MessageRecords
  <2>5. message' \in [Messages -> MessageRecords]
    BY <2>3, <2>4 DEF SendL2Message
  <2>6. deposits' \in [Keys -> DepositRecords]
    BY <1>1, <2>2 DEF depositToL2
  <2>7. escrow' \in Nat
    BY <1>1 DEF depositToL2
  <2>8. claimedAt' = claimedAt /\ refundedAt' = refundedAt
    BY <2>3 DEF SendL2Message
  <2> QED BY <1>1, <2>5, <2>6, <2>7, <2>8 DEF depositToL2
<1>2. ASSUME NEW i \in Messages, claim(i) PROVE TypeOK'
  <2>1. message[i].token \in L2Tokens \cup {ZERO} /\ message[i].amount \in Nat
    BY Fields
  <2>2. /\ supply[message[i].token] + message[i].amount <= MAX_U128
        /\ supply' = [supply EXCEPT ![message[i].token] = @ + message[i].amount]
    BY <1>2 DEF claim, Fits
  <2>3. supply' \in [L2Tokens -> 0..MAX_U128]
    <3>1. CASE message[i].token \in L2Tokens
      BY <2>1, <2>2, <3>1
    <3>2. CASE message[i].token \notin L2Tokens
      BY <2>2, <3>2
    <3> QED BY <3>1, <3>2
  <2>4. claimedAt' \in [Messages -> 0..MaxTime \cup {Never}]
    BY <1>2 DEF claim
  <2> QED BY <1>2, <2>3, <2>4 DEF claim
<1>3. ASSUME NEW t \in L2Tokens, NEW a \in Amounts, mint(t, a) PROVE TypeOK'
  <2>1. supply' \in [L2Tokens -> 0..MAX_U128] /\ minted' \in 0..MaxExtra
    BY <1>3 DEF mint, Fits
  <2> QED BY <1>3, <2>1 DEF mint
<1>4. ASSUME NEW t \in L2Tokens, NEW a \in Amounts, NEW p \in BOOLEAN, exit_to_l1(t, a, p)
      PROVE  TypeOK'
  <2>1. supply' \in [L2Tokens -> 0..MAX_U128]
    BY <1>4 DEF exit_to_l1, Burned
  <2>2. PICK j \in Exits : exit' = [exit EXCEPT ![j] =
            [token |-> t, version |-> rollup, amount |-> a,
             isPrivate |-> p, proven |-> FALSE, paid |-> FALSE]]
    BY <1>4 DEF exit_to_l1
  <2>3. [token |-> t, version |-> rollup, amount |-> a,
         isPrivate |-> p, proven |-> FALSE, paid |-> FALSE]
          \in ExitRecords
    BY DEF ExitRecords
  <2>4. exit' \in [Exits -> ExitRecords]
    BY <2>2, <2>3
  <2> QED BY <1>4, <2>1, <2>4 DEF exit_to_l1
<1>5. ASSUME NEW t \in L2Tokens, NEW a \in Amounts, burn(t, a) PROVE TypeOK'
  <2>1. supply' \in [L2Tokens -> 0..MAX_U128] /\ lost' \in Nat
    BY <1>5 DEF burn, Burned
  <2> QED BY <1>5, <2>1 DEF burn
<1>6. ASSUME NEW a \in Amounts, giveToBridge(a) PROVE TypeOK'
  <2>1. escrow' \in Nat /\ lost' \in Nat
    BY <1>6 DEF giveToBridge
  <2> QED BY <1>6, <2>1 DEF giveToBridge
<1> QED BY <1>1, <1>2, <1>3, <1>4, <1>5, <1>6

\* An exit that is paid, or proven, is an exit.
LEMMA PaidExit == ASSUME NEW e \in ExitRecords PROVE [e EXCEPT !.paid = TRUE] \in ExitRecords
BY DEF ExitRecords

\* So is an exit that was proven.
LEMMA ProvenExit == ASSUME NEW e \in ExitRecords PROVE [e EXCEPT !.proven = TRUE] \in ExitRecords
BY DEF ExitRecords

\* Withdrawals and proofs of exits.
LEMMA WithdrawType ==
  ASSUME TypeOK, NEW j \in Exits, withdraw(j) \/ withdrawPrivate(j) \/ ProveExit(j)
  PROVE  TypeOK'
<1> USE BridgeConstants DEF TypeOK, Never, recoveryVars, targetVars, settingVars, inboxVars, chainVars
<1>2. ASSUME NEW p \in BOOLEAN, Withdraw(j, p) PROVE TypeOK'
  <2>1. exit' = [exit EXCEPT ![j] = [exit[j] EXCEPT !.paid = TRUE]]
    BY <1>2 DEF Withdraw, Consume
  <2>2. exit' \in [Exits -> ExitRecords]
    BY PaidExit, <2>1
  <2>3. exit[j].amount \in Nat
    BY Fields
  <2>4. escrow' \in Nat
    BY <1>2, <2>3 DEF Withdraw
  <2> QED BY <1>2, <2>2, <2>4 DEF Withdraw
<1>3. ASSUME ProveExit(j) PROVE TypeOK'
  <2>1. exit' = [exit EXCEPT ![j] = [exit[j] EXCEPT !.proven = TRUE]]
    BY <1>3 DEF ProveExit
  <2>2. exit' \in [Exits -> ExitRecords]
    BY ProvenExit, <2>1
  <2> QED BY <1>3, <2>2 DEF ProveExit
<1> QED BY <1>2, <1>3 DEF withdraw, withdrawPrivate

\* Requests, approvals and refunds.
LEMMA RecoveryType ==
  ASSUME TypeOK, NEW k \in Keys,
         \/ requestRecovery(k) \/ approveRecovery(k) \/ revokeRecoveryApproval(k)
         \/ executeRecovery(k)
  PROVE  TypeOK'
<1> USE BridgeConstants DEF TypeOK, Never, recoveryVars, targetVars, settingVars, inboxVars, chainVars
<1>1. CASE requestRecovery(k)
  BY <1>1 DEF requestRecovery
<1>2. CASE approveRecovery(k)
  BY <1>2 DEF approveRecovery
<1>3. CASE revokeRecoveryApproval(k)
  BY <1>3 DEF revokeRecoveryApproval
<1>4. CASE executeRecovery(k)
  <2>1. NoDeposit \in DepositRecords
    BY DEF NoDeposit, DepositRecords
  <2>2. deposits' \in [Keys -> DepositRecords]
    BY <1>4, <2>1 DEF executeRecovery, ForgetDeposit
  <2>3. deposits[k].amount \in Nat
    BY Fields
  <2>4. escrow' \in Nat
    BY <1>4, <2>3 DEF executeRecovery
  <2>5. refundedAt' \in [Messages -> 0..MaxTime \cup {Never}]
    BY <1>4 DEF executeRecovery
  <2>6. /\ pendingRecoveries' \subseteq Keys /\ approvedRecoveries' \subseteq Keys
        /\ approvalTimestamps' \in [Keys -> 0..MaxTime]
    BY <1>4 DEF executeRecovery, ForgetDeposit
  <2> QED BY <1>4, <2>2, <2>4, <2>5, <2>6 DEF executeRecovery
<1> QED BY <1>1, <1>2, <1>3, <1>4

\* Governance, resets and the clock.
LEMMA SettingsType ==
  ASSUME TypeOK,
         \/ pause \/ unpause
         \/ \E cap \in Caps : setMaxTvl(cap)
         \/ \E t \in L2Tokens : setL2TokenAddress(t)
         \/ \E v \in 1..rollup : setAztecTarget(v)
         \/ Reset \/ Tick
  PROVE  TypeOK'
<1> USE BridgeConstants DEF TypeOK, Never, recoveryVars, targetVars, settingVars, inboxVars,
                            chainVars, SettingsFrame
<1>1. CASE pause
  BY <1>1 DEF pause
<1>2. CASE unpause
  BY <1>2 DEF unpause
<1>3. ASSUME NEW cap \in Caps, setMaxTvl(cap) PROVE TypeOK'
  BY <1>3 DEF setMaxTvl
<1>4. ASSUME NEW t \in L2Tokens, setL2TokenAddress(t) PROVE TypeOK'
  BY <1>4 DEF setL2TokenAddress, SendersAfter
<1>5. ASSUME NEW v \in 1..rollup, setAztecTarget(v) PROVE TypeOK'
  BY <1>5 DEF setAztecTarget
<1>6. CASE Reset
  <2>1. Sum(supply, L2Tokens) \in Nat
    BY SumNat
  <2>2. lost' \in Nat
    BY <1>6, <2>1 DEF Reset, Total, Sum
  <2> QED BY <1>6, <2>2 DEF Reset
<1>7. CASE Tick
  BY <1>7 DEF Tick
<1> QED BY <1>1, <1>2, <1>3, <1>4, <1>5, <1>6, <1>7

\* Every step keeps the types.
LEMMA StepType == TypeOK /\ [Next]_vars => TypeOK'
<1> SUFFICES ASSUME TypeOK, [Next]_vars PROVE TypeOK'
  OBVIOUS
<1>1. CASE UNCHANGED vars
  BY <1>1 DEF vars, TypeOK, recoveryVars, targetVars, settingVars, inboxVars, chainVars
<1>2. CASE OthersNext
  BY <1>2, TransferType, WithdrawType, RecoveryType, SettingsType DEF OthersNext
<1>3. ASSUME NEW k \in Keys, approveRecovery(k) \/ revokeRecoveryApproval(k)
      PROVE  TypeOK'
  BY <1>3, RecoveryType
<1> QED BY <1>1, <1>2, <1>3 DEF Next

\* The bridge, the token and the records between them keep their types: the
\* escrow is never negative, every supply within its 128 bits.
THEOREM BridgeTypeCorrect == Spec => []TypeOK
BY InitType, StepType, PTL DEF Spec

-----------------------------------------------------------------------------
(* The records of the deposits.                                            *)

\* Messages are numbered in the order of their deposits, and nothing happened
\* to one that was not sent.
InboxIsOrdered ==
  /\ \A i \in Sent : /\ 1..(i - 1) \subseteq Sent
                     /\ message[i].key \in Keys /\ message[i].token \in L2Tokens
                     /\ message[i].at <= now
  /\ \A i \in Messages \ Sent : claimedAt[i] = Never /\ refundedAt[i] = Never
  /\ \A i \in Messages : claimedAt[i] <= now /\ refundedAt[i] <= now

\* Of the deposits under one key all but the last were recovered, and a record
\* stands for the last.
RecordsAreLatest ==
  /\ \A i, j \in Sent : i < j /\ message[i].key = message[j].key => refundedAt[i] # Never
  /\ \A k \in Keys : deposits[k].amount # 0 =>
       \E i \in Sent : message[i].key = k /\ refundedAt[i] = Never

\* A request is for the deposit that is recorded, and was made after its wait.
RequestsWaited ==
  /\ approvedRecoveries \subseteq pendingRecoveries
  /\ \A k \in pendingRecoveries :
       deposits[k].amount # 0 /\ now >= deposits[k].timestamp + RECOVERY_WAIT

\* An approval was given before the claim, if there is one.
ApprovalsPrecedeClaims ==
  \A k \in approvedRecoveries :
    /\ approvalTimestamps[k] <= now
    /\ \A i \in Sent :
         message[i].key = k /\ refundedAt[i] = Never /\ claimedAt[i] # Never =>
           approvalTimestamps[k] <= claimedAt[i]

RecoveryInv ==
  /\ TypeOK
  /\ InboxIsOrdered /\ RecordsAreLatest /\ RequestsWaited /\ ApprovalsPrecedeClaims
  /\ EveryDepositIsRecoverable /\ RefundsWait /\ RefundsAreFresh

\* There is nothing to recover at first.
LEMMA InitRecovery == Init => RecoveryInv
<1> SUFFICES ASSUME Init PROVE RecoveryInv
  OBVIOUS
<1> USE BridgeConstants DEF Never
<1>1. Sent = {}
  BY DEF Init, Sent, NoMessage
<1>2. \A k \in Keys : deposits[k].amount = 0
  BY DEF Init, NoDeposit
<1>3. InboxIsOrdered
  BY <1>1 DEF Init, InboxIsOrdered
<1>4. RecordsAreLatest
  BY <1>1, <1>2 DEF RecordsAreLatest
<1>5. RequestsWaited /\ ApprovalsPrecedeClaims
  BY DEF Init, RequestsWaited, ApprovalsPrecedeClaims
<1>6. EveryDepositIsRecoverable /\ RefundsWait /\ RefundsAreFresh
  BY <1>1 DEF EveryDepositIsRecoverable, RefundsWait, RefundsAreFresh
<1> QED BY <1>3, <1>4, <1>5, <1>6, InitType DEF RecoveryInv

\* Whatever leaves the records and the messages alone keeps the invariant,
\* time included.
LEMMA FrameRecovery ==
  ASSUME RecoveryInv, TypeOK', UNCHANGED <<recoveryVars, inboxVars>>, now' >= now
  PROVE  RecoveryInv'
<1> USE BridgeConstants DEF RecoveryInv, TypeOK, Never, recoveryVars, inboxVars
<1>1. Sent' = Sent
  BY DEF Sent
<1>2. InboxIsOrdered'
  <2>1. \A i \in Messages : claimedAt[i] <= now' /\ refundedAt[i] <= now'
    BY DEF InboxIsOrdered
  <2>2. \A i \in Sent : message[i].at \in 0..MaxTime /\ message[i].at <= now
    BY Fields DEF InboxIsOrdered, Sent
  <2> QED BY <1>1, <2>1, <2>2 DEF InboxIsOrdered
<1>3. RecordsAreLatest'
  BY <1>1 DEF RecordsAreLatest
<1>4. RequestsWaited'
  <2>1. ASSUME NEW k \in pendingRecoveries
        PROVE  deposits[k].amount # 0 /\ now' >= deposits[k].timestamp + RECOVERY_WAIT
    <3>1. deposits[k].timestamp \in 0..MaxTime
      BY Fields
    <3> QED BY <3>1 DEF RequestsWaited
  <2> QED BY <2>1 DEF RequestsWaited
<1>5. ApprovalsPrecedeClaims'
  BY <1>1 DEF ApprovalsPrecedeClaims
<1>6. EveryDepositIsRecoverable' /\ RefundsWait' /\ RefundsAreFresh'
  BY <1>1 DEF EveryDepositIsRecoverable, RefundsWait, RefundsAreFresh
<1> QED BY <1>2, <1>3, <1>4, <1>5, <1>6

\* A deposit is the last under a key that was free: everything under it before
\* was recovered.
LEMMA DepositRecovery ==
  ASSUME RecoveryInv, TypeOK',
         NEW k \in Keys, NEW a \in Amounts, NEW p \in BOOLEAN, depositToL2(k, a, p)
  PROVE  RecoveryInv'
<1> DEFINE rec == [amount |-> a, timestamp |-> now, isPrivate |-> p]
<1> USE BridgeConstants DEF RecoveryInv, TypeOK, Never, chainVars
<1>0. a \in Nat /\ a # 0
  OBVIOUS
<1>1. /\ ~ paused /\ l2TokenAddress \in L2Tokens
      /\ deposits[k].amount = 0
      /\ deposits' = [deposits EXCEPT ![k] = rec]
      /\ UNCHANGED <<pendingRecoveries, approvedRecoveries, approvalTimestamps, now>>
  BY DEF depositToL2, KeyIsFree
<1>2. PICK i \in Messages :
        SendL2Message(i, [key |-> k, token |-> l2TokenAddress, version |-> l2Version,
                          amount |-> a, isPrivate |-> p, at |-> now])
  BY DEF depositToL2
<1>3. /\ i \notin Sent /\ 1..(i - 1) \subseteq Sent
      /\ UNCHANGED <<claimedAt, refundedAt>>
      /\ \A j \in Messages : j # i => message'[j] = message[j]
      /\ message'[i] = [key |-> k, token |-> l2TokenAddress, version |-> l2Version,
                        amount |-> a, isPrivate |-> p, at |-> now]
  BY <1>2 DEF SendL2Message
<1>4. Sent' = Sent \cup {i}
  BY <1>0, <1>3 DEF Sent
<1>5. \A j \in Sent : j < i /\ j \in Messages
  <2>1. ASSUME NEW j \in Sent PROVE j < i
    <3>1. j \in Int /\ i \in Int /\ 1 <= i
      BY DEF Sent, Messages
    <3>2. j # i
      BY <1>3
    <3>3. 1..(j - 1) \subseteq Sent
      BY DEF InboxIsOrdered
    <3>4. ~ (i <= j - 1)
      BY <1>3, <3>1, <3>3
    <3> QED BY <3>1, <3>2, <3>4
  <2> QED BY <2>1 DEF Sent
<1>6. claimedAt[i] = Never /\ refundedAt[i] = Never
  BY <1>3 DEF InboxIsOrdered
<1>7. ASSUME NEW j \in Sent, message[j].key = k PROVE refundedAt[j] # Never
  <2>1. message[j].amount # 0
    BY DEF Sent
  <2>2. ASSUME refundedAt[j] = Never PROVE FALSE
    <3>1. deposits[message[j].key] = [amount |-> message[j].amount,
                                      timestamp |-> message[j].at,
                                      isPrivate |-> message[j].isPrivate]
      BY <2>2 DEF EveryDepositIsRecoverable
    <3>2. deposits[k].amount = message[j].amount
      BY <1>7, <3>1
    <3> QED BY <1>1, <2>1, <3>2
  <2> QED BY <2>2
<1>8. k \notin pendingRecoveries /\ k \notin approvedRecoveries
  BY <1>1 DEF RequestsWaited
<1>9. InboxIsOrdered'
  <2>1. ASSUME NEW j \in Sent'
        PROVE  /\ 1..(j - 1) \subseteq Sent'
               /\ message'[j].key \in Keys /\ message'[j].token \in L2Tokens
               /\ message'[j].at <= now'
    <3>1. CASE j = i
      BY <1>1, <1>3, <1>4, <3>1
    <3>2. CASE j # i
      BY <1>1, <1>3, <1>4, <1>5, <3>2 DEF InboxIsOrdered
    <3> QED BY <3>1, <3>2
  <2>2. \A j \in Messages \ Sent' : claimedAt'[j] = Never /\ refundedAt'[j] = Never
    BY <1>3, <1>4 DEF InboxIsOrdered
  <2>3. \A j \in Messages : claimedAt'[j] <= now' /\ refundedAt'[j] <= now'
    BY <1>1, <1>3 DEF InboxIsOrdered
  <2> QED BY <2>1, <2>2, <2>3 DEF InboxIsOrdered
<1>10. RecordsAreLatest'
  <2>1. ASSUME NEW j \in Sent', NEW n \in Sent', j < n, message'[j].key = message'[n].key
        PROVE  refundedAt'[j] # Never
    <3>1. j # i
      <4>1. j \in Int /\ n \in Int /\ i \in Int
        BY <1>4, <2>1 DEF Sent, Messages
      <4>2. n <= i
        BY <1>4, <1>5, <2>1, <4>1
      <4> QED BY <2>1, <4>1, <4>2
    <3>2. CASE n = i
      BY <1>3, <1>4, <1>5, <1>7, <2>1, <3>1, <3>2
    <3>3. CASE n # i
      BY <1>3, <1>4, <1>5, <2>1, <3>1, <3>3 DEF RecordsAreLatest
    <3> QED BY <3>2, <3>3
  <2>2. ASSUME NEW l \in Keys, deposits'[l].amount # 0
        PROVE  \E j \in Sent' : message'[j].key = l /\ refundedAt'[j] = Never
    <3>1. CASE l = k
      BY <1>3, <1>4, <1>6, <3>1
    <3>2. CASE l # k
      <4>1. deposits'[l] = deposits[l]
        BY <1>1, <3>2
      <4>2. PICK j \in Sent : message[j].key = l /\ refundedAt[j] = Never
        BY <2>2, <4>1 DEF RecordsAreLatest
      <4> QED BY <1>3, <1>4, <1>5, <4>2
    <3> QED BY <3>1, <3>2
  <2> QED BY <2>1, <2>2 DEF RecordsAreLatest
<1>11. RequestsWaited'
  BY <1>1, <1>8 DEF RequestsWaited
<1>12. ApprovalsPrecedeClaims'
  <2>1. ASSUME NEW l \in approvedRecoveries, NEW j \in Sent', message'[j].key = l,
               refundedAt'[j] = Never, claimedAt'[j] # Never
        PROVE  approvalTimestamps[l] <= claimedAt[j]
    <3>1. j # i
      BY <1>3, <1>6, <2>1
    <3> QED BY <1>3, <1>4, <1>5, <2>1, <3>1 DEF ApprovalsPrecedeClaims
  <2>2. \A l \in approvedRecoveries : approvalTimestamps[l] <= now
    BY DEF ApprovalsPrecedeClaims
  <2> QED BY <1>1, <1>3, <2>1, <2>2 DEF ApprovalsPrecedeClaims
<1>13. EveryDepositIsRecoverable'
  <2>1. ASSUME NEW j \in Sent', refundedAt'[j] = Never
        PROVE  deposits'[message'[j].key] = [amount |-> message'[j].amount,
                                             timestamp |-> message'[j].at,
                                             isPrivate |-> message'[j].isPrivate]
    <3>1. CASE j = i
      BY <1>1, <1>3, <3>1
    <3>2. CASE j # i
      <4>1. j \in Sent /\ message'[j] = message[j] /\ refundedAt[j] = Never
        BY <1>3, <1>4, <1>5, <2>1, <3>2
      <4>2. message[j].key \in Keys /\ message[j].key # k
        BY <1>7, <4>1 DEF InboxIsOrdered
      <4>3. deposits'[message[j].key] = deposits[message[j].key]
        BY <1>1, <4>2
      <4> QED BY <4>1, <4>3 DEF EveryDepositIsRecoverable
    <3> QED BY <3>1, <3>2
  <2> QED BY <2>1 DEF EveryDepositIsRecoverable
<1>14. RefundsWait' /\ RefundsAreFresh'
  BY <1>3, <1>4, <1>5, <1>6 DEF RefundsWait, RefundsAreFresh
<1> QED BY <1>9, <1>10, <1>11, <1>12, <1>13, <1>14

\* A claim comes after every approval that stands and every refund that was
\* paid.
LEMMA ClaimRecovery ==
  ASSUME RecoveryInv, TypeOK', NEW i \in Messages, claim(i)
  PROVE  RecoveryInv'
<1> USE BridgeConstants DEF RecoveryInv, TypeOK, Never
<1>1. /\ UNCHANGED <<deposits, pendingRecoveries, approvedRecoveries, approvalTimestamps,
                     message, refundedAt, now>>
      /\ claimedAt' = [claimedAt EXCEPT ![i] = now] /\ i \in Sent
  BY DEF claim, Claimable, recoveryVars
<1>2. Sent' = Sent /\ Sent \subseteq Messages
  BY <1>1 DEF Sent
<1>3. InboxIsOrdered'
  BY <1>1, <1>2 DEF InboxIsOrdered
<1>4. RecordsAreLatest'
  BY <1>1, <1>2 DEF RecordsAreLatest
<1>5. RequestsWaited'
  BY <1>1 DEF RequestsWaited
<1>6. ApprovalsPrecedeClaims'
  BY <1>1, <1>2 DEF ApprovalsPrecedeClaims
<1>7. EveryDepositIsRecoverable' /\ RefundsWait'
  BY <1>1, <1>2 DEF EveryDepositIsRecoverable, RefundsWait
<1>8. RefundsAreFresh'
  <2>1. ASSUME NEW j \in Sent, claimedAt'[j] # Never, refundedAt[j] # Never
        PROVE  refundedAt[j] <= claimedAt'[j] + APPROVAL_TTL
    <3>1. CASE j = i
      <4>1. refundedAt[i] <= now
        BY DEF InboxIsOrdered
      <4>2. refundedAt[i] \in 0..MaxTime \cup {-1}
        OBVIOUS
      <4> QED BY <1>1, <3>1, <4>1, <4>2
    <3>2. CASE j # i
      BY <1>1, <2>1, <3>2 DEF RefundsAreFresh
    <3> QED BY <3>1, <3>2
  <2> QED BY <1>1, <1>2, <2>1 DEF RefundsAreFresh
<1> QED BY <1>3, <1>4, <1>5, <1>6, <1>7, <1>8

\* Requests, approvals and revocations.
LEMMA RequestRecovery ==
  ASSUME RecoveryInv, TypeOK', NEW k \in Keys, requestRecovery(k)
  PROVE  RecoveryInv'
<1> USE BridgeConstants DEF RecoveryInv, TypeOK, Never
<1>1. /\ UNCHANGED <<deposits, approvedRecoveries, approvalTimestamps, message, claimedAt,
                     refundedAt, now>>
      /\ deposits[k].amount # 0 /\ now >= deposits[k].timestamp + RECOVERY_WAIT
      /\ pendingRecoveries' = pendingRecoveries \cup {k}
  BY DEF requestRecovery, inboxVars, chainVars
<1>2. Sent' = Sent
  BY <1>1 DEF Sent
<1>3. InboxIsOrdered' /\ RecordsAreLatest' /\ ApprovalsPrecedeClaims'
  BY <1>1, <1>2 DEF InboxIsOrdered, RecordsAreLatest, ApprovalsPrecedeClaims
<1>4. RequestsWaited'
  BY <1>1 DEF RequestsWaited
<1>5. EveryDepositIsRecoverable' /\ RefundsWait' /\ RefundsAreFresh'
  BY <1>1, <1>2 DEF EveryDepositIsRecoverable, RefundsWait, RefundsAreFresh
<1> QED BY <1>3, <1>4, <1>5

\* The deposit of a key that was not recovered is the last message under it.
LEMMA LiveIsLatest ==
  ASSUME RecoveryInv, NEW k \in Keys, NEW i \in Sent, message[i].key = k,
         refundedAt[i] = Never
  PROVE  LatestMessage(k) = i
<1> DEFINE S == {j \in Sent : message[j].key = k}
<1>1. \A j \in S : j <= i
  <2>1. ASSUME NEW j \in S, i < j PROVE FALSE
    BY <2>1 DEF RecoveryInv, RecordsAreLatest
  <2> QED BY <2>1 DEF Sent, Messages
<1>2. i \in S /\ \A j \in S : j \in Int
  BY DEF Sent, Messages
<1>3. \A x \in S : (\A y \in S : x >= y) <=> x = i
  BY <1>1, <1>2
<1> HIDE DEF S
<1>4. Max(S) = i
  BY <1>2, <1>3 DEF Max
<1> QED BY <1>4 DEF LatestMessage, S

\* An approval given to an unclaimed deposit keeps the recovery invariant.
LEMMA ApproveRecovery ==
  ASSUME RecoveryInv, TypeOK', NEW k \in Keys,
         k \in pendingRecoveries, VerifiedUnclaimed(k), approveRecovery(k)
  PROVE  RecoveryInv'
<1> USE BridgeConstants DEF RecoveryInv, TypeOK, Never
<1>1. /\ UNCHANGED <<deposits, pendingRecoveries, message, claimedAt, refundedAt, now>>
      /\ approvedRecoveries' = approvedRecoveries \cup {k}
      /\ approvalTimestamps' = [approvalTimestamps EXCEPT ![k] = now]
  BY DEF approveRecovery, inboxVars, chainVars
<1>2. Sent' = Sent
  BY <1>1 DEF Sent
<1>3. InboxIsOrdered' /\ RecordsAreLatest'
  BY <1>1, <1>2 DEF InboxIsOrdered, RecordsAreLatest
<1>4. RequestsWaited'
  BY <1>1 DEF RequestsWaited
<1>5. EveryDepositIsRecoverable' /\ RefundsWait' /\ RefundsAreFresh'
  BY <1>1, <1>2 DEF EveryDepositIsRecoverable, RefundsWait, RefundsAreFresh
<1>6. ApprovalsPrecedeClaims'
  <2>1. ASSUME NEW l \in approvedRecoveries'
        PROVE  /\ approvalTimestamps'[l] <= now
               /\ \A i \in Sent :
                    message[i].key = l /\ refundedAt[i] = Never /\ claimedAt[i] # Never =>
                      approvalTimestamps'[l] <= claimedAt[i]
    <3>1. CASE l = k
      <4>1. ASSUME NEW i \in Sent, message[i].key = k, refundedAt[i] = Never
            PROVE  claimedAt[i] = Never
        BY <4>1, LiveIsLatest DEF VerifiedUnclaimed
      <4> QED BY <1>1, <3>1, <4>1
    <3>2. CASE l # k
      BY <1>1, <3>2 DEF ApprovalsPrecedeClaims
    <3> QED BY <3>1, <3>2
  <2> QED BY <1>1, <1>2, <2>1 DEF ApprovalsPrecedeClaims
<1> QED BY <1>3, <1>4, <1>5, <1>6

\* Taking an approval back keeps the recovery invariant.
LEMMA RevokeRecovery ==
  ASSUME RecoveryInv, TypeOK', NEW k \in Keys, revokeRecoveryApproval(k)
  PROVE  RecoveryInv'
<1> USE BridgeConstants DEF RecoveryInv, TypeOK, Never
<1>1. /\ UNCHANGED <<deposits, pendingRecoveries, message, claimedAt, refundedAt, now>>
      /\ approvedRecoveries' = approvedRecoveries \ {k}
      /\ approvalTimestamps' = [approvalTimestamps EXCEPT ![k] = 0]
  BY DEF revokeRecoveryApproval, inboxVars, chainVars
<1>2. Sent' = Sent
  BY <1>1 DEF Sent
<1>3. InboxIsOrdered' /\ RecordsAreLatest'
  BY <1>1, <1>2 DEF InboxIsOrdered, RecordsAreLatest
<1>4. RequestsWaited'
  BY <1>1 DEF RequestsWaited
<1>5. EveryDepositIsRecoverable' /\ RefundsWait' /\ RefundsAreFresh'
  BY <1>1, <1>2 DEF EveryDepositIsRecoverable, RefundsWait, RefundsAreFresh
<1>6. \A l \in approvedRecoveries' :
        l \in approvedRecoveries /\ approvalTimestamps'[l] = approvalTimestamps[l]
  BY <1>1
<1>7. ApprovalsPrecedeClaims'
  BY <1>1, <1>2, <1>6 DEF ApprovalsPrecedeClaims
<1> QED BY <1>3, <1>4, <1>5, <1>7

\* A refund pays the last deposit under its key, after its wait and soon after
\* any claim of it, and leaves the key as if nothing was ever deposited.
LEMMA ExecuteRecovery ==
  ASSUME RecoveryInv, TypeOK', NEW k \in Keys, executeRecovery(k)
  PROVE  RecoveryInv'
<1> USE BridgeConstants DEF RecoveryInv, TypeOK, Never
<1>1. k \in approvedRecoveries /\ k \in pendingRecoveries
  BY DEF executeRecovery, ApprovalIsFresh, RequestsWaited
<1>2. deposits[k].amount # 0 /\ now >= deposits[k].timestamp + RECOVERY_WAIT
  BY <1>1 DEF RequestsWaited
<1>3. PICK i \in Sent : message[i].key = k /\ refundedAt[i] = Never
  BY <1>2 DEF RecordsAreLatest
<1>4. i \in Messages /\ LatestMessage(k) = i
  BY <1>3, LiveIsLatest DEF Sent
<1>5. /\ UNCHANGED <<message, claimedAt, now>>
      /\ refundedAt' = [refundedAt EXCEPT ![i] = now]
      /\ deposits' = [deposits EXCEPT ![k] = NoDeposit]
      /\ pendingRecoveries' = pendingRecoveries \ {k}
      /\ approvedRecoveries' = approvedRecoveries \ {k}
      /\ approvalTimestamps' = [approvalTimestamps EXCEPT ![k] = 0]
      /\ now <= approvalTimestamps[k] + APPROVAL_TTL
  BY <1>4 DEF executeRecovery, ForgetDeposit, ApprovalIsFresh, chainVars
<1>6. Sent' = Sent /\ Sent \subseteq Messages
  BY <1>5 DEF Sent
<1>7. \A l \in Keys : l # k => /\ deposits'[l] = deposits[l]
                              /\ approvalTimestamps'[l] = approvalTimestamps[l]
  BY <1>5
<1>8. /\ \A j \in Messages : j # i => refundedAt'[j] = refundedAt[j]
      /\ refundedAt'[i] = now /\ now # Never
  BY <1>4, <1>5
<1>9. InboxIsOrdered'
  BY <1>3, <1>5, <1>6, <1>8 DEF InboxIsOrdered
<1>10. RecordsAreLatest'
  <2>1. \A j, n \in Sent : j < n /\ message[j].key = message[n].key => refundedAt'[j] # Never
    BY <1>6, <1>8 DEF RecordsAreLatest
  <2>2. ASSUME NEW l \in Keys, deposits'[l].amount # 0
        PROVE  \E j \in Sent : message[j].key = l /\ refundedAt'[j] = Never
    <3>1. l # k
      BY <1>5, <2>2 DEF NoDeposit
    <3>2. PICK j \in Sent : message[j].key = l /\ refundedAt[j] = Never
      BY <1>7, <2>2, <3>1 DEF RecordsAreLatest
    <3>3. j # i
      BY <1>3, <3>1, <3>2
    <3> QED BY <1>6, <1>8, <3>2, <3>3
  <2> QED BY <1>5, <1>6, <2>1, <2>2 DEF RecordsAreLatest
<1>11. RequestsWaited'
  BY <1>5, <1>7 DEF RequestsWaited
<1>12. ApprovalsPrecedeClaims'
  <2>1. ASSUME NEW l \in approvedRecoveries'
        PROVE  /\ approvalTimestamps'[l] <= now
               /\ \A j \in Sent :
                    message[j].key = l /\ refundedAt'[j] = Never /\ claimedAt[j] # Never =>
                      approvalTimestamps'[l] <= claimedAt[j]
    <3>1. l # k /\ l \in approvedRecoveries /\ l \in Keys
      BY <1>5, <2>1
    <3>2. approvalTimestamps'[l] = approvalTimestamps[l]
      BY <1>7, <3>1
    <3>3. \A j \in Sent : refundedAt'[j] = Never => refundedAt[j] = Never
      BY <1>6, <1>8
    <3> QED BY <3>1, <3>2, <3>3 DEF ApprovalsPrecedeClaims
  <2> QED BY <1>5, <1>6, <2>1 DEF ApprovalsPrecedeClaims
<1>13. EveryDepositIsRecoverable'
  <2>1. ASSUME NEW j \in Sent, refundedAt'[j] = Never
        PROVE  deposits'[message[j].key] = [amount |-> message[j].amount,
                                            timestamp |-> message[j].at,
                                            isPrivate |-> message[j].isPrivate]
    <3>1. j # i /\ refundedAt[j] = Never
      BY <1>6, <1>8, <2>1
    <3>2. message[j].key # k
      BY <1>4, <3>1, LiveIsLatest
    <3>3. message[j].key \in Keys
      BY DEF InboxIsOrdered
    <3>4. deposits'[message[j].key] = deposits[message[j].key]
      BY <1>7, <3>2, <3>3
    <3> QED BY <3>1, <3>4 DEF EveryDepositIsRecoverable
  <2> QED BY <1>5, <1>6, <2>1 DEF EveryDepositIsRecoverable
<1>14. RefundsWait'
  <2>1. deposits[k].timestamp = message[i].at
    <3>1. deposits[message[i].key] = [amount |-> message[i].amount,
                                      timestamp |-> message[i].at,
                                      isPrivate |-> message[i].isPrivate]
      BY <1>3 DEF EveryDepositIsRecoverable
    <3> QED BY <1>3, <3>1
  <2>2. now >= message[i].at + RECOVERY_WAIT
    BY <1>2, <2>1
  <2>3. ASSUME NEW j \in Sent, refundedAt'[j] # Never
        PROVE  refundedAt'[j] >= message[j].at + RECOVERY_WAIT
    <3>1. CASE j = i
      BY <1>8, <2>2, <3>1
    <3>2. CASE j # i
      BY <1>6, <1>8, <2>3, <3>2 DEF RefundsWait
    <3> QED BY <3>1, <3>2
  <2> QED BY <1>5, <1>6, <2>3 DEF RefundsWait
<1>15. RefundsAreFresh'
  <2>1. ASSUME NEW j \in Sent, claimedAt[j] # Never, refundedAt'[j] # Never
        PROVE  refundedAt'[j] <= claimedAt[j] + APPROVAL_TTL
    <3>1. CASE j = i
      <4>1. approvalTimestamps[k] <= claimedAt[i]
        BY <1>1, <1>3, <2>1, <3>1 DEF ApprovalsPrecedeClaims
      <4>2. approvalTimestamps[k] \in Int /\ claimedAt[i] \in Int /\ now \in Int
        BY <1>4
      <4> QED BY <1>5, <1>8, <3>1, <4>1, <4>2
    <3>2. CASE j # i
      BY <1>6, <1>8, <2>1, <3>2 DEF RefundsAreFresh
    <3> QED BY <3>1, <3>2
  <2> QED BY <1>5, <1>6, <2>1 DEF RefundsAreFresh
<1> QED BY <1>9, <1>10, <1>11, <1>12, <1>13, <1>14, <1>15

\* Every step keeps the invariant.
LEMMA StepRecovery == RecoveryInv /\ [Next]_vars => RecoveryInv'
<1> SUFFICES ASSUME RecoveryInv, [Next]_vars PROVE RecoveryInv'
  OBVIOUS
<1>1. TypeOK /\ TypeOK'
  BY StepType DEF RecoveryInv
<1>2. now \in Int /\ now' \in Int
  BY <1>1 DEF TypeOK
<1>3. ASSUME UNCHANGED <<recoveryVars, inboxVars>>, now' = now \/ now' = now + 1
      PROVE  RecoveryInv'
  BY <1>1, <1>2, <1>3, FrameRecovery
<1>4. CASE UNCHANGED vars
  BY <1>3, <1>4 DEF vars, chainVars
<1>5. CASE \E k \in Keys, a \in Amounts, p \in BOOLEAN : depositToL2(k, a, p)
  BY <1>1, <1>5, DepositRecovery
<1>6. CASE \E k \in Keys : requestRecovery(k)
  BY <1>1, <1>6, RequestRecovery
<1>7. CASE \E k \in Keys : executeRecovery(k)
  BY <1>1, <1>7, ExecuteRecovery
<1>8. CASE \E i \in Messages : claim(i)
  BY <1>1, <1>8, ClaimRecovery
<1>9. CASE \/ \E t \in L2Tokens, a \in Amounts :
                mint(t, a) \/ burn(t, a) \/ \E p \in BOOLEAN : exit_to_l1(t, a, p)
           \/ \E a \in Amounts : giveToBridge(a)
  BY <1>3, <1>9 DEF mint, burn, giveToBridge, exit_to_l1
<1>10. CASE \E j \in Exits : withdraw(j) \/ withdrawPrivate(j) \/ ProveExit(j)
  BY <1>3, <1>10 DEF withdraw, withdrawPrivate, Withdraw, ProveExit, chainVars
<1>11. CASE \/ pause \/ unpause
            \/ \E cap \in Caps : setMaxTvl(cap)
            \/ \E t \in L2Tokens : setL2TokenAddress(t)
            \/ \E v \in 1..rollup : setAztecTarget(v)
            \/ Reset \/ Tick
  BY <1>3, <1>11 DEF pause, unpause, setMaxTvl, setL2TokenAddress, setAztecTarget, Reset,
                     Tick, SettingsFrame, chainVars
<1>12. CASE \E k \in Keys :
              \/ k \in pendingRecoveries /\ VerifiedUnclaimed(k) /\ approveRecovery(k)
              \/ revokeRecoveryApproval(k)
  BY <1>1, <1>12, ApproveRecovery, RevokeRecovery
<1> QED BY <1>4, <1>5, <1>6, <1>7, <1>8, <1>9, <1>10, <1>11, <1>12 DEF Next, OthersNext

\* The recovery invariant holds in every state.
LEMMA RecoveryIsInvariant == Spec => []RecoveryInv
BY InitRecovery, StepRecovery, PTL DEF Spec

\* A deposit that was not recovered keeps its record under its key, with its
\* amount, its time and its mode.
THEOREM DepositsAreRecoverable == Spec => []EveryDepositIsRecoverable
<1>1. RecoveryInv => EveryDepositIsRecoverable
  BY DEF RecoveryInv
<1> QED BY <1>1, RecoveryIsInvariant, PTL

\* No deposit is recovered before its own wait is over.
THEOREM RecoveriesWait == Spec => []RefundsWait
<1>1. RecoveryInv => RefundsWait
  BY DEF RecoveryInv
<1> QED BY <1>1, RecoveryIsInvariant, PTL

\* No deposit is recovered later than the term of an approval after its claim.
THEOREM RecoveriesAreFresh == Spec => []RefundsAreFresh
<1>1. RecoveryInv => RefundsAreFresh
  BY DEF RecoveryInv
<1> QED BY <1>1, RecoveryIsInvariant, PTL

-----------------------------------------------------------------------------
(* The tokens the bridge accepts.                                          *)

\* Whatever token a deposit was sent to, the bridge accepts exits from it.
THEOREM RotationIsSafe == Spec => []RotationKeepsExits
<1>1. Init => RotationKeepsExits
  BY DEF Init, RotationKeepsExits, Sent, NoMessage
<1>2. RecoveryInv /\ RotationKeepsExits /\ [Next]_vars => RotationKeepsExits'
  <2> SUFFICES ASSUME RecoveryInv, RotationKeepsExits, [Next]_vars,
                      NEW i \in Sent'
               PROVE  Accepted(message[i].token)'
    BY DEF RotationKeepsExits
  <2> USE DEF recoveryVars, targetVars, settingVars, inboxVars, chainVars
  <2>1. CASE \E k \in Keys, a \in Amounts, p \in BOOLEAN : depositToL2(k, a, p)
    BY <2>1 DEF depositToL2, SendL2Message, RotationKeepsExits, Accepted, Sent
  <2>2. CASE \E t \in L2Tokens : setL2TokenAddress(t)
    <3>1. i \in Sent /\ message' = message /\ message[i].token \in L2Tokens
      BY <2>2 DEF setL2TokenAddress, SettingsFrame, Sent, RecoveryInv, InboxIsOrdered
    <3>2. message[i].token # ZERO
      BY <3>1, BridgeConstants
    <3> QED BY <2>2, <3>1, <3>2 DEF setL2TokenAddress, SendersAfter, RotationKeepsExits, Accepted
  <2>3. ASSUME UNCHANGED <<message, allowedL2Senders, l2TokenAddress>>
        PROVE  Accepted(message[i].token)'
    BY <2>3 DEF RotationKeepsExits, Accepted, Sent
  <2>4. CASE UNCHANGED vars
    BY <2>3, <2>4 DEF vars
  <2>5. CASE \E k \in Keys :
               \/ requestRecovery(k) \/ executeRecovery(k)
               \/ approveRecovery(k) \/ revokeRecoveryApproval(k)
    BY <2>3, <2>5 DEF requestRecovery, executeRecovery, approveRecovery, revokeRecoveryApproval
  <2>6. CASE \/ \E j \in Messages : claim(j)
             \/ \E t \in L2Tokens, a \in Amounts :
                  mint(t, a) \/ burn(t, a) \/ \E p \in BOOLEAN : exit_to_l1(t, a, p)
             \/ \E j \in Exits : withdraw(j) \/ withdrawPrivate(j) \/ ProveExit(j)
             \/ \E a \in Amounts : giveToBridge(a)
    BY <2>3, <2>6 DEF claim, mint, burn, giveToBridge, exit_to_l1, withdraw, withdrawPrivate, Withdraw, ProveExit
  <2>7. CASE \/ pause \/ unpause
             \/ \E cap \in Caps : setMaxTvl(cap)
             \/ \E v \in 1..rollup : setAztecTarget(v)
             \/ Reset \/ Tick
    BY <2>3, <2>7 DEF pause, unpause, setMaxTvl, setAztecTarget, Reset, Tick, SettingsFrame
  <2> QED BY <2>1, <2>2, <2>4, <2>5, <2>6, <2>7 DEF Next, OthersNext
<1> QED BY <1>1, <1>2, RecoveryIsInvariant, PTL DEF Spec

-----------------------------------------------------------------------------
(* The ledger.                                                             *)

\* The sums of the ledger as sums over fixed sets.
LEMMA Totals ==
  ASSUME TypeOK
  PROVE  /\ Total(arrivingOf) = Sum(arrivingOf, Messages)
         /\ Total(doubledOf) = Sum(doubledOf, Messages)
         /\ Total(leavingOf) = Sum(leavingOf, Exits)
         /\ Total(supply) = Sum(supply, L2Tokens)
BY DEF TypeOK, Total, Sum, arrivingOf, doubledOf, leavingOf

\* The index sets of the sums are finite.
LEMMA SumsAreFinite == IsFiniteSet(Messages) /\ IsFiniteSet(Exits) /\ IsFiniteSet(L2Tokens)
BY BridgeConstants, FS_Interval DEF Messages, Exits

\* Every part of the ledger is a sum of natural numbers.
LEMMA PartsAreNat ==
  ASSUME TypeOK
  PROVE  /\ \A i \in Messages : arrivingOf[i] \in Nat /\ doubledOf[i] \in Nat
         /\ \A j \in Exits : leavingOf[j] \in Nat
         /\ \A t \in L2Tokens : supply[t] \in Nat
<1>1. \A i \in Messages : arrivingOf[i] \in Nat /\ doubledOf[i] \in Nat
  BY Fields DEF arrivingOf, doubledOf
<1>2. \A j \in Exits : leavingOf[j] \in Nat
  BY Fields DEF leavingOf
<1>3. \A t \in L2Tokens : supply[t] \in Nat
  BY BridgeConstants DEF TypeOK
<1> QED BY <1>1, <1>2, <1>3

\* Both facts, before a step and after it.
PartsAreSums ==
  /\ Total(arrivingOf) = Sum(arrivingOf, Messages)
  /\ Total(doubledOf) = Sum(doubledOf, Messages)
  /\ Total(leavingOf) = Sum(leavingOf, Exits)
  /\ Total(supply) = Sum(supply, L2Tokens)
  /\ \A i \in Messages : arrivingOf[i] \in Nat /\ doubledOf[i] \in Nat
  /\ \A j \in Exits : leavingOf[j] \in Nat
  /\ \A t \in L2Tokens : supply[t] \in Nat

\* The parts of the ledger are the sums they are defined as.
LEMMA PartsHold == TypeOK => PartsAreSums
BY Totals, PartsAreNat DEF PartsAreSums

\* The same in the next state.
LEMMA NextParts == TypeOK' => PartsAreSums'
BY PartsHold, PTL

\* No account of the ledger is overdrawn.
LEMMA LedgerIsSolvent == TypeOK => Ledger!Solvent
<1> SUFFICES ASSUME TypeOK PROVE Ledger!Solvent
  OBVIOUS
<1>1. /\ Sum(arrivingOf, Messages) \in Nat /\ Sum(doubledOf, Messages) \in Nat
      /\ Sum(leavingOf, Exits) \in Nat /\ Sum(supply, L2Tokens) \in Nat
  BY PartsAreNat, SumsAreFinite, SumNat
<1>2. escrow \in Nat /\ lost \in Nat /\ minted \in Nat
  BY BridgeConstants DEF TypeOK
<1> QED BY <1>1, <1>2, Totals DEF Ledger!Solvent

\* The same in the next state.
LEMMA NextSolvent == TypeOK' => Ledger!Solvent'
BY LedgerIsSolvent, PTL

\* A sum of zeros.
LEMMA SumZero ==
  ASSUME NEW f, NEW S, IsFiniteSet(S), \A x \in S : f[x] = 0
  PROVE  Sum(f, S) = 0
<1> DEFINE g == [x \in S |-> 0]
<1>1. IntOn(g, S) /\ \A x \in S : f[x] = g[x] * 0
  BY DEF IntOn
<1>2. Sum(g, S) \in Int /\ Sum(f, S) = Sum(g, S) * 0
  <2> HIDE DEF g
  <2> QED BY <1>1, SumType, SumScale
<1> QED BY <1>2

\* The bridge starts as the ledger does.
LEMMA LedgerInit == Init => Ledger!Init
<1> SUFFICES ASSUME Init PROVE Ledger!Init
  OBVIOUS
<1>1. TypeOK
  BY InitType
<1>2. /\ \A i \in Messages : arrivingOf[i] = 0 /\ doubledOf[i] = 0
      /\ \A j \in Exits : leavingOf[j] = 0
      /\ \A t \in L2Tokens : supply[t] = 0
  BY DEF Init, NoMessage, NoExit, arrivingOf, doubledOf, leavingOf
<1>3. /\ Sum(arrivingOf, Messages) = 0 /\ Sum(doubledOf, Messages) = 0
      /\ Sum(leavingOf, Exits) = 0 /\ Sum(supply, L2Tokens) = 0
  BY <1>2, SumsAreFinite, SumZero
<1> QED BY <1>1, <1>3, Totals DEF Init, Ledger!Init

\* What a step does to the parts when it changes one message, one exit or one
\* supply.
LEMMA MessageChanges ==
  ASSUME TypeOK, TypeOK', NEW i \in Messages,
         \A n \in Messages \ {i} : arrivingOf'[n] = arrivingOf[n] /\ doubledOf'[n] = doubledOf[n]
  PROVE  /\ Total(arrivingOf)' = Total(arrivingOf) - arrivingOf[i] + arrivingOf'[i]
         /\ Total(doubledOf)' = Total(doubledOf) - doubledOf[i] + doubledOf'[i]
<1>1. /\ IntOn(arrivingOf, Messages) /\ IntOn(doubledOf, Messages)
      /\ IntOn(arrivingOf', Messages) /\ IntOn(doubledOf', Messages)
  <2>1. \A n \in Messages : /\ arrivingOf[n] \in Nat /\ doubledOf[n] \in Nat
                            /\ arrivingOf'[n] \in Nat /\ doubledOf'[n] \in Nat
    BY PartsHold, NextParts DEF PartsAreSums
  <2> QED BY <2>1 DEF IntOn
<1>2. /\ Sum(arrivingOf', Messages) = Sum(arrivingOf, Messages) - arrivingOf[i] + arrivingOf'[i]
      /\ Sum(doubledOf', Messages) = Sum(doubledOf, Messages) - doubledOf[i] + doubledOf'[i]
  BY <1>1, SumsAreFinite, SumUpdate
<1> QED BY <1>2, PartsHold, NextParts DEF PartsAreSums

\* A step that leaves the inbox alone leaves what is arriving alone.
LEMMA MessagesKeep ==
  ASSUME TypeOK, TypeOK', UNCHANGED inboxVars
  PROVE  UNCHANGED <<Total(arrivingOf), Total(doubledOf)>>
<1>1. arrivingOf' = arrivingOf /\ doubledOf' = doubledOf
  BY DEF inboxVars, arrivingOf, doubledOf
<1> QED BY <1>1, PartsHold, NextParts DEF PartsAreSums

\* A step that touches one exit changes what is leaving by that exit.
LEMMA ExitChanges ==
  ASSUME TypeOK, TypeOK', NEW j \in Exits,
         \A n \in Exits \ {j} : leavingOf'[n] = leavingOf[n]
  PROVE  Total(leavingOf)' = Total(leavingOf) - leavingOf[j] + leavingOf'[j]
<1>1. IntOn(leavingOf, Exits) /\ IntOn(leavingOf', Exits)
  <2>1. \A n \in Exits : leavingOf[n] \in Nat /\ leavingOf'[n] \in Nat
    BY PartsHold, NextParts DEF PartsAreSums
  <2> QED BY <2>1 DEF IntOn
<1>2. Sum(leavingOf', Exits) = Sum(leavingOf, Exits) - leavingOf[j] + leavingOf'[j]
  BY <1>1, SumsAreFinite, SumUpdate
<1> QED BY <1>2, PartsHold, NextParts DEF PartsAreSums

\* A step that leaves the outbox alone leaves what is leaving alone.
LEMMA ExitsKeep ==
  ASSUME TypeOK, TypeOK', UNCHANGED exit
  PROVE  UNCHANGED Total(leavingOf)
<1>1. leavingOf' = leavingOf
  BY DEF leavingOf
<1> QED BY <1>1, PartsHold, NextParts DEF PartsAreSums

\* A step that touches the supply of one token changes the total by it.
LEMMA SupplyChanges ==
  ASSUME TypeOK, TypeOK', NEW t \in L2Tokens,
         \A u \in L2Tokens \ {t} : supply'[u] = supply[u]
  PROVE  Total(supply)' = Total(supply) - supply[t] + supply'[t]
<1>1. IntOn(supply, L2Tokens) /\ IntOn(supply', L2Tokens)
  <2>1. \A u \in L2Tokens : supply[u] \in Nat /\ supply'[u] \in Nat
    BY PartsHold, NextParts DEF PartsAreSums
  <2> QED BY <2>1 DEF IntOn
<1>2. Sum(supply', L2Tokens) = Sum(supply, L2Tokens) - supply[t] + supply'[t]
  BY <1>1, SumsAreFinite, SumUpdate
<1> QED BY <1>2, PartsHold, NextParts DEF PartsAreSums

\* All the parts are natural numbers, before and after.
LEMMA LedgerIsNat ==
  ASSUME TypeOK, TypeOK'
  PROVE  /\ escrow \in Nat /\ minted \in Nat /\ lost \in Nat
         /\ Total(arrivingOf) \in Nat /\ Total(doubledOf) \in Nat
         /\ Total(leavingOf) \in Nat /\ Total(supply) \in Nat
<1>1. /\ Sum(arrivingOf, Messages) \in Nat /\ Sum(doubledOf, Messages) \in Nat
      /\ Sum(leavingOf, Exits) \in Nat /\ Sum(supply, L2Tokens) \in Nat
  BY PartsAreNat, SumsAreFinite, SumNat
<1>2. escrow \in Nat /\ lost \in Nat /\ minted \in Nat
  BY BridgeConstants DEF TypeOK
<1> QED BY <1>1, <1>2, Totals

\* A deposit is a deposit of the ledger.
LEMMA DepositLocks ==
  ASSUME RecoveryInv, TypeOK', NEW k \in Keys, NEW a \in Amounts, NEW p \in BOOLEAN,
         depositToL2(k, a, p)
  PROVE  Ledger!Lock(a)
<1>0. TypeOK /\ a \in Nat
  BY AmountsAreNat DEF RecoveryInv
<1>1. PICK i \in Messages :
        SendL2Message(i, [key |-> k, token |-> l2TokenAddress, version |-> l2Version,
                          amount |-> a, isPrivate |-> p, at |-> now])
  BY DEF depositToL2
<1>2. /\ i \notin Sent /\ claimedAt[i] = Never /\ refundedAt[i] = Never
      /\ claimedAt' = claimedAt /\ refundedAt' = refundedAt
      /\ \A n \in Messages : n # i => message'[n] = message[n]
      /\ message'[i].amount = a
  BY <1>0, <1>1 DEF SendL2Message, RecoveryInv, InboxIsOrdered, TypeOK
<1>3. message[i].amount = 0
  BY <1>0, <1>2, Fields DEF Sent
<1>4. /\ \A n \in Messages \ {i} : arrivingOf'[n] = arrivingOf[n] /\ doubledOf'[n] = doubledOf[n]
      /\ arrivingOf[i] = 0 /\ doubledOf[i] = 0 /\ arrivingOf'[i] = a /\ doubledOf'[i] = 0
  BY <1>2, <1>3 DEF arrivingOf, doubledOf
<1>5. /\ Total(arrivingOf)' = Total(arrivingOf) - 0 + a
      /\ Total(doubledOf)' = Total(doubledOf) - 0 + 0
  BY <1>0, <1>4, MessageChanges
<1>6. /\ escrow' = escrow + a
      /\ UNCHANGED <<supply, exit, lost, minted>>
  BY DEF depositToL2, chainVars
<1>7. UNCHANGED Total(leavingOf)
  BY <1>0, <1>6, ExitsKeep
<1>8. UNCHANGED Total(supply)
  BY <1>6
<1> QED BY <1>0, <1>5, <1>6, <1>7, <1>8, LedgerIsNat DEF Ledger!Lock

\* A claim on L2 is an arrival of the ledger, or it doubles a refund.
LEMMA ClaimArrives ==
  ASSUME RecoveryInv, TypeOK', NEW i \in Messages, claim(i)
  PROVE  Ledger!Arrive(message[i].amount) \/ Ledger!Issue(message[i].amount)
<1> DEFINE m == message[i].amount
           t == message[i].token
<1>0. TypeOK
  BY DEF RecoveryInv
<1>1. /\ i \in Sent /\ claimedAt[i] = Never
      /\ claimedAt' = [claimedAt EXCEPT ![i] = now]
      /\ UNCHANGED <<message, refundedAt, escrow, lost, minted, exit>>
      /\ supply' = [supply EXCEPT ![t] = @ + m]
  BY DEF claim, Claimable
<1>2. t \in L2Tokens /\ m \in Nat /\ m # 0 /\ now # Never
  BY <1>0, <1>1, Fields DEF RecoveryInv, InboxIsOrdered, TypeOK, Sent, Never
<1>3. claimedAt'[i] # Never /\ \A n \in Messages \ {i} : claimedAt'[n] = claimedAt[n]
  BY <1>0, <1>1, <1>2 DEF TypeOK
<1>4. /\ \A n \in Messages \ {i} : arrivingOf'[n] = arrivingOf[n] /\ doubledOf'[n] = doubledOf[n]
      /\ arrivingOf[i] = (IF refundedAt[i] = Never THEN m ELSE 0) /\ doubledOf[i] = 0
      /\ arrivingOf'[i] = 0 /\ doubledOf'[i] = (IF refundedAt[i] = Never THEN 0 ELSE m)
  BY <1>1, <1>3 DEF arrivingOf, doubledOf
<1>5. /\ Total(arrivingOf)' = Total(arrivingOf) - arrivingOf[i] + 0
      /\ Total(doubledOf)' = Total(doubledOf) - 0 + doubledOf'[i]
  BY <1>0, <1>4, MessageChanges
<1>6. /\ supply[t] \in Nat /\ supply'[t] = supply[t] + m
      /\ \A u \in L2Tokens \ {t} : supply'[u] = supply[u]
  BY <1>0, <1>1, <1>2, PartsAreNat DEF TypeOK
<1>7. Total(supply)' = Total(supply) + m
  <2>1. Total(supply)' = Total(supply) - supply[t] + supply'[t]
    BY <1>0, <1>2, <1>6, SupplyChanges
  <2> HIDE DEF m, t
  <2> QED BY <1>0, <1>2, <1>6, <2>1, LedgerIsNat
<1>8. UNCHANGED Total(leavingOf)
  BY <1>0, <1>1, ExitsKeep
<1>9. CASE refundedAt[i] = Never
  BY <1>0, <1>1, <1>2, <1>4, <1>5, <1>7, <1>8, <1>9, LedgerIsNat DEF Ledger!Arrive
<1>10. CASE refundedAt[i] # Never
  BY <1>0, <1>1, <1>2, <1>4, <1>5, <1>7, <1>8, <1>10, LedgerIsNat DEF Ledger!Issue
<1> QED BY <1>9, <1>10

\* An unbacked mint on L2 is one of the ledger.
LEMMA MintIssues ==
  ASSUME TypeOK, TypeOK', NEW t \in L2Tokens, NEW a \in Amounts, mint(t, a)
  PROVE  Ledger!Issue(a)
<1>0. a \in Nat /\ supply[t] \in Nat
  BY AmountsAreNat, PartsAreNat
<1>1. /\ supply' = [supply EXCEPT ![t] = @ + a] /\ minted' = minted + a
      /\ UNCHANGED <<escrow, inboxVars, lost, exit>>
  BY DEF mint
<1>2. supply'[t] = supply[t] + a /\ \A u \in L2Tokens \ {t} : supply'[u] = supply[u]
  BY <1>1 DEF TypeOK
<1>3. Total(supply)' = Total(supply) - supply[t] + supply'[t]
  BY <1>2, SupplyChanges
<1>4. UNCHANGED <<Total(arrivingOf), Total(doubledOf), Total(leavingOf)>>
  BY <1>1, MessagesKeep, ExitsKeep
<1> QED BY <1>0, <1>1, <1>2, <1>3, <1>4, LedgerIsNat DEF Ledger!Issue

\* An exit burned on L2 leaves in the ledger.
LEMMA ExitLeaves ==
  ASSUME TypeOK, TypeOK', NEW t \in L2Tokens, NEW a \in Amounts, NEW p \in BOOLEAN,
         exit_to_l1(t, a, p)
  PROVE  Ledger!Leave(a)
<1>0. a \in Nat /\ supply[t] \in Nat
  BY AmountsAreNat, PartsAreNat
<1>1. /\ supply' = [supply EXCEPT ![t] = @ - a]
      /\ UNCHANGED <<escrow, inboxVars, lost, minted>>
  BY DEF exit_to_l1, Burned
<1>2. PICK j \in Exits : j \notin Made /\
        exit' = [exit EXCEPT ![j] = [token |-> t, version |-> rollup, amount |-> a,
                                     isPrivate |-> p, proven |-> FALSE, paid |-> FALSE]]
  BY DEF exit_to_l1
<1>3. supply'[t] = supply[t] - a /\ \A u \in L2Tokens \ {t} : supply'[u] = supply[u]
  BY <1>1 DEF TypeOK
<1>4. Total(supply)' = Total(supply) - supply[t] + supply'[t]
  BY <1>3, SupplyChanges
<1>5. exit[j].amount = 0 /\ exit'[j].amount = a /\ ~ exit'[j].paid
  BY <1>2, Fields DEF Made, TypeOK
<1>6. /\ \A n \in Exits \ {j} : leavingOf'[n] = leavingOf[n]
      /\ leavingOf[j] = 0 /\ leavingOf'[j] = a
  BY <1>2, <1>5 DEF leavingOf, TypeOK
<1>7. Total(leavingOf)' = Total(leavingOf) - leavingOf[j] + leavingOf'[j]
  BY <1>6, ExitChanges
<1>8. UNCHANGED <<Total(arrivingOf), Total(doubledOf)>>
  BY <1>1, MessagesKeep
<1> QED BY <1>0, <1>1, <1>3, <1>4, <1>6, <1>7, <1>8, LedgerIsNat DEF Ledger!Leave

\* A burn on L2 destroys in the ledger.
LEMMA BurnDestroys ==
  ASSUME TypeOK, TypeOK', NEW t \in L2Tokens, NEW a \in Amounts, burn(t, a)
  PROVE  Ledger!Destroy(a)
<1>0. a \in Nat /\ supply[t] \in Nat
  BY AmountsAreNat, PartsAreNat
<1>1. /\ supply' = [supply EXCEPT ![t] = @ - a] /\ lost' = lost + a
      /\ UNCHANGED <<escrow, inboxVars, minted, exit>>
  BY DEF burn, Burned
<1>2. supply'[t] = supply[t] - a /\ \A u \in L2Tokens \ {t} : supply'[u] = supply[u]
  BY <1>1 DEF TypeOK
<1>3. Total(supply)' = Total(supply) - supply[t] + supply'[t]
  BY <1>2, SupplyChanges
<1>4. UNCHANGED <<Total(arrivingOf), Total(doubledOf), Total(leavingOf)>>
  BY <1>1, MessagesKeep, ExitsKeep
<1> QED BY <1>0, <1>1, <1>2, <1>3, <1>4, LedgerIsNat DEF Ledger!Destroy

\* Tokens sent to the bridge outside of a deposit are given in the ledger.
LEMMA GiftGives ==
  ASSUME TypeOK, TypeOK', NEW a \in Amounts, giveToBridge(a)
  PROVE  Ledger!Give(a)
<1>1. /\ escrow' = escrow + a /\ lost' = lost + a
      /\ UNCHANGED <<inboxVars, supply, minted, exit>>
  BY DEF giveToBridge
<1>2. UNCHANGED <<Total(arrivingOf), Total(doubledOf), Total(leavingOf), Total(supply)>>
  BY <1>1, MessagesKeep, ExitsKeep
<1> QED BY <1>1, <1>2 DEF Ledger!Give

\* A withdrawal on L1 is a withdrawal of the ledger.
LEMMA WithdrawReleases ==
  ASSUME TypeOK, TypeOK', NEW j \in Exits, NEW p \in BOOLEAN, Withdraw(j, p)
  PROVE  exit[j].amount \in Amounts /\ Ledger!Release(exit[j].amount)
<1>1. /\ j \in Made /\ ~ exit[j].paid
      /\ exit' = [exit EXCEPT ![j].paid = TRUE]
      /\ escrow' = escrow - exit[j].amount
      /\ UNCHANGED <<inboxVars, supply, lost, minted>>
  BY DEF Withdraw, Consume, chainVars
<1>2. exit[j].amount \in Amounts /\ exit[j].amount \in Nat
  BY <1>1, Fields DEF Made
<1>3. exit'[j].paid /\ \A n \in Exits \ {j} : exit'[n] = exit[n]
  BY <1>1 DEF TypeOK, ExitRecords
<1>4. /\ \A n \in Exits \ {j} : leavingOf'[n] = leavingOf[n]
      /\ leavingOf[j] = exit[j].amount /\ leavingOf'[j] = 0
  BY <1>1, <1>3 DEF leavingOf
<1>5. Total(leavingOf)' = Total(leavingOf) - leavingOf[j] + leavingOf'[j]
  BY <1>4, ExitChanges
<1>6. UNCHANGED <<Total(arrivingOf), Total(doubledOf), Total(supply)>>
  BY <1>1, MessagesKeep
<1> QED BY <1>1, <1>2, <1>4, <1>5, <1>6, LedgerIsNat DEF Ledger!Release

\* A recovery is a refund of the ledger.
LEMMA RecoveryRefunds ==
  ASSUME RecoveryInv, TypeOK', NEW k \in Keys, executeRecovery(k)
  PROVE  \E a \in Amounts : Ledger!Refund(a) \/ Ledger!RefundArrived(a)
<1>0. TypeOK
  BY DEF RecoveryInv
<1>1. k \in pendingRecoveries /\ deposits[k].amount # 0
  BY DEF RecoveryInv, executeRecovery, ApprovalIsFresh, RequestsWaited
<1>2. PICK i \in Sent : message[i].key = k /\ refundedAt[i] = Never
  BY <1>1 DEF RecoveryInv, RecordsAreLatest
<1>3. i \in Messages /\ LatestMessage(k) = i
  BY <1>2, LiveIsLatest DEF Sent
<1> DEFINE a == message[i].amount
<1>4. a \in Amounts /\ a \in Nat
  BY <1>0, <1>2, <1>3, Fields DEF Sent
<1>5. deposits[k].amount = a
  <2>1. deposits[message[i].key] = [amount |-> message[i].amount,
                                    timestamp |-> message[i].at,
                                    isPrivate |-> message[i].isPrivate]
    BY <1>2 DEF RecoveryInv, EveryDepositIsRecoverable
  <2> QED BY <1>2, <2>1
<1>6. /\ escrow' = escrow - a
      /\ refundedAt' = [refundedAt EXCEPT ![i] = now]
      /\ UNCHANGED <<message, claimedAt, supply, exit, lost, minted>>
  BY <1>3, <1>5 DEF executeRecovery, chainVars
<1>7. refundedAt'[i] # Never /\ \A n \in Messages \ {i} : refundedAt'[n] = refundedAt[n]
  BY <1>0, <1>3, <1>6, BridgeConstants DEF TypeOK, Never
<1>8. /\ \A n \in Messages \ {i} : arrivingOf'[n] = arrivingOf[n] /\ doubledOf'[n] = doubledOf[n]
      /\ arrivingOf[i] = (IF claimedAt[i] = Never THEN a ELSE 0) /\ doubledOf[i] = 0
      /\ arrivingOf'[i] = 0 /\ doubledOf'[i] = (IF claimedAt[i] = Never THEN 0 ELSE a)
  BY <1>2, <1>3, <1>6, <1>7 DEF arrivingOf, doubledOf
<1>9. /\ Total(arrivingOf)' = Total(arrivingOf) - arrivingOf[i] + 0
      /\ Total(doubledOf)' = Total(doubledOf) - 0 + doubledOf'[i]
  BY <1>0, <1>3, <1>8, MessageChanges
<1>10. UNCHANGED <<Total(leavingOf), Total(supply)>>
  BY <1>0, <1>6, ExitsKeep
<1> HIDE DEF a
<1>11. CASE claimedAt[i] = Never
  <2>1. Ledger!Refund(a)
    BY <1>0, <1>4, <1>6, <1>8, <1>9, <1>10, <1>11, LedgerIsNat DEF Ledger!Refund
  <2> QED BY <1>4, <2>1
<1>12. CASE claimedAt[i] # Never
  <2>1. Ledger!RefundArrived(a)
    BY <1>0, <1>4, <1>6, <1>8, <1>9, <1>10, <1>12, LedgerIsNat DEF Ledger!RefundArrived
  <2> QED BY <1>4, <2>1
<1> QED BY <1>11, <1>12

\* A reset of the rollup loses what was in flight in the ledger too.
LEMMA ResetWipes ==
  ASSUME TypeOK, TypeOK', Reset
  PROVE  Ledger!Wipe
<1>1. /\ lost' = lost + Total(supply) /\ \A t \in L2Tokens : supply'[t] = 0
      /\ UNCHANGED <<escrow, inboxVars, minted, exit>>
  BY DEF Reset
<1>2. Total(supply)' = 0
  BY <1>1, SumsAreFinite, SumZero, NextParts DEF PartsAreSums
<1>3. UNCHANGED <<Total(arrivingOf), Total(doubledOf), Total(leavingOf)>>
  BY <1>1, MessagesKeep, ExitsKeep
<1> QED BY <1>1, <1>2, <1>3 DEF Ledger!Wipe

\* Steps the ledger does not see.
LEMMA LedgerKeeps ==
  ASSUME TypeOK, TypeOK', UNCHANGED <<escrow, inboxVars, supply, minted, lost>>,
         exit' = exit \/ \E j \in Exits : ProveExit(j)
  PROVE  UNCHANGED Ledger!ledgerVars
<1>1. UNCHANGED <<Total(arrivingOf), Total(doubledOf), Total(supply)>>
  BY MessagesKeep
<1>2. UNCHANGED Total(leavingOf)
  <2>1. CASE exit' = exit
    BY <2>1, ExitsKeep
  <2>2. ASSUME NEW j \in Exits, ProveExit(j) PROVE UNCHANGED Total(leavingOf)
    <3>1. exit' = [exit EXCEPT ![j].proven = TRUE]
      BY <2>2 DEF ProveExit
    <3>2. \A n \in Exits : exit'[n].amount = exit[n].amount /\ exit'[n].paid = exit[n].paid
      BY <3>1 DEF TypeOK, ExitRecords
    <3>3. leavingOf' = leavingOf
      BY <3>2 DEF leavingOf
    <3> QED BY <3>3, PartsHold, NextParts DEF PartsAreSums
  <2> QED BY <2>1, <2>2
<1> QED BY <1>1, <1>2 DEF Ledger!ledgerVars

\* Every step of the bridge is one of its ledger, or one it does not see.
LEMMA LedgerStep ==
  RecoveryInv /\ TypeOK' /\ [Next]_vars => [Ledger!Next]_(Ledger!ledgerVars)
<1> SUFFICES ASSUME RecoveryInv, TypeOK', [Next]_vars
             PROVE  Ledger!Next \/ UNCHANGED Ledger!ledgerVars
  OBVIOUS
<1>0. TypeOK
  BY DEF RecoveryInv
<1>1. ASSUME UNCHANGED <<escrow, inboxVars, supply, minted, lost>>,
             exit' = exit \/ \E j \in Exits : ProveExit(j)
      PROVE  UNCHANGED Ledger!ledgerVars
  BY <1>0, <1>1, LedgerKeeps
<1>2. CASE UNCHANGED vars
  BY <1>1, <1>2 DEF vars, chainVars
<1>3. CASE \E k \in Keys, a \in Amounts, p \in BOOLEAN : depositToL2(k, a, p)
  BY <1>3, DepositLocks DEF Ledger!Next
<1>4. CASE \E i \in Messages : claim(i)
  <2>1. PICK i \in Messages : claim(i)
    BY <1>4
  <2>2. message[i].amount \in Amounts
    BY <1>0, <2>1, Fields DEF claim, Claimable, Sent
  <2> QED BY <2>1, <2>2, ClaimArrives DEF Ledger!Next
<1>5. CASE \E t \in L2Tokens, a \in Amounts : mint(t, a)
  BY <1>0, <1>5, MintIssues DEF Ledger!Next
<1>6. CASE \E t \in L2Tokens, a \in Amounts, p \in BOOLEAN : exit_to_l1(t, a, p)
  BY <1>0, <1>6, ExitLeaves DEF Ledger!Next
<1>7. CASE \E j \in Exits : withdraw(j) \/ withdrawPrivate(j)
  BY <1>0, <1>7, WithdrawReleases DEF withdraw, withdrawPrivate, Ledger!Next
<1>8. CASE \E k \in Keys : executeRecovery(k)
  BY <1>8, RecoveryRefunds DEF Ledger!Next
<1>9. CASE Reset
  BY <1>0, <1>9, ResetWipes DEF Ledger!Next
<1>10. CASE \E j \in Exits : ProveExit(j)
  BY <1>1, <1>10 DEF ProveExit, chainVars
<1>11. CASE \E k \in Keys :
              requestRecovery(k) \/ approveRecovery(k) \/ revokeRecoveryApproval(k)
  BY <1>1, <1>11 DEF requestRecovery, approveRecovery, revokeRecoveryApproval, chainVars
<1>12. CASE \/ pause \/ unpause
            \/ \E cap \in Caps : setMaxTvl(cap)
            \/ \E t \in L2Tokens : setL2TokenAddress(t)
            \/ \E v \in 1..rollup : setAztecTarget(v)
            \/ Tick
  BY <1>1, <1>12 DEF pause, unpause, setMaxTvl, setL2TokenAddress, setAztecTarget, Tick,
                     SettingsFrame, chainVars
<1>13. CASE \E t \in L2Tokens, a \in Amounts : burn(t, a)
  BY <1>0, <1>13, BurnDestroys DEF Ledger!Next
<1>14. CASE \E a \in Amounts : giveToBridge(a)
  BY <1>0, <1>14, GiftGives DEF Ledger!Next
<1> QED BY <1>2, <1>3, <1>4, <1>5, <1>6, <1>7, <1>8, <1>9, <1>10, <1>11, <1>12, <1>13, <1>14
        DEF Next, OthersNext

\* The bridge implements its ledger: each of its steps moves an amount between
\* two parts of the ledger, or is not seen there, and no part is overdrawn.
THEOREM BridgeKeepsLedger == Spec => ImplementsLedger
<1>1. RecoveryInv /\ TypeOK' /\ [Next]_vars
        => [Ledger!Next /\ Ledger!Solvent']_(Ledger!ledgerVars)
  BY LedgerStep, NextSolvent
<1>2. RecoveryInv => TypeOK
  BY DEF RecoveryInv
<1> QED BY <1>1, <1>2, LedgerInit, RecoveryIsInvariant, PTL
        DEF Spec, ImplementsLedger, Ledger!LedgerSpec

\* At any time the escrow, with the debt of mints and doubled deposits, is what
\* is on its way to L2, on L2, on its way back, or has no claimant any more: lost
\* with a rollup, burned on L2 or given to the bridge.
THEOREM BridgeBalances == Spec => []Ledger!Balanced
<1>1. Init => Ledger!Balanced
  BY LedgerInit DEF Ledger!Init, Ledger!Balanced
<1>3. TypeOK /\ Ledger!Balanced /\ [Ledger!Next]_(Ledger!ledgerVars) => Ledger!Balanced'
  <2> SUFFICES ASSUME TypeOK, Ledger!Balanced, [Ledger!Next]_(Ledger!ledgerVars)
               PROVE  Ledger!Balanced'
    OBVIOUS
  <2>1. Ledger!Solvent
    BY LedgerIsSolvent
  <2>2. \A a \in Amounts : a \in Nat
    BY AmountsAreNat
  <2>3. CASE UNCHANGED Ledger!ledgerVars
    BY <2>3 DEF Ledger!ledgerVars, Ledger!Balanced
  <2>4. CASE Ledger!Next
    BY <2>1, <2>2, <2>4 DEF Ledger!Next, Ledger!Solvent, Ledger!Balanced, Ledger!Lock,
       Ledger!Arrive, Ledger!Issue, Ledger!Leave, Ledger!Release, Ledger!Refund,
       Ledger!RefundArrived, Ledger!Wipe, Ledger!Destroy, Ledger!Give
  <2> QED BY <2>3, <2>4
<1>4. RecoveryInv => TypeOK
  BY DEF RecoveryInv
<1> QED BY <1>1, <1>3, <1>4, LedgerStep, RecoveryIsInvariant, PTL DEF Spec

=============================================================================
