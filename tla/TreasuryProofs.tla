--------------------------- MODULE TreasuryProofs ---------------------------
(* Theorems about AggregatorRegistry and Treasury, for every value of their *)
(* constants.                                                               *)
EXTENDS Treasury, FiniteSetTheorems, SequenceTheorems, TLAPS

-----------------------------------------------------------------------------
(* The registry.                                                            *)

\* EscrowIsBonds needs the set it counts to be finite, and the refund of an
\* account needs to know that its bond is bond_amount: IdsNameAccounts says so.
RegistryInv ==
  /\ RegistryTypeOK
  /\ IsFiniteSet(Registered) /\ EscrowIsBonds
  /\ IdsNameAccounts

\* The empty registry satisfies its invariant.
LEMMA RegistryInitInv == RegistryInit => RegistryInv
<1> SUFFICES ASSUME RegistryInit PROVE RegistryInv
  OBVIOUS
<1> USE RegistryConstants DEF RegistryInit
<1>1. RegistryTypeOK
  BY DEF RegistryTypeOK
<1>2. Registered = {}
  BY DEF Registered
<1>3. IsFiniteSet(Registered) /\ EscrowIsBonds
  BY <1>2, FS_EmptySet DEF EscrowIsBonds
<1>4. IdsNameAccounts
  BY <1>2 DEF IdsNameAccounts
<1> QED BY <1>1, <1>3, <1>4 DEF RegistryInv

\* A registration adds one account and one bond.
LEMMA RegisterInv ==
  ASSUME RegistryInv, NEW a \in Accounts, NEW h \in EndpointHashes, register(a, h)
  PROVE  RegistryInv'
<1> USE RegistryConstants DEF RegistryInv
<1>1. RegistryTypeOK'
  BY DEF RegistryTypeOK, register
<1>2. a \notin Registered /\ Registered' = Registered \cup {a}
  BY DEF RegistryTypeOK, register, NotYetRegistered, Registered
<1>3. /\ IsFiniteSet(Registered')
      /\ Cardinality(Registered') = Cardinality(Registered) + 1
      /\ Cardinality(Registered) \in Nat
  BY <1>2, FS_AddElement, FS_CardinalityType
<1>4. EscrowIsBonds'
  BY <1>3 DEF EscrowIsBonds, register
<1>5. IdsNameAccounts'
  <2> USE DEF register, NotYetRegistered, RegistryTypeOK
  <2>1. ASSUME NEW b \in Accounts
        PROVE  IF b \in Registered'
                 THEN /\ registered_addrs'[aggregator_id_by_addr'[b]] = b
                      /\ aggregator_id_by_addr'[b] < next_id'
                      /\ bonded_amount_by_addr'[b] = bond_amount
                 ELSE /\ bonded_amount_by_addr'[b] = 0
                      /\ endpoint_hash_by_addr'[b] = ZERO
    <3>1. CASE b = a
      BY <3>1, <1>2
    <3>2. CASE b # a
      BY <3>2, <1>2 DEF IdsNameAccounts
    <3> QED BY <3>1, <3>2
  <2>2. ASSUME NEW i \in 0..MAX_U32, registered_addrs'[i] # ZERO
        PROVE  /\ registered_addrs'[i] \in Registered'
               /\ aggregator_id_by_addr'[registered_addrs'[i]] = i
    <3>1. CASE i = next_id
      BY <3>1, <1>2
    <3>2. CASE i # next_id
      <4>1. registered_addrs'[i] = registered_addrs[i]
        BY <3>2
      <4>2. /\ registered_addrs[i] \in Registered
            /\ aggregator_id_by_addr[registered_addrs[i]] = i
        BY <4>1, <2>2 DEF IdsNameAccounts
      <4> QED BY <4>1, <4>2, <1>2 DEF Registered
    <3> QED BY <3>1, <3>2
  <2> QED BY <2>1, <2>2 DEF IdsNameAccounts
<1> QED BY <1>1, <1>3, <1>4, <1>5

\* A departure takes away one account and one bond.
LEMMA UnregisterInv ==
  ASSUME RegistryInv, NEW a \in Accounts, unregister(a)
  PROVE  RegistryInv'
<1> USE RegistryConstants DEF RegistryInv
<1>1. RegistryTypeOK'
  BY DEF RegistryTypeOK, unregister, FreedId
<1>2. a \in Registered
  BY DEF unregister, IsRegistered, IdsNameAccounts
<1>3. Registered' = Registered \ {a}
  BY DEF RegistryTypeOK, unregister, Registered
<1>4. /\ IsFiniteSet(Registered')
      /\ Cardinality(Registered') = Cardinality(Registered) - 1
      /\ Cardinality(Registered) \in Nat
  BY <1>2, <1>3, FS_RemoveElement, FS_CardinalityType
<1>5. EscrowIsBonds'
  BY <1>4 DEF EscrowIsBonds, unregister
<1>6. IdsNameAccounts'
  <2> USE DEF unregister, FreedId, RegistryTypeOK
  <2>1. ASSUME NEW b \in Accounts
        PROVE  IF b \in Registered'
                 THEN /\ registered_addrs'[aggregator_id_by_addr'[b]] = b
                      /\ aggregator_id_by_addr'[b] < next_id'
                      /\ bonded_amount_by_addr'[b] = bond_amount
                 ELSE /\ bonded_amount_by_addr'[b] = 0
                      /\ endpoint_hash_by_addr'[b] = ZERO
    <3>1. CASE b = a
      BY <3>1, <1>3
    <3>2. CASE b # a
      <4>1. b \in Registered => aggregator_id_by_addr[b] # aggregator_id_by_addr[a]
        BY <3>2, <1>2 DEF IdsNameAccounts
      <4> QED BY <3>2, <4>1, <1>3 DEF IdsNameAccounts
    <3> QED BY <3>1, <3>2
  <2>2. ASSUME NEW i \in 0..MAX_U32, registered_addrs'[i] # ZERO
        PROVE  /\ registered_addrs'[i] \in Registered'
               /\ aggregator_id_by_addr'[registered_addrs'[i]] = i
    <3>1. i # aggregator_id_by_addr[a] /\ registered_addrs'[i] = registered_addrs[i]
      BY <2>2
    <3>2. registered_addrs[i] # a
      BY <3>1, <2>2 DEF IdsNameAccounts
    <3> QED BY <3>1, <3>2, <2>2, <1>3 DEF IdsNameAccounts
  <2> QED BY <2>1, <2>2 DEF IdsNameAccounts
<1> QED BY <1>1, <1>4, <1>5, <1>6

\* A change of endpoint concerns a registered account only.
LEMMA UpdateEndpointInv ==
  ASSUME RegistryInv, NEW a \in Accounts, NEW h \in EndpointHashes, update_endpoint(a, h)
  PROVE  RegistryInv'
<1> USE RegistryConstants DEF RegistryInv, update_endpoint
<1>1. RegistryTypeOK'
  BY DEF RegistryTypeOK
<1>2. a \in Registered
  BY DEF IsRegistered, IdsNameAccounts
<1>3. Registered' = Registered
  BY DEF Registered
<1>4. EscrowIsBonds'
  BY <1>3 DEF EscrowIsBonds
<1>5. IdsNameAccounts'
  BY <1>2, <1>3 DEF IdsNameAccounts, RegistryTypeOK
<1> QED BY <1>1, <1>3, <1>4, <1>5

\* No step of the system breaks the registry's invariant.
LEMMA RegistryStepInv == RegistryInv /\ [Next]_vars => RegistryInv'
<1> SUFFICES ASSUME RegistryInv, [Next]_vars PROVE RegistryInv'
  OBVIOUS
<1>1. CASE RegistryNext
  BY <1>1, RegisterInv, UnregisterInv, UpdateEndpointInv DEF RegistryNext
<1>2. CASE UNCHANGED registryVars
  BY <1>2 DEF RegistryInv, RegistryTypeOK, Registered, EscrowIsBonds, IdsNameAccounts,
              registryVars
<1>3. UNCHANGED vars => UNCHANGED registryVars
  BY DEF vars
<1> QED BY <1>1, <1>2, <1>3
        DEF Next, deposit, set_treasury, MintSeed, seed_public, pay_aggregator,
            queue_relayer_claim, consume_relayer_claim

\* The registry's escrow is one bond per registered account.
THEOREM EscrowCorrect == Spec => []EscrowIsBonds
<1>1. Init => RegistryInv
  BY RegistryInitInv DEF Init
<1>2. RegistryInv => EscrowIsBonds
  BY DEF RegistryInv
<1> QED BY <1>1, <1>2, RegistryStepInv, PTL DEF Spec

\* Ids and registered accounts stay inverse to each other.
THEOREM IdsCorrect == Spec => []IdsNameAccounts
<1>1. Init => RegistryInv
  BY RegistryInitInv DEF Init
<1>2. RegistryInv => IdsNameAccounts
  BY DEF RegistryInv
<1> QED BY <1>1, <1>2, RegistryStepInv, PTL DEF Spec

-----------------------------------------------------------------------------
(* Counting slots of the queue.                                             *)

\* The slots a predicate holds of, after the last slot moved into slot s: the
\* predicate's extension loses what it held of s, and nothing else.
LEMMA CompactCount ==
  ASSUME NEW n \in Nat, NEW s \in 1..n, NEW S \in SUBSET (1..n),
         NEW T, T = {k \in 1..(n - 1) : IF k = s THEN n \in S ELSE k \in S}
  PROVE  Cardinality(T) = Cardinality(S) - (IF s \in S THEN 1 ELSE 0)
<1>1. IsFiniteSet(S) /\ Cardinality(S) \in Nat
  <2>1. IsFiniteSet(1..n)
    BY FS_Interval
  <2> QED BY <2>1, FS_Subset, FS_CardinalityType
<1>5. \A k : k \in T <=> /\ k \in 1..n /\ k # n
                          /\ IF k = s THEN n \in S ELSE k \in S
  OBVIOUS
<1>6. \A k \in S : k \in 1..n
  OBVIOUS
<1>2. CASE s = n \/ (s \in S /\ n \in S)
  <2>1. \A k : k \in T <=> k \in S \ {n}
    BY <1>5, <1>6, <1>2
  <2>3. T = S \ {n}
    BY <2>1
  <2>2. s \in S <=> n \in S
    BY <1>2
  <2> QED BY <1>1, <2>2, <2>3, FS_RemoveElement
<1>3. CASE s # n /\ n \notin S
  <2>1. \A k : k \in T <=> k \in S \ {s}
    BY <1>5, <1>6, <1>3
  <2>2. T = S \ {s}
    BY <2>1
  <2> QED BY <1>1, <2>2, FS_RemoveElement
<1>4. CASE s # n /\ n \in S /\ s \notin S
  <2>0. \A k : k \in T <=> k \in (S \ {n}) \cup {s}
    BY <1>5, <1>6, <1>4
  <2>1. T = (S \ {n}) \cup {s} /\ s \notin S \ {n}
    BY <2>0, <1>4
  <2>2. IsFiniteSet(S \ {n}) /\ Cardinality(S \ {n}) = Cardinality(S) - 1
    BY <1>1, <1>4, FS_RemoveElement
  <2>3. Cardinality(T) = Cardinality(S \ {n}) + 1
    BY <2>1, <2>2, FS_AddElement
  <2> QED BY <1>1, <1>4, <2>2, <2>3
<1> QED BY <1>2, <1>3, <1>4

\* The sets of slots counted are finite.
LEMMA SlotsFinite ==
  ASSUME TypeOK, NEW x
  PROVE  /\ count \in Nat
         /\ SlotsOf(x) \in SUBSET (1..count) /\ IsFiniteSet(SlotsOf(x))
         /\ Cardinality(SlotsOf(x)) \in Nat
         /\ SlotsBy(x) \in SUBSET (1..count) /\ IsFiniteSet(SlotsBy(x))
         /\ Cardinality(SlotsBy(x)) \in Nat
<1>1. count \in Nat
  BY LenProperties DEF TypeOK, count
<1>2. SlotsOf(x) \in SUBSET (1..count) /\ SlotsBy(x) \in SUBSET (1..count)
  BY DEF SlotsOf, SlotsBy
<1>3. IsFiniteSet(1..count)
  BY <1>1, FS_Interval
<1>4. \A S \in SUBSET (1..count) : IsFiniteSet(S) /\ Cardinality(S) \in Nat
  BY <1>3, FS_Subset, FS_CardinalityType
<1> QED BY <1>1, <1>2, <1>4

-----------------------------------------------------------------------------
(* The treasury.                                                            *)

\* What is inductive: a consumption finds the slot of its claim because the
\* claim is in exactly one (ClaimsOnce), and gives back a counter that is
\* positive because it counts that slot (CountersMatchSlots).
TreasuryInv == RegistryInv /\ TypeOK /\ CountersMatchSlots /\ ClaimsOnce

\* The empty treasury satisfies the invariant.
LEMMA TreasuryInitInv == Init => TreasuryInv
<1> SUFFICES ASSUME Init PROVE TreasuryInv
  OBVIOUS
<1> USE RegistryConstants, TreasuryConstants DEF Init
<1>1. RegistryInv
  BY RegistryInitInv
<1>2. pending_relayer_claims \in Seq(RelayerClaims) /\ count = 0
  BY EmptySeq DEF count
<1>3. TypeOK
  <2>1. RegistryTypeOK
    BY <1>1 DEF RegistryInv
  <2>2. count <= MAX_PENDING_RELAYER_CLAIMS
    BY <1>2
  <2>3. pending_by_sender \in [Accounts -> 0..MAX_PENDING_PER_SENDER]
    OBVIOUS
  <2>4. consumed \in [0..MaxClaimId -> Nat]
    OBVIOUS
  <2> QED BY <1>2, <2>1, <2>2, <2>3, <2>4 DEF TypeOK
<1>4. \A x : SlotsOf(x) = {} /\ SlotsBy(x) = {}
  BY <1>2 DEF SlotsOf, SlotsBy
<1>5. CountersMatchSlots
  BY <1>4, FS_EmptySet DEF CountersMatchSlots
<1>6. ClaimsOnce
  <2>1. \A i \in 0..MaxClaimId : ~ (i < pending_relayer_claims_next_id)
    OBVIOUS
  <2>2. \A i \in 0..MaxClaimId : Cardinality(SlotsOf(i)) + consumed[i] = 0
    BY <1>4, FS_EmptySet
  <2> QED BY <2>1, <2>2 DEF ClaimsOnce
<1> QED BY <1>1, <1>3, <1>5, <1>6 DEF TreasuryInv

\* Paying out at most what is tracked keeps the types of the funds.
LEMMA PayOutType ==
  ASSUME TypeOK, NEW m \in Nat, PayOut(Smaller(m, tracked_balance))
  PROVE  tracked_balance' \in 0..MAX_U128 /\ treasury_balance' \in 0..MAX_U128
BY RegistryConstants DEF TypeOK, PayOut, Smaller

\* Queueing a claim.
LEMMA QueueInv ==
  ASSUME TreasuryInv, RegistryInv', NEW a \in Accounts,
         NEW amount \in Amounts, NEW fee \in Amounts,
         queue_relayer_claim(a, amount, fee)
  PROVE  TreasuryInv'
<1> USE RegistryConstants, TreasuryConstants
<1> DEFINE id == pending_relayer_claims_next_id
           claim == [id |-> id, amount |-> amount, fee |-> fee, submitter |-> a]
<1>0. TypeOK
  BY DEF TreasuryInv
<1>1. claim \in RelayerClaims /\ id \in 0..MaxClaimId /\ id < MaxClaimId
  BY <1>0 DEF RelayerClaims, TypeOK, queue_relayer_claim
<1>2. /\ pending_relayer_claims' \in Seq(RelayerClaims)
      /\ count' = count + 1 /\ count \in Nat
      /\ \A k \in 1..count : pending_relayer_claims'[k] = pending_relayer_claims[k]
      /\ pending_relayer_claims'[count + 1] = claim
  <2>1. pending_relayer_claims' = Append(pending_relayer_claims, claim)
    BY DEF queue_relayer_claim
  <2> HIDE DEF claim
  <2> QED BY <1>0, <1>1, <2>1, AppendProperties, LenProperties DEF TypeOK, count
<1>3. TypeOK'
  <2>1. RegistryTypeOK'
    BY DEF RegistryInv
  <2>2. pending_by_sender' \in [Accounts -> 0..MAX_PENDING_PER_SENDER]
    BY <1>0 DEF TypeOK, queue_relayer_claim, under_sender_cap
  <2>3. count' <= MAX_PENDING_RELAYER_CLAIMS
    BY <1>2 DEF queue_relayer_claim
  <2>4. pending_relayer_claims_next_id' \in 0..MaxClaimId
    BY <1>1 DEF queue_relayer_claim
  <2>5. UNCHANGED <<tracked_balance, treasury_balance, treasury_wired, script_done, consumed>>
    BY DEF queue_relayer_claim, fundVars, deployVars
  <2> QED BY <1>0, <1>2, <2>1, <2>2, <2>3, <2>4, <2>5 DEF TypeOK
<1>4. \A b \in Accounts :
         SlotsBy(b)' = IF b = a THEN SlotsBy(b) \cup {count + 1} ELSE SlotsBy(b)
  BY <1>2 DEF SlotsBy
<1>5. \A i \in 0..MaxClaimId :
         SlotsOf(i)' = IF i = id THEN SlotsOf(i) \cup {count + 1} ELSE SlotsOf(i)
  BY <1>2 DEF SlotsOf
<1>6. CountersMatchSlots'
  <2>1. SUFFICES ASSUME NEW b \in Accounts
                 PROVE  pending_by_sender'[b] = Cardinality(SlotsBy(b)')
    BY DEF CountersMatchSlots
  <2>2. count + 1 \notin SlotsBy(b)
    BY <1>2 DEF SlotsBy
  <2>3. Cardinality(SlotsBy(b) \cup {count + 1}) = Cardinality(SlotsBy(b)) + 1
    BY <1>0, <2>2, SlotsFinite, FS_AddElement
  <2> QED BY <1>0, <1>4, <2>3 DEF TypeOK, TreasuryInv, CountersMatchSlots, queue_relayer_claim
<1>7. ClaimsOnce'
  <2>1. SUFFICES ASSUME NEW i \in 0..MaxClaimId
                 PROVE  Cardinality(SlotsOf(i)') + consumed'[i] =
                          IF i < pending_relayer_claims_next_id' THEN 1 ELSE 0
    BY DEF ClaimsOnce
  <2>2. count + 1 \notin SlotsOf(i)
    BY <1>2 DEF SlotsOf
  <2>3. Cardinality(SlotsOf(i) \cup {count + 1}) = Cardinality(SlotsOf(i)) + 1
    BY <1>0, <2>2, SlotsFinite, FS_AddElement
  <2>4. Cardinality(SlotsOf(i)) \in Nat /\ consumed[i] \in Nat
    BY <1>0, SlotsFinite DEF TypeOK
  <2>5. Cardinality(SlotsOf(i)) + consumed[i] = IF i < id THEN 1 ELSE 0
    BY DEF TreasuryInv, ClaimsOnce
  <2>6. UNCHANGED consumed /\ pending_relayer_claims_next_id' = id + 1
    BY DEF queue_relayer_claim
  <2>7. Cardinality(SlotsOf(i)') = IF i = id THEN Cardinality(SlotsOf(i)) + 1
                                            ELSE Cardinality(SlotsOf(i))
    BY <1>5, <2>3
  <2> HIDE DEF id
  <2> QED BY <1>1, <2>4, <2>5, <2>6, <2>7
<1> QED BY <1>3, <1>6, <1>7 DEF TreasuryInv

\* A consumption finds its claim in exactly one slot.
LEMMA ConsumedSlot ==
  ASSUME TreasuryInv, NEW a \in Accounts, NEW i \in 0..MaxClaimId,
         consume_relayer_claim(a, i)
  PROVE  LET slot == Max(SlotsOf(i))
             entry == pending_relayer_claims[slot]
         IN  /\ SlotsOf(i) = {slot} /\ slot \in 1..count /\ count \in Nat
             /\ consumed[i] = 0 /\ i < pending_relayer_claims_next_id
             /\ entry \in RelayerClaims /\ entry.id = i
<1> DEFINE slot == Max(SlotsOf(i))
           entry == pending_relayer_claims[slot]
<1>0. TypeOK
  BY DEF TreasuryInv
<1>1. SlotsOf(i) = {slot} /\ consumed[i] = 0 /\ i < pending_relayer_claims_next_id
  <2>1. SlotsOf(i) # {} /\ IsFiniteSet(SlotsOf(i))
    BY <1>0, SlotsFinite DEF consume_relayer_claim
  <2>2. Cardinality(SlotsOf(i)) # 0 /\ Cardinality(SlotsOf(i)) \in Nat /\ consumed[i] \in Nat
    BY <1>0, <2>1, FS_EmptySet, SlotsFinite DEF TypeOK
  <2>3. Cardinality(SlotsOf(i)) = 1 /\ consumed[i] = 0 /\ i < pending_relayer_claims_next_id
    BY <2>2 DEF TreasuryInv, ClaimsOnce
  <2>4. PICK k : SlotsOf(i) = {k}
    BY <2>1, <2>3, FS_Singleton
  <2>5. k \in Nat
    BY <2>4, <1>0, SlotsFinite
  <2>6. Max({k}) = k
    BY <2>5 DEF Max
  <2> QED BY <2>3, <2>4, <2>6
<1>2. slot \in 1..count /\ count \in Nat
  BY <1>0, <1>1, SlotsFinite
<1>3. entry \in RelayerClaims /\ entry.id = i
  BY <1>0, <1>1, <1>2, ElementOfSeq DEF TypeOK, count, SlotsOf
<1> QED BY <1>1, <1>2, <1>3

\* Consuming a claim.
LEMMA ConsumeInv ==
  ASSUME TreasuryInv, RegistryInv', NEW a \in Accounts, NEW i \in 0..MaxClaimId,
         consume_relayer_claim(a, i)
  PROVE  TreasuryInv'
<1> USE RegistryConstants, TreasuryConstants
<1> DEFINE slot == Max(SlotsOf(i))
           entry == pending_relayer_claims[slot]
<1>0. TypeOK
  BY DEF TreasuryInv
<1>1. SlotsOf(i) = {slot} /\ consumed[i] = 0 /\ i < pending_relayer_claims_next_id
  BY ConsumedSlot
<1>2. slot \in 1..count /\ count \in Nat
  BY ConsumedSlot
<1>3. entry \in RelayerClaims /\ entry.id = i
  BY ConsumedSlot
<1>4. /\ pending_relayer_claims' =
           [k \in 1..(count - 1) |-> IF k = slot THEN pending_relayer_claims[count]
                                                 ELSE pending_relayer_claims[k]]
      /\ pending_by_sender' =
           [pending_by_sender EXCEPT ![entry.submitter] = IF @ > 0 THEN @ - 1 ELSE @]
      /\ PayOut(Smaller(Smaller(entry.fee, entry.amount), tracked_balance))
      /\ consumed' = [consumed EXCEPT ![i] = @ + 1]
      /\ UNCHANGED <<pending_relayer_claims_next_id, treasury_wired, script_done>>
  BY DEF consume_relayer_claim, Compact, FreedSender, deployVars
<1> HIDE DEF slot, entry
<1>5. entry.submitter \in Accounts /\ entry.fee \in Nat /\ entry.amount \in Nat
  BY <1>3 DEF RelayerClaims
<1>6. /\ pending_relayer_claims' \in Seq(RelayerClaims)
      /\ count' = count - 1
      /\ \A k \in 1..(count - 1) :
            pending_relayer_claims'[k] = IF k = slot THEN pending_relayer_claims[count]
                                                     ELSE pending_relayer_claims[k]
  <2>1. \A k \in 1..count : pending_relayer_claims[k] \in RelayerClaims
    BY <1>0, ElementOfSeq DEF TypeOK, count
  <2>2. count - 1 \in Nat /\ count \in 1..count
    BY <1>2
  <2>3. pending_relayer_claims' \in [1..(count - 1) -> RelayerClaims]
    BY <1>4, <2>1, <2>2
  <2>4. pending_relayer_claims' \in Seq(RelayerClaims)
    BY <2>2, <2>3
  <2>5. Len(pending_relayer_claims') = count - 1
    BY <2>2, <2>3, <2>4, LenProperties
  <2> QED BY <1>4, <2>4, <2>5 DEF count
<1>7. tracked_balance' \in 0..MAX_U128 /\ treasury_balance' \in 0..MAX_U128
  <2>1. Smaller(entry.fee, entry.amount) \in Nat
    BY <1>5 DEF Smaller
  <2> QED BY <1>0, <1>4, <2>1, PayOutType
<1>8. \A x \in Accounts :
         SlotsBy(x)' = {k \in 1..(count - 1) : IF k = slot THEN count \in SlotsBy(x)
                                                           ELSE k \in SlotsBy(x)}
  BY <1>2, <1>6 DEF SlotsBy
<1>9. \A x \in 0..MaxClaimId :
         SlotsOf(x)' = {k \in 1..(count - 1) : IF k = slot THEN count \in SlotsOf(x)
                                                           ELSE k \in SlotsOf(x)}
  BY <1>2, <1>6 DEF SlotsOf
<1>10. CountersMatchSlots'
  <2>1. SUFFICES ASSUME NEW b \in Accounts
                 PROVE  pending_by_sender'[b] = Cardinality(SlotsBy(b)')
    BY DEF CountersMatchSlots
  <2>7. SlotsBy(b) \in SUBSET (1..count)
    BY <1>0, SlotsFinite
  <2>8. SlotsBy(b)' = {k \in 1..(count - 1) : IF k = slot THEN count \in SlotsBy(b)
                                                     ELSE k \in SlotsBy(b)}
    BY <1>8
  <2>2. Cardinality(SlotsBy(b)') =
          Cardinality(SlotsBy(b)) - (IF slot \in SlotsBy(b) THEN 1 ELSE 0)
    BY <1>2, <2>7, <2>8, CompactCount
  <2>3. slot \in SlotsBy(b) <=> b = entry.submitter
    BY <1>2 DEF SlotsBy, entry
  <2>4. slot \in SlotsBy(b) => Cardinality(SlotsBy(b)) > 0
    BY <1>0, SlotsFinite, FS_EmptySet
  <2>5. pending_by_sender[b] = Cardinality(SlotsBy(b)) /\ Cardinality(SlotsBy(b)) \in Nat
    BY <1>0, SlotsFinite DEF TreasuryInv, CountersMatchSlots
  <2>6. pending_by_sender'[b] = IF b = entry.submitter
                                  THEN IF pending_by_sender[b] > 0 THEN pending_by_sender[b] - 1
                                                                   ELSE pending_by_sender[b]
                                  ELSE pending_by_sender[b]
    BY <1>0, <1>4, <1>5 DEF TypeOK
  <2> QED BY <2>2, <2>3, <2>4, <2>5, <2>6
<1>11. ClaimsOnce'
  <2>1. SUFFICES ASSUME NEW x \in 0..MaxClaimId
                 PROVE  Cardinality(SlotsOf(x)') + consumed'[x] =
                          IF x < pending_relayer_claims_next_id' THEN 1 ELSE 0
    BY DEF ClaimsOnce
  <2>7. SlotsOf(x) \in SUBSET (1..count)
    BY <1>0, SlotsFinite
  <2>8. SlotsOf(x)' = {k \in 1..(count - 1) : IF k = slot THEN count \in SlotsOf(x)
                                                     ELSE k \in SlotsOf(x)}
    BY <1>9
  <2>2. Cardinality(SlotsOf(x)') =
          Cardinality(SlotsOf(x)) - (IF slot \in SlotsOf(x) THEN 1 ELSE 0)
    BY <1>2, <2>7, <2>8, CompactCount
  <2>3. slot \in SlotsOf(x) <=> x = i
    BY <1>2, <1>3 DEF SlotsOf, entry
  <2>4. Cardinality(SlotsOf(x)) \in Nat /\ consumed[x] \in Nat
    BY <1>0, SlotsFinite DEF TypeOK
  <2>5. Cardinality(SlotsOf(x)) + consumed[x] =
          IF x < pending_relayer_claims_next_id THEN 1 ELSE 0
    BY DEF TreasuryInv, ClaimsOnce
  <2>6. consumed'[x] = IF x = i THEN consumed[x] + 1 ELSE consumed[x]
    BY <1>0, <1>4 DEF TypeOK
  <2>9. pending_relayer_claims_next_id' = pending_relayer_claims_next_id
    BY <1>4
  <2> QED BY <2>2, <2>3, <2>4, <2>5, <2>6, <2>9
<1>12. TypeOK'
  <2>1. pending_by_sender' \in [Accounts -> 0..MAX_PENDING_PER_SENDER]
    <3>1. pending_by_sender \in [Accounts -> 0..MAX_PENDING_PER_SENDER]
      BY <1>0 DEF TypeOK
    <3>2. \A n \in 0..MAX_PENDING_PER_SENDER :
             (IF n > 0 THEN n - 1 ELSE n) \in 0..MAX_PENDING_PER_SENDER
      OBVIOUS
    <3>3. \A b \in Accounts :
             pending_by_sender'[b] = IF b = entry.submitter
                                       THEN IF pending_by_sender[b] > 0
                                              THEN pending_by_sender[b] - 1
                                              ELSE pending_by_sender[b]
                                       ELSE pending_by_sender[b]
      BY <1>4, <1>5, <3>1
    <3>4. \A b \in Accounts : pending_by_sender'[b] \in 0..MAX_PENDING_PER_SENDER
      BY <3>1, <3>2, <3>3
    <3>5. pending_by_sender' \in [Accounts -> 0..MAX_PENDING_PER_SENDER]
           <=> \A b \in Accounts : pending_by_sender'[b] \in 0..MAX_PENDING_PER_SENDER
      BY <1>4, <3>1
    <3> QED BY <3>4, <3>5
  <2>2. consumed' \in [0..MaxClaimId -> Nat]
    BY <1>0, <1>4 DEF TypeOK
  <2>3. /\ pending_relayer_claims_next_id' \in 0..MaxClaimId
        /\ treasury_wired' \in BOOLEAN /\ script_done' \subseteq Steps
    BY <1>0, <1>4 DEF TypeOK
  <2>4. pending_relayer_claims' \in Seq(RelayerClaims) /\ count' <= MAX_PENDING_RELAYER_CLAIMS
    BY <1>0, <1>2, <1>6 DEF TypeOK
  <2>5. RegistryTypeOK'
    BY DEF RegistryInv
  <2> QED BY <1>7, <2>1, <2>2, <2>3, <2>4, <2>5 DEF TypeOK
<1> QED BY <1>10, <1>11, <1>12 DEF TreasuryInv

\* A step of the system that leaves the queue alone, and the type of the funds.
LEMMA OtherStepInv ==
  ASSUME TreasuryInv, RegistryInv', UNCHANGED queueVars,
         tracked_balance' \in 0..MAX_U128, treasury_balance' \in 0..MAX_U128,
         treasury_wired' \in BOOLEAN, script_done' \subseteq Steps
  PROVE  TreasuryInv'
<1>1. UNCHANGED <<pending_relayer_claims, pending_relayer_claims_next_id,
                  pending_by_sender, consumed>>
  BY DEF queueVars
<1>2. RegistryTypeOK'
  BY DEF RegistryInv
<1>3. TypeOK'
  BY <1>1, <1>2 DEF TreasuryInv, TypeOK, count
<1>4. count' = count /\ \A x : SlotsBy(x)' = SlotsBy(x) /\ SlotsOf(x)' = SlotsOf(x)
  BY <1>1 DEF count, SlotsBy, SlotsOf
<1>5. CountersMatchSlots'
  BY <1>1, <1>4 DEF TreasuryInv, CountersMatchSlots
<1>6. ClaimsOnce'
  BY <1>1, <1>4 DEF TreasuryInv, ClaimsOnce
<1> QED BY <1>3, <1>5, <1>6 DEF TreasuryInv

\* Every step preserves the invariant.
LEMMA TreasuryStepInv == TreasuryInv /\ [Next]_vars => TreasuryInv'
<1> SUFFICES ASSUME TreasuryInv, [Next]_vars PROVE TreasuryInv'
  OBVIOUS
<1> USE RegistryConstants, TreasuryConstants
<1>1. RegistryInv' /\ TypeOK
  BY RegistryStepInv DEF TreasuryInv
<1>2. /\ tracked_balance \in 0..MAX_U128 /\ treasury_balance \in 0..MAX_U128
      /\ treasury_wired \in BOOLEAN /\ script_done \subseteq Steps
  BY <1>1 DEF TypeOK
<1>3. CASE UNCHANGED treasuryVars
  BY <1>1, <1>2, <1>3, OtherStepInv DEF treasuryVars, fundVars, deployVars
<1>4. ASSUME NEW amount \in Amounts, deposit(amount) PROVE TreasuryInv'
  <2>1. amount \in Nat
    OBVIOUS
  <2> QED BY <1>1, <1>2, <1>4, <2>1, OtherStepInv DEF deposit, deployVars
<1>5. CASE set_treasury
  BY <1>1, <1>2, <1>5, OtherStepInv DEF set_treasury, SaveStep, Steps, fundVars
<1>6. CASE MintSeed
  <2>1. treasury_balance' \in 0..MAX_U128 /\ tracked_balance' = tracked_balance
    BY <1>2, <1>6 DEF MintSeed
  <2>2. script_done' \subseteq Steps /\ UNCHANGED <<queueVars, treasury_wired>>
    BY <1>2, <1>6 DEF MintSeed, SaveStep, Steps
  <2> QED BY <1>1, <1>2, <2>1, <2>2, OtherStepInv
<1>7. CASE seed_public
  <2>1. tracked_balance' \in 0..MAX_U128 /\ treasury_balance' = treasury_balance
    BY <1>2, <1>7 DEF seed_public
  <2>2. script_done' \subseteq Steps /\ UNCHANGED <<queueVars, treasury_wired>>
    BY <1>2, <1>7 DEF seed_public, SaveStep, Steps
  <2> QED BY <1>1, <1>2, <2>1, <2>2, OtherStepInv
<1>8. ASSUME NEW a \in Accounts, pay_aggregator(a) PROVE TreasuryInv'
  BY <1>1, <1>2, <1>8, OtherStepInv, PayOutType DEF pay_aggregator, deployVars
<1>9. ASSUME NEW a \in Accounts, NEW amount \in Amounts, NEW fee \in Amounts,
             queue_relayer_claim(a, amount, fee)
      PROVE  TreasuryInv'
  BY <1>1, <1>9, QueueInv
<1>10. ASSUME NEW a \in Accounts, NEW i \in 0..MaxClaimId, consume_relayer_claim(a, i)
       PROVE  TreasuryInv'
  BY <1>1, <1>10, ConsumeInv
<1> QED BY <1>3, <1>4, <1>5, <1>6, <1>7, <1>8, <1>9, <1>10 DEF Next, vars

\* The state keeps its types.
THEOREM TypeCorrect == Spec => []TypeOK
<1>1. TreasuryInv => TypeOK
  BY DEF TreasuryInv
<1> QED BY <1>1, TreasuryInitInv, TreasuryStepInv, PTL DEF Spec

\* The counter of each submitter is the number of slots its claims occupy.
THEOREM CountersCorrect == Spec => []CountersMatchSlots
<1>1. TreasuryInv => CountersMatchSlots
  BY DEF TreasuryInv
<1> QED BY <1>1, TreasuryInitInv, TreasuryStepInv, PTL DEF Spec

\* Every queued claim is pending in one slot or was consumed once.
THEOREM ClaimsCorrect == Spec => []ClaimsOnce
<1>1. TreasuryInv => ClaimsOnce
  BY DEF TreasuryInv
<1> QED BY <1>1, TreasuryInitInv, TreasuryStepInv, PTL DEF Spec

-----------------------------------------------------------------------------
(* The funds.                                                               *)

\* What is minted and not yet recorded is in reserve until the seed is: then
\* crediting it keeps tracked_balance below what the treasury owns.
Reserve == IF "mint" \in script_done /\ "seed" \notin script_done THEN TREASURY_SEED ELSE 0

BackedInv ==
  /\ tracked_balance + Reserve <= treasury_balance
  /\ "seed" \in script_done => "mint" \in script_done

\* Every step of a deployment that is not interrupted after seeding keeps the
\* treasury backed.
LEMMA BackedStep ==
  ASSUME "seed" \notin CrashAfter, TreasuryInv, BackedInv, [Next]_vars
  PROVE  BackedInv'
<1> USE RegistryConstants, TreasuryConstants
<1>1. tracked_balance \in Nat /\ treasury_balance \in Nat
  BY DEF TreasuryInv, TypeOK
<1>2. \A m \in Nat : PayOut(Smaller(m, tracked_balance)) /\ UNCHANGED script_done => BackedInv'
  BY <1>1 DEF BackedInv, Reserve, PayOut, Smaller
<1>3. CASE UNCHANGED <<tracked_balance, treasury_balance, script_done>>
  BY <1>3 DEF BackedInv, Reserve
<1>4. ASSUME NEW amount \in Amounts, deposit(amount) PROVE BackedInv'
  <2>1. amount \in Nat
    OBVIOUS
  <2> QED BY <1>1, <1>4, <2>1 DEF BackedInv, Reserve, deposit, deployVars
<1>5. CASE set_treasury
  BY <1>1, <1>5 DEF BackedInv, Reserve, set_treasury, SaveStep, fundVars
<1>6. CASE MintSeed
  BY <1>1, <1>6 DEF BackedInv, Reserve, MintSeed, SaveStep
<1>7. CASE seed_public
  BY <1>1, <1>7 DEF BackedInv, Reserve, seed_public, SaveStep
<1>8. ASSUME NEW a \in Accounts, pay_aggregator(a) PROVE BackedInv'
  BY <1>2, <1>8 DEF pay_aggregator, deployVars
<1>9. ASSUME NEW a \in Accounts, NEW i \in 0..MaxClaimId, consume_relayer_claim(a, i)
      PROVE  BackedInv'
  <2> DEFINE entry == pending_relayer_claims[Max(SlotsOf(i))]
             owed == Smaller(entry.fee, entry.amount)
  <2>1. entry \in RelayerClaims
    BY <1>9, ConsumedSlot
  <2>2. entry.fee \in Nat /\ entry.amount \in Nat
    BY <2>1 DEF RelayerClaims
  <2>3. owed \in Nat
    BY <2>2 DEF Smaller
  <2>4. PayOut(Smaller(owed, tracked_balance)) /\ UNCHANGED script_done
    BY <1>9 DEF consume_relayer_claim, deployVars
  <2> QED BY <1>2, <2>3, <2>4
<1>10. ASSUME NEW a \in Accounts, NEW amount \in Amounts, NEW fee \in Amounts,
              queue_relayer_claim(a, amount, fee)
       PROVE  BackedInv'
  BY <1>3, <1>10 DEF queue_relayer_claim, fundVars, deployVars
<1>11. CASE UNCHANGED treasuryVars
  BY <1>3, <1>11 DEF treasuryVars, fundVars, deployVars
<1> QED BY <1>4, <1>5, <1>6, <1>7, <1>8, <1>9, <1>10, <1>11 DEF Next, vars

\* As long as the deploy script does not lose track of its seeding, the
\* treasury owns what it tracks.
THEOREM BackedCorrect == "seed" \notin CrashAfter => (Spec => []TrackedIsBacked)
<1> SUFFICES ASSUME "seed" \notin CrashAfter PROVE Spec => []TrackedIsBacked
  OBVIOUS
<1> DEFINE Inv == TreasuryInv /\ BackedInv
<1>1. Init => Inv
  BY TreasuryInitInv DEF Init, BackedInv, Reserve
<1>2. Inv /\ [Next]_vars => Inv'
  BY TreasuryStepInv, BackedStep
<1>3. Inv => TrackedIsBacked
  BY TreasuryConstants DEF BackedInv, Reserve, TrackedIsBacked, TreasuryInv, TypeOK
<1> QED BY <1>1, <1>2, <1>3, PTL DEF Spec

\* Then no clearing and no consumption of a claim reverts for lack of funds.
THEOREM PaymentsCorrect == "seed" \notin CrashAfter => (Spec => []PayNeverReverts)
<1> SUFFICES ASSUME "seed" \notin CrashAfter PROVE Spec => []PayNeverReverts
  OBVIOUS
<1>1. TypeOK /\ TrackedIsBacked => PayNeverReverts
  BY TreasuryConstants DEF TypeOK, TrackedIsBacked, PayNeverReverts, Smaller
<1> QED BY <1>1, TypeCorrect, BackedCorrect, PTL

=============================================================================
