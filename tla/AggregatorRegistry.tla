------------------------- MODULE AggregatorRegistry -------------------------
(***************************************************************************)
(* The AggregatorRegistry contract (contracts/aggregator-registry):        *)
(* accounts escrow a fixed bond, get an id, and take the bond back when    *)
(* they leave.  The orderbook and the treasury read bonded_amount_by_addr. *)
(*                                                                         *)
(* register and unregister have a private and a public half, but what the  *)
(* private half reads is immutable, so an action is the whole transaction: *)
(* a failed assert of any public call undoes all of it.                    *)
(*                                                                         *)
(* The accounts' own balances are not kept: a caller may have the funds.   *)
(***************************************************************************)
EXTENDS Integers, FiniteSets

CONSTANTS
  Accounts,
  ZERO,            \* what unset addresses and endpoint hashes read as
  EndpointHashes,
  bond_amount,     \* may be 0: the constructor does not check it
  MAX_U32, MAX_U128

ASSUME RegistryConstants ==
  /\ ZERO \notin Accounts /\ bond_amount \in Nat
  /\ MAX_U32 \in Nat \ {0} /\ MAX_U128 \in Nat

VARIABLES
  next_id, aggregator_id_by_addr, bonded_amount_by_addr,
  endpoint_hash_by_addr, registered_addrs,
  registry_balance \* bond tokens the registry owns (Token.public_balances)

registryVars ==
  <<next_id, aggregator_id_by_addr, bonded_amount_by_addr,
    endpoint_hash_by_addr, registered_addrs, registry_balance>>

RegistryInit ==
  /\ next_id = 1
  /\ aggregator_id_by_addr = [a \in Accounts |-> 0]
  /\ bonded_amount_by_addr = [a \in Accounts |-> 0]
  /\ endpoint_hash_by_addr = [a \in Accounts |-> ZERO]
  /\ registered_addrs = [i \in 0..MAX_U32 |-> ZERO]
  /\ registry_balance = 0

\* The only guard against a second registration, in the public half.
NotYetRegistered(caller) == aggregator_id_by_addr[caller] = 0

IsRegistered(a) == bonded_amount_by_addr[a] > 0

register(caller, endpoint_url_hash) ==
  /\ registry_balance + bond_amount <= MAX_U128
  /\ NotYetRegistered(caller)
  /\ next_id < MAX_U32
  /\ registry_balance' = registry_balance + bond_amount
  /\ aggregator_id_by_addr' = [aggregator_id_by_addr EXCEPT ![caller] = next_id]
  /\ bonded_amount_by_addr' = [bonded_amount_by_addr EXCEPT ![caller] = bond_amount]
  /\ endpoint_hash_by_addr' = [endpoint_hash_by_addr EXCEPT ![caller] = endpoint_url_hash]
  /\ registered_addrs' = [registered_addrs EXCEPT ![next_id] = caller]
  /\ next_id' = next_id + 1

update_endpoint(caller, new_endpoint_url_hash) ==
  /\ IsRegistered(caller)
  /\ endpoint_hash_by_addr' = [endpoint_hash_by_addr EXCEPT ![caller] = new_endpoint_url_hash]
  /\ UNCHANGED <<next_id, aggregator_id_by_addr, bonded_amount_by_addr,
                 registered_addrs, registry_balance>>

FreedId(caller) == aggregator_id_by_addr[caller]

\* Zeroes the four maps; the caller's id becomes a hole and is never reissued.
unregister(caller) ==
  /\ IsRegistered(caller)
  /\ registry_balance >= bond_amount
  /\ registry_balance' = registry_balance - bond_amount
  /\ aggregator_id_by_addr' = [aggregator_id_by_addr EXCEPT ![caller] = 0]
  /\ bonded_amount_by_addr' = [bonded_amount_by_addr EXCEPT ![caller] = 0]
  /\ endpoint_hash_by_addr' = [endpoint_hash_by_addr EXCEPT ![caller] = ZERO]
  /\ registered_addrs' = [registered_addrs EXCEPT ![FreedId(caller)] = ZERO]
  /\ UNCHANGED next_id

RegistryNext ==
  \E a \in Accounts :
    \/ \E h \in EndpointHashes : register(a, h) \/ update_endpoint(a, h)
    \/ unregister(a)

(* Properties *)

RegistryTypeOK ==
  /\ next_id \in 1..MAX_U32
  /\ aggregator_id_by_addr \in [Accounts -> 0..MAX_U32]
  /\ bonded_amount_by_addr \in [Accounts -> {0, bond_amount}]
  /\ endpoint_hash_by_addr \in [Accounts -> EndpointHashes \cup {ZERO}]
  /\ registered_addrs \in [0..MAX_U32 -> Accounts \cup {ZERO}]
  /\ registry_balance \in 0..MAX_U128

Registered == {a \in Accounts : aggregator_id_by_addr[a] # 0}

\* The escrow holds exactly one bond for each registered account, whatever the
\* order of registrations, departures and returns: nobody's bond pays for the
\* refund of another (register's guard is only in its public half).
EscrowIsBonds == registry_balance = bond_amount * Cardinality(Registered)

\* The id of an account and the account of an id are inverse maps, ids are
\* below next_id, and an account that left has neither id, bond nor endpoint:
\* get_aggregator_by_id never names a departed or replaced aggregator.
IdsNameAccounts ==
  /\ \A a \in Accounts :
       IF a \in Registered
         THEN /\ registered_addrs[aggregator_id_by_addr[a]] = a
              /\ aggregator_id_by_addr[a] < next_id
              /\ bonded_amount_by_addr[a] = bond_amount
         ELSE /\ bonded_amount_by_addr[a] = 0
              /\ endpoint_hash_by_addr[a] = ZERO
  /\ \A i \in 0..MAX_U32 :
       registered_addrs[i] # ZERO =>
         /\ registered_addrs[i] \in Registered
         /\ aggregator_id_by_addr[registered_addrs[i]] = i

=============================================================================
