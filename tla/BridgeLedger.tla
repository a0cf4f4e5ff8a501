---------------------------- MODULE BridgeLedger ----------------------------
(***************************************************************************)
(* What a lock-and-mint bridge promises, without its messages, records and *)
(* clocks: every amount on the second chain, or on its way there or back,  *)
(* is matched by an amount locked on the first one, except for the debt    *)
(* that three named steps run up.                                          *)
(***************************************************************************)
EXTENDS Integers

CONSTANT Quantities  \* what one step may move

VARIABLES
  locked,       \* in escrow on the first chain
  arriving,     \* locked, and not yet issued on the second chain
  circulating,  \* issued on the second chain
  leaving,      \* burned there, and not yet released here
  lost,         \* locked with no claim on it left: wiped or destroyed on the
                \* second chain, or given to the escrow
  debt          \* issued without a lock, or released without a burn

ledgerVars == <<locked, arriving, circulating, leaving, lost, debt>>

Init ==
  /\ locked = 0 /\ arriving = 0 /\ circulating = 0
  /\ leaving = 0 /\ lost = 0 /\ debt = 0

Lock(a) ==
  /\ locked' = locked + a /\ arriving' = arriving + a
  /\ UNCHANGED <<circulating, leaving, lost, debt>>

Arrive(a) ==
  /\ arriving' = arriving - a /\ circulating' = circulating + a
  /\ UNCHANGED <<locked, leaving, lost, debt>>

\* Debt: an issue by the minter, or of an amount that was refunded before.
Issue(a) ==
  /\ circulating' = circulating + a /\ debt' = debt + a
  /\ UNCHANGED <<locked, arriving, leaving, lost>>

Leave(a) ==
  /\ circulating' = circulating - a /\ leaving' = leaving + a
  /\ UNCHANGED <<locked, arriving, lost, debt>>

Release(a) ==
  /\ leaving' = leaving - a /\ locked' = locked - a
  /\ UNCHANGED <<arriving, circulating, lost, debt>>

Refund(a) ==
  /\ arriving' = arriving - a /\ locked' = locked - a
  /\ UNCHANGED <<circulating, leaving, lost, debt>>

\* Debt: a refund of an amount that has arrived.
RefundArrived(a) ==
  /\ locked' = locked - a /\ debt' = debt + a
  /\ UNCHANGED <<arriving, circulating, leaving, lost>>

Wipe ==
  /\ circulating' = 0 /\ lost' = lost + circulating
  /\ UNCHANGED <<locked, arriving, leaving, debt>>

Destroy(a) ==
  /\ circulating' = circulating - a /\ lost' = lost + a
  /\ UNCHANGED <<locked, arriving, leaving, debt>>

Give(a) ==
  /\ locked' = locked + a /\ lost' = lost + a
  /\ UNCHANGED <<arriving, circulating, leaving, debt>>

Next ==
  \/ \E a \in Quantities :
       \/ Lock(a) \/ Arrive(a) \/ Issue(a) \/ Leave(a)
       \/ Release(a) \/ Refund(a) \/ RefundArrived(a)
       \/ Destroy(a) \/ Give(a)
  \/ Wipe

\* Nothing is ever overdrawn.
Solvent ==
  /\ locked \in Nat /\ arriving \in Nat /\ circulating \in Nat
  /\ leaving \in Nat /\ lost \in Nat /\ debt \in Nat

LedgerSpec == Init /\ [][Next /\ Solvent']_ledgerVars

\* Escrow and debt together are what has a claim on the escrow, or had one.
Balanced == locked + debt = arriving + circulating + leaving + lost

=============================================================================
