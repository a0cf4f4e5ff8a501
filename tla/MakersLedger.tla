---------------------------- MODULE MakersLedger ----------------------------
(***************************************************************************)
(* What an auction house promises the makers whose money it holds, without *)
(* its clocks, chains, proofs and pools: an order is placed with its cost, *)
(* filled at most once and only in the round it is open in, refunded at    *)
(* most once at its cost; a fill stays due until it is redeemed; and the   *)
(* end of a round, whatever it trades with strangers, never leaves the     *)
(* house with less beyond its debts than before.                           *)
(***************************************************************************)
EXTENDS Integers, FiniteSetsExt

CONSTANTS
  Orders, Tokens,
  cost,     \* cost[o]: what placing order o costs
  costIn,   \* costIn[o]: the token it costs
  paidIn    \* paidIn[o]: the token its fill is paid in

VARIABLES
  round,     \* the current round
  open,      \* orders that may be filled when the round ends
  placed,    \* every order ever placed
  refunded,  \* orders whose cost was given back
  filled,    \* orders filled in a round that is over
  due,       \* fills not redeemed: <<round, [order, amount_out, ...]>>
  held       \* what the house holds of each token

ledgerVars == <<round, open, placed, refunded, filled, due, held>>

CostOf(S, t) == SumFunctionOnSet(cost, { o \in S : costIn[o] = t })

DueIn(t) ==
  SumFunctionOnSet([c \in due |-> c[2].amount_out], { c \in due : paidIn[c[2].order] = t })

\* What the house holds of t beyond its debts.  A refund of a filled order
\* pays that order twice: it is a loss the makers as a whole are charged with.
Margin(t) ==
  held[t] + CostOf(refunded \cap filled, t)
    - CostOf(placed \ (refunded \cup filled), t) - DueIn(t)

Init ==
  /\ round = 0
  /\ open = {} /\ placed = {} /\ refunded = {} /\ filled = {} /\ due = {}
  /\ held = [t \in Tokens |-> 0]

Pay(t, amount) ==
  /\ held[t] >= amount
  /\ held' = [held EXCEPT ![t] = @ - amount]

Place(S) ==
  /\ S # {} /\ S \cap placed = {}
  /\ placed' = placed \cup S
  /\ open' = open \cup S
  /\ held' = [t \in Tokens |-> held[t] + CostOf(S, t)]
  /\ UNCHANGED <<round, refunded, filled, due>>

\* A refunded order leaves its round, or is still filled when the round ends.
Refund(o) ==
  /\ o \in placed \ refunded
  /\ refunded' = refunded \cup {o}
  /\ open' \in {open, open \ {o}}
  /\ Pay(costIn[o], cost[o])
  /\ UNCHANGED <<round, placed, filled, due>>

Redeem(c) ==
  /\ c \in due
  /\ due' = due \ {c}
  /\ Pay(paidIn[c[2].order], c[2].amount_out)
  /\ UNCHANGED <<round, open, placed, refunded, filled>>

EndRound ==
  LET new == due' \ due IN
  /\ due \subseteq due'
  /\ \A c \in new : c[1] = round /\ c[2].order \in open \ filled
  /\ \A c, d \in new : c[2].order = d[2].order => c = d
  /\ filled' = filled \cup { c[2].order : c \in new }
  /\ round' = round + 1
  /\ open' = {}
  /\ held' \in [Tokens -> Nat]
  /\ \A t \in Tokens : Margin(t)' >= Margin(t)
  /\ UNCHANGED <<placed, refunded>>

Next ==
  \/ \E S \in SUBSET Orders : Place(S)
  \/ \E o \in Orders : Refund(o)
  \/ \E c \in due : Redeem(c)
  \/ EndRound

LedgerSpec == Init /\ [][Next]_ledgerVars

=============================================================================
