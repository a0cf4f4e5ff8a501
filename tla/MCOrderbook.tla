---------------------------- MODULE MCOrderbook ----------------------------
(* Instances of Orderbook for TLC: the orders, the pools and the flows.    *)
EXTENDS Orderbook, TLC

CONSTANTS o1, o2, o3

MCMakers == {"alice", "bob"}

\* Two bids of one market whose limits differ and an ask with the bid's nonce.
MCNote ==
  o1 :> [owner |-> "alice", side |-> "bid", amount_in |-> 2, limit_price |-> 2,
         nonce |-> 7, path |-> <<1, 2>>]
  @@ o2 :> [owner |-> "bob", side |-> "bid", amount_in |-> 1, limit_price |-> 1,
            nonce |-> 8, path |-> <<1, 2>>]
  @@ o3 :> [owner |-> "bob", side |-> "ask", amount_in |-> 1, limit_price |-> 1,
            nonce |-> 7, path |-> <<1, 2>>]

MCPools == << <<1, 2>> >>

MCSwaps ==
  { [a_to_pool |-> 0, b_to_pool |-> 0, a_from_pool |-> 0, b_from_pool |-> 0],
    [a_to_pool |-> 1, b_to_pool |-> 0, a_from_pool |-> 0, b_from_pool |-> 1],
    [a_to_pool |-> 2, b_to_pool |-> 0, a_from_pool |-> 0, b_from_pool |-> 1] }

\* Two bids of one unit; at the price of 2 only alice's is eligible, and the
\* clearing sends its whole escrow to the pool.
UnitNote ==
  o1 :> [owner |-> "alice", side |-> "bid", amount_in |-> 1, limit_price |-> 2,
         nonce |-> 7, path |-> <<1, 2>>]
  @@ o2 :> [owner |-> "bob", side |-> "bid", amount_in |-> 1, limit_price |-> 1,
            nonce |-> 8, path |-> <<1, 2>>]

UnitSwaps ==
  { [a_to_pool |-> 1, b_to_pool |-> 0, a_from_pool |-> 0, b_from_pool |-> 1] }

\* Three tokens: a bid of pool <<1, 2>>, an ask of pool <<2, 3>> with the same
\* nonce under another maker, and a two-hop bid, which no clearing may fill.
RoutedNote ==
  o1 :> [owner |-> "alice", side |-> "bid", amount_in |-> 1, limit_price |-> 1,
         nonce |-> 7, path |-> <<1, 2>>]
  @@ o2 :> [owner |-> "bob", side |-> "ask", amount_in |-> 1, limit_price |-> 1,
            nonce |-> 7, path |-> <<2, 3>>]
  @@ o3 :> [owner |-> "alice", side |-> "bid", amount_in |-> 1, limit_price |-> 1,
            nonce |-> 8, path |-> <<1, 2, 3>>]

RoutedSwaps ==
  { [a_to_pool |-> 1, b_to_pool |-> 0, a_from_pool |-> 0, b_from_pool |-> 1],
    [a_to_pool |-> 0, b_to_pool |-> 1, a_from_pool |-> 1, b_from_pool |-> 0] }

============================================================================
