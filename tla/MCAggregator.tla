---------------------------- MODULE MCAggregator ----------------------------
(* Values of the constants of Aggregator for TLC. *)
EXTENDS Aggregator

CONSTANTS o1, o2, twin, junk

\* One stray takes the nonce of an order, the other one has a nonce of its own.
MCStrayNonce == [s \in {twin, junk} |-> IF s = twin THEN o1 ELSE junk]

\* The clearing of the first order is rejected on the pools as they are at first.
MCUnprovable == {<<{o1}, 0>>}
=============================================================================
