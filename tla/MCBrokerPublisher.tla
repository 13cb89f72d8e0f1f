--------------------------- MODULE MCBrokerPublisher ---------------------------
(* A small instance of BrokerPublisher. *)
EXTENDS BrokerPublisher, TLC

CONSTANTS m1, m2

MessageSymmetry == Permutations({m1, m2})
===============================================================================
