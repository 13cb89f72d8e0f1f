------------------------------- MODULE MCOutbox -------------------------------
(* Small instances of Outbox. *)
EXTENDS Outbox, TLC

CONSTANTS n1, n2, p1, p2

\* Each process serves one request, or n1 both of them.
MCNodeOf == [p \in Requests |-> IF p = p2 /\ n2 \in Nodes THEN n2 ELSE n1]
===============================================================================
