------------------------------ MODULE MCAdmission ------------------------------
(* A shard of two items, three keys and a sketch of two counters in a row. *)
EXTENDS Admission, TLC

CONSTANTS k1, k2, k3, row1, row2, c1, c2

\* k1 shares a counter with k2 in one row and with k3 in the other, k2 and k3
\* share none.
MCIndex == row1 :> (k1 :> 1 @@ k2 :> 1 @@ k3 :> 2) @@ row2 :> (k1 :> 2 @@ k2 :> 1 @@ k3 :> 2)

\* k3 is as heavy as two others.
MCSize == k1 :> 1 @@ k2 :> 1 @@ k3 :> 2

MCShardOf == [k \in Keys |-> CHOOSE s \in Shards : TRUE]

Symmetry == Permutations({c1, c2})
===============================================================================
