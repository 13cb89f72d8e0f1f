-------------------------------- MODULE MCFetch --------------------------------
(* A small instance of Fetch. *)
EXTENDS Fetch, TLC

CONSTANTS r1, r2

RequestSymmetry == Permutations({r1, r2})
===============================================================================
