---------------------------- MODULE MCInvalidation ----------------------------
(* A small instance of Invalidation: the in-memory broker, two concurrent publishers. *)
EXTENDS Invalidation, TLC

CONSTANTS t1, k1, a, b, c, r1, r2

Ev(id, tags, keys, version) ==
    [id |-> id, tags |-> tags, keys |-> keys, version |-> version]

Resp(v, tags) == [version |-> v, tags |-> tags]

MCShardOf == [k \in Keys |-> 1]

\* Concurrent in-memory publishes: an old and a new version of t1 and
\* a purge of the key k1.
MemoryInbox == { Ev(a, <<t1>>, <<>>, 2), Ev(b, <<t1>>, <<>>, 1), Ev(c, <<>>, <<k1>>, 0) }

\* Responses around the two versions of MemoryInbox.
MemoryResponses == { Resp(0, {}), Resp(1, {t1}), Resp(2, {t1}) }

\* Runners run the same code.
RunnerSymmetry == Permutations({r1, r2})
===============================================================================
