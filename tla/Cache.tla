--------------------------------- MODULE Cache ---------------------------------
(***************************************************************************)
(* InMemoryCache: independently locked shards, each a map of entries, a     *)
(* list in order of use, an index from tags to keys, a byte counter and one *)
(* removal timer per entry.                                                 *)
(*                                                                          *)
(* Every operation holds the lock of one shard and is one step.  A timer is *)
(* two: it expires (and can no longer be stopped), and later its callback   *)
(* gets the lock.  A key belongs to one shard, so one tag index stands for  *)
(* the indexes of all shards.                                               *)
(***************************************************************************)
EXTENDS Integers, SequencesExt, FiniteSetsExt

CONSTANTS Keys,
          Tags,
          Shards,
          ShardOf,     \* the shard of a key
          Capacity,    \* Config.Capacity
          MaxBytes,    \* Config.MaxBytes, 0 for no limit
          Sizes,       \* the sizes of the items stored
          Lifetimes,   \* how long from now they may be served
          Never,       \* the removal time of an item that does not expire
          None,
          MaxSets,     \* bound on the items stored
          MaxTime      \* bound on the clock

ASSUME CacheAssumption ==
    /\ IsFiniteSet(Keys)
    /\ IsFiniteSet(Shards) /\ Shards # {}
    /\ ShardOf \in [Keys -> Shards]
    /\ Capacity \in Nat \ {0}
    /\ MaxBytes \in Nat
    /\ Sizes \subseteq Nat \ {0}
    /\ Lifetimes \subseteq Nat
    /\ Never \notin Nat
    /\ None \notin [tags : SUBSET Tags, size : Sizes, removeAt : Nat \cup {Never}, armed : BOOLEAN]
    /\ MaxSets \in Nat
    /\ MaxTime \in Nat

VARIABLES
    items,      \* the entry of each key, or None
    lru,        \* keys of each shard, most recently used first
    tagged,     \* tag -> keys
    bytes,      \* byte counter of each shard
    callbacks,  \* expired timers whose callback has not got the lock yet
    now,
    sets        \* number of items stored so far

vars == <<items, lru, tagged, bytes, callbacks, now, sets>>

Entry == [tags : SUBSET Tags, size : Sizes, removeAt : Nat \cup {Never}, armed : BOOLEAN]

Stored  == { k \in Keys : items[k] # None }
Here(s) == { k \in Stored : ShardOf[k] = s }

\* removeAt has come; fixed by the entry, so a replaced entry has its own.
Expired(k) == items[k].removeAt # Never /\ now >= items[k].removeAt

-------------------------------------------------------------------------------
(* Limits: the capacity is rounded up and the bytes are rounded down.  An    *)
(* item too large for its shard is not stored.                               *)

ShardCapacity == (Capacity + Cardinality(Shards) - 1) \div Cardinality(Shards)
ShardBytes    == MaxBytes \div Cardinality(Shards)

OverLimit(count, size) == count > ShardCapacity \/ (ShardBytes > 0 /\ size > ShardBytes)

Acceptable(size) == ShardBytes > 0 => size <= ShardBytes

-------------------------------------------------------------------------------
(* The lists, each of which finds its keys by a map, and the byte counters. *)

Position(order, k) == CHOOSE i \in DOMAIN order : order[i] = k
Without(order, k)  == IF k \in ToSet(order) THEN RemoveAt(order, Position(order, k)) ELSE order
ToFront(order, k)  == <<k>> \o Without(order, k)

\* The bytes of some entries together, counted one by one.
SizeOf(entries, keys) == Cardinality(UNION { {k} \X (1..entries[k].size) : k \in keys })

-------------------------------------------------------------------------------
(* The parts of removeLocked, for a set of keys removed in one operation.    *)

\* Mutation of Untagged: a removed key stays in the index.
StillTagged(keys) == tagged

\* A removed key leaves the index under the tags its entry has.
Untagged(keys) ==
    [t \in Tags |-> tagged[t] \ { k \in keys \cap Stored : t \in items[k].tags }]

\* Mutations of RemoveLocked: the entry's bytes stay counted, or are given back twice.
RemoveKeepsBytes(k) ==
    LET s == ShardOf[k]
    IN  /\ items' = [items EXCEPT ![k] = None]
        /\ lru' = [lru EXCEPT ![s] = Without(@, k)]
        /\ tagged' = Untagged({k})
        /\ UNCHANGED bytes

RemoveTwice(k) ==
    LET s == ShardOf[k]
    IN  /\ items' = [items EXCEPT ![k] = None]
        /\ lru' = [lru EXCEPT ![s] = Without(@, k)]
        /\ tagged' = Untagged({k})
        /\ bytes' = [bytes EXCEPT ![s] = @ - items[k].size - items[k].size]

RemoveLocked(k) ==
    LET s == ShardOf[k]
    IN  /\ items' = [items EXCEPT ![k] = None]
        /\ lru' = [lru EXCEPT ![s] = Without(@, k)]
        /\ tagged' = Untagged({k})
        /\ bytes' = [bytes EXCEPT ![s] = @ - items[k].size]

-------------------------------------------------------------------------------
\* Mutation of Kept: Set makes room only once.
KeptButOne(order, total) ==
    IF Len(order) > 1 /\ OverLimit(Len(order), total) THEN Len(order) - 1 ELSE Len(order)

\* What follows the first n keys of a list.
Behind(order, n) == { order[i] : i \in (n + 1)..Len(order) }

\* After the item is in place, Set removes entries from the least recently used
\* end until the shard is within its limits, but never the item itself.  total
\* is the byte counter before that; the first Kept keys of order remain.
Kept(order, total) ==
    Max({1} \cup { n \in DOMAIN order :
                      ~OverLimit(n, total - SizeOf(items, Behind(order, n))) })

\* Admission may refuse an item that needs an eviction, which changes nothing.
Set(k, tags, size, removeAt) ==
    LET s       == ShardOf[k]
        entry   == [tags |-> tags, size |-> size, removeAt |-> removeAt,
                    armed |-> removeAt # Never]
        order   == ToFront(lru[s], k)
        total   == bytes[s] - SizeOf(items, {k} \cap Stored) + size
        kept    == Kept(order, total)
        evicted == Behind(order, kept)
    IN  /\ Acceptable(size)
        /\ sets < MaxSets
        /\ sets' = sets + 1
        /\ items' = [key \in Keys |-> IF key = k THEN entry
                                      ELSE IF key \in evicted THEN None ELSE items[key]]
        /\ lru' = [lru EXCEPT ![s] = SubSeq(order, 1, kept)]
        /\ tagged' = [t \in Tags |->
                        Untagged({k} \cup evicted)[t] \cup (IF t \in tags THEN {k} ELSE {})]
        /\ bytes' = [bytes EXCEPT ![s] = total - SizeOf(items, evicted)]
        /\ UNCHANGED <<callbacks, now>>

Lookup(k) ==
    /\ k \in Stored
    /\ \/ Expired(k) /\ RemoveLocked(k)
       \/ /\ ~Expired(k)
          /\ lru' = [lru EXCEPT ![ShardOf[k]] = ToFront(@, k)]
          /\ UNCHANGED <<items, tagged, bytes>>
    /\ UNCHANGED <<callbacks, now, sets>>

Delete(k) ==
    /\ k \in Stored
    /\ RemoveLocked(k)
    /\ UNCHANGED <<callbacks, now, sets>>

\* Set and removeLocked stop the timer of an entry they drop, unless it has
\* expired already.
TimerExpires(k) ==
    /\ k \in Stored
    /\ items[k].armed
    /\ Expired(k)
    /\ items' = [items EXCEPT ![k].armed = FALSE]
    /\ callbacks' = [callbacks EXCEPT ![k] = @ + 1]
    /\ UNCHANGED <<lru, tagged, bytes, now, sets>>

\* Mutations of TimerCallback: it removes what it finds, or only what is past
\* its time and not what has just reached it.
CallbackRemoves(k) ==
    /\ callbacks[k] > 0
    /\ callbacks' = [callbacks EXCEPT ![k] = @ - 1]
    /\ IF k \in Stored THEN RemoveLocked(k) ELSE UNCHANGED <<items, lru, tagged, bytes>>
    /\ UNCHANGED <<now, sets>>

CallbackComesEarly(k) ==
    /\ callbacks[k] > 0
    /\ callbacks' = [callbacks EXCEPT ![k] = @ - 1]
    /\ IF k \in Stored /\ Expired(k) /\ now # items[k].removeAt
       THEN RemoveLocked(k)
       ELSE UNCHANGED <<items, lru, tagged, bytes>>
    /\ UNCHANGED <<now, sets>>

\* The callback knows only its key and looks at whatever entry is there.
TimerCallback(k) ==
    /\ callbacks[k] > 0
    /\ callbacks' = [callbacks EXCEPT ![k] = @ - 1]
    /\ IF k \in Stored /\ Expired(k)
       THEN RemoveLocked(k)
       ELSE UNCHANGED <<items, lru, tagged, bytes>>
    /\ UNCHANGED <<now, sets>>

Tick ==
    /\ now < MaxTime
    /\ now' = now + 1
    /\ UNCHANGED <<items, lru, tagged, bytes, callbacks, sets>>

-------------------------------------------------------------------------------
Init ==
    /\ items = [k \in Keys |-> None]
    /\ lru = [s \in Shards |-> <<>>]
    /\ tagged = [t \in Tags |-> {}]
    /\ bytes = [s \in Shards |-> 0]
    /\ callbacks = [k \in Keys |-> 0]
    /\ now = 0
    /\ sets = 0

RemovalTimes == { now + life : life \in Lifetimes } \cup {Never}

Next ==
    \/ \E k \in Keys :
          \/ \E tags \in SUBSET Tags, size \in Sizes, removeAt \in RemovalTimes :
                Set(k, tags, size, removeAt)
          \/ Lookup(k)
          \/ Delete(k)
          \/ TimerExpires(k)
          \/ TimerCallback(k)
    \/ Tick

Spec == Init /\ [][Next]_vars

\* The runtime fires a timer that is due and its callback gets the lock.
\* Nothing makes a client look a key up or the clock reach a given time.
FairSpec == Spec /\ \A k \in Keys : WF_vars(TimerExpires(k)) /\ WF_vars(TimerCallback(k))

-------------------------------------------------------------------------------
TypeOK ==
    /\ items \in [Keys -> Entry \cup {None}]
    /\ lru \in [Shards -> Seq(Keys)]
    /\ tagged \in [Tags -> SUBSET Keys]
    /\ bytes \in [Shards -> Nat]
    /\ callbacks \in [Keys -> Nat]
    /\ now \in Nat
    /\ sets \in Nat

\* KeysForTag covers every key stored with a tag, and no other: an invalidation
\* reaches exactly the entries it is meant for, whatever was replaced, evicted
\* or expired before.
TagIndexExact == \A t \in Tags : tagged[t] = { k \in Stored : t \in items[k].tags }

\* The list of each shard holds each of its stored keys once and the counter is
\* the sum of their sizes: nothing is leaked and nothing is evicted twice.
AccountsExact ==
    \A s \in Shards :
        /\ ToSet(lru[s]) = Here(s)
        /\ Len(lru[s]) = Cardinality(Here(s))
        /\ bytes[s] = SizeOf(items, Here(s))

\* A shard is within its limits after every operation, also when an item is
\* replaced by a larger one.
LimitsKept == \A s \in Shards : ~OverLimit(Len(lru[s]), bytes[s])

\* A timer that could not be stopped in time does not remove the entry that
\* took the place of its own.
OnlyExpiredExpire ==
    [][\A k \in Stored : (callbacks'[k] < callbacks[k] /\ items'[k] = None) => Expired(k)]_vars

\* What may no longer be served leaves the memory although nobody asks for it.
ExpiredLeave == \A k \in Keys : k \in Stored /\ Expired(k) ~> ~(k \in Stored /\ Expired(k))
===============================================================================
