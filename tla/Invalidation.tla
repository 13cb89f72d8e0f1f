----------------------------- MODULE Invalidation -----------------------------
(***************************************************************************)
(* How the proxy keeps invalidated responses out of its cache: the tracker  *)
(* of recent invalidations (internal/proxy/invalidation_tracker.go), the    *)
(* fetches that read the upstream and then ask the tracker whether they may *)
(* store (handler.go, fetchAndStore) and the event handler that records an  *)
(* invalidation and purges the tagged keys one by one (HandleEvent), fed by *)
(* a broker that drops duplicates and superseded events                     *)
(* (events.go, InMemoryBroker.Publish).                                     *)
(*                                                                          *)
(* Every critical section of the tracker's and of the cache's locks is one  *)
(* step; everything else may interleave.  The cache is a map from keys to   *)
(* items that may refuse a Set or drop any key on its own (module           *)
(* Cache says when).                                                        *)
(***************************************************************************)
EXTENDS Events, FiniteSets

CONSTANTS Fetchers,    \* goroutines in fetchAndStore
          Runners,     \* goroutines in HandleEvent: one for the RabbitMQ
                       \* consumer, several for concurrent in-memory publishes
          Inbox,       \* the events that may be published
          Responses,   \* version and tags of an upstream response
          ShardCount,  \* number of cache shards
          ShardOf,     \* the shard a key lives in
          Retention,   \* invalidationRetention
          PruneSize,   \* invalidationPruneSize
          MaxTime,     \* bound on the clock
          None         \* no entry, no item, no fetch, no event

Entry == [seq : Nat, version : Nat, unconditionalSeq : Nat, at : Nat]
Item  == [version : Nat, tags : SUBSET Tags, token : Nat]
Token == [key : Keys, seq : Nat, started : Nat]
Purge == [target : Targets, version : Nat, at : Nat]

ASSUME InvalidationAssumption ==
    /\ Inbox \subseteq Event
    /\ Responses \subseteq [version : Nat, tags : SUBSET Tags]
    /\ ShardCount \in Nat \ {0}
    /\ ShardOf \in [Keys -> 1..ShardCount]
    /\ Retention \in Nat
    /\ PruneSize \in Nat
    /\ MaxTime \in Nat

ASSUME NoneAssumption ==
    None \notin Entry /\ None \notin Item /\ None \notin Token /\ None \notin Inbox

VARIABLES
    now,         \* the clock
    seq,         \* invalidationTracker.seq
    tracked,     \* invalidationTracker.tags
    cache,       \* what the cache holds for each key
    fetch,       \* the fetch token of each fetcher
    run,         \* where each runner is in HandleEvent
    processed,   \* ids of the events handled
    maxVersion,  \* newest version handled, by tag
    purges       \* history: purges[s] is the invalidation numbered s

tracker == <<seq, tracked, purges>>
broker  == <<processed, maxVersion>>
vars    == <<now, seq, tracked, cache, fetch, run, processed, maxVersion, purges>>

\* A runner holds its event with the tags and keys still to do, the number of
\* the invalidation it is applying, the shard it scans next, the keys it found
\* under the tag and, between a lookup and the deletion it led to, the key.
Idle == [pc |-> "idle", event |-> None, tags |-> <<>>, keys |-> <<>>,
         cur |-> 0, shard |-> 1, found |-> {}, key |-> None]

-------------------------------------------------------------------------------
(* The tracker. *)

\* Entries older than the retention are dropped once there are more than
\* PruneSize of them.
Pruned(entries) ==
    LET held == { t \in Targets : entries[t] # None }
    IN  IF Cardinality(held) > PruneSize
        THEN [t \in Targets |-> IF t \in held /\ now - entries[t].at > Retention
                                THEN None
                                ELSE entries[t]]
        ELSE entries

NewEntry(target, version) ==
    [seq              |-> seq + 1,
     version          |-> version,
     unconditionalSeq |-> IF version = 0 THEN seq + 1
                          ELSE IF tracked[target] = None THEN 0
                          ELSE tracked[target].unconditionalSeq,
     at               |-> now]

\* Recorded before the tagged keys are deleted.
Invalidate(target, version) ==
    /\ seq' = seq + 1
    /\ tracked' = Pruned([tracked EXCEPT ![target] = NewEntry(target, version)])
    /\ purges' = Append(purges, [target |-> target, version |-> version, at |-> now])

\* Mutation of Overrules: a purge without a version is forgotten.
OverrulesByVersion(entry, token, version) ==
    /\ entry # None
    /\ entry.seq > token.seq
    /\ version = 0 \/ version <= entry.version

\* What a response with this version, fetched under this token, loses against.
Overrules(entry, token, version) ==
    /\ entry # None
    /\ entry.seq > token.seq
    /\ \/ entry.unconditionalSeq > token.seq
       \/ version = 0
       \/ version <= entry.version

Invalidated(token, resp) ==
    \/ now - token.started > Retention
    \/ /\ seq # token.seq
       /\ \E t \in resp.tags \cup {token.key} : Overrules(tracked[t], token, resp.version)

-------------------------------------------------------------------------------
(* Fetches. *)

Begin(f, k) ==
    /\ fetch[f] = None
    /\ fetch' = [fetch EXCEPT ![f] = [key |-> k, seq |-> seq, started |-> now]]
    /\ UNCHANGED <<now, tracker, cache, run, broker>>

\* The upstream failed, streamed, or sent what the policy does not cache.
GiveUp(f) ==
    /\ fetch[f] # None
    /\ fetch' = [fetch EXCEPT ![f] = None]
    /\ UNCHANGED <<now, tracker, cache, run, broker>>

\* storeIfCurrent checks and stores under the tracker's read lock, so no
\* invalidation falls in between.  The cache may still refuse the item.
Store(f, resp) ==
    /\ fetch[f] # None
    /\ fetch' = [fetch EXCEPT ![f] = None]
    /\ \/ /\ ~Invalidated(fetch[f], resp)
          /\ cache' = [cache EXCEPT ![fetch[f].key] =
                         [version |-> resp.version, tags |-> resp.tags, token |-> fetch[f].seq]]
       \/ UNCHANGED cache
    /\ UNCHANGED <<now, tracker, run, broker>>

\* The cache drops a key: evicted, or past its lifetime.
Evict(k) ==
    /\ cache[k] # None
    /\ cache' = [cache EXCEPT ![k] = None]
    /\ UNCHANGED <<now, tracker, fetch, run, broker>>

-------------------------------------------------------------------------------
(* Events. *)

\* The broker looks the event up in its records, releases its lock and only
\* then calls the handler.
Deliver(r, e) ==
    /\ run[r].pc = "idle"
    /\ e.id \notin processed
    /\ ~Superseded(maxVersion, e)
    /\ run' = [run EXCEPT ![r] = [Idle EXCEPT !.pc = "next", !.event = e,
                                              !.tags = e.tags, !.keys = e.keys]]
    /\ UNCHANGED <<now, tracker, cache, fetch, broker>>

InvalidateTag(r) ==
    /\ run[r].pc = "next"
    /\ run[r].tags # <<>>
    /\ Invalidate(Head(run[r].tags), run[r].event.version)
    /\ run' = [run EXCEPT ![r].pc = "scan", ![r].cur = seq + 1,
                          ![r].shard = 1, ![r].found = {}]
    /\ UNCHANGED <<now, cache, fetch, broker>>

TaggedIn(s, t) ==
    { k \in Keys : ShardOf[k] = s /\ cache[k] # None /\ t \in cache[k].tags }

\* Mutation of ScanShard: one shard too many.
ScanShardBeyondLast(r) ==
    /\ run[r].pc = "scan"
    /\ LET s == run[r].shard
       IN  run' = [run EXCEPT ![r].pc = IF s > ShardCount THEN "purge" ELSE "scan",
                              ![r].shard = s + 1,
                              ![r].found = @ \cup TaggedIn(s, Head(run[r].tags))]
    /\ UNCHANGED <<now, tracker, cache, fetch, broker>>

\* KeysForTag reads the tag index shard by shard, each under its own lock.
ScanShard(r) ==
    /\ run[r].pc = "scan"
    /\ LET s == run[r].shard
       IN  run' = [run EXCEPT ![r].pc = IF s = ShardCount THEN "purge" ELSE "scan",
                              ![r].shard = s + 1,
                              ![r].found = @ \cup TaggedIn(s, Head(run[r].tags))]
    /\ UNCHANGED <<now, tracker, cache, fetch, broker>>

\* The lookup that decides whether the event outdates what the key holds now.
LookupKey(r, k) ==
    /\ run[r].pc = "purge"
    /\ k \in run[r].found
    /\ IF \/ cache[k] = None
          \/ run[r].event.version = 0
          \/ cache[k].version = 0
          \/ cache[k].version <= run[r].event.version
       THEN run' = [run EXCEPT ![r].pc = "delete", ![r].key = k]
       ELSE run' = [run EXCEPT ![r].found = @ \ {k}]
    /\ UNCHANGED <<now, tracker, cache, fetch, broker>>

\* The deletion, under a second acquisition of the shard's lock.
DeleteKey(r) ==
    /\ run[r].pc = "delete"
    /\ cache' = [cache EXCEPT ![run[r].key] = None]
    /\ run' = [run EXCEPT ![r].pc = "purge", ![r].found = @ \ {run[r].key}, ![r].key = None]
    /\ UNCHANGED <<now, tracker, fetch, broker>>

TagDone(r) ==
    /\ run[r].pc = "purge"
    /\ run[r].found = {}
    /\ run' = [run EXCEPT ![r].pc = "next", ![r].tags = Tail(@), ![r].cur = 0, ![r].shard = 1]
    /\ UNCHANGED <<now, tracker, cache, fetch, broker>>

\* invalidateKey: recorded without a version, then deleted whatever it holds.
InvalidateKey(r) ==
    /\ run[r].pc = "next"
    /\ run[r].tags = <<>>
    /\ run[r].keys # <<>>
    /\ Invalidate(Head(run[r].keys), 0)
    /\ run' = [run EXCEPT ![r].pc = "deleteTarget", ![r].cur = seq + 1]
    /\ UNCHANGED <<now, cache, fetch, broker>>

DeleteTarget(r) ==
    /\ run[r].pc = "deleteTarget"
    /\ cache' = [cache EXCEPT ![Head(run[r].keys)] = None]
    /\ run' = [run EXCEPT ![r].pc = "next", ![r].keys = Tail(@), ![r].cur = 0]
    /\ UNCHANGED <<now, tracker, fetch, broker>>

\* Back in the broker: remember the event and its version.
Commit(r) ==
    /\ run[r].pc = "next"
    /\ run[r].tags = <<>>
    /\ run[r].keys = <<>>
    /\ processed' = processed \cup {run[r].event.id}
    /\ maxVersion' = CommitVersion(maxVersion, run[r].event)
    /\ run' = [run EXCEPT ![r] = Idle]
    /\ UNCHANGED <<now, tracker, cache, fetch>>

Tick ==
    /\ now < MaxTime
    /\ now' = now + 1
    /\ UNCHANGED <<tracker, cache, fetch, run, broker>>

-------------------------------------------------------------------------------
Init ==
    /\ now = 0
    /\ seq = 0
    /\ tracked = [t \in Targets |-> None]
    /\ cache = [k \in Keys |-> None]
    /\ fetch = [f \in Fetchers |-> None]
    /\ run = [r \in Runners |-> Idle]
    /\ processed = {}
    /\ maxVersion = NoVersions
    /\ purges = <<>>

RunnerStep(r) ==
    \/ InvalidateTag(r)
    \/ ScanShard(r)
    \/ \E k \in Keys : LookupKey(r, k)
    \/ DeleteKey(r)
    \/ TagDone(r)
    \/ InvalidateKey(r)
    \/ DeleteTarget(r)
    \/ Commit(r)

Next ==
    \/ \E f \in Fetchers : \/ \E k \in Keys : Begin(f, k)
                           \/ GiveUp(f)
                           \/ \E resp \in Responses : Store(f, resp)
    \/ \E k \in Keys : Evict(k)
    \/ \E r \in Runners : \/ \E e \in Inbox : Deliver(r, e)
                          \/ RunnerStep(r)
    \/ Tick

Spec == Init /\ [][Next]_vars

-------------------------------------------------------------------------------
(* What the tracker and the purge promise. *)

PurgePC == {"scan", "purge", "delete", "deleteTarget"}

RunState == [pc : {"idle", "next"} \cup PurgePC, event : Inbox \cup {None},
             tags : Seq(Tags), keys : Seq(Keys), cur : Nat,
             shard : 1..(ShardCount + 1), found : SUBSET Keys, key : Keys \cup {None}]

TypeOK ==
    /\ now \in Nat
    /\ seq \in Nat
    /\ tracked \in [Targets -> Entry \cup {None}]
    /\ cache \in [Keys -> Item \cup {None}]
    /\ fetch \in [Fetchers -> Token \cup {None}]
    /\ run \in [Runners -> RunState]
    /\ processed \subseteq EventIds
    /\ maxVersion \in [Tags -> Nat]
    /\ purges \in Seq(Purge)

\* Invalidation p is still purging the keys of its target.
InProgress(p) == \E r \in Runners : run[r].pc \in PurgePC /\ run[r].cur = p

\* The item under key k was fetched before invalidation p, which covers it and
\* is not older than it.
Outdated(p, k) ==
    /\ cache[k] # None
    /\ purges[p].target \in cache[k].tags \cup {k}
    /\ cache[k].token < p
    /\ \/ purges[p].version = 0
       \/ cache[k].version = 0
       \/ cache[k].version <= purges[p].version

\* A later invalidation of the target carried an older version: the tracker
\* keeps the last version it was given, not the greatest.
Undercut(p) ==
    \E q \in (p + 1)..Len(purges) :
        /\ purges[q].target = purges[p].target
        /\ 0 < purges[q].version
        /\ purges[q].version < purges[p].version

\* Once an invalidation has been applied, the cache holds nothing fetched
\* before it that it outdates: not what the purge passed by, not what a fetch
\* in flight stored later, not after the tracker forgot the entry.  The one
\* exception is a versioned item under a versioned invalidation that a later
\* event with an older version undercut.
PurgeHonoured ==
    \A p \in DOMAIN purges, k \in Keys :
        Outdated(p, k) /\ ~InProgress(p) => Undercut(p) /\ cache[k].version > 0

\* The same without the exception.
EveryPurgeHonoured ==
    \A p \in DOMAIN purges, k \in Keys : Outdated(p, k) => InProgress(p)
===============================================================================
