-------------------------- MODULE InvalidationProofs --------------------------
(***************************************************************************)
(* Proofs about module Invalidation, for every set of tags, keys, events,   *)
(* fetchers and runners and every retention, prune size and shard layout.   *)
(***************************************************************************)
EXTENDS Invalidation, TLAPS

-------------------------------------------------------------------------------
(* The inductive invariant. *)

\* Invalidations are numbered in the order they were recorded, as is their time.
HistoryInv ==
    /\ Len(purges) = seq
    /\ \A p \in 1..seq : purges[p].at <= now
    /\ \A p, q \in 1..seq : p <= q => purges[p].at <= purges[q].at

\* An entry describes the last invalidation of its target and remembers the
\* last unconditional one; what the tracker forgot is older than the retention.
TrackerInv ==
    \A t \in Targets, p \in 1..seq : purges[p].target = t =>
        /\ tracked[t] = None => now - purges[p].at > Retention
        /\ tracked[t] # None =>
             /\ p <= tracked[t].seq
             /\ purges[p].version = 0 => \/ p <= tracked[t].unconditionalSeq
                                         \/ now - purges[p].at > Retention

EntryInv ==
    \A t \in Targets : tracked[t] # None =>
        /\ tracked[t].seq \in 1..seq
        /\ purges[tracked[t].seq] =
             [target |-> t, version |-> tracked[t].version, at |-> tracked[t].at]
        /\ tracked[t].version = 0 => tracked[t].unconditionalSeq = tracked[t].seq

\* A fetch began before every invalidation numbered after its token.
FetchInv ==
    \A f \in Fetchers : fetch[f] # None =>
        /\ fetch[f].seq <= seq
        /\ fetch[f].started <= now
        /\ \A p \in 1..seq : fetch[f].seq < p => fetch[f].started <= purges[p].at

\* A runner in the middle of a purge works on the invalidation it recorded.
RunOK(state, length, history) ==
    /\ state.pc # "idle" => state.event \in Inbox
    /\ state.pc \in {"scan", "purge", "delete"} =>
         /\ state.tags # <<>>
         /\ state.cur \in 1..length
         /\ history[state.cur].target = Head(state.tags)
         /\ history[state.cur].version = state.event.version
    /\ state.pc = "scan" => state.shard <= ShardCount
    /\ state.pc = "delete" => state.key \in state.found
    /\ state.pc = "deleteTarget" => state.keys # <<>>
RunInv == \A r \in Runners : RunOK(run[r], seq, purges)

\* A runner in this state will still look at key k on behalf of invalidation p.
Covers(state, p, k) ==
    /\ state.cur = p
    /\ \/ state.pc = "scan" /\ state.shard <= ShardOf[k]
       \/ state.pc \in {"scan", "purge", "delete"} /\ k \in state.found
       \/ state.pc = "deleteTarget" /\ k = Head(state.keys)

\* The exception of PurgeHonoured.
Exempt(p, k) == Undercut(p) /\ cache[k].version > 0

\* What an invalidation outdates and no older one undercut will be looked at.
PurgeInv ==
    \A p \in 1..seq, k \in Keys :
        Outdated(p, k) /\ ~Exempt(p, k) => \E r \in Runners : Covers(run[r], p, k)

ControlInv == TypeOK /\ RunInv /\ Len(purges) = seq

TrackInv == HistoryInv /\ TrackerInv /\ EntryInv /\ FetchInv

IInv == ControlInv /\ TrackInv /\ PurgeInv

-------------------------------------------------------------------------------
(* Types and control. *)

USE TagsAndKeysDiffer, InvalidationAssumption, NoneAssumption DEF Targets

LEMMA InitControl == Init => ControlInv
BY DEF Init, ControlInv, TypeOK, RunInv, RunOK, Idle, NoVersions, Entry, Item, Token, Purge, Event, PurgePC, RunState

LEMMA AppendLast ==
    ASSUME NEW S, NEW s \in Seq(S), NEW x \in S
    PROVE  /\ Append(s, x) \in Seq(S)
           /\ Len(Append(s, x)) = Len(s) + 1
           /\ \A i \in 1..Len(s) : Append(s, x)[i] = s[i]
           /\ Append(s, x)[Len(s) + 1] = x
OBVIOUS

\* Recording an invalidation keeps the tracker and the history well-typed.
LEMMA InvalidateType ==
    ASSUME TypeOK, Len(purges) = seq, NEW target \in Targets, NEW version \in Nat,
           Invalidate(target, version)
    PROVE  /\ seq' \in Nat
           /\ seq' = seq + 1
           /\ tracked' \in [Targets -> Entry \cup {None}]
           /\ purges' \in Seq(Purge)
           /\ Len(purges') = seq'
           /\ \A p \in 1..seq : purges'[p] = purges[p]
           /\ purges'[seq + 1] = [target |-> target, version |-> version, at |-> now]
<1> DEFINE entry == NewEntry(target, version)
           updated == [tracked EXCEPT ![target] = entry]
           p == [target |-> target, version |-> version, at |-> now]
<1>1. entry \in Entry
  BY DEF Entry, NewEntry, TypeOK
<1>2. updated \in [Targets -> Entry \cup {None}]
  BY <1>1 DEF TypeOK
<1>3. Pruned(updated) \in [Targets -> Entry \cup {None}]
  <2> HIDE DEF updated
  <2> QED BY <1>2 DEF Pruned
<1>4. p \in Purge
  BY DEF TypeOK, Purge
<1>5. purges' = Append(purges, p) /\ seq' = seq + 1 /\ tracked' = Pruned(updated)
  BY DEF Invalidate
<1>a. purges \in Seq(Purge) /\ seq \in Nat
  BY DEF TypeOK
<1> HIDE DEF p
<1>6. /\ purges' \in Seq(Purge)
      /\ Len(purges') = seq'
      /\ \A q \in 1..seq : purges'[q] = purges[q]
      /\ purges'[seq + 1] = p
  BY <1>4, <1>5, <1>a, AppendLast
<1>7. seq' \in Nat
  BY <1>5, <1>a
<1>8. tracked' \in [Targets -> Entry \cup {None}]
  BY <1>3, <1>5
<1> HIDE DEF updated, entry
<1> QED BY <1>5, <1>6, <1>7, <1>8 DEF p

\* A step that replaces one runner's state and may append to the history.
LEMMA RunFrame ==
    ASSUME ControlInv, NEW r \in Runners, NEW state \in RunState,
           run' = [run EXCEPT ![r] = state],
           seq' \in Nat, seq <= seq',
           \A p \in 1..seq : purges'[p] = purges[p],
           RunOK(state, seq', purges')
    PROVE  run' \in [Runners -> RunState] /\ RunInv'
<1>1. run \in [Runners -> RunState] /\ RunInv /\ seq \in Nat
  BY DEF ControlInv, TypeOK, RunState
<1>2. run' \in [Runners -> RunState] /\ run'[r] = state
  BY <1>1
<1>3. ASSUME NEW q \in Runners PROVE RunOK(run'[q], seq', purges')
  <2>1. CASE q = r
    BY <1>1, <1>2, <2>1 DEF RunOK
  <2>2. CASE q # r
    <3>1. run'[q] = run[q] /\ RunOK(run[q], seq, purges)
      BY <1>1, <2>2 DEF RunInv
    <3>2. 1..seq \subseteq 1..seq'
      BY <1>1
    <3> QED BY <3>1, <3>2 DEF RunOK
  <2> QED BY <2>1, <2>2
<1> QED BY <1>2, <1>3 DEF RunInv

LEMMA ControlStep == ControlInv /\ [Next]_vars => ControlInv'
<1> SUFFICES ASSUME ControlInv, [Next]_vars PROVE ControlInv'
  OBVIOUS
<1>0. seq \in Nat /\ seq <= seq /\ seq <= seq + 1 /\ 1 \in 1..(ShardCount + 1)
  BY DEF ControlInv, TypeOK
<1>1. ASSUME NEW f \in Fetchers, NEW k \in Keys, Begin(f, k) PROVE ControlInv'
  BY <1>1 DEF ControlInv, Begin, tracker, broker, TypeOK, Token, RunInv, RunOK
<1>2. ASSUME NEW f \in Fetchers, GiveUp(f) PROVE ControlInv'
  BY <1>2 DEF ControlInv, GiveUp, tracker, broker, TypeOK, RunInv, RunOK
<1>3. ASSUME NEW f \in Fetchers, NEW resp \in Responses, Store(f, resp) PROVE ControlInv'
  <2>1. fetch[f] \in Token
    BY <1>3 DEF ControlInv, Store, TypeOK
  <2>2. [version |-> resp.version, tags |-> resp.tags, token |-> fetch[f].seq] \in Item
    BY <2>1 DEF Item, Token
  <2> QED BY <1>3, <2>1, <2>2 DEF ControlInv, Store, tracker, broker, TypeOK, Token, RunInv, RunOK
<1>4. ASSUME NEW k \in Keys, Evict(k) PROVE ControlInv'
  BY <1>4 DEF ControlInv, Evict, tracker, broker, TypeOK, RunInv, RunOK
<1>5. ASSUME NEW r \in Runners, NEW e \in Inbox, Deliver(r, e) PROVE ControlInv'
  <2> DEFINE state == [Idle EXCEPT !.pc = "next", !.event = e, !.tags = e.tags, !.keys = e.keys]
  <2>1. state \in RunState
    <3>1. e.tags \in Seq(Tags) /\ e.keys \in Seq(Keys)
      BY DEF Event
    <3>2. Idle \in RunState
      BY <1>0 DEF Idle, RunState
    <3> QED BY <3>1, <3>2 DEF RunState, PurgePC
  <2>2. RunOK(state, seq', purges')
    BY DEF Idle, RunOK
  <2>3. run' = [run EXCEPT ![r] = state]
    BY <1>5 DEF Deliver
  <2>4. UNCHANGED <<now, seq, tracked, purges, cache, fetch, processed, maxVersion>>
    BY <1>5 DEF Deliver, tracker, broker
  <2>90. run' \in [Runners -> RunState] /\ RunInv'
    <3> HIDE DEF state
    <3> QED BY <2>1, <2>2, <2>3, <2>4, <1>0, RunFrame
  <2> QED BY <2>1, <2>2, <2>3, <2>4, <2>90 DEF ControlInv, TypeOK
<1>6. ASSUME NEW r \in Runners, InvalidateTag(r) PROVE ControlInv'
  <2> DEFINE state == [run[r] EXCEPT !.pc = "scan", !.cur = seq + 1, !.shard = 1, !.found = {}]
             tag == Head(run[r].tags)
  <2>1. run[r] \in RunState /\ tag \in Tags /\ run[r].event \in Inbox /\ seq \in Nat /\ seq + 1 \in Nat
    <3>1. run[r] \in RunState /\ seq \in Nat
      BY DEF ControlInv, TypeOK
    <3>2. run[r].tags \in Seq(Tags) /\ run[r].tags # <<>>
      BY <1>6, <3>1 DEF InvalidateTag, RunState
    <3>3. run[r].event \in Inbox
      BY <1>6 DEF ControlInv, InvalidateTag, RunInv, RunOK
    <3> QED BY <3>1, <3>2, <3>3
  <2>2. run[r].event.version \in Nat
    BY <2>1 DEF Event
  <2>3. Invalidate(tag, run[r].event.version)
    BY <1>6 DEF InvalidateTag
  <2>4. state \in RunState
    BY <1>0, <2>1 DEF RunState, PurgePC
  <2>5. run' = [run EXCEPT ![r] = state]
    BY <1>6 DEF InvalidateTag
  <2>6. UNCHANGED <<now, cache, fetch, processed, maxVersion>>
    BY <1>6 DEF InvalidateTag, broker
  <2>7. /\ seq' = seq + 1
        /\ tracked' \in [Targets -> Entry \cup {None}]
        /\ purges' \in Seq(Purge)
        /\ Len(purges') = seq'
        /\ \A p \in 1..seq : purges'[p] = purges[p]
        /\ purges'[seq + 1] = [target |-> tag, version |-> run[r].event.version, at |-> now]
    BY <2>1, <2>2, <2>3, InvalidateType DEF ControlInv
  <2>8. RunOK(state, seq', purges')
    <3>1. /\ state.pc = "scan" /\ state.event = run[r].event /\ state.tags = run[r].tags
          /\ state.cur = seq + 1 /\ state.shard = 1
      BY <2>1 DEF RunState
    <3>2. run[r].tags # <<>>
      BY <1>6 DEF InvalidateTag
    <3>3. seq + 1 \in 1..seq'
      BY <1>0, <2>7
    <3> HIDE DEF state
    <3> QED BY <2>1, <2>7, <3>1, <3>2, <3>3 DEF RunOK
  <2>90. run' \in [Runners -> RunState] /\ RunInv'
    <3> HIDE DEF state
    <3> QED BY <2>1, <2>4, <2>5, <2>6, <2>7, <2>8, <1>0, RunFrame
  <2> QED BY <2>1, <2>4, <2>5, <2>6, <2>7, <2>8, <2>90 DEF ControlInv, TypeOK
<1>7. ASSUME NEW r \in Runners, ScanShard(r) PROVE ControlInv'
  <2> DEFINE s == run[r].shard
             state == [run[r] EXCEPT !.pc = IF s = ShardCount THEN "purge" ELSE "scan",
                                     !.shard = s + 1,
                                     !.found = @ \cup TaggedIn(s, Head(run[r].tags))]
  <2>1. run[r] \in RunState /\ RunOK(run[r], seq, purges) /\ s \in 1..ShardCount /\ s + 1 \in 1..(ShardCount + 1)
    <3>1. run[r] \in RunState /\ RunOK(run[r], seq, purges)
      BY DEF ControlInv, TypeOK, RunInv
    <3>2. s \in 1..(ShardCount + 1)
      BY <3>1 DEF RunState
    <3>3. s <= ShardCount
      BY <1>7, <3>1 DEF ScanShard, RunOK
    <3> HIDE DEF s
    <3>4. s \in 1..ShardCount /\ s + 1 \in 1..(ShardCount + 1)
      BY <3>2, <3>3
    <3> QED BY <3>1, <3>4
  <2>2. state \in RunState
    BY <2>1 DEF RunState, PurgePC, TaggedIn
  <2>3. run' = [run EXCEPT ![r] = state]
    BY <1>7 DEF ScanShard
  <2>4. UNCHANGED <<now, seq, tracked, purges, cache, fetch, processed, maxVersion>>
    BY <1>7 DEF ScanShard, tracker, broker
  <2>5. RunOK(state, seq', purges')
    BY <1>7, <2>1, <2>4 DEF RunOK, ScanShard, RunState
  <2>90. run' \in [Runners -> RunState] /\ RunInv'
    <3> HIDE DEF state
    <3> QED BY <2>2, <2>3, <2>4, <2>5, <1>0, RunFrame
  <2> QED BY <2>2, <2>3, <2>4, <2>5, <2>90 DEF ControlInv, TypeOK
<1>8. ASSUME NEW r \in Runners, NEW k \in Keys, LookupKey(r, k) PROVE ControlInv'
  <2>1. run[r] \in RunState /\ RunOK(run[r], seq, purges)
    BY <1>8 DEF ControlInv, TypeOK, RunInv
  <2>2. PICK state \in RunState :
          /\ run' = [run EXCEPT ![r] = state]
          /\ \/ state = [run[r] EXCEPT !.pc = "delete", !.key = k]
             \/ state = [run[r] EXCEPT !.found = @ \ {k}]
    <3>1. [run[r] EXCEPT !.pc = "delete", !.key = k] \in RunState
      BY <2>1 DEF RunState, PurgePC
    <3>2. [run[r] EXCEPT !.found = @ \ {k}] \in RunState
      BY <2>1 DEF RunState
    <3>3. \/ run' = [run EXCEPT ![r] = [run[r] EXCEPT !.pc = "delete", !.key = k]]
          \/ run' = [run EXCEPT ![r] = [run[r] EXCEPT !.found = @ \ {k}]]
      BY <1>8 DEF LookupKey
    <3> QED BY <3>1, <3>2, <3>3
  <2>3. UNCHANGED <<now, seq, tracked, purges, cache, fetch, processed, maxVersion>>
    BY <1>8 DEF LookupKey, tracker, broker
  <2>4. RunOK(state, seq', purges')
    <3>1. run[r].pc = "purge" /\ k \in run[r].found
      BY <1>8 DEF LookupKey
    <3>2. /\ state.event = run[r].event /\ state.tags = run[r].tags /\ state.cur = run[r].cur
          /\ \/ state.pc = "delete" /\ state.key = k /\ state.found = run[r].found
             \/ state.pc = "purge"
      BY <2>1, <2>2, <3>1 DEF RunState
    <3>3. /\ run[r].event \in Inbox /\ run[r].tags # <<>> /\ run[r].cur \in 1..seq
          /\ purges[run[r].cur].target = Head(run[r].tags)
          /\ purges[run[r].cur].version = run[r].event.version
      BY <2>1, <3>1 DEF RunOK
    <3> QED BY <2>3, <3>1, <3>2, <3>3 DEF RunOK
  <2>90. run' \in [Runners -> RunState] /\ RunInv'
    BY <2>2, <2>3, <2>4, <1>0, RunFrame
  <2> QED BY <2>2, <2>3, <2>4, <2>90 DEF ControlInv, TypeOK
<1>9. ASSUME NEW r \in Runners, DeleteKey(r) PROVE ControlInv'
  <2> DEFINE state == [run[r] EXCEPT !.pc = "purge", !.found = @ \ {run[r].key}, !.key = None]
  <2>1. run[r] \in RunState /\ RunOK(run[r], seq, purges)
    BY <1>9 DEF ControlInv, TypeOK, RunInv
  <2>2. state \in RunState
    BY <2>1 DEF RunState, PurgePC
  <2>3. run' = [run EXCEPT ![r] = state] /\ cache' \in [Keys -> Item \cup {None}]
    BY <1>9 DEF ControlInv, DeleteKey, TypeOK
  <2>4. UNCHANGED <<now, seq, tracked, purges, fetch, processed, maxVersion>>
    BY <1>9 DEF DeleteKey, tracker, broker
  <2>5. RunOK(state, seq', purges')
    BY <1>9, <2>1, <2>4 DEF RunOK, DeleteKey, RunState
  <2>90. run' \in [Runners -> RunState] /\ RunInv'
    <3> HIDE DEF state
    <3> QED BY <2>2, <2>3, <2>4, <2>5, <1>0, RunFrame
  <2> QED BY <2>2, <2>3, <2>4, <2>5, <2>90 DEF ControlInv, TypeOK
<1>10. ASSUME NEW r \in Runners, TagDone(r) PROVE ControlInv'
  <2> DEFINE state == [run[r] EXCEPT !.pc = "next", !.tags = Tail(@), !.cur = 0, !.shard = 1]
  <2>1. run[r] \in RunState /\ RunOK(run[r], seq, purges) /\ run[r].tags # <<>> /\ Tail(run[r].tags) \in Seq(Tags)
    BY <1>10 DEF ControlInv, TagDone, TypeOK, RunInv, RunOK, RunState
  <2>2. state \in RunState
    BY <1>0, <2>1 DEF RunState
  <2>3. run' = [run EXCEPT ![r] = state]
    BY <1>10 DEF TagDone
  <2>4. UNCHANGED <<now, seq, tracked, purges, cache, fetch, processed, maxVersion>>
    BY <1>10 DEF TagDone, tracker, broker
  <2>5. RunOK(state, seq', purges')
    BY <1>10, <2>1, <2>4 DEF RunOK, TagDone, RunState
  <2>90. run' \in [Runners -> RunState] /\ RunInv'
    <3> HIDE DEF state
    <3> QED BY <2>2, <2>3, <2>4, <2>5, <1>0, RunFrame
  <2> QED BY <2>2, <2>3, <2>4, <2>5, <2>90 DEF ControlInv, TypeOK
<1>11. ASSUME NEW r \in Runners, InvalidateKey(r) PROVE ControlInv'
  <2> DEFINE state == [run[r] EXCEPT !.pc = "deleteTarget", !.cur = seq + 1]
             key == Head(run[r].keys)
  <2>1. run[r] \in RunState /\ RunOK(run[r], seq, purges) /\ key \in Keys /\ seq \in Nat /\ seq + 1 \in Nat /\ run[r].keys # <<>>
    <3>1. run[r] \in RunState /\ RunOK(run[r], seq, purges) /\ run[r].keys # <<>>
      BY <1>11 DEF ControlInv, InvalidateKey, TypeOK, RunInv
    <3> QED BY <1>0, <3>1 DEF RunState
  <2>2. Invalidate(key, 0)
    BY <1>11 DEF InvalidateKey
  <2>3. state \in RunState
    BY <2>1 DEF RunState, PurgePC
  <2>4. run' = [run EXCEPT ![r] = state]
    BY <1>11 DEF InvalidateKey
  <2>5. UNCHANGED <<now, cache, fetch, processed, maxVersion>>
    BY <1>11 DEF InvalidateKey, broker
  <2>6. /\ seq' = seq + 1
        /\ tracked' \in [Targets -> Entry \cup {None}]
        /\ purges' \in Seq(Purge)
        /\ Len(purges') = seq'
        /\ \A p \in 1..seq : purges'[p] = purges[p]
    BY <2>1, <2>2, InvalidateType DEF ControlInv
  <2>7. RunOK(state, seq', purges')
    BY <1>11, <2>1 DEF RunOK, InvalidateKey, RunState
  <2>90. run' \in [Runners -> RunState] /\ RunInv'
    <3> HIDE DEF state
    <3> QED BY <2>1, <2>3, <2>4, <2>5, <2>6, <2>7, <1>0, RunFrame
  <2> QED BY <2>1, <2>3, <2>4, <2>5, <2>6, <2>7, <2>90 DEF ControlInv, TypeOK
<1>12. ASSUME NEW r \in Runners, DeleteTarget(r) PROVE ControlInv'
  <2> DEFINE state == [run[r] EXCEPT !.pc = "next", !.keys = Tail(@), !.cur = 0]
  <2>1. run[r] \in RunState /\ RunOK(run[r], seq, purges) /\ run[r].keys # <<>> /\ Tail(run[r].keys) \in Seq(Keys)
    <3>1. run[r] \in RunState /\ RunOK(run[r], seq, purges)
      BY DEF ControlInv, TypeOK, RunInv
    <3>2. run[r].keys # <<>>
      BY <1>12, <3>1 DEF DeleteTarget, RunOK
    <3>3. run[r].keys \in Seq(Keys)
      BY <3>1 DEF RunState
    <3> QED BY <3>1, <3>2, <3>3
  <2>2. state \in RunState
    BY <1>0, <2>1 DEF RunState
  <2>3. run' = [run EXCEPT ![r] = state] /\ cache' \in [Keys -> Item \cup {None}]
    BY <1>12 DEF ControlInv, DeleteTarget, TypeOK
  <2>4. UNCHANGED <<now, seq, tracked, purges, fetch, processed, maxVersion>>
    BY <1>12 DEF DeleteTarget, tracker, broker
  <2>5. RunOK(state, seq', purges')
    BY <1>12, <2>1, <2>4 DEF RunOK, DeleteTarget, RunState
  <2>90. run' \in [Runners -> RunState] /\ RunInv'
    <3> HIDE DEF state
    <3> QED BY <2>2, <2>3, <2>4, <2>5, <1>0, RunFrame
  <2> QED BY <2>2, <2>3, <2>4, <2>5, <2>90 DEF ControlInv, TypeOK
<1>13. ASSUME NEW r \in Runners, Commit(r) PROVE ControlInv'
  <2>1. run[r].event \in Event
    BY <1>13 DEF ControlInv, Commit, RunInv, RunOK
  <2>2. processed' \subseteq EventIds /\ maxVersion' \in [Tags -> Nat]
    BY <1>13, <2>1 DEF ControlInv, Commit, TypeOK, Event, CommitVersion
  <2>3. Idle \in RunState
    BY DEF Idle, RunState
  <2>4. run' = [run EXCEPT ![r] = Idle]
    BY <1>13 DEF Commit
  <2>5. UNCHANGED <<now, seq, tracked, purges, cache, fetch>>
    BY <1>13 DEF Commit, tracker
  <2>6. RunOK(Idle, seq', purges')
    BY DEF RunOK, Idle
  <2>90. run' \in [Runners -> RunState] /\ RunInv'
    BY <2>2, <2>3, <2>4, <2>5, <2>6, <1>0, RunFrame
  <2> QED BY <2>2, <2>3, <2>4, <2>5, <2>6, <2>90 DEF ControlInv, TypeOK
<1>14. ASSUME Tick PROVE ControlInv'
  BY <1>14 DEF ControlInv, Tick, tracker, broker, TypeOK, RunInv, RunOK
<1>15. ASSUME UNCHANGED vars PROVE ControlInv'
  BY <1>15 DEF ControlInv, vars, TypeOK, RunInv, RunOK
<1> QED
  BY <1>1, <1>2, <1>3, <1>4, <1>5, <1>6, <1>7, <1>8, <1>9, <1>10, <1>11, <1>12, <1>13, <1>14, <1>15
     DEF Next, RunnerStep

\* The variables keep their types: no runner scans past the last shard, deletes
\* without a key or works on an invalidation that was not recorded.
THEOREM TypeCorrect == Spec => []TypeOK
<1>1. ControlInv => TypeOK
  BY DEF ControlInv
<1> QED BY InitControl, ControlStep, <1>1, PTL DEF Spec

-------------------------------------------------------------------------------
(* The tracker remembers what a fetch in flight may still need to know. *)

\* Recording an invalidation, with the pruning that may follow it.
LEMMA InvalidateTracks ==
    ASSUME ControlInv, TrackInv, NEW target \in Targets, NEW version \in Nat,
           Invalidate(target, version), UNCHANGED <<now, fetch>>
    PROVE  TrackInv'
<1> DEFINE updated == [tracked EXCEPT ![target] = NewEntry(target, version)]
<1>1. /\ seq \in Nat /\ now \in Nat /\ Len(purges) = seq
      /\ tracked \in [Targets -> Entry \cup {None}]
      /\ purges \in Seq(Purge) /\ TypeOK
  BY DEF ControlInv, TypeOK
<1>2. /\ seq' = seq + 1
      /\ tracked' \in [Targets -> Entry \cup {None}]
      /\ purges' \in Seq(Purge)
      /\ Len(purges') = seq'
      /\ \A p \in 1..seq : purges'[p] = purges[p]
      /\ purges'[seq + 1] = [target |-> target, version |-> version, at |-> now]
  BY <1>1, InvalidateType
<1>3. 1..seq' = (1..seq) \cup {seq + 1}
  BY <1>1, <1>2
<1>4. NewEntry(target, version) \in Entry
  BY <1>1 DEF NewEntry, Entry
<1>5. \A t \in Targets :
        \/ tracked'[t] = updated[t]
        \/ tracked'[t] = None /\ updated[t] # None /\ now - updated[t].at > Retention
  <2>1. tracked' = Pruned(updated)
    BY DEF Invalidate
  <2>2. updated \in [Targets -> Entry \cup {None}]
    BY <1>1, <1>4
  <2> HIDE DEF updated
  <2> QED BY <2>1, <2>2 DEF Pruned
<1>6. updated[target] = NewEntry(target, version)
      /\ \A t \in Targets : t # target => updated[t] = tracked[t]
  BY <1>1
<1>7. \A p \in 1..seq : purges[p] \in Purge
  BY <1>1
<1> HIDE DEF updated
<1>8. HistoryInv'
  <2>1. \A p \in 1..seq' : purges'[p].at \in Nat /\ purges'[p].at <= now
    <3>1. purges'[seq + 1].at = now
      BY <1>2
    <3>2. \A p \in 1..seq : purges'[p].at = purges[p].at /\ purges[p].at \in Nat
      BY <1>2, <1>7 DEF Purge
    <3> QED BY <1>1, <1>3, <3>1, <3>2 DEF TrackInv, HistoryInv
  <2>2. ASSUME NEW p \in 1..seq', NEW q \in 1..seq', p <= q
        PROVE  purges'[p].at <= purges'[q].at
    <3>1. CASE q = seq + 1
      BY <1>2, <2>1, <3>1
    <3>2. CASE q \in 1..seq
      <4>1. p \in 1..seq
        BY <1>1, <1>3, <2>2, <3>2
      <4> QED BY <1>2, <2>2, <3>2, <4>1 DEF TrackInv, HistoryInv
    <3> QED BY <1>3, <3>1, <3>2
  <2> QED BY <1>2, <2>1, <2>2 DEF HistoryInv
<1>9. FetchInv'
  <2> SUFFICES ASSUME NEW f \in Fetchers, fetch[f] # None
               PROVE  /\ fetch[f].seq <= seq'
                      /\ fetch[f].started <= now
                      /\ \A p \in 1..seq' : fetch[f].seq < p => fetch[f].started <= purges'[p].at
    BY DEF FetchInv
  <2>1. fetch[f].seq \in Nat /\ fetch[f].started \in Nat
    BY <1>1 DEF TypeOK, Token
  <2>2. /\ fetch[f].seq <= seq
        /\ fetch[f].started <= now
        /\ \A p \in 1..seq : fetch[f].seq < p => fetch[f].started <= purges[p].at
    BY DEF TrackInv, FetchInv
  <2>3. purges'[seq + 1].at = now /\ \A p \in 1..seq : purges'[p].at = purges[p].at
    BY <1>2
  <2>4. fetch[f].seq <= seq'
    BY <1>1, <1>2, <2>1, <2>2
  <2> QED BY <1>3, <2>2, <2>3, <2>4
<1>10. EntryInv'
  <2> SUFFICES ASSUME NEW t \in Targets, tracked'[t] # None
               PROVE  /\ tracked'[t].seq \in 1..seq'
                      /\ purges'[tracked'[t].seq] =
                           [target |-> t, version |-> tracked'[t].version, at |-> tracked'[t].at]
                      /\ tracked'[t].version = 0 => tracked'[t].unconditionalSeq = tracked'[t].seq
    BY DEF EntryInv
  <2>1. tracked'[t] = updated[t]
    BY <1>5
  <2>2. CASE t = target
    BY <1>1, <1>2, <1>3, <1>6, <2>1, <2>2 DEF NewEntry
  <2>3. CASE t # target
    BY <1>2, <1>3, <1>6, <2>1, <2>3 DEF TrackInv, EntryInv
  <2> QED BY <2>2, <2>3
<1>11. TrackerInv'
  <2> SUFFICES ASSUME NEW t \in Targets, NEW p \in 1..seq', purges'[p].target = t
               PROVE  /\ tracked'[t] = None => now - purges'[p].at > Retention
                      /\ tracked'[t] # None =>
                           /\ p <= tracked'[t].seq
                           /\ purges'[p].version = 0 =>
                                \/ p <= tracked'[t].unconditionalSeq
                                \/ now - purges'[p].at > Retention
    BY DEF TrackerInv
  <2>1. CASE p = seq + 1
    <3>1. t = target /\ purges'[p].at = now /\ purges'[p].version = version
      BY <1>2, <2>1
    <3>2. NewEntry(target, version).at = now /\ NewEntry(target, version) # None
      BY <1>1, <1>4 DEF NewEntry
    <3>3. tracked'[t] = NewEntry(target, version)
      BY <1>1, <1>5, <1>6, <3>1, <3>2 DEF TypeOK
    <3> QED BY <1>1, <1>2, <1>4, <2>1, <3>1, <3>3 DEF NewEntry
  <2>2. CASE p \in 1..seq /\ t = target
    <3>1. tracked'[t] = NewEntry(target, version)
      BY <1>1, <1>5, <1>6, <2>2 DEF NewEntry
    <3>2. purges'[p] = purges[p] /\ purges[p].target = t
      BY <1>2, <2>2
    <3>3. tracked'[t] # None /\ p <= tracked'[t].seq
      BY <1>1, <1>4, <2>2, <3>1 DEF NewEntry
    <3>4. ASSUME purges[p].version = 0
          PROVE  p <= tracked'[t].unconditionalSeq \/ now - purges[p].at > Retention
      <4>1. CASE version = 0
        BY <1>1, <2>2, <3>1, <4>1 DEF NewEntry
      <4>2. CASE version # 0 /\ tracked[t] = None
        BY <2>2, <3>2, <4>2 DEF TrackInv, TrackerInv
      <4>3. CASE version # 0 /\ tracked[t] # None
        <5>1. tracked'[t].unconditionalSeq = tracked[t].unconditionalSeq
          BY <2>2, <3>1, <4>3 DEF NewEntry
        <5> QED BY <2>2, <3>2, <3>4, <4>3, <5>1 DEF TrackInv, TrackerInv
      <4> QED BY <4>1, <4>2, <4>3
    <3> QED BY <3>2, <3>3, <3>4
  <2>3. CASE p \in 1..seq /\ t # target
    <3>1. purges'[p] = purges[p] /\ purges[p].target = t /\ updated[t] = tracked[t]
      BY <1>2, <1>6, <2>3
    <3>2. CASE tracked'[t] = tracked[t]
      BY <2>3, <3>1, <3>2 DEF TrackInv, TrackerInv
    <3>3. CASE tracked'[t] = None /\ tracked[t] # None /\ now - tracked[t].at > Retention
      <4>1. /\ p <= tracked[t].seq /\ tracked[t].seq \in 1..seq
            /\ purges[tracked[t].seq].at = tracked[t].at
        <5>1. p <= tracked[t].seq
          BY <2>3, <3>1, <3>3 DEF TrackInv, TrackerInv
        <5>2. tracked[t].seq \in 1..seq
              /\ purges[tracked[t].seq] =
                   [target |-> t, version |-> tracked[t].version, at |-> tracked[t].at]
          BY <2>3, <3>3 DEF TrackInv, EntryInv
        <5> QED BY <5>1, <5>2
      <4>2. purges[p].at <= tracked[t].at
        BY <2>3, <4>1 DEF TrackInv, HistoryInv
      <4>3. tracked[t].at \in Nat /\ purges[p].at \in Nat
        BY <1>1, <1>7, <2>3, <3>3 DEF Entry, Purge
      <4> QED BY <1>1, <3>1, <3>3, <4>2, <4>3
    <3> QED BY <1>5, <3>1, <3>2, <3>3
  <2> QED BY <1>3, <2>1, <2>2, <2>3
<1> QED BY <1>8, <1>9, <1>10, <1>11 DEF TrackInv

\* Only recorded invalidations, the clock and the fetches matter to TrackInv.
LEMMA TrackFrame ==
    ASSUME TrackInv, UNCHANGED <<now, seq, tracked, purges, fetch>> PROVE TrackInv'
BY DEF TrackInv, HistoryInv, TrackerInv, EntryInv, FetchInv

LEMMA TrackStep == ControlInv /\ TrackInv /\ [Next]_vars => TrackInv'
<1> SUFFICES ASSUME ControlInv, TrackInv, [Next]_vars PROVE TrackInv'
  OBVIOUS
<1>0. /\ seq \in Nat /\ now \in Nat
      /\ tracked \in [Targets -> Entry \cup {None}]
      /\ fetch \in [Fetchers -> Token \cup {None}]
      /\ \A p \in 1..seq : purges[p] \in Purge
  BY DEF ControlInv, TypeOK
<1>1. ASSUME NEW f \in Fetchers, NEW k \in Keys, Begin(f, k) PROVE TrackInv'
  <2>1. UNCHANGED <<now, seq, tracked, purges>>
    BY <1>1 DEF Begin, tracker
  <2>2. fetch' = [fetch EXCEPT ![f] = [key |-> k, seq |-> seq, started |-> now]]
    BY <1>1 DEF Begin
  <2>3. FetchInv'
    <3> SUFFICES ASSUME NEW g \in Fetchers, fetch'[g] # None
                 PROVE  /\ fetch'[g].seq <= seq
                        /\ fetch'[g].started <= now
                        /\ \A p \in 1..seq : fetch'[g].seq < p => fetch'[g].started <= purges[p].at
      BY <2>1 DEF FetchInv
    <3>1. CASE g = f
      BY <1>0, <2>2, <3>1
    <3>2. CASE g # f
      BY <1>0, <2>2, <3>2 DEF TrackInv, FetchInv
    <3> QED BY <3>1, <3>2
  <2> QED BY <2>1, <2>3 DEF TrackInv, HistoryInv, TrackerInv, EntryInv
<1>2. ASSUME NEW f \in Fetchers, fetch' = [fetch EXCEPT ![f] = None],
             UNCHANGED <<now, seq, tracked, purges>>
      PROVE  TrackInv'
  <2>1. \A g \in Fetchers : fetch'[g] # None => fetch'[g] = fetch[g]
    BY <1>0, <1>2
  <2>2. FetchInv'
    BY <1>2, <2>1 DEF TrackInv, FetchInv
  <2> QED BY <1>2, <2>2 DEF TrackInv, HistoryInv, TrackerInv, EntryInv
<1>3. ASSUME NEW f \in Fetchers, GiveUp(f) PROVE TrackInv'
  BY <1>2, <1>3 DEF GiveUp, tracker
<1>4. ASSUME NEW f \in Fetchers, NEW resp \in Responses, Store(f, resp) PROVE TrackInv'
  BY <1>2, <1>4 DEF Store, tracker
<1>5. ASSUME NEW r \in Runners, InvalidateTag(r) PROVE TrackInv'
  <2>1. Head(run[r].tags) \in Targets /\ run[r].event.version \in Nat
    <3>1. run[r] \in RunState /\ run[r].event \in Event /\ run[r].tags # <<>>
      BY <1>5 DEF InvalidateTag, ControlInv, TypeOK, RunInv, RunOK
    <3>2. run[r].tags \in Seq(Tags)
      BY <3>1 DEF RunState
    <3> QED BY <3>1, <3>2 DEF Event
  <2> QED BY <1>5, <2>1, InvalidateTracks DEF InvalidateTag
<1>6. ASSUME NEW r \in Runners, InvalidateKey(r) PROVE TrackInv'
  <2>1. Head(run[r].keys) \in Targets
    <3>1. run[r] \in RunState /\ run[r].keys # <<>>
      BY <1>6 DEF InvalidateKey, ControlInv, TypeOK
    <3>2. run[r].keys \in Seq(Keys)
      BY <3>1 DEF RunState
    <3> QED BY <3>1, <3>2
  <2> QED BY <1>6, <2>1, InvalidateTracks DEF InvalidateKey
<1>7. ASSUME Tick PROVE TrackInv'
  <2>1. now' = now + 1 /\ UNCHANGED <<seq, tracked, purges, fetch>>
    BY <1>7 DEF Tick, tracker
  <2>2. \A p \in 1..seq : purges[p].at \in Nat
    BY <1>0 DEF Purge
  <2>3. HistoryInv'
    BY <1>0, <2>1, <2>2 DEF TrackInv, HistoryInv
  <2>4. \A p \in 1..seq : now - purges[p].at > Retention => now' - purges[p].at > Retention
    BY <1>0, <2>1, <2>2
  <2>5. TrackerInv'
    BY <2>1, <2>4 DEF TrackInv, TrackerInv
  <2>6. FetchInv'
    <3>1. \A f \in Fetchers : fetch[f] # None => fetch[f].started \in Nat
      BY <1>0 DEF Token
    <3> QED BY <1>0, <2>1, <3>1 DEF TrackInv, FetchInv
  <2> QED BY <2>1, <2>3, <2>5, <2>6 DEF TrackInv, EntryInv
<1>8. ASSUME NEW r \in Runners,
             \/ \E e \in Inbox : Deliver(r, e)
             \/ ScanShard(r)
             \/ \E k \in Keys : LookupKey(r, k)
             \/ DeleteKey(r) \/ TagDone(r) \/ DeleteTarget(r) \/ Commit(r)
      PROVE  TrackInv'
  BY <1>8, TrackFrame
     DEF Deliver, ScanShard, LookupKey, DeleteKey, TagDone, DeleteTarget, Commit, tracker
<1>9. ASSUME (\E k \in Keys : Evict(k)) \/ UNCHANGED vars PROVE TrackInv'
  BY <1>9, TrackFrame DEF Evict, tracker, vars
<1> QED
  BY <1>1, <1>3, <1>4, <1>5, <1>6, <1>7, <1>8, <1>9 DEF Next, RunnerStep

-------------------------------------------------------------------------------
(* What an invalidation outdates is removed or about to be. *)

\* The storing step: what the tracker lets through, no recorded invalidation
\* outdates, unless an older one undercut it.
LEMMA StoredIsCurrent ==
    ASSUME ControlInv, TrackInv, NEW f \in Fetchers, NEW resp \in Responses,
           fetch[f] # None, ~Invalidated(fetch[f], resp),
           NEW p \in 1..seq, purges[p].target \in resp.tags \cup {fetch[f].key},
           fetch[f].seq < p,
           \/ purges[p].version = 0
           \/ resp.version = 0
           \/ resp.version <= purges[p].version
    PROVE  Undercut(p) /\ resp.version > 0
<1> DEFINE token == fetch[f]
           t == purges[p].target
           e == tracked[t]
<1>1. /\ seq \in Nat /\ now \in Nat /\ Len(purges) = seq
      /\ token \in Token /\ purges[p] \in Purge
  BY DEF ControlInv, TypeOK
<1>2. /\ token.seq \in Nat /\ token.started \in Nat /\ t \in Targets
      /\ purges[p].version \in Nat /\ purges[p].at \in Nat /\ resp.version \in Nat
  BY <1>1 DEF Token, Purge
<1>3. token.started <= purges[p].at /\ token.seq < seq
  BY <1>1, <1>2 DEF TrackInv, FetchInv
<1>4. ~(now - purges[p].at > Retention)
  BY <1>1, <1>2, <1>3 DEF Invalidated
<1>5. /\ e # None
      /\ p <= e.seq
      /\ purges[p].version = 0 => p <= e.unconditionalSeq
  BY <1>2, <1>4 DEF TrackInv, TrackerInv
<1>6. /\ e \in Entry
      /\ e.seq \in 1..seq
      /\ purges[e.seq].target = t
      /\ purges[e.seq].version = e.version
      /\ e.version = 0 => e.unconditionalSeq = e.seq
  <2>1. e \in Entry
    BY <1>2, <1>5 DEF ControlInv, TypeOK
  <2>2. /\ e.seq \in 1..seq
        /\ purges[e.seq] = [target |-> t, version |-> e.version, at |-> e.at]
        /\ e.version = 0 => e.unconditionalSeq = e.seq
    BY <1>2, <1>5 DEF TrackInv, EntryInv
  <2> QED BY <2>1, <2>2
<1>7. e.seq \in Nat /\ e.version \in Nat /\ e.unconditionalSeq \in Nat
  BY <1>6 DEF Entry
<1>8. ~Overrules(e, token, resp.version)
  BY <1>1, <1>2, <1>3 DEF Invalidated
<1> HIDE DEF token, e
<1>9. /\ ~(e.unconditionalSeq > token.seq)
      /\ resp.version # 0
      /\ ~(resp.version <= e.version)
  BY <1>2, <1>5, <1>7, <1>8 DEF Overrules, token
<1>10. purges[p].version # 0
  BY <1>2, <1>5, <1>7, <1>9 DEF token
<1>11. resp.version <= purges[p].version /\ e.version < purges[p].version
  BY <1>2, <1>7, <1>9, <1>10
<1>12. e.version # 0
  BY <1>2, <1>5, <1>6, <1>7, <1>9 DEF token
<1>13. e.seq # p
  BY <1>2, <1>6, <1>7, <1>11
<1>14. e.seq \in (p + 1)..Len(purges)
  BY <1>1, <1>5, <1>6, <1>7, <1>13
<1>15. Undercut(p)
  <2>1. 0 < e.version
    BY <1>7, <1>12
  <2> QED BY <1>6, <1>11, <1>14, <2>1 DEF Undercut
<1> QED BY <1>2, <1>9, <1>15

\* A step of one runner that records nothing: what it covered and leaves in the
\* cache, it still covers.
LEMMA PurgeFrame ==
    ASSUME ControlInv, PurgeInv, NEW r \in Runners, NEW state,
           run' = [run EXCEPT ![r] = state],
           UNCHANGED <<seq, purges>>,
           \A k \in Keys : cache'[k] = cache[k] \/ cache'[k] = None,
           \A p \in 1..seq, k \in Keys :
               cache'[k] # None /\ Outdated(p, k) /\ ~Exempt(p, k) /\ Covers(run[r], p, k)
                   => Covers(state, p, k)
    PROVE  PurgeInv'
<1> SUFFICES ASSUME NEW p \in 1..seq, NEW k \in Keys, Outdated(p, k)', ~Exempt(p, k)'
             PROVE  \E q \in Runners : Covers(run'[q], p, k)
  BY DEF PurgeInv
<1>1. cache'[k] # None /\ cache'[k] = cache[k]
  BY DEF Outdated
<1>2. Outdated(p, k) /\ ~Exempt(p, k)
  BY <1>1 DEF Outdated, Exempt, Undercut
<1>3. PICK q \in Runners : Covers(run[q], p, k)
  BY <1>2 DEF PurgeInv
<1>4. run \in [Runners -> RunState]
  BY DEF ControlInv, TypeOK
<1>5. CASE q = r
  BY <1>1, <1>2, <1>3, <1>4, <1>5
<1>6. CASE q # r
  BY <1>3, <1>4, <1>6
<1> QED BY <1>5, <1>6

\* A step that records an invalidation: the runner was between two purges and
\* covers what the new one outdates.
LEMMA PurgeRecord ==
    ASSUME ControlInv, PurgeInv, NEW r \in Runners, NEW state, NEW n,
           run[r].pc = "next",
           run' = [run EXCEPT ![r] = state],
           n = seq + 1, seq' = n,
           Len(purges') = seq',
           \A p \in 1..seq : purges'[p] = purges[p],
           UNCHANGED cache,
           \A k \in Keys : Outdated(n, k)' => Covers(state, n, k)
    PROVE  PurgeInv'
<1> SUFFICES ASSUME NEW p \in 1..seq', NEW k \in Keys, Outdated(p, k)', ~Exempt(p, k)'
             PROVE  \E q \in Runners : Covers(run'[q], p, k)
  BY DEF PurgeInv
<1>1. run \in [Runners -> RunState] /\ seq \in Nat /\ Len(purges) = seq
  BY DEF ControlInv, TypeOK
<1>2. CASE p = n
  BY <1>1, <1>2
<1>3. CASE p # n
  <2>1. p \in 1..seq /\ purges'[p] = purges[p]
    BY <1>1, <1>3
  <2>2. Outdated(p, k)
    BY <2>1 DEF Outdated
  <2>3. ~Exempt(p, k)
    <3>1. Undercut(p) => Undercut(p)'
      <4> SUFFICES ASSUME NEW q \in (p + 1)..Len(purges),
                          purges[q].target = purges[p].target,
                          0 < purges[q].version, purges[q].version < purges[p].version
                   PROVE  Undercut(p)'
        BY DEF Undercut
      <4>1. q \in 1..seq /\ q \in (p + 1)..Len(purges')
        BY <1>1, <2>1
      <4> QED BY <2>1, <4>1 DEF Undercut
    <3> QED BY <3>1 DEF Exempt
  <2>4. PICK q \in Runners : Covers(run[q], p, k)
    BY <2>1, <2>2, <2>3 DEF PurgeInv
  <2>5. q # r
    BY <2>4 DEF Covers
  <2> QED BY <1>1, <2>4, <2>5
<1> QED BY <1>2, <1>3

LEMMA PurgeStep == ControlInv /\ TrackInv /\ PurgeInv /\ [Next]_vars => PurgeInv'
<1> SUFFICES ASSUME ControlInv, TrackInv, PurgeInv, [Next]_vars PROVE PurgeInv'
  OBVIOUS
<1>0. /\ seq \in Nat /\ Len(purges) = seq
      /\ run \in [Runners -> RunState]
      /\ cache \in [Keys -> Item \cup {None}]
      /\ fetch \in [Fetchers -> Token \cup {None}]
      /\ \A r \in Runners : RunOK(run[r], seq, purges)
      /\ \A p \in 1..seq : purges[p] \in Purge
  BY DEF ControlInv, TypeOK, RunInv
<1>1. ASSUME UNCHANGED <<seq, purges, run, cache>> PROVE PurgeInv'
  BY <1>1 DEF PurgeInv, Outdated, Exempt, Undercut
<1>2. ASSUME NEW f \in Fetchers, NEW resp \in Responses, Store(f, resp) PROVE PurgeInv'
  <2> DEFINE key == fetch[f].key
             item == [version |-> resp.version, tags |-> resp.tags, token |-> fetch[f].seq]
  <2>1. UNCHANGED <<seq, purges, run>> /\ fetch[f] # None
    BY <1>2 DEF Store, tracker
  <2>2. CASE UNCHANGED cache
    BY <1>1, <2>1, <2>2
  <2>3. CASE ~Invalidated(fetch[f], resp) /\ cache' = [cache EXCEPT ![key] = item]
    <3> SUFFICES ASSUME NEW p \in 1..seq, NEW k \in Keys, Outdated(p, k)', ~Exempt(p, k)'
                 PROVE  \E q \in Runners : Covers(run[q], p, k)
      BY <2>1 DEF PurgeInv
    <3>1. CASE k = key
      <4>1. cache'[k] = item
        BY <1>0, <2>3, <3>1
      <4>2. /\ purges[p].target \in resp.tags \cup {key}
            /\ fetch[f].seq < p
            /\ \/ purges[p].version = 0
               \/ resp.version = 0
               \/ resp.version <= purges[p].version
        BY <2>1, <3>1, <4>1 DEF Outdated
      <4>3. Undercut(p) /\ resp.version > 0
        BY <2>1, <2>3, <4>2, StoredIsCurrent
      <4>4. Exempt(p, k)'
        BY <2>1, <4>1, <4>3 DEF Exempt, Undercut
      <4> QED BY <4>4
    <3>2. CASE k # key
      <4>1. cache'[k] = cache[k]
        BY <1>0, <2>3, <3>2
      <4>2. Outdated(p, k) /\ ~Exempt(p, k)
        BY <2>1, <4>1 DEF Outdated, Exempt, Undercut
      <4> QED BY <4>2 DEF PurgeInv
    <3> QED BY <3>1, <3>2
  <2> QED BY <1>2, <2>2, <2>3 DEF Store
<1>3. ASSUME NEW k \in Keys, Evict(k) PROVE PurgeInv'
  <2>1. UNCHANGED <<seq, purges, run>> /\ cache' = [cache EXCEPT ![k] = None]
    BY <1>3 DEF Evict, tracker
  <2>2. \A x \in Keys : cache'[x] = cache[x] \/ cache'[x] = None
    BY <1>0, <2>1
  <2> QED BY <2>1, <2>2 DEF PurgeInv, Outdated, Exempt, Undercut
<1>4. ASSUME NEW r \in Runners, NEW e \in Inbox, Deliver(r, e) PROVE PurgeInv'
  <2> DEFINE state == [Idle EXCEPT !.pc = "next", !.event = e, !.tags = e.tags, !.keys = e.keys]
  <2>1. run' = [run EXCEPT ![r] = state] /\ UNCHANGED <<seq, purges, cache>>
    BY <1>4 DEF Deliver, tracker
  <2>2. \A p, k : ~Covers(run[r], p, k)
    BY <1>4 DEF Deliver, Covers
  <2> HIDE DEF state
  <2> QED BY <2>1, <2>2, PurgeFrame
<1>5. ASSUME NEW r \in Runners, InvalidateTag(r) PROVE PurgeInv'
  <2> DEFINE state == [run[r] EXCEPT !.pc = "scan", !.cur = seq + 1, !.shard = 1, !.found = {}]
             tag == Head(run[r].tags)
  <2>0. PICK n : n = seq + 1
    OBVIOUS
  <2>1. run[r] \in RunState /\ tag \in Tags /\ run[r].event.version \in Nat
    <3>1. run[r] \in RunState /\ run[r].event \in Event /\ run[r].tags # <<>>
      BY <1>0, <1>5 DEF InvalidateTag, RunOK
    <3>2. run[r].tags \in Seq(Tags)
      BY <3>1 DEF RunState
    <3> QED BY <3>1, <3>2 DEF Event
  <2>2. /\ seq' = n
        /\ Len(purges') = seq'
        /\ \A p \in 1..seq : purges'[p] = purges[p]
        /\ purges'[n].target = tag
    <3>1. TypeOK /\ tag \in Targets /\ run[r].event.version \in Nat /\ Invalidate(tag, run[r].event.version)
      BY <1>5, <2>1 DEF InvalidateTag, ControlInv
    <3>2. /\ seq' = seq + 1
          /\ Len(purges') = seq'
          /\ \A p \in 1..seq : purges'[p] = purges[p]
          /\ purges'[seq + 1] = [target |-> tag, version |-> run[r].event.version, at |-> now]
      BY <1>0, <3>1, InvalidateType
    <3> QED BY <2>0, <3>2
  <2>3. /\ run[r].pc = "next"
        /\ run' = [run EXCEPT ![r] = state]
        /\ UNCHANGED cache
    BY <1>5 DEF InvalidateTag
  <2>4. state.pc = "scan" /\ state.cur = n /\ state.shard = 1
    BY <2>0, <2>1 DEF RunState
  <2>5. \A k \in Keys : Covers(state, n, k)
    <3>1. \A k \in Keys : 1 <= ShardOf[k]
      OBVIOUS
    <3> HIDE DEF state
    <3> QED BY <2>4, <3>1 DEF Covers
  <2> HIDE DEF state
  <2> QED BY <2>0, <2>2, <2>3, <2>5, PurgeRecord
<1>6. ASSUME NEW r \in Runners, ScanShard(r) PROVE PurgeInv'
  <2> DEFINE s == run[r].shard
             tag == Head(run[r].tags)
             state == [run[r] EXCEPT !.pc = IF s = ShardCount THEN "purge" ELSE "scan",
                                     !.shard = s + 1,
                                     !.found = @ \cup TaggedIn(s, tag)]
  <2>1. /\ run[r] \in RunState /\ RunOK(run[r], seq, purges) /\ run[r].pc = "scan"
        /\ s \in 1..ShardCount /\ tag \in Tags
        /\ run[r].cur \in 1..seq /\ purges[run[r].cur].target = tag
    <3>1. run[r] \in RunState /\ RunOK(run[r], seq, purges) /\ run[r].pc = "scan"
      BY <1>0, <1>6 DEF ScanShard
    <3>2. run[r].tags \in Seq(Tags) /\ s \in 1..(ShardCount + 1)
      BY <3>1 DEF RunState
    <3> QED BY <3>1, <3>2 DEF RunOK
  <2>2. run' = [run EXCEPT ![r] = state] /\ UNCHANGED <<seq, purges, cache>>
    BY <1>6 DEF ScanShard, tracker
  <2>3. /\ state.cur = run[r].cur
        /\ state.pc = IF s = ShardCount THEN "purge" ELSE "scan"
        /\ state.shard = s + 1
        /\ state.found = run[r].found \cup TaggedIn(s, tag)
    BY <2>1 DEF RunState
  <2> HIDE DEF state
  <2>4. ASSUME NEW p \in 1..seq, NEW k \in Keys, Outdated(p, k), Covers(run[r], p, k)
        PROVE  Covers(state, p, k)
    <3>1. run[r].cur = p /\ (s <= ShardOf[k] \/ k \in run[r].found)
      BY <2>1, <2>4 DEF Covers
    <3>2. CASE k \in run[r].found
      BY <2>3, <3>1, <3>2 DEF Covers
    <3>3. CASE s = ShardOf[k]
      <4>1. tag \in cache[k].tags /\ cache[k] # None
        BY <2>1, <2>4, <3>1 DEF Outdated
      <4> QED BY <2>3, <3>1, <3>3, <4>1 DEF Covers, TaggedIn
    <3>4. CASE s < ShardOf[k]
      <4>1. ShardOf[k] \in 1..ShardCount
        OBVIOUS
      <4> QED BY <2>1, <2>3, <3>1, <3>4, <4>1 DEF Covers
    <3>5. ShardOf[k] \in 1..ShardCount
      OBVIOUS
    <3> QED BY <2>1, <3>1, <3>2, <3>3, <3>4, <3>5
  <2> QED BY <2>2, <2>4, PurgeFrame
<1>7. ASSUME NEW r \in Runners, NEW k \in Keys, LookupKey(r, k) PROVE PurgeInv'
  <2>1. /\ run[r] \in RunState /\ RunOK(run[r], seq, purges)
        /\ run[r].pc = "purge" /\ k \in run[r].found
        /\ UNCHANGED <<seq, purges, cache>>
    BY <1>0, <1>7 DEF LookupKey, tracker
  <2>2. CASE run' = [run EXCEPT ![r].pc = "delete", ![r].key = k]
    <3> DEFINE state == [run[r] EXCEPT !.pc = "delete", !.key = k]
    <3>1. state.cur = run[r].cur /\ state.pc = "delete" /\ state.found = run[r].found
      BY <2>1 DEF RunState
    <3>2. run' = [run EXCEPT ![r] = state]
      BY <2>2
    <3> HIDE DEF state
    <3>3. \A p, x : Covers(run[r], p, x) => Covers(state, p, x)
      BY <2>1, <3>1 DEF Covers
    <3> QED BY <2>1, <3>2, <3>3, PurgeFrame
  <2>3. CASE /\ run' = [run EXCEPT ![r].found = @ \ {k}]
             /\ cache[k] # None
             /\ run[r].event.version # 0
             /\ cache[k].version # 0
             /\ ~(cache[k].version <= run[r].event.version)
    <3> DEFINE state == [run[r] EXCEPT !.found = @ \ {k}]
    <3>1. state.cur = run[r].cur /\ state.pc = "purge" /\ state.found = run[r].found \ {k}
      BY <2>1 DEF RunState
    <3>2. run' = [run EXCEPT ![r] = state]
      BY <2>3
    <3> HIDE DEF state
    <3>3. ASSUME NEW p, NEW x, Outdated(p, x), Covers(run[r], p, x)
          PROVE  Covers(state, p, x)
      <4>1. run[r].cur = p /\ x \in run[r].found /\ purges[p].version = run[r].event.version
        BY <2>1, <3>3 DEF Covers, RunOK
      <4>2. x # k
        BY <2>3, <3>3, <4>1 DEF Outdated
      <4> QED BY <3>1, <4>1, <4>2 DEF Covers
    <3> QED BY <2>1, <3>2, <3>3, PurgeFrame
  <2> QED BY <1>7, <2>2, <2>3 DEF LookupKey
<1>8. ASSUME NEW r \in Runners, DeleteKey(r) PROVE PurgeInv'
  <2> DEFINE state == [run[r] EXCEPT !.pc = "purge", !.found = @ \ {run[r].key}, !.key = None]
  <2>1. /\ run[r] \in RunState /\ run[r].pc = "delete" /\ run[r].key \in Keys
    <3>1. run[r] \in RunState /\ RunOK(run[r], seq, purges) /\ run[r].pc = "delete"
      BY <1>0, <1>8 DEF DeleteKey
    <3> QED BY <3>1 DEF RunState, RunOK
  <2>2. /\ run' = [run EXCEPT ![r] = state]
        /\ cache' = [cache EXCEPT ![run[r].key] = None]
        /\ UNCHANGED <<seq, purges>>
    BY <1>8 DEF DeleteKey, tracker
  <2>3. state.cur = run[r].cur /\ state.pc = "purge" /\ state.found = run[r].found \ {run[r].key}
    BY <2>1 DEF RunState
  <2>4. /\ cache'[run[r].key] = None
        /\ \A k \in Keys : cache'[k] = cache[k] \/ cache'[k] = None
    BY <1>0, <2>1, <2>2
  <2> HIDE DEF state
  <2>5. \A p, k : k # run[r].key /\ Covers(run[r], p, k) => Covers(state, p, k)
    BY <2>1, <2>3 DEF Covers
  <2> QED BY <2>2, <2>4, <2>5, PurgeFrame
<1>9. ASSUME NEW r \in Runners, TagDone(r) PROVE PurgeInv'
  <2> DEFINE state == [run[r] EXCEPT !.pc = "next", !.tags = Tail(@), !.cur = 0, !.shard = 1]
  <2>1. run' = [run EXCEPT ![r] = state] /\ UNCHANGED <<seq, purges, cache>>
    BY <1>9 DEF TagDone, tracker
  <2>2. \A p, k : ~Covers(run[r], p, k)
    BY <1>9 DEF TagDone, Covers
  <2> HIDE DEF state
  <2> QED BY <2>1, <2>2, PurgeFrame
<1>10. ASSUME NEW r \in Runners, InvalidateKey(r) PROVE PurgeInv'
  <2> DEFINE state == [run[r] EXCEPT !.pc = "deleteTarget", !.cur = seq + 1]
             key == Head(run[r].keys)
  <2>0. PICK n : n = seq + 1
    OBVIOUS
  <2>1. run[r] \in RunState /\ key \in Keys
    <3>1. run[r] \in RunState /\ run[r].keys # <<>>
      BY <1>0, <1>10 DEF InvalidateKey
    <3>2. run[r].keys \in Seq(Keys)
      BY <3>1 DEF RunState
    <3> QED BY <3>1, <3>2
  <2>2. /\ seq' = n
        /\ Len(purges') = seq'
        /\ \A p \in 1..seq : purges'[p] = purges[p]
        /\ purges'[n].target = key
    <3>1. TypeOK /\ key \in Targets /\ 0 \in Nat /\ Invalidate(key, 0)
      BY <1>10, <2>1 DEF InvalidateKey, ControlInv
    <3>2. /\ seq' = seq + 1
          /\ Len(purges') = seq'
          /\ \A p \in 1..seq : purges'[p] = purges[p]
          /\ purges'[seq + 1] = [target |-> key, version |-> 0, at |-> now]
      BY <1>0, <3>1, InvalidateType
    <3> QED BY <2>0, <3>2
  <2>3. /\ run[r].pc = "next"
        /\ run' = [run EXCEPT ![r] = state]
        /\ UNCHANGED cache
    BY <1>10 DEF InvalidateKey
  <2>4. state.pc = "deleteTarget" /\ state.cur = n /\ state.keys = run[r].keys
    BY <2>0, <2>1 DEF RunState
  <2> HIDE DEF state
  <2>5. ASSUME NEW k \in Keys, Outdated(n, k)' PROVE Covers(state, n, k)
    <3>1. cache[k] \in Item /\ key \in cache[k].tags \cup {k}
      BY <1>0, <2>2, <2>3, <2>5 DEF Outdated
    <3>2. cache[k].tags \subseteq Tags
      BY <3>1 DEF Item
    <3>3. k = key
      BY <2>1, <3>1, <3>2
    <3> QED BY <2>4, <3>3 DEF Covers
  <2> QED BY <2>0, <2>2, <2>3, <2>5, PurgeRecord
<1>11. ASSUME NEW r \in Runners, DeleteTarget(r) PROVE PurgeInv'
  <2> DEFINE state == [run[r] EXCEPT !.pc = "next", !.keys = Tail(@), !.cur = 0]
             key == Head(run[r].keys)
  <2>1. /\ run' = [run EXCEPT ![r] = state]
        /\ cache' = [cache EXCEPT ![key] = None]
        /\ run[r].pc = "deleteTarget"
        /\ UNCHANGED <<seq, purges>>
    BY <1>11 DEF DeleteTarget, tracker
  <2>2. /\ \A k \in Keys : cache'[k] = cache[k] \/ cache'[k] = None
        /\ \A k \in Keys : k = key => cache'[k] = None
    BY <1>0, <2>1
  <2>3. \A p, k : Covers(run[r], p, k) => k = key
    BY <2>1 DEF Covers
  <2> HIDE DEF state, key
  <2> QED BY <2>1, <2>2, <2>3, PurgeFrame
<1>12. ASSUME NEW r \in Runners, Commit(r) PROVE PurgeInv'
  <2>1. run' = [run EXCEPT ![r] = Idle] /\ UNCHANGED <<seq, purges, cache>>
    BY <1>12 DEF Commit, tracker
  <2>2. \A p, k : ~Covers(run[r], p, k)
    BY <1>12 DEF Commit, Covers
  <2> QED BY <2>1, <2>2, PurgeFrame
<1>13. ASSUME \/ \E f \in Fetchers : GiveUp(f) \/ \E k \in Keys : Begin(f, k)
              \/ Tick
              \/ UNCHANGED vars
       PROVE  PurgeInv'
  BY <1>1, <1>13 DEF GiveUp, Begin, Tick, tracker, vars
<1> QED
  BY <1>2, <1>3, <1>4, <1>5, <1>6, <1>7, <1>8, <1>9, <1>10, <1>11, <1>12, <1>13
     DEF Next, RunnerStep

LEMMA InitIInv == Init => IInv
<1> SUFFICES ASSUME Init PROVE TrackInv /\ PurgeInv
  BY InitControl DEF IInv
<1>1. seq = 0 /\ purges = <<>> /\ 1..seq = {}
  BY DEF Init
<1>2. TrackInv
  BY <1>1 DEF Init, TrackInv, HistoryInv, TrackerInv, EntryInv, FetchInv
<1>3. PurgeInv
  BY <1>1 DEF PurgeInv
<1> QED BY <1>2, <1>3

LEMMA StepIInv == IInv /\ [Next]_vars => IInv'
BY ControlStep, TrackStep, PurgeStep DEF IInv

LEMMA IInvHonours == IInv => PurgeHonoured
<1> SUFFICES ASSUME IInv, NEW p \in DOMAIN purges, NEW k \in Keys,
                    Outdated(p, k), ~InProgress(p)
             PROVE  Undercut(p) /\ cache[k].version > 0
  BY DEF PurgeHonoured
<1>1. p \in 1..seq
  BY DEF IInv, ControlInv, TypeOK
<1>2. \A r \in Runners : ~Covers(run[r], p, k)
  BY DEF InProgress, Covers, PurgePC
<1> QED BY <1>1, <1>2 DEF IInv, PurgeInv, Exempt

\* Whatever the events, their order, the shards and the retention: once an
\* invalidation has been applied the cache holds nothing fetched before it that
\* it outdates, except a versioned item under a versioned invalidation which a
\* later event with an older version undercut.
THEOREM PurgesAreHonoured == Spec => []PurgeHonoured
BY InitIInv, StepIInv, IInvHonours, PTL DEF Spec

-------------------------------------------------------------------------------
(* One consumer of events that name one tag each: the exception never happens. *)

\* The consumer of the RabbitMQ queue is one goroutine, and the outbox relay
\* publishes an event for each tag.
SingleConsumer ==
    /\ \A r, other \in Runners : r = other
    /\ \A e \in Inbox : e.version > 0 => \E t \in Tags : e.tags = <<t>> /\ e.keys = <<>>

Versioned(state) == state.pc # "idle" /\ state.event.version > 0

\* A versioned event at hand is newer than all that was handled under its tag and,
\* before it is recorded, than all that was recorded.
EventOK(state) ==
    Versioned(state) =>
        /\ state.keys = <<>>
        /\ state.tags \in {state.event.tags, <<>>}
        /\ state.event.version > maxVersion[state.event.tags[1]]
        /\ state.pc = "next" /\ state.tags # <<>> =>
             \A p \in 1..seq : purges[p].target = state.event.tags[1]
                                 => purges[p].version < state.event.version

\* What was recorded under a tag was handled, or is at hand.
Recorded(p) ==
    \/ purges[p].version <= maxVersion[purges[p].target]
    \/ \E r \in Runners : /\ Versioned(run[r])
                          /\ run[r].event.tags[1] = purges[p].target
                          /\ run[r].event.version >= purges[p].version

OrderInv ==
    /\ \A r \in Runners : EventOK(run[r])
    /\ \A p \in 1..seq : purges[p].target \in Tags => Recorded(p)
    /\ \A p, q \in 1..seq : p < q /\ purges[p].target = purges[q].target
                              /\ purges[q].version > 0
                              => purges[p].version < purges[q].version

\* A runner that records nothing and keeps its event.
LEMMA OrderKept ==
    ASSUME OrderInv, ControlInv, NEW r \in Runners, NEW state \in RunState,
           run' = [run EXCEPT ![r] = state],
           run[r].pc # "idle", state.pc # "idle", state.event = run[r].event,
           Versioned(run[r]) => /\ state.keys = run[r].keys
                                /\ state.tags \in {run[r].tags, <<>>}
                                /\ state.pc = "next" => state.tags = <<>>,
           UNCHANGED <<seq, purges, maxVersion>>
    PROVE  OrderInv'
<1>1. \A s \in Runners : run'[s] = IF s = r THEN state ELSE run[s]
  BY DEF ControlInv, TypeOK
<1>2. Versioned(state) <=> Versioned(run[r])
  BY DEF Versioned
<1>3. \A s \in Runners : EventOK(run[s])'
  BY <1>1, <1>2 DEF OrderInv, EventOK, Versioned
<1>4. \A p \in 1..seq : Recorded(p) => Recorded(p)'
  BY <1>1, <1>2 DEF Recorded, Versioned
<1> QED BY <1>3, <1>4 DEF OrderInv

LEMMA OrderStep ==
    ASSUME SingleConsumer, ControlInv, OrderInv, [Next]_vars, ControlInv'
    PROVE  OrderInv'
<1>0. /\ run \in [Runners -> RunState] /\ run' \in [Runners -> RunState]
      /\ seq \in Nat /\ maxVersion \in [Tags -> Nat]
      /\ purges \in Seq(Purge) /\ Len(purges) = seq
      /\ \A p \in 1..seq : purges[p] \in Purge
  BY DEF ControlInv, TypeOK
<1>1. ASSUME UNCHANGED <<run, seq, purges, maxVersion>> PROVE OrderInv'
  BY <1>1 DEF OrderInv, EventOK, Versioned, Recorded
<1>2. ASSUME \/ \E f \in Fetchers : \/ \E k \in Keys : Begin(f, k)
                                   \/ GiveUp(f)
                                   \/ \E resp \in Responses : Store(f, resp)
             \/ \E k \in Keys : Evict(k)
             \/ Tick
             \/ UNCHANGED vars
      PROVE  OrderInv'
  BY <1>1, <1>2 DEF Begin, GiveUp, Store, Evict, Tick, tracker, broker, vars
<1>3. ASSUME NEW r \in Runners, NEW e \in Inbox, Deliver(r, e) PROVE OrderInv'
  <2> DEFINE state == [Idle EXCEPT !.pc = "next", !.event = e, !.tags = e.tags, !.keys = e.keys]
  <2>1. /\ state.pc = "next" /\ state.event = e /\ state.tags = e.tags /\ state.keys = e.keys
        /\ run[r].pc = "idle" /\ ~Superseded(maxVersion, e)
        /\ run' = [run EXCEPT ![r] = state]
        /\ UNCHANGED <<seq, purges, maxVersion>>
    BY <1>3 DEF Deliver, Idle, tracker, broker
  <2> HIDE DEF state
  <2>2. \A s \in Runners : s = r /\ run'[s] = state
    BY <1>0, <2>1 DEF SingleConsumer
  <2>3. \A p \in 1..seq : purges[p].target \in Tags
                            => purges[p].version <= maxVersion[purges[p].target]
    BY <2>1 DEF OrderInv, Recorded, Versioned, SingleConsumer
  <2>4. EventOK(state)'
    <3> SUFFICES ASSUME e.version > 0 PROVE EventOK(state)'
      BY <2>1 DEF EventOK, Versioned
    <3>1. PICK t \in Tags : e.tags = <<t>> /\ e.keys = <<>>
      BY DEF SingleConsumer
    <3>2. e.version \in Nat /\ maxVersion[t] \in Nat /\ e.version > maxVersion[t]
      BY <1>0, <2>1, <3>1 DEF Superseded, Event
    <3>3. \A p \in 1..seq : purges[p].target = t => purges[p].version < e.version
      BY <1>0, <2>3, <3>2 DEF Purge
    <3> QED BY <2>1, <3>1, <3>2, <3>3 DEF EventOK
  <2>5. \A p \in 1..seq : purges'[p].target \in Tags => Recorded(p)'
    BY <2>1, <2>3 DEF Recorded
  <2> QED BY <2>1, <2>2, <2>4, <2>5 DEF OrderInv
<1>4. ASSUME NEW r \in Runners, InvalidateTag(r) PROVE OrderInv'
  <2> DEFINE state == run'[r]
             t == Head(run[r].tags)
             v == run[r].event.version
  <2>1. /\ run[r].pc = "next" /\ run[r].tags # <<>>
        /\ run[r].event \in Inbox /\ t \in Tags /\ v \in Nat
    <3>1. run[r].pc = "next" /\ run[r].tags # <<>>
      BY <1>4 DEF InvalidateTag
    <3>2. run[r].tags \in Seq(Tags)
      BY <1>0 DEF RunState
    <3>3. run[r].event \in Inbox
      BY <3>1 DEF ControlInv, RunInv, RunOK
    <3>4. v \in Nat
      BY <3>3 DEF Event
    <3> QED BY <3>1, <3>2, <3>3, <3>4
  <2>2. /\ seq' = seq + 1
        /\ \A p \in 1..seq : purges'[p] = purges[p]
        /\ purges'[seq + 1] = [target |-> t, version |-> v, at |-> now]
    BY <1>4, <2>1, InvalidateType DEF InvalidateTag, ControlInv
  <2>3. /\ \A s \in Runners : s = r
        /\ state.pc = "scan" /\ state.event = run[r].event
        /\ state.tags = run[r].tags /\ state.keys = run[r].keys
        /\ maxVersion' = maxVersion
    BY <1>0, <1>4 DEF InvalidateTag, SingleConsumer, RunState, broker
  <2>4. v > 0 => /\ run[r].event.tags = <<t>>
                 /\ run[r].tags = run[r].event.tags /\ run[r].keys = <<>>
                 /\ v > maxVersion[t]
                 /\ \A p \in 1..seq : purges[p].target = t => purges[p].version < v
    BY <2>1 DEF OrderInv, EventOK, Versioned, SingleConsumer
  <2> HIDE DEF state, t, v
  <2>5. EventOK(run[r])'
    BY <2>3, <2>4 DEF EventOK, Versioned, v, state
  <2>6. ASSUME NEW p \in 1..seq', purges'[p].target \in Tags PROVE Recorded(p)'
    <3>1. CASE p \in 1..seq
      <4>1. Recorded(p)
        BY <2>2, <2>6, <3>1 DEF OrderInv
      <4> QED BY <4>1, <2>2, <2>3, <2>1, <3>1 DEF Recorded, Versioned, state
    <3>2. CASE p = seq + 1
      <4>1. purges'[p].target = t /\ purges'[p].version = v /\ maxVersion'[t] \in Nat
        BY <1>0, <2>1, <2>2, <2>3, <3>2
      <4>2. CASE v = 0
        BY <4>1, <4>2 DEF Recorded
      <4>3. CASE v > 0
        <5>1. Versioned(run'[r]) /\ run'[r].event.tags[1] = t /\ run'[r].event.version = v
          BY <2>3, <2>4, <4>3 DEF Versioned, v, state
        <5> QED BY <2>1, <4>1, <5>1 DEF Recorded
      <4> QED BY <2>1, <4>2, <4>3
    <3> QED BY <1>0, <2>2, <3>1, <3>2
  <2>7. ASSUME NEW p \in 1..seq', NEW q \in 1..seq', p < q,
               purges'[p].target = purges'[q].target, purges'[q].version > 0
        PROVE  purges'[p].version < purges'[q].version
    <3>1. p \in 1..seq /\ (q \in 1..seq \/ q = seq + 1)
      BY <1>0, <2>2, <2>7
    <3>2. CASE q \in 1..seq
      BY <2>2, <2>7, <3>1, <3>2 DEF OrderInv
    <3>3. CASE q = seq + 1
      BY <2>2, <2>4, <2>7, <3>1, <3>3
    <3> QED BY <3>1, <3>2, <3>3
  <2> QED BY <2>3, <2>5, <2>6, <2>7 DEF OrderInv
<1>5. ASSUME NEW r \in Runners,
             ScanShard(r) \/ (\E k \in Keys : LookupKey(r, k)) \/ DeleteKey(r)
      PROVE  OrderInv'
  <2>1. /\ run[r].pc \in {"scan", "purge", "delete"}
        /\ run'[r].pc \in {"scan", "purge", "delete"}
        /\ run'[r].event = run[r].event
        /\ run'[r].tags = run[r].tags /\ run'[r].keys = run[r].keys
        /\ run' = [run EXCEPT ![r] = run'[r]]
        /\ UNCHANGED <<seq, purges, maxVersion>>
    <3>1. CASE ScanShard(r)
      BY <1>0, <3>1 DEF ScanShard, RunState, tracker, broker
    <3>2. ASSUME NEW k \in Keys, LookupKey(r, k) PROVE <2>1!:
      <4>1. run[r].pc = "purge" /\ run[r] \in RunState
        BY <1>0, <3>2 DEF LookupKey
      <4>2. UNCHANGED <<seq, purges, maxVersion>>
        BY <3>2 DEF LookupKey, tracker, broker
      <4>3. CASE run' = [run EXCEPT ![r] = [run[r] EXCEPT !.pc = "delete", !.key = k]]
        BY <1>0, <4>1, <4>2, <4>3 DEF RunState
      <4>4. CASE run' = [run EXCEPT ![r] = [run[r] EXCEPT !.found = @ \ {k}]]
        BY <1>0, <4>1, <4>2, <4>4 DEF RunState
      <4> QED BY <3>2, <4>3, <4>4 DEF LookupKey
    <3>3. CASE DeleteKey(r)
      BY <1>0, <3>3 DEF DeleteKey, RunState, tracker, broker
    <3> QED BY <1>5, <3>1, <3>2, <3>3
  <2> QED BY <1>0, <2>1, OrderKept
<1>6. ASSUME NEW r \in Runners, TagDone(r) PROVE OrderInv'
  <2>1. /\ run[r].pc = "purge" /\ run'[r].pc = "next"
        /\ run'[r].event = run[r].event
        /\ run'[r].tags = Tail(run[r].tags) /\ run'[r].keys = run[r].keys
        /\ run' = [run EXCEPT ![r] = run'[r]]
        /\ UNCHANGED <<seq, purges, maxVersion>>
    BY <1>0, <1>6 DEF TagDone, RunState, tracker, broker
  <2>2. run[r].tags # <<>> /\ run[r].event \in Inbox
    BY <2>1 DEF ControlInv, RunInv, RunOK
  <2>3. ASSUME Versioned(run[r]) PROVE Tail(run[r].tags) = <<>>
    <3>1. run[r].tags = run[r].event.tags /\ run[r].event.version > 0
      BY <2>2, <2>3 DEF Versioned, OrderInv, EventOK
    <3>2. PICK t \in Tags : run[r].event.tags = <<t>>
      BY <2>2, <3>1 DEF SingleConsumer
    <3> QED BY <3>1, <3>2
  <2> QED BY <1>0, <2>1, <2>3, OrderKept
<1>7. ASSUME NEW r \in Runners, InvalidateKey(r) PROVE OrderInv'
  <2> DEFINE k == Head(run[r].keys)
  <2>1. /\ run[r].pc = "next" /\ run[r].keys # <<>> /\ k \in Keys /\ 0 \in Nat
        /\ run'[r].pc = "deleteTarget" /\ run'[r].event = run[r].event
        /\ \A s \in Runners : s = r
        /\ maxVersion' = maxVersion
    <3>1. run[r].pc = "next" /\ run[r].keys # <<>> /\ run[r].keys \in Seq(Keys)
      BY <1>0, <1>7 DEF InvalidateKey, RunState
    <3>2. run'[r].pc = "deleteTarget" /\ run'[r].event = run[r].event
      BY <1>0, <1>7 DEF InvalidateKey, RunState
    <3>3. (\A s \in Runners : s = r) /\ maxVersion' = maxVersion
      BY <1>7 DEF InvalidateKey, SingleConsumer, broker
    <3> QED BY <3>1, <3>2, <3>3
  <2>2. /\ seq' = seq + 1
        /\ \A p \in 1..seq : purges'[p] = purges[p]
        /\ purges'[seq + 1] = [target |-> k, version |-> 0, at |-> now]
    BY <1>7, <2>1, InvalidateType DEF InvalidateKey, ControlInv
  <2>3. ~Versioned(run[r]) /\ ~Versioned(run'[r])
    BY <2>1 DEF OrderInv, EventOK, Versioned
  <2> HIDE DEF k
  <2>4. ASSUME NEW p \in 1..seq', purges'[p].target \in Tags PROVE Recorded(p)'
    <3>1. p # seq + 1
      BY <2>1, <2>2, <2>4
    <3>2. p \in 1..seq
      BY <1>0, <2>2, <3>1
    <3>3. Recorded(p)
      BY <2>2, <2>4, <3>2 DEF OrderInv
    <3> QED BY <2>1, <2>2, <2>3, <3>2, <3>3 DEF Recorded
  <2>5. ASSUME NEW p \in 1..seq', NEW q \in 1..seq', p < q,
               purges'[p].target = purges'[q].target, purges'[q].version > 0
        PROVE  purges'[p].version < purges'[q].version
    <3>1. q # seq + 1
      BY <2>2, <2>5
    <3>2. p \in 1..seq /\ q \in 1..seq
      BY <1>0, <2>2, <2>5, <3>1
    <3> QED BY <2>2, <2>5, <3>2 DEF OrderInv
  <2> QED BY <2>1, <2>3, <2>4, <2>5 DEF OrderInv, EventOK
<1>8. ASSUME NEW r \in Runners, DeleteTarget(r) PROVE OrderInv'
  <2>1. /\ run[r].pc = "deleteTarget" /\ run'[r].pc = "next"
        /\ run'[r].event = run[r].event
        /\ run' = [run EXCEPT ![r] = run'[r]]
        /\ run[r].keys # <<>>
        /\ UNCHANGED <<seq, purges, maxVersion>>
    <3>1. run[r].pc = "deleteTarget" /\ run[r] \in RunState
      BY <1>0, <1>8 DEF DeleteTarget
    <3>2. run[r].keys # <<>>
      BY <3>1 DEF ControlInv, RunInv, RunOK
    <3>3. run' = [run EXCEPT ![r] = [run[r] EXCEPT !.pc = "next", !.keys = Tail(@), !.cur = 0]]
      BY <1>8 DEF DeleteTarget
    <3>4. UNCHANGED <<seq, purges, maxVersion>>
      BY <1>8 DEF DeleteTarget, tracker, broker
    <3>5. run'[r] = [run[r] EXCEPT !.pc = "next", !.keys = Tail(@), !.cur = 0]
      BY <1>0, <3>3
    <3>6. run'[r].pc = "next" /\ run'[r].event = run[r].event
      BY <3>1, <3>5 DEF RunState
    <3>7. run' = [run EXCEPT ![r] = run'[r]]
      BY <1>0, <3>3, <3>5
    <3> QED BY <3>1, <3>2, <3>4, <3>6, <3>7
  <2>2. ~Versioned(run[r])
    BY <2>1 DEF OrderInv, EventOK
  <2> QED BY <1>0, <2>1, <2>2, OrderKept
<1>9. ASSUME NEW r \in Runners, Commit(r) PROVE OrderInv'
  <2>1. /\ \A s \in Runners : s = r /\ run'[s].pc = "idle"
        /\ run[r].pc = "next" /\ run[r].event \in Inbox
        /\ maxVersion' = CommitVersion(maxVersion, run[r].event)
        /\ UNCHANGED <<seq, purges>>
    BY <1>0, <1>9 DEF Commit, Idle, SingleConsumer, tracker, ControlInv, RunInv, RunOK
  <2>2. \A s \in Runners : EventOK(run[s])'
    BY <2>1 DEF EventOK, Versioned
  <2>3. ASSUME NEW p \in 1..seq, purges[p].target \in Tags
        PROVE  purges[p].version <= maxVersion'[purges[p].target]
    <3> DEFINE t == purges[p].target
               e == run[r].event
    <3>1. /\ e.version \in Nat /\ maxVersion[t] \in Nat /\ purges[p].version \in Nat
          /\ e.tags \in Seq(Tags)
      BY <1>0, <2>1, <2>3 DEF Event, Purge
    <3>2. maxVersion'[t] = IF e.version > maxVersion[t] /\ \E i \in DOMAIN e.tags : e.tags[i] = t
                           THEN e.version ELSE maxVersion[t]
      BY <2>1, <2>3 DEF CommitVersion
    <3>3. CASE purges[p].version <= maxVersion[t]
      BY <3>1, <3>2, <3>3
    <3>4. CASE Versioned(run[r]) /\ e.tags[1] = t /\ e.version >= purges[p].version
      <4>1. e.tags = <<t>>
        BY <2>1, <3>4 DEF Versioned, SingleConsumer
      <4>2. \E i \in DOMAIN e.tags : e.tags[i] = t
        BY <4>1
      <4> HIDE DEF e
      <4> QED BY <3>1, <3>2, <3>4, <4>2
    <3> QED BY <2>1, <2>3, <3>3, <3>4 DEF OrderInv, Recorded
  <2> QED BY <2>1, <2>2, <2>3 DEF OrderInv, Recorded
<1> QED BY <1>2, <1>3, <1>4, <1>5, <1>6, <1>7, <1>8, <1>9 DEF Next, RunnerStep

LEMMA OrderHonours ==
    ASSUME SingleConsumer, IInv, OrderInv
    PROVE  EveryPurgeHonoured
<1> SUFFICES ASSUME NEW p \in DOMAIN purges, NEW k \in Keys, Outdated(p, k), ~InProgress(p)
             PROVE  FALSE
  BY DEF EveryPurgeHonoured
<1>1. Undercut(p) /\ p \in 1..seq /\ seq = Len(purges)
  BY IInvHonours DEF PurgeHonoured, IInv, ControlInv, TypeOK
<1>2. PICK q \in (p + 1)..Len(purges) : /\ purges[q].target = purges[p].target
                                        /\ 0 < purges[q].version
                                        /\ purges[q].version < purges[p].version
  BY <1>1 DEF Undercut
<1>3. /\ q \in 1..seq /\ p < q
      /\ purges[p].version \in Nat /\ purges[q].version \in Nat
  <2>1. seq \in Nat /\ \A i \in 1..seq : purges[i] \in Purge
    BY DEF IInv, ControlInv, TypeOK
  <2>2. q \in 1..seq /\ p < q
    BY <1>1, <2>1
  <2> QED BY <1>1, <2>1, <2>2 DEF Purge
<1>4. purges[p].version < purges[q].version
  BY <1>1, <1>2, <1>3 DEF OrderInv
<1> QED BY <1>2, <1>3, <1>4

\* Behind the one consumer of the RabbitMQ queue the purge is exact, whatever the
\* order of the events, the shards and the retention: no version is ever undercut.
THEOREM EveryPurgeIsHonoured == SingleConsumer => (Spec => []EveryPurgeHonoured)
<1> SUFFICES ASSUME SingleConsumer PROVE Spec => []EveryPurgeHonoured
  OBVIOUS
<1>1. Init => OrderInv
  BY DEF Init, OrderInv, EventOK, Versioned, Idle
<1>2. IInv /\ OrderInv /\ [Next]_vars => OrderInv'
  BY OrderStep, ControlStep DEF IInv
<1>3. IInv /\ OrderInv => EveryPurgeHonoured
  BY OrderHonours
<1> QED BY InitIInv, StepIInv, <1>1, <1>2, <1>3, PTL DEF Spec
===============================================================================
