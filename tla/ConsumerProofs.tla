---------------------------- MODULE ConsumerProofs ----------------------------
(***************************************************************************)
(* Proofs about the receiving side of a replica: what is queued reaches its *)
(* cache, and its files stay honest over crashes, for any events, log and   *)
(* limits.                                                                  *)
(***************************************************************************)
EXTENDS Consumer, TLAPS, FiniteSetTheorems, NaturalsInduction, WellFoundedInduction

-------------------------------------------------------------------------------
(* Compaction. *)

LEMMA LeastExists ==
  ASSUME NEW S \in SUBSET Nat, S # {}
  PROVE  \E n \in S : \A m \in S : n <= m
  <1> DEFINE R == OpToRel(<, Nat)
  <1>1. IsWellFoundedOn(R, Nat)
    BY NatLessThanWellFounded
  <1> HIDE DEF R
  <1>2. PICK n \in S : \A m \in S : ~(<<m, n>> \in R)
    BY <1>1, WFMin
  <1>3. ASSUME NEW m \in S PROVE ~(m < n)
    BY <1>2, <1>3 DEF R, OpToRel
  <1>4. n \in Nat /\ \A m \in S : m \in Nat
    OBVIOUS
  <1> QED
    BY <1>3, <1>4

UpTo(S, i) == { j \in S : j <= i }

LEMMA UpToFinite ==
  ASSUME NEW len \in Nat, NEW S \in SUBSET (1..len), NEW i \in Nat
  PROVE  /\ IsFiniteSet(UpTo(S, i))
         /\ Cardinality(UpTo(S, i)) \in Nat
         /\ IsFiniteSet(S) /\ Cardinality(S) \in Nat
  <1>1. IsFiniteSet(1..len)
    BY FS_Interval
  <1>2. UpTo(S, i) \in SUBSET S
    BY DEF UpTo
  <1>3. IsFiniteSet(S)
    BY <1>1, FS_Subset
  <1> QED
    BY <1>2, <1>3, FS_Subset, FS_CardinalityType

\* A member of S has its place among the numbers 1 to the size of S.
LEMMA PlaceOf ==
  ASSUME NEW len \in Nat, NEW S \in SUBSET (1..len), NEW i \in S
  PROVE  Cardinality(UpTo(S, i)) \in 1..Cardinality(S)
  <1>1. i \in Nat
    OBVIOUS
  <1>2. UpTo(S, i) \in SUBSET S /\ i \in UpTo(S, i)
    BY <1>1 DEF UpTo
  <1>3. Cardinality(UpTo(S, i)) <= Cardinality(S)
    BY <1>1, <1>2, UpToFinite, FS_Subset
  <1>4. Cardinality(UpTo(S, i)) # 0
    BY <1>1, <1>2, UpToFinite, FS_EmptySet
  <1>5. Cardinality(UpTo(S, i)) \in Nat /\ Cardinality(S) \in Nat
    BY <1>1, UpToFinite
  <1> QED
    BY <1>3, <1>4, <1>5

\* Different members have different places.
LEMMA PlacesDiffer ==
  ASSUME NEW len \in Nat, NEW S \in SUBSET (1..len), NEW i \in S, NEW j \in S,
         Cardinality(UpTo(S, i)) = Cardinality(UpTo(S, j))
  PROVE  i = j
  <1>1. ASSUME NEW a \in S, NEW b \in S, a < b,
               Cardinality(UpTo(S, a)) = Cardinality(UpTo(S, b))
        PROVE  FALSE
    <2>0. a \in Nat /\ b \in Nat /\ \A x \in S : x \in Nat
      OBVIOUS
    <2>1. UpTo(S, a) \in SUBSET UpTo(S, b) /\ b \in UpTo(S, b) /\ b \notin UpTo(S, a)
      <3>1. \A x \in S : x <= a => x <= b
        BY <1>1, <2>0
      <3>2. b <= b /\ ~(b <= a)
        BY <1>1, <2>0
      <3> QED
        BY <3>1, <3>2 DEF UpTo
    <2>2. UpTo(S, a) = UpTo(S, b)
      BY <1>1, <2>0, <2>1, UpToFinite, FS_Subset
    <2> QED
      BY <2>1, <2>2
  <1>2. i \in Nat /\ j \in Nat
    OBVIOUS
  <1>3. ~(i < j) /\ ~(j < i)
    BY <1>1
  <1> QED
    BY <1>2, <1>3

\* And each of those numbers is a place.
LEMMA EveryPlaceIsTaken ==
  ASSUME NEW len \in Nat, NEW S \in SUBSET (1..len), NEW n \in 1..Cardinality(S)
  PROVE  \E i \in S : Cardinality(UpTo(S, i)) = n
  <1> DEFINE Enough == { m \in Nat : Cardinality(UpTo(S, m)) >= n }
  <1>0. \A m \in Nat : Cardinality(UpTo(S, m)) \in Nat
    BY UpToFinite
  <1>s. \A x \in S : x \in Nat /\ 1 <= x /\ x <= len
    OBVIOUS
  <1>1. UpTo(S, len) = S
    BY <1>s DEF UpTo
  <1>2. len \in Enough
    BY <1>1, UpToFinite
  <1>3. PICK i \in Enough : \A m \in Enough : i <= m
    <2> HIDE DEF Enough
    <2>1. Enough \in SUBSET Nat
      BY DEF Enough
    <2> QED
      BY <1>2, <2>1, LeastExists
  <1>4. i \in Nat /\ Cardinality(UpTo(S, i)) >= n
    OBVIOUS
  <1>5. i # 0
    <2>1. UpTo(S, 0) = {}
      <3>1. \A x \in S : ~(x <= 0)
        BY <1>s
      <3> QED
        BY <3>1, Zenon DEF UpTo
    <2>2. Cardinality(UpTo(S, 0)) = 0
      BY <2>1, FS_EmptySet
    <2> QED
      BY <1>4, <2>2
  <1>6. i - 1 \in Nat /\ ~(i <= i - 1)
    BY <1>4, <1>5
  <1>7. ~(Cardinality(UpTo(S, i - 1)) >= n)
    BY <1>3, <1>6
  <1>8. CASE i \in S
    <2>1. UpTo(S, i - 1) = UpTo(S, i) \ {i} /\ i \in UpTo(S, i) /\ IsFiniteSet(UpTo(S, i))
      <3>1. \A x \in S : x <= i - 1 <=> (x <= i /\ x # i)
        BY <1>s, <1>4
      <3>2. i <= i
        BY <1>4
      <3> QED
        BY <1>4, <1>8, <3>1, <3>2, UpToFinite DEF UpTo
    <2>2. Cardinality(UpTo(S, i - 1)) = Cardinality(UpTo(S, i)) - 1
      BY <1>4, <2>1, UpToFinite, FS_RemoveElement
    <2>3. Cardinality(UpTo(S, i)) = n
      BY <1>0, <1>4, <1>6, <1>7, <2>2
    <2> QED
      BY <1>8, <2>3
  <1>9. CASE i \notin S
    <2>1. UpTo(S, i - 1) = UpTo(S, i)
      <3>1. \A x \in S : x <= i - 1 <=> x <= i
        BY <1>s, <1>4, <1>9
      <3> QED
        BY <3>1 DEF UpTo
    <2> QED
      BY <1>4, <1>7, <2>1
  <1> QED
    BY <1>8, <1>9

LEMMA NthIs ==
  ASSUME NEW len \in Nat, NEW S \in SUBSET (1..len)
  PROVE  /\ \A n \in 1..Cardinality(S) : Nth(S, n) \in S
         /\ \A i \in S : \E n \in 1..Cardinality(S) : Nth(S, n) = i
  <1>1. ASSUME NEW n \in 1..Cardinality(S)
        PROVE  Nth(S, n) \in S /\ Cardinality(UpTo(S, Nth(S, n))) = n
    <2>1. \E i \in S : Cardinality({ j \in S : j <= i }) = n
      BY EveryPlaceIsTaken DEF UpTo
    <2> QED
      BY <2>1 DEF Nth, UpTo
  <1>2. ASSUME NEW i \in S PROVE \E n \in 1..Cardinality(S) : Nth(S, n) = i
    <2> DEFINE n == Cardinality(UpTo(S, i))
    <2>1. n \in 1..Cardinality(S)
      BY PlaceOf
    <2>2. Nth(S, n) \in S /\ Cardinality(UpTo(S, Nth(S, n))) = n
      BY <1>1, <2>1
    <2>3. Nth(S, n) = i
      BY <2>2, PlacesDiffer
    <2> QED
      BY <2>1, <2>3
  <1> QED
    BY <1>1, <1>2

\* Compaction keeps lines of the log only, and all that were not applied.
LEMMA UnappliedKeeps ==
  ASSUME NEW lines, NEW X, lines \in Seq(X)
  PROVE  /\ Unapplied(lines) \in Seq(X)
         /\ \A i \in DOMAIN Unapplied(lines) : \E j \in DOMAIN lines : Unapplied(lines)[i] = lines[j]
         /\ \A i \in DOMAIN lines : ~AlreadyApplied(lines[i]) =>
              \E j \in DOMAIN Unapplied(lines) : Unapplied(lines)[j] = lines[i]
  <1> DEFINE kept == { i \in DOMAIN lines : ~AlreadyApplied(lines[i]) }
  <1>1. Len(lines) \in Nat /\ DOMAIN lines = 1..Len(lines) /\ \A i \in DOMAIN lines : lines[i] \in X
    OBVIOUS
  <1>2. kept \in SUBSET (1..Len(lines))
    BY <1>1
  <1>3. Unapplied(lines) = [n \in 1..Cardinality(kept) |-> lines[Nth(kept, n)]]
    BY DEF Unapplied
  <1>4. \A i \in kept : i \in DOMAIN lines
    OBVIOUS
  <1>5. \A i \in DOMAIN lines : ~AlreadyApplied(lines[i]) => i \in kept
    OBVIOUS
  <1> HIDE DEF kept
  <1>6. /\ \A n \in 1..Cardinality(kept) : Nth(kept, n) \in kept
        /\ \A i \in kept : \E n \in 1..Cardinality(kept) : Nth(kept, n) = i
    BY <1>1, <1>2, NthIs
  <1>7. Cardinality(kept) \in Nat
    BY <1>1, <1>2, UpToFinite
  <1>8. Unapplied(lines) \in Seq(X) /\ DOMAIN Unapplied(lines) = 1..Cardinality(kept)
    BY <1>1, <1>3, <1>4, <1>6, <1>7
  <1> QED
    BY <1>3, <1>4, <1>5, <1>6, <1>8

-------------------------------------------------------------------------------
(* What holds in every state. *)

RecordedBy(state) ==
    /\ \A i \in DOMAIN state.processed : \E e \in handled : e.id = state.processed[i]
    /\ \A t \in Tags : state.versions[t] > 0 =>
          \E e \in handled : e.version = state.versions[t] /\ Contains(e.tags, t)

\* The message in hand is the head of the queue until it is answered, and it is
\* marked and acknowledged only when the cache has seen it or need not.
ProcInv ==
    /\ proc.pc \in {"handle", "mark", "ack"} =>
          queue # <<>> /\ proc.event = Head(queue)
    /\ proc.pc \in {"handle", "mark", "ack", "replayMark"} => proc.event \in Inbox
    /\ proc.pc \in {"mark", "replayMark"} => proc.event \in applied
    /\ proc.pc = "ack" => proc.event \in applied \/ AlreadyApplied(proc.event)

\* What this run of the process has not applied was not handled after it was due.
HandledInv ==
    /\ applied \subseteq handled
    /\ handled \subseteq Inbox /\ due \subseteq Inbox /\ logged \subseteq Inbox
    /\ due \cap handled \subseteq applied

FilesInv ==
    /\ RecordedBy(mem)
    /\ RecordedBy(disk)
    /\ proc.pc # "down" => \A t \in Tags : disk.versions[t] <= mem.versions[t]

ReplayInv == proc.pc \in {"replay", "replayMark"} => ~IsTorn

Inv == TypeOK /\ ProcInv /\ HandledInv /\ FilesInv /\ ReplayInv

LEMMA InboxType ==
  ASSUME NEW e \in Inbox
  PROVE  /\ e.id \in EventIds /\ e.tags \in Seq(Tags) /\ e.keys \in Seq(Keys) /\ e.version \in Nat
         /\ e # None /\ e # Torn
  BY ConsumerAssumption DEF Event

\* Marking an event keeps the state well formed, and no version goes back.
LEMMA MarkedType ==
  ASSUME mem \in State, NEW e \in Inbox
  PROVE  /\ Marked(e) \in State
         /\ \A t \in Tags : mem.versions[t] <= Marked(e).versions[t]
  <1>1. CommitVersion(mem.versions, e) \in [Tags -> Nat]
    BY InboxType DEF CommitVersion, State
  <1>2. \A t \in Tags : mem.versions[t] <= CommitVersion(mem.versions, e)[t]
    BY InboxType DEF CommitVersion, State
  <1>3. Remember(mem.processed, e.id) \in Seq(EventIds)
    <2> DEFINE all == Append(mem.processed, e.id)
    <2>1. mem.processed \in Seq(EventIds) /\ all \in Seq(EventIds) /\ Len(all) \in Nat \ {0}
      BY InboxType DEF State
    <2>2. SubSeq(all, 1, Len(all)) \in Seq(EventIds) /\ SubSeq(all, 2, Len(all)) \in Seq(EventIds)
      BY <2>1
    <2> QED
      BY <2>1, <2>2 DEF Remember
  <1> QED
    BY <1>1, <1>2, <1>3 DEF Marked, State

\* And it records only what was handled, if the event was.
LEMMA MarkedRecorded ==
  ASSUME mem \in State, RecordedBy(mem), NEW e \in Inbox, e \in handled
  PROVE  RecordedBy(Marked(e))
  <1>1. ASSUME NEW i \in DOMAIN Remember(mem.processed, e.id)
        PROVE  \E f \in handled : f.id = Remember(mem.processed, e.id)[i]
    <2> DEFINE ids == mem.processed
               all == Append(ids, e.id)
    <2>1. ids \in Seq(EventIds) /\ e.id \in EventIds /\ Len(ids) \in Nat
      BY InboxType DEF State
    <2>2. \A j \in 1..Len(ids) : \E f \in handled : f.id = ids[j]
      BY <2>1 DEF RecordedBy
    <2>3. Len(all) = Len(ids) + 1 /\ \A j \in 1..Len(all) : IF j <= Len(ids) THEN all[j] = ids[j] ELSE all[j] = e.id
      BY <2>1
    <2>4. \A j \in 1..Len(all) : \E f \in handled : f.id = all[j]
      BY <2>1, <2>2, <2>3
    <2>5. Remember(ids, e.id) = ids \/ \E first \in {1, 2} : Remember(ids, e.id) = SubSeq(all, first, Len(all))
      BY DEF Remember
    <2>6. CASE Remember(ids, e.id) = ids
      BY <2>1, <2>2, <2>6
    <2>7. ASSUME NEW first \in {1, 2}, Remember(ids, e.id) = SubSeq(all, first, Len(all))
          PROVE  \E f \in handled : f.id = Remember(ids, e.id)[i]
      <3>1. all \in Seq(EventIds) /\ Len(all) \in Nat
        BY <2>1
      <3> HIDE DEF all
      <3>2. i \in 1..(Len(all) - first + 1) /\ SubSeq(all, first, Len(all))[i] = all[i + first - 1]
        BY <2>7, <3>1
      <3>3. i + first - 1 \in 1..Len(all)
        BY <3>1, <3>2
      <3> QED
        BY <2>4, <2>7, <3>2, <3>3
    <2> QED
      BY <2>5, <2>6, <2>7
  <1>2. ASSUME NEW t \in Tags, CommitVersion(mem.versions, e)[t] > 0
        PROVE  \E f \in handled : f.version = CommitVersion(mem.versions, e)[t] /\ Contains(f.tags, t)
    <2>1. CASE CommitVersion(mem.versions, e)[t] = mem.versions[t]
      BY <1>2, <2>1 DEF RecordedBy
    <2>2. CASE CommitVersion(mem.versions, e)[t] # mem.versions[t]
      <3>1. CommitVersion(mem.versions, e)[t] = e.version /\ \E i \in DOMAIN e.tags : e.tags[i] = t
        BY <2>2 DEF CommitVersion
      <3>2. Contains(e.tags, t)
        BY <3>1, InboxType DEF Contains
      <3> QED
        BY <3>1, <3>2
    <2> QED
      BY <2>1, <2>2
  <1> QED
    BY <1>1, <1>2 DEF RecordedBy, Marked

\* An event that is not applied again was handled, or needs no handling.
LEMMA RuledOut ==
  ASSUME TypeOK, HandledInv, FilesInv, NEW e \in Inbox, AlreadyApplied(e)
  PROVE  e \in handled \/ Outranked(e)
  <1>1. CASE \E i \in DOMAIN mem.processed : mem.processed[i] = e.id
    <2>1. PICK f \in handled : f.id = e.id
      BY <1>1 DEF FilesInv, RecordedBy
    <2> QED
      BY <2>1, ConsumerAssumption DEF HandledInv
  <1>2. CASE Superseded(mem.versions, e)
    <2>1. ASSUME NEW i \in DOMAIN e.tags
          PROVE  \E f \in handled : f.version >= e.version /\ Contains(f.tags, e.tags[i])
      <3>1. e.tags[i] \in Tags /\ e.version \in Nat /\ e.version > 0
        BY <1>2, InboxType DEF Superseded
      <3>2. e.version <= mem.versions[e.tags[i]] /\ mem.versions[e.tags[i]] \in Nat
        BY <1>2, <3>1 DEF Superseded, TypeOK, State
      <3>3. mem.versions[e.tags[i]] > 0
        BY <3>1, <3>2
      <3>4. PICK f \in handled : f.version = mem.versions[e.tags[i]] /\ Contains(f.tags, e.tags[i])
        BY <3>1, <3>3 DEF FilesInv, RecordedBy
      <3> QED
        BY <3>1, <3>2, <3>4
    <2> QED
      BY <1>2, <2>1 DEF Superseded, Outranked
  <1> QED
    BY <1>1, <1>2 DEF AlreadyApplied

-------------------------------------------------------------------------------
(* Every step keeps them. *)

USE DEF durable, history

LEMMA ProcType ==
  ASSUME TypeOK
  PROVE  /\ proc = Proc(proc.pc, proc.event, proc.todo)
         /\ proc.pc \in {"down", "load", "replay", "replayMark", "wait", "handle", "mark", "ack"}
         /\ proc.event \in Inbox \cup {None} /\ proc.todo \in Seq(Inbox)
  BY DEF TypeOK, Proc

LEMMA WrittenType ==
  ASSUME TypeOK, NEW line \in Inbox \cup {Torn}
  PROVE  Written(line) \in Seq(Inbox \cup {Torn})
  BY DEF Written, TypeOK

\* Writing keeps what is in the log, and adds the line unless the log is torn.
LEMMA WrittenKeeps ==
  ASSUME TypeOK, NEW line \in Inbox \cup {Torn}
  PROVE  /\ \A i \in DOMAIN log : \E j \in DOMAIN Written(line) : Written(line)[j] = log[i]
         /\ IsTorn \/ \E j \in DOMAIN Written(line) : Written(line)[j] = line
         /\ line = Torn => \E j \in DOMAIN Written(line) : Written(line)[j] = Torn
  <1>1. log \in Seq(Inbox \cup {Torn})
    BY DEF TypeOK
  <1>2. CASE log # <<>> /\ Last(log) = Torn
    <2>1. Len(log) \in DOMAIN log /\ log[Len(log)] = Torn
      BY <1>1, <1>2 DEF Last
    <2>2. Written(line) = log
      BY <1>2 DEF Written
    <2> QED
      BY <2>1, <2>2 DEF IsTorn
  <1>3. CASE ~(log # <<>> /\ Last(log) = Torn)
    <2>1. Written(line) = Append(log, line)
      BY <1>3 DEF Written
    <2>2. /\ Len(Append(log, line)) = Len(log) + 1
          /\ \A i \in 1..Len(log) : Append(log, line)[i] = log[i]
          /\ Append(log, line)[Len(log) + 1] = line
      BY <1>1
    <2>3. Append(log, line) \in Seq(Inbox \cup {Torn}) /\ Len(log) \in Nat
      BY <1>1
    <2>4. DOMAIN Append(log, line) = 1..(Len(log) + 1) /\ DOMAIN log = 1..Len(log)
      BY <1>1, <2>2, <2>3
    <2>5. \A i \in 1..Len(log) : i \in 1..(Len(log) + 1)
      BY <2>3
    <2>6. Len(log) + 1 \in 1..(Len(log) + 1)
      BY <2>3
    <2> QED
      BY <2>1, <2>2, <2>4, <2>5, <2>6
  <1> QED
    BY <1>2, <1>3

LEMMA UnappliedType ==
  ASSUME NEW X, NEW lines \in Seq(X)
  PROVE  Unapplied(lines) \in Seq(X)
  BY UnappliedKeeps

LEMMA SettleType ==
  ASSUME TypeOK, queue # <<>>, NEW dead \in SUBSET Inbox, Settle(dead)
  PROVE  queue' \in Seq(Inbox) /\ dlq' \in SUBSET Inbox /\ proc' = Waiting
  BY DEF TypeOK, Settle

Procs == [pc : {"down", "load", "replay", "replayMark", "wait", "handle", "mark", "ack"},
          event : Inbox \cup {None}, todo : Seq(Inbox)]

LEMMA IdleType == Down \in Procs /\ Waiting \in Procs
  BY DEF Down, Waiting, Proc, Procs

LEMMA InitType ==
  ASSUME Init
  PROVE  TypeOK
  <1>1. NoState \in State
    BY DEF NoState, State, NoVersions
  <1>2. mem \in State /\ disk \in State /\ proc \in Procs /\ bound \in BOOLEAN /\ conn \in BOOLEAN
    BY <1>1, IdleType DEF Init
  <1>3. appended \in 0..CompactEvery /\ log \in Seq(Inbox \cup {Torn}) /\ queue \in Seq(Inbox)
    BY ConsumerAssumption DEF Init
  <1>4. dlq \in SUBSET Inbox /\ publishing \in SUBSET Inbox /\ sends \in Nat /\ faults \in Nat
    BY DEF Init
  <1> QED
    BY <1>2, <1>3, <1>4 DEF TypeOK, Procs

LEMMA SendKeepsType ==
  ASSUME Inv, NEW e \in Inbox,
         Arrive(e) \/ AppendEvent(e) \/ AppendFails(e) \/ PublishOwn(e) \/ PublishOwnFails(e)
  PROVE  TypeOK'
  <1> USE DEF Inv, TypeOK, Fail
  <1>1. CASE Arrive(e)
    BY <1>1 DEF Arrive, Route
  <1>2. CASE AppendEvent(e)
    <2>1. Written(e) \in Seq(Inbox \cup {Torn})
      BY WrittenType
    <2>2. log' \in Seq(Inbox \cup {Torn})
      <3>1. Unapplied(Written(e)) \in Seq(Inbox \cup {Torn})
        BY <2>1, UnappliedType
      <3> QED
        BY <1>2, <2>1, <3>1 DEF AppendEvent
    <2>3. appended' \in 0..CompactEvery
      BY <1>2, ConsumerAssumption DEF AppendEvent
    <2> QED
      BY <1>2, <2>2, <2>3 DEF AppendEvent
  <1>3. CASE AppendFails(e)
    BY <1>3, WrittenType DEF AppendFails
  <1>4. CASE PublishOwn(e)
    BY <1>4 DEF PublishOwn, Route
  <1>5. CASE PublishOwnFails(e)
    BY <1>5 DEF PublishOwnFails
  <1> QED
    BY <1>1, <1>2, <1>3, <1>4, <1>5

LEMMA StartupKeepsType ==
  ASSUME Inv, Start \/ LoadEventLog \/ ReplaySkip \/ ReplayEvent \/ ReplayMark \/ Subscribed
  PROVE  TypeOK'
  <1> USE DEF Inv, TypeOK, Fail
  <1>0. 0 \in 0..CompactEvery
    BY ConsumerAssumption
  <1>1. CASE Start
    BY <1>1 DEF Start, Proc
  <1>2. CASE LoadEventLog
    <2>1. ~IsTorn => log \in Seq(Inbox)
      BY DEF IsTorn
    <2>2. ~IsTorn => Proc("replay", None, log) \in Procs
      BY <2>1 DEF Proc, Procs
    <2>3. proc' \in Procs
      BY <1>2, <2>2, IdleType DEF LoadEventLog
    <2> QED
      BY <1>2, <2>3 DEF LoadEventLog, Procs
  <1>3. CASE ReplaySkip
    <2>1. Tail(proc.todo) \in Seq(Inbox)
      BY <1>3, ProcType DEF ReplaySkip
    <2>2. proc' \in Procs
      BY <1>3, <2>1 DEF ReplaySkip, Procs
    <2> QED
      BY <1>3, <2>2 DEF ReplaySkip, Procs
  <1>4. CASE ReplayEvent
    <2>1. Tail(proc.todo) \in Seq(Inbox) /\ Head(proc.todo) \in Inbox
      BY <1>4, ProcType DEF ReplayEvent
    <2>2. proc' \in Procs
      BY <1>4, <2>1 DEF ReplayEvent, Procs, Proc
    <2> QED
      BY <1>4, <2>2 DEF ReplayEvent, Procs
  <1>5. CASE ReplayMark
    <2>1. Marked(proc.event) \in State
      BY <1>5, MarkedType DEF ReplayMark, ProcInv
    <2>2. proc' \in Procs
      BY <1>5, ProcType DEF ReplayMark, Procs, Proc
    <2> QED
      BY <1>5, <2>1, <2>2 DEF ReplayMark, Procs
  <1>6. CASE Subscribed
    <2>1. Unapplied(log) \in Seq(Inbox \cup {Torn})
      BY UnappliedType
    <2> QED
      BY <1>0, <1>6, <2>1, IdleType DEF Subscribed, Procs
  <1> QED
    BY <1>1, <1>2, <1>3, <1>4, <1>5, <1>6

LEMMA ConsumeKeepsType ==
  ASSUME Inv, OpenConsumer \/ Take \/ Handle \/ MarkProcessed \/ Ack \/ Fault
  PROVE  TypeOK'
  <1> USE DEF Inv, TypeOK, Fail
  <1>0. 0 \in 0..CompactEvery
    BY ConsumerAssumption
  <1>1. CASE OpenConsumer
    BY <1>1 DEF OpenConsumer
  <1>2. CASE Take
    <2>1. Head(queue) \in Inbox
      BY <1>2 DEF Take
    <2>2. proc' \in Procs
      BY <1>2, <2>1 DEF Take, Procs, Proc
    <2> QED
      BY <1>2, <2>2 DEF Take, Procs
  <1>3. CASE Handle
    <2>1. proc' \in Procs
      BY <1>3 DEF Handle, Procs
    <2> QED
      BY <1>3, <2>1 DEF Handle, Procs
  <1>4. CASE MarkProcessed
    <2>1. Marked(proc.event) \in State
      BY <1>4, MarkedType DEF MarkProcessed, ProcInv
    <2>2. proc' \in Procs
      BY <1>4 DEF MarkProcessed, Procs
    <2> QED
      BY <1>4, <2>1, <2>2 DEF MarkProcessed, Procs
  <1>5. CASE Ack
    <2>1. queue' \in Seq(Inbox) /\ dlq' \in SUBSET Inbox /\ proc' \in Procs
      BY <1>5, SettleType, IdleType DEF Ack, ProcInv
    <2> QED
      BY <1>5, <2>1 DEF Ack, Procs
  <1>6. CASE LoseConnection
    <2>1. conn' \in BOOLEAN
      BY <1>6 DEF LoseConnection
    <2>3. faults' \in Nat
      BY <1>6 DEF LoseConnection
    <2>2. UNCHANGED <<mem, disk, log, appended, queue, bound, dlq, proc, publishing, sends>>
      BY <1>6 DEF LoseConnection
    <2> QED
      BY <2>1, <2>2, <2>3
  <1>7. CASE HandlerFails
    <2>1. queue' \in Seq(Inbox) /\ dlq' \in SUBSET Inbox /\ proc' \in Procs
      BY <1>7, SettleType, IdleType DEF HandlerFails, ProcInv
    <2> QED
      BY <1>7, <2>1 DEF HandlerFails, Procs
  <1>8. CASE PersistFails
    <2>1. queue' \in Seq(Inbox) /\ dlq' \in SUBSET Inbox /\ proc' \in Procs
      BY <1>8, SettleType, IdleType DEF PersistFails, ProcInv
    <2>2. Marked(proc.event) \in State
      BY <1>8, MarkedType DEF PersistFails, ProcInv
    <2> QED
      BY <1>8, <2>1, <2>2 DEF PersistFails, Procs
  <1>9. CASE Crash
    <2>1. NoState \in State
      BY DEF NoState, State, NoVersions
    <2>2. conn' \in BOOLEAN /\ proc' \in Procs /\ mem' \in State
      BY <1>9, <2>1, IdleType DEF Crash
    <2>3. /\ appended' = 0 /\ publishing' = {} /\ faults' \in Nat
          /\ UNCHANGED <<disk, log, queue, bound, dlq, sends>>
      BY <1>9 DEF Crash
    <2> QED
      BY <1>0, <2>2, <2>3 DEF Procs
  <1> QED
    BY <1>1, <1>2, <1>3, <1>4, <1>5, <1>6, <1>7, <1>8, <1>9 DEF Fault

\* Which files and messages a step leaves alone.
LEMMA ProcFrame ==
  ASSUME ProcInv, UNCHANGED <<proc, mem, applied>>,
         queue # <<>> => queue' # <<>> /\ Head(queue') = Head(queue)
  PROVE  ProcInv'
  BY DEF ProcInv, AlreadyApplied

LEMMA StepKeepsProc ==
  ASSUME Inv, Next
  PROVE  ProcInv'
  <1> USE DEF Inv
  <1>1. ASSUME NEW e \in Inbox, Arrive(e) \/ PublishOwn(e) PROVE ProcInv'
    <2>1. queue \in Seq(Inbox) /\ UNCHANGED <<proc, mem, applied>>
      BY <1>1 DEF Arrive, PublishOwn, TypeOK
    <2>2. queue' = queue \/ queue' = Append(queue, e)
      BY <1>1 DEF Arrive, PublishOwn, Route
    <2>3. queue # <<>> => Append(queue, e) # <<>> /\ Head(Append(queue, e)) = Head(queue)
      BY <2>1
    <2> QED
      BY <2>1, <2>2, <2>3, ProcFrame
  <1>2. ASSUME NEW e \in Inbox, AppendEvent(e) \/ AppendFails(e) \/ PublishOwnFails(e) PROVE ProcInv'
    BY <1>2, ProcFrame DEF AppendEvent, AppendFails, PublishOwnFails
  <1>3. CASE OpenConsumer \/ LoseConnection
    BY <1>3, ProcFrame DEF OpenConsumer, LoseConnection
  <1>4. CASE Start \/ LoadEventLog \/ ReplaySkip \/ ReplayMark \/ Subscribed
    <2>1. proc'.pc \in {"load", "down", "replay", "wait"}
      BY <1>4 DEF Start, LoadEventLog, ReplaySkip, ReplayMark, Subscribed, Waiting, Down, Proc, TypeOK
    <2> QED
      BY <2>1 DEF ProcInv
  <1>5. CASE Ack \/ HandlerFails \/ PersistFails \/ Crash
    <2>1. proc'.pc \in {"down", "wait"}
      BY <1>5 DEF Ack, HandlerFails, PersistFails, Crash, Settle, Waiting, Down, Proc
    <2> QED
      BY <2>1 DEF ProcInv
  <1>6. CASE ReplayEvent
    <2>1. Head(proc.todo) \in Inbox
      BY <1>6, ProcType DEF ReplayEvent
    <2> QED
      BY <1>6, <2>1 DEF ReplayEvent, Proc, ProcInv
  <1>7. CASE Take
    <2>1. Head(queue) \in Inbox
      BY <1>7 DEF Take, TypeOK
    <2>2. AlreadyApplied(Head(queue)) = AlreadyApplied(Head(queue))'
      BY <1>7 DEF Take, AlreadyApplied
    <2>3. /\ proc' = Proc(IF AlreadyApplied(Head(queue)) THEN "ack" ELSE "handle", Head(queue), <<>>)
          /\ queue # <<>> /\ UNCHANGED <<mem, queue, applied>>
      BY <1>7 DEF Take
    <2> QED
      BY <2>1, <2>2, <2>3 DEF Proc, ProcInv, AlreadyApplied
  <1>8. CASE Handle
    BY <1>8, ProcType DEF Handle, ProcInv, TypeOK
  <1>9. CASE MarkProcessed
    BY <1>9, ProcType DEF MarkProcessed, ProcInv, TypeOK
  <1> QED
    BY <1>1, <1>2, <1>3, <1>4, <1>5, <1>6, <1>7, <1>8, <1>9 DEF Next, Run, Fault

LEMMA StepKeepsHandled ==
  ASSUME Inv, Next
  PROVE  HandledInv' /\ handled \subseteq handled'
  <1> USE DEF Inv, HandledInv
  <1>1. ASSUME NEW e \in Inbox, Arrive(e) \/ PublishOwn(e) PROVE HandledInv' /\ handled \subseteq handled'
    BY <1>1 DEF Arrive, PublishOwn, Route
  <1>2. ASSUME NEW e \in Inbox, AppendEvent(e) PROVE HandledInv' /\ handled \subseteq handled'
    BY <1>2 DEF AppendEvent
  <1>3. ASSUME NEW e \in Inbox, AppendFails(e) \/ PublishOwnFails(e)
        PROVE  HandledInv' /\ handled \subseteq handled'
    BY <1>3 DEF AppendFails, PublishOwnFails
  <1>4. CASE \/ Start \/ LoadEventLog \/ ReplaySkip \/ ReplayMark \/ Subscribed
             \/ OpenConsumer \/ Take \/ MarkProcessed \/ Ack
             \/ LoseConnection \/ HandlerFails \/ PersistFails
    <2>1. UNCHANGED history
      BY <1>4 DEF Start, LoadEventLog, ReplaySkip, ReplayMark, Subscribed, OpenConsumer, Take,
                  MarkProcessed, Ack, LoseConnection, HandlerFails, PersistFails
    <2> QED
      BY <2>1
  <1>5. CASE ReplayEvent
    <2>1. Head(proc.todo) \in Inbox
      BY <1>5, ProcType DEF ReplayEvent
    <2> QED
      BY <1>5, <2>1 DEF ReplayEvent
  <1>6. CASE Handle
    <2>1. proc.event \in Inbox
      BY <1>6 DEF Handle, ProcInv
    <2> QED
      BY <1>6, <2>1 DEF Handle
  <1>7. CASE Crash
    BY <1>7 DEF Crash
  <1> QED
    BY <1>1, <1>2, <1>3, <1>4, <1>5, <1>6, <1>7 DEF Next, Run, Fault

\* What was recorded stays recorded.
LEMMA FilesFrame ==
  ASSUME FilesInv, UNCHANGED <<mem, disk>>, handled \subseteq handled',
         proc'.pc # "down" => proc.pc # "down"
  PROVE  FilesInv'
  BY DEF FilesInv, RecordedBy

LEMMA StepKeepsFiles ==
  ASSUME Inv, Next
  PROVE  FilesInv'
  <1> USE DEF Inv
  <1>0. handled \subseteq handled'
    BY StepKeepsHandled
  <1>1. ASSUME NEW e \in Inbox,
               Arrive(e) \/ AppendEvent(e) \/ AppendFails(e) \/ PublishOwn(e) \/ PublishOwnFails(e)
        PROVE  FilesInv'
    <2>1. UNCHANGED <<mem, disk, proc>>
      BY <1>1 DEF Arrive, AppendEvent, AppendFails, PublishOwn, PublishOwnFails
    <2> QED
      BY <1>0, <2>1, FilesFrame
  <1>2. CASE \/ LoadEventLog \/ ReplaySkip \/ ReplayEvent \/ Subscribed \/ OpenConsumer
             \/ Take \/ Handle \/ Ack \/ LoseConnection \/ HandlerFails
    <2>1. UNCHANGED <<mem, disk>>
      BY <1>2 DEF LoadEventLog, ReplaySkip, ReplayEvent, Subscribed, OpenConsumer,
                  Take, Handle, Ack, LoseConnection, HandlerFails
    <2>2. proc.pc # "down" \/ proc' = proc
      BY <1>2 DEF LoadEventLog, ReplaySkip, ReplayEvent, Subscribed, OpenConsumer,
                  Take, Handle, Ack, LoseConnection, HandlerFails
    <2> QED
      BY <1>0, <2>1, <2>2, FilesFrame
  <1>3. CASE Start
    <2>1. mem' = disk /\ disk' = disk /\ handled' = handled
      BY <1>3 DEF Start
    <2>2. \A t \in Tags : disk.versions[t] <= disk.versions[t]
      BY DEF TypeOK, State
    <2> QED
      BY <2>1, <2>2 DEF FilesInv, RecordedBy
  <1>4. CASE ReplayMark \/ MarkProcessed
    <2>1. proc.event \in Inbox /\ proc.event \in handled
      BY <1>4 DEF ReplayMark, MarkProcessed, ProcInv, HandledInv
    <2>2. mem' = Marked(proc.event) /\ disk' = Marked(proc.event) /\ handled' = handled
      BY <1>4 DEF ReplayMark, MarkProcessed
    <2>3. RecordedBy(Marked(proc.event)) /\ Marked(proc.event) \in State
      BY <2>1, MarkedRecorded, MarkedType DEF FilesInv, TypeOK
    <2>4. RecordedBy(mem)' /\ RecordedBy(disk)'
      BY <2>2, <2>3 DEF RecordedBy
    <2>5. \A t \in Tags : disk'.versions[t] <= mem'.versions[t]
      BY <2>2, <2>3 DEF State
    <2> QED
      BY <2>4, <2>5 DEF FilesInv
  <1>5. CASE PersistFails
    <2>1. proc.event \in Inbox /\ proc.event \in handled
      BY <1>5 DEF PersistFails, ProcInv, HandledInv
    <2>2. mem' = Marked(proc.event) /\ disk' = disk /\ handled' = handled /\ proc.pc = "mark"
      BY <1>5 DEF PersistFails
    <2>3. /\ RecordedBy(Marked(proc.event)) /\ Marked(proc.event) \in State
          /\ \A t \in Tags : mem.versions[t] <= Marked(proc.event).versions[t]
      BY <2>1, MarkedRecorded, MarkedType DEF FilesInv, TypeOK
    <2>4. RecordedBy(mem)' /\ RecordedBy(disk)'
      BY <2>2, <2>3 DEF RecordedBy, FilesInv
    <2>5. mem \in State /\ disk \in State /\ \A t \in Tags : disk.versions[t] <= mem.versions[t]
      BY <2>2 DEF FilesInv, TypeOK
    <2>6. ASSUME NEW t \in Tags PROVE disk'.versions[t] <= mem'.versions[t]
      <3>1. disk.versions[t] \in Nat /\ mem.versions[t] \in Nat /\ Marked(proc.event).versions[t] \in Nat
        BY <2>3, <2>5 DEF State
      <3> QED
        BY <2>2, <2>3, <2>5, <3>1
    <2> QED
      BY <2>4, <2>6 DEF FilesInv
  <1>6. CASE Crash
    <2>1. mem' = NoState /\ disk' = disk /\ handled' = handled /\ proc'.pc = "down"
      BY <1>6 DEF Crash, Down, Proc
    <2> QED
      BY <2>1 DEF FilesInv, RecordedBy, NoState, NoVersions
  <1> QED
    BY <1>1, <1>2, <1>3, <1>4, <1>5, <1>6 DEF Next, Run, Fault

LEMMA StepKeepsReplay ==
  ASSUME Inv, Next
  PROVE  ReplayInv'
  <1> USE DEF Inv, ReplayInv
  <1>1. ASSUME NEW e \in Inbox, AppendEvent(e) \/ AppendFails(e) PROVE ReplayInv'
    BY <1>1 DEF AppendEvent, AppendFails, Serving
  <1>2. ASSUME NEW e \in Inbox, Arrive(e) \/ PublishOwn(e) \/ PublishOwnFails(e) PROVE ReplayInv'
    BY <1>2 DEF Arrive, PublishOwn, PublishOwnFails, IsTorn
  <1>3. CASE \/ Start \/ Subscribed \/ Take \/ Handle \/ MarkProcessed \/ Ack
             \/ HandlerFails \/ PersistFails \/ Crash
    <2>1. proc'.pc \notin {"replay", "replayMark"}
      BY <1>3 DEF Start, Subscribed, Take, Handle, MarkProcessed, Ack, HandlerFails, PersistFails,
                  Crash, Settle, Waiting, Down, Proc, TypeOK
    <2> QED
      BY <2>1
  <1>4. CASE OpenConsumer \/ LoseConnection \/ ReplaySkip \/ ReplayEvent \/ ReplayMark
    <2>1. log' = log /\ (proc' = proc \/ proc.pc \in {"replay", "replayMark"})
      BY <1>4 DEF OpenConsumer, LoseConnection, ReplaySkip, ReplayEvent, ReplayMark
    <2> QED
      BY <2>1 DEF IsTorn
  <1>5. CASE LoadEventLog
    <2>1. log' = log /\ (IsTorn => proc' = Down)
      BY <1>5 DEF LoadEventLog
    <2> QED
      BY <2>1 DEF IsTorn, Down, Proc
  <1> QED
    BY <1>1, <1>2, <1>3, <1>4, <1>5 DEF Next, Run, Fault

LEMMA InitInv ==
  ASSUME Init
  PROVE  Inv
  <1>1. TypeOK
    BY InitType
  <1>2. ProcInv /\ ReplayInv /\ HandledInv
    BY DEF Init, ProcInv, ReplayInv, HandledInv, Down, Proc
  <1>3. FilesInv
    BY DEF Init, FilesInv, RecordedBy, NoState, NoVersions, Down, Proc
  <1> QED
    BY <1>1, <1>2, <1>3 DEF Inv

LEMMA StepKeepsInv ==
  ASSUME Inv, [Next]_vars
  PROVE  Inv'
  <1>1. CASE Next
    <2>1. TypeOK'
      BY <1>1, SendKeepsType, StartupKeepsType, ConsumeKeepsType DEF Next, Run
    <2> QED
      BY <1>1, <2>1, StepKeepsProc, StepKeepsHandled, StepKeepsFiles, StepKeepsReplay DEF Inv
  <1>2. CASE UNCHANGED vars
    BY <1>2 DEF vars, Inv, TypeOK, ProcInv, HandledInv, FilesInv, ReplayInv, RecordedBy,
                AlreadyApplied, IsTorn
  <1> QED
    BY <1>1, <1>2

LEMMA AlwaysInv == Spec => []Inv
  <1>1. Init => Inv
    BY InitInv
  <1>2. Inv /\ [Next]_vars => Inv'
    BY StepKeepsInv
  <1> QED
    BY <1>1, <1>2, PTL DEF Spec

-------------------------------------------------------------------------------
(* What the replica promises. *)

\* The state of the replica is well formed, whatever fails (RabbitBroker).
THEOREM TypeCorrect == Spec => []TypeOK
  <1>1. Inv => TypeOK
    BY DEF Inv
  <1> QED
    BY <1>1, AlwaysInv, PTL

\* The state file names only events and versions that the replica has handled
\* (markProcessedLocked, persistStateLocked).
THEOREM RecordedIsHandled == Spec => []RecordedMeansHandled
  <1>1. Inv => RecordedMeansHandled
    BY DEF Inv, FilesInv, RecordedBy, RecordedMeansHandled
  <1> QED
    BY <1>1, AlwaysInv, PTL

\* The versions in the state file never go back, over crashes and restarts too
\* (loadState, commitVersion, persistStateLocked).
THEOREM VersionsNeverShrink == Spec => VersionsSurvive
  <1>1. ASSUME Inv, [Next]_vars
        PROVE  [\A t \in Tags : disk.versions[t] <= disk'.versions[t]]_vars
    <2>1. CASE ReplayMark \/ MarkProcessed
      <3>1. proc.event \in Inbox /\ proc.pc # "down" /\ disk' = Marked(proc.event)
        BY <1>1, <2>1 DEF ReplayMark, MarkProcessed, Inv, ProcInv
      <3>2. /\ Marked(proc.event) \in State /\ mem \in State /\ disk \in State
            /\ \A t \in Tags : mem.versions[t] <= Marked(proc.event).versions[t]
            /\ \A t \in Tags : disk.versions[t] <= mem.versions[t]
        BY <1>1, <3>1, MarkedType DEF Inv, FilesInv, TypeOK
      <3>3. ASSUME NEW t \in Tags PROVE disk.versions[t] <= disk'.versions[t]
        <4>1. disk.versions[t] \in Nat /\ mem.versions[t] \in Nat /\ Marked(proc.event).versions[t] \in Nat
          BY <3>2 DEF State
        <4> QED
          BY <3>1, <3>2, <4>1
      <3> QED
        BY <3>3
    <2>2. CASE ~(ReplayMark \/ MarkProcessed)
      <3>1. disk' = disk
        BY <1>1, <2>2 DEF Next, Run, Fault, Arrive, AppendEvent, AppendFails, PublishOwn,
           PublishOwnFails, Start, LoadEventLog, ReplaySkip, ReplayEvent, Subscribed, OpenConsumer,
           Take, Handle, Ack, LoseConnection, HandlerFails, PersistFails, Crash, vars
      <3>2. \A t \in Tags : disk.versions[t] <= disk.versions[t]
        BY <1>1 DEF Inv, TypeOK, State
      <3> QED
        BY <3>1, <3>2
    <2> QED
      BY <2>1, <2>2
  <1> QED
    BY <1>1, AlwaysInv, PTL DEF Spec, VersionsSurvive

\* An event that has reached the replica keeps its place.
LEMMA ReachGrows ==
  ASSUME applied \subseteq applied', dlq \subseteq dlq', handled \subseteq handled',
         NEW e \in Inbox, Contains(queue, e) => Contains(queue', e), Reaches(e)
  PROVE  Reaches(e)'
  <1>1. Outranked(e) => Outranked(e)'
    BY DEF Outranked
  <1> QED
    BY <1>1 DEF Reaches

\* Answering a message takes nothing out of the queue but that message.
LEMMA SettleKeepsOthers ==
  ASSUME TypeOK, queue # <<>>, NEW dead \in SUBSET Inbox, Settle(dead), NEW e \in Inbox, Contains(queue, e)
  PROVE  Contains(queue', e) \/ (conn /\ e = Head(queue))
  <1>1. queue \in Seq(Inbox) /\ Len(queue) \in Nat
    BY DEF TypeOK
  <1>2. PICK i \in 1..Len(queue) : queue[i] = e
    BY DEF Contains
  <1>3. CASE ~conn
    BY <1>3 DEF Settle
  <1>4. CASE conn
    <2>1. queue' = Tail(queue)
      BY <1>4 DEF Settle
    <2>2. CASE i = 1
      BY <1>1, <1>2, <1>4, <2>2
    <2>3. CASE i # 1
      <3>1. Len(Tail(queue)) = Len(queue) - 1 /\ i - 1 \in 1..(Len(queue) - 1)
        BY <1>1, <1>2, <2>3
      <3>2. Tail(queue)[i - 1] = queue[i]
        BY <1>1, <1>2, <3>1
      <3> QED
        BY <1>2, <2>1, <3>1, <3>2 DEF Contains
    <2> QED
      BY <2>2, <2>3
  <1> QED
    BY <1>3, <1>4

\* The exchange's side: a routed event is either in the queue or counted missed.
LEMMA RouteReaches ==
  ASSUME Inv, QueuedPurgeArrives, NEW e \in Inbox, Route(e), UNCHANGED <<bound, dlq, applied, handled>>
  PROVE  QueuedPurgeArrives'
  <1> USE DEF Inv
  <1>1. SUFFICES ASSUME NEW f \in due', f \notin missed'
                 PROVE  Reaches(f)'
    BY DEF QueuedPurgeArrives
  <1>2. f \in Inbox
    BY DEF Route, HandledInv
  <1>3. queue \in Seq(Inbox) /\ Len(queue) \in Nat
    BY DEF TypeOK
  <1>4. Contains(queue, f) => Contains(queue', f)
    <2>1. ASSUME Contains(queue, f) PROVE Contains(Append(queue, e), f)
      <3>1. PICK i \in 1..Len(queue) : queue[i] = f
        BY <2>1 DEF Contains
      <3>2. i \in 1..(Len(queue) + 1) /\ Len(Append(queue, e)) = Len(queue) + 1 /\ Append(queue, e)[i] = f
        BY <1>3, <3>1
      <3> QED
        BY <3>2 DEF Contains
    <2> QED
      BY <2>1 DEF Route
  <1>5. CASE f \in due /\ f \notin missed
    BY <1>2, <1>4, <1>5, ReachGrows DEF QueuedPurgeArrives
  <1>6. CASE ~(f \in due /\ f \notin missed)
    <2>1. f = e /\ bound
      BY <1>1, <1>6 DEF Route
    <2>2. Len(queue) + 1 \in 1..Len(Append(queue, e)) /\ Append(queue, e)[Len(queue) + 1] = e
      BY <1>3
    <2>3. Contains(queue', f)
      BY <2>1, <2>2 DEF Contains, Route
    <2> QED
      BY <2>3 DEF Reaches
  <1> QED
    BY <1>5, <1>6

LEMMA StepKeepsQueued ==
  ASSUME Inv, QueuedPurgeArrives, [Next]_vars
  PROVE  QueuedPurgeArrives'
  <1> USE DEF Inv
  <1>1. ASSUME NEW e \in Inbox, Arrive(e) \/ PublishOwn(e) PROVE QueuedPurgeArrives'
    BY <1>1, RouteReaches DEF Arrive, PublishOwn
  <1>2. CASE \/ \E e \in Inbox : AppendEvent(e) \/ AppendFails(e) \/ PublishOwnFails(e)
             \/ Start \/ LoadEventLog \/ ReplaySkip \/ ReplayEvent \/ ReplayMark \/ Subscribed
             \/ OpenConsumer \/ Take \/ Handle \/ MarkProcessed \/ LoseConnection
             \/ UNCHANGED vars
    <2>1. /\ UNCHANGED <<queue, due, missed, dlq>>
          /\ applied \subseteq applied' /\ handled \subseteq handled'
      BY <1>2 DEF AppendEvent, AppendFails, PublishOwnFails, Start, LoadEventLog, ReplaySkip,
                  ReplayEvent, ReplayMark, Subscribed, OpenConsumer, Take, Handle, MarkProcessed,
                  LoseConnection, vars
    <2> QED
      BY <2>1, ReachGrows DEF QueuedPurgeArrives, HandledInv
  <1>3. CASE Ack \/ HandlerFails \/ PersistFails
    <2>1. queue # <<>> /\ proc.event = Head(queue) /\ proc.event \in Inbox
      BY <1>3 DEF Ack, HandlerFails, PersistFails, ProcInv
    <2>2. UNCHANGED history /\ \E dead \in SUBSET Inbox : Settle(dead) /\ (Ack \/ proc.event \in dead)
      BY <1>3, <2>1 DEF Ack, HandlerFails, PersistFails
    <2>3. PICK dead \in SUBSET Inbox : Settle(dead) /\ (Ack \/ proc.event \in dead)
      BY <2>2
    <2>4. dlq \subseteq dlq' /\ (conn => dead \subseteq dlq')
      BY <2>3 DEF Settle
    <2>5. ASSUME NEW f \in due, f \notin missed PROVE Reaches(f)'
      <3>0. f \in Inbox /\ Reaches(f)
        BY <2>5 DEF HandledInv, QueuedPurgeArrives
      <3>1. CASE Contains(queue, f) => Contains(queue', f)
        BY <2>2, <2>4, <3>0, <3>1, ReachGrows
      <3>2. CASE ~(Contains(queue, f) => Contains(queue', f))
        <4>1. conn /\ f = proc.event
          BY <2>1, <2>3, <3>0, <3>2, SettleKeepsOthers
        <4>2. CASE proc.event \in dead
          BY <2>4, <4>1, <4>2 DEF Reaches
        <4>3. CASE Ack
          <5>1. f \in applied \/ f \in handled \/ Outranked(f)
            BY <3>0, <4>1, <4>3, RuledOut DEF Ack, ProcInv
          <5>2. f \in applied \/ Outranked(f)
            BY <2>5, <5>1 DEF HandledInv
          <5> QED
            BY <2>2, <5>2 DEF Reaches, Outranked
        <4> QED
          BY <2>3, <4>2, <4>3
      <3> QED
        BY <3>1, <3>2
    <2> QED
      BY <2>2, <2>5 DEF QueuedPurgeArrives
  <1>4. CASE Crash
    BY <1>4 DEF Crash, QueuedPurgeArrives
  <1> QED
    BY <1>1, <1>2, <1>3, <1>4 DEF Next, Run, Fault

\* An event the exchange had while the replica was serving, after its queue was
\* bound, is handled, ruled out, dead-lettered or still queued: no order of
\* messages, failures and crashes loses it (consumeUntilClosed).
THEOREM QueuedPurgesArrive == Spec => []QueuedPurgeArrives
  <1>1. Init => QueuedPurgeArrives
    BY DEF Init, QueuedPurgeArrives
  <1>2. Inv /\ QueuedPurgeArrives /\ [Next]_vars => QueuedPurgeArrives'
    BY StepKeepsQueued
  <1> QED
    BY <1>1, <1>2, AlwaysInv, PTL DEF Spec

Logged(e) == IsTorn \/ Contains(log, e) \/ e \in handled \/ Outranked(e)

LEMMA LoggedGrows ==
  ASSUME handled \subseteq handled', NEW e \in Inbox,
         IsTorn => IsTorn', Contains(log, e) => IsTorn' \/ Contains(log', e), Logged(e)
  PROVE  Logged(e)'
  <1>1. Outranked(e) => Outranked(e)'
    BY DEF Outranked
  <1> QED
    BY <1>1 DEF Logged

\* What compaction leaves out was handled, or ruled out.
LEMMA CompactionKeeps ==
  ASSUME Inv, NEW lines \in Seq(Inbox \cup {Torn}), NEW e \in Inbox, Contains(lines, e),
         log' = Unapplied(lines), handled' = handled
  PROVE  Logged(e)'
  <1> USE DEF Inv
  <1>1. CASE AlreadyApplied(e)
    <2>1. e \in handled \/ Outranked(e)
      BY <1>1, RuledOut
    <2> QED
      BY <2>1 DEF Logged, Outranked
  <1>2. CASE ~AlreadyApplied(e)
    <2>1. PICK i \in 1..Len(lines) : lines[i] = e
      BY DEF Contains
    <2>2. Unapplied(lines) \in Seq(Inbox \cup {Torn}) /\ \E j \in DOMAIN Unapplied(lines) : Unapplied(lines)[j] = e
      BY <1>2, <2>1, UnappliedKeeps
    <2>3. DOMAIN Unapplied(lines) = 1..Len(Unapplied(lines))
      BY <2>2
    <2>4. Contains(log', e)
      BY <2>2, <2>3 DEF Contains
    <2> QED
      BY <2>4 DEF Logged
  <1> QED
    BY <1>1, <1>2

LEMMA WrittenContains ==
  ASSUME TypeOK, NEW line \in Inbox \cup {Torn}
  PROVE  /\ Written(line) \in Seq(Inbox \cup {Torn})
         /\ \A e : Contains(log, e) => Contains(Written(line), e)
         /\ IsTorn \/ Contains(Written(line), line)
         /\ line = Torn => Contains(Written(line), Torn)
  <1>1. Written(line) \in Seq(Inbox \cup {Torn}) /\ log \in Seq(Inbox \cup {Torn})
    BY WrittenType DEF TypeOK
  <1>2. DOMAIN Written(line) = 1..Len(Written(line)) /\ DOMAIN log = 1..Len(log)
    BY <1>1
  <1> QED
    BY <1>1, <1>2, WrittenKeeps DEF Contains

LEMMA StepKeepsLogged ==
  ASSUME Inv, LogKeepsUnapplied, [Next]_vars
  PROVE  LogKeepsUnapplied'
  <1> USE DEF Inv
  <1>0. /\ \A e \in logged : Logged(e) /\ e \in Inbox
        /\ LogKeepsUnapplied' <=> \A e \in logged' : Logged(e)'
    BY DEF LogKeepsUnapplied, Logged, HandledInv
  <1>1. ASSUME NEW e \in Inbox, AppendEvent(e) PROVE LogKeepsUnapplied'
    <2>1. handled' = handled /\ logged' = logged \cup {e}
      BY <1>1 DEF AppendEvent
    <2>2. /\ Written(e) \in Seq(Inbox \cup {Torn})
          /\ \A f : Contains(log, f) => Contains(Written(e), f)
          /\ IsTorn \/ Contains(Written(e), e)
      BY WrittenContains
    <2>3. CASE log' = Unapplied(Written(e)) /\ ~IsTorn
      <3>1. ASSUME NEW f \in logged' PROVE Logged(f)'
        <4>1. CASE Contains(Written(e), f)
          BY <1>0, <2>1, <2>2, <2>3, <4>1, CompactionKeeps
        <4>2. CASE ~Contains(Written(e), f)
          <5>1. f \in handled \/ Outranked(f)
            BY <1>0, <2>1, <2>2, <2>3, <4>2 DEF Logged
          <5> QED
            BY <2>1, <5>1 DEF Logged, Outranked
        <4> QED
          BY <4>1, <4>2
      <3> QED
        BY <1>0, <3>1
    <2>4. CASE log' = Written(e)
      <3>1. \A f : Contains(log, f) => Contains(log', f)
        BY <2>2, <2>4
      <3>2. IsTorn => IsTorn'
        BY <2>4, WrittenKeeps DEF IsTorn
      <3>3. ASSUME NEW f \in logged' PROVE Logged(f)'
        <4>1. CASE f \in logged
          BY <1>0, <2>1, <3>1, <3>2, <4>1, LoggedGrows
        <4>2. CASE f = e
          BY <2>2, <2>4, <3>2, <4>2 DEF Logged
        <4> QED
          BY <2>1, <4>1, <4>2
      <3> QED
        BY <1>0, <3>3
    <2> QED
      BY <1>1, <2>3, <2>4 DEF AppendEvent
  <1>2. ASSUME NEW e \in Inbox, AppendFails(e) PROVE LogKeepsUnapplied'
    <2>1. log' = Written(Torn)
      BY <1>2 DEF AppendFails
    <2>2. IsTorn'
      BY <2>1, WrittenKeeps DEF IsTorn
    <2> QED
      BY <1>0, <2>2 DEF Logged
  <1>3. CASE \/ \E e \in Inbox : Arrive(e) \/ PublishOwn(e) \/ PublishOwnFails(e)
             \/ Start \/ LoadEventLog \/ ReplaySkip \/ ReplayEvent \/ ReplayMark
             \/ OpenConsumer \/ Take \/ Handle \/ MarkProcessed \/ Ack \/ Fault
             \/ UNCHANGED vars
    <2>1. log' = log /\ logged' = logged /\ handled \subseteq handled'
      BY <1>3 DEF Arrive, PublishOwn, PublishOwnFails, Start, LoadEventLog, ReplaySkip, ReplayEvent,
                  ReplayMark, OpenConsumer, Take, Handle, MarkProcessed, Ack, Fault, LoseConnection,
                  HandlerFails, PersistFails, Crash, vars
    <2>2. (IsTorn => IsTorn') /\ \A e : Contains(log, e) => Contains(log', e)
      BY <2>1 DEF IsTorn
    <2> QED
      BY <1>0, <2>1, <2>2, LoggedGrows
  <1>4. CASE Subscribed
    <2>1. handled' = handled /\ logged' = logged /\ ~IsTorn
      BY <1>4 DEF Subscribed, ReplayInv
    <2>2. CASE log' = log
      <3>1. (IsTorn => IsTorn') /\ \A e : Contains(log, e) => Contains(log', e)
        BY <2>2 DEF IsTorn
      <3> QED
        BY <1>0, <2>1, <3>1, LoggedGrows
    <2>3. CASE log' = Unapplied(log)
      <3>1. ASSUME NEW f \in logged PROVE Logged(f)'
        <4>1. CASE Contains(log, f)
          BY <1>0, <2>1, <2>3, <4>1, CompactionKeeps DEF TypeOK
        <4>2. CASE f \in handled \/ Outranked(f)
          BY <2>1, <4>2 DEF Logged, Outranked
        <4> QED
          BY <1>0, <2>1, <4>1, <4>2 DEF Logged
      <3> QED
        BY <1>0, <2>1, <3>1
    <2> QED
      BY <1>4, <2>2, <2>3 DEF Subscribed
  <1> QED
    BY <1>1, <1>2, <1>3, <1>4 DEF Next, Run

\* What the replica's own admin API published stays in its log until it was
\* handled or ruled out, over compactions and crashes, as long as every line of
\* the log decodes (appendEventLocked, compactEventLogLocked).
THEOREM LogKeepsWhatIsUnapplied == Spec => []LogKeepsUnapplied
  <1>1. Init => LogKeepsUnapplied
    BY DEF Init, LogKeepsUnapplied
  <1>2. Inv /\ LogKeepsUnapplied /\ [Next]_vars => LogKeepsUnapplied'
    BY StepKeepsLogged
  <1> QED
    BY <1>1, <1>2, AlwaysInv, PTL DEF Spec
===============================================================================
