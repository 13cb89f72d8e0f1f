---------------------------- MODULE PrefetchProofs ----------------------------
(***************************************************************************)
(* Proofs about prefetching: the queue keeps one holder per reserved key,   *)
(* whatever the proxy around it does, and the proxy claims no PREFETCH hit  *)
(* without a load and keeps its pauses.                                     *)
(***************************************************************************)
EXTENDS Prefetch, TLAPS, FiniteSetTheorems

USE DEF At, Idle

-------------------------------------------------------------------------------
(* The queue alone. *)

\* A process is concerned with one key, or with none when it waits.
OneKeyEach ==
    /\ \A c \in Callers : IF caller[c].pc = "idle" THEN caller[c].keys = {}
                          ELSE \E k \in Keys : caller[c].keys = {k}
    /\ \A w \in Workers : IF worker[w].pc = "load" THEN \E k \in Keys : worker[w].keys = {k}
                          ELSE worker[w].keys = {}

\* The ways in which key k has one holder.
HeldByCaller(k) == \E c \in Callers : CallersOf(k) = {c} /\ JobsOf(k) = {} /\ WorkersOf(k) = {}
HeldByJob(k)    == \E i \in DOMAIN jobs : CallersOf(k) = {} /\ JobsOf(k) = {i} /\ WorkersOf(k) = {}
HeldByWorker(k) == \E w \in Workers : CallersOf(k) = {} /\ JobsOf(k) = {} /\ WorkersOf(k) = {w}
NotHeld(k)      == CallersOf(k) = {} /\ JobsOf(k) = {} /\ WorkersOf(k) = {}

HeldWhenReserved(k) ==
    IF k \in queued THEN HeldByCaller(k) \/ HeldByJob(k) \/ HeldByWorker(k) ELSE NotHeld(k)

QueueInv == TypeOK /\ OneKeyEach /\ \A k \in Keys : HeldWhenReserved(k)

LEMMA QueueInvHoldsInitially == Init => QueueInv
  <1> SUFFICES ASSUME Init PROVE QueueInv
    OBVIOUS
  <1> USE PrefetcherAssumption DEF Init
  <1>1. TypeOK
    BY DEF TypeOK, Place
  <1>2. OneKeyEach
    BY DEF OneKeyEach
  <1>3. ASSUME NEW k \in Keys PROVE HeldWhenReserved(k)
    BY DEF HeldWhenReserved, NotHeld, CallersOf, JobsOf, WorkersOf
  <1> QED
    BY <1>1, <1>2, <1>3 DEF QueueInv

\* A step that changes no holder of a key.
LEMMA SameHolders ==
  ASSUME NEW k \in Keys, HeldWhenReserved(k),
         CallersOf(k)' = CallersOf(k), JobsOf(k)' = JobsOf(k), WorkersOf(k)' = WorkersOf(k),
         (k \in queued') = (k \in queued), jobs' = jobs
  PROVE  HeldWhenReserved(k)'
  BY DEF HeldWhenReserved, HeldByCaller, HeldByJob, HeldByWorker, NotHeld

\* A step of an Enqueue keeps the invariant.
LEMMA EnqueueKeepsQueueInv ==
  ASSUME QueueInv, NEW c \in Callers, EnqueueStep(c) \/ \E k \in Keys : Enqueue(c, k)
  PROVE  QueueInv'
  <1> USE PrefetcherAssumption
  <1>types. TypeOK /\ OneKeyEach /\ \A k \in Keys : HeldWhenReserved(k)
    BY DEF QueueInv
  <1>1. ASSUME NEW k0 \in Keys, Enqueue(c, k0) PROVE QueueInv'
    <2>1. TypeOK'
      BY <1>types, <1>1 DEF Enqueue, TypeOK, Place
    <2>2. OneKeyEach'
      BY <1>types, <1>1 DEF Enqueue, TypeOK, Place, OneKeyEach
    <2>3. ASSUME NEW k \in Keys PROVE HeldWhenReserved(k)'
      <3>1. CallersOf(k)' = CallersOf(k)
        BY <1>types, <1>1 DEF Enqueue, TypeOK, Place, OneKeyEach, CallersOf
      <3>2. UNCHANGED <<jobs, worker, queued, JobsOf(k), WorkersOf(k)>>
        BY <1>1 DEF Enqueue, JobsOf, WorkersOf
      <3> QED
        BY <1>types, <3>1, <3>2, SameHolders
    <2> QED
      BY <2>1, <2>2, <2>3 DEF QueueInv
  <1>2. ASSUME Reserve(c) PROVE QueueInv'
    <2>0. PICK k0 \in Keys : caller[c].keys = {k0}
      BY <1>types, <1>2 DEF Reserve, OneKeyEach
    <2>1. TypeOK'
      BY <1>types, <1>2, <2>0 DEF Reserve, TypeOK, Place
    <2>2. OneKeyEach'
      BY <1>types, <1>2, <2>0 DEF Reserve, TypeOK, Place, OneKeyEach
    <2>3. ASSUME NEW k \in Keys PROVE HeldWhenReserved(k)'
      <3>1. UNCHANGED <<jobs, worker, JobsOf(k), WorkersOf(k)>>
        BY <1>2 DEF Reserve, JobsOf, WorkersOf
      <3>2. CASE k = k0 /\ k0 \notin queued
        <4>1. NotHeld(k)
          BY <1>types, <3>2 DEF HeldWhenReserved
        <4>2. CallersOf(k)' = CallersOf(k) \cup {c}
          BY <1>types, <1>2, <2>0, <3>2 DEF Reserve, TypeOK, Place, CallersOf
        <4>3. k \in queued'
          BY <1>2, <2>0, <3>2 DEF Reserve
        <4> QED
          BY <3>1, <4>1, <4>2, <4>3 DEF HeldWhenReserved, HeldByCaller, NotHeld
      <3>3. CASE ~(k = k0 /\ k0 \notin queued)
        <4>1. CallersOf(k)' = CallersOf(k)
          BY <1>types, <1>2, <2>0, <3>3 DEF Reserve, TypeOK, Place, CallersOf
        <4>2. (k \in queued') = (k \in queued)
          BY <1>2, <2>0, <3>3 DEF Reserve
        <4> QED
          BY <1>types, <3>1, <4>1, <4>2, SameHolders
      <3> QED
        BY <3>2, <3>3
    <2> QED
      BY <2>1, <2>2, <2>3 DEF QueueInv
  <1>3. ASSUME Send(c) PROVE QueueInv'
    <2>0. PICK k0 \in Keys : caller[c].keys = {k0} /\ jobs' = Append(jobs, k0)
      BY <1>types, <1>3 DEF Send, OneKeyEach
    <2>1. TypeOK'
      BY <1>types, <1>3, <2>0 DEF Send, TypeOK, Place
    <2>2. OneKeyEach'
      BY <1>types, <1>3, <2>0 DEF Send, TypeOK, Place, OneKeyEach
    <2>j. /\ DOMAIN jobs = 1..Len(jobs) /\ DOMAIN jobs' = 1..(Len(jobs) + 1) /\ Len(jobs) \in Nat
          /\ \A i \in 1..Len(jobs) : jobs'[i] = jobs[i]
          /\ jobs'[Len(jobs) + 1] = k0
      BY <1>types, <2>0 DEF TypeOK
    <2>3. ASSUME NEW k \in Keys PROVE HeldWhenReserved(k)'
      <3>1. UNCHANGED <<worker, queued, WorkersOf(k)>>
        BY <1>3 DEF Send, WorkersOf
      <3>2. CASE k = k0
        <4>1. c \in CallersOf(k)
          BY <1>3, <2>0, <3>2 DEF Send, CallersOf
        <4>2. k \in queued /\ CallersOf(k) = {c} /\ JobsOf(k) = {} /\ WorkersOf(k) = {}
          BY <1>types, <4>1 DEF HeldWhenReserved, HeldByCaller, HeldByJob, HeldByWorker, NotHeld
        <4>3. CallersOf(k)' = CallersOf(k) \ {c}
          BY <1>types, <1>3, <2>0, <3>2 DEF Send, TypeOK, Place, CallersOf
        <4>4. JobsOf(k)' = {Len(jobs) + 1}
          BY <2>j, <3>2, <4>2 DEF JobsOf
        <4> QED
          BY <2>j, <3>1, <4>2, <4>3, <4>4 DEF HeldWhenReserved, HeldByJob
      <3>3. CASE k # k0
        <4>1. CallersOf(k)' = CallersOf(k)
          BY <1>types, <1>3, <2>0, <3>3 DEF Send, TypeOK, Place, CallersOf
        <4>2. JobsOf(k)' = JobsOf(k)
          BY <2>j, <3>3 DEF JobsOf
        <4>3. DOMAIN jobs \subseteq DOMAIN jobs'
          BY <2>j
        <4> QED
          BY <1>types, <3>1, <4>1, <4>2, <4>3
          DEF HeldWhenReserved, HeldByCaller, HeldByJob, HeldByWorker, NotHeld
      <3> QED
        BY <3>2, <3>3
    <2> QED
      BY <2>1, <2>2, <2>3 DEF QueueInv
  <1>4. ASSUME GiveUp(c) \/ Panic(c) PROVE QueueInv'
    <2>1. TypeOK'
      BY <1>types, <1>4 DEF GiveUp, Panic, TypeOK, Place
    <2>0. /\ caller[c].pc = "send" /\ caller'[c].pc \in {"drop", "panicked"}
          /\ \A d \in Callers : d # c => caller'[d] = caller[d]
          /\ caller'[c].keys = caller[c].keys
      BY <1>types, <1>4 DEF GiveUp, Panic, TypeOK, Place
    <2>2. OneKeyEach'
      BY <1>types, <1>4, <2>0 DEF GiveUp, Panic, OneKeyEach
    <2>3. ASSUME NEW k \in Keys PROVE HeldWhenReserved(k)'
      <3>1. CallersOf(k)' = CallersOf(k)
        BY <2>0 DEF CallersOf
      <3>2. UNCHANGED <<jobs, worker, queued, JobsOf(k), WorkersOf(k)>>
        BY <1>4 DEF GiveUp, Panic, JobsOf, WorkersOf
      <3> QED
        BY <1>types, <3>1, <3>2, SameHolders
    <2> QED
      BY <2>1, <2>2, <2>3 DEF QueueInv
  <1>5. ASSUME Unreserve(c) PROVE QueueInv'
    <2>0. PICK k0 \in Keys : caller[c].keys = {k0}
      BY <1>types, <1>5 DEF Unreserve, OneKeyEach
    <2>1. TypeOK'
      BY <1>types, <1>5, <2>0 DEF Unreserve, TypeOK, Place
    <2>2. OneKeyEach'
      BY <1>types, <1>5, <2>0 DEF Unreserve, TypeOK, Place, OneKeyEach
    <2>3. ASSUME NEW k \in Keys PROVE HeldWhenReserved(k)'
      <3>1. UNCHANGED <<jobs, worker, JobsOf(k), WorkersOf(k)>>
        BY <1>5 DEF Unreserve, JobsOf, WorkersOf
      <3>2. CallersOf(k)' = CallersOf(k) \ {c}
        BY <1>types, <1>5 DEF Unreserve, TypeOK, Place, CallersOf
      <3>3. CASE k = k0
        <4>1. c \in CallersOf(k)
          BY <1>5, <2>0, <3>3 DEF Unreserve, CallersOf
        <4>2. CallersOf(k) = {c} /\ JobsOf(k) = {} /\ WorkersOf(k) = {}
          BY <1>types, <4>1 DEF HeldWhenReserved, HeldByCaller, HeldByJob, HeldByWorker, NotHeld
        <4>3. k \notin queued'
          BY <1>5, <2>0, <3>3 DEF Unreserve
        <4> QED
          BY <3>1, <3>2, <4>2, <4>3 DEF HeldWhenReserved, NotHeld
      <3>4. CASE k # k0
        <4>1. c \notin CallersOf(k)
          BY <2>0, <3>4 DEF CallersOf
        <4>2. (k \in queued') = (k \in queued)
          BY <1>5, <2>0, <3>4 DEF Unreserve
        <4>3. CallersOf(k)' = CallersOf(k)
          BY <3>2, <4>1
        <4> QED
          BY <1>types, <3>1, <4>2, <4>3, SameHolders
      <3> QED
        BY <3>3, <3>4
    <2> QED
      BY <2>1, <2>2, <2>3 DEF QueueInv
  <1> QED
    BY <1>1, <1>2, <1>3, <1>4, <1>5 DEF EnqueueStep

\* A step of a worker keeps the invariant, and Stop does.
LEMMA WorkerKeepsQueueInv ==
  ASSUME QueueInv, NEW w \in Workers, WorkerStep(w)
  PROVE  QueueInv'
  <1> USE PrefetcherAssumption
  <1>types. TypeOK /\ OneKeyEach /\ \A k \in Keys : HeldWhenReserved(k)
    BY DEF QueueInv
  <1>1. ASSUME Take(w) PROVE QueueInv'
    <2> DEFINE k0 == Head(jobs)
    <2>j. /\ Len(jobs) \in Nat \ {0} /\ DOMAIN jobs = 1..Len(jobs) /\ DOMAIN jobs' = 1..(Len(jobs) - 1)
          /\ \A i \in 1..(Len(jobs) - 1) : jobs'[i] = jobs[i + 1]
          /\ k0 = jobs[1] /\ k0 \in Keys /\ jobs' \in Seq(Keys) /\ Len(jobs') = Len(jobs) - 1
      BY <1>types, <1>1 DEF Take, TypeOK
    <2>0. /\ worker[w].keys = {} /\ worker' = [worker EXCEPT ![w] = [pc |-> "load", keys |-> {k0}]]
      BY <1>1 DEF Take
    <2> HIDE DEF k0
    <2>1. TypeOK'
      BY <1>types, <1>1, <2>0, <2>j DEF Take, TypeOK, Place
    <2>2. OneKeyEach'
      <3>1. UNCHANGED caller
        BY <1>1 DEF Take
      <3>2. worker'[w].pc = "load" /\ worker'[w].keys = {k0}
        BY <1>types, <2>0 DEF TypeOK
      <3>3. \A v \in Workers : v # w => worker'[v] = worker[v]
        BY <1>types, <2>0 DEF TypeOK
      <3> QED
        BY <1>types, <2>j, <3>1, <3>2, <3>3 DEF OneKeyEach
    <2>3. ASSUME NEW k \in Keys PROVE HeldWhenReserved(k)'
      <3>1. UNCHANGED <<caller, queued, CallersOf(k)>>
        BY <1>1 DEF Take, CallersOf
      <3>2. CASE k = k0
        <4>1. 1 \in JobsOf(k)
          BY <2>j, <3>2 DEF JobsOf
        <4>2. k \in queued /\ CallersOf(k) = {} /\ JobsOf(k) = {1} /\ WorkersOf(k) = {}
          BY <1>types, <4>1 DEF HeldWhenReserved, HeldByCaller, HeldByJob, HeldByWorker, NotHeld
        <4>3. \A i \in 1..(Len(jobs) - 1) : i + 1 \notin JobsOf(k) /\ i + 1 \in DOMAIN jobs
          BY <2>j, <4>2
        <4>4. JobsOf(k)' = {}
          BY <2>j, <4>3 DEF JobsOf
        <4>5. WorkersOf(k)' = WorkersOf(k) \cup {w}
          BY <1>types, <2>0, <3>2 DEF TypeOK, Place, WorkersOf
        <4> QED
          BY <3>1, <4>2, <4>4, <4>5 DEF HeldWhenReserved, HeldByWorker
      <3>3. CASE k # k0
        <4>1. WorkersOf(k)' = WorkersOf(k)
          BY <1>types, <2>0, <3>3 DEF TypeOK, Place, WorkersOf
        <4>2. JobsOf(k)' = { i \in 1..(Len(jobs) - 1) : i + 1 \in JobsOf(k) }
          BY <2>j DEF JobsOf
        <4>3. 1 \notin JobsOf(k)
          BY <2>j, <3>3 DEF JobsOf
        <4>4. CASE JobsOf(k) = {}
          <5>1. JobsOf(k)' = {}
            BY <4>2, <4>4
          <5> QED
            BY <1>types, <3>1, <4>1, <4>4, <5>1
            DEF HeldWhenReserved, HeldByCaller, HeldByJob, HeldByWorker, NotHeld
        <4>5. CASE JobsOf(k) # {}
          <5>1. k \in queued /\ HeldByJob(k)
            BY <1>types, <4>5 DEF HeldWhenReserved, HeldByCaller, HeldByWorker, NotHeld
          <5>2. PICK i \in DOMAIN jobs : CallersOf(k) = {} /\ JobsOf(k) = {i} /\ WorkersOf(k) = {}
            BY <5>1 DEF HeldByJob
          <5>3. i \in 1..Len(jobs) /\ i # 1
            BY <2>j, <4>3, <5>2
          <5>4. JobsOf(k)' = {i - 1} /\ i - 1 \in DOMAIN jobs'
            BY <2>j, <4>2, <5>2, <5>3
          <5> QED
            BY <3>1, <4>1, <5>1, <5>2, <5>4 DEF HeldWhenReserved, HeldByJob
        <4> QED
          BY <4>4, <4>5
      <3> QED
        BY <3>2, <3>3
    <2> QED
      BY <2>1, <2>2, <2>3 DEF QueueInv
  <1>2. ASSUME Loaded(w) PROVE QueueInv'
    <2>0. PICK k0 \in Keys : worker[w].keys = {k0}
      BY <1>types, <1>2 DEF Loaded, OneKeyEach
    <2>1. TypeOK'
      BY <1>types, <1>2, <2>0 DEF Loaded, TypeOK, Place
    <2>2. OneKeyEach'
      BY <1>types, <1>2, <2>0 DEF Loaded, TypeOK, Place, OneKeyEach
    <2>3. ASSUME NEW k \in Keys PROVE HeldWhenReserved(k)'
      <3>1. UNCHANGED <<jobs, caller, JobsOf(k), CallersOf(k)>>
        BY <1>2 DEF Loaded, JobsOf, CallersOf
      <3>2. WorkersOf(k)' = WorkersOf(k) \ {w}
        BY <1>types, <1>2 DEF Loaded, TypeOK, Place, WorkersOf
      <3>3. CASE k = k0
        <4>1. w \in WorkersOf(k)
          BY <2>0, <3>3 DEF WorkersOf
        <4>2. CallersOf(k) = {} /\ JobsOf(k) = {} /\ WorkersOf(k) = {w}
          BY <1>types, <4>1 DEF HeldWhenReserved, HeldByCaller, HeldByJob, HeldByWorker, NotHeld
        <4>3. k \notin queued'
          BY <1>2, <2>0, <3>3 DEF Loaded
        <4> QED
          BY <3>1, <3>2, <4>2, <4>3 DEF HeldWhenReserved, NotHeld
      <3>4. CASE k # k0
        <4>1. w \notin WorkersOf(k)
          BY <2>0, <3>4 DEF WorkersOf
        <4>2. (k \in queued') = (k \in queued)
          BY <1>2, <2>0, <3>4 DEF Loaded
        <4>3. WorkersOf(k)' = WorkersOf(k)
          BY <3>2, <4>1
        <4> QED
          BY <1>types, <3>1, <4>2, <4>3, SameHolders
      <3> QED
        BY <3>3, <3>4
    <2> QED
      BY <2>1, <2>2, <2>3 DEF QueueInv
  <1>3. ASSUME WorkerExits(w) PROVE QueueInv'
    <2>1. TypeOK'
      BY <1>types, <1>3 DEF WorkerExits, TypeOK, Place
    <2>2. OneKeyEach'
      BY <1>types, <1>3 DEF WorkerExits, TypeOK, Place, OneKeyEach
    <2>3. ASSUME NEW k \in Keys PROVE HeldWhenReserved(k)'
      <3>1. WorkersOf(k)' = WorkersOf(k)
        BY <1>types, <1>3 DEF WorkerExits, TypeOK, Place, WorkersOf
      <3>2. UNCHANGED <<jobs, caller, queued, JobsOf(k), CallersOf(k)>>
        BY <1>3 DEF WorkerExits, JobsOf, CallersOf
      <3> QED
        BY <1>types, <3>1, <3>2, SameHolders
    <2> QED
      BY <2>1, <2>2, <2>3 DEF QueueInv
  <1> QED
    BY <1>1, <1>2, <1>3 DEF WorkerStep

\* Stop and StopReturns touch nothing that the invariant is about.
LEMMA QueueInvUnchanged ==
  ASSUME QueueInv, UNCHANGED <<queued, jobs, caller, worker, enqueues>>,
         stop' \in {"running", "stopping", "stopped"}
  PROVE  QueueInv'
  <1>types. TypeOK /\ OneKeyEach /\ \A k \in Keys : HeldWhenReserved(k)
    BY DEF QueueInv
  <1>1. TypeOK'
    BY <1>types DEF TypeOK
  <1>2. OneKeyEach'
    BY <1>types DEF OneKeyEach
  <1>3. ASSUME NEW k \in Keys PROVE HeldWhenReserved(k)'
    <2>1. UNCHANGED <<CallersOf(k), JobsOf(k), WorkersOf(k)>>
      BY DEF CallersOf, JobsOf, WorkersOf
    <2> QED
      BY <1>types, <2>1, SameHolders
  <1> QED
    BY <1>1, <1>2, <1>3 DEF QueueInv

LEMMA QueueInvPreserved == QueueInv /\ [Next]_vars => QueueInv'
  <1> SUFFICES ASSUME QueueInv, [Next]_vars PROVE QueueInv'
    OBVIOUS
  <1>1. ASSUME NEW c \in Callers, EnqueueStep(c) \/ \E k \in Keys : Enqueue(c, k) PROVE QueueInv'
    BY <1>1, EnqueueKeepsQueueInv
  <1>2. ASSUME NEW w \in Workers, WorkerStep(w) PROVE QueueInv'
    BY <1>2, WorkerKeepsQueueInv
  <1>3. CASE Stop \/ StopReturns \/ UNCHANGED vars
    BY <1>3, QueueInvUnchanged DEF Stop, StopReturns, vars, QueueInv, TypeOK
  <1> QED
    BY <1>1, <1>2, <1>3 DEF Next

LEMMA QueueInvImpliesOneHolder == QueueInv => OneHolder
  <1> SUFFICES ASSUME QueueInv, NEW k \in Keys
               PROVE  Cardinality(CallersOf(k)) + Cardinality(JobsOf(k)) + Cardinality(WorkersOf(k))
                          = IF k \in queued THEN 1 ELSE 0
    BY DEF OneHolder
  <1>1. Cardinality({}) = 0 /\ \A x : Cardinality({x}) = 1
    BY FS_EmptySet, FS_Singleton
  <1>2. HeldWhenReserved(k)
    BY DEF QueueInv
  <1>3. CASE k \notin queued
    <2>1. CallersOf(k) = {} /\ JobsOf(k) = {} /\ WorkersOf(k) = {}
      BY <1>2, <1>3 DEF HeldWhenReserved, NotHeld
    <2> QED
      BY <1>1, <1>3, <2>1
  <1>4. CASE k \in queued
    <2>1. CASE HeldByCaller(k)
      <3>1. PICK c \in Callers : CallersOf(k) = {c} /\ JobsOf(k) = {} /\ WorkersOf(k) = {}
        BY <2>1 DEF HeldByCaller
      <3>2. Cardinality(CallersOf(k)) = 1 /\ Cardinality(JobsOf(k)) = 0 /\ Cardinality(WorkersOf(k)) = 0
        BY <1>1, <3>1, Zenon
      <3> QED
        BY <1>4, <3>2
    <2>2. CASE HeldByJob(k)
      <3>1. PICK i \in DOMAIN jobs : CallersOf(k) = {} /\ JobsOf(k) = {i} /\ WorkersOf(k) = {}
        BY <2>2 DEF HeldByJob
      <3>2. Cardinality(CallersOf(k)) = 0 /\ Cardinality(JobsOf(k)) = 1 /\ Cardinality(WorkersOf(k)) = 0
        BY <1>1, <3>1, Zenon
      <3> QED
        BY <1>4, <3>2
    <2>3. CASE HeldByWorker(k)
      <3>1. PICK w \in Workers : CallersOf(k) = {} /\ JobsOf(k) = {} /\ WorkersOf(k) = {w}
        BY <2>3 DEF HeldByWorker
      <3>2. Cardinality(CallersOf(k)) = 0 /\ Cardinality(JobsOf(k)) = 0 /\ Cardinality(WorkersOf(k)) = 1
        BY <1>1, <3>1, Zenon
      <3> QED
        BY <1>4, <3>2
    <2> QED
      BY <1>2, <1>4, <2>1, <2>2, <2>3 DEF HeldWhenReserved
  <1> QED
    BY <1>3, <1>4

\* A reserved key of the queue has exactly one holder: property OneHolder, of the
\* queue with whatever around it.
THEOREM ReservationsAreHeldOnce == Spec => []OneHolder
  <1>1. QueueInv /\ [Next]_vars => QueueInv'
    BY QueueInvPreserved
  <1> QED
    BY <1>1, QueueInvHoldsInitially, QueueInvImpliesOneHolder, PTL DEF Spec

-------------------------------------------------------------------------------
(* The queue in the proxy. *)

LEMMA StepImplementsQueue == [PrefetchNext]_prefetchVars => [Next]_vars
  <1> SUFFICES ASSUME [PrefetchNext]_prefetchVars PROVE [Next]_vars
    OBVIOUS
  <1>1. ASSUME NEW c \in Callers, Around(EnqueueStep(c)) \/ \E k \in Keys : MaybePrefetchForRequest(c, k)
        PROVE  Next
    BY <1>1 DEF Around, MaybePrefetchForRequest, Next
  <1>2. ASSUME NEW w \in Workers, LoadStep(w) PROVE [Next]_vars
    <2>1. CASE TakeJob(w) \/ Release(w) \/ Around(WorkerExits(w))
      BY <2>1 DEF TakeJob, Release, Around, WorkerStep, Next
    <2>2. CASE Admit(w) \/ SkipOrSend(w) \/ Answer(w) \/ MarkPrefetched(w)
      BY <2>2 DEF Admit, SkipOrSend, Answer, MarkPrefetched
    <2> QED
      BY <1>2, <2>1, <2>2 DEF LoadStep
  <1>3. ASSUME NEW k \in Keys, KeyStep(k) PROVE UNCHANGED vars
    BY <1>3 DEF KeyStep, ConsumePrefetchSignal, SignalAges, TemplateAges
  <1>4. CASE ClientFetchFails \/ PauseEnds
    BY <1>4 DEF ClientFetchFails, PauseEnds
  <1>5. CASE Around(Stop) \/ Around(StopReturns)
    BY <1>5 DEF Around, Next
  <1>6. CASE UNCHANGED prefetchVars
    BY <1>6 DEF prefetchVars
  <1> QED
    BY <1>1, <1>2, <1>3, <1>4, <1>5, <1>6 DEF PrefetchNext

\* Prefetching as a whole uses the queue as the module Prefetcher has it.
THEOREM PrefetchUsesTheQueue == PrefetchSpec => Spec
  <1>1. PrefetchInit => Init
    BY DEF PrefetchInit
  <1> QED
    BY <1>1, StepImplementsQueue, PTL DEF PrefetchSpec, Spec

\* A key is reserved exactly as long as a caller, the queue or a worker answers for
\* it, however loads end and requests, hits and errors overlap: property OneHolder.
THEOREM ReservationsHeldOnceInTheProxy == PrefetchSpec => []OneHolder
  BY PrefetchUsesTheQueue, ReservationsAreHeldOnce, PTL

-------------------------------------------------------------------------------
(* Signals and hits. *)

\* Every signal stands for a load that no hit has claimed.
SignalsAreLoads ==
    /\ unclaimed \in [Keys -> Int]
    /\ \A k \in Keys : unclaimed[k] >= IF k \in signals THEN 1 ELSE 0

LEMMA SignalsAreLoadsPreserved ==
  ASSUME SignalsAreLoads, [PrefetchNext]_prefetchVars
  PROVE  SignalsAreLoads'
  <1>1. ASSUME NEW w \in Workers, MarkPrefetched(w) PROVE SignalsAreLoads'
    BY <1>1 DEF MarkPrefetched, SignalsAreLoads
  <1>2. ASSUME NEW k \in Keys, ConsumePrefetchSignal(k) \/ SignalAges(k) PROVE SignalsAreLoads'
    BY <1>2 DEF ConsumePrefetchSignal, SignalAges, SignalsAreLoads
  <1>3. CASE UNCHANGED <<signals, unclaimed>>
    BY <1>3 DEF SignalsAreLoads
  <1>4. ASSUME NEW c \in Callers, Around(EnqueueStep(c)) \/ \E k \in Keys : MaybePrefetchForRequest(c, k)
        PROVE  UNCHANGED <<signals, unclaimed>>
    BY <1>4 DEF Around, proxyVars, MaybePrefetchForRequest
  <1>5. ASSUME NEW w \in Workers, LoadStep(w)
        PROVE  MarkPrefetched(w) \/ UNCHANGED <<signals, unclaimed>>
    BY <1>5 DEF LoadStep, TakeJob, Admit, SkipOrSend, Answer, Release, Around, proxyVars
  <1>6. ASSUME NEW k \in Keys, KeyStep(k)
        PROVE  ConsumePrefetchSignal(k) \/ SignalAges(k) \/ UNCHANGED <<signals, unclaimed>>
    BY <1>6 DEF KeyStep, TemplateAges
  <1>7. CASE ClientFetchFails \/ PauseEnds \/ Around(Stop) \/ Around(StopReturns) \/ UNCHANGED prefetchVars
    <2>1. UNCHANGED <<signals, unclaimed>>
      BY <1>7 DEF ClientFetchFails, PauseEnds, Around, proxyVars, prefetchVars
    <2> QED
      BY <2>1, <1>3
  <1> QED
    BY <1>1, <1>2, <1>3, <1>4, <1>5, <1>6, <1>7 DEF PrefetchNext

\* No hit is answered as PREFETCH without a load that was counted for it: property
\* HitsFollowLoads.
THEOREM HitsAlwaysFollowLoads == PrefetchSpec => []HitsFollowLoads
  <1>1. PrefetchInit => SignalsAreLoads
    BY DEF PrefetchInit, SignalsAreLoads
  <1>2. SignalsAreLoads /\ [PrefetchNext]_prefetchVars => SignalsAreLoads'
    BY SignalsAreLoadsPreserved
  <1>3. SignalsAreLoads => HitsFollowLoads
    BY DEF SignalsAreLoads, HitsFollowLoads
  <1> QED
    BY <1>1, <1>2, <1>3, PTL DEF PrefetchSpec

-------------------------------------------------------------------------------
(* The pause. *)

\* The workers that have been allowed to send and have not sent yet.
Allowed == { w \in Workers : load[w] = "allowed" }

Places == {"none", "begun", "allowed", "sent", "stored", "failed", "done"}

\* What has been sent in a pause and what still may be sent are the workers' at most.
PauseInv ==
    /\ load \in [Workers -> Places]
    /\ paused \in BOOLEAN
    /\ overruns \in Nat
    /\ ~paused => overruns = 0
    /\ overruns + Cardinality(Allowed) <= Cardinality(Workers)

LEMMA AllowedIsFinite == IsFiniteSet(Allowed) /\ Cardinality(Allowed) \in Nat
  BY PrefetcherAssumption, FS_Subset, FS_CardinalityType DEF Allowed

\* A step that allows nobody and sends nothing.
LEMMA NobodyAllowed ==
  ASSUME PauseInv, load' \in [Workers -> Places], paused' \in BOOLEAN, Allowed' \subseteq Allowed,
         \/ overruns' = overruns /\ (paused => paused')
         \/ overruns' = 0
  PROVE  PauseInv'
  <1>1. Cardinality(Allowed') <= Cardinality(Allowed) /\ Cardinality(Allowed') \in Nat
    BY AllowedIsFinite, FS_Subset, FS_CardinalityType
  <1>2. Cardinality(Allowed) \in Nat /\ Cardinality(Workers) \in Nat
    BY AllowedIsFinite, PrefetcherAssumption, FS_CardinalityType
  <1> QED
    BY <1>1, <1>2 DEF PauseInv

LEMMA LoadKeepsPauseInv ==
  ASSUME PauseInv, NEW w \in Workers, LoadStep(w)
  PROVE  PauseInv'
  <1>types. load \in [Workers -> Places] /\ paused \in BOOLEAN /\ overruns \in Nat
    BY DEF PauseInv
  <1>1. CASE Admit(w)
    <2>1. CASE Proceed(w, "failed")
      <3>1. load' \in [Workers -> Places] /\ Allowed' \subseteq Allowed
        BY <1>types, <2>1 DEF Proceed, Allowed, Places
      <3> QED
        BY <1>types, <1>1, <3>1, NobodyAllowed DEF Admit
    <2>2. CASE ~paused /\ Proceed(w, "allowed")
      <3>1. load' \in [Workers -> Places] /\ Allowed' \subseteq Workers
        BY <1>types, <2>2 DEF Proceed, Allowed, Places
      <3>2. Cardinality(Allowed') <= Cardinality(Workers) /\ Cardinality(Allowed') \in Nat
            /\ Cardinality(Workers) \in Nat
        BY <3>1, PrefetcherAssumption, FS_Subset, FS_CardinalityType
      <3>3. overruns' = 0 /\ UNCHANGED paused
        BY <1>1, <2>2 DEF Admit, PauseInv
      <3> QED
        BY <1>types, <3>1, <3>2, <3>3 DEF PauseInv
    <2> QED
      BY <1>1, <2>1, <2>2 DEF Admit
  <1>2. CASE SkipOrSend(w)
    <2>1. load' \in [Workers -> Places] /\ Allowed' = Allowed \ {w} /\ w \in Allowed
      BY <1>types, <1>2 DEF SkipOrSend, Proceed, Allowed, Places
    <2>2. Cardinality(Allowed') = Cardinality(Allowed) - 1
      BY <2>1, AllowedIsFinite, FS_RemoveElement
    <2>3. overruns' \in {overruns, overruns + 1} /\ UNCHANGED paused /\ (~paused => overruns' = overruns)
      BY <1>2 DEF SkipOrSend
    <2>4. Cardinality(Allowed) \in Nat /\ Cardinality(Workers) \in Nat
      BY AllowedIsFinite, PrefetcherAssumption, FS_CardinalityType
    <2> QED
      BY <1>types, <2>1, <2>2, <2>3, <2>4 DEF PauseInv
  <1>3. CASE TakeJob(w) \/ Answer(w) \/ MarkPrefetched(w) \/ Release(w)
    <2>1. \E place \in {"begun", "stored", "failed", "done", "none"} : Proceed(w, place)
      BY <1>3 DEF TakeJob, Answer, MarkPrefetched, Release
    <2>2. load' \in [Workers -> Places] /\ Allowed' \subseteq Allowed
      BY <1>types, <2>1 DEF Proceed, Allowed, Places
    <2>3. overruns' = overruns /\ paused' \in {paused, TRUE}
      BY <1>3 DEF TakeJob, Answer, MarkPrefetched, Release
    <2> QED
      BY <1>types, <2>2, <2>3, NobodyAllowed
  <1>4. CASE Around(WorkerExits(w))
    BY <1>types, <1>4, NobodyAllowed DEF Around, proxyVars, Allowed
  <1> QED
    BY <1>1, <1>2, <1>3, <1>4 DEF LoadStep

LEMMA PauseInvPreserved == PauseInv /\ [PrefetchNext]_prefetchVars => PauseInv'
  <1> SUFFICES ASSUME PauseInv, [PrefetchNext]_prefetchVars PROVE PauseInv'
    OBVIOUS
  <1>types. load \in [Workers -> Places] /\ paused \in BOOLEAN /\ overruns \in Nat
    BY DEF PauseInv
  <1>1. ASSUME NEW w \in Workers, LoadStep(w) PROVE PauseInv'
    BY <1>1, LoadKeepsPauseInv
  <1>2. ASSUME load' = load,
                (overruns' = overruns /\ paused' \in {paused, TRUE}) \/ (overruns' = 0 /\ paused' = FALSE)
         PROVE  PauseInv'
    <2>1. Allowed' = Allowed
      BY <1>2 DEF Allowed
    <2> QED
      BY <1>types, <1>2, <2>1, NobodyAllowed
  <1>3. ASSUME NEW c \in Callers, Around(EnqueueStep(c)) \/ \E k \in Keys : MaybePrefetchForRequest(c, k)
        PROVE  load' = load /\ overruns' = overruns /\ paused' = paused
    BY <1>3 DEF Around, proxyVars, MaybePrefetchForRequest
  <1>4. ASSUME NEW k \in Keys, KeyStep(k) PROVE load' = load /\ overruns' = overruns /\ paused' = paused
    BY <1>4 DEF KeyStep, ConsumePrefetchSignal, SignalAges, TemplateAges
  <1>5. CASE ClientFetchFails \/ PauseEnds \/ Around(Stop) \/ Around(StopReturns) \/ UNCHANGED prefetchVars
    <2>1. /\ load' = load
          /\ (overruns' = overruns /\ paused' \in {paused, TRUE}) \/ (overruns' = 0 /\ paused' = FALSE)
      BY <1>5 DEF ClientFetchFails, PauseEnds, Around, proxyVars, prefetchVars
    <2> QED
      BY <1>2, <2>1
  <1> QED
    BY <1>1, <1>2, <1>3, <1>4, <1>5 DEF PrefetchNext

\* Within a pause no more is sent than the workers had been allowed before it:
\* property PauseHolds.
THEOREM PausesHold == PrefetchSpec => []PauseHolds
  <1>1. PrefetchInit => PauseInv
    <2> SUFFICES ASSUME PrefetchInit PROVE PauseInv
      OBVIOUS
    <2>1. Allowed = {}
      BY DEF PrefetchInit, Allowed
    <2>2. Cardinality({}) = 0 /\ Cardinality(Workers) \in Nat
      BY FS_EmptySet, PrefetcherAssumption, FS_CardinalityType
    <2>3. Cardinality(Allowed) = 0
      BY <2>1, <2>2, Zenon
    <2>4. load \in [Workers -> Places] /\ paused \in BOOLEAN /\ overruns = 0
      BY DEF PrefetchInit, Places
    <2>5. 0 + Cardinality(Allowed) <= Cardinality(Workers)
      BY <2>2, <2>3
    <2> QED
      BY <2>4, <2>5 DEF PauseInv
  <1>2. PauseInv => PauseHolds
    <2>1. Cardinality(Allowed) \in Nat /\ Cardinality(Workers) \in Nat
      BY AllowedIsFinite, PrefetcherAssumption, FS_CardinalityType
    <2> QED
      BY <2>1 DEF PauseInv, PauseHolds
  <1> QED
    BY <1>1, <1>2, PauseInvPreserved, PTL DEF PrefetchSpec
===============================================================================
