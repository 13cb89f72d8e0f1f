------------------------------ MODULE Prefetcher ------------------------------
(***************************************************************************)
(* AsyncPrefetcher: request goroutines enqueue keys without ever waiting, a *)
(* pool of workers loads them, and Stop closes the queue and waits for the  *)
(* workers for a while.  A key is reserved in queued from its enqueue until *)
(* its load ended.  The lock p.mu is held for single steps only, so an      *)
(* Enqueue is several.                                                      *)
(*                                                                          *)
(* OneHolder implies that localSingleflight never has a second caller for a *)
(* key, so it is left out of a load.                                        *)
(***************************************************************************)
EXTENDS Integers, Sequences, FiniteSets

CONSTANTS Keys,
          Callers,      \* request goroutines
          Workers,
          QueueSize,    \* capacity of the channel jobs
          MaxEnqueues   \* bound on the calls of Enqueue

ASSUME PrefetcherAssumption ==
    /\ IsFiniteSet(Callers)
    /\ IsFiniteSet(Workers)
    /\ QueueSize \in Nat \ {0}
    /\ MaxEnqueues \in Nat

VARIABLES
    queued,     \* keys that may not be enqueued again
    jobs,       \* the channel
    stop,       \* "running" until Stop closes the channel
    caller,     \* where each caller is in Enqueue
    worker,     \* what each worker does
    enqueues    \* number of calls of Enqueue so far

vars == <<queued, jobs, stop, caller, worker, enqueues>>

closed == stop # "running"

\* A process at a place in the code, with the keys it is concerned with.
At(pc, keys) == [pc |-> pc, keys |-> keys]

Idle == At("idle", {})

-------------------------------------------------------------------------------
(* Enqueue. *)

\* The check of closed; a closed prefetcher drops the key.
Enqueue(c, k) ==
    /\ caller[c] = Idle
    /\ enqueues < MaxEnqueues
    /\ enqueues' = enqueues + 1
    /\ caller' = [caller EXCEPT ![c] = IF closed THEN Idle ELSE At("checked", {k})]
    /\ UNCHANGED <<queued, jobs, stop, worker>>

\* Mutation of Reserve: the key is not looked up first.
ReserveAnyway(c) ==
    /\ caller[c].pc = "checked"
    /\ caller' = [caller EXCEPT ![c].pc = "send"]
    /\ queued' = queued \cup caller[c].keys
    /\ UNCHANGED <<jobs, stop, worker, enqueues>>

Reserve(c) ==
    /\ caller[c].pc = "checked"
    /\ caller' = [caller EXCEPT ![c] = IF @.keys \subseteq queued THEN Idle
                                       ELSE At("send", @.keys)]
    /\ queued' = queued \cup caller[c].keys
    /\ UNCHANGED <<jobs, stop, worker, enqueues>>

Send(c) ==
    /\ caller[c].pc = "send"
    /\ ~closed
    /\ Len(jobs) < QueueSize
    /\ \E k \in caller[c].keys : jobs' = Append(jobs, k)
    /\ caller' = [caller EXCEPT ![c] = Idle]
    /\ UNCHANGED <<queued, stop, worker, enqueues>>

\* The queue is full or, at any time, the caller's context is done.
GiveUp(c) ==
    /\ caller[c].pc = "send"
    /\ caller' = [caller EXCEPT ![c].pc = "drop"]
    /\ UNCHANGED <<queued, jobs, stop, worker, enqueues>>

\* Mutation of Unreserve: a dropped key stays reserved.
KeepReserved(c) ==
    /\ caller[c].pc = "drop"
    /\ caller' = [caller EXCEPT ![c] = Idle]
    /\ UNCHANGED <<queued, jobs, stop, worker, enqueues>>

Unreserve(c) ==
    /\ caller[c].pc = "drop"
    /\ queued' = queued \ caller[c].keys
    /\ caller' = [caller EXCEPT ![c] = Idle]
    /\ UNCHANGED <<jobs, stop, worker, enqueues>>

\* A send on a closed channel panics, in a select too.
Panic(c) ==
    /\ caller[c].pc = "send"
    /\ closed
    /\ caller' = [caller EXCEPT ![c].pc = "panicked"]
    /\ UNCHANGED <<queued, jobs, stop, worker, enqueues>>

-------------------------------------------------------------------------------
(* The workers and Stop. *)

\* Mutation of Take: nothing is taken from a closed channel.
TakeWhileOpen(w) ==
    /\ worker[w] = Idle
    /\ ~closed
    /\ jobs # <<>>
    /\ worker' = [worker EXCEPT ![w] = At("load", {Head(jobs)})]
    /\ jobs' = Tail(jobs)
    /\ UNCHANGED <<queued, stop, caller, enqueues>>

\* A closed channel still delivers what it holds.
Take(w) ==
    /\ worker[w] = Idle
    /\ jobs # <<>>
    /\ worker' = [worker EXCEPT ![w] = At("load", {Head(jobs)})]
    /\ jobs' = Tail(jobs)
    /\ UNCHANGED <<queued, stop, caller, enqueues>>

\* The load succeeded, failed or ran into its timeout.
Loaded(w) ==
    /\ worker[w].pc = "load"
    /\ queued' = queued \ worker[w].keys
    /\ worker' = [worker EXCEPT ![w] = Idle]
    /\ UNCHANGED <<jobs, stop, caller, enqueues>>

WorkerExits(w) ==
    /\ worker[w] = Idle
    /\ closed
    /\ jobs = <<>>
    /\ worker' = [worker EXCEPT ![w] = At("exited", {})]
    /\ UNCHANGED <<queued, jobs, stop, caller, enqueues>>

Stop ==
    /\ ~closed
    /\ stop' = "stopping"
    /\ UNCHANGED <<queued, jobs, caller, worker, enqueues>>

\* All workers have exited, or 500ms have passed.
StopReturns ==
    /\ stop = "stopping"
    /\ stop' = "stopped"
    /\ UNCHANGED <<queued, jobs, caller, worker, enqueues>>

-------------------------------------------------------------------------------
Init ==
    /\ queued = {}
    /\ jobs = <<>>
    /\ stop = "running"
    /\ caller = [c \in Callers |-> Idle]
    /\ worker = [w \in Workers |-> Idle]
    /\ enqueues = 0

\* The rest of a call of Enqueue.
EnqueueStep(c) == Reserve(c) \/ Send(c) \/ GiveUp(c) \/ Unreserve(c) \/ Panic(c)

WorkerStep(w) == Take(w) \/ Loaded(w) \/ WorkerExits(w)

Next ==
    \/ \E c \in Callers : EnqueueStep(c) \/ \E k \in Keys : Enqueue(c, k)
    \/ \E w \in Workers : WorkerStep(w)
    \/ Stop
    \/ StopReturns

Spec == Init /\ [][Next]_vars

\* Every goroutine keeps running, and a load ends by its timeout at the latest.
FairSpec ==
    /\ Spec
    /\ \A c \in Callers : WF_vars(EnqueueStep(c))
    /\ \A w \in Workers : WF_vars(WorkerStep(w))

-------------------------------------------------------------------------------
Place(pcs) == [pc : pcs, keys : SUBSET Keys]

TypeOK ==
    /\ queued \in SUBSET Keys
    /\ jobs \in Seq(Keys)
    /\ Len(jobs) <= QueueSize
    /\ stop \in {"running", "stopping", "stopped"}
    /\ caller \in [Callers -> Place({"idle", "checked", "send", "drop", "panicked"})]
    /\ worker \in [Workers -> Place({"idle", "load", "exited"})]
    /\ enqueues \in Nat

\* Whatever answers for a reserved key: its caller until the job is in the
\* queue, then the queue, then a worker.
CallersOf(k) == { c \in Callers : k \in caller[c].keys /\ caller[c].pc # "checked" }
JobsOf(k)    == { i \in DOMAIN jobs : jobs[i] = k }
WorkersOf(k) == { w \in Workers : k \in worker[w].keys }

\* A key is reserved exactly as long as one holder answers for it: it is never
\* loaded twice at once, and no outcome of an Enqueue or a load leaks a
\* reservation, after which the key would never be prefetched again.
OneHolder ==
    \A k \in Keys :
        Cardinality(CallersOf(k)) + Cardinality(JobsOf(k)) + Cardinality(WorkersOf(k))
            = IF k \in queued THEN 1 ELSE 0

\* While the prefetcher runs a reserved key comes free again, however full the
\* queue is and however the load ends.
KeysComeFree == \A k \in Keys : k \in queued ~> (k \notin queued \/ closed)

\* After Stop the workers finish what is queued and exit.
WorkersExit == closed ~> (jobs = <<>> /\ \A w \in Workers : worker[w].pc = "exited")

\* A key enqueued when the prefetcher is stopped is dropped; the caller, a client's
\* request, is not disturbed.
StoppedEnqueueDrops == \A c \in Callers : caller[c].pc # "panicked"
===============================================================================
