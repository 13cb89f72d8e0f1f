------------------------------- MODULE Prefetch -------------------------------
(***************************************************************************)
(* Prefetching as a whole (internal/proxy/prefetch.go and handler.go): a    *)
(* client's request leaves the template of a request for the page it        *)
(* predicts and enqueues the page's key; a worker of the Prefetcher takes   *)
(* the template, asks the upstream unless errors have put prefetching on    *)
(* hold, and signals the keys it has stored, so that the next hit is        *)
(* answered as PREFETCH and counted as a prefetch of use.                   *)
(*                                                                          *)
(* A key may come into the cache and leave it between any two of these      *)
(* steps (modules Cache and Fetch have how), so a check whether it is there *)
(* has either outcome.  The same holds of the rate limiter and of           *)
(* cacheIsPolluted.  A template may be over a minute old, a signal over     *)
(* five, and a pause of five seconds over, at any time.                     *)
(***************************************************************************)
EXTENDS Prefetcher

CONSTANT MaxTemplates   \* maxPrefetchRequests

ASSUME PrefetchAssumption == MaxTemplates \in Nat \ {0}

VARIABLES
    templates,  \* keys of prefetchRequests
    outdated,   \* those of them that are older than prefetchRequestTTL
    paused,     \* prefetchPausedUntil is ahead
    load,       \* how far each worker is in process and Prefetch
    signals,    \* keys of prefetched that are not older than prefetchSignalTTL
    unclaimed,  \* history: per key, loads counted as executed, less PREFETCH answers
    overruns    \* history: requests sent to the upstream in this pause

proxyVars == <<templates, outdated, paused, load, signals, unclaimed, overruns>>
prefetchVars == <<vars, proxyVars>>

\* w goes on to the given place with its key.
Proceed(w, place) == load' = [load EXCEPT ![w] = place]

-------------------------------------------------------------------------------
(* A client's request that predicts the page of key k. *)

RememberPrefetchRequest(k) ==
    LET full == Cardinality(templates) >= MaxTemplates
        kept == IF full THEN templates \ outdated ELSE templates
    IN IF Cardinality(kept) >= MaxTemplates
       THEN templates' = kept /\ outdated' = outdated \cap kept
       ELSE templates' = kept \cup {k} /\ outdated' = (outdated \cap kept) \ {k}

\* Mutation of MaybePrefetchForRequest: a key that is enqueued is marked at once.
MarkAtEnqueue(c, k) ==
    /\ Enqueue(c, k)
    /\ RememberPrefetchRequest(k)
    /\ signals' = signals \cup {k}
    /\ UNCHANGED <<paused, load, unclaimed, overruns>>

\* The template is there before the key is enqueued, so it is also there when the
\* key turns out to be reserved or the queue to be full, and nothing takes it.
MaybePrefetchForRequest(c, k) ==
    /\ Enqueue(c, k)
    /\ RememberPrefetchRequest(k)
    /\ UNCHANGED <<paused, load, signals, unclaimed, overruns>>

-------------------------------------------------------------------------------
(* A worker. *)

TakeJob(w) ==
    /\ Take(w)
    /\ Proceed(w, "begun")
    /\ UNCHANGED <<templates, outdated, paused, signals, unclaimed, overruns>>

\* Mutation of Admit: the pause is not looked at.
AdmitInPause(w) ==
    /\ load[w] = "begun"
    /\ templates' = templates \ worker[w].keys
    /\ outdated' = outdated \ worker[w].keys
    /\ \/ Proceed(w, "failed")
       \/ worker[w].keys \subseteq templates \ outdated /\ Proceed(w, "allowed")
    /\ UNCHANGED <<vars, paused, signals, unclaimed, overruns>>

\* takePrefetchRequest and prefetchAllowed; the limiter may refuse at any time.
Admit(w) ==
    /\ load[w] = "begun"
    /\ templates' = templates \ worker[w].keys
    /\ outdated' = outdated \ worker[w].keys
    /\ \/ Proceed(w, "failed")
       \/ worker[w].keys \subseteq templates \ outdated /\ ~paused /\ Proceed(w, "allowed")
    /\ UNCHANGED <<vars, paused, signals, unclaimed, overruns>>

\* A key that is cached by now is skipped, and so is one the cache would not keep.
SkipOrSend(w) ==
    /\ load[w] = "allowed"
    /\ \/ Proceed(w, "failed") /\ UNCHANGED overruns
       \/ /\ Proceed(w, "sent")
          /\ overruns' = IF paused THEN overruns + 1 ELSE overruns
    /\ UNCHANGED <<vars, templates, outdated, paused, signals, unclaimed>>

\* The response is stored; or it may not be, or the timeout is over; or it is an
\* error, which puts prefetching on hold.
Answer(w) ==
    /\ load[w] = "sent"
    /\ \/ Proceed(w, "stored") /\ UNCHANGED paused
       \/ Proceed(w, "failed") /\ UNCHANGED paused
       \/ Proceed(w, "failed") /\ paused' = TRUE
    /\ UNCHANGED <<vars, templates, outdated, signals, unclaimed, overruns>>

\* The load is counted and, by the outcome hook, its key marked as prefetched.
\* The item stored may be gone by now, or a hit may have met it.
MarkPrefetched(w) ==
    /\ load[w] = "stored"
    /\ Proceed(w, "done")
    /\ signals' = signals \cup worker[w].keys
    /\ unclaimed' = [k \in Keys |-> unclaimed[k] + (IF k \in worker[w].keys THEN 1 ELSE 0)]
    /\ UNCHANGED <<vars, templates, outdated, paused, overruns>>

\* However the load ended, its key is free again.
Release(w) ==
    /\ load[w] \in {"failed", "done"}
    /\ Loaded(w)
    /\ Proceed(w, "none")
    /\ UNCHANGED <<templates, outdated, paused, signals, unclaimed, overruns>>

-------------------------------------------------------------------------------
(* The rest of the proxy, and time. *)

\* A request that has found a fresh item, perhaps a while ago, asks for the signal
\* of its key.
ConsumePrefetchSignal(k) ==
    /\ k \in signals
    /\ signals' = signals \ {k}
    /\ unclaimed' = [unclaimed EXCEPT ![k] = @ - 1]
    /\ UNCHANGED <<vars, templates, outdated, paused, load, overruns>>

\* A client's miss ends in an error of the upstream.
ClientFetchFails ==
    /\ paused' = TRUE
    /\ UNCHANGED <<vars, templates, outdated, load, signals, unclaimed, overruns>>

PauseEnds ==
    /\ paused
    /\ paused' = FALSE
    /\ overruns' = 0
    /\ UNCHANGED <<vars, templates, outdated, load, signals, unclaimed>>

\* A signal too old is as good as none.
SignalAges(k) ==
    /\ k \in signals
    /\ signals' = signals \ {k}
    /\ UNCHANGED <<vars, templates, outdated, paused, load, unclaimed, overruns>>

\* One too old is rejected, but stays until it is taken or the map is full.
TemplateAges(k) ==
    /\ k \in templates \ outdated
    /\ outdated' = outdated \cup {k}
    /\ UNCHANGED <<vars, templates, paused, load, signals, unclaimed, overruns>>

-------------------------------------------------------------------------------
PrefetchInit ==
    /\ Init
    /\ templates = {} /\ outdated = {} /\ signals = {}
    /\ paused = FALSE
    /\ load = [w \in Workers |-> "none"]
    /\ unclaimed = [k \in Keys |-> 0]
    /\ overruns = 0

Around(QueueStep) == QueueStep /\ UNCHANGED proxyVars

LoadStep(w) ==
    \/ TakeJob(w)
    \/ Admit(w)
    \/ SkipOrSend(w)
    \/ Answer(w)
    \/ MarkPrefetched(w)
    \/ Release(w)
    \/ Around(WorkerExits(w))

KeyStep(k) ==
    \/ ConsumePrefetchSignal(k)
    \/ SignalAges(k)
    \/ TemplateAges(k)

PrefetchNext ==
    \/ \E c \in Callers : \/ Around(EnqueueStep(c))
                         \/ \E k \in Keys : MaybePrefetchForRequest(c, k)
    \/ \E w \in Workers : LoadStep(w)
    \/ \E k \in Keys : KeyStep(k)
    \/ ClientFetchFails
    \/ PauseEnds
    \/ Around(Stop)
    \/ Around(StopReturns)

PrefetchSpec == PrefetchInit /\ [][PrefetchNext]_prefetchVars

\* Every goroutine keeps running, and a request to the upstream ends by the
\* prefetch timeout at the latest.
PrefetchFairSpec ==
    /\ PrefetchSpec
    /\ \A c \in Callers : WF_prefetchVars(Around(EnqueueStep(c)))
    /\ \A w \in Workers : WF_prefetchVars(LoadStep(w))

-------------------------------------------------------------------------------
\* No hit is answered as PREFETCH without a load of its own that was counted as
\* executed: the share of prefetches of use is never above one, whatever becomes of
\* the items and however loads, hits and the ends of the signals overlap.  (The item
\* may be another than the one the prefetch stored.)
HitsFollowLoads == \A k \in Keys : unclaimed[k] >= 0

\* After an error prefetching sends no more than what the workers had already been
\* allowed to send, until the pause is over.
PauseHolds == overruns <= Cardinality(Workers)
===============================================================================
