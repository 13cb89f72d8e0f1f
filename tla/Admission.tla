------------------------------- MODULE Admission -------------------------------
(***************************************************************************)
(* Who may push whom out of the cache: the counters of a TinyLFU sketch     *)
(* (internal/cache/tinylfu.go), the window of recent keys (lru_window.go)   *)
(* and the requests that count, measure, store and touch in separate steps  *)
(* (internal/proxy/handler.go, fetchAndStore, recordAccess), around the      *)
(* store (module Cache): every step is one of the store's or leaves it.      *)
(***************************************************************************)
EXTENDS Cache

CONSTANTS Callers,        \* goroutines that serve requests
          Rows, Width,    \* shape of the sketch: a set of rows, counters in a row
          Index,          \* Index[row][key]: the counter of a key
          Sample,         \* agingStep: increments between two halvings
          MinFrequency,   \* what a key needs that is not in the window
          WindowSize,
          Size,           \* what each key's item weighs
          MaxRequests     \* bound on the requests

ASSUME AdmissionAssumption ==
    /\ Width \in Nat
    /\ Index \in [Rows -> [Keys -> 1..Width]]
    /\ Rows # {}
    /\ Sample \in Nat \ {0}
    /\ MinFrequency \in Nat \ {0, 1}
    /\ WindowSize \in Nat \ {0}
    /\ Size \in [Keys -> Sizes]
    /\ MaxRequests \in Nat
    /\ None \notin Keys

VARIABLES
    counters,    \* CountMinSketch.counters
    ageCounter,  \* CountMinSketch.ageCounter
    window,      \* keys of the window, the last touched first
    call,        \* where each caller is, with its key and what it measured
    exact,       \* history: the key's own share of its counters
    requests     \* history: how often the key was counted

sketch        == <<counters, ageCounter, exact, requests>>
admissionVars == <<vars, sketch, window, call>>

-------------------------------------------------------------------------------
(* The sketch. *)

\* A counter of one stays one for ever.
Halved(n) == IF n > 1 THEN n \div 2 ELSE n

Estimates(k) == { counters[row][Index[row][k]] : row \in Rows }
Estimate(k)  == CHOOSE n \in Estimates(k) : \A m \in Estimates(k) : n <= m

\* Mutation of Aged: the counters are halved a first time only.
AgedOnce == ageCounter + 1 = Sample

\* Is this the increment after which all counters are halved?
Aged == (ageCounter + 1) % Sample = 0

\* Mutation of Counted: a counter of one decays to nothing.
CountedToNothing(counter, row, k) ==
    [i \in 1..Width |-> LET n == IF i = Index[row][k] THEN counter[i] + 1 ELSE counter[i]
                        IN  IF Aged THEN n \div 2 ELSE n]

Counted(counter, row, k) ==
    [i \in 1..Width |-> LET n == IF i = Index[row][k] THEN counter[i] + 1 ELSE counter[i]
                        IN  IF Aged THEN Halved(n) ELSE n]

\* The counters are 32 bits wide; SketchBounded says why none is ever full.
Increment(k) ==
    /\ counters' = [row \in Rows |-> Counted(counters[row], row, k)]
    /\ ageCounter' = ageCounter + 1
    /\ exact' = [x \in Keys |-> LET n == IF x = k THEN exact[x] + 1 ELSE exact[x]
                                IN  IF Aged THEN Halved(n) ELSE n]
    /\ requests' = [requests EXCEPT ![k] = @ + 1]

\* A victim more than 70 percent of their frequencies together.
Pollutes(candidate, victim) ==
    candidate > 0 /\ victim > 0 /\ 10 * victim > 7 * (victim + candidate)

-------------------------------------------------------------------------------
(* The window is ordered and finds its keys by a map, as a shard does. *)

\* Past its size the window forgets the key touched longest ago.
Touched(k) ==
    LET order == ToFront(window, k)
    IN  IF Len(order) > WindowSize THEN Front(order) ELSE order

-------------------------------------------------------------------------------
(* The store. *)

\* wouldOverflowLocked.
Fits(k) ==
    LET s == ShardOf[k]
    IN  ~OverLimit(Cardinality(Here(s) \cup {k}),
                   bytes[s] - SizeOf(items, {k} \cap Stored) + Size[k])

\* VictimFor: the key of the shard that would go first.
Victim(k) == IF lru[ShardOf[k]] = <<>> THEN None ELSE Last(lru[ShardOf[k]])

-------------------------------------------------------------------------------
(* A request. *)

Idle == [pc |-> "idle", key |-> None, candidate |-> 1, victim |-> None,
         victimFrequency |-> 0, polluted |-> FALSE]

At(c, pc) == call[c].pc = pc

\* A hit moves the item to the front of the list, then counts the key.
Hit(c, k) ==
    /\ At(c, "idle")
    /\ ageCounter < MaxRequests
    /\ k \in Stored /\ ~Expired(k)
    /\ Lookup(k)
    /\ call' = [call EXCEPT ![c] = [Idle EXCEPT !.pc = "hit", !.key = k]]
    /\ UNCHANGED <<sketch, window>>

CountHit(c) ==
    /\ At(c, "hit")
    /\ Increment(call[c].key)
    /\ call' = [call EXCEPT ![c].pc = "touch"]
    /\ UNCHANGED <<vars, window>>

\* A response fetched on a miss or to refresh what is stored; of items larger
\* than the shard nothing is counted.
CountFetch(c, k) ==
    /\ At(c, "idle")
    /\ Acceptable(Size[k])
    /\ ageCounter < MaxRequests
    /\ Increment(k)
    /\ call' = [call EXCEPT ![c] = [Idle EXCEPT !.pc = "measure", !.key = k]]
    /\ UNCHANGED <<vars, window>>

\* computeMetrics, its readings taken at once; as long as the cache is less than
\* half full, by the number of its items, it is content with a frequency of one.
Measure(c) ==
    /\ At(c, "measure")
    /\ LET k == call[c].key
           v == Victim(k)
       IN  call' = [call EXCEPT ![c] =
             IF Cardinality(Stored) < Capacity \div 2
             THEN [@ EXCEPT !.pc = "set"]
             ELSE [@ EXCEPT !.pc = "set", !.candidate = Estimate(k), !.victim = v,
                            !.victimFrequency = IF v = None THEN 0 ELSE Estimate(v),
                            !.polluted = v # None /\ Pollutes(Estimate(k), Estimate(v))]]
    /\ UNCHANGED <<vars, sketch, window>>

\* Set asks again who would go first; when that is the key itself, or nobody,
\* the measured victim stands.
VictimOf(c) ==
    LET v == Victim(call[c].key)
    IN  IF v \in {None, call[c].key}
        THEN [key |-> call[c].victim, frequency |-> call[c].victimFrequency]
        ELSE [key |-> v, frequency |-> Estimate(v)]

\* Mutation of ShouldStore: the least frequency is not asked for.
ShouldStoreAnyFrequency(c) ==
    \/ call[c].key \in ToSet(window)
    \/ call[c].candidate >= VictimOf(c).frequency

\* Does the key get in at another's expense?
ShouldStore(c) ==
    LET m == call[c]
        v == VictimOf(c)
    IN  \/ m.key \in ToSet(window)
        \/ /\ m.candidate >= v.frequency
           /\ ~m.polluted
           /\ v.key # None => ~Pollutes(Estimate(m.key), Estimate(v.key))
           /\ m.candidate >= MinFrequency

\* The caller's response, with its tags and lifetime.
StoreItem(c) ==
    /\ \E tags \in SUBSET Tags, removeAt \in RemovalTimes :
          Set(call[c].key, tags, Size[call[c].key], removeAt)
    /\ call' = [call EXCEPT ![c].pc = "touch"]
    /\ UNCHANGED <<sketch, window>>

StoreFits(c) ==
    /\ At(c, "set")
    /\ Fits(call[c].key)
    /\ StoreItem(c)

StoreEvicts(c) ==
    /\ At(c, "set")
    /\ ~Fits(call[c].key)
    /\ ShouldStore(c)
    /\ StoreItem(c)

\* Refused by admission, or by the tracker (module Invalidation).
Refuse(c) ==
    /\ At(c, "set")
    /\ call' = [call EXCEPT ![c].pc = "touch"]
    /\ UNCHANGED <<vars, sketch, window>>

\* The window is touched last, hit or miss, stored or not.
Touch(c) ==
    /\ At(c, "touch")
    /\ window' = Touched(call[c].key)
    /\ call' = [call EXCEPT ![c] = Idle]
    /\ UNCHANGED <<vars, sketch>>

\* What else happens to the store: lookups that are no hits of a request - of an
\* expired item, of a purge, before a prefetch - purges, the timers and the clock.
Apart ==
    /\ \/ \E k \in Keys : Lookup(k) \/ Delete(k) \/ TimerExpires(k) \/ TimerCallback(k)
       \/ Tick
    /\ UNCHANGED <<sketch, window, call>>

-------------------------------------------------------------------------------
AdmissionInit ==
    /\ Init
    /\ counters = [row \in Rows |-> [i \in 1..Width |-> 0]]
    /\ ageCounter = 0
    /\ window = <<>>
    /\ call = [c \in Callers |-> Idle]
    /\ exact = [k \in Keys |-> 0]
    /\ requests = [k \in Keys |-> 0]

AdmissionNext ==
    \/ \E c \in Callers : \/ \E k \in Keys : Hit(c, k) \/ CountFetch(c, k)
                          \/ CountHit(c)
                          \/ Measure(c)
                          \/ StoreFits(c)
                          \/ StoreEvicts(c)
                          \/ Refuse(c)
                          \/ Touch(c)
    \/ Apart

AdmissionSpec == AdmissionInit /\ [][AdmissionNext]_admissionVars

-------------------------------------------------------------------------------
(* What the counters are worth. *)

\* Two keys share their counter in a row.
Collide(row, k, other) == Index[row][k] = Index[row][other]

\* Whatever the collisions and the halvings, a key is never taken for less
\* frequent than it is: each of its counters holds at least its own share, halved
\* as often.
NeverUnderestimates ==
    \A row \in Rows, k \in Keys : exact[k] <= counters[row][Index[row][k]]

\* Halving keeps up with counting: no counter passes twice the sample, so none
\* fills up its 32 bits, where Estimate would return 0: the most frequent key of
\* all would be measured as a newcomer, and as a victim be worth nothing.
SketchBounded ==
    \A row \in Rows, i \in 1..Width : counters[row][i] <= Sample + (ageCounter % Sample)

\* A new key needs two requests to push out an established one: whoever evicts
\* was counted before this request as well, unless it shares a counter with
\* another key in every row.
NewcomersWait ==
    [][\A c \in Callers :
         /\ At(c, "set")
         /\ call'[c].pc # "set"
         /\ Stored \ Stored' # {}
         => \/ requests[call[c].key] >= 2
            \/ \A row \in Rows : \E k \in Keys \ {call[c].key} :
                 Collide(row, k, call[c].key)]_admissionVars
===============================================================================
