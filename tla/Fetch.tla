--------------------------------- MODULE Fetch ---------------------------------
(***************************************************************************)
(* The request path of the proxy for one cache key (internal/proxy/         *)
(* handler.go): lookups, stale-while-revalidate, stale-if-error,            *)
(* refresh-ahead, and upstream fetches collapsed into a single flight,      *)
(* while the upstream's data changes and purges follow.                     *)
(*                                                                          *)
(* A fetch takes its token, reads the upstream and stores, in three steps.  *)
(* Purge number n announces change number n of the data and carries no      *)
(* version, so the tracker compares nothing but sequence numbers (module    *)
(* Invalidation has the rest).  Streaming is off, as it is by default.  A   *)
(* prefetch is a request that nobody waits for.                             *)
(***************************************************************************)
EXTENDS Integers

CONSTANTS Requests,    \* client requests and prefetches of the key
          Flight,      \* the flight that inflight holds for the key
          None,        \* no item, no answer, nobody
          MaxUpdates   \* bound on the changes of the data

ASSUME FetchAssumption ==
    /\ Flight \notin Requests
    /\ None \notin Requests \cup {Flight}
    /\ MaxUpdates \in Nat

VARIABLES
    data,     \* number of changes of the upstream's data
    seq,      \* purges the tracker has recorded
    applied,  \* purges whose deletions are done as well
    entry,    \* the cached item
    call,     \* the upstream fetches: of the flight, or of a request alone
    leader,   \* the request that started the flight and waits for it, if any
    refresh,  \* the key's mark in refreshing
    req,      \* where each request is in ServeHTTP
    answers   \* history: the answers the last step gave

vars == <<data, seq, applied, entry, call, leader, refresh, req, answers>>

Fetchers == Requests \cup {Flight}

Phases   == {"fresh", "revalidate", "ifError"}
Kinds    == {"ok", "failed", "error"}

ASSUME NoItem == None \notin [data : Nat, token : Nat, phase : Phases] \cup Nat

\* cacheable is fetchAndStore's argument; an error comes without data.
Call(pc, cacheable) == [pc |-> pc, cacheable |-> cacheable, token |-> 0, data |-> 0,
                        kind |-> "error", stored |-> FALSE]
NoCall == Call("none", FALSE)
Done(kind, d, stored) == [Call("done", FALSE) EXCEPT !.kind = kind, !.data = d,
                                                     !.stored = stored]

\* A request is idle before it comes and after its answer, and may come again.
\* stale is the data of an item looked up that is not fresh.  since and late are
\* history: the purges applied when the request came, and
\* whether it joined a flight that had already stored its response.
Req(pc, stale) == [pc |-> pc, stale |-> stale, since |-> applied, late |-> FALSE]
Idle == [pc |-> "idle", stale |-> None, since |-> 0, late |-> FALSE]

\* What the client of request r, which is in state q, gets: an item of the cache,
\* or a response, stored or not, that was fetched for a request.
Cached(r, q, d) ==
    [to |-> r, since |-> q.since, late |-> q.late,
     kind |-> "ok", data |-> d, stored |-> TRUE, for |-> None]

Fetched(r, q, c, for) ==
    [to |-> r, since |-> q.since, late |-> q.late,
     kind |-> c.kind, data |-> c.data, stored |-> c.stored, for |-> for]

\* The end of ServeHTTP: a failure is covered up with a stale item.
Served(r, c, for) ==
    IF req[r].stale # None /\ c.kind \in {"failed", "error"}
    THEN Cached(r, req[r], req[r].stale)
    ELSE Fetched(r, req[r], c, for)

Quiet == answers' = {}

-------------------------------------------------------------------------------
(* The upstream, the purges and the cache. *)

Update ==
    /\ data < MaxUpdates
    /\ data' = data + 1
    /\ Quiet
    /\ UNCHANGED <<seq, applied, entry, call, leader, refresh, req>>

\* Mutation of RecordPurge: an event that comes again is applied again.
RecordPurgeAgain ==
    /\ seq = applied
    /\ seq' = seq + 1
    /\ Quiet
    /\ UNCHANGED <<data, applied, entry, call, leader, refresh, req>>

\* HandleEvent records a purge, of a change that the upstream has committed.
RecordPurge ==
    /\ seq < data
    /\ seq = applied
    /\ seq' = seq + 1
    /\ Quiet
    /\ UNCHANGED <<data, applied, entry, call, leader, refresh, req>>

\* Mutation of DeleteEntry: items past their freshness are left to expire.
DeleteFreshEntry ==
    /\ seq # applied
    /\ applied' = seq
    /\ entry' = IF entry # None /\ entry.phase # "fresh" THEN entry ELSE None
    /\ Quiet
    /\ UNCHANGED <<data, seq, call, leader, refresh, req>>

\* Then it deletes what it finds under the tag, which may not include an item
\* stored since.
DeleteEntry ==
    /\ seq # applied
    /\ applied' = seq
    /\ \/ entry' = None
       \/ entry # None /\ entry.token = seq /\ UNCHANGED entry
    /\ Quiet
    /\ UNCHANGED <<data, seq, call, leader, refresh, req>>

\* Time passes over the ends of the item's windows; any of them may be empty.
Age(phase) ==
    /\ entry # None
    /\ \/ entry.phase = "fresh" /\ phase # "fresh"
       \/ entry.phase = "revalidate" /\ phase = "ifError"
    /\ entry' = [entry EXCEPT !.phase = phase]
    /\ Quiet
    /\ UNCHANGED <<data, seq, applied, call, leader, refresh, req>>

Evict ==
    /\ entry # None
    /\ entry' = None
    /\ Quiet
    /\ UNCHANGED <<data, seq, applied, call, leader, refresh, req>>

-------------------------------------------------------------------------------
(* fetchAndStore. *)

Begin(f) ==
    /\ call[f].pc = "begin"
    /\ call' = [call EXCEPT ![f].pc = "read", ![f].token = seq]
    /\ Quiet
    /\ UNCHANGED <<data, seq, applied, entry, leader, refresh, req>>

\* The upstream answers, with an error of its own or without, or does not.
ReadUpstream(f, kind) ==
    /\ call[f].pc = "read"
    /\ call' = [call EXCEPT ![f] = IF kind = "error" THEN Done("error", 0, FALSE)
                                   ELSE [@ EXCEPT !.pc = "store", !.kind = kind, !.data = data]]
    /\ Quiet
    /\ UNCHANGED <<data, seq, applied, entry, leader, refresh, req>>

\* Mutation of MayStore: the token is not looked at.
StoreAnyway(f) == call[f].cacheable /\ call[f].kind = "ok"

MayStore(f) == call[f].cacheable /\ call[f].kind = "ok" /\ call[f].token = seq

\* The policy may not allow the response, a personal one for instance, and the
\* cache may refuse the item.
StoreResponse(f) ==
    /\ call[f].pc = "store"
    /\ \/ /\ MayStore(f)
          /\ entry' = [data |-> call[f].data, token |-> call[f].token, phase |-> "fresh"]
          /\ call' = [call EXCEPT ![f] = Done(@.kind, @.data, TRUE)]
       \/ /\ call' = [call EXCEPT ![f] = Done(@.kind, @.data, FALSE)]
          /\ UNCHANGED entry
    /\ Quiet
    /\ UNCHANGED <<data, seq, applied, leader, refresh, req>>

-------------------------------------------------------------------------------
(* ServeHTTP up to the fetch. *)

Hit(r) ==
    /\ req[r].pc = "idle"
    /\ entry # None /\ entry.phase = "fresh"
    /\ req' = [req EXCEPT ![r] = Req("hit", None)]
    /\ answers' = {Cached(r, Req("hit", None), entry.data)}
    /\ UNCHANGED <<data, seq, applied, entry, call, leader, refresh>>

StaleHit(r) ==
    /\ req[r].pc = "idle"
    /\ entry # None /\ entry.phase = "revalidate"
    /\ req' = [req EXCEPT ![r] = Req("revalidate", entry.data)]
    /\ Quiet
    /\ UNCHANGED <<data, seq, applied, entry, call, leader, refresh>>

\* Past its window for revalidation an item is the fallback on errors; past all its
\* windows it is gone.
Miss(r) ==
    /\ req[r].pc = "idle"
    /\ entry # None => entry.phase = "ifError"
    /\ \E pc \in {"collapse", "direct"} :
          req' = [req EXCEPT ![r] = Req(pc, IF entry = None THEN None ELSE entry.data)]
    /\ Quiet
    /\ UNCHANGED <<data, seq, applied, entry, call, leader, refresh>>

\* A request the policy does not serve from the cache.
Bypass(r) ==
    /\ req[r].pc = "idle"
    /\ req' = [req EXCEPT ![r] = Req("alone", None)]
    /\ call' = [call EXCEPT ![r] = Call("begin", FALSE)]
    /\ Quiet
    /\ UNCHANGED <<data, seq, applied, entry, leader, refresh>>

-------------------------------------------------------------------------------
(* The single flight. *)

\* DoChan: join the flight or start one.
DoChan(who) ==
    IF call[Flight].pc = "none"
    THEN /\ call' = [call EXCEPT ![Flight] = Call("begin", TRUE)]
         /\ leader' = who
    ELSE UNCHANGED <<call, leader>>

\* The stale item is the answer; the flight goes on without the request.
Revalidate(r) ==
    /\ req[r].pc = "revalidate"
    /\ DoChan(None)
    /\ req' = [req EXCEPT ![r] = Idle]
    /\ answers' = {Cached(r, req[r], req[r].stale)}
    /\ UNCHANGED <<data, seq, applied, entry, refresh>>

JoinFlight(r) ==
    /\ req[r].pc = "collapse"
    /\ DoChan(r)
    /\ req' = [req EXCEPT ![r].pc = "wait",
                          ![r].late = call[Flight].pc = "done" /\ call[Flight].stored]
    /\ Quiet
    /\ UNCHANGED <<data, seq, applied, entry, refresh>>

\* A request with conditions or a body fetches for itself, and may store.
FetchDirectly(r) ==
    /\ req[r].pc = "direct"
    /\ req' = [req EXCEPT ![r].pc = "alone"]
    /\ call' = [call EXCEPT ![r] = Call("begin", TRUE)]
    /\ Quiet
    /\ UNCHANGED <<data, seq, applied, entry, leader, refresh>>

\* Mutation of Shares: whoever waits gets the response.
SharesAnything(r) == TRUE

\* A follower shares an error or a response that was stored.
Shares(r) == r = leader \/ call[Flight].kind = "error" \/ call[Flight].stored

\* The flight is removed and its result sent to everyone under one lock; a
\* follower that may not share it fetches alone, and does not store.
FlightLands ==
    LET served == { r \in Requests : req[r].pc = "wait" /\ Shares(r) }
        others == { r \in Requests : req[r].pc = "wait" /\ ~Shares(r) }
    IN  /\ call[Flight].pc = "done"
        /\ req' = [r \in Requests |->
                     IF r \in served THEN Idle
                     ELSE IF r \in others THEN [req[r] EXCEPT !.pc = "alone"]
                     ELSE req[r]]
        /\ call' = [f \in Fetchers |->
                      IF f = Flight THEN NoCall
                      ELSE IF f \in others THEN Call("begin", FALSE)
                      ELSE call[f]]
        /\ answers' = { Served(r, call[Flight], leader) : r \in served }
        /\ leader' = None
        /\ refresh' = IF refresh = "waiting" THEN "done" ELSE refresh
        /\ UNCHANGED <<data, seq, applied, entry>>

FetchedAlone(r) ==
    /\ req[r].pc = "alone"
    /\ call[r].pc = "done"
    /\ req' = [req EXCEPT ![r] = Idle]
    /\ answers' = {Served(r, call[r], r)}
    /\ call' = [call EXCEPT ![r] = NoCall]
    /\ UNCHANGED <<data, seq, applied, entry, leader, refresh>>

\* Mutation of Leave: the flight ends with its leader.
LeaveEndsFlight(r) ==
    /\ req[r].pc \in {"wait", "alone"}
    /\ req' = [req EXCEPT ![r] = Idle]
    /\ call' = IF leader = r THEN [call EXCEPT ![r] = NoCall, ![Flight] = NoCall]
               ELSE [call EXCEPT ![r] = NoCall]
    /\ leader' = IF leader = r THEN None ELSE leader
    /\ Quiet
    /\ UNCHANGED <<data, seq, applied, entry, refresh>>

\* The client disconnects, or the prefetch times out.  The flight does not
\* depend on it; a fetch of its own is cancelled.
Leave(r) ==
    /\ req[r].pc \in {"wait", "alone"}
    /\ req' = [req EXCEPT ![r] = Idle]
    /\ call' = [call EXCEPT ![r] = NoCall]
    /\ leader' = IF leader = r THEN None ELSE leader
    /\ Quiet
    /\ UNCHANGED <<data, seq, applied, entry, refresh>>

-------------------------------------------------------------------------------
(* Refresh-ahead, after a hit. *)

NoRefresh(r) ==
    /\ req[r].pc = "hit"
    /\ req' = [req EXCEPT ![r] = Idle]
    /\ Quiet
    /\ UNCHANGED <<data, seq, applied, entry, call, leader, refresh>>

MarkRefreshing(r) ==
    /\ req[r].pc = "hit"
    /\ refresh = "free"
    /\ refresh' = "marked"
    /\ req' = [req EXCEPT ![r].pc = "refresh"]
    /\ Quiet
    /\ UNCHANGED <<data, seq, applied, entry, call, leader>>

\* Out of budget, or paused after an upstream error.
RefreshRefused(r) ==
    /\ req[r].pc = "refresh"
    /\ refresh' = "free"
    /\ req' = [req EXCEPT ![r] = Idle]
    /\ Quiet
    /\ UNCHANGED <<data, seq, applied, entry, call, leader>>

StartRefresh(r) ==
    /\ req[r].pc = "refresh"
    /\ DoChan(None)
    /\ refresh' = "waiting"
    /\ req' = [req EXCEPT ![r] = Idle]
    /\ Quiet
    /\ UNCHANGED <<data, seq, applied, entry>>

EndRefresh ==
    /\ refresh = "done"
    /\ refresh' = "free"
    /\ Quiet
    /\ UNCHANGED <<data, seq, applied, entry, call, leader, req>>

-------------------------------------------------------------------------------
Init ==
    /\ data = 0 /\ seq = 0 /\ applied = 0
    /\ entry = None
    /\ call = [f \in Fetchers |-> NoCall]
    /\ leader = None
    /\ refresh = "free"
    /\ req = [r \in Requests |-> Idle]
    /\ answers = {}

Arrive(r) == Hit(r) \/ StaleHit(r) \/ Miss(r) \/ Bypass(r)

RequestStep(r) ==
    \/ Revalidate(r) \/ JoinFlight(r) \/ FetchDirectly(r) \/ FetchedAlone(r)
    \/ NoRefresh(r) \/ MarkRefreshing(r) \/ RefreshRefused(r) \/ StartRefresh(r)

FetchStep(f) == Begin(f) \/ (\E kind \in Kinds : ReadUpstream(f, kind)) \/ StoreResponse(f)

Next ==
    \/ Update \/ RecordPurge \/ DeleteEntry
    \/ \E phase \in Phases : Age(phase)
    \/ Evict
    \/ \E f \in Fetchers : FetchStep(f)
    \/ \E r \in Requests : Arrive(r) \/ RequestStep(r) \/ Leave(r)
    \/ FlightLands
    \/ EndRefresh

Spec == Init /\ [][Next]_vars

-------------------------------------------------------------------------------
Items == [data : Nat, token : Nat, phase : Phases]

Answers == [to : Requests, since : Nat, late : BOOLEAN, kind : Kinds, data : Nat,
            stored : BOOLEAN, for : Requests \cup {None}]

CallState == [pc : {"none", "begin", "read", "store", "done"}, cacheable : BOOLEAN,
              token : Nat, data : Nat, kind : Kinds, stored : BOOLEAN]

ReqState == [pc : {"idle", "hit", "refresh", "revalidate", "collapse", "direct",
                   "wait", "alone"},
             stale : Nat \cup {None}, since : Nat, late : BOOLEAN]

TypeOK ==
    /\ data \in Nat /\ seq \in 0..data /\ applied \in 0..seq
    /\ entry \in Items \cup {None}
    /\ call \in [Fetchers -> CallState]
    /\ leader \in Requests \cup {None}
    /\ refresh \in {"free", "marked", "waiting", "done"}
    /\ req \in [Requests -> ReqState]
    /\ answers \in SUBSET Answers

\* What the cache holds was read after the last change whose purge has been
\* applied, by whichever of the flight, a direct fetch or a revalidation it was
\* fetched.
CacheCurrent == entry # None => entry.data >= applied

\* A response that was not stored, a personal one among them, goes to the
\* request it was fetched for and to nobody who waited for the same flight.
PrivateStaysPrivate ==
    \A a \in answers : a.kind # "error" /\ ~a.stored => a.for = a.to

\* A request that came after a purge was applied is not answered with what was
\* read before the change, from the cache, from a flight begun earlier or from
\* the fallback on errors - unless it joined a flight between its store and its
\* end.
FreshAfterPurge ==
    \A a \in answers : a.kind # "error" /\ ~a.late => a.data >= a.since

\* Whoever waits for the flight has a flight to wait for, also after its leader
\* has left; whoever fetches alone has a fetch under way; and the refresh mark
\* belongs to somebody who will take it back.  A lost result would leave a client
\* waiting, or the key never to be refreshed again.
NobodyWaitsInVain ==
    /\ \A r \in Requests : req[r].pc = "wait" => call[Flight].pc # "none"
    /\ \A r \in Requests : req[r].pc = "alone" => call[r].pc # "none"
    /\ refresh = "marked" => \E r \in Requests : req[r].pc = "refresh"
    /\ refresh = "waiting" => call[Flight].pc # "none"
===============================================================================
