------------------------------ MODULE FetchProofs ------------------------------
(***************************************************************************)
(* No request path answers with what a purge has outdated, for any number   *)
(* of requests and changes.                                                 *)
(*                                                                          *)
(* The answers are only the last link of a chain: an item in the cache, a   *)
(* fetch on its way and an item that a request has looked up must each be   *)
(* recent enough for whoever may get them.  IInv says so of each, in terms  *)
(* of the purges applied when the request came.                             *)
(***************************************************************************)
EXTENDS Fetch, TLAPS

\* Fetch c gives nothing older than purge number since.
FreshFor(c, since) ==
    /\ c.pc = "read" => c.token >= since
    /\ c.pc \in {"store", "done"} /\ c.kind # "error" => c.data >= since

\* What is stored was read after its token was taken.
EntryInv == entry # None => entry.token >= applied /\ entry.data >= entry.token

CallInv ==
    \A f \in Fetchers :
        /\ call[f].pc = "read" => call[f].token <= seq
        /\ call[f].pc = "store" => call[f].data >= call[f].token

\* A request's fallback, its own fetch and the flight it leads serve it, and the
\* flight it has joined does if its response is stored after that.
RequestInv ==
    \A r \in Requests :
        /\ req[r].since <= applied
        /\ req[r].stale # None => req[r].stale >= req[r].since
        /\ req[r].pc = "revalidate" => req[r].stale # None
        /\ req[r].pc = "alone" => FreshFor(call[r], req[r].since)

FlightInv ==
    /\ leader # None => req[leader].pc = "wait" /\ FreshFor(call[Flight], req[leader].since)
    /\ \A r \in Requests :
           req[r].pc = "wait" /\ ~req[r].late /\ call[Flight].pc = "done" /\ call[Flight].stored
           => call[Flight].data >= req[r].since

IInv ==
    /\ TypeOK
    /\ EntryInv
    /\ CallInv
    /\ RequestInv
    /\ FlightInv
    /\ NobodyWaitsInVain
    /\ PrivateStaysPrivate
    /\ FreshAfterPurge

LEMMA InitIInv == Init => IInv
BY FetchAssumption
DEF Init, IInv, TypeOK, EntryInv, CallInv, RequestInv, FlightInv, NobodyWaitsInVain,
    PrivateStaysPrivate, FreshAfterPurge, NoCall, Call, Idle, CallState, ReqState, Kinds,
    Fetchers, Items, Phases

\* A step that answers nobody.
LEMMA QuietAnswers ==
    ASSUME Quiet
    PROVE  answers' \in SUBSET Answers /\ PrivateStaysPrivate' /\ FreshAfterPurge'
BY DEF Quiet, PrivateStaysPrivate, FreshAfterPurge

-------------------------------------------------------------------------------
(* The upstream, the purges and the cache change nothing of a request; purges  *)
(* and changes only grow.                                                      *)

LEMMA CacheStep ==
    ASSUME IInv,
           \/ Update \/ RecordPurge \/ DeleteEntry
           \/ \E phase \in Phases : Age(phase)
           \/ Evict
    PROVE  IInv'
<1>. USE FetchAssumption, NoItem DEF IInv, TypeOK
<1>1. UNCHANGED <<call, leader, refresh, req>> /\ Quiet
    BY DEF Update, RecordPurge, DeleteEntry, Age, Evict
<1>2. data' \in Nat /\ seq' \in 0..data' /\ applied' \in 0..seq' /\ seq <= seq' /\ applied <= applied'
    BY DEF Update, RecordPurge, DeleteEntry, Age, Evict
<1>3. entry' \in Items \cup {None} /\ EntryInv'
    <2>1. CASE Update \/ RecordPurge
        BY <2>1 DEF Update, RecordPurge, EntryInv
    <2>2. CASE DeleteEntry
        BY <2>2 DEF DeleteEntry, EntryInv
    <2>3. ASSUME NEW phase \in Phases, Age(phase) PROVE entry' \in Items \cup {None} /\ EntryInv'
        BY <2>3 DEF Age, EntryInv, Items
    <2>4. CASE Evict
        BY <2>4 DEF Evict, EntryInv
    <2>. QED  BY <2>1, <2>2, <2>3, <2>4
<1>4. TypeOK'
    BY <1>1, <1>2, <1>3, QuietAnswers
<1>5. CallInv'
    BY <1>1, <1>2 DEF CallInv, CallState
<1>6. RequestInv'
    BY <1>1, <1>2 DEF RequestInv, ReqState, FreshFor
<1>7. FlightInv' /\ NobodyWaitsInVain'
    BY <1>1 DEF FlightInv, NobodyWaitsInVain, FreshFor
<1>. QED  BY <1>1, <1>3, <1>4, <1>5, <1>6, <1>7, QuietAnswers

-------------------------------------------------------------------------------
(* A fetch: its token covers what has been applied, and what it reads covers    *)
(* its token.                                                                   *)

LEMMA FetchStepKeeps ==
    ASSUME IInv, NEW f \in Fetchers, FetchStep(f)
    PROVE  IInv'
<1>. USE FetchAssumption, NoItem DEF IInv, TypeOK, Fetchers
<1>0. seq \in Nat /\ applied \in Nat
    OBVIOUS
<1>1. /\ UNCHANGED <<data, seq, applied, leader, refresh, req>> /\ Quiet
      /\ call[f] \in CallState /\ call[f].pc \in {"begin", "read", "store"}
    BY DEF FetchStep, Begin, ReadUpstream, StoreResponse
<1>2. PICK c \in CallState :
         /\ call' = [call EXCEPT ![f] = c]
         /\ c.pc # "none"
         /\ c.pc = "read" => c.token = seq
         /\ c.pc = "store" => c.data = data /\ call[f].pc = "read" /\ c.token = call[f].token
         /\ c.pc = "done" /\ c.kind # "error" => call[f].pc = "store" /\ c.data = call[f].data
                                                 /\ c.kind = call[f].kind
         /\ c.pc = "done" /\ c.stored => c.kind = "ok" /\ call[f].token = seq /\ call[f].pc = "store"
    <2>1. CASE Begin(f)
        <3>. DEFINE c == [call[f] EXCEPT !.pc = "read", !.token = seq]
        <3>1. c \in CallState /\ c.pc = "read" /\ c.token = seq
            BY <1>0, <1>1 DEF CallState
        <3>2. call' = [call EXCEPT ![f] = c] /\ call[f].pc = "begin"
            BY <2>1 DEF Begin
        <3>. HIDE DEF c
        <3>. QED  BY <3>1, <3>2
    <2>2. ASSUME NEW kind \in Kinds, ReadUpstream(f, kind)
          PROVE  \E c \in CallState :
                    /\ call' = [call EXCEPT ![f] = c]
                    /\ call[f].pc = "read"
                    /\ \/ c.pc = "done" /\ c.kind = "error" /\ ~c.stored
                       \/ c.pc = "store" /\ c.data = data /\ c.token = call[f].token
        <3>1. CASE kind = "error"
            <4>1. Done("error", 0, FALSE) \in CallState
                BY DEF Done, Call, CallState, Kinds
            <4>. QED  BY <2>2, <3>1, <4>1 DEF ReadUpstream, Done, Call
        <3>2. CASE kind # "error"
            <4>. DEFINE c == [call[f] EXCEPT !.pc = "store", !.kind = kind, !.data = data]
            <4>1. /\ c \in CallState /\ c.pc = "store" /\ c.data = data /\ c.token = call[f].token
                BY <1>1 DEF CallState
            <4>. QED  BY <2>2, <3>2, <4>1 DEF ReadUpstream
        <3>. QED  BY <3>1, <3>2
    <2>3. CASE StoreResponse(f)
        <3>1. ASSUME NEW s \in BOOLEAN
              PROVE  LET c == Done(call[f].kind, call[f].data, s)
                     IN  /\ c \in CallState /\ c.pc = "done" /\ c.kind = call[f].kind
                         /\ c.data = call[f].data /\ c.stored = s
            BY <1>1 DEF Done, Call, CallState
        <3>. QED  BY <2>3, <3>1 DEF StoreResponse, MayStore
    <2>. QED  BY <2>1, <2>2, <2>3 DEF FetchStep
<1>3. entry' \in Items \cup {None} /\ EntryInv'
    <2>1. CASE UNCHANGED entry
        BY <1>1, <2>1 DEF EntryInv
    <2>2. CASE entry' = [data |-> call[f].data, token |-> call[f].token, phase |-> "fresh"]
                /\ MayStore(f) /\ call[f].pc = "store"
        BY <1>1, <2>2 DEF MayStore, EntryInv, CallInv, Items, Phases, CallState
    <2>. QED  BY <2>1, <2>2 DEF FetchStep, Begin, ReadUpstream, StoreResponse
<1>4. call' \in [Fetchers -> CallState] /\ call'[f] = c /\ \A g \in Fetchers : g # f => call'[g] = call[g]
    BY <1>2
<1>5. TypeOK'
    BY <1>1, <1>3, <1>4, QuietAnswers
<1>6. CallInv'
    BY <1>1, <1>2, <1>4 DEF CallInv, CallState
<1>7. ASSUME NEW since \in Nat, since <= applied, FreshFor(call[f], since)
      PROVE  FreshFor(c, since)
    BY <1>1, <1>2, <1>7 DEF FreshFor, CallInv, CallState
<1>8. RequestInv'
    BY <1>1, <1>4, <1>7 DEF RequestInv, ReqState
<1>9. FlightInv'
    <2>1. leader # None => req[leader].pc = "wait" /\ FreshFor(call'[Flight], req[leader].since)
        BY <1>4, <1>7 DEF FlightInv, RequestInv, ReqState
    <2>2. ASSUME NEW r \in Requests, call'[Flight].pc = "done", call'[Flight].stored
          PROVE  req[r].pc = "wait" /\ ~req[r].late => call'[Flight].data >= req[r].since
        BY <1>1, <1>2, <1>4, <2>2 DEF FlightInv, RequestInv, CallInv, CallState, ReqState
    <2>. QED  BY <1>1, <2>1, <2>2 DEF FlightInv
<1>10. NobodyWaitsInVain'
    BY <1>1, <1>2, <1>4 DEF NobodyWaitsInVain
<1>. QED  BY <1>1, <1>3, <1>5, <1>6, <1>8, <1>9, <1>10, QuietAnswers

-------------------------------------------------------------------------------
(* ServeHTTP up to the fetch: what a request finds in the cache is as recent as *)
(* the purges applied when it came.                                             *)

LEMMA ArriveKeeps ==
    ASSUME IInv, NEW r \in Requests, Arrive(r)
    PROVE  IInv'
<1>. USE FetchAssumption, NoItem DEF IInv, TypeOK, Fetchers
<1>0. seq \in Nat /\ applied \in Nat
    OBVIOUS
<1>1. /\ UNCHANGED <<data, seq, applied, entry, leader, refresh>>
      /\ req[r].pc = "idle" /\ req[r] \in ReqState
    BY DEF Arrive, Hit, StaleHit, Miss, Bypass
<1>2. PICK q \in ReqState :
         /\ req' = [req EXCEPT ![r] = q]
         /\ q.pc \in {"hit", "revalidate", "collapse", "direct", "alone"}
         /\ q.since = applied
         /\ IF q.pc = "alone" THEN call' = [call EXCEPT ![r] = Call("begin", FALSE)]
            ELSE UNCHANGED call
         /\ q.stale # None => entry # None /\ q.stale = entry.data
         /\ q.pc = "revalidate" => q.stale # None
    <2>1. ASSUME NEW pc \in {"hit", "revalidate", "collapse", "direct", "alone"},
                 NEW s \in Nat \cup {None}
          PROVE  LET q == Req(pc, s)
                 IN  q \in ReqState /\ q.pc = pc /\ q.since = applied /\ q.stale = s
        BY <1>0 DEF Req, ReqState
    <2>3. entry # None => entry.data \in Nat
        BY DEF Items
    <2>4. CASE Hit(r)
        BY <2>1, <2>4 DEF Hit
    <2>5. CASE StaleHit(r)
        <3>1. /\ entry # None /\ entry.data \in Nat /\ UNCHANGED call
              /\ req' = [req EXCEPT ![r] = Req("revalidate", entry.data)]
            BY <2>3, <2>5 DEF StaleHit
        <3>2. entry.data # None /\ entry.data \in Nat \cup {None}
            BY <3>1
        <3>3. LET q == Req("revalidate", entry.data)
              IN  q \in ReqState /\ q.pc = "revalidate" /\ q.since = applied /\ q.stale = entry.data
            BY <2>1, <3>2
        <3>. QED  BY <3>1, <3>2, <3>3
    <2>6. CASE Miss(r)
        <3>1. PICK pc \in {"collapse", "direct"} :
                 req' = [req EXCEPT ![r] = Req(pc, IF entry = None THEN None ELSE entry.data)]
            BY <2>6 DEF Miss
        <3>2. (IF entry = None THEN None ELSE entry.data) \in Nat \cup {None} /\ UNCHANGED call
            BY <2>3, <2>6 DEF Miss
        <3>3. PICK s \in Nat \cup {None} : s = IF entry = None THEN None ELSE entry.data
            BY <3>2
        <3>4. s # None => entry # None /\ s = entry.data
            BY <3>3
        <3>0. pc \in {"hit", "revalidate", "collapse", "direct", "alone"}
            OBVIOUS
        <3>5. LET q == Req(pc, s)
              IN  q \in ReqState /\ q.pc = pc /\ q.since = applied /\ q.stale = s
            BY <1>0, <3>0 DEF Req, ReqState
        <3>6. req' = [req EXCEPT ![r] = Req(pc, s)] /\ UNCHANGED call
            BY <3>1, <3>2, <3>3
        <3>. QED  BY <3>4, <3>5, <3>6
    <2>7. CASE Bypass(r)
        BY <2>1, <2>7 DEF Bypass
    <2>. QED  BY <2>4, <2>5, <2>6, <2>7 DEF Arrive
<1>3. /\ req' \in [Requests -> ReqState] /\ req'[r] = q
      /\ \A s \in Requests : s # r => req'[s] = req[s]
    BY <1>2
<1>4. /\ call' \in [Fetchers -> CallState] /\ \A f \in Fetchers : f # r => call'[f] = call[f]
      /\ q.pc = "alone" => call'[r] = Call("begin", FALSE)
      /\ q.pc # "alone" => call'[r] = call[r]
    <2>1. Call("begin", FALSE) \in CallState
        BY DEF Call, CallState, Kinds
    <2>. QED  BY <1>2, <2>1
<1>5. Call("begin", FALSE).pc = "begin"
    BY DEF Call
<1>6. answers' \in SUBSET Answers /\ PrivateStaysPrivate' /\ FreshAfterPurge'
    <2>1. CASE Quiet
        BY <2>1, QuietAnswers
    <2>2. CASE Hit(r)
        <3>. DEFINE a == Cached(r, Req("hit", None), entry.data)
        <3>1. entry # None /\ entry.data \in Nat /\ entry.token \in Nat /\ answers' = {a}
            BY <2>2 DEF Hit, Items
        <3>2. /\ a \in Answers /\ a.stored /\ a.data = entry.data /\ a.since = applied
            BY <3>1 DEF Cached, Req, Answers, Kinds
        <3>3. entry.data >= applied
            BY <3>1 DEF EntryInv
        <3>. QED  BY <3>1, <3>2, <3>3 DEF PrivateStaysPrivate, FreshAfterPurge
    <2>. QED  BY <2>1, <2>2 DEF Arrive, StaleHit, Miss, Bypass
<1>7. TypeOK'
    BY <1>1, <1>3, <1>4, <1>6
<1>8. CallInv'
    BY <1>1, <1>4, <1>5 DEF CallInv
<1>9. RequestInv'
    <2>1. q.stale # None => q.stale >= q.since
        BY <1>2 DEF EntryInv, Items
    <2>2. q.pc = "alone" => FreshFor(call'[r], q.since)
        BY <1>4, <1>5 DEF FreshFor
    <2>. QED  BY <1>1, <1>2, <1>3, <1>4, <2>1, <2>2 DEF RequestInv
<1>10. FlightInv' /\ NobodyWaitsInVain'
    <2>1. Flight # r /\ leader # r /\ call'[Flight] = call[Flight]
        BY <1>1, <1>4 DEF FlightInv
    <2>2. FlightInv'
        <3>1. leader # None => req'[leader].pc = "wait" /\ FreshFor(call'[Flight], req'[leader].since)
            BY <1>3, <2>1 DEF FlightInv
        <3>2. \A s \in Requests : req'[s].pc = "wait" => s # r /\ req'[s] = req[s]
            BY <1>2, <1>3
        <3>. QED  BY <1>1, <2>1, <3>1, <3>2 DEF FlightInv
    <2>3. NobodyWaitsInVain'
        <3>1. \A s \in Requests : req'[s].pc = "wait" => call'[Flight].pc # "none"
            BY <1>2, <1>3, <2>1 DEF NobodyWaitsInVain
        <3>2. \A s \in Requests : req'[s].pc = "alone" => call'[s].pc # "none"
            BY <1>2, <1>3, <1>4, <1>5 DEF NobodyWaitsInVain
        <3>3. refresh' = "marked" => \E s \in Requests : req'[s].pc = "refresh"
            BY <1>1, <1>3 DEF NobodyWaitsInVain
        <3>4. refresh' = "waiting" => call'[Flight].pc # "none"
            BY <1>1, <2>1 DEF NobodyWaitsInVain
        <3>. QED  BY <3>1, <3>2, <3>3, <3>4 DEF NobodyWaitsInVain
    <2>. QED  BY <2>2, <2>3
<1>11. EntryInv'
    BY <1>1 DEF EntryInv
<1>. QED  BY <1>6, <1>7, <1>8, <1>9, <1>10, <1>11

-------------------------------------------------------------------------------
(* A request that joins or starts a flight, fetches for itself, or is done.     *)

LEMMA IdleFields ==
    /\ Idle \in ReqState /\ Idle.pc = "idle" /\ Idle.stale = None /\ Idle.since = 0
BY DEF Idle, ReqState

\* DoChan touches no fetch but the flight's, and that one only if there was none.
LEMMA DoChanStarts ==
    ASSUME IInv, NEW who \in Requests \cup {None}, DoChan(who), UNCHANGED seq
    PROVE  /\ call' \in [Fetchers -> CallState] /\ CallInv'
           /\ leader' \in Requests \cup {None}
           /\ \A r \in Requests : call'[r] = call[r]
           /\ \/ call[Flight].pc = "none" /\ call'[Flight].pc = "begin" /\ leader' = who
              \/ call[Flight].pc # "none" /\ call' = call /\ leader' = leader
<1>. USE FetchAssumption DEF IInv, TypeOK, Fetchers
<1>1. CASE call[Flight].pc = "none"
    <2>1. Call("begin", TRUE) \in CallState /\ Call("begin", TRUE).pc = "begin"
        BY DEF Call, CallState, Kinds
    <2>2. call' = [call EXCEPT ![Flight] = Call("begin", TRUE)] /\ leader' = who
        BY <1>1 DEF DoChan
    <2>. QED  BY <1>1, <2>1, <2>2 DEF CallInv
<1>2. CASE call[Flight].pc # "none"
    BY <1>2 DEF DoChan, CallInv
<1>. QED  BY <1>1, <1>2

LEMMA RequestStepKeeps ==
    ASSUME IInv, NEW r \in Requests, NEW q \in ReqState,
           req' = [req EXCEPT ![r] = q],
           UNCHANGED <<data, seq, applied, entry>>,
           call' \in [Fetchers -> CallState], CallInv',
           leader' \in Requests \cup {None}, refresh' \in {"free", "marked", "waiting", "done"},
           \A s \in Requests : s # r => call'[s] = call[s],
           \/ call'[Flight] = call[Flight] /\ leader' \in {leader, None} \ {r}
           \/ /\ call[Flight].pc = "none" /\ call'[Flight].pc = "begin"
              /\ leader' = None \/ (leader' = r /\ q.pc = "wait"),
           q.since <= applied,
           q.stale # None => q.stale >= q.since,
           q.pc # "revalidate",
           q.pc = "alone" => call'[r].pc = "begin",
           q.pc = "wait" => /\ call'[Flight].pc # "none"
                            /\ call[Flight].pc = "done" /\ call[Flight].stored => q.late,
           refresh' = "marked" => \/ q.pc = "refresh"
                                  \/ refresh = "marked" /\ req[r].pc # "refresh",
           refresh' = "waiting" => call'[Flight].pc # "none",
           answers' \in SUBSET Answers, PrivateStaysPrivate', FreshAfterPurge'
    PROVE  IInv'
<1>. USE FetchAssumption, NoItem DEF IInv, TypeOK, Fetchers
<1>1. /\ req' \in [Requests -> ReqState] /\ req'[r] = q
      /\ \A s \in Requests : s # r => req'[s] = req[s]
    OBVIOUS
<1>2. TypeOK'
    BY <1>1
<1>3. EntryInv'
    BY DEF EntryInv
<1>4. RequestInv'
    BY <1>1 DEF RequestInv, FreshFor
<1>5. FlightInv'
    <2>1. ASSUME leader' # None
          PROVE  req'[leader'].pc = "wait" /\ FreshFor(call'[Flight], req'[leader'].since)
        <3>1. CASE call'[Flight] = call[Flight] /\ leader' \in {leader, None} \ {r}
            BY <1>1, <2>1, <3>1 DEF FlightInv
        <3>2. CASE call'[Flight].pc = "begin" /\ leader' = r /\ q.pc = "wait"
            BY <1>1, <3>2 DEF FreshFor
        <3>. QED  BY <2>1, <3>1, <3>2
    <2>2. ASSUME NEW s \in Requests, req'[s].pc = "wait", ~req'[s].late,
                 call'[Flight].pc = "done", call'[Flight].stored
          PROVE  call'[Flight].data >= req'[s].since
        <3>1. call'[Flight] = call[Flight]
            BY <2>2
        <3>. QED  BY <1>1, <2>2, <3>1 DEF FlightInv
    <2>. QED  BY <2>1, <2>2 DEF FlightInv
<1>6. NobodyWaitsInVain'
    <2>1. call[Flight].pc # "none" => call'[Flight].pc # "none"
        OBVIOUS
    <2>2. \A s \in Requests : req'[s].pc = "wait" => call'[Flight].pc # "none"
        BY <1>1, <2>1 DEF NobodyWaitsInVain
    <2>3. \A s \in Requests : req'[s].pc = "alone" => call'[s].pc # "none"
        BY <1>1 DEF NobodyWaitsInVain
    <2>4. refresh' = "marked" => \E s \in Requests : req'[s].pc = "refresh"
        BY <1>1 DEF NobodyWaitsInVain
    <2>. QED  BY <2>2, <2>3, <2>4 DEF NobodyWaitsInVain
<1>. QED  BY <1>2, <1>3, <1>4, <1>5, <1>6

LEMMA RequestStepsKeep ==
    ASSUME IInv, NEW r \in Requests, RequestStep(r) \/ Leave(r)
    PROVE  IInv'
<1>. USE FetchAssumption, NoItem DEF IInv, TypeOK, Fetchers
<1>0. PICK q0 : q0 = Idle
    OBVIOUS
<1>1. /\ UNCHANGED <<data, seq, applied, entry>> /\ applied \in Nat
      /\ req[r] \in ReqState /\ call \in [Fetchers -> CallState] /\ CallInv
      /\ leader \in Requests \cup {None} /\ refresh \in {"free", "marked", "waiting", "done"}
      /\ q0 \in ReqState /\ q0.pc = "idle" /\ q0.since <= applied
      /\ q0.stale # None => q0.stale >= q0.since
    <2>1. UNCHANGED <<data, seq, applied, entry>>
        BY DEF RequestStep, Revalidate, JoinFlight, FetchDirectly, FetchedAlone, NoRefresh,
               MarkRefreshing, RefreshRefused, StartRefresh, Leave
    <2>. QED  BY <1>0, <2>1, IdleFields
<1>2. /\ req[r].since \in Nat /\ req[r].since <= applied
      /\ req[r].stale # None => req[r].stale \in Nat /\ req[r].stale >= req[r].since
      /\ req[r].pc = "revalidate" => req[r].stale # None
    BY <1>1 DEF RequestInv, ReqState
<1>3. leader = r => req[r].pc = "wait"
    BY DEF FlightInv
<1>4. refresh = "waiting" => call[Flight].pc # "none"
    BY DEF NobodyWaitsInVain
<1>. HIDE DEF IInv, TypeOK
<1>5. CASE Revalidate(r)
    <2>. DEFINE a == Cached(r, req[r], req[r].stale)
    <2>1. /\ a \in Answers /\ a.stored /\ a.data = req[r].stale /\ a.since = req[r].since
        BY <1>1, <1>2, <1>5 DEF Revalidate, Cached, Answers, Kinds, ReqState
    <2>2. answers' \in SUBSET Answers /\ PrivateStaysPrivate' /\ FreshAfterPurge'
        BY <1>2, <1>5, <2>1 DEF Revalidate, PrivateStaysPrivate, FreshAfterPurge
    <2>3. DoChan(None) /\ req[r].pc = "revalidate" /\ req' = [req EXCEPT ![r] = q0] /\ refresh' = refresh
        BY <1>0, <1>5 DEF Revalidate
    <2>4. /\ call' \in [Fetchers -> CallState] /\ CallInv' /\ leader' \in Requests \cup {None}
          /\ \A s \in Requests : call'[s] = call[s]
          /\ \/ call[Flight].pc = "none" /\ call'[Flight].pc = "begin" /\ leader' = None
             \/ call[Flight].pc # "none" /\ call' = call /\ leader' = leader
        BY <1>1, <2>3, DoChanStarts
    <2>. QED  BY <1>1, <1>3, <1>4, <2>2, <2>3, <2>4, RequestStepKeeps
<1>6. CASE JoinFlight(r)
    <2>1. PICK q : q = [req[r] EXCEPT !.pc = "wait",
                                      !.late = call[Flight].pc = "done" /\ call[Flight].stored]
        OBVIOUS
    <2>2. /\ q \in ReqState /\ q.pc = "wait" /\ q.since = req[r].since /\ q.stale = req[r].stale
          /\ call[Flight].pc = "done" /\ call[Flight].stored => q.late
        BY <1>1, <2>1 DEF ReqState, CallState
    <2>3. DoChan(r) /\ req[r].pc = "collapse" /\ req' = [req EXCEPT ![r] = q] /\ refresh' = refresh
        BY <1>6, <2>1 DEF JoinFlight
    <2>4. /\ call' \in [Fetchers -> CallState] /\ CallInv' /\ leader' \in Requests \cup {None}
          /\ \A s \in Requests : call'[s] = call[s]
          /\ \/ call[Flight].pc = "none" /\ call'[Flight].pc = "begin" /\ leader' = r
             \/ call[Flight].pc # "none" /\ call' = call /\ leader' = leader
        BY <1>1, <2>3, DoChanStarts
    <2>5. answers' \in SUBSET Answers /\ PrivateStaysPrivate' /\ FreshAfterPurge'
        BY <1>6, QuietAnswers DEF JoinFlight
    <2>. QED  BY <1>1, <1>2, <1>3, <1>4, <2>2, <2>3, <2>4, <2>5, RequestStepKeeps
<1>7. CASE FetchDirectly(r)
    <2>1. PICK q : q = [req[r] EXCEPT !.pc = "alone"]
        OBVIOUS
    <2>2. q \in ReqState /\ q.pc = "alone" /\ q.since = req[r].since /\ q.stale = req[r].stale
        BY <1>1, <2>1 DEF ReqState
    <2>3. /\ req[r].pc = "direct" /\ req' = [req EXCEPT ![r] = q]
          /\ refresh' = refresh /\ leader' = leader
          /\ call' = [call EXCEPT ![r] = Call("begin", TRUE)]
        BY <1>7, <2>1 DEF FetchDirectly
    <2>4. Call("begin", TRUE) \in CallState /\ Call("begin", TRUE).pc = "begin"
        BY DEF Call, CallState, Kinds
    <2>5. /\ call' \in [Fetchers -> CallState] /\ call'[r].pc = "begin"
          /\ \A f \in Fetchers : f # r => call'[f] = call[f]
        BY <1>1, <2>3, <2>4
    <2>6. CallInv'
        BY <1>1, <2>5 DEF CallInv
    <2>7. answers' \in SUBSET Answers /\ PrivateStaysPrivate' /\ FreshAfterPurge'
        BY <1>7, QuietAnswers DEF FetchDirectly
    <2>. QED  BY <1>1, <1>2, <1>3, <1>4, <2>2, <2>3, <2>5, <2>6, <2>7, RequestStepKeeps
<1>8. CASE FetchedAlone(r) \/ Leave(r)
    <2>1. /\ req[r].pc \in {"wait", "alone"} /\ req' = [req EXCEPT ![r] = q0]
          /\ refresh' = refresh /\ call' = [call EXCEPT ![r] = NoCall]
          /\ leader' \in {leader, None} \ {r}
        BY <1>0, <1>3, <1>8 DEF FetchedAlone, Leave
    <2>2. NoCall \in CallState /\ NoCall.pc = "none"
        BY DEF NoCall, Call, CallState, Kinds
    <2>3. /\ call' \in [Fetchers -> CallState] /\ call'[r].pc = "none"
          /\ \A f \in Fetchers : f # r => call'[f] = call[f]
        BY <1>1, <2>1, <2>2
    <2>4. CallInv'
        BY <1>1, <2>3 DEF CallInv
    <2>5. answers' \in SUBSET Answers /\ PrivateStaysPrivate' /\ FreshAfterPurge'
        <3>1. CASE FetchedAlone(r)
            <4>. DEFINE a == Served(r, call[r], r)
            <4>1. /\ call[r] \in CallState /\ call[r].pc = "done" /\ answers' = {a}
                  /\ FreshFor(call[r], req[r].since)
                BY <1>1, <3>1 DEF FetchedAlone, RequestInv, IInv
            <4>2. /\ a \in Answers /\ a.to = r /\ a.since = req[r].since
                  /\ \/ a.stored /\ a.data >= a.since
                     \/ a.for = r /\ a.kind = call[r].kind /\ a.data = call[r].data
                BY <1>1, <1>2, <4>1 DEF Served, Cached, Fetched, Answers, Kinds, ReqState, CallState
            <4>. QED  BY <4>1, <4>2 DEF FreshFor, PrivateStaysPrivate, FreshAfterPurge
        <3>2. CASE Leave(r)
            BY <3>2, QuietAnswers DEF Leave
        <3>. QED  BY <1>8, <3>1, <3>2
    <2>. QED  BY <1>1, <1>4, <2>1, <2>3, <2>4, <2>5, RequestStepKeeps
<1>9. CASE NoRefresh(r) \/ RefreshRefused(r)
    <2>1. /\ req[r].pc \in {"hit", "refresh"} /\ req' = [req EXCEPT ![r] = q0]
          /\ refresh' = "free" \/ (refresh' = refresh /\ req[r].pc = "hit")
          /\ UNCHANGED <<call, leader>> /\ Quiet
        BY <1>0, <1>9 DEF NoRefresh, RefreshRefused
    <2>2. CallInv'
        BY <1>1, <2>1 DEF CallInv
    <2>. QED  BY <1>1, <1>3, <1>4, <2>1, <2>2, QuietAnswers, RequestStepKeeps
<1>11. CASE MarkRefreshing(r)
    <2>1. PICK q : q = [req[r] EXCEPT !.pc = "refresh"]
        OBVIOUS
    <2>2. q \in ReqState /\ q.pc = "refresh" /\ q.since = req[r].since /\ q.stale = req[r].stale
        BY <1>1, <2>1 DEF ReqState
    <2>3. /\ req[r].pc = "hit" /\ req' = [req EXCEPT ![r] = q] /\ refresh' = "marked"
          /\ UNCHANGED <<call, leader>> /\ Quiet
        BY <1>11, <2>1 DEF MarkRefreshing
    <2>4. CallInv'
        BY <1>1, <2>3 DEF CallInv
    <2>. QED  BY <1>1, <1>2, <1>3, <2>2, <2>3, <2>4, QuietAnswers, RequestStepKeeps
<1>10. CASE StartRefresh(r)
    <2>1. /\ DoChan(None) /\ req[r].pc = "refresh" /\ req' = [req EXCEPT ![r] = q0]
          /\ refresh' = "waiting" /\ Quiet
        BY <1>0, <1>10 DEF StartRefresh
    <2>2. /\ call' \in [Fetchers -> CallState] /\ CallInv' /\ leader' \in Requests \cup {None}
          /\ \A s \in Requests : call'[s] = call[s]
          /\ \/ call[Flight].pc = "none" /\ call'[Flight].pc = "begin" /\ leader' = None
             \/ call[Flight].pc # "none" /\ call' = call /\ leader' = leader
        BY <1>1, <2>1, DoChanStarts
    <2>. QED  BY <1>1, <1>3, <2>1, <2>2, QuietAnswers, RequestStepKeeps
<1>. QED  BY <1>5, <1>6, <1>7, <1>8, <1>9, <1>10, <1>11 DEF RequestStep

-------------------------------------------------------------------------------
(* The flight lands: whoever shares its result was waiting before the store, or *)
(* leads it; the others fetch for themselves.                                   *)

LEMMA FlightLandsKeeps ==
    ASSUME IInv, FlightLands
    PROVE  IInv'
<1>. USE FetchAssumption, NoItem DEF IInv, TypeOK, Fetchers
<1>. DEFINE served == { r \in Requests : req[r].pc = "wait" /\ Shares(r) }
            others == { r \in Requests : req[r].pc = "wait" /\ ~Shares(r) }
<1>1. /\ UNCHANGED <<data, seq, applied, entry>>
      /\ call[Flight].pc = "done" /\ leader' = None
      /\ refresh' = (IF refresh = "waiting" THEN "done" ELSE refresh)
      /\ answers' = { Served(r, call[Flight], leader) : r \in served }
    BY DEF FlightLands
<1>2. /\ req' = [r \in Requests |-> IF r \in served THEN Idle
                                    ELSE IF r \in others THEN [req[r] EXCEPT !.pc = "alone"]
                                    ELSE req[r]]
      /\ call' = [f \in Fetchers |-> IF f = Flight THEN NoCall
                                     ELSE IF f \in others THEN Call("begin", FALSE)
                                     ELSE call[f]]
    BY DEF FlightLands
<1>3. /\ NoCall \in CallState /\ NoCall.pc = "none"
      /\ Call("begin", FALSE) \in CallState /\ Call("begin", FALSE).pc = "begin"
    BY DEF NoCall, Call, CallState, Kinds
<1>4. \A r \in Requests :
         \/ req[r].pc = "wait" /\ req'[r] = Idle /\ call'[r] = call[r]
         \/ /\ req[r].pc = "wait" /\ req'[r] \in ReqState /\ req'[r].pc = "alone"
            /\ req'[r].since = req[r].since /\ req'[r].stale = req[r].stale
            /\ call'[r] = Call("begin", FALSE)
         \/ req[r].pc # "wait" /\ req'[r] = req[r] /\ call'[r] = call[r]
    <2>1. \A r \in Requests : r \in served \/ r \in others => req[r].pc = "wait"
        OBVIOUS
    <2>2. \A r \in Requests : r \notin served /\ r \notin others => req[r].pc # "wait"
        OBVIOUS
    <2>. HIDE DEF served, others
    <2>. TAKE r \in Requests
    <2>3. req[r] \in ReqState /\ Flight # r
        OBVIOUS
    <2>4. CASE r \in served
        BY <1>2, <2>1, <2>3, <2>4 DEF served, others
    <2>5. CASE r \notin served /\ r \in others
        BY <1>2, <2>1, <2>3, <2>5 DEF ReqState
    <2>6. CASE r \notin served /\ r \notin others
        BY <1>2, <2>2, <2>3, <2>6
    <2>. QED  BY <2>4, <2>5, <2>6
<1>5. call'[Flight] = NoCall
    BY <1>2
<1>6. req' \in [Requests -> ReqState]
    <2>. HIDE DEF served, others
    <2>1. \A r \in Requests : req'[r] \in ReqState
        BY <1>4, IdleFields
    <2>. QED  BY <1>2, <2>1
<1>7. call' \in [Fetchers -> CallState]
    <2>1. \A f \in Fetchers : call'[f] \in CallState
        BY <1>3, <1>4, <1>5
    <2>. QED  BY <1>2, <2>1
<1>8. ASSUME NEW r \in Requests, req[r].pc = "wait", Shares(r)
      PROVE  LET a == Served(r, call[Flight], leader)
             IN  /\ a \in Answers
                 /\ a.kind # "error" /\ ~a.stored => a.for = a.to
                 /\ a.kind # "error" /\ ~a.late => a.data >= a.since
    <2>. DEFINE a == Served(r, call[Flight], leader)
    <2>1. /\ req[r] \in ReqState /\ call[Flight] \in CallState
          /\ req[r].stale # None => req[r].stale >= req[r].since
        BY DEF RequestInv
    <2>2. /\ a \in Answers /\ a.to = r /\ a.since = req[r].since /\ a.late = req[r].late
          /\ \/ a.stored /\ a.data >= a.since
             \/ /\ a.for = leader /\ a.kind = call[Flight].kind /\ a.data = call[Flight].data
                /\ a.stored = call[Flight].stored
        BY <2>1 DEF Served, Cached, Fetched, Answers, Kinds, ReqState, CallState
    <2>3. CASE r = leader
        BY <1>1, <2>2, <2>3 DEF FlightInv, FreshFor
    <2>4. CASE call[Flight].kind = "error"
        BY <2>2, <2>4
    <2>5. CASE call[Flight].stored
        BY <1>1, <1>8, <2>2, <2>5 DEF FlightInv
    <2>. QED  BY <1>8, <2>3, <2>4, <2>5 DEF Shares
<1>9. answers' \in SUBSET Answers /\ PrivateStaysPrivate' /\ FreshAfterPurge'
    BY <1>1, <1>8 DEF PrivateStaysPrivate, FreshAfterPurge
<1>10. TypeOK'
    BY <1>1, <1>6, <1>7, <1>9
<1>11. EntryInv'
    BY <1>1 DEF EntryInv
<1>12. CallInv'
    <2>. HIDE DEF served, others
    <2>. QED  BY <1>1, <1>3, <1>4, <1>5 DEF CallInv
<1>13. RequestInv'
    <2>. HIDE DEF served, others
    <2>. SUFFICES ASSUME NEW r \in Requests
                  PROVE  /\ req'[r].since <= applied
                         /\ req'[r].stale # None => req'[r].stale >= req'[r].since
                         /\ req'[r].pc = "revalidate" => req'[r].stale # None
                         /\ req'[r].pc = "alone" => FreshFor(call'[r], req'[r].since)
        BY <1>1 DEF RequestInv
    <2>1. CASE req'[r] = Idle
        BY <2>1, IdleFields
    <2>2. CASE req'[r].pc = "alone" /\ call'[r] = Call("begin", FALSE)
               /\ req'[r].since = req[r].since /\ req'[r].stale = req[r].stale
        BY <1>3, <2>2 DEF RequestInv, FreshFor
    <2>3. CASE req'[r] = req[r] /\ call'[r] = call[r]
        BY <2>3 DEF RequestInv
    <2>. QED  BY <1>4, <2>1, <2>2, <2>3
<1>14. FlightInv'
    BY <1>1, <1>3, <1>5 DEF FlightInv
<1>15. NobodyWaitsInVain'
    <2>. HIDE DEF served, others
    <2>1. \A r \in Requests : req'[r].pc # "wait"
        BY <1>4, IdleFields
    <2>2. \A r \in Requests : req'[r].pc = "alone" => call'[r].pc # "none"
        BY <1>3, <1>4, IdleFields DEF NobodyWaitsInVain
    <2>3. refresh' = "marked" => \E r \in Requests : req'[r].pc = "refresh"
        BY <1>1, <1>4 DEF NobodyWaitsInVain
    <2>. QED  BY <1>1, <2>1, <2>2, <2>3 DEF NobodyWaitsInVain
<1>. QED  BY <1>9, <1>10, <1>11, <1>12, <1>13, <1>14, <1>15

LEMMA EndRefreshKeeps ==
    ASSUME IInv, EndRefresh
    PROVE  IInv'
BY QuietAnswers
DEF EndRefresh, IInv, TypeOK, EntryInv, CallInv, RequestInv, FlightInv, NobodyWaitsInVain, FreshFor

-------------------------------------------------------------------------------
LEMMA NextKeepsIInv == IInv /\ [Next]_vars => IInv'
<1>. SUFFICES ASSUME IInv, [Next]_vars PROVE IInv'
    OBVIOUS
<1>1. CASE UNCHANGED vars
    BY <1>1
    DEF vars, IInv, TypeOK, EntryInv, CallInv, RequestInv, FlightInv, NobodyWaitsInVain,
        PrivateStaysPrivate, FreshAfterPurge, FreshFor
<1>2. CASE Next
    BY <1>2, CacheStep, FetchStepKeeps, ArriveKeeps, RequestStepsKeep, FlightLandsKeeps,
       EndRefreshKeeps
    DEF Next
<1>. QED  BY <1>1, <1>2

LEMMA IInvAlways == Spec => []IInv
BY InitIInv, NextKeepsIInv, PTL DEF Spec

\* Every reachable state of the request path has its type.
THEOREM TypeCorrect == Spec => []TypeOK
<1>1. IInv => TypeOK
    BY DEF IInv
<1>. QED  BY <1>1, IInvAlways, PTL

\* The cache never holds what was read before a change whose purge has been
\* applied, whichever fetch stored it (fetchAndStore, handler.go).
THEOREM CacheStaysCurrent == Spec => []CacheCurrent
<1>1. IInv => CacheCurrent
    BY DEF IInv, TypeOK, EntryInv, Items, CacheCurrent
<1>. QED  BY <1>1, IInvAlways, PTL

\* A response that was not stored answers the request it was fetched for and no
\* other (fetch, handler.go).
THEOREM PrivateAnswersStayPrivate == Spec => []PrivateStaysPrivate
<1>1. IInv => PrivateStaysPrivate
    BY DEF IInv
<1>. QED  BY <1>1, IInvAlways, PTL

\* No request is answered with what was outdated when it came, but for the
\* flights joined between store and landing (ServeHTTP, handler.go).
THEOREM AnswersAreFresh == Spec => []FreshAfterPurge
<1>1. IInv => FreshAfterPurge
    BY DEF IInv
<1>. QED  BY <1>1, IInvAlways, PTL

\* Whoever waits has somebody to wait for (fetch and maybeRefreshAhead).
THEOREM WaitersAreServed == Spec => []NobodyWaitsInVain
<1>1. IInv => NobodyWaitsInVain
    BY DEF IInv
<1>. QED  BY <1>1, IInvAlways, PTL
===============================================================================
