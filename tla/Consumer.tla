------------------------------- MODULE Consumer -------------------------------
(***************************************************************************)
(* One replica's RabbitBroker as a receiver of events (internal/events/     *)
(* events.go): the event log of what its own admin API published, replayed  *)
(* by Subscribe; the durable queue it consumes with manual acknowledgement; *)
(* and the processed ids and versions it persists after each event.  The    *)
(* replica crashes and comes back with its files and its queue, but with an *)
(* empty cache.                                                             *)
(*                                                                          *)
(* The retries of a failing handler are one step.  RabbitMQ is modelled     *)
(* from how the code uses it: a message stays at the head of the queue      *)
(* until it is acknowledged or rejected on the connection it came by.       *)
(***************************************************************************)
EXTENDS Events, SequencesExt, FiniteSets

CONSTANTS Inbox,         \* the events that may be published
          MaxProcessed,  \* maxProcessedEvents
          CompactEvery,  \* eventLogCompactEvery
          DiskFills,     \* whether a write to the event log may be cut short
          Torn,          \* a line of the log that does not decode
          None,
          MaxSends,      \* bound on the events published
          MaxFaults      \* bound on crashes and failures

ASSUME ConsumerAssumption ==
    /\ Inbox \subseteq Event
    /\ \A e, f \in Inbox : e.id = f.id => e = f
    /\ MaxProcessed \in Nat \ {0}
    /\ CompactEvery \in Nat \ {0}
    /\ DiskFills \in BOOLEAN
    /\ Torn \notin Event /\ None \notin Event
    /\ MaxSends \in Nat /\ MaxFaults \in Nat

VARIABLES
    mem,         \* maxVersion and processedOrder
    disk,        \* the state file
    log,         \* the event log
    appended,    \* appendedSinceCompact
    queue,       \* the replica's durable queue
    bound,       \* whether the queue has been declared and bound
    conn,        \* whether the consumer is connected
    dlq,         \* dead-lettered events
    proc,        \* where the process is in Subscribe and consumeUntilClosed
    publishing,  \* events logged by Publish and not yet sent
    sends,       \* number of events published
    faults,      \* number of failures so far
    logged,      \* history: events Publish has logged
    due,         \* history: events the exchange had while the replica was
                 \* serving, so that its cache may be older than they are
    missed,      \* history: the due ones that found no queue
    applied,     \* history: events handled by this run of the process
    handled      \* history: events handled by any run

durable == <<disk, log, queue, bound, dlq, logged>>
history == <<logged, due, missed, applied, handled>>
vars == <<mem, disk, log, appended, queue, bound, conn, dlq, proc, publishing,
          sends, faults, logged, due, missed, applied, handled>>

NoState == [versions |-> NoVersions, processed |-> <<>>]

Proc(pc, event, todo) == [pc |-> pc, event |-> event, todo |-> todo]
Down    == Proc("down", None, <<>>)
Waiting == Proc("wait", None, <<>>)

\* The public server starts when Subscribe has returned.
Serving == proc.pc \in {"wait", "handle", "mark", "ack"}

Fail == faults < MaxFaults /\ faults' = faults + 1

-------------------------------------------------------------------------------
(* Deduplication. *)

AlreadyApplied(e) ==
    (\E i \in DOMAIN mem.processed : mem.processed[i] = e.id) \/ Superseded(mem.versions, e)

\* rememberLocked keeps the last MaxProcessed ids.
Remember(ids, id) ==
    IF Contains(ids, id) THEN ids
    ELSE LET all == Append(ids, id)
         IN  SubSeq(all, IF Len(all) > MaxProcessed THEN 2 ELSE 1, Len(all))

Marked(e) == [versions  |-> CommitVersion(mem.versions, e),
              processed |-> Remember(mem.processed, e.id)]

-------------------------------------------------------------------------------
(* The event log. *)

IsTorn == \E i \in DOMAIN log : log[i] = Torn

\* A line that was cut short has no newline: the next one continues it.
Written(line) == IF log # <<>> /\ Last(log) = Torn THEN log ELSE Append(log, line)

\* Mutation of Unapplied: compaction truncates the log.
Truncated(lines) == <<>>

\* The number n of a set of numbers, in ascending order.
Nth(S, n) == CHOOSE i \in S : Cardinality({ j \in S : j <= i }) = n

\* compactLog keeps the lines in their order.
Unapplied(lines) ==
    LET kept == { i \in DOMAIN lines : ~AlreadyApplied(lines[i]) }
    IN  [n \in 1..Cardinality(kept) |-> lines[Nth(kept, n)]]

\* Publish by the replica's admin API, first half.  Compaction fails, and is
\* only reported, when a line does not decode.
AppendEvent(e) ==
    /\ Serving
    /\ e \notin publishing
    /\ sends < MaxSends
    /\ sends' = sends + 1
    /\ IF appended + 1 >= CompactEvery /\ ~IsTorn
       THEN log' = Unapplied(Written(e)) /\ appended' = 0
       ELSE log' = Written(e) /\ appended' = IF appended < CompactEvery THEN appended + 1 ELSE appended
    /\ logged' = logged \cup {e}
    /\ publishing' = publishing \cup {e}
    /\ UNCHANGED <<mem, disk, queue, bound, conn, dlq, proc, faults,
                   due, missed, applied, handled>>

\* The disk is full: part of the line is written and Publish returns an error.
AppendFails(e) ==
    /\ Serving
    /\ DiskFills
    /\ Fail
    /\ log' = Written(Torn)
    /\ UNCHANGED <<mem, disk, appended, queue, bound, conn, dlq, proc, publishing, sends, history>>

-------------------------------------------------------------------------------
(* The exchange. *)

\* A message for which no queue is bound is dropped.
Route(e) ==
    /\ queue' = IF bound THEN Append(queue, e) ELSE queue
    /\ IF Serving /\ e \notin handled
       THEN /\ due' = due \cup {e}
            /\ missed' = IF bound THEN missed \ {e} ELSE missed \cup {e}
       ELSE UNCHANGED <<due, missed>>

\* From the upstream's outbox, which may send it again, or another replica.
Arrive(e) ==
    /\ sends < MaxSends
    /\ sends' = sends + 1
    /\ Route(e)
    /\ UNCHANGED <<mem, disk, log, appended, bound, conn, dlq, proc, publishing, faults,
                   logged, applied, handled>>

\* Publish, second half; it may report an error for what was sent as well.
PublishOwn(e) ==
    /\ e \in publishing
    /\ publishing' = publishing \ {e}
    /\ Route(e)
    /\ UNCHANGED <<mem, disk, log, appended, bound, conn, dlq, proc, sends, faults,
                   logged, applied, handled>>

PublishOwnFails(e) ==
    /\ e \in publishing
    /\ Fail
    /\ publishing' = publishing \ {e}
    /\ UNCHANGED <<mem, disk, log, appended, queue, bound, conn, dlq, proc, sends, history>>

-------------------------------------------------------------------------------
(* Starting: newRabbitBroker and Subscribe. *)

Start ==
    /\ proc.pc = "down"
    /\ mem' = disk
    /\ proc' = Proc("load", None, <<>>)
    /\ UNCHANGED <<disk, log, appended, queue, bound, conn, dlq, publishing, sends, faults, history>>

\* Mutation of LoadEventLog: a line that does not decode is passed on.
LoadEveryLine ==
    /\ proc.pc = "load"
    /\ proc' = Proc("replay", None, log)
    /\ UNCHANGED <<mem, disk, log, appended, queue, bound, conn, dlq, publishing, sends, faults, history>>

\* A log that does not decode fails Subscribe, and the process exits.
LoadEventLog ==
    /\ proc.pc = "load"
    /\ proc' = IF IsTorn THEN Down ELSE Proc("replay", None, log)
    /\ UNCHANGED <<mem, disk, log, appended, queue, bound, conn, dlq, publishing, sends, faults, history>>

ReplaySkip ==
    /\ proc.pc = "replay"
    /\ proc.todo # <<>>
    /\ AlreadyApplied(Head(proc.todo))
    /\ proc' = [proc EXCEPT !.todo = Tail(@)]
    /\ UNCHANGED <<mem, disk, log, appended, queue, bound, conn, dlq, publishing, sends, faults, history>>

ReplayEvent ==
    /\ proc.pc = "replay"
    /\ proc.todo # <<>>
    /\ ~AlreadyApplied(Head(proc.todo))
    /\ proc' = Proc("replayMark", Head(proc.todo), Tail(proc.todo))
    /\ applied' = applied \cup {Head(proc.todo)}
    /\ handled' = handled \cup {Head(proc.todo)}
    /\ UNCHANGED <<mem, disk, log, appended, queue, bound, conn, dlq, publishing, sends, faults,
                   logged, due, missed>>

ReplayMark ==
    /\ proc.pc = "replayMark"
    /\ mem' = Marked(proc.event)
    /\ disk' = mem'
    /\ proc' = Proc("replay", None, proc.todo)
    /\ UNCHANGED <<log, appended, queue, bound, conn, dlq, publishing, sends, faults, history>>

\* Subscribe compacts the log, if it can, and starts the consumer.
Subscribed ==
    /\ proc.pc = "replay"
    /\ proc.todo = <<>>
    /\ \/ log' = Unapplied(log) /\ appended' = 0 /\ UNCHANGED faults
       \/ Fail /\ UNCHANGED <<log, appended>>
    /\ proc' = Waiting
    /\ UNCHANGED <<mem, disk, queue, bound, conn, dlq, publishing, sends, history>>

-------------------------------------------------------------------------------
(* Consuming. *)

OpenConsumer ==
    /\ proc.pc = "wait"
    /\ ~conn
    /\ conn' = TRUE
    /\ bound' = TRUE
    /\ UNCHANGED <<mem, disk, log, appended, queue, dlq, proc, publishing, sends, faults, history>>

\* Noticed between two messages: the one being handled is finished first.
LoseConnection ==
    /\ conn
    /\ Fail
    /\ conn' = FALSE
    /\ UNCHANGED <<mem, disk, log, appended, queue, bound, dlq, proc, publishing, sends, history>>

Take ==
    /\ proc.pc = "wait"
    /\ conn
    /\ queue # <<>>
    /\ proc' = Proc(IF AlreadyApplied(Head(queue)) THEN "ack" ELSE "handle", Head(queue), <<>>)
    /\ UNCHANGED <<mem, disk, log, appended, queue, bound, conn, dlq, publishing, sends, faults, history>>

Handle ==
    /\ proc.pc = "handle"
    /\ applied' = applied \cup {proc.event}
    /\ handled' = handled \cup {proc.event}
    /\ proc' = [proc EXCEPT !.pc = "mark"]
    /\ UNCHANGED <<mem, disk, log, appended, queue, bound, conn, dlq, publishing, sends, faults,
                   logged, due, missed>>

MarkProcessed ==
    /\ proc.pc = "mark"
    /\ mem' = Marked(proc.event)
    /\ disk' = mem'
    /\ proc' = [proc EXCEPT !.pc = "ack"]
    /\ UNCHANGED <<log, appended, queue, bound, conn, dlq, publishing, sends, faults, history>>

\* Mutation of Settle: the answer never reaches the server.
SettleUnsent(dead) ==
    /\ dlq' = IF conn THEN dlq \cup dead ELSE dlq
    /\ proc' = Waiting
    /\ UNCHANGED queue

\* Answering a message takes effect only on the connection it came by.
Settle(dead) ==
    /\ queue' = IF conn THEN Tail(queue) ELSE queue
    /\ dlq' = IF conn THEN dlq \cup dead ELSE dlq
    /\ proc' = Waiting

Ack ==
    /\ proc.pc = "ack"
    /\ Settle({})
    /\ UNCHANGED <<mem, disk, log, appended, bound, conn, publishing, sends, faults, history>>

\* Mutation of HandlerFails: the message is acknowledged all the same.
HandlerFailsUnnoticed ==
    /\ proc.pc = "handle"
    /\ Fail
    /\ Settle({})
    /\ UNCHANGED <<mem, disk, log, appended, bound, conn, publishing, sends, history>>

\* The handler failed three times.
HandlerFails ==
    /\ proc.pc = "handle"
    /\ Fail
    /\ Settle({proc.event})
    /\ UNCHANGED <<mem, disk, log, appended, bound, conn, publishing, sends, history>>

\* The state file could not be written; memory has the event all the same.
PersistFails ==
    /\ proc.pc = "mark"
    /\ Fail
    /\ mem' = Marked(proc.event)
    /\ Settle({proc.event})
    /\ UNCHANGED <<disk, log, appended, bound, conn, publishing, sends, history>>

\* The process dies, or exits because the replay failed.
Crash ==
    /\ proc.pc # "down"
    /\ Fail
    /\ proc' = Down
    /\ conn' = FALSE
    /\ mem' = NoState
    /\ appended' = 0
    /\ publishing' = {}
    /\ due' = {} /\ missed' = {} /\ applied' = {}
    /\ UNCHANGED <<durable, sends, handled>>

-------------------------------------------------------------------------------
Init ==
    /\ mem = NoState /\ disk = NoState
    /\ log = <<>> /\ appended = 0
    /\ queue = <<>> /\ bound = FALSE /\ conn = FALSE /\ dlq = {}
    /\ proc = Down
    /\ publishing = {}
    /\ sends = 0 /\ faults = 0
    /\ logged = {} /\ due = {} /\ missed = {} /\ applied = {} /\ handled = {}

\* What the process does on its own when nothing fails.
Run ==
    \/ Start \/ LoadEventLog \/ ReplaySkip \/ ReplayEvent \/ ReplayMark \/ Subscribed
    \/ OpenConsumer \/ Take \/ Handle \/ MarkProcessed \/ Ack

Fault == LoseConnection \/ HandlerFails \/ PersistFails \/ Crash

Next ==
    \/ \E e \in Inbox : \/ Arrive(e) \/ AppendEvent(e) \/ AppendFails(e)
                        \/ PublishOwn(e) \/ PublishOwnFails(e)
    \/ Run
    \/ Fault

Spec == Init /\ [][Next]_vars

\* The process is restarted and its goroutine keeps running.
FairSpec == Spec /\ WF_vars(Run)

-------------------------------------------------------------------------------
State == [versions : [Tags -> Nat], processed : Seq(EventIds)]

TypeOK ==
    /\ mem \in State /\ disk \in State
    /\ log \in Seq(Inbox \cup {Torn})
    /\ appended \in 0..CompactEvery
    /\ queue \in Seq(Inbox)
    /\ bound \in BOOLEAN /\ conn \in BOOLEAN
    /\ dlq \in SUBSET Inbox
    /\ proc \in [pc : {"down", "load", "replay", "replayMark", "wait", "handle", "mark", "ack"},
                 event : Inbox \cup {None}, todo : Seq(Inbox)]
    /\ publishing \in SUBSET Inbox
    /\ sends \in Nat /\ faults \in Nat

\* An event with a newer version of each of its tags has been handled.
Outranked(e) ==
    /\ e.version > 0 /\ e.keys = <<>>
    /\ \A i \in DOMAIN e.tags : \E f \in handled : f.version >= e.version /\ Contains(f.tags, e.tags[i])

Reaches(e) == e \in applied \/ e \in dlq \/ Outranked(e) \/ Contains(queue, e)

\* An event the exchange had while the replica was serving, after its queue was
\* bound, is not lost to the replica's cache: until it has been handled, ruled
\* out by a newer one or dead-lettered, it is still in the queue.
QueuedPurgeArrives == \A e \in due \ missed : Reaches(e)

\* The log gives up an event only for one that was handled, so a replay never
\* comes too late, whatever compaction and crashes come between.  A log that ends
\* in a torn line is not replayed at all, which is what ComesUp is about.
LogKeepsUnapplied ==
    \A e \in logged : IsTorn \/ Contains(log, e) \/ e \in handled \/ Outranked(e)

\* The state file never runs ahead of the cache: it names only events and
\* versions that were handled.
RecordedMeansHandled ==
    /\ \A i \in DOMAIN disk.processed : \E e \in handled : e.id = disk.processed[i]
    /\ \A t \in Tags : disk.versions[t] > 0 =>
          \E e \in handled : e.version = disk.versions[t] /\ Contains(e.tags, t)

\* The versions in the state file only grow, over all crashes and restarts.
VersionsSurvive == [][\A t \in Tags : disk.versions[t] <= disk'.versions[t]]_vars

\* A restarted replica replays its log and serves again.
ComesUp == proc.pc = "load" ~> Serving

\* The replica works off its queue in the end, unless its log does not decode.
QueueDrains == []<>(queue = <<>> \/ IsTorn)
===============================================================================
