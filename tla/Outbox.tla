-------------------------------- MODULE Outbox --------------------------------
(***************************************************************************)
(* The transactional outbox of the upstream (cmd/upstream): an update of a  *)
(* book writes its invalidation to invalidation_outbox in the transaction   *)
(* that changes the book; a relay in every upstream process publishes the   *)
(* rows in id order and deletes a row only after the broker confirmed it.   *)
(*                                                                          *)
(* A database transaction is the steps between taking its locks and its     *)
(* commit; PostgreSQL's row locks and SKIP LOCKED are modelled from how the *)
(* queries use them.  Publishing is one step with three outcomes: confirmed,*)
(* failed, and failed although the broker has the message.                  *)
(***************************************************************************)
EXTENDS Integers, Sequences, FiniteSets

CONSTANTS Books,       \* books, each standing for its tag "book:<id>" too
          ListTag,     \* the tag "list:books"
          Nodes,       \* upstream processes
          Requests,    \* concurrent PUT requests
          NodeOf,      \* the process that serves a request
          BatchSize,   \* outboxBatchSize
          MaxUpdates,  \* bound on the updates
          MaxFaults    \* bound on crashes and failures

ASSUME OutboxAssumption ==
    /\ ListTag \notin Books
    /\ NodeOf \in [Requests -> Nodes]
    /\ BatchSize \in Nat \ {0}
    /\ MaxUpdates \in Nat
    /\ MaxFaults \in Nat

VARIABLES
    version,    \* committed version of each book
    outbox,     \* committed rows of invalidation_outbox
    nextId,     \* the sequence behind the rows' ids
    put,        \* the update each request is in the middle of
    relay,      \* the relay goroutine of each process
    wake,       \* whether the relay's wake channel holds a value
    sent,       \* history: the rows whose events the broker has, in order
    committed,  \* history: every row ever committed
    updates,    \* number of updates begun
    faults      \* number of failures so far

vars == <<version, outbox, nextId, put, relay, wake, sent, committed, updates, faults>>

\* A row's id stands for its event_id too.
Tags == Books \cup {ListTag}
Row  == [id : Nat, tag : Tags, version : Nat]

\* An open update keeps the rows it inserted; a row's book stays locked until
\* the transaction ends.
NoPut == [pc |-> "none", rows |-> {}]

\* todo and done are the rows of the batch not yet and already published, held
\* says whether the transaction that locked them is still alive; skipped is
\* history: the rows other transactions held when the batch was selected.
Relay(pc) == [pc |-> pc, todo |-> {}, done |-> {}, failed |-> FALSE, held |-> TRUE,
              skipped |-> {}]

Fail == faults < MaxFaults /\ faults' = faults + 1

-------------------------------------------------------------------------------
(* PUT /books/{id}. *)

BooksLocked == { b \in Books : \E p \in Requests : \E row \in put[p].rows : row.tag = b }

\* Mutation of RowsOf: the purge without a version carries -1.
RowsOfMinusOne(b, genreChanged) ==
    LET card  == [id |-> nextId, tag |-> b, version |-> version[b] + 1]
        lists == [id |-> nextId + 1, tag |-> ListTag, version |-> -1]
    IN  IF genreChanged THEN {card, lists} ELSE {card}

\* The row of the book's tag carries the new version; a change of genre adds a
\* purge of the lists without one.
RowsOf(b, genreChanged) ==
    LET card  == [id |-> nextId, tag |-> b, version |-> version[b] + 1]
        lists == [id |-> nextId + 1, tag |-> ListTag, version |-> 0]
    IN  IF genreChanged THEN {card, lists} ELSE {card}

\* SELECT ... FOR UPDATE, UPDATE ... version + 1 and the inserts.
Update(p, b, genreChanged) ==
    /\ relay[NodeOf[p]].pc # "down"
    /\ put[p].pc = "none"
    /\ b \notin BooksLocked
    /\ updates < MaxUpdates
    /\ updates' = updates + 1
    /\ put' = [put EXCEPT ![p] = [pc |-> "open", rows |-> RowsOf(b, genreChanged)]]
    /\ nextId' = nextId + 2
    /\ UNCHANGED <<version, outbox, relay, wake, sent, committed, faults>>

\* Mutation of CommitUpdate: the rows are not part of the transaction.
CommitWithoutRows(p) ==
    /\ put[p].pc = "open"
    /\ version' = [b \in Books |->
                     IF \E row \in put[p].rows : row.tag = b THEN version[b] + 1 ELSE version[b]]
    /\ put' = [put EXCEPT ![p] = [pc |-> "committed", rows |-> {}]]
    /\ UNCHANGED <<outbox, nextId, relay, wake, sent, committed, updates, faults>>

CommitUpdate(p) ==
    /\ put[p].pc = "open"
    /\ version' = [b \in Books |->
                     IF \E row \in put[p].rows : row.tag = b THEN version[b] + 1 ELSE version[b]]
    /\ outbox' = outbox \cup put[p].rows
    /\ committed' = committed \cup put[p].rows
    /\ put' = [put EXCEPT ![p] = [pc |-> "committed", rows |-> {}]]
    /\ UNCHANGED <<nextId, relay, wake, sent, updates, faults>>

\* The request was cancelled or the database refused.  Before the commit
\* nothing is kept; a commit whose answer is lost is kept but not notified.
AbortUpdate(p) ==
    /\ put[p].pc \in {"open", "committed"}
    /\ Fail
    /\ put' = [put EXCEPT ![p] = NoPut]
    /\ UNCHANGED <<version, outbox, nextId, relay, wake, sent, committed, updates>>

\* afterUpdate: a non-blocking send on a channel of capacity one.
Notify(p) ==
    /\ put[p].pc = "committed"
    /\ put' = [put EXCEPT ![p] = NoPut]
    /\ wake' = [wake EXCEPT ![NodeOf[p]] = TRUE]
    /\ UNCHANGED <<version, outbox, nextId, relay, sent, committed, updates, faults>>

-------------------------------------------------------------------------------
(* The relay. *)

Locked(n) == IF relay[n].held THEN relay[n].todo \cup relay[n].done ELSE {}

\* Mutations of FreeRows: rows of open transactions are read, or locked ones
\* are not skipped.
UncommittedRows == outbox \cup UNION { put[p].rows : p \in Requests }

AllRows == outbox

FreeRows == outbox \ UNION { Locked(n) : n \in Nodes }

\* The first BatchSize rows in id order that no other transaction holds.
IsBatch(batch, rows) ==
    /\ batch \subseteq rows
    /\ \A row \in batch, other \in rows \ batch : row.id < other.id
    /\ Cardinality(batch) <= BatchSize
    /\ batch = rows \/ Cardinality(batch) = BatchSize

SelectBatch(n) ==
    /\ relay[n].pc = "drain"
    /\ \E batch \in SUBSET FreeRows :
          /\ IsBatch(batch, FreeRows)
          /\ relay' = [relay EXCEPT ![n] = [Relay("publish") EXCEPT
                                              !.todo = batch, !.skipped = outbox \ FreeRows]]
    /\ UNCHANGED <<version, outbox, nextId, put, wake, sent, committed, updates, faults>>

\* No publisher could be opened, or the query failed.
SelectFails(n) ==
    /\ relay[n].pc = "drain"
    /\ Fail
    /\ relay' = [relay EXCEPT ![n] = Relay("backoff")]
    /\ UNCHANGED <<version, outbox, nextId, put, wake, sent, committed, updates>>

\* Mutation of IsNext: the rows come in no particular order.
IsAny(row, rows) == row \in rows

IsNext(row, rows) == row \in rows /\ \A other \in rows : row.id <= other.id

Publish(n, row) ==
    /\ relay[n].pc = "publish"
    /\ IsNext(row, relay[n].todo)
    /\ sent' = Append(sent, row)
    /\ relay' = [relay EXCEPT ![n].todo = @ \ {row}, ![n].done = @ \cup {row}]
    /\ UNCHANGED <<version, outbox, nextId, put, wake, committed, updates, faults>>

\* Mutation of PublishFails: the row that failed counts as published.
PublishFailsUnnoticed(n, row) ==
    /\ relay[n].pc = "publish"
    /\ IsNext(row, relay[n].todo)
    /\ Fail
    /\ sent' \in {sent, Append(sent, row)}
    /\ relay' = [relay EXCEPT ![n].pc = "finish", ![n].failed = TRUE, ![n].done = @ \cup {row}]
    /\ UNCHANGED <<version, outbox, nextId, put, wake, committed, updates>>

\* The batch stops at the first failure; whether the broker has the message is
\* not known.
PublishFails(n, row) ==
    /\ relay[n].pc = "publish"
    /\ IsNext(row, relay[n].todo)
    /\ Fail
    /\ sent' \in {sent, Append(sent, row)}
    /\ relay' = [relay EXCEPT ![n].pc = "finish", ![n].failed = TRUE]
    /\ UNCHANGED <<version, outbox, nextId, put, wake, committed, updates>>

BatchPublished(n) ==
    /\ relay[n].pc = "publish"
    /\ relay[n].todo = {}
    /\ relay' = [relay EXCEPT ![n].pc = "finish"]
    /\ UNCHANGED <<version, outbox, nextId, put, wake, sent, committed, updates, faults>>

\* DELETE of the published rows and COMMIT, which releases the locks.  A full
\* batch is followed by another one at once.
FinishBatch(n) ==
    /\ relay[n].pc = "finish"
    /\ relay[n].held
    /\ outbox' = outbox \ relay[n].done
    /\ relay' = [relay EXCEPT ![n] =
                   Relay(IF relay[n].failed THEN "backoff"
                         ELSE IF Cardinality(relay[n].done) < BatchSize THEN "wait"
                         ELSE "drain")]
    /\ UNCHANGED <<version, nextId, put, wake, sent, committed, updates, faults>>

\* A statement or the commit failed: the transaction rolls back, published rows
\* included.
FinishFails(n) ==
    /\ relay[n].pc = "finish"
    /\ Fail \/ (~relay[n].held /\ UNCHANGED faults)
    /\ relay' = [relay EXCEPT ![n] = Relay("backoff")]
    /\ UNCHANGED <<version, outbox, nextId, put, wake, sent, committed, updates>>

\* The database session dies under a relay that is busy publishing: the rows are
\* free for other relays while this one goes on to publish them.
LoseSession(n) ==
    /\ relay[n].pc \in {"publish", "finish"}
    /\ relay[n].held
    /\ Fail
    /\ relay' = [relay EXCEPT ![n].held = FALSE]
    /\ UNCHANGED <<version, outbox, nextId, put, wake, sent, committed, updates>>

Retry(n) ==
    /\ relay[n].pc = "backoff"
    /\ relay' = [relay EXCEPT ![n].pc = "drain"]
    /\ UNCHANGED <<version, outbox, nextId, put, wake, sent, committed, updates, faults>>

WakeUp(n) ==
    /\ relay[n].pc = "wait"
    /\ wake[n]
    /\ wake' = [wake EXCEPT ![n] = FALSE]
    /\ relay' = [relay EXCEPT ![n].pc = "drain"]
    /\ UNCHANGED <<version, outbox, nextId, put, sent, committed, updates, faults>>

\* Mutation of Poll: the ticker only repeats a notification.
PollWhenNotified(n) ==
    /\ relay[n].pc = "wait"
    /\ wake[n]
    /\ relay' = [relay EXCEPT ![n].pc = "drain"]
    /\ UNCHANGED <<version, outbox, nextId, put, wake, sent, committed, updates, faults>>

\* The poll ticker.
Poll(n) ==
    /\ relay[n].pc = "wait"
    /\ relay' = [relay EXCEPT ![n].pc = "drain"]
    /\ UNCHANGED <<version, outbox, nextId, put, wake, sent, committed, updates, faults>>

\* The process dies: its transactions roll back, its wake channel is gone.
Crash(n) ==
    /\ relay[n].pc # "down"
    /\ Fail
    /\ put' = [p \in Requests |-> IF NodeOf[p] = n THEN NoPut ELSE put[p]]
    /\ relay' = [relay EXCEPT ![n] = Relay("down")]
    /\ wake' = [wake EXCEPT ![n] = FALSE]
    /\ UNCHANGED <<version, outbox, nextId, sent, committed, updates>>

Restart(n) ==
    /\ relay[n].pc = "down"
    /\ relay' = [relay EXCEPT ![n] = Relay("drain")]
    /\ UNCHANGED <<version, outbox, nextId, put, wake, sent, committed, updates, faults>>

-------------------------------------------------------------------------------
Init ==
    /\ version = [b \in Books |-> 0]
    /\ outbox = {}
    /\ nextId = 1
    /\ put = [p \in Requests |-> NoPut]
    /\ relay = [n \in Nodes |-> Relay("drain")]
    /\ wake = [n \in Nodes |-> FALSE]
    /\ sent = <<>>
    /\ committed = {}
    /\ updates = 0
    /\ faults = 0

Write(p) ==
    \/ \E b \in Books, genreChanged \in BOOLEAN : Update(p, b, genreChanged)
    \/ CommitUpdate(p)
    \/ AbortUpdate(p)
    \/ Notify(p)

\* What the relay goroutine does when nothing fails.
RelayStep(n) ==
    \/ SelectBatch(n)
    \/ \E row \in relay[n].todo : Publish(n, row)
    \/ BatchPublished(n)
    \/ FinishBatch(n)
    \/ Retry(n)
    \/ WakeUp(n)
    \/ Poll(n)

RelayFault(n) ==
    \/ SelectFails(n)
    \/ \E row \in relay[n].todo : PublishFails(n, row)
    \/ FinishFails(n)
    \/ LoseSession(n)
    \/ Crash(n)
    \/ Restart(n)

Next ==
    \/ \E p \in Requests : Write(p)
    \/ \E n \in Nodes : RelayStep(n) \/ RelayFault(n)

Spec == Init /\ [][Next]_vars

\* The goroutine of a living relay keeps running, a lost transaction is noticed
\* and a process that died is started again.  Failures are bounded: the broker
\* and the database come back.
FairSpec ==
    /\ Spec
    /\ \A n \in Nodes : /\ WF_vars(RelayStep(n))
                       /\ WF_vars(~relay[n].held /\ FinishFails(n))
                       /\ WF_vars(Restart(n))

-------------------------------------------------------------------------------
PutState == [pc : {"none", "open", "committed"}, rows : SUBSET Row]

RelayState == [pc : {"down", "drain", "publish", "finish", "wait", "backoff"},
               todo : SUBSET Row, done : SUBSET Row, failed : BOOLEAN, held : BOOLEAN,
               skipped : SUBSET Row]

TypeOK ==
    /\ version \in [Books -> Nat]
    /\ outbox \in SUBSET Row
    /\ nextId \in Nat
    /\ put \in [Requests -> PutState]
    /\ relay \in [Nodes -> RelayState]
    /\ wake \in [Nodes -> BOOLEAN]
    /\ sent \in Seq(Row)
    /\ committed \in SUBSET Row
    /\ updates \in Nat
    /\ faults \in Nat

SentRows == { sent[i] : i \in DOMAIN sent }

\* An update is committed exactly when its invalidation is, and from then on the
\* broker has the invalidation or the outbox still does, whatever crashed,
\* timed out or rolled back in between.
NoUpdateUnannounced ==
    /\ \A b \in Books : \A v \in 1..version[b] :
          \E row \in committed : row.tag = b /\ row.version = v
    /\ committed \subseteq outbox \cup SentRows

\* The broker is told only of committed updates: no event runs ahead of the
\* data, however relays and transactions interleave.
OnlyCommittedAnnounced ==
    \A row \in SentRows : row.tag \in Books => row.version <= version[row.tag]

\* The outbox hands its rows to the broker at least once.
Outgoing == INSTANCE AtLeastOnce
            WITH Record <- Row, pending <- outbox, received <- SentRows

HandsOverAtLeastOnce == Outgoing!Spec

\* A relay announces a version ahead of an older one of the same tag only if
\* another relay held the older one when the batch was selected: failures, lost
\* sessions and crashes do not turn the order around.
OvertakesOnlySkipped ==
    [][\A n \in Nodes : \A row \in relay[n].todo :
          (sent' = Append(sent, row) /\ relay'[n] # relay[n]) =>
              \A older \in outbox :
                  older.tag = row.tag /\ older.version < row.version /\ row.tag \in Books
                      => older \in SentRows \cup relay[n].skipped]_vars

Copies(row) == Cardinality({ i \in DOMAIN sent : sent[i] = row })

\* Each further copy of a row in the broker is paid for by another failure.  As
\* long as nothing fails, relays that select, publish and delete side by side
\* publish a row once (SKIP LOCKED of relayBatch); a failed publish, a rollback, a
\* crash or a lost session puts a row up for one more copy at most.  A relay that
\* has lost its session goes on publishing what another selects and deletes, so
\* no more than this holds: not even that two relays never publish a row at once.
RepeatsNeedFaults == \A row \in committed : Copies(row) <= 1 + faults

\* Every row is published and deleted in the end.
OutboxDrains == []<>(outbox = {})
===============================================================================
