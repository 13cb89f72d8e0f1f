------------------------------- MODULE Pipeline -------------------------------
(***************************************************************************)
(* From the update of a book to the cache of a replica: the library's data  *)
(* (module Library), the rows its updates commit to the outbox, the queue   *)
(* of the replica and the replica itself (module Invalidation, with the one *)
(* runner of the RabbitMQ consumer).                                        *)
(*                                                                          *)
(* Outbox and Consumer show that a row reaches a bound queue, and the       *)
(* handler behind it, at least once and in no particular order; here a      *)
(* committed row is therefore one that may be delivered at any time, again  *)
(* and again, until the replica knows its event id.                         *)
(***************************************************************************)
EXTENDS Library, Sequences

CONSTANTS Fetchers,   \* goroutines in fetchAndStore
          CachedPages,\* pages that clients may ask for
          Demands,    \* which of them they ask for together
          Puts,       \* updates they send
          FirstData,  \* the books as the database is seeded
          MaxRows,    \* bound on the rows of the outbox
          None

ASSUME PipelineAssumption ==
    /\ CachedPages \subseteq Pages
    /\ Demands \subseteq SUBSET CachedPages
    /\ Puts \subseteq [book : Books, patch : Patch]
    /\ FirstData \in Data
    /\ MaxRows \in Nat

VARIABLES
    db,        \* the rows of table books
    rows,      \* the rows committed to invalidation_outbox, by id
    asked,     \* the pages clients ask for, chosen at the start
    bound,     \* is the replica's queue bound to the exchange?
    lost,      \* rows the exchange had no queue of this replica for
    answer,    \* what the upstream answered each fetcher, None before
    content,   \* what the pages in the replica's cache show
    now, seq, tracked, cache, fetch, run, processed, maxVersion, purges

upstream == <<db, rows>>
queue    == <<bound, lost, asked>>
replica  == <<now, seq, tracked, cache, fetch, run, processed, maxVersion, purges>>
vars     == <<upstream, queue, answer, content, replica>>

RowIds == 1..MaxRows

\* The event of a row; its id is made from the row's.
EventOf(id) ==
    [id |-> id, tags |-> <<rows[id].tag>>, keys |-> <<>>, version |-> rows[id].version]

consumer == "consumer"

\* The clock stands still, so that the tracker forgets nothing: module
\* Invalidation shows that what it forgets does no harm.
Replica == INSTANCE Invalidation WITH
    Retention  <- 0,
    PruneSize  <- 0,
    MaxTime    <- 0,
    Keys       <- CachedPages,
    EventIds   <- RowIds,
    Runners    <- {consumer},
    Inbox      <- { [id |-> id, tags |-> <<t>>, keys |-> <<>>, version |-> v] :
                      id \in RowIds, t \in Tags, v \in Nat },
    Responses  <- [version : Nat, tags : SUBSET Tags],
    ShardCount <- 1,
    ShardOf    <- [page \in CachedPages |-> 1]

ASSUME NoneIsNoData ==
    /\ None \notin Replica!Entry
    /\ None \notin Replica!Item
    /\ None \notin Replica!Token
    /\ None \notin Replica!Event

-------------------------------------------------------------------------------
(* The upstream. *)

\* The change and its rows commit together.
Put(b, patch) ==
    /\ Len(rows \o Announcements(db, b, patch)) <= MaxRows
    /\ db' = Updated(db, b, patch)
    /\ rows' = rows \o Announcements(db, b, patch)
    /\ UNCHANGED <<queue, answer, content, replica>>

-------------------------------------------------------------------------------
(* The queue of the replica. *)

\* The consumer declares and binds its queue while the replica serves already.
\* Published without the mandatory flag, a row no queue is bound for was dropped
\* and confirmed all the same: any of those committed so far.
Bind ==
    /\ ~bound
    /\ bound' = TRUE
    /\ lost' \in SUBSET DOMAIN rows
    /\ UNCHANGED <<upstream, asked, answer, content, replica>>

-------------------------------------------------------------------------------
(* The replica.  What a page in the cache shows goes and comes with its item. *)

ContentFollows ==
    content' = [page \in CachedPages |-> IF cache'[page] = None THEN None ELSE content[page]]

Begin(f, page) ==
    /\ page \in asked
    /\ Replica!Begin(f, page)
    /\ UNCHANGED <<upstream, queue, answer, content>>

\* The upstream reads its data for the answer.
Read(f) ==
    /\ fetch[f] # None
    /\ answer[f] = None
    /\ answer' = [answer EXCEPT ![f] = Content(db, fetch[f].key)]
    /\ UNCHANGED <<upstream, queue, content, replica>>

\* Mutation of Store: the tracker is not asked.
StoreUnasked(f) ==
    /\ answer[f] # None
    /\ LET page == fetch[f].key
       IN  /\ cache' = [cache EXCEPT ![page] =
                          [version |-> Version(answer[f], page),
                           tags |-> TagsOf(answer[f], page), token |-> fetch[f].seq]]
           /\ content' = [content EXCEPT ![page] = answer[f]]
    /\ fetch' = [fetch EXCEPT ![f] = None]
    /\ answer' = [answer EXCEPT ![f] = None]
    /\ UNCHANGED <<upstream, queue, now, seq, tracked, run, processed, maxVersion, purges>>

\* Under the tracker's read lock, and with what the response says of itself.
Store(f) ==
    /\ answer[f] # None
    /\ LET page == fetch[f].key
           resp == [version |-> Version(answer[f], page), tags |-> TagsOf(answer[f], page)]
       IN  /\ ~Replica!Invalidated(fetch[f], resp)
           /\ Replica!Store(f, resp)
           /\ cache'[page] = [version |-> resp.version, tags |-> resp.tags,
                              token |-> fetch[f].seq]
           /\ content' = [content EXCEPT ![page] = answer[f]]
    /\ answer' = [answer EXCEPT ![f] = None]
    /\ UNCHANGED <<upstream, queue>>

\* The upstream failed, or the tracker or the cache refused the answer.
GiveUp(f) ==
    /\ Replica!GiveUp(f)
    /\ answer' = [answer EXCEPT ![f] = None]
    /\ UNCHANGED <<upstream, queue, content>>

Evict(page) ==
    /\ Replica!Evict(page)
    /\ ContentFollows
    /\ UNCHANGED <<upstream, queue, answer>>

\* Mutation of Deliver: rows are taken in the order they were committed.
DeliverInOrder(id) ==
    /\ bound
    /\ id \in DOMAIN rows \ lost
    /\ \A earlier \in 1..(id - 1) : earlier \in processed
    /\ Replica!Deliver(consumer, EventOf(id))
    /\ UNCHANGED <<upstream, queue, answer, content>>

Deliver(id) ==
    /\ bound
    /\ id \in DOMAIN rows \ lost
    /\ Replica!Deliver(consumer, EventOf(id))
    /\ UNCHANGED <<upstream, queue, answer, content>>

Handle ==
    /\ Replica!RunnerStep(consumer)
    /\ ContentFollows
    /\ UNCHANGED <<upstream, queue, answer>>

\* The replica dies and starts again: the ids and versions of handled events
\* are on disk and the queue is durable, all else is gone.
Restart ==
    /\ seq' = 0
    /\ tracked' = [t \in Replica!Targets |-> None]
    /\ purges' = <<>>
    /\ cache' = [page \in CachedPages |-> None]
    /\ fetch' = [f \in Fetchers |-> None]
    /\ answer' = [f \in Fetchers |-> None]
    /\ run' = [r \in {consumer} |-> Replica!Idle]
    /\ ContentFollows
    /\ UNCHANGED <<upstream, queue, now, processed, maxVersion>>

-------------------------------------------------------------------------------
Init ==
    /\ db = FirstData
    /\ rows = <<>>
    /\ asked \in Demands
    /\ bound = FALSE
    /\ lost = {}
    /\ answer = [f \in Fetchers |-> None]
    /\ content = [page \in CachedPages |-> None]
    /\ Replica!Init

\* The consumer's own step: it binds, takes a row from the queue, handles it.
Consume == Bind \/ Handle \/ \E id \in RowIds : Deliver(id)

Next ==
    \/ \E put \in Puts : Put(put.book, put.patch)
    \/ Consume
    \/ \E f \in Fetchers : \/ \E page \in CachedPages : Begin(f, page)
                           \/ Read(f)
                           \/ Store(f)
                           \/ GiveUp(f)
    \/ \E page \in CachedPages : Evict(page)
    \/ Restart

Spec == Init /\ [][Next]_vars

\* The relay and the consumer keep going, as Outbox and Consumer show; nobody has
\* to ask for a page.
FairSpec == Spec /\ WF_vars(Consume)

-------------------------------------------------------------------------------
(* What an update promises to whoever reads the page later. *)

Stale(page) == cache[page] # None /\ content[page] # Content(db, page)

\* A row that would drop what the cache holds for the page.
Covers(id, page) ==
    /\ rows[id].tag \in cache[page].tags
    /\ \/ rows[id].version = 0
       \/ cache[page].version = 0
       \/ cache[page].version <= rows[id].version

\* Not yet handled, nor made superfluous by a newer version.
Pending(id) ==
    /\ id \notin processed \cup lost
    /\ ~Replica!Superseded(maxVersion, EventOf(id))

\* A search that a book has come to match since, by a new title: the book's tag
\* is not on the page and nothing else is announced.
Missing(page) ==
    /\ page \in SearchPages
    /\ ~(Shown(db, page) \subseteq DOMAIN content[page])

\* A page that no longer shows what the database holds is about to be dropped,
\* unless the row that says so came before the replica's queue, or the page is
\* a search that a book has entered.
StaleMeansPending ==
    \A page \in CachedPages : Stale(page) =>
        \/ \E id \in DOMAIN rows : Pending(id) /\ Covers(id, page)
        \/ \E id \in lost : Covers(id, page)
        \/ Missing(page)

\* Every update is announced under a tag of each page it changes, as the page
\* was before, but for searches the book enters.
ChangesAnnounced ==
    [][\A page \in CachedPages : Content(db', page) # Content(db, page) =>
         \/ \E id \in DOMAIN rows' \ DOMAIN rows :
                rows'[id].tag \in TagsOf(Content(db, page), page)
         \/ page \in SearchPages /\ ~(Shown(db', page) \subseteq Shown(db, page))]_upstream

\* On the way nothing is purged by halves: with one runner, and with rows that name
\* one tag each, what a handled row outdates is gone for good (Invalidation).
EveryPurgeHonoured == Replica!EveryPurgeHonoured

\* And so it does leave, or is current again.
StaleLeaves ==
    \A page \in CachedPages :
        Stale(page) ~> \/ ~Stale(page)
                       \/ Missing(page)
                       \/ \E id \in lost : Covers(id, page)
===============================================================================
