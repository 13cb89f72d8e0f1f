# Proks in TLA+

Proks is a caching HTTP proxy in Go. Clients ask the proxy, the proxy asks an upstream
(a small book catalogue on PostgreSQL), keeps the answers, prefetches what is likely to be
asked next, and drops what an *invalidation event* says has changed. Events travel from the
upstream's transactional outbox over RabbitMQ to every proxy replica, or come from a
replica's admin API.

The question behind almost everything here is one sentence: **after a change was announced,
nobody is served what was read before it** - although fetches, purges, evictions, timers,
redeliveries, retries, crashes and reconnects interleave as they like. The specifications
follow that sentence from the transaction that makes the change to the answer of a request.

Paths below are relative to `src/`.

## 1. The system's parts

| Part | State it keeps | Operations | What is hard |
|---|---|---|---|
| **Invalidation tracker** `internal/proxy/invalidation_tracker.go` | a sequence number; per tag the last invalidation: number, version, last unconditional one, time | `begin`, `invalidate` (prunes), `storeIfCurrent` | a fetch that reads before and stores after an invalidation; forgetting entries that a slow fetch still needs |
| **Event handler** `internal/proxy/handler.go` (`HandleEvent`, `invalidateResource`, `invalidateKey`) | none of its own | record in the tracker, collect the keys of a tag shard by shard, look up, delete | four kinds of critical sections, none covers the whole; runs concurrently with fetches and, with the in-memory broker, with itself |
| **In-memory broker** `internal/events/events.go` | processed ids, newest version per tag | `Publish`, `Subscribe` | looks up, unlocks, handles, records: two publishes overlap |
| **RabbitMQ broker, receiving** `internal/events/events.go` | event log file, state file, processed ids, versions, the durable queue | `Subscribe` (replay, compact), consume, acknowledge, dead-letter, reconnect, persist | crash between any two of: handle, record, acknowledge; half-written log lines; compaction racing replay |
| **RabbitMQ publishers** `internal/events/events.go` | one AMQP channel in confirm mode | `publishConfirmed`, reconnect, retry, close | confirms that arrive late, for another message, or never |
| **Transactional outbox** `cmd/upstream` | the books' versions, rows of `invalidation_outbox`, a wake channel | `PUT /books/{id}`, `relayBatch`, `Run` | several relays on one table, `SKIP LOCKED`, lost database sessions, lost notifications, at-least-once |
| **Cache store** `internal/cache/cache.go` | per shard: entries, LRU list, tag index, byte counter, timers | `Set`, `Lookup`, `Delete`, `KeysForTag`, timer callback | four structures that must agree; timers that fire late; eviction inside a `Set` |
| **Request path** `internal/proxy/handler.go` | `inflight` (single flight), `refreshing` | `ServeHTTP`, `fetch`, `revalidate`, `maybeRefreshAhead`, `fetchAndStore` | who may share whose response; leaders that leave; stale answers around a purge |
| **Prefetch queue** `internal/prefetcher/prefetcher.go` | `queued`, the job channel, `closed` | `Enqueue`, workers, `Stop` | check-then-send without the lock, reservations that leak, shutdown |
| **Prefetching** `internal/proxy/prefetch.go`, `handler.go` | request templates, budget, pause, signals | `maybePrefetchForRequest`, `Prefetch`, `MarkPrefetched`, `consumePrefetchSignal` | a template gone before its job runs; a pause that begins after a worker has looked at it; hits between a load and its signal |
| **Cache admission** `internal/cache/tinylfu.go`, `lru_window.go` | count-min sketch, window of recent keys | `Increment` (halves), `Estimate`, `PollutantScore`, `ShouldStore`, `Touch` | counting, measuring, storing and touching are separate steps of concurrent requests; collisions and halving |
| **Demo upstream** `cmd/upstream/main.go` with the routes of the proxy | tables of books | every GET with its tags, `PUT /books/{id}` with its announcements | which cached pages an update changes, and whether one of its tags is on each: books move between genres and push others over the ends of pages |
| Predictors, policy, metrics, admin wiring, migrations, data generator, health check | - | - | *not modelled*, see section 8 |

How they interact:

- an update of a book commits with its outbox row; the **relay** publishes the row through
  `RabbitPublisher` and deletes it after the confirm;
- the exchange routes the event to each replica's durable queue; the **consumer** calls
  `HandleEvent` and records the event before it acknowledges it;
- `HandleEvent` first records the invalidation in the **tracker** (so that fetches under way do
  not store what they read before it) and then deletes from the **cache**;
- the **request path** looks up, and on a miss runs `fetchAndStore` in a single flight: a token
  from the tracker, the upstream's answer, and a store that the tracker has to allow;
- a request may leave a template and enqueue a key in the **prefetch queue**, whose workers come
  back through the same `fetch`; a load that stored leaves a signal, which the next hit consumes;
- every store asks **admission** first.

## 2. The modules

| Module | Models | State and actions |
|---|---|---|
| `Events` | events, `Superseded`, `CommitVersion` | pure operators shared by both brokers |
| `Invalidation` | tracker + event handler + in-memory broker | `tracked`, `seq` are the tracker's fields; one action per critical section: `Begin`, `Store`, `InvalidateTag`, `ScanShard`, `LookupKey`, `DeleteKey`, `InvalidateKey`, `DeleteTarget`, `Deliver`, `Commit`, and `Evict` for whatever the cache drops |
| `AtLeastOnce` | *abstract*: a hand-over that releases a record only after the receiver has it | `Accept`, `HandOver`, `Release` |
| `Outbox` | `PUT` and the relays; refines `AtLeastOnce` | a transaction is the steps between taking its locks and its commit; `Publish`/`PublishFails` per row, `FinishBatch` is the DELETE and COMMIT, `Crash`, `LoseSession` |
| `Confirms` | `publishConfirmed`, AMQP channels and the server | channels carry messages one way and answers the other; `TakeAnswer` takes the next answer whatever it is for, as the code does |
| `RelayPublisher` | `RabbitPublisher` (upstream), on `Confirms` | closes its channel after any failure |
| `BrokerPublisher` | `RabbitBroker.Publish` (proxy), on `Confirms` | one retry, reconnect, discard |
| `Publishers` | the two publishers side by side, with what may be said of the nil of each | chooses one of them at the start of a behaviour and remembers the channels that a call kept after it had failed on them |
| `Consumer` | the receiving half of `RabbitBroker` with its files | `mem` and `disk` are `persistedState` in memory and in the file; `proc` is the place in `Subscribe` and `consumeUntilClosed` |
| `Cache` | `InMemoryCache` | one action per operation, each under one shard's lock; a timer expires in one step and its callback comes in a later one |
| `Admission` | sketch, window, `ShouldStore` and the requests, extending `Cache`: its `Set` and `Lookup` are the store's | `Hit`, `CountHit`, `CountFetch`, `Measure`, `StoreFits`, `StoreEvicts`, `Refuse`, `Touch`: the steps of a hit and of `fetchAndStore` between which others run |
| `Prefetcher` | `AsyncPrefetcher` | `Enqueue` is check, reserve, send or give back - as many steps as it takes locks |
| `Prefetch` | prefetching as a whole, on `Prefetcher` | `MaybePrefetchForRequest` leaves a template and enqueues; a worker goes through `Admit`, `SkipOrSend`, `Answer`, `MarkPrefetched`, `Release`; hits, ages and failures come at any time |
| `Fetch` | the request path for one key | `ServeHTTP` up to the fetch, the single flight, refresh-ahead and `fetchAndStore` in three steps, while purges come |
| `Library` | the pages of the demo, their tags (response headers and routes) and what an update changes and announces | pure operators: `Content`, `TagsOf`, `Patched`, `Announcements` |
| `Pipeline` | from an update to the cache of a replica: `Library`, the committed rows, the queue, and `Invalidation` as the replica | `Put` changes the data and appends rows; a row may be delivered again and in any order; a replica restarts |

`Invalidation` and `Fetch` see the same fetch from two sides. `Invalidation` has tags, versions,
shards, pruning and retention, and a fetch is two steps. `Fetch` has the flights, followers,
fallbacks and windows, and purges without versions, so that the tracker's part shrinks to a
comparison of numbers. `Pipeline` puts `Invalidation` (by `INSTANCE`, with pages for keys and rows
for events) between a library and its readers, and relies on what `Outbox` and `Consumer` show
for the way in between. `Cache` justifies what both assume of the store: that the tag index is
exact and that an item may disappear at any time.

`MC*` modules hold the values for TLC. `*Proofs` modules hold theorems; those about `Cache` are in
`AdmissionProofs`, next to the ones about the module that extends it.

Operators commented *Mutation of ...* are not part of any specification: each is the definition
below it with a plausible mistake (a dropped guard, a swapped order, a missing reset), and the
property named with it in `PROJECT.json` is violated when the mistake replaces the original.

## 3. What is checked

| Run | Properties | What it shows | Bounds |
|---|---|---|---|
| `inv_memory` | `TypeOK`, `PurgeHonoured` | two handlers of in-memory events and a fetch, over one tag: versions 2 and 1 in any order, and a purge of the key | 1 fetcher, 2 runners, 2 shards, 3 events, retention 0, clock to 1 |
| `pipeline` | `StaleMeansPending`, `EveryPurgeHonoured`; `ChangesAnnounced`, `StaleLeaves` | what a cached page shows is what the database holds, or a row that purges the page is on its way; with the one runner of the consumer a purge has no exception at all | 2 books, 1 genre, pages of 1 book; a card, a list and a search, asked for one at a time; 1 fetcher, 3 kinds of update, 3 rows, restarts |
| `outbox` | `TypeOK`, `NoUpdateUnannounced`, `OnlyCommittedAnnounced`, `RepeatsNeedFaults`; `HandsOverAtLeastOnce`, `OvertakesOnlySkipped`, `OutboxDrains` | two relays on one table: every update is announced, once each but for failures, in the order the row locks allow, and the table empties | 1 book and the list tag, 2 processes, 2 updates (up to 4 rows), batches of 2, 1 fault |
| `publishers` | `RelayNilMeansStored`; `NilMeansStoredOnFreshChannel` | no confirm is ever taken for another message of the relay, and the proxy's publisher is as exact unless it kept a channel it had failed on | 2 messages, 3 channels, which both attempts of a call can use up, 2 unread answers |
| `consumer` | `TypeOK`, `QueuedPurgeArrives`, `LogKeepsUnapplied`, `RecordedMeansHandled`; `VersionsSurvive`, `QueueDrains` | queued purges arrive, log and state file stay honest over crashes | 3 events over 2 tags, 3 sends, 2 faults, 1 remembered id, compaction after 2 appends |
| `cache` | `TypeOK`, `TagIndexExact`, `AccountsExact`, `LimitsKept`; `OnlyExpiredExpire`, `ExpiredLeave` | the four structures of a shard agree after every operation, and late timers harm nobody | 3 keys, capacity 2, 4 bytes, sizes 1, 2 and 4, lifetimes 0, 1 and never, 3 sets |
| `admission` | `NeverUnderestimates`, `SketchBounded`; `NewcomersWait` | the sketch is never too low nor grows without end, and a key asked for once pushes nobody out | 2 callers, 3 keys of sizes 1, 1 and 2, a sketch of 2 x 2 halved after 2 increments, capacity 2, 2 bytes, a window of 1, 6 requests; nothing expires, a purge comes at any time |
| `prefetcher` | `OneHolder`, `HitsFollowLoads`, `PauseHolds`; `KeysComeFree`, `WorkersExit` | every reservation has one holder and comes free however a load ends; no PREFETCH answer without a load; an error stops the workers | 2 callers, 2 workers, 2 keys, a queue of 1, 1 template, 3 enqueues |
| `fetch` | `TypeOK`, `CacheCurrent`, `PrivateStaysPrivate`, `FreshAfterPurge`, `NobodyWaitsInVain` | nothing stale after a purge, nothing personal shared, nobody forgotten | 2 requests that come again and again, 1 change of the data |
| `publisher_late_confirm` | `NilMeansStored` violated | finding 1 | 2 messages, 2 channels |
| `consumer_torn` | `ComesUp` violated | finding 2 | 2 sends, 2 faults |
| `prefetcher_stopped` | `StoppedEnqueueDrops` violated | finding 3 | 2 callers, 4 enqueues |

Why the bounds are enough for the cases that matter:

- `inv_memory`: outdating needs a fetch older than an invalidation of its tag, and the interesting
  failures need a second invalidation of the same tag (versions out of order) or a purge of the
  same key from the other side. Three events give all of them.
- `pipeline`: one book on a page makes a book that comes push another one out, the furthest an
  update reaches; an update makes up to three rows, so all of them can be late, early or
  superfluous. `ChangesAnnounced` is proved for any library in section 5.
- `outbox`: overtaking, publishing twice and rows left behind need two relays and two rows of one
  tag; batches of 2 leave a second batch when all 4 rows exist. One fault is enough to roll back
  one relay in the middle of the other's batch. Section 5 covers any number of everything for the
  safety part.
- `consumer`: remembering one id makes ids fall out of the list, which is the only way
  `Superseded` matters; two faults give a crash and a lost connection, or a write failure and a
  crash.
- `cache`: shards share nothing, so one shard is enough; capacity 2 against 3 keys evicts by
  count, 4 bytes against sizes 2 and 4 evicts two at once. One tag is enough because the index is
  kept tag by tag.
- `admission`: in the sketch one key collides with each of the others in one row, so that estimates
  are wrong but not everywhere; six requests are three halvings. An expiry would do to admission
  what a purge does, and is in `cache`.
- `prefetcher`: with a queue of 1 the second key finds it full, room for one template refuses the
  second, and the third enqueue is a second load of a key, or the one that a pause has to stop.
- `fetch`: two requests are a leader and a follower, or a follower and a bypass; a request comes
  again after its answer, so longer histories are covered as well. One change is the boundary
  between before and after; section 5 proves the same for any number of both.

Deadlock is checked in every run but those of `Admission`, `Cache`, `Consumer` and the prefetcher.
There the model really stops: the requests, the cache's clock and its inserts are bounded, the
events sent to a replica are bounded and it then waits for ever, and a prefetcher that was stopped
has nothing left to do.

Symmetry is used for identical event runners (`inv_memory`), message ids (`publishers`), callers
(`admission`) and requests (`fetch`), and only in runs without liveness properties.

## 4. Fairness

- `Outbox!FairSpec`: weak fairness of each relay's own steps (a goroutine with a poll ticker keeps
  running), of noticing a transaction that is gone (the next statement fails), and of restarting a
  process (the deployment restarts containers). No fairness for requests, notifications or the
  absence of failures; failures are bounded because no relay empties a table while the broker is
  down for ever. `OutboxDrains` does not rest on the wake channel: `Poll` alone is enough, which is
  the point of the ticker.
- `Consumer!FairSpec`: weak fairness of the process's own next step. Nothing obliges a message to
  come, and the log may stop decoding - `QueueDrains` says what remains true then.
- `Cache!FairSpec`: the Go runtime fires a timer that is due and the callback gets the lock. The
  clock may stop and nobody has to look a key up.
- `Prefetcher!FairSpec`, `PrefetchFairSpec`: goroutines keep running and every load ends, because it
  runs under a context with a timeout. Nothing obliges `Stop`, a hit, or the end of a pause.
- `Pipeline!FairSpec`: weak fairness of `Consume` only, the deliveries and the steps of the handler,
  which `OutboxDrains` and `QueueDrains` are about. Nobody has to ask for a page, and a fetch may
  stay under way for ever.
- `Fetch` states no liveness. What could make a client wait for ever is lost bookkeeping: a waiter
  without a flight, a refresh mark without an owner. `NobodyWaitsInVain` says so as an invariant,
  which is stronger evidence than a fair run and can be proved.

## 5. What is proved

TLAPS checks these for every value of the constants, from the `ASSUME`s of the modules alone:
finiteness where needed, positive sizes, disjoint tags and keys, and that placeholders such as
`None` are no data.

**`InvalidationProofs`** - `TypeCorrect` and `PurgesAreHonoured`
(`Spec => []PurgeHonoured`), for any tags, keys, events, shards, fetchers, runners, retention and
prune size. `PurgeHonoured` speaks of the cache only and is not inductive. The invariant adds:
invalidations are numbered in the order of their times (`HistoryInv`); an entry of the tracker is
the last invalidation of its target and remembers the last unconditional one, and whatever was
pruned is older than the retention (`TrackerInv`, `EntryInv`); a token is older than every
invalidation numbered after it (`FetchInv`); and a purge that is under way has not yet passed by
what it must still delete. A store is safe because either the token is too old, or the tracker
still has the entry. `EveryPurgeIsHonoured` is the same without the exception, for one runner and
events that name one tag each, as the consumer has them: then the versions of a tag come in
ascending order, and the last version that the tracker keeps is the greatest.

**`PipelineProofs`** - `ChangesAreAnnounced` (`Spec => ChangesAnnounced`), `StaleIsPending`
(`Spec => []StaleMeansPending`) and `PurgesOfRowsAreHonoured` (`Spec => []EveryPurgeHonoured`), for
any books, genres, titles, search words, pages and size of a page. `ChangesAreAnnounced` is an
argument about ranks: a page of a list is what has a rank between its bounds, an update moves only
books of greater ids, and a page that changes without showing the updated book is under the
list's or the genre's tag, which is announced; a page never has more tags than are kept.
`StaleIsPending` joins it to the replica. Its invariant says that the rows of a book ascend in its
versions (`RowsInv`), that the consumer has the whole event of a row to do, or none of it
(`HandlerInv`), and that every page stored or fetched is what the database held when it had some
number of rows, and each later row is still to come or its purge is numbered after the page's
token (`PageInv`, `AnswerInv`). A page that is outdated has a row that announces it after that
number; it is pending, or its purge has been applied with a later number, and then the page would
not be in the cache. That last step is not proved again: the replica is an instance of
`Invalidation` (`ReplicaInv`), and the lemmas of `InvalidationProofs` are used by `INSTANCE ... WITH`,
a restart being the one step of the pipeline's own.

**`AdmissionProofs`** - first the store, for any keys, tags, shards, limits, sizes and lifetimes:
`StoreTypeCorrect`, `TagIndexIsExact`, `AccountsAreExact`, `LimitsAreKept` and
`OnlyExpiredIsExpired` (`Spec` of `Cache` implies each). Its invariant is nearly what the properties
say (`ShardsInv`: the list of a shard holds each of its keys once, and its counter is the sum of
their sizes). The work is in the operators: taking a key out of a list, moving it to the front and
cutting the list off keep `Holds` (`WithoutHolds`, `FrontHolds`, `PrefixHolds`), and the size of a set of
entries is additive (`SizeOfBoth`, `SizeOfRest`). `SizeOf` counts the bytes as a set of pairs, so
that sums need no induction. What `Set` keeps is within the limits, or the new item alone, which
`Acceptable` has let in.

Then admission around it: `StoreImplemented` (`AdmissionSpec => Spec` of `Cache`: requests only ever
use the store as it is meant to be used, so all of the above holds under them),
`AdmissionTypeCorrect`, `Underestimation`, `Boundedness` and `Waiting`, for any collisions, shapes,
samples, sizes and callers. `Underestimation` needs nothing but that counting
and halving do to a key's own share what they do to its counters. `Boundedness` counts the
increments since the last halving. `Waiting` follows a key from its count over the measure to the
store: the window knows only keys whose request has ended, so a first request finds its own key
rarer than `MinFrequency` and is refused - unless it fits, and then the loop of `Set` removes nothing
(`FitsLosesNothing`).

**`PrefetchProofs`** - `PrefetchUsesTheQueue` (`PrefetchSpec => Spec` of `Prefetcher`),
`ReservationsHeldOnceInTheProxy`, `HitsAlwaysFollowLoads` and `PausesHold`, for any keys, callers,
workers and sizes. `OneHolder` counts; its invariant says which one caller, job or worker holds a
key, and that a process is concerned with one key. The queue is proved alone, and the proxy around
it only ever takes a step of the queue or none. `PausesHold` trades a request sent in a pause for
a worker that had been allowed before.

**`OutboxProofs`** - `TypeCorrect`, `UpdatesAreAnnounced`, `AnnouncedAreCommitted`, `RepeatsCostFaults`, and
`OutboxImplementsAtLeastOnce` (`Spec => HandsOverAtLeastOnce`) and `OvertakingNeedsSkipping`
(`Spec => OvertakesOnlySkipped`), for any number of books,
processes, requests, rows and faults and any batch size. The invariant follows a row: an open
update holds the only row of its book and the next version (`PutInv`), which ties versions to
rows when it commits (`DataInv`); a relay counts a row as done only after the broker has it and
only such rows are deleted (`RelayInv`). Each action then maps to a step of `AtLeastOnce` or to
none. The order of announcements needs that the ids of a book's rows ascend with its versions
(`IdInv`), and that whatever is older than a row of a batch is in the batch as well, was skipped, or
has been sent (`BatchInv`). `RepeatsCostFaults` (`Spec => []RepeatsNeedFaults`) counts, row by row,
the copies the broker has, the relays that still have the row to publish, with a session or without,
and one more if the row is free for the next batch (`CountInv`): selecting and publishing move one
from the end of this list to its beginning, and only a failure adds one. That relays hold their
rows apart is no part of it and is not stated; it would say nothing about a relay without a session.

**`PublisherProofs`** - `NilIsNeverEarly` (`Spec => []RelayNilMeansStored`) and
`NilIsExactOnFreshChannels` (`Spec => NilMeansStoredOnFreshChannel`), for any messages, channels and
failures and both publishers. An answer is taken without a look at its message; what makes that
safe is that a channel nobody kept after a failure carries no more than the one message of the call
under way (`KeptInv`, `ChannelInv`), and the relay keeps none. For the proxy's publisher the same
holds of every call until the first that kept its channel, which is where finding 1 begins.

**`ConsumerProofs`** - `TypeCorrect`, `QueuedPurgesArrive`, `LogKeepsWhatIsUnapplied`,
`RecordedIsHandled` and `VersionsNeverShrink`, for any events, any log, any limits of the processed
ids and of compaction, and any number of faults. Besides the `ASSUME`s on placeholders they use
that two events do not share an id. The invariant says that the message in hand is the head of the
queue until it is answered (`ProcInv`), that what this run of the process has not applied was not
handled when it fell due (`HandledInv`), that memory and file name only what was handled and the
file is never ahead of memory (`FilesInv`), and that nothing is replayed from a torn log
(`ReplayInv`). Whatever deduplication rules out has then been handled, or outranked tag by tag,
which is all that acknowledging a message and compacting the log need. `Unapplied` picks the lines
it keeps by their numbers, so that what compaction does to a log of any length needs no induction.

**`FetchProofs`** - `TypeCorrect`, `CacheStaysCurrent`, `AnswersAreFresh`,
`PrivateAnswersStayPrivate` and `WaitersAreServed`, for any requests and any number of changes.
Answers are the last link of a chain, and the invariant names each link: what is stored was read
after its token was taken (`EntryInv`, `CallInv`), a request's fallback and its own fetch are
recent enough for it (`RequestInv`), and so is the flight it leads, and the flight it joined if
that flight stores after the joining (`FlightInv`).

Every inductive invariant was an invariant of a TLC run before it was proved.

Every invariant, every action property and every refinement that a passing run checks is also
proved. Only model-checked is liveness (`OutboxDrains`, `QueueDrains`, `ExpiredLeave`,
`KeysComeFree`, `WorkersExit`, `StaleLeaves`), which rests on fairness and `ENABLED`.

## 6. What the models found

Three disagreements of the code with its own words have a run:

1. **A late confirm can be taken for the next message** (`publisher_late_confirm`,
   `internal/events/events.go:830`). If an attempt times out and the reconnect fails too, the old
   channel stays. The next `Publish` reads the late confirm and returns nil, although the comment
   at `events.go:828-829` excludes exactly that. `publishers` shows that this is the only way.
2. **A torn log line keeps a replica down** (`consumer_torn`, `internal/events/events.go:402`). A
   write cut short leaves half a line; `loadEventLog` refuses the whole file and the process exits
   at every start, while `README.md:130` promises a replay.
3. **Enqueue panics in a race with Stop** (`prefetcher_stopped`,
   `internal/prefetcher/prefetcher.go:153`). `closed` is checked under the lock and the send comes
   after it; the test says an enqueue after `Stop` is dropped.

Others are built into the properties, which are as strong as the code allows and name their
exception:

- `Undercut` in `PurgeHonoured`: the tracker keeps the *last* version of a tag, not the greatest
  (`invalidation_tracker.go:49`), so a later event with an older version lets an older item in.
  Only concurrent in-memory publishes, or one event naming several tags, get there.
- `skipped` in `OvertakesOnlySkipped`: two relays may announce the versions of a book out of order,
  because `SKIP LOCKED` lets the second pass the rows the first holds. Version checks in the
  brokers make that harmless.
- `faults` in `RepeatsNeedFaults`: `outbox.go:107-109` has relays that never publish the same row
  twice concurrently. `SKIP LOCKED` sees to that only as long as their database sessions live. A
  relay learns from its next statement that its session is gone, and that comes after the batch
  (`outbox.go:150-172`); meanwhile it goes on publishing rows that another relay has selected and will
  delete. What remains true is a copy more for each failure, and none without. All copies carry one
  event id.
- `missed` in `QueuedPurgeArrives`: a replica serves before its queue is bound for the first time
  (`events.go:634`); what the exchange drops meanwhile has to age out of the cache.
- `late` in `FreshAfterPurge`: a request that joins a flight between its store and its landing may
  get a response that a purge has just outdated. The window has no I/O in it.
- Between the lookup and the deletion of `invalidateResource` a newer item may be stored, and is
  deleted with the old one. It is read again; nothing stale stays.
- `Missing` in `StaleMeansPending`: a new title may bring a book into a search. Only `book:<id>` is
  announced, which the cached search is not under (`cmd/upstream/main.go:361`), so it stays as it is
  until its 30 seconds and the stale window are over. `README.md:496` has the window end with the
  deletion on each replica.
- `lost` in the same property: a row published before the replica's queue is bound for the first
  time.
- `HitsFollowLoads` speaks of loads, not of items. A prefetched item may be purged or replaced
  before it is hit, and the next hit of the key, on an item of a regular fetch, is the one that is
  answered as PREFETCH; a hit between the load and its signal is answered as HIT. So neither
  `README.md:427` (the first request after the load) nor `handler.go:820` holds to the letter. It is
  a header and a counter.
- `Workers` in `PauseHolds`: the pause is looked at before the cache, so each worker may send once
  more after an error has begun it (`prefetch.go:154`).
- The second request in `NewcomersWait`: both rows of a sketch whose width is a power of two collide
  for exactly the same pairs of keys, so in the deployed sketch the property's exception, a key that
  collides in every row, is any collision. While the cache is less than half full by count every
  candidate is measured as one (`handler.go:656`), even when it is full by bytes. And one large item
  may push out several, although only the tail's frequency is compared.
- All shards together may exceed `Capacity` by less than their number, because the share of a
  shard is rounded up (`cache.go:191`). `LimitsKept` is about a shard.

## 7. Abstractions to know about

- *Upstream data* is a version (`Invalidation`) or a count of changes (`Fetch`). Bodies, headers and
  status codes appear only as "stored or not" and "ok, failed, error".
- *The clock of the replica* stands still in `Pipeline`, so its tracker forgets nothing: forgetting is
  the business of `inv_memory` and `InvalidationProofs`. Its run has one shard, its proofs any number.
- *Policy verdicts* - cacheable, fresh, stale windows - are choices of the environment, so the
  properties hold for every policy. Streaming and the caching of error statuses are left off, as by
  default.
- *Admission* may refuse any item in `Invalidation` and `Fetch`; in `Cache` a refusal would change
  nothing and is no action, and is one of `Admission`, which has one sketch and one window for the
  keys of all shards.
  `computeMetrics` takes its readings under several locks and `Measure` takes them at once. Whether
  a newcomer is refused depends on one of them only, the estimate of the candidate.
- *Pages* of `Library` keep the rows an update can change; of a title, the search words in it. The
  loans of a reader are private and never cached.
- *Prefetch*: which page is predicted, whether a key is cached or polluted, and whether the limiter
  refuses, are choices of the environment at the step that asks; lifetimes end at any time. A load
  that joins a flight counts as sent. Requests with credentials leave no template; their answers are
  the business of `Fetch`.
- *Retries* of a failing handler (three, with pauses) are one step; the handler of a deployed proxy
  never fails, but the interface allows it and the broker is written for it.
- *RabbitMQ and PostgreSQL* are modelled from how the code uses them: confirms per channel in order,
  redelivery of what was not acknowledged on the same connection, row locks, `SKIP LOCKED`, rollback
  of lost sessions. The queue's expiry (`EVENT_QUEUE_TTL`), messages that do not decode, and a power
  loss that undoes an fsync are left out.
- *localSingleflight* of the prefetcher never has a second caller for a key, which is what
  `OneHolder` says; it is left out of a load.

## 8. What is not modelled

- Predictors (EWMA, Markov, trend): they choose what is prefetched, and no answer depends on the
  choice. (The trend tracker is told of transitions and loads under other keys than it is asked
  about, so it never changes a probability, although `README.md:429` names it.)
- The cache policy: pure functions of headers, whose verdicts are choices of the environment. Of the
  routes the parsing and the templates for predictions.
- Metrics, admin and wiring (`main.go`), the schema, the data generator and the
  health check: I/O without decisions. The order of start and stop in `run` is taken into account
  where it matters (`Serving` in `Consumer`, finding 3).

## 9. Plan

Order of work, most important first. Done: 1 to 16.

1. `Invalidation` - the promise of the proxy - with its proofs.
2. `AtLeastOnce`, `Outbox` with proofs and the refinement.
3. `Confirms`, `RelayPublisher`, `BrokerPublisher`.
4. `Consumer`.
5. `Cache`.
6. `Prefetcher`.
7. `Fetch`.
8. `FetchProofs`.
9. `Library` and `Pipeline`: the promise end to end, and `PipelineProofs`.
10. `Admission` and `AdmissionProofs`.
11. `Prefetch` around `Prefetcher`, and `PrefetchProofs`.
12. `EveryPurgeIsHonoured`.
13. `ConsumerProofs`.
14. `StaleIsPending`, for every library, in `PipelineProofs`.
15. `Publishers` and `PublisherProofs`; `OvertakingNeedsSkipping` in `OutboxProofs`.
16. The theorems about `Cache`, and `Admission` on top of it.
17. An abstract specification of a cache that forgets what was announced, with `Fetch` and
    `Invalidation` as implementations, so that the two views of a fetch meet in one place.

## 10. Running it

    tlc -config fetch.cfg MCFetch.tla
    tlapm FetchProofs.tla

`PROJECT.json` lists every run with its module and configuration, and for every definition the lines
of code it stands for.
