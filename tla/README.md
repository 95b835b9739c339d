# Models and proofs of syncstorage-rs

syncstorage-rs stores the data of Firefox Sync: per user, *collections* of
*BSOs* (basic storage objects), each with a timestamp clients synchronise by.
This directory holds TLA+ models of its storage operations on both of its
databases, the TLC configurations that check them on small instances, and TLAPS
proofs, for every instance, of the invariants and of the implementation of the
abstract modules by the storage requests of both backends, by batch uploads on
Spanner and by the collection ids, and of the purge's.

Paths below are relative to the repository. `models.rs` without a directory is
`src/db/spanner/models.rs`.

## 1. The system

| Component | State | Operations | What makes it correct | Modelled in |
|---|---|---|---|---|
| HTTP handlers (`src/web/handlers.rs`) | none of their own | GET, PUT, POST, DELETE of BSOs, collections, the storage; GET `/info/*` | each request is one transaction; conditional headers hold when it takes effect | `SpannerRequests`, `MysqlRequests`, the batch modules |
| Transactions (`src/db/transaction.rs`) | the request's session, its lock, its precondition | lock, precondition, handler, commit or rollback | a failed request changes nothing; every request ends | the same |
| Spanner database (`models.rs`, `support.rs`) | the rows of `user_collections` and `bsos`; per session a transaction, a timestamp, buffered mutations | the methods of the `Db` trait | later writes have later timestamps; a collection's timestamp covers its BSOs | `SpannerStore`, `SpannerRequests` |
| Spanner batches (`src/db/spanner/batch.rs`) | rows of `batches` and `batch_bsos` | create, validate, append, get, commit, delete | a batch takes effect at once, with its last appended values | `SpannerBatch`, `BatchUpload` |
| MySQL database (`src/db/mysql/models.rs`) | the same tables without cascades; row and gap locks | the same trait | the same promises as on Spanner | `MysqlStore`, `MysqlRequests` |
| MySQL batches (`src/db/mysql/batch.rs`) | rows of `batches` with the BSOs as lines of text | the same | nothing acknowledged is lost or stored twice | `MysqlBatch` |
| Collection ids (`models.rs`, `src/db/mysql/models.rs`, both `pool.rs`) | table `collections`, a cache shared by a pool | look up, create, name in answers | a name has one id, and the cache never disagrees with the table | `CollectionIds`, `CollectionCache`, `SpannerCollections`, `MysqlCollections`, `CollectionBackends` |
| Listings (`get_bsos`, `get_bso_ids` of both backends) | none | filter, sort, limit, offset | the pages are the listing | `Listing` |
| Extraction (`src/web/extractors.rs`) | none | parse queries, bodies, headers; limits | every BSO is valid, invalid or refused, and the client learns which | `Uploads` |
| Timestamps (`src/db/util.rs`) | none | milliseconds, header | a timestamp a client sends back compares equal to the stored one | `SyncTimestamp` |
| Purge (`src/bin/purge_ttl.rs`) | where the job is | delete expired rows in chunks or at once | only expired rows go, and all of them in the end | `PurgeTtl` |
| Session pools (`pool.rs`, `manager.rs`) | sessions in use and idle | get, check, recycle | bounded; a broken session is not handed out | not modelled |
| Authentication (`src/web/auth.rs`) | none | verify a Hawk token | cryptography | not modelled |
| Server, middleware, errors, settings, metrics | configuration | routing, reporting | which status commits is in the requests' modules | not modelled |
| Tools, migrations, vendored gRPC clients | none | scripts, generated code | | not modelled |

A request goes through `DbTransactionPool::transaction_http`: a session is taken
from the pool, the collection in the path is locked (`lock_for_read` for GET,
`lock_for_write` otherwise; requests without a collection take no lock),
`extract_resource` reads the timestamp the precondition headers are compared
with, the handler runs, and its response decides between `commit` and
`rollback`. The sessions of concurrent requests meet in the database, and in the
cache of collection ids.

What is hard here. On Spanner: transactions may be aborted by other writers, by
the purge job or for no visible reason, at any statement; `post_bsos` decides
between INSERT and UPDATE long before Commit applies the mutations; parents are
written by statements and children by mutations. On MySQL: a lock on a missing
row is a lock on a gap that two writers may hold at once, plain reads are of a
snapshot older than what the statements around them see, nothing cascades, the
timestamp is the clock of a web server, and a handler that takes a deadlock for a
failed item goes on without its transaction. On both: the clock ticks at the
resolution timestamps are compared with; expired rows exist but are not seen;
deletion forgets timestamps; a batch is spread over requests that overlap and are
sent again; a read of several statements must look like one.

## 2. The modules

| Module | What it is | Composes |
|---|---|---|
| `SyncStore` | abstract: each request is one atomic, timestamped operation | |
| `BatchUpload` | abstract: batches on top of it | `SyncStore` |
| `SpannerStore` | tables and transactions of one user on Spanner, the purge's effect | |
| `SpannerRequests` | every storage request but batches on Spanner, step by step | `SpannerStore`; implements `SyncStore` |
| `SpannerBatch` | POST with `?batch` on Spanner | `SpannerStore`; implements `BatchUpload` |
| `MysqlStore` | tables, transactions and locks of one user on MySQL | |
| `MysqlRequests` | the storage requests but batches on MySQL; GET of one BSO and of `/info`, which neither lock nor write, only on Spanner | `MysqlStore`; implements `SyncStore` |
| `MysqlBatch` | POST with `?batch` on MySQL | `MysqlStore` |
| `CollectionIds` | abstract: a name gets one id for good | |
| `CollectionCache` | the cache a server's sessions share, and the requests that answer with names | |
| `SpannerCollections`, `MysqlCollections` | how each backend finds and makes ids | `CollectionCache` |
| `CollectionBackends` | servers on one backend or the other | the four above; implements `CollectionIds` |
| `Listing` | queries, pages and offsets of both backends, and a client that pages | |
| `Uploads` | the extraction of POST and PUT bodies, and a client that retries | |
| `SyncTimestamp` | timestamps through headers and back | |
| `PurgeTtl` | the purge job | |
| `MC...` | values of the constants for TLC | |
| `SpannerRequests_proofs` | proofs about `SpannerRequests`: types; safety and preconditions; `SyncStore` and readers | |
| `MysqlRequests_proofs`, `SpannerBatch_proofs`, `MysqlBatch_proofs`, `CollectionBackends_proofs`, `Listing_proofs`, `PurgeTtl_proofs` | proofs about the modules of these names | |
| `Extractors_proofs` | proofs about `Uploads` and `SyncTimestamp`, both of `web/extractors.rs` | |

Definitions preceded by `\* Mutant of X` are X with a plausible bug; nothing uses
them. With one in place of X a property of the module's run is violated, which
shows that the property depends on that code.

### SpannerStore and SpannerRequests

`uc[k]` is the `modified` column of collection `k` (the tombstone is collection
0), `bso[c][i]` a row of `bsos`, or absent. `now` is Spanner's clock, in units of
the 10 ms at which timestamps are compared. `txn[p]` is the transaction of a
session: its mode, the keys it read, the rows it wrote with statements, and its
buffered mutations. A read-only transaction carries its snapshot.

Cloud Spanner itself is external and modelled by what the code relies on:
statements see their transaction's own writes; a commit aborts the open
read-write transactions that had read what it writes ("If a transaction
successfully commits, then no other writer modified the data that was read in
the transaction after it was read", quoted in `create_collection_async`); a
mutation is applied at Commit, after every statement, and fails the commit when
an inserted row exists or an updated one does not; any read-write transaction may
be aborted at any time (`SpannerAbort`).

`req[p]` is the request of client `p`. Its `pc` follows `transaction_http`:

    idle -> lock -> [timestamp] -> check -> handle -> [finish] -> commit -> idle

| Action | Code |
|---|---|
| `Start` | `DbTransactionPool::from_request` |
| `LockForRead` | `lock_for_read_async` |
| `LockForWrite`, `LockConflict`, `LockForWriteNew` + `ReadClock` | the three ways through `lock_for_write_async` |
| `CheckPrecondition` | `extract_resource` and the precondition in `transaction_http` |
| `PostBsos`, `DeleteBso`, `DeleteBsos`, `DeleteCollection` | the methods of `SpannerDb` of these names |
| `DeleteAll` | handler `delete_all`, with the transaction it begins |
| `GetBso`, `GetBsos`, `FinishGetCollection`, `GetInfo` | the reading handlers |
| `CommitRead`, `CommitWrite` | `commit_async` |
| `Aborted`, `GiveUp` | a failed statement, `rollback_async`, a client that leaves, a server that stops |
| `Tick`, `SpannerAbort`, `PurgeRow` | the environment |

Several statements of one handler are one step where that loses nothing: if
another commit overwrote what the first statement read, the transaction is
aborted, and otherwise the first statement could as well have run at the time of
the last. The lock, the second clock query, the precondition, the handler and the
commit are separate steps, and so are the two queries of a listing, because the
clock moves and rows expire between them. A Spanner abort may come between any
two. `high[c]` is a history variable: the greatest timestamp collection `c` ever
committed.

### SpannerBatch

`batch[b]` is a row of `batches` with its rows of `batch_bsos`: fresh, open or
gone, its collection, expiry and items. `work[p]` is what `p`'s transaction did
to them. `ValidateBatch` and `CreateBatch` (with `pretouch_collection_async`) find
the batch of a POST, `AppendToBatch` and `AppendFails` add its items (a database
error is answered as failed items and the transaction goes on), `PostBsos` and
`PostBsosFails` write the items of a committing POST at once, `CommitBatch` is the
update half, the insert half and the deletion of the batch. `CommitRefused` is
Spanner's ALREADY_EXISTS. `DeleteCollection` cascades to the batches, the purge
takes expired ones. A retry is a second request with the same parameters; both may
be open at once.

### MysqlStore, MysqlRequests, MysqlBatch

InnoDB is external: exclusive and share locks of rows, gap locks that exclude only
inserts, locks until the end of the transaction, locking reads and writes of the
last committed rows. An action that waits for a lock is not enabled while
another holds it, so statements are separate steps wherever a lock is taken
between them: `PutBsos` or `DeleteBso(s)` and then `Touch`, `DeleteAllBsos` and
then `DeleteAllCollections`. A session's timestamp is the clock of its web server,
up to `MaxSkew` behind the furthest one, read before anything is locked.

`WaitsFor(p, q)` says that `p`'s next statement waits for a lock of `q`, and
`Cycle(S)` that `S` is a circle of such waits. InnoDB then rolls one of them back.
Most handlers return the error, which is `GiveUp`, as are a wait's timeout and any
other error. `post_bsos_sync` does not (`src/db/mysql/models.rs:673`): it takes the
error for a failed item and goes on, and so does `post_collection_batch` with an
`append` (`src/web/handlers.rs:339`). There is no transaction then:

| Action | Code, run without a transaction |
|---|---|
| `LoseTransaction` | the `Err` of `put_bso_sync`, or of `append_to_batch`, that was a deadlock |
| `PutAlone`, `TouchAlone`, `FailAlone` | the remaining items, each `put_bso` an INSERT and a `touch_collection` committed one by one, and the last `touch_collection` |
| `GetAlone`, `DeleteAlone` (`MysqlBatch`) | `get_batch` and the deletion of the batch |

`torn` is history: the collections in which this has happened. What diesel makes of
its count of open transactions afterwards, for the COMMIT of this request and the
connection it gives back, is diesel's and not modelled.

In `MysqlBatch` a batch is a sequence of records, appended to by concatenation,
replayed by `CommitBatch`, one `put_bso` a record, and deleted by `DeleteBatch`.
`work[p].snap` is the snapshot the first plain read of the transaction took;
`acked` is history, the records each batch was answered 202 for. `MayFail` lets a
statement that writes fail and leave the transaction as it was, which `post_bsos`
and `post_collection_batch` turn into a failed item.

### Collection ids

`table` is `collections`, `cache[s]` the two maps of server `s`, which are behind
a lock each, so `PutByName` and `PutById` are two steps. `wrote[id]` is history:
the names whose requests stored something under `id`. Spanner takes `MAX + 1` in
the request's transaction and caches only what a read transaction saw; MySQL
inserts with INSERT IGNORE, which uses up an AUTO_INCREMENT id either way, commits
at once and caches then. GET `/info/...` maps ids to names through the cache. On
MySQL it fills the cache with what it looked up; on Spanner its query begins a
read-write transaction (`sql` of `models.rs:349`), in which line 654 does not cache,
and the model, which lets it, allows more than the code does. Rollbacks and a
server's restart (an empty cache) are in both.

### Listing, Uploads, SyncTimestamp, PurgeTtl

`Listing` builds the answer of both backends from one set of possible orders of
the matching rows, since ORDER BY names one column or none, and chooses anew for
every page: the tie-break by id is commented out on both backends. The client
repeats the first X-Last-Modified as X-If-Unmodified-Since and stops at a 412.
`DeleteCollection` takes the collection's timestamp with it: the next page compares
with 0, is not answered 412, and ends (`deleted` is history).

`Uploads` is the path of a body through the extractors: parsed records, the
limits of a record, of a request and of a batch, the move of what is over a limit
to the failed, and a client that sends the rest of its records and, in any order,
those it is told to retry, with or without size headers, with or without a batch, and a
careless one that gives any parameters.

`SyncTimestamp` models the 64-bit float of `from_header` exactly: what parsing a
header rounds off, and whether the product by 1000 restores it.

`PurgeTtl` has the order of tables, chunks, attempts, the maximum of a call and
both ways of deleting. `Request` refreshes or removes any row meanwhile, which
aborts a transaction that has read it.

## 3. The runs

| Run | Properties | Instance | What it shows |
|---|---|---|---|
| `spanner_writers` | `CollectionCoversBsos`, `BufferedMutationsApply`, `NothingMissed`, `ContentAdvances`, `PreconditionHolds`, `FailedRequestsChangeNothing` | two clients, one collection, one BSO, three ticks; writes, deletions and listings; expiring and empty bodies; with and without X-If-Unmodified-Since | parents cover children, no commit fails on a stale INSERT/UPDATE choice, new content is newer than anything before, of two conditional writers one fails, a 404 or 412 writes nothing, a listing's timestamp hides nothing |
| `spanner_requests` | `TypeOK`, `TakesEffectAtOnce`, `RequestsAreAnswered` | two clients, every kind of request, expiring bodies and a ttl alone, two ticks | the steps of concurrent requests add up to the operations of `SyncStore`, and every request ends |
| `spanner_batch` | `TypeOK`, `ParentsTellTheTruth`, `RefusedOnlyForRepeatedItem`, `ConditionalOnce`, `AnswersAreTrue`, `UploadsTakeEffectAtOnce` | two clients, two batches, one BSO, a payload or a ttl alone, three ticks, a batch lives one | a batch shows nothing before its commit and then everything appended; overlapping appends are in it or fail; what a POST is told is true; a conditional commit is applied once |
| `mysql_requests` | `TypeOK`, `CollectionCoversBsos`, `DeadlockOnlyOverGaps`, `ListingIsCurrent`, `PreconditionHolds`, `TakesEffectAtOnce` | two clients, every kind of request on one collection of two BSOs, a payload or a ttl alone, a clock one tick behind, two ticks | row and gap locks keep the promises Spanner keeps with aborts; requests wait for each other in a circle only where no row exists or the storage is deleted; a `post_bsos` that swallows such a deadlock breaks them in its collection and by its own statements only |
| `mysql_batch` | `TypeOK`, `AcknowledgedItemsAreStored`, `StoredOnce` | two clients, two contents for one BSO, batches of two records that live one tick, three ticks; the collection has a row or has none | overlapping appends and commits lose nothing where the collection has a row, also beside a request that has lost its transaction, and one of two commits succeeds either way |
| `collections` | `TypeOK`, `CacheAgrees`, `InfoNamesAreTrue`, `NamesKeepTheirIds` | two clients, two servers, three names, one with a standard id, both backends | both backends implement `CollectionIds`; caches hold what is committed; answers name the right collections |
| `listing` | `PagesAreTheListing`, `OffsetsAdvance` | three BSOs with ties of both keys, every order and order of ties, limits of none, one and two, filters, both backends and kinds of answer; writes and deletions of BSOs and of the collection | the pages of a client that is not answered 412 are the listing, up to the order of rows that compare equal, and end |
| `uploads` | `TypeOK`, `EveryRecordIsAnswered`, `PostsKeepTheirLimits`, `BatchesKeepTheirLimits`, `RetriesSucceed` | up to three records of every kind and of sizes about the limits, five kinds of client | a client learns what became of each record; limits hold; a client that retries gets everything in |
| `sync_timestamp` | `ChangesAreNoticed`, `RefusedOnlyForChanges` | every hundredth of four seconds between 2004 and 2038 | an echoed X-Last-Modified is refused exactly when something changed |
| `purge_ttl` | `TypeOK`, `PurgesOnlyExpired`, `ExpiredRowsGo` | three rows in each of two tables, chunks of two, a maximum of one, two attempts, two errors or crashes, one request | a refreshed row stays, an expired one goes in the end |
| `delete_collection_timestamp` | `DeletionAdvancesStorage` | two collections, PUT and DELETE, two ticks | violated: finding 1 |
| `mysql_batch_fails` | `AcknowledgedItemsAreStored` | as `mysql_batch`, statements may fail | violated: finding 2 |

Why the instances are enough to be interesting. Two requests interleave at every
step, either may be aborted or abandoned, and a third may follow it; three ticks
let a collection be created, overwritten and then conflict with or advance past
the write; a ttl of 0 (1 on MySQL) makes a row that is expired and not purged,
which later writers meet. One BSO is enough for two requests to collide, and the
code treats BSOs of a request alike; `listing` and `uploads`, where several matter,
have three. Two batches let a retried create make the second. In `sync_timestamp`
what the float loses depends on the hundredth alone from 1.024 * 2^30 seconds
(November 2004) to 2^31 (January 2038), so the seconds at both ends and two
between stand for the rest. In `purge_ttl` the
maximum is below a chunk, so that the job needs several runs. `mysql_requests` has
two BSOs, since what a `post_bsos` goes on with after a deadlock is its other items,
and two ticks, enough for the loser to have the older timestamp.

Three runs stop where nothing is left to see (`UntilItEnds`, a CONSTRAINT, of the
MC module). In `mysql_requests` and `mysql_batch` a behaviour with a request that
lost its transaction is followed, all other requests going on beside it, until no
such request is in progress; what the next ones would do starts from rows that
these modules' properties claim little of any more. Without the constraint
`mysql_batch` passes with batches of one record, living two ticks. In `listing` a
behaviour ends with the client's last page.

Symmetry of clients (and of batches, servers and names that are not standard) is
used in runs without liveness. Times stop at `MaxTime`; a request that needs a
later time then gets a conflict, as it does within one tick of the real clock.
Deadlock is checked in every run but `listing` and `uploads`, whose clients end.

Fairness. `spanner_requests` uses `FairSpec`: weak fairness of `Serve(p)`, the
steps of the server for one request, since the executor polls a task that can go
on. Nothing is asked of clients, of the clock, of the purge or of Spanner, which
may abort for ever: an aborted request is answered with a conflict, not retried.
`uploads` asks that a client which is not done goes on (`WF_vars(Next)`), and
`purge_ttl` that the job is run again and its calls return (`WF_vars(Job)`): it is
run by a schedule. MySQL's runs state no fairness: that a wait for a lock ends is
InnoDB's promise.

### Findings

1. The tombstone takes the session's timestamp whatever the storage's timestamp
   is (`models.rs:792`). Deleting one collection in the tick in which another was
   written leaves it unchanged, and two overlapping deletions can move it back;
   the database tests assert that it grows.
2. When one record of a MySQL batch fails in the commit, `post_bsos` puts it into
   its result, which is `Ok`; the batch is deleted all the same
   (`src/db/mysql/batch.rs:118`), whose comment says it is deleted "when
   succesful".

### Where a property stops

Behaviour met while modelling that no document of the repository contradicts. It
bounds what the properties above say, and each can be seen by dropping the named
restriction.

* DELETE `/storage` begins a second transaction in the handler
  (`src/web/handlers.rs:97`): a write that commits after its precondition was
  checked is deleted in spite of X-If-Unmodified-Since. `PreconditionHolds` is
  about the other writes (`WriteKinds`).
* DELETE `/storage` forgets the timestamps the write lock compares with and
  leaves no tombstone (`models.rs:828`): a PUT, the deletion and another PUT in
  one tick give new content an old timestamp. `ContentAdvances` is checked with
  the requests of a collection (`OfACollection`).
* The same holds on MySQL after DELETE of a collection, whose row is gone and
  whose tombstone no writer compares with (`src/db/mysql/models.rs:210`). The
  tombstone itself takes the session's clock, which may be behind (line 310).
* A write of a ttl alone revives an expired BSO and keeps its old `modified`
  (`src/db/spanner/support.rs:347`): a client that asks for newer ones never sees
  it. `NothingMissed` is checked without such a body (`ExpiringOrNothing`).
* A MySQL commit in a collection without a row reads the batch from a snapshot and
  deletes its latest version: an append committed in between is lost
  (`src/db/mysql/batch.rs:85`). `AcknowledgedItemsAreStored` excepts commits that
  locked only a gap.
* `post_bsos` on MySQL goes on after any error of `put_bso`, of which the comment says
  "(wouldn't db failures abort the entire transaction anyway?)"
  (`src/db/mysql/models.rs:669`). InnoDB does so at a deadlock: two POSTs to a
  collection without a row hold its gap, the second waits for a BSO of the first and
  the first, in `touch_collection`, for the gap of the second. The victim then stores
  the rest of its items and its timestamp without a lock, whatever its
  X-If-Unmodified-Since says: they may land between the statements of a listing, the
  collection's timestamp may go back, and a BSO be left newer than it. The properties
  of `mysql_requests` except collections where that happened (`torn`), and
  `TakesEffectAtOnce` the statements themselves; `DeadlockOnlyOverGaps` says that it
  takes two such POSTs or a DELETE `/storage`. `StoredOnce` excepts them too, since
  the victim of a commit still deletes the batch, and `AcknowledgedItemsAreStored`
  is about commits of a transaction.
* The items of a committing POST are written before the pending ones
  (`src/web/handlers.rs:299`): on MySQL the pending one wins, on Spanner the
  commit fails when the row is new (`RefusedOnlyForRepeatedItem` says only then).
* A BSO that expires between two pages shifts the offsets and one is skipped
  (`models.rs:1098`); `PagesAreTheListing` excepts it, and a collection that is deleted
  between two pages, which ends the listing without a 412. Of rows that compare equal
  one may come on two pages and another on none, since no ORDER BY tells them apart
  (`src/db/mysql/models.rs:498`): the property holds the keys and every row without a
  like in place (`IsUpToTies`), and says no more of ties. `limit=0` answers the offset
  it was given (`models.rs:1185`); queries leave it out.
* The limits of a batch are compared with what the headers of each POST announce
  and never with the batch (`src/web/handlers.rs:360`). `BatchesKeepTheirLimits`
  is about clients that announce truthfully; what one POST creates, fills and commits
  counts as a batch there.
* A POST to a batch on Spanner whose append is wrongly answered as stored would escape
  `AnswersAreTrue` if it changed no row at all.

## 4. The proofs

Proved for all values of the constants that satisfy the named assumptions:

| Theorem | States | Module |
|---|---|---|
| `TypeCorrect` | `Spec => []TypeOK` of `SpannerRequests` | `SpannerRequests_proofs` |
| `CollectionsCoverTheirBsos` | `Spec => []CollectionCoversBsos` | `SpannerRequests_proofs` |
| `MutationsAlwaysApply` | `Spec => []BufferedMutationsApply` | `SpannerRequests_proofs` |
| `ContentAlwaysAdvances` | `Spec => ContentAdvances`, when no request is DELETE `/storage` | `SpannerRequests_proofs` |
| `FailedRequestsLeaveNoTrace` | `Spec => FailedRequestsChangeNothing` | `SpannerRequests_proofs` |
| `PreconditionsHold` | `Spec => PreconditionHolds` | `SpannerRequests_proofs` |
| `RequestsTakeEffectAtOnce` | `SpannerRequests` implements `SyncStore` | `SpannerRequests_proofs` |
| `NothingIsMissed` | `Spec => []NothingMissed`, when no request is DELETE `/storage` and no body a ttl alone | `SpannerRequests_proofs` |
| `UploadsTypeCorrect` | `Spec => []TypeOK` of `SpannerBatch` | `SpannerBatch_proofs` |
| `BatchParentsTellTheTruth` | `Spec => []ParentsTellTheTruth` | `SpannerBatch_proofs` |
| `RefusalsAreForRepeatedItems` | `Spec => []RefusedOnlyForRepeatedItem` | `SpannerBatch_proofs` |
| `RetriesWriteOnce` | `Spec => ConditionalOnce` | `SpannerBatch_proofs` |
| `UploadAnswersAreTrue` | `Spec => AnswersAreTrue` | `SpannerBatch_proofs` |
| `BatchesTakeEffectAtOnce` | `SpannerBatch` implements `BatchUpload` | `SpannerBatch_proofs` |
| `LocksTypeCorrect` | `Spec => []TypeOK` of `MysqlRequests` | `MysqlRequests_proofs` |
| `RowsCoverTheirBsos` | `Spec => []CollectionCoversBsos`, outside `torn` | `MysqlRequests_proofs` |
| `ListingsAreCurrent` | `Spec => []ListingIsCurrent`, outside `torn` | `MysqlRequests_proofs` |
| `DeadlocksAreOverGaps` | `Spec => []DeadlockOnlyOverGaps`, of any number of requests | `MysqlRequests_proofs` |
| `LockedPreconditionsHold` | `Spec => PreconditionHolds` | `MysqlRequests_proofs` |
| `LocksMakeRequestsAtomic` | `MysqlRequests` implements `SyncStore`, but for the statements of `GoesOnAlone` | `MysqlRequests_proofs` |
| `MysqlUploadsTypeCorrect` | `Spec => []TypeOK` of `MysqlBatch` | `MysqlBatch_proofs` |
| `BatchesAreStoredOnce` | `Spec => StoredOnce`, outside `torn` | `MysqlBatch_proofs` |
| `AcknowledgedRecordsAreStored` | `Spec => AcknowledgedItemsAreStored`, when no statement fails by itself (`~MayFail`) | `MysqlBatch_proofs` |
| `IdsTypeCorrect` | `Spec => []TypeOK` of `CollectionBackends` | `CollectionBackends_proofs` |
| `IdsAreForGood` | `CollectionBackends` implements `CollectionIds` | `CollectionBackends_proofs` |
| `CachesAgree` | `Spec => []CacheAgrees` | `CollectionBackends_proofs` |
| `InfoAnswersTrueNames` | `Spec => []InfoNamesAreTrue` | `CollectionBackends_proofs` |
| `UploadsAreTyped` | `Spec => []TypeOK` of `Uploads` | `Extractors_proofs` |
| `RecordsAreAnswered` | `Spec => []EveryRecordIsAnswered` | `Extractors_proofs` |
| `PostsAreLimited` | `Spec => []PostsKeepTheirLimits` | `Extractors_proofs` |
| `BatchesAreLimited` | `Spec => BatchesKeepTheirLimits` | `Extractors_proofs` |
| `EveryChangeIsNoticed` | `Spec => []ChangesAreNoticed` of `SyncTimestamp` | `Extractors_proofs` |
| `RefusalsAreForChanges` | `Spec => []RefusedOnlyForChanges`, for moments where the float has room for the product (`RoomForTheProduct`) | `Extractors_proofs` |
| `OffsetsLeadOn` | `Spec => OffsetsAdvance` of `Listing` | `Listing_proofs` |
| `PagesMakeTheListing` | `Spec => PagesAreTheListing` | `Listing_proofs` |
| `PurgeTypeCorrect` | `Spec => []TypeOK` of `PurgeTtl` | `PurgeTtl_proofs` |
| `OnlyExpiredRowsArePurged` | `Spec => PurgesOnlyExpired` | `PurgeTtl_proofs` |

None of these properties is inductive but the simplest: a commit writes what
several earlier steps put into a transaction, so an invariant has to say what
those steps left there. Each invariant below was an invariant of a TLC run on
the instance of section 3 before it was proved. `Spec` is the specification
without fairness; `FairSpec` implies it.
The proofs about requests and about batches each begin with the lemmas about the
operators of their store.

**Storage requests on Spanner.**

* `TypeInv` adds to `TypeOK` that a write has its timestamp from the check on
  (`WellFormed`); without it a touch could write time 0.
* `SafeInv` adds, per open read-write transaction: `Locked`, what
  `lock_for_write` read is in the read set and still true (`uc < ts <= now`);
  `Shape`, the pending writes are nothing, one collection's BSOs at the request's
  timestamp, one collection removed, or everything removed, and unless they are
  nothing the request is at its commit with status 200; `Fits`, a buffered
  INSERT's row is absent and an UPDATE's present, and either is in the read set.
  For the tables it adds `CollectionCoversBsos` and `HistoryKept`, which ties
  `high` to `uc`.
* `PreconditionInv` adds `Guarded`: from the check on, the rows the header is
  about are in the read set and the header still holds.
* `ExactInv` says what a commit will write, not only where: the request's body
  over the rows of its ids and no others (`WritesBody`), the rows of its ids gone
  (`RemovesBsos`), and so on, one case per abstract operation. The refinement
  follows: a commit is the operation its case names, at the timestamp `SafeInv`
  bounds; `Tick` is `Advance`, `PurgeRow` is `Expire`, all else a stutter.
* `ReadInv` adds to these what a reader may rely on (`Snapshot`): each BSO is as
  in the snapshot of its transaction, or gone, or newer than the collection was in
  the snapshot.

What a request assumed survives the steps of the others for one reason, the lemma
`OpenStaysSafe` (`OpenStaysGuarded`, `OpenStaysExact`): a commit or purge that
overwrites something a transaction read leaves it dead (`CommitKeeps`), and only
its expiry can hide a row. What a commit does to each collection is
`CommitEffect`: keep it, write it at the request's timestamp, or remove it.

The hypotheses are needed and are behaviour of the code (section 3, "Where a
property stops"). `ContentAlwaysAdvances` and `NothingIsMissed` assume
`NeverForgets`, no DELETE `/storage` among the requests, since it removes the
timestamps the next writer would have to pass. `NothingIsMissed` assumes
`NoTtlAlone` too: such a write revives an expired BSO with its old `modified`.
`PreconditionHolds` leaves out DELETE `/storage`, for which the like is false.

**Batch uploads on Spanner.** `BatchInv` is, besides `TypeOK`,

* `Shape` and `WorkShape`: what the position of a request implies of its
  timestamp, its answer and its work on the batch tables;
* `Holding`: a batch that a request makes is fresh and its own, one it works on
  otherwise exists, and what is not open holds no items;
* `Uploading`: while the transaction can still commit (it is not aborted and
  nothing it read in the batch tables was overwritten, `~dead`), what it read is
  as it was (`Current`), and what it has written and buffered is exactly what its
  position says of the *present* tables (`Progress`): a parent or nothing, the
  mutations of `post_bsos`, the rows of `commit_batch`, a deletion;
* `HistoryOK`: the headers in `wrote` are older than the collection.

The proof has two halves. A step inside one transaction leaves the tables alone
(`LocalStep`), so only the request's own part has to be shown. A step that
changes the tables (a commit, the purge) must leave every other request
`Undisturbed` or aborted (`SharedStep`): `OthersGoOn` shows that what the model
of Spanner aborts, overwritten keys and `Overwrites` of the batch tables, is
enough. `CommitCases` says what each kind of commit does to the tables, and the
theorems read off from it; `UploadAnswersAreTrue` covers the transaction that
goes on after a failed statement, `RetriesWriteOnce` any number of overlapping
attempts. `BatchBodiesAssumption` has `Bodies # {}`, because the abstract
operations name a body also for a POST without items.

**Storage requests on MySQL.** `LockInv` is, besides `TypeOK` and
`CollectionCoversBsos`,

* `Exclusive`: what one transaction has locked exclusively no other has locked,
  as a row or as a gap;
* `Shape`: each transaction is a function of its request's position and of the
  committed rows, so it has done its whole effect over rows that are still as
  they were;
* `Told`: what a request has read and will answer, or has compared its header
  with, is so still, as far as no request goes on without a transaction there.

Locks, not aborts, keep these: a lock of a present row excludes all others; two
may hold the lock of a gap, but neither can insert, so nothing in the collection
changes, until InnoDB takes the locks of one away: a request that goes on alone has
the empty transaction and changes rows one at a time, which only `Told` and the rows
of collections in `torn` feel. The refinement and `ListingsAreCurrent` follow from
`Shape` and `Told`; `DeadlocksAreOverGaps` from `Exclusive` and `RowsApart` (two
transactions lock different BSOs) and from the order in which `Shape` lets a request
take its locks.

**Batch uploads on MySQL.** `BatchInv` is, besides `TypeOK`,

* `Exclusive`, `GapsAreEmpty` and `RowLocks`: exclusive locks exclude, a locked
  gap of `user_collections` is still empty, and no two transactions have locked one
  row of `batches`;
* `AcknowledgedIsHeld`: what a batch was answered 202 for (`acked`) is what its row
  holds, and nothing if it has no row;
* `Sound`, of each request: the collection it has locked, as a row or as a gap
  (`Holding`); that a batch of its snapshot is there still, unless a request goes on
  alone in the collection, and as it was where it locked a row (`Seen`);
  that it has created, found or extended the row of its own
  batch and no other (`Changed`); and, once the batch is replayed, that the
  transaction holds the content each acknowledged record gives, the last one
  winning (`Stored`); or, if it has lost its transaction, that it holds no lock and
  has a place among the statements it may still run (`Alone`).

`Seen` is why a plain read may decide about the batch, and gives
`BatchesAreStoredOnce`: who commits a collection has its row locked or, through
`touch_collection`, is the only one with its gap (`Excluded`). `Stored` comes from
`ReplayedStores`: after record `k` of the replay the transaction holds what the
first `k` records give (`Stores`). A length of the batch is a natural number,
so this is an induction, done as a least counterexample (`LeastElement`) since
the induction theorems of the library cannot be instantiated;
`ReplayExists` first shows that the recursive function `Replayed` is built from
has a value at all. `AcknowledgedRecordsAreStored` assumes `~MayFail`; run
`mysql_batch_fails` shows that it is false without. `BatchAssumption` asks for
`MaxTime >= 2`, for the clock is 2 when the first request of the model comes and
collections have been written at 1.

**Collection ids.** `IdsInv` says that ids in the table are distinct and, on MySQL,
below AUTO_INCREMENT (`Distinct`), that caches hold committed pairs, and of each
request (`Sound`) that what it looked up is committed, and the id it made on
Spanner is nobody's as long as the names it read stay uncommitted (`OwnId`).
`NamesAssumption` asks of the constants that standard ids are below the first
custom one, which is positive (`FIRST_CUSTOM_COLLECTION_ID`), and that there is a
name and a server.

**The purge.** `PurgeInv` adds to `TypeOK` that what the unaborted
transaction of `delete_incremental` has read is still expired (`ReadIsExpired`):
the clock only moves on, and a request that writes such a row aborts the
transaction. `BelowMaximum`, that a chunk is read only below the maximum of the
call, bounds what a call deletes. `TypeOK` alone is not inductive, since nothing
in it bounds `total` before a deletion.

**Uploads.** `UploadInv` adds to `TypeOK`, `EveryRecordIsAnswered` and
`PostsKeepTheirLimits` that a batch is finite. All of it is about one POST, from
what `BsoBodies` and the trimming keep of a body: the places of its records fall
into those kept and those with a reason (`KeptPlaces`), and different places hold
different records, since a body that names an id twice is refused. A limit on bytes
is a limit on a sum, over the places of a body where the code counts and over the
records where the property does. The sums are `SumFunctionOnSet` of the community
modules; that they are monotonic, and at most additive over a union, is proved here
as a smallest set that fails (`SmallestSet`), since the induction theorems of the
library cannot be instantiated. `BatchesAreLimited` is about the headers
(`PartKeepsLimits`): each POST compares the batch and all that is left to send with
the totals, so a batch never holds more than was announced, whichever records the
trimming left for later, and if one POST makes, fills and commits it.

**Timestamps.** `EveryChangeIsNoticed` needs only that `from_header` gives the time
sent or the hundredth before it (`FromHeaderIsNotLater`). For `RefusalsAreForChanges`
it has to be exact: `FromHeaderIsExact` shows that half a place of the product is
then greater than any residue modulo 100, once the recursive function `PowMod` is
known to exist and to stay below 100 (`PowModExists`, `PowModType`). The hypothesis
`RoomForTheProduct` holds of the moments after 1.024 * 2^30 seconds, from November
2004 until January 2038, which are those the run takes. The specification of
`SyncTimestamp` is `StampSpec`, so that its proofs can stand beside those of `Uploads`.

**Listings.** `ListInv` says of a client that still pages (`PagesSoFar`) that the
collection's timestamp is at least the one it repeats, unless the collection was
deleted, and as long as they are equal, that what it first could have been listed
(`whole`) is sorted and holds every row that matches now, and that the pages it has
agree key by key with the beginning of it, up to its offset, unless rows expired
(`HasPages`). Writes move the timestamp on; time only takes rows away. The heart,
`OneListing`, is that two enumerations of one finite set sorted by one column have
the same keys at the same places, in whatever order either leaves the rows that share
one; so it does not matter which order the database picks for a page.
`OffsetsLeadOn` needs none of it. The page itself is proved of all four functions,
which pop the extra row and count offsets in different ways.

Stays with TLC, beyond the prover: liveness (`RequestsAreAnswered`, `RetriesSucceed`,
`ExpiredRowsGo`). That `SyncTimestamp`'s arithmetic agrees with a 64-bit float is
neither checked nor proved but stated, in its comments.

## 5. What is left out

* Session pools: waiting, health checks and recycling are those of bb8, r2d2 and
  the services. What `src/` adds, the timestamp a session is given and the cache
  it shares, is in the requests' modules and `CollectionCache`.
* Authentication: Hawk tokens are cryptography over one request, without state.
* The server, middleware, error rendering, settings, metrics, logging and tags:
  configuration and observability. `src/web/middleware/db.rs` is not compiled.
* The parsing of paths, ids, the Accept header and the syntax of queries: functions
  of one string each. The fields of a query are in `Listing`.
* Conversions of timestamps to the databases' types keep the milliseconds and are
  the identity on the hundredths the models count in.
* The mock database and the tests, read as the statement of what is expected. Tests
  run several operations on one session and skip commits (`cfg!(test)`); the models
  are of the production paths.
* Of a BSO, its payload and sortindex are one value in the storage modules.
* gRPC and MySQL failures and Spanner's size limit (`SpannerTooLarge`) are
  `GiveUp`, possible at any time.
* A request of `MysqlBatch` has at most one BSO, and DELETE of the collection is
  not among its requests: it leaves `batches` alone on MySQL.

## 6. Plan

Sections 2, 3 and 4 are done: every safety and action property of the passing runs
is a theorem. What could come next, each with what it needs:

1. The hazards without a property (`PROJECT.json`): a delete of the storage or of
   a collection that follows its precondition in another transaction, and a limit of
   zero, need requests the models do not have.
2. The connection a swallowed deadlock leaves behind: what the next requests on it
   store, which needs diesel's count of open transactions.
3. The session pool, were its waiting ever to be the code's own.
4. The liveness properties, with a prover that has ENABLED.
