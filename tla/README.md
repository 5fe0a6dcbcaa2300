# A TLA+ model of the Orion-LD context broker

Orion-LD is a multi-threaded NGSI broker: HTTP requests create, update and
query entities in MongoDB, and an update of an entity sends notifications to
those who have subscribed to it.  The hard part is not the translation between
JSON and BSON, which is most of the code, but what the threads share: a pool of
database connections, a cache of the subscriptions that is saved, emptied and
reloaded while it is in use, a queue of notifications, a cache of `@context`s
that are downloaded on demand, the tenants with their pools of Postgres
connections, and the entities themselves, which several requests read, decide
about and write.  That is what the modules in this directory model, and besides
it one piece of logic that exists several times in the code and has to agree
with itself: which subscriptions an update of an entity triggers.

Paths below are relative to `src/lib` of the repository unless they start with
`app` or `doc`.

## 1. Inventory

| Component | State | Operations | Hard behaviour | What makes it correct |
|---|---|---|---|---|
| MongoDB connection pool (`mongoBackend/mongoConnectionPool.cpp`, wrappers in `connectionOperations.cpp`) | vector of (connection, free), a binary and a counting semaphore | init, get, release | two semaphores that must agree with the vector; slots that could not be connected hold NULL; callers that return early, leak when the database fails them, or borrow twice | a live connection is with one thread at most; the semaphore counts the free slots; an exhausted pool recovers, two known cases apart |
| Start-up (`app/orionld/orionld.cpp`, `orionld/db`, `orionld/mongoCppLegacy`) | progress of `main()` over the databases | list the tenants, look for geo properties, create indexes | holds connections while asking for others, with the refresher running | start-up ends; connections are given back |
| Subscription cache (`cache/subCache.cpp`, `mongoBackend/mongoSubCache.cpp`) | list of cached subscriptions, with volatile fields (count, last notification, last success, last failure), `cacheSem` | insert, lookup, remove, match, refresh, synchronise | the refresher empties and reloads it; other brokers write the same documents; failed queries; crashes | counts are exact; times only advance; deleted means gone; the cache agrees with the database again and again |
| Subscription requests (`mongoBackend/mongo*Subscription*.cpp`, `orionld/serviceRoutines/orionld*Subscription.cpp`) | documents of `csubs`, `reqSem` | create, update, patch, get, delete | document read early and written late; two places to change, in some order | no update lost; every request ends |
| Triggering (`mongoBackend/MongoCommonUpdate.cpp`) | copies of the triggered subscriptions | match, throttle, send, record | test and record are separate critical sections | throttling is respected |
| Notification queue (`ngsiNotify`, `common/SyncQOverflow.h`) | bounded queue, workers, statistics | push, pop, send, count | signal after unlock; full queue; workers that exit | nothing lost or repeated; no lost wakeup; statistics add up |
| `@context` cache and downloads (`orionld/context`, `orionld/contextCache`) | array of contexts, list of URLs being downloaded | lookup, download, insert, delete | waiters that poll with a timeout; failed downloads | every waiter gets the context or an error; a URL can be tried again |
| Postgres pool for temporal data (`orionld/troe`) | per-database pools | get, release | the counting semaphore is posted at the wrong end | exclusive use; no spurious failure |
| Alarm manager (`alarmMgr`) | alarm flags and counters | raise, release | tested before the lock is taken | raise and release alternate |
| MQTT connections (`orionld/mqtt`) | list of connections | lookup, add, publish | list scanned without its lock | one connection per broker and user |
| Tenants, request state (`orionld/common`) | list of tenants, thread-local state | get or create | double lookup | a tenant is created once |
| Entities (`mongoBackend`, `orionld/serviceRoutines`, `orionld/mongoCppLegacy`) | documents with `attrs` and `attrNames` | 16 requests that create, change, delete | looked up without a lock, written under `reqSem` from an older query; several database operations per request | what is acknowledged is done; only what is named changes; `attrs` and `attrNames` agree |
| String filters (`rest/StringFilter.cpp`) | none | parse, evaluate, translate to a query, render | two evaluations of one filter, of which one is MongoDB's; a rendering that is not the inverse of the parser | both accept the same entities |
| Registrations, queries (`mongoBackend`, `orionld/mongoCppLegacy`) | documents | read, write | | functional tests |
| HTTP front end, service routines, parsing, rendering, types, logging, metrics | request-local | | | functional tests |

How they interact.  A request thread of the HTTP front end runs a service
routine, which calls `mongoBackend`.  Every database operation takes a
connection from the pool and gives it back, with the exceptions of section 4.  Functions that write take
`reqSem` (with `-reqMutexPolicy`), and `cacheSem` whenever they touch the
cache, in this order.  Triggered notifications are handed to a notifier: in
threadpool mode a vector of them is pushed on the queue, and a worker sends it
and reports the outcome to the cache.  The refresher thread takes `cacheSem`
every `-subCacheIval` seconds and keeps it across its database calls.  An NGSI-LD
request first gets the `@context` it names, from the cache or by a download that
other threads may be waiting for; with TRoE on it ends in a transaction on a
connection to the Postgres database of its tenant, which the first request of
the tenant creates.

## 2. Modules

| Module | Models |
|---|---|
| `MongoConnectionPool` | the pool and the way the wrappers use it |
| `ConnectionLease` | abstract specification: what a user of a pool sees |
| `MongoConnectionPoolProofs` | theorems about the pool |
| `BrokerStartup` | `main()` and the refresher on top of `MongoConnectionPool` (it extends it) |
| `BrokerStartupProofs` | the theorem about it |
| `SubscriptionCache` | cache, `csubs` documents, requests, notifications, refresher, other brokers, crashes |
| `SubscriptionCacheProofs` | theorems about it |
| `StringFilter` | the items of `q` and `mq`: the broker's evaluation and the condition for MongoDB |
| `SubscriptionMatching` | what a subscription says as request, document and cached item, and what it matches (it extends `StringFilter`) |
| `SubscriptionMatchingProofs` | theorems about both |
| `NotificationQueue` | threadpool notifier: queue, workers, statistics |
| `NotificationQueueProofs` | theorems about it |
| `ContextCache` | `@context`s: array, downloads, collection, requests, restarts |
| `ContextCacheProofs` | theorems about it |
| `Entities` | requests on one entity, NGSI-LD and NGSIv2 |
| `EntitiesProofs` | theorems about them |
| `Troe` | start-up order, tenants, Postgres pools, preparation of databases, transactions |
| `TroeProofs` | theorems about it |
| `MC*` | symmetry sets and constants for TLC |

`PROJECT.json` maps every definition to the lines it stands for.

Definitions named `X_Something` right before `X` are broken variants of `X`:
a mistake one could make in the code that `X` models.  They are not part of
any specification; replacing `X` by one of them makes the property that they
are written for fail, which shows that the property is about the code.

Some variables are history variables: nothing in the code corresponds to them,
no guard reads them, and they record what a property needs to know of the past
(`leaked` and `kept` in the pool; `mishaps`, `failed`, `astray` and `unsaved` in `ContextCache`; `disturbed`, `wrote`, `inserted`,
`spoilt`, `stale`, `twins` in `Entities`; `history` in `Troe`; the numbers of
notifications sent in `SubscriptionCache`; `from` in `SubscriptionMatching`).
Variables that count requests, faults and restarts are bounds.

### MongoConnectionPool and ConnectionLease

State: `connection` and `free` of every slot, the two semaphores, and for each
thread where it is, its connection and the way it uses it (`style`).  The pool
is connected slot by slot (`ConnectSlot`); up to `MaxDead` slots, never the
first (the broker exits if that one fails), end up with NULL.
`mongoPoolConnectionGet` is split at every semaphore operation:
`GetWaitConnection` (`sem_wait(&connectionSem)`), `GetWaitPool`, the scan
(`GetScanFound` with its index, or `GetScanNothing`, which gives NULL),
`GetClaim`, `GetPost`.  `mongoPoolConnectionRelease` frees the FIRST slot whose
connection equals the pointer.  Semaphore statistics are left out.

What a borrower does with its connection depends on the function.  `ReturnOnNull`
is the early return of a wrapper of `connectionOperations.cpp` that got NULL, which
does not release; a query with a cursor releases NULL like any other connection.
`Nest`: `mongoRegistrationDelete` calls `collectionRemove` while it has a connection
(`outer`) and goes back to it afterwards (`Return`).  The functions of
`orionld/mongoCppLegacy` look neither at NULL nor, most of them, at exceptions:
`ProcessEnds`, and the pool starts again.  Two of them catch the failure and
return without releasing (`Leak`): the entity list lookup of the batch operations
when its query throws, and `mongoCppLegacyTenantExists` when the answer of
`listDatabases` has no `databases`.

`ConnectionLease` knows nothing of slots and semaphores: a connection is lent
to a user, taken back, or lost for good; a user may have several.
`LendsConnections` says that the pool implements it; a live connection is lent
from the moment a thread has claimed its slot until the release has marked it
free.

### BrokerStartup

Extends the pool with `main()`: `mongoCppLegacyTenantsGet`, then
`mongoCppLegacyGeoIndexInit`, which for every database takes a connection for
its cursor and, while it has it, another one for each index it creates.
Neither function releases its connection (`Keep`).  The refresher thread is
already running and uses the database.  Requests come when `main()` is done,
and borrow in every way the pool knows; one that ends the process takes the
broker back to the start of `main()` (`BrokerEnds`).

### SubscriptionCache

State: `db` (the documents), `cache` (the items), `cacheSem`, `reqSem`, one
record per request thread, the refresher (`sync`), a clock.  A document or item
is reduced to the volatile fields and a version of its definition.  Matching,
expiration and filters only decide whether a subscription is triggered, so
whether an entity update concerns a subscription is a free choice here;
throttling is modelled, since it reads a volatile field.

A critical section without a database call inside is one action, guarded by
`cacheSem = NoOne`.  `subCacheSync`, which has database calls inside, is
`SyncSave` (save the volatile fields, empty the cache), `SyncQuery` (may fail:
the cache stays empty), `SyncLoad` (repopulate, clear the saved times that are
not newer), and for every item `SyncCount` (`$inc`) and `SyncTimes` (each time
only over an older one), then `SyncDone`.  A field that a document lacks is
`Absent` (-1), as in `getNumberFieldAsDoubleF(...)` with its default.

Requests: `create` enters the cache first and the database last; `update` reads
the document, looks the item up without `cacheSem`, builds the new document
from both, writes it, replaces the item; `patchLD` reads and replaces the
document; `get` reads the document and adds what the cache knows; `delete`
removes from the database, then, under `cacheSem`, from the cache; `deleteLD`
looks the item up and removes it in two steps without `cacheSem`; `notify` matches, sends, and records in a second
critical section.  A pointer to an item that has been freed is `"dangling"`:
what is read through it is any value, and a removal by its address removes
nothing, or another item that has been allocated there.

Faults: a database call may fail; a failed write may have been applied or not.
`CrashAndRestart` loses everything but the database (`Restart`).  So does
`SyncException`: the flush looks a document up by `OID(subId)`, which throws for the
id of an NGSI-LD subscription, nothing catches it, and the process ends as soon as
there is something to flush for such a subscription (`Throws`).  `PeerFlush` is another
broker on the same database that flushes its cache, which it can for an OID only.

Not in this module: `-noCache`, several tenants (each has its own documents;
the failure of one refresh query leaves the others alone), duplicate items in
the cache, the NGSIv1 calls, two NGSI-LD creations with the same id given by
two clients.

### StringFilter and SubscriptionMatching

Both are about values, not about interleavings.  `StringFilter` defines the
items of a filter that the parser accepts, how `StringFilterItem` decides about
an entity in memory (`compare` and its results, the cases of `matchEquals`, the
negated comparisons, existence, metadata, patterns, ranges and lists), and the
condition that the same item becomes in a query, with the meaning MongoDB gives
to it (external).  A field of a value that the code never sets is any value.
The filter of an NGSI-LD subscription goes into the document as text that the
broker renders from the parsed filter.  `render` is what the parser makes of that text:
another filter, or `Unparsable`.  Which value a string is parsed as once it has lost its
quotes (`Unquoted`), and the strings that stand for a range and a list
(`NotImplemented`), are constants.

`SubscriptionMatching` keeps one subscription as document (`csub`) and cached
item (`item`).  `Create`, `Update` and `Refresh` make the item from the request,
from the new document and the request, and from the document, each by the
defaults of its own code.  In the document is the filter of an NGSIv2 request as it
was given, and the rendering of one of NGSI-LD (`Expression`); `ldContext` tells the two
kinds apart, and whether the expanded names of attributes have dots.  A refresh loads no
document whose filter does not parse or whose list of entities is empty
(`mongoSubCacheItemInsert`), and an update that empties the list leaves the old item.
`Update` is for NGSIv2 ids only.  Two operators then decide about an update of an
entity: `withCache` (`subCacheMatch`: service path, status, expiration,
attributes, entities with patterns) and `noCache` (the query of
`-noCache`, by its clauses on arrays: a document is skipped, triggers, or raises an
exception, if its id is not an OID).  Regular expressions are sets of the
names they match.  Geo-queries are left out.

`from` says which parts of the item are as the request or the document had them:
all after a creation or a refresh, after an update those that its request gave,
and never the service path.  A request is what the parsers let through
(`IsRequest`): an entity has an id or a pattern of ids, a type or a pattern of
types, never both (`parseEntitiesVector.cpp:77`).

### NotificationQueue

State: the queue (a sequence of vectors, each an id and a length), where each
producer and each worker is, the counters of `QueueStatistics`.  `try_push`
pushes or refuses, in one critical section; `notify_one` comes after it, with
the mutex released.  `PopWait` tests and waits atomically; a waiter may wake
without a signal.  Every statistics call is a step.  A worker whose
`curl_easy_init` fails exits.  The condition variable is
boost's, modelled from its documented behaviour.  Simulated notifications and
the reset of the statistics are left out.

### ContextCache

State: the array of contexts (`cache`) and the index of its next slot, the list
of URLs being downloaded with its semaphore, the `contexts` collection, and the
local variables of every thread.  `orionldContextFromUrl` is split where other
threads can act: lookup, lookup in the list, entry into the list, download
(which may fail or give something that does not parse), insertion, removal from
the list, persistence; the mark of a URL of 255 characters or more (`LongUrl`)
is whatever is left of it in `name[256]` (`NamesOf`).  A context that is a
string, the URL of another one, is stored without being inserted
(`StringCreated`, `PostString`), and a restart skips it.  The database may refuse
an insertion (`PersistFails`) or a deletion (`left` in `DeleteFromCache`), and the
answer is 201 or 204 all the same.  Those who find the URL in the list poll the cache until
they time out.  `orionldContextCacheInsert` reads the slot number before it
takes the semaphore, and grows the array when it is full.  `post`, `delete` and
`reload` are the requests of `/ngsi-ld/v1/jsonldContexts`.  `Restart` kills the
broker and fills the cache from the database, in any order of the documents.

Several of these steps are not protected.  Instead of leaving them out or
forbidding them, the model lets them go wrong and records it in `mishaps`; the
properties say what holds as long as a named mishap has not happened, and what
holds anyway.  `unsaved` are the contexts that the database refused, `astray` the
documents that stay without a context in the cache: those it refused to delete,
those written after the context had left the cache, and the one of a reload
that got a string or somebody else's context.

### Entities

One entity id, a document per type.  The 16 requests are those of the NGSI-LD
routines (create, append, patch, patch of an attribute, delete, delete of an
attribute, the batch operations) and of NGSIv2 (`mongoUpdateContext` with its
actions and flavours).  An NGSI-LD request looks the entity up, without a lock,
and decides; then it may delete attributes or the entity, and calls
`mongoUpdateContext`, which holds `reqSem` while it counts, queries and writes.
The updates are computed from what the query returned, so that whatever
writes without `reqSem` may make them stale.  A lookup may fail: the existence test of
`POST /entities` and the list lookup of the batch operations then read as "no such
entity" (`LookUpFails`), the other lookups and deletions throw what nobody catches
(`DriverThrows`).  A write may fail and is reported as an attribute or entity error
(`Fault`).  A payload may contain what cannot be converted, in a batch (`bad`) or in a
PATCH, which then drops an attribute that it has already listed as updated (`lost` in
`LookUpPatch`).  An answer that lists an entity or an attribute both as a success and
as an error is `"mixed"`: batch create and upsert list every entity that reached
`mongoUpdateContext` as a success, failed or not.  The
broker may be killed anywhere.  The value of an attribute is the number of the
request that wrote it.

### Troe

`Main` runs the initialisations in the order of `orionld.cpp`; then requests get
their tenant (`orionldTenantLookup` through the one-element cache,
`orionldTenantGet` with its second lookup under `tenantSem`), and those that
create it prepare its database.  `pgConnectionGet` waits for `queueSem`, searches
under `poolSem`, connects, and posts `queueSem` at once.  Connections may break,
Postgres may refuse and restart; dereferencing NULL ends the process
(`alive = FALSE`).  The states of libpq's connections are external.

## 3. Runs

Passing runs:

| Run | Instance | Shows |
|---|---|---|
| `pool` | 3 threads, 3 slots, up to 2 dead, nested borrows, leaks, ends of the process; fair | `LiveConnectionExclusive`, `NoLiveConnectionLost`, `PoolRecovers`, `LendsConnections`, however many slots are dead; `SemaphoreCountsFreeSlots` with at most one |
| `startup` | main, refresher, 2 request threads; 2 tenants besides the default; 6 slots; fair | no more than one connection kept for the list of tenants and one per database (`StartupCostBounded`), `StartupCompletes`, `ServingPoolRecovers` |
| `sub_counts` | 1 NGSIv2 subscription created and deleted, 2 requests, 2 notifications, 1 by another broker, no faults, `reqSem` | `CountExact`, `TimesSentNeverInflated`, `StoredTimesMonotonic` |
| `sub_faults` | an NGSIv2 subscription created and deleted, an NGSI-LD one whose flush ends the process; 2 requests, 2 notifications, no `reqSem`, 2 failing calls, 1 crash | `CountNeverInflated`, `DeletedLeavesCache` |
| `sub_liveness` | an NGSIv2 and an NGSI-LD subscription, all writing operations, 2 requests, `reqSem`, 1 failing call; fair | `CacheCatchesUp`, `RequestsEnd` |
| `queue` | 1 producer, 2 workers of which one may exit, 2 slots, 3 vectors of up to 2; fair | bounded queue, `NoLostWakeup`, `EnoughWakeups`, `StatisticsBalance`, `AttemptedOnce`, `AcceptedIsAttempted` |
| `context_cache` | 2 threads, 2 URLs and one of the broker's own, one of them long, an array of 1 slot that grows by 3, 2 contexts, 3 requests, 1 restart; fair | `MarksMatchDownloads`, `CacheAndDatabaseAgree`, `RequestsEnd` |
| `entities` | 2 threads, 2 types, 2 attributes, all 16 operations, `reqSem`, 2 requests, 1 failing operation or kill of the broker | `NamesAgree`, `OnlyNamedAttributesChange`, `OnlyCreatorsCreate`, `AcknowledgedIsDone`, `CreatedOnce` |
| `troe` | 2 threads, 2 tenants, pools of 1 connection, 3 requests, 1 failure, 1 restart | `ConnectionsAccountedFor`, `TenantIsolation`, `SomebodyProceeds` |
| `matching` | 3 ids, 2 types, 2 attributes, values 0..2 as numbers and strings, 4 service paths, 2 times; 2 requests, of NGSIv2 and NGSI-LD | `RefreshChangesNoDecision`, `CacheDecidesAsQuery`, `FilterDecidesAsQuery` |

Why the bounds are enough to be interesting.  Three threads on three slots, of
which two may be dead and lost, give waiting, overtaking and reuse; two dead
slots are the least number with which releasing NULL can free the wrong one.
Two requests and the refresher are enough for every pair of critical sections
to interleave; a subscription that is created, notified, deleted in one run
crosses several refreshes.  Three vectors overflow a queue of two.  One slot
is the smallest array, so that the second context makes it grow; with three
requests a context is used, deleted or reloaded and used again, and one thread
can wait for the download of the other.  Two requests on an entity interleave
at every step of every pair of the 16 operations, and the second request may
also come after the first, whose trace (or the wreck a failure or a kill left)
it then finds.  A pool of one connection is exhausted by one thread.  In
`matching` a request differs from a plain one in one of its sections, for every
value of that section; the filters are all the items over three numbers, three
strings, Booleans and null, for NGSI-LD those on attributes, with and without dots in
their expanded names.  Of the three strings one is unparsable without its quotes, one
is then a number, and one stays the string that it is.  The throttling of a subscription is exercised by
`sub_throttling_forgotten` only: with a refresher it is not respected, and
without one the cache is not the one of the product.  Thread identities are
symmetric, and symmetry is used in runs without liveness.

Deadlock is checked wherever the instance cannot run out of requests;
`context_cache`, `entities` and `troe` stop when their requests are used up, and
there `RequestsEnd`, the type invariant of `reqSem` and `SomebodyProceeds`
say that no thread is stuck.  `pool` and `startup` may really stop (section 4),
and there `PoolRecovers` and `ServingPoolRecovers` say when.

Runs that find what a comment or a document says to be different from what the
code does (each has an entry under "findings" in `PROJECT.json`):

| Run | Violated | What happens |
|---|---|---|
| `sub_throttling_forgotten` | `ThrottlingRespected` | a refresh puts the older time of the database into the cache |
| `troe_startup_order` | `PostgresBeforeTenants` | with `-multitenancy`, tenants are created before the Postgres pools exist |

## 4. Known not to hold

Stronger properties than those of the runs are false of the code.  The models
have behaviours that show each of the following, and the properties name it as
an exception or are stated for instances without it.

- Pool: two dead slots that are both taken are both released as NULL, which
  frees the first of them twice.  The semaphore then counts one slot too many
  and a scan may find no free slot (hence "at most one dead slot").
- Pool: a batch operation whose lookup of the entities fails keeps its
  connection for ever (`mongoCppLegacyEntityListLookupWithIdTypeCreDate.cpp:104`).
  As many such failures as connections stop the broker.
- Pool: as many concurrent deletions of NGSIv2 registrations as connections each wait for
  a second one (`mongoRegistrationDelete.cpp:113`); with one connection left one
  deletion is enough.  The comment at line 84 calls it "not a big problem".
  `PoolRecovers` and `ServingPoolRecovers` name these two cases and show that
  there is no third.
- Start-up: the connections for the list of tenants and for the geo indexes are
  never released.
- Subscriptions: an update drops the count that is in the cache
  (`mongoUpdateSubscription.cpp:961`) and, with an initial notification, writes it into
  the document while the refresher may still add it; a PATCH of NGSI-LD writes back the
  count and the times that it has read.  Hence `CountExact`, `CountNeverInflated`
  and `StoredTimesMonotonic` are stated without them.  Without `reqSem` a
  notification of a subscription that is in the cache and not yet in the database is not
  counted, if a refresh comes in between.
  An NGSI-LD deletion inside a refresh leaves the subscription in the cache until
  the next one, so `DeletedLeavesCache` is stated without it; and it removes by an
  address that a refresh may have freed meanwhile (`orionldDeleteSubscription.cpp:74`).
- Subscriptions: the first refresh after a notification of an NGSI-LD subscription ends
  the process, since `OID(subId)` throws for its id (`mongoSubCache.cpp:592`, `618`,
  `646`, `674`).  What had not been flushed is lost, also of NGSIv2 subscriptions.
  `CountExact` is therefore about brokers with NGSIv2 subscriptions alone.  It also
  needs `reqSem`, which is off by default (`-reqMutexPolicy none`, `app/orionld/orionld.cpp:332`).
- Contexts: a failed download leaves its URL in the list, and later requests for
  it wait for their timeout.  The mark of a URL of 255 characters or more does not stop
  a second download and is never removed (`orionldContextFromUrl.cpp:93`).
  Two insertions may use one slot, and a context
  inserted when the array grows is overwritten.  What the database refused is
  acknowledged: a context is lost with the next restart, or comes back with it.  A
  context that is a string is stored, and no request ever finds it.
- Entities: of two concurrent `POST /entities` both may answer 201, and so may one
  whose existence test fails, for an entity that exists.  Batch create and upsert list
  entities that failed among the successes too, and PATCH an attribute that it dropped
  (`"mixed"` answers).  A replacing
  upsert removes the entity and leaves it removed if the new one cannot be
  converted.  PATCH of an entity may write old values back.  An attribute may be
  missing in `attrNames` after a write from a stale query.
- Postgres: the semaphore of a pool is posted when a connection has been taken,
  so a thread may be let through when none is free and gets NULL.  A bad
  connection of the "NULL" database stays busy.
- Matching after an update, until the next refresh: without `subject` in the
  request the cached item has no filter, and its service path is the one of the
  old item.  With an empty list of entities the whole old item stays.
- Filters of NGSI-LD subscriptions: the text in the document is not the filter.  Every
  Boolean becomes `true` (`StringFilter.cpp:775`), ranges and lists become a text that says
  they are not implemented (`797`, `803`), the pattern operator `~=` becomes `=` (`890`),
  strings lose their quotes, and names with dots, parts of values and `dateCreated` are not
  rendered as they were given.  The first refresh therefore changes what the subscription
  tests, or drops it from the cache.  `Survives` says which filters are kept, and
  `RefreshChangesNoDecision` names the others.
- Triggering without cache: for an NGSI-LD subscription that the query finds,
  reading its id as an OID raises an exception (`MongoCommonUpdate.cpp:1657`).
- Triggering: both ways test for the status `inactive` only, so an NGSI-LD subscription
  that is `paused` triggers.
- Matching with and without cache: they differ for a list of entities of several
  types, for updates of entities without a type, for subscriptions on a type
  only, at exactly the time of expiration, and for an id that is spelt as a
  pattern of the list that does not match it (the id `e+1` and the pattern `e+1`:
  the query looks for the id in all elements, if one of them is not a pattern).
- Filters, notification against query: `==` and `!=` on a value of another kind
  read a field that was never set; the existence of `dateCreated`; the absence of
  a metadata of an attribute that is itself absent.
- Items: a refresh does not load the list of metadata to notify.

## 5. Fairness

Threads run: weak fairness of every thread of the pool, of `main()`, of the
producers' steps after they have something to push, of the workers, of the
refresher, and of a request on contexts once it has started.  A database
operation, a download and a notification attempt end, since all have timeouts.
Waiting on a semaphore needs more than weak fairness when others take it again
and again.  For the requests that wait for `cacheSem` and `reqSem`, strong fairness
is assumed: the refresher sleeps `-subCacheIval`
seconds with `cacheSem` free, in which a waiter of `sem_wait` is woken, and the
requests before it in line are finitely many.  In the pool nothing is assumed
of the order in which waiters are let through: `PoolRecovers` says that a
connection becomes available, not who gets it.  Nothing is assumed of clients,
of the clock, of failures, crashes, other brokers and spurious wakeups.

## 6. Proofs

Everything here is proved for any number of threads, subscriptions, tenants,
types, attributes, connections and slots, and for any values of the bounds.  The
assumptions are the named `ASSUME`s of the modules (finite sets, sizes that are
natural numbers, model values that differ, requests that the parsers accept) and, for
some theorems, hypotheses of their own on the constants, which are given below.  The
effect of every action is a lemma; the proof that an invariant is inductive has one step
per action.

`MongoConnectionPoolProofs`:

- `TypeCorrect` and `LiveConnectionsExclusive`.  The
  property alone is not inductive: a thread between the scan and the claim has
  chosen a slot that is still marked free.  The inductive invariant
  (`ExclusionInv`) adds that only the holder of `connectionPoolSem` is inside the
  critical sections, that the slot chosen by a scan is still free, and that the
  connections of the slots differ.  It does not mention the counting semaphore:
  exclusion does not depend on it, which is why it survives dead slots.
  The first connection of a nested borrow counts as held, and who has one is in a wrapper,
  so that it never takes a third.
- `NoLiveConnectionIsLost`: a live connection that is not free is with a thread, or was
  leaked by a function that the database failed; `LeakInv`: those stay out of circulation.
- `PoolLends`: the pool implements `ConnectionLease`.  Under `ExclusionInv` a claim
  of a live slot is a `Lend`, its release a `TakeBack`, a leak a `Lose`, the end of the
  process a `Restart`, and everything else stutters, the nesting of borrows included.
- `SemaphoreIsExact`: with at most one dead slot the counting semaphore is the
  number of free slots, less the threads it has let through that have not
  claimed one, plus those that have freed one and not posted.  The invariant
  counts; a release frees exactly one slot because at most one holds NULL.

`BrokerStartupProofs`: `StartupCostIsBounded`.  Every step of start-up is a step of the pool
(what `main()` walks away from is leaked), so the invariants of the pool are used as they
are.  In particular the semaphore is exact, so that `main()` never gets NULL, and a slot
that is not free is leaked or with a thread.  `StageInv` counts the connections kept by
`main()` at each stage.

`NotificationQueueProofs`:

- `QueueTypeCorrect`, `WakeupsSuffice` and `QueueLosesNoWakeup`.
  `NoLostWakeup` is not inductive: when the last worker that is awake takes a
  vector and another vector remains, one must know that a signal is still coming
  for it.  `EnoughWakeups` says so: as long as a worker waits, the queue is not
  longer than the number of signals to be sent plus the number of workers about
  to look.  A push adds a vector and a pending signal; a signal turns into a
  worker about to look, or finds nobody waiting; taking a vector uses one of
  them up together with the vector; a worker starts to wait only at an empty
  queue.
- `EveryNotificationOnce`.  `PlaceInv` says where the vectors are: the queue is the
  end of the sequence of accepted vectors, and those before it have been taken, each
  by one worker.  `CountInv` says how often their notifications have been attempted:
  not at all in the queue, up to its index with the worker that holds the vector,
  all of them when no worker holds it any more.
- `StatisticsAgree`.  The statistics are compared with sums over the producers, over the
  positions of the queue and over the workers.  What such a sum is for every finite set
  is defined by recursion; the lemmas about it (a sum is unique, changes by what one
  of its terms changes by, loses its first term with the head of the queue) are proved
  by the smallest set that would violate them, from the fact of the library that the
  strict subsets of a finite set are well-founded.  `IdleInv` adds that a
  worker without a vector owes nothing.  `OutIsSentOrInHand` is the other equation.

`EntitiesProofs`: `TypeCorrect`, `NamesStayInStep`, `AcknowledgedRequestsAreDone`,
`CreatedByTheInserter`, `OthersAttributesStay` and `EntitiesAreCreatedOnRequest`, for all
16 operations.  What a request answers depends on what it saw several steps earlier, so
the invariant (`EntitiesInv`) says for each control point what the request knows of the
documents: `LookupInv` after its lookup without a lock, `QueryInv` after the query under
`reqSem`, `GiveInv` and `ReplyInv` at its end, each unless the request has been disturbed
(`disturbed`: which kinds of change others have made since).  `Exclusion` says who may be
inside `mongoUpdateContext`, and `NumberInv` that a value with the number of a request was
written by it.  A step of another thread either leaves what `LookupInv` and `QueryInv`
speak of alone or marks the request.

`TroeProofs`: `TypeCorrect`, `EveryConnectionIsAccountedFor`, `TenantsAreIsolated` and
`NobodyWaitsInACircle`, from one invariant (`TroeInv`).  Tenants and pools are linked lists
that threads walk while others push: `TenantHeap` and `PoolHeap` say that a `next` leads to
an older record, which is why walks end and find what was there.  `Threads` says for every
control point which tenant, pool and connection a thread has; `Holdings` that what a
thread has is marked busy, is its own, and that nothing else is busy; `QueueCount`,
`PoolSemHeld` and `TenantSemHeld` what the semaphores say about the threads.  That nobody
waits in a circle follows: the holder of `tenantSem` never waits for `tenantSem`, the
holder of a `poolSem` waits for nothing, and `queueSem` is 0 only while as many threads as
the pool has connections are searching it.

`SubscriptionCacheProofs`.  `TypeInv` and `ControlInv` (which operation a request at a
control point carries out, what the refresher's variables are worth at each of its steps)
hold for all operations and give `TypeCorrect`.  On top of them:

- `DeletedSubscriptionsLeaveTheCache`, without `deleteLD`, which does not take `cacheSem`.
  `LifeInv`: a subscription that is being created is new, one that is being deleted is out
  of the database, and one that is deleted does not come back.  `GoneInv`: a deleted one is
  neither cached nor in what the refresher has read, since the confirmation waits for
  `cacheSem`.
- `NoCountIsInvented` and `NoCountIsShownTwice`, with failures, restarts and other brokers,
  without `reqSem`, without NGSIv2 updates.  `BoundInv`: the count in the database, and one
  that a request has read from it earlier (to show it, or to write it back), together
  with what is pending (counts in the cache, saved by the refresher, about to be recorded)
  does not exceed the notifications sent.
- `EveryNotificationCounted`, for NGSIv2 subscriptions alone (`LdSub = {}`), with
  `-reqMutexPolicy` such that `reqSem` is used, without failures and crashes and without the
  operations that replace a document.  The other inequality.  A count is lost when
  the item or the document it is for is missing at that moment, and the invariant says why it is
  there: `SemInv`, requests that use `reqSem` exclude one another; `KnownInv`, only
  subscriptions that have been in the database are read or notified, so that nothing is
  pending for one that is being created; `HeldInv`, the item of a stored subscription that
  is being notified is in the cache, or in what the refresher is about to load.
- `StoredTimesNeverGoBack`, with failures, restarts and other brokers, without the
  operations that replace a document.

A flush that throws is a restart, like a crash, and one lemma (`RestartEffect`) serves both;
all of these theorems but `EveryNotificationCounted` hold with NGSI-LD subscriptions.

The hypotheses are needed: for each operation or failure that a theorem excludes there is
a behaviour that violates its property (section 4).

`ContextCacheProofs`: `TypeCorrect`, `OneDownloadPerUrl` and `CacheMatchesDatabase`, for
arrays of any size, with reloads, deletions, failures and restarts at any moment.

- The list.  It is changed with and without its semaphore, and `Mark` writes what was read
  a step earlier.  `SemInv`: only the thread about to mark has the semaphore across two
  steps.  `MarkInv`, of the URLs that fit: none is in the list twice, the one about to be marked is not in it,
  and every download is, so that a removal takes out the mark of the one thread that
  downloads, and no other.  All this unless the event `unlocked removal` has happened.
- The cache and the database.  A reload takes a context out of its slot, and a new one,
  with the same id, takes its place much later: in between neither is in the array.  `Hand`
  is the context a thread has in hand, and `HolderInv` says that a context, and an id, is
  in one slot or in one hand.  This holds whatever goes wrong.  `KeptInv`: what
  is in a slot, or was taken out of one, has a document, a thread on its way to write it, or was refused;
  a deletion removes documents, and by `HolderInv` no other slot or hand loses its own.
  `HomeInv`: a document has its context in a slot in use or in the hand of a reload, or is
  astray or a string, as long as no unprotected event has gone wrong.
- `LocalsInv` (what the local variables of a call are worth at each point) and `IdInv` (a
  document holds a context with its id) carry these, and give the types.

`SubscriptionMatchingProofs`, for any requests that satisfy `IsRequest`, any regular
expressions (of which only `.*` and the empty one are known: they match everything),
numbers, strings, ids, types, service paths and times:

- `FilterAgrees`.  `CompareIs`: unless it may read a field that was never set, a comparison
  has one outcome in the broker, and it is the one of the query, for each operator and
  each kind of value.  `qMatchIs` and `mqMatchIs`: both find the same value to compare.
- `RefreshIsInvisible`.  The property is about the item as it is; the invariant
  (`MatchingInv`) has to know the document as well.  `WellFormed`: an element of the list of
  entities without `isPattern` has no id, and a pattern of types is not empty.  `Agrees`:
  the item and the one that a refresh would make have the same fields, and lists of
  entities of which the elements match the same entities one by one; they are not equal,
  since the code for creations and for refreshes writes "any id" and "any type"
  differently (`CreatedInfosAgree`).  `KeepsFilter`: the filter of the item is the one that
  is parsed from the document, or one of NGSI-LD that the document cannot express
  (`LostFilter`).  `RenderedIs`: what a rendering is parsed as is again a filter, or
  nothing; `SurvivorIsRendered`: it is the same filter if that survives.
- `CacheAgreesWithQuery`, for NGSIv2 subscriptions: for the others the query raises an
  exception.  By `Agrees` it is enough to look at a refreshed item.
  `ServicePathsAgree`: the service paths that the query asks for are those that
  `servicePathMatch` accepts.  `PartsAgree`: the four parts of the query find together the
  lists of which an element fits; this is where the exceptions are needed.

Only model-checked is

- everything under fairness (`PoolRecovers`, `StartupCompletes`, `ServingPoolRecovers`,
  `CacheCatchesUp`, `RequestsEnd`, `AcceptedIsAttempted`): TLAPS proves no liveness.

Every invariant and action property of the passing runs is a theorem.

## 7. Not modelled

Most of the repository's lines are sequential and local to a request: parsing,
rendering and the NGSI types, the validation in the service routines, BSON and
SQL builders, the conversions of results.  They have no state of their own, and a
model of them would be a transliteration.  Also left out:

- the HTTP front end: libmicrohttpd's callbacks; the request threads it makes are
  the threads of the models;
- logging, metrics, the command line, and the alarm manager, whose flags decide
  only what is logged;
- MQTT: the connections belong to an external library and its callbacks;
- registrations and queries: one database operation on one document, or none;
- geo-queries, which only MongoDB evaluates;
- several tenants in the subscription cache, and the listing of many
  subscriptions;
- the socket service and the older `contextBroker` program, which has the same
  start-up of pool and cache.

## 8. Plan

Done: the pool and its abstraction, start-up, the subscription cache with its
requests, the queue, contexts, entities, tenants and TRoE, matching and filters.

Every safety property of the passing runs is proved.  What remains is parts of the system
that are not modelled yet: several tenants in the subscription cache, registrations.
