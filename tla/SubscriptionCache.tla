-------------------------- MODULE SubscriptionCache --------------------------
(***************************************************************************)
(* The subscription cache of one broker (src/lib/cache/subCache.cpp,       *)
(* src/lib/mongoBackend/mongoSubCache.cpp), the csubs collection it        *)
(* mirrors, and everything that touches both: the requests that create,    *)
(* update, read and delete subscriptions, the entity updates that trigger  *)
(* notifications, the threads that report how a notification went, and the *)
(* refresher thread that every -subCacheIval seconds saves the volatile    *)
(* fields, reloads the cache from the database and flushes the saved       *)
(* fields to it.                                                           *)
(*                                                                         *)
(* A cached subscription is reduced to its volatile fields and a version   *)
(* of its definition; matching, expiration and filters decide only WHETHER *)
(* a subscription is triggered, which is left to the environment.          *)
(* Throttling is not: it reads a volatile field.                           *)
(*                                                                         *)
(* What a thread does while it holds cacheSem, without a database call in  *)
(* between, is one action, enabled when nobody else holds cacheSem.  The   *)
(* refresher holds cacheSem across database calls, which are steps of      *)
(* their own.                                                              *)
(***************************************************************************)
EXTENDS Integers, FiniteSets

CONSTANTS
  Sub,              \* subscription ids
  LdSub,            \* those of NGSI-LD: URIs, handled by the orionld routines
  InitialSubs,      \* the subscriptions in the database when the broker starts
  Request,          \* threads that serve requests
  Operations,       \* the operations clients ask for
  Outcome,          \* the outcomes that are reported: "success", "failure"
  ThreadPool,       \* -notificationMode threadpool (TRUE) or transient (FALSE)
  ReqMutex,         \* -reqMutexPolicy write (TRUE) or none (FALSE)
  SubCacheInterval, \* -subCacheIval; 0: no refresher thread
  Throttling,       \* throttling of the subscriptions, -1: none
  StartTime,        \* the clock when the broker first starts
  MaxTime,          \* bound on the clock
  MaxSent,          \* bound on the notifications of a subscription
  MaxVersion,       \* bound on the versions of a definition
  MaxFaults,        \* bound on the database operations that fail
  MaxCrashes,       \* bound on the times the broker is killed from outside and restarted
  MaxPeer,          \* bound on the notifications other brokers send
  NoOne             \* holder of a semaphore that is free

AllOperations == { "create", "update", "patchLD", "get", "delete", "deleteLD", "notify" }

ASSUME SubscriptionCacheAssumption ==
  /\ InitialSubs \subseteq Sub /\ LdSub \subseteq Sub /\ Sub # {}
  /\ IsFiniteSet(Sub) /\ IsFiniteSet(Request) /\ NoOne \notin Request \cup { "refresher" }
  /\ Operations \subseteq AllOperations /\ Outcome \subseteq { "success", "failure" }
  /\ { ThreadPool, ReqMutex } \subseteq BOOLEAN
  /\ { SubCacheInterval, StartTime, MaxTime, MaxSent, MaxVersion, MaxFaults, MaxCrashes, MaxPeer }
       \subseteq Nat
  /\ Throttling \in Nat \cup { -1 }
  /\ StartTime > Throttling /\ StartTime > 1 /\ StartTime <= MaxTime

VARIABLES
  db,        \* csubs: id -> document
  cache,     \* the cache: id -> item
  cacheSem,  \* NoOne, or "refresher" while the refresher holds it between steps
  reqSem,    \* NoOne, or the request that holds reqSem
  req,       \* the requests being served
  sync,      \* the refresher thread
  now,       \* the clock
  started,   \* when the broker, and its notification workers, started
  faults,    \* database failures so far
  crashes    \* times it was killed from outside so far

\* History variables: what has happened, for the properties.
VARIABLES
  sent,      \* notifications handed to the notifier (of any broker), per subscription
  lastSent,  \* request time of the latest one this broker handed over
  peer,      \* notifications other brokers sent
  deleted    \* subscriptions whose deletion has been confirmed to the client

history == << sent, lastSent, peer, deleted >>
environment == << now, started, faults, crashes >>
vars == << db, cache, cacheSem, reqSem, req, sync, environment, history >>

Cached == DOMAIN cache
Stored == DOMAIN db

Absent == -1          \* a field the document does not have
Larger(a, b) == IF a > b THEN a ELSE b

Without(f, s) == [x \in DOMAIN f \ { s } |-> f[x]]
With(f, s, v) == [x \in DOMAIN f \cup { s } |-> IF x = s THEN v ELSE f[x]]

\* The volatile fields with the same time t in all of them.
Fields(count, t, version) ==
  [count |-> count, lnt |-> t, outcome |-> [o \in Outcome |-> t], version |-> version]

NewDoc == Fields(0, Absent, 0)

\* The item mongoSubCacheItemInsert(tenant, sub) builds from a document.
FromDb(doc) == [doc EXCEPT !.count = 0]

\* A request being served.  doc: the document it has read or will write; lnt: the
\* copy of lastNotificationTime it works on; ptr: what subCacheItemLookup returned,
\* "dangling" once the item it points to has been destroyed.
Idle == [pc |-> "idle", op |-> "get", sub |-> CHOOSE s \in Sub : TRUE, time |-> 0,
         doc |-> NewDoc, lnt |-> 0, ptr |-> "null"]

NoSync == [pc |-> "sleep", saved |-> << >>, read |-> << >>, todo |-> {}]

Init ==
  /\ db = [s \in InitialSubs |-> NewDoc]
  /\ cache = [s \in InitialSubs |-> FromDb(NewDoc)]
  /\ cacheSem = NoOne
  /\ reqSem = NoOne
  /\ req = [r \in Request |-> Idle]
  /\ sync = NoSync
  /\ now = StartTime
  /\ started = StartTime
  /\ faults = 0
  /\ crashes = 0
  /\ sent = [s \in Sub |-> 0]
  /\ lastSent = [s \in Sub |-> 0]
  /\ peer = 0
  /\ deleted = {}

-----------------------------------------------------------------------------
(***************************************************************************)
(* Requests.  The request time is taken when the connection is accepted,   *)
(* before reqSem.  The mongoBackend functions that write take reqSem; the  *)
(* NGSI-LD routines that go straight to the database do not.               *)
(***************************************************************************)
UsesReqSem(op) == op \in { "create", "update", "delete", "notify" }

\* A subscription id the broker has just generated.
Fresh(s) ==
  /\ s \notin Stored \cup Cached \cup deleted
  /\ \A q \in Request : req[q].pc # "idle" => req[q].sub # s

Arrive(r) ==
  /\ req[r].pc = "idle"
  /\ \E op \in Operations, s \in Sub :
       /\ IF op = "create" THEN Fresh(s) ELSE s \in Stored \cup Cached
       /\ op \in { "update", "delete" } => s \notin LdSub
       /\ op \in { "patchLD", "deleteLD" } => s \in LdSub
       /\ op = "notify" => sent[s] < MaxSent
       /\ op \in { "update", "patchLD" } /\ s \in Stored => db[s].version < MaxVersion
       /\ req' = [req EXCEPT ![r] = [Idle EXCEPT !.pc = "arrived", !.op = op,
                                                 !.sub = s, !.time = now]]
  /\ UNCHANGED << db, cache, cacheSem, reqSem, sync, environment, history >>

\* reqSem is taken, if op takes it, and the document is read.
Begin(r, op, pc) ==
  /\ req[r].pc = "arrived" /\ req[r].op = op
  /\ ReqMutex /\ UsesReqSem(op) => reqSem = NoOne
  /\ op \notin { "create", "notify" } => req[r].sub \in Stored
  /\ reqSem' = IF ReqMutex /\ UsesReqSem(op) THEN r ELSE reqSem
  /\ req' = [req EXCEPT ![r].pc = pc,
                        ![r].doc = IF op \in { "update", "patchLD", "get" } THEN db[req[r].sub] ELSE @]
  /\ UNCHANGED << db, cache, cacheSem, sync, environment, history >>

\* A database call succeeds or fails.
DbCall(ok) ==
  /\ ~ok => faults < MaxFaults
  /\ faults' = IF ok THEN faults ELSE faults + 1

\* A write that fails may have been applied or not: the connection broke before or
\* after the server got it.
DbWrite(ok, applied) == DbCall(ok) /\ (ok => applied)

\* The subscription is not in the database, or the read fails: an error response, no
\* effect.
NotFound(r) ==
  /\ req[r].pc = "arrived" /\ req[r].op \notin { "create", "notify" }
  /\ ReqMutex /\ UsesReqSem(req[r].op) => reqSem = NoOne
  /\ \E ok \in BOOLEAN : DbCall(ok) /\ (ok => req[r].sub \notin Stored)
  /\ req' = [req EXCEPT ![r] = Idle]
  /\ UNCHANGED << db, cache, cacheSem, reqSem, sync, now, started, crashes, history >>

Go(r, pc) == [req EXCEPT ![r].pc = pc]

\* The request ends: its locals disappear and reqSem is given.
Done(requests, r) ==
  /\ req' = [requests EXCEPT ![r] = Idle]
  /\ reqSem' = IF reqSem = r THEN NoOne ELSE reqSem

\* The requests once the items of the subscriptions in S have been destroyed.
Dangling(requests, S) ==
  [r \in Request |->
    IF requests[r].ptr = "live" /\ requests[r].sub \in S
    THEN [requests[r] EXCEPT !.ptr = "dangling"] ELSE requests[r]]

CountSent(s, time, notificationDone) ==
  /\ notificationDone => sent[s] < MaxSent
  /\ sent' = IF notificationDone THEN [sent EXCEPT ![s] = @ + 1] ELSE sent
  /\ lastSent' = IF notificationDone THEN [lastSent EXCEPT ![s] = time] ELSE lastSent

-----------------------------------------------------------------------------
(***************************************************************************)
(* mongoCreateSubscription: the subscription enters the cache first, so    *)
(* that the initial notification finds it there, and the database last.    *)
(***************************************************************************)
CreateBegin(r) == Begin(r, "create", "createCache")

insertInCache(r) ==
  /\ req[r].pc = "createCache"
  /\ cacheSem = NoOne
  /\ cache' = With(cache, req[r].sub, Fields(0, 0, 0))
  /\ req' = Go(r, "createDb")
  /\ UNCHANGED << db, cacheSem, reqSem, sync, environment, history >>

\* The initial notification, if any, is counted in the new document only.  When
\* the insertion fails the item stays in the cache.
CreateInDb(r) ==
  LET s == req[r].sub IN
  /\ req[r].pc = "createDb"
  /\ \E notificationDone, ok, applied \in BOOLEAN :
       /\ DbWrite(ok, applied)
       /\ CountSent(s, req[r].time, notificationDone)
       /\ db' = IF applied
                THEN With(db, s, IF notificationDone
                                 THEN [NewDoc EXCEPT !.count = 1, !.lnt = req[r].time]
                                 ELSE NewDoc)
                ELSE db
  /\ Done(req, r)
  /\ UNCHANGED << cache, cacheSem, sync, now, started, crashes, peer, deleted >>

-----------------------------------------------------------------------------
(***************************************************************************)
(* mongoUpdateSubscription.  The document read on arrival is the basis of  *)
(* the new one; the cached item is looked up without cacheSem.             *)
(***************************************************************************)
UpdateBegin(r) == Begin(r, "update", "updateLookup")

UpdateLookup(r) ==
  /\ req[r].pc = "updateLookup"
  /\ req' = [req EXCEPT ![r].pc = "updateBuild",
                        ![r].ptr = IF req[r].sub \in Cached THEN "live" ELSE "null"]
  /\ UNCHANGED << db, cache, cacheSem, reqSem, sync, environment, history >>

\* What dereferencing the item gives: its fields or, once it has been freed,
\* anything (within the bounds of the model).
Dereference(r) ==
  CASE req[r].ptr = "live" -> { cache[req[r].sub] }
    [] req[r].ptr = "dangling" -> { Fields(c, t, 0) : c \in 0 .. MaxSent, t \in { 0, now } }
    [] OTHER -> { Fields(0, Absent, 0) }

\* setLastNotification, setCount, setLastFailure, setLastSuccess, over the original
\* document and the cached item.
UpdatedDoc(orig, item, time, notificationDone) ==
  [count   |-> orig.count + IF notificationDone THEN item.count + 1 ELSE 0,
   lnt     |-> IF notificationDone THEN time
               ELSE IF orig.lnt = Absent THEN Absent ELSE Larger(orig.lnt, item.lnt),
   outcome |-> [o \in Outcome |->
                 Larger(IF o = "failure" THEN Larger(orig.outcome[o], 0) ELSE orig.outcome[o],
                        item.outcome[o])],
   version |-> orig.version + 1]

UpdateBuild(r) ==
  LET s == req[r].sub IN
  /\ req[r].pc = "updateBuild"
  /\ \E notificationDone \in BOOLEAN, item \in Dereference(r) :
       /\ CountSent(s, req[r].time, notificationDone)
       /\ notificationDone /\ req[r].ptr # "null" => cacheSem = NoOne
       /\ cache' = IF notificationDone /\ req[r].ptr = "live"
                   THEN [cache EXCEPT ![s].count = @ + 1, ![s].lnt = req[r].time]
                   ELSE cache
       /\ req' = [req EXCEPT ![r].pc = "updateDb", ![r].ptr = "null",
                             ![r].doc = UpdatedDoc(@, item, req[r].time, notificationDone),
                             ![r].lnt = IF notificationDone THEN req[r].time ELSE 0]
  /\ UNCHANGED << db, cacheSem, reqSem, sync, environment, peer, deleted >>

\* Mutant: the error return of mongoUpdateSubscription forgets reqSemGive.
UpdateInDb_NoGive(r) ==
  LET s == req[r].sub IN
  /\ req[r].pc = "updateDb"
  /\ \E ok, applied \in BOOLEAN :
       /\ DbWrite(ok, applied)
       /\ db' = IF applied /\ s \in Stored THEN [db EXCEPT ![s] = req[r].doc] ELSE db
       /\ req' = IF ok THEN Go(r, "updateCache") ELSE [req EXCEPT ![r] = Idle]
  /\ UNCHANGED << cache, cacheSem, reqSem, sync, now, started, crashes, history >>

\* collectionUpdate replaces the whole document; no upsert.
UpdateInDb(r) ==
  LET s == req[r].sub IN
  /\ req[r].pc = "updateDb"
  /\ \E ok, applied \in BOOLEAN :
       /\ DbWrite(ok, applied)
       /\ db' = IF applied /\ s \in Stored THEN [db EXCEPT ![s] = req[r].doc] ELSE db
       /\ IF ok
          THEN req' = Go(r, "updateCache") /\ UNCHANGED reqSem
          ELSE Done(req, r)
  /\ UNCHANGED << cache, cacheSem, sync, now, started, crashes, history >>

\* updateInCache: the new item replaces the old one.  A subscription that is not
\* in the cache does not enter it: mongoSubCacheItemInsert is handed the service
\* path of the old item, and refuses an empty one.
updateInCache(r) ==
  LET s == req[r].sub IN
  /\ req[r].pc = "updateCache"
  /\ cacheSem = NoOne
  /\ cache' = IF s \in Cached
              THEN [cache EXCEPT ![s] = [Fields(0, 0, req[r].doc.version)
                                          EXCEPT !.lnt = req[r].lnt]]
              ELSE cache
  /\ Done(Dangling(req, { s }), r)
  /\ UNCHANGED << db, cacheSem, sync, environment, history >>

(***************************************************************************)
(* orionldPatchSubscription: read, modify, replace, in the database only.  *)
(***************************************************************************)
PatchLDBegin(r) == Begin(r, "patchLD", "patchDb")

\* What the client asks for does not fit the subscription it is asked of.
PatchLDRefused(r) ==
  /\ req[r].pc = "patchDb"
  /\ Done(req, r)
  /\ UNCHANGED << db, cache, cacheSem, sync, environment, history >>

PatchLDInDb(r) ==
  LET s == req[r].sub IN
  /\ req[r].pc = "patchDb"
  /\ \E ok, applied \in BOOLEAN :
       /\ DbWrite(ok, applied)
       /\ db' = IF applied /\ s \in Stored
                THEN [db EXCEPT ![s] = [req[r].doc EXCEPT !.version = @ + 1]] ELSE db
  /\ Done(req, r)
  /\ UNCHANGED << cache, cacheSem, sync, now, started, crashes, history >>

(***************************************************************************)
(* mongoGetSubscription: the document, and what the cache adds to it.      *)
(***************************************************************************)
GetBegin(r) == Begin(r, "get", "getCache")

\* The count in the response.
TimesSent(r) ==
  req[r].doc.count + IF req[r].sub \in Cached THEN cache[req[r].sub].count ELSE 0

GetFromCache(r) ==
  /\ req[r].pc = "getCache"
  /\ cacheSem = NoOne
  /\ Done(req, r)
  /\ UNCHANGED << db, cache, cacheSem, sync, environment, history >>

-----------------------------------------------------------------------------
(***************************************************************************)
(* mongoUnsubscribeContext: database first, then the cache, under cacheSem.*)
(* orionldDeleteSubscription does the same without cacheSem.               *)
(***************************************************************************)
DeleteBegin(r) == Begin(r, "delete", "deleteDb")
DeleteLDBegin(r) == Begin(r, "deleteLD", "deleteDbLD")

DeleteInDb(r) ==
  /\ req[r].pc \in { "deleteDb", "deleteDbLD" }
  /\ \E ok, applied \in BOOLEAN :
       /\ DbWrite(ok, applied)
       /\ db' = IF applied THEN Without(db, req[r].sub) ELSE db
       /\ IF ok
          THEN /\ req' = Go(r, IF req[r].pc = "deleteDb" THEN "deleteCache" ELSE "deleteLookupLD")
               /\ UNCHANGED reqSem
          ELSE Done(req, r)
  /\ UNCHANGED << cache, cacheSem, sync, now, started, crashes, history >>

\* subCacheItemRemove of the items of the subscriptions in S, and the response to the
\* client.
RemoveFromCache(r, S) ==
  /\ cache' = [s \in Cached \ S |-> cache[s]]
  /\ Done(Dangling(req, S), r)
  /\ deleted' = deleted \cup { req[r].sub }
  /\ UNCHANGED << db, cacheSem, sync, environment, sent, lastSent, peer >>

\* Mutant: the item is removed without cacheSem.
DeleteInCache_NoSem(r) ==
  /\ req[r].pc = "deleteCache"
  /\ RemoveFromCache(r, { req[r].sub })

DeleteInCache(r) ==
  /\ req[r].pc = "deleteCache"
  /\ cacheSem = NoOne
  /\ RemoveFromCache(r, { req[r].sub })

\* Without cacheSem the lookup and the removal are two steps.
DeleteLookupLD(r) ==
  /\ req[r].pc = "deleteLookupLD"
  /\ req' = [req EXCEPT ![r].pc = "deleteCacheLD",
                        ![r].ptr = IF req[r].sub \in Cached THEN "live" ELSE "null"]
  /\ UNCHANGED << db, cache, cacheSem, reqSem, sync, environment, history >>

\* subCacheItemRemove looks for the address.  That of an item destroyed in the meantime
\* is in the list no more (a logged error), unless another item has been allocated there.
AtAddress(r) ==
  CASE req[r].ptr = "live" -> { { req[r].sub } }
    [] req[r].ptr = "dangling" -> { {} } \cup { { s } : s \in Cached }
    [] OTHER -> { {} }

DeleteInCacheLD(r) ==
  /\ req[r].pc = "deleteCacheLD"
  /\ \E S \in AtAddress(r) : RemoveFromCache(r, S)

-----------------------------------------------------------------------------
(***************************************************************************)
(* An entity update that concerns the subscription:                        *)
(* addTriggeredSubscriptions_withCache copies what it needs of the item,   *)
(* processSubscriptions sends and then looks the item up again.            *)
(***************************************************************************)
NotifyBegin(r) == Begin(r, "notify", "match")

Throttled(item, time) ==
  /\ Throttling # -1
  /\ item.lnt # 0
  /\ time - item.lnt < Throttling

\* Not cached, or throttled: the subscription is not triggered.
MatchNothing(r) ==
  /\ req[r].pc = "match"
  /\ cacheSem = NoOne
  /\ req[r].sub \in Cached => Throttled(cache[req[r].sub], req[r].time)
  /\ Done(req, r)
  /\ UNCHANGED << db, cache, cacheSem, sync, environment, history >>

Match(r) ==
  /\ req[r].pc = "match"
  /\ cacheSem = NoOne
  /\ req[r].sub \in Cached
  /\ ~Throttled(cache[req[r].sub], req[r].time)
  /\ req' = [req EXCEPT ![r].pc = "send", ![r].lnt = cache[req[r].sub].lnt]
  /\ UNCHANGED << db, cache, cacheSem, reqSem, sync, environment, history >>

\* The throttling test of processSubscriptions, on the copy.
ThrottledAgain(r) ==
  /\ Throttling # 1 /\ req[r].lnt # 1
  /\ Throttling > req[r].time - req[r].lnt

Send(r) ==
  /\ req[r].pc = "send"
  /\ ~ThrottledAgain(r)
  /\ CountSent(req[r].sub, req[r].time, TRUE)
  /\ req' = Go(r, "record")
  /\ UNCHANGED << db, cache, cacheSem, reqSem, sync, environment, peer, deleted >>

\* Nothing is sent: a filter does not match, or no attribute is left to send.
SendNothing(r) ==
  /\ req[r].pc = "send"
  /\ Done(req, r)
  /\ UNCHANGED << db, cache, cacheSem, sync, environment, history >>

Record(r) ==
  LET s == req[r].sub IN
  /\ req[r].pc = "record"
  /\ cacheSem = NoOne
  /\ cache' = IF s \in Cached
              THEN [cache EXCEPT ![s].lnt = req[r].time, ![s].count = @ + 1]
              ELSE cache
  /\ Done(req, r)
  /\ UNCHANGED << db, cacheSem, sync, environment, history >>

\* subCacheItemNotificationErrorStatus, called by the thread that has sent the
\* notification.  The time it stores is the requestTime of THAT thread: a worker of
\* the pool initialises its orionldState when it starts, a transient sender never.
OutcomeTime == IF ThreadPool THEN started ELSE 0

NotificationOutcome(s, o) ==
  /\ sent[s] > 0
  /\ cacheSem = NoOne
  /\ s \in Cached
  /\ cache' = [cache EXCEPT ![s].outcome[o] = OutcomeTime]
  /\ UNCHANGED << db, cacheSem, reqSem, req, sync, environment, history >>

-----------------------------------------------------------------------------
(***************************************************************************)
(* subCacheRefresherThread: subCacheSync holds cacheSem from SyncSave to   *)
(* SyncDone.                                                               *)
(***************************************************************************)
\* 1. Save the volatile fields; 2. subCacheRefresh: first, empty the cache.
SyncSave ==
  /\ SubCacheInterval > 0
  /\ sync.pc = "sleep"
  /\ cacheSem = NoOne
  /\ cacheSem' = "refresher"
  /\ sync' = [sync EXCEPT !.pc = "query", !.saved = cache]
  /\ req' = Dangling(req, Cached)
  /\ cache' = << >>
  /\ UNCHANGED << db, reqSem, environment, history >>

\* Mutant: the query selects the subscriptions whose _id is an OID.
SyncQuery_OnlyOID ==
  /\ sync.pc = "query"
  /\ \E ok \in BOOLEAN :
       /\ DbCall(ok)
       /\ sync' = [sync EXCEPT !.pc = "load",
                               !.read = IF ok THEN [s \in Stored \ LdSub |-> db[s]] ELSE << >>]
  /\ UNCHANGED << db, cache, cacheSem, reqSem, req, now, started, crashes, history >>

\* The query of mongoSubCacheRefresh.  When it fails, the cache stays empty.
SyncQuery ==
  /\ sync.pc = "query"
  /\ \E ok \in BOOLEAN :
       /\ DbCall(ok)
       /\ sync' = [sync EXCEPT !.pc = "load", !.read = IF ok THEN db ELSE << >>]
  /\ UNCHANGED << db, cache, cacheSem, reqSem, req, now, started, crashes, history >>

\* The saved times that the database already has, or has newer, are cleared.
Newer(saved, item) ==
  [saved EXCEPT !.lnt = IF @ <= item.lnt THEN 0 ELSE @,
                !.outcome = [o \in Outcome |-> IF @[o] < item.outcome[o] THEN 0 ELSE @[o]]]

\* Mutant: the count, too, goes back into the cache.
SyncLoad_KeepsCount ==
  LET loaded == DOMAIN sync.read IN
  /\ sync.pc = "load"
  /\ cache' = [s \in loaded |-> IF s \in DOMAIN sync.saved
                                THEN [sync.read[s] EXCEPT !.count = sync.saved[s].count]
                                ELSE FromDb(sync.read[s])]
  /\ sync' = [sync EXCEPT !.pc = "count", !.read = << >>,
                          !.saved = [s \in loaded \cap DOMAIN @ |-> Newer(@[s], FromDb(sync.read[s]))],
                          !.todo = loaded \cap DOMAIN sync.saved]
  /\ UNCHANGED << db, cacheSem, reqSem, req, environment, history >>

\* The rest of mongoSubCacheRefresh, and 3. compare with the saved times.
SyncLoad ==
  LET loaded == DOMAIN sync.read IN
  /\ sync.pc = "load"
  /\ cache' = [s \in loaded |-> FromDb(sync.read[s])]
  /\ sync' = [sync EXCEPT !.pc = "count", !.read = << >>,
                          !.saved = [s \in loaded \cap DOMAIN @ |-> Newer(@[s], FromDb(sync.read[s]))],
                          !.todo = loaded \cap DOMAIN sync.saved]
  /\ UNCHANGED << db, cacheSem, reqSem, req, environment, history >>

\* n of the updates of mongoSubCountersUpdate fail; nobody looks at the result.
Lose(n) ==
  /\ faults + n <= MaxFaults
  /\ faults' = faults + n

\* The updates select the document by OID(subId), which throws when subId is the URI of
\* an NGSI-LD subscription.  Without anything to write there is no update.
Throws(s) ==
  /\ s \in LdSub
  /\ IF sync.pc = "count" THEN sync.saved[s].count > 0
     ELSE sync.saved[s].lnt > 0 \/ \E o \in Outcome : sync.saved[s].outcome[o] > 0

\* Mutant: $set instead of $inc.
SyncCount_Set(s) ==
  LET count == sync.saved[s].count IN
  /\ sync.pc = "count"
  /\ s \in sync.todo
  /\ ~Throws(s)
  /\ \E lost \in BOOLEAN :
       /\ lost => count > 0
       /\ Lose(IF lost THEN 1 ELSE 0)
       /\ db' = IF ~lost /\ count > 0 /\ s \in Stored THEN [db EXCEPT ![s].count = count] ELSE db
  /\ sync' = [sync EXCEPT !.pc = "times", !.todo = { s }, !.saved[s].count = 0]
  /\ UNCHANGED << cache, cacheSem, reqSem, req, now, started, crashes, history >>

\* 4. and 5. mongoSubCountersUpdate, subscription by subscription: the count ...
SyncCount(s) ==
  LET count == sync.saved[s].count IN
  /\ sync.pc = "count"
  /\ s \in sync.todo
  /\ ~Throws(s)
  /\ \E lost \in BOOLEAN :
       /\ lost => count > 0
       /\ Lose(IF lost THEN 1 ELSE 0)
       /\ db' = IF ~lost /\ s \in Stored THEN [db EXCEPT ![s].count = @ + count] ELSE db
  /\ sync' = [sync EXCEPT !.pc = "times", !.todo = { s }, !.saved[s].count = 0]
  /\ UNCHANGED << cache, cacheSem, reqSem, req, now, started, crashes, history >>

\* Mutant: the condition $lt is missing.
Advance_Always(stored, saved) == IF saved > 0 THEN saved ELSE stored

\* A time is written only over an older one, or where there is none.
Advance(stored, saved) ==
  IF saved > 0 /\ (stored < saved \/ stored = Absent) THEN saved ELSE stored

\* ... then the times.  The outcomes, but not lastNotificationTime, go back into
\* the cache.
SyncTimes(s) ==
  LET saved == sync.saved[s] IN
  /\ sync.pc = "times"
  /\ s \in sync.todo
  /\ ~Throws(s)
  /\ \E lost \in SUBSET ({ "lnt" } \cup Outcome) :
       /\ Lose(Cardinality(lost))
       /\ db' = IF s \in Stored
                THEN [db EXCEPT
                       ![s].lnt = IF "lnt" \in lost THEN @ ELSE Advance(@, saved.lnt),
                       ![s].outcome = [o \in Outcome |-> IF o \in lost THEN @[o]
                                                         ELSE Advance(@[o], saved.outcome[o])]]
                ELSE db
  /\ cache' = [cache EXCEPT ![s].outcome = saved.outcome]
  /\ sync' = [sync EXCEPT !.pc = "count", !.saved = Without(@, s), !.todo = DOMAIN sync.saved \ { s }]
  /\ UNCHANGED << cacheSem, reqSem, req, now, started, crashes, history >>

\* The broker is started again: subCacheStart fills the cache.
Restart ==
  /\ cache' = [s \in Stored |-> FromDb(db[s])]
  /\ cacheSem' = NoOne
  /\ reqSem' = NoOne
  /\ req' = [r \in Request |-> Idle]
  /\ sync' = NoSync
  /\ started' = now
  /\ UNCHANGED << db, now, faults, history >>

\* Nobody catches the exception of OID(subId) between mongoSubCountersUpdate and
\* subCacheRefresherThread: the process ends, with everything not yet flushed.
SyncException(s) ==
  /\ sync.pc \in { "count", "times" }
  /\ s \in sync.todo
  /\ Throws(s)
  /\ Restart
  /\ UNCHANGED crashes

\* Mutant: cacheSemGive is forgotten.
SyncDone_NoGive ==
  /\ sync.pc = "count"
  /\ sync.todo = {}
  /\ sync' = NoSync
  /\ UNCHANGED << db, cache, cacheSem, reqSem, req, environment, history >>

SyncDone ==
  /\ sync.pc = "count"
  /\ sync.todo = {}
  /\ sync' = NoSync
  /\ cacheSem' = NoOne
  /\ UNCHANGED << db, cache, reqSem, req, environment, history >>

-----------------------------------------------------------------------------
(***************************************************************************)
(* The environment.                                                        *)
(***************************************************************************)
Tick ==
  /\ now < MaxTime
  /\ now' = now + 1
  /\ UNCHANGED << db, cache, cacheSem, reqSem, req, sync, started, faults, crashes, history >>

\* Another broker on the same database sends a notification and flushes its cache
\* (which it can for the ids that are OIDs).
PeerFlush(s) ==
  /\ peer < MaxPeer
  /\ s \in Stored \ LdSub
  /\ peer' = peer + 1
  /\ sent' = [sent EXCEPT ![s] = @ + 1]
  /\ db' = [db EXCEPT ![s].count = @ + 1, ![s].lnt = Advance(@, now)]
  /\ UNCHANGED << cache, cacheSem, reqSem, req, sync, environment, lastSent, deleted >>

\* The broker is killed and started again.
CrashAndRestart ==
  /\ crashes < MaxCrashes
  /\ crashes' = crashes + 1
  /\ Restart

-----------------------------------------------------------------------------
\* What a request does once it has arrived.
RequestStep(r) ==
  \/ NotFound(r)
  \/ CreateBegin(r) \/ insertInCache(r) \/ CreateInDb(r)
  \/ UpdateBegin(r) \/ UpdateLookup(r) \/ UpdateBuild(r) \/ UpdateInDb(r) \/ updateInCache(r)
  \/ PatchLDBegin(r) \/ PatchLDRefused(r) \/ PatchLDInDb(r)
  \/ GetBegin(r) \/ GetFromCache(r)
  \/ DeleteBegin(r) \/ DeleteLDBegin(r) \/ DeleteInDb(r) \/ DeleteInCache(r)
  \/ DeleteLookupLD(r) \/ DeleteInCacheLD(r)
  \/ NotifyBegin(r) \/ MatchNothing(r) \/ Match(r) \/ Send(r) \/ SendNothing(r) \/ Record(r)

subCacheSync ==
  \/ SyncSave \/ SyncQuery \/ SyncLoad
  \/ \E s \in Sub : SyncCount(s) \/ SyncTimes(s) \/ SyncException(s)
  \/ SyncDone

Next ==
  \/ \E r \in Request : Arrive(r) \/ RequestStep(r)
  \/ \E s \in Sub, o \in Outcome : NotificationOutcome(s, o)
  \/ subCacheSync
  \/ Tick
  \/ \E s \in Sub : PeerFlush(s)
  \/ CrashAndRestart

Spec == Init /\ [][Next]_vars

(***************************************************************************)
(* Every thread runs.  sem_wait on cacheSem, which the refresher takes     *)
(* again and again, and on reqSem lets every waiter through eventually:    *)
(* strong fairness of the requests.                                        *)
(***************************************************************************)
FairSpec ==
  /\ Spec
  /\ WF_vars(subCacheSync)
  /\ \A r \in Request : SF_vars(RequestStep(r))

-----------------------------------------------------------------------------
(***************************************************************************)
(* Properties.                                                             *)
(***************************************************************************)
Time == -1 .. MaxTime
Document == [count : Nat, lnt : Time, outcome : [Outcome -> Time], version : Nat]

\* A table of documents or items, for some of the subscriptions.
IsTable(f) == \E S \in SUBSET Sub : f \in [S -> Document]

ControlPoint ==
  { "idle", "arrived", "createCache", "createDb", "updateLookup", "updateBuild", "updateDb",
    "updateCache", "patchDb", "getCache", "deleteDb", "deleteDbLD", "deleteCache",
    "deleteLookupLD", "deleteCacheLD", "match", "send", "record" }

RequestRecord ==
  [pc : ControlPoint, op : AllOperations, sub : Sub, time : 0 .. now, doc : Document, lnt : Time,
   ptr : { "null", "live", "dangling" }]

\* The variables have their types, the refresher holds cacheSem exactly while it
\* synchronizes (subCacheSync) and flushes items that are in the cache (an NGSI-LD
\* deletion, which does not take cacheSem, may remove one of them), and reqSem is held
\* by a request that uses it (reqSemTake/reqSemGive on every return).
TypeOK ==
  /\ IsTable(db) /\ IsTable(cache)
  /\ cacheSem = IF sync.pc = "sleep" THEN NoOne ELSE "refresher"
  /\ reqSem \in Request \cup { NoOne }
  /\ reqSem # NoOne => req[reqSem].pc \notin { "idle", "arrived" } /\ UsesReqSem(req[reqSem].op)
  /\ req \in [Request -> RequestRecord]
  /\ DOMAIN sync = { "pc", "saved", "read", "todo" }
  /\ sync.pc \in { "sleep", "query", "load", "count", "times" }
  /\ IsTable(sync.saved) /\ IsTable(sync.read) /\ sync.todo \subseteq Sub
  /\ sync.pc \in { "count", "times" } =>
       /\ sync.todo \subseteq DOMAIN sync.saved
       /\ "deleteLD" \notin Operations => DOMAIN sync.saved \subseteq Cached
  /\ now \in StartTime .. MaxTime /\ started \in StartTime .. now
  /\ faults \in 0 .. MaxFaults /\ crashes \in 0 .. MaxCrashes /\ peer \in 0 .. MaxPeer
  /\ sent \in [Sub -> Nat] /\ lastSent \in [Sub -> 0 .. now]
  /\ deleted \subseteq Sub

\* Notifications of s that have been sent and not yet counted in the cache.
Unrecorded(s) == Cardinality({ r \in Request : req[r].pc = "record" /\ req[r].sub = s })

\* The notifications of s that the broker still knows of: in the document, in the
\* cached item, among the saved counts that will be flushed, about to be recorded.
Accounted(s) ==
  db[s].count + Unrecorded(s)
  + (IF s \in Cached THEN cache[s].count ELSE 0)
  + (IF s \in DOMAIN sync.saved THEN sync.saved[s].count ELSE 0)

\* Every notification is counted once: neither the refresher (subCacheSync: save,
\* reload with count 0, flush with $inc), nor a notification recorded around it, nor
\* another broker on the same database loses or repeats one.  Without database errors,
\* crashes, updates of the subscription and NGSI-LD subscriptions (the flush of their
\* counts ends the process), and with -reqMutexPolicy write (the default is none).
CountExact == \A s \in Stored : Accounted(s) = sent[s]

\* With database errors, crashes and NGSI-LD subscriptions counts are lost but never
\* invented.
CountNeverInflated == \A s \in Stored : Accounted(s) <= sent[s]

\* timesSent in the response to a GET, the count of a document read earlier plus the
\* count now in the cache, never exceeds the notifications sent, although the
\* refresher moves counts from the cache to the database in between
\* (mongoGetSubscriptions.cpp, "update object from cache-values if necessary").
TimesSentNeverInflated ==
  \A r \in Request :
    req[r].pc = "getCache" /\ cacheSem = NoOne => TimesSent(r) <= sent[req[r].sub]

\* Once the client has been told that a subscription is deleted, the subscription is
\* not in the cache: no refresh that read the database before the deletion brings it
\* back (mongoUnsubscribeContext removes from the database, then from the cache under
\* cacheSem), and no notification of it is triggered.
DeletedLeavesCache == deleted \cap Cached = {}

\* lastNotification, lastSuccess and lastFailure in the database never go back, with
\* several brokers flushing theirs ($lt or $exists false in mongoSubCountersUpdate*).
StoredTimesMonotonic ==
  [][\A s \in DOMAIN db \cap DOMAIN db' :
       /\ db'[s].lnt >= db[s].lnt
       /\ \A o \in Outcome : db'[s].outcome[o] >= db[s].outcome[o]]_vars

\* Two notifications of a subscription are at least Throttling apart, by the times of
\* the requests that trigger them: the test in addTriggeredSubscriptions_withCache
\* and the record in processSubscriptions, with requests that overtake one another.
ThrottlingRespected ==
  [][\A s \in Sub : sent'[s] > sent[s] /\ peer' = peer /\ lastSent[s] > 0
       => lastSent'[s] - lastSent[s] >= Throttling]_vars

\* The cache agrees with the database again and again, once clients leave the
\* subscriptions alone: whatever a failed query, a crash, an NGSI-LD patch (which does
\* not touch the cache), a creation or a deletion overtaken by a refresh left behind
\* is repaired by a later refresh.
CacheCatchesUp ==
  []<>(Cached = Stored /\ \A s \in Cached : cache[s].version = db[s].version)

\* Every request is answered: nobody waits forever for cacheSem or reqSem.
RequestsEnd == \A r \in Request : []<>(req[r].pc = "idle")
=============================================================================
