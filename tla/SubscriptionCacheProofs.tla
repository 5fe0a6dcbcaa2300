----------------------- MODULE SubscriptionCacheProofs -----------------------
(***************************************************************************)
(* Theorems about SubscriptionCache, for any sets of subscriptions and     *)
(* requests and any bounds.  The operations that clients may use are a     *)
(* constant; each theorem says which of them its property cannot bear.     *)
(***************************************************************************)
EXTENDS SubscriptionCache, FiniteSetTheorems, TLAPS

(***************************************************************************)
(* What TypeOK needs to be inductive.                                      *)
(***************************************************************************)
\* A pointer to an item that has not been destroyed points to an item of the cache.
PointersLive == \A r \in Request : req[r].ptr = "live" => req[r].sub \in Cached

\* subCacheRefresh: the cache is empty until the documents that were read are loaded.
EmptyWhileReading == sync.pc \in { "query", "load" } => Cached = {}

TypeInv == TypeOK /\ PointersLive /\ EmptyWhileReading

(***************************************************************************)
(* The refresher's local variables: nothing is saved while it sleeps, the  *)
(* documents it has read are loaded in one step, and it flushes every      *)
(* saved item, its count first.                                            *)
(***************************************************************************)
SyncInv ==
  /\ sync.pc = "sleep" => DOMAIN sync.saved = {}
  /\ sync.pc # "load" => DOMAIN sync.read = {}
  /\ sync.pc = "count" => sync.todo = DOMAIN sync.saved
  /\ sync.pc = "times" => \A s \in sync.todo : sync.saved[s].count = 0

\* The operation that a request at a control point carries out.
Asked(r, op, points) == req[r].pc \in points => req[r].op = op

\* Requests ask for what clients may ask for, and follow the code of what they ask for.
OperationInv ==
  \A r \in Request :
    /\ req[r].pc # "idle" => req[r].op \in Operations
    /\ Asked(r, "create", { "createCache", "createDb" })
    /\ Asked(r, "update", { "updateLookup", "updateBuild", "updateDb", "updateCache" })
    /\ Asked(r, "patchLD", { "patchDb" })
    /\ Asked(r, "delete", { "deleteDb", "deleteCache" })
    /\ Asked(r, "deleteLD", { "deleteDbLD", "deleteLookupLD", "deleteCacheLD" })
    /\ Asked(r, "notify", { "match", "send", "record" })

ControlInv == SyncInv /\ OperationInv

\* The subscription a request is creating is not in the database; other requests for it,
\* which have found it in the cache, have not got further than it gets one that is not
\* in the database.
Creating(r) == req[r].pc # "idle" /\ req[r].op = "create"

CreateInv ==
  \A r \in Request : Creating(r) =>
    /\ req[r].sub \notin Stored
    /\ \A q \in Request \ { r } : req[q].pc # "idle" /\ req[q].sub = req[r].sub =>
         req[q].pc \in { "arrived", "match", "send", "record" } /\ req[q].op # "create"

\* A subscription that has been removed from the database by a deletion that is about to
\* be confirmed stays out of the database.
Removing(r) == req[r].pc \in { "deleteCache", "deleteLookupLD", "deleteCacheLD" }

RemoveInv == \A r \in Request : Removing(r) => req[r].sub \notin Stored

\* What has been deleted is not in the database and does not come back.
DeletedInv ==
  /\ deleted \cap Stored = {}
  /\ \A r \in Request : Creating(r) => req[r].sub \notin deleted

\* Without NGSI-LD deletions: what has been deleted is in none of the places from which
\* it could come back.
GoneInv == deleted \cap (Cached \cup DOMAIN sync.read) = {}

-----------------------------------------------------------------------------
(***************************************************************************)
(* Documents and tables.                                                   *)
(***************************************************************************)
LEMMA TableIs ==
  ASSUME NEW f PROVE IsTable(f) <=> f \in [DOMAIN f -> Document] /\ DOMAIN f \subseteq Sub
  BY DEF IsTable

LEMMA DocumentTypes ==
  /\ NewDoc \in Document /\ Fields(0, 0, 0) \in Document
  /\ \A d \in Document : /\ d.count \in Nat /\ d.lnt \in Time /\ d.version \in Nat
                         /\ d.outcome \in [Outcome -> Time]
                         /\ FromDb(d) \in Document /\ FromDb(d).count = 0
                         /\ FromDb(d).lnt = d.lnt /\ FromDb(d).outcome = d.outcome
  /\ \A c \in Nat, t \in Time, v \in Nat : Fields(c, t, v) \in Document
  /\ Time \subseteq Int /\ -1 \in Time /\ 0 \in Time
<1>1. Time \subseteq Int /\ -1 \in Time /\ 0 \in Time
  BY SubscriptionCacheAssumption DEF Time
<1>2. \A c \in Nat, t \in Time, v \in Nat : Fields(c, t, v) \in Document
  BY DEF Fields, Document
<1>3. NewDoc \in Document /\ Fields(0, 0, 0) \in Document
  BY <1>1, <1>2 DEF NewDoc, Absent
<1>4. ASSUME NEW d \in Document
      PROVE  /\ d.count \in Nat /\ d.lnt \in Time /\ d.version \in Nat
             /\ d.outcome \in [Outcome -> Time]
             /\ FromDb(d) \in Document /\ FromDb(d).count = 0
             /\ FromDb(d).lnt = d.lnt /\ FromDb(d).outcome = d.outcome
  BY DEF Document, FromDb
<1> QED BY <1>1, <1>2, <1>3, <1>4

LEMMA EmptyTable == IsTable(<< >>) /\ DOMAIN << >> = {}
  BY DEF IsTable

LEMMA TableWith ==
  ASSUME NEW f, IsTable(f), NEW s \in Sub, NEW d \in Document
  PROVE  /\ IsTable(With(f, s, d)) /\ DOMAIN With(f, s, d) = DOMAIN f \cup { s }
         /\ With(f, s, d)[s] = d
         /\ \A x \in DOMAIN f \ { s } : With(f, s, d)[x] = f[x]
  BY TableIs DEF With, IsTable

LEMMA TableMinus ==
  ASSUME NEW f, IsTable(f), NEW S
  PROVE  LET g == [x \in DOMAIN f \ S |-> f[x]]
         IN  IsTable(g) /\ DOMAIN g = DOMAIN f \ S /\ \A x \in DOMAIN g : g[x] = f[x]
<1>1. f \in [DOMAIN f -> Document] /\ DOMAIN f \subseteq Sub
  BY TableIs
<1>2. [x \in DOMAIN f \ S |-> f[x]] \in [DOMAIN f \ S -> Document]
  BY <1>1
<1> QED BY <1>1, <1>2 DEF IsTable

LEMMA TableWithout ==
  ASSUME NEW f, IsTable(f), NEW s
  PROVE  /\ IsTable(Without(f, s)) /\ DOMAIN Without(f, s) = DOMAIN f \ { s }
         /\ \A x \in DOMAIN f \ { s } : Without(f, s)[x] = f[x]
<1>1. f \in [DOMAIN f -> Document] /\ DOMAIN f \subseteq Sub
  BY TableIs
<1>2. Without(f, s) \in [DOMAIN f \ { s } -> Document]
  BY <1>1 DEF Without
<1> QED BY <1>1, <1>2 DEF Without, IsTable

LEMMA TableExcept ==
  ASSUME NEW f, IsTable(f), NEW s, NEW d, s \in DOMAIN f => d \in Document
  PROVE  /\ IsTable([f EXCEPT ![s] = d]) /\ DOMAIN [f EXCEPT ![s] = d] = DOMAIN f
         /\ s \in DOMAIN f => [f EXCEPT ![s] = d][s] = d
         /\ \A x \in DOMAIN f \ { s } : [f EXCEPT ![s] = d][x] = f[x]
<1>1. f \in [DOMAIN f -> Document] /\ DOMAIN f \subseteq Sub
  BY TableIs
<1>2. [f EXCEPT ![s] = d] \in [DOMAIN f -> Document]
  BY <1>1
<1> QED BY <1>1, <1>2 DEF IsTable

LEMMA TableAt ==
  ASSUME NEW f, IsTable(f), NEW s \in DOMAIN f
  PROVE  f[s] \in Document /\ s \in Sub
  BY TableIs

-----------------------------------------------------------------------------
(***************************************************************************)
(* Types.  The requests and reqSem, the tables, the refresher and the      *)
(* counters are treated one after the other.                               *)
(***************************************************************************)
RequestsOK ==
  /\ reqSem \in Request \cup { NoOne }
  /\ reqSem # NoOne => req[reqSem].pc \notin { "idle", "arrived" } /\ UsesReqSem(req[reqSem].op)
  /\ req \in [Request -> RequestRecord]
  /\ PointersLive

SyncOK ==
  /\ cacheSem = IF sync.pc = "sleep" THEN NoOne ELSE "refresher"
  /\ DOMAIN sync = { "pc", "saved", "read", "todo" }
  /\ sync.pc \in { "sleep", "query", "load", "count", "times" }
  /\ IsTable(sync.saved) /\ IsTable(sync.read) /\ sync.todo \subseteq Sub
  /\ sync.pc \in { "count", "times" } =>
       /\ sync.todo \subseteq DOMAIN sync.saved
       /\ "deleteLD" \notin Operations => DOMAIN sync.saved \subseteq Cached
  /\ EmptyWhileReading

TimesOK ==
  /\ now \in StartTime .. MaxTime /\ started \in StartTime .. now
  /\ faults \in 0 .. MaxFaults /\ crashes \in 0 .. MaxCrashes /\ peer \in 0 .. MaxPeer
  /\ sent \in [Sub -> Nat] /\ lastSent \in [Sub -> 0 .. now]
  /\ deleted \subseteq Sub

LEMMA TypeParts ==
  TypeInv <=> IsTable(db) /\ IsTable(cache) /\ RequestsOK /\ SyncOK /\ TimesOK
  BY DEF TypeInv, TypeOK, RequestsOK, SyncOK, TimesOK

LEMMA TypeParts2 ==
  TypeInv' <=> IsTable(db') /\ IsTable(cache') /\ RequestsOK' /\ SyncOK' /\ TimesOK'
  BY DEF TypeInv, TypeOK, RequestsOK, SyncOK, TimesOK

\* A request with the types of its fields.
LEMMA RequestTypes ==
  ASSUME TypeInv, NEW r \in Request
  PROVE  /\ req[r] \in RequestRecord /\ req[r].pc \in ControlPoint /\ req[r].op \in AllOperations
         /\ req[r].sub \in Sub /\ req[r].time \in 0 .. now /\ req[r].doc \in Document
         /\ req[r].lnt \in Time /\ req[r].ptr \in { "null", "live", "dangling" }
         /\ req[r].time \in Time /\ req[r].time \in Nat
<1>1. req[r] \in RequestRecord
  BY DEF TypeInv, TypeOK
<1>2. now \in Nat /\ now <= MaxTime /\ MaxTime \in Nat
  BY SubscriptionCacheAssumption DEF TypeInv, TypeOK
<1> QED BY <1>1, <1>2 DEF RequestRecord, Time

LEMMA IdleType ==
  ASSUME now \in Nat
  PROVE  /\ Idle \in RequestRecord
         /\ Idle.pc = "idle" /\ Idle.ptr = "null" /\ Idle.op = "get" /\ Idle.time = 0
<1>1. (CHOOSE s \in Sub : TRUE) \in Sub
  BY SubscriptionCacheAssumption
<1> QED BY <1>1, DocumentTypes DEF Idle, RequestRecord, ControlPoint, AllOperations

\* A request moves on, or ends, and no item is destroyed.
LEMMA RequestMoves ==
  ASSUME RequestsOK, NEW r \in Request, NEW new \in RequestRecord',
         req' = [req EXCEPT ![r] = new], RequestRecord' = RequestRecord,
         Cached \subseteq Cached', new.ptr = "live" => new.sub \in Cached',
         \/ /\ reqSem' = reqSem
            /\ reqSem = r => new.pc \notin { "idle", "arrived" } /\ UsesReqSem(new.op)
         \/ reqSem' = r /\ new.pc \notin { "idle", "arrived" } /\ UsesReqSem(new.op)
         \/ reqSem' = IF reqSem = r THEN NoOne ELSE reqSem
  PROVE  RequestsOK'
<1>1. req' \in [Request -> RequestRecord']
  BY DEF RequestsOK
<1>2. PointersLive'
  BY DEF RequestsOK, PointersLive
<1>3. reqSem' # NoOne => req'[reqSem'].pc \notin { "idle", "arrived" } /\ UsesReqSem(req'[reqSem'].op)
  BY SubscriptionCacheAssumption DEF RequestsOK
<1>4. reqSem' \in Request \cup { NoOne }
  BY DEF RequestsOK
<1> QED BY <1>1, <1>2, <1>3, <1>4 DEF RequestsOK

LEMMA SameRecords ==
  ASSUME now' = now PROVE RequestRecord' = RequestRecord
  BY DEF RequestRecord

\* A request ends, and the items of S are destroyed.
LEMMA RequestEnds ==
  ASSUME RequestsOK, now \in Nat, now' = now, NEW r \in Request, NEW S, Done(Dangling(req, S), r),
         \A s \in Cached \ S : s \in Cached'
  PROVE  RequestsOK'
<1>1. Idle \in RequestRecord /\ Idle.pc = "idle" /\ Idle.ptr = "null"
  BY IdleType
<1>2. RequestRecord' = RequestRecord
  BY SameRecords
<1>3. ASSUME NEW q \in Request
      PROVE  /\ Dangling(req, S)[q] \in RequestRecord
             /\ Dangling(req, S)[q].pc = req[q].pc /\ Dangling(req, S)[q].op = req[q].op
             /\ Dangling(req, S)[q].sub = req[q].sub
             /\ Dangling(req, S)[q].ptr = "live" => req[q].ptr = "live" /\ req[q].sub \notin S
  <2>1. req[q] \in RequestRecord
    BY DEF RequestsOK
  <2>2. Dangling(req, S)[q] = IF req[q].ptr = "live" /\ req[q].sub \in S
                              THEN [req[q] EXCEPT !.ptr = "dangling"] ELSE req[q]
    BY DEF Dangling
  <2> QED BY <2>1, <2>2 DEF RequestRecord
<1>4. Dangling(req, S) \in [Request -> RequestRecord]
  BY <1>3 DEF Dangling
<1>5. /\ req' = [Dangling(req, S) EXCEPT ![r] = Idle]
      /\ reqSem' = IF reqSem = r THEN NoOne ELSE reqSem
  BY DEF Done
<1>6. req'[r] = Idle /\ \A q \in Request \ { r } : req'[q] = Dangling(req, S)[q]
  BY <1>4, <1>5
<1>7. req' \in [Request -> RequestRecord']
  BY <1>1, <1>2, <1>4, <1>5
<1>8. PointersLive'
  BY <1>1, <1>3, <1>6 DEF RequestsOK, PointersLive
<1>9. reqSem' # NoOne => req'[reqSem'].pc \notin { "idle", "arrived" } /\ UsesReqSem(req'[reqSem'].op)
  BY <1>3, <1>5, <1>6 DEF RequestsOK
<1> QED BY <1>5, <1>7, <1>8, <1>9 DEF RequestsOK

LEMMA Sleeping ==
  ASSUME SyncOK, cacheSem = NoOne PROVE sync.pc = "sleep"
  BY SubscriptionCacheAssumption DEF SyncOK

\* A step that is not the refresher's.
LEMMA SyncKept ==
  ASSUME SyncOK, sync' = sync, cacheSem' = cacheSem,
         \/ Cached' = Cached
         \/ cacheSem = NoOne
         \/ "deleteLD" \in Operations /\ Cached' \subseteq Cached
  PROVE  SyncOK'
<1>1. CASE Cached' = Cached
  BY <1>1 DEF SyncOK, EmptyWhileReading
<1>2. CASE cacheSem = NoOne
  <2>1. sync.pc = "sleep"
    BY <1>2, Sleeping
  <2> QED BY <2>1 DEF SyncOK, EmptyWhileReading
<1>3. CASE "deleteLD" \in Operations /\ Cached' \subseteq Cached
  BY <1>3 DEF SyncOK, EmptyWhileReading
<1> QED BY <1>1, <1>2, <1>3

LEMMA TimesKept ==
  ASSUME TimesOK, UNCHANGED << now, started, crashes, history >>, faults' \in 0 .. MaxFaults
  PROVE  TimesOK'
  BY DEF TimesOK, history

LEMMA CallCounted ==
  ASSUME TimesOK, NEW ok, DbCall(ok)
  PROVE  faults' \in 0 .. MaxFaults
  BY SubscriptionCacheAssumption DEF TimesOK, DbCall

LEMMA SentCounted ==
  ASSUME TimesOK, NEW s \in Sub, NEW time \in 0 .. now, NEW b \in BOOLEAN, CountSent(s, time, b),
         UNCHANGED << now, started, crashes, peer, deleted >>, faults' \in 0 .. MaxFaults
  PROVE  TimesOK'
<1>1. sent' \in [Sub -> Nat] /\ lastSent' \in [Sub -> 0 .. now]
  BY DEF TimesOK, CountSent
<1> QED BY <1>1 DEF TimesOK

\* TypeInv of the next state, part by part.
LEMMA TypeKept ==
  ASSUME IsTable(db'), IsTable(cache'), RequestsOK', SyncOK', TimesOK' PROVE TypeInv'
  BY TypeParts2

(***************************************************************************)
(* How a step changes the requests: what it leaves of a request that is    *)
(* not its own (a pointer may be dangling now), the end of a request, and  *)
(* a move to another control point.                                        *)
(***************************************************************************)
Kept(q) == /\ req'[q].pc = req[q].pc /\ req'[q].op = req[q].op /\ req'[q].sub = req[q].sub
           /\ req'[q].time = req[q].time /\ req'[q].doc = req[q].doc
Others(r) == \A q \in Request \ { r } : Kept(q)
Ends(r) == /\ Others(r) /\ req'[r].pc = "idle"
           /\ reqSem' = IF reqSem = r THEN NoOne ELSE reqSem
Moves(r, pc) == /\ Others(r) /\ req'[r].pc = pc /\ req'[r].op = req[r].op
                /\ req'[r].sub = req[r].sub /\ req'[r].time = req[r].time

LEMMA EffectOfDone ==
  ASSUME TypeInv, NEW r \in Request, Done(req, r), now' = now, Cached \subseteq Cached'
  PROVE  RequestsOK' /\ Ends(r)
<1>1. now \in Nat
  BY SubscriptionCacheAssumption DEF TypeInv, TypeOK
<1>2. Idle \in RequestRecord /\ Idle.pc = "idle" /\ Idle.ptr = "null"
  BY <1>1, IdleType
<1>3. RequestRecord' = RequestRecord
  BY SameRecords
<1>4. RequestsOK'
  BY <1>2, <1>3, RequestMoves, TypeParts DEF Done
<1>5. Ends(r)
  BY <1>2, TypeParts DEF Done, Ends, Others, Kept, RequestsOK
<1> QED BY <1>4, <1>5

LEMMA EffectOfDangling ==
  ASSUME TypeInv, NEW r \in Request, NEW S, Done(Dangling(req, S), r), now' = now,
         \A s \in Cached \ S : s \in Cached'
  PROVE  RequestsOK' /\ Ends(r)
<1>1. now \in Nat
  BY SubscriptionCacheAssumption DEF TypeInv, TypeOK
<1>2. Idle.pc = "idle"
  BY <1>1, IdleType
<1>3. RequestsOK'
  BY <1>1, RequestEnds, TypeParts
<1>4. DOMAIN Dangling(req, S) = Request
  BY DEF Dangling
<1>5. \A q \in Request \ { r } : req'[q] = Dangling(req, S)[q]
  BY <1>4 DEF Done
<1>6. req'[r] = Idle
  BY <1>4 DEF Done
<1>7. ASSUME NEW q \in Request \ { r } PROVE Kept(q)
  <2>1. req[q] \in RequestRecord
    BY RequestTypes
  <2>2. req'[q] = IF req[q].ptr = "live" /\ req[q].sub \in S
                  THEN [req[q] EXCEPT !.ptr = "dangling"] ELSE req[q]
    BY <1>5 DEF Dangling
  <2> QED BY <2>1, <2>2 DEF Kept, RequestRecord
<1> QED BY <1>2, <1>3, <1>6, <1>7 DEF Ends, Others, Done

\* A request moves to pc; doc, lnt and ptr are what the code has assigned to them.
Assign(r, pc, doc, lnt, ptr) ==
  [req EXCEPT ![r] = [req[r] EXCEPT !.pc = pc, !.doc = doc, !.lnt = lnt, !.ptr = ptr]]

LEMMA EffectOfMove ==
  ASSUME TypeInv, NEW r \in Request, NEW pc \in ControlPoint \ { "idle", "arrived" },
         NEW doc \in Document, NEW lnt \in Time, NEW ptr \in { "null", "live", "dangling" },
         req' = Assign(r, pc, doc, lnt, ptr),
         now' = now, Cached \subseteq Cached', ptr = "live" => req[r].sub \in Cached',
         reqSem' = reqSem \/ (reqSem' = r /\ UsesReqSem(req[r].op))
  PROVE  RequestsOK' /\ Moves(r, pc) /\ req'[r].doc = doc
<1> DEFINE new == [req[r] EXCEPT !.pc = pc, !.doc = doc, !.lnt = lnt, !.ptr = ptr]
<1>1. req[r] \in RequestRecord /\ req \in [Request -> RequestRecord]
  BY RequestTypes DEF TypeInv, TypeOK
<1>2. /\ new \in RequestRecord /\ new.pc = pc /\ new.op = req[r].op /\ new.sub = req[r].sub
      /\ new.time = req[r].time /\ new.doc = doc /\ new.ptr = ptr
  BY <1>1 DEF RequestRecord
<1>3. RequestRecord' = RequestRecord
  BY SameRecords
<1>4. req' = [req EXCEPT ![r] = new]
  BY DEF Assign
<1> HIDE DEF new
<1>5. reqSem = r => UsesReqSem(req[r].op)
  BY SubscriptionCacheAssumption, TypeParts DEF RequestsOK
<1>6. RequestsOK'
  BY <1>2, <1>3, <1>4, <1>5, RequestMoves, TypeParts
<1>7. Moves(r, pc) /\ req'[r].doc = doc
  BY <1>1, <1>2, <1>4 DEF Moves, Others, Kept
<1> QED BY <1>6, <1>7

LEMMA EffectOfGo ==
  ASSUME TypeInv, NEW r \in Request, NEW pc \in ControlPoint \ { "idle", "arrived" },
         req' = Go(r, pc), now' = now, Cached \subseteq Cached', reqSem' = reqSem
  PROVE  RequestsOK' /\ Moves(r, pc) /\ req'[r].doc = req[r].doc
<1>1. req[r] \in RequestRecord /\ req \in [Request -> RequestRecord]
  BY RequestTypes DEF TypeInv, TypeOK
<1>2. req' = Assign(r, pc, req[r].doc, req[r].lnt, req[r].ptr)
  BY <1>1 DEF Go, RequestRecord, Assign
<1>3. req[r].ptr = "live" => req[r].sub \in Cached'
  BY TypeParts DEF RequestsOK, PointersLive
<1>4. req[r].doc \in Document /\ req[r].lnt \in Time /\ req[r].ptr \in { "null", "live", "dangling" }
  BY RequestTypes
<1> QED BY <1>2, <1>3, <1>4, EffectOfMove

(***************************************************************************)
(* The steps of a request, one lemma each: its types, and what it does to  *)
(* the requests.                                                           *)
(***************************************************************************)
\* Nothing but the requests, reqSem and the number of faults changes.
Quiet == UNCHANGED << db, cache, cacheSem, sync, now, started, crashes, history >>

LEMMA QuietType ==
  ASSUME TypeInv, Quiet, faults' \in 0 .. MaxFaults, RequestsOK'
  PROVE  TypeInv'
<1>1. SyncOK'
  BY SyncKept, TypeParts DEF Quiet, Cached
<1>2. TimesOK'
  BY TimesKept, TypeParts DEF Quiet
<1> QED BY <1>1, <1>2, TypeKept, TypeParts DEF Quiet

LEMMA ArriveEffect ==
  ASSUME TypeInv, NEW r \in Request, Arrive(r)
  PROVE  /\ TypeInv' /\ Quiet /\ Others(r) /\ reqSem' = reqSem
         /\ req[r].pc = "idle" /\ req'[r].pc = "arrived" /\ req'[r].op \in Operations
         /\ req'[r].sub \in Sub /\ req'[r].time = now
         /\ IF req'[r].op = "create" THEN Fresh(req'[r].sub) ELSE req'[r].sub \in Stored \cup Cached
<1>1. PICK op \in Operations, s \in Sub :
        /\ IF op = "create" THEN Fresh(s) ELSE s \in Stored \cup Cached
        /\ req' = [req EXCEPT ![r] = [Idle EXCEPT !.pc = "arrived", !.op = op,
                                                  !.sub = s, !.time = now]]
  BY DEF Arrive
<1> DEFINE new == [Idle EXCEPT !.pc = "arrived", !.op = op, !.sub = s, !.time = now]
<1>2. now \in Nat /\ now \in 0 .. now
  BY SubscriptionCacheAssumption DEF TypeInv, TypeOK
<1>3. op \in AllOperations
  BY SubscriptionCacheAssumption
<1>4. /\ new \in RequestRecord /\ new.pc = "arrived" /\ new.op = op /\ new.sub = s
      /\ new.time = now /\ new.ptr = "null"
  BY <1>2, <1>3, IdleType DEF RequestRecord, ControlPoint
<1>5. req' = [req EXCEPT ![r] = new] /\ req \in [Request -> RequestRecord]
  BY <1>1 DEF TypeInv, TypeOK
<1> HIDE DEF new
<1>6. Quiet /\ reqSem' = reqSem /\ req[r].pc = "idle" /\ faults' = faults
  BY DEF Arrive, Quiet, environment, history
<1>7. reqSem # r
  BY <1>6, SubscriptionCacheAssumption, TypeParts DEF RequestsOK
<1>8. RequestRecord' = RequestRecord
  BY <1>6, SameRecords DEF Quiet
<1>9. RequestsOK'
  BY <1>4, <1>5, <1>6, <1>7, <1>8, RequestMoves, TypeParts DEF Quiet, Cached
<1>10. TypeInv'
  BY <1>6, <1>9, QuietType, TypeParts DEF TimesOK
<1>11. Others(r) /\ req'[r] = new
  BY <1>5 DEF Others, Kept
<1> QED BY <1>1, <1>4, <1>6, <1>10, <1>11

LEMMA NotFoundEffect ==
  ASSUME TypeInv, NEW r \in Request, NotFound(r)
  PROVE  TypeInv' /\ Quiet /\ Ends(r) /\ reqSem' = reqSem /\ req[r].pc = "arrived"
<1>1. Quiet /\ reqSem' = reqSem /\ req[r].pc = "arrived" /\ req' = [req EXCEPT ![r] = Idle]
  BY DEF NotFound, Quiet
<1>2. reqSem # r
  BY <1>1, SubscriptionCacheAssumption, TypeParts DEF RequestsOK
<1>3. Done(req, r)
  BY <1>1, <1>2 DEF Done
<1>4. RequestsOK' /\ Ends(r)
  BY <1>1, <1>3, EffectOfDone DEF Quiet, Cached
<1>5. faults' \in 0 .. MaxFaults
  BY CallCounted, TypeParts DEF NotFound
<1> QED BY <1>1, <1>4, <1>5, QuietType

LEMMA BeginEffect ==
  ASSUME TypeInv, NEW r \in Request, NEW op, NEW pc \in ControlPoint \ { "idle", "arrived" },
         Begin(r, op, pc)
  PROVE  /\ TypeInv' /\ Quiet /\ Moves(r, pc) /\ req[r].pc = "arrived" /\ req[r].op = op
         /\ op \notin { "create", "notify" } => req[r].sub \in Stored
         /\ op \in { "update", "patchLD", "get" } => req'[r].doc = db[req[r].sub]
         /\ ReqMutex /\ UsesReqSem(op) => reqSem = NoOne /\ reqSem' = r
         /\ ~(ReqMutex /\ UsesReqSem(op)) => reqSem' = reqSem
<1>1. /\ Quiet /\ req[r].pc = "arrived" /\ req[r].op = op
      /\ op \notin { "create", "notify" } => req[r].sub \in Stored
      /\ ReqMutex /\ UsesReqSem(op) => reqSem = NoOne
      /\ reqSem' = IF ReqMutex /\ UsesReqSem(op) THEN r ELSE reqSem
      /\ faults' = faults
  BY DEF Begin, Quiet, environment
<1> DEFINE doc == IF op \in { "update", "patchLD", "get" } THEN db[req[r].sub] ELSE req[r].doc
<1>2. req[r] \in RequestRecord /\ req \in [Request -> RequestRecord]
  BY RequestTypes DEF TypeInv, TypeOK
<1>3. req' = Assign(r, pc, doc, req[r].lnt, req[r].ptr)
  BY <1>2 DEF Begin, RequestRecord, Assign
<1>4. doc \in Document
  <2>1. IsTable(db) /\ req[r].doc \in Document
    BY RequestTypes, TypeParts
  <2> QED BY <1>1, <2>1, TableAt DEF Stored
<1>5. req[r].lnt \in Time /\ req[r].ptr \in { "null", "live", "dangling" }
  BY RequestTypes
<1>6. req[r].ptr = "live" => req[r].sub \in Cached'
  BY <1>1, TypeParts DEF RequestsOK, PointersLive, Quiet, Cached
<1>7. RequestsOK' /\ Moves(r, pc) /\ req'[r].doc = doc
  <2> HIDE DEF doc
  <2> QED BY <1>1, <1>3, <1>4, <1>5, <1>6, EffectOfMove DEF Quiet, Cached
<1>8. TypeInv'
  BY <1>1, <1>7, QuietType, TypeParts DEF TimesOK
<1> QED BY <1>1, <1>7, <1>8

\* PatchLDRefused, GetFromCache, MatchNothing and SendNothing: the request ends.
LEMMA QuietEnd ==
  ASSUME TypeInv, NEW r \in Request, Done(req, r),
         UNCHANGED << db, cache, cacheSem, sync, environment, history >>
  PROVE  TypeInv' /\ Quiet /\ Ends(r)
<1>1. Quiet /\ faults' = faults
  BY DEF Quiet, environment
<1>2. RequestsOK' /\ Ends(r)
  BY <1>1, EffectOfDone DEF Quiet, Cached
<1> QED BY <1>1, <1>2, QuietType, TypeParts DEF TimesOK

LEMMA insertInCacheEffect ==
  ASSUME TypeInv, NEW r \in Request, insertInCache(r)
  PROVE  /\ TypeInv' /\ Moves(r, "createDb") /\ req[r].pc = "createCache" /\ sync.pc = "sleep"
         /\ Cached' = Cached \cup { req[r].sub } /\ cache'[req[r].sub].count = 0
         /\ \A s \in Cached \ { req[r].sub } : cache'[s] = cache[s]
         /\ UNCHANGED << db, cacheSem, reqSem, sync, environment, history >>
<1>1. /\ req[r].pc = "createCache" /\ cacheSem = NoOne /\ req' = Go(r, "createDb")
      /\ cache' = With(cache, req[r].sub, Fields(0, 0, 0))
      /\ UNCHANGED << db, cacheSem, reqSem, sync, environment, history >>
  BY DEF insertInCache
<1>2. now' = now /\ faults' = faults /\ UNCHANGED << now, started, crashes, history >>
  BY <1>1 DEF environment
<1>3. Fields(0, 0, 0) \in Document /\ Fields(0, 0, 0).count = 0
  BY DocumentTypes DEF Fields
<1>4. /\ IsTable(cache') /\ Cached' = Cached \cup { req[r].sub } /\ cache'[req[r].sub].count = 0
      /\ \A s \in Cached \ { req[r].sub } : cache'[s] = cache[s]
  <2>1. IsTable(cache) /\ req[r].sub \in Sub
    BY TypeParts, RequestTypes
  <2>2. /\ IsTable(With(cache, req[r].sub, Fields(0, 0, 0)))
        /\ DOMAIN With(cache, req[r].sub, Fields(0, 0, 0)) = DOMAIN cache \cup { req[r].sub }
        /\ With(cache, req[r].sub, Fields(0, 0, 0))[req[r].sub] = Fields(0, 0, 0)
        /\ \A x \in DOMAIN cache \ { req[r].sub } :
             With(cache, req[r].sub, Fields(0, 0, 0))[x] = cache[x]
    BY <1>3, <2>1, TableWith
  <2> QED BY <1>1, <1>3, <2>2 DEF Cached
<1>5. RequestsOK' /\ Moves(r, "createDb")
  BY <1>1, <1>2, <1>4, EffectOfGo DEF ControlPoint
<1>6. SyncOK' /\ sync.pc = "sleep"
  BY <1>1, SyncKept, Sleeping, TypeParts
<1>7. TimesOK'
  BY <1>2, TimesKept, TypeParts DEF TimesOK
<1>8. TypeInv'
  BY <1>1, <1>4, <1>5, <1>6, <1>7, TypeKept, TypeParts
<1> QED BY <1>1, <1>4, <1>5, <1>6, <1>8

\* A notification sent, or none.
SentOne(s) == sent' = [sent EXCEPT ![s] = sent[s] + 1]

LEMMA CreateInDbEffect ==
  ASSUME TypeInv, NEW r \in Request, CreateInDb(r)
  PROVE  /\ TypeInv' /\ Ends(r) /\ req[r].pc = "createDb"
         /\ \E n \in { 0, 1 } :
              /\ IF n = 1 THEN SentOne(req[r].sub) ELSE sent' = sent
              /\ \/ /\ Stored' = Stored \cup { req[r].sub } /\ db'[req[r].sub].count = n
                    /\ \A s \in Stored \ { req[r].sub } : db'[s] = db[s]
                 \/ db' = db /\ faults < MaxFaults
         /\ UNCHANGED << cache, cacheSem, sync, now, started, crashes, peer, deleted >>
<1>1. PICK notificationDone \in BOOLEAN, ok \in BOOLEAN, applied \in BOOLEAN :
        /\ DbWrite(ok, applied)
        /\ CountSent(req[r].sub, req[r].time, notificationDone)
        /\ db' = IF applied
                 THEN With(db, req[r].sub, IF notificationDone
                                  THEN [NewDoc EXCEPT !.count = 1, !.lnt = req[r].time]
                                  ELSE NewDoc)
                 ELSE db
  BY DEF CreateInDb
<1>2. /\ req[r].pc = "createDb" /\ Done(req, r) 
      /\ UNCHANGED << cache, cacheSem, sync, now, started, crashes, peer, deleted >>
  BY DEF CreateInDb
<1> DEFINE n == IF notificationDone THEN 1 ELSE 0
<1>3. req[r].sub \in Sub /\ req[r].time \in Time /\ req[r].time \in 0 .. now
  BY RequestTypes
<1>4. PICK doc \in Document : /\ doc.count = n
                              /\ db' = IF applied THEN With(db, req[r].sub, doc) ELSE db
  <2> DEFINE d == IF notificationDone THEN [NewDoc EXCEPT !.count = 1, !.lnt = req[r].time]
                  ELSE NewDoc
  <2>1. NewDoc \in Document /\ NewDoc.count = 0
    BY DocumentTypes DEF NewDoc, Fields
  <2>2. d \in Document /\ d.count = n
    BY <1>3, <2>1 DEF Document
  <2>3. db' = IF applied THEN With(db, req[r].sub, d) ELSE db
    BY <1>1
  <2> QED BY <2>2, <2>3
<1>6. IF n = 1 THEN SentOne(req[r].sub) ELSE sent' = sent
  BY <1>1 DEF CountSent, SentOne
<1>7. RequestsOK' /\ Ends(r)
  BY <1>2, EffectOfDone DEF Cached
<1>8. TimesOK'
  <2>1. faults' \in 0 .. MaxFaults
    BY <1>1, CallCounted, TypeParts DEF DbWrite
  <2> QED BY <1>1, <1>2, <1>3, <2>1, SentCounted, TypeParts
<1>9. SyncOK'
  BY <1>2, SyncKept, TypeParts DEF Cached
<1>10. CASE applied
  <2>1. /\ IsTable(db') /\ Stored' = Stored \cup { req[r].sub } /\ db'[req[r].sub] = doc
        /\ \A s \in Stored \ { req[r].sub } : db'[s] = db[s]
    <3>1. IsTable(db)
      BY TypeParts
    <3>2. /\ IsTable(With(db, req[r].sub, doc))
          /\ DOMAIN With(db, req[r].sub, doc) = DOMAIN db \cup { req[r].sub }
          /\ With(db, req[r].sub, doc)[req[r].sub] = doc
          /\ \A x \in DOMAIN db \ { req[r].sub } : With(db, req[r].sub, doc)[x] = db[x]
      BY <1>3, <3>1, TableWith
    <3> QED BY <1>4, <1>10, <3>2 DEF Stored
  <2>2. TypeInv'
    BY <1>2, <1>7, <1>8, <1>9, <2>1, TypeKept, TypeParts
  <2> QED BY <1>2, <1>4, <1>6, <1>7, <2>1, <2>2
<1>11. CASE ~applied
  <2>1. db' = db /\ faults < MaxFaults
    BY <1>1, <1>11 DEF DbWrite, DbCall
  <2>2. TypeInv'
    BY <1>2, <1>7, <1>8, <1>9, <2>1, TypeKept, TypeParts
  <2> QED BY <1>2, <1>6, <1>7, <2>1, <2>2
<1> QED BY <1>10, <1>11

\* subCacheItemLookup without cacheSem.
LooksUp(r, pc) ==
  /\ req' = [req EXCEPT ![r].pc = pc,
                        ![r].ptr = IF req[r].sub \in Cached THEN "live" ELSE "null"]
  /\ UNCHANGED << db, cache, cacheSem, reqSem, sync, environment, history >>

LEMMA LookupEffect ==
  ASSUME TypeInv, NEW r \in Request, NEW pc \in ControlPoint \ { "idle", "arrived" }, LooksUp(r, pc)
  PROVE  /\ TypeInv' /\ Quiet /\ Moves(r, pc)
         /\ req'[r].doc = req[r].doc /\ reqSem' = reqSem
<1>a. PICK ptr \in { "null", "live", "dangling" } :
        ptr = IF req[r].sub \in Cached THEN "live" ELSE "null"
  OBVIOUS
<1>1. /\ Quiet /\ reqSem' = reqSem /\ faults' = faults
  BY DEF LooksUp, Quiet, environment
<1>2. req[r] \in RequestRecord /\ req \in [Request -> RequestRecord]
  BY RequestTypes DEF TypeInv, TypeOK
<1>3. req[r].doc \in Document /\ req[r].lnt \in Time
  BY RequestTypes
<1>4. req' = Assign(r, pc, req[r].doc, req[r].lnt, ptr)
  <2>1. req' = [req EXCEPT ![r].pc = pc, ![r].ptr = ptr]
    BY <1>a DEF LooksUp
  <2> QED BY <1>2, <2>1 DEF RequestRecord, Assign
<1>5. ptr = "live" => req[r].sub \in Cached'
  BY <1>a, <1>1 DEF Quiet, Cached
<1>6. RequestsOK' /\ Moves(r, pc) /\ req'[r].doc = req[r].doc
  <2>1. Cached \subseteq Cached' /\ now' = now
    BY <1>1 DEF Quiet, Cached
  <2> QED BY <1>1, <1>3, <1>4, <1>5, <2>1, EffectOfMove
<1> QED BY <1>1, <1>6, QuietType, TypeParts DEF TimesOK

LEMMA UpdateLookupEffect ==
  ASSUME TypeInv, NEW r \in Request, UpdateLookup(r)
  PROVE  /\ TypeInv' /\ Quiet /\ Moves(r, "updateBuild") /\ req[r].pc = "updateLookup"
         /\ req'[r].doc = req[r].doc /\ reqSem' = reqSem
<1>1. "updateBuild" \in ControlPoint \ { "idle", "arrived" }
  BY DEF ControlPoint
<1> QED BY <1>1, LookupEffect DEF UpdateLookup, LooksUp

LEMMA DeleteLookupLDEffect ==
  ASSUME TypeInv, NEW r \in Request, DeleteLookupLD(r)
  PROVE  /\ TypeInv' /\ Quiet /\ Moves(r, "deleteCacheLD") /\ req[r].pc = "deleteLookupLD"
         /\ reqSem' = reqSem
<1>1. "deleteCacheLD" \in ControlPoint \ { "idle", "arrived" }
  BY DEF ControlPoint
<1> QED BY <1>1, LookupEffect DEF DeleteLookupLD, LooksUp

LEMMA DereferenceType ==
  ASSUME TypeInv, NEW r \in Request, NEW item \in Dereference(r) PROVE item \in Document
<1>1. CASE req[r].ptr = "live"
  <2>1. req[r].sub \in DOMAIN cache /\ IsTable(cache)
    BY <1>1, TypeParts DEF RequestsOK, PointersLive, Cached
  <2>2. cache[req[r].sub] \in Document
    BY <2>1, TableAt
  <2> QED BY <1>1, <2>2 DEF Dereference
<1>2. CASE req[r].ptr = "dangling"
  <2>1. PICK c \in 0 .. MaxSent, t \in { 0, now } : item = Fields(c, t, 0)
    BY <1>2 DEF Dereference
  <2>2. c \in Nat /\ t \in Time
    BY SubscriptionCacheAssumption DEF TypeInv, TypeOK, Time
  <2> QED BY <2>1, <2>2, DocumentTypes
<1>3. CASE req[r].ptr = "null"
  BY <1>3, DocumentTypes DEF Dereference, Absent
<1> QED BY <1>1, <1>2, <1>3, RequestTypes

LEMMA UpdatedDocType ==
  ASSUME NEW orig \in Document, NEW item \in Document, NEW time \in Time, NEW b \in BOOLEAN
  PROVE  UpdatedDoc(orig, item, time, b) \in Document
<1>1. /\ orig.count \in Nat /\ orig.lnt \in Time /\ orig.version \in Nat
      /\ orig.outcome \in [Outcome -> Time]
      /\ item.count \in Nat /\ item.lnt \in Time /\ item.outcome \in [Outcome -> Time]
      /\ -1 \in Time /\ 0 \in Time
  BY DocumentTypes
<1>2. \A a, c \in Time : Larger(a, c) \in Time
  BY DEF Larger
<1>3. [o \in Outcome |-> Larger(IF o = "failure" THEN Larger(orig.outcome[o], 0)
                                ELSE orig.outcome[o], item.outcome[o])] \in [Outcome -> Time]
  BY <1>1, <1>2
<1>4. (IF b THEN time ELSE IF orig.lnt = Absent THEN Absent ELSE Larger(orig.lnt, item.lnt)) \in Time
  BY <1>1, <1>2 DEF Absent
<1>5. orig.count + (IF b THEN item.count + 1 ELSE 0) \in Nat /\ orig.version + 1 \in Nat
  BY <1>1
<1> QED BY <1>3, <1>4, <1>5 DEF UpdatedDoc, Document

LEMMA UpdateBuildEffect ==
  ASSUME TypeInv, NEW r \in Request, UpdateBuild(r)
  PROVE  /\ TypeInv' /\ Moves(r, "updateDb") /\ req[r].pc = "updateBuild" /\ Cached' = Cached
         /\ UNCHANGED << db, cacheSem, reqSem, sync, environment, peer, deleted >>
<1>1. PICK notificationDone \in BOOLEAN, item \in Dereference(r) :
        /\ CountSent(req[r].sub, req[r].time, notificationDone)
        /\ notificationDone /\ req[r].ptr # "null" => cacheSem = NoOne
        /\ cache' = IF notificationDone /\ req[r].ptr = "live"
                    THEN [cache EXCEPT ![req[r].sub].count = @ + 1, ![req[r].sub].lnt = req[r].time]
                    ELSE cache
        /\ req' = [req EXCEPT ![r].pc = "updateDb", ![r].ptr = "null",
                              ![r].doc = UpdatedDoc(@, item, req[r].time, notificationDone),
                              ![r].lnt = IF notificationDone THEN req[r].time ELSE 0]
  BY DEF UpdateBuild
<1>2. /\ req[r].pc = "updateBuild"
      /\ UNCHANGED << db, cacheSem, reqSem, sync, environment, peer, deleted >>
  BY DEF UpdateBuild
<1>3. /\ req[r] \in RequestRecord /\ req \in [Request -> RequestRecord]
      /\ req[r].sub \in Sub /\ req[r].time \in Time /\ req[r].time \in 0 .. now
      /\ req[r].doc \in Document /\ IsTable(cache)
  BY RequestTypes, TypeParts DEF TypeInv, TypeOK
<1> DEFINE doc == UpdatedDoc(req[r].doc, item, req[r].time, notificationDone)
           lnt == IF notificationDone THEN req[r].time ELSE 0
<1>4. doc \in Document
  BY <1>3, DereferenceType, UpdatedDocType
<1>5. lnt \in Time
  BY <1>3, DocumentTypes
<1>6. req' = Assign(r, "updateDb", doc, lnt, "null")
  BY <1>1, <1>3 DEF RequestRecord, Assign
<1> HIDE DEF doc, lnt
<1>7. IsTable(cache') /\ Cached' = Cached
  <2>1. CASE notificationDone /\ req[r].ptr = "live"
    <3> DEFINE it == [cache[req[r].sub] EXCEPT !.count = @ + 1, !.lnt = req[r].time]
    <3>1. req[r].sub \in DOMAIN cache
      BY <2>1, TypeParts DEF RequestsOK, PointersLive, Cached
    <3>2. cache[req[r].sub] \in Document
      BY <1>3, <3>1, TableAt
    <3>3. it \in Document
      <4>1. cache[req[r].sub].count + 1 \in Nat
        BY <3>2 DEF Document
      <4> QED BY <1>3, <3>2, <4>1 DEF Document
    <3>4. cache' = [cache EXCEPT ![req[r].sub] = it]
      BY <1>1, <2>1, <3>1, <3>2 DEF Document
    <3> HIDE DEF it
    <3> QED BY <1>3, <3>3, <3>4, TableExcept DEF Cached
  <2>2. CASE ~(notificationDone /\ req[r].ptr = "live")
    BY <1>1, <1>3, <2>2 DEF Cached
  <2> QED BY <2>1, <2>2
<1>8. now' = now /\ UNCHANGED << now, started, crashes, faults >>
  BY <1>2 DEF environment
<1>9. RequestsOK' /\ Moves(r, "updateDb")
  BY <1>2, <1>4, <1>5, <1>6, <1>7, <1>8, EffectOfMove DEF ControlPoint
<1>10. TimesOK'
  <2>1. faults' \in 0 .. MaxFaults
    BY <1>8, TypeParts DEF TimesOK
  <2> QED BY <1>1, <1>2, <1>3, <1>8, <2>1, SentCounted, TypeParts
<1>11. SyncOK'
  BY <1>2, <1>7, SyncKept, TypeParts
<1>12. TypeInv'
  BY <1>2, <1>7, <1>9, <1>10, <1>11, TypeKept, TypeParts
<1> QED BY <1>2, <1>7, <1>9, <1>12

\* A document of db is replaced, or db stays as it is.
LEMMA ReplacedDoc ==
  ASSUME IsTable(db), NEW s, NEW doc \in Document, NEW applied \in BOOLEAN,
         db' = IF applied /\ s \in Stored THEN [db EXCEPT ![s] = doc] ELSE db
  PROVE  /\ IsTable(db') /\ Stored' = Stored
         /\ \A x \in Stored \ { s } : db'[x] = db[x]
         /\ s \in Stored => db'[s] \in { db[s], doc }
<1>1. /\ IsTable([db EXCEPT ![s] = doc]) /\ DOMAIN [db EXCEPT ![s] = doc] = DOMAIN db
      /\ s \in DOMAIN db => [db EXCEPT ![s] = doc][s] = doc
      /\ \A x \in DOMAIN db \ { s } : [db EXCEPT ![s] = doc][x] = db[x]
  BY TableExcept
<1>2. CASE applied /\ s \in Stored
  BY <1>1, <1>2 DEF Stored
<1>3. CASE ~(applied /\ s \in Stored)
  BY <1>3 DEF Stored
<1> QED BY <1>2, <1>3

LEMMA UpdateInDbEffect ==
  ASSUME TypeInv, NEW r \in Request, UpdateInDb(r)
  PROVE  /\ TypeInv' /\ req[r].pc = "updateDb" /\ Stored' = Stored
         /\ \/ Moves(r, "updateCache") /\ reqSem' = reqSem
            \/ Ends(r)
         /\ UNCHANGED << cache, cacheSem, sync, now, started, crashes, history >>
<1>1. PICK ok \in BOOLEAN, applied \in BOOLEAN :
        /\ DbWrite(ok, applied)
        /\ db' = IF applied /\ req[r].sub \in Stored THEN [db EXCEPT ![req[r].sub] = req[r].doc] ELSE db
        /\ IF ok
           THEN req' = Go(r, "updateCache") /\ UNCHANGED reqSem
           ELSE Done(req, r)
  BY DEF UpdateInDb
<1>2. /\ req[r].pc = "updateDb"
      /\ UNCHANGED << cache, cacheSem, sync, now, started, crashes, history >>
  BY DEF UpdateInDb
<1>3. IsTable(db) /\ req[r].doc \in Document
  BY RequestTypes, TypeParts
<1>4. IsTable(db') /\ Stored' = Stored
  BY <1>1, <1>3, ReplacedDoc
<1>5. Cached' = Cached
  BY <1>2 DEF Cached
<1>6. RequestsOK' /\ ((Moves(r, "updateCache") /\ reqSem' = reqSem) \/ Ends(r))
  <2>1. CASE ok
    <3>1. "updateCache" \in ControlPoint \ { "idle", "arrived" }
      BY DEF ControlPoint
    <3> QED BY <1>1, <1>2, <1>5, <2>1, <3>1, EffectOfGo
  <2>2. CASE ~ok
    BY <1>1, <1>2, <1>5, <2>2, EffectOfDone
  <2> QED BY <2>1, <2>2
<1>7. faults' \in 0 .. MaxFaults
  BY <1>1, CallCounted, TypeParts DEF DbWrite
<1>8. SyncOK' /\ TimesOK'
  BY <1>2, <1>5, <1>7, SyncKept, TimesKept, TypeParts
<1>9. TypeInv'
  BY <1>2, <1>4, <1>6, <1>8, TypeKept, TypeParts
<1> QED BY <1>2, <1>4, <1>6, <1>9

LEMMA updateInCacheEffect ==
  ASSUME TypeInv, NEW r \in Request, updateInCache(r)
  PROVE  /\ TypeInv' /\ req[r].pc = "updateCache" /\ Ends(r) /\ Cached' = Cached
         /\ UNCHANGED << db, cacheSem, sync, environment, history >>
<1>1. /\ req[r].pc = "updateCache" /\ Done(Dangling(req, { req[r].sub }), r)
      /\ UNCHANGED << db, cacheSem, sync, environment, history >>
  BY DEF updateInCache
<1>2. IsTable(cache) /\ req[r].lnt \in Time /\ req[r].doc \in Document
  BY RequestTypes, TypeParts
<1>3. PICK d \in Document : d = [Fields(0, 0, req[r].doc.version) EXCEPT !.lnt = req[r].lnt]
  <2>1. req[r].doc.version \in Nat
    BY <1>2 DEF Document
  <2>2. Fields(0, 0, req[r].doc.version) \in Document
    BY <2>1, DocumentTypes
  <2>3. [Fields(0, 0, req[r].doc.version) EXCEPT !.lnt = req[r].lnt] \in Document
    BY <1>2, <2>2 DEF Document
  <2> QED BY <2>3
<1>4. IsTable(cache') /\ Cached' = Cached
  <2>1. cache' = IF req[r].sub \in Cached THEN [cache EXCEPT ![req[r].sub] = d] ELSE cache
    BY <1>3 DEF updateInCache
  <2>2. /\ IsTable([cache EXCEPT ![req[r].sub] = d])
        /\ DOMAIN [cache EXCEPT ![req[r].sub] = d] = DOMAIN cache
    BY <1>2, TableExcept
  <2> QED BY <1>2, <2>1, <2>2 DEF Cached
<1>5. UNCHANGED << now, started, faults, crashes >>
  BY <1>1 DEF environment
<1>6. RequestsOK' /\ Ends(r)
  BY <1>1, <1>4, <1>5, EffectOfDangling
<1>7. SyncOK' /\ TimesOK'
  BY <1>1, <1>4, <1>5, SyncKept, TimesKept, TypeParts DEF TimesOK
<1>8. TypeInv'
  BY <1>1, <1>4, <1>6, <1>7, TypeKept, TypeParts
<1> QED BY <1>1, <1>4, <1>6, <1>8

LEMMA PatchLDInDbEffect ==
  ASSUME TypeInv, NEW r \in Request, PatchLDInDb(r)
  PROVE  /\ TypeInv' /\ req[r].pc = "patchDb" /\ Ends(r) /\ Stored' = Stored
         /\ \A s \in Stored \ { req[r].sub } : db'[s] = db[s]
         /\ req[r].sub \in Stored =>
              db'[req[r].sub].count \in { db[req[r].sub].count, req[r].doc.count }
         /\ UNCHANGED << cache, cacheSem, sync, now, started, crashes, history >>
<1>1. /\ req[r].pc = "patchDb" /\ Done(req, r)
      /\ UNCHANGED << cache, cacheSem, sync, now, started, crashes, history >>
  BY DEF PatchLDInDb
<1>2. IsTable(db) /\ req[r].doc \in Document
  BY RequestTypes, TypeParts
<1>3. PICK d \in Document : /\ d = [req[r].doc EXCEPT !.version = @ + 1]
                            /\ d.count = req[r].doc.count
  <2>1. req[r].doc.version + 1 \in Nat
    BY <1>2 DEF Document
  <2>2. /\ [req[r].doc EXCEPT !.version = @ + 1] \in Document
        /\ [req[r].doc EXCEPT !.version = @ + 1].count = req[r].doc.count
    BY <1>2, <2>1 DEF Document
  <2> QED BY <2>2
<1>4. PICK ok \in BOOLEAN, applied \in BOOLEAN :
        /\ DbWrite(ok, applied)
        /\ db' = IF applied /\ req[r].sub \in Stored THEN [db EXCEPT ![req[r].sub] = d] ELSE db
  BY <1>3 DEF PatchLDInDb
<1>5. /\ IsTable(db') /\ Stored' = Stored
      /\ \A s \in Stored \ { req[r].sub } : db'[s] = db[s]
      /\ req[r].sub \in Stored => db'[req[r].sub] \in { db[req[r].sub], d }
  BY <1>2, <1>4, ReplacedDoc
<1>6. Cached' = Cached
  BY <1>1 DEF Cached
<1>7. RequestsOK' /\ Ends(r)
  BY <1>1, <1>6, EffectOfDone
<1>8. faults' \in 0 .. MaxFaults
  BY <1>4, CallCounted, TypeParts DEF DbWrite
<1>9. SyncOK' /\ TimesOK'
  BY <1>1, <1>6, <1>8, SyncKept, TimesKept, TypeParts
<1>10. TypeInv'
  BY <1>1, <1>5, <1>7, <1>9, TypeKept, TypeParts
<1> QED BY <1>1, <1>3, <1>5, <1>7, <1>10

LEMMA DeleteInDbEffect ==
  ASSUME TypeInv, NEW r \in Request, DeleteInDb(r)
  PROVE  /\ TypeInv' /\ req[r].pc \in { "deleteDb", "deleteDbLD" }
         /\ \/ /\ Moves(r, IF req[r].pc = "deleteDb" THEN "deleteCache" ELSE "deleteLookupLD")
               /\ req[r].sub \notin Stored' /\ reqSem' = reqSem
            \/ Ends(r) /\ faults < MaxFaults
         /\ Stored' \in { Stored, Stored \ { req[r].sub } }
         /\ \A s \in Stored' : db'[s] = db[s]
         /\ UNCHANGED << cache, cacheSem, sync, now, started, crashes, history >>
<1>1. PICK ok \in BOOLEAN, applied \in BOOLEAN :
        /\ DbWrite(ok, applied)
        /\ db' = IF applied THEN Without(db, req[r].sub) ELSE db
        /\ IF ok
           THEN /\ req' = Go(r, IF req[r].pc = "deleteDb" THEN "deleteCache" ELSE "deleteLookupLD")
                /\ UNCHANGED reqSem
           ELSE Done(req, r)
  BY DEF DeleteInDb
<1>2. /\ req[r].pc \in { "deleteDb", "deleteDbLD" }
      /\ UNCHANGED << cache, cacheSem, sync, now, started, crashes, history >>
  BY DEF DeleteInDb
<1>3. IsTable(db)
  BY TypeParts
<1>4. /\ IsTable(Without(db, req[r].sub))
      /\ DOMAIN Without(db, req[r].sub) = DOMAIN db \ { req[r].sub }
      /\ \A x \in DOMAIN db \ { req[r].sub } : Without(db, req[r].sub)[x] = db[x]
  BY <1>3, TableWithout
<1>5. /\ IsTable(db') /\ Stored' \in { Stored, Stored \ { req[r].sub } }
      /\ \A s \in Stored' : db'[s] = db[s]
      /\ applied => req[r].sub \notin Stored'
  <2>1. CASE applied
    BY <1>1, <1>4, <2>1 DEF Stored
  <2>2. CASE ~applied
    BY <1>1, <1>3, <2>2 DEF Stored
  <2> QED BY <2>1, <2>2
<1>6. Cached' = Cached
  BY <1>2 DEF Cached
<1>7. ok => applied
  BY <1>1 DEF DbWrite
<1>8. /\ RequestsOK'
      /\ \/ /\ Moves(r, IF req[r].pc = "deleteDb" THEN "deleteCache" ELSE "deleteLookupLD")
            /\ req[r].sub \notin Stored' /\ reqSem' = reqSem
         \/ Ends(r) /\ faults < MaxFaults
  <2>1. CASE ok
    <3>1. PICK pc \in ControlPoint \ { "idle", "arrived" } :
            pc = IF req[r].pc = "deleteDb" THEN "deleteCache" ELSE "deleteLookupLD"
      BY DEF ControlPoint
    <3>2. req' = Go(r, pc) /\ reqSem' = reqSem
      BY <1>1, <2>1, <3>1
    <3>3. RequestsOK' /\ Moves(r, pc)
      BY <1>2, <1>6, <3>2, EffectOfGo
    <3> QED BY <1>5, <1>7, <2>1, <3>1, <3>2, <3>3
  <2>2. CASE ~ok
    <3>1. faults < MaxFaults
      BY <1>1, <2>2 DEF DbWrite, DbCall
    <3> QED BY <1>1, <1>2, <1>6, <2>2, <3>1, EffectOfDone
  <2> QED BY <2>1, <2>2
<1>9. faults' \in 0 .. MaxFaults
  BY <1>1, CallCounted, TypeParts DEF DbWrite
<1>10. SyncOK' /\ TimesOK'
  BY <1>2, <1>6, <1>9, SyncKept, TimesKept, TypeParts
<1>11. TypeInv'
  BY <1>2, <1>5, <1>8, <1>10, TypeKept, TypeParts
<1> QED BY <1>2, <1>5, <1>8, <1>11

LEMMA RemoveFromCacheEffect ==
  ASSUME TypeInv, NEW r \in Request, NEW S, RemoveFromCache(r, S),
         cacheSem = NoOne \/ "deleteLD" \in Operations
  PROVE  /\ TypeInv' /\ Ends(r) /\ deleted' = deleted \cup { req[r].sub }
         /\ Cached' = Cached \ S /\ \A s \in Cached' : cache'[s] = cache[s]
         /\ UNCHANGED << db, cacheSem, sync, environment, sent, lastSent, peer >>
<1>1. /\ Done(Dangling(req, S), r) /\ deleted' = deleted \cup { req[r].sub }
      /\ UNCHANGED << db, cacheSem, sync, environment, sent, lastSent, peer >>
  BY DEF RemoveFromCache
<1>2. IsTable(cache) /\ req[r].sub \in Sub
  BY RequestTypes, TypeParts
<1>3. IsTable(cache') /\ Cached' = Cached \ S /\ \A s \in Cached' : cache'[s] = cache[s]
  <2>1. cache' = [s \in DOMAIN cache \ S |-> cache[s]]
    BY DEF RemoveFromCache, Cached
  <2> QED BY <1>2, <2>1, TableMinus DEF Cached
<1>4. UNCHANGED << now, started, faults, crashes >>
  BY <1>1 DEF environment
<1>5. RequestsOK' /\ Ends(r)
  BY <1>1, <1>3, <1>4, EffectOfDangling
<1>6. SyncOK'
  BY <1>1, <1>3, SyncKept, TypeParts
<1>7. TimesOK'
  BY <1>1, <1>2, <1>4, TypeParts DEF TimesOK
<1>8. TypeInv'
  BY <1>1, <1>3, <1>5, <1>6, <1>7, TypeKept, TypeParts
<1> QED BY <1>1, <1>3, <1>5, <1>8

LEMMA MatchEffect ==
  ASSUME TypeInv, NEW r \in Request, Match(r)
  PROVE  /\ TypeInv' /\ Quiet /\ Moves(r, "send") /\ reqSem' = reqSem
         /\ req[r].pc = "match" /\ sync.pc = "sleep" /\ req[r].sub \in Cached
<1>1. /\ req[r].pc = "match" /\ cacheSem = NoOne /\ req[r].sub \in Cached
      /\ Quiet /\ reqSem' = reqSem /\ faults' = faults
  BY DEF Match, Quiet, environment
<1>2. req[r] \in RequestRecord /\ req \in [Request -> RequestRecord]
  BY RequestTypes DEF TypeInv, TypeOK
<1>3. req[r].doc \in Document /\ req[r].ptr \in { "null", "live", "dangling" } /\ IsTable(cache)
  BY RequestTypes, TypeParts
<1>4. cache[req[r].sub] \in Document
  BY <1>1, <1>3, TableAt DEF Cached
<1>5. cache[req[r].sub].lnt \in Time
  BY <1>4, DocumentTypes
<1>6. req' = Assign(r, "send", req[r].doc, cache[req[r].sub].lnt, req[r].ptr)
  <2>1. req' = [req EXCEPT ![r].pc = "send", ![r].lnt = cache[req[r].sub].lnt]
    BY DEF Match
  <2> QED BY <1>2, <2>1 DEF RequestRecord, Assign
<1>7. Cached \subseteq Cached' /\ now' = now /\ (req[r].ptr = "live" => req[r].sub \in Cached')
  BY <1>1 DEF Quiet, Cached
<1>8. "send" \in ControlPoint \ { "idle", "arrived" }
  BY DEF ControlPoint
<1>9. RequestsOK' /\ Moves(r, "send")
  BY <1>1, <1>3, <1>5, <1>6, <1>7, <1>8, EffectOfMove
<1>10. sync.pc = "sleep"
  BY <1>1, Sleeping, TypeParts
<1> QED BY <1>1, <1>9, <1>10, QuietType, TypeParts DEF TimesOK

LEMMA SendEffect ==
  ASSUME TypeInv, NEW r \in Request, Send(r)
  PROVE  /\ TypeInv' /\ Moves(r, "record") /\ req[r].pc = "send" /\ SentOne(req[r].sub)
         /\ UNCHANGED << db, cache, cacheSem, reqSem, sync, environment, peer, deleted >>
<1>1. /\ req[r].pc = "send" /\ CountSent(req[r].sub, req[r].time, TRUE) /\ req' = Go(r, "record")
      /\ UNCHANGED << db, cache, cacheSem, reqSem, sync, environment, peer, deleted >>
  BY DEF Send
<1>2. UNCHANGED << now, started, faults, crashes >> /\ Cached' = Cached
  BY <1>1 DEF environment, Cached
<1>3. "record" \in ControlPoint \ { "idle", "arrived" }
  BY DEF ControlPoint
<1>4. RequestsOK' /\ Moves(r, "record")
  BY <1>1, <1>2, <1>3, EffectOfGo
<1>5. req[r].sub \in Sub /\ req[r].time \in 0 .. now
  BY RequestTypes
<1>6. TimesOK'
  <2>1. faults' \in 0 .. MaxFaults
    BY <1>2, TypeParts DEF TimesOK
  <2> QED BY <1>1, <1>2, <1>5, <2>1, SentCounted, TypeParts
<1>7. SyncOK'
  BY <1>1, <1>2, SyncKept, TypeParts
<1>8. TypeInv'
  BY <1>1, <1>4, <1>6, <1>7, TypeKept, TypeParts
<1>9. SentOne(req[r].sub)
  BY <1>1 DEF CountSent, SentOne
<1> QED BY <1>1, <1>4, <1>8, <1>9

LEMMA RecordEffect ==
  ASSUME TypeInv, NEW r \in Request, Record(r)
  PROVE  /\ TypeInv' /\ Ends(r) /\ req[r].pc = "record" /\ sync.pc = "sleep"
         /\ Cached' = Cached /\ \A s \in Cached \ { req[r].sub } : cache'[s] = cache[s]
         /\ req[r].sub \in Cached => cache'[req[r].sub].count = cache[req[r].sub].count + 1
         /\ UNCHANGED << db, cacheSem, sync, environment, history >>
<1>1. /\ req[r].pc = "record" /\ cacheSem = NoOne /\ Done(req, r)
      /\ UNCHANGED << db, cacheSem, sync, environment, history >>
  BY DEF Record
<1>2. IsTable(cache) /\ req[r].time \in Time
  BY RequestTypes, TypeParts
<1>3. /\ IsTable(cache') /\ Cached' = Cached
      /\ \A s \in Cached \ { req[r].sub } : cache'[s] = cache[s]
      /\ req[r].sub \in Cached => cache'[req[r].sub].count = cache[req[r].sub].count + 1
  <2>1. CASE req[r].sub \in Cached
    <3>1. cache[req[r].sub] \in Document
      BY <1>2, <2>1, TableAt DEF Cached
    <3>2. cache[req[r].sub].count + 1 \in Nat
      BY <3>1, DocumentTypes
    <3>3. PICK d \in Document : /\ d = [cache[req[r].sub] EXCEPT !.lnt = req[r].time, !.count = @ + 1]
                                /\ d.count = cache[req[r].sub].count + 1
      <4>1. LET d == [cache[req[r].sub] EXCEPT !.lnt = req[r].time, !.count = @ + 1]
            IN  d \in Document /\ d.count = cache[req[r].sub].count + 1
        BY <1>2, <3>1, <3>2 DEF Document
      <4> QED BY <4>1
    <3>4. cache' = [cache EXCEPT ![req[r].sub] = d]
      <4>1. cache' = [cache EXCEPT ![req[r].sub].lnt = req[r].time, ![req[r].sub].count = @ + 1]
        BY <2>1 DEF Record
      <4> QED BY <2>1, <3>1, <3>3, <4>1 DEF Document, Cached
    <3>5. /\ IsTable([cache EXCEPT ![req[r].sub] = d])
          /\ DOMAIN [cache EXCEPT ![req[r].sub] = d] = DOMAIN cache
          /\ req[r].sub \in DOMAIN cache => [cache EXCEPT ![req[r].sub] = d][req[r].sub] = d
          /\ \A x \in DOMAIN cache \ { req[r].sub } : [cache EXCEPT ![req[r].sub] = d][x] = cache[x]
      BY <1>2, TableExcept
    <3> QED BY <2>1, <3>3, <3>4, <3>5 DEF Cached
  <2>2. CASE req[r].sub \notin Cached
    <3>1. cache' = cache
      BY <2>2 DEF Record
    <3> QED BY <1>2, <2>2, <3>1 DEF Cached
  <2> QED BY <2>1, <2>2
<1>4. UNCHANGED << now, started, faults, crashes >>
  BY <1>1 DEF environment
<1>5. RequestsOK' /\ Ends(r)
  BY <1>1, <1>3, <1>4, EffectOfDone
<1>6. SyncOK' /\ sync.pc = "sleep"
  BY <1>1, <1>3, SyncKept, Sleeping, TypeParts
<1>7. TimesOK'
  BY <1>1, <1>4, TimesKept, TypeParts DEF TimesOK
<1>8. TypeInv'
  BY <1>1, <1>3, <1>5, <1>6, <1>7, TypeKept, TypeParts
<1> QED BY <1>1, <1>3, <1>5, <1>6, <1>8

(***************************************************************************)
(* The steps of the other threads and of the environment.                  *)
(***************************************************************************)
LEMMA RequestsKept ==
  ASSUME RequestsOK, UNCHANGED << req, reqSem, now >>, Cached \subseteq Cached'
  PROVE  RequestsOK'
<1>1. RequestRecord' = RequestRecord
  BY SameRecords
<1> QED BY <1>1 DEF RequestsOK, PointersLive

LEMMA NotificationOutcomeEffect ==
  ASSUME TypeInv, NEW s \in Sub, NEW o \in Outcome, NotificationOutcome(s, o)
  PROVE  /\ TypeInv' /\ Cached' = Cached /\ \A x \in Cached : cache'[x].count = cache[x].count
         /\ UNCHANGED << db, cacheSem, reqSem, req, sync, environment, history >>
<1>1. /\ cacheSem = NoOne /\ s \in Cached
      /\ UNCHANGED << db, cacheSem, reqSem, req, sync, environment, history >>
  BY DEF NotificationOutcome
<1>2. OutcomeTime \in Time
  BY SubscriptionCacheAssumption DEF OutcomeTime, Time, TypeInv, TypeOK
<1>3. IsTable(cache)
  BY TypeParts
<1>4. cache[s] \in Document
  BY <1>1, <1>3, TableAt DEF Cached
<1>5. PICK d \in Document : /\ d = [cache[s] EXCEPT !.outcome[o] = OutcomeTime]
                            /\ d.count = cache[s].count
  <2>1. [cache[s].outcome EXCEPT ![o] = OutcomeTime] \in [Outcome -> Time]
    BY <1>2, <1>4 DEF Document
  <2>2. LET d == [cache[s] EXCEPT !.outcome = [cache[s].outcome EXCEPT ![o] = OutcomeTime]]
        IN  d \in Document /\ d.count = cache[s].count
    BY <1>4, <2>1 DEF Document
  <2> QED BY <2>2
<1>6. cache' = [cache EXCEPT ![s] = d]
  <2>1. cache' = [cache EXCEPT ![s].outcome[o] = OutcomeTime]
    BY DEF NotificationOutcome
  <2> QED BY <1>5, <2>1
<1>7. /\ IsTable([cache EXCEPT ![s] = d]) /\ DOMAIN [cache EXCEPT ![s] = d] = DOMAIN cache
      /\ [cache EXCEPT ![s] = d][s] = d
      /\ \A x \in DOMAIN cache \ { s } : [cache EXCEPT ![s] = d][x] = cache[x]
  BY <1>1, <1>3, TableExcept DEF Cached
<1>8. IsTable(cache') /\ Cached' = Cached /\ \A x \in Cached : cache'[x].count = cache[x].count
  BY <1>5, <1>6, <1>7 DEF Cached
<1>9. UNCHANGED << now, started, faults, crashes >>
  BY <1>1 DEF environment
<1>10. RequestsOK' /\ SyncOK' /\ TimesOK'
  BY <1>1, <1>8, <1>9, RequestsKept, SyncKept, TimesKept, TypeParts DEF TimesOK
<1>11. TypeInv'
  BY <1>1, <1>8, <1>10, TypeKept, TypeParts
<1> QED BY <1>1, <1>8, <1>11

LEMMA SyncSaveEffect ==
  ASSUME TypeInv, SyncSave
  PROVE  /\ TypeInv' /\ \A q \in Request : Kept(q)
         /\ sync.pc = "sleep" /\ sync'.pc = "query" /\ sync'.saved = cache
         /\ sync'.read = sync.read /\ sync'.todo = sync.todo /\ Cached' = {}
         /\ UNCHANGED << db, reqSem, environment, history >>
<1>1. /\ sync.pc = "sleep" /\ cacheSem' = "refresher"
      /\ sync' = [sync EXCEPT !.pc = "query", !.saved = cache]
      /\ req' = Dangling(req, Cached) /\ cache' = << >>
      /\ UNCHANGED << db, reqSem, environment, history >>
  BY DEF SyncSave
<1>2. /\ DOMAIN sync = { "pc", "saved", "read", "todo" } /\ IsTable(cache) /\ IsTable(sync.read)
      /\ sync.todo \subseteq Sub
  BY TypeParts DEF SyncOK
<1>3. /\ sync'.pc = "query" /\ sync'.saved = cache /\ sync'.read = sync.read
      /\ sync'.todo = sync.todo /\ DOMAIN sync' = DOMAIN sync
  BY <1>1, <1>2
<1>4. IsTable(cache') /\ Cached' = {}
  BY <1>1, EmptyTable DEF Cached
<1>5. UNCHANGED << now, started, faults, crashes >>
  BY <1>1 DEF environment
<1>6. SyncOK'
  BY <1>1, <1>2, <1>3, <1>4 DEF SyncOK, EmptyWhileReading
<1>7. ASSUME NEW q \in Request
      PROVE  Kept(q) /\ req'[q] \in RequestRecord /\ req'[q].ptr # "live"
  <2>1. req[q] \in RequestRecord /\ (req[q].ptr = "live" => req[q].sub \in Cached)
    BY RequestTypes, TypeParts DEF RequestsOK, PointersLive
  <2>2. req'[q] = IF req[q].ptr = "live" /\ req[q].sub \in Cached
                  THEN [req[q] EXCEPT !.ptr = "dangling"] ELSE req[q]
    BY <1>1 DEF Dangling
  <2> QED BY <2>1, <2>2 DEF Kept, RequestRecord
<1>8. req' \in [Request -> RequestRecord']
  <2>1. RequestRecord' = RequestRecord
    BY <1>5, SameRecords
  <2> QED BY <1>1, <1>7, <2>1 DEF Dangling
<1>9. RequestsOK'
  BY <1>1, <1>7, <1>8, TypeParts DEF RequestsOK, PointersLive, Kept
<1>10. TimesOK'
  BY <1>1, <1>5, TimesKept, TypeParts DEF TimesOK
<1>11. TypeInv'
  BY <1>1, <1>4, <1>6, <1>9, <1>10, TypeKept, TypeParts
<1> QED BY <1>1, <1>3, <1>4, <1>7, <1>11

LEMMA SyncQueryEffect ==
  ASSUME TypeInv, SyncQuery
  PROVE  /\ TypeInv' /\ sync.pc = "query" /\ sync'.pc = "load" /\ sync'.saved = sync.saved
         /\ sync'.read = db \/ (sync'.read = << >> /\ faults < MaxFaults)
         /\ UNCHANGED << db, cache, cacheSem, reqSem, req, now, started, crashes, history >>
<1>1. PICK ok \in BOOLEAN :
        /\ DbCall(ok)
        /\ sync' = [sync EXCEPT !.pc = "load", !.read = IF ok THEN db ELSE << >>]
  BY DEF SyncQuery
<1>2. /\ sync.pc = "query"
      /\ UNCHANGED << db, cache, cacheSem, reqSem, req, now, started, crashes, history >>
  BY DEF SyncQuery
<1>3. /\ DOMAIN sync = { "pc", "saved", "read", "todo" } /\ IsTable(db) /\ IsTable(sync.saved)
      /\ sync.todo \subseteq Sub /\ Cached = {} /\ cacheSem = "refresher"
  BY <1>2, TypeParts DEF SyncOK, EmptyWhileReading
<1>4. /\ sync'.pc = "load" /\ sync'.saved = sync.saved /\ sync'.read = IF ok THEN db ELSE << >>
      /\ sync'.todo = sync.todo /\ DOMAIN sync' = DOMAIN sync
  BY <1>1, <1>3
<1>5. ok \/ faults < MaxFaults
  BY <1>1 DEF DbCall
<1>6. Cached' = Cached
  BY <1>2 DEF Cached
<1>7. IsTable(sync'.read)
  BY <1>3, <1>4, EmptyTable
<1>8. SyncOK'
  BY <1>2, <1>3, <1>4, <1>6, <1>7 DEF SyncOK, EmptyWhileReading
<1>9. faults' \in 0 .. MaxFaults
  BY <1>1, CallCounted, TypeParts
<1>10. RequestsOK' /\ TimesOK'
  BY <1>2, <1>6, <1>9, RequestsKept, TimesKept, TypeParts
<1>11. TypeInv'
  BY <1>2, <1>8, <1>10, TypeKept, TypeParts
<1> QED BY <1>2, <1>4, <1>5, <1>11

LEMMA NewerType ==
  ASSUME NEW saved \in Document, NEW item \in Document
  PROVE  Newer(saved, item) \in Document /\ Newer(saved, item).count = saved.count
<1>1. /\ saved.lnt \in Time /\ saved.outcome \in [Outcome -> Time] /\ item.lnt \in Time
      /\ item.outcome \in [Outcome -> Time] /\ 0 \in Time /\ Time \subseteq Int
  BY DocumentTypes
<1>2. PICK lnt \in Time : lnt = IF saved.lnt <= item.lnt THEN 0 ELSE saved.lnt
  BY <1>1
<1>3. PICK outcome \in [Outcome -> Time] :
        outcome = [o \in Outcome |-> IF saved.outcome[o] < item.outcome[o] THEN 0
                                     ELSE saved.outcome[o]]
  <2>1. [o \in Outcome |-> IF saved.outcome[o] < item.outcome[o] THEN 0 ELSE saved.outcome[o]]
          \in [Outcome -> Time]
    BY <1>1
  <2> QED BY <2>1
<1>4. Newer(saved, item) = [saved EXCEPT !.lnt = lnt, !.outcome = outcome]
  BY <1>2, <1>3 DEF Newer, Document
<1> QED BY <1>4 DEF Document

LEMMA SyncLoadEffect ==
  ASSUME TypeInv, SyncLoad
  PROVE  /\ TypeInv' /\ sync.pc = "load" /\ sync'.pc = "count" /\ DOMAIN sync'.read = {}
         /\ Cached = {} /\ Cached' = DOMAIN sync.read /\ \A s \in Cached' : cache'[s].count = 0
         /\ DOMAIN sync'.saved = DOMAIN sync.read \cap DOMAIN sync.saved
         /\ \A s \in DOMAIN sync'.saved : sync'.saved[s].count = sync.saved[s].count
         /\ sync'.todo = DOMAIN sync'.saved
         /\ UNCHANGED << db, cacheSem, reqSem, req, environment, history >>
<1> DEFINE kept == DOMAIN sync.read \cap DOMAIN sync.saved
<1>1. /\ sync.pc = "load" /\ cache' = [s \in DOMAIN sync.read |-> FromDb(sync.read[s])]
      /\ UNCHANGED << db, cacheSem, reqSem, req, environment, history >>
  BY DEF SyncLoad
<1>2. /\ DOMAIN sync = { "pc", "saved", "read", "todo" } /\ IsTable(sync.read) /\ IsTable(sync.saved)
      /\ Cached = {} /\ cacheSem = "refresher"
  BY <1>1, TypeParts DEF SyncOK, EmptyWhileReading
<1>3. /\ sync'.pc = "count" /\ sync'.read = << >> /\ sync'.todo = kept /\ DOMAIN sync' = DOMAIN sync
      /\ sync'.saved = [s \in kept |-> Newer(sync.saved[s], FromDb(sync.read[s]))]
  BY <1>2 DEF SyncLoad
<1>4. \A s \in DOMAIN sync.read : sync.read[s] \in Document /\ s \in Sub
  BY <1>2, TableAt
<1>5. \A s \in DOMAIN sync.saved : sync.saved[s] \in Document /\ s \in Sub
  BY <1>2, TableAt
<1>6. \A s \in DOMAIN sync.read : FromDb(sync.read[s]) \in Document /\ FromDb(sync.read[s]).count = 0
  BY <1>4, DocumentTypes
<1>7. IsTable(cache') /\ Cached' = DOMAIN sync.read /\ \A s \in Cached' : cache'[s].count = 0
  <2>1. cache' \in [DOMAIN sync.read -> Document]
    BY <1>1, <1>6
  <2> QED BY <1>1, <1>4, <1>6, <2>1 DEF IsTable, Cached
<1>8. \A s \in kept : /\ Newer(sync.saved[s], FromDb(sync.read[s])) \in Document
                      /\ Newer(sync.saved[s], FromDb(sync.read[s])).count = sync.saved[s].count
  BY <1>5, <1>6, NewerType
<1>9. /\ IsTable(sync'.saved) /\ DOMAIN sync'.saved = kept
      /\ \A s \in kept : sync'.saved[s].count = sync.saved[s].count
  <2>1. sync'.saved \in [kept -> Document]
    BY <1>3, <1>8
  <2> QED BY <1>3, <1>5, <1>8, <2>1 DEF IsTable
<1>10. IsTable(sync'.read) /\ DOMAIN sync'.read = {}
  BY <1>3, EmptyTable
<1>11. SyncOK'
  BY <1>1, <1>2, <1>3, <1>5, <1>7, <1>9, <1>10 DEF SyncOK, EmptyWhileReading
<1>12. UNCHANGED << now, started, faults, crashes >>
  BY <1>1 DEF environment
<1>13. RequestsOK' /\ TimesOK'
  BY <1>1, <1>2, <1>12, RequestsKept, TimesKept, TypeParts DEF TimesOK
<1>14. TypeInv'
  BY <1>1, <1>7, <1>11, <1>13, TypeKept, TypeParts
<1> QED BY <1>1, <1>2, <1>3, <1>7, <1>9, <1>10, <1>14

\* No time of the document of x goes back.
Advances(x) == /\ db'[x].lnt >= db[x].lnt
               /\ \A o \in Outcome : db'[x].outcome[o] >= db[x].outcome[o]

LEMMA SameAdvances ==
  ASSUME IsTable(db), NEW x \in Stored, db'[x].lnt = db[x].lnt, db'[x].outcome = db[x].outcome
  PROVE  Advances(x)
<1>1. db[x] \in Document
  BY TableAt DEF Stored
<1>2. db[x].lnt \in Int /\ \A o \in Outcome : db[x].outcome[o] \in Int
  BY <1>1, DocumentTypes
<1> QED BY <1>2 DEF Advances

\* A step of the refresher's loop over the saved items changes neither semaphores nor
\* requests.
LEMMA SyncCountEffect ==
  ASSUME TypeInv, NEW s \in Sub, SyncCount(s)
  PROVE  /\ TypeInv' /\ sync.pc = "count" /\ s \in sync.todo /\ s \in DOMAIN sync.saved
         /\ sync'.pc = "times" /\ sync'.todo = { s } /\ sync'.read = sync.read
         /\ DOMAIN sync'.saved = DOMAIN sync.saved /\ sync'.saved[s].count = 0
         /\ \A x \in DOMAIN sync.saved \ { s } : sync'.saved[x] = sync.saved[x]
         /\ Stored' = Stored /\ \A x \in Stored \ { s } : db'[x] = db[x]
         /\ s \in Stored => \/ db'[s].count = db[s].count + sync.saved[s].count
                            \/ db'[s].count = db[s].count /\ faults < MaxFaults
         /\ \A x \in Stored : Advances(x)
         /\ UNCHANGED << cache, cacheSem, reqSem, req, now, started, crashes, history >>
<1>1. PICK lost \in BOOLEAN :
        /\ Lose(IF lost THEN 1 ELSE 0)
        /\ db' = IF ~lost /\ s \in Stored THEN [db EXCEPT ![s].count = @ + sync.saved[s].count] ELSE db
  BY DEF SyncCount
<1>2. /\ sync.pc = "count" /\ s \in sync.todo
      /\ UNCHANGED << cache, cacheSem, reqSem, req, now, started, crashes, history >>
  BY DEF SyncCount
<1>3. /\ DOMAIN sync = { "pc", "saved", "read", "todo" } /\ IsTable(sync.saved) /\ IsTable(sync.read)
      /\ sync.todo \subseteq DOMAIN sync.saved /\ cacheSem = "refresher" /\ IsTable(db)
      /\ "deleteLD" \notin Operations => DOMAIN sync.saved \subseteq Cached
  BY <1>2, TypeParts DEF SyncOK
<1>4. sync.saved[s] \in Document /\ s \in DOMAIN sync.saved
  BY <1>2, <1>3, TableAt
<1>5. PICK d \in Document : d = [sync.saved[s] EXCEPT !.count = 0] /\ d.count = 0
  <2>1. [sync.saved[s] EXCEPT !.count = 0] \in Document /\ [sync.saved[s] EXCEPT !.count = 0].count = 0
    BY <1>4 DEF Document
  <2> QED BY <2>1
<1>6. /\ sync'.pc = "times" /\ sync'.todo = { s } /\ sync'.read = sync.read
      /\ sync'.saved = [sync.saved EXCEPT ![s] = d] /\ DOMAIN sync' = DOMAIN sync
  BY <1>3, <1>5 DEF SyncCount
<1>7. /\ IsTable(sync'.saved) /\ DOMAIN sync'.saved = DOMAIN sync.saved /\ sync'.saved[s].count = 0
      /\ \A x \in DOMAIN sync.saved \ { s } : sync'.saved[x] = sync.saved[x]
  <2>1. /\ IsTable([sync.saved EXCEPT ![s] = d])
        /\ DOMAIN [sync.saved EXCEPT ![s] = d] = DOMAIN sync.saved
        /\ [sync.saved EXCEPT ![s] = d][s] = d
        /\ \A x \in DOMAIN sync.saved \ { s } : [sync.saved EXCEPT ![s] = d][x] = sync.saved[x]
    BY <1>3, <1>4, TableExcept
  <2> QED BY <1>5, <1>6, <2>1
<1>8. faults' \in 0 .. MaxFaults /\ (lost => faults < MaxFaults)
  BY <1>1, SubscriptionCacheAssumption, TypeParts DEF Lose, TimesOK
<1>9. /\ IsTable(db') /\ Stored' = Stored /\ \A x \in Stored \ { s } : db'[x] = db[x]
      /\ s \in Stored => \/ db'[s].count = db[s].count + sync.saved[s].count
                         \/ db'[s].count = db[s].count /\ faults < MaxFaults
      /\ \A x \in Stored : db'[x].lnt = db[x].lnt /\ db'[x].outcome = db[x].outcome
  <2>1. CASE ~lost /\ s \in Stored
    <3>1. db[s] \in Document
      BY <1>3, <2>1, TableAt DEF Stored
    <3>2. db[s].count + sync.saved[s].count \in Nat
      BY <1>4, <3>1, DocumentTypes
    <3>3. PICK e \in Document : /\ e = [db[s] EXCEPT !.count = @ + sync.saved[s].count]
                                /\ e.count = db[s].count + sync.saved[s].count
                                /\ e.lnt = db[s].lnt /\ e.outcome = db[s].outcome
      <4>1. LET e == [db[s] EXCEPT !.count = @ + sync.saved[s].count]
            IN  /\ e \in Document /\ e.count = db[s].count + sync.saved[s].count
                /\ e.lnt = db[s].lnt /\ e.outcome = db[s].outcome
        BY <3>1, <3>2 DEF Document
      <4> QED BY <4>1
    <3>4. db' = [db EXCEPT ![s] = e]
      BY <1>1, <2>1, <3>3
    <3>5. /\ IsTable([db EXCEPT ![s] = e]) /\ DOMAIN [db EXCEPT ![s] = e] = DOMAIN db
          /\ s \in DOMAIN db => [db EXCEPT ![s] = e][s] = e
          /\ \A x \in DOMAIN db \ { s } : [db EXCEPT ![s] = e][x] = db[x]
      BY <1>3, TableExcept
    <3> QED BY <2>1, <3>3, <3>4, <3>5 DEF Stored
  <2>2. CASE ~(~lost /\ s \in Stored)
    <3>1. db' = db
      BY <1>1, <2>2
    <3> QED BY <1>3, <1>8, <2>2, <3>1 DEF Stored
  <2> QED BY <2>1, <2>2
<1>10. \A x \in Stored : Advances(x)
  BY <1>3, <1>9, SameAdvances
<1>11. Cached' = Cached
  BY <1>2 DEF Cached
<1>12. SyncOK'
  BY <1>2, <1>3, <1>4, <1>6, <1>7, <1>11 DEF SyncOK, EmptyWhileReading
<1>13. RequestsOK' /\ TimesOK'
  BY <1>2, <1>8, <1>11, RequestsKept, TimesKept, TypeParts
<1>14. TypeInv'
  BY <1>2, <1>9, <1>12, <1>13, TypeKept, TypeParts
<1> QED BY <1>2, <1>4, <1>6, <1>7, <1>9, <1>10, <1>14

LEMMA TimeIsOrdered == \A t \in Time : t \in Int /\ t >= t
  BY DEF Time

\* Advance, the condition of mongoSubCountersUpdate: never back.
LEMMA AdvanceIsForward ==
  ASSUME NEW stored \in Time, NEW saved \in Time
  PROVE  Advance(stored, saved) \in Time /\ Advance(stored, saved) >= stored
  BY DocumentTypes DEF Advance, Absent

LEMMA LostAreCounted ==
  ASSUME TypeInv, NEW lost \in SUBSET ({ "lnt" } \cup Outcome), Lose(Cardinality(lost))
  PROVE  faults' \in 0 .. MaxFaults
<1>1. IsFiniteSet({ "lnt", "success", "failure" })
  <2>1. IsFiniteSet({ "lnt" } \cup { "success", "failure" })
    <3>1. IsFiniteSet({ "success" }) /\ IsFiniteSet({ "lnt" }) /\ IsFiniteSet({ "failure" })
      BY FS_Singleton
    <3>2. IsFiniteSet({ "success" } \cup { "failure" })
      BY <3>1, FS_Union
    <3>3. { "success" } \cup { "failure" } = { "success", "failure" }
      OBVIOUS
    <3> QED BY <3>1, <3>2, <3>3, FS_Union
  <2>2. { "lnt" } \cup { "success", "failure" } = { "lnt", "success", "failure" }
    OBVIOUS
  <2> QED BY <2>1, <2>2
<1>2. lost \subseteq { "lnt", "success", "failure" }
  BY SubscriptionCacheAssumption
<1>3. Cardinality(lost) \in Nat
  BY <1>1, <1>2, FS_Subset, FS_CardinalityType
<1> QED BY <1>3, SubscriptionCacheAssumption DEF Lose, TypeInv, TypeOK

LEMMA SyncTimesEffect ==
  ASSUME TypeInv, NEW s \in Sub, SyncTimes(s)
  PROVE  /\ TypeInv' /\ sync.pc = "times" /\ s \in sync.todo /\ s \in DOMAIN sync.saved
         /\ sync'.pc = "count" /\ sync'.read = sync.read /\ sync'.todo = DOMAIN sync.saved \ { s }
         /\ DOMAIN sync'.saved = DOMAIN sync.saved \ { s }
         /\ \A x \in DOMAIN sync'.saved : sync'.saved[x] = sync.saved[x]
         /\ Stored' = Stored /\ \A x \in Stored : db'[x].count = db[x].count
         /\ Cached' = Cached /\ \A x \in Cached : cache'[x].count = cache[x].count
         /\ \A x \in Stored : Advances(x)
         /\ UNCHANGED << cacheSem, reqSem, req, now, started, crashes, history >>
<1>1. PICK lost \in SUBSET ({ "lnt" } \cup Outcome) :
        /\ Lose(Cardinality(lost))
        /\ db' = IF s \in Stored
                 THEN [db EXCEPT
                        ![s].lnt = IF "lnt" \in lost THEN @ ELSE Advance(@, sync.saved[s].lnt),
                        ![s].outcome = [o \in Outcome |-> IF o \in lost THEN @[o]
                                              ELSE Advance(@[o], sync.saved[s].outcome[o])]]
                 ELSE db
  BY DEF SyncTimes
<1>2. /\ sync.pc = "times" /\ s \in sync.todo
      /\ UNCHANGED << cacheSem, reqSem, req, now, started, crashes, history >>
  BY DEF SyncTimes
<1>3. /\ DOMAIN sync = { "pc", "saved", "read", "todo" } /\ IsTable(sync.saved) /\ IsTable(sync.read)
      /\ sync.todo \subseteq DOMAIN sync.saved /\ cacheSem = "refresher" /\ IsTable(db) /\ IsTable(cache)
      /\ "deleteLD" \notin Operations => DOMAIN sync.saved \subseteq Cached
  BY <1>2, TypeParts DEF SyncOK
<1>4. sync.saved[s] \in Document /\ s \in DOMAIN sync.saved
  BY <1>2, <1>3, TableAt
<1>5. sync.saved[s].lnt \in Time /\ sync.saved[s].outcome \in [Outcome -> Time]
  BY <1>4, DocumentTypes
<1>6. /\ sync'.pc = "count" /\ sync'.saved = Without(sync.saved, s) /\ sync'.read = sync.read
      /\ sync'.todo = DOMAIN sync.saved \ { s } /\ DOMAIN sync' = DOMAIN sync
  BY <1>3 DEF SyncTimes
<1>7. /\ IsTable(sync'.saved) /\ DOMAIN sync'.saved = DOMAIN sync.saved \ { s }
      /\ \A x \in DOMAIN sync'.saved : sync'.saved[x] = sync.saved[x]
  <2>1. /\ IsTable(Without(sync.saved, s))
        /\ DOMAIN Without(sync.saved, s) = DOMAIN sync.saved \ { s }
        /\ \A x \in DOMAIN sync.saved \ { s } : Without(sync.saved, s)[x] = sync.saved[x]
    BY <1>3, TableWithout
  <2> QED BY <1>6, <2>1
<1>8. /\ IsTable(cache') /\ Cached' = Cached
      /\ \A x \in Cached : cache'[x].count = cache[x].count
  <2>0. cache' = [cache EXCEPT ![s].outcome = sync.saved[s].outcome]
    BY DEF SyncTimes
  <2>1. CASE s \in Cached
    <3>1. cache[s] \in Document
      BY <1>3, <2>1, TableAt DEF Cached
    <3>2. PICK d \in Document : /\ d = [cache[s] EXCEPT !.outcome = sync.saved[s].outcome]
                                /\ d.count = cache[s].count
      <4>1. LET d == [cache[s] EXCEPT !.outcome = sync.saved[s].outcome]
            IN  d \in Document /\ d.count = cache[s].count
        BY <1>5, <3>1 DEF Document
      <4> QED BY <4>1
    <3>3. cache' = [cache EXCEPT ![s] = d]
      BY <2>0, <3>2
    <3>4. /\ IsTable([cache EXCEPT ![s] = d]) /\ DOMAIN [cache EXCEPT ![s] = d] = DOMAIN cache
          /\ s \in DOMAIN cache => [cache EXCEPT ![s] = d][s] = d
          /\ \A x \in DOMAIN cache \ { s } : [cache EXCEPT ![s] = d][x] = cache[x]
      BY <1>3, TableExcept
    <3> QED BY <2>1, <3>2, <3>3, <3>4 DEF Cached
  <2>2. CASE s \notin Cached
    <3>1. cache \in [DOMAIN cache -> Document]
      BY <1>3, TableIs
    <3>2. cache' = cache
      BY <2>0, <2>2, <3>1 DEF Cached
    <3> QED BY <1>3, <3>2 DEF Cached
  <2> QED BY <2>1, <2>2
<1>9. /\ IsTable(db') /\ Stored' = Stored /\ \A x \in Stored : db'[x].count = db[x].count
      /\ \A x \in Stored : Advances(x)
  <2>1. CASE s \in Stored
    <3>1. db[s] \in Document
      BY <1>3, <2>1, TableAt DEF Stored
    <3>2. db[s].lnt \in Time /\ db[s].outcome \in [Outcome -> Time] /\ Time \subseteq Int
      BY <3>1, DocumentTypes
    <3>3. PICK lnt \in Time : /\ lnt = IF "lnt" \in lost THEN db[s].lnt
                                       ELSE Advance(db[s].lnt, sync.saved[s].lnt)
                              /\ lnt >= db[s].lnt
      <4>1. PICK a \in Time : a = Advance(db[s].lnt, sync.saved[s].lnt) /\ a >= db[s].lnt
        BY <1>5, <3>2, AdvanceIsForward
      <4>2. db[s].lnt >= db[s].lnt
        BY <3>2, TimeIsOrdered
      <4>3. CASE "lnt" \in lost
        BY <3>2, <4>2, <4>3
      <4>4. CASE "lnt" \notin lost
        BY <4>1, <4>4
      <4> QED BY <4>3, <4>4
    <3>4. PICK outcome \in [Outcome -> Time] :
            /\ outcome = [o \in Outcome |-> IF o \in lost THEN db[s].outcome[o]
                                            ELSE Advance(db[s].outcome[o], sync.saved[s].outcome[o])]
            /\ \A o \in Outcome : outcome[o] >= db[s].outcome[o]
      <4> DEFINE outcome == [o \in Outcome |-> IF o \in lost THEN db[s].outcome[o]
                                    ELSE Advance(db[s].outcome[o], sync.saved[s].outcome[o])]
      <4>1. ASSUME NEW o \in Outcome PROVE outcome[o] \in Time /\ outcome[o] >= db[s].outcome[o]
        <5>1. db[s].outcome[o] \in Time /\ sync.saved[s].outcome[o] \in Time
          BY <1>5, <3>2
        <5>2. PICK a \in Time : /\ a = Advance(db[s].outcome[o], sync.saved[s].outcome[o])
                                /\ a >= db[s].outcome[o]
          BY <5>1, AdvanceIsForward
        <5>3. db[s].outcome[o] >= db[s].outcome[o]
          BY <5>1, TimeIsOrdered
        <5>4. CASE o \in lost
          BY <5>1, <5>3, <5>4
        <5>5. CASE o \notin lost
          BY <5>2, <5>5
        <5> QED BY <5>4, <5>5
      <4>2. outcome \in [Outcome -> Time]
        BY <4>1
      <4> HIDE DEF outcome
      <4> QED BY <4>1, <4>2 DEF outcome
    <3>5. PICK d \in Document : /\ d = [db[s] EXCEPT !.lnt = lnt, !.outcome = outcome]
                                /\ d.count = db[s].count /\ d.lnt = lnt /\ d.outcome = outcome
      <4>1. LET d == [db[s] EXCEPT !.lnt = lnt, !.outcome = outcome]
            IN  d \in Document /\ d.count = db[s].count /\ d.lnt = lnt /\ d.outcome = outcome
        BY <3>1 DEF Document
      <4> QED BY <4>1
    <3>6. db' = [db EXCEPT ![s] = d]
      BY <1>1, <2>1, <3>1, <3>3, <3>4, <3>5 DEF Document, Stored
    <3>7. /\ IsTable([db EXCEPT ![s] = d]) /\ DOMAIN [db EXCEPT ![s] = d] = DOMAIN db
          /\ s \in DOMAIN db => [db EXCEPT ![s] = d][s] = d
          /\ \A x \in DOMAIN db \ { s } : [db EXCEPT ![s] = d][x] = db[x]
      BY <1>3, TableExcept
    <3>8. Advances(s)
      BY <2>1, <3>3, <3>4, <3>5, <3>6, <3>7 DEF Advances, Stored
    <3>9. \A x \in Stored \ { s } : Advances(x)
      BY <1>3, <3>6, <3>7, SameAdvances DEF Stored
    <3> QED BY <2>1, <3>5, <3>6, <3>7, <3>8, <3>9 DEF Stored
  <2>2. CASE s \notin Stored
    <3>1. db' = db
      BY <1>1, <2>2
    <3> QED BY <1>3, <3>1, SameAdvances DEF Stored
  <2> QED BY <2>1, <2>2
<1>10. faults' \in 0 .. MaxFaults
  BY <1>1, LostAreCounted
<1>11. DOMAIN sync.saved \subseteq Sub
  BY <1>3, TableIs
<1>12. SyncOK'
  BY <1>2, <1>3, <1>6, <1>7, <1>8, <1>11 DEF SyncOK, EmptyWhileReading
<1>13. RequestsOK' /\ TimesOK'
  BY <1>2, <1>8, <1>10, RequestsKept, TimesKept, TypeParts
<1>14. TypeInv'
  BY <1>8, <1>9, <1>12, <1>13, TypeKept
<1> QED BY <1>2, <1>4, <1>6, <1>7, <1>8, <1>9, <1>14

LEMMA SyncDoneEffect ==
  ASSUME TypeInv, SyncDone
  PROVE  /\ TypeInv' /\ sync.pc = "count" /\ sync.todo = {} /\ sync'.pc = "sleep"
         /\ DOMAIN sync'.saved = {} /\ DOMAIN sync'.read = {}
         /\ UNCHANGED << db, cache, reqSem, req, environment, history >>
<1>1. /\ sync.pc = "count" /\ sync.todo = {} /\ sync' = NoSync /\ cacheSem' = NoOne
      /\ UNCHANGED << db, cache, reqSem, req, environment, history >>
  BY DEF SyncDone
<1>2. /\ sync'.pc = "sleep" /\ sync'.saved = << >> /\ sync'.read = << >> /\ sync'.todo = {}
      /\ DOMAIN sync' = { "pc", "saved", "read", "todo" }
  BY <1>1 DEF NoSync
<1>3. Cached' = Cached /\ UNCHANGED << now, started, faults, crashes >>
  BY <1>1 DEF Cached, environment
<1>4. SyncOK'
  BY <1>1, <1>2, EmptyTable DEF SyncOK, EmptyWhileReading
<1>5. RequestsOK' /\ TimesOK'
  BY <1>1, <1>3, RequestsKept, TimesKept, TypeParts DEF TimesOK
<1>6. TypeInv'
  BY <1>1, <1>4, <1>5, TypeKept, TypeParts
<1> QED BY <1>1, <1>2, <1>6, EmptyTable

LEMMA TickEffect ==
  ASSUME TypeInv, Tick
  PROVE  /\ TypeInv'
         /\ UNCHANGED << db, cache, cacheSem, reqSem, req, sync, started, faults, crashes, history >>
<1>1. /\ now < MaxTime /\ now' = now + 1
      /\ UNCHANGED << db, cache, cacheSem, reqSem, req, sync, started, faults, crashes, history >>
  BY DEF Tick
<1>2. Cached' = Cached
  BY <1>1 DEF Cached
<1>3. now \in Nat /\ MaxTime \in Nat
  BY SubscriptionCacheAssumption DEF TypeInv, TypeOK
<1>4. \A t \in 0 .. now : t \in 0 .. now'
  BY <1>1, <1>3
<1>5. TimesOK'
  <2>1. now' \in StartTime .. MaxTime /\ started' \in StartTime .. now'
    BY <1>1, <1>3, SubscriptionCacheAssumption, TypeParts DEF TimesOK
  <2>2. lastSent' \in [Sub -> 0 .. now']
    BY <1>1, <1>4, TypeParts DEF TimesOK, history
  <2> QED BY <1>1, <2>1, <2>2, TypeParts DEF TimesOK, history
<1>6. RequestsOK'
  <2>1. \A x \in RequestRecord : x \in RequestRecord'
    BY <1>4 DEF RequestRecord
  <2> QED BY <1>1, <1>2, <2>1, TypeParts DEF RequestsOK, PointersLive
<1>7. SyncOK'
  BY <1>1, <1>2, SyncKept, TypeParts
<1> QED BY <1>1, <1>5, <1>6, <1>7, TypeKept, TypeParts

LEMMA PeerFlushEffect ==
  ASSUME TypeInv, NEW s \in Sub, PeerFlush(s)
  PROVE  /\ TypeInv' /\ s \in Stored /\ SentOne(s) /\ Stored' = Stored
         /\ db'[s].count = db[s].count + 1 /\ \A x \in Stored \ { s } : db'[x] = db[x]
         /\ \A x \in Stored : Advances(x)
         /\ UNCHANGED << cache, cacheSem, reqSem, req, sync, environment, lastSent, deleted >>
<1>1. /\ peer < MaxPeer /\ s \in Stored /\ peer' = peer + 1
      /\ sent' = [sent EXCEPT ![s] = @ + 1]
      /\ UNCHANGED << cache, cacheSem, reqSem, req, sync, environment, lastSent, deleted >>
  BY DEF PeerFlush
<1>2. IsTable(db) /\ now \in Time
  BY SubscriptionCacheAssumption, TypeParts DEF TimesOK, Time
<1>3. db[s] \in Document
  BY <1>1, <1>2, TableAt DEF Stored
<1>4. db[s].lnt \in Time /\ db[s].count \in Nat /\ db[s].outcome \in [Outcome -> Time] /\ Time \subseteq Int
  BY <1>3, DocumentTypes
<1>5. PICK lnt \in Time : lnt = Advance(db[s].lnt, now) /\ lnt >= db[s].lnt
  BY <1>2, <1>4, AdvanceIsForward
<1>6. PICK d \in Document : /\ d = [db[s] EXCEPT !.count = @ + 1, !.lnt = lnt]
                            /\ d.count = db[s].count + 1 /\ d.lnt = lnt /\ d.outcome = db[s].outcome
  <2>1. db[s].count + 1 \in Nat
    BY <1>4
  <2>2. LET d == [db[s] EXCEPT !.count = @ + 1, !.lnt = lnt]
        IN  d \in Document /\ d.count = db[s].count + 1 /\ d.lnt = lnt /\ d.outcome = db[s].outcome
    BY <1>3, <2>1 DEF Document
  <2> QED BY <2>2
<1>7. db' = [db EXCEPT ![s] = d]
  <2>1. db' = [db EXCEPT ![s].count = @ + 1, ![s].lnt = Advance(@, now)]
    BY DEF PeerFlush
  <2> QED BY <1>1, <1>3, <1>5, <1>6, <2>1 DEF Document, Stored
<1>8. /\ IsTable([db EXCEPT ![s] = d]) /\ DOMAIN [db EXCEPT ![s] = d] = DOMAIN db
      /\ s \in DOMAIN db => [db EXCEPT ![s] = d][s] = d
      /\ \A x \in DOMAIN db \ { s } : [db EXCEPT ![s] = d][x] = db[x]
  BY <1>2, TableExcept
<1>9. /\ IsTable(db') /\ Stored' = Stored /\ db'[s] = d
      /\ \A x \in Stored \ { s } : db'[x] = db[x]
  BY <1>1, <1>7, <1>8 DEF Stored
<1>10. \A x \in Stored \ { s } : Advances(x)
  BY <1>2, <1>9, SameAdvances
<1>11. Advances(s)
  BY <1>4, <1>5, <1>6, <1>9 DEF Advances
<1>12. UNCHANGED << now, started, faults, crashes >> /\ Cached' = Cached
  BY <1>1 DEF environment, Cached
<1>13. TimesOK'
  BY <1>1, <1>12, SubscriptionCacheAssumption, TypeParts DEF TimesOK
<1>14. RequestsOK' /\ SyncOK'
  BY <1>1, <1>12, RequestsKept, SyncKept, TypeParts
<1>15. TypeInv'
  BY <1>1, <1>9, <1>13, <1>14, TypeKept, TypeParts
<1>16. SentOne(s)
  BY <1>1 DEF SentOne
<1> QED BY <1>1, <1>6, <1>9, <1>10, <1>11, <1>15, <1>16

\* The broker is killed, or an exception ends it.
LEMMA RestartEffect ==
  ASSUME TypeInv, CrashAndRestart \/ \E s \in Sub : SyncException(s)
  PROVE  /\ TypeInv' /\ \A r \in Request : req'[r].pc = "idle"
         /\ Cached' = Stored /\ \A s \in Cached' : cache'[s].count = 0
         /\ reqSem' = NoOne /\ sync'.pc = "sleep"
         /\ DOMAIN sync'.saved = {} /\ DOMAIN sync'.read = {}
         /\ UNCHANGED << db, now, faults, history >>
<1>1. /\ cache' = [s \in Stored |-> FromDb(db[s])]
      /\ cacheSem' = NoOne /\ reqSem' = NoOne /\ req' = [r \in Request |-> Idle]
      /\ sync' = NoSync /\ started' = now
      /\ UNCHANGED << db, now, faults, history >>
  BY DEF CrashAndRestart, SyncException, Restart
<1>a. crashes' = crashes \/ (crashes < MaxCrashes /\ crashes' = crashes + 1)
  BY DEF CrashAndRestart, SyncException
<1>2. /\ sync'.pc = "sleep" /\ sync'.saved = << >> /\ sync'.read = << >> /\ sync'.todo = {}
      /\ DOMAIN sync' = { "pc", "saved", "read", "todo" }
  BY <1>1 DEF NoSync
<1>3. IsTable(db) /\ now \in Nat
  BY SubscriptionCacheAssumption, TypeParts DEF TimesOK
<1>4. \A s \in Stored : db[s] \in Document /\ s \in Sub
  BY <1>3, TableAt DEF Stored
<1>5. \A s \in Stored : FromDb(db[s]) \in Document /\ FromDb(db[s]).count = 0
  BY <1>4, DocumentTypes
<1>6. IsTable(cache') /\ Cached' = Stored /\ \A s \in Cached' : cache'[s].count = 0
  <2>1. cache' \in [Stored -> Document]
    BY <1>1, <1>5
  <2> QED BY <1>1, <1>4, <1>5, <2>1 DEF IsTable, Cached
<1>7. Idle \in RequestRecord /\ Idle.pc = "idle" /\ Idle.ptr = "null"
  BY <1>3, IdleType
<1>8. RequestRecord' = RequestRecord
  BY <1>1, SameRecords
<1>9. RequestsOK'
  BY <1>1, <1>7, <1>8 DEF RequestsOK, PointersLive
<1>10. SyncOK'
  BY <1>1, <1>2, EmptyTable DEF SyncOK, EmptyWhileReading
<1>11. TimesOK'
  BY <1>1, <1>a, SubscriptionCacheAssumption, TypeParts DEF TimesOK, history
<1>12. TypeInv'
  BY <1>1, <1>3, <1>6, <1>9, <1>10, <1>11, TypeKept
<1> QED BY <1>1, <1>2, <1>6, <1>7, <1>12, EmptyTable

-----------------------------------------------------------------------------
(***************************************************************************)
(* Type correctness.                                                       *)
(***************************************************************************)
LEMMA InitType == Init => TypeInv
<1> SUFFICES ASSUME Init PROVE TypeInv
  OBVIOUS
<1>1. NewDoc \in Document /\ FromDb(NewDoc) \in Document
  BY DocumentTypes
<1>2. IsTable(db) /\ IsTable(cache)
  <2>1. db \in [InitialSubs -> Document] /\ cache \in [InitialSubs -> Document]
    BY <1>1 DEF Init
  <2> QED BY <2>1, SubscriptionCacheAssumption DEF IsTable
<1>3. now \in Nat /\ TimesOK
  BY SubscriptionCacheAssumption DEF Init, TimesOK
<1>4. RequestsOK
  <2>1. Idle \in RequestRecord /\ Idle.ptr = "null"
    BY <1>3, IdleType
  <2> QED BY <2>1 DEF Init, RequestsOK, PointersLive
<1>5. SyncOK
  <2>1. /\ sync.pc = "sleep" /\ sync.saved = << >> /\ sync.read = << >> /\ sync.todo = {}
        /\ DOMAIN sync = { "pc", "saved", "read", "todo" } /\ cacheSem = NoOne
    BY DEF Init, NoSync
  <2> QED BY <2>1, EmptyTable DEF SyncOK, EmptyWhileReading
<1> QED BY <1>2, <1>3, <1>4, <1>5, TypeParts

\* The steps of Next, with the deletions under the operation that they belong to.
LEMMA RequestCases ==
  ASSUME NEW r \in Request, RequestStep(r)
  PROVE  \/ NotFound(r)
         \/ CreateBegin(r) \/ UpdateBegin(r) \/ PatchLDBegin(r) \/ GetBegin(r)
         \/ DeleteBegin(r) \/ DeleteLDBegin(r) \/ NotifyBegin(r)
         \/ PatchLDRefused(r) \/ GetFromCache(r) \/ MatchNothing(r) \/ SendNothing(r)
         \/ insertInCache(r) \/ CreateInDb(r)
         \/ UpdateLookup(r) \/ UpdateBuild(r) \/ UpdateInDb(r) \/ updateInCache(r)
         \/ PatchLDInDb(r) \/ DeleteInDb(r) \/ DeleteInCache(r)
         \/ DeleteLookupLD(r) \/ DeleteInCacheLD(r)
         \/ Match(r) \/ Send(r) \/ Record(r)
  BY DEF RequestStep

\* The control points at which the operations continue once they have begun.
LEMMA BeginPoints ==
  { "createCache", "updateLookup", "patchDb", "getCache", "deleteDb", "deleteDbLD", "match" }
    \subseteq ControlPoint \ { "idle", "arrived" }
  BY DEF ControlPoint

LEMMA EndEffect ==
  ASSUME TypeInv, NEW r \in Request,
         PatchLDRefused(r) \/ GetFromCache(r) \/ MatchNothing(r) \/ SendNothing(r)
  PROVE  /\ TypeInv' /\ Quiet /\ Ends(r)
         /\ req[r].pc \in { "patchDb", "getCache", "match", "send" }
<1>1. /\ Done(req, r) /\ UNCHANGED << db, cache, cacheSem, sync, environment, history >>
      /\ req[r].pc \in { "patchDb", "getCache", "match", "send" }
  BY DEF PatchLDRefused, GetFromCache, MatchNothing, SendNothing
<1> QED BY <1>1, QuietEnd

\* The operation a request begins, and where it goes.
Begun(r, op, pc) ==
  /\ TypeInv' /\ Quiet /\ Moves(r, pc) /\ req[r].pc = "arrived" /\ req[r].op = op
  /\ op \notin { "create", "notify" } => req[r].sub \in Stored
  /\ op \in { "update", "patchLD", "get" } => req'[r].doc = db[req[r].sub]
  /\ ReqMutex /\ UsesReqSem(op) => reqSem = NoOne /\ reqSem' = r
  /\ ~(ReqMutex /\ UsesReqSem(op)) => reqSem' = reqSem

LEMMA BegunEffect ==
  ASSUME TypeInv, NEW r \in Request,
         \/ CreateBegin(r) \/ UpdateBegin(r) \/ PatchLDBegin(r) \/ GetBegin(r)
         \/ DeleteBegin(r) \/ DeleteLDBegin(r) \/ NotifyBegin(r)
  PROVE  \/ Begun(r, "create", "createCache") \/ Begun(r, "update", "updateLookup")
         \/ Begun(r, "patchLD", "patchDb") \/ Begun(r, "get", "getCache")
         \/ Begun(r, "delete", "deleteDb") \/ Begun(r, "deleteLD", "deleteDbLD")
         \/ Begun(r, "notify", "match")
<1>1. ASSUME NEW op, NEW pc \in ControlPoint \ { "idle", "arrived" }, Begin(r, op, pc)
      PROVE  Begun(r, op, pc)
  BY <1>1, BeginEffect DEF Begun
<1> QED BY <1>1, BeginPoints
      DEF CreateBegin, UpdateBegin, PatchLDBegin, GetBegin, DeleteBegin, DeleteLDBegin, NotifyBegin

LEMMA OperationEnds ==
  ASSUME OperationInv, NEW r \in Request, Ends(r) PROVE OperationInv'
  BY DEF OperationInv, Asked, Ends, Others, Kept

LEMMA OperationMoves ==
  ASSUME OperationInv, NEW r \in Request, NEW pc, Moves(r, pc), req[r].pc # "idle",
         pc \in { "createCache", "createDb" } => req[r].op = "create",
         pc \in { "updateLookup", "updateBuild", "updateDb", "updateCache" } => req[r].op = "update",
         pc \in { "patchDb" } => req[r].op = "patchLD",
         pc \in { "deleteDb", "deleteCache" } => req[r].op = "delete",
         pc \in { "deleteDbLD", "deleteLookupLD", "deleteCacheLD" } => req[r].op = "deleteLD",
         pc \in { "match", "send", "record" } => req[r].op = "notify"
  PROVE  OperationInv'
  BY DEF OperationInv, Asked, Moves, Others, Kept

LEMMA OperationSame ==
  ASSUME OperationInv, \A q \in Request : Kept(q) PROVE OperationInv'
  BY DEF OperationInv, Asked, Kept

LEMMA SyncInvSame ==
  ASSUME SyncInv, sync' = sync PROVE SyncInv'
  BY DEF SyncInv

\* The step of a request keeps the types and the control.
LEMMA RequestControl ==
  ASSUME TypeInv, ControlInv, NEW r \in Request, Arrive(r) \/ RequestStep(r)
  PROVE  TypeInv' /\ ControlInv'
<1> USE DEF ControlInv
<1>1. CASE Arrive(r)
  <2>1. /\ TypeInv' /\ Quiet /\ Others(r) /\ req'[r].pc = "arrived" /\ req'[r].op \in Operations
    BY <1>1, ArriveEffect
  <2>2. OperationInv'
    BY <2>1 DEF OperationInv, Asked, Others, Kept
  <2> QED BY <2>1, <2>2, SyncInvSame DEF Quiet
<1>2. CASE NotFound(r)
  BY <1>2, NotFoundEffect, OperationEnds, SyncInvSame DEF Quiet
<1>3. CASE \/ CreateBegin(r) \/ UpdateBegin(r) \/ PatchLDBegin(r) \/ GetBegin(r)
           \/ DeleteBegin(r) \/ DeleteLDBegin(r) \/ NotifyBegin(r)
  <2>1. ASSUME NEW op, NEW pc, Begun(r, op, pc), pc \notin { "idle", "arrived" },
               pc \in { "createCache", "createDb" } => op = "create",
               pc \in { "updateLookup", "updateBuild", "updateDb", "updateCache" } => op = "update",
               pc \in { "patchDb" } => op = "patchLD",
               pc \in { "deleteDb", "deleteCache" } => op = "delete",
               pc \in { "deleteDbLD", "deleteLookupLD", "deleteCacheLD" } => op = "deleteLD",
               pc \in { "match", "send", "record" } => op = "notify"
        PROVE  TypeInv' /\ ControlInv'
    BY <2>1, OperationMoves, SyncInvSame DEF Quiet, Begun
  <2>2. /\ Begun(r, "create", "createCache") => TypeInv' /\ ControlInv'
        /\ Begun(r, "update", "updateLookup") => TypeInv' /\ ControlInv'
        /\ Begun(r, "patchLD", "patchDb") => TypeInv' /\ ControlInv'
        /\ Begun(r, "get", "getCache") => TypeInv' /\ ControlInv'
        /\ Begun(r, "delete", "deleteDb") => TypeInv' /\ ControlInv'
        /\ Begun(r, "deleteLD", "deleteDbLD") => TypeInv' /\ ControlInv'
        /\ Begun(r, "notify", "match") => TypeInv' /\ ControlInv'
    BY <2>1
  <2> HIDE DEF ControlInv
  <2> QED BY <1>3, <2>2, BegunEffect
<1>4. CASE PatchLDRefused(r) \/ GetFromCache(r) \/ MatchNothing(r) \/ SendNothing(r)
  BY <1>4, EndEffect, OperationEnds, SyncInvSame DEF Quiet
<1>5. CASE insertInCache(r)
  <2>1. TypeInv' /\ Moves(r, "createDb") /\ req[r].pc = "createCache" /\ sync' = sync
    BY <1>5, insertInCacheEffect
  <2>2. OperationInv'
    BY <2>1, OperationMoves DEF OperationInv, Asked
  <2> QED BY <2>1, <2>2, SyncInvSame
<1>6. CASE CreateInDb(r)
  BY <1>6, CreateInDbEffect, OperationEnds, SyncInvSame
<1>7. CASE UpdateLookup(r)
  <2>1. TypeInv' /\ Moves(r, "updateBuild") /\ req[r].pc = "updateLookup" /\ sync' = sync
    BY <1>7, UpdateLookupEffect DEF Quiet
  <2>2. OperationInv'
    BY <2>1, OperationMoves DEF OperationInv, Asked
  <2> QED BY <2>1, <2>2, SyncInvSame
<1>8. CASE UpdateBuild(r)
  <2>1. TypeInv' /\ Moves(r, "updateDb") /\ req[r].pc = "updateBuild" /\ sync' = sync
    BY <1>8, UpdateBuildEffect
  <2>2. OperationInv'
    BY <2>1, OperationMoves DEF OperationInv, Asked
  <2> QED BY <2>1, <2>2, SyncInvSame
<1>9. CASE UpdateInDb(r)
  <2>1. /\ TypeInv' /\ req[r].pc = "updateDb" /\ sync' = sync
        /\ Moves(r, "updateCache") \/ Ends(r)
    BY <1>9, UpdateInDbEffect
  <2>2. CASE Moves(r, "updateCache")
    BY <2>1, <2>2, OperationMoves, SyncInvSame DEF OperationInv, Asked
  <2>3. CASE Ends(r)
    BY <2>1, <2>3, OperationEnds, SyncInvSame
  <2> QED BY <2>1, <2>2, <2>3
<1>10. CASE updateInCache(r)
  BY <1>10, updateInCacheEffect, OperationEnds, SyncInvSame
<1>11. CASE PatchLDInDb(r)
  BY <1>11, PatchLDInDbEffect, OperationEnds, SyncInvSame
<1>12. CASE DeleteInDb(r)
  <2>1. /\ TypeInv' /\ req[r].pc \in { "deleteDb", "deleteDbLD" } /\ sync' = sync
        /\ \/ Moves(r, IF req[r].pc = "deleteDb" THEN "deleteCache" ELSE "deleteLookupLD")
           \/ Ends(r)
    BY <1>12, DeleteInDbEffect
  <2>2. CASE req[r].pc = "deleteDb" /\ Moves(r, "deleteCache")
    BY <2>1, <2>2, OperationMoves, SyncInvSame DEF OperationInv, Asked
  <2>3. CASE req[r].pc = "deleteDbLD" /\ Moves(r, "deleteLookupLD")
    BY <2>1, <2>3, OperationMoves, SyncInvSame DEF OperationInv, Asked
  <2>4. CASE Ends(r)
    BY <2>1, <2>4, OperationEnds, SyncInvSame
  <2> QED BY <2>1, <2>2, <2>3, <2>4
<1>13. CASE DeleteInCache(r) \/ DeleteInCacheLD(r)
  <2>1. PICK S : RemoveFromCache(r, S) /\ (cacheSem = NoOne \/ "deleteLD" \in Operations)
    BY <1>13 DEF DeleteInCache, DeleteInCacheLD, OperationInv, Asked
  <2> QED BY <2>1, RemoveFromCacheEffect, OperationEnds, SyncInvSame
<1>14. CASE Match(r)
  <2>1. TypeInv' /\ Moves(r, "send") /\ req[r].pc = "match" /\ sync' = sync
    BY <1>14, MatchEffect DEF Quiet
  <2>2. OperationInv'
    BY <2>1, OperationMoves DEF OperationInv, Asked
  <2> QED BY <2>1, <2>2, SyncInvSame
<1>15. CASE Send(r)
  <2>1. TypeInv' /\ Moves(r, "record") /\ req[r].pc = "send" /\ sync' = sync
    BY <1>15, SendEffect
  <2>2. OperationInv'
    BY <2>1, OperationMoves DEF OperationInv, Asked
  <2> QED BY <2>1, <2>2, SyncInvSame
<1>16. CASE Record(r)
  BY <1>16, RecordEffect, OperationEnds, SyncInvSame
<1>17. CASE DeleteLookupLD(r)
  <2>1. TypeInv' /\ Moves(r, "deleteCacheLD") /\ req[r].pc = "deleteLookupLD" /\ sync' = sync
    BY <1>17, DeleteLookupLDEffect DEF Quiet
  <2>2. OperationInv'
    BY <2>1, OperationMoves DEF OperationInv, Asked
  <2> QED BY <2>1, <2>2, SyncInvSame
<1> HIDE DEF ControlInv
<1> QED BY <1>1, <1>2, <1>3, <1>4, <1>5, <1>6, <1>7, <1>8, <1>9, <1>10, <1>11, <1>12, <1>13,
           <1>14, <1>15, <1>16, <1>17, RequestCases

\* The other steps of Next keep the types and the control.
LEMMA OtherControl ==
  ASSUME TypeInv, ControlInv,
         \/ \E s \in Sub, o \in Outcome : NotificationOutcome(s, o)
         \/ subCacheSync
         \/ Tick
         \/ \E s \in Sub : PeerFlush(s)
         \/ CrashAndRestart
  PROVE  TypeInv' /\ ControlInv'
<1> USE DEF ControlInv
<1>1. ASSUME req' = req PROVE OperationInv'
  BY <1>1, OperationSame DEF Kept
<1>2. CASE \E s \in Sub, o \in Outcome : NotificationOutcome(s, o)
  BY <1>1, <1>2, NotificationOutcomeEffect, SyncInvSame
<1>3. CASE SyncSave
  <2>1. /\ TypeInv' /\ \A q \in Request : Kept(q)
        /\ sync.pc = "sleep" /\ sync'.pc = "query" /\ sync'.read = sync.read
    BY <1>3, SyncSaveEffect
  <2> QED BY <2>1, OperationSame DEF SyncInv
<1>4. CASE SyncQuery
  <2>1. TypeInv' /\ req' = req /\ sync'.pc = "load"
    BY <1>4, SyncQueryEffect
  <2> QED BY <1>1, <2>1 DEF SyncInv
<1>5. CASE SyncLoad
  <2>1. /\ TypeInv' /\ req' = req /\ sync'.pc = "count" /\ DOMAIN sync'.read = {}
        /\ sync'.todo = DOMAIN sync'.saved
    BY <1>5, SyncLoadEffect
  <2> QED BY <1>1, <2>1 DEF SyncInv
<1>6. ASSUME NEW s \in Sub, SyncCount(s) PROVE TypeInv' /\ ControlInv'
  <2>1. /\ TypeInv' /\ req' = req /\ sync.pc = "count" /\ sync'.pc = "times" /\ sync'.read = sync.read
        /\ sync'.todo = { s } /\ sync'.saved[s].count = 0
    BY <1>6, SyncCountEffect
  <2> QED BY <1>1, <2>1 DEF SyncInv
<1>7. ASSUME NEW s \in Sub, SyncTimes(s) PROVE TypeInv' /\ ControlInv'
  <2>1. /\ TypeInv' /\ req' = req /\ sync.pc = "times" /\ sync'.pc = "count" /\ sync'.read = sync.read
        /\ sync'.todo = DOMAIN sync'.saved
    BY <1>7, SyncTimesEffect
  <2> QED BY <1>1, <2>1 DEF SyncInv
<1>8. CASE SyncDone
  <2>1. /\ TypeInv' /\ req' = req /\ sync'.pc = "sleep" /\ DOMAIN sync'.saved = {}
        /\ DOMAIN sync'.read = {}
    BY <1>8, SyncDoneEffect
  <2> QED BY <1>1, <2>1 DEF SyncInv
<1>9. CASE Tick
  BY <1>1, <1>9, TickEffect, SyncInvSame
<1>10. CASE \E s \in Sub : PeerFlush(s)
  BY <1>1, <1>10, PeerFlushEffect, SyncInvSame
<1>11. CASE CrashAndRestart \/ \E s \in Sub : SyncException(s)
  <2>1. /\ TypeInv' /\ \A r \in Request : req'[r].pc = "idle" /\ sync'.pc = "sleep"
        /\ DOMAIN sync'.saved = {} /\ DOMAIN sync'.read = {}
    BY <1>11, RestartEffect
  <2>2. SyncInv'
    BY <1>11, RestartEffect DEF SyncInv
  <2> QED BY <2>1, <2>2 DEF OperationInv, Asked
<1> HIDE DEF ControlInv
<1> QED BY <1>2, <1>3, <1>4, <1>5, <1>6, <1>7, <1>8, <1>9, <1>10, <1>11 DEF subCacheSync

LEMMA StutterControl ==
  ASSUME TypeInv, ControlInv, UNCHANGED vars PROVE TypeInv' /\ ControlInv'
<1>1. UNCHANGED << db, cache, cacheSem, reqSem, req, sync, now, started, faults, crashes,
                   sent, lastSent, peer, deleted >>
  BY DEF vars, environment, history
<1>2. Cached' = Cached /\ RequestRecord' = RequestRecord
  BY <1>1, SameRecords DEF Cached
<1>3. TypeInv'
  BY <1>1, <1>2 DEF TypeInv, TypeOK, PointersLive, EmptyWhileReading
<1>4. ControlInv'
  BY <1>1 DEF ControlInv, SyncInv, OperationInv, Asked
<1> QED BY <1>3, <1>4

LEMMA ControlInvariant == Spec => [](TypeInv /\ ControlInv)
<1>1. Init => TypeInv /\ ControlInv
  <2> SUFFICES ASSUME Init PROVE ControlInv
    BY InitType
  <2>1. sync.pc = "sleep" /\ sync.saved = << >> /\ sync.read = << >>
    BY DEF Init, NoSync
  <2>2. \A r \in Request : req[r].pc = "idle"
    BY DEF Init, Idle
  <2> QED BY <2>1, <2>2, EmptyTable DEF ControlInv, SyncInv, OperationInv, Asked
<1>2. TypeInv /\ ControlInv /\ [Next]_vars => (TypeInv /\ ControlInv)'
  BY RequestControl, OtherControl, StutterControl DEF Next
<1> QED BY <1>1, <1>2, PTL DEF Spec

(***************************************************************************)
(* For every set of operations: the types, cacheSem is the refresher's     *)
(* exactly while it synchronizes, and whoever holds reqSem is serving a    *)
(* request that uses it, so that every return of the code gives it back.   *)
(***************************************************************************)
THEOREM TypeCorrect == Spec => []TypeOK
<1>1. TypeInv => TypeOK
  BY DEF TypeInv
<1> QED BY <1>1, ControlInvariant, PTL

-----------------------------------------------------------------------------
(***************************************************************************)
(* The life of a subscription: created once, in the database at most until *)
(* a deletion has removed it, never there again once the deletion has been *)
(* confirmed.  Holds for all operations, failures and crashes.             *)
(***************************************************************************)
LifeInv == CreateInv /\ RemoveInv /\ DeletedInv

LEMMA LifeEnds ==
  ASSUME LifeInv, NEW r \in Request, Ends(r), Stored' \subseteq Stored, deleted' = deleted
  PROVE  LifeInv'
  BY DEF LifeInv, CreateInv, RemoveInv, DeletedInv, Creating, Removing, Ends, Others, Kept

LEMMA LifeMoves ==
  ASSUME LifeInv, NEW r \in Request, NEW pc, Moves(r, pc), req[r].pc # "idle", pc # "idle",
         pc = "arrived" => req[r].pc = "arrived",
         \/ pc \in { "match", "send", "record" }
         \/ req[r].pc \notin { "arrived", "match", "send", "record" }
         \/ req[r].sub \in Stored
         \/ req[r].op = "create",
         pc \in { "deleteCache", "deleteLookupLD", "deleteCacheLD" } => req[r].sub \notin Stored',
         Stored' \subseteq Stored, deleted' = deleted
  PROVE  LifeInv'
<1>1. \A q \in Request : Creating(q)' => Creating(q)
  BY DEF Creating, Moves, Others, Kept
<1>2. \A q \in Request : req'[q].sub = req[q].sub
  BY DEF Moves, Others, Kept
<1>3. CreateInv'
  <2> SUFFICES ASSUME NEW c \in Request, Creating(c)'
               PROVE  /\ req'[c].sub \notin Stored'
                      /\ \A q \in Request \ { c } : req'[q].pc # "idle" /\ req'[q].sub = req'[c].sub =>
                           /\ req'[q].pc \in { "arrived", "match", "send", "record" }
                           /\ req'[q].op # "create"
    BY DEF CreateInv
  <2>1. /\ Creating(c) /\ req[c].sub \notin Stored
        /\ \A q \in Request \ { c } : req[q].pc # "idle" /\ req[q].sub = req[c].sub =>
             req[q].pc \in { "arrived", "match", "send", "record" } /\ req[q].op # "create"
    BY <1>1 DEF LifeInv, CreateInv
  <2> QED BY <1>2, <2>1 DEF Moves, Others, Kept
<1>4. RemoveInv'
  BY <1>2 DEF LifeInv, RemoveInv, Removing, Moves, Others, Kept
<1>5. DeletedInv'
  BY <1>1, <1>2 DEF LifeInv, DeletedInv
<1> QED BY <1>3, <1>4, <1>5 DEF LifeInv

LEMMA LifeSame ==
  ASSUME LifeInv, \A q \in Request : Kept(q), Stored' \subseteq Stored, deleted' = deleted
  PROVE  LifeInv'
  BY DEF LifeInv, CreateInv, RemoveInv, DeletedInv, Creating, Removing, Kept

\* The new subscription enters the database.
LEMMA LifeCreated ==
  ASSUME LifeInv, NEW r \in Request, Ends(r), Creating(r),
         Stored' \subseteq Stored \cup { req[r].sub }, deleted' = deleted
  PROVE  LifeInv'
<1>1. /\ req[r].sub \notin Stored /\ req[r].sub \notin deleted
      /\ \A q \in Request \ { r } : req[q].pc # "idle" /\ req[q].sub = req[r].sub =>
           req[q].pc \in { "arrived", "match", "send", "record" } /\ req[q].op # "create"
  BY DEF LifeInv, CreateInv, DeletedInv
<1>2. ~Creating(r)' /\ ~Removing(r)'
  BY DEF Ends, Creating, Removing
<1>3. CreateInv'
  BY <1>1, <1>2 DEF LifeInv, CreateInv, Creating, Ends, Others, Kept
<1>4. RemoveInv'
  BY <1>1, <1>2 DEF LifeInv, RemoveInv, Removing, Ends, Others, Kept
<1>5. DeletedInv'
  BY <1>1, <1>2 DEF LifeInv, DeletedInv, Creating, Ends, Others, Kept
<1> QED BY <1>3, <1>4, <1>5 DEF LifeInv

\* The client is told that the subscription is deleted.
LEMMA LifeRemoved ==
  ASSUME LifeInv, NEW r \in Request, Ends(r), Removing(r),
         Stored' = Stored, deleted' = deleted \cup { req[r].sub }
  PROVE  LifeInv'
<1>1. req[r].sub \notin Stored /\ req[r].pc \in { "deleteCache", "deleteLookupLD", "deleteCacheLD" }
  BY DEF LifeInv, RemoveInv, Removing
<1>2. ~Creating(r)' /\ ~Removing(r)'
  BY DEF Ends, Creating, Removing
<1>3. \A q \in Request \ { r } : Creating(q) => req[q].sub # req[r].sub
  BY <1>1 DEF LifeInv, CreateInv, Creating
<1>4. CreateInv' /\ RemoveInv'
  BY <1>2 DEF LifeInv, CreateInv, RemoveInv, Creating, Removing, Ends, Others, Kept
<1>5. DeletedInv'
  BY <1>1, <1>2, <1>3 DEF LifeInv, DeletedInv, Creating, Ends, Others, Kept
<1> QED BY <1>4, <1>5 DEF LifeInv

\* A request arrives; an id that is being created is one that nobody uses.
LEMMA LifeArrives ==
  ASSUME LifeInv, NEW r \in Request, Others(r), req[r].pc = "idle", req'[r].pc = "arrived",
         req'[r].op = "create" => Fresh(req'[r].sub), Stored' = Stored, deleted' = deleted
  PROVE  LifeInv'
<1>1. ~Removing(r)'
  BY DEF Removing
<1>2. CreateInv'
  <2>1. req'[r].op = "create" =>
          /\ req'[r].sub \notin Stored \cup deleted
          /\ \A q \in Request : req[q].pc # "idle" => req[q].sub # req'[r].sub
    BY DEF Fresh
  <2> QED BY <2>1 DEF LifeInv, CreateInv, Creating, Others, Kept
<1>3. RemoveInv'
  BY <1>1 DEF LifeInv, RemoveInv, Removing, Others, Kept
<1>4. DeletedInv'
  BY DEF LifeInv, DeletedInv, Creating, Others, Kept, Fresh
<1> QED BY <1>2, <1>3, <1>4 DEF LifeInv

LEMMA RequestLife ==
  ASSUME TypeInv, ControlInv, LifeInv, NEW r \in Request, Arrive(r) \/ RequestStep(r)
  PROVE  LifeInv'
<1>0. Quiet => Stored' = Stored /\ deleted' = deleted
  BY DEF Quiet, Stored, history
<1>1. CASE Arrive(r)
  <2>1. /\ Quiet /\ Others(r) /\ req[r].pc = "idle" /\ req'[r].pc = "arrived"
        /\ req'[r].op = "create" => Fresh(req'[r].sub)
    BY <1>1, ArriveEffect
  <2> QED BY <1>0, <2>1, LifeArrives
<1>2. CASE NotFound(r)
  BY <1>0, <1>2, NotFoundEffect, LifeEnds
<1>3. CASE \/ CreateBegin(r) \/ UpdateBegin(r) \/ PatchLDBegin(r) \/ GetBegin(r)
           \/ DeleteBegin(r) \/ DeleteLDBegin(r) \/ NotifyBegin(r)
  <2>1. ASSUME NEW op, NEW pc, Begun(r, op, pc),
               pc \notin { "idle", "arrived", "deleteCache", "deleteLookupLD", "deleteCacheLD" },
               op = "notify" => pc = "match"
        PROVE  LifeInv'
    BY <1>0, <2>1, LifeMoves DEF Begun
  <2>2. /\ Begun(r, "create", "createCache") => LifeInv'
        /\ Begun(r, "update", "updateLookup") => LifeInv'
        /\ Begun(r, "patchLD", "patchDb") => LifeInv'
        /\ Begun(r, "get", "getCache") => LifeInv'
        /\ Begun(r, "delete", "deleteDb") => LifeInv'
        /\ Begun(r, "deleteLD", "deleteDbLD") => LifeInv'
        /\ Begun(r, "notify", "match") => LifeInv'
    BY <2>1
  <2> QED BY <1>3, <2>2, BegunEffect
<1>4. CASE PatchLDRefused(r) \/ GetFromCache(r) \/ MatchNothing(r) \/ SendNothing(r)
  BY <1>0, <1>4, EndEffect, LifeEnds
<1>5. CASE insertInCache(r)
  <2>1. Moves(r, "createDb") /\ req[r].pc = "createCache" /\ Stored' = Stored /\ deleted' = deleted
    BY <1>5, insertInCacheEffect DEF Stored, history
  <2> QED BY <2>1, LifeMoves
<1>6. CASE CreateInDb(r)
  <2>1. /\ Ends(r) /\ req[r].pc = "createDb" /\ deleted' = deleted
        /\ Stored' = Stored \cup { req[r].sub } \/ db' = db
    BY <1>6, CreateInDbEffect
  <2>2. Creating(r)
    BY <2>1 DEF Creating, ControlInv, OperationInv, Asked
  <2>3. Stored' \subseteq Stored \cup { req[r].sub }
    BY <2>1 DEF Stored
  <2> QED BY <2>1, <2>2, <2>3, LifeCreated
<1>7. CASE UpdateLookup(r)
  <2>1. Moves(r, "updateBuild") /\ req[r].pc = "updateLookup" /\ Quiet
    BY <1>7, UpdateLookupEffect
  <2> QED BY <1>0, <2>1, LifeMoves
<1>8. CASE UpdateBuild(r)
  <2>1. Moves(r, "updateDb") /\ req[r].pc = "updateBuild" /\ Stored' = Stored /\ deleted' = deleted
    BY <1>8, UpdateBuildEffect DEF Stored
  <2> QED BY <2>1, LifeMoves
<1>9. CASE UpdateInDb(r)
  <2>1. /\ req[r].pc = "updateDb" /\ Stored' = Stored /\ deleted' = deleted
        /\ Moves(r, "updateCache") \/ Ends(r)
    BY <1>9, UpdateInDbEffect DEF history
  <2> QED BY <2>1, LifeMoves, LifeEnds
<1>10. CASE updateInCache(r)
  <2>1. Ends(r) /\ Stored' = Stored /\ deleted' = deleted
    BY <1>10, updateInCacheEffect DEF Stored, history
  <2> QED BY <2>1, LifeEnds
<1>11. CASE PatchLDInDb(r)
  <2>1. Ends(r) /\ Stored' = Stored /\ deleted' = deleted
    BY <1>11, PatchLDInDbEffect DEF history
  <2> QED BY <2>1, LifeEnds
<1>12. CASE DeleteInDb(r)
  <2>1. PICK pc \in { "deleteCache", "deleteLookupLD" } :
          /\ req[r].pc \in { "deleteDb", "deleteDbLD" }
          /\ (Moves(r, pc) /\ req[r].sub \notin Stored') \/ Ends(r)
          /\ Stored' \subseteq Stored /\ deleted' = deleted
    BY <1>12, DeleteInDbEffect DEF history
  <2> QED BY <2>1, LifeMoves, LifeEnds
<1>13. CASE DeleteInCache(r) \/ DeleteInCacheLD(r)
  <2>1. PICK S : RemoveFromCache(r, S) /\ (cacheSem = NoOne \/ "deleteLD" \in Operations) /\ Removing(r)
    BY <1>13 DEF DeleteInCache, DeleteInCacheLD, ControlInv, OperationInv, Asked, Removing
  <2>2. Ends(r) /\ deleted' = deleted \cup { req[r].sub } /\ Stored' = Stored
    BY <2>1, RemoveFromCacheEffect DEF Stored
  <2> QED BY <2>1, <2>2, LifeRemoved
<1>14. CASE Match(r)
  <2>1. Moves(r, "send") /\ req[r].pc = "match" /\ Quiet
    BY <1>14, MatchEffect
  <2> QED BY <1>0, <2>1, LifeMoves
<1>15. CASE Send(r)
  <2>1. Moves(r, "record") /\ req[r].pc = "send" /\ Stored' = Stored /\ deleted' = deleted
    BY <1>15, SendEffect DEF Stored
  <2> QED BY <2>1, LifeMoves
<1>16. CASE Record(r)
  <2>1. Ends(r) /\ Stored' = Stored /\ deleted' = deleted
    BY <1>16, RecordEffect DEF Stored, history
  <2> QED BY <2>1, LifeEnds
<1>17. CASE DeleteLookupLD(r)
  <2>1. Moves(r, "deleteCacheLD") /\ req[r].pc = "deleteLookupLD" /\ Quiet
    BY <1>17, DeleteLookupLDEffect
  <2>2. req[r].sub \notin Stored
    BY <2>1 DEF LifeInv, RemoveInv, Removing
  <2> QED BY <1>0, <2>1, <2>2, LifeMoves
<1> QED BY <1>1, <1>2, <1>3, <1>4, <1>5, <1>6, <1>7, <1>8, <1>9, <1>10, <1>11, <1>12, <1>13,
           <1>14, <1>15, <1>16, <1>17, RequestCases

\* The steps of Next that are not those of a request.
OtherStep ==
  \/ \E s \in Sub, o \in Outcome : NotificationOutcome(s, o)
  \/ subCacheSync
  \/ Tick
  \/ \E s \in Sub : PeerFlush(s)
  \/ CrashAndRestart

LEMMA OtherLife ==
  ASSUME TypeInv, LifeInv, OtherStep
  PROVE  LifeInv'
<1>1. ASSUME req' = req, Stored' = Stored, deleted' = deleted PROVE LifeInv'
  BY <1>1, LifeSame DEF Kept
<1>2. CASE \E s \in Sub, o \in Outcome : NotificationOutcome(s, o)
  BY <1>1, <1>2, NotificationOutcomeEffect DEF Stored, history
<1>3. CASE SyncSave
  <2>1. (\A q \in Request : Kept(q)) /\ Stored' = Stored /\ deleted' = deleted
    BY <1>3, SyncSaveEffect DEF Stored, history
  <2> QED BY <2>1, LifeSame
<1>4. CASE SyncQuery
  BY <1>1, <1>4, SyncQueryEffect DEF Stored, history
<1>5. CASE SyncLoad
  BY <1>1, <1>5, SyncLoadEffect DEF Stored, history
<1>6. ASSUME NEW s \in Sub, SyncCount(s) PROVE LifeInv'
  BY <1>1, <1>6, SyncCountEffect DEF history
<1>7. ASSUME NEW s \in Sub, SyncTimes(s) PROVE LifeInv'
  BY <1>1, <1>7, SyncTimesEffect DEF history
<1>8. CASE SyncDone
  BY <1>1, <1>8, SyncDoneEffect DEF Stored, history
<1>9. CASE Tick
  BY <1>1, <1>9, TickEffect DEF Stored, history
<1>10. CASE \E s \in Sub : PeerFlush(s)
  BY <1>1, <1>10, PeerFlushEffect
<1>11. CASE CrashAndRestart \/ \E s \in Sub : SyncException(s)
  <2>1. (\A r \in Request : req'[r].pc = "idle") /\ Stored' = Stored /\ deleted' = deleted
    BY <1>11, RestartEffect DEF Stored, history
  <2> QED BY <2>1 DEF LifeInv, CreateInv, RemoveInv, DeletedInv, Creating, Removing
<1> QED BY <1>2, <1>3, <1>4, <1>5, <1>6, <1>7, <1>8, <1>9, <1>10, <1>11 DEF subCacheSync, OtherStep

LEMMA LifeInvariant == Spec => []LifeInv
<1>1. Init => LifeInv
  <2> SUFFICES ASSUME Init PROVE LifeInv
    OBVIOUS
  <2>1. (\A r \in Request : req[r].pc = "idle") /\ deleted = {}
    BY DEF Init, Idle
  <2> QED BY <2>1 DEF LifeInv, CreateInv, RemoveInv, DeletedInv, Creating, Removing
<1>2. TypeInv /\ ControlInv /\ LifeInv /\ [Next]_vars => LifeInv'
  <2> SUFFICES ASSUME TypeInv, ControlInv, LifeInv, [Next]_vars PROVE LifeInv'
    OBVIOUS
  <2>1. CASE UNCHANGED vars
    <3>1. req' = req /\ Stored' = Stored /\ deleted' = deleted
      BY <2>1 DEF vars, history, Stored
    <3> QED BY <3>1, LifeSame DEF Kept
  <2>2. CASE Next
    BY <2>2, RequestLife, OtherLife DEF Next, OtherStep
  <2> QED BY <2>1, <2>2
<1> QED BY <1>1, <1>2, ControlInvariant, PTL DEF Spec

(***************************************************************************)
(* Once a deletion is confirmed the subscription is out of the cache for   *)
(* good, whatever fails and whenever the broker is restarted, if deletions *)
(* take cacheSem; those of NGSI-LD (deleteLD) do not.  The property is not *)
(* inductive: the refresher must not have read the document before it was  *)
(* deleted, nor find it in the database later.                             *)
(***************************************************************************)
THEOREM DeletedSubscriptionsLeaveTheCache ==
  ASSUME "deleteLD" \notin Operations
  PROVE  Spec => []DeletedLeavesCache
<1>1. Init => GoneInv
  BY DEF Init, GoneInv
<1>2. TypeInv /\ ControlInv /\ LifeInv /\ GoneInv /\ [Next]_vars => GoneInv'
  <2> SUFFICES ASSUME TypeInv, ControlInv, LifeInv, GoneInv, [Next]_vars PROVE GoneInv'
    OBVIOUS
  <2>0. /\ deleted \cap Stored = {}
        /\ \A r \in Request : req[r].pc = "createCache" => req[r].sub \notin deleted
    BY DEF LifeInv, DeletedInv, Creating, ControlInv, OperationInv, Asked
  <2>1. ASSUME Cached' \subseteq Cached, sync' = sync, deleted' = deleted PROVE GoneInv'
    BY <2>1 DEF GoneInv
  <2>2. CASE UNCHANGED vars
    BY <2>1, <2>2 DEF vars, history, Cached
  <2>3. ASSUME NEW r \in Request, Arrive(r) PROVE GoneInv'
    BY <2>1, <2>3, ArriveEffect DEF Quiet, history, Cached
  <2>4. ASSUME NEW r \in Request, RequestStep(r) PROVE GoneInv'
    <3>1. CASE NotFound(r)
      BY <2>1, <3>1, NotFoundEffect DEF Quiet, history, Cached
    <3>2. CASE \/ CreateBegin(r) \/ UpdateBegin(r) \/ PatchLDBegin(r) \/ GetBegin(r)
               \/ DeleteBegin(r) \/ DeleteLDBegin(r) \/ NotifyBegin(r)
      <4>1. Quiet
        BY <3>2, BegunEffect DEF Begun
      <4> QED BY <2>1, <4>1 DEF Quiet, history, Cached
    <3>3. CASE PatchLDRefused(r) \/ GetFromCache(r) \/ MatchNothing(r) \/ SendNothing(r)
      BY <2>1, <3>3, EndEffect DEF Quiet, history, Cached
    <3>4. CASE insertInCache(r)
      <4>1. /\ Cached' = Cached \cup { req[r].sub } /\ sync' = sync /\ deleted' = deleted
            /\ req[r].pc = "createCache"
        BY <3>4, insertInCacheEffect DEF history
      <4> QED BY <2>0, <4>1 DEF GoneInv
    <3>5. CASE CreateInDb(r)
      BY <2>1, <3>5, CreateInDbEffect DEF Cached
    <3>6. CASE UpdateLookup(r)
      BY <2>1, <3>6, UpdateLookupEffect DEF Quiet, history, Cached
    <3>7. CASE UpdateBuild(r)
      BY <2>1, <3>7, UpdateBuildEffect
    <3>8. CASE UpdateInDb(r)
      BY <2>1, <3>8, UpdateInDbEffect DEF history, Cached
    <3>9. CASE updateInCache(r)
      BY <2>1, <3>9, updateInCacheEffect DEF history
    <3>10. CASE PatchLDInDb(r)
      BY <2>1, <3>10, PatchLDInDbEffect DEF history, Cached
    <3>11. CASE DeleteInDb(r)
      BY <2>1, <3>11, DeleteInDbEffect DEF history, Cached
    <3>12. CASE DeleteInCache(r)
      <4>1. RemoveFromCache(r, { req[r].sub }) /\ cacheSem = NoOne
        BY <3>12 DEF DeleteInCache
      <4>2. /\ Cached' = Cached \ { req[r].sub } /\ deleted' = deleted \cup { req[r].sub }
            /\ sync' = sync
        BY <4>1, RemoveFromCacheEffect
      <4>3. DOMAIN sync.read = {}
        BY <4>1, Sleeping, TypeParts DEF ControlInv, SyncInv
      <4> QED BY <4>2, <4>3 DEF GoneInv
    <3>13. ~DeleteLookupLD(r) /\ ~DeleteInCacheLD(r)
      BY DEF DeleteLookupLD, DeleteInCacheLD, ControlInv, OperationInv, Asked
    <3>14. CASE Match(r)
      BY <2>1, <3>14, MatchEffect DEF Quiet, history, Cached
    <3>15. CASE Send(r)
      BY <2>1, <3>15, SendEffect DEF Cached
    <3>16. CASE Record(r)
      BY <2>1, <3>16, RecordEffect DEF history
    <3> QED BY <2>4, <3>1, <3>2, <3>3, <3>4, <3>5, <3>6, <3>7, <3>8, <3>9, <3>10, <3>11, <3>12,
               <3>13, <3>14, <3>15, <3>16, RequestCases
  <2>5. CASE OtherStep
    <3>1. CASE \E s \in Sub, o \in Outcome : NotificationOutcome(s, o)
      BY <2>1, <3>1, NotificationOutcomeEffect DEF history
    <3>2. CASE SyncSave
      <4>1. Cached' = {} /\ sync'.read = sync.read /\ deleted' = deleted
        BY <3>2, SyncSaveEffect DEF history
      <4> QED BY <4>1 DEF GoneInv
    <3>3. CASE SyncQuery
      <4>1. /\ sync'.read = db \/ sync'.read = << >>
            /\ Cached' = Cached /\ deleted' = deleted
        BY <3>3, SyncQueryEffect DEF history, Cached
      <4> QED BY <2>0, <4>1, EmptyTable DEF GoneInv, Stored
    <3>4. CASE SyncLoad
      <4>1. Cached' = DOMAIN sync.read /\ DOMAIN sync'.read = {} /\ deleted' = deleted
        BY <3>4, SyncLoadEffect DEF history
      <4> QED BY <4>1 DEF GoneInv
    <3>5. ASSUME NEW s \in Sub, SyncCount(s) PROVE GoneInv'
      <4>1. Cached' = Cached /\ sync'.read = sync.read /\ deleted' = deleted
        BY <3>5, SyncCountEffect DEF history, Cached
      <4> QED BY <4>1 DEF GoneInv
    <3>6. ASSUME NEW s \in Sub, SyncTimes(s) PROVE GoneInv'
      <4>1. Cached' = Cached /\ sync'.read = sync.read /\ deleted' = deleted
        BY <3>6, SyncTimesEffect DEF history
      <4> QED BY <4>1 DEF GoneInv
    <3>7. CASE SyncDone
      <4>1. Cached' = Cached /\ DOMAIN sync'.read = {} /\ deleted' = deleted
        BY <3>7, SyncDoneEffect DEF history, Cached
      <4> QED BY <4>1 DEF GoneInv
    <3>8. CASE Tick
      BY <2>1, <3>8, TickEffect DEF history, Cached
    <3>9. CASE \E s \in Sub : PeerFlush(s)
      BY <2>1, <3>9, PeerFlushEffect DEF Cached
    <3>10. CASE CrashAndRestart \/ \E s \in Sub : SyncException(s)
      <4>1. Cached' = Stored /\ DOMAIN sync'.read = {} /\ deleted' = deleted
        BY <3>10, RestartEffect DEF history
      <4> QED BY <2>0, <4>1 DEF GoneInv
    <3> QED BY <2>5, <3>1, <3>2, <3>3, <3>4, <3>5, <3>6, <3>7, <3>8, <3>9, <3>10
            DEF OtherStep, subCacheSync
  <2> QED BY <2>2, <2>3, <2>4, <2>5 DEF Next, OtherStep
<1>3. GoneInv => DeletedLeavesCache
  BY DEF GoneInv, DeletedLeavesCache
<1> QED BY <1>1, <1>2, <1>3, ControlInvariant, LifeInvariant, PTL DEF Spec

-----------------------------------------------------------------------------
(***************************************************************************)
(* Counting.  Where the notifications of a subscription are counted: in    *)
(* its document, or in one of the places from which the count will get     *)
(* there.                                                                  *)
(***************************************************************************)
Recording(s) == { r \in Request : req[r].pc = "record" /\ req[r].sub = s }
StoredCount(s) == IF s \in Stored THEN db[s].count ELSE 0
CachedCount(s) == IF s \in Cached THEN cache[s].count ELSE 0
SavedCount(s) == IF s \in DOMAIN sync.saved THEN sync.saved[s].count ELSE 0
Pending(s) == Unrecorded(s) + CachedCount(s) + SavedCount(s)

LEMMA CountTypes ==
  ASSUME TypeInv, NEW s \in Sub
  PROVE  /\ StoredCount(s) \in Nat /\ CachedCount(s) \in Nat /\ SavedCount(s) \in Nat
         /\ Unrecorded(s) \in Nat /\ Pending(s) \in Nat /\ sent[s] \in Nat
         /\ IsFiniteSet(Recording(s))
<1>1. IsTable(db) /\ IsTable(cache) /\ IsTable(sync.saved) /\ sent \in [Sub -> Nat]
  BY TypeParts DEF SyncOK, TimesOK
<1>2. StoredCount(s) \in Nat
  <2>1. s \in DOMAIN db => db[s] \in Document
    BY <1>1, TableAt
  <2> QED BY <2>1, DocumentTypes DEF StoredCount, Stored
<1>3. CachedCount(s) \in Nat
  <2>1. s \in DOMAIN cache => cache[s] \in Document
    BY <1>1, TableAt
  <2> QED BY <2>1, DocumentTypes DEF CachedCount, Cached
<1>4. SavedCount(s) \in Nat
  <2>1. s \in DOMAIN sync.saved => sync.saved[s] \in Document
    BY <1>1, TableAt
  <2> QED BY <2>1, DocumentTypes DEF SavedCount
<1>5. IsFiniteSet(Recording(s)) /\ Unrecorded(s) \in Nat
  <2>1. IsFiniteSet(Recording(s))
    BY SubscriptionCacheAssumption, FS_Subset DEF Recording
  <2> QED BY <2>1, FS_CardinalityType DEF Recording, Unrecorded
<1> QED BY <1>1, <1>2, <1>3, <1>4, <1>5 DEF Pending

LEMMA CountTypes2 ==
  ASSUME TypeInv', NEW s \in Sub
  PROVE  /\ StoredCount(s)' \in Nat /\ CachedCount(s)' \in Nat /\ SavedCount(s)' \in Nat
         /\ Unrecorded(s)' \in Nat /\ Pending(s)' \in Nat /\ sent'[s] \in Nat
<1>1. IsTable(db') /\ IsTable(cache') /\ IsTable(sync'.saved) /\ sent' \in [Sub -> Nat]
  BY TypeParts2 DEF SyncOK, TimesOK
<1>2. StoredCount(s)' \in Nat
  <2>1. s \in DOMAIN db' => db'[s] \in Document
    BY <1>1, TableAt
  <2> QED BY <2>1, DocumentTypes DEF StoredCount, Stored
<1>3. CachedCount(s)' \in Nat
  <2>1. s \in DOMAIN cache' => cache'[s] \in Document
    BY <1>1, TableAt
  <2> QED BY <2>1, DocumentTypes DEF CachedCount, Cached
<1>4. SavedCount(s)' \in Nat
  <2>1. s \in DOMAIN sync'.saved => sync'.saved[s] \in Document
    BY <1>1, TableAt
  <2> QED BY <2>1, DocumentTypes DEF SavedCount
<1>5. Unrecorded(s)' \in Nat
  <2>1. IsFiniteSet(Recording(s)')
    BY SubscriptionCacheAssumption, FS_Subset DEF Recording
  <2> QED BY <2>1, FS_CardinalityType DEF Recording, Unrecorded
<1> QED BY <1>1, <1>2, <1>3, <1>4, <1>5 DEF Pending

LEMMA UnrecordedSame ==
  ASSUME NEW r \in Request, Others(r), req[r].pc # "record", req'[r].pc # "record", NEW s \in Sub
  PROVE  Unrecorded(s)' = Unrecorded(s)
<1>1. { q \in Request : req'[q].pc = "record" /\ req'[q].sub = s }
        = { q \in Request : req[q].pc = "record" /\ req[q].sub = s }
  BY DEF Others, Kept
<1> QED BY <1>1 DEF Unrecorded

LEMMA UnrecordedKept ==
  ASSUME \A q \in Request : Kept(q), NEW s \in Sub
  PROVE  Unrecorded(s)' = Unrecorded(s)
<1>1. { q \in Request : req'[q].pc = "record" /\ req'[q].sub = s }
        = { q \in Request : req[q].pc = "record" /\ req[q].sub = s }
  BY DEF Kept
<1> QED BY <1>1 DEF Unrecorded

LEMMA UnrecordedMore ==
  ASSUME TypeInv, NEW r \in Request, Moves(r, "record"), req[r].pc # "record", NEW s \in Sub
  PROVE  Unrecorded(s)' = IF s = req[r].sub THEN Unrecorded(s) + 1 ELSE Unrecorded(s)
<1>1. CASE s = req[r].sub
  <2>1. Recording(s)' = Recording(s) \cup { r } /\ r \notin Recording(s)
    BY <1>1 DEF Recording, Moves, Others, Kept
  <2>2. IsFiniteSet(Recording(s))
    BY CountTypes
  <2>3. Cardinality(Recording(s) \cup { r }) = Cardinality(Recording(s)) + 1
    BY <2>1, <2>2, FS_AddElement
  <2> QED BY <1>1, <2>1, <2>3 DEF Recording, Unrecorded
<1>2. CASE s # req[r].sub
  <2>1. Recording(s)' = Recording(s)
    BY <1>2 DEF Recording, Moves, Others, Kept
  <2> QED BY <1>2, <2>1 DEF Recording, Unrecorded
<1> QED BY <1>1, <1>2

LEMMA UnrecordedLess ==
  ASSUME TypeInv, NEW r \in Request, Ends(r), req[r].pc = "record", NEW s \in Sub
  PROVE  Unrecorded(s) = IF s = req[r].sub THEN Unrecorded(s)' + 1 ELSE Unrecorded(s)'
<1>1. CASE s = req[r].sub
  <2>1. Recording(s) = Recording(s)' \cup { r } /\ r \notin Recording(s)'
    BY <1>1 DEF Recording, Ends, Others, Kept
  <2>2. IsFiniteSet(Recording(s)')
    BY <2>1, CountTypes, FS_Subset
  <2>3. Cardinality(Recording(s)' \cup { r }) = Cardinality(Recording(s)') + 1
    BY <2>1, <2>2, FS_AddElement
  <2> QED BY <1>1, <2>1, <2>3 DEF Recording, Unrecorded
<1>2. CASE s # req[r].sub
  <2>1. Recording(s)' = Recording(s)
    BY <1>2 DEF Recording, Ends, Others, Kept
  <2> QED BY <1>2, <2>1 DEF Recording, Unrecorded
<1> QED BY <1>1, <1>2

\* A request that has read the document and will write it back (patchLD) or show its
\* count (get).
HasRead(r) == req[r].pc \in { "patchDb", "getCache" }

\* No count is ever invented: neither the count in the database nor one read from it
\* earlier exceeds, together with what is pending, the notifications sent.
BoundInv ==
  \A s \in Sub :
    /\ StoredCount(s) + Pending(s) <= sent[s]
    /\ \A r \in Request : HasRead(r) /\ req[r].sub = s => req[r].doc.count + Pending(s) <= sent[s]

\* What a step may do to the counts.
PendingBounded == \A s \in Sub : Pending(s)' + sent[s] <= Pending(s) + sent'[s]
StoredBounded ==
  \A s \in Sub :
    \/ StoredCount(s)' + Pending(s)' + sent[s] <= StoredCount(s) + Pending(s) + sent'[s]
    \/ \E r \in Request : HasRead(r) /\ req[r].sub = s /\ StoredCount(s)' = req[r].doc.count
ReadersBounded ==
  \A r \in Request : HasRead(r)' =>
    \/ HasRead(r) /\ req'[r].sub = req[r].sub /\ req'[r].doc = req[r].doc
    \/ req'[r].sub \in Stored /\ req'[r].doc = db[req'[r].sub]

LEMMA BoundStep ==
  ASSUME TypeInv, TypeInv', BoundInv, PendingBounded, StoredBounded, ReadersBounded
  PROVE  BoundInv'
<1> SUFFICES ASSUME NEW s \in Sub
             PROVE  /\ StoredCount(s)' + Pending(s)' <= sent'[s]
                    /\ \A r \in Request : HasRead(r)' /\ req'[r].sub = s =>
                         req'[r].doc.count + Pending(s)' <= sent'[s]
  BY DEF BoundInv
<1>1. /\ StoredCount(s) \in Nat /\ Pending(s) \in Nat /\ sent[s] \in Nat
      /\ StoredCount(s)' \in Nat /\ Pending(s)' \in Nat /\ sent'[s] \in Nat
  BY CountTypes, CountTypes2
<1>2. \A r \in Request : req[r].doc.count \in Nat
  BY RequestTypes, DocumentTypes
<1>3. /\ StoredCount(s) + Pending(s) <= sent[s]
      /\ \A r \in Request : HasRead(r) /\ req[r].sub = s => req[r].doc.count + Pending(s) <= sent[s]
  BY DEF BoundInv
<1>4. Pending(s)' + sent[s] <= Pending(s) + sent'[s]
  BY DEF PendingBounded
<1>5. StoredCount(s)' + Pending(s)' <= sent'[s]
  <2>1. CASE StoredCount(s)' + Pending(s)' + sent[s] <= StoredCount(s) + Pending(s) + sent'[s]
    BY <1>1, <1>3, <2>1
  <2>2. ASSUME NEW r \in Request, HasRead(r), req[r].sub = s, StoredCount(s)' = req[r].doc.count
        PROVE  StoredCount(s)' + Pending(s)' <= sent'[s]
    BY <1>1, <1>2, <1>3, <1>4, <2>2
  <2> QED BY <2>1, <2>2 DEF StoredBounded
<1>6. ASSUME NEW r \in Request, HasRead(r)', req'[r].sub = s
      PROVE  req'[r].doc.count + Pending(s)' <= sent'[s]
  <2>1. CASE HasRead(r) /\ req'[r].sub = req[r].sub /\ req'[r].doc = req[r].doc
    BY <1>1, <1>2, <1>3, <1>4, <1>6, <2>1
  <2>2. CASE req'[r].sub \in Stored /\ req'[r].doc = db[req'[r].sub]
    <3>1. req'[r].doc.count = StoredCount(s)
      BY <1>6, <2>2 DEF StoredCount
    <3> QED BY <1>1, <1>3, <1>4, <3>1
  <2> QED BY <1>6, <2>1, <2>2 DEF ReadersBounded
<1> QED BY <1>5, <1>6

\* The requests that do not read a document.
LEMMA ReadersSame ==
  ASSUME NEW r \in Request, Others(r), req'[r].pc \notin { "patchDb", "getCache" }
  PROVE  ReadersBounded
  BY DEF ReadersBounded, HasRead, Others, Kept

LEMMA ReadersKept ==
  ASSUME \A q \in Request : Kept(q) PROVE ReadersBounded
  BY DEF ReadersBounded, HasRead, Kept

\* The counts and the number of notifications sent stay as they are.
SameCounts ==
  \A s \in Sub : /\ StoredCount(s)' = StoredCount(s) /\ CachedCount(s)' = CachedCount(s)
                 /\ SavedCount(s)' = SavedCount(s) /\ sent'[s] = sent[s]

LEMMA QuietCounts ==
  ASSUME UNCHANGED << db, cache, sync, sent >> PROVE SameCounts
  BY DEF SameCounts, StoredCount, CachedCount, SavedCount, Stored, Cached

LEMMA BoundSame ==
  ASSUME TypeInv, TypeInv', BoundInv, SameCounts, ReadersBounded,
         \A s \in Sub : Unrecorded(s)' = Unrecorded(s)
  PROVE  BoundInv'
<1>1. \A s \in Sub : /\ StoredCount(s) \in Nat /\ Pending(s) \in Nat /\ sent[s] \in Nat
                     /\ StoredCount(s)' = StoredCount(s) /\ Pending(s)' = Pending(s)
                     /\ sent'[s] = sent[s]
  BY CountTypes DEF SameCounts, Pending
<1>2. PendingBounded /\ StoredBounded
  BY <1>1 DEF PendingBounded, StoredBounded
<1> QED BY <1>2, BoundStep

\* The counts of a step, for the subscription it is about and for the others.
LEMMA SentOneIs ==
  ASSUME TypeInv, NEW x \in Sub, SentOne(x), NEW s \in Sub
  PROVE  sent'[s] = IF s = x THEN sent[s] + 1 ELSE sent[s]
<1>1. sent \in [Sub -> Nat]
  BY DEF TypeInv, TypeOK
<1> QED BY <1>1 DEF SentOne

LEMMA NoUpdates ==
  ASSUME ControlInv, "update" \notin Operations, NEW r \in Request
  PROVE  /\ ~UpdateBegin(r) /\ ~UpdateLookup(r) /\ ~UpdateBuild(r)
         /\ ~UpdateInDb(r) /\ ~updateInCache(r)
  BY DEF ControlInv, OperationInv, Asked, UpdateBegin, Begin, UpdateLookup, UpdateBuild, UpdateInDb,
         updateInCache

LEMMA RequestBound ==
  ASSUME TypeInv, TypeInv', ControlInv, LifeInv, BoundInv, "update" \notin Operations,
         NEW r \in Request, Arrive(r) \/ RequestStep(r)
  PROVE  BoundInv'
<1>0. ASSUME Quiet, Others(r), req[r].pc # "record", req'[r].pc # "record", ReadersBounded
      PROVE  BoundInv'
  BY <1>0, UnrecordedSame, QuietCounts, BoundSame DEF Quiet, history
<1>a. ASSUME NEW s \in Sub
      PROVE  /\ StoredCount(s) \in Nat /\ CachedCount(s) \in Nat /\ SavedCount(s) \in Nat
             /\ Unrecorded(s) \in Nat /\ sent[s] \in Nat
             /\ StoredCount(s)' \in Nat /\ CachedCount(s)' \in Nat /\ SavedCount(s)' \in Nat
             /\ Unrecorded(s)' \in Nat /\ sent'[s] \in Nat
             /\ Pending(s) = Unrecorded(s) + CachedCount(s) + SavedCount(s)
             /\ Pending(s)' = Unrecorded(s)' + CachedCount(s)' + SavedCount(s)'
  BY CountTypes, CountTypes2 DEF Pending
<1>b. \A s \in Sub : sync' = sync => SavedCount(s)' = SavedCount(s)
  BY DEF SavedCount
<1>c. \A s \in Sub : db' = db => StoredCount(s)' = StoredCount(s)
  BY DEF StoredCount, Stored
<1>d. \A s \in Sub : cache' = cache => CachedCount(s)' = CachedCount(s)
  BY DEF CachedCount, Cached
<1>e. req[r].sub \in Sub
  BY RequestTypes
<1>1. CASE Arrive(r)
  <2>1. Quiet /\ Others(r) /\ req[r].pc = "idle" /\ req'[r].pc = "arrived"
    BY <1>1, ArriveEffect
  <2> QED BY <1>0, <2>1, ReadersSame
<1>2. CASE NotFound(r)
  <2>1. Quiet /\ Others(r) /\ req[r].pc = "arrived" /\ req'[r].pc = "idle"
    BY <1>2, NotFoundEffect DEF Ends
  <2> QED BY <1>0, <2>1, ReadersSame
<1>3. CASE \/ CreateBegin(r) \/ PatchLDBegin(r) \/ GetBegin(r)
           \/ DeleteBegin(r) \/ DeleteLDBegin(r) \/ NotifyBegin(r)
  <2>1. ASSUME NEW op, NEW pc, Begun(r, op, pc), pc # "record",
               pc \in { "patchDb", "getCache" } => op \in { "patchLD", "get" }
        PROVE  BoundInv'
    <3>1. Quiet /\ Others(r) /\ req[r].pc = "arrived" /\ req'[r].pc = pc
      BY <2>1 DEF Begun, Moves
    <3>2. ReadersBounded
      <4>1. CASE pc \in { "patchDb", "getCache" }
        <5>1. /\ req'[r].doc = db[req[r].sub] /\ req[r].sub \in Stored /\ req'[r].sub = req[r].sub
          BY <2>1, <4>1 DEF Begun, Moves
        <5> QED BY <3>1, <5>1 DEF ReadersBounded, HasRead, Others, Kept
      <4>2. CASE pc \notin { "patchDb", "getCache" }
        BY <3>1, <4>2, ReadersSame
      <4> QED BY <4>1, <4>2
    <3> QED BY <1>0, <2>1, <3>1, <3>2
  <2>2. /\ Begun(r, "create", "createCache") => BoundInv'
        /\ Begun(r, "update", "updateLookup") => BoundInv'
        /\ Begun(r, "patchLD", "patchDb") => BoundInv'
        /\ Begun(r, "get", "getCache") => BoundInv'
        /\ Begun(r, "delete", "deleteDb") => BoundInv'
        /\ Begun(r, "deleteLD", "deleteDbLD") => BoundInv'
        /\ Begun(r, "notify", "match") => BoundInv'
    BY <2>1
  <2> QED BY <1>3, <2>2, BegunEffect
<1>4. CASE PatchLDRefused(r) \/ GetFromCache(r) \/ MatchNothing(r) \/ SendNothing(r)
  <2>1. /\ Quiet /\ Others(r) /\ req[r].pc \in { "patchDb", "getCache", "match", "send" }
        /\ req'[r].pc = "idle"
    BY <1>4, EndEffect DEF Ends
  <2> QED BY <1>0, <2>1, ReadersSame
<1>5. CASE insertInCache(r)
  <2>1. /\ Others(r) /\ req[r].pc = "createCache" /\ req'[r].pc = "createDb"
        /\ Cached' = Cached \cup { req[r].sub } /\ cache'[req[r].sub].count = 0
        /\ \A s \in Cached \ { req[r].sub } : cache'[s] = cache[s]
        /\ UNCHANGED << db, sync, sent >>
    BY <1>5, insertInCacheEffect DEF Moves, history
  <2>2. \A s \in Sub : Unrecorded(s)' = Unrecorded(s)
    BY <2>1, UnrecordedSame
  <2>3. \A s \in Sub : CachedCount(s)' <= CachedCount(s)
    BY <1>a, <2>1 DEF CachedCount
  <2>4. PendingBounded /\ StoredBounded
    BY <1>a, <1>b, <1>c, <2>1, <2>2, <2>3 DEF PendingBounded, StoredBounded
  <2> QED BY <2>1, <2>4, BoundStep, ReadersSame
<1>6. CASE CreateInDb(r)
  <2>1. PICK n \in { 0, 1 } :
          /\ Others(r) /\ req[r].pc = "createDb" /\ req'[r].pc = "idle"
          /\ IF n = 1 THEN SentOne(req[r].sub) ELSE sent' = sent
          /\ \/ /\ Stored' = Stored \cup { req[r].sub } /\ db'[req[r].sub].count = n
                /\ \A s \in Stored \ { req[r].sub } : db'[s] = db[s]
             \/ db' = db
          /\ UNCHANGED << cache, sync >>
    BY <1>6, CreateInDbEffect DEF Ends
  <2>2. \A s \in Sub : Unrecorded(s)' = Unrecorded(s)
    BY <2>1, UnrecordedSame
  <2>3. req[r].sub \notin Stored
    BY <2>1 DEF LifeInv, CreateInv, Creating, ControlInv, OperationInv, Asked
  <2>4. \A s \in Sub : sent'[s] = IF s = req[r].sub THEN sent[s] + n ELSE sent[s]
    BY <1>a, <1>e, <2>1, SentOneIs
  <2>5. \A s \in Sub : StoredCount(s)' <= IF s = req[r].sub THEN StoredCount(s) + n ELSE StoredCount(s)
    <3>1. CASE db' = db
      BY <1>a, <1>c, <3>1
    <3>2. CASE db' # db
      BY <1>a, <2>1, <2>3, <3>2 DEF StoredCount
    <3> QED BY <3>1, <3>2
  <2>6. PendingBounded /\ StoredBounded
    BY <1>a, <1>b, <1>d, <2>1, <2>2, <2>4, <2>5 DEF PendingBounded, StoredBounded
  <2> QED BY <2>1, <2>6, BoundStep, ReadersSame
<1>7. CASE PatchLDInDb(r)
  <2>1. /\ Others(r) /\ req[r].pc = "patchDb" /\ req'[r].pc = "idle" /\ Stored' = Stored
        /\ \A s \in Stored \ { req[r].sub } : db'[s] = db[s]
        /\ req[r].sub \in Stored =>
             db'[req[r].sub].count \in { db[req[r].sub].count, req[r].doc.count }
        /\ UNCHANGED << cache, sync, sent >>
    BY <1>7, PatchLDInDbEffect DEF Ends, history
  <2>2. \A s \in Sub : Unrecorded(s)' = Unrecorded(s)
    BY <2>1, UnrecordedSame
  <2>3. \A s \in Sub : \/ StoredCount(s)' = StoredCount(s)
                       \/ s = req[r].sub /\ StoredCount(s)' = req[r].doc.count
    BY <2>1 DEF StoredCount
  <2>4. HasRead(r)
    BY <2>1 DEF HasRead
  <2>5. PendingBounded
    BY <1>a, <1>b, <1>d, <2>1, <2>2 DEF PendingBounded
  <2>6. StoredBounded
    BY <1>a, <1>b, <1>d, <2>1, <2>2, <2>3, <2>4 DEF StoredBounded
  <2> QED BY <2>1, <2>5, <2>6, BoundStep, ReadersSame
<1>8. CASE DeleteInDb(r)
  <2>1. /\ Others(r) /\ req[r].pc \in { "deleteDb", "deleteDbLD" }
        /\ req'[r].pc \in { "deleteCache", "deleteLookupLD", "idle" }
        /\ Stored' \subseteq Stored /\ \A s \in Stored' : db'[s] = db[s]
        /\ UNCHANGED << cache, sync, sent >>
    BY <1>8, DeleteInDbEffect DEF Ends, Moves, history
  <2>2. \A s \in Sub : Unrecorded(s)' = Unrecorded(s)
    BY <2>1, UnrecordedSame
  <2>3. \A s \in Sub : StoredCount(s)' <= StoredCount(s)
    BY <1>a, <2>1 DEF StoredCount
  <2>4. PendingBounded /\ StoredBounded
    BY <1>a, <1>b, <1>d, <2>1, <2>2, <2>3 DEF PendingBounded, StoredBounded
  <2> QED BY <2>1, <2>4, BoundStep, ReadersSame
<1>9. CASE DeleteInCache(r) \/ DeleteInCacheLD(r)
  <2>0. PICK S :
        /\ RemoveFromCache(r, S) /\ (cacheSem = NoOne \/ "deleteLD" \in Operations)
        /\ req[r].pc \in { "deleteCache", "deleteLookupLD", "deleteCacheLD" }
    BY <1>9 DEF DeleteInCache, DeleteInCacheLD, ControlInv, OperationInv, Asked
  <2>1. /\ Others(r) /\ req'[r].pc = "idle" /\ Cached' \subseteq Cached
        /\ \A s \in Cached' : cache'[s] = cache[s]
        /\ UNCHANGED << db, sync, sent >>
    BY <2>0, RemoveFromCacheEffect DEF Ends
  <2>2. \A s \in Sub : Unrecorded(s)' = Unrecorded(s)
    BY <2>0, <2>1, UnrecordedSame
  <2>3. \A s \in Sub : CachedCount(s)' <= CachedCount(s)
    BY <1>a, <2>1 DEF CachedCount
  <2>4. PendingBounded /\ StoredBounded
    BY <1>a, <1>b, <1>c, <2>1, <2>2, <2>3 DEF PendingBounded, StoredBounded
  <2> QED BY <2>1, <2>4, BoundStep, ReadersSame
<1>10. CASE Match(r)
  <2>1. Quiet /\ Others(r) /\ req[r].pc = "match" /\ req'[r].pc = "send"
    BY <1>10, MatchEffect DEF Moves
  <2> QED BY <1>0, <2>1, ReadersSame
<1>11. CASE Send(r)
  <2>1. /\ Moves(r, "record") /\ req[r].pc = "send" /\ SentOne(req[r].sub)
        /\ UNCHANGED << db, cache, sync >>
    BY <1>11, SendEffect
  <2>2. \A s \in Sub : Unrecorded(s)' = IF s = req[r].sub THEN Unrecorded(s) + 1 ELSE Unrecorded(s)
    BY <2>1, UnrecordedMore
  <2>3. \A s \in Sub : sent'[s] = IF s = req[r].sub THEN sent[s] + 1 ELSE sent[s]
    BY <1>e, <2>1, SentOneIs
  <2>4. PendingBounded /\ StoredBounded
    BY <1>a, <1>b, <1>c, <1>d, <2>1, <2>2, <2>3 DEF PendingBounded, StoredBounded
  <2>5. ReadersBounded
    BY <2>1, ReadersSame DEF Moves
  <2> QED BY <2>4, <2>5, BoundStep
<1>12. CASE Record(r)
  <2>1. /\ Ends(r) /\ req[r].pc = "record" /\ Cached' = Cached
        /\ \A s \in Cached \ { req[r].sub } : cache'[s] = cache[s]
        /\ req[r].sub \in Cached => cache'[req[r].sub].count = cache[req[r].sub].count + 1
        /\ UNCHANGED << db, sync, sent >>
    BY <1>12, RecordEffect DEF history
  <2>2. \A s \in Sub : Unrecorded(s) = IF s = req[r].sub THEN Unrecorded(s)' + 1 ELSE Unrecorded(s)'
    BY <2>1, UnrecordedLess
  <2>3. \A s \in Sub : CachedCount(s)' <= IF s = req[r].sub THEN CachedCount(s) + 1 ELSE CachedCount(s)
    BY <1>a, <2>1 DEF CachedCount
  <2>4. PendingBounded /\ StoredBounded
    BY <1>a, <1>b, <1>c, <2>1, <2>2, <2>3 DEF PendingBounded, StoredBounded
  <2>5. ReadersBounded
    BY <2>1, ReadersSame DEF Ends
  <2> QED BY <2>4, <2>5, BoundStep
<1>13. CASE DeleteLookupLD(r)
  <2>1. Quiet /\ Others(r) /\ req[r].pc = "deleteLookupLD" /\ req'[r].pc = "deleteCacheLD"
    BY <1>13, DeleteLookupLDEffect DEF Moves
  <2> QED BY <1>0, <2>1, ReadersSame
<1> QED BY <1>1, <1>2, <1>3, <1>4, <1>5, <1>6, <1>7, <1>8, <1>9, <1>10, <1>11, <1>12,
           <1>13, RequestCases, NoUpdates

LEMMA OtherBound ==
  ASSUME TypeInv, TypeInv', ControlInv, BoundInv, OtherStep
  PROVE  BoundInv'
<1>a. ASSUME NEW s \in Sub
      PROVE  /\ StoredCount(s) \in Nat /\ CachedCount(s) \in Nat /\ SavedCount(s) \in Nat
             /\ Unrecorded(s) \in Nat /\ sent[s] \in Nat
             /\ StoredCount(s)' \in Nat /\ CachedCount(s)' \in Nat /\ SavedCount(s)' \in Nat
             /\ Unrecorded(s)' \in Nat /\ sent'[s] \in Nat
             /\ Pending(s) = Unrecorded(s) + CachedCount(s) + SavedCount(s)
             /\ Pending(s)' = Unrecorded(s)' + CachedCount(s)' + SavedCount(s)'
  BY CountTypes, CountTypes2 DEF Pending
<1>b. \A s \in Sub : sync' = sync => SavedCount(s)' = SavedCount(s)
  BY DEF SavedCount
<1>c. \A s \in Sub : db' = db => StoredCount(s)' = StoredCount(s)
  BY DEF StoredCount, Stored
<1>d. \A s \in Sub : cache' = cache => CachedCount(s)' = CachedCount(s)
  BY DEF CachedCount, Cached
<1>e. ASSUME req' = req
      PROVE  ReadersBounded /\ \A s \in Sub : Unrecorded(s)' = Unrecorded(s)
  BY <1>e, ReadersKept, UnrecordedKept DEF Kept
<1>1. CASE \E s \in Sub, o \in Outcome : NotificationOutcome(s, o)
  <2>1. /\ Cached' = Cached /\ \A x \in Cached : cache'[x].count = cache[x].count
        /\ UNCHANGED << db, req, sync, sent >>
    BY <1>1, NotificationOutcomeEffect DEF history
  <2>2. \A s \in Sub : CachedCount(s)' = CachedCount(s)
    BY <2>1 DEF CachedCount
  <2>3. SameCounts
    BY <1>b, <1>c, <2>1, <2>2 DEF SameCounts
  <2> QED BY <1>e, <2>1, <2>3, BoundSame
<1>2. CASE SyncSave
  <2>1. /\ \A q \in Request : Kept(q)
        /\ sync.pc = "sleep" /\ sync'.saved = cache /\ Cached' = {} /\ UNCHANGED << db, sent >>
    BY <1>2, SyncSaveEffect DEF history
  <2>2. \A s \in Sub : SavedCount(s)' = CachedCount(s) /\ CachedCount(s)' = 0
    BY <2>1 DEF SavedCount, CachedCount, Cached
  <2>3. \A s \in Sub : Unrecorded(s)' = Unrecorded(s)
    BY <2>1, UnrecordedKept
  <2>4. PendingBounded /\ StoredBounded
    BY <1>a, <1>c, <2>1, <2>2, <2>3 DEF PendingBounded, StoredBounded
  <2> QED BY <2>1, <2>4, BoundStep, ReadersKept
<1>3. CASE SyncQuery
  <2>1. sync'.saved = sync.saved /\ UNCHANGED << db, cache, req, sent >>
    BY <1>3, SyncQueryEffect DEF history
  <2>2. \A s \in Sub : SavedCount(s)' = SavedCount(s)
    BY <2>1 DEF SavedCount
  <2>3. SameCounts
    BY <1>c, <1>d, <2>1, <2>2 DEF SameCounts
  <2> QED BY <1>e, <2>1, <2>3, BoundSame
<1>4. CASE SyncLoad
  <2>1. /\ \A s \in Cached' : cache'[s].count = 0
        /\ DOMAIN sync'.saved \subseteq DOMAIN sync.saved
        /\ \A s \in DOMAIN sync'.saved : sync'.saved[s].count = sync.saved[s].count
        /\ UNCHANGED << db, req, sent >>
    BY <1>4, SyncLoadEffect DEF history
  <2>2. \A s \in Sub : CachedCount(s)' = 0
    BY <2>1 DEF CachedCount
  <2>3. \A s \in Sub : SavedCount(s)' <= SavedCount(s)
    BY <1>a, <2>1 DEF SavedCount
  <2>4. PendingBounded /\ StoredBounded
    BY <1>a, <1>c, <1>e, <2>1, <2>2, <2>3 DEF PendingBounded, StoredBounded
  <2> QED BY <1>e, <2>1, <2>4, BoundStep
<1>5. ASSUME NEW x \in Sub, SyncCount(x) PROVE BoundInv'
  <2>1. /\ x \in DOMAIN sync.saved /\ DOMAIN sync'.saved = DOMAIN sync.saved
        /\ sync'.saved[x].count = 0
        /\ \A s \in DOMAIN sync.saved \ { x } : sync'.saved[s] = sync.saved[s]
        /\ Stored' = Stored /\ \A s \in Stored \ { x } : db'[s] = db[s]
        /\ x \in Stored => db'[x].count \in { db[x].count + sync.saved[x].count, db[x].count }
        /\ UNCHANGED << cache, req, sent >>
    BY <1>5, SyncCountEffect DEF history
  <2>2. \A s \in Sub : SavedCount(s)' = IF s = x THEN 0 ELSE SavedCount(s)
    BY <2>1 DEF SavedCount
  <2>3. \A s \in Sub : StoredCount(s)' <= IF s = x THEN StoredCount(s) + SavedCount(s)
                                                   ELSE StoredCount(s)
    BY <1>a, <2>1 DEF StoredCount, SavedCount
  <2>4. PendingBounded /\ StoredBounded
    BY <1>a, <1>d, <1>e, <2>1, <2>2, <2>3 DEF PendingBounded, StoredBounded
  <2> QED BY <1>e, <2>1, <2>4, BoundStep
<1>6. ASSUME NEW x \in Sub, SyncTimes(x) PROVE BoundInv'
  <2>1. /\ DOMAIN sync'.saved \subseteq DOMAIN sync.saved
        /\ \A s \in DOMAIN sync'.saved : sync'.saved[s] = sync.saved[s]
        /\ Stored' = Stored /\ \A s \in Stored : db'[s].count = db[s].count
        /\ Cached' = Cached /\ \A s \in Cached : cache'[s].count = cache[s].count
        /\ UNCHANGED << req, sent >>
    BY <1>6, SyncTimesEffect DEF history
  <2>2. \A s \in Sub : StoredCount(s)' = StoredCount(s) /\ CachedCount(s)' = CachedCount(s)
    BY <2>1 DEF StoredCount, CachedCount
  <2>3. \A s \in Sub : SavedCount(s)' <= SavedCount(s)
    BY <1>a, <2>1 DEF SavedCount
  <2>4. PendingBounded /\ StoredBounded
    BY <1>a, <1>e, <2>1, <2>2, <2>3 DEF PendingBounded, StoredBounded
  <2> QED BY <1>e, <2>1, <2>4, BoundStep
<1>7. CASE SyncDone
  <2>1. DOMAIN sync'.saved = {} /\ UNCHANGED << db, cache, req, sent >>
    BY <1>7, SyncDoneEffect DEF history
  <2>2. \A s \in Sub : SavedCount(s)' = 0
    BY <2>1 DEF SavedCount
  <2>3. PendingBounded /\ StoredBounded
    BY <1>a, <1>c, <1>d, <1>e, <2>1, <2>2 DEF PendingBounded, StoredBounded
  <2> QED BY <1>e, <2>1, <2>3, BoundStep
<1>8. CASE Tick
  <2>1. UNCHANGED << db, cache, req, sync, sent >>
    BY <1>8, TickEffect DEF history
  <2> QED BY <1>e, <2>1, QuietCounts, BoundSame
<1>9. ASSUME NEW x \in Sub, PeerFlush(x) PROVE BoundInv'
  <2>1. /\ x \in Stored /\ SentOne(x) /\ Stored' = Stored /\ db'[x].count = db[x].count + 1
        /\ \A s \in Stored \ { x } : db'[s] = db[s]
        /\ UNCHANGED << cache, req, sync >>
    BY <1>9, PeerFlushEffect
  <2>2. \A s \in Sub : sent'[s] = IF s = x THEN sent[s] + 1 ELSE sent[s]
    BY <2>1, SentOneIs
  <2>3. \A s \in Sub : StoredCount(s)' = IF s = x THEN StoredCount(s) + 1 ELSE StoredCount(s)
    BY <2>1 DEF StoredCount
  <2>4. PendingBounded /\ StoredBounded
    BY <1>a, <1>b, <1>d, <1>e, <2>1, <2>2, <2>3 DEF PendingBounded, StoredBounded
  <2> QED BY <1>e, <2>1, <2>4, BoundStep
<1>10. CASE CrashAndRestart \/ \E s \in Sub : SyncException(s)
  <2>1. /\ \A r \in Request : req'[r].pc = "idle"
        /\ \A s \in Cached' : cache'[s].count = 0
        /\ DOMAIN sync'.saved = {} /\ UNCHANGED << db, sent >>
    BY <1>10, RestartEffect DEF history
  <2>2. \A s \in Sub : CachedCount(s)' = 0 /\ SavedCount(s)' = 0
    BY <2>1 DEF CachedCount, SavedCount
  <2>3. \A s \in Sub : Unrecorded(s)' = 0
    <3>1. \A s \in Sub : { r \in Request : req'[r].pc = "record" /\ req'[r].sub = s } = {}
      BY <2>1
    <3> QED BY <3>1, FS_EmptySet DEF Unrecorded
  <2>4. PendingBounded /\ StoredBounded
    BY <1>a, <1>c, <2>1, <2>2, <2>3 DEF PendingBounded, StoredBounded
  <2>5. ReadersBounded
    BY <2>1 DEF ReadersBounded, HasRead
  <2> QED BY <2>4, <2>5, BoundStep
<1> QED BY <1>1, <1>2, <1>3, <1>4, <1>5, <1>6, <1>7, <1>8, <1>9, <1>10 DEF subCacheSync, OtherStep

LEMMA InitCounts ==
  ASSUME Init, NEW s \in Sub
  PROVE  StoredCount(s) = 0 /\ CachedCount(s) = 0 /\ SavedCount(s) = 0 /\ Unrecorded(s) = 0 /\ sent[s] = 0
<1>1. /\ db = [x \in InitialSubs |-> NewDoc] /\ cache = [x \in InitialSubs |-> FromDb(NewDoc)]
      /\ sync.saved = << >> /\ sent = [x \in Sub |-> 0]
      /\ \A r \in Request : req[r].pc = "idle"
  BY DEF Init, NoSync, Idle
<1>2. NewDoc.count = 0 /\ FromDb(NewDoc).count = 0
  BY DEF NewDoc, Fields, FromDb
<1>3. StoredCount(s) = 0 /\ CachedCount(s) = 0
  BY <1>1, <1>2 DEF StoredCount, CachedCount, Stored, Cached
<1>4. SavedCount(s) = 0
  BY <1>1, EmptyTable DEF SavedCount
<1>5. Unrecorded(s) = 0
  <2>1. { r \in Request : req[r].pc = "record" /\ req[r].sub = s } = {}
    BY <1>1
  <2> QED BY <2>1, FS_EmptySet DEF Unrecorded
<1> QED BY <1>1, <1>3, <1>4, <1>5

LEMMA BoundInvariant ==
  ASSUME "update" \notin Operations PROVE Spec => []BoundInv
<1>1. Init => BoundInv
  <2> SUFFICES ASSUME Init PROVE BoundInv
    OBVIOUS
  <2>1. \A r \in Request : ~HasRead(r)
    BY DEF Init, Idle, HasRead
  <2>2. \A s \in Sub : StoredCount(s) = 0 /\ Pending(s) = 0 /\ sent[s] = 0
    BY InitCounts DEF Pending
  <2> QED BY <2>1, <2>2 DEF BoundInv
<1>2. /\ TypeInv /\ ControlInv /\ LifeInv /\ BoundInv /\ [Next]_vars
      /\ TypeInv'
      => BoundInv'
  <2> SUFFICES ASSUME TypeInv, ControlInv, LifeInv, BoundInv, [Next]_vars, TypeInv' PROVE BoundInv'
    OBVIOUS
  <2>1. CASE UNCHANGED vars
    <3>1. UNCHANGED << db, cache, sync, req, sent >>
      BY <2>1 DEF vars, history
    <3>2. ReadersBounded /\ \A s \in Sub : Unrecorded(s)' = Unrecorded(s)
      BY <3>1, ReadersKept, UnrecordedKept DEF Kept
    <3> QED BY <3>1, <3>2, QuietCounts, BoundSame
  <2>2. CASE Next
    BY <2>2, RequestBound, OtherBound DEF Next, OtherStep
  <2> QED BY <2>1, <2>2
<1> QED BY <1>1, <1>2, ControlInvariant, LifeInvariant, PTL DEF Spec

(***************************************************************************)
(* Whatever fails and whenever the broker is killed, with any number of    *)
(* brokers on the database and with or without reqSem: no notification is  *)
(* counted twice.  Updates of NGSIv2 are excluded: mongoUpdateSubscription *)
(* writes the count of the cached item into the document, and until the    *)
(* item is replaced the refresher may add it again.                        *)
(***************************************************************************)
THEOREM NoCountIsInvented ==
  ASSUME "update" \notin Operations
  PROVE  Spec => []CountNeverInflated
<1>1. TypeInv /\ BoundInv => CountNeverInflated
  <2> SUFFICES ASSUME TypeInv, BoundInv, NEW s \in Stored PROVE Accounted(s) <= sent[s]
    BY DEF CountNeverInflated
  <2>1. s \in Sub
    BY TypeParts, TableAt DEF Stored
  <2>2. /\ Accounted(s) = StoredCount(s) + Unrecorded(s) + CachedCount(s) + SavedCount(s)
    BY DEF Accounted, StoredCount, CachedCount, SavedCount
  <2> QED BY <2>1, <2>2, CountTypes DEF BoundInv, Pending
<1> QED BY <1>1, ControlInvariant, BoundInvariant, PTL

(***************************************************************************)
(* The count shown to a client is put together from a document read before *)
(* and an item looked up after any number of steps of the refresher, and   *)
(* still shows no notification that has not been sent.                     *)
(***************************************************************************)
THEOREM NoCountIsShownTwice ==
  ASSUME "update" \notin Operations
  PROVE  Spec => []TimesSentNeverInflated
<1>1. TypeInv /\ BoundInv => TimesSentNeverInflated
  <2> SUFFICES ASSUME TypeInv, BoundInv, NEW r \in Request, req[r].pc = "getCache"
               PROVE  TimesSent(r) <= sent[req[r].sub]
    BY DEF TimesSentNeverInflated
  <2> DEFINE s == req[r].sub
  <2>1. s \in Sub /\ req[r].doc.count \in Nat
    BY RequestTypes, DocumentTypes
  <2>2. TimesSent(r) = req[r].doc.count + CachedCount(s)
    BY DEF TimesSent, CachedCount
  <2>3. req[r].doc.count + Pending(s) <= sent[s]
    BY <2>1 DEF BoundInv, HasRead
  <2> HIDE DEF s
  <2>4. Pending(s) >= CachedCount(s) /\ Pending(s) \in Nat /\ CachedCount(s) \in Nat /\ sent[s] \in Nat
    BY <2>1, CountTypes DEF Pending
  <2>5. TimesSent(r) <= sent[s]
    BY <2>1, <2>2, <2>3, <2>4
  <2> QED BY <2>5 DEF s
<1> QED BY <1>1, ControlInvariant, BoundInvariant, PTL

-----------------------------------------------------------------------------
(***************************************************************************)
(* The times in the database.                                              *)
(***************************************************************************)
LEMMA NoRewrites ==
  ASSUME ControlInv, Operations \cap { "update", "patchLD" } = {}, NEW r \in Request
  PROVE  ~UpdateInDb(r) /\ ~PatchLDInDb(r)
  BY DEF ControlInv, OperationInv, Asked, UpdateInDb, PatchLDInDb

LEMMA StepAdvances ==
  ASSUME TypeInv, ControlInv, LifeInv, Operations \cap { "update", "patchLD" } = {}, [Next]_vars
  PROVE  \A s \in Stored \cap Stored' : Advances(s)
<1>1. ASSUME \A s \in Stored \cap Stored' : db'[s] = db[s]
      PROVE  \A s \in Stored \cap Stored' : Advances(s)
  BY <1>1, SameAdvances, TypeParts
<1>2. CASE db' = db
  BY <1>1, <1>2 DEF Stored
<1>3. ASSUME NEW r \in Request, Arrive(r) \/ RequestStep(r)
      PROVE  \A s \in Stored \cap Stored' : Advances(s)
  <2>1. CASE CreateInDb(r)
    <3>1. req[r].sub \notin Stored
      BY <2>1 DEF CreateInDb, LifeInv, CreateInv, Creating, ControlInv, OperationInv, Asked
    <3>2. \/ Stored' = Stored \cup { req[r].sub } /\ \A s \in Stored \ { req[r].sub } : db'[s] = db[s]
          \/ db' = db
      BY <2>1, CreateInDbEffect
    <3> QED BY <1>1, <1>2, <3>1, <3>2
  <2>2. CASE DeleteInDb(r)
    BY <1>1, <2>2, DeleteInDbEffect
  <2>3. CASE ~CreateInDb(r) /\ ~DeleteInDb(r)
    <3>1. db' = db
      BY <1>3, <2>3, NoRewrites, RequestCases
         DEF Arrive, NotFound, CreateBegin, UpdateBegin, PatchLDBegin, GetBegin, DeleteBegin,
             DeleteLDBegin, NotifyBegin, Begin, PatchLDRefused, GetFromCache, MatchNothing,
             SendNothing, insertInCache, UpdateLookup, UpdateBuild, updateInCache, DeleteInCache,
             DeleteLookupLD, DeleteInCacheLD, RemoveFromCache, Match, Send, Record
    <3> QED BY <1>2, <3>1
  <2> QED BY <2>1, <2>2, <2>3
<1>4. CASE subCacheSync
  <2>1. CASE \E x \in Sub : SyncCount(x) \/ SyncTimes(x)
    BY <2>1, SyncCountEffect, SyncTimesEffect
  <2>2. CASE SyncSave \/ SyncQuery \/ SyncLoad \/ SyncDone \/ \E x \in Sub : SyncException(x)
    BY <1>2, <2>2 DEF SyncSave, SyncQuery, SyncLoad, SyncDone, SyncException, Restart
  <2> QED BY <1>4, <2>1, <2>2 DEF subCacheSync
<1>5. CASE \E x \in Sub : PeerFlush(x)
  BY <1>5, PeerFlushEffect
<1>6. CASE \/ \E s \in Sub, o \in Outcome : NotificationOutcome(s, o)
           \/ Tick \/ CrashAndRestart \/ UNCHANGED vars
  BY <1>2, <1>6 DEF NotificationOutcome, Tick, CrashAndRestart, Restart, vars
<1> QED BY <1>3, <1>4, <1>5, <1>6 DEF Next

(***************************************************************************)
(* No time in the database goes back, whatever fails, with any number of   *)
(* brokers that flush theirs.  The operations that replace a document by   *)
(* one they read earlier are excluded: they put back the old times.        *)
(***************************************************************************)
THEOREM StoredTimesNeverGoBack ==
  ASSUME Operations \cap { "update", "patchLD" } = {}
  PROVE  Spec => StoredTimesMonotonic
<1>1. TypeInv /\ ControlInv /\ LifeInv /\ [Next]_vars
        => [\A s \in DOMAIN db \cap DOMAIN db' :
              /\ db'[s].lnt >= db[s].lnt
              /\ \A o \in Outcome : db'[s].outcome[o] >= db[s].outcome[o]]_vars
  BY StepAdvances DEF Stored, Advances
<1> QED BY <1>1, ControlInvariant, LifeInvariant, PTL DEF Spec, StoredTimesMonotonic

-----------------------------------------------------------------------------
(***************************************************************************)
(* With -reqMutexPolicy write, and without failures and restarts, no count *)
(* is lost either.  A count is lost when the item or the document it is    *)
(* for is not there: what follows is why it is.                            *)
(***************************************************************************)
\* reqSem serializes the requests that use it.
Holding(r) == req[r].pc \notin { "idle", "arrived" } /\ UsesReqSem(req[r].op)
SemInv == \A r \in Request : Holding(r) => reqSem = r

\* The subscriptions that have been in the database, and the one being inserted.
Known(s) == s \in Stored \/ s \in deleted \/ \E r \in Request : Removing(r) /\ req[r].sub = s
Inserted(s) == \E r \in Request : req[r].pc = "createDb" /\ req[r].sub = s
Notifying(r) == req[r].pc \in { "send", "record" }

\* Only subscriptions that have been in the database are read and notified.
KnownInv ==
  /\ \A s \in DOMAIN sync.read : Known(s)
  /\ \A s \in Cached : Known(s) \/ Inserted(s)
  /\ \A r \in Request : Notifying(r) => Known(req[r].sub)
  /\ \A s \in Sub : sent[s] > 0 => Known(s)

\* The cache has the item of s whenever cacheSem is free, now or once the refresher has
\* loaded what it has read.
Findable(s) == /\ sync.pc \in { "sleep", "count", "times" } => s \in Cached
               /\ sync.pc = "load" => s \in DOMAIN sync.read

HeldInv ==
  /\ \A r \in Request : Notifying(r) /\ req[r].sub \in Stored => Findable(req[r].sub)
  /\ sync.pc = "load" => \A s \in Stored : SavedCount(s) > 0 => s \in DOMAIN sync.read

LowerInv == \A s \in Stored : StoredCount(s) + Pending(s) >= sent[s]

NoFailures == ReqMutex /\ MaxFaults = 0 /\ MaxCrashes = 0 /\ LdSub = {}

LEMMA SemEnds ==
  ASSUME SemInv, NEW r \in Request, Ends(r) PROVE SemInv'
  BY DEF SemInv, Holding, Ends, Others, Kept

LEMMA SemMoves ==
  ASSUME SemInv, NEW r \in Request, NEW pc, Moves(r, pc), reqSem' = reqSem,
         req[r].pc \notin { "idle", "arrived" } \/ ~UsesReqSem(req[r].op)
  PROVE  SemInv'
  BY DEF SemInv, Holding, Moves, Others, Kept

LEMMA SemArrives ==
  ASSUME SemInv, NEW r \in Request, Others(r), req'[r].pc = "arrived", reqSem' = reqSem
  PROVE  SemInv'
  BY DEF SemInv, Holding, Others, Kept

LEMMA SemSame ==
  ASSUME SemInv, \A q \in Request : Kept(q), reqSem' = reqSem PROVE SemInv'
  BY DEF SemInv, Holding, Kept

LEMMA SemBegins ==
  ASSUME SemInv, NEW r \in Request, NEW op, NEW pc, Begun(r, op, pc), ReqMutex PROVE SemInv'
<1>1. /\ Moves(r, pc) /\ req[r].pc = "arrived" /\ req[r].op = op
      /\ UsesReqSem(op) => reqSem = NoOne /\ reqSem' = r
      /\ ~UsesReqSem(op) => reqSem' = reqSem
  BY DEF Begun
<1>2. CASE UsesReqSem(op)
  <2>1. \A q \in Request : ~Holding(q)
    BY <1>1, <1>2, SubscriptionCacheAssumption DEF SemInv
  <2> QED BY <1>1, <1>2, <2>1 DEF SemInv, Holding, Moves, Others, Kept
<1>3. CASE ~UsesReqSem(op)
  BY <1>1, <1>3, SemMoves
<1> QED BY <1>2, <1>3

LEMMA RequestSem ==
  ASSUME TypeInv, ControlInv, SemInv, ReqMutex, "update" \notin Operations,
         NEW r \in Request, Arrive(r) \/ RequestStep(r)
  PROVE  SemInv'
<1>1. CASE Arrive(r)
  BY <1>1, ArriveEffect, SemArrives
<1>2. CASE NotFound(r)
  BY <1>2, NotFoundEffect, SemEnds
<1>3. CASE \/ CreateBegin(r) \/ UpdateBegin(r) \/ PatchLDBegin(r) \/ GetBegin(r)
           \/ DeleteBegin(r) \/ DeleteLDBegin(r) \/ NotifyBegin(r)
  BY <1>3, BegunEffect, SemBegins
<1>4. CASE PatchLDRefused(r) \/ GetFromCache(r) \/ MatchNothing(r) \/ SendNothing(r)
  BY <1>4, EndEffect, SemEnds
<1>5. CASE insertInCache(r)
  <2>1. Moves(r, "createDb") /\ req[r].pc = "createCache" /\ reqSem' = reqSem
    BY <1>5, insertInCacheEffect
  <2> QED BY <2>1, SemMoves
<1>6. CASE CreateInDb(r)
  BY <1>6, CreateInDbEffect, SemEnds
<1>7. CASE PatchLDInDb(r)
  BY <1>7, PatchLDInDbEffect, SemEnds
<1>8. CASE DeleteInDb(r)
  <2>1. PICK pc : /\ req[r].pc \in { "deleteDb", "deleteDbLD" }
                  /\ (Moves(r, pc) /\ reqSem' = reqSem) \/ Ends(r)
    BY <1>8, DeleteInDbEffect
  <2> QED BY <2>1, SemMoves, SemEnds
<1>9. CASE DeleteInCache(r) \/ DeleteInCacheLD(r)
  <2>1. PICK S : RemoveFromCache(r, S) /\ (cacheSem = NoOne \/ "deleteLD" \in Operations)
    BY <1>9 DEF DeleteInCache, DeleteInCacheLD, ControlInv, OperationInv, Asked
  <2> QED BY <2>1, RemoveFromCacheEffect, SemEnds
<1>10. CASE Match(r)
  <2>1. Moves(r, "send") /\ req[r].pc = "match" /\ reqSem' = reqSem
    BY <1>10, MatchEffect
  <2> QED BY <2>1, SemMoves
<1>11. CASE Send(r)
  <2>1. Moves(r, "record") /\ req[r].pc = "send" /\ reqSem' = reqSem
    BY <1>11, SendEffect
  <2> QED BY <2>1, SemMoves
<1>12. CASE Record(r)
  BY <1>12, RecordEffect, SemEnds
<1>13. CASE DeleteLookupLD(r)
  <2>1. Moves(r, "deleteCacheLD") /\ req[r].pc = "deleteLookupLD" /\ reqSem' = reqSem
    BY <1>13, DeleteLookupLDEffect
  <2> QED BY <2>1, SemMoves
<1> QED BY <1>1, <1>2, <1>3, <1>4, <1>5, <1>6, <1>7, <1>8, <1>9, <1>10, <1>11, <1>12,
           <1>13, RequestCases, NoUpdates

\* While a request creates a subscription or notifies, no other request does.
LEMMA Exclusive ==
  ASSUME ControlInv, SemInv, NEW r \in Request, NEW q \in Request,
         req[r].pc \in { "createCache", "createDb", "match", "send", "record" },
         req[q].pc \in { "createCache", "createDb", "match", "send", "record" }
  PROVE  q = r
<1>1. Holding(r) /\ Holding(q)
  BY DEF Holding, UsesReqSem, ControlInv, OperationInv, Asked
<1> QED BY <1>1 DEF SemInv

\* Nothing is known of a subscription that is being created.
LEMMA CreatedUnknown ==
  ASSUME TypeInv, ControlInv, LifeInv, BoundInv, KnownInv, NEW r \in Request, Creating(r)
  PROVE  /\ ~Known(req[r].sub) /\ req[r].sub \in Sub /\ sent[req[r].sub] = 0
         /\ SavedCount(req[r].sub) = 0
<1> DEFINE s == req[r].sub
<1>1. s \in Sub
  BY RequestTypes
<1>2. ~Known(s)
  <2>1. \A q \in Request : Removing(q) => req[q].sub # s
    BY DEF Creating, Removing, LifeInv, CreateInv, ControlInv, OperationInv, Asked
  <2> QED BY <2>1 DEF Known, LifeInv, CreateInv, DeletedInv
<1> HIDE DEF s
<1>3. /\ sent[s] \in Nat /\ StoredCount(s) \in Nat /\ SavedCount(s) \in Nat /\ Unrecorded(s) \in Nat
      /\ CachedCount(s) \in Nat /\ StoredCount(s) + Pending(s) <= sent[s]
  BY <1>1, CountTypes DEF BoundInv
<1>4. sent[s] = 0
  BY <1>1, <1>2, <1>3 DEF KnownInv
<1>5. SavedCount(s) = 0
  BY <1>3, <1>4 DEF Pending
<1> QED BY <1>1, <1>2, <1>4, <1>5 DEF s

(***************************************************************************)
(* What a step must do for each part.                                      *)
(***************************************************************************)
LEMMA KnownStep ==
  ASSUME TypeInv, TypeInv', KnownInv,
         \A s \in Sub : Known(s) => Known(s)',
         \A s \in DOMAIN sync'.read : s \in DOMAIN sync.read \/ s \in Stored,
         \A s \in Cached' : s \in Cached \/ s \in DOMAIN sync.read \/ s \in Stored \/ Inserted(s)',
         \A s \in Sub : Inserted(s) => Inserted(s)' \/ Known(s)',
         \A r \in Request : Notifying(r)' =>
           (Notifying(r) /\ req'[r].sub = req[r].sub) \/ Known(req'[r].sub),
         \A s \in Sub : sent'[s] = sent[s] \/ Known(s)'
  PROVE  KnownInv'
<1>1. /\ \A s \in DOMAIN sync.read : s \in Sub
      /\ \A s \in DOMAIN sync'.read : s \in Sub
      /\ \A s \in Cached' : s \in Sub
      /\ \A s \in Cached : s \in Sub
      /\ \A r \in Request : req'[r].sub \in Sub /\ req[r].sub \in Sub
  <2>1. IsTable(sync.read) /\ IsTable(sync'.read) /\ IsTable(cache) /\ IsTable(cache')
    BY TypeParts, TypeParts2 DEF SyncOK
  <2>2. \A r \in Request : req'[r].sub \in Sub /\ req[r].sub \in Sub
    BY RequestTypes DEF TypeInv, TypeOK, RequestRecord
  <2> QED BY <2>1, <2>2, TableAt DEF Cached
<1>2. \A s \in Sub : s \in Stored => Known(s)
  BY DEF Known
<1>3. \A s \in DOMAIN sync'.read : Known(s)'
  BY <1>1, <1>2 DEF KnownInv
<1>4. \A s \in Cached' : Known(s)' \/ Inserted(s)'
  BY <1>1, <1>2 DEF KnownInv
<1>5. \A r \in Request : Notifying(r)' => Known(req[r].sub)'
  BY <1>1 DEF KnownInv
<1>6. \A s \in Sub : sent'[s] > 0 => Known(s)'
  BY DEF KnownInv
<1> QED BY <1>3, <1>4, <1>5, <1>6 DEF KnownInv

LEMMA LowerStep ==
  ASSUME TypeInv, TypeInv', LowerInv,
         \A s \in Stored' : s \in Stored =>
           StoredCount(s) + Pending(s) + sent'[s] <= StoredCount(s)' + Pending(s)' + sent[s],
         \A s \in Stored' : s \notin Stored => sent'[s] <= StoredCount(s)'
  PROVE  LowerInv'
<1> SUFFICES ASSUME NEW s \in Stored' PROVE StoredCount(s)' + Pending(s)' >= sent'[s]
  BY DEF LowerInv
<1>1. s \in Sub
  BY TypeParts2, TableAt DEF Stored
<1>2. /\ StoredCount(s) \in Nat /\ Pending(s) \in Nat /\ sent[s] \in Nat
      /\ StoredCount(s)' \in Nat /\ Pending(s)' \in Nat /\ sent'[s] \in Nat
  BY <1>1, CountTypes, CountTypes2
<1>3. CASE s \in Stored
  BY <1>2, <1>3 DEF LowerInv
<1>4. CASE s \notin Stored
  BY <1>2, <1>4
<1> QED BY <1>3, <1>4

LEMMA LowerSame ==
  ASSUME TypeInv, TypeInv', LowerInv, Stored' = Stored, SameCounts,
         \A s \in Sub : Unrecorded(s)' = Unrecorded(s)
  PROVE  LowerInv'
<1>1. \A s \in Sub : /\ StoredCount(s) \in Nat /\ Pending(s) \in Nat /\ sent[s] \in Nat
                     /\ StoredCount(s)' = StoredCount(s) /\ Pending(s)' = Pending(s)
                     /\ sent'[s] = sent[s]
  BY CountTypes DEF SameCounts, Pending
<1>2. \A s \in Stored : s \in Sub
  BY TypeParts, TableAt DEF Stored
<1> QED BY <1>1, <1>2, LowerStep

\* Steps that leave the set of requests that notify, and what they need, alone.
LEMMA HeldStep ==
  ASSUME HeldInv, \A r \in Request : Notifying(r)' => Notifying(r) /\ req'[r].sub = req[r].sub,
         Stored' \subseteq Stored, sync'.pc = sync.pc, sync'.read = sync.read,
         sync'.saved = sync.saved, Cached \cap Stored' \subseteq Cached'
  PROVE  HeldInv'
<1>1. sync'.pc = "load" => \A s \in Stored' : SavedCount(s)' > 0 => s \in DOMAIN sync'.read
  BY DEF HeldInv, SavedCount
<1>2. \A r \in Request : Notifying(r)' /\ req'[r].sub \in Stored' => Findable(req[r].sub)'
  BY DEF HeldInv, Findable
<1> QED BY <1>1, <1>2 DEF HeldInv

\* Steps of a request that has nothing to do with the counts.
LEMMA QuietExact ==
  ASSUME TypeInv, TypeInv', KnownInv, HeldInv, LowerInv, NEW r \in Request, Quiet, Others(r),
         req[r].pc \notin { "createDb", "record", "deleteCache", "deleteLookupLD", "deleteCacheLD" },
         req'[r].pc \notin { "send", "record" }
  PROVE  KnownInv' /\ HeldInv' /\ LowerInv'
<1>1. UNCHANGED << db, cache, sync, sent, deleted >> /\ Stored' = Stored /\ Cached' = Cached
  BY DEF Quiet, history, Stored, Cached
<1>2. \A q \in Request : Notifying(q)' => Notifying(q) /\ req'[q].sub = req[q].sub
  BY DEF Notifying, Others, Kept
<1>3. \A s \in Sub : (Known(s) => Known(s)') /\ (Inserted(s) => Inserted(s)')
  BY <1>1 DEF Known, Inserted, Removing, Others, Kept
<1>4. KnownInv'
  BY <1>1, <1>2, <1>3, KnownStep
<1>5. HeldInv'
  BY <1>1, <1>2, HeldStep
<1>6. \A s \in Sub : Unrecorded(s)' = Unrecorded(s)
  BY UnrecordedSame
<1>7. LowerInv'
  BY <1>1, <1>6, QuietCounts, LowerSame
<1> QED BY <1>4, <1>5, <1>7

LEMMA RequestExact ==
  ASSUME TypeInv, TypeInv', ControlInv, LifeInv, BoundInv, SemInv, KnownInv, HeldInv, LowerInv,
         NoFailures, Operations \cap { "update", "patchLD", "deleteLD" } = {},
         NEW r \in Request, Arrive(r) \/ RequestStep(r)
  PROVE  KnownInv' /\ HeldInv' /\ LowerInv'
<1>a. ASSUME NEW s \in Sub
      PROVE  /\ StoredCount(s) \in Nat /\ CachedCount(s) \in Nat /\ SavedCount(s) \in Nat
             /\ Unrecorded(s) \in Nat /\ sent[s] \in Nat
             /\ StoredCount(s)' \in Nat /\ CachedCount(s)' \in Nat /\ SavedCount(s)' \in Nat
             /\ Unrecorded(s)' \in Nat /\ sent'[s] \in Nat
             /\ Pending(s) = Unrecorded(s) + CachedCount(s) + SavedCount(s)
             /\ Pending(s)' = Unrecorded(s)' + CachedCount(s)' + SavedCount(s)'
  BY CountTypes, CountTypes2 DEF Pending
<1>b. \A s \in Sub : sync' = sync => SavedCount(s)' = SavedCount(s)
  BY DEF SavedCount
<1>c. \A s \in Sub : db' = db => StoredCount(s)' = StoredCount(s)
  BY DEF StoredCount, Stored
<1>d. \A s \in Sub : cache' = cache => CachedCount(s)' = CachedCount(s)
  BY DEF CachedCount, Cached
<1>e. req[r].sub \in Sub /\ (\A s \in Stored : s \in Sub) /\ (\A s \in Stored' : s \in Sub)
  BY RequestTypes, TypeParts, TypeParts2, TableAt DEF Stored
<1>f. ~(faults < MaxFaults)
  BY DEF NoFailures, TypeInv, TypeOK
<1>1. CASE Arrive(r)
  <2>1. Quiet /\ Others(r) /\ req[r].pc = "idle" /\ req'[r].pc = "arrived"
    BY <1>1, ArriveEffect
  <2> QED BY <2>1, QuietExact
<1>2. CASE NotFound(r)
  <2>1. Quiet /\ Others(r) /\ req[r].pc = "arrived" /\ req'[r].pc = "idle"
    BY <1>2, NotFoundEffect DEF Ends
  <2> QED BY <2>1, QuietExact
<1>3. CASE \/ CreateBegin(r) \/ UpdateBegin(r) \/ PatchLDBegin(r) \/ GetBegin(r)
           \/ DeleteBegin(r) \/ DeleteLDBegin(r) \/ NotifyBegin(r)
  <2>1. ASSUME NEW op, NEW pc, Begun(r, op, pc), pc \notin { "send", "record" }
        PROVE  KnownInv' /\ HeldInv' /\ LowerInv'
    <3>1. Quiet /\ Others(r) /\ req[r].pc = "arrived" /\ req'[r].pc = pc
      BY <2>1 DEF Begun, Moves
    <3> QED BY <2>1, <3>1, QuietExact
  <2> QED BY <1>3, <2>1, BegunEffect
<1>4. CASE PatchLDRefused(r) \/ GetFromCache(r) \/ MatchNothing(r) \/ SendNothing(r)
  <2>1. /\ Quiet /\ Others(r) /\ req[r].pc \in { "patchDb", "getCache", "match", "send" }
        /\ req'[r].pc = "idle"
    BY <1>4, EndEffect DEF Ends
  <2> QED BY <2>1, QuietExact
<1>5. CASE insertInCache(r)
  <2>1. /\ Others(r) /\ req[r].pc = "createCache" /\ req'[r].pc = "createDb"
        /\ req'[r].sub = req[r].sub
        /\ Cached' = Cached \cup { req[r].sub } /\ cache'[req[r].sub].count = 0
        /\ \A s \in Cached \ { req[r].sub } : cache'[s] = cache[s]
        /\ UNCHANGED << db, sync, sent, deleted >>
    BY <1>5, insertInCacheEffect DEF Moves, history
  <2>2. Stored' = Stored
    BY <2>1 DEF Stored
  <2>3. \A q \in Request : Notifying(q)' => Notifying(q) /\ req'[q].sub = req[q].sub
    BY <2>1 DEF Notifying, Others, Kept
  <2>4. \A s \in Sub : (Known(s) => Known(s)') /\ (Inserted(s) => Inserted(s)')
    BY <2>1, <2>2 DEF Known, Inserted, Removing, Others, Kept
  <2>5. Inserted(req[r].sub)'
    BY <2>1 DEF Inserted
  <2>6. KnownInv'
    <3>1. \A s \in Cached' : s \in Cached \/ Inserted(s)'
      BY <2>1, <2>5
    <3>2. \A s \in DOMAIN sync'.read : s \in DOMAIN sync.read
      BY <2>1
    <3> QED BY <2>1, <2>3, <2>4, <3>1, <3>2, KnownStep
  <2>7. HeldInv'
    BY <2>1, <2>2, <2>3, HeldStep
  <2>8. req[r].sub \notin Stored
    BY <2>1 DEF LifeInv, CreateInv, Creating, ControlInv, OperationInv, Asked
  <2>9. \A s \in Sub : Unrecorded(s)' = Unrecorded(s)
    BY <2>1, UnrecordedSame
  <2>10. \A s \in Stored : CachedCount(s)' = CachedCount(s)
    BY <2>1, <2>8 DEF CachedCount
  <2>11. LowerInv'
    BY <1>a, <1>b, <1>c, <1>e, <2>1, <2>2, <2>9, <2>10, LowerStep
  <2> QED BY <2>6, <2>7, <2>11
<1>6. CASE CreateInDb(r)
  <2>0. PICK x \in Sub : x = req[r].sub
    BY <1>e
  <2>1. PICK n \in { 0, 1 } :
          /\ Others(r) /\ req[r].pc = "createDb" /\ req'[r].pc = "idle"
          /\ IF n = 1 THEN SentOne(req[r].sub) ELSE sent' = sent
          /\ Stored' = Stored \cup { req[r].sub } /\ db'[req[r].sub].count = n
          /\ \A s \in Stored \ { req[r].sub } : db'[s] = db[s]
          /\ UNCHANGED << cache, sync, deleted >>
    BY <1>6, <1>f, CreateInDbEffect DEF Ends
  <2>2. Creating(r)
    BY <2>1 DEF Creating, ControlInv, OperationInv, Asked
  <2>3. ~Known(req[r].sub) /\ sent[req[r].sub] = 0 /\ SavedCount(req[r].sub) = 0
    BY <2>2, CreatedUnknown
  <2>4. \A q \in Request : ~Notifying(q)
    BY <2>1, Exclusive DEF Notifying
  <2>5. \A q \in Request : ~Notifying(q)'
    BY <2>1, <2>4 DEF Notifying, Others, Kept
  <2>6. Cached' = Cached
    BY <2>1 DEF Cached
  <2>7. \A s \in Sub : sent'[s] = IF s = req[r].sub THEN sent[s] + n ELSE sent[s]
    BY <1>a, <1>e, <2>1, SentOneIs
  <2>8. KnownInv'
    <3>1. ~Removing(r)
      BY <2>1 DEF Removing
    <3>2. \A s \in Sub : (Known(s) => Known(s)')
      BY <2>1, <3>1 DEF Known, Removing, Others, Kept
    <3>3. Known(x)'
      BY <2>0, <2>1 DEF Known
    <3>4. \A s \in Sub : Inserted(s) => Inserted(s)' \/ Known(s)'
      BY <2>0, <2>1, <3>3 DEF Inserted, Others, Kept
    <3>5. \A s \in Sub : sent'[s] = sent[s] \/ Known(s)'
      BY <2>0, <2>7, <3>3
    <3>6. \A s \in DOMAIN sync'.read : s \in DOMAIN sync.read
      BY <2>1
    <3> QED BY <2>5, <2>6, <3>2, <3>4, <3>5, <3>6, KnownStep
  <2>9. HeldInv'
    <3>1. sync'.pc = sync.pc /\ sync'.read = sync.read
      BY <2>1
    <3>2. \A s \in Sub : SavedCount(s)' = SavedCount(s)
      BY <1>b, <2>1
    <3> QED BY <1>e, <2>1, <2>3, <2>5, <3>1, <3>2 DEF HeldInv
  <2>10. \A s \in Sub : Unrecorded(s)' = Unrecorded(s)
    BY <2>1, UnrecordedSame
  <2>11. StoredCount(x)' = n
    BY <2>0, <2>1 DEF StoredCount
  <2>12. req[r].sub \notin Stored
    BY <2>3 DEF Known
  <2>13. \A s \in Stored : s # req[r].sub /\ StoredCount(s)' = StoredCount(s)
    BY <2>1, <2>12 DEF StoredCount
  <2>14. LowerInv'
    <3>1. ASSUME NEW s \in Stored'
          PROVE  /\ s \in Stored =>
                      StoredCount(s) + Pending(s) + sent'[s] <= StoredCount(s)' + Pending(s)' + sent[s]
                 /\ s \notin Stored => sent'[s] <= StoredCount(s)'
      <4>1. CASE s \in Stored
        BY <1>a, <1>b, <1>d, <1>e, <2>1, <2>7, <2>10, <2>13, <4>1
      <4>2. CASE s \notin Stored
        BY <1>e, <2>0, <2>1, <2>3, <2>7, <2>11, <4>2
      <4> QED BY <4>1, <4>2
    <3> QED BY <3>1, LowerStep
  <2> QED BY <2>8, <2>9, <2>14
<1>7. CASE DeleteInDb(r)
  <2>1. PICK pc \in { "deleteCache", "deleteLookupLD" } :
          /\ Moves(r, pc) /\ req[r].pc \in { "deleteDb", "deleteDbLD" }
          /\ Stored' \in { Stored, Stored \ { req[r].sub } } /\ \A s \in Stored' : db'[s] = db[s]
          /\ UNCHANGED << cache, sync, sent, deleted >>
    BY <1>7, <1>f, DeleteInDbEffect DEF history
  <2>2. \A q \in Request : Notifying(q)' => Notifying(q) /\ req'[q].sub = req[q].sub
    BY <2>1 DEF Notifying, Moves, Others, Kept
  <2>3. \A s \in Sub : Inserted(s) => Inserted(s)'
    BY <2>1 DEF Inserted, Moves, Others, Kept
  <2>4. \A s \in Sub : Known(s) => Known(s)'
    <3>1. Known(req[r].sub)'
      BY <2>1 DEF Known, Removing, Moves
    <3>2. \A s \in Sub : Known(s) /\ s # req[r].sub => Known(s)'
      BY <2>1 DEF Known, Removing, Moves, Others, Kept
    <3> QED BY <2>1, <3>1, <3>2 DEF Moves
  <2>5. Cached' = Cached
    BY <2>1 DEF Cached
  <2>6. KnownInv'
    <3>1. \A s \in DOMAIN sync'.read : s \in DOMAIN sync.read
      BY <2>1
    <3> QED BY <2>1, <2>2, <2>3, <2>4, <2>5, <3>1, KnownStep
  <2>7. HeldInv'
    BY <2>1, <2>2, <2>5, HeldStep
  <2>8. \A s \in Sub : Unrecorded(s)' = Unrecorded(s)
    BY <2>1, UnrecordedSame DEF Moves
  <2>9. \A s \in Stored' : s \in Stored /\ StoredCount(s)' = StoredCount(s)
    BY <2>1 DEF StoredCount
  <2>10. LowerInv'
    BY <1>a, <1>b, <1>d, <1>e, <2>1, <2>8, <2>9, LowerStep
  <2> QED BY <2>6, <2>7, <2>10
<1>g. ~DeleteLookupLD(r) /\ ~DeleteInCacheLD(r)
  BY DEF DeleteLookupLD, DeleteInCacheLD, ControlInv, OperationInv, Asked
<1>8. CASE DeleteInCache(r)
  <2>0. RemoveFromCache(r, { req[r].sub }) /\ cacheSem = NoOne /\ Removing(r)
    BY <1>8 DEF DeleteInCache, Removing
  <2>1. /\ Others(r) /\ req'[r].pc = "idle" /\ req[r].pc # "record" /\ req[r].pc # "createDb"
        /\ Cached' = Cached \ { req[r].sub } /\ \A s \in Cached' : cache'[s] = cache[s]
        /\ deleted' = deleted \cup { req[r].sub } /\ UNCHANGED << db, sync, sent >>
    BY <2>0, RemoveFromCacheEffect DEF Ends, Removing
  <2>2. Stored' = Stored /\ req[r].sub \notin Stored
    BY <2>0, <2>1 DEF Stored, LifeInv, RemoveInv
  <2>3. \A q \in Request : Notifying(q)' => Notifying(q) /\ req'[q].sub = req[q].sub
    BY <2>1 DEF Notifying, Others, Kept
  <2>4. \A s \in Sub : (Known(s) => Known(s)') /\ (Inserted(s) => Inserted(s)')
    BY <2>1, <2>2 DEF Known, Inserted, Removing, Others, Kept
  <2>5. KnownInv'
    <3>1. \A s \in DOMAIN sync'.read : s \in DOMAIN sync.read
      BY <2>1
    <3> QED BY <2>1, <2>3, <2>4, <3>1, KnownStep
  <2>6. HeldInv'
    BY <2>1, <2>2, <2>3, HeldStep
  <2>7. \A s \in Sub : Unrecorded(s)' = Unrecorded(s)
    BY <2>1, UnrecordedSame
  <2>8. \A s \in Stored : CachedCount(s)' = CachedCount(s)
    BY <2>1, <2>2 DEF CachedCount
  <2>9. LowerInv'
    BY <1>a, <1>b, <1>c, <1>e, <2>1, <2>2, <2>7, <2>8, LowerStep
  <2> QED BY <2>5, <2>6, <2>9
<1>9. CASE Match(r)
  <2>1. /\ Quiet /\ Others(r) /\ req[r].pc = "match" /\ req'[r].pc = "send"
        /\ req'[r].sub = req[r].sub /\ sync.pc = "sleep" /\ req[r].sub \in Cached
    BY <1>9, MatchEffect DEF Moves
  <2>2. UNCHANGED << db, cache, sync, sent, deleted >> /\ Stored' = Stored /\ Cached' = Cached
    BY <2>1 DEF Quiet, history, Stored, Cached
  <2>3. \A q \in Request \ { r } : Notifying(q)' => Notifying(q) /\ req'[q].sub = req[q].sub
    BY <2>1 DEF Notifying, Others, Kept
  <2>4. ~Inserted(req[r].sub)
    BY <2>1, Exclusive DEF Inserted
  <2>5. Known(req[r].sub)
    BY <2>1, <2>4 DEF KnownInv
  <2>6. \A s \in Sub : (Known(s) => Known(s)') /\ (Inserted(s) => Inserted(s)')
    BY <2>1, <2>2 DEF Known, Inserted, Removing, Others, Kept
  <2>7. KnownInv'
    <3>1. \A q \in Request : Notifying(q)' =>
            (Notifying(q) /\ req'[q].sub = req[q].sub) \/ Known(req'[q].sub)
      BY <2>1, <2>3, <2>5
    <3> QED BY <2>2, <2>6, <3>1, KnownStep
  <2>8. HeldInv'
    <3>1. sync'.pc = "sleep"
      BY <2>1, <2>2
    <3>2. \A q \in Request : Notifying(q)' /\ req'[q].sub \in Stored' => req'[q].sub \in Cached'
      BY <2>1, <2>2, <2>3 DEF HeldInv, Findable
    <3> QED BY <3>1, <3>2 DEF HeldInv, Findable
  <2>9. \A s \in Sub : Unrecorded(s)' = Unrecorded(s)
    BY <2>1, UnrecordedSame
  <2>10. LowerInv'
    BY <2>2, <2>9, QuietCounts, LowerSame
  <2> QED BY <2>7, <2>8, <2>10
<1>10. CASE Send(r)
  <2>1. /\ Moves(r, "record") /\ req[r].pc = "send" /\ SentOne(req[r].sub)
        /\ UNCHANGED << db, cache, sync, deleted >>
    BY <1>10, SendEffect
  <2>2. Stored' = Stored /\ Cached' = Cached
    BY <2>1 DEF Stored, Cached
  <2>3. \A q \in Request : Notifying(q)' => Notifying(q) /\ req'[q].sub = req[q].sub
    BY <2>1 DEF Notifying, Moves, Others, Kept
  <2>4. \A s \in Sub : (Known(s) => Known(s)') /\ (Inserted(s) => Inserted(s)')
    BY <2>1, <2>2 DEF Known, Inserted, Removing, Moves, Others, Kept
  <2>5. Known(req[r].sub)
    BY <2>1 DEF KnownInv, Notifying
  <2>6. \A s \in Sub : sent'[s] = IF s = req[r].sub THEN sent[s] + 1 ELSE sent[s]
    BY <1>e, <2>1, SentOneIs
  <2>7. KnownInv'
    <3>1. \A s \in Sub : sent'[s] = sent[s] \/ Known(s)'
      BY <2>4, <2>5, <2>6
    <3>2. \A s \in DOMAIN sync'.read : s \in DOMAIN sync.read
      BY <2>1
    <3> QED BY <2>2, <2>3, <2>4, <3>1, <3>2, KnownStep
  <2>8. HeldInv'
    BY <2>1, <2>2, <2>3, HeldStep
  <2>9. \A s \in Sub : Unrecorded(s)' = IF s = req[r].sub THEN Unrecorded(s) + 1 ELSE Unrecorded(s)
    BY <2>1, UnrecordedMore
  <2>10. LowerInv'
    BY <1>a, <1>b, <1>c, <1>d, <1>e, <2>1, <2>2, <2>6, <2>9, LowerStep
  <2> QED BY <2>7, <2>8, <2>10
<1>11. CASE Record(r)
  <2>1. /\ Ends(r) /\ req[r].pc = "record" /\ sync.pc = "sleep" /\ Cached' = Cached
        /\ \A s \in Cached \ { req[r].sub } : cache'[s] = cache[s]
        /\ req[r].sub \in Cached => cache'[req[r].sub].count = cache[req[r].sub].count + 1
        /\ UNCHANGED << db, sync, sent, deleted >>
    BY <1>11, RecordEffect DEF history
  <2>2. Stored' = Stored
    BY <2>1 DEF Stored
  <2>3. \A q \in Request : Notifying(q)' => Notifying(q) /\ req'[q].sub = req[q].sub
    BY <2>1 DEF Notifying, Ends, Others, Kept
  <2>4. \A s \in Sub : (Known(s) => Known(s)') /\ (Inserted(s) => Inserted(s)')
    BY <2>1, <2>2 DEF Known, Inserted, Removing, Ends, Others, Kept
  <2>5. KnownInv'
    <3>1. \A s \in DOMAIN sync'.read : s \in DOMAIN sync.read
      BY <2>1
    <3> QED BY <2>1, <2>3, <2>4, <3>1, KnownStep
  <2>6. HeldInv'
    BY <2>1, <2>2, <2>3, HeldStep
  <2>7. \A s \in Sub : Unrecorded(s) = IF s = req[r].sub THEN Unrecorded(s)' + 1 ELSE Unrecorded(s)'
    BY <2>1, UnrecordedLess
  <2>8. req[r].sub \in Stored => req[r].sub \in Cached
    BY <2>1 DEF HeldInv, Findable, Notifying
  <2>9. \A s \in Stored : CachedCount(s)' = IF s = req[r].sub THEN CachedCount(s) + 1 ELSE CachedCount(s)
    BY <2>1, <2>8 DEF CachedCount
  <2>10. LowerInv'
    BY <1>a, <1>b, <1>c, <1>e, <2>1, <2>2, <2>7, <2>9, LowerStep
  <2> QED BY <2>5, <2>6, <2>10
<1> QED BY <1>1, <1>2, <1>3, <1>4, <1>5, <1>6, <1>7, <1>8, <1>9, <1>10, <1>11,
           <1>g, RequestCases, NoRewrites, NoUpdates

LEMMA OtherExact ==
  ASSUME TypeInv, TypeInv', ControlInv, SemInv, KnownInv, HeldInv, LowerInv, NoFailures, OtherStep
  PROVE  SemInv' /\ KnownInv' /\ HeldInv' /\ LowerInv'
<1>a. ASSUME NEW s \in Sub
      PROVE  /\ StoredCount(s) \in Nat /\ CachedCount(s) \in Nat /\ SavedCount(s) \in Nat
             /\ Unrecorded(s) \in Nat /\ sent[s] \in Nat
             /\ StoredCount(s)' \in Nat /\ CachedCount(s)' \in Nat /\ SavedCount(s)' \in Nat
             /\ Unrecorded(s)' \in Nat /\ sent'[s] \in Nat
             /\ Pending(s) = Unrecorded(s) + CachedCount(s) + SavedCount(s)
             /\ Pending(s)' = Unrecorded(s)' + CachedCount(s)' + SavedCount(s)'
  BY CountTypes, CountTypes2 DEF Pending
<1>b. \A s \in Sub : sync' = sync => SavedCount(s)' = SavedCount(s)
  BY DEF SavedCount
<1>c. \A s \in Sub : db' = db => StoredCount(s)' = StoredCount(s)
  BY DEF StoredCount, Stored
<1>d. \A s \in Sub : cache' = cache => CachedCount(s)' = CachedCount(s)
  BY DEF CachedCount, Cached
<1>e. \A s \in Stored : s \in Sub
  BY TypeParts, TableAt DEF Stored
<1>f. ~(faults < MaxFaults) /\ ~(crashes < MaxCrashes)
  BY DEF NoFailures, TypeInv, TypeOK
<1>0. ASSUME \A q \in Request : Kept(q), reqSem' = reqSem, Stored' = Stored, deleted' = deleted
      PROVE  /\ SemInv'
             /\ \A s \in Sub : Unrecorded(s)' = Unrecorded(s)
             /\ \A q \in Request : (Notifying(q)' => Notifying(q)) /\ req'[q].sub = req[q].sub
             /\ \A s \in Sub : (Known(s) => Known(s)') /\ (Inserted(s) => Inserted(s)')
  <2>1. SemInv' /\ \A s \in Sub : Unrecorded(s)' = Unrecorded(s)
    BY <1>0, SemSame, UnrecordedKept
  <2>2. \A q \in Request : (Notifying(q)' => Notifying(q)) /\ req'[q].sub = req[q].sub
    BY <1>0 DEF Notifying, Kept
  <2>3. \A s \in Sub : (Known(s) => Known(s)') /\ (Inserted(s) => Inserted(s)')
    BY <1>0 DEF Known, Inserted, Removing, Kept
  <2> QED BY <2>1, <2>2, <2>3
<1>k. req' = req => \A q \in Request : Kept(q)
  BY DEF Kept
<1>1. CASE \E s \in Sub, o \in Outcome : NotificationOutcome(s, o)
  <2>1. /\ Cached' = Cached /\ \A x \in Cached : cache'[x].count = cache[x].count
        /\ UNCHANGED << db, reqSem, req, sync, sent, deleted >>
    BY <1>1, NotificationOutcomeEffect DEF history
  <2>2. Stored' = Stored
    BY <2>1 DEF Stored
  <2>3. KnownInv'
    BY <1>0, <1>k, <2>1, <2>2, KnownStep
  <2>4. HeldInv'
    BY <1>0, <1>k, <2>1, <2>2, HeldStep
  <2>5. \A s \in Sub : CachedCount(s)' = CachedCount(s)
    BY <2>1 DEF CachedCount
  <2>6. SameCounts
    BY <1>b, <1>c, <2>1, <2>5 DEF SameCounts
  <2> QED BY <1>0, <1>k, <2>1, <2>2, <2>3, <2>4, <2>6, LowerSame
<1>2. CASE SyncSave
  <2>1. /\ \A q \in Request : Kept(q)
        /\ sync.pc = "sleep" /\ sync'.pc = "query" /\ sync'.saved = cache /\ Cached' = {}
        /\ sync'.read = sync.read /\ UNCHANGED << db, reqSem, sent, deleted >>
    BY <1>2, SyncSaveEffect DEF history
  <2>2. Stored' = Stored
    BY <2>1 DEF Stored
  <2>3. KnownInv'
    BY <1>0, <2>1, <2>2, KnownStep
  <2>4. HeldInv'
    BY <2>1 DEF HeldInv, Findable
  <2>5. \A s \in Sub : SavedCount(s)' = CachedCount(s) /\ CachedCount(s)' = 0 /\ SavedCount(s) = 0
    BY <2>1 DEF SavedCount, CachedCount, Cached, ControlInv, SyncInv
  <2>6. LowerInv'
    BY <1>0, <1>a, <1>c, <1>e, <2>1, <2>2, <2>5, LowerStep
  <2> QED BY <1>0, <2>1, <2>2, <2>3, <2>4, <2>6
<1>3. CASE SyncQuery
  <2>1. /\ sync'.pc = "load" /\ sync'.saved = sync.saved /\ sync'.read = db
        /\ UNCHANGED << db, cache, reqSem, req, sent, deleted >>
    BY <1>3, <1>f, SyncQueryEffect DEF history
  <2>2. Stored' = Stored /\ Cached' = Cached /\ DOMAIN sync'.read = Stored
    BY <2>1 DEF Stored, Cached
  <2>3. KnownInv'
    BY <1>0, <1>k, <2>1, <2>2, KnownStep
  <2>4. HeldInv'
    BY <2>1, <2>2 DEF HeldInv, Findable
  <2>5. \A s \in Sub : SavedCount(s)' = SavedCount(s)
    BY <2>1 DEF SavedCount
  <2>6. SameCounts
    BY <1>c, <1>d, <2>1, <2>5 DEF SameCounts
  <2> QED BY <1>0, <1>k, <2>1, <2>2, <2>3, <2>4, <2>6, LowerSame
<1>4. CASE SyncLoad
  <2>1. /\ sync.pc = "load" /\ sync'.pc = "count" /\ DOMAIN sync'.read = {} /\ Cached = {}
        /\ Cached' = DOMAIN sync.read /\ \A s \in Cached' : cache'[s].count = 0
        /\ DOMAIN sync'.saved = DOMAIN sync.read \cap DOMAIN sync.saved
        /\ \A s \in DOMAIN sync'.saved : sync'.saved[s].count = sync.saved[s].count
        /\ UNCHANGED << db, reqSem, req, sent, deleted >>
    BY <1>4, SyncLoadEffect DEF history
  <2>2. Stored' = Stored
    BY <2>1 DEF Stored
  <2>3. KnownInv'
    BY <1>0, <1>k, <2>1, <2>2, KnownStep
  <2>4. HeldInv'
    <3>1. \A q \in Request : Notifying(q)' /\ req'[q].sub \in Stored' => req'[q].sub \in Cached'
      BY <2>1, <2>2 DEF HeldInv, Findable, Notifying
    <3> QED BY <2>1, <3>1 DEF HeldInv, Findable
  <2>5. \A s \in Sub : CachedCount(s)' = 0 /\ CachedCount(s) = 0
    BY <2>1 DEF CachedCount
  <2>6. \A s \in Stored : SavedCount(s)' = SavedCount(s)
    <3>1. ASSUME NEW s \in Stored PROVE SavedCount(s)' = SavedCount(s)
      <4>1. CASE s \in DOMAIN sync.read
        BY <2>1, <4>1 DEF SavedCount
      <4>2. CASE s \notin DOMAIN sync.read
        <5>1. ~(SavedCount(s) > 0) /\ SavedCount(s) \in Nat
          BY <1>a, <1>e, <2>1, <4>2 DEF HeldInv
        <5>2. SavedCount(s)' = 0
          BY <2>1, <4>2 DEF SavedCount
        <5> QED BY <5>1, <5>2
      <4> QED BY <4>1, <4>2
    <3> QED BY <3>1
  <2>7. LowerInv'
    BY <1>0, <1>k, <1>a, <1>c, <1>e, <2>1, <2>2, <2>5, <2>6, LowerStep
  <2> QED BY <1>0, <1>k, <2>1, <2>2, <2>3, <2>4, <2>7
<1>5. ASSUME NEW x \in Sub, SyncCount(x) PROVE SemInv' /\ KnownInv' /\ HeldInv' /\ LowerInv'
  <2>1. /\ sync.pc = "count" /\ sync'.pc = "times" /\ sync'.read = sync.read
        /\ x \in DOMAIN sync.saved /\ DOMAIN sync'.saved = DOMAIN sync.saved
        /\ sync'.saved[x].count = 0
        /\ \A s \in DOMAIN sync.saved \ { x } : sync'.saved[s] = sync.saved[s]
        /\ Stored' = Stored /\ \A s \in Stored \ { x } : db'[s] = db[s]
        /\ x \in Stored => db'[x].count = db[x].count + sync.saved[x].count
        /\ UNCHANGED << cache, reqSem, req, sent, deleted >>
    BY <1>5, <1>f, SyncCountEffect DEF history
  <2>2. Cached' = Cached
    BY <2>1 DEF Cached
  <2>3. KnownInv'
    BY <1>0, <1>k, <2>1, <2>2, KnownStep
  <2>4. HeldInv'
    BY <2>1, <2>2 DEF HeldInv, Findable, Notifying
  <2>5. \A s \in Sub : SavedCount(s)' = IF s = x THEN 0 ELSE SavedCount(s)
    BY <2>1 DEF SavedCount
  <2>6. \A s \in Stored : StoredCount(s)' = IF s = x THEN StoredCount(s) + SavedCount(s)
                                                      ELSE StoredCount(s)
    BY <2>1 DEF StoredCount, SavedCount
  <2>7. LowerInv'
    BY <1>0, <1>k, <1>a, <1>d, <1>e, <2>1, <2>5, <2>6, LowerStep
  <2> QED BY <1>0, <1>k, <2>1, <2>3, <2>4, <2>7
<1>6. ASSUME NEW x \in Sub, SyncTimes(x) PROVE SemInv' /\ KnownInv' /\ HeldInv' /\ LowerInv'
  <2>1. /\ sync.pc = "times" /\ sync'.pc = "count" /\ sync'.read = sync.read /\ x \in sync.todo
        /\ DOMAIN sync'.saved = DOMAIN sync.saved \ { x }
        /\ \A s \in DOMAIN sync'.saved : sync'.saved[s] = sync.saved[s]
        /\ Stored' = Stored /\ \A s \in Stored : db'[s].count = db[s].count
        /\ Cached' = Cached /\ \A s \in Cached : cache'[s].count = cache[s].count
        /\ UNCHANGED << reqSem, req, sent, deleted >>
    BY <1>6, SyncTimesEffect DEF history
  <2>2. KnownInv'
    BY <1>0, <1>k, <2>1, KnownStep
  <2>3. HeldInv'
    BY <2>1 DEF HeldInv, Findable, Notifying
  <2>4. \A s \in Sub : SavedCount(s)' = SavedCount(s)
    BY <2>1 DEF SavedCount, ControlInv, SyncInv
  <2>5. \A s \in Sub : StoredCount(s)' = StoredCount(s) /\ CachedCount(s)' = CachedCount(s)
    BY <2>1 DEF StoredCount, CachedCount
  <2>6. SameCounts
    BY <2>1, <2>4, <2>5 DEF SameCounts
  <2> QED BY <1>0, <1>k, <2>1, <2>2, <2>3, <2>6, LowerSame
<1>7. CASE SyncDone
  <2>1. /\ sync.pc = "count" /\ sync.todo = {} /\ sync'.pc = "sleep" /\ DOMAIN sync'.saved = {}
        /\ DOMAIN sync'.read = {} /\ UNCHANGED << db, cache, reqSem, req, sent, deleted >>
    BY <1>7, SyncDoneEffect DEF history
  <2>2. Stored' = Stored /\ Cached' = Cached
    BY <2>1 DEF Stored, Cached
  <2>3. KnownInv'
    BY <1>0, <1>k, <2>1, <2>2, KnownStep
  <2>4. HeldInv'
    BY <2>1, <2>2 DEF HeldInv, Findable, Notifying
  <2>5. \A s \in Sub : SavedCount(s)' = SavedCount(s)
    BY <2>1 DEF SavedCount, ControlInv, SyncInv
  <2>6. SameCounts
    BY <1>c, <1>d, <2>1, <2>5 DEF SameCounts
  <2> QED BY <1>0, <1>k, <2>1, <2>2, <2>3, <2>4, <2>6, LowerSame
<1>8. CASE Tick
  <2>1. UNCHANGED << db, cache, reqSem, req, sync, sent, deleted >>
    BY <1>8, TickEffect DEF history
  <2>2. Stored' = Stored /\ Cached' = Cached
    BY <2>1 DEF Stored, Cached
  <2>3. KnownInv'
    BY <1>0, <1>k, <2>1, <2>2, KnownStep
  <2>4. HeldInv'
    BY <1>0, <1>k, <2>1, <2>2, HeldStep
  <2> QED BY <1>0, <1>k, <2>1, <2>2, <2>3, <2>4, QuietCounts, LowerSame
<1>9. ASSUME NEW x \in Sub, PeerFlush(x) PROVE SemInv' /\ KnownInv' /\ HeldInv' /\ LowerInv'
  <2>1. /\ x \in Stored /\ SentOne(x) /\ Stored' = Stored /\ db'[x].count = db[x].count + 1
        /\ \A s \in Stored \ { x } : db'[s] = db[s]
        /\ UNCHANGED << cache, reqSem, req, sync, deleted >>
    BY <1>9, PeerFlushEffect
  <2>2. Cached' = Cached
    BY <2>1 DEF Cached
  <2>3. \A s \in Sub : sent'[s] = IF s = x THEN sent[s] + 1 ELSE sent[s]
    BY <2>1, SentOneIs
  <2>4. KnownInv'
    <3>1. \A s \in Sub : sent'[s] = sent[s] \/ Known(s)'
      BY <2>1, <2>3 DEF Known
    <3> QED BY <1>0, <1>k, <2>1, <2>2, <3>1, KnownStep
  <2>5. HeldInv'
    BY <1>0, <1>k, <2>1, <2>2, HeldStep
  <2>6. \A s \in Sub : StoredCount(s)' = IF s = x THEN StoredCount(s) + 1 ELSE StoredCount(s)
    BY <2>1 DEF StoredCount
  <2>7. LowerInv'
    BY <1>0, <1>k, <1>a, <1>b, <1>d, <1>e, <2>1, <2>3, <2>6, LowerStep
  <2> QED BY <1>0, <1>k, <2>1, <2>4, <2>5, <2>7
<1>10. ~CrashAndRestart /\ ~\E x \in Sub : SyncException(x)
  BY <1>f DEF CrashAndRestart, SyncException, Throws, NoFailures
<1> QED BY <1>1, <1>2, <1>3, <1>4, <1>5, <1>6, <1>7, <1>8, <1>9, <1>10 DEF subCacheSync, OtherStep

LEMMA StutterExact ==
  ASSUME SemInv, KnownInv, HeldInv, LowerInv, UNCHANGED vars
  PROVE  SemInv' /\ KnownInv' /\ HeldInv' /\ LowerInv'
<1>1. UNCHANGED << db, cache, sync, req, reqSem, sent, deleted >>
  BY DEF vars, history
<1>2. SemInv'
  BY <1>1 DEF SemInv, Holding
<1>3. KnownInv'
  BY <1>1 DEF KnownInv, Known, Inserted, Notifying, Removing, Stored, Cached
<1>4. HeldInv'
  BY <1>1 DEF HeldInv, Findable, Notifying, SavedCount, Stored, Cached
<1>5. LowerInv'
  BY <1>1 DEF LowerInv, StoredCount, Pending, Unrecorded, CachedCount, SavedCount, Stored, Cached
<1> QED BY <1>2, <1>3, <1>4, <1>5

(***************************************************************************)
(* Every notification, of this broker or of another, is counted exactly    *)
(* once, in the document or in one place from which it will get there, for *)
(* any number of requests, subscriptions and refreshes.  The assumptions   *)
(* are those under which the code promises it.  reqSem is taken            *)
(* (-reqMutexPolicy write or all; the default is none): without it a       *)
(* subscription may be notified while it is being created.  No call of the *)
(* database fails and the broker is not killed.  The subscriptions are     *)
(* those of NGSIv2 (LdSub = {}, and so no NGSI-LD operation): the refresh  *)
(* that has the count of an NGSI-LD one to flush ends the process, with    *)
(* all counts that it has not flushed.  Operations that replace a document *)
(* are excluded: they forget the counts flushed since they read it.        *)
(***************************************************************************)
THEOREM EveryNotificationCounted ==
  ASSUME ReqMutex, MaxFaults = 0, MaxCrashes = 0, LdSub = {},
         Operations \cap { "update", "patchLD", "deleteLD" } = {}
  PROVE  Spec => []CountExact
<1>1. Init => SemInv /\ KnownInv /\ HeldInv /\ LowerInv
  <2> SUFFICES ASSUME Init PROVE SemInv /\ KnownInv /\ HeldInv /\ LowerInv
    OBVIOUS
  <2>1. (\A r \in Request : req[r].pc = "idle") /\ Cached = Stored
    BY DEF Init, Idle, Cached, Stored
  <2>2. sync.pc = "sleep" /\ DOMAIN sync.read = {}
    BY EmptyTable DEF Init, NoSync
  <2>3. \A s \in Sub : StoredCount(s) = 0 /\ Pending(s) = 0 /\ sent[s] = 0
    BY InitCounts DEF Pending
  <2>4. \A s \in Stored : s \in Sub
    BY SubscriptionCacheAssumption DEF Init, Stored
  <2>5. SemInv /\ HeldInv
    BY <2>1, <2>2 DEF SemInv, Holding, HeldInv, Notifying
  <2>6. KnownInv
    BY <2>1, <2>2, <2>3 DEF KnownInv, Known, Notifying
  <2>7. LowerInv
    BY <2>3, <2>4 DEF LowerInv
  <2> QED BY <2>5, <2>6, <2>7
<1>2. /\ TypeInv /\ ControlInv /\ LifeInv /\ BoundInv /\ TypeInv' /\ [Next]_vars
      /\ SemInv /\ KnownInv /\ HeldInv /\ LowerInv
      => (SemInv /\ KnownInv /\ HeldInv /\ LowerInv)'
  <2> SUFFICES ASSUME TypeInv, ControlInv, LifeInv, BoundInv, TypeInv', [Next]_vars,
                      SemInv, KnownInv, HeldInv, LowerInv
               PROVE  SemInv' /\ KnownInv' /\ HeldInv' /\ LowerInv'
    OBVIOUS
  <2>1. NoFailures /\ "update" \notin Operations
    BY DEF NoFailures
  <2>2. CASE UNCHANGED vars
    BY <2>2, StutterExact
  <2>3. ASSUME NEW r \in Request, Arrive(r) \/ RequestStep(r)
        PROVE  SemInv' /\ KnownInv' /\ HeldInv' /\ LowerInv'
    BY <2>1, <2>3, RequestSem, RequestExact
  <2>4. CASE OtherStep
    BY <2>1, <2>4, OtherExact
  <2> QED BY <2>2, <2>3, <2>4 DEF Next, OtherStep
<1>3. TypeInv /\ BoundInv /\ LowerInv => CountExact
  <2> SUFFICES ASSUME TypeInv, BoundInv, LowerInv, NEW s \in Stored PROVE Accounted(s) = sent[s]
    BY DEF CountExact
  <2>1. s \in Sub
    BY TypeParts, TableAt DEF Stored
  <2>2. Accounted(s) = StoredCount(s) + Unrecorded(s) + CachedCount(s) + SavedCount(s)
    BY DEF Accounted, StoredCount, CachedCount, SavedCount
  <2>3. StoredCount(s) + Pending(s) <= sent[s] /\ StoredCount(s) + Pending(s) >= sent[s]
    BY <2>1 DEF BoundInv, LowerInv
  <2> QED BY <2>1, <2>2, <2>3, CountTypes DEF Pending
<1>4. Spec => []BoundInv
  BY BoundInvariant
<1> QED BY <1>1, <1>2, <1>3, <1>4, ControlInvariant, LifeInvariant, PTL DEF Spec

=============================================================================
