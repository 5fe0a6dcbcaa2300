---------------------------- MODULE ContextCache ----------------------------
(***************************************************************************)
(* The cache of JSON-LD @contexts: the array of contexts with its          *)
(* semaphore (orionld/contextCache), the list of downloads in progress     *)
(* with its own (orionld/context/orionldContextFromUrl.cpp), the           *)
(* collection 'contexts' of the database, and the four operations of the   *)
(* request threads on them:                                                *)
(*   "use"    - a request names a context by URL: orionldContextFromUrl;   *)
(*   "post"   - POST /jsonldContexts: orionldPostContexts;                 *)
(*   "delete" - DELETE /jsonldContexts/{id}: orionldDeleteContext;         *)
(*   "reload" - the same with ?reload=true.                                *)
(*                                                                         *)
(* A context is a number, in order of creation; of its content only one    *)
(* thing is modelled: whether it is a string, the URL of another context   *)
(* ("strings").  The orionldContextFromUrl of that other URL, from inside  *)
(* orionldContextFromTree, is the "use" of another thread here: what it    *)
(* does to the cache, the list and the database is the same, and it may    *)
(* come while this thread is at "download".  0 is the null pointer.        *)
(* Contexts nested in arrays, and inline ones (which never enter the       *)
(* cache, except for subscriptions and registrations), are left out.       *)
(*                                                                         *)
(* The code leaves some steps unprotected.  'mishaps' is a history         *)
(* variable: the unprotected events that have really gone wrong so far.    *)
(* The database may refuse an insertion or a deletion, which is logged and *)
(* not looked at: 'astray' and 'unsaved' are histories of what that, and   *)
(* the removal of a context that is not yet stored, leave behind.          *)
(***************************************************************************)
EXTENDS Integers, Sequences, FiniteSets, SequencesExt

CONSTANTS
  Thread,        \* the request threads
  Url,           \* the URLs of contexts on the network
  LongUrl,       \* those of 255 characters or more
  OwnUrl,        \* the URLs the broker generates for contexts that are posted
  InitialSlots,  \* the size of orionldContextCacheArray (100 in the code)
  SlotsToAdd,    \* the slots added when the array is full (50 in the code)
  MaxContexts,   \* bound: contexts created
  MaxRequests,   \* bound: requests started
  MaxRestarts,   \* bound: restarts of the broker
  NULL

ASSUME ContextAssumption ==
  /\ InitialSlots \in Nat \ {0}
  /\ SlotsToAdd \in Nat
  /\ SlotsToAdd > Cardinality(Thread)
  /\ MaxContexts \in Nat /\ MaxRequests \in Nat /\ MaxRestarts \in Nat
  /\ Url \cap OwnUrl = {}
  /\ LongUrl \subseteq Url
  /\ NULL \notin Url \cup OwnUrl

Context == 1 .. MaxContexts
AnyUrl  == Url \cup OwnUrl

VARIABLES
  cache,         \* orionldContextCache: one context, or 0, per slot
  slotIx,        \* orionldContextCacheSlotIx: the slots in use
  list,          \* contextDownloadList, the head first
  listSem,       \* contextDownloadListSem
  stored,        \* the database: for an _id, the context stored under it, or 0
  made,          \* contexts created so far
  urlOf,         \* OrionldContext.url
  idOf,          \* OrionldContext.id: 0 until the context is persisted
  strings,       \* the contexts of which the tree is a string
  call,          \* the call each thread is in, and its local variables:
                 \*   pc      where it is           op     the operation
                 \*   url     the URL               own    the context it inserts
                 \*   old     oldContextP of orionldDeleteContext, and
                 \*   oldId   its id when orionldContextFromUrl was called
                 \*   slotNo  the local of orionldContextCacheInsert
                 \*   head    the list as it was read, before it is written
  requests,      \* requests started
  restarts,
  mishaps,
  astray,        \* history: ids of documents whose context is not, or no
                 \* longer, in the cache
  unsaved,       \* history: contexts whose insertion the database refused
  failed         \* history: URLs a download of which has failed

dbVars    == << stored, idOf >>
listVars  == << list, listSem >>
cacheVars == << cache, slotIx >>
ctxVars   == << made, urlOf, strings >>
bounds    == << requests, restarts >>
losses    == << astray, unsaved >>
history   == << mishaps, failed, losses >>

vars == << cache, slotIx, list, listSem, stored, idOf, made, urlOf, strings, call,
           requests, restarts, mishaps, failed, astray, unsaved >>

NoCall == [pc |-> "idle", op |-> "use", url |-> NULL, own |-> 0, old |-> 0, oldId |-> 0,
           slotNo |-> 0, head |-> << >>]

Init ==
  /\ cache = [s \in 1 .. InitialSlots |-> 0]
  /\ slotIx = 0
  /\ list = << >>
  /\ listSem = 1
  /\ stored = [i \in Context |-> 0]
  /\ made = 0
  /\ urlOf = [c \in Context |-> NULL]
  /\ idOf = [c \in Context |-> 0]
  /\ strings = {}
  /\ call = [t \in Thread |-> NoCall]
  /\ requests = 0
  /\ restarts = 0
  /\ mishaps = {}
  /\ astray = {}
  /\ unsaved = {}
  /\ failed = {}

Goto(t, l) == call' = [call EXCEPT ![t].pc = l]

Return(t) == call' = [call EXCEPT ![t] = NoCall]

-----------------------------------------------------------------------------
(***************************************************************************)
(* orionldContextCacheLookup: the first slot in use whose context has the  *)
(* URL.  No semaphore is taken.  (A slot number past the end of the array  *)
(* is out of bounds; see TypeOK.)                                          *)
(***************************************************************************)
InUse == { s \in 1 .. slotIx : s <= Len(cache) /\ cache[s] # 0 }

Hits(u) == { s \in InUse : urlOf[cache[s]] = u }

Cached(u) == Hits(u) # {}

\* The slot of the context that orionldContextCacheLookup returns.
IsLookup(s, u) == s \in Hits(u) /\ \A r \in Hits(u) : s <= r

\* A request arrives at an idle thread.
Start(t, c) ==
  /\ call[t].pc = "idle"
  /\ requests < MaxRequests
  /\ requests' = requests + 1
  /\ call' = [call EXCEPT ![t] = c]

\* orionldContextFromUrl for the context of a request: a hit is all there is.
Use(t, u) ==
  /\ ~Cached(u)
  /\ Start(t, [NoCall EXCEPT !.pc = "checkList", !.url = u])
  /\ UNCHANGED << cacheVars, listVars, dbVars, ctxVars, restarts, history >>

\* orionldPostContexts: a context with a URL of the broker's own.  One that is a
\* string is not inserted into the cache, and persisted all the same.
PostAt(t, u, l) ==
  /\ made < MaxContexts
  /\ \A c \in Context : urlOf[c] # u
  /\ Start(t, [NoCall EXCEPT !.pc = l, !.op = "post", !.url = u, !.own = made + 1])
  /\ made' = made + 1
  /\ urlOf' = [urlOf EXCEPT ![made + 1] = u]
  /\ idOf' = [idOf EXCEPT ![made + 1] = made + 1]
  /\ UNCHANGED << cacheVars, listVars, stored, restarts, history >>

Post(t, u) == PostAt(t, u, "readSlot") /\ UNCHANGED strings

PostString(t, u) == PostAt(t, u, "persist") /\ strings' = strings \cup { made + 1 }

\* orionldDeleteContext: 404 unless the context is there.
Delete(t, u) ==
  /\ Cached(u)
  /\ Start(t, [NoCall EXCEPT !.pc = "delete", !.op = "delete", !.url = u])
  /\ UNCHANGED << cacheVars, listVars, dbVars, ctxVars, restarts, history >>

\* The same with ?reload=true: 400 unless the context was downloaded.
Reload(t, u) ==
  /\ u \in Url
  /\ \E s \in InUse :
       /\ IsLookup(s, u)
       /\ Start(t, [NoCall EXCEPT !.pc = "evict", !.op = "reload", !.url = u,
                                  !.old = cache[s]])
  /\ UNCHANGED << cacheVars, listVars, dbVars, ctxVars, restarts, history >>

-----------------------------------------------------------------------------
(***************************************************************************)
(* orionldContextFromUrl, after the miss.                                  *)
(***************************************************************************)
Listed(u) == u \in Range(list)

CheckList(t) ==
  /\ call[t].pc = "checkList"
  /\ Goto(t, IF Listed(call[t].url) THEN "wait" ELSE "lockList")
  /\ UNCHANGED << cacheVars, listVars, dbVars, ctxVars, bounds, history >>

\* Mutant: the list is not searched again once the semaphore is taken.
LockList_NoSecondLook(t) ==
  /\ call[t].pc = "lockList"
  /\ listSem = 1
  /\ listSem' = 0
  /\ call' = [call EXCEPT ![t].pc = "mark", ![t].head = list]
  /\ UNCHANGED << cacheVars, list, dbVars, ctxVars, bounds, history >>

\* With the semaphore, the second look and, in contextDownloadListAdd, the
\* read of the head of the list ...
LockList(t) ==
  /\ call[t].pc = "lockList"
  /\ listSem = 1
  /\ IF Listed(call[t].url)
       THEN /\ Goto(t, "wait")
            /\ UNCHANGED listSem
       ELSE /\ call' = [call EXCEPT ![t].pc = "mark", ![t].head = list]
            /\ listSem' = 0
  /\ UNCHANGED << cacheVars, list, dbVars, ctxVars, bounds, history >>

(***************************************************************************)
(* ... and the write.  The item has room for 255 characters and a NUL that *)
(* is never written, and later it is compared with whole URLs: what a long *)
(* URL leaves there is the URL itself, another long one (its first 255     *)
(* characters), or none.  An item removed since the read (without the      *)
(* semaphore) is still linked: what was freed comes back.                  *)
(***************************************************************************)
NamesOf(u) == IF u \in LongUrl THEN LongUrl \cup {NULL} ELSE {u}

Mark(t) ==
  /\ call[t].pc = "mark"
  /\ \E n \in NamesOf(call[t].url) : list' = << n >> \o call[t].head
  /\ listSem' = 1
  /\ mishaps' = mishaps \cup IF list # call[t].head THEN {"unlocked removal"} ELSE {}
  /\ call' = [call EXCEPT ![t].pc = "download", ![t].head = << >>]
  /\ UNCHANGED << cacheVars, dbVars, ctxVars, bounds, failed, losses >>

(***************************************************************************)
(* orionldContextDownload and orionldContextFromBuffer.  A failed download *)
(* returns at once: the URL stays in the list.  A context that cannot be   *)
(* parsed is removed from the list, without the semaphore.                 *)
(***************************************************************************)
Fail(t) ==
  IF call[t].op = "reload"
    THEN call' = [call EXCEPT ![t].pc = "putBack", ![t].head = << >>]
    ELSE Return(t)

DownloadFails(t) ==
  /\ call[t].pc = "download"
  /\ failed' = failed \cup { call[t].url }
  /\ Fail(t)
  /\ UNCHANGED << cacheVars, listVars, dbVars, ctxVars, bounds, mishaps, losses >>

ParseFails(t) ==
  /\ call[t].pc = "download"
  /\ call' = [call EXCEPT ![t].pc = "removeBad", ![t].head = list]
  /\ UNCHANGED << cacheVars, list, listSem, dbVars, ctxVars, bounds, history >>

\* contextDownloadListRemove, without the semaphore: the first item is
\* removed by a write of the head that was read before.
RemoveBad(t) ==
  /\ call[t].pc = "removeBad"
  /\ LET first == call[t].head # << >> /\ Head(call[t].head) = call[t].url
     IN  /\ list' = IF first THEN Tail(call[t].head) ELSE RemoveFirst(list, call[t].url)
         /\ mishaps' = mishaps \cup IF first /\ list # call[t].head
                                      THEN {"unlocked removal"} ELSE {}
  /\ Fail(t)
  /\ UNCHANGED << cacheVars, listSem, dbVars, ctxVars, bounds, failed, losses >>

\* orionldContextCreate; the new context takes over the id of the one reloaded.
Downloaded(t) ==
  /\ call[t].pc = "download"
  /\ made < MaxContexts
  /\ made' = made + 1
  /\ urlOf' = [urlOf EXCEPT ![made + 1] = call[t].url]
  /\ idOf' = [idOf EXCEPT ![made + 1] = call[t].oldId]
  /\ call' = [call EXCEPT ![t].pc = "readSlot", ![t].own = made + 1]
  /\ UNCHANGED << cacheVars, listVars, stored, strings, bounds, history >>

(***************************************************************************)
(* What was downloaded is a string: orionldContextFromTree takes what has  *)
(* meanwhile come into the cache for the URL, if anything, and inserts     *)
(* nothing.  The one that is being reloaded has left the cache for good.   *)
(***************************************************************************)
StringCached(t) ==
  /\ call[t].pc = "download"
  /\ \E s \in InUse :
       /\ IsLookup(s, call[t].url)
       /\ call' = [call EXCEPT ![t].pc = "unlist", ![t].own = cache[s]]
  /\ astray' = astray \cup { call[t].oldId }
  /\ UNCHANGED << cacheVars, listVars, dbVars, ctxVars, bounds, mishaps, failed, unsaved >>

StringCreated(t) ==
  /\ call[t].pc = "download"
  /\ ~Cached(call[t].url)
  /\ made < MaxContexts
  /\ made' = made + 1
  /\ urlOf' = [urlOf EXCEPT ![made + 1] = call[t].url]
  /\ idOf' = [idOf EXCEPT ![made + 1] = call[t].oldId]
  /\ strings' = strings \cup { made + 1 }
  /\ call' = [call EXCEPT ![t].pc = "unlist", ![t].own = made + 1]
  /\ astray' = astray \cup { call[t].oldId }
  /\ UNCHANGED << cacheVars, listVars, stored, bounds, mishaps, failed, unsaved >>

(***************************************************************************)
(* contextCacheWait: 150 looks at the cache, 20 ms apart, then an error.   *)
(* How long the download takes is open, so the wait may end at any miss.   *)
(***************************************************************************)
WaitHit(t) ==
  /\ call[t].pc = "wait"
  /\ Cached(call[t].url)
  /\ astray' = astray \cup { call[t].oldId }
  /\ Return(t)
  /\ UNCHANGED << cacheVars, listVars, dbVars, ctxVars, bounds, mishaps, failed, unsaved >>

\* Mutant: the wait has no end.
WaitTimeout_Never(t) ==
  /\ call[t].pc = "wait"
  /\ Listed(call[t].url) /\ Cached(call[t].url)
  /\ Fail(t)
  /\ UNCHANGED << cacheVars, listVars, dbVars, ctxVars, bounds, history >>

WaitTimeout(t) ==
  /\ call[t].pc = "wait"
  /\ ~Cached(call[t].url)
  /\ Fail(t)
  /\ UNCHANGED << cacheVars, listVars, dbVars, ctxVars, bounds, history >>

-----------------------------------------------------------------------------
(***************************************************************************)
(* orionldContextCacheInsert.  The slot number is read first, and only     *)
(* then is the semaphore taken; the rest is one step, since nothing else   *)
(* that writes the array or the index runs without the semaphore, except   *)
(* the eviction of a reload, which writes one slot.                        *)
(***************************************************************************)
ReadSlot(t) ==
  /\ call[t].pc = "readSlot"
  /\ call' = [call EXCEPT ![t].pc = "insert", ![t].slotNo = slotIx]
  /\ UNCHANGED << cache, slotIx, listVars, dbVars, ctxVars, bounds, history >>

\* Where the operation goes on after the insertion.
Inserted(t) ==
  IF call[t].own = call[t].old
    THEN Return(t)
    ELSE call' = [call EXCEPT ![t].pc = IF call[t].op = "post" THEN "persist" ELSE "unlist",
                              ![t].slotNo = 0]

Holes == { s \in DOMAIN cache : cache[s] = 0 }

InsertNext(t) ==
  /\ call[t].pc = "insert"
  /\ call[t].slotNo < Len(cache)
  /\ slotIx' = slotIx + 1
  /\ cache' = [cache EXCEPT ![call[t].slotNo + 1] = call[t].own]
  /\ mishaps' = mishaps \cup IF call[t].slotNo # slotIx THEN {"stale slot"} ELSE {}
  /\ Inserted(t)
  /\ UNCHANGED << listVars, dbVars, ctxVars, bounds, failed, losses >>

\* Mutant: the index is advanced for a hole too.
InsertHole_Advances(t) ==
  /\ call[t].pc = "insert"
  /\ call[t].slotNo >= Len(cache)
  /\ \E s \in Holes : /\ \A r \in Holes : s <= r
                      /\ cache' = [cache EXCEPT ![s] = call[t].own]
  /\ slotIx' = slotIx + 1
  /\ Inserted(t)
  /\ UNCHANGED << listVars, dbVars, ctxVars, bounds, history >>

\* The array is full: a context may have been deleted ...
InsertHole(t) ==
  /\ call[t].pc = "insert"
  /\ call[t].slotNo >= Len(cache)
  /\ \E s \in Holes : /\ \A r \in Holes : s <= r
                      /\ cache' = [cache EXCEPT ![s] = call[t].own]
  /\ Inserted(t)
  /\ UNCHANGED << slotIx, listVars, dbVars, ctxVars, bounds, history >>

\* ... or the array is reallocated.  The index is NOT advanced: the slot that
\* is written is the one the next insertion uses.
InsertGrow(t) ==
  /\ call[t].pc = "insert"
  /\ call[t].slotNo >= Len(cache)
  /\ Holes = {}
  /\ cache' = [cache \o [s \in 1 .. SlotsToAdd |-> 0] EXCEPT ![slotIx + 1] = call[t].own]
  /\ mishaps' = mishaps \cup {"growth"}
  /\ Inserted(t)
  /\ UNCHANGED << slotIx, listVars, dbVars, ctxVars, bounds, failed, losses >>

\* contextDownloadListRemove, with the semaphore.
Unlist(t) ==
  /\ call[t].pc = "unlist"
  /\ listSem = 1
  /\ list' = RemoveFirst(list, call[t].url)
  /\ Goto(t, "persist")
  /\ UNCHANGED << cacheVars, listSem, dbVars, ctxVars, bounds, history >>

(***************************************************************************)
(* orionldContextCachePersist: an id is invented if there is none, and the *)
(* document is inserted: that fails (and is logged) if the _id exists, or  *)
(* if the database does not answer.  The request succeeds either way.      *)
(***************************************************************************)
Id(c) == IF idOf[c] = 0 THEN c ELSE idOf[c]

Persist(t) ==
  /\ call[t].pc = "persist"
  /\ LET c == call[t].own
     IN  /\ idOf' = [idOf EXCEPT ![c] = Id(c)]
         /\ stored' = [stored EXCEPT ![Id(c)] = IF @ = 0 THEN c ELSE @]
         /\ astray' = astray \cup IF \E s \in InUse : cache[s] = c THEN {} ELSE { Id(c) }
  /\ Return(t)
  /\ UNCHANGED << cacheVars, listVars, ctxVars, bounds, mishaps, failed, unsaved >>

PersistFails(t) ==
  /\ call[t].pc = "persist"
  /\ idOf' = [idOf EXCEPT ![call[t].own] = Id(call[t].own)]
  /\ unsaved' = unsaved \cup { call[t].own }
  /\ Return(t)
  /\ UNCHANGED << cacheVars, listVars, stored, ctxVars, bounds, mishaps, failed, astray >>

-----------------------------------------------------------------------------
(***************************************************************************)
(* orionldContextCacheDelete, under the semaphore of the cache: every      *)
(* context with that URL, and its document, unless the database refuses    *)
(* ('left'), which is logged and answered with 204 as well.                *)
(***************************************************************************)
\* Mutant: the document stays.
DeleteFromCache_KeepsDocument(t) ==
  /\ call[t].pc = "delete"
  /\ cache' = [s \in DOMAIN cache |-> IF s \in Hits(call[t].url) THEN 0 ELSE cache[s]]
  /\ Return(t)
  /\ UNCHANGED << slotIx, listVars, dbVars, ctxVars, bounds, history >>

DeleteFromCache(t) ==
  /\ call[t].pc = "delete"
  /\ cache' = [s \in DOMAIN cache |-> IF s \in Hits(call[t].url) THEN 0 ELSE cache[s]]
  /\ \E left \in SUBSET Hits(call[t].url) :
       /\ stored' = [i \in Context |->
                       IF \E s \in Hits(call[t].url) \ left : idOf[cache[s]] = i
                         THEN 0 ELSE stored[i]]
       /\ astray' = astray \cup { idOf[cache[s]] : s \in left }
  /\ Return(t)
  /\ UNCHANGED << slotIx, listVars, idOf, ctxVars, bounds, mishaps, failed, unsaved >>

\* The first half of a reload, without any semaphore: the context is taken out
\* of its slot, and orionldContextFromUrl looks for one with the same URL.
Evict(t) ==
  /\ call[t].pc = "evict"
  /\ \E s \in InUse :
       /\ cache[s] = call[t].old
       /\ \A r \in InUse : cache[r] = call[t].old => s <= r
       /\ cache' = [cache EXCEPT ![s] = 0]
       /\ IF Hits(call[t].url) = {s}
            THEN /\ call' = [call EXCEPT ![t].pc = "checkList",
                                         ![t].oldId = idOf[call[t].old]]
                 /\ UNCHANGED astray
            ELSE /\ Return(t)
                 /\ astray' = astray \cup { idOf[call[t].old] }
  /\ UNCHANGED << slotIx, listVars, dbVars, ctxVars, bounds, mishaps, failed, unsaved >>

\* 500: somebody was faster.
EvictNothing(t) ==
  /\ call[t].pc = "evict"
  /\ \A s \in InUse : cache[s] # call[t].old
  /\ Return(t)
  /\ UNCHANGED << cacheVars, listVars, dbVars, ctxVars, bounds, history >>

\* Its end, if there is no new context: the old one is inserted again.
PutBack(t) ==
  /\ call[t].pc = "putBack"
  /\ call' = [call EXCEPT ![t].pc = "readSlot", ![t].own = call[t].old]
  /\ UNCHANGED << cacheVars, listVars, dbVars, ctxVars, bounds, history >>

-----------------------------------------------------------------------------
(***************************************************************************)
(* The broker stops, at any time, and starts again.                        *)
(* orionldContextCacheInit reads the collection, in the order in which the *)
(* database finds the documents, and inserts every context, with the id of *)
(* its document, one after the other, but for strings, which it complains  *)
(* about and skips.                                                        *)
(***************************************************************************)
Documents == { i \in Context : stored[i] # 0 /\ stored[i] \notin strings }

\* The slots after the n insertions into an empty array.  The one that makes
\* the array grow does not advance the index, and the next one overwrites it.
LoadedSlots(n) == IF n > InitialSlots + 1 THEN n - 1 ELSE n

LoadedCache(docs, n) ==
  [s \in 1 .. InitialSlots + (IF n > InitialSlots THEN SlotsToAdd ELSE 0) |->
     IF s > LoadedSlots(n) THEN 0
     ELSE stored[docs[IF s > InitialSlots /\ n > InitialSlots + 1 THEN s + 1 ELSE s]]]

Restart ==
  /\ restarts < MaxRestarts
  /\ Cardinality(Documents) <= InitialSlots + SlotsToAdd
  /\ restarts' = restarts + 1
  /\ \E docs \in SetToSeqs(Documents) : cache' = LoadedCache(docs, Cardinality(Documents))
  /\ slotIx' = Cardinality(Documents)
                - IF Cardinality(Documents) > InitialSlots THEN 1 ELSE 0
  /\ mishaps' = IF Cardinality(Documents) > InitialSlots THEN {"growth"} ELSE {}
  /\ list' = << >>
  /\ listSem' = 1
  /\ failed' = {}
  /\ astray' = {}
  /\ unsaved' = {}
  /\ call' = [t \in Thread |-> NoCall]
  /\ UNCHANGED << dbVars, ctxVars, requests >>

-----------------------------------------------------------------------------
FromUrl(t) ==
  \/ CheckList(t) \/ LockList(t) \/ Mark(t)
  \/ DownloadFails(t) \/ ParseFails(t) \/ RemoveBad(t) \/ Downloaded(t)
  \/ StringCached(t) \/ StringCreated(t)
  \/ WaitHit(t) \/ WaitTimeout(t)

Insert(t) == ReadSlot(t) \/ InsertNext(t) \/ InsertHole(t) \/ InsertGrow(t)

Work(t) ==
  \/ FromUrl(t) \/ Insert(t) \/ Unlist(t) \/ Persist(t) \/ PersistFails(t)
  \/ DeleteFromCache(t) \/ Evict(t) \/ EvictNothing(t) \/ PutBack(t)

Next ==
  \/ \E t \in Thread :
       \/ Work(t)
       \/ \E u \in AnyUrl : Delete(t, u)
       \/ \E u \in Url : Use(t, u) \/ Reload(t, u)
       \/ \E u \in OwnUrl : Post(t, u) \/ PostString(t, u)
  \/ Restart

Spec == Init /\ [][Next]_vars

(***************************************************************************)
(* Threads run, downloads end (the HTTP client has a timeout) and the      *)
(* database answers.  No request has to come.                              *)
(***************************************************************************)
FairSpec == Spec /\ \A t \in Thread : WF_vars(Work(t))

-----------------------------------------------------------------------------
Locations == { "idle", "checkList", "lockList", "mark", "download", "removeBad", "wait",
               "readSlot", "insert", "unlist", "persist", "delete", "evict", "putBack" }

Calls == [pc : Locations, op : { "use", "post", "delete", "reload" },
          url : AnyUrl \cup {NULL}, own : 0 .. MaxContexts,
          old : 0 .. MaxContexts, oldId : 0 .. MaxContexts,
          slotNo : Nat, head : Seq(Url \cup {NULL})]

(***************************************************************************)
(* Types; and the lookups, which scan the array up to the index, stay      *)
(* within the array - unless two insertions have used one slot number.     *)
(***************************************************************************)
TypeOK ==
  /\ "stale slot" \notin mishaps => slotIx <= Len(cache)
  /\ cache \in Seq(0 .. MaxContexts)
  /\ slotIx \in Nat
  /\ list \in Seq(Url \cup {NULL})
  /\ listSem \in {0, 1}
  /\ stored \in [Context -> 0 .. MaxContexts]
  /\ made \in 0 .. MaxContexts
  /\ urlOf \in [Context -> AnyUrl \cup {NULL}]
  /\ idOf \in [Context -> 0 .. MaxContexts]
  /\ call \in [Thread -> Calls]
  /\ requests \in 0 .. MaxRequests
  /\ restarts \in 0 .. MaxRestarts
  /\ strings \subseteq 1 .. made
  /\ mishaps \subseteq { "unlocked removal", "stale slot", "growth" }
  /\ astray \subseteq 0 .. MaxContexts
  /\ unsaved \subseteq 0 .. MaxContexts
  /\ failed \subseteq Url

\* A thread that has put the URL in the list and has not come to the removal.
Downloading(t, u) ==
  /\ call[t].url = u
  /\ call[t].op # "post"
  /\ call[t].own # call[t].old \/ call[t].pc \notin { "readSlot", "insert" }
  /\ call[t].pc \in { "download", "removeBad", "readSlot", "insert", "unlist" }

(***************************************************************************)
(* The comment of orionldContextFromUrl, CASE 2 and CASE 3: a thread that  *)
(* finds the URL in the list does not download it, so two threads never    *)
(* download one context at the same time.  And a URL in the list is being  *)
(* downloaded, or a download of it has failed: no other path through       *)
(* orionldContextFromUrl leaves the mark behind.  Both, as long as a       *)
(* removal without the semaphore (of a context that could not be parsed)   *)
(* has not collided with another change of the list, and for URLs that fit *)
(* into an item of the list, whatever the marks of longer ones become: the *)
(* mark of a longer URL may stop nobody, and stay for ever.                *)
(***************************************************************************)
Fits(u) == u \in Url \ LongUrl

MarksMatchDownloads ==
  "unlocked removal" \notin mishaps =>
    /\ \A t, v \in Thread, u \in Url :
         Fits(u) /\ Downloading(t, u) /\ Downloading(v, u) => t = v
    /\ \A u \in Range(list) :
         Fits(u) => u \in failed \/ \E t \in Thread : Downloading(t, u)

(***************************************************************************)
(* A context that is in the database is in the cache too, or is being      *)
(* reloaded: a context is neither lost by the broker that stored it nor    *)
(* brought back by the next one after it was deleted.  The exceptions are  *)
(* two insertions into one slot, the insertion that makes the array grow,  *)
(* a context that is a string, and the documents that went astray: those   *)
(* the database refused to delete, those inserted when the context was     *)
(* not (or no longer) in the cache, and the one whose reload took over a   *)
(* context of somebody else or got a string.                               *)
(* A context that is in the cache is in the database too, or its thread    *)
(* is on its way there, unless the database refused it: a restart loses no *)
(* other context that was answered for.                                    *)
(***************************************************************************)
Unstored(s) ==
  LET c == cache[s]
  IN  /\ idOf[c] = 0 \/ stored[idOf[c]] = 0
      /\ \A t \in Thread : call[t].own = c => call[t].pc \notin { "unlist", "persist" }

Uncached(i) ==
  /\ stored[i] # 0
  /\ \A s \in InUse : idOf[cache[s]] # i
  /\ \A t \in Thread : call[t].oldId = i => call[t].pc = "idle"

CacheAndDatabaseAgree ==
  /\ \A s \in InUse : Unstored(s) => cache[s] \in unsaved
  /\ mishaps \cap { "stale slot", "growth" } = {} =>
       \A i \in Context : Uncached(i) => i \in astray \/ stored[i] \in strings

(***************************************************************************)
(* Every request is answered, whatever happens to the downloads: those who *)
(* wait for the download of somebody else give up after three seconds.     *)
(***************************************************************************)
RequestsEnd == \A t \in Thread : (call[t].pc # "idle") ~> (call[t].pc = "idle")
=============================================================================
