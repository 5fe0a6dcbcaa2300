-------------------------------- MODULE Troe --------------------------------
(***************************************************************************)
(* The tenants of the broker and the temporal representation of entities   *)
(* (TRoE) in Postgres: the list of tenants with its one-element cache      *)
(* (orionld/common/orionldTenant*.cpp), the list of connection pools, one  *)
(* per database, with the connections in them (orionld/troe/pg*.cpp), the  *)
(* preparation of the database of a new tenant, the start-up sequence of   *)
(* orionld.cpp that reaches all of it, and the requests of the HTTP        *)
(* threads:                                                                *)
(*   "make"    - a service that creates its tenant: orionldTenantGet;      *)
(*   "check"   - a service whose tenant must exist;                        *)
(*   "version" - GET /ngsi-ld/ex/v1/version, which asks Postgres too.      *)
(* A served request may end in a transaction of pgCommands.                *)
(*                                                                         *)
(* Records on the heap are numbered in order of allocation, 0 is the null  *)
(* pointer, and pool 1 is pgPoolMaster.  troeDbName is an injective        *)
(* function of the tenant, so the tenant itself stands for it; None is the *)
(* "NULL" database.  What libpq promises is in the section "external".     *)
(***************************************************************************)
EXTENDS Integers, Sequences, FiniteSets

CONSTANTS
  Thread,        \* the threads that serve requests
  Main,          \* the thread that starts the broker
  Tenant,        \* the names of tenants
  Default,       \* tenant0, and the name of its database
  Earlier,       \* the tenants that have a database in Mongo at the outset
  None,
  PoolSize,      \* PgConnectionPool.items (10 in the code)
  Multitenancy,  \* the option -multitenancy
  MaxRequests,   \* bound: requests started
  MaxFaults,     \* bound: failures of Postgres
  MaxRestarts    \* bound: restarts of the broker

ASSUME TroeAssumption ==
  /\ PoolSize \in Nat \ {0}
  /\ Multitenancy \in BOOLEAN
  /\ MaxRequests \in Nat /\ MaxFaults \in Nat /\ MaxRestarts \in Nat
  /\ IsFiniteSet(Thread) /\ Main \notin Thread
  /\ Default \notin Tenant
  /\ Earlier \subseteq Tenant
  /\ None \notin Tenant \cup {Default, Main} \cup Thread

VARIABLES
  tenants,      \* the OrionldTenant records: [tenant, next]
  tenantList,   \* the head of the list
  tenantCache,  \* the last tenant looked up
  tenantSem,    \* its holder, or None
  pools,        \* the PgConnectionPool records: [db, next, queueSem, poolSem, slot]
  database,     \* Postgres: the state of each database
  mongoDb,      \* the tenants that have a database in Mongo
  call,         \* where each thread is, and its local variables:
                \*   pc      where it is          kind    the request
                \*   tenant  its tenant           tp      orionldState.tenantP
                \*   cached  cachedTenantP        caller  of pgConnectionGet
                \*   pool, slot  the connection   null    slot of nullConnectionP
  history,      \* what was committed: <<tenant of the request, database>>
  alive,        \* FALSE: the process has died
  requests, faults, restarts

vars == <<tenants, tenantList, tenantCache, tenantSem, pools, database, mongoDb,
          call, history, alive, requests, faults, restarts>>
tenantVars == <<tenants, tenantList, tenantCache, tenantSem>>
bounds     == <<requests, faults, restarts>>

Name  == Tenant \cup {Default}
Actor == Thread \cup {Main}
Slot  == 1 .. PoolSize
Status == {"unused",   \* connectionV[ix] is NULL
           "virgin",   \* allocated, not connected
           "ok",       \* connected
           "stale",    \* the server has gone, PQstatus does not know it yet
           "bad"}      \* PQstatus is CONNECTION_BAD

Idle == [pc |-> "idle", kind |-> "none", tenant |-> Default, tp |-> 0, cached |-> 0,
         caller |-> "none", pool |-> 0, slot |-> 0, null |-> 0]

Init ==
  /\ tenants = <<>> /\ tenantList = 0 /\ tenantCache = 0 /\ tenantSem = None
  /\ pools = <<>>
  /\ database = [d \in Name |-> "absent"]
  /\ mongoDb = Earlier
  /\ call = [t \in Actor |-> IF t = Main THEN [Idle EXCEPT !.pc = "mongoInit"] ELSE Idle]
  /\ history = {}
  /\ alive = TRUE
  /\ requests = 0 /\ faults = 0 /\ restarts = 0

At(t, pc) == alive /\ call[t].pc = pc

\* pgPoolMaster is inserted before any request is served.
Up == alive /\ call[Main].pc = "up"

---------------------------------------------------------------------------
(* The two linked lists.  A record's next field is set when it is created  *)
(* and points to an older record.                                          *)

\* The loop over a list: the first record that is wanted, or 0.
FirstOnList(head, next, wanted) ==
  LET from[n \in {0} \cup DOMAIN next] == IF n = 0 \/ n \in wanted THEN n ELSE from[next[n]]
  IN  from[head]

\* The tenant with this name.
Listed(name) ==
  FirstOnList(tenantList, [n \in 1 .. Len(tenants) |-> tenants[n].next],
              {n \in 1 .. Len(tenants) : tenants[n].tenant = name})

\* The pool for this database.  Pool 1, which the list hangs on, is not in it.
PoolOf(db) ==
  FirstOnList(pools[1].next, [p \in 2 .. Len(pools) |-> pools[p].next],
              {p \in 2 .. Len(pools) : pools[p].db = db})

---------------------------------------------------------------------------
(* External: libpq and the server.                                         *)

\* PQexec returns NULL on a connection known to be bad; on a stale one it
\* returns an error, and the connection is known to be bad from then on.
ExecNull(p, s)  == pools[p].slot[s].status = "bad"
AfterExec(p, s) == IF pools[p].slot[s].status = "stale" THEN "bad" ELSE pools[p].slot[s].status
Works(p, s)     == pools[p].slot[s].status = "ok"

\* The server restarts: no connection survives.
PostgresRestart ==
  /\ alive /\ faults < MaxFaults
  /\ faults' = faults + 1
  /\ pools' = [p \in DOMAIN pools |-> [pools[p] EXCEPT !.slot =
                [s \in Slot |-> IF @[s].status = "ok" THEN [@[s] EXCEPT !.status = "stale"]
                                                      ELSE @[s]]]]
  /\ UNCHANGED <<tenantVars, database, mongoDb, call, history, alive, requests, restarts>>

---------------------------------------------------------------------------
(* pgConnectionGet and pgConnectionRelease.                                *)

\* The database that the caller asks for.
TroeDb(t)  == IF call[t].tp = 0 THEN Default ELSE tenants[call[t].tp].tenant
DbAsked(t) == IF call[t].caller \in {"prepare", "version"} THEN None ELSE TroeDb(t)

EmptyPool(db, next) ==
  [db |-> db, next |-> next, queueSem |-> PoolSize, poolSem |-> None,
   slot |-> [s \in Slot |-> [status |-> "unused", busy |-> FALSE]]]

FindPool(t) ==
  /\ At(t, "find")
  /\ LET p == IF DbAsked(t) # None THEN PoolOf(DbAsked(t)) ELSE IF pools = <<>> THEN 0 ELSE 1 IN
     call' = [call EXCEPT ![t].pool = p, ![t].slot = 0,
                          ![t].pc = IF p # 0 THEN "queue"
                                    ELSE IF DbAsked(t) = None THEN "got" ELSE "insert"]
  /\ UNCHANGED <<tenantVars, pools, database, mongoDb, history, alive, bounds>>

\* pgConnectionPoolCreate, and the first assignment of pgConnectionPoolInsert.
CreatePool(t) ==
  /\ At(t, "insert")
  /\ pools' = Append(pools, EmptyPool(DbAsked(t), pools[1].next))
  /\ call' = [call EXCEPT ![t].pool = Len(pools) + 1, ![t].pc = "link"]
  /\ UNCHANGED <<tenantVars, database, mongoDb, history, alive, bounds>>

\* The second one.
LinkPool(t) ==
  /\ At(t, "link")
  /\ pools' = [pools EXCEPT ![1].next = call[t].pool]
  /\ call' = [call EXCEPT ![t].pc = "queue"]
  /\ UNCHANGED <<tenantVars, database, mongoDb, history, alive, bounds>>

QueueWait(t) ==
  /\ At(t, "queue")
  /\ pools[call[t].pool].queueSem > 0
  /\ pools' = [pools EXCEPT ![call[t].pool].queueSem = @ - 1]
  /\ call' = [call EXCEPT ![t].pc = "search"]
  /\ UNCHANGED <<tenantVars, database, mongoDb, history, alive, bounds>>

Free(p, s)      == ~pools[p].slot[s].busy
Connected(p, s) == pools[p].slot[s].status \in {"ok", "stale", "bad"}

First(S) == IF S = {} THEN 0 ELSE CHOOSE s \in S : \A u \in S : s <= u

\* A slot that is taken; a connection is allocated for it if there was none.
TakenSlot(c) == [status |-> IF c.status = "unused" THEN "virgin" ELSE c.status, busy |-> TRUE]

TakeSlot(p, s) ==
  IF s = 0 THEN pools[p].slot
  ELSE [pools[p].slot EXCEPT ![s] = TakenSlot(pools[p].slot[s])]

\* Mutant: the counting semaphore is not posted if there is no slot.
Take_NoPost(p, s) ==
  [pools EXCEPT ![p].queueSem = IF s = 0 THEN @ ELSE @ + 1, ![p].poolSem = None,
                ![p].slot = TakeSlot(p, s)]

\* Mark a slot as busy and post both semaphores.  The counting one is posted
\* here, while the connection is in use, and not when it is released.
Take(p, s) ==
  [pools EXCEPT ![p].queueSem = @ + 1, ![p].poolSem = None, ![p].slot = TakeSlot(p, s)]

\* The first loop, for a connection that is free and connected.  poolSem is
\* taken in front of it.
SearchConnected(t) ==
  /\ At(t, "search")
  /\ LET p == call[t].pool
         s == First({u \in Slot : Free(p, u) /\ Connected(p, u)})
     IN  /\ pools[p].poolSem = None
         /\ IF s # 0
            THEN /\ pools' = Take(p, s)
                 /\ call' = [call EXCEPT ![t].slot = s, ![t].pc = "got"]
            ELSE /\ pools' = [pools EXCEPT ![p].poolSem = t]
                 /\ call' = [call EXCEPT ![t].pc = "searchAny"]
  /\ UNCHANGED <<tenantVars, database, mongoDb, history, alive, bounds>>

\* The second loop, for any free slot.  A slot that was released since the
\* first loop may be connected.
SearchAny(t) ==
  /\ At(t, "searchAny")
  /\ LET p == call[t].pool
         s == First({u \in Slot : Free(p, u)})
     IN  /\ pools' = Take(p, s)
         /\ call' = [call EXCEPT ![t].slot = s,
                       ![t].pc = IF s = 0 \/ Connected(p, s) THEN "got" ELSE "connect"]
  /\ UNCHANGED <<tenantVars, database, mongoDb, history, alive, bounds>>

SetSlot(p, s, status, busy) == [pools EXCEPT ![p].slot[s] = [status |-> status, busy |-> busy]]

DbExists(db) == db = None \/ database[db] # "absent"

\* pgConnect.  A connection to a database that does not exist is a bad one,
\* and is kept in the slot like any other.
Connect(t) ==
  /\ At(t, "connect")
  /\ pools' = SetSlot(call[t].pool, call[t].slot,
                      IF DbExists(pools[call[t].pool].db) THEN "ok" ELSE "bad", TRUE)
  /\ call' = [call EXCEPT ![t].pc = "got"]
  /\ UNCHANGED <<tenantVars, database, mongoDb, history, alive, bounds>>

\* Postgres is not there: a bad connection, or none after a hundred attempts.
ConnectFails(t) ==
  /\ At(t, "connect") /\ faults < MaxFaults
  /\ \E none \in BOOLEAN :
       /\ pools' = SetSlot(call[t].pool, call[t].slot,
                           IF none THEN "virgin" ELSE "bad", ~none)
       /\ call' = [call EXCEPT ![t].slot = IF none THEN 0 ELSE @, ![t].pc = "got"]
  /\ faults' = faults + 1
  /\ UNCHANGED <<tenantVars, database, mongoDb, history, alive, requests, restarts>>

\* Mutant: the connection is not released.
Release_Not(p, s, status) == SetSlot(p, s, status, TRUE)

\* pgConnectionRelease, after a command that left the connection in a status.
Release(p, s, status) == SetSlot(p, s, status, FALSE)

---------------------------------------------------------------------------
(* The list of tenants.                                                    *)

\* Mutant: the tenant is returned from tenantCache, not from the help variable.
Found_SharedCache(t) ==
  IF call[t].cached # 0 /\ tenants[call[t].cached].tenant = call[t].tenant
  THEN tenantCache
  ELSE Listed(call[t].tenant)

\* The result of orionldTenantLookup, once it has read tenantCache.
Found(t) ==
  IF call[t].cached # 0 /\ tenants[call[t].cached].tenant = call[t].tenant
  THEN call[t].cached
  ELSE Listed(call[t].tenant)

ReadCache(t) ==
  /\ At(t, "lookup")
  /\ call' = [call EXCEPT ![t].cached = tenantCache, ![t].pc = "compare"]
  /\ UNCHANGED <<tenantVars, pools, database, mongoDb, history, alive, bounds>>

\* The rest of orionldTenantLookup, and what its caller does with the result.
\* Only orionldTenantGet updates the cache.
Lookup(t) ==
  /\ At(t, "compare")
  /\ LET tp  == Found(t)
         get == call[t].kind = "make"
     IN  /\ call' = [call EXCEPT ![t].tp = tp, ![t].cached = 0,
                       ![t].pc = IF tp # 0 THEN "serve"
                                 ELSE IF ~get THEN "exists"
                                 ELSE IF tenantSem = t THEN "push" ELSE "tenantSem"]
         /\ tenantCache' = IF get /\ tp # 0 THEN tp ELSE tenantCache
         /\ tenantSem' = IF tp # 0 /\ tenantSem = t THEN None ELSE tenantSem
  /\ UNCHANGED <<tenants, tenantList, pools, database, mongoDb, history, alive, bounds>>

\* orionldTenantGet takes the semaphore and looks the tenant up again.
TakeTenantSem(t) ==
  /\ At(t, "tenantSem") /\ tenantSem = None
  /\ tenantSem' = t
  /\ call' = [call EXCEPT ![t].pc = "lookup"]
  /\ UNCHANGED <<tenants, tenantList, tenantCache, pools, database, mongoDb, history, alive, bounds>>

\* dbTenantExists; the tenant is then created without the semaphore.
TenantExists(t) ==
  /\ At(t, "exists")
  /\ call' = [call EXCEPT ![t] = IF @.tenant \in mongoDb THEN [@ EXCEPT !.pc = "push"] ELSE Idle]
  /\ UNCHANGED <<tenantVars, pools, database, mongoDb, history, alive, bounds>>

\* orionldTenantCreate: the new record, which is not in the list yet ...
NewTenant(t) ==
  /\ At(t, "push")
  /\ tenants' = Append(tenants, [tenant |-> call[t].tenant, next |-> tenantList])
  /\ call' = [call EXCEPT ![t].tp = Len(tenants) + 1, ![t].pc = "publish"]
  /\ UNCHANGED <<tenantList, tenantCache, tenantSem, pools, database, mongoDb, history, alive, bounds>>

\* ... and now it is.  Its database in Postgres is prepared afterwards.  (An
\* index in Mongo is only created with -idIndex, which is off by default.)
PublishTenant(t) ==
  /\ At(t, "publish")
  /\ tenantList' = call[t].tp
  /\ call' = [call EXCEPT ![t].pc = "find", ![t].caller = "prepare"]
  /\ UNCHANGED <<tenants, tenantCache, tenantSem, pools, database, mongoDb, history, alive, bounds>>

---------------------------------------------------------------------------
(* pgDatabasePrepare and pgDatabaseCreate.                                 *)

\* The caller has its connection, or the slot is 0.
Got(t, caller) == At(t, "got") /\ call[t].caller = caller

\* Where to go on when the database is prepared.  The start-up of TRoE ends
\* the process if it is not.  orionldTenantCreate then writes the name of
\* orionldState.tenantP to the log: a pointer that is null, except in an
\* NGSI-LD request (and not in one of NGSIv2) that creates its tenant.
Prepared(t, result) ==
  LET pc == IF t \in Thread THEN "prepared"
            ELSE IF call[t].kind # "troeInit" THEN call[t].kind
            ELSE IF result THEN "dbInit" ELSE "exit"
  IN  /\ call' = [call EXCEPT ![t].pc = pc, ![t].pool = 0, ![t].slot = 0, ![t].null = 0]
      /\ alive' \in IF result \/ call[t].kind = "troeInit" THEN {TRUE}
                    ELSE IF call[t].kind = "make" THEN BOOLEAN ELSE {FALSE}

\* No connection at all: the error message reads through the null pointer,
\* and the process dies.
PrepareDies(t) ==
  /\ Got(t, "prepare") /\ call[t].slot = 0
  /\ alive' = FALSE
  /\ UNCHANGED <<tenantVars, pools, database, mongoDb, call, history, bounds>>

\* A bad connection: an error, and the connection is not released.
PrepareFails(t) ==
  /\ Got(t, "prepare") /\ call[t].slot # 0
  /\ pools[1].slot[call[t].slot].status = "bad"
  /\ Prepared(t, FALSE)
  /\ UNCHANGED <<tenantVars, pools, database, mongoDb, history, bounds>>

\* CREATE DATABASE.  The error of a database that exists already, or of a
\* stale connection, is a result like any other.
CreateDatabase(t) ==
  /\ Got(t, "prepare") /\ call[t].slot # 0
  /\ LET s == call[t].slot
     IN  /\ pools[1].slot[s].status # "bad"
         /\ database' = IF Works(1, s) /\ database[TroeDb(t)] = "absent"
                        THEN [database EXCEPT ![TroeDb(t)] = "created"] ELSE database
         /\ pools' = SetSlot(1, s, AfterExec(1, s), TRUE)
         /\ call' = [call EXCEPT ![t].null = s, ![t].pc = "find", ![t].caller = "create"]
  /\ UNCHANGED <<tenantVars, mongoDb, history, alive, bounds>>

\* CREATE EXTENSION.  pgDatabasePrepare returns true if there is no connection
\* to the new database, and releases that to the "NULL" one in every case.
CreateExtension(t) ==
  /\ Got(t, "create")
  /\ LET p == call[t].pool
         s == call[t].slot
         released == Release(1, call[t].null, pools[1].slot[call[t].null].status)
     IN  IF s = 0
         THEN pools' = released /\ Prepared(t, TRUE)
         ELSE IF ExecNull(p, s)
         THEN /\ pools' = [released EXCEPT ![p].slot[s].busy = FALSE]
              /\ Prepared(t, TRUE)
         ELSE /\ pools' = [released EXCEPT ![p].slot[s].status = AfterExec(p, s)]
              /\ call' = [call EXCEPT ![t].pc = "tables", ![t].null = 0]
              /\ alive' = TRUE
  /\ UNCHANGED <<tenantVars, database, mongoDb, history, bounds>>

\* pgDatabaseTableCreateAll, one transaction.
CreateTables(t) ==
  /\ At(t, "tables")
  /\ LET p == call[t].pool
         s == call[t].slot
     IN  /\ database' = IF Works(p, s) THEN [database EXCEPT ![pools[p].db] = "ready"] ELSE database
         /\ pools' = Release(p, s, AfterExec(p, s))
         /\ Prepared(t, Works(p, s))
  /\ UNCHANGED <<tenantVars, mongoDb, history, bounds>>

\* Mutant: the semaphore is not posted after a creation.
TenantReady_KeepSem(t) ==
  /\ At(t, "prepared")
  /\ tenantCache' = IF call[t].kind = "make" THEN call[t].tp ELSE tenantCache
  /\ call' = [call EXCEPT ![t].pc = "serve"]
  /\ UNCHANGED <<tenants, tenantList, tenantSem, pools, database, mongoDb, history, alive, bounds>>

\* The end of orionldTenantCreate and of orionldTenantGet.
TenantReady(t) ==
  /\ At(t, "prepared")
  /\ tenantCache' = IF call[t].kind = "make" THEN call[t].tp ELSE tenantCache
  /\ tenantSem' = IF tenantSem = t THEN None ELSE tenantSem
  /\ call' = [call EXCEPT ![t].pc = "serve"]
  /\ UNCHANGED <<tenants, tenantList, pools, database, mongoDb, history, alive, bounds>>

---------------------------------------------------------------------------
(* Requests.                                                               *)

\* tenant0 is not looked up; the version is not asked of a tenant.
Request(t) ==
  /\ Up /\ At(t, "idle") /\ requests < MaxRequests
  /\ requests' = requests + 1
  /\ \/ \E k \in {"make", "check"}, n \in Name :
          call' = [call EXCEPT ![t] = [Idle EXCEPT !.kind = k, !.tenant = n,
                                         !.pc = IF n = Default THEN "serve" ELSE "lookup"]]
     \/ call' = [call EXCEPT ![t] = [Idle EXCEPT !.kind = "version", !.caller = "version",
                                                 !.pc = "find"]]
  /\ UNCHANGED <<tenantVars, pools, database, mongoDb, history, alive, faults, restarts>>

\* The service routine.  A successful one of those that change entities goes
\* on to its TRoE routine, and so to pgCommands; the first entity of a tenant
\* creates its database in Mongo.
Serve(t) ==
  /\ At(t, "serve")
  /\ \/ /\ call' = [call EXCEPT ![t] = Idle]
        /\ mongoDb' = mongoDb
     \/ /\ call' = [call EXCEPT ![t].pc = "find", ![t].caller = "commands"]
        /\ mongoDb' = mongoDb \cup ({call[t].tenant} \ {Default})
  /\ UNCHANGED <<tenantVars, pools, database, history, alive, bounds>>

End(t) == call' = [call EXCEPT ![t] = Idle]

Version(t) ==
  /\ Got(t, "version")
  /\ LET s == call[t].slot IN
     pools' = IF s = 0 THEN pools ELSE Release(1, s, pools[1].slot[s].status)
  /\ End(t)
  /\ UNCHANGED <<tenantVars, database, mongoDb, history, alive, bounds>>

\* pgCommands.  Without a connection nothing is saved.  On a connection that is
\* stale or bad, BEGIN or the command after it ends in NULL: the rest is skipped.
Commands(t) ==
  /\ Got(t, "commands")
  /\ LET p == call[t].pool
         s == call[t].slot
     IN  IF s = 0 THEN pools' = pools /\ End(t)
         ELSE IF ~Works(p, s) THEN pools' = Release(p, s, "bad") /\ End(t)
         ELSE pools' = pools /\ call' = [call EXCEPT ![t].pc = "commit"]
  /\ UNCHANGED <<tenantVars, database, mongoDb, history, alive, bounds>>

\* The transaction of a database without tables has failed: nothing to commit.
Commit(t) ==
  /\ At(t, "commit")
  /\ LET p == call[t].pool
         s == call[t].slot
     IN  /\ history' = IF Works(p, s) /\ database[pools[p].db] = "ready"
                       THEN history \cup {<<call[t].tenant, pools[p].db>>} ELSE history
         /\ pools' = Release(p, s, AfterExec(p, s))
  /\ End(t)
  /\ UNCHANGED <<tenantVars, database, mongoDb, alive, bounds>>

---------------------------------------------------------------------------
(* The start-up sequence: mongoInit, troeInit, dbInit.                     *)

Unlisted == {n \in mongoDb : Listed(n) = 0}

\* mongoInit, with -multitenancy: orionldTenantGet for every database of a
\* tenant.  Nobody else runs.
MongoInit ==
  /\ At(Main, "mongoInit")
  /\ IF Multitenancy /\ Unlisted # {}
     THEN \E n \in Unlisted :
            call' = [call EXCEPT ![Main].kind = "mongoInit", ![Main].tenant = n, ![Main].pc = "push"]
     ELSE call' = [call EXCEPT ![Main].pc = "troeInit"]
  /\ UNCHANGED <<tenantVars, pools, database, mongoDb, history, alive, bounds>>

\* pgConnectionPoolInit, and the preparation of the database of tenant0.
TroeInit ==
  /\ At(Main, "troeInit")
  /\ pools' = <<EmptyPool(None, 0)>>
  /\ call' = [call EXCEPT ![Main] = [Idle EXCEPT !.kind = "troeInit", !.pc = "find", !.caller = "prepare"]]
  /\ UNCHANGED <<tenantVars, database, mongoDb, history, alive, bounds>>

\* mongoCppLegacyTenantsGet creates the tenants that are not in the list yet.
DbInit ==
  /\ At(Main, "dbInit")
  /\ IF Unlisted # {}
     THEN \E n \in Unlisted :
            call' = [call EXCEPT ![Main].kind = "dbInit", ![Main].tenant = n, ![Main].pc = "push"]
     ELSE call' = [call EXCEPT ![Main] = [Idle EXCEPT !.pc = "up"]]
  /\ UNCHANGED <<tenantVars, pools, database, mongoDb, history, alive, bounds>>

Exit ==
  /\ At(Main, "exit")
  /\ alive' = FALSE
  /\ UNCHANGED <<tenantVars, pools, database, mongoDb, call, history, bounds>>

\* The process is started again, after it died or at any other time.
Restart ==
  /\ restarts < MaxRestarts
  /\ restarts' = restarts + 1
  /\ alive' = TRUE
  /\ tenants' = <<>> /\ tenantList' = 0 /\ tenantCache' = 0 /\ tenantSem' = None
  /\ pools' = <<>>
  /\ call' = [t \in Actor |-> IF t = Main THEN [Idle EXCEPT !.pc = "mongoInit"] ELSE Idle]
  /\ UNCHANGED <<database, mongoDb, history, requests, faults>>

\* Another broker on the same Mongo creates a tenant.
OtherBroker ==
  /\ faults < MaxFaults
  /\ \E n \in Tenant \ mongoDb : mongoDb' = mongoDb \cup {n}
  /\ faults' = faults + 1
  /\ UNCHANGED <<tenantVars, pools, database, call, history, alive, requests, restarts>>

Step(t) ==
  \/ FindPool(t) \/ CreatePool(t) \/ LinkPool(t)
  \/ QueueWait(t) \/ SearchConnected(t) \/ SearchAny(t) \/ Connect(t)
  \/ ReadCache(t) \/ Lookup(t) \/ TakeTenantSem(t) \/ TenantExists(t)
  \/ NewTenant(t) \/ PublishTenant(t)
  \/ PrepareDies(t) \/ PrepareFails(t) \/ CreateDatabase(t)
  \/ CreateExtension(t) \/ CreateTables(t) \/ TenantReady(t)
  \/ Serve(t) \/ Version(t) \/ Commands(t) \/ Commit(t)

Boot == MongoInit \/ TroeInit \/ DbInit \/ Exit

Next ==
  \/ \E t \in Actor : Step(t) \/ ConnectFails(t)
  \/ \E t \in Thread : Request(t)
  \/ Boot \/ Restart \/ PostgresRestart \/ OtherBroker

Spec == Init /\ [][Next]_vars

---------------------------------------------------------------------------
(* Properties.                                                             *)

Held(t) ==
  {c \in {<<call[t].pool, call[t].slot>>, <<1, call[t].null>>} : c[2] # 0}

(***************************************************************************)
(* Types; and the counting semaphore of a pool counts the threads between  *)
(* its wait and its post, so it always comes back to the size of the pool. *)
(***************************************************************************)
TypeOK ==
  /\ \A p \in DOMAIN pools :
       pools[p].queueSem = PoolSize -
         Cardinality({t \in Actor : call[t].pool = p /\ call[t].pc \in {"search", "searchAny"}})
  /\ \A n \in DOMAIN tenants : tenants[n].tenant \in Tenant /\ tenants[n].next \in 0 .. n - 1
  /\ tenantList \in 0 .. Len(tenants) /\ tenantCache \in 0 .. Len(tenants)
  /\ tenantSem \in Thread \cup {Main, None}
  /\ \A p \in DOMAIN pools :
       /\ pools[p].db \in Name \cup {None} /\ pools[p].next \in 0 .. Len(pools)
       /\ pools[p].queueSem \in 0 .. PoolSize /\ pools[p].poolSem \in Thread \cup {Main, None}
       /\ pools[p].slot \in [Slot -> [status : Status, busy : BOOLEAN]]
  /\ database \in [Name -> {"absent", "created", "ready"}]
  /\ mongoDb \in SUBSET Tenant
  /\ history \in SUBSET (Name \X Name)
  /\ alive \in BOOLEAN
  /\ requests \in 0 .. MaxRequests /\ faults \in 0 .. MaxFaults /\ restarts \in 0 .. MaxRestarts

(***************************************************************************)
(* A connection serves one thread at a time: pgConnectionGet marks it busy *)
(* under poolSem, whereas connecting it and releasing it are not protected *)
(* by anything.  A busy connection is in the hands of a thread - or it is  *)
(* a bad one of the "NULL" database, which pgDatabasePrepare does not      *)
(* release.                                                                *)
(***************************************************************************)
ConnectionsAccountedFor ==
  /\ \A t, u \in Actor : (t # u /\ alive) => Held(t) \cap Held(u) = {}
  /\ \A p \in DOMAIN pools, s \in Slot : pools[p].slot[s].busy =>
       \/ \E t \in Actor : <<p, s>> \in Held(t)
       \/ p = 1 /\ pools[1].slot[s].status = "bad"

(***************************************************************************)
(* What is committed for a request goes to the database of its own tenant: *)
(* neither the unprotected tenantCache nor the unprotected lists of        *)
(* tenants and pools ever give a request the data of another tenant.       *)
(***************************************************************************)
TenantIsolation ==
  /\ \A h \in history : h[1] = h[2]
  /\ \A t \in Thread : call[t].tp # 0 => tenants[call[t].tp].tenant = call[t].tenant

(***************************************************************************)
(* orionld.cpp: "The database for Temporal Representation of Entities must *)
(* be initialized before mongodb as callbacks to create tenants (==        *)
(* postgres databases) and their tables are called from the initialization *)
(* routines of mongodb": when a tenant is created, the pools are there.    *)
(***************************************************************************)
PostgresBeforeTenants == tenants # <<>> => pools # <<>>

(***************************************************************************)
(* Nobody waits for ever: as long as a thread is in a request, some thread *)
(* that is in one can go on, and every step brings its request nearer to   *)
(* its end.  tenantSem is held while a database is prepared, which waits   *)
(* for the semaphores of two pools.                                        *)
(***************************************************************************)
Blocked(t) ==
  \/ call[t].pc = "queue" /\ pools[call[t].pool].queueSem = 0
  \/ call[t].pc = "search" /\ pools[call[t].pool].poolSem # None
  \/ call[t].pc = "tenantSem" /\ tenantSem # None

SomebodyProceeds ==
  (\E t \in Thread : call[t].pc # "idle") => \E t \in Thread : call[t].pc # "idle" /\ ~Blocked(t)

=============================================================================
