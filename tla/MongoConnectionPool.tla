------------------------- MODULE MongoConnectionPool -------------------------
(***************************************************************************)
(* The pool of MongoDB connections of the broker                           *)
(* (src/lib/mongoBackend/mongoConnectionPool.cpp) and the threads that     *)
(* borrow connections from it.                                             *)
(*                                                                         *)
(* The pool is a vector of slots, each with a 'free' flag and a            *)
(* connection.  A binary semaphore (connectionPoolSem) protects the vector *)
(* and a counting semaphore (connectionSem) counts the connections that    *)
(* can be borrowed.  The connection of a slot is NULL when mongoConnect    *)
(* gave up while the pool was created; only slot 1 must be connected.      *)
(*                                                                         *)
(* A thread borrows a connection in one of three ways:                     *)
(*   "op"     - the wrappers of connectionOperations.cpp, which return     *)
(*              WITHOUT releasing when they are handed a NULL connection;  *)
(*   "cursor" - the users of collectionQuery and collectionRangedQuery,    *)
(*              which release whatever they were handed, NULL included;    *)
(*              one of them, mongoRegistrationDelete, calls a wrapper      *)
(*              before it releases: it waits for a second connection while *)
(*              it has the first;                                          *)
(*   "legacy" - the functions of orionld/mongoCppLegacy, which use what    *)
(*              they get without looking: NULL, or an exception that       *)
(*              nobody catches, ends the process.  Two of them return      *)
(*              without releasing a live connection when the database      *)
(*              fails them.                                                *)
(***************************************************************************)
EXTENDS Naturals, FiniteSets

CONSTANTS
  Thread,      \* the threads that use the database
  PoolSize,    \* -dbPoolSize
  MaxDead,     \* bound: slots whose connection attempts may all fail
  NULL         \* the null pointer

ASSUME PoolAssumption ==
  /\ PoolSize \in Nat \ {0}
  /\ MaxDead \in Nat
  /\ NULL \notin Nat \cup Thread
  /\ IsFiniteSet(Thread)

Slots == 1 .. PoolSize

VARIABLES
  boot,               \* next slot to connect; PoolSize + 1 once the pool is up
  free,               \* connectionPool[ix].free
  connection,         \* connectionPool[ix].connection: the slot's own, or NULL
  connectionPoolSem,  \* binary semaphore that protects the vector
  connectionSem,      \* counting semaphore of borrowable connections
  pc,                 \* where each thread is
  style,              \* how each thread borrows
  ix,                 \* loop variable of the scan: the slot it found; 0 outside the scan
  conn,               \* the thread's local variable 'connection'
  outer,              \* 'connection' of a caller that borrows a second one, or NULL
  leaked              \* history: the live connections nobody will release

vars == << boot, free, connection, connectionPoolSem, connectionSem,
           pc, style, ix, conn, outer, leaked >>

poolVars == << boot, connection, leaked >>

Styles == { "op", "cursor", "legacy" }

Locations == { "idle", "waitConnection", "waitPool", "scan", "claim", "postGet",
               "use", "waitPoolRelease", "giveBack", "postRelease" }

\* The threads between sem_wait and sem_post of connectionPoolSem.
InPool(t) == pc[t] \in { "scan", "claim", "postGet", "giveBack", "postRelease" }

\* The threads that have passed sem_wait(connectionSem) and hold no slot yet.
Granted(t) == pc[t] \in { "waitPool", "scan", "claim" }

\* The threads that have a connection, from the claim to the give-back.
Holding(t) == pc[t] \in { "postGet", "use", "waitPoolRelease", "giveBack" }

Booted == boot > PoolSize

DeadSlots == { s \in Slots : s < boot /\ connection[s] = NULL }

Init ==
  /\ boot = 1
  /\ free = [s \in Slots |-> FALSE]
  /\ connection = [s \in Slots |-> NULL]
  /\ connectionPoolSem = 0
  /\ connectionSem = 0
  /\ pc = [t \in Thread |-> "idle"]
  /\ style = [t \in Thread |-> "op"]
  /\ ix = [t \in Thread |-> 0]
  /\ conn = [t \in Thread |-> NULL]
  /\ outer = [t \in Thread |-> NULL]
  /\ leaked = {}

-----------------------------------------------------------------------------
\* A new process: the state of Init.
Restart ==
  /\ boot' = 1
  /\ free' = [s \in Slots |-> FALSE]
  /\ connection' = [s \in Slots |-> NULL]
  /\ connectionPoolSem' = 0
  /\ connectionSem' = 0
  /\ pc' = [t \in Thread |-> "idle"]
  /\ style' = [t \in Thread |-> "op"]
  /\ ix' = [t \in Thread |-> 0]
  /\ conn' = [t \in Thread |-> NULL]
  /\ outer' = [t \in Thread |-> NULL]
  /\ leaked' = {}

-----------------------------------------------------------------------------
(***************************************************************************)
(* mongoConnectionPoolInit, run by the main thread before any other thread *)
(* exists.  mongoConnect answers the slot's connection, or NULL after its  *)
(* last retry; the broker exits when that happens to the first slot, so    *)
(* that outcome is not a step.                                             *)
(***************************************************************************)
mongoConnect(s) ==
  { s } \cup IF s # 1 /\ Cardinality(DeadSlots) < MaxDead THEN { NULL } ELSE {}

ConnectSlot ==
  /\ ~Booted
  /\ \E c \in mongoConnect(boot) : connection' = [connection EXCEPT ![boot] = c]
  /\ free' = [free EXCEPT ![boot] = TRUE]
  /\ boot' = boot + 1
  /\ connectionPoolSem' = IF boot = PoolSize THEN 1 ELSE connectionPoolSem
  /\ connectionSem' = IF boot = PoolSize THEN PoolSize ELSE connectionSem
  /\ UNCHANGED << pc, style, ix, conn, outer, leaked >>

-----------------------------------------------------------------------------
(***************************************************************************)
(* mongoPoolConnectionGet.                                                 *)
(***************************************************************************)
Call(t, how) ==
  /\ Booted
  /\ pc[t] = "idle"
  /\ pc' = [pc EXCEPT ![t] = "waitConnection"]
  /\ style' = [style EXCEPT ![t] = how]
  /\ UNCHANGED << poolVars, free, connectionPoolSem, connectionSem, ix, conn, outer >>

GetWaitConnection(t) ==
  /\ pc[t] = "waitConnection"
  /\ connectionSem > 0
  /\ connectionSem' = connectionSem - 1
  /\ pc' = [pc EXCEPT ![t] = "waitPool"]
  /\ UNCHANGED << poolVars, free, connectionPoolSem, style, ix, conn, outer >>

\* Mutant: the vector is scanned while another thread is in the middle of it.
GetWaitPool_NoLock(t) ==
  /\ pc[t] = "waitPool"
  /\ connectionPoolSem' = 0
  /\ pc' = [pc EXCEPT ![t] = "scan"]
  /\ UNCHANGED << poolVars, free, connectionSem, style, ix, conn, outer >>

GetWaitPool(t) ==
  /\ pc[t] = "waitPool"
  /\ connectionPoolSem > 0
  /\ connectionPoolSem' = connectionPoolSem - 1
  /\ pc' = [pc EXCEPT ![t] = "scan"]
  /\ UNCHANGED << poolVars, free, connectionSem, style, ix, conn, outer >>

\* The loop finds the first free slot ...
GetScanFound(t) ==
  /\ pc[t] = "scan"
  /\ \E s \in Slots :
       /\ free[s]
       /\ \A r \in Slots : r < s => ~free[r]
       /\ ix' = [ix EXCEPT ![t] = s]
  /\ pc' = [pc EXCEPT ![t] = "claim"]
  /\ UNCHANGED << poolVars, free, connectionPoolSem, connectionSem, style, conn, outer >>

\* ... or runs off the end of the vector, and NULL is returned.
GetScanNothing(t) ==
  /\ pc[t] = "scan"
  /\ \A s \in Slots : ~free[s]
  /\ conn' = [conn EXCEPT ![t] = NULL]
  /\ pc' = [pc EXCEPT ![t] = "postGet"]
  /\ UNCHANGED << poolVars, free, connectionPoolSem, connectionSem, style, ix, outer >>

\* Mutant: the slot that is handed out stays free.
GetClaim_StaysFree(t) ==
  /\ pc[t] = "claim"
  /\ conn' = [conn EXCEPT ![t] = connection[ix[t]]]
  /\ ix' = [ix EXCEPT ![t] = 0]
  /\ pc' = [pc EXCEPT ![t] = "postGet"]
  /\ UNCHANGED << poolVars, free, connectionPoolSem, connectionSem, style, outer >>

GetClaim(t) ==
  /\ pc[t] = "claim"
  /\ free' = [free EXCEPT ![ix[t]] = FALSE]
  /\ conn' = [conn EXCEPT ![t] = connection[ix[t]]]
  /\ ix' = [ix EXCEPT ![t] = 0]
  /\ pc' = [pc EXCEPT ![t] = "postGet"]
  /\ UNCHANGED << poolVars, connectionPoolSem, connectionSem, style, outer >>

\* Mutant: the semaphore of the vector is given twice.
GetPost_Twice(t) ==
  /\ pc[t] = "postGet"
  /\ connectionPoolSem' = connectionPoolSem + 2
  /\ pc' = [pc EXCEPT ![t] = "use"]
  /\ UNCHANGED << poolVars, free, connectionSem, style, ix, conn, outer >>

GetPost(t) ==
  /\ pc[t] = "postGet"
  /\ connectionPoolSem' = connectionPoolSem + 1
  /\ pc' = [pc EXCEPT ![t] = "use"]
  /\ UNCHANGED << poolVars, free, connectionSem, style, ix, conn, outer >>

-----------------------------------------------------------------------------
(***************************************************************************)
(* The borrower is done.  The wrappers of connectionOperations.cpp return  *)
(* early on a NULL connection; the other users of that file and of the     *)
(* cursors call releaseMongoConnection on success and on every exception,  *)
(* and so do the legacy functions that are not failed by the database.     *)
(*                                                                         *)
(* Whoever borrowed a second connection goes back to the first one, which  *)
(* it then releases, whatever came of the second.  The local variables of  *)
(* a function that has returned are reset.                                 *)
(***************************************************************************)
Return(t) ==
  /\ pc' = [pc EXCEPT ![t] = IF outer[t] = NULL THEN "idle" ELSE "waitPoolRelease"]
  /\ conn' = [conn EXCEPT ![t] = outer[t]]
  /\ outer' = [outer EXCEPT ![t] = NULL]
  /\ style' = [style EXCEPT ![t] = "op"]

\* Mutant: a wrapper forgets the connection on an error path.
ReturnOnNull_AnyConnection(t) ==
  /\ pc[t] = "use"
  /\ style[t] = "op"
  /\ Return(t)
  /\ UNCHANGED << poolVars, free, connectionPoolSem, connectionSem, ix >>

ReturnOnNull(t) ==
  /\ pc[t] = "use"
  /\ style[t] = "op"
  /\ conn[t] = NULL
  /\ Return(t)
  /\ UNCHANGED << poolVars, free, connectionPoolSem, connectionSem, ix >>

Finish(t) ==
  /\ pc[t] = "use"
  /\ style[t] \in { "op", "legacy" } => conn[t] # NULL
  /\ pc' = [pc EXCEPT ![t] = "waitPoolRelease"]
  /\ UNCHANGED << poolVars, free, connectionPoolSem, connectionSem, style, ix, conn, outer >>

\* mongoRegistrationDelete has found the registration and calls collectionRemove.
Nest(t) ==
  /\ pc[t] = "use"
  /\ style[t] = "cursor"
  /\ conn[t] # NULL
  /\ outer' = [outer EXCEPT ![t] = conn[t]]
  /\ conn' = [conn EXCEPT ![t] = NULL]
  /\ pc' = [pc EXCEPT ![t] = "waitConnection"]
  /\ style' = [style EXCEPT ![t] = "op"]
  /\ UNCHANGED << poolVars, free, connectionPoolSem, connectionSem, ix >>

\* The query of the entity list lookup throws, or listDatabases answers
\* something else: logged, and returned without releasing.
Leak(t) ==
  /\ pc[t] = "use"
  /\ style[t] = "legacy"
  /\ conn[t] # NULL
  /\ leaked' = leaked \cup { conn[t] }
  /\ Return(t)
  /\ UNCHANGED << boot, connection, free, connectionPoolSem, connectionSem, ix >>

\* NULL is dereferenced, or an exception leaves the legacy function: the
\* process ends, and a new one starts.
ProcessEnds(t) ==
  /\ pc[t] = "use"
  /\ style[t] = "legacy"
  /\ Restart

(***************************************************************************)
(* mongoPoolConnectionRelease: the first slot with this connection becomes *)
(* free and the counting semaphore is given back.  (A NULL connection that *)
(* is not in the vector at all leaves both alone.)                         *)
(***************************************************************************)
ReleaseWaitPool(t) ==
  /\ pc[t] = "waitPoolRelease"
  /\ connectionPoolSem > 0
  /\ connectionPoolSem' = connectionPoolSem - 1
  /\ pc' = [pc EXCEPT ![t] = "giveBack"]
  /\ UNCHANGED << poolVars, free, connectionSem, style, ix, conn, outer >>

\* Mutant: the slot is freed and the counting semaphore is not given back.
ReleaseFound_NoPost(t) ==
  /\ pc[t] = "giveBack"
  /\ \E s \in Slots :
       /\ connection[s] = conn[t]
       /\ \A r \in Slots : r < s => connection[r] # conn[t]
       /\ free' = [free EXCEPT ![s] = TRUE]
  /\ pc' = [pc EXCEPT ![t] = "postRelease"]
  /\ UNCHANGED << poolVars, connectionPoolSem, connectionSem, style, ix, conn, outer >>

ReleaseFound(t) ==
  /\ pc[t] = "giveBack"
  /\ \E s \in Slots :
       /\ connection[s] = conn[t]
       /\ \A r \in Slots : r < s => connection[r] # conn[t]
       /\ free' = [free EXCEPT ![s] = TRUE]
  /\ connectionSem' = connectionSem + 1
  /\ pc' = [pc EXCEPT ![t] = "postRelease"]
  /\ UNCHANGED << poolVars, connectionPoolSem, style, ix, conn, outer >>

ReleasePost(t) ==
  /\ pc[t] = "postRelease"
  /\ connectionPoolSem' = connectionPoolSem + 1
  /\ Return(t)
  /\ UNCHANGED << poolVars, free, connectionSem, ix >>

-----------------------------------------------------------------------------
Get(t) ==
  \/ GetWaitConnection(t) \/ GetWaitPool(t) \/ GetScanFound(t)
  \/ GetScanNothing(t) \/ GetClaim(t) \/ GetPost(t)

Release(t) == ReleaseWaitPool(t) \/ ReleaseFound(t) \/ ReleasePost(t)

\* The steps a thread takes without being asked to: all but starting a call.
Work(t) ==
  \/ Get(t) \/ Release(t) \/ ReturnOnNull(t) \/ Finish(t) \/ Nest(t)
  \/ Leak(t) \/ ProcessEnds(t)

Next ==
  \/ ConnectSlot
  \/ \E t \in Thread : Work(t) \/ \E how \in Styles : Call(t, how)

Spec == Init /\ [][Next]_vars

(***************************************************************************)
(* A thread that can run eventually runs, and a database operation         *)
(* eventually returns.  Nothing is assumed about which of several waiters  *)
(* a semaphore wakes up: POSIX leaves it open.                             *)
(***************************************************************************)
FairSpec == Spec /\ WF_vars(ConnectSlot) /\ \A t \in Thread : WF_vars(Work(t))

-----------------------------------------------------------------------------
TypeOK ==
  /\ boot \in 1 .. PoolSize + 1
  /\ free \in [Slots -> BOOLEAN]
  /\ connection \in [Slots -> Slots \cup {NULL}]
  /\ connectionPoolSem \in 0 .. 1
  /\ connectionSem \in Nat
  /\ pc \in [Thread -> Locations]
  /\ style \in [Thread -> Styles]
  /\ ix \in [Thread -> Slots \cup {0}]
  /\ conn \in [Thread -> Slots \cup {NULL}]
  /\ outer \in [Thread -> Slots \cup {NULL}]
  /\ leaked \in SUBSET Slots

\* The thread has the live connection of slot s, for its present use or for
\* the one it goes back to.
Holds(t, s) == (Holding(t) /\ conn[t] = s) \/ outer[t] = s

(***************************************************************************)
(* Two threads never have one MongoDB connection at the same time, and a   *)
(* thread that borrows a second one does not get its first again: the      *)
(* legacy driver's connections are not thread safe.  Holds whatever the    *)
(* number of dead slots.                                                   *)
(***************************************************************************)
LiveConnectionExclusive ==
  /\ \A s \in Slots : \A t, u \in Thread : Holds(t, s) /\ Holds(u, s) => t = u
  /\ \A t \in Thread : Holding(t) /\ conn[t] # NULL => conn[t] # outer[t]

(***************************************************************************)
(* The counting semaphore and the vector agree: the units in the semaphore *)
(* and those of the threads on their way to a slot are the free slots, as  *)
(* long as no more than one slot is dead.                                  *)
(***************************************************************************)
SemaphoreCountsFreeSlots ==
  Booted /\ Cardinality({ s \in Slots : connection[s] = NULL }) <= 1
    => connectionSem + Cardinality({ t \in Thread : Granted(t) })
              = Cardinality({ s \in Slots : free[s] })

(***************************************************************************)
(* A live connection whose slot is not free is in the hands of a thread,   *)
(* or it is one that a legacy function walked away from when the database  *)
(* failed it: no other path of the wrappers, of the cursors, of the nested *)
(* borrow or of a thread that waits loses a connection.  The ones that are *)
(* lost so stay lost: nobody has them, and the scan never finds them.      *)
(***************************************************************************)
NoLiveConnectionLost ==
  /\ \A s \in Slots :
       (Booted /\ ~free[s] /\ connection[s] # NULL)
         => s \in leaked \/ \E t \in Thread : Holds(t, s)
  /\ \A s \in leaked : ~free[s] /\ \A t \in Thread : ~Holds(t, s)

(***************************************************************************)
(* An exhausted pool recovers: when every connection is borrowed, one      *)
(* eventually becomes borrowable again, whatever the dead slots lost.  It  *)
(* does not in two cases, and in no other: every live connection has been  *)
(* leaked, or is the first one of a deletion that waits for its second.    *)
(***************************************************************************)
WaitsForSecond(t) == pc[t] = "waitConnection" /\ outer[t] # NULL

Exhausted ==
  \A s \in Slots : connection[s] # NULL =>
    s \in leaked \/ \E t \in Thread : WaitsForSecond(t) /\ outer[t] = s

PoolRecovers == (Booted /\ connectionSem = 0) ~> (connectionSem > 0 \/ (Booted /\ Exhausted))

(***************************************************************************)
(* The pool implements the abstract one: seen from outside, the semaphores,*)
(* the scan and the slots that could not be connected are steps that lend  *)
(* a live connection, take it back, lose it, or change nothing.            *)
(***************************************************************************)
Holder(s) == IF \E t \in Thread : Holds(t, s) THEN CHOOSE t \in Thread : Holds(t, s) ELSE NULL

holderOf == [s \in Slots |-> Holder(s)]

Lease == INSTANCE ConnectionLease
           WITH Connection <- Slots, User <- Thread, NoOne <- NULL,
                holder <- holderOf, lost <- leaked

LendsConnections == Lease!Spec
=============================================================================
