---------------------------- MODULE BrokerStartup ----------------------------
(***************************************************************************)
(* The part of main() that uses the MongoDB connection pool before the     *)
(* broker accepts requests: dbInit (src/lib/orionld/db/dbInit.cpp) calls   *)
(* mongoCppLegacyInit, which lists the tenants (mongoCppLegacyTenantsGet)  *)
(* and then reads the entities of every tenant to create the missing geo   *)
(* indexes (mongoCppLegacyGeoIndexInit).  Both functions borrow a          *)
(* connection and return without giving it back, the second one once per   *)
(* tenant.                                                                 *)
(*                                                                         *)
(* The threads other than Main are the ones that compete for the pool: the *)
(* subscription cache refresher, started before dbInit, which uses the     *)
(* wrappers and the cursors only, and the REST threads, which exist only   *)
(* once the broker serves and borrow in every way.  The connections are    *)
(* all live here (MaxDead = 0): a NULL connection is dereferenced by both  *)
(* functions, which ends the process.                                      *)
(***************************************************************************)
EXTENDS MongoConnectionPool

CONSTANTS
  Main,        \* the thread of main()
  Refresher,   \* the subscription cache refresher thread
  NumTenants   \* databases found by listDatabases, the default one excluded

ASSUME StartupAssumption ==
  /\ Main \in Thread
  /\ Refresher \in Thread \ { Main }
  /\ NumTenants \in Nat
  /\ MaxDead = 0

VARIABLES
  stage,    \* where main() is in dbInit
  tenant,   \* tenants whose geo indexes have been looked at
  kept,     \* the connections main() holds on to
  refreshed \* the refresher has used the database (bound: once) during startup

startupVars == << stage, tenant, kept, refreshed >>

allVars == << vars, startupVars >>

Stages == { "tenantsGet", "tenantsRead", "geoGet", "geoRead", "geoAttributes",
            "geoIndexCreate", "serving" }

StartupInit ==
  /\ Init
  /\ stage = "tenantsGet"
  /\ tenant = 0
  /\ kept = {}
  /\ refreshed = FALSE

\* Main returns from a use of its connection without releasing it, whether or
\* not the database failed it.
Keep ==
  /\ Leak(Main)
  /\ kept' = kept \cup { conn[Main] }

(***************************************************************************)
(* mongoCppLegacyTenantsGet.                                               *)
(***************************************************************************)
TenantsGetCall ==
  /\ stage = "tenantsGet"
  /\ Call(Main, "legacy")
  /\ stage' = "tenantsRead"
  /\ UNCHANGED << tenant, kept, refreshed >>

TenantsGetReturn ==
  /\ stage = "tenantsRead"
  /\ Keep
  /\ stage' = "geoGet"
  /\ UNCHANGED << tenant, refreshed >>

(***************************************************************************)
(* mongoCppLegacyGeoIndexInit: per tenant, a connection for the cursor     *)
(* over the entities, and a second one for each index created meanwhile    *)
(* (bound: one index per tenant).                                          *)
(***************************************************************************)
GeoQueryCall ==
  /\ stage = "geoGet"
  /\ Call(Main, "legacy")
  /\ stage' = "geoRead"
  /\ UNCHANGED << tenant, kept, refreshed >>

GeoQueryReturn ==
  /\ stage = "geoRead"
  /\ Keep
  /\ stage' = "geoAttributes"
  /\ UNCHANGED << tenant, refreshed >>

GeoIndexCreateCall ==
  /\ stage = "geoAttributes"
  /\ Call(Main, "op")
  /\ stage' = "geoIndexCreate"
  /\ UNCHANGED << tenant, kept, refreshed >>

NextTenant ==
  /\ stage \in { "geoAttributes", "geoIndexCreate" }
  /\ pc[Main] = "idle"
  /\ tenant' = tenant + 1
  /\ stage' = IF tenant = NumTenants THEN "serving" ELSE "geoGet"
  /\ UNCHANGED << vars, kept, refreshed >>

(***************************************************************************)
(* The pool as main() and the other threads use it.                        *)
(***************************************************************************)
\* Mutant: each index created walks away with its connection too.
PoolStep_IndexKept(t) ==
  /\ \/ Get(t)
     \/ Release(t)
     \/ Finish(t) /\ t # Main
     \/ Nest(t) /\ t \notin { Main, Refresher }
     \/ Leak(t) /\ t # Main
     \/ t = Main /\ stage = "geoIndexCreate" /\ pc[t] = "use" /\ Return(t)
        /\ UNCHANGED << poolVars, free, connectionPoolSem, connectionSem, ix >>
  /\ UNCHANGED startupVars

PoolStep(t) ==
  /\ \/ Get(t)
     \/ Release(t)
     \/ Finish(t) /\ (t = Main => stage = "geoIndexCreate")
     \/ Nest(t) /\ t \notin { Main, Refresher }
     \/ Leak(t) /\ t # Main
  /\ UNCHANGED startupVars

\* A REST thread ends the process (the refresher is not that kind of user, and
\* the database does not fail start-up itself here).
BrokerEnds(t) ==
  /\ t # Main
  /\ ProcessEnds(t)
  /\ stage' = "tenantsGet"
  /\ tenant' = 0
  /\ kept' = {}
  /\ refreshed' = FALSE

ConnectPool == ConnectSlot /\ UNCHANGED startupVars

\* The refresher sleeps -subCacheIval seconds between its passes, so that it
\* gets to use the database only so often while the broker starts.
Request(t) ==
  /\ t # Main
  /\ stage = "serving" \/ (t = Refresher /\ ~refreshed)
  /\ \E how \in IF t = Refresher THEN { "op", "cursor" } ELSE Styles : Call(t, how)
  /\ refreshed' = (refreshed \/ t = Refresher)
  /\ UNCHANGED << stage, tenant, kept >>

MainStep ==
  \/ TenantsGetCall \/ TenantsGetReturn
  \/ GeoQueryCall \/ GeoQueryReturn \/ GeoIndexCreateCall \/ NextTenant

StartupNext ==
  \/ ConnectPool
  \/ MainStep
  \/ \E t \in Thread : PoolStep(t) \/ Request(t) \/ BrokerEnds(t)

StartupSpec == StartupInit /\ [][StartupNext]_allVars

\* As in MongoConnectionPool: threads run, database operations return.
StartupFairSpec ==
  /\ StartupSpec
  /\ WF_allVars(ConnectPool)
  /\ WF_allVars(MainStep)
  /\ \A t \in Thread : WF_allVars(PoolStep(t))

-----------------------------------------------------------------------------
AllIdle == \A t \in Thread : pc[t] = "idle"

(***************************************************************************)
(* Start-up costs the pool no more than two connections and one per tenant *)
(* (the lists of mongoCppLegacyTenantsGet and of one GeoIndexInit query    *)
(* per database), however many indexes it creates and whatever the         *)
(* refresher does meanwhile; what else a serving broker at rest lacks was  *)
(* leaked by requests.  The connections main() walked away from are never  *)
(* handed out again, so the cursor that is still open on one is not        *)
(* disturbed.                                                              *)
(***************************************************************************)
StartupCostBounded ==
  /\ (stage = "serving" /\ AllIdle)
       => connectionSem + Cardinality(leaked \ kept) + NumTenants + 2 >= PoolSize
  /\ \A s \in kept : ~free[s] /\ \A t \in Thread : ~Holds(t, s)

(***************************************************************************)
(* Startup ends, although it keeps connections and competes with the       *)
(* refresher thread, when the pool has one connection more than startup    *)
(* keeps.                                                                  *)
(***************************************************************************)
StartupCompletes == <>(stage = "serving")

(***************************************************************************)
(* What startup leaves of the pool is enough to go on: when all of it is   *)
(* borrowed, a connection eventually comes back, unless every one of them  *)
(* has been leaked or is the first one of a deletion that waits for its    *)
(* second.                                                                 *)
(***************************************************************************)
ServingExhausted ==
  \A s \in Slots :
    s \in leaked \/ \E t \in Thread : WaitsForSecond(t) /\ outer[t] = s

ServingPoolRecovers ==
  (stage = "serving" /\ connectionSem = 0)
    ~> (connectionSem > 0 \/ (stage = "serving" /\ ServingExhausted))
=============================================================================
