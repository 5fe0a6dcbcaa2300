------------------------ MODULE BrokerStartupProofs ------------------------
(***************************************************************************)
(* The proof that start-up costs the pool no more than two connections and *)
(* one per tenant, for every number of threads, tenants and connections.   *)
(* Start-up takes the steps of the pool, so the invariants of the pool     *)
(* hold; what they say of the semaphore, the free slots and the leaked     *)
(* connections, with a count of main()'s own, is the bound.                *)
(***************************************************************************)
EXTENDS BrokerStartup, MongoConnectionPoolProofs

\* Every slot that has been connected is live (MaxDead = 0).
LiveInv == \A s \in Slots : s < boot => connection[s] = s

\* The connections main() walked away from are among the leaked ones.
KeptInv == kept \in SUBSET leaked

\* How many they are, at each stage.
StageInv ==
  /\ stage \in Stages
  /\ tenant \in 0 .. NumTenants + 1
  /\ stage \in { "tenantsGet", "tenantsRead" } => tenant = 0
  /\ stage # "serving" => tenant <= NumTenants
  /\ stage = "serving" => tenant = NumTenants + 1
  /\ Cardinality(kept) = CASE stage \in { "tenantsGet", "tenantsRead" } -> 0
                           [] stage \in { "geoGet", "geoRead", "serving" } -> tenant + 1
                           [] OTHER -> tenant + 2

PoolInv == ExclusionInv /\ CountInv /\ NoneLost /\ LiveInv

StartupInv == PoolInv /\ KeptInv /\ StageInv

-----------------------------------------------------------------------------
\* Start-up begins with an empty pool and nothing kept.
LEMMA StartupInvInit == StartupInit => StartupInv
PROOF
<1>. SUFFICES ASSUME StartupInit PROVE StartupInv
  OBVIOUS
<1>1. ExclusionInv /\ NoneLost
  BY ExclusionInit, LossInit DEF StartupInit
<1>2. CountInv /\ LiveInv
  BY PoolAssumption DEF StartupInit, Init, CountInv, LiveInv, Booted, Slots
<1>3. KeptInv
  BY DEF StartupInit, KeptInv
<1>4. StageInv
  BY StartupAssumption, FS_EmptySet DEF StartupInit, StageInv, Stages
<1>. QED BY <1>1, <1>2, <1>3, <1>4 DEF StartupInv, PoolInv

\* A step of start-up is a step of the pool.
LEMMA StartupSteps == [StartupNext]_allVars => [Next]_vars
PROOF
<1>. SUFFICES ASSUME [StartupNext]_allVars PROVE [Next]_vars
  OBVIOUS
<1>1. CASE UNCHANGED allVars
  BY <1>1 DEF allVars
<1>2. CASE ConnectPool
  BY <1>2 DEF ConnectPool, Next
<1>3. CASE MainStep
  <2>1. CASE TenantsGetCall \/ GeoQueryCall \/ GeoIndexCreateCall
    <3>1. \E how \in Styles : Call(Main, how)
      BY <2>1 DEF TenantsGetCall, GeoQueryCall, GeoIndexCreateCall, Styles
    <3>. QED BY <3>1, StartupAssumption DEF Next
  <2>2. CASE TenantsGetReturn \/ GeoQueryReturn
    <3>1. Leak(Main)
      BY <2>2 DEF TenantsGetReturn, GeoQueryReturn, Keep
    <3>. QED BY <3>1, StartupAssumption DEF Next, Work
  <2>3. CASE NextTenant
    BY <2>3 DEF NextTenant
  <2>. QED BY <1>3, <2>1, <2>2, <2>3 DEF MainStep
<1>4. ASSUME NEW t \in Thread, PoolStep(t) \/ Request(t) \/ BrokerEnds(t) PROVE Next
  <2>1. Work(t) \/ \E how \in Styles : Call(t, how)
    BY <1>4 DEF PoolStep, Request, BrokerEnds, Work, Styles
  <2>. QED BY <2>1 DEF Next
<1>. QED BY <1>1, <1>2, <1>3, <1>4 DEF StartupNext

\* With live connections only, nobody holds NULL.
LEMMA HeldAreSlots ==
  ASSUME ExclusionInv, CountInv, LiveInv
  PROVE  /\ Booted => OneDead /\ Counted /\ \A s \in Slots : connection[s] = s
         /\ \A t \in Thread : Holding(t) => Booted /\ conn[t] \in Slots
PROOF
<1>1. /\ boot \in 1 .. PoolSize + 1 /\ PoolSize \in Nat
      /\ \A s \in Slots : s \in 1 .. PoolSize /\ s # NULL
  BY PoolAssumption DEF ExclusionInv, TypeOK, Slots
<1>2. ASSUME Booted PROVE \A s \in Slots : connection[s] = s
  BY <1>1, <1>2 DEF Booted, LiveInv
<1>3. ASSUME Booted PROVE OneDead /\ Counted
  BY <1>1, <1>2, <1>3 DEF OneDead, CountInv
<1>4. ASSUME NEW t \in Thread, Holding(t) PROVE Booted /\ conn[t] \in Slots
  <2>1. Booted
    BY <1>4 DEF ExclusionInv, MutexInv, Holding
  <2>2. conn[t] # NULL
    BY <1>1, <1>2, <1>3, <1>4, <2>1 DEF Counted, HasDead
  <2>. QED BY <2>1, <2>2 DEF ExclusionInv, TypeOK
<1>. QED BY <1>2, <1>3, <1>4

\* The invariants of the pool hold during start-up too.
LEMMA PoolInvStep == PoolInv /\ [Next]_vars => PoolInv'
PROOF
<1>. SUFFICES ASSUME PoolInv, [Next]_vars PROVE PoolInv'
  OBVIOUS
<1>. USE DEF PoolInv
<1>1. ExclusionInv' /\ CountInv' /\ NoneLost'
  BY ExclusionStep, CountStep, LossStep
<1>2. CASE ConnectSlot
  <2>1. boot \in Slots /\ boot' = boot + 1 /\ connection \in [Slots -> Slots \cup {NULL}]
    BY <1>2, PoolAssumption DEF ConnectSlot, Booted, ExclusionInv, TypeOK, Slots
  <2>2. connection' = [connection EXCEPT ![boot] = boot]
    <3>1. IsFiniteSet(DeadSlots)
      BY SlotsFinite, FS_Subset DEF DeadSlots
    <3>2. Cardinality(DeadSlots) \in Nat /\ MaxDead = 0
      BY <3>1, FS_CardinalityType, StartupAssumption
    <3>3. ~(Cardinality(DeadSlots) < MaxDead)
      BY <3>2
    <3>. QED BY <1>2, <3>3 DEF ConnectSlot, mongoConnect
  <2>3. \A s \in Slots : s < boot' => s < boot \/ s = boot
    BY <2>1, PoolAssumption DEF Slots
  <2>. QED BY <1>1, <2>1, <2>2, <2>3 DEF LiveInv
<1>3. CASE UNCHANGED << boot, connection >>
  BY <1>1, <1>3 DEF LiveInv
<1>4. CASE Restart
  BY <1>1, <1>4, PoolAssumption DEF LiveInv, Restart, Slots
<1>. QED
  BY <1>2, <1>3, <1>4
  DEF Next, Work, Get, Release, Call, GetWaitConnection, GetWaitPool, GetScanFound,
      GetScanNothing, GetClaim, GetPost, ReturnOnNull, Finish, Nest, Leak, ProcessEnds,
      ReleaseWaitPool, ReleaseFound, ReleasePost, poolVars, vars

\* A connection that main() walks away from is one more.
LEMMA OneMoreKept ==
  ASSUME PoolInv, KeptInv, Keep
  PROVE  /\ Cardinality(kept') = Cardinality(kept) + 1 /\ Cardinality(kept) \in Nat
         /\ KeptInv'
PROOF
<1>1. Main \in Thread /\ kept' = kept \cup { conn[Main] } /\ leaked' = leaked \cup { conn[Main] }
  BY StartupAssumption DEF Keep, Leak
<1>2. conn[Main] \in Slots /\ Holds(Main, conn[Main])
  BY <1>1 DEF Keep, Leak, PoolInv, ExclusionInv, TypeOK, Holds, Holding
<1>3. conn[Main] \notin kept
  BY <1>1, <1>2 DEF KeptInv, PoolInv, ExclusionInv, LeakInv
<1>4. IsFiniteSet(kept)
  BY SlotsFinite, FS_Subset DEF KeptInv, PoolInv, ExclusionInv, TypeOK
<1>. QED BY <1>1, <1>3, <1>4, FS_AddElement, FS_CardinalityType DEF KeptInv

\* Each stage walks away with as many connections as it should.
LEMMA StageStep ==
  ASSUME PoolInv, KeptInv, StageInv, [StartupNext]_allVars
  PROVE  KeptInv' /\ StageInv'
PROOF
<1>. USE StartupAssumption DEF StageInv, Stages
<1>2. CASE TenantsGetCall \/ GeoQueryCall \/ GeoIndexCreateCall
  BY <1>2 DEF TenantsGetCall, GeoQueryCall, GeoIndexCreateCall, Call, poolVars, KeptInv
<1>3. CASE TenantsGetReturn
  BY <1>3, OneMoreKept DEF TenantsGetReturn
<1>4. CASE GeoQueryReturn
  BY <1>4, OneMoreKept DEF GeoQueryReturn
<1>5. CASE NextTenant
  <2>1. /\ stage \in { "geoAttributes", "geoIndexCreate" } /\ tenant' = tenant + 1 /\ kept' = kept
        /\ stage' = IF tenant = NumTenants THEN "serving" ELSE "geoGet"
        /\ leaked' = leaked
    BY <1>5 DEF NextTenant, vars
  <2>2. Cardinality(kept') = tenant + 2 /\ tenant \in 0 .. NumTenants
    BY <2>1
  <2>3. Cardinality(kept') = tenant' + 1 /\ tenant' \in 0 .. NumTenants + 1
    BY <2>1, <2>2
  <2>4. CASE tenant = NumTenants
    BY <2>1, <2>2, <2>3, <2>4 DEF KeptInv
  <2>5. CASE tenant # NumTenants
    BY <2>1, <2>2, <2>3, <2>5 DEF KeptInv
  <2>. QED BY <2>4, <2>5
<1>6. ASSUME NEW t \in Thread, PoolStep(t) \/ Request(t)
      PROVE  UNCHANGED << stage, tenant, kept >> /\ leaked \in SUBSET leaked'
  BY <1>6 DEF PoolStep, Request, startupVars, Get, Release, Call, GetWaitConnection,
     GetWaitPool, GetScanFound, GetScanNothing, GetClaim, GetPost, Finish, Nest, Leak,
     ReleaseWaitPool, ReleaseFound, ReleasePost, poolVars
<1>7. ConnectPool \/ UNCHANGED allVars => UNCHANGED << stage, tenant, kept, leaked >>
  BY DEF ConnectPool, ConnectSlot, startupVars, allVars, vars
<1>8. ASSUME NEW t \in Thread, BrokerEnds(t) PROVE KeptInv' /\ StageInv'
  BY <1>8, FS_EmptySet DEF BrokerEnds, KeptInv
<1>9. CASE UNCHANGED << stage, tenant, kept >> /\ leaked \in SUBSET leaked'
  BY <1>9 DEF KeptInv
<1>. QED BY <1>2, <1>3, <1>4, <1>5, <1>6, <1>7, <1>8, <1>9 DEF StartupNext, MainStep

\* The inductive invariant holds in every state of start-up and after it.
LEMMA StartupInductive == StartupSpec => []StartupInv
PROOF
<1>1. StartupInv /\ [StartupNext]_allVars => StartupInv'
  BY StartupSteps, PoolInvStep, StageStep DEF StartupInv
<1>. QED BY <1>1, StartupInvInit, PTL DEF StartupSpec

(***************************************************************************)
(* For every pool size and every number of threads and tenants: when the   *)
(* broker serves and nobody uses the pool, mongoCppLegacyTenantsGet and    *)
(* mongoCppLegacyGeoIndexInit have cost it no more than two connections    *)
(* and one per tenant, what requests leaked apart; and a connection they   *)
(* walked away from is never lent again.                                   *)
(***************************************************************************)
THEOREM StartupCostIsBounded == StartupSpec => []StartupCostBounded
PROOF
<1>1. StartupInv => StartupCostBounded
  <2>. SUFFICES ASSUME StartupInv PROVE StartupCostBounded
    OBVIOUS
  <2>. USE DEF StartupInv, PoolInv
  <2>1. ASSUME stage = "serving", AllIdle
        PROVE  connectionSem + Cardinality(leaked \ kept) + NumTenants + 2 >= PoolSize
    <3>1. Cardinality(kept) = NumTenants + 2 /\ NumTenants \in Nat
      BY <2>1, StartupAssumption DEF StageInv
    <3>2. IsFiniteSet(kept) /\ IsFiniteSet(leaked) /\ kept \in SUBSET leaked
          /\ leaked \in SUBSET Slots
      BY SlotsFinite, FS_Subset DEF KeptInv, ExclusionInv, TypeOK
    <3>3. Booted
      <4>. SUFFICES ASSUME ~Booted PROVE FALSE
        OBVIOUS
      <4>1. kept = {}
        BY <3>2 DEF ExclusionInv, LeakInv
      <4>. QED BY <3>1, <4>1, FS_EmptySet
    <3>4. Grants = {} /\ \A t \in Thread, s \in Slots : ~Holds(t, s)
      <4>1. \A t \in Thread : outer[t] = NULL
        BY <2>1 DEF AllIdle, ExclusionInv, OwnershipInv
      <4>. QED BY <2>1, <4>1, PoolAssumption DEF AllIdle, Grants, Granted, Holds, Holding, Slots
    <3>5. FreeSlots = Slots \ leaked
      <4>1. \A s \in Slots : connection[s] # NULL
        BY <3>3, HeldAreSlots, PoolAssumption DEF Slots
      <4>. QED BY <3>4, <4>1 DEF FreeSlots, NoneLost, ExclusionInv, LeakInv
    <3>6. Cardinality(FreeSlots) = PoolSize - Cardinality(leaked)
      <4>1. Cardinality(Slots \ leaked) = Cardinality(Slots) - Cardinality(Slots \cap leaked)
        BY SlotsFinite, FS_Difference
      <4>2. Slots \cap leaked = leaked
        BY <3>2
      <4>. QED BY <3>5, <4>1, <4>2, SlotsFinite
    <3>7. Cardinality(leaked \ kept) = Cardinality(leaked) - Cardinality(kept)
      <4>1. Cardinality(leaked \ kept) = Cardinality(leaked) - Cardinality(leaked \cap kept)
        BY <3>2, FS_Difference
      <4>2. leaked \cap kept = kept
        BY <3>2
      <4>. QED BY <4>1, <4>2
    <3>8. connectionSem + Cardinality(Grants) = Cardinality(FreeSlots) /\ connectionSem \in Nat
      BY <3>3, HeldAreSlots DEF Counted, ExclusionInv, TypeOK
    <3>9. Cardinality(Grants) = 0 /\ Cardinality(leaked) \in Nat
      BY <3>2, <3>4, FS_EmptySet, FS_CardinalityType
    <3>. QED BY <3>1, <3>6, <3>7, <3>8, <3>9, PoolAssumption
  <2>2. ASSUME NEW s \in kept PROVE ~free[s] /\ \A t \in Thread : ~Holds(t, s)
    BY <2>2 DEF KeptInv, ExclusionInv, LeakInv
  <2>. QED BY <2>1, <2>2 DEF StartupCostBounded
<1>. QED BY <1>1, StartupInductive, PTL

=============================================================================
