----------------------------- MODULE TroeProofs -----------------------------
(***************************************************************************)
(* Proofs about the tenants, the Postgres connection pools and the         *)
(* requests of Troe, for any number of threads and tenants, any size of    *)
(* the pools and any bounds.                                               *)
(***************************************************************************)
EXTENDS Troe, FiniteSetTheorems, WellFoundedInduction, TLAPS

(***************************************************************************)
(* The lists.  The library states induction for an operator, which the     *)
(* provers here cannot instantiate; that a set of natural numbers has a    *)
(* smallest element is enough.                                             *)
(***************************************************************************)
\* Induction over the natural numbers, for a set of them.
LEMMA InductionOnSet ==
  ASSUME NEW S, \A n \in Nat : (\A m \in Nat : m < n => m \in S) => n \in S
  PROVE  Nat \subseteq S
<1> DEFINE R == {ss \in Nat \X Nat : ss[1] < ss[2]}
           T == Nat \ S
<1>1. IsWellFoundedOn(R, Nat)
  BY NatLessThanWellFounded DEF OpToRel
<1>2. SUFFICES ASSUME T # {} PROVE FALSE
  BY <1>2
<1>3. PICK x \in T : \A y \in T : ~(<<y, x>> \in R)
  <2>1. T \subseteq Nat
    OBVIOUS
  <2> HIDE DEF R, T
  <2> QED
    BY <1>1, <1>2, <2>1, WFMin
<1> QED
  BY <1>3

\* The loop over a list ends at a record that is wanted, or at its end.
LEMMA ListLoop ==
  ASSUME NEW N \in Nat, NEW D \in SUBSET (1 .. N), NEW next \in [D -> {0} \cup D],
         NEW wanted \in SUBSET D, NEW head \in {0} \cup D, \A n \in D : next[n] < n
  PROVE  FirstOnList(head, next, wanted) \in {0} \cup wanted
<1> DEFINE E == {0} \cup D
           Upto(k) == {n \in E : n <= k}
           Body(f, n) == IF n = 0 \/ n \in wanted THEN n ELSE f[next[n]]
           Loops(f, S) == f = [n \in S |-> Body(f, n)]
           Has(k) == \E f : Loops(f, Upto(k))
<1>0. \A n \in E : n \in Nat /\ n <= N
  OBVIOUS
<1>1. \A k \in Nat : Has(k)
  <2> DEFINE S == {k \in Nat : Has(k)}
  <2>1. ASSUME NEW k \in Nat, \A m \in Nat : m < k => m \in S PROVE k \in S
    <3>1. CASE k = 0
      <4>1. \A n \in Upto(k) : n = 0
        BY <3>1, <1>0
      <4>2. Loops([n \in Upto(k) |-> 0], Upto(k))
        BY <4>1
      <4> QED
        BY <4>2
    <3>2. CASE k # 0
      <4>0. k - 1 \in Nat /\ k - 1 < k
        BY <3>2
      <4>1. PICK f : Loops(f, Upto(k - 1))
        <5>1. Has(k - 1)
          <6> HIDE DEF Has
          <6> QED
            BY <2>1, <4>0
        <5> QED
          BY <5>1
      <4> DEFINE g == [n \in Upto(k) |-> Body(f, n)]
      <4>2. \A n \in Upto(k) \ {0} : next[n] \in Upto(k - 1)
        <5> SUFFICES ASSUME NEW n \in D, n <= k PROVE next[n] \in E /\ next[n] <= k - 1
          OBVIOUS
        <5>1. next[n] \in E /\ next[n] \in Nat /\ next[n] < n /\ n \in Nat
          BY <1>0
        <5> QED
          BY <5>1
      <4>3. \A n \in Upto(k - 1) : n \in Upto(k)
        BY <1>0
      <4>4. \A n \in Upto(k - 1) : g[n] = f[n]
        <5> HIDE DEF Upto
        <5> QED
          BY <4>1, <4>3
      <4>5. \A n \in Upto(k) : Body(f, n) = Body(g, n)
        <5> HIDE DEF Upto, g
        <5> QED
          BY <4>2, <4>4
      <4>6. Loops(g, Upto(k))
        BY <4>5
      <4> QED
        BY <4>6
    <3> QED
      BY <3>1, <3>2
  <2>2. Nat \subseteq S
    <3> HIDE DEF S
    <3> QED
      BY <2>1, InductionOnSet
  <2> QED
    BY <2>2
<1> DEFINE from == CHOOSE f : Loops(f, E)
<1>2. Loops(from, E)
  <2>1. Upto(N) = E
    BY <1>0
  <2>2. \E f : Loops(f, E)
    BY <1>1, <2>1
  <2> HIDE DEF Loops
  <2> QED
    BY <2>2
<1> HIDE DEF from
<1>3. \A n \in Nat : n \in E => from[n] \in {0} \cup wanted
  <2> DEFINE S == {n \in Nat : n \in E => from[n] \in {0} \cup wanted}
  <2>1. ASSUME NEW n \in Nat, \A m \in Nat : m < n => m \in S PROVE n \in S
    <3>1. CASE n \in E /\ n # 0 /\ n \notin wanted
      <4>1. next[n] \in E /\ next[n] \in Nat /\ next[n] < n /\ from[n] = from[next[n]]
        BY <1>0, <1>2, <3>1
      <4> QED
        BY <2>1, <4>1
    <3>2. CASE n \in E /\ (n = 0 \/ n \in wanted)
      BY <1>2, <3>2
    <3> QED
      BY <3>1, <3>2
  <2>2. Nat \subseteq S
    <3> HIDE DEF S
    <3> QED
      BY <2>1, InductionOnSet
  <2> QED
    BY <2>2
<1>4. FirstOnList(head, next, wanted) = from[head]
  BY DEF FirstOnList, from
<1> QED
  BY <1>0, <1>3, <1>4
-----------------------------------------------------------------------------
(***************************************************************************)
(* The inductive invariant.  First the shape of the heap.                  *)
(***************************************************************************)
SlotState == [status : Status, busy : BOOLEAN]
TenantRecord == [tenant : Tenant, next : Nat]
PoolRecord == [db : Name \cup {None}, next : Nat, queueSem : Nat, poolSem : Actor \cup {None},
               slot : [Slot -> SlotState]]

\* The next field of a tenant points to an older one.
TenantHeap ==
  /\ tenants \in Seq(TenantRecord)
  /\ \A n \in 1 .. Len(tenants) : tenants[n].next < n
  /\ tenantList \in 0 .. Len(tenants) /\ tenantCache \in 0 .. Len(tenants)

\* So does that of a pool, but for pool 1, which holds the head of the list and is the
\* only one without a database of its own.
PoolHeap ==
  /\ pools \in Seq(PoolRecord)
  /\ \A p \in 2 .. Len(pools) : pools[p].next < p
  /\ \A p \in 1 .. Len(pools) :
       /\ pools[p].next \in {0} \cup 2 .. Len(pools)
       /\ pools[p].db = None <=> p = 1

Plain ==
  /\ database \in [Name -> {"absent", "created", "ready"}]
  /\ mongoDb \in SUBSET Tenant
  /\ history \in SUBSET (Name \X Name)
  /\ alive \in BOOLEAN
  /\ requests \in 0 .. MaxRequests /\ faults \in 0 .. MaxFaults /\ restarts \in 0 .. MaxRestarts

(***************************************************************************)
(* Then what is known of a thread from where it is.                        *)
(***************************************************************************)
\* Inside orionldTenantLookup and its callers, before the tenant is known.
Seeking == {"lookup", "compare", "tenantSem", "exists", "push"}

\* Inside pgConnectionGet, or just back from it.
Getting == {"find", "insert", "link", "queue", "search", "searchAny", "connect", "got"}

\* With a pool.
Pooled == {"link", "queue", "search", "searchAny", "connect", "tables", "commit"}

BootPc == {"mongoInit", "troeInit", "dbInit", "exit", "up"}

CallState ==
  [pc : Seeking \cup Getting \cup {"idle", "publish", "prepared", "serve", "tables", "commit"}
          \cup BootPc,
   kind : {"none", "make", "check", "version", "mongoInit", "troeInit", "dbInit"},
   tenant : Name, tp : Nat, cached : Nat,
   caller : {"none", "prepare", "create", "version", "commands"},
   pool : Nat, slot : 0 .. PoolSize, null : 0 .. PoolSize]

\* The tenant of a request is the one that it names.
TenantPart(t) ==
  LET c == call[t] IN
  /\ c.pc = "idle" => c = Idle
  /\ c.pc \notin BootPc
  /\ c.pc \in Seeking \cup {"publish"} => c.tenant \in Tenant
  /\ c.pc \in Seeking => c.tp = 0
  /\ c.pc = "tenantSem" => c.kind = "make"
  /\ c.tp # 0 => tenants[c.tp].tenant = c.tenant
  /\ c.pc \notin Seeking /\ c.tp = 0 => c.tenant = Default

\* The connection of a thread, and the pool it comes from.
PoolPart(t) ==
  LET c == call[t] IN
  /\ c.pc \in Pooled => c.pool # 0
  /\ c.pc \in Pooled \cup {"got"} /\ c.pool # 0 =>
       c.pool \in 1 .. Len(pools) /\ pools[c.pool].db = DbAsked(t)
  /\ c.pc \in Pooled \cup {"got"} /\ c.pool = 0 => c.slot = 0
  /\ c.pc \in {"insert", "link", "queue", "search", "searchAny"} => c.slot = 0
  /\ c.pc \in {"connect", "tables", "commit"} => c.slot # 0
  /\ c.pc \in {"insert", "link"} => DbAsked(t) # None
  /\ c.pc \in Getting => c.caller # "none"
  /\ c.pc = "tables" => c.caller = "create"
  /\ c.pc = "commit" => c.caller = "commands"
  /\ c.pc \in Getting /\ c.caller = "create" <=> c.null # 0
  /\ c.pc = "find" => IF c.caller = "create" THEN c.pool = 1 /\ c.slot = c.null
                      ELSE c.slot = 0
  /\ c.pc \notin Getting \cup {"tables", "commit"} => c.pool = 0 /\ c.slot = 0

\* The thread that starts the broker.
MainPart ==
  LET c == call[Main] IN
  /\ c.pc \in BootPc \cup {"push", "publish", "tables"} \cup Getting
  /\ c.pc = "push" => c.tenant \in Tenant
  /\ c.pc \notin BootPc => c.kind \in {"mongoInit", "troeInit", "dbInit"}
  /\ c.caller \in {"none", "prepare", "create"}
  /\ c.pc \in {"up", "dbInit"} \/ c.kind \in {"troeInit", "dbInit"} => pools # <<>>
  /\ c.pc # "up" => \A t \in Thread : call[t] = Idle

Threads ==
  /\ call \in [Actor -> CallState]
  /\ \A t \in Actor : call[t].tp <= Len(tenants) /\ call[t].cached <= Len(tenants)
  /\ \A t \in Thread : TenantPart(t)
  /\ \A t \in Actor : PoolPart(t)
  /\ MainPart

(***************************************************************************)
(* What a thread holds is marked as such, and semaphores have a holder     *)
(* that does not wait for them.                                            *)
(***************************************************************************)
Has(t, p, s) == (call[t].pool = p /\ call[t].slot = s) \/ (p = 1 /\ call[t].null = s)

HeldIsBusy ==
  \A t \in Actor, p \in Nat, s \in Slot :
    Has(t, p, s) => p \in 1 .. Len(pools) /\ pools[p].slot[s].busy

HeldApart == \A t, u \in Actor, p \in Nat, s \in Slot : Has(t, p, s) /\ Has(u, p, s) => t = u

BusyIsHeld ==
  \A p \in 1 .. Len(pools), s \in Slot : pools[p].slot[s].busy =>
    \/ \E t \in Actor : Has(t, p, s)
    \/ p = 1 /\ pools[1].slot[s].status = "bad"

Holdings == HeldIsBusy /\ HeldApart /\ BusyIsHeld

Searching(p) == {t \in Actor : call[t].pool = p /\ call[t].pc \in {"search", "searchAny"}}

QueueCount ==
  \A p \in 1 .. Len(pools) : pools[p].queueSem = PoolSize - Cardinality(Searching(p))

PoolSemHeld ==
  \A p \in 1 .. Len(pools) : pools[p].poolSem # None =>
    call[pools[p].poolSem].pool = p /\ call[pools[p].poolSem].pc = "searchAny"

TenantSemHeld ==
  tenantSem # None =>
    /\ tenantSem \in Thread
    /\ call[tenantSem].kind = "make"
    /\ call[tenantSem].pc \in {"lookup", "compare", "push", "publish", "tables", "prepared"} \cup Getting
    /\ call[tenantSem].pc \in Getting => call[tenantSem].caller \in {"prepare", "create"}

OwnDatabase == \A h \in history : h[1] = h[2]

TroeInv ==
  /\ TenantHeap /\ PoolHeap /\ Plain /\ Threads
  /\ Holdings /\ QueueCount /\ PoolSemHeld /\ TenantSemHeld /\ OwnDatabase

-----------------------------------------------------------------------------
(***************************************************************************)
(* What the operators return.                                              *)
(***************************************************************************)
LEMMA ConstantFacts ==
  /\ PoolSize \in Nat \ {0} /\ Slot = 1 .. PoolSize /\ 0 \notin Slot
  /\ IsFiniteSet(Actor) /\ Thread \subseteq Actor /\ Main \in Actor /\ Main \notin Thread
  /\ \A t \in Actor : t # Main => t \in Thread
  /\ Name = Tenant \cup {Default} /\ Default \in Name /\ Default \notin Tenant
  /\ None \notin Name /\ None \notin Actor /\ Tenant \subseteq Name
<1>1. IsFiniteSet(Actor)
  <2>1. IsFiniteSet({Main})
    BY FS_Singleton
  <2> QED
    BY <2>1, FS_Union, TroeAssumption DEF Actor, TroeAssumption
<1> QED
  BY <1>1, TroeAssumption DEF TroeAssumption, Actor, Slot, Name

LEMMA ListedIs ==
  ASSUME TenantHeap, NEW name
  PROVE  /\ Listed(name) \in 0 .. Len(tenants)
         /\ Listed(name) # 0 => tenants[Listed(name)].tenant = name
<1> DEFINE N == Len(tenants)
           D == 1 .. N
           next == [n \in D |-> tenants[n].next]
           wanted == {n \in D : tenants[n].tenant = name}
<1>1. N \in Nat /\ \A n \in D : tenants[n] \in TenantRecord
  BY DEF TenantHeap
<1>2. next \in [D -> {0} \cup D] /\ (\A n \in D : next[n] < n) /\ tenantList \in {0} \cup D
  BY <1>1 DEF TenantHeap, TenantRecord
<1>3. FirstOnList(tenantList, next, wanted) \in {0} \cup wanted
  <2>1. D \in SUBSET (1 .. N) /\ wanted \in SUBSET D
    OBVIOUS
  <2> HIDE DEF D, next, wanted, N
  <2> QED
    BY <1>1, <1>2, <2>1, ListLoop
<1>4. Listed(name) = FirstOnList(tenantList, next, wanted)
  BY DEF Listed
<1> QED
  BY <1>1, <1>3, <1>4

LEMMA PoolOfIs ==
  ASSUME PoolHeap, pools # <<>>, NEW db
  PROVE  /\ PoolOf(db) \in {0} \cup 2 .. Len(pools)
         /\ PoolOf(db) # 0 => pools[PoolOf(db)].db = db
<1> DEFINE N == Len(pools)
           D == 2 .. N
           next == [n \in D |-> pools[n].next]
           wanted == {n \in D : pools[n].db = db}
<1>1. N \in Nat /\ 1 \in 1 .. N /\ \A n \in D : n \in 1 .. N /\ pools[n] \in PoolRecord
  BY DEF PoolHeap
<1>2. next \in [D -> {0} \cup D] /\ (\A n \in D : next[n] < n) /\ pools[1].next \in {0} \cup D
  BY <1>1 DEF PoolHeap, PoolRecord
<1>3. FirstOnList(pools[1].next, next, wanted) \in {0} \cup wanted
  <2>1. D \in SUBSET (1 .. N) /\ wanted \in SUBSET D
    BY <1>1
  <2> HIDE DEF D, next, wanted, N
  <2> QED
    BY <1>1, <1>2, <2>1, ListLoop
<1>4. PoolOf(db) = FirstOnList(pools[1].next, next, wanted)
  BY DEF PoolOf
<1> QED
  BY <1>1, <1>3, <1>4

\* First returns the smallest member of a set of slots.
LEMMA FirstIs ==
  ASSUME NEW S \in SUBSET Slot
  PROVE  IF S = {} THEN First(S) = 0 ELSE First(S) \in S
<1> DEFINE G == {n \in Nat : n \in S => \E s \in S : \A u \in S : s <= u}
<1>0. \A s \in S : s \in Nat
  BY ConstantFacts
<1>1. ASSUME NEW n \in Nat, \A m \in Nat : m < n => m \in G PROVE n \in G
  <2>1. CASE \E m \in S : m < n
    BY <1>0, <1>1, <2>1
  <2>2. CASE ~\E m \in S : m < n
    BY <1>0, <2>2
  <2> QED
    BY <2>1, <2>2
<1>2. Nat \subseteq G
  <2> HIDE DEF G
  <2> QED
    BY <1>1, InductionOnSet
<1>3. S # {} => \E s \in S : \A u \in S : s <= u
  BY <1>0, <1>2
<1> QED
  BY <1>3 DEF First

-----------------------------------------------------------------------------
(***************************************************************************)
(* Steps in general.                                                       *)
(***************************************************************************)
\* Only thread t goes on.
Becomes(t) ==
  /\ call' \in [Actor -> CallState]
  /\ \A u \in Actor \ {t} : call'[u] = call[u]

\* Records of tenants and pools stay; a pool keeps its database.
TenantsGrow ==
  /\ Len(tenants) <= Len(tenants')
  /\ \A n \in 1 .. Len(tenants) : tenants'[n] = tenants[n]

PoolsGrow ==
  /\ Len(pools) <= Len(pools')
  /\ \A p \in 1 .. Len(pools) : pools'[p].db = pools[p].db

\* Only connections and semaphores of the pools change.
SameShape ==
  /\ pools' \in Seq(PoolRecord) /\ Len(pools') = Len(pools)
  /\ \A p \in 1 .. Len(pools) : pools'[p].db = pools[p].db /\ pools'[p].next = pools[p].next

\* No connection changes but for one.
Only(p, s) ==
  \A q \in 1 .. Len(pools), u \in Slot :
    q # p \/ u # s => pools'[q].slot[u] = pools[q].slot[u]

\* The semaphores of the pools stay.
SameSems ==
  \A p \in 1 .. Len(pools) :
    pools'[p].queueSem = pools[p].queueSem /\ pools'[p].poolSem = pools[p].poolSem

LEMMA ShapeKept ==
  ASSUME PoolHeap, SameShape
  PROVE  PoolHeap' /\ PoolsGrow
<1>1. Len(pools) \in Nat
  BY DEF PoolHeap
<1> QED
  BY <1>1 DEF PoolHeap, SameShape, PoolsGrow

LEMMA PoolsStay ==
  ASSUME PoolHeap, pools' = pools
  PROVE  SameShape /\ SameSems /\ PoolsGrow /\ PoolHeap' /\ \A p, s : Only(p, s)
<1>1. Len(pools) \in Nat
  BY DEF PoolHeap
<1> QED
  BY <1>1 DEF PoolHeap, SameShape, SameSems, PoolsGrow, Only

LEMMA TenantsStay ==
  ASSUME TenantHeap, tenants' = tenants
  PROVE  TenantsGrow
<1>1. Len(tenants) \in Nat
  BY DEF TenantHeap
<1> QED
  BY <1>1 DEF TenantHeap, TenantsGrow

LEMMA SetSlotIs ==
  ASSUME PoolHeap, NEW p \in 1 .. Len(pools), NEW s \in Slot, NEW status \in Status,
         NEW busy \in BOOLEAN, pools' = SetSlot(p, s, status, busy)
  PROVE  /\ SameShape /\ SameSems /\ Only(p, s)
         /\ pools'[p].slot[s].status = status /\ pools'[p].slot[s].busy = busy
<1>1. pools \in Seq(PoolRecord) /\ Len(pools) \in Nat /\ pools[p] \in PoolRecord
  BY DEF PoolHeap
<1> DEFINE new == [status |-> status, busy |-> busy]
           rec == [pools[p] EXCEPT !.slot[s] = new]
<1>2. new \in SlotState /\ new.status = status /\ new.busy = busy
  BY DEF SlotState
<1> HIDE DEF new
<1>3. /\ rec \in PoolRecord /\ rec.db = pools[p].db /\ rec.next = pools[p].next
      /\ rec.queueSem = pools[p].queueSem /\ rec.poolSem = pools[p].poolSem
      /\ rec.slot[s] = new /\ \A u \in Slot \ {s} : rec.slot[u] = pools[p].slot[u]
  BY <1>1, <1>2 DEF PoolRecord
<1>4. pools' = [pools EXCEPT ![p] = rec]
  BY DEF SetSlot, new
<1> HIDE DEF rec
<1>5. /\ pools' \in Seq(PoolRecord) /\ Len(pools') = Len(pools) /\ pools'[p] = rec
      /\ \A q \in 1 .. Len(pools) : q # p => pools'[q] = pools[q]
  BY <1>1, <1>3, <1>4
<1> QED
  BY <1>2, <1>3, <1>5 DEF SameShape, SameSems, Only

\* What Take does to the pool: the semaphores are posted, and the slot is busy.
LEMMA TakeIs ==
  ASSUME PoolHeap, NEW p \in 1 .. Len(pools), NEW s \in 0 .. PoolSize, pools' = Take(p, s)
  PROVE  /\ SameShape /\ Only(p, s)
         /\ s # 0 => pools'[p].slot[s].busy
         /\ pools'[p].queueSem = pools[p].queueSem + 1 /\ pools'[p].poolSem = None
         /\ \A q \in 1 .. Len(pools) : q # p => pools'[q] = pools[q]
<1>1. pools \in Seq(PoolRecord) /\ Len(pools) \in Nat /\ pools[p] \in PoolRecord
  BY DEF PoolHeap
<1> DEFINE old == pools[p].slot
           new == TakenSlot(old[s])
           slots == TakeSlot(p, s)
           rec == [pools[p] EXCEPT !.queueSem = pools[p].queueSem + 1, !.poolSem = None, !.slot = slots]
<1>2. old \in [Slot -> SlotState]
  BY <1>1 DEF PoolRecord
<1>3. s # 0 => s \in Slot /\ new \in SlotState /\ new.busy
  BY <1>2, ConstantFacts DEF SlotState, Status, TakenSlot
<1>4. pools' = [pools EXCEPT ![p] = rec]
  BY <1>1 DEF PoolRecord, Take
<1>5. /\ slots \in [Slot -> SlotState] /\ \A u \in Slot \ {s} : slots[u] = old[u]
      /\ s # 0 => slots[s].busy
  <2> HIDE DEF new
  <2>1. slots = IF s = 0 THEN old ELSE [old EXCEPT ![s] = new]
    BY DEF TakeSlot, new
  <2> QED
    BY <1>2, <1>3, <2>1, ConstantFacts
<1> HIDE DEF slots
<1>6. /\ rec \in PoolRecord /\ rec.db = pools[p].db /\ rec.next = pools[p].next
      /\ rec.queueSem = pools[p].queueSem + 1 /\ rec.poolSem = None /\ rec.slot = slots
  <2>1. pools[p].queueSem \in Nat /\ pools[p].queueSem + 1 \in Nat
    BY <1>1 DEF PoolRecord
  <2> QED
    BY <1>1, <1>5, <2>1 DEF PoolRecord
<1> HIDE DEF rec
<1>7. /\ pools' \in Seq(PoolRecord) /\ Len(pools') = Len(pools) /\ pools'[p] = rec
      /\ \A q \in 1 .. Len(pools) : q # p => pools'[q] = pools[q]
  BY <1>1, <1>4, <1>6
<1> QED
  BY <1>5, <1>6, <1>7 DEF SameShape, Only

\* A thread that stays where it is keeps what is known of it.
LEMMA PartKept ==
  ASSUME TenantHeap, PoolHeap, TenantsGrow, PoolsGrow, NEW u \in Actor, call'[u] = call[u],
         call[u] \in CallState, call[u].tp <= Len(tenants), call[u].cached <= Len(tenants)
  PROVE  /\ call'[u].tp <= Len(tenants') /\ call'[u].cached <= Len(tenants')
         /\ TenantPart(u) => TenantPart(u)'
         /\ PoolPart(u) => PoolPart(u)'
         /\ \A p, s : Has(u, p, s)' <=> Has(u, p, s)
<1>1. /\ Len(tenants) \in Nat /\ Len(tenants') >= Len(tenants) /\ Len(tenants') \in Int
      /\ Len(pools) \in Nat /\ Len(pools') >= Len(pools)
      /\ call[u].tp \in Nat /\ call[u].cached \in Nat
  BY DEF TenantHeap, PoolHeap, TenantsGrow, PoolsGrow, CallState
<1>2. call[u].tp # 0 => call[u].tp \in 1 .. Len(tenants)
  BY <1>1
<1>3. call[u].tp # 0 => tenants'[call[u].tp] = tenants[call[u].tp]
  BY <1>2 DEF TenantsGrow
<1>4. DbAsked(u)' = DbAsked(u)
  BY <1>3 DEF DbAsked, TroeDb
<1>5. \A p \in 1 .. Len(pools) : p \in 1 .. Len(pools') /\ pools'[p].db = pools[p].db
  BY <1>1 DEF PoolsGrow
<1>6. TenantPart(u) => TenantPart(u)'
  BY <1>3 DEF TenantPart
<1>7. PoolPart(u) => PoolPart(u)'
  BY <1>4, <1>5 DEF PoolPart
<1>8. \A p, s : Has(u, p, s)' <=> Has(u, p, s)
  BY DEF Has
<1> QED
  BY <1>1, <1>6, <1>7, <1>8

\* Requests are only served when the broker is up.
LEMMA Awake ==
  ASSUME Threads, NEW t \in Thread, call[t].pc # "idle"
  PROVE  call[Main].pc = "up" /\ pools # <<>>
<1>1. call[t] # Idle
  BY DEF Idle
<1> QED
  BY <1>1 DEF Threads, MainPart

LEMMA ThreadsStep ==
  ASSUME TenantHeap, PoolHeap, Threads, NEW t \in Actor, Becomes(t), TenantsGrow, PoolsGrow,
         call'[t].tp <= Len(tenants'), call'[t].cached <= Len(tenants'), PoolPart(t)',
         t \in Thread => TenantPart(t)' /\ call[Main].pc = "up",
         t = Main => MainPart'
  PROVE  Threads' /\ \A u \in Actor \ {t} : \A p, s : Has(u, p, s)' <=> Has(u, p, s)
<1>1. ASSUME NEW u \in Actor \ {t}
      PROVE  /\ call'[u].tp <= Len(tenants') /\ call'[u].cached <= Len(tenants')
             /\ (u \in Thread => TenantPart(u)') /\ PoolPart(u)'
             /\ \A p, s : Has(u, p, s)' <=> Has(u, p, s)
  <2>1. call'[u] = call[u] /\ call[u] \in CallState
    BY DEF Becomes, Threads
  <2> QED
    BY <1>1, <2>1, PartKept DEF Threads
<1>2. MainPart'
  <2>1. CASE t = Main
    BY <2>1
  <2>2. CASE t # Main
    <3>1. t \in Thread /\ call'[Main] = call[Main] /\ call[Main].pc = "up"
      BY <2>2, ConstantFacts DEF Becomes
    <3>2. pools' # <<>>
      <4>1. pools # <<>>
        BY <3>1 DEF Threads, MainPart
      <4>2. Len(pools) \in Nat \ {0}
        BY <4>1 DEF PoolHeap
      <4> QED
        BY <4>2 DEF PoolsGrow
    <3> QED
      BY <3>1, <3>2 DEF MainPart, Threads
  <2> QED
    BY <2>1, <2>2
<1>3. Thread \subseteq Actor
  BY ConstantFacts
<1> QED
  BY <1>1, <1>2, <1>3 DEF Threads, Becomes

\* A thread takes only what is free, and what it gives back is free, or is a bad
\* connection of pool 1.
LEMMA HoldingsStep ==
  ASSUME PoolHeap, PoolHeap', Holdings, NEW t \in Actor, Len(pools) <= Len(pools'),
         \A u \in Actor \ {t} : \A p, s : Has(u, p, s)' <=> Has(u, p, s),
         \A p \in 1 .. Len(pools), s \in Slot :
           ~Has(t, p, s) /\ ~Has(t, p, s)' => pools'[p].slot[s] = pools[p].slot[s],
         \A p \in Nat, s \in Slot : Has(t, p, s)' =>
           /\ p \in 1 .. Len(pools) /\ pools'[p].slot[s].busy
           /\ Has(t, p, s) \/ ~pools[p].slot[s].busy,
         \A p \in 1 .. Len(pools), s \in Slot : Has(t, p, s) /\ ~Has(t, p, s)' =>
           \/ ~pools'[p].slot[s].busy
           \/ p = 1 /\ pools'[1].slot[s].status = "bad",
         \A p \in 1 .. Len(pools'), s \in Slot :
           p \notin 1 .. Len(pools) => ~pools'[p].slot[s].busy
  PROVE  Holdings'
<1>0. Len(pools) \in Nat /\ Len(pools') \in Nat /\ \A p \in 1 .. Len(pools) : p \in 1 .. Len(pools') /\ p \in Nat
  BY DEF PoolHeap
<1>1. ASSUME NEW u \in Actor, u # t, NEW p \in Nat, NEW s \in Slot, Has(u, p, s)
      PROVE  p \in 1 .. Len(pools) /\ ~Has(t, p, s) /\ ~Has(t, p, s)' /\ pools[p].slot[s].busy
             /\ pools'[p].slot[s] = pools[p].slot[s]
  <2>1. p \in 1 .. Len(pools) /\ pools[p].slot[s].busy
    BY <1>1 DEF Holdings, HeldIsBusy
  <2>2. ~Has(t, p, s)
    BY <1>1 DEF Holdings, HeldApart
  <2>3. ~Has(t, p, s)'
    BY <2>1, <2>2
  <2> QED
    BY <2>1, <2>2, <2>3
<1>2. HeldIsBusy'
  <2> SUFFICES ASSUME NEW u \in Actor, NEW p \in Nat, NEW s \in Slot, Has(u, p, s)'
               PROVE  p \in 1 .. Len(pools') /\ pools'[p].slot[s].busy
    BY DEF HeldIsBusy
  <2>1. CASE u = t
    BY <2>1, <1>0
  <2>2. CASE u # t
    BY <2>2, <1>0, <1>1
  <2> QED
    BY <2>1, <2>2
<1>3. HeldApart'
  <2> SUFFICES ASSUME NEW u \in Actor, NEW v \in Actor, NEW p \in Nat, NEW s \in Slot,
                      Has(u, p, s)', Has(v, p, s)', u # v
               PROVE  FALSE
    BY DEF HeldApart
  <2>1. CASE u # t /\ v # t
    BY <2>1 DEF Holdings, HeldApart
  <2>2. CASE u = t \/ v = t
    BY <2>2, <1>1
  <2> QED
    BY <2>1, <2>2
<1>4. BusyIsHeld'
  <2> SUFFICES ASSUME NEW p \in 1 .. Len(pools'), NEW s \in Slot, pools'[p].slot[s].busy,
                      ~(p = 1 /\ pools'[1].slot[s].status = "bad")
               PROVE  \E u \in Actor : Has(u, p, s)'
    BY DEF BusyIsHeld
  <2>1. p \in 1 .. Len(pools)
    OBVIOUS
  <2>2. CASE Has(t, p, s)
    BY <2>1, <2>2
  <2>3. CASE ~Has(t, p, s) /\ ~Has(t, p, s)'
    <3>1. pools'[p].slot[s] = pools[p].slot[s]
      BY <2>1, <2>3
    <3>2. PICK u \in Actor : Has(u, p, s)
      BY <2>1, <3>1 DEF Holdings, BusyIsHeld
    <3> QED
      BY <3>2, <2>3
  <2> QED
    BY <2>2, <2>3
<1> QED
  BY <1>2, <1>3, <1>4 DEF Holdings

\* The count of a pool, and the holder of its semaphore, when neither changes.
LEMMA SemsKept ==
  ASSUME PoolHeap, Threads, QueueCount, PoolSemHeld, NEW t \in Actor, Becomes(t), SameShape, SameSems,
         call[t].pc # "searchAny",
         \A p \in 1 .. Len(pools) : t \in Searching(p)' <=> t \in Searching(p)
  PROVE  QueueCount' /\ PoolSemHeld'
<1>0. Len(pools') = Len(pools)
  BY DEF SameShape
<1>1. \A p \in 1 .. Len(pools) : Searching(p)' = Searching(p)
  BY DEF Searching, Becomes
<1>2. QueueCount'
  BY <1>0, <1>1 DEF QueueCount, SameSems
<1>3. PoolSemHeld'
  <2> SUFFICES ASSUME NEW p \in 1 .. Len(pools), pools'[p].poolSem # None
               PROVE  /\ call'[pools'[p].poolSem].pool = p
                      /\ call'[pools'[p].poolSem].pc = "searchAny"
    BY <1>0 DEF PoolSemHeld
  <2>1. pools[p] \in PoolRecord /\ pools'[p].poolSem = pools[p].poolSem
    BY DEF PoolHeap, SameSems
  <2>2. pools[p].poolSem \in Actor
    BY <2>1 DEF PoolRecord
  <2> QED
    BY <2>1, <2>2 DEF PoolSemHeld, Becomes
<1> QED
  BY <1>2, <1>3

\* A step that leaves the pools and what thread t has of them alone.
LEMMA QuietStep ==
  ASSUME TroeInv, NEW t \in Actor, Becomes(t), pools' = pools, TenantsGrow,
         TenantHeap', Plain', OwnDatabase', TenantSemHeld',
         call[t].pc \notin {"search", "searchAny"}, call'[t].pc \notin {"search", "searchAny"},
         \A p \in Nat, s \in Slot : Has(t, p, s)' <=> Has(t, p, s),
         call'[t].tp <= Len(tenants'), call'[t].cached <= Len(tenants'), PoolPart(t)',
         t \in Thread => TenantPart(t)' /\ call[Main].pc = "up",
         t = Main => MainPart'
  PROVE  TroeInv'
<1> USE DEF TroeInv
<1>1. SameShape /\ SameSems /\ PoolsGrow /\ PoolHeap'
  BY PoolsStay
<1>2. Threads' /\ \A u \in Actor \ {t} : \A p, s : Has(u, p, s)' <=> Has(u, p, s)
  BY <1>1, ThreadsStep
<1>3. Holdings'
  <2>0. Len(pools) \in Nat /\ \A p \in 1 .. Len(pools) : p \in Nat
    BY DEF PoolHeap
  <2>1. \A p \in Nat, s \in Slot : Has(t, p, s)' => p \in 1 .. Len(pools) /\ pools'[p].slot[s].busy
    BY DEF Holdings, HeldIsBusy
  <2>2. /\ Len(pools) <= Len(pools')
        /\ \A p \in 1 .. Len(pools), s \in Slot : pools'[p].slot[s] = pools[p].slot[s]
        /\ \A p \in 1 .. Len(pools'), s \in Slot : p \in 1 .. Len(pools)
    BY <2>0
  <2>3. /\ \A p \in Nat, s \in Slot : Has(t, p, s)' =>
             /\ p \in 1 .. Len(pools) /\ pools'[p].slot[s].busy
             /\ Has(t, p, s) \/ ~pools[p].slot[s].busy
        /\ \A p \in 1 .. Len(pools), s \in Slot : ~(Has(t, p, s) /\ ~Has(t, p, s)')
    BY <2>0, <2>1
  <2> QED
    BY <1>1, <1>2, <2>2, <2>3, HoldingsStep
<1>4. QueueCount' /\ PoolSemHeld'
  <2>1. \A p : t \notin Searching(p) /\ t \notin Searching(p)'
    BY DEF Searching
  <2> QED
    BY <1>1, <2>1, SemsKept
<1> QED
  BY <1>1, <1>2, <1>3, <1>4

LEMMA CallIs ==
  ASSUME Threads, NEW t \in Actor, NEW c \in CallState, call' = [call EXCEPT ![t] = c]
  PROVE  Becomes(t) /\ call'[t] = c
BY DEF Threads, Becomes

LEMMA TenantSemKept ==
  ASSUME TenantSemHeld, NEW t \in Actor, Becomes(t), tenantSem' = tenantSem,
         tenantSem = t =>
           /\ call'[t].kind = "make"
           /\ call'[t].pc \in {"lookup", "compare", "push", "publish", "tables", "prepared"} \cup Getting
           /\ call'[t].pc \in Getting => call'[t].caller \in {"prepare", "create"}
  PROVE  TenantSemHeld'
<1> Thread \subseteq Actor
  BY ConstantFacts
<1> QED
  BY DEF TenantSemHeld, Becomes

LEMMA FindPoolNext ==
  ASSUME TroeInv, NEW t \in Actor, FindPool(t)
  PROVE  TroeInv'
<1> USE DEF TroeInv
<1> DEFINE asked == DbAsked(t)
           p == IF asked # None THEN PoolOf(asked) ELSE IF pools = <<>> THEN 0 ELSE 1
<1>0. /\ call[t] \in CallState /\ call[t].pc = "find" /\ PoolPart(t)
      /\ call[t].tp <= Len(tenants) /\ call[t].cached <= Len(tenants)
  BY DEF FindPool, At, Threads
<1>1. /\ UNCHANGED <<tenants, tenantList, tenantCache, tenantSem, pools, database, mongoDb, history,
                     alive, requests, faults, restarts>>
      /\ call' = [call EXCEPT ![t].pool = p, ![t].slot = 0,
                              ![t].pc = IF p # 0 THEN "queue" ELSE IF asked = None THEN "got" ELSE "insert"]
  BY DEF FindPool, tenantVars, bounds
<1>2. asked # None => pools # <<>>
  <2>1. CASE t \in Thread
    BY <2>1, <1>0, Awake
  <2>2. CASE t = Main /\ call[t].caller = "create"
    <3>1. call[t].null \in Slot /\ Has(t, 1, call[t].null)
      BY <1>0, <2>2, ConstantFacts DEF PoolPart, CallState, Has, Getting
    <3> QED
      BY <3>1 DEF Holdings, HeldIsBusy
  <2>3. CASE t = Main /\ call[t].caller # "create"
    BY <1>0, <2>3 DEF DbAsked, Threads, MainPart, PoolPart, Getting
  <2> QED
    BY <2>1, <2>2, <2>3, ConstantFacts
<1>3. p \in Nat /\ (p # 0 => p \in 1 .. Len(pools) /\ pools[p].db = asked)
  <2>1. Len(pools) \in Nat /\ (pools # <<>> => 1 \in 1 .. Len(pools))
    BY DEF PoolHeap
  <2>2. CASE asked # None
    <3> HIDE DEF asked
    <3> QED
      BY <1>2, <2>1, <2>2, PoolOfIs
  <2>3. CASE asked = None
    BY <2>1, <2>3 DEF PoolHeap
  <2> QED
    BY <2>2, <2>3
<1> DEFINE pc == IF p # 0 THEN "queue" ELSE IF asked = None THEN "got" ELSE "insert"
           c == [call[t] EXCEPT !.pool = p, !.slot = 0, !.pc = pc]
<1> HIDE DEF p, asked
<1>a. pc \in {"queue", "got", "insert"}
  OBVIOUS
<1>b. call' = [call EXCEPT ![t] = c]
  BY <1>1
<1> HIDE DEF pc
<1>c. /\ c \in CallState /\ c.pool = p /\ c.slot = 0 /\ c.pc = pc
      /\ c.kind = call[t].kind /\ c.tenant = call[t].tenant /\ c.tp = call[t].tp
      /\ c.cached = call[t].cached /\ c.caller = call[t].caller /\ c.null = call[t].null
  <2>1. 0 \in 0 .. PoolSize
    BY ConstantFacts
  <2>2. pc \in Getting
    BY <1>a DEF Getting
  <2> QED
    BY <1>0, <1>3, <2>1, <2>2 DEF CallState
<1> HIDE DEF c
<1>4. Becomes(t) /\ call'[t] = c
  BY <1>b, <1>c, CallIs
<1>5. DbAsked(t)' = asked
  BY <1>1, <1>4, <1>c DEF DbAsked, TroeDb, asked
<1>6. PoolPart(t)'
  BY <1>0, <1>1, <1>3, <1>4, <1>5, <1>c DEF PoolPart, Getting, Pooled, pc
<1>7. \A q \in Nat, s \in Slot : Has(t, q, s)' <=> Has(t, q, s)
  BY <1>0, <1>4, <1>c, ConstantFacts DEF Has, PoolPart, CallState
<1>8. t \in Thread => TenantPart(t)' /\ call[Main].pc = "up"
  <2>1. t \in Thread => TenantPart(t)'
    BY <1>0, <1>1, <1>4, <1>a, <1>c DEF TenantPart, Threads, Seeking, BootPc
  <2> QED
    BY <1>0, <2>1, Awake
<1>9. t = Main => MainPart'
  BY <1>0, <1>1, <1>4, <1>a, <1>c, ConstantFacts DEF MainPart, Threads, Becomes, Getting, BootPc
<1>10. TenantSemHeld'
  BY <1>0, <1>1, <1>4, <1>a, <1>c, TenantSemKept DEF TenantSemHeld, Getting
<1>11. TenantHeap' /\ Plain' /\ OwnDatabase' /\ TenantsGrow
  BY <1>1, TenantsStay DEF TenantHeap, Plain, OwnDatabase
<1>12. /\ call[t].pc \notin {"search", "searchAny"} /\ call'[t].pc \notin {"search", "searchAny"}
       /\ call'[t].tp <= Len(tenants') /\ call'[t].cached <= Len(tenants')
  BY <1>0, <1>1, <1>4, <1>a, <1>c
<1> QED
  BY <1>1, <1>4, <1>6, <1>7, <1>8, <1>9, <1>10, <1>11, <1>12, QuietStep

LEMMA ReadCacheNext ==
  ASSUME TroeInv, NEW t \in Actor, ReadCache(t)
  PROVE  TroeInv'
<1> USE DEF TroeInv
<1>0. /\ call[t] \in CallState /\ call[t].pc = "lookup" /\ PoolPart(t)
      /\ call[t].tp <= Len(tenants) /\ call[t].cached <= Len(tenants)
  BY DEF ReadCache, At, Threads
<1>t. t \in Thread /\ TenantPart(t) /\ call[Main].pc = "up"
  <2>1. t # Main
    BY <1>0 DEF Threads, MainPart, BootPc, Getting
  <2>2. t \in Thread
    BY <2>1, ConstantFacts
  <2> QED
    BY <1>0, <2>2, Awake DEF Threads
<1> DEFINE c == [call[t] EXCEPT !.cached = tenantCache, !.pc = "compare"]
<1>1. /\ UNCHANGED <<tenants, tenantList, tenantCache, tenantSem, pools, database, mongoDb, history, alive, requests, faults, restarts>>
      /\ call' = [call EXCEPT ![t] = c]
  BY DEF ReadCache, tenantVars, bounds
<1>2. /\ c \in CallState /\ c.pc = "compare" /\ c.kind = call[t].kind
      /\ c.tenant = call[t].tenant /\ c.tp = call[t].tp /\ c.cached = tenantCache
      /\ c.caller = call[t].caller /\ c.pool = call[t].pool /\ c.slot = call[t].slot
      /\ c.null = call[t].null
  <2>1. tenantCache \in Nat
    BY DEF TenantHeap
  <2> QED
    BY <1>0, <2>1 DEF CallState, Seeking
<1> HIDE DEF c
<1>3. Becomes(t) /\ call'[t] = c
  BY <1>1, <1>2, CallIs
<1>4. PoolPart(t)'
  BY <1>0, <1>1, <1>2, <1>3 DEF PoolPart, Getting, Pooled
<1>5. \A p \in Nat, s \in Slot : Has(t, p, s)' <=> Has(t, p, s)
  BY <1>0, <1>2, <1>3, ConstantFacts DEF Has, PoolPart, Getting
<1>6. TenantPart(t)' /\ t # Main
  BY <1>0, <1>t, <1>1, <1>2, <1>3, ConstantFacts DEF TenantPart, Seeking, BootPc
<1>7. TenantSemHeld'
  BY <1>0, <1>1, <1>2, <1>3, TenantSemKept DEF TenantSemHeld, Getting
<1>8. TenantHeap' /\ Plain' /\ OwnDatabase' /\ TenantsGrow
  BY <1>1, TenantsStay DEF TenantHeap, Plain, OwnDatabase
<1>9. /\ call[t].pc \notin {"search", "searchAny"} /\ call'[t].pc \notin {"search", "searchAny"}
      /\ call'[t].tp <= Len(tenants') /\ call'[t].cached <= Len(tenants')
  BY <1>0, <1>1, <1>2, <1>3 DEF TenantHeap
<1> QED
  BY <1>1, <1>3, <1>4, <1>5, <1>t, <1>6, <1>7, <1>8, <1>9, QuietStep

LEMMA LookupNext ==
  ASSUME TroeInv, NEW t \in Actor, Lookup(t)
  PROVE  TroeInv'
<1> USE DEF TroeInv
<1>0. /\ call[t] \in CallState /\ call[t].pc = "compare" /\ PoolPart(t)
      /\ call[t].tp <= Len(tenants) /\ call[t].cached <= Len(tenants)
  BY DEF Lookup, At, Threads
<1>t. t \in Thread /\ TenantPart(t) /\ call[Main].pc = "up"
  <2>1. t # Main
    BY <1>0 DEF Threads, MainPart, BootPc, Getting
  <2>2. t \in Thread
    BY <2>1, ConstantFacts
  <2> QED
    BY <1>0, <2>2, Awake DEF Threads
<1> DEFINE tp == Found(t)
           get == call[t].kind = "make"
           pc == IF tp # 0 THEN "serve" ELSE IF ~get THEN "exists"
                 ELSE IF tenantSem = t THEN "push" ELSE "tenantSem"
<1>p. tp \in Nat /\ tp <= Len(tenants) /\ (tp # 0 => tenants[tp].tenant = call[t].tenant)
  <2>1. Len(tenants) \in Nat
    BY DEF TenantHeap
  <2>2. CASE call[t].cached # 0 /\ tenants[call[t].cached].tenant = call[t].tenant
    BY <1>0, <2>1, <2>2 DEF Found, CallState
  <2>3. CASE ~(call[t].cached # 0 /\ tenants[call[t].cached].tenant = call[t].tenant)
    BY <2>1, <2>3, ListedIs DEF Found
  <2> QED
    BY <2>2, <2>3
<1> HIDE DEF tp
<1>q. pc \in {"serve", "exists", "push", "tenantSem"}
  OBVIOUS
<1> DEFINE c == [call[t] EXCEPT !.tp = tp, !.cached = 0, !.pc = pc]
<1>1. /\ UNCHANGED <<tenants, tenantList, pools, database, mongoDb, history, alive, requests, faults, restarts>>
      /\ tenantCache' = (IF get /\ tp # 0 THEN tp ELSE tenantCache)
      /\ tenantSem' = (IF tp # 0 /\ tenantSem = t THEN None ELSE tenantSem)
      /\ call' = [call EXCEPT ![t] = c]
  BY DEF Lookup, tenantVars, bounds, Lookup, tp
<1>2. /\ c \in CallState /\ c.pc = pc /\ c.kind = call[t].kind
      /\ c.tenant = call[t].tenant /\ c.tp = tp /\ c.cached = 0
      /\ c.caller = call[t].caller /\ c.pool = call[t].pool /\ c.slot = call[t].slot
      /\ c.null = call[t].null
  BY <1>0, <1>p, <1>q DEF CallState, Seeking
<1> HIDE DEF c
<1>3. Becomes(t) /\ call'[t] = c
  BY <1>1, <1>2, CallIs
<1>4. PoolPart(t)'
  BY <1>0, <1>1, <1>2, <1>3, <1>q DEF PoolPart, Getting, Pooled
<1>5. \A p \in Nat, s \in Slot : Has(t, p, s)' <=> Has(t, p, s)
  BY <1>0, <1>2, <1>3, ConstantFacts, <1>q DEF Has, PoolPart, Getting
<1>6. TenantPart(t)' /\ t # Main
  BY <1>0, <1>t, <1>1, <1>2, <1>3, ConstantFacts, <1>p, <1>q DEF TenantPart, Seeking, BootPc
<1>7. TenantSemHeld'
  <2>1. CASE tenantSem = t
    <3>1. get
      BY <2>1, ConstantFacts DEF TenantSemHeld
    <3>2. CASE tp # 0
      BY <1>1, <2>1, <3>2 DEF TenantSemHeld
    <3>3. CASE tp = 0
      BY <1>1, <1>2, <1>3, <1>t, <2>1, <3>1, <3>3, TenantSemKept DEF Getting
    <3> QED
      BY <3>2, <3>3
  <2>2. CASE tenantSem # t
    BY <1>1, <1>3, <2>2, TenantSemKept
  <2> QED
    BY <2>1, <2>2
<1>8. TenantHeap' /\ Plain' /\ OwnDatabase' /\ TenantsGrow
  <2>1. tenantCache' \in 0 .. Len(tenants)
    BY <1>1, <1>p DEF TenantHeap
  <2> QED
    BY <1>1, <2>1, TenantsStay DEF TenantHeap, Plain, OwnDatabase
<1>9. /\ call[t].pc \notin {"search", "searchAny"} /\ call'[t].pc \notin {"search", "searchAny"}
      /\ call'[t].tp <= Len(tenants') /\ call'[t].cached <= Len(tenants')
  BY <1>0, <1>1, <1>2, <1>3, <1>p, <1>q, <1>8 DEF TenantHeap
<1> QED
  BY <1>1, <1>3, <1>4, <1>5, <1>t, <1>6, <1>7, <1>8, <1>9, QuietStep

LEMMA TakeTenantSemNext ==
  ASSUME TroeInv, NEW t \in Actor, TakeTenantSem(t)
  PROVE  TroeInv'
<1> USE DEF TroeInv
<1>0. /\ call[t] \in CallState /\ call[t].pc = "tenantSem" /\ PoolPart(t)
      /\ call[t].tp <= Len(tenants) /\ call[t].cached <= Len(tenants)
  BY DEF TakeTenantSem, At, Threads
<1>t. t \in Thread /\ TenantPart(t) /\ call[Main].pc = "up"
  <2>1. t # Main
    BY <1>0 DEF Threads, MainPart, BootPc, Getting
  <2>2. t \in Thread
    BY <2>1, ConstantFacts
  <2> QED
    BY <1>0, <2>2, Awake DEF Threads
<1> DEFINE c == [call[t] EXCEPT !.pc = "lookup"]
<1>1. /\ UNCHANGED <<tenants, tenantList, tenantCache, pools, database, mongoDb, history, alive, requests, faults, restarts>>
      /\ tenantSem = None /\ tenantSem' = t
      /\ call' = [call EXCEPT ![t] = c]
  BY DEF TakeTenantSem, tenantVars, bounds
<1>2. /\ c \in CallState /\ c.pc = "lookup" /\ c.kind = call[t].kind
      /\ c.tenant = call[t].tenant /\ c.tp = call[t].tp /\ c.cached = call[t].cached
      /\ c.caller = call[t].caller /\ c.pool = call[t].pool /\ c.slot = call[t].slot
      /\ c.null = call[t].null
  BY <1>0 DEF CallState, Seeking
<1> HIDE DEF c
<1>3. Becomes(t) /\ call'[t] = c
  BY <1>1, <1>2, CallIs
<1>4. PoolPart(t)'
  BY <1>0, <1>1, <1>2, <1>3 DEF PoolPart, Getting, Pooled
<1>5. \A p \in Nat, s \in Slot : Has(t, p, s)' <=> Has(t, p, s)
  BY <1>0, <1>2, <1>3, ConstantFacts DEF Has, PoolPart, Getting
<1>6. TenantPart(t)' /\ t # Main
  BY <1>0, <1>t, <1>1, <1>2, <1>3, ConstantFacts DEF TenantPart, Seeking, BootPc
<1>7. TenantSemHeld'
  BY <1>0, <1>t, <1>1, <1>2, <1>3 DEF TenantSemHeld, TenantPart, Getting
<1>8. TenantHeap' /\ Plain' /\ OwnDatabase' /\ TenantsGrow
  BY <1>1, TenantsStay DEF TenantHeap, Plain, OwnDatabase
<1>9. /\ call[t].pc \notin {"search", "searchAny"} /\ call'[t].pc \notin {"search", "searchAny"}
      /\ call'[t].tp <= Len(tenants') /\ call'[t].cached <= Len(tenants')
  BY <1>0, <1>1, <1>2, <1>3 DEF TenantHeap
<1> QED
  BY <1>1, <1>3, <1>4, <1>5, <1>t, <1>6, <1>7, <1>8, <1>9, QuietStep

\* A thread that has nothing to do.
LEMMA IdleIs ==
  /\ Idle \in CallState /\ Idle.pc = "idle" /\ Idle.tenant = Default /\ Idle.tp = 0 /\ Idle.cached = 0
  /\ Idle.kind = "none" /\ Idle.caller = "none" /\ Idle.pool = 0 /\ Idle.slot = 0 /\ Idle.null = 0
BY ConstantFacts DEF Idle, CallState

\* A thread that ends its request with nothing in its hands.
LEMMA EndStep ==
  ASSUME TroeInv, NEW t \in Thread, call' = [call EXCEPT ![t] = Idle], call[t].pc # "idle",
         call[t].pc \notin {"search", "searchAny"}, call[t].slot = 0, call[t].null = 0,
         tenantSem # t,
         UNCHANGED <<tenants, tenantList, tenantCache, tenantSem, pools, history>>,
         Plain'
  PROVE  TroeInv'
<1> USE DEF TroeInv
<1>1. t \in Actor /\ call[Main].pc = "up" /\ t # Main
  BY Awake, ConstantFacts
<1>2. Becomes(t) /\ call'[t] = Idle
  BY <1>1, IdleIs, CallIs
<1>3. PoolPart(t)'
  BY <1>2, IdleIs DEF PoolPart, Getting, Pooled
<1>4. TenantPart(t)'
  BY <1>2, IdleIs DEF TenantPart, Seeking, BootPc
<1>5. \A p \in Nat, s \in Slot : Has(t, p, s)' <=> Has(t, p, s)
  BY <1>2, IdleIs, ConstantFacts DEF Has
<1>6. TenantSemHeld'
  BY <1>1, <1>2, TenantSemKept
<1>7. TenantHeap' /\ OwnDatabase' /\ TenantsGrow
  BY TenantsStay DEF TenantHeap, OwnDatabase
<1>8. /\ call'[t].pc \notin {"search", "searchAny"}
      /\ call'[t].tp <= Len(tenants') /\ call'[t].cached <= Len(tenants')
  BY <1>2, IdleIs DEF TenantHeap
<1> QED
  BY <1>1, <1>2, <1>3, <1>4, <1>5, <1>6, <1>7, <1>8, QuietStep

LEMMA TenantExistsNext ==
  ASSUME TroeInv, NEW t \in Actor, TenantExists(t)
  PROVE  TroeInv'
<1> USE DEF TroeInv
<1>0. /\ call[t] \in CallState /\ call[t].pc = "exists" /\ PoolPart(t)
      /\ call[t].tp <= Len(tenants) /\ call[t].cached <= Len(tenants)
  BY DEF TenantExists, At, Threads
<1>t. t \in Thread /\ TenantPart(t) /\ call[Main].pc = "up"
  <2>1. t # Main
    BY <1>0 DEF Threads, MainPart, BootPc, Getting
  <2>2. t \in Thread
    BY <2>1, ConstantFacts
  <2> QED
    BY <1>0, <2>2, Awake DEF Threads
<1>s. tenantSem # t
  BY <1>0, <1>t, ConstantFacts DEF TenantSemHeld, Getting
<1>1. UNCHANGED <<tenants, tenantList, tenantCache, tenantSem, pools, database, mongoDb, history, alive,
                  requests, faults, restarts>>
  BY DEF TenantExists, tenantVars, bounds
<1>2. CASE call[t].tenant \in mongoDb
  <2> DEFINE c == [call[t] EXCEPT !.pc = "push"]
  <2>1. call' = [call EXCEPT ![t] = c]
    BY <1>2 DEF TenantExists
  <2>2. /\ c \in CallState /\ c.pc = "push" /\ c.kind = call[t].kind
        /\ c.tenant = call[t].tenant /\ c.tp = call[t].tp /\ c.cached = call[t].cached
        /\ c.caller = call[t].caller /\ c.pool = call[t].pool /\ c.slot = call[t].slot
        /\ c.null = call[t].null
    BY <1>0 DEF CallState, Seeking
  <2> HIDE DEF c
  <2>3. Becomes(t) /\ call'[t] = c
    BY <1>1, <2>1, <2>2, CallIs
  <2>4. PoolPart(t)'
    BY <1>0, <1>1, <2>2, <2>3 DEF PoolPart, Getting, Pooled
  <2>5. \A p \in Nat, s \in Slot : Has(t, p, s)' <=> Has(t, p, s)
    BY <1>0, <2>2, <2>3, ConstantFacts DEF Has, PoolPart, Getting
  <2>6. TenantPart(t)' /\ t # Main
    BY <1>0, <1>t, <1>1, <2>2, <2>3, ConstantFacts DEF TenantPart, Seeking, BootPc
  <2>7. TenantSemHeld'
    BY <1>0, <1>1, <2>2, <2>3, TenantSemKept DEF TenantSemHeld, Getting
  <2>8. TenantHeap' /\ Plain' /\ OwnDatabase' /\ TenantsGrow
    BY <1>1, <2>1, TenantsStay DEF TenantHeap, Plain, OwnDatabase
  <2>9. /\ call[t].pc \notin {"search", "searchAny"} /\ call'[t].pc \notin {"search", "searchAny"}
        /\ call'[t].tp <= Len(tenants') /\ call'[t].cached <= Len(tenants')
    BY <1>0, <1>1, <2>2, <2>3 DEF TenantHeap
  <2> QED
    BY <1>1, <2>1, <2>3, <2>4, <2>5, <1>t, <2>6, <2>7, <2>8, <2>9, QuietStep
<1>3. CASE call[t].tenant \notin mongoDb
  <2>1. call' = [call EXCEPT ![t] = Idle]
    BY <1>3 DEF TenantExists
  <2>2. Plain'
    BY <1>1 DEF Plain
  <2>3. call[t].slot = 0 /\ call[t].null = 0
    BY <1>0 DEF PoolPart, Getting
  <2> QED
    BY <1>0, <1>t, <1>s, <1>1, <2>1, <2>2, <2>3, EndStep
<1> QED
  BY <1>2, <1>3

LEMMA NewTenantNext ==
  ASSUME TroeInv, NEW t \in Actor, NewTenant(t)
  PROVE  TroeInv'
<1> USE DEF TroeInv
<1>0. /\ call[t] \in CallState /\ call[t].pc = "push" /\ PoolPart(t)
      /\ call[t].tp <= Len(tenants) /\ call[t].cached <= Len(tenants)
  BY DEF NewTenant, At, Threads
<1>p. Len(tenants) \in Nat /\ call[t].tenant \in Tenant
  <2>1. CASE t \in Thread
    BY <1>0, <2>1 DEF Threads, TenantPart, Seeking, TenantHeap
  <2>2. CASE t = Main
    BY <1>0, <2>2 DEF Threads, MainPart, TenantHeap
  <2> QED
    BY <2>1, <2>2, ConstantFacts
<1> DEFINE new == [tenant |-> call[t].tenant, next |-> tenantList]
<1> DEFINE c == [call[t] EXCEPT !.tp = Len(tenants) + 1, !.pc = "publish"]
<1>1. /\ UNCHANGED <<tenantList, tenantCache, tenantSem, pools, database, mongoDb, history, alive, requests, faults, restarts>>
      /\ tenants' = Append(tenants, new)
      /\ call' = [call EXCEPT ![t] = c]
  BY DEF NewTenant, tenantVars, bounds
<1>2. /\ c \in CallState /\ c.pc = "publish" /\ c.kind = call[t].kind
      /\ c.tenant = call[t].tenant /\ c.tp = Len(tenants) + 1 /\ c.cached = call[t].cached
      /\ c.caller = call[t].caller /\ c.pool = call[t].pool /\ c.slot = call[t].slot
      /\ c.null = call[t].null
  <2>1. Len(tenants) + 1 \in Nat
    BY <1>p
  <2> QED
    BY <1>0, <2>1 DEF CallState
<1> HIDE DEF c
<1>3. Becomes(t) /\ call'[t] = c
  BY <1>1, <1>2, CallIs
<1>4. PoolPart(t)'
  BY <1>0, <1>1, <1>2, <1>3 DEF PoolPart, Getting, Pooled
<1>5. \A p \in Nat, s \in Slot : Has(t, p, s)' <=> Has(t, p, s)
  BY <1>0, <1>2, <1>3, ConstantFacts DEF Has, PoolPart, Getting
<1>8. /\ TenantHeap' /\ Plain' /\ OwnDatabase' /\ TenantsGrow
      /\ Len(tenants') = Len(tenants) + 1 /\ tenants'[Len(tenants) + 1].tenant = call[t].tenant
  <2>1. new \in TenantRecord /\ new.tenant = call[t].tenant /\ new.next = tenantList
    BY <1>p DEF TenantRecord, TenantHeap
  <2> HIDE DEF new
  <2>2. /\ tenants' \in Seq(TenantRecord) /\ Len(tenants') = Len(tenants) + 1
        /\ \A n \in 1 .. Len(tenants) : tenants'[n] = tenants[n]
        /\ tenants'[Len(tenants) + 1] = new
    BY <1>1, <1>p, <2>1 DEF TenantHeap
  <2>3. TenantHeap'
    BY <1>1, <1>p, <2>1, <2>2 DEF TenantHeap
  <2> QED
    BY <1>1, <1>p, <2>1, <2>2, <2>3 DEF TenantsGrow, Plain, OwnDatabase
<1>6. t \in Thread => TenantPart(t)' /\ call[Main].pc = "up"
  <2>1. t \in Thread => TenantPart(t)'
    BY <1>0, <1>1, <1>2, <1>3, <1>p, <1>8 DEF TenantPart, Threads, Seeking, BootPc
  <2> QED
    BY <1>0, <2>1, Awake
<1>m. t = Main => MainPart'
  BY <1>0, <1>1, <1>2, <1>3, ConstantFacts DEF MainPart, Threads, Becomes, Getting, BootPc
<1>7. TenantSemHeld'
  BY <1>0, <1>1, <1>2, <1>3, TenantSemKept DEF TenantSemHeld, Getting
<1>9. /\ call[t].pc \notin {"search", "searchAny"} /\ call'[t].pc \notin {"search", "searchAny"}
      /\ call'[t].tp <= Len(tenants') /\ call'[t].cached <= Len(tenants')
  BY <1>0, <1>1, <1>2, <1>3, <1>p, <1>8 DEF CallState
<1> QED
  BY <1>1, <1>3, <1>4, <1>5, <1>6, <1>m, <1>7, <1>8, <1>9, QuietStep

LEMMA PublishTenantNext ==
  ASSUME TroeInv, NEW t \in Actor, PublishTenant(t)
  PROVE  TroeInv'
<1> USE DEF TroeInv
<1>0. /\ call[t] \in CallState /\ call[t].pc = "publish" /\ PoolPart(t)
      /\ call[t].tp <= Len(tenants) /\ call[t].cached <= Len(tenants)
  BY DEF PublishTenant, At, Threads
<1> DEFINE c == [call[t] EXCEPT !.pc = "find", !.caller = "prepare"]
<1>1. /\ UNCHANGED <<tenants, tenantCache, tenantSem, pools, database, mongoDb, history, alive, requests, faults, restarts>>
      /\ tenantList' = call[t].tp
      /\ call' = [call EXCEPT ![t] = c]
  BY DEF PublishTenant, tenantVars, bounds
<1>2. /\ c \in CallState /\ c.pc = "find" /\ c.kind = call[t].kind
      /\ c.tenant = call[t].tenant /\ c.tp = call[t].tp /\ c.cached = call[t].cached
      /\ c.caller = "prepare" /\ c.pool = call[t].pool /\ c.slot = call[t].slot
      /\ c.null = call[t].null
  BY <1>0 DEF CallState, Seeking, Getting
<1> HIDE DEF c
<1>3. Becomes(t) /\ call'[t] = c
  BY <1>1, <1>2, CallIs
<1>4. PoolPart(t)'
  BY <1>0, <1>1, <1>2, <1>3 DEF PoolPart, Getting, Pooled
<1>5. \A p \in Nat, s \in Slot : Has(t, p, s)' <=> Has(t, p, s)
  BY <1>0, <1>2, <1>3, ConstantFacts DEF Has, PoolPart, Getting
<1>6. t \in Thread => TenantPart(t)' /\ call[Main].pc = "up"
  <2>1. t \in Thread => TenantPart(t)'
    BY <1>0, <1>1, <1>2, <1>3 DEF TenantPart, Threads, Seeking, BootPc
  <2> QED
    BY <1>0, <2>1, Awake
<1>m. t = Main => MainPart'
  BY <1>0, <1>1, <1>2, <1>3, ConstantFacts DEF MainPart, Threads, Becomes, Getting, BootPc
<1>7. TenantSemHeld'
  BY <1>0, <1>1, <1>2, <1>3, TenantSemKept DEF TenantSemHeld, Getting
<1>8. TenantHeap' /\ Plain' /\ OwnDatabase' /\ TenantsGrow
  <2>1. tenantList' \in 0 .. Len(tenants)
    BY <1>0, <1>1 DEF TenantHeap, CallState
  <2> QED
    BY <1>1, <2>1, TenantsStay DEF TenantHeap, Plain, OwnDatabase
<1>9. /\ call[t].pc \notin {"search", "searchAny"} /\ call'[t].pc \notin {"search", "searchAny"}
      /\ call'[t].tp <= Len(tenants') /\ call'[t].cached <= Len(tenants')
  BY <1>0, <1>1, <1>2, <1>3, <1>8 DEF TenantHeap
<1> QED
  BY <1>1, <1>3, <1>4, <1>5, <1>6, <1>m, <1>7, <1>8, <1>9, QuietStep

LEMMA TenantReadyNext ==
  ASSUME TroeInv, NEW t \in Actor, TenantReady(t)
  PROVE  TroeInv'
<1> USE DEF TroeInv
<1>0. /\ call[t] \in CallState /\ call[t].pc = "prepared" /\ PoolPart(t)
      /\ call[t].tp <= Len(tenants) /\ call[t].cached <= Len(tenants)
  BY DEF TenantReady, At, Threads
<1>t. t \in Thread /\ TenantPart(t) /\ call[Main].pc = "up"
  <2>1. t # Main
    BY <1>0 DEF Threads, MainPart, BootPc, Getting
  <2>2. t \in Thread
    BY <2>1, ConstantFacts
  <2> QED
    BY <1>0, <2>2, Awake DEF Threads
<1> DEFINE c == [call[t] EXCEPT !.pc = "serve"]
<1>1. /\ UNCHANGED <<tenants, tenantList, pools, database, mongoDb, history, alive, requests, faults, restarts>>
      /\ tenantCache' = (IF call[t].kind = "make" THEN call[t].tp ELSE tenantCache)
      /\ tenantSem' = (IF tenantSem = t THEN None ELSE tenantSem)
      /\ call' = [call EXCEPT ![t] = c]
  BY DEF TenantReady, tenantVars, bounds
<1>2. /\ c \in CallState /\ c.pc = "serve" /\ c.kind = call[t].kind
      /\ c.tenant = call[t].tenant /\ c.tp = call[t].tp /\ c.cached = call[t].cached
      /\ c.caller = call[t].caller /\ c.pool = call[t].pool /\ c.slot = call[t].slot
      /\ c.null = call[t].null
  BY <1>0 DEF CallState, Seeking, Getting
<1> HIDE DEF c
<1>3. Becomes(t) /\ call'[t] = c
  BY <1>1, <1>2, CallIs
<1>4. PoolPart(t)'
  BY <1>0, <1>1, <1>2, <1>3 DEF PoolPart, Getting, Pooled
<1>5. \A p \in Nat, s \in Slot : Has(t, p, s)' <=> Has(t, p, s)
  BY <1>0, <1>2, <1>3, ConstantFacts DEF Has, PoolPart, Getting
<1>6. TenantPart(t)' /\ t # Main
  BY <1>0, <1>t, <1>1, <1>2, <1>3, ConstantFacts DEF TenantPart, Seeking, BootPc
<1>7. TenantSemHeld'
  <2>1. CASE tenantSem = t
    BY <1>1, <2>1 DEF TenantSemHeld
  <2>2. CASE tenantSem # t
    BY <1>1, <1>3, <2>2, TenantSemKept
  <2> QED
    BY <2>1, <2>2
<1>8. TenantHeap' /\ Plain' /\ OwnDatabase' /\ TenantsGrow
  <2>1. tenantCache' \in 0 .. Len(tenants)
    BY <1>0, <1>1 DEF TenantHeap, CallState
  <2> QED
    BY <1>1, <2>1, TenantsStay DEF TenantHeap, Plain, OwnDatabase
<1>9. /\ call[t].pc \notin {"search", "searchAny"} /\ call'[t].pc \notin {"search", "searchAny"}
      /\ call'[t].tp <= Len(tenants') /\ call'[t].cached <= Len(tenants')
  BY <1>0, <1>1, <1>2, <1>3, <1>8 DEF TenantHeap
<1> QED
  BY <1>1, <1>3, <1>4, <1>5, <1>t, <1>6, <1>7, <1>8, <1>9, QuietStep

\* Steps that leave the memory of the broker alone.
LEMMA MemoryKept ==
  ASSUME TroeInv, UNCHANGED <<tenants, tenantList, tenantCache, tenantSem, pools, call, history>>, Plain'
  PROVE  TroeInv'
<1> USE DEF TroeInv
<1>1. \A t \in Actor : (PoolPart(t)' <=> PoolPart(t)) /\ (TenantPart(t)' <=> TenantPart(t))
  BY DEF PoolPart, TenantPart, DbAsked, TroeDb
<1>2. Threads'
  BY <1>1, ConstantFacts DEF Threads, MainPart
<1>3. \A t, p, s : Has(t, p, s)' <=> Has(t, p, s)
  BY DEF Has
<1>4. Holdings'
  BY <1>3 DEF Holdings, HeldIsBusy, HeldApart, BusyIsHeld
<1>5. \A p : Searching(p)' = Searching(p)
  BY DEF Searching
<1>6. QueueCount' /\ PoolSemHeld' /\ TenantSemHeld' /\ OwnDatabase' /\ TenantHeap' /\ PoolHeap'
  BY <1>5 DEF QueueCount, PoolSemHeld, TenantSemHeld, OwnDatabase, TenantHeap, PoolHeap
<1> QED
  BY <1>2, <1>4, <1>6

LEMMA OutsideNext ==
  ASSUME TroeInv, (\E t \in Actor : PrepareDies(t)) \/ Exit \/ OtherBroker \/ UNCHANGED vars
  PROVE  TroeInv'
<1>1. Plain
  BY DEF TroeInv
<1>2. ASSUME NEW t \in Actor, PrepareDies(t) PROVE TroeInv'
  BY <1>1, <1>2, MemoryKept DEF PrepareDies, tenantVars, bounds, Plain
<1>3. CASE Exit
  BY <1>1, <1>3, MemoryKept DEF Exit, tenantVars, bounds, Plain
<1>4. CASE OtherBroker
  <2>1. Plain'
    BY <1>1, <1>4, TroeAssumption DEF OtherBroker, TroeAssumption, Plain
  <2> QED
    BY <1>4, <2>1, MemoryKept DEF OtherBroker, tenantVars
<1>5. CASE UNCHANGED vars
  BY <1>1, <1>5, MemoryKept DEF vars, Plain
<1> QED
  BY <1>2, <1>3, <1>4, <1>5

\* The broker has just been started.
Fresh ==
  /\ tenants = <<>> /\ tenantList = 0 /\ tenantCache = 0 /\ tenantSem = None /\ pools = <<>>
  /\ call = [t \in Actor |-> IF t = Main THEN [Idle EXCEPT !.pc = "mongoInit"] ELSE Idle]

LEMMA FreshIs == Fresh /\ Plain /\ OwnDatabase => TroeInv
<1> SUFFICES ASSUME Fresh, Plain, OwnDatabase PROVE TroeInv
  OBVIOUS
<1> DEFINE boot == [Idle EXCEPT !.pc = "mongoInit"]
<1>1. /\ boot \in CallState /\ boot.pc = "mongoInit" /\ boot.tenant = Default /\ boot.tp = 0
      /\ boot.cached = 0 /\ boot.kind = "none" /\ boot.caller = "none" /\ boot.pool = 0
      /\ boot.slot = 0 /\ boot.null = 0
  BY IdleIs DEF CallState, BootPc
<1>2. call = [t \in Actor |-> IF t = Main THEN boot ELSE Idle]
  BY DEF Fresh
<1> HIDE DEF boot
<1>3. /\ call \in [Actor -> CallState] /\ call[Main] = boot /\ \A t \in Thread : call[t] = Idle
      /\ \A t \in Actor : t = Main \/ t \in Thread
  BY <1>1, <1>2, IdleIs, ConstantFacts
<1>4. Len(tenants) = 0 /\ Len(pools) = 0
  BY DEF Fresh
<1>5. TenantHeap /\ PoolHeap
  BY <1>4 DEF Fresh, TenantHeap, PoolHeap
<1>6. \A t \in Actor : PoolPart(t) /\ \A p, s : s # 0 => ~Has(t, p, s)
  BY <1>1, <1>3, IdleIs DEF PoolPart, Has, Getting, Pooled
<1>7. \A t \in Thread : TenantPart(t)
  BY <1>3, IdleIs DEF TenantPart, Seeking, BootPc
<1>8. MainPart
  BY <1>1, <1>3 DEF MainPart, BootPc
<1>9. Threads
  BY <1>1, <1>3, <1>4, <1>6, <1>7, <1>8, IdleIs DEF Threads
<1>10. Holdings
  BY <1>4, <1>6, ConstantFacts DEF Holdings, HeldIsBusy, HeldApart, BusyIsHeld
<1>11. QueueCount /\ PoolSemHeld /\ TenantSemHeld
  BY <1>4 DEF Fresh, QueueCount, PoolSemHeld, TenantSemHeld
<1> QED
  BY <1>5, <1>9, <1>10, <1>11 DEF TroeInv

LEMMA TroeInit0 == Init => TroeInv
<1>1. Init => Fresh /\ Plain /\ OwnDatabase
  BY TroeAssumption DEF Init, Fresh, Plain, OwnDatabase, TroeAssumption
<1> QED
  BY <1>1, FreshIs

LEMMA RestartNext ==
  ASSUME TroeInv, Restart
  PROVE  TroeInv'
<1>1. (Fresh /\ Plain /\ OwnDatabase)'
  BY TroeAssumption DEF Restart, Fresh, TroeInv, Plain, OwnDatabase, TroeAssumption
<1> QED
  BY <1>1, FreshIs, PTL

LEMMA ServeNext ==
  ASSUME TroeInv, NEW t \in Actor, Serve(t)
  PROVE  TroeInv'
<1> USE DEF TroeInv
<1>0. /\ call[t] \in CallState /\ call[t].pc = "serve" /\ PoolPart(t)
      /\ call[t].tp <= Len(tenants) /\ call[t].cached <= Len(tenants)
  BY DEF Serve, At, Threads
<1>t. t \in Thread /\ TenantPart(t) /\ call[Main].pc = "up"
  <2>1. t # Main
    BY <1>0 DEF Threads, MainPart, BootPc, Getting
  <2>2. t \in Thread
    BY <2>1, ConstantFacts
  <2> QED
    BY <1>0, <2>2, Awake DEF Threads
<1>s. tenantSem # t
  BY <1>0, <1>t, ConstantFacts DEF TenantSemHeld, Getting
<1>1. UNCHANGED <<tenants, tenantList, tenantCache, tenantSem, pools, database, history, alive,
                  requests, faults, restarts>>
  BY DEF Serve, tenantVars, bounds
<1>2. Plain'
  <2>1. mongoDb' = mongoDb \/ mongoDb' = mongoDb \cup ({call[t].tenant} \ {Default})
    BY DEF Serve
  <2>2. mongoDb' \in SUBSET Tenant
    BY <1>0, <2>1, ConstantFacts DEF Plain, CallState
  <2> QED
    BY <1>1, <2>2 DEF Plain
<1>3. CASE call' = [call EXCEPT ![t] = Idle]
  <2>1. call[t].slot = 0 /\ call[t].null = 0
    BY <1>0 DEF PoolPart, Getting
  <2> QED
    BY <1>0, <1>t, <1>s, <1>1, <1>2, <1>3, <2>1, EndStep
<1>4. CASE call' = [call EXCEPT ![t].pc = "find", ![t].caller = "commands"]
  <2> DEFINE c == [call[t] EXCEPT !.pc = "find", !.caller = "commands"]
  <2>1. call' = [call EXCEPT ![t] = c]
    BY <1>4
  <2>2. /\ c \in CallState /\ c.pc = "find" /\ c.kind = call[t].kind
        /\ c.tenant = call[t].tenant /\ c.tp = call[t].tp /\ c.cached = call[t].cached
        /\ c.caller = "commands" /\ c.pool = call[t].pool /\ c.slot = call[t].slot
        /\ c.null = call[t].null
    BY <1>0 DEF CallState, Seeking, Getting
  <2> HIDE DEF c
  <2>3. Becomes(t) /\ call'[t] = c
    BY <1>1, <2>1, <2>2, CallIs
  <2>4. PoolPart(t)'
    BY <1>0, <1>1, <2>2, <2>3 DEF PoolPart, Getting, Pooled
  <2>5. \A p \in Nat, s \in Slot : Has(t, p, s)' <=> Has(t, p, s)
    BY <1>0, <2>2, <2>3, ConstantFacts DEF Has, PoolPart, Getting
  <2>6. TenantPart(t)' /\ t # Main
    BY <1>0, <1>t, <1>1, <2>2, <2>3, ConstantFacts DEF TenantPart, Seeking, BootPc
  <2>7. TenantSemHeld'
    BY <1>0, <1>s, <1>1, <2>2, <2>3, TenantSemKept DEF TenantSemHeld, Getting
  <2>8. TenantHeap' /\ Plain' /\ OwnDatabase' /\ TenantsGrow
    BY <1>1, <1>2, TenantsStay DEF TenantHeap, Plain, OwnDatabase
  <2>9. /\ call[t].pc \notin {"search", "searchAny"} /\ call'[t].pc \notin {"search", "searchAny"}
        /\ call'[t].tp <= Len(tenants') /\ call'[t].cached <= Len(tenants')
    BY <1>0, <1>1, <2>2, <2>3 DEF TenantHeap
  <2> QED
    BY <1>1, <2>1, <2>3, <2>4, <2>5, <1>t, <2>6, <2>7, <2>8, <2>9, QuietStep
<1> QED
  BY <1>3, <1>4 DEF Serve

LEMMA RequestNext ==
  ASSUME TroeInv, NEW t \in Thread, Request(t)
  PROVE  TroeInv'
<1> USE DEF TroeInv
<1>0. /\ t \in Actor /\ t # Main /\ call[t] = Idle /\ call[Main].pc = "up" /\ tenantSem # t
  BY ConstantFacts DEF Request, Up, At, Threads, TenantPart, TenantSemHeld, Getting
<1>1. UNCHANGED <<tenants, tenantList, tenantCache, tenantSem, pools, database, mongoDb, history, alive,
                  faults, restarts>>
      /\ requests < MaxRequests /\ requests' = requests + 1
  BY DEF Request, tenantVars
<1>2. \/ \E k \in {"make", "check"}, n \in Name :
           call' = [call EXCEPT ![t] = [Idle EXCEPT !.kind = k, !.tenant = n,
                                          !.pc = IF n = Default THEN "serve" ELSE "lookup"]]
      \/ call' = [call EXCEPT ![t] = [Idle EXCEPT !.kind = "version", !.caller = "version", !.pc = "find"]]
  BY DEF Request
<1>3. \E c \in CallState :
        /\ call' = [call EXCEPT ![t] = c]
        /\ c.tp = 0 /\ c.cached = 0 /\ c.pool = 0 /\ c.slot = 0 /\ c.null = 0
        /\ \/ c.pc = "serve" /\ c.tenant = Default
           \/ c.pc = "lookup" /\ c.tenant \in Tenant
           \/ c.pc = "find" /\ c.caller = "version" /\ c.tenant = Default
  <2>1. ASSUME NEW k \in {"make", "check"}, NEW n \in Name,
               call' = [call EXCEPT ![t] = [Idle EXCEPT !.kind = k, !.tenant = n,
                                              !.pc = IF n = Default THEN "serve" ELSE "lookup"]]
        PROVE  <1>3
    <3> DEFINE pc == IF n = Default THEN "serve" ELSE "lookup"
               c == [Idle EXCEPT !.kind = k, !.tenant = n, !.pc = pc]
    <3>1. call' = [call EXCEPT ![t] = c] /\ pc \in {"serve", "lookup"}
      BY <2>1
    <3>2. (pc = "serve" => n = Default) /\ (pc = "lookup" => n \in Tenant)
      BY ConstantFacts
    <3> HIDE DEF pc
    <3>3. /\ c \in CallState /\ c.tp = 0 /\ c.cached = 0 /\ c.pool = 0 /\ c.slot = 0 /\ c.null = 0
          /\ c.pc = pc /\ c.tenant = n
      BY <3>1, IdleIs DEF CallState, Seeking
    <3> HIDE DEF c
    <3> QED
      BY <3>1, <3>2, <3>3
  <2>2. CASE call' = [call EXCEPT ![t] = [Idle EXCEPT !.kind = "version", !.caller = "version", !.pc = "find"]]
    <3> DEFINE c == [Idle EXCEPT !.kind = "version", !.caller = "version", !.pc = "find"]
    <3>1. call' = [call EXCEPT ![t] = c]
      BY <2>2
    <3>2. /\ c \in CallState /\ c.tp = 0 /\ c.cached = 0 /\ c.pool = 0 /\ c.slot = 0 /\ c.null = 0
          /\ c.pc = "find" /\ c.caller = "version" /\ c.tenant = Default
      BY IdleIs DEF CallState, Getting
    <3> HIDE DEF c
    <3> QED
      BY <3>1, <3>2
  <2> QED
    BY <1>2, <2>1, <2>2
<1>4. PICK c \in CallState :
        /\ call' = [call EXCEPT ![t] = c]
        /\ c.tp = 0 /\ c.cached = 0 /\ c.pool = 0 /\ c.slot = 0 /\ c.null = 0
        /\ \/ c.pc = "serve" /\ c.tenant = Default
           \/ c.pc = "lookup" /\ c.tenant \in Tenant
           \/ c.pc = "find" /\ c.caller = "version" /\ c.tenant = Default
  BY <1>3
<1>5. Becomes(t) /\ call'[t] = c
  BY <1>0, <1>4, CallIs
<1>6. PoolPart(t)'
  BY <1>4, <1>5 DEF PoolPart, Getting, Pooled
<1>7. TenantPart(t)'
  BY <1>4, <1>5 DEF TenantPart, Seeking, BootPc
<1>8. \A p \in Nat, s \in Slot : Has(t, p, s)' <=> Has(t, p, s)
  BY <1>0, <1>4, <1>5, IdleIs, ConstantFacts DEF Has
<1>9. TenantSemHeld'
  BY <1>0, <1>1, <1>5, TenantSemKept
<1>10. TenantHeap' /\ OwnDatabase' /\ TenantsGrow
  BY <1>1, TenantsStay DEF TenantHeap, OwnDatabase
<1>11. Plain'
  BY <1>1, TroeAssumption DEF Plain, TroeAssumption
<1>12. /\ call[t].pc \notin {"search", "searchAny"} /\ call'[t].pc \notin {"search", "searchAny"}
       /\ call'[t].tp <= Len(tenants') /\ call'[t].cached <= Len(tenants')
  BY <1>0, <1>1, <1>4, <1>5, IdleIs DEF TenantHeap
<1> QED
  BY <1>0, <1>1, <1>5, <1>6, <1>7, <1>8, <1>9, <1>10, <1>11, <1>12, QuietStep

\* The starting thread creates a tenant, or goes on to the next phase.
LEMMA BootNext ==
  ASSUME TroeInv, MongoInit \/ DbInit
  PROVE  TroeInv'
<1> USE DEF TroeInv
<1> DEFINE t == Main
<1>0. /\ t \in Actor /\ t \notin Thread /\ call[t] \in CallState /\ call[t].pc \in {"mongoInit", "dbInit"}
      /\ PoolPart(t) /\ call[t].tp <= Len(tenants) /\ call[t].cached <= Len(tenants)
      /\ call[t].pc = "dbInit" => pools # <<>>
      /\ call[t].caller \in {"none", "prepare", "create"}
      /\ call[t].kind \in {"troeInit", "dbInit"} => pools # <<>>
  BY ConstantFacts DEF MongoInit, DbInit, At, Threads, MainPart
<1>1. UNCHANGED <<tenants, tenantList, tenantCache, tenantSem, pools, database, mongoDb, history, alive,
                  requests, faults, restarts>>
  BY DEF MongoInit, DbInit, tenantVars, bounds
<1>2. \E c \in CallState :
        /\ call' = [call EXCEPT ![t] = c]
        /\ c.tp <= Len(tenants) /\ c.cached <= Len(tenants) /\ c.pool = 0 /\ c.slot = 0 /\ c.null = 0
        /\ c.caller \in {"none", "prepare", "create"}
        /\ c.kind \in {"troeInit", "dbInit"} => pools # <<>>
        /\ \/ c.pc = "push" /\ c.tenant \in Tenant /\ c.kind \in {"mongoInit", "dbInit"}
           \/ c.pc = "troeInit"
           \/ c.pc = "up" /\ pools # <<>>
  <2>0. call[t].pool = 0 /\ call[t].slot = 0 /\ call[t].null = 0
    BY <1>0 DEF PoolPart, Getting
  <2>1. ASSUME NEW n \in Tenant, NEW k \in {"mongoInit", "dbInit"}, k = call[t].pc,
               call' = [call EXCEPT ![t].kind = k, ![t].tenant = n, ![t].pc = "push"]
        PROVE  <1>2
    <3> DEFINE c == [call[t] EXCEPT !.kind = k, !.tenant = n, !.pc = "push"]
    <3>1. call' = [call EXCEPT ![t] = c]
      BY <2>1
    <3>2. /\ c \in CallState /\ c.tp = call[t].tp /\ c.cached = call[t].cached /\ c.pool = call[t].pool
          /\ c.slot = call[t].slot /\ c.null = call[t].null /\ c.caller = call[t].caller
          /\ c.kind = k /\ c.tenant = n /\ c.pc = "push"
      BY <1>0, ConstantFacts DEF CallState, Seeking
    <3> HIDE DEF c
    <3> QED
      BY <1>0, <2>0, <2>1, <3>1, <3>2
  <2>2. CASE call' = [call EXCEPT ![t].pc = "troeInit"]
    <3> DEFINE c == [call[t] EXCEPT !.pc = "troeInit"]
    <3>1. call' = [call EXCEPT ![t] = c]
      BY <2>2
    <3>2. /\ c \in CallState /\ c.tp = call[t].tp /\ c.cached = call[t].cached /\ c.pool = call[t].pool
          /\ c.slot = call[t].slot /\ c.null = call[t].null /\ c.caller = call[t].caller
          /\ c.kind = call[t].kind /\ c.pc = "troeInit"
      BY <1>0 DEF CallState, BootPc
    <3> HIDE DEF c
    <3> QED
      BY <1>0, <2>0, <3>1, <3>2
  <2>3. CASE call' = [call EXCEPT ![t] = [Idle EXCEPT !.pc = "up"]] /\ pools # <<>>
    <3> DEFINE c == [Idle EXCEPT !.pc = "up"]
    <3>1. call' = [call EXCEPT ![t] = c]
      BY <2>3
    <3>2. /\ c \in CallState /\ c.tp = 0 /\ c.cached = 0 /\ c.pool = 0 /\ c.slot = 0 /\ c.null = 0
          /\ c.caller = "none" /\ c.kind = "none" /\ c.pc = "up"
      BY IdleIs DEF CallState, BootPc
    <3>3. 0 <= Len(tenants)
      BY DEF TenantHeap
    <3> HIDE DEF c
    <3> QED
      BY <2>3, <3>1, <3>2, <3>3
  <2>4. Unlisted \subseteq Tenant
    BY DEF Unlisted, Plain
  <2>5. CASE MongoInit
    <3>1. call[t].pc = "mongoInit"
      BY <2>5 DEF MongoInit, At
    <3>2. CASE call' = [call EXCEPT ![t].pc = "troeInit"]
      BY <2>2, <3>2
    <3>3. CASE \E n \in Unlisted : call' = [call EXCEPT ![t].kind = "mongoInit", ![t].tenant = n, ![t].pc = "push"]
      BY <2>1, <2>4, <3>1, <3>3
    <3> QED
      BY <2>5, <3>2, <3>3 DEF MongoInit
  <2>6. CASE DbInit
    <3>1. call[t].pc = "dbInit" /\ pools # <<>>
      BY <1>0, <2>6 DEF DbInit, At
    <3>2. CASE call' = [call EXCEPT ![t] = [Idle EXCEPT !.pc = "up"]]
      BY <2>3, <3>1, <3>2
    <3>3. CASE \E n \in Unlisted : call' = [call EXCEPT ![t].kind = "dbInit", ![t].tenant = n, ![t].pc = "push"]
      BY <2>1, <2>4, <3>1, <3>3
    <3> QED
      BY <2>6, <3>2, <3>3 DEF DbInit
  <2> QED
    BY <2>5, <2>6
<1>3. PICK c \in CallState :
        /\ call' = [call EXCEPT ![t] = c]
        /\ c.tp <= Len(tenants) /\ c.cached <= Len(tenants) /\ c.pool = 0 /\ c.slot = 0 /\ c.null = 0
        /\ c.caller \in {"none", "prepare", "create"}
        /\ c.kind \in {"troeInit", "dbInit"} => pools # <<>>
        /\ \/ c.pc = "push" /\ c.tenant \in Tenant /\ c.kind \in {"mongoInit", "dbInit"}
           \/ c.pc = "troeInit"
           \/ c.pc = "up" /\ pools # <<>>
  BY <1>2
<1>4. Becomes(t) /\ call'[t] = c
  BY <1>0, <1>3, CallIs
<1>5. PoolPart(t)'
  BY <1>3, <1>4 DEF PoolPart, Getting, Pooled
<1>6. MainPart'
  <2>1. \A u \in Thread : call'[u] = Idle
    BY <1>0, <1>4, ConstantFacts DEF Becomes, Threads, MainPart
  <2> QED
    BY <1>1, <1>3, <1>4, <2>1 DEF MainPart, BootPc
<1>7. \A p \in Nat, s \in Slot : Has(t, p, s)' <=> Has(t, p, s)
  BY <1>0, <1>3, <1>4, ConstantFacts DEF Has, PoolPart, Getting
<1>8. TenantSemHeld'
  BY <1>0, <1>1, <1>4, TenantSemKept DEF TenantSemHeld
<1>9. TenantHeap' /\ Plain' /\ OwnDatabase' /\ TenantsGrow
  BY <1>1, TenantsStay DEF TenantHeap, Plain, OwnDatabase
<1>10. /\ call[t].pc \notin {"search", "searchAny"} /\ call'[t].pc \notin {"search", "searchAny"}
       /\ call'[t].tp <= Len(tenants') /\ call'[t].cached <= Len(tenants')
  BY <1>0, <1>1, <1>3, <1>4
<1> QED
  BY <1>0, <1>1, <1>4, <1>5, <1>6, <1>7, <1>8, <1>9, <1>10, QuietStep

LEMMA EmptyPoolIs ==
  ASSUME NEW db \in Name \cup {None}, NEW next \in Nat
  PROVE  /\ EmptyPool(db, next) \in PoolRecord
         /\ EmptyPool(db, next).db = db /\ EmptyPool(db, next).next = next
         /\ EmptyPool(db, next).queueSem = PoolSize /\ EmptyPool(db, next).poolSem = None
         /\ \A s \in Slot : ~EmptyPool(db, next).slot[s].busy
<1> DEFINE slots == [s \in Slot |-> [status |-> "unused", busy |-> FALSE]]
<1>1. slots \in [Slot -> SlotState] /\ \A s \in Slot : ~slots[s].busy
  BY DEF SlotState, Status
<1>2. EmptyPool(db, next) = [db |-> db, next |-> next, queueSem |-> PoolSize, poolSem |-> None, slot |-> slots]
  BY DEF EmptyPool
<1> HIDE DEF slots
<1> QED
  BY <1>1, <1>2, ConstantFacts DEF PoolRecord

LEMMA TroeInitNext ==
  ASSUME TroeInv, TroeInit
  PROVE  TroeInv'
<1> USE DEF TroeInv
<1> DEFINE c == [Idle EXCEPT !.kind = "troeInit", !.pc = "find", !.caller = "prepare"]
           pool == EmptyPool(None, 0)
<1>1. /\ UNCHANGED <<tenants, tenantList, tenantCache, tenantSem, database, mongoDb, history, alive,
                     requests, faults, restarts>>
      /\ pools' = <<pool>> /\ call' = [call EXCEPT ![Main] = c] /\ call[Main].pc = "troeInit"
  BY DEF TroeInit, At, tenantVars, bounds
<1>2. /\ c \in CallState /\ c.pc = "find" /\ c.kind = "troeInit" /\ c.caller = "prepare"
      /\ c.tenant = Default /\ c.tp = 0 /\ c.cached = 0 /\ c.pool = 0 /\ c.slot = 0 /\ c.null = 0
  BY IdleIs DEF CallState, Getting
<1>3. /\ pool \in PoolRecord /\ pool.db = None /\ pool.next = 0 /\ pool.queueSem = PoolSize
      /\ pool.poolSem = None /\ \A s \in Slot : ~pool.slot[s].busy
  BY EmptyPoolIs
<1> HIDE DEF c, pool
<1>4. /\ Main \in Actor /\ Becomes(Main) /\ call'[Main] = c /\ \A t \in Thread : call'[t] = Idle /\ call[t] = Idle
  BY <1>1, <1>2, CallIs, ConstantFacts DEF Becomes, Threads, MainPart
<1>5. pools' \in Seq(PoolRecord) /\ Len(pools') = 1 /\ pools'[1] = pool /\ pools' # <<>>
  BY <1>1, <1>3
<1>6. PoolHeap'
  BY <1>3, <1>5 DEF PoolHeap
<1>7. \A t \in Actor : PoolPart(t)' /\ \A p, s : s # 0 => ~Has(t, p, s)'
  BY <1>2, <1>4, IdleIs, ConstantFacts DEF PoolPart, Has, Getting, Pooled
<1>8. \A t \in Thread : TenantPart(t)'
  BY <1>4, IdleIs DEF TenantPart, Seeking, BootPc
<1>9. MainPart'
  BY <1>2, <1>4, <1>5 DEF MainPart, BootPc, Getting
<1>10. Threads'
  <2>1. Len(tenants') \in Nat
    BY <1>1 DEF TenantHeap
  <2>2. \A t \in Actor : call'[t].tp <= Len(tenants') /\ call'[t].cached <= Len(tenants')
    BY <1>2, <1>4, <2>1, IdleIs, ConstantFacts
  <2> QED
    BY <1>4, <1>7, <1>8, <1>9, <2>2 DEF Threads, Becomes
<1>11. Holdings'
  BY <1>3, <1>5, <1>7, ConstantFacts DEF Holdings, HeldIsBusy, HeldApart, BusyIsHeld
<1>12. QueueCount' /\ PoolSemHeld'
  <2>1. Searching(1)' = {}
    BY <1>2, <1>4, IdleIs, ConstantFacts DEF Searching
  <2>2. Cardinality(Searching(1)') = 0
    BY <2>1, FS_EmptySet
  <2> QED
    BY <1>3, <1>5, <2>2, ConstantFacts DEF QueueCount, PoolSemHeld
<1>13. tenantSem = None
  BY <1>4, IdleIs DEF TenantSemHeld, Getting
<1>14. TenantSemHeld' /\ TenantHeap' /\ Plain' /\ OwnDatabase'
  BY <1>1, <1>13 DEF TenantSemHeld, TenantHeap, Plain, OwnDatabase
<1> QED
  BY <1>6, <1>10, <1>11, <1>12, <1>14

LEMMA PostgresRestartNext ==
  ASSUME TroeInv, PostgresRestart
  PROVE  TroeInv'
<1> USE DEF TroeInv
<1> DEFINE Lost(c) == IF c.status = "ok" THEN [c EXCEPT !.status = "stale"] ELSE c
           after(p) == [pools[p] EXCEPT !.slot = [s \in Slot |-> Lost(pools[p].slot[s])]]
<1>1. /\ UNCHANGED <<tenants, tenantList, tenantCache, tenantSem, database, mongoDb, call, history, alive,
                     requests, restarts>>
      /\ faults < MaxFaults /\ faults' = faults + 1
      /\ pools' = [p \in DOMAIN pools |-> after(p)]
  BY DEF PostgresRestart, tenantVars
<1>2. pools \in Seq(PoolRecord) /\ Len(pools) \in Nat /\ DOMAIN pools = 1 .. Len(pools)
  BY DEF PoolHeap
<1>3. ASSUME NEW c \in SlotState
      PROVE  Lost(c) \in SlotState /\ Lost(c).busy = c.busy /\ (c.status = "bad" => Lost(c).status = "bad")
  BY <1>3 DEF SlotState, Status
<1> HIDE DEF Lost
<1>4. ASSUME NEW p \in 1 .. Len(pools)
      PROVE  /\ after(p) \in PoolRecord /\ after(p).db = pools[p].db /\ after(p).next = pools[p].next
             /\ after(p).queueSem = pools[p].queueSem /\ after(p).poolSem = pools[p].poolSem
             /\ \A s \in Slot : /\ after(p).slot[s].busy = pools[p].slot[s].busy
                                /\ pools[p].slot[s].status = "bad" => after(p).slot[s].status = "bad"
  <2>0. pools[p] \in PoolRecord
    BY <1>2
  <2>1. pools[p] \in PoolRecord /\ \A s \in Slot : pools[p].slot[s] \in SlotState
    BY <2>0 DEF PoolRecord
  <2> DEFINE slots == [s \in Slot |-> Lost(pools[p].slot[s])]
  <2>2. /\ slots \in [Slot -> SlotState]
        /\ \A s \in Slot : /\ slots[s].busy = pools[p].slot[s].busy
                           /\ pools[p].slot[s].status = "bad" => slots[s].status = "bad"
    BY <1>3, <2>1
  <2> HIDE DEF slots
  <2>3. after(p) = [pools[p] EXCEPT !.slot = slots]
    BY DEF slots
  <2> QED
    BY <2>1, <2>2, <2>3 DEF PoolRecord
<1> HIDE DEF after
<1>5. SameShape /\ SameSems /\ \A p \in 1 .. Len(pools) : pools'[p] = after(p)
  BY <1>1, <1>2, <1>4 DEF SameShape, SameSems
<1>6. PoolHeap' /\ PoolsGrow /\ Len(pools') = Len(pools)
  BY <1>5, ShapeKept DEF SameShape
<1>7. /\ Main \in Actor /\ Thread \subseteq Actor
      /\ \A u \in Actor : call'[u] = call[u] /\ call[u] \in CallState
  BY <1>1, ConstantFacts DEF Threads
<1>8. TenantsGrow
  BY <1>1, TenantsStay
<1>9. ASSUME NEW u \in Actor
      PROVE  /\ call'[u].tp <= Len(tenants') /\ call'[u].cached <= Len(tenants')
             /\ (u \in Thread => TenantPart(u)') /\ PoolPart(u)'
             /\ \A p, s : Has(u, p, s)' <=> Has(u, p, s)
  BY <1>6, <1>7, <1>8, <1>9, PartKept DEF Threads
<1>10. pools' # <<>> <=> pools # <<>>
  BY <1>2, <1>6 DEF PoolHeap
<1>11. Threads'
  BY <1>1, <1>7, <1>9, <1>10 DEF Threads, MainPart
<1>12. Holdings'
  <2>1. HeldIsBusy'
    BY <1>4, <1>5, <1>6, <1>9 DEF Holdings, HeldIsBusy
  <2>2. HeldApart'
    BY <1>9 DEF Holdings, HeldApart
  <2>3. BusyIsHeld'
    <3> SUFFICES ASSUME NEW p \in 1 .. Len(pools), NEW s \in Slot, pools'[p].slot[s].busy
                 PROVE  \/ \E t \in Actor : Has(t, p, s)'
                        \/ p = 1 /\ pools'[1].slot[s].status = "bad"
      BY <1>6 DEF BusyIsHeld
    <3>1. pools[p].slot[s].busy
      BY <1>4, <1>5
    <3>2. CASE \E t \in Actor : Has(t, p, s)
      BY <1>9, <3>2
    <3>3. CASE p = 1 /\ pools[1].slot[s].status = "bad"
      BY <1>4, <1>5, <3>3
    <3> QED
      BY <3>1, <3>2, <3>3 DEF Holdings, BusyIsHeld
  <2> QED
    BY <2>1, <2>2, <2>3 DEF Holdings
<1>13. QueueCount' /\ PoolSemHeld'
  <2>1. \A p : Searching(p)' = Searching(p)
    BY <1>1 DEF Searching
  <2> QED
    BY <1>1, <1>5, <1>6, <2>1 DEF QueueCount, PoolSemHeld, SameSems
<1>14. TenantSemHeld' /\ TenantHeap' /\ OwnDatabase'
  BY <1>1 DEF TenantSemHeld, TenantHeap, OwnDatabase
<1>15. Plain'
  BY <1>1, TroeAssumption DEF Plain, TroeAssumption
<1> QED
  BY <1>6, <1>11, <1>12, <1>13, <1>14, <1>15

-----------------------------------------------------------------------------
(***************************************************************************)
(* Steps with a connection.                                                *)
(***************************************************************************)
LEMMA OthersHave ==
  ASSUME NEW t \in Actor, Becomes(t)
  PROVE  \A u \in Actor \ {t} : \A p, s : Has(u, p, s)' <=> Has(u, p, s)
BY DEF Becomes, Has

LEMMA PoolStep ==
  ASSUME TroeInv, NEW t \in Actor, Becomes(t), UNCHANGED <<tenants, tenantList, tenantCache>>,
         SameShape, Plain', OwnDatabase', TenantSemHeld', Holdings', QueueCount', PoolSemHeld',
         call'[t].tp <= Len(tenants), call'[t].cached <= Len(tenants), PoolPart(t)',
         t \in Thread => TenantPart(t)' /\ call[Main].pc = "up",
         t = Main => MainPart'
  PROVE  TroeInv'
<1> USE DEF TroeInv
<1>1. PoolHeap' /\ PoolsGrow
  BY ShapeKept
<1>2. TenantHeap' /\ TenantsGrow
  BY TenantsStay DEF TenantHeap
<1>3. Threads'
  BY <1>1, <1>2, ThreadsStep
<1> QED
  BY <1>1, <1>2, <1>3

\* A thread inside pgConnectionGet, or between the commands it sends on the connection.
LEMMA GetStep ==
  ASSUME TroeInv, NEW t \in Actor, Becomes(t), UNCHANGED <<tenants, tenantList, tenantCache, tenantSem>>,
         SameShape, Plain', OwnDatabase', Holdings', QueueCount', PoolSemHeld', PoolPart(t)',
         call[t].pc \in Getting \cup {"tables"}, call'[t].pc \in Getting \cup {"tables", "commit"},
         call'[t].kind = call[t].kind, call'[t].tenant = call[t].tenant, call'[t].tp = call[t].tp,
         call'[t].cached = call[t].cached,
         call'[t].caller = call[t].caller \/ (call[t].caller = "prepare" /\ call'[t].caller = "create"),
         call'[t].pc = "commit" => call[t].pc \in Getting /\ call[t].caller = "commands"
  PROVE  TroeInv'
<1> USE DEF TroeInv
<1>0. call[t].tp <= Len(tenants) /\ call[t].cached <= Len(tenants) /\ Thread \subseteq Actor
  BY ConstantFacts DEF Threads
<1>1. t \in Thread => TenantPart(t)' /\ call[Main].pc = "up"
  <2>1. t \in Thread => TenantPart(t)'
    BY DEF TenantPart, Threads, Seeking, BootPc, Getting
  <2> QED
    BY <2>1, Awake DEF Getting
<1>2. t = Main => MainPart'
  <2> SUFFICES ASSUME t = Main PROVE MainPart'
    OBVIOUS
  <2>1. call[Main].pc # "up" /\ call[Main].pc \notin BootPc
    BY DEF Getting, BootPc
  <2>2. \A u \in Thread : call'[u] = Idle
    BY <2>1, ConstantFacts DEF Threads, MainPart, Becomes
  <2>3. pools # <<>> => pools' # <<>>
    <3>1. Len(pools') = Len(pools) /\ Len(pools) \in Nat
      BY DEF SameShape, PoolHeap
    <3> QED
      BY <3>1 DEF PoolHeap
  <2>4. call[Main].caller \in {"none", "prepare", "create"}
    BY DEF Threads, MainPart
  <2>5. call'[Main].pc \in Getting \cup {"tables"}
    BY <2>4
  <2>6. call'[Main].pc \notin {"up", "dbInit", "push"}
    BY <2>5 DEF Getting
  <2> QED
    BY <2>1, <2>2, <2>3, <2>4, <2>5, <2>6 DEF Threads, MainPart
<1>3. TenantSemHeld'
  <2>1. tenantSem = t => call[t].kind = "make" /\ call'[t].pc # "commit"
                         /\ (call[t].pc \in Getting => call'[t].caller \in {"prepare", "create"})
    BY ConstantFacts DEF TenantSemHeld
  <2>2. call[t].pc = "tables" => call[t].caller = "create"
    BY DEF Threads, PoolPart
  <2> QED
    BY <2>1, <2>2, TenantSemKept
<1> QED
  BY <1>0, <1>1, <1>2, <1>3, PoolStep

\* pgDatabasePrepare is over.
LEMMA PreparedStep ==
  ASSUME TroeInv, NEW t \in Actor, NEW result \in BOOLEAN, Prepared(t, result),
         UNCHANGED <<tenants, tenantList, tenantCache, tenantSem, mongoDb, history, requests, faults, restarts>>,
         SameShape, SameSems, database' \in [Name -> {"absent", "created", "ready"}],
         call[t].pc \in {"got", "tables"}, call[t].caller \in {"prepare", "create"},
         \A p \in 1 .. Len(pools), s \in Slot :
           IF Has(t, p, s) THEN ~pools'[p].slot[s].busy \/ (p = 1 /\ pools'[1].slot[s].status = "bad")
           ELSE pools'[p].slot[s] = pools[p].slot[s]
  PROVE  TroeInv'
<1> USE DEF TroeInv
<1> DEFINE pc == IF t \in Thread THEN "prepared"
                 ELSE IF call[t].kind # "troeInit" THEN call[t].kind
                 ELSE IF result THEN "dbInit" ELSE "exit"
           c == [call[t] EXCEPT !.pc = pc, !.pool = 0, !.slot = 0, !.null = 0]
<1>0. call[t] \in CallState /\ call[t].tp <= Len(tenants) /\ call[t].cached <= Len(tenants) /\ Thread \subseteq Actor
  BY ConstantFacts DEF Threads
<1>1. call' = [call EXCEPT ![t] = c] /\ alive' \in BOOLEAN
  <2>1. alive' \in BOOLEAN
    <3>1. /\ {TRUE} \subseteq BOOLEAN /\ {FALSE} \subseteq BOOLEAN
          /\ \/ alive' \in {TRUE} \/ alive' \in BOOLEAN \/ alive' \in {FALSE}
      BY DEF Prepared
    <3> QED
      BY <3>1
  <2>2. call' = [call EXCEPT ![t].pc = pc, ![t].pool = 0, ![t].slot = 0, ![t].null = 0]
    BY DEF Prepared
  <2> HIDE DEF pc
  <2> QED
    BY <2>1, <2>2
<1>2. /\ t \in Thread => pc = "prepared"
      /\ t \notin Thread => /\ t = Main /\ pc \in {"mongoInit", "dbInit", "exit"}
                            /\ pc = "dbInit" => call[Main].kind \in {"troeInit", "dbInit"}
  <2>1. t \notin Thread => t = Main
    BY ConstantFacts
  <2>2. t = Main => call[t].kind \in {"mongoInit", "troeInit", "dbInit"}
    BY DEF Threads, MainPart, BootPc
  <2>3. CASE t \in Thread
    BY <2>3
  <2>4. CASE t \notin Thread /\ call[t].kind # "troeInit"
    BY <2>1, <2>2, <2>4
  <2>5. CASE t \notin Thread /\ call[t].kind = "troeInit"
    BY <2>1, <2>5
  <2> QED
    BY <2>3, <2>4, <2>5
<1> HIDE DEF pc
<1>3. /\ c \in CallState /\ c.pc = pc /\ c.kind = call[t].kind /\ c.tenant = call[t].tenant
      /\ c.tp = call[t].tp /\ c.cached = call[t].cached /\ c.caller = call[t].caller
      /\ c.pool = 0 /\ c.slot = 0 /\ c.null = 0
  <2>1. 0 \in 0 .. PoolSize
    BY ConstantFacts
  <2>2. pc \in BootPc \cup {"prepared"}
    BY <1>2 DEF BootPc
  <2> QED
    BY <1>0, <2>1, <2>2 DEF CallState
<1> HIDE DEF c
<1>4. Becomes(t) /\ call'[t] = c
  BY <1>1, <1>3, CallIs
<1>5. PoolPart(t)'
  BY <1>2, <1>3, <1>4 DEF PoolPart, Getting, Pooled
<1>6. t \in Thread => TenantPart(t)' /\ call[Main].pc = "up"
  <2>1. t \in Thread => TenantPart(t)'
    BY <1>2, <1>3, <1>4 DEF TenantPart, Threads, Seeking, BootPc
  <2> QED
    BY <2>1, Awake
<1>7. t = Main => MainPart'
  <2> SUFFICES ASSUME t = Main PROVE MainPart'
    OBVIOUS
  <2>1. \A u \in Thread : call'[u] = Idle
    BY <1>4, ConstantFacts DEF Threads, MainPart, Becomes
  <2>2. pools # <<>> => pools' # <<>>
    <3>1. Len(pools') = Len(pools) /\ Len(pools) \in Nat
      BY DEF SameShape, PoolHeap
    <3> QED
      BY <3>1 DEF PoolHeap
  <2>3. t \notin Thread
    BY ConstantFacts
  <2> QED
    BY <1>2, <1>3, <1>4, <2>1, <2>2, <2>3 DEF Threads, MainPart, BootPc
<1>8. Plain' /\ OwnDatabase'
  BY <1>1 DEF Plain, OwnDatabase
<1>9. TenantSemHeld'
  BY <1>2, <1>3, <1>4, TenantSemKept, ConstantFacts DEF TenantSemHeld, Getting
<1>10. PoolHeap' /\ PoolsGrow /\ Len(pools') = Len(pools) /\ Len(pools) \in Nat
  BY ShapeKept DEF SameShape, PoolHeap
<1>11. Holdings'
  <2>1. \A p, s : s # 0 => ~Has(t, p, s)'
    BY <1>3, <1>4 DEF Has
  <2> QED
    BY <1>4, <1>10, <2>1, OthersHave, HoldingsStep, ConstantFacts
<1>12. QueueCount' /\ PoolSemHeld'
  <2>1. \A p : t \notin Searching(p) /\ t \notin Searching(p)'
    BY <1>2, <1>3, <1>4 DEF Searching
  <2> QED
    BY <1>4, <2>1, SemsKept
<1> QED
  BY <1>0, <1>3, <1>4, <1>5, <1>6, <1>7, <1>8, <1>9, <1>11, <1>12, PoolStep

\* A request is over, and its connection is free.
LEMMA FinishStep ==
  ASSUME TroeInv, NEW t \in Actor, call' = [call EXCEPT ![t] = Idle],
         UNCHANGED <<tenants, tenantList, tenantCache, tenantSem>>,
         SameShape, SameSems, Plain', OwnDatabase',
         \/ call[t].pc = "got" /\ call[t].caller \in {"version", "commands"}
         \/ call[t].pc = "commit",
         \A p \in 1 .. Len(pools), s \in Slot :
           IF Has(t, p, s) THEN ~pools'[p].slot[s].busy ELSE pools'[p].slot[s] = pools[p].slot[s]
  PROVE  TroeInv'
<1> USE DEF TroeInv
<1>0. t \in Thread /\ t # Main /\ tenantSem # t
  <2>1. t # Main
    BY DEF Threads, MainPart, BootPc, Getting
  <2>2. t \in Thread
    BY <2>1, ConstantFacts
  <2> QED
    BY <2>1, <2>2, ConstantFacts DEF TenantSemHeld, Getting
<1>1. Becomes(t) /\ call'[t] = Idle
  BY IdleIs, CallIs
<1>2. PoolPart(t)' /\ TenantPart(t)' /\ call[Main].pc = "up"
  BY <1>0, <1>1, IdleIs, Awake DEF PoolPart, TenantPart, Getting, Pooled, Seeking, BootPc
<1>3. TenantSemHeld'
  BY <1>0, <1>1, TenantSemKept
<1>4. PoolHeap' /\ PoolsGrow /\ Len(pools') = Len(pools) /\ Len(pools) \in Nat
  BY ShapeKept DEF SameShape, PoolHeap
<1>5. Holdings'
  <2>1. \A p, s : s # 0 => ~Has(t, p, s)'
    BY <1>1, IdleIs DEF Has
  <2> QED
    BY <1>1, <1>4, <2>1, OthersHave, HoldingsStep, ConstantFacts
<1>6. QueueCount' /\ PoolSemHeld'
  <2>1. \A p : t \notin Searching(p) /\ t \notin Searching(p)'
    BY <1>1, IdleIs DEF Searching
  <2> QED
    BY <1>1, <2>1, SemsKept
<1>7. call'[t].tp <= Len(tenants) /\ call'[t].cached <= Len(tenants)
  BY <1>1, IdleIs DEF TenantHeap
<1> QED
  BY <1>0, <1>1, <1>2, <1>3, <1>5, <1>6, <1>7, PoolStep

LEMMA PoolsThere ==
  ASSUME TroeInv, NEW t \in Actor, call[t].pc \in Getting, DbAsked(t) # None
  PROVE  pools # <<>>
<1> USE DEF TroeInv
<1>0. call[t] \in CallState /\ PoolPart(t) /\ call[t].pc # "idle"
  BY DEF Threads, Getting
<1>1. CASE t \in Thread
  BY <1>0, <1>1, Awake
<1>2. CASE t = Main /\ call[t].caller = "create"
  <2>1. call[t].null \in Slot /\ Has(t, 1, call[t].null)
    BY <1>0, <1>2, ConstantFacts DEF PoolPart, CallState, Has
  <2> QED
    BY <2>1 DEF Holdings, HeldIsBusy
<1>3. CASE t = Main /\ call[t].caller # "create"
  BY <1>0, <1>3 DEF DbAsked, Threads, MainPart, PoolPart
<1> QED
  BY <1>1, <1>2, <1>3, ConstantFacts

LEMMA CreatePoolNext ==
  ASSUME TroeInv, NEW t \in Actor, CreatePool(t)
  PROVE  TroeInv'
<1> USE DEF TroeInv
<1> DEFINE N == Len(pools)
           asked == DbAsked(t)
           new == EmptyPool(asked, pools[1].next)
           c == [call[t] EXCEPT !.pool = N + 1, !.pc = "link"]
<1>0. /\ call[t] \in CallState /\ call[t].pc = "insert" /\ call[t].pc \in Getting /\ PoolPart(t)
      /\ call[t].tp <= Len(tenants) /\ call[t].cached <= Len(tenants)
  BY DEF CreatePool, At, Threads, Getting
<1>1. /\ UNCHANGED <<tenants, tenantList, tenantCache, tenantSem, database, mongoDb, history,
                     alive, requests, faults, restarts>>
      /\ call' = [call EXCEPT ![t] = c] /\ pools' = Append(pools, new)
  BY DEF CreatePool, tenantVars, bounds
<1>2. asked # None /\ asked \in Name
  <2>1. asked # None
    BY <1>0 DEF PoolPart
  <2>2. call[t].tp # 0 => tenants[call[t].tp] \in TenantRecord
    BY <1>0 DEF TenantHeap, CallState
  <2>3. call[t].tp # 0 => tenants[call[t].tp].tenant \in Name
    BY <2>2, ConstantFacts DEF TenantRecord
  <2> QED
    BY <2>1, <2>3, ConstantFacts DEF DbAsked, TroeDb
<1>3. pools # <<>>
  BY <1>0, <1>2, PoolsThere
<1>4. /\ N \in Nat \ {0} /\ pools \in Seq(PoolRecord) /\ pools[1].next \in {0} \cup 2 .. N
      /\ \A p \in 1 .. N : p \in Nat /\ p # N + 1 /\ pools[p] \in PoolRecord
  BY <1>3 DEF PoolHeap
<1>5. /\ new \in PoolRecord /\ new.db = asked /\ new.next = pools[1].next
      /\ new.queueSem = PoolSize /\ new.poolSem = None /\ \A s \in Slot : ~new.slot[s].busy
  BY <1>2, <1>4, EmptyPoolIs
<1> HIDE DEF new
<1>6. /\ pools' \in Seq(PoolRecord) /\ Len(pools') = N + 1 /\ pools'[N + 1] = new
      /\ \A p \in 1 .. N : pools'[p] = pools[p]
  BY <1>1, <1>4, <1>5
<1>7. PoolHeap' /\ PoolsGrow
  <2>0. \A p \in 1 .. N + 1 : p \in 1 .. N \/ p = N + 1
    BY <1>4
  <2>1. \A p \in 2 .. N + 1 : pools'[p].next < p
    BY <2>0, <1>4, <1>5, <1>6 DEF PoolHeap
  <2>2. ASSUME NEW p \in 1 .. N + 1
        PROVE  pools'[p].next \in {0} \cup 2 .. N + 1 /\ (pools'[p].db = None <=> p = 1)
    <3>1. CASE p \in 1 .. N
      BY <3>1, <1>4, <1>6 DEF PoolHeap
    <3>2. CASE p = N + 1
      BY <3>2, <1>2, <1>4, <1>5, <1>6
    <3> QED
      BY <2>0, <3>1, <3>2
  <2> QED
    BY <2>1, <2>2, <1>4, <1>6 DEF PoolHeap, PoolsGrow
<1>8. /\ c \in CallState /\ c.pc = "link" /\ c.kind = call[t].kind /\ c.tenant = call[t].tenant
      /\ c.tp = call[t].tp /\ c.cached = call[t].cached /\ c.caller = call[t].caller
      /\ c.pool = N + 1 /\ c.slot = call[t].slot /\ c.null = call[t].null
  <2>1. N + 1 \in Nat /\ "link" \in Getting
    BY <1>4 DEF Getting
  <2> QED
    BY <1>0, <2>1 DEF CallState
<1> HIDE DEF c
<1>9. Becomes(t) /\ call'[t] = c
  BY <1>1, <1>8, CallIs
<1>10. DbAsked(t)' = asked
  BY <1>1, <1>8, <1>9 DEF DbAsked, TroeDb
<1> HIDE DEF asked
<1>11. PoolPart(t)'
  <2>1. N + 1 \in 1 .. Len(pools') /\ N + 1 # 0 /\ pools'[N + 1].db = asked
    BY <1>4, <1>5, <1>6
  <2> QED
    BY <1>0, <1>2, <1>8, <1>9, <1>10, <2>1 DEF PoolPart, Getting, Pooled
<1>12. t \in Thread => TenantPart(t)' /\ call[Main].pc = "up"
  <2>1. t \in Thread => TenantPart(t)'
    BY <1>0, <1>1, <1>8, <1>9 DEF TenantPart, Threads, Seeking, BootPc
  <2> QED
    BY <1>0, <2>1, Awake
<1>13. pools' # <<>>
  BY <1>4, <1>6
<1>14. t = Main => MainPart'
  BY <1>0, <1>8, <1>9, <1>13, ConstantFacts DEF MainPart, Threads, Becomes, Getting, BootPc
<1>15. TenantHeap' /\ Plain' /\ OwnDatabase' /\ TenantsGrow
  BY <1>1, TenantsStay DEF TenantHeap, Plain, OwnDatabase
<1>16. TenantSemHeld'
  BY <1>0, <1>1, <1>8, <1>9, TenantSemKept DEF TenantSemHeld, Getting
<1>17. Threads' /\ \A u \in Actor \ {t} : \A p, s : Has(u, p, s)' <=> Has(u, p, s)
  BY <1>0, <1>1, <1>7, <1>8, <1>9, <1>11, <1>12, <1>14, <1>15, ThreadsStep
<1>18. \A p \in Nat, s \in Slot : Has(t, p, s)' <=> Has(t, p, s)
  BY <1>0, <1>8, <1>9, ConstantFacts DEF Has, PoolPart
<1>19. Holdings'
  <2>1. \A p \in 1 .. Len(pools') : p \in 1 .. N \/ p = N + 1
    BY <1>4, <1>6
  <2>2. \A p \in Nat, s \in Slot : Has(t, p, s)' => p \in 1 .. N /\ pools'[p].slot[s].busy
    BY <1>6, <1>18 DEF Holdings, HeldIsBusy
  <2>3. \A p \in 1 .. Len(pools'), s \in Slot : p \notin 1 .. N => ~pools'[p].slot[s].busy
    BY <1>5, <1>6, <2>1
  <2>4. N <= Len(pools') /\ \A p \in 1 .. N, s \in Slot : p \in Nat /\ pools'[p].slot[s] = pools[p].slot[s]
    BY <1>4, <1>6
  <2> QED
    BY <1>7, <1>17, <1>18, <2>2, <2>3, <2>4, HoldingsStep
<1>20. QueueCount' /\ PoolSemHeld'
  <2>1. \A u \in Actor : call[u].pc \in {"search", "searchAny"} => call[u].pool \in 1 .. N
    BY DEF Threads, PoolPart, Pooled
  <2>2. \A p \in 1 .. N : Searching(p)' = Searching(p)
    BY <1>0, <1>8, <1>9 DEF Searching, Becomes
  <2>3. \A p : p \notin 1 .. N => Searching(p)' = {}
    BY <1>8, <1>9, <2>1 DEF Searching, Becomes
  <2>4. \A p : p \notin 1 .. N => Cardinality(Searching(p)') = 0
    BY <2>3, FS_EmptySet
  <2>5. \A p \in 1 .. Len(pools') : p \in 1 .. N \/ p = N + 1
    BY <1>4, <1>6
  <2>6. QueueCount'
    <3> SUFFICES ASSUME NEW p \in 1 .. Len(pools')
                 PROVE  pools'[p].queueSem = PoolSize - Cardinality(Searching(p)')
      BY DEF QueueCount
    <3>1. CASE p \in 1 .. N
      BY <3>1, <1>6, <2>2 DEF QueueCount
    <3>2. CASE p = N + 1
      BY <3>2, <1>4, <1>5, <1>6, <2>4, ConstantFacts
    <3> QED
      BY <2>5, <3>1, <3>2
  <2>7. ASSUME NEW p \in 1 .. N, pools[p].poolSem # None
        PROVE  pools[p].poolSem \in Actor \ {t}
    BY <1>0, <1>4, <2>7 DEF PoolSemHeld, PoolRecord
  <2>8. PoolSemHeld'
    BY <1>5, <1>6, <1>9, <2>5, <2>7 DEF PoolSemHeld, Becomes
  <2> QED
    BY <2>6, <2>8
<1> QED
  BY <1>7, <1>15, <1>16, <1>17, <1>19, <1>20

LEMMA LinkPoolNext ==
  ASSUME TroeInv, NEW t \in Actor, LinkPool(t)
  PROVE  TroeInv'
<1> USE DEF TroeInv
<1> DEFINE rec == [pools[1] EXCEPT !.next = call[t].pool]
           c == [call[t] EXCEPT !.pc = "queue"]
<1>0. /\ call[t] \in CallState /\ call[t].pc = "link" /\ PoolPart(t)
      /\ call[t].tp <= Len(tenants) /\ call[t].cached <= Len(tenants)
  BY DEF LinkPool, At, Threads
<1>1. /\ UNCHANGED <<tenants, tenantList, tenantCache, tenantSem, database, mongoDb, history,
                     alive, requests, faults, restarts>>
      /\ call' = [call EXCEPT ![t] = c] /\ pools' = [pools EXCEPT ![1] = rec]
  BY DEF LinkPool, tenantVars, bounds
<1>2. call[t].pool \in 2 .. Len(pools)
  <2>1. call[t].pool \in 1 .. Len(pools) /\ pools[call[t].pool].db = DbAsked(t)
    BY <1>0 DEF PoolPart, Pooled
  <2>2. DbAsked(t) # None
    BY <1>0 DEF PoolPart
  <2>3. Len(pools) \in Nat /\ call[t].pool # 1
    BY <2>1, <2>2 DEF PoolHeap
  <2> QED
    BY <2>1, <2>3
<1>3. /\ Len(pools) \in Nat \ {0} /\ pools \in Seq(PoolRecord) /\ 1 \in 1 .. Len(pools)
      /\ pools[1] \in PoolRecord /\ call[t].pool \in Nat
  BY <1>2 DEF PoolHeap
<1>4. /\ rec \in PoolRecord /\ rec.db = pools[1].db /\ rec.next = call[t].pool
      /\ rec.queueSem = pools[1].queueSem /\ rec.poolSem = pools[1].poolSem /\ rec.slot = pools[1].slot
  BY <1>3 DEF PoolRecord
<1> HIDE DEF rec
<1>5. /\ pools' \in Seq(PoolRecord) /\ Len(pools') = Len(pools) /\ pools'[1] = rec
      /\ \A p \in 1 .. Len(pools) : p # 1 => pools'[p] = pools[p]
  BY <1>1, <1>3, <1>4
<1>6. \A p \in 1 .. Len(pools) : /\ pools'[p].db = pools[p].db /\ pools'[p].slot = pools[p].slot
                                /\ pools'[p].queueSem = pools[p].queueSem /\ pools'[p].poolSem = pools[p].poolSem
  BY <1>4, <1>5
<1>7. PoolHeap' /\ PoolsGrow
  <2>1. \A p \in 2 .. Len(pools) : p \in 1 .. Len(pools) /\ p # 1
    BY <1>3
  <2>2. \A p \in 2 .. Len(pools) : pools'[p].next < p
    BY <1>5, <2>1 DEF PoolHeap
  <2>3. \A p \in 1 .. Len(pools) : pools'[p].next \in {0} \cup 2 .. Len(pools)
    BY <1>2, <1>4, <1>5 DEF PoolHeap
  <2> QED
    BY <1>3, <1>5, <1>6, <2>2, <2>3 DEF PoolHeap, PoolsGrow
<1>8. /\ c \in CallState /\ c.pc = "queue" /\ c.kind = call[t].kind /\ c.tenant = call[t].tenant
      /\ c.tp = call[t].tp /\ c.cached = call[t].cached /\ c.caller = call[t].caller
      /\ c.pool = call[t].pool /\ c.slot = call[t].slot /\ c.null = call[t].null
  BY <1>0 DEF CallState, Getting
<1> HIDE DEF c
<1>9. Becomes(t) /\ call'[t] = c
  BY <1>1, <1>8, CallIs
<1>10. DbAsked(t)' = DbAsked(t)
  BY <1>1, <1>8, <1>9 DEF DbAsked, TroeDb
<1>11. PoolPart(t)'
  BY <1>0, <1>5, <1>6, <1>8, <1>9, <1>10 DEF PoolPart, Getting, Pooled
<1>12. t \in Thread => TenantPart(t)' /\ call[Main].pc = "up"
  <2>1. t \in Thread => TenantPart(t)'
    BY <1>0, <1>1, <1>8, <1>9 DEF TenantPart, Threads, Seeking, BootPc
  <2> QED
    BY <1>0, <2>1, Awake
<1>13. pools' # <<>>
  BY <1>3, <1>5
<1>14. t = Main => MainPart'
  BY <1>0, <1>8, <1>9, <1>13, ConstantFacts DEF MainPart, Threads, Becomes, Getting, BootPc
<1>15. TenantHeap' /\ Plain' /\ OwnDatabase' /\ TenantsGrow
  BY <1>1, TenantsStay DEF TenantHeap, Plain, OwnDatabase
<1>16. TenantSemHeld'
  BY <1>0, <1>1, <1>8, <1>9, TenantSemKept DEF TenantSemHeld, Getting
<1>17. Threads' /\ \A u \in Actor \ {t} : \A p, s : Has(u, p, s)' <=> Has(u, p, s)
  BY <1>0, <1>1, <1>7, <1>8, <1>9, <1>11, <1>12, <1>14, <1>15, ThreadsStep
<1>18. \A u \in Actor : \A p, s : Has(u, p, s)' <=> Has(u, p, s)
  BY <1>8, <1>9, <1>17 DEF Has
<1>19. Holdings'
  BY <1>5, <1>6, <1>18, <1>3 DEF Holdings, HeldIsBusy, HeldApart, BusyIsHeld
<1>20. QueueCount' /\ PoolSemHeld'
  <2>1. \A p : Searching(p)' = Searching(p)
    BY <1>0, <1>8, <1>9 DEF Searching, Becomes
  <2>0. \A p \in 1 .. Len(pools) : pools[p] \in PoolRecord
    BY DEF PoolHeap
  <2>2. \A p \in 1 .. Len(pools) : pools[p].poolSem # None => pools[p].poolSem \in Actor \ {t}
    BY <1>0, <2>0 DEF PoolSemHeld, PoolRecord
  <2>3. QueueCount'
    BY <1>5, <1>6, <2>1 DEF QueueCount
  <2>4. PoolSemHeld'
    BY <1>5, <1>6, <1>9, <2>2 DEF PoolSemHeld, Becomes
  <2> QED
    BY <2>3, <2>4
<1> QED
  BY <1>7, <1>15, <1>16, <1>17, <1>19, <1>20

\* The rest of pgConnectionGet: what is common to its steps.
LEMMA PoolIs ==
  ASSUME TroeInv, NEW t \in Actor, call[t].pc \in Pooled
  PROVE  /\ call[t] \in CallState /\ PoolPart(t) /\ call[t].pool \in 1 .. Len(pools)
         /\ pools[call[t].pool].db = DbAsked(t) /\ pools[call[t].pool] \in PoolRecord
         /\ pools \in Seq(PoolRecord) /\ Len(pools) \in Nat
BY DEF TroeInv, Threads, PoolPart, PoolHeap, Pooled

\* Waiting for, or posting, a semaphore of a pool.
LEMMA SemStep ==
  ASSUME TroeInv, NEW t \in Actor, Becomes(t), SameShape, NEW p \in 1 .. Len(pools),
         call[t].pool = p, call'[t].pool = p, call[t].pc \in {"queue", "search", "searchAny"},
         \A q \in 1 .. Len(pools) : q # p => pools'[q] = pools[q],
         LET was == call[t].pc \in {"search", "searchAny"}
             is  == call'[t].pc \in {"search", "searchAny"}
         IN  \/ was /\ is /\ pools'[p].queueSem = pools[p].queueSem
             \/ was /\ ~is /\ pools'[p].queueSem = pools[p].queueSem + 1
             \/ ~was /\ is /\ pools'[p].queueSem = pools[p].queueSem - 1,
         \/ pools'[p].poolSem = None
         \/ pools'[p].poolSem = t /\ call'[t].pc = "searchAny"
         \/ pools'[p].poolSem = pools[p].poolSem /\ call[t].pc # "searchAny"
  PROVE  QueueCount' /\ PoolSemHeld'
<1> USE DEF TroeInv
<1>0. Len(pools') = Len(pools) /\ IsFiniteSet(Actor)
  BY ConstantFacts DEF SameShape
<1>1. \A q \in 1 .. Len(pools) : q # p => Searching(q)' = Searching(q)
  BY DEF Searching, Becomes
<1> DEFINE S == Searching(p)
           T == Searching(p)'
<1>2. /\ t \in S <=> call[t].pc \in {"search", "searchAny"}
      /\ t \in T <=> call'[t].pc \in {"search", "searchAny"}
      /\ \A u \in Actor \ {t} : u \in T <=> u \in S
      /\ S \subseteq Actor /\ T \subseteq Actor
  BY DEF Searching, Becomes
<1>r. \A q \in 1 .. Len(pools) : pools[q] \in PoolRecord
  BY DEF PoolHeap
<1>3. pools[p].queueSem = PoolSize - Cardinality(S) /\ pools[p].queueSem \in Nat
  BY <1>r DEF QueueCount, PoolRecord
<1> HIDE DEF S, T
<1>4. IsFiniteSet(S) /\ Cardinality(S) \in Nat /\ PoolSize \in Nat
  BY <1>0, <1>2, FS_Subset, FS_CardinalityType, ConstantFacts
<1>5. pools'[p].queueSem = PoolSize - Cardinality(T)
  <2>1. CASE t \in S /\ t \in T
    <3>0. \A u : u \in T <=> u \in S
      BY <1>2, <2>1
    <3>1. T = S
      BY <3>0
    <3> QED
      BY <1>2, <1>3, <1>4, <2>1, <3>1
  <2>2. CASE t \in S /\ t \notin T
    <3>1. T = S \ {t}
      BY <1>2, <2>2
    <3>2. Cardinality(T) = Cardinality(S) - 1
      BY <1>4, <2>2, <3>1, FS_RemoveElement
    <3> QED
      BY <1>2, <1>3, <1>4, <2>2, <3>2
  <2>3. CASE t \notin S /\ t \in T
    <3>1. T = S \cup {t}
      BY <1>2, <2>3
    <3>2. Cardinality(T) = Cardinality(S) + 1
      BY <1>4, <2>3, <3>1, FS_AddElement
    <3> QED
      BY <1>2, <1>3, <1>4, <2>3, <3>2
  <2> QED
    BY <1>2, <2>1, <2>2, <2>3
<1>6. QueueCount'
  <2> SUFFICES ASSUME NEW q \in 1 .. Len(pools)
               PROVE  pools'[q].queueSem = PoolSize - Cardinality(Searching(q)')
    BY <1>0 DEF QueueCount
  <2>1. CASE q = p
    BY <1>5, <2>1 DEF T
  <2>2. CASE q # p
    BY <1>1, <2>2 DEF QueueCount
  <2> QED
    BY <2>1, <2>2
<1>7. \A q \in 1 .. Len(pools) : pools[q].poolSem # None => pools[q].poolSem \in Actor
  BY <1>r DEF PoolRecord
<1>8. PoolSemHeld'
  <2> SUFFICES ASSUME NEW q \in 1 .. Len(pools), pools'[q].poolSem # None
               PROVE  /\ call'[pools'[q].poolSem].pool = q
                      /\ call'[pools'[q].poolSem].pc = "searchAny"
    BY <1>0 DEF PoolSemHeld
  <2>1. CASE q = p
    BY <1>7, <2>1 DEF PoolSemHeld, Becomes
  <2>2. CASE q # p
    BY <1>7, <2>2 DEF PoolSemHeld, Becomes
  <2> QED
    BY <2>1, <2>2
<1> QED
  BY <1>6, <1>8

LEMMA PoolSet ==
  ASSUME PoolHeap, NEW p \in 1 .. Len(pools), NEW rec \in PoolRecord,
         rec.db = pools[p].db, rec.next = pools[p].next, pools' = [pools EXCEPT ![p] = rec]
  PROVE  /\ SameShape /\ pools'[p] = rec /\ Len(pools') = Len(pools)
         /\ \A q \in 1 .. Len(pools) : q # p => pools'[q] = pools[q]
<1>1. pools \in Seq(PoolRecord) /\ Len(pools) \in Nat
  BY DEF PoolHeap
<1>2. /\ pools' \in Seq(PoolRecord) /\ Len(pools') = Len(pools) /\ pools'[p] = rec
      /\ \A q \in 1 .. Len(pools) : q # p => pools'[q] = pools[q]
  BY <1>1
<1> QED
  BY <1>2 DEF SameShape

LEMMA HoldingsKept ==
  ASSUME TroeInv, NEW t \in Actor, Becomes(t), SameShape,
         \A q \in 1 .. Len(pools) : pools'[q].slot = pools[q].slot,
         \A q \in Nat, s \in Slot : Has(t, q, s)' <=> Has(t, q, s)
  PROVE  Holdings'
<1> USE DEF TroeInv
<1>1. \A u \in Actor, q \in Nat, s \in Slot : Has(u, q, s)' <=> Has(u, q, s)
  BY OthersHave
<1>2. Len(pools') = Len(pools) /\ \A q \in 1 .. Len(pools) : q \in Nat
  BY DEF SameShape, PoolHeap
<1>3. HeldIsBusy'
  BY <1>1, <1>2 DEF Holdings, HeldIsBusy
<1>4. HeldApart'
  BY <1>1 DEF Holdings, HeldApart
<1>5. BusyIsHeld'
  BY <1>1, <1>2 DEF Holdings, BusyIsHeld
<1> QED
  BY <1>3, <1>4, <1>5 DEF Holdings

LEMMA QueueWaitNext ==
  ASSUME TroeInv, NEW t \in Actor, QueueWait(t)
  PROVE  TroeInv'
<1> USE DEF TroeInv
<1> DEFINE p == call[t].pool
           rec == [pools[p] EXCEPT !.queueSem = pools[p].queueSem - 1]
           c == [call[t] EXCEPT !.pc = "search"]
<1>0. /\ call[t].pc = "queue" /\ PoolPart(t) /\ call[t] \in CallState
      /\ p \in 1 .. Len(pools) /\ pools[p] \in PoolRecord /\ pools[p].db = DbAsked(t)
      /\ pools[p].queueSem > 0
  BY PoolIs DEF QueueWait, At, Pooled
<1>1. /\ UNCHANGED <<tenants, tenantList, tenantCache, tenantSem, database, mongoDb, history,
                     alive, requests, faults, restarts>>
      /\ call' = [call EXCEPT ![t] = c] /\ pools' = [pools EXCEPT ![p] = rec]
  BY DEF QueueWait, tenantVars, bounds
<1>2. /\ rec \in PoolRecord /\ rec.db = pools[p].db /\ rec.next = pools[p].next
      /\ rec.queueSem = pools[p].queueSem - 1 /\ rec.poolSem = pools[p].poolSem /\ rec.slot = pools[p].slot
  <2>1. pools[p].queueSem - 1 \in Nat
    BY <1>0 DEF PoolRecord
  <2> QED
    BY <1>0, <2>1 DEF PoolRecord
<1>3. /\ c \in CallState /\ c.pc = "search" /\ c.kind = call[t].kind /\ c.tenant = call[t].tenant
      /\ c.tp = call[t].tp /\ c.cached = call[t].cached /\ c.caller = call[t].caller
      /\ c.pool = call[t].pool /\ c.slot = call[t].slot /\ c.null = call[t].null
  BY <1>0 DEF CallState, Getting
<1> HIDE DEF c, rec
<1>4. Becomes(t) /\ call'[t] = c
  BY <1>1, <1>3, CallIs
<1>5. /\ SameShape /\ pools'[p] = rec /\ Len(pools') = Len(pools)
      /\ \A q \in 1 .. Len(pools) : q # p => pools'[q] = pools[q]
  <2> HIDE DEF p
  <2> QED
    BY <1>0, <1>1, <1>2, PoolSet
<1>6. DbAsked(t)' = DbAsked(t)
  BY <1>1, <1>3, <1>4 DEF DbAsked, TroeDb
<1>7. PoolPart(t)'
  BY <1>0, <1>2, <1>3, <1>4, <1>5, <1>6 DEF PoolPart, Getting, Pooled
<1>8. Holdings'
  <2>1. \A q \in Nat, s \in Slot : Has(t, q, s)' <=> Has(t, q, s)
    BY <1>3, <1>4 DEF Has
  <2> QED
    BY <1>2, <1>4, <1>5, <2>1, HoldingsKept
<1>9. QueueCount' /\ PoolSemHeld'
  BY <1>0, <1>2, <1>3, <1>4, <1>5, SemStep
<1>10. Plain' /\ OwnDatabase'
  BY <1>1 DEF Plain, OwnDatabase
<1> QED
  BY <1>0, <1>1, <1>3, <1>4, <1>5, <1>7, <1>8, <1>9, <1>10, GetStep DEF Getting

\* A thread marks a slot as its own, or finds none.
LEMMA TakeStep ==
  ASSUME TroeInv, NEW t \in Actor, call[t].pc \in {"search", "searchAny"},
         NEW s \in 0 .. PoolSize, s # 0 => Free(call[t].pool, s),
         NEW pc \in {"got", "connect"}, s = 0 => pc = "got",
         pools' = Take(call[t].pool, s), call' = [call EXCEPT ![t].slot = s, ![t].pc = pc],
         UNCHANGED <<tenants, tenantList, tenantCache, tenantSem, database, mongoDb, history,
                     alive, requests, faults, restarts>>
  PROVE  TroeInv'
<1> USE DEF TroeInv
<1> DEFINE p == call[t].pool
           c == [call[t] EXCEPT !.slot = s, !.pc = pc]
<1>0. /\ PoolPart(t) /\ call[t] \in CallState /\ call[t].slot = 0 /\ Len(pools) \in Nat
      /\ p \in 1 .. Len(pools) /\ pools[p] \in PoolRecord /\ pools[p].db = DbAsked(t)
  BY PoolIs DEF Pooled, PoolPart
<1>1. call' = [call EXCEPT ![t] = c]
  OBVIOUS
<1>2. /\ c \in CallState /\ c.pc = pc /\ c.kind = call[t].kind /\ c.tenant = call[t].tenant
      /\ c.tp = call[t].tp /\ c.cached = call[t].cached /\ c.caller = call[t].caller
      /\ c.pool = call[t].pool /\ c.slot = s /\ c.null = call[t].null
  <2>1. pc \in Getting
    BY DEF Getting
  <2> QED
    BY <1>0, <2>1 DEF CallState
<1> HIDE DEF c
<1>3. Becomes(t) /\ call'[t] = c
  BY <1>1, <1>2, CallIs
<1>4. /\ SameShape /\ Only(p, s)
      /\ s # 0 => pools'[p].slot[s].busy
      /\ pools'[p].queueSem = pools[p].queueSem + 1 /\ pools'[p].poolSem = None
      /\ \A q \in 1 .. Len(pools) : q # p => pools'[q] = pools[q]
  <2> HIDE DEF p
  <2> QED
    BY <1>0, TakeIs DEF p
<1>5. DbAsked(t)' = DbAsked(t)
  BY <1>2, <1>3 DEF DbAsked, TroeDb
<1>6. PoolHeap' /\ Len(pools') = Len(pools) /\ pools'[p].db = pools[p].db
  BY <1>0, <1>4, ShapeKept DEF SameShape
<1>7. PoolPart(t)'
  BY <1>0, <1>2, <1>3, <1>5, <1>6 DEF PoolPart, Getting, Pooled
<1>8. Holdings'
  <2>1. \A q \in Nat, u \in Slot : Has(t, q, u)' <=> Has(t, q, u) \/ (q = p /\ u = s)
    BY <1>0, <1>2, <1>3, ConstantFacts DEF Has
  <2>2. ASSUME NEW q \in Nat, NEW u \in Slot, Has(t, q, u)'
        PROVE  /\ q \in 1 .. Len(pools) /\ pools'[q].slot[u].busy
               /\ Has(t, q, u) \/ ~pools[q].slot[u].busy
    <3>1. CASE q = p /\ u = s
      <4>1. s # 0
        BY <3>1, ConstantFacts
      <4> QED
        BY <1>0, <1>4, <3>1, <4>1 DEF Free
    <3>2. CASE Has(t, q, u) /\ ~(q = p /\ u = s)
      <4>1. q \in 1 .. Len(pools) /\ pools[q].slot[u].busy
        BY <3>2 DEF Holdings, HeldIsBusy
      <4>2. pools'[q].slot[u] = pools[q].slot[u]
        BY <1>4, <3>2, <4>1 DEF Only
      <4> QED
        BY <3>2, <4>1, <4>2
    <3> QED
      BY <2>1, <2>2, <3>1, <3>2
  <2>3. \A q \in 1 .. Len(pools), u \in Slot :
          /\ q \in Nat
          /\ ~Has(t, q, u) /\ ~Has(t, q, u)' => pools'[q].slot[u] = pools[q].slot[u]
    BY <1>4, <2>1, <1>0 DEF Only
  <2>4. \A q \in 1 .. Len(pools), u \in Slot : ~(Has(t, q, u) /\ ~Has(t, q, u)')
    BY <2>1, <2>3
  <2> QED
    BY <1>0, <1>3, <1>6, <2>2, <2>3, <2>4, OthersHave, HoldingsStep
<1>9. QueueCount' /\ PoolSemHeld'
  <2>1. /\ call[t].pool = p /\ call'[t].pool = p
        /\ call[t].pc \in {"search", "searchAny"} /\ call'[t].pc \notin {"search", "searchAny"}
    BY <1>2, <1>3
  <2> HIDE DEF p
  <2> QED
    BY <1>0, <1>3, <1>4, <2>1, SemStep
<1>10. Plain' /\ OwnDatabase'
  BY DEF Plain, OwnDatabase
<1> QED
  BY <1>0, <1>2, <1>3, <1>4, <1>7, <1>8, <1>9, <1>10, GetStep DEF Getting

LEMMA SearchConnectedNext ==
  ASSUME TroeInv, NEW t \in Actor, SearchConnected(t)
  PROVE  TroeInv'
<1> USE DEF TroeInv
<1> DEFINE p == call[t].pool
           S == {u \in Slot : Free(p, u) /\ Connected(p, u)}
           s == First(S)
<1>0. /\ call[t].pc = "search" /\ PoolPart(t) /\ call[t] \in CallState
      /\ p \in 1 .. Len(pools) /\ pools[p] \in PoolRecord /\ pools[p].db = DbAsked(t)
      /\ pools[p].poolSem = None
  BY PoolIs DEF SearchConnected, At, Pooled
<1>1. UNCHANGED <<tenants, tenantList, tenantCache, tenantSem, database, mongoDb, history,
                  alive, requests, faults, restarts>>
  BY DEF SearchConnected, tenantVars, bounds
<1>2. CASE s # 0
  <2>1. pools' = Take(p, s) /\ call' = [call EXCEPT ![t].slot = s, ![t].pc = "got"]
    BY <1>2 DEF SearchConnected
  <2>2. s \in S
    <3>1. S \subseteq Slot
      OBVIOUS
    <3> HIDE DEF S
    <3> QED
      BY <1>2, <3>1, FirstIs
  <2>3. s \in 0 .. PoolSize /\ Free(p, s)
    <3>1. s \in Slot /\ Free(p, s)
      BY <2>2
    <3> HIDE DEF s
    <3> QED
      BY <3>1, ConstantFacts
  <2> HIDE DEF s
  <2> QED
    BY <1>0, <1>1, <1>2, <2>1, <2>3, TakeStep
<1>3. CASE s = 0
  <2> DEFINE rec == [pools[p] EXCEPT !.poolSem = t]
             c == [call[t] EXCEPT !.pc = "searchAny"]
  <2>1. call' = [call EXCEPT ![t] = c] /\ pools' = [pools EXCEPT ![p] = rec]
    BY <1>3 DEF SearchConnected
  <2>2. /\ rec \in PoolRecord /\ rec.db = pools[p].db /\ rec.next = pools[p].next
        /\ rec.queueSem = pools[p].queueSem /\ rec.poolSem = t /\ rec.slot = pools[p].slot
    BY <1>0 DEF PoolRecord
  <2>3. /\ c \in CallState /\ c.pc = "searchAny" /\ c.kind = call[t].kind /\ c.tenant = call[t].tenant
        /\ c.tp = call[t].tp /\ c.cached = call[t].cached /\ c.caller = call[t].caller
        /\ c.pool = call[t].pool /\ c.slot = call[t].slot /\ c.null = call[t].null
    BY <1>0 DEF CallState, Getting
  <2> HIDE DEF c, rec
  <2>4. Becomes(t) /\ call'[t] = c
    BY <2>1, <2>3, CallIs
  <2>5. /\ SameShape /\ pools'[p] = rec /\ Len(pools') = Len(pools)
        /\ \A q \in 1 .. Len(pools) : q # p => pools'[q] = pools[q]
    <3> HIDE DEF p
    <3> QED
      BY <1>0, <2>1, <2>2, PoolSet
  <2>6. DbAsked(t)' = DbAsked(t)
    BY <1>1, <2>3, <2>4 DEF DbAsked, TroeDb
  <2>7. PoolPart(t)'
    BY <1>0, <2>2, <2>3, <2>4, <2>5, <2>6 DEF PoolPart, Getting, Pooled
  <2>8. Holdings'
    <3>1. \A q \in Nat, u \in Slot : Has(t, q, u)' <=> Has(t, q, u)
      BY <2>3, <2>4 DEF Has
    <3> QED
      BY <2>2, <2>4, <2>5, <3>1, HoldingsKept
  <2>9. QueueCount' /\ PoolSemHeld'
    BY <1>0, <2>2, <2>3, <2>4, <2>5, SemStep
  <2>10. Plain' /\ OwnDatabase'
    BY <1>1 DEF Plain, OwnDatabase
  <2> QED
    BY <1>0, <1>1, <2>3, <2>4, <2>5, <2>7, <2>8, <2>9, <2>10, GetStep DEF Getting
<1> QED
  BY <1>2, <1>3

LEMMA SearchAnyNext ==
  ASSUME TroeInv, NEW t \in Actor, SearchAny(t)
  PROVE  TroeInv'
<1> USE DEF TroeInv
<1> DEFINE p == call[t].pool
           S == {u \in Slot : Free(p, u)}
           s == First(S)
           pc == IF s = 0 \/ Connected(p, s) THEN "got" ELSE "connect"
<1>0. call[t].pc = "searchAny"
  BY DEF SearchAny, At
<1>1. /\ UNCHANGED <<tenants, tenantList, tenantCache, tenantSem, database, mongoDb, history,
                     alive, requests, faults, restarts>>
      /\ pools' = Take(p, s) /\ call' = [call EXCEPT ![t].slot = s, ![t].pc = pc]
  BY DEF SearchAny, tenantVars, bounds
<1>2. s \in 0 .. PoolSize /\ (s # 0 => Free(p, s))
  <2>1. S \subseteq Slot
    OBVIOUS
  <2>2. s = 0 \/ s \in S
    <3> HIDE DEF S
    <3> QED
      BY <2>1, FirstIs
  <2>3. s = 0 \/ (s \in Slot /\ Free(p, s))
    BY <2>2
  <2> HIDE DEF s
  <2> QED
    BY <2>3, ConstantFacts
<1> HIDE DEF s
<1>3. pc \in {"got", "connect"} /\ (s = 0 => pc = "got")
  OBVIOUS
<1> HIDE DEF pc
<1> QED
  BY <1>0, <1>1, <1>2, <1>3, TakeStep

\* Only the slot of the thread changes.
LEMMA SlotStep ==
  ASSUME TroeInv, NEW t \in Actor, Becomes(t), SameShape, SameSems,
         call[t].pc \notin {"search", "searchAny"}, call'[t].pc \notin {"search", "searchAny"},
         NEW p \in 1 .. Len(pools), NEW s \in Slot, Has(t, p, s), Only(p, s),
         IF pools'[p].slot[s].busy THEN Has(t, p, s)' ELSE ~Has(t, p, s)',
         \A q \in Nat, u \in Slot : q # p \/ u # s => (Has(t, q, u)' <=> Has(t, q, u))
  PROVE  Holdings' /\ QueueCount' /\ PoolSemHeld'
<1> USE DEF TroeInv
<1>0. PoolHeap' /\ Len(pools') = Len(pools) /\ Len(pools) \in Nat /\ \A q \in 1 .. Len(pools) : q \in Nat
  BY ShapeKept DEF SameShape, PoolHeap
<1>1. ASSUME NEW q \in Nat, NEW u \in Slot, Has(t, q, u)'
      PROVE  /\ q \in 1 .. Len(pools) /\ pools'[q].slot[u].busy /\ Has(t, q, u)
  <2>1. CASE q = p /\ u = s
    BY <1>1, <2>1
  <2>2. CASE q # p \/ u # s
    <3>1. Has(t, q, u) /\ q \in 1 .. Len(pools) /\ pools[q].slot[u].busy
      BY <1>1, <2>2 DEF Holdings, HeldIsBusy
    <3> QED
      BY <2>2, <3>1 DEF Only
  <2> QED
    BY <2>1, <2>2
<1>2. \A q \in 1 .. Len(pools), u \in Slot : ~Has(t, q, u) => pools'[q].slot[u] = pools[q].slot[u]
  BY DEF Only
<1>3. \A q \in 1 .. Len(pools), u \in Slot : Has(t, q, u) /\ ~Has(t, q, u)' => ~pools'[q].slot[u].busy
  BY <1>0
<1>4. Holdings'
  BY <1>0, <1>1, <1>2, <1>3, OthersHave, HoldingsStep
<1>5. QueueCount' /\ PoolSemHeld'
  <2>1. \A q : t \notin Searching(q) /\ t \notin Searching(q)'
    BY DEF Searching
  <2> QED
    BY <2>1, SemsKept
<1> QED
  BY <1>4, <1>5

LEMMA TroeDbIs ==
  ASSUME TroeInv, NEW t \in Actor
  PROVE  TroeDb(t) \in Name /\ TroeDb(t) # None
<1> USE DEF TroeInv
<1>1. call[t].tp \in Nat /\ call[t].tp <= Len(tenants)
  BY DEF Threads, CallState
<1>2. call[t].tp # 0 => tenants[call[t].tp] \in TenantRecord
  BY <1>1 DEF TenantHeap
<1>3. call[t].tp # 0 => tenants[call[t].tp].tenant \in Name
  BY <1>2, ConstantFacts DEF TenantRecord
<1> QED
  BY <1>3, ConstantFacts DEF TroeDb

\* The connection to the "NULL" database that a thread keeps, and the one it asks for.
LEMMA NullApart ==
  ASSUME TroeInv, NEW t \in Actor, call[t].pc \in Getting, call[t].null # 0
  PROVE  DbAsked(t) # None /\ call[t].caller = "create"
<1>1. PoolPart(t)
  BY DEF TroeInv, Threads
<1>2. call[t].caller = "create"
  BY <1>1 DEF PoolPart
<1> QED
  BY <1>2, TroeDbIs DEF DbAsked

LEMMA ConnectNext ==
  ASSUME TroeInv, NEW t \in Actor, Connect(t) \/ ConnectFails(t)
  PROVE  TroeInv'
<1> USE DEF TroeInv
<1> DEFINE p == call[t].pool
           s == call[t].slot
<1>0. /\ call[t].pc = "connect" /\ PoolPart(t) /\ call[t] \in CallState /\ s \in Slot /\ p \in Nat
      /\ p \in 1 .. Len(pools) /\ pools[p] \in PoolRecord /\ pools[p].db = DbAsked(t) /\ Has(t, p, s)
  <2>1. call[t].pc = "connect"
    BY DEF Connect, ConnectFails, At
  <2>2. call[t].slot # 0 /\ call[t].slot \in 0 .. PoolSize
    BY <2>1, PoolIs DEF Pooled, PoolPart, CallState
  <2>3. s \in Slot
    BY <2>2, ConstantFacts
  <2> QED
    BY <2>1, <2>3, PoolIs DEF Pooled, Has
<1>1. /\ UNCHANGED <<tenants, tenantList, tenantCache, tenantSem, database, mongoDb, history,
                     alive, requests, restarts>>
      /\ faults' \in 0 .. MaxFaults
  <2>1. MaxFaults \in Nat /\ faults \in 0 .. MaxFaults
    BY TroeAssumption DEF Plain, TroeAssumption
  <2>2. CASE Connect(t)
    BY <2>1, <2>2 DEF Connect, tenantVars, bounds
  <2>3. CASE ConnectFails(t)
    BY <2>1, <2>3 DEF ConnectFails, tenantVars
  <2> QED
    BY <2>2, <2>3
<1>2. \E status \in Status, busy \in BOOLEAN, slot \in 0 .. PoolSize :
        /\ pools' = SetSlot(p, s, status, busy)
        /\ call' = [call EXCEPT ![t].slot = slot, ![t].pc = "got"]
        /\ IF busy THEN slot = s ELSE slot = 0
  <2>0. 0 \in 0 .. PoolSize /\ s \in 0 .. PoolSize
    BY <1>0, ConstantFacts
  <2>1. CASE Connect(t)
    <3> DEFINE status == IF DbExists(pools[p].db) THEN "ok" ELSE "bad"
    <3>1. status \in Status
      BY DEF Status
    <3>2. pools' = SetSlot(p, s, status, TRUE) /\ call' = [call EXCEPT ![t].pc = "got"]
      BY <2>1 DEF Connect
    <3>3. [call EXCEPT ![t].pc = "got"] = [call EXCEPT ![t].slot = s, ![t].pc = "got"]
      BY <1>0 DEF CallState
    <3> HIDE DEF status
    <3> QED
      BY <2>0, <3>1, <3>2, <3>3
  <2>2. CASE ConnectFails(t)
    <3>1. PICK none \in BOOLEAN :
            /\ pools' = SetSlot(p, s, IF none THEN "virgin" ELSE "bad", ~none)
            /\ call' = [call EXCEPT ![t].slot = IF none THEN 0 ELSE s, ![t].pc = "got"]
      BY <2>2 DEF ConnectFails
    <3>2. CASE none
      <4>1. pools' = SetSlot(p, s, "virgin", FALSE) /\ call' = [call EXCEPT ![t].slot = 0, ![t].pc = "got"]
        BY <3>1, <3>2
      <4> QED
        BY <2>0, <4>1 DEF Status
    <3>3. CASE ~none
      <4>1. pools' = SetSlot(p, s, "bad", TRUE) /\ call' = [call EXCEPT ![t].slot = s, ![t].pc = "got"]
        BY <3>1, <3>3
      <4> QED
        BY <2>0, <4>1 DEF Status
    <3> QED
      BY <3>2, <3>3
  <2> QED
    BY <2>1, <2>2
<1>3. PICK status \in Status, busy \in BOOLEAN, slot \in 0 .. PoolSize :
        /\ pools' = SetSlot(p, s, status, busy)
        /\ call' = [call EXCEPT ![t].slot = slot, ![t].pc = "got"]
        /\ IF busy THEN slot = s ELSE slot = 0
  BY <1>2
<1> DEFINE c == [call[t] EXCEPT !.slot = slot, !.pc = "got"]
<1>4. call' = [call EXCEPT ![t] = c]
  BY <1>3
<1>5. /\ c \in CallState /\ c.pc = "got" /\ c.kind = call[t].kind /\ c.tenant = call[t].tenant
      /\ c.tp = call[t].tp /\ c.cached = call[t].cached /\ c.caller = call[t].caller
      /\ c.pool = call[t].pool /\ c.slot = slot /\ c.null = call[t].null
  BY <1>0 DEF CallState, Getting
<1> HIDE DEF c
<1>6. Becomes(t) /\ call'[t] = c
  BY <1>4, <1>5, CallIs
<1>7. /\ SameShape /\ SameSems /\ Only(p, s)
      /\ pools'[p].slot[s].status = status /\ pools'[p].slot[s].busy = busy
  <2> HIDE DEF p, s
  <2> QED
    BY <1>0, <1>3, SetSlotIs
<1>8. DbAsked(t)' = DbAsked(t) /\ Len(pools') = Len(pools) /\ pools'[p].db = pools[p].db
  BY <1>0, <1>1, <1>5, <1>6, <1>7 DEF DbAsked, TroeDb, SameShape
<1>9. PoolPart(t)'
  BY <1>0, <1>5, <1>6, <1>8 DEF PoolPart, Getting, Pooled
<1>10. \A q \in Nat, u \in Slot :
         Has(t, q, u)' <=> IF q = p /\ u = s THEN busy ELSE Has(t, q, u)
  <2>1. p = 1 => call[t].null # s
    <3>1. p = 1 => DbAsked(t) = None
      BY <1>0 DEF PoolHeap
    <3>2. call[t].null # 0 => DbAsked(t) # None
      BY <1>0, NullApart DEF Getting
    <3>3. s # 0
      BY <1>0, ConstantFacts
    <3> QED
      BY <3>1, <3>2, <3>3
  <2> QED
    BY <1>0, <1>3, <1>5, <1>6, <2>1, ConstantFacts DEF Has
<1>11. Holdings' /\ QueueCount' /\ PoolSemHeld'
  <2>1. call[t].pc \notin {"search", "searchAny"} /\ call'[t].pc \notin {"search", "searchAny"}
    BY <1>0, <1>5, <1>6
  <2> HIDE DEF p, s
  <2> QED
    BY <1>0, <1>6, <1>7, <1>10, <2>1, SlotStep
<1>12. Plain' /\ OwnDatabase'
  BY <1>1 DEF Plain, OwnDatabase
<1> QED
  BY <1>0, <1>1, <1>5, <1>6, <1>7, <1>9, <1>11, <1>12, GetStep DEF Getting

-----------------------------------------------------------------------------
(***************************************************************************)
(* Steps of a thread that is back from pgConnectionGet.                    *)
(***************************************************************************)
LEMMA InHand ==
  ASSUME TroeInv, NEW t \in Actor, call[t].pc \in {"got", "tables", "commit"}
  PROVE  /\ call[t] \in CallState /\ PoolPart(t) /\ call[t].null \in 0 .. PoolSize
         /\ call[t].pc # "got" => call[t].slot # 0
         /\ call[t].null # 0 <=> call[t].pc = "got" /\ call[t].caller = "create"
         /\ call[t].slot # 0 =>
              /\ call[t].slot \in Slot /\ call[t].pool \in 1 .. Len(pools)
              /\ pools[call[t].pool].db = DbAsked(t) /\ pools[call[t].pool] \in PoolRecord
              /\ pools[call[t].pool].slot[call[t].slot] \in SlotState
              /\ call[t].pool = 1 <=> call[t].caller \in {"prepare", "version"}
<1> USE DEF TroeInv
<1>1. call[t] \in CallState /\ PoolPart(t)
  BY DEF Threads
<1>2. call[t].null # 0 <=> call[t].pc = "got" /\ call[t].caller = "create"
  BY <1>1 DEF PoolPart, Getting
<1>3. call[t].pc # "got" => call[t].slot # 0
  BY <1>1 DEF PoolPart
<1>4. ASSUME call[t].slot # 0
      PROVE  /\ call[t].slot \in Slot /\ call[t].pool \in 1 .. Len(pools)
             /\ pools[call[t].pool].db = DbAsked(t)
  <2>1. call[t].slot \in Slot
    BY <1>1, <1>4, ConstantFacts DEF CallState
  <2> QED
    BY <1>1, <1>4, <2>1 DEF PoolPart, Pooled
<1>5. ASSUME call[t].slot # 0
      PROVE  /\ pools[call[t].pool] \in PoolRecord
             /\ call[t].pool = 1 <=> call[t].caller \in {"prepare", "version"}
  <2>1. pools[call[t].pool] \in PoolRecord /\ (call[t].pool = 1 <=> DbAsked(t) = None)
    BY <1>4, <1>5 DEF PoolHeap
  <2>2. DbAsked(t) = None <=> call[t].caller \in {"prepare", "version"}
    BY TroeDbIs DEF DbAsked
  <2> QED
    BY <2>1, <2>2
<1>6. call[t].slot # 0 => pools[call[t].pool].slot[call[t].slot] \in SlotState
  BY <1>4, <1>5 DEF PoolRecord
<1> QED
  BY <1>1, <1>2, <1>3, <1>4, <1>5, <1>6 DEF CallState

LEMMA AfterExecIs ==
  ASSUME NEW p, NEW s, pools[p].slot[s] \in SlotState
  PROVE  AfterExec(p, s) \in Status /\ pools[p].slot[s].status \in Status
BY DEF AfterExec, SlotState, Status

LEMMA PrepareFailsNext ==
  ASSUME TroeInv, NEW t \in Actor, PrepareFails(t)
  PROVE  TroeInv'
<1> USE DEF TroeInv
<1>0. /\ call[t].pc = "got" /\ call[t].caller = "prepare" /\ call[t].slot # 0
      /\ pools[1].slot[call[t].slot].status = "bad" /\ Prepared(t, FALSE)
      /\ UNCHANGED <<tenants, tenantList, tenantCache, tenantSem, pools, database, mongoDb, history,
                     requests, faults, restarts>>
  BY DEF PrepareFails, Got, At, tenantVars, bounds
<1>1. call[t].slot \in Slot /\ call[t].pool = 1 /\ call[t].null = 0
  BY <1>0, InHand
<1>2. ASSUME NEW p \in 1 .. Len(pools), NEW s \in Slot, Has(t, p, s)
      PROVE  p = 1 /\ s = call[t].slot
  BY <1>1, <1>2, ConstantFacts DEF Has
<1>3. SameShape /\ SameSems /\ database' \in [Name -> {"absent", "created", "ready"}]
  BY <1>0, PoolsStay DEF Plain
<1>4. \A p \in 1 .. Len(pools), s \in Slot :
        IF Has(t, p, s) THEN ~pools'[p].slot[s].busy \/ (p = 1 /\ pools'[1].slot[s].status = "bad")
        ELSE pools'[p].slot[s] = pools[p].slot[s]
  BY <1>0, <1>2
<1> QED
  BY <1>0, <1>3, <1>4, PreparedStep

LEMMA CreateDatabaseNext ==
  ASSUME TroeInv, NEW t \in Actor, CreateDatabase(t)
  PROVE  TroeInv'
<1> USE DEF TroeInv
<1> DEFINE s == call[t].slot
           c == [call[t] EXCEPT !.null = s, !.pc = "find", !.caller = "create"]
<1>0. call[t].pc = "got" /\ call[t].caller = "prepare" /\ call[t].slot # 0
  BY DEF CreateDatabase, Got, At
<1>1. /\ UNCHANGED <<tenants, tenantList, tenantCache, tenantSem, mongoDb, history, alive,
                     requests, faults, restarts>>
      /\ database' = (IF Works(1, s) /\ database[TroeDb(t)] = "absent"
                      THEN [database EXCEPT ![TroeDb(t)] = "created"] ELSE database)
      /\ pools' = SetSlot(1, s, AfterExec(1, s), TRUE)
      /\ call' = [call EXCEPT ![t] = c]
  BY DEF CreateDatabase, tenantVars, bounds
<1>2. /\ call[t] \in CallState /\ s \in Slot /\ call[t].pool = 1 /\ call[t].null = 0 /\ 1 \in 1 .. Len(pools)
      /\ AfterExec(1, s) \in Status /\ pools[1].slot[s] \in SlotState /\ PoolPart(t)
  BY <1>0, InHand, AfterExecIs
<1>3. /\ c \in CallState /\ c.pc = "find" /\ c.kind = call[t].kind /\ c.tenant = call[t].tenant
      /\ c.tp = call[t].tp /\ c.cached = call[t].cached /\ c.caller = "create"
      /\ c.pool = 1 /\ c.slot = s /\ c.null = s
  <2>1. s \in 0 .. PoolSize
    BY <1>2 DEF CallState
  <2> QED
    BY <1>2, <2>1 DEF CallState, Getting
<1> HIDE DEF c
<1>4. Becomes(t) /\ call'[t] = c
  BY <1>1, <1>3, CallIs
<1>5. SameShape /\ SameSems /\ Only(1, s) /\ pools'[1].slot[s].busy
  <2> HIDE DEF s
  <2> QED
    BY <1>1, <1>2, SetSlotIs
<1>6. PoolPart(t)'
  BY <1>0, <1>2, <1>3, <1>4, ConstantFacts DEF PoolPart, Getting, Pooled
<1>7. Holdings' /\ QueueCount' /\ PoolSemHeld'
  <2>1. /\ \A q \in Nat, u \in Slot : Has(t, q, u)' <=> Has(t, q, u)
        /\ Has(t, 1, s) /\ Has(t, 1, s)'
    BY <1>2, <1>3, <1>4, ConstantFacts DEF Has
  <2>2. call[t].pc \notin {"search", "searchAny"} /\ call'[t].pc \notin {"search", "searchAny"}
    BY <1>0, <1>3, <1>4
  <2> HIDE DEF s
  <2> QED
    BY <1>2, <1>4, <1>5, <2>1, <2>2, SlotStep
<1>8. Plain' /\ OwnDatabase'
  <2>1. database' \in [Name -> {"absent", "created", "ready"}]
    BY <1>1, TroeDbIs DEF Plain
  <2> QED
    BY <1>1, <2>1 DEF Plain, OwnDatabase
<1> QED
  BY <1>0, <1>1, <1>3, <1>4, <1>5, <1>6, <1>7, <1>8, GetStep DEF Getting

LEMMA CreateTablesNext ==
  ASSUME TroeInv, NEW t \in Actor, CreateTables(t)
  PROVE  TroeInv'
<1> USE DEF TroeInv
<1> DEFINE p == call[t].pool
           s == call[t].slot
<1>0. call[t].pc = "tables"
  BY DEF CreateTables, At
<1>1. /\ UNCHANGED <<tenants, tenantList, tenantCache, tenantSem, mongoDb, history, requests, faults, restarts>>
      /\ database' = (IF Works(p, s) THEN [database EXCEPT ![pools[p].db] = "ready"] ELSE database)
      /\ pools' = SetSlot(p, s, AfterExec(p, s), FALSE)
      /\ Prepared(t, Works(p, s)) /\ Works(p, s) \in BOOLEAN
  BY DEF CreateTables, tenantVars, bounds, Release, Works
<1>2. /\ call[t].caller = "create" /\ call[t].null = 0 /\ s \in Slot /\ p \in 1 .. Len(pools)
      /\ pools[p].db = DbAsked(t) /\ AfterExec(p, s) \in Status
  BY <1>0, InHand, AfterExecIs DEF PoolPart
<1>3. SameShape /\ SameSems /\ Only(p, s) /\ ~pools'[p].slot[s].busy
  <2> HIDE DEF p, s
  <2> QED
    BY <1>1, <1>2, SetSlotIs
<1>4. database' \in [Name -> {"absent", "created", "ready"}]
  <2>1. pools[p].db \in Name
    BY <1>2, TroeDbIs DEF DbAsked
  <2> QED
    BY <1>1, <2>1 DEF Plain
<1>5. \A q \in 1 .. Len(pools), u \in Slot : Has(t, q, u) <=> q = p /\ u = s
  BY <1>2, ConstantFacts DEF Has
<1>6. \A q \in 1 .. Len(pools), u \in Slot :
        IF Has(t, q, u) THEN ~pools'[q].slot[u].busy ELSE pools'[q].slot[u] = pools[q].slot[u]
  BY <1>3, <1>5 DEF Only
<1> QED
  BY <1>0, <1>1, <1>2, <1>3, <1>4, <1>6, PreparedStep

LEMMA VersionNext ==
  ASSUME TroeInv, NEW t \in Actor, Version(t)
  PROVE  TroeInv'
<1> USE DEF TroeInv
<1> DEFINE s == call[t].slot
<1>0. /\ call[t].pc = "got" /\ call[t].caller = "version" /\ call' = [call EXCEPT ![t] = Idle]
      /\ UNCHANGED <<tenants, tenantList, tenantCache, tenantSem, database, mongoDb, history, alive,
                     requests, faults, restarts>>
  BY DEF Version, Got, At, tenantVars, bounds, End
<1>1. call[t].null = 0 /\ (s # 0 => s \in Slot /\ call[t].pool = 1 /\ 1 \in 1 .. Len(pools)
                                  /\ pools[1].slot[s].status \in Status)
  BY <1>0, InHand, AfterExecIs
<1>2. SameShape /\ SameSems /\ \A q \in 1 .. Len(pools), u \in Slot :
        IF Has(t, q, u) THEN ~pools'[q].slot[u].busy ELSE pools'[q].slot[u] = pools[q].slot[u]
  <2>1. CASE s = 0
    <3>1. pools' = pools
      BY <2>1 DEF Version
    <3>2. \A q \in 1 .. Len(pools), u \in Slot : ~Has(t, q, u)
      BY <1>1, <2>1, ConstantFacts DEF Has
    <3> QED
      BY <3>1, <3>2, PoolsStay
  <2>2. CASE s # 0
    <3>1. pools' = SetSlot(1, s, pools[1].slot[s].status, FALSE)
      BY <2>2 DEF Version, Release
    <3>2. SameShape /\ SameSems /\ Only(1, s) /\ ~pools'[1].slot[s].busy
      <4> HIDE DEF s
      <4> QED
        BY <1>1, <2>2, <3>1, SetSlotIs
    <3>3. \A q \in 1 .. Len(pools), u \in Slot : Has(t, q, u) <=> q = 1 /\ u = s
      BY <1>1, <2>2, ConstantFacts DEF Has
    <3> QED
      BY <3>2, <3>3 DEF Only
  <2> QED
    BY <2>1, <2>2
<1>3. Plain' /\ OwnDatabase'
  BY <1>0 DEF Plain, OwnDatabase
<1> QED
  BY <1>0, <1>2, <1>3, FinishStep

LEMMA CommandsNext ==
  ASSUME TroeInv, NEW t \in Actor, Commands(t)
  PROVE  TroeInv'
<1> USE DEF TroeInv
<1> DEFINE p == call[t].pool
           s == call[t].slot
<1>0. /\ call[t].pc = "got" /\ call[t].caller = "commands"
      /\ UNCHANGED <<tenants, tenantList, tenantCache, tenantSem, database, mongoDb, history, alive,
                     requests, faults, restarts>>
  BY DEF Commands, Got, At, tenantVars, bounds
<1>1. /\ call[t] \in CallState /\ PoolPart(t) /\ call[t].null = 0
      /\ s # 0 => s \in Slot /\ p \in 1 .. Len(pools) /\ pools[p].db = DbAsked(t)
  BY <1>0, InHand
<1>2. Plain' /\ OwnDatabase'
  BY <1>0 DEF Plain, OwnDatabase
<1>3. CASE s = 0
  <2>1. pools' = pools /\ call' = [call EXCEPT ![t] = Idle]
    BY <1>3 DEF Commands, End
  <2>2. \A q \in 1 .. Len(pools), u \in Slot : ~Has(t, q, u)
    BY <1>1, <1>3, ConstantFacts DEF Has
  <2> QED
    BY <1>0, <1>2, <2>1, <2>2, PoolsStay, FinishStep
<1>4. CASE s # 0 /\ ~Works(p, s)
  <2>1. pools' = SetSlot(p, s, "bad", FALSE) /\ call' = [call EXCEPT ![t] = Idle]
    BY <1>4 DEF Commands, End, Release
  <2>2. SameShape /\ SameSems /\ Only(p, s) /\ ~pools'[p].slot[s].busy
    <3>1. "bad" \in Status
      BY DEF Status
    <3> HIDE DEF p, s
    <3> QED
      BY <1>1, <1>4, <2>1, <3>1, SetSlotIs
  <2>3. \A q \in 1 .. Len(pools), u \in Slot : Has(t, q, u) <=> q = p /\ u = s
    BY <1>1, <1>4, ConstantFacts DEF Has
  <2>4. \A q \in 1 .. Len(pools), u \in Slot :
          IF Has(t, q, u) THEN ~pools'[q].slot[u].busy ELSE pools'[q].slot[u] = pools[q].slot[u]
    BY <2>2, <2>3 DEF Only
  <2> QED
    BY <1>0, <1>2, <2>1, <2>2, <2>4, FinishStep
<1>5. CASE s # 0 /\ Works(p, s)
  <2> DEFINE c == [call[t] EXCEPT !.pc = "commit"]
  <2>1. pools' = pools /\ call' = [call EXCEPT ![t] = c]
    BY <1>5 DEF Commands
  <2>2. /\ c \in CallState /\ c.pc = "commit" /\ c.kind = call[t].kind /\ c.tenant = call[t].tenant
        /\ c.tp = call[t].tp /\ c.cached = call[t].cached /\ c.caller = "commands"
        /\ c.pool = p /\ c.slot = s /\ c.null = 0
    BY <1>0, <1>1 DEF CallState
  <2> HIDE DEF c
  <2>3. Becomes(t) /\ call'[t] = c
    BY <2>1, <2>2, CallIs
  <2>4. DbAsked(t)' = DbAsked(t)
    BY <1>0, <2>2, <2>3 DEF DbAsked, TroeDb
  <2>5. PoolPart(t)'
    BY <1>0, <1>1, <1>5, <2>1, <2>2, <2>3, <2>4 DEF PoolPart, Getting, Pooled
  <2>6. SameShape /\ SameSems
    BY <2>1, PoolsStay
  <2>7. Holdings'
    <3>1. \A q \in Nat, u \in Slot : Has(t, q, u)' <=> Has(t, q, u)
      BY <1>1, <2>2, <2>3 DEF Has
    <3> QED
      BY <2>1, <2>3, <2>6, <3>1, HoldingsKept
  <2>8. QueueCount' /\ PoolSemHeld'
    <3>1. \A q : t \notin Searching(q) /\ t \notin Searching(q)'
      BY <1>0, <2>2, <2>3 DEF Searching
    <3> QED
      BY <1>0, <2>3, <2>6, <3>1, SemsKept
  <2> QED
    BY <1>0, <1>2, <2>2, <2>3, <2>5, <2>6, <2>7, <2>8, GetStep DEF Getting
<1> QED
  BY <1>3, <1>4, <1>5

LEMMA CommitNext ==
  ASSUME TroeInv, NEW t \in Actor, Commit(t)
  PROVE  TroeInv'
<1> USE DEF TroeInv
<1> DEFINE p == call[t].pool
           s == call[t].slot
<1>0. call[t].pc = "commit"
  BY DEF Commit, At
<1>1. /\ UNCHANGED <<tenants, tenantList, tenantCache, tenantSem, database, mongoDb, alive, requests, faults, restarts>>
      /\ call' = [call EXCEPT ![t] = Idle]
      /\ history' = (IF Works(p, s) /\ database[pools[p].db] = "ready"
                     THEN history \cup {<<call[t].tenant, pools[p].db>>} ELSE history)
      /\ pools' = SetSlot(p, s, AfterExec(p, s), FALSE)
  BY DEF Commit, tenantVars, bounds, Release, End
<1>2. /\ call[t] \in CallState /\ call[t].caller = "commands" /\ call[t].null = 0 /\ s \in Slot
      /\ p \in 1 .. Len(pools) /\ pools[p].db = DbAsked(t) /\ AfterExec(p, s) \in Status
  BY <1>0, InHand, AfterExecIs DEF PoolPart
<1>3. SameShape /\ SameSems /\ Only(p, s) /\ ~pools'[p].slot[s].busy
  <2> HIDE DEF p, s
  <2> QED
    BY <1>1, <1>2, SetSlotIs
<1>4. \A q \in 1 .. Len(pools), u \in Slot : Has(t, q, u) <=> q = p /\ u = s
  BY <1>2, ConstantFacts DEF Has
<1>5. \A q \in 1 .. Len(pools), u \in Slot :
        IF Has(t, q, u) THEN ~pools'[q].slot[u].busy ELSE pools'[q].slot[u] = pools[q].slot[u]
  BY <1>3, <1>4 DEF Only
<1>6. pools[p].db = call[t].tenant /\ call[t].tenant \in Name
  <2>1. t # Main
    BY <1>0 DEF Threads, MainPart, BootPc, Getting
  <2>2. TenantPart(t)
    BY <2>1, ConstantFacts DEF Threads
  <2>3. TroeDb(t) = call[t].tenant
    BY <1>0, <2>2 DEF TenantPart, TroeDb, Seeking
  <2> QED
    BY <1>2, <2>3 DEF DbAsked, CallState
<1>7. Plain' /\ OwnDatabase'
  <2>1. <<call[t].tenant, pools[p].db>> \in Name \X Name
    BY <1>6
  <2>2. history' \in SUBSET (Name \X Name)
    BY <1>1, <2>1 DEF Plain
  <2>3. OwnDatabase'
    BY <1>1, <1>6 DEF OwnDatabase
  <2> QED
    BY <1>1, <2>2, <2>3 DEF Plain
<1> QED
  BY <1>0, <1>1, <1>3, <1>5, <1>7, FinishStep

LEMMA SeqExcept ==
  ASSUME NEW S, NEW seq \in Seq(S), NEW i \in 1 .. Len(seq), NEW x \in S
  PROVE  /\ [seq EXCEPT ![i] = x] \in Seq(S) /\ Len([seq EXCEPT ![i] = x]) = Len(seq)
         /\ [seq EXCEPT ![i] = x][i] = x
         /\ \A j \in 1 .. Len(seq) : j # i => [seq EXCEPT ![i] = x][j] = seq[j]
OBVIOUS

\* Of two records of a pool, only slot s differs.
SlotDiffers(r, rec, s) ==
  /\ r.db = rec.db /\ r.next = rec.next /\ r.queueSem = rec.queueSem /\ r.poolSem = rec.poolSem
  /\ \A u \in Slot \ {s} : r.slot[u] = rec.slot[u]

\* Two pools change.
LEMMA TwoPools ==
  ASSUME PoolHeap, NEW p \in 1 .. Len(pools), p # 1, 1 \in 1 .. Len(pools),
         NEW one \in PoolRecord, NEW two \in PoolRecord,
         NEW rel, rel = [pools EXCEPT ![1] = one], pools' = [rel EXCEPT ![p] = two]
  PROVE  /\ pools' \in Seq(PoolRecord) /\ Len(pools') = Len(pools) /\ pools'[1] = one /\ pools'[p] = two
         /\ \A q \in 1 .. Len(pools) : q # 1 /\ q # p => pools'[q] = pools[q]
<1>1. pools \in Seq(PoolRecord)
  BY DEF PoolHeap
<1>2. /\ rel \in Seq(PoolRecord) /\ Len(rel) = Len(pools) /\ rel[1] = one
      /\ \A q \in 1 .. Len(pools) : q # 1 => rel[q] = pools[q]
  BY <1>1, SeqExcept
<1>3. /\ pools' \in Seq(PoolRecord) /\ Len(pools') = Len(rel) /\ pools'[p] = two
      /\ \A q \in 1 .. Len(rel) : q # p => pools'[q] = rel[q]
  BY <1>2, SeqExcept
<1> QED
  BY <1>2, <1>3

\* A slot of pool 1 is freed, and one of another pool is set.
LEMMA TwoSlots ==
  ASSUME 1 \in 1 .. Len(pools), NEW p \in 1 .. Len(pools), p # 1, NEW n \in Slot, NEW s \in Slot,
         pools' \in Seq(PoolRecord), Len(pools') = Len(pools),
         SlotDiffers(pools'[1], pools[1], n), SlotDiffers(pools'[p], pools[p], s),
         \A q \in 1 .. Len(pools) : q # 1 /\ q # p => pools'[q] = pools[q]
  PROVE  /\ SameShape /\ SameSems
         /\ \A q \in 1 .. Len(pools), u \in Slot :
              (q # 1 \/ u # n) /\ (q # p \/ u # s) => pools'[q].slot[u] = pools[q].slot[u]
<1>2. /\ pools'[1].db = pools[1].db /\ pools'[1].next = pools[1].next
      /\ pools'[1].queueSem = pools[1].queueSem /\ pools'[1].poolSem = pools[1].poolSem
      /\ \A u \in Slot \ {n} : pools'[1].slot[u] = pools[1].slot[u]
  BY DEF SlotDiffers
<1>3. /\ pools'[p].db = pools[p].db /\ pools'[p].next = pools[p].next
      /\ pools'[p].queueSem = pools[p].queueSem /\ pools'[p].poolSem = pools[p].poolSem
      /\ \A u \in Slot \ {s} : pools'[p].slot[u] = pools[p].slot[u]
  BY DEF SlotDiffers
<1>4. SameShape /\ SameSems
  BY <1>2, <1>3 DEF SameShape, SameSems
<1>5. ASSUME NEW q \in 1 .. Len(pools), NEW u \in Slot, q # 1 \/ u # n, q # p \/ u # s
      PROVE  pools'[q].slot[u] = pools[q].slot[u]
  <2>1. CASE q = 1
    <3>1. u \in Slot \ {n}
      BY <1>5, <2>1
    <3> QED
      BY <1>2, <2>1, <3>1
  <2>2. CASE q = p
    <3>1. u \in Slot \ {s}
      BY <1>5, <2>2
    <3> QED
      BY <1>3, <2>2, <3>1
  <2>3. CASE q # 1 /\ q # p
    BY <2>3
  <2> QED
    BY <2>1, <2>2, <2>3
<1> QED
  BY <1>2, <1>3, <1>4, <1>5

LEMMA CreateExtensionNext ==
  ASSUME TroeInv, NEW t \in Actor, CreateExtension(t)
  PROVE  TroeInv'
<1> USE DEF TroeInv
<1> DEFINE p == call[t].pool
           s == call[t].slot
           n == call[t].null
           status == pools[1].slot[n].status
           released == SetSlot(1, n, status, FALSE)
<1>0. /\ call[t].pc = "got" /\ call[t].caller = "create"
      /\ UNCHANGED <<tenants, tenantList, tenantCache, tenantSem, database, mongoDb, history,
                     requests, faults, restarts>>
  BY DEF CreateExtension, Got, At, tenantVars, bounds
<1>1. /\ call[t] \in CallState /\ PoolPart(t) /\ n \in Slot /\ Has(t, 1, n) /\ 1 \in 1 .. Len(pools)
      /\ status \in Status
  <2>1. call[t] \in CallState /\ PoolPart(t) /\ n # 0 /\ n \in 0 .. PoolSize
    BY <1>0, InHand
  <2>2. n \in Slot /\ Has(t, 1, n)
    BY <2>1, ConstantFacts DEF Has
  <2>3. 1 \in 1 .. Len(pools)
    BY <2>2 DEF Holdings, HeldIsBusy
  <2>4. pools[1] \in PoolRecord
    BY <2>3 DEF PoolHeap
  <2>5. pools[1].slot[n] \in SlotState
    BY <2>2, <2>4 DEF PoolRecord
  <2> QED
    BY <2>1, <2>2, <2>3, <2>5 DEF SlotState
<1>2. s # 0 => /\ s \in Slot /\ p \in 1 .. Len(pools) /\ p # 1 /\ pools[p].db = DbAsked(t)
               /\ pools[p].slot[s] \in SlotState
  BY <1>0, InHand
<1>3. database' \in [Name -> {"absent", "created", "ready"}]
  BY <1>0 DEF Plain
<1>4. CASE s = 0
  <2>1. pools' = released /\ Prepared(t, TRUE)
    BY <1>4 DEF CreateExtension, Release
  <2>2. SameShape /\ SameSems /\ Only(1, n) /\ ~pools'[1].slot[n].busy
    <3> HIDE DEF n, status
    <3> QED
      BY <1>1, <2>1, SetSlotIs
  <2>3. \A q \in 1 .. Len(pools), u \in Slot : Has(t, q, u) <=> q = 1 /\ u = n
    BY <1>4, ConstantFacts DEF Has
  <2>4. \A q \in 1 .. Len(pools), u \in Slot :
          IF Has(t, q, u) THEN ~pools'[q].slot[u].busy ELSE pools'[q].slot[u] = pools[q].slot[u]
    BY <2>2, <2>3 DEF Only
  <2> QED
    BY <1>0, <1>3, <2>1, <2>2, <2>4, PreparedStep
<1>r. s # 0 => released[p] = pools[p]
  BY <1>1, <1>2 DEF SetSlot, PoolHeap
<1>5. ASSUME s # 0, NEW new \in SlotState, pools' = [released EXCEPT ![p].slot[s] = new]
      PROVE  /\ SameShape /\ SameSems /\ ~pools'[1].slot[n].busy /\ pools'[p].slot[s] = new
             /\ \A q \in 1 .. Len(pools), u \in Slot :
                  ~Has(t, q, u) => pools'[q].slot[u] = pools[q].slot[u]
             /\ \A q \in Nat, u \in Slot : Has(t, q, u) <=> (q = 1 /\ u = n) \/ (q = p /\ u = s)
  <2>1. /\ SameShape /\ SameSems /\ ~pools'[1].slot[n].busy /\ pools'[p].slot[s] = new
        /\ \A q \in 1 .. Len(pools), u \in Slot :
             (q # 1 \/ u # n) /\ (q # p \/ u # s) => pools'[q].slot[u] = pools[q].slot[u]
    <3> DEFINE free == [status |-> status, busy |-> FALSE]
               one == [pools[1] EXCEPT !.slot[n] = free]
               two == [pools[p] EXCEPT !.slot[s] = new]
    <3>0. s \in Slot /\ p \in 1 .. Len(pools) /\ p # 1 /\ released[p] = pools[p]
      BY <1>2, <1>5, <1>r
    <3>1. pools[1] \in PoolRecord /\ pools[p] \in PoolRecord
      <4> HIDE DEF p
      <4> QED
        BY <1>1, <3>0 DEF PoolHeap
    <3>2. free \in SlotState /\ ~free.busy
      BY <1>1 DEF SlotState
    <3>3. released = [pools EXCEPT ![1] = one]
      BY DEF SetSlot
    <3> HIDE DEF released
    <3>4. pools' = [released EXCEPT ![p] = two]
      BY <1>5, <3>0
    <3>5. /\ one \in PoolRecord /\ one.slot[n] = free /\ SlotDiffers(one, pools[1], n)
          /\ two \in PoolRecord /\ two.slot[s] = new /\ SlotDiffers(two, pools[p], s)
      <4> HIDE DEF free, p, s, n
      <4>2. one \in PoolRecord /\ one.slot[n] = free /\ SlotDiffers(one, pools[1], n)
        BY <1>1, <3>1, <3>2 DEF PoolRecord, SlotDiffers
      <4>3. two \in PoolRecord /\ two.slot[s] = new /\ SlotDiffers(two, pools[p], s)
        BY <3>0, <3>1 DEF PoolRecord, SlotDiffers
      <4> QED
        BY <4>2, <4>3
    <3> HIDE DEF one, two, p, s, n, free
    <3>6. /\ pools' \in Seq(PoolRecord) /\ Len(pools') = Len(pools) /\ pools'[1] = one /\ pools'[p] = two
          /\ \A q \in 1 .. Len(pools) : q # 1 /\ q # p => pools'[q] = pools[q]
      BY <1>1, <3>0, <3>3, <3>4, <3>5, TwoPools
    <3>7. /\ SameShape /\ SameSems
          /\ \A q \in 1 .. Len(pools), u \in Slot :
               (q # 1 \/ u # n) /\ (q # p \/ u # s) => pools'[q].slot[u] = pools[q].slot[u]
      BY <1>1, <3>0, <3>5, <3>6, TwoSlots
    <3> QED
      BY <3>2, <3>5, <3>6, <3>7
  <2>2. \A q \in Nat, u \in Slot : Has(t, q, u) <=> (q = 1 /\ u = n) \/ (q = p /\ u = s)
    BY DEF Has
  <2>3. \A q \in 1 .. Len(pools) : q \in Nat
    OBVIOUS
  <2> QED
    BY <2>1, <2>2, <2>3
<1>6. CASE s # 0 /\ ExecNull(p, s)
  <2> DEFINE new == [pools[p].slot[s] EXCEPT !.busy = FALSE]
  <2>1. pools' = [released EXCEPT ![p].slot[s].busy = FALSE] /\ Prepared(t, TRUE)
    BY <1>6 DEF CreateExtension, Release
  <2>2. pools' = [released EXCEPT ![p].slot[s] = new]
    <3> HIDE DEF released
    <3> QED
      BY <1>r, <1>6, <2>1
  <2>3. new \in SlotState /\ ~new.busy
    BY <1>2, <1>6 DEF SlotState
  <2> HIDE DEF new
  <2>4. /\ SameShape /\ SameSems /\ ~pools'[1].slot[n].busy /\ pools'[p].slot[s] = new
        /\ \A q \in 1 .. Len(pools), u \in Slot : ~Has(t, q, u) => pools'[q].slot[u] = pools[q].slot[u]
        /\ \A q \in Nat, u \in Slot : Has(t, q, u) <=> (q = 1 /\ u = n) \/ (q = p /\ u = s)
    BY <1>5, <1>6, <2>2, <2>3
  <2>5. \A q \in 1 .. Len(pools), u \in Slot :
          IF Has(t, q, u) THEN ~pools'[q].slot[u].busy ELSE pools'[q].slot[u] = pools[q].slot[u]
    BY <2>3, <2>4
  <2> QED
    BY <1>0, <1>3, <2>1, <2>4, <2>5, PreparedStep
<1>7. CASE s # 0 /\ ~ExecNull(p, s)
  <2> DEFINE new == [pools[p].slot[s] EXCEPT !.status = AfterExec(p, s)]
             c == [call[t] EXCEPT !.pc = "tables", !.null = 0]
  <2>1. /\ pools' = [released EXCEPT ![p].slot[s].status = AfterExec(p, s)]
        /\ call' = [call EXCEPT ![t] = c] /\ alive' = TRUE
    BY <1>7 DEF CreateExtension, Release
  <2>2. pools' = [released EXCEPT ![p].slot[s] = new]
    <3> HIDE DEF released
    <3> QED
      BY <1>r, <1>7, <2>1
  <2>3. new \in SlotState /\ new.busy = pools[p].slot[s].busy
    BY <1>2, <1>7, AfterExecIs DEF SlotState
  <2> HIDE DEF new
  <2>4. /\ SameShape /\ SameSems /\ ~pools'[1].slot[n].busy /\ pools'[p].slot[s] = new
        /\ \A q \in 1 .. Len(pools), u \in Slot : ~Has(t, q, u) => pools'[q].slot[u] = pools[q].slot[u]
        /\ \A q \in Nat, u \in Slot : Has(t, q, u) <=> (q = 1 /\ u = n) \/ (q = p /\ u = s)
    BY <1>5, <1>7, <2>2, <2>3
  <2>5. /\ c \in CallState /\ c.pc = "tables" /\ c.kind = call[t].kind /\ c.tenant = call[t].tenant
        /\ c.tp = call[t].tp /\ c.cached = call[t].cached /\ c.caller = "create"
        /\ c.pool = p /\ c.slot = s /\ c.null = 0
    <3>1. 0 \in 0 .. PoolSize
      BY ConstantFacts
    <3> QED
      BY <1>0, <1>1, <3>1 DEF CallState
  <2> HIDE DEF c
  <2>6. Becomes(t) /\ call'[t] = c
    BY <2>1, <2>5, CallIs
  <2>7. PoolHeap' /\ Len(pools') = Len(pools) /\ Len(pools) \in Nat /\ \A q \in 1 .. Len(pools) : q \in Nat /\ pools'[q].db = pools[q].db
    BY <2>4, ShapeKept DEF SameShape, PoolHeap
  <2>8. DbAsked(t)' = DbAsked(t)
    BY <1>0, <2>5, <2>6 DEF DbAsked, TroeDb
  <2>9. PoolPart(t)'
    BY <1>2, <1>7, <2>5, <2>6, <2>7, <2>8 DEF PoolPart, Getting, Pooled
  <2>10. Holdings'
    <3>1. \A q \in Nat, u \in Slot : Has(t, q, u)' <=> q = p /\ u = s
      BY <2>5, <2>6, ConstantFacts DEF Has
    <3>2. pools[p].slot[s].busy /\ p \in 1 .. Len(pools) /\ p # 1
      BY <1>2, <1>7, <2>4, <2>7 DEF Holdings, HeldIsBusy
    <3>3. \A q \in Nat, u \in Slot : Has(t, q, u)' =>
            q \in 1 .. Len(pools) /\ pools'[q].slot[u].busy /\ Has(t, q, u)
      BY <2>3, <2>4, <3>1, <3>2
    <3>4. \A q \in 1 .. Len(pools), u \in Slot : Has(t, q, u) /\ ~Has(t, q, u)' => ~pools'[q].slot[u].busy
      BY <2>4, <2>7, <3>1
    <3> QED
      BY <2>4, <2>6, <2>7, <3>3, <3>4, OthersHave, HoldingsStep
  <2>11. QueueCount' /\ PoolSemHeld'
    <3>1. \A q : t \notin Searching(q) /\ t \notin Searching(q)'
      BY <1>0, <2>5, <2>6 DEF Searching
    <3> QED
      BY <1>0, <2>4, <2>6, <3>1, SemsKept
  <2>12. Plain' /\ OwnDatabase'
    BY <1>0, <2>1 DEF Plain, OwnDatabase
  <2> QED
    BY <1>0, <2>4, <2>5, <2>6, <2>9, <2>10, <2>11, <2>12, GetStep DEF Getting
<1> QED
  BY <1>4, <1>6, <1>7

-----------------------------------------------------------------------------
(***************************************************************************)
(* The theorems.                                                           *)
(***************************************************************************)
LEMMA StepNext ==
  ASSUME TroeInv, NEW t \in Actor, Step(t) \/ ConnectFails(t)
  PROVE  TroeInv'
<1>1. CASE FindPool(t) \/ CreatePool(t) \/ LinkPool(t) \/ QueueWait(t)
  BY <1>1, FindPoolNext, CreatePoolNext, LinkPoolNext, QueueWaitNext
<1>2. CASE SearchConnected(t) \/ SearchAny(t) \/ Connect(t) \/ ConnectFails(t)
  BY <1>2, SearchConnectedNext, SearchAnyNext, ConnectNext
<1>3. CASE ReadCache(t) \/ Lookup(t) \/ TakeTenantSem(t) \/ TenantExists(t) \/ NewTenant(t) \/ PublishTenant(t)
  BY <1>3, ReadCacheNext, LookupNext, TakeTenantSemNext, TenantExistsNext, NewTenantNext, PublishTenantNext
<1>4. CASE PrepareDies(t) \/ PrepareFails(t) \/ CreateDatabase(t) \/ CreateExtension(t) \/ CreateTables(t)
  BY <1>4, OutsideNext, PrepareFailsNext, CreateDatabaseNext, CreateExtensionNext, CreateTablesNext
<1>5. CASE TenantReady(t) \/ Serve(t) \/ Version(t) \/ Commands(t) \/ Commit(t)
  BY <1>5, TenantReadyNext, ServeNext, VersionNext, CommandsNext, CommitNext
<1> QED
  BY <1>1, <1>2, <1>3, <1>4, <1>5 DEF Step

LEMMA TroeNext ==
  ASSUME TroeInv, [Next]_vars
  PROVE  TroeInv'
<1>1. ASSUME NEW t \in Actor, Step(t) \/ ConnectFails(t) PROVE TroeInv'
  BY <1>1, StepNext
<1>2. ASSUME NEW t \in Thread, Request(t) PROVE TroeInv'
  BY <1>2, RequestNext
<1>3. CASE Boot
  BY <1>3, BootNext, TroeInitNext, OutsideNext DEF Boot
<1>4. CASE Restart \/ PostgresRestart \/ OtherBroker \/ UNCHANGED vars
  BY <1>4, RestartNext, PostgresRestartNext, OutsideNext
<1> QED
  BY <1>1, <1>2, <1>3, <1>4 DEF Next

\* The inductive invariant: the shape of the lists of tenants and pools, what is known of a
\* thread at every place of orionldTenantGet, pgDatabasePrepare, pgConnectionGet and
\* pgCommands, who has which connection, and who has which semaphore.
THEOREM TroeInvariant == Spec => []TroeInv
<1>1. TroeInv /\ [Next]_vars => TroeInv'
  BY TroeNext
<1> QED
  BY <1>1, TroeInit0, PTL DEF Spec

\* The fields have their types, and the counting semaphore of a pool is its size less the
\* threads between sem_wait and sem_post in pgConnectionGet: it is never posted twice, nor
\* forgotten on the way out that finds no slot.
THEOREM TypeCorrect == Spec => []TypeOK
<1>1. ASSUME TroeInv PROVE TypeOK
  <2> USE <1>1 DEF TroeInv
  <2>1. DOMAIN pools = 1 .. Len(pools) /\ DOMAIN tenants = 1 .. Len(tenants) /\ Len(pools) \in Nat /\ Len(tenants) \in Nat
    BY DEF PoolHeap, TenantHeap
  <2>2. ASSUME NEW p \in 1 .. Len(pools)
        PROVE  /\ pools[p].queueSem = PoolSize - Cardinality(Searching(p))
               /\ pools[p].queueSem \in 0 .. PoolSize
               /\ pools[p].db \in Name \cup {None} /\ pools[p].next \in 0 .. Len(pools)
               /\ pools[p].poolSem \in Thread \cup {Main, None}
               /\ pools[p].slot \in [Slot -> SlotState]
    <3>1. Searching(p) \subseteq Actor
      BY DEF Searching
    <3>2. Cardinality(Searching(p)) \in Nat
      BY <3>1, FS_Subset, FS_CardinalityType, ConstantFacts
    <3>3. pools[p] \in PoolRecord
      BY DEF PoolHeap
    <3>4. pools[p].queueSem = PoolSize - Cardinality(Searching(p)) /\ pools[p].queueSem \in Nat
      BY <3>3 DEF QueueCount, PoolRecord
    <3>5. pools[p].queueSem \in 0 .. PoolSize
      BY <3>2, <3>4, ConstantFacts
    <3>6. pools[p].next \in 0 .. Len(pools)
      BY <2>1 DEF PoolHeap
    <3> QED
      BY <3>3, <3>4, <3>5, <3>6 DEF PoolRecord, Actor
  <2>3. \A p \in 1 .. Len(pools) : pools[p].queueSem = PoolSize -
          Cardinality({t \in Actor : call[t].pool = p /\ call[t].pc \in {"search", "searchAny"}})
    BY <2>2 DEF Searching
  <2>4. ASSUME NEW n \in 1 .. Len(tenants)
        PROVE  tenants[n].tenant \in Tenant /\ tenants[n].next \in 0 .. n - 1
    <3>1. tenants[n] \in TenantRecord /\ tenants[n].next < n
      BY DEF TenantHeap
    <3> QED
      BY <2>1, <3>1 DEF TenantRecord
  <2>5. tenantSem \in Thread \cup {Main, None}
    BY DEF TenantSemHeld
  <2>6. tenantList \in 0 .. Len(tenants) /\ tenantCache \in 0 .. Len(tenants)
    BY DEF TenantHeap
  <2> HIDE DEF TroeInv
  <2>7. Plain
    BY DEF TroeInv
  <2> QED
    BY <2>1, <2>2, <2>3, <2>4, <2>5, <2>6, <2>7 DEF TypeOK, Plain, SlotState
<1> QED
  BY <1>1, TroeInvariant, PTL

\* No two threads ever have the same connection, and every busy one is in the hands of a
\* thread, or is a bad one of the "NULL" database that pgDatabasePrepare left behind.
THEOREM EveryConnectionIsAccountedFor == Spec => []ConnectionsAccountedFor
<1>1. ASSUME TroeInv PROVE ConnectionsAccountedFor
  <2> USE <1>1 DEF TroeInv
  <2>1. DOMAIN pools = 1 .. Len(pools) /\ Len(pools) \in Nat
    BY DEF PoolHeap
  <2>2. \A t \in Actor : call[t].pool \in Nat /\ call[t].slot \in 0 .. PoolSize /\ call[t].null \in 0 .. PoolSize
    BY DEF Threads, CallState
  <2>3. ASSUME NEW t \in Actor, NEW p \in Nat, NEW s \in Slot
        PROVE  <<p, s>> \in Held(t) <=> Has(t, p, s)
    <3>1. s # 0
      BY ConstantFacts
    <3> QED
      BY <3>1 DEF Held, Has
  <2>4. ASSUME NEW t \in Actor, NEW h \in Held(t)
        PROVE  \E p \in Nat, s \in Slot : h = <<p, s>>
    BY <2>2, ConstantFacts DEF Held
  <2>5. ASSUME NEW t \in Actor, NEW u \in Actor, t # u PROVE Held(t) \cap Held(u) = {}
    <3> SUFFICES ASSUME NEW h \in Held(t), h \in Held(u) PROVE FALSE
      OBVIOUS
    <3>1. PICK p \in Nat, s \in Slot : h = <<p, s>>
      BY <2>4
    <3>2. Has(t, p, s) /\ Has(u, p, s)
      BY <2>3, <3>1
    <3> QED
      BY <2>5, <3>2 DEF Holdings, HeldApart
  <2>6. ASSUME NEW p \in 1 .. Len(pools), NEW s \in Slot, pools[p].slot[s].busy
        PROVE  \/ \E t \in Actor : <<p, s>> \in Held(t)
               \/ p = 1 /\ pools[1].slot[s].status = "bad"
    BY <2>1, <2>3, <2>6 DEF Holdings, BusyIsHeld
  <2> HIDE DEF TroeInv
  <2> QED
    BY <2>1, <2>5, <2>6 DEF ConnectionsAccountedFor
<1> QED
  BY <1>1, TroeInvariant, PTL

\* What a request commits goes to the database of its own tenant, and orionldState.tenantP
\* is the tenant that the request names, although tenantCache and both lists are read
\* without a lock.
THEOREM TenantsAreIsolated == Spec => []TenantIsolation
<1>1. TroeInv => TenantIsolation
  BY DEF TroeInv, OwnDatabase, Threads, TenantPart, TenantIsolation
<1> QED
  BY <1>1, TroeInvariant, PTL

\* The threads never wait for each other in a circle: the holder of poolSem does not wait, a
\* pool without a permit is being searched by a thread, and the holder of tenantSem waits
\* for nothing but the semaphores of the pools.
THEOREM NobodyWaitsInACircle == Spec => []SomebodyProceeds
<1>1. ASSUME TroeInv, NEW t \in Thread, call[t].pc # "idle"
      PROVE  \E u \in Thread : call[u].pc # "idle" /\ ~Blocked(u)
  <2> USE <1>1 DEF TroeInv
  <2>1. call[Main].pc = "up" /\ Thread \subseteq Actor
    BY Awake, ConstantFacts
  <2>2. ASSUME NEW u \in Actor, call[u].pc # "up" PROVE u \in Thread
    BY <2>1, <2>2, ConstantFacts
  <2>3. ASSUME NEW u \in Thread, call[u].pc \in {"queue", "search"} PROVE call[u].pool \in 1 .. Len(pools)
    BY <2>1, <2>3, PoolIs DEF Pooled
  <2>4. ASSUME NEW p \in 1 .. Len(pools), pools[p].poolSem # None
        PROVE  \E u \in Thread : call[u].pc # "idle" /\ ~Blocked(u)
    <3>1. pools[p] \in PoolRecord
      BY DEF PoolHeap
    <3>2. pools[p].poolSem \in Actor /\ call[pools[p].poolSem].pc = "searchAny"
      BY <2>4, <3>1 DEF PoolRecord, PoolSemHeld
    <3> QED
      BY <2>2, <3>2 DEF Blocked
  <2>5. ASSUME NEW p \in 1 .. Len(pools), pools[p].queueSem = 0
        PROVE  \E u \in Thread : call[u].pc # "idle" /\ ~Blocked(u)
    <3>1. Searching(p) \subseteq Actor
      BY DEF Searching
    <3>2. IsFiniteSet(Searching(p)) /\ Cardinality(Searching(p)) \in Nat
      BY <3>1, FS_Subset, FS_CardinalityType, ConstantFacts
    <3>3. Cardinality(Searching(p)) # 0
      BY <2>5, <3>2, ConstantFacts DEF QueueCount
    <3>4. PICK u \in Actor : call[u].pool = p /\ call[u].pc \in {"search", "searchAny"}
      BY <3>2, <3>3, FS_EmptySet DEF Searching
    <3>5. u \in Thread
      BY <2>2, <3>4
    <3>6. CASE Blocked(u)
      <4>1. pools[p].poolSem # None
        BY <3>4, <3>6 DEF Blocked
      <4> QED
        BY <2>4, <4>1
    <3> QED
      BY <3>4, <3>5, <3>6
  <2>6. ASSUME NEW u \in Thread, Blocked(u), call[u].pc # "tenantSem"
        PROVE  \E v \in Thread : call[v].pc # "idle" /\ ~Blocked(v)
    BY <2>3, <2>4, <2>5, <2>6 DEF Blocked
  <2>7. CASE call[t].pc # "tenantSem"
    BY <2>6, <2>7
  <2>8. CASE call[t].pc = "tenantSem" /\ Blocked(t)
    <3>1. tenantSem # None
      BY <2>8 DEF Blocked
    <3>2. /\ tenantSem \in Thread /\ call[tenantSem].pc \notin {"idle", "tenantSem"}
      BY <3>1 DEF TenantSemHeld, Getting
    <3> QED
      BY <2>6, <3>2
  <2> QED
    BY <2>7, <2>8
<1>2. TroeInv => SomebodyProceeds
  BY <1>1 DEF SomebodyProceeds
<1> QED
  BY <1>2, TroeInvariant, PTL

=============================================================================
