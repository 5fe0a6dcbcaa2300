---------------------- MODULE MongoConnectionPoolProofs ----------------------
(***************************************************************************)
(* Proofs about the connection pool, for every number of threads and every *)
(* pool size.                                                              *)
(***************************************************************************)
EXTENDS MongoConnectionPool, FiniteSetTheorems, TLAPS

\* Before the pool is up nobody uses it; then the semaphore of the vector is
\* free exactly when no thread is between its sem_wait and its sem_post.
MutexInv ==
  /\ ~Booted => connectionPoolSem = 0 /\ \A t \in Thread : pc[t] = "idle"
  /\ connectionPoolSem = 1 => \A t \in Thread : ~InPool(t)
  /\ \A t, u \in Thread : InPool(t) /\ InPool(u) => t = u

\* A slot's connection is its own, a claim concerns a free slot, and a
\* connection that a thread has, or that was leaked, belongs to a slot that is
\* not free.  Who waits for a second connection does it in a wrapper.
OwnershipInv ==
  /\ \A s \in Slots : connection[s] \in { s, NULL }
  /\ \A t \in Thread : pc[t] = "claim" => ix[t] \in Slots /\ free[ix[t]]
  /\ \A t \in Thread, s \in Slots : Holds(t, s) => ~free[s] /\ connection[s] = s
  /\ \A t \in Thread : outer[t] # NULL => style[t] = "op" /\ pc[t] # "idle"

\* What was leaked stays out of the pool.
LeakInv ==
  /\ ~Booted => leaked = {}
  /\ \A s \in leaked : ~free[s] /\ connection[s] = s /\ \A t \in Thread : ~Holds(t, s)

ExclusionInv == TypeOK /\ MutexInv /\ OwnershipInv /\ LiveConnectionExclusive /\ LeakInv

LEMMA ExclusionInit == Init => ExclusionInv
BY PoolAssumption
   DEF Init, ExclusionInv, TypeOK, MutexInv, OwnershipInv, LiveConnectionExclusive,
       LeakInv, Holds, Booted, InPool, Holding, Slots, Locations, Styles

LEMMA ExclusionRestart == Restart => ExclusionInv'
BY PoolAssumption
   DEF Restart, ExclusionInv, TypeOK, MutexInv, OwnershipInv, LiveConnectionExclusive,
       LeakInv, Holds, Booted, InPool, Holding, Slots, Locations, Styles

LEMMA ConnectExclusion == ExclusionInv /\ ConnectSlot => ExclusionInv'
<1> SUFFICES ASSUME ExclusionInv, ConnectSlot PROVE ExclusionInv'
  OBVIOUS
<1> USE PoolAssumption DEF ExclusionInv, ConnectSlot, Booted, Slots
<1>1. boot \in Slots /\ \A t \in Thread : pc[t] = "idle"
  BY DEF TypeOK, MutexInv
<1>2. PICK c \in mongoConnect(boot) : connection' = [connection EXCEPT ![boot] = c]
  OBVIOUS
<1>3. c \in { boot, NULL }
  BY DEF mongoConnect
<1>4. TypeOK'
  BY <1>1, <1>2, <1>3 DEF TypeOK
<1>5. MutexInv'
  BY <1>1 DEF MutexInv, InPool, TypeOK
<1>6. \A t \in Thread, s \in Slots : ~Holds(t, s) /\ ~Holds(t, s)'
  BY <1>1 DEF OwnershipInv, Holds, Holding, TypeOK
<1>7. leaked = {} /\ leaked' = {}
  BY DEF LeakInv
<1>8. OwnershipInv'
  BY <1>1, <1>2, <1>3, <1>6 DEF OwnershipInv, TypeOK
<1>9. LiveConnectionExclusive' /\ LeakInv'
  BY <1>1, <1>6, <1>7 DEF LiveConnectionExclusive, LeakInv, Holding
<1> QED BY <1>4, <1>5, <1>8, <1>9

\* A step after which every thread has what it had, and the slots are as they
\* were, disturbs neither the ownership nor the exclusion.
LEMMA SameHolders ==
  ASSUME ExclusionInv, UNCHANGED << boot, free, connection, leaked >>,
         \A t \in Thread, s \in Slots : Holds(t, s)' <=> Holds(t, s),
         \A t \in Thread : Holding(t)' /\ conn'[t] # NULL => conn'[t] # outer'[t],
         \A t \in Thread : pc'[t] = "claim" => ix'[t] \in Slots /\ free[ix'[t]],
         \A t \in Thread : outer'[t] # NULL => style'[t] = "op" /\ pc'[t] # "idle"
  PROVE  OwnershipInv' /\ LiveConnectionExclusive' /\ LeakInv'
BY DEF ExclusionInv, TypeOK, OwnershipInv, LiveConnectionExclusive, LeakInv, Booted

LEMMA ThreadExclusion ==
  ExclusionInv /\ (\E t \in Thread : Work(t) \/ \E how \in Styles : Call(t, how))
    => ExclusionInv'
<1> SUFFICES ASSUME ExclusionInv, NEW t \in Thread,
                    Work(t) \/ \E how \in Styles : Call(t, how)
             PROVE  ExclusionInv'
  OBVIOUS
<1> USE PoolAssumption DEF ExclusionInv, Booted, Slots, poolVars
<1>1. ASSUME NEW how \in Styles, Call(t, how) PROVE ExclusionInv'
  <2>1. TypeOK'
    BY <1>1 DEF TypeOK, Call, Locations
  <2>2. MutexInv'
    BY <1>1 DEF TypeOK, MutexInv, Call, InPool
  <2>3. OwnershipInv' /\ LiveConnectionExclusive' /\ LeakInv'
    BY <1>1, SameHolders
       DEF TypeOK, OwnershipInv, LiveConnectionExclusive, Call, Holds, Holding
  <2> QED BY <2>1, <2>2, <2>3
<1>2. CASE GetWaitConnection(t)
  <2>1. TypeOK'
    BY <1>2 DEF TypeOK, MutexInv, InPool, GetWaitConnection, Locations, Styles
  <2>2. MutexInv'
    BY <1>2 DEF TypeOK, MutexInv, GetWaitConnection, InPool
  <2>3. OwnershipInv' /\ LiveConnectionExclusive' /\ LeakInv'
    BY <1>2, SameHolders
       DEF TypeOK, OwnershipInv, LiveConnectionExclusive, GetWaitConnection, Holds, Holding
  <2> QED BY <2>1, <2>2, <2>3
<1>3. CASE GetWaitPool(t)
  <2>1. TypeOK'
    BY <1>3 DEF TypeOK, MutexInv, InPool, GetWaitPool, Locations, Styles
  <2>2. MutexInv'
    BY <1>3 DEF TypeOK, MutexInv, GetWaitPool, InPool
  <2>3. OwnershipInv' /\ LiveConnectionExclusive' /\ LeakInv'
    BY <1>3, SameHolders
       DEF TypeOK, OwnershipInv, LiveConnectionExclusive, GetWaitPool, Holds, Holding
  <2> QED BY <2>1, <2>2, <2>3
<1>4. CASE GetScanFound(t)
  <2>0. PICK s \in Slots : free[s] /\ ix' = [ix EXCEPT ![t] = s]
    BY <1>4 DEF GetScanFound
  <2>1. TypeOK'
    BY <1>4, <2>0 DEF TypeOK, MutexInv, InPool, GetScanFound, Locations, Styles
  <2>2. MutexInv'
    BY <1>4 DEF TypeOK, MutexInv, GetScanFound, InPool
  <2>3. OwnershipInv' /\ LiveConnectionExclusive' /\ LeakInv'
    BY <1>4, <2>0, SameHolders
       DEF TypeOK, OwnershipInv, LiveConnectionExclusive, GetScanFound, Holds, Holding
  <2> QED BY <2>1, <2>2, <2>3
<1>5. CASE GetScanNothing(t)
  <2>1. TypeOK'
    BY <1>5 DEF TypeOK, MutexInv, InPool, GetScanNothing, Locations, Styles
  <2>2. MutexInv'
    BY <1>5 DEF TypeOK, MutexInv, GetScanNothing, InPool
  <2>3. OwnershipInv' /\ LiveConnectionExclusive' /\ LeakInv'
    BY <1>5, SameHolders
       DEF TypeOK, OwnershipInv, LiveConnectionExclusive, GetScanNothing, Holds, Holding
  <2> QED BY <2>1, <2>2, <2>3
<1>6. CASE GetClaim(t)
  <2>0. ix[t] \in Slots /\ free[ix[t]] /\ connection[ix[t]] \in { ix[t], NULL }
    BY <1>6 DEF GetClaim, OwnershipInv
  <2>1. TypeOK'
    BY <1>6, <2>0 DEF TypeOK, GetClaim, Locations
  <2>2. MutexInv'
    BY <1>6 DEF TypeOK, MutexInv, GetClaim, InPool
  <2>3. /\ \A u \in Thread, s \in Slots : u # t => (Holds(u, s)' <=> Holds(u, s))
        /\ \A s \in Slots : Holds(t, s)' => Holds(t, s) \/ s = connection[ix[t]]
    BY <1>6, <2>0 DEF TypeOK, GetClaim, Holds, Holding
  <2>4. \A u \in Thread, s \in Slots : Holds(u, s) => s # ix[t]
    BY <2>0 DEF OwnershipInv
  <2>5. OwnershipInv'
    <3>1. \A u \in Thread : u # t => pc[u] # "claim"
      BY <1>6 DEF MutexInv, InPool, GetClaim
    <3>2. ASSUME NEW u \in Thread, NEW s \in Slots, Holds(u, s)'
          PROVE  ~free'[s] /\ connection'[s] = s
      <4>1. Holds(u, s) \/ (s = ix[t] /\ connection[s] = s)
        BY <2>0, <2>3, <3>2
      <4> QED BY <1>6, <2>0, <2>4, <4>1 DEF TypeOK, GetClaim, OwnershipInv
    <3> QED BY <1>6, <3>1, <3>2 DEF TypeOK, GetClaim, OwnershipInv
  <2>6. LiveConnectionExclusive'
    <3>1. \A s \in Slots : \A u, v \in Thread : Holds(u, s)' /\ Holds(v, s)' => u = v
      BY <2>0, <2>3, <2>4 DEF LiveConnectionExclusive
    <3>2. outer[t] # ix[t]
      BY <2>0, <2>4 DEF Holds
    <3> QED BY <1>6, <2>0, <3>1, <3>2 DEF TypeOK, GetClaim, LiveConnectionExclusive, Holding
  <2>7. LeakInv'
    BY <1>6, <2>0, <2>3 DEF TypeOK, GetClaim, LeakInv
  <2> QED BY <2>1, <2>2, <2>5, <2>6, <2>7
<1>7. CASE GetPost(t)
  <2>1. TypeOK'
    BY <1>7 DEF TypeOK, MutexInv, InPool, GetPost, Locations, Styles
  <2>2. MutexInv'
    BY <1>7 DEF TypeOK, MutexInv, GetPost, InPool
  <2>3. OwnershipInv' /\ LiveConnectionExclusive' /\ LeakInv'
    BY <1>7, SameHolders
       DEF TypeOK, OwnershipInv, LiveConnectionExclusive, GetPost, Holds, Holding
  <2> QED BY <2>1, <2>2, <2>3
<1>8. CASE ReturnOnNull(t)
  <2>1. TypeOK'
    BY <1>8 DEF TypeOK, MutexInv, InPool, ReturnOnNull, Return, Locations, Styles
  <2>2. MutexInv'
    BY <1>8 DEF TypeOK, MutexInv, ReturnOnNull, Return, InPool
  <2>3. OwnershipInv' /\ LiveConnectionExclusive' /\ LeakInv'
    BY <1>8, SameHolders
       DEF TypeOK, OwnershipInv, LiveConnectionExclusive, ReturnOnNull, Return, Holds, Holding
  <2> QED BY <2>1, <2>2, <2>3
<1>9. CASE Finish(t)
  <2>1. TypeOK'
    BY <1>9 DEF TypeOK, MutexInv, InPool, Finish, Locations, Styles
  <2>2. MutexInv'
    BY <1>9 DEF TypeOK, MutexInv, Finish, InPool
  <2>3. OwnershipInv' /\ LiveConnectionExclusive' /\ LeakInv'
    BY <1>9, SameHolders
       DEF TypeOK, OwnershipInv, LiveConnectionExclusive, Finish, Holds, Holding
  <2> QED BY <2>1, <2>2, <2>3
<1>10. CASE Nest(t)
  <2>1. TypeOK'
    BY <1>10 DEF TypeOK, MutexInv, InPool, Nest, Locations, Styles
  <2>2. MutexInv'
    BY <1>10 DEF TypeOK, MutexInv, Nest, InPool
  <2>3. OwnershipInv' /\ LiveConnectionExclusive' /\ LeakInv'
    BY <1>10, SameHolders
       DEF TypeOK, OwnershipInv, LiveConnectionExclusive, Nest, Holds, Holding
  <2> QED BY <2>1, <2>2, <2>3
<1>11. CASE ReleaseWaitPool(t)
  <2>1. TypeOK'
    BY <1>11 DEF TypeOK, MutexInv, InPool, ReleaseWaitPool, Locations, Styles
  <2>2. MutexInv'
    BY <1>11 DEF TypeOK, MutexInv, ReleaseWaitPool, InPool
  <2>3. OwnershipInv' /\ LiveConnectionExclusive' /\ LeakInv'
    BY <1>11, SameHolders
       DEF TypeOK, OwnershipInv, LiveConnectionExclusive, ReleaseWaitPool, Holds, Holding
  <2> QED BY <2>1, <2>2, <2>3
<1>12. CASE ReleasePost(t)
  <2>1. TypeOK'
    BY <1>12 DEF TypeOK, MutexInv, InPool, ReleasePost, Return, Locations, Styles
  <2>2. MutexInv'
    BY <1>12 DEF TypeOK, MutexInv, ReleasePost, Return, InPool
  <2>3. OwnershipInv' /\ LiveConnectionExclusive' /\ LeakInv'
    BY <1>12, SameHolders
       DEF TypeOK, OwnershipInv, LiveConnectionExclusive, ReleasePost, Return, Holds, Holding
  <2> QED BY <2>1, <2>2, <2>3
<1>13. CASE Leak(t)
  <2>0. conn[t] \in Slots /\ outer[t] = NULL
    BY <1>13 DEF TypeOK, Leak, OwnershipInv
  <2>1. TypeOK'
    BY <1>13, <2>0 DEF TypeOK, Leak, Return, Locations, Styles
  <2>2. MutexInv'
    BY <1>13, <2>0 DEF TypeOK, MutexInv, Leak, Return, InPool
  <2>3. \A u \in Thread, s \in Slots : Holds(u, s)' <=> Holds(u, s) /\ u # t
    BY <1>13, <2>0 DEF TypeOK, Leak, Return, Holds, Holding
  <2>4. Holds(t, conn[t])
    BY <1>13 DEF Leak, Holds, Holding
  <2>5. OwnershipInv'
    BY <1>13, <2>0, <2>3 DEF TypeOK, Leak, Return, OwnershipInv
  <2>6. LiveConnectionExclusive'
    BY <1>13, <2>0, <2>3 DEF TypeOK, Leak, Return, LiveConnectionExclusive, Holding
  <2>7. LeakInv'
    BY <1>13, <2>0, <2>3, <2>4
       DEF TypeOK, Leak, MutexInv, LeakInv, OwnershipInv, LiveConnectionExclusive
  <2> QED BY <2>1, <2>2, <2>5, <2>6, <2>7
<1>14. CASE ReleaseFound(t)
  <2>0. PICK s \in Slots : connection[s] = conn[t] /\ free' = [free EXCEPT ![s] = TRUE]
    BY <1>14 DEF ReleaseFound
  <2>1. TypeOK'
    BY <1>14, <2>0 DEF TypeOK, ReleaseFound, Locations
  <2>2. MutexInv'
    BY <1>14 DEF TypeOK, MutexInv, ReleaseFound, InPool
  <2>3. connection[s] = s => Holds(t, s)
    BY <1>14, <2>0 DEF ReleaseFound, Holds, Holding
  <2>4. \A u \in Thread, r \in Slots : Holds(u, r)' => Holds(u, r)
    BY <1>14 DEF TypeOK, ReleaseFound, Holds, Holding
  <2>5. \A u \in Thread : ~Holds(u, s)'
    <3>1. ~Holds(t, s)'
      <4>1. conn[t] # NULL => outer[t] # conn[t]
        BY <1>14 DEF ReleaseFound, LiveConnectionExclusive, Holding
      <4> QED BY <1>14, <2>0, <4>1 DEF TypeOK, ReleaseFound, Holds, Holding, OwnershipInv
    <3> QED BY <2>0, <2>3, <2>4, <3>1 DEF OwnershipInv, LiveConnectionExclusive
  <2>6. s \notin leaked
    BY <2>0, <2>3 DEF LeakInv
  <2>7. OwnershipInv'
    BY <1>14, <2>0, <2>4, <2>5 DEF TypeOK, OwnershipInv, ReleaseFound
  <2>8. LiveConnectionExclusive'
    BY <1>14, <2>4 DEF TypeOK, LiveConnectionExclusive, ReleaseFound, Holding
  <2>9. LeakInv'
    BY <1>14, <2>0, <2>4, <2>6 DEF TypeOK, LeakInv, ReleaseFound
  <2> QED BY <2>1, <2>2, <2>7, <2>8, <2>9
<1>15. CASE ProcessEnds(t)
  BY <1>15, ExclusionRestart DEF ProcessEnds
<1> QED
  BY <1>1, <1>2, <1>3, <1>4, <1>5, <1>6, <1>7, <1>8, <1>9, <1>10, <1>11, <1>12, <1>13,
     <1>14, <1>15 DEF Work, Get, Release

LEMMA ExclusionStep == ExclusionInv /\ [Next]_vars => ExclusionInv'
<1> SUFFICES ASSUME ExclusionInv, [Next]_vars PROVE ExclusionInv'
  OBVIOUS
<1>1. CASE Next
  BY <1>1, ConnectExclusion, ThreadExclusion DEF Next
<1>2. CASE UNCHANGED vars
  BY <1>2 DEF vars, ExclusionInv, TypeOK, MutexInv, OwnershipInv, Booted, InPool, Holding,
     LiveConnectionExclusive, LeakInv, Holds
<1> QED BY <1>1, <1>2

THEOREM ExclusionInvariant == Spec => []ExclusionInv
BY ExclusionInit, ExclusionStep, PTL DEF Spec

(***************************************************************************)
(* Type correctness; in particular the semaphore of the vector is binary.  *)
(***************************************************************************)
THEOREM TypeCorrect == Spec => []TypeOK
BY ExclusionInvariant, PTL DEF ExclusionInv

(***************************************************************************)
(* Whatever the number of threads, the size of the pool and the number of  *)
(* slots that could not be connected, mongoPoolConnectionGet never hands   *)
(* one live connection to two threads.                                     *)
(***************************************************************************)
THEOREM LiveConnectionsExclusive == Spec => []LiveConnectionExclusive
BY ExclusionInvariant, PTL DEF ExclusionInv

-----------------------------------------------------------------------------
(* No live connection is lost.                                             *)

\* Before the pool is up, too: a slot that has a live connection was free
\* from the start.
NoneLost ==
  \A s \in Slots : ~free[s] /\ connection[s] # NULL
                   => s \in leaked \/ \E t \in Thread : Holds(t, s)

LEMMA LossInit == Init => NoneLost
BY DEF Init, NoneLost

LEMMA LossStep == ExclusionInv /\ NoneLost /\ [Next]_vars => NoneLost'
<1> SUFFICES ASSUME ExclusionInv, NoneLost, [Next]_vars,
                    NEW s \in Slots, ~free'[s], connection'[s] # NULL, s \notin leaked'
             PROVE  \E t \in Thread : Holds(t, s)'
  BY DEF NoneLost
<1> USE PoolAssumption DEF ExclusionInv, TypeOK, Slots, Holds, Holding, poolVars
<1>1. CASE ConnectSlot
  BY <1>1 DEF ConnectSlot, NoneLost, MutexInv, Booted
<1>2. ASSUME NEW t \in Thread, Work(t) \/ \E how \in Styles : Call(t, how)
      PROVE  \E u \in Thread : Holds(u, s)'
  <2>1. CASE \E how \in Styles : Call(t, how)
    BY <2>1 DEF Call, NoneLost
  <2>2. CASE GetWaitConnection(t) \/ GetWaitPool(t) \/ GetPost(t)
    BY <2>2 DEF GetWaitConnection, GetWaitPool, GetPost, NoneLost
  <2>3. CASE GetScanFound(t) \/ GetScanNothing(t)
    BY <2>3 DEF GetScanFound, GetScanNothing, NoneLost
  <2>4. CASE GetClaim(t)
    <3>1. ix[t] \in Slots /\ connection[ix[t]] \in { ix[t], NULL }
      BY <2>4 DEF GetClaim, OwnershipInv
    <3>2. CASE s = ix[t]
      BY <2>4, <3>1, <3>2 DEF GetClaim
    <3>3. CASE s # ix[t]
      <4>1. PICK u \in Thread : Holds(u, s)
        BY <2>4, <3>3 DEF GetClaim, NoneLost
      <4> QED BY <2>4, <4>1 DEF GetClaim
    <3> QED BY <3>2, <3>3
  <2>5. CASE ReturnOnNull(t) \/ Finish(t) \/ Nest(t)
    <3>1. PICK u \in Thread : Holds(u, s)
      BY <2>5 DEF ReturnOnNull, Finish, Nest, NoneLost
    <3> QED BY <2>5, <3>1 DEF ReturnOnNull, Finish, Nest, Return, OwnershipInv
  <2>6. CASE ReleaseWaitPool(t) \/ ReleasePost(t)
    <3>1. PICK u \in Thread : Holds(u, s)
      BY <2>6 DEF ReleaseWaitPool, ReleasePost, NoneLost
    <3> QED BY <2>6, <3>1 DEF ReleaseWaitPool, ReleasePost, Return
  <2>7. CASE ReleaseFound(t)
    <3>1. PICK r \in Slots : connection[r] = conn[t] /\ free' = [free EXCEPT ![r] = TRUE]
      BY <2>7 DEF ReleaseFound
    <3>2. s # r /\ ~free[s]
      BY <3>1
    <3>3. PICK u \in Thread : Holds(u, s)
      BY <2>7, <3>2 DEF ReleaseFound, NoneLost
    <3>4. u = t => outer[t] = s
      BY <2>7, <3>1, <3>2, <3>3 DEF ReleaseFound, OwnershipInv
    <3> QED BY <2>7, <3>3, <3>4 DEF ReleaseFound
  <2>8. CASE Leak(t)
    <3>1. PICK u \in Thread : Holds(u, s)
      BY <2>8 DEF Leak, NoneLost
    <3>2. s # conn[t] /\ outer[t] = NULL
      BY <2>8 DEF Leak, OwnershipInv
    <3> QED BY <2>8, <3>1, <3>2 DEF Leak, Return
  <2>9. CASE ProcessEnds(t)
    BY <2>9 DEF ProcessEnds, Restart
  <2> QED BY <1>2, <2>1, <2>2, <2>3, <2>4, <2>5, <2>6, <2>7, <2>8, <2>9 DEF Work, Get, Release
<1>3. CASE UNCHANGED vars
  BY <1>3 DEF vars, NoneLost
<1> QED BY <1>1, <1>2, <1>3 DEF Next

(***************************************************************************)
(* A live connection that is not free is in the hands of a thread, or was  *)
(* leaked by a legacy function that the database failed, whatever the      *)
(* wrappers do with the connections of dead slots and whoever borrows a    *)
(* second connection; and a leaked one is never handed out again.          *)
(***************************************************************************)
THEOREM NoLiveConnectionIsLost == Spec => []NoLiveConnectionLost
<1>1. ExclusionInv /\ NoneLost => NoLiveConnectionLost
  BY DEF NoneLost, NoLiveConnectionLost, ExclusionInv, LeakInv
<1>2. Spec => []NoneLost
  BY LossInit, LossStep, ExclusionInvariant, PTL DEF Spec
<1> QED BY <1>1, <1>2, ExclusionInvariant, PTL

-----------------------------------------------------------------------------
(* The pool implements ConnectionLease.                                    *)

\* The mapping names the thread that has the connection.
MappingNames == \A s \in Slots, t \in Thread : (holderOf[s] = t) <=> Holds(t, s)

LEMMA Mapping == ExclusionInv => MappingNames
<1> SUFFICES ASSUME ExclusionInv, NEW s \in Slots, NEW t \in Thread
             PROVE  (holderOf[s] = t) <=> Holds(t, s)
  BY DEF MappingNames
<1> USE PoolAssumption DEF ExclusionInv, LiveConnectionExclusive, Slots, Holds, TypeOK
<1>1. holderOf[s] = Holder(s)
  BY DEF holderOf
<1>2. CASE \E u \in Thread : Holds(u, s)
  <2>1. Holder(s) \in Thread /\ Holds(Holder(s), s)
    BY <1>2 DEF Holder
  <2> QED BY <1>1, <2>1
<1>3. CASE ~\E u \in Thread : Holds(u, s)
  BY <1>1, <1>3 DEF Holder
<1> QED BY <1>2, <1>3

LEMMA MappingNext == ExclusionInv' => MappingNames'
BY Mapping, PTL

LEMMA HolderTypes ==
  /\ holderOf = [s \in Slots |-> holderOf[s]]
  /\ \A s \in Slots : holderOf[s] \in Thread \cup { NULL }
BY DEF holderOf, Holder

LEMMA HolderTypesNext ==
  /\ holderOf' = [s \in Slots |-> holderOf'[s]]
  /\ \A s \in Slots : holderOf'[s] \in Thread \cup { NULL }
BY DEF holderOf, Holder

\* A slot whose holders are the same before and after a step has kept its holder.
LEMMA HolderKept ==
  ASSUME MappingNames, MappingNames', NEW s \in Slots,
         \A t \in Thread : Holds(t, s)' <=> Holds(t, s)
  PROVE  holderOf'[s] = holderOf[s]
BY PoolAssumption, HolderTypes, HolderTypesNext DEF MappingNames

\* A thread comes to have one more connection, or one less, in a step.
LEMMA HolderGained ==
  ASSUME MappingNames, MappingNames', NEW t \in Thread, NEW c \in Slots,
         \A u \in Thread : ~Holds(u, c), Holds(t, c)',
         \A u \in Thread, s \in Slots : s # c => (Holds(u, s)' <=> Holds(u, s))
  PROVE  holderOf[c] = NULL /\ holderOf' = [holderOf EXCEPT ![c] = t]
<1>1. holderOf[c] = NULL
  BY HolderTypes DEF MappingNames
<1>2. holderOf'[c] = t
  BY DEF MappingNames
<1>3. \A s \in Slots : s # c => holderOf'[s] = holderOf[s]
  BY HolderKept
<1> QED BY <1>1, <1>2, <1>3, HolderTypes, HolderTypesNext

LEMMA HolderGone ==
  ASSUME MappingNames, MappingNames', NEW t \in Thread, NEW c \in Slots,
         Holds(t, c), \A u \in Thread : ~Holds(u, c)',
         \A u \in Thread, s \in Slots : s # c => (Holds(u, s)' <=> Holds(u, s))
  PROVE  holderOf[c] # NULL /\ holderOf' = [holderOf EXCEPT ![c] = NULL]
<1>1. holderOf[c] = t /\ t # NULL
  BY PoolAssumption DEF MappingNames
<1>2. holderOf'[c] = NULL
  BY HolderTypesNext DEF MappingNames
<1>3. \A s \in Slots : s # c => holderOf'[s] = holderOf[s]
  BY HolderKept
<1> QED BY <1>1, <1>2, <1>3, HolderTypes, HolderTypesNext

LEMMA LeaseStep ==
  ExclusionInv /\ ExclusionInv' /\ [Next]_vars => [Lease!Next]_<< holderOf, leaked >>
<1> SUFFICES ASSUME ExclusionInv, ExclusionInv', [Next]_vars
             PROVE  [Lease!Next]_<< holderOf, leaked >>
  OBVIOUS
<1>0. MappingNames /\ MappingNames'
  BY Mapping, MappingNext
<1>s. ASSUME \A s \in Slots, t \in Thread : Holds(t, s)' <=> Holds(t, s), leaked' = leaked
      PROVE  UNCHANGED << holderOf, leaked >>
  BY <1>0, <1>s, HolderKept, HolderTypes, HolderTypesNext
<1>1. CASE ConnectSlot
  BY <1>1, <1>s DEF ConnectSlot, Holds, Holding
<1>2. ASSUME NEW t \in Thread, \E how \in Styles : Call(t, how)
      PROVE  UNCHANGED << holderOf, leaked >>
  BY <1>2, <1>s DEF Call, Holds, Holding, ExclusionInv, TypeOK, poolVars
<1>3. ASSUME NEW t \in Thread, Work(t) PROVE [Lease!Next]_<< holderOf, leaked >>
  <2> USE PoolAssumption DEF ExclusionInv, TypeOK, Slots, Holds, Holding, poolVars
  <2>1. CASE GetWaitConnection(t) \/ GetWaitPool(t) \/ GetPost(t)
    BY <2>1, <1>s DEF GetWaitConnection, GetWaitPool, GetPost
  <2>2. CASE GetScanFound(t) \/ GetScanNothing(t)
    BY <2>2, <1>s DEF GetScanFound, GetScanNothing
  <2>3. CASE GetClaim(t)
    <3>1. ix[t] \in Slots /\ connection[ix[t]] \in { ix[t], NULL } /\ free[ix[t]]
      BY <2>3 DEF GetClaim, OwnershipInv
    <3>2. CASE connection[ix[t]] = NULL
      BY <2>3, <3>1, <3>2, <1>s DEF GetClaim
    <3>3. CASE connection[ix[t]] = ix[t]
      <4>0. PICK c \in Slots : c = ix[t]
        BY <3>1
      <4>1. Holds(t, c)'
        BY <2>3, <3>3, <4>0 DEF GetClaim
      <4>2. \A u \in Thread, s \in Slots : s # c => (Holds(u, s)' <=> Holds(u, s))
        BY <2>3, <3>3, <4>0 DEF GetClaim
      <4>3. (\A u \in Thread : ~Holds(u, c)) /\ c \notin leaked
        BY <3>1, <4>0 DEF OwnershipInv, LeakInv
      <4> HIDE DEF Holds
      <4>4. holderOf[c] = NULL /\ holderOf' = [holderOf EXCEPT ![c] = t]
        BY <1>0, <4>1, <4>2, <4>3, HolderGained
      <4>5. Lease!Lend(c, t)
        BY <2>3, <4>3, <4>4 DEF Lease!Lend, GetClaim
      <4> QED BY <4>5 DEF Lease!Next
    <3> QED BY <3>1, <3>2, <3>3
  <2>4. CASE ReturnOnNull(t) \/ Finish(t) \/ Nest(t)
    BY <2>4, <1>s DEF ReturnOnNull, Finish, Nest, Return, OwnershipInv
  <2>5. CASE ReleaseWaitPool(t) \/ ReleasePost(t)
    BY <2>5, <1>s DEF ReleaseWaitPool, ReleasePost, Return
  <2>6. CASE ReleaseFound(t)
    <3>1. CASE conn[t] = NULL
      BY <2>6, <3>1, <1>s DEF ReleaseFound
    <3>2. CASE conn[t] # NULL
      <4>0. PICK c \in Slots : c = conn[t]
        BY <3>2
      <4>1. c # outer[t] /\ Holds(t, c)
        BY <2>6, <3>2, <4>0 DEF ReleaseFound, LiveConnectionExclusive
      <4>2. \A u \in Thread, s \in Slots : s # c => (Holds(u, s)' <=> Holds(u, s))
        BY <2>6, <4>0 DEF ReleaseFound
      <4>3. \A u \in Thread : ~Holds(u, c)'
        <5>1. \A u \in Thread : u # t => ~Holds(u, c)
          BY <4>1 DEF LiveConnectionExclusive
        <5> QED BY <2>6, <4>0, <4>1, <5>1 DEF ReleaseFound
      <4> HIDE DEF Holds
      <4>4. holderOf[c] # NULL /\ holderOf' = [holderOf EXCEPT ![c] = NULL]
        BY <1>0, <4>1, <4>2, <4>3, HolderGone
      <4>5. Lease!TakeBack(c)
        BY <2>6, <4>4 DEF Lease!TakeBack, ReleaseFound
      <4> QED BY <4>5 DEF Lease!Next
    <3> QED BY <3>1, <3>2
  <2>7. CASE Leak(t)
    <3>0. PICK c \in Slots : c = conn[t]
      BY <2>7 DEF Leak
    <3>1. outer[t] = NULL /\ Holds(t, c)
      BY <2>7, <3>0 DEF Leak, OwnershipInv
    <3>2. \A u \in Thread, s \in Slots : s # c => (Holds(u, s)' <=> Holds(u, s))
      BY <2>7, <3>0, <3>1 DEF Leak, Return
    <3>3. \A u \in Thread : ~Holds(u, c)'
      <4>1. \A u \in Thread : u # t => ~Holds(u, c)
        BY <3>1 DEF LiveConnectionExclusive
      <4> QED BY <2>7, <3>1, <4>1 DEF Leak, Return
    <3> HIDE DEF Holds
    <3>4. holderOf[c] # NULL /\ holderOf' = [holderOf EXCEPT ![c] = NULL]
      BY <1>0, <3>1, <3>2, <3>3, HolderGone
    <3>5. Lease!Lose(c)
      BY <2>7, <3>0, <3>4 DEF Lease!Lose, Leak
    <3> QED BY <3>5 DEF Lease!Next
  <2>8. CASE ProcessEnds(t)
    <3>1. \A u \in Thread, s \in Slots : ~Holds(u, s)'
      BY <2>8 DEF ProcessEnds, Restart
    <3> HIDE DEF Holds
    <3>2. \A s \in Slots : holderOf'[s] = NULL
      BY <1>0, <3>1, HolderTypesNext DEF MappingNames
    <3>3. Lease!Restart
      BY <2>8, <3>2, HolderTypesNext DEF Lease!Restart, ProcessEnds, Restart
    <3> QED BY <3>3 DEF Lease!Next
  <2> QED BY <1>3, <2>1, <2>2, <2>3, <2>4, <2>5, <2>6, <2>7, <2>8 DEF Work, Get, Release
<1>4. CASE UNCHANGED vars
  BY <1>4, <1>s DEF vars, Holds, Holding
<1> QED BY <1>1, <1>2, <1>3, <1>4 DEF Next

(***************************************************************************)
(* The pool does what ConnectionLease says, for every number of threads,   *)
(* of slots and of slots that could not be connected, nested borrows and   *)
(* leaks included.                                                         *)
(***************************************************************************)
THEOREM PoolLends == Spec => LendsConnections
<1>1. Init => Lease!Init
  BY PoolAssumption DEF Init, Lease!Init, holderOf, Holder, Holds, Holding, Slots
<1> QED BY <1>1, LeaseStep, ExclusionInvariant, PTL DEF Spec, LendsConnections, Lease!Spec

-----------------------------------------------------------------------------
(* The counting semaphore counts the free slots.                           *)

Grants    == { t \in Thread : Granted(t) }
FreeSlots == { s \in Slots : free[s] }
OneDead   == \A r, s \in Slots : connection[r] = NULL /\ connection[s] = NULL => r = s

\* The thread that has the dead slot.
HasDead(t) == Holding(t) /\ conn[t] = NULL

\* With one dead slot at most, NULL stands for it: a thread that holds NULL
\* took it from that slot, and is the only one.
Counted ==
  /\ connectionSem + Cardinality(Grants) = Cardinality(FreeSlots)
  /\ \A t, u \in Thread : HasDead(t) /\ HasDead(u) => t = u
  /\ \A t \in Thread : HasDead(t) =>
       /\ \A s \in Slots : connection[s] = NULL => ~free[s]
       /\ \E s \in Slots : connection[s] = NULL

CountInv ==
  /\ ~Booted => \A s \in Slots : s < boot => free[s]
  /\ Booted /\ OneDead => Counted

LEMMA SlotsFinite == IsFiniteSet(Slots) /\ Cardinality(Slots) = PoolSize
BY FS_Interval, PoolAssumption DEF Slots

LEMMA SetsFinite ==
  /\ IsFiniteSet(Grants) /\ Cardinality(Grants) \in Nat
  /\ IsFiniteSet(FreeSlots) /\ Cardinality(FreeSlots) \in Nat
<1>1. Grants \in SUBSET Thread /\ FreeSlots \in SUBSET Slots
  BY DEF Grants, FreeSlots
<1>2. IsFiniteSet(Thread) /\ IsFiniteSet(Slots)
  BY SlotsFinite, PoolAssumption
<1>3. IsFiniteSet(Grants) /\ IsFiniteSet(FreeSlots)
  BY <1>1, <1>2, FS_Subset
<1> QED BY <1>3, FS_CardinalityType

\* How the two sets change in a step.
LEMMA CountJoin == ASSUME NEW t \in Thread, t \notin Grants, Grants' = Grants \cup { t }
                   PROVE  Cardinality(Grants') = Cardinality(Grants) + 1
BY SetsFinite, FS_AddElement

LEMMA CountLeave == ASSUME NEW t \in Grants, Grants' = Grants \ { t }
                    PROVE  Cardinality(Grants') = Cardinality(Grants) - 1
BY SetsFinite, FS_RemoveElement

LEMMA CountFreed == ASSUME NEW s \in Slots, s \notin FreeSlots, FreeSlots' = FreeSlots \cup { s }
                    PROVE  Cardinality(FreeSlots') = Cardinality(FreeSlots) + 1
BY SetsFinite, FS_AddElement

LEMMA CountTaken == ASSUME NEW s \in FreeSlots, FreeSlots' = FreeSlots \ { s }
                    PROVE  Cardinality(FreeSlots') = Cardinality(FreeSlots) - 1
BY SetsFinite, FS_RemoveElement

LEMMA CountBoot == ExclusionInv /\ CountInv /\ ConnectSlot => CountInv'
<1> SUFFICES ASSUME ExclusionInv, CountInv, ConnectSlot PROVE CountInv'
  OBVIOUS
<1> USE PoolAssumption DEF ExclusionInv, TypeOK, Slots, Booted
<1>1. boot \in Slots /\ \A t \in Thread : pc[t] = "idle" /\ pc'[t] = "idle"
  BY DEF ConnectSlot, MutexInv
<1>2. \A s \in Slots : s < boot' => free'[s]
  BY <1>1 DEF ConnectSlot, CountInv
<1>3. ASSUME Booted', OneDead' PROVE Counted'
  <2>1. connectionSem' = PoolSize
    BY <1>3 DEF ConnectSlot
  <2>2. Grants' = {} /\ Cardinality(Grants') = 0
    BY <1>1, FS_EmptySet DEF Grants, Granted
  <2>3. FreeSlots' = Slots
    <3>1. \A s \in Slots : free'[s]
      BY <1>1, <1>2, <1>3 DEF ConnectSlot
    <3> QED BY <3>1 DEF FreeSlots
  <2>4. Cardinality(FreeSlots') = PoolSize
    BY <2>3, SlotsFinite
  <2> QED BY <1>1, <2>1, <2>2, <2>4 DEF Counted, HasDead, Holding
<1> QED BY <1>2, <1>3 DEF CountInv

LEMMA CountWork ==
  ASSUME ExclusionInv, Booted, OneDead, Counted,
         NEW t \in Thread, Work(t) \/ \E how \in Styles : Call(t, how), ~ProcessEnds(t)
  PROVE  Counted'
<1> USE PoolAssumption DEF ExclusionInv, TypeOK, Slots, Booted, poolVars
<1>a. ASSUME UNCHANGED << free, connectionSem, connection >>, Grants' = Grants,
             \A u \in Thread : HasDead(u)' => HasDead(u)
      PROVE  Counted'
  BY <1>a DEF Counted, FreeSlots
<1>1. CASE \E how \in Styles : Call(t, how)
  BY <1>1, <1>a DEF Call, Grants, Granted, HasDead, Holding
<1>2. CASE GetWaitConnection(t)
  <2>1. t \notin Grants /\ Grants' = Grants \cup { t }
    BY <1>2 DEF GetWaitConnection, Grants, Granted
  <2>2. FreeSlots' = FreeSlots
    BY <1>2 DEF GetWaitConnection, FreeSlots
  <2>3. connectionSem' + Cardinality(Grants') = Cardinality(FreeSlots')
    <3>1. Cardinality(Grants') = Cardinality(Grants) + 1
      BY <2>1, CountJoin
    <3> QED BY <1>2, <2>2, <3>1, SetsFinite DEF GetWaitConnection, Counted
  <2> QED BY <1>2, <2>3 DEF GetWaitConnection, Counted, HasDead, Holding
<1>3. CASE GetWaitPool(t) \/ GetScanFound(t) \/ GetPost(t)
  BY <1>3, <1>a DEF GetWaitPool, GetScanFound, GetPost, Grants, Granted, HasDead, Holding
<1>4. ~GetScanNothing(t)
  <2> SUFFICES ASSUME GetScanNothing(t) PROVE FALSE
    OBVIOUS
  <2>1. t \in Grants
    BY DEF GetScanNothing, Grants, Granted
  <2>2. Cardinality(Grants) > 0
    BY <2>1, SetsFinite, FS_EmptySet
  <2>3. FreeSlots = {}
    BY DEF GetScanNothing, FreeSlots
  <2> QED BY <2>2, <2>3, SetsFinite, FS_EmptySet DEF Counted
<1>5. CASE GetClaim(t)
  <2>1. ix[t] \in Slots /\ free[ix[t]] /\ connection[ix[t]] \in { ix[t], NULL }
    BY <1>5 DEF GetClaim, OwnershipInv
  <2>2. t \in Grants /\ Grants' = Grants \ { t }
    BY <1>5 DEF GetClaim, Grants, Granted
  <2>3. ix[t] \in FreeSlots /\ FreeSlots' = FreeSlots \ { ix[t] }
    BY <1>5, <2>1 DEF GetClaim, FreeSlots
  <2>4. connectionSem' + Cardinality(Grants') = Cardinality(FreeSlots')
    <3>1. Cardinality(Grants') = Cardinality(Grants) - 1
      BY <2>2, CountLeave
    <3>2. Cardinality(FreeSlots') = Cardinality(FreeSlots) - 1
      BY <2>3, CountTaken
    <3> QED BY <1>5, <3>1, <3>2, SetsFinite DEF GetClaim, Counted
  <2>5. \A u \in Thread : u # t => (HasDead(u)' <=> HasDead(u))
    BY <1>5 DEF GetClaim, HasDead, Holding
  <2>6. HasDead(t)' <=> connection[ix[t]] = NULL
    BY <1>5, <2>1 DEF GetClaim, HasDead, Holding
  <2>7. connection[ix[t]] = NULL => \A u \in Thread : ~HasDead(u)
    BY <2>1 DEF Counted
  <2>8. \A u, v \in Thread : HasDead(u)' /\ HasDead(v)' => u = v
    BY <2>5, <2>6, <2>7 DEF Counted
  <2>9. ASSUME NEW u \in Thread, HasDead(u)'
        PROVE  /\ \A s \in Slots : connection'[s] = NULL => ~free'[s]
               /\ \E s \in Slots : connection'[s] = NULL
    <3>1. CASE u = t
      BY <1>5, <2>1, <2>6, <2>9, <3>1 DEF GetClaim, OneDead
    <3>2. CASE u # t
      BY <1>5, <2>1, <2>5, <2>9, <3>2 DEF GetClaim, Counted
    <3> QED BY <3>1, <3>2
  <2> QED BY <2>4, <2>8, <2>9 DEF Counted
<1>6. CASE \/ ReturnOnNull(t) \/ Finish(t) \/ Nest(t) \/ Leak(t)
           \/ ReleaseWaitPool(t) \/ ReleasePost(t)
  BY <1>6, <1>a DEF ReturnOnNull, Finish, Nest, Leak, ReleaseWaitPool, ReleasePost, Return,
     Grants, Granted, HasDead, Holding
<1>7. CASE ReleaseFound(t)
  <2>1. PICK s \in Slots : connection[s] = conn[t] /\ free' = [free EXCEPT ![s] = TRUE]
    BY <1>7 DEF ReleaseFound
  <2>2. ~free[s]
    <3>1. CASE conn[t] = NULL
      BY <1>7, <2>1, <3>1 DEF ReleaseFound, Counted, HasDead, Holding
    <3>2. CASE conn[t] # NULL
      BY <1>7, <2>1, <3>2 DEF ReleaseFound, OwnershipInv, Holds, Holding
    <3> QED BY <3>1, <3>2
  <2>3. Grants' = Grants
    BY <1>7 DEF ReleaseFound, Grants, Granted
  <2>4. s \notin FreeSlots /\ FreeSlots' = FreeSlots \cup { s }
    BY <2>1, <2>2 DEF FreeSlots
  <2>5. connectionSem' + Cardinality(Grants') = Cardinality(FreeSlots')
    <3>1. Cardinality(FreeSlots') = Cardinality(FreeSlots) + 1
      BY <2>4, CountFreed
    <3> QED BY <1>7, <2>3, <3>1, SetsFinite DEF ReleaseFound, Counted
  <2>6. \A u \in Thread : HasDead(u)' => HasDead(u) /\ u # t
    BY <1>7 DEF ReleaseFound, HasDead, Holding
  <2>7. ASSUME NEW u \in Thread, HasDead(u)' PROVE connection[s] # NULL
    BY <1>7, <2>1, <2>6, <2>7 DEF ReleaseFound, Counted, HasDead, Holding
  <2> QED BY <1>7, <2>1, <2>5, <2>6, <2>7 DEF ReleaseFound, Counted
<1> QED BY <1>1, <1>2, <1>3, <1>4, <1>5, <1>6, <1>7 DEF Work, Get, Release

LEMMA CountStep == ExclusionInv /\ CountInv /\ [Next]_vars => CountInv'
<1> SUFFICES ASSUME ExclusionInv, CountInv, [Next]_vars PROVE CountInv'
  OBVIOUS
<1>1. CASE ConnectSlot
  BY <1>1, CountBoot
<1>2. ASSUME NEW t \in Thread, Work(t) \/ \E how \in Styles : Call(t, how)
      PROVE  CountInv'
  <2>0. CASE ProcessEnds(t)
    BY <2>0, PoolAssumption DEF ProcessEnds, Restart, CountInv, Booted, Slots
  <2>1. ~ProcessEnds(t) => UNCHANGED << boot, connection >>
    BY <1>2 DEF Work, Get, Release, Call, GetWaitConnection, GetWaitPool, GetScanFound,
       GetScanNothing, GetClaim, GetPost, ReturnOnNull, Finish, Nest, Leak, ReleaseWaitPool,
       ReleaseFound, ReleasePost, poolVars
  <2>2. Booted
    <3> SUFFICES ASSUME ~Booted PROVE FALSE
      OBVIOUS
    <3>1. pc[t] = "idle" /\ ~Booted
      BY DEF ExclusionInv, MutexInv
    <3> QED BY <1>2, <3>1 DEF Work, Get, Release, Call, GetWaitConnection, GetWaitPool,
               GetScanFound, GetScanNothing, GetClaim, GetPost, ReturnOnNull, Finish,
               Nest, Leak, ProcessEnds, ReleaseWaitPool, ReleaseFound, ReleasePost
  <2>3. CASE ~ProcessEnds(t)
    <3>1. OneDead' <=> OneDead
      BY <2>1, <2>3 DEF OneDead
    <3>2. Booted' <=> Booted
      BY <2>1, <2>3 DEF Booted
    <3> QED BY <1>2, <2>2, <2>3, <3>1, <3>2, CountWork DEF CountInv
  <2> QED BY <2>0, <2>3
<1>3. CASE UNCHANGED vars
  <2>1. Booted' = Booted /\ OneDead' = OneDead /\ Counted' = Counted
    BY <1>3 DEF vars, Booted, OneDead, Counted, Grants, Granted, FreeSlots, HasDead, Holding
  <2> QED BY <1>3, <2>1 DEF CountInv, vars
<1> QED BY <1>1, <1>2, <1>3 DEF Next

\* Two elements make a cardinality of two.
LEMMA AtMostOne ==
  ASSUME TypeOK, Cardinality({ s \in Slots : connection[s] = NULL }) <= 1 PROVE OneDead
<1> DEFINE Dead == { s \in Slots : connection[s] = NULL }
<1> SUFFICES ASSUME NEW r \in Dead, NEW s \in Dead, r # s PROVE FALSE
  BY DEF OneDead
<1>1. IsFiniteSet(Dead) /\ Cardinality(Dead) \in Nat
  BY SlotsFinite, FS_Subset, FS_CardinalityType
<1>2. IsFiniteSet({ r }) /\ Cardinality({ r }) = 1
  BY FS_Singleton
<1>3. Cardinality({ r } \cup { s }) = 2
  BY <1>2, FS_AddElement
<1>4. { r } \cup { s } \in SUBSET Dead
  OBVIOUS
<1>5. Cardinality({ r } \cup { s }) <= Cardinality(Dead)
  BY <1>1, <1>4, FS_Subset
<1> QED BY <1>1, <1>3, <1>5

(***************************************************************************)
(* The counting semaphore and the free flags say the same, as long as no   *)
(* more than one slot could not be connected: who passes the semaphore     *)
(* finds a free slot.                                                      *)
(***************************************************************************)
THEOREM SemaphoreIsExact == Spec => []SemaphoreCountsFreeSlots
<1>1. Init => CountInv
  BY PoolAssumption DEF Init, CountInv, Booted, Slots
<1>2. Spec => []CountInv
  BY <1>1, CountStep, ExclusionInvariant, PTL DEF Spec
<1>3. ExclusionInv /\ CountInv => SemaphoreCountsFreeSlots
  <2> SUFFICES ASSUME ExclusionInv, CountInv, Booted,
                      Cardinality({ s \in Slots : connection[s] = NULL }) <= 1
               PROVE  connectionSem + Cardinality(Grants) = Cardinality(FreeSlots)
    BY DEF SemaphoreCountsFreeSlots, Grants, FreeSlots
  <2>1. OneDead
    BY AtMostOne DEF ExclusionInv
  <2> QED BY <2>1 DEF CountInv, Counted
<1> QED BY <1>2, <1>3, ExclusionInvariant, PTL
=============================================================================
