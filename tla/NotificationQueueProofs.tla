----------------------- MODULE NotificationQueueProofs -----------------------
(***************************************************************************)
(* Proofs about NotificationQueue for any number of producers and workers, *)
(* any size of the queue and any bound on the vectors.                     *)
(***************************************************************************)
EXTENDS NotificationQueue, FiniteSetTheorems, TLAPS

\* Adding and removing one element.
LEMMA CardinalityAdd ==
  ASSUME NEW S, IsFiniteSet(S), NEW x, x \notin S
  PROVE  /\ IsFiniteSet(S \cup { x })
         /\ Cardinality(S \cup { x }) = Cardinality(S) + 1
         /\ Cardinality(S) \in Nat
  BY FS_AddElement, FS_CardinalityType

LEMMA CardinalityRemove ==
  ASSUME NEW S, IsFiniteSet(S), NEW x \in S
  PROVE  /\ Cardinality(S \ { x }) = Cardinality(S) - 1
         /\ Cardinality(S) \in Nat /\ Cardinality(S) >= 1
<1>1. IsFiniteSet(S \ { x }) /\ Cardinality(S \ { x }) \in Nat
  BY FS_RemoveElement, FS_CardinalityType
<1>2. Cardinality(S \ { x }) = Cardinality(S) - 1 /\ Cardinality(S) \in Nat
  BY FS_RemoveElement, FS_CardinalityType
<1> QED
  BY <1>1, <1>2

LEMMA NoVectorType == NoVector \in Vector
  BY NotificationQueueAssumption DEF NotificationQueueAssumption, NoVector, Vector

LEMMA VectorLength == \A v \in Vector : v.length \in Nat
  BY NotificationQueueAssumption DEF NotificationQueueAssumption, Vector

LEMMA TypeInit == Init => TypeOK
  BY NoVectorType, NotificationQueueAssumption
  DEF NotificationQueueAssumption, Init, TypeOK, ProducerState, WorkerState

LEMMA TypeNext == TypeOK /\ [Next]_vars => TypeOK'
<1> SUFFICES ASSUME TypeOK, [Next]_vars PROVE TypeOK'
  OBVIOUS
<1> USE DEF TypeOK
<1>1. ASSUME NEW p \in Producer, buildSenderParams(p) PROVE TypeOK'
  <2>1. PICK n \in 0 .. MaxLength :
          producer' = [producer EXCEPT ![p] = [pc |-> "push",
                                               vector |-> [id |-> submitted + 1, length |-> n]]]
    BY <1>1 DEF buildSenderParams
  <2>2. [id |-> submitted + 1, length |-> n] \in Vector
    BY <1>1, NotificationQueueAssumption DEF NotificationQueueAssumption, buildSenderParams, Vector, Ids
  <2>3. producer' \in [Producer -> ProducerState]
    BY <2>1, <2>2 DEF ProducerState
  <2>4. submitted' \in 0 .. MaxVectors
    BY <1>1, NotificationQueueAssumption DEF NotificationQueueAssumption, buildSenderParams
  <2> QED
    BY <1>1, <2>3, <2>4 DEF buildSenderParams, statistics
<1>2. ASSUME NEW p \in Producer, try_push(p) PROVE TypeOK'
  <2>1. producer' \in [Producer -> ProducerState] /\ producer[p].vector \in Vector
    BY <1>2 DEF try_push, ProducerState
  <2>2. CASE Len(queue) < QueueSize
    <3>1. queue' = Append(queue, producer[p].vector) /\ accepted' = Append(accepted, producer[p].vector)
      BY <1>2, <2>2 DEF try_push
    <3>2. queue' \in Seq(Vector) /\ accepted' \in Seq(Vector) /\ Len(queue') = Len(queue) + 1
      BY <2>1, <3>1
    <3>3. Len(queue') <= QueueSize
      BY <2>2, <3>2, NotificationQueueAssumption DEF NotificationQueueAssumption
    <3> QED
      BY <1>2, <2>1, <3>2, <3>3 DEF try_push, statistics
  <2>3. CASE ~(Len(queue) < QueueSize)
    BY <1>2, <2>1, <2>3 DEF try_push, statistics
  <2> QED
    BY <2>2, <2>3
<1>3. ASSUME NEW p \in Producer, notify_one(p) PROVE TypeOK'
  <2>1. producer' \in [Producer -> ProducerState]
    BY <1>3 DEF notify_one, ProducerState
  <2>2. worker' \in [Worker -> WorkerState]
    BY <1>3 DEF notify_one, Waiting, WorkerState
  <2> QED
    BY <1>3, <2>1, <2>2 DEF notify_one, statistics, history
<1>4. ASSUME NEW p \in Producer, incIn(p) \/ incReject(p) PROVE TypeOK'
  <2>1. producer' \in [Producer -> ProducerState]
    BY <1>4, NoVectorType DEF incIn, incReject, ProducerDone, ProducerState
  <2>2. producer[p].vector.length \in Nat
    BY VectorLength DEF ProducerState
  <2>3. noOfIn' \in Nat /\ noOfReject' \in Nat
    BY <1>4, <2>2 DEF incIn, incReject
  <2> QED
    BY <1>4, <2>1, <2>3 DEF incIn, incReject, statistics, history
<1>5. ASSUME NEW w \in Worker,
             WorkerStart(w) \/ PopWait(w) \/ SpuriousWakeup(w) \/ EstimateSize(w) \/ VectorDone(w)
      PROVE  TypeOK'
  <2>1. Len(queue) \in 0 .. QueueSize
    BY NotificationQueueAssumption DEF NotificationQueueAssumption
  <2>2. worker' \in [Worker -> WorkerState]
    <3>1. CASE WorkerStart(w)
      BY <3>1 DEF WorkerStart, WorkerState
    <3>2. CASE PopWait(w)
      BY <3>2 DEF PopWait, WorkerState
    <3>3. CASE SpuriousWakeup(w)
      BY <3>3 DEF SpuriousWakeup, WorkerState
    <3>4. CASE EstimateSize(w)
      BY <2>1, <3>4 DEF EstimateSize, WorkerState
    <3>5. CASE VectorDone(w)
      BY <3>5, NoVectorType DEF VectorDone, WorkerState
    <3> QED
      BY <1>5, <3>1, <3>2, <3>3, <3>4, <3>5
  <2> QED
    BY <1>5, <2>2
    DEF WorkerStart, PopWait, SpuriousWakeup, EstimateSize, VectorDone, statistics, history
<1>6. ASSUME NEW w \in Worker, PopTake(w) PROVE TypeOK'
  <2>1. /\ Head(queue) \in Vector
        /\ Tail(queue) \in Seq(Vector)
        /\ Len(Tail(queue)) = Len(queue) - 1
    BY <1>6 DEF PopTake
  <2>2. worker' \in [Worker -> WorkerState]
    BY <1>6, <2>1 DEF PopTake, WorkerState
  <2>3. Len(queue') <= QueueSize
    BY <1>6, <2>1, NotificationQueueAssumption DEF NotificationQueueAssumption, PopTake
  <2> QED
    BY <1>6, <2>1, <2>2, <2>3 DEF PopTake, statistics, history
<1>7. ASSUME NEW w \in Worker,
             incOut(w) \/ addTimeInQWithSize(w) \/ SendNotification(w) \/ CountSent(w)
      PROVE  TypeOK'
  <2>1. worker' \in [Worker -> WorkerState]
    <3>1. CASE incOut(w)
      BY <3>1 DEF incOut, WorkerState
    <3>2. CASE addTimeInQWithSize(w)
      <4>1. 0 \in 0 .. QueueSize
        BY NotificationQueueAssumption DEF NotificationQueueAssumption
      <4>2. [worker[w] EXCEPT !.pc = "send", !.size = 0] \in WorkerState
        BY <4>1 DEF WorkerState
      <4> QED
        BY <3>2, <4>2 DEF addTimeInQWithSize
    <3>3. CASE SendNotification(w)
      BY <3>3 DEF SendNotification, WorkerState
    <3>4. CASE CountSent(w)
      <4>1. worker[w] \in WorkerState /\ worker[w].ix + 1 \in Nat
        BY DEF WorkerState
      <4>2. [worker[w] EXCEPT !.pc = "loop", !.ix = worker[w].ix + 1] \in WorkerState
        BY <4>1 DEF WorkerState
      <4> QED
        BY <3>4, <4>2 DEF CountSent
    <3> QED
      BY <1>7, <3>1, <3>2, <3>3, <3>4
  <2>2. reportedSize' \in 0 .. QueueSize
    BY <1>7 DEF incOut, addTimeInQWithSize, SendNotification, CountSent, WorkerState, statistics
  <2>3. noOfOut' \in Nat /\ noOfSentOK' \in Nat /\ noOfSentError' \in Nat
    BY <1>7 DEF incOut, addTimeInQWithSize, SendNotification, CountSent, statistics
  <2>4. attempts' \in [Ids -> Nat]
    <3>1. CASE SendNotification(w)
      <4> DEFINE id == worker[w].vector.id
      <4>1. attempts' = [attempts EXCEPT ![id] = attempts[id] + 1]
        BY <3>1 DEF SendNotification
      <4> HIDE DEF id
      <4>2. CASE id \in Ids
        BY <4>1, <4>2
      <4>3. CASE id \notin Ids
        BY <4>1, <4>3
      <4> QED
        BY <4>2, <4>3
    <3>2. CASE ~SendNotification(w)
      BY <1>7, <3>2 DEF incOut, addTimeInQWithSize, CountSent, history
    <3> QED
      BY <3>1, <3>2
  <2> QED
    BY <1>7, <2>1, <2>2, <2>3, <2>4
    DEF incOut, addTimeInQWithSize, SendNotification, CountSent, statistics, history
<1>8. CASE UNCHANGED vars
  BY <1>8 DEF vars, statistics, history
<1> QED
  BY <1>1, <1>2, <1>3, <1>4, <1>5, <1>6, <1>7, <1>8 DEF Next, Enqueue, workerFunc

\* The variables keep their types and the queue never holds more vectors than its
\* configured size, whatever the number of threads.
THEOREM QueueTypeCorrect == Spec => []TypeOK
  BY TypeInit, TypeNext, PTL DEF Spec

-----------------------------------------------------------------------------
LEMMA ThreadSetsFinite ==
  /\ IsFiniteSet(Notifying) /\ IsFiniteSet(Looking)
  /\ Cardinality(Notifying) \in Nat /\ Cardinality(Looking) \in Nat
<1>1. Notifying \subseteq Producer /\ Looking \subseteq Worker
  BY DEF Notifying, Looking
<1>2. IsFiniteSet(Notifying) /\ IsFiniteSet(Looking)
  BY <1>1, FS_Subset, NotificationQueueAssumption DEF NotificationQueueAssumption
<1> QED
  BY <1>2, FS_CardinalityType

LEMMA EnoughWakeupsInit == Init => EnoughWakeups
  BY DEF Init, EnoughWakeups, Waiting

\* A step that leaves the queue and the signals to be sent alone, makes nobody wait
\* and takes nobody away from the queue.
LEMMA WakeupsKept ==
  ASSUME EnoughWakeups, TypeOK, TypeOK',
         queue' = queue, Notifying' = Notifying, Waiting' \subseteq Waiting,
         Looking' = Looking \/ \E w \in Worker : w \notin Looking /\ Looking' = Looking \cup { w }
  PROVE  EnoughWakeups'
<1>1. CASE Looking' = Looking
  BY <1>1 DEF EnoughWakeups
<1>2. CASE \E w \in Worker : w \notin Looking /\ Looking' = Looking \cup { w }
  <2>1. PICK w \in Worker : w \notin Looking /\ Looking' = Looking \cup { w }
    BY <1>2
  <2>2. Cardinality(Looking') = Cardinality(Looking) + 1
    BY <2>1, ThreadSetsFinite, CardinalityAdd
  <2>3. Len(queue) \in Nat
    BY DEF TypeOK
  <2> QED
    BY <2>2, <2>3, ThreadSetsFinite DEF EnoughWakeups
<1> QED
  BY <1>1, <1>2

LEMMA EnoughWakeupsNext == TypeOK /\ TypeOK' /\ EnoughWakeups /\ [Next]_vars => EnoughWakeups'
<1> SUFFICES ASSUME TypeOK, TypeOK', EnoughWakeups, [Next]_vars PROVE EnoughWakeups'
  OBVIOUS
<1>0. Len(queue) \in Nat /\ Len(queue') \in Nat
  BY DEF TypeOK
<1>1. ASSUME NEW p \in Producer, buildSenderParams(p) \/ incIn(p) \/ incReject(p)
      PROVE  EnoughWakeups'
  <2>1. producer[p].pc # "notify" /\ producer'[p].pc # "notify"
    BY <1>1 DEF buildSenderParams, incIn, incReject, ProducerDone, TypeOK
  <2>2. \A q \in Producer \ { p } : producer'[q] = producer[q]
    BY <1>1 DEF buildSenderParams, incIn, incReject, ProducerDone, TypeOK
  <2>3. Notifying' = Notifying
    BY <2>1, <2>2 DEF Notifying
  <2>4. queue' = queue /\ worker' = worker
    BY <1>1 DEF buildSenderParams, incIn, incReject
  <2> QED
    BY <2>3, <2>4 DEF EnoughWakeups, Waiting, Looking
<1>2. ASSUME NEW p \in Producer, try_push(p) PROVE EnoughWakeups'
  <2>1. Waiting' = Waiting /\ Looking' = Looking
    BY <1>2 DEF try_push, Waiting, Looking
  <2>2. CASE Len(queue) < QueueSize
    <3>0. /\ producer[p].pc = "push" /\ producer'[p].pc = "notify"
          /\ \A q \in Producer \ { p } : producer'[q] = producer[q]
      BY <1>2, <2>2 DEF try_push, TypeOK, ProducerState
    <3>1. Notifying' = Notifying \cup { p } /\ p \notin Notifying
      BY <3>0 DEF Notifying
    <3>2. Cardinality(Notifying') = Cardinality(Notifying) + 1
      BY <3>1, ThreadSetsFinite, CardinalityAdd
    <3>3. producer[p].vector \in Vector
      BY DEF TypeOK, ProducerState
    <3>4. Len(queue') = Len(queue) + 1
      BY <1>2, <2>2, <3>3 DEF try_push, TypeOK
    <3> QED
      BY <1>0, <2>1, <3>2, <3>4, ThreadSetsFinite DEF EnoughWakeups
  <2>3. CASE ~(Len(queue) < QueueSize)
    <3>0. /\ producer[p].pc = "push" /\ producer'[p].pc = "reject" /\ queue' = queue
          /\ \A q \in Producer \ { p } : producer'[q] = producer[q]
      BY <1>2, <2>3 DEF try_push, TypeOK, ProducerState
    <3>1. Notifying' = Notifying /\ queue' = queue
      BY <3>0 DEF Notifying
    <3> QED
      BY <2>1, <3>1 DEF EnoughWakeups
  <2> QED
    BY <2>2, <2>3
<1>3. ASSUME NEW p \in Producer, notify_one(p) PROVE EnoughWakeups'
  <2>1. CASE Waiting = {}
    BY <1>3, <2>1 DEF notify_one, EnoughWakeups, Waiting
  <2>2. CASE Waiting # {}
    <3>1. PICK w \in Waiting : worker' = [worker EXCEPT ![w].pc = "pop"]
      BY <1>3, <2>2 DEF notify_one
    <3>2. Looking' = Looking \cup { w } /\ w \notin Looking
      BY <3>1 DEF Looking, Waiting, TypeOK, WorkerState
    <3>3. Notifying' = Notifying \ { p } /\ p \in Notifying
      BY <1>3 DEF notify_one, Notifying, TypeOK
    <3>4. Cardinality(Looking') = Cardinality(Looking) + 1
      BY <3>2, ThreadSetsFinite, CardinalityAdd
    <3>5. Cardinality(Notifying') = Cardinality(Notifying) - 1
      BY <3>3, ThreadSetsFinite, CardinalityRemove
    <3>6. queue' = queue
      BY <1>3 DEF notify_one
    <3> QED
      BY <1>0, <2>2, <3>4, <3>5, <3>6, ThreadSetsFinite DEF EnoughWakeups
  <2> QED
    BY <2>1, <2>2
<1>4. ASSUME NEW w \in Worker, WorkerStart(w) \/ SpuriousWakeup(w) \/ VectorDone(w)
      PROVE  EnoughWakeups'
  <2>1. queue' = queue /\ Notifying' = Notifying
    BY <1>4 DEF WorkerStart, SpuriousWakeup, VectorDone, Notifying
  <2>2. /\ \A v \in Worker \ { w } : worker'[v] = worker[v]
        /\ worker[w].pc # "pop" /\ worker'[w].pc # "wait"
    <3>1. CASE WorkerStart(w)
      BY <3>1 DEF WorkerStart, TypeOK, WorkerState
    <3>2. CASE SpuriousWakeup(w)
      BY <3>2 DEF SpuriousWakeup, TypeOK, WorkerState
    <3>3. CASE VectorDone(w)
      BY <3>3 DEF VectorDone, TypeOK, WorkerState
    <3> QED
      BY <1>4, <3>1, <3>2, <3>3
  <2>3. /\ Waiting' \subseteq Waiting
        /\ w \notin Looking
        /\ Looking' = Looking \/ Looking' = Looking \cup { w }
    BY <2>2 DEF Waiting, Looking
  <2> QED
    BY <2>1, <2>2, <2>3, WakeupsKept
<1>5. ASSUME NEW w \in Worker, PopWait(w) PROVE EnoughWakeups'
  <2>1. Len(queue') = 0
    BY <1>5 DEF PopWait
  <2>2. /\ Cardinality(Notifying') \in Nat
        /\ Cardinality(Looking') \in Nat
    <3>1. Notifying' \subseteq Producer /\ Looking' \subseteq Worker
      BY DEF Notifying, Looking
    <3> QED
      BY <3>1, FS_Subset, FS_CardinalityType, NotificationQueueAssumption
      DEF NotificationQueueAssumption
  <2> QED
    BY <2>1, <2>2 DEF EnoughWakeups
<1>6. ASSUME NEW w \in Worker, PopTake(w) PROVE EnoughWakeups'
  <2>1. Looking' = Looking \ { w } /\ w \in Looking
    BY <1>6 DEF PopTake, Looking, TypeOK, WorkerState
  <2>2. Waiting' = Waiting /\ Notifying' = Notifying
    BY <1>6 DEF PopTake, Waiting, Notifying, TypeOK, WorkerState
  <2>3. Cardinality(Looking') = Cardinality(Looking) - 1
    BY <2>1, ThreadSetsFinite, CardinalityRemove
  <2>4. Len(queue') = Len(queue) - 1
    BY <1>6 DEF PopTake, TypeOK
  <2> QED
    BY <1>0, <2>2, <2>3, <2>4, ThreadSetsFinite DEF EnoughWakeups
<1>7. ASSUME NEW w \in Worker,
             incOut(w) \/ EstimateSize(w) \/ addTimeInQWithSize(w) \/ SendNotification(w) \/ CountSent(w)
      PROVE  EnoughWakeups'
  <2>1. queue' = queue /\ Notifying' = Notifying
    BY <1>7
    DEF incOut, EstimateSize, addTimeInQWithSize, SendNotification, CountSent, Notifying
  <2>2. /\ worker[w].pc \notin { "pop", "wait" } /\ worker'[w].pc \notin { "pop", "wait" }
        /\ \A v \in Worker \ { w } : worker'[v] = worker[v]
    <3>1. CASE incOut(w)
      BY <3>1 DEF incOut, TypeOK, WorkerState
    <3>2. CASE EstimateSize(w)
      BY <3>2 DEF EstimateSize, TypeOK, WorkerState
    <3>3. CASE addTimeInQWithSize(w)
      BY <3>3 DEF addTimeInQWithSize, TypeOK, WorkerState
    <3>4. CASE SendNotification(w)
      BY <3>4 DEF SendNotification, TypeOK, WorkerState
    <3>5. CASE CountSent(w)
      BY <3>5 DEF CountSent, TypeOK, WorkerState
    <3> QED
      BY <1>7, <3>1, <3>2, <3>3, <3>4, <3>5
  <2>3. Waiting' = Waiting /\ Looking' = Looking
    BY <2>2 DEF Waiting, Looking
  <2> QED
    BY <2>1, <2>3 DEF EnoughWakeups
<1>8. CASE UNCHANGED vars
  BY <1>8 DEF vars, EnoughWakeups, Waiting, Notifying, Looking
<1> QED
  BY <1>1, <1>2, <1>3, <1>4, <1>5, <1>6, <1>7, <1>8 DEF Next, Enqueue, workerFunc

\* With a vector in the queue, no signal to be sent and not all workers gone, some
\* worker neither waits nor has exited.
LEMMA EnoughWakeupsSuffice == TypeOK /\ EnoughWakeups => NoLostWakeup
<1> SUFFICES ASSUME TypeOK, EnoughWakeups, queue # << >>,
                    Waiting \cup Exited = Worker, Notifying = {}
             PROVE  Exited = Worker
  BY DEF NoLostWakeup
<1>1. Looking = {}
  BY DEF Looking, Waiting, Exited
<1>2. Cardinality(Looking) = 0 /\ Cardinality(Notifying) = 0
  BY <1>1, FS_EmptySet
<1>3. Len(queue) > 0
  BY DEF TypeOK
<1>4. Waiting = {}
  BY <1>2, <1>3 DEF EnoughWakeups, TypeOK
<1> QED
  BY <1>4

\* As long as a worker waits on the condition variable, the signals still to come and
\* the workers about to look at the queue are enough for what is in it.
THEOREM WakeupsSuffice == Spec => []EnoughWakeups
<1>1. Init => TypeOK /\ EnoughWakeups
  BY TypeInit, EnoughWakeupsInit
<1>2. (TypeOK /\ EnoughWakeups) /\ [Next]_vars => (TypeOK /\ EnoughWakeups)'
  BY TypeNext, EnoughWakeupsNext
<1> QED
  BY <1>1, <1>2, PTL DEF Spec

\* SyncQOverflow loses no wakeup, for any number of producers and workers, although
\* try_push signals after it has released the mutex and any worker may overtake the
\* one that is woken.
THEOREM QueueLosesNoWakeup == Spec => []NoLostWakeup
<1>1. TypeOK /\ EnoughWakeups => NoLostWakeup
  BY EnoughWakeupsSuffice
<1> QED
  BY <1>1, QueueTypeCorrect, WakeupsSuffice, PTL
-----------------------------------------------------------------------------
(***************************************************************************)
(* Out and sent.                                                           *)
(***************************************************************************)
LEMMA SendingFinite == IsFiniteSet(Sending) /\ Cardinality(Sending) \in Nat
<1>1. Sending \subseteq Worker
  BY DEF Sending
<1>2. IsFiniteSet(Sending)
  BY <1>1, FS_Subset, NotificationQueueAssumption DEF NotificationQueueAssumption
<1> QED
  BY <1>2, FS_CardinalityType

LEMMA OutSentNext == TypeOK /\ OutSentBalance /\ [Next]_vars => OutSentBalance'
<1> SUFFICES ASSUME TypeOK, OutSentBalance, [Next]_vars PROVE OutSentBalance'
  OBVIOUS
<1>0. noOfOut \in Nat /\ noOfSentOK \in Nat /\ noOfSentError \in Nat
  BY DEF TypeOK
<1>1. ASSUME NEW p \in Producer, buildSenderParams(p) \/ try_push(p) \/ incIn(p) \/ incReject(p)
      PROVE  OutSentBalance'
  BY <1>1 DEF buildSenderParams, try_push, incIn, incReject, OutSentBalance, Sending, statistics
<1>2. ASSUME NEW p \in Producer, notify_one(p) PROVE OutSentBalance'
  <2>1. Sending' = Sending
    <3>1. CASE worker' = worker
      BY <3>1 DEF Sending
    <3>2. CASE worker' # worker
      <4>1. PICK w \in Waiting : worker' = [worker EXCEPT ![w].pc = "pop"]
        BY <1>2, <3>2 DEF notify_one
      <4> QED
        BY <4>1 DEF Sending, Waiting, TypeOK, WorkerState
    <3> QED
      BY <3>1, <3>2
  <2> QED
    BY <1>2, <2>1 DEF notify_one, OutSentBalance, statistics
<1>3. ASSUME NEW w \in Worker, incOut(w) PROVE OutSentBalance'
  <2>1. Sending' = Sending \cup { w } /\ w \notin Sending
    BY <1>3 DEF incOut, Sending, TypeOK, WorkerState
  <2>2. Cardinality(Sending') = Cardinality(Sending) + 1
    BY <2>1, SendingFinite, CardinalityAdd
  <2>3. noOfOut' = noOfOut + 1 /\ noOfSentOK' = noOfSentOK /\ noOfSentError' = noOfSentError
    BY <1>3 DEF incOut
  <2> QED
    BY <2>2, <2>3, <1>0, SendingFinite DEF OutSentBalance
<1>4. ASSUME NEW w \in Worker, CountSent(w) PROVE OutSentBalance'
  <2>1. Sending' = Sending \ { w } /\ w \in Sending
    BY <1>4 DEF CountSent, Sending, TypeOK, WorkerState
  <2>2. Cardinality(Sending') = Cardinality(Sending) - 1
    BY <2>1, SendingFinite, CardinalityRemove
  <2>3. /\ noOfOut' = noOfOut
        /\ \/ noOfSentOK' = noOfSentOK + 1 /\ noOfSentError' = noOfSentError
           \/ noOfSentOK' = noOfSentOK /\ noOfSentError' = noOfSentError + 1
    BY <1>0, <1>4 DEF CountSent
  <2>4. Cardinality(Sending) \in Nat /\ noOfOut = noOfSentOK + noOfSentError + Cardinality(Sending)
    BY SendingFinite DEF OutSentBalance
  <2>5. ASSUME NEW c \in Nat, noOfOut = noOfSentOK + noOfSentError + c
        PROVE  noOfOut' = noOfSentOK' + noOfSentError' + (c - 1)
    BY <2>3, <2>5, <1>0
  <2> QED
    BY <2>2, <2>4, <2>5 DEF OutSentBalance
<1>5. ASSUME NEW w \in Worker,
             \/ WorkerStart(w) \/ PopWait(w) \/ PopTake(w) \/ EstimateSize(w) \/ VectorDone(w)
             \/ addTimeInQWithSize(w) \/ SendNotification(w) \/ SpuriousWakeup(w)
      PROVE  OutSentBalance'
  <2>1. /\ \A v \in Worker \ { w } : worker'[v] = worker[v]
        /\ w \in Sending <=> w \in Sending'
    <3>1. CASE WorkerStart(w)
      BY <3>1 DEF WorkerStart, TypeOK, WorkerState, Sending
    <3>2. CASE PopWait(w)
      BY <3>2 DEF PopWait, TypeOK, WorkerState, Sending
    <3>3. CASE PopTake(w)
      BY <3>3 DEF PopTake, TypeOK, WorkerState, Sending
    <3>4. CASE EstimateSize(w)
      BY <3>4 DEF EstimateSize, TypeOK, WorkerState, Sending
    <3>5. CASE VectorDone(w)
      BY <3>5 DEF VectorDone, TypeOK, WorkerState, Sending
    <3>6. CASE addTimeInQWithSize(w)
      BY <3>6 DEF addTimeInQWithSize, TypeOK, WorkerState, Sending
    <3>7. CASE SendNotification(w)
      BY <3>7 DEF SendNotification, TypeOK, WorkerState, Sending
    <3>8. CASE SpuriousWakeup(w)
      BY <3>8 DEF SpuriousWakeup, TypeOK, WorkerState, Sending
    <3> QED
      BY <1>5, <3>1, <3>2, <3>3, <3>4, <3>5, <3>6, <3>7, <3>8
  <2>2. Sending' = Sending
    BY <2>1 DEF Sending
  <2>3. UNCHANGED << noOfOut, noOfSentOK, noOfSentError >>
    BY <1>5 DEF WorkerStart, PopWait, PopTake, EstimateSize, VectorDone, addTimeInQWithSize,
                SendNotification, SpuriousWakeup, statistics
  <2> QED
    BY <2>2, <2>3 DEF OutSentBalance
<1>6. CASE UNCHANGED vars
  BY <1>6 DEF vars, statistics, OutSentBalance, Sending
<1> QED
  BY <1>1, <1>2, <1>3, <1>4, <1>5, <1>6 DEF Next, Enqueue, workerFunc

\* What QueueStatistics says has gone out is what it says has been sent, well or badly,
\* and one notification for every worker that is at it, at any moment.
THEOREM OutIsSentOrInHand == Spec => []OutSentBalance
<1>1. Init => OutSentBalance
  <2>1. Init => Sending = {}
    BY DEF Init, Sending
  <2> QED
    BY <2>1, FS_EmptySet DEF Init, OutSentBalance
<1>2. (TypeOK /\ OutSentBalance) /\ [Next]_vars => (TypeOK /\ OutSentBalance)'
  BY TypeNext, OutSentNext
<1> QED
  BY <1>1, <1>2, TypeInit, PTL DEF Spec
-----------------------------------------------------------------------------
(***************************************************************************)
(* Every notification is attempted once.  The queue is the end of the      *)
(* sequence of accepted vectors: what comes before has been taken.         *)
(***************************************************************************)
Holding(w) == w \in Sending \/ worker[w].pc = "loop"

Taken == Len(accepted) - Len(queue)

\* Where the vectors are, and that their identifiers are unique.
PlaceInv ==
  /\ Taken \in Nat
  /\ \A j \in 1 .. Len(queue) : queue[j] = accepted[Taken + j]
  /\ \A k \in 1 .. Len(accepted) : accepted[k].id \in 1 .. submitted
  /\ \A k, j \in 1 .. Len(accepted) : accepted[k].id = accepted[j].id => k = j
  /\ \A p \in Producer : producer[p].pc = "push" =>
       /\ producer[p].vector.id \in 1 .. submitted
       /\ \A k \in 1 .. Len(accepted) : accepted[k].id # producer[p].vector.id
  /\ \A p, q \in Producer :
       /\ producer[p].pc = "push" /\ producer[q].pc = "push"
       /\ producer[p].vector.id = producer[q].vector.id
       => p = q
  /\ \A w \in Worker :
       IF Holding(w) THEN \E k \in 1 .. Taken : worker[w].vector = accepted[k]
       ELSE worker[w].vector = NoVector
  /\ \A w, x \in Worker :
       Holding(w) /\ Holding(x) /\ worker[w].vector.id = worker[x].vector.id => w = x

\* How often a notification of them has been attempted.
CountInv ==
  /\ \A i \in Ids : (\A k \in 1 .. Taken : accepted[k].id # i) => attempts[i] = 0
  /\ \A w \in Worker : Holding(w) =>
       /\ worker[w].ix <= worker[w].vector.length
       /\ w \in Sending => worker[w].ix < worker[w].vector.length
       /\ attempts[worker[w].vector.id] =
            worker[w].ix + IF worker[w].pc \in { "incSentOK", "incSentError" } THEN 1 ELSE 0
  /\ \A k \in 1 .. Taken :
       (\A w \in Worker : worker[w].vector.id # accepted[k].id)
         => attempts[accepted[k].id] = accepted[k].length

\* The worker's part of a step: worker w goes on, the others stay.
WorkerMoves(w, pc, ix, vector) ==
  /\ worker'[w].pc = pc /\ worker'[w].ix = ix /\ worker'[w].vector = vector
  /\ \A x \in Worker \ { w } : worker'[x] = worker[x]

LEMMA WorkerStepIs ==
  ASSUME TypeOK, NEW w \in Worker
  PROVE  LET old == worker[w] IN
         /\ WorkerStart(w) =>
              \E pc \in { "pop", "exited" } : WorkerMoves(w, pc, old.ix, old.vector)
         /\ PopWait(w) => WorkerMoves(w, "wait", old.ix, old.vector)
         /\ SpuriousWakeup(w) => WorkerMoves(w, "pop", old.ix, old.vector)
         /\ PopTake(w) => WorkerMoves(w, "loop", 0, Head(queue))
         /\ incOut(w) => WorkerMoves(w, "size", old.ix, old.vector)
         /\ EstimateSize(w) => WorkerMoves(w, "time", old.ix, old.vector)
         /\ addTimeInQWithSize(w) => WorkerMoves(w, "send", old.ix, old.vector)
         /\ SendNotification(w) =>
              \E pc \in { "incSentOK", "incSentError" } : WorkerMoves(w, pc, old.ix, old.vector)
         /\ CountSent(w) => WorkerMoves(w, "loop", old.ix + 1, old.vector)
         /\ VectorDone(w) => WorkerMoves(w, "pop", 0, NoVector)
<1> USE DEF TypeOK, WorkerState, WorkerMoves
<1>1. WorkerStart(w) => \E pc \in { "pop", "exited" } : WorkerMoves(w, pc, worker[w].ix, worker[w].vector)
  BY DEF WorkerStart
<1>2. PopWait(w) => WorkerMoves(w, "wait", worker[w].ix, worker[w].vector)
  BY DEF PopWait
<1>3. SpuriousWakeup(w) => WorkerMoves(w, "pop", worker[w].ix, worker[w].vector)
  BY DEF SpuriousWakeup
<1>4. PopTake(w) => WorkerMoves(w, "loop", 0, Head(queue))
  BY DEF PopTake
<1>5. incOut(w) => WorkerMoves(w, "size", worker[w].ix, worker[w].vector)
  BY DEF incOut
<1>6. EstimateSize(w) => WorkerMoves(w, "time", worker[w].ix, worker[w].vector)
  BY DEF EstimateSize
<1>7. addTimeInQWithSize(w) => WorkerMoves(w, "send", worker[w].ix, worker[w].vector)
  BY DEF addTimeInQWithSize
<1>8. SendNotification(w) => \E pc \in { "incSentOK", "incSentError" } :
                               WorkerMoves(w, pc, worker[w].ix, worker[w].vector)
  BY DEF SendNotification
<1>9. CountSent(w) => WorkerMoves(w, "loop", worker[w].ix + 1, worker[w].vector)
  BY DEF CountSent
<1>10. VectorDone(w) => WorkerMoves(w, "pop", 0, NoVector)
  BY DEF VectorDone
<1> QED
  BY <1>1, <1>2, <1>3, <1>4, <1>5, <1>6, <1>7, <1>8, <1>9, <1>10

\* A step that moves no vector.
LEMMA PlaceKept ==
  ASSUME TypeOK, PlaceInv, queue' = queue, accepted' = accepted, submitted' = submitted,
         \A p \in Producer : producer'[p].pc = "push" => producer'[p] = producer[p],
         \A w \in Worker : worker'[w].vector = worker[w].vector /\ (Holding(w)' <=> Holding(w))
  PROVE  PlaceInv'
<1>1. Taken' = Taken
  BY DEF Taken
<1> QED
  BY <1>1 DEF PlaceInv

LEMMA PlaceNext == TypeOK /\ PlaceInv /\ [Next]_vars => PlaceInv'
<1> SUFFICES ASSUME TypeOK, PlaceInv, [Next]_vars PROVE PlaceInv'
  OBVIOUS
<1>0. /\ queue \in Seq(Vector) /\ accepted \in Seq(Vector) /\ submitted \in Nat
      /\ Len(queue) \in Nat /\ Len(accepted) \in Nat
  BY NotificationQueueAssumption DEF TypeOK, NotificationQueueAssumption
<1>1. ASSUME NEW p \in Producer, buildSenderParams(p) PROVE PlaceInv'
  <2>1. /\ producer'[p].vector.id = submitted + 1 /\ submitted' = submitted + 1
        /\ \A q \in Producer \ { p } : producer'[q] = producer[q]
        /\ UNCHANGED << queue, worker, accepted >>
    BY <1>1 DEF buildSenderParams, TypeOK
  <2>2. Taken' = Taken /\ \A w \in Worker : Holding(w)' <=> Holding(w)
    BY <2>1 DEF Taken, Holding, Sending
  <2>3. \A k \in 1 .. Len(accepted) : accepted[k].id \in 1 .. submitted' /\ accepted[k].id # submitted + 1
    BY <1>0, <2>1 DEF PlaceInv
  <2>4. ASSUME NEW q \in Producer, producer'[q].pc = "push"
        PROVE  /\ producer'[q].vector.id \in 1 .. submitted'
               /\ \A k \in 1 .. Len(accepted) : accepted[k].id # producer'[q].vector.id
    <3>1. CASE q = p
      BY <3>1, <1>0, <2>1, <2>3
    <3>2. CASE q # p
      <4>1. producer[q].pc = "push" /\ producer'[q] = producer[q]
        BY <3>2, <2>1, <2>4
      <4> QED
        BY <4>1, <1>0, <2>1 DEF PlaceInv
    <3> QED
      BY <3>1, <3>2
  <2>5. \A q \in Producer \ { p } : producer'[q].pc = "push" => producer'[q].vector.id # submitted + 1
    BY <1>0, <2>1 DEF PlaceInv
  <2>6. \A q, r \in Producer :
          /\ producer'[q].pc = "push" /\ producer'[r].pc = "push"
          /\ producer'[q].vector.id = producer'[r].vector.id
          => q = r
    BY <2>1, <2>5 DEF PlaceInv
  <2> QED
    BY <2>1, <2>2, <2>3, <2>4, <2>6 DEF PlaceInv
<1>2. ASSUME NEW p \in Producer, try_push(p), Len(queue) < QueueSize PROVE PlaceInv'
  <2> DEFINE v == producer[p].vector
  <2>1. /\ producer[p].pc = "push" /\ queue' = Append(queue, v) /\ accepted' = Append(accepted, v)
        /\ UNCHANGED << worker, submitted >> /\ v \in Vector
        /\ producer'[p].pc = "notify" /\ \A q \in Producer \ { p } : producer'[q] = producer[q]
    BY <1>2 DEF try_push, TypeOK, ProducerState
  <2> HIDE DEF v
  <2>2. /\ Len(queue') = Len(queue) + 1 /\ Len(accepted') = Len(accepted) + 1 /\ Taken' = Taken
        /\ \A k \in 1 .. Len(accepted) : accepted'[k] = accepted[k]
        /\ \A k \in 1 .. Len(queue) : queue'[k] = queue[k]
        /\ accepted'[Len(accepted) + 1] = v /\ queue'[Len(queue) + 1] = v
    BY <1>0, <2>1 DEF Taken
  <2>3. v.id \in 1 .. submitted /\ \A k \in 1 .. Len(accepted) : accepted[k].id # v.id
    BY <2>1 DEF PlaceInv, v
  <2>4. \A j \in 1 .. Len(queue') : queue'[j] = accepted'[Taken' + j]
    <3> SUFFICES ASSUME NEW j \in 1 .. Len(queue') PROVE queue'[j] = accepted'[Taken + j]
      BY <2>2
    <3>1. CASE j = Len(queue) + 1
      BY <3>1, <1>0, <2>2 DEF Taken
    <3>2. CASE j \in 1 .. Len(queue)
      <4>1. Taken + j \in 1 .. Len(accepted)
        BY <3>2, <1>0 DEF Taken, PlaceInv
      <4> QED
        BY <4>1, <3>2, <2>2 DEF PlaceInv
    <3> QED
      BY <3>1, <3>2, <1>0, <2>2
  <2>5. \A k \in 1 .. Len(accepted') : k \in 1 .. Len(accepted) \/ k = Len(accepted) + 1
    BY <1>0, <2>2
  <2>6. /\ \A k \in 1 .. Len(accepted') : accepted'[k].id \in 1 .. submitted
        /\ \A k, j \in 1 .. Len(accepted') : accepted'[k].id = accepted'[j].id => k = j
    BY <2>2, <2>3, <2>5 DEF PlaceInv
  <2>7. \A q \in Producer : producer'[q].pc = "push" =>
          /\ q # p /\ producer'[q] = producer[q] /\ producer[q].vector.id # v.id
    BY <2>1 DEF PlaceInv, v
  <2>8. \A q \in Producer : producer'[q].pc = "push" =>
          \A k \in 1 .. Len(accepted') : accepted'[k].id # producer'[q].vector.id
    BY <2>2, <2>5, <2>7 DEF PlaceInv
  <2>9. \A w \in Worker : Holding(w)' <=> Holding(w)
    BY <2>1 DEF Holding, Sending
  <2>10. \A k \in 1 .. Taken : accepted'[k] = accepted[k]
    BY <1>0, <2>2 DEF Taken, PlaceInv
  <2>11. \A w \in Worker :
           IF Holding(w)' THEN \E k \in 1 .. Taken' : worker'[w].vector = accepted'[k]
           ELSE worker'[w].vector = NoVector
    <3> SUFFICES ASSUME NEW w \in Worker
                 PROVE  IF Holding(w)' THEN \E k \in 1 .. Taken' : worker'[w].vector = accepted'[k]
                        ELSE worker'[w].vector = NoVector
      OBVIOUS
    <3>1. worker'[w] = worker[w]
      BY <2>1
    <3>2. CASE Holding(w)
      <4>1. PICK k \in 1 .. Taken : worker[w].vector = accepted[k]
        BY <3>2 DEF PlaceInv
      <4> QED
        BY <4>1, <3>1, <3>2, <2>2, <2>9, <2>10
    <3>3. CASE ~Holding(w)
      BY <3>1, <3>3, <2>9 DEF PlaceInv
    <3> QED
      BY <3>2, <3>3
  <2>12. \A w, x \in Worker :
           Holding(w)' /\ Holding(x)' /\ worker'[w].vector.id = worker'[x].vector.id => w = x
    BY <2>1, <2>9 DEF PlaceInv
  <2>13. Taken' \in Nat
    BY <2>2 DEF PlaceInv
  <2>14. \A q \in Producer : producer'[q].pc = "push" =>
           /\ producer'[q].vector.id \in 1 .. submitted'
           /\ \A k \in 1 .. Len(accepted') : accepted'[k].id # producer'[q].vector.id
    BY <2>1, <2>7, <2>8 DEF PlaceInv
  <2>15. \A q, r \in Producer :
           /\ producer'[q].pc = "push" /\ producer'[r].pc = "push"
           /\ producer'[q].vector.id = producer'[r].vector.id
           => q = r
    BY <2>7 DEF PlaceInv
  <2> QED
    BY <2>1, <2>4, <2>6, <2>11, <2>12, <2>13, <2>14, <2>15 DEF PlaceInv
<1>3. ASSUME NEW p \in Producer, try_push(p), ~(Len(queue) < QueueSize) PROVE PlaceInv'
  <2>1. /\ UNCHANGED << queue, accepted, worker, submitted >> /\ producer'[p].pc = "reject"
        /\ \A q \in Producer \ { p } : producer'[q] = producer[q]
    BY <1>3 DEF try_push, TypeOK, ProducerState
  <2>2. \A w \in Worker : Holding(w)' <=> Holding(w)
    BY <2>1 DEF Holding, Sending
  <2> QED
    BY <2>1, <2>2, PlaceKept
<1>4. ASSUME NEW p \in Producer, incIn(p) \/ incReject(p) PROVE PlaceInv'
  <2>1. /\ UNCHANGED << queue, accepted, worker, submitted >> /\ producer'[p].pc = "idle"
        /\ \A q \in Producer \ { p } : producer'[q] = producer[q]
    BY <1>4 DEF incIn, incReject, ProducerDone, TypeOK, history
  <2>2. \A w \in Worker : Holding(w)' <=> Holding(w)
    BY <2>1 DEF Holding, Sending
  <2> QED
    BY <2>1, <2>2, PlaceKept
<1>5. ASSUME NEW p \in Producer, notify_one(p) PROVE PlaceInv'
  <2>1. /\ UNCHANGED << queue, accepted, submitted >> /\ producer'[p].pc = "countIn"
        /\ \A q \in Producer \ { p } : producer'[q] = producer[q]
    BY <1>5 DEF notify_one, TypeOK, ProducerState, history
  <2>2. \A w \in Worker : worker'[w].vector = worker[w].vector /\ (Holding(w)' <=> Holding(w))
    <3>1. CASE worker' = worker
      BY <3>1 DEF Holding, Sending
    <3>2. CASE worker' # worker
      <4>1. PICK w \in Waiting : worker' = [worker EXCEPT ![w].pc = "pop"]
        BY <1>5, <3>2 DEF notify_one
      <4>2. WorkerMoves(w, "pop", worker[w].ix, worker[w].vector) /\ worker[w].pc = "wait"
        BY <4>1 DEF WorkerMoves, Waiting, TypeOK, WorkerState
      <4> QED
        BY <4>2 DEF WorkerMoves, Holding, Sending
    <3> QED
      BY <3>1, <3>2
  <2> QED
    BY <2>1, <2>2, PlaceKept
<1>6. ASSUME NEW w \in Worker,
             \/ WorkerStart(w) \/ PopWait(w) \/ SpuriousWakeup(w) \/ incOut(w) \/ EstimateSize(w)
             \/ addTimeInQWithSize(w) \/ SendNotification(w) \/ CountSent(w)
      PROVE  PlaceInv'
  <2>1. UNCHANGED << queue, accepted, submitted, producer >>
    BY <1>6 DEF WorkerStart, PopWait, SpuriousWakeup, incOut, EstimateSize, addTimeInQWithSize,
                SendNotification, CountSent, history
  <2>2. \A x \in Worker : worker'[x].vector = worker[x].vector /\ (Holding(x)' <=> Holding(x))
    <3>1. CASE WorkerStart(w)
      BY <3>1, WorkerStepIs DEF WorkerStart, WorkerMoves, Holding, Sending
    <3>2. CASE PopWait(w)
      BY <3>2, WorkerStepIs DEF PopWait, WorkerMoves, Holding, Sending
    <3>3. CASE SpuriousWakeup(w)
      BY <3>3, WorkerStepIs DEF SpuriousWakeup, WorkerMoves, Holding, Sending
    <3>4. CASE incOut(w)
      BY <3>4, WorkerStepIs DEF incOut, WorkerMoves, Holding, Sending
    <3>5. CASE EstimateSize(w)
      BY <3>5, WorkerStepIs DEF EstimateSize, WorkerMoves, Holding, Sending
    <3>6. CASE addTimeInQWithSize(w)
      BY <3>6, WorkerStepIs DEF addTimeInQWithSize, WorkerMoves, Holding, Sending
    <3>7. CASE SendNotification(w)
      BY <3>7, WorkerStepIs DEF SendNotification, WorkerMoves, Holding, Sending
    <3>8. CASE CountSent(w)
      BY <3>8, WorkerStepIs DEF CountSent, WorkerMoves, Holding, Sending
    <3> QED
      BY <1>6, <3>1, <3>2, <3>3, <3>4, <3>5, <3>6, <3>7, <3>8
  <2> QED
    BY <2>1, <2>2, PlaceKept
<1>7. ASSUME NEW w \in Worker, PopTake(w) PROVE PlaceInv'
  <2>1. /\ UNCHANGED << accepted, submitted, producer >> /\ queue # << >> /\ queue' = Tail(queue)
        /\ worker[w].pc = "pop" /\ WorkerMoves(w, "loop", 0, Head(queue))
    BY <1>7, WorkerStepIs DEF PopTake, history
  <2>2. /\ Len(queue) >= 1 /\ Len(queue') = Len(queue) - 1 /\ Taken' = Taken + 1
        /\ Head(queue) = queue[1] /\ \A j \in 1 .. Len(queue') : queue'[j] = queue[j + 1]
    BY <1>0, <2>1 DEF Taken
  <2>3. Taken' \in Nat /\ Taken' \in 1 .. Len(accepted) /\ Head(queue) = accepted[Taken']
    BY <1>0, <2>2 DEF PlaceInv, Taken
  <2>4. \A j \in 1 .. Len(queue') : queue'[j] = accepted[Taken' + j]
    <3> SUFFICES ASSUME NEW j \in 1 .. Len(queue') PROVE queue'[j] = accepted[Taken' + j]
      OBVIOUS
    <3>1. j + 1 \in 1 .. Len(queue) /\ queue'[j] = queue[j + 1]
      BY <1>0, <2>2
    <3>2. Taken \in Nat /\ queue[j + 1] = accepted[Taken + (j + 1)]
      BY <3>1 DEF PlaceInv
    <3>3. Taken' + j = Taken + (j + 1)
      BY <3>2, <2>2
    <3> QED
      BY <3>1, <3>2, <3>3
  <2>5. ~Holding(w) /\ Holding(w)' /\ \A x \in Worker \ { w } : Holding(x)' <=> Holding(x)
    BY <2>1 DEF WorkerMoves, Holding, Sending
  <2>6. \A x \in Worker \ { w } : Holding(x) =>
           \E k \in 1 .. Taken : worker[x].vector = accepted[k] /\ k # Taken' /\ k \in 1 .. Taken'
                                 /\ k \in 1 .. Len(accepted)
    BY <1>0, <2>2, <2>3 DEF PlaceInv
  <2>7. \A x \in Worker \ { w } : Holding(x) => worker[x].vector.id # Head(queue).id
    BY <2>3, <2>6 DEF PlaceInv
  <2>8. \A x \in Worker :
           IF Holding(x)' THEN \E k \in 1 .. Taken' : worker'[x].vector = accepted[k]
           ELSE worker'[x].vector = NoVector
    <3> SUFFICES ASSUME NEW x \in Worker
                 PROVE  IF Holding(x)' THEN \E k \in 1 .. Taken' : worker'[x].vector = accepted[k]
                        ELSE worker'[x].vector = NoVector
      OBVIOUS
    <3>1. CASE x = w
      BY <3>1, <2>1, <2>3, <2>5 DEF WorkerMoves
    <3>2. CASE x # w
      BY <3>2, <2>1, <2>5, <2>6 DEF WorkerMoves, PlaceInv
    <3> QED
      BY <3>1, <3>2
  <2>9. \A y, x \in Worker :
          Holding(y)' /\ Holding(x)' /\ worker'[y].vector.id = worker'[x].vector.id => y = x
    BY <2>1, <2>5, <2>7 DEF WorkerMoves, PlaceInv
  <2> QED
    BY <2>1, <2>3, <2>4, <2>8, <2>9 DEF PlaceInv
<1>8. ASSUME NEW w \in Worker, VectorDone(w) PROVE PlaceInv'
  <2>1. UNCHANGED << queue, accepted, submitted, producer >> /\ WorkerMoves(w, "pop", 0, NoVector)
    BY <1>8, WorkerStepIs DEF VectorDone, history
  <2>2. ~Holding(w)' /\ \A x \in Worker \ { w } : Holding(x)' <=> Holding(x)
    BY <2>1 DEF WorkerMoves, Holding, Sending
  <2>3. Taken' = Taken
    BY <2>1 DEF Taken
  <2> QED
    BY <2>1, <2>2, <2>3 DEF WorkerMoves, PlaceInv
<1>9. CASE UNCHANGED vars
  <2>1. UNCHANGED << queue, accepted, submitted, producer, worker >>
    BY <1>9 DEF vars, history
  <2>2. \A w \in Worker : Holding(w)' <=> Holding(w)
    BY <2>1 DEF Holding, Sending
  <2> QED
    BY <2>1, <2>2, PlaceKept
<1> QED
  BY <1>1, <1>2, <1>3, <1>4, <1>5, <1>6, <1>7, <1>8, <1>9 DEF Next, Enqueue, workerFunc

\* A step that neither moves a vector between queue and worker nor attempts a notification.
LEMMA CountKept ==
  ASSUME TypeOK, PlaceInv, CountInv, Taken' = Taken, attempts' = attempts,
         \A k \in 1 .. Taken : accepted'[k] = accepted[k],
         \A w \in Worker : worker'[w].vector = worker[w].vector /\ (Holding(w)' <=> Holding(w)),
         \A w \in Worker : Holding(w) =>
           /\ worker'[w].ix = worker[w].ix
           /\ (w \in Sending)' => worker[w].ix < worker[w].vector.length
           /\ worker'[w].pc \in { "incSentOK", "incSentError" }
                <=> worker[w].pc \in { "incSentOK", "incSentError" }
  PROVE  CountInv'
<1>1. \A i \in Ids : (\A k \in 1 .. Taken' : accepted'[k].id # i) => attempts'[i] = 0
  BY DEF CountInv
<1>2. \A w \in Worker : Holding(w)' =>
        /\ worker'[w].ix <= worker'[w].vector.length
        /\ (w \in Sending)' => worker'[w].ix < worker'[w].vector.length
        /\ attempts'[worker'[w].vector.id] =
             worker'[w].ix + IF worker'[w].pc \in { "incSentOK", "incSentError" } THEN 1 ELSE 0
  BY DEF CountInv
<1>3. \A k \in 1 .. Taken' :
        (\A w \in Worker : worker'[w].vector.id # accepted'[k].id)
          => attempts'[accepted'[k].id] = accepted'[k].length
  BY DEF CountInv
<1> QED
  BY <1>1, <1>2, <1>3 DEF CountInv

LEMMA CountNext == TypeOK /\ PlaceInv /\ CountInv /\ [Next]_vars => CountInv'
<1> SUFFICES ASSUME TypeOK, PlaceInv, CountInv, [Next]_vars PROVE CountInv'
  OBVIOUS
<1>0. /\ queue \in Seq(Vector) /\ accepted \in Seq(Vector) /\ submitted \in 0 .. MaxVectors
      /\ Len(queue) \in Nat /\ Len(accepted) \in Nat /\ MaxVectors \in Nat
      /\ Taken \in Nat /\ Taken <= Len(accepted) /\ attempts \in [Ids -> Nat]
      /\ \A w \in Worker : worker[w] \in WorkerState
  BY NotificationQueueAssumption DEF TypeOK, NotificationQueueAssumption, PlaceInv, Taken
<1>a. \A k \in 1 .. Len(accepted) : accepted[k] \in Vector /\ accepted[k].id \in Ids
  BY <1>0 DEF PlaceInv, Ids
<1>b. \A w \in Worker : worker[w].ix \in Nat /\ worker[w].vector \in Vector
                        /\ worker[w].vector.length \in Nat
  BY <1>0, NotificationQueueAssumption DEF WorkerState, Vector, NotificationQueueAssumption
<1>c. \A w \in Worker : Holding(w) =>
        worker[w].vector.id \in Ids
        /\ \E k \in 1 .. Taken : k \in 1 .. Len(accepted) /\ worker[w].vector = accepted[k]
  BY <1>0, <1>a DEF PlaceInv
<1>1. ASSUME NEW p \in Producer, try_push(p), Len(queue) < QueueSize PROVE CountInv'
  <2>1. /\ queue' = Append(queue, producer[p].vector) /\ accepted' = Append(accepted, producer[p].vector)
        /\ UNCHANGED << worker, attempts >> /\ producer[p].vector \in Vector
    BY <1>1 DEF try_push, TypeOK, ProducerState
  <2>2. Taken' = Taken /\ \A k \in 1 .. Taken : accepted'[k] = accepted[k]
    BY <1>0, <2>1 DEF Taken
  <2>3. \A w \in Worker : (Holding(w)' <=> Holding(w)) /\ ((w \in Sending)' <=> w \in Sending)
    BY <2>1 DEF Holding, Sending
  <2> QED
    BY <2>1, <2>2, <2>3, CountKept DEF CountInv
<1>2. ASSUME UNCHANGED << queue, accepted, attempts, worker >> PROVE CountInv'
  <2>1. Taken' = Taken /\ \A w \in Worker : Holding(w)' <=> Holding(w)
    BY <1>2 DEF Taken, Holding, Sending
  <2>2. \A w \in Worker : (w \in Sending)' <=> w \in Sending
    BY <1>2 DEF Sending
  <2> QED
    BY <1>2, <2>1, <2>2, CountKept DEF CountInv
<1>3. ASSUME NEW p \in Producer, notify_one(p) PROVE CountInv'
  <2>1. UNCHANGED << queue, accepted, attempts >>
    BY <1>3 DEF notify_one, history
  <2>2. CASE worker' # worker
    <3>1. PICK w \in Waiting : worker' = [worker EXCEPT ![w].pc = "pop"]
      BY <1>3, <2>2 DEF notify_one
    <3>2. WorkerMoves(w, "pop", worker[w].ix, worker[w].vector) /\ worker[w].pc = "wait"
      BY <3>1 DEF WorkerMoves, Waiting, TypeOK, WorkerState
    <3>3. \A x \in Worker : /\ worker'[x].vector = worker[x].vector /\ (Holding(x)' <=> Holding(x))
                            /\ ((x \in Sending)' <=> x \in Sending)
                            /\ Holding(x) => worker'[x] = worker[x]
      BY <3>2 DEF WorkerMoves, Holding, Sending
    <3>4. Taken' = Taken
      BY <2>1 DEF Taken
    <3> QED
      BY <2>1, <3>3, <3>4, CountKept DEF CountInv
  <2> QED
    BY <1>2, <2>1, <2>2
<1>4. ASSUME NEW w \in Worker,
             \/ WorkerStart(w) \/ PopWait(w) \/ SpuriousWakeup(w) \/ incOut(w) \/ EstimateSize(w)
             \/ addTimeInQWithSize(w)
      PROVE  CountInv'
  <2>1. UNCHANGED << queue, accepted, attempts >>
    BY <1>4 DEF WorkerStart, PopWait, SpuriousWakeup, incOut, EstimateSize, addTimeInQWithSize, history
  <2>2. \A x \in Worker :
          /\ worker'[x].vector = worker[x].vector /\ (Holding(x)' <=> Holding(x))
          /\ Holding(x) => /\ worker'[x].ix = worker[x].ix
                           /\ (x \in Sending)' => worker[x].ix < worker[x].vector.length
                           /\ worker'[x].pc \in { "incSentOK", "incSentError" }
                                <=> worker[x].pc \in { "incSentOK", "incSentError" }
    <3>0. \A x \in Worker : x \in Sending => worker[x].ix < worker[x].vector.length
      BY DEF CountInv, Holding
    <3>1. CASE WorkerStart(w)
      BY <3>0, <3>1, WorkerStepIs DEF WorkerStart, WorkerMoves, Holding, Sending
    <3>2. CASE PopWait(w)
      BY <3>0, <3>2, WorkerStepIs DEF PopWait, WorkerMoves, Holding, Sending
    <3>3. CASE SpuriousWakeup(w)
      BY <3>0, <3>3, WorkerStepIs DEF SpuriousWakeup, WorkerMoves, Holding, Sending
    <3>4. CASE incOut(w)
      BY <3>0, <3>4, WorkerStepIs DEF incOut, WorkerMoves, Holding, Sending
    <3>5. CASE EstimateSize(w)
      BY <3>0, <3>5, WorkerStepIs DEF EstimateSize, WorkerMoves, Holding, Sending
    <3>6. CASE addTimeInQWithSize(w)
      BY <3>0, <3>6, WorkerStepIs DEF addTimeInQWithSize, WorkerMoves, Holding, Sending
    <3> QED
      BY <1>4, <3>1, <3>2, <3>3, <3>4, <3>5, <3>6
  <2>3. Taken' = Taken
    BY <2>1 DEF Taken
  <2> QED
    BY <2>1, <2>2, <2>3, CountKept
<1>5. ASSUME NEW w \in Worker, SendNotification(w) PROVE CountInv'
  <2> DEFINE i == worker[w].vector.id
  <2>1. /\ UNCHANGED << queue, accepted >> /\ worker[w].pc = "send"
        /\ attempts' = [attempts EXCEPT ![i] = @ + 1]
        /\ \E pc \in { "incSentOK", "incSentError" } : WorkerMoves(w, pc, worker[w].ix, worker[w].vector)
    BY <1>5, WorkerStepIs DEF SendNotification
  <2>2. /\ Taken' = Taken /\ w \in Sending /\ Holding(w)
        /\ \A x \in Worker : Holding(x)' <=> Holding(x)
        /\ \A x \in Worker : (x \in Sending)' <=> x \in Sending
        /\ \A x \in Worker : worker'[x].vector = worker[x].vector /\ worker'[x].ix = worker[x].ix
    BY <2>1 DEF Taken, Holding, Sending, WorkerMoves
  <2>3. PICK m \in 1 .. Taken : m \in 1 .. Len(accepted) /\ worker[w].vector = accepted[m]
    BY <2>2, <1>c
  <2>4. /\ i \in Ids /\ attempts'[i] = attempts[i] + 1 /\ attempts[i] = worker[w].ix
        /\ \A j \in Ids \ { i } : attempts'[j] = attempts[j]
    BY <1>0, <1>b, <1>c, <2>1, <2>2 DEF CountInv
  <2>5. \A j \in Ids : (\A k \in 1 .. Taken' : accepted'[k].id # j) => attempts'[j] = 0
    BY <2>1, <2>2, <2>3, <2>4 DEF CountInv
  <2>6. ASSUME NEW x \in Worker, Holding(x)'
        PROVE  /\ worker'[x].ix <= worker'[x].vector.length
               /\ (x \in Sending)' => worker'[x].ix < worker'[x].vector.length
               /\ attempts'[worker'[x].vector.id] =
                    worker'[x].ix + IF worker'[x].pc \in { "incSentOK", "incSentError" } THEN 1 ELSE 0
    <3>1. CASE x = w
      BY <3>1, <2>1, <2>2, <2>4 DEF WorkerMoves, CountInv
    <3>2. CASE x # w
      <4>1. worker'[x] = worker[x] /\ Holding(x) /\ worker[x].vector.id \in Ids \ { i }
        BY <3>2, <2>1, <2>2, <2>6, <1>c DEF WorkerMoves, PlaceInv
      <4> QED
        BY <4>1, <2>2, <2>4 DEF CountInv
    <3> QED
      BY <3>1, <3>2
  <2>7. \A k \in 1 .. Taken' :
          (\A x \in Worker : worker'[x].vector.id # accepted'[k].id)
            => attempts'[accepted'[k].id] = accepted'[k].length
    <3> SUFFICES ASSUME NEW k \in 1 .. Taken,
                        \A x \in Worker : worker[x].vector.id # accepted[k].id
                 PROVE  attempts'[accepted[k].id] = accepted[k].length
      BY <2>1, <2>2
    <3>1. accepted[k].id \in Ids \ { i }
      BY <1>0, <1>a
    <3> QED
      BY <3>1, <2>4 DEF CountInv
  <2> HIDE DEF i
  <2> QED
    BY <2>5, <2>6, <2>7 DEF CountInv
<1>6. ASSUME NEW w \in Worker, CountSent(w) PROVE CountInv'
  <2>1. /\ UNCHANGED << queue, accepted, attempts >>
        /\ worker[w].pc \in { "incSentOK", "incSentError" }
        /\ WorkerMoves(w, "loop", worker[w].ix + 1, worker[w].vector)
    BY <1>6, WorkerStepIs DEF CountSent, history
  <2>2. /\ Taken' = Taken /\ w \in Sending /\ Holding(w) /\ (w \notin Sending)'
        /\ \A x \in Worker : Holding(x)' <=> Holding(x)
        /\ \A x \in Worker \ { w } : (x \in Sending)' <=> x \in Sending
        /\ \A x \in Worker : worker'[x].vector = worker[x].vector
    BY <2>1 DEF Taken, Holding, Sending, WorkerMoves
  <2>3. ASSUME NEW x \in Worker, Holding(x)'
        PROVE  /\ worker'[x].ix <= worker'[x].vector.length
               /\ (x \in Sending)' => worker'[x].ix < worker'[x].vector.length
               /\ attempts'[worker'[x].vector.id] =
                    worker'[x].ix + IF worker'[x].pc \in { "incSentOK", "incSentError" } THEN 1 ELSE 0
    <3>1. CASE x = w
      BY <3>1, <2>1, <2>2, <1>b DEF WorkerMoves, CountInv
    <3>2. CASE x # w
      BY <3>2, <2>1, <2>2, <2>3 DEF WorkerMoves, CountInv
    <3> QED
      BY <3>1, <3>2
  <2> QED
    BY <2>1, <2>2, <2>3 DEF CountInv
<1>7. ASSUME NEW w \in Worker, PopTake(w) PROVE CountInv'
  <2>1. /\ UNCHANGED << accepted, attempts >> /\ queue # << >> /\ queue' = Tail(queue)
        /\ worker[w].pc = "pop" /\ WorkerMoves(w, "loop", 0, Head(queue))
    BY <1>7, WorkerStepIs DEF PopTake, history
  <2>2. /\ Len(queue) >= 1 /\ Len(queue') = Len(queue) - 1 /\ Taken' = Taken + 1
        /\ Head(queue) = queue[1]
    BY <1>0, <2>1 DEF Taken
  <2>3. Taken + 1 \in 1 .. Len(accepted) /\ Head(queue) = accepted[Taken + 1]
    <3>1. Taken + 1 \in 1 .. Len(accepted)
      BY <1>0, <2>2 DEF Taken
    <3>2. 1 \in 1 .. Len(queue)
      BY <1>0, <2>2
    <3> QED
      BY <3>1, <3>2, <2>2 DEF PlaceInv
  <2>4. \A k \in 1 .. Taken : k \in 1 .. Len(accepted) /\ accepted[k].id # accepted[Taken + 1].id
    BY <1>0, <2>3 DEF PlaceInv
  <2>5. attempts[accepted[Taken + 1].id] = 0
    BY <1>a, <2>3, <2>4 DEF CountInv
  <2>6. /\ ~Holding(w) /\ Holding(w)' /\ (w \notin Sending)'
        /\ \A x \in Worker \ { w } : (Holding(x)' <=> Holding(x)) /\ ((x \in Sending)' <=> x \in Sending)
    BY <2>1 DEF WorkerMoves, Holding, Sending
  <2>7. \A i \in Ids : (\A k \in 1 .. Taken' : accepted'[k].id # i) => attempts'[i] = 0
    BY <1>0, <2>1, <2>2 DEF CountInv
  <2>8. ASSUME NEW x \in Worker, Holding(x)'
        PROVE  /\ worker'[x].ix <= worker'[x].vector.length
               /\ (x \in Sending)' => worker'[x].ix < worker'[x].vector.length
               /\ attempts'[worker'[x].vector.id] =
                    worker'[x].ix + IF worker'[x].pc \in { "incSentOK", "incSentError" } THEN 1 ELSE 0
    <3>1. CASE x = w
      <4>1. accepted[Taken + 1].length \in Nat
        BY <1>a, <2>3, NotificationQueueAssumption DEF Vector, NotificationQueueAssumption
      <4> QED
        BY <3>1, <4>1, <2>1, <2>3, <2>5, <2>6 DEF WorkerMoves
    <3>2. CASE x # w
      BY <3>2, <2>1, <2>6, <2>8 DEF WorkerMoves, CountInv
    <3> QED
      BY <3>1, <3>2
  <2>9. \A k \in 1 .. Taken' :
          (\A x \in Worker : worker'[x].vector.id # accepted'[k].id)
            => attempts'[accepted'[k].id] = accepted'[k].length
    <3> SUFFICES ASSUME NEW k \in 1 .. Taken',
                        \A x \in Worker : worker'[x].vector.id # accepted[k].id
                 PROVE  attempts[accepted[k].id] = accepted[k].length
      BY <2>1
    <3>1. k \in 1 .. Taken
      <4>1. k # Taken + 1
        BY <2>1, <2>3 DEF WorkerMoves
      <4> QED
        BY <4>1, <1>0, <2>2
    <3>2. worker[w].vector.id # accepted[k].id
      <4>1. worker[w].vector.id = 0
        BY <2>6 DEF PlaceInv, NoVector
      <4> QED
        BY <4>1, <3>1, <2>4, <1>a DEF Ids
    <3>3. \A x \in Worker : worker[x].vector.id # accepted[k].id
      BY <3>2, <2>1 DEF WorkerMoves
    <3> QED
      BY <3>1, <3>3 DEF CountInv
  <2> QED
    BY <2>7, <2>8, <2>9 DEF CountInv
<1>8. ASSUME NEW w \in Worker, VectorDone(w) PROVE CountInv'
  <2>1. /\ UNCHANGED << queue, accepted, attempts >> /\ worker[w].pc = "loop"
        /\ worker[w].ix = worker[w].vector.length /\ WorkerMoves(w, "pop", 0, NoVector)
    BY <1>8, WorkerStepIs DEF VectorDone, history
  <2>2. /\ Taken' = Taken /\ Holding(w) /\ ~Holding(w)'
        /\ \A x \in Worker \ { w } : (Holding(x)' <=> Holding(x)) /\ ((x \in Sending)' <=> x \in Sending)
    BY <2>1 DEF Taken, Holding, Sending, WorkerMoves
  <2>3. attempts[worker[w].vector.id] = worker[w].vector.length
    BY <2>1, <2>2, <1>b DEF CountInv
  <2>4. PICK m \in 1 .. Taken : m \in 1 .. Len(accepted) /\ worker[w].vector = accepted[m]
    BY <2>2, <1>c
  <2>5. \A i \in Ids : (\A k \in 1 .. Taken' : accepted'[k].id # i) => attempts'[i] = 0
    BY <2>1, <2>2 DEF CountInv
  <2>6. ASSUME NEW x \in Worker, Holding(x)'
        PROVE  /\ worker'[x].ix <= worker'[x].vector.length
               /\ (x \in Sending)' => worker'[x].ix < worker'[x].vector.length
               /\ attempts'[worker'[x].vector.id] =
                    worker'[x].ix + IF worker'[x].pc \in { "incSentOK", "incSentError" } THEN 1 ELSE 0
    <3>1. x # w /\ Holding(x) /\ worker'[x] = worker[x]
      BY <2>1, <2>2, <2>6 DEF WorkerMoves
    <3> QED
      BY <3>1, <2>1, <2>2 DEF CountInv
  <2>7. \A k \in 1 .. Taken' :
          (\A x \in Worker : worker'[x].vector.id # accepted'[k].id)
            => attempts'[accepted'[k].id] = accepted'[k].length
    <3> SUFFICES ASSUME NEW k \in 1 .. Taken,
                        \A x \in Worker : worker'[x].vector.id # accepted[k].id
                 PROVE  attempts[accepted[k].id] = accepted[k].length
      BY <2>1, <2>2
    <3>1. CASE worker[w].vector.id = accepted[k].id
      <4>1. k \in 1 .. Len(accepted)
        BY <1>0
      <4>2. k = m
        BY <3>1, <2>4, <4>1 DEF PlaceInv
      <4> QED
        BY <2>3, <2>4, <4>2
    <3>2. CASE worker[w].vector.id # accepted[k].id
      <4>1. \A x \in Worker : worker[x].vector.id # accepted[k].id
        BY <3>2, <2>1 DEF WorkerMoves
      <4> QED
        BY <4>1 DEF CountInv
    <3> QED
      BY <3>1, <3>2
  <2> QED
    BY <2>5, <2>6, <2>7 DEF CountInv
<1>9. ASSUME NEW p \in Producer,
             \/ buildSenderParams(p) \/ incIn(p) \/ incReject(p)
             \/ try_push(p) /\ ~(Len(queue) < QueueSize)
      PROVE  CountInv'
  <2>1. UNCHANGED << queue, accepted, attempts, worker >>
    BY <1>9 DEF buildSenderParams, incIn, incReject, try_push, history
  <2> QED
    BY <1>2, <2>1
<1>10. CASE UNCHANGED vars
  BY <1>2, <1>10 DEF vars, history
<1> QED
  BY <1>1, <1>3, <1>4, <1>5, <1>6, <1>7, <1>8, <1>9, <1>10 DEF Next, Enqueue, workerFunc

\* What PlaceInv and CountInv say of a vector, put in the words of AttemptedOnce.
LEMMA CountedOnce == TypeOK /\ PlaceInv /\ CountInv => AttemptedOnce
<1> SUFFICES ASSUME TypeOK, PlaceInv, CountInv PROVE AttemptedOnce
  OBVIOUS
<1>0. /\ queue \in Seq(Vector) /\ accepted \in Seq(Vector) /\ submitted \in 0 .. MaxVectors
      /\ Len(queue) \in Nat /\ Len(accepted) \in Nat /\ MaxVectors \in Nat
      /\ Taken \in Nat /\ Taken <= Len(accepted) /\ Taken + Len(queue) = Len(accepted)
      /\ DOMAIN queue = 1 .. Len(queue)
  BY NotificationQueueAssumption DEF TypeOK, NotificationQueueAssumption, PlaceInv, Taken
<1>1. ASSUME NEW i \in Ids, \A k \in 1 .. Len(accepted) : accepted[k].id # i PROVE attempts[i] = 0
  BY <1>0, <1>1 DEF CountInv
<1>2. ASSUME NEW k \in 1 .. Len(accepted)
      PROVE  LET v == accepted[k]
                 holders == { w \in Worker : HeldBy(v, w) } IN
             CASE v \in ToSet(queue) -> attempts[v.id] = 0 /\ holders = {}
               [] holders # {} ->
                    /\ Cardinality(holders) = 1
                    /\ \A w \in holders :
                         attempts[v.id] = worker[w].ix
                           + IF worker[w].pc \in { "incSentOK", "incSentError" } THEN 1 ELSE 0
               [] OTHER -> attempts[v.id] = v.length
  <2> DEFINE v == accepted[k]
             holders == { w \in Worker : HeldBy(v, w) }
  <2>1. v.id \in Ids /\ v.id # 0
    BY <1>0 DEF PlaceInv, Ids
  <2>2. \A w \in holders : Holding(w) /\ \E m \in 1 .. Taken : m \in 1 .. Len(accepted) /\ worker[w].vector = accepted[m]
    <3>1. \A w \in holders : Holding(w)
      BY <2>1 DEF PlaceInv, NoVector, HeldBy
    <3> QED
      BY <3>1, <1>0 DEF PlaceInv
  <2>3. v \in ToSet(queue) <=> k \notin 1 .. Taken
    <3>1. ASSUME NEW j \in 1 .. Len(queue), queue[j] = v PROVE k = Taken + j /\ k \notin 1 .. Taken
      <4>1. Taken + j \in 1 .. Len(accepted) /\ accepted[Taken + j] = v
        BY <1>0, <3>1 DEF PlaceInv
      <4>2. k = Taken + j
        BY <4>1 DEF PlaceInv
      <4> QED
        BY <4>2, <1>0
    <3>2. ASSUME k \notin 1 .. Taken PROVE k - Taken \in 1 .. Len(queue) /\ queue[k - Taken] = v
      <4>1. k - Taken \in 1 .. Len(queue) /\ Taken + (k - Taken) = k
        BY <1>0, <3>2
      <4> QED
        BY <4>1 DEF PlaceInv
    <3> QED
      BY <3>1, <3>2, <1>0 DEF ToSet
  <2>4. CASE v \in ToSet(queue)
    <3>1. \A m \in 1 .. Taken : accepted[m].id # v.id
      BY <2>3, <2>4, <1>0 DEF PlaceInv
    <3>2. attempts[v.id] = 0
      BY <3>1, <2>1 DEF CountInv
    <3>3. holders = {}
      BY <2>2, <3>1 DEF HeldBy
    <3> QED
      BY <2>4, <3>2, <3>3
  <2>5. CASE v \notin ToSet(queue) /\ holders # {}
    <3>1. PICK h \in holders : TRUE
      BY <2>5
    <3>2. holders = { h }
      BY <2>2 DEF HeldBy, PlaceInv
    <3>3. Cardinality(holders) = 1
      BY <3>2, FS_Singleton
    <3>4. \A w \in holders : attempts[v.id] = worker[w].ix
            + IF worker[w].pc \in { "incSentOK", "incSentError" } THEN 1 ELSE 0
      BY <2>2 DEF CountInv, HeldBy
    <3> QED
      BY <2>5, <3>3, <3>4
  <2>6. CASE v \notin ToSet(queue) /\ holders = {}
    <3>1. k \in 1 .. Taken /\ \A w \in Worker : worker[w].vector.id # v.id
      BY <2>3, <2>6 DEF HeldBy
    <3>2. attempts[v.id] = v.length
      BY <3>1 DEF CountInv
    <3> QED
      BY <2>6, <3>2
  <2> QED
    BY <2>4, <2>5, <2>6
<1> QED
  BY <1>1, <1>2 DEF AttemptedOnce

\* Of an accepted vector every notification is attempted exactly once, whatever the
\* workers and producers do meanwhile; of a rejected one, none.
THEOREM EveryNotificationOnce == Spec => []AttemptedOnce
<1>1. Init => PlaceInv /\ CountInv
  <2> SUFFICES ASSUME Init PROVE PlaceInv /\ CountInv
    OBVIOUS
  <2>1. Len(queue) = 0 /\ Len(accepted) = 0 /\ Taken = 0
    BY DEF Init, Taken
  <2>2. \A w \in Worker : ~Holding(w) /\ worker[w].vector = NoVector
    BY DEF Init, Holding, Sending
  <2>3. PlaceInv
    BY <2>1, <2>2 DEF Init, PlaceInv
  <2>4. CountInv
    BY <2>1, <2>2 DEF Init, CountInv
  <2> QED
    BY <2>3, <2>4
<1>2. (TypeOK /\ PlaceInv /\ CountInv) /\ [Next]_vars => (TypeOK /\ PlaceInv /\ CountInv)'
  BY TypeNext, PlaceNext, CountNext
<1> QED
  BY <1>1, <1>2, TypeInit, CountedOnce, PTL DEF Spec
-----------------------------------------------------------------------------
(***************************************************************************)
(* Sums over finite sets.  The library's theorems of induction cannot be   *)
(* applied, but that the proper subsets of a finite set are well-founded   *)
(* can: a set of counterexamples has a smallest one.                       *)
(***************************************************************************)
\* Of the subsets of a finite set that are in B, one has no proper subset in B.
LEMMA MinimalSubset ==
  ASSUME NEW S, IsFiniteSet(S), NEW B \in SUBSET (SUBSET S), B # {}
  PROVE  \E T \in B : \A U \in SUBSET T : U # T => U \notin B
<1>1. B \subseteq FiniteSubsetsOf(S)
  BY FS_Subset DEF FiniteSubsetsOf
<1>2. PICK T \in B : \A U \in B : ~(<< U, T >> \in StrictSubsetOrdering(S))
  <2>1. IsWellFoundedOn(StrictSubsetOrdering(S), FiniteSubsetsOf(S))
    BY FS_StrictSubsetOrderingWellFounded
  <2> HIDE DEF FiniteSubsetsOf, StrictSubsetOrdering
  <2> QED
    BY <1>1, <2>1, WFMin
<1> QED
  BY <1>2 DEF StrictSubsetOrdering

SomeOf(T) == CHOOSE x \in T : TRUE
Rest(T) == T \ { SomeOf(T) }

\* The recursion of the folds of the community modules, for a sum.
IsSum(f, S, g) ==
  g = [T \in SUBSET S |-> IF T = {} THEN 0 ELSE f[SomeOf(T)] + g[Rest(T)]]

LEMMA SomeOfIn ==
  ASSUME NEW T, T # {}
  PROVE  SomeOf(T) \in T /\ Rest(T) \subseteq T /\ Rest(T) # T
  BY DEF SomeOf, Rest

LEMMA SumIs ==
  ASSUME NEW f, NEW S
  PROVE  SumFunctionOnSet(f, S) = (CHOOSE g : IsSum(f, S, g))[S]
  BY DEF SumFunctionOnSet, FoldFunctionOnSet, MapThenFoldSet, IsSum, SomeOf, Rest

LEMMA IsSumAt ==
  ASSUME NEW f, NEW S, NEW g, IsSum(f, S, g), NEW T \in SUBSET S
  PROVE  g[T] = IF T = {} THEN 0 ELSE f[SomeOf(T)] + g[Rest(T)]
  BY DEF IsSum

LEMMA SumUnique ==
  ASSUME NEW f, NEW S, NEW T, NEW g, NEW h, IsSum(f, S, g), IsSum(f, T, h),
         NEW U \in SUBSET S, U \in SUBSET T, IsFiniteSet(U)
  PROVE  g[U] = h[U]
<1> DEFINE B == { V \in SUBSET U : g[V] # h[V] }
<1> SUFFICES ASSUME B # {} PROVE FALSE
  OBVIOUS
<1>0. B \in SUBSET (SUBSET U)
  OBVIOUS
<1>1. PICK V \in B : \A W \in SUBSET V : W # V => W \notin B
  <2> HIDE DEF B
  <2> QED
    BY <1>0, MinimalSubset
<1>2. /\ g[V] = IF V = {} THEN 0 ELSE f[SomeOf(V)] + g[Rest(V)]
      /\ h[V] = IF V = {} THEN 0 ELSE f[SomeOf(V)] + h[Rest(V)]
  <2>1. V \in SUBSET S /\ V \in SUBSET T
    OBVIOUS
  <2> QED
    BY <2>1, IsSumAt
<1>3. V # {} => g[Rest(V)] = h[Rest(V)]
  BY <1>1, SomeOfIn
<1> QED
  BY <1>1, <1>2, <1>3

LEMMA SumExists ==
  ASSUME NEW f, NEW S, IsFiniteSet(S)
  PROVE  \E g : IsSum(f, S, g)
<1> DEFINE B == { T \in SUBSET S : ~\E g : IsSum(f, T, g) }
<1> SUFFICES ASSUME B # {} PROVE FALSE
  OBVIOUS
<1>0. B \in SUBSET (SUBSET S)
  OBVIOUS
<1>1. PICK T \in B : \A U \in SUBSET T : U # T => U \notin B
  <2> HIDE DEF B
  <2> QED
    BY <1>0, MinimalSubset
<1> DEFINE G(U) == CHOOSE g : IsSum(f, U, g)
           h == [U \in SUBSET T |-> IF U = {} THEN 0 ELSE f[SomeOf(U)] + G(Rest(U))[Rest(U)]]
<1> HIDE DEF G
<1>2. ASSUME NEW U \in SUBSET T, U # T PROVE IsSum(f, U, G(U))
  <2>1. \E g : IsSum(f, U, g)
    BY <1>1, <1>2
  <2> QED
    BY <2>1 DEF G
<1>3. ASSUME NEW U \in SUBSET T, U # {} PROVE h[Rest(U)] = G(Rest(U))[Rest(U)]
  <2> DEFINE V == Rest(U)
  <2>1. V \in SUBSET T /\ V # T
    BY <1>3, SomeOfIn
  <2>2. IsSum(f, V, G(V))
    BY <1>2, <2>1
  <2>3. G(V)[V] = IF V = {} THEN 0 ELSE f[SomeOf(V)] + G(V)[Rest(V)]
    <3>1. V \in SUBSET V
      OBVIOUS
    <3> HIDE DEF V
    <3> QED
      BY <2>2, <3>1, IsSumAt
  <2>4. h[V] = IF V = {} THEN 0 ELSE f[SomeOf(V)] + G(Rest(V))[Rest(V)]
    BY <2>1
  <2>5. V # {} => G(V)[Rest(V)] = G(Rest(V))[Rest(V)]
    <3> SUFFICES ASSUME V # {} PROVE G(V)[Rest(V)] = G(Rest(V))[Rest(V)]
      OBVIOUS
    <3>1. Rest(V) \in SUBSET V /\ Rest(V) \in SUBSET T /\ Rest(V) # T
      BY <2>1, SomeOfIn
    <3>2. IsSum(f, Rest(V), G(Rest(V)))
      BY <1>2, <3>1
    <3>3. IsFiniteSet(Rest(V))
      BY <3>1, FS_Subset
    <3> HIDE DEF V
    <3>4. Rest(V) \in SUBSET Rest(V)
      OBVIOUS
    <3> QED
      BY <2>2, <3>1, <3>2, <3>3, <3>4, SumUnique
  <2> HIDE DEF V, h
  <2> QED
    BY <2>3, <2>4, <2>5 DEF V
<1>4. h = [U \in SUBSET T |-> IF U = {} THEN 0 ELSE f[SomeOf(U)] + h[Rest(U)]]
  BY <1>3
<1>5. IsSum(f, T, h)
  BY <1>4 DEF IsSum
<1> QED
  BY <1>1, <1>5

LEMMA SumEmpty ==
  ASSUME NEW f
  PROVE  SumFunctionOnSet(f, {}) = 0
<1>1. PICK g : IsSum(f, {}, g)
  BY SumExists, FS_EmptySet
<1>2. IsSum(f, {}, CHOOSE h : IsSum(f, {}, h))
  BY <1>1
<1>3. (CHOOSE h : IsSum(f, {}, h))[{}] = 0
  BY <1>2, IsSumAt
<1> QED
  BY <1>3, SumIs

LEMMA SumRest ==
  ASSUME NEW f, NEW S, IsFiniteSet(S), S # {}
  PROVE  SumFunctionOnSet(f, S) = f[SomeOf(S)] + SumFunctionOnSet(f, Rest(S))
<1> DEFINE G(U) == CHOOSE g : IsSum(f, U, g)
<1>1. IsFiniteSet(Rest(S)) /\ Rest(S) \in SUBSET S
  BY SomeOfIn, FS_Subset
<1>2. IsSum(f, S, G(S)) /\ IsSum(f, Rest(S), G(Rest(S)))
  <2>1. (\E g : IsSum(f, S, g)) /\ (\E g : IsSum(f, Rest(S), g))
    BY <1>1, SumExists
  <2> QED
    BY <2>1
<1>3. SumFunctionOnSet(f, S) = G(S)[S] /\ SumFunctionOnSet(f, Rest(S)) = G(Rest(S))[Rest(S)]
  BY SumIs
<1> HIDE DEF G
<1>4. G(S)[S] = f[SomeOf(S)] + G(S)[Rest(S)]
  BY <1>2, IsSumAt
<1>5. G(S)[Rest(S)] = G(Rest(S))[Rest(S)]
  <2>1. Rest(S) \in SUBSET Rest(S)
    OBVIOUS
  <2> QED
    BY <1>1, <1>2, <2>1, SumUnique
<1> QED
  BY <1>3, <1>4, <1>5

LEMMA SumInt ==
  ASSUME NEW S, IsFiniteSet(S), NEW f, \A x \in S : f[x] \in Int
  PROVE  SumFunctionOnSet(f, S) \in Int
<1> DEFINE B == { T \in SUBSET S : SumFunctionOnSet(f, T) \notin Int }
<1> SUFFICES ASSUME B # {} PROVE FALSE
  OBVIOUS
<1>0. B \in SUBSET (SUBSET S)
  OBVIOUS
<1>1. PICK T \in B : \A U \in SUBSET T : U # T => U \notin B
  <2> HIDE DEF B
  <2> QED
    BY <1>0, MinimalSubset
<1>2. T # {}
  BY SumEmpty
<1>3. IsFiniteSet(T)
  BY FS_Subset
<1>4. SumFunctionOnSet(f, T) = f[SomeOf(T)] + SumFunctionOnSet(f, Rest(T))
  BY <1>2, <1>3, SumRest
<1>5. SumFunctionOnSet(f, Rest(T)) \in Int /\ f[SomeOf(T)] \in Int
  BY <1>1, <1>2, SomeOfIn
<1> QED
  BY <1>4, <1>5

\* The order in which the elements are taken does not matter.
LEMMA SumRemove ==
  ASSUME NEW S, IsFiniteSet(S), NEW f, \A x \in S : f[x] \in Int, NEW x \in S
  PROVE  SumFunctionOnSet(f, S) = f[x] + SumFunctionOnSet(f, S \ { x })
<1> DEFINE Ok(T, z) == SumFunctionOnSet(f, T) = f[z] + SumFunctionOnSet(f, T \ { z })
           B == { T \in SUBSET S : \E z \in T : ~Ok(T, z) }
<1> SUFFICES ASSUME B # {} PROVE FALSE
  OBVIOUS
<1>0. B \in SUBSET (SUBSET S)
  OBVIOUS
<1>1. PICK T \in B : \A U \in SUBSET T : U # T => U \notin B
  <2> HIDE DEF B
  <2> QED
    BY <1>0, MinimalSubset
<1>2. PICK z \in T : ~Ok(T, z)
  OBVIOUS
<1> DEFINE y == SomeOf(T)
<1>3. y \in T /\ Rest(T) = T \ { y }
  BY SomeOfIn DEF Rest
<1>4. IsFiniteSet(T) /\ IsFiniteSet((T \ { y }) \ { z })
  BY FS_Subset
<1>5. Ok(T, y)
  BY <1>3, <1>4, SumRest
<1>6. y # z
  BY <1>2, <1>5
<1>7. ASSUME NEW U \in SUBSET T, U # T, NEW v \in U PROVE Ok(U, v)
  BY <1>1, <1>7
<1>8. Ok(T \ { y }, z) /\ Ok(T \ { z }, y)
  <2>1. /\ T \ { y } \in SUBSET T /\ T \ { y } # T /\ z \in T \ { y }
        /\ T \ { z } \in SUBSET T /\ T \ { z } # T /\ y \in T \ { z }
    BY <1>3, <1>6
  <2> HIDE DEF y, Ok, B
  <2> QED
    BY <1>7, <2>1
<1>9. (T \ { z }) \ { y } = (T \ { y }) \ { z }
  OBVIOUS
<1>10. SumFunctionOnSet(f, (T \ { y }) \ { z }) \in Int /\ f[y] \in Int /\ f[z] \in Int
  <2>1. f[y] \in Int /\ f[z] \in Int
    BY <1>3
  <2>2. \A v \in (T \ { y }) \ { z } : f[v] \in Int
    OBVIOUS
  <2> HIDE DEF y
  <2> QED
    BY <1>4, <2>1, <2>2, SumInt
<1> DEFINE a == SumFunctionOnSet(f, (T \ { y }) \ { z })
<1>11. SumFunctionOnSet(f, T) = f[y] + (f[z] + a)
  BY <1>5, <1>8
<1>12. SumFunctionOnSet(f, T \ { z }) = f[y] + a
  <2>1. SumFunctionOnSet(f, T \ { z }) = f[y] + SumFunctionOnSet(f, (T \ { z }) \ { y })
    BY <1>8
  <2> QED
    BY <1>9, <2>1
<1>13. f[y] + (f[z] + a) = f[z] + (f[y] + a)
  <2> HIDE DEF y, a
  <2> QED
    BY <1>10 DEF a
<1> QED
  BY <1>2, <1>11, <1>12, <1>13

\* A sum depends only on the values that are summed.
LEMMA SumSame ==
  ASSUME NEW S, IsFiniteSet(S), NEW f, NEW g, \A x \in S : f[x] = g[x]
  PROVE  SumFunctionOnSet(f, S) = SumFunctionOnSet(g, S)
<1> DEFINE B == { T \in SUBSET S : SumFunctionOnSet(f, T) # SumFunctionOnSet(g, T) }
<1> SUFFICES ASSUME B # {} PROVE FALSE
  OBVIOUS
<1>0. B \in SUBSET (SUBSET S)
  OBVIOUS
<1>1. PICK T \in B : \A U \in SUBSET T : U # T => U \notin B
  <2> HIDE DEF B
  <2> QED
    BY <1>0, MinimalSubset
<1>2. T # {}
  BY SumEmpty
<1>3. IsFiniteSet(T)
  BY FS_Subset
<1>4. /\ SumFunctionOnSet(f, T) = f[SomeOf(T)] + SumFunctionOnSet(f, Rest(T))
      /\ SumFunctionOnSet(g, T) = g[SomeOf(T)] + SumFunctionOnSet(g, Rest(T))
  BY <1>2, <1>3, SumRest
<1>5. SumFunctionOnSet(f, Rest(T)) = SumFunctionOnSet(g, Rest(T)) /\ f[SomeOf(T)] = g[SomeOf(T)]
  BY <1>1, <1>2, SomeOfIn
<1> QED
  BY <1>4, <1>5

LEMMA SumZero ==
  ASSUME NEW S, IsFiniteSet(S), NEW f, \A x \in S : f[x] = 0
  PROVE  SumFunctionOnSet(f, S) = 0
<1> DEFINE B == { T \in SUBSET S : SumFunctionOnSet(f, T) # 0 }
<1> SUFFICES ASSUME B # {} PROVE FALSE
  OBVIOUS
<1>0. B \in SUBSET (SUBSET S)
  OBVIOUS
<1>1. PICK T \in B : \A U \in SUBSET T : U # T => U \notin B
  <2> HIDE DEF B
  <2> QED
    BY <1>0, MinimalSubset
<1>2. T # {}
  BY SumEmpty
<1>3. IsFiniteSet(T)
  BY FS_Subset
<1>4. SumFunctionOnSet(f, T) = f[SomeOf(T)] + SumFunctionOnSet(f, Rest(T))
  BY <1>2, <1>3, SumRest
<1>5. SumFunctionOnSet(f, Rest(T)) = 0 /\ f[SomeOf(T)] = 0
  BY <1>1, <1>2, SomeOfIn
<1> QED
  BY <1>4, <1>5

\* The sum changes by what its only changed value changes by.
LEMMA SumChange ==
  ASSUME NEW S, IsFiniteSet(S), NEW f \in [S -> Int], NEW g \in [S -> Int],
         NEW x \in S, \A y \in S \ { x } : g[y] = f[y]
  PROVE  /\ SumFunction(f) \in Int
         /\ SumFunction(g) \in Int
         /\ SumFunction(g) = SumFunction(f) + (g[x] - f[x])
<1>1. IsFiniteSet(S \ { x })
  BY FS_Subset
<1>2. SumFunctionOnSet(f, S \ { x }) = SumFunctionOnSet(g, S \ { x })
  BY <1>1, SumSame
<1>3. SumFunctionOnSet(f, S \ { x }) \in Int /\ f[x] \in Int /\ g[x] \in Int
  BY <1>1, SumInt
<1>4. /\ SumFunctionOnSet(f, S) = f[x] + SumFunctionOnSet(f, S \ { x })
      /\ SumFunctionOnSet(g, S) = g[x] + SumFunctionOnSet(g, S \ { x })
  <2>1. (\A y \in S : f[y] \in Int) /\ (\A y \in S : g[y] \in Int)
    OBVIOUS
  <2> QED
    BY <2>1, SumRemove
<1>5. SumFunction(f) = SumFunctionOnSet(f, S) /\ SumFunction(g) = SumFunctionOnSet(g, S)
  BY DEF SumFunction
<1> QED
  BY <1>2, <1>3, <1>4, <1>5

\* The sum of a sequence, when an element is appended.
LEMMA SumAppend ==
  ASSUME NEW s \in Seq(Int), NEW n \in Int
  PROVE  SumFunction(s) \in Int /\ SumFunction(Append(s, n)) = SumFunction(s) + n
<1> DEFINE t == Append(s, n)
           m == Len(s) + 1
<1>1. /\ t \in Seq(Int) /\ Len(t) = m /\ t[m] = n /\ \A i \in 1 .. Len(s) : t[i] = s[i]
      /\ DOMAIN s = 1 .. Len(s) /\ DOMAIN t = 1 .. m /\ Len(s) \in Nat
  OBVIOUS
<1>2. IsFiniteSet(1 .. m) /\ IsFiniteSet(1 .. Len(s))
  BY <1>1, FS_Interval
<1>3. m \in 1 .. m /\ (1 .. m) \ { m } = 1 .. Len(s)
  BY <1>1
<1>4. SumFunctionOnSet(t, 1 .. m) = t[m] + SumFunctionOnSet(t, (1 .. m) \ { m })
  <2>1. \A i \in 1 .. m : t[i] \in Int
    BY <1>1
  <2> HIDE DEF t, m
  <2> QED
    BY <1>2, <1>3, <2>1, SumRemove
<1>5. SumFunctionOnSet(t, 1 .. Len(s)) = SumFunctionOnSet(s, 1 .. Len(s))
  <2> HIDE DEF t
  <2> QED
    BY <1>1, <1>2, SumSame
<1>6. SumFunctionOnSet(s, 1 .. Len(s)) \in Int
  BY <1>2, SumInt
<1> HIDE DEF t, m
<1>7. SumFunction(t) = n + SumFunctionOnSet(s, 1 .. Len(s)) /\ SumFunction(s) = SumFunctionOnSet(s, 1 .. Len(s))
  BY <1>1, <1>3, <1>4, <1>5 DEF SumFunction
<1> QED
  BY <1>6, <1>7 DEF t

\* The sum of a sequence, when its first element is taken off.
Shift(T) == { i + 1 : i \in T }

LEMMA SumShift ==
  ASSUME NEW n \in Nat, NEW f, NEW g,
         \A i \in 1 .. n : g[i] \in Int /\ f[i + 1] = g[i]
  PROVE  SumFunctionOnSet(g, 1 .. n) = SumFunctionOnSet(f, Shift(1 .. n))
<1> DEFINE S == 1 .. n
           B == { T \in SUBSET S : SumFunctionOnSet(g, T) # SumFunctionOnSet(f, Shift(T)) }
<1> SUFFICES ASSUME B # {} PROVE FALSE
  OBVIOUS
<1>0. B \in SUBSET (SUBSET S) /\ IsFiniteSet(S)
  BY FS_Interval
<1>1. PICK T \in B : \A U \in SUBSET T : U # T => U \notin B
  <2> HIDE DEF B, S
  <2> QED
    BY <1>0, MinimalSubset
<1>2. T # {}
  BY SumEmpty DEF Shift
<1>3. PICK i \in T : TRUE
  BY <1>2
<1>4. i \in S /\ T \subseteq S
  OBVIOUS
<1>5. IsFiniteSet(T) /\ IsFiniteSet(Shift(T))
  <2>1. IsFiniteSet(T)
    BY <1>0, FS_Subset
  <2>2. IsFiniteSet(2 .. (n + 1))
    <3>1. 2 \in Int /\ n + 1 \in Int
      OBVIOUS
    <3> QED
      BY <3>1, FS_Interval
  <2>3. Shift(T) \subseteq 2 .. (n + 1)
    BY <1>4 DEF Shift
  <2> QED
    BY <2>1, <2>2, <2>3, FS_Subset
<1>6. SumFunctionOnSet(g, T) = g[i] + SumFunctionOnSet(g, T \ { i })
  <2>1. \A x \in T : g[x] \in Int
    BY <1>4
  <2> QED
    BY <1>5, <2>1, SumRemove
<1>7. SumFunctionOnSet(f, Shift(T)) = f[i + 1] + SumFunctionOnSet(f, Shift(T) \ { i + 1 })
  <2>1. i + 1 \in Shift(T) /\ \A x \in Shift(T) : f[x] \in Int
    BY <1>4 DEF Shift
  <2> QED
    BY <1>5, <2>1, SumRemove
<1>8. Shift(T) \ { i + 1 } = Shift(T \ { i })
  BY <1>4 DEF Shift
<1>9. SumFunctionOnSet(g, T \ { i }) = SumFunctionOnSet(f, Shift(T \ { i }))
  <2>1. T \ { i } \in SUBSET T /\ T \ { i } # T
    OBVIOUS
  <2> QED
    BY <1>1, <2>1
<1> QED
  BY <1>4, <1>6, <1>7, <1>8, <1>9

LEMMA SumTail ==
  ASSUME NEW s \in Seq(Int), s # << >>
  PROVE  /\ SumFunction(Tail(s)) \in Int
         /\ SumFunction(s) = Head(s) + SumFunction(Tail(s))
<1> DEFINE t == Tail(s)
           n == Len(t)
<1>1. /\ t \in Seq(Int) /\ n \in Nat /\ Len(s) = n + 1
      /\ DOMAIN s = 1 .. (n + 1) /\ DOMAIN t = 1 .. n /\ Head(s) = s[1]
      /\ \A i \in 1 .. n : t[i] \in Int /\ s[i + 1] = t[i]
      /\ \A i \in 1 .. (n + 1) : s[i] \in Int
  OBVIOUS
<1> HIDE DEF t, n
<1>2. IsFiniteSet(1 .. (n + 1)) /\ IsFiniteSet(1 .. n)
  BY <1>1, FS_Interval
<1>3. SumFunctionOnSet(s, 1 .. (n + 1)) = s[1] + SumFunctionOnSet(s, (1 .. (n + 1)) \ { 1 })
  <2>1. 1 \in 1 .. (n + 1) /\ \A i \in 1 .. (n + 1) : s[i] \in Int
    BY <1>1
  <2> QED
    BY <1>2, <2>1, SumRemove
<1>4. (1 .. (n + 1)) \ { 1 } = Shift(1 .. n)
  <2>1. ASSUME NEW k \in (1 .. (n + 1)) \ { 1 } PROVE k \in Shift(1 .. n)
    <3>1. k - 1 \in 1 .. n /\ k = (k - 1) + 1
      BY <1>1
    <3>2. \E i \in 1 .. n : k = i + 1
      BY <3>1
    <3> QED
      BY <3>2 DEF Shift
  <2>2. ASSUME NEW k \in Shift(1 .. n) PROVE k \in (1 .. (n + 1)) \ { 1 }
    BY <1>1 DEF Shift
  <2> QED
    BY <2>1, <2>2
<1>5. SumFunctionOnSet(t, 1 .. n) = SumFunctionOnSet(s, Shift(1 .. n))
  BY <1>1, SumShift
<1>6. SumFunctionOnSet(t, 1 .. n) \in Int
  BY <1>1, <1>2, SumInt
<1>7. SumFunction(s) = SumFunctionOnSet(s, 1 .. (n + 1)) /\ SumFunction(t) = SumFunctionOnSet(t, 1 .. n)
  BY <1>1 DEF SumFunction
<1> QED
  BY <1>1, <1>3, <1>4, <1>5, <1>6, <1>7 DEF t

-----------------------------------------------------------------------------
(***************************************************************************)
(* In and out.                                                             *)
(***************************************************************************)
\* A worker that is not at a vector has none.
IdleInv ==
  \A w \in Worker : ~Holding(w) => worker[w].vector = NoVector /\ worker[w].ix = 0

\* What step changes what: the producers, the queue, the workers.
LEMMA BalanceTypes ==
  ASSUME TypeOK
  PROVE  /\ NotCountedIn \in [Producer -> Int] /\ SumFunction(NotCountedIn) \in Int
         /\ Queued \in Seq(Int) /\ SumFunction(Queued) \in Int
         /\ NotCountedOut \in [Worker -> Int] /\ SumFunction(NotCountedOut) \in Int
         /\ noOfIn \in Int /\ noOfOut \in Int
<1>1. NotCountedIn \in [Producer -> Int]
  BY VectorLength DEF TypeOK, NotCountedIn, ProducerState
<1>2. NotCountedOut \in [Worker -> Int]
  BY VectorLength DEF TypeOK, NotCountedOut, WorkerState
<1>3. Queued \in Seq(Int)
  <2>1. queue \in Seq(Vector) /\ DOMAIN queue = 1 .. Len(queue) /\ Len(queue) \in Nat
    BY DEF TypeOK
  <2>2. \A i \in 1 .. Len(queue) : queue[i].length \in Int
    BY <2>1, VectorLength
  <2> QED
    BY <2>1, <2>2 DEF Queued
<1>4. IsFiniteSet(Producer) /\ IsFiniteSet(Worker)
  BY NotificationQueueAssumption DEF NotificationQueueAssumption
<1>5. SumFunctionOnSet(NotCountedIn, Producer) \in Int /\ SumFunctionOnSet(NotCountedOut, Worker) \in Int
  <2>1. (\A p \in Producer : NotCountedIn[p] \in Int) /\ (\A w \in Worker : NotCountedOut[w] \in Int)
    BY <1>1, <1>2
  <2> QED
    BY <1>4, <2>1, SumInt
<1>6. DOMAIN NotCountedIn = Producer /\ DOMAIN NotCountedOut = Worker
  BY DEF NotCountedIn, NotCountedOut
<1>7. SumFunction(NotCountedIn) \in Int /\ SumFunction(NotCountedOut) \in Int
  BY <1>5, <1>6 DEF SumFunction
<1>8. SumFunction(Queued) \in Int
  <2>1. 0 \in Int
    OBVIOUS
  <2> QED
    BY <1>3, <2>1, SumAppend
<1>9. noOfIn \in Int /\ noOfOut \in Int
  BY DEF TypeOK
<1> QED
  BY <1>1, <1>2, <1>3, <1>7, <1>8, <1>9

\* A step of one producer, or of one worker, changes its own term only.
LEMMA ProducerChange ==
  ASSUME TypeOK, TypeOK', NEW p \in Producer,
         \A q \in Producer \ { p } : producer'[q] = producer[q]
  PROVE  SumFunction(NotCountedIn)' = SumFunction(NotCountedIn) + (NotCountedIn'[p] - NotCountedIn[p])
<1>1. NotCountedIn \in [Producer -> Int] /\ NotCountedIn' \in [Producer -> Int]
  <2>1. NotCountedIn' \in [Producer -> Int]
    BY VectorLength DEF TypeOK, NotCountedIn, ProducerState
  <2> QED
    BY <2>1, BalanceTypes
<1>2. \A q \in Producer \ { p } : NotCountedIn'[q] = NotCountedIn[q]
  BY DEF NotCountedIn
<1>3. IsFiniteSet(Producer)
  BY NotificationQueueAssumption DEF NotificationQueueAssumption
<1>4. SumFunction(NotCountedIn') = SumFunction(NotCountedIn) + (NotCountedIn'[p] - NotCountedIn[p])
  BY <1>1, <1>2, <1>3, SumChange
<1> QED
  BY <1>4

LEMMA WorkerChange ==
  ASSUME TypeOK, TypeOK', NEW w \in Worker,
         \A x \in Worker \ { w } : worker'[x] = worker[x]
  PROVE  SumFunction(NotCountedOut)' = SumFunction(NotCountedOut) + (NotCountedOut'[w] - NotCountedOut[w])
<1>1. NotCountedOut \in [Worker -> Int] /\ NotCountedOut' \in [Worker -> Int]
  <2>1. NotCountedOut' \in [Worker -> Int]
    <3>1. worker' \in [Worker -> WorkerState]
      BY DEF TypeOK
    <3>2. \A x \in Worker : worker'[x].vector.length \in Nat /\ worker'[x].ix \in Nat
      BY <3>1, VectorLength DEF WorkerState
    <3> QED
      BY <3>2 DEF NotCountedOut
  <2> QED
    BY <2>1, BalanceTypes
<1>2. \A x \in Worker \ { w } : NotCountedOut'[x] = NotCountedOut[x]
  BY DEF NotCountedOut
<1>3. IsFiniteSet(Worker)
  BY NotificationQueueAssumption DEF NotificationQueueAssumption
<1>4. SumFunction(NotCountedOut') = SumFunction(NotCountedOut) + (NotCountedOut'[w] - NotCountedOut[w])
  BY <1>1, <1>2, <1>3, SumChange
<1> QED
  BY <1>4

LEMMA IdleNext == TypeOK /\ IdleInv /\ [Next]_vars => IdleInv'
<1> SUFFICES ASSUME TypeOK, IdleInv, [Next]_vars PROVE IdleInv'
  OBVIOUS
<1> USE DEF Holding, Sending, IdleInv
<1>1. CASE worker' = worker
  BY <1>1
<1>2. ASSUME NEW p \in Producer, notify_one(p) PROVE IdleInv'
  <2>1. CASE worker' # worker
    <3>1. PICK w \in Waiting : worker' = [worker EXCEPT ![w].pc = "pop"]
      BY <1>2, <2>1 DEF notify_one
    <3> QED
      BY <3>1 DEF Waiting, TypeOK, WorkerState
  <2> QED
    BY <1>1, <2>1
<1>3. ASSUME NEW w \in Worker, workerFunc(w) \/ SpuriousWakeup(w) PROVE IdleInv'
  <2>1. ASSUME NEW pc, NEW ix, NEW vector, WorkerMoves(w, pc, ix, vector),
               \/ pc \in { "size", "time", "send", "incSentOK", "incSentError", "loop" }
               \/ vector = NoVector /\ ix = 0
        PROVE  IdleInv'
    BY <2>1 DEF WorkerMoves
  <2>2. WorkerStart(w) \/ PopWait(w) \/ SpuriousWakeup(w) =>
          worker[w].vector = NoVector /\ worker[w].ix = 0
    BY DEF WorkerStart, PopWait, SpuriousWakeup
  <2>3. CASE WorkerStart(w)
    <3>1. PICK pc \in { "pop", "exited" } : WorkerMoves(w, pc, worker[w].ix, worker[w].vector)
      BY <2>3, WorkerStepIs
    <3> QED
      BY <2>1, <2>2, <2>3, <3>1
  <2>4. CASE PopWait(w) \/ SpuriousWakeup(w)
    <3>1. PICK pc \in { "pop", "wait" } : WorkerMoves(w, pc, worker[w].ix, worker[w].vector)
      BY <2>4, WorkerStepIs
    <3> QED
      BY <2>1, <2>2, <2>4, <3>1
  <2>5. CASE VectorDone(w)
    <3>1. WorkerMoves(w, "pop", 0, NoVector)
      BY <2>5, WorkerStepIs
    <3> QED
      BY <2>1, <3>1
  <2>6. CASE PopTake(w) \/ incOut(w) \/ EstimateSize(w) \/ addTimeInQWithSize(w) \/ CountSent(w)
    <3>1. \E pc \in { "size", "time", "send", "loop" } : \E ix, vector : WorkerMoves(w, pc, ix, vector)
      BY <2>6, WorkerStepIs
    <3> QED
      BY <2>1, <3>1
  <2>7. CASE SendNotification(w)
    <3>1. PICK pc \in { "incSentOK", "incSentError" } : WorkerMoves(w, pc, worker[w].ix, worker[w].vector)
      BY <2>7, WorkerStepIs
    <3> QED
      BY <2>1, <3>1
  <2> QED
    BY <1>3, <2>3, <2>4, <2>5, <2>6, <2>7 DEF workerFunc
<1>4. ASSUME NEW p \in Producer, buildSenderParams(p) \/ try_push(p) \/ incIn(p) \/ incReject(p)
      PROVE  worker' = worker
  BY <1>4 DEF buildSenderParams, try_push, incIn, incReject
<1> QED
  BY <1>1, <1>2, <1>3, <1>4 DEF Next, Enqueue, vars

LEMMA InOutNext ==
  TypeOK /\ TypeOK' /\ IdleInv /\ InOutBalance /\ [Next]_vars => InOutBalance'
<1> SUFFICES ASSUME TypeOK, TypeOK', IdleInv, InOutBalance, [Next]_vars PROVE InOutBalance'
  OBVIOUS
<1> DEFINE ins == SumFunction(NotCountedIn)
           queued == SumFunction(Queued)
           outs == SumFunction(NotCountedOut)
<1>0. /\ noOfIn \in Int /\ noOfOut \in Int /\ ins \in Int /\ queued \in Int /\ outs \in Int
      /\ noOfIn + ins = noOfOut + queued + outs
  BY BalanceTypes DEF InOutBalance
<1>a. InOutBalance' <=> noOfIn' + ins' = noOfOut' + queued' + outs'
  BY DEF InOutBalance
<1>b. queue' = queue => queued' = queued
  BY DEF Queued
<1>c. worker' = worker => outs' = outs
  BY DEF NotCountedOut
<1>d. producer' = producer => ins' = ins
  BY DEF NotCountedIn
<1>e. ASSUME NEW p \in Producer
      PROVE  NotCountedIn[p] = IF producer[p].pc \in { "notify", "countIn" } THEN producer[p].vector.length ELSE 0
  BY DEF NotCountedIn
<1>f. ASSUME NEW p \in Producer
      PROVE  NotCountedIn'[p] = IF producer'[p].pc \in { "notify", "countIn" } THEN producer'[p].vector.length ELSE 0
  BY DEF NotCountedIn
<1>g. ASSUME NEW p \in Producer PROVE producer[p].vector \in Vector /\ producer[p].vector.length \in Int
  BY VectorLength DEF TypeOK, ProducerState
<1>h. ASSUME NEW w \in Worker PROVE worker[w].vector.length \in Int /\ worker[w].ix \in Int
  <2>1. worker[w] \in WorkerState
    BY DEF TypeOK
  <2> QED
    BY <2>1, VectorLength DEF WorkerState
<1>i. ASSUME NEW w \in Worker
      PROVE  NotCountedOut[w] = worker[w].vector.length - worker[w].ix
               - IF worker[w].pc \in { "size", "time", "send", "incSentOK", "incSentError" } THEN 1 ELSE 0
  BY DEF NotCountedOut
<1>j. ASSUME NEW w \in Worker
      PROVE  NotCountedOut'[w] = worker'[w].vector.length - worker'[w].ix
               - IF worker'[w].pc \in { "size", "time", "send", "incSentOK", "incSentError" } THEN 1 ELSE 0
  BY DEF NotCountedOut
<1> HIDE DEF ins, queued, outs
<1>1. ASSUME NEW p \in Producer, buildSenderParams(p) PROVE InOutBalance'
  <2>1. /\ \A q \in Producer \ { p } : producer'[q] = producer[q]
        /\ producer[p].pc = "idle" /\ producer'[p].pc = "push"
        /\ UNCHANGED << queue, worker, noOfIn, noOfOut >>
    BY <1>1 DEF buildSenderParams, statistics, TypeOK
  <2>2. ins' = ins
    <3>1. ins' = ins + (NotCountedIn'[p] - NotCountedIn[p])
      BY <2>1, ProducerChange DEF ins
    <3> QED
      BY <1>0, <1>e, <1>f, <2>1, <3>1
  <2> QED
    BY <1>0, <1>a, <1>b, <1>c, <2>1, <2>2
<1>2. ASSUME NEW p \in Producer, try_push(p) PROVE InOutBalance'
  <2>1. /\ \A q \in Producer \ { p } : producer'[q] = producer[q]
        /\ producer[p].pc = "push" /\ producer'[p].vector = producer[p].vector
        /\ UNCHANGED << worker, noOfIn, noOfOut >>
    BY <1>2 DEF try_push, statistics, TypeOK, ProducerState
  <2>2. ins' = ins + (NotCountedIn'[p] - NotCountedIn[p])
    BY <2>1, ProducerChange DEF ins
  <2>3. CASE Len(queue) < QueueSize
    <3> DEFINE v == producer[p].vector
    <3>1. queue' = Append(queue, v) /\ producer'[p].pc = "notify"
      BY <1>2, <2>3 DEF try_push, TypeOK, ProducerState
    <3>2. queue \in Seq(Vector) /\ v \in Vector
      BY <1>g DEF TypeOK
    <3>3. Queued' = Append(Queued, v.length)
      <4>1. Queued' = [i \in DOMAIN Append(queue, v) |-> Append(queue, v)[i].length]
        BY <3>1 DEF Queued
      <4>2. /\ Queued \in Seq(Int) /\ Len(Queued) = Len(queue) /\ Len(queue) \in Nat
            /\ DOMAIN Append(queue, v) = 1 .. (Len(queue) + 1)
        BY <3>2, BalanceTypes DEF Queued
      <4>3. \A i \in 1 .. Len(queue) : Append(queue, v)[i] = queue[i] /\ Queued[i] = queue[i].length
        BY <3>2 DEF Queued
      <4>4. Append(queue, v)[Len(queue) + 1] = v
        BY <3>2
      <4>5. Append(Queued, v.length) = [i \in 1 .. (Len(queue) + 1) |->
               IF i = Len(queue) + 1 THEN v.length ELSE Queued[i]]
        BY <4>2, <1>g
      <4> HIDE DEF v
      <4>6. ASSUME NEW i \in 1 .. (Len(queue) + 1)
            PROVE  Append(queue, v)[i].length = IF i = Len(queue) + 1 THEN v.length ELSE Queued[i]
        BY <4>2, <4>3, <4>4
      <4> QED
        BY <4>1, <4>2, <4>5, <4>6
    <3>4. queued' = queued + v.length
      BY <1>g, <3>3, BalanceTypes, SumAppend DEF queued
    <3>5. ins' = ins + v.length
      BY <1>0, <1>e, <1>f, <1>g, <2>1, <2>2, <3>1
    <3> HIDE DEF v
    <3>6. v.length \in Int
      BY <1>g DEF v
    <3> QED
      BY <1>0, <1>a, <1>c, <2>1, <3>4, <3>5, <3>6
  <2>4. CASE ~(Len(queue) < QueueSize)
    <3>1. queue' = queue /\ producer'[p].pc = "reject"
      BY <1>2, <2>4 DEF try_push, TypeOK, ProducerState
    <3> QED
      BY <1>0, <1>a, <1>b, <1>c, <1>e, <1>f, <2>1, <2>2, <3>1
  <2> QED
    BY <2>3, <2>4
<1>3. ASSUME NEW p \in Producer, notify_one(p) PROVE InOutBalance'
  <2>1. /\ \A q \in Producer \ { p } : producer'[q] = producer[q]
        /\ producer[p].pc = "notify" /\ producer'[p].pc = "countIn"
        /\ producer'[p].vector = producer[p].vector
        /\ UNCHANGED << queue, noOfIn, noOfOut >>
    BY <1>3 DEF notify_one, statistics, TypeOK, ProducerState
  <2>2. ins' = ins
    <3>1. ins' = ins + (NotCountedIn'[p] - NotCountedIn[p])
      BY <2>1, ProducerChange DEF ins
    <3> QED
      BY <1>0, <1>e, <1>f, <1>g, <2>1, <3>1
  <2>3. outs' = outs
    <3>1. CASE worker' = worker
      BY <1>c, <3>1
    <3>2. CASE worker' # worker
      <4>1. PICK w \in Waiting : worker' = [worker EXCEPT ![w].pc = "pop"]
        BY <1>3, <3>2 DEF notify_one
      <4>2. /\ w \in Worker /\ worker[w].pc = "wait" /\ worker'[w].pc = "pop"
            /\ worker'[w].vector = worker[w].vector /\ worker'[w].ix = worker[w].ix
            /\ \A x \in Worker \ { w } : worker'[x] = worker[x]
        BY <4>1 DEF Waiting, TypeOK, WorkerState
      <4>3. outs' = outs + (NotCountedOut'[w] - NotCountedOut[w])
        BY <4>2, WorkerChange DEF outs
      <4> QED
        BY <1>0, <1>h, <1>i, <1>j, <4>2, <4>3
    <3> QED
      BY <3>1, <3>2
  <2> QED
    BY <1>0, <1>a, <1>b, <2>1, <2>2, <2>3
<1>4. ASSUME NEW p \in Producer, incIn(p) PROVE InOutBalance'
  <2>1. /\ \A q \in Producer \ { p } : producer'[q] = producer[q]
        /\ producer[p].pc = "countIn" /\ producer'[p].pc = "idle"
        /\ noOfIn' = noOfIn + producer[p].vector.length
        /\ UNCHANGED << queue, worker, noOfOut >>
    BY <1>4 DEF incIn, ProducerDone, TypeOK, ProducerState
  <2>2. ins' = ins + (NotCountedIn'[p] - NotCountedIn[p])
    BY <2>1, ProducerChange DEF ins
  <2>3. ins' = ins - producer[p].vector.length
    BY <1>0, <1>e, <1>f, <1>g, <2>1, <2>2
  <2> QED
    BY <1>0, <1>a, <1>b, <1>c, <1>g, <2>1, <2>3
<1>5. ASSUME NEW p \in Producer, incReject(p) PROVE InOutBalance'
  <2>1. /\ \A q \in Producer \ { p } : producer'[q] = producer[q]
        /\ producer[p].pc = "reject" /\ producer'[p].pc = "idle"
        /\ UNCHANGED << queue, worker, noOfIn, noOfOut >>
    BY <1>5 DEF incReject, ProducerDone, TypeOK, ProducerState
  <2>2. ins' = ins + (NotCountedIn'[p] - NotCountedIn[p])
    BY <2>1, ProducerChange DEF ins
  <2> QED
    BY <1>0, <1>a, <1>b, <1>c, <1>e, <1>f, <2>1, <2>2
<1>6. ASSUME NEW w \in Worker, NEW pc, NEW ix, NEW vector, WorkerMoves(w, pc, ix, vector)
      PROVE  outs' = outs + (NotCountedOut'[w] - NotCountedOut[w])
  BY <1>6, WorkerChange DEF WorkerMoves, outs
<1>7. ASSUME NEW w \in Worker, PopTake(w) PROVE InOutBalance'
  <2>1. WorkerMoves(w, "loop", 0, Head(queue))
    BY <1>7, WorkerStepIs
  <2>2. outs' = outs + (NotCountedOut'[w] - NotCountedOut[w])
    BY <1>6, <2>1
  <2>3. /\ queue \in Seq(Vector) /\ queue # << >> /\ queue' = Tail(queue)
        /\ UNCHANGED << producer, noOfIn, noOfOut >> /\ worker[w].pc = "pop"
    BY <1>7 DEF PopTake, TypeOK, statistics
  <2>4. NotCountedOut[w] = 0
    <3>1. worker[w].vector = NoVector /\ worker[w].ix = 0
      BY <2>3 DEF IdleInv, Holding, Sending
    <3> QED
      BY <1>i, <2>3, <3>1 DEF NoVector
  <2>5. Head(queue) \in Vector /\ Head(queue).length \in Int
    BY <2>3, VectorLength
  <2>6. NotCountedOut'[w] = Head(queue).length
    BY <1>j, <2>1, <2>5 DEF WorkerMoves
  <2>7. Queued' = Tail(Queued) /\ Head(Queued) = Head(queue).length /\ Queued # << >>
    <3> DEFINE n == Len(queue)
    <3>1. n \in Nat /\ n >= 1 /\ DOMAIN queue = 1 .. n /\ Head(queue) = queue[1]
      BY <2>3
    <3>2. Queued \in Seq(Int) /\ Len(Queued) = n /\ \A i \in 1 .. n : Queued[i] = queue[i].length
      BY <3>1, BalanceTypes DEF Queued
    <3>3. Queued # << >> /\ Head(Queued) = Queued[1]
      BY <3>1, <3>2
    <3>4. Tail(Queued) = [i \in 1 .. (n - 1) |-> Queued[i + 1]]
      <4>1. /\ Tail(Queued) \in Seq(Int) /\ DOMAIN Tail(Queued) = 1 .. (n - 1)
            /\ \A i \in 1 .. (n - 1) : Tail(Queued)[i] = Queued[i + 1]
        BY <3>1, <3>2, <3>3
      <4>2. ASSUME NEW s \in Seq(Int) PROVE s = [i \in DOMAIN s |-> s[i]]
        OBVIOUS
      <4>3. Tail(Queued) = [i \in DOMAIN Tail(Queued) |-> Tail(Queued)[i]]
        BY <4>1, <4>2
      <4> QED
        BY <4>1, <4>3
    <3>5. DOMAIN Tail(queue) = 1 .. (n - 1) /\ \A i \in 1 .. (n - 1) : Tail(queue)[i] = queue[i + 1]
      BY <2>3, <3>1
    <3>6. Queued' = [i \in DOMAIN Tail(queue) |-> Tail(queue)[i].length]
      BY <2>3 DEF Queued
    <3> HIDE DEF n
    <3>7. \A i \in 1 .. (n - 1) : i + 1 \in 1 .. n
      BY <3>1
    <3> QED
      BY <3>1, <3>2, <3>3, <3>4, <3>5, <3>6, <3>7
  <2>8. queued' \in Int /\ queued = Head(queue).length + queued'
    BY <2>7, BalanceTypes, SumTail DEF queued
  <2>9. outs' = outs + Head(queue).length
    BY <1>0, <2>2, <2>4, <2>5, <2>6
  <2>10. queued' = queued - Head(queue).length
    <3>1. \A a, b, c \in Int : a = b + c => c = a - b
      OBVIOUS
    <3> QED
      BY <1>0, <2>5, <2>8, <3>1
  <2>11. noOfIn' = noOfIn /\ noOfOut' = noOfOut /\ ins' = ins
    BY <1>d, <2>3
  <2>12. ASSUME NEW n \in Int, queued' = queued - n, outs' = outs + n
         PROVE  InOutBalance'
    BY <1>0, <1>a, <2>11, <2>12
  <2> QED
    BY <2>5, <2>9, <2>10, <2>12
<1>8. ASSUME NEW w \in Worker,
             \/ WorkerStart(w) \/ PopWait(w) \/ SpuriousWakeup(w) \/ incOut(w) \/ EstimateSize(w)
             \/ addTimeInQWithSize(w) \/ SendNotification(w) \/ CountSent(w) \/ VectorDone(w)
      PROVE  InOutBalance'
  <2>1. UNCHANGED << queue, producer, noOfIn >>
    BY <1>8 DEF WorkerStart, PopWait, SpuriousWakeup, incOut, EstimateSize, addTimeInQWithSize,
                SendNotification, CountSent, VectorDone, statistics
  <2>2. ASSUME NEW pc, NEW ix, NEW vector, WorkerMoves(w, pc, ix, vector),
               NotCountedOut'[w] = NotCountedOut[w] + (noOfOut - noOfOut'), noOfOut' \in Int
        PROVE  InOutBalance'
    <3>1. outs' = outs + (NotCountedOut'[w] - NotCountedOut[w])
      BY <1>6, <2>2
    <3>2. NotCountedOut[w] \in Int
      BY BalanceTypes
    <3> QED
      BY <1>0, <1>a, <1>b, <1>d, <2>1, <2>2, <3>1, <3>2
  <2>3. CASE WorkerStart(w)
    <3>1. PICK pc \in { "pop", "exited" } : WorkerMoves(w, pc, worker[w].ix, worker[w].vector)
      BY <2>3, WorkerStepIs
    <3>2. noOfOut' = noOfOut /\ worker[w].pc = "start"
      BY <2>3 DEF WorkerStart, statistics
    <3>3. NotCountedOut'[w] = NotCountedOut[w]
      BY <1>h, <1>i, <1>j, <3>1, <3>2 DEF WorkerMoves
    <3> QED
      BY <1>0, <2>2, <3>1, <3>2, <3>3, BalanceTypes
  <2>4. CASE PopWait(w) \/ SpuriousWakeup(w)
    <3>1. PICK pc \in { "pop", "wait" } : WorkerMoves(w, pc, worker[w].ix, worker[w].vector)
      BY <2>4, WorkerStepIs
    <3>2. noOfOut' = noOfOut /\ worker[w].pc \in { "pop", "wait" }
      BY <2>4 DEF PopWait, SpuriousWakeup, statistics
    <3>3. NotCountedOut'[w] = NotCountedOut[w]
      BY <1>h, <1>i, <1>j, <3>1, <3>2 DEF WorkerMoves
    <3> QED
      BY <1>0, <2>2, <3>1, <3>2, <3>3, BalanceTypes
  <2>5. CASE incOut(w)
    <3>1. WorkerMoves(w, "size", worker[w].ix, worker[w].vector)
      BY <2>5, WorkerStepIs
    <3>2. noOfOut' = noOfOut + 1 /\ worker[w].pc = "loop"
      BY <2>5 DEF incOut
    <3>3. NotCountedOut'[w] = NotCountedOut[w] - 1
      BY <1>h, <1>i, <1>j, <3>1, <3>2 DEF WorkerMoves
    <3>4. noOfOut' \in Int /\ NotCountedOut'[w] = NotCountedOut[w] + (noOfOut - noOfOut')
      BY <1>0, <3>2, <3>3, BalanceTypes
    <3> QED
      BY <2>2, <3>1, <3>4
  <2>6. CASE EstimateSize(w) \/ addTimeInQWithSize(w) \/ SendNotification(w)
    <3>1. PICK pc \in { "time", "send", "incSentOK", "incSentError" } :
            WorkerMoves(w, pc, worker[w].ix, worker[w].vector)
      BY <2>6, WorkerStepIs
    <3>2. noOfOut' = noOfOut /\ worker[w].pc \in { "size", "time", "send" }
      BY <2>6 DEF EstimateSize, addTimeInQWithSize, SendNotification, statistics
    <3>3. NotCountedOut'[w] = NotCountedOut[w]
      BY <1>h, <1>i, <1>j, <3>1, <3>2 DEF WorkerMoves
    <3> QED
      BY <1>0, <2>2, <3>1, <3>2, <3>3, BalanceTypes
  <2>7. CASE CountSent(w)
    <3>1. WorkerMoves(w, "loop", worker[w].ix + 1, worker[w].vector)
      BY <2>7, WorkerStepIs
    <3>2. noOfOut' = noOfOut /\ worker[w].pc \in { "incSentOK", "incSentError" }
      BY <2>7 DEF CountSent
    <3>3. NotCountedOut'[w] = NotCountedOut[w]
      BY <1>h, <1>i, <1>j, <3>1, <3>2 DEF WorkerMoves
    <3> QED
      BY <1>0, <2>2, <3>1, <3>2, <3>3, BalanceTypes
  <2>8. CASE VectorDone(w)
    <3>1. WorkerMoves(w, "pop", 0, NoVector)
      BY <2>8, WorkerStepIs
    <3>2. noOfOut' = noOfOut /\ worker[w].pc = "loop" /\ worker[w].ix = worker[w].vector.length
      BY <2>8 DEF VectorDone, statistics
    <3>3. NotCountedOut'[w] = NotCountedOut[w]
      BY <1>h, <1>i, <1>j, <3>1, <3>2 DEF WorkerMoves, NoVector
    <3> QED
      BY <1>0, <2>2, <3>1, <3>2, <3>3, BalanceTypes
  <2> QED
    BY <1>8, <2>3, <2>4, <2>5, <2>6, <2>7, <2>8
<1>9. CASE UNCHANGED vars
  BY <1>0, <1>9, <1>a, <1>b, <1>c, <1>d DEF vars, statistics
<1> QED
  BY <1>1, <1>2, <1>3, <1>4, <1>5, <1>7, <1>8, <1>9 DEF Next, Enqueue, workerFunc

\* The counters of QueueStatistics agree with one another at every moment: what went in is
\* what went out and what is still in the queue or in hand, and what went out is what has
\* been sent, well or badly, and what the workers are at.
THEOREM StatisticsAgree == Spec => []StatisticsBalance
<1>1. Init => IdleInv /\ InOutBalance
  <2> SUFFICES ASSUME Init PROVE IdleInv /\ InOutBalance
    OBVIOUS
  <2>1. IdleInv
    BY DEF Init, IdleInv
  <2>2. \A p \in Producer : NotCountedIn[p] = 0
    BY DEF Init, NotCountedIn
  <2>3. \A w \in Worker : NotCountedOut[w] = 0
    BY DEF Init, NotCountedOut, NoVector
  <2>4. Queued = << >>
    BY DEF Init, Queued
  <2>5. IsFiniteSet(Producer) /\ IsFiniteSet(Worker)
    BY NotificationQueueAssumption DEF NotificationQueueAssumption
  <2>6. DOMAIN NotCountedIn = Producer /\ DOMAIN NotCountedOut = Worker /\ DOMAIN Queued = {}
    BY <2>4 DEF NotCountedIn, NotCountedOut
  <2>7. SumFunction(NotCountedIn) = 0 /\ SumFunction(NotCountedOut) = 0 /\ SumFunction(Queued) = 0
    BY <2>2, <2>3, <2>5, <2>6, SumZero, SumEmpty DEF SumFunction
  <2>8. InOutBalance
    BY <2>7 DEF Init, InOutBalance
  <2> QED
    BY <2>1, <2>8
<1>2. (TypeOK /\ IdleInv /\ InOutBalance) /\ [Next]_vars => (TypeOK /\ IdleInv /\ InOutBalance)'
  BY TypeNext, IdleNext, InOutNext
<1>3. Spec => []InOutBalance
  BY <1>1, <1>2, TypeInit, PTL DEF Spec
<1>4. InOutBalance /\ OutSentBalance => StatisticsBalance
  BY DEF StatisticsBalance
<1> QED
  BY <1>3, <1>4, OutIsSentOrInHand, PTL
=============================================================================
