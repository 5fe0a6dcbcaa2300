-------------------------- MODULE NotificationQueue --------------------------
(***************************************************************************)
(* -notificationMode threadpool: QueueNotifier (src/lib/ngsiNotify) pushes *)
(* the notifications of a request, as one vector, onto a bounded queue     *)
(* (SyncQOverflow, src/lib/common) from which a fixed set of worker        *)
(* threads takes them; QueueStatistics counts what goes in and out.        *)
(*                                                                         *)
(* try_push and pop hold the mutex of the queue from end to end, except    *)
(* that pop waits on the condition variable and that try_push signals it   *)
(* after it has released the mutex.  The counters are atomic, each one a   *)
(* step of its own.  A vector is an identifier and a length; the length is *)
(* 0 when buildSenderParams gives up.                                      *)
(***************************************************************************)
EXTENDS Integers, Sequences, FiniteSets, Functions, SequencesExt

CONSTANTS
  Producer,     \* threads that serve the requests that trigger notifications
  Worker,       \* the worker threads
  QueueSize,    \* size of the queue, in vectors
  MaxVectors,   \* bound on the vectors submitted
  MaxLength,    \* bound on the notifications of a vector
  MaxExits      \* bound on the workers that exit because curl_easy_init fails

ASSUME NotificationQueueAssumption ==
  /\ IsFiniteSet(Producer) /\ IsFiniteSet(Worker) /\ Worker # {}
  /\ QueueSize \in Nat \ { 0 }
  /\ { MaxVectors, MaxLength, MaxExits } \subseteq Nat

VARIABLES
  queue,       \* the queue: a sequence of vectors
  producer,    \* what every producer is doing
  worker,      \* what every worker is doing
  noOfIn, noOfOut, noOfReject, noOfSentOK, noOfSentError,   \* QueueStatistics
  reportedSize \* QueueStatistics::queueSize

\* History variables.
VARIABLES
  submitted,   \* vectors handed to sendNotifyContextRequest
  accepted,    \* the vectors the queue has taken, in order
  attempts     \* vector id -> notifications of it that have been attempted

statistics == << noOfIn, noOfOut, noOfReject, noOfSentOK, noOfSentError, reportedSize >>
history == << submitted, accepted, attempts >>
vars == << queue, producer, worker, statistics, history >>

Ids == 1 .. MaxVectors
Vector == [id : Ids \cup { 0 }, length : 0 .. MaxLength]
NoVector == [id |-> 0, length |-> 0]

Init ==
  /\ queue = << >>
  /\ producer = [p \in Producer |-> [pc |-> "idle", vector |-> NoVector]]
  /\ worker = [w \in Worker |-> [pc |-> "start", vector |-> NoVector, ix |-> 0, size |-> 0]]
  /\ noOfIn = 0 /\ noOfOut = 0 /\ noOfReject = 0 /\ noOfSentOK = 0 /\ noOfSentError = 0
  /\ reportedSize = 0
  /\ submitted = 0
  /\ accepted = << >>
  /\ attempts = [i \in Ids |-> 0]

-----------------------------------------------------------------------------
(***************************************************************************)
(* QueueNotifier::sendNotifyContextRequest.                                *)
(***************************************************************************)
buildSenderParams(p) ==
  /\ producer[p].pc = "idle"
  /\ submitted < MaxVectors
  /\ submitted' = submitted + 1
  /\ \E n \in 0 .. MaxLength :
       producer' = [producer EXCEPT ![p] = [pc |-> "push",
                                            vector |-> [id |-> submitted + 1, length |-> n]]]
  /\ UNCHANGED << queue, worker, statistics, accepted, attempts >>

\* Mutant: the test for a full queue is off by one.
try_push_OffByOne(p) ==
  /\ producer[p].pc = "push"
  /\ IF Len(queue) <= QueueSize
     THEN /\ queue' = Append(queue, producer[p].vector)
          /\ accepted' = Append(accepted, producer[p].vector)
          /\ producer' = [producer EXCEPT ![p].pc = "notify"]
     ELSE /\ producer' = [producer EXCEPT ![p].pc = "reject"]
          /\ UNCHANGED << queue, accepted >>
  /\ UNCHANGED << worker, statistics, submitted, attempts >>

try_push(p) ==
  /\ producer[p].pc = "push"
  /\ IF Len(queue) < QueueSize
     THEN /\ queue' = Append(queue, producer[p].vector)
          /\ accepted' = Append(accepted, producer[p].vector)
          /\ producer' = [producer EXCEPT ![p].pc = "notify"]
     ELSE /\ producer' = [producer EXCEPT ![p].pc = "reject"]
          /\ UNCHANGED << queue, accepted >>
  /\ UNCHANGED << worker, statistics, submitted, attempts >>

Waiting == { w \in Worker : worker[w].pc = "wait" }

\* Mutant: the signal is sent only when the queue was empty before the push.
notify_one_IfWasEmpty(p) ==
  /\ producer[p].pc = "notify"
  /\ producer' = [producer EXCEPT ![p].pc = "countIn"]
  /\ IF Waiting = {} \/ Len(queue) # 1
     THEN UNCHANGED worker
     ELSE \E w \in Waiting : worker' = [worker EXCEPT ![w].pc = "pop"]
  /\ UNCHANGED << queue, statistics, history >>

\* Mutant: no signal is sent.
notify_one_Never(p) ==
  /\ producer[p].pc = "notify"
  /\ producer' = [producer EXCEPT ![p].pc = "countIn"]
  /\ UNCHANGED << queue, worker, statistics, history >>

\* addedElement.notify_one(): one of the waiting workers, if there is one.
notify_one(p) ==
  /\ producer[p].pc = "notify"
  /\ producer' = [producer EXCEPT ![p].pc = "countIn"]
  /\ IF Waiting = {}
     THEN UNCHANGED worker
     ELSE \E w \in Waiting : worker' = [worker EXCEPT ![w].pc = "pop"]
  /\ UNCHANGED << queue, statistics, history >>

ProducerDone(p) == producer' = [producer EXCEPT ![p] = [pc |-> "idle", vector |-> NoVector]]

\* Mutant: vectors are counted instead of notifications.
incIn_One(p) ==
  /\ producer[p].pc = "countIn"
  /\ noOfIn' = noOfIn + 1
  /\ ProducerDone(p)
  /\ UNCHANGED << queue, worker, noOfOut, noOfReject, noOfSentOK, noOfSentError, reportedSize, history >>

incIn(p) ==
  /\ producer[p].pc = "countIn"
  /\ noOfIn' = noOfIn + producer[p].vector.length
  /\ ProducerDone(p)
  /\ UNCHANGED << queue, worker, noOfOut, noOfReject, noOfSentOK, noOfSentError, reportedSize, history >>

incReject(p) ==
  /\ producer[p].pc = "reject"
  /\ noOfReject' = noOfReject + producer[p].vector.length
  /\ ProducerDone(p)
  /\ UNCHANGED << queue, worker, noOfIn, noOfOut, noOfSentOK, noOfSentError, reportedSize, history >>

-----------------------------------------------------------------------------
(***************************************************************************)
(* workerFunc.                                                             *)
(***************************************************************************)
Exited == { w \in Worker : worker[w].pc = "exited" }

WorkerStart(w) ==
  /\ worker[w].pc = "start"
  /\ \E curl \in BOOLEAN :
       /\ ~curl => Cardinality(Exited) < MaxExits
       /\ worker' = [worker EXCEPT ![w].pc = IF curl THEN "pop" ELSE "exited"]
  /\ UNCHANGED << queue, producer, statistics, history >>

\* while (queue.empty()) addedElement.wait(lock): test and wait are atomic.
PopWait(w) ==
  /\ worker[w].pc = "pop"
  /\ queue = << >>
  /\ worker' = [worker EXCEPT ![w].pc = "wait"]
  /\ UNCHANGED << queue, producer, statistics, history >>

\* A condition variable may wake a waiter without a signal.
SpuriousWakeup(w) ==
  /\ worker[w].pc = "wait"
  /\ worker' = [worker EXCEPT ![w].pc = "pop"]
  /\ UNCHANGED << queue, producer, statistics, history >>

\* Mutant: front without pop.
PopTake_Peek(w) ==
  /\ worker[w].pc = "pop"
  /\ queue # << >>
  /\ worker' = [worker EXCEPT ![w].pc = "loop", ![w].vector = Head(queue), ![w].ix = 0]
  /\ UNCHANGED << queue, producer, statistics, history >>

PopTake(w) ==
  /\ worker[w].pc = "pop"
  /\ queue # << >>
  /\ queue' = Tail(queue)
  /\ worker' = [worker EXCEPT ![w].pc = "loop", ![w].vector = Head(queue), ![w].ix = 0]
  /\ UNCHANGED << producer, statistics, history >>

incOut(w) ==
  /\ worker[w].pc = "loop"
  /\ worker[w].ix < worker[w].vector.length
  /\ noOfOut' = noOfOut + 1
  /\ worker' = [worker EXCEPT ![w].pc = "size"]
  /\ UNCHANGED << queue, producer, noOfIn, noOfReject, noOfSentOK, noOfSentError, reportedSize, history >>

\* estimatedQSize = queue->size()
EstimateSize(w) ==
  /\ worker[w].pc = "size"
  /\ worker' = [worker EXCEPT ![w].pc = "time", ![w].size = Len(queue)]
  /\ UNCHANGED << queue, producer, statistics, history >>

addTimeInQWithSize(w) ==
  /\ worker[w].pc = "time"
  /\ reportedSize' = worker[w].size
  /\ worker' = [worker EXCEPT ![w].pc = "send", ![w].size = 0]
  /\ UNCHANGED << queue, producer, noOfIn, noOfOut, noOfReject, noOfSentOK, noOfSentError, history >>

\* The notification is sent, over HTTP or MQTT; it succeeds or fails.
SendNotification(w) ==
  /\ worker[w].pc = "send"
  /\ attempts' = [attempts EXCEPT ![worker[w].vector.id] = @ + 1]
  /\ \E r \in { "incSentOK", "incSentError" } : worker' = [worker EXCEPT ![w].pc = r]
  /\ UNCHANGED << queue, producer, statistics, submitted, accepted >>

\* Mutant: the loop ends after a failed notification.
CountSent_StopOnError(w) ==
  /\ worker[w].pc \in { "incSentOK", "incSentError" }
  /\ noOfSentOK' = noOfSentOK + IF worker[w].pc = "incSentOK" THEN 1 ELSE 0
  /\ noOfSentError' = noOfSentError + IF worker[w].pc = "incSentError" THEN 1 ELSE 0
  /\ worker' = [worker EXCEPT ![w].pc = "loop",
                              ![w].ix = IF worker[w].pc = "incSentOK" THEN @ + 1
                                        ELSE worker[w].vector.length]
  /\ UNCHANGED << queue, producer, noOfIn, noOfOut, noOfReject, reportedSize, history >>

\* incSentOK or incSentError, and on to the next notification of the vector.
CountSent(w) ==
  /\ worker[w].pc \in { "incSentOK", "incSentError" }
  /\ noOfSentOK' = noOfSentOK + IF worker[w].pc = "incSentOK" THEN 1 ELSE 0
  /\ noOfSentError' = noOfSentError + IF worker[w].pc = "incSentError" THEN 1 ELSE 0
  /\ worker' = [worker EXCEPT ![w].pc = "loop", ![w].ix = @ + 1]
  /\ UNCHANGED << queue, producer, noOfIn, noOfOut, noOfReject, reportedSize, history >>

\* delete paramsV
VectorDone(w) ==
  /\ worker[w].pc = "loop"
  /\ worker[w].ix = worker[w].vector.length
  /\ worker' = [worker EXCEPT ![w].pc = "pop", ![w].vector = NoVector, ![w].ix = 0]
  /\ UNCHANGED << queue, producer, statistics, history >>

-----------------------------------------------------------------------------
\* The rest of sendNotifyContextRequest.
Enqueue(p) == try_push(p) \/ notify_one(p) \/ incIn(p) \/ incReject(p)

workerFunc(w) ==
  \/ WorkerStart(w) \/ PopWait(w) \/ PopTake(w) \/ incOut(w) \/ EstimateSize(w)
  \/ addTimeInQWithSize(w) \/ SendNotification(w) \/ CountSent(w) \/ VectorDone(w)

Next ==
  \/ \E p \in Producer : buildSenderParams(p) \/ Enqueue(p)
  \/ \E w \in Worker : workerFunc(w) \/ SpuriousWakeup(w)

Spec == Init /\ [][Next]_vars

\* Threads run, and a notification attempt ends (it has a timeout).  Nothing makes
\* buildSenderParams or a spurious wakeup happen.
FairSpec ==
  /\ Spec
  /\ \A p \in Producer : WF_vars(Enqueue(p))
  /\ \A w \in Worker : WF_vars(workerFunc(w))

-----------------------------------------------------------------------------
(***************************************************************************)
(* Properties.                                                             *)
(***************************************************************************)
ProducerState ==
  [pc : { "idle", "push", "notify", "countIn", "reject" }, vector : Vector]

WorkerState ==
  [pc : { "start", "exited", "pop", "wait", "loop", "size", "time", "send", "incSentOK",
          "incSentError" },
   vector : Vector, ix : Nat, size : 0 .. QueueSize]

\* The variables have their types; the queue never exceeds its size (try_push).
TypeOK ==
  /\ queue \in Seq(Vector) /\ Len(queue) <= QueueSize
  /\ producer \in [Producer -> ProducerState]
  /\ worker \in [Worker -> WorkerState]
  /\ noOfIn \in Nat /\ noOfOut \in Nat /\ noOfReject \in Nat
  /\ noOfSentOK \in Nat /\ noOfSentError \in Nat /\ reportedSize \in 0 .. QueueSize
  /\ submitted \in 0 .. MaxVectors
  /\ accepted \in Seq(Vector)
  /\ attempts \in [Ids -> Nat]

Notifying == { p \in Producer : producer[p].pc = "notify" }

\* No wakeup is lost: with a vector in the queue, a worker is on its way to the
\* queue or busy, or a signal is still to be sent for it.  The signal is sent after
\* the mutex has been released, and the worker it wakes may find that another one has
\* taken the vector.
NoLostWakeup ==
  queue # << >> =>
    \/ Waiting \cup Exited # Worker
    \/ Notifying # {}
    \/ Exited = Worker

\* Why no wakeup is lost: as long as a worker waits, there are at most as many vectors
\* in the queue as there are signals still to be sent and workers about to look.  (The
\* inductive form of NoLostWakeup: it also says that a signal which woke a worker too
\* late has been made up for by the worker that took the vector.)
Looking == { w \in Worker : worker[w].pc = "pop" }

EnoughWakeups == Waiting # {} => Len(queue) <= Cardinality(Notifying) + Cardinality(Looking)

\* Notifications that have been pushed and not yet counted as in, by producer.
NotCountedIn ==
  [p \in Producer |->
    IF producer[p].pc \in { "notify", "countIn" } THEN producer[p].vector.length ELSE 0]

\* Notifications in the queue, by position.
Queued == [i \in DOMAIN queue |-> queue[i].length]

\* Notifications of the vector of a worker that have not been counted as out.
NotCountedOut ==
  [w \in Worker |->
    worker[w].vector.length - worker[w].ix
    - IF worker[w].pc \in { "size", "time", "send", "incSentOK", "incSentError" } THEN 1 ELSE 0]

\* in with out: what the producers have pushed and not yet counted (the count of what
\* went in comes after the push, when workers may already count it out), and what is in
\* the queue or with a worker and not yet counted out.
InOutBalance ==
  noOfIn + SumFunction(NotCountedIn)
  = noOfOut + SumFunction(Queued) + SumFunction(NotCountedOut)

\* The workers between the counting of a notification as out and as sent.
Sending ==
  { w \in Worker : worker[w].pc \in { "size", "time", "send", "incSentOK", "incSentError" } }

\* out with sentOK and sentError.
OutSentBalance == noOfOut = noOfSentOK + noOfSentError + Cardinality(Sending)

\* The counters of QueueStatistics agree with one another at every moment, once what
\* the threads have done and not yet counted is added.
StatisticsBalance == InOutBalance /\ OutSentBalance

\* The worker that has vector v.
HeldBy(v, w) == worker[w].vector.id = v.id

\* Every notification of an accepted vector is attempted exactly once: none while the
\* vector waits, one at a time while a worker has it, all of them afterwards; no vector
\* is with two workers, and of a rejected vector nothing is sent.
AttemptedOnce ==
  /\ \A i \in Ids :
       (\A k \in 1 .. Len(accepted) : accepted[k].id # i) => attempts[i] = 0
  /\ \A k \in 1 .. Len(accepted) :
       LET v == accepted[k]
           holders == { w \in Worker : HeldBy(v, w) } IN
       CASE v \in ToSet(queue) -> attempts[v.id] = 0 /\ holders = {}
         [] holders # {} ->
              /\ Cardinality(holders) = 1
              /\ \A w \in holders :
                   attempts[v.id] = worker[w].ix
                     + IF worker[w].pc \in { "incSentOK", "incSentError" } THEN 1 ELSE 0
         [] OTHER -> attempts[v.id] = v.length

\* Every accepted notification is eventually attempted, as long as one worker runs.
AcceptedIsAttempted ==
  \A k \in Ids :
    (Len(accepted) >= k /\ Exited # Worker)
      ~> (\A j \in { k } \cap 1 .. Len(accepted) : attempts[accepted[j].id] = accepted[j].length)
=============================================================================
