--------------------------- MODULE EntitiesProofs ---------------------------
(***************************************************************************)
(* Proofs about the requests on one entity, for every number of threads,   *)
(* types, attributes and requests, with and without reqSem.                *)
(***************************************************************************)
EXTENDS Entities, FiniteSetTheorems, TLAPS

Busy(t) == call[t].pc # "idle"
Loss(t) == "loss" \in disturbed[t]
Calm(t) == disturbed[t] = {}

Creators == { "create", "batchCreate", "v2create" }

\* The operations that go on after a failed lookup.
Gullible == { "create", "batchCreate", "upsert" }

\* The excuses of a request that was told 201 and did not insert the entity.
NotNew(t) ==
  \/ call[t].op \in LdOps /\ (~Calm(t) \/ spoilt[t])
  \/ ~ReqMutex /\ ~Calm(t)

\* Where a request can be, by its operation, and what its payload names.
ControlInv(t) ==
  LET c == call[t] IN
  /\ c.pc = "gap"     => c.op \in { "append", "deleteAttr" }
  /\ c.pc = "remove"  => c.op = "delete"
  /\ c.pc = "clear"   => c.op = "batchDelete" \/ (c.op = "upsert" /\ c.replace)
  /\ c.pc = "convert" => c.op \in { "batchCreate", "batchUpdate", "upsert" }
  /\ c.pc = "count"   => c.op \in V2Ops
  /\ c.pc \in { "take", "count", "query", "insert", "write", "give" } =>
       c.op \notin { "delete", "batchDelete", "deleteAttr" }
  /\ c.pc = "insert"  => Action(c.op) \in { "Append", "AppendStrict" } /\ c.op # "append"
  /\ c.pc = "write"   => c.todo # {} /\ (c.type = AnyType \/ c.todo \subseteq { c.type })
  /\ Busy(t) =>
       /\ c.n # 0
       /\ c.asked = {} => c.op \in { "delete", "batchDelete", "v2delete" }
       /\ c.op # "patch" => /\ In(c.load) \subseteq c.asked
                            /\ \A a \in Attr : c.load[a] \in { 0, c.n }
       /\ c.op \in { "v2delete", "deleteAttr" } => In(c.load) = {}
       /\ c.op \in Creators => c.type # AnyType
       /\ c.op \in { "append", "patchAttr", "deleteAttr" } => c.type = AnyType
       /\ c.keep => c.op \in { "append", "batchUpdate" }
  /\ c.op = "upsert" /\ c.pc \in { "clear", "convert", "take", "query", "insert" } =>
       c.type # AnyType
  /\ spoilt[t] => /\ Busy(t)
                  /\ c.failed \/ c.op \in Gullible \/ c.pc = "reply"
  /\ Busy(t) /\ c.op \in { "batchCreate", "upsert" } /\ c.failed => spoilt[t] \/ ~Calm(t)

\* Every request has a number of its own.  A value in the database, or in what
\* another request is about to write, that has the number of a request was written
\* by it.
NumberInv ==
  /\ \A t \in Thread : Busy(t) => call[t].n <= requests + 1
  /\ \A t, u \in Thread : Busy(t) /\ Busy(u) /\ call[t].n = call[u].n => t = u
  /\ \A ty \in Type, a \in Attr : db[ty].attrs[a] <= requests + 1
  /\ \A t \in Thread, a \in Attr : Busy(t) => call[t].load[a] <= requests + 1
  /\ \A t \in Thread, ty \in Type, a \in Attr :
       Busy(t) /\ db[ty].attrs[a] = call[t].n => a \in wrote[t]
  /\ \A t, u \in Thread, a \in Attr :
       Busy(t) /\ Busy(u) /\ t # u /\ call[u].load[a] = call[t].n => a \in wrote[t]

\* A document that is not there is empty; without twins there is one at most.
DocInv ==
  /\ \A ty \in Type : ~db[ty].alive => db[ty] = NoDoc
  /\ ~twins => \A ty, uy \in Type : db[ty].alive /\ db[uy].alive => ty = uy

\* What a request has found when it looked the entity up is still so, unless others
\* have disturbed it.
LookupInv(t) ==
  LET c == call[t] IN
  /\ c.op \in { "create", "batchCreate" } /\ c.pc \in { "convert", "take", "query", "insert" }
       /\ Calm(t) /\ ~spoilt[t] => Alive = {}
  /\ c.op = "batchUpdate" /\ c.pc \in { "convert", "take", "query" } =>
       c.type \in Type /\ (~Loss(t) => db[c.type].alive)
  /\ c.op = "patch" /\ c.pc \in { "take", "query", "write" } =>
       /\ c.type \in Type
       /\ ~Loss(t) => db[c.type].alive
       /\ Calm(t) => \A a \in Attr \ c.asked : c.load[a] = db[c.type].attrs[a]
  /\ c.op = "patchAttr" /\ c.pc \in { "take", "query" } /\ ~Loss(t) =>
       \E ty \in Alive : c.asked \subseteq In(db[ty].attrs)
  /\ c.keep /\ c.pc \in { "gap", "convert", "take", "query" } /\ Calm(t) /\ ~stale =>
       \E ty \in Matching(t) : In(c.load) \cap In(db[ty].attrs) = {}

\* The same for the count and the query of processContextElement.
QueryInv(t) ==
  LET c == call[t] IN
  /\ c.pc = "query" /\ c.op = "v2append" => Matching(t) # {} \/ Loss(t)
  /\ c.pc \in { "query", "insert" } /\ c.op = "v2create" =>
       Matching(t) = {} \/ (~ReqMutex /\ ~Calm(t))
  /\ c.pc = "insert" /\ c.op \in { "batchUpdate", "v2append" } => Loss(t)
  /\ c.pc = "insert" /\ c.op \in { "batchCreate", "upsert" } /\ Calm(t) => Matching(t) = {}
  /\ c.pc = "write" =>
       /\ c.op \in Creators => NotNew(t)
       /\ ~Loss(t) => \A ty \in c.todo :
            db[ty].alive /\ In(c.docs[ty].attrs) \subseteq In(db[ty].attrs)
       /\ c.op = "patchAttr" /\ ~Loss(t) /\ ~spoilt[t] =>
            \/ In(c.load) \subseteq wrote[t]
            \/ \E ty \in c.todo : c.asked \subseteq In(c.docs[ty].attrs)
       /\ c.keep /\ Calm(t) /\ ~stale /\ ~spoilt[t] =>
            \/ In(c.load) \subseteq wrote[t]
            \/ \E ty \in c.todo : In(c.load) \cap In(c.docs[ty].attrs) = {}
       /\ c.op = "v2delete" /\ Calm(t) /\ ~c.failed =>
            \A ty \in Matching(t) \ c.todo :
              c.asked # {} /\ c.asked \cap In(db[ty].attrs) = {}

\* What has been achieved when reqSem is given.
GiveInv(t) ==
  LET c == call[t] IN
  c.pc = "give" =>
    /\ (c.failed => ~Reports(c.op)) => Written(t) /\ Gone(t)
    /\ c.op \in Creators /\ ~c.failed =>
         inserted[t] \/ NotNew(t)

ReplyInv(t) ==
  LET c == call[t] IN
  /\ Acknowledged(t) => (Written(t) \/ ListedTwice(t)) /\ Gone(t)
  /\ c.pc = "reply" /\ c.answer = "created" =>
       inserted[t] \/ NotNew(t)

ThreadInv(t) ==
  ControlInv(t) /\ LookupInv(t) /\ QueryInv(t) /\ GiveInv(t) /\ ReplyInv(t)

EntitiesInv ==
  /\ TypeOK /\ NumberInv /\ DocInv /\ NamesAgree
  /\ \A t \in Thread : ThreadInv(t)

-----------------------------------------------------------------------------
(***************************************************************************)
(* Types, and the exclusion by reqSem.                                     *)
(***************************************************************************)
\* Control of mongoUpdateContext: who is inside, and what reqSem says.
Exclusion ==
  ReqMutex => /\ \A t, u \in Thread : Inside(t) /\ Inside(u) => t = u
              /\ ~reqSem <=> \E t \in Thread : Inside(t)

LEMMA NoCallType == NoCall \in CallState /\ NoDoc \in Doc /\ Nothing \in Values
<1>1. 0 \in Value
  BY EntitiesAssumption DEF EntitiesAssumption, Value
<1>2. Nothing \in Values
  BY <1>1 DEF Nothing, Values
<1>3. NoDoc \in Doc
  BY <1>2 DEF NoDoc, Doc
<1> QED
  BY <1>1, <1>2, <1>3 DEF NoCall, CallState, Locations, AllOps, LdOps, Answers

\* The documents that are ever written.
LEMMA DocTypes ==
  /\ \A S \in SUBSET Attr, v \in Value : With(S, v) \in Values
  /\ \A vs \in Values : NewDoc(vs) \in Doc
  /\ \A d \in Doc, S \in SUBSET Attr : Strip(d, S) \in Doc
<1>1. 0 \in Value
  BY EntitiesAssumption DEF EntitiesAssumption, Value
<1>2. ASSUME NEW S \in SUBSET Attr, NEW v \in Value PROVE With(S, v) \in Values
  BY <1>1 DEF With, Values
<1>3. ASSUME NEW vs \in Values PROVE NewDoc(vs) \in Doc
  BY DEF NewDoc, Doc, In
<1>4. ASSUME NEW d \in Doc, NEW S \in SUBSET Attr PROVE Strip(d, S) \in Doc
  <2>1. [a \in Attr |-> IF a \in S THEN 0 ELSE d.attrs[a]] \in Values
    BY <1>1 DEF Doc, Values
  <2> QED
    BY <2>1 DEF Strip, Doc
<1> QED
  BY <1>2, <1>3, <1>4

\* A step of thread t leaves the other threads where they are.
Moved(t) ==
  /\ call' \in [Thread -> CallState]
  /\ \A u \in Thread \ { t } : call'[u] = call[u]

\* What a request is about does not change any more.
SameRequest(t) ==
  /\ call'[t].op = call[t].op /\ call'[t].n = call[t].n /\ call'[t].type = call[t].type
  /\ call'[t].asked = call[t].asked /\ call'[t].keep = call[t].keep
  /\ call'[t].replace = call[t].replace /\ call'[t].load = call[t].load
  /\ call'[t].docs = call[t].docs

LEMMA TypeInit == Init => TypeOK
<1> SUFFICES ASSUME Init PROVE TypeOK
  OBVIOUS
<1>1. 1 \in Value
  BY EntitiesAssumption DEF EntitiesAssumption, Value
<1>2. With(Attr, 1) \in Values /\ NewDoc(With(Attr, 1)) \in Doc
  BY <1>1, DocTypes
<1>3. db \in [Type -> Doc]
  BY <1>2, NoCallType DEF Init
<1>4. call \in [Thread -> CallState] /\ \A t \in Thread : call[t].pc = "idle"
  BY NoCallType DEF Init, NoCall
<1>5. Exclusion
  BY <1>4 DEF Init, Inside, Exclusion
<1>6. requests \in 0 .. MaxRequests /\ faults \in 0 .. MaxFaults
  BY EntitiesAssumption DEF Init, EntitiesAssumption
<1>7. /\ disturbed \in [Thread -> SUBSET { "change", "loss" }]
      /\ wrote \in [Thread -> SUBSET Attr]
      /\ inserted \in [Thread -> BOOLEAN]
      /\ spoilt \in [Thread -> BOOLEAN]
  BY DEF Init
<1>8. stale \in BOOLEAN /\ twins \in BOOLEAN /\ reqSem \in BOOLEAN
  BY DEF Init
<1> QED
  BY <1>3, <1>4, <1>5, <1>6, <1>7, <1>8 DEF TypeOK, Exclusion

\* The moves of a thread.
LEMMA GotoMoves ==
  ASSUME TypeOK, NEW t \in Thread, NEW l \in Locations, Goto(t, l)
  PROVE  Moved(t) /\ SameRequest(t) /\ call'[t].todo = call[t].todo
         /\ call'[t].pc = l /\ call'[t].failed = call[t].failed
<1> DEFINE c == call[t]
           d == [c EXCEPT !.pc = l]
<1>1. c \in CallState
  BY DEF TypeOK
<1>2. d \in CallState
  BY <1>1 DEF CallState, Locations
<1>3. d.pc = l /\ d.failed = c.failed /\ d.op = c.op /\ d.n = c.n /\ d.type = c.type
      /\ d.asked = c.asked /\ d.keep = c.keep /\ d.replace = c.replace /\ d.load = c.load
      /\ d.docs = c.docs /\ d.todo = c.todo
  BY <1>1 DEF CallState
<1>4. call' = [call EXCEPT ![t] = d]
  BY DEF Goto
<1> HIDE DEF d
<1>5. Moved(t) /\ call'[t] = d
  BY <1>2, <1>4 DEF Moved, TypeOK
<1> QED
  BY <1>3, <1>5 DEF SameRequest

LEMMA ReplyMoves ==
  ASSUME TypeOK, NEW t \in Thread, NEW w \in Answers, Reply(t, w)
  PROVE  Moved(t) /\ SameRequest(t) /\ call'[t].todo = call[t].todo
         /\ call'[t].pc = "reply" /\ call'[t].answer = w /\ call'[t].failed = call[t].failed
<1> DEFINE c == call[t]
           d == [c EXCEPT !.pc = "reply", !.answer = w]
<1>1. c \in CallState
  BY DEF TypeOK
<1>2. d \in CallState
  BY <1>1 DEF CallState, Locations
<1>3. d.pc = "reply" /\ d.answer = w /\ d.failed = c.failed /\ d.op = c.op /\ d.n = c.n /\ d.type = c.type
      /\ d.asked = c.asked /\ d.keep = c.keep /\ d.replace = c.replace /\ d.load = c.load
      /\ d.docs = c.docs /\ d.todo = c.todo
  BY <1>1 DEF CallState
<1>4. call' = [call EXCEPT ![t] = d]
  BY DEF Reply
<1> HIDE DEF d
<1>5. Moved(t) /\ call'[t] = d
  BY <1>2, <1>4 DEF Moved, TypeOK
<1> QED
  BY <1>3, <1>5 DEF SameRequest

LEMMA FailMoves ==
  ASSUME TypeOK, NEW t \in Thread, Fail(t)
  PROVE  Moved(t) /\ SameRequest(t) /\ call'[t].todo = call[t].todo
         /\ call'[t].pc = "give" /\ call'[t].failed
<1> DEFINE c == call[t]
           d == [c EXCEPT !.pc = "give", !.failed = TRUE]
<1>1. c \in CallState
  BY DEF TypeOK
<1>2. d \in CallState
  BY <1>1 DEF CallState, Locations
<1>3. d.pc = "give" /\ d.failed /\ d.op = c.op /\ d.n = c.n /\ d.type = c.type
      /\ d.asked = c.asked /\ d.keep = c.keep /\ d.replace = c.replace /\ d.load = c.load
      /\ d.docs = c.docs /\ d.todo = c.todo
  BY <1>1 DEF CallState
<1>4. call' = [call EXCEPT ![t] = d]
  BY DEF Fail
<1> HIDE DEF d
<1>5. Moved(t) /\ call'[t] = d
  BY <1>2, <1>4 DEF Moved, TypeOK
<1> QED
  BY <1>3, <1>5 DEF SameRequest

\* reqSem: a thread that stays inside, or outside, does not touch it.
LEMMA ExclusionStays ==
  ASSUME TypeOK, NEW t \in Thread, Moved(t), Inside(t)' <=> Inside(t), reqSem' = reqSem
  PROVE  Exclusion'
<1>1. \A u \in Thread : Inside(u)' <=> Inside(u)
  BY DEF Moved, Inside
<1> QED
  BY <1>1 DEF TypeOK, Exclusion

-----------------------------------------------------------------------------
(***************************************************************************)
(* What a step of one thread means to the others: it leaves their calls    *)
(* alone, and if it changes what they may rely on, they are marked.        *)
(***************************************************************************)
Elsewhere(u) ==
  /\ call'[u] = call[u] /\ wrote'[u] = wrote[u]
  /\ inserted'[u] = inserted[u] /\ spoilt'[u] = spoilt[u]
  /\ disturbed[u] \subseteq disturbed'[u]
  /\ (stale => stale') /\ (twins => twins')
  /\ db' # db => disturbed'[u] # {}
  /\ "loss" \in disturbed'[u] \/
       \A ty \in Type : /\ db[ty].alive => db'[ty].alive
                        /\ In(db[ty].attrs) \subseteq In(db'[ty].attrs)
  /\ ReqMutex /\ Inside(u) => \A ty \in Type : db'[ty].alive => db[ty].alive

\* What a busy thread may rely on survives the steps of the others.
LEMMA Stable ==
  ASSUME TypeOK, NEW u \in Thread, ThreadInv(u), Busy(u), Elsewhere(u)
  PROVE  ThreadInv(u)'
<1>1. call'[u] = call[u] /\ spoilt'[u] = spoilt[u] /\ wrote'[u] = wrote[u]
      /\ inserted'[u] = inserted[u] /\ (stale => stale') /\ (twins => twins')
  BY DEF Elsewhere
<1>2. (Calm(u)' => Calm(u) /\ db' = db) /\ (Loss(u) => Loss(u)')
  BY DEF Elsewhere, Calm, Loss
<1>3. db' = db => Alive' = Alive /\ Matching(u)' = Matching(u)
  BY <1>1 DEF Alive, Matching
<1>4. ~Loss(u)' => /\ Alive \subseteq Alive' /\ Matching(u) \subseteq Matching(u)'
                   /\ \A ty \in Type : In(db[ty].attrs) \subseteq In(db'[ty].attrs)
  BY <1>1 DEF Alive, Matching, Elsewhere, Loss
<1>5. ReqMutex /\ Inside(u) => Matching(u)' \subseteq Matching(u)
  BY <1>1 DEF Alive, Matching, Elsewhere
<1>6. ControlInv(u)'
  BY <1>1, <1>2 DEF ThreadInv, ControlInv, Busy
<1>7. LookupInv(u)'
  <2>1. LookupInv(u)
    BY DEF ThreadInv
  <2>2. \A ty \in Type : ~Loss(u)' /\ db[ty].alive => db'[ty].alive
    BY DEF Elsewhere, Loss
  <2>3. Alive \subseteq Type
    BY DEF Alive
  <2>4. call[u].op = "patchAttr" /\ call[u].pc \in { "take", "query" } /\ ~Loss(u)' =>
          \E ty \in Alive' : call[u].asked \subseteq In(db'[ty].attrs)
    BY <2>1, <2>3, <1>2, <1>4 DEF LookupInv
  <2>5. call[u].keep /\ call[u].pc \in { "gap", "convert", "take", "query" } /\ Calm(u)' /\ ~stale'
          => \E ty \in Matching(u)' : In(call[u].load) \cap In(db'[ty].attrs) = {}
    BY <2>1, <1>1, <1>2, <1>3 DEF LookupInv
  <2> QED
    BY <2>1, <2>2, <2>4, <2>5, <1>1, <1>2, <1>3 DEF LookupInv
<1>8. QueryInv(u)'
  <2>1. QueryInv(u)
    BY DEF ThreadInv
  <2>2. \A ty \in Type : ~Loss(u)' /\ db[ty].alive => db'[ty].alive
    BY DEF Elsewhere, Loss
  <2>3. call[u].pc \in { "query", "insert" } => Inside(u)
    BY DEF Inside
  <2>4. call[u].todo \subseteq Type
    BY DEF TypeOK, CallState
  <2>5. call[u].pc = "write" /\ ~Loss(u)' => \A ty \in call[u].todo :
            db'[ty].alive /\ In(call[u].docs[ty].attrs) \subseteq In(db'[ty].attrs)
    BY <2>1, <2>2, <2>4, <1>2, <1>4 DEF QueryInv
  <2>6. call[u].pc = "write" /\ call[u].op = "v2delete" /\ Calm(u)' /\ ~call[u].failed =>
            \A ty \in Matching(u)' \ call[u].todo :
              call[u].asked # {} /\ call[u].asked \cap In(db'[ty].attrs) = {}
    BY <2>1, <1>2, <1>3 DEF QueryInv
  <2>7. /\ call[u].pc = "query" /\ call[u].op = "v2append" => Matching(u)' # {} \/ Loss(u)'
        /\ call[u].pc \in { "query", "insert" } /\ call[u].op = "v2create" =>
             Matching(u)' = {} \/ (~ReqMutex /\ ~Calm(u)')
        /\ call[u].pc = "insert" /\ call[u].op \in { "batchCreate", "upsert" } /\ Calm(u)' =>
             Matching(u)' = {}
    BY <2>1, <2>3, <1>2, <1>3, <1>4, <1>5 DEF QueryInv
  <2>8. NotNew(u) => NotNew(u)'
    BY <1>1, <1>2 DEF NotNew
  <2> QED
    BY <2>1, <2>5, <2>6, <2>7, <2>8, <1>1, <1>2 DEF QueryInv
<1>9. /\ (Written(u) => Written(u)') /\ (Gone(u) => Gone(u)')
      /\ (ListedTwice(u) => ListedTwice(u)') /\ (NotNew(u) => NotNew(u)')
  BY <1>1, <1>2, <1>3 DEF Written, Gone, ListedTwice, NotNew, Calm, Loss
<1>10. GiveInv(u)' /\ ReplyInv(u)'
  BY <1>1, <1>2, <1>9 DEF ThreadInv, GiveInv, ReplyInv, Acknowledged, At
<1> QED
  BY <1>6, <1>7, <1>8, <1>10 DEF ThreadInv

\* Nothing is expected of a thread without a request.
LEMMA IdleThread ==
  ASSUME NEW u \in Thread, call'[u].pc = "idle", ~spoilt'[u]
  PROVE  ThreadInv(u)'
BY DEF ThreadInv, ControlInv, LookupInv, QueryInv, GiveInv, ReplyInv, Acknowledged, At, Busy

\* So a step of t concerns the invariant of t only.
LEMMA OthersKeep ==
  ASSUME EntitiesInv, NEW t \in Thread, Moved(t),
         \A u \in Thread \ { t } : spoilt'[u] = spoilt[u] /\ (Busy(u) => Elsewhere(u))
  PROVE  \A u \in Thread \ { t } : ThreadInv(u)'
<1> SUFFICES ASSUME NEW u \in Thread \ { t } PROVE ThreadInv(u)'
  OBVIOUS
<1>1. CASE Busy(u)
  BY <1>1, Stable DEF EntitiesInv
<1>2. CASE ~Busy(u)
  <2>1. call'[u].pc = "idle" /\ ~spoilt'[u]
    BY <1>2 DEF Busy, Moved, EntitiesInv, ThreadInv, ControlInv
  <2> QED
    BY <2>1, IdleThread
<1> QED
  BY <1>1, <1>2

\* A step that changes nothing but the call of its thread, and perhaps reqSem; or
\* an operation of it fails.
LEMMA QuietStep ==
  ASSUME EntitiesInv, NEW t \in Thread, Busy(t), Moved(t), Busy(t)', call'[t].n = call[t].n,
         UNCHANGED << db, requests, disturbed, wrote, inserted, stale, twins >>,
         faults' \in 0 .. MaxFaults, spoilt' \in [Thread -> BOOLEAN],
         \A u \in Thread \ { t } : spoilt'[u] = spoilt[u],
         reqSem' \in BOOLEAN, Exclusion',
         \A a \in Attr : \/ call'[t].load[a] \in { 0, call[t].n, call[t].load[a] }
                         \/ \E ty \in Type : call'[t].load[a] = db[ty].attrs[a],
         ThreadInv(t)'
  PROVE  EntitiesInv'
<1>1. TypeOK'
  BY DEF EntitiesInv, TypeOK, Exclusion, Moved
<1>2. DocInv' /\ NamesAgree'
  BY DEF EntitiesInv, DocInv, NamesAgree
<1>3. \A u \in Thread : ThreadInv(u)'
  <2>1. \A u \in Thread \ { t } : spoilt'[u] = spoilt[u] /\ Elsewhere(u)
    BY DEF Elsewhere, Moved
  <2> QED
    BY <2>1, OthersKeep
<1>4. NumberInv'
  <2>1. NumberInv /\ \A u \in Thread : (Busy(u)' <=> Busy(u)) /\ call'[u].n = call[u].n
    BY DEF EntitiesInv, Moved, Busy
  <2>2. \A u \in Thread, a \in Attr : Busy(u) =>
           \/ call'[u].load[a] \in { 0, call[u].n, call[u].load[a] }
           \/ \E ty \in Type : call'[u].load[a] = db[ty].attrs[a]
    BY DEF Moved
  <2>3. \A u \in Thread : Busy(u) => call[u].n # 0
    BY DEF EntitiesInv, ThreadInv, ControlInv
  <2>4. requests \in Nat
    BY EntitiesAssumption DEF EntitiesInv, TypeOK, EntitiesAssumption
  <2>5. \A u \in Thread, a \in Attr : Busy(u) => call'[u].load[a] <= requests + 1
    BY <2>1, <2>2, <2>4 DEF NumberInv
  <2>6. \A u, w \in Thread, a \in Attr :
           Busy(u) /\ Busy(w) /\ u # w /\ call'[w].load[a] = call[u].n => a \in wrote[u]
    <3> SUFFICES ASSUME NEW u \in Thread, NEW w \in Thread, NEW a \in Attr,
                        Busy(u), Busy(w), u # w, call'[w].load[a] = call[u].n
                 PROVE  a \in wrote[u]
      OBVIOUS
    <3>1. call'[w].load[a] # 0 /\ call'[w].load[a] # call[w].n
      BY <2>1, <2>3 DEF NumberInv
    <3>2. CASE call'[w].load[a] = call[w].load[a]
      BY <2>1, <3>2 DEF NumberInv
    <3>3. CASE \E ty \in Type : call'[w].load[a] = db[ty].attrs[a]
      BY <2>1, <3>3 DEF NumberInv
    <3> QED
      BY <2>2, <3>1, <3>2, <3>3
  <2> QED
    BY <2>1, <2>5, <2>6 DEF NumberInv
<1> QED
  BY <1>1, <1>2, <1>3, <1>4 DEF EntitiesInv

\* A step that writes to the database.
LEMMA WriteStep ==
  ASSUME EntitiesInv, NEW t \in Thread, Busy(t), Moved(t), Busy(t)',
         call'[t].n = call[t].n, call'[t].load = call[t].load, Inside(t)' <=> Inside(t),
         NEW new \in [Type -> Doc], WriteDb(t, new),
         UNCHANGED << reqSem, bounds, spoilt >>,
         inserted' \in [Thread -> BOOLEAN], \A u \in Thread \ { t } : inserted'[u] = inserted[u],
         stale => stale', stale' \in BOOLEAN,
         \A ty \in Type : \A a \in Attr :
           new[ty].attrs[a] \in { 0, db[ty].attrs[a], call[t].load[a] },
         \A ty \in Type : ~new[ty].alive => new[ty] = NoDoc,
         \A ty \in Type : /\ new[ty].names \subseteq In(new[ty].attrs)
                          /\ ~stale' => In(new[ty].attrs) \subseteq new[ty].names,
         ~Inside(t) => \A ty \in Type : new[ty].alive => db[ty].alive,
         ThreadInv(t)'
  PROVE  EntitiesInv'
<1> USE DEF bounds
<1>1. db' = new /\ (twins => twins')
  BY DEF WriteDb
<1>2. TypeOK'
  <2>1. disturbed' \in [Thread -> SUBSET { "change", "loss" }] /\ wrote' \in [Thread -> SUBSET Attr]
    BY DEF EntitiesInv, TypeOK, WriteDb
  <2>2. twins' \in BOOLEAN
    BY DEF WriteDb
  <2>3. Exclusion'
    BY ExclusionStays DEF EntitiesInv
  <2> QED
    BY <2>1, <2>2, <2>3, <1>1 DEF EntitiesInv, TypeOK, Exclusion, Moved
<1>3. DocInv'
  BY <1>1 DEF DocInv, WriteDb
<1>4. NamesAgree'
  BY <1>1 DEF NamesAgree
<1>5. \A u \in Thread : ThreadInv(u)'
  <2>1. ASSUME NEW u \in Thread \ { t }, Busy(u) PROVE Elsewhere(u)
    <3>1. call'[u] = call[u] /\ wrote'[u] = wrote[u] /\ inserted'[u] = inserted[u]
          /\ spoilt'[u] = spoilt[u] /\ disturbed[u] \subseteq disturbed'[u]
      BY DEF Moved, WriteDb, EntitiesInv, TypeOK
    <3>2. db' # db => disturbed'[u] # {}
      BY <2>1 DEF WriteDb, Busy, At
    <3>3. "loss" \in disturbed'[u] \/
            \A ty \in Type : /\ db[ty].alive => db'[ty].alive
                             /\ In(db[ty].attrs) \subseteq In(db'[ty].attrs)
      BY <2>1, <1>1 DEF WriteDb, Busy, At, Lost, In
    <3>4. ReqMutex /\ Inside(u) => \A ty \in Type : db'[ty].alive => db[ty].alive
      BY <1>1 DEF EntitiesInv, TypeOK
    <3> QED
      BY <3>1, <3>2, <3>3, <3>4, <1>1 DEF Elsewhere
  <2>2. \A u \in Thread : spoilt'[u] = spoilt[u]
    OBVIOUS
  <2> QED
    BY <2>1, <2>2, OthersKeep
<1>6. NumberInv'
  <2>1. NumberInv /\ \A u \in Thread : /\ Busy(u)' <=> Busy(u)
                                       /\ call'[u].n = call[u].n
                                       /\ call'[u].load = call[u].load
    BY DEF EntitiesInv, Moved, Busy
  <2>2. \A u \in Thread : wrote[u] \subseteq wrote'[u]
    BY DEF WriteDb, EntitiesInv, TypeOK
  <2>3. \A u \in Thread : Busy(u) => call[u].n # 0
    BY DEF EntitiesInv, ThreadInv, ControlInv
  <2>4. requests \in Nat
    BY EntitiesAssumption DEF EntitiesInv, TypeOK, EntitiesAssumption
  <2>5. \A ty \in Type, a \in Attr : db'[ty].attrs[a] <= requests + 1
    BY <2>1, <2>4, <1>1 DEF NumberInv
  <2>6. ASSUME NEW u \in Thread, NEW ty \in Type, NEW a \in Attr,
               Busy(u), db'[ty].attrs[a] = call[u].n
        PROVE  a \in wrote'[u]
    <3>1. CASE db[ty].attrs[a] = call[u].n
      BY <2>1, <2>2, <2>6, <3>1 DEF NumberInv
    <3>2. CASE u = t /\ db[ty].attrs[a] # call[u].n
      BY <2>6, <3>2, <1>1 DEF WriteDb, EntitiesInv, TypeOK
    <3>3. CASE u # t /\ db[ty].attrs[a] # call[u].n
      <4>1. call[t].load[a] = call[u].n
        BY <2>3, <2>6, <3>3, <1>1
      <4> QED
        BY <4>1, <2>1, <2>2, <2>6, <3>3 DEF NumberInv
    <3> QED
      BY <3>1, <3>2, <3>3
  <2> QED
    BY <2>1, <2>2, <2>5, <2>6 DEF NumberInv
<1> QED
  BY <1>2, <1>3, <1>4, <1>5, <1>6 DEF EntitiesInv

-----------------------------------------------------------------------------
(***************************************************************************)
(* Requests come and go.                                                   *)
(***************************************************************************)
LEMMA StartStep ==
  ASSUME EntitiesInv, NEW t \in Thread, NEW r \in Payloads, NEW l, Start(t, l, r),
         (l = "lookup" /\ r.op \in LdOps) \/ (l = "take" /\ r.op \in V2Ops)
  PROVE  EntitiesInv'
<1> DEFINE load == IF r.op \in { "v2delete", "deleteAttr" } THEN Nothing
                   ELSE With(r.asked, requests + 2)
           c == [NoCall EXCEPT !.pc = l, !.op = r.op, !.n = requests + 2, !.type = r.type,
                               !.asked = r.asked, !.keep = r.keep, !.replace = r.replace,
                               !.bad = r.bad, !.load = load]
<1> USE DEF history
<1>1. requests \in Nat /\ MaxRequests \in Nat /\ requests + 2 \in Value
      /\ requests' \in 0 .. MaxRequests /\ requests' = requests + 1
  BY EntitiesAssumption DEF EntitiesAssumption, EntitiesInv, TypeOK, Start, Value
<1>2. /\ r.type \in Type \cup { AnyType } /\ r.asked \in SUBSET Attr
      /\ r.keep \in BOOLEAN /\ r.replace \in BOOLEAN /\ r.bad \in BOOLEAN
      /\ r.op \in AllOps /\ l \in Locations
  BY EntitiesAssumption DEF EntitiesAssumption, Payloads, AllOps, Locations
<1>3. load \in Values
  BY <1>1, <1>2, DocTypes, NoCallType
<1> HIDE DEF load
<1>4. c \in CallState
  <2>1. NoCall \in CallState
    BY NoCallType
  <2> QED
    BY <2>1, <1>1, <1>2, <1>3 DEF CallState
<1>5. /\ c.pc = l /\ c.op = r.op /\ c.n = requests + 2 /\ c.type = r.type /\ c.asked = r.asked
      /\ c.keep = r.keep /\ c.load = load /\ c.failed = FALSE
  BY DEF NoCall
<1>6. call' = [call EXCEPT ![t] = c]
  BY DEF Start, load
<1> HIDE DEF c
<1>7. Moved(t) /\ call'[t] = c
  BY <1>4, <1>6 DEF Moved, EntitiesInv, TypeOK
<1>8. ~Inside(t) /\ ~Inside(t)' /\ ~Busy(t) /\ Busy(t)'
  BY <1>5, <1>7 DEF Start, At, Inside, Busy
<1>9. TypeOK'
  <2>1. Exclusion'
    BY <1>7, <1>8, ExclusionStays DEF EntitiesInv, Start
  <2> QED
    BY <2>1, <1>1, <1>7 DEF EntitiesInv, TypeOK, Exclusion, Start, Moved
<1>10. DocInv' /\ NamesAgree'
  BY DEF EntitiesInv, DocInv, NamesAgree, Start
<1>11. \A a \in Attr : load[a] \in { 0, requests + 2 } /\ (load[a] # 0 => a \in r.asked)
  BY <1>2 DEF load, With, Nothing
<1>12. ThreadInv(t)'
  <2>1. ~spoilt'[t]
    BY <1>8 DEF EntitiesInv, ThreadInv, ControlInv, Start
  <2>2. In(load) \subseteq r.asked /\ (r.op \in { "v2delete", "deleteAttr" } => In(load) = {})
    BY <1>11 DEF load, Nothing, In
  <2>3. ControlInv(t)'
    BY <2>1, <2>2, <1>1, <1>5, <1>7, <1>11 DEF ControlInv, Payloads, Busy, V2Ops, LdOps, Creators
  <2>4. LookupInv(t)' /\ QueryInv(t)' /\ GiveInv(t)' /\ ReplyInv(t)'
    BY <1>5, <1>7 DEF LookupInv, QueryInv, GiveInv, ReplyInv, Acknowledged, At, Payloads, LdOps, V2Ops
  <2> QED
    BY <2>3, <2>4 DEF ThreadInv
<1>13. \A u \in Thread : ThreadInv(u)'
  <2>1. \A u \in Thread \ { t } : spoilt'[u] = spoilt[u] /\ Elsewhere(u)
    BY <1>7 DEF Elsewhere, Moved, Start
  <2> QED
    BY <2>1, <1>7, <1>12, OthersKeep
<1>14. NumberInv'
  <2>1. NumberInv /\ \A u \in Thread : Busy(u) => call[u].n # 0
    BY DEF EntitiesInv, ThreadInv, ControlInv
  <2>2. \A u \in Thread \ { t } : (Busy(u)' <=> Busy(u)) /\ call'[u] = call[u]
    BY <1>7 DEF Moved, Busy
  <2>3. call'[t].n = requests + 2 /\ call'[t].load = load
    BY <1>5, <1>7
  <2>4. db' = db /\ wrote' = wrote
    BY DEF Start
  <2>5. /\ \A u \in Thread : Busy(u)' => call'[u].n <= requests' + 1
        /\ \A u, w \in Thread : Busy(u)' /\ Busy(w)' /\ call'[u].n = call'[w].n => u = w
    <3>1. \A u \in Thread \ { t } : Busy(u)' => call'[u].n <= requests + 1 /\ call'[u].n \in Nat
      BY <2>1, <2>2, EntitiesAssumption
      DEF NumberInv, EntitiesInv, TypeOK, CallState, Value, EntitiesAssumption
    <3> QED
      BY <3>1, <2>1, <2>2, <2>3, <1>1 DEF NumberInv
  <2>6. /\ \A ty \in Type, a \in Attr : db'[ty].attrs[a] <= requests' + 1
        /\ \A u \in Thread, a \in Attr : Busy(u)' => call'[u].load[a] <= requests' + 1
    <3>1. /\ \A ty \in Type, a \in Attr : db[ty].attrs[a] \in Nat
          /\ \A u \in Thread, a \in Attr : call[u].load[a] \in Nat
      BY EntitiesAssumption
      DEF EntitiesInv, TypeOK, CallState, Doc, Values, Value, EntitiesAssumption
    <3> QED
      BY <3>1, <2>1, <2>2, <2>3, <2>4, <1>1, <1>11 DEF NumberInv
  <2>7. ASSUME NEW u \in Thread, NEW ty \in Type, NEW a \in Attr,
               Busy(u)', db'[ty].attrs[a] = call'[u].n
        PROVE  a \in wrote'[u]
    <3>1. u # t
      BY <2>1, <2>3, <2>4, <2>7, <1>1 DEF NumberInv
    <3> QED
      BY <3>1, <2>1, <2>2, <2>4, <2>7 DEF NumberInv
  <2>8. ASSUME NEW u \in Thread, NEW w \in Thread, NEW a \in Attr,
               Busy(u)', Busy(w)', u # w, call'[w].load[a] = call'[u].n
        PROVE  a \in wrote'[u]
    <3>1. u # t
      BY <2>1, <2>2, <2>3, <2>8, <1>1 DEF NumberInv
    <3>2. w # t
      BY <3>1, <2>1, <2>2, <2>3, <2>8, <1>1, <1>11 DEF NumberInv
    <3> QED
      BY <3>1, <3>2, <2>1, <2>2, <2>4, <2>8 DEF NumberInv
  <2> QED
    BY <2>5, <2>6, <2>7, <2>8 DEF NumberInv
<1> QED
  BY <1>9, <1>10, <1>13, <1>14 DEF EntitiesInv

LEMMA DoneStep ==
  ASSUME EntitiesInv, NEW t \in Thread, Done(t)
  PROVE  EntitiesInv'
<1> USE DEF bounds
<1>1. Moved(t) /\ call'[t] = NoCall /\ call'[t].pc = "idle"
  BY NoCallType DEF Moved, EntitiesInv, TypeOK, Done, NoCall
<1>2. ~Inside(t) /\ ~Inside(t)' /\ ~Busy(t)'
  BY <1>1 DEF Done, At, Inside, Busy
<1>3. TypeOK'
  <2>1. Exclusion'
    BY <1>1, <1>2, ExclusionStays DEF EntitiesInv, Done
  <2> QED
    BY <2>1, <1>1 DEF EntitiesInv, TypeOK, Exclusion, Done, Moved
<1>4. DocInv' /\ NamesAgree'
  BY DEF EntitiesInv, DocInv, NamesAgree, Done
<1>5. ThreadInv(t)'
  <2>1. ~spoilt'[t]
    BY DEF Done, EntitiesInv, TypeOK
  <2> QED
    BY <2>1, <1>1, IdleThread
<1>6. \A u \in Thread \ { t } : wrote'[u] = wrote[u] /\ spoilt'[u] = spoilt[u] /\ Elsewhere(u)
  BY <1>1 DEF Elsewhere, Moved, Done, EntitiesInv, TypeOK
<1>7. \A u \in Thread : ThreadInv(u)'
  BY <1>1, <1>5, <1>6, OthersKeep
<1>8. NumberInv'
  <2>1. \A u \in Thread : Busy(u)' => u # t /\ Busy(u) /\ call'[u] = call[u]
    BY <1>1, <1>2 DEF Moved, Busy
  <2>2. db' = db /\ requests' = requests
    BY DEF Done
  <2> QED
    BY <2>1, <2>2, <1>6 DEF EntitiesInv, NumberInv
<1> QED
  BY <1>3, <1>4, <1>7, <1>8 DEF EntitiesInv

LEMMA CrashStep ==
  ASSUME EntitiesInv, Crash, faults' \in 0 .. MaxFaults
  PROVE  EntitiesInv'
<1>1. call' \in [Thread -> CallState] /\ \A u \in Thread : call'[u].pc = "idle"
  BY NoCallType DEF Crash, NoCall
<1>2. TypeOK'
  <2>1. Exclusion'
    BY <1>1 DEF Exclusion, Inside, Crash
  <2> QED
    BY <2>1, <1>1 DEF EntitiesInv, TypeOK, Exclusion, Crash
<1>3. DocInv' /\ NamesAgree'
  BY DEF EntitiesInv, DocInv, NamesAgree, Crash
<1>4. \A u \in Thread : ThreadInv(u)'
  <2>1. \A u \in Thread : ~spoilt'[u]
    BY DEF Crash
  <2> QED
    BY <2>1, <1>1, IdleThread
<1>5. NumberInv'
  BY <1>1 DEF NumberInv, Busy, EntitiesInv, Crash
<1> QED
  BY <1>2, <1>3, <1>4, <1>5 DEF EntitiesInv

\* One of the documents that were found has been treated.
Treated(t, ty, failed) ==
  /\ Moved(t) /\ SameRequest(t)
  /\ call'[t].failed = failed
  /\ call'[t].todo = call[t].todo \ { ty }
  /\ call'[t].pc = IF call[t].todo = { ty } THEN "give" ELSE "write"

LEMMA WriteMoves ==
  ASSUME TypeOK, NEW t \in Thread, NEW ty \in call[t].todo, NEW failed \in BOOLEAN,
         call' = [call EXCEPT ![t].todo = @ \ { ty }, ![t].failed = failed,
                     ![t].pc = IF call[t].todo = { ty } THEN "give" ELSE "write"]
  PROVE  Treated(t, ty, failed)
<1> DEFINE c == call[t]
           e == [c EXCEPT !.todo = @ \ { ty }, !.failed = failed,
                   !.pc = IF c.todo = { ty } THEN "give" ELSE "write"]
<1>1. c \in CallState
  BY DEF TypeOK
<1>2. e \in CallState
  BY <1>1 DEF CallState, Locations
<1>3. call' = [call EXCEPT ![t] = e]
  OBVIOUS
<1>4. /\ e.failed = failed /\ e.todo = c.todo \ { ty }
      /\ e.pc = IF c.todo = { ty } THEN "give" ELSE "write"
      /\ e.op = c.op /\ e.n = c.n /\ e.type = c.type /\ e.asked = c.asked /\ e.keep = c.keep
      /\ e.replace = c.replace /\ e.load = c.load /\ e.docs = c.docs
  BY <1>1 DEF CallState
<1> HIDE DEF e
<1>5. Moved(t) /\ call'[t] = e
  BY <1>2, <1>3 DEF Moved, TypeOK
<1> QED
  BY <1>4, <1>5 DEF Treated, SameRequest

\* After a failing update the other documents are still treated.
LEMMA FaultStep ==
  ASSUME EntitiesInv, NEW t \in Thread, Fault(t)
  PROVE  EntitiesInv'
<1> DEFINE c == call[t]
           d == call'[t]
<1>1. c \in CallState /\ TypeOK
  BY DEF EntitiesInv, TypeOK
<1>2. /\ Moved(t) /\ SameRequest(t) /\ d.failed /\ d.pc \in { "give", "write" }
      /\ d.pc = "write" => c.pc = "write" /\ d.todo \subseteq c.todo /\ d.todo # {}
  <2>1. CASE ~At(t, "write") /\ Fail(t)
    BY <2>1, <1>1, FailMoves DEF CallState, SameRequest
  <2>2. CASE At(t, "write") /\ ~Fail(t)
    <3>1. PICK ty \in c.todo :
             call' = [call EXCEPT ![t].todo = @ \ { ty }, ![t].failed = TRUE,
                        ![t].pc = IF call[t].todo = { ty } THEN "give" ELSE "write"]
      BY <2>2 DEF Fault
    <3>2. Treated(t, ty, TRUE)
      BY <3>1, <1>1, WriteMoves
    <3> QED
      BY <3>2, <2>2 DEF Treated, At
  <2>3. CASE At(t, "write") /\ Fail(t)
    BY <2>3, <1>1, FailMoves DEF CallState, SameRequest
  <2> QED
    BY <2>1, <2>2, <2>3 DEF Fault
<1>3. Inside(t) /\ Inside(t)' /\ Busy(t) /\ Busy(t)'
  BY <1>2 DEF Fault, Inside, Busy
<1>4. /\ UNCHANGED << db, requests, reqSem, disturbed, wrote, inserted, stale, twins >>
      /\ spoilt' \in [Thread -> BOOLEAN] /\ spoilt'[t]
      /\ \A u \in Thread \ { t } : spoilt'[u] = spoilt[u]
  BY <1>1 DEF Fault, TypeOK
<1>5. faults' \in 0 .. MaxFaults
  <2>1. faults < MaxFaults /\ faults' = faults + 1
    BY DEF Fault
  <2> QED
    BY <2>1, <1>1, EntitiesAssumption DEF TypeOK, EntitiesAssumption
<1>6. Exclusion'
  BY <1>1, <1>2, <1>3, <1>4, ExclusionStays
<1>7. ThreadInv(t)
  BY DEF EntitiesInv
<1>8. Alive' = Alive /\ Matching(t)' = Matching(t) /\ Calm(t)' = Calm(t) /\ Loss(t)' = Loss(t)
  BY <1>2, <1>4 DEF Alive, Matching, Calm, Loss, SameRequest
<1>9. ControlInv(t)'
  BY <1>2, <1>3, <1>4, <1>7 DEF ThreadInv, ControlInv, SameRequest, Inside, Busy
<1>10. LookupInv(t)'
  BY <1>2, <1>4, <1>7, <1>8 DEF ThreadInv, LookupInv, SameRequest
<1>11. QueryInv(t)'
  <2>1. NotNew(t) => NotNew(t)'
    BY <1>2, <1>4, <1>8 DEF NotNew, SameRequest
  <2> QED
    BY <2>1, <1>2, <1>4, <1>7, <1>8 DEF ThreadInv, QueryInv, SameRequest
<1>12. GiveInv(t)' /\ ReplyInv(t)'
  BY <1>2, <1>4 DEF GiveInv, ReplyInv, Written, Gone, Reports, Acknowledged, At
<1>13. ThreadInv(t)'
  BY <1>9, <1>10, <1>11, <1>12 DEF ThreadInv
<1> QED
  BY <1>1, <1>2, <1>3, <1>4, <1>5, <1>6, <1>13, QuietStep DEF SameRequest, TypeOK

-----------------------------------------------------------------------------
(***************************************************************************)
(* The lookups, and the other steps that only read.                        *)
(***************************************************************************)
\* A step that does not touch the database, nor reqSem.
LEMMA ReadStep ==
  ASSUME EntitiesInv, NEW t \in Thread, Moved(t), Busy(t), Busy(t)', call'[t].n = call[t].n,
         UNCHANGED << db, reqSem, bounds, history >>, Inside(t)' <=> Inside(t),
         \A a \in Attr : \/ call'[t].load[a] \in { 0, call[t].n, call[t].load[a] }
                         \/ \E ty \in Type : call'[t].load[a] = db[ty].attrs[a],
         ThreadInv(t)'
  PROVE  EntitiesInv'
<1> USE DEF bounds, history
<1>1. Exclusion'
  BY ExclusionStays DEF EntitiesInv
<1> QED
  BY <1>1, QuietStep DEF EntitiesInv, TypeOK

\* The request is refused.
LEMMA RefuseStep ==
  ASSUME EntitiesInv, NEW t \in Thread, Busy(t), ~Inside(t), Reply(t, "refused"),
         UNCHANGED << db, reqSem, bounds, history >>
  PROVE  EntitiesInv'
<1> USE DEF history
<1>1. /\ Moved(t) /\ SameRequest(t)
      /\ call'[t].pc = "reply" /\ call'[t].answer = "refused" /\ call'[t].failed = call[t].failed
  BY ReplyMoves DEF EntitiesInv, Answers
<1>2. ThreadInv(t)'
  <2>1. ControlInv(t)'
    BY <1>1 DEF EntitiesInv, ThreadInv, ControlInv, Busy, SameRequest, Calm
  <2>2. LookupInv(t)' /\ QueryInv(t)' /\ GiveInv(t)' /\ ReplyInv(t)'
    BY <1>1 DEF LookupInv, QueryInv, GiveInv, ReplyInv, Acknowledged, At
  <2> QED
    BY <2>1, <2>2 DEF ThreadInv
<1>3. ~Inside(t)' /\ Busy(t)'
  BY <1>1 DEF Inside, Busy
<1> QED
  BY <1>1, <1>2, <1>3, ReadStep DEF SameRequest

\* The thread goes on, to l, with the same request.
LEMMA ProceedStep ==
  ASSUME EntitiesInv, NEW t \in Thread, Busy(t), ~Inside(t),
         NEW l \in { "gap", "clear", "remove", "convert", "take" }, Goto(t, l),
         UNCHANGED << db, reqSem, bounds, history >>,
         SameRequest(t) /\ call'[t].pc = l /\ call'[t].failed = call[t].failed =>
           ControlInv(t)' /\ LookupInv(t)'
  PROVE  EntitiesInv'
<1>1. Moved(t) /\ SameRequest(t) /\ call'[t].pc = l /\ call'[t].failed = call[t].failed
  BY GotoMoves DEF EntitiesInv, Locations
<1>2. ThreadInv(t)'
  <2>1. QueryInv(t)' /\ GiveInv(t)' /\ ReplyInv(t)'
    BY <1>1 DEF QueryInv, GiveInv, ReplyInv, Acknowledged, At
  <2> QED
    BY <2>1, <1>1 DEF ThreadInv
<1>3. ~Inside(t)' /\ Busy(t)'
  BY <1>1 DEF Inside, Busy
<1> QED
  BY <1>1, <1>2, <1>3, ReadStep DEF SameRequest

\* The lookups that only decide: refuse, or go on with the same request.
LEMMA DecideStep ==
  ASSUME EntitiesInv, NEW t \in Thread,
         \/ LookUpCreate(t) \/ LookUpPatchAttr(t) \/ LookUpDeleteAttr(t) \/ LookUpDelete(t)
         \/ LookUpBatchDelete(t) \/ LookUpBatchCreate(t) \/ Convert(t)
  PROVE  EntitiesInv'
<1> USE DEF history
<1>1. Busy(t) /\ ~Inside(t) /\ UNCHANGED << db, reqSem, bounds, history >>
      /\ call[t].pc \in { "lookup", "convert" }
  BY DEF Busy, Inside, LookUp, AtOp, At, LookUpCreate, LookUpPatchAttr, LookUpDeleteAttr,
         LookUpDelete, LookUpBatchDelete, LookUpBatchCreate, Convert
<1>2. Alive' = Alive /\ Calm(t)' = Calm(t) /\ Loss(t)' = Loss(t) /\ ThreadInv(t)
  BY <1>1 DEF Alive, Calm, Loss, EntitiesInv
<1>3. SameRequest(t) => Matching(t)' = Matching(t)
  BY <1>1 DEF SameRequest, Matching, Alive
<1>4. ASSUME NEW l \in { "gap", "clear", "remove", "convert", "take" },
             SameRequest(t), call'[t].pc = l, call'[t].failed = call[t].failed,
             l = "gap"     => call[t].op \in { "append", "deleteAttr" },
             l = "remove"  => call[t].op = "delete",
             l = "clear"   => call[t].op = "batchDelete" \/ (call[t].op = "upsert" /\ call[t].replace),
             l = "convert" => call[t].op \in { "batchCreate", "batchUpdate", "upsert" },
             l = "take"    => call[t].op \notin { "delete", "batchDelete", "deleteAttr" },
             l \in { "clear", "convert", "take" } /\ call[t].op = "upsert" => call[t].type # AnyType
      PROVE  ControlInv(t)'
  BY <1>1, <1>2, <1>4 DEF ThreadInv, ControlInv, SameRequest, Busy
<1>5. CASE LookUpCreate(t) \/ LookUpBatchCreate(t)
  <2>1. CASE Reply(t, "refused")
    BY <2>1, <1>1, RefuseStep
  <2>2. CASE LookUpCreate(t) /\ Alive = {} /\ Goto(t, "take")
    <3>1. call[t].op = "create"
      BY <2>2 DEF LookUpCreate, LookUp, AtOp
    <3>2. ASSUME SameRequest(t), call'[t].pc = "take", call'[t].failed = call[t].failed
          PROVE  ControlInv(t)' /\ LookupInv(t)'
      <4>1. ControlInv(t)'
        BY <3>1, <3>2, <1>4
      <4>2. LookupInv(t)'
        BY <2>2, <3>1, <3>2, <4>1, <1>2 DEF LookupInv, SameRequest, ControlInv, Busy
      <4> QED
        BY <4>1, <4>2
    <3> QED
      BY <2>2, <3>2, <1>1, ProceedStep
  <2>3. CASE LookUpBatchCreate(t) /\ Alive = {} /\ Goto(t, "convert")
    <3>1. call[t].op = "batchCreate"
      BY <2>3 DEF LookUpBatchCreate, LookUp, AtOp
    <3>2. ASSUME SameRequest(t), call'[t].pc = "convert", call'[t].failed = call[t].failed
          PROVE  ControlInv(t)' /\ LookupInv(t)'
      <4>1. ControlInv(t)'
        BY <3>1, <3>2, <1>4
      <4>2. LookupInv(t)'
        BY <2>3, <3>1, <3>2, <4>1, <1>2 DEF LookupInv, SameRequest, ControlInv, Busy
      <4> QED
        BY <4>1, <4>2
    <3> QED
      BY <2>3, <3>2, <1>1, ProceedStep
  <2> QED
    BY <1>5, <2>1, <2>2, <2>3 DEF LookUpCreate, LookUpBatchCreate
<1>6. CASE LookUpPatchAttr(t)
  <2>1. CASE Reply(t, "refused")
    BY <2>1, <1>1, RefuseStep
  <2>2. CASE Named(call[t].asked) # {} /\ Goto(t, "take")
    <3>1. call[t].op = "patchAttr"
      BY <1>6 DEF LookUpPatchAttr, LookUp, AtOp
    <3>2. \E ty \in Alive : call[t].asked \subseteq In(db[ty].attrs)
      BY <2>2 DEF Named, EntitiesInv, NamesAgree, Alive
    <3>3. ASSUME SameRequest(t), call'[t].pc = "take", call'[t].failed = call[t].failed
          PROVE  ControlInv(t)' /\ LookupInv(t)'
      <4>1. ControlInv(t)'
        BY <3>1, <3>3, <1>4
      <4>2. LookupInv(t)'
        BY <3>1, <3>2, <3>3, <4>1, <1>1, <1>2 DEF LookupInv, SameRequest, ControlInv, Busy
      <4> QED
        BY <4>1, <4>2
    <3> QED
      BY <2>2, <3>3, <1>1, ProceedStep
  <2> QED
    BY <1>6, <2>1, <2>2 DEF LookUpPatchAttr
<1>7. CASE LookUpDeleteAttr(t) \/ LookUpDelete(t) \/ LookUpBatchDelete(t)
  <2>1. CASE Reply(t, "refused")
    BY <2>1, <1>1, RefuseStep
  <2>2. PICK l \in { "gap", "remove", "clear" } :
           /\ Reply(t, "refused") \/ Goto(t, l)
           /\ l = "gap" => call[t].op = "deleteAttr"
           /\ l = "remove" => call[t].op = "delete"
           /\ l = "clear" => call[t].op = "batchDelete"
    BY <1>7 DEF LookUpDeleteAttr, LookUpDelete, LookUpBatchDelete, LookUp, AtOp
  <2>3. CASE ~Reply(t, "refused")
    <3>1. ASSUME SameRequest(t), call'[t].pc = l, call'[t].failed = call[t].failed
          PROVE  ControlInv(t)' /\ LookupInv(t)'
      <4>1. ControlInv(t)'
        BY <2>2, <2>3, <3>1, <1>4
      <4>2. LookupInv(t)'
        BY <2>2, <2>3, <3>1, <4>1 DEF LookupInv, SameRequest, ControlInv, Busy
      <4> QED
        BY <4>1, <4>2
    <3> QED
      BY <2>2, <2>3, <3>1, <1>1, ProceedStep
  <2> QED
    BY <2>1, <2>3
<1>8. CASE Convert(t)
  <2>1. CASE Reply(t, "refused")
    BY <2>1, <1>1, RefuseStep
  <2>2. CASE Goto(t, "take")
    <3>1. call[t].pc = "convert"
      BY <1>8 DEF Convert, At
    <3>2. ASSUME SameRequest(t), call'[t].pc = "take", call'[t].failed = call[t].failed
          PROVE  ControlInv(t)' /\ LookupInv(t)'
      <4>1. /\ call[t].op \in { "batchCreate", "batchUpdate", "upsert" }
            /\ call[t].op = "upsert" => call[t].type # AnyType
        BY <3>1, <1>2 DEF ThreadInv, ControlInv
      <4>2. ControlInv(t)'
        BY <4>1, <3>2, <1>4
      <4>3. LookupInv(t)
        BY <1>2 DEF ThreadInv
      <4>4. LookupInv(t)'
        BY <3>1, <3>2, <4>1, <4>3, <1>1, <1>2, <1>3 DEF LookupInv, SameRequest
      <4> QED
        BY <4>2, <4>4
    <3> QED
      BY <2>2, <3>2, <1>1, ProceedStep
  <2> QED
    BY <1>8, <2>1, <2>2 DEF Convert
<1> QED
  BY <1>5, <1>6, <1>7, <1>8

\* A failing lookup finds nothing; a failing removal is reported.
LEMMA LookUpFailsStep ==
  ASSUME EntitiesInv, NEW t \in Thread, LookUpFails(t) \/ RemoveFails(t)
  PROVE  EntitiesInv'
<1> DEFINE c == call[t]
           d == call'[t]
<1>1. /\ Busy(t) /\ ~Inside(t) /\ c.pc \in { "lookup", "remove" }
      /\ UNCHANGED << db, reqSem, requests, disturbed, wrote, inserted, stale, twins >>
      /\ faults < MaxFaults /\ faults' = faults + 1 /\ spoilt' = [spoilt EXCEPT ![t] = TRUE]
  BY DEF LookUpFails, RemoveFails, Busy, Inside, At
<1>2. TypeOK /\ ThreadInv(t)
  BY DEF EntitiesInv
<1>3. /\ Moved(t) /\ SameRequest(t) /\ d.failed = c.failed
      /\ \/ d.pc = "reply" /\ d.answer \in { "refused", "error" }
         \/ c.op = "create" /\ d.pc = "take"
         \/ c.op = "batchCreate" /\ d.pc = "convert"
         \/ c.op = "upsert" /\ c.type # AnyType /\ d.pc = "convert"
  <2>1. CASE \E w \in { "refused", "error" } : Reply(t, w)
    BY <2>1, <1>2, ReplyMoves DEF Answers
  <2>2. CASE c.op = "create" /\ Goto(t, "take")
    BY <2>2, <1>2, GotoMoves DEF Locations
  <2>3. CASE (c.op = "batchCreate" \/ (c.op = "upsert" /\ c.type # AnyType)) /\ Goto(t, "convert")
    BY <2>3, <1>2, GotoMoves DEF Locations
  <2> QED
    BY <2>1, <2>2, <2>3 DEF LookUpFails, RemoveFails, FoundNothing
<1>4. /\ spoilt' \in [Thread -> BOOLEAN] /\ spoilt'[t]
      /\ \A u \in Thread \ { t } : spoilt'[u] = spoilt[u]
  BY <1>1, <1>2 DEF TypeOK
<1>5. faults' \in 0 .. MaxFaults
  BY <1>1, <1>2, EntitiesAssumption DEF TypeOK, EntitiesAssumption
<1>6. Busy(t)' /\ ~Inside(t)'
  BY <1>3 DEF Busy, Inside
<1>7. Exclusion'
  BY <1>1, <1>2, <1>3, <1>6, ExclusionStays
<1>8. ControlInv(t)'
  BY <1>1, <1>2, <1>3, <1>4, <1>6 DEF ThreadInv, ControlInv, SameRequest, Busy, Gullible
<1>9. LookupInv(t)'
  BY <1>3, <1>4, <1>6, <1>8 DEF LookupInv, SameRequest, ControlInv
<1>10. QueryInv(t)' /\ GiveInv(t)' /\ ReplyInv(t)'
  BY <1>3 DEF QueryInv, GiveInv, ReplyInv, Acknowledged, At
<1>11. ThreadInv(t)'
  BY <1>8, <1>9, <1>10 DEF ThreadInv
<1> QED
  BY <1>1, <1>2, <1>3, <1>4, <1>5, <1>6, <1>7, <1>11, QuietStep DEF SameRequest, TypeOK

\* What With writes.
LEMMA WithIs ==
  ASSUME NEW S \in SUBSET Attr, NEW v \in Value \ { 0 }
  PROVE  /\ With(S, v) \in Values /\ In(With(S, v)) = S
         /\ \A a \in Attr : With(S, v)[a] \in { 0, v }
BY DocTypes DEF With, In

\* The lookups that also find out what will be written.
LEMMA LookUpAppendStep ==
  ASSUME EntitiesInv, NEW t \in Thread, LookUpAppend(t)
  PROVE  EntitiesInv'
<1> USE DEF history
<1> DEFINE c == call[t]
<1>1. /\ Busy(t) /\ ~Inside(t) /\ UNCHANGED << db, reqSem, bounds, history >>
      /\ c.pc = "lookup" /\ c.op = "append"
  BY DEF Busy, Inside, LookUp, AtOp, LookUpAppend
<1>2. CASE Reply(t, "refused")
  BY <1>1, <1>2, RefuseStep
<1>3. CASE ~Reply(t, "refused")
  <2>1. c \in CallState /\ ControlInv(t) /\ c.n \in Value \ { 0 } /\ c.asked \in SUBSET Attr
    BY <1>1 DEF EntitiesInv, TypeOK, CallState, ThreadInv, ControlInv
  <2>2. PICK ty \in Alive :
          LET left == IF c.keep THEN c.asked \ db[ty].names ELSE c.asked
          IN  call' = [call EXCEPT ![t].load = With(left, c.n),
                 ![t].pc = IF left = {} THEN "reply" ELSE "gap",
                 ![t].answer = IF left = {} THEN "ok" ELSE "none"]
    BY <1>3 DEF LookUpAppend
  <2> DEFINE left == IF c.keep THEN c.asked \ db[ty].names ELSE c.asked
             d == [c EXCEPT !.load = With(left, c.n),
                            !.pc = IF left = {} THEN "reply" ELSE "gap",
                            !.answer = IF left = {} THEN "ok" ELSE "none"]
  <2>3. left \in SUBSET Attr /\ left \subseteq c.asked
    BY <2>1
  <2>4. With(left, c.n) \in Values /\ In(With(left, c.n)) = left
        /\ \A a \in Attr : With(left, c.n)[a] \in { 0, c.n }
    BY <2>1, <2>3, WithIs
  <2>5. call' = [call EXCEPT ![t] = d]
    BY <2>2
  <2>6. c.keep => left \cap db[ty].names = {}
    OBVIOUS
  <2> HIDE DEF left
  <2>7. d \in CallState
    BY <2>1, <2>4 DEF CallState, Locations, Answers
  <2>8. /\ d.load = With(left, c.n) /\ d.pc = (IF left = {} THEN "reply" ELSE "gap")
        /\ d.answer = (IF left = {} THEN "ok" ELSE "none") /\ d.op = c.op /\ d.n = c.n
        /\ d.type = c.type /\ d.asked = c.asked /\ d.keep = c.keep /\ d.failed = c.failed
    BY <2>1 DEF CallState
  <2> HIDE DEF d
  <2>9. Moved(t) /\ call'[t] = d
    BY <2>5, <2>7 DEF Moved, EntitiesInv, TypeOK
  <2>10. ControlInv(t)'
    BY <1>1, <2>1, <2>3, <2>4, <2>8, <2>9 DEF ControlInv, Busy
  <2>11. LookupInv(t)'
    <3>1. ASSUME c.keep, left # {}, ~stale
          PROVE  \E uy \in Matching(t)' : In(d.load) \cap In(db'[uy].attrs) = {}
      <4>1. ty \in Matching(t)'
        BY <1>1, <2>1, <2>8, <2>9 DEF Matching, Alive, ControlInv
      <4>2. In(db[ty].attrs) \subseteq db[ty].names
        BY <3>1 DEF EntitiesInv, NamesAgree, Alive
      <4> QED
        BY <4>1, <4>2, <3>1, <2>4, <2>6, <2>8, <1>1
    <3> QED
      BY <3>1, <1>1, <2>8, <2>9 DEF LookupInv
  <2>12. QueryInv(t)' /\ GiveInv(t)'
    BY <2>8, <2>9 DEF QueryInv, GiveInv
  <2>13. ReplyInv(t)'
    <3>1. left = {} => \A a \in Attr : d.load[a] # d.n
      BY <2>1, <2>4, <2>8 DEF In, CallState, Values
    <3> QED
      BY <3>1, <1>1, <2>8, <2>9 DEF ReplyInv, Acknowledged, At, Written, Gone
  <2>14. ThreadInv(t)' /\ Busy(t)' /\ ~Inside(t)'
    BY <2>8, <2>9, <2>10, <2>11, <2>12, <2>13 DEF ThreadInv, Busy, Inside
  <2> QED
    BY <1>1, <2>4, <2>8, <2>9, <2>14, ReadStep
<1> QED
  BY <1>2, <1>3

LEMMA LookUpPatchStep ==
  ASSUME EntitiesInv, NEW t \in Thread, LookUpPatch(t)
  PROVE  EntitiesInv'
<1> USE DEF history
<1> DEFINE c == call[t]
<1>1. /\ Busy(t) /\ ~Inside(t) /\ UNCHANGED << db, reqSem, bounds, history >>
      /\ c.pc = "lookup" /\ c.op = "patch"
  BY DEF Busy, Inside, LookUp, AtOp, LookUpPatch
<1>2. CASE Reply(t, "refused")
  BY <1>1, <1>2, RefuseStep
<1>3. CASE ~Reply(t, "refused")
  <2>1. c \in CallState /\ ControlInv(t) /\ c.n \in Value \ { 0 } /\ c.asked \in SUBSET Attr
    BY <1>1 DEF EntitiesInv, TypeOK, CallState, ThreadInv, ControlInv
  <2>2. PICK ty \in Alive :
          LET news == c.asked \cap In(db[ty].attrs)
          IN  \E lost \in SUBSET news :
                call' = [call EXCEPT ![t].type = ty, ![t].bad = (lost # {}),
                   ![t].load = IF news = {} THEN Nothing
                               ELSE [a \in Attr |-> IF a \in lost THEN 0
                                                    ELSE IF a \in news THEN call[t].n
                                                    ELSE db[ty].attrs[a]],
                   ![t].pc = IF news = {} THEN "reply" ELSE "take",
                   ![t].answer = IF news = {} THEN "ok" ELSE "none"]
    BY <1>3 DEF LookUpPatch
  <2> DEFINE news == c.asked \cap In(db[ty].attrs)
             Load(lost) == IF news = {} THEN Nothing
                           ELSE [a \in Attr |-> IF a \in lost THEN 0
                                                ELSE IF a \in news THEN c.n
                                                ELSE db[ty].attrs[a]]
  <2>a. PICK lost \in SUBSET news :
          call' = [call EXCEPT ![t].type = ty, ![t].bad = (lost # {}), ![t].load = Load(lost),
                     ![t].pc = IF news = {} THEN "reply" ELSE "take",
                     ![t].answer = IF news = {} THEN "ok" ELSE "none"]
    BY <2>2
  <2> DEFINE load == Load(lost)
             d == [c EXCEPT !.type = ty, !.bad = (lost # {}), !.load = load,
                            !.pc = IF news = {} THEN "reply" ELSE "take",
                            !.answer = IF news = {} THEN "ok" ELSE "none"]
  <2>3. db[ty].attrs \in Values /\ ty \in Type /\ db[ty].alive
    BY DEF EntitiesInv, TypeOK, Doc, Alive
  <2>b. 0 \in Value
    BY EntitiesAssumption DEF EntitiesAssumption, Value
  <2>4. load \in Values
    <3>1. CASE news = {}
      BY <3>1, NoCallType
    <3>2. CASE news # {}
      <4>1. \A a \in Attr : db[ty].attrs[a] \in Value
        BY <2>3 DEF Values
      <4> HIDE DEF news
      <4>2. load = [a \in Attr |-> IF a \in lost THEN 0 ELSE IF a \in news THEN c.n
                                 ELSE db[ty].attrs[a]]
        BY <3>2
      <4> QED
        BY <2>1, <2>b, <4>1, <4>2 DEF Values
    <3> QED
      BY <3>1, <3>2
  <2>5. /\ \A a \in Attr : load[a] \in { 0, c.n, db[ty].attrs[a] }
        /\ news = {} => \A a \in Attr : load[a] = 0
        /\ news # {} => \A a \in Attr \ c.asked : load[a] = db[ty].attrs[a]
    BY DEF Nothing
  <2>6. call' = [call EXCEPT ![t] = d]
    BY <2>a
  <2> HIDE DEF news, load
  <2>7. d \in CallState
    BY <2>1, <2>3, <2>4 DEF CallState, Locations, Answers
  <2>8. /\ d.load = load /\ d.pc = (IF news = {} THEN "reply" ELSE "take")
        /\ d.answer = (IF news = {} THEN "ok" ELSE "none") /\ d.op = c.op /\ d.n = c.n
        /\ d.type = ty /\ d.asked = c.asked /\ d.keep = c.keep /\ d.failed = c.failed
    BY <2>1 DEF CallState
  <2> HIDE DEF d
  <2>9. Moved(t) /\ call'[t] = d
    BY <2>6, <2>7 DEF Moved, EntitiesInv, TypeOK
  <2>10. ControlInv(t)'
    BY <1>1, <2>1, <2>8, <2>9 DEF ControlInv, Busy, Creators
  <2>11. LookupInv(t)'
    BY <1>1, <2>1, <2>3, <2>5, <2>8, <2>9 DEF LookupInv, ControlInv
  <2>12. QueryInv(t)' /\ GiveInv(t)'
    BY <2>8, <2>9 DEF QueryInv, GiveInv
  <2>13. ReplyInv(t)'
    BY <1>1, <2>1, <2>5, <2>8, <2>9 DEF ReplyInv, Acknowledged, At, Written, Gone
  <2>14. ThreadInv(t)' /\ Busy(t)' /\ ~Inside(t)'
    BY <2>8, <2>9, <2>10, <2>11, <2>12, <2>13 DEF ThreadInv, Busy, Inside
  <2> QED
    BY <1>1, <2>3, <2>5, <2>8, <2>9, <2>14, ReadStep
<1> QED
  BY <1>2, <1>3

LEMMA LookUpBatchUpdateStep ==
  ASSUME EntitiesInv, NEW t \in Thread, LookUpBatchUpdate(t)
  PROVE  EntitiesInv'
<1> USE DEF history
<1> DEFINE c == call[t]
<1>1. /\ Busy(t) /\ ~Inside(t) /\ UNCHANGED << db, reqSem, bounds, history >>
      /\ c.pc = "lookup" /\ c.op = "batchUpdate"
  BY DEF Busy, Inside, LookUp, AtOp, LookUpBatchUpdate
<1>2. CASE Reply(t, "refused")
  BY <1>1, <1>2, RefuseStep
<1>3. CASE ~Reply(t, "refused")
  <2>1. c \in CallState /\ ControlInv(t) /\ c.n \in Value \ { 0 } /\ c.asked \in SUBSET Attr
    BY <1>1 DEF EntitiesInv, TypeOK, CallState, ThreadInv, ControlInv
  <2>2. PICK ty \in Alive :
          call' = [call EXCEPT ![t].type = ty, ![t].pc = "convert",
                     ![t].load = With(IF c.keep THEN c.asked \ db[ty].names ELSE c.asked, c.n)]
    BY <1>3 DEF LookUpBatchUpdate
  <2> DEFINE left == IF c.keep THEN c.asked \ db[ty].names ELSE c.asked
             d == [c EXCEPT !.type = ty, !.pc = "convert", !.load = With(left, c.n)]
  <2>3. left \in SUBSET Attr /\ left \subseteq c.asked /\ ty \in Type /\ db[ty].alive
    BY <2>1 DEF Alive
  <2>4. With(left, c.n) \in Values /\ In(With(left, c.n)) = left
        /\ \A a \in Attr : With(left, c.n)[a] \in { 0, c.n }
    BY <2>1, <2>3, WithIs
  <2>5. call' = [call EXCEPT ![t] = d]
    BY <2>2
  <2>6. c.keep => left \cap db[ty].names = {}
    OBVIOUS
  <2> HIDE DEF left
  <2>7. d \in CallState
    BY <2>1, <2>3, <2>4 DEF CallState, Locations
  <2>8. /\ d.load = With(left, c.n) /\ d.pc = "convert" /\ d.op = c.op /\ d.n = c.n
        /\ d.type = ty /\ d.asked = c.asked /\ d.keep = c.keep /\ d.failed = c.failed
    BY <2>1 DEF CallState
  <2> HIDE DEF d
  <2>9. Moved(t) /\ call'[t] = d
    BY <2>5, <2>7 DEF Moved, EntitiesInv, TypeOK
  <2>10. ControlInv(t)'
    BY <1>1, <2>1, <2>3, <2>4, <2>8, <2>9 DEF ControlInv, Busy, Creators
  <2>11. LookupInv(t)'
    <3>1. ASSUME c.keep, ~stale
          PROVE  \E uy \in Matching(t)' : In(d.load) \cap In(db'[uy].attrs) = {}
      <4>1. ty \in Matching(t)'
        BY <1>1, <2>3, <2>8, <2>9 DEF Matching, Alive
      <4>2. In(db[ty].attrs) \subseteq db[ty].names
        BY <3>1, <2>3 DEF EntitiesInv, NamesAgree
      <4> QED
        BY <4>1, <4>2, <3>1, <2>4, <2>6, <2>8, <1>1
    <3> QED
      BY <3>1, <1>1, <2>3, <2>8, <2>9 DEF LookupInv
  <2>12. QueryInv(t)' /\ GiveInv(t)' /\ ReplyInv(t)'
    BY <2>8, <2>9 DEF QueryInv, GiveInv, ReplyInv, Acknowledged, At
  <2>13. ThreadInv(t)' /\ Busy(t)' /\ ~Inside(t)'
    BY <2>8, <2>9, <2>10, <2>11, <2>12 DEF ThreadInv, Busy, Inside
  <2> QED
    BY <1>1, <2>4, <2>8, <2>9, <2>13, ReadStep
<1> QED
  BY <1>2, <1>3

LEMMA LookUpUpsertStep ==
  ASSUME EntitiesInv, NEW t \in Thread, LookUpUpsert(t)
  PROVE  EntitiesInv'
<1> USE DEF history
<1> DEFINE c == call[t]
<1>1. /\ Busy(t) /\ ~Inside(t) /\ UNCHANGED << db, reqSem, bounds, history >>
      /\ c.pc = "lookup" /\ c.op = "upsert"
  BY DEF Busy, Inside, LookUp, AtOp, LookUpUpsert
<1>2. c \in CallState /\ ControlInv(t)
  BY DEF EntitiesInv, TypeOK, ThreadInv
<1>3. CASE Reply(t, "refused")
  BY <1>1, <1>3, RefuseStep
<1>4. CASE Goto(t, "convert") /\ c.type # AnyType
  <2>1. ASSUME SameRequest(t), call'[t].pc = "convert", call'[t].failed = call[t].failed
        PROVE  ControlInv(t)' /\ LookupInv(t)'
    BY <2>1, <1>1, <1>2, <1>4 DEF ControlInv, LookupInv, SameRequest, Busy, Calm
  <2> QED
    BY <1>1, <1>4, <2>1, ProceedStep
<1>5. CASE ~Reply(t, "refused") /\ ~(Goto(t, "convert") /\ c.type # AnyType)
  <2>1. PICK ty \in Alive :
          call' = [call EXCEPT ![t].type = ty,
                     ![t].pc = IF c.replace THEN "clear" ELSE "convert",
                     ![t].bad = @ \/ Alive # { ty }]
    BY <1>5 DEF LookUpUpsert
  <2> DEFINE d == [c EXCEPT !.type = ty, !.pc = IF c.replace THEN "clear" ELSE "convert",
                            !.bad = @ \/ Alive # { ty }]
  <2>2. ty \in Type /\ ty # AnyType
    BY EntitiesAssumption DEF Alive, EntitiesAssumption
  <2>3. d \in CallState
    BY <1>2, <2>2 DEF CallState, Locations
  <2>4. /\ d.pc = (IF c.replace THEN "clear" ELSE "convert") /\ d.op = c.op /\ d.n = c.n
        /\ d.type = ty /\ d.asked = c.asked /\ d.keep = c.keep /\ d.replace = c.replace
        /\ d.failed = c.failed /\ d.load = c.load
    BY <1>2 DEF CallState
  <2>5. call' = [call EXCEPT ![t] = d]
    BY <2>1
  <2> HIDE DEF d
  <2>6. Moved(t) /\ call'[t] = d
    BY <2>3, <2>5 DEF Moved, EntitiesInv, TypeOK
  <2>7. ControlInv(t)'
    BY <1>1, <1>2, <2>2, <2>4, <2>6 DEF ControlInv, Busy, Creators, Calm
  <2>8. LookupInv(t)'
    BY <1>1, <2>4, <2>6, <1>2 DEF LookupInv, ControlInv
  <2>9. QueryInv(t)' /\ GiveInv(t)' /\ ReplyInv(t)'
    BY <2>4, <2>6 DEF QueryInv, GiveInv, ReplyInv, Acknowledged, At
  <2>10. ThreadInv(t)' /\ Busy(t)' /\ ~Inside(t)'
    BY <2>4, <2>6, <2>7, <2>8, <2>9 DEF ThreadInv, Busy, Inside
  <2> QED
    BY <1>1, <2>4, <2>6, <2>10, ReadStep
<1> QED
  BY <1>3, <1>4, <1>5

-----------------------------------------------------------------------------
(***************************************************************************)
(* The steps of mongoUpdateContext that do not write.                      *)
(***************************************************************************)
LEMMA TakeStep ==
  ASSUME EntitiesInv, NEW t \in Thread, Take(t)
  PROVE  EntitiesInv'
<1> USE DEF bounds, history
<1> DEFINE l == IF call[t].op \in V2Ops THEN "count" ELSE "query"
<1>1. l \in Locations /\ l \in { "count", "query" }
  BY DEF Locations
<1>2. /\ Busy(t) /\ ~Inside(t) /\ UNCHANGED << db, bounds, history >> /\ call[t].pc = "take"
      /\ reqSem' = ~ReqMutex /\ (ReqMutex => reqSem) /\ Goto(t, l)
  BY DEF Busy, Inside, At, Take
<1>3. Moved(t) /\ SameRequest(t) /\ call'[t].pc = l /\ call'[t].failed = call[t].failed
  BY <1>1, <1>2, GotoMoves DEF EntitiesInv
<1>4. ControlInv(t) /\ LookupInv(t) /\ TypeOK
  BY DEF EntitiesInv, ThreadInv
<1>5. Alive' = Alive /\ Matching(t)' = Matching(t) /\ Calm(t)' = Calm(t) /\ Loss(t)' = Loss(t)
  BY <1>2, <1>3 DEF Alive, Matching, Calm, Loss, SameRequest
<1>6. ControlInv(t)'
  BY <1>2, <1>3, <1>4, <1>5 DEF ControlInv, SameRequest, Busy
<1>7. LookupInv(t)'
  BY <1>2, <1>3, <1>4, <1>5 DEF LookupInv, SameRequest
<1>8. QueryInv(t)' /\ GiveInv(t)' /\ ReplyInv(t)'
  BY <1>3 DEF QueryInv, GiveInv, ReplyInv, Acknowledged, At, SameRequest, V2Ops
<1>9. ThreadInv(t)' /\ Busy(t)' /\ Inside(t)'
  BY <1>1, <1>3, <1>6, <1>7, <1>8 DEF ThreadInv, Busy, Inside
<1>10. Exclusion' /\ reqSem' \in BOOLEAN
  <2>1. \A u \in Thread \ { t } : Inside(u)' <=> Inside(u)
    BY <1>3 DEF Moved, Inside
  <2> QED
    BY <2>1, <1>2, <1>4, <1>9, EntitiesAssumption DEF TypeOK, Exclusion, EntitiesAssumption
<1> QED
  BY <1>2, <1>3, <1>4, <1>9, <1>10, QuietStep DEF SameRequest, TypeOK

\* The response gets an error: for an operation that reports it, or when the reason
\* is that somebody removed what the request was about.
LEMMA FailStep ==
  ASSUME EntitiesInv, NEW t \in Thread, Inside(t), Fail(t),
         UNCHANGED << db, reqSem, bounds, history >>,
         Reports(call[t].op) \/ Loss(t),
         call[t].op \in { "batchCreate", "upsert" } => spoilt[t] \/ ~Calm(t)
  PROVE  EntitiesInv'
<1> USE DEF history
<1>1. Moved(t) /\ SameRequest(t) /\ call'[t].pc = "give" /\ call'[t].failed
  BY FailMoves DEF EntitiesInv
<1>2. ControlInv(t)'
  BY <1>1 DEF EntitiesInv, ThreadInv, ControlInv, SameRequest, Busy, Inside, Calm
<1>3. LookupInv(t)' /\ QueryInv(t)' /\ ReplyInv(t)'
  BY <1>1 DEF LookupInv, QueryInv, ReplyInv, Acknowledged, At
<1>4. GiveInv(t)'
  BY <1>1 DEF GiveInv, Written, Gone, Reports, Loss, SameRequest
<1>5. ThreadInv(t)' /\ Busy(t) /\ Busy(t)' /\ Inside(t)'
  BY <1>1, <1>2, <1>3, <1>4 DEF ThreadInv, Busy, Inside
<1> QED
  BY <1>1, <1>5, ReadStep DEF SameRequest

LEMMA CountStep ==
  ASSUME EntitiesInv, NEW t \in Thread, Count(t)
  PROVE  EntitiesInv'
<1> USE DEF bounds, history
<1>1. Busy(t) /\ Inside(t) /\ UNCHANGED << db, reqSem, bounds, history >> /\ call[t].pc = "count"
  BY DEF Busy, Inside, At, Count
<1>2. ControlInv(t) /\ call[t].op \in V2Ops
  BY <1>1 DEF EntitiesInv, ThreadInv, ControlInv
<1>3. CASE Fail(t)
  <2>1. Reports(call[t].op) /\ call[t].op \notin { "batchCreate", "upsert" }
    BY <1>2 DEF Reports, V2Ops
  <2> QED
    BY <1>1, <1>3, <2>1, FailStep
<1>4. CASE ~Fail(t)
  <2>1. /\ Goto(t, "query")
        /\ call[t].op = "v2append" => Cardinality(Matching(t)) # 0
        /\ call[t].op = "v2create" => ~(Cardinality(Matching(t)) > 0)
    BY <1>4 DEF Count
  <2>2. IsFiniteSet(Matching(t))
    BY EntitiesAssumption, FS_Subset DEF EntitiesAssumption, Matching, Alive
  <2>3. /\ call[t].op = "v2append" => Matching(t) # {}
        /\ call[t].op = "v2create" => Matching(t) = {}
    BY <2>1, <2>2, FS_EmptySet, FS_CardinalityType
  <2>4. Moved(t) /\ SameRequest(t) /\ call'[t].pc = "query" /\ call'[t].failed = call[t].failed
    BY <2>1, GotoMoves DEF EntitiesInv, Locations
  <2>5. Matching(t)' = Matching(t)
    BY <1>1, <2>4 DEF Alive, Matching, SameRequest
  <2>6. ControlInv(t)'
    <3>1. call[t].op \notin { "upsert", "batchCreate" } /\ call'[t].op = call[t].op
      BY <1>2, <2>4 DEF V2Ops, SameRequest
    <3> QED
      BY <1>1, <1>2, <2>4, <3>1 DEF ControlInv, SameRequest, Busy, Calm
  <2>7. LookupInv(t)'
    BY <1>1, <1>2, <2>4 DEF LookupInv, SameRequest, ControlInv, Busy, V2Ops
  <2>8. QueryInv(t)' /\ GiveInv(t)' /\ ReplyInv(t)'
    BY <2>3, <2>4, <2>5 DEF QueryInv, GiveInv, ReplyInv, Acknowledged, At, SameRequest
  <2>9. ThreadInv(t)' /\ Busy(t)' /\ Inside(t)'
    BY <2>4, <2>6, <2>7, <2>8 DEF ThreadInv, Busy, Inside
  <2> QED
    BY <1>1, <2>4, <2>9, ReadStep DEF SameRequest
<1> QED
  BY <1>3, <1>4

LEMMA QueryStep ==
  ASSUME EntitiesInv, NEW t \in Thread, Query(t)
  PROVE  EntitiesInv'
<1> USE DEF bounds, history
<1> DEFINE c == call[t]
           d == call'[t]
<1>1. Busy(t) /\ Inside(t) /\ UNCHANGED << db, reqSem, bounds, history >> /\ c.pc = "query"
  BY DEF Busy, Inside, At, Query
<1>2. ControlInv(t) /\ LookupInv(t) /\ QueryInv(t) /\ TypeOK /\ c \in CallState
  BY DEF EntitiesInv, ThreadInv, TypeOK
<1>3. ASSUME Matching(t) = {}, ~Loss(t)
      PROVE  c.op \notin { "batchUpdate", "v2append", "patch", "patchAttr" }
  <2>1. c.op # "batchUpdate" /\ c.op # "patch"
    BY <1>1, <1>2, <1>3 DEF LookupInv, Matching, Alive
  <2>2. c.op # "patchAttr"
    BY <1>1, <1>2, <1>3 DEF LookupInv, ControlInv, Matching
  <2>3. c.op # "v2append"
    BY <1>1, <1>2, <1>3 DEF QueryInv
  <2> QED
    BY <2>1, <2>2, <2>3
<1>4. CASE Matching(t) # {} /\ call' = [call EXCEPT ![t].pc = "write", ![t].docs = db,
                                                    ![t].todo = Matching(t)]
  <2> DEFINE e == [c EXCEPT !.pc = "write", !.docs = db, !.todo = Matching(t)]
  <2>1. Matching(t) \subseteq Type /\ db \in [Type -> Doc]
    BY <1>2 DEF Matching, Alive, TypeOK
  <2>2. e \in CallState
    BY <1>2, <2>1 DEF CallState, Locations
  <2>3. /\ e.pc = "write" /\ e.docs = db /\ e.todo = Matching(t) /\ e.op = c.op /\ e.n = c.n
        /\ e.type = c.type /\ e.asked = c.asked /\ e.keep = c.keep /\ e.load = c.load
        /\ e.failed = c.failed
    BY <1>2 DEF CallState
  <2>4. call' = [call EXCEPT ![t] = e]
    BY <1>4
  <2> HIDE DEF e
  <2>5. Moved(t) /\ call'[t] = e
    BY <2>2, <2>4, <1>2 DEF Moved, TypeOK
  <2> HIDE DEF c
  <2>6. Matching(t)' = Matching(t) /\ Alive' = Alive /\ Calm(t)' = Calm(t) /\ Loss(t)' = Loss(t)
    BY <1>1, <2>3, <2>5 DEF Matching, Alive, Calm, Loss, c
  <2>7. ControlInv(t)'
    <3>1. c.type = AnyType \/ Matching(t) \subseteq { c.type }
      BY DEF Matching, c
    <3>2. c.op \notin { "delete", "batchDelete", "deleteAttr" } /\ spoilt' = spoilt
      BY <1>1, <1>2 DEF ControlInv, c
    <3>3. /\ call'[t].op = call[t].op /\ call'[t].n = call[t].n /\ call'[t].type = call[t].type
          /\ call'[t].asked = call[t].asked /\ call'[t].keep = call[t].keep
          /\ call'[t].load = call[t].load /\ call'[t].failed = call[t].failed
          /\ call'[t].pc = "write" /\ call'[t].todo = Matching(t)
      BY <2>3, <2>5 DEF c
    <3> QED
      BY <3>1, <3>2, <3>3, <1>1, <1>2, <1>4, <2>6 DEF ControlInv, Busy, c
  <2>8. LookupInv(t)'
    BY <1>1, <1>2, <2>3, <2>5, <2>6 DEF LookupInv, c
  <2>9. QueryInv(t)'
    <3>1. c.op \in Creators => NotNew(t)'
      <4>1. c.op \in Creators => NotNew(t)
        BY <1>1, <1>2, <1>4 DEF LookupInv, QueryInv, Creators, Matching, NotNew, LdOps, c
      <4> QED
        BY <4>1, <1>1, <2>3, <2>5, <2>6 DEF NotNew, c
    <3>2. \A ty \in Matching(t) : db[ty].alive
      BY DEF Matching, Alive
    <3>3. c.op = "patchAttr" /\ ~Loss(t) => \E ty \in Matching(t) : c.asked \subseteq In(db[ty].attrs)
      BY <1>1, <1>2 DEF LookupInv, ControlInv, Matching, c
    <3>4. c.keep /\ Calm(t) /\ ~stale =>
            \E ty \in Matching(t) : In(c.load) \cap In(db[ty].attrs) = {}
      BY <1>1, <1>2 DEF LookupInv, c
    <3> QED
      BY <3>1, <3>2, <3>3, <3>4, <1>1, <2>3, <2>5, <2>6 DEF QueryInv
  <2>10. GiveInv(t)' /\ ReplyInv(t)'
    BY <2>3, <2>5 DEF GiveInv, ReplyInv, Acknowledged, At
  <2>11. ThreadInv(t)' /\ Busy(t)' /\ Inside(t)'
    BY <2>3, <2>5, <2>7, <2>8, <2>9, <2>10 DEF ThreadInv, Busy, Inside
  <2> QED
    BY <1>1, <2>3, <2>5, <2>11, ReadStep DEF c
<1>5. CASE /\ Matching(t) = {} /\ Action(c.op) \in { "Append", "AppendStrict" }
           /\ c.op # "append" /\ Goto(t, "insert")
  <2>1. Moved(t) /\ SameRequest(t) /\ d.pc = "insert" /\ d.failed = c.failed
    BY <1>2, <1>5, GotoMoves DEF Locations
  <2>2. Matching(t)' = Matching(t) /\ Alive' = Alive /\ Calm(t)' = Calm(t) /\ Loss(t)' = Loss(t)
    BY <1>1, <2>1 DEF Matching, Alive, Calm, Loss, SameRequest
  <2>3. ControlInv(t)'
    BY <1>1, <1>2, <1>5, <2>1, <2>2 DEF ControlInv, SameRequest, Busy
  <2>4. LookupInv(t)'
    BY <1>1, <1>2, <2>1, <2>2 DEF LookupInv, SameRequest
  <2>5. QueryInv(t)' /\ GiveInv(t)' /\ ReplyInv(t)'
    BY <1>3, <1>5, <2>1, <2>2 DEF QueryInv, GiveInv, ReplyInv, Acknowledged, At, SameRequest
  <2>6. ThreadInv(t)' /\ Busy(t)' /\ Inside(t)'
    BY <2>1, <2>3, <2>4, <2>5 DEF ThreadInv, Busy, Inside
  <2> QED
    BY <1>1, <2>1, <2>6, ReadStep DEF SameRequest
<1>6. CASE Matching(t) = {} /\ Action(c.op) \notin { "Append", "AppendStrict" } /\ Fail(t)
  <2>1. Reports(c.op) \/ Loss(t)
    BY <1>3, <1>6 DEF Reports, Action
  <2>2. c.op \notin { "batchCreate", "upsert" }
    BY <1>6 DEF Action
  <2> QED
    BY <1>1, <1>6, <2>1, <2>2, FailStep
<1> QED
  BY <1>4, <1>5, <1>6 DEF Query

\* What the client is told.
LEMMA Answers1 ==
  ASSUME NEW c \in CallState, c.op \notin { "delete", "batchDelete", "deleteAttr" }
  PROVE  /\ Answer(c) \in Answers
         /\ Answer(c) \in { "ok", "created" } /\ c.failed => ~Reports(c.op)
         /\ Answer(c) = "created" => c.op \in Creators /\ ~c.failed
         /\ Answer(c) = "mixed" => \/ c.op = "patch"
                                   \/ c.op \in { "batchCreate", "upsert" } /\ c.failed
BY DEF Answer, Answers, Reports, Creators, Unless, CreateAnswer, AppendAnswer, PatchAnswer,
       PatchAttrAnswer, BatchCreateAnswer, BatchUpdateAnswer, UpsertAnswer, V2Answer, CallState

LEMMA GiveStep ==
  ASSUME EntitiesInv, NEW t \in Thread, Give(t)
  PROVE  EntitiesInv'
<1> USE DEF bounds, history
<1> DEFINE c == call[t]
           d == call'[t]
<1>1. Busy(t) /\ Inside(t) /\ UNCHANGED << db, bounds, history >> /\ c.pc = "give" /\ reqSem' = TRUE
  BY DEF Busy, Inside, At, Give
<1>2. ControlInv(t) /\ GiveInv(t) /\ TypeOK /\ c \in CallState
  BY DEF EntitiesInv, ThreadInv, TypeOK
<1>3. /\ Answer(c) \in Answers
      /\ Answer(c) \in { "ok", "created" } /\ c.failed => ~Reports(c.op)
      /\ Answer(c) = "created" => c.op \in Creators /\ ~c.failed
      /\ Answer(c) = "mixed" => \/ c.op = "patch"
                                \/ c.op \in { "batchCreate", "upsert" } /\ c.failed
  BY <1>1, <1>2, Answers1 DEF ControlInv
<1>4. /\ Moved(t) /\ SameRequest(t) /\ d.pc = "reply" /\ d.answer = Answer(c)
      /\ d.failed = c.failed
  BY <1>2, <1>3, ReplyMoves DEF Give
<1>5. Matching(t)' = Matching(t) /\ Alive' = Alive /\ Calm(t)' = Calm(t)
  BY <1>1, <1>4 DEF Matching, Alive, Calm, SameRequest
<1>6. ControlInv(t)'
  BY <1>1, <1>2, <1>4, <1>5 DEF ControlInv, SameRequest, Busy
<1>7. LookupInv(t)' /\ QueryInv(t)' /\ GiveInv(t)'
  BY <1>4 DEF LookupInv, QueryInv, GiveInv
<1>8. ReplyInv(t)'
  <2>1. (Written(t) => Written(t)') /\ (Gone(t) => Gone(t)') /\ (NotNew(t) => NotNew(t)')
    BY <1>1, <1>4, <1>5 DEF Written, Gone, NotNew, SameRequest
  <2>2. d.answer = "created" => inserted[t] \/ NotNew(t)'
    BY <2>1, <1>1, <1>2, <1>3, <1>4 DEF GiveInv
  <2>3. ASSUME d.answer \in { "ok", "created", "mixed" }
        PROVE  (Written(t) \/ ListedTwice(t))' /\ Gone(t)'
    <3>1. CASE c.failed => ~Reports(c.op)
      BY <3>1, <2>1, <1>1, <1>2 DEF GiveInv
    <3>2. CASE c.failed /\ Reports(c.op)
      <4>1. d.answer = "mixed" /\ c.op \in { "batchCreate", "upsert" } /\ c.failed
        BY <3>2, <2>3, <1>3, <1>4 DEF Reports
      <4>2. spoilt[t] \/ disturbed[t] # {}
        BY <4>1, <1>1, <1>2 DEF ControlInv, Calm
      <4>3. ListedTwice(t)'
        BY <4>1, <4>2, <1>1, <1>4 DEF ListedTwice, SameRequest
      <4>4. Gone(t)'
        BY <4>1, <1>4 DEF Gone, SameRequest
      <4> QED
        BY <4>3, <4>4
    <3> QED
      BY <3>1, <3>2
  <2> QED
    BY <2>2, <2>3, <1>1, <1>4 DEF ReplyInv, Acknowledged, At
<1>9. ThreadInv(t)' /\ Busy(t)' /\ ~Inside(t)'
  BY <1>4, <1>6, <1>7, <1>8 DEF ThreadInv, Busy, Inside
<1>10. Exclusion' /\ reqSem' \in BOOLEAN
  <2>1. \A u \in Thread \ { t } : Inside(u)' <=> Inside(u)
    BY <1>4 DEF Moved, Inside
  <2> QED
    BY <2>1, <1>1, <1>2, <1>9 DEF TypeOK, Exclusion
<1> QED
  BY <1>1, <1>2, <1>4, <1>9, <1>10, QuietStep DEF SameRequest, TypeOK

-----------------------------------------------------------------------------
(***************************************************************************)
(* The steps that write to the database.                                   *)
(***************************************************************************)
\* What a write means to the thread that writes.
LEMMA OwnWrite ==
  ASSUME TypeOK, NEW t \in Thread, NEW new, WriteDb(t, new)
  PROVE  /\ db' = new /\ disturbed'[t] = disturbed[t]
         /\ wrote[t] \subseteq wrote'[t] /\ (twins => twins')
         /\ \A ty \in Type, a \in Attr :
              new[ty].attrs[a] = call[t].n /\ db[ty].attrs[a] # call[t].n => a \in wrote'[t]
BY DEF TypeOK, WriteDb

\* Attributes are taken out of a document.
LEMMA StripIs ==
  ASSUME NEW d \in Doc, NEW S \in SUBSET Attr
  PROVE  /\ Strip(d, S) \in Doc /\ Strip(d, S).alive = d.alive
         /\ Strip(d, S).names = d.names \ S
         /\ In(Strip(d, S).attrs) = In(d.attrs) \ S
         /\ \A a \in Attr : Strip(d, S).attrs[a] \in { 0, d.attrs[a] }
<1>1. Strip(d, S) \in Doc
  BY DocTypes
<1>2. /\ Strip(d, S).alive = d.alive /\ Strip(d, S).names = d.names \ S
      /\ Strip(d, S).attrs = [a \in Attr |-> IF a \in S THEN 0 ELSE d.attrs[a]]
  BY DEF Strip, Doc
<1> QED
  BY <1>1, <1>2 DEF In

LEMMA NoDocIs ==
  /\ ~NoDoc.alive /\ NoDoc.names = {} /\ In(NoDoc.attrs) = {}
  /\ \A a \in Attr : NoDoc.attrs[a] = 0
BY DEF NoDoc, Nothing, In

LEMMA UnsetStep ==
  ASSUME EntitiesInv, NEW t \in Thread, Unset(t)
  PROVE  EntitiesInv'
<1> DEFINE c == call[t]
           gone == IF c.op = "append" THEN In(c.load) ELSE c.asked
<1>1. Busy(t) /\ ~Inside(t) /\ UNCHANGED << reqSem, bounds, inserted, spoilt, stale >>
      /\ c.pc = "gap"
  BY DEF Busy, Inside, At, Unset
<1>2. ControlInv(t) /\ LookupInv(t) /\ TypeOK /\ NamesAgree /\ DocInv
  BY DEF EntitiesInv, ThreadInv
<1>3. gone \in SUBSET Attr
  BY <1>2 DEF TypeOK, CallState, In
<1>4. PICK new : /\ WriteDb(t, new)
                 /\ \/ Alive = {} /\ new = db
                    \/ \E ty \in Alive : new = [db EXCEPT ![ty] = Strip(db[ty], gone)]
  BY DEF Unset
<1> HIDE DEF gone
<1>5. /\ new \in [Type -> Doc]
      /\ \A ty \in Type : /\ new[ty].alive <=> db[ty].alive
                          /\ ~new[ty].alive => new[ty] = db[ty]
                          /\ new[ty].names \subseteq In(new[ty].attrs)
                          /\ ~stale => In(new[ty].attrs) \subseteq new[ty].names
                          /\ In(new[ty].attrs) \subseteq In(db[ty].attrs)
                          /\ \A a \in Attr : new[ty].attrs[a] \in { 0, db[ty].attrs[a] }
  <2>1. CASE new = db
    BY <2>1, <1>2 DEF TypeOK, NamesAgree
  <2>2. ASSUME NEW ty \in Alive, new = [db EXCEPT ![ty] = Strip(db[ty], gone)] PROVE <1>5
    <3>1. ty \in Type /\ db[ty] \in Doc /\ db[ty].alive
      BY <1>2 DEF Alive, TypeOK
    <3>2. /\ new[ty] = Strip(db[ty], gone) /\ \A uy \in Type \ { ty } : new[uy] = db[uy]
          /\ new \in [Type -> Doc]
      BY <2>2, <3>1, <1>2, <1>3, StripIs DEF TypeOK
    <3>3. /\ new[ty].alive /\ new[ty].names = db[ty].names \ gone
          /\ In(new[ty].attrs) = In(db[ty].attrs) \ gone
          /\ \A a \in Attr : new[ty].attrs[a] \in { 0, db[ty].attrs[a] }
      BY <3>1, <3>2, <1>3, StripIs
    <3>4. ASSUME NEW uy \in Type \ { ty }
          PROVE  /\ new[uy] = db[uy] /\ new[uy].names \subseteq In(new[uy].attrs)
                 /\ ~stale => In(new[uy].attrs) \subseteq new[uy].names
      BY <3>2, <1>2 DEF NamesAgree
    <3>5. /\ new[ty].names \subseteq In(new[ty].attrs)
          /\ ~stale => In(new[ty].attrs) \subseteq new[ty].names
      BY <3>1, <3>3, <1>2 DEF NamesAgree
    <3> QED
      BY <3>1, <3>2, <3>3, <3>4, <3>5
  <2> QED
    BY <2>1, <2>2, <1>4
<1>6. Alive' = Alive /\ db' = new /\ disturbed'[t] = disturbed[t] /\ (twins => twins')
  BY <1>2, <1>4, <1>5, OwnWrite DEF Alive
<1>7. /\ Moved(t) /\ SameRequest(t) /\ call'[t].failed = c.failed
      /\ \/ c.op = "append" /\ call'[t].pc = "take"
         \/ c.op = "deleteAttr" /\ call'[t].pc = "reply" /\ call'[t].answer = "ok"
  <2>1. c.op \in { "append", "deleteAttr" }
    BY <1>1, <1>2 DEF ControlInv
  <2> QED
    BY <2>1, <1>2, GotoMoves, ReplyMoves DEF Unset, Locations, Answers
<1>8. ThreadInv(t)'
  <2>1. ControlInv(t)'
    BY <1>1, <1>2, <1>7 DEF ControlInv, SameRequest, Busy
  <2>2. LookupInv(t)'
    <3>1. Matching(t)' = Matching(t) /\ Matching(t) \subseteq Type
      BY <1>6, <1>7 DEF Matching, SameRequest, Alive
    <3>2. ASSUME c.keep, Calm(t), ~stale
          PROVE  \E ty \in Matching(t) : In(c.load) \cap In(new[ty].attrs) = {}
      BY <3>1, <3>2, <1>1, <1>2, <1>5 DEF LookupInv
    <3> QED
      BY <3>1, <3>2, <1>1, <1>6, <1>7 DEF LookupInv, SameRequest, Calm
  <2>3. QueryInv(t)' /\ GiveInv(t)'
    BY <1>7 DEF QueryInv, GiveInv
  <2>4. ReplyInv(t)'
    <3>1. ASSUME ~twins', c.op = "deleteAttr"
          PROVE  \A ty \in Alive : c.asked \cap In(new[ty].attrs) = {}
      <4> SUFFICES ASSUME NEW ty \in Alive PROVE c.asked \cap In(new[ty].attrs) = {}
        OBVIOUS
      <4>1. ty \in Type /\ db[ty] \in Doc
        BY <1>2 DEF Alive, TypeOK
      <4>2. new = [db EXCEPT ![ty] = Strip(db[ty], gone)]
        BY <1>2, <1>4, <1>6, <3>1 DEF DocInv, Alive
      <4>3. new[ty] = Strip(db[ty], gone)
        BY <4>1, <4>2, <1>2 DEF TypeOK
      <4>4. gone = c.asked
        BY <3>1 DEF gone
      <4> QED
        BY <4>1, <4>3, <4>4, <1>3, StripIs
    <3>2. Matching(t)' \subseteq Alive
      BY <1>6 DEF Matching
    <3> QED
      BY <3>1, <3>2, <1>1, <1>6, <1>7 DEF ReplyInv, Acknowledged, At, Written, Gone, SameRequest
  <2> QED
    BY <2>1, <2>2, <2>3, <2>4 DEF ThreadInv
<1>9. Busy(t)' /\ ~Inside(t)'
  BY <1>7 DEF Busy, Inside
<1>10. \A ty \in Type : ~new[ty].alive => new[ty] = NoDoc
  BY <1>2, <1>5 DEF DocInv
<1>11. inserted' \in [Thread -> BOOLEAN] /\ stale' \in BOOLEAN
  BY <1>1, <1>2 DEF TypeOK
<1> QED
  BY <1>1, <1>4, <1>5, <1>7, <1>8, <1>9, <1>10, <1>11, WriteStep DEF SameRequest

\* Documents are removed.
LEMMA RemoveStep ==
  ASSUME EntitiesInv, NEW t \in Thread, RemoveOne(t) \/ Clear(t)
  PROVE  EntitiesInv'
<1> DEFINE c == call[t]
<1>1. Busy(t) /\ ~Inside(t) /\ UNCHANGED << reqSem, bounds, inserted, spoilt, stale >>
      /\ c.pc \in { "remove", "clear" }
  BY DEF Busy, Inside, At, RemoveOne, Clear
<1>2. ControlInv(t) /\ TypeOK /\ NamesAgree /\ DocInv /\ db \in [Type -> Doc] /\ NoDoc \in Doc
  BY NoCallType DEF EntitiesInv, ThreadInv, TypeOK
<1>3. PICK new : /\ WriteDb(t, new)
                 /\ new \in [Type -> Doc]
                 /\ \A ty \in Type : new[ty] \in { db[ty], NoDoc }
                 /\ c.pc = "clear" \/ ~twins => \A ty \in Type : new[ty] = NoDoc
  <2>1. CASE Clear(t)
    BY <2>1, <1>2 DEF Clear
  <2>2. CASE RemoveOne(t) /\ Alive = {}
    <3>1. WriteDb(t, db) /\ c.pc = "remove"
      BY <2>2 DEF RemoveOne, At
    <3>2. \A ty \in Type : db[ty] = NoDoc
      BY <2>2, <1>2 DEF DocInv, Alive
    <3> QED
      BY <3>1, <3>2, <1>2
  <2>3. CASE RemoveOne(t) /\ Alive # {}
    <3>1. PICK ty \in Alive : WriteDb(t, [db EXCEPT ![ty] = NoDoc])
      BY <2>3 DEF RemoveOne
    <3>2. ~twins => \A uy \in Type \ { ty } : db[uy] = NoDoc
      BY <1>2 DEF DocInv, Alive
    <3>3. c.pc = "remove" /\ ty \in Type
      BY <2>3 DEF RemoveOne, At, Alive
    <3> DEFINE less == [db EXCEPT ![ty] = NoDoc]
    <3>4. less \in [Type -> Doc] /\ \A uy \in Type : less[uy] = (IF uy = ty THEN NoDoc ELSE db[uy])
      BY <3>3, <1>2
    <3> HIDE DEF less
    <3>5. WriteDb(t, less)
      BY <3>1 DEF less
    <3> QED
      BY <3>2, <3>3, <3>4, <3>5
  <2> QED
    BY <2>1, <2>2, <2>3
<1>4. \A ty \in Type : /\ new[ty].alive => db[ty].alive
                       /\ ~new[ty].alive => new[ty] = NoDoc
                       /\ new[ty].names \subseteq In(new[ty].attrs)
                       /\ ~stale => In(new[ty].attrs) \subseteq new[ty].names
                       /\ \A a \in Attr : new[ty].attrs[a] \in { 0, db[ty].attrs[a] }
  BY <1>2, <1>3, NoDocIs DEF NamesAgree, DocInv
<1>5. /\ db' = new /\ disturbed'[t] = disturbed[t] /\ (twins => twins')
      /\ c.pc = "clear" \/ ~twins' => Alive' = {}
  BY <1>2, <1>3, OwnWrite, NoDocIs DEF Alive
<1>6. /\ Moved(t) /\ SameRequest(t) /\ call'[t].failed = c.failed
      /\ \/ c.op = "upsert" /\ call'[t].pc = "convert"
         \/ c.op \in { "delete", "batchDelete" } /\ call'[t].pc = "reply" /\ call'[t].answer = "ok"
  <2>1. CASE RemoveOne(t)
    <3>1. c.op = "delete" /\ Reply(t, "ok") /\ "ok" \in Answers
      BY <2>1, <1>2 DEF RemoveOne, ControlInv, At, Answers
    <3> QED
      BY <3>1, <1>2, ReplyMoves
  <2>2. CASE Clear(t) /\ c.op = "upsert"
    <3>1. Goto(t, "convert") /\ "convert" \in Locations
      BY <2>2 DEF Clear, Locations
    <3> QED
      BY <3>1, <2>2, <1>2, GotoMoves
  <2>3. CASE Clear(t) /\ c.op # "upsert"
    <3>1. c.op = "batchDelete" /\ Reply(t, "ok") /\ "ok" \in Answers
      BY <2>3, <1>2 DEF Clear, ControlInv, At, Answers
    <3> QED
      BY <3>1, <1>2, ReplyMoves
  <2> QED
    BY <2>1, <2>2, <2>3
<1>7. ThreadInv(t)'
  <2>1. ControlInv(t)'
    BY <1>1, <1>2, <1>5, <1>6 DEF ControlInv, SameRequest, Busy, Calm
  <2>2. LookupInv(t)'
    BY <2>1, <1>6 DEF ControlInv, Busy, LookupInv, SameRequest
  <2>3. QueryInv(t)' /\ GiveInv(t)'
    BY <1>6 DEF QueryInv, GiveInv
  <2>4. ReplyInv(t)'
    BY <1>5, <1>6 DEF ReplyInv, Acknowledged, At, Written, Gone, SameRequest
  <2> QED
    BY <2>1, <2>2, <2>3, <2>4 DEF ThreadInv
<1>8. Busy(t)' /\ ~Inside(t)'
  BY <1>6 DEF Busy, Inside
<1>9. inserted' \in [Thread -> BOOLEAN] /\ stale' \in BOOLEAN
  BY <1>1, <1>2 DEF TypeOK
<1> QED
  BY <1>1, <1>3, <1>4, <1>6, <1>7, <1>8, <1>9, WriteStep DEF SameRequest

\* The actions of mongoUpdateContext that the operations ask for.
LEMMA ActionOf ==
  ASSUME NEW op \in AllOps
  PROVE  /\ Action(op) = "Append" <=>
              op \in { "create", "append", "batchUpdate", "upsert", "v2upsert", "v2append" }
         /\ Action(op) = "AppendStrict" <=> op \in { "batchCreate", "v2create" }
         /\ Action(op) = "Update" <=> op \in { "patchAttr", "v2update" }
         /\ Action(op) = "Replace" <=> op \in { "patch", "v2replace" }
         /\ Action(op) = "Delete" <=> op \in { "delete", "batchDelete", "deleteAttr", "v2delete" }
BY DEF Action, AllOps, LdOps, V2Ops

LEMMA NewDocIs ==
  ASSUME NEW vs \in Values
  PROVE  /\ NewDoc(vs) \in Doc /\ NewDoc(vs).alive
         /\ NewDoc(vs).attrs = vs /\ NewDoc(vs).names = In(vs)
BY DocTypes DEF NewDoc

LEMMA InsertStep ==
  ASSUME EntitiesInv, NEW t \in Thread, Insert(t)
  PROVE  EntitiesInv'
<1> DEFINE c == call[t]
           ty == IF c.type = AnyType THEN DefaultType ELSE c.type
<1>1. Busy(t) /\ Inside(t) /\ UNCHANGED << reqSem, bounds, spoilt, stale >> /\ c.pc = "insert"
  BY DEF Busy, Inside, At, Insert
<1>2. /\ ControlInv(t) /\ TypeOK /\ NamesAgree /\ DocInv /\ db \in [Type -> Doc]
      /\ c.type \in Type \cup { AnyType } /\ c.load \in Values /\ c.op \in AllOps
  BY DEF EntitiesInv, ThreadInv, TypeOK, CallState
<1>3. ty \in Type
  BY <1>2, EntitiesAssumption DEF DefaultType, EntitiesAssumption
<1>4. Action(c.op) \in { "Append", "AppendStrict" } /\ c.op # "append"
  BY <1>1, <1>2 DEF ControlInv
<1> HIDE DEF ty
<1>5. CASE db[ty].alive
  <2>1. Fail(t) /\ UNCHANGED << db, reqSem, bounds, history >>
    BY <1>5, <1>1 DEF Insert, ty, history
  <2>2. Reports(c.op)
    BY <1>2, <1>4, ActionOf DEF Reports
  <2>3. c.op \in { "batchCreate", "upsert" } => ~Calm(t)
    <3>1. c.op \in { "batchCreate", "upsert" } => ty \in Matching(t)
      BY <1>1, <1>2, <1>3, <1>5 DEF ty, Matching, Alive, ControlInv, Creators
    <3> QED
      BY <3>1, <1>1 DEF EntitiesInv, ThreadInv, QueryInv
  <2> QED
    BY <2>1, <2>2, <2>3, <1>1, FailStep
<1>6. CASE ~db[ty].alive
  <2> DEFINE new == [db EXCEPT ![ty] = NewDoc(c.load)]
  <2>1. WriteDb(t, new) /\ inserted' = [inserted EXCEPT ![t] = TRUE] /\ Goto(t, "give")
    BY <1>6 DEF Insert, ty
  <2>2. /\ new \in [Type -> Doc] /\ new[ty] = NewDoc(c.load)
        /\ \A uy \in Type \ { ty } : new[uy] = db[uy]
    BY <1>2, <1>3, NewDocIs
  <2> HIDE DEF new
  <2>3. /\ new[ty].alive /\ new[ty].attrs = c.load /\ new[ty].names = In(c.load)
        /\ db[ty] = NoDoc
    BY <1>2, <1>3, <1>6, <2>2, NewDocIs DEF DocInv
  <2>4. \A uy \in Type : /\ ~new[uy].alive => new[uy] = NoDoc
                         /\ new[uy].names \subseteq In(new[uy].attrs)
                         /\ ~stale => In(new[uy].attrs) \subseteq new[uy].names
                         /\ \A a \in Attr : new[uy].attrs[a] \in { 0, db[uy].attrs[a], c.load[a] }
    BY <1>2, <2>2, <2>3 DEF DocInv, NamesAgree
  <2>5. Moved(t) /\ SameRequest(t) /\ call'[t].pc = "give" /\ call'[t].failed = c.failed
    BY <1>2, <2>1, GotoMoves DEF Locations
  <2>6. ThreadInv(t)'
    <3>1. ControlInv(t)'
      BY <1>1, <1>2, <2>1, <2>5, OwnWrite DEF ControlInv, SameRequest, Busy, Calm
    <3>2. LookupInv(t)' /\ QueryInv(t)' /\ ReplyInv(t)'
      BY <2>5 DEF LookupInv, QueryInv, ReplyInv, Acknowledged, At
    <3>3. { a \in Attr : c.load[a] = c.n } \subseteq wrote'[t]
      <4>1. c.n # 0
        BY <1>1, <1>2 DEF ControlInv
      <4> QED
        BY <4>1, <1>2, <1>3, <2>1, <2>3, NoDocIs, OwnWrite
    <3>4. c.op \notin { "delete", "batchDelete", "deleteAttr", "v2delete" }
      BY <1>2, <1>4, ActionOf
    <3>5. inserted'[t]
      BY <2>1, <1>2 DEF TypeOK
    <3>6. GiveInv(t)'
      BY <3>3, <3>4, <3>5, <2>5 DEF GiveInv, Written, Gone, SameRequest
    <3> QED
      BY <3>1, <3>2, <3>6 DEF ThreadInv
  <2>7. Busy(t)' /\ Inside(t)'
    BY <2>5 DEF Busy, Inside
  <2>8. /\ inserted' \in [Thread -> BOOLEAN] /\ stale' \in BOOLEAN
        /\ \A u \in Thread \ { t } : inserted'[u] = inserted[u]
    BY <1>1, <1>2, <2>1 DEF TypeOK
  <2> QED
    BY <1>1, <2>1, <2>2, <2>4, <2>5, <2>6, <2>7, <2>8, WriteStep DEF SameRequest
<1> QED
  BY <1>5, <1>6

\* collectionUpdate on a document that is there.
LEMMA UpdatedIs ==
  ASSUME TypeOK, NEW t \in Thread, NEW ty \in Type, db[ty].alive
  PROVE  LET e == Updated(t, ty, db[ty])
             op == call[t].op IN
         /\ e \in Doc
         /\ Action(op) = "Replace" => e = NewDoc(call[t].load)
         /\ Action(op) = "Delete" =>
              e = IF call[t].asked = {} THEN NoDoc ELSE Strip(db[ty], ToUnset(t, ty))
         /\ Action(op) \notin { "Replace", "Delete" } =>
              /\ e.alive /\ e.names = db[ty].names \cup ToPush(t, ty)
              /\ \A a \in Attr : e.attrs[a] = IF a \in ToSet(t, ty) THEN call[t].load[a]
                                              ELSE db[ty].attrs[a]
<1> DEFINE d == db[ty]
           vs == [a \in Attr |-> IF a \in ToSet(t, ty) THEN call[t].load[a] ELSE d.attrs[a]]
<1>1. /\ d \in Doc /\ d.attrs \in Values /\ call[t].load \in Values /\ d.names \in SUBSET Attr
      /\ call[t].asked \in SUBSET Attr
  BY DEF TypeOK, CallState, Doc
<1>2. ToSet(t, ty) \subseteq In(call[t].load)
  BY DEF ToSet
<1>3. ToPush(t, ty) \subseteq Attr /\ ToUnset(t, ty) \subseteq Attr
  BY <1>1, <1>2 DEF ToPush, ToUnset, In
<1>4. vs \in Values
  BY <1>1 DEF Values
<1>5. CASE Action(call[t].op) = "Replace"
  BY <1>1, <1>5, NewDocIs DEF Updated
<1>6. CASE Action(call[t].op) = "Delete"
  BY <1>1, <1>3, <1>6, StripIs, NoCallType DEF Updated
<1>7. CASE Action(call[t].op) \notin { "Replace", "Delete" }
  <2> HIDE DEF vs
  <2> DEFINE r == [d EXCEPT !.attrs = vs, !.names = d.names \cup ToPush(t, ty)]
  <2>1. Updated(t, ty, d) = r
    BY <1>7 DEF Updated, vs
  <2>2. r \in Doc
    BY <1>1, <1>3, <1>4 DEF Doc
  <2>3. r.alive = d.alive /\ r.attrs = vs /\ r.names = d.names \cup ToPush(t, ty)
    BY <1>1 DEF Doc
  <2>4. \A a \in Attr : vs[a] = IF a \in ToSet(t, ty) THEN call[t].load[a] ELSE d.attrs[a]
    BY DEF vs
  <2> HIDE DEF r
  <2> QED
    BY <2>1, <2>2, <2>3, <2>4, <1>7
<1> QED
  BY <1>5, <1>6, <1>7

\* One of the documents that were read is updated, as it is now.
LEMMA WriteDocStep ==
  ASSUME EntitiesInv, NEW t \in Thread, Write(t)
  PROVE  EntitiesInv'
<1> DEFINE c == call[t]
<1>1. /\ Busy(t) /\ Inside(t) /\ UNCHANGED << reqSem, bounds, inserted, spoilt >> /\ c.pc = "write"
      /\ stale' = (stale \/ Loss(t))
  BY DEF Busy, Inside, At, Write, Loss
<1>2. /\ ControlInv(t) /\ LookupInv(t) /\ QueryInv(t) /\ TypeOK /\ NamesAgree /\ DocInv
      /\ db \in [Type -> Doc] /\ c \in CallState /\ c.op \in AllOps /\ c.load \in Values
      /\ c.asked \in SUBSET Attr /\ c.n # 0
  BY <1>1 DEF EntitiesInv, ThreadInv, TypeOK, CallState, ControlInv
<1>3. PICK ty \in c.todo :
        /\ WriteDb(t, [db EXCEPT ![ty] = Updated(t, ty, db[ty])])
        /\ call' = [call EXCEPT ![t].todo = @ \ { ty }, ![t].failed = @ \/ Objects(t, ty),
                      ![t].pc = IF call[t].todo = { ty } THEN "give" ELSE "write"]
  BY DEF Write
<1> DEFINE new == [db EXCEPT ![ty] = Updated(t, ty, db[ty])]
           failed == c.failed \/ Objects(t, ty)
           was == In(c.docs[ty].attrs)
           req == In(c.load)
<1>4. ty \in Type
  BY <1>2 DEF CallState
<1>5. Treated(t, ty, failed)
  <2>1. failed \in BOOLEAN
    OBVIOUS
  <2>2. call' = [call EXCEPT ![t].todo = @ \ { ty }, ![t].failed = failed,
                      ![t].pc = IF call[t].todo = { ty } THEN "give" ELSE "write"]
    BY <1>3
  <2> HIDE DEF failed
  <2> QED
    BY <2>1, <2>2, <1>2, WriteMoves
<1>6. /\ call'[t].pc \in { "give", "write" } /\ Moved(t) /\ SameRequest(t)
      /\ call'[t].pc = "write" => c.todo # { ty }
      /\ call'[t].pc = "give" => c.todo = { ty }
      /\ (call'[t].failed <=> failed) /\ call'[t].todo = c.todo \ { ty }
  BY <1>5 DEF Treated
<1> HIDE DEF failed
<1>7. /\ db[ty].alive =>
           /\ Updated(t, ty, db[ty]) \in Doc
           /\ Action(c.op) = "Replace" => Updated(t, ty, db[ty]) = NewDoc(c.load)
           /\ Action(c.op) = "Delete" => Updated(t, ty, db[ty]) =
                IF c.asked = {} THEN NoDoc ELSE Strip(db[ty], ToUnset(t, ty))
           /\ Action(c.op) \notin { "Replace", "Delete" } =>
                /\ Updated(t, ty, db[ty]).alive
                /\ Updated(t, ty, db[ty]).names = db[ty].names \cup ToPush(t, ty)
                /\ \A a \in Attr : Updated(t, ty, db[ty]).attrs[a] =
                     IF a \in ToSet(t, ty) THEN c.load[a] ELSE db[ty].attrs[a]
      /\ ~db[ty].alive => Updated(t, ty, db[ty]) = db[ty]
  <2>1. CASE db[ty].alive
    BY <2>1, <1>2, <1>4, UpdatedIs
  <2>2. CASE ~db[ty].alive
    BY <2>2 DEF Updated
  <2> QED
    BY <2>1, <2>2
<1>8. /\ new \in [Type -> Doc] /\ new[ty] = Updated(t, ty, db[ty])
      /\ \A uy \in Type \ { ty } : new[uy] = db[uy]
      /\ WriteDb(t, new)
  <2>1. Updated(t, ty, db[ty]) \in Doc
    BY <1>2, <1>4, <1>7
  <2> QED
    BY <2>1, <1>2, <1>3, <1>4
<1> HIDE DEF new
<1>9. /\ db' = new /\ Calm(t)' = Calm(t) /\ Loss(t)' = Loss(t) /\ wrote[t] \subseteq wrote'[t]
      /\ disturbed'[t] = disturbed[t]
  BY <1>2, <1>8, OwnWrite DEF Calm, Loss
<1>10. ~Loss(t) => db[ty].alive /\ was \subseteq In(db[ty].attrs)
  BY <1>1, <1>2 DEF QueryInv
<1>11. ToSet(t, ty) \subseteq req /\ ToPush(t, ty) = ToSet(t, ty) \ was
  BY DEF ToSet, ToPush
<1>12. ToUnset(t, ty) \in SUBSET Attr
  BY <1>2 DEF ToUnset
\* The document that is written.
<1>13. /\ ~new[ty].alive => new[ty] = NoDoc
       /\ new[ty].names \subseteq In(new[ty].attrs)
       /\ ~stale' => In(new[ty].attrs) \subseteq new[ty].names
       /\ \A a \in Attr : new[ty].attrs[a] \in { 0, db[ty].attrs[a], c.load[a] }
  <2>1. /\ db[ty].names \subseteq In(db[ty].attrs)
        /\ ~stale' => ~stale /\ ~Loss(t) /\ In(db[ty].attrs) \subseteq db[ty].names
    BY <1>1, <1>2, <1>4 DEF NamesAgree
  <2>2. CASE ~db[ty].alive
    BY <2>1, <2>2, <1>2, <1>4, <1>7, <1>8 DEF DocInv
  <2>3. CASE db[ty].alive /\ Action(c.op) = "Replace"
    BY <2>3, <1>2, <1>7, <1>8, NewDocIs
  <2>4. CASE db[ty].alive /\ Action(c.op) = "Delete"
    <3>1. CASE c.asked = {}
      BY <2>4, <3>1, <1>7, <1>8, NoDocIs
    <3>2. CASE c.asked # {}
      <4>1. new[ty] = Strip(db[ty], ToUnset(t, ty)) /\ db[ty] \in Doc
        BY <2>4, <3>2, <1>2, <1>4, <1>7, <1>8
      <4> QED
        BY <4>1, <2>1, <2>4, <1>12, StripIs
    <3> QED
      BY <3>1, <3>2
  <2>5. CASE db[ty].alive /\ Action(c.op) \notin { "Replace", "Delete" }
    <3>1. /\ new[ty].alive /\ new[ty].names = db[ty].names \cup ToPush(t, ty)
          /\ \A a \in Attr : new[ty].attrs[a] = IF a \in ToSet(t, ty) THEN c.load[a]
                                                ELSE db[ty].attrs[a]
      BY <2>5, <1>7, <1>8
    <3>2. ToSet(t, ty) \subseteq Attr
      BY <1>11 DEF In
    <3>3. In(new[ty].attrs) = In(db[ty].attrs) \cup ToSet(t, ty)
      BY <3>1, <3>2, <1>11 DEF In
    <3> QED
      BY <3>1, <3>3, <2>1, <1>10, <1>11
  <2> QED
    BY <2>2, <2>3, <2>4, <2>5
\* If all of the payload is set, the request has written it.
<1>14. ASSUME db[ty].alive,
              Action(c.op) = "Replace" \/ (Action(c.op) # "Delete" /\ ToSet(t, ty) = req)
       PROVE  { a \in Attr : c.load[a] = c.n } \subseteq wrote'[t]
  <2> SUFFICES ASSUME NEW a \in Attr, c.load[a] = c.n PROVE a \in wrote'[t]
    OBVIOUS
  <2>1. new[ty].attrs[a] = c.n
    <3>1. a \in req
      BY <1>2 DEF In
    <3> QED
      BY <3>1, <1>2, <1>7, <1>8, <1>14, NewDocIs
  <2>2. CASE db[ty].attrs[a] = c.n
    BY <2>2, <1>1, <1>4, <1>9 DEF EntitiesInv, NumberInv
  <2>3. CASE db[ty].attrs[a] # c.n
    BY <2>1, <2>3, <1>2, <1>4, <1>8, OwnWrite
  <2> QED
    BY <2>2, <2>3
\* NGSIv2 DELETE: what was asked for is gone from the document.
<1>15. ASSUME c.op = "v2delete", ~failed, new[ty].alive
       PROVE  c.asked # {} /\ c.asked \cap In(new[ty].attrs) = {}
  <2>1. Action(c.op) = "Delete" /\ c.asked \subseteq was /\ ToUnset(t, ty) = c.asked
    BY <1>2, <1>15, ActionOf DEF failed, Objects, ToUnset
  <2>2. db[ty].alive /\ db[ty] \in Doc
    BY <1>2, <1>4, <1>7, <1>8, <1>15
  <2>3. c.asked # {} /\ new[ty] = Strip(db[ty], ToUnset(t, ty))
    BY <2>1, <2>2, <1>7, <1>8, <1>15, NoDocIs
  <2> QED
    BY <2>1, <2>2, <2>3, <1>12, StripIs
<1>16. \A uy \in Matching(t)' : uy # ty => uy \in Matching(t) /\ new[uy] = db[uy]
  BY <1>6, <1>8, <1>9 DEF Matching, Alive, SameRequest
<1>17. ty \in Matching(t)' => new[ty].alive
  BY <1>9 DEF Matching, Alive
<1>18. ThreadInv(t)'
  <2>1. ControlInv(t)'
    <3>1. /\ spoilt[t] => failed \/ c.op \in Gullible
          /\ c.op \in { "batchCreate", "upsert" } /\ failed => spoilt[t] \/ ~Calm(t)
      <4>1. c.op = "upsert" => ~Objects(t, ty)
        BY <1>2, ActionOf DEF Objects
      <4>2. c.op = "batchCreate" => spoilt[t] \/ ~Calm(t)
        BY <1>1, <1>2 DEF QueryInv, Creators, NotNew
      <4> QED
        BY <4>1, <4>2, <1>1, <1>2 DEF ControlInv, failed
    <3>2. c.todo \ { ty } \subseteq c.todo /\ (c.todo # { ty } => c.todo \ { ty } # {})
      OBVIOUS
    <3> QED
      BY <3>1, <3>2, <1>1, <1>2, <1>6, <1>9 DEF ControlInv, SameRequest, Busy
  <2>2. LookupInv(t)'
    <3>1. call'[t].pc = "write" => c.op # "patch"
      BY <1>1, <1>2, <1>6, EntitiesAssumption DEF ControlInv, LookupInv, EntitiesAssumption
    <3> QED
      BY <3>1, <1>6 DEF LookupInv, SameRequest
  <2>3. c.op = "patchAttr" /\ ~Loss(t) /\ ~spoilt[t] =>
          \/ req \subseteq wrote'[t]
          \/ \E uy \in c.todo \ { ty } : c.asked \subseteq In(c.docs[uy].attrs)
    <3> SUFFICES ASSUME c.op = "patchAttr", ~Loss(t), ~spoilt[t],
                        ~(req \subseteq wrote[t]),
                        \A uy \in c.todo \ { ty } : ~(c.asked \subseteq In(c.docs[uy].attrs))
                 PROVE  req \subseteq wrote'[t]
      BY <1>9
    <3>1. c.asked \subseteq was
      BY <1>1, <1>2 DEF QueryInv
    <3>2. req \subseteq c.asked /\ \A a \in Attr : c.load[a] \in { 0, c.n }
      BY <1>1, <1>2 DEF ControlInv
    <3>3. Action(c.op) = "Update" /\ ToSet(t, ty) = req
      BY <3>1, <3>2, <1>2, ActionOf DEF ToSet
    <3> QED
      BY <3>2, <3>3, <1>10, <1>14 DEF In
  <2>4. c.keep /\ Calm(t) /\ ~stale /\ ~spoilt[t] =>
          \/ req \subseteq wrote'[t]
          \/ \E uy \in c.todo \ { ty } : req \cap In(c.docs[uy].attrs) = {}
    <3> SUFFICES ASSUME c.keep, Calm(t), ~stale, ~spoilt[t],
                        ~(req \subseteq wrote[t]),
                        \A uy \in c.todo \ { ty } : req \cap In(c.docs[uy].attrs) # {}
                 PROVE  req \subseteq wrote'[t]
      BY <1>9
    <3>1. req \cap was = {}
      BY <1>1, <1>2 DEF QueryInv
    <3>2. c.op \in { "append", "batchUpdate" } /\ \A a \in Attr : c.load[a] \in { 0, c.n }
      BY <1>1, <1>2 DEF ControlInv
    <3>3. Action(c.op) = "Append" /\ ToSet(t, ty) = req
      BY <3>1, <3>2, <1>2, ActionOf DEF ToSet
    <3>4. ~Loss(t)
      BY DEF Calm, Loss
    <3> QED
      BY <3>2, <3>3, <3>4, <1>10, <1>14 DEF In
  <2>5. c.op = "v2delete" /\ Calm(t) /\ ~failed =>
          \A uy \in Matching(t)' \ (c.todo \ { ty }) :
            c.asked # {} /\ c.asked \cap In(new[uy].attrs) = {}
    <3> SUFFICES ASSUME c.op = "v2delete", Calm(t), ~failed,
                        NEW uy \in Matching(t)' \ (c.todo \ { ty })
                 PROVE  c.asked # {} /\ c.asked \cap In(new[uy].attrs) = {}
      OBVIOUS
    <3>1. CASE uy = ty
      BY <3>1, <1>15, <1>17
    <3>2. CASE uy # ty
      <4>1. ~c.failed
        BY DEF failed
      <4> QED
        BY <4>1, <3>2, <1>1, <1>2, <1>16 DEF QueryInv
    <3> QED
      BY <3>1, <3>2
  <2>6. QueryInv(t)'
    <3>1. c.op \in Creators => NotNew(t)'
      BY <1>1, <1>2, <1>6, <1>9 DEF QueryInv, NotNew, SameRequest
    <3>2. ~Loss(t) => \A uy \in c.todo \ { ty } :
            new[uy].alive /\ In(c.docs[uy].attrs) \subseteq In(new[uy].attrs)
      <4>1. c.todo \subseteq Type
        BY <1>2 DEF CallState
      <4> QED
        BY <4>1, <1>1, <1>2, <1>8 DEF QueryInv
    <3>3. ~stale' => ~stale
      BY <1>1
    <3> QED
      BY <3>1, <3>2, <3>3, <2>3, <2>4, <2>5, <1>1, <1>6, <1>9 DEF QueryInv, SameRequest
  <2>7. GiveInv(t)'
    <3> SUFFICES ASSUME c.todo = { ty }, call'[t].pc = "give" PROVE GiveInv(t)'
      BY <1>6 DEF GiveInv
    <3>1. ASSUME failed => ~Reports(c.op)
          PROVE  Written(t)'
      <4> DEFINE mine == { a \in Attr : c.load[a] = c.n }
      <4>1. Written(t)' <=> \/ mine \subseteq wrote'[t]
                            \/ c.op \in { "delete", "batchDelete", "deleteAttr" }
                            \/ Loss(t)
                            \/ c.keep /\ (~Calm(t) \/ stale')
                            \/ spoilt[t] /\ ~Reports(c.op)
        BY <1>1, <1>6, <1>9 DEF Written, SameRequest, Loss, Calm
      <4>2. mine \subseteq req
        BY <1>2 DEF In
      <4>3. /\ spoilt[t] => failed \/ c.op \in Gullible
            /\ c.keep => c.op \notin Gullible
        BY <1>1, <1>2 DEF ControlInv, failed, Gullible
      <4> HIDE DEF mine
      <4> SUFFICES ASSUME ~Loss(t), ~(c.keep /\ (~Calm(t) \/ stale')),
                          ~(spoilt[t] /\ ~Reports(c.op))
                   PROVE  mine \subseteq wrote'[t]
        BY <4>1
      <4>4. (spoilt[t] => c.op \in Gullible) /\ db[ty].alive
        BY <4>3, <3>1, <1>10
      <4>5. ToSet(t, ty) = req /\ Action(c.op) # "Delete" => mine \subseteq wrote'[t]
        BY <4>4, <1>14 DEF mine
      <4>6. CASE Action(c.op) = "Append"
        <5>1. CASE c.keep
          BY <5>1, <4>2, <4>3, <4>4, <2>4, <1>1
        <5>2. CASE ~c.keep
          BY <5>2, <4>5, <4>6 DEF ToSet
        <5> QED
          BY <5>1, <5>2
      <4>7. CASE Action(c.op) = "AppendStrict"
        <5>1. Reports(c.op)
          BY <4>7, <1>2, ActionOf DEF Reports
        <5> QED
          BY <5>1, <4>5, <4>7, <3>1 DEF failed, Objects, ToSet
      <4>8. CASE Action(c.op) = "Update"
        <5>1. CASE c.op = "patchAttr"
          BY <5>1, <4>2, <4>4, <2>3 DEF Gullible
        <5>2. CASE c.op # "patchAttr"
          <6>1. Reports(c.op)
            BY <5>2, <4>8, <1>2, ActionOf DEF Reports
          <6> QED
            BY <6>1, <4>5, <4>8, <3>1 DEF failed, Objects, ToSet
        <5> QED
          BY <5>1, <5>2
      <4>9. CASE Action(c.op) = "Replace"
        BY <4>4, <4>9, <1>14 DEF mine
      <4>10. CASE Action(c.op) = "Delete"
        <5>1. In(c.load) = {}
          BY <4>10, <1>1, <1>2, ActionOf DEF ControlInv
        <5> QED
          BY <5>1, <4>2
      <4> QED
        BY <4>6, <4>7, <4>8, <4>9, <4>10 DEF Action
    <3>2. ASSUME failed => ~Reports(c.op)
          PROVE  Gone(t)'
      <4>1. c.op \notin { "delete", "batchDelete", "deleteAttr" }
        BY <1>1, <1>2 DEF ControlInv
      <4>2. c.op = "v2delete" => ~failed
        BY <3>2 DEF Reports
      <4>3. c.op = "v2delete" /\ Calm(t) =>
              \A uy \in Matching(t)' : c.asked # {} /\ c.asked \cap In(new[uy].attrs) = {}
        BY <4>2, <2>5
      <4> QED
        BY <4>1, <4>3, <1>6, <1>9 DEF Gone, SameRequest, Calm
    <3>3. c.op \in Creators => NotNew(t)'
      BY <1>1, <1>2, <1>6, <1>9 DEF QueryInv, NotNew, SameRequest
    <3> QED
      BY <3>1, <3>2, <3>3, <1>6, <1>9 DEF GiveInv, SameRequest
  <2>8. ReplyInv(t)'
    BY <1>6 DEF ReplyInv, Acknowledged, At
  <2> QED
    BY <2>1, <2>2, <2>6, <2>7, <2>8 DEF ThreadInv
<1>19. Busy(t)' /\ Inside(t)'
  BY <1>6 DEF Busy, Inside
<1>20. /\ inserted' \in [Thread -> BOOLEAN] /\ stale' \in BOOLEAN /\ (stale => stale')
       /\ \A u \in Thread \ { t } : inserted'[u] = inserted[u]
  BY <1>1, <1>2 DEF TypeOK
<1>21. \A uy \in Type : /\ ~new[uy].alive => new[uy] = NoDoc
                        /\ new[uy].names \subseteq In(new[uy].attrs)
                        /\ ~stale' => In(new[uy].attrs) \subseteq new[uy].names
                        /\ \A a \in Attr : new[uy].attrs[a] \in { 0, db[uy].attrs[a], c.load[a] }
  BY <1>1, <1>2, <1>8, <1>13 DEF DocInv, NamesAgree
<1> QED
  BY <1>1, <1>6, <1>8, <1>18, <1>19, <1>20, <1>21, WriteStep DEF SameRequest

-----------------------------------------------------------------------------
(***************************************************************************)
(* The invariant, and what follows from it.                                *)
(***************************************************************************)
LEMMA InvInit == Init => EntitiesInv
<1> SUFFICES ASSUME Init PROVE EntitiesInv
  OBVIOUS
<1>1. TypeOK
  BY TypeInit
<1>2. \A t \in Thread : call[t].pc = "idle" /\ ~spoilt[t]
  BY DEF Init, NoCall
<1>3. \A t \in Thread : ThreadInv(t)
  BY <1>2 DEF ThreadInv, ControlInv, LookupInv, QueryInv, GiveInv, ReplyInv, Acknowledged, At, Busy
<1>4. With(Attr, 1) \in Values /\ In(With(Attr, 1)) = Attr /\ \A a \in Attr : With(Attr, 1)[a] = 1
  <2>1. 1 \in Value \ { 0 }
    BY EntitiesAssumption DEF EntitiesAssumption, Value
  <2> QED
    BY <2>1, WithIs DEF With
<1>5. PICK only : \A ty \in Type : db[ty] = IF ty = only THEN NewDoc(With(Attr, 1)) ELSE NoDoc
  <2>1. CASE db = [ty \in Type |-> NoDoc]
    <3>1. \A ty \in Type : ty # AnyType
      BY EntitiesAssumption DEF EntitiesAssumption
    <3> QED
      BY <2>1, <3>1
  <2>2. CASE db # [ty \in Type |-> NoDoc]
    BY <2>2 DEF Init
  <2> QED
    BY <2>1, <2>2
<1>6. DocInv
  BY <1>4, <1>5, NewDocIs, NoDocIs DEF DocInv
<1>7. NamesAgree
  BY <1>4, <1>5, NewDocIs, NoDocIs DEF NamesAgree
<1>8. NumberInv
  <2>1. \A ty \in Type, a \in Attr : db[ty].attrs[a] \in { 0, 1 }
    BY <1>4, <1>5, NewDocIs, NoDocIs
  <2>2. requests = 0
    BY DEF Init
  <2> QED
    BY <2>1, <2>2, <1>2 DEF NumberInv, Busy
<1> QED
  BY <1>1, <1>3, <1>6, <1>7, <1>8 DEF EntitiesInv

LEMMA InvNext == EntitiesInv /\ [Next]_vars => EntitiesInv'
<1> SUFFICES ASSUME EntitiesInv, [Next]_vars PROVE EntitiesInv'
  OBVIOUS
<1>1. ASSUME NEW t \in Thread, LdStep(t) PROVE EntitiesInv'
  <2>1. CASE LookUpAppend(t)
    BY <2>1, LookUpAppendStep
  <2>2. CASE LookUpPatch(t)
    BY <2>2, LookUpPatchStep
  <2>3. CASE LookUpBatchUpdate(t)
    BY <2>3, LookUpBatchUpdateStep
  <2>4. CASE LookUpUpsert(t)
    BY <2>4, LookUpUpsertStep
  <2>5. CASE \/ LookUpCreate(t) \/ LookUpPatchAttr(t) \/ LookUpDeleteAttr(t) \/ LookUpDelete(t)
             \/ LookUpBatchDelete(t) \/ LookUpBatchCreate(t) \/ Convert(t)
    BY <2>5, DecideStep
  <2>6. CASE Unset(t)
    BY <2>6, UnsetStep
  <2>7. CASE RemoveOne(t) \/ Clear(t)
    BY <2>7, RemoveStep
  <2>8. CASE UnsetRefused(t)
    BY <2>8, CrashStep DEF UnsetRefused, EntitiesInv, TypeOK
  <2> QED
    BY <1>1, <2>1, <2>2, <2>3, <2>4, <2>5, <2>6, <2>7, <2>8 DEF LdStep
<1>2. ASSUME NEW t \in Thread, Engine(t) PROVE EntitiesInv'
  <2>1. CASE VanishedCrash(t)
    BY <2>1, CrashStep DEF VanishedCrash, EntitiesInv, TypeOK
  <2> QED
    BY <1>2, <2>1, TakeStep, CountStep, QueryStep, InsertStep, WriteDocStep, GiveStep DEF Engine
<1>3. ASSUME NEW t \in Thread, Request(t) PROVE EntitiesInv'
  <2>1. PICK r \in Payloads :
           \/ LdRequest(t, r)
           \/ V2Create(t, r) \/ V2Upsert(t, r) \/ V2Append(t, r)
           \/ V2Update(t, r) \/ V2Replace(t, r) \/ V2Delete(t, r)
    BY <1>3 DEF Request
  <2>2. \/ r.op \in LdOps /\ Start(t, "lookup", r)
        \/ r.op \in V2Ops /\ Start(t, "take", r)
    BY <2>1 DEF LdRequest, V2Create, V2Upsert, V2Append, V2Update, V2Replace, V2Delete, V2Ops
  <2> QED
    BY <2>2, StartStep
<1>4. CASE Kill
  <2>1. faults' \in 0 .. MaxFaults
    BY <1>4, EntitiesAssumption DEF Kill, EntitiesInv, TypeOK, EntitiesAssumption
  <2> QED
    BY <2>1, <1>4, CrashStep DEF Kill, EntitiesInv, TypeOK
<1>5. CASE UNCHANGED vars
  <2> USE <1>5 DEF vars
  <2>1. TypeOK' /\ NumberInv' /\ DocInv' /\ NamesAgree'
    BY DEF EntitiesInv, TypeOK, NumberInv, DocInv, NamesAgree, Inside, Busy
  <2>2. \A t \in Thread : ThreadInv(t)'
    <3> SUFFICES ASSUME NEW t \in Thread PROVE ThreadInv(t)'
      OBVIOUS
    <3>1. CASE Busy(t)
      <4>1. Elsewhere(t)
        BY DEF Elsewhere
      <4> QED
        BY <3>1, <4>1, Stable DEF EntitiesInv
    <3>2. CASE ~Busy(t)
      BY <3>2, IdleThread DEF Busy, EntitiesInv, ThreadInv, ControlInv
    <3> QED
      BY <3>1, <3>2
  <2> QED
    BY <2>1, <2>2 DEF EntitiesInv
<1>6. ASSUME NEW t \in Thread, DriverThrows(t) PROVE EntitiesInv'
  <2>1. faults' \in 0 .. MaxFaults
    BY <1>6, EntitiesAssumption DEF DriverThrows, EntitiesInv, TypeOK, EntitiesAssumption
  <2> QED
    BY <2>1, <1>6, CrashStep DEF DriverThrows, EntitiesInv, TypeOK
<1> QED
  BY <1>1, <1>2, <1>3, <1>4, <1>5, <1>6, DoneStep, FaultStep, LookUpFailsStep DEF Next, Work

LEMMA Inductive == Spec => []EntitiesInv
BY InvInit, InvNext, PTL DEF Spec

(***************************************************************************)
(* Types; and reqSem is taken by one thread at a time, and given back on   *)
(* every way out of mongoUpdateContext.                                    *)
(***************************************************************************)
THEOREM TypeCorrect == Spec => []TypeOK
<1>1. EntitiesInv => TypeOK
  BY DEF EntitiesInv
<1> QED
  BY <1>1, Inductive, PTL

(***************************************************************************)
(* attrNames names no attribute that attrs does not have, however the      *)
(* updates (which are computed from the document as it was read) and the   *)
(* removals of the service routines interleave; and misses none, unless a  *)
(* document was written from a query made stale by a removal.              *)
(***************************************************************************)
THEOREM NamesStayInStep == Spec => []NamesAgree
<1>1. EntitiesInv => NamesAgree
  BY DEF EntitiesInv
<1> QED
  BY <1>1, Inductive, PTL

(***************************************************************************)
(* What the broker acknowledges has been written, or is gone, except for   *)
(* the excuses of Written and Gone; an entity that a batch answer lists as *)
(* a success and as an error met a failing database or another request.    *)
(***************************************************************************)
THEOREM AcknowledgedRequestsAreDone == Spec => []AcknowledgedIsDone
<1>1. EntitiesInv => AcknowledgedIsDone
  BY DEF EntitiesInv, ThreadInv, ReplyInv, AcknowledgedIsDone
<1> QED
  BY <1>1, Inductive, PTL

(***************************************************************************)
(* 201 Created is told to the request that inserted the entity; to another *)
(* one only if the entity was changed between its lookup and its answer,   *)
(* or its lookup failed, which counts as "no such entity".                 *)
(***************************************************************************)
THEOREM CreatedByTheInserter == Spec => []CreatedOnce
<1>1. EntitiesInv => CreatedOnce
  BY DEF EntitiesInv, ThreadInv, ReplyInv, CreatedOnce, NotNew, Calm, At
<1> QED
  BY <1>1, Inductive, PTL

-----------------------------------------------------------------------------
\* The steps that write to the database.
LEMMA WhoWrites ==
  ASSUME [Next]_vars, db' # db
  PROVE  \E t \in Thread : Unset(t) \/ RemoveOne(t) \/ Clear(t) \/ Insert(t) \/ Write(t)
<1> USE DEF history
<1>1. ASSUME NEW t \in Thread, LdStep(t)
      PROVE  Unset(t) \/ RemoveOne(t) \/ Clear(t)
  BY <1>1 DEF LdStep, LookUpCreate, LookUpAppend, LookUpPatch, LookUpPatchAttr, LookUpDelete,
              LookUpDeleteAttr, LookUpBatchCreate, LookUpBatchUpdate, LookUpUpsert,
              LookUpBatchDelete, LookUp, UnsetRefused, Crash, Convert
<1>2. ASSUME NEW t \in Thread, Engine(t) PROVE Insert(t) \/ Write(t)
  BY <1>2 DEF Engine, Take, Count, Query, Give, VanishedCrash, Crash
<1>3. ASSUME NEW t \in Thread
      PROVE  ~Done(t) /\ ~Fault(t) /\ ~LookUpFails(t) /\ ~RemoveFails(t) /\ ~DriverThrows(t)
  BY DEF Done, Fault, LookUpFails, RemoveFails, DriverThrows, Crash
<1>4. ASSUME NEW t \in Thread PROVE ~Request(t)
  BY DEF Request, LdRequest, V2Create, V2Upsert, V2Append, V2Update, V2Replace, V2Delete, Start
<1>5. ~Kill
  BY DEF Kill, Crash
<1> QED
  BY <1>1, <1>2, <1>3, <1>4, <1>5 DEF Next, Work, vars

\* What a writing step does to one document, and for which request.
LEMMA WhatIsWritten ==
  ASSUME EntitiesInv, NEW t \in Thread, NEW ty \in Type,
         Unset(t) \/ RemoveOne(t) \/ Clear(t) \/ Insert(t) \/ Write(t)
  PROVE  /\ call'[t] # call[t]
         /\ \A a \in Attr : db'[ty].attrs[a] # db[ty].attrs[a] =>
              \/ a \in call[t].asked
              \/ ConcernsAll(call[t])
              \/ call[t].op = "patch" /\ disturbed[t] # {}
         /\ ~db[ty].alive /\ db'[ty].alive =>
              \/ call[t].op \in { "create", "batchCreate", "upsert", "v2create", "v2upsert" }
              \/ "loss" \in disturbed[t]
<1> DEFINE c == call[t]
<1>1. /\ ControlInv(t) /\ LookupInv(t) /\ QueryInv(t) /\ TypeOK /\ DocInv /\ db \in [Type -> Doc]
      /\ c \in CallState /\ c.op \in AllOps /\ c.load \in Values /\ c.asked \in SUBSET Attr
      /\ c.todo \subseteq Type
  BY DEF EntitiesInv, ThreadInv, TypeOK, CallState
<1>2. CASE Unset(t)
  <2>1. c.pc = "gap" /\ c.op \in { "append", "deleteAttr" }
    BY <1>1, <1>2 DEF Unset, At, ControlInv
  <2>2. call'[t].pc # "gap"
    BY <1>1, <1>2, GotoMoves, ReplyMoves DEF Unset, Locations, Answers
  <2> DEFINE gone == IF c.op = "append" THEN In(c.load) ELSE c.asked
  <2>3. gone \in SUBSET Attr /\ gone \subseteq c.asked
    BY <1>1, <2>1 DEF ControlInv, In, Busy
  <2> HIDE DEF gone
  <2>4. CASE db' = db
    BY <2>1, <2>2, <2>4
  <2>5. CASE db' # db
    <3>1. PICK uy \in Alive : db' = [db EXCEPT ![uy] = Strip(db[uy], gone)]
      BY <1>2, <2>5 DEF Unset, WriteDb, gone
    <3>2. uy \in Type /\ db[uy] \in Doc
      BY <1>1 DEF Alive
    <3>3. db'[ty] = db[ty] \/ (uy = ty /\ db'[ty] = Strip(db[ty], gone))
      BY <3>1, <3>2, <1>1
    <3>4. \A a \in Attr \ gone : Strip(db[uy], gone).attrs[a] = db[uy].attrs[a]
      BY <3>2 DEF Strip, Doc
    <3> QED
      BY <3>2, <3>3, <3>4, <2>1, <2>2, <2>3, StripIs
  <2> QED
    BY <2>4, <2>5
<1>3. CASE RemoveOne(t) \/ Clear(t)
  <2>1. c.pc \in { "remove", "clear" } /\ ConcernsAll(c)
    BY <1>1, <1>3 DEF RemoveOne, Clear, At, ControlInv, ConcernsAll
  <2>2. call'[t].pc \in { "reply", "convert" }
    BY <1>1, <1>3, GotoMoves, ReplyMoves DEF RemoveOne, Clear, Locations, Answers
  <2>3. db'[ty] \in { db[ty], NoDoc }
    BY <1>1, <1>3 DEF RemoveOne, Clear, WriteDb
  <2> QED
    BY <2>1, <2>2, <2>3, NoDocIs
<1>4. CASE Insert(t)
  <2> DEFINE dy == IF c.type = AnyType THEN DefaultType ELSE c.type
  <2>1. c.pc = "insert" /\ Action(c.op) \in { "Append", "AppendStrict" } /\ c.op # "append"
    BY <1>1, <1>4 DEF Insert, At, ControlInv
  <2>2. call'[t].pc = "give"
    BY <1>1, <1>4, GotoMoves, FailMoves DEF Insert, Locations
  <2>3. c.op # "patch" /\ In(c.load) \subseteq c.asked
    BY <1>1, <2>1, ActionOf DEF ControlInv, Busy
  <2>4. c.op \in { "create", "batchCreate", "upsert", "v2create", "v2upsert" } \/ Loss(t)
    BY <1>1, <2>1, ActionOf DEF QueryInv
  <2>5. dy \in Type
    BY <1>1, EntitiesAssumption DEF CallState, DefaultType, EntitiesAssumption
  <2> HIDE DEF dy
  <2>6. db'[ty] = db[ty] \/ (~db[ty].alive /\ db'[ty] = NewDoc(c.load))
    BY <1>1, <1>4, <2>5 DEF Insert, WriteDb, dy
  <2>7. \A a \in Attr : db'[ty].attrs[a] # db[ty].attrs[a] => a \in In(c.load)
    BY <1>1, <2>6, NewDocIs, NoDocIs DEF DocInv, In
  <2> QED
    BY <2>1, <2>2, <2>3, <2>4, <2>7 DEF Loss
<1>5. CASE Write(t)
  <2>1. PICK uy \in c.todo :
          /\ WriteDb(t, [db EXCEPT ![uy] = Updated(t, uy, db[uy])])
          /\ call' = [call EXCEPT ![t].todo = @ \ { uy }, ![t].failed = @ \/ Objects(t, uy),
                        ![t].pc = IF call[t].todo = { uy } THEN "give" ELSE "write"]
    BY <1>5 DEF Write
  <2>2. call'[t].todo = c.todo \ { uy }
    BY <1>1, <2>1 DEF TypeOK, CallState
  <2>3. c.pc = "write" /\ call'[t] # c
    BY <1>5, <2>1, <2>2 DEF Write, At
  <2>4. uy \in Type /\ (db'[ty] = db[ty] \/ (ty = uy /\ db'[ty] = Updated(t, ty, db[ty])))
    BY <1>1, <2>1 DEF WriteDb
  <2>5. CASE db'[ty] = db[ty]
    BY <2>3, <2>5
  <2>6. CASE ty = uy /\ db'[ty] = Updated(t, ty, db[ty]) /\ ~db[ty].alive
    BY <2>3, <2>6 DEF Updated
  <2>7. CASE ty = uy /\ db'[ty] = Updated(t, ty, db[ty]) /\ db[ty].alive
    <3>1. ASSUME NEW a \in Attr, db'[ty].attrs[a] # db[ty].attrs[a]
          PROVE  \/ a \in c.asked
                 \/ ConcernsAll(c)
                 \/ c.op = "patch" /\ disturbed[t] # {}
      <4>1. c.op # "patch" => In(c.load) \subseteq c.asked
        BY <1>1, <2>3 DEF ControlInv, Busy
      <4>2. CASE c.op = "patch"
        <5>1. c.type = ty
          BY <1>1, <2>3, <2>7, <4>2, EntitiesAssumption
          DEF ControlInv, LookupInv, EntitiesAssumption
        <5>2. db'[ty].attrs = c.load
          BY <1>1, <2>7, <4>2, ActionOf, UpdatedIs, NewDocIs
        <5> QED
          BY <5>1, <5>2, <3>1, <4>2, <1>1, <2>3 DEF LookupInv, Calm
      <4>3. CASE c.op = "v2replace"
        BY <4>3 DEF ConcernsAll
      <4>4. CASE Action(c.op) = "Delete"
        <5>1. c.op = "v2delete"
          BY <4>4, <1>1, <2>3, ActionOf DEF ControlInv
        <5>2. CASE c.asked = {}
          BY <5>1, <5>2 DEF ConcernsAll
        <5>3. CASE c.asked # {}
          <6>1. db'[ty] = Strip(db[ty], ToUnset(t, ty)) /\ db[ty] \in Doc
            BY <4>4, <5>3, <1>1, <2>7, UpdatedIs
          <6>2. ToUnset(t, ty) \subseteq c.asked
            BY DEF ToUnset
          <6> QED
            BY <6>1, <6>2, <3>1 DEF Strip, Doc
        <5> QED
          BY <5>2, <5>3
      <4>5. CASE c.op \notin { "patch", "v2replace" } /\ Action(c.op) # "Delete"
        <5>1. Action(c.op) \notin { "Replace", "Delete" }
          BY <4>5, <1>1, ActionOf
        <5>2. a \in ToSet(t, ty)
          BY <5>1, <3>1, <1>1, <2>7, UpdatedIs
        <5>3. ToSet(t, ty) \subseteq In(c.load)
          BY DEF ToSet
        <5> QED
          BY <5>2, <5>3, <4>1, <4>5
      <4> QED
        BY <4>2, <4>3, <4>4, <4>5
    <3> QED
      BY <3>1, <2>3, <2>7
  <2> QED
    BY <2>4, <2>5, <2>6, <2>7
<1> QED
  BY <1>2, <1>3, <1>4, <1>5

(***************************************************************************)
(* Whatever interleaves, a request changes the attributes it names and no  *)
(* others, but for what is about the whole entity, and for a PATCH of the  *)
(* entity that writes back what it read before somebody else wrote.        *)
(***************************************************************************)
THEOREM OthersAttributesStay == Spec => OnlyNamedAttributesChange
<1> DEFINE P == \A ty \in Type, a \in Attr :
                  db'[ty].attrs[a] # db[ty].attrs[a] =>
                    \E t \in Thread :
                      /\ call'[t] # call[t]
                      /\ \/ a \in call[t].asked
                         \/ ConcernsAll(call[t])
                         \/ call[t].op = "patch" /\ disturbed[t] # {}
<1>1. ASSUME EntitiesInv, [Next]_vars PROVE P
  <2>1. CASE db' = db
    BY <2>1
  <2>2. CASE db' # db
    <3>1. PICK t \in Thread : Unset(t) \/ RemoveOne(t) \/ Clear(t) \/ Insert(t) \/ Write(t)
      BY <1>1, <2>2, WhoWrites
    <3> QED
      BY <1>1, <3>1, WhatIsWritten
  <2> QED
    BY <2>1, <2>2
<1> QED
  BY <1>1, Inductive, PTL DEF Spec, OnlyNamedAttributesChange

(***************************************************************************)
(* An entity comes into being by a request to create it, or by an update   *)
(* that somebody deleted the entity under.                                 *)
(***************************************************************************)
THEOREM EntitiesAreCreatedOnRequest == Spec => OnlyCreatorsCreate
<1> DEFINE P == \A ty \in Type :
                  ~db[ty].alive /\ db'[ty].alive =>
                    \E t \in Thread :
                      /\ call'[t] # call[t]
                      /\ \/ call[t].op \in { "create", "batchCreate", "upsert", "v2create", "v2upsert" }
                         \/ "loss" \in disturbed[t]
<1>1. ASSUME EntitiesInv, [Next]_vars PROVE P
  <2>1. CASE db' = db
    BY <2>1
  <2>2. CASE db' # db
    <3>1. PICK t \in Thread : Unset(t) \/ RemoveOne(t) \/ Clear(t) \/ Insert(t) \/ Write(t)
      BY <1>1, <2>2, WhoWrites
    <3> QED
      BY <1>1, <3>1, WhatIsWritten
  <2> QED
    BY <2>1, <2>2
<1> QED
  BY <1>1, Inductive, PTL DEF Spec, OnlyCreatorsCreate

=============================================================================
