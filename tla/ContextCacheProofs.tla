------------------------- MODULE ContextCacheProofs -------------------------
(***************************************************************************)
(* Proofs about the cache of @contexts, for any number of threads, URLs,   *)
(* slots, contexts, requests and restarts:                                 *)
(*   TypeCorrect        - lookups stay within the array, unless two        *)
(*                        insertions have used one slot number;            *)
(*   OneDownloadPerUrl  - the list of downloads says what it should;       *)
(*   CacheMatchesDatabase - the cache and the collection hold the same     *)
(*                        contexts.                                        *)
(* Each rests on an inductive invariant that says which context every      *)
(* thread has in hand, outside the array, at each point of its call.       *)
(***************************************************************************)
EXTENDS ContextCache, FiniteSetTheorems, FunctionTheorems, SequenceTheorems,
        WellFoundedInduction, TLAPS

-----------------------------------------------------------------------------
(***************************************************************************)
(* The inductive invariants.                                               *)
(***************************************************************************)
\* What the local variables of a call are, at each point of it.
FromUrlPoints == { "checkList", "lockList", "mark", "download", "removeBad", "wait" }

Locals(c) ==
  /\ c.pc \in FromUrlPoints \cup { "evict", "putBack", "unlist" } =>
       c.url \in Url /\ c.op \in { "use", "reload" }
  /\ c.pc \in { "readSlot", "insert" } =>
       c.op = "post" \/ (c.url \in Url /\ c.op \in { "use", "reload" })
  /\ c.pc \in { "evict", "putBack" } => c.op = "reload"
  /\ c.pc = "idle" => c.op = "use"
  /\ c.pc \in { "readSlot", "insert", "unlist", "persist" } => c.own \in 1 .. made
  /\ c.op = "reload" => c.old \in 1 .. made
  /\ c.op # "reload" => c.old = 0 /\ c.oldId = 0
  /\ c.oldId # 0 => c.oldId = idOf[c.old]
  /\ c.slotNo <= slotIx

LocalsInv == \A t \in Thread : Locals(call[t])

\* The semaphore of the list: it is taken by the thread that is about to mark.
SemInv ==
  /\ \A t \in Thread : call[t].pc = "mark" => listSem = 0
  /\ \A t, v \in Thread : call[t].pc = "mark" /\ call[v].pc = "mark" => t = v

\* No URL that fits into an item of the list is in it twice.
Once(s) == \A i, j \in DOMAIN s : s[i] = s[j] /\ Fits(s[i]) => i = j

\* The URLs in a list that fit into an item of it.
FitsIn(s) == { u \in Range(s) : Fits(u) }

\* The list of downloads, as long as no unlocked removal has collided: no URL
\* is in it twice, the one about to be marked is not in it yet, and every
\* download in progress is in it - as far as the URLs fit into its items.
MarkInv ==
  "unlocked removal" \notin mishaps =>
    /\ Once(list)
    /\ \A t \in Thread : call[t].pc = "mark" => call[t].url \notin Range(call[t].head)
    /\ \A t \in Thread, u \in Url : Fits(u) /\ Downloading(t, u) => u \in Range(list)
    /\ MarksMatchDownloads

\* The ids: a context not yet created has none, an id is that of the context it
\* was invented for, and a document holds a context of that id.
IdInv ==
  /\ \A c \in Context : c > made => idOf[c] = 0
  /\ \A c \in Context : idOf[c] # 0 => idOf[idOf[c]] = idOf[c]
  /\ \A i \in Context : stored[i] # 0 => idOf[stored[i]] = i
  /\ \A s \in DOMAIN cache : cache[s] <= made

\* The context that a thread has in hand, outside the array, and may insert: a
\* new one, or the one that a reload has taken out.
Hand(c) ==
  IF c.pc \in { "readSlot", "insert" } THEN c.own
  ELSE IF c.op = "reload" /\ c.pc \in FromUrlPoints \cup { "putBack" }
    THEN c.old
  ELSE 0

\* One context, or two versions of it under one id.
Same(c, d) == c = d \/ (idOf[c] # 0 /\ idOf[c] = idOf[d])

\* A context, and an id, is in one slot or in one hand.
HolderInv ==
  /\ \A s, r \in DOMAIN cache :
       cache[s] # 0 /\ cache[r] # 0 /\ Same(cache[s], cache[r]) => s = r
  /\ \A s \in DOMAIN cache, t \in Thread :
       cache[s] # 0 /\ Hand(call[t]) # 0 => ~Same(cache[s], Hand(call[t]))
  /\ \A t, v \in Thread :
       Hand(call[t]) # 0 /\ Hand(call[v]) # 0 /\ Same(Hand(call[t]), Hand(call[v])) => t = v

\* The context is in the database, or its thread is about to put it there, or
\* the database has refused it.
Kept(c) ==
  \/ c \in unsaved
  \/ idOf[c] # 0 /\ stored[idOf[c]] # 0
  \/ \E t \in Thread : call[t].own = c /\ call[t].pc \in { "unlist", "persist" }

KeptInv ==
  /\ \A s \in DOMAIN cache : cache[s] # 0 => Kept(cache[s])
  /\ \A t \in Thread : Hand(call[t]) # 0 /\ Hand(call[t]) = call[t].old => Kept(call[t].old)

\* The stored context with that id is in the cache, or being reloaded.
Homed(i) ==
  \/ \E s \in InUse : idOf[cache[s]] = i
  \/ \E t \in Thread : Hand(call[t]) # 0 /\ call[t].oldId = i /\ idOf[Hand(call[t])] = i

\* A document that has to have its context in the cache.
Expected(i) == stored[i] # 0 /\ stored[i] \notin strings /\ i \notin astray

Unprotected == { "stale slot", "growth" }

HomeInv ==
  mishaps \cap Unprotected = {} => \A i \in Context : Expected(i) => Homed(i)

IInv == LocalsInv /\ SemInv /\ MarkInv /\ IdInv /\ HolderInv /\ KeptInv /\ HomeInv

-----------------------------------------------------------------------------
(***************************************************************************)
(* Lemmas about the operators.                                             *)
(***************************************************************************)
\* The least element of a set of numbers (Min of FiniteSetsExt).
LEMMA MinIsLeast ==
  ASSUME NEW S \in SUBSET Nat, S # {}
  PROVE  Min(S) \in S /\ \A x \in S : Min(S) <= x
PROOF
<1>. DEFINE R == { ss \in Nat \X Nat : ss[1] < ss[2] }
<1>1. OpToRel(<, Nat) = R
  BY Zenon DEF OpToRel
<1>2. PICK m \in S : \A y \in S : ~ (<< y, m >> \in R)
  BY <1>1, NatLessThanWellFounded, WFMin
<1>3. ASSUME NEW y \in S PROVE m <= y
  <2>1. y \in Nat /\ m \in Nat
    OBVIOUS
  <2>2. (y < m) => << y, m >> \in R
    BY <2>1
  <2>. QED BY <1>2, <2>1, <2>2
<1>. QED BY <1>3 DEF Min

\* RemoveAt closes the gap.
LEMMA RemoveAtElements ==
  ASSUME NEW T, NEW s \in Seq(T), NEW i \in 1 .. Len(s)
  PROVE  /\ RemoveAt(s, i) \in Seq(T)
         /\ Len(RemoveAt(s, i)) = Len(s) - 1
         /\ \A j \in 1 .. Len(s) - 1 : RemoveAt(s, i)[j] = IF j < i THEN s[j] ELSE s[j + 1]
PROOF
<1>. DEFINE a == SubSeq(s, 1, i - 1)
            b == SubSeq(s, i + 1, Len(s))
<1>1. a \in Seq(T) /\ b \in Seq(T)
  BY SubSeqProperties
<1>2. Len(a) = i - 1 /\ \A j \in 1 .. i - 1 : a[j] = s[j]
  BY SubSeqProperties
<1>3. Len(b) = Len(s) - i /\ \A j \in 1 .. Len(s) - i : b[j] = s[i + j]
  <2>1. \A j \in i + 1 .. Len(s) : s[j] \in T
    OBVIOUS
  <2>2. Len(b) = IF i + 1 <= Len(s) THEN Len(s) - (i + 1) + 1 ELSE 0
    BY <2>1, SubSeqProperties
  <2>3. \A j \in 1 .. Len(s) - (i + 1) + 1 : b[j] = s[(i + 1) + j - 1]
    BY <2>1, SubSeqProperties
  <2>. QED BY <2>2, <2>3
<1>4. RemoveAt(s, i) = a \o b
  BY DEF RemoveAt
<1>. HIDE DEF a, b
<1>5. a \o b \in Seq(T) /\ Len(a \o b) = Len(s) - 1
  <2>1. a \o b \in Seq(T) /\ Len(a \o b) = Len(a) + Len(b)
    BY <1>1, ConcatProperties
  <2>2. (i - 1) + (Len(s) - i) = Len(s) - 1
    OBVIOUS
  <2>. QED BY <1>2, <1>3, <2>1, <2>2
<1>6. ASSUME NEW j \in 1 .. Len(s) - 1
      PROVE  (a \o b)[j] = IF j < i THEN s[j] ELSE s[j + 1]
  <2>0. j \in Int /\ i \in Int
    OBVIOUS
  <2>1. CASE j < i
    BY <1>1, <1>2, <1>3, <2>1
  <2>2. CASE j >= i
    <3>1. (a \o b)[j] = b[j - Len(a)]
      BY <1>1, <1>2, <1>3, <2>2
    <3>2. j - (i - 1) \in 1 .. Len(s) - i
      BY <2>2
    <3>3. b[j - (i - 1)] = s[i + (j - (i - 1))]
      BY <1>3, <3>2
    <3>4. i + (j - (i - 1)) = j + 1
      OBVIOUS
    <3>. QED BY <1>2, <2>2, <3>1, <3>3, <3>4
  <2>3. j < i \/ j >= i
    BY <2>0
  <2>. QED BY <2>1, <2>2, <2>3
<1>. QED BY <1>4, <1>5, <1>6

\* contextDownloadListRemove on a list that holds no URL twice: exactly that URL
\* is gone, of those that fit; and the list stays a list of names in any case.
LEMMA RemoveFirstElements ==
  ASSUME NEW T, NEW s \in Seq(T), NEW e
  PROVE  /\ RemoveFirst(s, e) \in Seq(T)
         /\ Once(s) =>
              /\ Once(RemoveFirst(s, e))
              /\ FitsIn(RemoveFirst(s, e)) = FitsIn(s) \ {e}
PROOF
<1>1. CASE ~ \E i \in 1 .. Len(s) : s[i] = e
  <2>1. RemoveFirst(s, e) = s
    BY <1>1 DEF RemoveFirst
  <2>2. e \notin Range(s)
    BY <1>1 DEF Range
  <2>. QED BY <2>1, <2>2 DEF FitsIn
<1>2. CASE \E i \in 1 .. Len(s) : s[i] = e
  <2>. DEFINE I == { j \in 1 .. Len(s) : s[j] = e }
              m == Min(I)
              r == RemoveAt(s, m)
  <2>1. RemoveFirst(s, e) = r
    BY <1>2 DEF RemoveFirst, SelectInSeq
  <2>2. I \in SUBSET Nat /\ I # {}
    BY <1>2
  <2>3. m \in I
    BY <2>2, MinIsLeast
  <2>4. m \in 1 .. Len(s) /\ s[m] = e
    BY <2>3
  <2>. HIDE DEF m
  <2>5. /\ r \in Seq(T)
        /\ Len(r) = Len(s) - 1
        /\ \A j \in 1 .. Len(s) - 1 : r[j] = IF j < m THEN s[j] ELSE s[j + 1]
    BY <2>4, RemoveAtElements
  <2>. HIDE DEF r
  <2>6. ASSUME Once(s)
        PROVE  Once(r) /\ FitsIn(r) = FitsIn(s) \ {e}
    <3>1. DOMAIN s = 1 .. Len(s) /\ DOMAIN r = 1 .. Len(s) - 1 /\ Len(s) \in Nat
      BY <2>5
    <3>2. Once(r)
      <4>. SUFFICES ASSUME NEW i \in DOMAIN r, NEW j \in DOMAIN r, r[i] = r[j], Fits(r[i])
                    PROVE  i = j
        BY DEF Once
      <4>. QED BY <2>4, <2>5, <2>6, <3>1 DEF Once
    <3>3. ASSUME NEW x \in FitsIn(r) PROVE x \in FitsIn(s) \ {e}
      <4>1. PICK j \in 1 .. Len(s) - 1 : x = r[j] /\ Fits(x)
        BY <3>1 DEF Range, FitsIn
      <4>2. PICK k \in 1 .. Len(s) : x = s[k] /\ k # m
        BY <2>4, <2>5, <3>1, <4>1
      <4>. QED BY <2>4, <2>6, <3>1, <4>1, <4>2 DEF Range, FitsIn, Once
    <3>4. ASSUME NEW x \in FitsIn(s) \ {e} PROVE x \in FitsIn(r)
      <4>1. PICK k \in 1 .. Len(s) : x = s[k] /\ Fits(x)
        BY <3>1 DEF Range, FitsIn
      <4>2. k # m
        BY <2>4, <4>1
      <4>3. CASE k < m
        BY <2>4, <2>5, <3>1, <4>1, <4>3 DEF Range, FitsIn
      <4>4. CASE k > m
        <5>1. k - 1 \in 1 .. Len(s) - 1 /\ r[k - 1] = s[k]
          BY <2>4, <2>5, <3>1, <4>4
        <5>. QED BY <3>1, <4>1, <5>1 DEF Range, FitsIn
      <4>. QED BY <2>4, <3>1, <4>2, <4>3, <4>4
    <3>. QED BY <3>2, <3>3, <3>4
  <2>. QED BY <2>1, <2>5, <2>6
<1>. QED BY <1>1, <1>2

-----------------------------------------------------------------------------
(***************************************************************************)
(* Types, and the locals of the calls.                                     *)
(***************************************************************************)
\* The locals of an idle thread.
LEMMA NoCallType == NoCall \in Calls
  BY ContextAssumption DEF NoCall, Calls, Locations

\* The contexts created so far are contexts, and none is the null pointer.
LEMMA MadeAreContexts ==
  ASSUME TypeOK
  PROVE  /\ made \in 0 .. MaxContexts /\ MaxContexts \in Nat
         /\ \A x \in 1 .. made : x \in Context /\ x \in 0 .. MaxContexts /\ x # 0
PROOF
<1>1. made \in 0 .. MaxContexts
  BY DEF TypeOK
<1>2. MaxContexts \in Nat
  BY ContextAssumption
<1>. QED BY <1>1, <1>2 DEF Context

\* The types and the locals hold at the start of the broker.
LEMMA TypeInit == Init => TypeOK /\ LocalsInv
PROOF
<1>. SUFFICES ASSUME Init PROVE TypeOK /\ LocalsInv
  OBVIOUS
<1>1. cache \in Seq(0 .. MaxContexts) /\ Len(cache) = InitialSlots
  BY ContextAssumption DEF Init
<1>2. TypeOK
  BY <1>1, ContextAssumption, NoCallType DEF Init, TypeOK, Context
<1>3. LocalsInv
  BY ContextAssumption DEF Init, LocalsInv, Locals, NoCall, FromUrlPoints
<1>. QED BY <1>2, <1>3

\* A step that changes the call of one thread, and takes no context, slot or
\* id back.
LEMMA CallStep ==
  ASSUME TypeOK, LocalsInv, NEW t \in Thread, NEW c \in Calls,
         call' = [call EXCEPT ![t] = c],
         made' \in Nat, made <= made', slotIx' \in Nat, slotIx <= slotIx',
         \A x \in Context : idOf[x] # 0 => idOf'[x] = idOf[x],
         Locals(c)'
  PROVE  call' \in [Thread -> Calls] /\ LocalsInv'
PROOF
<1>1. call' \in [Thread -> Calls] /\ \A v \in Thread : call'[v] = IF v = t THEN c ELSE call[v]
  BY DEF TypeOK
<1>2. ASSUME NEW v \in Thread, v # t PROVE Locals(call[v])'
  <2>1. Locals(call[v]) /\ call'[v] = call[v] /\ call[v] \in Calls
    BY <1>1, <1>2 DEF LocalsInv, TypeOK
  <2>2. PICK d \in Calls : d = call[v]
    BY <2>1
  <2>3. Locals(d)
    BY <2>1, <2>2
  <2>4. made \in 0 .. MaxContexts /\ slotIx \in Nat /\ MaxContexts \in Nat
    BY ContextAssumption DEF TypeOK
  <2>5. \A x \in 1 .. made : x \in 1 .. made' /\ x \in Context
    BY <2>4 DEF Context
  <2>6. d.oldId # 0 => d.oldId = idOf'[d.old]
    <3>1. d.oldId # 0 => d.old \in Context /\ d.oldId = idOf[d.old]
      BY <2>3, <2>5 DEF Locals
    <3>. QED BY <3>1
  <2>7. d.slotNo \in Nat /\ d.slotNo <= slotIx'
    BY <2>3, <2>4 DEF Locals, Calls
  <2>8. Locals(d)'
    BY <2>3, <2>5, <2>6, <2>7 DEF Locals
  <2>. QED BY <2>1, <2>2, <2>8
<1>. QED BY <1>1, <1>2 DEF LocalsInv

\* Within one run of the broker the histories only grow.
Grows ==
  /\ mishaps \subseteq mishaps' /\ astray \subseteq astray'
  /\ strings \subseteq strings' /\ unsaved \subseteq unsaved'

\* The same, for a step that leaves the contexts, the array and the database
\* alone.  It puts nothing into a hand, and what it takes out of one goes astray.
QuietStep(t, c) ==
  /\ call' = [call EXCEPT ![t] = c]
  /\ Locals(c)
  /\ UNCHANGED << cache, slotIx, stored, idOf, made, urlOf >>
  /\ Grows
  /\ Hand(c) \in { Hand(call[t]), 0 }
  /\ Hand(c) # 0 => c.old = call[t].old /\ c.oldId = call[t].oldId
  /\ Hand(call[t]) # 0 /\ Hand(c) = 0 => call[t].oldId \in astray'
  /\ call[t].pc \in { "unlist", "persist" } =>
       c.pc \in { "unlist", "persist" } /\ c.own = call[t].own

QuietAction(t) ==
  \/ CheckList(t) \/ LockList(t) \/ Mark(t)
  \/ DownloadFails(t) \/ ParseFails(t) \/ RemoveBad(t)
  \/ StringCached(t) \/ WaitHit(t) \/ WaitTimeout(t)
  \/ ReadSlot(t) \/ Unlist(t) \/ EvictNothing(t) \/ PutBack(t)
  \/ \E u \in AnyUrl : Delete(t, u)
  \/ \E u \in Url : Use(t, u) \/ Reload(t, u)

\* A slot in use is a slot of the array and holds a context.
LEMMA SlotsInUse ==
  ASSUME TypeOK
  PROVE  \A s \in InUse : /\ s \in DOMAIN cache
                          /\ cache[s] \in 0 .. MaxContexts /\ cache[s] # 0
PROOF
<1>. SUFFICES ASSUME NEW s \in InUse
              PROVE  /\ s \in DOMAIN cache
                     /\ cache[s] \in 0 .. MaxContexts /\ cache[s] # 0
  OBVIOUS
<1>1. cache \in Seq(0 .. MaxContexts) /\ slotIx \in Nat
  BY DEF TypeOK
<1>2. s \in 1 .. slotIx /\ s <= Len(cache) /\ cache[s] # 0
  BY DEF InUse
<1>3. s \in 1 .. Len(cache)
  BY <1>1, <1>2
<1>4. DOMAIN cache = 1 .. Len(cache) /\ cache[s] \in 0 .. MaxContexts
  BY <1>1, <1>3, LenProperties, ElementOfSeq
<1>. QED BY <1>2, <1>3, <1>4

\* Each action of QuietAction is such a step.
LEMMA QuietActions ==
  ASSUME TypeOK, LocalsInv, IdInv, NEW t \in Thread, QuietAction(t)
  PROVE  \E c \in Calls : QuietStep(t, c)
PROOF
<1>. USE DEF cacheVars, listVars, dbVars, ctxVars, bounds, history, losses
<1>1. call[t] \in Calls /\ Locals(call[t])
  BY DEF TypeOK, LocalsInv
<1>. DEFINE At(l) == [call[t] EXCEPT !.pc = l]
<1>2. /\ slotIx \in Nat /\ list \in Seq(Url \cup {NULL}) /\ << >> \in Seq(Url \cup {NULL})
      /\ made \in 0 .. MaxContexts /\ MaxContexts \in Nat
  <2>1. << >> \in Seq(Url \cup {NULL})
    OBVIOUS
  <2>. QED BY <2>1, ContextAssumption DEF TypeOK
<1>3. /\ NoCall \in Calls /\ Locals(NoCall) /\ Hand(NoCall) = 0
      /\ NoCall.pc = "idle" /\ NoCall.old = 0 /\ NoCall.oldId = 0
  BY <1>2, NoCallType DEF NoCall, Locals, Hand, FromUrlPoints
<1>4. CASE CheckList(t)
  <2>1. PICK c \in Calls : c = At(IF Listed(call[t].url) THEN "wait" ELSE "lockList")
    BY <1>1, <1>2, <1>3, <1>4 DEF Calls, Locations
  <2>2. call' = [call EXCEPT ![t] = c]
    BY <1>4, <2>1 DEF CheckList, Goto, TypeOK
  <2>. QED
    BY <1>1, <1>2, <1>3, <1>4, <2>1, <2>2 DEF CheckList, QuietStep, Grows, Calls, Locals, Hand, FromUrlPoints
<1>5. CASE LockList(t) /\ Listed(call[t].url)
  <2>1. PICK c \in Calls : c = At("wait")
    BY <1>1, <1>2, <1>3, <1>5 DEF Calls, Locations
  <2>2. call' = [call EXCEPT ![t] = c]
    BY <1>5, <2>1 DEF LockList, Goto, TypeOK
  <2>. QED
    BY <1>1, <1>2, <1>3, <1>5, <2>1, <2>2 DEF LockList, QuietStep, Grows, Calls, Locals, Hand, FromUrlPoints
<1>6. CASE LockList(t) /\ ~Listed(call[t].url)
  <2>1. PICK c \in Calls : c = [At("mark") EXCEPT !.head = list]
    BY <1>1, <1>2, <1>3, <1>6 DEF Calls, Locations
  <2>2. call' = [call EXCEPT ![t] = c]
    BY <1>6, <2>1 DEF LockList, TypeOK
  <2>. QED
    BY <1>1, <1>2, <1>3, <1>6, <2>1, <2>2 DEF LockList, QuietStep, Grows, Calls, Locals, Hand, FromUrlPoints
<1>7. CASE Mark(t)
  <2>1. PICK c \in Calls : c = [At("download") EXCEPT !.head = << >>]
    BY <1>1, <1>2, <1>3, <1>7 DEF Calls, Locations
  <2>2. call' = [call EXCEPT ![t] = c]
    BY <1>7, <2>1 DEF Mark, TypeOK
  <2>. QED
    BY <1>1, <1>2, <1>3, <1>7, <2>1, <2>2 DEF Mark, QuietStep, Grows, Calls, Locals, Hand, FromUrlPoints
<1>8. CASE DownloadFails(t)
  <2>1. PICK c \in Calls : c = IF call[t].op = "reload" THEN [At("putBack") EXCEPT !.head = << >>] ELSE NoCall
    BY <1>1, <1>2, <1>3, <1>8 DEF Calls, Locations
  <2>2. call' = [call EXCEPT ![t] = c]
    BY <1>8, <2>1 DEF DownloadFails, Fail, Return, TypeOK
  <2>. QED
    BY <1>1, <1>2, <1>3, <1>8, <2>1, <2>2 DEF DownloadFails, QuietStep, Grows, Calls, Locals, Hand, FromUrlPoints
<1>9. CASE RemoveBad(t)
  <2>1. PICK c \in Calls : c = IF call[t].op = "reload" THEN [At("putBack") EXCEPT !.head = << >>] ELSE NoCall
    BY <1>1, <1>2, <1>3, <1>9 DEF Calls, Locations
  <2>2. call' = [call EXCEPT ![t] = c]
    BY <1>9, <2>1 DEF RemoveBad, Fail, Return, TypeOK
  <2>. QED
    BY <1>1, <1>2, <1>3, <1>9, <2>1, <2>2 DEF RemoveBad, QuietStep, Grows, Calls, Locals, Hand, FromUrlPoints
<1>10. CASE WaitTimeout(t)
  <2>1. PICK c \in Calls : c = IF call[t].op = "reload" THEN [At("putBack") EXCEPT !.head = << >>] ELSE NoCall
    BY <1>1, <1>2, <1>3, <1>10 DEF Calls, Locations
  <2>2. call' = [call EXCEPT ![t] = c]
    BY <1>10, <2>1 DEF WaitTimeout, Fail, Return, TypeOK
  <2>. QED
    BY <1>1, <1>2, <1>3, <1>10, <2>1, <2>2 DEF WaitTimeout, QuietStep, Grows, Calls, Locals, Hand, FromUrlPoints
<1>11. CASE ParseFails(t)
  <2>1. PICK c \in Calls : c = [At("removeBad") EXCEPT !.head = list]
    BY <1>1, <1>2, <1>3, <1>11 DEF Calls, Locations
  <2>2. call' = [call EXCEPT ![t] = c]
    BY <1>11, <2>1 DEF ParseFails, TypeOK
  <2>. QED
    BY <1>1, <1>2, <1>3, <1>11, <2>1, <2>2 DEF ParseFails, QuietStep, Grows, Calls, Locals, Hand, FromUrlPoints
<1>12. CASE WaitHit(t)
  <2>1. PICK c \in Calls : c = NoCall
    BY <1>1, <1>2, <1>3, <1>12 DEF Calls, Locations
  <2>2. call' = [call EXCEPT ![t] = c]
    BY <1>12, <2>1 DEF WaitHit, Return, TypeOK
  <2>. QED
    BY <1>1, <1>2, <1>3, <1>12, <2>1, <2>2 DEF WaitHit, QuietStep, Grows, Calls, Locals, Hand, FromUrlPoints
<1>13. CASE EvictNothing(t)
  <2>1. PICK c \in Calls : c = NoCall
    BY <1>1, <1>2, <1>3, <1>13 DEF Calls, Locations
  <2>2. call' = [call EXCEPT ![t] = c]
    BY <1>13, <2>1 DEF EvictNothing, Return, TypeOK
  <2>. QED
    BY <1>1, <1>2, <1>3, <1>13, <2>1, <2>2 DEF EvictNothing, QuietStep, Grows, Calls, Locals, Hand, FromUrlPoints
<1>14. CASE ReadSlot(t)
  <2>1. PICK c \in Calls : c = [At("insert") EXCEPT !.slotNo = slotIx]
    BY <1>1, <1>2 DEF Calls, Locations
  <2>2. call' = [call EXCEPT ![t] = c]
    BY <1>14, <2>1 DEF ReadSlot, TypeOK
  <2>3. c.slotNo = slotIx /\ slotIx <= slotIx
    BY <1>1, <1>2, <2>1 DEF Calls
  <2>4. Locals(c)
    BY <1>1, <1>14, <2>1, <2>3 DEF ReadSlot, Calls, Locals, FromUrlPoints
  <2>. QED
    BY <1>1, <1>14, <2>1, <2>2, <2>4 DEF ReadSlot, QuietStep, Grows, Calls, Hand, FromUrlPoints
<1>15. CASE Unlist(t)
  <2>1. PICK c \in Calls : c = At("persist")
    BY <1>1, <1>2, <1>3, <1>15 DEF Calls, Locations
  <2>2. call' = [call EXCEPT ![t] = c]
    BY <1>15, <2>1 DEF Unlist, Goto, TypeOK
  <2>. QED
    BY <1>1, <1>2, <1>3, <1>15, <2>1, <2>2 DEF Unlist, QuietStep, Grows, Calls, Locals, Hand, FromUrlPoints
<1>16. CASE PutBack(t)
  <2>1. PICK c \in Calls : c = [At("readSlot") EXCEPT !.own = call[t].old]
    BY <1>1, <1>2, <1>3, <1>16 DEF Calls, Locations
  <2>2. call' = [call EXCEPT ![t] = c]
    BY <1>16, <2>1 DEF PutBack, TypeOK
  <2>. QED
    BY <1>1, <1>2, <1>3, <1>16, <2>1, <2>2 DEF PutBack, QuietStep, Grows, Calls, Locals, Hand, FromUrlPoints
<1>17. ASSUME NEW u \in AnyUrl, Delete(t, u)
      PROVE  \E c \in Calls : QuietStep(t, c)
  <2>1. PICK c \in Calls : c = [NoCall EXCEPT !.pc = "delete", !.op = "delete", !.url = u]
    BY <1>17, NoCallType DEF NoCall, Calls, Locations, AnyUrl
  <2>2. call' = [call EXCEPT ![t] = c]
    BY <1>17, <2>1 DEF Delete, Start
  <2>. QED
    BY <1>1, <1>2, <1>3, <1>17, <2>1, <2>2 DEF Delete, Start, NoCall, QuietStep, Grows, Calls, Locals, Hand, FromUrlPoints
<1>18. ASSUME NEW u \in Url, Use(t, u)
      PROVE  \E c \in Calls : QuietStep(t, c)
  <2>1. PICK c \in Calls : c = [NoCall EXCEPT !.pc = "checkList", !.url = u]
    BY <1>18, NoCallType DEF NoCall, Calls, Locations, AnyUrl
  <2>2. call' = [call EXCEPT ![t] = c]
    BY <1>18, <2>1 DEF Use, Start
  <2>. QED
    BY <1>1, <1>2, <1>3, <1>18, <2>1, <2>2 DEF Use, Start, NoCall, QuietStep, Grows, Calls, Locals, Hand, FromUrlPoints
<1>19. ASSUME NEW u \in Url, Reload(t, u)
      PROVE  \E c \in Calls : QuietStep(t, c)
  <2>1. PICK s \in InUse :
          Start(t, [NoCall EXCEPT !.pc = "evict", !.op = "reload", !.url = u, !.old = cache[s]])
    BY <1>19 DEF Reload
  <2>2. cache[s] \in 1 .. made /\ cache[s] \in 0 .. MaxContexts
    <3>1. s \in DOMAIN cache /\ cache[s] \in 0 .. MaxContexts /\ cache[s] # 0
      BY SlotsInUse
    <3>2. cache[s] <= made
      BY <3>1 DEF IdInv
    <3>. QED BY <1>2, <3>1, <3>2
  <2>3. PICK c \in Calls :
          c = [NoCall EXCEPT !.pc = "evict", !.op = "reload", !.url = u, !.old = cache[s]]
    BY <1>2, <2>2, <1>3 DEF NoCall, Calls, Locations, AnyUrl
  <2>4. call' = [call EXCEPT ![t] = c] /\ call[t].pc = "idle"
    BY <2>1, <2>3 DEF Start
  <2>5. Locals(c)
    BY <1>2, <2>2, <2>3 DEF NoCall, Calls, Locals, FromUrlPoints
  <2>. QED
    BY <1>1, <1>2, <1>19, <2>2, <2>3, <2>4, <2>5 DEF Reload, NoCall, QuietStep, Grows, Calls, Locals, Hand, FromUrlPoints
<1>20. CASE StringCached(t)
  <2>1. PICK s \in InUse : call' = [call EXCEPT ![t].pc = "unlist", ![t].own = cache[s]]
    BY <1>20 DEF StringCached
  <2>2. cache[s] \in 1 .. made /\ cache[s] \in 0 .. MaxContexts
    <3>1. s \in DOMAIN cache /\ cache[s] \in 0 .. MaxContexts /\ cache[s] # 0
      BY SlotsInUse
    <3>2. cache[s] <= made
      BY <3>1 DEF IdInv
    <3>. QED BY <1>2, <3>1, <3>2
  <2>3. PICK c \in Calls : c = [At("unlist") EXCEPT !.own = cache[s]]
    BY <1>1, <2>2 DEF Calls, Locations
  <2>4. call' = [call EXCEPT ![t] = c]
    BY <2>1, <2>3 DEF TypeOK
  <2>5. /\ c.pc = "unlist" /\ c.own = cache[s] /\ c.op = call[t].op /\ c.url = call[t].url
        /\ c.old = call[t].old /\ c.oldId = call[t].oldId /\ c.slotNo = call[t].slotNo
    BY <1>1, <2>3 DEF Calls
  <2>6. Locals(c)
    BY <1>1, <1>20, <2>2, <2>5 DEF StringCached, Locals, FromUrlPoints
  <2>7. Hand(c) = 0 /\ call[t].pc = "download" /\ call[t].oldId \in astray'
    BY <1>20, <2>5 DEF StringCached, Hand, FromUrlPoints
  <2>. QED BY <1>20, <2>4, <2>6, <2>7 DEF StringCached, QuietStep, Grows
<1>. QED BY <1>4, <1>5, <1>6, <1>7, <1>8, <1>9, <1>10, <1>11, <1>12, <1>13, <1>14, <1>15, <1>16, <1>17, <1>18, <1>19, <1>20
  DEF QuietAction

\* A new context: one that is posted, or one that was downloaded, which takes
\* over the id of the context that the reload has in hand.
NewContext(t, c, id) ==
  /\ call' = [call EXCEPT ![t] = c]
  /\ made < MaxContexts /\ made' = made + 1
  /\ idOf' = [idOf EXCEPT ![made + 1] = id]
  /\ UNCHANGED << cache, slotIx, stored, mishaps >>
  /\ Grows
  /\ c.own = made + 1
  /\ c.old = call[t].old /\ c.oldId = call[t].oldId
  /\ call[t].pc \notin { "unlist", "persist" }
  /\ id \in { call[t].oldId, made + 1 }

\* It goes into the hand of the thread ...
CreateStep(t, c, id) ==
  /\ NewContext(t, c, id)
  /\ c.pc = "readSlot"
  /\ c.op = "reload" => call[t].op = "reload"
  /\ Hand(call[t]) \in { 0, call[t].old }
  /\ id # made + 1 /\ id # 0 => Hand(call[t]) = call[t].old
  /\ Hand(call[t]) # 0 => id = call[t].oldId

\* ... or nowhere, if it is a string, and what the hand held goes astray.
StringStep(t, c, id) ==
  /\ NewContext(t, c, id)
  /\ Hand(c) = 0
  /\ Hand(call[t]) # 0 => call[t].oldId \in astray'

CreateAction(t) == Downloaded(t) \/ \E u \in OwnUrl : Post(t, u)

StringAction(t) == StringCreated(t) \/ \E u \in OwnUrl : PostString(t, u)

\* A download that ends with the call c and the new context made + 1.
LEMMA DownloadCreates ==
  ASSUME TypeOK, LocalsInv, NEW t \in Thread, NEW l \in { "readSlot", "unlist" },
         call[t].pc = "download", made < MaxContexts, made' = made + 1,
         idOf' = [idOf EXCEPT ![made + 1] = call[t].oldId],
         call' = [call EXCEPT ![t].pc = l, ![t].own = made + 1],
         UNCHANGED << cache, slotIx, stored, mishaps >>, Grows
  PROVE  \E c \in Calls : /\ c.pc = l /\ c.op = call[t].op
                          /\ NewContext(t, c, call[t].oldId) /\ Locals(c)'
PROOF
<1>1. /\ call[t] \in Calls /\ Locals(call[t]) /\ call[t].oldId \in 0 .. MaxContexts
      /\ made \in 0 .. MaxContexts /\ MaxContexts \in Nat /\ slotIx \in Nat
      /\ idOf \in [Context -> 0 .. MaxContexts]
  BY ContextAssumption DEF TypeOK, LocalsInv, Calls
<1>2. made + 1 \in 0 .. MaxContexts /\ made + 1 \in Context
  BY <1>1 DEF Context
<1>3. PICK c \in Calls : c = [call[t] EXCEPT !.pc = l, !.own = made + 1]
  BY <1>1, <1>2 DEF Calls, Locations
<1>4. call' = [call EXCEPT ![t] = c]
  BY <1>3 DEF TypeOK
<1>5. /\ c.pc = l /\ c.own = made + 1 /\ c.op = call[t].op /\ c.url = call[t].url
      /\ c.old = call[t].old /\ c.oldId = call[t].oldId /\ c.slotNo = call[t].slotNo
  BY <1>1, <1>3 DEF Calls
<1>6. NewContext(t, c, call[t].oldId)
  BY <1>4, <1>5 DEF NewContext
<1>7. Locals(c)'
  <2>1. \A x \in 1 .. made : x \in 1 .. made' /\ idOf'[x] = idOf[x]
    BY <1>1 DEF Context
  <2>2. made + 1 \in 1 .. made'
    BY <1>1
  <2>. QED BY <1>1, <1>5, <2>1, <2>2 DEF Locals, FromUrlPoints
<1>. QED BY <1>5, <1>6, <1>7

\* A posted context, of which the thread goes on at l.
LEMMA PostCreates ==
  ASSUME TypeOK, LocalsInv, NEW t \in Thread, NEW u \in OwnUrl,
         NEW l \in { "readSlot", "persist" }, PostAt(t, u, l), Grows
  PROVE  /\ made + 1 \in 0 .. MaxContexts /\ Hand(call[t]) = 0
         /\ \E c \in Calls : /\ c.pc = l /\ c.op = "post"
                             /\ NewContext(t, c, made + 1) /\ Locals(c)'
PROOF
<1>. USE DEF cacheVars, listVars, history
<1>1. /\ call[t] \in Calls /\ Locals(call[t])
      /\ made \in 0 .. MaxContexts /\ MaxContexts \in Nat /\ slotIx \in Nat
  BY ContextAssumption DEF TypeOK, LocalsInv, Calls
<1>2. /\ call[t].pc = "idle" /\ made < MaxContexts /\ made' = made + 1
      /\ slotIx' = slotIx /\ idOf' = [idOf EXCEPT ![made + 1] = made + 1]
      /\ UNCHANGED << cache, slotIx, stored, mishaps >>
  BY DEF PostAt, Start
<1>3. made + 1 \in 0 .. MaxContexts
  BY <1>1, <1>2
<1>4. PICK c \in Calls : c = [NoCall EXCEPT !.pc = l, !.op = "post", !.url = u, !.own = made + 1]
  BY <1>3, NoCallType DEF NoCall, Calls, Locations, AnyUrl
<1>5. call' = [call EXCEPT ![t] = c]
  BY <1>4 DEF PostAt, Start
<1>6. /\ c.pc = l /\ c.own = made + 1 /\ c.op = "post" /\ c.url = u
      /\ c.old = 0 /\ c.oldId = 0 /\ c.slotNo = 0
  BY <1>4 DEF NoCall
<1>7. call[t].old = 0 /\ call[t].oldId = 0 /\ Hand(call[t]) = 0
  BY <1>1, <1>2 DEF Locals, Hand, FromUrlPoints
<1>8. NewContext(t, c, made + 1)
  BY <1>2, <1>5, <1>6, <1>7 DEF NewContext
<1>9. made + 1 \in 1 .. made' /\ 0 <= slotIx'
  BY <1>1, <1>2
<1>10. Locals(c)'
  BY <1>6, <1>9 DEF Locals, FromUrlPoints
<1>. QED BY <1>3, <1>6, <1>7, <1>8, <1>10

\* Downloaded and Post create one context, in the hand of their thread.
LEMMA CreateActions ==
  ASSUME TypeOK, LocalsInv, NEW t \in Thread, CreateAction(t)
  PROVE  \E c \in Calls, id \in 0 .. MaxContexts : CreateStep(t, c, id) /\ Locals(c)'
PROOF
<1>. USE DEF cacheVars, listVars, bounds, history, losses
<1>1. CASE Downloaded(t)
  <2>1. Grows /\ call[t].pc = "download" /\ call[t].oldId \in 0 .. MaxContexts
    BY <1>1 DEF Downloaded, Grows, TypeOK, Calls
  <2>2. PICK c \in Calls : /\ c.pc = "readSlot" /\ c.op = call[t].op
                           /\ NewContext(t, c, call[t].oldId) /\ Locals(c)'
    BY <1>1, <2>1, DownloadCreates DEF Downloaded
  <2>3. Locals(call[t]) /\ (call[t].oldId # 0 => call[t].op = "reload")
    BY DEF LocalsInv, Locals
  <2>4. CreateStep(t, c, call[t].oldId)
    BY <2>1, <2>2, <2>3 DEF CreateStep, Hand, FromUrlPoints
  <2>. QED BY <2>1, <2>2, <2>4
<1>2. ASSUME NEW u \in OwnUrl, Post(t, u)
      PROVE  \E c \in Calls, id \in 0 .. MaxContexts : CreateStep(t, c, id) /\ Locals(c)'
  <2>1. PostAt(t, u, "readSlot") /\ Grows
    BY <1>2 DEF Post, PostAt, Grows
  <2>2. /\ made + 1 \in 0 .. MaxContexts /\ Hand(call[t]) = 0
        /\ \E c \in Calls : /\ c.pc = "readSlot" /\ c.op = "post"
                            /\ NewContext(t, c, made + 1) /\ Locals(c)'
    BY <2>1, PostCreates
  <2>. QED BY <2>2 DEF CreateStep
<1>. QED BY <1>1, <1>2 DEF CreateAction

\* A context that is a string is in no hand.
LEMMA StringActions ==
  ASSUME TypeOK, LocalsInv, NEW t \in Thread, StringAction(t)
  PROVE  \E c \in Calls, id \in 0 .. MaxContexts : StringStep(t, c, id) /\ Locals(c)'
PROOF
<1>. USE DEF cacheVars, listVars, bounds, history, losses
<1>1. CASE StringCreated(t)
  <2>1. /\ Grows /\ call[t].pc = "download" /\ call[t].oldId \in 0 .. MaxContexts
        /\ call[t].oldId \in astray'
    BY <1>1 DEF StringCreated, Grows, TypeOK, Calls
  <2>2. PICK c \in Calls : /\ c.pc = "unlist" /\ c.op = call[t].op
                           /\ NewContext(t, c, call[t].oldId) /\ Locals(c)'
    BY <1>1, <2>1, DownloadCreates DEF StringCreated
  <2>3. StringStep(t, c, call[t].oldId)
    BY <2>1, <2>2 DEF StringStep, Hand, FromUrlPoints
  <2>. QED BY <2>1, <2>2, <2>3
<1>2. ASSUME NEW u \in OwnUrl, PostString(t, u)
      PROVE  \E c \in Calls, id \in 0 .. MaxContexts : StringStep(t, c, id) /\ Locals(c)'
  <2>1. PostAt(t, u, "persist") /\ Grows
    BY <1>2 DEF PostString, PostAt, Grows
  <2>2. /\ made + 1 \in 0 .. MaxContexts /\ Hand(call[t]) = 0
        /\ \E c \in Calls : /\ c.pc = "persist" /\ c.op = "post"
                            /\ NewContext(t, c, made + 1) /\ Locals(c)'
    BY <2>1, PostCreates
  <2>. QED BY <2>2 DEF StringStep, Hand, FromUrlPoints
<1>. QED BY <1>1, <1>2 DEF StringAction

\* The insertion of the context in hand into slot s: the array ...
ArrayOK ==
  /\ cache \in Seq(0 .. MaxContexts) /\ slotIx \in Nat
  /\ "stale slot" \notin mishaps => slotIx <= Len(cache)

ArrayStep(t, s) ==
  /\ ArrayOK' /\ slotIx <= slotIx'
  /\ DOMAIN cache \subseteq DOMAIN cache'
  /\ \A r \in DOMAIN cache' :
       cache'[r] = IF r = s THEN call[t].own ELSE IF r \in DOMAIN cache THEN cache[r] ELSE 0
  /\ mishaps' \cap { "stale slot", "growth" } = {} =>
       s \in InUse' /\ s \notin InUse /\ InUse \subseteq InUse'

\* ... and the call.
InsertStep(t, c, s) ==
  /\ call' = [call EXCEPT ![t] = c]
  /\ ArrayStep(t, s)
  /\ UNCHANGED << stored, idOf, made >>
  /\ Grows
  /\ call[t].pc = "insert" /\ call[t].own \in 1 .. made /\ Hand(c) = 0
  /\ call[t].own # call[t].old => c.own = call[t].own /\ c.pc \in { "unlist", "persist" }

\* An array is a sequence of its length.
LEMMA FunctionIsSeq ==
  ASSUME NEW S, NEW n \in Nat, NEW f \in [1 .. n -> S]
  PROVE  f \in Seq(S) /\ Len(f) = n
  OBVIOUS

\* An insertion at the slot number that was read before.
LEMMA InsertNextStep ==
  ASSUME TypeOK, LocalsInv, NEW t \in Thread, InsertNext(t)
  PROVE  ArrayStep(t, call[t].slotNo + 1)
PROOF
<1>1. call[t].own \in 1 .. made /\ call[t].slotNo \in Nat
  <2>1. call[t] \in Calls /\ Locals(call[t]) /\ call[t].pc = "insert"
    BY DEF TypeOK, LocalsInv, InsertNext
  <2>. QED BY <2>1 DEF Locals, Calls
<1>2. made \in 0 .. MaxContexts /\ MaxContexts \in Nat /\ slotIx \in Nat
  BY ContextAssumption DEF TypeOK
<1>3. cache \in Seq(0 .. MaxContexts) /\ Len(cache) \in Nat /\ DOMAIN cache = 1 .. Len(cache)
  BY LenProperties DEF TypeOK
<1>4. call[t].slotNo < Len(cache) /\ slotIx' = slotIx + 1
  BY DEF InsertNext
<1>5. cache' = [cache EXCEPT ![call[t].slotNo + 1] = call[t].own]
  BY DEF InsertNext
<1>6. "stale slot" \notin mishaps' => call[t].slotNo = slotIx
  BY DEF InsertNext
<1>7. PICK n \in Nat : n = Len(cache)
  BY <1>3
<1>8. PICK s \in 1 .. n : s = call[t].slotNo + 1
  BY <1>1, <1>3, <1>4, <1>7
<1>9. PICK o \in 1 .. MaxContexts : o = call[t].own
  BY <1>1, <1>2
<1>10. /\ cache' \in Seq(0 .. MaxContexts) /\ Len(cache') = n
      /\ DOMAIN cache = 1 .. n /\ DOMAIN cache' = 1 .. n
      /\ \A r \in 1 .. n : cache'[r] = IF r = s THEN o ELSE cache[r]
  <2>1. cache' = [cache EXCEPT ![s] = o]
    BY <1>5, <1>8, <1>9
  <2>2. o \in 0 .. MaxContexts
    BY <1>2
  <2>3. /\ cache' \in Seq(0 .. MaxContexts) /\ Len(cache') = Len(cache)
        /\ \A r \in 1 .. Len(cache) : cache'[r] = IF r = s THEN o ELSE cache[r]
    BY <1>3, <1>7, <2>1, <2>2, ExceptSeq
  <2>. QED BY <1>3, <1>7, <2>3, LenProperties
<1>11. ArrayOK'
  <2>1. ASSUME "stale slot" \notin mishaps' PROVE slotIx' <= Len(cache')
    <3>1. call[t].slotNo = slotIx
      BY <1>6, <2>1
    <3>. QED BY <1>2, <1>4, <1>7, <1>10, <3>1
  <2>2. slotIx' \in Nat
    BY <1>2, <1>4
  <2>. QED BY <1>10, <2>1, <2>2 DEF ArrayOK
<1>12. ASSUME mishaps' \cap { "stale slot", "growth" } = {}
       PROVE  s \in InUse' /\ s \notin InUse /\ InUse \subseteq InUse'
  <2>1. s = slotIx + 1
    BY <1>8, <1>12, <1>6
  <2>2. s \notin InUse
    BY <1>2, <2>1 DEF InUse
  <2>3. s \in InUse'
    <3>1. s \in 1 .. slotIx' /\ s <= Len(cache')
      BY <1>2, <1>4, <1>10, <2>1
    <3>2. cache'[s] # 0
      BY <1>9, <1>10
    <3>. QED BY <3>1, <3>2 DEF InUse
  <2>4. ASSUME NEW r \in InUse PROVE r \in InUse'
    <3>1. r \in 1 .. slotIx /\ r <= n /\ cache[r] # 0 /\ r # s
      BY <1>7, <2>2, <2>4 DEF InUse
    <3>2. r \in 1 .. slotIx' /\ r \in 1 .. n
      BY <1>2, <1>4, <3>1
    <3>3. cache'[r] # 0 /\ r <= Len(cache')
      BY <1>10, <3>1, <3>2
    <3>. QED BY <3>2, <3>3 DEF InUse
  <2>. QED BY <2>2, <2>3, <2>4
<1>13. slotIx <= slotIx'
  BY <1>2, <1>4
<1>. QED BY <1>8, <1>9, <1>10, <1>11, <1>12, <1>13 DEF ArrayStep

\* An insertion into the slot of a context that was deleted.
LEMMA InsertHoleStep ==
  ASSUME TypeOK, LocalsInv, NEW t \in Thread, InsertHole(t)
  PROVE  \E s \in Nat : ArrayStep(t, s)
PROOF
<1>1. call[t].own \in 1 .. made /\ call[t].slotNo \in Nat /\ call[t].slotNo <= slotIx
  <2>1. call[t] \in Calls /\ Locals(call[t]) /\ call[t].pc = "insert"
    BY DEF TypeOK, LocalsInv, InsertHole
  <2>. QED BY <2>1 DEF Locals, Calls
<1>2. made \in 0 .. MaxContexts /\ MaxContexts \in Nat /\ slotIx \in Nat
  BY ContextAssumption DEF TypeOK
<1>3. cache \in Seq(0 .. MaxContexts) /\ Len(cache) \in Nat /\ DOMAIN cache = 1 .. Len(cache)
  BY LenProperties DEF TypeOK
<1>4. PICK n \in Nat : n = Len(cache)
  BY <1>3
<1>5. PICK o \in 1 .. MaxContexts : o = call[t].own
  BY <1>1, <1>2
<1>6. call[t].slotNo >= n /\ slotIx' = slotIx /\ mishaps' = mishaps
  BY <1>4 DEF InsertHole, history
<1>7. PICK s \in 1 .. n : cache[s] = 0 /\ cache' = [cache EXCEPT ![s] = o]
  BY <1>3, <1>4, <1>5 DEF InsertHole, Holes
<1>8. /\ cache' \in Seq(0 .. MaxContexts) /\ Len(cache') = n
      /\ DOMAIN cache = 1 .. n /\ DOMAIN cache' = 1 .. n
      /\ \A r \in 1 .. n : cache'[r] = IF r = s THEN o ELSE cache[r]
  <2>1. o \in 0 .. MaxContexts
    BY <1>2
  <2>2. /\ cache' \in Seq(0 .. MaxContexts) /\ Len(cache') = Len(cache)
        /\ \A r \in 1 .. Len(cache) : cache'[r] = IF r = s THEN o ELSE cache[r]
    BY <1>3, <1>4, <1>7, <2>1, ExceptSeq
  <2>. QED BY <1>3, <1>4, <2>2, LenProperties
<1>9. ArrayOK'
  BY <1>2, <1>4, <1>6, <1>8 DEF ArrayOK, TypeOK
<1>10. ASSUME mishaps' \cap { "stale slot", "growth" } = {}
       PROVE  s \in InUse' /\ s \notin InUse /\ InUse \subseteq InUse'
  <2>1. s \notin InUse
    BY <1>7 DEF InUse
  <2>2. s \in 1 .. slotIx
    BY <1>1, <1>2, <1>6
  <2>3. s \in InUse'
    BY <1>4, <1>5, <1>6, <1>8, <2>2 DEF InUse
  <2>4. ASSUME NEW r \in InUse PROVE r \in InUse'
    <3>1. r \in 1 .. slotIx /\ r <= n /\ cache[r] # 0 /\ r # s
      BY <1>4, <2>1, <2>4 DEF InUse
    <3>2. r \in 1 .. n
      BY <1>2, <3>1
    <3>3. cache'[r] # 0 /\ r <= Len(cache')
      BY <1>8, <3>1, <3>2
    <3>. QED BY <1>6, <3>1, <3>3 DEF InUse
  <2>. QED BY <2>1, <2>3, <2>4
<1>11. slotIx <= slotIx' /\ s \in Nat
  BY <1>2, <1>6
<1>. QED BY <1>5, <1>8, <1>9, <1>10, <1>11 DEF ArrayStep

\* An insertion that makes the array grow.
LEMMA InsertGrowStep ==
  ASSUME TypeOK, LocalsInv, NEW t \in Thread, InsertGrow(t)
  PROVE  \E s \in Nat : ArrayStep(t, s)
PROOF
<1>1. call[t].own \in 1 .. made
  <2>1. Locals(call[t]) /\ call[t].pc = "insert"
    BY DEF LocalsInv, InsertGrow
  <2>. QED BY <2>1 DEF Locals
<1>2. made \in 0 .. MaxContexts /\ MaxContexts \in Nat /\ slotIx \in Nat /\ SlotsToAdd \in Nat
  BY ContextAssumption DEF TypeOK
<1>3. cache \in Seq(0 .. MaxContexts) /\ Len(cache) \in Nat /\ DOMAIN cache = 1 .. Len(cache)
  BY LenProperties DEF TypeOK
<1>4. PICK n \in Nat : n = Len(cache)
  BY <1>3
<1>5. PICK o \in 0 .. MaxContexts : o = call[t].own
  BY <1>1, <1>2
<1>6. slotIx' = slotIx /\ mishaps' = mishaps \cup {"growth"}
  BY DEF InsertGrow
<1>. DEFINE z == [r \in 1 .. SlotsToAdd |-> 0]
            w == cache \o z
<1>7. cache' = [w EXCEPT ![slotIx + 1] = o]
  BY <1>5 DEF InsertGrow
<1>8. /\ w \in Seq(0 .. MaxContexts) /\ Len(w) = n + SlotsToAdd
      /\ \A r \in 1 .. n + SlotsToAdd : w[r] = IF r <= n THEN cache[r] ELSE 0
  <2>1. 0 \in 0 .. MaxContexts
    BY <1>2
  <2>2. z \in [1 .. SlotsToAdd -> 0 .. MaxContexts]
    BY <2>1
  <2>3. z \in Seq(0 .. MaxContexts) /\ Len(z) = SlotsToAdd
    BY <1>2, <2>2, FunctionIsSeq
  <2>4. \A r \in 1 .. SlotsToAdd : z[r] = 0
    OBVIOUS
  <2>. HIDE DEF z
  <2>5. /\ w \in Seq(0 .. MaxContexts) /\ Len(w) = Len(cache) + Len(z)
        /\ \A r \in 1 .. Len(cache) + Len(z) :
             w[r] = IF r <= Len(cache) THEN cache[r] ELSE z[r - Len(cache)]
    BY <1>3, <2>3, ConcatProperties
  <2>. HIDE DEF w
  <2>6. ASSUME NEW r \in 1 .. n + SlotsToAdd, ~(r <= n) PROVE r - n \in 1 .. SlotsToAdd
    BY <1>2, <2>6
  <2>. QED BY <1>4, <2>3, <2>4, <2>5, <2>6
<1>. HIDE DEF z, w
<1>9. PICK m \in Nat : m = n + SlotsToAdd /\ n <= m
  BY <1>2
<1>10. w \in [1 .. m -> 0 .. MaxContexts] /\ DOMAIN w = 1 .. m
  BY <1>8, <1>9, LenProperties
<1>11. /\ cache' \in [1 .. m -> 0 .. MaxContexts]
       /\ \A r \in 1 .. m : cache'[r] = IF r = slotIx + 1 THEN o ELSE w[r]
  BY <1>7, <1>10
<1>12. cache' \in Seq(0 .. MaxContexts) /\ Len(cache') = m /\ DOMAIN cache' = 1 .. m
  BY <1>11, FunctionIsSeq
<1>13. ArrayOK'
  <2>1. ASSUME "stale slot" \notin mishaps' PROVE slotIx' <= Len(cache')
    <3>1. slotIx <= n
      BY <1>4, <1>6, <2>1 DEF TypeOK
    <3>. QED BY <1>2, <1>6, <1>9, <1>12, <3>1
  <2>. QED BY <1>2, <1>6, <1>12, <2>1 DEF ArrayOK
<1>14. DOMAIN cache \subseteq DOMAIN cache'
  <2>1. \A r \in 1 .. n : r \in 1 .. m
    BY <1>9
  <2>. QED BY <1>3, <1>4, <1>12, <2>1
<1>15. ASSUME NEW r \in DOMAIN cache'
       PROVE  cache'[r] = IF r = slotIx + 1 THEN o
                          ELSE IF r \in DOMAIN cache THEN cache[r] ELSE 0
  <2>1. r \in 1 .. m /\ (r \in DOMAIN cache <=> r <= n)
    BY <1>3, <1>4, <1>12
  <2>. QED BY <1>8, <1>9, <1>11, <2>1
<1>16. slotIx <= slotIx' /\ slotIx + 1 \in Nat
  BY <1>2, <1>6
<1>17. ArrayStep(t, slotIx + 1)
  BY <1>5, <1>6, <1>13, <1>14, <1>15, <1>16 DEF ArrayStep
<1>. QED BY <1>16, <1>17

InsertAction(t) == InsertNext(t) \/ InsertHole(t) \/ InsertGrow(t)

\* All three put the context in hand into one slot, and nothing else changes.
LEMMA InsertActions ==
  ASSUME TypeOK, LocalsInv, NEW t \in Thread, InsertAction(t)
  PROVE  \E c \in Calls, s \in Nat : InsertStep(t, c, s) /\ Locals(c)'
PROOF
<1>. USE DEF listVars, dbVars, ctxVars, bounds, history, losses
<1>1. /\ call[t].pc = "insert" /\ Inserted(t) /\ made' = made /\ idOf' = idOf /\ stored' = stored
      /\ Grows
  BY DEF InsertAction, InsertNext, InsertHole, InsertGrow, Grows
<1>2. call[t] \in Calls /\ Locals(call[t]) /\ call \in [Thread -> Calls]
  BY DEF TypeOK, LocalsInv
<1>3. call[t].own \in 1 .. made
  BY <1>1, <1>2 DEF Locals
<1>4. PICK s \in Nat : ArrayStep(t, s)
  <2>1. ASSUME InsertNext(t) PROVE \E s \in Nat : ArrayStep(t, s)
    <3>1. call[t].slotNo + 1 \in Nat
      BY <1>2 DEF Calls
    <3>. QED BY <2>1, <3>1, InsertNextStep
  <2>. QED BY <2>1, InsertHoleStep, InsertGrowStep DEF InsertAction
<1>5. slotIx \in Nat /\ slotIx' \in Nat
  BY <1>4 DEF ArrayStep, ArrayOK, TypeOK
<1>6. CASE call[t].own = call[t].old
  <2>1. PICK c \in Calls : c = NoCall
    BY NoCallType
  <2>2. call' = [call EXCEPT ![t] = c]
    BY <1>1, <1>6, <2>1 DEF Inserted, Return
  <2>3. Hand(c) = 0 /\ Locals(c)'
    BY <1>5, <2>1 DEF NoCall, Hand, Locals, FromUrlPoints
  <2>. QED BY <1>1, <1>3, <1>4, <1>6, <2>2, <2>3 DEF InsertStep
<1>7. CASE call[t].own # call[t].old
  <2>1. PICK c \in Calls :
          c = [call[t] EXCEPT !.pc = IF call[t].op = "post" THEN "persist" ELSE "unlist",
                              !.slotNo = 0]
    BY <1>2 DEF Calls, Locations
  <2>2. call' = [call EXCEPT ![t] = c]
    BY <1>1, <1>2, <1>7, <2>1 DEF Inserted
  <2>3. Hand(c) = 0 /\ c.own = call[t].own /\ c.pc \in { "unlist", "persist" }
    BY <1>2, <2>1 DEF Calls, Hand, FromUrlPoints
  <2>4. c.slotNo = 0 /\ 0 <= slotIx'
    BY <1>2, <1>5, <2>1 DEF Calls
  <2>5. Locals(c)'
    BY <1>1, <1>2, <1>3, <1>7, <2>1, <2>4 DEF Calls, Locals, FromUrlPoints
  <2>. QED BY <1>1, <1>3, <1>4, <2>2, <2>3, <2>5 DEF InsertStep
<1>. QED BY <1>6, <1>7

PersistAction(t) == Persist(t) \/ PersistFails(t)

\* The types of everything but the array and the calls.
RestOK ==
  /\ list \in Seq(Url \cup {NULL}) /\ listSem \in {0, 1}
  /\ stored \in [Context -> 0 .. MaxContexts] /\ made \in 0 .. MaxContexts
  /\ urlOf \in [Context -> AnyUrl \cup {NULL}] /\ idOf \in [Context -> 0 .. MaxContexts]
  /\ requests \in 0 .. MaxRequests /\ restarts \in 0 .. MaxRestarts
  /\ strings \subseteq 1 .. made
  /\ mishaps \subseteq { "unlocked removal", "stale slot", "growth" }
  /\ astray \subseteq 0 .. MaxContexts /\ unsaved \subseteq 0 .. MaxContexts
  /\ failed \subseteq Url

\* The types of the variables that are neither the array nor the calls.
LEMMA RestStep ==
  ASSUME TypeOK, LocalsInv, Next
  PROVE  RestOK'
PROOF
<1>. USE DEF cacheVars, listVars, dbVars, ctxVars, bounds, history, losses
<1>1. RestOK /\ call \in [Thread -> Calls]
  BY DEF TypeOK, RestOK
<1>2. MaxContexts \in Nat /\ MaxRequests \in Nat /\ MaxRestarts \in Nat
  BY ContextAssumption
<1>3. made \in 0 .. MaxContexts /\ requests \in 0 .. MaxRequests /\ restarts \in 0 .. MaxRestarts
  BY <1>1 DEF RestOK
<1>4. ASSUME NEW t \in Thread,
             CheckList(t) \/ LockList(t) \/ ParseFails(t) \/ WaitTimeout(t)
               \/ WaitHit(t) \/ StringCached(t)
               \/ ReadSlot(t) \/ InsertHole(t) \/ EvictNothing(t) \/ PutBack(t)
               \/ InsertNext(t) \/ InsertGrow(t) \/ Evict(t)
      PROVE  RestOK'
  <2>1. /\ list' = list /\ listSem' \in {0, 1}
        /\ UNCHANGED << stored, idOf, made, urlOf, strings, unsaved >>
        /\ requests' = requests /\ restarts' = restarts /\ failed' = failed
        /\ mishaps' \subseteq mishaps \cup { "stale slot", "growth" }
    BY <1>1, <1>4 DEF RestOK, CheckList, LockList, ParseFails, WaitHit, WaitTimeout, ReadSlot, InsertHole,
       EvictNothing, PutBack, InsertNext, InsertGrow, Evict, StringCached
  <2>2. astray' \subseteq astray \cup { call[t].oldId, idOf[call[t].old] }
    BY <1>4 DEF CheckList, LockList, ParseFails, WaitHit, WaitTimeout, ReadSlot, InsertHole,
       EvictNothing, PutBack, InsertNext, InsertGrow, Evict, StringCached
  <2>3. call[t].oldId \in 0 .. MaxContexts
    BY <1>1 DEF Calls
  <2>4. Evict(t) => idOf[call[t].old] \in 0 .. MaxContexts
    <3>. SUFFICES ASSUME Evict(t) PROVE idOf[call[t].old] \in 0 .. MaxContexts
      OBVIOUS
    <3>1. call[t].old \in 1 .. made
      BY DEF Evict, LocalsInv, Locals
    <3>. QED BY <1>1, <3>1, MadeAreContexts DEF RestOK
  <2>5. ~Evict(t) => astray' \subseteq astray \cup { call[t].oldId }
    BY <1>4 DEF CheckList, LockList, ParseFails, WaitHit, WaitTimeout, ReadSlot, InsertHole,
       EvictNothing, PutBack, InsertNext, InsertGrow, StringCached
  <2>6. astray' \subseteq 0 .. MaxContexts
    BY <1>1, <2>2, <2>3, <2>4, <2>5 DEF RestOK
  <2>. QED BY <1>1, <2>1, <2>6 DEF RestOK
<1>5. ASSUME NEW t \in Thread, Mark(t)
      PROVE  RestOK'
  <2>1. call[t].url \in Url /\ call[t].head \in Seq(Url \cup {NULL})
    BY <1>1, <1>5 DEF Mark, LocalsInv, Locals, FromUrlPoints, Calls
  <2>2. PICK n \in NamesOf(call[t].url) : list' = << n >> \o call[t].head
    BY <1>5 DEF Mark
  <2>3. n \in Url \cup {NULL}
    BY <2>1, ContextAssumption DEF NamesOf
  <2>4. << n >> \in Seq(Url \cup {NULL})
    BY <2>3
  <2>5. list' \in Seq(Url \cup {NULL})
    BY <2>1, <2>2, <2>4, ConcatProperties
  <2>. QED BY <1>1, <1>5, <2>5 DEF Mark, RestOK
<1>6. ASSUME NEW t \in Thread, DownloadFails(t)
      PROVE  RestOK'
  <2>1. call[t].url \in Url
    BY <1>6 DEF DownloadFails, LocalsInv, Locals, FromUrlPoints
  <2>. QED BY <1>1, <1>6, <2>1 DEF DownloadFails, RestOK
<1>7. ASSUME NEW t \in Thread, RemoveBad(t) \/ Unlist(t)
      PROVE  RestOK'
  <2>1. list \in Seq(Url \cup {NULL}) /\ call[t].head \in Seq(Url \cup {NULL})
    BY <1>1 DEF RestOK, Calls
  <2>2. RemoveFirst(list, call[t].url) \in Seq(Url \cup {NULL})
    BY <2>1, RemoveFirstElements
  <2>3. call[t].head # << >> => Tail(call[t].head) \in Seq(Url \cup {NULL})
    BY <2>1
  <2>4. list' \in Seq(Url \cup {NULL})
    BY <1>7, <2>2, <2>3 DEF RemoveBad, Unlist
  <2>5. /\ mishaps' \subseteq mishaps \cup { "unlocked removal" } /\ listSem' = listSem
        /\ UNCHANGED << stored, idOf, made, urlOf, requests, restarts, failed, strings, astray,
                        unsaved >>
    BY <1>7 DEF RemoveBad, Unlist
  <2>. QED BY <1>1, <2>4, <2>5 DEF RestOK
<1>8. ASSUME NEW t \in Thread, CreateAction(t) \/ StringAction(t)
      PROVE  RestOK'
  <2>1. PICK c \in Calls, i \in 0 .. MaxContexts : NewContext(t, c, i)
    BY <1>8, CreateActions, StringActions DEF CreateStep, StringStep
  <2>2. made' \in 0 .. MaxContexts /\ made' = made + 1
    BY <1>2, <1>3, <2>1 DEF NewContext
  <2>3. requests' \in 0 .. MaxRequests
    <3>1. requests' = requests \/ (requests < MaxRequests /\ requests' = requests + 1)
      BY <1>8 DEF CreateAction, StringAction, Downloaded, StringCreated, Post, PostString, PostAt,
                  Start
    <3>. QED BY <1>2, <1>3, <3>1
  <2>4. PICK u \in AnyUrl \cup {NULL} : urlOf' = [urlOf EXCEPT ![made + 1] = u]
    <3>1. call[t].url \in AnyUrl \cup {NULL} /\ OwnUrl \subseteq AnyUrl
      BY <1>1 DEF Calls, AnyUrl
    <3>. QED BY <1>8, <3>1 DEF CreateAction, StringAction, Downloaded, StringCreated, Post, PostString,
                               PostAt
  <2>5. urlOf' \in [Context -> AnyUrl \cup {NULL}] /\ idOf' \in [Context -> 0 .. MaxContexts]
    BY <1>1, <2>1, <2>4 DEF RestOK, NewContext
  <2>6. UNCHANGED << list, listSem, stored, restarts, mishaps, failed, unsaved >>
    BY <1>8 DEF CreateAction, StringAction, Downloaded, StringCreated, Post, PostString, PostAt
  <2>7. strings' \subseteq strings \cup { made + 1 } /\ astray' \subseteq astray \cup { call[t].oldId }
    BY <1>8 DEF CreateAction, StringAction, Downloaded, StringCreated, Post, PostString, PostAt
  <2>8. strings' \subseteq 1 .. made'
    <3>1. \A x \in 1 .. made : x \in 1 .. made'
      BY <1>3, <2>2
    <3>2. made + 1 \in 1 .. made'
      BY <1>3, <2>2
    <3>. QED BY <1>1, <2>7, <3>1, <3>2 DEF RestOK
  <2>9. astray' \subseteq 0 .. MaxContexts
    <3>1. call[t].oldId \in 0 .. MaxContexts
      BY <1>1 DEF Calls
    <3>. QED BY <1>1, <2>7, <3>1 DEF RestOK
  <2>. QED BY <1>1, <2>2, <2>3, <2>5, <2>6, <2>8, <2>9 DEF RestOK
<1>9. ASSUME NEW t \in Thread, PersistAction(t)
      PROVE  RestOK'
  <2>1. PICK o \in Context : o = call[t].own
    <3>1. call[t].own \in 1 .. made
      BY <1>9 DEF PersistAction, Persist, PersistFails, LocalsInv, Locals
    <3>. QED BY <1>2, <1>3, <3>1 DEF Context
  <2>2. o \in 0 .. MaxContexts
    BY <1>2 DEF Context
  <2>3. PICK i \in 0 .. MaxContexts : i = Id(o)
    BY <1>1, <2>2 DEF RestOK, Id
  <2>4. /\ idOf' = [idOf EXCEPT ![o] = i]
        /\ stored' = stored \/ stored' = [stored EXCEPT ![i] = IF @ = 0 THEN o ELSE @]
        /\ astray' \subseteq astray \cup {i} /\ unsaved' \subseteq unsaved \cup {o}
        /\ UNCHANGED << list, listSem, made, urlOf, strings, requests, restarts, mishaps, failed >>
    BY <1>9, <2>1, <2>3 DEF PersistAction, Persist, PersistFails
  <2>5. idOf' \in [Context -> 0 .. MaxContexts]
    BY <1>1, <2>4 DEF RestOK
  <2>6. stored' \in [Context -> 0 .. MaxContexts]
    BY <1>1, <2>2, <2>4 DEF RestOK
  <2>7. astray' \subseteq 0 .. MaxContexts /\ unsaved' \subseteq 0 .. MaxContexts
    BY <1>1, <2>2, <2>4 DEF RestOK
  <2>. QED BY <1>1, <2>4, <2>5, <2>6, <2>7 DEF RestOK
<1>10. ASSUME NEW t \in Thread, DeleteFromCache(t)
      PROVE  RestOK'
  <2>1. stored' \in [Context -> 0 .. MaxContexts]
    <3>1. 0 \in 0 .. MaxContexts
      BY <1>2
    <3>. QED BY <1>1, <1>10, <3>1 DEF DeleteFromCache, RestOK
  <2>2. astray' \subseteq 0 .. MaxContexts
    <3>1. PICK left \in SUBSET Hits(call[t].url) : astray' = astray \cup { idOf[cache[s]] : s \in left }
      BY <1>10 DEF DeleteFromCache
    <3>2. ASSUME NEW s \in left PROVE idOf[cache[s]] \in 0 .. MaxContexts
      <4>1. s \in InUse
        BY DEF Hits
      <4>2. cache[s] \in Context
        BY <1>2, <4>1, SlotsInUse DEF Context
      <4>. QED BY <1>1, <4>2 DEF RestOK
    <3>. QED BY <1>1, <3>1, <3>2 DEF RestOK
  <2>. QED BY <1>1, <1>10, <2>1, <2>2 DEF DeleteFromCache, RestOK
<1>11. ASSUME NEW t \in Thread, NEW u \in AnyUrl, Delete(t, u) \/ Use(t, u) \/ Reload(t, u)
      PROVE  RestOK'
  <2>1. requests < MaxRequests /\ requests' = requests + 1
    BY <1>11 DEF Delete, Use, Reload, Start
  <2>2. UNCHANGED << list, listSem, stored, idOf, made, urlOf, restarts, mishaps, failed,
                     strings, astray, unsaved >>
    BY <1>11 DEF Delete, Use, Reload
  <2>3. requests' \in 0 .. MaxRequests
    BY <1>2, <1>3, <2>1
  <2>. QED BY <1>1, <2>2, <2>3 DEF RestOK
<1>12. CASE Restart
  <2>1. restarts' \in 0 .. MaxRestarts
    <3>1. restarts < MaxRestarts /\ restarts' = restarts + 1
      BY <1>12 DEF Restart
    <3>. QED BY <1>2, <1>3, <3>1
  <2>2. list' \in Seq(Url \cup {NULL})
    BY <1>12 DEF Restart
  <2>. QED BY <1>1, <1>12, <2>1, <2>2 DEF Restart, RestOK
<1>. QED
  BY <1>4, <1>5, <1>6, <1>7, <1>8, <1>9, <1>10, <1>11, <1>12
     DEF Next, Work, FromUrl, Insert, AnyUrl, CreateAction, StringAction, PersistAction

\* The first half of a reload: the context in slot s goes into the hand, unless
\* there is another one with its URL.
EvictStep(t, c, s) ==
  /\ call' = [call EXCEPT ![t] = c]
  /\ s \in InUse /\ cache[s] = call[t].old
  /\ cache' = [cache EXCEPT ![s] = 0]
  /\ UNCHANGED << slotIx, stored, idOf, made, mishaps >>
  /\ Grows
  /\ call[t].pc = "evict"
  /\ \/ /\ c.pc = "checkList" /\ Hand(c) = call[t].old /\ c.old = call[t].old
        /\ c.oldId = idOf[c.old]
     \/ c = NoCall /\ idOf[call[t].old] \in astray'

\* The eviction of a reload moves a context from its slot into the hand.
LEMMA EvictActions ==
  ASSUME TypeOK, LocalsInv, NEW t \in Thread, Evict(t)
  PROVE  \E c \in Calls, s \in InUse : EvictStep(t, c, s) /\ Locals(c)
PROOF
<1>. USE DEF listVars, dbVars, ctxVars, bounds, losses
<1>1. call[t] \in Calls /\ Locals(call[t]) /\ call \in [Thread -> Calls] /\ slotIx \in Nat
  BY DEF TypeOK, LocalsInv
<1>2. /\ call[t].pc = "evict" /\ call[t].op = "reload" /\ call[t].old \in 1 .. made
      /\ call[t].url \in Url
  BY <1>1 DEF Evict, Locals
<1>3. UNCHANGED << slotIx, stored, idOf, made, mishaps >> /\ Grows
  BY DEF Evict, Grows
<1>4. PICK s \in InUse :
        /\ cache[s] = call[t].old /\ cache' = [cache EXCEPT ![s] = 0]
        /\ IF Hits(call[t].url) = {s}
             THEN call' = [call EXCEPT ![t].pc = "checkList",
                                       ![t].oldId = idOf[call[t].old]]
             ELSE Return(t) /\ idOf[call[t].old] \in astray'
  BY DEF Evict
<1>5. CASE Hits(call[t].url) = {s}
  <2>1. idOf[call[t].old] \in 0 .. MaxContexts
    <3>1. call[t].old \in Context
      BY <1>2, MadeAreContexts
    <3>. QED BY <3>1 DEF TypeOK
  <2>2. PICK c \in Calls : c = [call[t] EXCEPT !.pc = "checkList", !.oldId = idOf[call[t].old]]
    BY <1>1, <2>1 DEF Calls, Locations
  <2>3. call' = [call EXCEPT ![t] = c]
    BY <1>1, <1>4, <1>5, <2>2
  <2>4. /\ c.pc = "checkList" /\ c.op = "reload" /\ c.url \in Url /\ c.slotNo = call[t].slotNo
        /\ c.old = call[t].old /\ c.oldId = idOf[c.old]
    BY <1>1, <1>2, <2>2 DEF Calls
  <2>5. Hand(c) = call[t].old
    BY <2>4 DEF Hand, FromUrlPoints
  <2>6. Locals(c)
    BY <1>1, <1>2, <2>4 DEF Locals, FromUrlPoints
  <2>. QED BY <1>2, <1>3, <1>4, <2>3, <2>4, <2>5, <2>6 DEF EvictStep
<1>6. CASE Hits(call[t].url) # {s}
  <2>1. PICK c \in Calls : c = NoCall
    BY NoCallType
  <2>2. call' = [call EXCEPT ![t] = c] /\ idOf[call[t].old] \in astray'
    BY <1>4, <1>6, <2>1 DEF Return
  <2>3. Locals(c)
    BY <1>1, <2>1 DEF NoCall, Locals, FromUrlPoints
  <2>. QED BY <1>2, <1>3, <1>4, <2>1, <2>2, <2>3 DEF EvictStep
<1>. QED BY <1>5, <1>6

\* The array that a restart fills: every slot in use holds the context of a
\* document, and no document is in two of them.  Without growth every document
\* is in one.
LoadStep(docs, n) ==
  /\ n = Cardinality(Documents) /\ n \in Nat
  /\ docs \in [1 .. n -> Documents]
  /\ \A i, j \in 1 .. n : docs[i] = docs[j] => i = j
  /\ \A d \in Documents : \E i \in 1 .. n : docs[i] = d
  /\ n <= InitialSlots + SlotsToAdd
  /\ cache' = LoadedCache(docs, n)
  /\ slotIx' = n - IF n > InitialSlots THEN 1 ELSE 0
  /\ mishaps' = IF n > InitialSlots THEN {"growth"} ELSE {}
  /\ call' = [t \in Thread |-> NoCall]
  /\ UNCHANGED << stored, idOf, made, strings >>

\* A restart enumerates the documents of the collection, each one once.
LEMMA RestartLoads ==
  ASSUME TypeOK, Restart
  PROVE  \E n \in Nat : \E docs \in [1 .. n -> Documents] : LoadStep(docs, n)
PROOF
<1>1. IsFiniteSet(Documents)
  <2>1. IsFiniteSet(Context)
    BY FS_Interval, ContextAssumption DEF Context
  <2>. QED BY <2>1, FS_Subset DEF Documents
<1>2. PICK n \in Nat : n = Cardinality(Documents)
  BY <1>1, FS_CardinalityType
<1>3. PICK docs \in SetToSeqs(Documents) : cache' = LoadedCache(docs, Cardinality(Documents))
  BY DEF Restart
<1>4. docs \in [1 .. n -> Documents] /\ \A i, j \in 1 .. n : i # j => docs[i] # docs[j]
  BY <1>2, <1>3 DEF SetToSeqs
<1>5. \A d \in Documents : \E i \in 1 .. n : docs[i] = d
  <2>1. docs \in Injection(1 .. n, Documents)
    BY <1>4 DEF Injection, IsInjective
  <2>2. Cardinality(1 .. n) = n
    BY FS_Interval
  <2>3. docs \in Surjection(1 .. n, Documents)
    BY <1>1, <1>2, <2>1, <2>2, FS_Injection
  <2>. QED BY <2>3 DEF Surjection
<1>. QED BY <1>2, <1>3, <1>4, <1>5 DEF LoadStep, Restart, dbVars, ctxVars

\* Which document is in which slot.
Entry(s, n) == IF s > InitialSlots /\ n > InitialSlots + 1 THEN s + 1 ELSE s

\* The array that orionldContextCacheInit fills from them.
LEMMA LoadedArray ==
  ASSUME TypeOK, NEW n \in Nat, NEW docs \in [1 .. n -> Documents], LoadStep(docs, n)
  PROVE  /\ ArrayOK'
         /\ \A s \in DOMAIN cache' : s \in Nat
         /\ \A s \in DOMAIN cache' : cache'[s] # 0 =>
              Entry(s, n) \in 1 .. n /\ cache'[s] = stored[docs[Entry(s, n)]]
         /\ mishaps' = {} => \A i \in 1 .. n : i \in InUse' /\ cache'[i] = stored[docs[i]]
PROOF
<1>1. InitialSlots \in Nat /\ SlotsToAdd \in Nat /\ MaxContexts \in Nat
  BY ContextAssumption
<1>2. PICK z \in Nat : z = InitialSlots + (IF n > InitialSlots THEN SlotsToAdd ELSE 0)
  BY <1>1
<1>3. cache' = [s \in 1 .. z |-> IF s > LoadedSlots(n) THEN 0 ELSE stored[docs[Entry(s, n)]]]
  BY <1>2 DEF LoadStep, LoadedCache, Entry
<1>4. n <= InitialSlots + SlotsToAdd /\ slotIx' = n - IF n > InitialSlots THEN 1 ELSE 0
  BY DEF LoadStep
<1>5. ASSUME NEW s \in 1 .. z, ~(s > LoadedSlots(n))
      PROVE  Entry(s, n) \in 1 .. n
  BY <1>1, <1>2, <1>5 DEF LoadedSlots, Entry
<1>6. ASSUME NEW i \in 1 .. n
      PROVE  docs[i] \in Context /\ stored[docs[i]] \in 0 .. MaxContexts /\ stored[docs[i]] # 0
  <2>1. docs[i] \in Documents
    OBVIOUS
  <2>2. docs[i] \in Context /\ stored[docs[i]] # 0
    BY <2>1 DEF Documents
  <2>. QED BY <2>2 DEF TypeOK
<1>7. cache' \in [1 .. z -> 0 .. MaxContexts]
  <2>1. 0 \in 0 .. MaxContexts
    BY <1>1
  <2>. QED BY <1>3, <1>5, <1>6, <2>1
<1>8. cache' \in Seq(0 .. MaxContexts) /\ Len(cache') = z /\ DOMAIN cache' = 1 .. z
  BY <1>7, FunctionIsSeq
<1>9. slotIx' \in Nat /\ slotIx' <= z
  BY <1>1, <1>2, <1>4
<1>10. ArrayOK'
  BY <1>8, <1>9 DEF ArrayOK
<1>11. ASSUME NEW s \in DOMAIN cache', cache'[s] # 0
       PROVE  Entry(s, n) \in 1 .. n /\ cache'[s] = stored[docs[Entry(s, n)]]
  <2>1. s \in 1 .. z /\ ~(s > LoadedSlots(n))
    BY <1>3, <1>8, <1>11
  <2>. QED BY <1>3, <1>5, <2>1
<1>12. ASSUME mishaps' = {}, NEW i \in 1 .. n
       PROVE  i \in InUse' /\ cache'[i] = stored[docs[i]]
  <2>1. ~(n > InitialSlots)
    BY <1>12 DEF LoadStep
  <2>2. /\ slotIx' = n /\ n <= z /\ i \in 1 .. z /\ i <= z
        /\ ~(i > LoadedSlots(n)) /\ Entry(i, n) = i
    BY <1>1, <1>2, <1>4, <2>1 DEF LoadedSlots, Entry
  <2>3. cache'[i] = stored[docs[i]]
    BY <1>3, <2>2
  <2>4. cache'[i] # 0
    BY <1>6, <2>3
  <2>5. i \in 1 .. slotIx' /\ i <= Len(cache')
    BY <1>8, <2>2
  <2>. QED BY <2>3, <2>4, <2>5 DEF InUse
<1>13. \A s \in DOMAIN cache' : s \in Nat
  BY <1>8
<1>. QED BY <1>10, <1>11, <1>12, <1>13

\* Every step is of one of these kinds.
LEMMA StepKinds ==
  ASSUME Next
  PROVE  Restart \/ \E t \in Thread : \/ QuietAction(t) \/ CreateAction(t) \/ StringAction(t)
                                      \/ InsertAction(t) \/ PersistAction(t)
                                      \/ DeleteFromCache(t) \/ Evict(t)
  BY DEF Next, Work, FromUrl, Insert, QuietAction, CreateAction, StringAction, InsertAction,
         PersistAction

\* Every step keeps the types and the locals of the calls.
LEMMA TypeStep ==
  ASSUME TypeOK, LocalsInv, IdInv, [Next]_vars
  PROVE  TypeOK' /\ LocalsInv'
PROOF
<1>0. CASE UNCHANGED vars
  BY <1>0 DEF vars, TypeOK, LocalsInv, Locals
<1>. SUFFICES ASSUME Next PROVE ArrayOK' /\ call' \in [Thread -> Calls] /\ LocalsInv'
  BY <1>0, RestStep DEF TypeOK, ArrayOK, RestOK
<1>1. /\ ArrayOK /\ call \in [Thread -> Calls] /\ made \in Nat /\ slotIx \in Nat
      /\ made <= made /\ slotIx <= slotIx /\ idOf \in [Context -> 0 .. MaxContexts]
  <2>1. /\ ArrayOK /\ call \in [Thread -> Calls] /\ slotIx \in Nat
        /\ idOf \in [Context -> 0 .. MaxContexts]
    BY DEF TypeOK, ArrayOK
  <2>2. made \in Nat
    BY MadeAreContexts
  <2>3. made <= made /\ slotIx <= slotIx
    BY <2>1, <2>2
  <2>. QED BY <2>1, <2>2, <2>3
<1>2. ASSUME NEW t \in Thread, NEW c \in Calls, call' = [call EXCEPT ![t] = c], Locals(c),
             slotIx' = slotIx, made' = made, idOf' = idOf
      PROVE  call' \in [Thread -> Calls] /\ LocalsInv'
  <2>1. Locals(c)'
    BY <1>2 DEF Locals
  <2>. QED BY <1>1, <1>2, <2>1, CallStep
<1>3. ASSUME NEW t \in Thread, QuietAction(t)
      PROVE  ArrayOK' /\ call' \in [Thread -> Calls] /\ LocalsInv'
  <2>1. PICK c \in Calls : QuietStep(t, c)
    BY <1>3, QuietActions
  <2>2. call' \in [Thread -> Calls] /\ LocalsInv'
    BY <1>2, <2>1 DEF QuietStep
  <2>. QED BY <1>1, <2>1, <2>2 DEF QuietStep, Grows, ArrayOK
<1>4. ASSUME NEW t \in Thread, CreateAction(t) \/ StringAction(t)
      PROVE  ArrayOK' /\ call' \in [Thread -> Calls] /\ LocalsInv'
  <2>1. PICK c \in Calls, id \in 0 .. MaxContexts : NewContext(t, c, id) /\ Locals(c)'
    BY <1>4, CreateActions, StringActions DEF CreateStep, StringStep
  <2>2. /\ call' = [call EXCEPT ![t] = c] /\ made' = made + 1 /\ slotIx' = slotIx
        /\ idOf' = [idOf EXCEPT ![made + 1] = id]
    BY <2>1 DEF NewContext
  <2>3. made' \in Nat /\ made <= made' /\ slotIx' \in Nat /\ slotIx <= slotIx'
    BY <1>1, <2>2
  <2>4. \A x \in Context : idOf[x] # 0 => idOf'[x] = idOf[x]
    <3>1. ASSUME NEW x \in Context, idOf[x] # 0 PROVE x # made + 1
      <4>1. x \in Nat /\ ~(x > made)
        BY <1>1, <3>1 DEF IdInv, Context
      <4>. QED BY <1>1, <4>1
    <3>. QED BY <1>1, <2>2, <3>1
  <2>5. call' \in [Thread -> Calls] /\ LocalsInv'
    BY <2>1, <2>2, <2>3, <2>4, CallStep
  <2>. QED BY <1>1, <2>1, <2>5 DEF NewContext, ArrayOK
<1>5. ASSUME NEW t \in Thread, InsertAction(t)
      PROVE  ArrayOK' /\ call' \in [Thread -> Calls] /\ LocalsInv'
  <2>1. PICK c \in Calls, s \in Nat : InsertStep(t, c, s) /\ Locals(c)'
    BY <1>5, InsertActions
  <2>2. /\ call' = [call EXCEPT ![t] = c] /\ made' = made /\ slotIx' \in Nat
        /\ slotIx <= slotIx' /\ idOf' = idOf /\ ArrayOK'
    BY <2>1 DEF InsertStep, ArrayStep, ArrayOK
  <2>3. made' \in Nat /\ made <= made'
    BY <1>1, <2>2
  <2>. QED BY <2>1, <2>2, <2>3, CallStep
<1>6. ASSUME NEW t \in Thread, PersistAction(t)
      PROVE  ArrayOK' /\ call' \in [Thread -> Calls] /\ LocalsInv'
  <2>1. PICK c \in Calls : c = NoCall
    BY NoCallType
  <2>2. /\ call' = [call EXCEPT ![t] = c] /\ made' = made /\ slotIx' = slotIx
        /\ cache' = cache /\ mishaps \subseteq mishaps'
    BY <1>6, <2>1 DEF PersistAction, Persist, PersistFails, Return, cacheVars, ctxVars
  <2>3. Locals(c)'
    BY <1>1, <2>1, <2>2 DEF NoCall, Locals, FromUrlPoints
  <2>4. \A x \in Context : idOf[x] # 0 => idOf'[x] = idOf[x]
    BY <1>1, <1>6 DEF PersistAction, Persist, PersistFails, Id
  <2>5. call' \in [Thread -> Calls] /\ LocalsInv'
    BY <1>1, <2>2, <2>3, <2>4, CallStep
  <2>. QED BY <1>1, <2>2, <2>5 DEF ArrayOK
<1>7. ASSUME NEW t \in Thread, DeleteFromCache(t)
      PROVE  ArrayOK' /\ call' \in [Thread -> Calls] /\ LocalsInv'
  <2>1. PICK c \in Calls : c = NoCall
    BY NoCallType
  <2>2. /\ call' = [call EXCEPT ![t] = c] /\ made' = made /\ slotIx' = slotIx
        /\ idOf' = idOf /\ mishaps' = mishaps
    BY <1>7, <2>1 DEF DeleteFromCache, Return, cacheVars, ctxVars, history, losses
  <2>3. Locals(c)
    BY <1>1, <2>1 DEF NoCall, Locals, FromUrlPoints
  <2>4. call' \in [Thread -> Calls] /\ LocalsInv'
    BY <1>2, <2>2, <2>3
  <2>5. cache' \in Seq(0 .. MaxContexts) /\ Len(cache') = Len(cache)
    <3>1. PICK k \in Nat : k = Len(cache) /\ cache \in [1 .. k -> 0 .. MaxContexts]
      BY <1>1, LenProperties DEF ArrayOK
    <3>2. cache' \in [1 .. k -> 0 .. MaxContexts]
      <4>1. 0 \in 0 .. MaxContexts
        BY MadeAreContexts
      <4>2. DOMAIN cache = 1 .. k
        BY <3>1
      <4>. QED BY <1>7, <3>1, <4>1, <4>2 DEF DeleteFromCache
    <3>. QED BY <3>1, <3>2, FunctionIsSeq
  <2>. QED BY <1>1, <2>2, <2>4, <2>5 DEF ArrayOK
<1>8. ASSUME NEW t \in Thread, Evict(t)
      PROVE  ArrayOK' /\ call' \in [Thread -> Calls] /\ LocalsInv'
  <2>1. PICK c \in Calls, s \in InUse : EvictStep(t, c, s) /\ Locals(c)
    BY <1>8, EvictActions
  <2>2. call' \in [Thread -> Calls] /\ LocalsInv'
    BY <1>2, <2>1 DEF EvictStep
  <2>3. cache' \in Seq(0 .. MaxContexts) /\ Len(cache') = Len(cache)
    <3>1. PICK k \in Nat : k = Len(cache) /\ cache \in [1 .. k -> 0 .. MaxContexts]
      BY <1>1, LenProperties DEF ArrayOK
    <3>2. cache' \in [1 .. k -> 0 .. MaxContexts]
      <4>1. 0 \in 0 .. MaxContexts
        BY MadeAreContexts
      <4>. QED BY <2>1, <3>1, <4>1 DEF EvictStep
    <3>. QED BY <3>1, <3>2, FunctionIsSeq
  <2>. QED BY <1>1, <2>1, <2>2, <2>3 DEF EvictStep, ArrayOK
<1>9. CASE Restart
  <2>0. PICK n \in Nat : \E docs \in [1 .. n -> Documents] : LoadStep(docs, n)
    BY <1>9, RestartLoads
  <2>1. PICK docs \in [1 .. n -> Documents] : LoadStep(docs, n)
    BY <2>0
  <2>2. ArrayOK'
    BY <2>1, LoadedArray
  <2>3. call' \in [Thread -> Calls] /\ \A t \in Thread : call'[t] = NoCall
    BY <2>1, NoCallType DEF LoadStep
  <2>4. 0 <= slotIx'
    <3>1. slotIx' \in Nat
      BY <2>2 DEF ArrayOK
    <3>. QED BY <3>1
  <2>5. Locals(NoCall)'
    BY <2>4 DEF Locals, NoCall, FromUrlPoints
  <2>. QED BY <2>2, <2>3, <2>5 DEF LocalsInv
<1>. QED BY <1>3, <1>4, <1>5, <1>6, <1>7, <1>8, <1>9, StepKinds

-----------------------------------------------------------------------------
(***************************************************************************)
(* The ids.                                                                *)
(***************************************************************************)
LEMMA IdInit == Init => IdInv
PROOF
<1>. SUFFICES ASSUME Init PROVE IdInv
  OBVIOUS
<1>1. \A s \in DOMAIN cache : cache[s] <= made
  BY DEF Init
<1>. QED BY <1>1 DEF Init, IdInv

\* What Persist does: the context gets an id, its own number unless it has one,
\* and there is a document with that id, or the database has refused it.
PersistStep(t, o, i) ==
  /\ o = call[t].own /\ o \in 1 .. made /\ call[t].pc = "persist"
  /\ i = IF idOf[o] = 0 THEN o ELSE idOf[o]
  /\ idOf' = [idOf EXCEPT ![o] = i]
  /\ call' = [call EXCEPT ![t] = NoCall]
  /\ UNCHANGED << cache, slotIx, made >>
  /\ Grows
  /\ \/ /\ stored' = [stored EXCEPT ![i] = IF stored[i] = 0 THEN o ELSE stored[i]]
        /\ i \in astray' \/ \E s \in InUse : cache[s] = o
     \/ stored' = stored /\ o \in unsaved'

\* orionldContextCachePersist, in terms of the context o and its id i.
LEMMA PersistActions ==
  ASSUME TypeOK, LocalsInv, NEW t \in Thread, PersistAction(t)
  PROVE  \E o, i \in Context : PersistStep(t, o, i)
PROOF
<1>. USE DEF PersistAction, Persist, PersistFails, cacheVars, ctxVars
<1>1. call[t].own \in 1 .. made /\ call[t].pc = "persist"
  BY DEF LocalsInv, Locals
<1>2. PICK o \in Context : o = call[t].own
  BY <1>1, MadeAreContexts
<1>3. idOf[o] \in 0 .. MaxContexts /\ MaxContexts \in Nat
  BY MadeAreContexts DEF TypeOK
<1>4. PICK i \in Context : i = IF idOf[o] = 0 THEN o ELSE idOf[o]
  BY <1>3 DEF Context
<1>5. i = Id(o) /\ idOf' = [idOf EXCEPT ![o] = i]
  BY <1>2, <1>4 DEF Id
<1>6. /\ call' = [call EXCEPT ![t] = NoCall] /\ UNCHANGED << cache, slotIx, made >> /\ Grows
  BY DEF Return, Grows
<1>7. \/ /\ stored' = [stored EXCEPT ![i] = IF stored[i] = 0 THEN o ELSE stored[i]]
         /\ i \in astray' \/ \E s \in InUse : cache[s] = o
      \/ stored' = stored /\ o \in unsaved'
  BY <1>2, <1>5 DEF TypeOK
<1>8. PersistStep(t, o, i)
  BY <1>1, <1>2, <1>4, <1>5, <1>6, <1>7 DEF PersistStep
<1>. QED BY <1>8

\* Every step keeps the ids and the documents in agreement.
LEMMA IdStep ==
  ASSUME TypeOK, LocalsInv, IdInv, [Next]_vars
  PROVE  IdInv'
PROOF
<1>1. /\ idOf \in [Context -> 0 .. MaxContexts] /\ stored \in [Context -> 0 .. MaxContexts]
      /\ made \in 0 .. MaxContexts /\ MaxContexts \in Nat
  BY MadeAreContexts DEF TypeOK
<1>2. Context = 1 .. MaxContexts
  BY DEF Context
<1>3. cache \in Seq(0 .. MaxContexts) /\ DOMAIN cache = 1 .. Len(cache)
  BY LenProperties DEF TypeOK
<1>4. CASE UNCHANGED << stored, idOf, made, cache >>
  BY <1>4 DEF IdInv
<1>5. ASSUME NEW t \in Thread, QuietAction(t) PROVE IdInv'
  BY <1>4, <1>5, QuietActions DEF QuietStep
<1>6. ASSUME NEW t \in Thread, CreateAction(t) \/ StringAction(t) PROVE IdInv'
  <2>1. PICK k \in Calls, id \in 0 .. MaxContexts : NewContext(t, k, id)
    BY <1>6, CreateActions, StringActions DEF CreateStep, StringStep
  <2>2. PICK m \in Context : m = made + 1
    BY <1>1, <1>2, <2>1 DEF NewContext
  <2>3. idOf' = [idOf EXCEPT ![m] = id] /\ made' = m /\ cache' = cache /\ stored' = stored
    BY <2>1, <2>2 DEF NewContext
  <2>4. \A c \in Context : c > made => idOf[c] = 0
    BY DEF IdInv
  <2>5. idOf[m] = 0
    BY <1>1, <1>2, <2>2, <2>4
  <2>6. id = m \/ id = 0 \/ (id = idOf[call[t].old] /\ call[t].old \in Context)
    <3>1. Locals(call[t]) /\ id \in { call[t].oldId, m }
      BY <2>1, <2>2 DEF NewContext, LocalsInv
    <3>2. call[t].oldId # 0 => call[t].oldId = idOf[call[t].old] /\ call[t].old \in 1 .. made
      BY <3>1 DEF Locals
    <3>. QED BY <3>1, <3>2, MadeAreContexts
  <2>7. \A c \in Context : idOf[c] # 0 => idOf[idOf[c]] = idOf[c] /\ idOf[c] \in Context
    BY <1>1, <1>2 DEF IdInv
  <2>8. \A c \in Context : idOf'[c] = IF c = m THEN id ELSE idOf[c]
    BY <1>1, <2>3
  <2>9. \A c \in Context : c > made' => idOf'[c] = 0
    BY <1>1, <1>2, <2>2, <2>3, <2>4, <2>8
  <2>10. ASSUME NEW c \in Context, idOf'[c] # 0 PROVE idOf'[idOf'[c]] = idOf'[c]
    <3>1. CASE c # m
      BY <2>5, <2>7, <2>8, <2>10, <3>1
    <3>2. CASE c = m /\ id = m
      BY <2>8, <3>2
    <3>3. CASE c = m /\ id # m
      <4>1. id = idOf[call[t].old] /\ call[t].old \in Context /\ idOf'[c] = id
        BY <2>6, <2>8, <2>10, <3>3
      <4>2. id # 0 /\ idOf[id] = id /\ id \in Context
        BY <2>7, <2>10, <4>1
      <4>. QED BY <2>8, <3>3, <4>1, <4>2
    <3>. QED BY <3>1, <3>2, <3>3
  <2>11. ASSUME NEW i \in Context, stored'[i] # 0 PROVE idOf'[stored'[i]] = i
    <3>1. stored'[i] = stored[i] /\ stored[i] \in Context /\ idOf[stored[i]] = i
      BY <1>1, <1>2, <2>3, <2>11 DEF IdInv
    <3>2. i # 0
      BY <1>2
    <3>. QED BY <2>5, <2>8, <3>1, <3>2
  <2>12. ASSUME NEW s \in DOMAIN cache' PROVE cache'[s] <= made'
    <3>1. cache'[s] = cache[s] /\ cache[s] \in 0 .. MaxContexts /\ cache[s] <= made
      BY <1>3, <2>3, ElementOfSeq DEF IdInv
    <3>. QED BY <1>1, <2>2, <2>3, <3>1
  <2>. QED BY <2>9, <2>10, <2>11, <2>12 DEF IdInv
<1>7. ASSUME NEW t \in Thread, InsertAction(t) PROVE IdInv'
  <2>1. PICK c \in Calls, s \in Nat : InsertStep(t, c, s)
    BY <1>7, InsertActions
  <2>2. /\ made' = made /\ idOf' = idOf /\ stored' = stored /\ call[t].own \in 1 .. made
        /\ \A r \in DOMAIN cache' : cache'[r] = call[t].own \/ cache'[r] = 0
                                      \/ (r \in DOMAIN cache /\ cache'[r] = cache[r])
    BY <2>1 DEF InsertStep, ArrayStep
  <2>3. \A r \in DOMAIN cache : cache[r] <= made
    BY DEF IdInv
  <2>4. call[t].own <= made /\ 0 <= made
    BY <1>1, <2>2
  <2>5. \A r \in DOMAIN cache' : cache'[r] <= made'
    BY <2>2, <2>3, <2>4
  <2>. QED BY <2>2, <2>5 DEF IdInv
<1>8. ASSUME NEW t \in Thread, PersistAction(t) PROVE IdInv'
  <2>1. PICK o \in Context, i \in Context : PersistStep(t, o, i)
    BY <1>8, PersistActions
  <2>2. /\ i = IF idOf[o] = 0 THEN o ELSE idOf[o]
        /\ idOf' = [idOf EXCEPT ![o] = i] /\ o \in 1 .. made
        /\ \/ stored' = [stored EXCEPT ![i] = IF stored[i] = 0 THEN o ELSE stored[i]]
           \/ stored' = stored
        /\ cache' = cache /\ made' = made
    BY <2>1 DEF PersistStep
  <2>3. /\ \A c \in Context : idOf'[c] = IF c = o THEN i ELSE idOf[c]
        /\ \A k \in Context : (k = i /\ stored'[k] = o) \/ stored'[k] = stored[k]
    BY <1>1, <2>2
  <2>4. \A c \in Context : idOf[c] # 0 => idOf[idOf[c]] = idOf[c] /\ idOf[c] \in Context
    BY <1>1, <1>2 DEF IdInv
  <2>5. \A c \in Context : c > made' => idOf'[c] = 0
    BY <1>1, <2>2, <2>3 DEF IdInv
  <2>6. ASSUME NEW c \in Context, idOf'[c] # 0 PROVE idOf'[idOf'[c]] = idOf'[c]
    BY <2>2, <2>3, <2>4, <2>6
  <2>7. ASSUME NEW k \in Context, stored'[k] # 0 PROVE idOf'[stored'[k]] = k
    <3>1. stored[k] # 0 => stored[k] \in Context /\ idOf[stored[k]] = k
      BY <1>1, <1>2 DEF IdInv
    <3>2. k # 0
      BY <1>2
    <3>. QED BY <2>2, <2>3, <2>7, <3>1, <3>2
  <2>8. \A s \in DOMAIN cache' : cache'[s] <= made'
    BY <2>2 DEF IdInv
  <2>. QED BY <2>5, <2>6, <2>7, <2>8 DEF IdInv
<1>9. ASSUME NEW t \in Thread, DeleteFromCache(t) \/ Evict(t) PROVE IdInv'
  <2>1. made' = made /\ idOf' = idOf /\ \A i \in Context : stored'[i] = 0 \/ stored'[i] = stored[i]
    BY <1>1, <1>9 DEF DeleteFromCache, Evict, ctxVars, dbVars
  <2>2. DOMAIN cache' = DOMAIN cache /\ \A s \in DOMAIN cache : cache'[s] \in { 0, cache[s] }
    BY <1>3, <1>9 DEF DeleteFromCache, Evict
  <2>3. \A s \in DOMAIN cache : cache[s] <= made /\ 0 <= made
    BY <1>1 DEF IdInv
  <2>4. \A s \in DOMAIN cache' : cache'[s] <= made'
    BY <2>1, <2>2, <2>3
  <2>. QED BY <2>1, <2>4 DEF IdInv
<1>10. CASE Restart
  <2>0. PICK n \in Nat : \E docs \in [1 .. n -> Documents] : LoadStep(docs, n)
    BY <1>10, RestartLoads
  <2>1. PICK docs \in [1 .. n -> Documents] : LoadStep(docs, n)
    BY <2>0
  <2>2. \A s \in DOMAIN cache' : cache'[s] # 0 =>
          Entry(s, n) \in 1 .. n /\ cache'[s] = stored[docs[Entry(s, n)]]
    BY <2>1, LoadedArray
  <2>3. made' = made /\ idOf' = idOf /\ stored' = stored
    BY <2>1 DEF LoadStep
  <2>4. ASSUME NEW s \in DOMAIN cache' PROVE cache'[s] <= made
    <3>1. CASE cache'[s] = 0
      BY <1>1, <3>1
    <3>2. CASE cache'[s] # 0
      <4>1. PICK d \in Documents : cache'[s] = stored[d]
        BY <2>2, <3>2
      <4>2. d \in Context /\ stored[d] # 0
        BY <4>1 DEF Documents
      <4>3. stored[d] \in Context /\ idOf[stored[d]] = d /\ d # 0
        BY <1>1, <1>2, <4>2 DEF IdInv
      <4>4. ~(stored[d] > made)
        BY <4>3 DEF IdInv
      <4>. QED BY <1>1, <1>2, <4>1, <4>3, <4>4
    <3>. QED BY <3>1, <3>2
  <2>. QED BY <2>3, <2>4 DEF IdInv
<1>11. CASE UNCHANGED vars
  BY <1>4, <1>11 DEF vars
<1>. QED BY <1>5, <1>6, <1>7, <1>8, <1>9, <1>10, <1>11, StepKinds

-----------------------------------------------------------------------------
(***************************************************************************)
(* A context, and an id, has one holder.                                   *)
(***************************************************************************)
LEMMA HandsHoldContexts ==
  ASSUME TypeOK, LocalsInv, NEW t \in Thread
  PROVE  Hand(call[t]) # 0 => Hand(call[t]) \in 1 .. made /\ Hand(call[t]) \in Context
PROOF
<1>1. Locals(call[t])
  BY DEF LocalsInv
<1>2. Hand(call[t]) # 0 => Hand(call[t]) \in 1 .. made
  BY <1>1 DEF Locals, Hand
<1>. QED BY <1>2, MadeAreContexts

\* What a slot holds was created.
LEMMA SlotsHoldContexts ==
  ASSUME TypeOK, IdInv
  PROVE  \A s \in DOMAIN cache : cache[s] # 0 => cache[s] \in 1 .. made /\ cache[s] \in Context
PROOF
<1>. SUFFICES ASSUME NEW s \in DOMAIN cache, cache[s] # 0
              PROVE  cache[s] \in 1 .. made /\ cache[s] \in Context
  OBVIOUS
<1>1. cache[s] \in 0 .. MaxContexts
  BY LenProperties, ElementOfSeq DEF TypeOK
<1>2. cache[s] <= made
  BY DEF IdInv
<1>3. made \in 0 .. MaxContexts /\ MaxContexts \in Nat
  BY MadeAreContexts
<1>. QED BY <1>1, <1>2, <1>3 DEF Context

\* The hands after a step of one thread.
LEMMA HandsAfter ==
  ASSUME TypeOK, NEW t \in Thread, NEW c, call' = [call EXCEPT ![t] = c]
  PROVE  \A v \in Thread : /\ call'[v] = IF v = t THEN c ELSE call[v]
                           /\ Hand(call'[v]) = IF v = t THEN Hand(c) ELSE Hand(call[v])
PROOF
<1>1. call \in [Thread -> Calls]
  BY DEF TypeOK
<1>. QED BY <1>1

\* A thread without a call has nothing in hand.
LEMMA NoCallHand == Hand(NoCall) = 0
  BY DEF Hand, NoCall, FromUrlPoints

\* At the start nobody holds anything.
LEMMA HolderInit == Init => HolderInv
  BY NoCallHand DEF Init, HolderInv

\* No step puts a context, or two versions of it, into two places.
LEMMA HolderStep ==
  ASSUME TypeOK, LocalsInv, IdInv, HolderInv, [Next]_vars
  PROVE  HolderInv'
PROOF
<1>1. /\ idOf \in [Context -> 0 .. MaxContexts] /\ made \in 0 .. MaxContexts
      /\ MaxContexts \in Nat /\ call \in [Thread -> Calls]
  BY MadeAreContexts DEF TypeOK
<1>2. CASE UNCHANGED << cache, idOf, call >>
  BY <1>2 DEF HolderInv, Same, Hand
<1>3. ASSUME NEW t \in Thread, QuietAction(t) PROVE HolderInv'
  <2>1. PICK c \in Calls : QuietStep(t, c)
    BY <1>3, QuietActions
  <2>2. \A v \in Thread : Hand(call'[v]) # 0 => Hand(call'[v]) = Hand(call[v])
    <3>1. call' = [call EXCEPT ![t] = c]
      BY <2>1 DEF QuietStep
    <3>2. \A v \in Thread : /\ call'[v] = IF v = t THEN c ELSE call[v]
                            /\ Hand(call'[v]) = IF v = t THEN Hand(c) ELSE Hand(call[v])
      BY <3>1, HandsAfter
    <3>3. Hand(c) \in { Hand(call[t]), 0 }
      BY <2>1 DEF QuietStep
    <3>. QED BY <3>2, <3>3
  <2>3. cache' = cache /\ idOf' = idOf
    BY <2>1 DEF QuietStep
  <2>. QED BY <2>2, <2>3 DEF HolderInv, Same
<1>4. ASSUME NEW t \in Thread, CreateAction(t) PROVE HolderInv'
  <2>1. PICK c \in Calls, id \in 0 .. MaxContexts : CreateStep(t, c, id)
    BY <1>4, CreateActions
  <2>2. PICK m \in Context : m = made + 1 /\ m \notin 1 .. made /\ m # 0
    BY <1>1, <2>1 DEF CreateStep, NewContext, Context
  <2>3. cache' = cache /\ \A x \in Context : idOf'[x] = IF x = m THEN id ELSE idOf[x]
    BY <1>1, <2>1, <2>2 DEF CreateStep, NewContext
  <2>4. Hand(c) = m
    BY <2>1, <2>2 DEF CreateStep, NewContext, Hand
  <2>5. \A v \in Thread : Hand(call'[v]) = IF v = t THEN m ELSE Hand(call[v])
    <3>1. call' = [call EXCEPT ![t] = c]
      BY <2>1 DEF CreateStep, NewContext
    <3>2. \A v \in Thread : /\ call'[v] = IF v = t THEN c ELSE call[v]
                            /\ Hand(call'[v]) = IF v = t THEN Hand(c) ELSE Hand(call[v])
      BY <3>1, HandsAfter
    <3>. QED BY <2>4, <3>2
  <2>6. ASSUME NEW x \in 1 .. made
        PROVE  x \in Context /\ x # m /\ idOf'[x] = idOf[x]
    BY <2>2, <2>3, MadeAreContexts
  <2>7. ASSUME NEW x \in 1 .. made, id # 0, idOf[x] = id
        PROVE  Hand(call[t]) # 0 /\ idOf[Hand(call[t])] = id
    <3>1. id # m
      <4>1. idOf[m] = 0
        BY <1>1, <2>2 DEF IdInv, Context
      <4>2. idOf[id] = id
        BY <2>6, <2>7 DEF IdInv
      <4>. QED BY <2>7, <4>1, <4>2
    <3>2. id = call[t].oldId /\ Hand(call[t]) = call[t].old
      BY <2>1, <2>2, <2>7, <3>1 DEF CreateStep, NewContext
    <3>3. Locals(call[t])
      BY DEF LocalsInv
    <3>4. id = idOf[call[t].old] /\ call[t].old \in 1 .. made
      BY <2>7, <3>2, <3>3 DEF Locals
    <3>. QED BY <3>2, <3>4, MadeAreContexts
  <2>8. \A s \in DOMAIN cache' : cache'[s] # 0 => cache[s] = cache'[s] /\ cache[s] \in 1 .. made
    BY <2>3, SlotsHoldContexts
  <2>9. \A v \in Thread : v # t /\ Hand(call'[v]) # 0 =>
          Hand(call[v]) = Hand(call'[v]) /\ Hand(call[v]) \in 1 .. made
    BY <2>5, HandsHoldContexts
  <2>10. \A s, r \in DOMAIN cache' :
           cache'[s] # 0 /\ cache'[r] # 0 /\ Same(cache[s], cache[r])' => s = r
    BY <2>3, <2>6, <2>8 DEF HolderInv, Same
  <2>11. ASSUME NEW s \in DOMAIN cache', NEW v \in Thread, cache'[s] # 0, Hand(call'[v]) # 0
         PROVE  ~Same(cache[s], Hand(call[v]))'
    <3>1. CASE v # t
      BY <2>3, <2>6, <2>8, <2>9, <2>11, <3>1 DEF HolderInv, Same
    <3>2. CASE v = t
      <4>1. Hand(call'[v]) = m /\ idOf'[m] = id
        BY <2>3, <2>5, <3>2
      <4>2. cache'[s] \in 1 .. made /\ cache'[s] = cache[s] /\ cache[s] # 0 /\ s \in DOMAIN cache
        BY <2>3, <2>8, <2>11
      <4>3. ASSUME id # 0, idOf[cache[s]] = id PROVE FALSE
        <5>1. Hand(call[t]) # 0 /\ idOf[Hand(call[t])] = id
          BY <2>7, <4>2, <4>3
        <5>. QED BY <4>2, <4>3, <5>1 DEF HolderInv, Same
      <4>. QED BY <2>6, <4>1, <4>2, <4>3 DEF Same
    <3>. QED BY <3>1, <3>2
  <2>12. ASSUME NEW v \in Thread, v # t, Hand(call'[v]) # 0
         PROVE  ~Same(Hand(call[t]), Hand(call[v]))' /\ ~Same(Hand(call[v]), Hand(call[t]))'
    <3>1. Hand(call'[t]) = m /\ idOf'[m] = id
      BY <2>3, <2>5
    <3>2. Hand(call'[v]) = Hand(call[v]) /\ Hand(call[v]) \in 1 .. made /\ Hand(call[v]) # 0
      BY <2>9, <2>12
    <3>3. ASSUME id # 0, idOf[Hand(call[v])] = id PROVE FALSE
      <4>1. Hand(call[t]) # 0 /\ idOf[Hand(call[t])] = id
        BY <2>7, <3>2, <3>3
      <4>. QED BY <2>12, <3>2, <3>3, <4>1 DEF HolderInv, Same
    <3>. QED BY <2>6, <3>1, <3>2, <3>3 DEF Same
  <2>13. ASSUME NEW v \in Thread, NEW w \in Thread, v # t, w # t,
                Hand(call'[v]) # 0, Hand(call'[w]) # 0, Same(Hand(call[v]), Hand(call[w]))'
         PROVE  v = w
    BY <2>6, <2>9, <2>13 DEF HolderInv, Same
  <2>. QED BY <2>10, <2>11, <2>12, <2>13 DEF HolderInv
<1>5. ASSUME NEW t \in Thread, InsertAction(t) PROVE HolderInv'
  <2>1. PICK c \in Calls, s \in Nat : InsertStep(t, c, s)
    BY <1>5, InsertActions
  <2>2. \A v \in Thread : /\ call'[v] = IF v = t THEN c ELSE call[v]
                          /\ Hand(call'[v]) = IF v = t THEN Hand(c) ELSE Hand(call[v])
    <3>1. call' = [call EXCEPT ![t] = c]
      BY <2>1 DEF InsertStep
    <3>. QED BY <3>1, HandsAfter
  <2>3. PICK o \in 1 .. made : o = call[t].own /\ o = Hand(call[t]) /\ o # 0
    BY <2>1, MadeAreContexts DEF InsertStep, Hand
  <2>4. /\ idOf' = idOf
        /\ \A r \in DOMAIN cache' :
             cache'[r] = IF r = s THEN o ELSE IF r \in DOMAIN cache THEN cache[r] ELSE 0
    BY <2>1, <2>3 DEF InsertStep, ArrayStep
  <2>5. \A v \in Thread : Hand(call'[v]) # 0 => v # t /\ Hand(call'[v]) = Hand(call[v])
    BY <2>1, <2>2 DEF InsertStep
  <2>6. \A r \in DOMAIN cache' : cache'[r] # 0 /\ r # s => r \in DOMAIN cache /\ cache'[r] = cache[r]
    BY <2>4
  <2>7. ASSUME NEW r \in DOMAIN cache', NEW q \in DOMAIN cache', cache'[r] # 0, cache'[q] # 0,
               Same(cache[r], cache[q])'
        PROVE  r = q
    BY <2>3, <2>4, <2>6, <2>7 DEF HolderInv, Same
  <2>8. ASSUME NEW r \in DOMAIN cache', NEW v \in Thread, cache'[r] # 0, Hand(call'[v]) # 0
        PROVE  ~Same(cache[r], Hand(call[v]))'
    BY <2>3, <2>4, <2>5, <2>6, <2>8 DEF HolderInv, Same
  <2>9. ASSUME NEW w \in Thread, NEW v \in Thread, Hand(call'[w]) # 0, Hand(call'[v]) # 0,
               Same(Hand(call[w]), Hand(call[v]))'
        PROVE  w = v
    BY <2>4, <2>5, <2>9 DEF HolderInv, Same
  <2>. QED BY <2>7, <2>8, <2>9 DEF HolderInv
<1>6. ASSUME NEW t \in Thread, PersistAction(t) PROVE HolderInv'
  <2>1. PICK o \in Context, i \in Context : PersistStep(t, o, i)
    BY <1>6, PersistActions
  <2>2. /\ cache' = cache /\ i = IF idOf[o] = 0 THEN o ELSE idOf[o]
        /\ \A x \in Context : idOf'[x] = IF x = o THEN i ELSE idOf[x]
    BY <1>1, <2>1 DEF PersistStep
  <2>3. \A v \in Thread : Hand(call'[v]) # 0 =>
          Hand(call'[v]) = Hand(call[v]) /\ Hand(call[v]) \in Context
    <3>1. call' = [call EXCEPT ![t] = NoCall]
      BY <2>1 DEF PersistStep
    <3>2. \A v \in Thread : /\ call'[v] = IF v = t THEN NoCall ELSE call[v]
                            /\ Hand(call'[v]) = IF v = t THEN Hand(NoCall) ELSE Hand(call[v])
      BY <3>1, HandsAfter
    <3>. QED BY <3>2, HandsHoldContexts, NoCallHand
  <2>4. ASSUME NEW x \in Context, NEW y \in Context, idOf'[x] # 0, idOf'[x] = idOf'[y]
        PROVE  Same(x, y)
    <3>1. \A z \in Context : idOf[z] # 0 => idOf[idOf[z]] = idOf[z] /\ idOf[z] \in Context
      BY <1>1 DEF IdInv, Context
    <3>. QED BY <2>2, <2>4, <3>1 DEF Same
  <2>5. \A s \in DOMAIN cache : cache[s] # 0 => cache[s] \in Context
    BY SlotsHoldContexts
  <2>6. ASSUME NEW r \in DOMAIN cache', NEW q \in DOMAIN cache', cache'[r] # 0, cache'[q] # 0,
               Same(cache[r], cache[q])'
        PROVE  r = q
    <3>1. Same(cache[r], cache[q])
      BY <2>2, <2>4, <2>5, <2>6 DEF Same
    <3>. QED BY <2>2, <2>6, <3>1 DEF HolderInv
  <2>7. ASSUME NEW r \in DOMAIN cache', NEW v \in Thread, cache'[r] # 0, Hand(call'[v]) # 0,
               Same(cache[r], Hand(call[v]))'
        PROVE  FALSE
    <3>1. Same(cache[r], Hand(call[v]))
      BY <2>2, <2>3, <2>4, <2>5, <2>7 DEF Same
    <3>. QED BY <2>2, <2>3, <2>7, <3>1 DEF HolderInv
  <2>8. ASSUME NEW w \in Thread, NEW v \in Thread, Hand(call'[w]) # 0, Hand(call'[v]) # 0,
               Same(Hand(call[w]), Hand(call[v]))'
        PROVE  w = v
    <3>1. Same(Hand(call[w]), Hand(call[v]))
      BY <2>3, <2>4, <2>8 DEF Same
    <3>. QED BY <2>3, <2>8, <3>1 DEF HolderInv
  <2>. QED BY <2>6, <2>7, <2>8 DEF HolderInv
<1>7. ASSUME NEW t \in Thread, DeleteFromCache(t) PROVE HolderInv'
  <2>1. /\ idOf' = idOf /\ DOMAIN cache' = DOMAIN cache
        /\ \A s \in DOMAIN cache : cache'[s] \in { 0, cache[s] }
    BY <1>7 DEF DeleteFromCache
  <2>2. \A v \in Thread : Hand(call'[v]) # 0 => Hand(call'[v]) = Hand(call[v])
    <3>1. call' = [call EXCEPT ![t] = NoCall]
      BY <1>7 DEF DeleteFromCache, Return
    <3>2. \A v \in Thread : /\ call'[v] = IF v = t THEN NoCall ELSE call[v]
                            /\ Hand(call'[v]) = IF v = t THEN Hand(NoCall) ELSE Hand(call[v])
      BY <3>1, HandsAfter
    <3>. QED BY <3>2, NoCallHand
  <2>. QED BY <2>1, <2>2 DEF HolderInv, Same
<1>8. ASSUME NEW t \in Thread, Evict(t) PROVE HolderInv'
  <2>1. PICK c \in Calls, s \in InUse : EvictStep(t, c, s)
    BY <1>8, EvictActions
  <2>2. s \in DOMAIN cache /\ cache[s] # 0
    BY SlotsInUse
  <2>3. /\ idOf' = idOf /\ DOMAIN cache' = DOMAIN cache
        /\ \A r \in DOMAIN cache : cache'[r] # 0 => r # s /\ cache'[r] = cache[r]
    BY <2>1, <2>2 DEF EvictStep
  <2>4. Hand(c) \in { 0, cache[s] }
    BY <2>1, NoCallHand DEF EvictStep
  <2>5. \A v \in Thread : /\ call'[v] = IF v = t THEN c ELSE call[v]
                          /\ Hand(call'[v]) = IF v = t THEN Hand(c) ELSE Hand(call[v])
    <3>1. call' = [call EXCEPT ![t] = c]
      BY <2>1 DEF EvictStep
    <3>. QED BY <3>1, HandsAfter
  <2>. QED BY <2>2, <2>3, <2>4, <2>5 DEF HolderInv, Same
<1>9. CASE Restart
  <2>0. PICK n \in Nat : \E docs \in [1 .. n -> Documents] : LoadStep(docs, n)
    BY <1>9, RestartLoads
  <2>1. PICK docs \in [1 .. n -> Documents] : LoadStep(docs, n)
    BY <2>0
  <2>2. \A v \in Thread : Hand(call'[v]) = 0
    BY <2>1, NoCallHand DEF LoadStep
  <2>3. idOf' = idOf
    BY <2>1 DEF LoadStep
  <2>4. ASSUME NEW s \in DOMAIN cache', NEW r \in DOMAIN cache', cache'[s] # 0, cache'[r] # 0,
               Same(cache[s], cache[r])'
        PROVE  s = r
    <3>1. /\ s \in Nat /\ r \in Nat
          /\ Entry(s, n) \in 1 .. n /\ cache'[s] = stored[docs[Entry(s, n)]]
          /\ Entry(r, n) \in 1 .. n /\ cache'[r] = stored[docs[Entry(r, n)]]
      BY <2>1, <2>4, LoadedArray
    <3>2. \A d \in Documents : idOf[stored[d]] = d
      BY DEF Documents, IdInv
    <3>3. idOf[cache'[s]] = docs[Entry(s, n)] /\ idOf[cache'[r]] = docs[Entry(r, n)]
      BY <3>1, <3>2
    <3>4. docs[Entry(s, n)] = docs[Entry(r, n)]
      BY <2>3, <2>4, <3>3 DEF Same
    <3>5. Entry(s, n) = Entry(r, n)
      BY <2>1, <3>1, <3>4 DEF LoadStep
    <3>6. InitialSlots \in Nat
      BY ContextAssumption
    <3>. QED BY <3>1, <3>5, <3>6 DEF Entry
  <2>. QED BY <2>2, <2>4 DEF HolderInv
<1>10. CASE UNCHANGED vars
  BY <1>2, <1>10 DEF vars
<1>11. ASSUME NEW t \in Thread, StringAction(t) PROVE HolderInv'
  <2>1. PICK c \in Calls, id \in 0 .. MaxContexts : StringStep(t, c, id)
    BY <1>11, StringActions
  <2>2. PICK m \in Context : m = made + 1 /\ m \notin 1 .. made /\ m # 0
    BY <1>1, <2>1 DEF StringStep, NewContext, Context
  <2>3. cache' = cache /\ \A x \in Context : idOf'[x] = IF x = m THEN id ELSE idOf[x]
    BY <1>1, <2>1, <2>2 DEF StringStep, NewContext
  <2>4. \A v \in Thread : Hand(call'[v]) # 0 => Hand(call'[v]) = Hand(call[v])
    <3>1. call' = [call EXCEPT ![t] = c] /\ Hand(c) = 0
      BY <2>1 DEF StringStep, NewContext
    <3>2. \A v \in Thread : /\ call'[v] = IF v = t THEN c ELSE call[v]
                            /\ Hand(call'[v]) = IF v = t THEN Hand(c) ELSE Hand(call[v])
      BY <3>1, HandsAfter
    <3>. QED BY <3>1, <3>2
  <2>5. \A x \in 1 .. made : idOf'[x] = idOf[x]
    BY <2>2, <2>3, MadeAreContexts
  <2>6. \A s \in DOMAIN cache : cache[s] # 0 => cache[s] \in 1 .. made
    BY SlotsHoldContexts
  <2>7. \A v \in Thread : Hand(call[v]) # 0 => Hand(call[v]) \in 1 .. made
    BY HandsHoldContexts
  <2>8. ASSUME NEW r \in DOMAIN cache', NEW q \in DOMAIN cache', cache'[r] # 0, cache'[q] # 0,
               Same(cache[r], cache[q])'
        PROVE  r = q
    BY <2>3, <2>5, <2>6, <2>8 DEF HolderInv, Same
  <2>9. ASSUME NEW r \in DOMAIN cache', NEW v \in Thread, cache'[r] # 0, Hand(call'[v]) # 0
        PROVE  ~Same(cache[r], Hand(call[v]))'
    BY <2>3, <2>4, <2>5, <2>6, <2>7, <2>9 DEF HolderInv, Same
  <2>10. ASSUME NEW w \in Thread, NEW v \in Thread, Hand(call'[w]) # 0, Hand(call'[v]) # 0,
                Same(Hand(call[w]), Hand(call[v]))'
         PROVE  w = v
    BY <2>4, <2>5, <2>7, <2>10 DEF HolderInv, Same
  <2>. QED BY <2>8, <2>9, <2>10 DEF HolderInv
<1>. QED BY <1>3, <1>4, <1>5, <1>6, <1>7, <1>8, <1>9, <1>10, <1>11, StepKinds

-----------------------------------------------------------------------------
(***************************************************************************)
(* What is in the array, or taken out of it by a reload, is in the         *)
(* database or on its way there.                                           *)
(***************************************************************************)
LEMMA KeptInit == Init => KeptInv
  BY NoCallHand DEF Init, KeptInv

\* It is enough that what was kept still is, and that everything new is.
LEMMA KeptFrom ==
  ASSUME TypeOK', LocalsInv', IdInv',
         \A s \in DOMAIN cache' : \A x \in Context : x = cache'[s] => Kept(x)',
         \A t \in Thread : \A x \in Context :
           x = Hand(call'[t]) /\ x = call'[t].old => Kept(x)'
  PROVE  KeptInv'
PROOF
<1>1. ASSUME NEW s \in DOMAIN cache', cache'[s] # 0 PROVE Kept(cache[s])'
  <2>1. PICK x \in Context : x = cache'[s]
    <3>1. cache' \in Seq(0 .. MaxContexts) /\ MaxContexts \in Nat
      BY ContextAssumption DEF TypeOK
    <3>2. cache'[s] \in 0 .. MaxContexts
      BY <3>1, LenProperties, ElementOfSeq
    <3>. QED BY <1>1, <3>1, <3>2 DEF Context
  <2>. QED BY <2>1 DEF Kept
<1>2. ASSUME NEW t \in Thread, Hand(call'[t]) # 0, Hand(call'[t]) = call'[t].old
      PROVE  Kept(call[t].old)'
  <2>1. PICK x \in Context : x = call'[t].old
    <3>1. call'[t].old \in 0 .. MaxContexts /\ MaxContexts \in Nat
      BY ContextAssumption DEF TypeOK, Calls
    <3>. QED BY <1>2, <3>1 DEF Context
  <2>. QED BY <1>2, <2>1 DEF Kept
<1>. QED BY <1>1, <1>2 DEF KeptInv

\* No step leaves a cached context without its document, or its thread.
LEMMA KeptStep ==
  ASSUME TypeOK, LocalsInv, IdInv, HolderInv, KeptInv, [Next]_vars,
         TypeOK', LocalsInv', IdInv'
  PROVE  KeptInv'
PROOF
<1>1. /\ idOf \in [Context -> 0 .. MaxContexts] /\ stored \in [Context -> 0 .. MaxContexts]
      /\ MaxContexts \in Nat /\ call \in [Thread -> Calls]
  BY MadeAreContexts DEF TypeOK
<1>2. /\ \A s \in DOMAIN cache, x \in Context : x = cache[s] => Kept(x)
      /\ \A t \in Thread, x \in Context : x = Hand(call[t]) /\ x = call[t].old => Kept(x)
  BY DEF KeptInv, Context
<1>3. CASE UNCHANGED << cache, idOf, stored, call, unsaved >>
  BY <1>3 DEF KeptInv, Kept, Hand
<1>4. ASSUME NEW t \in Thread, NEW c, call' = [call EXCEPT ![t] = c], idOf' = idOf,
             stored' = stored, Grows,
             call[t].pc \in { "unlist", "persist" } =>
               c.pc \in { "unlist", "persist" } /\ c.own = call[t].own
      PROVE  \A x \in Context : Kept(x) => Kept(x)'
  <2>1. \A v \in Thread : call'[v] = IF v = t THEN c ELSE call[v]
    BY <1>4, HandsAfter
  <2>. QED BY <1>4, <2>1 DEF Kept, Grows
<1>5. ASSUME NEW t \in Thread, QuietAction(t) PROVE KeptInv'
  <2>1. PICK c \in Calls : QuietStep(t, c)
    BY <1>5, QuietActions
  <2>2. call' = [call EXCEPT ![t] = c] /\ idOf' = idOf /\ stored' = stored /\ cache' = cache
    BY <2>1 DEF QuietStep
  <2>3. \A x \in Context : Kept(x) => Kept(x)'
    BY <1>4, <2>1 DEF QuietStep
  <2>4. \A v \in Thread : /\ call'[v] = IF v = t THEN c ELSE call[v]
                          /\ Hand(call'[v]) = IF v = t THEN Hand(c) ELSE Hand(call[v])
    <3>1. call' = [call EXCEPT ![t] = c]
      BY <2>2
    <3>. QED BY <3>1, HandsAfter
  <2>5. ASSUME NEW v \in Thread, NEW x \in Context, x = Hand(call'[v]), x = call'[v].old
        PROVE  Kept(x)'
    <3>0. x # 0
      BY DEF Context
    <3>1. Hand(c) # 0 => Hand(c) = Hand(call[t]) /\ c.old = call[t].old
      BY <2>1 DEF QuietStep
    <3>2. x = Hand(call[v]) /\ x = call[v].old
      BY <2>4, <2>5, <3>0, <3>1
    <3>. QED BY <1>2, <2>3, <3>2
  <2>6. ASSUME NEW s \in DOMAIN cache', NEW x \in Context, x = cache'[s] PROVE Kept(x)'
    BY <1>2, <2>2, <2>3, <2>6
  <2>. QED BY <2>5, <2>6, KeptFrom
<1>6. ASSUME NEW t \in Thread, CreateAction(t) PROVE KeptInv'
  <2>1. PICK c \in Calls, id \in 0 .. MaxContexts : CreateStep(t, c, id)
    BY <1>6, CreateActions
  <2>2. /\ call' = [call EXCEPT ![t] = c] /\ stored' = stored /\ cache' = cache
        /\ idOf' = [idOf EXCEPT ![made + 1] = id] /\ call[t].pc \notin { "unlist", "persist" }
        /\ Grows
    BY <2>1 DEF CreateStep, NewContext
  <2>3. \A v \in Thread : /\ call'[v] = IF v = t THEN c ELSE call[v]
                          /\ Hand(call'[v]) = IF v = t THEN Hand(c) ELSE Hand(call[v])
    <3>1. call' = [call EXCEPT ![t] = c]
      BY <2>2
    <3>. QED BY <3>1, HandsAfter
  <2>4. ASSUME NEW x \in 1 .. made PROVE x \in Context /\ idOf'[x] = idOf[x]
    <3>1. x # made + 1 /\ x \in Context
      BY MadeAreContexts
    <3>. QED BY <1>1, <2>2, <3>1
  <2>5. \A x \in 1 .. made : Kept(x) => Kept(x)'
    BY <2>2, <2>3, <2>4 DEF Kept, Grows
  <2>6. Hand(c) # c.old
    <3>1. Locals(call[t]) /\ c.old = call[t].old /\ Hand(c) = made + 1 /\ made \in Nat
      BY <2>1, MadeAreContexts DEF LocalsInv, CreateStep, NewContext, Hand
    <3>2. c.old = 0 \/ c.old \in 1 .. made
      BY <3>1 DEF Locals
    <3>. QED BY <3>1, <3>2
  <2>7. ASSUME NEW v \in Thread, NEW x \in Context, x = Hand(call'[v]), x = call'[v].old
        PROVE  Kept(x)'
    <3>1. v # t
      BY <2>3, <2>6, <2>7
    <3>2. x = Hand(call[v]) /\ x = call[v].old
      BY <2>3, <2>7, <3>1
    <3>3. x \in 1 .. made
      <4>1. x # 0
        BY DEF Context
      <4>. QED BY <3>2, <4>1, HandsHoldContexts
    <3>. QED BY <1>2, <2>5, <3>2, <3>3
  <2>8. ASSUME NEW s \in DOMAIN cache', NEW x \in Context, x = cache'[s] PROVE Kept(x)'
    <3>1. x # 0
      BY DEF Context
    <3>2. x \in 1 .. made /\ Kept(x)
      BY <1>2, <2>2, <2>8, <3>1, SlotsHoldContexts
    <3>. QED BY <2>5, <3>2
  <2>. QED BY <2>7, <2>8, KeptFrom
<1>7. ASSUME NEW t \in Thread, InsertAction(t) PROVE KeptInv'
  <2>1. PICK c \in Calls, s \in Nat : InsertStep(t, c, s)
    BY <1>7, InsertActions
  <2>2. /\ call' = [call EXCEPT ![t] = c] /\ idOf' = idOf /\ stored' = stored
        /\ call[t].pc = "insert" /\ Grows
    BY <2>1 DEF InsertStep
  <2>3. \A v \in Thread : /\ call'[v] = IF v = t THEN c ELSE call[v]
                          /\ Hand(call'[v]) = IF v = t THEN Hand(c) ELSE Hand(call[v])
    <3>1. call' = [call EXCEPT ![t] = c]
      BY <2>2
    <3>. QED BY <3>1, HandsAfter
  <2>4. \A x \in Context : Kept(x) => Kept(x)'
    BY <1>4, <2>2
  <2>5. ASSUME NEW v \in Thread, NEW x \in Context, x = Hand(call'[v]), x = call'[v].old
        PROVE  Kept(x)'
    <3>1. Hand(c) = 0 /\ x # 0
      BY <2>1 DEF InsertStep, Context
    <3>2. x = Hand(call[v]) /\ x = call[v].old
      BY <2>3, <2>5, <3>1
    <3>. QED BY <1>2, <2>4, <3>2
  <2>6. ASSUME NEW x \in Context, x = call[t].own PROVE Kept(x)'
    <3>1. CASE call[t].own = call[t].old
      <4>1. x = Hand(call[t]) /\ x = call[t].old
        BY <2>2, <2>6, <3>1 DEF Hand
      <4>. QED BY <1>2, <2>4, <4>1
    <3>2. CASE call[t].own # call[t].old
      <4>1. c.own = x /\ c.pc \in { "unlist", "persist" } /\ call'[t] = c
        BY <2>1, <2>3, <2>6, <3>2 DEF InsertStep
      <4>. QED BY <4>1 DEF Kept
    <3>. QED BY <3>1, <3>2
  <2>7. ASSUME NEW r \in DOMAIN cache', NEW x \in Context, x = cache'[r] PROVE Kept(x)'
    <3>1. x # 0
      BY DEF Context
    <3>2. x = call[t].own \/ (r \in DOMAIN cache /\ x = cache[r])
      BY <2>1, <2>7, <3>1 DEF InsertStep, ArrayStep
    <3>. QED BY <1>2, <2>4, <2>6, <3>2
  <2>. QED BY <2>5, <2>7, KeptFrom
<1>8. ASSUME NEW t \in Thread, PersistAction(t) PROVE KeptInv'
  <2>1. PICK o \in Context, i \in Context : PersistStep(t, o, i)
    BY <1>8, PersistActions
  <2>2. call' = [call EXCEPT ![t] = NoCall] /\ cache' = cache /\ o = call[t].own
    BY <2>1 DEF PersistStep
  <2>3. /\ i = IF idOf[o] = 0 THEN o ELSE idOf[o]
        /\ \A x \in Context : idOf'[x] = IF x = o THEN i ELSE idOf[x]
        /\ \A k \in Context : stored[k] # 0 => stored'[k] # 0
        /\ i # 0 /\ o # 0 /\ (stored'[i] # 0 \/ o \in unsaved') /\ unsaved \subseteq unsaved'
    <3>1. i # 0 /\ o # 0
      BY DEF Context
    <3>2. /\ i = IF idOf[o] = 0 THEN o ELSE idOf[o]
          /\ idOf' = [idOf EXCEPT ![o] = i] /\ unsaved \subseteq unsaved'
          /\ \/ stored' = [stored EXCEPT ![i] = IF stored[i] = 0 THEN o ELSE stored[i]]
             \/ stored' = stored /\ o \in unsaved'
      BY <2>1 DEF PersistStep, Grows
    <3>. QED BY <1>1, <3>1, <3>2
  <2>4. \A v \in Thread : /\ call'[v] = IF v = t THEN NoCall ELSE call[v]
                          /\ Hand(call'[v]) = IF v = t THEN Hand(NoCall) ELSE Hand(call[v])
    <3>1. call' = [call EXCEPT ![t] = NoCall]
      BY <2>2
    <3>. QED BY <3>1, HandsAfter
  <2>5. ASSUME NEW x \in Context, Kept(x) PROVE Kept(x)'
    <3>1. CASE idOf[x] # 0 /\ stored[idOf[x]] # 0
      <4>1. idOf[x] \in Context /\ idOf'[x] = idOf[x]
        BY <1>1, <2>3, <3>1 DEF Context
      <4>. QED BY <2>3, <3>1, <4>1 DEF Kept
    <3>2. ASSUME NEW v \in Thread, call[v].own = x, call[v].pc \in { "unlist", "persist" }
          PROVE  Kept(x)'
      <4>1. CASE v = t
        BY <2>2, <2>3, <3>2, <4>1 DEF Kept
      <4>2. CASE v # t
        BY <2>4, <3>2, <4>2 DEF Kept
      <4>. QED BY <4>1, <4>2
    <3>3. CASE x \in unsaved
      BY <2>3, <3>3 DEF Kept
    <3>. QED BY <2>5, <3>1, <3>2, <3>3 DEF Kept
  <2>6. ASSUME NEW v \in Thread, NEW x \in Context, x = Hand(call'[v]), x = call'[v].old
        PROVE  Kept(x)'
    <3>1. x # 0
      BY DEF Context
    <3>2. x = Hand(call[v]) /\ x = call[v].old
      BY <2>4, <2>6, <3>1, NoCallHand
    <3>. QED BY <1>2, <2>5, <3>2
  <2>7. ASSUME NEW s \in DOMAIN cache', NEW x \in Context, x = cache'[s] PROVE Kept(x)'
    BY <1>2, <2>2, <2>5, <2>7
  <2>. QED BY <2>6, <2>7, KeptFrom
<1>9. ASSUME NEW t \in Thread, DeleteFromCache(t) PROVE KeptInv'
  <2>. DEFINE H == Hits(call[t].url)
  <2>1. /\ call' = [call EXCEPT ![t] = NoCall] /\ idOf' = idOf /\ call[t].pc = "delete"
        /\ DOMAIN cache' = DOMAIN cache
        /\ \A s \in DOMAIN cache : cache'[s] = IF s \in H THEN 0 ELSE cache[s]
        /\ \A i \in Context : (\A s \in H : idOf[cache[s]] # i) => stored'[i] = stored[i]
        /\ unsaved' = unsaved
    BY <1>9 DEF DeleteFromCache, Return
  <2>2. \A s \in H : s \in DOMAIN cache /\ cache[s] # 0
    BY SlotsInUse DEF Hits
  <2>. HIDE DEF H
  <2>3. \A v \in Thread : /\ call'[v] = IF v = t THEN NoCall ELSE call[v]
                          /\ Hand(call'[v]) = IF v = t THEN Hand(NoCall) ELSE Hand(call[v])
    <3>1. call' = [call EXCEPT ![t] = NoCall]
      BY <2>1
    <3>. QED BY <3>1, HandsAfter
  <2>4. ASSUME NEW x \in Context, Kept(x), \A s \in H : ~Same(cache[s], x) PROVE Kept(x)'
    <3>1. CASE idOf[x] # 0 /\ stored[idOf[x]] # 0
      <4>1. idOf[x] \in Context
        BY <1>1, <3>1 DEF Context
      <4>2. \A s \in H : idOf[cache[s]] # idOf[x]
        BY <2>4, <3>1 DEF Same
      <4>. QED BY <2>1, <3>1, <4>1, <4>2 DEF Kept
    <3>2. ASSUME NEW v \in Thread, call[v].own = x, call[v].pc \in { "unlist", "persist" }
          PROVE  Kept(x)'
      BY <2>1, <2>3, <3>2 DEF Kept
    <3>3. CASE x \in unsaved
      BY <2>1, <3>3 DEF Kept
    <3>. QED BY <2>4, <3>1, <3>2, <3>3 DEF Kept
  <2>5. ASSUME NEW v \in Thread, NEW x \in Context, x = Hand(call'[v]), x = call'[v].old
        PROVE  Kept(x)'
    <3>1. x # 0
      BY DEF Context
    <3>2. x = Hand(call[v]) /\ x = call[v].old
      BY <2>3, <2>5, <3>1, NoCallHand
    <3>3. \A s \in H : ~Same(cache[s], x)
      BY <2>2, <3>1, <3>2 DEF HolderInv
    <3>. QED BY <1>2, <2>4, <3>2, <3>3
  <2>6. ASSUME NEW r \in DOMAIN cache', NEW x \in Context, x = cache'[r] PROVE Kept(x)'
    <3>1. x # 0 /\ r \in DOMAIN cache /\ r \notin H /\ x = cache[r]
      BY <2>1, <2>6 DEF Context
    <3>2. \A s \in H : ~Same(cache[s], x)
      BY <2>2, <3>1 DEF HolderInv
    <3>. QED BY <1>2, <2>4, <3>1, <3>2
  <2>. QED BY <2>5, <2>6, KeptFrom
<1>10. ASSUME NEW t \in Thread, Evict(t) PROVE KeptInv'
  <2>1. PICK c \in Calls, s \in InUse : EvictStep(t, c, s)
    BY <1>10, EvictActions
  <2>2. s \in DOMAIN cache /\ cache[s] # 0
    BY SlotsInUse
  <2>3. /\ call' = [call EXCEPT ![t] = c] /\ idOf' = idOf /\ stored' = stored
        /\ call[t].pc = "evict" /\ cache[s] = call[t].old /\ Grows
        /\ DOMAIN cache' = DOMAIN cache
        /\ \A r \in DOMAIN cache : cache'[r] \in { 0, cache[r] }
    BY <2>1 DEF EvictStep
  <2>4. \A v \in Thread : /\ call'[v] = IF v = t THEN c ELSE call[v]
                          /\ Hand(call'[v]) = IF v = t THEN Hand(c) ELSE Hand(call[v])
    <3>1. call' = [call EXCEPT ![t] = c]
      BY <2>3
    <3>. QED BY <3>1, HandsAfter
  <2>5. \A x \in Context : Kept(x) => Kept(x)'
    BY <1>4, <2>3
  <2>6. ASSUME NEW v \in Thread, NEW x \in Context, x = Hand(call'[v]), x = call'[v].old
        PROVE  Kept(x)'
    <3>1. x # 0
      BY DEF Context
    <3>2. CASE v # t
      BY <1>2, <2>4, <2>5, <2>6, <3>2
    <3>3. CASE v = t
      <4>1. Hand(c) = x
        BY <2>4, <2>6, <3>3
      <4>2. x = cache[s]
        BY <2>1, <2>3, <3>1, <4>1, NoCallHand DEF EvictStep
      <4>. QED BY <1>2, <2>2, <2>5, <4>2
    <3>. QED BY <3>2, <3>3
  <2>7. ASSUME NEW r \in DOMAIN cache', NEW x \in Context, x = cache'[r] PROVE Kept(x)'
    <3>1. r \in DOMAIN cache /\ x = cache[r]
      BY <2>3, <2>7 DEF Context
    <3>. QED BY <1>2, <2>5, <3>1
  <2>. QED BY <2>6, <2>7, KeptFrom
<1>11. CASE Restart
  <2>0. PICK n \in Nat : \E docs \in [1 .. n -> Documents] : LoadStep(docs, n)
    BY <1>11, RestartLoads
  <2>1. PICK docs \in [1 .. n -> Documents] : LoadStep(docs, n)
    BY <2>0
  <2>2. /\ idOf' = idOf /\ stored' = stored
        /\ \A v \in Thread : call'[v] = NoCall
    BY <2>1 DEF LoadStep
  <2>3. ASSUME NEW v \in Thread, NEW x \in Context, x = Hand(call'[v]), x = call'[v].old
        PROVE  Kept(x)'
    <3>1. x # 0
      BY DEF Context
    <3>2. x = Hand(NoCall)
      BY <2>2, <2>3
    <3>. QED BY <3>1, <3>2, NoCallHand
  <2>4. ASSUME NEW s \in DOMAIN cache', NEW x \in Context, x = cache'[s] PROVE Kept(x)'
    <3>1. x # 0
      BY DEF Context
    <3>2. PICK d \in Documents : x = stored[d]
      BY <2>1, <2>4, <3>1, LoadedArray
    <3>3. d \in Context /\ d # 0 /\ stored[d] # 0 /\ idOf[x] = d
      BY <3>2 DEF Documents, IdInv, Context
    <3>. QED BY <2>2, <3>3 DEF Kept
  <2>. QED BY <2>3, <2>4, KeptFrom
<1>12. CASE UNCHANGED vars
  BY <1>3, <1>12 DEF vars
<1>13. ASSUME NEW t \in Thread, StringAction(t) PROVE KeptInv'
  <2>1. PICK c \in Calls, id \in 0 .. MaxContexts : StringStep(t, c, id)
    BY <1>13, StringActions
  <2>2. /\ call' = [call EXCEPT ![t] = c] /\ stored' = stored /\ cache' = cache /\ Hand(c) = 0
        /\ idOf' = [idOf EXCEPT ![made + 1] = id] /\ call[t].pc \notin { "unlist", "persist" }
        /\ Grows
    BY <2>1 DEF StringStep, NewContext
  <2>3. \A v \in Thread : /\ call'[v] = IF v = t THEN c ELSE call[v]
                          /\ Hand(call'[v]) = IF v = t THEN Hand(c) ELSE Hand(call[v])
    <3>1. call' = [call EXCEPT ![t] = c]
      BY <2>2
    <3>. QED BY <3>1, HandsAfter
  <2>4. ASSUME NEW x \in 1 .. made PROVE x \in Context /\ idOf'[x] = idOf[x]
    <3>1. x # made + 1 /\ x \in Context
      BY MadeAreContexts
    <3>. QED BY <1>1, <2>2, <3>1
  <2>5. \A x \in 1 .. made : Kept(x) => Kept(x)'
    BY <2>2, <2>3, <2>4 DEF Kept, Grows
  <2>6. ASSUME NEW v \in Thread, NEW x \in Context, x = Hand(call'[v]), x = call'[v].old
        PROVE  Kept(x)'
    <3>1. x # 0
      BY DEF Context
    <3>2. x = Hand(call[v]) /\ x = call[v].old
      BY <2>2, <2>3, <2>6, <3>1
    <3>3. x \in 1 .. made
      BY <3>1, <3>2, HandsHoldContexts
    <3>. QED BY <1>2, <2>5, <3>2, <3>3
  <2>7. ASSUME NEW s \in DOMAIN cache', NEW x \in Context, x = cache'[s] PROVE Kept(x)'
    <3>1. x # 0
      BY DEF Context
    <3>2. x \in 1 .. made /\ Kept(x)
      BY <1>2, <2>2, <2>7, <3>1, SlotsHoldContexts
    <3>. QED BY <2>5, <3>2
  <2>. QED BY <2>6, <2>7, KeptFrom
<1>. QED BY <1>5, <1>6, <1>7, <1>8, <1>9, <1>10, <1>11, <1>12, <1>13, StepKinds

-----------------------------------------------------------------------------
(***************************************************************************)
(* What is in the database is in the array, or in the hand of a reload,    *)
(* unless an unprotected event went wrong, it is a string or went astray.  *)
(***************************************************************************)
LEMMA HomeInit == Init => HomeInv
  BY DEF Init, HomeInv, Expected

\* Where the context of document i is.
InSlot(i) == \E s \in InUse : idOf[cache[s]] = i

InHand(i, t) == Hand(call[t]) # 0 /\ call[t].oldId = i /\ idOf[Hand(call[t])] = i

\* No step leaves a document without its context.
LEMMA HomeStep ==
  ASSUME TypeOK, LocalsInv, IdInv, HolderInv, HomeInv, [Next]_vars
  PROVE  HomeInv'
PROOF
<1>. SUFFICES ASSUME mishaps' \cap Unprotected = {}, NEW i \in Context, stored'[i] # 0,
                     stored'[i] \notin strings', i \notin astray'
              PROVE  InSlot(i)' \/ \E t \in Thread : InHand(i, t)'
  BY DEF HomeInv, Expected, Homed, InSlot, InHand
<1>0. i # 0
  BY DEF Context
<1>1. /\ idOf \in [Context -> 0 .. MaxContexts] /\ stored \in [Context -> 0 .. MaxContexts]
      /\ MaxContexts \in Nat /\ call \in [Thread -> Calls]
  BY MadeAreContexts DEF TypeOK
<1>2. ASSUME Grows, stored'[i] = stored[i]
      PROVE  InSlot(i) \/ \E t \in Thread : InHand(i, t)
  BY <1>2 DEF Grows, HomeInv, Expected, Homed, InSlot, InHand
<1>3. CASE UNCHANGED vars
  BY <1>2, <1>3 DEF vars, Grows, InSlot, InHand, InUse, Hand
<1>4. ASSUME NEW t \in Thread, QuietAction(t)
      PROVE  InSlot(i)' \/ \E v \in Thread : InHand(i, v)'
  <2>1. PICK c \in Calls : QuietStep(t, c)
    BY <1>4, QuietActions
  <2>2. /\ UNCHANGED << cache, slotIx, stored, idOf >> /\ Grows
        /\ Hand(call[t]) # 0 /\ call[t].oldId = i =>
             Hand(c) = Hand(call[t]) /\ c.oldId = call[t].oldId
    BY <2>1 DEF QuietStep
  <2>3. \A v \in Thread : /\ call'[v] = IF v = t THEN c ELSE call[v]
                          /\ Hand(call'[v]) = IF v = t THEN Hand(c) ELSE Hand(call[v])
    <3>1. call' = [call EXCEPT ![t] = c]
      BY <2>1 DEF QuietStep
    <3>. QED BY <3>1, HandsAfter
  <2>4. InSlot(i) => InSlot(i)'
    BY <2>2 DEF InSlot, InUse
  <2>5. ASSUME NEW v \in Thread, InHand(i, v) PROVE InHand(i, v)'
    BY <2>2, <2>3, <2>5 DEF InHand
  <2>. QED BY <1>2, <2>2, <2>4, <2>5
<1>5. ASSUME NEW t \in Thread, CreateAction(t)
      PROVE  InSlot(i)' \/ \E v \in Thread : InHand(i, v)'
  <2>1. PICK c \in Calls, id \in 0 .. MaxContexts : CreateStep(t, c, id)
    BY <1>5, CreateActions
  <2>2. PICK m \in Context : m = made + 1 /\ m \notin 1 .. made /\ m # 0
    BY <1>1, <2>1, MadeAreContexts DEF CreateStep, NewContext, Context
  <2>3. /\ UNCHANGED << cache, slotIx, stored >> /\ Grows
        /\ \A x \in Context : idOf'[x] = IF x = m THEN id ELSE idOf[x]
    BY <1>1, <2>1, <2>2 DEF CreateStep, NewContext
  <2>4. \A x \in 1 .. made : idOf'[x] = idOf[x]
    BY <2>2, <2>3, MadeAreContexts
  <2>5. \A v \in Thread : /\ call'[v] = IF v = t THEN c ELSE call[v]
                          /\ Hand(call'[v]) = IF v = t THEN Hand(c) ELSE Hand(call[v])
    <3>1. call' = [call EXCEPT ![t] = c]
      BY <2>1 DEF CreateStep, NewContext
    <3>2. \A v \in Thread : call'[v] = IF v = t THEN c ELSE call[v]
      BY <1>1, <3>1
    <3>. QED BY <3>2
  <2>6. ASSUME InSlot(i) PROVE InSlot(i)'
    <3>1. PICK s \in InUse : idOf[cache[s]] = i
      BY <2>6 DEF InSlot
    <3>2. cache[s] \in 1 .. made
      BY SlotsInUse, SlotsHoldContexts
    <3>3. InUse' = InUse
      BY <2>3 DEF InUse
    <3>. QED BY <2>3, <2>4, <3>1, <3>2, <3>3 DEF InSlot
  <2>7. ASSUME NEW v \in Thread, InHand(i, v) PROVE InHand(i, v)'
    <3>1. CASE v # t
      <4>1. Hand(call[v]) \in 1 .. made
        BY <2>7, HandsHoldContexts DEF InHand
      <4>. QED BY <2>4, <2>5, <2>7, <3>1, <4>1 DEF InHand
    <3>2. CASE v = t
      <4>1. id = i /\ c.oldId = i
        BY <2>1, <2>7, <3>2 DEF InHand, CreateStep, NewContext
      <4>2. Hand(c) = m
        BY <2>1, <2>2 DEF CreateStep, NewContext, Hand
      <4>. QED BY <2>2, <2>3, <2>5, <3>2, <4>1, <4>2 DEF InHand
    <3>. QED BY <3>1, <3>2
  <2>. QED BY <1>2, <2>3, <2>6, <2>7
<1>6. ASSUME NEW t \in Thread, InsertAction(t)
      PROVE  InSlot(i)' \/ \E v \in Thread : InHand(i, v)'
  <2>1. PICK c \in Calls, s \in Nat : InsertStep(t, c, s)
    BY <1>6, InsertActions
  <2>2. \A v \in Thread : /\ call'[v] = IF v = t THEN c ELSE call[v]
                          /\ Hand(call'[v]) = IF v = t THEN Hand(c) ELSE Hand(call[v])
    <3>1. call' = [call EXCEPT ![t] = c]
      BY <2>1 DEF InsertStep
    <3>. QED BY <3>1, HandsAfter
  <2>3. /\ stored' = stored /\ idOf' = idOf /\ Grows
        /\ s \in InUse' /\ s \notin InUse /\ InUse \subseteq InUse'
        /\ \A r \in DOMAIN cache' :
             cache'[r] = IF r = s THEN call[t].own ELSE IF r \in DOMAIN cache THEN cache[r] ELSE 0
    BY <2>1 DEF InsertStep, ArrayStep, Unprotected
  <2>4. \A r \in InUse : r \in DOMAIN cache
    BY SlotsInUse
  <2>5. \A r \in InUse : cache'[r] = cache[r]
    BY <2>1, <2>3, <2>4 DEF InsertStep, ArrayStep
  <2>6. InSlot(i) => InSlot(i)'
    BY <2>3, <2>5 DEF InSlot
  <2>7. ASSUME NEW v \in Thread, InHand(i, v), v # t PROVE InHand(i, v)'
    BY <2>2, <2>3, <2>7 DEF InHand
  <2>8. ASSUME InHand(i, t) PROVE InSlot(i)'
    <3>1. Hand(call[t]) = call[t].own
      BY <2>1 DEF InsertStep, Hand
    <3>2. cache'[s] = call[t].own
      <4>1. ArrayOK' /\ s \in 1 .. slotIx' /\ s <= Len(cache')
        BY <2>1, <2>3 DEF InsertStep, ArrayStep, InUse
      <4>2. cache' \in Seq(0 .. MaxContexts) /\ slotIx' \in Nat
        BY <4>1 DEF ArrayOK
      <4>3. s \in 1 .. Len(cache') /\ DOMAIN cache' = 1 .. Len(cache')
        BY <4>1, <4>2, LenProperties
      <4>. QED BY <2>3, <4>3
    <3>. QED BY <2>3, <2>8, <3>1, <3>2 DEF InSlot, InHand
  <2>. QED BY <1>2, <2>3, <2>6, <2>7, <2>8
<1>7. ASSUME NEW t \in Thread, PersistAction(t)
      PROVE  InSlot(i)' \/ \E v \in Thread : InHand(i, v)'
  <2>1. PICK o \in Context, k \in Context : PersistStep(t, o, k)
    BY <1>7, PersistActions
  <2>2. \A v \in Thread : /\ call'[v] = IF v = t THEN NoCall ELSE call[v]
                          /\ Hand(call'[v]) = IF v = t THEN Hand(NoCall) ELSE Hand(call[v])
    <3>1. call' = [call EXCEPT ![t] = NoCall]
      BY <2>1 DEF PersistStep
    <3>. QED BY <3>1, HandsAfter
  <2>3. UNCHANGED << cache, slotIx >> /\ Grows /\ call[t].pc = "persist"
    BY <2>1 DEF PersistStep
  <2>4. /\ k = IF idOf[o] = 0 THEN o ELSE idOf[o]
        /\ idOf' = [idOf EXCEPT ![o] = k]
        /\ \/ /\ stored' = [stored EXCEPT ![k] = IF stored[k] = 0 THEN o ELSE stored[k]]
              /\ k \in astray' \/ \E s \in InUse : cache[s] = o
           \/ stored' = stored
    BY <2>1 DEF PersistStep
  <2>5. \A x \in Context : idOf[x] = i => idOf'[x] = i
    BY <1>0, <1>1, <2>4
  <2>6. InUse' = InUse
    BY <2>3 DEF InUse
  <2>7. CASE stored[i] = 0
    <3>1. i = k
      BY <1>1, <2>4, <2>7
    <3>2. PICK s \in InUse : cache[s] = o
      BY <2>4, <2>7, <3>1
    <3>3. idOf'[o] = i
      BY <1>1, <2>4, <3>1
    <3>. QED BY <2>3, <2>6, <3>2, <3>3 DEF InSlot
  <2>8. CASE stored[i] # 0
    <3>1. ASSUME InSlot(i) PROVE InSlot(i)'
      <4>1. PICK s \in InUse : idOf[cache[s]] = i
        BY <3>1 DEF InSlot
      <4>2. cache[s] \in Context
        BY SlotsInUse, SlotsHoldContexts
      <4>. QED BY <2>3, <2>5, <2>6, <4>1, <4>2 DEF InSlot
    <3>2. ASSUME NEW v \in Thread, InHand(i, v) PROVE InHand(i, v)'
      <4>1. v # t
        BY <2>3, <3>2 DEF InHand, Hand, FromUrlPoints
      <4>2. Hand(call[v]) \in Context
        BY <3>2, HandsHoldContexts DEF InHand
      <4>. QED BY <2>2, <2>5, <3>2, <4>1, <4>2 DEF InHand
    <3>3. stored'[i] = stored[i]
      BY <1>1, <2>4, <2>8
    <3>. QED BY <1>2, <2>3, <3>1, <3>2, <3>3
  <2>. QED BY <2>7, <2>8
<1>8. ASSUME NEW t \in Thread, DeleteFromCache(t)
      PROVE  InSlot(i)' \/ \E v \in Thread : InHand(i, v)'
  <2>. DEFINE H == Hits(call[t].url)
  <2>1. /\ call' = [call EXCEPT ![t] = NoCall] /\ idOf' = idOf /\ call[t].pc = "delete"
        /\ slotIx' = slotIx /\ Grows
    BY <1>8 DEF DeleteFromCache, Return, ctxVars, Grows
  <2>2. cache' = [s \in DOMAIN cache |-> IF s \in H THEN 0 ELSE cache[s]]
    BY <1>8 DEF DeleteFromCache
  <2>3. stored'[i] = stored[i] /\ \A s \in H : idOf[cache[s]] # i
    BY <1>8 DEF DeleteFromCache
  <2>. HIDE DEF H
  <2>4. \A v \in Thread : /\ call'[v] = IF v = t THEN NoCall ELSE call[v]
                          /\ Hand(call'[v]) = IF v = t THEN Hand(NoCall) ELSE Hand(call[v])
    <3>1. call' = [call EXCEPT ![t] = NoCall]
      BY <2>1
    <3>. QED BY <3>1, HandsAfter
  <2>5. ASSUME InSlot(i) PROVE InSlot(i)'
    <3>1. PICK s \in InUse : idOf[cache[s]] = i
      BY <2>5 DEF InSlot
    <3>2. s \in DOMAIN cache /\ cache[s] # 0
      BY SlotsInUse
    <3>3. cache'[s] = cache[s]
      BY <2>2, <2>3, <3>1, <3>2
    <3>4. Len(cache') = Len(cache)
      <4>1. PICK n \in Nat : n = Len(cache) /\ DOMAIN cache = 1 .. n
        BY LenProperties DEF TypeOK
      <4>. DEFINE g == [r \in 1 .. n |-> IF r \in H THEN 0 ELSE cache[r]]
      <4>2. cache' = g /\ g \in [1 .. n -> { g[r] : r \in 1 .. n }]
        BY <2>2, <4>1
      <4>. HIDE DEF g
      <4>3. Len(g) = n
        BY <4>2, FunctionIsSeq
      <4>. QED BY <4>1, <4>2, <4>3
    <3>5. s \in InUse'
      BY <2>1, <3>2, <3>3, <3>4 DEF InUse
    <3>. QED BY <2>1, <3>1, <3>3, <3>5 DEF InSlot
  <2>6. ASSUME NEW v \in Thread, InHand(i, v) PROVE InHand(i, v)'
    <3>1. v # t
      BY <2>1, <2>6 DEF InHand, Hand, FromUrlPoints
    <3>. QED BY <2>1, <2>4, <2>6, <3>1 DEF InHand
  <2>. QED BY <1>2, <2>1, <2>3, <2>5, <2>6
<1>9. ASSUME NEW t \in Thread, Evict(t)
      PROVE  InSlot(i)' \/ \E v \in Thread : InHand(i, v)'
  <2>1. PICK c \in Calls, s \in InUse : EvictStep(t, c, s)
    BY <1>9, EvictActions
  <2>2. \A v \in Thread : /\ call'[v] = IF v = t THEN c ELSE call[v]
                          /\ Hand(call'[v]) = IF v = t THEN Hand(c) ELSE Hand(call[v])
    <3>1. call' = [call EXCEPT ![t] = c]
      BY <2>1 DEF EvictStep
    <3>. QED BY <3>1, HandsAfter
  <2>3. /\ call[t].pc = "evict" /\ slotIx' = slotIx /\ stored' = stored /\ idOf' = idOf
        /\ cache' = [cache EXCEPT ![s] = 0] /\ Grows
    BY <2>1 DEF EvictStep
  <2>4. idOf[cache[s]] = i => Hand(c) = cache[s] /\ c.oldId = idOf[cache[s]]
    BY <2>1 DEF EvictStep
  <2>5. s \in DOMAIN cache /\ cache[s] # 0
    BY SlotsInUse
  <2>6. ASSUME NEW r \in InUse, idOf[cache[r]] = i, r # s PROVE InSlot(i)'
    <3>1. r \in DOMAIN cache /\ cache[r] # 0
      BY SlotsInUse
    <3>2. cache'[r] = cache[r]
      BY <2>3, <2>6, <3>1
    <3>3. Len(cache') = Len(cache)
      BY <2>3
    <3>4. r \in InUse'
      BY <2>3, <3>1, <3>2, <3>3 DEF InUse
    <3>. QED BY <2>3, <2>6, <3>2, <3>4 DEF InSlot
  <2>7. ASSUME idOf[cache[s]] = i PROVE InHand(i, t)'
    BY <2>2, <2>3, <2>4, <2>5, <2>7 DEF InHand
  <2>8. ASSUME NEW v \in Thread, InHand(i, v) PROVE InHand(i, v)'
    <3>1. v # t
      BY <2>3, <2>8 DEF InHand, Hand, FromUrlPoints
    <3>. QED BY <2>2, <2>3, <2>8, <3>1 DEF InHand
  <2>. QED BY <1>2, <2>3, <2>4, <2>6, <2>7, <2>8 DEF InSlot
<1>10. CASE Restart
  <2>0. PICK n \in Nat : \E docs \in [1 .. n -> Documents] : LoadStep(docs, n)
    BY <1>10, RestartLoads
  <2>1. PICK docs \in [1 .. n -> Documents] : LoadStep(docs, n)
    BY <2>0
  <2>2. idOf' = idOf /\ stored' = stored /\ mishaps' = {} /\ strings' = strings
    BY <2>1 DEF LoadStep, Unprotected
  <2>3. \A k \in 1 .. n : k \in InUse' /\ cache'[k] = stored[docs[k]]
    BY <2>1, <2>2, LoadedArray
  <2>4. i \in Documents /\ idOf[stored[i]] = i
    BY <2>2 DEF Documents, IdInv
  <2>5. PICK k \in 1 .. n : docs[k] = i
    BY <2>1, <2>4 DEF LoadStep
  <2>. QED BY <2>2, <2>3, <2>4, <2>5 DEF InSlot
<1>11. ASSUME NEW t \in Thread, StringAction(t)
       PROVE  InSlot(i)' \/ \E v \in Thread : InHand(i, v)'
  <2>1. PICK c \in Calls, id \in 0 .. MaxContexts : StringStep(t, c, id)
    BY <1>11, StringActions
  <2>2. PICK m \in Context : m = made + 1 /\ m \notin 1 .. made /\ m # 0
    BY <1>1, <2>1, MadeAreContexts DEF StringStep, NewContext, Context
  <2>3. /\ UNCHANGED << cache, slotIx, stored >> /\ Grows
        /\ \A x \in Context : idOf'[x] = IF x = m THEN id ELSE idOf[x]
        /\ Hand(call[t]) # 0 => call[t].oldId # i
    BY <1>1, <2>1, <2>2 DEF StringStep, NewContext
  <2>4. \A x \in 1 .. made : idOf'[x] = idOf[x]
    BY <2>2, <2>3, MadeAreContexts
  <2>5. \A v \in Thread : /\ call'[v] = IF v = t THEN c ELSE call[v]
                          /\ Hand(call'[v]) = IF v = t THEN Hand(c) ELSE Hand(call[v])
    <3>1. call' = [call EXCEPT ![t] = c]
      BY <2>1 DEF StringStep, NewContext
    <3>2. \A v \in Thread : call'[v] = IF v = t THEN c ELSE call[v]
      BY <1>1, <3>1
    <3>. QED BY <3>2
  <2>6. ASSUME InSlot(i) PROVE InSlot(i)'
    <3>1. PICK s \in InUse : idOf[cache[s]] = i
      BY <2>6 DEF InSlot
    <3>2. cache[s] \in 1 .. made
      BY SlotsInUse, SlotsHoldContexts
    <3>3. InUse' = InUse
      BY <2>3 DEF InUse
    <3>. QED BY <2>3, <2>4, <3>1, <3>2, <3>3 DEF InSlot
  <2>7. ASSUME NEW v \in Thread, InHand(i, v) PROVE InHand(i, v)'
    <3>1. v # t
      BY <2>3, <2>7 DEF InHand
    <3>2. Hand(call[v]) \in 1 .. made
      BY <2>7, HandsHoldContexts DEF InHand
    <3>. QED BY <2>4, <2>5, <2>7, <3>1, <3>2 DEF InHand
  <2>. QED BY <1>2, <2>3, <2>6, <2>7
<1>. QED BY <1>3, <1>4, <1>5, <1>6, <1>7, <1>8, <1>9, <1>10, <1>11, StepKinds

-----------------------------------------------------------------------------
(***************************************************************************)
(* The list of downloads.                                                  *)
(***************************************************************************)
\* The call has put its URL into the list and has not come to the removal.
Loading(c) ==
  /\ c.op # "post"
  /\ c.own # c.old \/ c.pc \notin { "readSlot", "insert" }
  /\ c.pc \in { "download", "removeBad", "readSlot", "insert", "unlist" }

\* The URLs of a list with a new head, and of the rest of a list.
LEMMA ListElements ==
  ASSUME NEW T, NEW s \in Seq(T), Once(s)
  PROVE  /\ \A u \in T : (Fits(u) => u \notin Range(s)) =>
                           /\ Once(<< u >> \o s)
                           /\ FitsIn(<< u >> \o s) = FitsIn(s) \cup { x \in {u} : Fits(x) }
         /\ s # << >> => /\ Once(Tail(s))
                         /\ FitsIn(Tail(s)) = FitsIn(s) \ { Head(s) }
PROOF
<1>1. DOMAIN s = 1 .. Len(s) /\ Len(s) \in Nat
  OBVIOUS
<1>2. ASSUME NEW u \in T, Fits(u) => u \notin Range(s)
      PROVE  /\ Once(<< u >> \o s)
             /\ FitsIn(<< u >> \o s) = FitsIn(s) \cup { x \in {u} : Fits(x) }
  <2>. DEFINE r == << u >> \o s
  <2>1. r \in Seq(T) /\ Len(r) = Len(s) + 1
    OBVIOUS
  <2>2. r[1] = u /\ \A i \in 1 .. Len(s) : r[i + 1] = s[i]
    OBVIOUS
  <2>3. DOMAIN r = 1 .. Len(s) + 1
    BY <2>1, LenProperties
  <2>. HIDE DEF r
  <2>4. \A i \in 2 .. Len(s) + 1 : r[i] = s[i - 1] /\ i - 1 \in 1 .. Len(s)
    <3>. SUFFICES ASSUME NEW i \in 2 .. Len(s) + 1
                  PROVE  r[i] = s[i - 1] /\ i - 1 \in 1 .. Len(s)
      OBVIOUS
    <3>1. i - 1 \in 1 .. Len(s) /\ (i - 1) + 1 = i
      BY <1>1
    <3>. QED BY <2>2, <3>1
  <2>5. \A i \in 1 .. Len(s) : Fits(s[i]) => s[i] # u
    BY <1>1, <1>2 DEF Range
  <2>6. Once(r)
    <3>. SUFFICES ASSUME NEW i \in 1 .. Len(s) + 1, NEW j \in 1 .. Len(s) + 1, r[i] = r[j],
                         Fits(r[i])
                  PROVE  i = j
      BY <2>3 DEF Once
    <3>1. CASE i = 1 /\ j = 1
      BY <3>1
    <3>2. CASE i = 1 /\ j # 1
      <4>1. j \in 2 .. Len(s) + 1
        BY <1>1, <3>2
      <4>. QED BY <2>2, <2>4, <2>5, <3>2, <4>1
    <3>3. CASE i # 1 /\ j = 1
      <4>1. i \in 2 .. Len(s) + 1
        BY <1>1, <3>3
      <4>. QED BY <2>2, <2>4, <2>5, <3>3, <4>1
    <3>4. CASE i # 1 /\ j # 1
      <4>1. i \in 2 .. Len(s) + 1 /\ j \in 2 .. Len(s) + 1
        BY <1>1, <3>4
      <4>2. i - 1 = j - 1
        BY <1>1, <2>4, <4>1 DEF Once
      <4>. QED BY <1>1, <4>1, <4>2
    <3>. QED BY <3>1, <3>2, <3>3, <3>4
  <2>7. ASSUME NEW x \in Range(r) PROVE x \in Range(s) \cup {u}
    <3>1. PICK i \in 1 .. Len(s) + 1 : x = r[i]
      BY <2>3 DEF Range
    <3>2. CASE i = 1
      BY <2>2, <3>1, <3>2
    <3>3. CASE i # 1
      <4>1. i \in 2 .. Len(s) + 1
        BY <1>1, <3>3
      <4>. QED BY <1>1, <2>4, <3>1, <4>1 DEF Range
    <3>. QED BY <3>2, <3>3
  <2>8. ASSUME NEW x \in Range(s) \cup {u} PROVE x \in Range(r)
    <3>1. CASE x = u
      <4>1. 1 \in 1 .. Len(s) + 1
        BY <1>1
      <4>. QED BY <2>2, <2>3, <3>1, <4>1 DEF Range
    <3>2. CASE x \in Range(s)
      <4>1. PICK i \in 1 .. Len(s) : x = s[i]
        BY <1>1, <3>2 DEF Range
      <4>2. i + 1 \in 1 .. Len(s) + 1
        BY <1>1
      <4>. QED BY <2>2, <2>3, <4>1, <4>2 DEF Range
    <3>. QED BY <3>1, <3>2
  <2>9. FitsIn(r) = FitsIn(s) \cup { x \in {u} : Fits(x) }
    BY <2>7, <2>8 DEF FitsIn
  <2>. QED BY <2>6, <2>9 DEF r
<1>3. ASSUME s # << >>
      PROVE  Once(Tail(s)) /\ FitsIn(Tail(s)) = FitsIn(s) \ { Head(s) }
  <2>. DEFINE r == Tail(s)
  <2>1. /\ r \in Seq(T) /\ Len(r) = Len(s) - 1 /\ Head(s) = s[1] /\ Len(s) >= 1
        /\ \A i \in 1 .. Len(s) - 1 : r[i] = s[i + 1]
    BY <1>3
  <2>. HIDE DEF r
  <2>2. DOMAIN r = 1 .. Len(s) - 1
    BY <2>1, LenProperties
  <2>3. \A i \in 1 .. Len(s) - 1 : i + 1 \in 1 .. Len(s) /\ i + 1 # 1
    BY <1>1
  <2>4. Once(r)
    <3>. SUFFICES ASSUME NEW i \in 1 .. Len(s) - 1, NEW j \in 1 .. Len(s) - 1, r[i] = r[j],
                         Fits(r[i])
                  PROVE  i = j
      BY <2>2 DEF Once
    <3>1. i + 1 = j + 1
      BY <1>1, <2>1, <2>3 DEF Once
    <3>. QED BY <3>1
  <2>5. 1 \in 1 .. Len(s)
    BY <1>1, <2>1
  <2>6. ASSUME NEW x \in Range(r), Fits(x) PROVE x \in Range(s) \ { s[1] }
    <3>1. PICK i \in 1 .. Len(s) - 1 : x = s[i + 1]
      BY <2>1, <2>2, <2>6 DEF Range
    <3>2. s[i + 1] # s[1]
      BY <1>1, <2>3, <2>5, <2>6, <3>1 DEF Once
    <3>. QED BY <1>1, <2>3, <3>1, <3>2 DEF Range
  <2>7. ASSUME NEW x \in Range(s) \ { s[1] } PROVE x \in Range(r)
    <3>1. PICK i \in 1 .. Len(s) : x = s[i]
      BY <1>1, <2>7 DEF Range
    <3>2. i # 1
      BY <2>7, <3>1
    <3>3. i - 1 \in 1 .. Len(s) - 1 /\ (i - 1) + 1 = i
      BY <1>1, <3>2
    <3>4. r[i - 1] = s[i]
      BY <2>1, <3>3
    <3>. QED BY <2>2, <3>1, <3>3, <3>4 DEF Range
  <2>8. FitsIn(r) = FitsIn(s) \ { Head(s) }
    BY <2>1, <2>6, <2>7 DEF FitsIn
  <2>. QED BY <2>4, <2>8 DEF r
<1>. QED BY <1>2, <1>3

\* A step of t that leaves the list and the semaphore alone, and neither starts
\* nor ends a download.
ListQuiet(t) ==
  /\ UNCHANGED << list, listSem, failed >> /\ mishaps \subseteq mishaps'
  /\ \A v \in Thread \ {t} : call'[v] = call[v]
  /\ call[t].pc # "mark" /\ call'[t].pc # "mark"
  /\ Loading(call[t])' <=> Loading(call[t])
  /\ Loading(call[t]) => call'[t].url = call[t].url

ListQuietAction(t) ==
  \/ CheckList(t) \/ ParseFails(t) \/ Downloaded(t) \/ StringCached(t) \/ StringCreated(t)
  \/ WaitHit(t) \/ WaitTimeout(t) \/ Insert(t) \/ Persist(t) \/ PersistFails(t)
  \/ DeleteFromCache(t) \/ Evict(t) \/ EvictNothing(t) \/ PutBack(t)
  \/ \E u \in AnyUrl : Delete(t, u)
  \/ \E u \in Url : Use(t, u) \/ Reload(t, u)
  \/ \E u \in OwnUrl : Post(t, u) \/ PostString(t, u)

\* The call of t goes on with c, and so does its download.
LEMMA ListQuietFrom ==
  ASSUME TypeOK, NEW t \in Thread, NEW c, call' = [call EXCEPT ![t] = c],
         UNCHANGED << list, listSem, failed >>, mishaps \subseteq mishaps',
         call[t].pc # "mark", c.pc # "mark",
         Loading(c) <=> Loading(call[t]),
         Loading(call[t]) => c.url = call[t].url
  PROVE  ListQuiet(t)
PROOF
<1>1. call'[t] = c /\ \A v \in Thread \ {t} : call'[v] = call[v]
  BY DEF TypeOK
<1>. QED BY <1>1 DEF ListQuiet, Loading

\* Each action of ListQuietAction is such a step.
LEMMA ListQuietActions ==
  ASSUME TypeOK, LocalsInv, NEW t \in Thread, ListQuietAction(t)
  PROVE  ListQuiet(t)
PROOF
<1>. USE DEF cacheVars, listVars, dbVars, ctxVars, bounds, history, losses
<1>1. call \in [Thread -> Calls] /\ call[t] \in Calls /\ Locals(call[t])
  BY DEF TypeOK, LocalsInv
<1>2. NoCall.pc = "idle" /\ ~Loading(NoCall)
  BY DEF NoCall, Loading
<1>3. CASE CheckList(t)
  <2>. DEFINE c == [call[t] EXCEPT !.pc = IF Listed(call[t].url) THEN "wait" ELSE "lockList"]
  <2>1. call' = [call EXCEPT ![t] = c]
    BY <1>1, <1>3 DEF CheckList, Goto
  <2>2. call[t].pc = "checkList" /\ c.pc \in { "wait", "lockList" }
    BY <1>1, <1>3 DEF CheckList, Calls
  <2>. QED BY <1>3, <2>1, <2>2, ListQuietFrom DEF CheckList, Loading
<1>4. CASE ParseFails(t)
  <2>. DEFINE c == [call[t] EXCEPT !.pc = "removeBad", !.head = list]
  <2>1. call' = [call EXCEPT ![t] = c]
    BY <1>1, <1>4 DEF ParseFails
  <2>2. /\ call[t].pc = "download" /\ c.pc = "removeBad" /\ c.op = call[t].op
        /\ c.url = call[t].url
    BY <1>1, <1>4 DEF ParseFails, Calls
  <2>. QED BY <1>4, <2>1, <2>2, ListQuietFrom DEF ParseFails, Loading
<1>5. CASE Downloaded(t)
  <2>. DEFINE c == [call[t] EXCEPT !.pc = "readSlot", !.own = made + 1]
  <2>1. call' = [call EXCEPT ![t] = c]
    BY <1>1, <1>5 DEF Downloaded
  <2>2. /\ call[t].pc = "download" /\ c.pc = "readSlot" /\ c.op = call[t].op
        /\ c.url = call[t].url /\ c.own = made + 1 /\ c.old = call[t].old
    BY <1>1, <1>5 DEF Downloaded, Calls
  <2>3. c.own # c.old
    <3>1. made \in Nat
      BY MadeAreContexts
    <3>2. call[t].old \in 0 .. made
      BY <1>1, <3>1 DEF Locals
    <3>. QED BY <2>2, <3>1, <3>2
  <2>. QED BY <1>5, <2>1, <2>2, <2>3, ListQuietFrom DEF Downloaded, Loading
<1>6. CASE WaitHit(t) \/ Persist(t) \/ PersistFails(t)
  BY <1>2, <1>6, ListQuietFrom DEF WaitHit, Persist, PersistFails, Return, Loading
<1>7. CASE WaitTimeout(t)
  <2>1. CASE call[t].op # "reload"
    BY <1>2, <1>7, <2>1, ListQuietFrom DEF WaitTimeout, Fail, Return, Loading
  <2>2. CASE call[t].op = "reload"
    <3>. DEFINE c == [call[t] EXCEPT !.pc = "putBack", !.head = << >>]
    <3>1. call' = [call EXCEPT ![t] = c]
      BY <1>1, <1>7, <2>2 DEF WaitTimeout, Fail
    <3>2. call[t].pc = "wait" /\ c.pc = "putBack"
      BY <1>1, <1>7 DEF WaitTimeout, Calls
    <3>. QED BY <1>7, <3>1, <3>2, ListQuietFrom DEF WaitTimeout, Loading
  <2>. QED BY <2>1, <2>2
<1>8. CASE ReadSlot(t)
  <2>. DEFINE c == [call[t] EXCEPT !.pc = "insert", !.slotNo = slotIx]
  <2>1. call' = [call EXCEPT ![t] = c]
    BY <1>1, <1>8 DEF ReadSlot
  <2>2. /\ call[t].pc = "readSlot" /\ c.pc = "insert" /\ c.op = call[t].op
        /\ c.url = call[t].url /\ c.own = call[t].own /\ c.old = call[t].old
    BY <1>1, <1>8 DEF ReadSlot, Calls
  <2>. QED BY <1>8, <2>1, <2>2, ListQuietFrom DEF ReadSlot, Loading
<1>9. CASE InsertNext(t) \/ InsertHole(t) \/ InsertGrow(t)
  <2>1. /\ call[t].pc = "insert" /\ Inserted(t)
        /\ UNCHANGED << list, listSem, failed >> /\ mishaps \subseteq mishaps'
    BY <1>9 DEF InsertNext, InsertHole, InsertGrow
  <2>2. CASE call[t].own = call[t].old
    BY <1>2, <2>1, <2>2, ListQuietFrom DEF Inserted, Return, Loading
  <2>3. CASE call[t].own # call[t].old
    <3>. DEFINE c == [call[t] EXCEPT !.pc = IF call[t].op = "post" THEN "persist" ELSE "unlist",
                                     !.slotNo = 0]
    <3>1. call' = [call EXCEPT ![t] = c]
      BY <1>1, <2>1, <2>3 DEF Inserted
    <3>2. /\ c.pc = IF call[t].op = "post" THEN "persist" ELSE "unlist"
          /\ c.op = call[t].op /\ c.url = call[t].url
      BY <1>1 DEF Calls
    <3>. HIDE DEF c
    <3>3. Loading(c) <=> Loading(call[t])
      BY <2>1, <2>3, <3>2 DEF Loading
    <3>. QED BY <2>1, <3>1, <3>2, <3>3, ListQuietFrom
  <2>. QED BY <2>2, <2>3
<1>10. CASE DeleteFromCache(t) \/ EvictNothing(t)
  BY <1>2, <1>10, ListQuietFrom DEF DeleteFromCache, EvictNothing, Return, Loading
<1>11. CASE Evict(t)
  <2>1. call[t].pc = "evict" /\ UNCHANGED << list, listSem, failed >> /\ mishaps \subseteq mishaps'
    BY <1>11 DEF Evict
  <2>2. CASE Return(t)
    <3>1. call' = [call EXCEPT ![t] = NoCall]
      BY <2>2 DEF Return
    <3>. QED BY <1>2, <2>1, <3>1, ListQuietFrom DEF Loading
  <2>3. CASE call' = [call EXCEPT ![t].pc = "checkList", ![t].oldId = idOf[call[t].old]]
    <3>. DEFINE c == [call[t] EXCEPT !.pc = "checkList", !.oldId = idOf[call[t].old]]
    <3>1. call' = [call EXCEPT ![t] = c]
      BY <1>1, <2>3
    <3>2. c.pc = "checkList"
      BY <1>1 DEF Calls
    <3>. QED BY <2>1, <3>1, <3>2, ListQuietFrom DEF Loading
  <2>. QED BY <1>11, <2>2, <2>3 DEF Evict
<1>12. CASE PutBack(t)
  <2>. DEFINE c == [call[t] EXCEPT !.pc = "readSlot", !.own = call[t].old]
  <2>1. call' = [call EXCEPT ![t] = c]
    BY <1>1, <1>12 DEF PutBack
  <2>2. call[t].pc = "putBack" /\ c.pc = "readSlot" /\ c.own = c.old
    BY <1>1, <1>12 DEF PutBack, Calls
  <2>. QED BY <1>12, <2>1, <2>2, ListQuietFrom DEF PutBack, Loading
<1>13. ASSUME NEW u \in AnyUrl, Delete(t, u) PROVE ListQuiet(t)
  <2>. DEFINE c == [NoCall EXCEPT !.pc = "delete", !.op = "delete", !.url = u]
  <2>1. call' = [call EXCEPT ![t] = c]
    BY <1>13 DEF Delete, Start
  <2>2. call[t].pc = "idle" /\ UNCHANGED << list, listSem, failed, mishaps >>
    BY <1>13 DEF Delete, Start
  <2>3. c.pc # "mark" /\ ~Loading(c)
    BY DEF NoCall, Loading
  <2>. QED BY <2>1, <2>2, <2>3, ListQuietFrom DEF Loading
<1>14. ASSUME NEW u \in Url, Use(t, u) PROVE ListQuiet(t)
  <2>. DEFINE c == [NoCall EXCEPT !.pc = "checkList", !.url = u]
  <2>1. call' = [call EXCEPT ![t] = c]
    BY <1>14 DEF Use, Start
  <2>2. call[t].pc = "idle" /\ UNCHANGED << list, listSem, failed, mishaps >>
    BY <1>14 DEF Use, Start
  <2>3. c.pc # "mark" /\ ~Loading(c)
    BY DEF NoCall, Loading
  <2>. QED BY <2>1, <2>2, <2>3, ListQuietFrom DEF Loading
<1>15. ASSUME NEW u \in Url, Reload(t, u) PROVE ListQuiet(t)
  <2>1. PICK s \in InUse : call' = [call EXCEPT ![t] = [NoCall EXCEPT !.pc = "evict", !.op = "reload",
                                                        !.url = u, !.old = cache[s]]]
    BY <1>15 DEF Reload, Start
  <2>. DEFINE c == [NoCall EXCEPT !.pc = "evict", !.op = "reload", !.url = u, !.old = cache[s]]
  <2>2. call[t].pc = "idle" /\ UNCHANGED << list, listSem, failed, mishaps >>
    BY <1>15 DEF Reload, Start
  <2>3. c.pc # "mark" /\ ~Loading(c)
    BY DEF NoCall, Loading
  <2>. QED BY <2>1, <2>2, <2>3, ListQuietFrom DEF Loading
<1>16. ASSUME NEW u \in OwnUrl, Post(t, u) \/ PostString(t, u) PROVE ListQuiet(t)
  <2>1. PICK l \in { "readSlot", "persist" } : PostAt(t, u, l)
    BY <1>16 DEF Post, PostString
  <2>. DEFINE c == [NoCall EXCEPT !.pc = l, !.op = "post", !.url = u, !.own = made + 1]
  <2>2. call' = [call EXCEPT ![t] = c]
    BY <2>1 DEF PostAt, Start
  <2>3. call[t].pc = "idle" /\ UNCHANGED << list, listSem, failed, mishaps >>
    BY <2>1 DEF PostAt, Start
  <2>4. c.pc # "mark" /\ ~Loading(c)
    BY DEF NoCall, Loading
  <2>. QED BY <2>2, <2>3, <2>4, ListQuietFrom DEF Loading
<1>17. CASE StringCached(t) \/ StringCreated(t)
  <2>1. PICK o : call' = [call EXCEPT ![t].pc = "unlist", ![t].own = o]
    BY <1>17 DEF StringCached, StringCreated
  <2>. DEFINE c == [call[t] EXCEPT !.pc = "unlist", !.own = o]
  <2>2. call' = [call EXCEPT ![t] = c]
    BY <1>1, <2>1
  <2>3. /\ call[t].pc = "download" /\ UNCHANGED << list, listSem, failed, mishaps >>
    BY <1>17 DEF StringCached, StringCreated
  <2>4. c.pc = "unlist" /\ c.op = call[t].op /\ c.url = call[t].url
    BY <1>1 DEF Calls
  <2>. QED BY <2>2, <2>3, <2>4, ListQuietFrom DEF Loading
<1>. QED
  BY <1>3, <1>4, <1>5, <1>6, <1>7, <1>8, <1>9, <1>10, <1>11, <1>12, <1>13, <1>14, <1>15, <1>16,
     <1>17
  DEF ListQuietAction, Insert

-----------------------------------------------------------------------------
(***************************************************************************)
(* The other steps: those of the list.                                     *)
(***************************************************************************)
ListAction(t) == LockList(t) \/ Mark(t) \/ DownloadFails(t) \/ RemoveBad(t) \/ Unlist(t)

\* Every step is of one of these kinds.
LEMMA ListStepKinds ==
  ASSUME Next
  PROVE  Restart \/ \E t \in Thread : ListQuietAction(t) \/ ListAction(t)
  BY DEF Next, Work, FromUrl, ListQuietAction, ListAction

\* LockList either waits or takes the semaphore.
Taken(t) ==
  /\ call[t].pc = "lockList" /\ listSem = 1 /\ listSem' = 0
  /\ UNCHANGED << list, failed, mishaps >>
  /\ \A v \in Thread \ {t} : call'[v] = call[v]
  /\ call'[t].pc = "mark" /\ call'[t].url = call[t].url /\ call'[t].head = list
  /\ call[t].url \notin Range(list)

\* LockList does one or the other.
LEMMA LockListSteps ==
  ASSUME TypeOK, NEW t \in Thread, LockList(t)
  PROVE  ListQuiet(t) \/ Taken(t)
PROOF
<1>. USE DEF listVars, history, losses
<1>1. call \in [Thread -> Calls] /\ call[t] \in Calls
  BY DEF TypeOK
<1>2. CASE Listed(call[t].url)
  <2>. DEFINE c == [call[t] EXCEPT !.pc = "wait"]
  <2>1. call' = [call EXCEPT ![t] = c]
    BY <1>1, <1>2 DEF LockList, Goto
  <2>2. call[t].pc = "lockList" /\ c.pc = "wait" /\ UNCHANGED << list, listSem, failed, mishaps >>
    BY <1>1, <1>2 DEF LockList, Calls
  <2>. QED BY <2>1, <2>2, ListQuietFrom DEF Loading
<1>3. CASE ~Listed(call[t].url)
  <2>. DEFINE c == [call[t] EXCEPT !.pc = "mark", !.head = list]
  <2>1. call' = [call EXCEPT ![t] = c]
    BY <1>1, <1>3 DEF LockList
  <2>2. c.pc = "mark" /\ c.url = call[t].url /\ c.head = list
    BY <1>1 DEF Calls
  <2>3. call'[t] = c /\ \A v \in Thread \ {t} : call'[v] = call[v]
    BY <1>1, <2>1
  <2>. QED BY <1>3, <2>2, <2>3 DEF LockList, Taken, Listed
<1>. QED BY <1>2, <1>3

Marked(t) ==
  /\ call[t].pc = "mark" /\ listSem' = 1
  /\ \E n \in NamesOf(call[t].url) : list' = << n >> \o call[t].head
  /\ failed' = failed /\ mishaps \subseteq mishaps'
  /\ "unlocked removal" \notin mishaps' => list = call[t].head
  /\ \A v \in Thread \ {t} : call'[v] = call[v]
  /\ call'[t].pc = "download" /\ call'[t].url = call[t].url /\ Loading(call[t])'

\* contextDownloadListAdd writes the list it has read, with what it keeps of the
\* URL in front.
LEMMA MarkSteps ==
  ASSUME TypeOK, LocalsInv, NEW t \in Thread, Mark(t)
  PROVE  Marked(t)
PROOF
<1>1. call \in [Thread -> Calls] /\ call[t] \in Calls /\ Locals(call[t])
  BY DEF TypeOK, LocalsInv
<1>. DEFINE c == [call[t] EXCEPT !.pc = "download", !.head = << >>]
<1>2. call' = [call EXCEPT ![t] = c]
  BY <1>1 DEF Mark
<1>3. c.pc = "download" /\ c.url = call[t].url /\ c.op = call[t].op
  BY <1>1 DEF Calls
<1>4. call'[t] = c /\ \A v \in Thread \ {t} : call'[v] = call[v]
  BY <1>1, <1>2
<1>5. call[t].op # "post"
  BY <1>1 DEF Mark, Locals, FromUrlPoints
<1>6. Loading(call[t])'
  BY <1>3, <1>4, <1>5 DEF Loading
<1>. QED BY <1>3, <1>4, <1>6 DEF Mark, Marked

\* The end of a download: the URL is left in the list, as a failure, or taken
\* out of it.
Ended(t) ==
  /\ Loading(call[t]) /\ call[t].url \in Url /\ call[t].pc # "mark"
  /\ listSem' = listSem /\ mishaps \subseteq mishaps'
  /\ \A v \in Thread \ {t} : call'[v] = call[v]
  /\ call'[t].pc # "mark" /\ ~Loading(call[t])'

\* An error return of orionldContextFromUrl is the end of the download.
LEMMA FailEnds ==
  ASSUME TypeOK, NEW t \in Thread, Fail(t)
  PROVE  /\ \A v \in Thread \ {t} : call'[v] = call[v]
         /\ call'[t].pc # "mark" /\ ~Loading(call[t])'
PROOF
<1>1. call \in [Thread -> Calls] /\ call[t] \in Calls
  BY DEF TypeOK
<1>2. CASE call[t].op # "reload"
  <2>1. call' = [call EXCEPT ![t] = NoCall]
    BY <1>2 DEF Fail, Return
  <2>2. call'[t] = NoCall /\ \A v \in Thread \ {t} : call'[v] = call[v]
    BY <1>1, <2>1
  <2>3. NoCall.pc = "idle"
    BY DEF NoCall
  <2>. QED BY <2>2, <2>3 DEF Loading
<1>3. CASE call[t].op = "reload"
  <2>. DEFINE c == [call[t] EXCEPT !.pc = "putBack", !.head = << >>]
  <2>1. call' = [call EXCEPT ![t] = c]
    BY <1>1, <1>3 DEF Fail
  <2>2. c.pc = "putBack"
    BY <1>1 DEF Calls
  <2>3. call'[t] = c /\ \A v \in Thread \ {t} : call'[v] = call[v]
    BY <1>1, <2>1
  <2>. QED BY <2>2, <2>3 DEF Loading
<1>. QED BY <1>2, <1>3

\* The three ways in which a download ends.
LEMMA EndSteps ==
  ASSUME TypeOK, LocalsInv, NEW t \in Thread,
         DownloadFails(t) \/ RemoveBad(t) \/ Unlist(t)
  PROVE  /\ Ended(t)
         /\ \/ list' = list /\ failed' = failed \cup { call[t].url }
            \/ /\ failed' = failed
               /\ "unlocked removal" \notin mishaps' /\ Once(list) =>
                    /\ Once(list')
                    /\ FitsIn(list') = FitsIn(list) \ { call[t].url }
PROOF
<1>. USE DEF listVars, history, losses
<1>1. call \in [Thread -> Calls] /\ call[t] \in Calls /\ Locals(call[t]) /\ list \in Seq(Url \cup {NULL})
  BY DEF TypeOK, LocalsInv
<1>2. /\ call[t].pc \in { "download", "removeBad", "unlist" }
      /\ listSem' = listSem /\ mishaps \subseteq mishaps'
  BY DEF DownloadFails, RemoveBad, Unlist
<1>3. Loading(call[t]) /\ call[t].url \in Url /\ call[t].pc # "mark"
  BY <1>1, <1>2 DEF Locals, FromUrlPoints, Loading
<1>4. CASE DownloadFails(t)
  <2>1. Ended(t)
    BY <1>2, <1>3, <1>4, FailEnds DEF DownloadFails, Ended
  <2>. QED BY <1>4, <2>1 DEF DownloadFails
<1>5. CASE RemoveBad(t)
  <2>1. Ended(t) /\ failed' = failed
    BY <1>2, <1>3, <1>5, FailEnds DEF RemoveBad, Ended
  <2>2. ASSUME "unlocked removal" \notin mishaps', Once(list)
        PROVE  Once(list') /\ FitsIn(list') = FitsIn(list) \ { call[t].url }
    <3>1. CASE call[t].head # << >> /\ Head(call[t].head) = call[t].url
      <4>1. list = call[t].head /\ list' = Tail(list)
        BY <1>5, <2>2, <3>1 DEF RemoveBad
      <4>. QED BY <1>1, <2>2, <3>1, <4>1, ListElements
    <3>2. CASE ~(call[t].head # << >> /\ Head(call[t].head) = call[t].url)
      <4>1. list' = RemoveFirst(list, call[t].url)
        BY <1>5, <3>2 DEF RemoveBad
      <4>. QED BY <1>1, <2>2, <4>1, RemoveFirstElements
    <3>. QED BY <3>1, <3>2
  <2>. QED BY <2>1, <2>2
<1>6. CASE Unlist(t)
  <2>. DEFINE c == [call[t] EXCEPT !.pc = "persist"]
  <2>1. call' = [call EXCEPT ![t] = c]
    BY <1>1, <1>6 DEF Unlist, Goto
  <2>2. c.pc = "persist"
    BY <1>1 DEF Calls
  <2>3. call'[t] = c /\ \A v \in Thread \ {t} : call'[v] = call[v]
    BY <1>1, <2>1
  <2>4. Ended(t)
    BY <1>2, <1>3, <2>2, <2>3 DEF Ended, Loading
  <2>5. list' = RemoveFirst(list, call[t].url) /\ failed' = failed
    BY <1>6 DEF Unlist
  <2>. QED BY <1>1, <2>4, <2>5, RemoveFirstElements
<1>. QED BY <1>4, <1>5, <1>6

-----------------------------------------------------------------------------
\* At the start the semaphore of the list is free.
LEMMA SemInit == Init => SemInv
  BY DEF Init, SemInv, NoCall

\* At most one thread has the semaphore of the list across two steps.
LEMMA SemStep ==
  ASSUME TypeOK, LocalsInv, SemInv, [Next]_vars
  PROVE  SemInv'
PROOF
<1>1. ASSUME NEW t \in Thread, ListQuiet(t) \/ Ended(t) PROVE SemInv'
  <2>1. /\ listSem' = listSem /\ call[t].pc # "mark" /\ call'[t].pc # "mark"
        /\ \A v \in Thread \ {t} : call'[v] = call[v]
    BY <1>1 DEF ListQuiet, Ended
  <2>. QED BY <2>1 DEF SemInv
<1>2. ASSUME NEW t \in Thread, ListAction(t) PROVE SemInv'
  <2>1. CASE Taken(t)
    BY <2>1 DEF SemInv, Taken
  <2>2. CASE Marked(t)
    BY <2>2 DEF SemInv, Marked
  <2>. QED BY <1>1, <1>2, <2>1, <2>2, LockListSteps, MarkSteps, EndSteps DEF ListAction
<1>3. CASE Restart
  BY <1>3 DEF Restart, SemInv, NoCall
<1>4. CASE UNCHANGED vars
  BY <1>4 DEF vars, SemInv
<1>. QED BY <1>1, <1>2, <1>3, <1>4, ListStepKinds, ListQuietActions

\* The empty list.
LEMMA EmptyList ==
  ASSUME NEW e, e = << >>
  PROVE  Once(e) /\ Range(e) = {} /\ FitsIn(e) = {}
  BY DEF Once, Range, FitsIn

\* At the start the list is empty and nobody downloads.
LEMMA MarkInit == Init => MarkInv
PROOF
<1>. SUFFICES ASSUME Init PROVE MarkInv
  OBVIOUS
<1>1. /\ list = << >> /\ Once(list) /\ Range(list) = {}
      /\ \A t \in Thread : call[t] = NoCall
  BY EmptyList DEF Init
<1>2. NoCall.pc = "idle"
  BY DEF NoCall
<1>. QED BY <1>1, <1>2 DEF MarkInv, MarksMatchDownloads, Downloading

\* MarkInv, in terms of the threads that download a URL that fits.
Loaders == { t \in Thread : Loading(call[t]) /\ Fits(call[t].url) }

Marks ==
  /\ Once(list)
  /\ \A t \in Thread : call[t].pc = "mark" => call[t].url \notin Range(call[t].head)
  /\ \A t \in Loaders : call[t].url \in FitsIn(list)
  /\ \A t, v \in Loaders : call[t].url = call[v].url => t = v
  /\ \A u \in FitsIn(list) : u \in failed \/ \E t \in Loaders : call[t].url = u

\* MarkInv, read this way before a step ...
LEMMA MarksBefore ==
  ASSUME LocalsInv, MarkInv, "unlocked removal" \notin mishaps
  PROVE  Marks
PROOF
<1>1. /\ Once(list)
      /\ \A t \in Thread : call[t].pc = "mark" => call[t].url \notin Range(call[t].head)
      /\ \A t \in Thread, u \in Url : Fits(u) /\ Downloading(t, u) => u \in Range(list)
      /\ \A t, v \in Thread, u \in Url :
           Fits(u) /\ Downloading(t, u) /\ Downloading(v, u) => t = v
      /\ \A u \in Range(list) : Fits(u) => u \in failed \/ \E t \in Thread : Downloading(t, u)
  BY DEF MarkInv, MarksMatchDownloads
<1>2. \A t \in Loaders :
        t \in Thread /\ call[t].url \in Url /\ Fits(call[t].url) /\ Downloading(t, call[t].url)
  BY DEF Loaders, Loading, LocalsInv, Locals, FromUrlPoints, Downloading
<1>4. \A t \in Loaders : call[t].url \in FitsIn(list)
  BY <1>1, <1>2 DEF FitsIn
<1>5. \A t, v \in Loaders : call[t].url = call[v].url => t = v
  <2>. SUFFICES ASSUME NEW t \in Loaders, NEW v \in Loaders, call[t].url = call[v].url
                PROVE  t = v
    OBVIOUS
  <2>1. PICK u \in Url : u = call[t].url
    BY <1>2
  <2>2. t \in Thread /\ v \in Thread /\ Fits(u) /\ Downloading(t, u) /\ Downloading(v, u)
    BY <1>2, <2>1
  <2>. QED BY <1>1, <2>2
<1>6. \A u \in FitsIn(list) : u \in failed \/ \E t \in Loaders : call[t].url = u
  <2>. SUFFICES ASSUME NEW u \in FitsIn(list), u \notin failed
                PROVE  \E t \in Loaders : call[t].url = u
    OBVIOUS
  <2>1. u \in Range(list) /\ Fits(u)
    BY DEF FitsIn
  <2>2. PICK t \in Thread : Downloading(t, u)
    BY <1>1, <2>1
  <2>3. t \in Loaders /\ call[t].url = u
    BY <2>1, <2>2 DEF Loaders, Loading, Downloading
  <2>. QED BY <2>3
<1>. QED BY <1>1, <1>4, <1>5, <1>6 DEF Marks

\* ... and after it.
LEMMA MarksAfter == ("unlocked removal" \notin mishaps => Marks) => MarkInv
PROOF
<1>. SUFFICES ASSUME "unlocked removal" \notin mishaps, Marks PROVE MarkInv
  BY DEF MarkInv
<1>1. \A t \in Thread : \A u : Fits(u) =>
        (Downloading(t, u) <=> t \in Loaders /\ call[t].url = u)
  BY DEF Loaders, Loading, Downloading
<1>2. \A t \in Loaders : t \in Thread
  BY DEF Loaders
<1>3. ASSUME NEW t \in Thread, NEW u \in Url, Fits(u), Downloading(t, u)
      PROVE  u \in Range(list)
  <2>1. t \in Loaders /\ call[t].url = u
    BY <1>1, <1>3
  <2>. QED BY <2>1 DEF Marks, FitsIn
<1>4. ASSUME NEW t \in Thread, NEW v \in Thread, NEW u \in Url, Fits(u), Downloading(t, u),
             Downloading(v, u)
      PROVE  t = v
  <2>1. t \in Loaders /\ v \in Loaders /\ call[t].url = u /\ call[v].url = u
    BY <1>1, <1>4
  <2>. QED BY <2>1 DEF Marks
<1>5. ASSUME NEW u \in Range(list), Fits(u)
      PROVE  u \in failed \/ \E t \in Thread : Downloading(t, u)
  <2>1. u \in failed \/ \E t \in Loaders : call[t].url = u
    BY <1>5 DEF Marks, FitsIn
  <2>. QED BY <1>1, <1>2, <1>5, <2>1
<1>. QED BY <1>3, <1>4, <1>5 DEF MarkInv, MarksMatchDownloads, Marks

\* A step that leaves the list and the downloads alone, as far as the URLs fit.
LEMMA SameMarks ==
  ASSUME Marks, Once(list'), FitsIn(list') = FitsIn(list), failed' = failed, Loaders' = Loaders,
         \A v \in Loaders : call'[v].url = call[v].url,
         \A v \in Thread : call'[v].pc = "mark" => call'[v].url \notin Range(call'[v].head)
  PROVE  Marks'
PROOF
<1>1. \A v \in Loaders : call[v].url \in FitsIn(list)
  BY DEF Marks
<1>2. \A v, w \in Loaders : call[v].url = call[w].url => v = w
  BY DEF Marks
<1>3. \A u \in FitsIn(list) : u \in failed \/ \E v \in Loaders : call[v].url = u
  BY DEF Marks
<1>4. \A v \in Loaders' : call'[v].url \in FitsIn(list')
  BY <1>1
<1>5. \A v, w \in Loaders' : call'[v].url = call'[w].url => v = w
  BY <1>2
<1>6. \A u \in FitsIn(list') : u \in failed' \/ \E v \in Loaders' : call'[v].url = u
  BY <1>3
<1>. QED BY <1>4, <1>5, <1>6 DEF Marks

\* Every step keeps the list of downloads as it should be.
LEMMA MarkStep ==
  ASSUME TypeOK, LocalsInv, SemInv, MarkInv, [Next]_vars
  PROVE  MarkInv'
PROOF
<1>. SUFFICES ASSUME "unlocked removal" \notin mishaps' PROVE Marks'
  <2>1. (("unlocked removal" \notin mishaps => Marks) => MarkInv)'
    BY MarksAfter, PTL
  <2>. QED BY <2>1
<1>1. mishaps \subseteq mishaps' => Marks
  BY MarksBefore
<1>2. ASSUME NEW t \in Thread, ListQuiet(t) PROVE Marks'
  <2>1. Marks
    BY <1>1, <1>2 DEF ListQuiet
  <2>2. list' = list /\ failed' = failed
    BY <1>2 DEF ListQuiet
  <2>3. Loaders' = Loaders /\ \A v \in Loaders : call'[v].url = call[v].url
    BY <1>2 DEF ListQuiet, Loaders, Loading
  <2>4. \A v \in Thread : call'[v].pc = "mark" => call'[v] = call[v]
    BY <1>2 DEF ListQuiet
  <2>5. \A v \in Thread : call'[v].pc = "mark" => call'[v].url \notin Range(call'[v].head)
    BY <2>1, <2>4 DEF Marks
  <2>. QED BY <2>1, <2>2, <2>3, <2>5, SameMarks DEF Marks
<1>3. ASSUME NEW t \in Thread, Taken(t) PROVE Marks'
  <2>1. Marks
    BY <1>1, <1>3 DEF Taken
  <2>2. /\ list' = list /\ failed' = failed /\ call[t].url \notin Range(list)
        /\ call'[t].url = call[t].url /\ call'[t].head = list
        /\ \A v \in Thread \ {t} : call'[v] = call[v]
    BY <1>3 DEF Taken
  <2>3. Loaders' = Loaders /\ t \notin Loaders
    BY <1>3 DEF Taken, Loaders, Loading
  <2>4. \A v \in Thread : call'[v].pc = "mark" => call'[v].url \notin Range(call'[v].head)
    BY <2>1, <2>2 DEF Marks
  <2>5. \A v \in Loaders : call'[v].url = call[v].url
    BY <2>2, <2>3 DEF Loaders
  <2>. QED BY <2>1, <2>2, <2>3, <2>4, <2>5, SameMarks DEF Marks
<1>4. ASSUME NEW t \in Thread, Marked(t) PROVE Marks'
  <2>1. PICK u : u = call[t].url
    OBVIOUS
  <2>2. Marks /\ list = call[t].head /\ u \notin Range(list)
    BY <1>1, <1>4, <2>1 DEF Marked, Marks
  <2>3. list \in Seq(Url \cup {NULL}) /\ u \in Url
    BY <1>4, <2>1 DEF TypeOK, LocalsInv, Locals, Marked, FromUrlPoints
  <2>4. PICK n \in NamesOf(u) : list' = << n >> \o list
    BY <1>4, <2>1, <2>2 DEF Marked
  <2>5. n \in Url \cup {NULL} /\ (Fits(n) <=> Fits(u)) /\ (Fits(n) => n = u)
    <3>1. CASE u \in LongUrl
      BY <3>1, ContextAssumption DEF NamesOf, Fits
    <3>2. CASE u \notin LongUrl
      BY <2>3, <3>2 DEF NamesOf, Fits
    <3>. QED BY <3>1, <3>2
  <2>6. Once(list') /\ FitsIn(list') = FitsIn(list) \cup { x \in {n} : Fits(x) }
    <3>1. Once(list) /\ (Fits(n) => n \notin Range(list))
      BY <2>2, <2>5 DEF Marks
    <3>2. \A w \in Url \cup {NULL} : (Fits(w) => w \notin Range(list)) =>
            /\ Once(<< w >> \o list)
            /\ FitsIn(<< w >> \o list) = FitsIn(list) \cup { x \in {w} : Fits(x) }
      BY <2>3, <3>1, ListElements
    <3>. QED BY <2>4, <2>5, <3>1, <3>2
  <2>7. /\ failed' = failed /\ call'[t].url = u /\ call'[t].pc # "mark"
        /\ \A v \in Thread \ {t} : call'[v] = call[v]
    BY <1>4, <2>1 DEF Marked
  <2>8. \A v \in Thread : call'[v].pc = "mark" => call'[v].url \notin Range(call'[v].head)
    BY <2>2, <2>7 DEF Marks
  <2>9. t \notin Loaders /\ \A v \in Loaders : v \in Thread \ {t}
    BY <1>4 DEF Marked, Loaders, Loading
  <2>10. \A v \in Loaders : call'[v].url = call[v].url /\ call[v].url # u
    BY <2>2, <2>7, <2>9 DEF Marks, FitsIn
  <2>11. CASE ~Fits(u)
    <3>1. FitsIn(list') = FitsIn(list)
      BY <2>5, <2>6, <2>11
    <3>2. Loaders' = Loaders
      BY <1>4, <2>1, <2>7, <2>11 DEF Marked, Loaders, Loading
    <3>. QED BY <2>2, <2>6, <2>7, <2>8, <2>10, <3>1, <3>2, SameMarks
  <2>12. CASE Fits(u)
    <3>1. FitsIn(list') = FitsIn(list) \cup {u}
      BY <2>5, <2>6, <2>12
    <3>2. Loaders' = Loaders \cup {t}
      BY <1>4, <2>1, <2>12 DEF Marked, Loaders, Loading
    <3>3. \A v \in Loaders' : call'[v].url \in FitsIn(list')
      BY <2>2, <2>7, <2>10, <3>1, <3>2 DEF Marks
    <3>4. \A v, w \in Loaders' : call'[v].url = call'[w].url => v = w
      <4>1. \A v, w \in Loaders : call[v].url = call[w].url => v = w
        BY <2>2 DEF Marks
      <4>. SUFFICES ASSUME NEW v \in Loaders', NEW w \in Loaders', call'[v].url = call'[w].url,
                           v # w
                    PROVE  FALSE
        OBVIOUS
      <4>2. CASE v # t /\ w # t
        BY <2>10, <3>2, <4>1, <4>2
      <4>3. CASE v = t
        BY <2>7, <2>10, <3>2, <4>3
      <4>4. CASE w = t
        BY <2>7, <2>10, <3>2, <4>4
      <4>. QED BY <4>2, <4>3, <4>4
    <3>5. \A x \in FitsIn(list') : x \in failed' \/ \E v \in Loaders' : call'[v].url = x
      BY <2>2, <2>7, <2>10, <3>1, <3>2 DEF Marks
    <3>. QED BY <2>6, <2>8, <3>3, <3>4, <3>5 DEF Marks
  <2>. QED BY <2>11, <2>12
<1>5. ASSUME NEW t \in Thread, DownloadFails(t) \/ RemoveBad(t) \/ Unlist(t) PROVE Marks'
  <2>1. PICK u : u = call[t].url
    OBVIOUS
  <2>2. Ended(t)
    BY <1>5, EndSteps
  <2>3. Marks
    BY <1>1, <2>2 DEF Ended
  <2>4. Loaders' = Loaders \ {t} /\ (Fits(u) => t \in Loaders)
    BY <2>1, <2>2 DEF Ended, Loaders, Loading
  <2>5. call'[t].pc # "mark" /\ \A v \in Thread \ {t} : call'[v] = call[v]
    BY <2>2 DEF Ended
  <2>6. \A v \in Loaders' : call'[v].url = call[v].url /\ call[v].url # u
    <3>1. \A v \in Loaders' : v \in Thread \ {t} /\ v \in Loaders /\ Fits(call[v].url)
      BY <2>4 DEF Loaders
    <3>. QED BY <2>1, <2>3, <2>4, <2>5, <3>1 DEF Marks
  <2>7. /\ Once(list')
        /\ FitsIn(list') \subseteq FitsIn(list) /\ FitsIn(list) \ {u} \subseteq FitsIn(list')
        /\ failed \subseteq failed'
        /\ u \in FitsIn(list') => u \in failed'
    <3>1. CASE list' = list /\ failed' = failed \cup {u}
      BY <2>3, <3>1 DEF Marks
    <3>2. CASE failed' = failed /\ Once(list') /\ FitsIn(list') = FitsIn(list) \ {u}
      BY <3>2
    <3>3. Once(list)
      BY <2>3 DEF Marks
    <3>. QED BY <1>5, <2>1, <3>1, <3>2, <3>3, EndSteps
  <2>8. \A v \in Thread : call'[v].pc = "mark" => call'[v].url \notin Range(call'[v].head)
    BY <2>3, <2>5 DEF Marks
  <2>9. \A v \in Loaders' : call'[v].url \in FitsIn(list')
    BY <2>3, <2>4, <2>6, <2>7 DEF Marks
  <2>10. \A v, w \in Loaders' : call'[v].url = call'[w].url => v = w
    <3>1. \A v, w \in Loaders : call[v].url = call[w].url => v = w
      BY <2>3 DEF Marks
    <3>. SUFFICES ASSUME NEW v \in Loaders', NEW w \in Loaders', call'[v].url = call'[w].url
                  PROVE  v = w
      OBVIOUS
    <3>2. v \in Loaders /\ w \in Loaders /\ call[v].url = call[w].url
      BY <2>4, <2>6
    <3>. QED BY <3>1, <3>2
  <2>11. \A x \in FitsIn(list') : x \in failed' \/ \E v \in Loaders' : call'[v].url = x
    <3>. SUFFICES ASSUME NEW x \in FitsIn(list'), x \notin failed'
                  PROVE  \E v \in Loaders' : call'[v].url = x
      OBVIOUS
    <3>1. x # u /\ x \in FitsIn(list) /\ x \notin failed
      BY <2>7
    <3>2. PICK v \in Loaders : call[v].url = x
      BY <2>3, <3>1 DEF Marks
    <3>. QED BY <2>1, <2>4, <2>6, <3>1, <3>2
  <2>. QED BY <2>7, <2>8, <2>9, <2>10, <2>11 DEF Marks
<1>6. CASE Restart
  <2>1. list' = << >> /\ \A v \in Thread : call'[v] = NoCall
    BY <1>6 DEF Restart
  <2>2. Once(list') /\ FitsIn(list') = {}
    BY <2>1, EmptyList
  <2>3. NoCall.pc = "idle"
    BY DEF NoCall
  <2>4. Loaders' = {} /\ \A v \in Thread : call'[v].pc # "mark"
    BY <2>1, <2>3 DEF Loaders, Loading
  <2>. QED BY <2>2, <2>4 DEF Marks
<1>7. CASE UNCHANGED vars
  BY <1>1, <1>7 DEF vars, Marks, Loaders, Loading
<1>8. ASSUME NEW t \in Thread, ListAction(t) PROVE Marks'
  BY <1>2, <1>3, <1>4, <1>5, <1>8, LockListSteps, MarkSteps DEF ListAction
<1>. QED BY <1>2, <1>6, <1>7, <1>8, ListStepKinds, ListQuietActions

-----------------------------------------------------------------------------
(***************************************************************************)
(* The theorems.                                                           *)
(***************************************************************************)
\* The inductive invariant holds in every state.
LEMMA Inductive == Spec => [](TypeOK /\ IInv)
PROOF
<1>1. Init => TypeOK /\ IInv
  BY TypeInit, IdInit, SemInit, MarkInit, HolderInit, KeptInit, HomeInit DEF IInv
<1>2. TypeOK /\ IInv /\ [Next]_vars => (TypeOK /\ IInv)'
  <2>. SUFFICES ASSUME TypeOK, IInv, [Next]_vars PROVE (TypeOK /\ IInv)'
    OBVIOUS
  <2>. USE DEF IInv
  <2>1. TypeOK' /\ LocalsInv'
    BY TypeStep
  <2>2. IdInv'
    BY IdStep
  <2>3. SemInv' /\ MarkInv'
    BY SemStep, MarkStep
  <2>4. HolderInv'
    BY HolderStep
  <2>5. KeptInv'
    BY <2>1, <2>2, KeptStep
  <2>6. HomeInv'
    BY HomeStep
  <2>. QED BY <2>1, <2>2, <2>3, <2>4, <2>5, <2>6
<1>. QED BY <1>1, <1>2, PTL DEF Spec

(***************************************************************************)
(* Every variable has its type, and the index of the cache, up to which    *)
(* orionldContextCacheLookup scans without a semaphore, stays within the   *)
(* array that orionldContextCacheInsert reallocates - unless two           *)
(* insertions have used one slot number, the event "stale slot".           *)
(***************************************************************************)
THEOREM TypeCorrect == Spec => []TypeOK
  BY Inductive, PTL

(***************************************************************************)
(* Two threads never download one context at the same time, and a URL in   *)
(* contextDownloadList is being downloaded, or a download of it has        *)
(* failed - unless contextDownloadListRemove, called without the           *)
(* semaphore, has collided with another change of the list.  This is about *)
(* the URLs that fit into the 256 bytes of an item of the list, whatever   *)
(* becomes of the marks of the longer ones: those are cut, and compared    *)
(* with whole URLs.                                                        *)
(***************************************************************************)
THEOREM OneDownloadPerUrl == Spec => []MarksMatchDownloads
PROOF
<1>1. IInv => MarksMatchDownloads
  BY DEF IInv, MarkInv, MarksMatchDownloads
<1>. QED BY <1>1, Inductive, PTL

(***************************************************************************)
(* A context in the cache is in the database, or its thread is on its way  *)
(* to orionldContextCachePersist, or the insertion there was refused and   *)
(* only logged; and a context in the database is in the cache, or being    *)
(* reloaded, so that no context is lost and none that was deleted comes    *)
(* back with a restart - unless it is a string, or its document went       *)
(* astray (a deletion that was refused and only logged, a removal before   *)
(* the insertion into the database, a reload that ended with the context   *)
(* of somebody else), or two insertions met in one slot of                 *)
(* orionldContextCacheInsert, or its array has grown.                      *)
(***************************************************************************)
THEOREM CacheMatchesDatabase == Spec => []CacheAndDatabaseAgree
PROOF
<1>1. TypeOK /\ IInv => CacheAndDatabaseAgree
  <2>. SUFFICES ASSUME TypeOK, IInv PROVE CacheAndDatabaseAgree
    OBVIOUS
  <2>1. ASSUME NEW s \in InUse, Unstored(s) PROVE cache[s] \in unsaved
    <3>1. s \in DOMAIN cache /\ cache[s] # 0
      BY SlotsInUse
    <3>2. Kept(cache[s])
      BY <3>1 DEF IInv, KeptInv
    <3>. QED BY <2>1, <3>2 DEF Kept, Unstored
  <2>2. ASSUME mishaps \cap Unprotected = {}, NEW i \in Context, Expected(i) PROVE ~Uncached(i)
    <3>. SUFFICES \/ \E s \in InUse : idOf[cache[s]] = i
                  \/ \E t \in Thread : call[t].oldId = i /\ call[t].pc # "idle"
      BY DEF Uncached
    <3>1. Homed(i)
      BY <2>2 DEF IInv, HomeInv
    <3>2. \A t \in Thread : Hand(call[t]) # 0 => call[t].pc # "idle"
      BY DEF Hand, FromUrlPoints
    <3>. QED BY <3>1, <3>2 DEF Homed
  <2>. QED BY <2>1, <2>2 DEF CacheAndDatabaseAgree, Unprotected, Expected, Uncached
<1>. QED BY <1>1, Inductive, PTL

=============================================================================
