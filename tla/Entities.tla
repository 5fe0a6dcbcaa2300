------------------------------ MODULE Entities ------------------------------
(***************************************************************************)
(* The requests that create, change and delete ONE entity (one entity id), *)
(* as the threads that serve them interleave in the database.              *)
(*                                                                         *)
(* An NGSI-LD request ("ld") first looks the entity up, without any lock,  *)
(* decides, perhaps deletes attributes or the entity, and then calls       *)
(* mongoUpdateContext; an NGSIv2 request ("v2") calls mongoUpdateContext   *)
(* at once.  mongoUpdateContext holds reqSem (if -reqMutexPolicy says so)  *)
(* while it counts, queries, computes $set, $unset, $addToSet and          *)
(* $pullAll from the documents that the query returned, and writes them    *)
(* one by one.                                                             *)
(*                                                                         *)
(* The _id of a document is id and type (the service path is always the    *)
(* same here), so one entity id may have a document per type.  A document  *)
(* has the attributes ('attrs') and, apart, the array of their names       *)
(* ('attrNames').  The value of an attribute is the number of the request  *)
(* that wrote it, 0 is "no such attribute": two requests never write the   *)
(* same value.  Batch requests carry one entity.  Metadata, datasets,      *)
(* locations and expiration dates are left out.                            *)
(***************************************************************************)
EXTENDS Naturals, FiniteSets

CONSTANTS
  Thread,       \* the request threads
  Type,         \* entity types
  Attr,         \* attribute names
  Op,           \* the operations that are requested (a subset of AllOps)
  ReqMutex,     \* TRUE for -reqMutexPolicy all or write, FALSE for none
  MaxRequests,  \* bound: requests
  MaxFaults,    \* bound: failing database operations, and kills of the broker
  AnyType       \* "no type": any type in a query

LdOps == { "create", "append", "patch", "patchAttr", "delete", "deleteAttr",
           "batchCreate", "batchUpdate", "upsert", "batchDelete" }
V2Ops == { "v2create", "v2upsert", "v2append", "v2update", "v2replace",
           "v2delete" }
AllOps == LdOps \cup V2Ops

ASSUME EntitiesAssumption ==
  /\ IsFiniteSet(Type) /\ Type # {} /\ AnyType \notin Type
  /\ Op \subseteq AllOps
  /\ ReqMutex \in BOOLEAN
  /\ MaxRequests \in Nat /\ MaxFaults \in Nat

VARIABLES
  db,         \* the document of each type: [alive, attrs, names]
  reqSem,     \* TRUE: free
  call,       \* the request each thread serves, and its local variables:
              \*   pc, op    where it is, which operation
              \*   n         the number of the request
              \*   type      the type given, found or AnyType
              \*   asked     the attributes named by the request
              \*   keep      options=noOverwrite
              \*   replace   upsert without options=update
              \*   bad       an attribute of the payload cannot be converted (PATCH
              \*             of an entity: an attribute listed as updated)
              \*   load      the attributes handed to mongoUpdateContext
              \*   docs      what the query of processContextElement returned
              \*   todo      the types found and not yet treated
              \*   failed    an error was put in the response
              \*   answer    what the client is told
  requests, faults,
  disturbed,  \* history: what others did to the entity since the request began
  wrote,      \* history: the attributes the request has written
  inserted,   \* history: the request inserted a document
  spoilt,     \* history: a database operation of the request failed
  stale,      \* history: some document was written from a query that had
              \* meanwhile lost an attribute or the entity
  twins       \* history: two documents have shared the entity id

history == << disturbed, wrote, inserted, spoilt, stale, twins >>
bounds  == << requests, faults >>
vars    == << db, reqSem, call, requests, faults, disturbed, wrote,
              inserted, spoilt, stale, twins >>

Value  == 0 .. MaxRequests + 1
Values == [Attr -> Value]
Doc    == [alive : BOOLEAN, attrs : Values, names : SUBSET Attr]

Nothing == [a \in Attr |-> 0]
NoDoc   == [alive |-> FALSE, attrs |-> Nothing, names |-> {}]

With(S, v) == [a \in Attr |-> IF a \in S THEN v ELSE 0]
In(attrs)  == { a \in Attr : attrs[a] # 0 }

\* A document createEntity inserts: attrs, and attrNames with their names.
NewDoc(attrs) == [alive |-> TRUE, attrs |-> attrs, names |-> In(attrs)]

Locations == { "idle", "lookup", "gap", "clear", "remove", "convert", "take", "count",
               "query", "insert", "write", "give", "reply" }

\* "mixed" is a 207 that lists the entity, or an attribute, twice: as a success
\* and as an error.
Answers == { "none", "ok", "created", "mixed", "refused", "error" }

NoCall == [pc |-> "idle", op |-> "create", n |-> 0, type |-> AnyType, asked |-> {},
           keep |-> FALSE, replace |-> FALSE, bad |-> FALSE, load |-> Nothing,
           docs |-> [ty \in Type |-> NoDoc], todo |-> {}, failed |-> FALSE,
           answer |-> "none"]

\* At first there is no entity, or one with all its attributes.
Init ==
  /\ db \in { [ty \in Type |-> NoDoc] } \cup
            { [ty \in Type |-> IF ty = only THEN NewDoc(With(Attr, 1)) ELSE NoDoc] :
                only \in Type }
  /\ reqSem = TRUE
  /\ call = [t \in Thread |-> NoCall]
  /\ requests = 0 /\ faults = 0
  /\ disturbed = [t \in Thread |-> {}]
  /\ wrote = [t \in Thread |-> {}]
  /\ inserted = [t \in Thread |-> FALSE]
  /\ spoilt = [t \in Thread |-> FALSE]
  /\ stale = FALSE
  /\ twins = FALSE

Alive == { ty \in Type : db[ty].alive }

At(t, l) == call[t].pc = l

AtOp(t, l, op) == call[t].pc = l /\ call[t].op = op

Goto(t, l) == call' = [call EXCEPT ![t].pc = l]

Reply(t, what) == call' = [call EXCEPT ![t].pc = "reply", ![t].answer = what]

(***************************************************************************)
(* One write of thread t to the database, and what it means to the others. *)
(***************************************************************************)
Lost(new) ==
  \E ty \in Type : \/ db[ty].alive /\ ~new[ty].alive
                   \/ \E a \in Attr : db[ty].attrs[a] # 0 /\ new[ty].attrs[a] = 0

WriteDb(t, new) ==
  /\ db' = new
  /\ disturbed' = [u \in Thread |->
       disturbed[u] \cup (IF u # t /\ ~At(u, "idle") /\ new # db THEN { "change" } ELSE {})
                    \cup (IF u # t /\ ~At(u, "idle") /\ Lost(new) THEN { "loss" } ELSE {})]
  /\ wrote' = [wrote EXCEPT ![t] = @ \cup
       { a \in Attr : \E ty \in Type : new[ty].attrs[a] = call[t].n
                                        /\ db[ty].attrs[a] # call[t].n }]
  /\ twins' = (twins \/ \E ty, uy \in Type : ty # uy /\ new[ty].alive /\ new[uy].alive)

-----------------------------------------------------------------------------
(***************************************************************************)
(* A request arrives.  A request that creates the entity has a type, a     *)
(* request with the id in the URL has none; batch updates, upserts and     *)
(* NGSIv2 requests may have one.  Only the removal of a whole entity names *)
(* no attribute.  What a batch payload with an error in it names does not  *)
(* matter (it is never written), so all of the attributes will do.         *)
(***************************************************************************)
Payloads ==
  { r \in [op : Op, type : Type \cup { AnyType }, asked : SUBSET Attr,
           keep : BOOLEAN, replace : BOOLEAN, bad : BOOLEAN] :
      /\ r.op \in { "create", "batchCreate", "v2create", "v2upsert" } => r.type # AnyType
      /\ r.op \in { "append", "patch", "patchAttr", "delete", "deleteAttr",
                    "batchDelete" } => r.type = AnyType
      /\ r.op \in { "delete", "batchDelete" } => r.asked = {}
      /\ r.asked = {} => r.op \in { "delete", "batchDelete", "v2delete" }
      /\ r.op \in { "patchAttr", "deleteAttr" } => Cardinality(r.asked) = 1
      /\ r.keep => r.op \in { "append", "batchUpdate" }
      /\ r.replace => r.op = "upsert"
      /\ r.bad => \/ r.op \in { "batchCreate", "batchUpdate", "upsert" } /\ r.asked = Attr
                  \/ r.op = "patch" }

Start(t, l, r) ==
  /\ At(t, "idle")
  /\ requests < MaxRequests
  /\ requests' = requests + 1
  /\ call' = [call EXCEPT ![t] =
       [NoCall EXCEPT !.pc = l, !.op = r.op, !.n = requests + 2, !.type = r.type,
                      !.asked = r.asked, !.keep = r.keep, !.replace = r.replace,
                      !.bad = r.bad,
                      !.load = IF r.op \in { "v2delete", "deleteAttr" } THEN Nothing
                               ELSE With(r.asked, requests + 2)]]
  /\ UNCHANGED << db, reqSem, faults, history >>

\* An NGSI-LD request goes to its service routine, which looks the entity up.
LdRequest(t, r) == r.op \in LdOps /\ Start(t, "lookup", r)

\* The NGSIv2 requests: postEntities, postEntities with options=upsert,
\* postEntity, patchEntity and putEntityAttribute, putEntity, deleteEntity.
V2Create(t, r)  == r.op = "v2create"  /\ Start(t, "take", r)
V2Upsert(t, r)  == r.op = "v2upsert"  /\ Start(t, "take", r)
V2Append(t, r)  == r.op = "v2append"  /\ Start(t, "take", r)
V2Update(t, r)  == r.op = "v2update"  /\ Start(t, "take", r)
V2Replace(t, r) == r.op = "v2replace" /\ Start(t, "take", r)
V2Delete(t, r)  == r.op = "v2delete"  /\ Start(t, "take", r)

-----------------------------------------------------------------------------
(***************************************************************************)
(* The lookups of the NGSI-LD service routines.                            *)
(***************************************************************************)
LookUp(t, op) ==
  /\ AtOp(t, "lookup", op)
  /\ UNCHANGED << db, reqSem, bounds, history >>

\* orionldPostEntities: an error if there is an entity with the id, of any type.
LookUpCreate(t) ==
  /\ LookUp(t, "create")
  /\ IF Alive # {} THEN Reply(t, "refused") ELSE Goto(t, "take")

\* orionldPostEntity.  With noOverwrite, the names in attrNames are dropped
\* from the payload; if nothing is left, that is all.
LookUpAppend(t) ==
  /\ LookUp(t, "append")
  /\ \/ Alive = {} /\ Reply(t, "refused")
     \/ \E ty \in Alive :
          LET left == IF call[t].keep THEN call[t].asked \ db[ty].names
                      ELSE call[t].asked
          IN  call' = [call EXCEPT ![t].load = With(left, call[t].n),
                 ![t].pc = IF left = {} THEN "reply" ELSE "gap",
                 ![t].answer = IF left = {} THEN "ok" ELSE "none"]

\* Mutant: the payload is sent without the attributes that are to stay.
LookUpPatch_PayloadOnly(t) ==
  /\ LookUp(t, "patch")
  /\ \/ Alive = {} /\ Reply(t, "refused")
     \/ \E ty \in Alive :
          LET news == call[t].asked \cap In(db[ty].attrs)
          IN  call' = [call EXCEPT ![t].type = ty,
                 ![t].load = With(news, call[t].n),
                 ![t].pc = IF news = {} THEN "reply" ELSE "take",
                 ![t].answer = IF news = {} THEN "ok" ELSE "none"]

\* orionldPatchEntity: the attributes as they were read, those of the payload
\* that exist replaced, will replace all attributes of the document.  What of
\* the payload cannot be converted is left out, so the document loses it; it is
\* in the "updated" array by then, and gets into "notUpdated" too.
LookUpPatch(t) ==
  /\ LookUp(t, "patch")
  /\ \/ Alive = {} /\ Reply(t, "refused")
     \/ \E ty \in Alive :
          LET news == call[t].asked \cap In(db[ty].attrs)
          IN  \E lost \in IF call[t].bad THEN SUBSET news ELSE { {} } :
                call' = [call EXCEPT ![t].type = ty, ![t].bad = (lost # {}),
                   ![t].load = IF news = {} THEN Nothing
                               ELSE [a \in Attr |-> IF a \in lost THEN 0
                                                    ELSE IF a \in news THEN call[t].n
                                                    ELSE db[ty].attrs[a]],
                   ![t].pc = IF news = {} THEN "reply" ELSE "take",
                   ![t].answer = IF news = {} THEN "ok" ELSE "none"]

\* orionldPatchAttribute and orionldDeleteAttribute ask for a document with
\* the attribute in attrNames.
Named(S) == { ty \in Alive : S \subseteq db[ty].names }

LookUpPatchAttr(t) ==
  /\ LookUp(t, "patchAttr")
  /\ IF Named(call[t].asked) = {} THEN Reply(t, "refused") ELSE Goto(t, "take")

LookUpDeleteAttr(t) ==
  /\ LookUp(t, "deleteAttr")
  /\ IF Named(call[t].asked) = {} THEN Reply(t, "refused") ELSE Goto(t, "gap")

\* orionldDeleteEntity.
LookUpDelete(t) ==
  /\ LookUp(t, "delete")
  /\ IF Alive = {} THEN Reply(t, "refused") ELSE Goto(t, "remove")

\* orionldPostBatchDelete.
LookUpBatchDelete(t) ==
  /\ LookUp(t, "batchDelete")
  /\ IF Alive = {} THEN Reply(t, "refused") ELSE Goto(t, "clear")

\* orionldPostBatchCreate: an existing entity is an error.
LookUpBatchCreate(t) ==
  /\ LookUp(t, "batchCreate")
  /\ IF Alive # {} THEN Reply(t, "refused") ELSE Goto(t, "convert")

\* orionldPostBatchUpdate: the entity must exist, with the type given, if any.
\* Only one of the documents with the id is looked at.
LookUpBatchUpdate(t) ==
  /\ LookUp(t, "batchUpdate")
  /\ \/ Alive = {} /\ Reply(t, "refused")
     \/ \E ty \in Alive :
          /\ call[t].type \notin { AnyType, ty }
          /\ Reply(t, "refused")
     \/ \E ty \in Alive :
          /\ call[t].type \in { AnyType, ty }
          /\ call' = [call EXCEPT ![t].type = ty, ![t].pc = "convert",
               ![t].load = With(IF call[t].keep THEN call[t].asked \ db[ty].names
                                ELSE call[t].asked, call[t].n)]

(***************************************************************************)
(* orionldPostBatchUpsert goes through the documents with the id.  The     *)
(* first one whose type differs from the entity's (which a document before *)
(* it may have given) takes the entity out of the request.  An id is to be *)
(* removed from the database as soon as one document agreed.               *)
(***************************************************************************)
LookUpUpsert(t) ==
  /\ LookUp(t, "upsert")
  /\ \/ Alive = {} /\ call[t].type = AnyType /\ Reply(t, "refused")
     \/ Alive = {} /\ call[t].type # AnyType /\ Goto(t, "convert")
     \/ \E ty \in Alive :
          /\ call[t].type \notin { AnyType, ty }
          /\ Reply(t, "refused")
     \/ \E ty \in Alive :
          /\ call[t].type \in { AnyType, ty }
          /\ call' = [call EXCEPT ![t].type = ty,
               ![t].pc = IF call[t].replace THEN "clear" ELSE "convert",
               ![t].bad = @ \/ Alive # { ty }]

(***************************************************************************)
(* The query of a lookup fails.  mongoEntityExists (of POST .../entities)  *)
(* and the lookup of the batch requests catch it, and it looks as if there *)
(* were no such entity.                                                    *)
(***************************************************************************)
FoundNothing(t) ==
  \/ call[t].op = "create" /\ Goto(t, "take")
  \/ call[t].op = "batchCreate" /\ Goto(t, "convert")
  \/ call[t].op = "upsert" /\ call[t].type # AnyType /\ Goto(t, "convert")
  \/ call[t].op = "upsert" /\ call[t].type = AnyType /\ Reply(t, "refused")
  \/ call[t].op \in { "batchUpdate", "batchDelete" } /\ Reply(t, "refused")

LookUpFails(t) ==
  /\ At(t, "lookup")
  /\ faults < MaxFaults
  /\ faults' = faults + 1
  /\ spoilt' = [spoilt EXCEPT ![t] = TRUE]
  /\ FoundNothing(t)
  /\ UNCHANGED << db, reqSem, requests, disturbed, wrote, inserted,
                  stale, twins >>

-----------------------------------------------------------------------------
(***************************************************************************)
(* What the service routines do to the database themselves.                *)
(***************************************************************************)
\* dbEntityAttributesDelete: $unset and $pull, in one document with the id.
\* The call asks for an upsert, which the database refuses: it inserts nothing
\* for a query on "_id.id".
Strip(d, S) ==
  [d EXCEPT !.attrs = [a \in Attr |-> IF a \in S THEN 0 ELSE d.attrs[a]],
            !.names = @ \ S]

Unset(t) ==
  /\ At(t, "gap")
  /\ LET gone == IF call[t].op = "append" THEN In(call[t].load) ELSE call[t].asked
     IN  \/ Alive = {} /\ WriteDb(t, db)
         \/ \E ty \in Alive : WriteDb(t, [db EXCEPT ![ty] = Strip(db[ty], gone)])
  /\ IF call[t].op = "append" THEN Goto(t, "take") ELSE Reply(t, "ok")
  /\ UNCHANGED << reqSem, bounds, inserted, spoilt, stale >>

\* dbEntityDelete: one document with the id.
RemoveOne(t) ==
  /\ At(t, "remove")
  /\ \/ Alive = {} /\ WriteDb(t, db)
     \/ \E ty \in Alive : WriteDb(t, [db EXCEPT ![ty] = NoDoc])
  /\ Reply(t, "ok")
  /\ UNCHANGED << reqSem, bounds, inserted, spoilt, stale >>

\* With -writeConcern 0 the driver does not throw; dbEntityDelete sees that the
\* connection failed.
RemoveFails(t) ==
  /\ At(t, "remove")
  /\ faults < MaxFaults
  /\ faults' = faults + 1
  /\ spoilt' = [spoilt EXCEPT ![t] = TRUE]
  /\ Reply(t, "error")
  /\ UNCHANGED << db, reqSem, requests, disturbed, wrote, inserted,
                  stale, twins >>

\* dbEntitiesDelete: all documents with the id.
Clear(t) ==
  /\ At(t, "clear")
  /\ WriteDb(t, [ty \in Type |-> NoDoc])
  /\ IF call[t].op = "upsert" THEN Goto(t, "convert") ELSE Reply(t, "ok")
  /\ UNCHANGED << reqSem, bounds, inserted, spoilt, stale >>

\* kjTreeToUpdateContextRequest: an entity that cannot be converted is reported
\* and left out of what mongoUpdateContext gets.
Convert(t) ==
  /\ At(t, "convert")
  /\ IF call[t].bad THEN Reply(t, "refused") ELSE Goto(t, "take")
  /\ UNCHANGED << db, reqSem, bounds, history >>

-----------------------------------------------------------------------------
(***************************************************************************)
(* mongoUpdateContext and processContextElement.                           *)
(***************************************************************************)
Action(op) ==
  CASE op \in { "create", "append", "batchUpdate", "upsert", "v2upsert", "v2append" }
                                            -> "Append"
    [] op \in { "batchCreate", "v2create" } -> "AppendStrict"
    [] op \in { "patchAttr", "v2update" }   -> "Update"
    [] op \in { "patch", "v2replace" }      -> "Replace"
    [] OTHER                                -> "Delete"

Matching(t) == { ty \in Alive : call[t].type \in { AnyType, ty } }

Fail(t) == call' = [call EXCEPT ![t].pc = "give", ![t].failed = TRUE]

Take(t) ==
  /\ At(t, "take")
  /\ ReqMutex => reqSem
  /\ reqSem' = ~ReqMutex
  /\ Goto(t, IF call[t].op \in V2Ops THEN "count" ELSE "query")
  /\ UNCHANGED << db, bounds, history >>

\* Mutant: the number of documents is not looked at.
Count_NoCheck(t) ==
  /\ At(t, "count")
  /\ Goto(t, "query")
  /\ UNCHANGED << db, reqSem, bounds, history >>

\* Mutant: POST /v2/entities does not check that the entity is new.
Count_NotOnCreate(t) ==
  /\ At(t, "count")
  /\ LET found == Cardinality(Matching(t))
     IN  IF (found = 0 /\ call[t].op = "v2append") \/ found > 1
         THEN Fail(t)
         ELSE Goto(t, "query")
  /\ UNCHANGED << db, reqSem, bounds, history >>

\* NGSIv2 only: POST /v2/entities must find no document, POST
\* /v2/entities/{id}/attrs some, and nobody more than one.
Count(t) ==
  /\ At(t, "count")
  /\ LET found == Cardinality(Matching(t))
     IN  IF \/ found > 0 /\ call[t].op = "v2create"
            \/ found = 0 /\ call[t].op = "v2append"
            \/ found > 1
         THEN Fail(t)
         ELSE Goto(t, "query")
  /\ UNCHANGED << db, reqSem, bounds, history >>

\* The documents are read.  Without any, Append creates the entity, the other
\* actions report that they found none.
Query(t) ==
  /\ At(t, "query")
  /\ \/ /\ Matching(t) # {}
        /\ call' = [call EXCEPT ![t].pc = "write", ![t].docs = db, ![t].todo = Matching(t)]
     \/ /\ Matching(t) = {}
        /\ Action(call[t].op) \in { "Append", "AppendStrict" }
        /\ call[t].op # "append"
        /\ Goto(t, "insert")
     \/ /\ Matching(t) = {}
        /\ Action(call[t].op) \notin { "Append", "AppendStrict" }
        /\ Fail(t)
  /\ UNCHANGED << db, reqSem, bounds, history >>

\* createEntity.  NGSIv2 has a default for a missing type.  The _id of a
\* document that is already there is refused by the database.
DefaultType == CHOOSE ty \in Type : TRUE

Insert(t) ==
  /\ At(t, "insert")
  /\ LET ty == IF call[t].type = AnyType THEN DefaultType ELSE call[t].type
     IN  IF db[ty].alive
         THEN /\ Fail(t)
              /\ UNCHANGED << db, disturbed, wrote, twins, inserted >>
         ELSE /\ WriteDb(t, [db EXCEPT ![ty] = NewDoc(call[t].load)])
              /\ inserted' = [inserted EXCEPT ![t] = TRUE]
              /\ Goto(t, "give")
  /\ UNCHANGED << reqSem, bounds, spoilt, stale >>

-----------------------------------------------------------------------------
(***************************************************************************)
(* updateEntity, for one of the documents that were read.  What goes into  *)
(* $set, $addToSet, $unset and $pullAll depends on the document as it was  *)
(* READ; the database applies it to the document as it IS.                 *)
(***************************************************************************)
\* The attributes that are set.
ToSet(t, ty) ==
  LET was == In(call[t].docs[ty].attrs)
      req == In(call[t].load)
  IN  CASE Action(call[t].op) = "Append"       -> IF call[t].keep THEN req \ was ELSE req
        [] Action(call[t].op) = "AppendStrict" -> req \ was
        [] Action(call[t].op) = "Update"       -> req \cap was
        [] OTHER                               -> req

\* Mutant: appended attributes do not get into attrNames.
ToPush_Nothing(t, ty) == {}

\* The names that are added to attrNames: what is appended, not what is updated.
ToPush(t, ty) == ToSet(t, ty) \ In(call[t].docs[ty].attrs)

\* The attributes that are removed, all or none.
ToUnset(t, ty) ==
  IF /\ Action(call[t].op) = "Delete"
     /\ call[t].asked \subseteq In(call[t].docs[ty].attrs)
  THEN call[t].asked ELSE {}

\* An error is put in the response.
Objects(t, ty) ==
  LET was == In(call[t].docs[ty].attrs)
      req == In(call[t].load)
  IN  \/ Action(call[t].op) = "AppendStrict" /\ req \cap was # {}
      \/ Action(call[t].op) = "Update" /\ ~(req \subseteq was)
      \/ Action(call[t].op) = "Delete" /\ ~(call[t].asked \subseteq was)

\* collectionUpdate on the document d.
Updated(t, ty, d) ==
  IF ~d.alive THEN d
  ELSE CASE Action(call[t].op) = "Replace" -> NewDoc(call[t].load)
         [] Action(call[t].op) = "Delete"  ->
              IF call[t].asked = {} THEN NoDoc ELSE Strip(d, ToUnset(t, ty))
         [] OTHER ->
              [d EXCEPT !.attrs = [a \in Attr |-> IF a \in ToSet(t, ty)
                                                  THEN call[t].load[a] ELSE d.attrs[a]],
                        !.names = @ \cup ToPush(t, ty)]

\* Mutant: attributes that exist are left alone.
Write_AddOnly(t) ==
  /\ At(t, "write")
  /\ \E ty \in call[t].todo :
       /\ IF In(db[ty].attrs) \cap In(call[t].load) # {} THEN WriteDb(t, db)
          ELSE WriteDb(t, [db EXCEPT ![ty] = Updated(t, ty, db[ty])])
       /\ call' = [call EXCEPT ![t].todo = @ \ { ty },
                     ![t].failed = @ \/ Objects(t, ty),
                     ![t].pc = IF call[t].todo = { ty } THEN "give" ELSE "write"]
  /\ stale' = (stale \/ "loss" \in disturbed[t])
  /\ UNCHANGED << reqSem, bounds, inserted, spoilt >>

Write(t) ==
  /\ At(t, "write")
  /\ \E ty \in call[t].todo :
       /\ WriteDb(t, [db EXCEPT ![ty] = Updated(t, ty, db[ty])])
       /\ call' = [call EXCEPT ![t].todo = @ \ { ty },
                     ![t].failed = @ \/ Objects(t, ty),
                     ![t].pc = IF call[t].todo = { ty } THEN "give" ELSE "write"]
  /\ stale' = (stale \/ "loss" \in disturbed[t])
  /\ UNCHANGED << reqSem, bounds, inserted, spoilt >>

\* A database operation of processContextElement fails.  After a failed update
\* the other documents are still treated.  (LookUpFails, RemoveFails and
\* DriverThrows are the failures of what the service routines do themselves.)
Fault(t) ==
  /\ call[t].pc \in { "count", "query", "insert", "write" }
  /\ faults < MaxFaults
  /\ faults' = faults + 1
  /\ spoilt' = [spoilt EXCEPT ![t] = TRUE]
  /\ \/ At(t, "write") /\ \E ty \in call[t].todo :
          call' = [call EXCEPT ![t].todo = @ \ { ty }, ![t].failed = TRUE,
                     ![t].pc = IF call[t].todo = { ty } THEN "give" ELSE "write"]
     \/ ~At(t, "write") /\ Fail(t)
  /\ UNCHANGED << db, reqSem, requests, disturbed, wrote, inserted,
                  stale, twins >>

\* Mutant: an error in the response leaves mongoUpdateContext without giving
\* the semaphore.
Give_NotOnError(t) ==
  /\ At(t, "give")
  /\ reqSem' = (reqSem \/ ~call[t].failed)
  /\ Reply(t, "ok")
  /\ UNCHANGED << db, bounds, history >>

(***************************************************************************)
(* What the service routines make of the response: mongoUpdateContext      *)
(* itself always returns SccOk.  The routines of POST .../attrs, PATCH of  *)
(* an entity and PATCH of an attribute do not look into the response.      *)
(* Batch create and upsert do, but afterwards add every entity that they   *)
(* handed over to the successes, the failed ones included.  For an upsert, *)
(* "ok" is 201 or 204.                                                     *)
(***************************************************************************)
Unless(failed, what) == IF failed THEN "error" ELSE what

CreateAnswer(c)      == Unless(c.failed, "created")
AppendAnswer(c)      == "ok"
PatchAnswer(c)       == IF c.bad THEN "mixed" ELSE "ok"
PatchAttrAnswer(c)   == "ok"
BatchCreateAnswer(c) == IF c.failed THEN "mixed" ELSE "created"
BatchUpdateAnswer(c) == Unless(c.failed, "ok")
UpsertAnswer(c)      == IF c.failed THEN "mixed" ELSE "ok"
V2Answer(c)          == Unless(c.failed, IF c.op = "v2create" THEN "created" ELSE "ok")

Answer(c) ==
  CASE c.op = "create"      -> CreateAnswer(c)
    [] c.op = "append"      -> AppendAnswer(c)
    [] c.op = "patch"       -> PatchAnswer(c)
    [] c.op = "patchAttr"   -> PatchAttrAnswer(c)
    [] c.op = "batchCreate" -> BatchCreateAnswer(c)
    [] c.op = "batchUpdate" -> BatchUpdateAnswer(c)
    [] c.op = "upsert"      -> UpsertAnswer(c)
    [] OTHER                -> V2Answer(c)

Reports(op) == op \notin { "append", "patch", "patchAttr" }

\* reqSemGive, and the answer.
Give(t) ==
  /\ At(t, "give")
  /\ reqSem' = TRUE
  /\ Reply(t, Answer(call[t]))
  /\ UNCHANGED << db, bounds, history >>

Done(t) ==
  /\ At(t, "reply")
  /\ call' = [call EXCEPT ![t] = NoCall]
  /\ disturbed' = [disturbed EXCEPT ![t] = {}]
  /\ wrote' = [wrote EXCEPT ![t] = {}]
  /\ inserted' = [inserted EXCEPT ![t] = FALSE]
  /\ spoilt' = [spoilt EXCEPT ![t] = FALSE]
  /\ UNCHANGED << db, reqSem, bounds, stale, twins >>

-----------------------------------------------------------------------------
\* The process ends, whatever its threads are doing, and is started again.
Crash ==
  /\ call' = [t \in Thread |-> NoCall]
  /\ reqSem' = TRUE
  /\ disturbed' = [t \in Thread |-> {}]
  /\ wrote' = [t \in Thread |-> {}]
  /\ inserted' = [t \in Thread |-> FALSE]
  /\ spoilt' = [t \in Thread |-> FALSE]
  /\ UNCHANGED << db, requests, stale, twins >>

Kill ==
  /\ faults < MaxFaults
  /\ faults' = faults + 1
  /\ Crash

\* orionldPostEntity passes an empty vector of service paths, and createEntity
\* reads its first element: the entity must not vanish after the lookup.
VanishedCrash(t) ==
  /\ AtOp(t, "query", "append")
  /\ Matching(t) = {}
  /\ Crash
  /\ UNCHANGED faults

\* The refusal of the upsert in dbEntityAttributesDelete: with -writeConcern 1
\* (the default) the driver throws, and nobody catches the exception.
UnsetRefused(t) ==
  /\ At(t, "gap")
  /\ Alive = {}
  /\ Crash
  /\ UNCHANGED faults

\* The other lookups, and the deletions, of the service routines call the
\* driver directly, and nobody catches what it throws.
DriverThrows(t) ==
  /\ \/ /\ At(t, "lookup")
        /\ call[t].op \in { "append", "patch", "patchAttr", "delete", "deleteAttr" }
     \/ call[t].pc \in { "gap", "remove", "clear" }
  /\ faults < MaxFaults
  /\ faults' = faults + 1
  /\ Crash

LdStep(t) ==
  \/ LookUpCreate(t) \/ LookUpAppend(t) \/ LookUpPatch(t) \/ LookUpPatchAttr(t)
  \/ LookUpDelete(t) \/ LookUpDeleteAttr(t) \/ LookUpBatchCreate(t)
  \/ LookUpBatchUpdate(t) \/ LookUpUpsert(t) \/ LookUpBatchDelete(t)
  \/ Unset(t) \/ UnsetRefused(t) \/ RemoveOne(t) \/ Clear(t) \/ Convert(t)

Engine(t) ==
  \/ Take(t) \/ Count(t) \/ Query(t) \/ Insert(t) \/ Write(t) \/ Give(t)
  \/ VanishedCrash(t)

Work(t) == LdStep(t) \/ Engine(t) \/ Done(t)

Request(t) ==
  /\ At(t, "idle")
  /\ \E r \in Payloads :
       \/ LdRequest(t, r)
       \/ V2Create(t, r) \/ V2Upsert(t, r) \/ V2Append(t, r)
       \/ V2Update(t, r) \/ V2Replace(t, r) \/ V2Delete(t, r)

Next ==
  \/ \E t \in Thread :
       \/ Work(t) \/ Request(t)
       \/ Fault(t) \/ LookUpFails(t) \/ RemoveFails(t) \/ DriverThrows(t)
  \/ Kill

Spec == Init /\ [][Next]_vars

-----------------------------------------------------------------------------
\* The threads that are inside mongoUpdateContext.
Inside(t) == call[t].pc \in { "count", "query", "insert", "write", "give" }

CallState ==
  [pc : Locations, op : AllOps, n : Value, type : Type \cup { AnyType },
   asked : SUBSET Attr, keep : BOOLEAN, replace : BOOLEAN, bad : BOOLEAN,
   load : Values, docs : [Type -> Doc], todo : SUBSET Type, failed : BOOLEAN,
   answer : Answers]

(***************************************************************************)
(* Types; and reqSem is taken by one thread at a time, and it is taken     *)
(* only as long as a thread is inside mongoUpdateContext: no way out       *)
(* forgets it.                                                             *)
(***************************************************************************)
TypeOK ==
  /\ ReqMutex => /\ \A t, u \in Thread : Inside(t) /\ Inside(u) => t = u
                 /\ ~reqSem <=> \E t \in Thread : Inside(t)
  /\ db \in [Type -> Doc]
  /\ reqSem \in BOOLEAN
  /\ call \in [Thread -> CallState]
  /\ requests \in 0 .. MaxRequests
  /\ faults \in 0 .. MaxFaults
  /\ disturbed \in [Thread -> SUBSET { "change", "loss" }]
  /\ wrote \in [Thread -> SUBSET Attr]
  /\ inserted \in [Thread -> BOOLEAN]
  /\ spoilt \in [Thread -> BOOLEAN]
  /\ stale \in BOOLEAN /\ twins \in BOOLEAN

(***************************************************************************)
(* attrNames never names an attribute that attrs does not have, whatever   *)
(* interleaves: orionldPatchAttribute finds a document by attrNames and    *)
(* then takes the attribute of that name out of attrs.  The other way      *)
(* round, an attribute is missing in attrNames only if a document was      *)
(* written from a query that some request made stale by removing an        *)
(* attribute or the entity in between.                                     *)
(***************************************************************************)
NamesAgree ==
  \A ty \in Type :
    /\ db[ty].names \subseteq In(db[ty].attrs)
    /\ ~stale => In(db[ty].attrs) \subseteq db[ty].names

(***************************************************************************)
(* A request changes the attributes it names and no others.  PUT of an     *)
(* entity and what removes the whole entity are about all of them.  PATCH  *)
(* of an entity writes back every attribute it read, so it may undo what   *)
(* others did meanwhile.                                                   *)
(***************************************************************************)
ConcernsAll(c) ==
  \/ c.op \in { "v2replace", "delete", "batchDelete" }
  \/ c.op = "v2delete" /\ c.asked = {}
  \/ c.op = "upsert" /\ c.replace

OnlyNamedAttributesChange ==
  [][\A ty \in Type, a \in Attr :
       db'[ty].attrs[a] # db[ty].attrs[a] =>
         \E t \in Thread :
           /\ call'[t] # call[t]
           /\ \/ a \in call[t].asked
              \/ ConcernsAll(call[t])
              \/ call[t].op = "patch" /\ disturbed[t] # {}]_vars

(***************************************************************************)
(* An entity comes into being by a request to create it, or by an update   *)
(* that somebody deleted the entity under.                                 *)
(***************************************************************************)
OnlyCreatorsCreate ==
  [][\A ty \in Type :
       ~db[ty].alive /\ db'[ty].alive =>
         \E t \in Thread :
           /\ call'[t] # call[t]
           /\ \/ call[t].op \in { "create", "batchCreate", "upsert", "v2create", "v2upsert" }
              \/ "loss" \in disturbed[t]]_vars

(***************************************************************************)
(* What is acknowledged has been written: every attribute that was to be   *)
(* written and was not has an excuse.  Somebody removed an attribute or    *)
(* the entity meanwhile; or added it, or attrNames did not tell that it is *)
(* there, and it must not be overwritten; or the database failed and the   *)
(* routine does not look at the response.  The 207 of a batch create or    *)
(* upsert that lists the entity as a success and as an error has the       *)
(* excuse that the database failed or somebody else was at work.  (An      *)
(* attribute that PATCH could not convert was not handed on at all.)       *)
(* What is acknowledged as deleted is gone, unless others wrote meanwhile  *)
(* or several documents have the entity id (DELETE of an entity removes    *)
(* one of them).                                                           *)
(***************************************************************************)
Acknowledged(t) == At(t, "reply") /\ call[t].answer \in { "ok", "created", "mixed" }

Written(t) ==
  \/ { a \in Attr : call[t].load[a] = call[t].n } \subseteq wrote[t]
  \/ call[t].op \in { "delete", "batchDelete", "deleteAttr" }
  \/ "loss" \in disturbed[t]
  \/ call[t].keep /\ (disturbed[t] # {} \/ stale)
  \/ spoilt[t] /\ ~Reports(call[t].op)

ListedTwice(t) ==
  /\ call[t].answer = "mixed" /\ call[t].op \in { "batchCreate", "upsert" }
  /\ spoilt[t] \/ disturbed[t] # {}

Gone(t) ==
  disturbed[t] = {} /\ ~twins =>
    /\ call[t].op \in { "delete", "batchDelete" } => Alive = {}
    /\ call[t].op = "v2delete" /\ call[t].asked = {} => Matching(t) = {}
    /\ call[t].op \in { "v2delete", "deleteAttr" } =>
         \A ty \in Matching(t) : call[t].asked \cap In(db[ty].attrs) = {}

AcknowledgedIsDone ==
  \A t \in Thread : Acknowledged(t) => (Written(t) \/ ListedTwice(t)) /\ Gone(t)

(***************************************************************************)
(* Who asks for a new entity and is told 201 has inserted it.  An NGSIv2   *)
(* request always, as reqSem makes the count and the insertion one step;   *)
(* an NGSI-LD request, which looks before it takes reqSem ("If the entity  *)
(* already exists, an error should be returned"), unless somebody else     *)
(* changed the entity in between or that lookup failed: then it adds to    *)
(* the entity that is there, and is told 201 all the same.                 *)
(***************************************************************************)
CreatedOnce ==
  \A t \in Thread :
    At(t, "reply") /\ call[t].answer = "created" =>
      \/ inserted[t]
      \/ call[t].op \in LdOps /\ (disturbed[t] # {} \/ spoilt[t])
      \/ ~ReqMutex /\ disturbed[t] # {}
=============================================================================
