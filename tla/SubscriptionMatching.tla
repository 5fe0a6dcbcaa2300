------------------------ MODULE SubscriptionMatching ------------------------
(* What a subscription says, in the three forms that the broker keeps it in:  *)
(* the request, the document in csubs, and the item of the cache; and the two *)
(* ways in which an update of an entity finds the subscriptions it triggers:  *)
(* over the cache (subCacheMatch) and, with -noCache, by a query on csubs.    *)
(*                                                                            *)
(* An item gets into the cache in three ways: from the request that creates   *)
(* the subscription, from the new document and the request when it is         *)
(* updated, and from the document when the cache is refreshed.  Each has its  *)
(* own code and its own defaults.  NGSI-LD subscriptions have ids that the    *)
(* NGSIv2 requests of an update do not accept; the PATCH of NGSI-LD, which    *)
(* writes only the document, is in SubscriptionCache.                         *)
(*                                                                            *)
(* One subscription; requests and refreshes one after another, since how they *)
(* interleave is the subject of SubscriptionCache, which leaves out what is   *)
(* modelled here.  Notification counts and times, throttling, geo-queries and *)
(* the callback are left out.                                                 *)
EXTENDS StringFilter, Sequences, FiniteSets, SequencesExt

CONSTANTS
    Ids, Types,      \* of entities
    Regex,           \* Regex[p]: the names that p matches as a regular expression
    Creations,       \* requests that create the subscription
    Updates,         \* requests that update it
    Paths,           \* service paths of entities, as sequences of components
    Attrs,           \* of entities
    Times,           \* of updates of entities
    MaxRequests

Permanent == 1000   \* PERMANENT_EXPIRES_DATETIME: later than all Times

None == [none |-> TRUE]
All  == [at |-> <<>>, all |-> TRUE]      \* "/#", SERVICE_PATH_ALL

(* What a request can hold once it has been parsed.  An element of its list   *)
(* of entities has an id or a pattern for ids, a type or a pattern for types, *)
(* never both of them, and perhaps neither.                                   *)
EntIDs ==
    {en \in [id : STRING, idPattern : STRING, type : STRING, typePattern : STRING] :
        Empty \in {en.id, en.idPattern} /\ Empty \in {en.type, en.typePattern}}

ServicePaths == [at : Seq(STRING), all : BOOLEAN]

(* ldContext is empty in NGSIv2.  In NGSI-LD there is no "mq", no pattern of  *)
(* types, and the existence of dateCreated is that of an ordinary attribute.  *)
IsRequest(r) ==
    /\ r.subject.entities \in Seq(EntIDs)
    /\ r.subject.filter \in StringFilterItems \cup {None}
    /\ r.servicePathV \in Seq(ServicePaths)
    /\ r.expires \in Int
    /\ r.ldContext \in {Empty, "dotted", "plain"}
    /\ (r.ldContext # Empty /\ r.subject.filter # None) =>
            /\ r.subject.filter.lhs.type = "q"
            /\ r.subject.filter.op \in Unary => r.subject.filter.lhs.attributeName # "dateCreated"

Sections == {"subject", "notification", "expires", "status", "servicePath"}

ASSUME MatchingAssumption ==
    /\ {Empty, ".*"} \subseteq DOMAIN Regex
    /\ \A p \in {Empty, ".*"} : Ids \cup Types \cup {Empty} \subseteq Regex[p]
    /\ Times \subseteq Int /\ \A t \in Times : t < Permanent
    /\ Paths \subseteq Seq(STRING)
    /\ \A r \in Creations \cup Updates : IsRequest(r)
    /\ \A r \in Updates : r.ldContext = Empty /\ r.sections \subseteq Sections \ {"servicePath"}
    /\ MaxRequests \in Nat

VARIABLES
    csub,      \* the document, or None
    item,      \* the cached subscription, or None
    from,      \* the parts of the item that were made from the request or the document
    requests   \* number of requests so far

vars == <<csub, item, from, requests>>

-----------------------------------------------------------------------------
(* The document (MongoCommonSubscription.cpp).  An entity without a type has  *)
(* no field "type" in the document; an empty type stands for that.            *)

setEntities(entities) ==
    [i \in DOMAIN entities |->
        LET en == entities[i]
        IN  [id            |-> IF en.idPattern # Empty THEN en.idPattern ELSE en.id,
             isPattern     |-> CASE en.idPattern # Empty -> "true"
                                 [] en.idPattern = Empty /\ en.id # Empty -> "false"
                                 [] en.idPattern = Empty /\ en.id = Empty -> Empty,
             type          |-> IF en.typePattern # Empty THEN en.typePattern ELSE en.type,
             isTypePattern |-> en.typePattern # Empty]]

setStatus(status) == IF status = Empty THEN "active" ELSE status

setServicePath(servicePathV) == IF servicePathV = <<>> THEN All ELSE servicePathV[1]

(* The text of the filter: that of the request, or, in NGSI-LD, a rendering.  *)
(* It is modelled by what the parser makes of it, or Unparsable.              *)
Expression(r) ==
    IF r.ldContext # Empty /\ r.subject.filter # None
    THEN render(r.subject.filter, r.ldContext) ELSE r.subject.filter

Document(r) ==
    [ldContext   |-> r.ldContext,
     servicePath |-> setServicePath(r.servicePathV),
     expiration  |-> r.expires,
     status      |-> setStatus(r.status),
     entities    |-> setEntities(r.subject.entities),
     conditions  |-> r.subject.conditions,
     expression  |-> Expression(r),
     attrs       |-> r.notification.attributes,
     blacklist   |-> r.notification.blacklist,
     metadata    |-> r.notification.metadata]

(* An update takes what the request gives and keeps the rest, except for the  *)
(* service path, which is always that of the request.                         *)
UpdatedDocument(r, orig) ==
    LET Given(section) == section \in r.sections
    IN  [ldContext   |-> orig.ldContext,
         servicePath |-> setServicePath(r.servicePathV),
         expiration  |-> IF Given("expires") THEN r.expires ELSE orig.expiration,
         status      |-> IF Given("status") THEN setStatus(r.status) ELSE orig.status,
         entities    |-> IF Given("subject") THEN setEntities(r.subject.entities)
                         ELSE orig.entities,
         conditions  |-> IF Given("subject") THEN r.subject.conditions ELSE orig.conditions,
         expression  |-> IF Given("subject") THEN Expression(r) ELSE orig.expression,
         attrs       |-> IF Given("notification") THEN r.notification.attributes
                         ELSE orig.attrs,
         blacklist   |-> IF Given("notification") /\ r.notification.blacklistProvided
                         THEN r.notification.blacklist ELSE orig.blacklist,
         metadata    |-> IF Given("notification") THEN r.notification.metadata
                         ELSE orig.metadata]

-----------------------------------------------------------------------------
(* The three ways into the cache.                                             *)

EntityInfo(id, type, isPattern, isTypePattern) ==
    [entityId |-> id, entityType |-> type,
     isPattern |-> isPattern = "true", isTypePattern |-> isTypePattern]

(* insertInCache and subCacheItemInsert, from the request.                    *)
subCacheItemInsert_NoTypePatterns(r) ==
    [servicePath      |-> setServicePath(r.servicePathV),
     expirationTime   |-> r.expires,
     status           |-> r.status,
     entityIdInfos    |-> [i \in DOMAIN r.subject.entities |->
        LET en == r.subject.entities[i]
        IN  EntityInfo(IF en.id = Empty THEN en.idPattern ELSE en.id,
                       IF en.type = Empty THEN en.typePattern ELSE en.type,
                       IF en.id = Empty THEN "true" ELSE "false",
                       FALSE)],
     notifyConditionV |-> r.subject.conditions,
     stringFilter     |-> r.subject.filter,
     attributes       |-> r.notification.attributes,
     blacklist        |-> r.notification.blacklist,
     metadata         |-> r.notification.metadata]

subCacheItemInsert(r) ==
    [servicePath      |-> setServicePath(r.servicePathV),
     expirationTime   |-> r.expires,
     status           |-> r.status,
     entityIdInfos    |-> [i \in DOMAIN r.subject.entities |->
        LET en == r.subject.entities[i]
        IN  EntityInfo(IF en.id = Empty THEN en.idPattern ELSE en.id,
                       IF en.type = Empty THEN en.typePattern ELSE en.type,
                       IF en.id = Empty THEN "true" ELSE "false",
                       en.type = Empty)],
     notifyConditionV |-> r.subject.conditions,
     stringFilter     |-> r.subject.filter,
     attributes       |-> r.notification.attributes,
     blacklist        |-> r.notification.blacklist,
     metadata         |-> r.notification.metadata]

(* The entities of a document, in both forms of mongoSubCacheItemInsert.      *)
EntityInfos(doc) ==
    [i \in DOMAIN doc.entities |->
        LET en  == doc.entities[i]
            any == en.isPattern = Empty /\ en.id = Empty
        IN  EntityInfo(IF any THEN ".*" ELSE en.id, en.type,
                       IF any THEN "true" ELSE en.isPattern, en.isTypePattern)]

(* mongoSubCacheItemInsert of a refresh: the metadata are not loaded.         *)
ItemOfRefresh(doc) ==
    [servicePath      |-> doc.servicePath,
     expirationTime   |-> doc.expiration,
     status           |-> doc.status,
     entityIdInfos    |-> EntityInfos(doc),
     notifyConditionV |-> doc.conditions,
     stringFilter     |-> doc.expression,
     attributes       |-> doc.attrs,
     blacklist        |-> doc.blacklist,
     metadata         |-> {}]

(* A document without entities, or with a filter that does not parse, is not  *)
(* loaded.                                                                    *)
mongoSubCacheItemInsert(doc) ==
    IF doc.expression = Unparsable \/ doc.entities = <<>> THEN None ELSE ItemOfRefresh(doc)

(* updateInCache: the service path is the one of the item that is replaced,   *)
(* the filter the one of the request, if it has one.                          *)
ItemOfUpdate(r, doc, old) ==
    [servicePath      |-> old.servicePath,
     expirationTime   |-> doc.expiration,
     status           |-> doc.status,
     entityIdInfos    |-> EntityInfos(doc),
     notifyConditionV |-> doc.conditions,
     stringFilter     |-> IF "subject" \in r.sections THEN r.subject.filter ELSE None,
     attributes       |-> doc.attrs,
     blacklist        |-> doc.blacklist,
     metadata         |-> doc.metadata]

-----------------------------------------------------------------------------
(* Requests and refreshes.                                                    *)

(* mongoCreateSubscription: the cache first, then the database, which may     *)
(* fail.                                                                      *)
Create(r) ==
    /\ csub = None /\ item = None
    /\ requests < MaxRequests
    /\ item' = subCacheItemInsert(r)
    /\ csub' \in {Document(r), None}
    /\ from' = Sections
    /\ requests' = requests + 1

(* mongoUpdateSubscription: the database first, then, unless that fails, the  *)
(* cache.  Nothing enters the cache if the item is not there, or if the list  *)
(* of entities is empty, and then the old item stays.                         *)
Update(r) ==
    /\ csub # None /\ csub.ldContext = Empty
    /\ requests < MaxRequests
    /\ csub' = UpdatedDocument(r, csub)
    /\ IF item = None \/ csub'.entities = <<>>
       THEN UNCHANGED <<item, from>>
       ELSE item' = ItemOfUpdate(r, csub', item) /\ from' = r.sections
    /\ requests' = requests + 1

(* mongoSubCacheRefresh; the query may fail, after the cache has been emptied. *)
Refresh ==
    /\ item' \in {None, IF csub = None THEN None ELSE mongoSubCacheItemInsert(csub)}
    /\ from' = Sections
    /\ UNCHANGED <<csub, requests>>

Init == csub = None /\ item = None /\ from = Sections /\ requests = 0

Next ==
    \/ \E r \in Creations : Create(r)
    \/ \E r \in Updates : Update(r)
    \/ Refresh

Spec == Init /\ [][Next]_vars

-----------------------------------------------------------------------------
(* Which subscriptions an update of an entity triggers, with the cache.  An   *)
(* update has the id and type of the entity (which may have no type), the     *)
(* attributes that changed, a service path and a time.                        *)

EntityUpdates ==
    [id : Ids, type : Types \cup {Empty}, attrs : SUBSET Attrs \ {{}}, path : Paths, now : Times]

regexec(pattern, name) == name \in Regex[pattern]

EntityInfoMatch(ei, u) ==
    /\ IF ei.isPattern THEN regexec(ei.entityId, u.id) ELSE u.id = ei.entityId
    /\ IF ei.isTypePattern THEN regexec(ei.entityType, u.type)
       ELSE u.type = Empty \/ ei.entityType = Empty \/ ei.entityType = u.type

attributeMatch(cSub, u) ==
    cSub.notifyConditionV = {} \/ cSub.notifyConditionV \cap u.attrs # {}

(* "/a/b/#" is for /a/b itself and for what is below /a/b/.                   *)
servicePathMatch_OnlyBelow(cSub, u) ==
    LET spath == cSub.servicePath
    IN  IF ~spath.all THEN u.path = spath.at
        ELSE /\ IsPrefix(spath.at, u.path)
             /\ spath.at = <<>> \/ Len(u.path) > Len(spath.at)

servicePathMatch(cSub, u) ==
    LET spath == cSub.servicePath
    IN  IF ~spath.all THEN u.path = spath.at
        ELSE \/ spath.at # <<>> /\ u.path = spath.at
             \/ /\ IsPrefix(spath.at, u.path)
                /\ spath.at = <<>> \/ Len(u.path) > Len(spath.at)

subMatch(cSub, u) ==
    /\ servicePathMatch(cSub, u)
    /\ attributeMatch(cSub, u)
    /\ \E i \in DOMAIN cSub.entityIdInfos : EntityInfoMatch(cSub.entityIdInfos[i], u)

(* addTriggeredSubscriptions_withCache                                        *)
withCache(cSub, u) ==
    /\ subMatch(cSub, u)
    /\ ~(cSub.expirationTime < u.now)
    /\ cSub.status # "inactive"

-----------------------------------------------------------------------------
(* The same without the cache: a query on csubs.  A condition on a field of   *)
(* the array "entities" holds if it holds for some element, not necessarily   *)
(* the same as for another condition; $ne and $exists: false ask for all.     *)

servicePathSubscriptionRegex(path) ==
    {All, [at |-> path, all |-> FALSE]}
        \cup {[at |-> SubSeq(path, 1, n), all |-> TRUE] : n \in 1 .. Len(path)}

Common(doc, u) ==
    /\ doc.expiration > u.now
    /\ doc.status # "inactive"
    /\ doc.servicePath \in servicePathSubscriptionRegex(u.path)

Some(doc, P(_)) == \E i \in DOMAIN doc.entities : P(doc.entities[i])

fill_idNPtypeNP(doc, u) ==
    /\ Some(doc, LAMBDA en : en.id = u.id)
    /\ \/ Some(doc, LAMBDA en : en.type # Empty /\ en.type = u.type)
       \/ ~Some(doc, LAMBDA en : en.type # Empty)
    /\ Some(doc, LAMBDA en : en.isPattern = "false")
    /\ ~Some(doc, LAMBDA en : en.isTypePattern)

fill_idPtypeNP(doc, u) ==
    /\ ~Some(doc, LAMBDA en : en.isTypePattern)
    /\ Some(doc, LAMBDA en : /\ en.isPattern = "true" /\ ~en.isTypePattern
                             /\ en.type \in {u.type, Empty}
                             /\ regexec(en.id, u.id))

fill_idNPtypeP(doc, u) ==
    Some(doc, LAMBDA en : /\ en.isPattern = "false" /\ en.isTypePattern
                          /\ en.id = u.id
                          /\ regexec(en.type, u.type))

fill_idPtypeP(doc, u) ==
    Some(doc, LAMBDA en : /\ en.isPattern = "true" /\ en.isTypePattern
                          /\ regexec(en.id, u.id)
                          /\ regexec(en.type, u.type))

condValueAttrMatch(doc, u) ==
    doc.conditions = {} \/ doc.conditions \cap u.attrs # {}

Found(doc, u) ==
    /\ Common(doc, u)
    /\ \/ fill_idNPtypeNP(doc, u) \/ fill_idPtypeNP(doc, u)
       \/ fill_idNPtypeP(doc, u) \/ fill_idPtypeP(doc, u)

(* addTriggeredSubscriptions_noCache: what becomes of a document.  Its _id is *)
(* read as an OID, which raises an exception for the _id of NGSI-LD, a string. *)
noCache(doc, u) ==
    CASE ~Found(doc, u) -> "skip"
      [] Found(doc, u) /\ doc.ldContext # Empty -> "exception"
      [] Found(doc, u) /\ doc.ldContext = Empty ->
            IF condValueAttrMatch(doc, u) THEN "trigger" ELSE "skip"

-----------------------------------------------------------------------------
(* Properties.                                                                *)

(* An NGSI-LD filter that the document can express: on an attribute whose     *)
(* expanded name has no dots, not on a part of its value, and without a       *)
(* pattern, a range, a list, the Boolean false or a string that needs its     *)
(* quotes.                                                                    *)
Survives(f, ldContext) ==
    /\ ldContext = "plain"
    /\ f.lhs.attributeName # "dateCreated" /\ f.lhs.compoundPath = Empty
    /\ f.op \notin Unary =>
            /\ f.rhs.form = "value"
            /\ f.rhs.type = "Boolean" => f.rhs.v
            /\ f.rhs.type = "String" => Unquoted[f.rhs.v] = f.rhs

(* However a subscription came into the cache, by creation, update or         *)
(* refresh, it is still there after the next refresh, is triggered by the     *)
(* same updates of entities, tests the same filter and notifies the same      *)
(* attributes; a refresh is not visible.  These are known to differ until     *)
(* then: an update without "subject" drops the filter of the item, any update *)
(* leaves its service path as it was, an update that empties the list of      *)
(* entities leaves the whole item, and the filter of an NGSI-LD subscription  *)
(* is changed by the refresh, or keeps the subscription out of the cache,     *)
(* unless the document can express it (Survives).                             *)
RefreshChangesNoDecision ==
    (csub # None /\ item # None /\ csub.entities # <<>>) =>
        LET fresh == mongoSubCacheItemInsert(csub)
            Lost  == /\ csub.ldContext # Empty /\ item.stringFilter # None
                     /\ ~Survives(item.stringFilter, csub.ldContext)
        IN  /\ Lost \/ fresh # None
            /\ fresh # None =>
                /\ ("subject" \in from /\ ~Lost) => item.stringFilter = fresh.stringFilter
                /\ "servicePath" \in from => item.servicePath = fresh.servicePath
                /\ item.attributes = fresh.attributes /\ item.blacklist = fresh.blacklist
                /\ \A u \in EntityUpdates :
                    withCache([item EXCEPT !.servicePath = fresh.servicePath], u)
                        = withCache(fresh, u)

(* The cache and the query of -noCache find an NGSIv2 subscription for the    *)
(* same updates of entities.  (For an NGSI-LD subscription the query has no   *)
(* answer: see noCache.)  They are known to differ after an update that       *)
(* empties the list of entities, which leaves the item, for a list of         *)
(* entities of several types (the query takes the id from one element and the *)
(* type from another), for entities without a type, for a subscription on a   *)
(* type only, which has no id in the document, at the very time of the        *)
(* expiration, and for an id that is spelt as a pattern of the list that does *)
(* not match it.                                                              *)
CacheDecidesAsQuery ==
    (csub # None /\ item # None /\ csub.ldContext = Empty /\ csub.entities # <<>>) =>
        LET OneType == \A i, j \in DOMAIN csub.entities :
                            /\ csub.entities[i].type = csub.entities[j].type
                            /\ csub.entities[i].isTypePattern = csub.entities[j].isTypePattern
            HaveIds == ~Some(csub, LAMBDA en : en.isPattern = Empty)
        IN  (OneType /\ HaveIds /\ item.servicePath = csub.servicePath) =>
                \A u \in EntityUpdates :
                    (/\ u.type # Empty /\ u.now # csub.expiration
                     /\ ~Some(csub, LAMBDA en : /\ en.isPattern = "true" /\ en.id = u.id
                                                /\ ~regexec(en.id, u.id))) =>
                        (withCache(item, u) <=> noCache(csub, u) = "trigger")

(* The filter that decides about a notification accepts the entities that the *)
(* same filter finds in a query, whatever an entity holds, with three known   *)
(* exceptions (KnownToDiffer).                                                *)
FilterDecidesAsQuery ==
    (item # None /\ item.stringFilter # None) =>
        \A e \in TestedEntities :
            \/ KnownToDiffer(item.stringFilter, e)
            \/ match(item.stringFilter, e) = {mongoFilterPopulate(item.stringFilter, e)}
=============================================================================
